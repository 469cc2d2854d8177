------------------------------- MODULE Forge --------------------------------
(***************************************************************************)
(* APK builds (native/Forge.cpp): /forge on the Java UI thread writes      *)
(* build_request.txt, the bridge in Termux picks it up, builds and writes  *)
(* build_result.txt, and the render loop looks for that file every second. *)
(* Requests are numbered as they are written, an answer is known by the    *)
(* number of its request, and zero stands for no file.  The two files and  *)
(* the bridge survive the application.                                     *)
(***************************************************************************)
EXTENDS Naturals

CONSTANTS MaxRequests    \* bound on the requests that are written

ASSUME ForgeConstants == MaxRequests \in Nat

VARIABLES
    pending,    \* pending_
    jui,        \* the UI thread in RequestBuild: what it does next
    poll,       \* the render loop in PollResult: "idle", or "read"
    got,        \* the answer it has read
    request,    \* build_request.txt
    result,     \* build_result.txt
    building,   \* the request the bridge works on
    written,    \* requests written so far
    asked,      \* history: the last request this session made
    astray,     \* history: this session found a build under way
    lost        \* history: the answer being waited for was deleted unread

threadVars == <<pending, jui, poll, got>>
queueVars == <<request, result, building>>
pastVars == <<written, asked, astray, lost>>
forgeVars == <<threadVars, queueVars, pastVars>>

Requests == 0..MaxRequests

\* Types; no file and no answer is of a request that was never written.
ForgeTypeOK ==
    /\ pending \in BOOLEAN
    /\ jui \in {"idle", "check", "mark"}
    /\ poll \in {"idle", "read"}
    /\ written \in Requests
    /\ {got, request, result, building, asked} \subseteq 0..written
    /\ astray \in BOOLEAN /\ lost \in BOOLEAN

ForgeInit ==
    /\ pending = FALSE /\ jui = "idle" /\ poll = "idle" /\ got = 0
    /\ request = 0 /\ result = 0 /\ building = 0
    /\ written = 0 /\ asked = 0 /\ astray = FALSE /\ lost = FALSE

-----------------------------------------------------------------------------
(* RequestBuild. *)

\* The last copy of the answer goes, with nobody left to write another.
Destroys ==
    /\ pending /\ poll = "idle"
    /\ result # 0
    /\ asked \notin {request, building}

\* The old result is removed before anything else is looked at.
RequestClear ==
    /\ jui = "idle"
    /\ written < MaxRequests
    /\ result' = 0
    /\ lost' = (lost \/ Destroys)
    /\ jui' = "check"
    /\ UNCHANGED <<pending, poll, got, request, building, written, asked, astray>>

\* "Forge busy or queue error."
RequestRefuse ==
    /\ jui = "check"
    /\ pending
    /\ jui' = "idle"
    /\ UNCHANGED <<pending, poll, got, queueVars, pastVars>>

\* The same, because the file does not open.
RequestFail ==
    /\ jui = "check"
    /\ ~pending
    /\ jui' = "idle"
    /\ UNCHANGED <<pending, poll, got, queueVars, pastVars>>

Write ==
    /\ written' = written + 1
    /\ request' = written'
    /\ asked' = written'
    /\ jui' = "mark"

\* Mutant: pending_ is not looked at.
RequestWriteAnyway ==
    /\ jui = "check"
    /\ Write
    /\ UNCHANGED <<pending, poll, got, result, building, astray, lost>>

RequestWrite ==
    /\ jui = "check"
    /\ ~pending
    /\ Write
    /\ UNCHANGED <<pending, poll, got, result, building, astray, lost>>

\* Mutant: the old result is removed when the request is out.
RequestMarkClearing ==
    /\ jui = "mark"
    /\ pending' = TRUE
    /\ jui' = "idle"
    /\ result' = 0
    /\ UNCHANGED <<poll, got, request, building, pastVars>>

\* "Forge request sent. Waiting for Bridge..."
RequestMark ==
    /\ jui = "mark"
    /\ pending' = TRUE
    /\ jui' = "idle"
    /\ UNCHANGED <<poll, got, queueVars, pastVars>>

-----------------------------------------------------------------------------
(* PollResult. *)

PollRead ==
    /\ poll = "idle"
    /\ pending
    /\ result # 0
    /\ got' = result
    /\ poll' = "read"
    /\ UNCHANGED <<pending, jui, queueVars, pastVars>>

\* Mutant: the request stays marked after its answer.
PollDoneMarked ==
    /\ poll = "read"
    /\ result' = 0
    /\ lost' = FALSE
    /\ got' = 0
    /\ poll' = "idle"
    /\ UNCHANGED <<pending, jui, request, building, written, asked, astray>>

\* "FORGE: build ...": the result is removed, and another request may be made.
PollDone ==
    /\ poll = "read"
    /\ result' = 0
    /\ pending' = FALSE
    /\ lost' = FALSE
    /\ got' = 0
    /\ poll' = "idle"
    /\ UNCHANGED <<jui, request, building, written, asked, astray>>

-----------------------------------------------------------------------------
(* The bridge, and the end of the process. *)

\* "delete result file on RequestBuild and watcher pickup" (GOTCHA_LEDGER.md:36).
PickUp ==
    /\ building = 0
    /\ request # 0
    /\ building' = request
    /\ request' = 0
    /\ result' = 0
    /\ UNCHANGED <<threadVars, pastVars>>

Finish ==
    /\ building # 0
    /\ result' = building
    /\ building' = 0
    /\ UNCHANGED <<threadVars, request, pastVars>>

\* The process is gone, and the next one starts with what lies in the queue.
Restart ==
    /\ pending' = FALSE /\ jui' = "idle" /\ poll' = "idle" /\ got' = 0
    /\ asked' = 0
    /\ lost' = FALSE
    /\ astray' = ({request, result, building} # {0})
    /\ UNCHANGED <<queueVars, written>>

-----------------------------------------------------------------------------
RequestStep == RequestRefuse \/ RequestFail \/ RequestWrite \/ RequestMark
PollStep == PollRead \/ PollDone
BridgeStep == PickUp \/ Finish

ForgeNext == RequestClear \/ RequestStep \/ PollStep \/ BridgeStep \/ Restart

\* Threads run, the loop polls, the bridge serves; nobody has to ask.
ForgeFairness ==
    /\ WF_forgeVars(RequestStep) /\ WF_forgeVars(PollStep)
    /\ WF_forgeVars(BridgeStep)

ForgeSafety == ForgeInit /\ [][ForgeNext]_forgeVars

ForgeSpec == ForgeSafety /\ ForgeFairness

-----------------------------------------------------------------------------
\* A session that waits has something to wait for: its request, its build or a
\* result is on the way, however J, G and the bridge interleave (the result file
\* is removed in three places, Forge.cpp:8 and 32 and by the bridge).  The one
\* exception is a second /forge that deletes the answer which has just arrived:
\* pending_ then stays up until the application is started anew.
AnswerOnItsWay ==
    pending /\ ~lost /\ poll = "idle" =>
        asked \in {request, building} \/ result # 0

\* "FORGE: build SUCCESS" speaks of the build that was asked for, in a session
\* that found nothing of an earlier one in the queue or in the bridge's hands.
OwnAnswer == poll = "read" /\ ~astray => got = asked

\* Whoever waits is answered some day, unless the answer was deleted.
BuildAnswered == pending ~> ~pending \/ lost

\* GOTCHA_LEDGER.md:36: "stale build_result.txt false SUCCESS ... delete result
\* file on RequestBuild and watcher pickup": that does not help against a build
\* that ends after the application was restarted and has asked for another.
FreshAnswer == poll = "read" => got = asked
=============================================================================
