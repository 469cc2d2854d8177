----------------------------- MODULE ChatTurns ------------------------------
(***************************************************************************)
(* Who calls the inference engine and when: submit on the Java UI thread,  *)
(* the worker thread of a chat message, the worker thread of /draft, the   *)
(* threads the model picker starts, and the window being closed            *)
(* (native/ChatEngine.cpp, native/main.cpp).                               *)
(*                                                                         *)
(* A worker's stage is what it does next once the engine call it made has  *)
(* returned, i.e. once its engine program counter is back at "idle".       *)
(* Submissions are those that get past the pending-patch branch, which     *)
(* SanityValve.tla models.                                                 *)
(***************************************************************************)
EXTENDS InferenceEngine

CONSTANTS
    Worker,      \* the thread of inference_thread_func
    Drafter,     \* the thread of /draft
    Pickers,     \* the threads that selections in the model picker start
    Specialist   \* [{"CODE", "REASON"} -> the core the router wants]

Classes == {"CHAT", "CODE", "REASON"}

ASSUME TurnConstants ==
    /\ Pickers \subseteq Threads
    /\ Worker \in Threads /\ Drafter \in Threads
    /\ Worker # Drafter /\ Worker # InitThread /\ Drafter # InitThread
    /\ Worker \notin Pickers /\ Drafter \notin Pickers /\ InitThread \notin Pickers
    /\ Specialist \in [{"CODE", "REASON"} -> Cores \cup {NoCore}]

VARIABLES
    chat,      \* ChatEngine::state
    busy,      \* PatchExecutor's busy_
    pending,   \* pending_swap_path_
    stage,     \* per thread: what it does next
    closed,    \* the main loop has ended
    crossed    \* history: two threads were swapping at the same time

turnVars == <<chat, busy, pending, stage, closed>>
appVars == <<engineVars, turnVars>>
vars == <<appVars, crossed>>

Stages == {"off", "compress", "swap", "answer", "finish", "draft", "queue"}

\* Types; no core is noted for a swap that the device does not have.
TypeOK ==
    /\ EngineTypeOK
    /\ chat \in {"IDLE", "INFERRING"}
    /\ busy \in BOOLEAN /\ closed \in BOOLEAN /\ crossed \in BOOLEAN
    /\ pending \in Cores \cup {NoCore}
    /\ stage \in [Threads -> Stages]

Init ==
    /\ EngineInit
    /\ chat = "IDLE" /\ busy = FALSE /\ closed = FALSE /\ crossed = FALSE
    /\ pending = NoCore
    /\ stage = [t \in Threads |-> "off"]

At(t, s) == stage[t] = s /\ pc[t] = "idle"
Enter(t, s) == stage' = [stage EXCEPT ![t] = s]

-----------------------------------------------------------------------------
(* The Java UI thread: submit. *)

\* Mutant: submit does not ask whether a draft is under way.
AcceptsDrafting == ~closed /\ chat = "IDLE"

\* A message is looked at only when no answer is under way and no draft is.
Accepts == ~closed /\ chat = "IDLE" /\ ~busy

\* The auto-router notes a core for "later"; it clears no earlier note.
Routed(class) ==
    IF class # "CHAT" /\ Specialist[class] \notin {name, NoCore}
    THEN Specialist[class] ELSE pending

SubmitChat(class) ==
    /\ Accepts
    /\ isInit
    /\ pending' = Routed(class)
    /\ chat' = "INFERRING"
    /\ Enter(Worker, "compress")
    /\ UNCHANGED <<engineVars, busy, closed>>

SubmitDraft(class) ==
    /\ Accepts
    /\ pending' = Routed(class)
    /\ busy' = TRUE
    /\ Enter(Drafter, "draft")
    /\ UNCHANGED <<engineVars, chat, closed>>

\* The slash commands that start no thread, and a message that finds the
\* model not loaded: they have been routed like any other.
SubmitOther(class) ==
    /\ Accepts
    /\ pending' = Routed(class)
    /\ UNCHANGED <<engineVars, chat, busy, stage, closed>>

Submit(class) == SubmitChat(class) \/ SubmitDraft(class) \/ SubmitOther(class)

-----------------------------------------------------------------------------
(* The worker of a chat message: inference_thread_func. *)

\* compress_history asks the engine for a summary when the history is long.
Compress ==
    /\ At(Worker, "compress")
    /\ Enter(Worker, "swap")
    /\ \/ CallGenerate(Worker)
       \/ UNCHANGED engineVars
    /\ UNCHANGED <<chat, busy, pending, closed>>

TakePending ==
    /\ At(Worker, "swap")
    /\ Enter(Worker, "answer")
    /\ pending' = NoCore
    /\ IF pending = NoCore THEN UNCHANGED engineVars
       ELSE /\ HotSwap(Worker, pending, "idle")
            /\ UNCHANGED <<mutex, modelVars, name, isInit, isGen, img, vocab>>
    /\ UNCHANGED <<chat, busy, closed>>

Answer ==
    /\ At(Worker, "answer")
    /\ Enter(Worker, "finish")
    /\ CallGenerate(Worker)
    /\ UNCHANGED <<chat, busy, pending, closed>>

\* The reply is in the history; IDLE is stored last.
Finish ==
    /\ At(Worker, "finish")
    /\ Enter(Worker, "off")
    /\ chat' = "IDLE"
    /\ UNCHANGED <<engineVars, busy, pending, closed>>

(* The worker of /draft. *)

Draft ==
    /\ At(Drafter, "draft")
    /\ Enter(Drafter, "queue")
    /\ CallGenerate(Drafter)
    /\ UNCHANGED <<chat, busy, pending, closed>>

QueueDraft ==
    /\ At(Drafter, "queue")
    /\ Enter(Drafter, "off")
    /\ busy' = FALSE
    /\ UNCHANGED <<engineVars, chat, pending, closed>>

(* The render loop: a tap in the model picker, the end of the loop. *)
Pick(t) ==
    /\ ~closed
    /\ CallSwap(t)
    /\ UNCHANGED turnVars

CloseWindow ==
    /\ ~closed
    /\ closed' = TRUE
    /\ StopGeneration
    /\ UNCHANGED <<chat, busy, pending, stage>>

\* Nothing is left to do in a closed application.
AtRest == \A t \in Threads : At(t, "off")

Closed ==
    /\ closed
    /\ AtRest
    /\ UNCHANGED vars

\* The engine goes on with the call a thread has made.  Only the callback of
\* /draft ever asks the sampling to end.
Serve(t) == EngineStep(t) /\ UNCHANGED turnVars

WorkerStep == Compress \/ TakePending \/ Answer \/ Finish
DrafterStep == Draft \/ QueueDraft

TurnStep ==
    \/ \E class \in Classes : Submit(class)
    \/ WorkerStep \/ DrafterStep
    \/ \E t \in Pickers : Pick(t)
    \/ CloseWindow \/ Closed
    \/ \E t \in Threads : Serve(t)

\* From the wish for a swap to the name that is set last.
Swapping(t) == pc[t] \in {"load", "loading", "named"}
Crossing == \E t, u \in Threads : t # u /\ Swapping(t) /\ Swapping(u)

Next == TurnStep /\ crossed' = (crossed \/ Crossing')

\* The threads the program starts are scheduled, and a waiter gets a lock it
\* finds free again and again.  Nobody has to type, tap or close.
Fairness ==
    /\ \A t \in Threads :
         /\ WF_appVars(Serve(t))
         /\ SF_appVars(LockStep(t) /\ UNCHANGED turnVars)
    /\ WF_appVars(WorkerStep) /\ WF_appVars(DrafterStep)

Spec == Init /\ [][Next]_vars /\ Fairness

-----------------------------------------------------------------------------
\* generate silently returns when is_generating_ is set (InferenceEngine.cpp:
\* 157), which would lose an answer or a draft.  It never happens: the chat
\* state and the draft's busy flag keep two callers from meeting, even while
\* the vision swap has the lock and the flag down.
NoCallDropped == \A t \in Threads : pc[t] = "call" => ~isGen

\* A generation is cut short by somebody else's wish only: the stop flag that
\* its own swaps raise (the routed one before it, the vision one inside it) is
\* down again when it samples.
StopIsForeign ==
    \A t \in Threads : pc[t] = "sample" /\ stop =>
        closed \/ \E p \in Pickers : pc[p] = "load"

\* Whenever nobody is working, the name the screen and the router go by is
\* that of the core in memory, across boot, routed swaps, vision swaps and
\* selections in the picker: hot_swap_to_path sets the name when the lock is
\* gone (InferenceEngine.cpp:303).  Two swaps that are under way at the same
\* time can set their names in the other order, and nothing mends it later.
\* Nothing is said of the name that a failed load leaves beside no core at all.
NameTruthful ==
    AtRest /\ core # NoCore /\ ~crossed => name = core

\* Every message gets its turn over, every draft is queued, every selection in
\* the picker is carried out: the input box does not stay blocked.
TurnEnds == chat = "INFERRING" ~> chat = "IDLE"
DraftEnds == busy ~> ~busy
PickLands == \A t \in Pickers : pc[t] = "load" ~> pc[t] = "idle"
=============================================================================
