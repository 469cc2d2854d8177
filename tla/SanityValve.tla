---------------------------- MODULE SanityValve -----------------------------
(***************************************************************************)
(* The way of an AI-drafted patch from /draft to its execution: the draft  *)
(* thread, the queue the render loop empties into the vault, the "y" or "n" *)
(* of the user, the patch file, and the Termux watcher that runs it        *)
(* (native/ChatEngine.cpp, native/PatchExecutor.cpp, native/MemoryVault.cpp,*)
(* tools/patch_watcher.sh).                                                *)
(*                                                                         *)
(* Drafts are numbered as they are made, rows of pending_patches and patch *)
(* files by their id.  Zero stands for no draft.  The vault and the files  *)
(* survive the application, everything else does not.                      *)
(***************************************************************************)
EXTENDS Naturals, Sequences, FiniteSets

CONSTANTS
    MaxDrafts,   \* bound on the drafts the user asks for
    MayCrash,    \* the application and the watcher may be killed
    MayFail      \* the patch file may fail to open, a statement of the vault to run

ASSUME ValveConstants ==
    /\ MaxDrafts \in Nat
    /\ MayCrash \in BOOLEAN /\ MayFail \in BOOLEAN

Drafts == 1..MaxDrafts
Ids == 1..MaxDrafts
None == 0

VARIABLES
    made,       \* drafts asked for so far
    drafting,   \* the draft thread: "off", "asking" the engine, "queued"
    busy,       \* PatchExecutor's busy_
    queue,      \* draft_queue_
    stage,      \* the Stage screen is on: the main loop skips the flush
    vault,      \* pending_patches: per id the draft, or None
    lastId,     \* the AUTOINCREMENT sequence of that table
    jui,        \* the UI thread in submit: "idle", "opened", "written"
    judged,     \* the id it is approving
    file,       \* patch_<id>.sh: "absent", "partial" or "whole"
    content,    \* the draft in that file, wherever the file has gone
    watch,      \* the watcher: "down", "up", "running", "ran"
    wid,        \* the id it is running
    lock,       \* the watcher's lock directory exists
    answers,    \* history: per draft the replies it was given
    told,       \* history: drafts whose approval the user was told of
    runs,       \* history: per draft how often it was started (up to two)
    torn,       \* history: drafts run from a file that was not whole
    severed     \* history: drafts a kill or a failure has struck

appVars == <<made, drafting, busy, queue, stage>>
vaultVars == <<vault, lastId>>
submitVars == <<jui, judged>>
fileVars == <<file, content>>
watchVars == <<watch, wid, lock>>
pastVars == <<answers, told, runs, torn, severed>>
vars == <<appVars, vaultVars, submitVars, fileVars, watchVars, pastVars>>

\* Types; what is queued, stored and run are drafts that were asked for.
TypeOK ==
    /\ made \in 0..MaxDrafts
    /\ drafting \in {"off", "asking", "queued"}
    /\ busy \in BOOLEAN /\ stage \in BOOLEAN
    /\ queue \in Seq(Drafts)
    /\ vault \in [Ids -> Drafts \cup {None}]
    /\ lastId \in Nat
    /\ jui \in {"idle", "opened", "written"}
    /\ judged \in Ids \cup {None}
    /\ file \in [Ids -> {"absent", "partial", "whole"}]
    /\ content \in [Ids -> Drafts \cup {None}]
    /\ watch \in {"down", "up", "running", "ran"}
    /\ wid \in Ids \cup {None}
    /\ lock \in BOOLEAN
    /\ answers \in [Drafts -> SUBSET {"y", "n"}]
    /\ told \subseteq Drafts
    /\ runs \in [Drafts -> 0..2]
    /\ torn \subseteq Drafts /\ severed \subseteq Drafts

Init ==
    /\ made = 0 /\ drafting = "off" /\ busy = FALSE /\ queue = <<>>
    /\ stage = FALSE
    /\ vault = [i \in Ids |-> None] /\ lastId = 0
    /\ jui = "idle" /\ judged = None
    /\ file = [i \in Ids |-> "absent"] /\ content = [i \in Ids |-> None]
    /\ watch = "down" /\ wid = None /\ lock = FALSE
    /\ answers = [d \in Drafts |-> {}] /\ told = {}
    /\ runs = [d \in Drafts |-> 0] /\ torn = {} /\ severed = {}

Pending == {i \in Ids : vault[i] # None}

\* SELECT without ORDER BY walks the table by its integer primary key.
First(i) == i \in Pending /\ \A k \in Pending : i <= k

-----------------------------------------------------------------------------
(* Drafting. *)

\* submit looks at busy_ and at the pending patches before it looks for /draft;
\* a vault that cannot be read shows none.
StartDraft ==
    /\ jui = "idle" /\ ~busy
    /\ Pending = {} \/ MayFail
    /\ made < MaxDrafts
    /\ made' = made + 1
    /\ busy' = TRUE
    /\ drafting' = "asking"
    /\ UNCHANGED <<queue, stage, vaultVars, submitVars, fileVars, watchVars, pastVars>>

\* Mutant: the thread queues the draft before its own.
QueueDraftStale ==
    /\ drafting = "asking"
    /\ queue' = Append(queue, made - 1)
    /\ drafting' = "queued"
    /\ UNCHANGED <<made, busy, stage, vaultVars, submitVars, fileVars,
                   watchVars, pastVars>>

QueueDraft ==
    /\ drafting = "asking"
    /\ queue' = Append(queue, made)
    /\ drafting' = "queued"
    /\ UNCHANGED <<made, busy, stage, vaultVars, submitVars, fileVars,
                   watchVars, pastVars>>

\* busy_ is lowered and the user is asked, whether or not the render loop has
\* taken the draft out of the queue.
ReleaseDraft ==
    /\ drafting = "queued"
    /\ busy' = FALSE
    /\ drafting' = "off"
    /\ UNCHANGED <<made, queue, stage, vaultVars, submitVars, fileVars, watchVars, pastVars>>

\* Mutant: ids are taken from the rows there are, as without AUTOINCREMENT.
FlushReusingIds ==
    LET last == IF Pending = {} THEN 0 ELSE CHOOSE i \in Pending : \A k \in Pending : k <= i
    IN  /\ ~stage
        /\ queue # <<>>
        /\ vault' = [i \in Ids |-> IF i \in (last + 1)..(last + Len(queue))
                                   THEN queue[i - last] ELSE vault[i]]
        /\ queue' = <<>>
        /\ UNCHANGED <<made, drafting, busy, stage, lastId, submitVars, fileVars,
                       watchVars, pastVars>>

\* Mutant: the queue is cleared for the Stage screen's frames as well, where
\* nothing is written to the vault.
FlushLosing ==
    /\ queue # <<>>
    /\ queue' = <<>>
    /\ vault' = [i \in Ids |-> IF ~stage /\ i \in (lastId + 1)..(lastId + Len(queue))
                               THEN queue[i - lastId] ELSE vault[i]]
    /\ lastId' = IF stage THEN lastId ELSE lastId + Len(queue)
    /\ UNCHANGED <<made, drafting, busy, stage, submitVars, fileVars,
                   watchVars, pastVars>>

\* Mutant: the rows are written and the queue is not emptied.
FlushKeeping ==
    /\ ~stage
    /\ queue # <<>>
    /\ vault' = [i \in Ids |-> IF i \in (lastId + 1)..(lastId + Len(queue))
                               THEN queue[i - lastId] ELSE vault[i]]
    /\ lastId' = lastId + Len(queue)
    /\ UNCHANGED <<made, drafting, busy, queue, stage, submitVars, fileVars,
                   watchVars, pastVars>>

\* The n places of the queue whose INSERT succeeds, in their order.
Inserted(n) ==
    {pick \in [1..n -> 1..Len(queue)] : \A k, l \in 1..n : k < l => pick[k] < pick[l]}

\* A chat frame of the render loop: each queued draft becomes a row, or the vault
\* does not take it, which nobody is told; the queue is emptied in any case.
Flush ==
    /\ ~stage
    /\ queue # <<>>
    /\ \E n \in 0..Len(queue) : \E pick \in Inserted(n) :
          /\ MayFail \/ n = Len(queue)
          /\ vault' = [i \in Ids |-> IF i \in (lastId + 1)..(lastId + n)
                                     THEN queue[pick[i - lastId]] ELSE vault[i]]
          /\ lastId' = lastId + n
          /\ severed' = severed \cup {queue[k] : k \in 1..Len(queue) \ {pick[l] : l \in 1..n}}
    /\ queue' = <<>>
    /\ UNCHANGED <<made, drafting, busy, stage, submitVars, fileVars,
                   watchVars, answers, told, runs, torn>>

SwipeStage ==
    /\ stage' = ~stage
    /\ UNCHANGED <<made, drafting, busy, queue, vaultVars, submitVars, fileVars,
                   watchVars, pastVars>>

-----------------------------------------------------------------------------
(* The user's reply. *)

Reply(i, answer) ==
    /\ jui = "idle" /\ ~busy
    /\ First(i)
    /\ answers' = [answers EXCEPT ![vault[i]] = @ \cup {answer}]

\* Mutant: the row next in line is written out, not the one asked about.
SubmitYesNext(i) ==
    \E k \in Pending :
    /\ jui = "idle" /\ ~busy
    /\ First(i)
    /\ answers' = [answers EXCEPT ![vault[i]] = @ \cup {"y"}]
    /\ judged' = k
    /\ file' = [file EXCEPT ![k] = "partial"]
    /\ content' = [content EXCEPT ![k] = vault[k]]
    /\ jui' = "opened"
    /\ UNCHANGED <<appVars, vaultVars, watchVars, told, runs, torn, severed>>

\* "y": opening the file empties it; when that fails the code goes on.
SubmitYes(i) ==
    /\ Reply(i, "y")
    /\ judged' = i
    /\ \/ /\ file' = [file EXCEPT ![i] = "partial"]
          /\ content' = [content EXCEPT ![i] = vault[i]]
          /\ jui' = "opened"
          /\ UNCHANGED severed
       \/ /\ MayFail
          /\ jui' = "written"
          /\ severed' = severed \cup {vault[i]}
          /\ UNCHANGED fileVars
    /\ UNCHANGED <<appVars, vaultVars, watchVars, told, runs, torn>>

\* The script is in the file once it is closed, if the file is still there.
CloseFile ==
    /\ jui = "opened"
    /\ file' = [file EXCEPT ![judged] = IF @ = "partial" THEN "whole" ELSE @]
    /\ jui' = "written"
    /\ UNCHANGED <<appVars, vaultVars, judged, content, watchVars, pastVars>>

\* Mutant: the row stays after it was approved.
ApproveKeepingRow ==
    /\ jui = "written"
    /\ told' = told \cup {vault[judged]}
    /\ jui' = "idle"
    /\ judged' = None
    /\ UNCHANGED <<appVars, vaultVars, fileVars, watchVars, answers, runs, torn, severed>>

\* delete_pending_patch does not say whether the row has gone.
DeleteRow(i) ==
    \/ /\ vault' = [vault EXCEPT ![i] = None]
       /\ UNCHANGED severed
    \/ /\ MayFail
       /\ severed' = severed \cup {vault[i]}
       /\ UNCHANGED vault

\* "Approved. Forge will execute: ..."
Approve ==
    /\ jui = "written"
    /\ told' = told \cup {vault[judged]}
    /\ DeleteRow(judged)
    /\ jui' = "idle"
    /\ judged' = None
    /\ UNCHANGED <<appVars, lastId, fileVars, watchVars, answers, runs, torn>>

\* "Rejected. Patch discarded."
SubmitNo(i) ==
    /\ Reply(i, "n")
    /\ DeleteRow(i)
    /\ UNCHANGED <<appVars, lastId, submitVars, fileVars, watchVars, told, runs, torn>>

-----------------------------------------------------------------------------
(* The watcher. *)

WatchStart ==
    /\ watch = "down"
    /\ ~lock
    /\ lock' = TRUE
    /\ watch' = "up"
    /\ UNCHANGED <<appVars, vaultVars, submitVars, fileVars, wid, pastVars>>

\* bash starts reading the file, in whatever state it is.
Run(i) ==
    /\ watch = "up"
    /\ file[i] # "absent"
    /\ watch' = "running"
    /\ wid' = i
    /\ runs' = [runs EXCEPT ![content[i]] = IF @ = 0 THEN 1 ELSE 2]
    /\ torn' = IF file[i] = "partial" THEN torn \cup {content[i]} ELSE torn
    /\ UNCHANGED <<appVars, vaultVars, submitVars, fileVars, lock, answers, told, severed>>

RunEnds ==
    /\ watch = "running"
    /\ watch' = "ran"
    /\ torn' = IF file[wid] = "partial" THEN torn \cup {content[wid]} ELSE torn
    /\ UNCHANGED <<appVars, vaultVars, submitVars, fileVars, wid, lock, answers, told, runs,
                   severed>>

\* Mutant: the script is left in the watched directory.
ArchiveCopy ==
    /\ watch = "ran"
    /\ watch' = "up"
    /\ wid' = None
    /\ UNCHANGED <<appVars, vaultVars, submitVars, fileVars, lock, pastVars>>

\* Mutant: everything in the watched directory is archived.
ArchiveAll ==
    /\ watch = "ran"
    /\ file' = [i \in Ids |-> "absent"]
    /\ watch' = "up"
    /\ wid' = None
    /\ UNCHANGED <<appVars, vaultVars, submitVars, content, lock, pastVars>>

Archive ==
    /\ watch = "ran"
    /\ file' = [file EXCEPT ![wid] = "absent"]
    /\ watch' = "up"
    /\ wid' = None
    /\ UNCHANGED <<appVars, vaultVars, submitVars, content, lock, pastVars>>

-----------------------------------------------------------------------------
(* Kills and restarts. *)

\* The drafts the application has in memory, or is just approving.
InHand ==
    {queue[k] : k \in 1..Len(queue)}
        \cup (IF drafting = "asking" THEN {made} ELSE {})
        \cup (IF jui # "idle" THEN {vault[judged]} ELSE {})

\* The next session starts with what is on the card.
Crash ==
    /\ MayCrash
    /\ drafting' = "off" /\ busy' = FALSE /\ queue' = <<>>
    /\ stage' = FALSE
    /\ jui' = "idle" /\ judged' = None
    /\ severed' = severed \cup InHand
    /\ UNCHANGED <<made, vaultVars, fileVars, watchVars, answers, told, runs, torn>>

\* The trap removes the lock, unless the shell had no chance to run it.
WatchKill ==
    /\ MayCrash
    /\ watch # "down"
    /\ watch' = "down"
    /\ wid' = None
    /\ lock' \in BOOLEAN
    /\ severed' = IF watch = "up" THEN severed ELSE severed \cup {content[wid]}
    /\ UNCHANGED <<appVars, vaultVars, submitVars, fileVars, answers, told, runs, torn>>

-----------------------------------------------------------------------------
DraftStep == QueueDraft \/ ReleaseDraft
SubmitStep == CloseFile \/ Approve
WatchStep == WatchStart \/ (\E i \in Ids : Run(i)) \/ RunEnds \/ Archive

Next ==
    \/ StartDraft \/ DraftStep \/ Flush \/ SwipeStage
    \/ \E i \in Ids : SubmitYes(i) \/ SubmitNo(i)
    \/ SubmitStep
    \/ WatchStep
    \/ Crash \/ WatchKill

Safety == Init /\ [][Next]_vars

\* The threads and the watcher run; a chat frame flushes before the next swipe
\* can be seen.  The watcher goes through the directory before it lists it
\* anew.  Nobody has to reply, and nobody has to leave the Stage.
Fairness ==
    /\ WF_vars(DraftStep) /\ SF_vars(Flush)
    /\ WF_vars(SubmitStep) /\ WF_vars(WatchStep)
    /\ \A i \in Ids : SF_vars(Run(i))

Spec == Safety /\ Fairness

-----------------------------------------------------------------------------
\* The valve holds: no patch is run that the user has not answered with "y",
\* whatever is killed when, and whatever fails.
OnlyApprovedRuns ==
    \A d \in Drafts : runs[d] > 0 => "y" \in answers[d]

\* The number in patch_<id>.sh, which names its log and its place in done/,
\* stands for one draft for ever, across restarts.
NumbersNeverReused ==
    [][\A i \in Ids : content[i] # None => content'[i] = content[i]]_vars

\* A patch is run at most once.  The exceptions are a watcher that is killed
\* before it has archived what it ran (patch_watcher.sh:12-13), and a row that is
\* still there when its file is: a crash comes between the two, or the DELETE
\* fails (ChatEngine.cpp:226-227).
RunsOnce == \A d \in Drafts : runs[d] > 1 => d \in severed

\* "Rejected. Patch discarded." (ChatEngine.cpp:231): no run of a patch starts
\* after a reply of "n", whatever is killed, unless it had a "y" before, and the
\* application died over it, or its row could not be deleted.
DiscardedNeverRuns ==
    [][\A d \in Drafts : "n" \in answers[d] /\ d \notin severed => runs'[d] = runs[d]]_vars

\* What the user was told will be executed is executed, unless its file did not
\* open, or the watcher is not up: for good, when it was killed and has left its
\* lock directory behind, or again and again.
ApprovedRuns ==
    \/ \A d \in Drafts : d \in told ~> runs[d] > 0 \/ d \in severed
    \/ []<>(watch = "down")

\* A draft that is made becomes a row the user can reply to, unless she stays
\* on the Stage for good, a crash takes the queue, or the vault does not take the
\* row: then the queue is cleared all the same (PatchExecutor.cpp:41).
Rows == {vault[i] : i \in Ids}
DraftSurfaces ==
    \/ \A d \in Drafts : drafting = "asking" /\ made = d ~> d \in Rows \cup severed
    \/ <>[]stage

Executing(d) == watch \in {"running", "ran"} /\ content[wid] = d

\* The stage a draft has reached: "struck" once a kill or a failure has had it.
Life(d) ==
    IF d > made THEN "unasked"
    ELSE IF d \in severed THEN "struck"
    ELSE IF runs[d] > 0 THEN IF Executing(d) THEN "running" ELSE "done"
    ELSE IF "n" \in answers[d] THEN "discarded"
    ELSE IF "y" \in answers[d] THEN "approved"
    ELSE "drafted"

Patch == INSTANCE PatchLife WITH life <- [d \in Drafts |-> Life(d)]

\* Through queue, row, file and archive each patch leads the life of PatchLife:
\* approved before it is run, run once, never after it was discarded, and none
\* beside another (ChatEngine.cpp:216-237, patch_watcher.sh:8-17).
PatchPromise == Patch!PatchSafety

-----------------------------------------------------------------------------
\* What a document says, and the code does not keep.

\* HANDOFF_5_4B.md:3: "y writes ... patch_N.sh -> Termux watcher ... executes":
\* the watcher can find the file before the script is in it.
RunsWholePatch == torn = {}
=============================================================================
