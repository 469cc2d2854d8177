------------------------- MODULE SanityValveProofs --------------------------
(***************************************************************************)
(* Proofs about SanityValve for any number of drafts, with crashes of the  *)
(* application, kills of the watcher, files that fail to open and a vault  *)
(* whose statements fail.                                                  *)
(***************************************************************************)
EXTENDS SanityValve, TLAPS

\* Whoever works on a draft, a row or a file has one in hand.
DraftsInHand ==
    /\ watch \in {"running", "ran"} => wid \in Ids /\ content[wid] # None
    /\ drafting = "asking" => made \in Drafts
    /\ jui # "idle" => judged \in Ids /\ vault[judged] # None

\* A file in the watched directory holds an approved draft.
FilesApproved ==
    \A i \in Ids : file[i] # "absent" => content[i] # None /\ "y" \in answers[content[i]]

\* A number is handed out once, and its row and its file agree.
NumbersAgree ==
    \A i \in Ids :
        /\ vault[i] # None \/ content[i] # None => i <= lastId
        /\ content[i] # None => vault[i] \in {None, content[i]}

ValveInv == TypeOK /\ DraftsInHand /\ FilesApproved /\ NumbersAgree /\ OnlyApprovedRuns

\* Nothing is drafted, stored or run at first.
LEMMA ValveInit == Init => ValveInv
<1> SUFFICES ASSUME Init PROVE ValveInv
  OBVIOUS
<1> USE ValveConstants DEF ValveConstants, Init, Drafts, Ids, None
<1>1. /\ made \in 0..MaxDrafts /\ lastId \in Nat
      /\ queue \in Seq(Drafts)
      /\ drafting \in {"off", "asking", "queued"}
  OBVIOUS
<1>2. busy \in BOOLEAN /\ stage \in BOOLEAN /\ lock \in BOOLEAN
  OBVIOUS
<1>3. /\ vault \in [Ids -> Drafts \cup {None}] /\ content \in [Ids -> Drafts \cup {None}]
      /\ file \in [Ids -> {"absent", "partial", "whole"}]
      /\ jui \in {"idle", "opened", "written"} /\ judged \in Ids \cup {None}
      /\ watch \in {"down", "up", "running", "ran"} /\ wid \in Ids \cup {None}
  OBVIOUS
<1>4. answers \in [Drafts -> SUBSET {"y", "n"}] /\ runs \in [Drafts -> 0..2]
  OBVIOUS
<1>5. told \subseteq Drafts /\ torn \subseteq Drafts /\ severed \subseteq Drafts
  OBVIOUS
<1>6. TypeOK
  BY <1>1, <1>2, <1>3, <1>4, <1>5 DEF TypeOK
<1>7. DraftsInHand /\ FilesApproved /\ NumbersAgree /\ OnlyApprovedRuns
  BY DEF DraftsInHand, FilesApproved, NumbersAgree, OnlyApprovedRuns
<1>8. QED
  BY <1>6, <1>7 DEF ValveInv

\* A new draft gets the next number.
LEMMA StartDraftInv == ASSUME ValveInv, StartDraft PROVE ValveInv'
<1> USE ValveConstants DEF ValveConstants, ValveInv, TypeOK, Drafts, Ids, None, Pending,
        appVars, vaultVars, submitVars, fileVars, watchVars, pastVars
<1>1. TypeOK'
  <2>1. made' \in 0..MaxDrafts /\ drafting' \in {"off", "asking", "queued"}
    BY DEF StartDraft
  <2>2. busy' \in BOOLEAN /\ stage' \in BOOLEAN
    BY DEF StartDraft
  <2>3. QED
    BY <2>1, <2>2 DEF StartDraft
<1>2. DraftsInHand'
  BY DEF StartDraft, DraftsInHand
<1>3. FilesApproved'
  BY DEF StartDraft, FilesApproved, DraftsInHand
<1>4. NumbersAgree'
  BY DEF StartDraft, NumbersAgree, DraftsInHand
<1>5. OnlyApprovedRuns'
  BY DEF StartDraft, OnlyApprovedRuns, FilesApproved
<1>6. QED
  BY <1>1, <1>2, <1>3, <1>4, <1>5

\* The draft thread queues the draft it was started for.
LEMMA QueueDraftInv == ASSUME ValveInv, QueueDraft PROVE ValveInv'
<1> USE ValveConstants DEF ValveConstants, ValveInv, TypeOK, Drafts, Ids, None, Pending,
        appVars, vaultVars, submitVars, fileVars, watchVars, pastVars
<1>1. TypeOK'
  BY DEF QueueDraft, DraftsInHand
<1>2. DraftsInHand'
  BY DEF QueueDraft, DraftsInHand
<1>3. FilesApproved'
  BY DEF QueueDraft, FilesApproved, DraftsInHand
<1>4. NumbersAgree'
  BY DEF QueueDraft, NumbersAgree, DraftsInHand
<1>5. OnlyApprovedRuns'
  BY DEF QueueDraft, OnlyApprovedRuns, FilesApproved
<1>6. QED
  BY <1>1, <1>2, <1>3, <1>4, <1>5

\* Lowering the busy flag moves no draft.
LEMMA ReleaseDraftInv == ASSUME ValveInv, ReleaseDraft PROVE ValveInv'
<1> USE ValveConstants DEF ValveConstants, ValveInv, TypeOK, Drafts, Ids, None, Pending,
        appVars, vaultVars, submitVars, fileVars, watchVars, pastVars
<1>1. TypeOK'
  BY DEF ReleaseDraft, DraftsInHand
<1>2. DraftsInHand'
  BY DEF ReleaseDraft, DraftsInHand
<1>3. FilesApproved'
  BY DEF ReleaseDraft, FilesApproved, DraftsInHand
<1>4. NumbersAgree'
  BY DEF ReleaseDraft, NumbersAgree, DraftsInHand
<1>5. OnlyApprovedRuns'
  BY DEF ReleaseDraft, OnlyApprovedRuns, FilesApproved
<1>6. QED
  BY <1>1, <1>2, <1>3, <1>4, <1>5

\* A flush fills rows above the last id, each from a place of the queue of its own;
\* the drafts it strikes are in the queue, too.
LEMMA FlushRows ==
    ASSUME ValveInv, Flush
    PROVE  /\ lastId' \in Nat /\ lastId <= lastId'
           /\ vault' = [i \in Ids |-> vault'[i]]
           /\ \E S \in SUBSET {queue[k] : k \in 1..Len(queue)} : severed' = severed \cup S
           /\ \E at \in [Ids -> 0..Len(queue)] : \A i \in Ids :
                /\ at[i] \in 0..Len(queue)
                /\ vault'[i] = IF at[i] = 0 THEN vault[i] ELSE queue[at[i]]
                /\ at[i] # 0 => lastId < i /\ i <= lastId' /\ vault[i] = None /\ content[i] = None
                /\ \A k \in Ids : at[i] # 0 /\ at[i] = at[k] => i = k
<1> USE ValveConstants DEF ValveConstants, ValveInv, TypeOK, Drafts, Ids, None
<1>1. PICK n \in 0..Len(queue) : \E pick \in Inserted(n) :
         /\ vault' = [i \in Ids |-> IF i \in (lastId + 1)..(lastId + n)
                                    THEN queue[pick[i - lastId]] ELSE vault[i]]
         /\ lastId' = lastId + n
         /\ severed' = severed \cup {queue[k] : k \in 1..Len(queue) \ {pick[l] : l \in 1..n}}
  BY DEF Flush
<1>2. PICK pick \in Inserted(n) :
         /\ vault' = [i \in Ids |-> IF i \in (lastId + 1)..(lastId + n)
                                    THEN queue[pick[i - lastId]] ELSE vault[i]]
         /\ lastId' = lastId + n
         /\ severed' = severed \cup {queue[k] : k \in 1..Len(queue) \ {pick[l] : l \in 1..n}}
  BY <1>1
<1>3. /\ n \in Nat /\ lastId \in Nat
      /\ pick \in [1..n -> 1..Len(queue)]
      /\ \A k, l \in 1..n : k < l => pick[k] < pick[l]
  BY DEF Inserted
<1> DEFINE at == [i \in Ids |-> IF i \in (lastId + 1)..(lastId + n) THEN pick[i - lastId] ELSE 0]
<1>4. \A i \in (lastId + 1)..(lastId + n) : i - lastId \in 1..n
  BY <1>3
<1>5. at \in [Ids -> 0..Len(queue)]
  BY <1>3, <1>4
<1>6. ASSUME NEW i \in Ids
      PROVE  /\ at[i] \in 0..Len(queue)
             /\ vault'[i] = IF at[i] = 0 THEN vault[i] ELSE queue[at[i]]
             /\ at[i] # 0 => lastId < i /\ i <= lastId' /\ vault[i] = None /\ content[i] = None
             /\ \A k \in Ids : at[i] # 0 /\ at[i] = at[k] => i = k
  <2>1. at[i] # 0 <=> i \in (lastId + 1)..(lastId + n)
    BY <1>3, <1>4
  <2>2. vault'[i] = IF at[i] = 0 THEN vault[i] ELSE queue[at[i]]
    BY <1>2, <2>1
  <2>3. at[i] # 0 => lastId < i /\ i <= lastId' /\ vault[i] = None /\ content[i] = None
    BY <1>2, <1>3, <2>1 DEF NumbersAgree
  <2>4. ASSUME NEW k \in Ids, at[i] # 0, at[i] = at[k] PROVE i = k
    <3>1. k \in (lastId + 1)..(lastId + n)
      BY <1>3, <1>4, <2>4
    <3>2. i - lastId \in 1..n /\ k - lastId \in 1..n /\ pick[i - lastId] = pick[k - lastId]
      BY <1>4, <2>1, <2>4, <3>1
    <3>3. pick[i - lastId] \in Nat /\ pick[k - lastId] \in Nat
      BY <1>3, <3>2
    <3>4. ~(i - lastId < k - lastId) /\ ~(k - lastId < i - lastId)
      BY <1>3, <3>2, <3>3
    <3>5. QED
      BY <1>3, <3>2, <3>4
  <2>5. at[i] \in 0..Len(queue)
    BY <1>5
  <2>6. QED
    BY <2>2, <2>3, <2>4, <2>5
<1>7. lastId' \in Nat /\ lastId <= lastId'
  BY <1>2, <1>3
<1>8. vault' = [i \in Ids |-> vault'[i]]
  BY <1>2
<1>9. \E S \in SUBSET {queue[k] : k \in 1..Len(queue)} : severed' = severed \cup S
  BY <1>2
<1>10. QED
  BY <1>5, <1>6, <1>7, <1>8, <1>9

\* So a flush touches no row that is in use, and no file.
LEMMA FlushInv == ASSUME ValveInv, Flush PROVE ValveInv'
<1>1. PICK at : \A i \in Ids :
         /\ at[i] \in 0..Len(queue)
         /\ vault'[i] = IF at[i] = 0 THEN vault[i] ELSE queue[at[i]]
         /\ at[i] # 0 => lastId < i /\ i <= lastId' /\ vault[i] = None /\ content[i] = None
         /\ \A k \in Ids : at[i] # 0 /\ at[i] = at[k] => i = k
  BY FlushRows
<1>2. PICK S : S \subseteq {queue[k] : k \in 1..Len(queue)} /\ severed' = severed \cup S
  BY FlushRows
<1>3. lastId' \in Nat /\ lastId <= lastId' /\ vault' = [i \in Ids |-> vault'[i]]
  BY FlushRows
<1>4. severed' \subseteq Drafts
  <2>1. \A k \in 1..Len(queue) : queue[k] \in Drafts
    BY DEF ValveInv, TypeOK
  <2>2. severed \subseteq Drafts
    BY DEF ValveInv, TypeOK
  <2>3. QED
    BY <1>2, <2>1, <2>2
<1> USE ValveConstants DEF ValveConstants, ValveInv, TypeOK, Drafts, Ids, None, Pending,
        appVars, vaultVars, submitVars, fileVars, watchVars, pastVars
<1>5. TypeOK'
  <2>1. \A i \in Ids : at[i] # 0 => queue[at[i]] \in Drafts
    BY <1>1
  <2>2. vault' \in [Ids -> Drafts \cup {None}]
    BY <1>1, <1>3, <2>1
  <2>3. QED
    BY <1>3, <1>4, <2>2 DEF Flush
<1>6. DraftsInHand'
  <2>1. \A i \in Ids : vault[i] # None => vault'[i] # None
    BY <1>1
  <2>2. QED
    BY <2>1 DEF Flush, DraftsInHand
<1>7. FilesApproved'
  BY DEF Flush, FilesApproved, DraftsInHand
<1>8. NumbersAgree'
  <2>1. content' = content
    BY DEF Flush
  <2>2. QED
    BY <1>1, <1>3, <2>1 DEF NumbersAgree
<1>9. OnlyApprovedRuns'
  BY DEF Flush, OnlyApprovedRuns, FilesApproved
<1>10. QED
  BY <1>5, <1>6, <1>7, <1>8, <1>9

\* The Stage screen touches nothing of the valve.
LEMMA SwipeStageInv == ASSUME ValveInv, SwipeStage PROVE ValveInv'
<1> USE ValveConstants DEF ValveConstants, ValveInv, TypeOK, Drafts, Ids, None, Pending,
        appVars, vaultVars, submitVars, fileVars, watchVars, pastVars
<1>1. TypeOK'
  BY DEF SwipeStage, DraftsInHand
<1>2. DraftsInHand'
  BY DEF SwipeStage, DraftsInHand
<1>3. FilesApproved'
  BY DEF SwipeStage, FilesApproved, DraftsInHand
<1>4. NumbersAgree'
  BY DEF SwipeStage, NumbersAgree, DraftsInHand
<1>5. OnlyApprovedRuns'
  BY DEF SwipeStage, OnlyApprovedRuns, FilesApproved
<1>6. QED
  BY <1>1, <1>2, <1>3, <1>4, <1>5

\* The reply "y" is on record before the file is there.
LEMMA SubmitYesInv == ASSUME NEW i \in Ids, ValveInv, SubmitYes(i) PROVE ValveInv'
<1> USE ValveConstants DEF ValveConstants, ValveInv, TypeOK, Drafts, Ids, None, Pending,
        appVars, vaultVars, submitVars, fileVars, watchVars, pastVars
<1>1. TypeOK'
  BY DEF SubmitYes, Reply, First, DraftsInHand
<1>2. DraftsInHand'
  BY DEF SubmitYes, Reply, First, DraftsInHand
<1>3. FilesApproved'
  BY DEF SubmitYes, Reply, First, FilesApproved, DraftsInHand
<1>4. NumbersAgree'
  BY DEF SubmitYes, Reply, First, NumbersAgree, DraftsInHand
<1>5. OnlyApprovedRuns'
  BY DEF SubmitYes, Reply, First, OnlyApprovedRuns, FilesApproved
<1>6. QED
  BY <1>1, <1>2, <1>3, <1>4, <1>5

\* Closing the file changes neither its draft nor the record.
LEMMA CloseFileInv == ASSUME ValveInv, CloseFile PROVE ValveInv'
<1> USE ValveConstants DEF ValveConstants, ValveInv, TypeOK, Drafts, Ids, None, Pending,
        appVars, vaultVars, submitVars, fileVars, watchVars, pastVars
<1>1. TypeOK'
  BY DEF CloseFile, DraftsInHand
<1>2. DraftsInHand'
  BY DEF CloseFile, DraftsInHand
<1>3. FilesApproved'
  BY DEF CloseFile, FilesApproved, DraftsInHand
<1>4. NumbersAgree'
  BY DEF CloseFile, NumbersAgree, DraftsInHand
<1>5. OnlyApprovedRuns'
  BY DEF CloseFile, OnlyApprovedRuns, FilesApproved
<1>6. QED
  BY <1>1, <1>2, <1>3, <1>4, <1>5

\* Deleting the row leaves the file and the record.
LEMMA ApproveInv == ASSUME ValveInv, Approve PROVE ValveInv'
<1> USE ValveConstants DEF ValveConstants, ValveInv, TypeOK, Drafts, Ids, None, Pending,
        appVars, vaultVars, submitVars, fileVars, watchVars, pastVars
<1>1. TypeOK'
  BY DEF Approve, DeleteRow, DraftsInHand
<1>2. DraftsInHand'
  BY DEF Approve, DeleteRow, DraftsInHand
<1>3. FilesApproved'
  BY DEF Approve, FilesApproved, DraftsInHand
<1>4. NumbersAgree'
  BY DEF Approve, DeleteRow, NumbersAgree, DraftsInHand
<1>5. OnlyApprovedRuns'
  BY DEF Approve, OnlyApprovedRuns, FilesApproved
<1>6. QED
  BY <1>1, <1>2, <1>3, <1>4, <1>5

\* The reply "n" takes the row away and adds to the record.
LEMMA SubmitNoInv == ASSUME NEW i \in Ids, ValveInv, SubmitNo(i) PROVE ValveInv'
<1> USE ValveConstants DEF ValveConstants, ValveInv, TypeOK, Drafts, Ids, None, Pending,
        appVars, vaultVars, submitVars, fileVars, watchVars, pastVars
<1>1. TypeOK'
  BY DEF SubmitNo, DeleteRow, Reply, First, DraftsInHand
<1>2. DraftsInHand'
  BY DEF SubmitNo, DeleteRow, Reply, First, DraftsInHand
<1>3. FilesApproved'
  BY DEF SubmitNo, Reply, First, FilesApproved, DraftsInHand
<1>4. NumbersAgree'
  BY DEF SubmitNo, DeleteRow, Reply, First, NumbersAgree, DraftsInHand
<1>5. OnlyApprovedRuns'
  BY DEF SubmitNo, Reply, First, OnlyApprovedRuns, FilesApproved
<1>6. QED
  BY <1>1, <1>2, <1>3, <1>4, <1>5

\* Starting the watcher runs nothing.
LEMMA WatchStartInv == ASSUME ValveInv, WatchStart PROVE ValveInv'
<1> USE ValveConstants DEF ValveConstants, ValveInv, TypeOK, Drafts, Ids, None, Pending,
        appVars, vaultVars, submitVars, fileVars, watchVars, pastVars
<1>1. TypeOK'
  BY DEF WatchStart, DraftsInHand
<1>2. DraftsInHand'
  BY DEF WatchStart, DraftsInHand
<1>3. FilesApproved'
  BY DEF WatchStart, FilesApproved, DraftsInHand
<1>4. NumbersAgree'
  BY DEF WatchStart, NumbersAgree, DraftsInHand
<1>5. OnlyApprovedRuns'
  BY DEF WatchStart, OnlyApprovedRuns, FilesApproved
<1>6. QED
  BY <1>1, <1>2, <1>3, <1>4, <1>5

\* The watcher runs what is in the directory, which is approved.
LEMMA RunInv == ASSUME NEW i \in Ids, ValveInv, Run(i) PROVE ValveInv'
<1> USE ValveConstants DEF ValveConstants, ValveInv, TypeOK, Drafts, Ids, None, Pending,
        appVars, vaultVars, submitVars, fileVars, watchVars, pastVars
<1>1. TypeOK'
  <2>1. content[i] \in Drafts
    BY DEF Run, FilesApproved
  <2>2. runs' \in [Drafts -> 0..2]
    BY <2>1 DEF Run
  <2>3. torn' \subseteq Drafts
    BY <2>1 DEF Run
  <2>4. watch' \in {"down", "up", "running", "ran"} /\ wid' \in Ids \cup {None}
    BY DEF Run
  <2>5. QED
    BY <2>2, <2>3, <2>4 DEF Run
<1>2. DraftsInHand'
  BY DEF Run, DraftsInHand, FilesApproved
<1>3. FilesApproved'
  BY DEF Run, FilesApproved, DraftsInHand
<1>4. NumbersAgree'
  BY DEF Run, NumbersAgree, DraftsInHand
<1>5. OnlyApprovedRuns'
  BY DEF Run, OnlyApprovedRuns, FilesApproved
<1>6. QED
  BY <1>1, <1>2, <1>3, <1>4, <1>5

\* The end of a run starts none.
LEMMA RunEndsInv == ASSUME ValveInv, RunEnds PROVE ValveInv'
<1> USE ValveConstants DEF ValveConstants, ValveInv, TypeOK, Drafts, Ids, None, Pending,
        appVars, vaultVars, submitVars, fileVars, watchVars, pastVars
<1>1. TypeOK'
  <2>1. wid \in Ids
    BY DEF RunEnds, DraftsInHand
  <2>2. file[wid] = "partial" => content[wid] \in Drafts
    BY <2>1 DEF FilesApproved
  <2>3. torn' \subseteq Drafts
    BY <2>2 DEF RunEnds
  <2>4. watch' \in {"down", "up", "running", "ran"}
    BY DEF RunEnds
  <2>5. QED
    BY <2>3, <2>4 DEF RunEnds
<1>2. DraftsInHand'
  BY DEF RunEnds, DraftsInHand
<1>3. FilesApproved'
  BY DEF RunEnds, FilesApproved, DraftsInHand
<1>4. NumbersAgree'
  BY DEF RunEnds, NumbersAgree, DraftsInHand
<1>5. OnlyApprovedRuns'
  BY DEF RunEnds, OnlyApprovedRuns, FilesApproved
<1>6. QED
  BY <1>1, <1>2, <1>3, <1>4, <1>5

\* Archiving takes a file away.
LEMMA ArchiveInv == ASSUME ValveInv, Archive PROVE ValveInv'
<1> USE ValveConstants DEF ValveConstants, ValveInv, TypeOK, Drafts, Ids, None, Pending,
        appVars, vaultVars, submitVars, fileVars, watchVars, pastVars
<1>1. TypeOK'
  BY DEF Archive, DraftsInHand
<1>2. DraftsInHand'
  BY DEF Archive, DraftsInHand
<1>3. FilesApproved'
  BY DEF Archive, FilesApproved, DraftsInHand
<1>4. NumbersAgree'
  BY DEF Archive, NumbersAgree, DraftsInHand
<1>5. OnlyApprovedRuns'
  BY DEF Archive, OnlyApprovedRuns, FilesApproved
<1>6. QED
  BY <1>1, <1>2, <1>3, <1>4, <1>5

\* A crash loses the queue and forgets the row in hand.
LEMMA CrashInv == ASSUME ValveInv, Crash PROVE ValveInv'
<1> USE ValveConstants DEF ValveConstants, ValveInv, TypeOK, Drafts, Ids, None, Pending,
        appVars, vaultVars, submitVars, fileVars, watchVars, pastVars
<1>1. TypeOK'
  <2>1. queue' \in Seq(Drafts) /\ drafting' \in {"off", "asking", "queued"}
    BY DEF Crash
  <2>2. busy' \in BOOLEAN /\ stage' \in BOOLEAN
    BY DEF Crash
  <2>3. jui' \in {"idle", "opened", "written"} /\ judged' \in Ids \cup {None}
    BY DEF Crash
  <2>4. InHand \subseteq Drafts
    BY DEF InHand, DraftsInHand
  <2>5. severed' \subseteq Drafts
    BY <2>4 DEF Crash
  <2>6. QED
    BY <2>1, <2>2, <2>3, <2>5 DEF Crash
<1>2. DraftsInHand'
  BY DEF Crash, DraftsInHand
<1>3. FilesApproved'
  BY DEF Crash, FilesApproved, DraftsInHand
<1>4. NumbersAgree'
  BY DEF Crash, NumbersAgree, DraftsInHand
<1>5. OnlyApprovedRuns'
  BY DEF Crash, OnlyApprovedRuns, FilesApproved
<1>6. QED
  BY <1>1, <1>2, <1>3, <1>4, <1>5

\* A killed watcher leaves the files where they are.
LEMMA WatchKillInv == ASSUME ValveInv, WatchKill PROVE ValveInv'
<1> USE ValveConstants DEF ValveConstants, ValveInv, TypeOK, Drafts, Ids, None, Pending,
        appVars, vaultVars, submitVars, fileVars, watchVars, pastVars
<1>1. TypeOK'
  <2>1. watch # "up" => content[wid] \in Drafts
    BY DEF WatchKill, DraftsInHand
  <2>2. severed' \subseteq Drafts
    BY <2>1 DEF WatchKill
  <2>3. QED
    BY <2>2 DEF WatchKill
<1>2. DraftsInHand'
  BY DEF WatchKill, DraftsInHand
<1>3. FilesApproved'
  BY DEF WatchKill, FilesApproved, DraftsInHand
<1>4. NumbersAgree'
  BY DEF WatchKill, NumbersAgree, DraftsInHand
<1>5. OnlyApprovedRuns'
  BY DEF WatchKill, OnlyApprovedRuns, FilesApproved
<1>6. QED
  BY <1>1, <1>2, <1>3, <1>4, <1>5

\* Every step keeps the inductive invariant.
LEMMA ValveNext == ValveInv /\ [Next]_vars => ValveInv'
<1> SUFFICES ASSUME ValveInv, [Next]_vars PROVE ValveInv'
  OBVIOUS
<1>1. CASE DraftStep
  BY <1>1, QueueDraftInv, ReleaseDraftInv DEF DraftStep
<1>2. ASSUME NEW i \in Ids, SubmitYes(i) \/ SubmitNo(i) PROVE ValveInv'
  BY <1>2, SubmitYesInv, SubmitNoInv
<1>3. CASE SubmitStep
  BY <1>3, CloseFileInv, ApproveInv DEF SubmitStep
<1>4. CASE WatchStep
  BY <1>4, WatchStartInv, RunInv, RunEndsInv, ArchiveInv DEF WatchStep
<1>5. CASE UNCHANGED vars
  BY <1>5 DEF vars, appVars, vaultVars, submitVars, fileVars, watchVars, pastVars, ValveInv, TypeOK,
              DraftsInHand, FilesApproved, NumbersAgree, OnlyApprovedRuns
<1>6. QED
  BY <1>1, <1>2, <1>3, <1>4, <1>5, StartDraftInv, FlushInv, SwipeStageInv, CrashInv, WatchKillInv
     DEF Next

\* The inductive invariant holds in every reachable state.
LEMMA ValveInvariant == Safety => []ValveInv
BY ValveInit, ValveNext, PTL DEF Safety

\* Every state of the valve is well typed.
THEOREM ValveTypes == Safety => []TypeOK
BY ValveInvariant, PTL DEF ValveInv

\* Whatever is killed when and whatever fails to open, no patch is run that the
\* user has not answered with "y".
THEOREM ValveHolds == Safety => []OnlyApprovedRuns
BY ValveInvariant, PTL DEF ValveInv

\* One step never gives a file's number to another draft.
LEMMA NumbersStep ==
    ValveInv /\ [Next]_vars =>
        [\A i \in Ids : content[i] # None => content'[i] = content[i]]_vars
<1> SUFFICES ASSUME ValveInv, Next, NEW k \in Ids, content[k] # None
             PROVE  content'[k] = content[k]
  OBVIOUS
<1> USE DEF fileVars, vars, appVars, vaultVars, submitVars, watchVars, pastVars
<1>1. ASSUME NEW i \in Ids, SubmitYes(i) PROVE content'[k] = content[k]
  BY <1>1 DEF SubmitYes, Reply, First, Pending, ValveInv, TypeOK, NumbersAgree, Ids
<1>2. ASSUME NEW i \in Ids, SubmitNo(i) \/ Run(i) PROVE content'[k] = content[k]
  BY <1>2 DEF SubmitNo, Run
<1>3. CASE StartDraft \/ DraftStep \/ Flush \/ SwipeStage \/ SubmitStep
  BY <1>3 DEF StartDraft, DraftStep, QueueDraft, ReleaseDraft, Flush, SwipeStage, SubmitStep,
              CloseFile, Approve
<1>4. CASE WatchStart \/ RunEnds \/ Archive \/ Crash \/ WatchKill
  BY <1>4 DEF WatchStart, RunEnds, Archive, Crash, WatchKill
<1>5. QED
  BY <1>1, <1>2, <1>3, <1>4 DEF Next, WatchStep

\* The number of a patch file stands for one draft for ever, across crashes:
\* its log and its place in the archive are never another draft's.
THEOREM ValveNumbers == Safety => NumbersNeverReused
BY ValveInvariant, NumbersStep, PTL DEF Safety, NumbersNeverReused

-----------------------------------------------------------------------------
(* No patch is run twice. *)

\* No draft is anywhere before it is asked for.
Fresh ==
    /\ \A k \in 1..Len(queue) : queue[k] <= made
    /\ \A i \in Ids : vault[i] <= made /\ content[i] <= made
    /\ \A d \in Drafts : runs[d] > 0 => d <= made

\* A draft is in one place of the queue, or in one row and its file.
Distinct ==
    /\ drafting = "asking" =>
         /\ \A k \in 1..Len(queue) : queue[k] # made
         /\ \A i \in Ids : vault[i] # made /\ content[i] # made
    /\ \A k, l \in 1..Len(queue) : queue[k] = queue[l] => k = l
    /\ \A k \in 1..Len(queue), i \in Ids : queue[k] # vault[i] /\ queue[k] # content[i]
    /\ \A i, k \in Ids : vault[i] # None /\ vault[i] = vault[k] => i = k
    /\ \A i, k \in Ids : vault[i] # None /\ vault[i] = content[k] => i = k
    /\ \A i, k \in Ids : content[i] # None /\ content[i] = content[k] => i = k

\* A row whose file is written is being approved, or was struck.
Approving ==
    \A i \in Ids :
        vault[i] # None /\ content[i] = vault[i] /\ vault[i] \notin severed =>
            jui # "idle" /\ judged = i

\* A patch that has run has a file, and that is in done/ or in the watcher's
\* hands, or the patch was struck.
Traces ==
    /\ \A d \in Drafts : runs[d] > 0 => \E i \in Ids : content[i] = d
    /\ \A i \in Ids :
         content[i] # None /\ content[i] \notin severed /\ runs[content[i]] > 0 =>
            file[i] = "absent" \/ (watch \in {"running", "ran"} /\ wid = i)

OnceInv == Fresh /\ Distinct /\ Approving /\ Traces /\ RunsOnce

\* At first there are no drafts at all.
LEMMA OnceStart == Init => OnceInv
<1> SUFFICES ASSUME Init PROVE OnceInv
  OBVIOUS
<1> USE ValveConstants DEF ValveConstants, Init, Drafts, Ids, None
<1>1. Len(queue) = 0
  OBVIOUS
<1>2. Fresh /\ Distinct
  BY <1>1 DEF Fresh, Distinct
<1>3. Approving /\ Traces /\ RunsOnce
  BY DEF Approving, Traces, RunsOnce
<1>4. QED
  BY <1>2, <1>3 DEF OnceInv

\* A step that moves no draft, and takes none out of anybody's hands.
LEMMA OnceSame ==
    ASSUME OnceInv, UNCHANGED <<made, queue, vaultVars, submitVars, fileVars, watch, wid,
                                runs, severed>>,
           drafting' = "asking" => drafting = "asking"
    PROVE  OnceInv'
<1> UNCHANGED <<vault, content, jui, judged, file>>
  BY DEF vaultVars, submitVars, fileVars
<1>1. Fresh' /\ Distinct'
  BY DEF OnceInv, Fresh, Distinct
<1>2. Approving' /\ Traces' /\ RunsOnce'
  BY DEF OnceInv, Approving, Traces, RunsOnce
<1>3. QED
  BY <1>1, <1>2 DEF OnceInv

\* What is still in the watched directory has not run, if it was not struck.
LEMMA FoundUnrun ==
    ASSUME NEW i \in Ids, Traces, runs[content[i]] \in 0..2, content[i] # None,
           content[i] \notin severed, file[i] # "absent", watch = "up"
    PROVE  runs[content[i]] = 0
BY DEF Traces

\* Nor has a row without a file.
LEMMA RowUnrun ==
    ASSUME NEW i \in Ids, Traces, Distinct, vault[i] \in Drafts, vault[i] # None,
           content[i] # vault[i], runs[vault[i]] \in 0..2
    PROVE  runs[vault[i]] = 0
<1>1. \A k \in Ids : content[k] # vault[i]
  BY DEF Distinct
<1>2. QED
  BY <1>1 DEF Traces

\* A draft gets a number nobody has seen.
LEMMA OnceStartDraft == ASSUME ValveInv, OnceInv, StartDraft PROVE OnceInv'
<1> USE ValveConstants DEF ValveConstants, ValveInv, TypeOK, Drafts, Ids, None, StartDraft,
        vaultVars, submitVars, fileVars, watchVars, pastVars
<1>1. made' = made + 1 /\ made \in Nat
      /\ UNCHANGED <<queue, vault, content, runs, severed, jui, judged, file, watch, wid>>
  OBVIOUS
<1>2. \A k \in 1..Len(queue) : queue[k] \in Nat
  OBVIOUS
<1>3. Fresh'
  <2>1. \A k \in 1..Len(queue) : queue[k] <= made + 1
    BY <1>1, <1>2 DEF OnceInv, Fresh
  <2>2. \A i \in Ids : vault[i] \in Nat /\ content[i] \in Nat
    OBVIOUS
  <2>3. \A i \in Ids : vault[i] <= made + 1 /\ content[i] <= made + 1
    BY <1>1, <2>2 DEF OnceInv, Fresh
  <2>4. \A d \in Drafts : runs[d] > 0 => d <= made + 1
    BY <1>1 DEF OnceInv, Fresh
  <2>5. QED
    BY <1>1, <2>1, <2>3, <2>4 DEF Fresh
<1>4. Distinct'
  BY <1>1, <1>2 DEF OnceInv, Fresh, Distinct
<1>5. Approving' /\ Traces' /\ RunsOnce'
  BY <1>1 DEF OnceInv, Approving, Traces, RunsOnce
<1>6. QED
  BY <1>3, <1>4, <1>5 DEF OnceInv

\* It is queued once.
LEMMA OnceQueueDraft == ASSUME ValveInv, OnceInv, QueueDraft PROVE OnceInv'
<1> USE ValveConstants DEF ValveConstants, ValveInv, TypeOK, Drafts, Ids, None, QueueDraft,
        vaultVars, submitVars, fileVars, watchVars, pastVars
<1>1. UNCHANGED <<made, vault, content, runs, severed, jui, judged, file, watch, wid>>
      /\ drafting' = "queued" /\ drafting = "asking"
  OBVIOUS
<1>2. Len(queue') = Len(queue) + 1 /\ Len(queue) \in Nat
      /\ \A k \in 1..Len(queue') :
            queue'[k] = IF k \in 1..Len(queue) THEN queue[k] ELSE made
  OBVIOUS
<1>3. Fresh'
  BY <1>1, <1>2 DEF OnceInv, Fresh
<1>4. Distinct'
  <2>1. \A k \in 1..Len(queue) : queue[k] # made
    BY <1>1 DEF OnceInv, Distinct
  <2>2. ASSUME NEW k \in 1..Len(queue'), NEW l \in 1..Len(queue'), queue'[k] = queue'[l]
        PROVE  k = l
    <3>1. CASE k \in 1..Len(queue) /\ l \in 1..Len(queue)
      BY <1>2, <2>2, <3>1 DEF OnceInv, Distinct
    <3>2. CASE k \notin 1..Len(queue) \/ l \notin 1..Len(queue)
      BY <1>2, <2>1, <2>2, <3>2
    <3>3. QED
      BY <3>1, <3>2
  <2>3. \A k \in 1..Len(queue'), i \in Ids : queue'[k] # vault[i] /\ queue'[k] # content[i]
    BY <1>1, <1>2 DEF OnceInv, Distinct
  <2>4. \A i, k \in Ids : vault[i] # None /\ vault[i] = vault[k] => i = k
    BY DEF OnceInv, Distinct
  <2>5. \A i, k \in Ids : vault[i] # None /\ vault[i] = content[k] => i = k
    BY DEF OnceInv, Distinct
  <2>6. \A i, k \in Ids : content[i] # None /\ content[i] = content[k] => i = k
    BY DEF OnceInv, Distinct
  <2>7. QED
    BY <1>1, <2>2, <2>3, <2>4, <2>5, <2>6 DEF Distinct
<1>5. Approving' /\ Traces' /\ RunsOnce'
  BY <1>1 DEF OnceInv, Approving, Traces, RunsOnce
<1>6. QED
  BY <1>3, <1>4, <1>5 DEF OnceInv

\* Each queued draft becomes one row, above the last id, or none.
LEMMA OnceFlush == ASSUME ValveInv, OnceInv, Flush PROVE OnceInv'
<1>1. PICK at : \A i \in Ids :
         /\ at[i] \in 0..Len(queue)
         /\ vault'[i] = IF at[i] = 0 THEN vault[i] ELSE queue[at[i]]
         /\ at[i] # 0 => lastId < i /\ i <= lastId' /\ vault[i] = None /\ content[i] = None
         /\ \A k \in Ids : at[i] # 0 /\ at[i] = at[k] => i = k
  BY FlushRows
<1>2. severed \subseteq severed'
  BY FlushRows
<1> USE ValveConstants DEF ValveConstants, ValveInv, TypeOK, Drafts, Ids, None,
        vaultVars, submitVars, fileVars, watchVars, pastVars
<1>3. UNCHANGED <<made, drafting, content, runs, jui, judged, file, watch, wid>>
      /\ Len(queue') = 0
  BY DEF Flush
<1>4. \A i \in Ids : at[i] # 0 => at[i] \in 1..Len(queue)
  BY <1>1
<1>5. Fresh'
  <2>1. ASSUME NEW i \in Ids PROVE vault'[i] <= made'
    BY <1>1, <1>3, <1>4 DEF OnceInv, Fresh
  <2>2. QED
    BY <1>3, <2>1 DEF OnceInv, Fresh
<1>6. Distinct'
  <2>1. /\ \A k, l \in 1..Len(queue) : queue[k] = queue[l] => k = l
        /\ \A k \in 1..Len(queue), j \in Ids : queue[k] # vault[j] /\ queue[k] # content[j]
        /\ \A j, l \in Ids : vault[j] # None /\ vault[j] = vault[l] => j = l
        /\ \A j, l \in Ids : vault[j] # None /\ vault[j] = content[l] => j = l
    BY DEF OnceInv, Distinct
  <2>2. drafting' = "asking" => \A i \in Ids : vault'[i] # made' /\ content'[i] # made'
    <3>1. ASSUME drafting = "asking", NEW i \in Ids PROVE vault'[i] # made
      BY <1>1, <1>4, <3>1 DEF OnceInv, Distinct
    <3>2. QED
      BY <1>3, <3>1 DEF OnceInv, Distinct
  <2>3. ASSUME NEW i \in Ids, NEW k \in Ids, vault'[i] # None, vault'[i] = vault'[k]
        PROVE  i = k
    <3>1. CASE at[i] # 0 /\ at[k] # 0
      <4>1. queue[at[i]] = queue[at[k]]
        BY <1>1, <2>3, <3>1
      <4>2. at[i] = at[k]
        BY <1>4, <2>1, <3>1, <4>1
      <4>3. QED
        BY <1>1, <3>1, <4>2
    <3>2. CASE at[i] = 0 /\ at[k] = 0
      BY <1>1, <2>1, <2>3, <3>2
    <3>3. CASE at[i] # 0 /\ at[k] = 0
      BY <1>1, <1>4, <2>1, <2>3, <3>3
    <3>4. CASE at[i] = 0 /\ at[k] # 0
      BY <1>1, <1>4, <2>1, <2>3, <3>4
    <3>5. QED
      BY <3>1, <3>2, <3>3, <3>4
  <2>4. ASSUME NEW i \in Ids, NEW k \in Ids, vault'[i] # None, vault'[i] = content'[k]
        PROVE  i = k
    <3>1. CASE at[i] = 0
      BY <1>1, <1>3, <2>1, <2>4, <3>1
    <3>2. CASE at[i] # 0
      BY <1>1, <1>3, <1>4, <2>1, <2>4, <3>2
    <3>3. QED
      BY <3>1, <3>2
  <2>5. QED
    BY <1>3, <2>2, <2>3, <2>4 DEF OnceInv, Distinct
<1>7. Approving'
  <2>1. ASSUME NEW i \in Ids, vault'[i] # None, content'[i] = vault'[i], vault'[i] \notin severed'
        PROVE  jui # "idle" /\ judged = i
    <3>1. at[i] = 0
      BY <1>1, <1>3, <2>1
    <3>2. QED
      BY <1>1, <1>2, <1>3, <2>1, <3>1 DEF OnceInv, Approving
  <2>2. QED
    BY <1>3, <2>1 DEF Approving
<1>8. Traces' /\ RunsOnce'
  BY <1>2, <1>3 DEF OnceInv, Traces, RunsOnce
<1>9. QED
  BY <1>5, <1>6, <1>7, <1>8 DEF OnceInv

\* A row that is approved has no file yet, nor has its draft run.
LEMMA OnceSubmitYes == ASSUME NEW i \in Ids, ValveInv, OnceInv, SubmitYes(i) PROVE OnceInv'
<1> USE ValveConstants DEF ValveConstants, ValveInv, TypeOK, Drafts, Ids, None,
        appVars, vaultVars, submitVars, fileVars, watchVars
<1>1. /\ UNCHANGED <<made, drafting, queue, vault, runs, watch, wid>>
      /\ jui = "idle" /\ jui' # "idle" /\ judged' = i /\ vault[i] \in Drafts
  BY DEF SubmitYes, Reply, First, Pending
<1>2. CASE UNCHANGED fileVars /\ severed' = severed \cup {vault[i]}
  <2>1. UNCHANGED <<file, content>>
    BY <1>2
  <2>2. Fresh' /\ Distinct'
    BY <1>1, <2>1 DEF OnceInv, Fresh, Distinct
  <2>3. Approving' /\ Traces' /\ RunsOnce'
    BY <1>1, <1>2, <2>1 DEF OnceInv, Approving, Traces, RunsOnce
  <2>4. QED
    BY <2>2, <2>3 DEF OnceInv
<1>3. CASE /\ file' = [file EXCEPT ![i] = "partial"]
           /\ content' = [content EXCEPT ![i] = vault[i]]
           /\ severed' = severed
  <2>1. content'[i] = vault[i] /\ file'[i] = "partial"
        /\ \A k \in Ids \ {i} : content'[k] = content[k] /\ file'[k] = file[k]
    BY <1>3
  <2>2. vault[i] \notin severed => content[i] # vault[i]
    BY <1>1 DEF OnceInv, Approving
  <2>3. content[i] \in {None, vault[i]}
    BY <1>1 DEF NumbersAgree
  <2>4. Fresh'
    BY <1>1, <2>1 DEF OnceInv, Fresh
  <2>5. Distinct'
    <3>1. \A k \in 1..Len(queue), l \in Ids : queue[k] # content'[l]
      BY <2>1 DEF OnceInv, Distinct
    <3>2. \A k, l \in Ids : vault[k] # None /\ vault[k] = content'[l] => k = l
      BY <2>1 DEF OnceInv, Distinct
    <3>3. \A k, l \in Ids : content'[k] # None /\ content'[k] = content'[l] => k = l
      BY <1>1, <2>1 DEF OnceInv, Distinct
    <3>4. drafting = "asking" => \A k \in Ids : content'[k] # made
      BY <2>1 DEF OnceInv, Distinct
    <3>5. QED
      BY <1>1, <3>1, <3>2, <3>3, <3>4 DEF OnceInv, Distinct
  <2>6. Approving'
    BY <1>1, <1>3, <2>1 DEF OnceInv, Approving
  <2>7. Traces'
    <3>1. vault[i] \notin severed => runs[vault[i]] = 0
      <4>1. runs[vault[i]] \in 0..2 /\ vault[i] # None
        BY <1>1
      <4>2. Traces /\ Distinct
        BY DEF OnceInv
      <4>3. QED
        BY <1>1, <2>2, <4>1, <4>2, RowUnrun
    <3>2. \A d \in Drafts : runs[d] > 0 => \E k \in Ids : content'[k] = d
      <4>1. SUFFICES ASSUME NEW d \in Drafts, runs[d] > 0 PROVE \E k \in Ids : content'[k] = d
        OBVIOUS
      <4>2. PICK k \in Ids : content[k] = d
        BY <4>1 DEF OnceInv, Traces
      <4>3. content'[k] = d
        BY <2>1, <2>3, <4>2
      <4>4. QED
        BY <4>3
    <3>3. \A k \in Ids :
            content'[k] # None /\ content'[k] \notin severed' /\ runs'[content'[k]] > 0 =>
               file'[k] = "absent" \/ (watch' \in {"running", "ran"} /\ wid' = k)
      BY <1>1, <1>3, <2>1, <3>1 DEF OnceInv, Traces
    <3>4. QED
      BY <1>1, <3>2, <3>3 DEF Traces
  <2>8. RunsOnce'
    BY <1>1, <1>3 DEF OnceInv, RunsOnce
  <2>9. QED
    BY <2>4, <2>5, <2>6, <2>7, <2>8 DEF OnceInv
<1>4. QED
  BY <1>2, <1>3 DEF SubmitYes

\* The file is closed, and stays where it is.
LEMMA OnceCloseFile == ASSUME ValveInv, OnceInv, CloseFile PROVE OnceInv'
<1> USE DEF ValveInv, TypeOK, CloseFile, appVars, vaultVars, watchVars, pastVars
<1>1. UNCHANGED <<made, drafting, queue, vault, content, judged, watch, wid, runs, severed>>
      /\ jui' # "idle" /\ \A i \in Ids : file[i] = "absent" => file'[i] = "absent"
  OBVIOUS
<1>2. Fresh' /\ Distinct'
  BY <1>1 DEF OnceInv, Fresh, Distinct
<1>3. Approving'
  BY <1>1 DEF OnceInv, Approving
<1>4. Traces' /\ RunsOnce'
  BY <1>1 DEF OnceInv, Traces, RunsOnce
<1>5. QED
  BY <1>2, <1>3, <1>4 DEF OnceInv

\* A row goes, when it was approved or rejected, or its draft is struck.
LEMMA OnceRowGone ==
    ASSUME ValveInv, OnceInv, Approve \/ \E i \in Ids : SubmitNo(i) PROVE OnceInv'
<1> USE DEF ValveInv, TypeOK, None, appVars, fileVars, watchVars, submitVars
<1>1. PICK i \in Ids : DeleteRow(i) /\ (jui # "idle" => judged = i)
    BY DEF Approve, SubmitNo, Reply, DraftsInHand
<1>2. UNCHANGED <<made, drafting, queue, content, file, watch, wid, runs>>
  BY DEF Approve, SubmitNo
<1>3. /\ severed \subseteq severed'
      /\ \A k \in Ids : vault'[k] \in {vault[k], None}
      /\ vault'[i] = None \/ vault'[i] \in severed'
  BY <1>1 DEF DeleteRow
<1>4. Fresh'
  BY <1>2, <1>3 DEF OnceInv, Fresh
<1>5. Distinct'
  <2>1. \A k \in 1..Len(queue) : queue[k] # None
    <3>1. None \notin Drafts
      BY ValveConstants DEF ValveConstants, Drafts
    <3>2. \A k \in 1..Len(queue) : queue[k] \in Drafts
      OBVIOUS
    <3>3. QED
      BY <3>1, <3>2
  <2>2. drafting = "asking" => made # None
    BY DEF DraftsInHand, Drafts
  <2>3. QED
    BY <1>2, <1>3, <2>1, <2>2 DEF OnceInv, Distinct
<1>6. Approving'
  <2>1. ASSUME NEW k \in Ids, vault'[k] # None, content'[k] = vault'[k], vault'[k] \notin severed'
        PROVE  jui' # "idle" /\ judged' = k
    <3>1. k # i
      BY <1>3, <2>1
    <3>2. jui # "idle" /\ judged = k
      BY <1>2, <1>3, <2>1 DEF OnceInv, Approving
    <3>3. QED
      BY <1>1, <3>1, <3>2
  <2>2. QED
    BY <2>1 DEF Approving
<1>7. Traces' /\ RunsOnce'
  BY <1>2, <1>3 DEF OnceInv, Traces, RunsOnce
<1>8. QED
  BY <1>4, <1>5, <1>6, <1>7 DEF OnceInv

\* A patch that is found in the directory has not run, if it was not struck.
LEMMA OnceRun == ASSUME NEW i \in Ids, ValveInv, OnceInv, Run(i) PROVE OnceInv'
<1> USE ValveConstants DEF ValveConstants, ValveInv, TypeOK, None, Drafts, Run,
        appVars, fileVars, vaultVars, submitVars
<1>1. UNCHANGED <<made, drafting, queue, vault, content, file, jui, judged, severed>>
      /\ watch = "up" /\ watch' = "running" /\ wid' = i
  OBVIOUS
<1>2. content[i] \in Drafts /\ content[i] # None /\ file[i] # "absent"
  BY DEF FilesApproved
<1>3. \A d \in Drafts : runs'[d] = IF d = content[i] THEN (IF runs[d] = 0 THEN 1 ELSE 2)
                                   ELSE runs[d]
  BY <1>2
<1>4. content[i] \notin severed => runs[content[i]] = 0
  <2>1. runs[content[i]] \in 0..2
    BY <1>2
  <2>2. Traces
    BY DEF OnceInv
  <2>3. QED
    BY <1>1, <1>2, <2>1, <2>2, FoundUnrun
<1>5. Fresh'
  BY <1>1, <1>2, <1>3 DEF OnceInv, Fresh
<1>6. Distinct' /\ Approving'
  BY <1>1 DEF OnceInv, Distinct, Approving
<1>7. Traces'
  <2>1. \A d \in Drafts : runs'[d] > 0 => \E k \in Ids : content[k] = d
    BY <1>2, <1>3 DEF OnceInv, Traces
  <2>2. ASSUME NEW k \in Ids, content[k] # None, content[k] \notin severed,
               runs'[content[k]] > 0, k # i
        PROVE  file[k] = "absent"
    <3>1. content[k] # content[i]
      BY <1>2, <2>2 DEF OnceInv, Distinct
    <3>2. runs[content[k]] > 0
      BY <1>3, <2>2, <3>1
    <3>3. QED
      BY <1>1, <2>2, <3>2 DEF OnceInv, Traces
  <2>3. QED
    BY <1>1, <2>1, <2>2 DEF Traces
<1>8. RunsOnce'
  BY <1>1, <1>3, <1>4 DEF OnceInv, RunsOnce
<1>9. QED
  BY <1>5, <1>6, <1>7, <1>8 DEF OnceInv

\* What the watcher has run, it files away.
LEMMA OnceWatch ==
    ASSUME ValveInv, OnceInv, WatchStart \/ RunEnds \/ Archive PROVE OnceInv'
<1> USE DEF ValveInv, TypeOK, DraftsInHand, appVars, vaultVars, submitVars, fileVars, pastVars
<1>1. UNCHANGED <<made, drafting, queue, vault, content, jui, judged, runs, severed>>
  BY DEF WatchStart, RunEnds, Archive
<1>2. Fresh' /\ Distinct' /\ Approving' /\ RunsOnce'
  BY <1>1 DEF OnceInv, Fresh, Distinct, Approving, RunsOnce
<1>3. \A i \in Ids : file[i] = "absent" \/ (watch \in {"running", "ran"} /\ wid = i) =>
         file'[i] = "absent" \/ (watch' \in {"running", "ran"} /\ wid' = i)
  BY DEF WatchStart, RunEnds, Archive
<1>4. Traces'
  BY <1>1, <1>3 DEF OnceInv, Traces
<1>5. QED
  BY <1>2, <1>4 DEF OnceInv

\* The drafts a kill strikes are noted.
LEMMA OnceKill == ASSUME ValveInv, OnceInv, Crash \/ WatchKill PROVE OnceInv'
<1> USE ValveConstants DEF ValveConstants, ValveInv, TypeOK, DraftsInHand, None, appVars, vaultVars, submitVars, fileVars,
        watchVars
<1>1. CASE Crash
  <2>1. /\ UNCHANGED <<made, vault, content, file, watch, wid, runs>>
        /\ Len(queue') = 0 /\ drafting' = "off" /\ jui' = "idle"
        /\ severed' = severed \cup InHand
    BY <1>1 DEF Crash
  <2>2. Fresh' /\ Distinct'
    BY <2>1 DEF OnceInv, Fresh, Distinct
  <2>3. Approving'
    BY <2>1 DEF OnceInv, Approving, InHand
  <2>4. Traces' /\ RunsOnce'
    BY <2>1 DEF OnceInv, Traces, RunsOnce
  <2>5. QED
    BY <2>2, <2>3, <2>4 DEF OnceInv
<1>2. CASE WatchKill
  <2>1. /\ UNCHANGED <<made, drafting, queue, vault, content, jui, judged, file, runs>>
        /\ severed \subseteq severed'
        /\ watch # "up" => content[wid] \in severed'
    BY <1>2 DEF WatchKill
  <2>2. Fresh' /\ Distinct' /\ Approving' /\ RunsOnce'
    BY <2>1 DEF OnceInv, Fresh, Distinct, Approving, RunsOnce
  <2>3. Traces'
    BY <2>1 DEF OnceInv, Traces
  <2>4. QED
    BY <2>2, <2>3 DEF OnceInv
<1>3. QED
  BY <1>1, <1>2

\* Every step keeps a draft in its one place.
LEMMA OnceNext == ValveInv /\ OnceInv /\ [Next]_vars => OnceInv'
<1> SUFFICES ASSUME ValveInv, OnceInv, [Next]_vars PROVE OnceInv'
  OBVIOUS
<1>1. CASE ReleaseDraft \/ SwipeStage \/ UNCHANGED vars
  BY <1>1, OnceSame DEF ReleaseDraft, SwipeStage, vars, appVars, vaultVars, submitVars,
                        fileVars, watchVars, pastVars
<1>2. QED
  BY <1>1, OnceStartDraft, OnceQueueDraft, OnceFlush, OnceSubmitYes, OnceCloseFile, OnceRowGone,
     OnceRun, OnceWatch, OnceKill DEF Next, DraftStep, SubmitStep, WatchStep

\* No patch is run twice that no kill and no failure struck in somebody's
\* hands, for any number of drafts, rejections and restarts.
THEOREM ValveRunsOnce == Safety => []RunsOnce
<1>1. OnceInv => RunsOnce
  BY DEF OnceInv
<1>2. QED
  BY <1>1, OnceStart, OnceNext, ValveInvariant, PTL DEF Safety

-----------------------------------------------------------------------------
(* No patch is run after it was discarded. *)

\* A draft is nowhere on the way to the watcher.
Nowhere(d) ==
    /\ d <= made /\ (drafting = "asking" => made # d)
    /\ \A k \in 1..Len(queue) : queue[k] # d
    /\ \A i \in Ids : vault[i] # d /\ content[i] # d

\* One that was answered with "n" is nowhere, unless it was struck.
DiscardedNowhere ==
    \A d \in Drafts : "n" \in answers[d] /\ d \notin severed => Nowhere(d)

\* What is nowhere stays there.
LEMMA NowhereStays ==
    ASSUME ValveInv, [Next]_vars, NEW d \in Drafts, Nowhere(d)
    PROVE  Nowhere(d)'
<1>0. ASSUME Flush
      PROVE  \E at : \A i \in Ids :
                /\ at[i] \in 0..Len(queue)
                /\ vault'[i] = IF at[i] = 0 THEN vault[i] ELSE queue[at[i]]
  BY <1>0, FlushRows
<1> USE ValveConstants DEF ValveConstants, ValveInv, TypeOK, Drafts, Ids, None, Nowhere,
        appVars, vaultVars, submitVars, fileVars, watchVars, pastVars
<1>1. CASE StartDraft
  BY <1>1 DEF StartDraft
<1>2. CASE QueueDraft
  <2>1. \A k \in 1..Len(queue') : queue'[k] \in {queue[l] : l \in 1..Len(queue)} \cup {made}
    BY <1>2 DEF QueueDraft
  <2>2. QED
    BY <1>2, <2>1 DEF QueueDraft
<1>3. CASE Flush
  <2>1. UNCHANGED <<made, drafting, content>> /\ Len(queue') = 0
    BY <1>3 DEF Flush
  <2>2. PICK at : \A i \in Ids :
           /\ at[i] \in 0..Len(queue)
           /\ vault'[i] = IF at[i] = 0 THEN vault[i] ELSE queue[at[i]]
    BY <1>0, <1>3
  <2>3. ASSUME NEW i \in Ids PROVE vault'[i] # d
    <3>1. CASE at[i] = 0
      BY <2>2, <3>1
    <3>2. CASE at[i] # 0
      <4>1. at[i] \in 1..Len(queue) /\ vault'[i] = queue[at[i]]
        BY <2>2, <3>2
      <4>2. QED
        BY <4>1
    <3>3. QED
      BY <3>1, <3>2
  <2>4. QED
    BY <2>1, <2>3
<1>4. ASSUME NEW i \in Ids, SubmitYes(i) \/ SubmitNo(i) PROVE Nowhere(d)'
  <2>1. UNCHANGED <<made, drafting, queue>>
    BY <1>4 DEF SubmitYes, SubmitNo
  <2>2. \A k \in Ids : vault'[k] \in {None, vault[k]} /\ content'[k] \in {content[k], vault[k]}
    BY <1>4 DEF SubmitYes, SubmitNo, DeleteRow
  <2>3. QED
    BY <2>1, <2>2
<1>5. CASE Approve
  <2>1. UNCHANGED <<made, drafting, queue, content>>
    BY <1>5 DEF Approve
  <2>2. \A k \in Ids : vault'[k] \in {None, vault[k]}
    BY <1>5 DEF Approve, DeleteRow, DraftsInHand
  <2>3. QED
    BY <2>1, <2>2
<1>6. CASE Crash
  BY <1>6 DEF Crash
<1>7. CASE ReleaseDraft \/ SwipeStage \/ CloseFile \/ WatchStep \/ WatchKill \/ UNCHANGED vars
  BY <1>7 DEF ReleaseDraft, SwipeStage, CloseFile, WatchStep, WatchStart, Run, RunEnds, Archive,
              WatchKill, vars
<1>8. QED
  BY <1>1, <1>2, <1>3, <1>4, <1>5, <1>6, <1>7 DEF Next, DraftStep, SubmitStep

\* The row that is answered with "n", and deleted, is all there is of its draft.
LEMMA DiscardTakes ==
    ASSUME ValveInv, OnceInv, NEW i \in Ids, SubmitNo(i),
           NEW d \in Drafts, vault[i] = d, d \notin severed, d \notin severed'
    PROVE  Nowhere(d)'
<1> USE ValveConstants DEF ValveConstants, ValveInv, TypeOK, Drafts, Ids, None,
        appVars, submitVars, fileVars
<1>1. /\ UNCHANGED <<made, drafting, queue, content>> /\ jui = "idle" /\ vault[i] # None
      /\ \A k \in Ids : vault'[k] = IF k = i THEN None ELSE vault[k]
  BY DEF SubmitNo, DeleteRow, Reply, First, Pending
<1>2. content[i] # d
  BY <1>1 DEF OnceInv, Approving
<1>3. \A k \in Ids : vault'[k] # d /\ content'[k] # d
  BY <1>1, <1>2 DEF OnceInv, Distinct
<1>4. d <= made /\ (drafting = "asking" => made # d)
  BY DEF OnceInv, Fresh, Distinct
<1>5. \A k \in 1..Len(queue) : queue[k] # d
  BY DEF OnceInv, Distinct
<1>6. QED
  BY <1>1, <1>3, <1>4, <1>5 DEF Nowhere

\* Every step keeps what was discarded away.
LEMMA DiscardNext ==
    ASSUME ValveInv, OnceInv, DiscardedNowhere, [Next]_vars
    PROVE  DiscardedNowhere'
<1> SUFFICES ASSUME NEW d \in Drafts, "n" \in answers'[d], d \notin severed'
             PROVE  Nowhere(d)'
  BY DEF DiscardedNowhere, Drafts
<1>1. severed \subseteq severed'
  BY DEF Next, StartDraft, DraftStep, QueueDraft, ReleaseDraft, Flush, SwipeStage, SubmitYes,
         SubmitNo, SubmitStep, CloseFile, Approve, DeleteRow, WatchStep, WatchStart, Run, RunEnds, Archive,
         Crash, WatchKill, vars, pastVars
<1>2. CASE "n" \in answers[d]
  BY <1>1, <1>2, NowhereStays DEF DiscardedNowhere
<1>3. CASE "n" \notin answers[d]
  <2>1. \E i \in Ids : SubmitNo(i) /\ vault[i] = d
    <3>1. PICK i \in Ids : Reply(i, "n") /\ SubmitNo(i) /\ answers'[d] # answers[d]
      BY <1>3 DEF Next, StartDraft, DraftStep, QueueDraft, ReleaseDraft, Flush, SwipeStage,
             SubmitYes, SubmitNo, SubmitStep, CloseFile, Approve, WatchStep, WatchStart, Run,
             RunEnds, Archive, Crash, WatchKill, Reply, vars, pastVars, ValveInv, TypeOK
    <3>2. vault[i] = d
      BY <3>1 DEF Reply, ValveInv, TypeOK
    <3>3. QED
      BY <3>1, <3>2
  <2>2. QED
    BY <1>1, <2>1, DiscardTakes
<1>4. QED
  BY <1>2, <1>3

\* A step runs nothing that is nowhere.
LEMMA DiscardStep ==
    ValveInv /\ DiscardedNowhere /\ [Next]_vars =>
        [\A d \in Drafts : "n" \in answers[d] /\ d \notin severed => runs'[d] = runs[d]]_vars
<1> SUFFICES ASSUME ValveInv, DiscardedNowhere, Next, NEW d \in Drafts,
                    "n" \in answers[d], d \notin severed
             PROVE  runs'[d] = runs[d]
  OBVIOUS
<1>1. ASSUME NEW i \in Ids, Run(i) PROVE runs'[d] = runs[d]
  <2>1. content[i] # d
    BY DEF DiscardedNowhere, Nowhere
  <2>2. QED
    BY <1>1, <2>1 DEF Run, ValveInv, TypeOK
<1>2. QED
  BY <1>1 DEF Next, StartDraft, DraftStep, QueueDraft, ReleaseDraft, Flush, SwipeStage, SubmitYes,
         SubmitNo, SubmitStep, CloseFile, Approve, WatchStep, WatchStart, RunEnds, Archive,
         Crash, WatchKill, vars, pastVars

\* What was discarded is not run, for any number of drafts and whatever is
\* killed, unless it had been approved and the application died over it.
THEOREM ValveDiscards == Safety => DiscardedNeverRuns
<1>1. Init => DiscardedNowhere
  BY DEF Init, DiscardedNowhere
<1>2. QED
  BY <1>1, OnceStart, OnceNext, DiscardNext, DiscardStep, ValveInvariant, PTL
     DEF Safety, DiscardedNeverRuns
-----------------------------------------------------------------------------
(* The valve implements PatchLife. *)

\* Nothing has happened to a draft before it is asked for.
Untouched == \A d \in Drafts : d > made => answers[d] = {} /\ d \notin severed

\* A draft that was approved has a file, unless it was struck.
YesHasFile ==
    \A d \in Drafts : "y" \in answers[d] /\ d \notin severed => \E i \in Ids : content[i] = d

LifeInv == ValveInv /\ OnceInv /\ DiscardedNowhere /\ Untouched /\ YesHasFile

\* At first there is nothing that could have happened.
LEMMA LifeStart == Init => LifeInv
<1> SUFFICES ASSUME Init PROVE LifeInv
  OBVIOUS
<1>1. DiscardedNowhere /\ Untouched /\ YesHasFile
  BY DEF Init, DiscardedNowhere, Untouched, YesHasFile
<1>2. QED
  BY <1>1, ValveInit, OnceStart DEF LifeInv

\* What somebody has in hand was asked for, and was not discarded.
LEMMA InHandAlive ==
    ASSUME LifeInv, NEW d \in InHand
    PROVE  d \in Drafts /\ d <= made /\ ("n" \in answers[d] => d \in severed)
<1> USE ValveConstants DEF ValveConstants, LifeInv, ValveInv, TypeOK, Drafts, Ids, None,
        DraftsInHand
<1>1. CASE d \in {queue[k] : k \in 1..Len(queue)}
  <2>1. PICK k \in 1..Len(queue) : d = queue[k]
    BY <1>1
  <2>2. QED
    BY <2>1 DEF OnceInv, Fresh, DiscardedNowhere, Nowhere
<1>2. CASE drafting = "asking" /\ d = made
  BY <1>2 DEF DiscardedNowhere, Nowhere
<1>3. CASE jui # "idle" /\ d = vault[judged]
  BY <1>3 DEF OnceInv, Fresh, DiscardedNowhere, Nowhere
<1>4. QED
  BY <1>1, <1>2, <1>3 DEF InHand

\* Nor was what the watcher has in hand.
LEMMA FileAlive ==
    ASSUME LifeInv, NEW i \in Ids, content[i] # None
    PROVE  /\ content[i] \in Drafts /\ content[i] <= made
           /\ "n" \in answers[content[i]] => content[i] \in severed
BY ValveConstants DEF ValveConstants, LifeInv, ValveInv, TypeOK, OnceInv, Fresh, None,
   DiscardedNowhere, Nowhere

\* A row that can be replied to is of a draft that was asked for, and has not
\* been replied to, nor run, unless it was struck.
LEMMA RowUnanswered ==
    ASSUME LifeInv, NEW i \in Ids, vault[i] # None, jui = "idle"
    PROVE  /\ vault[i] \in Drafts /\ vault[i] <= made
           /\ "n" \in answers[vault[i]] => vault[i] \in severed
           /\ vault[i] \notin severed =>
                 answers[vault[i]] = {} /\ runs[vault[i]] = 0
<1> USE ValveConstants DEF ValveConstants, LifeInv, ValveInv, TypeOK, OnceInv, None
<1>1. vault[i] \in Drafts /\ vault[i] <= made
  BY DEF Fresh
<1>2. "n" \in answers[vault[i]] => vault[i] \in severed
  BY <1>1 DEF DiscardedNowhere, Nowhere
<1>3. ASSUME vault[i] \notin severed
      PROVE  \A k \in Ids : content[k] # vault[i]
  BY <1>3 DEF Distinct, Approving
<1>4. ASSUME vault[i] \notin severed
      PROVE  answers[vault[i]] = {} /\ runs[vault[i]] = 0
  <2>1. "y" \notin answers[vault[i]]
    BY <1>1, <1>3, <1>4 DEF YesHasFile
  <2>2. answers[vault[i]] \in SUBSET {"y", "n"}
    BY <1>1
  <2>3. answers[vault[i]] = {}
    BY <1>2, <1>4, <2>1, <2>2
  <2>4. runs[vault[i]] = 0
    <3>1. runs[vault[i]] \in 0..2 /\ content[i] # vault[i]
      BY <1>1, <1>3, <1>4
    <3>2. QED
      BY <1>1, <3>1, RowUnrun
  <2>5. QED
    BY <2>3, <2>4
<1>5. QED
  BY <1>1, <1>2, <1>4

\* Whom a step strikes.
LEMMA Struck ==
    ASSUME LifeInv, [Next]_vars
    PROVE  /\ made <= made' /\ severed \subseteq severed'
           /\ \A d \in severed' \ severed : d <= made
<1> USE ValveConstants DEF ValveConstants, Drafts, Ids
<1>1. made \in Nat
  BY DEF LifeInv, ValveInv, TypeOK
<1>2. CASE UNCHANGED <<made, severed>>
  BY <1>1, <1>2
<1>3. CASE StartDraft
  BY <1>1, <1>3 DEF StartDraft, pastVars
<1>4. ASSUME NEW i \in Ids, SubmitYes(i) PROVE made' = made /\ severed' \subseteq severed \cup {vault[i]}
                                               /\ severed \subseteq severed' /\ vault[i] <= made
  BY <1>4, RowUnanswered DEF SubmitYes, Reply, First, Pending, appVars
<1>5. CASE Crash
  BY <1>1, <1>5, InHandAlive DEF Crash
<1>6. CASE WatchKill
  <2>1. watch # "up" => content[wid] <= made
    BY <1>6, FileAlive DEF WatchKill, LifeInv, ValveInv, TypeOK, DraftsInHand
  <2>2. QED
    BY <1>1, <1>6, <2>1 DEF WatchKill, appVars
<1>7. CASE Flush
  <2>1. PICK S \in SUBSET {queue[k] : k \in 1..Len(queue)} : severed' = severed \cup S
    BY <1>7, FlushRows DEF LifeInv
  <2>2. made' = made /\ S \subseteq InHand
    BY <1>7, <2>1 DEF Flush, InHand
  <2>3. QED
    BY <1>1, <2>1, <2>2, InHandAlive
<1>8. CASE Approve
  <2>1. /\ made' = made /\ vault[judged] \in InHand
        /\ severed' \in {severed, severed \cup {vault[judged]}}
    BY <1>8 DEF Approve, DeleteRow, InHand, appVars
  <2>2. QED
    BY <1>1, <2>1, InHandAlive
<1>9. ASSUME NEW i \in Ids, SubmitNo(i)
      PROVE  /\ made' = made /\ severed' \in {severed, severed \cup {vault[i]}}
             /\ vault[i] <= made
  BY <1>9, RowUnanswered DEF SubmitNo, DeleteRow, Reply, First, Pending, appVars
<1>10. CASE DraftStep \/ SwipeStage \/ CloseFile \/ WatchStep
  BY <1>2, <1>10 DEF DraftStep, QueueDraft, ReleaseDraft, SwipeStage, CloseFile,
         WatchStep, WatchStart, Run, RunEnds, Archive, appVars, pastVars
<1>11. QED
  BY <1>1, <1>2, <1>3, <1>4, <1>5, <1>6, <1>7, <1>8, <1>9, <1>10
     DEF Next, SubmitStep, vars, appVars, pastVars

\* What a step adds to the replies.
LEMMA Answered ==
    ASSUME LifeInv, [Next]_vars, NEW d \in Drafts, answers'[d] # answers[d]
    PROVE  \E i \in Ids : vault[i] = d /\ vault[i] # None /\ jui = "idle"
                          /\ (SubmitYes(i) \/ SubmitNo(i))
<1>1. PICK i \in Ids : SubmitYes(i) \/ SubmitNo(i)
  BY DEF Next, StartDraft, DraftStep, QueueDraft, ReleaseDraft, Flush, SwipeStage,
         SubmitStep, CloseFile, Approve, WatchStep, WatchStart, Run,
         RunEnds, Archive, Crash, WatchKill, vars, pastVars
<1>2. vault[i] = d
  BY <1>1 DEF SubmitYes, SubmitNo, Reply, LifeInv, ValveInv, TypeOK
<1>3. QED
  BY <1>1, <1>2 DEF SubmitYes, SubmitNo, Reply, First, Pending

\* Every step keeps these facts.
LEMMA LifeNext == LifeInv /\ [Next]_vars => LifeInv'
<1> SUFFICES ASSUME LifeInv, [Next]_vars PROVE LifeInv'
  OBVIOUS
<1>1. ValveInv' /\ OnceInv' /\ DiscardedNowhere'
  BY ValveNext, OnceNext, DiscardNext DEF LifeInv
<1>2. made \in Nat /\ made' \in Nat
  BY <1>1, ValveConstants DEF ValveConstants, LifeInv, ValveInv, TypeOK
<1>3. Untouched'
  <2>1. SUFFICES ASSUME NEW d \in Drafts, d > made'
                 PROVE  answers'[d] = {} /\ d \notin severed'
    BY ValveConstants DEF ValveConstants, Untouched, Drafts
  <2>2. d > made /\ d \in Nat
    BY <1>2, <2>1, Struck, ValveConstants DEF ValveConstants, Drafts
  <2>3. answers'[d] = answers[d]
    <3>1. ASSUME answers'[d] # answers[d] PROVE FALSE
      <4>1. PICK i \in Ids : vault[i] = d /\ vault[i] # None /\ jui = "idle"
        BY <3>1, Answered
      <4>2. d <= made
        BY <4>1, RowUnanswered
      <4>3. QED
        BY <1>2, <2>2, <4>2
    <3>2. QED
      BY <3>1
  <2>4. d \notin severed'
    BY <1>2, <2>2, Struck DEF LifeInv, Untouched
  <2>5. QED
    BY <2>2, <2>3, <2>4 DEF LifeInv, Untouched
<1>4. YesHasFile'
  <2>1. SUFFICES ASSUME NEW d \in Drafts, "y" \in answers'[d], d \notin severed'
                 PROVE  \E i \in Ids : content'[i] = d
    BY DEF YesHasFile, Drafts, Ids
  <2>2. \A i \in Ids : content[i] = d => content'[i] = d
    <3>1. d # None
      BY ValveConstants DEF ValveConstants, Drafts, None
    <3>2. CASE UNCHANGED vars
      BY <3>2 DEF vars, fileVars
    <3>3. CASE Next
      <4>1. ~ UNCHANGED vars => \A i \in Ids : content[i] # None => content'[i] = content[i]
        BY <3>3, NumbersStep DEF LifeInv
      <4>2. QED
        BY <3>1, <3>2, <4>1
    <3>4. QED
      BY <3>2, <3>3
  <2>3. CASE "y" \in answers[d]
    BY <2>1, <2>2, <2>3, Struck DEF LifeInv, YesHasFile
  <2>4. CASE "y" \notin answers[d]
    <3>1. PICK i \in Ids : vault[i] = d /\ (SubmitYes(i) \/ SubmitNo(i))
      BY <2>1, <2>4, Answered
    <3>2. CASE SubmitYes(i)
      BY <2>1, <3>1, <3>2 DEF SubmitYes, LifeInv, ValveInv, TypeOK
    <3>3. CASE SubmitNo(i)
      BY <2>1, <2>4, <3>1, <3>3 DEF SubmitNo, Reply, LifeInv, ValveInv, TypeOK
    <3>4. QED
      BY <3>1, <3>2, <3>3
  <2>5. QED
    BY <2>3, <2>4
<1>5. QED
  BY <1>1, <1>3, <1>4 DEF LifeInv

\* The drafts and the stages they have reached.
Lives == [d \in Drafts |-> Life(d)]

\* A step that is felt by one draft only.
LEMMA Moved ==
    ASSUME NEW d \in Drafts, NEW from, NEW to, Life(d) = from, Life(d)' = to,
           \A e \in Drafts : e # d => Life(e)' = Life(e)
    PROVE  Patch!Moves(d, from, to)
<1>1. Lives' = [Lives EXCEPT ![d] = to]
  BY DEF Lives
<1>2. QED
  BY <1>1 DEF Patch!Moves, Lives

\* A step after which every draft is where it was, to PatchLife.
Still == \A e \in Drafts : Life(e)' = Life(e)

\* Thread, file and watcher hand a draft on; none of that is felt.
LEMMA QuietStep ==
    ASSUME LifeInv,
           DraftStep \/ SwipeStage \/ CloseFile \/ WatchStart \/ RunEnds \/ UNCHANGED vars
    PROVE  Still
<1>1. UNCHANGED <<made, runs, severed, answers>>
  BY DEF DraftStep, QueueDraft, ReleaseDraft, SwipeStage, CloseFile,
         WatchStart, RunEnds, vars, appVars, pastVars
<1>2. \A e \in Drafts : Executing(e)' = Executing(e)
  BY DEF DraftStep, QueueDraft, ReleaseDraft, SwipeStage, CloseFile,
         WatchStart, RunEnds, vars, fileVars, watchVars, Executing
<1>3. QED
  BY <1>1, <1>2 DEF Still, Life

\* /draft takes the next number.
LEMMA AskStep ==
    ASSUME LifeInv, StartDraft, NEW d \in Drafts, d = made + 1 PROVE Patch!Ask(d)
<1> USE ValveConstants DEF ValveConstants, Drafts
<1>1. /\ made \in Nat /\ made' = d /\ d = made + 1
      /\ UNCHANGED <<runs, severed, answers, watch, wid, content>>
  BY DEF LifeInv, ValveInv, TypeOK, StartDraft, pastVars, watchVars, fileVars
<1>2. answers[d] = {} /\ d \notin severed
  BY <1>1 DEF LifeInv, Untouched
<1>3. ~ (runs[d] > 0)
  BY <1>1 DEF LifeInv, OnceInv, Fresh
<1>4. Life(d) = "unasked" /\ Life(d)' = "drafted"
  BY <1>1, <1>2, <1>3 DEF Life
<1>5. \A e \in Drafts : Executing(e)' = Executing(e)
  BY <1>1 DEF Executing
<1>6. \A e \in Drafts : e # d => (e > made' <=> e > made)
  BY <1>1
<1>7. \A e \in Drafts : e # d => Life(e)' = Life(e)
  BY <1>1, <1>5, <1>6 DEF Life
<1>8. QED
  BY <1>1, <1>4, <1>7, Moved DEF Patch!Ask

\* A kill, or a file that does not open, strikes drafts that are under way.
LEMMA StrikeStep ==
    ASSUME LifeInv, NEW S \in SUBSET Drafts, severed' = severed \cup S,
           UNCHANGED <<made, runs>>,
           \A d \in S : d <= made /\ ("n" \in answers[d] => d \in severed),
           \A d \in Drafts \ severed' : answers'[d] = answers[d] /\ Executing(d)' = Executing(d)
    PROVE  Patch!Strike(S)
<1> USE ValveConstants DEF ValveConstants, Drafts
<1>1. made \in Nat
  BY DEF LifeInv, ValveInv, TypeOK
<1>2. ASSUME NEW d \in S PROVE Life(d) \notin {"unasked", "discarded"} /\ Life(d)' = "struck"
  <2>1. ~ (d > made) /\ d \in severed'
    BY <1>1, <1>2
  <2>2. "n" \in answers[d] => d \in severed
    BY <1>2
  <2>3. QED
    BY <2>1, <2>2 DEF Life
<1>3. ASSUME NEW d \in Drafts, d \notin S PROVE Life(d)' = Life(d)
  BY <1>3 DEF Life
<1>4. Lives' = [d \in Drafts |-> IF d \in S THEN "struck" ELSE Lives[d]]
  BY <1>2, <1>3 DEF Lives
<1>5. \A d \in S : Lives[d] \notin {"unasked", "discarded"}
  BY <1>2 DEF Lives
<1>6. QED
  BY <1>4, <1>5 DEF Patch!Strike, Lives

\* The rows come and go unfelt, but for the drafts a failing vault strikes.
LEMMA VaultStep ==
    ASSUME LifeInv, Flush \/ Approve
    PROVE  \E S \in SUBSET Drafts : Patch!Strike(S)
<1>1. PICK S \in SUBSET InHand : severed' = severed \cup S
  <2>1. CASE Flush
    <3>1. PICK S \in SUBSET {queue[k] : k \in 1..Len(queue)} : severed' = severed \cup S
      BY <2>1, FlushRows DEF LifeInv
    <3>2. S \subseteq InHand
      BY <3>1 DEF InHand
    <3>3. QED
      BY <3>1, <3>2
  <2>2. CASE Approve
    <3>1. vault[judged] \in InHand /\ severed' \in {severed, severed \cup {vault[judged]}}
      BY <2>2 DEF Approve, DeleteRow, InHand
    <3>2. {} \in SUBSET InHand /\ {vault[judged]} \in SUBSET InHand
      BY <3>1
    <3>3. QED
      BY <3>1, <3>2
  <2>3. QED
    BY <2>1, <2>2
<1>2. UNCHANGED <<made, runs, answers, watch, wid, content>>
  BY DEF Flush, Approve, appVars, watchVars, fileVars
<1>3. \A e \in Drafts : Executing(e)' = Executing(e)
  BY <1>2 DEF Executing
<1>4. S \in SUBSET Drafts
      /\ \A d \in S : d <= made /\ ("n" \in answers[d] => d \in severed)
  BY <1>1, InHandAlive
<1>5. QED
  BY <1>1, <1>2, <1>3, <1>4, StrikeStep

\* "y" approves the draft of its row, unless the file does not open, or the
\* draft was struck before.
LEMMA AcceptStep ==
    ASSUME LifeInv, NEW i \in Ids, SubmitYes(i), NEW d \in Drafts, vault[i] = d
    PROVE  Patch!Accept(d) \/ Patch!Strike({d}) \/ Still
<1>1. vault[i] # None /\ vault[i] = d /\ jui = "idle"
  BY DEF SubmitYes, Reply, First, Pending
<1>2. d \in Drafts /\ d <= made
      /\ ("n" \in answers[d] => d \in severed)
  BY <1>1, RowUnanswered
<1>3. /\ UNCHANGED <<made, runs, watch, wid>>
      /\ answers' = [answers EXCEPT ![d] = @ \cup {"y"}]
      /\ content' \in {content, [content EXCEPT ![i] = d]}
      /\ severed' \in {severed, severed \cup {d}}
  BY DEF SubmitYes, Reply, appVars, watchVars, fileVars
<1>4. /\ \A e \in Drafts : e # d => answers'[e] = answers[e]
      /\ answers'[d] = answers[d] \cup {"y"}
  BY <1>2, <1>3 DEF LifeInv, ValveInv, TypeOK
<1>5. \A e \in Drafts : Executing(e)' = Executing(e)
  <2>1. watch \in {"running", "ran"} => content'[wid] = content[wid]
    BY <1>1, <1>3 DEF LifeInv, ValveInv, TypeOK, DraftsInHand, NumbersAgree
  <2>2. QED
    BY <1>3, <2>1 DEF Executing
<1>6. made \in Nat /\ d \in Nat
  BY <1>2, ValveConstants DEF ValveConstants, LifeInv, ValveInv, TypeOK, Drafts
<1>7. CASE d \in severed
  <2>1. severed' = severed
    BY <1>3, <1>7
  <2>2. ASSUME NEW e \in Drafts PROVE Life(e)' = Life(e)
    BY <1>3, <1>4, <1>5, <1>7, <2>1 DEF Life
  <2>3. QED
    BY <2>2 DEF Still
<1>8. CASE d \notin severed /\ severed' = severed
  <2>1. answers[d] = {} /\ runs[d] = 0
    BY <1>1, <1>8, RowUnanswered
  <2>2. Life(d) = "drafted" /\ Life(d)' = "approved"
    BY <1>2, <1>3, <1>4, <1>6, <1>8, <2>1 DEF Life
  <2>3. \A e \in Drafts : e # d => Life(e)' = Life(e)
    BY <1>3, <1>4, <1>5, <1>8 DEF Life
  <2>4. QED
    BY <1>2, <2>2, <2>3, Moved DEF Patch!Accept
<1>9. CASE severed' = severed \cup {d}
  BY <1>2, <1>3, <1>4, <1>5, <1>9, StrikeStep
<1>10. QED
  BY <1>3, <1>7, <1>8, <1>9

\* "n" discards the draft of its row, unless it was struck before, or its row
\* cannot be deleted.
LEMMA SubmitNoFelt ==
    ASSUME LifeInv, NEW i \in Ids, SubmitNo(i), NEW d \in Drafts, vault[i] = d
    PROVE  Patch!Discard(d) \/ Patch!Strike({d}) \/ Still
<1>1. vault[i] # None /\ vault[i] = d /\ jui = "idle"
  BY DEF SubmitNo, Reply, First, Pending
<1>2. d \in Drafts /\ d <= made
      /\ ("n" \in answers[d] => d \in severed)
  BY <1>1, RowUnanswered
<1>3. /\ UNCHANGED <<made, runs, watch, wid, content>>
      /\ answers' = [answers EXCEPT ![d] = @ \cup {"n"}]
      /\ severed' \in {severed, severed \cup {d}}
  BY DEF SubmitNo, DeleteRow, Reply, appVars, watchVars, fileVars
<1>4. /\ \A e \in Drafts : e # d => answers'[e] = answers[e]
      /\ answers'[d] = answers[d] \cup {"n"}
  BY <1>2, <1>3 DEF LifeInv, ValveInv, TypeOK
<1>5. \A e \in Drafts : Executing(e)' = Executing(e)
  BY <1>3 DEF Executing
<1>6. made \in Nat /\ d \in Nat
  BY <1>2, ValveConstants DEF ValveConstants, LifeInv, ValveInv, TypeOK, Drafts
<1>7. CASE d \in severed
  <2>1. severed' = severed
    BY <1>3, <1>7
  <2>2. ASSUME NEW e \in Drafts PROVE Life(e)' = Life(e)
    BY <1>3, <1>4, <1>5, <1>7, <2>1 DEF Life
  <2>3. QED
    BY <2>2 DEF Still
<1>8. CASE d \notin severed /\ severed' = severed
  <2>1. answers[d] = {} /\ runs[d] = 0
    BY <1>1, <1>8, RowUnanswered
  <2>2. Life(d) = "drafted" /\ Life(d)' = "discarded"
    BY <1>2, <1>3, <1>4, <1>6, <1>8, <2>1 DEF Life
  <2>3. \A e \in Drafts : e # d => Life(e)' = Life(e)
    BY <1>3, <1>4, <1>5, <1>8 DEF Life
  <2>4. QED
    BY <1>2, <2>2, <2>3, Moved DEF Patch!Discard
<1>9. CASE severed' = severed \cup {d}
  BY <1>2, <1>3, <1>4, <1>5, <1>9, StrikeStep
<1>10. QED
  BY <1>3, <1>7, <1>8, <1>9

\* A file that is found in the directory is of an approved draft that has not
\* run, and nothing else is running.
LEMMA BeginStep ==
    ASSUME LifeInv, NEW i \in Ids, Run(i), NEW d \in Drafts, content[i] = d
    PROVE  Patch!Begin(d) \/ Still
<1>1. /\ watch = "up" /\ watch' = "running" /\ wid' = i /\ file[i] # "absent"
      /\ UNCHANGED <<made, answers, severed, content>>
      /\ runs' = [runs EXCEPT ![d] = IF @ = 0 THEN 1 ELSE 2]
  BY DEF Run, appVars, fileVars
<1>2. content[i] # None /\ content[i] = d /\ "y" \in answers[d]
  BY <1>1 DEF LifeInv, ValveInv, FilesApproved
<1>3. d \in Drafts /\ d <= made
      /\ ("n" \in answers[d] => d \in severed)
  BY <1>2, FileAlive
<1>4. /\ \A e \in Drafts : e # d => runs'[e] = runs[e]
      /\ runs'[d] > 0
  BY <1>1, <1>3 DEF LifeInv, ValveInv, TypeOK
<1>5. \A e \in Drafts : ~Executing(e) /\ (Executing(e)' <=> e = d)
  BY <1>1 DEF Executing
<1>6. made \in Nat /\ d \in Nat
  BY <1>3, ValveConstants DEF ValveConstants, LifeInv, ValveInv, TypeOK, Drafts
<1>7. \A e \in Drafts : e # d => Life(e)' = Life(e)
  BY <1>1, <1>4, <1>5 DEF Life
<1>8. CASE d \in severed
  BY <1>1, <1>7, <1>8 DEF Life, Still
<1>9. CASE d \notin severed
  <2>1. runs[d] = 0
    <3>1. Traces /\ runs[d] \in 0..2
      BY <1>3 DEF LifeInv, OnceInv, ValveInv, TypeOK
    <3>2. QED
      BY <1>1, <1>2, <1>9, <3>1, FoundUnrun
  <2>2. Life(d) = "approved" /\ Life(d)' = "running"
    BY <1>1, <1>2, <1>3, <1>4, <1>5, <1>6, <1>9, <2>1 DEF Life
  <2>3. \A e \in Drafts : Lives[e] # "running"
    BY <1>5 DEF Lives, Life
  <2>4. QED
    BY <1>3, <1>7, <2>2, <2>3, Moved DEF Patch!Begin, Lives
<1>10. QED
  BY <1>8, <1>9

\* The script the watcher files away is done with.
LEMMA EndStep ==
    ASSUME LifeInv, Archive, NEW d \in Drafts, content[wid] = d
    PROVE  Patch!End(d) \/ Still
<1>1. watch = "ran" /\ watch' = "up" /\ wid \in Ids /\ content[wid] # None /\ content[wid] = d
      /\ UNCHANGED <<made, answers, runs, severed, content>>
  BY DEF Archive, appVars, pastVars, LifeInv, ValveInv, DraftsInHand
<1>2. d \in Drafts /\ d <= made
  BY <1>1, FileAlive
<1>3. \A e \in Drafts : ~Executing(e)' /\ (Executing(e) <=> e = d)
  BY <1>1 DEF Executing
<1>4. made \in Nat /\ d \in Nat
  BY <1>2, ValveConstants DEF ValveConstants, LifeInv, ValveInv, TypeOK, Drafts
<1>5. \A e \in Drafts : e # d => Life(e)' = Life(e)
  BY <1>1, <1>3 DEF Life
<1>6. CASE d \notin severed /\ runs[d] > 0
  <2>1. Life(d) = "running" /\ Life(d)' = "done"
    BY <1>1, <1>2, <1>3, <1>4, <1>6 DEF Life
  <2>2. QED
    BY <1>2, <1>5, <2>1, Moved DEF Patch!End
<1>7. CASE d \in severed \/ ~ (runs[d] > 0)
  BY <1>1, <1>5, <1>7 DEF Life, Still
<1>8. QED
  BY <1>6, <1>7

\* The kill of either side strikes what that side has in hand.
LEMMA KillStep ==
    ASSUME LifeInv, Crash \/ WatchKill
    PROVE  (\E S \in SUBSET Drafts : Patch!Strike(S)) \/ Still
<1>1. CASE Crash
  <2>1. UNCHANGED <<made, runs, answers, watch, wid, content>> /\ severed' = severed \cup InHand
    BY <1>1 DEF Crash, watchVars, fileVars
  <2>2. \A e \in Drafts : Executing(e)' = Executing(e)
    BY <2>1 DEF Executing
  <2>3. InHand \in SUBSET Drafts
        /\ \A d \in InHand : d <= made /\ ("n" \in answers[d] => d \in severed)
    BY InHandAlive
  <2>4. QED
    BY <2>1, <2>2, <2>3, StrikeStep
<1>2. CASE WatchKill /\ watch = "up"
  <2>1. UNCHANGED <<made, runs, answers, severed>> /\ \A e \in Drafts : Executing(e)' = Executing(e)
    BY <1>2 DEF WatchKill, appVars, fileVars, Executing
  <2>2. QED
    BY <2>1 DEF Life, Still
<1>3. CASE WatchKill /\ watch # "up"
  <2>1. /\ UNCHANGED <<made, runs, answers, content>> /\ watch' = "down"
        /\ severed' = severed \cup {content[wid]}
        /\ wid \in Ids /\ content[wid] # None
    BY <1>3 DEF WatchKill, appVars, fileVars, LifeInv, ValveInv, TypeOK, DraftsInHand
  <2>2. {content[wid]} \in SUBSET Drafts
        /\ \A d \in {content[wid]} : d <= made /\ ("n" \in answers[d] => d \in severed)
    BY <2>1, FileAlive
  <2>3. \A e \in Drafts \ severed' : Executing(e)' = Executing(e)
    BY <2>1 DEF Executing
  <2>4. QED
    BY <2>1, <2>2, <2>3, StrikeStep
<1>4. QED
  BY <1>1, <1>2, <1>3

\* Every step of the valve is a step of PatchLife, or is not felt there.
LEMMA ValveStepPatch ==
    LifeInv /\ [Next]_vars => [Patch!PatchNext]_Lives
<1> SUFFICES ASSUME LifeInv, [Next]_vars PROVE Patch!PatchNext \/ UNCHANGED Lives
  OBVIOUS
<1>1. Still => UNCHANGED Lives
  BY DEF Still, Lives
<1>2. CASE StartDraft
  <2>1. made + 1 \in Drafts
    BY <1>2, ValveConstants DEF ValveConstants, StartDraft, Drafts, LifeInv, ValveInv, TypeOK
  <2>2. QED
    BY <1>2, <2>1, AskStep DEF Patch!PatchNext
<1>3. ASSUME NEW i \in Ids, SubmitYes(i) PROVE Patch!PatchNext \/ UNCHANGED Lives
  <2>1. vault[i] \in Drafts
    BY <1>3, RowUnanswered DEF SubmitYes, Reply, First, Pending
  <2>2. QED
    BY <1>1, <1>3, <2>1, AcceptStep DEF Patch!PatchNext
<1>4. ASSUME NEW i \in Ids, SubmitNo(i) PROVE Patch!PatchNext \/ UNCHANGED Lives
  <2>1. vault[i] \in Drafts
    BY <1>4, RowUnanswered DEF SubmitNo, Reply, First, Pending
  <2>2. QED
    BY <1>1, <1>4, <2>1, SubmitNoFelt DEF Patch!PatchNext
<1>5. ASSUME NEW i \in Ids, Run(i) PROVE Patch!PatchNext \/ UNCHANGED Lives
  <2>1. content[i] \in Drafts
    BY <1>5, FileAlive DEF Run, LifeInv, ValveInv, FilesApproved
  <2>2. QED
    BY <1>1, <1>5, <2>1, BeginStep DEF Patch!PatchNext
<1>6. CASE Archive
  <2>1. content[wid] \in Drafts
    BY <1>6, FileAlive DEF Archive, LifeInv, ValveInv, DraftsInHand
  <2>2. QED
    BY <1>1, <1>6, <2>1, EndStep DEF Patch!PatchNext
<1>7. CASE Crash \/ WatchKill
  BY <1>1, <1>7, KillStep DEF Patch!PatchNext
<1>8. CASE Flush \/ Approve
  BY <1>8, VaultStep DEF Patch!PatchNext
<1>9. CASE DraftStep \/ SwipeStage \/ CloseFile \/ WatchStart \/ RunEnds \/ UNCHANGED vars
  BY <1>1, <1>9, QuietStep
<1>10. QED
  BY <1>2, <1>3, <1>4, <1>5, <1>6, <1>7, <1>8, <1>9 DEF Next, SubmitStep, WatchStep

\* The valve implements PatchLife: for any number of drafts, and whatever is
\* killed or fails, a patch is approved before it is run, is run once and alone,
\* and not after it was discarded; what is struck leaves the promise.
THEOREM ValveImplementsPatch == Safety => PatchPromise
<1>1. Init => Patch!PatchInit
  <2>1. ASSUME Init, NEW d \in Drafts PROVE Life(d) = "unasked"
    BY <2>1, ValveConstants DEF ValveConstants, Init, Drafts, Life
  <2>2. QED
    BY <2>1 DEF Patch!PatchInit
<1>2. LifeInv /\ [Next]_vars => [Patch!PatchNext]_[d \in Drafts |-> Life(d)]
  BY ValveStepPatch DEF Lives
<1>3. QED
  BY <1>1, <1>2, LifeStart, LifeNext, PTL DEF Safety, PatchPromise, Patch!PatchSafety
=============================================================================
