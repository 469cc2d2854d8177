-------------------------- MODULE PhotoTurnsProofs --------------------------
(***************************************************************************)
(* Proofs about PhotoTurns for any length of the memory and any number of  *)
(* photos and messages: it implements ChatHistory, and a photo that was    *)
(* sent is taken by the generation of its answer.                          *)
(***************************************************************************)
EXTENDS PhotoTurns, ChatHistoryProofs

\* A step of the photos is a step of the chat, or none.
LEMMA PhotoSteps == [Next]_vars => [HistoryNext]_historyVars
<1> SUFFICES ASSUME [Next]_vars PROVE HistoryNext \/ UNCHANGED historyVars
  OBVIOUS
<1>1. CASE PickerStep
  BY <1>1 DEF PickerStep, OpenPicker, Pick, TakePhoto, GiveUp, ClearAttachment
<1>2. CASE TypeText
  BY <1>2 DEF TypeText, HistoryNext
<1>3. CASE PressEnter
  BY <1>3 DEF PressEnter, HistoryNext, Enter
<1>4. CASE (\E n \in 0..2 : RunCommand(n)) \/ SendIt \/ WritePrompt \/ EmptyInput
  BY <1>4 DEF RunCommand, SendIt, WritePrompt, EmptyInput, HistoryNext, SubmitStep
<1>5. CASE Choose \/ Look \/ DraftLooks
  BY <1>5 DEF Choose, Look, DraftLooks
<1>6. CASE Speak \/ Return
  BY <1>6 DEF Speak, Return, HistoryNext, WorkerStep
<1>7. CASE Other
  BY <1>7 DEF Other, HistoryNext, SubmitStep, WorkerStep
<1>8. CASE UNCHANGED vars
  BY <1>8 DEF vars
<1>9. QED
  BY <1>1, <1>2, <1>3, <1>4, <1>5, <1>6, <1>7, <1>8 DEF Next, JavaStep

\* The photos leave the chat as it is: what is proved of the history holds with
\* them, too.
THEOREM PhotosImplementHistory == Spec => HistorySafety
<1>1. Init => HistoryInit
  BY DEF Init
<1>2. QED
  BY <1>1, PhotoSteps, PTL DEF Spec, HistorySafety

-----------------------------------------------------------------------------
\* The message that is to be answered is in the history until the prompt is
\* written; from then on the prompt has its tag; and a generation that found no
\* photo found no tag in its text.
PhotoInv ==
    /\ asked \in Nat /\ asked <= said
    /\ java \in {"clear", "prompt"} => Told < asked
    /\ java = "start" \/ worker # "off" => (asked \in tagged => prompt)
    /\ worker \notin {"summarise", "stream"} => eye = "unset"
    /\ worker = "stream" /\ eye = "none" => ~prompt

ChatInv == LogInv /\ ThreadInv

\* A message of the history that has a tag gives the prompt one.
LEMMA TagFound ==
    ASSUME LogInv, asked \in Nat, Told < asked, asked <= said, asked \in tagged
    PROVE  HasTag(Range(history))
<1>1. asked - Told \in 1 .. said - Told
  BY DEF LogInv
<1>2. history[asked - Told] = asked
  BY <1>1 DEF LogInv, From
<1>3. asked - Told \in DOMAIN history
  BY <1>1 DEF LogInv, From
<1>4. asked \in Range(history)
  BY <1>2, <1>3 DEF Range
<1>5. QED
  BY <1>4 DEF HasTag

\* Nothing was asked at first.
LEMMA PhotoStart == Init => PhotoInv
BY DEF Init, HistoryInit, PhotoInv

\* The picker, the chip and the mailbox change nothing of this.
LEMMA PhotoPicks == ASSUME PhotoInv, PickerStep PROVE PhotoInv'
<1>1. UNCHANGED <<historyVars, textVars, eye>>
  BY DEF PickerStep, OpenPicker, Pick, TakePhoto, GiveUp, ClearAttachment
<1>2. UNCHANGED <<said, Told, java, worker, asked, tagged, prompt, eye>>
  BY <1>1 DEF historyVars, logVars, workVars, textVars, Told
<1>3. QED
  BY <1>2 DEF PhotoInv

\* What the UI thread says later than the message is not that message.
LEMMA PhotoSays ==
    ASSUME PhotoInv, ChatInv, NEW n \in 0..2, RunCommand(n) PROVE PhotoInv'
<1>1. /\ UNCHANGED <<Told, worker, asked, prompt, eye>> /\ said' = said + n
      /\ java' = "edit"
  BY DEF RunCommand, Command, Say, workVars, Told
<1>2. asked \in tagged' => asked \in tagged
  BY DEF RunCommand, Tags, ChatInv, LogInv, PhotoInv
<1>3. asked' \in Nat /\ asked' <= said'
  BY <1>1 DEF PhotoInv, ChatInv, LogInv
<1>4. QED
  BY <1>1, <1>2, <1>3 DEF PhotoInv

\* A message is sent, and its prompt written, while no worker is about.
LEMMA PhotoSends ==
    ASSUME PhotoInv, ChatInv, SendIt \/ WritePrompt \/ EmptyInput PROVE PhotoInv'
<1> USE DEF answerVars, workVars, logVars
<1>1. CASE SendIt
  <2>1. /\ asked' = said + 1 /\ said' = said + 1 /\ Told' = Told /\ java' = "clear"
        /\ worker' = worker /\ worker = "off" /\ eye' = eye
    BY <1>1 DEF SendIt, SayIt, Say, Heard, ChatInv, ThreadInv, Told
  <2>2. said \in Nat /\ Told \in Nat /\ Told <= said
    BY DEF ChatInv, LogInv
  <2>3. QED
    BY <2>1, <2>2 DEF PhotoInv
<1>2. CASE WritePrompt
  <2>1. /\ UNCHANGED <<said, Told, worker, asked, tagged, eye>>
        /\ java = "prompt" /\ java' = "start" /\ prompt' = HasTag(Range(history)) /\ worker = "off"
    BY <1>2 DEF WritePrompt, BuildPrompt, ChatInv, ThreadInv, Told
  <2>2. asked \in tagged => HasTag(Range(history))
    BY <2>1, TagFound DEF PhotoInv, ChatInv
  <2>3. QED
    BY <2>1, <2>2 DEF PhotoInv
<1>3. CASE EmptyInput
  <2>1. /\ UNCHANGED <<said, Told, worker, asked, tagged, prompt, eye>>
        /\ (java = "clear" /\ java' = "prompt") \/ java' = "idle"
    BY <1>3 DEF EmptyInput, ClearInput, ClearEdit, Told
  <2>2. QED
    BY <2>1 DEF PhotoInv
<1>4. QED
  BY <1>1, <1>2, <1>3

\* A generation makes its choice, and forgets it when it returns.
LEMMA PhotoGenerates ==
    ASSUME PhotoInv, Choose \/ Look \/ DraftLooks \/ Speak \/ Return PROVE PhotoInv'
<1> USE DEF PhotoInv, logVars, workVars, textVars, historyVars, photoVars
<1>1. CASE Choose
  BY <1>1 DEF Choose, TextTag, Told
<1>2. CASE Look \/ DraftLooks
  <2>1. UNCHANGED <<said, Told, java, worker, asked, tagged, prompt>>
    BY <1>2 DEF Look, DraftLooks, Told
  <2>2. eye' = eye \/ (eye \notin {"unset", "none"} /\ eye' = "done")
    BY <1>2 DEF Look, DraftLooks
  <2>3. QED
    BY <2>1, <2>2
<1>3. CASE Speak
  BY <1>3 DEF Speak, Token, Goes, Told
<1>4. CASE Return
  BY <1>4 DEF Return, Summarise, Returned, Goes, Told
<1>5. QED
  BY <1>1, <1>2, <1>3, <1>4

\* The other steps of the chat make no choice.
LEMMA PhotoOther ==
    ASSUME PhotoInv, ChatInv, Other PROVE PhotoInv'
<1> USE DEF PhotoInv
<1>0. UNCHANGED <<asked, tagged, prompt, eye>>
  BY DEF Other, photoVars, textVars
<1>1. CASE Refuse \/ StartWorker
  <2>1. UNCHANGED <<said, Told>> /\ java' = "edit"
        /\ (worker' = worker \/ (java = "start" /\ worker' = "measure" /\ worker = "off"))
    BY <1>1 DEF Refuse, StartWorker, logVars, workVars, ChatInv, ThreadInv, Told
  <2>2. QED
    BY <1>0, <2>1
<1>2. CASE Measure \/ ClearStreaming \/ Finish
  <2>1. UNCHANGED <<said, Told, java>> /\ worker \notin {"off", "summarise", "stream"}
    BY <1>2 DEF Measure, ClearStreaming, Finish, Goes, logVars, Told
  <2>2. QED
    BY <1>0, <2>1
<1>3. CASE Fold
  <2>1. said' = said /\ java' = java /\ worker = "fold" /\ worker' = "clear"
    BY <1>3 DEF Fold, Goes
  <2>2. java \notin {"clear", "prompt"}
    BY <2>1 DEF ChatInv, ThreadInv
  <2>3. QED
    BY <1>0, <2>1, <2>2
<1>4. CASE Push \/ AddMessage
  <2>1. Told' = Told /\ said' \in {said, said + 1} /\ java' = java
        /\ (worker' = worker \/ (worker = "push" /\ worker' = "finish"))
    BY <1>4 DEF Push, Pushed, Say, AddMessage, Goes, logVars, workVars, Told
  <2>2. said \in Nat /\ asked <= said'
    BY <2>1 DEF ChatInv, LogInv
  <2>3. QED
    BY <1>0, <2>1, <2>2
<1>5. CASE FrameStep
  BY <1>0, <1>5 DEF FrameStep, ReadHistory, ReadStreaming, logVars, workVars, Told
<1>6. QED
  BY <1>1, <1>2, <1>3, <1>4, <1>5 DEF Other

\* Every step keeps what is known of the photo.
LEMMA PhotoNext == PhotoInv /\ ChatInv /\ [Next]_vars => PhotoInv'
<1> SUFFICES ASSUME PhotoInv, ChatInv, [Next]_vars PROVE PhotoInv'
  OBVIOUS
<1>1. CASE TypeText \/ PressEnter
  <2>1. UNCHANGED <<said, Told, worker, asked, tagged, prompt, eye>> /\ java' \in {"idle", "submit"}
    BY <1>1 DEF TypeText, PressEnter, Type, Enter, logVars, workVars, Told
  <2>2. QED
    BY <2>1 DEF PhotoInv
<1>2. CASE UNCHANGED vars
  BY <1>2 DEF vars, historyVars, photoVars, logVars, workVars, textVars, PhotoInv, Told
<1>3. QED
  BY <1>1, <1>2, PhotoPicks, PhotoSays, PhotoSends, PhotoGenerates, PhotoOther DEF Next, JavaStep

\* The generation of an answer takes the photo that was sent with its message,
\* though the summary before it may have used up the relay.
THEOREM PhotosTaken == Spec => []SentPhotoTaken
<1>1. Spec => []ChatInv
  <2>1. LogInv /\ [HistoryNext]_historyVars => LogInv'
    BY LogNext
  <2>2. QED
    BY <2>1, LogStart, PhotosImplementHistory, ThreadInvariant, PTL DEF HistorySafety, ChatInv
<1>2. PhotoInv => SentPhotoTaken
  BY DEF PhotoInv, SentPhotoTaken
<1>3. QED
  BY <1>1, <1>2, PhotoStart, PhotoNext, PTL DEF Spec
=============================================================================
