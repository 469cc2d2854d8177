---------------------------- MODULE ChatHistory -----------------------------
(***************************************************************************)
(* What chat_mutex protects (native/ChatEngine.cpp): the history, its      *)
(* rolling summary and the answer as it streams in, between the Java UI    *)
(* thread (submit), the worker of a chat message and the render loop; and  *)
(* the input line with its cursor, which nothing protects.                 *)
(*                                                                         *)
(* Messages are numbered as they are said.  A section under the lock is    *)
(* one step that needs the lock to be free.  The input is its length.      *)
(***************************************************************************)
EXTENDS Integers, SequencesExt

CONSTANTS
    Keep,        \* messages a summary leaves: 10 in the code
    Slack,       \* how many more there must be for a summary: 4
    MaxSaid,     \* bound: nobody begins to speak after so many messages
    MaxTokens,   \* bound on the tokens of an answer
    MaxInput     \* bound on what is typed

ASSUME HistoryConstants ==
    /\ Keep \in Nat \ {0} /\ Slack \in Nat
    /\ MaxSaid \in Nat /\ MaxTokens \in Nat /\ MaxInput \in Nat

VARIABLES
    chat,        \* state: "IDLE" or "INFERRING"
    lock,        \* chat_mutex
    said,        \* auxiliary: messages so far
    history,     \* history, as the numbers of its messages
    summary,     \* rolling_summary_, as the stretches of messages it tells of
    streaming,   \* streaming_response, as pieces
    raw,         \* auxiliary: what the model has said in this turn
    reply,       \* auxiliary: the number of the answer, once it is a message
    worker,      \* the worker thread: what it does next
    cut,         \* compress_history's locals: how many messages are to go,
    oldText,     \* and the stretch of messages that is summarised
    java,        \* the UI thread: what it does next
    input,       \* the length of input_buffer
    cursor,      \* cursor_pos_
    frame,       \* the render loop: "idle", or "history" when it has read it
    seen         \* the last message it has read

logVars == <<said, history, summary>>
answerVars == <<streaming, raw, reply>>
workVars == <<worker, cut, oldText>>
typeVars == <<input, cursor>>
frameVars == <<frame, seen>>
historyVars == <<chat, lock, logVars, answerVars, workVars, java, typeVars, frameVars>>

\* "<think>", "</think>", what is between them, and what is not.
Pieces == {"open", "close", "thought", "answer"}

\* Messages in a row, by their numbers.
Stretches == [first : Nat, last : Nat]
NoText == [first |-> 0, last |-> 0]

WorkerStages == {"off", "measure", "summarise", "fold", "clear", "stream", "push", "finish"}
JavaStages == {"idle", "submit", "clear", "prompt", "start", "save", "edit"}

\* Types; the messages of the history have been said.
HistoryTypeOK ==
    /\ chat \in {"IDLE", "INFERRING"}
    /\ lock \in {"free", "java", "worker"}
    /\ said \in Nat /\ cut \in Nat
    /\ history \in Seq(1..said)
    /\ summary \in Seq(Stretches) /\ oldText \in Stretches
    /\ streaming \in Seq(Pieces) /\ raw \in Seq(Pieces)
    /\ reply \in 0..said /\ seen \in 0..said
    /\ worker \in WorkerStages /\ java \in JavaStages
    /\ input \in Nat /\ cursor \in Nat
    /\ frame \in {"idle", "history"}

HistoryInit ==
    /\ chat = "IDLE" /\ lock = "free"
    /\ said = 0 /\ history = <<>> /\ summary = <<>>
    /\ streaming = <<>> /\ raw = <<>> /\ reply = 0
    /\ worker = "off" /\ cut = 0 /\ oldText = NoText
    /\ java = "idle" /\ input = 0 /\ cursor = 0
    /\ frame = "idle" /\ seen = 0

Free == lock = "free" /\ UNCHANGED lock

\* n messages are added to the history.
Say(n) ==
    /\ said' = said + n
    /\ history' = history \o [i \in 1..n |-> said + i]
    /\ UNCHANGED summary

-----------------------------------------------------------------------------
(* The think blocks. *)

\* The place of the first p, zero when there is none: std::string::find.
Place(s, p) == SelectInSeq(s, LAMBDA q : q = p)

\* The first opening tag comes before the first closing tag.
HasBlock(s) ==
    /\ Place(s, "open") # 0
    /\ Place(s, "open") < Place(s, "close")

WithoutBlock(s) ==
    SubSeq(s, 1, Place(s, "open") - 1) \o SubSeq(s, Place(s, "close") + 1, Len(s))

\* What is before a tag that is still open.
BeforeTag(s) ==
    IF Place(s, "open") # 0 THEN SubSeq(s, 1, Place(s, "open") - 1) ELSE s

\* Blocks are taken out, and then all that follows a tag still open.
Strip[s \in Seq(Pieces)] ==
    IF HasBlock(s) THEN Strip[WithoutBlock(s)] ELSE BeforeTag(s)

-----------------------------------------------------------------------------
(* The UI thread. *)

\* nativeOnText: set_input, for every change of the text field.
Type ==
    /\ java = "idle" /\ Free
    /\ input' \in 0..MaxInput
    /\ cursor' = input'
    /\ UNCHANGED <<chat, logVars, answerVars, workVars, java, frameVars>>

\* nativeOnEnter: a photo's tag is added at the cursor, but not while an
\* answer is under way.
Enter(tag) ==
    /\ java = "idle"
    /\ java' = "submit"
    /\ IF tag /\ chat = "IDLE"
         THEN input' = input + 1 /\ cursor' = cursor + 1
         ELSE UNCHANGED typeVars
    /\ UNCHANGED <<chat, lock, logVars, answerVars, workVars, frameVars>>

\* An answer is under way, there is nothing to send, or no model.
Refuse ==
    /\ java = "submit"
    /\ java' = "edit"
    /\ UNCHANGED <<chat, lock, logVars, answerVars, workVars, typeVars, frameVars>>

Heard == java = "submit" /\ chat = "IDLE" /\ input > 0 /\ said < MaxSaid

\* The busy and the pending branch and the commands that add n messages; the
\* input is cleared, the cursor is not.
Command(n) ==
    /\ Heard /\ Free
    /\ Say(n)
    /\ input' = 0
    /\ java' = "edit"
    /\ UNCHANGED <<chat, answerVars, workVars, cursor, frameVars>>

\* /save keeps the lock, and save_to_file takes it again.
Save ==
    /\ Heard
    /\ lock = "free" /\ lock' = "java"
    /\ Say(2)
    /\ input' = 0
    /\ java' = "save"
    /\ UNCHANGED <<chat, answerVars, workVars, cursor, frameVars>>

\* Nothing of the application moves any more.
Hung ==
    /\ java = "save" /\ lock = "java"
    /\ UNCHANGED historyVars

\* What would follow, once the lock is free.
SaveToFile ==
    /\ java = "save" /\ Free
    /\ java' = "edit"
    /\ UNCHANGED <<chat, logVars, answerVars, workVars, typeVars, frameVars>>

SayIt ==
    /\ Heard /\ Free
    /\ Say(1)
    /\ java' = "clear"
    /\ UNCHANGED <<chat, answerVars, workVars, typeVars, frameVars>>

ClearInput ==
    /\ java = "clear"
    /\ input' = 0 /\ cursor' = 0
    /\ java' = "prompt"
    /\ UNCHANGED <<chat, lock, logVars, answerVars, workVars, frameVars>>

\* build_prompt reads the history, without the lock.
BuildPrompt ==
    /\ java = "prompt"
    /\ java' = "start"
    /\ UNCHANGED <<chat, lock, logVars, answerVars, workVars, typeVars, frameVars>>

StartWorker ==
    /\ java = "start"
    /\ java' = "edit"
    /\ chat' = "INFERRING"
    /\ worker' = "measure"
    /\ UNCHANGED <<lock, logVars, answerVars, cut, oldText, typeVars, frameVars>>

\* Mutant: Enter does not empty the text field.
ClearEditForgotten ==
    /\ java = "edit" /\ Free
    /\ java' = "idle"
    /\ UNCHANGED <<chat, logVars, answerVars, workVars, typeVars, frameVars>>

\* clearEdit empties the field, which calls nativeOnText on the spot.
ClearEdit ==
    /\ java = "edit" /\ Free
    /\ java' = "idle"
    /\ input' = 0 /\ cursor' = 0
    /\ UNCHANGED <<chat, logVars, answerVars, workVars, frameVars>>

-----------------------------------------------------------------------------
(* The worker: inference_thread_func with compress_history. *)

Goes(from, to) ==
    /\ worker = from
    /\ worker' = to
    /\ UNCHANGED <<java, typeVars, frameVars>>

\* Mutant: what is kept is not counted, and the cut is below zero.
MeasureSlack ==
    /\ Free
    /\ IF Len(history) > Slack
         THEN Goes("measure", "summarise") /\ cut' = Len(history) - Keep
         ELSE Goes("measure", "clear") /\ UNCHANGED cut
    /\ UNCHANGED <<chat, oldText, logVars, answerVars>>

\* All but the last Keep messages are to go.  Of their text the end is taken, as
\* far as 6000 characters reach.
Measure ==
    /\ Free
    /\ \/ /\ Len(history) > Keep + Slack
          /\ Goes("measure", "summarise")
          /\ cut' = Len(history) - Keep
          /\ \E k \in 1..cut' : oldText' = [first |-> history[k], last |-> history[cut']]
       \/ /\ Len(history) <= Keep + Slack
          /\ Goes("measure", "clear")
          /\ UNCHANGED <<cut, oldText>>
    /\ UNCHANGED <<chat, logVars, answerVars>>

\* compress_history returns.
Dismiss == cut' = 0 /\ oldText' = NoText

\* The summary is generated without the lock; it may come out empty.
Summarise ==
    /\ \/ Goes("summarise", "fold") /\ UNCHANGED <<cut, oldText>>
       \/ Goes("summarise", "clear") /\ Dismiss
    /\ UNCHANGED <<chat, lock, logVars, answerVars>>

\* The new summary is added, and the end of them all is kept, as far as 1500
\* characters reach: earlier ones are dropped.
Remember ==
    LET all == Append(summary, oldText)
    IN  \E k \in DOMAIN all : summary' = SubSeq(all, k, Len(all))

\* Mutant: as many messages go as make the history short again.
FoldAnew ==
    /\ Free /\ Goes("fold", "clear")
    /\ Remember /\ Dismiss
    /\ history' = SubSeq(history, Len(history) - Keep + 1, Len(history))
    /\ UNCHANGED <<chat, said, answerVars>>

\* The messages that were measured go.
Fold ==
    /\ Free /\ Goes("fold", "clear")
    /\ Remember /\ Dismiss
    /\ history' = IF Len(history) > cut THEN SubSeq(history, cut + 1, Len(history))
                  ELSE history
    /\ UNCHANGED <<chat, said, answerVars>>

ClearStreaming ==
    /\ Free /\ Goes("clear", "stream")
    /\ streaming' = <<>> /\ raw' = <<>> /\ reply' = 0
    /\ UNCHANGED <<chat, cut, oldText, logVars>>

\* The model thinks from an opening tag to the next closing tag.
IsTag(p) == p \in {"open", "close"}
LastTag == SelectLastInSeq(raw, IsTag)
Thinking == LastTag # 0 /\ raw[LastTag] = "open"

NextPieces == IF Thinking THEN {"thought", "close"} ELSE {"answer", "open"}

\* Mutant: a closing tag takes all that is before it.
TokenToClose(p) ==
    /\ Free /\ Goes("stream", "stream")
    /\ Len(raw) < MaxTokens
    /\ p \in NextPieces
    /\ raw' = Append(raw, p)
    /\ streaming' = IF p = "close" THEN <<>> ELSE Strip[Append(streaming, p)]
    /\ UNCHANGED <<chat, cut, oldText, reply, logVars>>

\* The callback of generate.
Token(p) ==
    /\ Free /\ Goes("stream", "stream")
    /\ Len(raw) < MaxTokens
    /\ p \in NextPieces
    /\ raw' = Append(raw, p)
    /\ streaming' = Strip[Append(streaming, p)]
    /\ UNCHANGED <<chat, cut, oldText, reply, logVars>>

\* generate returns, for whatever reason.
Returned ==
    /\ Goes("stream", "push")
    /\ UNCHANGED <<chat, lock, cut, oldText, logVars, answerVars>>

Pushed ==
    IF Strip[streaming] # <<>>
    THEN Say(1) /\ reply' = said + 1
    ELSE UNCHANGED <<logVars, reply>>

\* Mutant: the answer is left where it was streamed to.
PushKeeping ==
    /\ Free /\ Goes("push", "finish")
    /\ Pushed
    /\ UNCHANGED <<chat, cut, oldText, streaming, raw>>

\* Mutant: the state is lowered while the thread goes on.
PushIdle ==
    /\ Free /\ Goes("push", "finish")
    /\ Pushed
    /\ streaming' = <<>>
    /\ chat' = "IDLE"
    /\ UNCHANGED <<cut, oldText, raw>>

\* An answer that is not empty becomes a message, in the same section in which
\* it stops being a stream.
Push ==
    /\ Free /\ Goes("push", "finish")
    /\ Pushed
    /\ streaming' = <<>>
    /\ UNCHANGED <<chat, cut, oldText, raw>>

\* Mutant: without an answer the state is not lowered.
FinishAnswered ==
    /\ Goes("finish", "off")
    /\ chat' = IF reply # 0 THEN "IDLE" ELSE chat
    /\ UNCHANGED <<lock, cut, oldText, logVars, answerVars>>

Finish ==
    /\ Goes("finish", "off")
    /\ chat' = "IDLE"
    /\ UNCHANGED <<lock, cut, oldText, logVars, answerVars>>

-----------------------------------------------------------------------------
(* The render loop. *)

\* add_message: the answer of the bridge, the report of a crash.
AddMessage ==
    /\ frame = "idle" /\ Free
    /\ said < MaxSaid
    /\ Say(1)
    /\ UNCHANGED <<chat, answerVars, workVars, java, typeVars, frameVars>>

ReadHistory ==
    /\ frame = "idle" /\ Free
    /\ frame' = "history"
    /\ seen' = said
    /\ UNCHANGED <<chat, logVars, answerVars, workVars, java, typeVars>>

\* With the stream it draws what it has read.
ReadStreaming ==
    /\ frame = "history" /\ Free
    /\ frame' = "idle"
    /\ seen' = 0
    /\ UNCHANGED <<chat, logVars, answerVars, workVars, java, typeVars>>

-----------------------------------------------------------------------------
SubmitStep ==
    \/ Refuse \/ (\E n \in 0..2 : Command(n)) \/ Save
    \/ SayIt \/ ClearInput \/ BuildPrompt \/ StartWorker \/ ClearEdit

WorkerStep ==
    \/ Measure \/ Summarise \/ Fold \/ ClearStreaming
    \/ (\E p \in Pieces : Token(p)) \/ Returned \/ Push \/ Finish

FrameStep == ReadHistory \/ ReadStreaming

HistoryNext ==
    \/ Type \/ (\E tag \in BOOLEAN : Enter(tag)) \/ SubmitStep
    \/ WorkerStep \/ AddMessage \/ FrameStep
    \/ Hung

\* All three threads run; the lock is free between their steps.
HistoryFairness ==
    /\ WF_historyVars(SubmitStep) /\ WF_historyVars(WorkerStep)
    /\ WF_historyVars(FrameStep)

HistorySafety == HistoryInit /\ [][HistoryNext]_historyVars

HistorySpec == HistorySafety /\ HistoryFairness

\* The same, and the UI thread goes on after /save as soon as it can.
SavingNext == HistoryNext \/ SaveToFile

SavingSpec ==
    /\ HistoryInit /\ [][SavingNext]_historyVars
    /\ HistoryFairness /\ WF_historyVars(SaveToFile)

-----------------------------------------------------------------------------
\* The newest message the summary tells of.
Told == IF summary = <<>> THEN 0 ELSE Last(summary).last

\* The history loses exactly the messages that were measured for a summary,
\* whatever is said while it is being generated (compress_history measures, lets
\* the lock go, and cuts by what it measured): it begins after the newest message
\* the summary tells of, without a gap, and no message is told twice.  What the
\* size limits drop of older text (ChatEngine.cpp:100, 108) is forgotten.
OnlyMeasuredGo ==
    /\ history = [i \in 1 .. said - Told |-> Told + i]
    /\ \A i, k \in DOMAIN summary : i < k => summary[i].last < summary[k].first

\* No frame shows an answer twice, as a message and as a stream: main.cpp:395
\* reads the history before the stream, the worker moves the one to the other
\* in one section (ChatEngine.cpp:185-203).
ReplyShownOnce ==
    frame = "history" /\ streaming # <<>> => reply = 0 \/ reply > seen

\* What a text says, without its tags and thoughts.
Words[s \in Seq(Pieces)] ==
    IF s = <<>> THEN <<>>
    ELSE IF Last(s) = "answer" THEN Append(Words[Front(s)], Last(s))
    ELSE Words[Front(s)]

\* The strips of think blocks, at every token and at the end, take no word of
\* an answer, wherever in it the model begins to think (ChatEngine.cpp:168-178),
\* and one with a word in it becomes a message (185-189).
AnswerKept ==
    /\ worker \in {"stream", "push"} => Words[streaming] = Words[raw]
    /\ worker = "finish" /\ Words[raw] # <<>> => reply # 0

\* build_prompt reads the history and the summary without chat_mutex
\* (ChatEngine.cpp:121-124), and the worker of the last turn, which changes
\* both, is over by then.  What is left are messages of the render loop.
PromptUndisturbed == java \in {"prompt", "start"} => worker = "off"

\* get_cursor_xy indexes the text up to the cursor (main.cpp:97): when the UI
\* thread is done with an Enter, the cursor is inside the text, though most
\* branches of submit clear one and not the other.
CursorAtRest == java = "idle" => cursor <= input

\* Every turn ends, also with an empty answer or summary, while three threads
\* take the lock from each other.
TurnDone == chat = "INFERRING" ~> chat = "IDLE"

\* HANDOFF_UI_PHASE.md:3: "/save AI export to Downloads/Izanami".  The file
\* is written (ChatEngine.cpp:416-418); then the UI thread waits for a lock that
\* it holds itself, and /save never ends.
SaveEnds == java = "save" ~> java = "idle"

\* HANDOFF_5_5.md:5: "live+end strip of think blocks".  The live strip takes the
\* opening tag alone, after which neither strip can tell what is a thought.
ThoughtsHidden == \A i \in DOMAIN streaming : streaming[i] # "thought"
=============================================================================
