------------------------- MODULE ChatHistoryProofs --------------------------
(***************************************************************************)
(* Proofs about ChatHistory for any length of the memory, any number of    *)
(* messages and of tokens: the history loses what was measured for a       *)
(* summary and nothing else, no frame shows an answer twice, the prompt is *)
(* not written while a worker is about, the cursor rests inside the text,  *)
(* and the strips of think blocks take no word of an answer.               *)
(***************************************************************************)
EXTENDS ChatHistory, SequenceTheorems, WellFoundedInduction, TLAPS

-----------------------------------------------------------------------------
(* The history. *)

\* What is left of the log from one message on, up to another.
From(first, final) == [i \in 1 .. final - first |-> first + i]

\* The stretches of the summary follow each other.
InOrder ==
    /\ summary \in Seq(Stretches)
    /\ \A i \in 1..Len(summary) :
          summary[i].first <= summary[i].last /\ summary[i].last <= Told
    /\ \A i, k \in 1..Len(summary) : i < k => summary[i].last < summary[k].first

\* What compress_history has measured: the oldest messages of the history, but
\* not all of them, and the end of their text.
Measured ==
    /\ cut \in Nat /\ 0 < cut /\ cut < said - Told
    /\ oldText \in Stretches /\ oldText.last = Told + cut
    /\ Told < oldText.first /\ oldText.first <= oldText.last

\* The history begins where the summary ends.
LogInv ==
    /\ said \in Nat /\ Told \in Nat /\ Told <= said
    /\ InOrder
    /\ worker \in {"summarise", "fold"} => Measured
    /\ history = From(Told, said)

\* A log is a sequence of messages.
LEMMA FromSeq ==
    ASSUME NEW first \in Nat, NEW final \in Nat, first <= final
    PROVE  /\ From(first, final) \in Seq(Nat)
           /\ Len(From(first, final)) = final - first
           /\ \A i \in 1 .. final - first : From(first, final)[i] = first + i
<1>1. final - first \in Nat
  OBVIOUS
<1>2. \A i \in 1 .. final - first : first + i \in Nat
  OBVIOUS
<1>3. From(first, final) \in Seq(Nat)
  BY <1>1, <1>2 DEF From
<1>4. QED
  BY <1>1, <1>3 DEF From

\* What is said comes at the end of the log.
LEMMA FromSay ==
    ASSUME NEW first \in Nat, NEW final \in Nat, first <= final, NEW n \in Nat
    PROVE  From(first, final) \o [i \in 1..n |-> final + i] = From(first, final + n)
<1> DEFINE s == From(first, final)
           t == [i \in 1..n |-> final + i]
           u == From(first, final + n)
<1>1. s \in Seq(Nat) /\ Len(s) = final - first
      /\ \A i \in 1 .. final - first : s[i] = first + i
  BY FromSeq
<1>2. t = From(final, final + n)
  BY DEF From
<1>3. t \in Seq(Nat) /\ Len(t) = n /\ \A i \in 1..n : t[i] = final + i
  <2>1. final + n \in Nat /\ final <= final + n /\ (final + n) - final = n
    OBVIOUS
  <2>2. QED
    BY <1>2, <2>1, FromSeq
<1>4. u \in Seq(Nat) /\ Len(u) = final + n - first
      /\ \A i \in 1 .. final + n - first : u[i] = first + i
  <2>1. final + n \in Nat /\ first <= final + n
    OBVIOUS
  <2>2. QED
    BY <2>1, FromSeq
<1> HIDE DEF s, t, u
<1>5. s \o t \in Seq(Nat) /\ Len(s \o t) = final + n - first
  <2>1. s \o t \in Seq(Nat) /\ Len(s \o t) = Len(s) + Len(t)
    BY <1>1, <1>3, ConcatProperties
  <2>2. (final - first) + n = final + n - first
    OBVIOUS
  <2>3. QED
    BY <1>1, <1>3, <2>1, <2>2
<1>6. ASSUME NEW i \in 1 .. Len(u) PROVE (s \o t)[i] = u[i]
  <2>1. i \in 1 .. Len(s) + Len(t)
    BY <1>1, <1>3, <1>4, <1>6
  <2>2. (s \o t)[i] = IF i <= Len(s) THEN s[i] ELSE t[i - Len(s)]
    BY <1>1, <1>3, <2>1, ConcatProperties
  <2>3. CASE i <= Len(s)
    BY <1>1, <1>4, <2>1, <2>2, <2>3
  <2>4. CASE ~(i <= Len(s))
    <3>1. i - Len(s) \in 1..n /\ Len(s) = final - first
      BY <1>1, <1>3, <2>1, <2>4
    <3>2. t[i - Len(s)] = final + (i - Len(s))
      BY <1>3, <3>1
    <3>3. final + (i - Len(s)) = first + i
      BY <3>1, <1>6
    <3>4. QED
      BY <1>4, <1>6, <2>2, <2>4, <3>2, <3>3
  <2>5. QED
    BY <2>3, <2>4
<1>7. s \o t = u
  BY <1>4, <1>5, <1>6, SeqEqual
<1>8. QED
  BY <1>7 DEF s, t, u

\* What is cut off goes from the beginning.
LEMMA FromCut ==
    ASSUME NEW first \in Nat, NEW final \in Nat, NEW n \in Nat, n < final - first
    PROVE  SubSeq(From(first, final), n + 1, Len(From(first, final))) = From(first + n, final)
<1> DEFINE s == From(first, final)
           u == From(first + n, final)
           v == SubSeq(s, n + 1, Len(s))
<1>1. s \in Seq(Nat) /\ Len(s) = final - first
      /\ \A i \in 1 .. final - first : s[i] = first + i
  BY FromSeq
<1>2. u \in Seq(Nat) /\ Len(u) = final - (first + n)
      /\ \A i \in 1 .. final - (first + n) : u[i] = first + n + i
  <2>1. first + n \in Nat /\ first + n <= final
    OBVIOUS
  <2>2. QED
    BY <2>1, FromSeq
<1> HIDE DEF s, u
<1>3. /\ v \in Seq(Nat)
      /\ Len(v) = Len(s) - n
      /\ \A i \in 1 .. Len(s) - n : v[i] = s[n + i]
  <2>1. n + 1 \in 1 .. Len(s) + 1 /\ Len(s) \in n .. Len(s) /\ n + 1 <= Len(s)
    BY <1>1
  <2>2. QED
    BY <1>1, <2>1, SubSeqProperties
<1> HIDE DEF v
<1>4. Len(v) = Len(u)
  BY <1>1, <1>2, <1>3
<1>5. ASSUME NEW i \in 1 .. Len(u) PROVE v[i] = u[i]
  <2>1. i \in 1 .. Len(s) - n /\ n + i \in 1 .. final - first
    BY <1>1, <1>2
  <2>2. v[i] = s[n + i] /\ s[n + i] = first + (n + i)
    BY <1>1, <1>3, <2>1
  <2>3. QED
    BY <1>2, <2>2
<1>6. v = u
  BY <1>2, <1>3, <1>4, <1>5, SeqEqual
<1>7. QED
  BY <1>6 DEF v, u, s

\* Nothing has been said at first.
LEMMA LogStart == HistoryInit => LogInv
<1> SUFFICES ASSUME HistoryInit PROVE LogInv
  OBVIOUS
<1>1. said = 0 /\ summary = <<>> /\ history = <<>> /\ worker = "off"
  BY DEF HistoryInit
<1>2. From(0, 0) = <<>>
  <2>1. From(0, 0) \in Seq(Nat) /\ Len(From(0, 0)) = 0
    BY FromSeq
  <2>2. QED
    BY <2>1, EmptySeq
<1>3. Told = 0 /\ InOrder
  BY <1>1 DEF Told, InOrder
<1>4. QED
  BY <1>1, <1>2, <1>3 DEF LogInv

\* Speaking keeps the log, whatever the worker has measured.
LEMMA LogSay ==
    ASSUME LogInv, NEW n \in Nat, Say(n),
           worker' \in {"summarise", "fold"} =>
             worker' = worker /\ cut' = cut /\ oldText' = oldText
    PROVE  LogInv'
<1>1. said' = said + n /\ summary' = summary
      /\ history' = history \o [i \in 1..n |-> said + i]
  BY DEF Say
<1>2. Told' = Told /\ InOrder'
  BY <1>1 DEF LogInv, InOrder, Told
<1>3. history' = From(Told', said')
  BY <1>1, <1>2, FromSay DEF LogInv
<1>4. said' \in Nat /\ Told' \in Nat /\ Told' <= said'
  BY <1>1, <1>2 DEF LogInv
<1>5. worker' \in {"summarise", "fold"} => Measured'
  BY <1>1, <1>2 DEF LogInv, Measured
<1>6. QED
  BY <1>2, <1>3, <1>4, <1>5 DEF LogInv

\* So do the steps that leave it alone.
LEMMA LogSame ==
    ASSUME LogInv, UNCHANGED logVars,
           worker' \in {"summarise", "fold"} =>
             worker \in {"summarise", "fold"} /\ cut' = cut /\ oldText' = oldText
    PROVE  LogInv'
<1>1. UNCHANGED <<said, history, summary>>
  BY DEF logVars
<1>2. Told' = Told /\ InOrder'
  BY <1>1 DEF LogInv, InOrder, Told
<1>3. worker' \in {"summarise", "fold"} => Measured'
  BY <1>1, <1>2 DEF LogInv, Measured
<1>4. QED
  BY <1>1, <1>2, <1>3 DEF LogInv

\* A new stretch at the end of the summary, and perhaps fewer at its beginning,
\* keep it in order.
LEMMA SummaryGrows ==
    ASSUME InOrder, Told \in Nat, Measured, Remember
    PROVE  Told' = Told + cut /\ InOrder'
<1> DEFINE all == Append(summary, oldText)
<1>1. PICK k \in DOMAIN all : summary' = SubSeq(all, k, Len(all))
  BY DEF Remember
<1>2. /\ summary \in Seq(Stretches) /\ oldText \in Stretches
      /\ all \in Seq(Stretches) /\ Len(all) = Len(summary) + 1
      /\ \A i \in 1..Len(summary) : all[i] = summary[i]
      /\ all[Len(summary) + 1] = oldText
  BY AppendProperties DEF InOrder, Measured
<1>3. k \in 1..Len(all) /\ Len(all) \in Nat
  BY <1>1, <1>2
<1> HIDE DEF all
<1>4. /\ summary' \in Seq(Stretches) /\ Len(summary') = Len(all) - k + 1
      /\ \A i \in 1..Len(summary') : summary'[i] = all[k + i - 1]
  BY <1>1, <1>2, <1>3, SubSeqProperties
<1>5. Len(summary') \in 1..Len(all) /\ summary'[Len(summary')] = oldText
  BY <1>2, <1>3, <1>4
<1>6. Told' = Told + cut
  <2>1. summary' # <<>>
    BY <1>5
  <2>2. Last(summary') = oldText
    BY <1>5 DEF Last
  <2>3. QED
    BY <2>1, <2>2 DEF Told, Measured
<1>7. \A i \in 1..Len(all) :
         /\ all[i].first \in Nat /\ all[i].last \in Nat
         /\ all[i].first <= all[i].last /\ all[i].last <= Told + cut
  <2> SUFFICES ASSUME NEW i \in 1..Len(all)
               PROVE  /\ all[i].first \in Nat /\ all[i].last \in Nat
                      /\ all[i].first <= all[i].last /\ all[i].last <= Told + cut
    OBVIOUS
  <2>1. all[i] \in Stretches
    BY <1>2
  <2>2. all[i].first \in Nat /\ all[i].last \in Nat
    BY <2>1 DEF Stretches
  <2>3. CASE i \in 1..Len(summary)
    BY <1>2, <2>2, <2>3 DEF InOrder, Measured
  <2>4. CASE i = Len(summary) + 1
    BY <1>2, <2>2, <2>4 DEF Measured
  <2>5. QED
    BY <1>2, <2>3, <2>4
<1>8. \A i, l \in 1..Len(all) : i < l => all[i].last < all[l].first
  <2> SUFFICES ASSUME NEW i \in 1..Len(all), NEW l \in 1..Len(all), i < l
               PROVE  all[i].last < all[l].first
    OBVIOUS
  <2>1. i \in 1..Len(summary) /\ (l \in 1..Len(summary) \/ l = Len(summary) + 1)
    BY <1>2
  <2>2. all[i].last \in Nat /\ all[l].first \in Nat
    BY <1>7
  <2>3. CASE l \in 1..Len(summary)
    BY <1>2, <2>1, <2>3 DEF InOrder
  <2>4. CASE l = Len(summary) + 1
    <3>1. all[i].last <= Told /\ all[l].first = oldText.first
      BY <1>2, <2>1, <2>4 DEF InOrder
    <3>2. QED
      BY <2>2, <3>1 DEF Measured
  <2>5. QED
    BY <2>1, <2>3, <2>4
<1>9. InOrder'
  <2>1. \A i \in 1..Len(summary') : k + i - 1 \in 1..Len(all)
    BY <1>3, <1>4
  <2>2. \A i \in 1..Len(summary') :
           summary'[i].first <= summary'[i].last /\ summary'[i].last <= Told'
    BY <1>4, <1>6, <1>7, <2>1
  <2>3. ASSUME NEW i \in 1..Len(summary'), NEW l \in 1..Len(summary'), i < l
        PROVE  summary'[i].last < summary'[l].first
    <3>1. k + i - 1 < k + l - 1
      BY <1>3, <1>5, <2>3
    <3>2. QED
      BY <1>4, <1>8, <2>1, <3>1
  <2>4. QED
    BY <1>4, <2>2, <2>3 DEF InOrder
<1>10. QED
  BY <1>6, <1>9

\* A worker measures.
LEMMA LogMeasure == ASSUME LogInv, Measure PROVE LogInv'
<1>1. UNCHANGED <<said, history, summary>>
  BY DEF Measure, logVars
<1>2. Told' = Told /\ InOrder'
  BY <1>1 DEF LogInv, InOrder, Told
<1>3. said \in Nat /\ Told \in Nat /\ Told <= said
  BY DEF LogInv
<1>4. Len(history) = said - Told /\ \A i \in 1 .. said - Told : history[i] = Told + i
  BY <1>3, FromSeq DEF LogInv
<1>5. worker' \in {"summarise", "fold"} => Measured'
  <2> SUFFICES ASSUME worker' \in {"summarise", "fold"} PROVE Measured'
    OBVIOUS
  <2>1. /\ Len(history) > Keep + Slack /\ cut' = Len(history) - Keep
        /\ \E k \in 1..cut' : oldText' = [first |-> history[k], last |-> history[cut']]
    BY DEF Measure, Goes
  <2>2. PICK c \in Nat : c = cut' /\ 0 < c /\ c < said - Told
    BY <1>3, <1>4, <2>1, HistoryConstants DEF HistoryConstants
  <2>3. PICK k \in 1..c : oldText' = [first |-> history[k], last |-> history[c]]
    BY <2>1, <2>2
  <2>4. oldText' = [first |-> Told + k, last |-> Told + c]
    BY <1>3, <1>4, <2>2, <2>3
  <2>5. Told + k \in Nat /\ Told + c \in Nat /\ Told < Told + k /\ Told + k <= Told + c
    BY <1>3
  <2>6. oldText' \in Stretches /\ oldText'.first = Told + k /\ oldText'.last = Told + c
    BY <2>4, <2>5 DEF Stretches
  <2>7. QED
    BY <1>1, <1>2, <2>2, <2>5, <2>6 DEF Measured
<1>6. QED
  BY <1>1, <1>2, <1>3, <1>5 DEF LogInv

\* And cuts what it has measured.
LEMMA LogFold == ASSUME LogInv, Fold PROVE LogInv'
<1>1. said \in Nat /\ Told \in Nat /\ Told <= said /\ InOrder /\ Measured
  BY DEF Fold, Goes, LogInv
<1>2. Told' = Told + cut /\ InOrder'
  BY <1>1, SummaryGrows DEF Fold
<1>3. cut \in Nat /\ cut < said - Told
  BY <1>1 DEF Measured
<1>4. Len(history) = said - Told
  BY <1>1, FromSeq DEF LogInv
<1>5. history' = SubSeq(history, cut + 1, Len(history))
  BY <1>3, <1>4 DEF Fold
<1>6. said' = said /\ worker' = "clear"
  BY DEF Fold, Goes
<1>7. history' = From(Told', said')
  BY <1>1, <1>2, <1>3, <1>5, <1>6, FromCut DEF LogInv
<1>8. QED
  BY <1>1, <1>2, <1>3, <1>6, <1>7 DEF LogInv

\* The answer becomes a message, or there is none.
LEMMA LogPush ==
    ASSUME LogInv, Push PROVE LogInv'
<1>1. worker' = "finish"
  BY DEF Push, Goes
<1>2. CASE Say(1)
  BY <1>1, <1>2, LogSay
<1>3. CASE UNCHANGED logVars
  BY <1>1, <1>3, LogSame
<1>4. QED
  BY <1>2, <1>3 DEF Push, Pushed

\* Every step keeps the log.
LEMMA LogNext == LogInv /\ [HistoryNext]_historyVars => LogInv'
<1> SUFFICES ASSUME LogInv, [HistoryNext]_historyVars PROVE LogInv'
  OBVIOUS
<1>1. CASE \E n \in 0..2 : Command(n)
  <2>1. PICK n \in 0..2 : Command(n)
    BY <1>1
  <2>2. Say(n) /\ n \in Nat /\ worker' = worker /\ cut' = cut /\ oldText' = oldText
    BY <2>1 DEF Command, workVars
  <2>3. QED
    BY <2>2, LogSay
<1>2. CASE Save
  BY <1>2, LogSay DEF Save, workVars
<1>3. CASE SayIt \/ AddMessage
  BY <1>3, LogSay DEF SayIt, AddMessage, workVars
<1>4. CASE Refuse \/ ClearInput \/ BuildPrompt \/ StartWorker \/ ClearEdit
  BY <1>4, LogSame DEF Refuse, ClearInput, BuildPrompt, StartWorker, ClearEdit, workVars
<1>5. CASE Type \/ \E tag \in BOOLEAN : Enter(tag)
  BY <1>5, LogSame DEF Type, Enter, workVars
<1>6. CASE Measure \/ Summarise \/ Fold
  BY <1>6, LogMeasure, LogFold, LogSame DEF Summarise, Goes
<1>7. CASE ClearStreaming \/ Returned \/ Finish \/ \E p \in Pieces : Token(p)
  BY <1>7, LogSame DEF ClearStreaming, Returned, Finish, Token, Goes
<1>8. CASE Push
  BY <1>8, LogPush
<1>9. CASE FrameStep \/ Hung \/ UNCHANGED historyVars
  BY <1>9, LogSame DEF FrameStep, ReadHistory, ReadStreaming, Hung, historyVars, workVars
<1>10. QED
  BY <1>1, <1>2, <1>3, <1>4, <1>5, <1>6, <1>7, <1>8, <1>9 DEF HistoryNext, SubmitStep, WorkerStep

\* The history loses what was measured for a summary and nothing else, and no
\* message is told twice, for any memory, whatever is said while a summary is
\* being generated and whatever the size limits drop of older text.
THEOREM HistoryExact == HistorySafety => []OnlyMeasuredGo
<1>1. LogInv => OnlyMeasuredGo
  BY DEF LogInv, InOrder, OnlyMeasuredGo, From
<1>2. QED
  BY <1>1, LogStart, LogNext, PTL DEF HistorySafety

-----------------------------------------------------------------------------
(* The threads. *)

\* A worker is about only while an answer is under way, a prompt is written
\* only when none is; a stream is not empty only while it is not a message;
\* the cursor leaves the text only in submit.
ThreadInv ==
    /\ chat = "IDLE" => worker = "off"
    /\ java \in {"clear", "prompt", "start"} => chat = "IDLE"
    /\ worker \in {"stream", "push"} => reply = 0
    /\ worker \notin {"stream", "push"} => streaming = <<>>
    /\ input \in Int /\ cursor \in Int
    /\ CursorAtRest

\* At first there is neither a worker nor a text.
LEMMA ThreadStart == HistoryInit => ThreadInv
BY DEF HistoryInit, ThreadInv, CursorAtRest

\* Typing keeps the cursor at the end of the text, a tag moves both.
LEMMA ThreadTypes ==
    ASSUME ThreadInv, Type \/ \E tag \in BOOLEAN : Enter(tag) PROVE ThreadInv'
<1> USE HistoryConstants DEF HistoryConstants, ThreadInv, CursorAtRest, typeVars, workVars, answerVars
<1>1. CASE Type
  BY <1>1 DEF Type
<1>2. ASSUME NEW tag \in BOOLEAN, Enter(tag) PROVE ThreadInv'
  BY <1>2 DEF Enter
<1>3. QED
  BY <1>1, <1>2

\* A submission is one only while nobody answers.
LEMMA ThreadSubmits ==
    ASSUME ThreadInv, SubmitStep PROVE ThreadInv'
<1> USE DEF ThreadInv, CursorAtRest, typeVars, workVars, answerVars
<1>1. CASE Refuse \/ (\E n \in 0..2 : Command(n)) \/ Save
  BY <1>1 DEF Refuse, Command, Save, Heard
<1>2. CASE SayIt \/ ClearInput \/ BuildPrompt
  BY <1>2 DEF SayIt, ClearInput, BuildPrompt, Heard
<1>3. CASE StartWorker \/ ClearEdit
  BY <1>3 DEF StartWorker, ClearEdit
<1>4. QED
  BY <1>1, <1>2, <1>3 DEF SubmitStep

\* A worker streams, then moves the stream to the history, then is done.
LEMMA ThreadWorks ==
    ASSUME ThreadInv, WorkerStep PROVE ThreadInv'
<1> USE DEF ThreadInv, CursorAtRest, typeVars, answerVars, Goes
<1>1. CASE Measure \/ Summarise \/ Fold
  BY <1>1 DEF Measure, Summarise, Fold
<1>2. CASE ClearStreaming \/ \E p \in Pieces : Token(p)
  BY <1>2 DEF ClearStreaming, Token
<1>3. CASE Returned \/ Push \/ Finish
  BY <1>3 DEF Returned, Push, Finish
<1>4. QED
  BY <1>1, <1>2, <1>3 DEF WorkerStep

\* Every step keeps the threads apart.
LEMMA ThreadNext == ThreadInv /\ [HistoryNext]_historyVars => ThreadInv'
<1> SUFFICES ASSUME ThreadInv, [HistoryNext]_historyVars PROVE ThreadInv'
  OBVIOUS
<1>1. CASE AddMessage \/ FrameStep \/ Hung \/ UNCHANGED historyVars
  BY <1>1 DEF ThreadInv, CursorAtRest, typeVars, workVars, answerVars, historyVars,
              AddMessage, FrameStep, ReadHistory, ReadStreaming, Hung
<1>2. QED
  BY <1>1, ThreadTypes, ThreadSubmits, ThreadWorks DEF HistoryNext

\* The threads are apart in every reachable state.
LEMMA ThreadInvariant == HistorySafety => []ThreadInv
BY ThreadStart, ThreadNext, PTL DEF HistorySafety

\* No frame shows an answer as a message and as a stream.
THEOREM HistoryShowsOnce == HistorySafety => []ReplyShownOnce
<1>1. ThreadInv => ReplyShownOnce
  BY DEF ThreadInv, ReplyShownOnce
<1>2. QED
  BY <1>1, ThreadInvariant, PTL

\* While a prompt is written no worker is about, though no lock says so.
THEOREM HistoryPromptAlone == HistorySafety => []PromptUndisturbed
<1>1. ThreadInv => PromptUndisturbed
  BY DEF ThreadInv, PromptUndisturbed
<1>2. QED
  BY <1>1, ThreadInvariant, PTL

\* The cursor rests inside the text, after every branch of submit.
THEOREM HistoryCursor == HistorySafety => []CursorAtRest
<1>1. ThreadInv => CursorAtRest
  BY DEF ThreadInv
<1>2. QED
  BY <1>1, ThreadInvariant, PTL

-----------------------------------------------------------------------------
(* Induction and recursion over what has a size. *)

\* The order of the naturals, as a relation.
SmallerPairs == OpToRel(<, Nat)

\* The order of the naturals is well-founded.
LEMMA SmallerFounded == IsWellFoundedOn(SmallerPairs, Nat)
BY NatLessThanWellFounded DEF SmallerPairs

\* A smaller number is below a greater one in it.
LEMMA SmallerIn == \A m, n \in Nat : m < n => <<m, n>> \in SmallerPairs
BY DEF SmallerPairs, OpToRel

\* Every set of naturals that is not empty has a least member.
LEMMA LeastMember ==
    ASSUME NEW S, S \subseteq Nat, S # {}
    PROVE  \E least \in S : \A n \in S : least <= n
<1>1. PICK least \in S : \A n \in S : <<n, least>> \notin SmallerPairs
  BY SmallerFounded, WFMin
<1>2. \A n \in S : ~(n < least)
  BY <1>1, SmallerIn
<1>3. QED
  BY <1>2

\* A set that has every number whose predecessors it has, has all numbers.
LEMMA CourseOfValues ==
    ASSUME NEW S, \A n \in Nat : (\A m \in Nat : m < n => m \in S) => n \in S
    PROVE  Nat \subseteq S
<1> SUFFICES ASSUME Nat \ S # {} PROVE FALSE
  OBVIOUS
<1>1. PICK least \in Nat \ S : \A n \in Nat \ S : least <= n
  <2>1. Nat \ S \subseteq Nat
    OBVIOUS
  <2>2. QED
    BY <2>1, LeastMember
<1>2. \A m \in Nat : m < least => m \in S
  BY <1>1
<1>3. QED
  BY <1>1, <1>2

\* A recursion over S with values in T: where it stops, with what, and how a
\* value comes from that of an argument of smaller size.
Descends(S, T, size, next, stop, base, op) ==
    /\ size \in [S -> Nat] /\ next \in [S -> S]
    /\ stop \in SUBSET S /\ base \in [S -> T] /\ op \in [S \X T -> T]
    /\ \A s \in S \ stop : size[next[s]] < size[s]

Obeys(f, S, next, stop, base, op) ==
    \A s \in S : f[s] = IF s \in stop THEN base[s] ELSE op[<<s, f[next[s]]>>]

\* Such a recursion defines a function.
LEMMA Recursion ==
    ASSUME NEW S, NEW T, NEW size, NEW next, NEW stop, NEW base, NEW op,
           Descends(S, T, size, next, stop, base, op)
    PROVE  \E f \in [S -> T] : Obeys(f, S, next, stop, base, op)
<1> USE DEF Descends
<1> DEFINE Below(n) == {s \in S : size[s] < n}
           Solves(g, n) == \A s \in Below(n) :
              g[s] = IF s \in stop THEN base[s] ELSE op[<<s, g[next[s]]>>]
           Solutions(n) == {g \in [Below(n) -> T] : Solves(g, n)}
<1>1. \A s \in S, n \in Nat : s \in Below(n) /\ s \notin stop => next[s] \in Below(n)
  OBVIOUS
<1>2. \A m, n \in Nat : \A g \in Solutions(m), h \in Solutions(n) :
        \A s \in Below(m) \cap Below(n) : g[s] = h[s]
  <2> SUFFICES ASSUME NEW m \in Nat, NEW n \in Nat,
                      NEW g \in Solutions(m), NEW h \in Solutions(n)
               PROVE  \A s \in Below(m) \cap Below(n) : g[s] = h[s]
    OBVIOUS
  <2> DEFINE Agree == {k \in Nat : \A s \in Below(m) \cap Below(n) : size[s] = k => g[s] = h[s]}
  <2>1. ASSUME NEW k \in Nat, \A j \in Nat : j < k => j \in Agree
        PROVE  k \in Agree
    <3> SUFFICES ASSUME NEW s \in Below(m) \cap Below(n), size[s] = k PROVE g[s] = h[s]
      OBVIOUS
    <3>1. g[s] = IF s \in stop THEN base[s] ELSE op[<<s, g[next[s]]>>]
      OBVIOUS
    <3>2. h[s] = IF s \in stop THEN base[s] ELSE op[<<s, h[next[s]]>>]
      OBVIOUS
    <3>3. CASE s \in stop
      BY <3>1, <3>2, <3>3
    <3>4. CASE s \notin stop
      <4>1. next[s] \in Below(m) \cap Below(n) /\ size[next[s]] < k /\ size[next[s]] \in Nat
        BY <1>1, <3>4
      <4>2. g[next[s]] = h[next[s]]
        BY <2>1, <4>1
      <4>3. QED
        BY <3>1, <3>2, <4>2
    <3>5. QED
      BY <3>3, <3>4
  <2>2. Nat \subseteq Agree
    <3> HIDE DEF Agree
    <3>1. QED
      BY <2>1, CourseOfValues
  <2>3. QED
    BY <2>2
<1>3. \A n \in Nat : Solutions(n) # {}
  <2> DEFINE Solved == {n \in Nat : Solutions(n) # {}}
  <2>1. ASSUME NEW n \in Nat, \A m \in Nat : m < n => m \in Solved
        PROVE  n \in Solved
    <3>1. CASE n = 0
      <4>1. Below(0) = {}
        OBVIOUS
      <4>2. [s \in {} |-> base[s]] \in Solutions(0)
        BY <4>1
      <4>3. QED
        BY <3>1, <4>2
    <3>2. CASE n # 0
      <4>1. n - 1 \in Nat /\ n - 1 < n
        BY <3>2
      <4>2. PICK g : g \in Solutions(n - 1)
        BY <2>1, <4>1
      <4> DEFINE h == [s \in Below(n) |->
                         IF s \in stop THEN base[s] ELSE op[<<s, g[next[s]]>>]]
      <4>3. ASSUME NEW s \in Below(n), s \notin stop
            PROVE  next[s] \in Below(n - 1) /\ next[s] \in Below(n)
        BY <4>1, <4>3
      <4>4. h \in [Below(n) -> T]
        <5>1. ASSUME NEW s \in Below(n), s \notin stop PROVE g[next[s]] \in T
          BY <4>2, <4>3, <5>1
        <5>2. QED
          BY <5>1
      <4>5. ASSUME NEW s \in Below(n), s \notin stop PROVE h[next[s]] = g[next[s]]
        <5>1. next[s] \in Below(n - 1) /\ next[s] \in Below(n)
          BY <4>3, <4>5
        <5>2. g[next[s]] = IF next[s] \in stop THEN base[next[s]]
                           ELSE op[<<next[s], g[next[next[s]]]>>]
          BY <4>2, <5>1
        <5>3. QED
          BY <5>1, <5>2
      <4>6. Solves(h, n)
        BY <4>5
      <4>7. QED
        BY <4>4, <4>6
    <3>3. QED
      BY <3>1, <3>2
  <2>2. Nat \subseteq Solved
    <3> HIDE DEF Solved
    <3>1. QED
      BY <2>1, CourseOfValues
  <2>3. QED
    BY <2>2
<1> DEFINE Part(s) == CHOOSE g : g \in Solutions(size[s] + 1)
           f == [s \in S |-> Part(s)[s]]
<1>4. \A s \in S : Part(s) \in Solutions(size[s] + 1) /\ s \in Below(size[s] + 1)
  <2> SUFFICES ASSUME NEW s \in S
               PROVE  Part(s) \in Solutions(size[s] + 1) /\ s \in Below(size[s] + 1)
    OBVIOUS
  <2>1. size[s] + 1 \in Nat /\ s \in Below(size[s] + 1)
    OBVIOUS
  <2>2. Part(s) \in Solutions(size[s] + 1)
    <3> HIDE DEF Solutions
    <3>1. \E g : g \in Solutions(size[s] + 1)
      BY <1>3, <2>1
    <3>2. QED
      BY <3>1
  <2>3. QED
    BY <2>1, <2>2
<1> HIDE DEF Part
<1>5. f \in [S -> T]
  BY <1>4
<1>6. ASSUME NEW s \in S
      PROVE  f[s] = IF s \in stop THEN base[s] ELSE op[<<s, f[next[s]]>>]
  <2>1. Part(s)[s] = IF s \in stop THEN base[s] ELSE op[<<s, Part(s)[next[s]]>>]
    BY <1>4
  <2>2. ASSUME s \notin stop PROVE Part(s)[next[s]] = f[next[s]]
    <3>1. next[s] \in Below(size[s] + 1) \cap Below(size[next[s]] + 1)
      BY <1>1, <1>4, <2>2
    <3>2. Part(s)[next[s]] = Part(next[s])[next[s]]
      <4> HIDE DEF Solutions, Below
      <4>1. size[s] + 1 \in Nat /\ size[next[s]] + 1 \in Nat /\ next[s] \in S
        OBVIOUS
      <4>2. QED
        BY <1>2, <1>4, <3>1, <4>1
    <3>3. QED
      BY <3>2
  <2>3. QED
    BY <2>1, <2>2
<1>7. QED
  BY <1>5, <1>6 DEF Obeys

-----------------------------------------------------------------------------
(* The think blocks. *)

\* Place is std::string::find.
LEMMA PlaceFinds ==
    ASSUME NEW s \in Seq(Pieces), NEW p
    PROVE  /\ Place(s, p) \in 0 .. Len(s)
           /\ Place(s, p) = 0 => \A i \in 1 .. Len(s) : s[i] # p
           /\ Place(s, p) # 0 => /\ s[Place(s, p)] = p
                                /\ \A i \in 1 .. Place(s, p) - 1 : s[i] # p
<1> DEFINE Found == {i \in 1 .. Len(s) : s[i] = p}
<1>1. Place(s, p) = IF Found # {} THEN Min(Found) ELSE 0
  BY DEF Place, SelectInSeq
<1>2. CASE Found = {}
  BY <1>1, <1>2
<1>3. CASE Found # {}
  <2>1. Found \subseteq Nat
    OBVIOUS
  <2>2. \E i \in Found : \A j \in Found : i <= j
    <3> HIDE DEF Found
    <3>1. QED
      BY <1>3, <2>1, LeastMember
  <2>3. Min(Found) \in Found /\ \A j \in Found : Min(Found) <= j
    <3> HIDE DEF Found
    <3>1. QED
      BY <2>2 DEF Min
  <2>4. Place(s, p) = Min(Found)
    BY <1>1, <1>3
  <2>5. Place(s, p) \in 1 .. Len(s) /\ s[Place(s, p)] = p
    BY <2>3, <2>4
  <2>6. ASSUME NEW i \in 1 .. Place(s, p) - 1 PROVE s[i] # p
    <3>1. i \in Found => Place(s, p) <= i
      BY <2>3, <2>4
    <3>2. i \in 1 .. Len(s) /\ ~(Place(s, p) <= i)
      BY <2>5
    <3>3. QED
      BY <3>1, <3>2
  <2>7. QED
    BY <2>5, <2>6
<1>4. QED
  BY <1>2, <1>3

\* What is left of a text is a text, and a block that is taken out is not empty.
LEMMA CutShorter ==
    ASSUME NEW s \in Seq(Pieces)
    PROVE  /\ HasBlock(s) => WithoutBlock(s) \in Seq(Pieces) /\ Len(WithoutBlock(s)) < Len(s)
           /\ BeforeTag(s) \in Seq(Pieces)
<1> DEFINE a == Place(s, "open")
           b == Place(s, "close")
<1>1. a \in 0 .. Len(s) /\ b \in 0 .. Len(s)
  BY PlaceFinds
<1> HIDE DEF a, b
<1>2. a # 0 => SubSeq(s, 1, a - 1) \in Seq(Pieces) /\ Len(SubSeq(s, 1, a - 1)) = a - 1
  <2>1. a # 0 => a - 1 \in Int /\ \A i \in 1 .. a - 1 : s[i] \in Pieces
    BY <1>1
  <2>2. QED
    BY <1>1, <2>1, SubSeqProperties
<1>3. SubSeq(s, b + 1, Len(s)) \in Seq(Pieces) /\ Len(SubSeq(s, b + 1, Len(s))) = Len(s) - b
  <2>1. b + 1 \in Int /\ \A i \in b + 1 .. Len(s) : s[i] \in Pieces
    BY <1>1
  <2>2. QED
    BY <1>1, <2>1, SubSeqProperties
<1>4. HasBlock(s) => WithoutBlock(s) \in Seq(Pieces) /\ Len(WithoutBlock(s)) = a - 1 + Len(s) - b
  BY <1>1, <1>2, <1>3, ConcatProperties DEF HasBlock, WithoutBlock, a, b
<1>5. HasBlock(s) => a - 1 + Len(s) - b < Len(s)
  BY <1>1 DEF HasBlock, a, b
<1>6. QED
  BY <1>2, <1>4, <1>5 DEF BeforeTag, a

\* Strip is what its definition says.
LEMMA StripUnfolds ==
    \A s \in Seq(Pieces) :
        Strip[s] = IF HasBlock(s) THEN Strip[WithoutBlock(s)] ELSE BeforeTag(s)
<1> DEFINE Texts == Seq(Pieces)
           size == [s \in Texts |-> Len(s)]
           next == [s \in Texts |-> IF HasBlock(s) THEN WithoutBlock(s) ELSE s]
           stop == {s \in Texts : ~HasBlock(s)}
           base == [s \in Texts |-> BeforeTag(s)]
           op == [x \in Texts \X Texts |-> x[2]]
<1>1. Descends(Texts, Texts, size, next, stop, base, op)
  BY CutShorter DEF Descends
<1>2. PICK f \in [Texts -> Texts] : Obeys(f, Texts, next, stop, base, op)
  <2> HIDE DEF Texts, size, next, stop, base, op
  <2>1. QED
    BY <1>1, Recursion
<1>3. \A s \in Texts : f[s] = IF HasBlock(s) THEN f[WithoutBlock(s)] ELSE BeforeTag(s)
  BY <1>2, CutShorter DEF Obeys
<1>4. f = [s \in Seq(Pieces) |-> IF HasBlock(s) THEN f[WithoutBlock(s)] ELSE BeforeTag(s)]
  BY <1>3
<1>5. Strip = [s \in Seq(Pieces) |-> IF HasBlock(s) THEN Strip[WithoutBlock(s)] ELSE BeforeTag(s)]
  BY <1>4 DEF Strip
<1>6. QED
  BY <1>5

\* A text without an opening tag.
Untagged(s) == \A i \in 1 .. Len(s) : s[i] # "open"

\* Whatever is stripped has no opening tag left, and is a text.
LEMMA StripClears ==
    \A s \in Seq(Pieces) : Strip[s] \in Seq(Pieces) /\ Untagged(Strip[s])
<1> DEFINE Clears(s) == Strip[s] \in Seq(Pieces) /\ Untagged(Strip[s])
           Done == {n \in Nat : \A s \in Seq(Pieces) : Len(s) = n => Clears(s)}
<1>1. ASSUME NEW n \in Nat, \A m \in Nat : m < n => m \in Done PROVE n \in Done
  <2> SUFFICES ASSUME NEW s \in Seq(Pieces), Len(s) = n PROVE Clears(s)
    OBVIOUS
  <2>1. CASE HasBlock(s)
    <3>1. WithoutBlock(s) \in Seq(Pieces) /\ Len(WithoutBlock(s)) < n
      BY <2>1, CutShorter
    <3>2. Len(WithoutBlock(s)) \in Done
      BY <1>1, <3>1
    <3>3. Clears(WithoutBlock(s))
      BY <3>1, <3>2
    <3>4. QED
      BY <2>1, <3>3, StripUnfolds
  <2>2. CASE ~HasBlock(s)
    <3> DEFINE a == Place(s, "open")
    <3>1. Strip[s] = BeforeTag(s) /\ BeforeTag(s) \in Seq(Pieces)
      BY <2>2, StripUnfolds, CutShorter
    <3>2. CASE a = 0
      BY <3>1, <3>2, PlaceFinds DEF BeforeTag, Untagged
    <3>3. CASE a # 0
      <4>1. a \in 1 .. Len(s) /\ \A i \in 1 .. a - 1 : s[i] # "open"
        BY <3>3, PlaceFinds
      <4> HIDE DEF a
      <4>2. /\ Len(SubSeq(s, 1, a - 1)) = a - 1
            /\ \A i \in 1 .. a - 1 : SubSeq(s, 1, a - 1)[i] = s[i]
        <5>1. a - 1 \in Int /\ \A i \in 1 .. a - 1 : s[i] \in Pieces
          BY <4>1
        <5>2. \A i \in 1 .. a - 1 : 1 + i - 1 = i
          BY <4>1
        <5>3. (a - 1) - 1 + 1 = a - 1 /\ (IF 1 <= a - 1 THEN (a - 1) - 1 + 1 ELSE 0) = a - 1
          BY <4>1
        <5>4. QED
          BY <5>1, <5>2, <5>3, SubSeqProperties
      <4>3. Untagged(SubSeq(s, 1, a - 1))
        BY <4>1, <4>2 DEF Untagged
      <4>4. BeforeTag(s) = SubSeq(s, 1, a - 1)
        BY <3>3 DEF BeforeTag, a
      <4>5. QED
        BY <3>1, <4>3, <4>4
    <3>4. QED
      BY <3>2, <3>3
  <2>3. QED
    BY <2>1, <2>2
<1>2. Nat \subseteq Done
  <2> HIDE DEF Done
  <2>1. QED
    BY <1>1, CourseOfValues
<1>3. QED
  BY <1>2

\* A text without an opening tag stays as it is.
LEMMA StripUntagged ==
    ASSUME NEW s \in Seq(Pieces), Untagged(s)
    PROVE  Strip[s] = s
<1>1. Place(s, "open") = 0
  BY PlaceFinds DEF Untagged
<1>2. ~HasBlock(s) /\ BeforeTag(s) = s
  BY <1>1 DEF HasBlock, BeforeTag
<1>3. QED
  BY <1>2, StripUnfolds

\* What the strip in the callback does: it takes away an opening tag that has just
\* come, and nothing else ever.
LEMMA StripLive ==
    ASSUME NEW s \in Seq(Pieces), Untagged(s), NEW p \in Pieces
    PROVE  Strip[Append(s, p)] = IF p = "open" THEN s ELSE Append(s, p)
<1> DEFINE t == Append(s, p)
<1>1. /\ t \in Seq(Pieces) /\ Len(t) = Len(s) + 1
      /\ \A i \in 1 .. Len(s) : t[i] = s[i]
      /\ t[Len(s) + 1] = p
  BY AppendProperties
<1> HIDE DEF t
<1>2. CASE p # "open"
  <2>1. Untagged(t)
    BY <1>1, <1>2 DEF Untagged
  <2>2. QED
    BY <1>1, <1>2, <2>1, StripUntagged DEF t
<1>3. CASE p = "open"
  <2>1. Place(t, "open") = Len(s) + 1
    <3>1. Place(t, "open") \in 0 .. Len(s) + 1
      BY <1>1, PlaceFinds
    <3>2. Place(t, "open") # 0
      BY <1>1, <1>3, PlaceFinds
    <3>3. t[Place(t, "open")] = "open"
      BY <1>1, <3>2, PlaceFinds
    <3>4. QED
      BY <1>1, <3>1, <3>2, <3>3 DEF Untagged
  <2>2. ~HasBlock(t)
    <3>1. Place(t, "close") \in 0 .. Len(s) + 1
      BY <1>1, PlaceFinds
    <3>2. QED
      BY <2>1, <3>1 DEF HasBlock
  <2>3. BeforeTag(t) = SubSeq(t, 1, Len(s))
    BY <2>1 DEF BeforeTag
  <2>4. SubSeq(t, 1, Len(s)) = s
    <3> DEFINE u == SubSeq(t, 1, Len(s))
    <3>1. Len(s) \in Int /\ \A i \in 1 .. Len(s) : t[i] \in Pieces
      BY <1>1
    <3>2. /\ u \in Seq(Pieces)
          /\ Len(u) = IF 1 <= Len(s) THEN Len(s) - 1 + 1 ELSE 0
          /\ \A i \in 1 .. Len(s) - 1 + 1 : u[i] = t[1 + i - 1]
      BY <3>1, SubSeqProperties
    <3> HIDE DEF u
    <3>3. Len(u) = Len(s) /\ \A i \in 1 .. Len(u) : u[i] = s[i]
      BY <1>1, <3>2
    <3>4. u = s
      BY <3>2, <3>3, SeqEqual
    <3>5. QED
      BY <3>4 DEF u
  <2>5. QED
    BY <1>1, <1>3, <2>2, <2>3, <2>4, StripUnfolds DEF t
<1>4. QED
  BY <1>2, <1>3

\* Words takes the answers one by one.
LEMMA WordsUnfold ==
    /\ Words[<<>>] = <<>>
    /\ \A s \in Seq(Pieces), p \in Pieces :
         Words[Append(s, p)] = IF p = "answer" THEN Append(Words[s], p) ELSE Words[s]
<1> DEFINE Texts == Seq(Pieces)
           size == [s \in Texts |-> Len(s)]
           next == [s \in Texts |-> IF s = <<>> THEN s ELSE Front(s)]
           stop == {<<>>}
           base == [s \in Texts |-> <<>>]
           op == [x \in Texts \X Texts |->
                    IF Last(x[1]) = "answer" THEN Append(x[2], "answer") ELSE x[2]]
<1>1. ASSUME NEW s \in Texts, s # <<>>
      PROVE  Front(s) \in Texts /\ Len(Front(s)) = Len(s) - 1 /\ Len(s) \in Nat \ {0}
  <2>1. Len(s) \in Nat \ {0}
    BY <1>1, EmptySeq
  <2>2. Len(s) - 1 \in Int /\ \A i \in 1 .. Len(s) - 1 : s[i] \in Pieces
    BY <2>1
  <2>3. /\ SubSeq(s, 1, Len(s) - 1) \in Seq(Pieces)
        /\ Len(SubSeq(s, 1, Len(s) - 1)) =
             IF 1 <= Len(s) - 1 THEN (Len(s) - 1) - 1 + 1 ELSE 0
    BY <2>1, <2>2, SubSeqProperties
  <2>4. \A n \in Nat \ {0} : (IF 1 <= n - 1 THEN (n - 1) - 1 + 1 ELSE 0) = n - 1
    OBVIOUS
  <2>5. QED
    BY <2>1, <2>3, <2>4 DEF Front
<1>2. Descends(Texts, Texts, size, next, stop, base, op)
  <2>1. size \in [Texts -> Nat] /\ next \in [Texts -> Texts]
    BY <1>1
  <2>2. stop \in SUBSET Texts /\ base \in [Texts -> Texts]
    BY EmptySeq
  <2>3. op \in [Texts \X Texts -> Texts]
    BY AppendProperties DEF Pieces
  <2>4. \A s \in Texts \ stop : size[next[s]] < size[s]
    BY <1>1
  <2>5. QED
    BY <2>1, <2>2, <2>3, <2>4 DEF Descends
<1>3. PICK f \in [Texts -> Texts] : Obeys(f, Texts, next, stop, base, op)
  <2> HIDE DEF Texts, size, next, stop, base, op
  <2>1. QED
    BY <1>2, Recursion
<1>4. ASSUME NEW s \in Texts
      PROVE  f[s] = IF s = <<>> THEN <<>>
                    ELSE IF Last(s) = "answer" THEN Append(f[Front(s)], Last(s))
                    ELSE f[Front(s)]
  BY <1>1, <1>3 DEF Obeys
<1>5. f = [s \in Seq(Pieces) |->
             IF s = <<>> THEN <<>>
             ELSE IF Last(s) = "answer" THEN Append(f[Front(s)], Last(s))
             ELSE f[Front(s)]]
  BY <1>4
<1>6. Words = [s \in Seq(Pieces) |->
                 IF s = <<>> THEN <<>>
                 ELSE IF Last(s) = "answer" THEN Append(Words[Front(s)], Last(s))
                 ELSE Words[Front(s)]]
  BY <1>5 DEF Words
<1>7. ASSUME NEW s \in Seq(Pieces), NEW p \in Pieces
      PROVE  Last(Append(s, p)) = p /\ Front(Append(s, p)) = s
  <2> DEFINE t == Append(s, p)
  <2>1. /\ t \in Seq(Pieces) /\ Len(t) = Len(s) + 1
        /\ \A i \in 1 .. Len(s) : t[i] = s[i]
        /\ t[Len(s) + 1] = p
    BY AppendProperties
  <2> HIDE DEF t
  <2>2. Front(t) = SubSeq(t, 1, Len(s)) /\ Last(t) = p
    BY <2>1 DEF Front, Last
  <2>3. SubSeq(t, 1, Len(s)) \in Seq(Pieces) /\ Len(SubSeq(t, 1, Len(s))) = Len(s)
        /\ \A i \in 1 .. Len(s) : SubSeq(t, 1, Len(s))[i] = s[i]
    <3>1. Len(s) \in Int /\ \A i \in 1 .. Len(s) : t[i] \in Pieces
      BY <2>1
    <3>2. QED
      BY <2>1, <3>1, SubSeqProperties
  <2>4. SubSeq(t, 1, Len(s)) = s
    BY <2>3, SeqEqual
  <2>5. QED
    BY <2>2, <2>4 DEF t
<1>8. Words[<<>>] = <<>>
  BY <1>6, EmptySeq
<1>9. ASSUME NEW s \in Seq(Pieces), NEW p \in Pieces
      PROVE  Words[Append(s, p)] = IF p = "answer" THEN Append(Words[s], p) ELSE Words[s]
  <2>1. Append(s, p) \in Seq(Pieces) /\ Append(s, p) # <<>>
    BY AppendProperties
  <2>2. QED
    BY <1>6, <1>7, <2>1
<1>10. QED
  BY <1>8, <1>9

-----------------------------------------------------------------------------
(* The types, and the answer under the strips. *)

\* What is streamed has no opening tag and every word of the answer.
TextInv ==
    /\ streaming \in Seq(Pieces) /\ raw \in Seq(Pieces)
    /\ Untagged(streaming)
    /\ AnswerKept

\* At first nothing is streamed.
LEMMA TextStart == HistoryInit => TextInv
<1> SUFFICES ASSUME HistoryInit PROVE TextInv
  OBVIOUS
<1>1. streaming = <<>> /\ raw = <<>> /\ worker = "off"
  BY DEF HistoryInit
<1>2. <<>> \in Seq(Pieces) /\ Len(<<>>) = 0
  BY EmptySeq
<1>3. QED
  BY <1>1, <1>2 DEF TextInv, Untagged, AnswerKept

\* A token is added to both, or is a tag, and then to neither's words.
LEMMA TextToken ==
    ASSUME TextInv, NEW p \in Pieces, Token(p) PROVE TextInv'
<1>1. /\ worker = "stream" /\ worker' = "stream"
      /\ raw' = Append(raw, p) /\ streaming' = Strip[Append(streaming, p)]
  BY DEF Token, Goes
<1>2. Append(streaming, p) \in Seq(Pieces) /\ Append(raw, p) \in Seq(Pieces)
  BY AppendProperties DEF TextInv
<1>3. streaming' \in Seq(Pieces) /\ Untagged(streaming')
  BY <1>1, <1>2, StripClears
<1>4. streaming' = IF p = "open" THEN streaming ELSE Append(streaming, p)
  BY <1>1, StripLive DEF TextInv
<1>5. Words[raw'] = IF p = "answer" THEN Append(Words[raw], p) ELSE Words[raw]
  BY <1>1, WordsUnfold DEF TextInv
<1>6. Words[streaming'] = IF p = "answer" THEN Append(Words[streaming], p) ELSE Words[streaming]
  BY <1>4, WordsUnfold DEF TextInv
<1>7. Words[streaming] = Words[raw]
  BY <1>1 DEF TextInv, AnswerKept
<1>8. QED
  BY <1>1, <1>2, <1>3, <1>5, <1>6, <1>7 DEF TextInv, AnswerKept, Untagged

\* Whatever of a streamed text is not empty becomes a message: the last strip finds
\* no tag in it.
LEMMA TextPush ==
    ASSUME said \in Nat, TextInv, Push PROVE TextInv'
<1>1. /\ worker = "push" /\ worker' = "finish" /\ streaming' = <<>> /\ raw' = raw
      /\ Pushed
  BY DEF Push, Goes
<1>2. Strip[streaming] = streaming /\ Words[streaming] = Words[raw]
  BY <1>1, StripUntagged DEF TextInv, AnswerKept
<1>3. streaming # <<>> => reply' # 0
  <2>1. said + 1 # 0
    OBVIOUS
  <2>2. QED
    BY <1>1, <1>2, <2>1 DEF Pushed
<1>4. streaming = <<>> => Words[raw'] = <<>>
  BY <1>1, <1>2, WordsUnfold
<1>5. <<>> \in Seq(Pieces) /\ Untagged(<<>>)
  BY EmptySeq DEF Untagged
<1>6. QED
  BY <1>1, <1>3, <1>4, <1>5 DEF TextInv, AnswerKept, Untagged

\* Every step keeps the words of the answer.
LEMMA TextNext == LogInv /\ TextInv /\ [HistoryNext]_historyVars => TextInv'
<1> SUFFICES ASSUME LogInv, TextInv, [HistoryNext]_historyVars PROVE TextInv'
  OBVIOUS
<1>0. <<>> \in Seq(Pieces) /\ Len(<<>>) = 0
  BY EmptySeq
<1>1. ASSUME UNCHANGED answerVars,
             worker' \in {"stream", "push"} => worker \in {"stream", "push"},
             worker' = "finish" => worker = "finish"
      PROVE  TextInv'
  BY <1>1 DEF TextInv, AnswerKept, Untagged, answerVars
<1>2. CASE ClearStreaming
  BY <1>0, <1>2 DEF ClearStreaming, Goes, TextInv, AnswerKept, Untagged
<1>3. CASE Push
  BY <1>3, TextPush DEF LogInv
<1>4. CASE \E p \in Pieces : Token(p)
  BY <1>4, TextToken
<1>5. CASE Measure \/ Summarise \/ Fold \/ Returned \/ Finish
  BY <1>1, <1>5 DEF Measure, Summarise, Fold, Returned, Finish, Goes
<1>6. CASE SubmitStep
  BY <1>1, <1>6 DEF SubmitStep, Refuse, Command, Save, SayIt, ClearInput, BuildPrompt,
                    StartWorker, ClearEdit, workVars
<1>7. CASE Type \/ (\E tag \in BOOLEAN : Enter(tag)) \/ AddMessage \/ FrameStep \/ Hung
            \/ UNCHANGED historyVars
  BY <1>1, <1>7 DEF Type, Enter, AddMessage, FrameStep, ReadHistory, ReadStreaming, Hung,
                    workVars, historyVars
<1>8. QED
  BY <1>2, <1>3, <1>4, <1>5, <1>6, <1>7 DEF HistoryNext, WorkerStep

\* The strips take no word of an answer, for an answer of any length.
THEOREM HistoryKeepsAnswer == HistorySafety => []AnswerKept
<1>1. TextInv => AnswerKept
  BY DEF TextInv
<1>2. QED
  BY <1>1, LogStart, LogNext, TextStart, TextNext, PTL DEF HistorySafety

\* The rest of the types.
PlainTypes ==
    /\ chat \in {"IDLE", "INFERRING"}
    /\ lock \in {"free", "java", "worker"}
    /\ said \in Nat /\ cut \in Nat /\ oldText \in Stretches
    /\ reply \in 0..said /\ seen \in 0..said
    /\ worker \in WorkerStages /\ java \in JavaStages
    /\ input \in Nat /\ cursor \in Nat
    /\ frame \in {"idle", "history"}

\* Speaking leaves the numbers within what was said.
LEMMA TypesSay ==
    ASSUME PlainTypes, NEW n \in Nat, Say(n),
           UNCHANGED <<cut, oldText, reply, frameVars>>,
           chat' \in {"IDLE", "INFERRING"}, lock' \in {"free", "java", "worker"},
           worker' \in WorkerStages, java' \in JavaStages,
           input' \in Nat, cursor' \in Nat
    PROVE  PlainTypes'
BY DEF PlainTypes, Say, frameVars

\* Every step keeps the types.
LEMMA TypesNext == LogInv /\ PlainTypes /\ [HistoryNext]_historyVars => PlainTypes'
<1> SUFFICES ASSUME LogInv, PlainTypes, [HistoryNext]_historyVars PROVE PlainTypes'
  OBVIOUS
<1> USE DEF frameVars, typeVars, workVars, answerVars, logVars, JavaStages, WorkerStages
<1>1. CASE Type \/ \E tag \in BOOLEAN : Enter(tag)
  BY <1>1, HistoryConstants DEF HistoryConstants, PlainTypes, Type, Enter, Free
<1>2. ASSUME NEW n \in 0..2, Command(n) PROVE PlainTypes'
  BY <1>2, TypesSay DEF PlainTypes, Command, Free
<1>3. CASE Save \/ SayIt \/ AddMessage
  BY <1>3, TypesSay DEF PlainTypes, Save, SayIt, AddMessage, Free
<1>4. CASE Refuse \/ ClearInput \/ BuildPrompt \/ StartWorker \/ ClearEdit
  BY <1>4 DEF PlainTypes, Refuse, ClearInput, BuildPrompt, StartWorker, ClearEdit, Free
<1>5. CASE Measure
  <2>1. Len(history) = said - Told
    BY FromSeq DEF LogInv
  <2>2. cut' \in Nat
    BY <1>5, <2>1, HistoryConstants DEF HistoryConstants, LogInv, PlainTypes, Measure, Goes
  <2>3. LogInv'
    BY <1>5, LogMeasure
  <2>4. oldText' \in Stretches
    BY <1>5, <2>3 DEF LogInv, Measured, Measure, Goes, PlainTypes
  <2>5. QED
    BY <1>5, <2>2, <2>4 DEF PlainTypes, Measure, Goes, Free
<1>6. CASE Summarise \/ Fold
  BY <1>6 DEF PlainTypes, Summarise, Fold, Dismiss, Goes, Free, NoText, Stretches
<1>7. CASE ClearStreaming \/ Returned \/ Finish \/ \E p \in Pieces : Token(p)
  BY <1>7 DEF PlainTypes, ClearStreaming, Returned, Finish, Token, Goes, Free
<1>8. CASE Push
  BY <1>8 DEF PlainTypes, Push, Pushed, Say, Goes, Free
<1>9. CASE FrameStep \/ Hung \/ UNCHANGED historyVars
  BY <1>9 DEF PlainTypes, FrameStep, ReadHistory, ReadStreaming, Hung, historyVars, Free
<1>10. QED
  BY <1>1, <1>2, <1>3, <1>4, <1>5, <1>6, <1>7, <1>8, <1>9 DEF HistoryNext, SubmitStep, WorkerStep

\* The types of everything the lock protects, and of the rest.
THEOREM HistoryTypes == HistorySafety => []HistoryTypeOK
<1>1. HistoryInit => PlainTypes
  BY DEF HistoryInit, PlainTypes, WorkerStages, JavaStages, NoText, Stretches
<1>2. LogInv => history \in Seq(1..said)
  <2> SUFFICES ASSUME LogInv PROVE history \in Seq(1..said)
    OBVIOUS
  <2>1. said - Told \in Nat /\ \A i \in 1 .. said - Told : Told + i \in 1..said
    BY DEF LogInv
  <2>2. QED
    BY <2>1 DEF LogInv, From
<1>3. LogInv /\ PlainTypes /\ TextInv => HistoryTypeOK
  BY <1>2 DEF LogInv, InOrder, PlainTypes, TextInv, HistoryTypeOK
<1>4. QED
  BY <1>1, <1>3, LogStart, LogNext, TextStart, TextNext, TypesNext, PTL DEF HistorySafety
=============================================================================
