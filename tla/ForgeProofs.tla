---------------------------- MODULE ForgeProofs -----------------------------
(***************************************************************************)
(* Proofs about Forge for any number of requests: whoever waits for the    *)
(* bridge has something to wait for, and gets the answer to its own        *)
(* request, with any number of restarts and whatever the bridge is doing.  *)
(***************************************************************************)
EXTENDS Forge, TLAPS

\* The last request of this session, or an answer, is somewhere.
OnItsWay == asked \in {request, building} \/ result # 0

\* What a session knows that has asked: nobody else writes requests meanwhile,
\* and its answer is not taken before pending_ is up.
Waiting ==
    /\ jui = "check" => written < MaxRequests
    /\ asked # 0 => request \in {0, asked}
    /\ jui = "mark" => ~pending /\ asked # 0 /\ OnItsWay
    /\ pending => asked # 0
    /\ poll = "read" => pending

\* A session that found nothing in the queue has at most one thing there, its
\* own, and nothing at all while it does not wait.
OneSession ==
    ~astray =>
        /\ {request, building, result} \subseteq {0, asked}
        /\ request # 0 => building = 0 /\ result = 0
        /\ building # 0 => result = 0
        /\ ~pending /\ jui # "mark" => request = 0 /\ building = 0 /\ result = 0
        /\ poll = "read" => request = 0 /\ building = 0 /\ got = asked

\* The two halves of the types.
NumbersOK ==
    /\ written \in Requests
    /\ {got, request, result, building, asked} \subseteq 0..written
FlagsOK ==
    /\ pending \in BOOLEAN /\ astray \in BOOLEAN /\ lost \in BOOLEAN
    /\ jui \in {"idle", "check", "mark"} /\ poll \in {"idle", "read"}

ForgeInv == ForgeTypeOK /\ Waiting /\ OneSession /\ AnswerOnItsWay

\* The first session starts with an empty queue.
LEMMA ForgeStart == ForgeInit => ForgeInv
<1> SUFFICES ASSUME ForgeInit PROVE ForgeInv
  OBVIOUS
<1> USE ForgeConstants DEF ForgeConstants, ForgeInit
<1>1. NumbersOK
  BY DEF NumbersOK, Requests
<1>2. FlagsOK
  BY DEF FlagsOK
<1>3. Waiting /\ OneSession /\ AnswerOnItsWay
  BY DEF Waiting, OneSession, OnItsWay, AnswerOnItsWay
<1>4. QED
  BY <1>1, <1>2, <1>3 DEF ForgeInv, ForgeTypeOK, NumbersOK, FlagsOK

\* A request that is refused or fails changes nothing but the removed result;
\* one that is written finds, in a session of its own, an empty queue.
LEMMA RequestInv ==
    ASSUME ForgeInv, RequestClear \/ RequestStep PROVE ForgeInv'
<1> USE ForgeConstants DEF ForgeConstants, ForgeInv, RequestStep, RequestClear, RequestRefuse,
        RequestFail, RequestWrite, RequestMark, Write, queueVars, pastVars
<1>1. ForgeTypeOK'
  <2>1. NumbersOK'
    BY DEF NumbersOK, ForgeTypeOK, Requests, Waiting
  <2>2. FlagsOK'
    BY DEF FlagsOK, ForgeTypeOK, Destroys
  <2>3. QED
    BY <2>1, <2>2 DEF ForgeTypeOK, NumbersOK, FlagsOK
<1>2. Waiting'
  BY DEF ForgeTypeOK, Requests, Waiting, OnItsWay
<1>3. OneSession'
  BY DEF ForgeTypeOK, Waiting, OneSession
<1>4. AnswerOnItsWay'
  BY DEF ForgeTypeOK, Waiting, OnItsWay, AnswerOnItsWay, Destroys
<1>5. QED
  BY <1>1, <1>2, <1>3, <1>4

\* The render loop takes the answer and lets go of the request.
LEMMA PollInv ==
    ASSUME ForgeInv, PollStep PROVE ForgeInv'
<1> USE DEF ForgeInv, PollStep, PollRead, PollDone, queueVars, pastVars
<1>1. ForgeTypeOK'
  <2>1. NumbersOK'
    BY DEF NumbersOK, ForgeTypeOK, Requests, Waiting
  <2>2. FlagsOK'
    BY DEF FlagsOK, ForgeTypeOK
  <2>3. QED
    BY <2>1, <2>2 DEF ForgeTypeOK, NumbersOK, FlagsOK
<1>2. Waiting'
  BY DEF ForgeTypeOK, Waiting, OnItsWay
<1>3. OneSession'
  BY DEF ForgeTypeOK, Waiting, OneSession
<1>4. AnswerOnItsWay'
  BY DEF ForgeTypeOK, Waiting, AnswerOnItsWay
<1>5. QED
  BY <1>1, <1>2, <1>3, <1>4

\* The bridge removes a result only when it takes up the request it is for.
LEMMA BridgeInv ==
    ASSUME ForgeInv, BridgeStep PROVE ForgeInv'
<1> USE DEF ForgeInv, BridgeStep, PickUp, Finish, threadVars, pastVars
<1>1. ForgeTypeOK'
  <2>1. NumbersOK'
    BY DEF NumbersOK, ForgeTypeOK, Requests, Waiting
  <2>2. FlagsOK'
    BY DEF FlagsOK, ForgeTypeOK
  <2>3. QED
    BY <2>1, <2>2 DEF ForgeTypeOK, NumbersOK, FlagsOK
<1>2. Waiting'
  BY DEF ForgeTypeOK, Waiting, OnItsWay
<1>3. OneSession'
  BY DEF ForgeTypeOK, Waiting, OneSession
<1>4. AnswerOnItsWay'
  BY DEF ForgeTypeOK, Waiting, AnswerOnItsWay
<1>5. QED
  BY <1>1, <1>2, <1>3, <1>4

\* A new session waits for nothing, and knows what it found.
LEMMA RestartInv ==
    ASSUME ForgeInv, Restart PROVE ForgeInv'
<1> USE DEF ForgeInv, Restart, queueVars
<1>1. ForgeTypeOK'
  <2>1. NumbersOK'
    BY DEF NumbersOK, ForgeTypeOK, Requests, Waiting
  <2>2. FlagsOK'
    BY DEF FlagsOK, ForgeTypeOK
  <2>3. QED
    BY <2>1, <2>2 DEF ForgeTypeOK, NumbersOK, FlagsOK
<1>2. Waiting' /\ AnswerOnItsWay'
  BY DEF Waiting, AnswerOnItsWay
<1>3. OneSession'
  BY DEF ForgeTypeOK, OneSession
<1>4. QED
  BY <1>1, <1>2, <1>3

\* Every step keeps the invariant.
LEMMA ForgeNextInv == ForgeInv /\ [ForgeNext]_forgeVars => ForgeInv'
<1> SUFFICES ASSUME ForgeInv, [ForgeNext]_forgeVars PROVE ForgeInv'
  OBVIOUS
<1>1. CASE ForgeNext
  BY <1>1, RequestInv, PollInv, BridgeInv, RestartInv DEF ForgeNext
<1>2. CASE UNCHANGED forgeVars
  BY <1>2 DEF forgeVars, threadVars, queueVars, pastVars, ForgeInv, ForgeTypeOK, Waiting,
              OneSession, OnItsWay, AnswerOnItsWay
<1>3. QED
  BY <1>1, <1>2

\* The invariant holds in every reachable state.
LEMMA ForgeInvariant == ForgeSafety => []ForgeInv
BY ForgeStart, ForgeNextInv, PTL DEF ForgeSafety

-----------------------------------------------------------------------------
\* No file and no answer is of a request that was never written.
THEOREM ForgeTypes == ForgeSafety => []ForgeTypeOK
<1>1. ForgeInv => ForgeTypeOK
  BY DEF ForgeInv
<1>2. QED
  BY <1>1, ForgeInvariant, PTL

\* A session that waits has something to wait for, unless its answer was deleted.
THEOREM ForgeAnswers == ForgeSafety => []AnswerOnItsWay
<1>1. ForgeInv => AnswerOnItsWay
  BY DEF ForgeInv
<1>2. QED
  BY <1>1, ForgeInvariant, PTL

\* The answer a session is told of is that of the build it has asked for, if
\* it found the queue and the bridge without work at its start.
THEOREM ForgeOwnAnswers == ForgeSafety => []OwnAnswer
<1>1. ForgeInv => OwnAnswer
  BY DEF ForgeInv, OneSession, OwnAnswer
<1>2. QED
  BY <1>1, ForgeInvariant, PTL
=============================================================================
