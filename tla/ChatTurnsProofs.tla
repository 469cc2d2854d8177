-------------------------- MODULE ChatTurnsProofs ---------------------------
(***************************************************************************)
(* Proofs about ChatTurns for any number of picker threads and any cores:  *)
(* the chat state and the busy flag keep the application's two callers of  *)
(* generate apart, and the stop flag of their own swaps never cuts them    *)
(* short.                                                                  *)
(***************************************************************************)
EXTENDS ChatTurns, InferenceEngineProofs

Callers == {Worker, Drafter}

\* The boot thread and the pickers only load; they never generate.
OthersOnlyLoad ==
    \A t \in Threads \ Callers :
        /\ pc[t] \in {"boot", "idle", "load", "loading", "named", "check"}
        /\ resume[t] # "relock"

\* Each worker lives under its flag, and the flags exclude each other.
WorkersFlagged ==
    /\ chat = "IDLE" => At(Worker, "off")
    /\ ~busy => At(Drafter, "off")
    /\ chat = "IDLE" \/ ~busy

\* While a caller has the model, the stop flag is up on foreign wishes only.
StopsForeign ==
    \A t \in Callers : Using(t) /\ stop => closed \/ \E p \in Pickers : pc[p] = "load"

TurnInv == TypeOK /\ EngineInv /\ OthersOnlyLoad /\ WorkersFlagged /\ StopsForeign

\* At first nobody is in the engine and both flags are down.
LEMMA TurnInit == Init => TurnInv
<1> SUFFICES ASSUME Init PROVE TurnInv
  OBVIOUS
<1> USE EngineConstants, TurnConstants DEF EngineConstants, TurnConstants
<1>1. EngineInv
  BY InvInit DEF Init
<1>2. TypeOK
  BY <1>1 DEF Init, TypeOK, EngineInv, Stages
<1>3. \A t \in Threads : pc[t] \in {"boot", "idle"} /\ resume[t] = "idle"
  BY DEF Init, EngineInit
<1>4. OthersOnlyLoad /\ StopsForeign
  BY <1>3 DEF OthersOnlyLoad, StopsForeign, Using, Callers
<1>5. WorkersFlagged
  BY DEF Init, EngineInit, WorkersFlagged, At
<1>6. QED
  BY <1>1, <1>2, <1>4, <1>5 DEF TurnInv

-----------------------------------------------------------------------------
\* What the engine does with the call of one thread, as far as the other
\* threads and the stop flag are concerned.
LEMMA EngineStepFacts ==
    ASSUME NEW t \in Threads, EngineInv, EngineStep(t)
    PROVE  /\ pc[t] # "idle"
           /\ \A u \in Threads \ {t} : pc'[u] = pc[u] /\ resume'[u] = resume[u]
           /\ pc[t] \in {"boot", "load", "loading", "named", "check"} /\ resume[t] # "relock" =>
                /\ pc'[t] \in {"idle", "load", "loading", "named", "check"}
                /\ resume'[t] # "relock"
           /\ stop' => stop \/ pc[t] = "vswap"
           /\ stop' /\ Using(t)' => Using(t)
           /\ pc[t] = "load" => mutex = NoThread
<1> USE DEF EngineInv, EngineTypeOK, Using, modelVars, flagVars, localVars, Goto, Return
<1>1. CASE InitStep(t)
  BY <1>1 DEF InitStep, InitScan, InitScanEmpty, InitCheck
<1>2. CASE SwapStep(t)
  BY <1>2 DEF SwapStep, LoadBegin, FreeModel, LoadEnd, SetName
<1>3. CASE GenerateEnter(t) \/ GenerateDrop(t) \/ GenerateLock(t) \/ GenerateNoModel(t)
  BY <1>3 DEF GenerateEnter, GenerateDrop, GenerateLock, GenerateNoModel
<1>4. CASE LookAtVision(t) \/ LookOn(t) \/ VisionSwap(t) \/ Relock(t)
  BY <1>4 DEF LookAtVision, LookOn, VisionSwap, HotSwap, Relock
<1>5. CASE OpenEyes(t) \/ DecodeImage(t) \/ DecodeText(t) \/ DecodeError(t)
  BY <1>5 DEF OpenEyes, DecodeImage, DecodeText, DecodeError, Leave
<1>6. CASE Sample(t) \/ SampleStopped(t) \/ SampleEnds(t) \/ SampleFull(t)
  BY <1>6 DEF Sample, SampleStopped, SampleEnds, SampleFull, Leave
<1>7. QED
  BY <1>1, <1>2, <1>3, <1>4, <1>5, <1>6 DEF EngineStep, GenerateStep

\* At most one caller is past its "off", and the model is nobody else's.
LEMMA OneCaller ==
    ASSUME TurnInv, NEW t \in Threads, NEW u \in Threads, t # u,
           pc[t] \notin {"boot", "idle", "load", "loading", "named", "check"},
           pc[u] \notin {"boot", "idle", "load", "loading", "named", "check"}
    PROVE  FALSE
<1>1. t \in Callers /\ u \in Callers
  BY DEF TurnInv, OthersOnlyLoad
<1>2. QED
  BY <1>1 DEF TurnInv, WorkersFlagged, At, Callers

\* Serving a call keeps the invariant.
LEMMA ServeInv ==
    ASSUME TurnInv, NEW t \in Threads, Serve(t)
    PROVE  OthersOnlyLoad' /\ WorkersFlagged' /\ StopsForeign'
<1> USE TurnConstants DEF TurnConstants
<1>1. EngineInv /\ EngineStep(t) /\ UNCHANGED turnVars
  BY DEF TurnInv, Serve
<1>2. /\ pc[t] # "idle"
      /\ \A u \in Threads \ {t} : pc'[u] = pc[u] /\ resume'[u] = resume[u]
      /\ pc[t] \in {"boot", "load", "loading", "named", "check"} /\ resume[t] # "relock" =>
           /\ pc'[t] \in {"idle", "load", "loading", "named", "check"}
           /\ resume'[t] # "relock"
  BY <1>1, EngineStepFacts
<1>3. /\ stop' => stop \/ pc[t] = "vswap"
      /\ stop' /\ Using(t)' => Using(t)
      /\ pc[t] = "load" => mutex = NoThread
  BY <1>1, EngineStepFacts
<1>4. OthersOnlyLoad'
  BY <1>2 DEF TurnInv, OthersOnlyLoad, Callers
<1>5. WorkersFlagged'
  BY <1>1, <1>2 DEF TurnInv, WorkersFlagged, At, turnVars
<1>6. ASSUME NEW u \in Callers, Using(u)', stop'
      PROVE  closed' \/ \E p \in Pickers : pc'[p] = "load"
  <2>1. u \in Threads
    BY DEF Callers
  <2>2. Using(u)
    BY <1>2, <1>3, <1>6, <2>1 DEF Using
  <2>3. stop
    <3>1. pc[t] # "vswap" \/ t = u
      BY <2>1, <2>2, OneCaller DEF Using
    <3>2. pc[u] # "vswap"
      BY <2>2 DEF Using
    <3>3. QED
      BY <1>3, <1>6, <3>1, <3>2
  <2>4. closed \/ \E p \in Pickers : pc[p] = "load"
    BY <2>2, <2>3 DEF TurnInv, StopsForeign
  <2>5. mutex # NoThread
    BY <1>1, <2>1, <2>2, EngineConstants
       DEF EngineConstants, EngineInv, ModelPinned
  <2>6. ASSUME NEW p \in Pickers, pc[p] = "load" PROVE pc'[p] = "load"
    BY <1>2, <1>3, <2>5, <2>6
  <2>7. QED
    BY <1>1, <2>4, <2>6 DEF turnVars
<1>7. QED
  BY <1>4, <1>5, <1>6 DEF StopsForeign, Using

\* What a message submitted on the UI thread starts keeps it: it finds no
\* answer and no draft under way.
LEMMA SubmitInv ==
    ASSUME TurnInv, NEW class \in Classes, Submit(class)
    PROVE  /\ UNCHANGED engineVars
           /\ OthersOnlyLoad' /\ WorkersFlagged' /\ StopsForeign'
<1> USE TurnConstants DEF TurnConstants, TurnInv, TypeOK, Accepts, Enter, Submit,
        SubmitChat, SubmitDraft, SubmitOther
<1>1. UNCHANGED engineVars /\ UNCHANGED closed
  OBVIOUS
<1>2. UNCHANGED <<pc, resume, stop>>
  BY <1>1 DEF engineVars
<1>3. OthersOnlyLoad' /\ StopsForeign'
  BY <1>1, <1>2 DEF OthersOnlyLoad, StopsForeign, Using
<1>4. WorkersFlagged'
  BY <1>2 DEF WorkersFlagged, At
<1>5. QED
  BY <1>1, <1>3, <1>4

\* So does each step of a worker that is not inside the engine.
LEMMA WorkerInv ==
    ASSUME TurnInv, WorkerStep \/ DrafterStep
    PROVE  /\ [EngineNext]_engineVars
           /\ OthersOnlyLoad' /\ WorkersFlagged' /\ StopsForeign'
<1> USE TurnConstants DEF TurnConstants, TurnInv, TypeOK, EngineTypeOK, Enter, Goto
<1>1. ASSUME NEW t \in Callers, ~At(t, "off"), pc[t] = "idle", closed' = closed,
             stage' \in [Threads -> Stages],
             \A u \in Threads \ {t} : stage'[u] = stage[u],
             CallGenerate(t) \/ (UNCHANGED engineVars) \/
               (t = Worker /\ pending # NoCore /\ HotSwap(t, pending, "idle")
                /\ UNCHANGED <<mutex, modelVars, name, isInit, isGen, img, vocab>>)
      PROVE  /\ [EngineNext]_engineVars
             /\ OthersOnlyLoad' /\ StopsForeign'
             /\ \A u \in Threads \ {t} : pc'[u] = pc[u]
  <2>1. t \in Threads
    BY DEF Callers
  <2>2. [EngineNext]_engineVars
    BY <1>1, <2>1 DEF EngineNext, CallSwap
  <2>3. \A u \in Threads \ {t} : pc'[u] = pc[u] /\ resume'[u] = resume[u]
    BY <1>1 DEF CallGenerate, HotSwap, localVars, engineVars
  <2>4. pc'[t] \in {"idle", "call", "load"}
    BY <1>1, <2>1 DEF CallGenerate, HotSwap, engineVars
  <2>5. \A u \in Callers : Using(u)' => u = t
    BY <1>1, <2>3 DEF WorkersFlagged, At, Callers, Using
  <2>6. OthersOnlyLoad' /\ StopsForeign'
    BY <1>1, <2>3, <2>4, <2>5 DEF OthersOnlyLoad, StopsForeign, Using
  <2>7. QED
    BY <2>2, <2>3, <2>6
<1>2. CASE WorkerStep
  <2>1. /\ [EngineNext]_engineVars
        /\ OthersOnlyLoad' /\ StopsForeign'
        /\ \A u \in Threads \ {Worker} : pc'[u] = pc[u]
    BY <1>1, <1>2 DEF WorkerStep, Compress, TakePending, Answer, Finish, At, Callers, Stages
  <2>2. WorkersFlagged'
    BY <1>2, <2>1
       DEF WorkersFlagged, At, WorkerStep, Compress, TakePending, Answer, Finish, engineVars
  <2>3. QED
    BY <2>1, <2>2
<1>3. CASE DrafterStep
  <2>1. /\ [EngineNext]_engineVars
        /\ OthersOnlyLoad' /\ StopsForeign'
        /\ \A u \in Threads \ {Drafter} : pc'[u] = pc[u]
    BY <1>1, <1>3 DEF DrafterStep, Draft, QueueDraft, At, Callers, Stages
  <2>2. WorkersFlagged'
    BY <1>3, <2>1 DEF WorkersFlagged, At, DrafterStep, Draft, QueueDraft, engineVars
  <2>3. QED
    BY <2>1, <2>2
<1>4. QED
  BY <1>2, <1>3

\* A tap in the picker and the end of the render loop raise the stop flag, and
\* are themselves the foreign wish.
LEMMA LoopInv ==
    ASSUME TurnInv, CloseWindow \/ \E t \in Pickers : Pick(t)
    PROVE  /\ EngineNext
           /\ OthersOnlyLoad' /\ WorkersFlagged' /\ StopsForeign'
<1> USE TurnConstants DEF TurnConstants, TurnInv, TypeOK, EngineTypeOK
<1>1. CASE CloseWindow
  <2>1. EngineNext /\ UNCHANGED <<pc, resume>>
    BY <1>1 DEF CloseWindow, EngineNext, StopGeneration, localVars
  <2>2. QED
    BY <1>1, <2>1 DEF CloseWindow, OthersOnlyLoad, WorkersFlagged, StopsForeign, At, Using
<1>2. ASSUME NEW t \in Pickers, Pick(t)
      PROVE  /\ EngineNext
             /\ OthersOnlyLoad' /\ WorkersFlagged' /\ StopsForeign'
  <2>1. t \in Threads \ Callers
    BY DEF Callers
  <2>2. EngineNext
    BY <1>2, <2>1 DEF Pick, EngineNext
  <2>3. /\ pc'[t] = "load" /\ resume'[t] = "idle"
        /\ \A u \in Threads \ {t} : pc'[u] = pc[u] /\ resume'[u] = resume[u]
        /\ UNCHANGED turnVars
    BY <1>2, <2>1 DEF Pick, CallSwap, HotSwap, Goto
  <2>4. QED
    BY <2>1, <2>2, <2>3
       DEF OthersOnlyLoad, WorkersFlagged, StopsForeign, At, Using, turnVars, Callers
<1>3. QED
  BY <1>1, <1>2

\* The chat's own variables keep their types.
LEMMA TurnTypes ==
    ASSUME TypeOK, EngineTypeOK', [Next]_vars
    PROVE  TypeOK'
<1> USE TurnConstants DEF TurnConstants, TypeOK, Enter, Stages
<1>0. crossed' \in BOOLEAN
  BY DEF Next, vars
<1>1. ASSUME NEW class \in Classes, Submit(class) PROVE TypeOK'
  <2>1. Routed(class) \in Cores \cup {NoCore}
    BY DEF Routed, Classes
  <2>2. QED
    BY <1>0, <1>1, <2>1 DEF Submit, SubmitChat, SubmitDraft, SubmitOther
<1>2. CASE WorkerStep \/ DrafterStep
  BY <1>0, <1>2 DEF WorkerStep, DrafterStep, Compress, TakePending, Answer, Finish, Draft, QueueDraft
<1>3. CASE CloseWindow \/ (\E t \in Pickers : Pick(t)) \/ \E t \in Threads : Serve(t)
  BY <1>0, <1>3 DEF CloseWindow, Pick, Serve, turnVars
<1>4. CASE Closed \/ UNCHANGED vars
  BY <1>0, <1>4 DEF Closed, vars, appVars, turnVars
<1>5. QED
  BY <1>1, <1>2, <1>3, <1>4 DEF Next, TurnStep

\* Every step of the application is one of the engine, or none, and keeps the
\* threads apart.
LEMMA TurnSteps ==
    ASSUME TurnInv, [Next]_vars
    PROVE  /\ [EngineNext]_engineVars
           /\ OthersOnlyLoad' /\ WorkersFlagged' /\ StopsForeign'
<1>1. ASSUME NEW class \in Classes, Submit(class)
      PROVE  UNCHANGED engineVars /\ OthersOnlyLoad' /\ WorkersFlagged' /\ StopsForeign'
  BY <1>1, SubmitInv
<1>2. CASE WorkerStep \/ DrafterStep
  BY <1>2, WorkerInv
<1>3. CASE CloseWindow \/ \E t \in Pickers : Pick(t)
  BY <1>3, LoopInv
<1>4. ASSUME NEW t \in Threads, Serve(t)
      PROVE  EngineNext /\ OthersOnlyLoad' /\ WorkersFlagged' /\ StopsForeign'
  BY <1>4, ServeInv DEF Serve, EngineNext
<1>5. CASE Closed \/ UNCHANGED vars
  <2>1. UNCHANGED <<engineVars, turnVars>>
    BY <1>5 DEF Closed, vars, appVars
  <2>2. UNCHANGED <<pc, resume, stop, chat, busy, stage, closed>>
    BY <2>1 DEF engineVars, turnVars
  <2>3. QED
    BY <2>1, <2>2 DEF TurnInv, OthersOnlyLoad, WorkersFlagged, StopsForeign, At, Using
<1>6. QED
  BY <1>1, <1>2, <1>3, <1>4, <1>5 DEF Next, TurnStep

\* Every step of the application keeps the invariant.
LEMMA TurnNext == TurnInv /\ [Next]_vars => TurnInv'
<1> SUFFICES ASSUME TurnInv, [Next]_vars PROVE TurnInv'
  OBVIOUS
<1>1. [EngineNext]_engineVars /\ OthersOnlyLoad' /\ WorkersFlagged' /\ StopsForeign'
  BY TurnSteps
<1>2. EngineInv'
  BY <1>1, InvNext DEF TurnInv
<1>3. TypeOK'
  BY <1>2, TurnTypes DEF TurnInv, EngineInv
<1>4. QED
  BY <1>1, <1>2, <1>3 DEF TurnInv

\* The invariant holds in every reachable state.
LEMMA TurnInvariant == Spec => []TurnInv
BY TurnInit, TurnNext, PTL DEF Spec

-----------------------------------------------------------------------------
\* Every state of the application is well typed.
THEOREM TurnsTypes == Spec => []TypeOK
<1>1. TurnInv => TypeOK
  BY DEF TurnInv
<1>2. QED
  BY <1>1, TurnInvariant, PTL

\* No answer and no draft is lost to the guard of generate, for any number of
\* swaps from the picker at any time.
THEOREM TurnsDropNoCall == Spec => []NoCallDropped
<1>1. TurnInv => NoCallDropped
  <2> SUFFICES ASSUME TurnInv, NEW t \in Threads, pc[t] = "call", isGen PROVE FALSE
    BY DEF NoCallDropped
  <2>1. PICK u \in Threads : Using(u)
    BY DEF TurnInv, EngineInv, GeneratingFlag
  <2>2. t # u
    BY <2>1 DEF Using
  <2>3. QED
    BY <2>1, <2>2, OneCaller DEF Using
<1>2. QED
  BY <1>1, TurnInvariant, PTL

\* Only the picker and the end of the application cut a generation short.
THEOREM TurnsStopForeign == Spec => []StopIsForeign
<1>1. TurnInv => StopIsForeign
  <2> SUFFICES ASSUME TurnInv, NEW t \in Threads, pc[t] = "sample", stop
               PROVE  closed \/ \E p \in Pickers : pc[p] = "load"
    BY DEF StopIsForeign
  <2>1. t \in Callers
    BY DEF TurnInv, OthersOnlyLoad
  <2>2. QED
    BY <2>1 DEF TurnInv, StopsForeign, Using
<1>2. QED
  BY <1>1, TurnInvariant, PTL

\* Whatever the chat, the drafts and the picker do, they use the engine as its
\* clients may: a behaviour of the application is one of the engine.
THEOREM TurnsImplementEngine == Spec => EngineSafety
<1>1. Init => EngineInit
  BY DEF Init
<1>2. TurnInv /\ [Next]_vars => [EngineNext]_engineVars
  BY TurnSteps
<1>3. QED
  BY <1>1, <1>2, TurnInvariant, PTL DEF Spec, EngineSafety

\* So the engine's promises hold in it: no model is replaced under an answer or a
\* draft, the flag says whether one is being generated, and each call of a worker,
\* a picker or the boot thread is over after a bounded number of its steps.
THEOREM TurnsKeepPromises ==
    Spec => Slot!SlotSafety /\ []ModelPinned /\ []GeneratingFlag /\ CallsCountDown
BY TurnsImplementEngine, EngineImplementsSlot, EnginePinsModel, EngineFlag, EngineCallsEnd, PTL

-----------------------------------------------------------------------------
(* The name of the core. *)

\* Nobody swaps beside somebody else.
Alone == \A t, u \in Threads : Swapping(t) /\ Swapping(u) => t = u

\* The name is right when nobody is swapping; the boot thread has set it before
\* it loads, the other swaps are about to set it after.
NamedRight ==
    /\ (\A t \in Threads : ~Swapping(t)) /\ core # NoCore => name = core
    /\ \A t \in Threads :
         pc[t] \in {"load", "loading"} /\ resume[t] = "check" => name = target[t]
    /\ \A t \in Threads : pc[t] = "named" /\ core # NoCore => core = target[t]

NameInv == ~crossed => Alone /\ NamedRight

\* A step that changes neither the core nor the name, and no swap but by
\* beginning one.
LEMMA QuietNames ==
    ASSUME NamedRight, UNCHANGED <<core, name>>,
           \A u \in Threads :
             \/ pc'[u] = pc[u] /\ target'[u] = target[u] /\ resume'[u] = resume[u]
             \/ ~Swapping(u) /\ ~Swapping(u)'
             \/ pc'[u] = "load" /\ resume'[u] # "check"
             \/ pc[u] = "load" /\ pc'[u] = "loading"
                /\ target'[u] = target[u] /\ resume'[u] = resume[u]
    PROVE  NamedRight'
BY DEF NamedRight, Swapping

\* A step of a swap, or of the boot that begins one, finds nobody else swapping.
LEMMA SwapNames ==
    ASSUME EngineTypeOK, NamedRight, Alone, Alone', NEW t \in Threads,
           InitScan(t) \/ LoadBegin(t) \/ LoadEnd(t) \/ SetName(t)
    PROVE  NamedRight'
<1> USE DEF EngineTypeOK, Goto, Return, modelVars, flagVars, localVars
<1>1. \A u \in Threads \ {t} :
        pc'[u] = pc[u] /\ target'[u] = target[u] /\ resume'[u] = resume[u]
  BY DEF InitScan, LoadBegin, FreeModel, LoadEnd, SetName
<1>2. \A u \in Threads \ {t} : ~Swapping(u) /\ ~Swapping(u)'
  <2>1. Swapping(t) \/ Swapping(t)'
    BY DEF InitScan, LoadBegin, FreeModel, LoadEnd, SetName, Swapping
  <2>2. \A u \in Threads \ {t} : Swapping(u) <=> Swapping(u)'
    BY <1>1 DEF Swapping
  <2>3. QED
    BY <2>1, <2>2 DEF Alone
<1>3. CASE InitScan(t)
  <2>1. pc'[t] = "load" /\ name' = target'[t]
    BY <1>3 DEF InitScan
  <2>2. QED
    BY <1>2, <2>1 DEF NamedRight, Swapping
<1>4. CASE LoadBegin(t)
  <2>1. /\ pc[t] = "load" /\ pc'[t] = "loading" /\ name' = name
        /\ target'[t] = target[t] /\ resume'[t] = resume[t]
    BY <1>4 DEF LoadBegin, FreeModel
  <2>2. QED
    BY <1>2, <2>1 DEF NamedRight, Swapping
<1>5. CASE LoadEnd(t)
  <2>1. /\ pc[t] = "loading" /\ name' = name /\ core' \in {target[t], NoCore}
        /\ target'[t] = target[t] /\ resume'[t] = resume[t]
        /\ pc'[t] = IF resume[t] = "check" THEN "check" ELSE "named"
    BY <1>5 DEF LoadEnd
  <2>2. QED
    BY <1>2, <2>1 DEF NamedRight, Swapping
<1>6. CASE SetName(t)
  <2>1. pc[t] = "named" /\ name' = target[t] /\ core' = core /\ pc'[t] \in {"idle", "relock"}
    BY <1>6 DEF SetName
  <2>2. QED
    BY <1>2, <2>1 DEF NamedRight, Swapping
<1>7. QED
  BY <1>3, <1>4, <1>5, <1>6

\* All other steps of the engine and of its clients are quiet.
LEMMA OtherNames ==
    ASSUME EngineTypeOK, NamedRight, NEW t \in Threads,
           InitScanEmpty(t) \/ InitCheck(t) \/ GenerateStep(t) \/ CallSwap(t) \/ CallGenerate(t)
    PROVE  NamedRight'
<1> USE DEF EngineTypeOK, Goto, Return, Leave, Swapping, HotSwap, modelVars, flagVars, localVars
<1>1. CASE InitScanEmpty(t) \/ InitCheck(t) \/ CallSwap(t) \/ CallGenerate(t)
  BY <1>1, QuietNames DEF InitScanEmpty, InitCheck, CallSwap, CallGenerate
<1>2. CASE GenerateEnter(t) \/ GenerateDrop(t) \/ GenerateLock(t) \/ GenerateNoModel(t)
  BY <1>2, QuietNames DEF GenerateEnter, GenerateDrop, GenerateLock, GenerateNoModel
<1>3. CASE LookAtVision(t) \/ LookOn(t) \/ VisionSwap(t) \/ Relock(t)
  BY <1>3, QuietNames DEF LookAtVision, LookOn, VisionSwap, Relock
<1>4. CASE OpenEyes(t) \/ DecodeImage(t) \/ DecodeText(t) \/ DecodeError(t)
  BY <1>4, QuietNames DEF OpenEyes, DecodeImage, DecodeText, DecodeError
<1>5. CASE Sample(t) \/ SampleStopped(t) \/ SampleEnds(t) \/ SampleFull(t)
  BY <1>5, QuietNames DEF Sample, SampleStopped, SampleEnds, SampleFull
<1>6. QED
  BY <1>1, <1>2, <1>3, <1>4, <1>5 DEF GenerateStep

\* The name stays right through every step, until two swaps have crossed.
LEMMA NameNext ==
    ASSUME TurnInv, NameInv, [Next]_vars
    PROVE  NameInv'
<1> SUFFICES ASSUME ~crossed' PROVE Alone' /\ NamedRight'
  BY DEF NameInv
<1>0. EngineTypeOK /\ [EngineNext]_engineVars
  BY TurnSteps DEF TurnInv, TypeOK
<1>1. CASE UNCHANGED vars
  <2>1. UNCHANGED <<pc, target, resume, core, name, crossed>>
    BY <1>1 DEF vars, appVars, engineVars
  <2>2. QED
    BY <2>1 DEF NameInv, Alone, NamedRight, Swapping
<1>2. CASE Next
  <2>1. ~crossed /\ Alone /\ NamedRight
    BY <1>2 DEF Next, NameInv
  <2>2. Alone'
    BY <1>2 DEF Next, Crossing, Alone
  <2>3. NamedRight'
    <3>1. ASSUME NEW t \in Threads, EngineStep(t) \/ CallSwap(t) \/ CallGenerate(t)
          PROVE  NamedRight'
      BY <1>0, <2>1, <2>2, <3>1, SwapNames, OtherNames DEF EngineStep, InitStep, SwapStep
    <3>2. CASE StopGeneration \/ UNCHANGED engineVars
      <4>1. UNCHANGED <<pc, target, resume, core, name>>
        BY <3>2 DEF StopGeneration, engineVars, localVars, modelVars
      <4>2. QED
        BY <2>1, <4>1 DEF NamedRight, Swapping
    <3>3. QED
      BY <1>0, <3>1, <3>2 DEF EngineNext
  <2>4. QED
    BY <2>2, <2>3
<1>3. QED
  BY <1>1, <1>2

\* At rest the name that is shown is that of the core in memory, after any
\* number of swaps by boot, router, photos and picker, if no two of them crossed.
THEOREM TurnsNameTruthful == Spec => []NameTruthful
<1>1. Init => NameInv
  BY DEF Init, EngineInit, NameInv, Alone, NamedRight, Swapping
<1>2. NameInv => NameTruthful
  BY DEF NameInv, NameTruthful, NamedRight, AtRest, At, Swapping
<1>3. QED
  BY <1>1, <1>2, NameNext, TurnInvariant, PTL DEF Spec
=============================================================================
