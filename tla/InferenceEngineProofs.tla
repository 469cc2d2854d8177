----------------------- MODULE InferenceEngineProofs ------------------------
(***************************************************************************)
(* Proofs about InferenceEngine for any threads, cores, prompt lengths and *)
(* context size: types, the lock discipline with what the lock protects,   *)
(* that every step is a step of CoreSlot or leaves it alone, and that every *)
(* call counts down to its end.                                            *)
(***************************************************************************)
EXTENDS InferenceEngine, TLAPS

\* The lock belongs to exactly the thread that is between a lock and an unlock.
LockHeld == \A t \in Threads : Holding(t) <=> mutex = t

\* Inductive: types, the lock, and what the lock protects.
EngineInv == EngineTypeOK /\ LockHeld /\ ModelPinned /\ GeneratingFlag

-----------------------------------------------------------------------------
\* The initial states are well typed.
LEMMA TypeInit == EngineInit => EngineTypeOK
<1> SUFFICES ASSUME EngineInit PROVE EngineTypeOK
  OBVIOUS
<1> USE EngineConstants DEF EngineConstants, EngineInit
<1>1. mutex \in Threads \cup {NoThread} /\ core \in Cores \cup {NoCore}
  OBVIOUS
<1>2. kv \in 0..NCtx /\ name \in Cores \cup {NoCore}
  OBVIOUS
<1>3. isInit \in BOOLEAN /\ isGen \in BOOLEAN /\ stop \in BOOLEAN
  OBVIOUS
<1>4. eyes \in Pointer /\ mmproj \in BOOLEAN /\ vocab \in [Threads -> Pointer]
  BY DEF Pointer
<1>5. pc \in [Threads -> Labels]
  BY DEF Labels
<1>6. /\ target \in [Threads -> Cores \cup {NoCore}]
      /\ resume \in [Threads -> {"idle", "relock", "check"}]
      /\ img \in [Threads -> BOOLEAN]
  OBVIOUS
<1>7. QED
  BY <1>1, <1>2, <1>3, <1>4, <1>5, <1>6 DEF EngineTypeOK

\* At first nobody is in the engine, so nothing is claimed of the lock.
LEMMA InvInit == EngineInit => EngineInv
<1> SUFFICES ASSUME EngineInit PROVE EngineInv
  OBVIOUS
<1>1. \A t \in Threads : ~Holding(t) /\ ~Using(t) /\ mutex # t
  BY EngineConstants DEF EngineConstants, EngineInit, Holding, Using
<1>2. ~isGen
  BY DEF EngineInit
<1>3. QED
  BY <1>1, <1>2, TypeInit DEF EngineInv, LockHeld, ModelPinned, GeneratingFlag

\* The boot thread's own steps keep the invariant: they never hold the lock.
LEMMA InitStepInv ==
    ASSUME NEW t \in Threads, EngineInv, InitStep(t)
    PROVE  EngineInv'
<1> USE EngineConstants DEF EngineConstants, EngineInv, EngineTypeOK, Labels, Pointer,
        LockHeld, ModelPinned, GeneratingFlag, Holding, Using,
        modelVars, flagVars, localVars, Goto, Return
<1>1. CASE InitScan(t)
  BY <1>1 DEF InitScan, BaseCores
<1>2. CASE InitScanEmpty(t)
  BY <1>2 DEF InitScanEmpty
<1>3. CASE InitCheck(t)
  BY <1>3 DEF InitCheck
<1>4. QED
  BY <1>1, <1>2, <1>3 DEF InitStep

\* Loading keeps it: the model is freed by the holder of the lock only.
LEMMA SwapStepInv ==
    ASSUME NEW t \in Threads, EngineInv, SwapStep(t)
    PROVE  EngineInv'
<1> USE EngineConstants DEF EngineConstants, EngineInv, EngineTypeOK, Labels, Pointer,
        LockHeld, ModelPinned, GeneratingFlag, Holding, Using,
        modelVars, flagVars, localVars, Goto, Return
<1>1. CASE LoadBegin(t)
  BY <1>1 DEF LoadBegin, FreeModel, Freed
<1>2. CASE LoadEnd(t)
  BY <1>2 DEF LoadEnd
<1>3. CASE SetName(t)
  BY <1>3 DEF SetName
<1>4. QED
  BY <1>1, <1>2, <1>3 DEF SwapStep

\* Generating keeps it, across the unlocked window of the vision swap too.
LEMMA GenerateStepInv ==
    ASSUME NEW t \in Threads, EngineInv, GenerateStep(t)
    PROVE  EngineInv'
<1> USE EngineConstants DEF EngineConstants, EngineInv, EngineTypeOK, Labels, Pointer,
        LockHeld, ModelPinned, GeneratingFlag, Holding, Using,
        modelVars, flagVars, localVars, Goto, Return
<1>1. CASE GenerateEnter(t)
  BY <1>1 DEF GenerateEnter
<1>2. CASE GenerateDrop(t)
  BY <1>2 DEF GenerateDrop
<1>3. CASE GenerateLock(t)
  BY <1>3 DEF GenerateLock
<1>4. CASE GenerateNoModel(t)
  BY <1>4 DEF GenerateNoModel
<1>5. CASE LookAtVision(t)
  BY <1>5 DEF LookAtVision
<1>6. CASE LookOn(t)
  BY <1>6 DEF LookOn
<1>7. CASE VisionSwap(t)
  BY <1>7 DEF VisionSwap, HotSwap
<1>8. CASE Relock(t)
  <2>1. EngineTypeOK'
    BY <1>8 DEF Relock
  <2>2. LockHeld'
    BY <1>8 DEF Relock
  <2>3. ModelPinned'
    BY <1>8 DEF Relock
  <2>4. GeneratingFlag'
    BY <1>8 DEF Relock
  <2>5. QED
    BY <2>1, <2>2, <2>3, <2>4
<1>9. CASE OpenEyes(t)
  BY <1>9 DEF OpenEyes
<1>10. CASE DecodeImage(t)
  BY <1>10 DEF DecodeImage
<1>11. CASE DecodeText(t)
  BY <1>11 DEF DecodeText
<1>12. CASE DecodeError(t)
  BY <1>12 DEF DecodeError, Leave
<1>13. CASE Sample(t)
  BY <1>13 DEF Sample
<1>14. CASE SampleStopped(t)
  BY <1>14 DEF SampleStopped, Leave
<1>15. CASE SampleEnds(t)
  BY <1>15 DEF SampleEnds, Leave
<1>16. CASE SampleFull(t)
  BY <1>16 DEF SampleFull, Leave
<1>17. QED
  BY <1>1, <1>2, <1>3, <1>4, <1>5, <1>6, <1>7, <1>8, <1>9, <1>10, <1>11, <1>12, <1>13, <1>14, <1>15, <1>16 DEF GenerateStep

\* A client's call and a stop request move no lock and no model.
LEMMA ClientStepInv ==
    ASSUME EngineInv,
           StopGeneration \/ \E t \in Threads : CallSwap(t) \/ CallGenerate(t)
    PROVE  EngineInv'
<1> USE EngineConstants DEF EngineConstants, EngineInv, EngineTypeOK, Labels, Pointer,
        LockHeld, ModelPinned, GeneratingFlag, Holding, Using,
        modelVars, flagVars, localVars, Goto
<1>1. CASE StopGeneration
  BY <1>1 DEF StopGeneration
<1>2. ASSUME NEW t \in Threads, CallSwap(t) PROVE EngineInv'
  BY <1>2 DEF CallSwap, HotSwap
<1>3. ASSUME NEW t \in Threads, CallGenerate(t) PROVE EngineInv'
  BY <1>3 DEF CallGenerate
<1>4. QED
  BY <1>1, <1>2, <1>3

\* Every step keeps the inductive invariant.
LEMMA InvNext == EngineInv /\ [EngineNext]_engineVars => EngineInv'
<1> SUFFICES ASSUME EngineInv, [EngineNext]_engineVars PROVE EngineInv'
  OBVIOUS
<1>1. ASSUME NEW t \in Threads, EngineStep(t) PROVE EngineInv'
  BY <1>1, InitStepInv, SwapStepInv, GenerateStepInv DEF EngineStep
<1>2. CASE UNCHANGED engineVars
  BY <1>2 DEF engineVars, EngineInv, EngineTypeOK, LockHeld, ModelPinned, GeneratingFlag,
              Holding, Using
<1>3. QED
  BY <1>1, <1>2, ClientStepInv DEF EngineNext

\* The inductive invariant holds in every reachable state.
LEMMA EngineInvariant == EngineSafety => []EngineInv
BY InvInit, InvNext, PTL DEF EngineSafety

\* Every state of the engine is well typed, for any clients.
THEOREM EngineTypes == EngineSafety => []EngineTypeOK
BY EngineInvariant, PTL DEF EngineInv

\* No model is freed under a running generation, for any number of threads
\* that swap and generate at any time.
THEOREM EnginePinsModel == EngineSafety => []ModelPinned
BY EngineInvariant, PTL DEF EngineInv

\* is_generating_ is up exactly while a thread generates.
THEOREM EngineFlag == EngineSafety => []GeneratingFlag
BY EngineInvariant, PTL DEF EngineInv
-----------------------------------------------------------------------------
\* The boot thread's own steps leave the slot alone.
LEMMA InitStepSlot ==
    ASSUME NEW t \in Threads, EngineInv, InitStep(t)
    PROVE  UNCHANGED <<core, mutex, SlotMode>>
BY EngineConstants DEF EngineConstants, EngineInv, EngineTypeOK, LockHeld, Holding, SlotMode,
   InitStep, InitScan, InitScanEmpty, InitCheck, modelVars, flagVars, localVars, Goto, Return

\* Freeing a model is Unload, the end of a load is Install.
LEMMA SwapStepSlot ==
    ASSUME NEW t \in Threads, EngineInv, SwapStep(t)
    PROVE  Slot!SlotNext \/ UNCHANGED <<core, mutex, SlotMode>>
<1> USE EngineConstants DEF EngineConstants, EngineInv, EngineTypeOK, LockHeld, Holding, Using,
        SlotMode, modelVars, flagVars, localVars, Goto, Return
<1>1. CASE LoadBegin(t)
  <2>1. Slot!Unload(t)
    BY <1>1 DEF LoadBegin, FreeModel, Slot!Unload
  <2>2. QED
    BY <2>1 DEF Slot!SlotNext
<1>2. CASE LoadEnd(t)
  <2>1. Slot!Install(t)
    BY <1>2 DEF LoadEnd, Slot!Install
  <2>2. QED
    BY <2>1 DEF Slot!SlotNext
<1>3. CASE SetName(t)
  BY <1>3 DEF SetName
<1>4. QED
  BY <1>1, <1>2, <1>3 DEF SwapStep

\* Taking the lock on a model is Begin, every release of it End.
LEMMA GenerateStepSlot ==
    ASSUME NEW t \in Threads, EngineInv, GenerateStep(t)
    PROVE  Slot!SlotNext \/ UNCHANGED <<core, mutex, SlotMode>>
<1> USE EngineConstants DEF EngineConstants, EngineInv, EngineTypeOK, LockHeld, ModelPinned,
        Holding, Using, SlotMode, modelVars, flagVars, localVars, Goto, Return
<1>1. ASSUME GenerateLock(t) \/ Relock(t)
      PROVE  Slot!Begin(t) \/ UNCHANGED <<core, mutex, SlotMode>>
  BY <1>1 DEF GenerateLock, Relock, Slot!Begin
<1>2. ASSUME \/ LookAtVision(t) \/ DecodeError(t)
             \/ SampleStopped(t) \/ SampleEnds(t) \/ SampleFull(t)
      PROVE  Slot!End(t)
  BY <1>2 DEF LookAtVision, DecodeError, SampleStopped, SampleEnds, SampleFull, Leave, Slot!End
<1>3. ASSUME \/ GenerateEnter(t) \/ GenerateDrop(t) \/ GenerateNoModel(t) \/ VisionSwap(t)
             \/ LookOn(t) \/ OpenEyes(t) \/ DecodeImage(t) \/ DecodeText(t) \/ Sample(t)
      PROVE  UNCHANGED <<core, mutex, SlotMode>>
  BY <1>3 DEF GenerateEnter, GenerateDrop, GenerateNoModel, VisionSwap, HotSwap,
              LookOn, OpenEyes, DecodeImage, DecodeText, Sample
<1>4. QED
  BY <1>1, <1>2, <1>3 DEF GenerateStep, Slot!SlotNext

\* Every step of the engine is a step of CoreSlot or changes nothing there.
LEMMA EngineStepSlot ==
    EngineInv /\ [EngineNext]_engineVars => [Slot!SlotNext]_Slot!slotVars
<1> SUFFICES ASSUME EngineInv, [EngineNext]_engineVars
             PROVE  Slot!SlotNext \/ UNCHANGED <<core, mutex, SlotMode>>
  BY DEF Slot!slotVars
<1>1. ASSUME NEW t \in Threads, EngineStep(t)
      PROVE  Slot!SlotNext \/ UNCHANGED <<core, mutex, SlotMode>>
  BY <1>1, InitStepSlot, SwapStepSlot, GenerateStepSlot DEF EngineStep
<1>2. ASSUME NEW t \in Threads, CallSwap(t) \/ CallGenerate(t)
      PROVE  UNCHANGED <<core, mutex, SlotMode>>
  BY <1>2, EngineConstants DEF EngineConstants, EngineInv, EngineTypeOK, LockHeld, Holding, SlotMode,
     CallSwap, CallGenerate, HotSwap, modelVars, flagVars, localVars, Goto
<1>3. CASE StopGeneration
  BY <1>3 DEF StopGeneration, SlotMode, modelVars
<1>4. CASE UNCHANGED engineVars
  BY <1>4 DEF engineVars, SlotMode
<1>5. QED
  BY <1>1, <1>2, <1>3, <1>4 DEF EngineNext

\* The engine implements CoreSlot: for any clients no core is replaced under a
\* generation and none starts without one.  (That loads and generations end is
\* model-checked: SlotPromise.)
THEOREM EngineImplementsSlot == EngineSafety => Slot!SlotSafety
<1>1. EngineInit => Slot!SlotInit
  BY DEF EngineInit, Slot!SlotInit, SlotMode
<1>2. QED
  BY <1>1, EngineInvariant, EngineStepSlot, PTL DEF EngineSafety, Slot!SlotSafety

-----------------------------------------------------------------------------
(* The steps of a call. *)

\* The ways from label to label.
Onward(t) ==
    \/ pc'[t] = "idle" /\ resume'[t] = "idle"
    \/ pc[t] = "boot" /\ pc'[t] = "load" /\ resume'[t] = "check"
    \/ /\ resume'[t] = resume[t]
       /\ \/ pc[t] = "load" /\ pc'[t] = "loading"
          \/ pc[t] = "loading" /\ pc'[t] = IF resume[t] = "check" THEN "check" ELSE "named"
          \/ pc[t] = "named" /\ pc'[t] = "relock" /\ resume[t] = "relock"
          \/ pc[t] = "call" /\ pc'[t] = "wait"
          \/ pc[t] = "wait" /\ pc'[t] = "look"
          \/ pc[t] = "look" /\ pc'[t] \in {"vswap", "eyes"}
          \/ pc[t] = "relock" /\ pc'[t] = "eyes"
          \/ pc[t] = "eyes" /\ pc'[t] = "decode"
          \/ pc[t] = "decode" /\ pc'[t] = "sample"
          \/ pc[t] = "sample" /\ pc'[t] = "sample" /\ kv' = kv + 1
    \/ pc[t] = "vswap" /\ pc'[t] = "load" /\ resume'[t] = "relock"

\* None of them leads back.
LEMMA OnwardLeft ==
    ASSUME NEW t \in Threads, EngineTypeOK, kv' \in 0..NCtx, pc[t] # "idle", Onward(t)
    PROVE  Left(t)' < Left(t)
<1> USE EngineConstants DEF EngineConstants, EngineTypeOK, Labels, Left, Generates, Ahead
<1>1. CASE pc'[t] = "idle" /\ resume'[t] = "idle"
  BY <1>1
<1>2. CASE pc'[t] # "idle"
  BY <1>2 DEF Onward
<1>3. QED
  BY <1>1, <1>2 DEF Onward

\* A thread's count is its own, but for the positions of the context.
LEMMA LeftOthers ==
    ASSUME NEW u \in Threads, pc'[u] = pc[u], resume'[u] = resume[u],
           pc[u] = "sample" => kv' = kv
    PROVE  Left(u)' = Left(u)
BY DEF Left, Generates

\* Every step of a thread takes it onward, and touches no other thread's way; the
\* positions are touched by who has the lock, or takes it.
LEMMA StepOnward ==
    ASSUME NEW t \in Threads, EngineInv, EngineStep(t)
    PROVE  /\ pc[t] # "idle" /\ Onward(t)
           /\ \A u \in Threads \ {t} : pc'[u] = pc[u] /\ resume'[u] = resume[u]
           /\ kv' = kv \/ mutex = t \/ mutex = NoThread
<1> USE DEF EngineInv, EngineTypeOK, LockHeld, Holding, Using, Onward,
            modelVars, flagVars, localVars, Goto, Return
<1>1. CASE InitStep(t)
  BY <1>1 DEF InitStep, InitScan, InitScanEmpty, InitCheck
<1>2. CASE SwapStep(t)
  BY <1>2 DEF SwapStep, LoadBegin, FreeModel, LoadEnd, SetName
<1>3. CASE GenerateEnter(t) \/ GenerateDrop(t) \/ GenerateLock(t) \/ GenerateNoModel(t)
  BY <1>3 DEF GenerateEnter, GenerateDrop, GenerateLock, GenerateNoModel
<1>4. CASE LookAtVision(t) \/ LookOn(t) \/ VisionSwap(t) \/ Relock(t)
  BY <1>4 DEF LookAtVision, LookOn, VisionSwap, HotSwap, Relock
<1>5. CASE OpenEyes(t) \/ DecodeImage(t) \/ DecodeText(t) \/ DecodeError(t)
  BY <1>5 DEF OpenEyes, DecodeImage, DecodeText, DecodeError, Leave
<1>6. CASE Sample(t) \/ SampleStopped(t) \/ SampleEnds(t) \/ SampleFull(t)
  BY <1>6 DEF Sample, SampleStopped, SampleEnds, SampleFull, Leave
<1>7. QED
  BY <1>1, <1>2, <1>3, <1>4, <1>5, <1>6 DEF EngineStep, GenerateStep

\* Nobody's count rises, and the one whose step it is counts down.
LEMMA LeftStep ==
    ASSUME EngineInv, EngineInv', NEW t \in Threads, NEW u \in Threads,
           EngineStep(t), pc[u] # "idle"
    PROVE  Left(u)' <= Left(u) /\ (u = t => Left(u)' < Left(u))
<1>1. Left(t)' < Left(t)
  BY StepOnward, OnwardLeft DEF EngineInv, EngineTypeOK
<1>2. Left(u) \in Nat /\ Left(u)' \in Nat
  BY EngineConstants
     DEF EngineConstants, EngineInv, EngineTypeOK, Labels, Left, Generates, Ahead
<1>3. CASE u = t
  BY <1>1, <1>2, <1>3
<1>4. CASE u # t
  <2>1. pc'[u] = pc[u] /\ resume'[u] = resume[u]
    BY <1>4, StepOnward
  <2>2. pc[u] = "sample" => mutex = u
    BY DEF EngineInv, ModelPinned, Using
  <2>3. pc[u] = "sample" => kv' = kv
    BY <1>4, <2>2, StepOnward, EngineConstants DEF EngineConstants
  <2>4. Left(u)' = Left(u)
    BY <2>1, <2>3, LeftOthers
  <2>5. QED
    BY <1>2, <1>4, <2>4
<1>5. QED
  BY <1>3, <1>4

\* The same of every step of the engine and its clients.
LEMMA LeftNext ==
    EngineInv /\ EngineInv' /\ [EngineNext]_engineVars =>
        [\A t \in Threads : pc[t] # "idle" =>
            /\ Left(t)' <= Left(t)
            /\ EngineStep(t) => Left(t)' < Left(t)]_engineVars
<1> SUFFICES ASSUME EngineInv, EngineInv', EngineNext, NEW u \in Threads, pc[u] # "idle"
             PROVE  Left(u)' <= Left(u) /\ (EngineStep(u) => Left(u)' < Left(u))
  OBVIOUS
<1>1. ASSUME NEW t \in Threads, EngineStep(t)
      PROVE  Left(u)' <= Left(u)
  BY <1>1, LeftStep
<1>2. EngineStep(u) => Left(u)' < Left(u)
  BY LeftStep
<1>3. Left(u) \in Nat
  BY EngineConstants
     DEF EngineConstants, EngineInv, EngineTypeOK, Labels, Left, Generates, Ahead
<1>4. ASSUME NEW t \in Threads, CallSwap(t) \/ CallGenerate(t)
      PROVE  Left(u)' <= Left(u)
  <2>1. u # t
    BY <1>4 DEF CallSwap, CallGenerate
  <2>2. pc'[u] = pc[u] /\ resume'[u] = resume[u] /\ kv' = kv
    BY <1>4, <2>1 DEF CallSwap, CallGenerate, HotSwap, Goto, modelVars, localVars,
                      EngineInv, EngineTypeOK
  <2>3. QED
    BY <1>3, <2>2, LeftOthers
<1>5. ASSUME StopGeneration
      PROVE  Left(u)' <= Left(u)
  <2>1. pc'[u] = pc[u] /\ resume'[u] = resume[u] /\ kv' = kv
    BY <1>5 DEF StopGeneration, modelVars, localVars
  <2>2. QED
    BY <1>3, <2>1, LeftOthers
<1>6. QED
  BY <1>1, <1>2, <1>4, <1>5 DEF EngineNext

\* Every call of generate, every swap and the boot are over after a bounded number
\* of their own steps, for any threads that swap and generate meanwhile.
THEOREM EngineCallsEnd == EngineSafety => CallsCountDown
BY EngineInvariant, LeftNext, PTL DEF EngineSafety, CallsCountDown

\* The bound.
THEOREM EngineCallsBounded == EngineSafety => [](\A t \in Threads : Left(t) \in 0 .. NCtx + 11)
<1>1. EngineInv => \A t \in Threads : Left(t) \in 0 .. NCtx + 11
  BY EngineConstants
     DEF EngineConstants, EngineInv, EngineTypeOK, Labels, Left, Generates, Ahead
<1>2. QED
  BY <1>1, EngineInvariant, PTL
=============================================================================
