-------------------------- MODULE InferenceEngine ---------------------------
(***************************************************************************)
(* The native inference engine (native/InferenceEngine.cpp): one llama     *)
(* model and context behind model_mutex_, the boot thread that loads the   *)
(* base core, hot_swap_to_path, and generate with the detour through the   *)
(* vision core that a photo causes.  Any number of threads call it.        *)
(*                                                                         *)
(* A thread's program counter names the statement it is about to run:      *)
(*   boot, load, loading, named, check   initialise and swap               *)
(*   call, wait, look, vswap, relock, eyes, decode, sample   generate      *)
(* Pointers are followed by what they point to: "live" is the model now in *)
(* memory, "freed" one that load_model_internal has freed since.           *)
(***************************************************************************)
EXTENDS Naturals, FiniteSets

CONSTANTS
    Threads,      \* every thread that may call the engine
    InitThread,   \* the one start_initialization spawns
    NoThread,
    Cores,        \* the .gguf files on the device
    NoCore,
    QwenNamed,    \* those whose name contains "qwen": candidates for boot
    VisionNamed,  \* those whose name contains "Qwen3.5"
    VisionCore,   \* the one the mmproj file was made for
    NCtx,         \* positions in the context (n_ctx)
    PromptLens    \* lengths a tokenised prompt may have

ASSUME EngineConstants ==
    /\ InitThread \in Threads /\ NoThread \notin Threads
    /\ NoCore \notin Cores /\ VisionCore \in Cores
    /\ QwenNamed \subseteq Cores /\ VisionNamed \subseteq Cores
    /\ NCtx \in Nat /\ PromptLens \subseteq Nat

VARIABLES
    mutex,     \* the holder of model_mutex_
    core,      \* llama_model_ and llama_context_, NoCore when null
    kv,        \* positions used in the context's memory
    name,      \* active_model_name_
    isInit,    \* is_initialized_
    isGen,     \* is_generating_
    stop,      \* stop_flag_
    eyes,      \* mtmd_ctx_
    mmproj,    \* mmproj_path_ is the vision projector's
    pc,        \* per thread: the statement it is about to run
    target,    \* per thread: the path it is loading
    resume,    \* per thread: where its load returns to
    img,       \* per thread: img_path is not empty
    vocab      \* per thread: the local vocab pointer

modelVars == <<core, kv, eyes, mmproj>>
flagVars == <<name, isInit, isGen, stop>>
localVars == <<target, resume, img, vocab>>
engineVars == <<mutex, core, kv, name, isInit, isGen, stop, eyes, mmproj,
                pc, target, resume, img, vocab>>

Labels == {"boot", "idle", "load", "loading", "named", "check", "call", "wait",
           "look", "vswap", "relock", "eyes", "decode", "sample"}
Pointer == {"none", "live", "freed"}

\* The statements of generate_internal between taking and releasing the lock.
Using(t) == pc[t] \in {"look", "eyes", "decode", "sample"}
Holding(t) == Using(t) \/ pc[t] = "loading"

\* Types; no token is ever decoded into a position past n_ctx.
EngineTypeOK ==
    /\ mutex \in Threads \cup {NoThread}
    /\ core \in Cores \cup {NoCore}
    /\ kv \in 0..NCtx
    /\ name \in Cores \cup {NoCore}
    /\ isInit \in BOOLEAN /\ isGen \in BOOLEAN /\ stop \in BOOLEAN
    /\ eyes \in Pointer /\ mmproj \in BOOLEAN
    /\ pc \in [Threads -> Labels]
    /\ target \in [Threads -> Cores \cup {NoCore}]
    /\ resume \in [Threads -> {"idle", "relock", "check"}]
    /\ img \in [Threads -> BOOLEAN]
    /\ vocab \in [Threads -> Pointer]

EngineInit ==
    /\ mutex = NoThread
    /\ core = NoCore /\ kv = 0 /\ name = NoCore
    /\ isInit = FALSE /\ isGen = FALSE /\ stop = FALSE
    /\ eyes = "none" /\ mmproj = FALSE
    /\ pc = [t \in Threads |-> IF t = InitThread THEN "boot" ELSE "idle"]
    /\ target = [t \in Threads |-> NoCore]
    /\ resume = [t \in Threads |-> "idle"]
    /\ img = [t \in Threads |-> FALSE]
    /\ vocab = [t \in Threads |-> "none"]

Goto(t, label) == pc' = [pc EXCEPT ![t] = label]

\* The call returns and its locals are gone.
Return(t) ==
    /\ Goto(t, "idle")
    /\ target' = [target EXCEPT ![t] = NoCore]
    /\ resume' = [resume EXCEPT ![t] = "idle"]
    /\ img' = [img EXCEPT ![t] = FALSE]
    /\ vocab' = [vocab EXCEPT ![t] = "none"]

-----------------------------------------------------------------------------
(* Boot: initialize_inference_thread. *)

\* The first file whose name contains "qwen", in directory order, which is
\* arbitrary; any file when no name does.
BaseCores == IF QwenNamed # {} THEN QwenNamed ELSE Cores

\* active_model_name_ is the base core's from before its load.
InitScan(t) ==
    /\ pc[t] = "boot"
    /\ \E base \in BaseCores :
         /\ name' = base
         /\ target' = [target EXCEPT ![t] = base]
    /\ resume' = [resume EXCEPT ![t] = "check"]
    /\ Goto(t, "load")
    /\ UNCHANGED <<mutex, modelVars, isInit, isGen, stop, img, vocab>>

\* No directory, no permission or no model: the thread ends, for good.
InitScanEmpty(t) ==
    /\ pc[t] = "boot"
    /\ Return(t)
    /\ UNCHANGED <<mutex, modelVars, flagVars>>

\* The pointers are read after load_model_internal has released the lock.
InitCheck(t) ==
    /\ pc[t] = "check"
    /\ isInit' = (isInit \/ core # NoCore)
    /\ Return(t)
    /\ UNCHANGED <<mutex, modelVars, name, isGen, stop>>

-----------------------------------------------------------------------------
(* Loading: hot_swap_to_path and load_model_internal. *)

\* The stop request goes out before the lock is asked for.
HotSwap(t, c, back) ==
    /\ stop' = TRUE
    /\ target' = [target EXCEPT ![t] = c]
    /\ resume' = [resume EXCEPT ![t] = back]
    /\ Goto(t, "load")

CallSwap(t) ==
    /\ pc[t] = "idle"
    /\ \E c \in Cores : HotSwap(t, c, "idle")
    /\ UNCHANGED <<mutex, modelVars, name, isInit, isGen, img, vocab>>

\* Context and model are freed: whoever kept a pointer into them now has a
\* dangling one, the projector's context included.
Freed(p) == IF p = "live" THEN "freed" ELSE p

FreeModel(t) ==
    /\ pc[t] = "load"
    /\ mutex' = t
    /\ core' = NoCore
    /\ kv' = 0
    /\ eyes' = Freed(eyes)
    /\ vocab' = [u \in Threads |-> Freed(vocab[u])]
    /\ Goto(t, "loading")
    /\ UNCHANGED <<mmproj, flagVars, target, resume, img>>

\* Mutant: the lock is not waited for.
LoadBeginUnlocked(t) == FreeModel(t)

LoadBegin(t) ==
    /\ mutex = NoThread
    /\ FreeModel(t)

\* The load may fail; nobody is told.
LoadEnd(t) ==
    /\ pc[t] = "loading"
    /\ core' \in {target[t], NoCore}
    /\ mutex' = NoThread
    /\ Goto(t, IF resume[t] = "check" THEN "check" ELSE "named")
    /\ UNCHANGED <<kv, eyes, mmproj, flagVars, localVars>>

\* Mutant: only the picker's swaps set the name, not the ones inside generate.
SetNamePicked(t) ==
    /\ pc[t] = "named"
    /\ \/ resume[t] = "idle" /\ name' = target[t] /\ Return(t)
       \/ resume[t] = "relock" /\ Goto(t, "relock") /\ UNCHANGED <<name, localVars>>
    /\ UNCHANGED <<mutex, modelVars, isInit, isGen, stop>>

\* The name is set once the lock is gone, whatever became of the load.
SetName(t) ==
    /\ pc[t] = "named"
    /\ name' = target[t]
    /\ \/ resume[t] = "idle" /\ Return(t)
       \/ resume[t] = "relock" /\ Goto(t, "relock") /\ UNCHANGED localVars
    /\ UNCHANGED <<mutex, modelVars, isInit, isGen, stop>>

-----------------------------------------------------------------------------
(* Generating: generate and generate_internal. *)

CallGenerate(t) ==
    /\ pc[t] = "idle"
    /\ Goto(t, "call")
    /\ UNCHANGED <<mutex, modelVars, flagVars, localVars>>

\* The guard of generate, read without the lock.
GenerateEnter(t) ==
    /\ pc[t] = "call"
    /\ isInit /\ ~isGen
    /\ Goto(t, "wait")
    /\ UNCHANGED <<mutex, modelVars, flagVars, localVars>>

GenerateDrop(t) ==
    /\ pc[t] = "call"
    /\ ~isInit \/ isGen
    /\ Return(t)
    /\ UNCHANGED <<mutex, modelVars, flagVars>>

\* Lock, look at the model, raise is_generating_ and forget any stop request.
\* Whether the prompt comes with a photo is the caller's.
GenerateLock(t) ==
    /\ pc[t] = "wait"
    /\ mutex = NoThread
    /\ core # NoCore
    /\ mutex' = t
    /\ isGen' = TRUE
    /\ stop' = FALSE
    /\ \E photo \in BOOLEAN : img' = [img EXCEPT ![t] = photo]
    /\ vocab' = [vocab EXCEPT ![t] = "live"]
    /\ Goto(t, "look")
    /\ UNCHANGED <<modelVars, name, isInit, target, resume>>

GenerateNoModel(t) ==
    /\ pc[t] = "wait"
    /\ mutex = NoThread
    /\ core = NoCore
    /\ Return(t)
    /\ UNCHANGED <<mutex, modelVars, flagVars>>

\* A photo under a core that does not look like a vision core: the lock is
\* dropped for the length of a swap.
NeedsVision(t) == img[t] /\ name \notin VisionNamed

LookAtVision(t) ==
    /\ pc[t] = "look"
    /\ NeedsVision(t)
    /\ isGen' = FALSE
    /\ mutex' = NoThread
    /\ Goto(t, "vswap")
    /\ UNCHANGED <<modelVars, name, isInit, stop, localVars>>

LookOn(t) ==
    /\ pc[t] = "look"
    /\ ~NeedsVision(t)
    /\ Goto(t, "eyes")
    /\ UNCHANGED <<mutex, modelVars, flagVars, localVars>>

VisionSwap(t) ==
    /\ pc[t] = "vswap"
    /\ HotSwap(t, VisionCore, "relock")
    /\ UNCHANGED <<mutex, modelVars, name, isInit, isGen, img, vocab>>

\* Mutant: the vocab of before the swap is kept.
RelockStaleVocab(t) ==
    /\ pc[t] = "relock"
    /\ mutex = NoThread
    /\ core # NoCore
    /\ stop' = FALSE
    /\ mutex' = t
    /\ isGen' = TRUE
    /\ Goto(t, "eyes")
    /\ UNCHANGED <<modelVars, name, isInit, localVars>>

\* Mutant: the stop request the swap itself raised is not taken back.
RelockStopped(t) ==
    /\ pc[t] = "relock"
    /\ mutex = NoThread
    /\ core # NoCore
    /\ mutex' = t
    /\ isGen' = TRUE
    /\ vocab' = [vocab EXCEPT ![t] = "live"]
    /\ Goto(t, "eyes")
    /\ UNCHANGED <<modelVars, name, isInit, stop, target, resume, img>>

\* Mutant: after the swap the name is looked at again.
RelockAgain(t) ==
    /\ pc[t] = "relock"
    /\ mutex = NoThread
    /\ stop' = FALSE
    /\ \/ /\ core # NoCore
          /\ mutex' = t
          /\ isGen' = TRUE
          /\ vocab' = [vocab EXCEPT ![t] = "live"]
          /\ Goto(t, "look")
          /\ UNCHANGED <<target, resume, img>>
       \/ /\ core = NoCore
          /\ isGen' = FALSE
          /\ Return(t)
          /\ UNCHANGED mutex
    /\ UNCHANGED <<modelVars, name, isInit>>

\* Back under the lock: the model may be gone, and the vocab is fetched anew.
Relock(t) ==
    /\ pc[t] = "relock"
    /\ mutex = NoThread
    /\ stop' = FALSE
    /\ \/ /\ core # NoCore
          /\ mutex' = t
          /\ isGen' = TRUE
          /\ vocab' = [vocab EXCEPT ![t] = "live"]
          /\ Goto(t, "eyes")
          /\ UNCHANGED <<target, resume, img>>
       \/ /\ core = NoCore
          /\ isGen' = FALSE
          /\ Return(t)
          /\ UNCHANGED mutex
    /\ UNCHANGED <<modelVars, name, isInit>>

\* set_mmproj_path: a path that was tried once is never tried again, and the
\* projector opens on the model it was made for only.
OpenEyes(t) ==
    /\ pc[t] = "eyes"
    /\ IF img[t] /\ eyes = "none" /\ ~mmproj
         THEN /\ mmproj' = TRUE
              /\ eyes' \in {"none"} \cup {e \in {"live"} : core = VisionCore}
         ELSE UNCHANGED <<mmproj, eyes>>
    /\ Goto(t, "decode")
    /\ UNCHANGED <<mutex, core, kv, flagVars, localVars>>

Sees(t) == img[t] /\ eyes # "none"

\* The photo and the prompt go through the projector; when that fails the
\* sampling goes on with what the context already holds.
DecodeImage(t) ==
    /\ pc[t] = "decode"
    /\ Sees(t)
    /\ kv' \in {kv} \cup {k \in 0..NCtx : k - kv \in PromptLens}
    /\ Goto(t, "sample")
    /\ UNCHANGED <<mutex, core, eyes, mmproj, flagVars, localVars>>

DecodeText(t) ==
    /\ pc[t] = "decode"
    /\ ~Sees(t)
    /\ \E n \in PromptLens :
         /\ kv + n <= NCtx
         /\ kv' = kv + n
    /\ Goto(t, "sample")
    /\ UNCHANGED <<mutex, core, eyes, mmproj, flagVars, localVars>>

\* Every way out of generate_internal once the lock is held.
Leave(t) ==
    /\ isGen' = FALSE
    /\ mutex' = NoThread
    /\ Return(t)
    /\ UNCHANGED <<modelVars, name, isInit, stop>>

\* Mutants: the early return leaves the flag up, or the lock locked.
DecodeErrorFlagged(t) ==
    /\ pc[t] = "decode"
    /\ ~Sees(t)
    /\ \E n \in PromptLens : kv + n > NCtx
    /\ mutex' = NoThread
    /\ Return(t)
    /\ UNCHANGED <<modelVars, flagVars>>

DecodeErrorLocked(t) ==
    /\ pc[t] = "decode"
    /\ ~Sees(t)
    /\ \E n \in PromptLens : kv + n > NCtx
    /\ isGen' = FALSE
    /\ Return(t)
    /\ UNCHANGED <<mutex, modelVars, name, isInit, stop>>

\* The context has no room for the prompt: "Decode Error".
DecodeError(t) ==
    /\ pc[t] = "decode"
    /\ ~Sees(t)
    /\ \E n \in PromptLens : kv + n > NCtx
    /\ Leave(t)

\* Mutant: the sampling loop does not look whether the decode succeeded.
SampleBlind(t) ==
    /\ pc[t] = "sample"
    /\ ~stop
    /\ kv' = kv + 1
    /\ UNCHANGED <<mutex, core, eyes, mmproj, flagVars, pc, localVars>>

\* One turn of the sampling loop that goes on: a token was sampled, handed to
\* the callback and decoded into the next position.
Sample(t) ==
    /\ pc[t] = "sample"
    /\ ~stop
    /\ kv < NCtx
    /\ kv' = kv + 1
    /\ UNCHANGED <<mutex, core, eyes, mmproj, flagVars, pc, localVars>>

\* The last turn: a stop request, the end-of-stream token or a callback that
\* wants no more; or the token found no position left.
SampleStopped(t) == pc[t] = "sample" /\ stop /\ Leave(t)
SampleEnds(t) == pc[t] = "sample" /\ ~stop /\ Leave(t)
SampleFull(t) == pc[t] = "sample" /\ ~stop /\ kv = NCtx /\ Leave(t)

\* stop_generation.
StopGeneration ==
    /\ stop' = TRUE
    /\ UNCHANGED <<mutex, modelVars, name, isInit, isGen, pc, localVars>>

-----------------------------------------------------------------------------
InitStep(t) == InitScan(t) \/ InitScanEmpty(t) \/ InitCheck(t)

SwapStep(t) == LoadBegin(t) \/ LoadEnd(t) \/ SetName(t)

GenerateStep(t) ==
    \/ GenerateEnter(t) \/ GenerateDrop(t) \/ GenerateLock(t) \/ GenerateNoModel(t)
    \/ LookAtVision(t) \/ LookOn(t) \/ VisionSwap(t) \/ Relock(t)
    \/ OpenEyes(t) \/ DecodeImage(t) \/ DecodeText(t) \/ DecodeError(t)
    \/ Sample(t) \/ SampleStopped(t) \/ SampleEnds(t) \/ SampleFull(t)

EngineStep(t) == InitStep(t) \/ SwapStep(t) \/ GenerateStep(t)

EngineNext ==
    \/ \E t \in Threads : EngineStep(t) \/ CallSwap(t) \/ CallGenerate(t)
    \/ StopGeneration

\* A thread that can run does; std::mutex hands the lock to a waiter that
\* finds it free again and again; a core does not talk for ever, since every
\* token takes a position of the context.
LockStep(t) == LoadBegin(t) \/ GenerateLock(t) \/ GenerateNoModel(t) \/ Relock(t)

EngineFairness ==
    \A t \in Threads : WF_engineVars(EngineStep(t)) /\ SF_engineVars(LockStep(t))

EngineSafety == EngineInit /\ [][EngineNext]_engineVars

EngineSpec == EngineSafety /\ EngineFairness

-----------------------------------------------------------------------------
\* Nobody frees the model under a running generation: whoever is between
\* taking and releasing the lock in generate_internal works on the model in
\* memory, and the vocab it samples with is that model's, also after the lock
\* was dropped for the vision swap (InferenceEngine.cpp:182-227).
ModelPinned ==
    \A t \in Threads : Using(t) => mutex = t /\ core # NoCore /\ vocab[t] = "live"

\* is_generating_ says exactly that some thread generates, on every path out
\* of generate_internal and across the vision swap's unlocked window.
GeneratingFlag == isGen <=> \E t \in Threads : Using(t)

\* The steps a call has ahead at most.  In generate the sampling loop adds to them
\* the positions that are left.
Ahead == [idle |-> 0, sample |-> 1, decode |-> 2, eyes |-> 3, relock |-> 4, check |-> 4,
          named |-> 5, loading |-> 6, load |-> 7, vswap |-> 8, boot |-> 8,
          look |-> 9, wait |-> 10, call |-> 11]

Generates(t) ==
    \/ pc[t] \in {"call", "wait", "look", "vswap", "relock", "eyes", "decode", "sample"}
    \/ resume[t] = "relock"

Left(t) ==
    Ahead[pc[t]] + (IF Generates(t) THEN NCtx ELSE 0) - (IF pc[t] = "sample" THEN kv ELSE 0)

\* A call is over after NCtx + 11 steps of its own at most, whatever other threads
\* swap, stop and generate meanwhile: the detour through the vision core is made
\* once (InferenceEngine.cpp:217-227), and nobody takes positions out of the
\* context under a sampling loop, which ends by them (InferenceEngine.cpp:272-286).
CallsCountDown ==
    [][\A t \in Threads : pc[t] # "idle" =>
          /\ Left(t)' <= Left(t)
          /\ EngineStep(t) => Left(t)' < Left(t)]_engineVars

\* What the holder of the lock does with the core.
SlotMode == IF mutex = NoThread THEN "free"
            ELSE IF pc[mutex] = "loading" THEN "loading" ELSE "generating"

Slot == INSTANCE CoreSlot WITH slot <- core, holder <- mutex, mode <- SlotMode

\* The engine keeps the promise of CoreSlot to any clients: no core is
\* replaced under a generation, none starts without a core, and whatever is
\* taken out or begun comes to its end.
SlotPromise == Slot!SlotSpec
=============================================================================
