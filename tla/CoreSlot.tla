------------------------------ MODULE CoreSlot ------------------------------
(***************************************************************************)
(* What the engine promises its callers about the one language model (the  *)
(* "core") the process keeps in memory: somebody who generates text does so *)
(* on a core that is there and that nobody replaces until the generation   *)
(* is over, and a core that was taken out is followed by the outcome of a  *)
(* load.  InferenceEngine.tla is shown to implement this module.           *)
(***************************************************************************)
CONSTANTS Threads, Cores, NoCore, NoThread

VARIABLES
    slot,      \* the core in memory, or NoCore
    holder,    \* the thread the slot belongs to for the moment
    mode       \* what the holder does with it

slotVars == <<slot, holder, mode>>

SlotInit ==
    /\ slot = NoCore
    /\ holder = NoThread
    /\ mode = "free"

\* A generation starts only on a core that is in memory.
Begin(t) ==
    /\ mode = "free"
    /\ slot # NoCore
    /\ holder' = t
    /\ mode' = "generating"
    /\ UNCHANGED slot

End(t) ==
    /\ mode = "generating"
    /\ holder = t
    /\ holder' = NoThread
    /\ mode' = "free"
    /\ UNCHANGED slot

\* Taking a core out needs the slot to be free, and leaves it empty.
Unload(t) ==
    /\ mode = "free"
    /\ holder' = t
    /\ mode' = "loading"
    /\ slot' = NoCore

\* A load leaves some core, or nothing when it failed.
Install(t) ==
    /\ mode = "loading"
    /\ holder = t
    /\ slot' \in Cores \cup {NoCore}
    /\ holder' = NoThread
    /\ mode' = "free"

SlotNext == \E t \in Threads : Begin(t) \/ End(t) \/ Unload(t) \/ Install(t)

SlotFairness == \A t \in Threads : WF_slotVars(End(t) \/ Install(t))

SlotSafety == SlotInit /\ [][SlotNext]_slotVars

SlotSpec == SlotSafety /\ SlotFairness
=============================================================================
