------------------------------ MODULE SoulFile ------------------------------
(***************************************************************************)
(* How intimacy outlives the process (SoulCore::update, load_state and     *)
(* save_state in native/SoulCore.cpp).  SoulCore is made by the first call *)
(* that needs it; every message makes intimacy grow and soul_state.txt is  *)
(* written anew.  The growth is at most one step of a small scale here, and *)
(* nothing at the top of it.                                               *)
(***************************************************************************)
EXTENDS Integers

CONSTANTS
    MaxIntimacy,   \* the top of the scale, 1.0f in the code
    SaveMayFail    \* soul_state.txt may fail to open

ASSUME SoulConstants == MaxIntimacy \in Nat /\ SaveMayFail \in BOOLEAN

VARIABLES
    intimacy,   \* state_.intimacy; -1 before SoulCore is made
    soulFile,   \* what a reader of soul_state.txt gets: 0 when it is cut short
    saving,     \* save_state has the file open, and empty
    best,       \* history: the highest intimacy that was saved
    cutShort    \* history: a process ended while it was saving

soulVars == <<intimacy, soulFile, saving, best, cutShort>>

Scale == 0..MaxIntimacy
Unmade == -1

\* Types; intimacy stays on its scale.
SoulTypeOK ==
    /\ intimacy \in Scale \cup {Unmade}
    /\ soulFile \in Scale
    /\ saving \in BOOLEAN
    /\ best \in Scale
    /\ cutShort \in BOOLEAN

SoulInit ==
    /\ intimacy = Unmade /\ soulFile = 0 /\ saving = FALSE
    /\ best = 0 /\ cutShort = FALSE

\* The constructor reads the file, if there is one.
Loaded == IF intimacy = Unmade THEN soulFile ELSE intimacy

Grown(level) == {level, IF level < MaxIntimacy THEN level + 1 ELSE level}

\* Mutant: the file is not read when SoulCore is made.
SoulUpdateUnloaded ==
    /\ ~saving
    /\ intimacy' \in Grown(IF intimacy = Unmade THEN 0 ELSE intimacy)
    /\ \/ soulFile' = 0 /\ saving' = TRUE
       \/ SaveMayFail /\ UNCHANGED <<soulFile, saving>>
    /\ UNCHANGED <<best, cutShort>>

\* update: intimacy grows, then save_state opens the file, which empties it.
SoulUpdate ==
    /\ ~saving
    /\ intimacy' \in Grown(Loaded)
    /\ \/ soulFile' = 0 /\ saving' = TRUE
       \/ SaveMayFail /\ UNCHANGED <<soulFile, saving>>
    /\ UNCHANGED <<best, cutShort>>

\* The lines are written out when the stream is closed.
SoulSaved ==
    /\ saving
    /\ soulFile' = intimacy
    /\ saving' = FALSE
    /\ best' = IF intimacy > best THEN intimacy ELSE best
    /\ UNCHANGED <<intimacy, cutShort>>

SoulDies ==
    /\ intimacy' = Unmade
    /\ saving' = FALSE
    /\ cutShort' = (cutShort \/ saving)
    /\ UNCHANGED <<soulFile, best>>

\* What was saved once is never lost again, across any number of restarts and
\* with saves that fail; only a process that ends between opening the file and
\* closing it (SoulCore.cpp:318-325) throws the relation back to nothing.
NoSetback ==
    ~cutShort =>
        /\ intimacy # Unmade => intimacy >= best
        /\ ~saving => soulFile = best
=============================================================================
