--------------------------- MODULE SessionProofs ----------------------------
(***************************************************************************)
(* Proofs about Session: the composed application implements each of its   *)
(* parts, so that what is proved of a part holds in it; and what was saved *)
(* of the soul is not lost.                                                *)
(***************************************************************************)
EXTENDS Session, CrashGuardProofs, ForgeProofs

\* A step of the application is a step of the process's life, or none.
LEMMA GuardStep == [Next]_vars => [GuardNext]_guardVars
<1> SUFFICES ASSUME [Next]_vars PROVE GuardNext \/ UNCHANGED guardVars
  BY Zenon
<1>1. CASE Live
  BY <1>1 DEF Live, GuardNext
<1>2. CASE Death
  BY <1>2 DEF Death, GuardNext
<1>3. CASE Build \/ Feel \/ UNCHANGED vars
  BY <1>3 DEF Build, Feel, vars
<1>4. QED
  BY <1>1, <1>2, <1>3 DEF Next

\* A step of the application is a step of the builds, or none.
LEMMA ForgeStep == [Next]_vars => [ForgeNext]_forgeVars
<1> SUFFICES ASSUME [Next]_vars PROVE ForgeNext \/ UNCHANGED forgeVars
  BY Zenon
<1>1. CASE Death
  BY <1>1 DEF Death, ForgeNext
<1>2. CASE Build
  BY <1>2 DEF Build, ForgeNext
<1>3. CASE Live \/ Feel \/ UNCHANGED vars
  BY <1>3 DEF Live, Feel, vars
<1>4. QED
  BY <1>1, <1>2, <1>3 DEF Next

\* The application implements the life of the process and the builds: what is
\* proved of either is true of the two together.
THEOREM SessionImplementsParts == Spec => GuardSafety /\ ForgeSafety
<1>1. Init => GuardInit /\ ForgeInit
  BY DEF Init
<1>2. QED
  BY <1>1, GuardStep, ForgeStep, PTL DEF Spec, GuardSafety, ForgeSafety

-----------------------------------------------------------------------------
(* The soul. *)

SoulFlagsOK == saving \in BOOLEAN /\ cutShort \in BOOLEAN
LevelsOK == intimacy \in Scale \cup {Unmade} /\ soulFile \in Scale /\ best \in Scale

\* The file is only open while there is a soul, and holds the best there was
\* whenever it is not.
SoulInv ==
    /\ LevelsOK
    /\ saving => intimacy # Unmade
    /\ NoSetback

\* Without a file there is nothing to lose.
LEMMA SoulStart == SoulInit => SoulFlagsOK /\ SoulInv
<1> SUFFICES ASSUME SoulInit PROVE SoulFlagsOK /\ SoulInv
  OBVIOUS
<1> USE SoulConstants DEF SoulConstants, SoulInit
<1>1. SoulFlagsOK
  BY DEF SoulFlagsOK
<1>2. LevelsOK /\ NoSetback
  BY DEF LevelsOK, Scale, Unmade, NoSetback
<1>3. QED
  BY <1>1, <1>2 DEF SoulInv

\* Growing never goes down, and stays on the scale.
LEMMA GrownUp ==
    ASSUME NEW level \in Scale, NEW more \in Grown(level)
    PROVE  more \in Scale /\ more >= level
BY SoulConstants DEF SoulConstants, Scale, Grown

\* A message: growth, and a save that is begun or fails.
LEMMA SoulGrows ==
    ASSUME SoulInv, SoulUpdate PROVE SoulInv'
<1> USE SoulConstants DEF SoulConstants, SoulInv
<1>1. Loaded \in Scale
  BY DEF Loaded, LevelsOK
<1>2. intimacy' \in Scale /\ intimacy' >= Loaded
  BY <1>1, GrownUp DEF SoulUpdate
<1>3. LevelsOK'
  BY <1>2 DEF LevelsOK, SoulUpdate, Scale
<1>4. intimacy' # Unmade
  BY <1>2 DEF Scale, Unmade
<1>5. ~cutShort => Loaded >= best /\ soulFile = best
  BY DEF Loaded, LevelsOK, Scale, NoSetback, SoulUpdate
<1>6. ~cutShort' => intimacy' >= best' /\ (~saving' => soulFile' = best')
  <2>1. cutShort' = cutShort /\ best' = best
    BY DEF SoulUpdate
  <2>2. ~saving' => soulFile' = soulFile
    BY DEF SoulUpdate
  <2>3. intimacy' \in Int /\ Loaded \in Int /\ best \in Int
    BY <1>1, <1>2 DEF Scale, LevelsOK
  <2>4. QED
    BY <1>2, <1>5, <2>1, <2>2, <2>3
<1>7. QED
  BY <1>3, <1>4, <1>6 DEF NoSetback

\* The save is through: what is in the file is the best there ever was.
LEMMA SoulIsSaved ==
    ASSUME SoulInv, SoulSaved PROVE SoulInv'
<1> USE SoulConstants DEF SoulConstants, SoulInv
<1>1. intimacy \in Scale /\ best \in Scale
  BY DEF LevelsOK, SoulSaved
<1>2. LevelsOK' /\ intimacy' # Unmade
  BY <1>1 DEF LevelsOK, SoulSaved, Scale, Unmade
<1>3. NoSetback'
  <2>1. CASE cutShort
    BY <2>1 DEF NoSetback, SoulSaved
  <2>2. CASE ~cutShort
    <3>1. intimacy >= best
      BY <2>2 DEF NoSetback, SoulSaved
    <3>2. best' = intimacy
      BY <1>1, <3>1 DEF SoulSaved, Scale
    <3>3. intimacy' = intimacy /\ soulFile' = intimacy /\ intimacy \in Int
      BY <1>1 DEF SoulSaved, Scale
    <3>4. QED
      BY <3>2, <3>3 DEF NoSetback
  <2>3. QED
    BY <2>1, <2>2
<1>4. saving' = FALSE
  BY DEF SoulSaved
<1>5. QED
  BY <1>2, <1>3, <1>4

\* A death between two saves loses nothing that was in the file.
LEMMA SoulDied ==
    ASSUME SoulFlagsOK, SoulInv, SoulDies PROVE SoulInv'
<1> USE DEF SoulInv
<1>1. LevelsOK' /\ ~saving' /\ intimacy' = Unmade
  BY DEF SoulDies, LevelsOK
<1>2. ~cutShort' => soulFile' = best'
  BY DEF SoulDies, NoSetback
<1>3. QED
  BY <1>1, <1>2 DEF NoSetback

\* Every step of the application keeps the soul.
LEMMA SoulNext == SoulFlagsOK /\ SoulInv /\ [Next]_vars => SoulFlagsOK' /\ SoulInv'
<1> SUFFICES ASSUME SoulFlagsOK, SoulInv, [Next]_vars PROVE SoulFlagsOK' /\ SoulInv'
  OBVIOUS
<1>1. SoulUpdate \/ SoulSaved \/ SoulDies \/ UNCHANGED soulVars
  BY DEF Next, Live, Death, Build, Feel, vars
<1>2. SoulFlagsOK'
  BY <1>1 DEF SoulFlagsOK, SoulUpdate, SoulSaved, SoulDies, soulVars
<1>3. SoulInv'
  <2>1. CASE UNCHANGED soulVars
    BY <2>1 DEF soulVars, SoulInv, LevelsOK, NoSetback
  <2>2. QED
    BY <1>1, <2>1, SoulGrows, SoulIsSaved, SoulDied
<1>4. QED
  BY <1>2, <1>3

\* What was saved of the soul is not lost over any number of restarts and saves
\* that fail, unless a process ends while it saves.
THEOREM SoulKept == Spec => []NoSetback
<1>1. Init => SoulFlagsOK /\ SoulInv
  BY SoulStart DEF Init
<1>2. SoulInv => NoSetback
  BY DEF SoulInv
<1>3. QED
  BY <1>1, <1>2, SoulNext, PTL DEF Spec

-----------------------------------------------------------------------------
\* In the composed application, too, every caught crash is kept, and the alarm
\* is there for the loop and does not ring for it.
THEOREM SessionGuarded == Spec => [](NoCrashForgotten /\ LoopLeashed /\ NoFalseAlarm)
BY SessionImplementsParts, CrashesKept, LoopOnLeash, AlarmNeverFalse, PTL

\* And so is whoever waits for a build answered with their own.
THEOREM SessionAnswered == Spec => [](AnswerOnItsWay /\ OwnAnswer)
BY SessionImplementsParts, ForgeAnswers, ForgeOwnAnswers, PTL
=============================================================================
