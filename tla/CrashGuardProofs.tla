-------------------------- MODULE CrashGuardProofs --------------------------
(***************************************************************************)
(* Proofs about CrashGuard for any number of runs, any length of the alarm *)
(* and of its re-arming period: no caught crash is forgotten, and the      *)
(* alarm is set when the loop needs it and only rings when it should.      *)
(***************************************************************************)
EXTENDS CrashGuard, TLAPS

\* The four parts of the types.
SwitchesOK ==
    /\ awake \in BOOLEAN /\ handlers \in BOOLEAN
    /\ stale \in BOOLEAN /\ fell \in BOOLEAN
LifeOK == phase \in Phases /\ run \in Nat
TimeOK ==
    /\ alarm \in 0..Leash
    /\ clock \in Nat /\ last \in Nat
    /\ rang \in {"never", "dead", "closed", "early", "splash", "blocked", "loop",
                "relaunched"}
CrashesOK ==
    /\ marker \in 0..run
    /\ reports \subseteq 0..run /\ caught \subseteq 0..run /\ skipped \subseteq 0..run

LEMMA TypesInParts == GuardTypeOK <=> SwitchesOK /\ LifeOK /\ TimeOK /\ CrashesOK
BY DEF GuardTypeOK, SwitchesOK, LifeOK, TimeOK, CrashesOK

-----------------------------------------------------------------------------
(* Crashes. *)

\* Main is past the report of an earlier crash; the process may go on so long
\* that main starts over in it.
Reported == handlers \/ phase \in {"boot", "shut"} \cup Windowed

\* A marker that the handlers could overwrite tells of a crash that has its
\* report, or whose report did not open.
MarkerSpent ==
    /\ 0 \notin caught
    /\ phase # "off" => run # 0
    /\ handlers => phase # "off"
    /\ phase = "unlink" => marker \in reports
    /\ Reported => marker \in {0} \cup reports \cup skipped

CrashInv == CrashesOK /\ MarkerSpent /\ NoCrashForgotten

\* The flags and the phase keep their types.
LEMMA LifeStart == GuardInit => SwitchesOK /\ LifeOK
<1> SUFFICES ASSUME GuardInit PROVE SwitchesOK /\ LifeOK
  OBVIOUS
<1>1. SwitchesOK
  BY DEF GuardInit, SwitchesOK
<1>2. LifeOK
  BY DEF GuardInit, LifeOK, Phases
<1>3. QED
  BY <1>1, <1>2

\* The flags alone.
LEMMA SwitchesNext == SwitchesOK /\ [GuardNext]_guardVars => SwitchesOK'
<1> SUFFICES ASSUME SwitchesOK, [GuardNext]_guardVars PROVE SwitchesOK'
  OBVIOUS
<1> USE DEF SwitchesOK, Advance, processVars, alarmVars
<1>1. CASE Launch \/ Relaunch
  BY <1>1 DEF Launch, Relaunch, Enter
<1>2. CASE BootStep \/ Tap
  BY <1>2 DEF BootStep, CheckMarker, WriteReport, SkipReport, Unlink, OpenWindow, Initialize,
              ArmFirst, Tap
<1>3. CASE Rearm \/ Focus \/ Destroy \/ ShutdownClean \/ Tick
  BY <1>3 DEF Rearm, Focus, Destroy, ShutdownClean, Tick
<1>4. CASE Ring
  BY <1>4 DEF Ring, Enter
<1>5. CASE Kill \/ Signal
  BY <1>5 DEF Kill, Signal, Gone, Leashed
<1>6. CASE UNCHANGED guardVars
  BY <1>6 DEF guardVars
<1>7. QED
  BY <1>1, <1>2, <1>3, <1>4, <1>5, <1>6 DEF GuardNext, GuardAlive

\* The phase and the number of the run.
LEMMA LifeNext == LifeOK /\ [GuardNext]_guardVars => LifeOK'
<1> SUFFICES ASSUME LifeOK, [GuardNext]_guardVars PROVE LifeOK'
  OBVIOUS
<1> USE DEF LifeOK, Phases, Booting, Windowed, Advance, processVars, alarmVars
<1>1. CASE Launch \/ Relaunch
  BY <1>1 DEF Launch, Relaunch, Enter
<1>2. CASE BootStep \/ Tap
  BY <1>2 DEF BootStep, CheckMarker, WriteReport, SkipReport, Unlink, OpenWindow, Initialize,
              ArmFirst, Tap
<1>3. CASE Rearm \/ Focus \/ Destroy \/ ShutdownClean \/ Tick
  BY <1>3 DEF Rearm, Focus, Destroy, ShutdownClean, Tick
<1>4. CASE Ring
  BY <1>4 DEF Ring, Enter
<1>5. CASE Kill \/ Signal
  BY <1>5 DEF Kill, Signal, Gone, Leashed
<1>6. CASE UNCHANGED guardVars
  BY <1>6 DEF guardVars
<1>7. QED
  BY <1>1, <1>2, <1>3, <1>4, <1>5, <1>6 DEF GuardNext, GuardAlive

LEMMA LifeInvariant == GuardSafety => [](SwitchesOK /\ LifeOK)
BY LifeStart, SwitchesNext, LifeNext, PTL DEF GuardSafety

\* Nothing has crashed at first.
LEMMA CrashStart == GuardInit => CrashInv
<1> SUFFICES ASSUME GuardInit PROVE CrashInv
  OBVIOUS
<1> USE DEF GuardInit
<1>1. CrashesOK
  BY DEF CrashesOK
<1>2. MarkerSpent
  BY DEF MarkerSpent, Reported, Windowed
<1>3. NoCrashForgotten
  BY DEF NoCrashForgotten
<1>4. QED
  BY <1>1, <1>2, <1>3 DEF CrashInv

\* A step that leaves the run, the marker and the reports as they are.
LEMMA CrashSame ==
    ASSUME CrashInv, UNCHANGED <<run, reportVars>>,
           handlers' => phase' # "off",
           phase' = "off" \/ phase # "off",
           phase' = "unlink" => phase = "unlink",
           Reported' => Reported
    PROVE  CrashInv'
<1> UNCHANGED <<run, marker, reports, caught, skipped>>
  BY DEF reportVars
<1>1. CrashesOK' /\ NoCrashForgotten'
  BY DEF CrashInv, CrashesOK, NoCrashForgotten
<1>2. MarkerSpent'
  BY DEF CrashInv, MarkerSpent
<1>3. QED
  BY <1>1, <1>2 DEF CrashInv

\* Main starts over: only in a process that lives on are there handlers.
LEMMA CrashEnter ==
    ASSUME CrashInv, LifeOK, Enter, UNCHANGED reportVars,
           handlers' => handlers
    PROVE  CrashInv'
<1> USE DEF CrashInv, Enter
<1> UNCHANGED <<marker, reports, caught, skipped>>
  BY DEF reportVars
<1>1. CrashesOK'
  BY DEF CrashesOK, LifeOK
<1>2. MarkerSpent'
  <2>1. run' # 0
    BY DEF LifeOK
  <2>2. Reported' => Reported
    BY DEF Reported, Windowed
  <2>3. QED
    BY <2>1, <2>2 DEF MarkerSpent
<1>3. NoCrashForgotten'
  BY DEF NoCrashForgotten
<1>4. QED
  BY <1>1, <1>2, <1>3

\* The steps of the boot that deal with an earlier crash.
LEMMA CrashReport ==
    ASSUME CrashInv, LifeOK, CheckMarker \/ WriteReport \/ SkipReport \/ Unlink
    PROVE  CrashInv'
<1> USE DEF CrashInv, Advance, reportVars
<1>0. run \in Nat
  BY DEF LifeOK
<1>1. run' = run /\ handlers' = handlers /\ caught' = caught
  BY DEF CheckMarker, WriteReport, SkipReport, Unlink
<1>2. CrashesOK'
  <2> USE <1>1 DEF CrashesOK
  <2>1. CASE CheckMarker
    BY <2>1 DEF CheckMarker
  <2>2. CASE WriteReport
    BY <2>2 DEF WriteReport
  <2>3. CASE SkipReport
    BY <2>3 DEF SkipReport
  <2>4. CASE Unlink
    BY <2>4, <1>0 DEF Unlink
  <2>5. QED
    BY <2>1, <2>2, <2>3, <2>4
<1>3. NoCrashForgotten'
  BY <1>1 DEF MarkerSpent, NoCrashForgotten, CheckMarker, WriteReport, SkipReport, Unlink
<1>4. MarkerSpent'
  <2> USE <1>1 DEF MarkerSpent, Reported, Windowed
  <2>1. CASE CheckMarker
    BY <2>1 DEF CheckMarker
  <2>2. CASE WriteReport
    BY <2>2 DEF WriteReport
  <2>3. CASE SkipReport
    BY <2>3 DEF SkipReport
  <2>4. CASE Unlink
    BY <2>4 DEF Unlink
  <2>5. QED
    BY <2>1, <2>2, <2>3, <2>4
<1>5. QED
  BY <1>2, <1>3, <1>4

\* A death leaves the marker, or puts it in the place of one that is spent.
LEMMA CrashGone ==
    ASSUME CrashInv, LifeOK, Kill \/ Signal PROVE CrashInv'
<1> USE DEF CrashInv, Gone
<1>0. handlers' = FALSE /\ phase' = "off" /\ run' = run /\ run # 0 /\ run \in Nat
  BY DEF Kill, Signal, MarkerSpent, LifeOK
<1>1. CASE UNCHANGED reportVars
  BY <1>0, <1>1 DEF reportVars, CrashesOK, MarkerSpent, NoCrashForgotten, Reported, Windowed
<1>2. CASE handlers /\ marker' = run /\ caught' = caught \cup {run}
           /\ UNCHANGED <<reports, skipped>>
  <2>1. CrashesOK'
    BY <1>0, <1>2 DEF CrashesOK
  <2>2. marker \in {0} \cup reports \cup skipped
    BY <1>2 DEF MarkerSpent, Reported
  <2>3. NoCrashForgotten'
    BY <1>2, <2>2 DEF MarkerSpent, NoCrashForgotten
  <2>4. MarkerSpent'
    BY <1>0, <1>2 DEF MarkerSpent, Reported, Windowed
  <2>5. QED
    BY <2>1, <2>3, <2>4
<1>3. QED
  BY <1>1, <1>2 DEF Kill, Signal, reportVars

\* Every step keeps what is known of crashes.
LEMMA CrashNext == CrashInv /\ LifeOK /\ [GuardNext]_guardVars => CrashInv'
<1> SUFFICES ASSUME CrashInv, LifeOK, [GuardNext]_guardVars PROVE CrashInv'
  OBVIOUS
<1> USE DEF Booting, Windowed, Advance, processVars, alarmVars
<1>1. CASE Launch \/ Relaunch
  BY <1>1, CrashEnter DEF Launch, Relaunch
<1>2. CASE CheckMarker \/ WriteReport \/ SkipReport \/ Unlink
  BY <1>2, CrashReport
<1>3. CASE OpenWindow \/ Initialize \/ ArmFirst \/ Tap
  BY <1>3, CrashSame DEF OpenWindow, Initialize, ArmFirst, Tap, Reported
<1>4. CASE Rearm \/ Focus \/ Destroy \/ ShutdownClean \/ Tick
  <2>1. phase' = phase \/ (phase \in {"splash", "loop"} /\ phase' = "closing")
          \/ (phase = "closing" /\ phase' = "shut")
    BY <1>4 DEF Rearm, Focus, Destroy, ShutdownClean, Tick
  <2>2. UNCHANGED <<run, handlers, reportVars>>
    BY <1>4 DEF Rearm, Focus, Destroy, ShutdownClean, Tick
  <2>3. handlers' => phase' # "off"
    BY <2>1, <2>2 DEF CrashInv, MarkerSpent
  <2>4. QED
    BY <2>1, <2>2, <2>3, CrashSame DEF Reported
<1>5. CASE Ring
  <2>1. CASE phase = "off"
    BY <1>5, <2>1, CrashEnter DEF Ring
  <2>2. CASE phase # "off"
    BY <1>5, <2>2, CrashSame DEF Ring, Reported
  <2>3. QED
    BY <2>1, <2>2
<1>6. CASE Kill \/ Signal
  BY <1>6, CrashGone
<1>7. CASE UNCHANGED guardVars
  <2>1. UNCHANGED <<phase, handlers, run, reportVars>>
    BY <1>7 DEF guardVars
  <2>2. handlers' => phase' # "off"
    BY <2>1 DEF CrashInv, MarkerSpent
  <2>3. QED
    BY <2>1, <2>2, CrashSame DEF Reported, CrashInv, MarkerSpent
<1>8. QED
  BY <1>1, <1>2, <1>3, <1>4, <1>5, <1>6, <1>7 DEF GuardNext, GuardAlive, BootStep

\* What is known of crashes holds in every reachable state.
LEMMA CrashInvariant == GuardSafety => []CrashInv
BY CrashStart, CrashNext, LifeInvariant, PTL DEF GuardSafety

-----------------------------------------------------------------------------
(* The alarm. *)

\* In the first window of a process the time of the last re-arming is not
\* ahead of the clock, and what is left of the alarm makes up for the ticks
\* since then; a window that was left has none.
AlarmInv ==
    /\ TimeOK
    /\ phase = "shut" => alarm = 0
    /\ ~stale /\ phase \in Booting \cup {"bare", "guarded", "splash"} => last = 0
    /\ ~stale => last <= clock
    /\ ~stale /\ phase \in {"splash", "loop"} => alarm + (clock - last) >= Leash
    /\ NoFalseAlarm

\* No alarm is set at first.
LEMMA AlarmStart == GuardInit => AlarmInv
BY GuardConstants
   DEF GuardConstants, GuardInit, AlarmInv, TimeOK, NoFalseAlarm, Booting

\* While the loop draws its frames in time, the alarm is at least two ticks away.
LEMMA LoopAhead ==
    ASSUME AlarmInv, Leashed PROVE alarm > 1
BY GuardConstants DEF GuardConstants, AlarmInv, TimeOK, Leashed, RearmDue

\* Setting, re-arming and cancelling.
LEMMA AlarmSet ==
    ASSUME AlarmInv, ArmFirst \/ Rearm \/ ShutdownClean PROVE AlarmInv'
<1> USE GuardConstants DEF GuardConstants, AlarmInv, TimeOK, NoFalseAlarm, Booting, Advance,
        processVars
<1>1. CASE ArmFirst
  BY <1>1 DEF ArmFirst
<1>2. CASE Rearm
  BY <1>2 DEF Rearm
<1>3. CASE ShutdownClean
  BY <1>3 DEF ShutdownClean
<1>4. QED
  BY <1>1, <1>2, <1>3

\* A new run: the clock starts over, and so does the static, if the process
\* is a new one.
LEMMA AlarmEnter ==
    ASSUME AlarmInv, Enter, alarm' \in 0..Leash,
           rang' \in {"never", "dead", "early", "splash", "blocked", "relaunched"},
           last' \in {0, last}, ~stale' => last' = 0
    PROVE  AlarmInv'
<1>1. clock' = 0 /\ last' \in Nat /\ phase' = "check"
  BY DEF AlarmInv, TimeOK, Enter
<1>2. TimeOK'
  BY <1>1 DEF TimeOK
<1>3. QED
  BY <1>1, <1>2 DEF AlarmInv, NoFalseAlarm

\* The steps that leave the alarm alone.
LEMMA AlarmSame ==
    ASSUME AlarmInv, LifeOK,
           CheckMarker \/ WriteReport \/ SkipReport \/ Unlink \/ OpenWindow \/ Initialize
             \/ Tap \/ Focus \/ Destroy \/ Kill \/ Signal
    PROVE  AlarmInv'
<1> USE DEF AlarmInv, TimeOK, NoFalseAlarm, LifeOK, Booting, Windowed, Phases, Advance, alarmVars
<1>1. CASE CheckMarker \/ WriteReport \/ SkipReport \/ Unlink
  BY <1>1 DEF CheckMarker, WriteReport, SkipReport, Unlink
<1>2. CASE OpenWindow
  BY <1>2 DEF OpenWindow
<1>3. CASE Initialize \/ Tap \/ Focus \/ Destroy
  BY <1>3 DEF Initialize, Tap, Focus, Destroy
<1>4. CASE Kill \/ Signal
  BY <1>4 DEF Kill, Signal, Gone
<1>5. QED
  BY <1>1, <1>2, <1>3, <1>4

\* Time goes by: for the clock of the window as for the alarm.
LEMMA AlarmTick ==
    ASSUME AlarmInv, LifeOK, Tick \/ Ring PROVE AlarmInv'
<1> USE GuardConstants DEF GuardConstants
<1>1. CASE Tick
  BY <1>1 DEF Tick, AlarmInv, TimeOK, NoFalseAlarm, LifeOK, Booting, Windowed, Phases, processVars
<1>2. CASE Ring
  <2>1. Found \notin {"loop", "closed"}
    <3>1. phase # "shut"
      BY <1>2 DEF Ring, AlarmInv
    <3>2. ~(phase = "loop" /\ awake /\ ~stale)
      BY <1>2, LoopAhead DEF Ring, MayTick, Leashed
    <3>3. QED
      BY <3>1, <3>2 DEF Found
  <2>2. Found \in {"dead", "early", "splash", "blocked", "relaunched"}
    BY <2>1 DEF Found
  <2>3. CASE phase = "off"
    <3>1. alarm' = 0 /\ rang' = Found /\ Enter /\ last' = 0
      BY <1>2, <2>3 DEF Ring
    <3>2. alarm' \in 0..Leash
      BY <3>1
    <3>3. QED
      BY <2>2, <3>1, <3>2, AlarmEnter
  <2>4. CASE phase # "off"
    BY <1>2, <2>2, <2>4
       DEF Ring, AlarmInv, TimeOK, NoFalseAlarm, LifeOK, Booting, Windowed, Phases, processVars
  <2>5. QED
    BY <2>3, <2>4
<1>3. QED
  BY <1>1, <1>2

\* Every step keeps what is known of the alarm.
LEMMA AlarmNext == AlarmInv /\ LifeOK /\ [GuardNext]_guardVars => AlarmInv'
<1> SUFFICES ASSUME AlarmInv, LifeOK, [GuardNext]_guardVars PROVE AlarmInv'
  OBVIOUS
<1>1. CASE Launch \/ Relaunch
  <2>1. Enter /\ UNCHANGED <<alarm, rang>>
    BY <1>1 DEF Launch, Relaunch
  <2>2. last' \in {0, last} /\ (~stale' => last' = 0)
    BY <1>1 DEF Launch, Relaunch
  <2>3. alarm' \in 0..Leash
    BY <2>1 DEF AlarmInv, TimeOK
  <2>4. rang' \in {"never", "dead", "early", "splash", "blocked", "relaunched"}
    BY <2>1 DEF AlarmInv, TimeOK, NoFalseAlarm
  <2>5. QED
    BY <2>1, <2>2, <2>3, <2>4, AlarmEnter
<1>2. CASE ArmFirst \/ Rearm \/ ShutdownClean
  BY <1>2, AlarmSet
<1>3. CASE Tick \/ Ring
  BY <1>3, AlarmTick
<1>4. CASE UNCHANGED guardVars
  BY <1>4 DEF guardVars, processVars, alarmVars, AlarmInv, TimeOK, NoFalseAlarm
<1>5. QED
  BY <1>1, <1>2, <1>3, <1>4, AlarmSame DEF GuardNext, GuardAlive, BootStep

\* What is known of the alarm holds in every reachable state.
LEMMA AlarmInvariant == GuardSafety => []AlarmInv
BY AlarmStart, AlarmNext, LifeInvariant, PTL DEF GuardSafety

-----------------------------------------------------------------------------
\* Every state of the process is well typed.
THEOREM GuardTypes == GuardSafety => []GuardTypeOK
<1>1. SwitchesOK /\ LifeOK /\ CrashInv /\ AlarmInv => GuardTypeOK
  BY TypesInParts DEF CrashInv, AlarmInv
<1>2. QED
  BY <1>1, LifeInvariant, CrashInvariant, AlarmInvariant, PTL

\* A crash that was caught is in a report or still marked, after any number of
\* runs that crash or are killed at any place.
THEOREM CrashesKept == GuardSafety => []NoCrashForgotten
<1>1. CrashInv => NoCrashForgotten
  BY DEF CrashInv
<1>2. QED
  BY <1>1, CrashInvariant, PTL

\* A loop that draws its frames is on the leash, for every leash that is two
\* ticks longer than the period of re-arming.
THEOREM LoopOnLeash == GuardSafety => []LoopLeashed
<1>1. AlarmInv => LoopLeashed
  <2> SUFFICES ASSUME AlarmInv, Leashed PROVE alarm > 0
    BY DEF LoopLeashed
  <2>1. QED
    BY LoopAhead, GuardConstants DEF GuardConstants, AlarmInv, TimeOK
<1>2. QED
  BY <1>1, AlarmInvariant, PTL

\* The alarm does not ring for a loop that draws its frames in the first window
\* of its process, nor after a clean end.
THEOREM AlarmNeverFalse == GuardSafety => []NoFalseAlarm
<1>1. AlarmInv => NoFalseAlarm
  BY DEF AlarmInv
<1>2. QED
  BY <1>1, AlarmInvariant, PTL
=============================================================================
