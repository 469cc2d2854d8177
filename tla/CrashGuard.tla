----------------------------- MODULE CrashGuard -----------------------------
(***************************************************************************)
(* The life of the process (native/CrashGuard.cpp, main in native/main.cpp):*)
(* boot with the report of an earlier crash, the signal handlers, the      *)
(* alarm that starts the application again when the render loop has not    *)
(* re-armed it for 90 seconds, and every way the process can end.          *)
(*                                                                         *)
(* Time goes by in ticks of half a minute.  A run is one call of main; the *)
(* platform may call it again in a process that lives on, and then the     *)
(* statics of the process are still there (rcore_android.c:797-801).       *)
(***************************************************************************)
EXTENDS Integers

CONSTANTS
    Leash,       \* ticks an alarm is set for: ArmWatchdog(90)
    Period,      \* the loop re-arms when more ticks than this have gone by
    MaxRuns,     \* bound on the calls of main
    MaxClock,    \* bound on the ticks a window is open
    MayFail      \* a report file or the marker may fail to open

ASSUME GuardConstants ==
    /\ Leash \in Nat /\ Period \in Nat /\ Leash > Period + 1
    /\ MaxRuns \in Nat /\ MaxClock \in Nat /\ MayFail \in BOOLEAN

VARIABLES
    phase,      \* how far main has come
    awake,      \* the loop runs; else it waits for the window to get the focus
    run,        \* calls of main so far
    marker,     \* the run named in the crash marker, 0 when there is no file
    handlers,   \* the signal handlers are installed in this process
    alarm,      \* ticks until the alarm rings, 0 when none is set
    clock,      \* GetTime(): ticks since the window was opened
    last,       \* last_watchdog, a static
    reports,    \* history: runs whose crash has a report
    caught,     \* history: runs whose crash left the marker
    skipped,    \* history: runs whose report did not open
    stale,      \* history: last was set in an earlier window
    rang,       \* history: what the last alarm found
    fell        \* history: the process died in its loop, not yet started again

processVars == <<phase, awake, run, handlers>>
alarmVars == <<alarm, clock, last, stale, rang>>
reportVars == <<marker, reports, caught, skipped>>
guardVars == <<processVars, alarmVars, reportVars, fell>>

\* The phases, in the order of main; "shut" is a process that has left it.
Booting == {"check", "report", "unlink", "boot"}
Windowed == {"bare", "guarded", "splash", "loop", "closing"}
Phases == {"off", "shut"} \cup Booting \cup Windowed

\* Types; the crash that is marked or reported is one of an earlier run or of
\* this one.
GuardTypeOK ==
    /\ phase \in Phases
    /\ awake \in BOOLEAN /\ handlers \in BOOLEAN
    /\ stale \in BOOLEAN /\ fell \in BOOLEAN
    /\ run \in Nat /\ marker \in 0..run
    /\ alarm \in 0..Leash
    /\ clock \in Nat /\ last \in Nat
    /\ reports \subseteq 0..run /\ caught \subseteq 0..run /\ skipped \subseteq 0..run
    /\ rang \in {"never", "dead", "closed", "early", "splash", "blocked", "loop",
                "relaunched"}

GuardInit ==
    /\ phase = "off" /\ awake = FALSE /\ run = 0 /\ handlers = FALSE
    /\ alarm = 0 /\ clock = 0 /\ last = 0 /\ stale = FALSE /\ rang = "never"
    /\ marker = 0 /\ reports = {} /\ caught = {} /\ skipped = {}
    /\ fell = FALSE

-----------------------------------------------------------------------------
(* Boot. *)

\* main starts over, in a new process or in the old one.
Enter ==
    /\ run < MaxRuns
    /\ run' = run + 1
    /\ phase' = "check"
    /\ awake' = TRUE
    /\ clock' = 0

\* Mutant: the handlers are there before the report of the last crash.
LaunchGuarded ==
    /\ phase = "off"
    /\ Enter
    /\ handlers' = TRUE
    /\ last' = 0 /\ stale' = FALSE
    /\ fell' = FALSE
    /\ UNCHANGED <<alarm, rang, reportVars>>

\* The user opens the application.
Launch ==
    /\ phase = "off"
    /\ Enter
    /\ handlers' = FALSE
    /\ last' = 0 /\ stale' = FALSE
    /\ fell' = FALSE
    /\ UNCHANGED <<alarm, rang, reportVars>>

\* The activity is opened again while its process is still there.
Relaunch ==
    /\ phase = "shut"
    /\ Enter
    /\ stale' = (last # 0)
    /\ UNCHANGED <<handlers, alarm, last, rang, reportVars, fell>>

Advance(from, to) ==
    /\ phase = from
    /\ phase' = to
    /\ UNCHANGED <<awake, run>>

CheckMarker ==
    /\ \/ marker # 0 /\ Advance("check", "report")
       \/ marker = 0 /\ Advance("check", "boot")
    /\ UNCHANGED <<handlers, alarmVars, reportVars, fell>>

\* GenerateCrashReport: the report is complete before the marker goes.
WriteReport ==
    /\ Advance("report", "unlink")
    /\ reports' = reports \cup {marker}
    /\ UNCHANGED <<handlers, alarmVars, marker, caught, skipped, fell>>

\* The report does not open: the marker stays for the next boot.
SkipReport ==
    /\ MayFail
    /\ Advance("report", "boot")
    /\ skipped' = skipped \cup {marker}
    /\ UNCHANGED <<handlers, alarmVars, marker, reports, caught, fell>>

Unlink ==
    /\ Advance("unlink", "boot")
    /\ marker' = 0
    /\ UNCHANGED <<handlers, alarmVars, reports, caught, skipped, fell>>

\* InitWindow starts the clock.
OpenWindow ==
    /\ Advance("boot", "bare")
    /\ clock' = 0
    /\ UNCHANGED <<handlers, alarm, last, stale, rang, reportVars, fell>>

\* CrashGuard::Initialize, after the model's thread has been started.
Initialize ==
    /\ Advance("bare", "guarded")
    /\ handlers' = TRUE
    /\ UNCHANGED <<alarmVars, reportVars, fell>>

\* ArmWatchdog(90) once the avatar is loaded; last_watchdog is not set.
ArmFirst ==
    /\ Advance("guarded", "splash")
    /\ alarm' = Leash
    /\ UNCHANGED <<handlers, clock, last, stale, rang, reportVars, fell>>

Tap ==
    /\ awake
    /\ Advance("splash", "loop")
    /\ UNCHANGED <<handlers, alarmVars, reportVars, fell>>

-----------------------------------------------------------------------------
(* The loop. *)

RearmDue == clock - last > Period

\* Mutant: the time is noted, the alarm is not set.
RearmForgotten ==
    /\ phase = "loop" /\ awake
    /\ RearmDue
    /\ last' = clock
    /\ stale' = FALSE
    /\ UNCHANGED <<processVars, alarm, clock, rang, reportVars, fell>>

\* A frame that comes more than half a minute after the last re-arming.
Rearm ==
    /\ phase = "loop" /\ awake
    /\ RearmDue
    /\ alarm' = Leash
    /\ last' = clock
    /\ stale' = FALSE
    /\ UNCHANGED <<processVars, clock, rang, reportVars, fell>>

\* Without the focus, raylib waits in PollInputEvents for the next event.
Focus ==
    /\ phase \in {"splash", "loop"}
    /\ awake' = ~awake
    /\ UNCHANGED <<phase, run, handlers, alarmVars, reportVars, fell>>

\* The activity is being destroyed: the splash and the loop end.
Destroy ==
    /\ phase \in {"splash", "loop"}
    /\ phase' = "closing"
    /\ UNCHANGED <<awake, run, handlers, alarmVars, reportVars, fell>>

\* Mutant: the alarm is not cancelled.
ShutdownArmed ==
    /\ Advance("closing", "shut")
    /\ UNCHANGED <<handlers, alarmVars, reportVars, fell>>

\* ShutdownClean: the alarm is cancelled.
ShutdownClean ==
    /\ Advance("closing", "shut")
    /\ alarm' = 0
    /\ UNCHANGED <<handlers, clock, last, stale, rang, reportVars, fell>>

-----------------------------------------------------------------------------
(* The process ends. *)

Leashed == phase = "loop" /\ awake /\ ~stale /\ ~RearmDue

Gone ==
    /\ phase # "off"
    /\ phase' = "off"
    /\ awake' = FALSE
    /\ handlers' = FALSE
    /\ fell' = Leashed
    /\ UNCHANGED <<run, alarmVars>>

\* Killed by the system, or by a signal nobody handles.
Kill == Gone /\ UNCHANGED reportVars

\* crash_signal_handler: the marker is opened without O_EXCL, so an old one
\* is written over.
Signal ==
    /\ handlers
    /\ Gone
    /\ \/ /\ marker' = run
          /\ caught' = caught \cup {run}
       \/ MayFail /\ UNCHANGED <<marker, caught>>
    /\ UNCHANGED <<reports, skipped>>

-----------------------------------------------------------------------------
(* Time. *)

\* What an alarm finds that rings now.
Found ==
    CASE phase = "off" -> "dead"
      [] phase = "shut" -> "closed"
      [] phase = "loop" /\ awake /\ ~stale -> "loop"
      [] phase = "loop" /\ awake /\ stale -> "relaunched"
      [] phase = "splash" /\ awake -> "splash"
      [] phase \in {"loop", "splash"} /\ ~awake -> "blocked"
      [] OTHER -> "early"

\* Frames come sixty times a second: the loop does not sleep through a tick
\* at whose beginning it has to re-arm.
MayTick ==
    /\ phase \in Windowed => clock < MaxClock
    /\ ~(phase = "loop" /\ awake /\ RearmDue)

Tick ==
    /\ MayTick
    /\ alarm # 1
    /\ alarm' = IF alarm = 0 THEN 0 ELSE alarm - 1
    /\ clock' = IF phase \in Windowed THEN clock + 1 ELSE clock
    /\ UNCHANGED <<processVars, last, stale, rang, reportVars, fell>>

\* The alarm starts the activity.  What the platform does with an activity that
\* is already there (CrashGuard.cpp:114-116, no launch mode declared) is not
\* modelled: the process goes on as it was.
Ring ==
    /\ MayTick
    /\ alarm = 1
    /\ alarm' = 0
    /\ rang' = Found
    /\ IF phase = "off"
         THEN /\ Enter
              /\ handlers' = FALSE
              /\ last' = 0 /\ stale' = FALSE
              /\ fell' = FALSE
         ELSE /\ clock' = IF phase \in Windowed THEN clock + 1 ELSE clock
              /\ UNCHANGED <<processVars, last, stale, fell>>
    /\ UNCHANGED reportVars

-----------------------------------------------------------------------------
BootStep ==
    \/ CheckMarker \/ WriteReport \/ SkipReport \/ Unlink
    \/ OpenWindow \/ Initialize \/ ArmFirst

GuardAlive ==
    \/ Launch \/ Relaunch \/ BootStep \/ Tap \/ Rearm \/ Focus
    \/ Destroy \/ ShutdownClean \/ Tick \/ Ring

GuardNext == GuardAlive \/ Kill \/ Signal

\* main runs on, and time goes by.
GuardFairness ==
    /\ WF_guardVars(BootStep) /\ WF_guardVars(Rearm)
    /\ WF_guardVars(ShutdownClean) /\ WF_guardVars(Tick \/ Ring)

GuardSafety == GuardInit /\ [][GuardNext]_guardVars

GuardSpec == GuardSafety /\ GuardFairness

-----------------------------------------------------------------------------
\* A crash that was caught is not forgotten: it is in a report or still marked,
\* wherever the next runs crash or are killed between reading, reporting and
\* removing the marker (CrashGuard.cpp:54-75).  The exception is a crash whose
\* report could not be opened, and whose marker the next one then overwrites.
NoCrashForgotten == caught \subseteq reports \cup {marker} \cup skipped

\* While frames are drawn and re-arming is not due, the alarm is set, whatever
\* the splash screen or a stay in the background took before.
LoopLeashed == Leashed => alarm > 0

\* The alarm does not ring while the main loop draws its frames, however long the
\* splash or a stay in the background was before (main.cpp:268-270), nor after a
\* clean end (main.cpp:540).  Two exceptions.  The splash draws frames, too, and
\* does not re-arm: one that is not tapped is rung 90 seconds after main.cpp:257.
\* And a process in which main ran before: last_watchdog outlives the window whose
\* clock it was read from, and the second window does not re-arm before it is as
\* old as the first.
NoFalseAlarm == rang \notin {"loop", "closed"}

\* A process that dies while it draws is there again some day by itself.
Comeback == fell /\ run < MaxRuns ~> ~fell
=============================================================================
