------------------------------ MODULE Session -------------------------------
(***************************************************************************)
(* The parts that live and die with the process together: the life of the  *)
(* process itself, the builds it waits for and the soul it keeps on the     *)
(* card.  A death takes the memory of all of them at once; the render loop *)
(* polls the bridge only while it runs.                                    *)
(***************************************************************************)
EXTENDS CrashGuard, Forge, SoulFile

vars == <<guardVars, forgeVars, soulVars>>

Init == GuardInit /\ ForgeInit /\ SoulInit

\* The activity is on the screen: the Java UI thread may call submit.
Shown == phase \notin {"off", "shut"}

\* The render loop draws frames, and polls in one of them every second.
Polling == phase = "loop" /\ awake

\* A death ends main and every thread; the bridge goes on.
Death == (Kill \/ Signal) /\ Restart /\ SoulDies

Live == GuardAlive /\ UNCHANGED <<forgeVars, soulVars>>

Build ==
    /\ \/ Shown /\ ~saving /\ (RequestClear \/ RequestStep)
       \/ Polling /\ PollStep
       \/ BridgeStep
    /\ UNCHANGED <<guardVars, soulVars>>

\* The UI thread runs one submit at a time; with the auto-router on, a message
\* goes through update before it is looked at for "/forge".
Feel ==
    /\ Shown /\ jui = "idle"
    /\ SoulUpdate \/ SoulSaved
    /\ UNCHANGED <<guardVars, forgeVars>>

Next == Live \/ Death \/ Build \/ Feel

Fairness ==
    /\ GuardFairness
    /\ WF_vars(Polling /\ PollStep /\ UNCHANGED <<guardVars, soulVars>>)
    /\ WF_vars(BridgeStep /\ UNCHANGED <<guardVars, soulVars>>)
    /\ WF_vars(Shown /\ RequestStep /\ UNCHANGED <<guardVars, soulVars>>)

Spec == Init /\ [][Next]_vars /\ Fairness

-----------------------------------------------------------------------------
\* A build that is asked for is answered, or its answer deleted, or the process
\* ends, if the render loop is not left or kept waiting again and again: also
\* when the window is closed and opened anew while the bridge builds, since
\* pending_ lives as long as the process.
WaitEnds == BuildAnswered \/ []<>~Polling
=============================================================================
