----------------------------- MODULE PatchLife ------------------------------
(***************************************************************************)
(* What becomes of an AI-drafted patch, for whoever only looks at its      *)
(* stages: it is run if it was approved, once, and one at a time; a patch  *)
(* that was discarded is done with; and a kill, a file that does not open  *)
(* or a vault that does not store or delete a row strikes the     *)
(* patches in hand, of which nothing is promised here.  SanityValve.tla is *)
(* shown to implement this module.                                         *)
(***************************************************************************)
CONSTANT Drafts

VARIABLE life    \* per draft: the stage it has reached

PatchInit == life = [d \in Drafts |-> "unasked"]

Moves(d, from, to) ==
    /\ life[d] = from
    /\ life' = [life EXCEPT ![d] = to]

Ask(d) == Moves(d, "unasked", "drafted")
Accept(d) == Moves(d, "drafted", "approved")
Discard(d) == Moves(d, "drafted", "discarded")

Begin(d) ==
    /\ \A e \in Drafts : life[e] # "running"
    /\ Moves(d, "approved", "running")

End(d) == Moves(d, "running", "done")

\* A patch that has been run may still be struck, as long as its row is there.
Strike(S) ==
    /\ \A d \in S : life[d] \notin {"unasked", "discarded"}
    /\ life' = [d \in Drafts |-> IF d \in S THEN "struck" ELSE life[d]]

PatchNext ==
    \/ \E d \in Drafts : Ask(d) \/ Accept(d) \/ Discard(d) \/ Begin(d) \/ End(d)
    \/ \E S \in SUBSET Drafts : Strike(S)

PatchSafety == PatchInit /\ [][PatchNext]_life
=============================================================================
