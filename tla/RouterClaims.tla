---------------------------- MODULE RouterClaims ----------------------------
(***************************************************************************)
(* What the handoff documents say of routing and of vision, as properties  *)
(* of ChatTurns.  The code does not keep them, and TLC shows how.          *)
(***************************************************************************)
EXTENDS ChatTurns

VARIABLE asked    \* class of the chat message under way, or of the last one

claimVars == <<vars, asked>>

ClaimInit == Init /\ asked = "CHAT"

Ask(class) == SubmitChat(class) /\ asked' = class

ClaimStep ==
    \/ \E class \in Classes : Ask(class)
    \/ /\ \/ \E class \in Classes : SubmitDraft(class) \/ SubmitOther(class)
          \/ WorkerStep \/ DrafterStep
          \/ \E t \in Pickers : Pick(t)
          \/ CloseWindow \/ Closed
          \/ \E t \in Threads : Serve(t)
       /\ UNCHANGED asked

ClaimNext == ClaimStep /\ crossed' = (crossed \/ Crossing')

ClaimSpec == ClaimInit /\ [][ClaimNext]_claimVars

\* HANDOFF_5_4A.md:3: "CHAT->no swap".  A swap noted for a message that started
\* no worker (/draft, a slash command) is taken by the next chat message.
ChatNeverSwaps ==
    asked = "CHAT" => ~(stage[Worker] = "answer" /\ pc[Worker] = "load")

\* BLUEPRINT.md:5: "attach photo -> auto-swap Qwen3.5-4B core -> mmproj eyes ->
\* she sees".  The projector's context keeps the vocab of the model it was
\* opened on, and is not reopened when that model is freed by a later swap.
EyesOfLoadedModel ==
    \A t \in Threads : pc[t] = "decode" /\ Sees(t) => eyes = "live"
=============================================================================
