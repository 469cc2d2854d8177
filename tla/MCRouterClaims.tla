--------------------------- MODULE MCRouterClaims ---------------------------
(* RouterClaims with a core per class, and a second "Qwen3.5" core beside   *)
(* the one the projector was made for (README.md:66-67 lists both).         *)
EXTENDS RouterClaims

CONSTANTS boot, work, draft, base, coder, vision, heavy

MCThreads == {boot, work, draft}
MCCores == {base, coder, vision, heavy}
MCQwen == {base, heavy}
MCVisionNamed == {vision, heavy}
MCPromptLens == {1}
MCPickers == {}
MCSpecialist == [c \in {"CODE", "REASON"} |-> IF c = "CODE" THEN coder ELSE NoCore]
=============================================================================
