---------------------------- MODULE MCChatTurns -----------------------------
(* ChatTurns with one selection in the model picker at a time.             *)
EXTENDS ChatTurns

CONSTANTS boot, work, draft, pick, base, coder, vision

MCThreads == {boot, work, draft, pick}
MCCores == {base, coder, vision}
MCQwen == {base}
MCVisionNamed == {vision}
MCPromptLens == {1}
MCPickers == {pick}
MCSpecialist == [c \in {"CODE", "REASON"} |-> IF c = "CODE" THEN coder ELSE NoCore]
=============================================================================
