------------------------- MODULE MCInferenceEngine --------------------------
(* InferenceEngine with any clients: two worker threads and the boot thread. *)
EXTENDS InferenceEngine

CONSTANTS boot, t1, t2, base, vision

MCThreads == {boot, t1, t2}
MCCores == {base, vision}
MCQwen == {base}
MCVisionNamed == {vision}
MCPromptLens == {1}
=============================================================================
