--------------------------- MODULE MCSanityValve ----------------------------
(* SanityValve with a few drafts; the cfgs say what may be killed or fail. *)
EXTENDS SanityValve
=============================================================================
