---------------------------- MODULE MCPhotoTurns ----------------------------
(* PhotoTurns with a short memory, so that there are summaries. *)
EXTENDS PhotoTurns
=============================================================================
