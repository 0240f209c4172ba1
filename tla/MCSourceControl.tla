--------------------------- MODULE MCSourceControl ---------------------------
(* SourceControl with model values for branches, paths, commands and loops. *)
EXTENDS SourceControl
=============================================================================
