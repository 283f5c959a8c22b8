---------------------------- MODULE MCMultiCopy ----------------------------
(* multicopy.c with few processes and a file of a few bytes.               *)
EXTENDS MultiCopy

=============================================================================
