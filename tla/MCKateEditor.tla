---------------------------- MODULE MCKateEditor ----------------------------
(* A window of two rows of two columns for TLC. *)
EXTENDS KateEditor

=============================================================================
