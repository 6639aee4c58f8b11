------------------------------- MODULE MCConsole -------------------------------
(* A console of three columns and five rows, the middle three of which scroll.  *)
EXTENDS Console

===============================================================================
