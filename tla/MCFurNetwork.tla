----------------------------- MODULE MCFurNetwork -----------------------------
(* A repository of five packages, one access point that is open and two with *)
(* passwords of their own.                                                   *)
EXTENDS FurNetwork

CONSTANTS base, nm, tools, curl, git, lab, cafe, guest, right, other, none

MCPackages == {base, nm, tools, curl, git}
MCPassword == [ap \in {lab, cafe, guest} |->
                  CASE ap = lab -> right [] ap = cafe -> other [] ap = guest -> none]
===============================================================================
