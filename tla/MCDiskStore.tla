----------------------------- MODULE MCDiskStore -----------------------------
(* Three images for TLC.  The second sectors of A and B differ and have one     *)
(* sum, so that a save of one over the other may be torn without a trace in the *)
(* checksum.  C is a table without a root and ends with a sector of zeros; what *)
(* has the sum of C and no magic is an unwritten sector before that of B.       *)
EXTENDS DiskStore

SomeSectors == {"zero", "a1", "a2", "b1", "b2", "c1"}
SomeSums    == [s \in SomeSectors |->
                  CASE s = "zero" -> 0 [] s = "a1" -> 1 [] s = "b1" -> 2 [] OTHER -> 4]
ImageA == <<"a1", "a2">>
ImageB == <<"b1", "b2">>
ImageC == <<"c1", "zero">>
SomeImages == {ImageA, ImageB, ImageC}
Zeros      == <<"zero", "zero">>
=============================================================================
