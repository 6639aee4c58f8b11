----------------------------- MODULE MCInstaller -----------------------------
(* Two disks and two releases of different size for TLC. *)
EXTENDS Installer

KernelSizes == [r \in {"old", "new"} |-> IF r = "old" THEN 3 ELSE 2]

\* An ordinary name, none, and three that are paths: of the directory above, of a
\* file the installation makes, and of one in a directory that is not there.
SomeUsers  == {<<"debian">>, <<>>, <<"..">>, <<Nul, "etc", "hostname">>, <<"a", "b">>}
ShortUsers == {<<>>}

SomeModes == {DirMode, FileMode, NoMode}

SomeDisks == {<<OldDisk, BlankDisk>>, <<TinyDisk, OldDisk>>}
TwoDisks  == {[d \in {0, 1} |-> pair[d + 1]] : pair \in SomeDisks}
=============================================================================
