---------------------------- MODULE MCFurDesktop ----------------------------
(* A table that the desktop's three files just fill, for TLC. *)
EXTENDS FurDesktop

Entry(path, isDir, owner, text) ==
  [path |-> path, isDir |-> isDir, owner |-> owner, text |-> text]

SmallSeed == <<Entry(<<"etc">>, TRUE, Super, Nul),
               Entry(<<"etc", "hostname">>, FALSE, Super, "pc")>>
NoPlan    == <<>>

\* Of these a user can make a directory, a file, or nothing.
SomePaths == {<<"etc">>, <<"etc", "hostname">>, <<"untitled.txt">>}

\* Of the paths of two names only that of the longer one does not fit.
Lengths == [name \in Names |-> IF name = "hostname" THEN 12 ELSE IF name = "etc" THEN 3 ELSE 8]

NoModes   == {}
SomeModes == {DirMode, FileMode, NoMode}

\* A disk with a file in place of /etc.
EtcIsFile == Image(2, [FreshTable EXCEPT
               ![1] = [RootNode EXCEPT !.name = "etc", !.isDir = FALSE, !.mode = FileMode,
                         !.data = "x"]])
SomeDisks == {EtcIsFile}
=============================================================================
