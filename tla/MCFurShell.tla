------------------------------ MODULE MCFurShell ------------------------------
(* Instances of FurShell for TLC. *)
EXTENDS FurShell

Entry(path, isDir, owner, text) ==
  [path |-> path, isDir |-> isDir, owner |-> owner, text |-> text]

\* The seed and the installed system, cut down to what fits a small table.
SmallSeed    == <<Entry(<<"a">>, TRUE, Super, Nul), Entry(<<"a", "b">>, TRUE, Debian, Nul)>>
SmallInstall == <<Entry(<<"a">>, TRUE, Super, Nul), Entry(<<"a", "b">>, FALSE, Super, Nul)>>

\* A table that is full: three directories, one in another, and beside them a file.
DeepSeed  == <<Entry(<<"a">>, TRUE, Super, Nul), Entry(<<"a", "a">>, TRUE, Super, Nul),
               Entry(<<"a", "a", "a">>, TRUE, Super, Nul), Entry(<<"b">>, FALSE, Super, Nul)>>
DeepPaths == {<<>>, <<".">>, <<Nul, Nul>>, <<"long">>, <<Nul, "a">>,
              <<"a", "a", "a">>, <<"..", "..", "b">>}
FewPaths  == {<<"a">>, <<"..">>, <<"a", "b">>}

FewModes  == {DirMode}
SomeModes == {DirMode, FileMode, NoMode}

\* Disks: of the previous release, whose image has no owners and modes; with a
\* directory that is closed to others; and without a root, saved by a desktop that
\* was reset in the middle of a login.
Alone(version, root, mode) ==
  Image(version, [i \in Slots |-> CASE i = 0 -> root
                                    [] i = 1 -> [RootNode EXCEPT !.name = "a", !.mode = mode]
                                    [] OTHER -> Vacant])
SomeDisks == {Alone(1, RootNode, NoMode), Alone(2, RootNode, NoMode),
              Alone(2, Vacant, DirMode)}
NoDisks   == {Nothing}
=============================================================================
