------------------------------- MODULE PathTree -------------------------------
(***************************************************************************)
(* What kernel/fs.c promises its users under the shell: a tree of          *)
(* directories and files known by their paths, and a current directory in  *)
(* it.  A command makes at most one change: an entry appears in a          *)
(* directory, a file gets a content, a leaf goes.  The tree can be saved   *)
(* and loaded as a whole; with the power goes what was not yet flushed.    *)
(*                                                                         *)
(* The promise has one way out.  The current directory itself may be       *)
(* removed, or wiped with all the rest: the session is then Nowhere, and   *)
(* may turn up in an entry made later.  Only from Nowhere can a content    *)
(* end up in another file than the one that was made for it, and only from *)
(* there can the tree be lost; of a lost tree nothing is promised until it *)
(* is replaced.                                                            *)
(***************************************************************************)
EXTENDS Integers, Sequences, Functions

CONSTANT Dir

VARIABLES
  tree,   \* path -> Dir or the content of a file; Lost if it is no tree
  cwd,    \* the path of the current directory, or Nowhere
  image,  \* the set of at most one tree that is saved
  written \* the images there were since the last flush

vars  == <<tree, cwd, image, written>>
store == <<image, written>>

Root    == <<>>
Bare    == [p \in {Root} |-> Dir]
Lost    == [p \in {} |-> Dir]
Nowhere == <<"nul">>       \* no path: no entry has an empty name

Up(p)       == SubSeq(p, 1, Len(p) - 1)
IsDir(t, p) == p \in DOMAIN t /\ t[p] = Dir
Leaf(t, p)  == p # Root /\ \A q \in DOMAIN t \ {Root} : Up(q) # p
IsTree(t)   == IsDir(t, Root) /\ \A p \in DOMAIN t \ {Root} : IsDir(t, Up(p))

Init ==
  /\ tree = Bare /\ cwd = Root
  /\ image = {} \/ \E t \in image : image = {t} /\ (t = Lost \/ IsTree(t))
  /\ written = {image}

------------------------------------------------------------------------------
(* The changes of a tree t into a tree u, at a path p of either. *)

\* One entry appears, in a directory that is there.
Make(t, u, p) ==
  /\ p \in DOMAIN u \ DOMAIN t
  /\ p # Root /\ IsDir(t, Up(p))
  /\ DOMAIN u = DOMAIN t \cup {p}
  /\ Restrict(u, DOMAIN t) = t
  /\ cwd' = cwd \/ (cwd = Nowhere /\ IsDir(u, p) /\ cwd' = p)

\* One file gets another content.
Put(t, u, p) ==
  /\ DOMAIN u = DOMAIN t
  /\ t[p] # Dir /\ u[p] # Dir
  /\ u = [t EXCEPT ![p] = u[p]]
  /\ UNCHANGED cwd

\* One leaf goes.  It may be the directory the session stands in.
Drop(t, u, p) ==
  /\ DOMAIN u = DOMAIN t \ {p}
  /\ Leaf(t, p)
  /\ u = Restrict(t, DOMAIN u)
  /\ cwd' = IF cwd = p THEN Nowhere ELSE cwd

\* From Nowhere: one entry appears, and a file that was there gets the content.
Slip(t, u) ==
  /\ cwd = Nowhere
  /\ \E p \in DOMAIN u \ DOMAIN t, q \in DOMAIN t :
       LET v == [u EXCEPT ![q] = t[q]] IN Make(t, v, p) /\ Put(v, u, q)

Edit ==
  /\ \E t \in {tree}, u \in {tree'} : \E p \in DOMAIN t \cup DOMAIN u :
       t # Lost /\ (Make(t, u, p) \/ Put(t, u, p) \/ Drop(t, u, p) \/ Slip(t, u))
  /\ UNCHANGED store

------------------------------------------------------------------------------
(* Everything else *)

\* The session goes to a directory.
Go ==
  /\ tree # Lost /\ IsDir(tree, cwd')
  /\ UNCHANGED <<tree, store>>

\* Tree t is saved, for good; or unflushed, or not quite, and then the image is one
\* of those there were.
Save(t) ==
  \/ image' = {t} /\ written' = {{t}}
  \/ written' = written \cup {{}, {t}} /\ image' \in written'

\* The tree is saved.  The end of an installation also takes the session to the root.
Keep ==
  /\ Save(tree)
  /\ cwd' = cwd \/ (IsDir(tree, Root) /\ cwd' = Root)
  /\ UNCHANGED tree

\* A new session, a failed load or a format: an empty tree, and perhaps it is saved.
\* The session is at its root, unless it was elsewhere and load or format failed.
Wipe ==
  /\ tree' = Bare
  /\ cwd' = Root \/ (cwd # Root /\ cwd' = Nowhere)
  /\ Save(Bare) \/ UNCHANGED store

\* A reset.
Restart ==
  /\ tree' = Bare /\ cwd' = Root
  /\ image' \in written
  /\ UNCHANGED written

\* The saved tree replaces the present one.
Load ==
  /\ image = {tree'}
  /\ cwd' = IF tree' = Lost THEN Nowhere ELSE Root
  /\ UNCHANGED store

\* A session that is Nowhere makes an entry there.
Lose ==
  /\ cwd = Nowhere
  /\ tree' = Lost
  /\ UNCHANGED <<cwd, store>>

\* Nothing is promised of a lost tree, except that it is not saved unasked.
Stray ==
  /\ tree = Lost
  /\ \E u \in {tree'} : u = Lost \/ IsTree(u)
  /\ UNCHANGED store

Next == Edit \/ Go \/ Keep \/ Wipe \/ Restart \/ Load \/ Lose \/ Stray

Spec == Init /\ [][Next]_vars
=============================================================================
