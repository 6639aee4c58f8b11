------------------------------ MODULE NodeTable ------------------------------
(***************************************************************************)
(* kernel/fs.c: the filesystem is one table of FS_MAX_NODES nodes, each    *)
(* naming its parent by index.  The operations are operators from a table  *)
(* to a table; a path is the sequence of its tokens, split at "/": with    *)
(* Nul for the empty one, "/a/b" is <<Nul, "a", "b">>, "a/" is             *)
(* <<"a", Nul>>, "/" is <<Nul, Nul>> and the empty path is <<>>.  Paths    *)
(* are shorter than the 128 bytes of parent_path.                          *)
(***************************************************************************)
EXTENDS Integers, SequencesExt, FiniteSetsExt

CONSTANTS
  MaxNodes,    \* FS_MAX_NODES
  Names,       \* the tokens of paths, "." and ".." among them
  LongNames,   \* those of them longer than FS_MAX_NAME
  Uids,        \* user ids
  Modes,       \* access modes
  Texts        \* contents of files

Nul      == "nul"                      \* the empty string
PathType == Seq(Names \cup {Nul})

Slots  == 0..(MaxNodes - 1)
Fail   == -1
Super  == 0                            \* SHELL_UID_ROOT, the uid fs.c trusts
Rights == {"r", "w", "x"}

\* An access mode: the owner triad and the triad of everybody else (the
\* group triad is stored and never looked at).
Mode(owner, other) == [owner |-> owner, other |-> other]
DirMode  == Mode(Rights, {"r", "x"})   \* FS_DEFAULT_DIR_MODE, 0755
FileMode == Mode({"r", "w"}, {"r"})    \* FS_DEFAULT_FILE_MODE, 0644
NoMode   == Mode({}, {})

ASSUME TableAssumption ==
  /\ MaxNodes \in Nat \ {0}
  /\ LongNames \subseteq Names
  /\ Nul \notin Names /\ "/" \notin Names
  /\ Super \in Uids
  /\ {DirMode, FileMode, NoMode} \subseteq Modes

\* A slot memset to zero.
Vacant == [used |-> FALSE, isDir |-> FALSE, parent |-> 0, name |-> Nul,
           owner |-> Super, mode |-> NoMode, data |-> Nul]

RootNode == [used |-> TRUE, isDir |-> TRUE, parent |-> 0, name |-> "/",
             owner |-> Super, mode |-> DirMode, data |-> Nul]

\* fs_init
FreshTable == [i \in Slots |-> IF i = 0 THEN RootNode ELSE Vacant]

------------------------------------------------------------------------------
(* Looking up *)

Live(t, n)      == n \in Slots /\ t[n].used
IsLiveDir(t, n) == Live(t, n) /\ t[n].isDir            \* fs_is_dir

ValidName(name) == name # Nul /\ name \notin LongNames

\* The nodes of that name in directory p, whatever p is, and the one a scan
\* of the table finds first (find_child).
Named(t, p, name) == {i \in Slots : t[i].used /\ t[i].name = name /\ t[i].parent = p}
Find(t, p, name)  == IF Named(t, p, name) = {} THEN Fail ELSE Min(Named(t, p, name))

\* One token of a path.  Nothing asks whether `at' is used, or a directory.
Walk(t, at, token) ==
  IF at = Fail \/ token \in {Nul, "."} THEN at
  ELSE IF token = ".." THEN (IF at = 0 THEN 0 ELSE t[at].parent)
  ELSE IF token \in LongNames THEN Fail
  ELSE Find(t, at, token)

IsAbsolute(path) == Len(path) > 1 /\ path[1] = Nul

\* The nodes a path leads through, token by token, and where it ends.
Origin(cwd, path) == IF IsAbsolute(path) THEN 0 ELSE cwd
Steps(t, cwd, path) ==
  LET at[i \in 0..Len(path)] ==
        IF i = 0 THEN Origin(cwd, path) ELSE Walk(t, at[i - 1], path[i])
  IN  at
Resolve(t, cwd, path) == Steps(t, cwd, path)[Len(path)]

\* resolve_parent_and_leaf: the directory a new entry would go into.  A bare
\* name goes into cwd unseen; otherwise the parent must be a directory, used
\* or not.
HomeOf(t, cwd, path) ==
  IF path = <<>> \/ ~ValidName(Last(path)) THEN Fail
  ELSE IF Len(path) = 1 THEN cwd
  ELSE LET p == IF Len(path) = 2 /\ path[1] = Nul THEN 0
                ELSE Resolve(t, cwd, Front(path))
       IN  IF p \in Slots /\ t[p].isDir THEN p ELSE Fail

\* fs_list
Listing(t, dir) == {i \in Slots \ {dir} : t[i].used /\ t[i].parent = dir}

\* fs_check_access
Allowed(t, n, uid, rights) ==
  /\ Live(t, n)
  /\ \/ rights = {} \/ uid = Super
     \/ rights \subseteq
          (IF uid = t[n].owner THEN t[n].mode.owner ELSE t[n].mode.other)

------------------------------------------------------------------------------
(* Changing the table.  An operation that fails leaves it alone. *)

\* alloc_node takes the lowest slot that is free; never slot 0, the root.
FreeSlots(t) == {i \in Slots \ {0} : ~t[i].used}
AllocNode(t) == Min(FreeSlots(t))

\* Mutant: the directory is not searched for an entry of that name.
CreateBlind(t, cwd, path, isDir, owner, mode) ==
  LET home == HomeOf(t, cwd, path)
      slot == AllocNode(t)
  IN  IF home # Fail /\ FreeSlots(t) # {}
      THEN [t EXCEPT ![slot] =
             [used |-> TRUE, isDir |-> isDir, parent |-> home, name |-> Last(path),
              owner |-> owner, mode |-> mode, data |-> Nul]]
      ELSE t

\* fs_mkdir_as and fs_touch_as.  An entry of that name and kind is left as it is.
Create(t, cwd, path, isDir, owner, mode) ==
  LET home == HomeOf(t, cwd, path)
      slot == AllocNode(t)
  IN  IF home # Fail /\ Named(t, home, Last(path)) = {}
         /\ FreeSlots(t) # {} /\ slot \in FreeSlots(t)
      THEN [t EXCEPT ![slot] =
             [used |-> TRUE, isDir |-> isDir, parent |-> home, name |-> Last(path),
              owner |-> owner, mode |-> mode, data |-> Nul]]
      ELSE t

\* Whether it returns 0.
Creates(t, cwd, path, isDir) ==
  LET home == HomeOf(t, cwd, path)
      old  == Find(t, home, Last(path))
  IN  home # Fail /\ IF old = Fail THEN FreeSlots(t) # {} ELSE t[old].isDir = isDir

Touch(t, cwd, path) == Create(t, cwd, path, FALSE, Super, FileMode)    \* fs_touch

\* fs_write_file: the file is made if the path leads nowhere, and filled.  What
\* is written into a free slot is never seen again.
Opened(t, cwd, path) ==
  IF Resolve(t, cwd, path) = Fail THEN Touch(t, cwd, path) ELSE t
Fill(t, n, text) ==
  IF Live(t, n) /\ ~t[n].isDir THEN [t EXCEPT ![n].data = text] ELSE t

Write(t, cwd, path, text) ==
  LET u == Opened(t, cwd, path)
      n == Resolve(u, cwd, path)
  IN  Fill(u, n, text)

\* fs_read_file
Reads(t, cwd, path) ==
  LET n == Resolve(t, cwd, path) IN n # Fail /\ ~t[n].isDir

\* Mutant: a directory need not be empty.
RemoveFull(t, cwd, path) ==
  LET n == Resolve(t, cwd, path)
  IN  IF n \in Slots \ {0}
      THEN [t EXCEPT ![n] = [Vacant EXCEPT !.isDir = t[n].isDir, !.parent = t[n].parent]]
      ELSE t

\* fs_remove.  Only `used' is cleared.  Of what stays behind, the kind and the
\* parent can still be read through a current directory that was removed; the
\* rest is never read before alloc_node resets it.
RemoveNode(t, cwd, path) ==
  LET n == Resolve(t, cwd, path)
  IN  IF n \in Slots \ {0}
         /\ (t[n].isDir => \A i \in Slots : t[i].used => t[i].parent # n)
      THEN [t EXCEPT ![n] = [Vacant EXCEPT !.isDir = t[n].isDir, !.parent = t[n].parent]]
      ELSE t

SetMode(t, n, mode)   == IF Live(t, n) THEN [t EXCEPT ![n].mode = mode] ELSE t
SetOwner(t, n, owner) == IF Live(t, n) THEN [t EXCEPT ![n].owner = owner] ELSE t

------------------------------------------------------------------------------
(* Paths of nodes *)

\* The walk of fs_make_path towards the root, which stops there or after
\* FS_MAX_NODES steps.
Ancestors(t, n) ==
  LET up[d \in 0..MaxNodes] ==
        IF d = 0 THEN n
        ELSE LET below == up[d - 1] IN IF below = 0 THEN 0 ELSE t[below].parent
  IN  up

\* Mutant: the names are put together in the order they were collected.
NamesBackwards(t, n) ==
  LET up    == Ancestors(t, n)
      depth == Cardinality({d \in 0..(MaxNodes - 1) : up[d] # 0})
  IN  [i \in 1..depth |-> t[up[i - 1]].name]

\* The names on the way from the root to n, and the path made of them.
NamesTo(t, n) ==
  LET up    == Ancestors(t, n)
      depth == Cardinality({d \in 0..(MaxNodes - 1) : up[d] # 0})
  IN  [i \in 1..depth |-> t[up[depth - i]].name]
MakePath(t, n) == IF n = 0 THEN <<Nul, Nul>> ELSE <<Nul>> \o NamesTo(t, n)

------------------------------------------------------------------------------
(* On disk *)

\* fs_serialize stores every field; version 1 had neither owners nor modes.
Image(version, t) == [version |-> version, table |-> t]

\* Mutant: owners and modes are lost as if the image were of version 1.
DecodeAsOld(img) ==
  [i \in Slots |->
     IF i = 0 THEN [RootNode EXCEPT !.data = img.table[0].data]
     ELSE [img.table[i] EXCEPT !.owner = Super,
             !.mode = IF img.table[i].isDir THEN DirMode ELSE FileMode]]

\* What fs_deserialize copies.
Fields(img) ==
  [i \in Slots |->
     IF img.version = 2 THEN img.table[i]
     ELSE [img.table[i] EXCEPT !.owner = Super,
             !.mode = IF img.table[i].isDir THEN DirMode ELSE FileMode]]

\* The root must be a used directory, and is normalised.
Decodes(img) == IsLiveDir(img.table, 0)
Decode(img)  ==
  [i \in Slots |-> IF i = 0 THEN [RootNode EXCEPT !.data = img.table[0].data]
                   ELSE Fields(img)[i]]

------------------------------------------------------------------------------
(* What makes a table a tree *)

NodeType == [used : BOOLEAN, isDir : BOOLEAN, parent : Slots,
             name : Names \cup {Nul, "/"}, owner : Uids, mode : Modes,
             data : Texts \cup {Nul}]
Tables   == [Slots -> NodeType]

\* No directory has two entries of one name.
SiblingsDistinct(t) ==
  \A i, j \in Slots :
    t[i].used /\ t[j].used /\ t[i].parent = t[j].parent /\ t[i].name = t[j].name
      => i = j

\* Slot 0 is a directory named "/" that is its own parent.
RootIntact(t) == IsLiveDir(t, 0) /\ t[0].parent = 0 /\ t[0].name = "/"

\* Every other entry has a name that a path can hold.
ProperlyNamed(t) == \A i \in Slots \ {0} : t[i].used => t[i].name \in Names \ LongNames

\* Every node hangs from the root by directories in use.
Rooted(t) ==
  \A n \in Slots : t[n].used =>
    LET up == Ancestors(t, n)
    IN  up[MaxNodes] = 0 /\ \A d \in 1..MaxNodes : IsLiveDir(t, up[d])

\* No directory is named "." or "..": fs_resolve takes such a token for itself,
\* so mkdir finds it taken.  (nano makes files of those names.)
NoDotDirs(t) == \A i \in Slots : t[i].used /\ t[i].isDir => t[i].name \notin {".", ".."}

\* The names by which a token of a path reaches node n, and only n.
Addressable(t, n) ==
  Live(t, n) /\ {".", ".."} \cap Range(NamesTo(t, n)) = {}

\* What a tree shows of a node: of a file the content, of a directory nothing.
Shown(t, n) == IF t[n].isDir THEN <<>> ELSE <<t[n].data>>

\* The nodes as a tree of paths.  Entries made by the name "." or ".." are on
\* no path.
TreeOf(t) ==
  IF ~Rooted(t) THEN [p \in {} |-> <<>>]
  ELSE LET at == {m \in Slots : Addressable(t, m)}
       IN  [p \in {NamesTo(t, m) : m \in at} |->
              Shown(t, CHOOSE m \in at : NamesTo(t, m) = p)]
=============================================================================
