--------------------------- MODULE NodeTableProofs ---------------------------
(***************************************************************************)
(* What the operations of fs.c do to one table of nodes, whatever its size *)
(* and whatever the current directory they are called with, one that was   *)
(* removed included: the table keeps its shape, a path leads to a slot or  *)
(* nowhere, the path made for a node leads back to it, and the nodes, as   *)
(* long as they hang from the root, are a tree of paths in which one node  *)
(* more or less is one path more or less.                                  *)
(***************************************************************************)
EXTENDS NodeTable, FiniteSetTheorems, SequenceTheorems, WellFoundedInduction, TLAPS

------------------------------------------------------------------------------
(* Numbers *)

LEMMA HasLeast ==
  ASSUME NEW S \in SUBSET Nat, S # {}
  PROVE  \E m \in S : \A k \in S : m <= k
  <1> DEFINE R == OpToRel(<, Nat)
  <1>1. IsWellFoundedOn(R, Nat)
    BY NatLessThanWellFounded
  <1> HIDE DEF R
  <1>2. PICK m \in S : \A k \in S : ~(<<k, m>> \in R)
    BY <1>1, WFMin
  <1>3. \A k \in S : k \in Nat
    OBVIOUS
  <1>4. \A k \in S : <<k, m>> \in R <=> k < m
    BY <1>3 DEF R, OpToRel
  <1>5. \A k \in S : ~(k < m)
    BY <1>2, <1>4
  <1> QED BY <1>3, <1>5

\* A set that has 0, and of every number the next, has all of them.
LEMMA ReachesAll ==
  ASSUME NEW S, 0 \in S, \A n \in Nat : n \in S => n + 1 \in S
  PROVE  Nat \subseteq S
  <1> DEFINE B == Nat \ S
  <1> SUFFICES ASSUME B # {} PROVE FALSE
    OBVIOUS
  <1>1. PICK m \in B : \A k \in B : m <= k
    <2>1. B \in SUBSET Nat
      OBVIOUS
    <2> HIDE DEF B
    <2> QED BY <2>1, HasLeast
  <1>2. m # 0 /\ m \in Nat
    OBVIOUS
  <1>3. m - 1 \in Nat /\ m - 1 < m /\ (m - 1) + 1 = m
    BY <1>2
  <1>4. m - 1 \in S
    BY <1>1, <1>3
  <1> QED BY <1>3, <1>4

LEMMA LeastOf ==
  ASSUME NEW S \in SUBSET Nat, S # {}
  PROVE  Min(S) \in S /\ \A k \in S : Min(S) <= k
  BY HasLeast DEF Min

------------------------------------------------------------------------------
(* The operations keep a table sane *)

\* A neat table may be without a root, as the zeros of a cold start are.
Neat(t) == t \in Tables /\ SiblingsDistinct(t) /\ ProperlyNamed(t)
Sane(t) == Neat(t) /\ RootIntact(t)

\* What every operation does: its table is neat, and has the root that it had, or none.
Keeps(t, u) ==
  /\ Neat(u)
  /\ RootIntact(t) => RootIntact(u)
  /\ u[0].used = t[0].used

\* fs_init makes a sane table: the root alone (fs.c 159-167).
LEMMA FreshIsSane == Sane(FreshTable)
  <1>0. 0 \in Slots
    BY TableAssumption DEF Slots
  <1>1. FreshTable \in Tables
    <2>1. RootNode \in NodeType
      BY <1>0, TableAssumption DEF RootNode, NodeType
    <2>2. Vacant \in NodeType
      BY <1>0, TableAssumption DEF Vacant, NodeType
    <2> QED BY <2>1, <2>2 DEF FreshTable, Tables
  <1>2. SiblingsDistinct(FreshTable)
    BY DEF SiblingsDistinct, FreshTable, Vacant
  <1>3. RootIntact(FreshTable)
    BY TableAssumption DEF RootIntact, IsLiveDir, Live, FreshTable, RootNode, Slots
  <1>4. ProperlyNamed(FreshTable)
    BY DEF ProperlyNamed, FreshTable, Vacant
  <1> QED BY <1>1, <1>2, <1>3, <1>4 DEF Sane, Neat

\* A new entry goes into some slot of the table, under a valid name (99-157).
LEMMA HomeIsSlot ==
  ASSUME NEW t, NEW here \in Slots, NEW path \in PathType,
         HomeOf(t, here, path) # Fail
  PROVE  /\ HomeOf(t, here, path) \in Slots
         /\ Last(path) \in Names \ LongNames
  <1>1. path # <<>> /\ ValidName(Last(path))
    BY DEF HomeOf
  <1>2. Last(path) \in Names \ LongNames
    BY <1>1 DEF PathType, ValidName, Last
  <1>3. 0 \in Slots
    BY TableAssumption DEF Slots
  <1> QED BY <1>1, <1>2, <1>3 DEF HomeOf

\* Replacing one slot other than the root's by a node that shares its name with
\* no entry of its directory keeps the table neat.
LEMMA SlotReplaced ==
  ASSUME NEW t, Neat(t), NEW slot \in Slots \ {0},
         NEW node \in NodeType,
         node.used => /\ node.name \in Names \ LongNames
                      /\ \A i \in Slots \ {slot} :
                           ~(t[i].used /\ t[i].parent = node.parent /\ t[i].name = node.name)
  PROVE  Keeps(t, [t EXCEPT ![slot] = node])
  <1> DEFINE u == [t EXCEPT ![slot] = node]
  <1>1. u \in Tables
    BY DEF Neat, Tables
  <1>2. \A i \in Slots : u[i] = IF i = slot THEN node ELSE t[i]
    BY DEF Neat, Tables
  <1>3. SiblingsDistinct(u)
    BY <1>2 DEF Neat, SiblingsDistinct
  <1>4. RootIntact(t) => RootIntact(u)
    BY <1>2, TableAssumption DEF Neat, RootIntact, IsLiveDir, Live, Slots
  <1>5. ProperlyNamed(u)
    BY <1>2 DEF Neat, ProperlyNamed
  <1>6. u[0].used = t[0].used
    BY <1>2, TableAssumption DEF Slots
  <1> QED BY <1>1, <1>3, <1>4, <1>5, <1>6 DEF Neat, Keeps

\* fs_mkdir_as and fs_touch_as (298-358).
LEMMA CreateKeeps ==
  ASSUME NEW t, Neat(t), NEW here \in Slots, NEW path \in PathType,
         NEW isDir \in BOOLEAN, NEW owner \in Uids, NEW mode \in Modes
  PROVE  Keeps(t, Create(t, here, path, isDir, owner, mode))
  <1> DEFINE home == HomeOf(t, here, path)
             slot == AllocNode(t)
             node == [used |-> TRUE, isDir |-> isDir, parent |-> home,
                      name |-> Last(path), owner |-> owner, mode |-> mode,
                      data |-> Nul]
  <1>1. CASE home # Fail /\ Named(t, home, Last(path)) = {}
             /\ FreeSlots(t) # {} /\ slot \in FreeSlots(t)
    <2>1. slot \in Slots \ {0}
      BY <1>1 DEF FreeSlots
    <2>2. node \in NodeType
      BY <1>1, HomeIsSlot DEF NodeType
    <2>3. /\ node.name \in Names \ LongNames
          /\ \A i \in Slots : ~(t[i].used /\ t[i].parent = node.parent /\ t[i].name = node.name)
      BY <1>1, HomeIsSlot DEF Named
    <2>4. Create(t, here, path, isDir, owner, mode) = [t EXCEPT ![slot] = node]
      BY <1>1 DEF Create
    <2>5. Keeps(t, [t EXCEPT ![slot] = node])
      <3> HIDE DEF node, slot
      <3> QED BY <2>1, <2>2, <2>3, SlotReplaced
    <2> QED BY <2>4, <2>5
  <1>2. CASE ~(home # Fail /\ Named(t, home, Last(path)) = {}
               /\ FreeSlots(t) # {} /\ slot \in FreeSlots(t))
    BY <1>2 DEF Create, Keeps
  <1> QED BY <1>1, <1>2

\* fs_touch (360-362).
LEMMA TouchKeeps ==
  ASSUME NEW t, Neat(t), NEW here \in Slots, NEW path \in PathType
  PROVE  Keeps(t, Touch(t, here, path))
  BY CreateKeeps, TableAssumption DEF Touch

\* Changing what neither names nor places a node keeps the table neat: the
\* content, the owner and the mode.
LEMMA FieldChanged ==
  ASSUME NEW t, Neat(t), NEW u \in Tables,
         \A i \in Slots : /\ u[i].used = t[i].used /\ u[i].isDir = t[i].isDir
                          /\ u[i].parent = t[i].parent /\ u[i].name = t[i].name
  PROVE  Keeps(t, u)
  <1>1. SiblingsDistinct(u)
    BY DEF Neat, SiblingsDistinct
  <1>2. RootIntact(t) => RootIntact(u)
    BY DEF Neat, RootIntact, IsLiveDir, Live
  <1>3. ProperlyNamed(u)
    BY DEF Neat, ProperlyNamed
  <1>4. u[0].used = t[0].used
    BY TableAssumption DEF Slots
  <1> QED BY <1>1, <1>2, <1>3, <1>4 DEF Neat, Keeps

\* fs_write_file (400-424), which creates the file it does not find.
LEMMA WriteKeeps ==
  ASSUME NEW t, Neat(t), NEW here \in Slots, NEW path \in PathType,
         NEW text \in Texts \cup {Nul}
  PROVE  Keeps(t, Write(t, here, path, text))
  <1> DEFINE u == Opened(t, here, path)
             n == Resolve(u, here, path)
             v == [u EXCEPT ![n].data = text]
  <1>1. Keeps(t, u)
    BY TouchKeeps DEF Opened, Keeps
  <1>2. CASE Live(u, n) /\ ~u[n].isDir
    <2>1. n \in Slots
      BY <1>2 DEF Live
    <2>2. Write(t, here, path, text) = v
      BY <1>2 DEF Write, Fill
    <2> HIDE DEF u, n
    <2>3. v \in Tables
      BY <1>1, <2>1 DEF Keeps, Neat, Tables, NodeType
    <2>4. \A i \in Slots : /\ v[i].used = u[i].used /\ v[i].isDir = u[i].isDir
                           /\ v[i].parent = u[i].parent /\ v[i].name = u[i].name
      BY <1>1, <2>1 DEF Keeps, Neat, Tables, NodeType
    <2>5. Keeps(u, v)
      <3> HIDE DEF v
      <3> QED BY <1>1, <2>3, <2>4, FieldChanged DEF Keeps
    <2> QED BY <1>1, <2>2, <2>5 DEF Keeps
  <1>3. CASE ~(Live(u, n) /\ ~u[n].isDir)
    BY <1>1, <1>3 DEF Write, Fill
  <1> QED BY <1>2, <1>3

\* fs_set_mode and fs_set_owner (208-222).
LEMMA SettersAreSane ==
  ASSUME NEW t, Sane(t), NEW n, NEW mode \in Modes, NEW owner \in Uids
  PROVE  Sane(SetMode(t, n, mode)) /\ Sane(SetOwner(t, n, owner))
  <1>1. CASE Live(t, n)
    <2> DEFINE u == [t EXCEPT ![n].mode = mode]
               v == [t EXCEPT ![n].owner = owner]
    <2>1. n \in Slots
      BY <1>1 DEF Live
    <2>2. u \in Tables /\ v \in Tables
      BY <2>1 DEF Sane, Neat, Tables, NodeType
    <2>3. \A i \in Slots : /\ u[i].used = t[i].used /\ u[i].isDir = t[i].isDir
                           /\ u[i].parent = t[i].parent /\ u[i].name = t[i].name
                           /\ v[i].used = t[i].used /\ v[i].isDir = t[i].isDir
                           /\ v[i].parent = t[i].parent /\ v[i].name = t[i].name
      BY <2>1 DEF Sane, Neat, Tables, NodeType
    <2>4. Sane(u) /\ Sane(v)
      <3> HIDE DEF u, v
      <3> QED BY <2>2, <2>3, FieldChanged DEF Sane, Keeps
    <2> QED BY <1>1, <2>4 DEF SetMode, SetOwner
  <1>2. CASE ~Live(t, n)
    BY <1>2 DEF SetMode, SetOwner
  <1> QED BY <1>1, <1>2

\* fs_remove (426-444): never slot 0.
LEMMA RemoveIsSane ==
  ASSUME NEW t, Sane(t), NEW here, NEW path
  PROVE  Sane(RemoveNode(t, here, path))
  <1> DEFINE n == Resolve(t, here, path)
             empty == t[n].isDir => \A i \in Slots : t[i].used => t[i].parent # n
             node == [Vacant EXCEPT !.isDir = t[n].isDir, !.parent = t[n].parent]
  <1>1. CASE n \in Slots \ {0} /\ empty
    <2>1. t[n] \in NodeType
      BY <1>1 DEF Sane, Neat, Tables
    <2>2. node.used = FALSE
      BY DEF Vacant
    <2>3. node \in NodeType
      BY <2>1, TableAssumption DEF Vacant, NodeType
    <2>4. RemoveNode(t, here, path) = [t EXCEPT ![n] = node]
      BY <1>1 DEF RemoveNode
    <2>5. Sane([t EXCEPT ![n] = node])
      <3> HIDE DEF n, node
      <3> QED BY <1>1, <2>2, <2>3, SlotReplaced DEF Sane, Keeps
    <2> QED BY <2>4, <2>5
  <1>2. CASE ~(n \in Slots \ {0} /\ empty)
    BY <1>2 DEF RemoveNode
  <1> QED BY <1>1, <1>2

\* fs_deserialize (533-621) of what fs_serialize stored, or an older release.
LEMMA DecodeIsSane ==
  ASSUME NEW img \in [version : {1, 2}, table : Tables], Sane(img.table)
  PROVE  Sane(Decode(img))
  <1> DEFINE t == img.table
             u == Decode(img)
  <1>1. \A i \in Slots : t[i] \in NodeType
    BY DEF Tables
  <1>2. 0 \in Slots /\ t[0].used /\ t[0].isDir /\ t[0].parent = 0 /\ t[0].name = "/"
    BY DEF Sane, Neat, RootIntact, IsLiveDir, Live
  <1>3. ASSUME NEW i \in Slots
        PROVE  /\ u[i].used = t[i].used /\ u[i].isDir = t[i].isDir
               /\ u[i].parent = t[i].parent /\ u[i].name = t[i].name
               /\ u[i] \in NodeType
    <2>1. CASE i = 0
      <3>1. u[i] = [RootNode EXCEPT !.data = t[0].data]
        BY <2>1 DEF Decode, Fields
      <3>2. u[i] \in NodeType
        <4>1. t[0].data \in Texts \cup {Nul}
          BY <1>1, <1>2 DEF NodeType
        <4>2. RootNode \in NodeType
          BY <1>2, TableAssumption DEF RootNode, NodeType
        <4> QED BY <3>1, <4>1, <4>2 DEF NodeType
      <3> HIDE DEF u
      <3> QED BY <3>1, <3>2, <2>1, <1>2 DEF RootNode
    <2>2. CASE i # 0 /\ img.version = 2
      BY <2>2, <1>1 DEF Decode, Fields
    <2>3. CASE i # 0 /\ img.version # 2
      <3>1. PICK mode \in Modes : u[i] = [t[i] EXCEPT !.owner = Super, !.mode = mode]
        BY <2>3, TableAssumption DEF Decode, Fields
      <3> HIDE DEF u
      <3> QED BY <3>1, <1>1, TableAssumption DEF NodeType
    <2> QED BY <2>1, <2>2, <2>3
  <1>4. u \in Tables
    BY <1>3 DEF Decode, Fields, Tables
  <1>5. Sane(u)
    <2> HIDE DEF u
    <2> QED BY <1>3, <1>4, FieldChanged DEF Sane, Keeps
  <1> QED BY <1>5

------------------------------------------------------------------------------
(* Where a path leads (fs_resolve, 250-296) *)

\* The walk along a path is what its definition says, token by token.
LEMMA StepsAre ==
  ASSUME NEW t, NEW cwd, NEW path, Len(path) \in Nat
  PROVE  Steps(t, cwd, path) =
           [i \in 0..Len(path) |->
              IF i = 0 THEN Origin(cwd, path)
              ELSE Walk(t, Steps(t, cwd, path)[i - 1], path[i])]
  <1> DEFINE Begins(f, n) ==
               f = [i \in 0..n |-> IF i = 0 THEN Origin(cwd, path)
                                   ELSE Walk(t, f[i - 1], path[i])]
             S == {n \in Nat : \E f : Begins(f, n)}
  <1>1. 0 \in S
    <2> DEFINE f == [i \in 0..0 |-> Origin(cwd, path)]
    <2>1. Begins(f, 0)
      OBVIOUS
    <2> QED BY <2>1
  <1>2. ASSUME NEW n \in Nat, n \in S PROVE n + 1 \in S
    <2>1. PICK f : Begins(f, n)
      BY <1>2
    <2> DEFINE g == [i \in 0..(n + 1) |-> IF i = n + 1 THEN Walk(t, f[n], path[n + 1])
                                          ELSE f[i]]
    <2>2. \A i \in 0..n : g[i] = f[i]
      OBVIOUS
    <2>3. \A i \in 0..(n + 1) :
            g[i] = IF i = 0 THEN Origin(cwd, path) ELSE Walk(t, g[i - 1], path[i])
      <3> TAKE i \in 0..(n + 1)
      <3>1. CASE i = n + 1
        BY <3>1, <2>2
      <3>2. CASE i # n + 1
        <4>1. i \in 0..n
          BY <3>2
        <4>2. f[i] = IF i = 0 THEN Origin(cwd, path) ELSE Walk(t, f[i - 1], path[i])
          BY <2>1, <4>1
        <4>3. i # 0 => i - 1 \in 0..n
          BY <4>1
        <4> HIDE DEF g
        <4> QED BY <2>2, <4>1, <4>2, <4>3
      <3> QED BY <3>1, <3>2
    <2>4. Begins(g, n + 1)
      <3>1. g = [i \in 0..(n + 1) |-> g[i]]
        OBVIOUS
      <3> HIDE DEF g
      <3> QED BY <2>3, <3>1
    <2> HIDE DEF Begins
    <2> QED BY <2>4
  <1>3. \E f : Begins(f, Len(path))
    <2> HIDE DEF Begins
    <2>1. Nat \subseteq S
      <3> HIDE DEF S
      <3> QED BY <1>1, <1>2, ReachesAll
    <2> QED BY <2>1
  <1> QED BY <1>3 DEF Steps

\* The walk starts at the origin and takes one token after the other.
LEMMA StepsAlong ==
  ASSUME NEW t, NEW cwd, NEW path, Len(path) \in Nat
  PROVE  /\ Steps(t, cwd, path)[0] = Origin(cwd, path)
         /\ \A i \in 1..Len(path) :
              Steps(t, cwd, path)[i] = Walk(t, Steps(t, cwd, path)[i - 1], path[i])
  BY StepsAre

\* One token leads to a slot or nowhere.
LEMMA WalkStays ==
  ASSUME NEW t \in Tables, NEW at \in Slots \cup {Fail}, NEW token
  PROVE  Walk(t, at, token) \in Slots \cup {Fail}
  <1>1. Find(t, at, token) \in Slots \cup {Fail}
    <2>1. Named(t, at, token) \in SUBSET Nat /\ Named(t, at, token) \subseteq Slots
      BY TableAssumption DEF Named, Slots
    <2> QED BY <2>1, LeastOf DEF Find
  <1>2. at # Fail => t[at].parent \in Slots
    BY DEF Tables, NodeType
  <1>3. 0 \in Slots
    BY TableAssumption DEF Slots
  <1> QED BY <1>1, <1>2, <1>3 DEF Walk

\* A path leads to a slot or nowhere, whatever the table: fs.c never asks for
\* more than that before it indexes with the result (278, 370, 405).
LEMMA ResolveStays ==
  ASSUME NEW t \in Tables, NEW cwd \in Slots, NEW path, Len(path) \in Nat
  PROVE  Resolve(t, cwd, path) \in Slots \cup {Fail}
  <1> DEFINE at == Steps(t, cwd, path)
             S  == {n \in Nat : n <= Len(path) => at[n] \in Slots \cup {Fail}}
  <1>1. 0 \in S
    <2>1. at[0] = Origin(cwd, path)
      BY StepsAlong
    <2>2. at[0] \in Slots
      BY <2>1, TableAssumption DEF Origin, Slots
    <2> QED BY <2>2
  <1>2. ASSUME NEW n \in Nat, n \in S PROVE n + 1 \in S
    <2> SUFFICES ASSUME n + 1 <= Len(path) PROVE at[n + 1] \in Slots \cup {Fail}
      OBVIOUS
    <2>1. at[n] \in Slots \cup {Fail}
      BY <1>2
    <2>2. n + 1 \in 1..Len(path) /\ (n + 1) - 1 = n
      OBVIOUS
    <2>3. at[n + 1] = Walk(t, at[n], path[n + 1])
      BY <2>2, StepsAlong
    <2> QED BY <2>1, <2>3, WalkStays
  <1>3. Len(path) \in S
    <2> HIDE DEF S
    <2> QED BY <1>1, <1>2, ReachesAll
  <1> QED BY <1>3 DEF Resolve

\* Short paths, as the desktop and the installer use them.
LEMMA ResolveOne ==
  ASSUME NEW t, NEW cwd, NEW a
  PROVE  Resolve(t, cwd, <<a>>) = Walk(t, cwd, a)
  <1> DEFINE path == <<a>>
  <1>1. Len(path) = 1 /\ path[1] = a
    OBVIOUS
  <1>2. Origin(cwd, path) = cwd
    BY <1>1 DEF Origin, IsAbsolute
  <1> HIDE DEF path
  <1>3. Steps(t, cwd, path)[0] = cwd
    BY <1>1, <1>2, StepsAlong
  <1>4. 1 \in 1..Len(path) /\ 1 - 1 = 0
    BY <1>1
  <1>5. Steps(t, cwd, path)[1] = Walk(t, cwd, a)
    BY <1>1, <1>3, <1>4, StepsAlong
  <1> QED BY <1>1, <1>5 DEF Resolve, path

LEMMA ResolveTwo ==
  ASSUME NEW t, NEW cwd, NEW a, NEW b, a # Nul
  PROVE  Resolve(t, cwd, <<a, b>>) = Walk(t, Walk(t, cwd, a), b)
  <1> DEFINE path == <<a, b>>
  <1>1. Len(path) = 2 /\ path[1] = a /\ path[2] = b
    OBVIOUS
  <1>2. Origin(cwd, path) = cwd
    BY <1>1 DEF Origin, IsAbsolute
  <1> HIDE DEF path
  <1>3. Steps(t, cwd, path)[0] = cwd
    BY <1>1, <1>2, StepsAlong
  <1>4. /\ 1 \in 1..Len(path) /\ 1 - 1 = 0
        /\ 2 \in 1..Len(path) /\ 2 - 1 = 1
    BY <1>1
  <1>5. Steps(t, cwd, path)[1] = Walk(t, cwd, a)
    BY <1>1, <1>3, <1>4, StepsAlong
  <1>6. Steps(t, cwd, path)[2] = Walk(t, Walk(t, cwd, a), b)
    BY <1>1, <1>4, <1>5, StepsAlong
  <1> QED BY <1>1, <1>6 DEF Resolve, path

\* The entry of that name and directory, if the table is sane, is the one found.
LEMMA FindIs ==
  ASSUME NEW t, SiblingsDistinct(t), NEW n \in Slots, t[n].used
  PROVE  Find(t, t[n].parent, t[n].name) = n
  <1> DEFINE S == Named(t, t[n].parent, t[n].name)
  <1>1. S = {n}
    BY DEF Named, SiblingsDistinct
  <1>2. n \in Nat
    BY TableAssumption DEF Slots
  <1>3. Min({n}) = n
    <2>1. {n} \in SUBSET Nat /\ {n} # {}
      BY <1>2
    <2> QED BY <2>1, LeastOf
  <1> QED BY <1>1, <1>3 DEF Find

\* What is found is a node in use, of that name and in that directory.
LEMMA FoundIs ==
  ASSUME NEW t, NEW p, NEW name, Find(t, p, name) # Fail
  PROVE  /\ Find(t, p, name) \in Slots
         /\ t[Find(t, p, name)].used
         /\ t[Find(t, p, name)].name = name
         /\ t[Find(t, p, name)].parent = p
  <1>1. Named(t, p, name) \in SUBSET Nat
    BY TableAssumption DEF Named, Slots
  <1>2. Find(t, p, name) \in Named(t, p, name)
    BY <1>1, LeastOf DEF Find
  <1> QED BY <1>2 DEF Named

LEMMA NotFound ==
  ASSUME NEW t, NEW p, NEW name
  PROVE  Find(t, p, name) = Fail <=> Named(t, p, name) = {}
  <1>1. Named(t, p, name) \in SUBSET Nat
    BY TableAssumption DEF Named, Slots
  <1>2. CASE Named(t, p, name) # {}
    <2>1. Find(t, p, name) \in Nat
      BY <1>1, <1>2, LeastOf DEF Find
    <2> QED BY <1>2, <2>1 DEF Fail
  <1>3. CASE Named(t, p, name) = {}
    BY <1>3 DEF Find
  <1> QED BY <1>2, <1>3

------------------------------------------------------------------------------
(* The path of a node (fs_make_path, 458-494) *)

\* The walk to the root is what its definition says, step by step.
LEMMA AncestorsAre ==
  ASSUME NEW t, NEW n
  PROVE  Ancestors(t, n) =
           [d \in 0..MaxNodes |->
              IF d = 0 THEN n
              ELSE IF Ancestors(t, n)[d - 1] = 0 THEN 0
                   ELSE t[Ancestors(t, n)[d - 1]].parent]
  <1> DEFINE Begins(f, m) ==
               f = [d \in 0..m |-> IF d = 0 THEN n
                                   ELSE IF f[d - 1] = 0 THEN 0 ELSE t[f[d - 1]].parent]
             S == {m \in Nat : \E f : Begins(f, m)}
  <1>1. 0 \in S
    <2> DEFINE f == [d \in 0..0 |-> n]
    <2>1. Begins(f, 0)
      OBVIOUS
    <2> QED BY <2>1
  <1>2. ASSUME NEW m \in Nat, m \in S PROVE m + 1 \in S
    <2>1. PICK f : Begins(f, m)
      BY <1>2
    <2> DEFINE g == [d \in 0..(m + 1) |->
                       IF d = m + 1 THEN (IF f[m] = 0 THEN 0 ELSE t[f[m]].parent) ELSE f[d]]
    <2>2. \A d \in 0..m : g[d] = f[d]
      OBVIOUS
    <2>3. \A d \in 0..(m + 1) :
            g[d] = IF d = 0 THEN n ELSE IF g[d - 1] = 0 THEN 0 ELSE t[g[d - 1]].parent
      <3> TAKE d \in 0..(m + 1)
      <3>1. CASE d = m + 1
        BY <3>1, <2>2
      <3>2. CASE d # m + 1
        <4>1. d \in 0..m
          BY <3>2
        <4>2. f[d] = IF d = 0 THEN n ELSE IF f[d - 1] = 0 THEN 0 ELSE t[f[d - 1]].parent
          BY <2>1, <4>1
        <4>3. d # 0 => d - 1 \in 0..m
          BY <4>1
        <4> HIDE DEF g
        <4> QED BY <2>2, <4>1, <4>2, <4>3
      <3> QED BY <3>1, <3>2
    <2>4. Begins(g, m + 1)
      <3>1. g = [d \in 0..(m + 1) |-> g[d]]
        OBVIOUS
      <3> HIDE DEF g
      <3> QED BY <2>3, <3>1
    <2> HIDE DEF Begins
    <2> QED BY <2>4
  <1>3. \E f : Begins(f, MaxNodes)
    <2> HIDE DEF Begins
    <2>1. Nat \subseteq S
      <3> HIDE DEF S
      <3> QED BY <1>1, <1>2, ReachesAll
    <2> QED BY <2>1, TableAssumption
  <1> QED BY <1>3 DEF Ancestors

LEMMA AncestorsAlong ==
  ASSUME NEW t, NEW n
  PROVE  /\ Ancestors(t, n)[0] = n
         /\ \A d \in 0..(MaxNodes - 1) :
              Ancestors(t, n)[d + 1] =
                IF Ancestors(t, n)[d] = 0 THEN 0 ELSE t[Ancestors(t, n)[d]].parent
  <1> DEFINE up == Ancestors(t, n)
  <1>1. up = [d \in 0..MaxNodes |-> IF d = 0 THEN n
                                    ELSE IF up[d - 1] = 0 THEN 0 ELSE t[up[d - 1]].parent]
    BY AncestorsAre
  <1> HIDE DEF up
  <1>2. up[0] = n
    BY <1>1, TableAssumption
  <1>3. ASSUME NEW d \in 0..(MaxNodes - 1)
        PROVE  up[d + 1] = IF up[d] = 0 THEN 0 ELSE t[up[d]].parent
    <2>1. d + 1 \in 0..MaxNodes /\ d + 1 # 0 /\ (d + 1) - 1 = d
      BY TableAssumption
    <2> QED BY <1>1, <2>1
  <1> QED BY <1>2, <1>3 DEF up

\* A node that the root is above of has a depth: it is the number of steps to the
\* root, and of names in the path.
Depth(t, n) == Len(NamesTo(t, n))

LEMMA DepthIs ==
  ASSUME NEW t, NEW n, Ancestors(t, n)[MaxNodes] = 0
  PROVE  /\ Depth(t, n) \in 0..MaxNodes
         /\ Ancestors(t, n)[Depth(t, n)] = 0
         /\ \A d \in 0..(Depth(t, n) - 1) : Ancestors(t, n)[d] # 0
         /\ NamesTo(t, n) = [i \in 1..Depth(t, n) |->
                               t[Ancestors(t, n)[Depth(t, n) - i]].name]
  <1> DEFINE up == Ancestors(t, n)
             Z == {d \in 0..MaxNodes : up[d] = 0}
             A == {d \in 0..(MaxNodes - 1) : up[d] # 0}
  <1>0. MaxNodes \in Nat \ {0}
    BY TableAssumption
  <1>1. PICK D \in Z : \A d \in Z : D <= d
    <2>1. Z \in SUBSET Nat /\ Z # {}
      BY <1>0
    <2> HIDE DEF Z
    <2> QED BY <2>1, HasLeast
  <1>2. D \in 0..MaxNodes /\ up[D] = 0
    OBVIOUS
  <1>3. \A d \in 0..(D - 1) : up[d] # 0
    <2> TAKE d \in 0..(D - 1)
    <2>1. d \in 0..MaxNodes /\ ~(D <= d)
      BY <1>0, <1>2
    <2> QED BY <1>1, <2>1
  <1>4. \A d \in D..MaxNodes : up[d] = 0
    <2> DEFINE S == {k \in Nat : D + k <= MaxNodes => up[D + k] = 0}
    <2>1. 0 \in S
      BY <1>2
    <2>2. ASSUME NEW k \in Nat, k \in S PROVE k + 1 \in S
      <3> SUFFICES ASSUME D + (k + 1) <= MaxNodes PROVE up[D + (k + 1)] = 0
        OBVIOUS
      <3>1. D + k \in 0..(MaxNodes - 1) /\ (D + k) + 1 = D + (k + 1) /\ D + k <= MaxNodes
        BY <1>0, <1>2
      <3>2. up[D + k] = 0
        BY <2>2, <3>1
      <3> QED BY <3>1, <3>2, AncestorsAlong
    <2>3. Nat \subseteq S
      <3> HIDE DEF S
      <3> QED BY <2>1, <2>2, ReachesAll
    <2> TAKE d \in D..MaxNodes
    <2>4. d - D \in Nat /\ D + (d - D) = d /\ d <= MaxNodes
      BY <1>0, <1>2
    <2>5. d - D \in S
      BY <2>3, <2>4
    <2> QED BY <2>4, <2>5
  <1>5. A = 0..(D - 1)
    <2>1. \A d \in A : d \in 0..(D - 1)
      <3> TAKE d \in A
      <3>1. d \in 0..(MaxNodes - 1) /\ up[d] # 0
        OBVIOUS
      <3>2. ~(d \in D..MaxNodes)
        BY <1>4, <3>1
      <3> QED BY <1>0, <1>2, <3>1, <3>2
    <2>2. \A d \in 0..(D - 1) : d \in A
      BY <1>0, <1>2, <1>3
    <2> QED BY <2>1, <2>2
  <1>6. Cardinality(A) = D
    <2>1. Cardinality(0..(D - 1)) = D
      BY <1>2, FS_Interval
    <2> QED BY <1>5, <2>1
  <1>7. NamesTo(t, n) = [i \in 1..D |-> t[up[D - i]].name]
    BY <1>6 DEF NamesTo
  <1>8. Depth(t, n) = D
    BY <1>2, <1>7 DEF Depth
  <1> QED BY <1>2, <1>3, <1>7, <1>8

\* The path that fs_make_path builds for a node leads fs_resolve back to the node,
\* from anywhere, if the node hangs from the root and no name above it is special.
LEMMA PathLeadsBack ==
  ASSUME NEW t, Neat(t), NEW n \in Slots, t[n].used,
         Ancestors(t, n)[MaxNodes] = 0,
         \A d \in 1..MaxNodes : t[Ancestors(t, n)[d]].used /\ Ancestors(t, n)[d] \in Slots,
         {".", ".."} \cap Range(NamesTo(t, n)) = {},
         NEW from
  PROVE  Resolve(t, from, MakePath(t, n)) = n
  <1> DEFINE up    == Ancestors(t, n)
             names == NamesTo(t, n)
             D     == Depth(t, n)
             path  == MakePath(t, n)
             at    == Steps(t, from, path)
  <1>0. MaxNodes \in Nat \ {0}
    BY TableAssumption
  <1>1. CASE n = 0
    <2>1. path = <<Nul, Nul>>
      BY <1>1 DEF MakePath
    <2>2. Len(path) = 2 /\ path[1] = Nul /\ path[2] = Nul
      BY <2>1
    <2>3. Origin(from, path) = 0
      BY <2>2 DEF Origin, IsAbsolute
    <2> HIDE DEF path
    <2>4. 1 \in 1..Len(path) /\ 1 - 1 = 0 /\ 2 \in 1..Len(path) /\ 2 - 1 = 1
      BY <2>2
    <2>5. at[0] = 0 /\ at[1] = Walk(t, at[0], Nul) /\ at[2] = Walk(t, at[1], Nul)
      BY <2>2, <2>3, <2>4, StepsAlong
    <2>6. at[2] = 0
      BY <2>5 DEF Walk
    <2> QED BY <1>1, <2>2, <2>6 DEF Resolve, path
  <1>2. CASE n # 0
    <2>1. /\ D \in 0..MaxNodes /\ up[D] = 0 /\ up[0] = n
          /\ \A d \in 0..(D - 1) : up[d] # 0
          /\ names = [i \in 1..D |-> t[up[D - i]].name]
      BY DepthIs, AncestorsAlong
    <2>2. D # 0
      BY <1>2, <2>1
    <2>3. path = <<Nul>> \o names
      BY <1>2 DEF MakePath
    <2>4. ASSUME NEW i \in 1..D PROVE names[i] \in Names \ LongNames
      <3>0. D \in 0..MaxNodes /\ i \in 1..D
        BY <2>1
      <3>1. D - i \in 0..(D - 1) /\ D - i \in 0..MaxNodes
        <4> HIDE DEF D
        <4> QED BY ONLY <3>0, <1>0
      <3>2. up[D - i] \in Slots /\ t[up[D - i]].used
        <4>1. CASE D - i = 0
          BY <2>1, <4>1
        <4>2. CASE D - i # 0
          BY <3>1, <4>2
        <4> QED BY <4>1, <4>2
      <3>3. up[D - i] # 0
        BY <2>1, <3>1
      <3>4. t[up[D - i]].name \in Names \ LongNames
        BY <3>2, <3>3 DEF Neat, ProperlyNamed
      <3> QED BY <2>1, <3>4
    <2>5. names \in Seq(Names) /\ Len(names) = D
      <3>1. D \in Nat /\ names = [i \in 1..D |-> names[i]]
        BY <2>1
      <3> HIDE DEF names, D
      <3>2. names \in [1..D -> Names]
        BY <2>4, <3>1
      <3> QED BY <3>1, <3>2
    <2>6. /\ Len(path) = D + 1 /\ path[1] = Nul
          /\ \A i \in 1..D : path[i + 1] = names[i]
      <3> HIDE DEF names, D, path
      <3>1. <<Nul>> \in Seq(Names \cup {Nul}) /\ names \in Seq(Names \cup {Nul})
        BY <2>5
      <3>2. Len(path) = D + 1
        BY <2>1, <2>3, <2>5, <3>1
      <3> QED BY <2>1, <2>3, <2>5, <3>1, <3>2
    <2>7. at[0] = 0
      <3>1. Origin(from, path) = 0
        BY <2>1, <2>2, <2>6 DEF Origin, IsAbsolute
      <3> QED BY <2>1, <2>6, <3>1, StepsAlong
    <2> DEFINE S == {i \in Nat : i <= D => at[i + 1] = up[D - i]}
    <2>8. 0 \in S
      <3>1. 1 \in 1..Len(path) /\ 1 - 1 = 0
        BY <2>1, <2>6
      <3>2. at[1] = Walk(t, at[0], Nul)
        BY <2>1, <2>6, <3>1, StepsAlong
      <3>3. at[0 + 1] = 0
        BY <2>7, <3>2 DEF Walk
      <3>4. D - 0 = D
        BY <2>1
      <3> HIDE DEF at, D
      <3> QED BY <2>1, <3>3, <3>4
    <2>9. ASSUME NEW i \in Nat, i \in S PROVE i + 1 \in S
      <3> SUFFICES ASSUME i + 1 <= D PROVE at[(i + 1) + 1] = up[D - (i + 1)]
        OBVIOUS
      <3> DEFINE m == up[D - (i + 1)]
      <3>1. /\ i + 1 \in 1..D /\ D - (i + 1) \in 0..(D - 1) /\ D - (i + 1) \in 0..(MaxNodes - 1)
            /\ (D - (i + 1)) + 1 = D - i /\ i <= D
            /\ (i + 1) + 1 \in 1..Len(path) /\ ((i + 1) + 1) - 1 = i + 1
        BY <1>0, <2>1, <2>6
      <3>2. at[i + 1] = up[D - i]
        BY <2>9, <3>1
      <3>3. m # 0
        BY <2>1, <3>1
      <3>4. m \in Slots /\ t[m].used
        <4>1. CASE D - (i + 1) = 0
          BY <2>1, <4>1
        <4>2. CASE D - (i + 1) # 0
          <5>1. D - (i + 1) \in 1..MaxNodes
            BY <3>1, <4>2, <1>0
          <5> QED BY <5>1
        <4> QED BY <4>1, <4>2
      <3>5. up[D - i] = t[m].parent
        BY <3>1, <3>3, AncestorsAlong
      <3>6. names[i + 1] = t[m].name
        BY <2>1, <3>1
      <3>7. names[i + 1] \in Names \ LongNames /\ names[i + 1] \notin {".", "..", Nul}
        <4>1. names[i + 1] \in Range(names)
          BY <2>1, <3>1 DEF Range
        <4> QED BY <2>4, <3>1, <4>1, TableAssumption
      <3>8. at[(i + 1) + 1] = Walk(t, at[i + 1], names[i + 1])
        <4>1. path[(i + 1) + 1] = names[i + 1]
          BY <2>6, <3>1
        <4>2. at[(i + 1) + 1] = Walk(t, at[((i + 1) + 1) - 1], path[(i + 1) + 1])
          <5>1. \A j \in 1..Len(path) : at[j] = Walk(t, at[j - 1], path[j])
            <6>1. Len(path) \in Nat
              BY <2>1, <2>6
            <6> HIDE DEF path
            <6> QED BY <6>1, StepsAlong
          <5> HIDE DEF at, path
          <5> QED BY <3>1, <5>1
        <4> QED BY <3>1, <4>1, <4>2
      <3>9. t[m].parent # Fail
        <4>1. t[m].parent \in Slots
          BY <3>4 DEF Neat, Tables, NodeType
        <4> QED BY <4>1, TableAssumption DEF Slots, Fail
      <3> HIDE DEF at, up, names, m
      <3>10. at[(i + 1) + 1] = Find(t, t[m].parent, t[m].name)
        BY <3>2, <3>5, <3>6, <3>7, <3>8, <3>9 DEF Walk
      <3>11. Find(t, t[m].parent, t[m].name) = m
        BY <3>4, FindIs DEF Neat
      <3> QED BY <3>10, <3>11 DEF m
    <2>10. Nat \subseteq S
      <3> HIDE DEF S
      <3> QED BY <2>8, <2>9, ReachesAll
    <2>11. at[D + 1] = up[D - D]
      <3>1. D \in S
        BY <2>1, <2>10
      <3> QED BY <2>1, <3>1
    <2>12. at[Len(path)] = n
      <3>1. D - D = 0
        BY <2>1
      <3> HIDE DEF at, up, D
      <3> QED BY <2>1, <2>6, <2>11, <3>1
    <2>13. Resolve(t, from, MakePath(t, n)) = at[Len(path)]
      BY DEF Resolve
    <2> HIDE DEF at, path
    <2> QED BY <2>12, <2>13
  <1> QED BY <1>1, <1>2

\* The walk to the root meets no node twice: FS_MAX_NODES steps are always enough
\* for fs_make_path (463-472), also for an entry of the deepest directory.
LEMMA DepthIsSmall ==
  ASSUME NEW t, NEW n, Ancestors(t, n)[MaxNodes] = 0,
         \A d \in 0..MaxNodes : Ancestors(t, n)[d] \in Slots
  PROVE  Depth(t, n) \in 0..(MaxNodes - 1)
  <1> DEFINE up == Ancestors(t, n)
             D  == Depth(t, n)
  <1>0. MaxNodes \in Nat \ {0}
    BY TableAssumption
  <1>1. D \in 0..MaxNodes /\ up[D] = 0 /\ \A d \in 0..(D - 1) : up[d] # 0
    BY DepthIs
  <1> HIDE DEF D
  <1>2. \A x, y \in 0..(D - 1) : x < y => up[x] # up[y]
    <2> SUFFICES ASSUME NEW x \in 0..(D - 1), NEW y \in 0..(D - 1), x < y, up[x] = up[y]
                 PROVE  FALSE
      OBVIOUS
    <2> DEFINE S == {k \in Nat : y + k <= D => up[x + k] = up[y + k]}
    <2>1. 0 \in S
      BY <1>1
    <2>2. ASSUME NEW k \in Nat, k \in S PROVE k + 1 \in S
      <3> SUFFICES ASSUME y + (k + 1) <= D PROVE up[x + (k + 1)] = up[y + (k + 1)]
        OBVIOUS
      <3>1. /\ x + k \in 0..(MaxNodes - 1) /\ y + k \in 0..(MaxNodes - 1) /\ y + k <= D
            /\ (x + k) + 1 = x + (k + 1) /\ (y + k) + 1 = y + (k + 1)
        BY <1>0, <1>1
      <3>2. up[x + k] = up[y + k]
        BY <2>2, <3>1
      <3>3. up[(x + k) + 1] = IF up[x + k] = 0 THEN 0 ELSE t[up[x + k]].parent
        BY <3>1, AncestorsAlong
      <3>4. up[(y + k) + 1] = IF up[y + k] = 0 THEN 0 ELSE t[up[y + k]].parent
        BY <3>1, AncestorsAlong
      <3> HIDE DEF up
      <3> QED BY <3>1, <3>2, <3>3, <3>4
    <2>3. D - y \in Nat /\ y + (D - y) = D /\ x + (D - y) \in 0..(D - 1)
      BY <1>1
    <2>4. D - y \in S
      <3> HIDE DEF S
      <3> QED BY <2>1, <2>2, <2>3, ReachesAll
    <2>5. up[x + (D - y)] = up[D]
      BY <2>3, <2>4
    <2> HIDE DEF up
    <2> QED BY <1>1, <2>3, <2>5
  <1>3. ASSUME D = MaxNodes PROVE FALSE
    <2> DEFINE S == 0..(D - 1)
               T == 1..(MaxNodes - 1)
               f == [d \in S |-> up[d]]
    <2>1. IsFiniteSet(S) /\ Cardinality(S) = MaxNodes
      BY <1>0, <1>3, FS_Interval
    <2>2. IsFiniteSet(T) /\ Cardinality(T) = MaxNodes - 1
      <3>1. MaxNodes - 1 \in Int /\ (~(1 > MaxNodes - 1) \/ MaxNodes = 1)
        BY <1>0
      <3>2. /\ IsFiniteSet(T)
            /\ Cardinality(T) = IF 1 > MaxNodes - 1 THEN 0 ELSE (MaxNodes - 1) - 1 + 1
        <4>1. 1 \in Int /\ MaxNodes - 1 \in Int
          BY <1>0
        <4> QED BY <4>1, FS_Interval
      <3> HIDE DEF T
      <3> QED BY <1>0, <3>1, <3>2
    <2>3. f \in [S -> T]
      BY <1>0, <1>1, <1>3 DEF Slots
    <2>4. Cardinality(T) < Cardinality(S)
      BY <1>0, <2>1, <2>2
    <2>5. PICK x, y \in S : x # y /\ f[x] = f[y]
      <3> HIDE DEF S, T, f
      <3> QED BY <2>1, <2>2, <2>3, <2>4, FS_PigeonHole
    <2>6. up[x] = up[y] /\ (x < y \/ y < x)
      BY <1>1, <2>5
    <2> QED BY <1>2, <2>6
  <1> QED BY <1>0, <1>1, <1>3 DEF D

\* A directory in use that hangs from the root by directories in use.
Hangs(t, n) ==
  /\ Ancestors(t, n)[MaxNodes] = 0
  /\ \A d \in 0..MaxNodes : IsLiveDir(t, Ancestors(t, n)[d])

\* The walk from an entry goes through its directory.
LEMMA AncestorsAbove ==
  ASSUME NEW t, NEW n, n # 0
  PROVE  \A d \in 0..(MaxNodes - 1) :
           Ancestors(t, n)[d + 1] = Ancestors(t, t[n].parent)[d]
  <1> DEFINE up == Ancestors(t, n)
             over == Ancestors(t, t[n].parent)
             S == {d \in Nat : d < MaxNodes => up[d + 1] = over[d]}
  <1>0. MaxNodes \in Nat \ {0} /\ 0 \in 0..(MaxNodes - 1)
    BY TableAssumption
  <1>1. 0 \in S
    <2>1. over[0] = t[n].parent /\ up[0] = n
      BY AncestorsAlong
    <2>2. up[0 + 1] = IF up[0] = 0 THEN 0 ELSE t[up[0]].parent
      BY <1>0, AncestorsAlong
    <2> HIDE DEF up, over
    <2> QED BY <2>1, <2>2
  <1>2. ASSUME NEW d \in Nat, d \in S PROVE d + 1 \in S
    <2> SUFFICES ASSUME d + 1 < MaxNodes PROVE up[(d + 1) + 1] = over[d + 1]
      OBVIOUS
    <2>1. d \in 0..(MaxNodes - 1) /\ d + 1 \in 0..(MaxNodes - 1) /\ d < MaxNodes
      BY <1>0
    <2>2. up[d + 1] = over[d]
      BY <1>2, <2>1
    <2>3. up[(d + 1) + 1] = IF up[d + 1] = 0 THEN 0 ELSE t[up[d + 1]].parent
      BY <2>1, AncestorsAlong
    <2>4. over[d + 1] = IF over[d] = 0 THEN 0 ELSE t[over[d]].parent
      BY <2>1, AncestorsAlong
    <2> HIDE DEF up, over
    <2> QED BY <2>2, <2>3, <2>4
  <1>3. Nat \subseteq S
    <2> HIDE DEF S
    <2> QED BY <1>1, <1>2, ReachesAll
  <1> TAKE d \in 0..(MaxNodes - 1)
  <1>4. d \in Nat /\ d < MaxNodes
    BY <1>0
  <1> QED BY <1>3, <1>4

\* An entry of a directory that hangs from the root has the root above it too, and
\* only directories in use between.
LEMMA EntryHangs ==
  ASSUME NEW t, NEW n \in Slots, Hangs(t, t[n].parent) \/ (n = 0 /\ IsLiveDir(t, 0))
  PROVE  /\ Ancestors(t, n)[MaxNodes] = 0
         /\ \A d \in 1..MaxNodes : IsLiveDir(t, Ancestors(t, n)[d])
  <1> DEFINE up == Ancestors(t, n)
             over == Ancestors(t, t[n].parent)
  <1>0. MaxNodes \in Nat \ {0}
    BY TableAssumption
  <1>1. CASE n = 0 /\ IsLiveDir(t, 0)
    <2> DEFINE S == {d \in Nat : d <= MaxNodes => up[d] = 0}
    <2>1. 0 \in S
      BY <1>1, AncestorsAlong
    <2>2. ASSUME NEW d \in Nat, d \in S PROVE d + 1 \in S
      <3> SUFFICES ASSUME d + 1 <= MaxNodes PROVE up[d + 1] = 0
        OBVIOUS
      <3>1. d \in 0..(MaxNodes - 1) /\ d <= MaxNodes
        BY <1>0
      <3> QED BY <2>2, <3>1, AncestorsAlong
    <2>3. Nat \subseteq S
      <3> HIDE DEF S
      <3> QED BY <2>1, <2>2, ReachesAll
    <2>4. \A d \in 0..MaxNodes : up[d] = 0
      BY <1>0, <2>3
    <2> HIDE DEF up
    <2> QED BY <1>0, <1>1, <2>4 DEF up
  <1>2. CASE n # 0 /\ Hangs(t, t[n].parent)
    <2>1. over[MaxNodes] = 0 /\ \A d \in 0..MaxNodes : IsLiveDir(t, over[d])
      BY <1>2 DEF Hangs
    <2>2. Depth(t, t[n].parent) \in 0..(MaxNodes - 1)
      BY <2>1, DepthIsSmall DEF IsLiveDir, Live
    <2>3. over[Depth(t, t[n].parent)] = 0
      BY <2>1, DepthIs
    <2>4. over[MaxNodes - 1] = 0
      <3> DEFINE D == Depth(t, t[n].parent)
                 S == {k \in Nat : D + k <= MaxNodes => over[D + k] = 0}
      <3> HIDE DEF D
      <3>1. 0 \in S
        BY <2>2, <2>3 DEF D
      <3>2. ASSUME NEW k \in Nat, k \in S PROVE k + 1 \in S
        <4> SUFFICES ASSUME D + (k + 1) <= MaxNodes PROVE over[D + (k + 1)] = 0
          OBVIOUS
        <4>1. D + k \in 0..(MaxNodes - 1) /\ (D + k) + 1 = D + (k + 1) /\ D + k <= MaxNodes
          BY <1>0, <2>2 DEF D
        <4>2. over[(D + k) + 1] = IF over[D + k] = 0 THEN 0 ELSE t[over[D + k]].parent
          BY <4>1, AncestorsAlong
        <4> HIDE DEF over
        <4> QED BY <3>2, <4>1, <4>2
      <3>3. /\ (MaxNodes - 1) - D \in Nat /\ D + ((MaxNodes - 1) - D) = MaxNodes - 1
            /\ MaxNodes - 1 <= MaxNodes
        BY <1>0, <2>2 DEF D
      <3>4. (MaxNodes - 1) - D \in S
        <4> HIDE DEF S
        <4> QED BY <3>1, <3>2, <3>3, ReachesAll
      <3> QED BY <3>3, <3>4
    <2>5. \A d \in 0..(MaxNodes - 1) : up[d + 1] = over[d]
      BY <1>2, AncestorsAbove
    <2> HIDE DEF up, over
    <2>6. up[MaxNodes] = 0
      <3>1. MaxNodes - 1 \in 0..(MaxNodes - 1) /\ (MaxNodes - 1) + 1 = MaxNodes
        BY <1>0
      <3> QED BY <2>4, <2>5, <3>1
    <2>7. ASSUME NEW d \in 1..MaxNodes PROVE IsLiveDir(t, up[d])
      <3>1. d - 1 \in 0..(MaxNodes - 1) /\ (d - 1) + 1 = d /\ d - 1 \in 0..MaxNodes
        BY <1>0
      <3> QED BY <2>1, <2>5, <3>1
    <2> QED BY <2>6, <2>7 DEF up
  <1>3. CASE n = 0 /\ Hangs(t, t[n].parent)
    <2>1. IsLiveDir(t, 0)
      <3>1. MaxNodes \in 0..MaxNodes
        BY <1>0
      <3> QED BY <1>3, <3>1 DEF Hangs
    <2> QED BY <1>1, <1>3, <2>1
  <1> QED BY <1>1, <1>2, <1>3

\* A directory among those entries hangs from the root itself.
LEMMA DirectoryHangs ==
  ASSUME NEW t, NEW n, IsLiveDir(t, n),
         Ancestors(t, n)[MaxNodes] = 0,
         \A d \in 1..MaxNodes : IsLiveDir(t, Ancestors(t, n)[d])
  PROVE  Hangs(t, n)
  <1>1. Ancestors(t, n)[0] = n
    BY AncestorsAlong
  <1>2. \A d \in 0..MaxNodes : d = 0 \/ d \in 1..MaxNodes
    BY TableAssumption
  <1> QED BY <1>1, <1>2 DEF Hangs

\* So does the directory above it.
LEMMA ParentHangs ==
  ASSUME NEW t, NEW n, Hangs(t, n), n # 0
  PROVE  Hangs(t, t[n].parent)
  <1> DEFINE up == Ancestors(t, n)
             over == Ancestors(t, t[n].parent)
  <1>0. MaxNodes \in Nat \ {0} /\ MaxNodes - 1 \in 0..(MaxNodes - 1)
        /\ (MaxNodes - 1) + 1 = MaxNodes
    BY TableAssumption
  <1>1. up[MaxNodes] = 0 /\ \A d \in 0..MaxNodes : IsLiveDir(t, up[d])
    BY DEF Hangs
  <1>2. \A d \in 0..(MaxNodes - 1) : up[d + 1] = over[d]
    BY AncestorsAbove
  <1>3. over[(MaxNodes - 1) + 1] =
          IF over[MaxNodes - 1] = 0 THEN 0 ELSE t[over[MaxNodes - 1]].parent
    BY <1>0, AncestorsAlong
  <1> HIDE DEF up, over
  <1>4. over[MaxNodes - 1] = up[MaxNodes]
    <2>1. over[MaxNodes - 1] = up[(MaxNodes - 1) + 1]
      BY <1>0, <1>2
    <2> QED BY <1>0, <2>1
  <1>5. over[MaxNodes] = 0
    BY <1>0, <1>1, <1>3, <1>4
  <1>6. ASSUME NEW d \in 0..MaxNodes PROVE IsLiveDir(t, over[d])
    <2>1. CASE d = MaxNodes
      BY <1>0, <1>1, <1>5, <2>1
    <2>2. CASE d # MaxNodes
      <3>1. d \in 0..(MaxNodes - 1) /\ d + 1 \in 0..MaxNodes
        BY <1>0, <2>2
      <3> QED BY <1>1, <1>2, <3>1
    <2> QED BY <2>1, <2>2
  <1> QED BY <1>5, <1>6 DEF Hangs, over

------------------------------------------------------------------------------
(* What creating and writing add to a table *)

Absent(t, p, name) == \A i \in Slots : ~(t[i].used /\ t[i].parent = p /\ t[i].name = name)

HasFile(t, p, name, text) ==
  \E i \in Slots : /\ t[i].used /\ ~t[i].isDir /\ t[i].parent = p /\ t[i].name = name
                   /\ t[i].data = text

HasDir(t, p, name) ==
  \E i \in Slots : t[i].used /\ t[i].isDir /\ t[i].parent = p /\ t[i].name = name

\* Table u is table t with at most one entry more, of that name and directory, and
\* no other file's text changed.
Adds(t, u, p, name) ==
  /\ Keeps(t, u)
  /\ \A i \in Slots : t[i].used =>
       /\ u[i].used /\ u[i].isDir = t[i].isDir /\ u[i].parent = t[i].parent
       /\ u[i].name = t[i].name /\ u[i].owner = t[i].owner
       /\ ~(t[i].parent = p /\ t[i].name = name) => u[i].data = t[i].data
  /\ \A i \in Slots : u[i].used /\ ~t[i].used =>
       u[i].parent = p /\ u[i].name = name /\ i = AllocNode(t) /\ i # 0

LEMMA AddsNothing ==
  ASSUME NEW t, Neat(t), NEW p, NEW name
  PROVE  Adds(t, t, p, name)
  BY DEF Adds, Keeps

LEMMA AddsTwice ==
  ASSUME NEW t, NEW u, NEW v, NEW p, NEW name, Adds(t, u, p, name), Adds(u, v, p, name),
         \A i \in Slots : v[i].used = u[i].used
  PROVE  Adds(t, v, p, name)
  BY DEF Adds, Keeps

\* alloc_node (58-65) finds the lowest free slot.
LEMMA AllocIs ==
  ASSUME NEW t, FreeSlots(t) # {}
  PROVE  /\ AllocNode(t) \in Slots \ {0} /\ ~t[AllocNode(t)].used
         /\ \A i \in Slots \ {0} : ~t[i].used => AllocNode(t) <= i
  <1>1. FreeSlots(t) \in SUBSET Nat
    BY TableAssumption DEF FreeSlots, Slots
  <1>2. AllocNode(t) \in FreeSlots(t) /\ \A i \in FreeSlots(t) : AllocNode(t) <= i
    BY <1>1, LeastOf DEF AllocNode
  <1> QED BY <1>2 DEF FreeSlots

\* fs_mkdir_as and fs_touch_as where there is room and no entry of that name.
LEMMA CreateMakes ==
  ASSUME NEW t, Neat(t), NEW cwd, NEW path, NEW isDir \in BOOLEAN, NEW owner, NEW mode,
         NEW home, NEW name,
         HomeOf(t, cwd, path) = home, home # Fail, Last(path) = name,
         Absent(t, home, name), FreeSlots(t) # {}
  PROVE  /\ Create(t, cwd, path, isDir, owner, mode)[AllocNode(t)] =
              [used |-> TRUE, isDir |-> isDir, parent |-> home, name |-> name,
               owner |-> owner, mode |-> mode, data |-> Nul]
         /\ \A i \in Slots \ {AllocNode(t)} :
              Create(t, cwd, path, isDir, owner, mode)[i] = t[i]
  <1> DEFINE node == [used |-> TRUE, isDir |-> isDir, parent |-> home, name |-> name,
                      owner |-> owner, mode |-> mode, data |-> Nul]
             u == Create(t, cwd, path, isDir, owner, mode)
  <1>1. Named(t, home, name) = {}
    BY DEF Named, Absent
  <1>2. AllocNode(t) \in FreeSlots(t) /\ AllocNode(t) \in Slots
    BY AllocIs DEF FreeSlots
  <1>3. u = [t EXCEPT ![AllocNode(t)] = node]
    BY <1>1, <1>2 DEF Create
  <1> HIDE DEF node, u
  <1>4. u[AllocNode(t)] = node /\ \A i \in Slots \ {AllocNode(t)} : u[i] = t[i]
    BY <1>2, <1>3 DEF Neat, Tables
  <1> QED BY <1>4 DEF node, u

LEMMA CreateAdds ==
  ASSUME NEW t, Neat(t), NEW cwd \in Slots, NEW path \in PathType,
         NEW isDir \in BOOLEAN, NEW owner \in Uids, NEW mode \in Modes
  PROVE  Adds(t, Create(t, cwd, path, isDir, owner, mode), HomeOf(t, cwd, path), Last(path))
  <1> DEFINE home == HomeOf(t, cwd, path)
             slot == AllocNode(t)
             u == Create(t, cwd, path, isDir, owner, mode)
             node == [used |-> TRUE, isDir |-> isDir, parent |-> home,
                      name |-> Last(path), owner |-> owner, mode |-> mode, data |-> Nul]
  <1>1. Keeps(t, u)
    BY CreateKeeps
  <1>2. CASE u = t
    BY <1>2, AddsNothing
  <1>3. CASE u # t
    <2>1. FreeSlots(t) # {} /\ slot \in FreeSlots(t) /\ u = [t EXCEPT ![slot] = node]
      BY <1>3 DEF Create
    <2>2. slot \in Slots /\ ~t[slot].used /\ slot # 0
      BY <2>1 DEF FreeSlots
    <2>3. \A i \in Slots : u[i] = IF i = slot THEN node ELSE t[i]
      <3> HIDE DEF node
      <3> QED BY <2>1 DEF Neat, Tables
    <2>4. node.parent = home /\ node.name = Last(path)
      OBVIOUS
    <2> HIDE DEF node, slot, u, home
    <2> QED BY <1>1, <2>2, <2>3, <2>4 DEF Adds, slot, u, home
  <1> QED BY <1>2, <1>3

\* Filling a file (fs_write_file, 414-424).
LEMMA FillAdds ==
  ASSUME NEW t, Neat(t), NEW n, NEW text \in Texts \cup {Nul}
  PROVE  /\ Keeps(t, Fill(t, n, text))
         /\ \A i \in Slots : /\ Fill(t, n, text)[i].used = t[i].used
                             /\ Fill(t, n, text)[i].isDir = t[i].isDir
                             /\ Fill(t, n, text)[i].parent = t[i].parent
                             /\ Fill(t, n, text)[i].name = t[i].name
                             /\ Fill(t, n, text)[i].owner = t[i].owner
                             /\ i # n => Fill(t, n, text)[i].data = t[i].data
         /\ Live(t, n) /\ ~t[n].isDir => Fill(t, n, text)[n].data = text
  <1> DEFINE v == Fill(t, n, text)
  <1>1. CASE Live(t, n) /\ ~t[n].isDir
    <2>1. n \in Slots /\ v = [t EXCEPT ![n].data = text]
      BY <1>1 DEF Live, Fill
    <2> HIDE DEF v
    <2>2. v \in Tables
      BY <2>1 DEF Neat, Tables, NodeType
    <2>3. \A i \in Slots : /\ v[i].used = t[i].used /\ v[i].isDir = t[i].isDir
                           /\ v[i].parent = t[i].parent /\ v[i].name = t[i].name
                           /\ v[i].owner = t[i].owner
                           /\ i # n => v[i].data = t[i].data
      BY <2>1 DEF Neat, Tables, NodeType
    <2>4. v[n].data = text
      BY <2>1 DEF Neat, Tables, NodeType
    <2>5. Keeps(t, v)
      BY <2>2, <2>3, FieldChanged
    <2> QED BY <2>3, <2>4, <2>5 DEF v
  <1>2. CASE ~(Live(t, n) /\ ~t[n].isDir)
    BY <1>2 DEF Fill, Keeps
  <1> QED BY <1>1, <1>2

\* fs_write_file (400-424) of a path that names an entry of directory p: afterwards
\* the file has the text, unless it is a directory, or is missing and the table full.
LEMMA WriteAdds ==
  ASSUME NEW t, Neat(t), NEW cwd \in Slots, NEW path \in PathType, NEW p, NEW name,
         NEW text \in Texts \cup {Nul},
         HomeOf(t, cwd, path) = p, p # Fail, Last(path) = name,
         Resolve(t, cwd, path) = Find(t, p, name),
         Adds(t, Opened(t, cwd, path), p, name) =>
           Resolve(Opened(t, cwd, path), cwd, path) = Find(Opened(t, cwd, path), p, name)
  PROVE  /\ Adds(t, Write(t, cwd, path, text), p, name)
         /\ HasFile(Write(t, cwd, path, text), p, name, text) \/ HasDir(t, p, name)
            \/ (Absent(t, p, name) /\ FreeSlots(t) = {})
  <1> DEFINE u == Opened(t, cwd, path)
             n == Resolve(u, cwd, path)
             v == Fill(u, n, text)
  <1>1. v = Write(t, cwd, path, text)
    BY DEF Write
  <1>2. Adds(t, u, p, name)
    <2>1. Adds(t, Touch(t, cwd, path), p, name)
      BY CreateAdds, TableAssumption DEF Touch
    <2> QED BY <2>1, AddsNothing DEF Opened
  <1>3. n = Find(u, p, name) /\ Keeps(t, u)
    BY <1>2 DEF Adds, Keeps
  <1>4. n # Fail => n \in Slots /\ u[n].used /\ u[n].name = name /\ u[n].parent = p
    BY <1>3, FoundIs
  <1>5. /\ Keeps(u, v)
        /\ \A i \in Slots : /\ v[i].used = u[i].used /\ v[i].isDir = u[i].isDir
                            /\ v[i].parent = u[i].parent /\ v[i].name = u[i].name
                            /\ v[i].owner = u[i].owner
                            /\ i # n => v[i].data = u[i].data
        /\ Live(u, n) /\ ~u[n].isDir => v[n].data = text
    <2> HIDE DEF u, n
    <2> QED BY <1>3, FillAdds DEF Keeps
  <1>6. Adds(t, v, p, name)
    <2>1. Adds(u, v, p, name)
      <3>1. Fail \notin Slots
        BY TableAssumption DEF Fail, Slots
      <3> HIDE DEF u, n, v
      <3> QED BY <1>4, <1>5, <3>1 DEF Adds
    <2> HIDE DEF u, n, v
    <2> QED BY <1>2, <1>5, <2>1, AddsTwice
  <1>7. HasFile(v, p, name, text) \/ HasDir(t, p, name)
        \/ (Absent(t, p, name) /\ FreeSlots(t) = {})
    <2>1. CASE Absent(t, p, name) /\ FreeSlots(t) # {}
      <3> DEFINE slot == AllocNode(t)
                 node == [used |-> TRUE, isDir |-> FALSE, parent |-> p, name |-> name,
                          owner |-> Super, mode |-> FileMode, data |-> Nul]
      <3>1. Find(t, p, name) = Fail
        BY <2>1, NotFound DEF Absent, Named
      <3>2. u = Create(t, cwd, path, FALSE, Super, FileMode)
        BY <3>1 DEF Opened, Touch
      <3>3. slot \in Slots
        BY <2>1, AllocIs
      <3>4. u[slot] = node
        <4>1. ASSUME NEW b \in BOOLEAN
              PROVE  Create(t, cwd, path, b, Super, FileMode)[AllocNode(t)] =
                       [used |-> TRUE, isDir |-> b, parent |-> p, name |-> name,
                        owner |-> Super, mode |-> FileMode, data |-> Nul]
          <5> HIDE DEF u, n, v, slot
          <5> QED BY <2>1, CreateMakes
        <4>2. Create(t, cwd, path, FALSE, Super, FileMode)[AllocNode(t)] = node
          BY <4>1
        <4> HIDE DEF u, node
        <4> QED BY <3>2, <4>2
      <3>5. u[slot].used /\ ~u[slot].isDir /\ u[slot].parent = p /\ u[slot].name = name
        BY <3>4
      <3>6. n = slot
        <4> HIDE DEF u, n, slot
        <4> QED BY <1>3, <3>3, <3>5, FindIs DEF Neat, Keeps
      <3> HIDE DEF u, n, v, slot
      <3>7. v[n].data = text
        BY <1>5, <3>3, <3>5, <3>6 DEF Live
      <3> QED BY <1>5, <3>3, <3>5, <3>6, <3>7 DEF HasFile
    <2>2. CASE ~Absent(t, p, name) /\ ~HasDir(t, p, name)
      <3>1. PICK i \in Slots : t[i].used /\ t[i].parent = p /\ t[i].name = name
        BY <2>2 DEF Absent
      <3>2. ~t[i].isDir
        BY <2>2, <3>1 DEF HasDir
      <3>3. u[i].used /\ ~u[i].isDir /\ u[i].parent = p /\ u[i].name = name
        BY <1>2, <3>1, <3>2 DEF Adds
      <3>4. n = i
        <4> HIDE DEF u, n
        <4> QED BY <1>3, <3>3, FindIs DEF Neat, Keeps
      <3> HIDE DEF u, n, v
      <3>5. v[n].data = text
        BY <1>5, <3>3, <3>4 DEF Live
      <3> QED BY <1>5, <3>3, <3>4, <3>5 DEF HasFile
    <2> QED BY <2>1, <2>2
  <1> QED BY <1>1, <1>6, <1>7

\* A name as users and the system give them.
Proper(name) == name \in Names \ LongNames /\ name \notin {".", ".."}

LEMMA WalkFinds ==
  ASSUME NEW t, NEW cwd \in Slots, NEW name, Proper(name)
  PROVE  Walk(t, cwd, name) = Find(t, cwd, name)
  BY TableAssumption DEF Walk, Proper, Fail, Slots

\* A bare name in a directory, and a name in a directory of it.
LEMMA BareName ==
  ASSUME NEW t, NEW cwd \in Slots, NEW name, Proper(name)
  PROVE  /\ <<name>> \in PathType /\ Last(<<name>>) = name
         /\ Resolve(t, cwd, <<name>>) = Find(t, cwd, name)
         /\ HomeOf(t, cwd, <<name>>) = cwd
  <1>1. Last(<<name>>) = name
    BY DEF Last
  <1>2. ValidName(name) /\ <<name>> \in PathType
    BY TableAssumption DEF ValidName, Proper, PathType
  <1>3. HomeOf(t, cwd, <<name>>) = cwd
    BY <1>1, <1>2 DEF HomeOf
  <1> QED BY <1>1, <1>2, <1>3, ResolveOne, WalkFinds

LEMMA NameInDirectory ==
  ASSUME NEW t, Neat(t), NEW cwd \in Slots, NEW p \in Slots,
         t[p].used, t[p].isDir, t[p].parent = cwd,
         Proper(t[p].name), NEW name, Proper(name)
  PROVE  /\ <<t[p].name, name>> \in PathType /\ Last(<<t[p].name, name>>) = name
         /\ Resolve(t, cwd, <<t[p].name, name>>) = Find(t, p, name)
         /\ HomeOf(t, cwd, <<t[p].name, name>>) = p
  <1> DEFINE d == t[p].name
             path == <<d, name>>
  <1>1. Find(t, cwd, d) = p
    BY FindIs DEF Neat
  <1> HIDE DEF d
  <1>2. Walk(t, cwd, d) = p
    BY <1>1, WalkFinds DEF d
  <1>3. d # Nul /\ d \in Names /\ name \in Names /\ ValidName(name)
    BY TableAssumption DEF Proper, ValidName, d
  <1>4. Resolve(t, cwd, path) = Find(t, p, name)
    BY <1>2, <1>3, ResolveTwo, WalkFinds
  <1>5. path \in PathType /\ Len(path) = 2 /\ path[1] = d /\ path # <<>>
    BY <1>3 DEF PathType
  <1>6. Last(path) = name
    BY DEF Last
  <1>7. Front(path) = <<d>>
    <2> DEFINE f == Front(path)
    <2>1. f \in Seq(Names \cup {Nul}) /\ Len(f) = 1 /\ f[1] = d
      BY <1>5, SubSeqProperties DEF Front, PathType
    <2>2. <<d>> \in Seq(Names \cup {Nul}) /\ Len(<<d>>) = 1 /\ <<d>>[1] = d
      BY <1>3
    <2> HIDE DEF f
    <2> QED BY <2>1, <2>2, SeqEqual DEF f
  <1>8. Resolve(t, cwd, Front(path)) = p
    BY <1>2, <1>7, ResolveOne
  <1> HIDE DEF path
  <1>9. HomeOf(t, cwd, path) = p
    BY <1>3, <1>5, <1>6, <1>8 DEF HomeOf
  <1> QED BY <1>4, <1>5, <1>6, <1>9 DEF path, d

\* Two paths of one name each, put together.
LEMMA TwoNames ==
  ASSUME NEW S, NEW x \in S, NEW y \in S
  PROVE  <<x>> \o <<y>> = <<x, y>>
  <1> DEFINE a == <<x>>
             b == <<y>>
             c == <<x, y>>
  <1>1. a \in Seq(S) /\ b \in Seq(S) /\ c \in Seq(S)
    OBVIOUS
  <1>2. /\ Len(a) = 1 /\ Len(b) = 1 /\ Len(c) = 2
        /\ a[1] = x /\ b[1] = y /\ c[1] = x /\ c[2] = y
    OBVIOUS
  <1> HIDE DEF a, b, c
  <1>3. /\ a \o b \in Seq(S)
        /\ Len(a \o b) = Len(a) + Len(b)
        /\ \A i \in 1..(Len(a) + Len(b)) :
             (a \o b)[i] = IF i <= Len(a) THEN a[i] ELSE b[i - Len(a)]
    BY <1>1, ConcatProperties
  <1> DEFINE d == a \o b
  <1> HIDE DEF d
  <1>4. /\ d \in Seq(S) /\ Len(d) = 2
        /\ \A i \in 1..2 : d[i] = IF i <= 1 THEN a[i] ELSE b[i - 1]
    BY <1>2, <1>3 DEF d
  <1>5. d[1] = c[1] /\ d[2] = c[2]
    <2>1. d[1] = a[1]
      BY <1>4
    <2>2. d[2] = b[2 - 1]
      BY <1>4
    <2> QED BY <1>2, <2>1, <2>2
  <1>6. \A i \in 1..2 : d[i] = c[i]
    BY <1>5
  <1>7. d = c
    BY <1>1, <1>2, <1>4, <1>6, SeqEqual
  <1> QED BY <1>7 DEF a, b, c, d

------------------------------------------------------------------------------
(* The table as a tree of paths *)

\* Tables that agree on what the walk to the root passes give a node the same walk
\* and the same path.
LEMMA SameWalk ==
  ASSUME NEW t, NEW u, NEW n, Ancestors(t, n)[MaxNodes] = 0,
         \A d \in 0..MaxNodes :
           Ancestors(t, n)[d] # 0 =>
             /\ u[Ancestors(t, n)[d]].parent = t[Ancestors(t, n)[d]].parent
             /\ u[Ancestors(t, n)[d]].name = t[Ancestors(t, n)[d]].name
  PROVE  /\ \A d \in 0..MaxNodes : Ancestors(u, n)[d] = Ancestors(t, n)[d]
         /\ NamesTo(u, n) = NamesTo(t, n)
  <1> DEFINE up == Ancestors(t, n)
             over == Ancestors(u, n)
             D == Depth(t, n)
             E == Depth(u, n)
             S == {d \in Nat : d <= MaxNodes => over[d] = up[d]}
  <1>0. MaxNodes \in Nat \ {0}
    BY TableAssumption
  <1>1. 0 \in S
    BY AncestorsAlong
  <1>2. ASSUME NEW d \in Nat, d \in S PROVE d + 1 \in S
    <2> SUFFICES ASSUME d + 1 <= MaxNodes PROVE over[d + 1] = up[d + 1]
      OBVIOUS
    <2>1. d \in 0..(MaxNodes - 1) /\ d \in 0..MaxNodes /\ d <= MaxNodes
      BY <1>0
    <2>2. up[d + 1] = IF up[d] = 0 THEN 0 ELSE t[up[d]].parent
      BY <2>1, AncestorsAlong
    <2>3. over[d + 1] = IF over[d] = 0 THEN 0 ELSE u[over[d]].parent
      BY <2>1, AncestorsAlong
    <2>4. over[d] = up[d]
      BY <1>2, <2>1
    <2>5. up[d] # 0 => u[up[d]].parent = t[up[d]].parent
      BY <2>1
    <2> HIDE DEF up, over
    <2> QED BY <2>2, <2>3, <2>4, <2>5
  <1>3. \A d \in 0..MaxNodes : over[d] = up[d]
    <2>1. Nat \subseteq S
      <3> HIDE DEF S
      <3> QED BY <1>1, <1>2, ReachesAll
    <2> QED BY <1>0, <2>1
  <1>4. over[MaxNodes] = 0
    BY <1>0, <1>3
  <1>5. /\ D \in 0..MaxNodes /\ up[D] = 0 /\ \A d \in 0..(D - 1) : up[d] # 0
        /\ NamesTo(t, n) = [i \in 1..D |-> t[up[D - i]].name]
    BY DepthIs
  <1>6. /\ E \in 0..MaxNodes /\ over[E] = 0 /\ \A d \in 0..(E - 1) : over[d] # 0
        /\ NamesTo(u, n) = [i \in 1..E |-> u[over[E - i]].name]
    BY <1>4, DepthIs
  <1>7. \A d \in 0..MaxNodes : up[d] # 0 => u[up[d]].name = t[up[d]].name
    OBVIOUS
  <1> HIDE DEF up, over, D, E
  <1>8. E = D
    <2>1. ~(E < D)
      BY <1>3, <1>5, <1>6
    <2>2. ~(D < E)
      BY <1>3, <1>5, <1>6
    <2> QED BY <1>5, <1>6, <2>1, <2>2
  <1>9. ASSUME NEW i \in 1..D PROVE u[over[E - i]].name = t[up[D - i]].name
    <2>1. D - i \in 0..(D - 1) /\ D - i \in 0..MaxNodes
      BY <1>0, <1>5
    <2> QED BY <1>3, <1>5, <1>7, <1>8, <2>1
  <1>10. NamesTo(u, n) = NamesTo(t, n)
    BY <1>5, <1>6, <1>8, <1>9
  <1> QED BY <1>3, <1>10 DEF up, over

\* A path and the path of the directory above.
Extends(p, q, name) ==
  /\ p # <<>> /\ Len(p) = Len(q) + 1
  /\ q = SubSeq(p, 1, Len(p) - 1)
  /\ Range(p) = Range(q) \cup {name}

\* The path of an entry is the path of its directory and its name (fs.c 475-490).
LEMMA PathExtends ==
  ASSUME NEW t, NEW n, n # 0,
         Ancestors(t, n)[MaxNodes] = 0, Ancestors(t, t[n].parent)[MaxNodes] = 0
  PROVE  Extends(NamesTo(t, n), NamesTo(t, t[n].parent), t[n].name)
  <1> DEFINE up == Ancestors(t, n)
             over == Ancestors(t, t[n].parent)
             D == Depth(t, n)
             E == Depth(t, t[n].parent)
             p == NamesTo(t, n)
             q == NamesTo(t, t[n].parent)
             name == t[n].name
  <1>0. MaxNodes \in Nat \ {0}
    BY TableAssumption
  <1>1. /\ D \in 0..MaxNodes /\ up[D] = 0 /\ \A d \in 0..(D - 1) : up[d] # 0
        /\ p = [i \in 1..D |-> t[up[D - i]].name]
    BY DepthIs
  <1>2. /\ E \in 0..MaxNodes /\ over[E] = 0 /\ \A d \in 0..(E - 1) : over[d] # 0
        /\ q = [i \in 1..E |-> t[over[E - i]].name]
    BY DepthIs
  <1>3. \A d \in 0..(MaxNodes - 1) : up[d + 1] = over[d]
    BY AncestorsAbove
  <1>4. up[0] = n
    BY AncestorsAlong
  <1>5. name = t[n].name
    OBVIOUS
  <1> HIDE DEF up, over, D, E, p, q, name
  <1>6. D # 0
    BY <1>1, <1>4
  <1>7. D = E + 1
    <2>1. D - 1 \in 0..(MaxNodes - 1) /\ (D - 1) + 1 = D
      BY <1>0, <1>1, <1>6
    <2>2. over[D - 1] = 0
      BY <1>1, <1>3, <2>1
    <2>3. ~(D - 1 < E)
      BY <1>2, <2>1, <2>2
    <2>4. ~(E < D - 1)
      <3> SUFFICES ASSUME E < D - 1 PROVE FALSE
        OBVIOUS
      <3>1. E \in 0..(MaxNodes - 1) /\ E + 1 \in 0..(D - 1)
        BY <1>0, <1>1, <1>2
      <3> QED BY <1>1, <1>2, <1>3, <3>1
    <2> QED BY <1>1, <1>2, <2>3, <2>4
  <1>8. ASSUME NEW i \in 1..E PROVE p[i] = q[i]
    <2>1. i \in 1..D /\ E - i \in 0..(MaxNodes - 1) /\ (E - i) + 1 = D - i
      BY <1>0, <1>1, <1>2, <1>7
    <2> QED BY <1>1, <1>2, <1>3, <2>1
  <1>9. p[E + 1] = name
    <2>1. E + 1 \in 1..D /\ D - (E + 1) = 0
      BY <1>1, <1>2, <1>7
    <2> QED BY <1>1, <1>4, <1>5, <2>1
  <1>10. /\ Len(p) = E + 1 /\ DOMAIN p = 1..(E + 1) /\ Len(q) = E /\ DOMAIN q = 1..E
         /\ E \in Nat
    BY <1>1, <1>2, <1>7
  <1>11. p # <<>>
    BY <1>10
  <1>12. q = SubSeq(p, 1, Len(p) - 1)
    <2>1. Len(p) - 1 = E
      BY <1>10
    <2> DEFINE X == {p[i] : i \in 1..(E + 1)}
    <2>2. \A i \in 1..E : p[i] \in X /\ q[i] \in X
      <3>1. \A i \in 1..E : i \in 1..(E + 1)
        BY <1>10
      <3> QED BY <1>8, <3>1
    <2>3. q \in Seq(X)
      <3>1. q = [i \in 1..E |-> q[i]]
        BY <1>2
      <3> HIDE DEF X
      <3>2. q \in [1..E -> X]
        BY <2>2, <3>1
      <3> QED BY <1>10, <3>2
    <2> DEFINE r == SubSeq(p, 1, E)
    <2>4. r \in Seq(X) /\ Len(r) = E /\ \A i \in 1..E : r[i] = p[i]
      <3> HIDE DEF X
      <3>1. 1 \in Int /\ E \in Int /\ E - 1 + 1 = E
        BY <1>10
      <3>2. /\ r \in Seq(X)
            /\ Len(r) = IF 1 <= E THEN E - 1 + 1 ELSE 0
            /\ \A i \in 1..(E - 1 + 1) : r[i] = p[1 + i - 1]
        BY <2>2, <3>1, SubSeqProperties
      <3> HIDE DEF r
      <3> QED BY <1>10, <3>1, <3>2
    <2>5. q = r
      <3> HIDE DEF X, r
      <3> QED BY <1>8, <1>10, <2>3, <2>4, SeqEqual
    <2> QED BY <2>1, <2>5
  <1>13. Range(p) = Range(q) \cup {name}
    <2>1. \A i \in 1..(E + 1) : i \in 1..E \/ i = E + 1
      BY <1>10
    <2>2. \A i \in 1..E : i \in 1..(E + 1)
      BY <1>10
    <2>3. E + 1 \in 1..(E + 1)
      BY <1>10
    <2> QED BY <1>8, <1>9, <1>10, <2>1, <2>2, <2>3 DEF Range
  <1> QED BY <1>7, <1>10, <1>11, <1>12, <1>13 DEF Extends, p, q, name

\* In a tree, an entry is in a directory that is in use and has a path.
LEMMA RootedEntry ==
  ASSUME NEW t, Rooted(t), NEW n \in Slots, t[n].used
  PROVE  /\ Ancestors(t, n)[MaxNodes] = 0
         /\ \A d \in 1..MaxNodes : IsLiveDir(t, Ancestors(t, n)[d])
         /\ n # 0 => /\ IsLiveDir(t, t[n].parent)
                     /\ Extends(NamesTo(t, n), NamesTo(t, t[n].parent), t[n].name)
  <1> DEFINE up == Ancestors(t, n)
  <1>0. 0 \in 0..(MaxNodes - 1) /\ 0 + 1 = 1 /\ 1 \in 1..MaxNodes
    BY TableAssumption
  <1>1. up[MaxNodes] = 0 /\ \A d \in 1..MaxNodes : IsLiveDir(t, up[d])
    BY DEF Rooted
  <1>2. ASSUME n # 0
        PROVE  /\ IsLiveDir(t, t[n].parent)
               /\ Extends(NamesTo(t, n), NamesTo(t, t[n].parent), t[n].name)
    <2>1. up[1] = t[n].parent
      BY <1>0, <1>2, AncestorsAlong
    <2>2. IsLiveDir(t, t[n].parent)
      BY <1>0, <1>1, <2>1
    <2>3. Ancestors(t, t[n].parent)[MaxNodes] = 0
      BY <2>2 DEF Rooted, IsLiveDir, Live
    <2> QED BY <1>1, <1>2, <2>2, <2>3, PathExtends
  <1> QED BY <1>1, <1>2

\* The path of the root has no names.
LEMMA RootPath ==
  ASSUME NEW t
  PROVE  NamesTo(t, 0) = <<>> /\ Range(NamesTo(t, 0)) = {} /\ Len(NamesTo(t, 0)) = 0
  <1> DEFINE zero == 0
             up == Ancestors(t, zero)
             S == {d \in Nat : d <= MaxNodes => up[d] = 0}
             D == Depth(t, zero)
  <1>0. MaxNodes \in Nat \ {0}
    BY TableAssumption
  <1>1. 0 \in S
    BY AncestorsAlong
  <1>2. ASSUME NEW d \in Nat, d \in S PROVE d + 1 \in S
    <2> SUFFICES ASSUME d + 1 <= MaxNodes PROVE up[d + 1] = 0
      OBVIOUS
    <2>1. d \in 0..(MaxNodes - 1) /\ d <= MaxNodes
      BY <1>0
    <2> QED BY <1>2, <2>1, AncestorsAlong
  <1>3. up[MaxNodes] = 0 /\ up[0] = 0
    <2>1. Nat \subseteq S
      <3> HIDE DEF S
      <3> QED BY <1>1, <1>2, ReachesAll
    <2> QED BY <1>0, <2>1
  <1>4. D \in 0..MaxNodes /\ (\A d \in 0..(D - 1) : up[d] # 0)
        /\ NamesTo(t, zero) = [i \in 1..D |-> t[up[D - i]].name]
    <2> HIDE DEF zero
    <2> QED BY <1>3, DepthIs
  <1> HIDE DEF up, D
  <1>5. D = 0
    BY <1>3, <1>4
  <1>6. NamesTo(t, zero) = <<>>
    BY <1>4, <1>5
  <1> QED BY <1>6 DEF Range

\* Only a file made by the name "." or ".." is on no path.
LEMMA AddressableIs ==
  ASSUME NEW t, Rooted(t), NoDotDirs(t), NEW n \in Slots, t[n].used
  PROVE  Addressable(t, n) <=> (n = 0 \/ t[n].name \notin {".", ".."})
  <1> DEFINE up == Ancestors(t, n)
             D == Depth(t, n)
             names == NamesTo(t, n)
  <1>0. MaxNodes \in Nat \ {0}
    BY TableAssumption
  <1>1. CASE n = 0
    <2>1. Range(NamesTo(t, n)) = {}
      BY <1>1, RootPath
    <2> QED BY <1>1, <2>1 DEF Addressable, Live
  <1>2. CASE n # 0
    <2>1. up[MaxNodes] = 0 /\ \A d \in 1..MaxNodes : IsLiveDir(t, up[d])
      BY RootedEntry
    <2>2. /\ D \in 0..MaxNodes /\ up[D] = 0 /\ names = [i \in 1..D |-> t[up[D - i]].name]
          /\ up[0] = n
      BY <2>1, DepthIs, AncestorsAlong
    <2> HIDE DEF up, D, names
    <2>3. D # 0
      BY <1>2, <2>2
    <2>4. ASSUME NEW i \in 1..D, i # D PROVE names[i] \notin {".", ".."}
      <3>1. D - i \in 1..MaxNodes
        BY <1>0, <2>2, <2>4
      <3>2. IsLiveDir(t, up[D - i])
        BY <2>1, <3>1
      <3> QED BY <2>2, <3>2 DEF IsLiveDir, Live, NoDotDirs
    <2>5. names[D] = t[n].name /\ D \in 1..D
      <3>1. D \in 1..D /\ D - D = 0
        BY <2>2, <2>3
      <3> QED BY <2>2, <3>1
    <2>6. DOMAIN names = 1..D
      BY <2>2
    <2>7. {".", ".."} \cap Range(names) = {} <=> t[n].name \notin {".", ".."}
      BY <2>4, <2>5, <2>6 DEF Range
    <2> QED BY <1>2, <2>7 DEF Addressable, Live, names
  <1> QED BY <1>1, <1>2

\* No two nodes have one path.
LEMMA PathsDiffer ==
  ASSUME NEW t, Sane(t), Rooted(t), NEW m \in Slots, NEW n \in Slots,
         Addressable(t, m), Addressable(t, n), NamesTo(t, m) = NamesTo(t, n)
  PROVE  m = n
  <1>1. ASSUME NEW k \in Slots, Addressable(t, k)
        PROVE  /\ t[k].used /\ {".", ".."} \cap Range(NamesTo(t, k)) = {}
               /\ Ancestors(t, k)[MaxNodes] = 0
               /\ \A d \in 1..MaxNodes : t[Ancestors(t, k)[d]].used /\ Ancestors(t, k)[d] \in Slots
    <2>1. t[k].used /\ {".", ".."} \cap Range(NamesTo(t, k)) = {}
      BY <1>1 DEF Addressable, Live
    <2> QED BY <2>1, RootedEntry DEF IsLiveDir, Live
  <1>2. ASSUME NEW k \in Slots, Addressable(t, k)
        PROVE  Resolve(t, 0, MakePath(t, k)) = k
    <2> DEFINE from == 0
    <2> HIDE DEF from
    <2>1. Resolve(t, from, MakePath(t, k)) = k
      BY <1>1, <1>2, PathLeadsBack DEF Sane
    <2> QED BY <2>1 DEF from
  <1>3. ASSUME NEW k \in Slots, Addressable(t, k), k # 0
        PROVE  NamesTo(t, k) # <<>>
    BY <1>1, <1>3, RootedEntry DEF Extends
  <1>4. CASE m = 0 \/ n = 0
    BY <1>3, <1>4, RootPath
  <1>5. CASE m # 0 /\ n # 0
    <2>1. MakePath(t, m) = MakePath(t, n)
      BY <1>5 DEF MakePath
    <2> QED BY <1>2, <2>1
  <1> QED BY <1>4, <1>5

\* The tree of a table has the paths of the nodes, and at each what the node is.
LEMMA TreeIs ==
  ASSUME NEW t, Sane(t), Rooted(t)
  PROVE  /\ DOMAIN TreeOf(t) = {NamesTo(t, m) : m \in {k \in Slots : Addressable(t, k)}}
         /\ TreeOf(t) = [p \in DOMAIN TreeOf(t) |-> TreeOf(t)[p]]
         /\ \A n \in Slots : Addressable(t, n) =>
              /\ NamesTo(t, n) \in DOMAIN TreeOf(t)
              /\ TreeOf(t)[NamesTo(t, n)] = Shown(t, n)
  <1> DEFINE at == {m \in Slots : Addressable(t, m)}
             P(n) == NamesTo(t, n)
             F(p) == Shown(t, CHOOSE m \in at : NamesTo(t, m) = p)
  <1>1. TreeOf(t) = [p \in {NamesTo(t, m) : m \in at} |-> F(p)]
    BY DEF TreeOf
  <1>2. ASSUME NEW n \in Slots, Addressable(t, n)
        PROVE  F(NamesTo(t, n)) = Shown(t, n)
    <2>1. \E m \in at : NamesTo(t, m) = NamesTo(t, n)
      BY <1>2
    <2> DEFINE c == CHOOSE m \in at : NamesTo(t, m) = NamesTo(t, n)
    <2>2. c \in at /\ NamesTo(t, c) = NamesTo(t, n)
      BY <2>1
    <2> HIDE DEF c
    <2>3. c = n
      BY <1>2, <2>2, PathsDiffer
    <2> QED BY <2>3 DEF c
  <1> HIDE DEF F
  <1> QED BY <1>1, <1>2

\* Table u has the nodes in K as table t has them, and with each the directory above.
Alike(t, u, K) ==
  /\ K \subseteq Slots /\ 0 \in K
  /\ \A i \in K : /\ t[i].used /\ u[i].used
                  /\ u[i].isDir = t[i].isDir /\ u[i].parent = t[i].parent
                  /\ u[i].name = t[i].name
                  /\ t[i].parent \in K

\* Those nodes still hang from the root, and have the paths that they had.
LEMMA AlikeHang ==
  ASSUME NEW t, NEW u, NEW K, Alike(t, u, K), Rooted(t), NEW n \in K
  PROVE  /\ Ancestors(u, n)[MaxNodes] = 0
         /\ \A d \in 1..MaxNodes : IsLiveDir(u, Ancestors(u, n)[d])
         /\ NamesTo(u, n) = NamesTo(t, n)
  <1> DEFINE up == Ancestors(t, n)
             over == Ancestors(u, n)
             S == {d \in Nat : d <= MaxNodes => up[d] \in K}
  <1>0. MaxNodes \in Nat \ {0}
    BY TableAssumption
  <1>1. 0 \in S
    BY AncestorsAlong
  <1>2. ASSUME NEW d \in Nat, d \in S PROVE d + 1 \in S
    <2> SUFFICES ASSUME d + 1 <= MaxNodes PROVE up[d + 1] \in K
      OBVIOUS
    <2>1. d \in 0..(MaxNodes - 1) /\ d <= MaxNodes
      BY <1>0
    <2>2. up[d + 1] = IF up[d] = 0 THEN 0 ELSE t[up[d]].parent
      BY <2>1, AncestorsAlong
    <2>3. up[d] \in K
      BY <1>2, <2>1
    <2> HIDE DEF up
    <2> QED BY <2>2, <2>3 DEF Alike
  <1>3. \A d \in 0..MaxNodes : up[d] \in K
    <2>1. Nat \subseteq S
      <3> HIDE DEF S
      <3> QED BY <1>1, <1>2, ReachesAll
    <2> QED BY <1>0, <2>1
  <1>4. n \in Slots /\ t[n].used
    BY DEF Alike
  <1>5. up[MaxNodes] = 0 /\ \A d \in 1..MaxNodes : IsLiveDir(t, up[d])
    BY <1>4, RootedEntry
  <1>6. \A d \in 0..MaxNodes : u[up[d]].parent = t[up[d]].parent /\ u[up[d]].name = t[up[d]].name
    BY <1>3 DEF Alike
  <1>7. (\A d \in 0..MaxNodes : over[d] = up[d]) /\ NamesTo(u, n) = NamesTo(t, n)
    BY <1>5, <1>6, SameWalk
  <1>8. ASSUME NEW d \in 1..MaxNodes PROVE IsLiveDir(u, over[d])
    <2>1. d \in 0..MaxNodes
      BY <1>0
    <2>2. over[d] = up[d] /\ up[d] \in K /\ IsLiveDir(t, up[d])
      BY <1>3, <1>5, <1>7, <2>1
    <2> HIDE DEF over, up
    <2> QED BY <2>2 DEF Alike, IsLiveDir, Live
  <1>9. over[MaxNodes] = 0
    BY <1>0, <1>5, <1>7
  <1> QED BY <1>7, <1>8, <1>9

\* The slots in use, and above each of them another, up to the root.
UsedSlots(t) == {i \in Slots : t[i].used}

\* What is in use is closed under the directory above.
LEMMA UsedAbove ==
  ASSUME NEW t, Sane(t), Rooted(t)
  PROVE  /\ UsedSlots(t) \subseteq Slots /\ 0 \in UsedSlots(t)
         /\ \A i \in UsedSlots(t) : t[i].parent \in UsedSlots(t)
  <1>1. 0 \in UsedSlots(t) /\ t[0].parent = 0
    BY DEF UsedSlots, Sane, RootIntact, IsLiveDir, Live
  <1>2. ASSUME NEW i \in UsedSlots(t), i # 0 PROVE t[i].parent \in UsedSlots(t)
    <2>1. IsLiveDir(t, t[i].parent)
      BY <1>2, RootedEntry DEF UsedSlots
    <2> QED BY <2>1 DEF IsLiveDir, Live, UsedSlots
  <1> QED BY <1>1, <1>2 DEF UsedSlots

\* A node is put into a free slot s of a tree.
Added(t, u, s) ==
  /\ s \in Slots \ {0} /\ ~t[s].used /\ u[s].used
  /\ \A i \in Slots \ {s} : u[i] = t[i]

\* In a directory that is in use it makes the tree larger.
LEMMA AddedHangs ==
  ASSUME NEW t, NEW u, NEW s, Sane(t), Rooted(t), Added(t, u, s), IsLiveDir(t, u[s].parent)
  PROVE  /\ Rooted(u)
         /\ \A n \in Slots : t[n].used => NamesTo(u, n) = NamesTo(t, n)
         /\ Extends(NamesTo(u, s), NamesTo(t, u[s].parent), u[s].name)
  <1> DEFINE K == UsedSlots(t)
             h == u[s].parent
  <1>1. Alike(t, u, K)
    BY UsedAbove DEF Alike, UsedSlots, Added
  <1>2. ASSUME NEW n \in Slots, t[n].used
        PROVE  /\ Ancestors(u, n)[MaxNodes] = 0
               /\ \A d \in 1..MaxNodes : IsLiveDir(u, Ancestors(u, n)[d])
               /\ NamesTo(u, n) = NamesTo(t, n)
    <2>1. n \in K
      BY <1>2 DEF UsedSlots
    <2> HIDE DEF K
    <2> QED BY <1>1, <2>1, AlikeHang
  <1>3. h \in Slots /\ t[h].used /\ IsLiveDir(u, h)
    BY DEF Added, IsLiveDir, Live
  <1>4. s # 0 /\ s \in Slots /\ u[s].used
    BY DEF Added
  <1>5. Hangs(u, h)
    BY <1>2, <1>3, DirectoryHangs
  <1>6. Ancestors(u, s)[MaxNodes] = 0 /\ \A d \in 1..MaxNodes : IsLiveDir(u, Ancestors(u, s)[d])
    BY <1>4, <1>5, EntryHangs
  <1>7. Rooted(u)
    <2>1. ASSUME NEW n \in Slots, u[n].used
          PROVE  /\ Ancestors(u, n)[MaxNodes] = 0
                 /\ \A d \in 1..MaxNodes : IsLiveDir(u, Ancestors(u, n)[d])
      <3>1. CASE n = s
        BY <1>6, <3>1
      <3>2. CASE n # s
        BY <1>2, <2>1, <3>2 DEF Added
      <3> QED BY <3>1, <3>2
    <2> QED BY <2>1 DEF Rooted
  <1>8. Extends(NamesTo(u, s), NamesTo(u, h), u[s].name)
    BY <1>4, <1>7, RootedEntry
  <1> QED BY <1>2, <1>3, <1>7, <1>8

\* Anywhere else, it makes it no tree.
LEMMA AddedAstray ==
  ASSUME NEW t, NEW u, NEW s, Added(t, u, s), ~IsLiveDir(t, u[s].parent)
  PROVE  ~Rooted(u)
  <1> SUFFICES ASSUME Rooted(u) PROVE FALSE
    OBVIOUS
  <1>1. s # 0 /\ s \in Slots /\ u[s].used
    BY DEF Added
  <1>2. IsLiveDir(u, u[s].parent)
    BY <1>1, RootedEntry
  <1>3. u[s].parent = s
    BY <1>2 DEF Added, IsLiveDir, Live
  <1> DEFINE up == Ancestors(u, s)
             S == {d \in Nat : d <= MaxNodes => up[d] = s}
  <1>4. 0 \in S
    BY AncestorsAlong
  <1>5. ASSUME NEW d \in Nat, d \in S PROVE d + 1 \in S
    <2> SUFFICES ASSUME d + 1 <= MaxNodes PROVE up[d + 1] = s
      OBVIOUS
    <2>1. d \in 0..(MaxNodes - 1) /\ d <= MaxNodes
      BY TableAssumption
    <2>2. up[d + 1] = IF up[d] = 0 THEN 0 ELSE u[up[d]].parent
      BY <2>1, AncestorsAlong
    <2>3. up[d] = s
      BY <1>5, <2>1
    <2> HIDE DEF up
    <2> QED BY <1>1, <1>3, <2>2, <2>3
  <1>6. up[MaxNodes] = s
    <2>1. Nat \subseteq S
      <3> HIDE DEF S
      <3> QED BY <1>4, <1>5, ReachesAll
    <2> QED BY <2>1, TableAssumption
  <1>7. up[MaxNodes] = 0
    BY <1>1, RootedEntry
  <1> QED BY <1>1, <1>6, <1>7

\* A node of a tree that nothing is in goes.
Removed(t, u, s) ==
  /\ s \in Slots \ {0} /\ t[s].used /\ ~u[s].used
  /\ \A i \in Slots \ {s} : u[i] = t[i]
  /\ \A i \in Slots : t[i].used => t[i].parent # s

\* What is left still hangs from the root, and has the paths that it had.
LEMMA RemovedHangs ==
  ASSUME NEW t, NEW u, NEW s, Sane(t), Rooted(t), Removed(t, u, s)
  PROVE  /\ Rooted(u)
         /\ \A n \in Slots : u[n].used => NamesTo(u, n) = NamesTo(t, n)
  <1> DEFINE K == UsedSlots(t) \ {s}
  <1>1. Alike(t, u, K)
    BY UsedAbove DEF Alike, UsedSlots, Removed
  <1>2. ASSUME NEW n \in Slots, u[n].used
        PROVE  /\ Ancestors(u, n)[MaxNodes] = 0
               /\ \A d \in 1..MaxNodes : IsLiveDir(u, Ancestors(u, n)[d])
               /\ NamesTo(u, n) = NamesTo(t, n)
    <2>1. n \in K
      BY <1>2 DEF UsedSlots, Removed
    <2> HIDE DEF K
    <2> QED BY <1>1, <2>1, AlikeHang
  <1> QED BY <1>2 DEF Rooted

\* The same nodes in the same places.
SameNodes(t, u) ==
  \A i \in Slots : /\ u[i].used = t[i].used
                   /\ t[i].used => /\ u[i].isDir = t[i].isDir /\ u[i].parent = t[i].parent
                                   /\ u[i].name = t[i].name

\* Contents, owners and modes do not matter to the paths (fs.c 458-494).
LEMMA SameNodesHang ==
  ASSUME NEW t, NEW u, Sane(t), Rooted(t), SameNodes(t, u)
  PROVE  /\ Rooted(u)
         /\ \A n \in Slots : u[n].used => NamesTo(u, n) = NamesTo(t, n)
  <1> DEFINE K == UsedSlots(t)
  <1>1. Alike(t, u, K)
    BY UsedAbove DEF Alike, UsedSlots, SameNodes
  <1>2. ASSUME NEW n \in Slots, u[n].used
        PROVE  /\ Ancestors(u, n)[MaxNodes] = 0
               /\ \A d \in 1..MaxNodes : IsLiveDir(u, Ancestors(u, n)[d])
               /\ NamesTo(u, n) = NamesTo(t, n)
    <2>1. n \in K
      BY <1>2 DEF UsedSlots, SameNodes
    <2> HIDE DEF K
    <2> QED BY <1>1, <2>1, AlikeHang
  <1> QED BY <1>2 DEF Rooted

\* A table whose nodes may be shown as a tree of paths.
Shows(t) == Sane(t) /\ NoDotDirs(t)

\* How a tree of paths may change: at path p a file or a directory appears, a file
\* gets the content x, a leaf goes.
Grown(T, U, p) ==
  /\ p \notin DOMAIN T /\ p # <<>>
  /\ DOMAIN U = DOMAIN T \cup {p}
  /\ \A q \in DOMAIN T : U[q] = T[q]
  /\ SubSeq(p, 1, Len(p) - 1) \in DOMAIN T /\ T[SubSeq(p, 1, Len(p) - 1)] = <<>>

Filled(T, U, p, x) ==
  /\ p \in DOMAIN T /\ T[p] # <<>>
  /\ DOMAIN U = DOMAIN T
  /\ \A q \in DOMAIN T : U[q] = IF q = p THEN <<x>> ELSE T[q]

Shrunk(T, U, p) ==
  /\ p \in DOMAIN T /\ p # <<>>
  /\ \A q \in DOMAIN T : q # <<>> => SubSeq(q, 1, Len(q) - 1) # p
  /\ DOMAIN U = DOMAIN T \ {p}
  /\ \A q \in DOMAIN U : U[q] = T[q]

\* Two tables of the same nodes are both trees or neither is.
LEMMA SameRooted ==
  ASSUME NEW t, NEW u, Sane(t), Sane(u), SameNodes(t, u)
  PROVE  Rooted(t) <=> Rooted(u)
  <1>1. SameNodes(u, t)
    BY DEF SameNodes
  <1> QED BY <1>1, SameNodesHang

\* What is shown, node by node.
LEMMA SameShown ==
  ASSUME NEW t, NEW u, Shows(t), Shows(u), Rooted(t), Rooted(u),
         \A n \in Slots : Addressable(u, n) <=> Addressable(t, n),
         \A n \in Slots : Addressable(t, n) =>
           NamesTo(u, n) = NamesTo(t, n) /\ Shown(u, n) = Shown(t, n)
  PROVE  TreeOf(u) = TreeOf(t)
  <1> DEFINE T == TreeOf(t)
             U == TreeOf(u)
  <1>1. /\ DOMAIN T = {NamesTo(t, m) : m \in {k \in Slots : Addressable(t, k)}}
        /\ T = [p \in DOMAIN T |-> T[p]]
        /\ \A n \in Slots : Addressable(t, n) =>
             NamesTo(t, n) \in DOMAIN T /\ T[NamesTo(t, n)] = Shown(t, n)
    BY TreeIs DEF Shows
  <1>2. /\ DOMAIN U = {NamesTo(u, m) : m \in {k \in Slots : Addressable(u, k)}}
        /\ U = [p \in DOMAIN U |-> U[p]]
        /\ \A n \in Slots : Addressable(u, n) =>
             NamesTo(u, n) \in DOMAIN U /\ U[NamesTo(u, n)] = Shown(u, n)
    BY TreeIs DEF Shows
  <1> HIDE DEF T, U
  <1>3. DOMAIN U = DOMAIN T
    BY <1>1, <1>2
  <1>4. ASSUME NEW p \in DOMAIN T PROVE U[p] = T[p]
    <2>1. PICK n \in Slots : Addressable(t, n) /\ p = NamesTo(t, n)
      BY <1>1, <1>4
    <2> QED BY <1>1, <1>2, <2>1
  <1>5. U = T
    BY <1>1, <1>2, <1>3, <1>4
  <1> QED BY <1>5 DEF T, U

\* Tables of the same nodes and the same contents show the same tree.
LEMMA SameTree ==
  ASSUME NEW t, NEW u, Shows(t), Shows(u), SameNodes(t, u),
         \A n \in Slots : Addressable(t, n) => t[n].isDir \/ u[n].data = t[n].data
  PROVE  TreeOf(u) = TreeOf(t)
  <1>1. CASE ~Rooted(t)
    BY <1>1, SameRooted DEF TreeOf, Shows
  <1>2. CASE Rooted(t)
    <2>1. Rooted(u) /\ \A n \in Slots : u[n].used => NamesTo(u, n) = NamesTo(t, n)
      BY <1>2, SameNodesHang DEF Shows
    <2>2. \A n \in Slots : Addressable(u, n) <=> Addressable(t, n)
      BY <2>1 DEF Addressable, Live, SameNodes
    <2>3. \A n \in Slots : Addressable(t, n) => u[n].used /\ Shown(u, n) = Shown(t, n)
      BY DEF Addressable, Live, SameNodes, Shown
    <2> QED BY <1>2, <2>1, <2>2, <2>3, SameShown
  <1> QED BY <1>1, <1>2

\* One node more is one path more, unless nano made it by the name "." or "..".
LEMMA AddedTree ==
  ASSUME NEW t, NEW u, NEW s, Shows(t), Shows(u), Rooted(t),
         Added(t, u, s), IsLiveDir(t, u[s].parent)
  PROVE  IF u[s].name \in {".", ".."} THEN TreeOf(u) = TreeOf(t)
         ELSE Grown(TreeOf(t), TreeOf(u), NamesTo(u, s)) /\ Addressable(u, s)
  <1> DEFINE T == TreeOf(t)
             U == TreeOf(u)
             p == NamesTo(u, s)
             h == u[s].parent
  <1>1. /\ Rooted(u)
        /\ \A n \in Slots : t[n].used => NamesTo(u, n) = NamesTo(t, n)
        /\ Extends(p, NamesTo(t, h), u[s].name)
    BY AddedHangs DEF Shows
  <1>2. s \in Slots /\ s # 0 /\ ~t[s].used /\ u[s].used
    BY DEF Added
  <1>3. \A n \in Slots : n # s => u[n] = t[n]
    BY DEF Added
  <1>4. ASSUME NEW n \in Slots, t[n].used
        PROVE  n # s /\ (Addressable(u, n) <=> Addressable(t, n))
    <2>1. n # s /\ u[n] = t[n]
      BY <1>2, <1>3, <1>4
    <2> QED BY <1>1, <2>1 DEF Addressable, Live
  <1>5. \A n \in Slots : t[n].used => Shown(u, n) = Shown(t, n)
    BY <1>3, <1>4 DEF Shown
  <1>6. Addressable(u, s) <=> u[s].name \notin {".", ".."}
    BY <1>1, <1>2, AddressableIs DEF Shows
  <1>7. \A n \in Slots : Addressable(u, n) => n = s \/ Addressable(t, n)
    BY <1>3, <1>4 DEF Addressable, Live
  <1>8. \A n \in Slots : Addressable(t, n) => t[n].used
    BY DEF Addressable, Live
  <1>9. CASE u[s].name \in {".", ".."}
    <2>1. \A n \in Slots : Addressable(u, n) <=> Addressable(t, n)
      BY <1>4, <1>6, <1>7, <1>8, <1>9
    <2>2. T = U
      BY <1>1, <1>5, <1>8, <2>1, SameShown
    <2> QED BY <1>9, <2>2
  <1>10. CASE u[s].name \notin {".", ".."}
    <2>1. /\ DOMAIN T = {NamesTo(t, m) : m \in {k \in Slots : Addressable(t, k)}}
          /\ \A n \in Slots : Addressable(t, n) =>
               NamesTo(t, n) \in DOMAIN T /\ T[NamesTo(t, n)] = Shown(t, n)
      BY TreeIs DEF Shows
    <2>2. /\ DOMAIN U = {NamesTo(u, m) : m \in {k \in Slots : Addressable(u, k)}}
          /\ \A n \in Slots : Addressable(u, n) =>
               NamesTo(u, n) \in DOMAIN U /\ U[NamesTo(u, n)] = Shown(u, n)
      BY <1>1, TreeIs DEF Shows
    <2>3. Addressable(u, s)
      BY <1>6, <1>10
    <2>4. h \in Slots /\ t[h].used /\ t[h].isDir
      BY DEF IsLiveDir, Live
    <2>5. Addressable(t, h)
      BY <2>4, AddressableIs DEF Shows, NoDotDirs
    <2>6. NamesTo(t, h) \in DOMAIN T /\ T[NamesTo(t, h)] = <<>>
      BY <2>1, <2>4, <2>5 DEF Shown
    <2>7. p # <<>> /\ NamesTo(t, h) = SubSeq(p, 1, Len(p) - 1)
      BY <1>1 DEF Extends
    <2>8. p \notin DOMAIN T
      <3> SUFFICES ASSUME p \in DOMAIN T PROVE FALSE
        OBVIOUS
      <3>1. PICK m \in Slots : Addressable(t, m) /\ p = NamesTo(t, m)
        BY <2>1
      <3>2. Addressable(u, m) /\ NamesTo(u, m) = p /\ m # s
        BY <1>1, <1>4, <1>8, <3>1
      <3> HIDE DEF p
      <3> QED BY <1>1, <1>2, <2>3, <3>2, PathsDiffer DEF Shows, p
    <2> HIDE DEF T, U
    <2>9. DOMAIN U = DOMAIN T \cup {p}
      <3>1. ASSUME NEW q \in DOMAIN U PROVE q \in DOMAIN T \cup {p}
        <4>1. PICK m \in Slots : Addressable(u, m) /\ q = NamesTo(u, m)
          BY <2>2, <3>1
        <4>2. CASE m = s
          BY <4>1, <4>2
        <4>3. CASE m # s
          BY <1>1, <1>7, <1>8, <2>1, <4>1, <4>3
        <4> QED BY <4>2, <4>3
      <3>2. ASSUME NEW q \in DOMAIN T PROVE q \in DOMAIN U
        <4>1. PICK m \in Slots : Addressable(t, m) /\ q = NamesTo(t, m)
          BY <2>1, <3>2
        <4> QED BY <1>1, <1>4, <1>8, <2>2, <4>1
      <3> QED BY <1>2, <2>2, <2>3, <3>1, <3>2
    <2>10. ASSUME NEW q \in DOMAIN T PROVE U[q] = T[q]
      <3>1. PICK m \in Slots : Addressable(t, m) /\ q = NamesTo(t, m)
        BY <2>1, <2>10
      <3> QED BY <1>1, <1>4, <1>5, <1>8, <2>1, <2>2, <3>1
    <2>11. Grown(T, U, p)
      BY <2>6, <2>7, <2>8, <2>9, <2>10 DEF Grown
    <2> QED BY <1>10, <2>3, <2>11 DEF T, U
  <1> QED BY <1>9, <1>10

\* A file written is one content changed (fs.c 414-424).
LEMMA FilledTree ==
  ASSUME NEW t, NEW u, NEW n \in Slots, NEW x, Shows(t), Shows(u), Rooted(t),
         SameNodes(t, u), \A i \in Slots \ {n} : u[i].data = t[i].data,
         t[n].used, ~t[n].isDir, u[n].data = x
  PROVE  IF Addressable(t, n) THEN Filled(TreeOf(t), TreeOf(u), NamesTo(t, n), x)
         ELSE TreeOf(u) = TreeOf(t)
  <1> DEFINE T == TreeOf(t)
             U == TreeOf(u)
             p == NamesTo(t, n)
  <1>1. CASE ~Addressable(t, n)
    BY <1>1, SameTree
  <1>2. CASE Addressable(t, n)
    <2>1. Rooted(u) /\ \A m \in Slots : u[m].used => NamesTo(u, m) = NamesTo(t, m)
      BY SameNodesHang DEF Shows
    <2>2. \A m \in Slots : Addressable(u, m) <=> Addressable(t, m)
      BY <2>1 DEF Addressable, Live, SameNodes
    <2>3. \A m \in Slots : Addressable(t, m) => NamesTo(u, m) = NamesTo(t, m)
      BY <2>1 DEF Addressable, Live, SameNodes
    <2>4. /\ DOMAIN T = {NamesTo(t, m) : m \in {k \in Slots : Addressable(t, k)}}
          /\ \A m \in Slots : Addressable(t, m) =>
               NamesTo(t, m) \in DOMAIN T /\ T[NamesTo(t, m)] = Shown(t, m)
      BY TreeIs DEF Shows
    <2>5. /\ DOMAIN U = {NamesTo(u, m) : m \in {k \in Slots : Addressable(u, k)}}
          /\ \A m \in Slots : Addressable(u, m) =>
               NamesTo(u, m) \in DOMAIN U /\ U[NamesTo(u, m)] = Shown(u, m)
      BY <2>1, TreeIs DEF Shows
    <2>6. Shown(u, n) = <<x>> /\ Shown(t, n) # <<>>
      BY DEF Shown, SameNodes
    <2>7. \A m \in Slots : Addressable(t, m) /\ m # n => Shown(u, m) = Shown(t, m)
      BY DEF Shown, SameNodes, Addressable, Live
    <2> HIDE DEF T, U
    <2>8. DOMAIN U = DOMAIN T
      BY <2>2, <2>3, <2>4, <2>5
    <2>9. ASSUME NEW q \in DOMAIN T PROVE U[q] = IF q = p THEN <<x>> ELSE T[q]
      <3>1. PICK m \in Slots : Addressable(t, m) /\ q = NamesTo(t, m)
        BY <2>4, <2>9
      <3>2. U[q] = Shown(u, m) /\ T[q] = Shown(t, m)
        BY <2>2, <2>3, <2>4, <2>5, <3>1
      <3>3. q = p => m = n
        BY <1>2, <3>1, PathsDiffer DEF Shows
      <3>4. m = n => q = p
        BY <3>1
      <3> HIDE DEF p
      <3> QED BY <2>6, <2>7, <3>1, <3>2, <3>3, <3>4
    <2>10. p \in DOMAIN T /\ T[p] # <<>>
      BY <1>2, <2>4, <2>6
    <2> QED BY <1>2, <2>8, <2>9, <2>10 DEF Filled, T, U
  <1> QED BY <1>1, <1>2

\* One node less is one leaf less (fs.c 426-444).
LEMMA RemovedTree ==
  ASSUME NEW t, NEW u, NEW s, Shows(t), Shows(u), Rooted(t), Removed(t, u, s)
  PROVE  IF Addressable(t, s) THEN Shrunk(TreeOf(t), TreeOf(u), NamesTo(t, s))
         ELSE TreeOf(u) = TreeOf(t)
  <1> DEFINE T == TreeOf(t)
             U == TreeOf(u)
             p == NamesTo(t, s)
  <1>1. Rooted(u) /\ \A n \in Slots : u[n].used => NamesTo(u, n) = NamesTo(t, n)
    BY RemovedHangs DEF Shows
  <1>2. s \in Slots /\ s # 0 /\ t[s].used /\ ~u[s].used
    BY DEF Removed
  <1>3. \A n \in Slots : n # s => u[n] = t[n]
    BY DEF Removed
  <1>4. \A n \in Slots : Addressable(u, n) <=> Addressable(t, n) /\ n # s
    BY <1>1, <1>2, <1>3 DEF Addressable, Live
  <1>5. \A n \in Slots : Addressable(u, n) => /\ NamesTo(u, n) = NamesTo(t, n)
                                              /\ Shown(u, n) = Shown(t, n)
    BY <1>1, <1>3, <1>4 DEF Addressable, Live, Shown
  <1>6. CASE ~Addressable(t, s)
    <2>1. \A n \in Slots : Addressable(u, n) <=> Addressable(t, n)
      BY <1>4, <1>6
    <2>2. TreeOf(u) = TreeOf(t)
      BY <1>1, <1>5, <2>1, SameShown
    <2> QED BY <1>6, <2>2
  <1>7. CASE Addressable(t, s)
    <2>1. /\ DOMAIN T = {NamesTo(t, m) : m \in {k \in Slots : Addressable(t, k)}}
          /\ \A m \in Slots : Addressable(t, m) =>
               NamesTo(t, m) \in DOMAIN T /\ T[NamesTo(t, m)] = Shown(t, m)
      BY TreeIs DEF Shows
    <2>2. /\ DOMAIN U = {NamesTo(u, m) : m \in {k \in Slots : Addressable(u, k)}}
          /\ \A m \in Slots : Addressable(u, m) =>
               NamesTo(u, m) \in DOMAIN U /\ U[NamesTo(u, m)] = Shown(u, m)
      BY <1>1, TreeIs DEF Shows
    <2> HIDE DEF T, U
    <2>3. \A m \in Slots : Addressable(t, m) /\ NamesTo(t, m) = p => m = s
      BY <1>2, <1>7, PathsDiffer DEF Shows
    <2>4. p \in DOMAIN T
      BY <1>2, <1>7, <2>1
    <2>5. p # <<>>
      BY <1>2, RootedEntry DEF Extends
    <2>6. DOMAIN U = DOMAIN T \ {p}
      <3>1. ASSUME NEW q \in DOMAIN U PROVE q \in DOMAIN T \ {p}
        <4>1. PICK m \in Slots : Addressable(u, m) /\ q = NamesTo(u, m)
          BY <2>2, <3>1
        <4> QED BY <1>4, <1>5, <2>1, <2>3, <4>1
      <3>2. ASSUME NEW q \in DOMAIN T \ {p} PROVE q \in DOMAIN U
        <4>1. PICK m \in Slots : Addressable(t, m) /\ q = NamesTo(t, m)
          BY <2>1, <3>2
        <4> QED BY <1>4, <1>5, <2>2, <3>2, <4>1
      <3> QED BY <3>1, <3>2
    <2>7. ASSUME NEW q \in DOMAIN U PROVE U[q] = T[q]
      <3>1. PICK m \in Slots : Addressable(u, m) /\ q = NamesTo(u, m)
        BY <2>2, <2>7
      <3> QED BY <1>4, <1>5, <2>1, <2>2, <3>1
    <2>8. ASSUME NEW q \in DOMAIN T, q # <<>> PROVE SubSeq(q, 1, Len(q) - 1) # p
      <3>1. PICK m \in Slots : Addressable(t, m) /\ q = NamesTo(t, m)
        BY <2>1, <2>8
      <3>2. t[m].used /\ m # 0
        BY <2>8, <3>1, RootPath DEF Addressable, Live
      <3>3. IsLiveDir(t, t[m].parent) /\ Extends(q, NamesTo(t, t[m].parent), t[m].name)
        BY <3>1, <3>2, RootedEntry
      <3>4. t[m].parent # s
        BY <3>2 DEF Removed
      <3>5. t[m].parent \in Slots /\ t[t[m].parent].used /\ t[t[m].parent].isDir
        BY <3>3 DEF IsLiveDir, Live
      <3>6. Addressable(t, t[m].parent)
        BY <3>5, AddressableIs DEF Shows, NoDotDirs
      <3>7. NamesTo(t, t[m].parent) # p
        BY <2>3, <3>4, <3>5, <3>6
      <3> QED BY <3>3, <3>7 DEF Extends
    <2> QED BY <1>7, <2>4, <2>5, <2>6, <2>7, <2>8 DEF Shrunk, T, U
  <1> QED BY <1>6, <1>7

\* A path without its last token.
LEMMA FrontIs ==
  ASSUME NEW S, NEW s \in Seq(S), s # <<>>
  PROVE  /\ Front(s) \in Seq(S) /\ Len(Front(s)) = Len(s) - 1 /\ Len(s) \in Nat \ {0}
         /\ \A i \in 1..(Len(s) - 1) : Front(s)[i] = s[i]
  <1> DEFINE n == Len(s) - 1
             f == SubSeq(s, 1, n)
  <1>1. Len(s) \in Nat \ {0} /\ n \in Nat
    OBVIOUS
  <1>2. \A i \in 1..n : s[i] \in S
    BY <1>1
  <1> HIDE DEF n
  <1>3. /\ f \in Seq(S)
        /\ Len(f) = IF 1 <= n THEN n - 1 + 1 ELSE 0
        /\ \A i \in 1..(n - 1 + 1) : f[i] = s[1 + i - 1]
    <2>1. 1 \in Int /\ n \in Int
      BY <1>1
    <2> QED BY <1>2, <2>1, SubSeqProperties
  <1> HIDE DEF f
  <1>4. Len(f) = n /\ \A i \in 1..n : f[i] = s[i]
    BY <1>1, <1>3
  <1>5. f = Front(s)
    BY DEF Front, f, n
  <1> QED BY <1>1, <1>3, <1>4, <1>5 DEF n

\* fs_resolve of a path whose last name has a home goes there and takes that name
\* (99-136, 250-296).
LEMMA ResolveFromHome ==
  ASSUME NEW t, NEW here, NEW path \in PathType, HomeOf(t, here, path) # Fail
  PROVE  Resolve(t, here, path) = Walk(t, HomeOf(t, here, path), Last(path))
  <1> DEFINE n == Len(path)
             at == Steps(t, here, path)
             home == HomeOf(t, here, path)
             front == Front(path)
             below == Steps(t, here, front)
  <1>1. path # <<>> /\ n \in Nat /\ n # 0 /\ Last(path) = path[n]
    BY DEF HomeOf, PathType, Last
  <1>2. /\ at[0] = Origin(here, path)
        /\ \A i \in 1..n : at[i] = Walk(t, at[i - 1], path[i])
    BY <1>1, StepsAlong
  <1>3. Resolve(t, here, path) = at[n]
    BY DEF Resolve
  <1> HIDE DEF at
  <1>4. at[n] = Walk(t, at[n - 1], path[n])
    BY <1>1, <1>2
  <1>5. at[n - 1] = home
    <2>1. CASE n = 1
      <3>1. at[0] = here
        BY <1>2, <2>1 DEF Origin, IsAbsolute
      <3>2. home = here
        BY <1>1, <2>1 DEF HomeOf
      <3> QED BY <2>1, <3>1, <3>2
    <2>2. CASE n = 2 /\ path[1] = Nul
      <3>1. at[0] = 0
        BY <1>2, <2>2 DEF Origin, IsAbsolute
      <3>2. at[1] = Walk(t, at[0], Nul)
        <4>1. 1 \in 1..n /\ 1 - 1 = 0
          BY <2>2
        <4> QED BY <1>2, <2>2, <4>1
      <3>3. at[1] = 0
        BY <3>1, <3>2 DEF Walk
      <3>4. home = 0
        BY <1>1, <2>2 DEF HomeOf
      <3> QED BY <2>2, <3>3, <3>4
    <2>3. CASE n # 1 /\ ~(n = 2 /\ path[1] = Nul)
      <3>1. /\ front \in Seq(Names \cup {Nul}) /\ Len(front) = n - 1
            /\ \A i \in 1..(n - 1) : front[i] = path[i]
        BY <1>1, FrontIs DEF PathType
      <3>2. n - 1 \in Nat /\ n - 1 # 0 /\ 1 \in 1..(n - 1)
        <4>1. n \in Nat /\ n # 0 /\ n # 1
          BY <1>1, <2>3
        <4> HIDE DEF n
        <4> QED BY ONLY <4>1
      <3> HIDE DEF front
      <3>3. below[0] = Origin(here, front) /\ \A i \in 1..(n - 1) : below[i] = Walk(t, below[i - 1], front[i])
        <4>1. Len(front) \in Nat
          BY <3>1, <3>2
        <4>2. /\ below[0] = Origin(here, front)
              /\ \A i \in 1..Len(front) : below[i] = Walk(t, below[i - 1], front[i])
          BY <4>1, StepsAlong
        <4> HIDE DEF below
        <4> QED BY <3>1, <4>2
      <3>4. Origin(here, front) = Origin(here, path)
        <4>1. front[1] = path[1]
          BY <3>1, <3>2
        <4>2. CASE path[1] # Nul
          BY <4>1, <4>2 DEF Origin, IsAbsolute
        <4>3. CASE n # 2
          <5>1. n > 1 /\ Len(front) > 1
            BY <1>1, <2>3, <3>1, <4>3
          <5> QED BY <4>1, <5>1 DEF Origin, IsAbsolute
        <4> QED BY <2>3, <4>2, <4>3
      <3> HIDE DEF below, n
      <3> DEFINE S == {i \in Nat : i <= n - 1 => below[i] = at[i]}
      <3>5. 0 \in S
        BY <1>2, <3>3, <3>4
      <3>6. ASSUME NEW i \in Nat, i \in S PROVE i + 1 \in S
        <4> SUFFICES ASSUME i + 1 <= n - 1 PROVE below[i + 1] = at[i + 1]
          OBVIOUS
        <4>1. /\ i + 1 \in 1..(n - 1) /\ i + 1 \in 1..n /\ (i + 1) - 1 = i /\ i <= n - 1
          BY <1>1
        <4>2. below[i] = at[i]
          BY <3>6, <4>1
        <4>3. below[i + 1] = Walk(t, below[i], front[i + 1])
          BY <3>3, <4>1
        <4>4. at[i + 1] = Walk(t, at[i], path[i + 1])
          BY <1>2, <4>1
        <4> QED BY <3>1, <4>1, <4>2, <4>3, <4>4
      <3>7. n - 1 \in S
        <4>1. Nat \subseteq S
          <5> HIDE DEF S
          <5> QED BY <3>5, <3>6, ReachesAll
        <4> QED BY <3>2, <4>1
      <3>8. below[n - 1] = at[n - 1]
        BY <3>2, <3>7
      <3>9. Resolve(t, here, front) = below[n - 1]
        BY <3>1 DEF Resolve, below
      <3>10. home = Resolve(t, here, front)
        BY <1>1, <2>3 DEF HomeOf, front, n
      <3> QED BY <3>8, <3>9, <3>10
    <2> QED BY <2>1, <2>2, <2>3
  <1> QED BY <1>1, <1>3, <1>4, <1>5

\* From a directory in use of a tree, a path leads to a node in use or nowhere.
LEMMA ResolveIsLive ==
  ASSUME NEW t, Sane(t), Rooted(t), NEW here, Live(t, here), NEW path, Len(path) \in Nat
  PROVE  \A i \in 0..Len(path) : Steps(t, here, path)[i] # Fail => Live(t, Steps(t, here, path)[i])
  <1> DEFINE n == Len(path)
             at == Steps(t, here, path)
             S == {i \in Nat : i <= n => (at[i] # Fail => Live(t, at[i]))}
  <1>1. /\ at[0] = Origin(here, path)
        /\ \A i \in 1..n : at[i] = Walk(t, at[i - 1], path[i])
    BY StepsAlong
  <1>2. Live(t, 0)
    BY DEF Sane, RootIntact, IsLiveDir
  <1>3. ASSUME NEW a, Live(t, a), NEW token PROVE Walk(t, a, token) # Fail => Live(t, Walk(t, a, token))
    <2>1. a # 0 => Live(t, t[a].parent)
      BY <1>3, RootedEntry DEF Live, IsLiveDir
    <2>2. Find(t, a, token) # Fail => Live(t, Find(t, a, token))
      BY FoundIs DEF Live
    <2> QED BY <1>2, <1>3, <2>1, <2>2 DEF Walk
  <1>4. ASSUME NEW token PROVE Walk(t, Fail, token) = Fail
    BY DEF Walk
  <1> HIDE DEF at, n
  <1>5. 0 \in S
    <2>1. at[0] = here \/ at[0] = 0
      BY <1>1 DEF Origin
    <2> QED BY <1>2, <2>1
  <1>6. ASSUME NEW i \in Nat, i \in S PROVE i + 1 \in S
    <2> SUFFICES ASSUME i + 1 <= n PROVE at[i + 1] # Fail => Live(t, at[i + 1])
      OBVIOUS
    <2>1. i + 1 \in 1..n /\ (i + 1) - 1 = i /\ i <= n
      BY DEF n
    <2>2. at[i + 1] = Walk(t, at[i], path[i + 1])
      BY <1>1, <2>1
    <2>3. at[i] # Fail => Live(t, at[i])
      BY <1>6, <2>1
    <2> QED BY <1>3, <1>4, <2>2, <2>3
  <1>7. Nat \subseteq S
    <2> HIDE DEF S
    <2> QED BY <1>5, <1>6, ReachesAll
  <1>8. \A i \in 0..n : i \in Nat /\ i <= n
    BY DEF n
  <1> QED BY <1>7, <1>8 DEF n, at

\* A node more does not change where such a path leads.
LEMMA ResolveStaysAdded ==
  ASSUME NEW t, Sane(t), Rooted(t), NEW u, Sane(u), NEW s, Added(t, u, s),
         NEW here, Live(t, here), NEW path, Len(path) \in Nat, Resolve(t, here, path) # Fail
  PROVE  Resolve(u, here, path) = Resolve(t, here, path)
  <1> DEFINE n == Len(path)
             at == Steps(t, here, path)
             now == Steps(u, here, path)
             S == {i \in Nat : i <= n => (at[i] # Fail => now[i] = at[i])}
  <1>1. /\ at[0] = Origin(here, path)
        /\ \A i \in 1..n : at[i] = Walk(t, at[i - 1], path[i])
    BY StepsAlong
  <1>2. /\ now[0] = Origin(here, path)
        /\ \A i \in 1..n : now[i] = Walk(u, now[i - 1], path[i])
    BY StepsAlong
  <1>3. \A i \in 0..n : at[i] # Fail => Live(t, at[i])
    BY ResolveIsLive
  <1>4. ASSUME NEW a, Live(t, a), NEW token, Walk(t, a, token) # Fail
        PROVE  Walk(u, a, token) = Walk(t, a, token)
    <2>1. u[a] = t[a] /\ a \in Slots
      BY <1>4 DEF Live, Added
    <2>2. ASSUME Find(t, a, token) # Fail PROVE Find(u, a, token) = Find(t, a, token)
      <3> DEFINE f == Find(t, a, token)
      <3>1. f \in Slots /\ t[f].used /\ t[f].name = token /\ t[f].parent = a
        BY <2>2, FoundIs
      <3> HIDE DEF f
      <3>2. u[f] = t[f]
        BY <3>1 DEF Added
      <3>3. Find(u, u[f].parent, u[f].name) = f
        BY <3>1, <3>2, FindIs DEF Sane, Neat
      <3> QED BY <3>1, <3>2, <3>3 DEF f
    <2> QED BY <1>4, <2>1, <2>2 DEF Walk
  <1>5. ASSUME NEW token PROVE Walk(t, Fail, token) = Fail
    BY DEF Walk
  <1> HIDE DEF at, now, n
  <1>6. 0 \in S
    BY <1>1, <1>2
  <1>7. ASSUME NEW i \in Nat, i \in S PROVE i + 1 \in S
    <2> SUFFICES ASSUME i + 1 <= n, at[i + 1] # Fail PROVE now[i + 1] = at[i + 1]
      OBVIOUS
    <2>1. i + 1 \in 1..n /\ (i + 1) - 1 = i /\ i <= n /\ i \in 0..n
      BY DEF n
    <2>2. at[i + 1] = Walk(t, at[i], path[i + 1])
      BY <1>1, <2>1
    <2>3. now[i + 1] = Walk(u, now[i], path[i + 1])
      BY <1>2, <2>1
    <2>4. at[i] # Fail
      BY <1>5, <2>2
    <2>5. now[i] = at[i] /\ Live(t, at[i])
      BY <1>3, <1>7, <2>1, <2>4
    <2> QED BY <1>4, <2>2, <2>3, <2>5
  <1>8. Nat \subseteq S
    <2> HIDE DEF S
    <2> QED BY <1>6, <1>7, ReachesAll
  <1>9. n \in S
    BY <1>8 DEF n
  <1>10. at[n] # Fail => now[n] = at[n]
    BY <1>9 DEF n
  <1> QED BY <1>10 DEF Resolve, at, now, n

\* So a new entry goes into a directory in use, and is found there.
LEMMA HomeIsLive ==
  ASSUME NEW t, Sane(t), Rooted(t), NEW here, IsLiveDir(t, here), NEW path \in PathType,
         HomeOf(t, here, path) # Fail
  PROVE  IsLiveDir(t, HomeOf(t, here, path))
  <1> DEFINE home == HomeOf(t, here, path)
  <1>1. path # <<>> /\ Len(path) \in Nat
    BY DEF HomeOf, PathType
  <1>2. CASE Len(path) = 1
    BY <1>1, <1>2 DEF HomeOf
  <1>3. CASE Len(path) = 2 /\ path[1] = Nul
    BY <1>1, <1>3 DEF HomeOf, Sane, RootIntact
  <1>4. CASE Len(path) # 1 /\ ~(Len(path) = 2 /\ path[1] = Nul)
    <2> DEFINE front == Front(path)
    <2>1. home = Resolve(t, here, front) /\ t[home].isDir
      BY <1>1, <1>4 DEF HomeOf
    <2>2. Len(front) = Len(path) - 1
      BY <1>1, FrontIs DEF PathType
    <2>3. Len(front) \in Nat /\ Len(front) \in 0..Len(front)
      <3> HIDE DEF front
      <3>1. Len(path) # 0
        BY <1>1 DEF PathType
      <3> QED BY <1>1, <2>2, <3>1
    <2> HIDE DEF front
    <2>4. \A i \in 0..Len(front) : Steps(t, here, front)[i] # Fail => Live(t, Steps(t, here, front)[i])
      BY <2>3, ResolveIsLive DEF IsLiveDir
    <2>5. Live(t, home)
      BY <2>1, <2>3, <2>4 DEF Resolve
    <2> QED BY <2>1, <2>5 DEF IsLiveDir
  <1> QED BY <1>2, <1>3, <1>4

\* fs_write_file resolves the path again (403-407) and finds the node it made, or a
\* directory that was there.
LEMMA MadeIsFound ==
  ASSUME NEW t, Sane(t), Rooted(t), NEW here, IsLiveDir(t, here), NEW path \in PathType,
         HomeOf(t, here, path) # Fail,
         NEW u, Sane(u), NEW s, Added(t, u, s),
         u[s].parent = HomeOf(t, here, path), u[s].name = Last(path)
  PROVE  Resolve(u, here, path) = s \/ IsLiveDir(u, Resolve(u, here, path))
  <1> DEFINE home == HomeOf(t, here, path)
             name == Last(path)
  <1>1. path # <<>> /\ Len(path) \in Nat /\ ValidName(name)
    BY DEF HomeOf, PathType
  <1>2. IsLiveDir(t, home)
    BY HomeIsLive
  <1>3. home \in Slots /\ home # s /\ u[home] = t[home] /\ t[home].used /\ t[home].isDir
    BY <1>2 DEF IsLiveDir, Live, Added
  <1>4. s \in Slots /\ u[s].used
    BY DEF Added
  <1>5. HomeOf(u, here, path) = home
    <2>1. CASE Len(path) = 1
      BY <1>1, <2>1 DEF HomeOf
    <2>2. CASE Len(path) = 2 /\ path[1] = Nul
      <3>1. home = 0
        BY <1>1, <2>2 DEF HomeOf
      <3> QED BY <1>1, <1>3, <2>2, <3>1 DEF HomeOf
    <2>3. CASE Len(path) # 1 /\ ~(Len(path) = 2 /\ path[1] = Nul)
      <3> DEFINE front == Front(path)
      <3>1. home = Resolve(t, here, front)
        BY <1>1, <2>3 DEF HomeOf
      <3>2. Len(front) \in Nat
        <4>1. Len(front) = Len(path) - 1
          BY <1>1, FrontIs DEF PathType
        <4> HIDE DEF front
        <4>2. Len(path) # 0
          BY <1>1 DEF PathType
        <4> QED BY <1>1, <4>1, <4>2
      <3>3. Resolve(t, here, front) # Fail
        BY <3>1
      <3> HIDE DEF front, home
      <3>4. Resolve(u, here, front) = home
        BY <3>1, <3>2, <3>3, ResolveStaysAdded DEF IsLiveDir
      <3> QED BY <1>1, <1>3, <2>3, <3>4 DEF HomeOf, front
    <2> QED BY <2>1, <2>2, <2>3
  <1>6. home # Fail
    OBVIOUS
  <1>7. Resolve(u, here, path) = Walk(u, home, name)
    BY <1>5, <1>6, ResolveFromHome
  <1>8. u[s].parent = home /\ u[s].name = name
    OBVIOUS
  <1> HIDE DEF home, name
  <1>9. CASE name = "."
    BY <1>1, <1>3, <1>7, <1>9 DEF Walk, IsLiveDir, Live
  <1>10. CASE name = ".."
    <2>1. Walk(u, home, name) = IF home = 0 THEN 0 ELSE t[home].parent
      BY <1>3, <1>6, <1>10 DEF Walk, Nul
    <2>2. IsLiveDir(t, IF home = 0 THEN 0 ELSE t[home].parent)
      BY <1>3, RootedEntry DEF Sane, RootIntact
    <2>3. IsLiveDir(u, IF home = 0 THEN 0 ELSE t[home].parent)
      BY <2>2 DEF IsLiveDir, Live, Added
    <2> QED BY <1>7, <2>1, <2>3
  <1>11. CASE name \notin {".", ".."}
    <2>1. Walk(u, home, name) = Find(u, home, name)
      BY <1>1, <1>6, <1>11 DEF Walk, ValidName
    <2>2. Find(u, u[s].parent, u[s].name) = s
      BY <1>4, FindIs DEF Sane, Neat
    <2> QED BY <1>7, <1>8, <2>1, <2>2
  <1> QED BY <1>9, <1>10, <1>11

\* Where mkdir and touch may make an entry because nothing is found, its name is not
\* "." or "..": those are found everywhere.
LEMMA MissingIsProper ==
  ASSUME NEW t \in Tables, NEW here \in Slots, NEW path \in PathType,
         HomeOf(t, here, path) # Fail, Resolve(t, here, path) = Fail
  PROVE  Last(path) \notin {".", ".."}
  <1> DEFINE home == HomeOf(t, here, path)
  <1>1. home \in Slots
    BY HomeIsSlot
  <1>2. Walk(t, home, Last(path)) = Fail
    BY ResolveFromHome
  <1>3. home # Fail /\ 0 # Fail /\ t[home].parent # Fail
    BY <1>1, TableAssumption DEF Slots, Fail, Tables, NodeType
  <1> HIDE DEF home
  <1> QED BY <1>2, <1>3 DEF Walk, Nul
=============================================================================
