--------------------------- MODULE FurDesktopProofs ---------------------------
(***************************************************************************)
(* For every size of the table, every set of names, users, texts and disks *)
(* and every plan.  Of a terminal session: the table keeps its shape, pwd  *)
(* names the node it is asked about, and whatever is typed the table       *)
(* behaves as a tree of paths.  Of the desktop around it: a table that     *)
(* memory happened to hold after a cold start never gets to the disk, which*)
(* takes two facts of two components (as long as no terminal was opened    *)
(* nothing has filled the driver's list of disks, and what fills it runs   *)
(* after fs_init); one that a reset left of a login gets there only if the *)
(* kernel has a disk selected from the start; and editor, settings and     *)
(* file manager show what is there, on such tables too.                    *)
(***************************************************************************)
EXTENDS FurDesktop, NodeTableProofs

------------------------------------------------------------------------------
(* Sessions *)

\* A table that may be saved: neat, and if its root is in use that is the root.
Formed(t) == Neat(t) /\ (t[0].used => RootIntact(t))

\* What every step preserves, part by part: a sane table in memory, a current
\* directory that is at least a slot of it, and well formed tables on the disk and
\* in whatever a loss of power may bring back.
SessionOK ==
  /\ cwd \in Slots
  /\ phase \in {"off", "seeding", "ready", "installing"}
  /\ todo \in Seq(EntryType)

DiskOK ==
  /\ stored \in cands /\ cached \in BOOLEAN
  /\ \A img \in cands \ {Nothing} :
       img \in [version : {1, 2}, table : Tables] /\ Formed(img.table)
  /\ kept = Nothing \/ kept \in Tables
  /\ kept # Nothing => HasDisk /\ stored = Image(2, kept)
  /\ saves \in Nat /\ faults \in Nat

IInv == Sane(nodes) /\ SessionOK /\ DiskOK

\* A session saves tables with a root.  (A desktop need not.)
KeptOK == kept # Nothing => RootIntact(kept)

LEMMA InvariantMeans == IInv /\ KeptOK => TypeOK /\ UniqueNames /\ RootStays
  BY DEF IInv, SessionOK, DiskOK, KeptOK, Formed, Sane, Neat, TypeOK, UniqueNames, RootStays

\* An image that is loaded has a root.
LEMMA DecodesSane ==
  ASSUME DiskOK, stored # Nothing, Decodes(stored)
  PROVE  stored \in [version : {1, 2}, table : Tables] /\ Sane(stored.table)
  BY DEF DiskOK, Decodes, IsLiveDir, Live, Formed, Sane

\* What an earlier session left on the disk.
LEMMA MayBeOnDisk ==
  ASSUME NEW img \in InitialDisks \ {Nothing}
  PROVE  img \in [version : {1, 2}, table : Tables] /\ Formed(img.table)
  <1>1. img.table \in Tables
    BY ShellAssumption
  <1> QED BY <1>1, ShellAssumption DEF Formed, Neat

\* A machine switched on, its disk blank or written by an earlier session.
LEMMA InitIsSane == Init => IInv
  <1> SUFFICES ASSUME Init PROVE IInv
    OBVIOUS
  <1>1. Sane(nodes)
    BY FreshIsSane DEF Init
  <1>2. SessionOK
    BY TableAssumption DEF Init, SessionOK, Slots
  <1>3. DiskOK
    <2>1. cands \ {Nothing} \subseteq InitialDisks \ {Nothing} /\ stored \in cands
      BY DEF Init
    <2> QED BY <2>1, MayBeOnDisk DEF Init, DiskOK
  <1> QED BY <1>1, <1>2, <1>3 DEF IInv

\* A save adds a well formed table to what the disk may hold.
LEMMA SaveIsSane ==
  ASSUME DiskOK, NEW t, Formed(t), SaveWorks(t) \/ SaveFails(t)
  PROVE  DiskOK'
  <1>1. /\ Image(2, t) \in [version : {1, 2}, table : Tables]
        /\ Image(2, t).table = t
    BY DEF Image, Formed, Neat
  <1>2. /\ stored' \in cands' /\ cached' \in BOOLEAN
        /\ cands' \subseteq cands \cup {Nothing, Image(2, t)}
    BY DEF SaveWorks, SaveFails, Written, Flushed
  <1>3. kept' \in {Nothing, t} /\ saves' \in Nat /\ faults' \in Nat
    BY DEF SaveWorks, SaveFails, DiskOK
  <1>4. kept' # Nothing => HasDisk /\ stored' = Image(2, kept')
    BY DEF SaveWorks, SaveFails
  <1> HIDE DEF Image
  <1> QED BY <1>1, <1>2, <1>3, <1>4 DEF DiskOK, Formed, Neat

\* A step that leaves the disk alone.
LEMMA DiskUntouched ==
  ASSUME DiskOK, UNCHANGED <<stored, cands, cached, kept, saves>>, faults' \in Nat
  PROVE  DiskOK'
  BY DEF DiskOK

\* A loss of power brings back what was written, or nothing.
LEMMA PowerLossIsSane ==
  ASSUME DiskOK, PowerLoss
  PROVE  DiskOK'
  BY DEF DiskOK, PowerLoss

\* A command that makes a sane table of the nodes and does nothing else.
LEMMA EditIsSane ==
  ASSUME IInv, NEW t, Sane(t), Edit(t)
  PROVE  IInv'
  <1>1. Sane(nodes') /\ UNCHANGED <<session, disk>>
    BY DEF Edit
  <1>2. SessionOK'
    BY <1>1 DEF IInv, SessionOK, session
  <1>3. DiskOK'
    BY <1>1 DEF IInv, DiskOK, disk
  <1> QED BY <1>1, <1>2, <1>3 DEF IInv

\* Logging in, whatever the table was before (shell.c 1319-1330).
LEMMA LoginIsSane ==
  ASSUME SessionOK, DiskOK, LoginFromDisk \/ LoginLive
  PROVE  IInv'
  <1>0. 0 \in Slots
    BY TableAssumption DEF Slots
  <1>1. CASE LoginFromDisk
    <2>1. Sane(nodes')
      BY <1>1, DecodesSane, DecodeIsSane DEF LoginFromDisk, LoadWorks
    <2>2. SessionOK'
      BY <1>0, <1>1 DEF LoginFromDisk, SessionOK
    <2>3. DiskOK'
      BY <1>1, DiskUntouched DEF LoginFromDisk, disk, DiskOK
    <2> QED BY <2>1, <2>2, <2>3 DEF IInv
  <1>2. CASE LoginLive
    <2>1. Sane(nodes')
      BY <1>2, FreshIsSane DEF LoginLive
    <2>2. SessionOK'
      BY <1>0, <1>2, ShellAssumption DEF LoginLive, SessionOK
    <2>3. DiskOK'
      BY <1>2, DiskUntouched DEF LoginLive, LoadFails, DiskOK
    <2> QED BY <2>1, <2>2, <2>3 DEF IInv
  <1> QED BY <1>1, <1>2

\* Seeding and installing.
LEMMA SystemStepsAreSane ==
  ASSUME IInv, LoginFromDisk \/ LoginLive \/ PlantNext \/ SeedDone \/ InstallEnd \/ Reset
  PROVE  IInv'
  <1> USE DEF IInv
  <1>0. 0 \in Slots
    BY TableAssumption DEF Slots
  <1>1. CASE LoginFromDisk \/ LoginLive
    BY <1>1, LoginIsSane
  <1>3. CASE PlantNext
    <2>1. Head(todo) \in EntryType /\ Tail(todo) \in Seq(EntryType)
      BY <1>3 DEF PlantNext, SessionOK
    <2>2. ASSUME NEW e \in EntryType PROVE Sane(Plant(nodes, e))
      <3>1. /\ e.path \in PathType /\ e.owner \in Uids
            /\ e.text \in Texts \cup {Nul}
        BY DEF EntryType
      <3>2. CASE e.isDir
        BY <1>0, <3>1, <3>2, CreateKeeps, TableAssumption DEF Plant, Sane, Keeps
      <3>3. CASE ~e.isDir
        BY <1>0, <3>1, <3>3, WriteKeeps DEF Plant, Sane, Keeps
      <3> QED BY <3>2, <3>3
    <2>3. Sane(nodes')
      BY <1>3, <2>1, <2>2 DEF PlantNext
    <2>4. SessionOK'
      BY <1>3, <2>1 DEF PlantNext, SessionOK
    <2>5. DiskOK'
      BY <1>3, DiskUntouched DEF PlantNext, disk, DiskOK
    <2> QED BY <2>3, <2>4, <2>5
  <1>4. CASE SeedDone
    <2>1. SessionOK'
      BY <1>0, <1>4 DEF SeedDone, SessionOK
    <2>2. DiskOK' /\ nodes' = nodes
      BY <1>4, DiskUntouched DEF SeedDone, disk, DiskOK
    <2> QED BY <2>1, <2>2
  <1>5. CASE InstallEnd
    <2>1. SessionOK' /\ nodes' = nodes
      BY <1>0, <1>5 DEF InstallEnd, SessionOK
    <2>2. DiskOK'
      BY <1>5, SaveIsSane DEF InstallEnd, Sane, Formed
    <2> QED BY <2>1, <2>2
  <1>6. CASE Reset
    <2>1. SessionOK'
      BY <1>0, <1>6 DEF Reset, SessionOK
    <2>2. DiskOK'
      <3>1. CASE UNCHANGED disk
        BY <3>1, DiskUntouched DEF disk, DiskOK
      <3> QED BY <1>6, <3>1, PowerLossIsSane DEF Reset
    <2> QED BY <1>6, <2>1, <2>2, FreshIsSane DEF Reset
  <1> QED BY <1>1, <1>3, <1>4, <1>5, <1>6

\* The commands of shell_dispatch (shell.c 1253-1310).
LEMMA CommandsAreSane ==
  ASSUME IInv, Command
  PROVE  IInv'
  <1> USE DEF IInv
  <1>0. 0 \in Slots /\ cwd \in Slots
    BY TableAssumption DEF Slots, SessionOK
  <1>1. CASE CdHome
    <2>1. SessionOK' /\ nodes' = nodes
      BY <1>0, <1>1 DEF CdHome, SessionOK
    <2>2. DiskOK'
      BY <1>1, DiskUntouched DEF CdHome, disk, DiskOK
    <2> QED BY <2>1, <2>2
  <1>2. CASE Sync \/ Logout
    <2>1. SessionOK' /\ nodes' = nodes
      BY <1>2 DEF Sync, Logout, session, SessionOK
    <2>2. CASE SaveWorks(nodes) \/ SaveFails(nodes)
      BY <2>1, <2>2, SaveIsSane DEF Sane, Formed
    <2>3. CASE UNCHANGED disk
      BY <2>1, <2>3, DiskUntouched DEF disk, DiskOK
    <2> QED BY <1>2, <2>2, <2>3 DEF Sync, Logout
  <1>3. CASE DiskLoad
    <2>1. Sane(nodes')
      BY <1>3, DecodesSane, DecodeIsSane, FreshIsSane DEF DiskLoad
    <2>2. SessionOK'
      BY <1>0, <1>3 DEF DiskLoad, SessionOK
    <2>3. DiskOK'
      BY <1>3, DiskUntouched DEF DiskLoad, disk, DiskOK
    <2> QED BY <2>1, <2>2, <2>3
  <1>4. CASE DiskFormat \/ InstallBegin
    <2>1. Sane(nodes') /\ (SaveWorks(FreshTable) \/ SaveFails(FreshTable))
      BY <1>4, FreshIsSane DEF DiskFormat, InstallBegin
    <2>2. SessionOK'
      BY <1>0, <1>4, ShellAssumption DEF DiskFormat, InstallBegin, SessionOK
    <2>3. DiskOK'
      BY <2>1, SaveIsSane, FreshIsSane DEF Sane, Formed
    <2> QED BY <2>1, <2>2, <2>3
  <1>5. ASSUME NEW path \in Paths,
               \/ Rm(path)
               \/ \E text \in Texts :
                    WriteFile(path, text) \/ \E save \in BOOLEAN : Nano(path, text, save)
        PROVE  IInv'
    <2>0. path \in PathType
      BY ShellAssumption
    <2>1. CASE Rm(path)
      BY <2>1, RemoveIsSane, EditIsSane DEF Rm
    <2>2. ASSUME NEW text \in Texts, WriteFile(path, text)
          PROVE  IInv'
      BY <1>0, <2>0, <2>2, WriteKeeps, EditIsSane DEF WriteFile, Sane, Keeps
    <2>3. ASSUME NEW text \in Texts, NEW save \in BOOLEAN, Nano(path, text, save)
          PROVE  IInv'
      <3> DEFINE t == Touch(nodes, cwd, path)
                 u == Write(t, cwd, path, text)
      <3>1. Sane(t)
        BY <1>0, <2>0, TouchKeeps DEF Sane, Keeps
      <3>2. Sane(u)
        <4> HIDE DEF t
        <4> QED BY <1>0, <2>0, <3>1, WriteKeeps DEF Sane, Keeps
      <3>3. Edit(t) \/ Edit(u)
        BY <2>3 DEF Nano
      <3> HIDE DEF t, u
      <3> QED BY <3>1, <3>2, <3>3, EditIsSane
    <2> QED BY <1>5, <2>1, <2>2, <2>3
  <1>6. ASSUME NEW path \in Paths, NEW uid \in Users,
               \/ Cd(path, uid) \/ Mkdir(path, uid) \/ TouchFile(path, uid)
               \/ Chown(path, uid)
               \/ \E mode \in NewModes : Chmod(path, mode, uid)
        PROVE  IInv'
    <2>0. path \in PathType /\ uid \in Uids
      BY ShellAssumption
    <2>1. CASE Cd(path, uid)
      <3>1. SessionOK' /\ nodes' = nodes
        BY <2>1 DEF Cd, IsLiveDir, Live, SessionOK
      <3>2. DiskOK'
        BY <2>1, DiskUntouched DEF Cd, disk, DiskOK
      <3> QED BY <3>1, <3>2
    <2>2. CASE Mkdir(path, uid) \/ TouchFile(path, uid)
      <3>1. PICK isDir \in BOOLEAN, mode \in Modes :
              Edit(Create(nodes, cwd, path, isDir, uid, mode))
        BY <2>2, TableAssumption DEF Mkdir, TouchFile
      <3> QED BY <1>0, <2>0, <3>1, CreateKeeps, EditIsSane DEF Sane, Keeps
    <2>3. CASE Chown(path, uid)
      <3>1. Edit(SetOwner(nodes, Resolve(nodes, cwd, path), uid))
        BY <2>3 DEF Chown
      <3>2. Sane(SetOwner(nodes, Resolve(nodes, cwd, path), uid))
        BY <2>0, SettersAreSane, TableAssumption
      <3> QED BY <3>1, <3>2, EditIsSane
    <2>4. ASSUME NEW mode \in NewModes, Chmod(path, mode, uid)
          PROVE  IInv'
      <3>1. Edit(SetMode(nodes, Resolve(nodes, cwd, path), mode))
        BY <2>4 DEF Chmod
      <3>2. Sane(SetMode(nodes, Resolve(nodes, cwd, path), mode))
        BY <2>0, SettersAreSane, ShellAssumption
      <3> QED BY <3>1, <3>2, EditIsSane
    <2> QED BY <1>6, <2>1, <2>2, <2>3, <2>4
  <1> QED BY <1>1, <1>2, <1>3, <1>4, <1>5, <1>6 DEF Command

LEMMA NextIsSane == IInv /\ [Next]_vars => IInv'
  <1> SUFFICES ASSUME IInv, [Next]_vars PROVE IInv'
    OBVIOUS
  <1>1. CASE UNCHANGED vars
    BY <1>1 DEF vars, session, disk, IInv, SessionOK, DiskOK
  <1> QED BY <1>1, SystemStepsAreSane, CommandsAreSane DEF Next

\* What a session saved has a root, and only a save sets what was kept.
LEMMA NextKeeps ==
  ASSUME IInv, KeptOK, [Next]_vars
  PROVE  KeptOK'
  <1>1. RootIntact(nodes) /\ RootIntact(FreshTable)
    BY FreshIsSane DEF IInv, Sane
  <1>2. kept' \in {kept, Nothing, nodes, FreshTable}
    <2>1. CASE UNCHANGED disk
      BY <2>1 DEF disk
    <2>2. CASE InstallEnd \/ Sync \/ Logout \/ DiskFormat \/ InstallBegin
      BY <2>1, <2>2 DEF InstallEnd, Sync, Logout, DiskFormat, InstallBegin, SaveWorks, SaveFails
    <2>3. CASE LoginLive \/ Reset
      BY <2>1, <2>3 DEF LoginLive, Reset, PowerLoss
    <2>4. CASE LoginFromDisk \/ PlantNext \/ SeedDone \/ CdHome \/ DiskLoad
      BY <2>1, <2>4 DEF LoginFromDisk, PlantNext, SeedDone, CdHome, DiskLoad
    <2>5. CASE \E path \in Paths :
                 \/ Rm(path)
                 \/ \E text \in Texts :
                      WriteFile(path, text) \/ \E save \in BOOLEAN : Nano(path, text, save)
                 \/ \E uid \in Users :
                      \/ Cd(path, uid) \/ Mkdir(path, uid) \/ TouchFile(path, uid)
                      \/ Chown(path, uid)
                      \/ \E mode \in NewModes : Chmod(path, mode, uid)
      BY <2>1, <2>5 DEF Rm, WriteFile, Nano, Cd, Mkdir, TouchFile, Chown, Chmod, Edit
    <2>6. CASE UNCHANGED vars
      BY <2>1, <2>6 DEF vars
    <2> QED BY <2>2, <2>3, <2>4, <2>5, <2>6 DEF Next, Command
  <1> QED BY <1>1, <1>2 DEF KeptOK

LEMMA SessionsAreSane == Spec => [](IInv /\ KeptOK)
  <1>1. Init => KeptOK
    BY DEF Init, KeptOK
  <1>2. IInv /\ KeptOK /\ [Next]_vars => IInv' /\ KeptOK'
    BY NextIsSane, NextKeeps
  <1> QED BY <1>1, <1>2, InitIsSane, PTL DEF Spec

\* In every session the table, the current directory and the disk keep their
\* types, no directory has two entries of one name (find_child, fs.c 87-97,
\* would hide one) and the root stays the root (fs.c 270, 609).
THEOREM SessionInvariant == Spec => [](TypeOK /\ UniqueNames /\ RootStays)
  <1>1. Spec => [](IInv /\ KeptOK)
    BY SessionsAreSane
  <1> QED BY <1>1, InvariantMeans, PTL

\* In every session the state has its types: above all the current directory and
\* every parent index are slots of the table (fs.c 249-296 does not ask).
THEOREM TypeCorrect == Spec => []TypeOK
  BY SessionInvariant, PTL

\* The root stays the root, in memory and on disk (fs.c 270, 430, 609).
THEOREM RootIsKept == Spec => []RootStays
  BY SessionInvariant, PTL

\* A session that follows a save that worked starts from that table, unless the
\* power failed before the save was flushed, whatever was done before and whoever
\* did it (shell.c 1324, 1363; disk.c 195-288).
THEOREM SessionsDoResume == Spec => SessionsResume
  <1> DEFINE resumes == phase = "off" /\ phase' # "off" /\ kept # Nothing /\ faults' = faults
                          => /\ phase' = "ready"
                             /\ \A i \in Slots \ {0} : nodes'[i] = kept[i]
  <1>1. ASSUME IInv, KeptOK, [Next]_vars PROVE resumes
    <2> SUFFICES ASSUME phase = "off", phase' # "off", kept # Nothing, faults' = faults
                 PROVE  phase' = "ready" /\ \A i \in Slots \ {0} : nodes'[i] = kept[i]
      OBVIOUS
    <2>1. HasDisk /\ stored = Image(2, kept) /\ kept \in Tables
      BY <1>1 DEF IInv, DiskOK
    <2>2. stored.table = kept /\ stored.version = 2
      BY <2>1 DEF Image
    <2>3. stored # Nothing
      <3>1. DOMAIN stored # DOMAIN Nothing
        BY <2>1 DEF Image, Nothing
      <3> QED BY <3>1
    <2>4. LoadWorks
      BY <1>1, <2>1, <2>2, <2>3 DEF LoadWorks, Decodes, KeptOK, RootIntact
    <2>5. ~LoginLive
      BY <2>1, <2>4, <1>1 DEF LoginLive, LoadFails, IInv, DiskOK
    <2>6. LoginFromDisk
      BY <1>1, <2>5 DEF Next, vars, session, PlantNext, SeedDone, InstallEnd, Reset,
         Command, CdHome, Sync, DiskLoad, DiskFormat, InstallBegin, Logout, Rm,
         WriteFile, Nano, Cd, Mkdir, TouchFile, Chmod, Chown, Edit, Ready
    <2> QED BY <2>2, <2>6 DEF LoginFromDisk, Decode, Fields
  <1>2. Spec => [](IInv /\ KeptOK)
    BY SessionsAreSane
  <1>3. IInv /\ KeptOK /\ [Next]_vars => [resumes]_vars
    BY <1>1
  <1> QED BY <1>2, <1>3, PTL DEF Spec, SessionsResume

\* The path pwd prints leads back to the node, from anywhere, whatever was created,
\* removed or loaded, as long as the nodes form a tree (fs.c 250-296, 458-494).
THEOREM PathsDoLeadBack == Spec => []PathsLeadBack
  <1>1. IInv => PathsLeadBack
    <2> SUFFICES ASSUME IInv, Rooted(nodes), NEW n \in Slots, Addressable(nodes, n),
                        NEW from \in Slots
                 PROVE  Resolve(nodes, from, MakePath(nodes, n)) = n
      BY DEF PathsLeadBack
    <2>1. nodes[n].used /\ {".", ".."} \cap Range(NamesTo(nodes, n)) = {}
      BY DEF Addressable, Live
    <2>2. /\ Ancestors(nodes, n)[MaxNodes] = 0
          /\ \A d \in 1..MaxNodes : /\ nodes[Ancestors(nodes, n)[d]].used
                                   /\ Ancestors(nodes, n)[d] \in Slots
      BY <2>1 DEF Rooted, IsLiveDir, Live
    <2> QED BY <2>1, <2>2, PathLeadsBack DEF IInv, Sane
  <1>2. Spec => []IInv
    BY InitIsSane, NextIsSane, PTL DEF Spec
  <1> QED BY <1>1, <1>2, PTL

------------------------------------------------------------------------------
(* A session as a tree of paths *)

Lost == [p \in {} |-> <<>>]

\* How a command may change a tree T into U, and with it the path of the current
\* directory: the changes of PathTree, without the image.
Slips(T, U) == \E V : \E p, q, x : Grown(T, V, p) /\ q \in DOMAIN T /\ Filled(V, U, q, x)
                                  /\ V = [r \in DOMAIN V |-> V[r]]

Edits(T, U, here, there) ==
  \/ U = T /\ there = here
  \/ \E p : /\ Grown(T, U, p)
            /\ there = here \/ (here = <<Nul>> /\ U[p] = <<>> /\ there = p)
  \/ \E p, x : Filled(T, U, p, x) /\ there = here
  \/ \E p : Shrunk(T, U, p) /\ there = IF here = p THEN <<Nul>> ELSE here
  \/ here = <<Nul>> /\ there = <<Nul>> /\ (Slips(T, U) \/ U = Lost)
  \/ T = Lost /\ (U = Lost \/ Tree!IsTree(U))

\* The paths of a table that is a tree form a tree.
LEMMA TreeIsTree ==
  ASSUME NEW t, Shows(t), Rooted(t)
  PROVE  /\ Tree!IsTree(TreeOf(t)) /\ TreeOf(t) # Lost
         /\ \A n \in Slots : IsLiveDir(t, n) => /\ NamesTo(t, n) \in DOMAIN TreeOf(t)
                                                /\ TreeOf(t)[NamesTo(t, n)] = <<>>
                                                /\ NamesTo(t, n) # <<Nul>>
  <1> DEFINE T == TreeOf(t)
  <1>1. /\ DOMAIN T = {NamesTo(t, m) : m \in {k \in Slots : Addressable(t, k)}}
        /\ \A n \in Slots : Addressable(t, n) =>
             NamesTo(t, n) \in DOMAIN T /\ T[NamesTo(t, n)] = Shown(t, n)
    BY TreeIs DEF Shows
  <1>2. ASSUME NEW n \in Slots, IsLiveDir(t, n)
        PROVE  NamesTo(t, n) \in DOMAIN T /\ T[NamesTo(t, n)] = <<>>
    <2>1. Addressable(t, n)
      BY <1>2, AddressableIs DEF IsLiveDir, Live, Shows, NoDotDirs
    <2> QED BY <1>1, <1>2, <2>1 DEF Shown, IsLiveDir
  <1>3. IsLiveDir(t, 0) /\ 0 \in Slots
    BY DEF Shows, Sane, RootIntact, IsLiveDir, Live
  <1>4. <<>> \in DOMAIN T /\ T[<<>>] = <<>>
    <2>1. NamesTo(t, 0) = <<>>
      BY RootPath
    <2> QED BY <1>2, <1>3, <2>1
  <1> HIDE DEF T
  <1>5. ASSUME NEW p \in DOMAIN T \ {<<>>}
        PROVE  SubSeq(p, 1, Len(p) - 1) \in DOMAIN T /\ T[SubSeq(p, 1, Len(p) - 1)] = <<>>
    <2>1. PICK m \in Slots : Addressable(t, m) /\ p = NamesTo(t, m)
      BY <1>1
    <2>2. t[m].used /\ m # 0
      BY <2>1, RootPath DEF Addressable, Live
    <2>3. IsLiveDir(t, t[m].parent) /\ Extends(p, NamesTo(t, t[m].parent), t[m].name)
      BY <2>1, <2>2, RootedEntry
    <2>4. t[m].parent \in Slots
      BY <2>3 DEF IsLiveDir, Live
    <2>5. NamesTo(t, t[m].parent) = SubSeq(p, 1, Len(p) - 1)
      BY <2>3 DEF Extends
    <2> QED BY <1>2, <2>3, <2>4, <2>5
  <1>6. Tree!IsTree(T)
    BY <1>4, <1>5 DEF Tree!IsTree, Tree!IsDir, Tree!Root, Tree!Up
  <1>7. T # Lost
    <2>1. DOMAIN Lost = {}
      BY DEF Lost
    <2> QED BY <1>4, <2>1
  <1>8. ASSUME NEW n \in Slots, IsLiveDir(t, n) PROVE NamesTo(t, n) # <<Nul>>
    <2>1. CASE n = 0
      <3>1. Len(NamesTo(t, n)) = 0 /\ Len(<<Nul>>) = 1
        BY <2>1, RootPath
      <3> QED BY <3>1
    <2>2. CASE n # 0
      <3>1. Extends(NamesTo(t, n), NamesTo(t, t[n].parent), t[n].name)
        BY <1>8, <2>2, RootedEntry DEF IsLiveDir, Live
      <3>2. t[n].name \in Range(NamesTo(t, n))
        BY <3>1 DEF Extends
      <3>3. t[n].name \in Names
        BY <1>8, <2>2 DEF Shows, Sane, Neat, ProperlyNamed, IsLiveDir, Live
      <3>4. Range(<<Nul>>) = {Nul}
        BY DEF Range
      <3> QED BY <3>2, <3>3, <3>4, TableAssumption
    <2> QED BY <2>1, <2>2
  <1> QED BY <1>2, <1>6, <1>7, <1>8 DEF T

\* Once the nodes are no tree, nothing is asked of what becomes of them.
LEMMA StrayEdits ==
  ASSUME NEW t, NEW u, Shows(u), ~Rooted(t), NEW here, NEW there
  PROVE  Edits(TreeOf(t), TreeOf(u), here, there)
  <1>1. TreeOf(t) = Lost
    BY DEF TreeOf, Lost
  <1>2. CASE Rooted(u)
    BY <1>1, <1>2, TreeIsTree DEF Edits
  <1>3. CASE ~Rooted(u)
    <2>1. TreeOf(u) = Lost
      BY <1>3 DEF TreeOf, Lost
    <2> QED BY <1>1, <2>1 DEF Edits
  <1> QED BY <1>2, <1>3

\* The current directory keeps its path if the nodes keep theirs.
LEMMA SamePath ==
  ASSUME NEW t, NEW u, Rooted(t), Rooted(u), NEW c,
         IsLiveDir(u, c) <=> IsLiveDir(t, c),
         IsLiveDir(t, c) => NamesTo(u, c) = NamesTo(t, c)
  PROVE  PathOf(u, c) = PathOf(t, c)
  BY DEF PathOf

\* A command that leaves every node in its place, and changes no content.
LEMMA SameEdits ==
  ASSUME NEW t, NEW u, Shows(t), Shows(u), SameNodes(t, u), NEW c,
         \A n \in Slots : Addressable(t, n) => t[n].isDir \/ u[n].data = t[n].data
  PROVE  Edits(TreeOf(t), TreeOf(u), PathOf(t, c), PathOf(u, c))
  <1>1. TreeOf(u) = TreeOf(t)
    BY SameTree
  <1>2. CASE Rooted(t)
    <2>1. Rooted(u) /\ \A n \in Slots : u[n].used => NamesTo(u, n) = NamesTo(t, n)
      BY <1>2, SameNodesHang DEF Shows
    <2>2. PathOf(u, c) = PathOf(t, c)
      BY <1>2, <2>1, SamePath DEF IsLiveDir, Live, SameNodes
    <2> QED BY <1>1, <2>2 DEF Edits
  <1>3. CASE ~Rooted(t)
    BY <1>3, StrayEdits
  <1> QED BY <1>2, <1>3

\* fs_remove (426-444): a leaf goes, and with it perhaps the current directory.
LEMMA RemoveEdits ==
  ASSUME NEW t, Shows(t), NEW c, NEW path, Shows(RemoveNode(t, c, path))
  PROVE  Edits(TreeOf(t), TreeOf(RemoveNode(t, c, path)),
               PathOf(t, c), PathOf(RemoveNode(t, c, path), c))
  <1> DEFINE n == Resolve(t, c, path)
             u == RemoveNode(t, c, path)
             empty == t[n].isDir => \A i \in Slots : t[i].used => t[i].parent # n
  <1>1. CASE ~Rooted(t)
    BY <1>1, StrayEdits
  <1>2. CASE u = t
    BY <1>2 DEF Edits
  <1>3. CASE Rooted(t) /\ u # t
    <2>1. n \in Slots \ {0} /\ empty
          /\ u = [t EXCEPT ![n] = [Vacant EXCEPT !.isDir = t[n].isDir, !.parent = t[n].parent]]
      BY <1>3 DEF RemoveNode
    <2>2. ~u[n].used /\ \A i \in Slots \ {n} : u[i] = t[i]
      BY <2>1 DEF Shows, Sane, Neat, Tables, Vacant
    <2> HIDE DEF n, u
    <2>3. CASE ~t[n].used
      <3>1. SameNodes(t, u)
        <4>1. t[n].used \in BOOLEAN /\ u[n].used \in BOOLEAN
          BY <2>1 DEF Shows, Sane, Neat, Tables, NodeType, u
        <4> QED BY <2>1, <2>2, <2>3, <4>1 DEF SameNodes
      <3>2. \A i \in Slots : Addressable(t, i) => u[i].data = t[i].data
        BY <2>2, <2>3 DEF Addressable, Live
      <3>3. Shows(u)
        BY DEF u
      <3>4. Edits(TreeOf(t), TreeOf(u), PathOf(t, c), PathOf(u, c))
        BY <3>1, <3>2, <3>3, SameEdits
      <3> QED BY <3>4 DEF u
    <2>4. CASE t[n].used
      <3>1. Removed(t, u, n)
        <4>1. ASSUME NEW i \in Slots, t[i].used, t[i].parent = n PROVE FALSE
          <5>1. t[n].isDir
            <6>1. i # 0
              BY <2>1, <4>1 DEF Shows, Sane, RootIntact
            <6> QED BY <1>3, <4>1, <6>1, RootedEntry DEF IsLiveDir
          <5> QED BY <2>1, <4>1, <5>1
        <4> QED BY <2>1, <2>2, <2>4, <4>1 DEF Removed
      <3>2. Rooted(u) /\ \A i \in Slots : u[i].used => NamesTo(u, i) = NamesTo(t, i)
        BY <1>3, <3>1, RemovedHangs DEF Shows
      <3>3. IF Addressable(t, n) THEN Shrunk(TreeOf(t), TreeOf(u), NamesTo(t, n))
            ELSE TreeOf(u) = TreeOf(t)
        BY <1>3, <3>1, RemovedTree DEF u
      <3>4. CASE c # n
        <4>1. PathOf(u, c) = PathOf(t, c)
          BY <1>3, <2>2, <3>2, <3>4, SamePath DEF IsLiveDir, Live
        <4>2. ASSUME Addressable(t, n) PROVE PathOf(t, c) # NamesTo(t, n)
          <5>1. CASE IsLiveDir(t, c)
            <6>1. Addressable(t, c) /\ c \in Slots
              BY <1>3, <5>1, AddressableIs DEF IsLiveDir, Live, Shows, NoDotDirs
            <6> QED BY <1>3, <2>1, <3>4, <4>2, <5>1, <6>1, PathsDiffer DEF PathOf, Shows
          <5>2. CASE ~IsLiveDir(t, c)
            <6>1. t[n].name \in Range(NamesTo(t, n))
              BY <1>3, <2>1, <2>4, RootedEntry DEF Extends
            <6>2. t[n].name \in Names
              BY <2>1, <2>4 DEF Shows, Sane, Neat, ProperlyNamed
            <6>3. Range(<<Nul>>) = {Nul}
              BY DEF Range
            <6> QED BY <5>2, <6>1, <6>2, <6>3, TableAssumption DEF PathOf
          <5> QED BY <5>1, <5>2
        <4> QED BY <3>3, <4>1, <4>2 DEF Edits, u
      <3>5. CASE c = n
        <4>1. PathOf(u, c) = <<Nul>>
          BY <2>2, <3>5 DEF PathOf, IsLiveDir, Live
        <4>2. CASE t[n].isDir
          <5>1. Addressable(t, n)
            BY <1>3, <2>1, <2>4, <4>2, AddressableIs DEF Shows, NoDotDirs
          <5>2. PathOf(t, c) = NamesTo(t, n)
            BY <1>3, <2>1, <2>4, <3>5, <4>2 DEF PathOf, IsLiveDir, Live
          <5> QED BY <3>3, <4>1, <5>1, <5>2 DEF Edits, u
        <4>3. CASE ~t[n].isDir
          <5>1. PathOf(t, c) = <<Nul>>
            BY <3>5, <4>3 DEF PathOf, IsLiveDir
          <5> QED BY <3>3, <4>1, <5>1 DEF Edits, u
        <4> QED BY <4>2, <4>3
      <3> QED BY <3>4, <3>5
    <2> QED BY <2>3, <2>4
  <1> QED BY <1>1, <1>2, <1>3

\* What fs_mkdir_as and fs_touch_as make of a table, if they change it (303-362).
LEMMA CreateIs ==
  ASSUME NEW t, Neat(t), NEW from, NEW path, NEW isDir \in BOOLEAN, NEW owner, NEW mode,
         Create(t, from, path, isDir, owner, mode) # t
  PROVE  \E s : /\ HomeOf(t, from, path) # Fail
                /\ Added(t, Create(t, from, path, isDir, owner, mode), s)
                /\ Create(t, from, path, isDir, owner, mode)[s].parent = HomeOf(t, from, path)
                /\ Create(t, from, path, isDir, owner, mode)[s].name = Last(path)
                /\ Create(t, from, path, isDir, owner, mode)[s].isDir = isDir
  <1> DEFINE home == HomeOf(t, from, path)
             slot == AllocNode(t)
             u == Create(t, from, path, isDir, owner, mode)
             node == [used |-> TRUE, isDir |-> isDir, parent |-> home,
                      name |-> Last(path), owner |-> owner, mode |-> mode, data |-> Nul]
  <1>1. home # Fail /\ FreeSlots(t) # {} /\ u = [t EXCEPT ![slot] = node]
    BY DEF Create
  <1>2. slot \in Slots \ {0} /\ ~t[slot].used
    BY <1>1, AllocIs
  <1>3. \A i \in Slots : u[i] = IF i = slot THEN node ELSE t[i]
    <2> HIDE DEF node
    <2> QED BY <1>1 DEF Neat, Tables
  <1>4. node.used /\ node.parent = home /\ node.name = Last(path) /\ node.isDir = isDir
    OBVIOUS
  <1> HIDE DEF home, slot, u, node
  <1>5. Added(t, u, slot)
    BY <1>2, <1>3, <1>4 DEF Added
  <1> QED BY <1>1, <1>2, <1>3, <1>4, <1>5 DEF home, u

\* The current directory after a node was put into slot s, which it may be.
LEMMA AddedPath ==
  ASSUME NEW t, NEW u, NEW s, Shows(t), Shows(u), Rooted(t), NEW c,
         Added(t, u, s), IsLiveDir(t, u[s].parent)
  PROVE  /\ Rooted(u)
         /\ c # s => PathOf(u, c) = PathOf(t, c)
         /\ PathOf(t, s) = <<Nul>>
         /\ PathOf(u, s) = IF u[s].isDir THEN NamesTo(u, s) ELSE <<Nul>>
  <1>1. Rooted(u) /\ \A n \in Slots : t[n].used => NamesTo(u, n) = NamesTo(t, n)
    BY AddedHangs DEF Shows
  <1>2. ASSUME c # s PROVE PathOf(u, c) = PathOf(t, c)
    <2>1. IsLiveDir(u, c) <=> IsLiveDir(t, c)
      BY <1>2 DEF IsLiveDir, Live, Added
    <2>2. IsLiveDir(t, c) => NamesTo(u, c) = NamesTo(t, c)
      BY <1>1 DEF IsLiveDir, Live
    <2> QED BY <1>1, <2>1, <2>2, SamePath
  <1>3. PathOf(t, s) = <<Nul>>
    BY DEF PathOf, IsLiveDir, Live, Added
  <1>4. IsLiveDir(u, s) <=> u[s].isDir
    BY DEF IsLiveDir, Live, Added
  <1> QED BY <1>1, <1>2, <1>3, <1>4 DEF PathOf

\* A node in a directory that is in use.
LEMMA AddedEdits ==
  ASSUME NEW t, NEW u, NEW s, Shows(t), Shows(u), Rooted(t), NEW c,
         Added(t, u, s), IsLiveDir(t, u[s].parent)
  PROVE  Edits(TreeOf(t), TreeOf(u), PathOf(t, c), PathOf(u, c))
  <1>1. /\ Rooted(u)
        /\ c # s => PathOf(u, c) = PathOf(t, c)
        /\ PathOf(t, s) = <<Nul>>
        /\ PathOf(u, s) = IF u[s].isDir THEN NamesTo(u, s) ELSE <<Nul>>
    BY AddedPath
  <1>2. s \in Slots /\ u[s].used
    BY DEF Added
  <1>3. CASE u[s].name \in {".", ".."}
    <2>1. TreeOf(u) = TreeOf(t)
      BY <1>3, AddedTree
    <2>2. ~u[s].isDir
      BY <1>2, <1>3 DEF Shows, NoDotDirs
    <2> QED BY <1>1, <2>1, <2>2 DEF Edits
  <1>4. CASE u[s].name \notin {".", ".."}
    <2>1. Grown(TreeOf(t), TreeOf(u), NamesTo(u, s)) /\ Addressable(u, s)
      BY <1>4, AddedTree
    <2>2. u[s].isDir => TreeOf(u)[NamesTo(u, s)] = <<>>
      BY <1>1, <1>2, TreeIsTree DEF IsLiveDir, Live
    <2> QED BY <1>1, <2>1, <2>2 DEF Edits
  <1> QED BY <1>3, <1>4

\* A node that hangs from none: the tree is lost.
LEMMA AstrayEdits ==
  ASSUME NEW t, NEW u, NEW w, NEW s, Shows(u), Shows(w), NEW c,
         Added(t, u, s), ~IsLiveDir(t, u[s].parent), ~IsLiveDir(t, c), SameNodes(u, w)
  PROVE  Edits(TreeOf(t), TreeOf(w), PathOf(t, c), PathOf(w, c))
  <1>1. ~Rooted(u)
    BY AddedAstray
  <1>2. ~Rooted(w)
    BY <1>1, SameRooted DEF Shows
  <1>3. TreeOf(w) = Lost
    BY <1>2 DEF TreeOf, Lost
  <1>4. PathOf(t, c) = <<Nul>> /\ PathOf(w, c) = <<Nul>>
    BY <1>2 DEF PathOf
  <1> QED BY <1>3, <1>4 DEF Edits

\* What fs_write_file changes of a table once the file is there (414-424).
LEMMA FillIs ==
  ASSUME NEW u, u \in Tables, NEW n, NEW text
  PROVE  /\ SameNodes(u, Fill(u, n, text))
         /\ \A i \in Slots \ {n} : Fill(u, n, text)[i] = u[i]
         /\ Live(u, n) /\ ~u[n].isDir => Fill(u, n, text)[n].data = text
         /\ ~(Live(u, n) /\ ~u[n].isDir) => Fill(u, n, text) = u
  <1> DEFINE w == Fill(u, n, text)
  <1>1. CASE Live(u, n) /\ ~u[n].isDir
    <2>1. w = [u EXCEPT ![n].data = text] /\ n \in Slots
      BY <1>1 DEF Fill, Live
    <2>2. w[n] = [u[n] EXCEPT !.data = text] /\ \A i \in Slots \ {n} : w[i] = u[i]
      BY <2>1 DEF Tables
    <2>3. /\ w[n].used = u[n].used /\ w[n].isDir = u[n].isDir /\ w[n].parent = u[n].parent
          /\ w[n].name = u[n].name /\ w[n].data = text
      BY <2>1, <2>2 DEF Tables, NodeType
    <2> HIDE DEF w
    <2>4. SameNodes(u, w)
      BY <2>2, <2>3 DEF SameNodes
    <2> QED BY <1>1, <2>2, <2>3, <2>4 DEF w
  <1>2. CASE ~(Live(u, n) /\ ~u[n].isDir)
    <2>1. w = u
      BY <1>2 DEF Fill
    <2> HIDE DEF w
    <2>2. SameNodes(u, w)
      BY <2>1 DEF SameNodes
    <2> QED BY <1>2, <2>1, <2>2 DEF w
  <1> QED BY <1>1, <1>2

\* A file gets a content.
LEMMA FillEdits ==
  ASSUME NEW u, Shows(u), NEW n, NEW text, Shows(Fill(u, n, text)), NEW c
  PROVE  Edits(TreeOf(u), TreeOf(Fill(u, n, text)), PathOf(u, c), PathOf(Fill(u, n, text), c))
  <1> DEFINE w == Fill(u, n, text)
  <1>1. /\ SameNodes(u, w) /\ \A i \in Slots \ {n} : w[i] = u[i]
        /\ Live(u, n) /\ ~u[n].isDir => w[n].data = text
        /\ ~(Live(u, n) /\ ~u[n].isDir) => w = u
    BY FillIs DEF Shows, Sane, Neat
  <1> HIDE DEF w
  <1>2. CASE ~Rooted(u)
    BY <1>2, StrayEdits DEF w
  <1>3. CASE w = u
    BY <1>3 DEF Edits, w
  <1>4. CASE Rooted(u) /\ Live(u, n) /\ ~u[n].isDir
    <2>1. Shows(w)
      BY DEF w
    <2>2. Rooted(w) /\ \A i \in Slots : w[i].used => NamesTo(w, i) = NamesTo(u, i)
      BY <1>1, <1>4, SameNodesHang DEF Shows
    <2>3. PathOf(w, c) = PathOf(u, c)
      BY <1>1, <1>4, <2>2, SamePath DEF IsLiveDir, Live, SameNodes
    <2>4. IF Addressable(u, n) THEN Filled(TreeOf(u), TreeOf(w), NamesTo(u, n), text)
          ELSE TreeOf(w) = TreeOf(u)
      BY <1>1, <1>4, <2>1, FilledTree DEF Live
    <2>5. Edits(TreeOf(u), TreeOf(w), PathOf(u, c), PathOf(w, c))
      BY <2>3, <2>4 DEF Edits
    <2> QED BY <2>5 DEF w
  <1> QED BY <1>1, <1>2, <1>3, <1>4

\* A file is made in a directory in use, and the file its path leads to filled: that
\* very one, unless the current directory is gone.
LEMMA MadeAndFilled ==
  ASSUME NEW t, NEW u, NEW w, NEW s, NEW n, NEW text, NEW c,
         Shows(t), Shows(u), Shows(w), Rooted(t), Added(t, u, s), ~u[s].isDir,
         IsLiveDir(t, u[s].parent), w = Fill(u, n, text),
         n = s \/ IsLiveDir(u, n) \/ ~IsLiveDir(t, c)
  PROVE  Edits(TreeOf(t), TreeOf(w), PathOf(t, c), PathOf(w, c))
  <1> DEFINE T == TreeOf(t)
             U == TreeOf(u)
             W == TreeOf(w)
             p == NamesTo(u, s)
             q == NamesTo(u, n)
  <1>1. /\ Rooted(u) /\ PathOf(u, c) = PathOf(t, c)
    BY AddedPath
  <1>2. /\ SameNodes(u, w) /\ \A i \in Slots \ {n} : w[i] = u[i]
        /\ Live(u, n) /\ ~u[n].isDir => w[n].data = text
        /\ ~(Live(u, n) /\ ~u[n].isDir) => w = u
    BY FillIs DEF Shows, Sane, Neat
  <1>3. Rooted(w) /\ \A i \in Slots : w[i].used => NamesTo(w, i) = NamesTo(u, i)
    BY <1>1, <1>2, SameNodesHang DEF Shows
  <1>4. PathOf(w, c) = PathOf(t, c)
    <2>1. PathOf(w, c) = PathOf(u, c)
      BY <1>1, <1>2, <1>3, SamePath DEF IsLiveDir, Live, SameNodes
    <2> QED BY <1>1, <2>1
  <1>5. CASE u[s].name \in {".", ".."}
    <2>1. TreeOf(u) = TreeOf(t)
      BY <1>5, AddedTree
    <2>2. Edits(TreeOf(u), TreeOf(w), PathOf(u, c), PathOf(w, c))
      BY FillEdits
    <2> QED BY <1>1, <2>1, <2>2
  <1>6. CASE u[s].name \notin {".", ".."}
    <2>1. Grown(T, U, p) /\ Addressable(u, s)
      BY <1>6, AddedTree
    <2>2. CASE U = W
      <3> HIDE DEF T, U, W, p
      <3>1. Edits(T, W, PathOf(t, c), PathOf(w, c))
        BY <1>4, <2>1, <2>2 DEF Edits
      <3> QED BY <3>1 DEF T, W
    <2>3. CASE Live(u, n) /\ ~u[n].isDir /\ Addressable(u, n)
      <3>1. Filled(U, W, q, text)
        BY <1>1, <1>2, <2>3, FilledTree DEF Live
      <3>2. CASE n = s
        <4>1. Filled(U, W, p, text)
          BY <3>1, <3>2
        <4> HIDE DEF T, U, W, p
        <4>2. Grown(T, W, p)
          BY <2>1, <4>1 DEF Grown, Filled
        <4>3. Edits(T, W, PathOf(t, c), PathOf(w, c))
          BY <1>4, <4>2 DEF Edits
        <4> QED BY <4>3 DEF T, W
      <3>3. CASE n # s
        <4>1. PathOf(t, c) = <<Nul>>
          BY <2>3, <3>3 DEF PathOf, IsLiveDir
        <4>2. q # p
          BY <1>1, <2>1, <2>3, <3>3, PathsDiffer DEF Shows, Live, Added
        <4>3. U = [r \in DOMAIN U |-> U[r]]
          BY <1>1, TreeIs DEF Shows
        <4> HIDE DEF T, U, W, p, q
        <4>4. q \in DOMAIN T
          BY <2>1, <3>1, <4>2 DEF Grown, Filled
        <4>5. Slips(T, W)
          BY <2>1, <3>1, <4>3, <4>4 DEF Slips
        <4>6. Edits(T, W, PathOf(t, c), PathOf(w, c))
          BY <1>4, <4>1, <4>5 DEF Edits
        <4> QED BY <4>6 DEF T, W
      <3> QED BY <3>2, <3>3
    <2>4. CASE ~Live(u, n) \/ u[n].isDir
      <3>1. w = u
        BY <1>2, <2>4
      <3> QED BY <2>2, <3>1
    <2>5. CASE Live(u, n) /\ ~u[n].isDir /\ ~Addressable(u, n)
      <3>1. TreeOf(w) = TreeOf(u)
        BY <1>1, <1>2, <2>5, FilledTree DEF Live
      <3> QED BY <2>2, <3>1
    <2> QED BY <2>3, <2>4, <2>5
  <1> QED BY <1>5, <1>6

\* fs_mkdir_as and fs_touch_as, called with the current directory or with the root.
LEMMA CreateEdits ==
  ASSUME NEW t, NEW u, NEW from, NEW c, NEW path \in PathType,
         NEW isDir \in BOOLEAN, NEW owner, NEW mode,
         u = Create(t, from, path, isDir, owner, mode),
         Shows(t), Shows(u), from = c \/ IsLiveDir(t, from)
  PROVE  Edits(TreeOf(t), TreeOf(u), PathOf(t, c), PathOf(u, c))
  <1>1. CASE ~Rooted(t)
    BY <1>1, StrayEdits
  <1>2. CASE u = t
    BY <1>2 DEF Edits
  <1>3. CASE Rooted(t) /\ u # t
    <2>1. PICK s : /\ HomeOf(t, from, path) # Fail /\ Added(t, u, s)
                   /\ u[s].parent = HomeOf(t, from, path)
      BY <1>3, CreateIs DEF Shows, Sane
    <2>2. CASE IsLiveDir(t, u[s].parent)
      BY <1>3, <2>1, <2>2, AddedEdits
    <2>3. CASE ~IsLiveDir(t, u[s].parent)
      <3>1. ~IsLiveDir(t, c)
        BY <1>3, <2>1, <2>3, HomeIsLive DEF Shows
      <3>2. SameNodes(u, u)
        BY DEF SameNodes
      <3> QED BY <2>1, <2>3, <3>1, <3>2, AstrayEdits
    <2> QED BY <2>2, <2>3
  <1> QED BY <1>1, <1>2, <1>3

\* fs_write_file, and nano, which creates the file first.
LEMMA WriteEdits ==
  ASSUME NEW t, NEW u, NEW w, NEW from, NEW c, NEW path \in PathType, NEW text,
         u = t \/ u = Touch(t, from, path), w = Fill(u, Resolve(u, from, path), text),
         Shows(t), Shows(u), Shows(w), from = c \/ IsLiveDir(t, from)
  PROVE  Edits(TreeOf(t), TreeOf(w), PathOf(t, c), PathOf(w, c))
  <1> DEFINE n == Resolve(u, from, path)
  <1>1. CASE ~Rooted(t)
    BY <1>1, StrayEdits
  <1>2. CASE u = t
    BY <1>2, FillEdits
  <1>3. CASE Rooted(t) /\ u # t
    <2>1. u = Create(t, from, path, FALSE, Super, FileMode)
      BY <1>3 DEF Touch
    <2>2. PICK s : /\ HomeOf(t, from, path) # Fail /\ Added(t, u, s)
                   /\ u[s].parent = HomeOf(t, from, path) /\ u[s].name = Last(path)
                   /\ ~u[s].isDir
      <3> DEFINE kind == FALSE
      <3>1. u = Create(t, from, path, kind, Super, FileMode) /\ kind \in BOOLEAN
        BY <2>1
      <3>2. ~kind
        OBVIOUS
      <3> HIDE DEF kind
      <3> QED BY <1>3, <3>1, <3>2, CreateIs DEF Shows, Sane
    <2>3. CASE IsLiveDir(t, u[s].parent)
      <3>1. IsLiveDir(t, from) => n = s \/ IsLiveDir(u, n)
        BY <1>3, <2>2, MadeIsFound DEF Shows
      <3> QED BY <1>3, <2>2, <2>3, <3>1, MadeAndFilled
    <2>4. CASE ~IsLiveDir(t, u[s].parent)
      <3>1. ~IsLiveDir(t, c)
        BY <1>3, <2>2, <2>4, HomeIsLive DEF Shows
      <3>2. SameNodes(u, w)
        BY FillIs DEF Shows, Sane, Neat
      <3> QED BY <2>2, <2>4, <3>1, <3>2, AstrayEdits
    <2> QED BY <2>3, <2>4
  <1> QED BY <1>1, <1>2, <1>3

------------------------------------------------------------------------------
(* No directory gets the name "." or ".." *)

\* fs_init makes one directory, named "/".
LEMMA FreshShows == Shows(FreshTable)
  BY FreshIsSane DEF Shows, NoDotDirs, FreshTable, RootNode, Vacant

\* Neither fs_chmod nor a content touches what is a directory, or its name.
LEMMA SameNodesShow ==
  ASSUME NEW t, NEW u, Shows(t), Sane(u), SameNodes(t, u)
  PROVE  Shows(u)
  BY DEF Shows, NoDotDirs, SameNodes

\* mkdir makes a directory of another name.
LEMMA CreateShows ==
  ASSUME NEW t, Shows(t), NEW here \in Slots, NEW path \in PathType,
         NEW isDir \in BOOLEAN, NEW owner \in Uids, NEW mode \in Modes,
         isDir /\ HomeOf(t, here, path) # Fail => Last(path) \notin {".", ".."}
  PROVE  Shows(Create(t, here, path, isDir, owner, mode))
  <1> DEFINE u == Create(t, here, path, isDir, owner, mode)
  <1>1. Sane(u)
    BY CreateKeeps DEF Shows, Sane, Keeps
  <1>2. CASE u = t
    BY <1>2
  <1>3. CASE u # t
    <2>1. PICK s : /\ HomeOf(t, here, path) # Fail /\ Added(t, u, s)
                   /\ u[s].name = Last(path) /\ u[s].isDir = isDir
      BY <1>3, CreateIs DEF Shows, Sane
    <2> HIDE DEF u
    <2>2. NoDotDirs(u)
      BY <2>1 DEF NoDotDirs, Shows, Added
    <2>3. Shows(u)
      BY <1>1, <2>2 DEF Shows
    <2> QED BY <2>3 DEF u
  <1> QED BY <1>2, <1>3

\* fs_touch makes files only.
LEMMA TouchShows ==
  ASSUME NEW t, Shows(t), NEW here \in Slots, NEW path \in PathType
  PROVE  Shows(Touch(t, here, path))
  <1> DEFINE kind == FALSE
  <1>1. kind \in BOOLEAN /\ ~kind /\ Touch(t, here, path) = Create(t, here, path, kind, Super, FileMode)
    BY DEF Touch
  <1> HIDE DEF kind
  <1> QED BY <1>1, CreateShows, TableAssumption

\* fs_write_file sets contents only.
LEMMA FillShows ==
  ASSUME NEW u, Shows(u), NEW n, NEW text \in Texts \cup {Nul}
  PROVE  Shows(Fill(u, n, text))
  <1> DEFINE w == Fill(u, n, text)
  <1>1. SameNodes(u, w)
    BY FillIs DEF Shows, Sane, Neat
  <1>2. CASE w = u
    BY <1>2
  <1>3. CASE w # u
    <2>1. w = [u EXCEPT ![n].data = text] /\ n \in Slots
      BY <1>3 DEF Fill, Live
    <2>2. w \in Tables
      BY <2>1 DEF Shows, Sane, Neat, Tables, NodeType
    <2>3. \A i \in Slots : /\ w[i].used = u[i].used /\ w[i].isDir = u[i].isDir
                           /\ w[i].parent = u[i].parent /\ w[i].name = u[i].name
      BY <2>1 DEF Shows, Sane, Neat, Tables, NodeType
    <2> HIDE DEF w
    <2>4. Sane(w)
      BY <2>2, <2>3, FieldChanged DEF Shows, Sane, Keeps
    <2> QED BY <1>1, <2>4, SameNodesShow DEF w
  <1> QED BY <1>2, <1>3

\* fs_remove renames nothing.
LEMMA RemoveShows ==
  ASSUME NEW t, Shows(t), NEW here, NEW path
  PROVE  Shows(RemoveNode(t, here, path))
  <1> DEFINE n == Resolve(t, here, path)
             u == RemoveNode(t, here, path)
  <1>1. Sane(u)
    BY RemoveIsSane DEF Shows
  <1>2. CASE u = t
    BY <1>2
  <1>3. CASE u # t
    <2>1. n \in Slots
          /\ u = [t EXCEPT ![n] = [Vacant EXCEPT !.isDir = t[n].isDir, !.parent = t[n].parent]]
      BY <1>3 DEF RemoveNode
    <2>2. ~u[n].used /\ \A i \in Slots \ {n} : u[i] = t[i]
      BY <2>1 DEF Shows, Sane, Neat, Tables, Vacant
    <2> HIDE DEF n, u
    <2>3. NoDotDirs(u)
      BY <2>2 DEF Shows, NoDotDirs
    <2> QED BY <1>1, <2>3 DEF Shows, u
  <1> QED BY <1>2, <1>3

\* chmod and chown.
LEMMA SettersShow ==
  ASSUME NEW t, Shows(t), NEW n, NEW mode \in Modes, NEW owner \in Uids,
         NEW u \in {SetMode(t, n, mode), SetOwner(t, n, owner)}
  PROVE  /\ Shows(u) /\ SameNodes(t, u)
         /\ \A i \in Slots : u[i].data = t[i].data
  <1>1. Sane(u)
    BY SettersAreSane DEF Shows
  <1>2. CASE Live(t, n)
    <2>1. u \in {[t EXCEPT ![n].mode = mode], [t EXCEPT ![n].owner = owner]} /\ n \in Slots
      BY <1>2 DEF SetMode, SetOwner, Live
    <2>2. \A i \in Slots : /\ u[i].used = t[i].used /\ u[i].isDir = t[i].isDir
                           /\ u[i].parent = t[i].parent /\ u[i].name = t[i].name
                           /\ u[i].data = t[i].data
      BY <2>1 DEF Shows, Sane, Neat, Tables, NodeType
    <2> QED BY <1>1, <2>2, SameNodesShow DEF SameNodes
  <1>3. CASE ~Live(t, n)
    BY <1>3 DEF SetMode, SetOwner, SameNodes
  <1> QED BY <1>2, <1>3

\* fs_deserialize sets owners and modes only.
LEMMA DecodeShows ==
  ASSUME NEW img \in [version : {1, 2}, table : Tables], Shows(img.table)
  PROVE  /\ Shows(Decode(img)) /\ SameNodes(img.table, Decode(img))
         /\ \A i \in Slots : Decode(img)[i].data = img.table[i].data
  <1> DEFINE t == img.table
             u == Decode(img)
  <1>1. Sane(u)
    BY DecodeIsSane DEF Shows
  <1>2. 0 \in Slots /\ t[0].used /\ t[0].isDir /\ t[0].parent = 0 /\ t[0].name = "/"
    BY DEF Shows, Sane, Neat, RootIntact, IsLiveDir, Live
  <1>3. \A i \in Slots : t[i] \in NodeType
    BY DEF Tables
  <1>4. ASSUME NEW i \in Slots
        PROVE  /\ u[i].used = t[i].used /\ u[i].isDir = t[i].isDir
               /\ u[i].parent = t[i].parent /\ u[i].name = t[i].name
               /\ u[i].data = t[i].data
    <2>1. CASE i = 0
      <3>1. u[i] = [RootNode EXCEPT !.data = t[0].data]
        BY <2>1 DEF Decode, Fields
      <3> HIDE DEF u
      <3> QED BY <3>1, <2>1, <1>2 DEF RootNode
    <2>2. CASE i # 0 /\ img.version = 2
      BY <2>2 DEF Decode, Fields
    <2>3. CASE i # 0 /\ img.version # 2
      <3>1. PICK mode \in Modes : u[i] = [t[i] EXCEPT !.owner = Super, !.mode = mode]
        BY <2>3, TableAssumption DEF Decode, Fields
      <3> HIDE DEF u
      <3> QED BY <3>1, <1>3 DEF NodeType
    <2> QED BY <2>1, <2>2, <2>3
  <1> HIDE DEF u
  <1>5. SameNodes(t, u)
    BY <1>4 DEF SameNodes
  <1>6. Shows(u)
    BY <1>1, <1>5, SameNodesShow
  <1> QED BY <1>4, <1>5, <1>6 DEF u

------------------------------------------------------------------------------
(* Trees and current directories *)

\* fs_init: a bare tree, and only its root can be the current directory.
LEMMA FreshTree ==
  /\ Rooted(FreshTable) /\ TreeOf(FreshTable) = [p \in {<<>>} |-> <<>>]
  /\ \A c : PathOf(FreshTable, c) = IF c = 0 THEN <<>> ELSE <<Nul>>
  <1> DEFINE t == FreshTable
             zero == 0
             T == TreeOf(t)
  <1>0. zero \in Slots /\ t[zero] = RootNode /\ \A n \in Slots : t[n].used <=> n = 0
    BY TableAssumption DEF FreshTable, Slots, RootNode, Vacant
  <1>1. IsLiveDir(t, zero) /\ t[zero].isDir
    BY <1>0 DEF IsLiveDir, Live, RootNode
  <1> HIDE DEF t
  <1>2. Rooted(t)
    <2>1. /\ Ancestors(t, zero)[MaxNodes] = 0
          /\ \A d \in 1..MaxNodes : IsLiveDir(t, Ancestors(t, zero)[d])
      BY <1>0, <1>1, EntryHangs
    <2> QED BY <1>0, <2>1 DEF Rooted
  <1>3. NamesTo(t, zero) = <<>> /\ Range(NamesTo(t, zero)) = {}
    BY RootPath
  <1>4. \A n \in Slots : Addressable(t, n) <=> n = 0
    BY <1>0, <1>3 DEF Addressable, Live
  <1>5. Shows(t)
    BY FreshShows DEF t
  <1>6. /\ DOMAIN T = {NamesTo(t, m) : m \in {k \in Slots : Addressable(t, k)}}
        /\ T = [p \in DOMAIN T |-> T[p]] /\ T[NamesTo(t, zero)] = Shown(t, zero)
    BY <1>0, <1>2, <1>4, <1>5, TreeIs DEF Shows
  <1> HIDE DEF T
  <1>7. DOMAIN T = {<<>>}
    BY <1>0, <1>3, <1>4, <1>6
  <1>8. T[<<>>] = <<>>
    BY <1>1, <1>3, <1>6 DEF Shown
  <1>9. T = [p \in {<<>>} |-> <<>>]
    BY <1>6, <1>7, <1>8
  <1>10. ASSUME NEW c PROVE PathOf(t, c) = IF c = 0 THEN <<>> ELSE <<Nul>>
    <2>1. CASE c = zero
      BY <1>1, <1>2, <1>3, <2>1 DEF PathOf
    <2>2. CASE c # zero
      <3>1. ~IsLiveDir(t, c)
        BY <1>0, <2>2 DEF IsLiveDir, Live
      <3> QED BY <2>2, <3>1 DEF PathOf
    <2> QED BY <2>1, <2>2
  <1> QED BY <1>2, <1>9, <1>10 DEF t, T

\* The root is a directory in use, and nothing else has its path.
LEMMA RootIsPath ==
  ASSUME NEW t, Shows(t)
  PROVE  /\ PathOf(t, 0) = IF Rooted(t) THEN <<>> ELSE <<Nul>>
         /\ \A c : PathOf(t, c) = <<>> => c = 0
  <1>1. NamesTo(t, 0) = <<>>
    BY RootPath
  <1>2. IsLiveDir(t, 0)
    BY DEF Shows, Sane, RootIntact
  <1>3. ASSUME NEW c, c # 0 PROVE PathOf(t, c) # <<>>
    <2>1. CASE Rooted(t) /\ IsLiveDir(t, c)
      <3>1. Extends(NamesTo(t, c), NamesTo(t, t[c].parent), t[c].name)
        BY <1>3, <2>1, RootedEntry DEF IsLiveDir, Live
      <3> QED BY <2>1, <3>1 DEF Extends, PathOf
    <2>2. CASE ~(Rooted(t) /\ IsLiveDir(t, c))
      <3>1. PathOf(t, c) = <<Nul>>
        BY <2>2 DEF PathOf
      <3> QED BY <3>1
    <2> QED BY <2>1, <2>2
  <1> QED BY <1>1, <1>2, <1>3 DEF PathOf

\* A tree maps paths to what is there; the nodes are lost when they are none.
LEMMA TreesAreFunctions ==
  ASSUME NEW t, Shows(t)
  PROVE  /\ TreeOf(t) = [p \in DOMAIN TreeOf(t) |-> TreeOf(t)[p]]
         /\ Rooted(t) <=> TreeOf(t) # Lost
         /\ TreeOf(t) = Lost \/ Tree!IsTree(TreeOf(t))
         /\ Tree!Lost = Lost
  <1>1. CASE Rooted(t)
    BY <1>1, TreeIs, TreeIsTree DEF Shows, Tree!Lost, Lost
  <1>2. CASE ~Rooted(t)
    <2>1. TreeOf(t) = Lost /\ DOMAIN Lost = {}
      BY <1>2 DEF TreeOf, Lost
    <2>2. Lost = [p \in DOMAIN Lost |-> Lost[p]]
      BY <2>1 DEF Lost
    <2> QED BY <1>2, <2>1, <2>2 DEF Tree!Lost, Lost
  <1> QED BY <1>1, <1>2

------------------------------------------------------------------------------
(* Every step of a session is one of the tree *)

\* A change of the table that the commands may make, seen as a change of the tree.
LEMMA EditMaps ==
  ASSUME Shows(nodes), Shows(nodes'), UNCHANGED <<stored, cands>>,
         Edits(TreeOf(nodes), TreeOf(nodes'), PathOf(nodes, cwd), PathOf(nodes', cwd'))
  PROVE  [Tree!Next]_(Tree!vars)
  <1> DEFINE T == TreeOf(nodes)
             U == TreeOf(nodes')
             here == PathOf(nodes, cwd)
             there == PathOf(nodes', cwd')
             img == Trees(stored)
             written == {Trees(i) : i \in cands}
  <1>1. /\ T = [p \in DOMAIN T |-> T[p]] /\ U = [p \in DOMAIN U |-> U[p]]
        /\ U = Lost \/ Tree!IsTree(U)
        /\ DOMAIN Lost = {}
    BY TreesAreFunctions DEF Lost
  <1>2. T' = U /\ here' = there /\ img' = img /\ written' = written
    BY DEF T, U, here, there, img, written
  <1>3. Edits(T, U, here, there)
    OBVIOUS
  <1>4. CASE U = T /\ there = here
    BY <1>2, <1>4 DEF Tree!vars, img, written
  <1>5. ASSUME NEW p, Grown(T, U, p),
               there = here \/ (here = <<Nul>> /\ U[p] = <<>> /\ there = p)
        PROVE  Tree!Next
    <2>1. /\ p \in DOMAIN U \ DOMAIN T /\ p # <<>> /\ DOMAIN U = DOMAIN T \cup {p}
          /\ Tree!IsDir(T, Tree!Up(p)) /\ T # Lost
      BY <1>1, <1>5 DEF Grown, Tree!IsDir, Tree!Up
    <2>2. Tree!Restrict(U, DOMAIN T) = T
      BY <1>1, <1>5 DEF Tree!Restrict, Grown
    <2>3. Tree!Make(T, U, p)
      <3>1. \/ here' = here
            \/ here = Tree!Nowhere /\ Tree!IsDir(U, p) /\ here' = p
        BY <1>2, <1>5, <2>1 DEF Tree!IsDir, Tree!Nowhere, Nul
      <3> HIDE DEF T, U
      <3> QED BY <2>1, <2>2, <3>1 DEF Tree!Make, Tree!Root
    <2>4. Tree!Edit
      BY <1>2, <2>1, <2>3 DEF Tree!Edit, Tree!store, Tree!Lost, Lost
    <2> QED BY <2>4 DEF Tree!Next
  <1>6. ASSUME NEW p, NEW x, Filled(T, U, p, x), there = here
        PROVE  Tree!Next
    <2>1. p \in DOMAIN T /\ T[p] # <<>> /\ U[p] = <<x>> /\ DOMAIN U = DOMAIN T /\ T # Lost
      BY <1>1, <1>6 DEF Filled
    <2>2. U = [T EXCEPT ![p] = U[p]]
      BY <1>1, <1>6 DEF Filled
    <2>3. Tree!Put(T, U, p)
      BY <1>2, <1>6, <2>1, <2>2 DEF Tree!Put
    <2>4. Tree!Edit
      BY <1>2, <2>1, <2>3 DEF Tree!Edit, Tree!store, Tree!Lost, Lost
    <2> QED BY <2>4 DEF Tree!Next
  <1>7. ASSUME NEW p, Shrunk(T, U, p), there = IF here = p THEN <<Nul>> ELSE here
        PROVE  Tree!Next
    <2>1. /\ p \in DOMAIN T /\ DOMAIN U = DOMAIN T \ {p} /\ T # Lost
          /\ Tree!Leaf(T, p)
      BY <1>1, <1>7 DEF Shrunk, Tree!Leaf, Tree!Up, Tree!Root
    <2>2. U = Tree!Restrict(T, DOMAIN U)
      BY <1>1, <1>7 DEF Tree!Restrict, Shrunk
    <2>3. Tree!Drop(T, U, p)
      <3>1. here' = IF here = p THEN Tree!Nowhere ELSE here
        BY <1>2, <1>7 DEF Tree!Nowhere, Nul
      <3> HIDE DEF T, U
      <3> QED BY <2>1, <2>2, <3>1 DEF Tree!Drop
    <2>4. Tree!Edit
      BY <1>2, <2>1, <2>3 DEF Tree!Edit, Tree!store, Tree!Lost, Lost
    <2> QED BY <2>4 DEF Tree!Next
  <1>8. ASSUME here = <<Nul>>, there = <<Nul>>, Slips(T, U)
        PROVE  Tree!Next
    <2>1. PICK V, p, q, x : /\ Grown(T, V, p) /\ q \in DOMAIN T /\ Filled(V, U, q, x)
                            /\ V = [r \in DOMAIN V |-> V[r]]
      BY <1>8 DEF Slips
    <2>2. /\ p \in DOMAIN U \ DOMAIN T /\ p # <<>> /\ DOMAIN V = DOMAIN T \cup {p}
          /\ p \in DOMAIN V \ DOMAIN T /\ DOMAIN U = DOMAIN V
          /\ Tree!IsDir(T, Tree!Up(p)) /\ T # Lost
      BY <1>1, <2>1 DEF Grown, Filled, Tree!IsDir, Tree!Up
    <2>3. Tree!Restrict(V, DOMAIN T) = T
      BY <1>1, <2>1 DEF Tree!Restrict, Grown
    <2>4. Tree!Make(T, V, p)
      <3>1. here' = here
        BY <1>2, <1>8
      <3> HIDE DEF T, U
      <3> QED BY <2>2, <2>3, <3>1 DEF Tree!Make, Tree!Root
    <2>5. V[q] # <<>> /\ U[q] = <<x>> /\ V[q] = T[q] /\ \A r \in DOMAIN V \ {q} : U[r] = V[r]
      BY <2>1 DEF Grown, Filled
    <2>6. U = [V EXCEPT ![q] = U[q]]
      BY <1>1, <2>1, <2>2, <2>5
    <2>7. Tree!Put(V, U, q)
      BY <1>2, <1>8, <2>2, <2>5, <2>6 DEF Tree!Put
    <2>8. [U EXCEPT ![q] = T[q]] = V
      BY <1>1, <2>1, <2>2, <2>5
    <2>9. Tree!Slip(T, U)
      BY <1>2, <1>8, <2>1, <2>2, <2>4, <2>7, <2>8 DEF Tree!Slip, Tree!Nowhere, Nul
    <2>10. Tree!Edit
      BY <1>2, <2>2, <2>9 DEF Tree!Edit, Tree!store, Tree!Lost, Lost
    <2> QED BY <2>10 DEF Tree!Next
  <1>9. CASE here = <<Nul>> /\ there = <<Nul>> /\ U = Lost
    <2>1. Tree!Lose
      BY <1>2, <1>9 DEF Tree!Lose, Tree!store, Tree!Lost, Lost, Tree!Nowhere, Nul
    <2> QED BY <2>1 DEF Tree!Next
  <1>10. CASE T = Lost
    <2>1. Tree!Stray
      BY <1>1, <1>2, <1>10 DEF Tree!Stray, Tree!store, Tree!Lost, Lost
    <2> QED BY <2>1 DEF Tree!Next
  <1> HIDE DEF T, U, here, there, img, written
  <1> QED BY <1>3, <1>4, <1>5, <1>6, <1>7, <1>8, <1>9, <1>10 DEF Edits

\* What the steps need beyond IInv, and preserve: no directory is named "." or "..",
\* on the disk and in what is still to be made either.
PlanOK(plan) == \A e \in Range(plan) : e.isDir /\ e.path # <<>> => Last(e.path) \notin {".", ".."}

NamesOK ==
  /\ NoDotDirs(nodes)
  /\ \A img \in cands \ {Nothing} : NoDotDirs(img.table)
  /\ PlanOK(todo)

TreeInv == IInv /\ NamesOK

\* A command that changes the table.
LEMMA EditStep ==
  ASSUME TreeInv, NEW t, Shows(t), nodes' = t, UNCHANGED <<cwd, stored, cands>>, PlanOK(todo'),
         Edits(TreeOf(nodes), TreeOf(t), PathOf(nodes, cwd), PathOf(t, cwd))
  PROVE  NamesOK' /\ [Tree!Next]_(Tree!vars)
  <1>1. NamesOK'
    BY DEF TreeInv, NamesOK, Shows
  <1>2. Shows(nodes) /\ Shows(nodes')
    BY DEF TreeInv, NamesOK, IInv, Shows
  <1> QED BY <1>1, <1>2, EditMaps

\* cd (shell.c 451-470), and the end of the seeding (1335).
LEMMA GoStep ==
  ASSUME TreeInv, UNCHANGED <<nodes, stored, cands, todo>>, IsLiveDir(nodes, cwd')
  PROVE  NamesOK' /\ [Tree!Next]_(Tree!vars)
  <1>1. NamesOK'
    BY DEF TreeInv, NamesOK
  <1>2. Shows(nodes) /\ cwd' \in Slots
    BY DEF TreeInv, NamesOK, IInv, Shows, IsLiveDir, Live
  <1>3. /\ TreeOf(nodes)' = TreeOf(nodes) /\ Trees(stored)' = Trees(stored)
        /\ {Trees(img) : img \in cands}' = {Trees(img) : img \in cands}
        /\ PathOf(nodes, cwd)' = PathOf(nodes, cwd')
    OBVIOUS
  <1>4. CASE Rooted(nodes)
    <2>1. TreeOf(nodes) # Tree!Lost /\ Tree!IsDir(TreeOf(nodes), PathOf(nodes, cwd'))
      BY <1>2, <1>4, TreeIsTree DEF PathOf, Tree!IsDir, Tree!Lost, Lost
    <2>2. Tree!Go
      BY <1>3, <2>1 DEF Tree!Go, Tree!store
    <2> QED BY <1>1, <2>2 DEF Tree!Next
  <1>5. CASE ~Rooted(nodes)
    <2>1. PathOf(nodes, cwd') = PathOf(nodes, cwd)
      BY <1>5 DEF PathOf
    <2> QED BY <1>1, <1>3, <2>1 DEF Tree!vars
  <1> QED BY <1>4, <1>5

\* What the plans hold is what is left of them.
LEMMA PlansAreOK ==
  /\ PlanOK(SeedPlan) /\ PlanOK(InstallPlan) /\ PlanOK(<<>>)
  /\ \A plan \in Seq(EntryType) : PlanOK(plan) /\ plan # <<>> =>
       /\ PlanOK(Tail(plan)) /\ Head(plan) \in EntryType
       /\ Head(plan).isDir /\ Head(plan).path # <<>> => Last(Head(plan).path) \notin {".", ".."}
  <1>1. PlanOK(SeedPlan) /\ PlanOK(InstallPlan)
    BY ShellAssumption DEF PlanOK
  <1>2. PlanOK(<<>>)
    <2>1. Range(<<>>) = {}
      BY DEF Range
    <2> QED BY <2>1 DEF PlanOK
  <1>3. ASSUME NEW plan \in Seq(EntryType), PlanOK(plan), plan # <<>>
        PROVE  /\ PlanOK(Tail(plan)) /\ Head(plan) \in EntryType
               /\ Head(plan).isDir /\ Head(plan).path # <<>>
                    => Last(Head(plan).path) \notin {".", ".."}
    <2>1. Head(plan) \in Range(plan) /\ Head(plan) \in EntryType
      BY <1>3 DEF Range
    <2>2. Range(Tail(plan)) \subseteq Range(plan)
      BY <1>3 DEF Range
    <2> QED BY <1>3, <2>1, <2>2 DEF PlanOK
  <1> QED BY <1>1, <1>2, <1>3

\* A save of the table is one of the tree, as far as the disk goes.
LEMMA SaveShows ==
  ASSUME DiskOK, NEW t, Shows(t), SaveWorks(t) \/ SaveFails(t)
  PROVE  /\ Tree!Save(TreeOf(t))
         /\ \A img \in cands' \ {Nothing} : img \in cands \/ img.table = t
  <1> DEFINE img == Image(2, t)
             W == {Trees(i) : i \in cands}
  <1>1. img # Nothing /\ img.table = t
    <2>1. DOMAIN img # DOMAIN Nothing
      BY DEF Image, Nothing
    <2> QED BY <2>1 DEF Image
  <1>2. Decodes(img)
    BY <1>1 DEF Decodes, Shows, Sane, RootIntact
  <1> HIDE DEF img
  <1>3. Trees(img) = {TreeOf(t)} /\ Trees(Nothing) = {}
    BY <1>1, <1>2 DEF Trees
  <1>4. \/ stored' = img /\ cands' = {img}
        \/ stored' \in cands' /\ cands' = cands \cup {Nothing, img}
    BY DEF SaveWorks, SaveFails, Written, Flushed, img
  <1>5. /\ Trees(stored)' = Trees(stored')
        /\ {Trees(i) : i \in cands}' = {Trees(i) : i \in cands'}
    OBVIOUS
  <1>6. CASE stored' = img /\ cands' = {img}
    <2>1. {Trees(i) : i \in cands'} = {{TreeOf(t)}} /\ Trees(stored') = {TreeOf(t)}
      BY <1>3, <1>6
    <2> QED BY <1>1, <1>5, <1>6, <2>1 DEF Tree!Save
  <1>7. CASE stored' \in cands' /\ cands' = cands \cup {Nothing, img}
    <2>1. {Trees(i) : i \in cands'} = W \cup {{}, {TreeOf(t)}}
      BY <1>3, <1>7
    <2>2. Trees(stored') \in {Trees(i) : i \in cands'}
      BY <1>7
    <2> QED BY <1>1, <1>5, <1>7, <2>1, <2>2 DEF Tree!Save
  <1> QED BY <1>4, <1>6, <1>7

\* disk_save_fs, and what becomes of the current directory (disk.c 195-288).
LEMMA SaveStep ==
  ASSUME TreeInv, SaveWorks(nodes) \/ SaveFails(nodes), UNCHANGED <<nodes, todo>>,
         cwd' = cwd \/ cwd' = 0
  PROVE  NamesOK' /\ [Tree!Next]_(Tree!vars)
  <1>1. Shows(nodes)
    BY DEF TreeInv, NamesOK, IInv, Shows
  <1>2. /\ Tree!Save(TreeOf(nodes))
        /\ \A img \in cands' \ {Nothing} : img \in cands \/ img.table = nodes
    BY <1>1, SaveShows DEF TreeInv, IInv
  <1>3. NamesOK'
    BY <1>2 DEF TreeInv, NamesOK
  <1>4. /\ TreeOf(nodes)' = TreeOf(nodes)
        /\ PathOf(nodes, cwd)' = PathOf(nodes, cwd')
    OBVIOUS
  <1>5. \/ PathOf(nodes, cwd') = PathOf(nodes, cwd)
        \/ Tree!IsDir(TreeOf(nodes), <<>>) /\ PathOf(nodes, cwd') = <<>>
    <2>1. CASE cwd' = cwd
      BY <2>1
    <2>2. CASE cwd' = 0 /\ Rooted(nodes)
      BY <1>1, <2>2, RootIsPath, TreeIsTree DEF Tree!IsTree, Tree!Root
    <2>3. CASE ~Rooted(nodes)
      BY <2>3 DEF PathOf
    <2> QED BY <2>1, <2>2, <2>3
  <1>6. Tree!Keep
    BY <1>2, <1>4, <1>5 DEF Tree!Keep, Tree!Root
  <1> QED BY <1>3, <1>6 DEF Tree!Next

\* fs_init, perhaps followed by a save (shell.c 881, 987, 1321).
LEMMA WipeStep ==
  ASSUME TreeInv, nodes' = FreshTable,
         SaveWorks(FreshTable) \/ SaveFails(FreshTable) \/ UNCHANGED <<stored, cands>>,
         cwd' \in {cwd, 0}, PlanOK(todo')
  PROVE  NamesOK' /\ [Tree!Next]_(Tree!vars)
  <1> DEFINE t == FreshTable
  <1>1. \/ Tree!Save(TreeOf(t))
        \/ UNCHANGED <<stored, cands>>
    BY FreshShows, SaveShows DEF TreeInv, IInv
  <1>2. \A img \in cands' \ {Nothing} : img \in cands \/ img.table = t
    BY FreshShows, SaveShows DEF TreeInv, IInv
  <1>3. NamesOK'
    BY <1>2, FreshShows DEF TreeInv, NamesOK, Shows
  <1>4. /\ Rooted(t) /\ TreeOf(t) = Tree!Bare
        /\ \A c : PathOf(t, c) = IF c = 0 THEN <<>> ELSE <<Nul>>
    BY FreshTree DEF Tree!Bare, Tree!Root
  <1>5. /\ TreeOf(nodes)' = TreeOf(t)
        /\ PathOf(nodes, cwd)' = PathOf(t, cwd')
    OBVIOUS
  <1>6. UNCHANGED <<stored, cands>> => UNCHANGED Tree!store
    BY DEF Tree!store
  <1>7. PathOf(nodes, cwd) = <<>> => cwd = 0
    BY RootIsPath DEF TreeInv, NamesOK, IInv, Shows
  <1> HIDE DEF t
  <1>8. Tree!Save(Tree!Bare) \/ UNCHANGED Tree!store
    BY <1>1, <1>4, <1>6
  <1>9. Tree!Wipe
    BY <1>4, <1>5, <1>7, <1>8 DEF Tree!Wipe, Tree!Root, Tree!Nowhere, Nul
  <1> QED BY <1>3, <1>9 DEF Tree!Next

\* A reset, with or without a loss of power.
LEMMA RestartStep ==
  ASSUME TreeInv, Reset
  PROVE  NamesOK' /\ [Tree!Next]_(Tree!vars)
  <1> DEFINE t == FreshTable
  <1>1. /\ nodes' = t /\ cwd' = 0 /\ todo' = <<>> /\ cands' = cands
        /\ stored' \in cands
    BY DEF Reset, PowerLoss, disk, TreeInv, IInv, DiskOK
  <1>2. PlanOK(todo')
    BY <1>1, PlansAreOK
  <1>3. NamesOK'
    BY <1>1, <1>2, FreshShows DEF TreeInv, NamesOK, Shows
  <1>4. TreeOf(t) = Tree!Bare /\ PathOf(t, 0) = <<>>
    BY FreshTree DEF Tree!Bare, Tree!Root
  <1>5. /\ TreeOf(nodes)' = TreeOf(t)
        /\ PathOf(nodes, cwd)' = PathOf(t, 0)
        /\ Trees(stored)' = Trees(stored')
        /\ {Trees(img) : img \in cands}' = {Trees(img) : img \in cands}
    BY <1>1
  <1> HIDE DEF t
  <1>6. Trees(stored') \in {Trees(img) : img \in cands}
    BY <1>1
  <1>7. Tree!Restart
    BY <1>4, <1>5, <1>6 DEF Tree!Restart, Tree!Root
  <1> QED BY <1>3, <1>7 DEF Tree!Next

\* disk_load_fs (fs.c 533-621).
LEMMA LoadStep ==
  ASSUME TreeInv, stored # Nothing, Decodes(stored), nodes' = Decode(stored), cwd' = 0,
         UNCHANGED <<stored, cands, todo>>
  PROVE  NamesOK' /\ [Tree!Next]_(Tree!vars)
  <1> DEFINE t == Decode(stored)
  <1>1. stored \in [version : {1, 2}, table : Tables] /\ Shows(stored.table)
    BY DecodesSane DEF TreeInv, NamesOK, IInv, DiskOK, Shows
  <1>2. /\ Shows(t) /\ SameNodes(stored.table, t)
        /\ \A i \in Slots : t[i].data = stored.table[i].data
    BY <1>1, DecodeShows
  <1>3. NamesOK'
    BY <1>2 DEF TreeInv, NamesOK, Shows
  <1>4. /\ TreeOf(nodes)' = TreeOf(t)
        /\ PathOf(nodes, cwd)' = PathOf(t, cwd')
        /\ Trees(stored)' = Trees(stored)
        /\ {Trees(img) : img \in cands}' = {Trees(img) : img \in cands}
    OBVIOUS
  <1> HIDE DEF t
  <1>5. TreeOf(t) = TreeOf(stored.table)
    BY <1>1, <1>2, SameTree
  <1>6. PathOf(t, cwd') = IF TreeOf(t) = Tree!Lost THEN <<Nul>> ELSE <<>>
    BY <1>2, RootIsPath, TreesAreFunctions
  <1>7. Trees(stored) = {TreeOf(t)}
    BY <1>5 DEF Trees
  <1>8. Tree!Load
    BY <1>4, <1>6, <1>7 DEF Tree!Load, Tree!store, Tree!Root, Tree!Nowhere, Nul
  <1> QED BY <1>3, <1>8 DEF Tree!Next

\* A step that leaves the table, the current directory and the disk alone.
LEMMA StutterStep ==
  ASSUME TreeInv, UNCHANGED <<nodes, cwd, stored, cands, todo>>
  PROVE  NamesOK' /\ [Tree!Next]_(Tree!vars)
  BY DEF TreeInv, NamesOK, Tree!vars

\* Seeding and installing: a call with the root as current directory (shell.c 869-939,
\* 1175-1251).
LEMMA PlantStep ==
  ASSUME TreeInv, PlantNext
  PROVE  NamesOK' /\ [Tree!Next]_(Tree!vars)
  <1> DEFINE e == Head(todo)
             t == nodes
             from == 0
             u == Plant(t, e)
  <1>1. /\ Shows(t) /\ cwd \in Slots /\ todo \in Seq(EntryType) /\ todo # <<>> /\ PlanOK(todo)
        /\ from \in Slots
    BY TableAssumption DEF TreeInv, NamesOK, IInv, SessionOK, Shows, PlantNext, Slots
  <1>2. /\ PlanOK(Tail(todo)) /\ e \in EntryType
        /\ e.isDir /\ e.path # <<>> => Last(e.path) \notin {".", ".."}
    BY <1>1, PlansAreOK
  <1>3. e.path \in PathType /\ e.owner \in Uids /\ e.text \in Texts \cup {Nul} /\ e.isDir \in BOOLEAN
    BY <1>2 DEF EntryType
  <1>4. IsLiveDir(t, from)
    BY <1>1 DEF Shows, Sane, RootIntact
  <1>5. /\ nodes' = u /\ todo' = Tail(todo) /\ UNCHANGED <<cwd, stored, cands>>
        /\ u = IF e.isDir THEN Create(t, from, e.path, e.isDir, e.owner, DirMode)
               ELSE Write(t, from, e.path, e.text)
    BY <1>3 DEF PlantNext, disk, Plant
  <1> HIDE DEF e, t, u, from
  <1>6. CASE e.isDir
    <2>1. HomeOf(t, from, e.path) # Fail => e.path # <<>>
      BY DEF HomeOf
    <2>2. Shows(u)
      BY <1>1, <1>2, <1>3, <1>5, <1>6, <2>1, CreateShows, TableAssumption
    <2>3. Edits(TreeOf(t), TreeOf(u), PathOf(t, cwd), PathOf(u, cwd))
      BY <1>1, <1>3, <1>4, <1>5, <1>6, <2>2, CreateEdits
    <2> QED BY <1>2, <1>5, <2>2, <2>3, EditStep DEF t
  <1>7. CASE ~e.isDir
    <2> DEFINE v == Opened(t, from, e.path)
    <2>1. /\ v = t \/ v = Touch(t, from, e.path)
          /\ u = Fill(v, Resolve(v, from, e.path), e.text)
      BY <1>5, <1>7 DEF Write, Opened
    <2> HIDE DEF v
    <2>2. Shows(v)
      BY <1>1, <1>3, <2>1, TouchShows
    <2>3. Shows(u)
      BY <1>3, <2>1, <2>2, FillShows
    <2>4. Edits(TreeOf(t), TreeOf(u), PathOf(t, cwd), PathOf(u, cwd))
      BY <1>1, <1>3, <1>4, <2>1, <2>2, <2>3, WriteEdits
    <2> QED BY <1>2, <1>5, <2>3, <2>4, EditStep DEF t
  <1> QED BY <1>3, <1>6, <1>7

\* write and nano (shell.c 559-585, 1094-1173).
LEMMA WriteSteps ==
  ASSUME TreeInv, NEW path \in Paths, NEW text \in Texts,
         WriteFile(path, text) \/ \E save \in BOOLEAN : Nano(path, text, save)
  PROVE  NamesOK' /\ [Tree!Next]_(Tree!vars)
  <1> DEFINE t == nodes
             v == Touch(t, cwd, path)
             from == cwd
  <1>1. Shows(t) /\ cwd \in Slots /\ path \in PathType /\ PlanOK(todo) /\ text \in Texts \cup {Nul}
    BY ShellAssumption DEF TreeInv, NamesOK, IInv, SessionOK, Shows
  <1>2. Shows(v)
    BY <1>1, TouchShows
  <1>3. ASSUME NEW u, u = t \/ u = v, Edit(Fill(u, Resolve(u, cwd, path), text))
        PROVE  NamesOK' /\ [Tree!Next]_(Tree!vars)
    <2> DEFINE w == Fill(u, Resolve(u, cwd, path), text)
    <2>1. Shows(u) /\ Shows(w)
      BY <1>1, <1>2, <1>3, FillShows
    <2> HIDE DEF w
    <2>2. w = Fill(u, Resolve(u, cwd, path), text)
      BY DEF w
    <2>3. Edits(TreeOf(t), TreeOf(w), PathOf(t, cwd), PathOf(w, cwd))
      BY <1>1, <1>3, <2>1, <2>2, WriteEdits
    <2>4. nodes' = w /\ UNCHANGED <<cwd, stored, cands>> /\ PlanOK(todo')
      BY <1>1, <1>3, <2>2 DEF Edit, session, disk
    <2> QED BY <2>1, <2>3, <2>4, EditStep
  <1>4. CASE WriteFile(path, text)
    <2>1. Edit(Fill(Opened(t, cwd, path), Resolve(Opened(t, cwd, path), cwd, path), text))
      BY <1>4 DEF WriteFile, Write
    <2>2. Opened(t, cwd, path) = t \/ Opened(t, cwd, path) = v
      BY DEF Opened
    <2> HIDE DEF t, v
    <2> QED BY <1>3, <2>1, <2>2
  <1>5. ASSUME NEW save \in BOOLEAN, Nano(path, text, save)
        PROVE  NamesOK' /\ [Tree!Next]_(Tree!vars)
    <2>1. CASE Reads(v, cwd, path) /\ Edit(Write(v, cwd, path, text))
      <3>1. Opened(v, cwd, path) = v
        BY <2>1 DEF Reads, Opened
      <3>2. Edit(Fill(v, Resolve(v, cwd, path), text))
        BY <2>1, <3>1 DEF Write
      <3> QED BY <1>3, <3>2
    <2>2. CASE Edit(v)
      <3> DEFINE kind == FALSE
      <3>1. kind \in BOOLEAN /\ v = Create(t, from, path, kind, Super, FileMode)
        BY DEF Touch
      <3>2. Edit(v) /\ from = cwd
        BY <2>2
      <3> HIDE DEF kind, v, t, from
      <3>3. Edits(TreeOf(t), TreeOf(v), PathOf(t, cwd), PathOf(v, cwd))
        BY <1>1, <1>2, <3>1, <3>2, CreateEdits
      <3>4. nodes' = v /\ UNCHANGED <<cwd, stored, cands>> /\ PlanOK(todo')
        BY <1>1, <3>2 DEF Edit, session, disk
      <3> QED BY <1>2, <3>3, <3>4, EditStep DEF t
    <2>3. Edit(v) \/ (Reads(v, cwd, path) /\ Edit(Write(v, cwd, path, text)))
      BY <1>5 DEF Nano
    <2> QED BY <2>1, <2>2, <2>3
  <1> QED BY <1>4, <1>5

\* rm (shell.c 587-595).
LEMMA RemoveStep ==
  ASSUME TreeInv, NEW path \in Paths, Rm(path)
  PROVE  NamesOK' /\ [Tree!Next]_(Tree!vars)
  <1> DEFINE u == RemoveNode(nodes, cwd, path)
  <1>1. Shows(nodes) /\ PlanOK(todo)
    BY DEF TreeInv, NamesOK, IInv, Shows
  <1>2. Shows(u)
    BY <1>1, RemoveShows
  <1>3. Edits(TreeOf(nodes), TreeOf(u), PathOf(nodes, cwd), PathOf(u, cwd))
    BY <1>1, <1>2, RemoveEdits
  <1>4. nodes' = u /\ UNCHANGED <<cwd, stored, cands>> /\ PlanOK(todo')
    BY <1>1 DEF Rm, Edit, session, disk
  <1> HIDE DEF u
  <1> QED BY <1>2, <1>3, <1>4, EditStep

\* mkdir, touch, chmod and chown (shell.c 472-525, 623-668).
LEMMA EntrySteps ==
  ASSUME TreeInv, NEW path \in Paths, NEW uid \in Users,
         \/ Mkdir(path, uid) \/ TouchFile(path, uid) \/ Chown(path, uid)
         \/ \E mode \in NewModes : Chmod(path, mode, uid)
  PROVE  NamesOK' /\ [Tree!Next]_(Tree!vars)
  <1> DEFINE t == nodes
             n == Resolve(nodes, cwd, path)
             from == cwd
  <1>1. /\ Shows(t) /\ cwd \in Slots /\ path \in PathType /\ PlanOK(todo)
        /\ uid \in Uids /\ t \in Tables /\ NewModes \subseteq Modes
    BY ShellAssumption DEF TreeInv, NamesOK, IInv, SessionOK, Shows, Sane, Neat
  <1>2. ASSUME NEW u, Edit(u)
        PROVE  nodes' = u /\ UNCHANGED <<cwd, stored, cands>> /\ PlanOK(todo')
    BY <1>1, <1>2 DEF Edit, session, disk
  <1>3. ASSUME NEW isDir \in BOOLEAN, NEW mode \in Modes,
               Edit(Create(t, from, path, isDir, uid, mode)), Resolve(t, cwd, path) = Fail
        PROVE  NamesOK' /\ [Tree!Next]_(Tree!vars)
    <2> DEFINE u == Create(t, from, path, isDir, uid, mode)
    <2>1. HomeOf(t, cwd, path) # Fail => Last(path) \notin {".", ".."}
      BY <1>1, <1>3, MissingIsProper
    <2>2. Shows(u)
      BY <1>1, <2>1, CreateShows
    <2>3. Edit(u) /\ from = cwd /\ u = Create(t, from, path, isDir, uid, mode)
      BY <1>3
    <2> HIDE DEF u, t, from
    <2>4. Edits(TreeOf(t), TreeOf(u), PathOf(t, cwd), PathOf(u, cwd))
      BY <1>1, <2>2, <2>3, CreateEdits
    <2> QED BY <1>2, <2>2, <2>3, <2>4, EditStep DEF t
  <1>4. CASE Mkdir(path, uid) \/ TouchFile(path, uid)
    <2>1. /\ Resolve(t, cwd, path) = Fail
          /\ \E isDir \in BOOLEAN, mode \in Modes : Edit(Create(t, from, path, isDir, uid, mode))
      BY <1>4, TableAssumption DEF Mkdir, TouchFile
    <2> HIDE DEF t, from
    <2> QED BY <1>3, <2>1
  <1>5. ASSUME NEW mode \in Modes, NEW u \in {SetMode(t, n, mode), SetOwner(t, n, uid)}, Edit(u)
        PROVE  NamesOK' /\ [Tree!Next]_(Tree!vars)
    <2>1. Shows(u) /\ SameNodes(t, u) /\ \A i \in Slots : u[i].data = t[i].data
      BY <1>1, <1>5, SettersShow
    <2>2. Edits(TreeOf(t), TreeOf(u), PathOf(t, cwd), PathOf(u, cwd))
      BY <1>1, <2>1, SameEdits
    <2> QED BY <1>2, <1>5, <2>1, <2>2, EditStep
  <1>6. CASE Chown(path, uid) \/ \E mode \in NewModes : Chmod(path, mode, uid)
    <2>1. \E mode \in Modes : Edit(SetMode(t, n, mode)) \/ Edit(SetOwner(t, n, uid))
      BY <1>1, <1>6, TableAssumption DEF Chmod, Chown
    <2> HIDE DEF t, n
    <2> QED BY <1>5, <2>1
  <1> QED BY <1>4, <1>6

\* Every step of a session (shell.c 1253-1366) is one of the tree, or none.
LEMMA TreeStep ==
  ASSUME TreeInv, [Next]_vars
  PROVE  NamesOK' /\ [Tree!Next]_(Tree!vars)
  <1>0. /\ IsLiveDir(nodes, 0) /\ PlanOK(todo)
        /\ PlanOK(SeedPlan) /\ PlanOK(InstallPlan) /\ PlanOK(<<>>)
    BY PlansAreOK DEF TreeInv, NamesOK, IInv, Sane, RootIntact
  <1>1. CASE UNCHANGED vars
    BY <1>1, StutterStep DEF vars, session, disk
  <1>2. CASE LoginFromDisk \/ (DiskLoad /\ Decodes(stored))
    <2>1. /\ stored # Nothing /\ Decodes(stored) /\ nodes' = Decode(stored) /\ cwd' = 0
          /\ UNCHANGED <<stored, cands, todo>>
      BY <1>2 DEF LoginFromDisk, DiskLoad, LoadWorks, disk
    <2> QED BY <2>1, LoadStep
  <1>3. CASE LoginLive \/ (DiskLoad /\ ~Decodes(stored)) \/ DiskFormat \/ InstallBegin
    <2>1. /\ nodes' = FreshTable /\ cwd' \in {cwd, 0}
          /\ SaveWorks(FreshTable) \/ SaveFails(FreshTable) \/ UNCHANGED <<stored, cands>>
      BY <1>3 DEF LoginLive, DiskLoad, DiskFormat, InstallBegin, disk
    <2>2. todo' \in {todo, SeedPlan, InstallPlan}
      BY <1>3 DEF LoginLive, DiskLoad, DiskFormat, InstallBegin
    <2>3. PlanOK(todo')
      BY <1>0, <2>2
    <2> QED BY <2>1, <2>3, WipeStep
  <1>4. CASE PlantNext
    BY <1>4, PlantStep
  <1>5. CASE SeedDone \/ CdHome \/ \E path \in Paths, uid \in Users : Cd(path, uid)
    <2>1. UNCHANGED <<nodes, stored, cands, todo>> /\ IsLiveDir(nodes, cwd')
      BY <1>0, <1>5 DEF SeedDone, CdHome, Cd, disk
    <2> QED BY <2>1, GoStep
  <1>6. CASE InstallEnd \/ Sync \/ Logout
    <2>1. CASE SaveWorks(nodes) \/ SaveFails(nodes)
      <3>1. UNCHANGED <<nodes, todo>> /\ (cwd' = cwd \/ cwd' = 0)
        BY <1>6 DEF InstallEnd, Sync, Logout, session
      <3> QED BY <2>1, <3>1, SaveStep
    <2>2. CASE ~(SaveWorks(nodes) \/ SaveFails(nodes))
      <3>1. UNCHANGED <<nodes, cwd, stored, cands, todo>>
        BY <1>6, <2>2 DEF InstallEnd, Sync, Logout, disk
      <3> QED BY <3>1, StutterStep
    <2> QED BY <2>1, <2>2
  <1>7. ASSUME NEW path \in Paths, NEW text \in Texts,
               WriteFile(path, text) \/ \E save \in BOOLEAN : Nano(path, text, save)
        PROVE  NamesOK' /\ [Tree!Next]_(Tree!vars)
    BY <1>7, WriteSteps
  <1>8. ASSUME NEW path \in Paths, NEW uid \in Users,
               \/ Mkdir(path, uid) \/ TouchFile(path, uid) \/ Chown(path, uid)
               \/ \E mode \in NewModes : Chmod(path, mode, uid)
        PROVE  NamesOK' /\ [Tree!Next]_(Tree!vars)
    BY <1>8, EntrySteps
  <1>9. ASSUME NEW path \in Paths, Rm(path)
        PROVE  NamesOK' /\ [Tree!Next]_(Tree!vars)
    BY <1>9, RemoveStep
  <1>10. CASE Reset
    BY <1>10, RestartStep
  <1> QED BY <1>1, <1>2, <1>3, <1>4, <1>5, <1>6, <1>7, <1>8, <1>9, <1>10 DEF Next, Command

\* The machine starts with a bare tree.
LEMMA TreeInit == Init => TreeInv /\ Tree!Init
  <1> SUFFICES ASSUME Init PROVE TreeInv /\ Tree!Init
    OBVIOUS
  <1>1. IInv
    BY InitIsSane
  <1>2. /\ nodes = FreshTable /\ cwd = 0 /\ todo = <<>>
        /\ stored = Nothing \/ stored \in InitialDisks \ {Nothing}
        /\ cands = {stored}
    BY DEF Init
  <1>3. NamesOK
    BY <1>2, FreshShows, PlansAreOK, ShellAssumption DEF NamesOK, Shows
  <1>4. TreeOf(nodes) = Tree!Bare /\ PathOf(nodes, cwd) = Tree!Root
    BY <1>2, FreshTree DEF Tree!Bare, Tree!Root
  <1>5. Trees(stored) = {} \/ \E t \in Trees(stored) : Trees(stored) = {t} /\ (t = Tree!Lost \/ Tree!IsTree(t))
    <2>1. CASE stored = Nothing \/ ~Decodes(stored)
      BY <2>1 DEF Trees
    <2>2. CASE stored # Nothing /\ Decodes(stored)
      <3>1. Shows(stored.table)
        BY <1>1, <1>3, <2>2, DecodesSane DEF NamesOK, IInv, DiskOK, Shows
      <3>2. TreeOf(stored.table) = Tree!Lost \/ Tree!IsTree(TreeOf(stored.table))
        BY <3>1, TreesAreFunctions
      <3> QED BY <2>2, <3>2 DEF Trees
    <2> QED BY <2>1, <2>2
  <1>6. {Trees(img) : img \in cands} = {Trees(stored)}
    BY <1>2
  <1> QED BY <1>1, <1>3, <1>4, <1>5, <1>6 DEF TreeInv, Tree!Init

\* The sessions keep the promise of a tree of paths (fs.c 250-494, shell.c 1313-1366),
\* for every table, every plan and every disk: what else can become of the table
\* and of the current directory when that directory is gone is what PathTree says.
THEOREM SessionRefinesTree == Spec => ImplementsPathTree
  <1>1. TreeInv /\ [Next]_vars => TreeInv' /\ [Tree!Next]_(Tree!vars)
    BY NextIsSane, TreeStep DEF TreeInv
  <1> QED BY <1>1, TreeInit, PTL DEF Spec, ImplementsPathTree, Tree!Spec

------------------------------------------------------------------------------
(* The desktop *)

\* While no login was completed no terminal is open and a disk is selected only if
\* the kernel says so; after a cold start none was looked for either.
OriginOK ==
  /\ origin \in {"zero", "cut", "seed", "image"}
  /\ origin = "zero" => ~found
  /\ origin \in {"zero", "cut"} => phase = "off" /\ available = copied

\* A machine switched on.
LEMMA InitIsOriginOK == DesktopInit => OriginOK
  BY DEF DesktopInit, OriginOK

\* The programs of the desktop leave terminal, driver and origin alone.
LEMMA ProgramsLeaveDriver ==
  ASSUME Kate \/ Settings \/ Files \/ ShutDown
  PROVE  /\ origin' = origin /\ found' = found /\ phase' = phase
         /\ available' = available /\ copied' = copied
  <1>1. CASE Kate
    <2>1. CASE OpenKate \/ LeaveKate \/ AskKate \/ StayInKate \/ DiscardText
      BY <2>1 DEF OpenKate, LeaveKate, AskKate, StayInKate, DiscardText, machine, vars, session
    <2>2. CASE F2Kate \/ SaveAndQuit
      BY <2>2 DEF F2Kate, SaveAndQuit, KateSave, machine, vars, session
    <2>3. CASE \E text \in Drafts \cup {Nul} : Type(text)
      BY <2>3 DEF Type, machine, vars, session
    <2> QED BY <1>1, <2>1, <2>2, <2>3 DEF Kate
  <1>2. CASE Settings
    <2>1. CASE OpenSettings \/ CancelEdit \/ LeaveSettings
      BY <2>1 DEF OpenSettings, CancelEdit, LeaveSettings, machine, vars, session
    <2>2. CASE F2Settings
      BY <2>2 DEF F2Settings, machine, session
    <2>3. CASE \E field \in {"host", "zone", "other"} : BeginEdit(field)
      BY <2>3 DEF BeginEdit, machine, vars, session
    <2>4. CASE \E text \in HostNames \cup Zones \cup {Nul} : EndEdit(text)
      BY <2>4 DEF EndEdit, machine, vars, session
    <2> QED BY <1>2, <2>1, <2>2, <2>3, <2>4 DEF Settings
  <1>3. CASE Files
    <2>1. CASE OpenFiles \/ FolderUp \/ CloseView \/ CloseFiles
      BY <2>1 DEF OpenFiles, FolderUp, CloseView, CloseFiles, machine, vars, session
    <2>2. CASE \E n \in Slots : EnterFolder(n) \/ View(n)
      BY <2>2 DEF EnterFolder, View, machine, vars, session
    <2> QED BY <1>3, <2>1, <2>2 DEF Files
  <1>4. CASE ShutDown
    BY <1>4 DEF ShutDown, machine, vars, session
  <1> QED BY <1>1, <1>2, <1>3, <1>4

\* A terminal that is open works on a table of its own making.
LEMMA TerminalHasATable ==
  ASSUME OriginOK, OpenTerminal \/ Terminal \/ CloseTerminal
  PROVE  origin' \in {"seed", "image"}
  <1>1. CASE OpenTerminal
    BY <1>1 DEF OpenTerminal
  <1>2. CASE Terminal
    <2>1. phase # "off"
      BY <1>2 DEF Terminal, PlantNext, SeedDone, Rm, Mkdir, WriteFile, Edit, Ready
    <2>2. origin' = origin
      BY <1>2 DEF Terminal
    <2> QED BY <2>1, <2>2 DEF OriginOK
  <1>3. CASE CloseTerminal
    <2>1. phase # "off" /\ origin' = origin
      BY <1>3 DEF CloseTerminal, Logout, Ready, machine
    <2> QED BY <2>1 DEF OriginOK
  <1> QED BY <1>1, <1>2, <1>3

\* Starting, cold, warm, or in the middle of a login.
LEMMA StartsKeepOrigin ==
  ASSUME OriginOK, PowerCycle \/ WarmReset \/ WarmResetAtLogin
  PROVE  OriginOK'
  <1>1. phase' = "off" /\ available' = copied /\ copied' = copied
    BY DEF PowerCycle, WarmReset, WarmResetAtLogin, Start
  <1>2. \/ origin' = "zero" /\ ~found'
        \/ origin' = "cut"
        \/ origin' = origin /\ found' = found
    BY DEF PowerCycle, WarmReset, WarmResetAtLogin
  <1> QED BY <1>1, <1>2 DEF OriginOK

LEMMA NextIsOriginOK == OriginOK /\ [DesktopNext]_allVars => OriginOK'
  <1> SUFFICES ASSUME OriginOK, [DesktopNext]_allVars PROVE OriginOK'
    OBVIOUS
  <1>1. CASE OpenTerminal \/ Terminal \/ CloseTerminal
    BY <1>1, TerminalHasATable DEF OriginOK
  <1>2. CASE Kate \/ Settings \/ Files \/ ShutDown
    BY <1>2, ProgramsLeaveDriver DEF OriginOK
  <1>3. CASE PowerCycle \/ WarmReset \/ WarmResetAtLogin
    BY <1>3, StartsKeepOrigin
  <1>4. CASE UNCHANGED allVars
    BY <1>4 DEF allVars, vars, session, desktop, machine, OriginOK
  <1> QED BY <1>1, <1>2, <1>3, <1>4 DEF DesktopNext

\* A program of the desktop writes to the disk only if the driver knows it.
LEMMA SavesNeedTheList ==
  ASSUME NEW t, DesktopSave(t), saves' # saves
  PROVE  available /\ found
  BY DEF DesktopSave, disk

LEMMA ProgramsNeedTheList ==
  ASSUME Kate \/ Settings \/ Files \/ ShutDown, saves' # saves
  PROVE  available /\ found
  <1>1. CASE Kate
    <2>1. CASE OpenKate \/ LeaveKate \/ AskKate \/ StayInKate \/ DiscardText
      BY <2>1 DEF OpenKate, LeaveKate, AskKate, StayInKate, DiscardText, vars, disk
    <2>2. CASE KateSave
      <3>1. ~UNCHANGED vars
        BY DEF vars, disk
      <3>2. \E t : DesktopSave(t)
        BY <2>2, <3>1 DEF KateSave
      <3> QED BY <3>2, SavesNeedTheList
    <2>3. CASE \E text \in Drafts \cup {Nul} : Type(text)
      BY <2>3 DEF Type, vars, disk
    <2> QED BY <1>1, <2>1, <2>2, <2>3 DEF Kate, F2Kate, SaveAndQuit
  <1>2. CASE Settings
    <2>1. CASE OpenSettings \/ CancelEdit \/ LeaveSettings
      BY <2>1 DEF OpenSettings, CancelEdit, LeaveSettings, vars, disk
    <2>2. CASE SetSave
      <3>1. \E t : DesktopSave(t)
        BY <2>2 DEF SetSave
      <3> QED BY <3>1, SavesNeedTheList
    <2>3. CASE \E field \in {"host", "zone", "other"} : BeginEdit(field)
      BY <2>3 DEF BeginEdit, vars, disk
    <2>4. CASE \E text \in HostNames \cup Zones \cup {Nul} : EndEdit(text)
      BY <2>4 DEF EndEdit, vars, disk
    <2> QED BY <1>2, <2>1, <2>2, <2>3, <2>4 DEF Settings, F2Settings
  <1>3. CASE Files
    <2>1. CASE OpenFiles \/ FolderUp \/ CloseView \/ CloseFiles
      BY <2>1 DEF OpenFiles, FolderUp, CloseView, CloseFiles, vars, disk
    <2>2. CASE \E n \in Slots : EnterFolder(n) \/ View(n)
      BY <2>2 DEF EnterFolder, View, vars, disk
    <2> QED BY <1>3, <2>1, <2>2 DEF Files
  <1>4. CASE ShutDown
    BY <1>4 DEF ShutDown, vars, disk
  <1> QED BY <1>1, <1>2, <1>3, <1>4

\* Starting the machine and opening a terminal save nothing.
LEMMA StartsSaveNothing ==
  ASSUME PowerCycle \/ WarmReset \/ WarmResetAtLogin \/ OpenTerminal
  PROVE  saves' = saves
  <1>1. CASE PowerCycle
    BY <1>1 DEF PowerCycle, PowerLoss
  <1>2. CASE WarmReset \/ WarmResetAtLogin
    BY <1>2 DEF WarmReset, WarmResetAtLogin, disk
  <1>3. CASE OpenTerminal
    BY <1>3 DEF OpenTerminal, LoginFromDisk, LoginLive, disk
  <1> QED BY <1>1, <1>2, <1>3

\* What a program of the desktop saves was loaded or seeded by a whole login, whatever
\* is typed before the first terminal is opened, and whenever the machine was reset;
\* but for a kernel that the installer copied, after a reset in the middle of a login
\* (desktop.c 1016-1030, 1151-1164; shell.c 1319-1324; disk.c 23).
THEOREM OnlyLoginsAreSaved == DesktopSpec => SavesFollowALogin
  <1>1. ASSUME OriginOK, [DesktopNext]_allVars, saves' # saves
        PROVE  origin \in {"seed", "image"} \/ (copied /\ origin = "cut")
    <2>1. CASE Kate \/ Settings \/ Files \/ ShutDown
      BY <1>1, <2>1, ProgramsNeedTheList DEF OriginOK
    <2>2. CASE Terminal \/ CloseTerminal
      <3>1. origin' = origin
        BY <2>2 DEF Terminal, CloseTerminal, machine
      <3> QED BY <1>1, <2>2, <3>1, TerminalHasATable
    <2>3. CASE PowerCycle \/ WarmReset \/ WarmResetAtLogin \/ OpenTerminal
      BY <1>1, <2>3, StartsSaveNothing
    <2>4. CASE UNCHANGED allVars
      BY <1>1, <2>4 DEF allVars, vars, disk
    <2> QED BY <1>1, <2>1, <2>2, <2>3, <2>4 DEF DesktopNext
  <1>2. DesktopSpec => []OriginOK
    BY InitIsOriginOK, NextIsOriginOK, PTL DEF DesktopSpec
  <1>3. OriginOK /\ [DesktopNext]_allVars
          => [saves' # saves
                => origin \in {"seed", "image"} \/ (copied /\ origin = "cut")]_allVars
    BY <1>1
  <1> QED BY <1>2, <1>3, PTL DEF DesktopSpec, SavesFollowALogin
------------------------------------------------------------------------------
(* The programs of the desktop: the table *)

\* Memory is without a root, as a cold start or a login cut short may leave it, or
\* sane.
TableOK == Formed(nodes) /\ (origin \in {"seed", "image"} => nodes[0].used)

MachineOK == TableOK /\ OriginOK /\ SessionOK /\ DiskOK

LEMMA SystemNames ==
  /\ Proper("untitled.txt") /\ Proper("etc") /\ Proper("hostname") /\ Proper("timezone")
  /\ DirMode \in Modes /\ FileMode \in Modes /\ Super \in Uids /\ 0 \in Slots
  BY DesktopAssumption, TableAssumption DEF Proper, Slots

LEMMA ZeroIsNeat == Neat(ZeroTable) /\ ~ZeroTable[0].used
  <1>1. Vacant \in NodeType
    BY SystemNames, TableAssumption DEF Vacant, NodeType
  <1>2. ZeroTable \in Tables
    BY <1>1 DEF ZeroTable, Tables
  <1>3. SiblingsDistinct(ZeroTable) /\ ProperlyNamed(ZeroTable) /\ ~ZeroTable[0].used
    BY SystemNames DEF SiblingsDistinct, ProperlyNamed, ZeroTable, Vacant
  <1> QED BY <1>2, <1>3 DEF Neat

\* An entry of that name is settled if it is a file of that text, or if nothing
\* could be done about it: it is a directory, or is missing and the table full.
Settled(t, p, name, text) ==
  \/ HasFile(t, p, name, text)
  \/ HasDir(t, p, name)
  \/ Absent(t, p, name) /\ FreeSlots(t) = {}

\* Writing another file of the directory leaves it settled.
LEMMA AddsSettles ==
  ASSUME NEW t, NEW u, NEW p, NEW name, NEW other, NEW text,
         other # name, Adds(t, u, p, other), Settled(t, p, name, text)
  PROVE  Settled(u, p, name, text)
  <1>1. CASE HasFile(t, p, name, text)
    BY <1>1 DEF Adds, HasFile, Settled
  <1>2. CASE HasDir(t, p, name)
    BY <1>2 DEF Adds, HasDir, Settled
  <1>3. CASE Absent(t, p, name) /\ FreeSlots(t) = {}
    BY <1>3 DEF Adds, Absent, FreeSlots, Settled
  <1> QED BY <1>1, <1>2, <1>3 DEF Settled

\* A file written by its bare name is settled (fs_write_file, 400-424).
LEMMA BareWrite ==
  ASSUME NEW t, Neat(t), NEW p \in Slots, NEW name, Proper(name),
         NEW text \in Texts \cup {Nul}
  PROVE  /\ Adds(t, Write(t, p, <<name>>, text), p, name)
         /\ Settled(Write(t, p, <<name>>, text), p, name, text)
         /\ HasFile(Write(t, p, <<name>>, text), p, name, text) \/ HasDir(t, p, name)
            \/ (Absent(t, p, name) /\ FreeSlots(t) = {})
  <1> DEFINE path == <<name>>
             u == Write(t, p, path, text)
             o == Opened(t, p, path)
  <1>1. \A v : /\ path \in PathType /\ Last(path) = name
               /\ Resolve(v, p, path) = Find(v, p, name)
               /\ HomeOf(v, p, path) = p
    BY BareName
  <1>2. p # Fail
    BY TableAssumption DEF Slots, Fail
  <1> HIDE DEF path
  <1>3. /\ Adds(t, u, p, name)
        /\ HasFile(u, p, name, text) \/ HasDir(t, p, name)
           \/ (Absent(t, p, name) /\ FreeSlots(t) = {})
    <2>1. Adds(t, o, p, name) => Resolve(o, p, path) = Find(o, p, name)
      BY <1>1
    <2>2. /\ HomeOf(t, p, path) = p /\ Last(path) = name /\ path \in PathType
          /\ Resolve(t, p, path) = Find(t, p, name)
      BY <1>1
    <2> QED BY <1>2, <2>1, <2>2, WriteAdds
  <1> HIDE DEF u
  <1>6. Settled(u, p, name, text)
    <2>1. CASE HasFile(u, p, name, text)
      BY <2>1 DEF Settled
    <2>2. CASE HasDir(t, p, name)
      BY <1>3, <2>2 DEF Adds, HasDir, Settled
    <2>3. CASE Absent(t, p, name) /\ FreeSlots(t) = {}
      BY <1>3, <2>3 DEF Adds, Absent, FreeSlots, Settled
    <2> QED BY <1>3, <2>1, <2>2, <2>3
  <1> QED BY <1>3, <1>6 DEF u, path

\* What a file has if it is settled and can be made.
LEMMA SettledFile ==
  ASSUME NEW t, Neat(t), NEW p \in Slots, NEW name, Proper(name), NEW text,
         Settled(t, p, name, text)
  PROVE  \/ /\ Reads(t, p, <<name>>)
            /\ t[Resolve(t, p, <<name>>)].data = text
         \/ /\ Resolve(t, p, <<name>>) # Fail
            /\ t[Resolve(t, p, <<name>>)].isDir
         \/ Resolve(t, p, <<name>>) = Fail /\ FreeSlots(t) = {}
  <1> DEFINE n == Resolve(t, p, <<name>>)
  <1>1. n = Find(t, p, name)
    BY BareName
  <1>2. \A i \in Slots : t[i].used /\ t[i].parent = p /\ t[i].name = name
                           => n = i /\ n # Fail
    BY <1>1, FindIs, TableAssumption DEF Neat, Slots, Fail
  <1>3. Reads(t, p, <<name>>) <=> n # Fail /\ ~t[n].isDir
    BY DEF Reads
  <1>4. CASE HasFile(t, p, name, text)
    <2>1. PICK i \in Slots : /\ t[i].used /\ ~t[i].isDir /\ t[i].parent = p
                             /\ t[i].name = name /\ t[i].data = text
      BY <1>4 DEF HasFile
    <2> HIDE DEF n
    <2>2. n = i /\ n # Fail
      BY <1>2, <2>1
    <2> QED BY <1>3, <2>1, <2>2 DEF n
  <1>5. CASE HasDir(t, p, name)
    <2>1. PICK i \in Slots : t[i].used /\ t[i].isDir /\ t[i].parent = p /\ t[i].name = name
      BY <1>5 DEF HasDir
    <2> HIDE DEF n
    <2>2. n = i /\ n # Fail
      BY <1>2, <2>1
    <2> QED BY <2>1, <2>2 DEF n
  <1>6. CASE Absent(t, p, name) /\ FreeSlots(t) = {}
    <2>1. Find(t, p, name) = Fail
      BY <1>6, NotFound DEF Absent, Named
    <2> QED BY <1>1, <1>6, <2>1
  <1> QED BY <1>4, <1>5, <1>6 DEF Settled

\* A program saves a table it has changed: the table keeps its root, and reaches
\* the disk only where there is one.
LEMMA ProgramSaves ==
  ASSUME MachineOK, NEW t, Keeps(nodes, t), nodes' = t, DesktopSave(t),
         UNCHANGED session, UNCHANGED machine
  PROVE  MachineOK'
  <1> USE DEF MachineOK
  <1>1. TableOK'
    BY DEF TableOK, Formed, Keeps, machine
  <1>2. SessionOK'
    BY DEF SessionOK, session
  <1>3. OriginOK'
    BY DEF OriginOK, session, machine
  <1>4. CASE available /\ found
    <2>1. Formed(t)
      BY DEF TableOK, Formed, Keeps
    <2>2. SaveWorks(t) \/ SaveFails(t)
      BY <1>4 DEF DesktopSave
    <2>3. DiskOK'
      BY <2>1, <2>2, SaveIsSane
    <2> QED BY <1>1, <1>2, <1>3, <2>3
  <1>5. CASE ~(available /\ found)
    <2>1. DiskOK'
      BY <1>5, DiskUntouched DEF DesktopSave, disk, DiskOK
    <2> QED BY <1>1, <1>2, <1>3, <2>1
  <1> QED BY <1>4, <1>5

\* A step that leaves table, session, disk and driver alone.
LEMMA MachineUntouched ==
  ASSUME MachineOK, UNCHANGED vars, UNCHANGED machine
  PROVE  MachineOK'
  BY DEF MachineOK, TableOK, OriginOK, SessionOK, DiskOK, vars, session, disk, machine
------------------------------------------------------------------------------
(* The editor and the settings: what is read back *)

LEMMA FileReads ==
  ASSUME NEW t, Neat(t), NEW p \in Slots, NEW name, Proper(name), NEW text,
         HasFile(t, p, name, text)
  PROVE  Reads(t, p, <<name>>) /\ t[Resolve(t, p, <<name>>)].data = text
  <1>1. PICK i \in Slots : /\ t[i].used /\ ~t[i].isDir /\ t[i].parent = p
                           /\ t[i].name = name /\ t[i].data = text
    BY DEF HasFile
  <1>2. Resolve(t, p, <<name>>) = i
    BY <1>1, BareName, FindIs DEF Neat
  <1>3. i # Fail
    BY TableAssumption DEF Slots, Fail
  <1> QED BY <1>1, <1>2, <1>3 DEF Reads

\* kate_save (desktop.c 1016-1030), where both calls return 0: the file has the text.
LEMMA KateSaved ==
  ASSUME NEW t, Neat(t), NEW text \in Texts \cup {Nul}, Creates(t, 0, Untitled, FALSE)
  PROVE  Keeps(t, Write(t, 0, Untitled, text)) /\ HasText(Write(t, 0, Untitled, text), text)
  <1> DEFINE u == Write(t, 0, Untitled, text)
             name == "untitled.txt"
  <1>0. Proper(name) /\ 0 \in Slots /\ Untitled = <<name>>
    BY SystemNames DEF Untitled
  <1> HIDE DEF name
  <1>1. /\ Adds(t, u, 0, name)
        /\ HasFile(u, 0, name, text) \/ HasDir(t, 0, name)
           \/ (Absent(t, 0, name) /\ FreeSlots(t) = {})
    BY <1>0, BareWrite
  <1>2. HomeOf(t, 0, Untitled) = 0 /\ Last(Untitled) = name
    BY <1>0, BareName
  <1>3. IF Find(t, 0, name) = Fail THEN FreeSlots(t) # {} ELSE ~t[Find(t, 0, name)].isDir
    <2>1. \A b \in BOOLEAN : Creates(t, 0, Untitled, b) =>
            IF Find(t, 0, name) = Fail THEN FreeSlots(t) # {}
            ELSE t[Find(t, 0, name)].isDir = b
      BY <1>2 DEF Creates
    <2>2. IF Find(t, 0, name) = Fail THEN FreeSlots(t) # {}
          ELSE t[Find(t, 0, name)].isDir = FALSE
      BY <2>1
    <2> QED BY <2>2
  <1>4. ~HasDir(t, 0, name)
    <2> SUFFICES ASSUME NEW i \in Slots, t[i].used, t[i].isDir, t[i].parent = 0,
                        t[i].name = name
                 PROVE  FALSE
      BY DEF HasDir
    <2>1. Find(t, 0, name) = i
      BY FindIs DEF Neat
    <2>2. i # Fail
      BY TableAssumption DEF Slots, Fail
    <2> QED BY <1>3, <2>1, <2>2
  <1>5. ~(Absent(t, 0, name) /\ FreeSlots(t) = {})
    <2> SUFFICES ASSUME Absent(t, 0, name), FreeSlots(t) = {} PROVE FALSE
      OBVIOUS
    <2>1. Find(t, 0, name) = Fail
      BY NotFound DEF Absent, Named
    <2> QED BY <1>3, <2>1
  <1>6. Keeps(t, u) /\ Neat(u) /\ HasFile(u, 0, name, text)
    BY <1>1, <1>4, <1>5 DEF Adds, Keeps
  <1> HIDE DEF u
  <1>7. Reads(u, 0, Untitled) /\ u[Resolve(u, 0, Untitled)].data = text
    BY <1>0, <1>6, FileReads
  <1> QED BY <1>6, <1>7 DEF HasText, u

\* One half of what the settings promise.
ReadsBackIn(t, name, default, value) ==
  LET file == Resolve(t, Resolve(t, 0, Etc), <<name>>)
  IN  \/ value = Nul
      \/ Setting(t, name, default) = value
      \/ IF file = Fail THEN FreeSlots(t) = {} ELSE t[file].isDir

\* set_save makes /etc if there is room for it (1151-1156).
LEMMA EtcDirIs ==
  ASSUME NEW t, Neat(t)
  PROVE  /\ Keeps(t, EtcDir(t))
         /\ Resolve(EtcDir(t), 0, Etc) = Find(EtcDir(t), 0, "etc")
         /\ Find(EtcDir(t), 0, "etc") = Fail => FreeSlots(EtcDir(t)) = {}
  <1> DEFINE name == "etc"
             s == EtcDir(t)
             slot == AllocNode(t)
  <1>0. Proper(name) /\ 0 \in Slots /\ Etc = <<name>> /\ 0 # Fail
    BY SystemNames DEF Etc, Fail
  <1> HIDE DEF name
  <1>1. \A v : /\ Resolve(v, 0, Etc) = Find(v, 0, name) /\ Etc \in PathType
               /\ HomeOf(v, 0, Etc) = 0 /\ Last(Etc) = name
    BY <1>0, BareName
  <1>2. CASE Find(t, 0, name) # Fail
    <2>1. s = t
      BY <1>1, <1>2 DEF EtcDir
    <2> QED BY <1>1, <1>2, <2>1 DEF Keeps, name
  <1>3. CASE Find(t, 0, name) = Fail
    <2>1. Absent(t, 0, name) /\ Named(t, 0, name) = {}
      BY <1>3, NotFound DEF Absent, Named
    <2>2. \A b \in BOOLEAN : Keeps(t, Create(t, 0, Etc, b, Super, DirMode))
      BY <1>0, <1>1, SystemNames, CreateKeeps
    <2>3. s = Create(t, 0, Etc, TRUE, Super, DirMode)
      BY <1>1, <1>3 DEF EtcDir
    <2>4. Keeps(t, s)
      BY <2>2, <2>3
    <2>5. CASE FreeSlots(t) = {}
      <3>1. s = t
        BY <2>3, <2>5 DEF Create
      <3> QED BY <1>1, <2>4, <2>5, <3>1 DEF name
    <2>6. CASE FreeSlots(t) # {}
      <3>1. \A b \in BOOLEAN : Create(t, 0, Etc, b, Super, DirMode)[slot] =
              [used |-> TRUE, isDir |-> b, parent |-> 0, name |-> name,
               owner |-> Super, mode |-> DirMode, data |-> Nul]
        <4> TAKE b \in BOOLEAN
        <4>1. HomeOf(t, 0, Etc) = 0 /\ Last(Etc) = name
          BY <1>1
        <4> DEFINE here == 0
        <4> HIDE DEF here, slot
        <4>2. here # Fail /\ HomeOf(t, here, Etc) = here /\ Absent(t, here, name)
          BY <1>0, <2>1, <4>1 DEF here
        <4>3. Create(t, here, Etc, b, Super, DirMode)[AllocNode(t)] =
                [used |-> TRUE, isDir |-> b, parent |-> here, name |-> name,
                 owner |-> Super, mode |-> DirMode, data |-> Nul]
          BY <2>6, <4>1, <4>2, CreateMakes
        <4> QED BY <4>3 DEF here, slot
      <3>2. s[slot] = [used |-> TRUE, isDir |-> TRUE, parent |-> 0, name |-> name,
                       owner |-> Super, mode |-> DirMode, data |-> Nul]
        BY <2>3, <3>1
      <3>3. slot \in Slots
        BY <2>6, AllocIs
      <3> HIDE DEF s, slot
      <3>4. Find(s, 0, name) = slot
        BY <2>4, <3>2, <3>3, FindIs DEF Keeps, Neat
      <3>5. slot # Fail
        BY <3>3, TableAssumption DEF Slots, Fail
      <3> QED BY <1>1, <2>4, <3>4, <3>5 DEF s, name
    <2> QED BY <2>5, <2>6
  <1> QED BY <1>2, <1>3

\* /etc is where it was after a file was written.
LEMMA EtcStays ==
  ASSUME NEW t, NEW u, NEW p, NEW name, NEW e, Adds(t, u, p, name),
         Find(t, 0, "etc") = e, e # Fail
  PROVE  Find(u, 0, "etc") = e
  <1>1. e \in Slots /\ t[e].used /\ t[e].name = "etc" /\ t[e].parent = 0
    BY FoundIs
  <1>2. u[e].used /\ u[e].name = "etc" /\ u[e].parent = 0 /\ SiblingsDistinct(u)
    BY <1>1 DEF Adds, Keeps, Neat
  <1> QED BY <1>1, <1>2, FindIs

\* set_save: whatever became of /etc, both settings read back, or cannot be made.
LEMMA SetSaved ==
  ASSUME NEW t, Neat(t), NEW h \in Texts \cup {Nul}, NEW z \in Texts \cup {Nul},
         NEW u, u = WithFile(EtcDir(t), "hostname", h),
         NEW v, v = WithFile(u, "timezone", z)
  PROVE  /\ Keeps(t, v)
         /\ ReadsBackIn(v, "hostname", "furos", h)
         /\ ReadsBackIn(v, "timezone", "UTC", z)
  <1> DEFINE s == EtcDir(t)
             e == Find(s, 0, "etc")
  <1>0. /\ Proper("etc") /\ Proper("hostname") /\ Proper("timezone") /\ "hostname" # "timezone"
        /\ 0 \in Slots /\ Etc = <<"etc">>
    BY SystemNames DEF Etc
  <1>1. Keeps(t, s) /\ Resolve(s, 0, Etc) = e /\ (e = Fail => FreeSlots(s) = {})
    BY EtcDirIs
  <1>2. \A w : Resolve(w, 0, Etc) = Find(w, 0, "etc")
    BY <1>0, BareName
  <1>3. CASE e = Fail
    <2>1. u = s
      BY <1>1, <1>3 DEF WithFile
    <2> HIDE DEF s
    <2>2. v = s
      BY <1>1, <1>3, <2>1 DEF WithFile
    <2>3. \A name : Resolve(s, Fail, <<name>>) = Fail
      BY ResolveOne DEF Walk
    <2> QED BY <1>1, <1>3, <2>2, <2>3 DEF ReadsBackIn
  <1>4. CASE e # Fail
    <2>1. e \in Slots
      BY <1>4, FoundIs
    <2>2. u = Write(s, e, <<"hostname">>, h)
      BY <1>1, <1>4 DEF WithFile
    <2> HIDE DEF s
    <2>3. Adds(s, u, e, "hostname") /\ Settled(u, e, "hostname", h)
      BY <1>0, <1>1, <2>1, <2>2, BareWrite DEF Keeps
    <2>4. Find(u, 0, "etc") = e
      BY <1>4, <2>3, EtcStays
    <2>5. v = Write(u, e, <<"timezone">>, z)
      BY <1>2, <1>4, <2>4 DEF WithFile
    <2>6. Adds(u, v, e, "timezone") /\ Settled(v, e, "timezone", z)
      <3>1. Neat(u)
        BY <2>3 DEF Adds, Keeps
      <3> HIDE DEF e
      <3> QED BY <1>0, <2>1, <2>5, <3>1, BareWrite
    <2>7. Find(v, 0, "etc") = e
      BY <1>4, <2>4, <2>6, EtcStays
    <2>8. Settled(v, e, "hostname", h)
      BY <1>0, <2>3, <2>6, AddsSettles
    <2>9. Keeps(t, v) /\ Neat(v)
      BY <1>1, <2>3, <2>6 DEF Adds, Keeps
    <2> HIDE DEF e
    <2>10. ASSUME NEW name, Proper(name), NEW text, Settled(v, e, name, text), NEW default
           PROVE  ReadsBackIn(v, name, default, text)
      <3>1. Resolve(v, 0, Etc) = e
        BY <1>2, <2>7
      <3>2. \/ /\ Reads(v, e, <<name>>)
               /\ v[Resolve(v, e, <<name>>)].data = text
            \/ /\ Resolve(v, e, <<name>>) # Fail
               /\ v[Resolve(v, e, <<name>>)].isDir
            \/ Resolve(v, e, <<name>>) = Fail /\ FreeSlots(v) = {}
        BY <2>1, <2>9, <2>10, SettledFile
      <3> QED BY <1>4, <3>1, <3>2 DEF ReadsBackIn, Setting, e
    <2> QED BY <1>0, <2>6, <2>8, <2>9, <2>10
  <1> QED BY <1>3, <1>4

\* What a program reads is a text.
LEMMA ReadIsText ==
  ASSUME NEW t \in Tables, NEW here \in Slots, NEW path, Len(path) \in Nat, Reads(t, here, path)
  PROVE  t[Resolve(t, here, path)].data \in Texts \cup {Nul}
  BY ResolveStays DEF Reads, Tables, NodeType

LEMMA SettingIsText ==
  ASSUME NEW t \in Tables, NEW name, NEW default \in Texts \cup {Nul}
  PROVE  Setting(t, name, default) \in Texts \cup {Nul}
  <1> DEFINE etc == Resolve(t, 0, Etc)
  <1>1. etc \in Slots \cup {Fail}
    BY SystemNames, ResolveStays DEF Etc
  <1>2. Len(<<name>>) \in Nat
    OBVIOUS
  <1>3. CASE etc # Fail /\ Reads(t, etc, <<name>>)
    <2>1. t[Resolve(t, etc, <<name>>)].data \in Texts \cup {Nul}
      <3> HIDE DEF etc
      <3> QED BY <1>1, <1>2, <1>3, ReadIsText
    <2> QED BY <2>1 DEF Setting
  <1>4. CASE ~(etc # Fail /\ Reads(t, etc, <<name>>))
    BY <1>4 DEF Setting
  <1> QED BY <1>3, <1>4
------------------------------------------------------------------------------
(* The programs of the desktop: every step *)

\* The file manager is in the root, or in a directory that hangs from it, and what
\* it shows is the file that was selected.
FilesOK ==
  /\ app \in {"files", "view"} => folder = 0 \/ Hangs(nodes, folder)
  /\ app = "view" /\ Addressable(nodes, open) /\ PathFits(nodes, open)
       => content = nodes[open].data

DInv ==
  /\ MachineOK
  /\ DesktopTypeOK
  /\ EditorTellsTheTruth
  /\ SettingsReadBack
  /\ FilesOK

LEMMA HangsIsLive ==
  ASSUME NEW t, NEW n, Hangs(t, n)
  PROVE  IsLiveDir(t, n)
  <1>1. Ancestors(t, n)[0] = n /\ 0 \in 0..MaxNodes
    BY AncestorsAlong, TableAssumption
  <1> QED BY <1>1 DEF Hangs

LEMMA DInvMeans ==
  DInv => DesktopTypeOK /\ EditorTellsTheTruth /\ SettingsReadBack /\ ViewerShowsSelection
  BY HangsIsLive DEF DInv, FilesOK, ViewerShowsSelection

\* Of the program that does not run, nothing is claimed.
LEMMA NotRunning ==
  /\ app' \notin {"kate", "prompt"} => EditorTellsTheTruth'
  /\ app' # "settings" => SettingsReadBack'
  /\ app' \notin {"files", "view"} => FilesOK'
  BY DEF EditorTellsTheTruth, SettingsReadBack, FilesOK

LEMMA TextsAre ==
  /\ Drafts \subseteq Texts /\ HostNames \cup Zones \subseteq Texts \cup {Nul}
  /\ "furos" \in Texts \cup {Nul} /\ "UTC" \in Texts \cup {Nul}
  BY DesktopAssumption

LEMMA InitIsDInv == DesktopInit => DInv
  <1> SUFFICES ASSUME DesktopInit PROVE DInv
    OBVIOUS
  <1> USE DEF DesktopInit
  <1>1. TableOK
    BY ZeroIsNeat DEF TableOK, Formed
  <1>2. SessionOK
    BY SystemNames DEF SessionOK
  <1>3. DiskOK
    BY MayBeOnDisk DEF DiskOK
  <1>4. DesktopTypeOK
    <2>1. nodes \in Tables
      BY ZeroIsNeat DEF Neat
    <2>2. 0 \in 0..MaxCommands /\ 0 \in 0..MaxResets
      BY DesktopAssumption
    <2>3. app \in Programs /\ (app = "terminal" <=> phase # "off")
      BY DEF Programs
    <2>4. {available, found, copied} \subseteq BOOLEAN
      OBVIOUS
    <2>5. {host, zone, content} \subseteq Texts \cup {Nul} /\ {folder, open} \subseteq Slots
          /\ draft \in Drafts \cup {Nul} /\ mod \in BOOLEAN /\ changed \in BOOLEAN
      BY SystemNames
    <2> QED BY <2>1, <2>2, <2>3, <2>4, <2>5 DEF DesktopTypeOK
  <1>5. EditorTellsTheTruth /\ SettingsReadBack /\ FilesOK
    BY DEF EditorTellsTheTruth, SettingsReadBack, FilesOK
  <1> QED BY <1>1, <1>2, <1>3, <1>4, <1>5, InitIsOriginOK DEF DInv, MachineOK

\* A terminal is opened, used and closed (shell.c 1319-1366).
LEMMA TerminalKeeps ==
  ASSUME DInv, OpenTerminal \/ Terminal \/ CloseTerminal
  PROVE  DInv'
  <1>0. MachineOK /\ DesktopTypeOK
    BY DEF DInv
  <1>1. OriginOK' /\ origin' \in {"seed", "image"}
    BY <1>0, TerminalHasATable DEF MachineOK, OriginOK
  <1>2. IInv'
    <2>1. CASE OpenTerminal
      BY <1>0, <2>1, LoginIsSane DEF OpenTerminal, MachineOK
    <2>2. ASSUME Terminal \/ CloseTerminal PROVE IInv
      <3>1. origin \in {"seed", "image"}
        BY <1>1, <2>2 DEF Terminal, CloseTerminal, machine
      <3> QED BY <1>0, <3>1 DEF MachineOK, TableOK, Formed, IInv, Sane
    <2>3. CASE CloseTerminal
      <3>1. IInv /\ Command
        BY <2>2, <2>3 DEF CloseTerminal, Command
      <3> QED BY <3>1, CommandsAreSane
    <2>4. CASE Terminal
      <3>0. IInv /\ cwd \in Slots
        BY <2>2, <2>4 DEF IInv, SessionOK
      <3>1. CASE PlantNext \/ SeedDone
        BY <3>0, <3>1, SystemStepsAreSane
      <3>2. ASSUME NEW path \in Paths,
                   Rm(path) \/ Mkdir(path, Super) \/ \E text \in Drafts : WriteFile(path, text)
            PROVE  IInv'
        <4>0. path \in PathType /\ Neat(nodes)
          BY <3>0, ShellAssumption DEF IInv, Sane
        <4>1. CASE Rm(path)
          BY <3>0, <4>1, RemoveIsSane, EditIsSane DEF Rm, IInv
        <4>2. CASE Mkdir(path, Super)
          <5>1. PICK b \in BOOLEAN : Edit(Create(nodes, cwd, path, b, Super, DirMode))
            BY <4>2 DEF Mkdir
          <5>2. Sane(Create(nodes, cwd, path, b, Super, DirMode))
            BY <3>0, <4>0, SystemNames, CreateKeeps DEF IInv, Sane, Keeps
          <5> QED BY <3>0, <5>1, <5>2, EditIsSane
        <4>3. ASSUME NEW text \in Drafts, WriteFile(path, text) PROVE IInv'
          <5>1. Edit(Write(nodes, cwd, path, text))
            BY <4>3 DEF WriteFile
          <5>2. Sane(Write(nodes, cwd, path, text))
            BY <3>0, <4>0, TextsAre, WriteKeeps DEF IInv, Sane, Keeps
          <5> QED BY <3>0, <5>1, <5>2, EditIsSane
        <4> QED BY <3>2, <4>1, <4>2, <4>3
      <3> QED BY <2>4, <3>1, <3>2 DEF Terminal
    <2> QED BY <2>1, <2>3, <2>4
  <1>3. MachineOK'
    BY <1>1, <1>2 DEF IInv, MachineOK, TableOK, Formed, Sane, RootIntact, IsLiveDir, Live
  <1>4. DesktopTypeOK' /\ app' \in {"none", "terminal"}
    <2>0. nodes' \in Tables
      BY <1>2 DEF IInv, Sane, Neat
    <2>1. CASE OpenTerminal
      <3>1. phase' # "off"
        BY <2>1 DEF OpenTerminal, LoginFromDisk, LoginLive
      <3> QED BY <1>0, <2>0, <2>1, <3>1, ShellAssumption
            DEF OpenTerminal, DesktopTypeOK, Programs, editor, settings, files
    <2>2. CASE Terminal
      <3>1. phase # "off" /\ phase' # "off"
        BY <2>2 DEF Terminal, PlantNext, SeedDone, Rm, Mkdir, WriteFile, Edit, Ready, session
      <3>2. app = "terminal"
        BY <1>0, <3>1 DEF DesktopTypeOK
      <3>3. commands' \in 0..MaxCommands
        BY <1>0, <2>2, DesktopAssumption DEF Terminal, DesktopTypeOK
      <3>4. /\ app' = app /\ available' = available /\ found' = found /\ copied' = copied
            /\ origin' = origin /\ resets' = resets
            /\ UNCHANGED <<draft, mod, host, zone, editing, changed, folder, open, content>>
        BY <2>2 DEF Terminal, editor, settings, files
      <3> QED BY <1>0, <2>0, <3>1, <3>2, <3>3, <3>4 DEF DesktopTypeOK
    <2>3. CASE CloseTerminal
      <3>1. phase' = "off" /\ app' = "none"
        BY <2>3 DEF CloseTerminal, Logout
      <3> QED BY <1>0, <2>0, <2>3, <3>1
            DEF CloseTerminal, DesktopTypeOK, Programs, editor, settings, files, machine
    <2> QED BY <2>1, <2>2, <2>3
  <1> QED BY <1>3, <1>4, NotRunning DEF DInv

\* What a save in the editor leaves of the types.
LEMMA KateTyped ==
  ASSUME DesktopTypeOK, MachineOK', EditorTellsTheTruth', KateSave,
         \/ /\ app = "kate" /\ mod' = (mod /\ ~KateWrites)
            /\ UNCHANGED <<app, draft, settings, files, machine>>
         \/ app = "prompt" /\ NoProgram /\ UNCHANGED machine
  PROVE  DInv'
  <1>1. phase' = phase /\ phase = "off" /\ UNCHANGED machine
    BY DEF KateSave, vars, session, DesktopTypeOK
  <1>2. nodes' \in Tables
    BY DEF MachineOK, TableOK, Formed, Neat
  <1>3. /\ app' \in {"none", "kate"} /\ draft' \in Drafts \cup {Nul} /\ mod' \in BOOLEAN
        /\ {host', zone', content'} \subseteq Texts \cup {Nul}
        /\ editing' \in {"none", "host", "zone", "other"} /\ changed' \in BOOLEAN
        /\ {folder', open'} \subseteq Slots
    <2>1. CASE app = "kate" /\ mod' = (mod /\ ~KateWrites)
               /\ UNCHANGED <<app, draft, settings, files, machine>>
      BY <2>1 DEF DesktopTypeOK, settings, files
    <2>2. CASE app = "prompt" /\ NoProgram
      BY <2>2, SystemNames DEF NoProgram
    <2> QED BY <2>1, <2>2
  <1>4. DesktopTypeOK'
    BY <1>1, <1>2, <1>3 DEF DesktopTypeOK, Programs, machine
  <1> QED BY <1>3, <1>4, NotRunning DEF DInv

\* The editor (desktop.c 1016-1108).
LEMMA KateKeeps ==
  ASSUME DInv, Kate
  PROVE  DInv'
  <1>0. MachineOK /\ DesktopTypeOK /\ EditorTellsTheTruth
    BY DEF DInv
  <1>1. CASE OpenKate \/ LeaveKate \/ AskKate \/ StayInKate \/ DiscardText
             \/ \E text \in Drafts \cup {Nul} : Type(text)
    <2> USE DEF OpenKate, LeaveKate, AskKate, StayInKate, DiscardText, Type, NoProgram
    <2>1. UNCHANGED vars /\ UNCHANGED machine
      BY <1>1
    <2>2. MachineOK'
      BY <1>0, <2>1, MachineUntouched DEF machine
    <2>3. /\ nodes' = nodes /\ stored' = stored /\ kept' = kept /\ phase' = phase
          /\ available' = available /\ found' = found
      BY <2>1 DEF vars, session, disk, machine
    <2>4. EditorTellsTheTruth'
      <3>1. \/ draft' = Nul \/ mod'
            \/ app' \notin {"kate", "prompt"}
            \/ (app \in {"kate", "prompt"} /\ mod' = mod /\ draft' = draft)
        <4>1. CASE OpenKate \/ LeaveKate \/ DiscardText
          BY <4>1
        <4>2. CASE AskKate \/ StayInKate
          BY <4>2 DEF editor
        <4>3. CASE \E text \in Drafts \cup {Nul} : Type(text)
          BY <4>3
        <4> QED BY <1>1, <4>1, <4>2, <4>3
      <3> QED BY <1>0, <2>3, <3>1 DEF EditorTellsTheTruth, HasText
    <2>5. DesktopTypeOK'
      <3>1. /\ app' \in Programs \ {"terminal"} /\ app # "terminal"
            /\ draft' \in Drafts \cup {Nul} /\ mod' \in BOOLEAN
            /\ UNCHANGED <<settings, files>> \/ NoProgram
        BY <1>0, <1>1 DEF DesktopTypeOK, Programs, editor
      <3>2. /\ {host', zone', content'} \subseteq Texts \cup {Nul}
            /\ editing' \in {"none", "host", "zone", "other"} /\ changed' \in BOOLEAN
            /\ {folder', open'} \subseteq Slots
        BY <1>0, <3>1, SystemNames DEF DesktopTypeOK, settings, files
      <3> QED BY <1>0, <2>1, <2>3, <3>1, <3>2 DEF DesktopTypeOK, machine
    <2>6. app' \notin {"settings", "files", "view"}
      BY <1>1
    <2> QED BY <2>2, <2>4, <2>5, <2>6, NotRunning DEF DInv
  <1>2. CASE F2Kate \/ SaveAndQuit
    <2>0. /\ KateSave
          /\ \/ /\ app = "kate" /\ mod' = (mod /\ ~KateWrites)
                /\ UNCHANGED <<app, draft, settings, files, machine>>
             \/ app = "prompt" /\ NoProgram /\ UNCHANGED machine
      BY <1>2 DEF F2Kate, SaveAndQuit
    <2>1. draft \in Texts \cup {Nul} /\ Neat(nodes) /\ UNCHANGED machine
      BY <1>0, <2>0, TextsAre DEF DesktopTypeOK, MachineOK, TableOK, Formed
    <2>2. CASE KateWrites
      <3> DEFINE t == Write(nodes, 0, Untitled, draft)
      <3>1. Keeps(nodes, t) /\ HasText(t, draft)
        BY <2>1, <2>2, KateSaved DEF KateWrites
      <3>2. nodes' = t /\ DesktopSave(t) /\ UNCHANGED session
        BY <2>0, <2>2 DEF KateSave
      <3> HIDE DEF t
      <3>3. MachineOK'
        BY <1>0, <2>1, <3>1, <3>2, ProgramSaves DEF machine
      <3>4. EditorTellsTheTruth'
        <4>1. CASE app = "prompt"
          BY <2>0, <4>1, NotRunning DEF NoProgram
        <4>2. CASE app = "kate"
          <5>1. draft' = draft /\ available' = available /\ found' = found
            BY <2>0, <4>2 DEF machine
          <5>2. HasText(nodes', draft')
            BY <3>1, <3>2, <5>1
          <5>3. available /\ found /\ kept' # Nothing => stored' = Image(2, t)
            BY <3>2 DEF DesktopSave, SaveWorks, SaveFails
          <5>4. available' /\ found' /\ kept' # Nothing => HasText(stored'.table, draft')
            BY <3>1, <5>1, <5>3 DEF Image
          <5> QED BY <5>2, <5>4 DEF EditorTellsTheTruth, HasText
        <4> QED BY <2>0, <4>1, <4>2
      <3> QED BY <1>0, <2>0, <3>3, <3>4, KateTyped
    <2>3. CASE ~KateWrites
      <3>1. UNCHANGED vars
        BY <2>0, <2>3 DEF KateSave
      <3>2. MachineOK'
        BY <1>0, <2>1, <3>1, MachineUntouched DEF machine
      <3>3. EditorTellsTheTruth'
        <4>1. CASE app = "prompt"
          BY <2>0, <4>1, NotRunning DEF NoProgram
        <4>2. CASE app = "kate"
          <5>1. /\ draft' = draft /\ available' = available /\ found' = found /\ app' = app
                /\ mod' = mod /\ nodes' = nodes /\ stored' = stored /\ kept' = kept
            BY <1>0, <2>0, <2>3, <3>1, <4>2 DEF machine, vars, disk, DesktopTypeOK
          <5> QED BY <1>0, <5>1 DEF EditorTellsTheTruth, HasText
        <4> QED BY <2>0, <4>1, <4>2
      <3> QED BY <1>0, <2>0, <3>2, <3>3, KateTyped
    <2> QED BY <2>2, <2>3
  <1> QED BY <1>1, <1>2 DEF Kate
\* The settings (desktop.c 1110-1240).
LEMMA SettingsKeep ==
  ASSUME DInv, Settings
  PROVE  DInv'
  <1>0. MachineOK /\ DesktopTypeOK /\ SettingsReadBack /\ Neat(nodes) /\ nodes \in Tables
    BY DEF DInv, MachineOK, TableOK, Formed, Neat
  <1>1. CASE OpenSettings \/ CancelEdit \/ LeaveSettings
             \/ (\E field \in {"host", "zone", "other"} : BeginEdit(field))
             \/ (\E text \in HostNames \cup Zones \cup {Nul} : EndEdit(text))
    <2>1. UNCHANGED vars /\ UNCHANGED machine
      BY <1>1 DEF OpenSettings, CancelEdit, LeaveSettings, BeginEdit, EndEdit
    <2>2. MachineOK'
      BY <1>0, <2>1, MachineUntouched DEF machine
    <2>3. nodes' = nodes /\ phase' = phase
      BY <2>1 DEF vars, session
    <2>4. /\ app' \in {"settings", "none"} /\ app # "terminal"
          /\ {host', zone'} \subseteq Texts \cup {Nul}
          /\ editing' \in {"none", "host", "zone", "other"} /\ changed' \in BOOLEAN
          /\ UNCHANGED <<editor, files>> \/ NoProgram
      <3>1. CASE OpenSettings
        <4>1. /\ Setting(nodes, "hostname", "furos") \in Texts \cup {Nul}
              /\ Setting(nodes, "timezone", "UTC") \in Texts \cup {Nul}
          BY <1>0, TextsAre, SettingIsText
        <4> QED BY <3>1, <4>1 DEF OpenSettings
      <3>2. CASE CancelEdit
        BY <1>0, <3>2 DEF CancelEdit, DesktopTypeOK
      <3>3. CASE LeaveSettings
        BY <3>3 DEF LeaveSettings, NoProgram
      <3>4. ASSUME NEW field \in {"host", "zone", "other"}, BeginEdit(field)
            PROVE  /\ app' \in {"settings", "none"} /\ app # "terminal"
                   /\ {host', zone'} \subseteq Texts \cup {Nul}
                   /\ editing' \in {"none", "host", "zone", "other"} /\ changed' \in BOOLEAN
                   /\ UNCHANGED <<editor, files>>
        BY <1>0, <3>4 DEF BeginEdit, DesktopTypeOK
      <3>5. ASSUME NEW text, EndEdit(text)
            PROVE  /\ app' \in {"settings", "none"} /\ app # "terminal"
                   /\ {host', zone'} \subseteq Texts \cup {Nul}
                   /\ editing' \in {"none", "host", "zone", "other"} /\ changed' \in BOOLEAN
                   /\ UNCHANGED <<editor, files>>
        BY <1>0, <3>5, TextsAre DEF EndEdit, DesktopTypeOK
      <3> QED BY <1>1, <3>1, <3>2, <3>3, <3>4, <3>5
    <2>5. /\ draft' \in Drafts \cup {Nul} /\ mod' \in BOOLEAN
          /\ content' \in Texts \cup {Nul} /\ {folder', open'} \subseteq Slots
      BY <1>0, <2>4, SystemNames DEF DesktopTypeOK, editor, files, NoProgram
    <2>6. DesktopTypeOK'
      BY <1>0, <2>1, <2>3, <2>4, <2>5 DEF DesktopTypeOK, Programs, machine
    <2>7. SettingsReadBack'
      <3>1. CASE OpenSettings
        <4>1. host' = Setting(nodes', "hostname", "furos")
              /\ zone' = Setting(nodes', "timezone", "UTC")
          BY <2>3, <3>1 DEF OpenSettings
        <4> QED BY <4>1 DEF SettingsReadBack
      <3>2. CASE CancelEdit \/ \E field \in {"host", "zone", "other"} : BeginEdit(field)
        <4>1. app = "settings" /\ host' = host /\ zone' = zone /\ changed' = changed
          BY <3>2 DEF CancelEdit, BeginEdit
        <4> QED BY <1>0, <2>3, <4>1 DEF SettingsReadBack
      <3>3. CASE LeaveSettings
        BY <3>3, NotRunning DEF LeaveSettings, NoProgram
      <3>4. CASE \E text \in HostNames \cup Zones \cup {Nul} : EndEdit(text)
        <4>1. changed' = TRUE
          BY <3>4 DEF EndEdit
        <4> QED BY <4>1 DEF SettingsReadBack
      <3> QED BY <1>1, <3>1, <3>2, <3>3, <3>4
    <2> QED BY <2>2, <2>4, <2>6, <2>7, NotRunning DEF DInv
  <1>2. CASE F2Settings
    <2>1. PICK u, v : /\ u = WithFile(EtcDir(nodes), "hostname", host)
                      /\ v = WithFile(u, "timezone", zone)
                      /\ nodes' = v /\ DesktopSave(v)
      BY <1>2 DEF F2Settings, SetSave
    <2>2. /\ app = "settings" /\ UNCHANGED session /\ changed' = FALSE
          /\ UNCHANGED <<app, editor, host, zone, editing, files, machine>>
      BY <1>2 DEF F2Settings
    <2>3. {host, zone} \subseteq Texts \cup {Nul}
      BY <1>0 DEF DesktopTypeOK
    <2>4. /\ Keeps(nodes, v)
          /\ ReadsBackIn(v, "hostname", "furos", host)
          /\ ReadsBackIn(v, "timezone", "UTC", zone)
      BY <1>0, <2>1, <2>3, SetSaved
    <2>5. MachineOK'
      BY <1>0, <2>1, <2>2, <2>4, ProgramSaves DEF machine
    <2>6. ReadsBackIn(nodes', "hostname", "furos", host')
          /\ ReadsBackIn(nodes', "timezone", "UTC", zone')
      BY <2>1, <2>2, <2>4
    <2>7. SettingsReadBack'
      BY <2>6 DEF SettingsReadBack, ReadsBackIn
    <2>8. DesktopTypeOK'
      <3>1. nodes' \in Tables
        BY <2>5 DEF MachineOK, TableOK, Formed, Neat
      <3> QED BY <1>0, <2>2, <3>1 DEF DesktopTypeOK, session, editor, files, machine
    <2> QED BY <2>2, <2>5, <2>7, <2>8, NotRunning DEF DInv
  <1> QED BY <1>1, <1>2 DEF Settings

\* The path of an entry of a directory that hangs from the root is a path.
LEMMA PathIsPath ==
  ASSUME NEW t \in Tables, NEW n \in Slots, Ancestors(t, n)[MaxNodes] = 0,
         \A d \in 1..MaxNodes : IsLiveDir(t, Ancestors(t, n)[d])
  PROVE  Len(MakePath(t, n)) \in Nat
  <1> DEFINE up == Ancestors(t, n)
             D  == Depth(t, n)
             names == NamesTo(t, n)
             S == Names \cup {Nul, "/"}
  <1>1. /\ D \in 0..MaxNodes
        /\ names = [i \in 1..D |-> t[up[D - i]].name]
    BY DepthIs
  <1>2. up[0] = n
    BY AncestorsAlong
  <1>3. MaxNodes \in Nat
    BY TableAssumption
  <1> HIDE DEF D, names
  <1>4. ASSUME NEW i \in 1..D PROVE names[i] \in S
    <2>1. D - i \in 0..MaxNodes /\ (D - i = 0 \/ D - i \in 1..MaxNodes)
      BY <1>1, <1>3
    <2>2. up[D - i] \in Slots
      BY <1>2, <2>1 DEF IsLiveDir, Live
    <2>3. t[up[D - i]].name \in S
      <3> HIDE DEF up
      <3> QED BY <2>2 DEF Tables, NodeType
    <2> QED BY <1>1, <2>3
  <1>5. names \in Seq(S)
    <2>1. D \in Nat /\ names = [i \in 1..D |-> names[i]]
      BY <1>1, <1>3
    <2> HIDE DEF S
    <2>2. names \in [1..D -> S]
      BY <1>4, <2>1
    <2> QED BY <2>1, <2>2
  <1>6. <<Nul>> \o names \in Seq(S)
    <2>1. <<Nul>> \in Seq(S)
      OBVIOUS
    <2> HIDE DEF S
    <2> QED BY <1>5, <2>1, ConcatProperties
  <1>7. Len(<<Nul>> \o names) \in Nat
    <2> HIDE DEF S
    <2> QED BY <1>6, LenProperties
  <1>8. CASE n = 0
    BY <1>8 DEF MakePath
  <1>9. CASE n # 0
    BY <1>7, <1>9 DEF MakePath, names
  <1> QED BY <1>8, <1>9

\* An entry listed by the file manager hangs from the root.
LEMMA EntriesHang ==
  ASSUME DInv, app = "files", NEW n \in Entries
  PROVE  /\ n \in Slots /\ nodes[n].used
         /\ Ancestors(nodes, n)[MaxNodes] = 0
         /\ \A d \in 1..MaxNodes : IsLiveDir(nodes, Ancestors(nodes, n)[d])
  <1>1. IsLiveDir(nodes, folder) /\ n \in Slots /\ nodes[n].used /\ nodes[n].parent = folder
    BY DEF Entries, Listing
  <1>2. folder = 0 \/ Hangs(nodes, folder)
    BY DEF DInv, FilesOK
  <1>3. CASE folder = 0
    <2>1. IsLiveDir(nodes, 0)
      BY <1>1, <1>3
    <2>2. /\ Ancestors(nodes, 0)[MaxNodes] = 0
          /\ \A d \in 1..MaxNodes : IsLiveDir(nodes, Ancestors(nodes, 0)[d])
      BY <2>1, SystemNames, EntryHangs
    <2>3. Hangs(nodes, 0)
      BY <2>1, <2>2, DirectoryHangs
    <2> QED BY <1>1, <1>3, <2>3, EntryHangs
  <1>4. CASE Hangs(nodes, folder)
    <2>1. Hangs(nodes, nodes[n].parent)
      BY <1>1, <1>4
    <2>2. n \in Slots
      BY <1>1
    <2>3. /\ Ancestors(nodes, n)[MaxNodes] = 0
          /\ \A d \in 1..MaxNodes : IsLiveDir(nodes, Ancestors(nodes, n)[d])
      BY ONLY <2>1, <2>2, EntryHangs, TableAssumption
    <2> QED BY <1>1, <2>3
  <1> QED BY <1>2, <1>3, <1>4

\* The file manager (desktop.c 640-790).
LEMMA FilesKeep ==
  ASSUME DInv, Files
  PROVE  DInv'
  <1>0. MachineOK /\ DesktopTypeOK /\ FilesOK /\ Neat(nodes) /\ nodes \in Tables
    BY DEF DInv, MachineOK, TableOK, Formed, Neat
  <1>1. UNCHANGED vars /\ UNCHANGED machine
    BY DEF Files, OpenFiles, EnterFolder, FolderUp, View, CloseView, CloseFiles
  <1>2. MachineOK'
    BY <1>0, <1>1, MachineUntouched DEF machine
  <1>3. nodes' = nodes /\ phase' = phase
    BY <1>1 DEF vars, session
  <1>4. /\ app' \in {"files", "view", "none"} /\ app # "terminal"
        /\ UNCHANGED <<editor, settings>> \/ NoProgram
    BY DEF Files, OpenFiles, EnterFolder, FolderUp, View, CloseView, CloseFiles, NoProgram
  <1>5. ASSUME {folder', open'} \subseteq Slots, content' \in Texts \cup {Nul}, FilesOK'
        PROVE  DInv'
    <2>1. /\ draft' \in Drafts \cup {Nul} /\ mod' \in BOOLEAN
          /\ {host', zone'} \subseteq Texts \cup {Nul}
          /\ editing' \in {"none", "host", "zone", "other"} /\ changed' \in BOOLEAN
      BY <1>0, <1>4 DEF DesktopTypeOK, editor, settings, NoProgram
    <2>2. DesktopTypeOK'
      BY <1>0, <1>1, <1>3, <1>4, <1>5, <2>1 DEF DesktopTypeOK, Programs, machine
    <2> QED BY <1>2, <1>4, <1>5, <2>2, NotRunning DEF DInv
  <1>6. CASE OpenFiles
    BY <1>0, <1>3, <1>5, <1>6, SystemNames DEF OpenFiles, FilesOK, DesktopTypeOK
  <1>7. CASE CloseFiles
    BY <1>5, <1>7, SystemNames, NotRunning DEF CloseFiles, NoProgram
  <1>8. CASE CloseView
    BY <1>0, <1>3, <1>5, <1>8, SystemNames DEF CloseView, FilesOK, DesktopTypeOK
  <1>9. CASE FolderUp
    <2>1. /\ app = "files" /\ app' = "files" /\ Live(nodes, folder)
          /\ folder' = nodes[folder].parent /\ open' = open /\ content' = content
      BY <1>9 DEF FolderUp
    <2>2. folder' \in Slots
      BY <1>0, <2>1 DEF Live, Tables, NodeType
    <2>3. folder' = 0 \/ Hangs(nodes', folder')
      <3>1. CASE folder = 0
        BY <1>0, <2>1, <3>1 DEF MachineOK, TableOK, Formed, RootIntact, Live
      <3>2. CASE folder # 0
        BY <1>0, <1>3, <2>1, <3>2, ParentHangs DEF FilesOK
      <3> QED BY <3>1, <3>2
    <2> QED BY <1>0, <1>5, <2>1, <2>2, <2>3 DEF FilesOK, DesktopTypeOK
  <1>10. ASSUME NEW n \in Slots, EnterFolder(n) PROVE DInv'
    <2>1. /\ app = "files" /\ app' = "files" /\ n \in Entries /\ IsLiveDir(nodes, n)
          /\ folder' = n /\ open' = open /\ content' = content
      BY <1>10 DEF EnterFolder
    <2>2. Hangs(nodes', folder')
      BY <1>3, <2>1, EntriesHang, DirectoryHangs
    <2> QED BY <1>0, <1>5, <2>1, <2>2 DEF FilesOK, DesktopTypeOK
  <1>11. ASSUME NEW n \in Slots, View(n) PROVE DInv'
    <2> DEFINE path == MakePath(nodes, n)
               file == Resolve(nodes, 0, path)
    <2>1. /\ app = "files" /\ app' = "view" /\ n \in Entries /\ ~IsLiveDir(nodes, n)
          /\ open' = n /\ folder' = folder
          /\ PathFits(nodes, n) => content' = ContentAt(path)
          /\ ~PathFits(nodes, n)
               => content' \in {Nul} \cup {nodes[m].data : m \in {k \in Slots : nodes[k].used}}
      BY <1>11 DEF View
    <2>2. /\ nodes[n].used
          /\ Ancestors(nodes, n)[MaxNodes] = 0
          /\ \A d \in 1..MaxNodes : IsLiveDir(nodes, Ancestors(nodes, n)[d])
      BY <2>1, EntriesHang
    <2>3. content' \in Texts \cup {Nul}
      <3>1. CASE PathFits(nodes, n)
        <4>1. Len(path) \in Nat
          BY <1>0, <2>2, PathIsPath
        <4> HIDE DEF path
        <4> QED BY <1>0, <2>1, <3>1, <4>1, SystemNames, ReadIsText DEF ContentAt
      <3>2. CASE ~PathFits(nodes, n)
        <4>1. \A m \in Slots : nodes[m].data \in Texts \cup {Nul}
          BY <1>0 DEF Tables, NodeType
        <4> QED BY <2>1, <3>2, <4>1
      <3> QED BY <3>1, <3>2
    <2>4. Addressable(nodes, n) /\ PathFits(nodes, n) => content' = nodes[n].data
      <3> SUFFICES ASSUME Addressable(nodes, n), PathFits(nodes, n)
                   PROVE  content' = nodes[n].data
        OBVIOUS
      <3>1. {".", ".."} \cap Range(NamesTo(nodes, n)) = {}
        BY DEF Addressable
      <3>2. \A d \in 1..MaxNodes : /\ nodes[Ancestors(nodes, n)[d]].used
                                  /\ Ancestors(nodes, n)[d] \in Slots
        BY <2>2 DEF IsLiveDir, Live
      <3>3. file = n
        BY <1>0, <2>2, <3>1, <3>2, PathLeadsBack
      <3>4. n # Fail /\ ~nodes[n].isDir
        BY <2>1, <2>2, TableAssumption DEF IsLiveDir, Live, Slots, Fail
      <3>5. content' = ContentAt(path)
        BY <2>1
      <3> HIDE DEF path
      <3> QED BY <3>3, <3>4, <3>5 DEF ContentAt, Reads
    <2> HIDE DEF path
    <2>5. FilesOK'
      <3>1. Addressable(nodes, n)' <=> Addressable(nodes, n)
        BY <1>3 DEF Addressable, Live, NamesTo, Ancestors
      <3>2. PathFits(nodes, n)' <=> PathFits(nodes, n)
        BY <1>3
      <3> QED BY <1>0, <1>3, <2>1, <2>4, <3>1, <3>2 DEF FilesOK
    <2> QED BY <1>0, <1>5, <2>1, <2>3, <2>5 DEF DesktopTypeOK
  <1> QED BY <1>6, <1>7, <1>8, <1>9, <1>10, <1>11 DEF Files

\* What is left of a table when its lowest slots are cleared, or only those copied.
LEMMA PartIsFormed ==
  ASSUME NEW t, Formed(t), NEW u, u \in [Slots -> {Vacant} \cup {t[i] : i \in Slots}],
         \A i \in Slots : u[i] \in {Vacant, t[i]}
  PROVE  Formed(u)
  <1>1. Vacant \in NodeType /\ ~Vacant.used
    BY SystemNames, TableAssumption DEF Vacant, NodeType
  <1>2. t \in Tables /\ SiblingsDistinct(t) /\ ProperlyNamed(t)
    BY DEF Formed, Neat
  <1>3. u \in Tables
    BY <1>1, <1>2 DEF Tables
  <1>4. \A i \in Slots : u[i].used => u[i] = t[i]
    BY <1>1
  <1>5. SiblingsDistinct(u)
    BY <1>2, <1>4 DEF SiblingsDistinct
  <1>6. ProperlyNamed(u)
    BY <1>2, <1>4 DEF ProperlyNamed
  <1>7. u[0].used => RootIntact(u)
    BY <1>4, SystemNames DEF Formed, RootIntact, IsLiveDir, Live
  <1> QED BY <1>3, <1>5, <1>6, <1>7 DEF Formed, Neat

LEMMA ClearedIsFormed ==
  ASSUME Formed(nodes), NEW k \in Nat
  PROVE  Formed(Cleared(k))
  <1> HIDE DEF Vacant
  <1>1. /\ Cleared(k) \in [Slots -> {Vacant} \cup {nodes[i] : i \in Slots}]
        /\ \A i \in Slots : Cleared(k)[i] \in {Vacant, nodes[i]}
    BY DEF Cleared
  <1> QED BY <1>1, PartIsFormed

\* What fs_deserialize has copied in the end, before it looks for a root.
LEMMA FieldsAreFormed ==
  ASSUME DiskOK, stored # Nothing
  PROVE  Formed(Fields(stored))
  <1> DEFINE t == stored.table
             u == Fields(stored)
  <1>1. stored \in [version : {1, 2}, table : Tables] /\ Formed(t)
    BY DEF DiskOK
  <1>2. t \in Tables /\ SiblingsDistinct(t) /\ ProperlyNamed(t)
    BY <1>1 DEF Formed, Neat
  <1>3. ASSUME NEW i \in Slots
        PROVE  /\ u[i] \in NodeType
               /\ u[i].used = t[i].used /\ u[i].isDir = t[i].isDir
               /\ u[i].parent = t[i].parent /\ u[i].name = t[i].name
    <2>1. t[i] \in NodeType
      BY <1>2 DEF Tables
    <2>2. DirMode \in Modes /\ FileMode \in Modes /\ Super \in Uids
      BY SystemNames
    <2> QED BY <2>1, <2>2 DEF Fields, NodeType
  <1>4. u \in Tables
    <2>1. u = [i \in Slots |-> u[i]]
      BY DEF Fields
    <2> HIDE DEF u
    <2> QED BY <1>3, <2>1 DEF Tables
  <1> HIDE DEF u
  <1>5. SiblingsDistinct(u)
    BY <1>2, <1>3 DEF SiblingsDistinct
  <1>6. ProperlyNamed(u)
    BY <1>2, <1>3 DEF ProperlyNamed
  <1>7. u[0].used => RootIntact(u)
    BY <1>1, <1>3, SystemNames DEF Formed, RootIntact, IsLiveDir, Live
  <1> QED BY <1>4, <1>5, <1>6, <1>7 DEF Formed, Neat, u

LEMMA CopiedIsFormed ==
  ASSUME DiskOK, stored # Nothing, NEW k \in Nat
  PROVE  Formed(Copied(k))
  <1> HIDE DEF Vacant
  <1>1. /\ Copied(k) \in [Slots -> {Vacant} \cup {Fields(stored)[i] : i \in Slots}]
        /\ \A i \in Slots : Copied(k)[i] \in {Vacant, Fields(stored)[i]}
    BY DEF Copied
  <1> QED BY <1>1, FieldsAreFormed, PartIsFormed

\* Off, and on again, cold, warm or in the middle of a login.
LEMMA StartsKeep ==
  ASSUME DInv, ShutDown \/ PowerCycle \/ WarmReset \/ WarmResetAtLogin
  PROVE  DInv'
  <1>0. MachineOK /\ DesktopTypeOK
    BY DEF DInv
  <1>1. CASE ShutDown
    <2>1. UNCHANGED vars /\ UNCHANGED machine /\ app' = "halted" /\ app = "none"
          /\ UNCHANGED <<editor, settings, files>>
      BY <1>1 DEF ShutDown
    <2>2. MachineOK'
      BY <1>0, <2>1, MachineUntouched DEF machine
    <2>3. DesktopTypeOK'
      BY <1>0, <2>1 DEF DesktopTypeOK, Programs, vars, session, editor, settings, files, machine
    <2> QED BY <2>1, <2>2, <2>3, NotRunning DEF DInv
  <1>2. CASE PowerCycle \/ WarmReset \/ WarmResetAtLogin
    <2>1. Start
      BY <1>2 DEF PowerCycle, WarmReset, WarmResetAtLogin
    <2>2. OriginOK'
      BY <1>0, <1>2, StartsKeepOrigin DEF MachineOK
    <2>3. SessionOK'
      BY <2>1, SystemNames DEF Start, SessionOK
    <2>4. DiskOK'
      <3>1. CASE PowerCycle
        BY <1>0, <3>1, PowerLossIsSane DEF PowerCycle, MachineOK
      <3>2. CASE WarmReset \/ WarmResetAtLogin
        BY <1>0, <3>2, DiskUntouched DEF WarmReset, WarmResetAtLogin, disk, DiskOK, MachineOK
      <3> QED BY <1>2, <3>1, <3>2
    <2>5. TableOK'
      <3>1. CASE PowerCycle
        BY <3>1, ZeroIsNeat DEF PowerCycle, TableOK, Formed
      <3>2. CASE WarmReset
        BY <1>0, <3>2 DEF WarmReset, TableOK, MachineOK
      <3>3. ASSUME WarmResetAtLogin PROVE Formed(nodes')
        <4>1. ASSUME NEW k \in 1..MaxNodes, nodes' = Cleared(k) PROVE Formed(nodes')
          BY <1>0, <4>1, ClearedIsFormed DEF MachineOK, TableOK
        <4>2. CASE nodes' = FreshTable
          BY <4>2, FreshIsSane DEF Formed, Sane
        <4>3. ASSUME stored # Nothing, NEW k \in 0..MaxNodes, nodes' = Copied(k)
              PROVE  Formed(nodes')
          BY <1>0, <4>3, CopiedIsFormed DEF MachineOK
        <4> QED BY <3>3, <4>1, <4>2, <4>3 DEF WarmResetAtLogin
      <3>4. CASE WarmResetAtLogin
        BY <3>3, <3>4 DEF WarmResetAtLogin, TableOK
      <3> QED BY <1>2, <3>1, <3>2, <3>4
    <2>6. DesktopTypeOK'
      <3>1. /\ available' \in BOOLEAN /\ found' \in BOOLEAN /\ copied' \in BOOLEAN
            /\ origin' \in {"zero", "cut", "seed", "image"}
        BY <1>0, <1>2, <2>1, ShellAssumption
           DEF PowerCycle, WarmReset, WarmResetAtLogin, Start, DesktopTypeOK
      <3>2. commands' \in 0..MaxCommands /\ resets' \in 0..MaxResets
        BY <1>0, <2>1, DesktopAssumption DEF Start, DesktopTypeOK
      <3>3. nodes' \in Tables
        BY <2>5 DEF TableOK, Formed, Neat
      <3>4. NoProgram /\ phase' = "off"
        BY <2>1 DEF Start
      <3> QED BY <3>1, <3>2, <3>3, <3>4, SystemNames DEF NoProgram, DesktopTypeOK, Programs
    <2>7. app' = "none"
      BY <2>1 DEF Start, NoProgram
    <2> QED BY <2>2, <2>3, <2>4, <2>5, <2>6, <2>7, NotRunning DEF DInv, MachineOK
  <1> QED BY <1>1, <1>2

LEMMA NextIsDInv == DInv /\ [DesktopNext]_allVars => DInv'
  <1> SUFFICES ASSUME DInv, [DesktopNext]_allVars PROVE DInv'
    OBVIOUS
  <1>1. CASE UNCHANGED allVars
    <2> USE <1>1 DEF allVars, desktop, editor, settings, files, machine, vars, session, disk
    <2>1. MachineOK'
      BY MachineUntouched DEF DInv
    <2>2. DesktopTypeOK'
      BY DEF DInv, DesktopTypeOK
    <2>3. EditorTellsTheTruth' /\ SettingsReadBack' /\ FilesOK'
      BY DEF DInv, EditorTellsTheTruth, HasText, SettingsReadBack, FilesOK
    <2> QED BY <2>1, <2>2, <2>3 DEF DInv
  <1> QED BY <1>1, TerminalKeeps, KateKeeps, SettingsKeep, FilesKeep, StartsKeep DEF DesktopNext

\* In every order of programs, commands, failed saves, cold starts and resets, the
\* invariant of the desktop holds: the table the programs work on is neat, and has a
\* root unless it is what a cold start found, or what a reset left of a login.
THEOREM DesktopInvariant == DesktopSpec => []DInv
  BY InitIsDInv, NextIsDInv, PTL DEF DesktopSpec

\* The indices the file manager uses unchecked are slots (desktop.c 640-790), and
\* the programs take turns with the terminal.
THEOREM DesktopTypeCorrect == DesktopSpec => []DesktopTypeOK
  BY DesktopInvariant, DInvMeans, PTL

\* An editor without the star shows what the file holds, and what the disk holds if
\* the last save worked (desktop.c 1016-1030, 1090-1097).
THEOREM EditorIsTruthful == DesktopSpec => []EditorTellsTheTruth
  BY DesktopInvariant, DInvMeans, PTL

\* Settings that were saved are those that would be read back (desktop.c 1118-1164).
THEOREM SettingsDoReadBack == DesktopSpec => []SettingsReadBack
  BY DesktopInvariant, DInvMeans, PTL

\* The file manager shows the file that was selected, if there is room for its path
\* (desktop.c 702-718, fs.c 483-485).
THEOREM ViewerDoesShow == DesktopSpec => []ViewerShowsSelection
  BY DesktopInvariant, DInvMeans, PTL
=============================================================================
