------------------------------- MODULE FurShell -------------------------------
(***************************************************************************)
(* kernel/shell.c over kernel/fs.c: a terminal session.  shell_run loads   *)
(* the filesystem or seeds one, runs commands until logout, and saves.     *)
(* The current directory is an index into the node table that the commands *)
(* use without asking whether the directory is still there.                *)
(*                                                                         *)
(* The disk is what ImageStore says of disk.c, for images that no mixture  *)
(* of their sectors is taken for: one image, loaded and saved as a whole.  *)
(* Whether a save that returned 0 was flushed nobody knows (disk.c 284);   *)
(* if not, a power loss may bring back any image written since the last    *)
(* flush, or none.  A save that fails, or is cut short by the reset that   *)
(* follows, may leave any of them at once.                                 *)
(* A command runs to its end before the next is read, so it is one step;   *)
(* seeding is one step per call.  A uid of a command is Super under sudo   *)
(* and Debian otherwise (cmd_sudo restores shell_uid).                     *)
(***************************************************************************)
EXTENDS NodeTable

CONSTANTS
  Paths,        \* the arguments users type
  NewModes,     \* the modes they set
  Users,        \* whom they are: Super (under sudo), Debian
  HasDisk,      \* disk_available()
  SeedPlan,     \* the entries shell_seed_filesystem makes, in order
  InstallPlan,  \* those cmd_install makes
  InitialDisks, \* what the disk may hold at the start: images or Nothing
  MaxSaves, MaxFaults                    \* bounds of the search

Debian  == 1000
Nothing == <<>>

EntryType == [path : PathType, isDir : BOOLEAN, owner : Uids, text : Texts \cup {Nul}]

ASSUME ShellAssumption ==
  /\ Users \subseteq {Super, Debian} /\ Users \subseteq Uids
  /\ NewModes \subseteq Modes
  /\ HasDisk \in BOOLEAN
  /\ Paths \subseteq PathType
  /\ {SeedPlan, InstallPlan} \subseteq Seq(EntryType)
  /\ \A img \in InitialDisks \ {Nothing} :
       /\ img \in [version : {1, 2}, table : Tables]
       /\ SiblingsDistinct(img.table) /\ ProperlyNamed(img.table) /\ NoDotDirs(img.table)
       /\ img.table[0].used => RootIntact(img.table)
  /\ \A e \in Range(SeedPlan) \cup Range(InstallPlan) :
       e.isDir /\ e.path # <<>> => Last(e.path) \notin {".", ".."}

VARIABLES
  nodes,        \* the node table
  cwd,          \* shell_cwd
  phase,        \* "off", "seeding", "ready" or "installing"
  todo,         \* entries still to be made while seeding or installing
  stored,       \* the image a load would return, or Nothing
  cands,        \* what else was written since the last flush, and was there before
  cached,       \* some of it may be in the drive's cache only
  kept,         \* history: the table of the last save, if that returned 0 and was not
                \* lost with the power before it was flushed
  saves, faults                          \* counters behind the bounds

session == <<cwd, phase, todo>>
disk    == <<stored, cands, cached, kept, saves, faults>>
vars    == <<nodes, session, disk>>

Init ==
  /\ nodes = FreshTable
  /\ cwd = 0
  /\ phase = "off"
  /\ todo = <<>>
  /\ stored \in (IF HasDisk THEN InitialDisks ELSE {Nothing})
  /\ cands = {stored} /\ cached = FALSE
  /\ kept = Nothing
  /\ saves = 0 /\ faults = 0

------------------------------------------------------------------------------
(* The disk, as ImageStore abstracts it *)

LoadWorks == HasDisk /\ stored # Nothing /\ Decodes(stored)

\* A load that could have worked fails on a read error; one of a blank disk, or
\* of an image without a root, always fails.
LoadFails ==
  /\ HasDisk
  /\ IF LoadWorks THEN faults < MaxFaults /\ faults' = faults + 1
                  ELSE UNCHANGED faults

\* The sectors of an image reach the drive, and perhaps its cache only.
Written(img) == cands' = cands \cup {Nothing, img} /\ cached' = TRUE
Flushed(img) == cands' = {img} /\ cached' = FALSE

\* disk_save_fs of table t returns 0, whether the flush is carried out, fails or,
\* behind AHCI, is not sent.
SaveWorks(t) ==
  /\ HasDisk
  /\ saves < MaxSaves /\ saves' = saves + 1
  /\ stored' = Image(2, t)
  /\ Flushed(Image(2, t)) \/ Written(Image(2, t))
  /\ kept' = t
  /\ UNCHANGED faults

\* A write fails: the disk is a mixture that is refused, or by what the images
\* have in common one of them.
SaveFails(t) ==
  /\ HasDisk
  /\ saves < MaxSaves /\ saves' = saves + 1
  /\ faults < MaxFaults /\ faults' = faults + 1
  /\ Written(Image(2, t))
  /\ stored' \in cands'
  /\ kept' = Nothing

\* Power goes, and with it what was in the drive's cache only.
PowerLoss ==
  /\ IF cached THEN stored' \in cands /\ kept' = Nothing ELSE UNCHANGED <<stored, kept>>
  /\ cached' = FALSE
  /\ UNCHANGED <<cands, saves, faults>>

------------------------------------------------------------------------------
(* A session begins: shell_run up to its command loop *)

\* The disk loads.
LoginFromDisk ==
  /\ phase = "off"
  /\ LoadWorks
  /\ nodes' = Decode(stored)
  /\ phase' = "ready" /\ cwd' = 0
  /\ UNCHANGED <<todo, disk>>

\* No disk, nothing on it, or a failed load: live mode.
LoginLive ==
  /\ phase = "off"
  /\ LoadFails \/ (~HasDisk /\ UNCHANGED faults)
  /\ nodes' = FreshTable
  /\ phase' = "seeding" /\ cwd' = 0 /\ todo' = SeedPlan
  /\ UNCHANGED <<stored, cands, cached, kept, saves>>

\* What a plan's entry e makes of the table.
Plant(t, e) ==
  IF e.isDir THEN Create(t, 0, e.path, TRUE, e.owner, DirMode)
             ELSE Write(t, 0, e.path, e.text)

\* One call of shell_seed_filesystem or cmd_install.
PlantNext ==
  /\ phase \in {"seeding", "installing"} /\ todo # <<>>
  /\ nodes' = Plant(nodes, Head(todo))
  /\ todo' = Tail(todo)
  /\ UNCHANGED <<cwd, phase, disk>>

SeedDone ==
  /\ phase = "seeding" /\ todo = <<>>
  /\ phase' = "ready" /\ cwd' = 0
  /\ UNCHANGED <<nodes, todo, disk>>

------------------------------------------------------------------------------
(* Commands *)

Ready == phase = "ready"

\* A command that touches the table only.
Edit(t) == Ready /\ nodes' = t /\ UNCHANGED <<session, disk>>

Cd(path, uid) ==
  LET n == Resolve(nodes, cwd, path)
  IN  /\ Ready
      /\ IsLiveDir(nodes, n) /\ Allowed(nodes, n, uid, {"x"})
      /\ cwd' = n
      /\ UNCHANGED <<nodes, phase, todo, disk>>

CdHome == Ready /\ cwd' = 0 /\ UNCHANGED <<nodes, phase, todo, disk>>

\* ensure_parent_writable: like HomeOf, but the directory must be in use.
ParentWritable(path, uid) ==
  LET p == IF Len(path) = 1 THEN cwd
           ELSE IF Len(path) = 2 /\ path[1] = Nul THEN 0
           ELSE Resolve(nodes, cwd, Front(path))
  IN  /\ path # <<>> /\ (Len(path) > 1 => Last(path) # Nul)
      /\ (Len(path) = 1 \/ p = 0 \/ IsLiveDir(nodes, p))
      /\ Allowed(nodes, p, uid, {"w", "x"})

Mkdir(path, uid) ==
  /\ Resolve(nodes, cwd, path) = Fail
  /\ ParentWritable(path, uid)
  /\ Edit(Create(nodes, cwd, path, TRUE, uid, DirMode))

TouchFile(path, uid) ==
  /\ Resolve(nodes, cwd, path) = Fail
  /\ ParentWritable(path, uid)
  /\ Edit(Create(nodes, cwd, path, FALSE, uid, FileMode))

\* write and rm ask for no permission.
WriteFile(path, text) == Edit(Write(nodes, cwd, path, text))

Rm(path) == Edit(RemoveNode(nodes, cwd, path))

\* nano creates the file before it looks at what the path names, and writes it
\* when the user saves.
Nano(path, text, save) ==
  LET t == Touch(nodes, cwd, path)
      opens == Creates(nodes, cwd, path, FALSE) /\ Reads(t, cwd, path)
  IN  Edit(IF opens /\ save THEN Write(t, cwd, path, text) ELSE t)

Chmod(path, mode, uid) ==
  LET n == Resolve(nodes, cwd, path)
  IN  /\ n # Fail
      /\ uid = Super \/ (Live(nodes, n) /\ nodes[n].owner = uid)
      /\ Edit(SetMode(nodes, n, mode))

Chown(path, owner) ==
  LET n == Resolve(nodes, cwd, path)
  IN  n # Fail /\ Edit(SetOwner(nodes, n, owner))

\* sync and disk save: the error is only printed.
Sync ==
  /\ Ready
  /\ SaveWorks(nodes) \/ SaveFails(nodes)
  /\ UNCHANGED <<nodes, session>>

\* Mutant: the session stays where it was.
DiskLoadInPlace ==
  /\ Ready /\ HasDisk /\ stored # Nothing
  /\ nodes' = IF Decodes(stored) THEN Decode(stored) ELSE FreshTable
  /\ UNCHANGED <<session, disk>>

\* disk load.  A failure is only printed; but an image without a root has emptied
\* the table by then, and cwd stays.
DiskLoad ==
  /\ Ready /\ HasDisk /\ stored # Nothing
  /\ \/ Decodes(stored) /\ nodes' = Decode(stored) /\ cwd' = 0
     \/ ~Decodes(stored) /\ nodes' = FreshTable /\ UNCHANGED cwd
  /\ UNCHANGED <<phase, todo, disk>>

\* disk format empties the table, then saves it.  If the save fails, cwd stays.
DiskFormat ==
  /\ Ready
  /\ nodes' = FreshTable
  /\ \/ SaveWorks(FreshTable) /\ cwd' = 0
     \/ SaveFails(FreshTable) /\ UNCHANGED cwd
  /\ UNCHANGED <<phase, todo>>

\* install formats, makes the entries of its plan and saves again.  cwd is
\* reset only if both saves worked.  (The bound leaves room for the second.)
InstallBegin ==
  /\ Ready
  /\ saves + 2 <= MaxSaves
  /\ nodes' = FreshTable
  /\ \/ SaveWorks(FreshTable) /\ phase' = "installing" /\ todo' = InstallPlan
     \/ SaveFails(FreshTable) /\ UNCHANGED <<phase, todo>>
  /\ UNCHANGED <<cwd>>

InstallEnd ==
  /\ phase = "installing" /\ todo = <<>>
  /\ phase' = "ready"
  /\ \/ SaveWorks(nodes) /\ cwd' = 0
     \/ SaveFails(nodes) /\ UNCHANGED cwd
  /\ UNCHANGED <<nodes, todo>>

\* logout saves if there is a disk, whatever comes of it.
Logout ==
  /\ Ready
  /\ phase' = "off"
  /\ IF HasDisk THEN SaveWorks(nodes) \/ SaveFails(nodes) ELSE UNCHANGED disk
  /\ UNCHANGED <<nodes, cwd, todo>>

------------------------------------------------------------------------------
\* The machine is reset at any moment, with or without the drive losing power.
Reset ==
  /\ nodes' = FreshTable
  /\ phase' = "off" /\ cwd' = 0 /\ todo' = <<>>
  /\ PowerLoss \/ UNCHANGED disk

Command ==
  \/ CdHome \/ Sync \/ DiskLoad \/ DiskFormat \/ InstallBegin \/ Logout
  \/ \E path \in Paths :
       \/ Rm(path)
       \/ \E text \in Texts :
            WriteFile(path, text) \/ \E save \in BOOLEAN : Nano(path, text, save)
       \/ \E uid \in Users :
            \/ Cd(path, uid) \/ Mkdir(path, uid) \/ TouchFile(path, uid)
            \/ \E mode \in NewModes : Chmod(path, mode, uid)
       \/ \E owner \in Users : Chown(path, owner)

Next ==
  \/ LoginFromDisk \/ LoginLive \/ PlantNext \/ SeedDone \/ InstallEnd
  \/ Command \/ Reset

Spec == Init /\ [][Next]_vars

------------------------------------------------------------------------------
(* Properties *)

\* The node table, the disk and the session have the shape the code gives
\* them: in particular shell_cwd and every parent index a slot of the table,
\* which the code never range-checks before it indexes with them.
TypeOK ==
  /\ nodes \in Tables
  /\ cwd \in Slots
  /\ phase \in {"off", "seeding", "ready", "installing"}
  /\ todo \in Seq(EntryType)
  /\ cands \subseteq {Nothing} \cup [version : {1, 2}, table : Tables]
  /\ stored \in cands /\ cached \in BOOLEAN
  /\ kept = Nothing \/ kept \in Tables
  /\ saves \in Nat /\ faults \in Nat

\* No directory ever holds two entries of one name, in memory or on disk, even
\* through a current directory that is gone: find_child, which stops at the
\* first match, would hide one of them (fs.c 87-97, 308, 340).
UniqueNames ==
  /\ SiblingsDistinct(nodes)
  /\ stored # Nothing => SiblingsDistinct(stored.table)

\* Whatever is removed, loaded or formatted, slot 0 stays a directory in use
\* that is its own parent, and so it is saved: fs_resolve stops at it (fs.c
\* 270), and an image without it is refused at the next boot (609).
RootStays ==
  /\ RootIntact(nodes)
  /\ kept # Nothing => RootIntact(kept)

\* pwd tells the truth: as long as the nodes form a tree, the path fs_make_path
\* builds for a node leads fs_resolve back to that node from anywhere; the
\* exceptions are what nano made by the name "." or "..", and a path of 128 bytes
\* or more, for which cmd_pwd prints "/" (shell.c 443-445) and which is not modelled.
PathsLeadBack ==
  Rooted(nodes) =>
    \A n \in Slots : Addressable(nodes, n) =>
      \A from \in Slots : Resolve(nodes, from, MakePath(nodes, n)) = n

\* Once a save returned 0, and no save, load or power failed since, the next session
\* starts with that very table, whatever a warm reset took from memory; once it was
\* also flushed, whatever the power did.  Only the owner and mode of the root are set
\* back (614-618).  A power loss before the flush leaves nothing to resume (kept):
\* disk.c 284 does not look whether there was one, ata.c 1073 sends AHCI disks none.
SessionsResume ==
  [][phase = "off" /\ phase' # "off" /\ kept # Nothing /\ faults' = faults
       => /\ phase' = "ready"
          /\ \A i \in Slots \ {0} : nodes'[i] = kept[i]]_vars

\* The current directory as a path, if it is one, and the image as a tree.
PathOf(t, n) == IF Rooted(t) /\ IsLiveDir(t, n) THEN NamesTo(t, n) ELSE <<Nul>>
Trees(img)   == IF img = Nothing \/ ~Decodes(img) THEN {} ELSE {TreeOf(img.table)}

Tree == INSTANCE PathTree WITH
  Dir <- <<>>, tree <- TreeOf(nodes), cwd <- PathOf(nodes, cwd),
  image <- Trees(stored), written <- {Trees(img) : img \in cands}

\* The table of nodes behaves as a tree of paths: no command changes more than
\* the one entry it names, nothing appears in a directory that is not there and
\* none goes that is not empty, and a tree comes back whole, the one saved last or,
\* if power was lost, one saved since the last flush.  What can break this is named
\* in PathTree: the current directory was removed (rm asks for nothing, fs.c 426-444)
\* or wiped by a format or a load that failed (shell.c 987, 881, 973), and write or
\* nano then put a node into it (fs.c 120-127); or they take its slot for a file they
\* make elsewhere, above it, so that the path, resolved again (fs.c 403-407), leads
\* to another file, and that one gets the text.
ImplementsPathTree == Tree!Spec
=============================================================================
