----------------------------- MODULE FurDesktop -----------------------------
(***************************************************************************)
(* kernel/desktop.c over the shell, the node table and the disk.  The      *)
(* desktop runs one program at a time; the file manager, the editor and    *)
(* the settings work on the table of nodes as they find it.  Only the      *)
(* terminal calls fs_init and disk_init and loads the filesystem: until    *)
(* one was opened the table is what the memory held, which boot code does  *)
(* not clear.                                                              *)
(*                                                                         *)
(* A cold start finds memory zero, a reset finds what was there.  The      *)
(* number of the selected disk is initialised data: zero and up in a       *)
(* kernel that the installer copied to disk while it ran, -1 in one put    *)
(* there by make; the list of disks found is not.  Texts are contents of   *)
(* files up to a newline at the end.  Of the commands of the terminal      *)
(* those are taken that make the tables the other programs must cope with. *)
(* A step is a key that was handled, or a command; only within a login,    *)
(* which builds the table anew, is a reset looked at more closely.         *)
(***************************************************************************)
EXTENDS FurShell

CONSTANTS
  Drafts,       \* texts users type into the editor
  HostNames, Zones,  \* and into the settings
  NameLen,      \* the lengths of the names
  PathBuf,      \* bytes the viewer has for a path: 80
  MaxCommands, MaxResets         \* bounds of the search

ASSUME DesktopAssumption ==
  /\ Drafts \cup {"furos", "UTC"} \cup ((HostNames \cup Zones) \ {Nul}) \subseteq Texts
  /\ {MaxCommands, MaxResets, PathBuf} \subseteq Nat
  /\ NameLen \in [Names -> Nat]
  /\ {"untitled.txt", "etc", "hostname", "timezone"} \subseteq Names \ LongNames

VARIABLES
  app,          \* the program that has the screen
  draft, mod,   \* kate_buf and kate_mod
  host, zone, editing, changed,  \* set_hostname and so on; the field being typed into
  folder, open, content,         \* fm_cwd; the node viewed and what is shown of it
  available,    \* disk_available()
  found,        \* the driver's list has the selected disk
  copied,       \* the kernel was put on its disk by the installer
  origin,       \* history: where the table comes from: a cold start, a login that
                \* was cut short, a seed or an image
  commands, resets               \* counters behind the bounds

editor   == <<draft, mod>>
settings == <<host, zone, editing, changed>>
files    == <<folder, open, content>>
machine  == <<available, found, copied, origin, commands, resets>>
desktop  == <<app, editor, settings, files, machine>>
allVars  == <<vars, desktop>>

Programs == {"none", "terminal", "kate", "prompt", "settings", "files", "view", "halted"}

\* Memory that is all zero, slot 0 included.
ZeroTable == [i \in Slots |-> Vacant]

\* What the variables of a program hold while it is not running does not matter:
\* each sets them when it starts.
NoProgram ==
  /\ app' = "none"
  /\ draft' = Nul /\ mod' = FALSE
  /\ host' = Nul /\ zone' = Nul /\ editing' = "none" /\ changed' = FALSE
  /\ folder' = 0 /\ open' = 0 /\ content' = Nul

DesktopInit ==
  /\ nodes = ZeroTable /\ cwd = 0 /\ phase = "off" /\ todo = <<>>
  /\ stored \in (IF HasDisk THEN InitialDisks ELSE {Nothing})
  /\ cands = {stored} /\ cached = FALSE
  /\ kept = Nothing /\ saves = 0 /\ faults = 0
  /\ app = "none"
  /\ draft = Nul /\ mod = FALSE
  /\ host = Nul /\ zone = Nul /\ editing = "none" /\ changed = FALSE
  /\ folder = 0 /\ open = 0 /\ content = Nul
  /\ copied \in BOOLEAN /\ available = copied
  /\ found = FALSE
  /\ origin = "zero"
  /\ commands = 0 /\ resets = 0

\* Mutant: the disk is looked for when it is needed.
DesktopSaveScans(t) ==
  IF available /\ HasDisk THEN SaveWorks(t) \/ SaveFails(t) ELSE UNCHANGED disk

\* if (disk_available()) (void)disk_save_fs(): the driver refuses an index that
\* is not in its list; nobody hears of it.
DesktopSave(t) ==
  IF available /\ found THEN SaveWorks(t) \/ SaveFails(t) ELSE UNCHANGED disk

------------------------------------------------------------------------------
(* The terminal *)

\* run_terminal into shell_run, which calls fs_init, then disk_init.
OpenTerminal ==
  /\ app = "none" /\ app' = "terminal"
  /\ \/ LoginFromDisk /\ origin' = "image"
     \/ LoginLive /\ origin' = "seed"
  /\ available' = HasDisk /\ found' = HasDisk
  /\ UNCHANGED <<editor, settings, files, copied, commands, resets>>

Terminal ==
  /\ \/ (PlantNext \/ SeedDone) /\ UNCHANGED commands
     \/ /\ commands < MaxCommands /\ commands' = commands + 1
        /\ \E path \in Paths :
             Rm(path) \/ Mkdir(path, Super) \/ \E text \in Drafts : WriteFile(path, text)
  /\ UNCHANGED <<app, editor, settings, files, available, found, copied, origin, resets>>

CloseTerminal ==
  /\ Logout
  /\ app' = "none"
  /\ UNCHANGED <<editor, settings, files, machine>>

------------------------------------------------------------------------------
(* The editor.  KateEditor shows that its keys make any text. *)

Untitled == <<"untitled.txt">>

OpenKate ==
  /\ app = "none" /\ app' = "kate"
  /\ draft' = Nul /\ mod' = FALSE
  /\ UNCHANGED <<vars, settings, files, machine>>

Type(text) ==
  /\ app = "kate" /\ text # draft
  /\ draft' = text /\ mod' = TRUE
  /\ UNCHANGED <<vars, app, settings, files, machine>>

\* fs_touch and fs_write_file of kate_save succeed.
KateWrites == Creates(nodes, 0, Untitled, FALSE)

\* Mutant: the disk is saved before the file is written.
KateSaveEarly ==
  IF KateWrites
  THEN /\ \E t \in {Write(nodes, 0, Untitled, draft)} : nodes' = t /\ DesktopSave(nodes)
       /\ UNCHANGED session
  ELSE UNCHANGED vars

KateSave ==
  IF KateWrites
  THEN /\ \E t \in {Write(nodes, 0, Untitled, draft)} : nodes' = t /\ DesktopSave(t)
       /\ UNCHANGED session
  ELSE UNCHANGED vars

\* F2: the mark goes only if the file was written.
F2Kate ==
  /\ app = "kate"
  /\ KateSave
  /\ mod' = (mod /\ ~KateWrites)
  /\ UNCHANGED <<app, draft, settings, files, machine>>

\* ESC, and the answers to "Unsaved changes!"; F2 there leaves in any case.
LeaveKate ==
  /\ app = "kate" /\ ~mod
  /\ NoProgram
  /\ UNCHANGED <<vars, machine>>

AskKate ==
  /\ app = "kate" /\ mod
  /\ app' = "prompt"
  /\ UNCHANGED <<vars, editor, settings, files, machine>>

StayInKate ==
  /\ app = "prompt" /\ app' = "kate"
  /\ UNCHANGED <<vars, editor, settings, files, machine>>

DiscardText == app = "prompt" /\ NoProgram /\ UNCHANGED <<vars, machine>>

SaveAndQuit == app = "prompt" /\ KateSave /\ NoProgram /\ UNCHANGED machine

Kate ==
  \/ OpenKate \/ F2Kate \/ LeaveKate \/ AskKate \/ StayInKate \/ DiscardText \/ SaveAndQuit
  \/ \E text \in Drafts \cup {Nul} : Type(text)

------------------------------------------------------------------------------
(* The settings *)

Etc == <<"etc">>

\* What set_load shows of a file of /etc: an empty one counts as none.
Setting(t, name, default) ==
  LET etc  == Resolve(t, 0, Etc)
      file == Resolve(t, etc, <<name>>)
  IN  IF etc = Fail \/ ~Reads(t, etc, <<name>>) \/ t[file].data = Nul
      THEN default ELSE t[file].data

OpenSettings ==
  /\ app = "none" /\ app' = "settings"
  /\ host' = Setting(nodes, "hostname", "furos")
  /\ zone' = Setting(nodes, "timezone", "UTC")
  /\ editing' = "none" /\ changed' = FALSE
  /\ UNCHANGED <<vars, editor, files, machine>>

\* Enter on the row of a field, or on one of the rows below them.
BeginEdit(field) ==
  /\ app = "settings" /\ editing = "none"
  /\ editing' = field
  /\ UNCHANGED <<vars, app, editor, host, zone, changed, files, machine>>

EndEdit(text) ==
  /\ app = "settings"
  /\ \/ editing = "host" /\ text \in HostNames /\ host' = text /\ UNCHANGED zone
     \/ editing = "zone" /\ text \in Zones /\ zone' = text /\ UNCHANGED host
     \/ editing = "other" /\ text = Nul /\ UNCHANGED <<host, zone>>
  /\ editing' = "none" /\ changed' = TRUE
  /\ UNCHANGED <<vars, app, editor, files, machine>>

CancelEdit ==
  /\ app = "settings" /\ editing # "none"
  /\ editing' = "none"
  /\ UNCHANGED <<vars, app, editor, host, zone, changed, files, machine>>

\* /etc with the two files in it, as far as there is room.
EtcDir(t) ==
  IF Resolve(t, 0, Etc) = Fail THEN Create(t, 0, Etc, TRUE, Super, DirMode) ELSE t
WithFile(t, name, text) ==
  LET etc == Resolve(t, 0, Etc) IN IF etc = Fail THEN t ELSE Write(t, etc, <<name>>, text)

\* Mutant: a missing /etc is not made.
SetSaveNoEtc ==
  \E t \in {WithFile(nodes, "hostname", host)} : \E u \in {WithFile(t, "timezone", zone)} :
    nodes' = u /\ DesktopSave(u)

SetSave ==
  \E t \in {EtcDir(nodes)} : \E u \in {WithFile(t, "hostname", host)} :
    \E v \in {WithFile(u, "timezone", zone)} : nodes' = v /\ DesktopSave(v)

\* F2, also in the middle of an edit, whose text is not saved.
F2Settings ==
  /\ app = "settings"
  /\ SetSave /\ UNCHANGED session
  /\ changed' = FALSE
  /\ UNCHANGED <<app, editor, host, zone, editing, files, machine>>

\* ESC does not ask about changes.
LeaveSettings ==
  /\ app = "settings" /\ editing = "none"
  /\ NoProgram
  /\ UNCHANGED <<vars, machine>>

Settings ==
  \/ OpenSettings \/ CancelEdit \/ F2Settings \/ LeaveSettings
  \/ \E field \in {"host", "zone", "other"} : BeginEdit(field)
  \/ \E text \in HostNames \cup Zones \cup {Nul} : EndEdit(text)

------------------------------------------------------------------------------
(* The file manager *)

\* fm_load_dir; a directory that is not in use lists nothing.
Entries == IF IsLiveDir(nodes, folder) THEN Listing(nodes, folder) ELSE {}

OpenFiles ==
  /\ app = "none" /\ app' = "files"
  /\ folder' = 0
  /\ UNCHANGED <<vars, editor, settings, open, content, machine>>

EnterFolder(n) ==
  /\ app = "files" /\ n \in Entries /\ IsLiveDir(nodes, n)
  /\ folder' = n
  /\ UNCHANGED <<vars, app, editor, settings, open, content, machine>>

\* Mutant: the error of fs_get_parent is taken for a node.
FolderUpBlind ==
  /\ app = "files"
  /\ folder' = IF Live(nodes, folder) THEN nodes[folder].parent ELSE Fail
  /\ UNCHANGED <<vars, app, editor, settings, open, content, machine>>

\* fs_get_parent
FolderUp ==
  /\ app = "files" /\ Live(nodes, folder)
  /\ folder' = nodes[folder].parent
  /\ UNCHANGED <<vars, app, editor, settings, open, content, machine>>

\* fs_make_path has room for the path, each name with its slash, and the end.
PathFits(t, n) ==
  LET names == NamesTo(t, n)
  IN  FoldFunction(+, 0, [i \in DOMAIN names |-> NameLen[names[i]] + 1]) + 1 < PathBuf

\* What a path can be found to hold.
ContentAt(path) ==
  IF Reads(nodes, 0, path) THEN nodes[Resolve(nodes, 0, path)].data ELSE Nul

\* Mutant: the name is looked up from the root.
ViewByName(n) ==
  /\ app = "files" /\ n \in Entries /\ ~IsLiveDir(nodes, n)
  /\ app' = "view" /\ open' = n
  /\ content' = ContentAt(<<nodes[n].name>>)
  /\ UNCHANGED <<vars, editor, settings, folder, machine>>

\* fm_view_file reads the file by its path.  It does not look whether the path was
\* made: if it did not fit, what there is of it goes on with what the stack held, and
\* leads to any file or none.
View(n) ==
  /\ app = "files" /\ n \in Entries /\ ~IsLiveDir(nodes, n)
  /\ app' = "view" /\ open' = n
  /\ content' \in IF PathFits(nodes, n) THEN {ContentAt(MakePath(nodes, n))}
                  ELSE {Nul} \cup {nodes[m].data : m \in {k \in Slots : nodes[k].used}}
  /\ UNCHANGED <<vars, editor, settings, folder, machine>>

CloseView ==
  /\ app = "view" /\ app' = "files"
  /\ open' = 0 /\ content' = Nul
  /\ UNCHANGED <<vars, editor, settings, folder, machine>>

CloseFiles == app = "files" /\ NoProgram /\ UNCHANGED <<vars, machine>>

Files ==
  \/ OpenFiles \/ FolderUp \/ CloseView \/ CloseFiles
  \/ \E n \in Slots : EnterFolder(n) \/ View(n)

------------------------------------------------------------------------------
(* Off and on *)

\* run_shutdown saves nothing.
ShutDown ==
  /\ app = "none" /\ app' = "halted"
  /\ UNCHANGED <<vars, editor, settings, files, machine>>

\* What every start has in common.
Start ==
  /\ resets < MaxResets /\ resets' = resets + 1
  /\ NoProgram
  /\ phase' = "off" /\ cwd' = 0 /\ todo' = <<>>
  /\ available' = copied
  /\ UNCHANGED <<copied, commands>>

PowerCycle ==
  /\ Start /\ PowerLoss
  /\ nodes' = ZeroTable /\ found' = FALSE /\ origin' = "zero"

WarmReset == Start /\ UNCHANGED <<disk, nodes, found, origin>>

\* The table when fs_init has cleared it up to slot k, and when fs_deserialize, after
\* clearing it, has copied the image up to slot k.  (Nodes, and the root that fs_init
\* makes, are taken whole.)
Cleared(k) == [i \in Slots |-> IF i < k THEN Vacant ELSE nodes[i]]
Copied(k)  == [i \in Slots |-> IF i < k THEN Fields(stored)[i] ELSE Vacant]

\* A reset within shell_run: in fs_init, before, in or after disk_init, which empties
\* the list of disks first, or in disk_load_fs.
WarmResetAtLogin ==
  /\ app = "none"
  /\ Start /\ UNCHANGED disk
  /\ origin' = "cut"
  /\ \/ \E k \in 1..MaxNodes : nodes' = Cleared(k) /\ UNCHANGED found
     \/ nodes' = FreshTable /\ found' \in {found, FALSE, HasDisk}
     \/ /\ HasDisk /\ stored # Nothing /\ found' = TRUE
        /\ \E k \in 0..MaxNodes : nodes' = Copied(k)

DesktopNext ==
  \/ OpenTerminal \/ Terminal \/ CloseTerminal
  \/ Kate \/ Settings \/ Files
  \/ ShutDown \/ PowerCycle \/ WarmReset \/ WarmResetAtLogin

DesktopSpec == DesktopInit /\ [][DesktopNext]_allVars

------------------------------------------------------------------------------
(* Properties *)

\* The node indices the file manager uses unchecked are slots, the programs take
\* turns with the terminal, and what they hold is what can be typed or read.
DesktopTypeOK ==
  /\ app \in Programs /\ (app = "terminal" <=> phase # "off")
  /\ draft \in Drafts \cup {Nul} /\ mod \in BOOLEAN
  /\ {host, zone, content} \subseteq Texts \cup {Nul}
  /\ editing \in {"none", "host", "zone", "other"} /\ changed \in BOOLEAN
  /\ {folder, open} \subseteq Slots
  /\ {available, found, copied} \subseteq BOOLEAN
  /\ origin \in {"zero", "cut", "seed", "image"}
  /\ commands \in 0..MaxCommands /\ resets \in 0..MaxResets
  /\ nodes \in Tables

HasText(t, text) ==
  Reads(t, 0, Untitled) /\ t[Resolve(t, 0, Untitled)].data = text

\* An editor without the star shows what the file holds, and if the last save
\* of the disk worked, what the disk holds: on a table of any origin, full, or
\* with a directory of that name (desktop.c 1016-1030, 1090-1097).
EditorTellsTheTruth ==
  app \in {"kate", "prompt"} /\ ~mod /\ draft # Nul =>
    /\ HasText(nodes, draft)
    /\ available /\ found /\ kept # Nothing => HasText(stored.table, draft)

\* Settings without "unsaved changes" are those that would be read back, whatever
\* became of /etc: but for an empty hostname, which reads as none, and for a file
\* that cannot be made because the table is full or a directory has its name
\* (desktop.c 1118-1164).
SettingsReadBack ==
  LET etc == Resolve(nodes, 0, Etc)
      Unmakeable(name) ==
        LET file == Resolve(nodes, etc, <<name>>)
        IN  IF file = Fail THEN FreeSlots(nodes) = {} ELSE nodes[file].isDir
      ReadsBack(name, default, value) ==
        value = Nul \/ Setting(nodes, name, default) = value \/ Unmakeable(name)
  IN  app = "settings" /\ ~changed =>
        ReadsBack("hostname", "furos", host) /\ ReadsBack("timezone", "UTC", zone)

\* The file manager shows the file that was selected, though it finds it by a
\* path made of the names above it (desktop.c 710-712), and wherever it has gone
\* it stands in a directory in use, or in the root.  The exceptions are what has "."
\* or ".." for a name, or above it, and a path of 79 bytes or more, of which nothing
\* is promised: fs_make_path fails, unnoticed, and it may be another file (fs.c 483).
ViewerShowsSelection ==
  /\ app \in {"files", "view"} => folder = 0 \/ IsLiveDir(nodes, folder)
  /\ app = "view" /\ Addressable(nodes, open) /\ PathFits(nodes, open)
       => content = nodes[open].data

\* A filesystem is saved only if a whole login loaded or seeded it: the programs of
\* the desktop save without asking, and all that holds them back after a start is that
\* no disk is selected, or none found (desktop.c 1025, 1162).  One case gets through: a
\* kernel that the installer copied has a disk selected from the start, and after a
\* reset in the middle of a login also found; editor or settings then replace the image
\* by a table that is empty, or filled as far as the login had come.  What memory held
\* after a cold start is never saved.
SavesFollowALogin ==
  [][saves' # saves => origin \in {"seed", "image"} \/ (copied /\ origin = "cut")]_allVars
=============================================================================
