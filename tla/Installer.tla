------------------------------ MODULE Installer ------------------------------
(***************************************************************************)
(* kernel/installer.c and disk_install_system: the wizard a machine runs   *)
(* when it was started from the installer ISO.  Seven stages with a way    *)
(* back collect the answers; the eighth writes boot sector, boot info and  *)
(* kernel to the chosen disk, formats its filesystem area, makes the       *)
(* system's files in memory and saves them.  A write may fail and the      *)
(* machine may be reset between any two; the boot sector later loads       *)
(* whatever it finds.                                                      *)
(*                                                                         *)
(* The system area of a disk is the sequence of its sectors, each of them  *)
(* of an "old" release, of the "new" one that is being installed, or       *)
(* "none" of FurOS; its filesystem area is what DiskStore shows of         *)
(* disk.c.  A write that returned is on the disk.  A username is a path:   *)
(* that is how stage_install uses it.                                      *)
(***************************************************************************)
EXTENDS NodeTable

CONSTANTS
  Disks,        \* the disks ata_scan finds, as indices from 0
  HostNames, Zones, Passwords,           \* what users type and choose
  UserNames,    \* the same, as paths
  ShortNames,   \* those of fewer than two characters
  Sectors,      \* kernel sectors of each release
  InitialDisks, \* what is on the disks before
  MaxBoots      \* bound of the search

Debian  == 1000
Nothing == <<>>
Halted  == -1                            \* halt_forever, or not started yet
LastStage == 8
DefaultHost == "furos"
DefaultZone == "UTC"
DefaultUser == <<"debian">>

RootDirs == <<"bin", "etc", "home", "var", "tmp", "usr", "run">>
EtcFiles == <<"hostname", "timezone", "os-release", "passwd", "group", "motd">>

\* LBA 0 is the boot sector, 1 the boot info, the kernel begins at 2.
Info     == 1
AreaEnd  == 1 + Max(Range(Sectors))
Releases == {"old", "new"}

BlankDisk == [sys |-> [l \in 0..AreaEnd |-> "none"], fs |-> Nothing, fits |-> TRUE]
TinyDisk  == [BlankDisk EXCEPT !.fits = FALSE]
OldDisk   == [BlankDisk EXCEPT
               !.sys = [l \in 0..AreaEnd |-> IF l <= 1 + Sectors["old"] THEN "old" ELSE "none"],
               !.fs  = Image(1, FreshTable)]

ASSUME InstallerAssumption ==
  /\ 0 \in Disks /\ \A d \in Disks : d \in Nat /\ 0..d \subseteq Disks
  /\ {DefaultHost, Nul} \subseteq HostNames /\ DefaultZone \in Zones
  /\ DefaultUser \in UserNames \ ShortNames
  /\ ShortNames \subseteq UserNames /\ <<>> \in ShortNames
  /\ Nul \in Passwords
  /\ Sectors \in [Releases -> Nat \ {0}]
  /\ InitialDisks \subseteq [Disks -> {BlankDisk, TinyDisk, OldDisk}]
  \* What the installation makes fits the table, and its names and texts are some.
  /\ MaxNodes > 15 /\ Debian \in Uids
  /\ Range(RootDirs) \cup Range(EtcFiles) \cup {".bashrc"} \subseteq Names \ LongNames
  /\ (HostNames \ {Nul}) \cup Zones \cup {"text"} \subseteq Texts
  /\ UserNames \subseteq PathType \ {<<Nul>>}
  /\ MaxBoots \in Nat

VARIABLES
  stage,        \* where installer_run is: 0..LastStage or Halted
  wiz,          \* struct wiz, the answers so far
  selected,     \* the disk of ata.c and disk.c that writes go to
  step, lba, todo,  \* within stage 7: what is next, the sector, the calls left
  nodes,        \* the node table
  disks,        \* every disk: its system area, its image, whether it is large enough
  agreed,       \* history: the accounts whose present password was typed twice
  cut,          \* history: disks whose system area is being rewritten, or was left so
  boots         \* counter behind the bound

answers == <<wiz, agreed>>
work    == <<step, lba, todo, nodes>>
media   == <<disks, cut>>
vars    == <<stage, answers, selected, work, media, boots>>

FirstAnswers == [disk |-> -1, hostname |-> DefaultHost, timezone |-> DefaultZone,
                 root_pw |-> Nul, username |-> DefaultUser, user_pw |-> Nul]

Init ==
  /\ stage = Halted
  /\ wiz = FirstAnswers /\ agreed = {}
  /\ selected = 0
  /\ step = "system" /\ lba = 0 /\ todo = <<>> /\ nodes = FreshTable
  /\ disks \in InitialDisks
  /\ cut = {} /\ boots = 0

\* What the boot sector of a disk loads: nothing if it is not ours or finds no
\* boot info, else as many sectors as the info says.
Loaded(sys) ==
  IF sys[0] = "none" \/ sys[Info] = "none" THEN <<>>
  ELSE [i \in 1..Sectors[sys[Info]] |-> sys[Info + i]]

------------------------------------------------------------------------------
(* The wizard *)

\* The installer is started, over whatever ran before: fs_init, disk_init.
PowerOn ==
  /\ boots < MaxBoots /\ boots' = boots + 1
  /\ stage' = 0
  /\ wiz' = FirstAnswers /\ agreed' = {}
  /\ selected' = 0
  /\ step' = "system" /\ lba' = 0 /\ todo' = <<>> /\ nodes' = FreshTable
  /\ UNCHANGED media

\* ata_scan finds no disk: show_no_disk.
PowerOnDiskless ==
  /\ boots < MaxBoots /\ boots' = boots + 1
  /\ stage' = Halted
  /\ UNCHANGED <<answers, selected, work, media>>

\* installer_run on the result of stage n: the next one, or the one before.
Onward(n) == stage = n /\ stage' = n + 1 /\ UNCHANGED <<work, media, boots>>
Back(n)   == stage = n /\ stage' = n - 1 /\ UNCHANGED <<work, media, boots>>
Again(n)  == stage = n /\ UNCHANGED <<stage, work, media, boots>>

Welcome == Onward(0) /\ UNCHANGED <<answers, selected>>

Cancel ==
  /\ stage = 0 /\ stage' = Halted
  /\ UNCHANGED <<answers, selected, work, media, boots>>

\* Mutant: the driver is not told.
ChooseDiskOnly(d) ==
  /\ Onward(1)
  /\ wiz' = [wiz EXCEPT !.disk = d]
  /\ UNCHANGED <<agreed, selected>>

\* stage_disk.  disk_select cannot fail for an entry of the menu.
ChooseDisk(d) ==
  /\ Onward(1)
  /\ wiz' = [wiz EXCEPT !.disk = d]
  /\ selected' = d
  /\ UNCHANGED agreed

LeaveDisk == Back(1) /\ UNCHANGED <<answers, selected>>

\* stage_hostname.  The answer is edited in place: ESC keeps what was typed.
EnterHostname(text) ==
  /\ Onward(2)
  /\ wiz' = [wiz EXCEPT !.hostname = IF text = Nul THEN DefaultHost ELSE text]
  /\ UNCHANGED <<agreed, selected>>

LeaveHostname(text) ==
  /\ Back(2)
  /\ wiz' = [wiz EXCEPT !.hostname = text]
  /\ UNCHANGED <<agreed, selected>>

ChooseTimezone(zone) ==
  /\ Onward(3)
  /\ wiz' = [wiz EXCEPT !.timezone = zone]
  /\ UNCHANGED <<agreed, selected>>

LeaveTimezone == Back(3) /\ UNCHANGED <<answers, selected>>

\* Mutant: the two passwords are not compared.
EnterRootPwUnchecked(pw, confirm) ==
  /\ wiz' = [wiz EXCEPT !.root_pw = pw]
  /\ agreed' = IF pw = confirm THEN agreed \cup {"root"} ELSE agreed \ {"root"}
  /\ Onward(4)
  /\ UNCHANGED selected

\* stage_root_pw.  Two passwords that differ are asked for again.
EnterRootPw(pw, confirm) ==
  /\ IF pw = confirm
     THEN /\ Onward(4)
          /\ wiz' = [wiz EXCEPT !.root_pw = pw] /\ agreed' = agreed \cup {"root"}
     ELSE /\ Again(4)
          /\ wiz' = [wiz EXCEPT !.root_pw = Nul] /\ agreed' = agreed \ {"root"}
  /\ UNCHANGED selected

\* ESC in either field: the password as typed so far stays in wiz.
LeaveRootPw(pw) ==
  /\ Back(4)
  /\ wiz' = [wiz EXCEPT !.root_pw = pw]
  /\ agreed' = agreed \ {"root"}
  /\ UNCHANGED selected

\* stage_user.
LongEnough(name) == IF name \in ShortNames THEN DefaultUser ELSE name

EnterUser(name, pw, confirm) ==
  /\ IF pw = confirm
     THEN /\ Onward(5)
          /\ wiz' = [wiz EXCEPT !.username = LongEnough(name), !.user_pw = pw]
          /\ agreed' = agreed \cup {"user"}
     ELSE /\ Again(5)
          /\ wiz' = [wiz EXCEPT !.username = LongEnough(name), !.user_pw = Nul]
          /\ agreed' = agreed \ {"user"}
  /\ UNCHANGED selected

\* ESC in the first field keeps a short name, ESC in a later one does not.
LeaveUser(name, pw) ==
  /\ Back(5)
  /\ \/ wiz' = [wiz EXCEPT !.username = name] /\ UNCHANGED agreed
     \/ /\ wiz' = [wiz EXCEPT !.username = LongEnough(name), !.user_pw = pw]
        /\ agreed' = agreed \ {"user"}
  /\ UNCHANGED selected

\* stage_summary: YES or yes; any other word, and ESC, goes back.
Confirm == Onward(6) /\ UNCHANGED <<answers, selected>>
Refuse  == Back(6) /\ UNCHANGED <<answers, selected>>

Answer ==
  \/ Welcome \/ Cancel \/ LeaveDisk \/ LeaveTimezone \/ Confirm \/ Refuse
  \/ \E d \in Disks : ChooseDisk(d)
  \/ \E text \in HostNames : EnterHostname(text) \/ LeaveHostname(text)
  \/ \E zone \in Zones : ChooseTimezone(zone)
  \/ \E pw \in Passwords :
       \/ LeaveRootPw(pw)
       \/ \E confirm \in Passwords : EnterRootPw(pw, confirm)
       \/ \E name \in UserNames :
            \/ LeaveUser(name, pw)
            \/ \E confirm \in Passwords : EnterUser(name, pw, confirm)

------------------------------------------------------------------------------
(* disk_install_system: boot sector, boot info, kernel, in this order *)

\* Mutants: one sector of the kernel too few; one too many.
LastLbaShort == Info + Sectors["new"] - 1
LastLbaOver  == Info + Sectors["new"] + 1

LastLba == Info + Sectors["new"]

\* A disk known to be too small; nothing is written.
TooSmall ==
  /\ stage = 7 /\ step = "system" /\ lba = 0
  /\ ~disks[selected].fits
  /\ stage' = Halted
  /\ UNCHANGED <<answers, selected, work, media, boots>>

WriteSystem ==
  /\ stage = 7 /\ step = "system"
  /\ disks[selected].fits
  /\ disks' = [disks EXCEPT ![selected].sys[lba] = "new"]
  /\ IF lba < LastLba
     THEN /\ lba' = lba + 1 /\ cut' = cut \cup {selected}
          /\ UNCHANGED step
     ELSE /\ step' = "format" /\ cut' = cut \ {selected}
          /\ UNCHANGED lba
  /\ UNCHANGED <<stage, answers, selected, todo, nodes, boots>>

\* Mutant: after an error it begins again.
WriteSystemFailsRetried ==
  /\ stage = 7 /\ step = "system"
  /\ disks[selected].fits
  /\ lba' = 0
  /\ cut' = cut \cup {selected}
  /\ UNCHANGED <<stage, answers, selected, step, todo, nodes, disks, boots>>

\* ata_write_sector fails; the drive may have taken the sector all the same.
WriteSystemFails ==
  /\ stage = 7 /\ step = "system"
  /\ disks[selected].fits
  /\ disks' \in {disks, [disks EXCEPT ![selected].sys[lba] = "new"]}
  /\ cut' = cut \cup {selected}
  /\ stage' = Halted
  /\ UNCHANGED <<answers, selected, work, boots>>

------------------------------------------------------------------------------
(* The filesystem area *)

SaveWorks(t) == disks' = [disks EXCEPT ![selected].fs = Image(2, t)]

\* disk_save_fs fails, or the machine is reset before it returns.
SaveFails(t) ==
  \E left \in {disks[selected].fs, Nothing, Image(2, t)} :
    disks' = [disks EXCEPT ![selected].fs = left]

\* A directory, and a file, to be made from the place `from' leads to.
Dir(from, path, owner) == [from |-> from, path |-> path, isDir |-> TRUE, owner |-> owner]
File(from, path, text) == [from |-> from, path |-> path, isDir |-> FALSE, text |-> text]

\* The calls by which stage_install makes the system's files.
Plan(w) ==
  LET home == <<"home">>
      EtcText == <<w.hostname, w.timezone, "text", "text", "text", "text">>
  IN  [i \in 1..15 |->
         CASE i \in 1..7  -> Dir(<<>>, <<RootDirs[i]>>, Super)
           [] i = 8        -> Dir(<<home>>, w.username, Debian)
           [] i \in 9..14 -> File(<<>>, <<"etc", EtcFiles[i - 8]>>, EtcText[i - 8])
           [] i = 15       -> File(<<home, w.username>>, <<".bashrc">>, "text")]

\* Where a sequence of paths leads, each taken from where the last one led.
Place(t, from) ==
  LET at[i \in 0..Len(from)] ==
        IF i = 0 THEN 0
        ELSE IF at[i - 1] = Fail THEN Fail ELSE Resolve(t, at[i - 1], from[i])
  IN  at[Len(from)]

\* The entry a call of the plan makes.  Results are not looked at.
Made(t, cwd, c) ==
  IF cwd = Fail THEN t
  ELSE IF c.isDir THEN Create(t, cwd, c.path, TRUE, c.owner, DirMode)
  ELSE Opened(t, cwd, c.path)

Format ==
  /\ stage = 7 /\ step = "format"
  /\ nodes' = FreshTable
  /\ \/ SaveWorks(FreshTable) /\ step' = "configure" /\ todo' = Plan(wiz) /\ UNCHANGED stage
     \/ SaveFails(FreshTable) /\ stage' = Halted /\ UNCHANGED <<step, todo>>
  /\ UNCHANGED <<answers, selected, lba, cut, boots>>

Configure ==
  /\ stage = 7 /\ step = "configure" /\ todo # <<>>
  /\ \E call \in {Head(todo)} : \E cwd \in {Place(nodes, call.from)} :
     \E t \in {Made(nodes, cwd, call)} :
       nodes' = IF cwd = Fail \/ call.isDir THEN t
                ELSE Fill(t, Resolve(t, cwd, call.path), call.text)
  /\ todo' = Tail(todo)
  /\ UNCHANGED <<stage, answers, selected, step, lba, media, boots>>

\* Mutant: the result of the last save is ignored.
SaveUnseen ==
  /\ stage = 7 /\ step = "configure" /\ todo = <<>>
  /\ SaveWorks(nodes) \/ SaveFails(nodes)
  /\ stage' = LastStage
  /\ UNCHANGED <<answers, selected, work, cut, boots>>

Save ==
  /\ stage = 7 /\ step = "configure" /\ todo = <<>>
  /\ \/ SaveWorks(nodes) /\ stage' = LastStage
     \/ SaveFails(nodes) /\ stage' = Halted
  /\ UNCHANGED <<answers, selected, work, cut, boots>>

\* stage_complete: a key, then the machine halts.
Complete ==
  /\ stage = LastStage /\ stage' = Halted
  /\ UNCHANGED <<answers, selected, work, media, boots>>

------------------------------------------------------------------------------
Install == TooSmall \/ WriteSystem \/ WriteSystemFails \/ Format \/ Configure \/ Save

Next == PowerOn \/ PowerOnDiskless \/ Answer \/ Install \/ Complete

\* Once started, the installation runs by itself until it is reset.
Fairness == WF_vars(Install)

Spec == Init /\ [][Next]_vars /\ Fairness

------------------------------------------------------------------------------
(* Properties *)

\* Stages, answers, sectors and tables have the shape the code gives them; no
\* sector beyond the kernel is written.
TypeOK ==
  /\ stage \in Halted..LastStage
  /\ wiz \in [disk : {-1} \cup Disks, hostname : HostNames, timezone : Zones,
              root_pw : Passwords, username : UserNames, user_pw : Passwords]
  /\ selected \in Disks
  /\ step \in {"system", "format", "configure"}
  /\ lba \in 0..(Info + Sectors["new"])
  /\ nodes \in Tables /\ Len(todo) <= Len(Plan(wiz))
  /\ \A d \in Disks :
       /\ disks[d].sys \in [0..AreaEnd -> Releases \cup {"none"}]
       /\ \/ disks[d].fs = Nothing
          \/ disks[d].fs \in [version : {1, 2}, table : Tables]
  /\ agreed \subseteq {"root", "user"} /\ cut \subseteq Disks
  /\ boots \in 0..MaxBoots

\* Whatever way the user took through the stages, back and forth, nothing is
\* written before the confirmation, and then only to the disk the summary showed:
\* what the driver writes to is kept apart from the answer (installer.c 398-402).
TargetIsShown ==
  [][\A d \in Disks : disks'[d] # disks[d] => stage = 7 /\ d = wiz.disk]_vars

\* Both passwords at the summary were typed twice, though ESC leaves half-typed
\* ones behind that later stages offer again (installer.c 484-489, 519-529), and
\* the username is not one of the short ones ESC leaves (517).
AccountsSettled ==
  stage \in 6..LastStage =>
    agreed = {"root", "user"} /\ wiz.username \notin ShortNames

\* A disk boots a whole kernel of one release or none, unless an installation was
\* broken off in the middle of the system area; completing one heals it, whatever
\* release, of whatever size, was there before (disk.c 148-182).
WholeKernel ==
  \A d \in Disks \ cut :
    LET sys == disks[d].sys
    IN  \A i \in DOMAIN Loaded(sys) : Loaded(sys)[i] = sys[Info]

\* A username that is a name, and not a path.
Ordinary(name) == Len(name) = 1 /\ name[1] \notin LongNames \cup {".", ".."}

\* A path that ends in the name of a file the installation makes.
Takes(path, file) == ~Ordinary(path) /\ Last(path) = file

Holds(t, path, text) ==
  Reads(t, 0, path) /\ t[Resolve(t, 0, path)].data = text

\* "Installation Complete!" means it: the disk boots the new kernel, and a load
\* finds the files with the answers, unless the username is a path that ends in
\* the name of one (of /etc/hostname it makes a directory), and the user's home,
\* owned by the user, unless the username is a path (installer.c 659-788, whose
\* calls into fs.c are not checked).  Whatever the username, no name is used twice
\* and the root is sound, so that the image is accepted.
CompleteMeansInstalled ==
  stage = LastStage =>
    LET d == disks[wiz.disk]
        t == Decode(d.fs)
        home == Resolve(t, 0, <<"home">> \o wiz.username)
    IN  /\ Loaded(d.sys) = [i \in 1..Sectors["new"] |-> "new"]
        /\ d.fs # Nothing /\ Decodes(d.fs)
        /\ SiblingsDistinct(t) /\ RootIntact(t)
        /\ wiz.hostname # Nul
        /\ Takes(wiz.username, "hostname") \/ Holds(t, <<"etc", "hostname">>, wiz.hostname)
        /\ Takes(wiz.username, "timezone") \/ Holds(t, <<"etc", "timezone">>, wiz.timezone)
        /\ Ordinary(wiz.username) =>
             /\ Rooted(t)
             /\ IsLiveDir(t, home) /\ t[home].owner = Debian
             /\ Reads(t, home, <<".bashrc">>)

\* The installation comes to an end, completed or halted.
InstallationEnds == stage = 7 ~> stage # 7
=============================================================================
