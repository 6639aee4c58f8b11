---------------------------- MODULE InstallerProofs ----------------------------
(***************************************************************************)
(* For any number of disks, any sizes of the kernels and any answers: what *)
(* is written goes to the disk the summary showed, the accounts are those  *)
(* that were typed twice, and a disk boots one release or none.  For every *)
(* table that holds the system, the fifteen calls of stage_install leave   *)
(* on the disk what the user was asked for: by what the table holds after  *)
(* each of them, none of which looks at a result.                          *)
(***************************************************************************)
EXTENDS Installer, NodeTableProofs

Stages == Halted..LastStage

\* A record with the fields of a disk.
IsDisk(x) ==
  /\ x = [sys |-> x.sys, fs |-> x.fs, fits |-> x.fits]
  /\ x.sys \in [0..AreaEnd -> Releases \cup {"none"}]

\* The answers are a record, and every disk has its fields: enough of their types
\* for what a step leaves alone.
Shapes ==
  /\ stage \in Stages
  /\ wiz = [disk |-> wiz.disk, hostname |-> wiz.hostname, timezone |-> wiz.timezone,
            root_pw |-> wiz.root_pw, username |-> wiz.username, user_pw |-> wiz.user_pw]
  /\ selected \in Disks
  /\ disks = [d \in Disks |-> disks[d]]
  /\ \A d \in Disks : IsDisk(disks[d])

------------------------------------------------------------------------------
(* The area is as long as the longer kernel. *)

LEMMA AreaHoldsKernels ==
  AreaEnd \in Nat /\ \A r \in Releases : Sectors[r] \in Nat \ {0} /\ Info + Sectors[r] <= AreaEnd
  <1> DEFINE S == Range(Sectors)
  <1>1. \A r \in Releases : Sectors[r] \in Nat \ {0}
    BY InstallerAssumption
  <1>2. S = {Sectors["old"], Sectors["new"]}
    BY InstallerAssumption DEF Range, Releases
  <1>3. \E m \in S : \A k \in S : k <= m
    <2>1. CASE Sectors["old"] <= Sectors["new"]
      BY <2>1, <1>1, <1>2 DEF Releases
    <2>2. CASE ~(Sectors["old"] <= Sectors["new"])
      BY <2>2, <1>1, <1>2 DEF Releases
    <2> QED BY <2>1, <2>2
  <1>4. Max(S) \in S /\ \A k \in S : k <= Max(S)
    <2> HIDE DEF S
    <2>1. \E m \in S : \A k \in S : m >= k
      <3>1. \A k \in S : k \in Int
        BY <1>1, <1>2 DEF Releases
      <3> QED BY <3>1, <1>3
    <2>2. Max(S) \in S /\ \A k \in S : Max(S) >= k
      BY <2>1 DEF Max
    <2>3. \A k \in S : k \in Int
      BY <1>1, <1>2 DEF Releases
    <2> QED BY <2>2, <2>3
  <1>5. AreaEnd = 1 + Max(S)
    BY DEF AreaEnd
  <1> HIDE DEF S
  <1> QED BY <1>1, <1>2, <1>4, <1>5 DEF Releases, Info

------------------------------------------------------------------------------
(* Shapes *)

\* One field of a disk replaced.
LEMMA NewSystem ==
  ASSUME NEW x, IsDisk(x), NEW y \in [0..AreaEnd -> Releases \cup {"none"}]
  PROVE  /\ IsDisk([x EXCEPT !.sys = y])
         /\ [x EXCEPT !.sys = y].sys = y /\ [x EXCEPT !.sys = y].fs = x.fs
  BY DEF IsDisk

LEMMA NewImage ==
  ASSUME NEW x, IsDisk(x), NEW y
  PROVE  /\ IsDisk([x EXCEPT !.fs = y])
         /\ [x EXCEPT !.fs = y].sys = x.sys /\ [x EXCEPT !.fs = y].fs = y
  BY DEF IsDisk

LEMMA NewFits ==
  ASSUME NEW x, IsDisk(x), NEW y
  PROVE  IsDisk([x EXCEPT !.fits = y])
  BY DEF IsDisk

LEMMA InitHasShape == Init => Shapes
  <1> SUFFICES ASSUME Init PROVE Shapes
    OBVIOUS
  <1>1. disks \in [Disks -> {BlankDisk, TinyDisk, OldDisk}]
    BY InstallerAssumption DEF Init
  <1>2. IsDisk(BlankDisk)
    BY DEF IsDisk, BlankDisk
  <1>3. IsDisk(TinyDisk)
    BY <1>2, NewFits DEF TinyDisk
  <1>4. IsDisk(OldDisk)
    <2> DEFINE y == [l \in 0..AreaEnd |-> IF l <= 1 + Sectors["old"] THEN "old" ELSE "none"]
               x == [BlankDisk EXCEPT !.sys = y]
    <2>1. y \in [0..AreaEnd -> Releases \cup {"none"}]
      BY DEF Releases
    <2> HIDE DEF y
    <2>2. IsDisk(x)
      BY <1>2, <2>1, NewSystem
    <2>3. OldDisk = [x EXCEPT !.fs = Image(1, FreshTable)]
      BY DEF OldDisk, y
    <2> HIDE DEF x
    <2> QED BY <2>2, <2>3, NewImage
  <1>5. \A d \in Disks : IsDisk(disks[d])
    <2> TAKE d \in Disks
    <2>1. disks[d] \in {BlankDisk, TinyDisk, OldDisk}
      BY <1>1
    <2> QED BY <2>1, <1>2, <1>3, <1>4
  <1>6. disks = [d \in Disks |-> disks[d]]
    BY <1>1
  <1>7. stage \in Stages /\ selected \in Disks
    BY InstallerAssumption DEF Init, Stages, Halted, LastStage
  <1>8. wiz = FirstAnswers
    BY DEF Init
  <1>9. wiz = [disk |-> wiz.disk, hostname |-> wiz.hostname, timezone |-> wiz.timezone,
               root_pw |-> wiz.root_pw, username |-> wiz.username, user_pw |-> wiz.user_pw]
    BY <1>8 DEF FirstAnswers
  <1> QED BY <1>5, <1>6, <1>7, <1>9 DEF Shapes

\* What a write of a sector, and of an image, make of the disks.
WriteTo(l)   == disks' = [disks EXCEPT ![selected].sys[l] = "new"]
SaveTo(img)  == disks' = [disks EXCEPT ![selected].fs = img]

LEMMA AfterWrite ==
  ASSUME Shapes, NEW l \in 0..AreaEnd, WriteTo(l)
  PROVE  /\ disks' = [d \in Disks |-> disks'[d]]
         /\ \A d \in Disks : IsDisk(disks'[d])
         /\ \A d \in Disks \ {selected} : disks'[d] = disks[d]
         /\ disks'[selected].sys = [disks[selected].sys EXCEPT ![l] = "new"]
         /\ disks'[selected].fs = disks[selected].fs
  <1> DEFINE old == disks[selected]
             y   == [old.sys EXCEPT ![l] = "new"]
             new == [old EXCEPT !.sys = y]
  <1>1. selected \in Disks /\ IsDisk(old)
    BY DEF Shapes
  <1>2. disks' = [d \in Disks |-> IF d = selected THEN new ELSE disks[d]]
    BY <1>1 DEF Shapes, WriteTo
  <1>3. y \in [0..AreaEnd -> Releases \cup {"none"}]
    BY <1>1 DEF IsDisk, Releases
  <1>4. IsDisk(new) /\ new.sys = y /\ new.fs = old.fs
    <2> HIDE DEF y, old
    <2> QED BY <1>1, <1>3, NewSystem
  <1> HIDE DEF new, y
  <1>5. \A d \in Disks \ {selected} : disks'[d] = disks[d]
    BY <1>2
  <1>6. disks'[selected] = new
    BY <1>1, <1>2
  <1> QED BY <1>1, <1>2, <1>4, <1>5, <1>6 DEF Shapes, y

LEMMA AfterSave ==
  ASSUME Shapes, NEW img, SaveTo(img)
  PROVE  /\ disks' = [d \in Disks |-> disks'[d]]
         /\ \A d \in Disks : IsDisk(disks'[d])
         /\ \A d \in Disks \ {selected} : disks'[d] = disks[d]
         /\ disks'[selected].sys = disks[selected].sys
         /\ disks'[selected].fs = img
  <1> DEFINE old == disks[selected]
             new == [old EXCEPT !.fs = img]
  <1>1. selected \in Disks /\ IsDisk(old)
    BY DEF Shapes
  <1>2. disks' = [d \in Disks |-> IF d = selected THEN new ELSE disks[d]]
    BY <1>1 DEF Shapes, SaveTo
  <1>3. IsDisk(new) /\ new.sys = old.sys /\ new.fs = img
    <2> HIDE DEF old
    <2> QED BY <1>1, NewImage
  <1> HIDE DEF new
  <1>4. \A d \in Disks \ {selected} : disks'[d] = disks[d]
    BY <1>2
  <1>5. disks'[selected] = new
    BY <1>1, <1>2
  <1> QED BY <1>1, <1>2, <1>3, <1>4, <1>5 DEF Shapes


------------------------------------------------------------------------------
(* The answers *)

\* What the stages still to come rely on.
Settled ==
  /\ stage \in 2..LastStage => wiz.disk = selected
  /\ stage \in 5..LastStage => "root" \in agreed
  /\ stage \in 6..LastStage => "user" \in agreed /\ wiz.username \notin ShortNames
  /\ agreed \subseteq {"root", "user"}

\* An answer writes nothing.
LEMMA AnswersWriteNothing ==
  ASSUME Shapes, Answer
  PROVE  /\ stage \in 0..6 /\ stage' \in Halted..7
         /\ UNCHANGED <<work, media, boots>>
         /\ selected' \in Disks
  <1> DEFINE Claim == /\ stage \in 0..6 /\ stage' \in Halted..7
                      /\ UNCHANGED <<work, media, boots>>
                      /\ selected' \in Disks
  <1> SUFFICES Claim
    OBVIOUS
  <1> USE DEF Halted, LastStage
  <1>1. CASE Welcome \/ Cancel \/ LeaveDisk \/ LeaveTimezone \/ Confirm \/ Refuse
    BY <1>1 DEF Welcome, Cancel, LeaveDisk, LeaveTimezone, Confirm, Refuse, Onward, Back, Shapes
  <1>2. ASSUME NEW d \in Disks, ChooseDisk(d) PROVE /\ stage = 1 /\ stage' = 2 /\ selected' = d
                                                    /\ UNCHANGED <<work, media, boots>>
    BY <1>2 DEF ChooseDisk, Onward
  <1>3. ASSUME NEW text \in HostNames, EnterHostname(text) \/ LeaveHostname(text)
        PROVE  stage = 2 /\ stage' \in {1, 3} /\ UNCHANGED <<selected, work, media, boots>>
    BY <1>3 DEF EnterHostname, LeaveHostname, Onward, Back
  <1>4. ASSUME NEW zone \in Zones, ChooseTimezone(zone)
        PROVE  stage = 3 /\ stage' = 4 /\ UNCHANGED <<selected, work, media, boots>>
    BY <1>4 DEF ChooseTimezone, Onward
  <1>5. ASSUME NEW pw, LeaveRootPw(pw) \/ \E confirm \in Passwords : EnterRootPw(pw, confirm)
        PROVE  stage = 4 /\ stage' \in 3..5 /\ UNCHANGED <<selected, work, media, boots>>
    BY <1>5 DEF LeaveRootPw, EnterRootPw, Onward, Back, Again
  <1>6. ASSUME NEW pw, NEW name,
               LeaveUser(name, pw) \/ \E confirm \in Passwords : EnterUser(name, pw, confirm)
        PROVE  stage = 5 /\ stage' \in 4..6 /\ UNCHANGED <<selected, work, media, boots>>
    BY <1>6 DEF LeaveUser, EnterUser, Onward, Back, Again
  <1>7. selected \in Disks
    BY DEF Shapes
  <1>8. CASE \E d \in Disks : ChooseDisk(d)
    BY <1>2, <1>8
  <1>9. CASE \E text \in HostNames : EnterHostname(text) \/ LeaveHostname(text)
    BY <1>3, <1>7, <1>9
  <1>10. CASE \E zone \in Zones : ChooseTimezone(zone)
    BY <1>4, <1>7, <1>10
  <1>11. ASSUME NEW pw, LeaveRootPw(pw) \/ \E confirm \in Passwords : EnterRootPw(pw, confirm)
         PROVE  Claim
    BY <1>5, <1>7, <1>11
  <1>12. ASSUME NEW pw, NEW name,
                LeaveUser(name, pw) \/ \E confirm \in Passwords : EnterUser(name, pw, confirm)
         PROVE  Claim
    BY <1>6, <1>7, <1>12
  <1> HIDE DEF Claim
  <1> QED BY <1>1, <1>8, <1>9, <1>10, <1>11, <1>12 DEF Answer

\* Each stage leaves the record whole and settles its part of it.
LEMMA AnswersSettle ==
  ASSUME Shapes, Settled, Answer
  PROVE  Settled' /\ wiz' = [disk |-> wiz'.disk, hostname |-> wiz'.hostname,
                             timezone |-> wiz'.timezone, root_pw |-> wiz'.root_pw,
                             username |-> wiz'.username, user_pw |-> wiz'.user_pw]
  <1> DEFINE Whole(w) == w = [disk |-> w.disk, hostname |-> w.hostname, timezone |-> w.timezone,
                              root_pw |-> w.root_pw, username |-> w.username,
                              user_pw |-> w.user_pw]
  <1> USE DEF LastStage
  <1>0. Whole(wiz)
    BY DEF Shapes
  <1>1. CASE Welcome \/ Cancel \/ LeaveDisk \/ LeaveTimezone \/ Confirm \/ Refuse
    BY <1>0, <1>1 DEF Welcome, Cancel, LeaveDisk, LeaveTimezone, Confirm, Refuse,
                      Onward, Back, Halted, answers, Settled
  <1>2. ASSUME NEW d \in Disks, ChooseDisk(d)
        PROVE  Settled' /\ Whole(wiz')
    BY <1>0, <1>2 DEF ChooseDisk, Onward, Settled
  <1>3. ASSUME NEW text \in HostNames, EnterHostname(text) \/ LeaveHostname(text)
        PROVE  Settled' /\ Whole(wiz')
    BY <1>0, <1>3 DEF EnterHostname, LeaveHostname, Onward, Back, Settled
  <1>4. ASSUME NEW zone \in Zones, ChooseTimezone(zone)
        PROVE  Settled' /\ Whole(wiz')
    BY <1>0, <1>4 DEF ChooseTimezone, Onward, Settled
  <1>5. ASSUME NEW pw, LeaveRootPw(pw) \/ \E confirm \in Passwords : EnterRootPw(pw, confirm)
        PROVE  Settled' /\ Whole(wiz')
    BY <1>0, <1>5 DEF LeaveRootPw, EnterRootPw, Onward, Back, Again, Settled
  <1>6. ASSUME NEW pw, NEW name,
               LeaveUser(name, pw) \/ \E confirm \in Passwords : EnterUser(name, pw, confirm)
        PROVE  Settled' /\ Whole(wiz')
    <2>1. LongEnough(name) \notin ShortNames
      BY InstallerAssumption DEF LongEnough
    <2>2. ASSUME NEW p, NEW n, wiz' = [wiz EXCEPT !.username = n, !.user_pw = p]
          PROVE  Whole(wiz') /\ wiz'.disk = wiz.disk /\ wiz'.username = n
      BY <1>0, <2>2
    <2>3. ASSUME NEW n, wiz' = [wiz EXCEPT !.username = n]
          PROVE  Whole(wiz') /\ wiz'.disk = wiz.disk
      BY <1>0, <2>3
    <2> HIDE DEF Whole
    <2>4. CASE LeaveUser(name, pw)
      <3>1. stage = 5 /\ stage' = 4 /\ selected' = selected
        BY <2>4 DEF LeaveUser, Back
      <3>2. Whole(wiz') /\ wiz'.disk = wiz.disk
        BY <2>2, <2>3, <2>4 DEF LeaveUser
      <3>3. agreed' \subseteq {"root", "user"}
        BY <2>4 DEF LeaveUser, Settled
      <3> QED BY <3>1, <3>2, <3>3 DEF Settled
    <2>5. ASSUME NEW confirm, EnterUser(name, pw, confirm) PROVE Settled' /\ Whole(wiz')
      <3>1. CASE pw = confirm
        <4>1. stage = 5 /\ stage' = 6 /\ selected' = selected
          BY <2>5, <3>1 DEF EnterUser, Onward
        <4>2. Whole(wiz') /\ wiz'.disk = wiz.disk /\ wiz'.username = LongEnough(name)
          BY <2>2, <2>5, <3>1 DEF EnterUser
        <4>3. agreed' = agreed \cup {"user"}
          BY <2>5, <3>1 DEF EnterUser
        <4> QED BY <2>1, <4>1, <4>2, <4>3 DEF Settled
      <3>2. CASE pw # confirm
        <4>1. stage = 5 /\ stage' = 5 /\ selected' = selected
          BY <2>5, <3>2 DEF EnterUser, Again
        <4>2. Whole(wiz') /\ wiz'.disk = wiz.disk
          BY <2>2, <2>5, <3>2 DEF EnterUser
        <4>3. agreed' = agreed \ {"user"}
          BY <2>5, <3>2 DEF EnterUser
        <4>4. "root" # "user"
          OBVIOUS
        <4> QED BY <4>1, <4>2, <4>3, <4>4 DEF Settled
      <3> QED BY <3>1, <3>2
    <2> QED BY <1>6, <2>4, <2>5
  <1> QED BY <1>1, <1>2, <1>3, <1>4, <1>5, <1>6 DEF Answer

LEMMA AnswersKeepShape ==
  ASSUME Shapes, Settled, Answer
  PROVE  Shapes'
  <1>1. UNCHANGED disks /\ stage' \in Stages /\ selected' \in Disks
    BY AnswersWriteNothing DEF media, Stages, LastStage, Halted
  <1> QED BY <1>1, AnswersSettle DEF Shapes

------------------------------------------------------------------------------
(* The installation *)

\* What of the system area is written, and every disk that is not cut.
Written ==
  /\ lba \in 0..LastLba
  /\ cut \subseteq Disks
  /\ stage \in 0..6 => step = "system" /\ lba = 0
  /\ stage = 7 /\ step = "system" /\ lba > 0 => selected \in cut
  /\ stage = 7 /\ step = "system" => \A l \in 0..(lba - 1) : disks[selected].sys[l] = "new"
  /\ WholeKernel


\* An image is saved, wholly or not, or nothing happens to the disks.
Saving == UNCHANGED disks \/ \E img : SaveTo(img)

\* The four kinds of steps an installation takes.
LEMMA InstallKinds ==
  ASSUME Install
  PROVE  /\ stage = 7 /\ UNCHANGED <<answers, selected>>
         /\ \/ WriteSystem /\ stage' = 7 /\ WriteTo(lba)
            \/ WriteSystemFails /\ stage' = Halted /\ (UNCHANGED disks \/ WriteTo(lba))
            \/ /\ Saving /\ UNCHANGED <<lba, cut>>
               /\ stage' \in {LastStage, Halted} \/ (stage' = 7 /\ step' # "system")
  <1>1. CASE TooSmall
    BY <1>1 DEF TooSmall, Saving, work, media
  <1>2. CASE WriteSystem
    BY <1>2 DEF WriteSystem, WriteTo
  <1>3. CASE WriteSystemFails
    BY <1>3 DEF WriteSystemFails, WriteTo
  <1>4. CASE Format
    BY <1>4 DEF Format, Saving, SaveWorks, SaveFails, SaveTo
  <1>5. CASE Configure
    BY <1>5 DEF Configure, Saving, media
  <1>6. CASE Save
    BY <1>6 DEF Save, Saving, SaveWorks, SaveFails, SaveTo, work
  <1> QED BY <1>1, <1>2, <1>3, <1>4, <1>5, <1>6 DEF Install

LEMMA LastLbaInArea == LastLba \in Nat /\ LastLba <= AreaEnd /\ AreaEnd \in Nat
  BY AreaHoldsKernels DEF LastLba, Releases, Info

LEMMA InstallKeepsShape ==
  ASSUME Shapes, Settled, Written, Install
  PROVE  Shapes' /\ Settled'
  <1>1. stage = 7 /\ stage' \in {7, LastStage, Halted} /\ UNCHANGED <<answers, selected>>
    BY InstallKinds
  <1>2. UNCHANGED disks \/ WriteTo(lba) \/ \E img : SaveTo(img)
    BY InstallKinds DEF Saving
  <1>3. lba \in 0..AreaEnd
    BY LastLbaInArea DEF Written
  <1>4. disks' = [d \in Disks |-> disks'[d]] /\ \A d \in Disks : IsDisk(disks'[d])
    <2>1. CASE UNCHANGED disks
      BY <2>1 DEF Shapes
    <2>2. CASE WriteTo(lba)
      BY <2>2, <1>3, AfterWrite
    <2>3. CASE \E img : SaveTo(img)
      BY <2>3, AfterSave
    <2> QED BY <1>2, <2>1, <2>2, <2>3
  <1>5. wiz' = wiz /\ selected' = selected /\ agreed' = agreed
    BY <1>1 DEF answers
  <1>6. Shapes'
    BY <1>1, <1>4, <1>5 DEF Shapes, Stages, LastStage, Halted
  <1>7. Settled'
    BY <1>1, <1>5 DEF Settled, LastStage, Halted
  <1> QED BY <1>6, <1>7

\* A disk whose kernel is whole.
Whole(sys) == \A i \in DOMAIN Loaded(sys) : Loaded(sys)[i] = sys[Info]

\* The last sector of a kernel makes it whole.
LEMMA WrittenIsWhole ==
  ASSUME NEW sys \in [0..AreaEnd -> Releases \cup {"none"}],
         \A l \in 0..LastLba : sys[l] = "new"
  PROVE  Whole(sys)
  <1>1. sys[Info] = "new" /\ Sectors["new"] \in Nat \ {0}
    BY AreaHoldsKernels DEF LastLba, Info, Releases
  <1>2. \A i \in 1..Sectors["new"] : sys[Info + i] = "new"
    BY <1>1 DEF LastLba, Info
  <1>3. sys[0] = "new"
    BY LastLbaInArea
  <1> QED BY <1>1, <1>2, <1>3 DEF Whole, Loaded

LEMMA InstallKeepsWritten ==
  ASSUME Shapes, Written, Install
  PROVE  Written'
  <1>1. stage = 7 /\ selected' = selected /\ selected \in Disks
    BY InstallKinds DEF Shapes
  <1>2. lba \in 0..AreaEnd /\ lba \in 0..LastLba /\ LastLba \in Nat
    BY LastLbaInArea DEF Written
  <1>3. CASE WriteSystem
    <2> DEFINE sys == disks'[selected].sys
    <2>1. step = "system" /\ stage' = 7 /\ WriteTo(lba)
      BY <1>3 DEF WriteSystem, WriteTo
    <2>2. /\ \A d \in Disks \ {selected} : disks'[d] = disks[d]
          /\ sys = [disks[selected].sys EXCEPT ![lba] = "new"]
          /\ sys \in [0..AreaEnd -> Releases \cup {"none"}]
      BY <1>1, <1>2, <2>1, AfterWrite DEF IsDisk
    <2>3. \A l \in 0..lba : sys[l] = "new"
      <3>1. \A l \in 0..(lba - 1) : disks[selected].sys[l] = "new"
        BY <1>1, <2>1 DEF Written
      <3>2. disks[selected].sys \in [0..AreaEnd -> Releases \cup {"none"}]
        BY <1>1 DEF Shapes, IsDisk
      <3> QED BY <1>2, <2>2, <3>1, <3>2, LastLbaInArea
    <2>4. \A d \in (Disks \ cut) \ {selected} : Whole(disks'[d].sys)
      BY <2>2 DEF Written, WholeKernel, Whole
    <2> HIDE DEF sys
    <2>5. CASE lba < LastLba
      <3>1. lba' = lba + 1 /\ cut' = cut \cup {selected} /\ step' = step
        BY <1>3, <2>5 DEF WriteSystem
      <3>2. WholeKernel'
        BY <3>1, <2>4 DEF WholeKernel, Whole
      <3> QED BY <1>1, <1>2, <2>1, <2>3, <2>5, <3>1, <3>2 DEF Written, LastLba, sys
    <2>6. CASE ~(lba < LastLba)
      <3>1. lba' = lba /\ cut' = cut \ {selected} /\ step' = "format"
        BY <1>3, <2>6 DEF WriteSystem
      <3>2. lba = LastLba
        BY <1>2, <2>6
      <3>3. Whole(sys)
        BY <2>2, <2>3, <3>2, WrittenIsWhole
      <3>4. WholeKernel'
        BY <3>1, <3>3, <2>4 DEF WholeKernel, Whole, sys
      <3> QED BY <1>1, <1>2, <2>1, <3>1, <3>4 DEF Written, LastLba
    <2> QED BY <2>5, <2>6
  <1>4. CASE WriteSystemFails
    <2>1. cut' = cut \cup {selected} /\ stage' = Halted /\ lba' = lba
      BY <1>4 DEF WriteSystemFails, work
    <2>2. \A d \in Disks \ {selected} : disks'[d] = disks[d]
      <3>1. UNCHANGED disks \/ WriteTo(lba)
        BY <1>4 DEF WriteSystemFails, WriteTo
      <3> QED BY <1>2, <3>1, AfterWrite
    <2>3. WholeKernel'
      BY <2>1, <2>2 DEF Written, WholeKernel
    <2> QED BY <1>1, <1>2, <2>1, <2>3 DEF Written, Halted, LastLba
  <1>5. CASE /\ Saving /\ UNCHANGED <<lba, cut>>
             /\ stage' \in {LastStage, Halted} \/ (stage' = 7 /\ step' # "system")
    <2>1. \A d \in Disks : disks'[d].sys = disks[d].sys
      <3>1. CASE UNCHANGED disks
        BY <3>1
      <3>2. CASE \E img : SaveTo(img)
        BY <3>2, AfterSave
      <3> QED BY <1>5, <3>1, <3>2 DEF Saving
    <2>2. WholeKernel'
      BY <1>5, <2>1 DEF Written, WholeKernel
    <2> QED BY <1>2, <1>5, <2>2 DEF Written, Halted, LastStage, LastLba
  <1> QED BY <1>3, <1>4, <1>5, InstallKinds


------------------------------------------------------------------------------
(* The files of the system: stage_install, installer.c 659-781 *)

\* The slots in use are the first ones, as nothing was removed.
Packed(t, m) == \A i \in Slots : t[i].used <=> i <= m

IsRootDir(t, i) == t[i].used /\ t[i].isDir /\ t[i].parent = 0 /\ t[i].name = RootDirs[i]

\* The file of /etc that call c of the plan makes: not there before, there after,
\* unless the username is a path that takes its name.
FileMade(t, k, w, c, file, text) ==
  ~Takes(w.username, file) =>
    IF k < c THEN Absent(t, 2, file) ELSE HasFile(t, 2, file, text)

\* The home of a user with an ordinary name, which is the eighth call's.
HomeMade(t, k, w) ==
  /\ \A i \in Slots \ {0} :
       t[i].used => t[i].parent \in {0, 2, 3} \/ (k = 15 /\ t[i].parent = 8)
  /\ k >= 8 => /\ t[8].used /\ t[8].isDir /\ t[8].parent = 3
               /\ t[8].name = w.username[1] /\ t[8].owner = Debian
  /\ k = 15 => HasFile(t, 8, ".bashrc", "text")

\* What the table holds after k calls of the plan.
Planted(t, k, w) ==
  /\ Sane(t)
  /\ \E m \in 0..k : Packed(t, m) /\ (k <= 7 => m = k)
  /\ \A i \in 1..7 : i <= k => IsRootDir(t, i)
  /\ FileMade(t, k, w, 9, "hostname", w.hostname)
  /\ FileMade(t, k, w, 10, "timezone", w.timezone)
  /\ Ordinary(w.username) => HomeMade(t, k, w)

\* What a call of the plan makes of the table.
CallResult(t, c) ==
  LET cwd == Place(t, c.from)
      u   == Made(t, cwd, c)
  IN  IF cwd = Fail \/ c.isDir THEN u ELSE Fill(u, Resolve(u, cwd, c.path), c.text)

\* Answers of the types the stages give them.
Answers(w) ==
  /\ w.disk \in {-1} \cup Disks /\ w.hostname \in HostNames /\ w.timezone \in Zones
  /\ w.root_pw \in Passwords /\ w.user_pw \in Passwords /\ w.username \in UserNames

LEMMA SmallSlots == 0..15 \subseteq Slots /\ MaxNodes \in Nat /\ MaxNodes > 15
  BY TableAssumption, InstallerAssumption DEF Slots

LEMMA RootDirsDiffer ==
  /\ \A i \in 1..7 : RootDirs[i] \in Range(RootDirs)
  /\ \A i, j \in 1..7 : RootDirs[i] = RootDirs[j] => i = j
  /\ RootDirs[2] = "etc" /\ RootDirs[3] = "home"
  /\ \A i \in 1..7 : RootDirs[i] \notin {".", "..", "hostname", "timezone"}
  BY DEF RootDirs, Range

LEMMA EtcFilesDiffer ==
  /\ \A i \in 1..6 : EtcFiles[i] \in Range(EtcFiles)
  /\ EtcFiles[1] = "hostname" /\ EtcFiles[2] = "timezone"
  /\ \A i \in 3..6 : EtcFiles[i] \notin {"hostname", "timezone"}
  /\ \A i \in 1..6 : EtcFiles[i] \notin {".", ".."}
  BY DEF EtcFiles, Range

LEMMA SystemNamesAreProper ==
  /\ \A i \in 1..7 : Proper(RootDirs[i])
  /\ \A i \in 1..6 : Proper(EtcFiles[i])
  /\ Proper(".bashrc") /\ Proper("etc") /\ Proper("home")
  /\ Proper("hostname") /\ Proper("timezone")
  <1>1. \A i \in 1..7 : Proper(RootDirs[i])
    BY RootDirsDiffer, InstallerAssumption DEF Proper
  <1>2. \A i \in 1..6 : Proper(EtcFiles[i])
    BY EtcFilesDiffer, InstallerAssumption DEF Proper
  <1>3. Proper(".bashrc")
    BY InstallerAssumption DEF Proper
  <1> QED BY <1>1, <1>2, <1>3, RootDirsDiffer, EtcFilesDiffer

\* Where the calls start from.
LEMMA PlaceIs ==
  ASSUME NEW t, NEW from, Len(from) \in 0..2
  PROVE  LET a == Resolve(t, 0, from[1])
         IN  Place(t, from) = IF Len(from) = 0 THEN 0
                              ELSE IF Len(from) = 1 \/ a = Fail THEN a
                              ELSE Resolve(t, a, from[2])
  <1> DEFINE n == Len(from)
             a == Resolve(t, 0, from[1])
             b == IF a = Fail THEN Fail ELSE Resolve(t, a, from[2])
             Runs(f) == f = [i \in 0..n |->
                               IF i = 0 THEN 0
                               ELSE IF f[i - 1] = Fail THEN Fail
                                    ELSE Resolve(t, f[i - 1], from[i])]
             g == [i \in 0..n |-> IF i = 0 THEN 0 ELSE IF i = 1 THEN a ELSE b]
             at == CHOOSE f : Runs(f)
  <1>1. Runs(g)
    <2>1. ASSUME NEW i \in 0..n
          PROVE  g[i] = IF i = 0 THEN 0
                        ELSE IF g[i - 1] = Fail THEN Fail ELSE Resolve(t, g[i - 1], from[i])
      <3>1. CASE i = 0
        BY <3>1
      <3>2. CASE i = 1
        <4>1. g[i - 1] = 0 /\ g[i] = a
          BY <3>2
        <4> QED BY <3>2, <4>1 DEF Fail
      <3>3. CASE i = 2
        <4>1. g[i - 1] = a /\ g[i] = b
          BY <3>3
        <4> QED BY <3>3, <4>1
      <3> QED BY <3>1, <3>2, <3>3
    <2>2. g = [i \in 0..n |-> g[i]]
      OBVIOUS
    <2> HIDE DEF g
    <2> QED BY <2>1, <2>2
  <1>2. Runs(at)
    <2> HIDE DEF Runs, g
    <2> QED BY <1>1
  <1>3. Place(t, from) = at[n]
    BY DEF Place
  <1> HIDE DEF at
  <1>4. at[0] = 0
    BY <1>2
  <1>5. n >= 1 => at[1] = a
    BY <1>2, <1>4 DEF Fail
  <1>6. n = 2 => at[2] = b
    <2> SUFFICES ASSUME n = 2 PROVE at[2] = b
      OBVIOUS
    <2>1. at[1] = a
      BY <1>5
    <2>2. at[2] = IF at[1] = Fail THEN Fail ELSE Resolve(t, at[1], from[2])
      BY <1>2
    <2> QED BY <2>1, <2>2
  <1>7. at[n] = IF n = 0 THEN 0 ELSE IF n = 1 \/ a = Fail THEN a ELSE Resolve(t, a, from[2])
    <2>1. CASE n = 0
      BY <1>4, <2>1
    <2>2. CASE n = 1
      BY <1>5, <2>2
    <2>3. CASE n = 2
      BY <1>6, <2>3
    <2> QED BY <2>1, <2>2, <2>3
  <1> QED BY <1>3, <1>7

\* Slots are given out in order.
LEMMA NextSlot ==
  ASSUME NEW t, NEW m \in Nat, Packed(t, m), m + 1 \in Slots
  PROVE  FreeSlots(t) # {} /\ AllocNode(t) = m + 1
  <1>1. m + 1 \in Slots \ {0} /\ ~t[m + 1].used
    BY DEF Packed
  <1>2. FreeSlots(t) # {}
    BY <1>1 DEF FreeSlots
  <1>3. /\ AllocNode(t) \in Slots \ {0} /\ ~t[AllocNode(t)].used
        /\ AllocNode(t) <= m + 1
    BY <1>1, <1>2, AllocIs
  <1>4. ~(AllocNode(t) <= m) /\ AllocNode(t) \in Nat
    BY <1>3, TableAssumption DEF Packed, Slots
  <1> QED BY <1>2, <1>3, <1>4

\* What one more entry does not change.
LEMMA AddsKeeps ==
  ASSUME NEW t, NEW u, NEW p, NEW name, Adds(t, u, p, name),
         NEW m \in Nat, Packed(t, m), m + 1 \in Slots
  PROVE  /\ Packed(u, m) \/ Packed(u, m + 1)
         /\ u[m + 1].used => Packed(u, m + 1)
         /\ \A i \in Slots : IsRootDir(t, i) => IsRootDir(u, i)
         /\ \A file, text : ~(p = 2 /\ name = file) =>
              /\ Absent(t, 2, file) => Absent(u, 2, file)
              /\ HasFile(t, 2, file, text) => HasFile(u, 2, file, text)
  <1>1. \A i \in Slots : u[i].used /\ ~t[i].used => i = m + 1
    BY NextSlot DEF Adds
  <1>2. \A i \in Slots : t[i].used => u[i].used
    BY DEF Adds
  <1>3. ASSUME u[m + 1].used PROVE Packed(u, m + 1)
    <2>1. ASSUME NEW i \in Slots PROVE u[i].used <=> i <= m + 1
      <3>1. i \in Nat
        BY TableAssumption DEF Slots
      <3>2. i <= m + 1 <=> i <= m \/ i = m + 1
        BY <3>1
      <3> QED BY <1>1, <1>2, <1>3, <3>2 DEF Packed
    <2> QED BY <2>1 DEF Packed
  <1>4. ASSUME ~u[m + 1].used PROVE Packed(u, m)
    BY <1>1, <1>2, <1>4 DEF Packed
  <1>5. \A i \in Slots : IsRootDir(t, i) => IsRootDir(u, i)
    BY DEF Adds, IsRootDir
  <1>6. ASSUME NEW file, NEW text, ~(p = 2 /\ name = file)
        PROVE  /\ Absent(t, 2, file) => Absent(u, 2, file)
               /\ HasFile(t, 2, file, text) => HasFile(u, 2, file, text)
    <2>1. Absent(t, 2, file) => Absent(u, 2, file)
      BY <1>6 DEF Adds, Absent
    <2>2. HasFile(t, 2, file, text) => HasFile(u, 2, file, text)
      BY <1>6 DEF Adds, HasFile
    <2> QED BY <2>1, <2>2
  <1>7. (Packed(u, m) \/ Packed(u, m + 1)) /\ (u[m + 1].used => Packed(u, m + 1))
    BY <1>3, <1>4
  <1> QED BY <1>5, <1>6, <1>7

LEMMA PlanIs ==
  ASSUME NEW w
  PROVE  /\ Len(Plan(w)) = 15
         /\ \A k \in 0..6 : Plan(w)[k + 1] = Dir(<<>>, <<RootDirs[k + 1]>>, Super)
         /\ Plan(w)[8] = Dir(<< <<"home">> >>, w.username, Debian)
         /\ \A k \in 8..13 : \E text \in {w.hostname, w.timezone, "text"} :
              /\ Plan(w)[k + 1] = File(<<>>, <<"etc", EtcFiles[k - 7]>>, text)
              /\ k = 8 => text = w.hostname
              /\ k = 9 => text = w.timezone
         /\ Plan(w)[15] = File(<< <<"home">>, w.username >>, <<".bashrc">>, "text")
  <1> DEFINE EtcText == <<w.hostname, w.timezone, "text", "text", "text", "text">>
  <1>1. \A i \in 1..6 : EtcText[i] \in {w.hostname, w.timezone, "text"}
    OBVIOUS
  <1>2. EtcText[1] = w.hostname /\ EtcText[2] = w.timezone
    OBVIOUS
  <1>3. ASSUME NEW k \in 8..13
        PROVE  Plan(w)[k + 1] = File(<<>>, <<"etc", EtcFiles[k - 7]>>, EtcText[k - 7])
    <2>1. k + 1 \in 1..15 /\ k + 1 \in 9..14 /\ k + 1 # 8 /\ ~(k + 1 \in 1..7) /\ k + 1 # 15
          /\ (k + 1) - 8 = k - 7
      OBVIOUS
    <2> QED BY <2>1 DEF Plan
  <1> HIDE DEF EtcText
  <1>4. \A k \in 8..13 : \E text \in {w.hostname, w.timezone, "text"} :
              /\ Plan(w)[k + 1] = File(<<>>, <<"etc", EtcFiles[k - 7]>>, text)
              /\ k = 8 => text = w.hostname
              /\ k = 9 => text = w.timezone
    <2> TAKE k \in 8..13
    <2>1. k - 7 \in 1..6
      OBVIOUS
    <2>2. EtcText[k - 7] \in {w.hostname, w.timezone, "text"}
      BY <1>1, <2>1
    <2>3. (k = 8 => EtcText[k - 7] = w.hostname) /\ (k = 9 => EtcText[k - 7] = w.timezone)
      BY <1>2
    <2> QED BY <1>3, <2>2, <2>3
  <1>5. \A k \in 0..6 : Plan(w)[k + 1] = Dir(<<>>, <<RootDirs[k + 1]>>, Super)
    <2> TAKE k \in 0..6
    <2>1. k + 1 \in 1..15 /\ k + 1 \in 1..7 /\ k + 1 # 8 /\ k + 1 # 15 /\ ~(k + 1 \in 9..14)
      OBVIOUS
    <2> QED BY <2>1 DEF Plan
  <1>6. Plan(w)[8] = Dir(<< <<"home">> >>, w.username, Debian)
    BY DEF Plan
  <1>7. Plan(w)[15] = File(<< <<"home">>, w.username >>, <<".bashrc">>, "text")
    BY DEF Plan
  <1>8. Len(Plan(w)) = 15
    BY DEF Plan
  <1> QED BY <1>4, <1>5, <1>6, <1>7, <1>8

LEMMA DirCall ==
  ASSUME NEW t, NEW from, NEW path, NEW owner
  PROVE  CallResult(t, Dir(from, path, owner)) =
           IF Place(t, from) = Fail THEN t
           ELSE Create(t, Place(t, from), path, TRUE, owner, DirMode)
  <1> DEFINE c == Dir(from, path, owner)
  <1>1. c.from = from /\ c.path = path /\ c.isDir = TRUE /\ c.owner = owner
    BY DEF Dir
  <1> HIDE DEF c
  <1>2. CallResult(t, c) = Made(t, Place(t, from), c)
    BY <1>1 DEF CallResult
  <1> QED BY <1>1, <1>2 DEF Made, c

LEMMA FileCall ==
  ASSUME NEW t, NEW from, NEW path, NEW text
  PROVE  CallResult(t, File(from, path, text)) =
           IF Place(t, from) = Fail THEN t ELSE Write(t, Place(t, from), path, text)
  <1> DEFINE c == File(from, path, text)
  <1>1. c.from = from /\ c.path = path /\ c.isDir = FALSE /\ c.text = text
    BY DEF File
  <1> HIDE DEF c
  <1>2. CASE Place(t, from) = Fail
    BY <1>1, <1>2 DEF CallResult, Made, c
  <1>3. CASE Place(t, from) # Fail
    <2>1. Made(t, Place(t, from), c) = Opened(t, Place(t, from), path)
      BY <1>1, <1>3 DEF Made
    <2> QED BY <1>1, <1>3, <2>1 DEF CallResult, Write, c
  <1> QED BY <1>2, <1>3

\* The seven directories of the root: slot k + 1 is the next one's.
LEMMA RootDirMade ==
  ASSUME NEW t, NEW w, NEW k \in 0..6, Planted(t, k, w)
  PROVE  Planted(CallResult(t, Plan(w)[k + 1]), k + 1, w)
  <1> DEFINE name == RootDirs[k + 1]
             u == CallResult(t, Plan(w)[k + 1])
  <1>1. Sane(t) /\ Packed(t, k) /\ \A i \in 1..7 : i <= k => IsRootDir(t, i)
    BY DEF Planted
  <1>2. k + 1 \in Slots /\ 0 \in Slots /\ k \in Nat /\ k + 1 \in 1..7
    BY SmallSlots
  <1>3. Proper(name) /\ name \notin {"hostname", "timezone"}
    BY <1>2, RootDirsDiffer, SystemNamesAreProper
  <1>4. u = Create(t, 0, <<name>>, TRUE, Super, DirMode)
    <2>1. Place(t, <<>>) = 0
      BY PlaceIs
    <2>2. Plan(w)[k + 1] = Dir(<<>>, <<name>>, Super)
      BY PlanIs
    <2>3. CallResult(t, Dir(<<>>, <<name>>, Super)) =
            IF Place(t, <<>>) = Fail THEN t
            ELSE Create(t, Place(t, <<>>), <<name>>, TRUE, Super, DirMode)
      <3> HIDE DEF name
      <3> QED BY DirCall
    <2>4. 0 # Fail
      BY DEF Fail
    <2> HIDE DEF name
    <2> QED BY <2>1, <2>2, <2>3, <2>4
  <1>5. <<name>> \in PathType /\ Last(<<name>>) = name /\ HomeOf(t, 0, <<name>>) = 0
    BY <1>2, <1>3, BareName
  <1>6. Absent(t, 0, name)
    <2> SUFFICES ASSUME NEW i \in Slots, t[i].used, t[i].name = name PROVE FALSE
      BY DEF Absent
    <2>1. i \in 0..k
      BY <1>1, TableAssumption DEF Packed, Slots
    <2>2. CASE i = 0
      <3>1. name = "/"
        BY <1>1, <2>2 DEF Sane, Neat, RootIntact
      <3> QED BY <1>3, <3>1, TableAssumption DEF Proper
    <2>3. CASE i # 0
      <3>1. i \in 1..7 /\ i <= k
        BY <2>1, <2>3
      <3>2. RootDirs[i] = RootDirs[k + 1]
        BY <1>1, <3>1 DEF IsRootDir
      <3>3. i = k + 1
        BY <1>2, <3>1, <3>2, RootDirsDiffer
      <3> QED BY <3>1, <3>3
    <2> QED BY <2>2, <2>3
  <1> HIDE DEF name, u
  <1>7. Adds(t, u, 0, name)
    <2>1. TRUE \in BOOLEAN /\ Super \in Uids /\ DirMode \in Modes
      BY TableAssumption
    <2>2. Adds(t, Create(t, 0, <<name>>, TRUE, Super, DirMode), HomeOf(t, 0, <<name>>), Last(<<name>>))
      BY <1>1, <1>2, <1>5, <2>1, CreateAdds DEF Sane
    <2> QED BY <1>4, <1>5, <2>2
  <1>8. u[k + 1].used /\ u[k + 1].isDir /\ u[k + 1].parent = 0 /\ u[k + 1].name = name
    <2>1. FreeSlots(t) # {} /\ AllocNode(t) = k + 1
      BY <1>1, <1>2, NextSlot
    <2>2. ASSUME NEW b \in BOOLEAN
          PROVE  Create(t, 0, <<name>>, b, Super, DirMode)[AllocNode(t)] =
                   [used |-> TRUE, isDir |-> b, parent |-> 0, name |-> name,
                    owner |-> Super, mode |-> DirMode, data |-> Nul]
      <3>1. 0 # Fail
        BY DEF Fail
      <3> QED BY <1>1, <1>5, <1>6, <2>1, <3>1, CreateMakes DEF Sane
    <2>3. u[k + 1] = [used |-> TRUE, isDir |-> TRUE, parent |-> 0, name |-> name,
                      owner |-> Super, mode |-> DirMode, data |-> Nul]
      BY <1>4, <2>1, <2>2
    <2> QED BY <2>3
  <1>9. /\ Packed(u, k + 1)
        /\ \A i \in Slots : IsRootDir(t, i) => IsRootDir(u, i)
        /\ Absent(t, 2, "hostname") => Absent(u, 2, "hostname")
        /\ Absent(t, 2, "timezone") => Absent(u, 2, "timezone")
    BY <1>1, <1>2, <1>7, <1>8, AddsKeeps
  <1>10. \A i \in 1..7 : i <= k + 1 => IsRootDir(u, i)
    <2> TAKE i \in 1..7
    <2>1. i \in Slots
      BY SmallSlots
    <2>2. i <= k + 1 => i <= k \/ i = k + 1
      OBVIOUS
    <2> QED BY <1>1, <1>8, <1>9, <2>1, <2>2 DEF IsRootDir, name
  <1>11. /\ FileMade(u, k + 1, w, 9, "hostname", w.hostname)
         /\ FileMade(u, k + 1, w, 10, "timezone", w.timezone)
    BY <1>9 DEF Planted, FileMade
  <1>12. Ordinary(w.username) => HomeMade(u, k + 1, w)
    <2> SUFFICES ASSUME Ordinary(w.username) PROVE HomeMade(u, k + 1, w)
      OBVIOUS
    <2>1. \A i \in Slots \ {0} : t[i].used => t[i].parent \in {0, 2, 3}
      BY DEF Planted, HomeMade
    <2>2. \A i \in Slots \ {0} : u[i].used => u[i].parent \in {0, 2, 3}
      BY <1>7, <2>1 DEF Adds
    <2> QED BY <2>2 DEF HomeMade
  <1>13. Sane(u)
    BY <1>1, <1>7 DEF Adds, Sane, Keeps
  <1>14. \E m \in 0..(k + 1) : Packed(u, m) /\ (k + 1 <= 7 => m = k + 1)
    BY <1>9
  <1> QED BY <1>10, <1>11, <1>12, <1>13, <1>14 DEF Planted, u

\* The names that lead to the directories the other calls use.
LEMMA RootDirsFound ==
  ASSUME NEW t, Sane(t), \A i \in 1..7 : IsRootDir(t, i)
  PROVE  /\ t[2].used /\ t[2].isDir /\ t[2].parent = 0 /\ t[2].name = "etc"
         /\ t[3].used /\ t[3].isDir /\ t[3].parent = 0 /\ t[3].name = "home"
         /\ Resolve(t, 0, <<"home">>) = 3
         /\ Place(t, << <<"home">> >>) = 3
  <1>1. /\ t[2].used /\ t[2].isDir /\ t[2].parent = 0 /\ t[2].name = "etc"
        /\ t[3].used /\ t[3].isDir /\ t[3].parent = 0 /\ t[3].name = "home"
    BY RootDirsDiffer DEF IsRootDir
  <1>2. 0 \in Slots /\ 3 \in Slots
    BY SmallSlots
  <1>3. Resolve(t, 0, <<"home">>) = Find(t, 0, "home")
    BY <1>2, SystemNamesAreProper, BareName
  <1>4. Find(t, 0, "home") = 3
    <2>1. Find(t, t[3].parent, t[3].name) = 3
      BY <1>1, <1>2, FindIs DEF Sane, Neat
    <2> QED BY <1>1, <2>1
  <1>5. Place(t, << <<"home">> >>) = 3
    <2> DEFINE from == << <<"home">> >>
    <2>1. Len(from) = 1 /\ from[1] = <<"home">>
      OBVIOUS
    <2> HIDE DEF from
    <2>2. Place(t, from) = Resolve(t, 0, from[1])
      BY <2>1, PlaceIs
    <2> QED BY <1>3, <1>4, <2>1, <2>2 DEF from
  <1> QED BY <1>1, <1>3, <1>4, <1>5


\* A username that is a name is one a path can hold.
LEMMA OrdinaryIsProper ==
  ASSUME NEW w, Answers(w), Ordinary(w.username)
  PROVE  /\ w.username = <<w.username[1]>> /\ Proper(w.username[1])
         /\ Last(w.username) = w.username[1]
  <1> DEFINE path == w.username
             name == path[1]
  <1>1. path \in Seq(Names \cup {Nul}) /\ path # <<Nul>> /\ Len(path) = 1
    BY InstallerAssumption DEF Answers, Ordinary, PathType
  <1>2. name \notin LongNames \cup {".", ".."}
    BY DEF Ordinary
  <1> HIDE DEF path
  <1>3. name \in Names \cup {Nul}
    <2>1. 1 \in 1..Len(path)
      BY <1>1
    <2> QED BY <1>1, <2>1, ElementOfSeq
  <1>4. path = <<name>>
    <2>1. <<name>> \in Seq(Names \cup {Nul}) /\ Len(<<name>>) = 1 /\ <<name>>[1] = name
      BY <1>3
    <2> QED BY <1>1, <2>1, SeqEqual
  <1>5. Proper(name)
    BY <1>1, <1>2, <1>3, <1>4 DEF Proper
  <1>6. Last(path) = name
    BY <1>1 DEF Last
  <1> QED BY <1>4, <1>5, <1>6 DEF path

\* The home of the user: a username that is a path may lead anywhere.
LEMMA UserDirMade ==
  ASSUME NEW t, NEW w, Answers(w), Planted(t, 7, w)
  PROVE  Planted(CallResult(t, Plan(w)[8]), 8, w)
  <1> DEFINE path == w.username
             home == HomeOf(t, 3, path)
             name == Last(path)
             u == CallResult(t, Plan(w)[8])
  <1>1. Sane(t) /\ Packed(t, 7) /\ \A i \in 1..7 : IsRootDir(t, i)
    BY DEF Planted
  <1>2. 8 \in Slots /\ 7 + 1 \in Slots /\ 3 \in Slots /\ 0 \in Slots
    BY SmallSlots
  <1>3. path \in PathType
    BY InstallerAssumption DEF Answers
  <1>4. u = Create(t, 3, path, TRUE, Debian, DirMode)
    <2>1. Place(t, << <<"home">> >>) = 3
      BY <1>1, RootDirsFound
    <2>2. Plan(w)[8] = Dir(<< <<"home">> >>, path, Debian)
      BY PlanIs
    <2>3. 3 # Fail
      BY DEF Fail
    <2> HIDE DEF path
    <2>4. CallResult(t, Dir(<< <<"home">> >>, path, Debian)) =
            IF Place(t, << <<"home">> >>) = Fail THEN t
            ELSE Create(t, Place(t, << <<"home">> >>), path, TRUE, Debian, DirMode)
      BY DirCall
    <2> QED BY <2>1, <2>2, <2>3, <2>4
  <1> HIDE DEF path, u
  <1>5. Adds(t, u, home, name)
    <2>1. Debian \in Uids /\ DirMode \in Modes
      BY TableAssumption, InstallerAssumption
    <2>2. ASSUME NEW b \in BOOLEAN
          PROVE  Adds(t, Create(t, 3, path, b, Debian, DirMode), home, name)
      BY <1>1, <1>2, <1>3, <2>1, CreateAdds DEF Sane
    <2> QED BY <1>4, <2>2
  <1>6. Ordinary(path) => home \in {3, Fail}
    BY DEF Ordinary, HomeOf
  <1> HIDE DEF home, name
  <1>7. /\ Packed(u, 7) \/ Packed(u, 8)
        /\ \A i \in Slots : IsRootDir(t, i) => IsRootDir(u, i)
        /\ \A file : ~(home = 2 /\ name = file) => (Absent(t, 2, file) => Absent(u, 2, file))
    BY <1>1, <1>2, <1>5, AddsKeeps
  <1>8. \A i \in 1..7 : IsRootDir(u, i)
    BY <1>1, <1>7, SmallSlots
  <1>9. ASSUME NEW file, NEW text, NEW c \in {9, 10}, FileMade(t, 7, w, c, file, text)
        PROVE  FileMade(u, 8, w, c, file, text)
    <2> SUFFICES ASSUME ~Takes(path, file) PROVE Absent(u, 2, file)
      BY DEF FileMade, path
    <2>1. Absent(t, 2, file)
      BY <1>9 DEF FileMade, path
    <2>2. ~(home = 2 /\ name = file)
      BY <1>6 DEF Takes, Fail, name
    <2> QED BY <1>7, <2>1, <2>2
  <1>10. ASSUME Ordinary(path) PROVE HomeMade(u, 8, w)
    <2> DEFINE nm == path[1]
    <2>1. path = <<nm>> /\ Proper(nm) /\ name = nm
      BY <1>10, OrdinaryIsProper DEF path, name
    <2> HIDE DEF nm
    <2>2. home = 3
      BY <1>2, <2>1, BareName DEF home
    <2>3. ASSUME NEW i \in Slots, t[i].used PROVE t[i].parent = 0
      <3>1. i <= 7 /\ i \in Nat
        BY <1>1, <2>3, TableAssumption DEF Packed, Slots
      <3>2. CASE i = 0
        BY <1>1, <3>2 DEF Sane, Neat, RootIntact
      <3>3. CASE i # 0
        BY <1>1, <3>1, <3>3 DEF IsRootDir
      <3> QED BY <3>2, <3>3
    <2>4. Absent(t, 3, nm)
      BY <2>3 DEF Absent
    <2>5. FreeSlots(t) # {} /\ AllocNode(t) = 8
      BY <1>1, <1>2, NextSlot
    <2>6. ASSUME NEW b \in BOOLEAN
          PROVE  Create(t, 3, path, b, Debian, DirMode)[8] =
                   [used |-> TRUE, isDir |-> b, parent |-> 3, name |-> nm,
                    owner |-> Debian, mode |-> DirMode, data |-> Nul]
      <3>1. HomeOf(t, 3, path) = 3 /\ 3 # Fail /\ Last(path) = nm
        BY <2>1, <2>2 DEF Fail, home, name
      <3> QED BY <1>1, <2>4, <2>5, <3>1, CreateMakes DEF Sane
    <2>7. u[8] = [used |-> TRUE, isDir |-> TRUE, parent |-> 3, name |-> nm,
                  owner |-> Debian, mode |-> DirMode, data |-> Nul]
      BY <1>4, <2>6
    <2>8. \A i \in Slots \ {0} : u[i].used => u[i].parent \in {0, 2, 3}
      BY <1>5, <2>2, <2>3 DEF Adds
    <2> QED BY <2>7, <2>8 DEF HomeMade, path, nm
  <1>11. Sane(u)
    BY <1>1, <1>5 DEF Adds, Sane, Keeps
  <1>12. \E m \in 0..8 : Packed(u, m) /\ (8 <= 7 => m = 8)
    BY <1>7
  <1>13. /\ FileMade(u, 8, w, 9, "hostname", w.hostname)
         /\ FileMade(u, 8, w, 10, "timezone", w.timezone)
    BY <1>9 DEF Planted
  <1> QED BY <1>8, <1>10, <1>11, <1>12, <1>13 DEF Planted, path, u

\* The files of /etc.
LEMMA EtcFileMade ==
  ASSUME NEW t, NEW w, Answers(w), NEW k \in 8..13, Planted(t, k, w)
  PROVE  Planted(CallResult(t, Plan(w)[k + 1]), k + 1, w)
  <1> DEFINE file == EtcFiles[k - 7]
             u == CallResult(t, Plan(w)[k + 1])
  <1>1. PICK text \in {w.hostname, w.timezone, "text"} :
          /\ Plan(w)[k + 1] = File(<<>>, <<"etc", file>>, text)
          /\ k = 8 => text = w.hostname
          /\ k = 9 => text = w.timezone
    BY PlanIs
  <1>2. Sane(t) /\ \A i \in 1..7 : IsRootDir(t, i)
    BY DEF Planted
  <1>3. PICK m \in 0..k : Packed(t, m)
    BY DEF Planted
  <1>4. m \in Nat /\ m + 1 \in Slots /\ 2 \in Slots /\ 0 \in Slots
    BY SmallSlots
  <1>5. text \in Texts \cup {Nul}
    BY InstallerAssumption DEF Answers
  <1>6. k - 7 \in 1..6
    OBVIOUS
  <1>7. /\ Proper(file)
        /\ k = 8 => file = "hostname"
        /\ k = 9 => file = "timezone"
        /\ k >= 9 => file # "hostname"
        /\ k # 9 => file # "timezone"
    <2>1. Proper(file)
      BY <1>6, SystemNamesAreProper
    <2>2. k = 8 => file = "hostname"
      BY EtcFilesDiffer
    <2>3. k = 9 => file = "timezone"
      BY EtcFilesDiffer
    <2>4. k >= 10 => file \notin {"hostname", "timezone"}
      <3>1. k >= 10 => k - 7 \in 3..6
        OBVIOUS
      <3> QED BY <3>1, EtcFilesDiffer
    <2> HIDE DEF file
    <2>5. k = 8 \/ k = 9 \/ k >= 10
      OBVIOUS
    <2> QED BY <2>1, <2>2, <2>3, <2>4, <2>5
  <1>8. Place(t, <<>>) = 0 /\ 0 # Fail
    BY PlaceIs DEF Fail
  <1> HIDE DEF file
  <1>9. u = Write(t, 0, <<"etc", file>>, text)
    BY <1>1, <1>8, FileCall
  <1> HIDE DEF u
  <1>10. ASSUME NEW v, Sane(v), \A i \in 1..7 : IsRootDir(v, i)
         PROVE  /\ <<"etc", file>> \in PathType /\ Last(<<"etc", file>>) = file
                /\ Resolve(v, 0, <<"etc", file>>) = Find(v, 2, file)
                /\ HomeOf(v, 0, <<"etc", file>>) = 2
    <2>1. v[2].used /\ v[2].isDir /\ v[2].parent = 0 /\ v[2].name = "etc" /\ Proper("etc")
      BY <1>10, RootDirsFound, SystemNamesAreProper
    <2>2. /\ <<v[2].name, file>> \in PathType /\ Last(<<v[2].name, file>>) = file
          /\ Resolve(v, 0, <<v[2].name, file>>) = Find(v, 2, file)
          /\ HomeOf(v, 0, <<v[2].name, file>>) = 2
      BY <1>4, <1>7, <1>10, <2>1, NameInDirectory DEF Sane
    <2> QED BY <2>1, <2>2
  <1>11. ASSUME NEW v, Adds(t, v, 2, file) PROVE \A i \in 1..7 : IsRootDir(v, i)
    BY <1>2, <1>11, SmallSlots DEF Adds, IsRootDir
  <1>12. /\ Adds(t, u, 2, file)
         /\ HasFile(u, 2, file, text) \/ HasDir(t, 2, file)
            \/ (Absent(t, 2, file) /\ FreeSlots(t) = {})
    <2> DEFINE path == <<"etc", file>>
               v == Opened(t, 0, path)
    <2>1. path \in PathType /\ Last(path) = file /\ HomeOf(t, 0, path) = 2
          /\ Resolve(t, 0, path) = Find(t, 2, file)
      BY <1>2, <1>10
    <2>2. Adds(t, v, 2, file) => Resolve(v, 0, path) = Find(v, 2, file)
      <3> SUFFICES ASSUME Adds(t, v, 2, file) PROVE Resolve(v, 0, path) = Find(v, 2, file)
        OBVIOUS
      <3>1. Sane(v) /\ \A i \in 1..7 : IsRootDir(v, i)
        BY <1>2, <1>11 DEF Adds, Sane, Keeps
      <3> HIDE DEF v
      <3> QED BY <1>10, <3>1
    <2>3. 2 # Fail
      BY DEF Fail
    <2> HIDE DEF path
    <2> QED BY <1>2, <1>4, <1>5, <1>9, <2>1, <2>2, <2>3, WriteAdds DEF path, Sane
  <1>13. FreeSlots(t) # {}
    BY <1>3, <1>4, NextSlot
  <1>14. /\ Packed(u, m) \/ Packed(u, m + 1)
         /\ \A other, text2 : other # file =>
              /\ Absent(t, 2, other) => Absent(u, 2, other)
              /\ HasFile(t, 2, other, text2) => HasFile(u, 2, other, text2)
    BY <1>3, <1>4, <1>12, AddsKeeps
  <1>15. Absent(t, 2, file) => HasFile(u, 2, file, text)
    BY <1>12, <1>13 DEF Absent, HasDir
  <1>16. FileMade(u, k + 1, w, 9, "hostname", w.hostname)
    <2>0. FileMade(t, k, w, 9, "hostname", w.hostname)
      BY DEF Planted
    <2>1. CASE k = 8
      BY <1>1, <1>7, <1>15, <2>0, <2>1 DEF FileMade
    <2>2. CASE k # 8
      <3>1. k >= 9 /\ ~(k < 9) /\ ~(k + 1 < 9)
        BY <2>2
      <3>2. file # "hostname"
        BY <1>7, <3>1
      <3> QED BY <1>14, <2>0, <3>1, <3>2 DEF FileMade
    <2> QED BY <2>1, <2>2
  <1>17. FileMade(u, k + 1, w, 10, "timezone", w.timezone)
    <2>0. FileMade(t, k, w, 10, "timezone", w.timezone)
      BY DEF Planted
    <2>1. CASE k = 9
      BY <1>1, <1>7, <1>15, <2>0, <2>1 DEF FileMade
    <2>2. CASE k # 9
      <3>1. k < 10 <=> k + 1 < 10
        BY <2>2
      <3>2. file # "timezone"
        BY <1>7, <2>2
      <3> QED BY <1>14, <2>0, <3>1, <3>2 DEF FileMade
    <2> QED BY <2>1, <2>2
  <1>18. Ordinary(w.username) => HomeMade(u, k + 1, w)
    <2> SUFFICES ASSUME Ordinary(w.username) PROVE HomeMade(u, k + 1, w)
      OBVIOUS
    <2>1. /\ \A i \in Slots \ {0} : t[i].used => t[i].parent \in {0, 2, 3}
          /\ t[8].used /\ t[8].isDir /\ t[8].parent = 3
          /\ t[8].name = w.username[1] /\ t[8].owner = Debian
      BY DEF Planted, HomeMade
    <2>2. 8 \in Slots
      BY SmallSlots
    <2>3. \A i \in Slots \ {0} : u[i].used => u[i].parent \in {0, 2, 3}
      BY <1>12, <2>1 DEF Adds
    <2>4. /\ u[8].used /\ u[8].isDir /\ u[8].parent = 3
          /\ u[8].name = w.username[1] /\ u[8].owner = Debian
      BY <1>12, <2>1, <2>2 DEF Adds
    <2>5. k + 1 # 15
      OBVIOUS
    <2> QED BY <2>3, <2>4, <2>5 DEF HomeMade
  <1>19. Sane(u) /\ \A i \in 1..7 : IsRootDir(u, i)
    BY <1>2, <1>11, <1>12 DEF Adds, Sane, Keeps
  <1>20. \E j \in 0..(k + 1) : Packed(u, j) /\ (k + 1 <= 7 => j = k + 1)
    <2>1. m \in 0..(k + 1) /\ m + 1 \in 0..(k + 1) /\ ~(k + 1 <= 7)
      BY <1>3
    <2> QED BY <1>14, <2>1
  <1> QED BY <1>16, <1>17, <1>18, <1>19, <1>20 DEF Planted, u

\* The shell's start-up file, in the home of the user.
LEMMA BashrcMade ==
  ASSUME NEW t, NEW w, Answers(w), Planted(t, 14, w)
  PROVE  Planted(CallResult(t, Plan(w)[15]), 15, w)
  <1> DEFINE path == w.username
             from == << <<"home">>, path >>
             cwd  == Resolve(t, 3, path)
             u    == CallResult(t, Plan(w)[15])
  <1>1. Sane(t) /\ \A i \in 1..7 : IsRootDir(t, i)
    BY DEF Planted
  <1>2. PICK m \in 0..14 : Packed(t, m)
    BY DEF Planted
  <1>3. m \in Nat /\ m + 1 \in Slots /\ 3 \in Slots /\ 8 \in Slots /\ 0 \in Slots
    BY SmallSlots
  <1>4. path \in PathType /\ Len(path) \in Nat
    BY InstallerAssumption DEF Answers, PathType
  <1>5. Place(t, from) = cwd
    <2>1. Resolve(t, 0, <<"home">>) = 3 /\ 3 # Fail
      BY <1>1, RootDirsFound DEF Fail
    <2>2. Len(from) = 2 /\ from[1] = <<"home">> /\ from[2] = path
      OBVIOUS
    <2> HIDE DEF from, cwd, path
    <2>3. Place(t, from) = IF Resolve(t, 0, from[1]) = Fail THEN Resolve(t, 0, from[1])
                           ELSE Resolve(t, Resolve(t, 0, from[1]), from[2])
      BY <2>2, PlaceIs
    <2> QED BY <2>1, <2>2, <2>3 DEF cwd
  <1>6. u = IF cwd = Fail THEN t ELSE Write(t, cwd, <<".bashrc">>, "text")
    <2>1. Plan(w)[15] = File(from, <<".bashrc">>, "text")
      BY PlanIs
    <2> HIDE DEF from, cwd
    <2> QED BY <1>5, <2>1, FileCall
  <1>7. cwd \in Slots \cup {Fail}
    BY <1>1, <1>3, <1>4, ResolveStays DEF Sane, Neat
  <1>8. Ordinary(path) =>
          /\ cwd = 8
          /\ \A i \in Slots \ {0} : t[i].used => t[i].parent \in {0, 2, 3}
          /\ t[8].used /\ t[8].isDir /\ t[8].parent = 3
          /\ t[8].name = path[1] /\ t[8].owner = Debian
    <2> SUFFICES ASSUME Ordinary(path)
                 PROVE  /\ cwd = 8
                        /\ \A i \in Slots \ {0} : t[i].used => t[i].parent \in {0, 2, 3}
                        /\ t[8].used /\ t[8].isDir /\ t[8].parent = 3
                        /\ t[8].name = path[1] /\ t[8].owner = Debian
      OBVIOUS
    <2>1. /\ \A i \in Slots \ {0} : t[i].used => t[i].parent \in {0, 2, 3}
          /\ t[8].used /\ t[8].isDir /\ t[8].parent = 3
          /\ t[8].name = path[1] /\ t[8].owner = Debian
      BY DEF Planted, HomeMade
    <2>2. path = <<path[1]>> /\ Proper(path[1])
      BY OrdinaryIsProper
    <2>3. Find(t, t[8].parent, t[8].name) = 8
      BY <1>1, <1>3, <2>1, FindIs DEF Sane, Neat
    <2>4. Resolve(t, 3, <<path[1]>>) = Find(t, 3, path[1])
      BY <1>3, <2>2, BareName
    <2> HIDE DEF path
    <2>5. cwd = 8
      BY <2>1, <2>2, <2>3, <2>4
    <2> QED BY <2>1, <2>5
  <1>9. FileMade(t, 14, w, 9, "hostname", w.hostname) /\ FileMade(t, 14, w, 10, "timezone", w.timezone)
    BY DEF Planted
  <1>10. CASE cwd = Fail
    <2>1. u = t /\ ~Ordinary(path)
      BY <1>3, <1>6, <1>8, <1>10, TableAssumption DEF Fail, Slots
    <2>2. FileMade(t, 15, w, 9, "hostname", w.hostname) /\ FileMade(t, 15, w, 10, "timezone", w.timezone)
      BY <1>9 DEF FileMade
    <2> HIDE DEF u, path
    <2> QED BY <1>1, <1>2, <2>1, <2>2 DEF Planted, u, path
  <1>11. CASE cwd # Fail
    <2>0. cwd \in Slots
      BY <1>7, <1>11
    <2> HIDE DEF u, cwd, path
    <2>1. /\ Adds(t, u, cwd, ".bashrc")
          /\ HasFile(u, cwd, ".bashrc", "text") \/ HasDir(t, cwd, ".bashrc")
             \/ (Absent(t, cwd, ".bashrc") /\ FreeSlots(t) = {})
      <3> DEFINE p == <<".bashrc">>
                 v == Opened(t, cwd, p)
      <3>1. /\ p \in PathType /\ Last(p) = ".bashrc"
            /\ Resolve(t, cwd, p) = Find(t, cwd, ".bashrc")
            /\ Resolve(v, cwd, p) = Find(v, cwd, ".bashrc")
            /\ HomeOf(t, cwd, p) = cwd
        <4> HIDE DEF v
        <4> QED BY <2>0, BareName, SystemNamesAreProper
      <3>2. u = Write(t, cwd, p, "text") /\ "text" \in Texts \cup {Nul}
        BY <1>6, <1>11, InstallerAssumption
      <3> HIDE DEF p
      <3> QED BY <1>1, <1>11, <2>0, <3>1, <3>2, WriteAdds DEF Sane
    <2>2. FreeSlots(t) # {}
      BY <1>2, <1>3, NextSlot
    <2>3. /\ Packed(u, m) \/ Packed(u, m + 1)
          /\ \A i \in Slots : IsRootDir(t, i) => IsRootDir(u, i)
          /\ \A file, text : file # ".bashrc" =>
               (HasFile(t, 2, file, text) => HasFile(u, 2, file, text))
      BY <1>2, <1>3, <2>1, AddsKeeps
    <2>4. \A i \in 1..7 : IsRootDir(u, i)
      BY <1>1, <2>3, SmallSlots
    <2>5. /\ FileMade(u, 15, w, 9, "hostname", w.hostname)
          /\ FileMade(u, 15, w, 10, "timezone", w.timezone)
      BY <1>9, <2>3 DEF FileMade
    <2>6. ASSUME Ordinary(path) PROVE HomeMade(u, 15, w)
      <3>1. /\ cwd = 8
            /\ \A i \in Slots \ {0} : t[i].used => t[i].parent \in {0, 2, 3}
            /\ t[8].used /\ t[8].isDir /\ t[8].parent = 3
            /\ t[8].name = path[1] /\ t[8].owner = Debian
        BY <1>8, <2>6
      <3>2. ASSUME NEW i \in Slots, t[i].used PROVE t[i].parent # 8
        BY <1>1, <3>1, <3>2 DEF Sane, Neat, RootIntact
      <3>3. HasFile(u, 8, ".bashrc", "text")
        BY <2>1, <2>2, <3>1, <3>2 DEF HasDir
      <3>4. /\ u[8].used /\ u[8].isDir /\ u[8].parent = 3
            /\ u[8].name = path[1] /\ u[8].owner = Debian
        BY <1>3, <2>1, <3>1 DEF Adds
      <3>5. \A i \in Slots \ {0} : u[i].used => u[i].parent \in {0, 2, 3} \/ u[i].parent = 8
        BY <2>1, <3>1 DEF Adds
      <3> QED BY <3>3, <3>4, <3>5 DEF HomeMade, path
    <2>7. Sane(u)
      BY <1>1, <2>1 DEF Adds, Sane, Keeps
    <2>8. \E j \in 0..15 : Packed(u, j) /\ (15 <= 7 => j = 15)
      BY <1>2, <2>3
    <2> QED BY <2>4, <2>5, <2>6, <2>7, <2>8 DEF Planted, u, path
  <1> QED BY <1>10, <1>11

\* A call of the plan does its part, whichever it is.
LEMMA CallMade ==
  ASSUME NEW t, NEW w, Answers(w), NEW k \in 0..14, Planted(t, k, w)
  PROVE  Planted(CallResult(t, Plan(w)[k + 1]), k + 1, w)
  <1>1. CASE k \in 0..6
    BY <1>1, RootDirMade
  <1>2. CASE k = 7
    BY <1>2, UserDirMade
  <1>3. CASE k \in 8..13
    BY <1>3, EtcFileMade
  <1>4. CASE k = 14
    BY <1>4, BashrcMade
  <1> QED BY <1>1, <1>2, <1>3, <1>4

\* fs_init: nothing is there before the first call.
LEMMA NothingMade ==
  ASSUME NEW w
  PROVE  Planted(FreshTable, 0, w)
  <1> DEFINE t == FreshTable
  <1>1. \A i \in Slots : t[i].used <=> i = 0
    BY DEF FreshTable, RootNode, Vacant
  <1>2. t[0].parent = 0 /\ 0 \in Slots /\ t[0].name = "/"
    BY TableAssumption DEF FreshTable, RootNode, Slots
  <1> HIDE DEF t
  <1>3. Packed(t, 0)
    BY <1>1, TableAssumption DEF Packed, Slots
  <1>4. \A name : Absent(t, 2, name)
    BY <1>1, <1>2 DEF Absent
  <1>5. HomeMade(t, 0, w)
    BY <1>1 DEF HomeMade
  <1>6. Sane(t)
    BY FreshIsSane DEF t
  <1> QED BY <1>3, <1>4, <1>5, <1>6 DEF Planted, FileMade, t

\* The saved image is read back as the table it was made of, but for the root's
\* own fields (fs.c 561-620): what was made is found.
LEMMA LoadedBack ==
  ASSUME NEW t, NEW w, Planted(t, 15, w)
  PROVE  Decodes(Image(2, t)) /\ Planted(Decode(Image(2, t)), 15, w)
  <1> DEFINE img == Image(2, t)
             u == Decode(img)
  <1>1. img.version = 2 /\ img.table = t /\ img \in [version : {1, 2}, table : Tables]
    BY DEF Image, Planted, Sane, Neat
  <1> HIDE DEF img
  <1>2. Sane(t) /\ t[0].parent = 0 /\ IsLiveDir(t, 0)
    BY DEF Planted, Sane, Neat, RootIntact
  <1>3. Decodes(img)
    BY <1>1, <1>2 DEF Decodes
  <1>4. Sane(u)
    BY <1>1, <1>2, DecodeIsSane
  <1>5. \A i \in Slots \ {0} : u[i] = t[i]
    BY <1>1 DEF Decode, Fields
  <1>6. u[0].used /\ t[0].used /\ u[0].parent = 0
    <2>1. t[0].used
      BY <1>2 DEF IsLiveDir, Live
    <2>2. u[0].used /\ u[0].parent = 0
      BY <1>4 DEF Sane, Neat, RootIntact, IsLiveDir, Live
    <2> QED BY <2>1, <2>2
  <1> HIDE DEF u
  <1>7. \A i \in Slots : u[i].used <=> t[i].used
    BY <1>5, <1>6
  <1>8. \E m \in 0..15 : Packed(u, m) /\ (15 <= 7 => m = 15)
    BY <1>7 DEF Planted, Packed
  <1>9. \A i \in 1..7 : i <= 15 => IsRootDir(u, i)
    BY <1>5, SmallSlots DEF Planted, IsRootDir
  <1>10. ASSUME NEW p, p # 0, NEW file, NEW text, HasFile(t, p, file, text)
         PROVE  HasFile(u, p, file, text)
    BY <1>2, <1>5, <1>10 DEF HasFile
  <1>11. /\ FileMade(u, 15, w, 9, "hostname", w.hostname)
         /\ FileMade(u, 15, w, 10, "timezone", w.timezone)
    BY <1>10 DEF Planted, FileMade
  <1>12. ASSUME Ordinary(w.username) PROVE HomeMade(u, 15, w)
    <2>1. HomeMade(t, 15, w) /\ 8 \in Slots \ {0}
      BY <1>12, SmallSlots DEF Planted
    <2>2. HasFile(u, 8, ".bashrc", "text")
      BY <1>10, <2>1 DEF HomeMade
    <2> QED BY <1>5, <2>1, <2>2 DEF HomeMade
  <1>13. Planted(u, 15, w)
    BY <1>4, <1>8, <1>9, <1>11, <1>12 DEF Planted
  <1> QED BY <1>3, <1>13 DEF u, img

\* A file that is there is found by its path.
LEMMA FileFound ==
  ASSUME NEW t, Sane(t), \A i \in 1..7 : IsRootDir(t, i),
         NEW file, Proper(file), NEW text, HasFile(t, 2, file, text)
  PROVE  Holds(t, <<"etc", file>>, text)
  <1>1. PICK i \in Slots : /\ t[i].used /\ ~t[i].isDir /\ t[i].parent = 2 /\ t[i].name = file
                           /\ t[i].data = text
    BY DEF HasFile
  <1>2. 0 \in Slots /\ 2 \in Slots
    BY SmallSlots
  <1>3. t[2].used /\ t[2].isDir /\ t[2].parent = 0 /\ t[2].name = "etc" /\ Proper("etc")
    BY RootDirsFound, SystemNamesAreProper
  <1>4. Resolve(t, 0, <<t[2].name, file>>) = Find(t, 2, file)
    BY <1>2, <1>3, NameInDirectory DEF Sane
  <1>5. Find(t, t[i].parent, t[i].name) = i
    BY <1>1, FindIs DEF Sane, Neat
  <1>6. Resolve(t, 0, <<"etc", file>>) = i /\ i # Fail
    BY <1>1, <1>3, <1>4, <1>5, TableAssumption DEF Slots, Fail
  <1> QED BY <1>1, <1>6 DEF Holds, Reads

\* With an ordinary username every entry is in the root, in etc, home or the
\* user's home.
LEMMA AllRooted ==
  ASSUME NEW t, Sane(t), \A i \in 1..7 : IsRootDir(t, i), NEW w, HomeMade(t, 15, w)
  PROVE  Rooted(t)
  <1>1. /\ \A i \in Slots \ {0} : t[i].used => t[i].parent \in {0, 2, 3, 8}
        /\ t[2].parent = 0 /\ t[3].parent = 0 /\ t[8].parent = 3 /\ t[0].parent = 0
    BY RootDirsFound DEF HomeMade, Sane, Neat, RootIntact
  <1>2. \A i \in {0, 2, 3, 8} : IsLiveDir(t, i)
    <2>1. IsLiveDir(t, 0)
      BY DEF Sane, Neat, RootIntact
    <2>2. {2, 3, 8} \subseteq Slots
      BY SmallSlots
    <2>3. \A i \in {2, 3, 8} : t[i].used /\ t[i].isDir
      BY RootDirsFound DEF HomeMade
    <2> QED BY <2>1, <2>2, <2>3 DEF IsLiveDir, Live
  <1> SUFFICES ASSUME NEW n \in Slots, t[n].used
               PROVE  /\ Ancestors(t, n)[MaxNodes] = 0
                      /\ \A d \in 1..MaxNodes : IsLiveDir(t, Ancestors(t, n)[d])
    BY DEF Rooted
  <1> DEFINE up == Ancestors(t, n)
             S  == {d \in Nat : d + 3 <= MaxNodes => up[d + 3] = 0}
  <1>3. MaxNodes \in Nat /\ MaxNodes > 15
    BY SmallSlots
  <1>4. /\ up[0] = n
        /\ \A d \in 0..(MaxNodes - 1) : up[d + 1] = IF up[d] = 0 THEN 0 ELSE t[up[d]].parent
    BY AncestorsAlong
  <1> HIDE DEF up
  <1>5. up[1] \in {0, 2, 3, 8}
    <2>1. up[0 + 1] = IF up[0] = 0 THEN 0 ELSE t[up[0]].parent
      BY <1>3, <1>4
    <2> QED BY <1>1, <1>4, <2>1
  <1>6. up[2] \in {0, 3}
    <2>1. up[1 + 1] = IF up[1] = 0 THEN 0 ELSE t[up[1]].parent
      BY <1>3, <1>4
    <2> QED BY <1>1, <1>5, <2>1
  <1>7. up[3] = 0
    <2>1. up[2 + 1] = IF up[2] = 0 THEN 0 ELSE t[up[2]].parent
      BY <1>3, <1>4
    <2> QED BY <1>1, <1>6, <2>1
  <1>8. Nat \subseteq S
    <2>1. 0 \in S
      BY <1>7
    <2>2. ASSUME NEW d \in Nat, d \in S PROVE d + 1 \in S
      <3> SUFFICES ASSUME d + 1 + 3 <= MaxNodes PROVE up[d + 1 + 3] = 0
        OBVIOUS
      <3>1. up[d + 3] = 0 /\ d + 3 \in 0..(MaxNodes - 1)
        BY <1>3, <2>2
      <3>2. up[(d + 3) + 1] = 0
        BY <1>4, <3>1
      <3> QED BY <3>2
    <2> HIDE DEF S
    <2> QED BY <2>1, <2>2, ReachesAll
  <1>9. \A d \in 3..MaxNodes : up[d] = 0
    <2> TAKE d \in 3..MaxNodes
    <2>1. d - 3 \in Nat /\ (d - 3) + 3 = d /\ d <= MaxNodes
      BY <1>3
    <2>2. d - 3 \in S
      BY <1>8, <2>1
    <2> QED BY <2>1, <2>2
  <1>10. \A d \in 1..MaxNodes : up[d] \in {0, 2, 3, 8}
    <2> TAKE d \in 1..MaxNodes
    <2>1. d = 1 \/ d = 2 \/ d \in 3..MaxNodes
      BY <1>3
    <2> QED BY <1>5, <1>6, <1>9, <2>1
  <1>11. up[MaxNodes] = 0
    BY <1>3, <1>9
  <1> QED BY <1>2, <1>10, <1>11 DEF up

\* What CompleteMeansInstalled says of the table a load reads back.
LEMMA PlantedIsInstalled ==
  ASSUME NEW t, NEW w, Answers(w), Planted(t, 15, w)
  PROVE  LET home == Resolve(t, 0, <<"home">> \o w.username)
         IN  /\ SiblingsDistinct(t) /\ RootIntact(t)
             /\ Takes(w.username, "hostname") \/ Holds(t, <<"etc", "hostname">>, w.hostname)
             /\ Takes(w.username, "timezone") \/ Holds(t, <<"etc", "timezone">>, w.timezone)
             /\ Ordinary(w.username) =>
                  /\ Rooted(t)
                  /\ IsLiveDir(t, home) /\ t[home].owner = Debian
                  /\ Reads(t, home, <<".bashrc">>)
  <1> DEFINE path == w.username
             home == Resolve(t, 0, <<"home">> \o path)
  <1>1. Sane(t) /\ \A i \in 1..7 : IsRootDir(t, i)
    BY DEF Planted
  <1>2. Takes(path, "hostname") \/ Holds(t, <<"etc", "hostname">>, w.hostname)
    BY <1>1, FileFound, SystemNamesAreProper DEF Planted, FileMade
  <1>3. Takes(path, "timezone") \/ Holds(t, <<"etc", "timezone">>, w.timezone)
    BY <1>1, FileFound, SystemNamesAreProper DEF Planted, FileMade
  <1>4. ASSUME Ordinary(path)
        PROVE  /\ Rooted(t)
               /\ IsLiveDir(t, home) /\ t[home].owner = Debian
               /\ Reads(t, home, <<".bashrc">>)
    <2> DEFINE nm == path[1]
    <2>1. HomeMade(t, 15, w)
      BY <1>4 DEF Planted
    <2>2. path = <<nm>> /\ Proper(nm)
      BY <1>4, OrdinaryIsProper
    <2>3. /\ t[8].used /\ t[8].isDir /\ t[8].parent = 3 /\ t[8].name = nm
          /\ t[8].owner = Debian /\ HasFile(t, 8, ".bashrc", "text")
      BY <2>1 DEF HomeMade
    <2>4. 8 \in Slots /\ 3 \in Slots /\ 0 \in Slots
      BY SmallSlots
    <2> HIDE DEF nm, path, home
    <2>5. Rooted(t)
      BY <1>1, <2>1, AllRooted
    <2>6. home = 8
      <3>1. <<"home">> \o <<nm>> = <<"home", nm>>
        <4>1. nm \in Names /\ "home" \in Names
          BY <2>2, SystemNamesAreProper DEF Proper
        <4> QED BY <4>1, TwoNames
      <3>2. /\ t[3].used /\ t[3].isDir /\ t[3].parent = 0 /\ t[3].name = "home" /\ Proper("home")
        BY <1>1, RootDirsFound, SystemNamesAreProper
      <3>3. Resolve(t, 0, <<t[3].name, nm>>) = Find(t, 3, nm)
        BY <1>1, <2>2, <2>4, <3>2, NameInDirectory DEF Sane
      <3>4. Find(t, t[8].parent, t[8].name) = 8
        BY <1>1, <2>3, <2>4, FindIs DEF Sane, Neat
      <3> QED BY <2>2, <2>3, <3>1, <3>2, <3>3, <3>4 DEF home
    <2>7. Reads(t, 8, <<".bashrc">>)
      <3>1. PICK i \in Slots : t[i].used /\ ~t[i].isDir /\ t[i].parent = 8 /\ t[i].name = ".bashrc"
        BY <2>3 DEF HasFile
      <3>2. Find(t, t[i].parent, t[i].name) = i
        BY <1>1, <3>1, FindIs DEF Sane, Neat
      <3>3. Resolve(t, 8, <<".bashrc">>) = Find(t, 8, ".bashrc")
        BY <2>4, BareName, SystemNamesAreProper
      <3> QED BY <3>1, <3>2, <3>3, TableAssumption DEF Reads, Slots, Fail
    <2>8. IsLiveDir(t, 8)
      BY <2>3, <2>4 DEF IsLiveDir, Live
    <2> QED BY <2>3, <2>5, <2>6, <2>7, <2>8
  <1>5. SiblingsDistinct(t) /\ RootIntact(t)
    BY <1>1 DEF Sane, Neat
  <1> QED BY <1>2, <1>3, <1>4, <1>5

------------------------------------------------------------------------------
(* The whole machine *)

IInv == Shapes /\ Settled /\ Written

LEMMA FirstDisksAreWhole ==
  \A x \in {BlankDisk, TinyDisk, OldDisk} : Whole(x.sys)
  <1>1. BlankDisk.sys[0] = "none" /\ TinyDisk.sys = BlankDisk.sys
    BY AreaHoldsKernels DEF BlankDisk, TinyDisk
  <1>2. Whole(BlankDisk.sys)
    BY <1>1 DEF Whole, Loaded
  <1>3. Whole(OldDisk.sys)
    <2> DEFINE sys == [l \in 0..AreaEnd |-> IF l <= 1 + Sectors["old"] THEN "old" ELSE "none"]
    <2>1. OldDisk.sys = sys
      BY DEF OldDisk, BlankDisk
    <2>2. Sectors["old"] \in Nat \ {0} /\ Info + Sectors["old"] <= AreaEnd /\ AreaEnd \in Nat
      BY AreaHoldsKernels DEF Releases
    <2>3. \A l \in 0..(1 + Sectors["old"]) : sys[l] = "old"
      BY <2>2 DEF Info
    <2> HIDE DEF sys
    <2>4. Whole(sys)
      BY <2>2, <2>3 DEF Whole, Loaded, Info
    <2> QED BY <2>1, <2>4
  <1> QED BY <1>1, <1>2, <1>3

LEMMA InitInv == Init => IInv
  <1> SUFFICES ASSUME Init PROVE IInv
    OBVIOUS
  <1>1. \A d \in Disks : disks[d] \in {BlankDisk, TinyDisk, OldDisk}
    BY InstallerAssumption DEF Init
  <1>2. WholeKernel
    BY <1>1, FirstDisksAreWhole DEF WholeKernel, Whole
  <1>3. Written
    BY <1>2, LastLbaInArea DEF Init, Written, Halted
  <1>4. Settled
    BY DEF Init, Settled, Halted, LastStage
  <1> QED BY <1>3, <1>4, InitHasShape DEF IInv

LEMMA NextInv == IInv /\ [Next]_vars => IInv'
  <1> SUFFICES ASSUME IInv, [Next]_vars PROVE IInv'
    OBVIOUS
  <1> USE DEF IInv
  <1>1. CASE PowerOn
    <2>1. wiz' = FirstAnswers /\ selected' = 0 /\ UNCHANGED media /\ stage' = 0
      BY <1>1 DEF PowerOn
    <2>2. Shapes'
      BY <2>1, InstallerAssumption DEF Shapes, Stages, Halted, LastStage, media, FirstAnswers
    <2>3. Settled'
      BY <1>1 DEF PowerOn, Settled, LastStage
    <2>4. Written'
      BY <1>1, LastLbaInArea DEF PowerOn, Written, WholeKernel, media
    <2> QED BY <2>2, <2>3, <2>4
  <1>2. CASE Answer
    <2>1. Shapes' /\ Settled'
      BY <1>2, AnswersKeepShape, AnswersSettle
    <2>2. Written'
      BY <1>2, AnswersWriteNothing DEF Written, WholeKernel, work, media, Halted
    <2> QED BY <2>1, <2>2
  <1>3. CASE Install
    BY <1>3, InstallKeepsShape, InstallKeepsWritten
  <1>4. CASE PowerOnDiskless \/ Complete
    <2>1. stage' = Halted /\ UNCHANGED <<answers, selected, work, media>>
      BY <1>4 DEF PowerOnDiskless, Complete
    <2> QED BY <2>1 DEF Shapes, Settled, Written, WholeKernel, Stages, Halted, LastStage,
                        answers, work, media, LastLba
  <1>5. CASE UNCHANGED vars
    BY <1>5 DEF vars, answers, work, media, Shapes, Settled, Written, WholeKernel, LastLba
  <1> QED BY <1>1, <1>2, <1>3, <1>4, <1>5 DEF Next

\* The types, what is settled at each stage, and what of the kernel is written, for
\* every set of disks, answers and kernel sizes (installer.c 864-923, disk.c 109-189).
THEOREM InstallerInvariant == Spec => []IInv
  BY InitInv, NextInv, PTL DEF Spec

\* At the summary both passwords were typed twice and the username is long enough,
\* however the user went through the stages (installer.c 467-538).
THEOREM AccountsAreSettled == Spec => []AccountsSettled
  <1>1. IInv => AccountsSettled
    BY DEF IInv, Settled, AccountsSettled, Shapes, LastStage
  <1> QED BY <1>1, InstallerInvariant, PTL

\* A disk boots one release, whole, or nothing, unless an installation was broken off
\* in its system area (disk.c 148-182).
THEOREM KernelIsWhole == Spec => []WholeKernel
  <1>1. IInv => WholeKernel
    BY DEF IInv, Written
  <1> QED BY <1>1, InstallerInvariant, PTL

\* No disk but the one the summary showed is written, and none before the
\* confirmation (installer.c 398-402, 618-790).
THEOREM OnlyTheTargetIsWritten == Spec => TargetIsShown
  <1>1. ASSUME IInv, Next, NEW d \in Disks, disks'[d] # disks[d]
        PROVE  stage = 7 /\ d = wiz.disk
    <2>1. Install
      BY <1>1, AnswersWriteNothing
         DEF Next, IInv, PowerOn, PowerOnDiskless, Complete, media
    <2>2. stage = 7 /\ (UNCHANGED disks \/ WriteTo(lba) \/ \E img : SaveTo(img))
      BY <2>1, InstallKinds DEF Saving
    <2>3. lba \in 0..AreaEnd
      BY <1>1, LastLbaInArea DEF IInv, Written
    <2>4. d = selected
      BY <1>1, <2>2, <2>3, AfterWrite, AfterSave DEF IInv
    <2> QED BY <1>1, <2>2, <2>4 DEF IInv, Settled, LastStage
  <1>2. IInv /\ [Next]_vars
          => [\A d \in Disks : disks'[d] # disks[d] => stage = 7 /\ d = wiz.disk]_vars
    BY <1>1
  <1> QED BY <1>2, InstallerInvariant, PTL DEF Spec, TargetIsShown

------------------------------------------------------------------------------
(* From the calls to the installed system *)

Images == {Nothing} \cup [version : {1, 2}, table : Tables]
Calls(w) == {Plan(w)[i] : i \in 1..15}

\* The types of what is not a matter of the system area.
Typed ==
  /\ Answers(wiz)
  /\ step \in {"system", "format", "configure"}
  /\ Sane(nodes)
  /\ todo \in Seq(Calls(wiz)) /\ Len(todo) <= 15
  /\ stage \in 0..6 => todo = <<>>
  /\ \A d \in Disks : disks[d].fs \in Images
  /\ boots \in 0..MaxBoots

\* The calls still to come are the last ones of the plan, those before them have
\* been made, and the whole of the new kernel is on the disk.
Configured ==
  /\ stage \in {7, LastStage} /\ step # "system" =>
       \A l \in 0..LastLba : disks[selected].sys[l] = "new"
  /\ stage \in {7, LastStage} /\ step = "configure" =>
       /\ \A i \in 1..Len(todo) : todo[i] = Plan(wiz)[15 - Len(todo) + i]
       /\ Planted(nodes, 15 - Len(todo), wiz)
  /\ stage = LastStage =>
       step = "configure" /\ todo = <<>> /\ disks[selected].fs = Image(2, nodes)
  /\ stage \in 3..LastStage => wiz.hostname # Nul

JInv == Typed /\ Configured

LEMMA FirstAnswersAreAnswers == Answers(FirstAnswers)
  BY InstallerAssumption DEF Answers, FirstAnswers

LEMMA FirstImages == \A x \in {BlankDisk, TinyDisk, OldDisk} : x.fs \in Images
  <1>1. BlankDisk.fs = Nothing /\ TinyDisk.fs = Nothing
    BY DEF BlankDisk, TinyDisk
  <1>2. OldDisk.fs = Image(1, FreshTable)
    BY DEF OldDisk, BlankDisk
  <1>3. Image(1, FreshTable) \in [version : {1, 2}, table : Tables]
    BY FreshIsSane DEF Image, Sane, Neat
  <1> QED BY <1>1, <1>2, <1>3 DEF Images

LEMMA InitJInv == Init => JInv
  <1> SUFFICES ASSUME Init PROVE JInv
    OBVIOUS
  <1>1. \A d \in Disks : disks[d] \in {BlankDisk, TinyDisk, OldDisk}
    BY InstallerAssumption DEF Init
  <1>2. \A d \in Disks : disks[d].fs \in Images
    BY <1>1, FirstImages
  <1>3. Typed
    BY <1>2, FirstAnswersAreAnswers, FreshIsSane, InstallerAssumption DEF Init, Typed
  <1> QED BY <1>3 DEF Init, JInv, Configured, Halted, LastStage

\* What the users enter are answers, and an empty hostname becomes the default one
\* before the stage is left forwards (installer.c 431-442).
LEMMA AnswersStayAnswers ==
  ASSUME Shapes, Answers(wiz), stage \in 3..LastStage => wiz.hostname # Nul, Answer
  PROVE  Answers(wiz') /\ (stage' \in 3..LastStage => wiz'.hostname # Nul)
  <1> DEFINE Kept == stage' \in 3..LastStage => wiz'.hostname # Nul
             Whole6(w) == w = [disk |-> w.disk, hostname |-> w.hostname, timezone |-> w.timezone,
                               root_pw |-> w.root_pw, username |-> w.username,
                               user_pw |-> w.user_pw]
  <1> USE DEF LastStage
  <1>0. Whole6(wiz)
    BY DEF Shapes
  <1>1. CASE Welcome \/ Cancel \/ LeaveDisk \/ LeaveTimezone \/ Confirm \/ Refuse
    BY <1>1 DEF Welcome, Cancel, LeaveDisk, LeaveTimezone, Confirm, Refuse,
                Onward, Back, Halted, answers
  <1>2. ASSUME NEW d \in Disks, ChooseDisk(d) PROVE Answers(wiz') /\ Kept
    BY <1>0, <1>2 DEF ChooseDisk, Onward, Answers
  <1>3. ASSUME NEW text \in HostNames, EnterHostname(text) PROVE Answers(wiz') /\ Kept
    <2> DEFINE host == IF text = Nul THEN DefaultHost ELSE text
    <2>1. host \in HostNames /\ host # Nul
      BY InstallerAssumption DEF DefaultHost, Nul
    <2>2. wiz' = [wiz EXCEPT !.hostname = host]
      BY <1>3 DEF EnterHostname
    <2> HIDE DEF host
    <2> QED BY <1>0, <2>1, <2>2 DEF Answers
  <1>4. ASSUME NEW text \in HostNames, LeaveHostname(text) PROVE Answers(wiz') /\ Kept
    BY <1>0, <1>4 DEF LeaveHostname, Back, Answers
  <1>5. ASSUME NEW zone \in Zones, ChooseTimezone(zone) PROVE Answers(wiz') /\ Kept
    BY <1>0, <1>5 DEF ChooseTimezone, Onward, Answers
  <1>6. ASSUME NEW pw \in Passwords,
               LeaveRootPw(pw) \/ \E confirm \in Passwords : EnterRootPw(pw, confirm)
        PROVE  Answers(wiz') /\ Kept
    <2>1. stage = 4 /\ \E p \in Passwords : wiz' = [wiz EXCEPT !.root_pw = p]
      BY <1>6, InstallerAssumption DEF LeaveRootPw, EnterRootPw, Onward, Back, Again
    <2> QED BY <1>0, <2>1 DEF Answers
  <1>7. ASSUME NEW pw \in Passwords, NEW name \in UserNames,
               LeaveUser(name, pw) \/ \E confirm \in Passwords : EnterUser(name, pw, confirm)
        PROVE  Answers(wiz') /\ Kept
    <2>1. LongEnough(name) \in UserNames /\ Nul \in Passwords
      BY InstallerAssumption DEF LongEnough
    <2>2. /\ stage = 5
          /\ \E p \in Passwords, n \in UserNames :
               \/ wiz' = [wiz EXCEPT !.username = n]
               \/ wiz' = [wiz EXCEPT !.username = n, !.user_pw = p]
      BY <1>7, <2>1 DEF LeaveUser, EnterUser, Onward, Back, Again
    <2>3. ASSUME NEW p \in Passwords, NEW n \in UserNames,
                 wiz' = [wiz EXCEPT !.username = n, !.user_pw = p]
          PROVE  Answers(wiz') /\ wiz'.hostname = wiz.hostname
      <3>1. /\ wiz'.disk = wiz.disk /\ wiz'.hostname = wiz.hostname
            /\ wiz'.timezone = wiz.timezone /\ wiz'.root_pw = wiz.root_pw
            /\ wiz'.username = n /\ wiz'.user_pw = p
        BY <1>0, <2>3
      <3> QED BY <3>1 DEF Answers
    <2>4. ASSUME NEW n \in UserNames, wiz' = [wiz EXCEPT !.username = n]
          PROVE  Answers(wiz') /\ wiz'.hostname = wiz.hostname
      BY <1>0, <2>4 DEF Answers
    <2>5. Answers(wiz') /\ wiz'.hostname = wiz.hostname
      BY <2>2, <2>3, <2>4
    <2> QED BY <2>2, <2>5
  <1> QED BY <1>1, <1>2, <1>3, <1>4, <1>5, <1>6, <1>7 DEF Answer

\* An image that is saved replaces that of the disk chosen, and nothing else.
LEMMA AfterSaveTyped ==
  ASSUME Shapes, Typed, NEW img \in Images, SaveTo(img)
  PROVE  \A d \in Disks : disks'[d].fs \in Images
  BY AfterSave DEF Typed

LEMMA ImageOf == ASSUME NEW t \in Tables PROVE Image(2, t) \in Images
  BY DEF Image, Images

\* What the installation writes of the filesystem area, for every outcome of a save.
LEMMA InstallKeepsImages ==
  ASSUME Shapes, Typed, Written, Install
  PROVE  \A d \in Disks : disks'[d].fs \in Images
  <1>1. selected \in Disks /\ disks[selected].fs \in Images /\ lba \in 0..AreaEnd
    BY LastLbaInArea DEF Shapes, Typed, Written
  <1>2. CASE UNCHANGED disks
    BY <1>2 DEF Typed
  <1>3. CASE WriteTo(lba)
    BY <1>1, <1>3, AfterWrite DEF Typed
  <1>4. ASSUME NEW t \in Tables, SaveWorks(t) \/ SaveFails(t)
        PROVE  \A d \in Disks : disks'[d].fs \in Images
    <2>1. \E img \in Images : SaveTo(img)
      BY <1>1, <1>4, ImageOf DEF SaveWorks, SaveFails, SaveTo, Images
    <2> QED BY <2>1, AfterSaveTyped
  <1>5. FreshTable \in Tables /\ nodes \in Tables
    BY FreshIsSane DEF Typed, Sane, Neat
  <1>6. CASE TooSmall \/ Configure
    BY <1>2, <1>6 DEF TooSmall, Configure, media
  <1>7. CASE WriteSystem \/ WriteSystemFails
    BY <1>2, <1>3, <1>7 DEF WriteSystem, WriteSystemFails, WriteTo
  <1>8. CASE Format
    BY <1>4, <1>5, <1>8 DEF Format
  <1>9. CASE Save
    BY <1>4, <1>5, <1>9 DEF Save
  <1> QED BY <1>6, <1>7, <1>8, <1>9 DEF Install

LEMMA PlanIsCalls ==
  ASSUME NEW w
  PROVE  Plan(w) \in Seq(Calls(w)) /\ Len(Plan(w)) = 15
  <1>1. Len(Plan(w)) = 15
    BY PlanIs
  <1>2. \E f : Plan(w) = [i \in 1..15 |-> f[i]]
    <2>1. Plan(w) = [i \in 1..15 |-> Plan(w)[i]]
      BY DEF Plan
    <2> QED BY <2>1
  <1>3. \A i \in 1..15 : Plan(w)[i] \in Calls(w)
    BY DEF Calls
  <1> DEFINE p == Plan(w)
  <1> HIDE DEF p
  <1>4. p \in [1..15 -> Calls(w)]
    BY <1>2, <1>3 DEF p
  <1>5. p \in Seq(Calls(w))
    BY <1>4, SeqDef
  <1> QED BY <1>1, <1>5 DEF p

\* fs_init and the first save.
LEMMA FormatKeeps ==
  ASSUME Shapes, Typed, Configured, Format
  PROVE  /\ Sane(nodes') /\ step' \in {"system", "format", "configure"}
         /\ todo' \in Seq(Calls(wiz)) /\ Len(todo') <= 15
         /\ Configured'
  <1>1. stage = 7 /\ step = "format" /\ nodes' = FreshTable /\ wiz' = wiz /\ selected' = selected
        /\ selected \in Disks
    BY DEF Format, answers, Shapes
  <1>2. \A l \in 0..LastLba : disks[selected].sys[l] = "new"
    BY <1>1 DEF Configured
  <1>3. wiz'.hostname # Nul
    BY <1>1 DEF Configured, LastStage
  <1>4. CASE SaveWorks(FreshTable) /\ step' = "configure" /\ todo' = Plan(wiz) /\ UNCHANGED stage
    <2>1. SaveTo(Image(2, FreshTable))
      BY <1>4 DEF SaveWorks, SaveTo
    <2>2. disks'[selected].sys = disks[selected].sys
      BY <2>1, AfterSave
    <2>3. Len(todo') = 15 /\ todo' \in Seq(Calls(wiz))
      BY <1>4, PlanIsCalls
    <2>4. Planted(nodes', 15 - Len(todo'), wiz')
      BY <1>1, <2>3, NothingMade
    <2>5. \A i \in 1..Len(todo') : todo'[i] = Plan(wiz')[15 - Len(todo') + i]
      <3>1. \A i \in 1..15 : 15 - 15 + i = i
        OBVIOUS
      <3> QED BY <1>1, <1>4, <2>3, <3>1
    <2> QED BY <1>1, <1>2, <1>3, <1>4, <2>2, <2>3, <2>4, <2>5, FreshIsSane
            DEF Configured, LastStage, LastLba
  <1>5. CASE SaveFails(FreshTable) /\ stage' = Halted /\ UNCHANGED <<step, todo>>
    BY <1>1, <1>5, FreshIsSane DEF Configured, Typed, Halted, LastStage
  <1> QED BY <1>4, <1>5 DEF Format

LEMMA OneLess ==
  ASSUME NEW S, NEW s \in Seq(S), s # <<>>, Len(s) <= 15, NEW r, r = Tail(s)
  PROVE  /\ Len(s) \in 1..15 /\ Len(r) = Len(s) - 1 /\ Head(s) = s[1]
         /\ \A i \in 1..(Len(s) - 1) : r[i] = s[i + 1]
         /\ r \in Seq(S) /\ Len(r) <= 15
  <1> DEFINE n == Len(s)
             h == Head(s)
  <1>1. n \in Nat \ {0} /\ n <= 15
    BY EmptySeq
  <1>2. Len(r) = n - 1 /\ r \in Seq(S) /\ \A i \in 1..Len(r) : r[i] = s[i + 1]
    BY HeadTailProperties
  <1>3. h = s[1]
    OBVIOUS
  <1> HIDE DEF n, h
  <1>4. n \in 1..15
    BY <1>1
  <1>5. \A i \in 1..(n - 1) : r[i] = s[i + 1]
    BY <1>2
  <1>6. Len(r) <= 15
    BY <1>1, <1>2
  <1> QED BY <1>2, <1>3, <1>4, <1>5, <1>6 DEF n, h

LEMMA CountDown == \A n \in 1..15 : 15 - n \in 0..14
  OBVIOUS

\* One call of the plan.
LEMMA ConfigureKeeps ==
  ASSUME Shapes, Typed, Configured, Configure
  PROVE  /\ Sane(nodes')
         /\ todo' \in Seq(Calls(wiz)) /\ Len(todo') <= 15
         /\ Configured'
  <1> DEFINE k == 15 - Len(todo)
  <1>1. /\ stage = 7 /\ stage' = 7 /\ step = "configure" /\ step' = "configure" /\ todo # <<>>
        /\ wiz' = wiz /\ selected' = selected /\ disks' = disks /\ todo' = Tail(todo)
    BY DEF Configure, answers, media
  <1>2. nodes' = CallResult(nodes, Head(todo))
    BY DEF Configure, CallResult
  <1>3. todo \in Seq(Calls(wiz)) /\ Len(todo) <= 15
    BY DEF Typed
  <1>4. /\ Len(todo) \in 1..15 /\ Len(todo') = Len(todo) - 1 /\ Head(todo) = todo[1]
        /\ \A i \in 1..(Len(todo) - 1) : todo'[i] = todo[i + 1]
        /\ todo' \in Seq(Calls(wiz)) /\ Len(todo') <= 15
    BY <1>1, <1>3, OneLess
  <1>5. k \in 0..14
    BY <1>4, CountDown
  <1>6. Planted(nodes, k, wiz) /\ \A i \in 1..Len(todo) : todo[i] = Plan(wiz)[k + i]
    BY <1>1 DEF Configured
  <1>7. Head(todo) = Plan(wiz)[k + 1]
    BY <1>4, <1>6
  <1>8. 15 - Len(todo') = k + 1
    BY <1>1, <1>4
  <1>9. \A i \in 1..Len(todo') : todo'[i] = Plan(wiz)[(k + 1) + i]
    <2> TAKE i \in 1..Len(todo')
    <2>1. i \in 1..(Len(todo) - 1) /\ i + 1 \in 1..Len(todo) /\ k + (i + 1) = (k + 1) + i
      BY <1>1, <1>4
    <2> HIDE DEF k
    <2> QED BY <1>1, <1>4, <1>6, <2>1
  <1> HIDE DEF k
  <1>10. Planted(nodes', k + 1, wiz)
    BY <1>2, <1>5, <1>6, <1>7, CallMade DEF Typed
  <1>11. Sane(nodes') /\ Len(todo') <= 15 /\ todo' \in Seq(Calls(wiz))
    BY <1>4, <1>10 DEF Planted
  <1>12. /\ \A l \in 0..LastLba : disks[selected].sys[l] = "new"
         /\ wiz.hostname # Nul
    BY <1>1 DEF Configured, LastStage
  <1>13. Configured'
    BY <1>1, <1>8, <1>9, <1>10, <1>12 DEF Configured, LastStage, LastLba
  <1> QED BY <1>11, <1>13

\* The last save.
LEMMA SaveKeeps ==
  ASSUME Shapes, Typed, Configured, Save
  PROVE  Configured'
  <1>1. /\ stage = 7 /\ step = "configure" /\ todo = <<>> /\ wiz' = wiz /\ selected' = selected
        /\ step' = step /\ todo' = todo /\ nodes' = nodes /\ selected \in Disks
    BY DEF Save, answers, work, Shapes
  <1>2. CASE SaveWorks(nodes) /\ stage' = LastStage
    <2>1. SaveTo(Image(2, nodes))
      BY <1>2 DEF SaveWorks, SaveTo
    <2>2. disks'[selected].sys = disks[selected].sys /\ disks'[selected].fs = Image(2, nodes)
      BY <2>1, AfterSave
    <2> QED BY <1>1, <1>2, <2>2 DEF Configured, LastStage, LastLba
  <1>3. CASE SaveFails(nodes) /\ stage' = Halted
    BY <1>3 DEF Configured, Halted, LastStage
  <1> QED BY <1>2, <1>3 DEF Save

\* Once the last sector is written the whole of the new kernel is there.
LEMMA WriteSystemKeeps ==
  ASSUME Shapes, Written, Configured, WriteSystem
  PROVE  Configured'
  <1>1. /\ stage = 7 /\ stage' = 7 /\ step = "system" /\ wiz' = wiz /\ selected' = selected
        /\ selected \in Disks /\ wiz.hostname # Nul
    BY DEF WriteSystem, answers, Shapes, Configured, LastStage
  <1>2. lba \in 0..LastLba /\ LastLba \in Nat /\ lba \in 0..AreaEnd /\ LastLba <= AreaEnd
        /\ AreaEnd \in Nat
    BY LastLbaInArea DEF Written
  <1>3. CASE lba < LastLba
    <2>1. step' = "system"
      BY <1>1, <1>3 DEF WriteSystem
    <2> QED BY <1>1, <2>1 DEF Configured, LastStage
  <1>4. CASE ~(lba < LastLba)
    <2>1. step' = "format" /\ lba = LastLba /\ WriteTo(lba)
      BY <1>2, <1>4 DEF WriteSystem, WriteTo
    <2>2. /\ disks'[selected].sys = [disks[selected].sys EXCEPT ![lba] = "new"]
          /\ disks[selected].sys \in [0..AreaEnd -> Releases \cup {"none"}]
      BY <1>1, <1>2, <2>1, AfterWrite DEF Shapes, IsDisk
    <2>3. \A l \in 0..(lba - 1) : disks[selected].sys[l] = "new"
      BY <1>1 DEF Written
    <2>4. \A l \in 0..LastLba : disks'[selected].sys[l] = "new"
      BY <1>2, <2>1, <2>2, <2>3
    <2> QED BY <1>1, <2>1, <2>4 DEF Configured, LastStage, LastLba
  <1> QED BY <1>3, <1>4

LEMMA NextJInv ==
  ASSUME IInv, IInv', JInv, [Next]_vars
  PROVE  JInv'
  <1> USE DEF IInv, JInv
  <1>1. CASE PowerOn
    <2>1. /\ stage' = 0 /\ wiz' = FirstAnswers /\ step' = "system" /\ todo' = <<>>
          /\ nodes' = FreshTable /\ disks' = disks /\ boots' = boots + 1 /\ boots < MaxBoots
      BY <1>1 DEF PowerOn, media
    <2>2. boots' \in 0..MaxBoots
      BY <2>1, InstallerAssumption DEF Typed
    <2>3. todo' \in Seq(Calls(wiz')) /\ Len(todo') <= 15
      BY <2>1
    <2>4. Typed'
      BY <2>1, <2>2, <2>3, FirstAnswersAreAnswers, FreshIsSane DEF Typed
    <2> QED BY <2>1, <2>4 DEF Configured, LastStage
  <1>2. CASE Answer
    <2>1. /\ stage \in 0..6 /\ stage' \in Halted..7
          /\ step' = step /\ todo' = todo /\ nodes' = nodes /\ disks' = disks /\ boots' = boots
      BY <1>2, AnswersWriteNothing DEF work, media
    <2>2. Answers(wiz') /\ (stage' \in 3..LastStage => wiz'.hostname # Nul)
      BY <1>2, AnswersStayAnswers DEF Typed, Configured
    <2>3. step = "system" /\ todo = <<>>
      BY <2>1 DEF Written, Typed
    <2>4. Typed'
      BY <2>1, <2>2, <2>3 DEF Typed
    <2> QED BY <2>1, <2>2, <2>3, <2>4 DEF Configured, LastStage, Halted
  <1>3. CASE Install
    <2>1. \A d \in Disks : disks'[d].fs \in Images
      BY <1>3, InstallKeepsImages
    <2>2. stage = 7 /\ stage' \in {7, LastStage, Halted} /\ wiz' = wiz
      BY <1>3, InstallKinds DEF answers
    <2>3. boots' = boots
      BY <1>3 DEF Install, TooSmall, WriteSystem, WriteSystemFails, Format, Configure, Save
    <2>4. ASSUME Sane(nodes'), step' \in {"system", "format", "configure"},
                 todo' \in Seq(Calls(wiz)), Len(todo') <= 15
          PROVE  Typed'
      BY <2>1, <2>2, <2>3, <2>4 DEF Typed, LastStage, Halted
    <2>5. ASSUME UNCHANGED <<nodes, todo>>, step' \in {"system", "format", "configure"}
          PROVE  Typed'
      BY <2>4, <2>5 DEF Typed
    <2>6. CASE TooSmall
      BY <2>5, <2>6 DEF TooSmall, work, Typed, Configured, Halted, LastStage
    <2>7. CASE WriteSystem
      <3>1. UNCHANGED <<nodes, todo>> /\ step' \in {"system", "format", "configure"}
        BY <2>7 DEF WriteSystem
      <3> QED BY <2>5, <2>7, <3>1, WriteSystemKeeps
    <2>8. CASE WriteSystemFails
      BY <2>5, <2>8 DEF WriteSystemFails, work, Typed, Configured, Halted, LastStage
    <2>9. CASE Format
      BY <2>4, <2>9, FormatKeeps
    <2>10. CASE Configure
      <3>1. step' \in {"system", "format", "configure"}
        BY <2>10 DEF Configure, Typed
      <3> QED BY <2>4, <2>10, <3>1, ConfigureKeeps
    <2>11. CASE Save
      <3>1. UNCHANGED <<nodes, todo>> /\ step' \in {"system", "format", "configure"}
        BY <2>11 DEF Save, work, Typed
      <3> QED BY <2>5, <2>11, <3>1, SaveKeeps
    <2> QED BY <1>3, <2>6, <2>7, <2>8, <2>9, <2>10, <2>11 DEF Install
  <1>4. CASE PowerOnDiskless \/ Complete
    <2>1. /\ stage' = Halted /\ UNCHANGED <<answers, selected, work, media>>
          /\ boots' \in 0..MaxBoots
      BY <1>4, InstallerAssumption DEF PowerOnDiskless, Complete, Typed
    <2> QED BY <2>1 DEF Typed, Configured, Halted, LastStage, answers, work, media
  <1>5. CASE UNCHANGED vars
    BY <1>5 DEF vars, answers, work, media, Typed, Configured, LastLba
  <1> QED BY <1>1, <1>2, <1>3, <1>4, <1>5 DEF Next

\* What the calls of stage_install have made of the table at every step, for any
\* disks, answers, kernels and any table that holds the system (installer.c 618-790).
THEOREM ConfigurationInvariant == Spec => [](IInv /\ JInv)
  <1>1. IInv /\ JInv /\ [Next]_vars => (IInv /\ JInv)'
    BY NextInv, NextJInv
  <1> QED BY <1>1, InitInv, InitJInv, PTL DEF Spec

\* Stages, answers, sectors, tables and images have their types; no sector beyond
\* the kernel is written.
THEOREM InstallerTypeCorrect == Spec => []TypeOK
  <1>1. IInv /\ JInv => TypeOK
    <2> SUFFICES ASSUME IInv, JInv PROVE TypeOK
      OBVIOUS
    <2>1. wiz \in [disk : {-1} \cup Disks, hostname : HostNames, timezone : Zones,
                   root_pw : Passwords, username : UserNames, user_pw : Passwords]
      BY DEF IInv, Shapes, JInv, Typed, Answers
    <2>2. stage \in Halted..LastStage /\ selected \in Disks
      BY DEF IInv, Shapes, Stages
    <2>3. Len(todo) <= Len(Plan(wiz)) /\ nodes \in Tables
      BY PlanIs DEF JInv, Typed, Sane, Neat
    <2>4. \A d \in Disks : /\ disks[d].sys \in [0..AreaEnd -> Releases \cup {"none"}]
                           /\ \/ disks[d].fs = Nothing
                              \/ disks[d].fs \in [version : {1, 2}, table : Tables]
      BY DEF IInv, Shapes, IsDisk, JInv, Typed, Images
    <2>5. lba \in 0..(Info + Sectors["new"]) /\ cut \subseteq Disks /\ agreed \subseteq {"root", "user"}
      BY DEF IInv, Written, Settled, LastLba
    <2>6. step \in {"system", "format", "configure"} /\ boots \in 0..MaxBoots
      BY DEF JInv, Typed
    <2> QED BY <2>1, <2>2, <2>3, <2>4, <2>5, <2>6 DEF TypeOK
  <1> QED BY <1>1, ConfigurationInvariant, PTL

\* "Installation Complete!" means it: the disk boots the new kernel, and a load finds
\* what the user was asked for (installer.c 618-790, 808-825).
THEOREM CompleteIsInstalled == Spec => []CompleteMeansInstalled
  <1>1. IInv /\ JInv => CompleteMeansInstalled
    <2> SUFFICES ASSUME IInv, JInv, stage = LastStage PROVE CompleteMeansInstalled
      BY DEF CompleteMeansInstalled
    <2> DEFINE d == disks[wiz.disk]
               t == Decode(d.fs)
    <2>1. wiz.disk = selected /\ selected \in Disks
      BY DEF IInv, Settled, Shapes, LastStage
    <2>2. /\ \A l \in 0..LastLba : d.sys[l] = "new"
          /\ step = "configure" /\ todo = <<>> /\ d.fs = Image(2, nodes)
          /\ wiz.hostname # Nul /\ Planted(nodes, 15 - Len(todo), wiz)
      BY <2>1 DEF JInv, Configured, LastStage
    <2>3. Planted(nodes, 15, wiz)
      <3>1. 15 - Len(<<>>) = 15
        OBVIOUS
      <3> QED BY <2>2, <3>1
    <2>4. Decodes(d.fs) /\ Planted(t, 15, wiz)
      BY <2>2, <2>3, LoadedBack
    <2>5. d.fs # Nothing
      BY <2>2 DEF Image, Nothing
    <2>6. Loaded(d.sys) = [i \in 1..Sectors["new"] |-> "new"]
      <3>1. d.sys[0] = "new" /\ d.sys[Info] = "new" /\ Sectors["new"] \in Nat \ {0}
        BY <2>2, AreaHoldsKernels DEF LastLba, Info, Releases
      <3>2. \A i \in 1..Sectors["new"] : d.sys[Info + i] = "new"
        BY <2>2, <3>1 DEF LastLba, Info
      <3> HIDE DEF d
      <3> QED BY <3>1, <3>2 DEF Loaded
    <2>7. Answers(wiz)
      BY DEF JInv, Typed
    <2> HIDE DEF t
    <2>8. LET home == Resolve(t, 0, <<"home">> \o wiz.username)
          IN  /\ SiblingsDistinct(t) /\ RootIntact(t)
              /\ Takes(wiz.username, "hostname") \/ Holds(t, <<"etc", "hostname">>, wiz.hostname)
              /\ Takes(wiz.username, "timezone") \/ Holds(t, <<"etc", "timezone">>, wiz.timezone)
              /\ Ordinary(wiz.username) =>
                   /\ Rooted(t)
                   /\ IsLiveDir(t, home) /\ t[home].owner = Debian
                   /\ Reads(t, home, <<".bashrc">>)
      BY <2>4, <2>7, PlantedIsInstalled
    <2> HIDE DEF d
    <2> QED BY <2>2, <2>4, <2>5, <2>6, <2>8 DEF CompleteMeansInstalled, d, t
  <1> QED BY <1>1, ConfigurationInvariant, PTL
=============================================================================
