--------------------------- MODULE DiskStoreProofs ---------------------------
(***************************************************************************)
(* Proofs about DiskStore for any payload size, any images, whether the    *)
(* checksum tells them apart or not, either interface and any number of    *)
(* saves, faults and power losses.                                         *)
(***************************************************************************)
EXTENDS DiskStore, TLAPS

\* A header on a disk was written for one of the candidates, and every sector
\* behind it is of one of them.
Known(d, C) ==
  /\ d.hdr = Blank \/ \E h \in C : HasMagic(h) /\ d.hdr = Header(h)
  /\ \A s \in Payload : \E h \in C : d.pay[s] = h[s]

SectorsKnown == Known(view, cands) /\ Known(platter, cands)

\* How far a save has come: the sectors before idx read back as written.
SaveProgress ==
  /\ pc \in {"header", "payload"} =>
       /\ buf \in cands
       /\ buf = mem
       /\ synced = Nothing
       /\ ret = "none"
  /\ pc = "header" => idx = 1
  /\ pc = "payload" =>
       /\ view.hdr = Header(buf)
       /\ \A s \in Payload : s < idx => view.pay[s] = buf[s]

\* While nothing was written since a flush, the drive's cache hides nothing.
SyncedOnDisk ==
  synced # Nothing => /\ platter = Encode(synced)
                      /\ view = Encode(synced)

\* A saved table reads back whole.
SavedOnDisk == ret = "saved" => view = Encode(mem)

\* The inductive invariant.
IInv ==
  /\ TypeOK
  /\ SectorsKnown
  /\ SaveProgress
  /\ SyncedOnDisk
  /\ SavedOnDisk
  /\ LoadReturnsCandidate

------------------------------------------------------------------------------
(* Disk contents *)

\* The disk of a completely saved image, and the blank one.
LEMMA WholeDisks ==
  /\ BlankDisk \in Disks
  /\ \A img \in Tables : Encode(img) \in Disks
  BY StoreAssumption DEF BlankDisk, Disks, Encode, Tables

\* Writing one sector of an image onto a disk.
LEMMA SectorWrite ==
  ASSUME NEW d \in Disks, NEW img \in Payloads, NEW s \in Payload
  PROVE  [d EXCEPT !.pay[s] = img[s]] \in Disks
  BY DEF Disks, Payloads

\* Moving one sector from disk e to disk d.
LEMMA SectorCopy ==
  ASSUME NEW d \in Disks, NEW e \in Disks, NEW s \in Payload
  PROVE  /\ [d EXCEPT !.hdr = e.hdr] \in Disks
         /\ [d EXCEPT !.pay[s] = e.pay[s]] \in Disks
  BY DEF Disks, Payloads

\* What an accepting load takes is readable.
LEMMA IntactIsReadable ==
  ASSUME NEW d \in Disks, NEW C, Known(d, C), Intact(d), HasRoot(d.pay)
  PROVE  d.pay \in Readable(C) /\ d.pay \in Tables
<1>1. d.hdr # Blank
  BY DEF Intact, Header, Blank
<1>2. PICK h \in C : HasMagic(h) /\ d.hdr = Header(h)
  BY <1>1 DEF Known
<1>3. Checksum(h) = Checksum(d.pay)
  BY <1>2 DEF Intact, Header
<1>4. d.pay \in Payloads
  BY DEF Disks
<1>5. HasMagic(d.pay)
  BY StoreAssumption DEF HasRoot, HasMagic
<1>. QED
  BY <1>2, <1>3, <1>4, <1>5 DEF Readable, Known, Tables

------------------------------------------------------------------------------
(* The inductive invariant *)

LEMMA InitIInv == Init => IInv
<1> SUFFICES ASSUME Init PROVE IInv
  OBVIOUS
<1> USE StoreAssumption DEF Init
<1>1. Images \subseteq Tables /\ Tables \subseteq Payloads
  BY DEF Tables
<1>2. /\ view \in Disks /\ platter \in Disks /\ cands \subseteq Payloads
      /\ synced \in Tables \cup {Nothing}
  BY <1>1, WholeDisks
<1>3. TypeOK
  <2>1. selected \in {"none"} \cup Interfaces
    BY Zenon
  <2>2. /\ idx \in 1..NSectors + 1
        /\ saves \in 0..MaxSaves /\ faults \in 0..MaxFaults /\ crashes \in 0..MaxCrashes
    OBVIOUS
  <2>3. mem \in Tables /\ buf \in Tables
    BY <1>1
  <2>. QED
    BY <1>2, <2>1, <2>2, <2>3 DEF TypeOK
<1>4. SectorsKnown
  <2>1. CASE platter = BlankDisk /\ cands = {Unwritten}
    BY <2>1 DEF SectorsKnown, Known, BlankDisk
  <2>2. ASSUME NEW img \in Images, platter = Encode(img), cands = {img}
        PROVE  SectorsKnown
    BY <1>1, <2>2 DEF SectorsKnown, Known, Encode, Tables
  <2>. QED
    BY <2>1, <2>2
<1>5. SaveProgress /\ SavedOnDisk /\ LoadReturnsCandidate
  BY DEF SaveProgress, SavedOnDisk, LoadReturnsCandidate
<1>6. SyncedOnDisk
  BY DEF SyncedOnDisk
<1>. QED
  BY <1>3, <1>4, <1>5, <1>6 DEF IInv

\* The steps that leave the disk alone and end in an idle or switched-off machine.
LEMMA QuietSteps ==
  ASSUME IInv, PowerOn \/ Edit
  PROVE  IInv'
<1> USE DEF IInv
<1>1. TypeOK'
  BY StoreAssumption DEF TypeOK, PowerOn, Edit, drive, ghosts, bounds
<1>2. SectorsKnown' /\ SyncedOnDisk'
  BY DEF SectorsKnown, SyncedOnDisk, PowerOn, Edit, drive, ghosts
<1>3. SaveProgress' /\ SavedOnDisk' /\ LoadReturnsCandidate'
  BY DEF SaveProgress, SavedOnDisk, LoadReturnsCandidate, PowerOn, Edit
<1>. QED
  BY <1>1, <1>2, <1>3

LEMMA BeginSaveStep ==
  ASSUME IInv, NEW table \in Tables, table = mem \/ table = Fresh, BeginSave(table)
  PROVE  IInv'
<1> USE DEF IInv
<1>1. TypeOK'
  BY StoreAssumption DEF TypeOK, BeginSave, Tables, drive, ghosts, bounds
<1>2. SectorsKnown'
  BY DEF SectorsKnown, Known, BeginSave, drive, ghosts
<1>3. SyncedOnDisk'
  BY DEF SyncedOnDisk, BeginSave, drive, ghosts
<1>4. SaveProgress'
  BY DEF SaveProgress, BeginSave, TypeOK, drive, ghosts
<1>5. SavedOnDisk' /\ LoadReturnsCandidate'
  BY DEF SavedOnDisk, LoadReturnsCandidate, BeginSave
<1>. QED
  BY <1>1, <1>2, <1>3, <1>4, <1>5

LEMMA SaveHeaderStep == ASSUME IInv, SaveHeader PROVE IInv'
<1> USE DEF IInv
<1>1. view \in Disks /\ buf \in Tables /\ view' = [view EXCEPT !.hdr = Header(buf)]
  BY DEF TypeOK, SaveHeader, WriteHeader
<1>2. view' \in Disks /\ view'.hdr = Header(buf) /\ view'.pay = view.pay
  BY <1>1 DEF Disks
<1>3. HasMagic(buf) /\ buf \in cands
  BY <1>1 DEF Tables, SaveProgress, SaveHeader
<1>4. TypeOK'
  BY <1>2, StoreAssumption DEF TypeOK, SaveHeader, ghosts, bounds
<1>5. SectorsKnown' /\ SaveProgress'
  <2>1. SectorsKnown'
    BY <1>2, <1>3 DEF SectorsKnown, Known, SaveHeader, ghosts
  <2>2. SaveProgress'
    BY <1>2, StoreAssumption DEF SaveProgress, SaveHeader, ghosts, Payload
  <2>. QED
    BY <2>1, <2>2
<1>6. SyncedOnDisk' /\ SavedOnDisk' /\ LoadReturnsCandidate'
  BY DEF SyncedOnDisk, SavedOnDisk, LoadReturnsCandidate, SaveProgress, SaveHeader, ghosts
<1>. QED
  BY <1>4, <1>5, <1>6

LEMMA SaveSectorStep == ASSUME IInv, SaveSector PROVE IInv'
<1> USE DEF IInv
<1>1. view \in Disks /\ buf \in Tables /\ view' = [view EXCEPT !.pay[idx] = buf[idx]]
  BY DEF TypeOK, SaveSector, WritePayload
<1>2. view' \in Disks
  BY <1>1, SectorWrite DEF SaveSector, Tables
<1>3. /\ view'.hdr = view.hdr
      /\ \A s \in Payload : view'.pay[s] = IF s = idx THEN buf[idx] ELSE view.pay[s]
  BY <1>1 DEF Disks, Payloads, SaveSector
<1>4. TypeOK'
  BY <1>2, StoreAssumption DEF TypeOK, SaveSector, ghosts, bounds, Payload
<1>5. SectorsKnown'
  BY <1>3 DEF SectorsKnown, Known, SaveProgress, SaveSector, ghosts
<1>6. SaveProgress'
  BY <1>3, StoreAssumption DEF SaveProgress, SaveSector, ghosts, Payload
<1>7. SyncedOnDisk' /\ SavedOnDisk' /\ LoadReturnsCandidate'
  BY DEF SyncedOnDisk, SavedOnDisk, LoadReturnsCandidate, SaveProgress, SaveSector, ghosts
<1>. QED
  BY <1>4, <1>5, <1>6, <1>7

LEMMA WriteFailsStep == ASSUME IInv, WriteFails PROVE IInv'
<1> USE DEF IInv
<1>1. CASE view' = view
  <2>1. TypeOK'
    BY <1>1, StoreAssumption DEF TypeOK, WriteFails, ghosts
  <2>. QED
    BY <1>1, <2>1 DEF SectorsKnown, SaveProgress, SyncedOnDisk, SavedOnDisk,
                 LoadReturnsCandidate, WriteFails, ghosts
<1>2. CASE pc = "header" /\ WriteHeader
  <2>1. view' \in Disks /\ view'.hdr = Header(buf) /\ view'.pay = view.pay
    BY <1>2 DEF TypeOK, WriteHeader, Disks
  <2>2. TypeOK'
    BY <2>1, StoreAssumption DEF TypeOK, WriteFails, ghosts
  <2>3. SectorsKnown'
    BY <1>2, <2>1 DEF SectorsKnown, Known, SaveProgress, TypeOK, Tables, WriteFails, ghosts
  <2>. QED
    BY <1>2, <2>2, <2>3 DEF SaveProgress, SyncedOnDisk, SavedOnDisk,
                       LoadReturnsCandidate, WriteFails, ghosts
<1>3. CASE pc = "payload" /\ idx \in Payload /\ WritePayload(idx)
  <2>1. view \in Disks /\ buf \in Payloads /\ view' = [view EXCEPT !.pay[idx] = buf[idx]]
    BY <1>3 DEF TypeOK, WritePayload, Tables
  <2>2. view' \in Disks
    BY <1>3, <2>1, SectorWrite
  <2>3. /\ view'.hdr = view.hdr
         /\ \A s \in Payload : view'.pay[s] = IF s = idx THEN buf[idx] ELSE view.pay[s]
    BY <1>3, <2>1 DEF Disks, Payloads
  <2>4. TypeOK'
    BY <2>2, StoreAssumption DEF TypeOK, WriteFails, ghosts
  <2>5. SectorsKnown'
    BY <1>3, <2>3 DEF SectorsKnown, Known, SaveProgress, WriteFails, ghosts
  <2>. QED
    BY <1>3, <2>4, <2>5 DEF SaveProgress, SyncedOnDisk, SavedOnDisk,
                       LoadReturnsCandidate, WriteFails, ghosts
<1>. QED
  BY <1>1, <1>2, <1>3 DEF WriteFails

\* When every sector is written the disk reads back as the whole image.
LEMMA WholeImageWritten ==
  ASSUME IInv, pc = "payload", idx \notin Payload
  PROVE  view = Encode(buf)
<1>1. idx = NSectors + 1
  BY StoreAssumption DEF IInv, TypeOK, Payload
<1>2. view.hdr = Header(buf) /\ \A s \in Payload : view.pay[s] = buf[s]
  BY <1>1, StoreAssumption DEF IInv, SaveProgress, Payload
<1>3. view \in Disks /\ buf \in Payloads
  BY DEF IInv, TypeOK, Tables
<1>4. view.pay = buf
  BY <1>2, <1>3 DEF Disks, Payloads
<1>. QED
  BY <1>2, <1>3, <1>4 DEF Encode, Disks

LEMMA SaveReturnsStep == ASSUME IInv, SaveReturns PROVE IInv'
<1> USE DEF IInv
<1>1. view = Encode(buf) /\ buf = mem /\ view' = view
  BY WholeImageWritten DEF SaveReturns, SaveProgress, FlushIde, FlushIdeFails, FlushAhci, drive
<1>2. TypeOK'
  BY <1>1, StoreAssumption DEF TypeOK, Tables, SaveReturns, FlushIde, FlushIdeFails, FlushAhci, drive, ghosts
<1>3. SectorsKnown'
  <2>1. CASE FlushIde
    BY <1>1, <2>1 DEF SectorsKnown, Known, Encode, TypeOK, Tables, FlushIde
  <2>2. CASE FlushIdeFails \/ FlushAhci
    BY <2>2 DEF SectorsKnown, Known, FlushIdeFails, FlushAhci, drive, ghosts
  <2>. QED
    BY <2>1, <2>2 DEF SaveReturns
<1>4. SyncedOnDisk'
  BY <1>1 DEF SyncedOnDisk, SaveProgress, SaveReturns, FlushIde, FlushIdeFails, FlushAhci, drive, ghosts
<1>5. SaveProgress' /\ SavedOnDisk' /\ LoadReturnsCandidate'
  BY <1>1 DEF SaveProgress, SavedOnDisk, LoadReturnsCandidate, SaveReturns
<1>. QED
  BY <1>2, <1>3, <1>4, <1>5

LEMMA LoadStep == ASSUME IInv, Load PROVE IInv'
<1> USE DEF IInv
<1>1. LoadAccepts => /\ view.pay \in Readable(cands) /\ view.pay \in Tables
                     /\ mem' = view.pay
  BY IntactIsReadable DEF LoadAccepts, TypeOK, SectorsKnown
<1>2. TypeOK'
  BY <1>1, StoreAssumption
  DEF TypeOK, Load, LoadError, LoadRootless, LoadAccepts, drive, ghosts
<1>3. SectorsKnown' /\ SyncedOnDisk'
  BY DEF SectorsKnown, SyncedOnDisk, Load, drive, ghosts
<1>4. SaveProgress' /\ SavedOnDisk'
  BY DEF SaveProgress, SavedOnDisk, Load, LoadError, LoadRootless, LoadAccepts
<1>5. LoadReturnsCandidate'
  BY <1>1 DEF LoadReturnsCandidate, Load, LoadError, LoadRootless, LoadAccepts, ghosts
<1>. QED
  BY <1>2, <1>3, <1>4, <1>5

LEMMA DestageStep ==
  ASSUME IInv, DestageHeader \/ \E s \in Payload : DestagePayload(s)
  PROVE  IInv'
<1> USE DEF IInv
<1>1. platter' \in Disks /\ (platter'.hdr = platter.hdr \/ platter'.hdr = view.hdr)
  <2>1. CASE DestageHeader
    BY <2>1, SectorCopy DEF TypeOK, DestageHeader, Disks
  <2>2. ASSUME NEW s \in Payload, DestagePayload(s)
        PROVE  <1>1
    BY <2>2, SectorCopy DEF TypeOK, DestagePayload, Disks
  <2>. QED
    BY <2>1, <2>2
<1>2. synced = Nothing
  BY DEF SyncedOnDisk, DestageHeader, DestagePayload
<1>3. UNCHANGED <<system, view, ghosts, bounds>>
  BY DEF DestageHeader, DestagePayload
<1>4. TypeOK'
  BY <1>1, <1>3 DEF TypeOK, system, ghosts, bounds
<1>5. SectorsKnown' /\ SyncedOnDisk'
  <2>1. \A s \in Payload : platter'.pay[s] = platter.pay[s] \/ platter'.pay[s] = view.pay[s]
    BY DEF DestageHeader, DestagePayload, TypeOK, Disks, Payloads
  <2>2. SectorsKnown'
    BY <1>1, <1>3, <2>1 DEF SectorsKnown, Known, ghosts
  <2>. QED
    BY <1>2, <1>3, <2>2 DEF SyncedOnDisk, ghosts
<1>6. SaveProgress' /\ SavedOnDisk' /\ LoadReturnsCandidate'
  BY <1>3 DEF SaveProgress, SavedOnDisk, LoadReturnsCandidate, system, ghosts
<1>. QED
  BY <1>4, <1>5, <1>6

LEMMA CrashStep == ASSUME IInv, Crash PROVE IInv'
<1> USE DEF IInv
<1>1. TypeOK'
  <2>1. selected' \in {"none"} \cup Interfaces
    BY Zenon DEF Crash
  <2>2. idx' \in 1..NSectors + 1 /\ crashes' \in 0..MaxCrashes
    BY StoreAssumption DEF TypeOK, Crash
  <2>3. UNCHANGED <<platter, cands, synced, saves, faults>> /\ view' = platter
    BY DEF Crash, ghosts
  <2>4. mem' \in Tables /\ buf' \in Tables /\ pc' = "off" /\ ret' = "none"
    BY StoreAssumption DEF Crash
  <2>. QED
    BY <2>1, <2>2, <2>3, <2>4 DEF TypeOK
<1>2. SectorsKnown' /\ SyncedOnDisk'
  BY DEF SectorsKnown, SyncedOnDisk, Crash, ghosts
<1>3. SaveProgress' /\ SavedOnDisk' /\ LoadReturnsCandidate'
  BY DEF SaveProgress, SavedOnDisk, LoadReturnsCandidate, Crash
<1>. QED
  BY <1>1, <1>2, <1>3

LEMMA NextIInv == ASSUME IInv, [Next]_vars PROVE IInv'
<1>1. CASE PowerOn \/ Edit
  BY <1>1, QuietSteps
<1>2. CASE Save \/ Format
  BY <1>2, BeginSaveStep, StoreAssumption DEF Save, Format, IInv, TypeOK
<1>3. CASE SaveHeader
  BY <1>3, SaveHeaderStep
<1>4. CASE SaveSector
  BY <1>4, SaveSectorStep
<1>5. CASE WriteFails
  BY <1>5, WriteFailsStep
<1>6. CASE SaveReturns
  BY <1>6, SaveReturnsStep
<1>7. CASE Load
  BY <1>7, LoadStep
<1>8. CASE DestageHeader \/ \E s \in Payload : DestagePayload(s)
  BY <1>8, DestageStep
<1>9. CASE Crash
  BY <1>9, CrashStep
<1>10. CASE UNCHANGED vars
  BY <1>10 DEF IInv, TypeOK, SectorsKnown, SaveProgress, SyncedOnDisk, SavedOnDisk,
     LoadReturnsCandidate, vars, system, drive, ghosts, bounds
<1>. QED
  BY <1>1, <1>2, <1>3, <1>4, <1>5, <1>6, <1>7, <1>8, <1>9, <1>10 DEF Next

------------------------------------------------------------------------------
(* The theorems *)

\* The inductive invariant holds of every behaviour of the disk code.
THEOREM DiskInvariant == Spec => []IInv
<1>1. Init => IInv
  BY InitIInv
<1>2. IInv /\ [Next]_vars => IInv'
  BY NextIInv
<1>. QED
  BY <1>1, <1>2, PTL DEF Spec

\* What disk_load_fs gives the shell is made of sectors no older than the last
\* flushed image and has the sum of an image saved since: after an interrupted save
\* that is a whole image, unless the plain sum of another mixture equals one.
THEOREM LoadIsWhole == Spec => []LoadReturnsCandidate
<1>1. IInv => LoadReturnsCandidate
  BY DEF IInv
<1>. QED
  BY <1>1, DiskInvariant, PTL

\* Types: the table in memory always begins with the magic, whatever the sectors are.
THEOREM TypeCorrect == Spec => []TypeOK
<1>1. IInv => TypeOK
  BY DEF IInv
<1>. QED
  BY <1>1, DiskInvariant, PTL

\* A load makes of a completely saved image the image, if it has a root.
LEMMA ContentOfEncode ==
  ASSUME NEW img \in Payloads
  PROVE  Content(Encode(img)) = IF HasRoot(img) THEN img ELSE Nothing
  BY DEF Content, Intact, Encode

\* A flushed image survives every later power loss (disk_save_fs, ata_flush).
THEOREM FlushedSurvives == Spec => []FlushedImageSurvives
<1>1. IInv => FlushedImageSurvives
  BY ContentOfEncode DEF IInv, TypeOK, Tables, SyncedOnDisk, FlushedImageSurvives
<1>. QED
  BY <1>1, DiskInvariant, PTL

\* After disk_save_fs returned 0 a load of the same power session reads the table back.
THEOREM SavedReadsBack == Spec => []SavedIsReadable
<1>1. IInv => SavedIsReadable
  BY ContentOfEncode DEF IInv, TypeOK, Tables, SavedOnDisk, SavedIsReadable
<1>. QED
  BY <1>1, DiskInvariant, PTL

------------------------------------------------------------------------------
(* DiskStore implements ImageStore *)

LEMMA ImageIsSomething == \A img \in Payloads : img # Nothing
<1> SUFFICES ASSUME NEW img \in Payloads, img = Nothing PROVE FALSE
  OBVIOUS
<1>1. DOMAIN img = Payload /\ 1 \in Payload
  BY StoreAssumption DEF Payload, Payloads
<1>2. DOMAIN Nothing = {}
  BY DEF Nothing
<1>. QED
  BY <1>1, <1>2

\* What a load makes of a payload written whole.
LEMMA WholeIsContent ==
  ASSUME NEW img \in Tables
  PROVE  Store!Whole(img) = Content(Encode(img))
<1>1. img \in Payloads /\ HasMagic(img)
  BY DEF Tables
<1>2. img \in Readable({img}) <=> HasRoot(img)
  BY <1>1 DEF Readable
<1>. QED
  BY <1>1, <1>2, ContentOfEncode DEF Store!Whole

\* Whatever the disk holds, a load finds something readable or nothing.
LEMMA ContentIsReadable == IInv => Content(view) \in Readable(cands) \cup {Nothing}
  BY IntactIsReadable DEF Content, IInv, TypeOK, SectorsKnown

LEMMA ContentIsReadableNext == IInv' => (Content(view) \in Readable(cands) \cup {Nothing})'
  BY ContentIsReadable, PTL

LEMMA InitRefines == Init => Store!Init
<1> SUFFICES ASSUME Init PROVE Store!Init
  OBVIOUS
<1>1. CASE platter = BlankDisk /\ cands = {Unwritten} /\ synced = Nothing
  <2>1. Content(view) = Nothing
    BY <1>1 DEF Init, Content, Intact, BlankDisk, Blank, Header
  <2>. QED
    BY <1>1, <2>1, StoreAssumption DEF Init, Store!Init
<1>2. ASSUME NEW img \in Images, platter = Encode(img), cands = {img}, synced = img
      PROVE  Store!Init
  <2>1. img \in Tables /\ img \in Payloads
    BY StoreAssumption DEF Tables
  <2>2. Content(view) = Store!Whole(img)
    BY <1>2, <2>1, WholeIsContent DEF Init
  <2>. QED
    BY <1>2, <2>1, <2>2, ImageIsSomething DEF Init, Store!Init
<1>. QED
  BY <1>1, <1>2 DEF Init

LEMMA StepRefines ==
  ASSUME IInv, IInv', [Next]_vars
  PROVE  [Store!Next]_(Store!vars)
<1> USE DEF Store!Next, Store!vars
<1>1. CASE PowerOn \/ Edit
  BY <1>1, StoreAssumption DEF PowerOn, Edit, Tables, drive, ghosts, Store!Change
<1>2. ASSUME NEW table \in {mem, Fresh}, BeginSave(table)
      PROVE  [Store!Next]_(Store!vars)
  <2>1. table \in Tables
    BY StoreAssumption DEF IInv, TypeOK, Tables
  <2>. QED
    BY <1>2, <2>1 DEF BeginSave, drive, ghosts, Store!Change, Store!Begin
<1>3. CASE SaveHeader \/ SaveSector \/ WriteFails
  <2>1. synced = Nothing /\ UNCHANGED <<mem, cands, synced>>
    BY <1>3 DEF SaveHeader, SaveSector, WriteFails, ghosts, IInv, SaveProgress
  <2>2. Content(view)' \in Readable(cands)' \cup {Nothing}
    BY <2>1, ContentIsReadableNext
  <2>3. Readable(cands)' = Readable(cands)
    BY <2>1 DEF Readable
  <2>. QED
    BY <2>1, <2>2, <2>3 DEF Store!Drift
<1>4. CASE SaveReturns
  <2>1. CASE FlushIde
    <3>1. /\ Content(view) = Store!Whole(buf)
          /\ buf \in Payloads /\ buf \in cands
          /\ UNCHANGED <<mem, view>>
      BY <1>4, <2>1, WholeImageWritten, WholeIsContent
      DEF SaveReturns, FlushIde, IInv, TypeOK, SaveProgress, Tables
    <3>2. cands' = {buf} /\ synced' # Nothing
      BY <2>1, <3>1, ImageIsSomething DEF FlushIde
    <3>. QED
      BY <3>1, <3>2 DEF Store!Settle
  <2>2. CASE FlushIdeFails \/ FlushAhci
    BY <1>4, <2>2 DEF SaveReturns, FlushIdeFails, FlushAhci, drive, ghosts
  <2>. QED
    BY <1>4, <2>1, <2>2 DEF SaveReturns
<1>5. CASE Load
  <2>1. UNCHANGED <<view, cands, synced>>
    BY <1>5 DEF Load, drive, ghosts
  <2>2. CASE LoadError
    BY <2>1, <2>2 DEF LoadError
  <2>3. CASE LoadRootless
    BY <2>1, <2>3, StoreAssumption DEF LoadRootless, Store!Change, Tables
  <2>4. CASE LoadAccepts
    <3>1. Content(view) = view.pay /\ view.pay \in Payloads
      BY <2>4 DEF LoadAccepts, Content, IInv, TypeOK, Disks
    <3>. QED
      BY <2>1, <2>4, <3>1, ImageIsSomething DEF LoadAccepts, Store!Restore
  <2>. QED
    BY <1>5, <2>2, <2>3, <2>4 DEF Load
<1>6. CASE DestageHeader \/ \E s \in Payload : DestagePayload(s)
  BY <1>6 DEF DestageHeader, DestagePayload, system, ghosts
<1>7. CASE Crash
  <2>1. mem' = Fresh /\ UNCHANGED <<cands, synced>> /\ view' = platter
    BY <1>7 DEF Crash, ghosts
  <2>2. CASE synced # Nothing
    BY <2>1, <2>2 DEF IInv, SyncedOnDisk, Store!PowerLoss
  <2>3. CASE synced = Nothing
    <3>1. Content(view)' \in Readable(cands)' \cup {Nothing}
      BY ContentIsReadableNext
    <3>2. Readable(cands)' = Readable(cands)
      BY <2>1 DEF Readable
    <3>. QED
      BY <2>1, <2>3, <3>1, <3>2 DEF Store!PowerLoss
  <2>. QED
    BY <2>2, <2>3
<1>8. CASE UNCHANGED vars
  BY <1>8 DEF vars, system, drive, ghosts
<1>. QED
  BY <1>1, <1>2, <1>3, <1>4, <1>5, <1>6, <1>7, <1>8 DEF Next, Save, Format

\* disk.c keeps the promise ImageStore states, for any payload size, any sectors and
\* sums of sectors, and any interface and bounds.
THEOREM DiskRefinesStore == Spec => ImplementsImageStore
<1>1. IInv /\ IInv' /\ [Next]_vars => [Store!Next]_(Store!vars)
  BY StepRefines
<1>. QED
  BY <1>1, InitRefines, DiskInvariant, PTL DEF Spec, ImplementsImageStore, Store!Spec
=============================================================================
