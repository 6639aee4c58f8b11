------------------------------ MODULE DiskStore ------------------------------
(***************************************************************************)
(* kernel/disk.c: the filesystem image on the selected disk.  The image is *)
(* a header sector (magic, size, checksum) at DISK_START_LBA and the       *)
(* serialized node table in the sectors that follow it.  disk_save_fs      *)
(* writes the header FIRST, then the payload sector by sector, and asks    *)
(* the drive to flush; disk_load_fs reads both back and compares the       *)
(* checksum.  The drive keeps written sectors in a volatile cache that it  *)
(* empties in any order (external); power may fail between any two steps.  *)
(*                                                                         *)
(* Of a sector the model knows the sum of its bytes, which is all that     *)
(* checksum_bytes sees of it, and what fs_deserialize looks for in the     *)
(* first one; different sectors may have one sum, zero among them.  The    *)
(* header sector is the 1-tuple of the checksum it carries, or Blank.  A   *)
(* node table is the payload fs_serialize makes of it.                     *)
(***************************************************************************)
EXTENDS Integers, Functions

CONSTANTS
  NSectors,    \* sectors of the payload (constant: the table has a fixed size)
  Sectors,     \* what a sector may hold
  ByteSum,     \* the sum of its bytes
  Marked,      \* the sectors that begin with the magic of a table
  RootMarked,  \* those of them that go on with a root: a directory in slot 0
  Images,      \* the node tables in play, as payloads
  Fresh,       \* the table fs_init makes
  Unwritten,   \* what a disk FurOS never wrote holds in their place
  Interfaces,  \* the controllers the disk may be attached to
  MaxSaves, MaxFaults, MaxCrashes      \* bounds of the search

Payload  == 1..NSectors                \* the payload sectors
Payloads == [Payload -> Sectors]
Blank    == <<>>                       \* a header without the FURDSK1 magic
Nothing  == <<>>                       \* no image

\* fs_deserialize asks for its magic before it touches the table, and for a root
\* when it has copied all nodes; both are in the first sector.
HasMagic(p) == p[1] \in Marked
HasRoot(p)  == p[1] \in RootMarked
Tables      == {p \in Payloads : HasMagic(p)}

ASSUME StoreAssumption ==
  /\ NSectors \in Nat \ {0}
  /\ ByteSum \in [Sectors -> Nat]
  /\ RootMarked \subseteq Marked
  /\ Images \subseteq Tables /\ Fresh \in Images /\ HasRoot(Fresh)
  /\ Unwritten \in Payloads
  /\ Interfaces \subseteq {"ide", "ahci"}
  /\ MaxSaves \in Nat /\ MaxFaults \in Nat /\ MaxCrashes \in Nat

VARIABLES
  mem,      \* the node table in memory
  selected, \* the controller of the selected disk, or "none": disk_available()
  view,     \* what reads of the disk return: the medium under the drive's cache
  platter,  \* the medium: what survives a power loss
  buf,      \* g_payload, during a save
  pc, idx,  \* where disk_save_fs is; the next payload sector to write
  ret,      \* what the last disk operation returned
  cands,    \* history: what was written since the last flush, and was there before
  synced,   \* history: the image last written and flushed, no save begun since
  saves, faults, crashes               \* counters behind the bounds

system == <<mem, selected, pc, idx, buf, ret>>
drive  == <<view, platter>>
ghosts == <<cands, synced>>
bounds == <<saves, faults, crashes>>
vars   == <<system, drive, ghosts, bounds>>

------------------------------------------------------------------------------
(* What is on a disk *)

\* checksum_bytes.  Its 32-bit sum cannot wrap: at most 4095 * 512 * 255 < 2^32.
Checksum(p) == SumFunction([s \in Payload |-> ByteSum[p[s]]])

Header(p) == <<Checksum(p)>>

\* The header is ours and the checksum agrees.
IntactUnchecked(d) == d.hdr # Blank      \* mutant: the checksum is not compared
Intact(d)  == d.hdr = Header(d.pay)

\* What disk_load_fs would take from disk d.
Content(d) == IF Intact(d) /\ HasRoot(d.pay) THEN d.pay ELSE Nothing

\* A completely saved image, and a disk FurOS never wrote.
Encode(img) == [hdr |-> Header(img), pay |-> img]
BlankDisk   == [hdr |-> Blank, pay |-> Unwritten]

------------------------------------------------------------------------------
\* The disk is blank or carries an image saved and flushed earlier.
Init ==
  /\ mem = Fresh
  /\ selected = "none"
  /\ pc = "off" /\ idx = 1
  /\ buf = Fresh
  /\ ret = "none"
  /\ \/ platter = BlankDisk /\ cands = {Unwritten} /\ synced = Nothing
     \/ \E img \in Images :
          platter = Encode(img) /\ cands = {img} /\ synced = img
  /\ view = platter
  /\ saves = 0 /\ faults = 0 /\ crashes = 0

\* Boot up to fs_init and disk_init; whether ata_scan finds the disk, and
\* behind which controller, is up to the hardware.
PowerOn ==
  /\ pc = "off"
  /\ pc' = "idle"
  /\ mem' = Fresh
  /\ selected' \in {"none"} \cup Interfaces
  /\ ret' = "none"
  /\ UNCHANGED <<buf, idx, drive, ghosts, bounds>>

\* Any caller of fs.c changes the table; a reset that came while fs_deserialize was
\* copying may have left one without a root.
Edit ==
  /\ pc = "idle"
  /\ mem' \in Images \ {mem}
  /\ ret' = "none"
  /\ UNCHANGED <<selected, pc, idx, buf, drive, ghosts, bounds>>

\* disk_save_fs up to its first write: a missing disk is an error, otherwise
\* the table is serialized into g_payload.
BeginSave(table) ==
  /\ pc = "idle"
  /\ mem' = table
  /\ \/ /\ selected = "none"
        /\ ret' = "error"
        /\ UNCHANGED <<pc, idx, buf, ghosts, bounds>>
     \/ /\ selected # "none"
        /\ saves < MaxSaves
        /\ saves' = saves + 1
        /\ buf' = table
        /\ pc' = "header" /\ idx' = 1
        /\ ret' = "none"
        /\ cands' = cands \cup {table}
        /\ synced' = Nothing
        /\ UNCHANGED <<faults, crashes>>
  /\ UNCHANGED <<selected, drive>>

Save   == BeginSave(mem)
Format == BeginSave(Fresh)             \* disk_format_fs: fs_init, then save

\* ata_write_sector: the drive took the sector.
WriteHeader    == view' = [view EXCEPT !.hdr = Header(buf)]
WritePayload(s) == view' = [view EXCEPT !.pay[s] = buf[s]]

SaveHeader ==
  /\ pc = "header"
  /\ WriteHeader
  /\ pc' = "payload"
  /\ UNCHANGED <<mem, selected, idx, buf, ret, platter, ghosts, bounds>>

SaveSector ==
  /\ pc = "payload" /\ idx \in Payload
  /\ WritePayload(idx)
  /\ idx' = idx + 1
  /\ UNCHANGED <<mem, selected, pc, buf, ret, platter, ghosts, bounds>>

\* A write times out or the drive reports an error: disk_save_fs gives up.
\* The drive may have taken the sector all the same.
WriteFails ==
  /\ faults < MaxFaults
  /\ \/ pc = "header" /\ (WriteHeader \/ UNCHANGED view)
     \/ pc = "payload" /\ idx \in Payload /\ (WritePayload(idx) \/ UNCHANGED view)
  /\ faults' = faults + 1
  /\ pc' = "idle"
  /\ ret' = "error"
  /\ UNCHANGED <<mem, selected, idx, buf, platter, ghosts, saves, crashes>>

\* ata_flush on an IDE disk: FLUSH CACHE empties the cache.
FlushIde ==
  /\ selected = "ide"
  /\ platter' = view
  /\ UNCHANGED view
  /\ cands' = {buf}
  /\ synced' = buf
  /\ UNCHANGED faults

\* ata_flush fails; disk_save_fs discards its result.
FlushIdeFails ==
  /\ selected = "ide"
  /\ faults < MaxFaults
  /\ faults' = faults + 1
  /\ UNCHANGED <<drive, ghosts>>

\* ata_flush sends nothing to an AHCI disk.
FlushAhci ==
  /\ selected = "ahci"
  /\ UNCHANGED <<drive, ghosts, faults>>

\* Mutant: the loop over the sectors ends one short.
SaveReturnsEarly ==
  /\ pc = "payload" /\ idx = NSectors
  /\ FlushIde \/ FlushIdeFails \/ FlushAhci
  /\ pc' = "idle"
  /\ ret' = "saved"
  /\ UNCHANGED <<mem, selected, idx, buf, saves, crashes>>

SaveReturns ==
  /\ pc = "payload" /\ idx \notin Payload
  /\ FlushIde \/ FlushIdeFails \/ FlushAhci
  /\ pc' = "idle"
  /\ ret' = "saved"
  /\ UNCHANGED <<mem, selected, idx, buf, saves, crashes>>

\* disk_load_fs.  Reading changes nothing on the disk, so it is one step; each
\* disjunct is one of its returns.
LoadError ==
  /\ \/ selected = "none" /\ UNCHANGED faults
     \/ selected # "none" /\ faults < MaxFaults /\ faults' = faults + 1   \* a read fails
     \/ selected # "none" /\ ~(Intact(view) /\ HasMagic(view.pay)) /\ UNCHANGED faults
  /\ ret' = "error"
  /\ UNCHANGED mem

\* fs_deserialize has wiped the table before it finds no root and calls fs_init.
LoadRootless ==
  /\ selected # "none"
  /\ Intact(view) /\ HasMagic(view.pay) /\ ~HasRoot(view.pay)
  /\ ret' = "error"
  /\ mem' = Fresh
  /\ UNCHANGED faults

LoadAccepts ==
  /\ selected # "none"
  /\ Intact(view) /\ HasRoot(view.pay)
  /\ ret' = "loaded"
  /\ mem' = view.pay
  /\ UNCHANGED faults

Load ==
  /\ pc = "idle"
  /\ LoadError \/ LoadRootless \/ LoadAccepts
  /\ UNCHANGED <<selected, pc, idx, buf, drive, ghosts, saves, crashes>>

\* The drive writes a cached sector to the medium, in any order.
DestageHeader ==
  /\ platter.hdr # view.hdr
  /\ platter' = [platter EXCEPT !.hdr = view.hdr]
  /\ UNCHANGED <<system, view, ghosts, bounds>>

DestagePayload(s) ==
  /\ platter.pay[s] # view.pay[s]
  /\ platter' = [platter EXCEPT !.pay[s] = view.pay[s]]
  /\ UNCHANGED <<system, view, ghosts, bounds>>

\* Power loss or reset: memory and cache are gone.
Crash ==
  /\ pc # "off"
  /\ crashes < MaxCrashes
  /\ crashes' = crashes + 1
  /\ pc' = "off"
  /\ view' = platter
  /\ mem' = Fresh /\ buf' = Fresh /\ idx' = 1
  /\ selected' = "none"
  /\ ret' = "none"
  /\ UNCHANGED <<platter, ghosts, saves, faults>>

Next ==
  \/ PowerOn \/ Edit \/ Save \/ Format
  \/ SaveHeader \/ SaveSector \/ WriteFails \/ SaveReturns
  \/ Load
  \/ DestageHeader \/ \E s \in Payload : DestagePayload(s)
  \/ Crash

Spec == Init /\ [][Next]_vars

------------------------------------------------------------------------------
(* Properties *)

\* What a load may take for an image when the payloads of C were written, in any
\* order and not all of them whole: it is put together from their sectors and has
\* the sum that one of them has.  If the sums tell, that is one of C itself.
Readable(C) ==
  {p \in Payloads :
     /\ HasRoot(p)
     /\ \E h \in C : HasMagic(h) /\ Checksum(h) = Checksum(p)
     /\ \A s \in Payload : \E h \in C : p[s] = h[s]}

Disks == [hdr : {Blank} \cup {Header(p) : p \in Tables}, pay : Payloads]

\* Every variable has its type.
TypeOK ==
  /\ mem \in Tables /\ buf \in Tables
  /\ selected \in {"none"} \cup Interfaces
  /\ view \in Disks /\ platter \in Disks
  /\ pc \in {"off", "idle", "header", "payload"}
  /\ idx \in 1..NSectors + 1
  /\ ret \in {"none", "error", "saved", "loaded"}
  /\ cands \subseteq Payloads
  /\ synced \in Tables \cup {Nothing}
  /\ saves \in 0..MaxSaves /\ faults \in 0..MaxFaults /\ crashes \in 0..MaxCrashes

\* After any crash, failed write or lost cache, what disk_load_fs accepts is made of
\* nothing older than the last flushed image, and its sum is that of an image saved
\* since: a torn image is refused unless its sum happens to be one of theirs, which
\* the plain sum of disk.c:48-55 allows and the run has cases of.
LoadReturnsCandidate == ret = "loaded" => mem \in Readable(cands)

\* When disk_save_fs has returned 0 a load in the same power session reads the
\* table back, even if the flush failed.
SavedIsReadable == ret = "saved" /\ HasRoot(mem) => Content(view) = mem

\* An image whose flush was carried out is what any later boot loads, however
\* often power fails, until another save begins.
FlushedImageSurvives == synced # Nothing /\ HasRoot(synced) => Content(platter) = synced

\* disk.c:283, "Flush drive write cache so filesystem data is fully persisted":
\* when disk_save_fs returns 0 the image is on the medium.  It holds of IDE disks
\* without faults, not of AHCI disks, which are sent no flush: no run asks for it.
SaveOkIsPersistent == ret = "saved" => Content(platter) = mem

\* DiskStore implements ImageStore.
Store == INSTANCE ImageStore WITH stored <- Content(view),
                                  settled <- synced # Nothing
ImplementsImageStore == Store!Spec
=============================================================================
