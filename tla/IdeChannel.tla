------------------------------ MODULE IdeChannel ------------------------------
(***************************************************************************)
(* One IDE channel with its two drives and the polling driver of           *)
(* kernel/ata.c.  The two drives share one set of registers: what the      *)
(* driver reads as "the status" is that of the drive it selected last.     *)
(*                                                                         *)
(* The drives run by themselves and may take longer than the driver is     *)
(* willing to poll.  A command written to a drive that is still busy, or   *)
(* still has a sector to transfer, is ignored or takes the place of the    *)
(* old one: both are seen in practice and the standard promises neither.   *)
(***************************************************************************)
EXTENDS Naturals, FiniteSets

CONSTANTS
    Lbas,      \* sector numbers
    Data,      \* contents of a sector
    Garbage,   \* what is read from a drive that serves no sector
    Wirings,   \* the channels considered, each a kind for both drives
    Polls      \* ATA_POLL_ATTEMPTS

Drives == {0, 1}
Kinds  == {"ata", "atapi", "none", "nobus"}

ASSUME IdeAssumption ==
    /\ Polls \in Nat \ {0}
    /\ Lbas # {}
    /\ Wirings \subseteq [Drives -> Kinds]
    /\ Garbage \notin Data

VARIABLES
    kind,      \* how the channel is wired, fixed
    drive,     \* status bits of each drive and the command it works on
    disk,      \* the sectors of each drive
    sel,       \* the drive that answers register accesses
    present,   \* g_ide_devices[d].present
    pc,        \* where in ata.c the driver is
    call,      \* the request it serves
    left,      \* poll attempts left
    ret,       \* the last answer to a caller
    gaveUp,    \* some wait of the driver has timed out
    faulted,   \* some command has ended in an error
    expected   \* what a caller must expect to find in each sector

hardware == <<kind, drive, disk>>
callers  == <<ret, expected>>
vars == <<kind, drive, disk, sel, present, pc, call, left, ret, gaveUp,
          faulted, expected>>

Request(op, d, lba, data) == [op |-> op, drive |-> d, lba |-> lba, data |-> data]
Job(op, lba, data)        == [op |-> op, lba |-> lba, data |-> data]
Contents == Data \cup {Garbage}
NoLba    == CHOOSE lba \in Lbas : TRUE
NoJob    == Job("none", NoLba, Garbage)
NoRequest == Request("none", 0, NoLba, Garbage)
NoAnswer == [request |-> NoRequest, ok |-> TRUE, data |-> Garbage]
Quiet    == [busy |-> FALSE, drq |-> FALSE, err |-> FALSE, job |-> NoJob]

Busy(d) == kind[d] = "nobus" \/ drive[d].busy
Drq(d)  == drive[d].drq
Err(d)  == drive[d].err        \* ATA_SR_ERR or ATA_SR_DF

Init ==
    /\ kind \in Wirings
    /\ drive = [d \in Drives |-> Quiet]
    /\ disk \in [Drives -> {[lba \in Lbas |-> x] : x \in Data}]
    /\ sel = 0
    /\ present = [d \in Drives |-> FALSE]
    /\ pc = "scan"
    /\ call = Request("identify", 0, NoLba, Garbage)
    /\ left = Polls
    /\ ret = NoAnswer
    /\ gaveUp = FALSE
    /\ faulted = FALSE
    /\ expected = [d \in Drives |-> [lba \in Lbas |-> {disk[d][lba]}]]

-------------------------------------------------------------------------------
(* The drives                                                               *)

Serving == {"read", "write", "identify"}     \* jobs with a sector to transfer
Ending  == {"store", "flush"}                \* jobs that end without one

\* The sector can be transferred.
OfferSector(d) ==
    /\ drive[d].busy /\ drive[d].job.op \in Serving
    /\ drive' = [drive EXCEPT ![d].busy = FALSE, ![d].drq = TRUE]
    /\ UNCHANGED <<kind, disk, sel, present, pc, call, left, ret, gaveUp,
                   faulted, expected>>

\* A sector is written, or the cache is flushed.
EndCommand(d) ==
    /\ drive[d].busy /\ drive[d].job.op \in Ending
    /\ drive' = [drive EXCEPT ![d] = Quiet]
    /\ disk' = IF drive[d].job.op = "store"
               THEN [disk EXCEPT ![d][drive[d].job.lba] = drive[d].job.data]
               ELSE disk
    /\ UNCHANGED <<kind, sel, present, pc, call, left, ret, gaveUp, faulted,
                   expected>>

\* An error; a sector that was being written keeps its contents or not.
FailCommand(d) ==
    /\ drive[d].busy
    /\ drive' = [drive EXCEPT ![d] = [Quiet EXCEPT !.err = TRUE]]
    /\ faulted' = TRUE
    /\ \/ UNCHANGED disk
       \/ /\ drive[d].job.op = "store"
          /\ disk' = [disk EXCEPT ![d][drive[d].job.lba] = drive[d].job.data]
    /\ UNCHANGED <<kind, sel, present, pc, call, left, ret, gaveUp, expected>>

DriveStep(d) == OfferSector(d) \/ EndCommand(d) \/ FailCommand(d)

-------------------------------------------------------------------------------
(* The driver                                                               *)

\* Writing the drive register and then the command register.
Accept(d, job) == [Quiet EXCEPT !.busy = TRUE, !.job = job]

Command(d, job) ==
    /\ sel' = d
    /\ \/ drive' = [drive EXCEPT ![d] = Accept(d, job)]
       \/ /\ drive[d].busy \/ drive[d].drq
          /\ UNCHANGED drive

\* The call returns, with what it has read in data.
Return(ok, data) ==
    /\ pc' = "idle"
    /\ ret' = [request |-> call, ok |-> ok, data |-> data]
    /\ LET d == call.drive
           old == IF ok THEN {} ELSE expected[d][call.lba]
       IN expected' = IF call.op = "write"
                      THEN [expected EXCEPT ![d][call.lba] = old \cup {call.data}]
                      ELSE expected
    /\ call' = NoRequest
    /\ left' = Polls
    /\ UNCHANGED present

\* Mutant of Probed: tries a drive it has not found again.
ProbedUntilFound(found) ==
    /\ present' = [present EXCEPT ![call.drive] = found]
    /\ IF call.drive = 0 \/ ~found
       THEN call' = [call EXCEPT !.drive = IF found THEN 1 ELSE @] /\ pc' = "scan"
       ELSE call' = NoRequest /\ pc' = "idle"
    /\ left' = Polls
    /\ UNCHANGED callers

\* ata_scan goes on to the next drive of the channel.
Probed(found) ==
    /\ present' = [present EXCEPT ![call.drive] = found]
    /\ IF call.drive = 0
       THEN call' = [call EXCEPT !.drive = 1] /\ pc' = "scan"
       ELSE call' = NoRequest /\ pc' = "idle"
    /\ left' = Polls
    /\ UNCHANGED callers

Fails ==
    IF call.op = "identify" THEN Probed(FALSE) ELSE Return(FALSE, Garbage)

\* Mutant of Poll: without a limit.
PollForever ==
    /\ left' = left
    /\ UNCHANGED <<pc, present, call, gaveUp>>
    /\ UNCHANGED callers

\* One more look at the status, or none left.
Poll ==
    \/ /\ left > 1
       /\ left' = left - 1
       /\ UNCHANGED <<pc, present, call, gaveUp>>
       /\ UNCHANGED callers
    \/ /\ left = 1
       /\ gaveUp' = TRUE
       /\ Fails

\* ata_read_sector, ata_write_sector or ata_flush is called.
Call ==
    /\ pc = "idle"
    /\ \E d \in {x \in Drives : present[x]}, lba \in Lbas, data \in Data :
          \/ call' = Request("read", d, lba, Garbage)
          \/ call' = Request("write", d, lba, data)
          \/ call' = Request("flush", d, NoLba, Garbage)
    /\ pc' = "ready"
    /\ left' = Polls
    /\ ret' = NoAnswer
    /\ UNCHANGED hardware
    /\ UNCHANGED <<sel, present, gaveUp, faulted, expected>>

\* Mutant of WaitReady: selects and commands without a look at the drive selected before.
WaitNothing ==
    /\ pc = "ready"
    /\ Command(call.drive, Job(call.op, call.lba, Garbage))
    /\ pc' = IF call.op = "flush" THEN "done" ELSE "drq"
    /\ left' = Polls
    /\ UNCHANGED <<kind, disk, present, call, ret, gaveUp, faulted, expected>>

\* ide_wait_ready looks at the drive selected last, and only then selects.
WaitReady ==
    /\ pc = "ready"
    /\ \/ /\ Busy(sel)
          /\ Poll
          /\ UNCHANGED <<drive, sel>>
       \/ /\ ~Busy(sel) /\ Err(sel)
          /\ Fails
          /\ UNCHANGED <<drive, sel, gaveUp>>
       \/ /\ ~Busy(sel) /\ ~Err(sel)
          /\ Command(call.drive, Job(call.op, call.lba, Garbage))
          /\ pc' = IF call.op = "flush" THEN "done" ELSE "drq"
          /\ left' = Polls
          /\ UNCHANGED <<present, call, gaveUp>>
          /\ UNCHANGED callers
    /\ UNCHANGED <<kind, disk, faulted>>

\* What the 256 reads of the data register yield.
Offered(d) ==
    IF drive[d].job.op = "read" THEN disk[d][drive[d].job.lba] ELSE Garbage

\* The 256 accesses to the data register.
TransferIn ==
    /\ call.op \in {"read", "identify"}
    /\ drive' = IF drive[sel].job.op \in {"read", "identify"}
                THEN [drive EXCEPT ![sel] = Quiet] ELSE drive
    /\ IF call.op = "read" THEN Return(TRUE, Offered(sel)) ELSE Probed(TRUE)

\* Mutant of TransferOut: returns from a write as soon as the sector is handed over.
TransferOutAndReturn ==
    /\ call.op = "write"
    /\ drive' = IF drive[sel].job.op = "write"
                THEN [drive EXCEPT ![sel] =
                        Accept(sel, Job("store", drive[sel].job.lba, call.data))]
                ELSE drive
    /\ Return(TRUE, Garbage)

TransferOut ==
    /\ call.op = "write"
    /\ drive' = IF drive[sel].job.op = "write"
                THEN [drive EXCEPT ![sel] =
                        Accept(sel, Job("store", drive[sel].job.lba, call.data))]
                ELSE drive
    /\ pc' = "done"
    /\ left' = Polls
    /\ UNCHANGED <<present, call>>
    /\ UNCHANGED callers

\* ide_wait_drq, and the transfer it waits for.
WaitDrq ==
    /\ pc = "drq"
    /\ \/ /\ Err(sel)
          /\ Fails
          /\ UNCHANGED <<drive, gaveUp>>
       \/ /\ ~Err(sel) /\ ~Busy(sel) /\ Drq(sel)
          /\ TransferIn \/ TransferOut
          /\ UNCHANGED gaveUp
       \/ /\ ~Err(sel) /\ (Busy(sel) \/ ~Drq(sel))
          /\ Poll
          /\ UNCHANGED drive
    /\ UNCHANGED <<kind, disk, sel, faulted>>

\* Mutant of WaitDone: a drive that is busy at the first look has failed.
LookOnce ==
    /\ pc = "done"
    /\ Return(~Busy(sel) /\ ~Err(sel), Garbage)
    /\ UNCHANGED gaveUp
    /\ UNCHANGED hardware
    /\ UNCHANGED <<sel, faulted>>

\* ide_wait_not_busy after a write or a flush.
WaitDone ==
    /\ pc = "done"
    /\ \/ Busy(sel) /\ Poll
       \/ /\ ~Busy(sel)
          /\ Return(~Err(sel), Garbage)
          /\ UNCHANGED gaveUp
    /\ UNCHANGED hardware
    /\ UNCHANGED <<sel, faulted>>

\* A terminal session begins: ata_scan.
Scan ==
    /\ pc = "idle"
    /\ pc' = "scan"
    /\ call' = Request("identify", 0, NoLba, Garbage)
    /\ ret' = NoAnswer
    /\ UNCHANGED hardware
    /\ UNCHANGED <<sel, present, left, gaveUp, faulted, expected>>

\* ide_probe_device up to the first look at the status, without any wait.
\* A drive that is not there reads as status 0, a channel that is not there as
\* 0xFF.  A packet drive aborts the command and keeps its error bit.
Probe ==
    /\ pc = "scan"
    /\ LET d == call.drive
       IN \/ /\ kind[d] = "none"
             /\ sel' = d
             /\ Probed(FALSE)
             /\ UNCHANGED drive
          \/ /\ kind[d] # "none"
             /\ CASE kind[d] = "ata"   -> Command(d, Job("identify", NoLba, Garbage))
                  [] kind[d] = "atapi" -> /\ sel' = d
                                          /\ drive' = [drive EXCEPT ![d].err = TRUE]
                  [] kind[d] = "nobus" -> sel' = d /\ UNCHANGED drive
             /\ pc' = "settle"
             /\ UNCHANGED <<present, call, left>>
             /\ UNCHANGED callers
    /\ UNCHANGED <<kind, disk, gaveUp, faulted>>

\* The loop on BSY has no limit.
Settle ==
    /\ pc = "settle"
    /\ ~Busy(sel)
    /\ IF kind[sel] = "atapi"
       THEN Probed(FALSE)
       ELSE /\ pc' = "drq"
            /\ left' = Polls
            /\ UNCHANGED <<present, call>>
            /\ UNCHANGED callers
    /\ UNCHANGED hardware
    /\ UNCHANGED <<sel, gaveUp, faulted>>

Driver == WaitReady \/ WaitDrq \/ WaitDone \/ Probe \/ Settle

Next == Call \/ Scan \/ Driver \/ \E d \in Drives : DriveStep(d)

\* The driver is the only thing the processor runs: it does not stop in the
\* middle of a call.
Spec == Init /\ [][Next]_vars /\ WF_vars(Driver)

\* Fairness of the drives is an assumption on the hardware, made only by the
\* property that needs it.
DrivesAnswer == \A d \in Drives : WF_vars(DriveStep(d))
-------------------------------------------------------------------------------
(* Properties                                                               *)

\* Types; the driver works on the drive it selected once it has commanded it.
Requests ==
    [op : {"none", "read", "write", "flush", "identify"}, drive : Drives,
     lba : Lbas, data : Contents]
Jobs == [op : Serving \cup Ending \cup {"none"}, lba : Lbas, data : Contents]

TypeOK ==
    /\ kind \in Wirings
    /\ drive \in [Drives -> [busy : BOOLEAN, drq : BOOLEAN, err : BOOLEAN, job : Jobs]]
    /\ disk \in [Drives -> [Lbas -> Data]]
    /\ sel \in Drives
    /\ present \in [Drives -> BOOLEAN]
    /\ pc \in {"idle", "scan", "settle", "ready", "drq", "done"}
    /\ call \in Requests
    /\ left \in 1 .. Polls
    /\ ret \in [request : Requests, ok : BOOLEAN, data : Contents]
    /\ gaveUp \in BOOLEAN
    /\ faulted \in BOOLEAN
    /\ expected \in [Drives -> [Lbas -> SUBSET Data]]
    /\ pc \in {"settle", "drq", "done"} => sel = call.drive

\* What ata_read_sector returns is the sector that was asked for, of the drive
\* that was asked, as the calls before have left it; failed writes leave the
\* old or the new contents.  It holds as long as no wait has timed out: a drive
\* that answers late still offers the sector of the abandoned call, and
\* ide_wait_ready does not look at DRQ.
ReadsTellTheTruth ==
    ~gaveUp /\ pc = "idle" /\ ret.request.op = "read" /\ ret.ok =>
        LET d == ret.request.drive
            lba == ret.request.lba
        IN ret.data = disk[d][lba] /\ ret.data \in expected[d][lba]

\* No sector of either drive changes but by a write to it, and one that
\* returned 0 has arrived.
SectorsAsWritten ==
    ~gaveUp /\ pc = "idle" =>
        \A d \in Drives, lba \in Lbas : disk[d][lba] \in expected[d][lba]

\* The drives share their registers: none is commanded by a read, a write or a
\* flush while one of them is busy, not even after a call that timed out on it.
NeverTalksOver ==
    [][pc = "ready" /\ pc' \in {"drq", "done"} =>
          \A d \in Drives : ~drive[d].busy]_vars

\* As long as no wait has timed out, a call fails if and only if the drive that was
\* selected last reports an error.  That need not be the drive of the call, nor the
\* error one of this call: ide_wait_ready looks at the status before it selects
\* (ata.c 308).  While no command has ended in an error the calls to a disk that
\* ata_scan has found succeed, all of them; or fail, all of them, where a packet drive
\* is the slave, which keeps the error of the IDENTIFY that the scan sent it.
CallsFailOnErrors ==
    ~gaveUp /\ ret.request.op # "none" =>
        /\ ret.ok <=> ~drive[sel].err
        /\ ~faulted => (ret.ok <=> kind[1] # "atapi")

\* Reads, writes and flushes return whatever the drives do, or fail to do.
CallsReturn == pc \in {"ready", "drq", "done"} ~> pc \in {"idle", "scan"}

\* The scan ends, if the drives answer: ide_probe_device waits for BSY to clear
\* without a limit.
ScanReturns == DrivesAnswer => (pc \in {"scan", "settle"} ~> pc = "idle")
===============================================================================
