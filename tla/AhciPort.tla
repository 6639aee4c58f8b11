------------------------------- MODULE AhciPort -------------------------------
(***************************************************************************)
(* One AHCI port with its drive, and the driver of kernel/ata.c, which     *)
(* uses command slot 0 only.  The controller moves sectors between the     *)
(* drive and the caller's buffers by itself: a command the driver has      *)
(* stopped waiting for still completes, into or out of whatever the buffer *)
(* holds by then.                                                          *)
(***************************************************************************)
EXTENDS Naturals

CONSTANTS
    Lbas,      \* sector numbers
    Data,      \* contents of a sector, in memory or on the drive
    Bufs,      \* buffers of the callers (g_sector, the sectors of g_payload)
    Polls      \* ATA_POLL_ATTEMPTS

ASSUME AhciAssumption == Polls \in Nat \ {0}

VARIABLES
    ci,        \* bit 0 of PxCI: the slot is in use
    tfes,      \* PxIS.TFES
    cr,        \* PxCMD.CR: the command list is running
    spinning,  \* the drive is not ready yet: PxTFD.BSY
    job,       \* the command the drive works on
    mem,       \* the buffers
    disk,      \* the sectors of the drive
    present,   \* g_ahci_devices[i].present
    capacity,  \* sectors28: of IDENTIFY or the default
    pc,        \* where in ata.c the driver is
    call,      \* the request it serves
    left,      \* poll attempts left
    ret,       \* the last answer to a caller
    lost,      \* the kinds of commands given up while the drive had them
    expected   \* what a caller must expect to find in each sector

port    == <<ci, tfes, cr, spinning, job>>
storage == <<mem, disk>>
device  == <<present, capacity>>
callers == <<ret, expected>>
vars == <<ci, tfes, cr, spinning, job, mem, disk, present, capacity, pc, call,
          left, ret, lost, expected>>

Nil == "nil"
Request(op, lba, buf, data) == [op |-> op, lba |-> lba, buf |-> buf, data |-> data]
NoRequest == Request("none", Nil, Nil, Nil)
NoAnswer  == [request |-> NoRequest, ok |-> TRUE]
Identify  == Request("identify", Nil, Nil, Nil)

Init ==
    /\ ci = FALSE
    /\ tfes = FALSE
    /\ cr = FALSE
    /\ spinning \in BOOLEAN
    /\ job = NoRequest
    /\ mem \in [Bufs -> Data]
    /\ disk \in [Lbas -> Data]
    /\ present = FALSE
    /\ capacity = "none"
    /\ pc = "stop"
    /\ call = Identify
    /\ left = Polls
    /\ ret = NoAnswer
    /\ lost = {}
    /\ expected = [lba \in Lbas |-> {disk[lba]}]

-------------------------------------------------------------------------------
(* The controller and the drive                                             *)

SpinUp ==
    /\ spinning
    /\ spinning' = FALSE
    /\ UNCHANGED <<ci, tfes, cr, job, pc, call, left, lost>>
    /\ UNCHANGED storage /\ UNCHANGED device /\ UNCHANGED callers

\* The data of a command is moved, and the slot is free again.
Complete ==
    /\ job # NoRequest
    /\ mem' = IF job.op = "read" THEN [mem EXCEPT ![job.buf] = disk[job.lba]]
                                 ELSE mem
    /\ disk' = IF job.op = "write" THEN [disk EXCEPT ![job.lba] = mem[job.buf]]
                                   ELSE disk
    /\ job' = NoRequest
    /\ ci' = FALSE
    /\ UNCHANGED <<tfes, cr, spinning, pc, call, left, lost>>
    /\ UNCHANGED device /\ UNCHANGED callers

\* A task file error; a sector that was being written keeps its contents or not.
\* The port stops processing with the slot still in use; some controllers free
\* it.
Fail ==
    /\ job # NoRequest
    /\ job' = NoRequest
    /\ tfes' = TRUE
    /\ ci' \in BOOLEAN
    /\ \/ UNCHANGED disk
       \/ job.op = "write" /\ disk' = [disk EXCEPT ![job.lba] = mem[job.buf]]
    /\ UNCHANGED <<cr, spinning, mem, pc, call, left, lost>>
    /\ UNCHANGED device /\ UNCHANGED callers

\* The command list has stopped: what was outstanding is dropped.
StopList ==
    /\ pc = "stop"
    /\ cr
    /\ cr' = FALSE
    /\ ci' = FALSE
    /\ job' = NoRequest
    /\ UNCHANGED <<tfes, spinning, pc, call, left, lost>>
    /\ UNCHANGED storage /\ UNCHANGED device /\ UNCHANGED callers

Hardware == SpinUp \/ Complete \/ Fail \/ StopList

-------------------------------------------------------------------------------
(* The driver                                                               *)

\* What a caller must expect in the sector of a write that did not return 0:
\* the new contents, or, of a write given up, what the buffer will hold then.
AfterFailure(givenUp) ==
    IF call.op # "write" THEN expected
    ELSE [expected EXCEPT ![call.lba] =
            IF givenUp THEN Data ELSE @ \cup {call.data}]

Return(ok, outcome) ==
    /\ pc' = "idle"
    /\ ret' = [request |-> call, ok |-> ok]
    /\ expected' = outcome
    /\ call' = NoRequest
    /\ left' = Polls
    /\ UNCHANGED device

\* ahci_register_port goes on after an IDENTIFY that failed.
Register(size) ==
    /\ present' = TRUE
    /\ capacity' = size
    /\ pc' = "idle"
    /\ call' = NoRequest
    /\ left' = Polls
    /\ UNCHANGED callers

Fails(givenUp) ==
    IF call.op = "identify" THEN Register("default")
                            ELSE Return(FALSE, AfterFailure(givenUp))

\* Mutant of Poll: no limit.
PollForever ==
    /\ left' = left
    /\ UNCHANGED <<pc, call>>
    /\ UNCHANGED device /\ UNCHANGED callers

Poll ==
    /\ left > 1
    /\ left' = left - 1
    /\ UNCHANGED <<pc, call>>
    /\ UNCHANGED device /\ UNCHANGED callers

\* disk.c fills a buffer between two calls.
Fill ==
    /\ pc = "idle"
    /\ \E buf \in Bufs, data \in Data : mem' = [mem EXCEPT ![buf] = data]
    /\ UNCHANGED <<disk, pc, call, left, lost>>
    /\ UNCHANGED port /\ UNCHANGED device /\ UNCHANGED callers

\* ata_read_sector or ata_write_sector is called.
Call ==
    /\ pc = "idle"
    /\ present
    /\ \E op \in {"read", "write"}, lba \in Lbas, buf \in Bufs :
          call' = Request(op, lba, buf, mem[buf])
    /\ pc' = "slot"
    /\ ret' = NoAnswer
    /\ UNCHANGED <<left, lost, expected>>
    /\ UNCHANGED port /\ UNCHANGED storage /\ UNCHANGED device

\* Mutant of WaitSlot: issues without a look at the slot.
WaitNoSlot ==
    /\ pc = "slot"
    /\ \/ ~present /\ Fails(FALSE)
       \/ /\ present
          /\ pc' = "tfd"
          /\ left' = Polls
          /\ UNCHANGED call
          /\ UNCHANGED device /\ UNCHANGED callers
    /\ UNCHANGED lost
    /\ UNCHANGED port /\ UNCHANGED storage

\* ahci_issue up to the end of ahci_wait_slot_free.  It refuses a device that is
\* not present; ahci_register_port marks the device only after ahci_identify, so
\* that the IDENTIFY command is refused each time.
WaitSlot ==
    /\ pc = "slot"
    /\ \/ ~present /\ Fails(FALSE)
       \/ /\ present /\ ~ci
          /\ pc' = "tfd"
          /\ left' = Polls
          /\ UNCHANGED call
          /\ UNCHANGED device /\ UNCHANGED callers
       \/ present /\ ci /\ Poll
       \/ present /\ ci /\ left = 1 /\ Fails(FALSE)
    /\ UNCHANGED lost
    /\ UNCHANGED port /\ UNCHANGED storage

\* The wait for BSY and DRQ to clear, then PxIS is cleared and PxCI set.
WaitTaskFile ==
    /\ pc = "tfd"
    /\ \/ /\ ~spinning
          /\ ci' = TRUE
          /\ tfes' = FALSE
          /\ job' = IF ci THEN job ELSE call    \* setting a bit that is set
          /\ pc' = "issued"
          /\ left' = Polls
          /\ UNCHANGED call
          /\ UNCHANGED device /\ UNCHANGED callers
       \/ spinning /\ Poll /\ UNCHANGED <<ci, tfes, job>>
       \/ spinning /\ left = 1 /\ Fails(FALSE) /\ UNCHANGED <<ci, tfes, job>>
    /\ UNCHANGED <<cr, spinning, lost>>
    /\ UNCHANGED storage

Succeeds ==
    IF call.op = "identify"
    THEN Register("real")
    ELSE Return(TRUE, IF call.op = "write"
                      THEN [expected EXCEPT ![call.lba] = {call.data}]
                      ELSE expected)

\* Mutants of WaitCompletion: a slot that is free again is taken for a command
\* that succeeded, and no wait at all.
WaitFreeOnly ==
    /\ pc = "issued"
    /\ \/ ~ci /\ Succeeds /\ UNCHANGED lost
       \/ ci /\ Poll /\ UNCHANGED lost
       \/ ci /\ left = 1 /\ Fails(TRUE) /\ lost' = lost \cup {call.op}
    /\ UNCHANGED port /\ UNCHANGED storage

IssueAndReturn ==
    /\ pc = "issued"
    /\ Succeeds
    /\ UNCHANGED lost
    /\ UNCHANGED port /\ UNCHANGED storage

\* The wait for the slot to be free again, or for an error.
WaitCompletion ==
    /\ pc = "issued"
    /\ \/ ~ci /\ ~tfes /\ Succeeds /\ UNCHANGED lost
       \/ tfes /\ Fails(FALSE) /\ UNCHANGED lost
       \/ ci /\ ~tfes /\ Poll /\ UNCHANGED lost
       \/ ci /\ ~tfes /\ left = 1 /\ Fails(TRUE) /\ lost' = lost \cup {call.op}
    /\ UNCHANGED port /\ UNCHANGED storage

\* A terminal session begins: ata_scan comes to this port.
Scan ==
    /\ pc = "idle"
    /\ pc' = "stop"
    /\ present' = FALSE
    /\ capacity' = "none"
    /\ call' = Identify
    /\ ret' = NoAnswer
    /\ UNCHANGED <<left, lost, expected>>
    /\ UNCHANGED port /\ UNCHANGED storage

\* ahci_setup_port: ahci_stop_port, then ahci_start_port, which finds CR clear.
\* A port that does not stop is not registered.
SetUp ==
    /\ pc = "stop"
    /\ \/ /\ ~cr
          /\ cr' = TRUE
          /\ tfes' = FALSE
          /\ pc' = "slot"
          /\ left' = Polls
          /\ UNCHANGED call
          /\ UNCHANGED device /\ UNCHANGED callers
       \/ cr /\ Poll /\ UNCHANGED <<cr, tfes>>
       \/ /\ cr /\ left = 1
          /\ pc' = "idle"
          /\ call' = NoRequest
          /\ left' = Polls
          /\ UNCHANGED <<cr, tfes>>
          /\ UNCHANGED device /\ UNCHANGED callers
    /\ UNCHANGED <<ci, spinning, job, lost>>
    /\ UNCHANGED storage

Driver == WaitSlot \/ WaitTaskFile \/ WaitCompletion \/ SetUp

Next == Fill \/ Call \/ Scan \/ Driver \/ Hardware

\* The driver is the only thing the processor runs; nothing is assumed of the
\* controller and the drive.
Spec == Init /\ [][Next]_vars /\ WF_vars(Driver)

-------------------------------------------------------------------------------
(* Properties                                                               *)

Requests ==
    [op : {"read", "write"}, lba : Lbas, buf : Bufs, data : Data]
        \cup {NoRequest, Identify}

\* Types; the drive works only while its slot is in use.
TypeOK ==
    /\ ci \in BOOLEAN /\ tfes \in BOOLEAN /\ cr \in BOOLEAN
    /\ spinning \in BOOLEAN
    /\ job \in Requests
    /\ mem \in [Bufs -> Data]
    /\ disk \in [Lbas -> Data]
    /\ present \in BOOLEAN
    /\ capacity \in {"none", "real", "default"}
    /\ pc \in {"idle", "stop", "slot", "tfd", "issued"}
    /\ call \in Requests
    /\ left \in 1 .. Polls
    /\ ret \in [request : Requests, ok : BOOLEAN]
    /\ lost \subseteq {"read", "write", "identify"}
    /\ expected \in [Lbas -> SUBSET Data]
    /\ job # NoRequest => ci

\* A read that returns 0 has brought the sector that was asked for, even if
\* commands before it were given up and completed in between: ahci_wait_slot_free
\* keeps a late completion from being taken for that of the new command.
ReadsTellTheTruth ==
    [][pc = "issued" /\ pc' = "idle" /\ call.op = "read" /\ ret'.ok =>
          mem[call.buf] = disk[call.lba]]_vars

\* Each sector holds what the writes to it have left there: one that returned 0
\* its data, one that failed the old or the new data, one given up anything.  It
\* holds as long as no read was given up: its data may still arrive, in a buffer
\* that by then is being written.
SectorsAsWritten ==
    "read" \notin lost =>
        \A lba \in Lbas :
            \/ disk[lba] \in expected[lba]
            \/ pc = "issued" /\ call.op = "write" /\ call.lba = lba
                             /\ disk[lba] = call.data

\* Between two calls the buffers belong to disk.c: the controller does not write
\* them, unless a read was given up.
BuffersAreQuiet ==
    [][pc = "idle" /\ "read" \notin lost /\ mem' # mem => Fill]_vars

\* "Verify disk is large enough to hold bootloader + kernel + filesystem"
\* (disk.c): that needs the capacity that the disk itself states, when it answers
\* IDENTIFY without an error or a timeout.
CapacityIsTheDisks ==
    [][~present /\ present' /\ ~tfes /\ ~spinning /\ "identify" \notin lost' =>
          capacity' = "real"]_vars

\* Every call, and the scan of the port, returns, whatever the hardware does.
CallsReturn == pc # "idle" ~> pc = "idle"
===============================================================================
