--------------------------- MODULE IdeChannelProofs ---------------------------
(***************************************************************************)
(* Proofs about IdeChannel, for any number of sectors, any contents, any   *)
(* wiring and any number of poll attempts.                                 *)
(***************************************************************************)
EXTENDS IdeChannel, TLAPS

\* A drive that works on nothing and offers nothing.
Calm(d) == ~drive[d].busy /\ ~drive[d].drq /\ drive[d].job = NoJob

-------------------------------------------------------------------------------
(* The inductive invariant                                                  *)

\* What the driver does in each place of ata.c.
Places ==
    /\ pc = "idle"  => call.op = "none"
    /\ pc = "ready" => call.op \in {"read", "write", "flush"}
    /\ pc = "drq"   => call.op \in {"read", "write", "identify"}
    /\ pc = "done"  => call.op \in {"write", "flush"}
    /\ pc \in {"scan", "settle"} => call.op = "identify"
    /\ pc \in {"ready", "drq", "done"} => kind[call.drive] = "ata"
    /\ pc = "settle" => kind[call.drive] # "none"
    /\ call.op = "write" => call.data \in Data
    /\ call.op = "identify" => call.lba = NoLba

\* The scan registers disks only.
Devices == \A d \in Drives : present[d] => kind[d] = "ata"

\* Drives that are not disks are never commanded; a drive that reports an error
\* has dropped its command; what a drive stores is a sector.
DrivesOK ==
    \A d \in Drives :
        /\ kind[d] # "ata" => Calm(d)
        /\ drive[d].err => Calm(d)
        /\ drive[d].job.op = "store" => drive[d].job.data \in Data

\* Only the drive selected last may be busy.  During a scan that follows a timeout
\* both may be, until the probe has waited for each.
OthersRest ==
    /\ pc \in {"idle", "ready", "done"} => \A d \in Drives \ {sel} : ~drive[d].busy
    /\ pc = "drq" /\ call.op # "identify" => \A d \in Drives \ {sel} : ~drive[d].busy
    /\ pc \in {"scan", "settle", "drq"} /\ call.op = "identify" /\ call.drive = 1
          => ~drive[0].busy
    /\ pc = "drq" /\ call.op = "identify" => ~drive[call.drive].busy

\* As long as no wait has timed out, no drive works on anything but the request
\* of the driver ...
Asked == Job(IF pc = "done" /\ call.op = "write" THEN "store" ELSE call.op, call.lba,
             IF pc = "done" /\ call.op = "write" THEN call.data ELSE Garbage)
AllCalm == \A d \in Drives : Calm(d)
InStep ==
    /\ pc \in {"idle", "ready", "scan"} => AllCalm
    /\ pc \in {"settle", "drq", "done"} =>
          /\ \A d \in Drives \ {sel} : Calm(d)
          /\ Calm(sel) \/ drive[sel].job = Asked
    /\ pc = "done" => Calm(sel) \/ drive[sel].busy

\* ... a write that is about to return has arrived, unless it has failed, and ...
Arrived ==
    pc = "done" /\ call.op = "write" /\ ~drive[sel].busy /\ ~drive[sel].err =>
        disk[sel][call.lba] = call.data

\* ... every other sector is as the calls before have left it.
Kept ==
    \A d \in Drives, lba \in Lbas :
        \/ disk[d][lba] \in expected[d][lba]
        \/ /\ pc = "done" /\ call.op = "write"
           /\ d = sel /\ lba = call.lba /\ disk[d][lba] = call.data

\* The last answer is forgotten by the next call.
Forgotten == pc # "idle" => ret = NoAnswer

Truth == InStep /\ Arrived /\ Kept /\ Forgotten /\ ReadsTellTheTruth

IInv == TypeOK /\ Places /\ Devices /\ DrivesOK /\ OthersRest /\ (~gaveUp => Truth)

-------------------------------------------------------------------------------
(* Types                                                                    *)

DriveStates == [busy : BOOLEAN, drq : BOOLEAN, err : BOOLEAN, job : Jobs]
Answers     == [request : Requests, ok : BOOLEAN, data : Contents]

HardwareOK ==
    /\ kind \in Wirings
    /\ drive \in [Drives -> DriveStates]
    /\ disk \in [Drives -> [Lbas -> Data]]
    /\ sel \in Drives

DriverOK ==
    /\ present \in [Drives -> BOOLEAN]
    /\ pc \in {"idle", "scan", "settle", "ready", "drq", "done"}
    /\ call \in Requests
    /\ left \in 1 .. Polls
    /\ ret \in Answers
    /\ gaveUp \in BOOLEAN
    /\ faulted \in BOOLEAN
    /\ expected \in [Drives -> [Lbas -> SUBSET Data]]

Selected == pc \in {"settle", "drq", "done"} => sel = call.drive

LEMMA TypeParts == TypeOK <=> HardwareOK /\ DriverOK /\ Selected
  BY DEF TypeOK, HardwareOK, DriverOK, Selected, DriveStates, Answers

\* The constants of the module have their types.
LEMMA Literals ==
  /\ NoLba \in Lbas
  /\ NoJob \in Jobs
  /\ Quiet \in DriveStates
  /\ NoRequest \in Requests
  /\ NoAnswer \in Answers
  /\ Polls \in 1 .. Polls
  /\ Garbage \in Contents
  /\ Data \subseteq Contents
  <1>1. NoLba \in Lbas
    BY IdeAssumption DEF NoLba
  <1>2. Garbage \in Contents /\ Data \subseteq Contents
    BY DEF Contents
  <1>3. NoJob \in Jobs
    BY <1>1, <1>2 DEF NoJob, Job, Jobs, Serving, Ending
  <1>4. Quiet \in DriveStates
    BY <1>3 DEF Quiet, DriveStates
  <1>5. NoRequest \in Requests
    BY <1>1, <1>2 DEF NoRequest, Request, Requests, Drives
  <1>6. NoAnswer \in Answers
    BY <1>5, <1>2 DEF NoAnswer, Answers
  <1>7. Polls \in 1 .. Polls
    BY IdeAssumption
  <1> QED BY <1>1, <1>2, <1>3, <1>4, <1>5, <1>6, <1>7

\* A call that returns leaves the driver's variables with their types.
LEMMA ReturnTypes ==
  ASSUME TypeOK, Places, gaveUp' \in BOOLEAN, faulted' \in BOOLEAN,
         NEW ok \in BOOLEAN, NEW data \in Contents, Return(ok, data)
  PROVE  DriverOK' /\ pc' = "idle" /\ call' = NoRequest /\ call'.op = "none"
  <1>1. expected' \in [Drives -> [Lbas -> SUBSET Data]]
    <2>1. CASE call.op = "write"
      <3> DEFINE old == IF ok THEN {} ELSE expected[call.drive][call.lba]
      <3>1. call.drive \in Drives /\ call.lba \in Lbas /\ call.data \in Data
        BY <2>1 DEF TypeOK, Requests, Places
      <3>2. old \cup {call.data} \in SUBSET Data
        BY <3>1 DEF TypeOK
      <3>3. expected' = [expected EXCEPT ![call.drive][call.lba] = old \cup {call.data}]
        BY <2>1 DEF Return
      <3> HIDE DEF old
      <3> QED BY <3>1, <3>2, <3>3 DEF TypeOK
    <2>2. CASE call.op # "write"
      BY <2>2 DEF Return, TypeOK
    <2> QED BY <2>1, <2>2
  <1>2. ret' \in Answers
    BY DEF Return, Answers, TypeOK
  <1>3. present' \in [Drives -> BOOLEAN]
    BY DEF Return, TypeOK
  <1>4. call' = NoRequest /\ call' \in Requests /\ call'.op = "none" /\ left' \in 1 .. Polls /\ pc' = "idle"
    BY Literals DEF Return, NoRequest, Request
  <1> QED BY <1>1, <1>2, <1>3, <1>4 DEF DriverOK

\* So does the probe of a drive.
LEMMA ProbedTypes ==
  ASSUME TypeOK, gaveUp' \in BOOLEAN, faulted' \in BOOLEAN,
         NEW found \in BOOLEAN, Probed(found)
  PROVE  DriverOK'
  <1>1. present' \in [Drives -> BOOLEAN]
    BY DEF Probed, TypeOK
  <1>2. call' \in Requests
    BY Literals DEF Probed, TypeOK, Requests, Drives
  <1>3. pc' \in {"idle", "scan"} /\ left' \in 1 .. Polls
    BY Literals DEF Probed
  <1>4. ret' \in Answers /\ expected' \in [Drives -> [Lbas -> SUBSET Data]]
    BY DEF Probed, callers, TypeOK, Answers
  <1> QED BY <1>1, <1>2, <1>3, <1>4 DEF DriverOK

\* ata_scan goes from the first drive to the second, and from the second to the
\* end.
LEMMA ProbedMoves ==
  ASSUME TypeOK, NEW found \in BOOLEAN, Probed(found)
  PROVE  /\ call.drive = 0 => pc' = "scan" /\ call' = [call EXCEPT !.drive = 1]
         /\ call.drive = 1 => pc' = "idle" /\ call' = NoRequest
         /\ present' = [present EXCEPT ![call.drive] = found]
         /\ call.drive \in {0, 1}
         /\ ret' = ret /\ expected' = expected
  BY DEF Probed, callers, TypeOK, Requests, Drives

LEMMA FailsTypes ==
  ASSUME TypeOK, Places, gaveUp' \in BOOLEAN, faulted' \in BOOLEAN, Fails
  PROVE  DriverOK'
  <1>1. CASE call.op = "identify"
    BY <1>1, ProbedTypes DEF Fails
  <1>2. CASE call.op # "identify"
    BY <1>2, ReturnTypes, Literals DEF Fails
  <1> QED BY <1>1, <1>2

LEMMA PollTypes ==
  ASSUME TypeOK, Places, faulted' \in BOOLEAN, Poll
  PROVE  DriverOK'
  <1>1. CASE left > 1 /\ left' = left - 1 /\ UNCHANGED <<pc, present, call, gaveUp>>
                      /\ UNCHANGED callers
    <2>1. left' \in 1 .. Polls
      BY <1>1, IdeAssumption DEF TypeOK
    <2> QED BY <1>1, <2>1 DEF TypeOK, DriverOK, Answers, callers
  <1>2. CASE left = 1 /\ gaveUp' = TRUE /\ Fails
    BY <1>2, FailsTypes
  <1> QED BY <1>1, <1>2 DEF Poll

-------------------------------------------------------------------------------
(* How a call or a probe ends                                               *)

Over(found) ==
    \/ /\ call.op # "identify"
       /\ pc' = "idle" /\ call' = NoRequest
       /\ present' = present
    \/ /\ call.op = "identify" /\ call.drive = 0
       /\ pc' = "scan" /\ call' = [call EXCEPT !.drive = 1]
       /\ present' = [present EXCEPT ![0] = found]
    \/ /\ call.op = "identify" /\ call.drive = 1
       /\ pc' = "idle" /\ call' = NoRequest
       /\ present' = [present EXCEPT ![1] = found]

LEMMA ReturnIsOver ==
  ASSUME NEW ok, NEW data, call.op # "identify", Return(ok, data)
  PROVE  Over(FALSE)
  BY DEF Return, Over

LEMMA ProbedIsOver ==
  ASSUME TypeOK, call.op = "identify", NEW found \in BOOLEAN, Probed(found)
  PROVE  Over(found) /\ ret' = ret /\ expected' = expected
  <1>1. call.drive = 0 \/ call.drive = 1
    BY DEF TypeOK, Requests, Drives
  <1> QED BY <1>1, ProbedMoves DEF Over

LEMMA FailsIsOver ==
  ASSUME TypeOK, Fails
  PROVE  Over(FALSE)
  <1>1. CASE call.op = "identify"
    BY <1>1, ProbedIsOver DEF Fails
  <1>2. CASE call.op # "identify"
    BY <1>2, ReturnIsOver DEF Fails
  <1> QED BY <1>1, <1>2

LEMMA PollIsOver ==
  ASSUME TypeOK, Poll
  PROVE  \/ /\ UNCHANGED <<pc, call, present, gaveUp>>
            /\ UNCHANGED callers
         \/ Over(FALSE) /\ gaveUp' = TRUE
  BY FailsIsOver DEF Poll

-------------------------------------------------------------------------------
(* Every step keeps the types                                               *)

LEMMA CommandTypes ==
  ASSUME TypeOK, NEW d \in Drives, NEW job \in Jobs, Command(d, job)
  PROVE  drive' \in [Drives -> DriveStates] /\ sel' \in Drives
  <1>1. Accept(d, job) \in DriveStates
    BY Literals DEF Accept, DriveStates, Quiet
  <1> QED BY <1>1 DEF Command, TypeOK, DriveStates

LEMMA DriveStepTypes ==
  ASSUME TypeOK, DrivesOK, NEW d \in Drives, DriveStep(d)
  PROVE  TypeOK'
  <1>0. drive \in [Drives -> DriveStates] /\ disk \in [Drives -> [Lbas -> Data]]
    BY DEF TypeOK, DriveStates
  <1>1. drive[d].job.op = "store" => drive[d].job.lba \in Lbas /\ drive[d].job.data \in Data
    BY <1>0 DEF DriveStates, Jobs, DrivesOK
  <1>2. CASE OfferSector(d)
    <2>1. drive' \in [Drives -> DriveStates]
      BY <1>0, <1>2 DEF OfferSector, DriveStates
    <2> QED BY <1>2, <2>1 DEF OfferSector, TypeOK, DriveStates
  <1>3. CASE EndCommand(d)
    <2>1. drive' \in [Drives -> DriveStates]
      BY <1>0, <1>3, Literals DEF EndCommand
    <2>2. disk' \in [Drives -> [Lbas -> Data]]
      BY <1>0, <1>1, <1>3 DEF EndCommand
    <2> QED BY <1>3, <2>1, <2>2 DEF EndCommand, TypeOK, DriveStates
  <1>4. CASE FailCommand(d)
    <2>1. [Quiet EXCEPT !.err = TRUE] \in DriveStates
      BY Literals DEF DriveStates
    <2>2. drive' \in [Drives -> DriveStates]
      BY <1>0, <1>4, <2>1 DEF FailCommand
    <2>3. disk' \in [Drives -> [Lbas -> Data]]
      <3>1. CASE UNCHANGED disk
        BY <1>0, <3>1
      <3>2. CASE /\ drive[d].job.op = "store"
                 /\ disk' = [disk EXCEPT ![d][drive[d].job.lba] = drive[d].job.data]
        BY <1>0, <1>1, <3>2
      <3> QED BY <1>4, <3>1, <3>2 DEF FailCommand
    <2> QED BY <1>4, <2>2, <2>3 DEF FailCommand, TypeOK, DriveStates
  <1> QED BY <1>2, <1>3, <1>4 DEF DriveStep

LEMMA DriverTypes ==
  ASSUME TypeOK, Places, Driver
  PROVE  HardwareOK' /\ DriverOK'
  <1>0. /\ call.drive \in Drives /\ call.lba \in Lbas /\ call.data \in Contents
        /\ drive \in [Drives -> DriveStates] /\ sel \in Drives
    BY DEF TypeOK, Requests, DriveStates
  <1>1. CASE WaitReady
    <2>1. UNCHANGED <<kind, disk, faulted>>
      BY <1>1 DEF WaitReady
    <2>2. CASE Busy(sel) /\ Poll /\ UNCHANGED <<drive, sel>>
      BY <2>1, <2>2, <1>0, PollTypes DEF HardwareOK, TypeOK
    <2>3. CASE Fails /\ UNCHANGED <<drive, sel, gaveUp>>
      BY <2>1, <2>3, <1>0, FailsTypes DEF HardwareOK, TypeOK
    <2>4. CASE /\ Command(call.drive, Job(call.op, call.lba, Garbage))
               /\ pc' = IF call.op = "flush" THEN "done" ELSE "drq"
               /\ left' = Polls
               /\ UNCHANGED <<present, call, gaveUp>>
               /\ UNCHANGED callers /\ pc = "ready"
      <3>1. Job(call.op, call.lba, Garbage) \in Jobs
        BY <1>0, <2>4, Literals DEF Job, Jobs, Serving, Ending, Places
      <3>2. drive' \in [Drives -> DriveStates] /\ sel' \in Drives
        BY <1>0, <2>4, <3>1, CommandTypes
      <3> QED BY <2>1, <2>4, <3>2, Literals
              DEF HardwareOK, DriverOK, TypeOK, callers, Answers
    <2> QED BY <1>1, <2>2, <2>3, <2>4 DEF WaitReady
  <1>2. CASE WaitDrq
    <2>1. UNCHANGED <<kind, disk, sel, faulted>>
      BY <1>2 DEF WaitDrq
    <2>2. CASE Fails /\ UNCHANGED <<drive, gaveUp>>
      BY <2>1, <2>2, <1>0, FailsTypes DEF HardwareOK, TypeOK
    <2>3. CASE TransferIn /\ UNCHANGED gaveUp
      <3>1. drive' \in [Drives -> DriveStates]
        BY <2>3, <1>0, Literals DEF TransferIn
      <3>2. call.op = "read" => Offered(sel) \in Contents
        BY <1>0, Literals DEF Offered, TypeOK, DriveStates, Jobs
      <3>3. CASE call.op = "read"
        BY <2>1, <2>3, <3>1, <3>2, <3>3, ReturnTypes DEF TransferIn, HardwareOK, TypeOK
      <3>4. CASE call.op # "read"
        BY <2>1, <2>3, <3>1, <3>4, ProbedTypes DEF TransferIn, HardwareOK, TypeOK
      <3> QED BY <3>3, <3>4
    <2>4. CASE TransferOut /\ UNCHANGED gaveUp
      <3>1. drive' \in [Drives -> DriveStates]
        <4>1. Job("store", drive[sel].job.lba, call.data) \in Jobs
          BY <1>0 DEF Job, Jobs, Serving, Ending, DriveStates
        <4>2. Accept(sel, Job("store", drive[sel].job.lba, call.data)) \in DriveStates
          BY <4>1, Literals DEF Accept, DriveStates
        <4> QED BY <2>4, <1>0, <4>2 DEF TransferOut
      <3> QED BY <2>1, <2>4, <3>1, Literals
              DEF TransferOut, HardwareOK, DriverOK, TypeOK, callers, Answers
    <2>5. CASE Poll /\ UNCHANGED drive
      BY <2>1, <2>5, <1>0, PollTypes DEF HardwareOK, TypeOK
    <2> QED BY <1>2, <2>2, <2>3, <2>4, <2>5 DEF WaitDrq
  <1>3. CASE WaitDone
    <2>1. UNCHANGED <<kind, drive, disk, sel, faulted>>
      BY <1>3 DEF WaitDone, hardware
    <2>2. HardwareOK'
      BY <2>1, <1>0 DEF HardwareOK, TypeOK
    <2>3. CASE Poll
      BY <2>1, <2>2, <2>3, PollTypes DEF TypeOK
    <2>4. CASE Return(~Err(sel), Garbage) /\ UNCHANGED gaveUp
      <3>1. (~Err(sel)) \in BOOLEAN
        BY <1>0 DEF Err, DriveStates
      <3> QED BY <2>1, <2>2, <2>4, <3>1, ReturnTypes, Literals DEF TypeOK
    <2> QED BY <1>3, <2>3, <2>4 DEF WaitDone
  <1>4. CASE Probe
    <2>1. UNCHANGED <<kind, disk, gaveUp, faulted>>
      BY <1>4 DEF Probe
    <2>2. CASE sel' = call.drive /\ Probed(FALSE) /\ UNCHANGED drive
      BY <2>1, <2>2, <1>0, ProbedTypes DEF HardwareOK, TypeOK
    <2>3. CASE /\ pc' = "settle" /\ UNCHANGED <<present, call, left>> /\ UNCHANGED callers
               /\ \/ Command(call.drive, Job("identify", NoLba, Garbage))
                  \/ sel' = call.drive /\ drive' = [drive EXCEPT ![call.drive].err = TRUE]
                  \/ sel' = call.drive /\ UNCHANGED drive
      <3>1. Job("identify", NoLba, Garbage) \in Jobs
        BY Literals DEF Job, Jobs, Serving, Ending
      <3>2. drive' \in [Drives -> DriveStates] /\ sel' \in Drives
        <4>1. CASE Command(call.drive, Job("identify", NoLba, Garbage))
          BY <1>0, <3>1, <4>1, CommandTypes
        <4>2. CASE sel' = call.drive /\ drive' = [drive EXCEPT ![call.drive].err = TRUE]
          BY <1>0, <4>2 DEF DriveStates
        <4> QED BY <2>3, <1>0, <4>1, <4>2
      <3> QED BY <2>1, <2>3, <3>2 DEF HardwareOK, DriverOK, TypeOK, callers, Answers
    <2>4. kind[call.drive] \in Kinds
      BY <1>0, IdeAssumption DEF TypeOK
    <2> QED BY <1>4, <2>2, <2>3, <2>4 DEF Probe, Kinds
  <1>5. CASE Settle
    <2>1. UNCHANGED <<kind, drive, disk, sel, gaveUp, faulted>>
      BY <1>5 DEF Settle, hardware
    <2>2. HardwareOK'
      BY <2>1, <1>0 DEF HardwareOK, TypeOK
    <2>3. CASE Probed(FALSE)
      BY <2>1, <2>2, <2>3, ProbedTypes DEF TypeOK
    <2>4. CASE pc' = "drq" /\ left' = Polls /\ UNCHANGED <<present, call>> /\ UNCHANGED callers
      BY <2>1, <2>2, <2>4, Literals DEF DriverOK, TypeOK, callers, Answers
    <2> QED BY <1>5, <2>3, <2>4 DEF Settle
  <1> QED BY <1>1, <1>2, <1>3, <1>4, <1>5 DEF Driver

-------------------------------------------------------------------------------
(* Every step keeps the places and the drives                               *)

LEMMA SelectedStep ==
  ASSUME TypeOK, Places, Driver
  PROVE  Selected'
  <1>0. sel \in Drives /\ call.drive \in Drives
    BY DEF TypeOK, Requests
  <1>1. CASE WaitReady
    <2>1. CASE Poll /\ UNCHANGED sel
      BY <1>1, <2>1, PollIsOver DEF WaitReady, Over, TypeOK, Selected
    <2>2. CASE Fails /\ UNCHANGED sel
      BY <2>2, FailsIsOver DEF Over, Selected
    <2>3. CASE Command(call.drive, Job(call.op, call.lba, Garbage)) /\ UNCHANGED call
      BY <2>3 DEF Command, Selected
    <2> QED BY <1>1, <2>1, <2>2, <2>3 DEF WaitReady
  <1>2. CASE WaitDrq
    <2>1. UNCHANGED sel /\ sel = call.drive
      BY <1>2 DEF WaitDrq, TypeOK
    <2>2. CASE Fails
      BY <2>2, FailsIsOver DEF Over, Selected
    <2>3. CASE TransferIn
      BY <2>3, ReturnIsOver, ProbedIsOver DEF TransferIn, Over, Selected
    <2>4. CASE TransferOut
      BY <2>1, <2>4 DEF TransferOut, Selected
    <2>5. CASE Poll
      BY <2>1, <2>5, PollIsOver DEF Over, Selected
    <2> QED BY <1>2, <2>2, <2>3, <2>4, <2>5 DEF WaitDrq
  <1>3. CASE WaitDone
    <2>1. UNCHANGED sel /\ sel = call.drive
      BY <1>3 DEF WaitDone, TypeOK
    <2>2. CASE Poll
      BY <2>1, <2>2, PollIsOver DEF Over, Selected
    <2>3. CASE Return(~Err(sel), Garbage)
      BY <2>3 DEF Return, Selected
    <2> QED BY <1>3, <2>2, <2>3 DEF WaitDone
  <1>4. CASE Probe
    <2>1. CASE Probed(FALSE)
      BY <1>4, <2>1, ProbedIsOver DEF Probe, Places, Over, Selected
    <2>2. CASE sel' = call.drive /\ UNCHANGED call
      BY <2>2 DEF Selected
    <2>3. Command(call.drive, Job("identify", NoLba, Garbage)) => sel' = call.drive
      BY DEF Command
    <2>4. kind[call.drive] \in Kinds
      BY <1>0, IdeAssumption DEF TypeOK
    <2> QED BY <1>4, <2>1, <2>2, <2>3, <2>4 DEF Probe, Kinds
  <1>5. CASE Settle
    <2>1. CASE Probed(FALSE)
      BY <1>5, <2>1, ProbedIsOver DEF Settle, Places, Over, Selected
    <2>2. CASE UNCHANGED <<present, call>>
      BY <1>5, <2>2 DEF Settle, Selected, TypeOK
    <2> QED BY <1>5, <2>1, <2>2 DEF Settle
  <1> QED BY <1>1, <1>2, <1>3, <1>4, <1>5 DEF Driver

\* What a user's call asks for.
LEMMA CallEffect ==
  ASSUME TypeOK, Devices, Call
  PROVE  /\ call' \in Requests
         /\ call'.op \in {"read", "write", "flush"}
         /\ kind[call'.drive] = "ata"
         /\ call'.op = "write" => call'.data \in Data
  <1>1. PICK d \in {x \in Drives : present[x]}, lba \in Lbas, data \in Data :
          \/ call' = Request("read", d, lba, Garbage)
          \/ call' = Request("write", d, lba, data)
          \/ call' = Request("flush", d, NoLba, Garbage)
    BY DEF Call
  <1>2. d \in Drives /\ kind[d] = "ata"
    BY <1>1 DEF Devices
  <1> QED BY <1>1, <1>2, Literals DEF Request, Requests

\* What answers without BSY and is no packet drive is a disk.
LEMMA SettledIsDisk ==
  ASSUME TypeOK, Places, Settle, kind[sel] # "atapi"
  PROVE  kind[sel] = "ata"
  <1>1. kind[sel] \in Kinds /\ sel = call.drive
    BY IdeAssumption DEF TypeOK, Settle
  <1>2. kind[sel] # "nobus"
    BY DEF Settle, Busy
  <1> QED BY <1>1, <1>2 DEF Settle, Places, Kinds

LEMMA PlacesStep ==
  ASSUME TypeOK, Places, Devices, [Next]_vars
  PROVE  Places'
  <1>0. call.drive \in Drives /\ sel \in Drives
    BY DEF TypeOK, Requests
  <1>a. ASSUME NEW found \in BOOLEAN, Over(found), UNCHANGED kind
        PROVE  Places'
    BY <1>a, <1>0 DEF Over, Places, NoRequest, Request, TypeOK, Requests
  <1>b. ASSUME Poll, UNCHANGED kind
        PROVE  Places'
    <2>1. CASE UNCHANGED <<pc, call, present, gaveUp>>
      BY <1>b, <2>1 DEF Places
    <2>2. CASE Over(FALSE)
      BY <1>a, <1>b, <2>2
    <2> QED BY <1>b, <2>1, <2>2, PollIsOver
  <1>1. CASE Call
    BY <1>1, CallEffect DEF Call, hardware, Places
  <1>2. CASE Scan
    BY <1>2 DEF Scan, hardware, Places, Request
  <1>3. CASE WaitReady
    <2>1. CASE Poll
      BY <1>3, <2>1, <1>b DEF WaitReady
    <2>2. CASE Fails
      BY <1>3, <2>2, <1>a, FailsIsOver DEF WaitReady
    <2>3. CASE pc' = (IF call.op = "flush" THEN "done" ELSE "drq") /\ UNCHANGED call
      BY <1>3, <2>3 DEF WaitReady, Places
    <2> QED BY <1>3, <2>1, <2>2, <2>3 DEF WaitReady
  <1>4. CASE WaitDrq
    <2>1. CASE Poll
      BY <1>4, <2>1, <1>b DEF WaitDrq
    <2>2. CASE Fails
      BY <1>4, <2>2, <1>a, FailsIsOver DEF WaitDrq
    <2>3. CASE TransferIn
      <3>1. Over(FALSE) \/ Over(TRUE)
        BY <2>3, ReturnIsOver, ProbedIsOver DEF TransferIn
      <3> QED BY <1>4, <3>1, <1>a DEF WaitDrq
    <2>4. CASE TransferOut
      BY <1>4, <2>4 DEF WaitDrq, TransferOut, Places
    <2> QED BY <1>4, <2>1, <2>2, <2>3, <2>4 DEF WaitDrq
  <1>5. CASE WaitDone
    <2>1. CASE Poll
      BY <1>5, <2>1, <1>b DEF WaitDone, hardware
    <2>2. CASE Return(~Err(sel), Garbage)
      <3>1. Over(FALSE)
        BY <1>5, <2>2, ReturnIsOver DEF WaitDone, Places
      <3> QED BY <1>5, <3>1, <1>a DEF WaitDone, hardware
    <2> QED BY <1>5, <2>1, <2>2 DEF WaitDone
  <1>6. CASE Probe
    <2>1. CASE Probed(FALSE)
      <3>1. Over(FALSE)
        BY <1>6, <2>1, ProbedIsOver DEF Probe, Places
      <3> QED BY <1>6, <3>1, <1>a DEF Probe
    <2>2. CASE /\ kind[call.drive] # "none" /\ UNCHANGED kind
               /\ pc' = "settle" /\ UNCHANGED <<present, call, left>>
      <3>1. call.op = "identify"
        BY <1>6 DEF Probe, Places
      <3> QED BY <2>2, <3>1 DEF Places
    <2> QED BY <1>6, <2>1, <2>2 DEF Probe
  <1>7. CASE Settle
    <2>1. CASE Probed(FALSE)
      <3>1. Over(FALSE)
        BY <1>7, <2>1, ProbedIsOver DEF Settle, Places
      <3> QED BY <1>7, <3>1, <1>a DEF Settle, hardware
    <2>2. CASE pc' = "drq" /\ UNCHANGED <<present, call>> /\ kind[sel] # "atapi"
      <3>1. kind[sel] = "ata"
        BY <1>7, <2>2, SettledIsDisk
      <3> QED BY <1>7, <2>2, <3>1 DEF Settle, hardware, Places, TypeOK
    <2> QED BY <1>7, <2>1, <2>2 DEF Settle
  <1>8. ASSUME NEW d \in Drives, DriveStep(d)
        PROVE  Places'
    BY <1>8 DEF DriveStep, OfferSector, EndCommand, FailCommand, Places
  <1>9. CASE UNCHANGED vars
    BY <1>9 DEF vars, Places
  <1> QED BY <1>1, <1>2, <1>3, <1>4, <1>5, <1>6, <1>7, <1>8, <1>9 DEF Next, Driver

LEMMA DevicesStep ==
  ASSUME TypeOK, Places, Devices, [Next]_vars
  PROVE  Devices'
  <1>0. present \in [Drives -> BOOLEAN] /\ call.drive \in Drives
    BY DEF TypeOK, Requests
  <1>a. ASSUME Over(FALSE), UNCHANGED kind
        PROVE  Devices'
    BY <1>a, <1>0 DEF Over, Devices, Drives
  <1>b. ASSUME Poll, UNCHANGED kind
        PROVE  Devices'
    BY <1>a, <1>b, PollIsOver DEF Devices
  <1>1. CASE Call
    BY <1>1 DEF Call, hardware, Devices
  <1>2. CASE Scan
    BY <1>2 DEF Scan, hardware, Devices
  <1>3. CASE WaitReady
    BY <1>3, <1>a, <1>b, FailsIsOver DEF WaitReady, Devices
  <1>4. CASE WaitDrq
    <2>1. CASE Poll \/ Fails
      BY <1>4, <2>1, <1>a, <1>b, FailsIsOver DEF WaitDrq
    <2>2. CASE TransferIn
      <3>1. CASE call.op = "read"
        BY <1>4, <2>2, <3>1, <1>a, ReturnIsOver DEF WaitDrq, TransferIn
      <3>2. CASE call.op # "read"
        <4>1. present' = [present EXCEPT ![call.drive] = TRUE]
          BY <2>2, <3>2, ProbedMoves DEF TransferIn
        <4>2. kind[call.drive] = "ata" /\ UNCHANGED kind
          BY <1>4 DEF WaitDrq, Places
        <4> QED BY <4>1, <4>2, <1>0 DEF Devices
      <3> QED BY <3>1, <3>2
    <2>3. CASE TransferOut
      BY <1>4, <2>3 DEF WaitDrq, TransferOut, Devices
    <2> QED BY <1>4, <2>1, <2>2, <2>3 DEF WaitDrq
  <1>5. CASE WaitDone
    <2>1. call.op # "identify" /\ UNCHANGED kind
      BY <1>5 DEF WaitDone, Places, hardware
    <2> QED BY <1>5, <2>1, <1>a, <1>b, ReturnIsOver DEF WaitDone
  <1>6. CASE Probe
    <2>1. call.op = "identify" /\ UNCHANGED kind
      BY <1>6 DEF Probe, Places
    <2>2. Probed(FALSE) \/ UNCHANGED present
      BY <1>6 DEF Probe
    <2> QED BY <2>1, <2>2, <1>a, ProbedIsOver DEF Devices
  <1>7. CASE Settle
    <2>1. call.op = "identify" /\ UNCHANGED kind
      BY <1>7 DEF Settle, Places, hardware
    <2>2. Probed(FALSE) \/ UNCHANGED present
      BY <1>7 DEF Settle
    <2> QED BY <2>1, <2>2, <1>a, ProbedIsOver DEF Devices
  <1>8. ASSUME NEW d \in Drives, DriveStep(d)
        PROVE  Devices'
    BY <1>8 DEF DriveStep, OfferSector, EndCommand, FailCommand, Devices
  <1>9. CASE UNCHANGED vars
    BY <1>9 DEF vars, Devices
  <1> QED BY <1>1, <1>2, <1>3, <1>4, <1>5, <1>6, <1>7, <1>8, <1>9 DEF Next, Driver

\* What a drive may be left in: one that is not a disk calm, one with an error
\* calm, one that stores with a sector to store.
DriveOK(k, state) ==
    /\ k # "ata" => ~state.busy /\ ~state.drq /\ state.job = NoJob
    /\ state.err => ~state.busy /\ ~state.drq /\ state.job = NoJob
    /\ state.job.op = "store" => state.job.data \in Data

LEMMA DrivesOneByOne ==
  DrivesOK <=> \A d \in Drives : DriveOK(kind[d], drive[d])
  BY DEF DrivesOK, DriveOK, Calm

\* A step that changes one drive at most need only leave that one as it should be.
LEMMA OneDrive ==
  ASSUME TypeOK, DrivesOK, NEW d \in Drives, UNCHANGED kind, NEW state,
         drive' = drive \/ drive' = [drive EXCEPT ![d] = state],
         DriveOK(kind[d], state)
  PROVE  DrivesOK'
  <1>1. \A e \in Drives : DriveOK(kind[e], drive'[e])
    BY DrivesOneByOne DEF TypeOK
  <1>2. DrivesOK' <=> \A e \in Drives : DriveOK(kind'[e], drive'[e])
    BY DEF DrivesOK, DriveOK, Calm
  <1> QED BY <1>1, <1>2

LEMMA QuietIsOK ==
  ASSUME NEW k
  PROVE  DriveOK(k, Quiet) /\ DriveOK(k, [Quiet EXCEPT !.err = TRUE])
  BY DEF DriveOK, Quiet, NoJob, Job

LEMMA AcceptedIsOK ==
  ASSUME NEW d, NEW job, job.op = "store" => job.data \in Data
  PROVE  DriveOK("ata", Accept(d, job))
  BY DEF DriveOK, Accept, Quiet

LEMMA DrivesStep ==
  ASSUME TypeOK, Places, DrivesOK, [Next]_vars
  PROVE  DrivesOK'
  <1>0. /\ call.drive \in Drives /\ sel \in Drives
        /\ drive \in [Drives -> DriveStates]
        /\ \A d \in Drives : DriveOK(kind[d], drive[d])
    BY DrivesOneByOne DEF TypeOK, Requests, DriveStates
  <1>a. ASSUME UNCHANGED <<kind, drive>>
        PROVE  DrivesOK'
    BY <1>a DEF DrivesOK, Calm
  <1>1. CASE Call \/ Scan \/ Settle \/ WaitDone
    BY <1>1, <1>a DEF Call, Scan, Settle, WaitDone, hardware
  <1>2. CASE WaitReady
    <2>1. CASE UNCHANGED drive
      BY <1>2, <2>1, <1>a DEF WaitReady
    <2>2. CASE Command(call.drive, Job(call.op, call.lba, Garbage))
      <3>1. kind[call.drive] = "ata" /\ UNCHANGED kind
        BY <1>2 DEF WaitReady, Places
      <3>2. DriveOK("ata", Accept(call.drive, Job(call.op, call.lba, Garbage)))
        BY <1>2, AcceptedIsOK DEF WaitReady, Places, Job
      <3> QED BY <2>2, <3>1, <3>2, <1>0, OneDrive DEF Command
    <2> QED BY <1>2, <2>1, <2>2 DEF WaitReady
  <1>3. CASE WaitDrq
    <2>1. sel = call.drive /\ kind[sel] = "ata" /\ UNCHANGED kind
      BY <1>3 DEF WaitDrq, TypeOK, Places
    <2>2. CASE UNCHANGED drive
      BY <2>1, <2>2, <1>a
    <2>3. CASE TransferIn
      <3>1. drive' = drive \/ drive' = [drive EXCEPT ![sel] = Quiet]
        BY <2>3 DEF TransferIn
      <3> QED BY <2>1, <3>1, <1>0, QuietIsOK, OneDrive
    <2>4. CASE TransferOut
      <3> DEFINE job == Job("store", drive[sel].job.lba, call.data)
      <3>1. drive' = drive \/ drive' = [drive EXCEPT ![sel] = Accept(sel, job)]
        BY <2>4 DEF TransferOut
      <3>2. job.data \in Data
        BY <2>4 DEF TransferOut, Places, Job
      <3>3. DriveOK("ata", Accept(sel, job))
        BY <3>2, AcceptedIsOK
      <3> HIDE DEF job
      <3> QED BY <2>1, <3>1, <3>3, <1>0, OneDrive
    <2> QED BY <1>3, <2>2, <2>3, <2>4 DEF WaitDrq
  <1>4. CASE Probe
    <2>1. UNCHANGED kind /\ kind[call.drive] \in Kinds
      BY <1>4, <1>0, IdeAssumption DEF Probe, TypeOK
    <2>2. CASE UNCHANGED drive
      BY <2>1, <2>2, <1>a
    <2>3. CASE kind[call.drive] = "ata" /\ Command(call.drive, Job("identify", NoLba, Garbage))
      <3>1. DriveOK("ata", Accept(call.drive, Job("identify", NoLba, Garbage)))
        BY AcceptedIsOK DEF Job
      <3> QED BY <2>1, <2>3, <3>1, <1>0, OneDrive DEF Command
    <2>4. CASE kind[call.drive] = "atapi" /\ drive' = [drive EXCEPT ![call.drive].err = TRUE]
      <3> DEFINE state == [drive[call.drive] EXCEPT !.err = TRUE]
      <3>1. DriveOK("atapi", drive[call.drive]) /\ drive[call.drive] \in DriveStates
        BY <2>4, <1>0
      <3>2. DriveOK("atapi", state)
        BY <3>1 DEF DriveOK, DriveStates
      <3>3. drive' = [drive EXCEPT ![call.drive] = state]
        BY <2>4
      <3>4. DriveOK(kind[call.drive], state)
        BY <2>4, <3>2
      <3> HIDE DEF state
      <3> QED BY <2>1, <3>3, <3>4, <1>0, OneDrive
    <2> QED BY <1>4, <2>1, <2>2, <2>3, <2>4 DEF Probe, Kinds
  <1>5. ASSUME NEW d \in Drives, DriveStep(d)
        PROVE  DrivesOK'
    <2>1. UNCHANGED kind
      BY <1>5 DEF DriveStep, OfferSector, EndCommand, FailCommand
    <2>2. CASE OfferSector(d)
      <3> DEFINE state == [drive[d] EXCEPT !.busy = FALSE, !.drq = TRUE]
      <3>1. DriveOK(kind[d], drive[d]) /\ drive[d] \in DriveStates /\ drive[d].busy
        BY <2>2, <1>0 DEF OfferSector
      <3>2. DriveOK(kind[d], state)
        BY <3>1 DEF DriveOK, DriveStates
      <3>3. drive' = [drive EXCEPT ![d] = state]
        BY <2>2, <1>0 DEF OfferSector
      <3> HIDE DEF state
      <3> QED BY <2>1, <3>2, <3>3, OneDrive
    <2>3. CASE EndCommand(d) \/ FailCommand(d)
      <3>1. \/ drive' = [drive EXCEPT ![d] = Quiet]
            \/ drive' = [drive EXCEPT ![d] = [Quiet EXCEPT !.err = TRUE]]
        BY <2>3 DEF EndCommand, FailCommand
      <3> QED BY <2>1, <3>1, QuietIsOK, OneDrive
    <2> QED BY <1>5, <2>2, <2>3 DEF DriveStep
  <1>6. CASE UNCHANGED vars
    BY <1>6, <1>a DEF vars
  <1> QED BY <1>1, <1>2, <1>3, <1>4, <1>5, <1>6 DEF Next, Driver

-------------------------------------------------------------------------------
(* Only the drive selected last may be busy                                 *)

NoneStarts == \A d \in Drives : drive'[d].busy => drive[d].busy

LEMMA OverRests ==
  ASSUME TypeOK, Places, OthersRest, NEW found, Over(found), NoneStarts,
         pc # "idle",
         call.op = "identify" => sel' = call.drive /\ ~drive[call.drive].busy,
         call.op # "identify" => sel' = sel
  PROVE  OthersRest'
  <1>0. pc \in {"scan", "settle", "ready", "drq", "done"}
    BY DEF TypeOK
  <1>1. CASE call.op # "identify"
    <2>1. pc' = "idle" /\ sel' = sel
      BY <1>1 DEF Over
    <2>2. \A d \in Drives \ {sel} : ~drive[d].busy
      BY <1>0, <1>1 DEF Places, OthersRest
    <2> QED BY <2>1, <2>2 DEF OthersRest, NoneStarts
  <1>2. CASE call.op = "identify" /\ call.drive = 0
    <2>1. pc' = "scan"
      BY <1>2 DEF Over
    <2>2. ~drive'[0].busy
      BY <1>2 DEF NoneStarts, Drives
    <2> QED BY <2>1, <2>2 DEF OthersRest
  <1>3. CASE call.op = "identify" /\ call.drive = 1
    <2>1. pc' = "idle" /\ sel' = 1
      BY <1>3 DEF Over
    <2>2. pc \in {"scan", "settle", "drq"}
      BY <1>0, <1>3 DEF Places
    <2>3. ~drive'[0].busy
      BY <1>3, <2>2 DEF OthersRest, NoneStarts, Drives
    <2> QED BY <2>1, <2>3 DEF OthersRest, Drives
  <1>4. call.drive \in {0, 1}
    BY DEF TypeOK, Requests, Drives
  <1> QED BY <1>1, <1>2, <1>3, <1>4

LEMMA CommandRests ==
  ASSUME TypeOK, NEW d \in Drives, NEW job, Command(d, job)
  PROVE  sel' = d /\ \A e \in Drives \ {d} : drive'[e] = drive[e]
  BY DEF Command, TypeOK

LEMMA RestStep ==
  ASSUME TypeOK, Places, DrivesOK, OthersRest, [Next]_vars
  PROVE  OthersRest'
  <1>0. /\ call.drive \in Drives /\ sel \in Drives
        /\ drive \in [Drives -> DriveStates]
        /\ call.drive = 0 \/ call.drive = 1
    BY DEF TypeOK, Requests, DriveStates, Drives
  <1>a. ASSUME NoneStarts, UNCHANGED <<pc, sel, call>>
        PROVE  OthersRest'
    BY <1>a, <1>0 DEF NoneStarts, OthersRest, Drives
  <1>b. ASSUME Poll, NoneStarts, UNCHANGED sel,
               pc \in {"ready", "drq", "done"},
               pc # "drq" => call.op # "identify"
        PROVE  OthersRest'
    <2>1. CASE UNCHANGED <<pc, call, present, gaveUp>>
      BY <1>a, <1>b, <2>1
    <2>2. CASE Over(FALSE)
      <3>1. call.op = "identify" => sel' = call.drive /\ ~drive[call.drive].busy
        BY <1>b DEF OthersRest, TypeOK
      <3> QED BY <1>b, <2>2, <3>1, OverRests
    <2> QED BY <1>b, <2>1, <2>2, PollIsOver
  <1>1. CASE Call
    BY <1>1 DEF Call, hardware, OthersRest
  <1>2. CASE Scan
    <2>1. pc' = "scan" /\ call'.drive = 0
      BY <1>2 DEF Scan, Request
    <2> QED BY <2>1 DEF OthersRest
  <1>3. CASE WaitReady
    <2>1. call.op # "identify" /\ pc = "ready"
      BY <1>3 DEF WaitReady, Places
    <2>2. CASE Poll /\ UNCHANGED <<drive, sel>>
      BY <2>1, <2>2, <1>b DEF NoneStarts
    <2>3. CASE Fails /\ UNCHANGED <<drive, sel>>
      <3>1. Over(FALSE)
        BY <2>3, FailsIsOver
      <3> QED BY <2>1, <2>3, <3>1, OverRests DEF NoneStarts
    <2>4. CASE /\ ~Busy(sel) /\ Command(call.drive, Job(call.op, call.lba, Garbage))
               /\ pc' \in {"done", "drq"} /\ UNCHANGED call
      <3>1. \A d \in Drives : ~drive[d].busy
        BY <2>1, <2>4 DEF OthersRest, Busy
      <3>2. sel' = call.drive /\ \A e \in Drives \ {call.drive} : ~drive'[e].busy
        BY <2>4, <3>1, <1>0, CommandRests
      <3> QED BY <2>1, <2>4, <3>2 DEF OthersRest
    <2> QED BY <1>3, <2>2, <2>3, <2>4 DEF WaitReady
  <1>4. CASE WaitDrq
    <2>1. pc = "drq" /\ sel = call.drive /\ UNCHANGED sel
      BY <1>4 DEF WaitDrq, TypeOK
    <2>2. call.op = "identify" => ~drive[call.drive].busy
      BY <2>1 DEF OthersRest
    <2>3. CASE Poll /\ UNCHANGED drive
      BY <2>1, <2>3, <1>b DEF NoneStarts
    <2>4. CASE Fails /\ UNCHANGED drive
      <3>1. Over(FALSE)
        BY <2>4, FailsIsOver
      <3> QED BY <2>1, <2>2, <2>4, <3>1, OverRests DEF NoneStarts
    <2>5. CASE TransferIn
      <3>1. Over(FALSE) \/ Over(TRUE)
        BY <2>5, ReturnIsOver, ProbedIsOver DEF TransferIn
      <3>2. NoneStarts
        BY <2>5, <1>0 DEF TransferIn, NoneStarts, Quiet
      <3> QED BY <2>1, <2>2, <3>1, <3>2, OverRests
    <2>6. CASE TransferOut
      <3>1. \A d \in Drives \ {sel} : drive'[d] = drive[d]
        BY <2>6, <1>0 DEF TransferOut
      <3>2. pc' = "done" /\ call.op # "identify"
        BY <2>6 DEF TransferOut
      <3> QED BY <2>1, <3>1, <3>2 DEF OthersRest
    <2> QED BY <1>4, <2>3, <2>4, <2>5, <2>6 DEF WaitDrq
  <1>5. CASE WaitDone
    <2>1. call.op # "identify" /\ pc = "done" /\ NoneStarts /\ UNCHANGED sel
      BY <1>5 DEF WaitDone, Places, hardware, NoneStarts
    <2>2. CASE Poll
      BY <2>1, <2>2, <1>b
    <2>3. CASE Return(~Err(sel), Garbage)
      <3>1. Over(FALSE)
        BY <2>1, <2>3, ReturnIsOver
      <3> QED BY <2>1, <3>1, OverRests
    <2> QED BY <1>5, <2>2, <2>3 DEF WaitDone
  <1>6. CASE Probe
    <2>1. call.op = "identify" /\ pc = "scan" /\ kind[call.drive] \in Kinds
      BY <1>6, <1>0, IdeAssumption DEF Probe, Places, TypeOK
    <2>2. CASE kind[call.drive] = "none" /\ sel' = call.drive /\ Probed(FALSE) /\ UNCHANGED drive
      <3>1. Over(FALSE)
        BY <2>1, <2>2, ProbedIsOver
      <3>2. ~drive[call.drive].busy
        BY <2>2, <1>0 DEF DrivesOK, Calm
      <3> QED BY <2>1, <2>2, <3>1, <3>2, OverRests DEF NoneStarts
    <2>3. CASE /\ pc' = "settle" /\ UNCHANGED call
               /\ \A e \in Drives \ {call.drive} : drive'[e] = drive[e]
      BY <2>1, <2>3, <1>0 DEF OthersRest, Drives
    <2>4. \/ Command(call.drive, Job("identify", NoLba, Garbage))
          \/ drive' = [drive EXCEPT ![call.drive].err = TRUE]
          \/ UNCHANGED drive
          => \A e \in Drives \ {call.drive} : drive'[e] = drive[e]
      BY <1>0, CommandRests
    <2> QED BY <1>6, <2>1, <2>2, <2>3, <2>4 DEF Probe, Kinds
  <1>7. CASE Settle
    <2>1. call.op = "identify" /\ pc = "settle" /\ sel = call.drive /\ UNCHANGED <<drive, sel>>
      BY <1>7 DEF Settle, Places, hardware, TypeOK
    <2>2. ~drive[call.drive].busy
      BY <1>7, <2>1 DEF Settle, Busy
    <2>3. CASE Probed(FALSE)
      <3>1. Over(FALSE)
        BY <2>1, <2>3, ProbedIsOver
      <3> QED BY <2>1, <2>2, <3>1, OverRests DEF NoneStarts
    <2>4. CASE pc' = "drq" /\ UNCHANGED call
      BY <2>1, <2>2, <2>4 DEF OthersRest
    <2> QED BY <1>7, <2>3, <2>4 DEF Settle
  <1>8. ASSUME NEW d \in Drives, DriveStep(d)
        PROVE  OthersRest'
    <2>1. NoneStarts
      BY <1>8, <1>0 DEF DriveStep, OfferSector, EndCommand, FailCommand, NoneStarts, Quiet, DriveStates
    <2> QED BY <1>8, <2>1, <1>a DEF DriveStep, OfferSector, EndCommand, FailCommand
  <1>9. CASE UNCHANGED vars
    BY <1>9, <1>a DEF vars, NoneStarts
  <1> QED BY <1>1, <1>2, <1>3, <1>4, <1>5, <1>6, <1>7, <1>8, <1>9 DEF Next, Driver

-------------------------------------------------------------------------------
(* The truth, as long as no wait has timed out                              *)

\* A call that returns leaves the sectors as its caller must expect them.
LEMMA ReturnTruth ==
  ASSUME TypeOK, Places, NEW ok \in BOOLEAN, NEW data \in Contents, Return(ok, data),
         UNCHANGED disk, AllCalm',
         call.op = "write" /\ ok => disk[call.drive][call.lba] = call.data,
         call.op = "read" /\ ok =>
            /\ data = disk[call.drive][call.lba]
            /\ data \in expected[call.drive][call.lba],
         \A d \in Drives, lba \in Lbas :
            \/ disk[d][lba] \in expected[d][lba]
            \/ /\ call.op = "write" /\ d = call.drive /\ lba = call.lba
               /\ disk[d][lba] = call.data
  PROVE  Truth'
  <1>0. pc' = "idle" /\ call.drive \in Drives /\ call.lba \in Lbas
    BY DEF Return, TypeOK, Requests
  <1>1. InStep' /\ Arrived' /\ Forgotten'
    BY <1>0 DEF InStep, Arrived, Forgotten
  <1>2. \A d \in Drives, lba \in Lbas : disk[d][lba] \in expected'[d][lba]
    <2>1. CASE call.op = "write"
      <3> DEFINE old == IF ok THEN {} ELSE expected[call.drive][call.lba]
      <3>1. expected' = [expected EXCEPT ![call.drive][call.lba] = old \cup {call.data}]
        BY <2>1 DEF Return
      <3>2. disk[call.drive][call.lba] \in old \cup {call.data}
        BY <2>1, <1>0
      <3>3. expected'[call.drive][call.lba] = old \cup {call.data}
        BY <3>1, <1>0 DEF TypeOK
      <3>4. \A d \in Drives, lba \in Lbas :
              d # call.drive \/ lba # call.lba => expected'[d][lba] = expected[d][lba]
        BY <3>1, <1>0 DEF TypeOK
      <3> HIDE DEF old
      <3> QED BY <3>2, <3>3, <3>4
    <2>2. CASE call.op # "write"
      BY <2>2 DEF Return
    <2> QED BY <2>1, <2>2
  <1>3. Kept'
    BY <1>2 DEF Kept
  <1>4. ReadsTellTheTruth'
    <2>1. ret' = [request |-> call, ok |-> ok, data |-> data]
      BY DEF Return
    <2>2. call.op = "read" => expected' = expected
      BY DEF Return
    <2> QED BY <2>1, <2>2, <1>0 DEF ReadsTellTheTruth
  <1> QED BY <1>1, <1>3, <1>4 DEF Truth

LEMMA ProbedTruth ==
  ASSUME TypeOK, Places, call.op = "identify", NEW found \in BOOLEAN, Probed(found),
         UNCHANGED disk, AllCalm', ret = NoAnswer,
         \A d \in Drives, lba \in Lbas : disk[d][lba] \in expected[d][lba]
  PROVE  Truth'
  <1>1. Over(found) /\ ret' = ret /\ expected' = expected
    BY ProbedIsOver
  <1>2. pc' \in {"idle", "scan"}
    BY <1>1 DEF Over
  <1>3. InStep' /\ Arrived' /\ Forgotten' /\ Kept'
    BY <1>1, <1>2 DEF InStep, Arrived, Forgotten, Kept
  <1>4. ReadsTellTheTruth'
    BY <1>1 DEF ReadsTellTheTruth, NoAnswer, NoRequest, Request
  <1> QED BY <1>3, <1>4 DEF Truth

\* In between, a step that leaves disk and expectations alone needs only leave
\* the drives in step.
LEMMA StillTruth ==
  ASSUME Truth, Forgotten', InStep', Arrived', pc # "idle", pc # "done", pc' # "idle",
         UNCHANGED <<disk, expected>>
  PROVE  Truth'
  BY DEF Truth, Kept, ReadsTellTheTruth

\* Nothing the truth speaks of changes.
LEMMA SameTruth ==
  ASSUME Truth, UNCHANGED <<drive, disk, sel, pc, call, ret, expected, gaveUp>>
  PROVE  Truth'
  BY DEF Truth, InStep, AllCalm, Calm, Asked, Arrived, Kept, Forgotten, ReadsTellTheTruth

LEMMA PollTruth ==
  ASSUME TypeOK, Truth, Poll, ~gaveUp', UNCHANGED <<drive, disk, sel>>
  PROVE  Truth'
  BY PollIsOver, SameTruth DEF callers

LEMMA FailsTruth ==
  ASSUME TypeOK, Places, Truth, Fails, AllCalm', UNCHANGED disk,
         pc \in {"ready", "drq"}
  PROVE  Truth'
  <1>1. /\ \A d \in Drives, lba \in Lbas : disk[d][lba] \in expected[d][lba]
        /\ ret = NoAnswer
    BY DEF Truth, Kept, Forgotten
  <1>2. CASE call.op = "identify"
    BY <1>1, <1>2, ProbedTruth DEF Fails
  <1>3. CASE call.op # "identify"
    BY <1>1, <1>3, ReturnTruth, Literals DEF Fails
  <1> QED BY <1>2, <1>3

LEMMA DriveStepTruth ==
  ASSUME TypeOK, Places, DrivesOK, Truth, NEW d \in Drives, DriveStep(d)
  PROVE  Truth'
  <1>0. /\ drive \in [Drives -> DriveStates] /\ disk \in [Drives -> [Lbas -> Data]]
        /\ sel \in Drives /\ call.lba \in Lbas
        /\ pc \in {"idle", "scan", "settle", "ready", "drq", "done"}
    BY DEF TypeOK, DriveStates, Requests
  <1>1. drive[d].busy /\ UNCHANGED <<sel, pc, call, ret, expected>>
    BY DEF DriveStep, OfferSector, EndCommand, FailCommand
  <1>2. d = sel /\ drive[sel].job = Asked /\ pc \in {"settle", "drq", "done"}
    BY <1>0, <1>1 DEF Truth, InStep, AllCalm, Calm
  <1>3. \A e \in Drives \ {sel} : Calm(e) /\ drive'[e] = drive[e]
    BY <1>0, <1>2 DEF Truth, InStep, DriveStep, OfferSector, EndCommand, FailCommand
  <1>4. /\ pc # "done" => drive[sel].job.op \in {"read", "write", "identify"}
        /\ pc = "done" => drive[sel].job.op = IF call.op = "write" THEN "store" ELSE "flush"
        /\ pc = "done" /\ call.op = "write" =>
              drive[sel].job.lba = call.lba /\ drive[sel].job.data = call.data
    BY <1>2 DEF Places, Asked, Job
  <1>5. pc # "idle" /\ pc' # "idle" /\ Forgotten' /\ ReadsTellTheTruth'
    BY <1>1, <1>2 DEF Truth, Forgotten, ReadsTellTheTruth
  <1>6. CASE OfferSector(d)
    <2>1. pc # "done"
      BY <1>2, <1>4, <1>6 DEF OfferSector, Serving
    <2>2. drive'[sel].job = drive[sel].job /\ UNCHANGED disk
      BY <1>0, <1>2, <1>6 DEF OfferSector, DriveStates
    <2>3. InStep'
      BY <1>1, <1>2, <1>3, <2>1, <2>2 DEF InStep, Calm, Asked
    <2>4. Arrived'
      BY <1>1, <2>1 DEF Arrived
    <2> QED BY <1>1, <1>5, <2>1, <2>2, <2>3, <2>4, StillTruth
  <1>7. CASE EndCommand(d) \/ FailCommand(d)
    <2>1. drive'[sel] = Quiet \/ drive'[sel] = [Quiet EXCEPT !.err = TRUE]
      BY <1>0, <1>2, <1>7 DEF EndCommand, FailCommand
    <2>2. Calm(sel)'
      BY <1>1, <2>1 DEF Calm, Quiet
    <2>3. InStep'
      BY <1>1, <1>2, <1>3, <2>2 DEF InStep, Calm
    <2>4. \/ UNCHANGED disk
          \/ /\ drive[sel].job.op = "store"
             /\ disk' = [disk EXCEPT ![sel][drive[sel].job.lba] = drive[sel].job.data]
      BY <1>2, <1>7 DEF EndCommand, FailCommand
    <2>5. drive[sel].job.op = "store" => pc = "done" /\ call.op = "write"
      BY <1>4
    <2>6. \/ UNCHANGED disk
          \/ /\ pc = "done" /\ call.op = "write"
             /\ disk' = [disk EXCEPT ![sel][call.lba] = call.data]
      BY <1>4, <2>4, <2>5
    <2>7. Kept'
      <3>1. CASE UNCHANGED disk
        BY <1>1, <3>1 DEF Truth, Kept
      <3>2. CASE /\ pc = "done" /\ call.op = "write"
                 /\ disk' = [disk EXCEPT ![sel][call.lba] = call.data]
        <4>1. \A e \in Drives, lba \in Lbas :
                 disk'[e][lba] = IF e = sel /\ lba = call.lba THEN call.data ELSE disk[e][lba]
          BY <3>2, <1>0
        <4>2. \A e \in Drives, lba \in Lbas :
                 e # sel \/ lba # call.lba => disk[e][lba] \in expected[e][lba]
          BY DEF Truth, Kept
        <4> QED BY <1>1, <3>2, <4>1, <4>2 DEF Kept
      <3> QED BY <2>6, <3>1, <3>2
    <2>8. Arrived'
      <3>1. CASE EndCommand(d)
        <4>1. pc = "done" /\ call.op = "write" =>
                 disk' = [disk EXCEPT ![sel][call.lba] = call.data]
          BY <3>1, <1>2, <1>4 DEF EndCommand
        <4> QED BY <1>0, <1>1, <4>1 DEF Arrived
      <3>2. CASE FailCommand(d)
        <4>1. drive'[sel].err
          BY <3>2, <1>0, <1>2 DEF FailCommand, Quiet
        <4> QED BY <1>1, <4>1 DEF Arrived
      <3> QED BY <1>7, <3>1, <3>2
    <2> QED BY <1>5, <2>3, <2>7, <2>8 DEF Truth
  <1> QED BY <1>6, <1>7 DEF DriveStep

\* A command reaches a drive that is calm: none is ignored.
LEMMA CommandInStep ==
  ASSUME TypeOK, AllCalm, NEW d \in Drives, NEW job, Command(d, job)
  PROVE  /\ sel' = d
         /\ drive'[d] = Accept(d, job)
         /\ \A e \in Drives \ {d} : Calm(e)'
  BY DEF Command, AllCalm, Calm, TypeOK

LEMMA TruthStep ==
  ASSUME TypeOK, Places, DrivesOK, Truth, [Next]_vars, ~gaveUp'
  PROVE  Truth'
  <1>0. /\ drive \in [Drives -> DriveStates] /\ disk \in [Drives -> [Lbas -> Data]]
        /\ sel \in Drives /\ call.drive \in Drives /\ call.lba \in Lbas
        /\ pc \in {"settle", "drq", "done"} => sel = call.drive
    BY DEF TypeOK, DriveStates, Requests
  <1>1. CASE Call
    <2>1. AllCalm /\ pc' = "ready" /\ UNCHANGED <<drive, disk, expected>>
      BY <1>1 DEF Call, hardware, Truth, InStep
    <2>2. \A d \in Drives, lba \in Lbas : disk[d][lba] \in expected[d][lba]
      BY <1>1 DEF Call, Truth, Kept
    <2>3. InStep' /\ Arrived' /\ Kept'
      BY <2>1, <2>2 DEF InStep, AllCalm, Calm, Arrived, Kept
    <2> QED BY <1>1, <2>1, <2>3 DEF Call, Truth, Forgotten, ReadsTellTheTruth
  <1>2. CASE Scan
    <2>1. AllCalm /\ pc' = "scan" /\ UNCHANGED <<drive, disk, expected>>
      BY <1>2 DEF Scan, hardware, Truth, InStep
    <2>2. \A d \in Drives, lba \in Lbas : disk[d][lba] \in expected[d][lba]
      BY <1>2 DEF Scan, Truth, Kept
    <2>3. InStep' /\ Arrived' /\ Kept'
      BY <2>1, <2>2 DEF InStep, AllCalm, Calm, Arrived, Kept
    <2> QED BY <1>2, <2>1, <2>3 DEF Scan, Truth, Forgotten, ReadsTellTheTruth
  <1>3. CASE WaitReady
    <2>1. pc = "ready" /\ AllCalm /\ UNCHANGED disk /\ ret = NoAnswer
      BY <1>3 DEF WaitReady, Truth, InStep, Forgotten
    <2>2. CASE Poll /\ UNCHANGED <<drive, sel>>
      BY <2>1, <2>2, PollTruth
    <2>3. CASE Fails /\ UNCHANGED <<drive, sel>>
      <3>1. AllCalm'
        BY <2>1, <2>3 DEF AllCalm, Calm
      <3> QED BY <2>1, <2>3, <3>1, FailsTruth
    <2>4. CASE /\ Command(call.drive, Job(call.op, call.lba, Garbage))
               /\ pc' = IF call.op = "flush" THEN "done" ELSE "drq"
               /\ UNCHANGED call
               /\ UNCHANGED callers
      <3>1. /\ sel' = call.drive
            /\ drive'[call.drive] = Accept(call.drive, Job(call.op, call.lba, Garbage))
            /\ \A e \in Drives \ {call.drive} : Calm(e)'
        BY <1>0, <2>1, <2>4, CommandInStep
      <3>2. drive'[call.drive].busy /\ drive'[call.drive].job = Job(call.op, call.lba, Garbage)
        BY <3>1 DEF Accept, Quiet
      <3>3. Asked' = Job(call.op, call.lba, Garbage)
        BY <2>4 DEF Asked
      <3>4. InStep'
        BY <2>4, <3>1, <3>2, <3>3 DEF InStep
      <3>5. Arrived' /\ Forgotten' /\ UNCHANGED expected
        BY <2>1, <2>4 DEF Arrived, Forgotten, callers
      <3> QED BY <2>1, <2>4, <3>4, <3>5, StillTruth
    <2> QED BY <1>3, <2>2, <2>3, <2>4 DEF WaitReady
  <1>4. CASE WaitDrq
    <2>1. /\ pc = "drq" /\ UNCHANGED <<disk, sel>> /\ sel = call.drive /\ ret = NoAnswer
          /\ \A d \in Drives \ {sel} : Calm(d)
          /\ Calm(sel) \/ drive[sel].job = Job(call.op, call.lba, Garbage)
          /\ \A d \in Drives, lba \in Lbas : disk[d][lba] \in expected[d][lba]
      BY <1>0, <1>4 DEF WaitDrq, Truth, InStep, Forgotten, Kept, Asked
    <2>2. CASE Err(sel) /\ Fails /\ UNCHANGED drive
      <3>1. Calm(sel)
        BY <1>0, <2>2 DEF DrivesOK, Err
      <3>2. AllCalm'
        BY <2>1, <2>2, <3>1 DEF AllCalm, Calm
      <3> QED BY <2>1, <2>2, <3>2, FailsTruth
    <2>3. CASE TransferIn /\ Drq(sel)
      <3>1. drive[sel].job = Job(call.op, call.lba, Garbage)
        BY <2>1, <2>3 DEF Calm, Drq
      <3>2. drive' = [drive EXCEPT ![sel] = Quiet]
        BY <2>3, <3>1 DEF TransferIn, Job
      <3>3. AllCalm'
        BY <1>0, <2>1, <3>2 DEF AllCalm, Calm, Quiet
      <3>4. CASE call.op = "read"
        <4>1. Offered(sel) = disk[call.drive][call.lba]
          BY <2>1, <3>1, <3>4 DEF Offered, Job
        <4>2. Offered(sel) \in Contents
          BY <4>1, <1>0, Literals
        <4>3. Return(TRUE, Offered(sel))
          BY <2>3, <3>4 DEF TransferIn
        <4> QED BY <1>0, <2>1, <3>3, <3>4, <4>1, <4>2, <4>3, ReturnTruth
      <3>5. CASE call.op # "read"
        BY <2>1, <2>3, <3>3, <3>5, ProbedTruth DEF TransferIn
      <3> QED BY <3>4, <3>5
    <2>4. CASE TransferOut /\ Drq(sel)
      <3> DEFINE job == Job("store", call.lba, call.data)
      <3>1. drive[sel].job = Job(call.op, call.lba, Garbage)
        BY <2>1, <2>4 DEF Calm, Drq
      <3>2. drive' = [drive EXCEPT ![sel] = Accept(sel, job)]
        BY <2>4, <3>1 DEF TransferOut, Job
      <3>3. drive'[sel].busy /\ drive'[sel].job = job
        BY <3>2, <1>0 DEF Accept, Quiet
      <3>4. pc' = "done" /\ call' = call /\ call.op = "write" /\ UNCHANGED callers
        BY <2>4 DEF TransferOut
      <3>5. Asked' = job
        BY <3>4 DEF Asked
      <3>6. \A e \in Drives \ {sel} : Calm(e)'
        BY <1>0, <2>1, <3>2 DEF Calm
      <3>7. InStep'
        BY <2>1, <3>3, <3>4, <3>5, <3>6 DEF InStep
      <3>8. Arrived' /\ Forgotten' /\ UNCHANGED expected
        BY <2>1, <3>3, <3>4 DEF Arrived, Forgotten, callers
      <3> QED BY <2>1, <3>4, <3>7, <3>8, StillTruth
    <2>5. CASE Poll /\ UNCHANGED drive
      BY <2>1, <2>5, PollTruth
    <2> QED BY <1>4, <2>2, <2>3, <2>4, <2>5 DEF WaitDrq
  <1>5. CASE WaitDone
    <2>1. pc = "done" /\ UNCHANGED <<drive, disk, sel>> /\ sel = call.drive /\ call.op \in {"write", "flush"}
      BY <1>0, <1>5 DEF WaitDone, hardware, Places
    <2>2. CASE Poll
      BY <2>1, <2>2, PollTruth
    <2>3. CASE ~Busy(sel) /\ Return(~Err(sel), Garbage)
      <3>1. ~drive[sel].busy /\ AllCalm'
        BY <2>1, <2>3 DEF Busy, Truth, InStep, AllCalm, Calm
      <3>2. call.op = "write" /\ ~Err(sel) => disk[call.drive][call.lba] = call.data
        BY <2>1, <3>1 DEF Truth, Arrived, Err
      <3>3. \A d \in Drives, lba \in Lbas :
               \/ disk[d][lba] \in expected[d][lba]
               \/ /\ call.op = "write" /\ d = call.drive /\ lba = call.lba
                  /\ disk[d][lba] = call.data
        BY <2>1 DEF Truth, Kept
      <3>4. (~Err(sel)) \in BOOLEAN
        BY <1>0 DEF Err, DriveStates
      <3> QED BY <2>1, <2>3, <3>1, <3>2, <3>3, <3>4, Literals, ReturnTruth
    <2> QED BY <1>5, <2>2, <2>3 DEF WaitDone
  <1>6. CASE Probe
    <2>1. /\ pc = "scan" /\ AllCalm /\ UNCHANGED disk /\ ret = NoAnswer
          /\ call.op = "identify" /\ call.lba = NoLba
          /\ \A d \in Drives, lba \in Lbas : disk[d][lba] \in expected[d][lba]
          /\ kind[call.drive] \in Kinds
      BY <1>0, <1>6, IdeAssumption
         DEF Probe, Truth, InStep, Forgotten, Kept, Places, TypeOK
    <2>2. CASE Probed(FALSE) /\ UNCHANGED drive
      <3>1. AllCalm'
        BY <2>1, <2>2 DEF AllCalm, Calm
      <3> QED BY <2>1, <2>2, <3>1, ProbedTruth
    <2>3. CASE /\ pc' = "settle" /\ UNCHANGED <<present, call, left>> /\ UNCHANGED callers
               /\ \/ Command(call.drive, Job("identify", NoLba, Garbage))
                  \/ sel' = call.drive /\ drive' = [drive EXCEPT ![call.drive].err = TRUE]
                  \/ sel' = call.drive /\ UNCHANGED drive
      <3>1. Asked' = Job("identify", NoLba, Garbage)
        BY <2>1, <2>3 DEF Asked
      <3>2. ASSUME Command(call.drive, Job("identify", NoLba, Garbage))
            PROVE  InStep'
        <4>1. /\ sel' = call.drive
              /\ drive'[call.drive] = Accept(call.drive, Job("identify", NoLba, Garbage))
              /\ \A e \in Drives \ {call.drive} : Calm(e)'
          BY <1>0, <2>1, <3>2, CommandInStep
        <4>2. drive'[call.drive].job = Job("identify", NoLba, Garbage)
          BY <4>1 DEF Accept, Quiet
        <4> QED BY <2>3, <3>1, <4>1, <4>2 DEF InStep
      <3>3. ASSUME sel' = call.drive, drive' = [drive EXCEPT ![call.drive].err = TRUE]
            PROVE  InStep'
        <4>1. \A d \in Drives : Calm(d)'
          BY <1>0, <2>1, <3>3 DEF AllCalm, Calm, DriveStates
        <4> QED BY <1>0, <2>3, <3>3, <4>1 DEF InStep
      <3>4. ASSUME sel' = call.drive, UNCHANGED drive
            PROVE  InStep'
        BY <1>0, <2>1, <2>3, <3>4 DEF InStep, AllCalm, Calm
      <3>5. InStep'
        BY <2>3, <3>2, <3>3, <3>4
      <3>6. Arrived' /\ Forgotten' /\ UNCHANGED expected
        BY <2>1, <2>3 DEF Arrived, Forgotten, callers
      <3> QED BY <2>1, <2>3, <3>5, <3>6, StillTruth
    <2> QED BY <1>6, <2>1, <2>2, <2>3 DEF Probe, Kinds
  <1>7. CASE Settle
    <2>1. /\ pc = "settle" /\ UNCHANGED <<drive, disk, sel>> /\ ret = NoAnswer
          /\ call.op = "identify"
          /\ \A d \in Drives, lba \in Lbas : disk[d][lba] \in expected[d][lba]
          /\ \A d \in Drives \ {sel} : Calm(d)
      BY <1>7 DEF Settle, hardware, Truth, InStep, Forgotten, Kept, Places
    <2>2. CASE kind[sel] = "atapi" /\ Probed(FALSE)
      <3>1. Calm(sel)
        BY <1>0, <2>2 DEF DrivesOK
      <3>2. AllCalm'
        BY <2>1, <3>1 DEF AllCalm, Calm
      <3> QED BY <2>1, <2>2, <3>2, ProbedTruth
    <2>3. CASE pc' = "drq" /\ UNCHANGED <<present, call>> /\ UNCHANGED callers
      <3>1. InStep'
        BY <2>1, <2>3 DEF Truth, InStep, Calm, Asked
      <3>2. Arrived' /\ Forgotten' /\ UNCHANGED expected
        BY <2>1, <2>3 DEF Arrived, Forgotten, callers
      <3> QED BY <2>1, <2>3, <3>1, <3>2, StillTruth
    <2> QED BY <1>7, <2>2, <2>3 DEF Settle
  <1>8. ASSUME NEW d \in Drives, DriveStep(d)
        PROVE  Truth'
    BY <1>8, DriveStepTruth
  <1>9. CASE UNCHANGED vars
    BY <1>9, SameTruth DEF vars
  <1> QED BY <1>1, <1>2, <1>3, <1>4, <1>5, <1>6, <1>7, <1>8, <1>9 DEF Next, Driver

-------------------------------------------------------------------------------
(* The theorems                                                             *)

LEMMA InitInv == Init => IInv
  <1> SUFFICES ASSUME Init PROVE IInv
    OBVIOUS
  <1>1. TypeOK
    <2>1. HardwareOK
      BY Literals DEF Init, HardwareOK, Drives
    <2>2. call \in Requests
      BY Literals DEF Init, Request, Requests, Drives
    <2>3. expected \in [Drives -> [Lbas -> SUBSET Data]]
      <3>1. \A d \in Drives, lba \in Lbas : {disk[d][lba]} \in SUBSET Data
        BY <2>1 DEF HardwareOK
      <3> QED BY <3>1 DEF Init
    <2>4. present \in [Drives -> BOOLEAN] /\ left \in 1 .. Polls /\ ret \in Answers
      BY Literals DEF Init
    <2>5. DriverOK /\ Selected
      BY <2>2, <2>3, <2>4 DEF Init, DriverOK, Selected
    <2> QED BY <2>1, <2>5, TypeParts
  <1>2. Places /\ Devices
    BY DEF Init, Places, Devices, Request
  <1>3. DrivesOK /\ OthersRest /\ AllCalm
    BY DEF Init, DrivesOK, OthersRest, AllCalm, Calm, Quiet, NoJob, Job, Drives
  <1>4. Truth
    <2>1. \A d \in Drives, lba \in Lbas : disk[d][lba] \in expected[d][lba]
      BY DEF Init
    <2> QED BY <1>3, <2>1
            DEF Init, Truth, InStep, Arrived, Kept, Forgotten, ReadsTellTheTruth
  <1> QED BY <1>1, <1>2, <1>3, <1>4 DEF IInv

LEMMA TypeStep ==
  ASSUME TypeOK, Places, Devices, DrivesOK, [Next]_vars
  PROVE  TypeOK'
  <1>1. CASE Call
    <2>1. call' \in Requests
      BY <1>1, CallEffect
    <2> QED BY <1>1, <2>1, Literals DEF Call, hardware, TypeOK, Answers
  <1>2. CASE Scan
    <2>1. call' \in Requests
      BY <1>2, Literals DEF Scan, Request, Requests, Drives
    <2> QED BY <1>2, <2>1, Literals DEF Scan, hardware, TypeOK, Answers
  <1>3. CASE Driver
    <2>1. TypeOK' <=> HardwareOK' /\ DriverOK' /\ Selected'
      BY DEF TypeOK, HardwareOK, DriverOK, Selected, DriveStates, Answers
    <2> QED BY <1>3, <2>1, DriverTypes, SelectedStep
  <1>4. ASSUME NEW d \in Drives, DriveStep(d)
        PROVE  TypeOK'
    BY <1>4, DriveStepTypes
  <1>5. CASE UNCHANGED vars
    BY <1>5 DEF vars, TypeOK
  <1> QED BY <1>1, <1>2, <1>3, <1>4, <1>5 DEF Next

\* A wait that has timed out is not forgotten.
LEMMA GivenUp ==
  ASSUME TypeOK, [Next]_vars, gaveUp
  PROVE  gaveUp'
  <1>1. Poll => gaveUp'
    BY DEF Poll
  <1>2. CASE Driver
    BY <1>1, <1>2 DEF Driver, WaitReady, WaitDrq, WaitDone, Probe, Settle
  <1>3. ASSUME NEW d \in Drives, DriveStep(d)
        PROVE  gaveUp'
    BY <1>3 DEF DriveStep, OfferSector, EndCommand, FailCommand
  <1> QED BY <1>2, <1>3 DEF Next, Call, Scan, vars

LEMMA NextInv == IInv /\ [Next]_vars => IInv'
  <1> SUFFICES ASSUME IInv, [Next]_vars PROVE IInv'
    OBVIOUS
  <1> USE DEF IInv
  <1>1. TypeOK'
    BY TypeStep
  <1>2. Places' /\ Devices'
    BY PlacesStep, DevicesStep
  <1>3. DrivesOK' /\ OthersRest'
    BY DrivesStep, RestStep
  <1>4. ~gaveUp' => Truth'
    BY GivenUp, TruthStep
  <1> QED BY <1>1, <1>2, <1>3, <1>4

\* The driver keeps its bookkeeping, of which drive is selected, what each was sent
\* and which command is over, through every timeout of a channel (ata.c's ATA half).
THEOREM ChannelInvariant == Spec => []IInv
  BY InitInv, NextInv, PTL DEF Spec

\* Type correctness of the channel and its driver, and the drive that answers is
\* the one that was commanded.
THEOREM TypeCorrect == Spec => []TypeOK
  <1>1. IInv => TypeOK
    BY DEF IInv
  <1> QED BY <1>1, ChannelInvariant, PTL

\* ata_read_sector returns the sector it was asked for, unless a wait has timed
\* out: for any number of sectors, poll attempts and any two drives.
THEOREM ReadsAreTrue == Spec => []ReadsTellTheTruth
  <1>1. IInv => ReadsTellTheTruth
    BY DEF IInv, Truth, ReadsTellTheTruth
  <1> QED BY <1>1, ChannelInvariant, PTL

\* Sectors change by the writes to them only, unless a wait has timed out.
THEOREM SectorsAreWritten == Spec => []SectorsAsWritten
  <1>1. IInv => SectorsAsWritten
    BY DEF IInv, Truth, Kept, SectorsAsWritten
  <1> QED BY <1>1, ChannelInvariant, PTL

\* No command is sent while a drive of the channel is busy, timeouts or not.
THEOREM OneTalks == Spec => NeverTalksOver
  <1>1. IInv /\ [Next]_vars =>
          [pc = "ready" /\ pc' \in {"drq", "done"} => \A d \in Drives : ~drive[d].busy]_vars
    <2> SUFFICES ASSUME IInv, [Next]_vars, pc = "ready", pc' \in {"drq", "done"}
                 PROVE  \A d \in Drives : ~drive[d].busy
      OBVIOUS
    <2>1. OthersRest /\ TypeOK /\ Places
      BY DEF IInv
    <2>2. call.op # "identify"
      BY <2>1 DEF Places
    <2>3. WaitReady
      <3>1. ~Driver => WaitReady
        BY DEF Next, Call, Scan, DriveStep, OfferSector, EndCommand, FailCommand, vars
      <3> QED BY <3>1 DEF Driver, WaitDrq, WaitDone, Probe, Settle
    <2>4. ~Poll /\ ~Fails
      BY <2>1, <2>2, PollIsOver, FailsIsOver DEF Over
    <2>5. ~Busy(sel)
      BY <2>3, <2>4 DEF WaitReady
    <2> QED BY <2>1, <2>5 DEF OthersRest, Busy
  <1> QED BY <1>1, ChannelInvariant, PTL DEF Spec, NeverTalksOver

-------------------------------------------------------------------------------
(* Healthy drives                                                           *)

\* Without a failed command only a packet drive reports an error.  If it is the slave
\* it is the drive ide_wait_ready looks at after every scan; otherwise it never is.
PacketErrors == ~faulted => \A d \in Drives : drive[d].err => kind[d] = "atapi"

SlaveLast ==
    kind[1] = "atapi" =>
        /\ pc \in {"idle", "ready"} => sel = 1 /\ drive[1].err
        /\ pc = "settle" /\ call.drive = 1 => drive[1].err
        /\ pc \in {"drq", "done"} => call.op = "identify"

NoPacketLast == kind[1] # "atapi" /\ pc \in {"idle", "ready"} => kind[sel] # "atapi"

ErrorAnswered == ~gaveUp /\ ret.request.op # "none" => (ret.ok <=> ~drive[sel].err)

Healthy == PacketErrors /\ SlaveLast /\ NoPacketLast /\ ErrorAnswered

\* The wiring is fixed, and an error is not forgotten.
LEMMA OnRecord ==
  ASSUME [Next]_vars
  PROVE  UNCHANGED kind /\ (~faulted' => ~faulted)
  <1>1. CASE Call \/ Scan
    BY <1>1 DEF Call, Scan, hardware
  <1>2. CASE WaitReady \/ WaitDrq \/ WaitDone
    BY <1>2 DEF WaitReady, WaitDrq, WaitDone, hardware
  <1>3. CASE Probe \/ Settle
    <2>1. UNCHANGED <<kind, faulted>>
      BY <1>3 DEF Probe, Settle, hardware
    <2> QED BY <2>1
  <1>4. ASSUME NEW d \in Drives, DriveStep(d)
        PROVE  UNCHANGED kind /\ (~faulted' => ~faulted)
    BY <1>4 DEF DriveStep, OfferSector, EndCommand, FailCommand
  <1>5. CASE UNCHANGED vars
    BY <1>5 DEF vars
  <1> QED BY <1>1, <1>2, <1>3, <1>4, <1>5 DEF Next, Driver

LEMMA HealthyErrors ==
  ASSUME TypeOK, Places, PacketErrors, [Next]_vars, ~faulted'
  PROVE  \A d \in Drives : drive'[d].err => kind'[d] = "atapi"
  <1>0. /\ drive \in [Drives -> DriveStates] /\ sel \in Drives /\ call.drive \in Drives
        /\ kind[call.drive] \in Kinds
    BY IdeAssumption DEF TypeOK, DriveStates, Requests
  <1>1. UNCHANGED kind
    BY OnRecord
  <1>2. ~faulted
    BY OnRecord
  <1>3. \A d \in Drives : drive[d].err => kind[d] = "atapi"
    BY <1>2 DEF PacketErrors
  <1>a. ASSUME NEW d \in Drives, NEW state, ~state.err, drive' = [drive EXCEPT ![d] = state]
        PROVE  \A e \in Drives : drive'[e].err => kind'[e] = "atapi"
    BY <1>a, <1>0, <1>1, <1>3
  <1>b. ASSUME NEW d \in Drives, NEW job, Command(d, job)
        PROVE  \A e \in Drives : drive'[e].err => kind'[e] = "atapi"
    <2>1. ~Accept(d, job).err
      BY DEF Accept, Quiet
    <2> QED BY <1>b, <1>1, <1>3, <1>a, <2>1 DEF Command
  <1>4. CASE UNCHANGED drive
    BY <1>1, <1>3, <1>4
  <1>5. CASE Call \/ Scan \/ Settle \/ WaitDone
    BY <1>4, <1>5 DEF Call, Scan, Settle, WaitDone, hardware
  <1>6. CASE WaitReady
    BY <1>0, <1>4, <1>6, <1>b DEF WaitReady
  <1>7. CASE WaitDrq
    <2>1. ~Quiet.err /\ \A job : ~Accept(sel, job).err
      BY DEF Accept, Quiet
    <2> QED BY <1>0, <1>4, <1>7, <1>a, <2>1 DEF WaitDrq, TransferIn, TransferOut
  <1>8. CASE Probe
    <2>1. CASE kind[call.drive] = "atapi" /\ drive' = [drive EXCEPT ![call.drive].err = TRUE]
      BY <1>0, <1>1, <1>3, <2>1
    <2> QED BY <1>0, <1>4, <1>8, <1>b, <2>1 DEF Probe, Kinds
  <1>9. ASSUME NEW d \in Drives, DriveStep(d)
        PROVE  \A e \in Drives : drive'[e].err => kind'[e] = "atapi"
    <2>1. CASE OfferSector(d)
      BY <1>0, <1>1, <1>3, <2>1 DEF OfferSector, DriveStates
    <2>2. CASE EndCommand(d)
      <3>1. ~Quiet.err
        BY DEF Quiet
      <3> QED BY <1>a, <2>2, <3>1 DEF EndCommand
    <2>3. ~FailCommand(d)
      BY DEF FailCommand
    <2> QED BY <1>9, <2>1, <2>2, <2>3 DEF DriveStep
  <1>10. CASE UNCHANGED vars
    BY <1>4, <1>10 DEF vars
  <1> QED BY <1>5, <1>6, <1>7, <1>8, <1>9, <1>10 DEF Next, Driver

LEMMA HealthySelected ==
  ASSUME TypeOK, Places, Devices, NoPacketLast, kind[1] # "atapi", [Next]_vars
  PROVE  pc' \in {"idle", "ready"} => kind'[sel'] # "atapi"
  <1>0. /\ sel \in Drives /\ call.drive \in Drives
        /\ pc \in {"settle", "drq", "done"} => sel = call.drive
        /\ pc \in {"drq", "done"} => kind[sel] = "ata"
    BY DEF TypeOK, Requests, Places
  <1>1. UNCHANGED kind
    BY OnRecord
  <1>2. CASE UNCHANGED <<pc, sel>>
    BY <1>1, <1>2 DEF NoPacketLast
  <1>3. CASE Call \/ Scan
    BY <1>1, <1>3 DEF Call, Scan, NoPacketLast
  <1>4. CASE WaitReady
    <2>1. CASE UNCHANGED sel
      BY <1>1, <1>4, <2>1 DEF WaitReady, NoPacketLast
    <2>2. CASE pc' \in {"done", "drq"}
      BY <2>2
    <2> QED BY <1>4, <2>1, <2>2 DEF WaitReady
  <1>5. CASE WaitDrq \/ WaitDone
    <2>1. UNCHANGED sel /\ pc \in {"drq", "done"}
      BY <1>5 DEF WaitDrq, WaitDone
    <2> QED BY <2>1, <1>0, <1>1
  <1>6. CASE Probe
    <2>1. CASE sel' = call.drive /\ Probed(FALSE)
      <3>1. call.op = "identify"
        BY <1>6 DEF Probe, Places
      <3>2. pc' = "idle" => call.drive = 1
        BY <2>1, <3>1, ProbedIsOver DEF Over
      <3>3. pc' # "ready"
        BY <2>1, <3>1, ProbedIsOver DEF Over
      <3> QED BY <1>1, <2>1, <3>2, <3>3
    <2>2. CASE pc' = "settle"
      BY <2>2
    <2> QED BY <1>6, <2>1, <2>2 DEF Probe
  <1>7. CASE Settle
    <2>1. call.op = "identify" /\ sel' = sel /\ sel = call.drive
      BY <1>7, <1>0 DEF Settle, Places
    <2>2. CASE Probed(FALSE)
      <3>1. pc' # "ready" /\ (pc' = "idle" => call.drive = 1)
        BY <2>1, <2>2, ProbedIsOver DEF Over
      <3> QED BY <1>1, <2>1, <3>1
    <2>3. CASE pc' = "drq"
      BY <2>3
    <2> QED BY <1>7, <2>2, <2>3 DEF Settle
  <1>8. ASSUME NEW d \in Drives, DriveStep(d)
        PROVE  pc' \in {"idle", "ready"} => kind'[sel'] # "atapi"
    BY <1>8, <1>2 DEF DriveStep, OfferSector, EndCommand, FailCommand
  <1>9. CASE UNCHANGED vars
    BY <1>2, <1>9 DEF vars
  <1> QED BY <1>3, <1>4, <1>5, <1>6, <1>7, <1>8, <1>9 DEF Next, Driver

\* Behind a packet slave no call gets as far as a command.
LEMMA SlaveStep ==
  ASSUME TypeOK, Places, DrivesOK, SlaveLast, kind[1] = "atapi", [Next]_vars
  PROVE  SlaveLast'
  <1>0. /\ sel \in Drives /\ call.drive \in {0, 1} /\ drive \in [Drives -> DriveStates]
        /\ pc \in {"settle", "drq", "done"} => sel = call.drive
        /\ Calm(1) /\ 1 \in Drives
    BY DEF TypeOK, Requests, Places, DrivesOK, DriveStates, Drives
  <1>1. UNCHANGED kind
    BY OnRecord
  <1>a. ASSUME NEW found \in BOOLEAN, Over(found), call.op = "identify",
               call.drive = 1 => sel' = 1 /\ drive'[1].err
        PROVE  SlaveLast'
    BY <1>0, <1>a DEF Over, SlaveLast
  <1>2. CASE UNCHANGED <<pc, sel, call, drive>>
    BY <1>1, <1>2 DEF SlaveLast
  <1>3. CASE Call \/ Scan
    BY <1>1, <1>3 DEF Call, Scan, hardware, Request, SlaveLast
  <1>4. CASE WaitReady
    <2>1. /\ pc = "ready" /\ sel = 1 /\ drive[1].err /\ ~Busy(sel) /\ Err(sel)
          /\ call.op # "identify"
      BY <1>0, <1>4 DEF WaitReady, SlaveLast, Busy, Err, Calm, Places
    <2>2. Fails /\ UNCHANGED <<drive, sel>>
      BY <1>4, <2>1 DEF WaitReady
    <2>3. pc' = "idle"
      BY <2>1, <2>2 DEF Fails, Return
    <2> QED BY <2>1, <2>2, <2>3 DEF SlaveLast
  <1>5. CASE WaitDrq
    <2>0. /\ pc = "drq" /\ call.op = "identify" /\ call.drive = 0
      BY <1>0, <1>5 DEF WaitDrq, SlaveLast, Places
    <2>1. /\ pc = "drq" /\ call.op = "identify" /\ call.drive # 1
      BY <2>0
    <2>2. CASE Poll
      <3>1. CASE UNCHANGED <<pc, call, present, gaveUp>>
        BY <2>1, <3>1 DEF SlaveLast
      <3>2. CASE Over(FALSE)
        BY <1>a, <2>1, <3>2
      <3> QED BY <2>2, <3>1, <3>2, PollIsOver
    <2>3. CASE Fails
      BY <1>a, <2>1, <2>3, FailsIsOver
    <2>4. CASE TransferIn
      <3>1. Probed(TRUE)
        BY <2>1, <2>4 DEF TransferIn
      <3>2. Over(TRUE)
        BY <2>1, <3>1, ProbedIsOver
      <3> QED BY <1>a, <2>1, <3>2
    <2>5. ~TransferOut
      BY <2>1 DEF TransferOut
    <2> QED BY <1>5, <2>2, <2>3, <2>4, <2>5 DEF WaitDrq
  <1>6. ~WaitDone
    BY DEF WaitDone, SlaveLast, Places
  <1>7. CASE Probe
    <2>1. call.op = "identify" /\ pc = "scan"
      BY <1>7 DEF Probe, Places
    <2>2. CASE kind[call.drive] = "none" /\ Probed(FALSE)
      <3>1. call.drive # 1 /\ Over(FALSE)
        BY <2>1, <2>2, ProbedIsOver
      <3> QED BY <1>a, <2>1, <3>1
    <2>3. CASE pc' = "settle" /\ UNCHANGED call
      <3>1. call.drive = 1 => drive'[1].err
        <4> SUFFICES ASSUME call.drive = 1 PROVE drive'[1].err
          OBVIOUS
        <4>1. drive' = [drive EXCEPT ![1].err = TRUE]
          BY <1>7 DEF Probe
        <4> QED BY <1>0, <4>1 DEF DriveStates
      <3> QED BY <2>3, <3>1 DEF SlaveLast
    <2> QED BY <1>7, <2>2, <2>3 DEF Probe
  <1>8. CASE Settle
    <2>1. call.op = "identify" /\ pc = "settle" /\ UNCHANGED <<drive, sel>>
      BY <1>8 DEF Settle, Places, hardware
    <2>2. CASE Probed(FALSE)
      <3>1. Over(FALSE)
        BY <2>1, <2>2, ProbedIsOver
      <3> QED BY <1>0, <1>a, <2>1, <3>1 DEF SlaveLast
    <2>3. CASE pc' = "drq" /\ UNCHANGED call
      BY <2>1, <2>3 DEF SlaveLast
    <2> QED BY <1>8, <2>2, <2>3 DEF Settle
  <1>9. ASSUME NEW d \in Drives, DriveStep(d)
        PROVE  SlaveLast'
    <2>1. drive[d].busy /\ d # 1
      BY <1>0, <1>9 DEF DriveStep, OfferSector, EndCommand, FailCommand, Calm
    <2>2. drive'[1] = drive[1] /\ UNCHANGED <<pc, sel, call>>
      BY <1>0, <1>9, <2>1 DEF DriveStep, OfferSector, EndCommand, FailCommand
    <2> QED BY <1>1, <2>2 DEF SlaveLast
  <1>10. CASE UNCHANGED vars
    BY <1>2, <1>10 DEF vars
  <1> QED BY <1>3, <1>4, <1>5, <1>6, <1>7, <1>8, <1>9, <1>10 DEF Next, Driver

\* What a call returns is what the status of the drive selected last says.
LEMMA AnswerStep ==
  ASSUME TypeOK, Places, ~gaveUp => Truth, ~gaveUp' => Truth', ErrorAnswered, [Next]_vars
  PROVE  ErrorAnswered'
  <1> SUFFICES ASSUME ~gaveUp', ret'.request.op # "none"
               PROVE  ret'.ok <=> ~drive'[sel'].err
    BY DEF ErrorAnswered
  <1>0. /\ ~gaveUp /\ InStep /\ Forgotten /\ sel \in Drives
        /\ drive \in [Drives -> DriveStates]
    BY GivenUp DEF Truth, TypeOK, DriveStates
  <1>1. pc' = "idle"
    BY DEF Truth, Forgotten, NoAnswer, NoRequest, Request
  <1>2. CASE pc = "idle"
    <2>1. \A d \in Drives : ~DriveStep(d)
      BY <1>0, <1>2 DEF InStep, AllCalm, Calm, DriveStep, OfferSector, EndCommand, FailCommand
    <2>2. ~Driver
      BY <1>2 DEF Driver, WaitReady, WaitDrq, WaitDone, Probe, Settle
    <2>3. ~Call /\ ~Scan
      BY <1>1 DEF Call, Scan
    <2>4. UNCHANGED vars
      BY <2>1, <2>2, <2>3 DEF Next
    <2> QED BY <1>0, <2>4 DEF vars, ErrorAnswered
  <1>3. CASE pc # "idle"
    <2>0. ret = NoAnswer
      BY <1>0, <1>3 DEF Forgotten
    <2>1. ret' # ret
      BY <2>0 DEF NoAnswer, NoRequest, Request
    <2>2. ~Poll
      BY <1>1, <1>3 DEF Poll
    <2>3. \A found : ~Probed(found)
      BY <2>1 DEF Probed, callers
    <2>4. Fails => Return(FALSE, Garbage)
      BY <2>3 DEF Fails
    <2>5. CASE WaitReady
      BY <1>1, <2>2, <2>4, <2>5 DEF WaitReady, Return, Err
    <2>6. CASE WaitDrq
      <3>1. CASE Fails /\ Err(sel) /\ UNCHANGED <<drive, sel>>
        BY <2>4, <3>1 DEF Return, Err
      <3>2. CASE TransferIn /\ ~Err(sel) /\ UNCHANGED sel
        <4>1. Return(TRUE, Offered(sel))
          BY <2>3, <3>2 DEF TransferIn
        <4>2. ~drive'[sel].err
          BY <1>0, <3>2 DEF TransferIn, Err, Quiet
        <4> QED BY <3>2, <4>1, <4>2 DEF Return
      <3>3. ~TransferOut
        BY <1>1 DEF TransferOut
      <3> QED BY <2>2, <2>6, <3>1, <3>2, <3>3 DEF WaitDrq
    <2>7. CASE WaitDone
      <3>1. Return(~Err(sel), Garbage) /\ UNCHANGED <<drive, sel>>
        BY <2>2, <2>7 DEF WaitDone, hardware
      <3>2. CASE Err(sel)
        BY <3>1, <3>2 DEF Return, Err
      <3>3. CASE ~Err(sel)
        BY <3>1, <3>3 DEF Return, Err
      <3> QED BY <3>2, <3>3
    <2>8. ~Probe /\ ~Settle
      BY <1>1, <2>3 DEF Probe, Settle
    <2>9. ~Call /\ ~Scan /\ \A d \in Drives : ~DriveStep(d)
      BY <1>1, <1>3, <2>1 DEF Call, Scan, DriveStep, OfferSector, EndCommand, FailCommand
    <2>10. ~UNCHANGED vars
      BY <2>1 DEF vars
    <2> QED BY <2>5, <2>6, <2>7, <2>8, <2>9, <2>10 DEF Next, Driver
  <1> QED BY <1>2, <1>3

\* For every wiring: a call fails exactly for an error that the drive selected last
\* shows (ata.c 308), and unless a command has failed that is so only in front of a
\* packet drive, where every call fails.
THEOREM ErrorsExplainFailures == Spec => []CallsFailOnErrors
  <1>1. Init => Healthy
    BY DEF Init, Healthy, PacketErrors, SlaveLast, NoPacketLast, ErrorAnswered, Quiet,
           NoAnswer, NoRequest, Request
  <1>2. IInv /\ IInv' /\ Healthy /\ [Next]_vars => Healthy'
    <2> SUFFICES ASSUME IInv, IInv', Healthy, [Next]_vars PROVE Healthy'
      OBVIOUS
    <2>1. TypeOK /\ Places /\ Devices /\ DrivesOK /\ UNCHANGED kind
      BY OnRecord DEF IInv
    <2>2. PacketErrors'
      BY <2>1, HealthyErrors DEF Healthy, PacketErrors
    <2>3. SlaveLast'
      <3>1. kind[1] # "atapi" => SlaveLast'
        BY <2>1 DEF SlaveLast
      <3> QED BY <2>1, <3>1, SlaveStep DEF Healthy
    <2>4. NoPacketLast'
      BY <2>1, HealthySelected DEF Healthy, NoPacketLast
    <2>5. ErrorAnswered'
      BY <2>1, AnswerStep DEF Healthy, IInv
    <2> QED BY <2>2, <2>3, <2>4, <2>5 DEF Healthy
  <1>3. IInv /\ Healthy => CallsFailOnErrors
    <2> SUFFICES ASSUME IInv, Healthy, ~gaveUp, ret.request.op # "none"
                 PROVE  /\ ret.ok <=> ~drive[sel].err
                        /\ ~faulted => (ret.ok <=> kind[1] # "atapi")
      BY DEF CallsFailOnErrors
    <2>1. pc = "idle" /\ sel \in Drives
      BY DEF IInv, Truth, Forgotten, NoAnswer, NoRequest, Request, TypeOK
    <2>2. ret.ok <=> ~drive[sel].err
      BY DEF Healthy, ErrorAnswered
    <2>3. CASE kind[1] = "atapi"
      BY <2>1, <2>2, <2>3 DEF Healthy, SlaveLast
    <2>4. CASE kind[1] # "atapi"
      BY <2>1, <2>2, <2>4 DEF Healthy, NoPacketLast, PacketErrors
    <2> QED BY <2>2, <2>3, <2>4
  <1> QED BY <1>1, <1>2, <1>3, ChannelInvariant, PTL DEF Spec
===============================================================================
