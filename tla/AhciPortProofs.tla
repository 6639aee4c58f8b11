---------------------------- MODULE AhciPortProofs ----------------------------
(***************************************************************************)
(* Proofs about AhciPort, for any number of sectors, buffers and poll      *)
(* attempts and any contents.                                              *)
(***************************************************************************)
EXTENDS AhciPort, TLAPS

\* What disk.c asks for.
Transfers == [op : {"read", "write"}, lba : Lbas, buf : Bufs, data : Data]

-------------------------------------------------------------------------------
(* The inductive invariant                                                  *)

\* IDENTIFY is never sent: only transfers pass the first wait.
Places ==
    /\ pc = "stop" => ~present /\ call = Identify
    /\ pc = "slot" /\ present => call \in Transfers
    /\ pc \in {"tfd", "issued"} => call \in Transfers

\* The drive works on the command the driver waits for or on one it has given up,
\* and a sector that may still be written by the latter is expected to hold
\* anything.
JobOK ==
    /\ job # NoRequest => job \in Transfers
    /\ pc = "tfd" => ~ci
    /\ pc = "issued" /\ ~tfes => \/ job = call /\ ci
                                 \/ job = NoRequest /\ ~ci
    /\ pc = "issued" /\ tfes => job = NoRequest
    /\ job # NoRequest /\ pc # "issued" =>
          /\ job.op \in lost
          /\ job.op = "write" => expected[job.lba] = Data

\* A read that has completed without an error has brought its sector.
Brought ==
    pc = "issued" /\ ~tfes /\ job = NoRequest /\ call.op = "read" =>
        mem[call.buf] = disk[call.lba]

\* As long as no read was given up, a write takes what its caller put in the
\* buffer, and one that has completed without an error has stored it.
Sent ==
    /\ pc \in {"slot", "tfd", "issued"} /\ call.op = "write" =>
          mem[call.buf] = call.data
    /\ pc = "issued" /\ ~tfes /\ job = NoRequest /\ call.op = "write" =>
          disk[call.lba] = call.data

Truth == "read" \notin lost => Sent /\ SectorsAsWritten

IInv == TypeOK /\ Places /\ JobOK /\ Brought /\ Truth

-------------------------------------------------------------------------------
(* Types                                                                    *)

Answers == [request : Requests, ok : BOOLEAN]

HardwareOK ==
    /\ ci \in BOOLEAN /\ tfes \in BOOLEAN /\ cr \in BOOLEAN /\ spinning \in BOOLEAN
    /\ job \in Requests
    /\ mem \in [Bufs -> Data]
    /\ disk \in [Lbas -> Data]
    /\ job # NoRequest => ci

DriverOK ==
    /\ present \in BOOLEAN
    /\ capacity \in {"none", "real", "default"}
    /\ pc \in {"idle", "stop", "slot", "tfd", "issued"}
    /\ call \in Requests
    /\ left \in 1 .. Polls
    /\ ret \in Answers
    /\ expected \in [Lbas -> SUBSET Data]

LostOK == lost \subseteq {"read", "write", "identify"}

LEMMA Parts == TypeOK <=> HardwareOK /\ DriverOK /\ LostOK
  BY DEF TypeOK, HardwareOK, DriverOK, LostOK, Answers

LEMMA PartsPrimed == TypeOK' <=> HardwareOK' /\ DriverOK' /\ LostOK'
  BY DEF TypeOK, HardwareOK, DriverOK, LostOK, Answers

LEMMA Literals ==
  /\ NoRequest \in Requests /\ NoRequest.op = "none"
  /\ Identify \in Requests /\ Identify.op = "identify"
  /\ NoAnswer \in Answers
  /\ Transfers \subseteq Requests
  /\ Polls \in 1 .. Polls
  <1>1. NoRequest \in Requests /\ Identify \in Requests /\ Transfers \subseteq Requests
    BY DEF Requests, Transfers
  <1>2. NoRequest.op = "none" /\ Identify.op = "identify"
    BY DEF NoRequest, Identify, Request
  <1>3. NoAnswer \in Answers
    BY <1>1 DEF NoAnswer, Answers
  <1>4. Polls \in 1 .. Polls
    BY AhciAssumption
  <1> QED BY <1>1, <1>2, <1>3, <1>4

\* A request to read or write names a sector and a buffer.
LEMMA TransferOps ==
  ASSUME NEW r \in Requests
  PROVE  /\ r.op \in {"read", "write"} => r \in Transfers
         /\ r.op \in {"none", "identify", "read", "write"}
         /\ r.op = "none" => r = NoRequest
         /\ r.op = "identify" => r = Identify
         /\ r \in Transfers =>
              /\ r.op \in {"read", "write"} /\ r # NoRequest
              /\ r.lba \in Lbas /\ r.buf \in Bufs /\ r.data \in Data
  <1>1. r \in Transfers \/ r = NoRequest \/ r = Identify
    BY DEF Requests, Transfers
  <1>2. r \in Transfers =>
          /\ r.op \in {"read", "write"}
          /\ r.lba \in Lbas /\ r.buf \in Bufs /\ r.data \in Data
    BY DEF Transfers
  <1> QED BY <1>1, <1>2, Literals

LEMMA AfterFailureTypes ==
  ASSUME TypeOK, NEW givenUp \in BOOLEAN
  PROVE  AfterFailure(givenUp) \in [Lbas -> SUBSET Data]
  <1>1. CASE call.op # "write"
    BY <1>1 DEF AfterFailure, TypeOK
  <1>2. CASE call.op = "write"
    <2>1. call.lba \in Lbas /\ call.data \in Data
      BY <1>2, TransferOps DEF TypeOK
    <2>2. Data \in SUBSET Data /\ expected[call.lba] \cup {call.data} \in SUBSET Data
      BY <2>1 DEF TypeOK
    <2> QED BY <1>2, <2>1, <2>2 DEF AfterFailure, TypeOK
  <1> QED BY <1>1, <1>2

LEMMA ReturnTypes ==
  ASSUME TypeOK, NEW ok \in BOOLEAN, NEW outcome \in [Lbas -> SUBSET Data], Return(ok, outcome)
  PROVE  DriverOK'
  BY Literals DEF Return, device, DriverOK, TypeOK, Answers

LEMMA RegisterTypes ==
  ASSUME TypeOK, NEW size \in {"real", "default"}, Register(size)
  PROVE  DriverOK'
  BY Literals DEF Register, callers, DriverOK, TypeOK, Answers

LEMMA FailsTypes ==
  ASSUME TypeOK, NEW givenUp \in BOOLEAN, Fails(givenUp)
  PROVE  DriverOK'
  BY AfterFailureTypes, ReturnTypes, RegisterTypes DEF Fails

LEMMA PollTypes ==
  ASSUME TypeOK, Poll
  PROVE  DriverOK'
  <1>1. left' \in 1 .. Polls
    BY AhciAssumption DEF Poll, TypeOK
  <1> QED BY <1>1 DEF Poll, device, callers, DriverOK, TypeOK, Answers

LEMMA SucceedsTypes ==
  ASSUME TypeOK, Succeeds
  PROVE  DriverOK'
  <1>1. CASE call.op = "identify"
    BY <1>1, RegisterTypes DEF Succeeds
  <1>2. CASE call.op = "write"
    <2>1. call.lba \in Lbas /\ call.data \in Data
      BY <1>2, TransferOps DEF TypeOK
    <2>2. [expected EXCEPT ![call.lba] = {call.data}] \in [Lbas -> SUBSET Data]
      BY <2>1 DEF TypeOK
    <2> QED BY <1>2, <2>2, ReturnTypes DEF Succeeds
  <1>3. CASE call.op # "identify" /\ call.op # "write"
    BY <1>3, ReturnTypes DEF Succeeds, TypeOK
  <1> QED BY <1>1, <1>2, <1>3

\* What the driver leaves alone in all it does but waiting for the task file.
LEMMA HardwareRests ==
  ASSUME TypeOK, UNCHANGED port, UNCHANGED storage
  PROVE  HardwareOK'
  BY DEF port, storage, HardwareOK, TypeOK

LEMMA HardwareTypes ==
  ASSUME TypeOK, Hardware
  PROVE  TypeOK'
  <1>0. job # NoRequest /\ job.op \in {"read", "write"} => job \in Transfers
    BY TransferOps DEF TypeOK
  <1>1. job \in Transfers => job.lba \in Lbas /\ job.buf \in Bufs
    BY DEF Transfers
  <1>a. ASSUME UNCHANGED <<pc, call, left, lost>>, UNCHANGED device, UNCHANGED callers
        PROVE  DriverOK' /\ LostOK'
    BY <1>a DEF DriverOK, LostOK, TypeOK, Answers, device, callers
  <1>2. CASE SpinUp
    <2>1. HardwareOK'
      BY <1>2 DEF SpinUp, storage, HardwareOK, TypeOK
    <2> QED BY <1>2, <1>a, <2>1, PartsPrimed DEF SpinUp
  <1>3. CASE Complete
    <2>1. mem' \in [Bufs -> Data]
      <3>1. CASE job.op = "read"
        <4>1. disk[job.lba] \in Data
          BY <1>0, <1>1, <1>3, <3>1 DEF Complete, TypeOK
        <4> QED BY <1>3, <3>1, <4>1 DEF Complete, TypeOK
      <3>2. CASE job.op # "read"
        BY <1>3, <3>2 DEF Complete, TypeOK
      <3> QED BY <3>1, <3>2
    <2>2. disk' \in [Lbas -> Data]
      <3>1. CASE job.op = "write"
        <4>1. mem[job.buf] \in Data
          BY <1>0, <1>1, <1>3, <3>1 DEF Complete, TypeOK
        <4> QED BY <1>3, <3>1, <4>1 DEF Complete, TypeOK
      <3>2. CASE job.op # "write"
        BY <1>3, <3>2 DEF Complete, TypeOK
      <3> QED BY <3>1, <3>2
    <2>3. HardwareOK'
      BY <1>3, <2>1, <2>2, Literals DEF Complete, HardwareOK, TypeOK
    <2> QED BY <1>3, <1>a, <2>3, PartsPrimed DEF Complete
  <1>4. CASE Fail
    <2>1. disk' \in [Lbas -> Data]
      <3>1. CASE UNCHANGED disk
        BY <3>1 DEF TypeOK
      <3>2. CASE job.op = "write" /\ disk' = [disk EXCEPT ![job.lba] = mem[job.buf]]
        <4>1. mem[job.buf] \in Data
          BY <1>0, <1>1, <1>4, <3>2 DEF Fail, TypeOK
        <4> QED BY <3>2, <4>1 DEF TypeOK
      <3> QED BY <1>4, <3>1, <3>2 DEF Fail
    <2>2. HardwareOK'
      BY <1>4, <2>1, Literals DEF Fail, HardwareOK, TypeOK
    <2> QED BY <1>4, <1>a, <2>2, PartsPrimed DEF Fail
  <1>5. CASE StopList
    <2>1. HardwareOK'
      BY <1>5, Literals DEF StopList, storage, HardwareOK, TypeOK
    <2> QED BY <1>5, <1>a, <2>1, PartsPrimed DEF StopList
  <1> QED BY <1>2, <1>3, <1>4, <1>5 DEF Hardware

LEMMA DriverTypes ==
  ASSUME TypeOK, Places, Driver
  PROVE  TypeOK'
  <1>a. UNCHANGED lost => LostOK'
    BY DEF LostOK, TypeOK
  <1>b. ASSUME pc' \in {"tfd", "issued", "slot"}, left' = Polls, UNCHANGED call,
               UNCHANGED device, UNCHANGED callers
        PROVE  DriverOK'
    BY <1>b, Literals DEF DriverOK, TypeOK, Answers, device, callers
  <1>1. CASE WaitSlot
    <2>1. HardwareOK' /\ LostOK'
      BY <1>1, <1>a, HardwareRests DEF WaitSlot
    <2>2. DriverOK'
      BY <1>1, <1>b, FailsTypes, PollTypes DEF WaitSlot
    <2> QED BY <2>1, <2>2, PartsPrimed
  <1>2. CASE WaitTaskFile
    <2>1. HardwareOK'
      BY <1>2 DEF WaitTaskFile, storage, HardwareOK, TypeOK
    <2>2. DriverOK' /\ LostOK'
      BY <1>2, <1>a, <1>b, FailsTypes, PollTypes DEF WaitTaskFile
    <2> QED BY <2>1, <2>2, PartsPrimed
  <1>3. CASE WaitCompletion
    <2>1. HardwareOK'
      BY <1>3, HardwareRests DEF WaitCompletion
    <2>2. DriverOK'
      BY <1>3, FailsTypes, PollTypes, SucceedsTypes DEF WaitCompletion
    <2>3. LostOK'
      <3>1. call.op \in {"read", "write"}
        BY <1>3, Literals, TransferOps DEF WaitCompletion, Places
      <3> QED BY <1>3, <1>a, <3>1 DEF WaitCompletion, LostOK, TypeOK
    <2> QED BY <2>1, <2>2, <2>3, PartsPrimed
  <1>4. CASE SetUp
    <2>1. HardwareOK' /\ LostOK'
      BY <1>4, <1>a DEF SetUp, storage, HardwareOK, TypeOK
    <2>2. CASE /\ pc' = "idle" /\ call' = NoRequest /\ left' = Polls
               /\ UNCHANGED device /\ UNCHANGED callers
      <3>1. DriverOK'
        BY <2>2, Literals DEF DriverOK, TypeOK, Answers, device, callers
      <3> QED BY <2>1, <3>1, PartsPrimed
    <2>3. CASE Poll
      BY <2>1, <2>3, PollTypes, PartsPrimed
    <2>4. CASE /\ pc' = "slot" /\ left' = Polls /\ UNCHANGED call
               /\ UNCHANGED device /\ UNCHANGED callers
      BY <2>1, <2>4, <1>b, PartsPrimed
    <2> QED BY <1>4, <2>2, <2>3, <2>4 DEF SetUp
  <1> QED BY <1>1, <1>2, <1>3, <1>4 DEF Driver

LEMMA TypeStep ==
  ASSUME TypeOK, Places, [Next]_vars
  PROVE  TypeOK'
  <1>1. CASE Fill
    <2>1. mem' \in [Bufs -> Data]
      BY <1>1 DEF Fill, TypeOK
    <2> QED BY <1>1, <2>1 DEF Fill, TypeOK, port, device, callers
  <1>2. CASE Call
    <2>1. call' \in Transfers
      BY <1>2 DEF Call, Transfers, Request, TypeOK
    <2>2. HardwareOK' /\ LostOK'
      BY <1>2, HardwareRests DEF Call, LostOK, TypeOK
    <2>3. DriverOK'
      BY <1>2, <2>1, Literals DEF Call, DriverOK, TypeOK, Answers, device
    <2> QED BY <2>2, <2>3, PartsPrimed
  <1>3. CASE Scan
    <2>1. HardwareOK' /\ LostOK'
      BY <1>3, HardwareRests DEF Scan, LostOK, TypeOK
    <2>2. DriverOK'
      BY <1>3, Literals DEF Scan, DriverOK, TypeOK, Answers
    <2> QED BY <2>1, <2>2, PartsPrimed
  <1>4. CASE Driver
    BY <1>4, DriverTypes
  <1>5. CASE Hardware
    BY <1>5, HardwareTypes
  <1>6. CASE UNCHANGED vars
    BY <1>6 DEF vars, TypeOK
  <1> QED BY <1>1, <1>2, <1>3, <1>4, <1>5, <1>6 DEF Next

-------------------------------------------------------------------------------
(* The slot                                                                 *)

LEMMA FailsEnds ==
  ASSUME NEW givenUp, Fails(givenUp)
  PROVE  /\ pc' = "idle"
         /\ call.op = "identify" => expected' = expected
         /\ call.op # "identify" => expected' = AfterFailure(givenUp) /\ ~ret'.ok
  BY DEF Fails, Register, Return, callers

LEMMA SucceedsEnds ==
  ASSUME Succeeds
  PROVE  /\ pc' = "idle"
         /\ call.op \notin {"identify", "write"} => expected' = expected
         /\ call.op = "write" => expected' = [expected EXCEPT ![call.lba] = {call.data}]
  BY DEF Succeeds, Register, Return, callers

LEMMA PollRests ==
  ASSUME Poll
  PROVE  UNCHANGED <<pc, call, present, capacity, ret, expected>>
  BY DEF Poll, device, callers

LEMMA PlacesStep ==
  ASSUME TypeOK, Places, [Next]_vars
  PROVE  Places'
  <1>a. ASSUME pc' = "idle"
        PROVE  Places'
    BY <1>a DEF Places
  <1>b. ASSUME UNCHANGED <<pc, call, present>>
        PROVE  Places'
    BY <1>b DEF Places
  <1>1. CASE Fill
    BY <1>1, <1>b DEF Fill, device
  <1>2. CASE Call
    <2>1. call' \in Transfers
      BY <1>2 DEF Call, Transfers, Request, TypeOK
    <2> QED BY <1>2, <2>1 DEF Call, Places
  <1>3. CASE Scan
    BY <1>3 DEF Scan, Places
  <1>4. CASE WaitSlot
    <2>1. CASE /\ present /\ pc' = "tfd" /\ UNCHANGED call
      BY <1>4, <2>1 DEF WaitSlot, Places
    <2> QED BY <1>4, <1>a, <1>b, <2>1, FailsEnds, PollRests DEF WaitSlot
  <1>5. CASE WaitTaskFile
    <2>1. CASE pc' = "issued" /\ UNCHANGED call
      BY <1>5, <2>1 DEF WaitTaskFile, Places
    <2> QED BY <1>5, <1>a, <1>b, <2>1, FailsEnds, PollRests DEF WaitTaskFile
  <1>6. CASE WaitCompletion
    BY <1>6, <1>a, <1>b, FailsEnds, SucceedsEnds, PollRests DEF WaitCompletion
  <1>7. CASE SetUp
    <2>1. CASE pc' = "slot" /\ UNCHANGED device
      BY <1>7, <2>1 DEF SetUp, Places, device
    <2> QED BY <1>7, <1>a, <1>b, <2>1, PollRests DEF SetUp
  <1>8. CASE Hardware
    BY <1>8, <1>b DEF Hardware, SpinUp, Complete, Fail, StopList, device
  <1>9. CASE UNCHANGED vars
    BY <1>9, <1>b DEF vars
  <1> QED BY <1>1, <1>2, <1>3, <1>4, <1>5, <1>6, <1>7, <1>8, <1>9 DEF Next, Driver

\* A sector that may hold anything still may after a call that failed.
LEMMA AnythingStays ==
  ASSUME TypeOK, NEW givenUp \in BOOLEAN, NEW lba \in Lbas, expected[lba] = Data
  PROVE  AfterFailure(givenUp)[lba] = Data
  <1>1. CASE call.op # "write"
    BY <1>1 DEF AfterFailure
  <1>2. CASE call.op = "write"
    <2>1. call.lba \in Lbas /\ call.data \in Data
      BY <1>2, TransferOps DEF TypeOK
    <2>2. CASE lba = call.lba
      <3>1. expected[call.lba] \cup {call.data} = Data
        BY <2>1, <2>2
      <3> QED BY <1>2, <2>1, <2>2, <3>1 DEF AfterFailure, TypeOK
    <2>3. CASE lba # call.lba
      BY <1>2, <2>1, <2>3 DEF AfterFailure, TypeOK
    <2> QED BY <2>2, <2>3
  <1> QED BY <1>1, <1>2

LEMMA JobStep ==
  ASSUME TypeOK, Places, JobOK, [Next]_vars
  PROVE  JobOK'
  <1>0. /\ pc \in {"tfd", "issued"} => call \in Transfers
        /\ job \in Transfers => job.op \in {"read", "write"} /\ job.lba \in Lbas
        /\ job # NoRequest => job \in Transfers /\ ci
        /\ ci \in BOOLEAN /\ tfes \in BOOLEAN
    BY TransferOps DEF Places, JobOK, TypeOK
  <1>a. ASSUME job' = NoRequest, pc' = "tfd" => ~ci',
               pc' = "issued" /\ ~tfes' => ~ci'
        PROVE  JobOK'
    BY <1>a DEF JobOK
  <1>b. ASSUME pc \notin {"tfd", "issued"}, pc' \notin {"tfd", "issued"},
               UNCHANGED <<job, lost>>,
               \A lba \in Lbas : expected[lba] = Data => expected'[lba] = Data
        PROVE  JobOK'
    BY <1>0, <1>b DEF JobOK
  <1>c. ASSUME UNCHANGED <<pc, ci, tfes, job, call, lost, expected>>
        PROVE  JobOK'
    BY <1>c DEF JobOK
  <1>1. CASE Fill \/ UNCHANGED vars
    BY <1>1, <1>c DEF Fill, vars, port, callers
  <1>2. CASE Call \/ Scan
    BY <1>2, <1>b DEF Call, Scan, port
  <1>3. CASE WaitSlot
    <2>1. pc = "slot" /\ UNCHANGED <<ci, tfes, job, lost>>
      BY <1>3 DEF WaitSlot, port
    <2>2. CASE Fails(FALSE)
      <3>1. \A lba \in Lbas : expected[lba] = Data => expected'[lba] = Data
        BY <2>2, FailsEnds, AnythingStays
      <3> QED BY <2>1, <2>2, <3>1, <1>b, FailsEnds
    <2>3. CASE ~ci /\ pc' = "tfd"
      BY <2>1, <2>3, <1>0, <1>a
    <2>4. CASE Poll
      BY <2>1, <2>4, <1>c, PollRests
    <2> QED BY <1>3, <2>2, <2>3, <2>4 DEF WaitSlot
  <1>4. CASE WaitTaskFile
    <2>1. pc = "tfd" /\ ~ci /\ job = NoRequest /\ UNCHANGED lost
      BY <1>0, <1>4 DEF WaitTaskFile, JobOK
    <2>2. CASE Fails(FALSE) /\ UNCHANGED <<ci, tfes, job>>
      BY <2>1, <2>2, <1>a, FailsEnds
    <2>3. CASE ci' = TRUE /\ tfes' = FALSE /\ job' = (IF ci THEN job ELSE call)
               /\ pc' = "issued" /\ UNCHANGED call
      BY <2>1, <2>3, <1>0 DEF JobOK
    <2>4. CASE Poll /\ UNCHANGED <<ci, tfes, job>>
      BY <2>1, <2>4, <1>c, PollRests DEF WaitTaskFile
    <2> QED BY <1>4, <2>2, <2>3, <2>4 DEF WaitTaskFile
  <1>5. CASE WaitCompletion
    <2>1. pc = "issued" /\ UNCHANGED <<ci, tfes, job>>
      BY <1>5 DEF WaitCompletion, port
    <2>2. CASE ~ci /\ ~tfes /\ Succeeds
      <3>1. job = NoRequest /\ pc' = "idle"
        BY <2>1, <2>2, <1>0, SucceedsEnds
      <3> QED BY <2>1, <3>1, <1>a
    <2>3. CASE tfes /\ Fails(FALSE)
      <3>1. job = NoRequest /\ pc' = "idle"
        BY <2>1, <2>3, FailsEnds DEF JobOK
      <3> QED BY <2>1, <3>1, <1>a
    <2>4. CASE Poll /\ UNCHANGED lost
      BY <2>1, <2>4, <1>c, PollRests
    <2>5. CASE ci /\ ~tfes /\ Fails(TRUE) /\ lost' = lost \cup {call.op}
      <3>1. job = call /\ call \in Transfers
        BY <2>1, <2>5, <1>0 DEF JobOK
      <3>2. pc' = "idle" /\ expected' = AfterFailure(TRUE)
        BY <2>5, <3>1, <1>0, FailsEnds
      <3>3. call.op = "write" => expected'[call.lba] = Data
        BY <1>0, <3>1, <3>2 DEF AfterFailure, TypeOK
      <3> QED BY <2>1, <2>5, <3>1, <3>2, <3>3, <1>0 DEF JobOK
    <2> QED BY <1>5, <2>2, <2>3, <2>4, <2>5 DEF WaitCompletion
  <1>6. CASE SetUp
    <2>1. pc = "stop" /\ UNCHANGED <<ci, job, lost, expected>>
      BY <1>6, PollRests DEF SetUp, callers
    <2>2. pc' \in {"slot", "stop", "idle"}
      BY <1>6, <2>1, PollRests DEF SetUp
    <2> QED BY <2>1, <2>2, <1>b
  <1>7. CASE SpinUp
    BY <1>7, <1>c DEF SpinUp, callers
  <1>8. CASE Complete
    <2>1. job' = NoRequest /\ ~ci'
      BY <1>8 DEF Complete
    <2> QED BY <2>1, <1>a
  <1>9. CASE Fail
    <2>1. job' = NoRequest /\ tfes' /\ UNCHANGED pc /\ job # NoRequest
      BY <1>9 DEF Fail
    <2>2. pc # "tfd"
      BY <2>1, <1>0 DEF JobOK
    <2> QED BY <2>1, <2>2, <1>a
  <1>10. CASE StopList
    BY <1>10, <1>a DEF StopList
  <1> QED BY <1>1, <1>2, <1>3, <1>4, <1>5, <1>6, <1>7, <1>8, <1>9, <1>10
          DEF Next, Driver, Hardware

-------------------------------------------------------------------------------
(* The data                                                                 *)

LEMMA BroughtStep ==
  ASSUME TypeOK, Places, JobOK, Brought, [Next]_vars
  PROVE  Brought'
  <1>0. /\ pc \in {"tfd", "issued"} => call \in Transfers /\ call # NoRequest
        /\ call \in Transfers => call.lba \in Lbas /\ call.buf \in Bufs
    BY TransferOps DEF Places, TypeOK
  <1>a. ASSUME pc' # "issued"
        PROVE  Brought'
    BY <1>a DEF Brought
  <1>b. ASSUME UNCHANGED <<pc, tfes, job, call, mem, disk>>
        PROVE  Brought'
    BY <1>b DEF Brought
  <1>1. CASE Fill \/ Call \/ Scan \/ SetUp
    BY <1>1, <1>a, PollRests DEF Fill, Call, Scan, SetUp
  <1>2. CASE WaitSlot
    BY <1>2, <1>a, FailsEnds, PollRests DEF WaitSlot
  <1>3. CASE WaitTaskFile
    <2>1. CASE job' = (IF ci THEN job ELSE call) /\ UNCHANGED call
      <3>1. job' # NoRequest
        BY <1>0, <1>3, <2>1 DEF WaitTaskFile, JobOK
      <3> QED BY <3>1 DEF Brought
    <2> QED BY <1>3, <1>a, <2>1, FailsEnds, PollRests DEF WaitTaskFile
  <1>4. CASE WaitCompletion
    BY <1>4, <1>a, <1>b, FailsEnds, SucceedsEnds, PollRests
       DEF WaitCompletion, port, storage
  <1>5. CASE SpinUp
    BY <1>5, <1>b DEF SpinUp, storage
  <1>6. CASE Complete
    <2>1. CASE pc = "issued" /\ call.op = "read"
      <3>1. job = call
        BY <1>6, <2>1 DEF Complete, JobOK, TypeOK
      <3>2. mem' = [mem EXCEPT ![call.buf] = disk[call.lba]] /\ disk' = disk /\ call' = call
        BY <1>6, <2>1, <3>1 DEF Complete
      <3>3. mem'[call.buf] = disk[call.lba]
        BY <1>0, <2>1, <3>2 DEF TypeOK
      <3> QED BY <3>2, <3>3 DEF Brought
    <2>2. UNCHANGED <<pc, call>>
      BY <1>6 DEF Complete
    <2> QED BY <2>1, <2>2 DEF Brought
  <1>7. CASE Fail
    BY <1>7 DEF Fail, Brought
  <1>8. CASE StopList
    BY <1>8, <1>a DEF StopList
  <1>9. CASE UNCHANGED vars
    BY <1>9, <1>b DEF vars
  <1> QED BY <1>1, <1>2, <1>3, <1>4, <1>5, <1>6, <1>7, <1>8, <1>9
          DEF Next, Driver, Hardware

\* What a call that failed leaves to be expected covers what may be there.
LEMMA FailureCovers ==
  ASSUME TypeOK, NEW givenUp \in BOOLEAN, NEW lba \in Lbas,
         \/ disk[lba] \in expected[lba]
         \/ call.op = "write" /\ call.lba = lba /\ disk[lba] = call.data
  PROVE  disk[lba] \in AfterFailure(givenUp)[lba]
  <1>0. disk[lba] \in Data
    BY DEF TypeOK
  <1>1. CASE call.op # "write"
    BY <1>1 DEF AfterFailure
  <1>2. CASE call.op = "write"
    <2>1. call.lba \in Lbas
      BY <1>2, TransferOps DEF TypeOK
    <2>2. CASE lba = call.lba
      BY <1>0, <1>2, <2>1, <2>2 DEF AfterFailure, TypeOK
    <2>3. CASE lba # call.lba
      BY <1>2, <2>1, <2>3 DEF AfterFailure, TypeOK
    <2> QED BY <2>2, <2>3
  <1> QED BY <1>1, <1>2

LEMMA TruthStep ==
  ASSUME TypeOK, Places, JobOK, Brought, Truth, [Next]_vars, "read" \notin lost'
  PROVE  Sent' /\ SectorsAsWritten'
  <1>0. /\ pc \in {"tfd", "issued"} => call \in Transfers /\ call # NoRequest
        /\ call.op = "write" => call \in Transfers
        /\ call \in Transfers => call.lba \in Lbas /\ call.buf \in Bufs /\ call.data \in Data
        /\ pc = "stop" => call.op = "identify"
        /\ job # NoRequest => job \in Transfers
        /\ job \in Transfers => job.lba \in Lbas /\ job.buf \in Bufs /\ job.op \in {"read", "write"}
        /\ mem \in [Bufs -> Data] /\ disk \in [Lbas -> Data]
    BY TransferOps, Literals DEF Places, JobOK, TypeOK
  <1>1. lost' = lost \/ lost' = lost \cup {call.op}
    BY DEF Next, Fill, Call, Scan, Driver, WaitSlot, WaitTaskFile, WaitCompletion, SetUp,
           Hardware, SpinUp, Complete, Fail, StopList, vars
  <1>2. Sent /\ SectorsAsWritten /\ "read" \notin lost
    BY <1>1 DEF Truth
  <1>3. pc # "issued" => \A lba \in Lbas : disk[lba] \in expected[lba]
    BY <1>2 DEF SectorsAsWritten
  <1>a. ASSUME UNCHANGED <<pc, tfes, job, call, mem, disk, expected>>
        PROVE  Sent' /\ SectorsAsWritten'
    BY <1>2, <1>a DEF Sent, SectorsAsWritten
  <1>b. ASSUME pc # "issued", pc' \in {"idle", "stop"}, UNCHANGED <<disk, expected>>
        PROVE  Sent' /\ SectorsAsWritten'
    BY <1>3, <1>b DEF Sent, SectorsAsWritten
  <1>c. ASSUME NEW givenUp \in BOOLEAN, Fails(givenUp), UNCHANGED disk,
               pc \in {"slot", "tfd", "issued"}
        PROVE  Sent' /\ SectorsAsWritten'
    <2>1. pc' = "idle" /\ ((expected' = expected /\ call.op = "identify") \/ expected' = AfterFailure(givenUp))
      BY <1>c, FailsEnds
    <2>2. \A lba \in Lbas : disk[lba] \in expected'[lba]
      <3>1. CASE expected' = expected /\ call.op = "identify"
        BY <1>2, <3>1 DEF SectorsAsWritten
      <3>2. CASE expected' = AfterFailure(givenUp)
        BY <1>2, <3>2, FailureCovers DEF SectorsAsWritten
      <3> QED BY <2>1, <3>1, <3>2
    <2> QED BY <1>c, <2>1, <2>2 DEF Sent, SectorsAsWritten
  <1>4. CASE Fill
    BY <1>3, <1>4 DEF Fill, Sent, SectorsAsWritten, callers
  <1>5. CASE Call
    <2>1. \E op \in {"read", "write"}, lba \in Lbas, buf \in Bufs :
             call' = Request(op, lba, buf, mem[buf])
      BY <1>5 DEF Call
    <2>2. mem'[call'.buf] = call'.data
      BY <1>5, <2>1 DEF Call, storage, Request
    <2> QED BY <1>3, <1>5, <2>2 DEF Call, storage, Sent, SectorsAsWritten
  <1>6. CASE Scan
    BY <1>6, <1>b DEF Scan, storage
  <1>7. CASE WaitSlot
    <2>1. pc = "slot" /\ UNCHANGED <<tfes, job, mem, disk>>
      BY <1>7 DEF WaitSlot, port, storage
    <2>2. CASE Fails(FALSE)
      BY <2>1, <2>2, <1>c
    <2>3. CASE Poll
      BY <2>1, <2>3, <1>a, PollRests
    <2>4. CASE pc' = "tfd" /\ UNCHANGED call /\ UNCHANGED callers
      BY <2>1, <2>4, <1>2, <1>3 DEF Sent, SectorsAsWritten, callers
    <2> QED BY <1>7, <2>2, <2>3, <2>4 DEF WaitSlot
  <1>8. CASE WaitTaskFile
    <2>1. pc = "tfd" /\ UNCHANGED <<mem, disk>>
      BY <1>8 DEF WaitTaskFile, storage
    <2>2. CASE Fails(FALSE)
      BY <2>1, <2>2, <1>c
    <2>3. CASE Poll /\ UNCHANGED <<ci, tfes, job>>
      BY <2>1, <2>3, <1>a, PollRests
    <2>4. CASE pc' = "issued" /\ UNCHANGED call /\ UNCHANGED callers
               /\ job' = IF ci THEN job ELSE call
      <3>1. job' # NoRequest
        BY <1>0, <2>1, <2>4 DEF JobOK
      <3> QED BY <2>1, <2>4, <3>1, <1>2, <1>3 DEF Sent, SectorsAsWritten, callers
    <2> QED BY <1>8, <2>2, <2>3, <2>4 DEF WaitTaskFile
  <1>9. CASE WaitCompletion
    <2>1. pc = "issued" /\ UNCHANGED <<tfes, job, mem, disk>>
      BY <1>9 DEF WaitCompletion, port, storage
    <2>2. CASE Fails(FALSE) \/ Fails(TRUE)
      BY <2>1, <2>2, <1>c
    <2>3. CASE Poll
      BY <2>1, <2>3, <1>a, PollRests
    <2>4. CASE ~ci /\ ~tfes /\ Succeeds
      <3>1. job = NoRequest
        BY <2>1, <2>4, <1>0 DEF JobOK, TypeOK
      <3>2. pc' = "idle" /\ call.op \in {"read", "write"}
        BY <2>1, <2>4, <1>0, SucceedsEnds, TransferOps DEF TypeOK
      <3>3. \A lba \in Lbas : disk[lba] \in expected'[lba]
        <4>1. CASE call.op = "write"
          <5>1. expected' = [expected EXCEPT ![call.lba] = {call.data}]
            BY <2>4, <4>1, SucceedsEnds
          <5>2. disk[call.lba] = call.data
            BY <1>2, <2>1, <2>4, <3>1, <4>1 DEF Sent
          <5> QED BY <1>0, <1>2, <4>1, <5>1, <5>2 DEF SectorsAsWritten, TypeOK
        <4>2. CASE call.op = "read"
          BY <1>2, <2>4, <4>2, SucceedsEnds DEF SectorsAsWritten
        <4> QED BY <3>2, <4>1, <4>2
      <3> QED BY <2>1, <3>2, <3>3 DEF Sent, SectorsAsWritten
    <2> QED BY <1>9, <2>2, <2>3, <2>4 DEF WaitCompletion
  <1>10. CASE SetUp
    <2>1. pc = "stop" /\ UNCHANGED <<disk, expected>> /\ call.op = "identify"
      BY <1>0, <1>10, PollRests DEF SetUp, storage, callers
    <2>2. pc' \in {"slot", "stop", "idle"} /\ (pc' = "idle" \/ UNCHANGED call)
      BY <1>10, PollRests DEF SetUp
    <2> QED BY <2>1, <2>2, <1>3 DEF Sent, SectorsAsWritten
  <1>11. CASE SpinUp
    BY <1>11, <1>a DEF SpinUp, storage, callers
  <1>12. CASE StopList
    <2>1. pc = "stop" /\ UNCHANGED <<pc, disk, expected>>
      BY <1>12 DEF StopList, storage, callers
    <2> QED BY <2>1, <1>b
  <1>13. CASE Complete \/ Fail
    <2>1. /\ job # NoRequest /\ job \in Transfers
          /\ UNCHANGED <<pc, call, lost, expected>>
      BY <1>0, <1>13 DEF Complete, Fail, callers
    <2>2. \/ pc = "issued" /\ job = call
          \/ /\ pc \notin {"issued", "tfd"} /\ job.op = "write"
             /\ expected[job.lba] = Data
      <3>1. CASE pc = "issued"
        BY <2>1, <3>1 DEF JobOK, TypeOK
      <3>2. CASE pc # "issued"
        <4>1. job.op \in lost /\ (job.op = "write" => expected[job.lba] = Data)
          BY <2>1, <3>2 DEF JobOK
        <4>2. pc # "tfd"
          BY <2>1 DEF JobOK, TypeOK
        <4> QED BY <1>0, <1>2, <2>1, <3>2, <4>1, <4>2
      <3> QED BY <3>1, <3>2
    <2>3. job.op = "write" => mem' = mem
      BY <1>13 DEF Complete, Fail
    <2>4. \/ disk' = disk
          \/ job.op = "write" /\ disk' = [disk EXCEPT ![job.lba] = mem[job.buf]]
      BY <1>13 DEF Complete, Fail
    <2>5. CASE pc = "issued" /\ job = call /\ call.op = "write"
      <3>1. mem[call.buf] = call.data
        BY <1>2, <2>5 DEF Sent
      <3>2. mem' = mem /\ (disk' = disk \/ disk' = [disk EXCEPT ![call.lba] = call.data])
        BY <2>3, <2>4, <2>5, <3>1
      <3>3. SectorsAsWritten'
        BY <1>0, <1>2, <2>1, <2>5, <3>2 DEF SectorsAsWritten
      <3>4. Complete => disk'[call.lba] = call.data
        BY <1>0, <2>5, <3>1 DEF Complete
      <3>5. Fail => tfes'
        BY DEF Fail
      <3> QED BY <1>13, <2>1, <3>1, <3>2, <3>3, <3>4, <3>5 DEF Sent
    <2>6. CASE pc = "issued" /\ job = call /\ call.op = "read"
      BY <1>2, <2>1, <2>4, <2>6 DEF Sent, SectorsAsWritten
    <2>7. CASE pc \notin {"issued", "tfd"} /\ job.op = "write" /\ expected[job.lba] = Data
      <3>1. mem[job.buf] \in Data
        BY <1>0, <2>1
      <3>2. \A lba \in Lbas : disk'[lba] \in expected[lba]
        BY <1>0, <1>3, <2>1, <2>4, <2>7, <3>1
      <3> QED BY <1>2, <2>1, <2>3, <2>7, <3>2 DEF Sent, SectorsAsWritten
    <2>8. pc = "issued" /\ job = call => call.op \in {"read", "write"}
      BY <1>0, <2>1
    <2> QED BY <2>2, <2>5, <2>6, <2>7, <2>8
  <1>14. CASE UNCHANGED vars
    BY <1>14, <1>a DEF vars
  <1> QED BY <1>4, <1>5, <1>6, <1>7, <1>8, <1>9, <1>10, <1>11, <1>12, <1>13, <1>14
          DEF Next, Driver, Hardware

-------------------------------------------------------------------------------
(* The theorems                                                             *)

LEMMA InitInv == Init => IInv
  <1> SUFFICES ASSUME Init PROVE IInv
    OBVIOUS
  <1>1. TypeOK
    <2>1. \A lba \in Lbas : {disk[lba]} \in SUBSET Data
      BY DEF Init
    <2>2. expected \in [Lbas -> SUBSET Data]
      BY <2>1 DEF Init
    <2> QED BY <2>2, Literals DEF Init, TypeOK, Answers
  <1>2. Places /\ JobOK /\ Brought
    BY DEF Init, Places, JobOK, Brought
  <1>3. \A lba \in Lbas : disk[lba] \in expected[lba]
    BY DEF Init
  <1>4. Truth
    BY <1>3 DEF Init, Truth, Sent, SectorsAsWritten
  <1> QED BY <1>1, <1>2, <1>4 DEF IInv

LEMMA NextInv == IInv /\ [Next]_vars => IInv'
  <1> SUFFICES ASSUME IInv, [Next]_vars PROVE IInv'
    OBVIOUS
  <1> USE DEF IInv
  <1>1. TypeOK' /\ Places'
    BY TypeStep, PlacesStep
  <1>2. JobOK' /\ Brought'
    BY JobStep, BroughtStep
  <1>3. Truth'
    <2>1. "read" \notin lost' => Sent' /\ SectorsAsWritten'
      BY TruthStep
    <2> QED BY <2>1 DEF Truth
  <1> QED BY <1>1, <1>2, <1>3

\* The driver keeps its bookkeeping, of what it sent, was told and lost, through every
\* error and retry of a port (ata.c's AHCI half).
THEOREM PortInvariant == Spec => []IInv
  BY InitInv, NextInv, PTL DEF Spec

\* Type correctness of the port and its driver; the drive works only while its
\* slot is in use.
THEOREM TypeCorrect == Spec => []TypeOK
  <1>1. IInv => TypeOK
    BY DEF IInv
  <1> QED BY <1>1, PortInvariant, PTL

\* A write that returned 0 has stored its data, and nothing else writes a sector,
\* as long as no read was given up.
THEOREM SectorsAreWritten == Spec => []SectorsAsWritten
  <1>1. IInv => SectorsAsWritten
    BY DEF IInv, Truth, SectorsAsWritten
  <1> QED BY <1>1, PortInvariant, PTL

\* A read that returns 0 has brought its sector, whatever was given up before.
THEOREM ReadsAreTrue == Spec => ReadsTellTheTruth
  <1>1. IInv /\ [Next]_vars =>
          [pc = "issued" /\ pc' = "idle" /\ call.op = "read" /\ ret'.ok =>
              mem[call.buf] = disk[call.lba]]_vars
    <2> SUFFICES ASSUME IInv, [Next]_vars,
                        pc = "issued", pc' = "idle", call.op = "read", ret'.ok
                 PROVE  mem[call.buf] = disk[call.lba]
      OBVIOUS
    <2>1. TypeOK /\ JobOK /\ Brought
      BY DEF IInv
    <2>2. WaitCompletion
      BY DEF Next, Fill, Call, Scan, Driver, WaitSlot, WaitTaskFile, SetUp,
             Hardware, SpinUp, Complete, Fail, StopList, vars
    <2>3. ~Poll /\ ~Fails(TRUE) /\ ~Fails(FALSE)
      BY PollRests, FailsEnds
    <2>4. ~ci /\ ~tfes
      BY <2>2, <2>3 DEF WaitCompletion
    <2>5. job = NoRequest
      BY <2>1, <2>4 DEF JobOK
    <2> QED BY <2>1, <2>4, <2>5 DEF Brought
  <1> QED BY <1>1, PortInvariant, PTL DEF Spec, ReadsTellTheTruth

\* Between two calls no buffer changes under its owner, unless a read was given
\* up.
THEOREM BuffersStayQuiet == Spec => BuffersAreQuiet
  <1>1. IInv /\ [Next]_vars =>
          [pc = "idle" /\ "read" \notin lost /\ mem' # mem => Fill]_vars
    <2> SUFFICES ASSUME IInv, [Next]_vars, pc = "idle", "read" \notin lost, mem' # mem
                 PROVE  Fill
      OBVIOUS
    <2>1. ~Complete
      <3>1. job # NoRequest => job.op # "read"
        BY DEF IInv, JobOK
      <3> QED BY <3>1 DEF Complete
    <2> QED BY <2>1 DEF Next, Call, Scan, Driver, WaitSlot, WaitTaskFile, WaitCompletion,
                        SetUp, Hardware, SpinUp, Fail, StopList, vars, storage
  <1> QED BY <1>1, PortInvariant, PTL DEF Spec, BuffersAreQuiet
===============================================================================
