------------------------ MODULE UpdateSessionProofs ------------------------
(***************************************************************************)
(* Proofs about UpdateSession for every number of chunks, attempts, polls, *)
(* runs and faults, and every set of fault kinds.  The argument: reports   *)
(* travel in order, and outside the transfer phase at most one request of  *)
(* a run is on its way, so an accepted 0x65 was the last report the mouse  *)
(* had to handle and its verdict is about the state the reset will find.   *)
(***************************************************************************)
EXTENDS UpdateSession, TLAPS

Report ==
  {r \in [command : Command, sequence : 1..MaxSequence, data : Seq(0..ChunkCount)] :
     r.command = "TRANSFER" => Len(r.data) = 1 /\ r.data[1] \in Chunk}

Reply == [command : Command \cup {"NONE"}, sequence : 0..MaxSequence, status : Status]

\* What is on the link, and that a chunk under way is a chunk of the image.
LinkTypeOK ==
  /\ inbox \in Seq(Report) /\ outbox \in Seq(Reply)
  /\ pc \in {"ident", "caps", "gate", "select", "start", "transfer"} => chunk \in Chunk

TypeInv == TypeOK /\ LinkTypeOK

Single == {"ident", "caps", "select", "start"}
OnlyTransfers(s) == \A i \in 1..Len(s) : s[i].command = "TRANSFER"
NoReplyTo(c) == \A i \in 1..Len(outbox) : outbox[i].command # c

\* While the run's handle lives.  A phase that writes one request: either that
\* request is on its way and unanswered, or everything was handled.
SingleRequest ==
  pc \in Single /\ waiting =>
    \/ Len(inbox) = 1 /\ inbox[1] = Frame /\ NoReplyTo(CommandOf(pc))
    \/ inbox = <<>> /\ (pc = "start" => dev.state = "UPDATING")
NothingUnderWay == pc \in Single \cup {"gate"} /\ ~waiting => inbox = <<>>
TransferPhase ==
  pc = "transfer" \/ (pc = "check" /\ ~waiting) =>
    dev.state = "UPDATING" /\ OnlyTransfers(inbox)
CheckPhase ==
  pc = "check" /\ waiting =>
    /\ dev.state = "UPDATING"
    /\ \/ /\ inbox # <<>> /\ inbox[Len(inbox)] = Frame
          /\ \A i \in 1..(Len(inbox) - 1) : inbox[i].command = "TRANSFER"
          /\ NoReplyTo("CHECK_CRC")
       \/ /\ inbox = <<>>
          /\ \A i \in 1..Len(outbox) :
               outbox[i].command = "CHECK_CRC" /\ outbox[i].status = "OK"
                 => dev.runningCrc = WholeImage
ResetPhase ==
  pc = "reset" => /\ dev.state = "UPDATING" /\ dev.runningCrc = WholeImage
                  /\ inbox = <<>>

LinkInv == handle => /\ SingleRequest /\ NothingUnderWay /\ TransferPhase
                     /\ CheckPhase /\ ResetPhase
HandlePhase == handle => pc \in Exchanging \cup {"gate", "reset", "recover"}
WaitingPhase == waiting => pc \in Exchanging

IndInv == TypeInv /\ HandlePhase /\ WaitingPhase /\ LinkInv
-----------------------------------------------------------------------------
(***************************************************************************)
(* The handler of g6he_updater_handle keeps a device record a device       *)
(* record, whatever well-formed request it is given.                       *)
(***************************************************************************)
LEMMA HandlerType ==
  ASSUME NEW d \in Device, NEW req \in Report
  PROVE  UpdaterAfter(d, req) \in Device /\ UpdaterReply(d, req) \in Reply
<1>1. UpdaterAfter(d, req) \in Device
  <2>1. 0 \in Crc
    BY ChunkCountAssumption DEF Crc
  <2>2. CASE req.command = "TRANSFER"
    <3>1. CrcUpdate(d.runningCrc, req.data[1]) \in Crc
      BY <2>2, ChunkCountAssumption DEF CrcUpdate, Report, Crc, Garbled, Chunk
    <3>2. QED
      BY <2>2, <3>1 DEF UpdaterAfter, Device
  <2>3. CASE req.command # "TRANSFER"
    BY <2>1, <2>3 DEF UpdaterAfter, Device, UpdaterState
  <2>4. QED
    BY <2>2, <2>3
<1>2. ResponseStatus(d, req) \in Status
  BY DEF ResponseStatus, Status
<1>3. req.command \in Command /\ req.sequence \in 1..MaxSequence
  BY DEF Report
<1>4. QED
  BY <1>1, <1>2, <1>3, SessionAssumption DEF UpdaterReply, Reply

(***************************************************************************)
(* Payloads are short sequences.                                           *)
(***************************************************************************)
LEMMA ShortSequences ==
  ASSUME NEW S, NEW x \in S
  PROVE  <<>> \in Seq(S) /\ <<x>> \in Seq(S) /\ <<x, x>> \in Seq(S)
  OBVIOUS

\* The queues: what a first report, one more report and no report are.
LEMMA TailFacts ==
  ASSUME NEW S, NEW s \in Seq(S), s # <<>>
  PROVE  /\ Len(s) \in Nat /\ Len(s) >= 1 /\ Head(s) = s[1] /\ s[1] \in S
         /\ Tail(s) \in Seq(S) /\ Len(Tail(s)) = Len(s) - 1
         /\ \A i \in 1..(Len(s) - 1) : Tail(s)[i] = s[i + 1]
  OBVIOUS

LEMMA AppendFacts ==
  ASSUME NEW S, NEW s \in Seq(S), NEW x \in S
  PROVE  /\ Append(s, x) \in Seq(S) /\ Len(Append(s, x)) = Len(s) + 1
         /\ Append(s, x)[Len(s) + 1] = x /\ Append(s, x) # <<>>
         /\ \A i \in 1..Len(s) : Append(s, x)[i] = s[i]
  OBVIOUS

LEMMA EmptyFacts ==
  ASSUME NEW S, NEW s \in Seq(S)
  PROVE  /\ Len(s) \in Nat /\ (Len(s) = 0 <=> s = <<>>)
         /\ Len(<<>>) = 0
  OBVIOUS

(***************************************************************************)
(* The frame an exchange writes is a well-formed request.                  *)
(***************************************************************************)
LEMMA FrameType ==
  ASSUME TypeInv, pc \in Exchanging \cup {"reset", "recover"}
  PROVE  Frame \in Report /\ Frame.command = CommandOf(pc)
<1>1. CommandOf(pc) \in Command /\ seq \in 1..MaxSequence
  BY DEF CommandOf, Command, TypeInv, TypeOK, HostTypeOK, Exchanging
<1>2. 0 \in 0..ChunkCount /\ WholeImage \in 0..ChunkCount
  BY ChunkCountAssumption DEF WholeImage
<1>3. pc = "transfer" => chunk \in Chunk /\ chunk \in 0..ChunkCount
  BY ChunkCountAssumption DEF TypeInv, LinkTypeOK, Chunk
<1>4. /\ pc = "select" => DataOf(pc) = <<0>>
      /\ pc = "transfer" => DataOf(pc) = <<chunk>>
      /\ pc = "check" => DataOf(pc) = <<WholeImage, WholeImage>>
      /\ pc \notin {"select", "transfer", "check"} => DataOf(pc) = <<>>
  BY DEF DataOf
<1>5. DataOf(pc) \in Seq(0..ChunkCount)
  BY <1>2, <1>3, <1>4, ShortSequences
<1>6. CommandOf(pc) = "TRANSFER" => pc = "transfer"
  BY DEF CommandOf, Exchanging
<1>7. pc = "transfer" => Len(DataOf(pc)) = 1 /\ DataOf(pc)[1] \in Chunk
  BY <1>3, <1>4
<1>8. QED
  BY <1>1, <1>5, <1>6, <1>7 DEF Frame, Report

(***************************************************************************)
(* An exception leaves the tool in a legal state, on the same chunk, and   *)
(* either retrying it, or recovering, or done with the handle given up.    *)
(***************************************************************************)
RaiseResult ==
  /\ HostTypeOK' /\ chunk' = chunk /\ ~waiting'
  /\ \/ pc = "transfer" /\ pc' = pc /\ handle' = handle
     \/ pc' = "recover" /\ handle' = handle
     \/ pc' = "closed" /\ ~handle'

LEMMA CloseEffect ==
  ASSUME HostTypeOK, NEW o \in Outcome, NEW rec \in Recovery, Close(o, rec)
  PROVE  RaiseResult
  BY DEF HostTypeOK, Close, Phase, RaiseResult

LEMMA RaiseEffect ==
  ASSUME HostTypeOK, Raise
  PROVE  RaiseResult
<1>1. ASSUME Retry PROVE RaiseResult
  <2>1. attempt' \in 0..(MaxAttempts - 1)
    BY <1>1, SessionAssumption DEF Retry, HostTypeOK
  <2>2. QED
    BY <1>1, <2>1 DEF Retry, reportVars, HostTypeOK, RaiseResult
<1>2. ASSUME EnterRecovery PROVE RaiseResult
  BY <1>2 DEF EnterRecovery, reportVars, Phase, HostTypeOK, RaiseResult
<1>3. {"interrupted", "error"} \subseteq Outcome
  BY DEF Outcome
<1>4. {"none", "not_entered", "failed"} \subseteq Recovery
  BY DEF Recovery
<1>5. ASSUME Abandon PROVE RaiseResult
  BY <1>2, <1>3, <1>4, <1>5, CloseEffect DEF Abandon
<1>6. CASE pc \in {"ident", "caps"} /\ Close("error", "none")
  BY <1>3, <1>4, <1>6, CloseEffect
<1>7. CASE pc = "recover" /\ Close("interrupted", "failed")
  BY <1>3, <1>4, <1>7, CloseEffect
<1>8. QED
  BY <1>1, <1>5, <1>6, <1>7 DEF Raise
-----------------------------------------------------------------------------
(***************************************************************************)
(* Type correctness is inductive.  The only parts with any content are the *)
(* wrap of the sequence number, the attempt and poll counters below their  *)
(* bounds, and that the chunk counter leaves the image only with the       *)
(* transfer phase.                                                         *)
(***************************************************************************)
LEMMA LeastValues ==
  /\ 1 \in 1..MaxSequence /\ 1 \in 1..(ChunkCount + 1)
  /\ 0 \in 0..(MaxAttempts - 1) /\ 0 \in 0..(MaxPolls - 1)
  /\ "ident" \in Phase /\ "none" \in Outcome /\ "none" \in Recovery
  BY ChunkCountAssumption, SessionAssumption
  DEF Phase, Exchanging, Outcome, Recovery

LEMMA InitType == Init => TypeInv
<1> SUFFICES ASSUME Init PROVE TypeInv
  OBVIOUS
<1>1. HostTypeOK
  BY LeastValues DEF Init, HostTypeOK, Phase
<1>2. request \in Request
  BY DEF Init, Request
<1>3. 0 \in Crc
  BY ChunkCountAssumption DEF Crc
<1>4. dev \in Device
  BY <1>3 DEF Init, Device, updater_init, UpdaterState
<1>5. openedOn \in Image /\ runs \in 0..MaxRuns /\ running \in Image
      /\ usb \in Usb /\ stderrOpen \in BOOLEAN /\ faults \in 0..MaxFaults
  BY SessionAssumption DEF Init, Image, Usb
<1>6. LinkTypeOK
  <2>1. inbox = <<>> /\ outbox = <<>> /\ chunk = 1
    BY DEF Init
  <2>2. 1 \in Chunk
    BY ChunkCountAssumption DEF Chunk
  <2>3. QED
    BY <2>1, <2>2 DEF LinkTypeOK
<1>7. QED
  BY <1>1, <1>2, <1>4, <1>5, <1>6 DEF TypeInv, TypeOK

LEMMA NextSequence == ASSUME seq \in 1..MaxSequence
                      PROVE  _next_sequence(seq) \in 1..MaxSequence
  BY SessionAssumption DEF _next_sequence

LEMMA FaultType == ASSUME NEW k, Fault(k), faults \in 0..MaxFaults
                   PROVE  faults' \in 0..MaxFaults
  BY SessionAssumption DEF Fault

LEMMA CloseType ==
  ASSUME TypeInv, NEW o \in Outcome, NEW rec \in Recovery, Close(o, rec)
  PROVE  HostTypeOK' /\ pc' = "closed"
  BY CloseEffect DEF TypeInv, TypeOK, RaiseResult, Close

\* What an exception needs of the rest of its action.
LEMMA RaiseType ==
  ASSUME TypeInv, Raise, UNCHANGED <<runVars, deviceVars, stderrOpen>>,
         faults' \in 0..MaxFaults, inbox' \in Seq(Report), outbox' \in Seq(Reply)
  PROVE  TypeInv'
<1>1. HostTypeOK
  BY DEF TypeInv, TypeOK
<1>2. RaiseResult
  BY <1>1, RaiseEffect
<1>3. TypeOK'
  BY <1>2 DEF RaiseResult, TypeInv, TypeOK, runVars, deviceVars
<1>4. LinkTypeOK'
  BY <1>2 DEF RaiseResult, TypeInv, LinkTypeOK
<1>5. QED
  BY <1>3, <1>4 DEF TypeInv

LEMMA OpenType ==
  ASSUME TypeInv, NEW r \in Request, Open(r)
  PROVE  TypeInv'
<1>1. HostTypeOK'
  BY LeastValues DEF Open, HostTypeOK
<1>2. runs' \in 0..MaxRuns
  BY SessionAssumption DEF Open, TypeInv, TypeOK
<1>3. TypeOK'
  BY <1>1, <1>2 DEF Open, TypeInv, TypeOK, deviceVars
<1>4. LinkTypeOK'
  <2>1. inbox' = inbox /\ outbox' = <<>> /\ chunk' = 1
    BY DEF Open
  <2>2. 1 \in Chunk
    BY ChunkCountAssumption DEF Chunk
  <2>3. QED
    BY <2>1, <2>2 DEF TypeInv, LinkTypeOK
<1>5. QED
  BY <1>3, <1>4 DEF TypeInv

LEMMA WriteType ==
  ASSUME TypeInv, WriteRequest \/ WriteReset
  PROVE  TypeInv'
<1>1. Frame \in Report
  BY FrameType DEF WriteRequest, WriteReset, Writing
<1>2. inbox' = Append(inbox, Frame) /\ outbox' = <<>>
  BY DEF WriteRequest, WriteReset
<1>3. inbox' \in Seq(Report) /\ outbox' \in Seq(Reply)
  BY <1>1, <1>2 DEF TypeInv, LinkTypeOK
<1>4. CASE WriteRequest
  BY <1>3, <1>4 DEF WriteRequest, TypeInv, TypeOK, HostTypeOK, LinkTypeOK,
     reportVars, runVars, deviceVars
<1>5. CASE WriteReset
  <2>1. "interrupted" \in Outcome /\ "sent" \in Recovery
    BY DEF Outcome, Recovery
  <2>2. HostTypeOK' /\ pc' \in {"verify", "closed"}
    <3>1. CASE Close("interrupted", "sent")
      BY <2>1, <3>1, CloseType
    <3>2. CASE ~Close("interrupted", "sent")
      BY <1>5, <3>2 DEF WriteReset, TypeInv, TypeOK, HostTypeOK, Phase, reportVars
    <3>3. QED
      BY <3>1, <3>2
  <2>3. TypeOK'
    BY <1>5, <2>2 DEF WriteReset, TypeInv, TypeOK, runVars, deviceVars
  <2>4. LinkTypeOK'
    BY <1>3, <2>2 DEF LinkTypeOK
  <2>5. QED
    BY <2>3, <2>4 DEF TypeInv
<1>6. QED
  BY <1>4, <1>5
LEMMA WriteFailsType == TypeInv /\ WriteFails => TypeInv'
<1> SUFFICES ASSUME TypeInv, WriteFails PROVE TypeInv'
  OBVIOUS
<1>1. Frame \in Report
  BY FrameType DEF WriteFails, Writing
<1>2. inbox' \in Seq(Report) /\ outbox' \in Seq(Reply)
  BY <1>1 DEF WriteFails, TypeInv, LinkTypeOK
<1>3. faults' \in 0..MaxFaults
  BY FaultType DEF WriteFails, TypeInv, TypeOK
<1>4. QED
  BY <1>2, <1>3, RaiseType DEF WriteFails

LEMMA DeadHandleType == TypeInv /\ DeadHandle => TypeInv'
<1> SUFFICES ASSUME TypeInv, DeadHandle PROVE TypeInv'
  OBVIOUS
<1>1. inbox' \in Seq(Report) /\ outbox' \in Seq(Reply) /\ faults' \in 0..MaxFaults
  BY DEF DeadHandle, linkVars, TypeInv, TypeOK, LinkTypeOK
<1>2. QED
  BY <1>1, RaiseType DEF DeadHandle

LEMMA TimeoutType == TypeInv /\ Timeout => TypeInv'
<1> SUFFICES ASSUME TypeInv, Timeout PROVE TypeInv'
  OBVIOUS
<1>1. inbox' \in Seq(Report) /\ outbox' \in Seq(Reply)
  BY DEF Timeout, linkVars, TypeInv, LinkTypeOK
<1>2. faults' \in 0..MaxFaults
  BY FaultType DEF Timeout, TypeInv, TypeOK
<1>3. QED
  BY <1>1, <1>2, RaiseType DEF Timeout

LEMMA ReadWrongReplyType == TypeInv /\ ReadWrongReply => TypeInv'
<1> SUFFICES ASSUME TypeInv, ReadWrongReply PROVE TypeInv'
  OBVIOUS
<1>1. inbox' \in Seq(Report) /\ outbox' \in Seq(Reply)
  BY DEF ReadWrongReply, TypeInv, LinkTypeOK
<1>2. faults' \in 0..MaxFaults
  BY DEF ReadWrongReply, TypeInv, TypeOK
<1>3. QED
  BY <1>1, <1>2, RaiseType DEF ReadWrongReply

LEMMA ReadReplyType == TypeInv /\ ReadReply => TypeInv'
<1> SUFFICES ASSUME TypeInv, ReadReply PROVE TypeInv'
  OBVIOUS
<1>1. outbox' \in Seq(Reply) /\ inbox' = inbox
  BY DEF ReadReply, TypeInv, LinkTypeOK
<1>2. _next_sequence(seq) \in 1..MaxSequence
  BY NextSequence DEF TypeInv, TypeOK, HostTypeOK
<1>3. HostTypeOK' /\ (pc' \in {"ident", "caps", "gate", "select", "start", "transfer"}
                        => chunk' \in Chunk)
  <2>1. CASE pc = "transfer"
    <3>1. CASE Advance(IF chunk < ChunkCount THEN "transfer" ELSE "check")
      <4>1. chunk \in Chunk
        BY <2>1 DEF TypeInv, LinkTypeOK
      <4>2. /\ chunk' = chunk + 1 /\ attempt' = 0
            /\ UNCHANGED <<updateModeEntered, sleepAssertion>>
        BY <2>1, <3>1 DEF ReadReply, ChunkAcknowledged, Advance
      <4>3. chunk' \in 1..(ChunkCount + 1) /\ (chunk < ChunkCount => chunk' \in Chunk)
        BY <4>1, <4>2, ChunkCountAssumption DEF Chunk
      <4>4. pc' \in {"transfer", "check"} /\ (pc' = "transfer" => chunk < ChunkCount)
        BY <3>1 DEF Advance
      <4>5. QED
        BY <1>2, <3>1, <4>2, <4>3, <4>4, LeastValues
        DEF Advance, HostTypeOK, TypeInv, TypeOK, Phase, Exchanging, reportVars
    <3>2. CASE ~Advance(IF chunk < ChunkCount THEN "transfer" ELSE "check")
      BY <1>2, <2>1, <3>2
      DEF ReadReply, ChunkAcknowledged, HostTypeOK, TypeInv, TypeOK, Phase, reportVars
    <3>3. QED
      BY <3>1, <3>2
  <2>2. CASE pc # "transfer"
    BY <1>2, <2>2
    DEF ReadReply, ChunkAcknowledged, Advance, HostTypeOK, TypeInv, TypeOK, LinkTypeOK,
        Phase, Exchanging, reportVars
  <2>3. QED
    BY <2>1, <2>2
<1>4. QED
  BY <1>1, <1>3 DEF ReadReply, TypeInv, TypeOK, LinkTypeOK, runVars, deviceVars
\* What a report of the run's end, and what a step of the environment, need of
\* the rest of their actions.
LEMMA EndType ==
  ASSUME TypeInv, NEW o \in Outcome, NEW rec \in Recovery, Close(o, rec),
         UNCHANGED <<runVars, linkVars, deviceVars, stderrOpen>>,
         faults' \in 0..MaxFaults
  PROVE  TypeInv'
<1>1. HostTypeOK' /\ pc' = "closed"
  BY CloseType
<1>2. QED
  BY <1>1 DEF TypeInv, TypeOK, LinkTypeOK, runVars, linkVars, deviceVars

LEMMA LinkStepType ==
  ASSUME TypeInv, UNCHANGED <<progressVars, reportVars, runVars>>,
         handle' \in BOOLEAN, inbox' \in Seq(Report), outbox' \in Seq(Reply),
         dev' \in Device, running' \in Image, usb' \in Usb,
         stderrOpen' \in BOOLEAN, faults' \in 0..MaxFaults
  PROVE  TypeInv'
<1>1. HostTypeOK'
  BY DEF TypeInv, TypeOK, HostTypeOK, progressVars, reportVars
<1>2. request' \in Request /\ openedOn' \in Image /\ runs' \in 0..MaxRuns
  BY DEF TypeInv, TypeOK, runVars
<1>3. TypeOK'
  BY <1>1, <1>2 DEF TypeOK
<1>4. LinkTypeOK'
  BY DEF TypeInv, LinkTypeOK, progressVars
<1>5. QED
  BY <1>3, <1>4 DEF TypeInv

LEMMA GateType == TypeInv /\ Gate => TypeInv'
<1> SUFFICES ASSUME TypeInv, Gate PROVE TypeInv'
  OBVIOUS
<1>1. faults' \in 0..MaxFaults /\ UNCHANGED <<runVars, linkVars, deviceVars, stderrOpen>>
  BY DEF Gate, TypeInv, TypeOK
<1>2. {"error", "already_current", "ready", "refused"} \subseteq Outcome
      /\ "none" \in Recovery
  BY DEF Outcome, Recovery
<1>3. ASSUME NEW o \in Outcome, Close(o, "none") PROVE TypeInv'
  BY <1>1, <1>2, <1>3, EndType
<1>4. CASE /\ pc = "gate" /\ pc' = "select" /\ sleepAssertion' = TRUE
           /\ UNCHANGED <<waiting, seq, chunk, attempt, polls, handle,
                          updateModeEntered, reportVars>>
  <2>1. HostTypeOK'
    BY <1>4 DEF TypeInv, TypeOK, HostTypeOK, Phase, Exchanging, reportVars
  <2>2. LinkTypeOK'
    BY <1>1, <1>4 DEF TypeInv, LinkTypeOK, linkVars
  <2>3. QED
    BY <1>1, <2>1, <2>2 DEF TypeInv, TypeOK, runVars, deviceVars
<1>5. QED
  BY <1>2, <1>3, <1>4 DEF Gate

LEMMA PollType == TypeInv /\ Poll => TypeInv'
<1> SUFFICES ASSUME TypeInv, Poll PROVE TypeInv'
  OBVIOUS
<1>1. UNCHANGED <<runVars, linkVars, deviceVars, stderrOpen>>
  BY DEF Poll
<1>2. faults' \in 0..MaxFaults
  BY FaultType DEF Poll, TypeInv, TypeOK
<1>3. {"upgraded_and_verified", "unverified"} \subseteq Outcome /\ "none" \in Recovery
  BY DEF Outcome, Recovery
<1>4. ASSUME NEW o \in Outcome, Close(o, "none") PROVE TypeInv'
  BY <1>1, <1>2, <1>3, <1>4, EndType
<1>5. CASE /\ polls + 1 < MaxPolls /\ polls' = polls + 1
           /\ UNCHANGED <<pc, waiting, seq, chunk, attempt, updateModeEntered,
                          sleepAssertion, handle, reportVars>>
  <2>1. polls' \in 0..(MaxPolls - 1)
    BY <1>5, SessionAssumption DEF TypeInv, TypeOK, HostTypeOK
  <2>2. HostTypeOK'
    BY <1>5, <2>1 DEF TypeInv, TypeOK, HostTypeOK, reportVars
  <2>3. LinkTypeOK'
    BY <1>1, <1>5 DEF TypeInv, LinkTypeOK, linkVars
  <2>4. QED
    BY <1>1, <1>2, <2>2, <2>3 DEF TypeInv, TypeOK, runVars, deviceVars
<1>6. QED
  BY <1>3, <1>4, <1>5 DEF Poll

LEMMA HandleType == TypeInv /\ Handle => TypeInv'
<1> SUFFICES ASSUME TypeInv, Handle PROVE TypeInv'
  OBVIOUS
<1>1. Head(inbox) \in Report /\ inbox' \in Seq(Report)
  BY DEF Handle, TypeInv, LinkTypeOK
<1>2. dev' \in Device /\ UpdaterReply(dev, Head(inbox)) \in Reply
  BY <1>1, HandlerType DEF Handle, TypeInv, TypeOK
<1>3. outbox' \in Seq(Reply)
  BY <1>2 DEF Handle, TypeInv, LinkTypeOK
<1>4. QED
  BY <1>1, <1>2, <1>3, LinkStepType DEF Handle, hostVars, TypeInv, TypeOK, HostTypeOK

LEMMA EmptyLink == <<>> \in Seq(Report) /\ <<>> \in Seq(Reply)
  OBVIOUS

LEMMA RestartType == TypeInv /\ Restart => TypeInv'
<1> SUFFICES ASSUME TypeInv, Restart PROVE TypeInv'
  OBVIOUS
<1>1. 0 \in Crc
  BY ChunkCountAssumption DEF Crc
<1>2. dev' \in Device
  BY <1>1 DEF Restart, updater_init, Device, UpdaterState
<1>3. faults' \in 0..MaxFaults
  BY FaultType DEF Restart, TypeInv, TypeOK
<1>4. running' \in Image /\ usb' \in Usb
  BY DEF Restart, TypeInv, TypeOK, Image, Usb
<1>5. inbox' \in Seq(Report) /\ outbox' \in Seq(Reply) /\ handle' \in BOOLEAN
  BY EmptyLink DEF Restart
<1>6. QED
  BY <1>2, <1>3, <1>4, <1>5, LinkStepType DEF Restart, TypeInv, TypeOK

LEMMA CableType == TypeInv /\ (Enumerate \/ Replug \/ Unplug) => TypeInv'
<1> SUFFICES ASSUME TypeInv, Enumerate \/ Replug \/ Unplug PROVE TypeInv'
  OBVIOUS
<1>1. 0 \in Crc
  BY ChunkCountAssumption DEF Crc
<1>2. updater_init \in Device
  BY <1>1 DEF updater_init, Device, UpdaterState
<1>3. CASE Enumerate \/ Replug
  BY <1>3, LinkStepType
  DEF Enumerate, Replug, hostVars, linkVars, Usb, TypeInv, TypeOK, HostTypeOK, LinkTypeOK
<1>4. CASE Unplug
  <2>1. faults' \in 0..MaxFaults
    BY <1>4, FaultType DEF Unplug, TypeInv, TypeOK
  <2>2. inbox' \in Seq(Report) /\ outbox' \in Seq(Reply) /\ handle' \in BOOLEAN
    BY <1>4, EmptyLink DEF Unplug
  <2>3. dev' \in Device /\ usb' \in Usb /\ running' \in Image
    BY <1>2, <1>4 DEF Unplug, Usb, TypeInv, TypeOK
  <2>4. QED
    BY <1>4, <2>1, <2>2, <2>3, LinkStepType DEF Unplug, TypeInv, TypeOK
<1>5. QED
  BY <1>3, <1>4

LEMMA ReportFaultType == TypeInv /\ (LoseReply \/ NoiseReport \/ BreakPipe) => TypeInv'
<1> SUFFICES ASSUME TypeInv, LoseReply \/ NoiseReport \/ BreakPipe PROVE TypeInv'
  OBVIOUS
<1>1. faults' \in 0..MaxFaults
  BY FaultType DEF LoseReply, NoiseReport, BreakPipe, TypeInv, TypeOK
<1>2. Noise \in Reply
  BY SessionAssumption DEF Noise, Reply, Status
<1>3. inbox' \in Seq(Report) /\ outbox' \in Seq(Reply)
  <2>1. inbox \in Seq(Report) /\ outbox \in Seq(Reply) /\ inbox' = inbox
    BY DEF LoseReply, NoiseReport, BreakPipe, TypeInv, LinkTypeOK, linkVars
  <2>2. CASE LoseReply
    BY <2>1, <2>2, TailFacts DEF LoseReply
  <2>3. CASE NoiseReport
    BY <1>2, <2>1, <2>3, AppendFacts DEF NoiseReport
  <2>4. CASE BreakPipe
    BY <2>1, <2>4 DEF BreakPipe, linkVars
  <2>5. QED
    BY <2>2, <2>3, <2>4
<1>4. UNCHANGED <<progressVars, reportVars, runVars, handle, dev, running, usb>>
      /\ stderrOpen' \in BOOLEAN
  BY DEF LoseReply, NoiseReport, BreakPipe, hostVars, deviceVars, TypeInv, TypeOK
<1>5. QED
  BY <1>1, <1>3, <1>4, LinkStepType DEF TypeInv, TypeOK, HostTypeOK

LEMMA KillType == TypeInv /\ Kill => TypeInv'
<1> SUFFICES ASSUME TypeInv, Kill PROVE TypeInv'
  OBVIOUS
<1>1. faults' \in 0..MaxFaults
  BY FaultType DEF Kill, TypeInv, TypeOK
<1>2. "killed" \in Outcome /\ "none" \in Recovery
  BY DEF Outcome, Recovery
<1>3. QED
  BY <1>1, <1>2, EndType DEF Kill

LEMMA NextType == TypeInv /\ [Next]_vars => TypeInv'
<1> SUFFICES ASSUME TypeInv, [Next]_vars PROVE TypeInv'
  OBVIOUS
<1>1. CASE UNCHANGED vars
  BY <1>1 DEF vars, hostVars, progressVars, reportVars, runVars, linkVars, deviceVars,
     TypeInv, TypeOK, HostTypeOK, LinkTypeOK
<1>2. CASE HostStep
  BY <1>2, WriteType, DeadHandleType, TimeoutType, ReadWrongReplyType, ReadReplyType,
     GateType, PollType DEF HostStep
<1>3. CASE DeviceStep
  BY <1>3, HandleType, RestartType, CableType DEF DeviceStep
<1>4. CASE FaultStep
  BY <1>4, WriteFailsType, CableType, ReportFaultType, KillType DEF FaultStep
<1>5. CASE \E r \in Request : Open(r)
  BY <1>5, OpenType
<1>6. QED
  BY <1>1, <1>2, <1>3, <1>4, <1>5 DEF Next

(***************************************************************************)
(* Every variable keeps its type, in every behaviour: the sequence number  *)
(* wraps inside 1..MaxSequence (_next_sequence), the retry and poll loops  *)
(* of upgrade_firmware stay below their ranges, and the mouse's handler    *)
(* leaves a well-formed updater whatever it is sent.                       *)
(***************************************************************************)
THEOREM TypeCorrect == Spec => []TypeOK
<1>1. TypeInv => TypeOK
  BY DEF TypeInv
<1>2. QED
  BY InitType, NextType, <1>1, PTL DEF Spec
-----------------------------------------------------------------------------
(***************************************************************************)
(* The verdict.  First the handler's part: a mouse that is updating stays  *)
(* so while it is sent chunks, START makes it so from any state, and an    *)
(* accepted CHECK_CRC changes nothing and vouches for the whole image.     *)
(***************************************************************************)
LEMMA HandlerVerdict ==
  ASSUME NEW d \in Device, NEW req \in Report
  PROVE  /\ req.command = "TRANSFER" =>
              UpdaterAfter(d, req).state = d.state
         /\ req.command = "START" => UpdaterAfter(d, req).state = "UPDATING"
         /\ req.command = "CHECK_CRC" =>
              /\ UpdaterAfter(d, req) = d
              /\ ResponseStatus(d, req) = "OK" => req.data[1] = d.runningCrc
<1>1. req.command = "TRANSFER" => UpdaterAfter(d, req).state = d.state
  BY DEF UpdaterAfter, Device
<1>2. req.command = "START" => UpdaterAfter(d, req).state = "UPDATING"
  BY DEF UpdaterAfter, ResponseStatus, Device
<1>3. req.command = "CHECK_CRC" => UpdaterAfter(d, req) = d
  BY DEF UpdaterAfter
<1>4. req.command = "CHECK_CRC" /\ ResponseStatus(d, req) = "OK"
        => req.data[1] = d.runningCrc
  BY DEF ResponseStatus
<1>5. QED
  BY <1>1, <1>2, <1>3, <1>4

\* Only a live handle matters, and of the link only what it holds.
LEMMA Vacuous == ~handle' => LinkInv'
  BY DEF LinkInv

LEMMA RaiseLink ==
  ASSUME IndInv, RaiseResult, dev' = dev,
         pc = "transfer" /\ handle => OnlyTransfers(inbox')
  PROVE  LinkInv' /\ HandlePhase' /\ WaitingPhase'
<1>1. CASE pc = "transfer" /\ pc' = pc /\ handle' = handle
  BY <1>1 DEF IndInv, RaiseResult, LinkInv, HandlePhase, WaitingPhase, SingleRequest,
     NothingUnderWay, TransferPhase, CheckPhase, ResetPhase, Single, OnlyTransfers
<1>2. CASE pc' = "recover" /\ handle' = handle
  BY <1>2 DEF RaiseResult, LinkInv, HandlePhase, WaitingPhase, SingleRequest,
     NothingUnderWay, TransferPhase, CheckPhase, ResetPhase, Single
<1>3. CASE pc' = "closed" /\ ~handle'
  BY <1>3, Vacuous DEF RaiseResult, HandlePhase, WaitingPhase
<1>4. QED
  BY <1>1, <1>2, <1>3 DEF RaiseResult

LEMMA RaiseActions ==
  ASSUME IndInv, WriteFails \/ DeadHandle \/ Timeout \/ ReadWrongReply
  PROVE  LinkInv' /\ HandlePhase' /\ WaitingPhase'
<1>1. RaiseResult
  BY RaiseEffect DEF IndInv, TypeInv, TypeOK, WriteFails, DeadHandle, Timeout, ReadWrongReply
<1>2. dev' = dev
  BY DEF WriteFails, DeadHandle, Timeout, ReadWrongReply, deviceVars
<1>3. ASSUME pc = "transfer", handle PROVE OnlyTransfers(inbox')
  <2>1. OnlyTransfers(inbox)
    BY <1>3 DEF IndInv, LinkInv, TransferPhase
  <2>2. CASE inbox' = inbox
    BY <2>1, <2>2 DEF OnlyTransfers
  <2>3. CASE inbox' = Append(inbox, Frame) /\ WriteFails
    <3>1. Frame \in Report /\ Frame.command = "TRANSFER"
      BY <1>3, FrameType DEF IndInv, Exchanging, CommandOf
    <3>2. inbox \in Seq(Report)
      BY DEF IndInv, TypeInv, LinkTypeOK
    <3>3. QED
      BY <2>1, <2>3, <3>1, <3>2, AppendFacts, EmptyFacts DEF OnlyTransfers
  <2>4. QED
    BY <2>2, <2>3 DEF WriteFails, DeadHandle, Timeout, ReadWrongReply, linkVars
<1>4. QED
  BY <1>1, <1>2, <1>3, RaiseLink
LEMMA WriteRequestLink ==
  ASSUME IndInv, WriteRequest
  PROVE  LinkInv' /\ HandlePhase' /\ WaitingPhase'
<1>1. Frame \in Report /\ Frame.command = CommandOf(pc)
  BY FrameType DEF IndInv, WriteRequest, Writing
<1>2. inbox \in Seq(Report)
  BY DEF IndInv, TypeInv, LinkTypeOK
<1>3. /\ handle /\ handle' = handle /\ pc \in Exchanging /\ pc' = pc /\ ~waiting
      /\ waiting' /\ inbox' = Append(inbox, Frame) /\ outbox' = <<>> /\ dev' = dev
  BY DEF WriteRequest, Writing, deviceVars
<1>4. Frame' = Frame /\ CommandOf(pc') = CommandOf(pc)
  BY DEF WriteRequest, Frame, CommandOf, DataOf
<1>5. NoReplyTo(CommandOf(pc))' /\ NoReplyTo("CHECK_CRC")'
  BY <1>3 DEF NoReplyTo
<1>6. CASE pc \in Single
  <2>1. inbox = <<>>
    BY <1>3, <1>6 DEF IndInv, LinkInv, NothingUnderWay
  <2>2. Len(inbox') = 1 /\ inbox'[1] = Frame
    BY <1>1, <1>2, <1>3, <2>1
  <2>3. SingleRequest'
    BY <1>3, <1>4, <1>5, <2>2 DEF SingleRequest
  <2>4. QED
    BY <1>3, <1>6, <2>3 DEF LinkInv, HandlePhase, WaitingPhase, NothingUnderWay,
       TransferPhase, CheckPhase, ResetPhase, Single, Exchanging
<1>7. CASE pc = "transfer"
  <2>1. dev.state = "UPDATING" /\ OnlyTransfers(inbox)
    BY <1>3, <1>7 DEF IndInv, LinkInv, TransferPhase
  <2>2. Frame.command = "TRANSFER"
    BY <1>1, <1>7 DEF CommandOf
  <2>3. OnlyTransfers(inbox')
    BY <1>1, <1>2, <1>3, <2>1, <2>2, AppendFacts, EmptyFacts DEF OnlyTransfers
  <2>4. QED
    BY <1>3, <1>7, <2>1, <2>3 DEF LinkInv, HandlePhase, WaitingPhase, SingleRequest,
       NothingUnderWay, TransferPhase, CheckPhase, ResetPhase, Single, Exchanging
<1>8. CASE pc = "check"
  <2>1. dev.state = "UPDATING" /\ OnlyTransfers(inbox)
    BY <1>3, <1>8 DEF IndInv, LinkInv, TransferPhase
  <2>2. inbox' # <<>> /\ inbox'[Len(inbox')] = Frame
    BY <1>1, <1>2, <1>3, AppendFacts
  <2>3. \A i \in 1..(Len(inbox') - 1) : inbox'[i].command = "TRANSFER"
    BY <1>1, <1>2, <1>3, <2>1, AppendFacts, EmptyFacts DEF OnlyTransfers
  <2>4. CheckPhase'
    BY <1>3, <1>4, <1>5, <2>1, <2>2, <2>3 DEF CheckPhase
  <2>5. QED
    BY <1>3, <1>8, <2>4 DEF LinkInv, HandlePhase, WaitingPhase, SingleRequest,
       NothingUnderWay, TransferPhase, ResetPhase, Single, Exchanging
<1>9. QED
  BY <1>3, <1>6, <1>7, <1>8 DEF Exchanging, Single

LEMMA ReadReplyLink ==
  ASSUME IndInv, ReadReply
  PROVE  LinkInv' /\ HandlePhase' /\ WaitingPhase'
<1>1. outbox \in Seq(Reply) /\ outbox # <<>>
  BY DEF IndInv, TypeInv, LinkTypeOK, ReadReply
<1>2. outbox[1].command = CommandOf(pc) /\ outbox[1].status = "OK" /\ 1 \in 1..Len(outbox)
  BY <1>1, TailFacts DEF ReadReply, Matches
<1>3. handle /\ waiting /\ inbox' = inbox /\ dev' = dev
  BY DEF ReadReply, deviceVars
<1>4. ~NoReplyTo(CommandOf(pc))
  BY <1>2 DEF NoReplyTo
<1>5. pc \in Single => inbox = <<>> /\ (pc = "start" => dev.state = "UPDATING")
  BY <1>3, <1>4 DEF IndInv, LinkInv, SingleRequest
<1>6. pc = "transfer" => dev.state = "UPDATING" /\ OnlyTransfers(inbox)
  BY <1>3 DEF IndInv, LinkInv, TransferPhase
<1>7. pc = "check" => /\ dev.state = "UPDATING" /\ inbox = <<>>
                      /\ dev.runningCrc = WholeImage
  BY <1>2, <1>3, <1>4 DEF IndInv, LinkInv, CheckPhase, CommandOf
<1>8. handle' = handle /\ ~waiting'
  BY DEF ReadReply, Advance, ChunkAcknowledged
<1>9. \/ pc = "ident" /\ pc' = "caps"
      \/ pc = "caps" /\ pc' = "gate"
      \/ pc = "select" /\ pc' = "start"
      \/ pc = "start" /\ pc' = "transfer"
      \/ pc = "transfer" /\ pc' \in {"transfer", "check", "recover"}
      \/ pc = "check" /\ pc' = "reset"
  BY DEF ReadReply, Advance, ChunkAcknowledged
<1>10. HandlePhase' /\ WaitingPhase' /\ SingleRequest' /\ CheckPhase'
  BY <1>8, <1>9 DEF HandlePhase, WaitingPhase, SingleRequest, CheckPhase, Exchanging
<1>11. NothingUnderWay'
  BY <1>3, <1>5, <1>9 DEF NothingUnderWay, Single
<1>12. OnlyTransfers(<<>>)
  BY EmptyFacts DEF OnlyTransfers
<1>13. TransferPhase'
  BY <1>3, <1>5, <1>6, <1>9, <1>12 DEF TransferPhase, Single
<1>14. ResetPhase'
  BY <1>3, <1>7, <1>9 DEF ResetPhase
<1>15. QED
  BY <1>10, <1>11, <1>13, <1>14 DEF LinkInv

LEMMA EndOfRunLink ==
  ASSUME IndInv, NEW o, NEW rec, Close(o, rec)
  PROVE  LinkInv' /\ HandlePhase' /\ WaitingPhase'
  BY Vacuous DEF Close, HandlePhase, WaitingPhase

LEMMA HostDecisionsLink ==
  ASSUME IndInv, WriteReset \/ Gate \/ Poll \/ Kill \/ \E r \in Request : Open(r)
  PROVE  LinkInv' /\ HandlePhase' /\ WaitingPhase'
<1>1. CASE \E o, rec : Close(o, rec)
  BY <1>1, EndOfRunLink
<1>2. CASE WriteReset
  BY <1>1, <1>2, Vacuous DEF WriteReset, Writing, HandlePhase, WaitingPhase
<1>3. CASE Gate /\ pc' = "select"
  <2>1. /\ pc = "gate" /\ handle' = handle /\ waiting' = waiting /\ inbox' = inbox
    BY <1>3 DEF Gate, Close, linkVars
  <2>2. ~waiting
    BY <2>1 DEF IndInv, WaitingPhase, Exchanging
  <2>3. handle => inbox = <<>>
    BY <2>1, <2>2 DEF IndInv, LinkInv, NothingUnderWay
  <2>4. QED
    BY <1>3, <2>1, <2>2, <2>3 DEF LinkInv, HandlePhase, WaitingPhase, SingleRequest,
       NothingUnderWay, TransferPhase, CheckPhase, ResetPhase, Single, Exchanging
<1>4. CASE Poll
  <2>1. CASE pc' = "verify" /\ handle' = handle /\ waiting' = waiting
    <3>1. ~handle /\ ~waiting
      BY <1>4 DEF Poll, IndInv, HandlePhase, WaitingPhase, Exchanging
    <3>2. QED
      BY <2>1, <3>1, Vacuous DEF HandlePhase, WaitingPhase
  <2>2. QED
    BY <1>1, <1>4, <2>1 DEF Poll
<1>5. ASSUME NEW r \in Request, Open(r)
      PROVE  LinkInv' /\ HandlePhase' /\ WaitingPhase'
  BY <1>5 DEF Open, LinkInv, HandlePhase, WaitingPhase, SingleRequest,
     NothingUnderWay, TransferPhase, CheckPhase, ResetPhase, Exchanging
<1>6. QED
  BY <1>1, <1>2, <1>3, <1>4, <1>5 DEF Gate, Kill
\* A report leaves the mouse's queue: what that does to each phase.
LEMMA HandleLink ==
  ASSUME IndInv, Handle
  PROVE  LinkInv' /\ HandlePhase' /\ WaitingPhase'
<1>1. /\ pc' = pc /\ waiting' = waiting /\ handle' = handle /\ seq' = seq
      /\ chunk' = chunk
  BY DEF Handle, hostVars, progressVars
<1>2. HandlePhase' /\ WaitingPhase'
  BY <1>1 DEF IndInv, HandlePhase, WaitingPhase
<1> SUFFICES ASSUME handle PROVE LinkInv'
  BY <1>1, <1>2, Vacuous
<1>3. /\ inbox \in Seq(Report) /\ inbox # <<>> /\ outbox \in Seq(Reply)
      /\ dev \in Device /\ Head(inbox) = inbox[1] /\ inbox[1] \in Report
      /\ Len(inbox) \in Nat /\ Len(inbox) >= 1
  BY TailFacts DEF Handle, IndInv, TypeInv, TypeOK, LinkTypeOK
<1> DEFINE req == inbox[1]
           reply == UpdaterReply(dev, req)
<1>4. /\ inbox' = Tail(inbox) /\ inbox' \in Seq(Report)
      /\ Len(inbox') = Len(inbox) - 1
      /\ \A i \in 1..(Len(inbox) - 1) : inbox'[i] = inbox[i + 1]
      /\ dev' = UpdaterAfter(dev, req) /\ outbox' = Append(outbox, reply)
  BY <1>3, TailFacts DEF Handle
<1>5. reply \in Reply /\ reply.command = req.command
      /\ reply.status = ResponseStatus(dev, req)
  BY <1>3, HandlerType DEF UpdaterReply
<1>6. /\ Len(outbox) \in Nat /\ Len(outbox') = Len(outbox) + 1
      /\ outbox'[Len(outbox) + 1] = reply
      /\ \A i \in 1..Len(outbox) : outbox'[i] = outbox[i]
  BY <1>3, <1>4, <1>5, AppendFacts, EmptyFacts
<1>7. Len(inbox) = 1 => inbox' = <<>>
  BY <1>4, EmptyFacts
<1>8. Frame' = Frame
  BY <1>1 DEF Frame, CommandOf, DataOf
<1> HIDE DEF req, reply
<1>9. CASE pc \in Single /\ waiting
  <2>1. Len(inbox) = 1 /\ req = Frame
    BY <1>3, <1>9 DEF IndInv, LinkInv, SingleRequest, req
  <2>2. inbox' = <<>>
    BY <1>7, <2>1
  <2>3. pc = "start" => dev'.state = "UPDATING"
    BY <1>3, <1>4, <2>1, HandlerVerdict DEF Frame, CommandOf, req
  <2>4. QED
    BY <1>1, <1>9, <2>2, <2>3 DEF LinkInv, SingleRequest, NothingUnderWay,
       TransferPhase, CheckPhase, ResetPhase, Single
<1>10. CASE pc \in Single \cup {"gate"} /\ ~waiting
  BY <1>3, <1>10 DEF IndInv, LinkInv, NothingUnderWay
<1>11. CASE pc = "transfer" \/ (pc = "check" /\ ~waiting)
  <2>1. dev.state = "UPDATING" /\ OnlyTransfers(inbox)
    BY <1>11 DEF IndInv, LinkInv, TransferPhase
  <2>2. req.command = "TRANSFER"
    BY <1>3, <2>1 DEF OnlyTransfers, req
  <2>3. dev'.state = "UPDATING"
    BY <1>3, <1>4, <2>1, <2>2, HandlerVerdict DEF req
  <2>4. OnlyTransfers(inbox')
    BY <1>3, <1>4, <2>1 DEF OnlyTransfers
  <2>5. QED
    BY <1>1, <1>11, <2>3, <2>4 DEF LinkInv, SingleRequest, NothingUnderWay,
       TransferPhase, CheckPhase, ResetPhase, Single
<1>12. CASE pc = "check" /\ waiting
  <2>1. /\ dev.state = "UPDATING" /\ inbox[Len(inbox)] = Frame
        /\ \A i \in 1..(Len(inbox) - 1) : inbox[i].command = "TRANSFER"
        /\ NoReplyTo("CHECK_CRC")
    BY <1>3, <1>12 DEF IndInv, LinkInv, CheckPhase
  <2>2. CASE Len(inbox) = 1
    <3>1. req = Frame /\ req.command = "CHECK_CRC" /\ req.data[1] = WholeImage
      BY <1>12, <2>1, <2>2 DEF Frame, CommandOf, DataOf, req
    <3>2. dev' = dev /\ (reply.status = "OK" => dev.runningCrc = WholeImage)
      BY <1>3, <1>4, <1>5, <3>1, HandlerVerdict DEF req
    <3>3. \A i \in 1..Len(outbox') :
            outbox'[i].command = "CHECK_CRC" /\ outbox'[i].status = "OK"
              => dev'.runningCrc = WholeImage
      BY <1>6, <2>1, <3>2 DEF NoReplyTo
    <3>4. dev'.state = "UPDATING" /\ inbox' = <<>>
      BY <1>7, <2>1, <2>2, <3>2
    <3>5. CheckPhase'
      BY <3>3, <3>4 DEF CheckPhase
    <3>6. QED
      BY <1>1, <1>12, <3>5 DEF LinkInv, SingleRequest, NothingUnderWay,
         TransferPhase, ResetPhase, Single
  <2>3. CASE Len(inbox) # 1
    <3>1. Len(inbox) - 1 \in 1..(Len(inbox) - 1) /\ 1 \in 1..(Len(inbox) - 1)
      <4>1. \A n \in Nat : n >= 1 /\ n # 1 => n - 1 \in 1..(n - 1) /\ 1 \in 1..(n - 1)
        OBVIOUS
      <4>2. Len(inbox) \in Nat /\ Len(inbox) >= 1
        BY <1>3
      <4>3. QED
        BY <2>3, <4>1, <4>2
    <3>2. req.command = "TRANSFER"
      BY <2>1, <3>1 DEF req
    <3>3. dev'.state = "UPDATING"
      BY <1>3, <1>4, <2>1, <3>2, HandlerVerdict DEF req
    <3>4. inbox'[Len(inbox')] = Frame'
      BY <1>3, <1>4, <1>8, <2>1, <3>1
    <3>5. \A i \in 1..(Len(inbox') - 1) : inbox'[i].command = "TRANSFER"
      BY <1>3, <1>4, <2>1
    <3>6. NoReplyTo("CHECK_CRC")'
      BY <1>5, <1>6, <2>1, <3>2 DEF NoReplyTo
    <3>7. inbox' # <<>>
      <4>1. Len(inbox') # 0
        BY <1>3, <1>4, <2>3
      <4>2. QED
        BY <1>4, <4>1, EmptyFacts
    <3>8. CheckPhase'
      BY <3>3, <3>4, <3>5, <3>6, <3>7 DEF CheckPhase
    <3>9. QED
      BY <1>1, <1>12, <3>8 DEF LinkInv, SingleRequest, NothingUnderWay,
         TransferPhase, ResetPhase, Single
  <2>4. QED
    BY <2>2, <2>3
<1>13. CASE pc = "reset"
  BY <1>3, <1>13 DEF IndInv, LinkInv, ResetPhase
<1>14. CASE pc = "recover"
  BY <1>1, <1>14 DEF LinkInv, SingleRequest, NothingUnderWay,
     TransferPhase, CheckPhase, ResetPhase, Single
<1>15. CASE pc = "gate" /\ waiting
  BY <1>15 DEF IndInv, WaitingPhase, Exchanging
<1>16. \/ pc \in Single \/ pc = "gate" \/ pc = "transfer"
       \/ pc = "check" \/ pc = "reset" \/ pc = "recover"
  BY DEF IndInv, HandlePhase, Exchanging, Single
<1>17. QED
  BY <1>9, <1>10, <1>11, <1>12, <1>13, <1>14, <1>15, <1>16, Zenon
\* The environment takes replies away, adds what answers nothing, or ends the
\* handle; it never adds a reply.
LEMMA EnvironmentLink ==
  ASSUME IndInv, Restart \/ Enumerate \/ Replug \/ Unplug \/ LoseReply
                 \/ NoiseReport \/ BreakPipe \/ UNCHANGED vars
  PROVE  LinkInv' /\ HandlePhase' /\ WaitingPhase'
<1>1. /\ pc' = pc /\ waiting' = waiting /\ (handle' = handle \/ ~handle')
      /\ seq' = seq /\ chunk' = chunk
  BY DEF Restart, Enumerate, Replug, Unplug, LoseReply, NoiseReport, BreakPipe, vars,
     hostVars, progressVars
<1>2. HandlePhase' /\ WaitingPhase'
  BY <1>1 DEF IndInv, HandlePhase, WaitingPhase
<1> SUFFICES ASSUME handle, handle' PROVE LinkInv'
  BY <1>1, <1>2, Vacuous
<1>3. inbox' = inbox /\ dev' = dev
  BY DEF Restart, Enumerate, Replug, Unplug, LoseReply, NoiseReport, BreakPipe, vars,
     linkVars, deviceVars
<1>4. \A i \in 1..Len(outbox') :
         \/ outbox'[i].command = "NONE"
         \/ \E j \in 1..Len(outbox) : outbox'[i] = outbox[j]
  <2>1. outbox \in Seq(Reply) /\ Noise \in Reply /\ Noise.command = "NONE"
    BY SessionAssumption DEF IndInv, TypeInv, LinkTypeOK, Noise, Reply, Status
  <2>2. CASE outbox' = outbox
    BY <2>2
  <2>3. CASE outbox # <<>> /\ outbox' = Tail(outbox)
    BY <2>1, <2>3, TailFacts
  <2>4. CASE outbox' = Append(outbox, Noise)
    BY <2>1, <2>4, AppendFacts, EmptyFacts
  <2>5. QED
    BY <2>2, <2>3, <2>4 DEF Restart, Enumerate, Replug, Unplug, LoseReply,
       NoiseReport, BreakPipe, vars, linkVars
<1>5. \A c \in Command : NoReplyTo(c) => NoReplyTo(c)'
  BY <1>4 DEF NoReplyTo, Command
<1>6. Frame' = Frame /\ CommandOf(pc') = CommandOf(pc) /\ CommandOf(pc) \in Command
  BY <1>1 DEF Frame, CommandOf, DataOf, Command
<1>7. SingleRequest'
  BY <1>1, <1>3, <1>5, <1>6 DEF IndInv, LinkInv, SingleRequest
<1>8. CheckPhase'
  <2>1. CASE pc = "check" /\ waiting /\ inbox # <<>>
    <3>1. NoReplyTo("CHECK_CRC")'
      BY <1>5, <2>1 DEF IndInv, LinkInv, CheckPhase, Command
    <3>2. QED
      BY <1>1, <1>3, <1>6, <2>1, <3>1 DEF IndInv, LinkInv, CheckPhase
  <2>2. CASE pc = "check" /\ waiting /\ inbox = <<>>
    <3>1. \A i \in 1..Len(outbox') :
            outbox'[i].command = "CHECK_CRC" /\ outbox'[i].status = "OK"
              => dev'.runningCrc = WholeImage
      BY <1>3, <1>4, <2>2 DEF IndInv, LinkInv, CheckPhase
    <3>2. QED
      BY <1>1, <1>3, <2>2, <3>1 DEF IndInv, LinkInv, CheckPhase
  <2>3. QED
    BY <1>1, <2>1, <2>2 DEF CheckPhase
<1>9. NothingUnderWay' /\ TransferPhase' /\ ResetPhase'
  BY <1>1, <1>3 DEF IndInv, LinkInv, NothingUnderWay, TransferPhase, ResetPhase,
     OnlyTransfers
<1>10. QED
  BY <1>7, <1>8, <1>9 DEF LinkInv

LEMMA InitInd == Init => IndInv
  BY InitType DEF Init, IndInv, HandlePhase, WaitingPhase, LinkInv

LEMMA NextInd == IndInv /\ [Next]_vars => IndInv'
<1> SUFFICES ASSUME IndInv, [Next]_vars PROVE IndInv'
  OBVIOUS
<1>1. TypeInv'
  BY NextType DEF IndInv
<1>2. LinkInv' /\ HandlePhase' /\ WaitingPhase'
  <2>1. CASE HostStep
    BY <2>1, WriteRequestLink, HostDecisionsLink, RaiseActions, ReadReplyLink DEF HostStep
  <2>2. CASE DeviceStep
    BY <2>2, HandleLink, EnvironmentLink DEF DeviceStep
  <2>3. CASE FaultStep
    BY <2>3, RaiseActions, EnvironmentLink, HostDecisionsLink DEF FaultStep
  <2>4. CASE \E r \in Request : Open(r)
    BY <2>4, HostDecisionsLink
  <2>5. QED
    BY <2>1, <2>2, <2>3, <2>4, EnvironmentLink DEF Next
<1>3. QED
  BY <1>1, <1>2 DEF IndInv

(***************************************************************************)
(* Whatever was lost, repeated, answered late or retried, in any run after *)
(* any number of others: when upgrade_firmware is about to send the reset  *)
(* of a live mouse, that mouse is updating and holds exactly the image     *)
(* (its 0x65 verdict cannot be an answer to an older state).               *)
(***************************************************************************)
THEOREM AcceptedIsImage == Spec => []AcceptedStreamIsImage
<1>1. IndInv => AcceptedStreamIsImage
  BY DEF IndInv, LinkInv, ResetPhase, AcceptedStreamIsImage
<1>2. QED
  BY InitInd, NextInd, <1>1, PTL DEF Spec
-----------------------------------------------------------------------------
(***************************************************************************)
(* What the transfer does to the mouse: nothing the user did not consent   *)
(* to reaches it, the tool and the mouse stay within one chunk of each     *)
(* other, the transfer is the abstract one of ChunkTransfer, and only four *)
(* kinds of fault can ruin the stream.                                     *)
(***************************************************************************)

(***************************************************************************)
(* After an exception the tool is on the same chunk with one more attempt  *)
(* used up, or on its way out of the run; nothing of the run's request     *)
(* changes.  Recovery starts from within the try block only.               *)
(***************************************************************************)
LEMMA RaiseOutcome ==
  ASSUME Raise
  PROVE  /\ chunk' = chunk /\ ~waiting'
         /\ \/ pc = "transfer" /\ pc' = pc /\ handle' = handle /\ attempt' = attempt + 1
            \/ pc \in InTry /\ pc' = "recover" /\ handle' = handle
            \/ pc' = "closed" /\ ~handle'
<1>1. ASSUME NEW o, NEW rec, Close(o, rec)
      PROVE  chunk' = chunk /\ ~waiting' /\ pc' = "closed" /\ ~handle'
  BY <1>1 DEF Close
<1>2. ASSUME Abandon
      PROVE  /\ chunk' = chunk /\ ~waiting'
             /\ \/ pc' = "recover" /\ handle' = handle
                \/ pc' = "closed" /\ ~handle'
  BY <1>1, <1>2 DEF Abandon, EnterRecovery
<1>3. CASE Retry
  BY <1>3 DEF Retry
<1>4. QED
  BY <1>1, <1>2, <1>3 DEF Raise, InTry

\* The actions that raise, and what each may do to the link before it does.
Raising == WriteFails \/ DeadHandle \/ Timeout \/ ReadWrongReply

LEMMA RaisingEffect ==
  ASSUME Raising
  PROVE  /\ Raise /\ dev' = dev /\ UNCHANGED runVars /\ usb' = usb
         /\ \/ inbox' = inbox
            \/ handle /\ pc \in Exchanging \cup {"reset", "recover"}
               /\ inbox' = Append(inbox, Frame)
  BY DEF Raising, WriteFails, DeadHandle, Timeout, ReadWrongReply, Writing, linkVars,
     deviceVars

\* What one request does to the mouse's stream.
LEMMA HandlerStream ==
  ASSUME NEW d \in Device, NEW req \in Report
  PROVE  /\ req.command = "TRANSFER" /\ d.state = "UPDATING" =>
              UpdaterAfter(d, req).runningCrc = CrcUpdate(d.runningCrc, req.data[1])
         /\ req.command = "TRANSFER" /\ d.state # "UPDATING" => UpdaterAfter(d, req) = d
         /\ req.command = "START" => UpdaterAfter(d, req).runningCrc = 0
         /\ req.command \notin {"TRANSFER", "START"} =>
              UpdaterAfter(d, req).runningCrc = d.runningCrc
         /\ req.command \in {"IDENTITY", "CAPABILITIES"} => UpdaterAfter(d, req) = d
<1>1. req.command = "TRANSFER" => Len(req.data) = 1
  BY DEF Report
<1>2. req.command = "TRANSFER" /\ d.state = "UPDATING" =>
        UpdaterAfter(d, req).runningCrc = CrcUpdate(d.runningCrc, req.data[1])
  BY <1>1 DEF UpdaterAfter, ResponseStatus, Device
<1>3. req.command = "TRANSFER" /\ d.state # "UPDATING" => UpdaterAfter(d, req) = d
  BY <1>1 DEF UpdaterAfter, ResponseStatus
<1>4. req.command = "START" => UpdaterAfter(d, req).runningCrc = 0
  BY DEF UpdaterAfter, ResponseStatus, Device
<1>5. req.command \notin {"TRANSFER", "START"} =>
        UpdaterAfter(d, req).runningCrc = d.runningCrc
  BY DEF UpdaterAfter, Device
<1>6. req.command \in {"IDENTITY", "CAPABILITIES"} => UpdaterAfter(d, req) = d
  BY DEF UpdaterAfter
<1>7. QED
  BY <1>2, <1>3, <1>4, <1>5, <1>6
-----------------------------------------------------------------------------
(***************************************************************************)
(* Consent.  A request that changes the mouse is only ever written by a    *)
(* run that passed the gate, and what such a run left on the link is       *)
(* handled before the next run starts.                                     *)
(***************************************************************************)
Query == {"IDENTITY", "CAPABILITIES"}

Consent(i) == inbox[i].command \notin Query => Permitted
ConsentInv ==
  /\ pc \in InTry \cup {"recover"} => Permitted
  /\ \A i \in 1..Len(inbox) : Consent(i)

\* A report appended to the link by a run in a phase of its own.
LEMMA WriteConsent ==
  ASSUME TypeInv, ConsentInv, pc \in Exchanging \cup {"reset", "recover"},
         inbox' = Append(inbox, Frame), UNCHANGED runVars
  PROVE  \A i \in 1..Len(inbox') : Consent(i)'
<1>1. inbox \in Seq(Report) /\ Frame \in Report /\ Frame.command = CommandOf(pc)
  BY FrameType DEF TypeInv, LinkTypeOK
<1>2. Permitted' = Permitted
  BY DEF Permitted, VersionOf, runVars
<1>3. Frame.command \notin Query => Permitted
  BY <1>1 DEF ConsentInv, CommandOf, Query, Exchanging, InTry
<1>4. /\ Len(inbox') = Len(inbox) + 1 /\ inbox'[Len(inbox) + 1] = Frame
      /\ \A i \in 1..Len(inbox) : inbox'[i] = inbox[i]
  BY <1>1, AppendFacts
<1>5. Len(inbox) \in Nat
  BY <1>1, EmptyFacts
<1>6. SUFFICES ASSUME NEW i \in 1..Len(inbox'), inbox'[i].command \notin Query
               PROVE  Permitted
  BY <1>2 DEF Consent
<1>7. CASE i = Len(inbox) + 1
  BY <1>3, <1>4, <1>6, <1>7
<1>8. CASE i \in 1..Len(inbox)
  BY <1>4, <1>6, <1>8 DEF ConsentInv, Consent
<1>9. QED
  BY <1>4, <1>5, <1>7, <1>8

LEMMA LinkConsent ==
  ASSUME TypeInv, ConsentInv, UNCHANGED runVars,
         inbox' \in {inbox, <<>>} \/ (Handle /\ inbox # <<>>)
  PROVE  \A i \in 1..Len(inbox') : Consent(i)'
<1>1. Permitted' = Permitted
  BY DEF Permitted, VersionOf, runVars
<1>2. inbox \in Seq(Report)
  BY DEF TypeInv, LinkTypeOK
<1>3. \A i \in 1..Len(inbox') : \E j \in 1..Len(inbox) : inbox'[i] = inbox[j]
  <2>1. CASE inbox' = inbox
    BY <2>1
  <2>2. CASE inbox' = <<>>
    BY <2>2
  <2>3. CASE Handle /\ inbox # <<>>
    <3>1. /\ Len(inbox) \in Nat /\ Len(inbox') = Len(inbox) - 1
          /\ \A i \in 1..(Len(inbox) - 1) : inbox'[i] = inbox[i + 1]
      BY <1>2, <2>3, TailFacts DEF Handle
    <3>2. QED
      BY <3>1
  <2>4. QED
    BY <2>1, <2>2, <2>3
<1>4. QED
  BY <1>1, <1>3 DEF ConsentInv, Consent

\* The gate lets a run through only with the consent its write needs.
LEMMA GateConsent ==
  ASSUME Gate, pc' = "select"
  PROVE  Permitted'
<1>1. request.valid /\ ~request.dryRun /\ ~Refused /\ UNCHANGED runVars
  BY DEF Gate, Close
<1>2. request.confirmed
        /\ (request.allowVersionChange \/ NewVersion > VersionOf(openedOn))
  BY <1>1 DEF Refused, _version_order
<1>3. QED
  BY <1>1, <1>2 DEF Permitted, VersionOf, runVars

LEMMA NextConsent == TypeInv /\ ConsentInv /\ [Next]_vars => ConsentInv'
<1> SUFFICES ASSUME TypeInv, ConsentInv, [Next]_vars PROVE ConsentInv'
  OBVIOUS
<1>1. ASSUME NEW r \in Request, Open(r) PROVE ConsentInv'
  BY <1>1 DEF Open, ConsentInv, InTry
<1>2. CASE \E r \in Request : Open(r)
  BY <1>1, <1>2
<1> SUFFICES ASSUME ~\E r \in Request : Open(r) PROVE ConsentInv'
  BY <1>2
<1>3. UNCHANGED runVars
  BY RaisingEffect DEF Raising, Next, HostStep, DeviceStep, FaultStep, WriteRequest,
     WriteReset, ReadReply, Gate, Poll, Handle, Restart, Enumerate, Replug, Unplug,
     LoseReply, NoiseReport, BreakPipe, Kill, vars
<1>4. Permitted' = Permitted
  BY <1>3 DEF Permitted, VersionOf, runVars
<1>5. pc' \in InTry \cup {"recover"} => Permitted'
  <2>1. CASE Raising
    BY <1>4, <2>1, RaisingEffect, RaiseOutcome DEF ConsentInv, InTry
  <2>2. CASE WriteRequest \/ WriteReset \/ Poll \/ Kill
    BY <1>4, <2>2 DEF WriteRequest, WriteReset, Poll, Kill, Close, ConsentInv, InTry
  <2>3. CASE ReadReply
    BY <1>4, <2>3 DEF ReadReply, ChunkAcknowledged, Advance, ConsentInv, InTry
  <2>4. CASE Gate
    BY <2>4, GateConsent DEF Gate, Close, InTry
  <2>5. CASE pc' = pc
    BY <1>4, <2>5 DEF ConsentInv
  <2>6. QED
    BY <2>1, <2>2, <2>3, <2>4, <2>5 DEF Raising, Next, HostStep, DeviceStep, FaultStep,
       Handle, Restart, Enumerate, Replug, Unplug, LoseReply, NoiseReport, BreakPipe,
       vars, hostVars, progressVars
<1>6. \A i \in 1..Len(inbox') : Consent(i)'
  <2>1. CASE Raising
    BY <1>3, <2>1, RaisingEffect, WriteConsent, LinkConsent
  <2>2. CASE WriteRequest \/ WriteReset
    BY <1>3, <2>2, WriteConsent DEF WriteRequest, WriteReset, Writing
  <2>3. CASE Handle
    BY <1>3, <2>3, LinkConsent DEF Handle
  <2>4. CASE inbox' \in {inbox, <<>>}
    BY <1>3, <2>4, LinkConsent
  <2>5. QED
    BY <2>1, <2>2, <2>3, <2>4 DEF Raising, Next, HostStep, DeviceStep, FaultStep,
       ReadReply, Gate, Poll, Restart, Enumerate, Replug, Unplug, LoseReply,
       NoiseReport, BreakPipe, Kill, vars, linkVars
<1>7. QED
  BY <1>5, <1>6 DEF ConsentInv

LEMMA StepConsent ==
  TypeInv /\ ConsentInv /\ [Next]_vars =>
    (present /\ present' /\ dev' # dev => Permitted)
<1> SUFFICES ASSUME TypeInv, ConsentInv, [Next]_vars, present, present', dev' # dev
             PROVE  Permitted
  OBVIOUS
<1>1. Handle
  <2>1. ~Raising
    BY RaisingEffect
  <2>2. QED
    BY <2>1 DEF Raising, Next, HostStep, DeviceStep, FaultStep, WriteRequest, WriteReset,
       ReadReply, Gate, Poll, Restart, Enumerate, Replug, Unplug, LoseReply,
       NoiseReport, BreakPipe, Kill, Open, vars, deviceVars, present
<1>2. inbox \in Seq(Report) /\ inbox # <<>> /\ dev \in Device
      /\ dev' = UpdaterAfter(dev, Head(inbox))
  BY <1>1 DEF Handle, TypeInv, TypeOK, LinkTypeOK
<1>3. Head(inbox) = inbox[1] /\ inbox[1] \in Report /\ 1 \in 1..Len(inbox)
  BY <1>2, TailFacts
<1>4. inbox[1].command \notin Query
  BY <1>2, <1>3, HandlerStream DEF Query
<1>5. QED
  BY <1>3, <1>4 DEF ConsentInv, Consent

(***************************************************************************)
(* No report changes the mouse's updater unless the run that sent it was   *)
(* confirmed for this model and, where the image does not sort above what  *)
(* the run saw, for the version change: not one left over from a killed    *)
(* run, not one sent for recovery (upgrade_firmware's checks before its    *)
(* first update command).                                                  *)
(***************************************************************************)
THEOREM WritesHaveConsent == Spec => OnlyConsentedWrites
<1>1. Init => ConsentInv
  BY DEF Init, ConsentInv, InTry
<1>2. TypeInv /\ ConsentInv /\ [Next]_vars
        => [present /\ present' /\ dev' # dev => Permitted]_vars
  BY StepConsent
<1>3. QED
  BY <1>1, <1>2, InitType, NextType, NextConsent, PTL DEF Spec, OnlyConsentedWrites
-----------------------------------------------------------------------------
(***************************************************************************)
(* The stream.  Of the chunks on the link none is ahead of the tool, and   *)
(* the tool's own is there only once it was written; an answer to a chunk  *)
(* is about a stream that has it, or is ruined.                            *)
(***************************************************************************)
FirstChunk == pc \in Single \cup {"gate"} => chunk = 1 /\ attempt = 0
StartedEmpty == pc = "start" /\ waiting /\ inbox = <<>> => dev.runningCrc = 0
AllSent == pc = "check" => chunk = ChunkCount + 1

Written == waiting \/ attempt > 0
ChunkOnLink(i) ==
  inbox[i].command = "TRANSFER" =>
    /\ inbox[i].data[1] \in Chunk /\ inbox[i].data[1] <= chunk
    /\ inbox[i].data[1] = chunk => Written
InStep == \/ dev.runningCrc \in {chunk - 1, Garbled}
          \/ dev.runningCrc = chunk /\ Written
StreamPhase ==
  pc \in {"transfer", "check"} =>
    InStep /\ \A i \in 1..Len(inbox) : ChunkOnLink(i)
Answered ==
  pc = "transfer" /\ waiting =>
    NoReplyTo("TRANSFER") \/ dev.runningCrc \in {chunk, Garbled}

StreamInv ==
  handle => FirstChunk /\ StartedEmpty /\ AllSent /\ StreamPhase /\ Answered

\* Nothing to show once the handle is gone.
LEMMA NoStream == ~handle' => StreamInv'
  BY DEF StreamInv

LEMMA RaisingStream ==
  ASSUME IndInv, StreamInv, Raising
  PROVE  StreamInv'
<1>1. Raise /\ dev' = dev /\ chunk' = chunk /\ ~waiting'
  BY RaisingEffect, RaiseOutcome
<1>2. CASE pc' = "recover"
  BY <1>2 DEF StreamInv, FirstChunk, StartedEmpty, AllSent, StreamPhase, Answered, Single
<1>3. CASE pc = "transfer" /\ pc' = pc /\ handle' = handle /\ attempt' = attempt + 1
  <2> SUFFICES ASSUME handle PROVE StreamInv'
    BY <1>3, NoStream
  <2>1. attempt' > 0 /\ chunk \in Chunk
    <3>1. attempt \in Nat
      BY SessionAssumption DEF IndInv, TypeInv, TypeOK, HostTypeOK
    <3>2. QED
      BY <1>3, <3>1 DEF IndInv, TypeInv, LinkTypeOK
  <2>2. Written' /\ InStep'
    BY <1>1, <1>3, <2>1 DEF StreamInv, StreamPhase, InStep, Written
  <2>3. \A i \in 1..Len(inbox) : inbox[i].command = "TRANSFER" =>
           inbox[i].data[1] \in Chunk /\ inbox[i].data[1] <= chunk
    BY <1>3 DEF StreamInv, StreamPhase, ChunkOnLink
  <2>4. \A i \in 1..Len(inbox') : inbox'[i].command = "TRANSFER" =>
           inbox'[i].data[1] \in Chunk /\ inbox'[i].data[1] <= chunk
    <3>1. CASE inbox' = inbox
      BY <2>3, <3>1
    <3>2. CASE inbox' = Append(inbox, Frame)
      <4>1. inbox \in Seq(Report) /\ Frame \in Report /\ Frame.data[1] = chunk
        BY <1>3, FrameType DEF IndInv, TypeInv, LinkTypeOK, Exchanging, Frame, DataOf
      <4>2. /\ Len(inbox') = Len(inbox) + 1 /\ inbox'[Len(inbox) + 1] = Frame
            /\ \A i \in 1..Len(inbox) : inbox'[i] = inbox[i]
        BY <3>2, <4>1, AppendFacts
      <4>3. Len(inbox) \in Nat
        BY <4>1, EmptyFacts
      <4>4. chunk \in Int
        BY <2>1 DEF Chunk
      <4>5. QED
        BY <2>1, <2>3, <4>1, <4>2, <4>3, <4>4
    <3>3. QED
      BY <3>1, <3>2, RaisingEffect
  <2>5. \A i \in 1..Len(inbox') : ChunkOnLink(i)'
    <3>1. chunk \in Int
      BY <2>1, ChunkCountAssumption DEF Chunk
    <3>2. QED
      BY <1>1, <2>1, <2>2, <2>4, <3>1 DEF ChunkOnLink
  <2>6. QED
    BY <1>1, <1>3, <2>2, <2>5 DEF StreamInv, FirstChunk, StartedEmpty, AllSent,
       StreamPhase, Answered, Single
<1>4. CASE pc' = "closed" /\ ~handle'
  BY <1>4, NoStream
<1>5. QED
  BY <1>1, <1>2, <1>3, <1>4, RaiseOutcome

LEMMA WriteRequestStream ==
  ASSUME IndInv, StreamInv, WriteRequest
  PROVE  StreamInv'
<1>1. /\ handle /\ pc \in Exchanging /\ pc' = pc /\ chunk' = chunk /\ attempt' = attempt
      /\ dev' = dev /\ waiting' /\ outbox' = <<>> /\ inbox' = Append(inbox, Frame)
  BY DEF WriteRequest, Writing, deviceVars
<1>2. inbox \in Seq(Report) /\ Frame \in Report /\ Frame.command = CommandOf(pc)
  BY <1>1, FrameType DEF IndInv, TypeInv, LinkTypeOK
<1>3. /\ inbox' # <<>> /\ Len(inbox') = Len(inbox) + 1 /\ Len(inbox) \in Nat
      /\ inbox'[Len(inbox) + 1] = Frame
      /\ \A i \in 1..Len(inbox) : inbox'[i] = inbox[i]
  BY <1>1, <1>2, AppendFacts, EmptyFacts
<1>4. FirstChunk' /\ StartedEmpty' /\ AllSent'
  BY <1>1, <1>3 DEF StreamInv, FirstChunk, StartedEmpty, AllSent, Single
<1>5. Answered'
  BY <1>1 DEF Answered, NoReplyTo
<1>6. StreamPhase'
  <2> SUFFICES ASSUME pc \in {"transfer", "check"}
               PROVE  InStep' /\ \A i \in 1..Len(inbox') : ChunkOnLink(i)'
    BY <1>1 DEF StreamPhase
  <2>1. InStep' /\ Written'
    BY <1>1 DEF StreamInv, StreamPhase, InStep, Written
  <2>2. Frame.command = "TRANSFER" => Frame.data[1] = chunk /\ chunk \in Chunk
    BY <1>2 DEF IndInv, TypeInv, LinkTypeOK, Frame, CommandOf, DataOf
  <2>3. \A i \in 1..Len(inbox) : inbox[i].command = "TRANSFER" =>
           inbox[i].data[1] \in Chunk /\ inbox[i].data[1] <= chunk
    BY <1>1 DEF StreamInv, StreamPhase, ChunkOnLink
  <2>4. chunk \in Int
    BY DEF IndInv, TypeInv, TypeOK, HostTypeOK
  <2>5. \A i \in 1..Len(inbox') : inbox'[i].command = "TRANSFER" =>
           inbox'[i].data[1] \in Chunk /\ inbox'[i].data[1] <= chunk
    BY <1>3, <2>2, <2>3, <2>4
  <2>6. QED
    BY <1>1, <2>1, <2>5 DEF ChunkOnLink
<1>7. QED
  BY <1>4, <1>5, <1>6 DEF StreamInv

LEMMA ReadReplyStream ==
  ASSUME IndInv, StreamInv, ReadReply
  PROVE  StreamInv'
<1>1. handle /\ waiting /\ ~waiting' /\ inbox' = inbox /\ dev' = dev /\ handle' = handle
  BY DEF ReadReply, Advance, ChunkAcknowledged, deviceVars
<1>2. ~NoReplyTo(CommandOf(pc))
  <2>1. outbox[1].command = CommandOf(pc) /\ 1 \in 1..Len(outbox)
    BY TailFacts DEF IndInv, TypeInv, LinkTypeOK, ReadReply, Matches
  <2>2. QED
    BY <2>1 DEF NoReplyTo
<1>3. CASE pc \in {"ident", "caps", "select", "check"}
  <2>1. /\ pc' \in {"caps", "gate", "start", "reset"} /\ (pc = "check" => pc' = "reset")
        /\ chunk' = chunk /\ attempt' = attempt
    BY <1>3 DEF ReadReply, Advance, ChunkAcknowledged
  <2>2. QED
    BY <1>1, <1>3, <2>1 DEF StreamInv, FirstChunk, StartedEmpty, AllSent, StreamPhase,
       Answered, Single
<1>4. CASE pc = "start"
  <2>1. pc' = "transfer" /\ chunk' = chunk /\ attempt' = attempt
    BY <1>4 DEF ReadReply, Advance, ChunkAcknowledged
  <2>2. inbox = <<>>
    BY <1>1, <1>2, <1>4 DEF IndInv, LinkInv, SingleRequest, Single
  <2>3. dev.runningCrc = 0 /\ chunk = 1
    BY <1>1, <1>4, <2>2 DEF StreamInv, FirstChunk, StartedEmpty, Single
  <2>4. InStep' /\ \A i \in 1..Len(inbox') : ChunkOnLink(i)'
    BY <1>1, <2>1, <2>2, <2>3, EmptyFacts, EmptyLink DEF InStep
  <2>5. QED
    BY <1>1, <2>1, <2>4 DEF StreamInv, FirstChunk, StartedEmpty, AllSent, StreamPhase,
       Answered, Single
<1>5. CASE pc = "transfer" /\ pc' = "recover"
  BY <1>1, <1>5 DEF StreamInv, FirstChunk, StartedEmpty, AllSent, StreamPhase,
     Answered, Single
<1>6. CASE pc = "transfer" /\ pc' # "recover"
  <2>1. /\ pc' = IF chunk < ChunkCount THEN "transfer" ELSE "check"
        /\ chunk' = chunk + 1
    BY <1>6 DEF ReadReply, Advance, ChunkAcknowledged
  <2>2. chunk \in Int /\ chunk <= ChunkCount /\ ChunkCount \in Int
    BY <1>6, ChunkCountAssumption DEF IndInv, TypeInv, LinkTypeOK, Chunk
  <2>3. dev.runningCrc \in {chunk, Garbled}
    BY <1>1, <1>2, <1>6 DEF StreamInv, Answered, CommandOf
  <2>4. InStep'
    BY <1>1, <2>1, <2>2, <2>3 DEF InStep
  <2>5. \A i \in 1..Len(inbox) : inbox[i].command = "TRANSFER" =>
           inbox[i].data[1] \in Chunk /\ inbox[i].data[1] <= chunk
    BY <1>1, <1>6 DEF StreamInv, StreamPhase, ChunkOnLink
  <2>6. \A c \in Chunk : c <= chunk => c <= chunk' /\ c # chunk'
    BY <2>1, <2>2 DEF Chunk
  <2>7. \A i \in 1..Len(inbox') : ChunkOnLink(i)'
    BY <1>1, <2>5, <2>6 DEF ChunkOnLink
  <2>8. AllSent'
    BY <2>1, <2>2 DEF AllSent
  <2>9. QED
    BY <1>1, <2>1, <2>4, <2>7, <2>8 DEF StreamInv, FirstChunk, StartedEmpty,
       StreamPhase, Answered, Single
<1>7. QED
  BY <1>3, <1>4, <1>5, <1>6 DEF ReadReply, ChunkAcknowledged

\* One chunk taken by a mouse that is in step: the chunk under way makes its
\* stream whole up to it, and every other chunk ruins it.
LEMMA ChunkTaken ==
  ASSUME IndInv, StreamInv, handle, pc \in {"transfer", "check"},
         NEW i \in 1..Len(inbox), inbox[i].command = "TRANSFER"
  PROVE  LET c == inbox[i].data[1]
             crc == CrcUpdate(dev.runningCrc, c)
         IN  /\ c \in Chunk /\ c <= chunk
             /\ crc \in {chunk, Garbled} /\ (crc = chunk => Written)
             /\ crc = chunk => dev.runningCrc = chunk - 1 /\ c = chunk
<1> DEFINE c == inbox[i].data[1]
<1>1. c \in Chunk /\ c <= chunk /\ (c = chunk => Written)
  BY DEF StreamInv, StreamPhase, ChunkOnLink
<1>2. dev.runningCrc \in {chunk - 1, chunk, Garbled}
  BY DEF StreamInv, StreamPhase, InStep
<1>3. chunk \in Int /\ chunk >= 1 /\ c \in Int /\ c >= 1
  BY <1>1 DEF Chunk, IndInv, TypeInv, TypeOK, HostTypeOK
<1> HIDE DEF c
<1>4. CASE dev.runningCrc = chunk - 1
  BY <1>1, <1>3, <1>4 DEF CrcUpdate, Garbled, c
<1>5. CASE dev.runningCrc = chunk
  BY <1>1, <1>3, <1>5 DEF CrcUpdate, Garbled, c
<1>6. CASE dev.runningCrc = Garbled
  BY <1>1, <1>3, <1>6 DEF CrcUpdate, Garbled, c
<1>7. QED
  BY <1>2, <1>4, <1>5, <1>6

LEMMA HandleStream ==
  ASSUME IndInv, StreamInv, Handle
  PROVE  StreamInv'
<1>1. /\ pc' = pc /\ waiting' = waiting /\ handle' = handle /\ chunk' = chunk
      /\ attempt' = attempt
  BY DEF Handle, hostVars, progressVars
<1> SUFFICES ASSUME handle PROVE StreamInv'
  BY <1>1, NoStream
<1>2. /\ inbox \in Seq(Report) /\ inbox # <<>> /\ outbox \in Seq(Reply) /\ dev \in Device
      /\ Head(inbox) = inbox[1] /\ inbox[1] \in Report /\ 1 \in 1..Len(inbox)
      /\ Len(inbox) \in Nat /\ Len(inbox) >= 1
  BY TailFacts DEF Handle, IndInv, TypeInv, TypeOK, LinkTypeOK
<1> DEFINE reply == UpdaterReply(dev, inbox[1])
<1>3. /\ Len(inbox') = Len(inbox) - 1
      /\ \A i \in 1..(Len(inbox) - 1) : inbox'[i] = inbox[i + 1]
      /\ dev' = UpdaterAfter(dev, inbox[1]) /\ outbox' = Append(outbox, reply)
  BY <1>2, TailFacts DEF Handle
<1>4. reply.command = inbox[1].command
  BY DEF UpdaterReply
<1> HIDE DEF reply
<1>5. FirstChunk' /\ AllSent'
  BY <1>1 DEF StreamInv, FirstChunk, AllSent
<1>6. StartedEmpty'
  <2> SUFFICES ASSUME pc = "start", waiting PROVE dev'.runningCrc = 0
    BY <1>1 DEF StartedEmpty
  <2>1. inbox[1].command = "START"
    BY <1>2 DEF IndInv, LinkInv, SingleRequest, Single, Frame, CommandOf
  <2>2. QED
    BY <1>2, <1>3, <2>1, HandlerStream
<1>7. CASE pc \notin {"transfer", "check"}
  BY <1>1, <1>5, <1>6, <1>7 DEF StreamInv, StreamPhase, Answered
<1>8. CASE pc \in {"transfer", "check"}
  <2>1. /\ dev.state = "UPDATING"
        /\ inbox[1].command = "TRANSFER" \/ (pc = "check" /\ inbox[1].command = "CHECK_CRC")
    <3>1. CASE pc = "transfer" \/ ~waiting
      BY <1>2, <1>8, <3>1 DEF IndInv, LinkInv, TransferPhase, OnlyTransfers
    <3>2. CASE pc = "check" /\ waiting
      <4>1. /\ dev.state = "UPDATING" /\ inbox[Len(inbox)] = Frame
            /\ \A i \in 1..(Len(inbox) - 1) : inbox[i].command = "TRANSFER"
        BY <1>2, <3>2 DEF IndInv, LinkInv, CheckPhase
      <4>2. Len(inbox) = 1 \/ 1 \in 1..(Len(inbox) - 1)
        <5>1. \A n \in Nat : n >= 1 => n = 1 \/ 1 \in 1..(n - 1)
          OBVIOUS
        <5>2. Len(inbox) \in Nat /\ Len(inbox) >= 1
          BY <1>2
        <5>3. QED
          BY <5>1, <5>2
      <4>3. Frame.command = "CHECK_CRC"
        BY <3>2 DEF Frame, CommandOf
      <4>4. QED
        BY <3>2, <4>1, <4>2, <4>3
    <3>3. QED
      BY <1>8, <3>1, <3>2
  <2>2. InStep'
    <3>1. CASE inbox[1].command = "TRANSFER"
      <4>1. dev'.runningCrc = CrcUpdate(dev.runningCrc, inbox[1].data[1])
        BY <1>2, <1>3, <2>1, <3>1, HandlerStream
      <4>2. dev'.runningCrc \in {chunk, Garbled} /\ (dev'.runningCrc = chunk => Written)
        BY <1>2, <1>8, <3>1, <4>1, ChunkTaken
      <4>3. QED
        BY <1>1, <4>2 DEF InStep, Written
    <3>2. CASE inbox[1].command = "CHECK_CRC"
      <4>1. dev'.runningCrc = dev.runningCrc
        BY <1>2, <1>3, <3>2, HandlerStream
      <4>2. QED
        BY <1>1, <1>8, <4>1 DEF StreamInv, StreamPhase, InStep, Written
    <3>3. QED
      BY <2>1, <3>1, <3>2
  <2>3. \A i \in 1..Len(inbox') : ChunkOnLink(i)'
    <3>1. \A i \in 1..Len(inbox) : ChunkOnLink(i)
      BY <1>8 DEF StreamInv, StreamPhase
    <3>2. \A i \in 1..Len(inbox') : i + 1 \in 1..Len(inbox) /\ inbox'[i] = inbox[i + 1]
      BY <1>2, <1>3
    <3>3. Written' = Written
      BY <1>1 DEF Written
    <3>4. QED
      BY <1>1, <3>1, <3>2, <3>3 DEF ChunkOnLink
  <2>4. Answered'
    <3> SUFFICES ASSUME pc = "transfer", waiting PROVE dev'.runningCrc \in {chunk, Garbled}
      BY <1>1 DEF Answered
    <3>1. dev'.runningCrc = CrcUpdate(dev.runningCrc, inbox[1].data[1])
      BY <1>2, <1>3, <2>1, HandlerStream
    <3>2. QED
      BY <1>2, <2>1, <3>1, ChunkTaken
  <2>5. QED
    BY <1>5, <1>6, <2>2, <2>3, <2>4 DEF StreamInv, StreamPhase
<1>9. QED
  BY <1>7, <1>8

LEMMA EnvironmentStream ==
  ASSUME IndInv, StreamInv,
         Restart \/ Enumerate \/ Replug \/ Unplug \/ LoseReply \/ NoiseReport
           \/ BreakPipe \/ UNCHANGED vars
  PROVE  StreamInv'
<1>1. /\ pc' = pc /\ waiting' = waiting /\ chunk' = chunk /\ attempt' = attempt
      /\ handle' = handle \/ ~handle'
  BY DEF Restart, Enumerate, Replug, Unplug, LoseReply, NoiseReport, BreakPipe, vars,
     hostVars, progressVars
<1> SUFFICES ASSUME handle, handle' PROVE StreamInv'
  BY <1>1, NoStream
<1>2. inbox' = inbox /\ dev' = dev
  BY DEF Restart, Enumerate, Replug, Unplug, LoseReply, NoiseReport, BreakPipe, vars,
     linkVars, deviceVars
<1>3. NoReplyTo("TRANSFER") => NoReplyTo("TRANSFER")'
  <2>1. outbox \in Seq(Reply) /\ Noise \in Reply /\ Noise.command = "NONE"
    BY SessionAssumption DEF IndInv, TypeInv, LinkTypeOK, Noise, Reply, Status
  <2>2. CASE outbox' = outbox
    BY <2>2 DEF NoReplyTo
  <2>3. CASE outbox # <<>> /\ outbox' = Tail(outbox)
    BY <2>1, <2>3, TailFacts DEF NoReplyTo
  <2>4. CASE outbox' = Append(outbox, Noise)
    BY <2>1, <2>4, AppendFacts, EmptyFacts DEF NoReplyTo
  <2>5. QED
    BY <2>2, <2>3, <2>4 DEF Restart, Enumerate, Replug, Unplug, LoseReply,
       NoiseReport, BreakPipe, vars, linkVars
<1>4. Written' = Written /\ InStep' = InStep
  BY <1>1, <1>2 DEF Written, InStep
<1>5. StreamPhase'
  BY <1>1, <1>2, <1>4 DEF StreamInv, StreamPhase, ChunkOnLink
<1>6. QED
  BY <1>1, <1>2, <1>3, <1>5 DEF StreamInv, FirstChunk, StartedEmpty, AllSent, Answered

LEMMA DecisionsStream ==
  ASSUME IndInv, StreamInv, WriteReset \/ Gate \/ Poll \/ Kill \/ \E r \in Request : Open(r)
  PROVE  StreamInv'
<1>1. ASSUME NEW o, NEW rec, Close(o, rec) PROVE StreamInv'
  BY <1>1, NoStream DEF Close
<1>2. CASE WriteReset \/ Kill
  BY <1>1, <1>2, NoStream DEF WriteReset, Kill
<1>3. CASE Gate
  <2>1. CASE pc = "gate" /\ pc' = "select" /\ handle' = handle /\ waiting' = waiting
             /\ chunk' = chunk /\ attempt' = attempt
    <3>1. ~waiting
      BY <2>1 DEF IndInv, WaitingPhase, Exchanging
    <3>2. QED
      BY <2>1, <3>1 DEF StreamInv, FirstChunk, StartedEmpty, AllSent, StreamPhase,
         Answered, Single
  <2>2. QED
    BY <1>1, <1>3, <2>1 DEF Gate
<1>4. CASE Poll
  <2>1. CASE pc = "verify" /\ handle' = handle
    BY <2>1, NoStream DEF IndInv, HandlePhase, Exchanging
  <2>2. QED
    BY <1>1, <1>4, <2>1 DEF Poll
<1>5. ASSUME NEW r \in Request, Open(r) PROVE StreamInv'
  BY <1>5 DEF Open, StreamInv, FirstChunk, StartedEmpty, AllSent, StreamPhase,
     Answered, Single
<1>6. QED
  BY <1>2, <1>3, <1>4, <1>5

TransferInv == IndInv /\ StreamInv

LEMMA NextTransfer == TransferInv /\ [Next]_vars => TransferInv'
<1> SUFFICES ASSUME IndInv, StreamInv, [Next]_vars PROVE StreamInv'
  BY NextInd DEF TransferInv
<1>1. CASE HostStep
  BY <1>1, WriteRequestStream, RaisingStream, ReadReplyStream, DecisionsStream
  DEF HostStep, Raising
<1>2. CASE DeviceStep
  BY <1>2, HandleStream, EnvironmentStream DEF DeviceStep
<1>3. CASE FaultStep
  BY <1>3, RaisingStream, EnvironmentStream, DecisionsStream DEF FaultStep, Raising
<1>4. QED
  BY <1>1, <1>2, <1>3, DecisionsStream, EnvironmentStream DEF Next

LEMMA InitTransfer == Init => TransferInv
  BY InitInd DEF Init, TransferInv, StreamInv

(***************************************************************************)
(* At every moment of the transfer, whatever was lost, doubled or late, a  *)
(* mouse whose stream is not ruined is at the tool's chunk or has just     *)
(* taken it (the 0x64 loop of upgrade_firmware and the mouse's handler).   *)
(***************************************************************************)
THEOREM ToolAndMouseInStep == Spec => []Lockstep
<1>1. TransferInv => Lockstep
  BY DEF TransferInv, StreamInv, StreamPhase, InStep, Written, Lockstep
<1>2. QED
  BY InitTransfer, NextTransfer, <1>1, PTL DEF Spec
-----------------------------------------------------------------------------
\* What ChunkTransfer sees of a state, as UpdateSession instantiates it.
Acked == IF ~Transferring THEN 0 ELSE IF pc = "transfer" THEN chunk - 1 ELSE ChunkCount
Stream == IF Transferring THEN dev.runningCrc ELSE 0
Accepted == Transferring /\ pc = "reset"

AbstractStep == Transfer!Next \/ UNCHANGED <<Acked, Stream, Accepted>>

\* The actions of ChunkTransfer in these terms.
LEMMA AbstractActions ==
  /\ Acked' = 0 /\ Stream' = 0 /\ ~Accepted' => AbstractStep
  /\ /\ ~Accepted /\ (\E c \in {Acked, Acked + 1} \cap Chunk : Stream' = CrcUpdate(Stream, c))
     /\ Acked' = Acked /\ Accepted' = Accepted
     => AbstractStep
  /\ /\ Acked < ChunkCount /\ Stream \in {Acked + 1, Garbled} /\ Acked' = Acked + 1
     /\ Stream' = Stream /\ Accepted' = Accepted
     => AbstractStep
  /\ /\ ~Accepted /\ Acked = ChunkCount /\ Stream = ChunkCount /\ Accepted'
     /\ Acked' = Acked /\ Stream' = Stream
     => AbstractStep
<1>1. Acked' = 0 /\ Stream' = 0 /\ ~Accepted' => Transfer!Finish
  BY DEF Transfer!Finish, Acked, Stream, Accepted
<1>2. /\ ~Accepted /\ (\E c \in {Acked, Acked + 1} \cap Chunk : Stream' = CrcUpdate(Stream, c))
      /\ Acked' = Acked /\ Accepted' = Accepted
      => Transfer!Receive
  <2>1. \A crc, c : Transfer!CrcUpdate(crc, c) = CrcUpdate(crc, c)
    BY DEF Transfer!CrcUpdate, CrcUpdate, Transfer!Garbled, Garbled
  <2>2. QED
    BY <2>1 DEF Transfer!Receive, Acked, Stream, Accepted, Chunk
<1>3. /\ Acked < ChunkCount /\ Stream \in {Acked + 1, Garbled} /\ Acked' = Acked + 1
      /\ Stream' = Stream /\ Accepted' = Accepted
      => Transfer!Acknowledge
  BY DEF Transfer!Acknowledge, Transfer!Garbled, Garbled, Acked, Stream, Accepted
<1>4. /\ ~Accepted /\ Acked = ChunkCount /\ Stream = ChunkCount /\ Accepted'
      /\ Acked' = Acked /\ Stream' = Stream
      => Transfer!Accept
  BY DEF Transfer!Accept, Acked, Stream, Accepted
<1>5. QED
  BY <1>1, <1>2, <1>3, <1>4 DEF AbstractStep, Transfer!Next

\* Outside the transfer there is nothing to see.
LEMMA Ended == ~Transferring' => AbstractStep
  BY AbstractActions DEF Acked, Stream, Accepted

LEMMA Unseen ==
  ASSUME pc' = pc, handle' = handle, chunk' = chunk, dev'.runningCrc = dev.runningCrc
  PROVE  AbstractStep
  BY DEF AbstractStep, Acked, Stream, Accepted, Transferring

LEMMA ReadReplyAbstract ==
  ASSUME TransferInv, TransferInv', ReadReply
  PROVE  AbstractStep
<1>1. handle /\ handle' = handle /\ waiting /\ dev' = dev /\ inbox' = inbox
  BY DEF ReadReply, Advance, ChunkAcknowledged, deviceVars
<1>2. ~NoReplyTo(CommandOf(pc))
  <2>1. outbox[1].command = CommandOf(pc) /\ 1 \in 1..Len(outbox)
    BY TailFacts DEF TransferInv, IndInv, TypeInv, LinkTypeOK, ReadReply, Matches
  <2>2. QED
    BY <2>1 DEF NoReplyTo
<1>3. CASE pc' \notin {"transfer", "check", "reset"}
  BY <1>3, Ended DEF Transferring
<1>4. CASE pc = "start"
  <2>1. pc' = "transfer" /\ chunk' = chunk
    BY <1>4 DEF ReadReply, Advance, ChunkAcknowledged
  <2>2. inbox = <<>>
    BY <1>1, <1>2, <1>4 DEF TransferInv, IndInv, LinkInv, SingleRequest, Single
  <2>3. dev.runningCrc = 0 /\ chunk = 1
    BY <1>1, <1>4, <2>2 DEF TransferInv, StreamInv, FirstChunk, StartedEmpty, Single
  <2>4. Acked' = 0 /\ Stream' = 0 /\ ~Accepted'
    BY <1>1, <2>1, <2>3 DEF Acked, Stream, Accepted, Transferring
  <2>5. QED
    BY <2>4, AbstractActions
<1>5. CASE pc = "transfer" /\ pc' \in {"transfer", "check"}
  <2>1. /\ pc' = IF chunk < ChunkCount THEN "transfer" ELSE "check"
        /\ chunk' = chunk + 1
    BY <1>5 DEF ReadReply, Advance, ChunkAcknowledged
  <2>2. chunk \in Int /\ chunk <= ChunkCount /\ ChunkCount \in Int
    BY <1>5, ChunkCountAssumption DEF TransferInv, IndInv, TypeInv, LinkTypeOK, Chunk
  <2>3. dev.runningCrc \in {chunk, Garbled}
    BY <1>1, <1>2, <1>5 DEF TransferInv, StreamInv, Answered, CommandOf
  <2>4. Acked = chunk - 1 /\ Acked' = chunk
    BY <1>1, <1>5, <2>1, <2>2 DEF Acked, Transferring
  <2>5. Stream = dev.runningCrc /\ Stream' = Stream /\ Accepted' = Accepted
    BY <1>1, <1>5 DEF Stream, Accepted, Transferring
  <2>6. Acked < ChunkCount /\ Acked' = Acked + 1 /\ Stream \in {Acked + 1, Garbled}
    BY <2>2, <2>3, <2>4, <2>5
  <2>7. QED
    BY <2>5, <2>6, AbstractActions
<1>6. CASE pc = "check" /\ pc' = "reset"
  <2>1. dev.runningCrc = ChunkCount
    BY <1>1, <1>6 DEF TransferInv, IndInv, LinkInv, ResetPhase, WholeImage
  <2>2. /\ ~Accepted /\ Accepted' /\ Acked = ChunkCount /\ Acked' = Acked
        /\ Stream = ChunkCount /\ Stream' = Stream
    BY <1>1, <1>6, <2>1 DEF Acked, Stream, Accepted, Transferring
  <2>3. QED
    BY <2>2, AbstractActions
<1>7. QED
  BY <1>3, <1>4, <1>5, <1>6 DEF ReadReply, Advance, ChunkAcknowledged

\* The mouse takes a report: a chunk is received, and a stream that was ruined
\* before stays as it is; a check changes nothing.
LEMMA HandleAbstract ==
  ASSUME TransferInv, Handle
  PROVE  AbstractStep
<1>1. /\ pc' = pc /\ handle' = handle /\ chunk' = chunk
  BY DEF Handle, hostVars, progressVars
<1>2. CASE ~Transferring
  BY <1>1, <1>2, Ended DEF Transferring
<1> SUFFICES ASSUME Transferring PROVE AbstractStep
  BY <1>2
<1>3. /\ inbox # <<>> /\ dev \in Device /\ inbox[1] \in Report /\ 1 \in 1..Len(inbox)
      /\ dev' = UpdaterAfter(dev, inbox[1])
  BY TailFacts DEF Handle, TransferInv, IndInv, TypeInv, TypeOK, LinkTypeOK
<1>4. pc \in {"transfer", "check"}
  BY <1>3 DEF Transferring, TransferInv, IndInv, LinkInv, ResetPhase
<1>5. CASE dev'.runningCrc = dev.runningCrc
  BY <1>1, <1>5, Unseen
<1>6. CASE dev'.runningCrc # dev.runningCrc
  <2>1. inbox[1].command \in {"TRANSFER", "START"}
    BY <1>3, <1>6, HandlerStream
  <2>2. inbox[1].command # "START"
    <3>1. CASE pc = "transfer" \/ ~waiting
      BY <1>3, <1>4, <3>1 DEF Transferring, TransferInv, IndInv, LinkInv, TransferPhase,
         OnlyTransfers
    <3>2. CASE pc = "check" /\ waiting
      <4>1. /\ inbox[Len(inbox)] = Frame
            /\ \A i \in 1..(Len(inbox) - 1) : inbox[i].command = "TRANSFER"
        BY <1>3, <3>2 DEF Transferring, TransferInv, IndInv, LinkInv, CheckPhase
      <4>2. Len(inbox) = 1 \/ 1 \in 1..(Len(inbox) - 1)
        <5>1. \A n \in Nat : 1 \in 1..n => n = 1 \/ 1 \in 1..(n - 1)
          OBVIOUS
        <5>2. Len(inbox) \in Nat
          BY EmptyFacts DEF TransferInv, IndInv, TypeInv, LinkTypeOK
        <5>3. QED
          BY <1>3, <5>1, <5>2
      <4>3. Frame.command = "CHECK_CRC"
        BY <3>2 DEF Frame, CommandOf
      <4>4. QED
        BY <4>1, <4>2, <4>3
    <3>3. QED
      BY <1>4, <3>1, <3>2
  <2> DEFINE c == inbox[1].data[1]
  <2>3. inbox[1].command = "TRANSFER" /\ dev.state = "UPDATING"
    BY <1>3, <1>6, <2>1, <2>2, HandlerStream
  <2>4. dev'.runningCrc = CrcUpdate(dev.runningCrc, c)
    BY <1>3, <2>3, HandlerStream
  <2>5. /\ c \in Chunk /\ c <= chunk /\ dev'.runningCrc \in {chunk, Garbled}
        /\ dev'.runningCrc = chunk => dev.runningCrc = chunk - 1 /\ c = chunk
    BY <1>3, <1>4, <2>3, <2>4, ChunkTaken DEF TransferInv, Transferring
  <2>6. dev.runningCrc \in {chunk - 1, chunk}
    BY <1>4, <1>6, <2>5, <2>4 DEF CrcUpdate, Garbled, TransferInv, StreamInv, StreamPhase,
       InStep, Transferring, Chunk
  <2> HIDE DEF c
  <2>7. /\ Stream = dev.runningCrc /\ Stream' = dev'.runningCrc
        /\ ~Accepted /\ Accepted' = Accepted /\ Acked' = Acked
    BY <1>1, <1>4 DEF Stream, Accepted, Acked, Transferring
  <2>8. \E d \in {Acked, Acked + 1} \cap Chunk : Stream' = CrcUpdate(Stream, d)
    <3>1. CASE pc = "transfer"
      <4>1. Acked = chunk - 1 /\ chunk \in Int /\ chunk \in Chunk
        BY <3>1 DEF Acked, Transferring, TransferInv, IndInv, TypeInv, LinkTypeOK, TypeOK,
           HostTypeOK
      <4>2. CASE dev'.runningCrc = chunk
        <5>1. c = chunk /\ Stream' = CrcUpdate(Stream, c)
          BY <2>4, <2>5, <2>7, <4>2
        <5>2. chunk \in {Acked, Acked + 1}
          BY <4>1
        <5>3. QED
          BY <4>1, <5>1, <5>2
      <4>3. CASE dev.runningCrc = chunk
        <5>1. dev'.runningCrc = Garbled
          BY <1>6, <2>5, <4>3
        <5>2. CrcUpdate(chunk, chunk) = Garbled
          BY <4>1 DEF CrcUpdate
        <5>3. chunk \in {Acked, Acked + 1}
          BY <4>1
        <5>4. QED
          BY <2>7, <4>1, <4>3, <5>1, <5>2, <5>3
      <4>4. CASE dev.runningCrc = chunk - 1 /\ dev'.runningCrc = Garbled
        <5>1. c # chunk
          BY <2>4, <4>1, <4>4 DEF CrcUpdate, Garbled, Chunk
        <5>2. chunk - 1 \in Chunk
          <6>1. c \in Chunk /\ c <= chunk /\ chunk \in Chunk
            BY <2>5, <4>1
          <6>2. QED
            BY <5>1, <6>1, ChunkCountAssumption DEF Chunk
        <5>3. CrcUpdate(chunk - 1, chunk - 1) = Garbled
          BY <4>1 DEF CrcUpdate
        <5>4. QED
          BY <2>7, <4>1, <4>4, <5>2, <5>3
      <4>5. QED
        BY <2>5, <2>6, <4>2, <4>3, <4>4
    <3>2. CASE pc = "check"
      <4>1. /\ Acked = ChunkCount /\ chunk = ChunkCount + 1 /\ ChunkCount \in Chunk
            /\ ChunkCount \in Nat
        BY <3>2, ChunkCountAssumption DEF Acked, Transferring, TransferInv, StreamInv,
           AllSent, Chunk
      <4>2. dev.runningCrc \in Crc
        BY <1>3 DEF Device
      <4>3. dev.runningCrc = ChunkCount
        BY <2>6, <4>1, <4>2 DEF Crc, Garbled
      <4>4. c # chunk
        BY <2>5, <4>1 DEF Chunk
      <4>5. dev'.runningCrc = Garbled
        BY <2>5, <4>4
      <4>6. CrcUpdate(ChunkCount, ChunkCount) = Garbled
        BY <4>1 DEF CrcUpdate
      <4>7. QED
        BY <2>7, <4>1, <4>3, <4>5, <4>6
    <3>3. QED
      BY <1>4, <3>1, <3>2
  <2>9. QED
    BY <2>7, <2>8, AbstractActions
<1>7. QED
  BY <1>5, <1>6

LEMMA StepAbstract ==
  ASSUME TransferInv, TransferInv', [Next]_vars
  PROVE  AbstractStep
<1>1. CASE Raising
  <2>1. \/ pc = "transfer" /\ pc' = pc /\ handle' = handle /\ chunk' = chunk
        \/ ~Transferring'
    BY <1>1, RaisingEffect, RaiseOutcome DEF Transferring
  <2>2. QED
    BY <1>1, <2>1, RaisingEffect, Unseen, Ended
<1>2. CASE WriteReset \/ Gate \/ Poll \/ Kill \/ Restart \/ Unplug
             \/ \E r \in Request : Open(r)
  <2>1. ~Transferring'
    BY <1>2 DEF WriteReset, Gate, Poll, Kill, Restart, Unplug, Open, Close, Transferring
  <2>2. QED
    BY <2>1, Ended
<1>3. CASE WriteRequest \/ Enumerate \/ Replug \/ LoseReply \/ NoiseReport \/ BreakPipe
             \/ UNCHANGED vars
  <2>1. pc' = pc /\ handle' = handle /\ chunk' = chunk /\ dev' = dev
    BY <1>3 DEF WriteRequest, Enumerate, Replug, LoseReply, NoiseReport, BreakPipe, vars,
       hostVars, progressVars, deviceVars
  <2>2. QED
    BY <2>1, Unseen
<1>4. QED
  BY <1>1, <1>2, <1>3, ReadReplyAbstract, HandleAbstract
  DEF Raising, Next, HostStep, DeviceStep, FaultStep

(***************************************************************************)
(* The transfer phase of upgrade_firmware together with the mouse's        *)
(* handler is ChunkTransfer: with all queues, retries, sequence numbers    *)
(* and late answers, the tool counts a chunk only when the mouse has it,   *)
(* the mouse can only repeat the chunk before, and nothing but the whole   *)
(* image is accepted.                                                      *)
(***************************************************************************)
THEOREM TransferIsAbstract == Spec => ImplementsChunkTransfer
<1>1. Init => Transfer!Init
  BY DEF Init, Transfer!Init, Transferring
<1>2. TransferInv /\ TransferInv' /\ [Next]_vars => [Transfer!Next]_(Transfer!vars)
  BY StepAbstract DEF AbstractStep, Acked, Stream, Accepted, Transfer!vars
<1>3. QED
  BY InitTransfer, NextTransfer, <1>1, <1>2, PTL
  DEF Spec, ImplementsChunkTransfer, Transfer!Spec
-----------------------------------------------------------------------------
(***************************************************************************)
(* Which faults can ruin a stream.  Without the four below the tool and    *)
(* the mouse take turns: at most one report is on its way, and the tool    *)
(* only writes again when the mouse's answer was read.                     *)
(***************************************************************************)
Ruinous == {"write_ambiguous", "reply_lost", "reply_late", "noise"}

NextChunk ==
  /\ Len(inbox) <= 1
  /\ inbox # <<>> /\ inbox[1].command = "TRANSFER" =>
       inbox[1].data[1] = dev.runningCrc + 1
Turns == handle => /\ ~waiting => inbox = <<>>
                   /\ waiting /\ inbox # <<>> => outbox = <<>>
Exact ==
  handle /\ pc = "transfer" =>
    \/ ~waiting /\ dev.runningCrc = chunk - 1
    \/ waiting /\ inbox # <<>> /\ inbox[1] = Frame
    \/ /\ waiting /\ inbox = <<>> /\ dev.runningCrc = chunk
       /\ outbox # <<>> /\ Matches(outbox[1])

Intact == StreamNeverGarbled /\ NextChunk /\ Turns /\ Exact

\* The run has ended or lost its handle, and nothing was written.
LEMMA IntactWithout ==
  ASSUME IndInv, Intact, ~handle', dev' \in {dev, updater_init},
         inbox' = <<>> \/ (inbox' = inbox /\ dev' = dev)
  PROVE  Intact'
<1>1. Len(<<>>) = 0
  OBVIOUS
<1>2. dev'.runningCrc # Garbled
  BY DEF Intact, StreamNeverGarbled, updater_init, Garbled
<1>3. NextChunk'
  BY <1>1 DEF Intact, NextChunk
<1>4. QED
  BY <1>2, <1>3 DEF Intact, StreamNeverGarbled, Turns, Exact

\* A frame written to an empty link.
LEMMA IntactWrite ==
  ASSUME IndInv, Intact, handle, ~waiting, pc \in Exchanging \cup {"reset", "recover"},
         dev' = dev, inbox' = Append(inbox, Frame)
  PROVE  /\ inbox' # <<>> /\ inbox'[1] = Frame
         /\ StreamNeverGarbled' /\ NextChunk'
<1>1. inbox = <<>> /\ Frame \in Report /\ Frame.command = CommandOf(pc)
  BY FrameType DEF Intact, Turns, IndInv
<1>2. Len(inbox') = 1 /\ inbox'[1] = Frame /\ inbox' # <<>>
  BY <1>1
<1>3. Frame.command = "TRANSFER" => Frame.data[1] = dev.runningCrc + 1
  <2>1. Frame.command = "TRANSFER" => pc = "transfer" /\ Frame.data[1] = chunk
    BY <1>1 DEF CommandOf, Frame, DataOf
  <2>2. pc = "transfer" => dev.runningCrc = chunk - 1 /\ chunk \in Int
    BY DEF Intact, Exact, IndInv, TypeInv, TypeOK, HostTypeOK
  <2>3. QED
    BY <2>1, <2>2
<1>4. QED
  BY <1>2, <1>3 DEF Intact, StreamNeverGarbled, NextChunk

LEMMA IntactRaising ==
  ASSUME FaultKinds \cap Ruinous = {}, IndInv, Intact, Raising
  PROVE  Intact'
<1>1. Raise /\ dev' = dev /\ chunk' = chunk /\ ~waiting'
  BY RaisingEffect, RaiseOutcome
<1>2. inbox' = inbox
  <2>1. WriteFails => Fault("write_lost") /\ inbox' = inbox
    BY DEF WriteFails, Fault, Ruinous
  <2>2. QED
    BY <2>1 DEF Raising, DeadHandle, Timeout, ReadWrongReply, linkVars
<1>3. CASE ~handle'
  BY <1>1, <1>2, <1>3, IntactWithout
<1> SUFFICES ASSUME handle' PROVE Intact'
  BY <1>3
<1>4. handle' = handle /\ (pc' = "recover" \/ (pc = "transfer" /\ pc' = pc))
  BY <1>1, RaiseOutcome
<1>5. CASE ~handle
  BY <1>4, <1>5
<1> SUFFICES ASSUME handle PROVE Intact'
  BY <1>5
<1>6. inbox = <<>>
  <2>1. ~waiting => inbox = <<>>
    BY DEF Intact, Turns
  <2>2. waiting /\ outbox # <<>> => inbox = <<>>
    BY DEF Intact, Turns
  <2>3. Timeout => inbox = <<>>
    BY DEF Timeout, Fault, Ruinous
  <2>4. QED
    BY <2>1, <2>2, <2>3 DEF Raising, WriteFails, Writing, DeadHandle, ReadWrongReply
<1>7. pc = "transfer" => dev.runningCrc = chunk - 1
  <2> SUFFICES ASSUME pc = "transfer", waiting PROVE FALSE
    BY DEF Intact, Exact
  <2>1. outbox # <<>> /\ Matches(outbox[1])
    BY <1>6 DEF Intact, Exact
  <2>2. ReadWrongReply
    BY <2>1 DEF Raising, WriteFails, Writing, DeadHandle, Timeout
  <2>3. Head(outbox) = outbox[1]
    BY <2>1, TailFacts DEF IndInv, TypeInv, LinkTypeOK
  <2>4. QED
    BY <2>1, <2>2, <2>3 DEF ReadWrongReply
<1>8. QED
  BY <1>1, <1>2, <1>4, <1>6, <1>7 DEF Intact, StreamNeverGarbled, NextChunk, Turns, Exact

LEMMA IntactReadReply ==
  ASSUME TransferInv, Intact, ReadReply
  PROVE  Intact'
<1>1. /\ handle /\ handle' = handle /\ waiting /\ ~waiting' /\ outbox # <<>>
      /\ inbox' = inbox /\ dev' = dev
  BY DEF ReadReply, Advance, ChunkAcknowledged, deviceVars
<1>2. inbox = <<>> /\ Len(<<>>) = 0
  BY <1>1 DEF Intact, Turns
<1>3. pc' = "transfer" => dev'.runningCrc = chunk' - 1
  <2> SUFFICES ASSUME pc' = "transfer" PROVE dev'.runningCrc = chunk' - 1
    OBVIOUS
  <2>1. CASE pc = "start"
    <3>1. chunk' = chunk
      BY <2>1 DEF ReadReply, Advance, ChunkAcknowledged
    <3>2. dev.runningCrc = 0 /\ chunk = 1
      BY <1>1, <1>2, <2>1 DEF TransferInv, StreamInv, FirstChunk, StartedEmpty, Single
    <3>3. QED
      BY <1>1, <3>1, <3>2
  <2>2. CASE pc = "transfer"
    <3>1. chunk' = chunk + 1 /\ chunk \in Int
      BY <2>2 DEF ReadReply, Advance, ChunkAcknowledged, TransferInv, IndInv, TypeInv,
         TypeOK, HostTypeOK
    <3>2. dev.runningCrc = chunk
      BY <1>1, <1>2, <2>2 DEF Intact, Exact
    <3>3. QED
      BY <1>1, <3>1, <3>2
  <2>3. QED
    BY <2>1, <2>2 DEF ReadReply, Advance, ChunkAcknowledged
<1>4. QED
  BY <1>1, <1>2, <1>3 DEF Intact, StreamNeverGarbled, NextChunk, Turns, Exact

LEMMA IntactHandle ==
  ASSUME IndInv, Intact, Handle
  PROVE  Intact'
<1>1. /\ pc' = pc /\ waiting' = waiting /\ handle' = handle /\ chunk' = chunk
      /\ seq' = seq
  BY DEF Handle, hostVars, progressVars
<1>2. /\ inbox # <<>> /\ dev \in Device /\ Head(inbox) = inbox[1] /\ inbox[1] \in Report
      /\ inbox \in Seq(Report) /\ outbox \in Seq(Reply)
      /\ Len(inbox') = Len(inbox) - 1 /\ inbox' \in Seq(Report)
      /\ dev' = UpdaterAfter(dev, inbox[1])
  BY TailFacts DEF Handle, IndInv, TypeInv, TypeOK, LinkTypeOK
<1>3. inbox' = <<>> /\ Len(inbox') = 0
  <2>1. Len(inbox) \in Nat /\ Len(inbox) # 0 /\ Len(inbox) <= 1
    BY <1>2, EmptyFacts DEF Intact, NextChunk
  <2>2. Len(inbox') = 0
    BY <1>2, <2>1
  <2>3. QED
    BY <1>2, <2>2, EmptyFacts
<1>4. dev.runningCrc \in Int /\ dev.runningCrc >= 0
  BY <1>2, ChunkCountAssumption DEF Device, Crc, Intact, StreamNeverGarbled
<1>5. CASE inbox[1].command = "TRANSFER" /\ dev.state = "UPDATING"
  <2>1. inbox[1].data[1] = dev.runningCrc + 1
    BY <1>2, <1>5 DEF Intact, NextChunk
  <2>2. dev'.runningCrc = CrcUpdate(dev.runningCrc, inbox[1].data[1])
    BY <1>2, <1>5, HandlerStream
  <2>3. dev'.runningCrc = dev.runningCrc + 1
    BY <2>1, <2>2 DEF CrcUpdate
  <2>4. dev'.runningCrc # Garbled
    BY <1>4, <2>3 DEF Garbled
  <2>5. handle /\ pc = "transfer" =>
          /\ waiting /\ dev'.runningCrc = chunk /\ outbox' # <<>> /\ Matches(outbox'[1])
    <3> SUFFICES ASSUME handle, pc = "transfer"
                 PROVE  /\ waiting /\ dev'.runningCrc = chunk /\ outbox' # <<>>
                        /\ Matches(outbox'[1])
      OBVIOUS
    <3>1. waiting /\ inbox[1] = Frame /\ outbox = <<>>
      BY <1>2 DEF Intact, Turns, Exact
    <3>2. Frame.data[1] = chunk /\ Frame.sequence = seq /\ Frame.command = CommandOf(pc)
      BY DEF Frame, DataOf
    <3>3. ResponseStatus(dev, inbox[1]) = "OK"
      <4>1. Len(inbox[1].data) = 1
        BY <1>2, <1>5 DEF Report
      <4>2. QED
        BY <1>5, <4>1 DEF ResponseStatus
    <3>4. outbox' = Append(<<>>, UpdaterReply(dev, inbox[1]))
      BY <1>2, <3>1 DEF Handle
    <3>5. outbox' # <<>> /\ outbox'[1] = UpdaterReply(dev, inbox[1])
      BY <3>4
    <3>6. Matches(outbox'[1])
      BY <3>1, <3>2, <3>3, <3>5 DEF UpdaterReply, Matches
    <3>7. QED
      BY <2>1, <2>3, <3>1, <3>2, <3>5, <3>6
  <2>6. Exact'
    BY <1>1, <1>3, <2>5 DEF Exact, Matches, CommandOf
  <2>7. QED
    BY <1>1, <1>3, <2>4, <2>6 DEF Intact, StreamNeverGarbled, NextChunk, Turns
<1>6. CASE ~(inbox[1].command = "TRANSFER" /\ dev.state = "UPDATING")
  <2>1. dev'.runningCrc \in {0, dev.runningCrc}
    BY <1>2, <1>6, HandlerStream
  <2>2. dev'.runningCrc # Garbled
    BY <1>4, <2>1 DEF Garbled
  <2>3. ~(handle /\ pc = "transfer")
    BY <1>2, <1>6, EmptyFacts DEF IndInv, LinkInv, TransferPhase, OnlyTransfers
  <2>4. QED
    BY <1>1, <1>3, <2>2, <2>3 DEF Intact, StreamNeverGarbled, NextChunk, Turns, Exact
<1>7. QED
  BY <1>5, <1>6

LEMMA IntactWrites ==
  ASSUME IndInv, Intact, WriteRequest \/ WriteReset
  PROVE  Intact'
<1>1. /\ handle /\ ~waiting /\ pc \in Exchanging \cup {"reset", "recover"}
      /\ dev' = dev /\ inbox' = Append(inbox, Frame)
  BY DEF WriteRequest, WriteReset, Writing, deviceVars
<1>2. inbox' # <<>> /\ inbox'[1] = Frame /\ StreamNeverGarbled' /\ NextChunk'
  BY <1>1, IntactWrite
<1>3. CASE WriteRequest
  <2>1. pc' = pc /\ waiting' /\ outbox' = <<>> /\ Frame' = Frame
    BY <1>3 DEF WriteRequest, Frame, CommandOf, DataOf
  <2>2. QED
    BY <1>2, <2>1 DEF Intact, Turns, Exact
<1>4. CASE WriteReset
  <2>1. ~handle'
    BY <1>4 DEF WriteReset, Close
  <2>2. QED
    BY <1>2, <2>1 DEF Intact, Turns, Exact
<1>5. QED
  BY <1>3, <1>4

LEMMA IntactEnvironment ==
  ASSUME FaultKinds \cap Ruinous = {}, IndInv, Intact,
         Gate \/ Poll \/ Kill \/ Restart \/ Enumerate \/ Replug \/ Unplug
           \/ LoseReply \/ NoiseReport \/ BreakPipe \/ UNCHANGED vars
           \/ \E r \in Request : Open(r)
  PROVE  Intact'
<1>1. ~LoseReply /\ ~NoiseReport
  BY DEF LoseReply, NoiseReport, Fault, Ruinous
<1>2. CASE \E r \in Request : Open(r)
  BY <1>2 DEF Open, deviceVars, Intact, StreamNeverGarbled, NextChunk, Turns, Exact
<1>3. CASE Restart \/ Unplug
  BY <1>3, IntactWithout DEF Restart, Unplug
<1>4. CASE ~handle' /\ dev' = dev /\ inbox' = inbox
  BY <1>4, IntactWithout
<1>5. CASE Gate /\ pc' = "select" /\ handle' = handle /\ waiting' = waiting
           /\ UNCHANGED <<linkVars, deviceVars>>
  BY <1>5 DEF linkVars, deviceVars, Intact, StreamNeverGarbled, NextChunk, Turns, Exact
<1>6. CASE UNCHANGED <<pc, waiting, seq, chunk, handle, linkVars, dev>>
  BY <1>6 DEF linkVars, Intact, StreamNeverGarbled, NextChunk, Turns, Exact, Frame,
     Matches, CommandOf, DataOf
<1>7. QED
  <2>1. CASE Gate \/ Kill
    BY <1>4, <1>5, <2>1 DEF Gate, Kill, Close, linkVars, deviceVars
  <2>2. CASE Poll
    BY <1>4, <1>6, <2>2 DEF Poll, Close, linkVars, deviceVars
  <2>3. CASE Enumerate \/ Replug \/ BreakPipe \/ UNCHANGED vars
    BY <1>6, <2>3 DEF Enumerate, Replug, BreakPipe, vars, hostVars, progressVars,
       linkVars, deviceVars
  <2>4. QED
    BY <1>1, <1>2, <1>3, <2>1, <2>2, <2>3

(***************************************************************************)
(* Only four kinds of fault can ruin a stream: a write that fails although *)
(* the mouse got it, a reply that is lost or late, and a report that       *)
(* answers nothing.  Without these no chunk is ever taken twice or out of  *)
(* place: not after lost writes and their retries, and not in a run that   *)
(* follows one that was killed, unplugged or cut off from its app          *)
(* (exchange and the retry loop of upgrade_firmware).                      *)
(***************************************************************************)
THEOREM OnlyFourFaultsRuin ==
  FaultKinds \cap Ruinous = {} => (Spec => []StreamNeverGarbled)
<1> SUFFICES ASSUME FaultKinds \cap Ruinous = {}
             PROVE  Spec => []StreamNeverGarbled
  OBVIOUS
<1>1. Init => Intact
  BY DEF Init, updater_init, Garbled, Intact, StreamNeverGarbled, NextChunk, Turns, Exact
<1>2. TransferInv /\ Intact /\ [Next]_vars => Intact'
  <2> SUFFICES ASSUME TransferInv, Intact, [Next]_vars PROVE Intact'
    OBVIOUS
  <2>1. CASE Raising
    BY <2>1, IntactRaising DEF TransferInv
  <2>2. CASE WriteRequest \/ WriteReset
    BY <2>2, IntactWrites DEF TransferInv
  <2>3. CASE ReadReply \/ Handle
    BY <2>3, IntactReadReply, IntactHandle DEF TransferInv
  <2>4. QED
    BY <2>1, <2>2, <2>3, IntactEnvironment
    DEF TransferInv, Raising, Next, HostStep, DeviceStep, FaultStep
<1>3. Intact => StreamNeverGarbled
  BY DEF Intact
<1>4. QED
  BY InitTransfer, NextTransfer, <1>1, <1>2, <1>3, PTL DEF Spec
-----------------------------------------------------------------------------
(***************************************************************************)
(* How long a run can be.  Writes: a chunk acknowledged brings all the     *)
(* attempts of the next one, which were counted for it already.            *)
(***************************************************************************)
LEMMA WritesAre ==
  ASSUME NEW c \in 1..ChunkCount, NEW a \in 0..MaxAttempts - 1
  PROVE  /\ WritesLeft(c, a) \in 1..ChunkCount * MaxAttempts
         /\ WritesLeft(c, a + 1) = WritesLeft(c, a) - 1
         /\ WritesLeft(c + 1, 0) \in 0..WritesLeft(c, a) - 1
<1> DEFINE k == ChunkCount - c
<1>1. /\ MaxAttempts \in Nat \ {0} /\ ChunkCount \in Nat \ {0} /\ k \in Nat
      /\ k + 1 =< ChunkCount
  BY SessionAssumption, ChunkCountAssumption
<1>2. /\ (ChunkCount - c + 1) * MaxAttempts = k * MaxAttempts + MaxAttempts
      /\ (ChunkCount - (c + 1) + 1) * MaxAttempts = k * MaxAttempts
  <2>1. ChunkCount - c + 1 = k + 1 /\ ChunkCount - (c + 1) + 1 = k
    BY <1>1
  <2> HIDE DEF k
  <2>2. (k + 1) * MaxAttempts = k * MaxAttempts + MaxAttempts
    BY <1>1
  <2> QED
    BY <2>1, <2>2
<1> HIDE DEF k
<1>3. (k + 1) * MaxAttempts = k * MaxAttempts + MaxAttempts
  BY <1>1
<1>4. (k + 1) * MaxAttempts =< ChunkCount * MaxAttempts
  BY <1>1
<1>5. k * MaxAttempts \in Nat /\ ChunkCount * MaxAttempts \in Nat
  BY <1>1
<1> DEFINE all == ChunkCount * MaxAttempts
           rest == k * MaxAttempts
<1>6. /\ WritesLeft(c, a) = rest + MaxAttempts - a
      /\ WritesLeft(c, a + 1) = rest + MaxAttempts - (a + 1)
      /\ WritesLeft(c + 1, 0) = rest
  BY <1>1, <1>2, <1>5 DEF WritesLeft
<1>7. rest \in Nat /\ all \in Nat /\ rest + MaxAttempts =< all
  BY <1>3, <1>4, <1>5
<1> HIDE DEF all, rest
<1>8. /\ WritesLeft(c, a) \in 1..all
      /\ WritesLeft(c, a + 1) = WritesLeft(c, a) - 1
      /\ WritesLeft(c + 1, 0) \in 0..WritesLeft(c, a) - 1
  BY <1>1, <1>6, <1>7
<1> QED
  BY <1>8 DEF all

\* What is left at each place of a run, with all the writes of a transfer.
AllWrites == ChunkCount * MaxAttempts
This(w) == IF w THEN 1 ELSE 2
Left(p, w, c, a, n) ==
  LET s == StepsFrom(p, w, c, a, n)
  IN /\ s \in 0..RunLength
     /\ p = "closed" => s = 0
     /\ p # "closed" => s >= 1
     /\ p = "recover" => s = 1
     /\ p \in InTry => s > 1
     /\ p = "verify" => s = MaxPolls - n
     /\ p = "reset" => s = MaxPolls + 1
     /\ p = "check" => s = MaxPolls + 1 + This(w)
     /\ p = "transfer" => s = MaxPolls + 1 + 2 * WritesLeft(c, a) + This(w)
     /\ p = "start" => s = MaxPolls + 3 + 2 * AllWrites + This(w)
     /\ p = "select" => s = MaxPolls + 5 + 2 * AllWrites + This(w)
     /\ p = "gate" => s = MaxPolls + 8 + 2 * AllWrites
     /\ p = "caps" => s = MaxPolls + 8 + 2 * AllWrites + This(w)
     /\ p = "ident" => s = MaxPolls + 10 + 2 * AllWrites + This(w)

LEMMA LeftIs ==
  ASSUME NEW p \in Phase, NEW w \in BOOLEAN, NEW c, NEW a \in 0..MaxAttempts - 1,
         NEW n \in 0..MaxPolls - 1, p = "transfer" => c \in 1..ChunkCount
  PROVE  Left(p, w, c, a, n)
<1> DEFINE s == StepsFrom(p, w, c, a, n)
<1>1. MaxPolls \in Nat \ {0} /\ AllWrites \in Nat /\ This(w) \in 1..2
  BY SessionAssumption, ChunkCountAssumption DEF AllWrites, This
<1>2. p = "transfer" => WritesLeft(c, a) \in 1..AllWrites
  BY WritesAre DEF AllWrites
<1>3. 2 * ChunkCount * MaxAttempts = 2 * AllWrites
  BY SessionAssumption, ChunkCountAssumption DEF AllWrites
<1>4. /\ p = "closed" => s = 0
      /\ p = "recover" => s = 1
      /\ p = "verify" => s = MaxPolls - n
      /\ p = "reset" => s = MaxPolls + 1
      /\ p = "check" => s = MaxPolls + 1 + This(w)
      /\ p = "transfer" => s = MaxPolls + 1 + 2 * WritesLeft(c, a) + This(w)
      /\ p = "start" => s = MaxPolls + 3 + 2 * AllWrites + This(w)
      /\ p = "select" => s = MaxPolls + 3 + 2 * AllWrites + 2 + This(w)
      /\ p = "gate" => s = MaxPolls + 3 + 2 * AllWrites + 5
      /\ p = "caps" => s = MaxPolls + 3 + 2 * AllWrites + 5 + This(w)
      /\ p = "ident" => s = MaxPolls + 3 + 2 * AllWrites + 7 + This(w)
  BY <1>3 DEF StepsFrom, This
<1>5. RunLength = MaxPolls + 12 + 2 * AllWrites
  BY <1>3 DEF RunLength
<1> HIDE DEF s
<1>6. /\ s \in 0..RunLength
      /\ p # "closed" => s >= 1
      /\ p \in InTry => s > 1
  BY <1>1, <1>2, <1>4, <1>5 DEF Phase, Exchanging, InTry
<1>7. /\ p = "select" => s = MaxPolls + 5 + 2 * AllWrites + This(w)
      /\ p = "gate" => s = MaxPolls + 8 + 2 * AllWrites
      /\ p = "caps" => s = MaxPolls + 8 + 2 * AllWrites + This(w)
      /\ p = "ident" => s = MaxPolls + 10 + 2 * AllWrites + This(w)
  BY <1>1, <1>4
<1> QED
  BY <1>4, <1>6, <1>7 DEF Left, s

\* Before and after a step.
LeftNow == Left(pc, waiting, chunk, attempt, polls)
LEMMA LeftBefore == ASSUME TypeInv PROVE LeftNow
<1>1. /\ pc \in Phase /\ waiting \in BOOLEAN /\ attempt \in 0..MaxAttempts - 1
      /\ polls \in 0..MaxPolls - 1 /\ (pc = "transfer" => chunk \in 1..ChunkCount)
  BY DEF TypeInv, TypeOK, HostTypeOK, LinkTypeOK, Chunk
<1> QED
  BY <1>1, LeftIs DEF LeftNow

LEMMA LeftAfter == ASSUME TypeInv' PROVE LeftNow'
<1>1. /\ pc' \in Phase /\ waiting' \in BOOLEAN /\ attempt' \in 0..MaxAttempts - 1
      /\ polls' \in 0..MaxPolls - 1 /\ (pc' = "transfer" => chunk' \in 1..ChunkCount)
  BY DEF TypeInv, TypeOK, HostTypeOK, LinkTypeOK, Chunk
<1> QED
  BY <1>1, LeftIs DEF LeftNow

Shorter == StepsLeft' < StepsLeft

LEMMA EndIsShorter ==
  ASSUME TypeInv, TypeInv', pc # "closed", pc' = "closed"
  PROVE  Shorter
BY LeftBefore, LeftAfter DEF LeftNow, Left, StepsLeft, Shorter

LEMMA RaiseIsShorter ==
  ASSUME TypeInv, TypeInv', Raise
  PROVE  Shorter
<1>1. CASE pc = "transfer" /\ pc' = pc /\ attempt' = attempt + 1
  <2>1. chunk' = chunk /\ waiting' = FALSE
    BY <1>1, RaiseOutcome DEF TypeInv, TypeOK, HostTypeOK
  <2>2. /\ chunk \in 1..ChunkCount /\ attempt \in 0..MaxAttempts - 1
        /\ waiting \in BOOLEAN /\ MaxPolls \in Nat
    BY <1>1, SessionAssumption DEF TypeInv, TypeOK, HostTypeOK, LinkTypeOK, Chunk
  <2>3. WritesLeft(chunk', attempt') = WritesLeft(chunk, attempt) - 1
    BY <1>1, <2>1, <2>2, WritesAre
  <2>4. WritesLeft(chunk, attempt) \in Nat
    <3>1. WritesLeft(chunk, attempt) \in 1..AllWrites
      BY <2>2, WritesAre DEF AllWrites
    <3> QED
      BY <3>1
  <2>5. /\ StepsLeft = MaxPolls + 1 + 2 * WritesLeft(chunk, attempt) + This(waiting)
        /\ StepsLeft' = MaxPolls + 1 + 2 * WritesLeft(chunk', attempt') + This(waiting')
    BY <1>1, LeftBefore, LeftAfter DEF LeftNow, Left, StepsLeft
  <2>6. This(waiting) \in 1..2 /\ This(waiting') = 2
    BY <2>1, <2>2 DEF This
  <2> QED
    BY <2>2, <2>3, <2>4, <2>5, <2>6 DEF Shorter
<1>2. CASE pc \in InTry /\ pc' = "recover"
  BY <1>2, LeftBefore, LeftAfter DEF LeftNow, Left, StepsLeft, Shorter
<1>3. CASE pc # "closed" /\ pc' = "closed"
  BY <1>3, EndIsShorter
<1>4. pc # "closed"
  BY DEF Raise, Retry, InTry
<1> QED
  BY <1>1, <1>2, <1>3, <1>4, RaiseOutcome

\* A written request is half of an exchange.
LEMMA WriteIsShorter ==
  ASSUME TypeInv, TypeInv', WriteRequest
  PROVE  Shorter
<1>1. pc \in Exchanging /\ pc' = pc /\ chunk' = chunk /\ attempt' = attempt
  BY DEF WriteRequest
<1>2. This(waiting) = 2 /\ This(waiting') = 1
  BY DEF WriteRequest, Writing, TypeInv, TypeOK, HostTypeOK, This
<1>3. MaxPolls \in Nat /\ AllWrites \in Nat
  BY SessionAssumption, ChunkCountAssumption DEF AllWrites
<1>4. pc = "transfer" => WritesLeft(chunk, attempt) \in 1..AllWrites
  BY WritesAre DEF TypeInv, TypeOK, HostTypeOK, LinkTypeOK, Chunk, AllWrites
<1>5. CASE pc = "transfer"
  BY <1>1, <1>2, <1>3, <1>4, <1>5, LeftBefore, LeftAfter DEF LeftNow, Left, StepsLeft, Shorter
<1>6. CASE pc \in Exchanging \ {"transfer"}
  BY <1>1, <1>2, <1>3, <1>6, LeftBefore, LeftAfter
  DEF LeftNow, Left, StepsLeft, Shorter, Exchanging
<1> QED
  BY <1>1, <1>5, <1>6

LEMMA ResetIsShorter ==
  ASSUME TypeInv, TypeInv', WriteReset
  PROVE  Shorter
<1>1. CASE pc = "reset" /\ pc' = "verify"
  <2>1. polls' \in 0..MaxPolls - 1 /\ MaxPolls \in Nat
    BY SessionAssumption DEF TypeInv, TypeOK, HostTypeOK
  <2> QED
    BY <1>1, <2>1, LeftBefore, LeftAfter DEF LeftNow, Left, StepsLeft, Shorter
<1>2. CASE pc = "recover" /\ pc' = "closed"
  BY <1>2, EndIsShorter
<1> QED
  BY <1>1, <1>2 DEF WriteReset, Close

LEMMA ReplyIsShorter ==
  ASSUME TypeInv, TypeInv', WaitingPhase, ReadReply
  PROVE  Shorter
<1>1. This(waiting) = 1 /\ This(waiting') = 2
  BY DEF ReadReply, Advance, ChunkAcknowledged, TypeInv, TypeOK, HostTypeOK, This
<1>2. MaxPolls \in Nat /\ AllWrites \in Nat
  BY SessionAssumption, ChunkCountAssumption DEF AllWrites
<1>3. CASE pc = "ident" /\ pc' = "caps"
  BY <1>1, <1>2, <1>3, LeftBefore, LeftAfter DEF LeftNow, Left, StepsLeft, Shorter
<1>4. CASE pc = "caps" /\ pc' = "gate"
  BY <1>1, <1>2, <1>4, LeftBefore, LeftAfter DEF LeftNow, Left, StepsLeft, Shorter
<1>5. CASE pc = "select" /\ pc' = "start"
  BY <1>1, <1>2, <1>5, LeftBefore, LeftAfter DEF LeftNow, Left, StepsLeft, Shorter
<1>6. CASE pc = "start" /\ pc' = "transfer"
  <2>1. chunk' \in 1..ChunkCount /\ attempt' \in 0..MaxAttempts - 1
    BY <1>6 DEF TypeInv, TypeOK, HostTypeOK, LinkTypeOK, Chunk
  <2>2. WritesLeft(chunk', attempt') \in 1..AllWrites
    BY <2>1, WritesAre DEF AllWrites
  <2> QED
    BY <1>1, <1>2, <1>6, <2>2, LeftBefore, LeftAfter DEF LeftNow, Left, StepsLeft, Shorter
<1>7. CASE ChunkAcknowledged
  <2>1. pc = "transfer" /\ chunk \in 1..ChunkCount /\ attempt \in 0..MaxAttempts - 1
    BY <1>7 DEF ChunkAcknowledged, TypeInv, TypeOK, HostTypeOK, LinkTypeOK, Chunk
  <2>2. /\ WritesLeft(chunk, attempt) \in 1..AllWrites
        /\ WritesLeft(chunk + 1, 0) \in 0..WritesLeft(chunk, attempt) - 1
    BY <2>1, WritesAre DEF AllWrites
  <2>3. StepsLeft = MaxPolls + 2 + 2 * WritesLeft(chunk, attempt)
    BY <1>1, <1>2, <2>1, <2>2, LeftBefore DEF LeftNow, Left, StepsLeft
  <2>4. CASE pc' = "transfer" /\ chunk' = chunk + 1 /\ attempt' = 0
    <3>1. StepsLeft' = MaxPolls + 1 + 2 * WritesLeft(chunk + 1, 0) + 2
      BY <1>1, <2>4, LeftAfter DEF LeftNow, Left, StepsLeft
    <3> QED
      BY <1>2, <2>2, <2>3, <3>1 DEF Shorter
  <2>5. CASE pc' = "check"
    <3>1. StepsLeft' = MaxPolls + 1 + 2
      BY <1>1, <2>5, LeftAfter DEF LeftNow, Left, StepsLeft
    <3> QED
      BY <1>2, <2>2, <2>3, <3>1 DEF Shorter
  <2>6. CASE pc' = "recover"
    BY <2>1, <2>6, LeftBefore, LeftAfter DEF LeftNow, Left, StepsLeft, Shorter, InTry
  <2> QED
    BY <1>7, <2>4, <2>5, <2>6 DEF ChunkAcknowledged, Advance
<1>8. CASE pc = "check" /\ pc' = "reset"
  BY <1>1, <1>2, <1>8, LeftBefore, LeftAfter DEF LeftNow, Left, StepsLeft, Shorter
<1> QED
  BY <1>3, <1>4, <1>5, <1>6, <1>7, <1>8 DEF ReadReply, Advance

LEMMA GateIsShorter ==
  ASSUME TypeInv, TypeInv', Gate
  PROVE  Shorter
<1>1. CASE pc = "gate" /\ pc' = "closed"
  BY <1>1, EndIsShorter
<1>2. CASE pc = "gate" /\ pc' = "select"
  <2>1. This(waiting') \in 1..2 /\ MaxPolls \in Nat /\ AllWrites \in Nat
    BY SessionAssumption, ChunkCountAssumption DEF AllWrites, This
  <2> QED
    BY <1>2, <2>1, LeftBefore, LeftAfter DEF LeftNow, Left, StepsLeft, Shorter
<1> QED
  BY <1>1, <1>2 DEF Gate, Close

LEMMA PollIsShorter ==
  ASSUME TypeInv, TypeInv', Poll
  PROVE  Shorter
<1>1. CASE pc = "verify" /\ pc' = "closed"
  BY <1>1, EndIsShorter
<1>2. CASE pc = "verify" /\ pc' = pc /\ polls' = polls + 1
  <2>1. polls \in 0..MaxPolls - 1 /\ MaxPolls \in Nat
    BY SessionAssumption DEF TypeInv, TypeOK, HostTypeOK
  <2> QED
    BY <1>2, <2>1, LeftBefore, LeftAfter DEF LeftNow, Left, StepsLeft, Shorter
<1> QED
  BY <1>1, <1>2 DEF Poll, Close

LEMMA ToolIsShorter ==
  ASSUME TypeInv, TypeInv', WaitingPhase, HostStep
  PROVE  Shorter
<1>1. CASE DeadHandle \/ Timeout \/ ReadWrongReply
  BY <1>1, RaiseIsShorter DEF DeadHandle, Timeout, ReadWrongReply
<1> QED
  BY <1>1, WriteIsShorter, ResetIsShorter, ReplyIsShorter, GateIsShorter, PollIsShorter
  DEF HostStep

\* A step of anything else leaves the run where it is, or shortens it.
LEMMA OthersKeep ==
  ASSUME TypeInv, TypeInv', DeviceStep \/ FaultStep \/ UNCHANGED vars
  PROVE  Shorter \/ StepsLeft' = StepsLeft
<1>1. CASE UNCHANGED progressVars
  BY <1>1 DEF progressVars, StepsLeft
<1>2. CASE WriteFails
  BY <1>2, RaiseIsShorter DEF WriteFails
<1>3. CASE Kill
  BY <1>3, EndIsShorter DEF Kill, Close
<1> QED
  BY <1>1, <1>2, <1>3 DEF DeviceStep, FaultStep, Handle, Restart, Enumerate, Unplug, Replug,
     LoseReply, NoiseReport, BreakPipe, vars, hostVars, progressVars

(***************************************************************************)
(* No run of the tool goes on for ever, whatever the faults and however    *)
(* many: each of its steps uses up one of RunLength, and nothing but a new *)
(* run gives it more (the retries, the two ways out and the verification   *)
(* loop of upgrade_firmware).                                              *)
(***************************************************************************)
THEOREM RunsAreBounded == Spec => RunIsBounded
<1>1. IndInv /\ IndInv' /\ [Next]_vars
        => [/\ StepsLeft \in 0..RunLength
            /\ HostStep => StepsLeft' < StepsLeft
            /\ StepsLeft' > StepsLeft => \E r \in Request : Open(r)]_vars
  <2> SUFFICES ASSUME IndInv, IndInv', Next
               PROVE  /\ StepsLeft \in 0..RunLength
                      /\ HostStep => StepsLeft' < StepsLeft
                      /\ StepsLeft' > StepsLeft => \E r \in Request : Open(r)
    OBVIOUS
  <2>1. TypeInv /\ TypeInv' /\ WaitingPhase
    BY DEF IndInv
  <2>2. StepsLeft \in 0..RunLength /\ StepsLeft' \in 0..RunLength
    BY <2>1, LeftBefore, LeftAfter DEF LeftNow, Left, StepsLeft
  <2>3. HostStep => StepsLeft' < StepsLeft
    BY <2>1, ToolIsShorter DEF Shorter
  <2>4. ASSUME StepsLeft' > StepsLeft PROVE \E r \in Request : Open(r)
    <3>1. StepsLeft \in Int /\ StepsLeft' \in Int
      BY <2>2
    <3>2. ~HostStep /\ ~DeviceStep /\ ~FaultStep
      BY <2>1, <2>3, <2>4, <3>1, OthersKeep DEF Shorter
    <3> QED
      BY <3>2 DEF Next
  <2> QED
    BY <2>2, <2>3, <2>4
<1> QED
  BY <1>1, InitInd, NextInd, PTL DEF Spec, RunIsBounded
=============================================================================
