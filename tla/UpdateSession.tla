--------------------------- MODULE UpdateSession ---------------------------
(***************************************************************************)
(* upgrade_firmware of g6he_mac_tool.py against one mouse: the host's      *)
(* exchanges, the USB link between them, the mouse's updater (Updater.tla) *)
(* and the restart that follows a reset.  One run of the tool is an Open   *)
(* followed by host steps until pc is "closed"; the user may run it again. *)
(*                                                                         *)
(* The link is a FIFO in each direction.  The environment may lose, delay  *)
(* or precede a reply, fail a write before or after the mouse got it,      *)
(* unplug the cable, close the tool's stderr and kill the tool: the fault  *)
(* kinds in FaultKinds, at most MaxFaults of them in a behaviour.          *)
(***************************************************************************)
EXTENDS Updater

CONSTANTS
  MaxAttempts,   \* writes of one chunk: range(5)
  MaxSequence,   \* the largest sequence number: 0xFF
  MaxPolls,      \* post-restart queries: range(30)
  MaxFaults,     \* bound: faults in one behaviour
  MaxRuns,       \* bound: runs of the tool in one behaviour
  FaultKinds,    \* the faults the environment may commit
  OldVersion,    \* the version of the image the mouse runs at first
  NewVersion,    \* the version of the image file being written
  HashRecorded   \* _RUNNING_IMAGE_HASHES names the file for NewVersion

AllFaultKinds ==
  {"write_lost", "write_ambiguous", "reply_lost", "reply_late", "noise",
   "unplug", "broken_pipe", "kill", "slow_boot", "boot_reject"}

ASSUME SessionAssumption ==
  /\ MaxAttempts \in Nat \ {0}
  /\ MaxSequence \in Nat \ {0}
  /\ MaxPolls \in Nat \ {0}
  /\ MaxFaults \in Nat
  /\ MaxRuns \in Nat
  /\ FaultKinds \subseteq AllFaultKinds
  /\ OldVersion \in Nat
  /\ NewVersion \in Nat
  /\ HashRecorded \in BOOLEAN
-----------------------------------------------------------------------------
VARIABLES
  pc, waiting,        \* the exchange the tool is in; it wrote and now reads
  seq, chunk, attempt,
  updateModeEntered, sleepAssertion, polls,
  outcome, recovery,  \* what the run told the user
  request,            \* the options of the run and what validation finds
  openedOn,           \* the image the run's queries see
  handle,             \* the hid.Device the run opened is still alive
  inbox, outbox,      \* reports on their way to and from the mouse
  dev, running, usb,  \* the mouse: its updater, its image, its attachment
  stderrOpen, faults, runs

progressVars == <<pc, waiting, seq, chunk, attempt, updateModeEntered,
                  sleepAssertion, polls>>
hostVars == <<progressVars, handle>>
reportVars == <<outcome, recovery>>
runVars == <<request, openedOn, runs>>
linkVars == <<inbox, outbox>>
deviceVars == <<dev, running, usb>>
vars == <<hostVars, reportVars, runVars, linkVars, deviceVars, stderrOpen, faults>>

Exchanging == {"ident", "caps", "select", "start", "transfer", "check"}
InTry == {"select", "start", "transfer", "check", "reset"}
Phase == Exchanging \cup {"closed", "gate", "reset", "recover", "verify"}

Outcome == {"none", "ready", "already_current", "refused", "error",
            "interrupted", "unverified", "upgraded_and_verified", "killed"}
Recovery == {"none", "not_entered", "sent", "failed"}
Image == {"old", "new"}
Usb == {"attached", "restarting", "unplugged"}
Request == [dryRun : BOOLEAN, valid : BOOLEAN,
            allowVersionChange : BOOLEAN, confirmed : BOOLEAN]

present == usb = "attached"
VersionOf(image) == IF image = "old" THEN OldVersion ELSE NewVersion
_next_sequence_NoWrap(s) == s + 1  \* a defect: the wrap to 1 is forgotten
_next_sequence(s) == IF s = MaxSequence THEN 1 ELSE s + 1

CommandOf(p) ==
  CASE p = "ident" -> "IDENTITY"     [] p = "caps" -> "CAPABILITIES"
    [] p = "select" -> "SELECT_MODE" [] p = "start" -> "START"
    [] p = "transfer" -> "TRANSFER"  [] p = "check" -> "CHECK_CRC"
    [] OTHER -> "RESET"

\* The payload after the command byte.  Before "check" the host compares its
\* own running CRC with the file's; both are over the bytes it read at the
\* start, so they agree and CHECK_CRC carries the same value twice.
DataOf(p) ==
  CASE p = "select" -> <<0>> [] p = "transfer" -> <<chunk>>
    [] p = "check" -> <<WholeImage, WholeImage>> [] OTHER -> <<>>

Frame == [command |-> CommandOf(pc), sequence |-> seq, data |-> DataOf(pc)]
Noise == [command |-> "NONE", sequence |-> 0, status |-> "OK"]
-----------------------------------------------------------------------------
Init ==
  /\ pc = "closed" /\ waiting = FALSE /\ seq = 1 /\ chunk = 1 /\ attempt = 0
  /\ updateModeEntered = FALSE /\ sleepAssertion = FALSE /\ polls = 0
  /\ outcome = "none" /\ recovery = "none"
  /\ request = [dryRun |-> TRUE, valid |-> TRUE,
                allowVersionChange |-> FALSE, confirmed |-> FALSE]
  /\ openedOn = "old" /\ handle = FALSE /\ inbox = <<>> /\ outbox = <<>>
  /\ dev = updater_init /\ running = "old" /\ usb = "attached"
  /\ stderrOpen = TRUE /\ faults = 0 /\ runs = 0

Fault(kind) == /\ kind \in FaultKinds /\ faults < MaxFaults
               /\ faults' = faults + 1

\* A run starts: the file is inspected, the interface found and opened.  The
\* mouse has by then dealt with every report delivered to it earlier (a new
\* process needs much longer than a report), and a new handle reads no old one.
Open(r) ==
  /\ pc = "closed" /\ runs < MaxRuns /\ present /\ inbox = <<>>
  /\ pc' = "ident" /\ waiting' = FALSE /\ seq' = 1 /\ chunk' = 1 /\ attempt' = 0
  /\ updateModeEntered' = FALSE /\ sleepAssertion' = FALSE /\ polls' = 0
  /\ outcome' = "none" /\ recovery' = "none"
  /\ request' = r /\ openedOn' = running /\ runs' = runs + 1
  /\ handle' = TRUE /\ outbox' = <<>> /\ stderrOpen' = TRUE
  /\ UNCHANGED <<inbox, deviceVars, faults>>

\* The run ends and tells the user so; the assertion of _prevent_system_sleep
\* never outlives the process, and leaving the function closes the handle.
Close(o, rec) ==
  /\ pc' = "closed" /\ waiting' = FALSE /\ sleepAssertion' = FALSE
  /\ handle' = FALSE
  /\ outcome' = o /\ recovery' = rec
  /\ UNCHANGED <<seq, chunk, attempt, updateModeEntered, polls>>
-----------------------------------------------------------------------------
(***************************************************************************)
(* An exception leaves the exchange.  Before the try block it ends the     *)
(* run; on a chunk it is retried with the same sequence number while       *)
(* attempts remain; anywhere else in the try block the sleep assertion is  *)
(* released as its with block is left, and only then does the handler      *)
(* decide whether to send a reset.                                         *)
(***************************************************************************)
Retry_SkipsChunk ==  \* a defect: a failed chunk is counted as sent
  /\ pc = "transfer" /\ attempt + 1 < MaxAttempts /\ chunk < ChunkCount
  /\ attempt' = attempt + 1 /\ waiting' = FALSE /\ chunk' = chunk + 1
  /\ UNCHANGED <<pc, seq, updateModeEntered, sleepAssertion, polls, handle,
                 reportVars>>
Retry_Forever ==  \* a defect: attempts are not counted
  /\ pc = "transfer" /\ waiting' = FALSE
  /\ UNCHANGED <<pc, seq, chunk, attempt, updateModeEntered, sleepAssertion,
                 polls, handle, reportVars>>
Retry ==
  /\ pc = "transfer" /\ attempt + 1 < MaxAttempts
  /\ attempt' = attempt + 1 /\ waiting' = FALSE
  /\ UNCHANGED <<pc, seq, chunk, updateModeEntered, sleepAssertion, polls,
                 handle, reportVars>>

EnterRecovery ==
  /\ updateModeEntered
  /\ pc' = "recover" /\ waiting' = FALSE /\ sleepAssertion' = FALSE
  /\ UNCHANGED <<seq, chunk, attempt, updateModeEntered, polls, handle,
                 reportVars>>

Abandon ==
  \/ EnterRecovery
  \/ ~updateModeEntered /\ Close("interrupted", "not_entered")

Raise_NoRetry ==  \* a defect: an exception on a chunk bypasses the retries
  \/ pc \in {"ident", "caps"} /\ Close("error", "none")
  \/ pc \in InTry /\ Abandon
  \/ pc = "recover" /\ Close("interrupted", "failed")
Raise ==
  \/ pc \in {"ident", "caps"} /\ Close("error", "none")
  \/ Retry
  \/ pc = "transfer" /\ attempt + 1 = MaxAttempts /\ Abandon
  \/ pc \in InTry \ {"transfer"} /\ Abandon
  \/ pc = "recover" /\ Close("interrupted", "failed")

Writing == pc \in Exchanging \cup {"reset", "recover"} /\ ~waiting

\* exchange: drop the reports that queued up, then write the frame.
WriteRequest ==
  /\ Writing /\ handle /\ pc \in Exchanging
  /\ inbox' = Append(inbox, Frame) /\ outbox' = <<>>
  /\ waiting' = TRUE
  /\ UNCHANGED <<pc, seq, chunk, attempt, updateModeEntered, sleepAssertion,
                 polls, reportVars, runVars, handle, deviceVars, stderrOpen, faults>>

\* 0x66 expects no response.  The regular one clears update_mode_entered and
\* leaves both with blocks; the one in the handler only words the error.
WriteReset ==
  /\ Writing /\ handle
  /\ inbox' = Append(inbox, Frame) /\ outbox' = <<>>
  /\ \/ /\ pc = "reset"
        /\ pc' = "verify" /\ updateModeEntered' = FALSE /\ sleepAssertion' = FALSE
        /\ handle' = FALSE
        /\ UNCHANGED <<waiting, seq, chunk, attempt, polls, reportVars>>
     \/ pc = "recover" /\ Close("interrupted", "sent")
  /\ UNCHANGED <<runVars, deviceVars, stderrOpen, faults>>

\* The write raises or is short: the mouse may have the report or not.
WriteFails ==
  /\ Writing /\ handle /\ outbox' = <<>>
  /\ \/ Fault("write_lost") /\ inbox' = inbox
     \/ Fault("write_ambiguous") /\ inbox' = Append(inbox, Frame)
  /\ Raise
  /\ UNCHANGED <<runVars, deviceVars, stderrOpen>>

\* The handle died with the cable or with the mouse's restart.
DeadHandle ==
  /\ pc \in Exchanging \cup {"reset", "recover"} /\ ~handle
  /\ Raise
  /\ UNCHANGED <<runVars, linkVars, deviceVars, stderrOpen, faults>>

\* _read_response times out: nothing can arrive, or the mouse is slow.
Timeout ==
  /\ waiting /\ handle /\ outbox = <<>>
  /\ \/ inbox = <<>> /\ UNCHANGED faults
     \/ inbox # <<>> /\ Fault("reply_late")
  /\ Raise
  /\ UNCHANGED <<runVars, linkVars, deviceVars, stderrOpen>>
-----------------------------------------------------------------------------
Matches_AnyStatus(reply) ==  \* a defect: rejections are not noticed
  reply.command = CommandOf(pc) /\ reply.sequence = seq
Matches(reply) == /\ reply.command = CommandOf(pc)
                  /\ reply.sequence = seq
                  /\ reply.status = "OK"

\* The report read first is not the answer: another command's, an older
\* sequence number's, a rejection, or not a response at all.
ReadWrongReply ==
  /\ waiting /\ handle /\ outbox # <<>> /\ ~Matches(Head(outbox))
  /\ outbox' = Tail(outbox)
  /\ Raise
  /\ UNCHANGED <<runVars, inbox, deviceVars, stderrOpen, faults>>

Advance(next) ==
  /\ pc' = next /\ waiting' = FALSE /\ seq' = _next_sequence(seq)
  /\ UNCHANGED <<polls, handle, reportVars>>

\* A chunk is acknowledged: count it, then print progress (not for each
\* chunk, but always for the last), which raises when stderr is gone.
ChunkAcknowledged ==
  /\ pc = "transfer"
  /\ \/ /\ stderrOpen \/ chunk < ChunkCount
        /\ Advance(IF chunk < ChunkCount THEN "transfer" ELSE "check")
        /\ chunk' = chunk + 1 /\ attempt' = 0
        /\ UNCHANGED <<updateModeEntered, sleepAssertion>>
     \/ /\ ~stderrOpen
        /\ pc' = "recover" /\ waiting' = FALSE /\ sleepAssertion' = FALSE
        /\ seq' = _next_sequence(seq)
        /\ UNCHANGED <<chunk, attempt, updateModeEntered, polls, handle,
                       reportVars>>

ReadReply ==
  /\ waiting /\ handle /\ outbox # <<>> /\ Matches(Head(outbox))
  /\ outbox' = Tail(outbox)
  /\ \/ /\ pc = "ident" /\ Advance("caps")
        /\ UNCHANGED <<chunk, attempt, updateModeEntered, sleepAssertion>>
     \/ /\ pc = "caps" /\ Advance("gate")
        /\ UNCHANGED <<chunk, attempt, updateModeEntered, sleepAssertion>>
     \/ /\ pc = "select" /\ Advance("start")
        /\ updateModeEntered' = TRUE
        /\ UNCHANGED <<chunk, attempt, sleepAssertion>>
     \/ /\ pc = "start" /\ Advance("transfer")
        /\ UNCHANGED <<chunk, attempt, updateModeEntered, sleepAssertion>>
     \/ ChunkAcknowledged
     \/ /\ pc = "check" /\ Advance("reset")
        /\ UNCHANGED <<chunk, attempt, updateModeEntered, sleepAssertion>>
  /\ UNCHANGED <<runVars, inbox, deviceVars, stderrOpen, faults>>
-----------------------------------------------------------------------------
(***************************************************************************)
(* The decisions between the queries and the first update command, on the  *)
(* version and model the mouse reported when it was queried.               *)
(***************************************************************************)
_version_order ==
  IF NewVersion > VersionOf(openedOn) THEN "newer"
  ELSE IF NewVersion = VersionOf(openedOn) THEN "same" ELSE "older"

AlreadyCurrent == _version_order = "same" /\ HashRecorded

Refused_AnyVersion == ~request.confirmed  \* a defect: the version gate is lost
Refused ==
  \/ _version_order # "newer" /\ ~request.allowVersionChange
  \/ ~request.confirmed

Gate ==
  /\ pc = "gate"
  /\ \/ ~request.valid /\ Close("error", "none")
     \/ request.valid /\ AlreadyCurrent /\ Close("already_current", "none")
     \/ /\ request.valid /\ ~AlreadyCurrent
        /\ \/ request.dryRun /\ Close("ready", "none")
           \/ ~request.dryRun /\ Refused /\ Close("refused", "none")
           \/ /\ ~request.dryRun /\ ~Refused
              /\ \/ ~stderrOpen /\ Close("error", "none")
                 \/ /\ stderrOpen /\ pc' = "select" /\ sleepAssertion' = TRUE
                    /\ UNCHANGED <<waiting, seq, chunk, attempt, polls, handle,
                                   updateModeEntered, reportVars>>
  /\ UNCHANGED <<runVars, linkVars, deviceVars, stderrOpen, faults>>

\* One pass of the verification loop: query the mouse on a fresh handle and
\* compare its version string with the image's.  The loop outlasts the restart
\* (15 seconds) unless that is slow.
Settled == \/ usb = "unplugged"
           \/ usb = "attached" /\ inbox = <<>> /\ ~dev.resetRequested
PollFinds == present /\ inbox = <<>> /\ VersionOf(running) = NewVersion

Poll ==
  /\ pc = "verify"
  /\ \/ PollFinds /\ Close("upgraded_and_verified", "none") /\ UNCHANGED faults
     \/ /\ polls + 1 < MaxPolls /\ polls' = polls + 1
        /\ IF PollFinds THEN Fault("reply_lost") ELSE UNCHANGED faults
        /\ UNCHANGED <<pc, waiting, seq, chunk, attempt, updateModeEntered,
                       sleepAssertion, handle, reportVars>>
     \/ /\ polls + 1 = MaxPolls /\ Close("unverified", "none")
        /\ IF PollFinds THEN Fault("reply_lost")
           ELSE IF Settled THEN UNCHANGED faults ELSE Fault("slow_boot")
  /\ UNCHANGED <<runVars, linkVars, deviceVars, stderrOpen>>
-----------------------------------------------------------------------------
\* The mouse handles the next report delivered to it.
Handle ==
  /\ present /\ inbox # <<>>
  /\ dev' = UpdaterAfter(dev, Head(inbox))
  /\ inbox' = Tail(inbox)
  /\ outbox' = IF handle THEN Append(outbox, UpdaterReply(dev, Head(inbox)))
               ELSE outbox
  /\ UNCHANGED <<hostVars, reportVars, runVars, running, usb, stderrOpen, faults>>

\* External: the reset takes the mouse off the bus.  Its bootloader starts the
\* image it received when that is complete and signed, else the one it had.
Restart ==
  /\ present /\ dev.resetRequested
  /\ usb' = "restarting" /\ handle' = FALSE /\ inbox' = <<>> /\ outbox' = <<>>
  /\ dev' = updater_init
  /\ \/ /\ running' = IF dev.runningCrc = WholeImage THEN "new" ELSE running
        /\ UNCHANGED faults
     \/ /\ dev.runningCrc = WholeImage /\ Fault("boot_reject")
        /\ UNCHANGED running
  /\ UNCHANGED <<progressVars, reportVars, runVars, stderrOpen>>

Enumerate ==
  /\ usb = "restarting" /\ usb' = "attached"
  /\ UNCHANGED <<hostVars, reportVars, runVars, linkVars, dev, running,
                 stderrOpen, faults>>

Replug ==
  /\ usb = "unplugged" /\ usb' = "attached"
  /\ UNCHANGED <<hostVars, reportVars, runVars, linkVars, dev, running,
                 stderrOpen, faults>>
-----------------------------------------------------------------------------
\* The cable comes out.  The mouse keeps its state on battery or loses it.
Unplug ==
  /\ present /\ Fault("unplug")
  /\ usb' = "unplugged" /\ handle' = FALSE /\ inbox' = <<>> /\ outbox' = <<>>
  /\ dev' \in {dev, updater_init}
  /\ UNCHANGED <<progressVars, reportVars, runVars, running, stderrOpen>>

LoseReply ==
  /\ outbox # <<>> /\ Fault("reply_lost")
  /\ outbox' = Tail(outbox)
  /\ UNCHANGED <<hostVars, reportVars, runVars, inbox, deviceVars, stderrOpen>>

\* An input report that answers nothing arrives after the drain.
NoiseReport ==
  /\ waiting /\ handle /\ Fault("noise")
  /\ outbox' = Append(outbox, Noise)
  /\ UNCHANGED <<hostVars, reportVars, runVars, inbox, deviceVars, stderrOpen>>

\* The app that reads the tool's stderr has quit.
BreakPipe ==
  /\ pc # "closed" /\ stderrOpen /\ Fault("broken_pipe")
  /\ stderrOpen' = FALSE
  /\ UNCHANGED <<hostVars, reportVars, runVars, linkVars, deviceVars>>

\* SIGKILL, or a KeyboardInterrupt, which "except Exception" does not catch.
Kill ==
  /\ pc # "closed" /\ Fault("kill")
  /\ Close("killed", "none")
  /\ UNCHANGED <<runVars, linkVars, deviceVars, stderrOpen>>
-----------------------------------------------------------------------------
HostStep ==
  \/ WriteRequest \/ WriteReset \/ DeadHandle
  \/ Timeout \/ ReadWrongReply \/ ReadReply \/ Gate \/ Poll
DeviceStep == Handle \/ Restart \/ Enumerate
FaultStep == \/ WriteFails \/ Unplug \/ Replug \/ LoseReply
             \/ NoiseReport \/ BreakPipe \/ Kill

Next == HostStep \/ DeviceStep \/ FaultStep \/ \E r \in Request : Open(r)

Spec == Init /\ [][Next]_vars

\* The tool and the mouse keep running; the user and the faults owe nothing.
FairSpec == Spec /\ WF_vars(HostStep) /\ WF_vars(Handle)
                 /\ WF_vars(Restart) /\ WF_vars(Enumerate)
-----------------------------------------------------------------------------
HostTypeOK ==
  /\ pc \in Phase /\ waiting \in BOOLEAN /\ seq \in 1..MaxSequence
  /\ chunk \in 1..(ChunkCount + 1) /\ attempt \in 0..(MaxAttempts - 1)
  /\ updateModeEntered \in BOOLEAN /\ sleepAssertion \in BOOLEAN
  /\ polls \in 0..(MaxPolls - 1) /\ handle \in BOOLEAN
  /\ outcome \in Outcome /\ recovery \in Recovery

TypeOK ==
  /\ HostTypeOK
  /\ request \in Request /\ openedOn \in Image /\ runs \in 0..MaxRuns
  /\ dev \in Device /\ running \in Image /\ usb \in Usb
  /\ stderrOpen \in BOOLEAN /\ faults \in 0..MaxFaults

(***************************************************************************)
(* When the tool is about to send the reset that makes an update take      *)
(* effect, the mouse holds the image itself: nothing retried, repeated,    *)
(* lost or answered late has reached the reset (the 0x65 check of          *)
(* upgrade_firmware and G6HE_CMD_CHECK_CRC, together with the FIFO link).  *)
(***************************************************************************)
AcceptedStreamIsImage ==
  pc = "reset" /\ handle => dev.state = "UPDATING" /\ dev.runningCrc = WholeImage

(***************************************************************************)
(* The mouse is never more than the unacknowledged chunk ahead of the      *)
(* tool, and never behind it, unless its stream is already beyond repair.  *)
(***************************************************************************)
Lockstep ==
  pc \in {"transfer", "check"} /\ handle =>
     \/ dev.runningCrc \in {chunk - 1, Garbled}
     \/ dev.runningCrc = chunk /\ (waiting \/ attempt > 0)

(***************************************************************************)
(* Nothing changes the mouse's updater but a restart, an unplugging, or a  *)
(* report of a run the user confirmed for this model and, unless the image *)
(* sorts above the version the run saw, for the version change.            *)
(***************************************************************************)
Permitted ==
  /\ request.valid /\ request.confirmed /\ ~request.dryRun
  /\ request.allowVersionChange \/ NewVersion > VersionOf(openedOn)

OnlyConsentedWrites ==
  [][present /\ present' /\ dev' # dev => Permitted]_vars

(***************************************************************************)
(* The transfer is the abstract one of ChunkTransfer.tla: the queues, the  *)
(* sequence numbers, the retries and the noise are invisible in it.        *)
(***************************************************************************)
Transferring == handle /\ pc \in {"transfer", "check", "reset"}
Transfer == INSTANCE ChunkTransfer WITH
  acked <- IF ~Transferring THEN 0 ELSE IF pc = "transfer" THEN chunk - 1 ELSE ChunkCount,
  stream <- IF Transferring THEN dev.runningCrc ELSE 0,
  accepted <- Transferring /\ pc = "reset"
ImplementsChunkTransfer == Transfer!Spec
-----------------------------------------------------------------------------
(***************************************************************************)
(* However reports are lost, late or wrong and writes fail, a run takes    *)
(* RunLength steps of the tool at most: each of them uses one up, and only *)
(* a new run brings more.  (the attempts of upgrade_firmware, which start  *)
(* anew with each chunk, its two ways out and its verification loop)       *)
(***************************************************************************)
WritesLeft(c, a) == (ChunkCount - c + 1) * MaxAttempts - a
StepsFrom(p, w, c, a, n) ==
  LET this == IF w THEN 1 ELSE 2
      transfer == MaxPolls + 3 + 2 * ChunkCount * MaxAttempts
  IN CASE p = "closed" -> 0
       [] p = "recover" -> 1
       [] p = "verify" -> MaxPolls - n
       [] p = "reset" -> MaxPolls + 1
       [] p = "check" -> MaxPolls + 1 + this
       [] p = "transfer" -> MaxPolls + 1 + 2 * WritesLeft(c, a) + this
       [] p = "start" -> transfer + this
       [] p = "select" -> transfer + 2 + this
       [] p = "gate" -> transfer + 5
       [] p = "caps" -> transfer + 5 + this
       [] p = "ident" -> transfer + 7 + this
StepsLeft == StepsFrom(pc, waiting, chunk, attempt, polls)
RunLength == MaxPolls + 12 + 2 * ChunkCount * MaxAttempts
RunIsBounded ==
  [][/\ StepsLeft \in 0..RunLength
     /\ HostStep => StepsLeft' < StepsLeft
     /\ StepsLeft' > StepsLeft => \E r \in Request : Open(r)]_vars

(***************************************************************************)
(* Liveness.  Every run ends: no retry, drain or poll loop is unbounded.   *)
(***************************************************************************)
RunTerminates == (pc # "closed") ~> (pc = "closed")

(***************************************************************************)
(* A run that reports "a best-effort reset command was sent" has done it:  *)
(* the mouse leaves update mode, unless its cable is pulled first.         *)
(***************************************************************************)
ResetSentSettles ==
  (recovery = "sent" /\ inbox # <<>>) ~> (dev.state = "IDLE" \/ usb = "unplugged")

(***************************************************************************)
(* A properly requested run that meets no fault succeeds, whatever state   *)
(* the runs before it (killed, unplugged, interrupted) left the mouse in,  *)
(* provided no restart is still pending when it opens.                     *)
(***************************************************************************)
GoodRunSucceeds ==
  ( /\ pc = "ident" /\ handle /\ ~dev.resetRequested /\ stderrOpen
    /\ seq = 1 /\ ~waiting /\ faults = MaxFaults
    /\ request.valid /\ request.confirmed
    /\ ~request.dryRun /\ request.allowVersionChange )
  ~> (outcome \in {"upgraded_and_verified", "already_current"})

(***************************************************************************)
(* Writes that fail before the mouse got the report do not hurt a transfer *)
(* while fewer of them than attempts occur (the run of this property       *)
(* allows no other fault): every chunk arrives once and the mouse agrees,  *)
(* unless a restart an earlier run asked for comes in between.            *)
(***************************************************************************)
StreamNeverGarbled == dev.runningCrc # Garbled
TransferSurvivesLostWrites ==
  (pc = "transfer" /\ handle /\ ~dev.resetRequested) ~> (pc = "check")
-----------------------------------------------------------------------------
(***************************************************************************)
(* What the code's texts say of a run, which its runs refute (README.md).  *)
(* "update mode was not entered": the mouse, having dealt with everything  *)
(* sent to it, is not left in update mode (upgrade_firmware).              *)
(***************************************************************************)
NotEnteredLeavesIdle ==
  outcome = "interrupted" /\ recovery = "not_entered" /\ present /\ inbox = <<>>
    => dev.state = "IDLE"

(***************************************************************************)
(* The sleep assertion is held until reset or recovery completes (F-004 of *)
(* bug_risk_audit.md; _prevent_system_sleep).                              *)
(***************************************************************************)
AwakeThroughRecovery == updateModeEntered /\ pc # "closed" => sleepAssertion

(***************************************************************************)
(* Success is declared only after the mouse has restarted with the image   *)
(* it was sent ("Reacquires the selected model after USB re-enumeration    *)
(* before declaring success", release-notes-v1.1.0.md).                    *)
(***************************************************************************)
SuccessAfterRestart == outcome = "upgraded_and_verified" => ~dev.resetRequested
=============================================================================
