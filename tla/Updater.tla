------------------------------ MODULE Updater ------------------------------
(***************************************************************************)
(* The mouse's side of the update protocol: g6he_updater_t and the request *)
(* handler g6he_updater_handle of g6he_protocol.c, as operators over a     *)
(* device record, so that every module that talks to a mouse uses the same *)
(* handler.                                                                *)
(*                                                                         *)
(* The image is cut into ChunkCount chunks, named by their position.  A    *)
(* CRC is abstracted to what the protocol compares it for: k in            *)
(* 0..ChunkCount is the CRC of the first k chunks in order, Garbled the    *)
(* CRC of every other stream (a repeated, missing or misplaced chunk).     *)
(* CRC-32 collisions are therefore outside the model.                      *)
(***************************************************************************)
EXTENDS Integers, Sequences

CONSTANT ChunkCount   \* ceil(len(image) / 16), the number of 0x64 requests

ASSUME ChunkCountAssumption == ChunkCount \in Nat \ {0}
-----------------------------------------------------------------------------
Chunk == 1..ChunkCount
Garbled == -1
Crc == 0..ChunkCount \cup {Garbled}
WholeImage == ChunkCount

\* Feeding one more chunk to a running CRC: only the next chunk in order keeps
\* the stream a prefix of the image, and nothing un-garbles it.
CrcUpdate(crc, c) == IF c = crc + 1 THEN c ELSE Garbled

UpdaterState == {"IDLE", "MODE_SELECTED", "UPDATING"}
Command == {"IDENTITY", "CAPABILITIES", "SELECT_MODE", "START",
            "TRANSFER", "CHECK_CRC", "RESET"}
Status == {"OK", "BAD_COMMAND", "BAD_PARAM", "CRC", "STATE"}

Device == [state : UpdaterState, runningCrc : Crc, resetRequested : BOOLEAN]

updater_init == [state |-> "IDLE", runningCrc |-> 0, resetRequested |-> FALSE]
-----------------------------------------------------------------------------
(***************************************************************************)
(* A request carries a command, the host's sequence number and the payload *)
(* after the command byte: <<mode>> for SELECT_MODE, <<chunk>> for         *)
(* TRANSFER, <<expected, actual>> for CHECK_CRC and nothing for the rest.  *)
(***************************************************************************)
\* Defects a handler could have, for the runs that show a property notices:
\* the stream is not compared; a reset is honoured only while updating.
ResponseStatus_TrustsHost(d, req) ==
  IF req.command = "TRANSFER" /\ d.state # "UPDATING" THEN "STATE" ELSE "OK"
ResponseStatus_ResetGuarded(d, req) ==
  CASE req.command = "RESET" -> IF d.state = "UPDATING" THEN "OK" ELSE "STATE"
    [] req.command = "TRANSFER" -> IF d.state = "UPDATING" THEN "OK" ELSE "STATE"
    [] req.command = "CHECK_CRC" ->
         IF req.data[2] = d.runningCrc THEN "OK" ELSE "CRC"
    [] OTHER -> "OK"

ResponseStatus(d, req) ==
  CASE req.command = "SELECT_MODE" ->
         IF Len(req.data) < 1 \/ req.data[1] # 0 THEN "BAD_PARAM" ELSE "OK"
    [] req.command = "TRANSFER" ->
         IF Len(req.data) < 1 THEN "BAD_PARAM"
         ELSE IF d.state # "UPDATING" THEN "STATE" ELSE "OK"
    [] req.command = "CHECK_CRC" ->
         IF Len(req.data) < 2 THEN "BAD_PARAM"
         ELSE IF req.data[1] = req.data[2] /\ req.data[2] = d.runningCrc
              THEN "OK" ELSE "CRC"
    [] req.command \in {"IDENTITY", "CAPABILITIES", "START", "RESET"} -> "OK"
    [] OTHER -> "BAD_COMMAND"

\* What the handler leaves behind.  START is accepted in every state, TRANSFER
\* appends whatever chunk it is given (the sequence number is only echoed), and
\* CHECK_CRC and the queries change nothing.
UpdaterAfter_KeepsCrc(d, req) ==  \* a defect: START does not reset the CRC
  IF ResponseStatus(d, req) # "OK" THEN d
  ELSE CASE req.command = "SELECT_MODE" -> [d EXCEPT !.state = "MODE_SELECTED"]
         [] req.command = "START" -> [d EXCEPT !.state = "UPDATING"]
         [] req.command = "TRANSFER" ->
              [d EXCEPT !.runningCrc = CrcUpdate(d.runningCrc, req.data[1])]
         [] req.command = "RESET" ->
              [d EXCEPT !.state = "IDLE", !.resetRequested = TRUE]
         [] OTHER -> d

UpdaterAfter(d, req) ==
  IF ResponseStatus(d, req) # "OK" THEN d
  ELSE CASE req.command = "SELECT_MODE" -> [d EXCEPT !.state = "MODE_SELECTED"]
         [] req.command = "START" ->
              [d EXCEPT !.state = "UPDATING", !.runningCrc = 0]
         [] req.command = "TRANSFER" ->
              [d EXCEPT !.runningCrc = CrcUpdate(d.runningCrc, req.data[1])]
         [] req.command = "RESET" ->
              [d EXCEPT !.state = "IDLE", !.resetRequested = TRUE]
         [] OTHER -> d

\* The reply echoes the request's command and sequence number.
UpdaterReply(d, req) ==
  [command |-> req.command, sequence |-> req.sequence,
   status |-> ResponseStatus(d, req)]
=============================================================================
