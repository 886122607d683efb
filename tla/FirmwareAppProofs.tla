------------------------- MODULE FirmwareAppProofs -------------------------
(***************************************************************************)
(* Proofs about FirmwareApp for any number of ports, mice, files, images   *)
(* and mishaps.  The argument: a command line is written once, when the    *)
(* app starts the tool; while the app is busy nothing can change what it   *)
(* was derived from, because every control is disabled and no dialog is    *)
(* open; and the tool decides on what it reads itself.                     *)
(***************************************************************************)
EXTENDS FirmwareApp, WellFoundedInduction, TLAPS

\* What the app remembers of the tool it waits for.
JobInv ==
  /\ job.command # "none" => busy \/ dialog \in {"confirm", "launch_error"}
  /\ job.command \in {"check", "write"} => job.device \in Port
  /\ job.command \in {"inspect", "check", "write"} =>
       job.file \in File /\ job.file = firmwareURL
  /\ dialog = "confirm" => job.command = "check"

ToolInv ==
  /\ tool.stage \in {"read", "writing", "verify"} =>
       tool.image \in Image /\ job.command \in {"check", "write"}
  /\ tool.stage \in {"writing", "verify"} => job.command = "write"
  /\ tool.status = "ready" => tool.image \in Image

\* The command line of a write says what the alert said, and a tool that has
\* passed the gate writes to a mouse the alert allows.
ConsentInv ==
  /\ job.command = "write" =>
       job.confirm = alert.model /\ job.allowVersionChange = alert.reorder
  /\ job.command = "write" /\ tool.stage \in {"started", "read", "writing"} =>
       consent = "given"
  /\ tool.stage = "writing" /\ tool.mouse # NoMouse =>
       /\ ModelOf[tool.mouse] = alert.model
       /\ \/ alert.reorder
          \/ VersionOf[tool.image] > VersionOf[running[tool.mouse]]

IndInv == /\ TypeOK /\ BusyIffTool /\ ControlsFresh
          /\ JobInv /\ ToolInv /\ ConsentInv
-----------------------------------------------------------------------------
(***************************************************************************)
(* The operators the app is built from.                                    *)
(***************************************************************************)
\* A non-empty set of ports has a first one, so refreshDevices selects a port.
LEMMA FirstPort ==
  ASSUME NEW S, S \subseteq Port, S # {}
  PROVE  Min(S) \in S
<1>1. S \subseteq Nat
  BY AppAssumption DEF Port
<1> DEFINE Less == {ss \in Nat \X Nat : ss[1] < ss[2]}
<1>2. IsWellFoundedOn(Less, Nat)
  <2>1. OpToRel(<, Nat) = Less
    BY DEF OpToRel
  <2> QED
    BY <2>1, NatLessThanWellFounded, Zenon
<1>3. PICK x \in S : \A y \in S : <<y, x>> \notin Less
  <2> HIDE DEF Less
  <2> QED
    BY <1>1, <1>2, WFMin
<1>4. ASSUME NEW y \in S PROVE x =< y
  <2>1. x \in Nat /\ y \in Nat
    BY <1>1
  <2>2. ~(y < x)
    BY <1>3, <2>1
  <2> QED
    BY <2>1, <2>2
<1> QED
  BY <1>4 DEF Min

LEMMA SelectionType ==
  ASSUME NEW devs \in Listing
  PROVE  FirstListed(devs) \in Port \cup {0}
  BY FirstPort DEF FirstListed

LEMMA ControlsType ==
  ASSUME NEW b, NEW devs, NEW selected, NEW url
  PROVE  updateControls(b, devs, selected, url) \in SUBSET Control
  BY DEF updateControls

\* An enabled control can be clicked only while no tool is out, and "upgrade"
\* only with a device and a file.
LEMMA EnabledControl ==
  ASSUME NEW b, NEW devs, NEW selected, NEW url,
         NEW c \in updateControls(b, devs, selected, url)
  PROVE  /\ ~b
         /\ c \in {"probe", "upgrade"} => selected \in Port
         /\ c = "upgrade" => url # NoFile
  BY DEF updateControls, Usable

LEMMA Records ==
  /\ NoJob \in Job /\ NoJob.command = "none"
  /\ NoTool \in Tool /\ NoTool.stage = "none" /\ NoTool.status = "none"
  /\ NoAlert \in Alert
<1>1. NothingListed \in Listing
  BY DEF NothingListed, Listing
<1> QED
  BY <1>1 DEF NoJob, JobOf, Job, NoTool, Tool, NoAlert, Alert

LEMMA Started ==
  LET t == [NoTool EXCEPT !.stage = "started"]
  IN t \in Tool /\ t.stage = "started" /\ t.status = "none"
  BY Records DEF NoTool, Tool

LEMMA JobFields ==
  ASSUME NEW c \in {"devices", "probe", "inspect", "check", "write"},
         NEW p \in Port \cup {0}, NEW f \in File \cup {NoFile}
  PROVE  LET j == JobOf(c, p, f)
         IN j \in Job /\ j.command = c /\ j.device = p /\ j.file = f
  BY DEF JobOf, Job

LEMMA MishapType ==
  ASSUME mishaps \in 0..MaxMishaps, Mishap
  PROVE  mishaps' \in 0..MaxMishaps
  BY AppAssumption DEF Mishap

\* What runTool leaves, whichever of its two ends it comes to.
LEMMA RunToolResult ==
  ASSUME NEW j \in Job, NEW ctl, RunTool(j, ctl), mishaps \in 0..MaxMishaps,
         ctl = updateControls(FALSE, devices', selectedDevice', firmwareURL')
  PROVE  /\ busy' \in BOOLEAN /\ tool' \in Tool /\ job' \in Job
         /\ dialog' \in {"none", "error"} /\ enabled' \in SUBSET Control
         /\ mishaps' \in 0..MaxMishaps
         /\ BusyIffTool' /\ ControlsFresh'
         /\ tool'.stage \in {"none", "started"} /\ tool'.status = "none"
         /\ \/ busy' /\ job' = j
            \/ ~busy' /\ job' = NoJob /\ tool' = NoTool
<1>1. CASE busy' = TRUE /\ job' = j /\ tool' = [NoTool EXCEPT !.stage = "started"]
           /\ enabled' = updateControls(TRUE, devices', selectedDevice', firmwareURL')
           /\ dialog' = "none" /\ mishaps' = mishaps
  BY <1>1, Started, ControlsType DEF BusyIffTool, ControlsFresh
<1>2. CASE Mishap /\ busy' = FALSE /\ job' = NoJob /\ tool' = NoTool /\ enabled' = ctl
           /\ dialog' = "error"
  BY <1>2, Records, ControlsType, MishapType DEF BusyIffTool, ControlsFresh
<1> QED
  BY <1>1, <1>2 DEF RunTool

\* What setBusy:NO leaves.
LEMMA IdleResult ==
  ASSUME setBusy_NO
  PROVE  /\ busy' \in BOOLEAN /\ tool' \in Tool /\ enabled' \in SUBSET Control
         /\ BusyIffTool' /\ ControlsFresh'
         /\ ~busy' /\ tool' = NoTool
  BY Records, ControlsType DEF setBusy_NO, BusyIffTool, ControlsFresh
-----------------------------------------------------------------------------
LEMMA InitOK == Init => IndInv
<1> SUFFICES ASSUME Init PROVE IndInv
  OBVIOUS
<1>1. job \in Job /\ job.command = "devices"
  <2>1. LET j == JobOf("devices", 0, NoFile)
        IN j \in Job /\ j.command = "devices"
    BY JobFields
  <2> QED
    BY <2>1 DEF Init
<1>2. tool \in Tool /\ tool.stage = "started" /\ tool.status = "none"
  BY Started DEF Init
<1>3. devices \in Listing
  BY DEF Init, NothingListed, Listing
<1>4. running \in [Mouse -> Image]
  BY AppAssumption DEF Init
<1>5. TypeOK
  BY <1>1, <1>2, <1>3, <1>4, AppAssumption, Records
  DEF Init, TypeOK, Dialog, Consent, Told
<1>6. BusyIffTool /\ JobInv /\ ToolInv /\ ConsentInv
  BY <1>1, <1>2 DEF Init, BusyIffTool, JobInv, ToolInv, ConsentInv
<1>7. ControlsFresh
  BY DEF Init, ControlsFresh, updateControls
<1> QED
  BY <1>5, <1>6, <1>7 DEF IndInv

LEMMA Stutter ==
  ASSUME IndInv, UNCHANGED vars
  PROVE  IndInv'
  BY DEF IndInv, vars, appVars, windowVars, answerVars, worldVars, TypeOK,
     BusyIffTool, ControlsFresh, updateControls, Usable, JobInv, ToolInv, ConsentInv
-----------------------------------------------------------------------------
(***************************************************************************)
(* The two ways a step of the app ends: with runTool or with setBusy:NO.   *)
(***************************************************************************)
LEMMA StartKeeps ==
  ASSUME IndInv, NEW j \in Job, NEW ctl, RunTool(j, ctl),
         ctl = updateControls(FALSE, devices', selectedDevice', firmwareURL'),
         appOpen' \in BOOLEAN, devices' \in Listing,
         selectedDevice' \in Port \cup {0}, firmwareURL' \in File \cup {NoFile},
         alert' \in Alert, consent' \in Consent, told' \in Told,
         UNCHANGED worldVars,
         j.command \in {"check", "write"} => j.device \in Port,
         j.command \in {"inspect", "check", "write"} =>
           j.file \in File /\ j.file = firmwareURL',
         j.command = "write" /\ busy' =>
           /\ j.confirm = alert'.model /\ j.allowVersionChange = alert'.reorder
           /\ consent' = "given"
  PROVE  IndInv'
<1> USE DEF IndInv
<1>1. mishaps \in 0..MaxMishaps
  BY DEF TypeOK
<1>2. /\ busy' \in BOOLEAN /\ tool' \in Tool /\ job' \in Job
      /\ dialog' \in {"none", "error"} /\ enabled' \in SUBSET Control
      /\ mishaps' \in 0..MaxMishaps
      /\ BusyIffTool' /\ ControlsFresh'
      /\ tool'.stage \in {"none", "started"} /\ tool'.status = "none"
      /\ \/ busy' /\ job' = j
         \/ ~busy' /\ job' = NoJob /\ tool' = NoTool
  BY <1>1, RunToolResult
<1>3. TypeOK'
  BY <1>2 DEF TypeOK, Dialog, worldVars
<1>4. JobInv' /\ ToolInv' /\ ConsentInv'
  BY <1>2, Records DEF JobInv, ToolInv, ConsentInv
<1> QED
  BY <1>2, <1>3, <1>4

LEMMA IdleKeeps ==
  ASSUME IndInv, setBusy_NO,
         appOpen' \in BOOLEAN, devices' \in Listing,
         selectedDevice' \in Port \cup {0}, firmwareURL' \in File \cup {NoFile},
         dialog' \in Dialog,
         alert' \in Alert, consent' \in Consent, told' \in Told,
         mishaps' \in 0..MaxMishaps, UNCHANGED worldVars,
         \/ job' = NoJob /\ dialog' # "confirm"
         \/ /\ UNCHANGED <<job, firmwareURL>>
            /\ dialog' \in {"confirm", "launch_error"}
            /\ dialog' = "confirm" => job.command = "check"
            /\ job.command = "write" => UNCHANGED alert
  PROVE  IndInv'
<1> USE DEF IndInv
<1>1. /\ busy' \in BOOLEAN /\ tool' \in Tool /\ enabled' \in SUBSET Control
      /\ BusyIffTool' /\ ControlsFresh'
      /\ ~busy' /\ tool' = NoTool
  BY IdleResult
<1>2. job' \in Job
  BY Records DEF TypeOK
<1>3. TypeOK'
  BY <1>1, <1>2 DEF TypeOK, worldVars
<1>4. JobInv' /\ ToolInv' /\ ConsentInv'
  BY <1>1, Records DEF JobInv, ToolInv, ConsentInv
<1> QED
  BY <1>1, <1>3, <1>4
-----------------------------------------------------------------------------
(***************************************************************************)
(* The user.                                                               *)
(***************************************************************************)
\* A click finds the app idle, with no tool and no command line.
LEMMA ClickFindsIdle ==
  ASSUME IndInv, NEW c \in Control, Click(c)
  PROVE  /\ busy = FALSE /\ tool.stage = "none" /\ job.command = "none"
         /\ enabled = updateControls(FALSE, devices, selectedDevice, firmwareURL)
         /\ c \in {"probe", "upgrade"} => selectedDevice \in Port
         /\ c = "upgrade" => firmwareURL # NoFile
<1> USE DEF IndInv
<1>1. c \in updateControls(busy, devices, selectedDevice, firmwareURL)
  BY DEF Click, ControlsFresh
<1>2. /\ ~busy
      /\ c \in {"probe", "upgrade"} => selectedDevice \in Port
      /\ c = "upgrade" => firmwareURL # NoFile
  BY <1>1, EnabledControl
<1>3. busy = FALSE
  BY <1>2 DEF TypeOK
<1>4. tool.stage = "none"
  BY <1>2 DEF BusyIffTool
<1>5. job.command = "none"
  BY <1>2 DEF JobInv, Click
<1> QED
  BY <1>2, <1>3, <1>4, <1>5 DEF ControlsFresh

LEMMA RefreshDevicesKeeps ==
  ASSUME IndInv, refreshDevices
  PROVE  IndInv'
<1> DEFINE j == JobOf("devices", 0, NoFile)
<1>1. j \in Job /\ j.command = "devices"
  BY JobFields
<1>2. enabled = updateControls(FALSE, devices', selectedDevice', firmwareURL')
  BY ClickFindsIdle DEF refreshDevices, Control
<1>3. RunTool(j, enabled)
  BY DEF refreshDevices
<1> HIDE DEF j
<1> QED
  BY <1>1, <1>2, <1>3, StartKeeps DEF refreshDevices, IndInv, TypeOK, answerVars

LEMMA ProbeDeviceKeeps ==
  ASSUME IndInv, probeDevice
  PROVE  IndInv'
<1> DEFINE j == JobOf("probe", selectedDevice, NoFile)
<1>1. j \in Job /\ j.command = "probe"
  BY JobFields DEF IndInv, TypeOK
<1>2. enabled = updateControls(FALSE, devices', selectedDevice', firmwareURL')
  BY ClickFindsIdle DEF probeDevice, Control
<1>3. RunTool(j, enabled)
  BY DEF probeDevice
<1> HIDE DEF j
<1> QED
  BY <1>1, <1>2, <1>3, StartKeeps DEF probeDevice, IndInv, TypeOK, answerVars

LEMMA BeginUpgradeKeeps ==
  ASSUME IndInv, beginUpgrade
  PROVE  IndInv'
<1> DEFINE j == JobOf("check", selectedDevice, firmwareURL)
<1>1. selectedDevice \in Port /\ firmwareURL \in File
  BY ClickFindsIdle DEF beginUpgrade, Control, IndInv, TypeOK
<1>2. j \in Job /\ j.command = "check" /\ j.device \in Port
      /\ j.file \in File /\ j.file = firmwareURL'
  BY <1>1, JobFields DEF beginUpgrade
<1>3. enabled = updateControls(FALSE, devices', selectedDevice', firmwareURL')
  BY ClickFindsIdle DEF beginUpgrade, Control
<1>4. RunTool(j, enabled)
  BY DEF beginUpgrade
<1> HIDE DEF j
<1> QED
  BY <1>2, <1>3, <1>4, StartKeeps DEF beginUpgrade, IndInv, TypeOK, answerVars

LEMMA OpenPanelKeeps ==
  ASSUME IndInv, NEW f \in File, openPanelOK(f)
  PROVE  IndInv'
<1> DEFINE j == JobOf("inspect", 0, f)
           ctl == updateControls(busy, devices, selectedDevice, f)
<1>1. j \in Job /\ j.command = "inspect" /\ j.file = f
  BY JobFields
<1>2. busy = FALSE
  BY DEF openPanelOK, IndInv, BusyIffTool, TypeOK
<1>3. ctl = updateControls(FALSE, devices', selectedDevice', firmwareURL')
  BY <1>2 DEF openPanelOK
<1>4. RunTool(j, ctl)
  BY DEF openPanelOK
<1> HIDE DEF j, ctl
<1> QED
  BY <1>1, <1>3, <1>4, StartKeeps DEF openPanelOK, IndInv, TypeOK, answerVars

LEMMA WriteJobFields ==
  ASSUME IndInv, dialog = "confirm"
  PROVE  /\ WriteJob \in Job /\ WriteJob.command = "write"
         /\ WriteJob.device \in Port
         /\ WriteJob.file \in File /\ WriteJob.file = firmwareURL
         /\ WriteJob.confirm = alert.model
         /\ WriteJob.allowVersionChange = alert.reorder
<1>1. job.device \in Port /\ firmwareURL \in File
  BY DEF IndInv, JobInv
<1>2. alert.model \in Model \cup {NoModel} /\ alert.reorder \in BOOLEAN
  BY DEF IndInv, TypeOK, Alert
<1> QED
  BY <1>1, <1>2 DEF WriteJob, JobOf, Job

LEMMA ConfirmWriteKeeps ==
  ASSUME IndInv, confirmWrite
  PROVE  IndInv'
<1>1. busy = FALSE
  BY DEF confirmWrite, IndInv, BusyIffTool, TypeOK
<1>2. enabled = updateControls(FALSE, devices', selectedDevice', firmwareURL')
  BY <1>1 DEF confirmWrite, IndInv, ControlsFresh
<1>3. consent' \in Consent /\ told' \in Told /\ (busy' => consent' = "given")
  BY DEF confirmWrite, Consent, Told
<1> QED
  BY <1>2, <1>3, WriteJobFields, StartKeeps DEF confirmWrite, IndInv, TypeOK

\* The steps of the user that start no tool.
LEMMA SelectionKeeps ==
  ASSUME IndInv, NEW p \in Port, deviceSelectionChanged(p)
  PROVE  IndInv'
<1>1. job.command = "none" /\ tool.stage = "none"
  BY ClickFindsIdle DEF deviceSelectionChanged, Control
<1> QED
  BY <1>1, ControlsType
  DEF deviceSelectionChanged, IndInv, TypeOK, BusyIffTool, ControlsFresh, JobInv,
      ToolInv, ConsentInv, answerVars, worldVars

LEMMA ChooseFirmwareKeeps ==
  ASSUME IndInv, chooseFirmware
  PROVE  IndInv'
<1>1. job.command = "none" /\ tool.stage = "none" /\ busy = FALSE
  BY ClickFindsIdle DEF chooseFirmware, Control
<1> QED
  BY <1>1
  DEF chooseFirmware, IndInv, TypeOK, BusyIffTool, ControlsFresh, JobInv, ToolInv,
      ConsentInv, windowVars, answerVars, worldVars, Dialog

LEMMA DismissKeeps ==
  ASSUME IndInv, dismissDialog
  PROVE  IndInv'
<1>1. ~busy /\ tool.stage = "none"
  BY DEF dismissDialog, IndInv, BusyIffTool
<1> QED
  BY <1>1, Records
  DEF dismissDialog, IndInv, TypeOK, BusyIffTool, ControlsFresh, JobInv, ToolInv,
      ConsentInv, windowVars, worldVars, Dialog, Consent

LEMMA CloseWindowKeeps ==
  ASSUME IndInv, closeWindow
  PROVE  IndInv'
  BY DEF closeWindow, IndInv, TypeOK, BusyIffTool, ControlsFresh, JobInv, ToolInv,
     ConsentInv, windowVars, answerVars, worldVars
-----------------------------------------------------------------------------
(***************************************************************************)
(* The completion blocks.                                                  *)
(***************************************************************************)
LEMMA CompleteDevicesKeeps ==
  ASSUME IndInv, completeDevices, UNCHANGED <<appOpen, worldVars>>
  PROVE  IndInv'
<1>1. devices' \in Listing
  BY DEF completeDevices, IndInv, TypeOK, Tool, NothingListed, Listing
<1>2. selectedDevice' \in Port \cup {0}
  BY <1>1, SelectionType DEF completeDevices
<1> QED
  BY <1>1, <1>2, IdleKeeps
  DEF completeDevices, IndInv, TypeOK, answerVars, Dialog

LEMMA CompleteProbeKeeps ==
  ASSUME IndInv, completeProbe, UNCHANGED <<appOpen, worldVars>>
  PROVE  IndInv'
  BY IdleKeeps DEF completeProbe, IndInv, TypeOK, answerVars, Dialog

LEMMA CompleteInspectKeeps ==
  ASSUME IndInv, completeInspect, UNCHANGED <<appOpen, worldVars>>
  PROVE  IndInv'
<1>1. firmwareURL' \in File \cup {NoFile}
  BY DEF completeInspect, IndInv, TypeOK
<1> QED
  BY <1>1, IdleKeeps DEF completeInspect, IndInv, TypeOK, answerVars, Dialog

LEMMA CompleteCheckKeeps ==
  ASSUME IndInv, job.command = "check", completeCheck,
         UNCHANGED <<appOpen, worldVars>>
  PROVE  IndInv'
<1>1. CASE tool.ok /\ tool.status = "ready"
  <2>1. tool.image \in Image
    BY <1>1 DEF IndInv, ToolInv
  <2>2. VersionOf[tool.image] \in Nat
    BY <2>1, AppAssumption
  <2>3. tool.model \in Model \cup {NoModel} /\ tool.reorder \in BOOLEAN
    BY DEF IndInv, TypeOK, Tool
  <2>4. alert' \in Alert
    BY <1>1, <2>2, <2>3 DEF completeCheck, Alert
  <2> QED
    BY <1>1, <2>4, IdleKeeps
    DEF completeCheck, IndInv, TypeOK, Dialog, Consent
<1>2. CASE ~(tool.ok /\ tool.status = "ready")
  BY <1>2, IdleKeeps DEF completeCheck, IndInv, TypeOK, Dialog
<1> QED
  BY <1>1, <1>2

LEMMA CompleteWriteKeeps ==
  ASSUME IndInv, completeWrite, UNCHANGED <<appOpen, worldVars>>
  PROVE  IndInv'
<1> DEFINE j == JobOf("devices", 0, NoFile)
           ctl == updateControls(FALSE, devices, selectedDevice, firmwareURL)
<1>1. j \in Job /\ j.command = "devices"
  BY JobFields
<1>2. ctl = updateControls(FALSE, devices', selectedDevice', firmwareURL')
  BY DEF completeWrite
<1>3. CASE tool.ok
  <2>1. RunTool(j, ctl) /\ told' = "success" /\ consent' = "none"
    BY <1>3 DEF completeWrite
  <2> HIDE DEF j, ctl
  <2> QED
    BY <1>1, <1>2, <2>1, StartKeeps
    DEF completeWrite, IndInv, TypeOK, Told, Consent
<1>4. CASE ~tool.ok
  BY <1>4, IdleKeeps
  DEF completeWrite, writeFailed, IndInv, TypeOK, Dialog, Told, Consent
<1> QED
  BY <1>3, <1>4

LEMMA CompleteKeeps ==
  ASSUME IndInv, complete
  PROVE  IndInv'
  BY CompleteDevicesKeeps, CompleteProbeKeeps, CompleteInspectKeeps,
     CompleteCheckKeeps, CompleteWriteKeeps DEF complete

LEMMA LaunchFailedKeeps ==
  ASSUME IndInv, launchFailed
  PROVE  IndInv'
<1>1. mishaps' \in 0..MaxMishaps
  BY MishapType DEF launchFailed, IndInv, TypeOK
<1>2. told' \in Told
  BY DEF launchFailed, IndInv, TypeOK, Told
<1> QED
  BY <1>1, <1>2, IdleKeeps DEF launchFailed, IndInv, TypeOK, Dialog
-----------------------------------------------------------------------------
(***************************************************************************)
(* The tool.  A step that ends it leaves a tool that is out, with nothing  *)
(* the app acts on but a listing or a report.                              *)
(***************************************************************************)
LEMMA ToolKeeps ==
  ASSUME IndInv, UNCHANGED <<appVars, worldVars>>, mishaps' \in 0..MaxMishaps,
         tool.stage # "none", tool' \in Tool, tool'.stage \in {"exited", "read"},
         tool'.stage = "read" =>
           tool.stage = "started" /\ job.command \in {"check", "write"},
         tool'.stage = "read" \/ tool'.status = "ready" => tool'.image \in Image
  PROVE  IndInv'
  BY DEF IndInv, TypeOK, BusyIffTool, ControlsFresh, JobInv, ToolInv, ConsentInv,
     appVars, windowVars, answerVars, worldVars

LEMMA Ends ==
  ASSUME NEW t \in Tool
  PROVE  /\ [t EXCEPT !.stage = "exited", !.ok = FALSE] \in Tool
         /\ [t EXCEPT !.stage = "exited", !.ok = FALSE].stage = "exited"
         /\ [t EXCEPT !.stage = "exited", !.ok = FALSE].status = t.status
         /\ [t EXCEPT !.stage = "exited", !.ok = FALSE].image = t.image
         /\ [t EXCEPT !.stage = "exited", !.ok = TRUE] \in Tool
         /\ [t EXCEPT !.stage = "exited", !.ok = TRUE].stage = "exited"
         /\ [t EXCEPT !.stage = "exited", !.ok = TRUE].status = t.status
         /\ [t EXCEPT !.stage = "exited", !.ok = TRUE].image = t.image
  BY DEF Tool

LEMMA FailKeeps ==
  ASSUME IndInv, Fail, tool.stage # "none", UNCHANGED <<appVars, worldVars>>,
         mishaps' \in 0..MaxMishaps
  PROVE  IndInv'
<1>1. tool \in Tool /\ (tool.status = "ready" => tool.image \in Image)
  BY DEF IndInv, TypeOK, ToolInv
<1>2. tool' \in Tool /\ tool'.stage = "exited" /\ tool'.status = tool.status
      /\ tool'.image = tool.image
  BY <1>1, Ends DEF Fail
<1> QED
  BY <1>1, <1>2, ToolKeeps

LEMMA ExitKeeps ==
  ASSUME IndInv, NEW t \in Tool, Exit(t), tool.stage # "none",
         t.status = "ready" => t.image \in Image,
         UNCHANGED <<appVars, worldVars>>, mishaps' \in 0..MaxMishaps
  PROVE  IndInv'
<1>1. tool' \in Tool /\ tool'.stage = "exited" /\ tool'.status = t.status
      /\ tool'.image = t.image
  BY Ends DEF Exit
<1> QED
  BY <1>1, ToolKeeps

LEMMA DiscoverKeeps ==
  ASSUME IndInv, discover_devices
  PROVE  IndInv'
<1>1. tool \in Tool /\ mishaps \in 0..MaxMishaps
      /\ (tool.status = "ready" => tool.image \in Image)
  BY DEF IndInv, TypeOK, ToolInv
<1>2. ASSUME NEW l \in Listing, Exit([tool EXCEPT !.listing = l]),
             mishaps' \in 0..MaxMishaps
      PROVE  IndInv'
  <2> DEFINE t == [tool EXCEPT !.listing = l]
  <2>1. t \in Tool /\ (t.status = "ready" => t.image \in Image)
    BY <1>1 DEF Tool
  <2>2. Exit(t)
    BY <1>2
  <2> HIDE DEF t
  <2> QED
    BY <1>2, <2>1, <2>2, ExitKeeps DEF discover_devices
<1>3. [p \in Port |-> Probed(p)] \in Listing
  BY DEF Probed, Listing
<1>4. \A p : [q \in Port |-> IF q = p THEN "unusable" ELSE Probed(q)] \in Listing
  BY DEF Probed, Listing
<1> QED
  BY <1>1, <1>2, <1>3, <1>4, MishapType DEF discover_devices

LEMMA QueryDeviceKeeps ==
  ASSUME IndInv, query_device
  PROVE  IndInv'
  BY ExitKeeps, FailKeeps DEF query_device, IndInv, TypeOK, ToolInv

LEMMA InspectKeeps ==
  ASSUME IndInv, inspect_firmware
  PROVE  IndInv'
<1>1. tool \in Tool /\ content[job.file] \in Image
      /\ (tool.status = "ready" => tool.image \in Image)
  BY DEF inspect_firmware, IndInv, TypeOK, JobInv, ToolInv
<1>2. CASE Fail \/ Exit(tool)
  BY <1>1, <1>2, ExitKeeps, FailKeeps DEF inspect_firmware, IndInv, TypeOK
<1>3. CASE /\ tool' = [tool EXCEPT !.stage = "read", !.image = content[job.file]]
           /\ job.command # "inspect"
  <2>1. tool' \in Tool /\ tool'.stage = "read" /\ tool'.image \in Image
    BY <1>1, <1>3 DEF Tool
  <2> QED
    BY <1>3, <2>1, ToolKeeps DEF inspect_firmware, IndInv, TypeOK
<1> QED
  BY <1>2, <1>3 DEF inspect_firmware

LEMMA GateKeeps ==
  ASSUME IndInv, upgrade_gate
  PROVE  IndInv'
<1> DEFINE u == plugged[job.device]
           newer == VersionOf[tool.image] > VersionOf[running[u]]
           report == [tool EXCEPT !.model = ModelOf[u], !.reorder = ~newer]
<1>1. /\ tool \in Tool /\ tool.image \in Image /\ job.command \in {"check", "write"}
      /\ mishaps \in 0..MaxMishaps
  BY DEF upgrade_gate, IndInv, TypeOK, ToolInv
<1>2. CASE job.device \notin Attached
  BY <1>1, <1>2, FailKeeps DEF upgrade_gate
<1>3. CASE job.device \in Attached
  <2>1. u \in Mouse /\ ModelOf[u] \in Model
    BY <1>3, AppAssumption DEF Attached, IndInv, TypeOK
  <2>2. CASE Fail
    BY <1>1, <2>2, FailKeeps DEF upgrade_gate
  <2>3. ASSUME NEW s \in {"already_current", "ready"}, Exit([report EXCEPT !.status = s])
        PROVE  IndInv'
    <3> DEFINE t == [report EXCEPT !.status = s]
    <3>1. report \in Tool /\ report.image = tool.image
      BY <1>1, <2>1 DEF Tool
    <3> HIDE DEF report
    <3>2. t \in Tool /\ t.image = tool.image
      BY <3>1 DEF Tool
    <3>3. Exit(t)
      BY <2>3
    <3> HIDE DEF t
    <3> QED
      BY <1>1, <3>2, <3>3, ExitKeeps DEF upgrade_gate
  <2>4. CASE /\ job.command # "check" /\ ~WriteRefused(u, newer)
             /\ tool' = [tool EXCEPT !.stage = "writing", !.mouse = u]
    <3>1. /\ tool' \in Tool /\ tool'.stage = "writing" /\ tool'.mouse = u
          /\ tool'.image = tool.image /\ tool'.status = tool.status
      BY <1>1, <2>1, <2>4 DEF Tool
    <3>2. job.command = "write"
      BY <1>1, <2>4
    <3>3. TypeOK' /\ BusyIffTool' /\ ControlsFresh' /\ JobInv' /\ ToolInv'
      BY <1>1, <3>1, <3>2
      DEF upgrade_gate, IndInv, TypeOK, BusyIffTool, ControlsFresh, JobInv, ToolInv,
          appVars, windowVars, answerVars, worldVars
    <3>4. /\ ModelOf[u] = alert.model
          /\ alert.reorder \/ VersionOf[tool.image] > VersionOf[running[u]]
      BY <2>4, <3>2 DEF WriteRefused, IndInv, ConsentInv
    <3>5. consent = "given"
      BY <3>2 DEF upgrade_gate, IndInv, ConsentInv
    <3>6. ConsentInv'
      BY <3>1, <3>4, <3>5
      DEF upgrade_gate, IndInv, ConsentInv, appVars, windowVars, answerVars, worldVars
    <3> QED
      BY <3>3, <3>6 DEF IndInv
  <2> QED
    BY <1>3, <2>2, <2>3, <2>4 DEF upgrade_gate, Gate
<1> QED
  BY <1>2, <1>3

LEMMA TransferKeeps ==
  ASSUME IndInv, upgrade_transfer
  PROVE  IndInv'
<1>1. /\ tool \in Tool /\ tool.image \in Image /\ job.command = "write"
      /\ tool.stage = "writing" /\ mishaps \in 0..MaxMishaps
  BY DEF upgrade_transfer, IndInv, TypeOK, ToolInv
<1>2. CASE Fail /\ UNCHANGED <<consent, running, plugged, mishaps>>
  BY <1>1, <1>2, FailKeeps
  DEF upgrade_transfer, appVars, windowVars, answerVars, worldVars
<1>3. ASSUME tool' = [tool EXCEPT !.stage = "verify"],
             running' \in [Mouse -> Image],
             plugged' \in [Port -> Mouse \cup {NoMouse}],
             consent' \in Consent, mishaps' \in 0..MaxMishaps
      PROVE  IndInv'
  <2>1. /\ tool' \in Tool /\ tool'.stage = "verify"
        /\ tool'.image = tool.image /\ tool'.status = tool.status
    BY <1>1, <1>3 DEF Tool
  <2> QED
    BY <1>1, <1>3, <2>1
    DEF upgrade_transfer, IndInv, TypeOK, BusyIffTool, ControlsFresh, JobInv,
        ToolInv, ConsentInv, windowVars
<1>4. CASE /\ tool.mouse # NoMouse
           /\ tool' = [tool EXCEPT !.stage = "verify"]
           /\ running' = [running EXCEPT ![tool.mouse] = tool.image]
           /\ consent' = "written"
           /\ \/ UNCHANGED <<plugged, mishaps>>
              \/ \E p \in Attached, q \in Port \ Attached :
                   /\ plugged[p] = tool.mouse /\ Mishap
                   /\ plugged' = [plugged EXCEPT ![p] = NoMouse,
                                                 ![q] = tool.mouse]
  <2>1. tool.mouse \in Mouse
    BY <1>1, <1>4 DEF Tool
  <2>2. running' \in [Mouse -> Image]
    BY <1>1, <1>4 DEF IndInv, TypeOK
  <2>3. plugged' \in [Port -> Mouse \cup {NoMouse}] /\ mishaps' \in 0..MaxMishaps
    BY <1>1, <1>4, <2>1, MishapType DEF IndInv, TypeOK, Attached
  <2> QED
    BY <1>3, <1>4, <2>2, <2>3 DEF Consent
<1>5. CASE /\ Mishap /\ tool' = [tool EXCEPT !.stage = "verify"]
           /\ UNCHANGED <<consent, running, plugged>>
  BY <1>1, <1>3, <1>5, MishapType DEF IndInv, TypeOK
<1> QED
  BY <1>2, <1>4, <1>5 DEF upgrade_transfer

LEMMA VerifyKeeps ==
  ASSUME IndInv, upgrade_verify
  PROVE  IndInv'
<1>1. tool \in Tool /\ tool.image \in Image /\ mishaps \in 0..MaxMishaps
  BY DEF upgrade_verify, IndInv, TypeOK, ToolInv
<1>2. CASE Fail
  BY <1>1, <1>2, FailKeeps DEF upgrade_verify
<1>3. CASE Exit([tool EXCEPT !.status = "upgraded_and_verified"])
  <2> DEFINE t == [tool EXCEPT !.status = "upgraded_and_verified"]
  <2>1. t \in Tool /\ t.image \in Image
    BY <1>1 DEF Tool
  <2>2. Exit(t)
    BY <1>3
  <2> HIDE DEF t
  <2> QED
    BY <1>1, <2>1, <2>2, ExitKeeps DEF upgrade_verify
<1> QED
  BY <1>2, <1>3 DEF upgrade_verify

LEMMA ToolFailsKeeps ==
  ASSUME IndInv, toolFails
  PROVE  IndInv'
  BY FailKeeps, MishapType DEF toolFails, IndInv, TypeOK

LEMMA ToolStepKeeps ==
  ASSUME IndInv, ToolStep
  PROVE  IndInv'
  BY DiscoverKeeps, QueryDeviceKeeps, InspectKeeps, GateKeeps, TransferKeeps,
     VerifyKeeps DEF ToolStep
-----------------------------------------------------------------------------
LEMMA UnplugKeeps ==
  ASSUME IndInv, NEW p \in Port, Unplug(p)
  PROVE  IndInv'
<1>1. tool \in Tool /\ mishaps' \in 0..MaxMishaps
  BY MishapType DEF Unplug, IndInv, TypeOK
<1>2. /\ tool' \in Tool /\ tool'.stage = tool.stage /\ tool'.image = tool.image
      /\ tool'.status = tool.status
      /\ tool'.mouse \in {tool.mouse, NoMouse}
  BY <1>1 DEF Unplug, Tool
<1>3. plugged' \in [Port -> Mouse \cup {NoMouse}]
  BY DEF Unplug, IndInv, TypeOK
<1> QED
  BY <1>1, <1>2, <1>3
  DEF Unplug, IndInv, TypeOK, BusyIffTool, ControlsFresh, JobInv, ToolInv, ConsentInv,
      appVars, windowVars, answerVars

LEMMA PlugKeeps ==
  ASSUME IndInv, NEW p \in Port, NEW u \in Mouse, Plug(p, u)
  PROVE  IndInv'
<1>1. mishaps' \in 0..MaxMishaps /\ plugged' \in [Port -> Mouse \cup {NoMouse}]
  BY MishapType DEF Plug, IndInv, TypeOK
<1> QED
  BY <1>1
  DEF Plug, IndInv, TypeOK, BusyIffTool, ControlsFresh, JobInv, ToolInv, ConsentInv,
      appVars, windowVars, answerVars

LEMMA ReplaceFileKeeps ==
  ASSUME IndInv, NEW f \in File, NEW i \in Image, ReplaceFile(f, i)
  PROVE  IndInv'
<1>1. mishaps' \in 0..MaxMishaps /\ content' \in [File -> Image]
  BY MishapType DEF ReplaceFile, IndInv, TypeOK
<1> QED
  BY <1>1
  DEF ReplaceFile, IndInv, TypeOK, BusyIffTool, ControlsFresh, JobInv, ToolInv,
      ConsentInv, appVars, windowVars, answerVars

LEMMA NextKeeps ==
  ASSUME IndInv, [Next]_vars
  PROVE  IndInv'
<1>1. CASE User
  BY <1>1, RefreshDevicesKeeps, ProbeDeviceKeeps, ChooseFirmwareKeeps,
     BeginUpgradeKeeps, ConfirmWriteKeeps, DismissKeeps, CloseWindowKeeps,
     SelectionKeeps, OpenPanelKeeps DEF User
<1>2. CASE toolExited \/ dismissLaunchError
  BY <1>2, CompleteKeeps DEF toolExited, dismissLaunchError
<1>3. CASE World
  BY <1>3, UnplugKeeps, PlugKeeps, ReplaceFileKeeps DEF World
<1> QED
  BY <1>1, <1>2, <1>3, LaunchFailedKeeps, ToolStepKeeps, ToolFailsKeeps, Stutter
  DEF Next

LEMMA Invariance == Spec => []IndInv
  BY InitOK, NextKeeps, PTL DEF Spec
-----------------------------------------------------------------------------
(***************************************************************************)
(* What single steps do to the child process and to the mice.              *)
(***************************************************************************)
LEMMA RunToolStage ==
  ASSUME NEW j, NEW ctl, RunTool(j, ctl)
  PROVE  tool'.stage \in {"none", "started"}
  BY Started, Records DEF RunTool

LEMMA CompleteStage ==
  ASSUME complete
  PROVE  tool'.stage \in {"none", "started"} /\ running' = running
<1>1. tool'.stage \in {"none", "started"}
  <2>1. CASE setBusy_NO
    BY <2>1, Records DEF setBusy_NO
  <2>2. CASE completeWrite /\ ~setBusy_NO
    BY <2>2, RunToolStage DEF completeWrite
  <2>3. CASE ~completeWrite /\ ~setBusy_NO
    BY <2>3
    DEF complete, completeDevices, completeProbe, completeInspect, completeCheck
  <2> QED
    BY <2>1, <2>2, <2>3
<1>2. running' = running
  BY DEF complete, worldVars
<1> QED
  BY <1>1, <1>2

\* Nothing but the transfer takes the tool from writing to verifying, or gives
\* a mouse another image.
LEMMA OnlyTransferCommits ==
  ASSUME IndInv, [Next]_vars, ~upgrade_transfer
  PROVE  /\ running' = running
         /\ ~(tool.stage = "writing" /\ tool'.stage = "verify")
<1>1. CASE User
  BY <1>1, RunToolStage
  DEF User, refreshDevices, probeDevice, chooseFirmware, beginUpgrade, confirmWrite,
      dismissDialog, closeWindow, deviceSelectionChanged, openPanelOK, worldVars
<1>2. CASE toolExited \/ dismissLaunchError
  BY <1>2, CompleteStage DEF toolExited, dismissLaunchError
<1>3. CASE launchFailed
  BY <1>3, Records DEF launchFailed, setBusy_NO, worldVars
<1>4. CASE toolFails \/ upgrade_verify
  BY <1>4, Ends DEF toolFails, upgrade_verify, Fail, worldVars, IndInv, TypeOK
<1>5. CASE discover_devices \/ query_device \/ inspect_firmware \/ upgrade_gate
  <2>1. tool.stage # "writing"
    BY <1>5 DEF discover_devices, query_device, inspect_firmware, upgrade_gate
  <2> QED
    BY <1>5, <2>1
    DEF discover_devices, query_device, inspect_firmware, upgrade_gate, worldVars
<1>6. CASE World
  <2>1. tool'.stage = tool.stage
    BY <1>6 DEF World, Unplug, Plug, ReplaceFile, IndInv, TypeOK, Tool
  <2> QED
    BY <1>6, <2>1 DEF World, Unplug, Plug, ReplaceFile
<1>7. CASE UNCHANGED vars
  BY <1>7 DEF vars, worldVars
<1> QED
  BY <1>1, <1>2, <1>3, <1>4, <1>5, <1>6, <1>7 DEF Next, ToolStep

LEMMA CommitAsConfirmed ==
  ASSUME IndInv, upgrade_transfer, NEW u \in Mouse,
         Receives(u) \/ running'[u] # running[u]
  PROVE  /\ Receives(u) /\ consent = "given"
         /\ ModelOf[u] = alert.model
         /\ alert.reorder \/ VersionOf[running'[u]] > VersionOf[running[u]]
<1>1. /\ tool \in Tool /\ tool.image \in Image /\ running \in [Mouse -> Image]
      /\ tool.stage = "writing" /\ consent = "given"
  BY DEF upgrade_transfer, IndInv, TypeOK, ToolInv, ConsentInv
<1>2. [tool EXCEPT !.stage = "verify"].stage = "verify"
  BY <1>1 DEF Tool
<1>3. /\ tool.mouse # NoMouse
      /\ tool'.stage = "verify" /\ consent' = "written"
      /\ running' = [running EXCEPT ![tool.mouse] = tool.image]
  <2>1. CASE UNCHANGED <<consent, running>>
    BY <1>1, <2>1 DEF Receives
  <2> QED
    BY <1>2, <2>1 DEF upgrade_transfer
<1>4. tool.mouse = u
  <2>1. CASE Receives(u)
    BY <2>1 DEF Receives
  <2>2. CASE running'[u] # running[u]
    BY <1>1, <1>3, <2>2
  <2> QED
    BY <2>1, <2>2
<1>5. running'[u] = tool.image
  BY <1>1, <1>3, <1>4
<1> QED
  BY <1>1, <1>3, <1>4, <1>5 DEF Receives, IndInv, ConsentInv

\* A tool is started from a click or from the answer to a dialog, when none is
\* out, or by the completion of the one before it.
LEMMA StartsAlone ==
  ASSUME IndInv, [Next]_vars,
         tool'.stage = "started", tool.stage # "started"
  PROVE  tool.stage \in {"none", "exited"}
<1>1. CASE User
  <2>1. CASE \E c \in Control : Click(c)
    BY <2>1, ClickFindsIdle
  <2>2. CASE dialog # "none"
    BY <2>2 DEF IndInv, BusyIffTool
  <2> QED
    BY <1>1, <2>1, <2>2
    DEF User, refreshDevices, probeDevice, chooseFirmware, beginUpgrade,
        confirmWrite, dismissDialog, closeWindow, deviceSelectionChanged,
        openPanelOK, Control
<1>2. CASE toolExited \/ dismissLaunchError
  BY <1>2 DEF toolExited, dismissLaunchError, IndInv, BusyIffTool
<1>3. CASE launchFailed
  BY <1>3 DEF launchFailed
<1>4. CASE discover_devices \/ query_device \/ inspect_firmware
  BY <1>4 DEF discover_devices, query_device, inspect_firmware
<1>5. CASE upgrade_gate \/ upgrade_transfer \/ upgrade_verify \/ toolFails
  BY <1>5
  DEF upgrade_gate, Gate, upgrade_transfer, upgrade_verify, toolFails, Fail, Exit,
      IndInv, TypeOK, Tool
<1>6. CASE World
  BY <1>6 DEF World, Unplug, Plug, ReplaceFile, IndInv, TypeOK, Tool
<1>7. CASE UNCHANGED vars
  BY <1>7 DEF vars
<1> QED
  BY <1>1, <1>2, <1>3, <1>4, <1>5, <1>6, <1>7 DEF Next, ToolStep
-----------------------------------------------------------------------------
(***************************************************************************)
(* Every variable keeps its type, the app is busy exactly while its tool   *)
(* is out, and the controls on the screen are those its state allows.      *)
(***************************************************************************)
THEOREM WindowCorrect == Spec => [](TypeOK /\ BusyIffTool /\ ControlsFresh)
<1>1. IndInv => TypeOK /\ BusyIffTool /\ ControlsFresh
  BY DEF IndInv
<1> QED
  BY <1>1, Invariance, PTL

(***************************************************************************)
(* One by one: the types, and that a dialog is never over a running tool   *)
(* nor an idle app in front of one.  (setBusy:, runTool:)                  *)
(***************************************************************************)
THEOREM WindowTyped == Spec => []TypeOK
  BY WindowCorrect, PTL

THEOREM BusyWithTool == Spec => []BusyIffTool
  BY WindowCorrect, PTL

(***************************************************************************)
(* The app never starts a tool while another one runs, however the user    *)
(* clicks and whichever tools fail to start or to succeed.                 *)
(***************************************************************************)
THEOREM ToolsNeverOverlap == Spec => OneToolAtATime
<1>1. IndInv /\ [Next]_vars =>
        [tool'.stage = "started" /\ tool.stage # "started"
           => tool.stage \in {"none", "exited"}]_vars
  BY StartsAlone
<1> QED
  BY <1>1, Invariance, PTL DEF Spec, OneToolAtATime

(***************************************************************************)
(* No mouse is written except as a confirmation just given allows: its     *)
(* model, once, and an older or equal version only by the critical alert.  *)
(***************************************************************************)
THEOREM ConsentHonoured == Spec => WritesAsConfirmed
<1>1. IndInv /\ [Next]_vars =>
        [\A u \in Mouse : Receives(u) \/ running'[u] # running[u] =>
           /\ Receives(u) /\ consent = "given"
           /\ ModelOf[u] = alert.model
           /\ alert.reorder \/ VersionOf[running'[u]] > VersionOf[running[u]]]_vars
  BY OnlyTransferCommits, CommitAsConfirmed DEF Receives
<1> QED
  BY <1>1, Invariance, PTL DEF Spec, WritesAsConfirmed
=============================================================================
