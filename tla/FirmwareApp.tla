---------------------------- MODULE FirmwareApp ----------------------------
(***************************************************************************)
(* The desktop app, AppDelegate of main.m, with the command line tool it   *)
(* runs as a child process, the user at its window, and the image file and *)
(* the mice changing behind it.                                            *)
(*                                                                         *)
(* Every AppDelegate method and every completion block is one step of the  *)
(* main thread up to a modal dialog: a modal dialog takes all clicks until *)
(* it is answered.  A port stands for the USB path a device id is derived  *)
(* from; ports are numbered in the order of enumeration.                   *)
(***************************************************************************)
EXTENDS Integers, FiniteSets, FiniteSetsExt

CONSTANTS
  PortCount,
  Mouse, ModelOf, Compatible,           \* the mice, and those probed compatible
  File,
  Image, WellFormed, MadeFor, VersionOf, \* MadeFor[i]: the models i names
  Recorded,                             \* images in _RUNNING_IMAGE_HASHES
  NoMouse, NoFile, NoModel, NoImage,
  MaxMishaps                            \* bound: mishaps in a behaviour

Model == {ModelOf[u] : u \in Mouse}

ASSUME AppAssumption ==
  /\ PortCount \in Nat \ {0}
  /\ Compatible \subseteq Mouse /\ ModelOf \in [Mouse -> Model]
  /\ Recorded \subseteq Image /\ WellFormed \subseteq Image
  /\ MadeFor \in [Image -> SUBSET Model] /\ VersionOf \in [Image -> Nat]
  /\ NoMouse \notin Mouse /\ NoFile \notin File
  /\ NoModel \notin Model /\ NoImage \notin Image
  /\ MaxMishaps \in Nat
-----------------------------------------------------------------------------
VARIABLES
  appOpen, busy, devices, selectedDevice, firmwareURL,
  enabled,    \* the controls updateControls enabled last
  dialog,     \* the modal dialog on the screen
  alert,      \* what the last confirmation alert said
  consent,    \* what became of it: asked, given, and used for a write
  told,       \* what the user was told of the write
  job,        \* the arguments of the tool under way
  tool,       \* the child process
  plugged, running, content, mishaps

windowVars == <<devices, selectedDevice, firmwareURL, enabled>>
answerVars == <<alert, consent, told>>
appVars == <<appOpen, busy, windowVars, dialog, answerVars, job>>
worldVars == <<plugged, running, content>>
vars == <<appVars, tool, worldVars, mishaps>>

Port == 1..PortCount
Control == {"popup", "refresh", "probe", "choose", "upgrade"}
Dialog == {"none", "panel", "confirm", "error", "launch_error"}
Consent == {"none", "asked", "given", "written"}
Told == {"nothing", "success", "failure"}

Listing == [Port -> {"absent", "unusable", "usable"}]
NothingListed == [p \in Port |-> "absent"]

\* A command line: upgrade without a model is the dry run.
Job == [command : {"none", "devices", "probe", "inspect", "check", "write"},
        device : Port \cup {0}, file : File \cup {NoFile},
        confirm : Model \cup {NoModel}, allowVersionChange : BOOLEAN]
JobOf(command, device, file) ==
  [command |-> command, device |-> device, file |-> file,
   confirm |-> NoModel, allowVersionChange |-> FALSE]
NoJob == JobOf("none", 0, NoFile)

Tool == [stage : {"none", "started", "read", "writing", "verify", "exited"},
         image : Image \cup {NoImage}, mouse : Mouse \cup {NoMouse},
         ok : BOOLEAN, listing : Listing,
         status : {"none", "already_current", "ready", "upgraded_and_verified"},
         model : Model \cup {NoModel}, reorder : BOOLEAN]
NoTool == [stage |-> "none", image |-> NoImage, mouse |-> NoMouse,
           ok |-> FALSE, listing |-> NothingListed, status |-> "none",
           model |-> NoModel, reorder |-> FALSE]

Alert == [model : Model \cup {NoModel}, target : Nat, reorder : BOOLEAN]
NoAlert == [model |-> NoModel, target |-> 0, reorder |-> FALSE]
-----------------------------------------------------------------------------
Usable(devs, selected) == selected \in Port /\ devs[selected] = "usable"

updateControls_WhileBusy(b, devs, selected, url) ==  \* a defect: busy ignored
  {c \in Control :
     /\ c = "popup" => \E p \in Port : devs[p] # "absent"
     /\ c \in {"probe", "choose", "upgrade"} => Usable(devs, selected)
     /\ c = "upgrade" => url # NoFile}
updateControls(b, devs, selected, url) ==
  {c \in Control :
     /\ ~b
     /\ c = "popup" => \E p \in Port : devs[p] # "absent"
     /\ c \in {"probe", "choose", "upgrade"} => Usable(devs, selected)
     /\ c = "upgrade" => url # NoFile}

\* What refreshDevices selects: the first compatible device, else the item the
\* popup button itself selects when items are added to an empty menu.  Listed
\* mice have different titles, as those of different models do: the button drops
\* an item whose title is added again, and later places move up.
FirstListed(devs) ==
  LET usable == {p \in Port : devs[p] = "usable"}
      listed == {p \in Port : devs[p] # "absent"}
  IN IF usable # {} THEN Min(usable) ELSE IF listed # {} THEN Min(listed) ELSE 0
-----------------------------------------------------------------------------
Mishap == mishaps < MaxMishaps /\ mishaps' = mishaps + 1

\* runTool up to its dispatch: with the executable in the bundle the app is
\* busy; without it, it shows an error and runs no completion.  The caller has
\* set the rest of the window, and its controls to ctl.
RunTool(j, ctl) ==
  \/ /\ busy' = TRUE /\ job' = j /\ tool' = [NoTool EXCEPT !.stage = "started"]
     /\ enabled' = updateControls(TRUE, devices', selectedDevice', firmwareURL')
     /\ dialog' = "none" /\ mishaps' = mishaps
  \/ /\ Mishap
     /\ busy' = FALSE /\ job' = NoJob /\ tool' = NoTool /\ enabled' = ctl
     /\ dialog' = "error"

Init ==
  /\ plugged \in [Port -> Mouse \cup {NoMouse}]
  /\ \A p, q \in Port : plugged[p] = plugged[q] => p = q \/ plugged[p] = NoMouse
  /\ running \in [Mouse -> WellFormed] /\ content \in [File -> Image]
  /\ appOpen = TRUE /\ busy = TRUE
  /\ devices = NothingListed /\ selectedDevice = 0 /\ firmwareURL = NoFile
  /\ enabled = {} /\ dialog = "none"
  /\ alert = NoAlert /\ consent = "none" /\ told = "nothing"
  /\ job = JobOf("devices", 0, NoFile)
  /\ tool = [NoTool EXCEPT !.stage = "started"] /\ mishaps = 0
-----------------------------------------------------------------------------
(***************************************************************************)
(* The user.                                                               *)
(***************************************************************************)
Click(control) == appOpen /\ dialog = "none" /\ control \in enabled

refreshDevices ==
  /\ Click("refresh")
  /\ UNCHANGED <<devices, selectedDevice, firmwareURL>>
  /\ RunTool(JobOf("devices", 0, NoFile), enabled)
  /\ UNCHANGED <<appOpen, answerVars, worldVars>>

deviceSelectionChanged_Stale(p) ==  \* a defect: updateControls is not called
  /\ Click("popup") /\ devices[p] # "absent"
  /\ selectedDevice' = p
  /\ UNCHANGED <<appOpen, busy, devices, firmwareURL, enabled, dialog,
                 answerVars, job, tool, worldVars, mishaps>>
deviceSelectionChanged(p) ==
  /\ Click("popup") /\ devices[p] # "absent"
  /\ selectedDevice' = p
  /\ enabled' = updateControls(busy, devices, p, firmwareURL)
  /\ UNCHANGED <<appOpen, busy, devices, firmwareURL, dialog, answerVars, job,
                 tool, worldVars, mishaps>>

probeDevice ==
  /\ Click("probe") /\ selectedDevice # 0
  /\ UNCHANGED <<devices, selectedDevice, firmwareURL>>
  /\ RunTool(JobOf("probe", selectedDevice, NoFile), enabled)
  /\ UNCHANGED <<appOpen, answerVars, worldVars>>

chooseFirmware ==
  /\ Click("choose")
  /\ dialog' = "panel"
  /\ UNCHANGED <<appOpen, busy, windowVars, answerVars, job, tool, worldVars,
                 mishaps>>

\* The open panel's answer; Cancel is one of dismissDialog.
openPanelOK(f) ==
  /\ appOpen /\ dialog = "panel"
  /\ firmwareURL' = f
  /\ UNCHANGED <<devices, selectedDevice>>
  /\ RunTool(JobOf("inspect", 0, f),
             updateControls(busy, devices, selectedDevice, f))
  /\ UNCHANGED <<appOpen, answerVars, worldVars>>

beginUpgrade ==
  /\ Click("upgrade")
  /\ UNCHANGED <<devices, selectedDevice, firmwareURL>>
  /\ RunTool(JobOf("check", selectedDevice, firmwareURL), enabled)
  /\ UNCHANGED <<appOpen, answerVars, worldVars>>

\* The first button of the confirmation alert.  The write is for the device the
\* dry run was for, the model and the version relation are the ones it found,
\* and the path is read from firmwareURL again.
WriteJob ==
  [JobOf("write", job.device, firmwareURL) EXCEPT
     !.confirm = alert.model, !.allowVersionChange = alert.reorder]

confirmWrite ==
  /\ appOpen /\ dialog = "confirm"
  /\ UNCHANGED <<devices, selectedDevice, firmwareURL>>
  /\ RunTool(WriteJob, enabled)
  /\ consent' = IF busy' THEN "given" ELSE "none"
  /\ told' = IF busy' THEN "nothing" ELSE "failure"
  /\ UNCHANGED <<appOpen, alert, worldVars>>

\* Cancel, or the only button of an error alert.
dismissDialog ==
  /\ appOpen /\ dialog \in {"panel", "confirm", "error"}
  /\ dialog' = "none" /\ job' = NoJob
  /\ consent' = "none"
  /\ UNCHANGED <<appOpen, busy, windowVars, alert, told, tool, worldVars,
                 mishaps>>

\* The window takes no clicks under a modal dialog; closing it ends the app
\* and leaves a tool running without a reader.
closeWindow ==
  /\ appOpen /\ dialog = "none"
  /\ appOpen' = FALSE
  /\ UNCHANGED <<busy, windowVars, dialog, answerVars, job, tool, worldVars,
                 mishaps>>
-----------------------------------------------------------------------------
(***************************************************************************)
(* The completion blocks, run on the main thread after setBusy:NO with     *)
(* what the tool left; a tool that could not be launched left nothing.     *)
(***************************************************************************)
setBusy_NO ==
  /\ busy' = FALSE /\ tool' = NoTool
  /\ enabled' = updateControls(FALSE, devices', selectedDevice', firmwareURL')

completeDevices ==
  /\ devices' = IF tool.ok THEN tool.listing ELSE NothingListed
  /\ selectedDevice' = FirstListed(devices')
  /\ dialog' = "none" /\ job' = NoJob
  /\ UNCHANGED <<firmwareURL, answerVars, mishaps>> /\ setBusy_NO

completeProbe ==
  /\ dialog' = IF tool.ok THEN "none" ELSE "error"
  /\ job' = NoJob
  /\ UNCHANGED <<devices, selectedDevice, firmwareURL, answerVars, mishaps>>
  /\ setBusy_NO

completeInspect ==
  /\ firmwareURL' = IF tool.ok THEN firmwareURL ELSE NoFile
  /\ dialog' = IF tool.ok THEN "none" ELSE "error"
  /\ job' = NoJob
  /\ UNCHANGED <<devices, selectedDevice, answerVars, mishaps>> /\ setBusy_NO

completeCheck ==
  /\ IF tool.ok /\ tool.status = "ready"
     THEN /\ dialog' = "confirm" /\ consent' = "asked" /\ UNCHANGED job
          /\ alert' = [model |-> tool.model, reorder |-> tool.reorder,
                       target |-> VersionOf[tool.image]]
     ELSE /\ dialog' = IF tool.ok THEN "none" ELSE "error"
          /\ job' = NoJob /\ UNCHANGED <<alert, consent>>
  /\ UNCHANGED <<devices, selectedDevice, firmwareURL, told, mishaps>>
  /\ setBusy_NO

\* A result that is ok was verified after a restart, or found already current;
\* the completion then starts refreshDevices.
writeFailed_Silent == UNCHANGED told /\ dialog' = "none"  \* a defect
writeFailed == told' = "failure" /\ dialog' = "error"
completeWrite ==
  /\ consent' = "none"
  /\ UNCHANGED <<devices, selectedDevice, firmwareURL, alert>>
  /\ IF tool.ok
     THEN /\ told' = "success"
          /\ RunTool(JobOf("devices", 0, NoFile),
                updateControls(FALSE, devices, selectedDevice, firmwareURL))
     ELSE writeFailed /\ job' = NoJob /\ UNCHANGED mishaps /\ setBusy_NO

complete ==
  /\ \/ job.command = "devices" /\ completeDevices
     \/ job.command = "probe" /\ completeProbe
     \/ job.command = "inspect" /\ completeInspect
     \/ job.command = "check" /\ completeCheck
     \/ job.command = "write" /\ completeWrite
  /\ UNCHANGED <<appOpen, worldVars>>

toolExited ==
  /\ appOpen /\ busy /\ tool.stage = "exited"
  /\ complete

\* The executable cannot be started: the app is idle again, shows an error, and
\* runs the completion with status -1 when that is dismissed.
launchFailed_StaysBusy ==  \* a defect: setBusy:NO is left to the completion
  /\ appOpen /\ busy /\ tool.stage = "started" /\ Mishap
  /\ tool' = NoTool /\ dialog' = "launch_error"
  /\ told' = IF job.command = "write" THEN "failure" ELSE told
  /\ UNCHANGED <<appOpen, busy, windowVars, alert, consent, job, worldVars>>
launchFailed ==
  /\ appOpen /\ busy /\ tool.stage = "started" /\ Mishap
  /\ dialog' = "launch_error"
  /\ told' = IF job.command = "write" THEN "failure" ELSE told
  /\ UNCHANGED <<appOpen, devices, selectedDevice, firmwareURL, alert, consent,
                 job, worldVars>>
  /\ setBusy_NO

dismissLaunchError ==
  /\ appOpen /\ dialog = "launch_error"
  /\ complete
-----------------------------------------------------------------------------
(***************************************************************************)
(* The tool: what it reads and decides at different moments.  Exit leaves  *)
(* what the app will read; an error leaves only the exit status.           *)
(***************************************************************************)
Fail == tool' = [tool EXCEPT !.stage = "exited", !.ok = FALSE]
Exit(t) == tool' = [t EXCEPT !.stage = "exited", !.ok = TRUE]
Attached == {p \in Port : plugged[p] # NoMouse}

Probed(p) == IF plugged[p] = NoMouse THEN "absent"
             ELSE IF plugged[p] \in Compatible THEN "usable" ELSE "unusable"

\* devices: one entry per interface; a probe that fails makes it unusable.
discover_devices ==
  /\ job.command = "devices" /\ tool.stage = "started"
  /\ \/ /\ Exit([tool EXCEPT !.listing = [p \in Port |-> Probed(p)]])
        /\ UNCHANGED mishaps
     \/ \E p \in Attached :
          /\ Mishap
          /\ Exit([tool EXCEPT !.listing =
                     [q \in Port |-> IF q = p THEN "unusable" ELSE Probed(q)]])
  /\ UNCHANGED <<appVars, worldVars>>

query_device ==
  /\ job.command = "probe" /\ tool.stage = "started"
  /\ IF job.device \in Attached THEN Exit(tool) ELSE Fail
  /\ UNCHANGED <<appVars, worldVars, mishaps>>

\* inspect reports on the file; upgrade goes on with the bytes it read.
inspect_firmware ==
  /\ job.command \in {"inspect", "check", "write"} /\ tool.stage = "started"
  /\ LET image == content[job.file]
     IN IF image \notin WellFormed THEN Fail
        ELSE IF job.command = "inspect" THEN Exit(tool)
        ELSE tool' = [tool EXCEPT !.stage = "read", !.image = image]
  /\ UNCHANGED <<appVars, worldVars, mishaps>>

\* upgrade_firmware from opening the interface to its first print, with the
\* checks in the code's order.  The print raises when nobody reads it.
WriteRefused_AnyModel(u, newer) ==  \* a defect: the model is not confirmed
  (~newer /\ ~job.allowVersionChange) \/ ~appOpen
WriteRefused(u, newer) == \/ ~newer /\ ~job.allowVersionChange
                          \/ job.confirm # ModelOf[u]
                          \/ ~appOpen
Gate(u, image) ==
  LET newer == VersionOf[image] > VersionOf[running[u]]
      report == [tool EXCEPT !.model = ModelOf[u], !.reorder = ~newer]
  IN IF ModelOf[u] \notin MadeFor[image] \/ u \notin Compatible THEN Fail
     ELSE IF VersionOf[image] = VersionOf[running[u]] /\ image \in Recorded
     THEN Exit([report EXCEPT !.status = "already_current"])
     ELSE IF job.command = "check" THEN Exit([report EXCEPT !.status = "ready"])
     ELSE IF WriteRefused(u, newer) THEN Fail
     ELSE tool' = [tool EXCEPT !.stage = "writing", !.mouse = u]

upgrade_gate ==
  /\ tool.stage = "read"
  /\ IF job.device \in Attached THEN Gate(plugged[job.device], tool.image)
     ELSE Fail
  /\ UNCHANGED <<appVars, worldVars, mishaps>>

\* The transfer and the reset: the mouse runs the image when it is back, at the
\* same USB path or another; or its bootloader refuses the image; or the
\* exchange is interrupted, for sure when the mouse was pulled, and perhaps
\* when a print finds the app gone (see toolFails for the rest).
upgrade_transfer ==
  /\ tool.stage = "writing"
  /\ IF tool.mouse = NoMouse
     THEN Fail /\ UNCHANGED <<consent, running, plugged, mishaps>>
     ELSE \/ /\ tool' = [tool EXCEPT !.stage = "verify"]
             /\ running' = [running EXCEPT ![tool.mouse] = tool.image]
             /\ consent' = "written"
             /\ \/ UNCHANGED <<plugged, mishaps>>
                \/ \E p \in Attached, q \in Port \ Attached :
                     /\ plugged[p] = tool.mouse /\ Mishap
                     /\ plugged' = [plugged EXCEPT ![p] = NoMouse,
                                                   ![q] = tool.mouse]
          \/ /\ Mishap /\ tool' = [tool EXCEPT !.stage = "verify"]
             /\ UNCHANGED <<consent, running, plugged>>
          \/ ~appOpen /\ Fail /\ UNCHANGED <<consent, running, plugged, mishaps>>
  /\ UNCHANGED <<appOpen, busy, windowVars, dialog, alert, told, job, content>>

\* The query after the restart prefers the device id the run began with, and
\* otherwise accepts the only attached mouse of the model.
_query_after_restart ==
  LET ofModel == {p \in Attached : ModelOf[plugged[p]] = job.confirm}
  IN IF job.device \in ofModel THEN {plugged[job.device]}
     ELSE IF Cardinality(ofModel) = 1 THEN {plugged[p] : p \in ofModel} ELSE {}
Verified ==
  \E u \in _query_after_restart : VersionOf[running[u]] = VersionOf[tool.image]

\* The last poll, or the first one that finds the version.
upgrade_verify_Forever ==  \* a defect: the polls are not counted
  /\ tool.stage = "verify" /\ Verified
  /\ Exit([tool EXCEPT !.status = "upgraded_and_verified"])
  /\ UNCHANGED <<appVars, worldVars, mishaps>>
upgrade_verify ==
  /\ tool.stage = "verify"
  /\ IF Verified THEN Exit([tool EXCEPT !.status = "upgraded_and_verified"])
     ELSE Fail
  /\ UNCHANGED <<appVars, worldVars, mishaps>>

\* Any other exception, or the death of the process.
toolFails ==
  /\ tool.stage \in {"started", "read", "writing", "verify"} /\ Mishap
  /\ Fail
  /\ UNCHANGED <<appVars, worldVars>>

ToolStep == \/ discover_devices \/ query_device \/ inspect_firmware
            \/ upgrade_gate \/ upgrade_transfer \/ upgrade_verify
-----------------------------------------------------------------------------
(***************************************************************************)
(* The world.  A mouse pulled out takes the tool's handle with it.         *)
(***************************************************************************)
Unplug(p) ==
  /\ Mishap /\ p \in Attached
  /\ plugged' = [plugged EXCEPT ![p] = NoMouse]
  /\ tool' = IF tool.mouse = plugged[p] THEN [tool EXCEPT !.mouse = NoMouse]
             ELSE tool
  /\ UNCHANGED <<appVars, running, content>>

Plug(p, u) ==
  /\ Mishap /\ p \notin Attached /\ \A q \in Port : plugged[q] # u
  /\ plugged' = [plugged EXCEPT ![p] = u]
  /\ UNCHANGED <<appVars, tool, running, content>>

ReplaceFile(f, i) ==
  /\ Mishap /\ content[f] # i
  /\ content' = [content EXCEPT ![f] = i]
  /\ UNCHANGED <<appVars, tool, plugged, running>>

User == \/ refreshDevices \/ probeDevice \/ chooseFirmware \/ beginUpgrade
        \/ confirmWrite \/ dismissDialog \/ closeWindow
        \/ \E p \in Port : deviceSelectionChanged(p)
        \/ \E f \in File : openPanelOK(f)
World == \/ \E p \in Port : Unplug(p) \/ \E u \in Mouse : Plug(p, u)
         \/ \E f \in File, i \in Image : ReplaceFile(f, i)

Next == \/ User \/ toolExited \/ launchFailed \/ dismissLaunchError
        \/ ToolStep \/ toolFails \/ World

Spec == Init /\ [][Next]_vars
FairSpec == Spec /\ WF_vars(toolExited) /\ WF_vars(ToolStep)
-----------------------------------------------------------------------------
TypeOK ==
  /\ appOpen \in BOOLEAN /\ busy \in BOOLEAN
  /\ devices \in Listing /\ selectedDevice \in Port \cup {0}
  /\ firmwareURL \in File \cup {NoFile} /\ enabled \in SUBSET Control
  /\ dialog \in Dialog /\ alert \in Alert
  /\ consent \in Consent /\ told \in Told
  /\ job \in Job /\ tool \in Tool
  /\ plugged \in [Port -> Mouse \cup {NoMouse}]
  /\ running \in [Mouse -> Image] /\ content \in [File -> Image]
  /\ mishaps \in 0..MaxMishaps

(***************************************************************************)
(* The app is busy exactly while a tool is out, and never shows a modal    *)
(* dialog over one: the completion could not run until it is answered.     *)
(* (runTool, setBusy:message:.)                                            *)
(***************************************************************************)
BusyIffTool == /\ busy <=> tool.stage # "none"
               /\ dialog # "none" => ~busy

(***************************************************************************)
(* The controls on the screen are always those the app's state allows:     *)
(* every method that changes what updateControls reads calls it before the *)
(* user can act.                                                           *)
(***************************************************************************)
ControlsFresh ==
  enabled = updateControls(busy, devices, selectedDevice, firmwareURL)

(***************************************************************************)
(* A tool is started only when the one before it has ended and been dealt  *)
(* with: two upgrades never talk to a mouse at once (one app).             *)
(***************************************************************************)
OneToolAtATime ==
  [][tool'.stage = "started" /\ tool.stage # "started"
       => tool.stage \in {"none", "exited"}]_vars

(***************************************************************************)
(* A mouse gets new firmware only by a confirmation given for this write   *)
(* and used once, is of the model the alert named, and gets a version that *)
(* is not above its own only when the alert was the critical one: whatever *)
(* happens to the file, the mice and the selection in between.             *)
(***************************************************************************)
Receives(u) == /\ tool.stage = "writing" /\ tool'.stage = "verify"
               /\ consent' = "written" /\ tool.mouse = u
WritesAsConfirmed ==
  [][\A u \in Mouse : Receives(u) \/ running'[u] # running[u] =>
       /\ Receives(u) /\ consent = "given"
       /\ ModelOf[u] = alert.model
       /\ alert.reorder \/ VersionOf[running'[u]] > VersionOf[running[u]]]_vars

(***************************************************************************)
(* The controls come back: a busy app becomes idle, unless it is closed.   *)
(***************************************************************************)
BusyEnds == busy ~> ~busy \/ ~appOpen

(***************************************************************************)
(* A write the user confirmed is answered: with the success line or with   *)
(* an error, never with silence (the completion blocks of beginUpgrade).   *)
(***************************************************************************)
ConfirmedIsAnswered == consent = "given" ~> told # "nothing" \/ ~appOpen
=============================================================================
