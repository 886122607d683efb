--------------------------- MODULE RestartVerify ---------------------------
(***************************************************************************)
(* Which mouse the verification of upgrade_firmware reads back when several *)
(* are on the bus, some of one model: _find_upgrade_interface chooses the  *)
(* unit to write, _query_after_restart looks for it again after the        *)
(* restart, first at the device id of before, then among all interfaces.   *)
(* A list of interfaces is taken at one moment and each is opened later:   *)
(* units leave, come back elsewhere and take each other's place between.   *)
(*                                                                         *)
(* A device id is a hash of the interface's path, here the path itself.    *)
(* The transfer is one step: UpdateSession has its detail.                 *)
(***************************************************************************)
EXTENDS Naturals, FiniteSets

CONSTANTS
  Unit,        \* the mice
  ModelOf,     \* the model string each answers with
  Path,        \* the paths hid.enumerate may give an interface
  None,        \* no path, no unit
  MaxPolls,    \* post-restart queries: range(30)
  MaxFaults    \* bound: cables moved, probes failed, images rejected

ASSUME RestartAssumption ==
  /\ IsFiniteSet(Unit) /\ IsFiniteSet(Path) /\ Cardinality(Unit) <= Cardinality(Path)
  /\ None \notin Unit \cup Path
  /\ {"restarting", "unplugged"} \cap Path = {}
  /\ DOMAIN ModelOf = Unit
  /\ MaxPolls \in Nat \ {0} /\ MaxFaults \in Nat

VARIABLES
  pc,            \* where the tool is
  requested,     \* --device, or None
  selected,      \* selected_device_id: where the run found its unit
  written,       \* the unit whose handle the run opened
  polls,
  unprobed,      \* interfaces discover_devices listed and has not opened yet
  devices,       \* what those it opened answered
  candidate,     \* what _query_after_restart returned
  outcome,
  place,         \* each unit: its path, "restarting" or "unplugged"
  version,       \* each unit: the version it runs, "target" or "other"
  resetting,     \* the unit that was sent the reset and has not gone yet
  undisturbed,   \* history: since this poll began the written unit has stayed
                 \* where it was and answered whoever asked it
  faults

toolVars == <<pc, requested, selected, written, polls, unprobed, devices,
              candidate, outcome>>
busVars == <<place, version, resetting>>
vars == <<toolVars, busVars, undisturbed, faults>>

Off == {"restarting", "unplugged"}
Answer == [path : Path, unit : Unit, version : {"target", "other"}]
_upgrade_interfaces == {p \in Path : \E u \in Unit : place[u] = p}
At(p) == CHOOSE u \in Unit : place[u] = p
Asked(p) == [path |-> p, unit |-> At(p), version |-> version[At(p)]]
expected_model == ModelOf[written]

Fault == faults < MaxFaults /\ faults' = faults + 1
-----------------------------------------------------------------------------
Init ==
  /\ pc = "find" /\ requested \in Path \cup {None} /\ selected = None
  /\ written = None /\ polls = 0 /\ unprobed = {} /\ devices = {}
  /\ candidate = None /\ outcome = "none"
  /\ place \in {f \in [Unit -> Path \cup {"unplugged"}] :
                  \A u, v \in Unit : u # v /\ f[u] = f[v] => f[u] = "unplugged"}
  /\ version \in [Unit -> {"target", "other"}] /\ resetting = None
  /\ undisturbed = FALSE /\ faults = 0

End(o) == pc' = "done" /\ outcome' = o

\* The interfaces a selection leaves: exactly one is wanted.
Matches(id) == IF id = None THEN _upgrade_interfaces ELSE _upgrade_interfaces \cap {id}
_find_upgrade_interface(id) == Cardinality(Matches(id)) = 1

Find ==
  /\ pc = "find"
  /\ \/ /\ _find_upgrade_interface(requested)
        /\ selected' \in Matches(requested) /\ pc' = "open" /\ UNCHANGED outcome
     \/ /\ ~_find_upgrade_interface(requested)
        /\ End("refused") /\ UNCHANGED selected
  /\ UNCHANGED <<requested, written, polls, unprobed, devices, candidate, busVars,
                 undisturbed, faults>>

\* The path is opened: whichever unit is there by now is asked and written.
Open ==
  /\ pc = "open"
  /\ \/ /\ selected \in _upgrade_interfaces
        /\ written' = At(selected) /\ pc' = "transfer" /\ UNCHANGED outcome
     \/ /\ selected \notin _upgrade_interfaces
        /\ End("error") /\ UNCHANGED written
  /\ UNCHANGED <<requested, selected, polls, unprobed, devices, candidate, busVars,
                 undisturbed, faults>>

\* The image is written and the reset sent, or the handle has died under it.
Transfer ==
  /\ pc = "transfer"
  /\ \/ /\ place[written] = selected
        /\ resetting' = written /\ pc' = "sleep" /\ UNCHANGED outcome
     \/ /\ place[written] # selected
        /\ End("interrupted") /\ UNCHANGED resetting
  /\ UNCHANGED <<requested, selected, written, polls, unprobed, devices, candidate,
                 place, version, undisturbed, faults>>
-----------------------------------------------------------------------------
(***************************************************************************)
(* One pass of the loop: "sleep", then the id of before ("preferred" is    *)
(* its enumeration, "ask" its query), then discover_devices ("list" and    *)
(* "probe"), then the version ("judge").  Whatever is raised on the way    *)
(* leads to the next pass.                                                 *)
(***************************************************************************)
Wake_OneMore ==  \* a defect: one pass too many
  /\ pc = "sleep"
  /\ \/ /\ polls <= MaxPolls
        /\ polls' = polls + 1 /\ pc' = "preferred" /\ UNCHANGED outcome
        /\ undisturbed' = (place[written] \notin Off)
     \/ /\ polls > MaxPolls
        /\ End("unverified") /\ UNCHANGED <<polls, undisturbed>>
  /\ UNCHANGED <<requested, selected, written, unprobed, devices, candidate, busVars,
                 faults>>
Wake ==
  /\ pc = "sleep"
  /\ \/ /\ polls < MaxPolls
        /\ polls' = polls + 1 /\ pc' = "preferred" /\ UNCHANGED outcome
        /\ undisturbed' = (place[written] \notin Off)
     \/ /\ polls = MaxPolls
        /\ End("unverified") /\ UNCHANGED <<polls, undisturbed>>
  /\ UNCHANGED <<requested, selected, written, unprobed, devices, candidate, busVars,
                 faults>>

FindPreferred_Raises ==  \* a defect: an id that is gone ends the pass
  /\ pc = "preferred"
  /\ pc' = IF _find_upgrade_interface(selected) THEN "ask" ELSE "sleep"
  /\ UNCHANGED <<requested, selected, written, polls, unprobed, devices, candidate,
                 outcome, busVars, undisturbed, faults>>
FindPreferred ==
  /\ pc = "preferred"
  /\ pc' = IF _find_upgrade_interface(selected) THEN "ask" ELSE "list"
  /\ UNCHANGED <<requested, selected, written, polls, unprobed, devices, candidate,
                 outcome, busVars, undisturbed, faults>>

\* A query of the unit at a path is answered, finds nobody there, or fails: a
\* lost or wrong reply, another process that holds the interface.
Answers(p) == p \in _upgrade_interfaces /\ UNCHANGED <<undisturbed, faults>>
Fails(p) ==
  \/ p \notin _upgrade_interfaces /\ UNCHANGED <<undisturbed, faults>>
  \/ /\ p \in _upgrade_interfaces /\ Fault
     /\ undisturbed' = (undisturbed /\ place[written] # p)

AskPreferred_AnyModel ==  \* a defect: the model of the answer is not compared
  /\ pc = "ask"
  /\ \/ Answers(selected) /\ candidate' = Asked(selected) /\ pc' = "judge"
     \/ Fails(selected) /\ pc' = "list" /\ UNCHANGED candidate
  /\ UNCHANGED <<requested, selected, written, polls, unprobed, devices, outcome,
                 busVars>>
AskPreferred ==
  /\ pc = "ask"
  /\ \/ /\ Answers(selected) /\ ModelOf[At(selected)] = expected_model
        /\ candidate' = Asked(selected) /\ pc' = "judge"
     \/ /\ \/ Answers(selected) /\ ModelOf[At(selected)] # expected_model
           \/ Fails(selected)
        /\ pc' = "list" /\ UNCHANGED candidate
  /\ UNCHANGED <<requested, selected, written, polls, unprobed, devices, outcome,
                 busVars>>

List ==
  /\ pc = "list"
  /\ pc' = "probe" /\ unprobed' = _upgrade_interfaces /\ devices' = {}
  /\ UNCHANGED <<requested, selected, written, polls, candidate, outcome, busVars,
                 undisturbed, faults>>

\* The next interface of the list is opened and asked; one that fails is listed
\* without a model and matches none.
Probe ==
  /\ pc = "probe"
  /\ \E p \in unprobed :
       /\ unprobed' = unprobed \ {p}
       /\ \/ Answers(p) /\ devices' = devices \cup {Asked(p)}
          \/ Fails(p) /\ UNCHANGED devices
  /\ UNCHANGED <<pc, requested, selected, written, polls, candidate, outcome, busVars>>

\* Exactly one of the answers must be of the model.
matches == {d \in devices : ModelOf[d.unit] = expected_model}
Match_First ==  \* a defect: the first match will do
  /\ pc = "probe" /\ unprobed = {}
  /\ \/ matches # {} /\ candidate' \in matches /\ pc' = "judge"
     \/ matches = {} /\ pc' = "sleep" /\ UNCHANGED candidate
  /\ UNCHANGED <<requested, selected, written, polls, unprobed, devices, outcome,
                 busVars, undisturbed, faults>>
Match ==
  /\ pc = "probe" /\ unprobed = {}
  /\ \/ /\ Cardinality(matches) = 1
        /\ candidate' \in matches /\ pc' = "judge"
     \/ /\ Cardinality(matches) # 1
        /\ pc' = "sleep" /\ UNCHANGED candidate
  /\ UNCHANGED <<requested, selected, written, polls, unprobed, devices, outcome,
                 busVars, undisturbed, faults>>

Judge ==
  /\ pc = "judge"
  /\ \/ candidate.version = "target" /\ End("upgraded_and_verified")
     \/ candidate.version # "target" /\ pc' = "sleep" /\ UNCHANGED outcome
  /\ UNCHANGED <<requested, selected, written, polls, unprobed, devices, candidate,
                 busVars, undisturbed, faults>>
-----------------------------------------------------------------------------
(***************************************************************************)
(* The bus.                                                                *)
(***************************************************************************)
Move(u, to) ==
  /\ place' = [place EXCEPT ![u] = to]
  /\ undisturbed' = (undisturbed /\ u # written)
  /\ UNCHANGED toolVars

\* External: the written unit leaves the bus and starts the new image, or its
\* bootloader rejects that and starts the one it had.
Restart ==
  /\ resetting # None /\ resetting' = None
  /\ Move(resetting, IF place[resetting] = "unplugged" THEN "unplugged"
                     ELSE "restarting")
  /\ \/ version' = [version EXCEPT ![resetting] = "target"] /\ UNCHANGED faults
     \/ Fault /\ UNCHANGED version

\* It comes back at its path of before or at another free one.
Enumerate(u) ==
  /\ place[u] = "restarting"
  /\ \E p \in Path \ _upgrade_interfaces : Move(u, p)
  /\ UNCHANGED <<version, resetting, faults>>

Plug(u) ==
  /\ place[u] = "unplugged" /\ Fault
  /\ \E p \in Path \ _upgrade_interfaces : Move(u, p)
  /\ UNCHANGED <<version, resetting>>

Unplug(u) ==
  /\ place[u] # "unplugged" /\ Fault /\ Move(u, "unplugged")
  /\ UNCHANGED <<version, resetting>>

ToolStep == \/ Find \/ Open \/ Transfer \/ Wake \/ FindPreferred \/ AskPreferred
            \/ List \/ Probe \/ Match \/ Judge
Next == ToolStep \/ Restart \/ \E u \in Unit : Enumerate(u) \/ Plug(u) \/ Unplug(u)

\* The tool is one thread and always goes on.  Nothing is asked of the bus: the
\* loop waits 15 seconds for it and no longer.
Spec == Init /\ [][Next]_vars /\ WF_vars(ToolStep)
-----------------------------------------------------------------------------
\* Every variable has its type; no two units have one path.
RestartTypeOK ==
  /\ pc \in {"find", "open", "transfer", "sleep", "preferred", "ask", "list",
             "probe", "judge", "done"}
  /\ requested \in Path \cup {None} /\ selected \in Path \cup {None}
  /\ written \in Unit \cup {None} /\ polls \in 0..MaxPolls
  /\ unprobed \subseteq Path /\ devices \subseteq Answer
  /\ candidate \in Answer \cup {None}
  /\ outcome \in {"none", "refused", "error", "interrupted", "unverified",
                  "upgraded_and_verified"}
  /\ place \in [Unit -> Path \cup Off]
  /\ \A u, v \in Unit : u # v /\ place[u] = place[v] => place[u] \in Off
  /\ version \in [Unit -> {"target", "other"}] /\ resetting \in Unit \cup {None}
  /\ undisturbed \in BOOLEAN /\ faults \in 0..MaxFaults

\* Whatever the tool calls verified is a unit of the written unit's model that
\* runs the target version, wherever it sits by now and however often the places
\* were exchanged between the listing, the opening and the comparison.
VerifiedRunsTarget ==
  outcome = "upgraded_and_verified" =>
    /\ ModelOf[candidate.unit] = expected_model
    /\ version[candidate.unit] = "target"

\* The test for ambiguity protects the user with two mice of one model: another
\* unit is taken for the written one only if that was away, moved or silent in
\* the last pass, or if the other one has taken the place the run had selected.
OtherOnlyInAbsence ==
  outcome = "upgraded_and_verified" /\ candidate.unit # written =>
    ~undisturbed \/ candidate.path = selected

\* The verification finds what is there to find: with a pass to come, the written
\* unit back on the target version and alone of its model or back at its old
\* place, and nothing more going wrong, the run ends verified.
Alone(u) == \A v \in Unit \ {u} : ModelOf[v] = ModelOf[u] => place[v] \in Off
BackOnTarget ==
  /\ place[written] \in Path /\ version[written] = "target" /\ resetting = None
  /\ Alone(written) \/ place[written] = selected
FoundWhenBack ==
  (pc = "sleep" /\ polls < MaxPolls /\ BackOnTarget /\ faults = MaxFaults)
    ~> (outcome = "upgraded_and_verified")
=============================================================================
