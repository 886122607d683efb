------------------------ MODULE RestartVerifyProofs ------------------------
(***************************************************************************)
(* Proofs about RestartVerify for any mice, models, paths and bounds: what *)
(* is called verified runs the target version, and is another mouse than    *)
(* the one written only where the written one could not be found.          *)
(***************************************************************************)
EXTENDS RestartVerify, FiniteSetTheorems, TLAPS

\* The run has a path once it selected one, and a unit once it opened it.
Chosen ==
  /\ pc \in {"find", "done"} \/ selected \in Path
  /\ pc \in {"find", "open", "done"} \/ written \in Unit
  /\ resetting # None => pc \notin {"find", "open", "transfer"}

\* What a unit answered on the target version is still so: a restart changes
\* a version only to that one.
AnswersStand ==
  /\ IsFiniteSet(devices)
  /\ \A d \in devices : d.version = "target" => version[d.unit] = "target"

\* A written unit that stays where it is and answers is on the list, or has
\* answered already.
WrittenSeen ==
  undisturbed /\ pc \in {"preferred", "ask", "list", "probe"} =>
    /\ place[written] \in Path
    /\ pc = "probe" => \/ place[written] \in unprobed
                       \/ \E d \in devices : d.unit = written

\* What the version is compared of, and what the run ends verified with.
Judged ==
  pc = "judge" \/ outcome = "upgraded_and_verified" =>
    /\ candidate \in Answer /\ written \in Unit
    /\ ModelOf[candidate.unit] = expected_model
    /\ candidate.version = "target" => version[candidate.unit] = "target"
    /\ candidate.unit # written => ~undisturbed \/ candidate.path = selected
Ended ==
  /\ outcome # "none" => pc = "done"
  /\ outcome = "upgraded_and_verified" => candidate.version = "target"

IndInv == RestartTypeOK /\ Chosen /\ AnswersStand /\ WrittenSeen /\ Judged /\ Ended
-----------------------------------------------------------------------------
(***************************************************************************)
(* Places.  A path that is listed has one unit.                            *)
(***************************************************************************)
LEMMA AtPath ==
  ASSUME RestartTypeOK, NEW p \in _upgrade_interfaces
  PROVE  /\ At(p) \in Unit /\ place[At(p)] = p
         /\ \A u \in Unit : place[u] = p => u = At(p)
         /\ p \in Path /\ Asked(p) \in Answer
<1>1. PICK u \in Unit : place[u] = p
  BY DEF _upgrade_interfaces
<1>2. p \in Path
  BY DEF _upgrade_interfaces
<1>3. At(p) \in Unit /\ place[At(p)] = p
  BY <1>1 DEF At
<1>4. p \notin Off
  BY <1>2, RestartAssumption DEF Off
<1>5. ASSUME NEW v \in Unit, place[v] = p PROVE v = At(p)
  BY <1>3, <1>4, <1>5 DEF RestartTypeOK
<1>6. version[At(p)] \in {"target", "other"}
  BY <1>3 DEF RestartTypeOK
<1> QED
  BY <1>2, <1>3, <1>5, <1>6 DEF Asked, Answer

\* The written unit is asked where it is.
LEMMA AtWritten ==
  ASSUME RestartTypeOK, written \in Unit, place[written] \in Path
  PROVE  place[written] \in _upgrade_interfaces /\ At(place[written]) = written
<1>1. place[written] \in _upgrade_interfaces
  BY DEF _upgrade_interfaces
<1> QED
  BY <1>1, AtPath

\* An answer says what the unit runs.
LEMMA AskedStands ==
  ASSUME NEW p
  PROVE  /\ Asked(p).unit = At(p) /\ Asked(p).path = p
         /\ Asked(p).version = "target" => version[Asked(p).unit] = "target"
BY DEF Asked
-----------------------------------------------------------------------------
(***************************************************************************)
(* The bus.                                                                *)
(***************************************************************************)
Free(to) == to \in Off \/ to \in Path \ _upgrade_interfaces

LEMMA MoveTyped ==
  ASSUME RestartTypeOK, NEW u \in Unit, NEW to, Free(to), Move(u, to)
  PROVE  /\ place' \in [Unit -> Path \cup Off]
         /\ \A v, w \in Unit : v # w /\ place'[v] = place'[w] => place'[v] \in Off
         /\ undisturbed' \in BOOLEAN
         /\ undisturbed' => undisturbed
         /\ undisturbed' /\ written \in Unit => place'[written] = place[written]
<1>1. place' = [place EXCEPT ![u] = to] /\ undisturbed' = (undisturbed /\ u # written)
  BY DEF Move
<1>2. place \in [Unit -> Path \cup Off] /\ undisturbed \in BOOLEAN
  BY DEF RestartTypeOK
<1>3. place' \in [Unit -> Path \cup Off]
  BY <1>1, <1>2 DEF Free
<1>4. ASSUME NEW v \in Unit, NEW w \in Unit, v # w, place'[v] = place'[w],
             place'[v] \notin Off
      PROVE  FALSE
  <2>1. v = u \/ w = u
    BY <1>1, <1>2, <1>4 DEF RestartTypeOK
  <2>2. to \notin Off /\ \E z \in Unit : z # u /\ place[z] = to
    BY <1>1, <1>2, <1>4, <2>1
  <2> QED
    BY <2>2 DEF Free, _upgrade_interfaces
<1>5. /\ undisturbed' => undisturbed
      /\ undisturbed' /\ written \in Unit => place'[written] = place[written]
  BY <1>1, <1>2
<1> QED
  BY <1>1, <1>2, <1>3, <1>4, <1>5

\* Whatever happens on the bus leaves the tool's knowledge right: a version only
\* becomes the target, and a written unit that moves is disturbed.
LEMMA BusKeeps ==
  ASSUME IndInv, UNCHANGED toolVars, NEW u \in Unit, NEW to, Free(to), Move(u, to),
         version' \in [Unit -> {"target", "other"}],
         \A v \in Unit : version[v] = "target" => version'[v] = "target",
         resetting' \in {resetting, None}, faults' \in 0..MaxFaults
  PROVE  IndInv'
<1> USE DEF IndInv
<1>1. /\ place' \in [Unit -> Path \cup Off]
      /\ \A v, w \in Unit : v # w /\ place'[v] = place'[w] => place'[v] \in Off
      /\ undisturbed' \in BOOLEAN
      /\ undisturbed' => undisturbed
      /\ undisturbed' /\ written \in Unit => place'[written] = place[written]
  <2>1. RestartTypeOK
    OBVIOUS
  <2> QED
    BY <2>1, MoveTyped, Zenon
<1>2. RestartTypeOK'
  BY <1>1 DEF RestartTypeOK, toolVars, Answer
<1>3. Chosen'
  BY DEF Chosen, toolVars
<1>4. AnswersStand'
  <2>1. devices' = devices /\ \A d \in devices : d.unit \in Unit
    BY DEF toolVars, RestartTypeOK, Answer
  <2> QED
    BY <2>1 DEF AnswersStand
<1>5. WrittenSeen'
  BY <1>1 DEF WrittenSeen, toolVars, Chosen
<1>6. Judged'
  <2>1. candidate \in Answer => candidate.unit \in Unit
    BY DEF Answer
  <2> QED
    BY <1>1, <2>1 DEF Judged, toolVars, expected_model, Answer
<1>7. Ended'
  BY DEF Ended, toolVars
<1> QED
  BY <1>2, <1>3, <1>4, <1>5, <1>6, <1>7

LEMMA FaultTyped ==
  ASSUME RestartTypeOK
  PROVE  /\ Fault => faults' \in 0..MaxFaults
         /\ UNCHANGED faults => faults' \in 0..MaxFaults
BY RestartAssumption DEF Fault, RestartTypeOK

LEMMA RestartKeeps ==
  ASSUME IndInv, Restart
  PROVE  IndInv'
<1> DEFINE to == IF place[resetting] = "unplugged" THEN "unplugged" ELSE "restarting"
<1>1. resetting \in Unit /\ Free(to) /\ Move(resetting, to)
  BY DEF Restart, IndInv, RestartTypeOK, Free, Off
<1>2. version \in [Unit -> {"target", "other"}]
  BY DEF IndInv, RestartTypeOK
<1>3. /\ version' \in [Unit -> {"target", "other"}]
      /\ \A v \in Unit : version[v] = "target" => version'[v] = "target"
  BY <1>1, <1>2 DEF Restart
<1>4. faults' \in 0..MaxFaults
  BY FaultTyped DEF Restart, IndInv
<1>5. UNCHANGED toolVars /\ resetting' \in {resetting, None}
  BY DEF Restart, Move
<1> HIDE DEF to
<1> QED
  BY <1>1, <1>3, <1>4, <1>5, BusKeeps

LEMMA CablesKeep ==
  ASSUME IndInv, NEW u \in Unit, Enumerate(u) \/ Plug(u) \/ Unplug(u)
  PROVE  IndInv'
<1>1. PICK to : Free(to) /\ Move(u, to)
  BY DEF Enumerate, Plug, Unplug, Free, Off
<1>2. UNCHANGED <<version, resetting>> /\ faults' \in 0..MaxFaults
  BY FaultTyped DEF Enumerate, Plug, Unplug, IndInv
<1>3. UNCHANGED toolVars
  BY <1>1 DEF Move
<1>4. version' \in [Unit -> {"target", "other"}]
  BY <1>2 DEF IndInv, RestartTypeOK
<1> QED
  BY <1>1, <1>2, <1>3, <1>4, BusKeeps
-----------------------------------------------------------------------------
(***************************************************************************)
(* The tool's steps, from the choice of a mouse to the reset.              *)
(***************************************************************************)
LEMMA FindKeeps ==
  ASSUME IndInv, Find
  PROVE  IndInv'
<1>1. selected' \in Path \cup {None} /\ (pc' = "open" => selected' \in Path)
  BY DEF Find, End, Matches, _upgrade_interfaces, IndInv, RestartTypeOK
<1>2. RestartTypeOK' /\ Chosen'
  BY <1>1 DEF Find, End, IndInv, RestartTypeOK, Chosen, busVars, Answer
<1>3. AnswersStand' /\ WrittenSeen'
  BY DEF Find, End, IndInv, AnswersStand, WrittenSeen, busVars
<1>4. Judged' /\ Ended'
  BY DEF Find, End, IndInv, Judged, Ended, busVars
<1> QED
  BY <1>2, <1>3, <1>4 DEF IndInv

LEMMA OpenKeeps ==
  ASSUME IndInv, Open
  PROVE  IndInv'
<1>1. written' \in Unit \cup {None} /\ (pc' = "transfer" => written' \in Unit)
  BY AtPath DEF Open, End, IndInv, RestartTypeOK
<1>2. RestartTypeOK' /\ Chosen'
  BY <1>1 DEF Open, End, IndInv, RestartTypeOK, Chosen, busVars, Answer
<1>3. AnswersStand' /\ WrittenSeen'
  BY DEF Open, End, IndInv, AnswersStand, WrittenSeen, busVars
<1>4. Judged' /\ Ended'
  BY DEF Open, End, IndInv, Judged, Ended, busVars
<1> QED
  BY <1>2, <1>3, <1>4 DEF IndInv

LEMMA TransferKeeps ==
  ASSUME IndInv, Transfer
  PROVE  IndInv'
<1>1. RestartTypeOK' /\ Chosen'
  BY DEF Transfer, End, IndInv, RestartTypeOK, Chosen, Answer
<1>2. AnswersStand' /\ WrittenSeen'
  BY DEF Transfer, End, IndInv, AnswersStand, WrittenSeen
<1>3. Judged' /\ Ended'
  BY DEF Transfer, End, IndInv, Judged, Ended
<1> QED
  BY <1>1, <1>2, <1>3 DEF IndInv
-----------------------------------------------------------------------------
(***************************************************************************)
(* One pass of the loop.                                                   *)
(***************************************************************************)
LEMMA WakeKeeps ==
  ASSUME IndInv, Wake
  PROVE  IndInv'
<1>1. polls' \in 0..MaxPolls
  BY RestartAssumption DEF Wake, IndInv, RestartTypeOK
<1> DEFINE there == place[written] \notin Off
<1>2. undisturbed' = undisturbed \/ undisturbed' = there
  BY DEF Wake
<1>3. undisturbed' \in BOOLEAN
  <2>1. there \in BOOLEAN /\ undisturbed \in BOOLEAN
    BY DEF IndInv, RestartTypeOK
  <2> HIDE DEF there
  <2> QED
    BY <1>2, <2>1
<1>4. RestartTypeOK' /\ Chosen'
  BY <1>1, <1>3 DEF Wake, End, IndInv, RestartTypeOK, Chosen, busVars, Answer
<1>5. AnswersStand' /\ Judged' /\ Ended'
  BY DEF Wake, End, IndInv, AnswersStand, Judged, Ended, busVars
<1>6. WrittenSeen'
  BY DEF Wake, End, IndInv, WrittenSeen, Chosen, RestartTypeOK, busVars, Off
<1> QED
  BY <1>4, <1>5, <1>6 DEF IndInv

LEMMA FindPreferredKeeps ==
  ASSUME IndInv, FindPreferred
  PROVE  IndInv'
<1>1. RestartTypeOK' /\ Chosen'
  BY DEF FindPreferred, IndInv, RestartTypeOK, Chosen, busVars, Answer
<1>2. AnswersStand' /\ WrittenSeen' /\ Judged' /\ Ended'
  BY DEF FindPreferred, IndInv, AnswersStand, WrittenSeen, Judged, Ended, busVars
<1> QED
  BY <1>1, <1>2 DEF IndInv

\* A failed query disturbs the written unit if that was asked, and nothing else.
LEMMA FailsTyped ==
  ASSUME RestartTypeOK, NEW p, Answers(p) \/ Fails(p)
  PROVE  /\ undisturbed' \in BOOLEAN /\ faults' \in 0..MaxFaults
         /\ undisturbed' => undisturbed
         /\ Fails(p) /\ undisturbed' => p \notin _upgrade_interfaces \/ place[written] # p
<1>1. faults' \in 0..MaxFaults
  BY FaultTyped DEF Answers, Fails
<1> DEFINE elsewhere == undisturbed /\ place[written] # p
<1>2. \/ undisturbed' = undisturbed /\ (Fails(p) => p \notin _upgrade_interfaces)
      \/ undisturbed' = elsewhere
  BY DEF Answers, Fails
<1>3. elsewhere \in BOOLEAN /\ undisturbed \in BOOLEAN
  BY DEF RestartTypeOK
<1>4. undisturbed' \in BOOLEAN
  <2> HIDE DEF elsewhere
  <2> QED
    BY <1>2, <1>3
<1>5. CASE undisturbed' = undisturbed /\ (Fails(p) => p \notin _upgrade_interfaces)
  BY <1>1, <1>4, <1>5
<1>6. CASE undisturbed' = elsewhere
  <2>1. undisturbed' => elsewhere
    BY <1>6, Zenon
  <2> QED
    BY <1>1, <1>4, <2>1, Zenon
<1> QED
  BY <1>2, <1>5, <1>6, Zenon

LEMMA AskPreferredKeeps ==
  ASSUME IndInv, AskPreferred
  PROVE  IndInv'
<1>1. /\ undisturbed' \in BOOLEAN /\ faults' \in 0..MaxFaults
      /\ undisturbed' => undisturbed
  BY FailsTyped DEF AskPreferred, IndInv
<1>2. pc' = "judge" =>
        /\ candidate' = Asked(selected) /\ candidate' \in Answer
        /\ ModelOf[candidate'.unit] = expected_model
        /\ candidate'.version = "target" => version[candidate'.unit] = "target"
        /\ candidate'.path = selected
  BY AtPath, AskedStands DEF AskPreferred, Answers, IndInv
<1>3. pc' \in {"judge", "list"} /\ (pc' = "list" => candidate' = candidate)
  BY DEF AskPreferred
<1>4. RestartTypeOK' /\ Chosen'
  BY <1>1, <1>2, <1>3 DEF AskPreferred, IndInv, RestartTypeOK, Chosen, busVars
<1>5. AnswersStand' /\ WrittenSeen' /\ Ended'
  BY <1>1, <1>2, <1>3
     DEF AskPreferred, IndInv, AnswersStand, WrittenSeen, Ended, busVars
<1>6. Judged'
  BY <1>1, <1>2, <1>3
     DEF AskPreferred, IndInv, Judged, Ended, Chosen, busVars, expected_model
<1> QED
  BY <1>4, <1>5, <1>6 DEF IndInv

LEMMA ListKeeps ==
  ASSUME IndInv, List
  PROVE  IndInv'
<1>1. RestartTypeOK' /\ Chosen'
  BY DEF List, IndInv, RestartTypeOK, Chosen, busVars, _upgrade_interfaces, Answer
<1>2. AnswersStand' /\ Judged' /\ Ended'
  BY FS_EmptySet DEF List, IndInv, AnswersStand, Judged, Ended, busVars
<1>3. WrittenSeen'
  BY AtWritten DEF List, IndInv, WrittenSeen, Chosen, busVars
<1> QED
  BY <1>1, <1>2, <1>3 DEF IndInv

LEMMA ProbeKeeps ==
  ASSUME IndInv, Probe
  PROVE  IndInv'
<1>1. PICK p \in unprobed :
        /\ unprobed' = unprobed \ {p}
        /\ \/ Answers(p) /\ devices' = devices \cup {Asked(p)}
           \/ Fails(p) /\ UNCHANGED devices
  BY DEF Probe
<1>2. /\ undisturbed' \in BOOLEAN /\ faults' \in 0..MaxFaults
      /\ undisturbed' => undisturbed
      /\ Fails(p) /\ undisturbed' => p \notin _upgrade_interfaces \/ place[written] # p
  BY <1>1, FailsTyped DEF IndInv
<1>3. /\ devices' \subseteq Answer /\ IsFiniteSet(devices')
      /\ \A d \in devices' : d.version = "target" => version[d.unit] = "target"
      /\ devices \subseteq devices'
  <2>1. CASE Answers(p) /\ devices' = devices \cup {Asked(p)}
    <3>1. Asked(p) \in Answer
      BY <2>1, AtPath DEF Answers, IndInv
    <3>2. IsFiniteSet(devices \cup {Asked(p)})
      BY FS_AddElement DEF IndInv, AnswersStand
    <3> QED
      BY <2>1, <3>1, <3>2, AskedStands DEF IndInv, AnswersStand, RestartTypeOK
  <2>2. CASE Fails(p) /\ UNCHANGED devices
    BY <2>2 DEF IndInv, AnswersStand, RestartTypeOK
  <2> QED
    BY <1>1, <2>1, <2>2
<1>4. RestartTypeOK' /\ Chosen'
  BY <1>1, <1>2, <1>3 DEF Probe, IndInv, RestartTypeOK, Chosen, busVars
<1>5. AnswersStand' /\ Judged' /\ Ended'
  BY <1>2, <1>3 DEF Probe, IndInv, AnswersStand, Judged, Ended, busVars
<1>6. WrittenSeen'
  <2>1. SUFFICES ASSUME undisturbed'
        PROVE  /\ place[written] \in Path
               /\ \/ place[written] \in unprobed'
                  \/ \E d \in devices' : d.unit = written
    BY DEF Probe, WrittenSeen, busVars
  <2>2. /\ written \in Unit /\ place[written] \in Path
        /\ \/ place[written] \in unprobed
           \/ \E d \in devices : d.unit = written
    BY <1>2, <2>1 DEF Probe, IndInv, WrittenSeen, Chosen
  <2>3. CASE place[written] # p
    BY <1>1, <1>3, <2>2, <2>3
  <2>4. CASE place[written] = p
    <3>1. p \in _upgrade_interfaces /\ At(p) = written
      BY <2>2, <2>4, AtWritten DEF IndInv
    <3>2. devices' = devices \cup {Asked(p)}
      BY <1>1, <1>2, <2>1, <2>4, <3>1
    <3> QED
      BY <2>2, <3>1, <3>2, AskedStands
  <2> QED
    BY <2>3, <2>4
<1> QED
  BY <1>4, <1>5, <1>6 DEF IndInv

\* The only match is the written unit, if that was there all along.
LEMMA MatchKeeps ==
  ASSUME IndInv, Match
  PROVE  IndInv'
<1>1. pc' = "judge" => /\ candidate' \in matches
                       /\ undisturbed => candidate'.unit = written
  <2>1. SUFFICES ASSUME pc' = "judge"
        PROVE  candidate' \in matches /\ (undisturbed => candidate'.unit = written)
    OBVIOUS
  <2>2. Cardinality(matches) = 1 /\ candidate' \in matches
    BY <2>1 DEF Match
  <2>3. IsFiniteSet(matches)
    BY FS_Subset DEF matches, IndInv, AnswersStand
  <2>4. PICK only : matches = {only}
    BY <2>2, <2>3, FS_Singleton
  <2>5. ASSUME undisturbed PROVE \E d \in matches : d.unit = written
    BY <2>5 DEF Match, IndInv, WrittenSeen, matches, expected_model
  <2> QED
    BY <2>2, <2>4, <2>5
<1>2. pc' \in {"judge", "sleep"} /\ (pc' = "sleep" => candidate' = candidate)
  BY DEF Match
<1>3. matches \subseteq devices /\ devices \subseteq Answer
  BY DEF matches, IndInv, RestartTypeOK
<1>4. RestartTypeOK' /\ Chosen'
  BY <1>1, <1>2, <1>3 DEF Match, IndInv, RestartTypeOK, Chosen, busVars
<1>5. AnswersStand' /\ WrittenSeen' /\ Ended'
  BY <1>1, <1>2 DEF Match, IndInv, AnswersStand, WrittenSeen, Ended, busVars
<1>6. Judged'
  <2>1. outcome' = outcome /\ outcome # "upgraded_and_verified"
    BY DEF Match, IndInv, Ended
  <2>2. SUFFICES ASSUME pc' = "judge" PROVE Judged'
    BY <2>1 DEF Judged
  <2>3. candidate' \in matches /\ candidate' \in Answer /\ candidate' \in devices
    BY <1>1, <1>3, <2>2
  <2>4. ModelOf[candidate'.unit] = expected_model
    BY <2>3 DEF matches
  <2>5. UNCHANGED <<written, selected, version, undisturbed>> /\ written \in Unit
    BY DEF Match, busVars, IndInv, Chosen
  <2>6. candidate'.version = "target" => version[candidate'.unit] = "target"
    BY <2>3 DEF IndInv, AnswersStand
  <2> QED
    BY <1>1, <2>2, <2>3, <2>4, <2>5, <2>6 DEF Judged, expected_model
<1> QED
  BY <1>4, <1>5, <1>6 DEF IndInv

LEMMA JudgeKeeps ==
  ASSUME IndInv, Judge
  PROVE  IndInv'
<1>1. RestartTypeOK' /\ Chosen'
  BY DEF Judge, End, IndInv, RestartTypeOK, Chosen, busVars, Answer
<1>2. AnswersStand' /\ WrittenSeen'
  BY DEF Judge, End, IndInv, AnswersStand, WrittenSeen, busVars
<1>3. Judged' /\ Ended'
  BY DEF Judge, End, IndInv, Judged, Ended, busVars, expected_model
<1> QED
  BY <1>1, <1>2, <1>3 DEF IndInv
-----------------------------------------------------------------------------
LEMMA InitInv == Init => IndInv
<1> SUFFICES ASSUME Init PROVE IndInv
  OBVIOUS
<1>1. RestartTypeOK
  <2>1. /\ place \in [Unit -> Path \cup Off]
        /\ \A u, v \in Unit : u # v /\ place[u] = place[v] => place[u] \in Off
    BY DEF Init, Off
  <2>2. polls \in 0..MaxPolls /\ faults \in 0..MaxFaults
    BY RestartAssumption DEF Init
  <2> QED
    BY <2>1, <2>2 DEF Init, RestartTypeOK
<1>2. Chosen /\ AnswersStand /\ WrittenSeen /\ Judged /\ Ended
  BY FS_EmptySet DEF Init, Chosen, AnswersStand, WrittenSeen, Judged, Ended
<1> QED
  BY <1>1, <1>2 DEF IndInv

LEMMA StepInv == IndInv /\ [Next]_vars => IndInv'
<1> SUFFICES ASSUME IndInv, [Next]_vars PROVE IndInv'
  OBVIOUS
<1>1. CASE ToolStep
  BY <1>1, FindKeeps, OpenKeeps, TransferKeeps, WakeKeeps, FindPreferredKeeps,
     AskPreferredKeeps, ListKeeps, ProbeKeeps, MatchKeeps, JudgeKeeps DEF ToolStep
<1>2. CASE Restart
  BY <1>2, RestartKeeps
<1>3. CASE \E u \in Unit : Enumerate(u) \/ Plug(u) \/ Unplug(u)
  BY <1>3, CablesKeep
<1>4. CASE UNCHANGED vars
  BY <1>4 DEF vars, toolVars, busVars, IndInv, RestartTypeOK, Chosen, AnswersStand, WrittenSeen,
     Judged, Ended, expected_model, Answer
<1> QED
  BY <1>1, <1>2, <1>3, <1>4 DEF Next

LEMMA InductiveInvariant == Spec => []IndInv
<1> QED
  BY InitInv, StepInv, PTL DEF Spec

\* Every variable keeps its type, and no two mice are at one path.
THEOREM TypeCorrect == Spec => []RestartTypeOK
<1>1. IndInv => RestartTypeOK
  BY DEF IndInv
<1> QED
  BY <1>1, InductiveInvariant, PTL

\* A run that ends verified has seen a mouse of the written one's model run the
\* target version, and it still does.
THEOREM VerifiedIsTarget == Spec => []VerifiedRunsTarget
<1>1. IndInv => VerifiedRunsTarget
  BY DEF IndInv, Judged, Ended, VerifiedRunsTarget
<1> QED
  BY <1>1, InductiveInvariant, PTL

\* Another mouse is taken for the written one only if that was away, moved or did
\* not answer in the last pass, or if the other sits where the run had found its.
THEOREM OtherNeedsAbsence == Spec => []OtherOnlyInAbsence
<1>1. IndInv => OtherOnlyInAbsence
  BY DEF IndInv, Judged, Ended, OtherOnlyInAbsence
<1> QED
  BY <1>1, InductiveInvariant, PTL
=============================================================================
