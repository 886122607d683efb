------------------------------- MODULE Target -------------------------------
(***************************************************************************)
(* The parts of the target firmware between the chain of button events and *)
(* the hardware: the wireless link's state machine (g6he_wireless.c), the  *)
(* sensor (g6he_sensor.c) and the power controller (g6he_power.c).  Each   *)
(* acts through callbacks that are bound while it runs.  The user, the     *)
(* clock and the radio are the environment: the link goes up and down at   *)
(* any time, and the radio tells of it later, in order.                    *)
(***************************************************************************)
EXTENDS Integers, Sequences

CONSTANTS
  ElapsedModulus,  \* 2^32: elapsed_ms is a uint32_t
  PairingTimeout,  \* G6HE_PAIRING_TIMEOUT_MS
  TickStep,        \* the milliseconds that may pass from tick to tick
  MaxRadioEvents   \* bound: how far the radio may be ahead of what it told

ASSUME TargetAssumption ==
  /\ PairingTimeout \in Nat \ {0} /\ ElapsedModulus \in Nat
  /\ PairingTimeout < ElapsedModulus
  /\ TickStep \subseteq 0..(ElapsedModulus - PairingTimeout)
  /\ MaxRadioEvents \in Nat

VARIABLES
  state, elapsed_ms, backend,  \* g6he_wireless_t; an unbound backend is {}
  linkUp, radioEvents,         \* the radio: external
  variant, transport,          \* g6he_sensor_t; UNSET while it is not bound
  g_backend,                   \* g6he_power.c; an unbound backend is {}
  called,  \* history: the callbacks the last step called, and what was bound
  waited,  \* history: the time since the last pairing request, capped
  told     \* history: the radio has told something since that request

link == <<state, elapsed_ms, backend, linkUp, radioEvents, waited, told>>
sensor == <<variant, transport>>
targetVars == <<link, sensor, g_backend, called>>

\* A callback not among the bound ones is a null pointer.
Call(callback, bound) == called' = {<<callback, bound>>}
NoCall == called' = {}

TargetInit ==
  /\ state = "OFF" /\ elapsed_ms = 0 /\ backend = {}
  /\ linkUp = FALSE /\ radioEvents = <<>>
  /\ variant = "UNSET" /\ transport = {}
  /\ g_backend = {}
  /\ called = {} /\ waited = 0 /\ told = FALSE
-----------------------------------------------------------------------------
\* The wireless link.  A change of state starts the clock.
Enter_KeepsClock(s) == state' = s /\ UNCHANGED elapsed_ms  \* a defect
Enter(s) == state' = s /\ elapsed_ms' = 0

wireless_init ==
  /\ Enter("OFF") /\ backend' = {}
  /\ linkUp' = FALSE /\ radioEvents' = <<>>
  /\ waited' = 0 /\ told' = FALSE
  /\ NoCall /\ UNCHANGED <<sensor, g_backend>>

wireless_bind(b) ==
  /\ "send_hid_report" \in b
  /\ backend' = b
  /\ NoCall
  /\ UNCHANGED <<state, elapsed_ms, linkUp, radioEvents, waited, told>>
  /\ UNCHANGED <<sensor, g_backend>>

StartsPairing == "start_pairing" \in backend

\* The radio may connect a peer that waits before start_pairing returns.
on_pair_request_CallsFirst ==  \* a defect: the state is assigned after the call
  /\ Enter("PAIRING") /\ waited' = 0
  /\ IF StartsPairing THEN Call("start_pairing", backend) ELSE NoCall
  /\ \/ told' = FALSE /\ UNCHANGED linkUp
     \/ StartsPairing /\ ~linkUp /\ radioEvents = <<>>
        /\ linkUp' = TRUE /\ told' = TRUE
  /\ UNCHANGED <<backend, radioEvents, sensor, g_backend>>
on_pair_request ==
  /\ waited' = 0
  /\ IF StartsPairing THEN Call("start_pairing", backend) ELSE NoCall
  /\ \/ Enter("PAIRING") /\ told' = FALSE /\ UNCHANGED linkUp
     \/ /\ StartsPairing /\ ~linkUp /\ radioEvents = <<>>
        /\ Enter("CONNECTED") /\ linkUp' = TRUE /\ told' = TRUE
  /\ UNCHANGED <<backend, radioEvents, sensor, g_backend>>

\* on_connected, on_disconnected
RadioTells ==
  /\ radioEvents # <<>>
  /\ Enter(IF Head(radioEvents) = "connected" THEN "CONNECTED" ELSE "RECONNECTING")
  /\ radioEvents' = Tail(radioEvents) /\ told' = TRUE
  /\ NoCall /\ UNCHANGED <<backend, linkUp, waited, sensor, g_backend>>

LinkChanges ==
  /\ Len(radioEvents) < MaxRadioEvents
  /\ linkUp' = ~linkUp
  /\ radioEvents' = Append(radioEvents, IF linkUp THEN "disconnected" ELSE "connected")
  /\ NoCall
  /\ UNCHANGED <<state, elapsed_ms, backend, waited, told, sensor, g_backend>>

PairingOver_After(elapsed) ==  \* a defect
  state = "PAIRING" /\ elapsed > PairingTimeout
PairingOver(elapsed) == state = "PAIRING" /\ elapsed >= PairingTimeout

tick(dt) ==
  LET elapsed == (elapsed_ms + dt) % ElapsedModulus IN
  /\ IF PairingOver(elapsed) THEN Enter("OFF")
     ELSE elapsed_ms' = elapsed /\ UNCHANGED state
  /\ waited' = IF waited + dt < PairingTimeout THEN waited + dt ELSE PairingTimeout
  /\ NoCall
  /\ UNCHANGED <<backend, linkUp, radioEvents, told, sensor, g_backend>>

wireless_send_hid ==
  /\ backend # {} /\ state = "CONNECTED"
  /\ Call("send_hid_report", backend)
  /\ UNCHANGED <<link, sensor, g_backend>>
-----------------------------------------------------------------------------
\* The sensor: all of its callbacks or none.
SensorCallback == {"read", "write", "reset", "motion_asserted"}

transport_complete_NoReset(t) ==  \* a defect
  {"read", "write", "motion_asserted"} \subseteq t
transport_complete(t) == SensorCallback \subseteq t

sensor_bind(v, t) ==
  /\ v \in {"PAW3950", "PAW3955"} /\ transport_complete(t)
  /\ variant' = v /\ transport' = t
  /\ NoCall /\ UNCHANGED <<link, g_backend>>

\* sensor_read_reg, _write_reg, _reset, _motion_asserted
SensorCall(callback) ==
  /\ variant # "UNSET"
  /\ Call(callback, transport)
  /\ UNCHANGED <<link, sensor, g_backend>>
-----------------------------------------------------------------------------
\* The power controller.  Ship mode, which a backend need not have, is
\* looked for at the call.
power_bind(b) ==
  /\ "read_state" \in b
  /\ g_backend' = b
  /\ NoCall /\ UNCHANGED <<link, sensor>>

power_read_state ==
  /\ g_backend # {}
  /\ Call("read_state", g_backend)
  /\ UNCHANGED <<link, sensor, g_backend>>

power_enter_ship_mode ==
  /\ "set_ship_mode" \in g_backend
  /\ Call("set_ship_mode", g_backend)
  /\ UNCHANGED <<link, sensor, g_backend>>
-----------------------------------------------------------------------------
Tick == \E dt \in TickStep : tick(dt)
Bind ==
  \/ \E b \in SUBSET {"send_hid_report", "start_pairing"} : wireless_bind(b)
  \/ \E v \in {"UNSET", "PAW3950", "PAW3955"}, t \in SUBSET SensorCallback :
        sensor_bind(v, t)
  \/ \E b \in SUBSET {"read_state", "set_ship_mode"} : power_bind(b)
Use == \/ wireless_send_hid \/ power_read_state \/ power_enter_ship_mode
       \/ \E c \in SensorCallback : SensorCall(c)

TargetNext == \/ wireless_init \/ on_pair_request \/ RadioTells \/ LinkChanges
              \/ Tick \/ Bind \/ Use

TargetSpec == TargetInit /\ [][TargetNext]_targetVars
-----------------------------------------------------------------------------
TargetTypeOK ==
  /\ state \in {"OFF", "PAIRING", "RECONNECTING", "CONNECTED"}
  /\ elapsed_ms \in 0..ElapsedModulus - 1
  /\ backend \subseteq {"send_hid_report", "start_pairing"}
  /\ linkUp \in BOOLEAN /\ told \in BOOLEAN
  /\ radioEvents \in Seq({"connected", "disconnected"})
  /\ Len(radioEvents) =< MaxRadioEvents
  /\ variant \in {"UNSET", "PAW3950", "PAW3955"} /\ transport \subseteq SensorCallback
  /\ variant = "UNSET" <=> transport = {}
  /\ g_backend \subseteq {"read_state", "set_ship_mode"}
  /\ waited \in 0..PairingTimeout

(***************************************************************************)
(* No callback is called that the bound backend lacks, whatever was bound, *)
(* refused, bound again or cleared before.  Some are checked when they are *)
(* bound, some at the call.  (g6he_wireless.c:26,41,86, g6he_sensor.c:8,   *)
(* g6he_power.c:44,67)                                                     *)
(***************************************************************************)
NoNullCall == \A c \in called : c[1] \in c[2]

(***************************************************************************)
(* Once the radio has told all that happened, and nobody asked for a       *)
(* pairing since, the state is that of the link: a report goes out when,   *)
(* and only when, there is one to send it on.  (g6he_wireless_on_connected, *)
(* _on_disconnected, _tick)                                                *)
(***************************************************************************)
StateFollowsLink == told /\ radioEvents = <<>> => (state = "CONNECTED" <=> linkUp)

(***************************************************************************)
(* Pairing is given up neither before its timeout, whatever ran on the     *)
(* clock before, nor after: one tick past it it is over.                   *)
(* (g6he_wireless_on_pair_request, _tick)                                  *)
(***************************************************************************)
PairingNotCutShort == [][Tick /\ state = "PAIRING" /\ state' = "OFF"
                           => waited' = PairingTimeout]_targetVars
PairingEndsInTime == state = "PAIRING" => waited < PairingTimeout
=============================================================================
