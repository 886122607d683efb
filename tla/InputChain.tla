---------------------------- MODULE InputChain ----------------------------
(***************************************************************************)
(* The input path of the mouse: contacts and Hall samples, fusion and      *)
(* debounce per button (g6he_optomagnetic.c), the ring of events           *)
(* (g6he_event.c) and the mouse report (g6he_hid.c).  The loop that calls  *)
(* them is not in the repository: it may feed, poll, take, push, pop and   *)
(* send in any order, and, as the Zephyr entry point does, it ignores what *)
(* a push returns.                                                         *)
(*                                                                         *)
(* Timestamps and the analog depth are left out, and one relative axis     *)
(* stands for dx, dy and wheel.                                            *)
(***************************************************************************)
EXTENDS Integers, Sequences

CONSTANTS
  Button,
  WithIR, WithHall, ActiveHigh,  \* the buttons so configured
  RawHall, PressThreshold, ReleaseThreshold,
  DebounceMs,
  Elapsed,                       \* the dt_ms a poll may be given
  TickModulus,                   \* 2^16: candidate_ms is a uint16_t
  Capacity,                      \* G6HE_EVENT_QUEUE_CAPACITY
  Motion,                        \* the deltas of motion events
  AxisMax                        \* 127, the bound of clamp_i8

\* g6he_optomagnetic_init refuses a button without a source, or with a Hall
\* channel without hysteresis.
ASSUME ChainAssumption ==
  /\ WithIR \cup WithHall = Button /\ ActiveHigh \subseteq WithIR
  /\ RawHall \subseteq Nat /\ 0 \in RawHall
  /\ PressThreshold \in Nat /\ ReleaseThreshold \in Nat
  /\ ReleaseThreshold < PressThreshold
  /\ TickModulus \in Nat \ {0} /\ DebounceMs \in 0..TickModulus - 1
  /\ Elapsed \subseteq 0..TickModulus - 1
  /\ Capacity \in Nat \ {0}
  /\ Motion \subseteq Int /\ AxisMax \in Nat
-----------------------------------------------------------------------------
VARIABLES
  hallRaw, irClosed, hallPressed, fused, candidate, candidateMs,
  eventPending, pending,  \* pending[b]: the state the pending event reports
  items, head, count,
  buttons, axis,          \* the report
  dropped,                \* history: the last event of b pushed was refused
  sample, steady          \* history: the level polled last, and the time the
                          \* polls agreeing on it add up to, capped

sourceVars == <<hallRaw, irClosed, hallPressed>>
debounceVars == <<fused, candidate, candidateMs, sample, steady>>
pendingVars == <<eventPending, pending>>
ringVars == <<items, head, count>>
reportVars == <<buttons, axis>>
vars == <<sourceVars, debounceVars, pendingVars, ringVars, reportVars, dropped>>

ButtonEvent(b, pressed) == [type |-> "button", id |-> b, pressed |-> pressed]
MotionEvent(d) == [type |-> "motion", delta |-> d]
OtherEvent == [type |-> "other"]  \* mode and battery
NoEvent == [type |-> "none"]      \* the zeroed slot
Event == {ButtonEvent(b, p) : b \in Button, p \in BOOLEAN}
           \cup {MotionEvent(d) : d \in Motion} \cup {OtherEvent}

Slot == 0..Capacity - 1
Axis == -AxisMax..AxisMax
-----------------------------------------------------------------------------
Init ==
  /\ hallRaw = [b \in Button |-> 0]
  /\ irClosed = [b \in Button |-> FALSE]
  /\ hallPressed = [b \in Button |-> FALSE]
  /\ fused = [b \in Button |-> FALSE]
  /\ candidate = [b \in Button |-> FALSE]
  /\ candidateMs = [b \in Button |-> 0]
  /\ eventPending = [b \in Button |-> FALSE]
  /\ pending = [b \in Button |-> FALSE]
  /\ items = [i \in Slot |-> NoEvent] /\ head = 0 /\ count = 0
  /\ buttons = {} /\ axis = 0
  /\ dropped = [b \in Button |-> FALSE]
  /\ sample = [b \in Button |-> FALSE] /\ steady = [b \in Button |-> 0]

feed_hall_raw_OneThreshold(b, raw) ==  \* a defect: the release is never seen
  /\ b \in WithHall
  /\ hallRaw' = [hallRaw EXCEPT ![b] = raw]
  /\ hallPressed' = [hallPressed EXCEPT ![b] = @ \/ raw >= PressThreshold]
  /\ UNCHANGED <<irClosed, debounceVars, pendingVars, ringVars, reportVars,
                 dropped>>
feed_hall_raw(b, raw) ==
  /\ b \in WithHall
  /\ hallRaw' = [hallRaw EXCEPT ![b] = raw]
  /\ hallPressed' = [hallPressed EXCEPT
       ![b] = raw >= PressThreshold \/ (@ /\ raw > ReleaseThreshold)]
  /\ UNCHANGED <<irClosed, debounceVars, pendingVars, ringVars, reportVars,
                 dropped>>

feed_ir(b, level) ==
  /\ b \in WithIR
  /\ irClosed' = [irClosed EXCEPT ![b] = level <=> b \in ActiveHigh]
  /\ UNCHANGED <<hallRaw, hallPressed, debounceVars, pendingVars, ringVars,
                 reportVars, dropped>>

Target(b) == (b \in WithIR /\ irClosed[b]) \/ (b \in WithHall /\ hallPressed[b])

\* What candidate_ms is when a poll disagrees with fused.
Waited_Twice(b, dt) ==  \* a defect: the interval is added twice
  ((IF Target(b) = candidate[b] THEN candidateMs[b] ELSE 0) + 2 * dt)
    % TickModulus
Waited(b, dt) ==
  ((IF Target(b) = candidate[b] THEN candidateMs[b] ELSE 0) + dt) % TickModulus
Accepted_Late(ms) == ms > DebounceMs  \* a defect: off by one
Accepted(ms) == ms >= DebounceMs

Sample(b, dt) ==
  /\ sample' = [sample EXCEPT ![b] = Target(b)]
  /\ steady' = [steady EXCEPT ![b] =
       LET ms == (IF Target(b) = sample[b] THEN @ ELSE 0) + dt
       IN IF ms < TickModulus THEN ms ELSE TickModulus]

\* The event of a change replaces one nobody took.
Emit_KeepsOld(b) ==  \* a defect: an event that waits is kept
  /\ pending' = IF eventPending[b] THEN pending
                ELSE [pending EXCEPT ![b] = Target(b)]
  /\ eventPending' = [eventPending EXCEPT ![b] = TRUE]
Emit(b) ==
  /\ pending' = [pending EXCEPT ![b] = Target(b)]
  /\ eventPending' = [eventPending EXCEPT ![b] = TRUE]

poll(b, dt) ==
  /\ candidate' = [candidate EXCEPT ![b] = Target(b)]
  /\ \/ /\ Target(b) = fused[b]
        /\ candidateMs' = [candidateMs EXCEPT ![b] = 0]
        /\ UNCHANGED <<fused, pendingVars>>
     \/ /\ Target(b) # fused[b] /\ ~Accepted(Waited(b, dt))
        /\ candidateMs' = [candidateMs EXCEPT ![b] = Waited(b, dt)]
        /\ UNCHANGED <<fused, pendingVars>>
     \/ /\ Target(b) # fused[b] /\ Accepted(Waited(b, dt))
        /\ candidateMs' = [candidateMs EXCEPT ![b] = 0]
        /\ fused' = [fused EXCEPT ![b] = Target(b)]
        /\ Emit(b)
  /\ Sample(b, dt)
  /\ UNCHANGED <<sourceVars, ringVars, reportVars, dropped>>
-----------------------------------------------------------------------------
NewSlot_NoWrap(h, n) == IF n = 0 THEN h ELSE n % Capacity  \* a defect
NewSlot(h, n) == (h + n) % Capacity

Room == count < Capacity
event_queue_push(e) ==
  IF Room THEN /\ items' = [items EXCEPT ![NewSlot(head, count)] = e]
               /\ count' = count + 1 /\ UNCHANGED head
  ELSE UNCHANGED ringVars

\* take_event, and the caller's push of what it took.
take_event(b) ==
  /\ eventPending[b]
  /\ eventPending' = [eventPending EXCEPT ![b] = FALSE]
  /\ event_queue_push(ButtonEvent(b, pending[b]))
  /\ dropped' = [dropped EXCEPT ![b] = ~Room]
  /\ UNCHANGED <<pending, sourceVars, debounceVars, reportVars>>

\* The sensor, the mode switch and the power path push into the same queue.
PushOther(e) ==
  /\ event_queue_push(e)
  /\ UNCHANGED <<sourceVars, debounceVars, pendingVars, reportVars, dropped>>

clamp_i8(v) == IF v > AxisMax THEN AxisMax
               ELSE IF v < -AxisMax THEN -AxisMax ELSE v

hid_accumulate(e) ==
  /\ buttons' = IF e.type # "button" THEN buttons
                ELSE IF e.pressed THEN buttons \cup {e.id}
                ELSE buttons \ {e.id}
  /\ axis' = IF e.type = "motion" THEN clamp_i8(axis + e.delta) ELSE axis

event_queue_pop ==
  /\ count > 0
  /\ head' = (head + 1) % Capacity /\ count' = count - 1
  /\ UNCHANGED items

\* The caller accumulates what it pops.
PopAndAccumulate ==
  /\ event_queue_pop
  /\ hid_accumulate(items[head])
  /\ UNCHANGED <<sourceVars, debounceVars, pendingVars, dropped>>

\* encode_boot, and the caller's clearing of the relative axes it has sent.
SendReport ==
  /\ axis' = 0
  /\ UNCHANGED <<sourceVars, debounceVars, pendingVars, ringVars, buttons,
                 dropped>>
-----------------------------------------------------------------------------
Feed(b) == \/ \E raw \in RawHall : feed_hall_raw(b, raw)
           \/ \E level \in BOOLEAN : feed_ir(b, level)
Poll(b) == \E dt \in Elapsed : poll(b, dt)
Others == {MotionEvent(d) : d \in Motion} \cup {OtherEvent}

Next == \/ \E b \in Button : Feed(b) \/ Poll(b) \/ take_event(b)
        \/ \E e \in Others : PushOther(e)
        \/ PopAndAccumulate \/ SendReport

Spec == Init /\ [][Next]_vars

\* A caller whose loop goes on: it polls with the time that passed, takes what
\* is pending and pops what is queued.
LoopSpec ==
  /\ Spec /\ WF_vars(PopAndAccumulate)
  /\ \A b \in Button : /\ WF_vars(\E dt \in Elapsed \ {0} : poll(b, dt))
                       /\ WF_vars(take_event(b))
-----------------------------------------------------------------------------
TypeOK ==
  /\ hallRaw \in [Button -> RawHall]
  /\ irClosed \in [Button -> BOOLEAN] /\ hallPressed \in [Button -> BOOLEAN]
  /\ fused \in [Button -> BOOLEAN] /\ candidate \in [Button -> BOOLEAN]
  /\ candidateMs \in [Button -> 0..TickModulus - 1]
  /\ eventPending \in [Button -> BOOLEAN] /\ pending \in [Button -> BOOLEAN]
  /\ items \in [Slot -> Event \cup {NoEvent}]
  /\ head \in Slot /\ count \in 0..Capacity
  /\ buttons \subseteq Button /\ axis \in Axis
  /\ dropped \in [Button -> BOOLEAN]
  /\ sample \in [Button -> BOOLEAN]
  /\ steady \in [Button -> 0..TickModulus]

Queued == [i \in 1..count |-> items[(head + i - 1) % Capacity]]

(***************************************************************************)
(* The ring is a bounded first-in first-out queue: nothing accepted is     *)
(* overwritten, repeated or reordered, wherever head stands.               *)
(* (g6he_event_queue_push, g6he_event_queue_pop)                           *)
(***************************************************************************)
Fifo == INSTANCE BoundedFifo
          WITH queue <- Queued, Element <- Event, Bound <- Capacity
ImplementsFifo == Fifo!Spec

(***************************************************************************)
(* The debounced state changes only to a level that polls adding up to     *)
(* debounce_ms have seen without interruption, counted from the outside.   *)
(* (g6he_optomagnetic_poll; wrapping of candidate_ms delays, never hurries)*)
(***************************************************************************)
NeverEarly ==
  [][\A b \in Button : fused'[b] # fused[b] =>
       fused'[b] = sample'[b] /\ steady'[b] >= DebounceMs]_vars

(***************************************************************************)
(* And it does change as soon as they have, unless the time has outgrown   *)
(* the 16 bits of candidate_ms in between.                                 *)
(***************************************************************************)
NeverLate ==
  \A b \in Button :
    steady[b] >= DebounceMs /\ steady[b] < TickModulus
      => fused[b] = sample[b]

(***************************************************************************)
(* Following a button's events from the report through the queue to the    *)
(* pending one, the newest says what the debounced state is, unless that   *)
(* event was refused by a full queue: a click may vanish (an event nobody  *)
(* took is replaced), but no button is left standing wrong.                *)
(***************************************************************************)
EventsOf(b) == {ButtonEvent(b, p) : p \in BOOLEAN}
PlacesOf(b) == {i \in 1..count : Queued[i] \in EventsOf(b)}
LastOf(b) == {i \in PlacesOf(b) : \A j \in PlacesOf(b) : j =< i}
NewestSays(b, v) ==
  IF eventPending[b] THEN pending[b] = v
  ELSE /\ \A i \in LastOf(b) : Queued[i].pressed = v
       /\ PlacesOf(b) = {} => (b \in buttons <=> v)
ChainAgrees == \A b \in Button : dropped[b] \/ NewestSays(b, fused[b])

(***************************************************************************)
(* A contact that stays is reported and stays reported, whatever else is   *)
(* moved, pressed or queued: unless the queue refused its last event, or   *)
(* the poll intervals keep wrapping candidate_ms.                          *)
(***************************************************************************)
Closed(b) == (b \in WithIR /\ irClosed[b])
               \/ (b \in WithHall /\ hallRaw[b] >= PressThreshold)
Open(b) == /\ b \in WithIR => ~irClosed[b]
           /\ b \in WithHall => hallRaw[b] <= ReleaseThreshold
Wrapped(b) == steady[b] = TickModulus /\ fused[b] # sample[b]
Excused(b) == <>[]dropped[b] \/ []<>Wrapped(b)
SteadyContactReported ==
  \A b \in Button : /\ <>[]Closed(b) => <>[](b \in buttons) \/ Excused(b)
                    /\ <>[]Open(b) => <>[](b \notin buttons) \/ Excused(b)
=============================================================================
