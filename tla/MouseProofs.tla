----------------------------- MODULE MouseProofs -----------------------------
(***************************************************************************)
(* Proofs about three parts of the mouse's firmware that share no state:   *)
(* the button input chain, the settings store and the wireless link.       *)
(***************************************************************************)
EXTENDS InputChain, Settings, Target, SequenceTheorems, TLAPS

-----------------------------------------------------------------------------
(***************************************************************************)
(* InputChain, for any buttons, thresholds, debounce time, poll intervals, *)
(* width of the tick counter and capacity of the ring.                     *)
(***************************************************************************)
\* candidate is the level polled last; while it differs from the debounced
\* state, candidate_ms is the time it was seen, until that wraps.
DebounceInv ==
  \A b \in Button :
    /\ candidate[b] = sample[b]
    /\ fused[b] # sample[b] =>
         /\ candidateMs[b] =< steady[b]
         /\ steady[b] < TickModulus => /\ candidateMs[b] = steady[b]
                                       /\ steady[b] < DebounceMs

\* An event that waits reports the present state, dropped or not.
PendingInv == \A b \in Button : eventPending[b] => pending[b] = fused[b]

IndInv == TypeOK /\ DebounceInv /\ PendingInv /\ ChainAgrees
-----------------------------------------------------------------------------
(***************************************************************************)
(* The ring.                                                               *)
(***************************************************************************)
\* Append and Tail as functions.
LEMMA AppendIs ==
  ASSUME NEW S, NEW q \in Seq(S), NEW e \in S
  PROVE  Append(q, e) =
           [i \in 1..Len(q) + 1 |-> IF i = Len(q) + 1 THEN e ELSE q[i]]
<1> DEFINE n == Len(q) + 1
           r == [i \in 1..n |-> IF i = n THEN e ELSE q[i]]
<1>1. n \in Nat /\ \A i \in 1..n : i # n => i \in 1..Len(q) /\ q[i] \in S
  BY LenProperties
<1>2. r \in [1..n -> S]
  <2> HIDE DEF n
  <2> QED
    BY <1>1
<1>3. r \in Seq(S) /\ Len(r) = n
  <2> HIDE DEF r, n
  <2> QED
    BY <1>1, <1>2
<1>4. Append(q, e) \in Seq(S) /\ Len(Append(q, e)) = n
  OBVIOUS
<1>5. ASSUME NEW i \in 1..n PROVE Append(q, e)[i] = r[i]
  OBVIOUS
<1>6. Append(q, e) = r
  <2> HIDE DEF r, n
  <2> QED
    BY <1>3, <1>4, <1>5, SeqEqual
<1> QED
  BY <1>6

LEMMA TailIs ==
  ASSUME NEW S, NEW q \in Seq(S), q # <<>>
  PROVE  Tail(q) = [i \in 1..Len(q) - 1 |-> q[i + 1]]
<1> DEFINE n == Len(q) - 1
           r == [i \in 1..n |-> q[i + 1]]
<1>1. n \in Nat /\ \A i \in 1..n : i + 1 \in 1..Len(q) /\ q[i + 1] \in S
  BY LenProperties, EmptySeq
<1>2. r \in [1..n -> S]
  <2> HIDE DEF n
  <2> QED
    BY <1>1
<1>3. r \in Seq(S) /\ Len(r) = n
  <2> HIDE DEF r, n
  <2> QED
    BY <1>1, <1>2
<1>4. Tail(q) \in Seq(S) /\ Len(Tail(q)) = n
  BY HeadTailProperties
<1>5. ASSUME NEW i \in 1..n PROVE Tail(q)[i] = r[i]
  BY HeadTailProperties
<1>6. Tail(q) = r
  <2> HIDE DEF r, n
  <2> QED
    BY <1>3, <1>4, <1>5, SeqEqual
<1> QED
  BY <1>6

\* Where the n-th place after head is.
LEMMA SlotOf ==
  ASSUME NEW h \in Slot, NEW n \in 0..Capacity
  PROVE  /\ (h + n) % Capacity \in Slot
         /\ h + n < Capacity => (h + n) % Capacity = h + n
         /\ h + n >= Capacity => (h + n) % Capacity = h + n - Capacity
<1>1. Capacity \in Nat \ {0} /\ h \in 0..Capacity - 1
  BY ChainAssumption DEF Slot
<1>2. CASE h + n < Capacity
  <2>1. (h + n) % Capacity = h + n
    BY <1>1, <1>2
  <2> QED
    BY <1>1, <1>2, <2>1 DEF Slot
<1>3. CASE h + n >= Capacity
  <2>1. (h + n) % Capacity = h + n - Capacity
    BY <1>1, <1>3
  <2> QED
    BY <1>1, <1>3, <2>1 DEF Slot
<1> QED
  BY <1>1, <1>2, <1>3

\* Two places of the ring are two slots.
LEMMA SlotsDiffer ==
  ASSUME NEW h \in Slot, NEW m \in 0..Capacity - 1, NEW n \in 0..Capacity - 1,
         m # n
  PROVE  (h + m) % Capacity # (h + n) % Capacity
<1>1. Capacity \in Nat \ {0} /\ h \in 0..Capacity - 1
  BY ChainAssumption DEF Slot
<1>2. m \in 0..Capacity /\ n \in 0..Capacity
  BY <1>1
<1> QED
  BY <1>1, <1>2, SlotOf

LEMMA QueuedIsSeq ==
  ASSUME TypeOK
  PROVE  Queued \in Seq(Event \cup {NoEvent}) /\ Len(Queued) = count
<1>1. /\ Capacity \in Nat \ {0} /\ head \in Slot /\ count \in 0..Capacity
      /\ items \in [Slot -> Event \cup {NoEvent}]
  BY ChainAssumption DEF TypeOK
<1>2. ASSUME NEW i \in 1..count
      PROVE  items[(head + i - 1) % Capacity] \in Event \cup {NoEvent}
  <2>1. i - 1 \in 0..Capacity /\ head + i - 1 = head + (i - 1)
    BY <1>1 DEF Slot
  <2>2. (head + (i - 1)) % Capacity \in Slot
    BY <1>1, <2>1, SlotOf
  <2> QED
    BY <1>1, <2>1, <2>2
<1> DEFINE E == Event \cup {NoEvent}
<1>3. Queued \in [1..count -> E]
  BY <1>2 DEF Queued
<1>4. Queued \in Seq(E) /\ Len(Queued) = count
  <2> HIDE DEF E
  <2>1. count \in Nat
    BY <1>1
  <2> QED
    BY <1>3, <2>1
<1> QED
  BY <1>4

\* A push into a ring with room appends.
LEMMA PushAppends ==
  ASSUME TypeOK, NEW e \in Event, Room, event_queue_push(e)
  PROVE  /\ Queued' = Append(Queued, e)
         /\ items' \in [Slot -> Event \cup {NoEvent}]
         /\ head' = head /\ count' = count + 1 /\ count' \in 0..Capacity
<1>1. /\ Capacity \in Nat \ {0} /\ head \in Slot /\ count \in 0..Capacity - 1
      /\ items \in [Slot -> Event \cup {NoEvent}]
  BY ChainAssumption DEF TypeOK, Room
<1>2. /\ items' = [items EXCEPT ![NewSlot(head, count)] = e]
      /\ count' = count + 1 /\ head' = head
  BY DEF event_queue_push
<1>3. NewSlot(head, count) \in Slot
  BY <1>1, SlotOf DEF NewSlot
<1>4. ASSUME NEW i \in 1..count
      PROVE  items'[(head + i - 1) % Capacity] = items[(head + i - 1) % Capacity]
  <2>1. /\ i - 1 \in 0..Capacity - 1 /\ count \in 0..Capacity - 1 /\ i - 1 # count
        /\ i - 1 \in 0..Capacity
    BY <1>1
  <2>2. head + i - 1 = head + (i - 1)
    BY <1>1 DEF Slot
  <2>3. (head + (i - 1)) % Capacity # (head + count) % Capacity
    BY <1>1, <2>1, SlotsDiffer
  <2>4. (head + (i - 1)) % Capacity \in Slot
    BY <1>1, <2>1, SlotOf
  <2> QED
    BY <1>1, <1>2, <2>2, <2>3, <2>4 DEF NewSlot
<1>5. items'[(head + (count + 1) - 1) % Capacity] = e
  <2>1. head + (count + 1) - 1 = head + count
    BY <1>1 DEF Slot
  <2> QED
    BY <1>1, <1>2, <1>3, <2>1 DEF NewSlot
<1>6. Queued' = [i \in 1..count + 1 |-> items'[(head + i - 1) % Capacity]]
  BY <1>2 DEF Queued
<1>7. Append(Queued, e) =
        [i \in 1..count + 1 |->
           IF i = count + 1 THEN e ELSE items[(head + i - 1) % Capacity]]
  <2>1. Queued \in Seq(Event \cup {NoEvent}) /\ Len(Queued) = count
    BY QueuedIsSeq
  <2>2. Append(Queued, e) =
          [i \in 1..count + 1 |-> IF i = count + 1 THEN e ELSE Queued[i]]
    BY <2>1, AppendIs
  <2>3. \A i \in 1..count + 1 :
          i # count + 1 => Queued[i] = items[(head + i - 1) % Capacity]
    BY <1>1 DEF Queued
  <2> QED
    BY <2>2, <2>3
<1>8. ASSUME NEW i \in 1..count + 1
      PROVE  items'[(head + i - 1) % Capacity] =
               IF i = count + 1 THEN e ELSE items[(head + i - 1) % Capacity]
  <2>1. CASE i = count + 1
    BY <2>1, <1>5
  <2>2. CASE i # count + 1
    BY <2>2, <1>1, <1>4
  <2> QED
    BY <2>1, <2>2
<1>9. Queued' = Append(Queued, e)
  BY <1>6, <1>7, <1>8
<1> QED
  BY <1>1, <1>2, <1>3, <1>9

\* A pop takes the first.
LEMMA PopTakes ==
  ASSUME TypeOK, event_queue_pop
  PROVE  /\ Queued' = Tail(Queued) /\ Queued # <<>> /\ count \in 1..Capacity
         /\ Queued[1] = items[head]
         /\ head' \in Slot /\ count' = count - 1 /\ items' = items
<1>1. /\ Capacity \in Nat \ {0} /\ head \in Slot /\ count \in 1..Capacity
      /\ items' = items /\ count' = count - 1 /\ head' = (head + 1) % Capacity
  BY ChainAssumption DEF TypeOK, event_queue_pop
<1>2. Queued \in Seq(Event \cup {NoEvent}) /\ Len(Queued) = count
  BY QueuedIsSeq
<1>3. head' \in Slot
  <2>1. 1 \in 0..Capacity
    BY <1>1
  <2> QED
    BY <1>1, <2>1, SlotOf
<1>4. ASSUME NEW i \in 1..count - 1
      PROVE  (head' + i - 1) % Capacity = (head + (i + 1) - 1) % Capacity
  <2>1. /\ 1 \in 0..Capacity /\ i \in 0..Capacity /\ i - 1 \in 0..Capacity
        /\ i < Capacity
    BY <1>1
  <2>2. head \in 0..Capacity - 1 /\ head' \in 0..Capacity - 1
    BY <1>1, <1>3 DEF Slot
  <2>3. head + (i + 1) - 1 = head + i /\ head' + i - 1 = head' + (i - 1)
    BY <2>1, <2>2
  <2>4. CASE head + 1 < Capacity
    <3>1. head' = head + 1
      BY <1>1, <2>1, <2>4, SlotOf
    <3> QED
      BY <2>1, <2>2, <2>3, <3>1
  <2>5. CASE head + 1 >= Capacity
    <3>1. head = Capacity - 1 /\ head' = 0
      <4>1. head' = head + 1 - Capacity
        BY <1>1, <2>1, <2>5, SlotOf
      <4> QED
        BY <1>1, <2>2, <2>5, <4>1
    <3>2. (head + i) % Capacity = head + i - Capacity
      <4>1. head + i >= Capacity
        BY <1>1, <2>1, <3>1
      <4> QED
        BY <1>1, <2>1, <4>1, SlotOf
    <3>3. (head' + (i - 1)) % Capacity = head' + (i - 1)
      <4>1. head' + (i - 1) < Capacity
        BY <1>1, <2>1, <3>1
      <4> QED
        BY <1>3, <2>1, <4>1, SlotOf
    <3>4. head + i - Capacity = head' + (i - 1)
      BY <1>1, <2>1, <3>1
    <3> QED
      BY <2>3, <3>2, <3>3, <3>4
  <2> QED
    BY <2>2, <2>4, <2>5, <1>1
<1>5. Queued' = [i \in 1..count - 1 |-> items[(head' + i - 1) % Capacity]]
  BY <1>1 DEF Queued
<1>6. Tail(Queued) = [i \in 1..count - 1 |-> Queued[i + 1]]
  <2>1. Queued # <<>>
    BY <1>1, <1>2, EmptySeq
  <2> QED
    BY <1>2, <2>1, TailIs
<1>7. \A i \in 1..count - 1 : Queued[i + 1] = items[(head + (i + 1) - 1) % Capacity]
  BY <1>1 DEF Queued
<1>8. Queued' = Tail(Queued)
  BY <1>4, <1>5, <1>6, <1>7
<1>9. Queued[1] = items[head]
  <2>1. head + 1 - 1 = head + 0 /\ 0 \in 0..Capacity /\ head + 0 < Capacity
    BY <1>1 DEF Slot
  <2>2. (head + 0) % Capacity = head
    <3>1. (head + 0) % Capacity = head + 0
      BY <1>1, <2>1, SlotOf
    <3> QED
      BY <1>1, <3>1 DEF Slot
  <2>3. Queued[1] = items[(head + 1 - 1) % Capacity]
    BY <1>1 DEF Queued
  <2> QED
    BY <2>1, <2>2, <2>3
<1> QED
  BY <1>1, <1>2, <1>3, <1>8, <1>9
-----------------------------------------------------------------------------
(***************************************************************************)
(* Every variable keeps its type.                                          *)
(***************************************************************************)
LEMMA InitInv == Init => IndInv
<1> SUFFICES ASSUME Init PROVE IndInv
  OBVIOUS
<1>1. TypeOK
  <2>1. 0 \in Slot /\ 0 \in 0..Capacity /\ 0 \in Axis
        /\ 0 \in 0..TickModulus - 1 /\ 0 \in 0..TickModulus /\ 0 \in RawHall
    BY ChainAssumption DEF Slot, Axis
  <2> QED
    BY <2>1 DEF Init, TypeOK
<1>2. DebounceInv /\ PendingInv
  BY DEF Init, DebounceInv, PendingInv
<1>3. ChainAgrees
  <2>1. \A b \in Button : PlacesOf(b) = {}
    <3>1. count = 0 /\ 1..count = {}
      BY DEF Init
    <3> QED
      BY <3>1 DEF PlacesOf
  <2>2. \A b \in Button : LastOf(b) = {}
    BY <2>1 DEF LastOf
  <2> QED
    BY <2>1, <2>2 DEF Init, ChainAgrees, NewestSays
<1> QED
  BY <1>1, <1>2, <1>3 DEF IndInv

\* The tick counter stays within its width.
LEMMA WaitedRange ==
  ASSUME TypeOK, NEW b \in Button, NEW dt \in Elapsed
  PROVE  /\ Waited(b, dt) \in 0..TickModulus - 1
         /\ LET ms == IF Target(b) = candidate[b] THEN candidateMs[b] ELSE 0
            IN /\ Waited(b, dt) =< ms + dt
               /\ ms + dt < TickModulus => Waited(b, dt) = ms + dt
<1> DEFINE ms == IF Target(b) = candidate[b] THEN candidateMs[b] ELSE 0
<1>1. /\ TickModulus \in Nat \ {0} /\ dt \in 0..TickModulus - 1
      /\ ms \in 0..TickModulus - 1
  BY ChainAssumption DEF TypeOK
<1>2. Waited(b, dt) = (ms + dt) % TickModulus
  BY DEF Waited
<1> HIDE DEF ms
<1>3. CASE ms + dt < TickModulus
  <2>1. (ms + dt) % TickModulus = ms + dt
    BY <1>1, <1>3
  <2> QED
    BY <1>1, <1>2, <1>3, <2>1 DEF ms
<1>4. CASE ms + dt >= TickModulus
  <2>1. (ms + dt) % TickModulus = ms + dt - TickModulus
    BY <1>1, <1>4
  <2> QED
    BY <1>1, <1>2, <1>4, <2>1 DEF ms
<1> QED
  BY <1>1, <1>3, <1>4

LEMMA SteadyRange ==
  ASSUME TypeOK, NEW b \in Button, NEW dt \in Elapsed, Sample(b, dt)
  PROVE  /\ steady' \in [Button -> 0..TickModulus]
         /\ sample' = [sample EXCEPT ![b] = Target(b)]
         /\ \A c \in Button : c # b => steady'[c] = steady[c]
         /\ LET ms == (IF Target(b) = sample[b] THEN steady[b] ELSE 0) + dt
            IN steady'[b] = IF ms < TickModulus THEN ms ELSE TickModulus
<1>1. /\ TickModulus \in Nat \ {0} /\ dt \in 0..TickModulus - 1
      /\ steady \in [Button -> 0..TickModulus]
  BY ChainAssumption DEF TypeOK
<1> QED
  BY <1>1 DEF Sample

LEMMA TypePoll ==
  ASSUME TypeOK, NEW b \in Button, NEW dt \in Elapsed, poll(b, dt)
  PROVE  TypeOK'
<1>1. Target(b) \in BOOLEAN /\ 0 \in 0..TickModulus - 1
      /\ Waited(b, dt) \in 0..TickModulus - 1
  BY ChainAssumption, WaitedRange DEF Target
<1>2. /\ candidate' = [candidate EXCEPT ![b] = Target(b)]
      /\ sample' = [sample EXCEPT ![b] = Target(b)]
      /\ steady' \in [Button -> 0..TickModulus]
  BY SteadyRange DEF poll
<1>3. /\ candidateMs' \in [Button -> 0..TickModulus - 1]
      /\ fused' \in [Button -> BOOLEAN]
      /\ eventPending' \in [Button -> BOOLEAN] /\ pending' \in [Button -> BOOLEAN]
  <2>1. CASE Target(b) = fused[b]
    BY <2>1, <1>1 DEF poll, TypeOK, pendingVars
  <2>2. CASE Target(b) # fused[b] /\ ~Accepted(Waited(b, dt))
    BY <2>2, <1>1 DEF poll, TypeOK, pendingVars
  <2>3. CASE Target(b) # fused[b] /\ Accepted(Waited(b, dt))
    <3>1. /\ candidateMs' = [candidateMs EXCEPT ![b] = 0]
          /\ fused' = [fused EXCEPT ![b] = Target(b)]
          /\ pending' = [pending EXCEPT ![b] = Target(b)]
          /\ eventPending' = [eventPending EXCEPT ![b] = TRUE]
      BY <2>3 DEF poll, Emit
    <3> QED
      BY <3>1, <1>1 DEF TypeOK
  <2> QED
    BY <2>1, <2>2, <2>3
<1> QED
  BY <1>1, <1>2, <1>3 DEF poll, TypeOK, sourceVars, ringVars, reportVars

\* What an event does to the report.
LEMMA Accumulation ==
  ASSUME TypeOK, NEW e \in Event \cup {NoEvent}, hid_accumulate(e)
  PROVE  /\ buttons' \subseteq Button /\ axis' \in Axis
         /\ \A b \in Button, p \in BOOLEAN :
              e = ButtonEvent(b, p) => (b \in buttons' <=> p)
         /\ \A b \in Button :
              e \notin EventsOf(b)
                => (b \in buttons' <=> b \in buttons)
<1>1. axis' \in Axis
  <2>1. AxisMax \in Nat /\ axis \in Int /\ axis \in Axis
    BY ChainAssumption DEF TypeOK, Axis
  <2>2. CASE e.type = "motion"
    <3>1. e.delta \in Int
      BY <2>2, ChainAssumption
      DEF Event, ButtonEvent, MotionEvent, OtherEvent, NoEvent
    <3>2. axis + e.delta \in Int /\ axis' = clamp_i8(axis + e.delta)
      BY <2>1, <2>2, <3>1 DEF hid_accumulate
    <3>3. \A v \in Int : clamp_i8(v) \in Axis
      BY <2>1 DEF clamp_i8, Axis
    <3> QED
      BY <3>2, <3>3
  <2> QED
    BY <2>1, <2>2 DEF hid_accumulate
<1>2. CASE e.type # "button"
  <2>1. buttons' = buttons
    BY <1>2 DEF hid_accumulate
  <2>2. \A b \in Button, p \in BOOLEAN : e # ButtonEvent(b, p)
    BY <1>2 DEF ButtonEvent
  <2> QED
    BY <1>1, <2>1, <2>2 DEF TypeOK
<1>3. CASE e.type = "button"
  <2>1. PICK c \in Button, q \in BOOLEAN : e = ButtonEvent(c, q)
    BY <1>3 DEF Event, MotionEvent, OtherEvent, NoEvent
  <2>2. e.id = c /\ e.pressed = q
    BY <2>1 DEF ButtonEvent
  <2>3. buttons' = IF q THEN buttons \cup {c} ELSE buttons \ {c}
    BY <1>3, <2>2 DEF hid_accumulate
  <2>4. \A b \in Button, p \in BOOLEAN :
          e = ButtonEvent(b, p) => b = c /\ p = q
    BY <2>2 DEF ButtonEvent
  <2> QED
    BY <1>1, <2>1, <2>3, <2>4 DEF TypeOK, EventsOf
<1> QED
  BY <1>2, <1>3

LEMMA PushType ==
  ASSUME TypeOK, NEW e \in Event, event_queue_push(e)
  PROVE  items' \in [Slot -> Event \cup {NoEvent}] /\ head' \in Slot
         /\ count' \in 0..Capacity
BY PushAppends DEF event_queue_push, ringVars, TypeOK

LEMMA TypeNext ==
  ASSUME TypeOK, [Next]_vars
  PROVE  TypeOK'
<1>1. ASSUME NEW b \in Button, Feed(b) PROVE TypeOK'
  <2>1. ASSUME NEW raw \in RawHall, feed_hall_raw(b, raw) PROVE TypeOK'
    <3>1. hallRaw' \in [Button -> RawHall] /\ hallPressed' \in [Button -> BOOLEAN]
      BY <2>1 DEF feed_hall_raw, TypeOK
    <3> QED
      BY <2>1, <3>1
      DEF feed_hall_raw, TypeOK, debounceVars, pendingVars, ringVars, reportVars
  <2>2. ASSUME NEW level \in BOOLEAN, feed_ir(b, level) PROVE TypeOK'
    <3>1. irClosed' \in [Button -> BOOLEAN]
      BY <2>2 DEF feed_ir, TypeOK
    <3> QED
      BY <2>2, <3>1
      DEF feed_ir, TypeOK, debounceVars, pendingVars, ringVars, reportVars
  <2> QED
    BY <1>1, <2>1, <2>2 DEF Feed
<1>2. ASSUME NEW b \in Button, Poll(b) PROVE TypeOK'
  BY <1>2, TypePoll DEF Poll
<1>3. ASSUME NEW b \in Button, take_event(b) PROVE TypeOK'
  <2>1. ButtonEvent(b, pending[b]) \in Event
    BY DEF TypeOK, Event
  <2>2. items' \in [Slot -> Event \cup {NoEvent}] /\ head' \in Slot
        /\ count' \in 0..Capacity
    BY <1>3, <2>1, PushType DEF take_event
  <2>3. Room \in BOOLEAN
    BY DEF Room
  <2> QED
    BY <1>3, <2>2, <2>3 DEF take_event, TypeOK, sourceVars, debounceVars, reportVars
<1>4. ASSUME NEW e \in Others, PushOther(e) PROVE TypeOK'
  <2>1. e \in Event
    BY DEF Others, Event
  <2>2. items' \in [Slot -> Event \cup {NoEvent}] /\ head' \in Slot
        /\ count' \in 0..Capacity
    BY <1>4, <2>1, PushType DEF PushOther
  <2> QED
    BY <1>4, <2>2
    DEF PushOther, TypeOK, sourceVars, debounceVars, pendingVars, reportVars
<1>5. CASE PopAndAccumulate
  <2>1. items' = items /\ head' \in Slot /\ count' = count - 1
        /\ count \in 1..Capacity
    BY <1>5, PopTakes DEF PopAndAccumulate
  <2>2. count' \in 0..Capacity
    BY <2>1, ChainAssumption
  <2>3. buttons' \subseteq Button /\ axis' \in Axis
    <3>1. items[head] \in Event \cup {NoEvent}
      BY DEF TypeOK
    <3> QED
      BY <1>5, <3>1, Accumulation DEF PopAndAccumulate
  <2> QED
    BY <1>5, <2>1, <2>2, <2>3
    DEF PopAndAccumulate, TypeOK, sourceVars, debounceVars, pendingVars
<1>6. CASE SendReport
  <2>1. 0 \in Axis
    BY ChainAssumption DEF Axis
  <2> QED
    BY <1>6, <2>1
    DEF SendReport, TypeOK, sourceVars, debounceVars, pendingVars, ringVars
<1>7. CASE UNCHANGED vars
  BY <1>7 DEF vars, TypeOK, sourceVars, debounceVars, pendingVars, ringVars, reportVars
<1> QED
  BY <1>1, <1>2, <1>3, <1>4, <1>5, <1>6, <1>7 DEF Next
-----------------------------------------------------------------------------
(***************************************************************************)
(* The debounce.                                                           *)
(***************************************************************************)
\* What a poll leaves of its button, case by case, and of the others.
LEMMA PollEffect ==
  ASSUME TypeOK, NEW b \in Button, NEW dt \in Elapsed, poll(b, dt)
  PROVE  /\ candidate'[b] = Target(b) /\ sample'[b] = Target(b)
         /\ \/ /\ Target(b) = fused[b] /\ fused'[b] = fused[b]
               /\ UNCHANGED pendingVars
            \/ /\ Target(b) # fused[b] /\ Waited(b, dt) < DebounceMs
               /\ candidateMs'[b] = Waited(b, dt) /\ fused'[b] = fused[b]
               /\ UNCHANGED pendingVars
            \/ /\ Target(b) # fused[b] /\ Waited(b, dt) >= DebounceMs
               /\ fused'[b] = Target(b)
               /\ pending' = [pending EXCEPT ![b] = Target(b)]
               /\ eventPending' = [eventPending EXCEPT ![b] = TRUE]
         /\ \A c \in Button : c # b =>
              /\ fused'[c] = fused[c] /\ candidate'[c] = candidate[c]
              /\ candidateMs'[c] = candidateMs[c] /\ sample'[c] = sample[c]
              /\ steady'[c] = steady[c]
<1>1. candidate' = [candidate EXCEPT ![b] = Target(b)]
      /\ sample' = [sample EXCEPT ![b] = Target(b)]
  BY DEF poll, Sample
<1>2. candidate'[b] = Target(b) /\ sample'[b] = Target(b)
  BY <1>1 DEF TypeOK
<1>3. /\ Waited(b, dt) \in Int /\ DebounceMs \in Int
      /\ \A ms : Accepted(ms) <=> ms >= DebounceMs
  BY ChainAssumption, WaitedRange DEF Accepted
<1>4. \A c \in Button : c # b => steady'[c] = steady[c]
  BY SteadyRange DEF poll
<1>5. CASE Target(b) = fused[b]
  <2>1. /\ candidateMs' = [candidateMs EXCEPT ![b] = 0]
        /\ UNCHANGED <<fused, pendingVars>>
    BY <1>5 DEF poll
  <2> QED
    BY <1>1, <1>2, <1>4, <1>5, <2>1 DEF TypeOK
<1>6. CASE Target(b) # fused[b] /\ ~Accepted(Waited(b, dt))
  <2>1. /\ candidateMs' = [candidateMs EXCEPT ![b] = Waited(b, dt)]
        /\ UNCHANGED <<fused, pendingVars>>
    BY <1>6 DEF poll
  <2>2. Waited(b, dt) < DebounceMs
    BY <1>3, <1>6
  <2> QED
    BY <1>1, <1>2, <1>4, <1>6, <2>1, <2>2 DEF TypeOK
<1>7. CASE Target(b) # fused[b] /\ Accepted(Waited(b, dt))
  <2>1. /\ candidateMs' = [candidateMs EXCEPT ![b] = 0]
        /\ fused' = [fused EXCEPT ![b] = Target(b)]
        /\ pending' = [pending EXCEPT ![b] = Target(b)]
        /\ eventPending' = [eventPending EXCEPT ![b] = TRUE]
    BY <1>7 DEF poll, Emit
  <2>2. Waited(b, dt) >= DebounceMs
    BY <1>3, <1>7
  <2> QED
    BY <1>1, <1>2, <1>4, <1>7, <2>1, <2>2 DEF TypeOK
<1> QED
  BY <1>5, <1>6, <1>7

\* While the level differs from the debounced state, the time kept by a poll is
\* at most the time seen from the outside.
LEMMA WaitedIsSteady ==
  ASSUME TypeOK, DebounceInv, NEW b \in Button, NEW dt \in Elapsed, Sample(b, dt),
         Target(b) # fused[b]
  PROVE  /\ Waited(b, dt) =< steady'[b]
         /\ steady'[b] < TickModulus => Waited(b, dt) = steady'[b]
<1> DEFINE ms == IF Target(b) = candidate[b] THEN candidateMs[b] ELSE 0
           st == IF Target(b) = sample[b] THEN steady[b] ELSE 0
<1>1. /\ TickModulus \in Nat \ {0} /\ dt \in 0..TickModulus - 1
      /\ ms \in 0..TickModulus - 1 /\ st \in 0..TickModulus
  BY ChainAssumption DEF TypeOK
<1>2. ms =< st /\ (st < TickModulus => ms = st)
  <2>1. candidate[b] = sample[b]
    BY DEF DebounceInv
  <2>2. CASE Target(b) = sample[b]
    BY <2>1, <2>2 DEF DebounceInv
  <2>3. CASE Target(b) # sample[b]
    BY <2>1, <2>3
  <2> QED
    BY <2>2, <2>3
<1>3. /\ Waited(b, dt) \in 0..TickModulus - 1 /\ Waited(b, dt) =< ms + dt
      /\ ms + dt < TickModulus => Waited(b, dt) = ms + dt
  BY WaitedRange
<1>4. steady'[b] = IF st + dt < TickModulus THEN st + dt ELSE TickModulus
  BY SteadyRange
<1> HIDE DEF ms, st
<1> QED
  BY <1>1, <1>2, <1>3, <1>4

LEMMA DebouncePoll ==
  ASSUME TypeOK, DebounceInv, PendingInv, NEW b \in Button, NEW dt \in Elapsed,
         poll(b, dt)
  PROVE  /\ DebounceInv' /\ PendingInv'
         /\ \A c \in Button : fused'[c] # fused[c] =>
              fused'[c] = sample'[c] /\ steady'[c] >= DebounceMs
<1>1. Sample(b, dt)
  BY DEF poll
<1>2. /\ Target(b) \in BOOLEAN /\ fused[b] \in BOOLEAN
      /\ Waited(b, dt) \in Int /\ DebounceMs \in Int /\ TickModulus \in Int
      /\ steady'[b] \in Int
  BY <1>1, ChainAssumption, WaitedRange, SteadyRange DEF Target, TypeOK
<1>3. DebounceInv'
  <2>1. candidate'[b] = sample'[b]
    BY PollEffect
  <2>2. fused'[b] # sample'[b] =>
          /\ candidateMs'[b] =< steady'[b]
          /\ steady'[b] < TickModulus => /\ candidateMs'[b] = steady'[b]
                                         /\ steady'[b] < DebounceMs
    <3> SUFFICES ASSUME fused'[b] # sample'[b]
        PROVE /\ candidateMs'[b] =< steady'[b]
              /\ steady'[b] < TickModulus => /\ candidateMs'[b] = steady'[b]
                                             /\ steady'[b] < DebounceMs
      OBVIOUS
    <3>1. /\ Target(b) # fused[b] /\ Waited(b, dt) < DebounceMs
          /\ candidateMs'[b] = Waited(b, dt)
      BY PollEffect
    <3> QED
      BY <1>1, <1>2, <3>1, WaitedIsSteady
  <2>3. \A c \in Button : c # b =>
          /\ fused'[c] = fused[c] /\ candidate'[c] = candidate[c]
          /\ candidateMs'[c] = candidateMs[c] /\ sample'[c] = sample[c]
          /\ steady'[c] = steady[c]
    BY PollEffect
  <2> QED
    BY <2>1, <2>2, <2>3 DEF DebounceInv
<1>4. PendingInv'
  <2>1. \A c \in Button : c # b => fused'[c] = fused[c]
    BY PollEffect
  <2>2. CASE UNCHANGED pendingVars /\ fused'[b] = fused[b]
    BY <2>1, <2>2 DEF PendingInv, pendingVars
  <2>3. CASE /\ fused'[b] = Target(b)
             /\ pending' = [pending EXCEPT ![b] = Target(b)]
             /\ eventPending' = [eventPending EXCEPT ![b] = TRUE]
    BY <2>1, <2>3 DEF PendingInv, TypeOK
  <2> QED
    BY <2>2, <2>3, PollEffect
<1>5. ASSUME NEW c \in Button, fused'[c] # fused[c]
      PROVE  fused'[c] = sample'[c] /\ steady'[c] >= DebounceMs
  <2>1. c = b
    BY <1>5, PollEffect
  <2>2. /\ Target(b) # fused[b] /\ Waited(b, dt) >= DebounceMs
        /\ fused'[b] = Target(b) /\ sample'[b] = Target(b)
    BY <1>5, <2>1, PollEffect
  <2> QED
    BY <1>1, <1>2, <2>1, <2>2, WaitedIsSteady
<1> QED
  BY <1>3, <1>4, <1>5

\* No other step touches the debounce, and only taking clears an event.
LEMMA DebounceNext ==
  ASSUME TypeOK, DebounceInv, PendingInv, [Next]_vars
  PROVE  /\ DebounceInv' /\ PendingInv'
         /\ \A c \in Button : fused'[c] # fused[c] =>
              fused'[c] = sample'[c] /\ steady'[c] >= DebounceMs
<1>1. ASSUME NEW b \in Button, Poll(b)
      PROVE  /\ DebounceInv' /\ PendingInv'
             /\ \A c \in Button : fused'[c] # fused[c] =>
                  fused'[c] = sample'[c] /\ steady'[c] >= DebounceMs
  BY <1>1, DebouncePoll DEF Poll
<1>2. ASSUME UNCHANGED debounceVars, pending' = pending,
             \A c \in Button : eventPending'[c] => eventPending[c]
      PROVE  /\ DebounceInv' /\ PendingInv'
             /\ \A c \in Button : fused'[c] # fused[c] =>
                  fused'[c] = sample'[c] /\ steady'[c] >= DebounceMs
  BY <1>2 DEF debounceVars, DebounceInv, PendingInv
<1>3. ASSUME ~(\E b \in Button : Poll(b))
      PROVE  /\ UNCHANGED debounceVars /\ pending' = pending
             /\ \A c \in Button : eventPending'[c] => eventPending[c]
  <2>1. ASSUME NEW b \in Button, take_event(b)
        PROVE  /\ UNCHANGED debounceVars /\ pending' = pending
               /\ \A c \in Button : eventPending'[c] => eventPending[c]
    BY <2>1 DEF take_event, TypeOK
  <2>2. ASSUME ~(\E b \in Button : take_event(b))
        PROVE  UNCHANGED <<debounceVars, pendingVars>>
    BY <1>3, <2>2
    DEF Next, Feed, feed_hall_raw, feed_ir, PushOther, PopAndAccumulate, SendReport,
        vars
  <2> QED
    BY <2>1, <2>2 DEF pendingVars
<1> QED
  BY <1>1, <1>2, <1>3
-----------------------------------------------------------------------------
(***************************************************************************)
(* The chain from the report to the pending event.                         *)
(***************************************************************************)
\* A push adds its place behind all others.
LEMMA PushPlaces ==
  ASSUME TypeOK, NEW e \in Event, Room, event_queue_push(e), NEW b \in Button
  PROVE  /\ e \in EventsOf(b) => /\ count + 1 \in PlacesOf(b)'
                                /\ LastOf(b)' \subseteq {count + 1}
         /\ e \notin EventsOf(b) => PlacesOf(b)' = PlacesOf(b) /\ LastOf(b)' = LastOf(b)
         /\ Queued'[count + 1] = e
         /\ \A i \in 1..count : Queued'[i] = Queued[i]
<1>1. /\ Queued \in Seq(Event \cup {NoEvent}) /\ Len(Queued) = count
      /\ Queued' = Append(Queued, e) /\ count' = count + 1 /\ count \in Nat
  BY QueuedIsSeq, PushAppends DEF TypeOK
<1>2. /\ Queued'[count + 1] = e
      /\ \A i \in 1..count : Queued'[i] = Queued[i]
  <2> HIDE DEF Queued
  <2> QED
    BY <1>1
<1>3. 1..count + 1 = (1..count) \cup {count + 1} /\ count + 1 \notin 1..count
  BY <1>1
<1>4. PlacesOf(b)' = PlacesOf(b) \cup (IF e \in EventsOf(b) THEN {count + 1} ELSE {})
  <2> HIDE DEF Queued
  <2>1. PlacesOf(b)' = {i \in 1..count + 1 : Queued'[i] \in EventsOf(b)}
    BY <1>1 DEF PlacesOf, EventsOf
  <2> QED
    BY <1>2, <1>3, <2>1 DEF PlacesOf
<1>5. LastOf(b)' = {i \in PlacesOf(b)' : \A j \in PlacesOf(b)' : j =< i}
  BY DEF LastOf
<1>6. PlacesOf(b) \subseteq 1..count
  BY DEF PlacesOf
<1>7. CASE e \in EventsOf(b)
  <2>1. \A i \in PlacesOf(b) : ~(count + 1 =< i)
    BY <1>1, <1>6
  <2> QED
    BY <1>2, <1>4, <1>5, <1>7, <2>1
<1>8. CASE e \notin EventsOf(b)
  BY <1>2, <1>4, <1>5, <1>8 DEF LastOf
<1> QED
  BY <1>7, <1>8

\* Events of two buttons, and events of no button, differ.
LEMMA OwnEvents ==
  /\ \A b, c \in Button, p \in BOOLEAN : b # c => ButtonEvent(b, p) \notin EventsOf(c)
  /\ \A b \in Button, p \in BOOLEAN : /\ ButtonEvent(b, p) \in EventsOf(b)
                                      /\ ButtonEvent(b, p).pressed = p
  /\ \A b \in Button, e \in Others : e \notin EventsOf(b)
<1>1. ASSUME NEW b \in Button, NEW c \in Button, NEW p \in BOOLEAN, b # c
      PROVE  ButtonEvent(b, p) \notin EventsOf(c)
  <2>1. ButtonEvent(b, p).id = b /\ \A q \in BOOLEAN : ButtonEvent(c, q).id = c
    BY DEF ButtonEvent
  <2> QED
    BY <1>1, <2>1 DEF EventsOf
<1>2. ASSUME NEW b \in Button, NEW p \in BOOLEAN
      PROVE  ButtonEvent(b, p) \in EventsOf(b) /\ ButtonEvent(b, p).pressed = p
  BY DEF EventsOf, ButtonEvent
<1>3. ASSUME NEW b \in Button, NEW e \in Others PROVE e \notin EventsOf(b)
  <2>1. e.type # "button" /\ \A q \in BOOLEAN : ButtonEvent(b, q).type = "button"
    BY DEF Others, MotionEvent, OtherEvent, ButtonEvent
  <2> QED
    BY <2>1 DEF EventsOf
<1> QED
  BY <1>1, <1>2, <1>3

LEMMA ChainTake ==
  ASSUME TypeOK, PendingInv, ChainAgrees, NEW b \in Button, take_event(b)
  PROVE  ChainAgrees'
<1> DEFINE e == ButtonEvent(b, pending[b])
<1>1. e \in Event /\ pending[b] \in BOOLEAN
  BY DEF TypeOK, Event
<1>2. /\ event_queue_push(e) /\ fused' = fused /\ pending' = pending
      /\ buttons' = buttons /\ eventPending' = [eventPending EXCEPT ![b] = FALSE]
      /\ dropped' = [dropped EXCEPT ![b] = ~Room] /\ eventPending[b]
  BY DEF take_event, debounceVars, reportVars
<1> SUFFICES ASSUME NEW c \in Button, ~dropped'[c]
             PROVE  NewestSays(c, fused[c])'
  BY <1>2 DEF ChainAgrees
<1>3. CASE c = b
  <2>1. Room
    BY <1>2, <1>3 DEF TypeOK
  <2>2. /\ count + 1 \in PlacesOf(b)' /\ LastOf(b)' \subseteq {count + 1}
        /\ Queued'[count + 1] = e
    BY <1>1, <1>2, <2>1, PushPlaces, OwnEvents
  <2>3. e.pressed = fused'[b]
    BY <1>1, <1>2, OwnEvents DEF PendingInv
  <2>4. ~eventPending'[b]
    BY <1>2 DEF TypeOK
  <2> HIDE DEF e
  <2> QED
    BY <1>3, <2>2, <2>3, <2>4 DEF NewestSays
<1>4. CASE c # b
  <2>1. /\ eventPending'[c] = eventPending[c] /\ ~dropped[c]
        /\ NewestSays(c, fused[c])
    BY <1>2, <1>4 DEF TypeOK, ChainAgrees
  <2>2. /\ PlacesOf(c)' = PlacesOf(c) /\ LastOf(c)' = LastOf(c)
        /\ \A i \in PlacesOf(c) : Queued'[i] = Queued[i]
    <3>1. CASE Room
      <4>1. PlacesOf(c) \subseteq 1..count /\ e \notin EventsOf(c)
        BY <1>1, <1>4, OwnEvents DEF PlacesOf
      <4> QED
        BY <1>1, <1>2, <3>1, <4>1, PushPlaces
    <3>2. CASE ~Room
      BY <1>2, <3>2 DEF event_queue_push, ringVars, PlacesOf, LastOf, Queued
    <3> QED
      BY <3>1, <3>2
  <2>3. /\ eventPending'[c] => pending'[c] = fused[c]
        /\ ~eventPending'[c] =>
             /\ \A i \in LastOf(c)' : Queued'[i].pressed = fused[c]
             /\ PlacesOf(c)' = {} => (c \in buttons' <=> fused[c])
    <3>1. LastOf(c) \subseteq PlacesOf(c)
      BY DEF LastOf
    <3> QED
      BY <1>2, <2>1, <2>2, <3>1 DEF NewestSays
  <2> QED
    BY <1>2, <2>3 DEF NewestSays
<1> QED
  BY <1>3, <1>4

LEMMA ChainPushOther ==
  ASSUME TypeOK, ChainAgrees, NEW e \in Others, PushOther(e)
  PROVE  ChainAgrees'
<1>1. e \in Event
  BY DEF Others, Event
<1>2. /\ event_queue_push(e) /\ fused' = fused /\ pending' = pending
      /\ eventPending' = eventPending /\ buttons' = buttons /\ dropped' = dropped
  BY DEF PushOther, debounceVars, pendingVars, reportVars
<1> SUFFICES ASSUME NEW c \in Button, ~dropped'[c]
             PROVE  NewestSays(c, fused[c])'
  BY <1>2 DEF ChainAgrees
<1>3. NewestSays(c, fused[c])
  BY <1>2 DEF ChainAgrees
<1>4. /\ PlacesOf(c)' = PlacesOf(c) /\ LastOf(c)' = LastOf(c)
      /\ \A i \in PlacesOf(c) : Queued'[i] = Queued[i]
  <2>1. CASE Room
    <3>1. PlacesOf(c) \subseteq 1..count /\ e \notin EventsOf(c)
      BY OwnEvents DEF PlacesOf
    <3> QED
      BY <1>1, <1>2, <2>1, <3>1, PushPlaces
  <2>2. CASE ~Room
    BY <1>2, <2>2 DEF event_queue_push, ringVars, PlacesOf, LastOf, Queued
  <2> QED
    BY <2>1, <2>2
<1>5. LastOf(c) \subseteq PlacesOf(c)
  BY DEF LastOf
<1> QED
  BY <1>2, <1>3, <1>4, <1>5 DEF NewestSays

\* A pop moves every other place one to the front.
LEMMA PopPlaces ==
  ASSUME TypeOK, event_queue_pop, NEW b \in Button
  PROVE  /\ \A i \in 1..count - 1 : Queued'[i] = Queued[i + 1]
         /\ \A i \in LastOf(b)' : i \in 1..count - 1 /\ i + 1 \in LastOf(b)
         /\ PlacesOf(b)' = {} => PlacesOf(b) \subseteq {1}
<1>1. /\ Queued \in Seq(Event \cup {NoEvent}) /\ Len(Queued) = count
      /\ Queued' = Tail(Queued) /\ Queued # <<>> /\ count' = count - 1
      /\ count \in Nat \ {0}
  BY QueuedIsSeq, PopTakes, ChainAssumption
<1>2. \A i \in 1..count - 1 : Queued'[i] = Queued[i + 1]
  <2> HIDE DEF Queued
  <2> QED
    BY <1>1, TailIs
<1>3. PlacesOf(b)' = {i \in 1..count - 1 : Queued[i + 1] \in EventsOf(b)}
  <2>1. PlacesOf(b)' = {i \in 1..count - 1 : Queued'[i] \in EventsOf(b)}
    BY <1>1 DEF PlacesOf, EventsOf
  <2> QED
    BY <1>2, <2>1
<1>4. PlacesOf(b) = {i \in 1..count : Queued[i] \in EventsOf(b)}
  BY DEF PlacesOf
<1>5. \A j \in PlacesOf(b) : j = 1 \/ j - 1 \in PlacesOf(b)'
  <2> SUFFICES ASSUME NEW j \in PlacesOf(b), j # 1 PROVE j - 1 \in PlacesOf(b)'
    OBVIOUS
  <2>1. j \in 1..count /\ Queued[j] \in EventsOf(b)
    BY <1>4
  <2>2. j - 1 \in 1..count - 1 /\ (j - 1) + 1 = j
    BY <1>1, <2>1
  <2> QED
    BY <1>3, <2>1, <2>2
<1>6. ASSUME NEW i \in LastOf(b)'
      PROVE  i \in 1..count - 1 /\ i + 1 \in LastOf(b)
  <2>1. i \in PlacesOf(b)' /\ \A j \in PlacesOf(b)' : j =< i
    BY <1>6 DEF LastOf
  <2>2. i \in 1..count - 1 /\ i + 1 \in 1..count /\ i + 1 \in PlacesOf(b)
    BY <1>1, <1>3, <1>4, <2>1
  <2>3. ASSUME NEW j \in PlacesOf(b) PROVE j =< i + 1
    <3>1. j \in 1..count
      BY <1>4
    <3>2. j = 1 \/ j - 1 =< i
      BY <1>5, <2>1
    <3> QED
      BY <1>1, <2>2, <3>1, <3>2
  <2> QED
    BY <2>2, <2>3 DEF LastOf
<1> QED
  BY <1>2, <1>5, <1>6

LEMMA ChainPop ==
  ASSUME TypeOK, ChainAgrees, PopAndAccumulate
  PROVE  ChainAgrees'
<1> DEFINE e == items[head]
<1>1. /\ event_queue_pop /\ hid_accumulate(e) /\ fused' = fused
      /\ pending' = pending /\ eventPending' = eventPending /\ dropped' = dropped
  BY DEF PopAndAccumulate, debounceVars, pendingVars
<1>2. /\ e \in Event \cup {NoEvent} /\ Queued[1] = e /\ 1 \in 1..count
  <2>1. Queued[1] = e /\ count \in 1..Capacity
    BY <1>1, PopTakes
  <2>2. 1 \in 1..count
    BY <2>1, ChainAssumption
  <2> QED
    BY <2>1, <2>2 DEF TypeOK
<1> HIDE DEF e
<1> SUFFICES ASSUME NEW b \in Button, ~dropped'[b], ~eventPending'[b]
             PROVE  /\ \A i \in LastOf(b)' : Queued'[i].pressed = fused[b]
                    /\ PlacesOf(b)' = {} => (b \in buttons' <=> fused[b])
  <2>1. ASSUME NEW b \in Button, eventPending'[b], ~dropped'[b]
        PROVE  pending'[b] = fused[b]
    BY <1>1, <2>1 DEF ChainAgrees, NewestSays
  <2> QED
    BY <1>1, <2>1 DEF ChainAgrees, NewestSays
<1>3. /\ \A i \in LastOf(b) : Queued[i].pressed = fused[b]
      /\ PlacesOf(b) = {} => (b \in buttons <=> fused[b])
      /\ fused[b] \in BOOLEAN
  BY <1>1 DEF ChainAgrees, NewestSays, TypeOK
<1>4. \A i \in LastOf(b)' : Queued'[i].pressed = fused[b]
  BY <1>1, <1>3, PopPlaces
<1>5. ASSUME PlacesOf(b)' = {} PROVE b \in buttons' <=> fused[b]
  <2>1. PlacesOf(b) \subseteq {1}
    BY <1>1, <1>5, PopPlaces
  <2>2. CASE e \in EventsOf(b)
    <3>1. 1 \in PlacesOf(b)
      BY <1>2, <2>2 DEF PlacesOf
    <3>2. 1 \in LastOf(b)
      BY <2>1, <3>1 DEF LastOf
    <3>3. e.pressed = fused[b]
      BY <1>2, <1>3, <3>2
    <3>4. PICK p \in BOOLEAN : e = ButtonEvent(b, p)
      BY <2>2 DEF EventsOf
    <3>5. p = fused[b]
      BY <3>3, <3>4, OwnEvents
    <3> QED
      BY <1>1, <1>2, <3>4, <3>5, Accumulation
  <2>3. CASE e \notin EventsOf(b)
    <3>1. PlacesOf(b) = {}
      BY <1>2, <2>1, <2>3 DEF PlacesOf
    <3> QED
      BY <1>1, <1>2, <1>3, <2>3, <3>1, Accumulation
  <2> QED
    BY <2>2, <2>3
<1> QED
  BY <1>4, <1>5

LEMMA ChainNext ==
  ASSUME TypeOK, PendingInv, PendingInv', ChainAgrees, [Next]_vars
  PROVE  ChainAgrees'
<1>1. ASSUME NEW b \in Button, take_event(b) PROVE ChainAgrees'
  BY <1>1, ChainTake
<1>2. ASSUME NEW e \in Others, PushOther(e) PROVE ChainAgrees'
  BY <1>2, ChainPushOther
<1>3. CASE PopAndAccumulate
  BY <1>3, ChainPop
<1>4. ASSUME UNCHANGED <<ringVars, buttons, dropped>>,
             \A b \in Button : ~eventPending'[b] =>
               ~eventPending[b] /\ fused'[b] = fused[b]
      PROVE  ChainAgrees'
  <2>1. \A b \in Button : /\ PlacesOf(b)' = PlacesOf(b) /\ LastOf(b)' = LastOf(b)
    BY <1>4 DEF ringVars, PlacesOf, LastOf, Queued
  <2>2. Queued' = Queued
    BY <1>4 DEF ringVars, Queued
  <2> QED
    BY <1>4, <2>1, <2>2 DEF ChainAgrees, NewestSays, PendingInv
<1>5. ASSUME NEW b \in Button, NEW dt \in Elapsed, poll(b, dt) PROVE ChainAgrees'
  <2>1. ASSUME NEW c \in Button, ~eventPending'[c]
        PROVE  ~eventPending[c] /\ fused'[c] = fused[c]
    <3>1. CASE UNCHANGED pendingVars /\ fused'[b] = fused[b]
      BY <1>5, <2>1, <3>1, PollEffect DEF pendingVars
    <3>2. CASE eventPending' = [eventPending EXCEPT ![b] = TRUE]
      BY <1>5, <2>1, <3>2, PollEffect DEF TypeOK
    <3> QED
      BY <1>5, <3>1, <3>2, PollEffect
  <2> QED
    BY <1>4, <1>5, <2>1 DEF poll, reportVars
<1>6. CASE \/ \E b \in Button : Feed(b)
           \/ SendReport
           \/ UNCHANGED vars
  BY <1>4, <1>6
  DEF Feed, feed_hall_raw, feed_ir, SendReport, vars, debounceVars, pendingVars,
      reportVars
<1> QED
  BY <1>1, <1>2, <1>3, <1>5, <1>6 DEF Next, Poll
-----------------------------------------------------------------------------
LEMMA Invariance == Spec => []IndInv
<1>1. IndInv /\ [Next]_vars => IndInv'
  BY TypeNext, DebounceNext, ChainNext DEF IndInv
<1> QED
  BY InitInv, <1>1, PTL DEF Spec

(***************************************************************************)
(* What the report, the queue and the pending events say of a button is    *)
(* its debounced state, and a level is accepted in time, for all constants.*)
(* (g6he_optomagnetic.c, g6he_event.c, g6he_hid.c)                         *)
(***************************************************************************)
THEOREM ChainCorrect == Spec => [](TypeOK /\ NeverLate /\ ChainAgrees)
<1>1. IndInv => TypeOK /\ NeverLate /\ ChainAgrees
  <2>1. TypeOK /\ DebounceInv => NeverLate
    <3> SUFFICES ASSUME TypeOK, DebounceInv, NEW b \in Button,
                        steady[b] >= DebounceMs, steady[b] < TickModulus,
                        fused[b] # sample[b]
                 PROVE  FALSE
      BY DEF NeverLate
    <3>1. steady[b] < DebounceMs /\ steady[b] \in Int /\ DebounceMs \in Int
      BY ChainAssumption DEF DebounceInv, TypeOK
    <3> QED
      BY <3>1
  <2> QED
    BY <2>1 DEF IndInv
<1> QED
  BY Invariance, <1>1, PTL

(***************************************************************************)
(* One by one: the types, and a level that is accepted in time.            *)
(* (g6he_optomagnetic_poll)                                                *)
(***************************************************************************)
THEOREM ChainTyped == Spec => []TypeOK
  BY ChainCorrect, PTL

THEOREM AcceptedInTime == Spec => []NeverLate
  BY ChainCorrect, PTL

(***************************************************************************)
(* No change of a button's debounced state is hurried, whatever the poll   *)
(* intervals and however often the tick counter wraps.                     *)
(* (g6he_optomagnetic_poll)                                                *)
(***************************************************************************)
THEOREM DebounceHolds == Spec => NeverEarly
<1>1. IndInv /\ [Next]_vars =>
        [\A b \in Button : fused'[b] # fused[b] =>
           fused'[b] = sample'[b] /\ steady'[b] >= DebounceMs]_vars
  BY DebounceNext DEF IndInv
<1> QED
  BY Invariance, <1>1, PTL DEF Spec, NeverEarly

(***************************************************************************)
(* The ring of the code is the bounded queue its header promises.          *)
(* (g6he_event_queue_init, g6he_event_queue_push, g6he_event_queue_pop)    *)
(***************************************************************************)
THEOREM RingIsQueue == Spec => ImplementsFifo
<1>1. Init => Fifo!Init
  BY DEF Init, Fifo!Init, Queued
<1>2. IndInv /\ [Next]_vars => [Fifo!Next]_Queued
  <2> SUFFICES ASSUME TypeOK, [Next]_vars PROVE [Fifo!Next]_Queued
    BY DEF IndInv
  <2>1. ASSUME NEW e \in Event, event_queue_push(e) PROVE [Fifo!Next]_Queued
    <3>1. CASE Room
      <4>1. Queued' = Append(Queued, e) /\ Len(Queued) < Capacity
        BY <2>1, <3>1, PushAppends, QueuedIsSeq DEF Room
      <4> QED
        BY <4>1 DEF Fifo!Next, Fifo!Put
    <3>2. CASE ~Room
      BY <2>1, <3>2 DEF event_queue_push, ringVars, Queued
    <3> QED
      BY <3>1, <3>2
  <2>2. ASSUME NEW b \in Button, take_event(b) PROVE [Fifo!Next]_Queued
    <3>1. ButtonEvent(b, pending[b]) \in Event
      BY DEF TypeOK, Event
    <3> QED
      BY <2>1, <2>2, <3>1 DEF take_event
  <2>3. ASSUME NEW e \in Others, PushOther(e) PROVE [Fifo!Next]_Queued
    <3>1. e \in Event
      BY DEF Others, Event
    <3> QED
      BY <2>1, <2>3, <3>1 DEF PushOther
  <2>4. CASE PopAndAccumulate
    <3>1. Queued' = Tail(Queued) /\ Queued # <<>>
      BY <2>4, PopTakes DEF PopAndAccumulate
    <3> QED
      BY <3>1 DEF Fifo!Next, Fifo!Take
  <2>5. ASSUME UNCHANGED ringVars PROVE [Fifo!Next]_Queued
    BY <2>5 DEF ringVars, Queued
  <2>6. CASE \/ \E b \in Button : Feed(b) \/ Poll(b)
             \/ SendReport
             \/ UNCHANGED vars
    BY <2>5, <2>6
    DEF Feed, feed_hall_raw, feed_ir, Poll, poll, SendReport, vars
  <2> QED
    BY <2>2, <2>3, <2>4, <2>6 DEF Next
<1> QED
  BY Invariance, <1>1, <1>2, PTL DEF Spec, ImplementsFifo, Fifo!Spec

-----------------------------------------------------------------------------
(***************************************************************************)
(* Settings, for any names, values, versions and size of the table: it     *)
(* stays a table in which each name stands once, and it is the map that    *)
(* SettingsMap promises.                                                   *)
(***************************************************************************)
UniqueKeys(t) == \A i, j \in 1..Len(t) : t[i].key = t[j].key => i = j
Table(t) == t \in Seq(Entry) /\ UniqueKeys(t)

\* settings_get, of any table
Val(t, k) == IF Holds(t, k) THEN t[find_entry(t, k)].value ELSE NoValue
-----------------------------------------------------------------------------
(***************************************************************************)
(* What the lookup finds.                                                  *)
(***************************************************************************)
LEMMA SlotTyped ==
  ASSUME NEW t \in Seq(Entry), NEW i \in 1..Len(t)
  PROVE  t[i] \in Entry /\ t[i].key \in Key /\ t[i].value \in Value
<1>1. t[i] \in Entry
  BY ElementOfSeq
<1> QED
  BY <1>1 DEF Entry

LEMMA FindIs ==
  ASSUME NEW t, Table(t), NEW i \in 1..Len(t)
  PROVE  /\ Holds(t, t[i].key)
         /\ find_entry(t, t[i].key) = i
         /\ Val(t, t[i].key) = t[i].value
<1>1. i \in Slots(t, t[i].key)
  BY DEF Slots
<1>2. \A j \in Slots(t, t[i].key) : j = i
  BY DEF Slots, Table, UniqueKeys
<1>3. find_entry(t, t[i].key) = i
  BY <1>1, <1>2 DEF find_entry
<1> QED
  BY <1>1, <1>3 DEF Holds, Val

LEMMA HeldAt ==
  ASSUME NEW t, Table(t), NEW k, Holds(t, k)
  PROVE  /\ find_entry(t, k) \in 1..Len(t)
         /\ t[find_entry(t, k)].key = k
         /\ Val(t, k) = t[find_entry(t, k)].value
<1>1. PICK i \in 1..Len(t) : t[i].key = k
  BY DEF Holds, Slots
<1> QED
  BY <1>1, FindIs

LEMMA ValTyped ==
  ASSUME NEW t, Table(t), NEW k
  PROVE  /\ Val(t, k) \in Value \cup {NoValue}
         /\ Holds(t, k) <=> Val(t, k) # NoValue
<1>1. CASE Holds(t, k)
  <2>1. Val(t, k) \in Value
    BY <1>1, HeldAt, SlotTyped DEF Table
  <2> QED
    BY <1>1, <2>1, SettingsAssumption
<1>2. CASE ~Holds(t, k)
  BY <1>2 DEF Val
<1> QED
  BY <1>1, <1>2

\* A name has the same value in two tables if what stands for it is the same.
Carried(t, u, q) ==
  \A i \in 1..Len(t) : t[i].key = q =>
    \E j \in 1..Len(u) : u[j].key = q /\ u[j].value = t[i].value

\* Only the entry in slot i differs.
InPlace(t, u, i) ==
  Len(u) = Len(t) /\ \A j \in 1..Len(t) : j # i => u[j] = t[j]

LEMMA CarriedInPlace ==
  ASSUME NEW t, NEW u, NEW i, NEW q, InPlace(t, u, i), t[i].key # q, u[i].key # q
  PROVE  Carried(t, u, q) /\ Carried(u, t, q)
<1>1. \A j \in 1..Len(t) : t[j].key = q \/ u[j].key = q => u[j] = t[j]
  BY DEF InPlace
<1>2. QED
  BY <1>1 DEF Carried, InPlace

LEMMA SameVal ==
  ASSUME NEW t, Table(t), NEW u, Table(u), NEW q, Carried(t, u, q), Carried(u, t, q)
  PROVE  Val(u, q) = Val(t, q)
<1>1. CASE Holds(t, q)
  <2>1. PICK i \in 1..Len(t) : t[i].key = q /\ Val(t, q) = t[i].value
    BY <1>1, HeldAt
  <2>2. PICK j \in 1..Len(u) : u[j].key = q /\ u[j].value = t[i].value
    BY <2>1 DEF Carried
  <2> QED
    BY <2>1, <2>2, FindIs
<1>2. CASE ~Holds(t, q)
  <2>1. ~Holds(u, q)
    BY <1>2 DEF Holds, Slots, Carried
  <2> QED
    BY <1>2, <2>1 DEF Val
<1> QED
  BY <1>1, <1>2

\* One slot takes another entry.
LEMMA SlotReplaced ==
  ASSUME NEW t \in Seq(Entry), NEW i \in 1..Len(t), NEW e \in Entry,
         NEW u, u = [t EXCEPT ![i] = e]
  PROVE  /\ u \in Seq(Entry) /\ Len(u) = Len(t)
         /\ u[i] = e
         /\ \A j \in 1..Len(t) : j # i => u[j] = t[j]
  BY ExceptSeq
-----------------------------------------------------------------------------
(***************************************************************************)
(* What each change of a table does to the names.                          *)
(***************************************************************************)
\* set on a name that has a slot
LEMMA ReplaceValue ==
  ASSUME NEW t, Table(t), NEW i \in 1..Len(t), NEW v,
         NEW u \in Seq(Entry), Len(u) = Len(t),
         u[i].key = t[i].key, u[i].value = v,
         \A j \in 1..Len(t) : j # i => u[j] = t[j]
  PROVE  Table(u) /\ \A q : Val(u, q) = IF q = t[i].key THEN v ELSE Val(t, q)
<1>1. \A j \in 1..Len(t) : u[j].key = t[j].key
  OBVIOUS
<1>2. Table(u)
  BY <1>1 DEF Table, UniqueKeys
<1>3. Val(u, t[i].key) = v
  BY <1>2, FindIs
<1>4. ASSUME NEW q, q # t[i].key PROVE Val(u, q) = Val(t, q)
  <2>1. Carried(t, u, q)
    BY <1>4 DEF Carried
  <2>2. Carried(u, t, q)
    BY <1>1, <1>4 DEF Carried
  <2> QED
    BY <1>2, <2>1, <2>2, SameVal
<1> QED
  BY <1>2, <1>3, <1>4

\* set on a new name
Added(t, u, e) ==
  /\ Table(u) /\ Len(u) = Len(t) + 1
  /\ \A q : Val(u, q) = IF q = e.key THEN e.value ELSE Val(t, q)

LEMMA AddEntry ==
  ASSUME NEW t, Table(t), NEW e \in Entry, ~Holds(t, e.key)
  PROVE  Added(t, Append(t, e), e)
<1> DEFINE u == Append(t, e)
<1>1. t \in Seq(Entry) /\ Len(t) \in Nat
  BY LenProperties DEF Table
<1>2. /\ u \in Seq(Entry) /\ Len(u) = Len(t) + 1
      /\ \A j \in 1..Len(t) : u[j] = t[j]
      /\ u[Len(t) + 1] = e
  BY <1>1, AppendProperties
<1> HIDE DEF u
<1>3. u[Len(u)] = e /\ Len(u) \in 1..Len(u)
  BY <1>1, <1>2
<1>4. \A j \in 1..Len(u) : j = Len(u) \/ j \in 1..Len(t)
  BY <1>1, <1>2
<1>5. \A j \in 1..Len(t) : j \in 1..Len(u) /\ u[j] = t[j] /\ t[j].key # e.key
  BY <1>1, <1>2 DEF Holds, Slots
<1>6. Table(u)
  BY <1>2, <1>3, <1>4, <1>5 DEF Table, UniqueKeys
<1>7. Val(u, e.key) = e.value
  BY <1>3, <1>6, FindIs
<1>8. ASSUME NEW q, q # e.key PROVE Val(u, q) = Val(t, q)
  <2>1. Carried(t, u, q)
    BY <1>5 DEF Carried
  <2>2. Carried(u, t, q)
    BY <1>3, <1>4, <1>5, <1>8 DEF Carried
  <2> QED
    BY <1>6, <2>1, <2>2, SameVal
<1> QED
  BY <1>2, <1>6, <1>7, <1>8 DEF Added, u

\* migrate, a name whose newer name is not in use
LEMMA RenameEntry ==
  ASSUME NEW t, Table(t), NEW i \in 1..Len(t), NEW to, ~Holds(t, to),
         NEW u \in Seq(Entry), Len(u) = Len(t),
         u[i].key = to, u[i].value = t[i].value,
         \A j \in 1..Len(t) : j # i => u[j] = t[j]
  PROVE  /\ Table(u)
         /\ \A q : Val(u, q) = IF q = t[i].key THEN NoValue
                               ELSE IF q = to THEN Val(t, t[i].key) ELSE Val(t, q)
<1>1. \A j \in 1..Len(t) : t[j].key # to /\ (j # i => t[j].key # t[i].key)
  BY DEF Holds, Slots, Table, UniqueKeys
<1>2. Table(u)
  BY <1>1 DEF Table, UniqueKeys
<1>3. Val(u, to) = Val(t, t[i].key)
  BY <1>2, FindIs
<1>4. t[i].key # to
  BY <1>1
<1>5. Val(u, t[i].key) = NoValue
  <2>1. \A j \in 1..Len(u) : u[j].key # t[i].key
    BY <1>1, <1>4
  <2> QED
    BY <2>1 DEF Val, Holds, Slots
<1>6. ASSUME NEW q, q # t[i].key, q # to PROVE Val(u, q) = Val(t, q)
  <2>1. t[i].key # q /\ u[i].key # q
    BY <1>6
  <2>2. InPlace(t, u, i)
    BY Zenon DEF InPlace
  <2>3. Carried(t, u, q) /\ Carried(u, t, q)
    BY <2>1, <2>2, CarriedInPlace, Zenon
  <2> QED
    BY <1>2, <2>3, SameVal
<1> QED
  BY <1>2, <1>3, <1>4, <1>5, <1>6

\* migrate, a duplicate; which slot the last entry moves to does not matter
LEMMA DropEntry ==
  ASSUME NEW t, Table(t), NEW from, Holds(t, from),
         NEW u, u = RemoveAt(t, find_entry(t, from))
  PROVE  /\ Table(u) /\ Len(u) = Len(t) - 1
         /\ \A q : Val(u, q) = IF q = from THEN NoValue ELSE Val(t, q)
<1> DEFINE i == find_entry(t, from)
           n == Len(t) - 1
<1>1. i \in 1..Len(t) /\ t[i].key = from
  BY HeldAt
<1>2. t \in Seq(Entry) /\ Len(t) \in Nat
  BY LenProperties DEF Table
<1> HIDE DEF i
<1>3. u = [j \in 1..n |-> IF j = i THEN t[Len(t)] ELSE t[j]]
  BY DEF i, RemoveAt
<1>4. /\ n \in Nat /\ Len(t) = n + 1 /\ Len(t) \in 1..Len(t)
      /\ \A j \in 1..n : j \in 1..Len(t) /\ j # Len(t)
      /\ \A j \in 1..Len(t) : j # Len(t) => j \in 1..n
  BY <1>1, <1>2
<1> HIDE DEF n
<1>5. \A j \in 1..n : u[j] = IF j = i THEN t[Len(t)] ELSE t[j]
  BY <1>3
<1>6. u \in [1..n -> Entry]
  BY <1>2, <1>3, <1>4, SlotTyped
<1>7. u \in Seq(Entry) /\ Len(u) = n
  BY <1>4, <1>6, LenProperties
<1>8. Table(u)
  <2> SUFFICES ASSUME NEW a \in 1..n, NEW b \in 1..n, u[a].key = u[b].key
               PROVE  a = b
    BY <1>7 DEF Table, UniqueKeys
  <2> DEFINE slot(j) == IF j = i THEN Len(t) ELSE j
  <2>1. /\ slot(a) \in 1..Len(t) /\ slot(b) \in 1..Len(t)
        /\ u[a] = t[slot(a)] /\ u[b] = t[slot(b)]
    BY <1>4, <1>5
  <2>2. slot(a) = slot(b)
    BY <2>1 DEF Table, UniqueKeys
  <2> QED
    BY <2>2, <1>4
<1>9. Val(u, from) = NoValue
  <2>1. \A j \in 1..n : u[j].key # from
    <3> TAKE j \in 1..n
    <3>1. CASE j = i
      <4>1. Len(t) # i
        BY <1>4, <3>1
      <4> QED
        BY <1>1, <1>4, <1>5, <3>1, <4>1 DEF Table, UniqueKeys
    <3>2. CASE j # i
      BY <1>1, <1>4, <1>5, <3>2 DEF Table, UniqueKeys
    <3> QED
      BY <3>1, <3>2
  <2> QED
    BY <1>7, <2>1 DEF Val, Holds, Slots
<1>10. ASSUME NEW q, q # from PROVE Val(u, q) = Val(t, q)
  <2>1. ASSUME NEW j \in 1..Len(t), t[j].key = q
        PROVE  \E l \in 1..n : u[l].key = q /\ u[l].value = t[j].value
    <3>1. j # i
      BY <1>1, <1>10, <2>1
    <3>2. CASE j = Len(t)
      <4>1. i \in 1..n
        BY <1>1, <1>4, <3>1, <3>2
      <4> QED
        BY <1>5, <2>1, <3>2, <4>1
    <3>3. CASE j # Len(t)
      BY <1>4, <1>5, <2>1, <3>1, <3>3
    <3> QED
      BY <3>2, <3>3
  <2>2. ASSUME NEW j \in 1..n, u[j].key = q
        PROVE  \E l \in 1..Len(t) : t[l].key = q /\ t[l].value = u[j].value
    BY <1>4, <1>5, <2>2
  <2>3. Carried(t, u, q)
    BY <1>7, <2>1 DEF Carried
  <2>4. Carried(u, t, q)
    BY <1>7, <2>2 DEF Carried
  <2> QED
    BY <1>8, <2>3, <2>4, SameVal
<1> QED
  BY <1>4, <1>7, <1>8, <1>9, <1>10, Zenon DEF n

\* One turn of migrate's loop.
Moved(t, u, from, to) ==
  /\ Table(u)
  /\ Len(u) = Len(t) - (IF Holds(t, from) /\ Holds(t, to) THEN 1 ELSE 0)
  /\ \A q : Val(u, q) = IF q = from THEN NoValue
                        ELSE IF q = to /\ ~Holds(t, to) THEN Val(t, from)
                        ELSE Val(t, q)

LEMMA RenamedIs ==
  ASSUME NEW t, Table(t), NEW from, NEW to \in Key, from # to
  PROVE  Moved(t, Renamed(t, from, to), from, to)
<1> DEFINE u == Renamed(t, from, to)
<1>0. Len(t) \in Nat
  BY LenProperties DEF Table
<1>1. CASE ~Holds(t, from)
  <2>1. u = t
    BY <1>1 DEF Renamed
  <2>2. Val(t, from) = NoValue /\ (~Holds(t, to) => Val(t, to) = NoValue)
    BY <1>1 DEF Val
  <2> QED
    BY <1>0, <1>1, <2>1, <2>2 DEF Moved
<1>2. CASE Holds(t, from) /\ ~Holds(t, to)
  <2> DEFINE i == find_entry(t, from)
  <2>1. u = [t EXCEPT ![i].key = to]
    BY <1>2 DEF Renamed
  <2>2. i \in 1..Len(t) /\ t[i].key = from
    BY <1>2, HeldAt
  <2> HIDE DEF i
  <2>3. t \in Seq(Entry) /\ t[i] \in Entry
    BY <2>2, SlotTyped DEF Table
  <2>4. /\ u = [t EXCEPT ![i] = [t[i] EXCEPT !.key = to]]
        /\ [t[i] EXCEPT !.key = to] \in Entry
        /\ [t[i] EXCEPT !.key = to].key = to
        /\ [t[i] EXCEPT !.key = to].value = t[i].value
    BY <2>1, <2>3 DEF Entry
  <2>5. /\ u \in Seq(Entry) /\ Len(u) = Len(t)
        /\ u[i].key = to /\ u[i].value = t[i].value
        /\ \A j \in 1..Len(t) : j # i => u[j] = t[j]
    BY <2>2, <2>3, <2>4, SlotReplaced
  <2>6. /\ Table(u)
        /\ \A q : Val(u, q) = IF q = from THEN NoValue
                              ELSE IF q = to THEN Val(t, from) ELSE Val(t, q)
    BY <1>2, <2>2, <2>5, RenameEntry
  <2> QED
    BY <1>0, <1>2, <2>5, <2>6 DEF Moved
<1>3. CASE Holds(t, from) /\ Holds(t, to)
  <2>1. u = RemoveAt(t, find_entry(t, from))
    BY <1>3 DEF Renamed
  <2> QED
    BY <1>0, <1>3, <2>1, DropEntry DEF Moved
<1> QED
  BY <1>1, <1>2, <1>3
-----------------------------------------------------------------------------
(***************************************************************************)
(* The steps.  Abstract is the map of SettingsMap as the table gives it.   *)
(***************************************************************************)
Abstract == [k \in Key |-> settings_get(k)]

LEMMA AbstractIs ==
  /\ Abstract = [k \in Key |-> Val(entries, k)]
  /\ Abstract' = [k \in Key |-> Val(entries', k)]
BY DEF Abstract, settings_get, Val, Holds, find_entry, Slots

LEMMA TypeIs ==
  /\ SettingsTypeOK <=> version \in Nat /\ Table(entries) /\ Len(entries) =< MaxEntries
  /\ SettingsTypeOK' <=> version' \in Nat /\ Table(entries') /\ Len(entries') =< MaxEntries
BY DEF SettingsTypeOK, Table, UniqueKeys

LEMMA EmptyTable ==
  ASSUME NEW t, t = <<>>
  PROVE  /\ Table(t) /\ Len(t) = 0
         /\ \A k : Val(t, k) = NoValue
<1>1. t \in Seq(Entry) /\ Len(t) = 0
  BY EmptySeq
<1>2. \A i \in 1..Len(t) : FALSE
  BY <1>1
<1> QED
  BY <1>1, <1>2 DEF Table, UniqueKeys, Val, Holds, Slots

\* A table set up anew
LEMMA EmptyStep ==
  ASSUME NEW v \in StoredVersion, settings_init(v)
  PROVE  SettingsTypeOK' /\ Map!Reload
<1>1. /\ version' \in Nat
      /\ Table(entries') /\ Len(entries') = 0
      /\ \A k : Val(entries', k) = NoValue
  BY EmptyTable, SettingsAssumption DEF settings_init
<1>2. SettingsTypeOK'
  BY <1>1, TypeIs, SettingsAssumption
<1>3. Abstract' = [k \in Key |-> NoValue]
  BY <1>1, AbstractIs
<1> QED
  BY <1>1, <1>2, <1>3 DEF Map!Reload, Map!Empty, Abstract

LEMMA SetStep ==
  ASSUME SettingsTypeOK, NEW k \in Key, NEW v \in Value, settings_set(k, v)
  PROVE  SettingsTypeOK' /\ Map!Put(k, v)
<1>1. version \in Nat /\ Table(entries) /\ Len(entries) =< MaxEntries
  BY TypeIs
<1>2. Len(entries) \in Nat /\ version' = version
  BY <1>1, LenProperties DEF Table, settings_set
<1>3. Holds(entries, k) <=> Abstract[k] # NoValue
  BY <1>1, ValTyped, AbstractIs
<1>4. /\ Table(entries')
      /\ \/ Holds(entries, k) /\ Len(entries') = Len(entries)
         \/ /\ ~Holds(entries, k) /\ Len(entries) < MaxEntries
            /\ Len(entries') = Len(entries) + 1
      /\ \A q : Val(entries', q) = IF q = k THEN v ELSE Val(entries, q)
  <2>1. CASE Holds(entries, k)
    <3> DEFINE i == find_entry(entries, k)
               e == [entries[i] EXCEPT !.value = v]
    <3>1. entries' = [entries EXCEPT ![i].value = v]
      BY <2>1 DEF settings_set
    <3>2. i \in 1..Len(entries) /\ entries[i].key = k
      BY <1>1, <2>1, HeldAt
    <3> HIDE DEF i
    <3>3. entries \in Seq(Entry) /\ entries[i] \in Entry
      BY <1>1, <3>2, SlotTyped DEF Table
    <3>4. /\ entries' = [entries EXCEPT ![i] = e]
          /\ e \in Entry /\ e.key = k /\ e.value = v
      BY <3>1, <3>2, <3>3 DEF Entry
    <3> HIDE DEF e
    <3>5. /\ entries' \in Seq(Entry) /\ Len(entries') = Len(entries)
          /\ entries'[i].key = k /\ entries'[i].value = v
          /\ \A j \in 1..Len(entries) : j # i => entries'[j] = entries[j]
      BY <3>2, <3>3, <3>4, SlotReplaced
    <3>6. /\ Table(entries')
          /\ \A q : Val(entries', q) = IF q = k THEN v ELSE Val(entries, q)
      BY <1>1, <3>2, <3>5, ReplaceValue
    <3> QED
      BY <2>1, <3>5, <3>6
  <2>2. CASE ~Holds(entries, k)
    <3> DEFINE e == [key |-> k, value |-> v]
    <3>1. entries' = Append(entries, e) /\ Len(entries) < MaxEntries
      BY <2>2 DEF settings_set
    <3>2. e \in Entry /\ e.key = k /\ e.value = v /\ ~Holds(entries, e.key)
      BY <2>2 DEF Entry
    <3> HIDE DEF e
    <3>3. Added(entries, Append(entries, e), e)
      BY <1>1, <3>2, AddEntry
    <3>4. Added(entries, entries', e)
      BY <3>1, <3>3
    <3> QED
      BY <2>2, <3>1, <3>2, <3>4 DEF Added
  <2> QED
    BY <2>1, <2>2
<1>5. SettingsTypeOK'
  BY <1>1, <1>2, <1>4, TypeIs, SettingsAssumption
<1>6. Abstract' = [Abstract EXCEPT ![k] = v]
  BY <1>4, AbstractIs
<1> QED
  BY <1>2, <1>3, <1>4, <1>5, <1>6 DEF Map!Put, Map!Has, Abstract

LEMMA MigrateStep ==
  ASSUME SettingsTypeOK, settings_migrate
  PROVE  SettingsTypeOK' /\ Map!Migrate
<1> DEFINE t == entries
           u == Renamed(t, "hall/ax0", "ax0")
           w == Renamed(u, "hall/ax1", "ax1")
           less(a, from, to) == IF Holds(a, from) /\ Holds(a, to) THEN 1 ELSE 0
<1>1. version \in Nat /\ Table(t) /\ Len(t) =< MaxEntries
  BY TypeIs
<1>2. /\ version < Current /\ version' = Current
      /\ entries' = w
  BY DEF settings_migrate
<1>3. {"hall/ax0", "hall/ax1", "ax0", "ax1"} \subseteq Key /\ Current \in Nat
      /\ MaxEntries \in Nat
  BY SettingsAssumption
<1>4. Len(t) \in Nat
  BY <1>1, LenProperties DEF Table
<1>5. Moved(t, u, "hall/ax0", "ax0")
  BY <1>1, <1>3, RenamedIs
<1>6. Moved(u, w, "hall/ax1", "ax1")
  <2>1. Table(u)
    BY <1>5 DEF Moved
  <2> HIDE DEF u
  <2> QED
    BY <1>3, <2>1, RenamedIs
<1> HIDE DEF u, w
<1>7. /\ \A q : Holds(t, q) <=> Val(t, q) # NoValue
      /\ \A q : Holds(u, q) <=> Val(u, q) # NoValue
  BY <1>1, <1>5, ValTyped DEF Moved
<1>8. /\ Holds(u, "ax1") <=> Holds(t, "ax1")
      /\ Holds(u, "hall/ax1") <=> Holds(t, "hall/ax1")
      /\ Val(u, "hall/ax1") = Val(t, "hall/ax1")
  BY <1>5, <1>7 DEF Moved
<1>9. Len(w) = Len(t) - less(t, "hall/ax0", "ax0") - less(t, "hall/ax1", "ax1")
  BY <1>4, <1>5, <1>6, <1>8 DEF Moved
<1>10. SettingsTypeOK'
  <2>1. Len(w) =< MaxEntries
    BY <1>1, <1>3, <1>4, <1>9
  <2> QED
    BY <1>2, <1>3, <1>6, <2>1, TypeIs DEF Moved
<1>11. \A k \in Key : Val(w, k) =
         IF k \in {"hall/ax0", "hall/ax1"} THEN NoValue
         ELSE IF k = "ax0" /\ ~Holds(t, "ax0") THEN Val(t, "hall/ax0")
         ELSE IF k = "ax1" /\ ~Holds(t, "ax1") THEN Val(t, "hall/ax1")
         ELSE Val(t, k)
  BY <1>5, <1>6, <1>8 DEF Moved
<1>12. /\ \A k \in Key : Abstract[k] = Val(t, k)
       /\ Abstract' = [k \in Key |-> Val(w, k)]
  BY <1>2, AbstractIs
<1>13. /\ DOMAIN Map!OldName = {"ax0", "ax1"}
       /\ Map!OldName["ax0"] = "hall/ax0" /\ Map!OldName["ax1"] = "hall/ax1"
  BY DEF Map!OldName
<1>14. Abstract' = [k \in Key |->
         IF k \in {"hall/ax0", "hall/ax1"} THEN NoValue
         ELSE IF k \in DOMAIN Map!OldName /\ ~(Abstract[k] # NoValue)
              THEN Abstract[Map!OldName[k]]
         ELSE Abstract[k]]
  BY <1>3, <1>7, <1>11, <1>12, <1>13
<1>15. Len(entries') = Len(entries) - Map!Duplicate("ax0") - Map!Duplicate("ax1")
  <2>1. \A k \in Key : Map!Has(k) <=> Holds(t, k)
    BY <1>7, <1>12 DEF Map!Has, Abstract
  <2>2. /\ Map!Duplicate("ax0") = less(t, "hall/ax0", "ax0")
        /\ Map!Duplicate("ax1") = less(t, "hall/ax1", "ax1")
    BY <1>3, <1>13, <2>1 DEF Map!Duplicate, less
  <2> QED
    BY <1>2, <1>9, <2>2
<1> QED
  BY <1>2, <1>10, <1>14, <1>15 DEF Map!Migrate, Map!Has, Map!Legacy, Abstract

LEMMA StepIs ==
  ASSUME SettingsTypeOK, [SettingsNext]_settingsVars
  PROVE  SettingsTypeOK' /\ [Map!Next]_<<Abstract, version, Len(entries)>>
<1>1. CASE settings_migrate
  BY <1>1, MigrateStep DEF Map!Next
<1>2. CASE \E v \in StoredVersion : settings_init(v)
  BY <1>2, EmptyStep DEF Map!Next
<1>3. CASE \E k \in Key, v \in Value : settings_set(k, v)
  BY <1>3, SetStep DEF Map!Next
<1>4. CASE UNCHANGED settingsVars
  <2>1. entries' = entries /\ version' = version
    BY <1>4 DEF settingsVars
  <2>2. Abstract' = Abstract
    BY <2>1, AbstractIs
  <2> QED
    BY <2>1, <2>2, TypeIs
<1> QED
  BY <1>1, <1>2, <1>3, <1>4 DEF SettingsNext

LEMMA InitIs ==
  ASSUME SettingsInit
  PROVE  SettingsTypeOK /\ Map!Init
<1>1. /\ version \in Nat
      /\ Table(entries) /\ Len(entries) = 0
      /\ \A k : Val(entries, k) = NoValue
  BY EmptyTable, SettingsAssumption DEF SettingsInit
<1>2. Abstract = [k \in Key |-> NoValue]
  BY <1>1, AbstractIs
<1> QED
  BY <1>1, <1>2, TypeIs, SettingsAssumption DEF Map!Init, Map!Empty, Abstract
-----------------------------------------------------------------------------
(***************************************************************************)
(* The table stays a table: within its capacity, each name once.           *)
(* (g6he_settings_set, _migrate)                                           *)
(***************************************************************************)
THEOREM SettingsTypeCorrect == SettingsSpec => []SettingsTypeOK
<1>1. SettingsInit => SettingsTypeOK
  BY InitIs
<1>2. SettingsTypeOK /\ [SettingsNext]_settingsVars => SettingsTypeOK'
  BY StepIs
<1> QED
  BY <1>1, <1>2, PTL DEF SettingsSpec

(***************************************************************************)
(* It is the promised map: whatever was set before, in whatever slots, set *)
(* changes one name and migrate renames, without losing a value that is    *)
(* not older than another of its name.  (g6he_settings_set, _migrate, _get)*)
(***************************************************************************)
THEOREM TableIsMap == SettingsSpec => ImplementsMap
<1>1. SettingsInit => Map!Init
  BY InitIs
<1>2. SettingsTypeOK /\ [SettingsNext]_settingsVars => [Map!Next]_<<Abstract, version, Len(entries)>>
  BY StepIs
<1>3. SettingsSpec => Map!Spec
  BY <1>1, <1>2, SettingsTypeCorrect, PTL DEF SettingsSpec, Map!Spec, Abstract
<1> QED
  BY <1>3 DEF ImplementsMap

-----------------------------------------------------------------------------
(***************************************************************************)
(* Target, for any timeout, width of the clock, steps of time and delay of *)
(* the radio.                                                              *)
(***************************************************************************)
\* What is bound has the callbacks that are not looked for at the call.
BoundInv ==
  /\ backend # {} => "send_hid_report" \in backend
  /\ variant # "UNSET" => SensorCallback \subseteq transport
  /\ g_backend # {} => "read_state" \in g_backend

\* The last that the radio has to tell is the state of the link; what was told
\* during a pairing has ended it.
RadioInv ==
  /\ radioEvents # <<>> =>
       radioEvents[Len(radioEvents)] = IF linkUp THEN "connected" ELSE "disconnected"
  /\ told => state # "PAIRING"
  /\ StateFollowsLink

\* A pairing's clock is the time since it was asked for, and has not wrapped.
ClockInv == state = "PAIRING" => elapsed_ms = waited /\ waited < PairingTimeout

TargetInv == TargetTypeOK /\ BoundInv /\ RadioInv /\ ClockInv /\ NoNullCall
-----------------------------------------------------------------------------
LEMMA ConstantsTyped ==
  /\ PairingTimeout \in Nat /\ 0 < PairingTimeout
  /\ ElapsedModulus \in Nat /\ PairingTimeout < ElapsedModulus
  /\ 0 \in 0..ElapsedModulus - 1 /\ 0 \in 0..PairingTimeout
  /\ \A dt \in TickStep : dt \in Nat /\ dt =< ElapsedModulus - PairingTimeout
  /\ MaxRadioEvents \in Nat
BY TargetAssumption

RadioEvent == {"connected", "disconnected"}

LEMMA NoEvents == <<>> \in Seq(RadioEvent) /\ Len(<<>>) = 0
BY EmptySeq

LEMMA EventTold ==
  ASSUME NEW q \in Seq(RadioEvent), q # <<>>
  PROVE  /\ Head(q) \in RadioEvent /\ Tail(q) \in Seq(RadioEvent)
         /\ Len(q) \in Nat \ {0} /\ Len(Tail(q)) = Len(q) - 1
         /\ Tail(q) # <<>> => Tail(q)[Len(Tail(q))] = q[Len(q)]
         /\ Tail(q) = <<>> => Head(q) = q[Len(q)]
<1>1. /\ Head(q) \in RadioEvent /\ Tail(q) \in Seq(RadioEvent)
      /\ Len(Tail(q)) = Len(q) - 1
      /\ \A i \in 1..Len(Tail(q)) : Tail(q)[i] = q[i + 1]
  BY HeadTailProperties
<1>2. Len(q) \in Nat \ {0} /\ Head(q) = q[1]
  BY EmptySeq, LenProperties, HeadTailProperties
<1>3. ASSUME Tail(q) # <<>> PROVE Tail(q)[Len(Tail(q))] = q[Len(q)]
  <2>1. Len(Tail(q)) # 0
    BY <1>1, <1>3, EmptySeq
  <2>2. Len(Tail(q)) \in 1..Len(Tail(q)) /\ Len(Tail(q)) + 1 = Len(q)
    BY <1>1, <1>2, <2>1
  <2>3. Tail(q)[Len(Tail(q))] = q[Len(Tail(q)) + 1]
    BY <1>1, <2>2
  <2> QED
    BY <2>2, <2>3
<1>4. ASSUME Tail(q) = <<>> PROVE Head(q) = q[Len(q)]
  <2>1. Len(Tail(q)) = 0
    BY <1>4, NoEvents
  <2>2. Len(q) = 1
    <3>1. Len(q) \in Nat /\ Len(Tail(q)) = Len(q) - 1
      BY <1>1, <1>2
    <3> QED
      BY <2>1, <3>1
  <2> QED
    BY <1>2, <2>2
<1> QED
  BY <1>1, <1>2, <1>3, <1>4

LEMMA EventAdded ==
  ASSUME NEW q \in Seq(RadioEvent), NEW e \in RadioEvent
  PROVE  /\ Append(q, e) \in Seq(RadioEvent) /\ Append(q, e) # <<>>
         /\ Len(q) \in Nat /\ Len(Append(q, e)) = Len(q) + 1
         /\ Append(q, e)[Len(Append(q, e))] = e
<1>1. /\ Append(q, e) \in Seq(RadioEvent) /\ Len(q) \in Nat
      /\ Len(Append(q, e)) = Len(q) + 1 /\ Append(q, e)[Len(q) + 1] = e
  BY AppendProperties, LenProperties
<1> QED
  BY <1>1, EmptySeq
-----------------------------------------------------------------------------
(***************************************************************************)
(* The link's part of the invariant, and that of the others.  Every action *)
(* leaves one of the two alone.                                            *)
(***************************************************************************)
LinkType ==
  /\ state \in {"OFF", "PAIRING", "RECONNECTING", "CONNECTED"}
  /\ elapsed_ms \in 0..ElapsedModulus - 1
  /\ backend \subseteq {"send_hid_report", "start_pairing"}
  /\ backend # {} => "send_hid_report" \in backend
  /\ linkUp \in BOOLEAN /\ told \in BOOLEAN
  /\ radioEvents \in Seq(RadioEvent)
  /\ Len(radioEvents) =< MaxRadioEvents
  /\ waited \in 0..PairingTimeout
LinkInv == LinkType /\ RadioInv /\ ClockInv

OthersInv ==
  /\ variant \in {"UNSET", "PAW3950", "PAW3955"} /\ transport \subseteq SensorCallback
  /\ variant = "UNSET" <=> transport = {}
  /\ g_backend \subseteq {"read_state", "set_ship_mode"}
  /\ variant # "UNSET" => SensorCallback \subseteq transport
  /\ g_backend # {} => "read_state" \in g_backend

LEMMA InvIs ==
  /\ TargetInv <=> LinkInv /\ OthersInv /\ NoNullCall
  /\ TargetInv' <=> LinkInv' /\ OthersInv' /\ NoNullCall'
BY DEF TargetInv, TargetTypeOK, BoundInv, LinkInv, LinkType, OthersInv, RadioEvent

LEMMA LinkKept ==
  ASSUME LinkInv, UNCHANGED link
  PROVE  LinkInv'
<1>1. /\ state' = state /\ elapsed_ms' = elapsed_ms /\ backend' = backend
      /\ linkUp' = linkUp /\ radioEvents' = radioEvents
      /\ waited' = waited /\ told' = told
  BY DEF link
<1> QED
  BY <1>1 DEF LinkInv, LinkType, RadioInv, StateFollowsLink, ClockInv

LEMMA OthersKept ==
  ASSUME OthersInv, UNCHANGED <<sensor, g_backend>>
  PROVE  OthersInv'
BY DEF sensor, OthersInv

LEMMA CalledNothing ==
  ASSUME NoCall
  PROVE  NoNullCall'
BY DEF NoCall, NoNullCall

LEMMA CalledBound ==
  ASSUME NEW callback, NEW bound, callback \in bound, Call(callback, bound)
  PROVE  NoNullCall'
BY DEF Call, NoNullCall

LEMMA InitStep ==
  ASSUME LinkInv, OthersInv, wireless_init
  PROVE  LinkInv' /\ OthersInv' /\ NoNullCall'
<1>1. LinkType'
  <2>1. /\ state' = "OFF" /\ elapsed_ms' = 0 /\ backend' = {}
        /\ linkUp' = FALSE /\ radioEvents' = <<>> /\ waited' = 0 /\ told' = FALSE
    BY DEF wireless_init, Enter
  <2>2. radioEvents' \in Seq(RadioEvent) /\ Len(radioEvents') =< MaxRadioEvents
    BY <2>1, NoEvents, ConstantsTyped
  <2> QED
    BY <2>1, <2>2, ConstantsTyped DEF LinkType
<1>2. RadioInv' /\ ClockInv'
  BY DEF wireless_init, Enter, RadioInv, StateFollowsLink, ClockInv
<1>3. NoCall /\ UNCHANGED <<sensor, g_backend>>
  BY DEF wireless_init
<1> QED
  BY <1>1, <1>2, <1>3, OthersKept, CalledNothing DEF LinkInv

LEMMA BindStep ==
  ASSUME LinkInv, OthersInv,
         NEW b \in SUBSET {"send_hid_report", "start_pairing"}, wireless_bind(b)
  PROVE  LinkInv' /\ OthersInv' /\ NoNullCall'
<1>1. /\ backend' = b /\ "send_hid_report" \in b
      /\ state' = state /\ elapsed_ms' = elapsed_ms
      /\ linkUp' = linkUp /\ radioEvents' = radioEvents
      /\ waited' = waited /\ told' = told
  BY DEF wireless_bind
<1>2. LinkType'
  BY <1>1 DEF LinkInv, LinkType
<1>3. RadioInv' /\ ClockInv'
  BY <1>1 DEF LinkInv, RadioInv, StateFollowsLink, ClockInv
<1>4. NoCall /\ UNCHANGED <<sensor, g_backend>>
  BY DEF wireless_bind
<1> QED
  BY <1>2, <1>3, <1>4, OthersKept, CalledNothing DEF LinkInv

LEMMA PairStep ==
  ASSUME LinkInv, OthersInv, on_pair_request
  PROVE  LinkInv' /\ OthersInv' /\ NoNullCall'
<1>1. /\ waited' = 0 /\ elapsed_ms' = 0
      /\ backend' = backend /\ radioEvents' = radioEvents
      /\ \/ state' = "PAIRING" /\ told' = FALSE /\ linkUp' = linkUp
         \/ state' = "CONNECTED" /\ linkUp' = TRUE /\ told' = TRUE /\ radioEvents = <<>>
  BY DEF on_pair_request, Enter
<1>2. LinkType'
  BY <1>1, ConstantsTyped DEF LinkInv, LinkType
<1>3. RadioInv'
  BY <1>1 DEF LinkInv, RadioInv, StateFollowsLink
<1>4. ClockInv'
  BY <1>1, ConstantsTyped DEF ClockInv
<1>5. NoNullCall'
  BY CalledBound, CalledNothing DEF on_pair_request, StartsPairing
<1>6. OthersInv'
  BY OthersKept DEF on_pair_request
<1> QED
  BY <1>2, <1>3, <1>4, <1>5, <1>6 DEF LinkInv

LEMMA TellStep ==
  ASSUME LinkInv, OthersInv, RadioTells
  PROVE  LinkInv' /\ OthersInv' /\ NoNullCall'
<1>1. /\ radioEvents # <<>> /\ radioEvents' = Tail(radioEvents)
      /\ state' = IF Head(radioEvents) = "connected" THEN "CONNECTED" ELSE "RECONNECTING"
      /\ elapsed_ms' = 0 /\ told' = TRUE
      /\ backend' = backend /\ linkUp' = linkUp /\ waited' = waited
  BY DEF RadioTells, Enter
<1>2. /\ Tail(radioEvents) \in Seq(RadioEvent)
      /\ Len(radioEvents) \in Nat /\ Len(Tail(radioEvents)) = Len(radioEvents) - 1
      /\ Tail(radioEvents) # <<>> =>
           Tail(radioEvents)[Len(Tail(radioEvents))] = radioEvents[Len(radioEvents)]
      /\ Tail(radioEvents) = <<>> => Head(radioEvents) = radioEvents[Len(radioEvents)]
  BY <1>1, EventTold DEF LinkInv, LinkType
<1>3. LinkType'
  <2>1. Len(radioEvents') =< MaxRadioEvents
    BY <1>1, <1>2, ConstantsTyped DEF LinkInv, LinkType
  <2> QED
    BY <1>1, <1>2, <2>1, ConstantsTyped DEF LinkInv, LinkType
<1>4. radioEvents[Len(radioEvents)] = IF linkUp THEN "connected" ELSE "disconnected"
  BY <1>1 DEF LinkInv, RadioInv
<1>5. RadioInv'
  BY <1>1, <1>2, <1>4 DEF RadioInv, StateFollowsLink
<1>6. ClockInv'
  BY <1>1 DEF ClockInv
<1>7. NoCall /\ UNCHANGED <<sensor, g_backend>>
  BY DEF RadioTells
<1> QED
  BY <1>3, <1>5, <1>6, <1>7, OthersKept, CalledNothing DEF LinkInv

LEMMA LinkStep ==
  ASSUME LinkInv, OthersInv, LinkChanges
  PROVE  LinkInv' /\ OthersInv' /\ NoNullCall'
<1> DEFINE e == IF linkUp THEN "disconnected" ELSE "connected"
<1>1. /\ Len(radioEvents) < MaxRadioEvents
      /\ linkUp' = ~linkUp /\ radioEvents' = Append(radioEvents, e)
      /\ state' = state /\ elapsed_ms' = elapsed_ms /\ backend' = backend
      /\ waited' = waited /\ told' = told
  BY DEF LinkChanges
<1>2. e \in RadioEvent /\ linkUp \in BOOLEAN /\ radioEvents \in Seq(RadioEvent)
  BY DEF RadioEvent, LinkInv, LinkType
<1>3. e = IF ~linkUp THEN "connected" ELSE "disconnected"
  BY <1>2
<1> HIDE DEF e
<1>4. /\ radioEvents' \in Seq(RadioEvent) /\ radioEvents' # <<>>
      /\ Len(radioEvents) \in Nat /\ Len(radioEvents') = Len(radioEvents) + 1
      /\ radioEvents'[Len(radioEvents')] = e
  BY <1>1, <1>2, EventAdded
<1>5. LinkType'
  <2>1. Len(radioEvents') =< MaxRadioEvents
    BY <1>1, <1>4, ConstantsTyped
  <2> QED
    BY <1>1, <1>2, <1>4, <2>1 DEF LinkInv, LinkType
<1>6. RadioInv'
  BY <1>1, <1>3, <1>4 DEF LinkInv, RadioInv, StateFollowsLink
<1>7. ClockInv'
  BY <1>1 DEF LinkInv, ClockInv
<1>8. NoCall /\ UNCHANGED <<sensor, g_backend>>
  BY DEF LinkChanges
<1> QED
  BY <1>5, <1>6, <1>7, <1>8, OthersKept, CalledNothing DEF LinkInv

\* The clock wraps at most once in a tick, and not in a pairing.
LEMMA ClockRuns ==
  ASSUME NEW at \in 0..ElapsedModulus - 1, NEW dt \in TickStep
  PROVE  /\ (at + dt) % ElapsedModulus \in 0..ElapsedModulus - 1
         /\ at < PairingTimeout => (at + dt) % ElapsedModulus = at + dt
<1>1. /\ ElapsedModulus \in Nat /\ 0 < ElapsedModulus
      /\ dt \in Nat /\ dt =< ElapsedModulus - PairingTimeout /\ PairingTimeout \in Nat
      /\ at \in Nat /\ at < ElapsedModulus
  BY ConstantsTyped
<1>2. ASSUME NEW n \in Nat, n < ElapsedModulus PROVE n % ElapsedModulus = n
  BY <1>1, <1>2
<1>3. (at + dt) % ElapsedModulus \in 0..ElapsedModulus - 1
  BY <1>1
<1>4. ASSUME at < PairingTimeout PROVE (at + dt) % ElapsedModulus = at + dt
  <2>1. at + dt \in Nat /\ at + dt < ElapsedModulus
    BY <1>1, <1>4
  <2> QED
    BY <1>2, <2>1
<1> QED
  BY <1>3, <1>4

LEMMA TickStepKeeps ==
  ASSUME LinkInv, OthersInv, NEW dt \in TickStep, tick(dt)
  PROVE  /\ LinkInv' /\ OthersInv' /\ NoNullCall'
         /\ state = "PAIRING" /\ state' = "OFF" => waited' = PairingTimeout
<1> DEFINE elapsed == (elapsed_ms + dt) % ElapsedModulus
<1>1. /\ IF PairingOver(elapsed) THEN Enter("OFF")
         ELSE elapsed_ms' = elapsed /\ UNCHANGED state
      /\ waited' = IF waited + dt < PairingTimeout THEN waited + dt ELSE PairingTimeout
      /\ backend' = backend /\ linkUp' = linkUp /\ radioEvents' = radioEvents
      /\ told' = told
      /\ NoCall /\ UNCHANGED <<sensor, g_backend>>
  BY DEF tick
<1>2. /\ elapsed \in 0..ElapsedModulus - 1
      /\ elapsed_ms < PairingTimeout => elapsed = elapsed_ms + dt
  BY ClockRuns DEF LinkInv, LinkType
<1> HIDE DEF elapsed
<1>3. /\ waited \in Nat /\ dt \in Nat /\ PairingTimeout \in Nat
      /\ waited' \in 0..PairingTimeout
  BY <1>1, ConstantsTyped DEF LinkInv, LinkType
<1>4. /\ state' \in {state, "OFF"} /\ elapsed_ms' \in 0..ElapsedModulus - 1
      /\ state' # state => state = "PAIRING"
  BY <1>1, <1>2, ConstantsTyped DEF PairingOver, Enter
<1>5. LinkType'
  BY <1>1, <1>3, <1>4 DEF LinkInv, LinkType
<1>6. RadioInv'
  BY <1>1, <1>4 DEF LinkInv, RadioInv, StateFollowsLink
<1>7. CASE state = "PAIRING"
  <2>1. elapsed = waited + dt
    BY <1>2, <1>7 DEF LinkInv, ClockInv
  <2>2. CASE elapsed >= PairingTimeout
    <3>1. state' = "OFF"
      BY <1>1, <1>7, <2>2 DEF PairingOver, Enter
    <3>2. waited' = PairingTimeout
      BY <1>1, <1>3, <2>1, <2>2
    <3> QED
      BY <1>1, <1>5, <1>6, <3>1, <3>2, OthersKept, CalledNothing DEF LinkInv, ClockInv
  <2>3. CASE ~(elapsed >= PairingTimeout)
    <3>1. state' = "PAIRING" /\ elapsed_ms' = elapsed
      BY <1>1, <1>7, <2>3 DEF PairingOver
    <3>2. waited' = elapsed /\ elapsed < PairingTimeout
      BY <1>1, <1>3, <2>1, <2>3
    <3> QED
      BY <1>1, <1>5, <1>6, <3>1, <3>2, OthersKept, CalledNothing DEF LinkInv, ClockInv
  <2> QED
    BY <2>2, <2>3
<1>8. CASE state # "PAIRING"
  <2>1. state' # "PAIRING"
    BY <1>4, <1>8
  <2> QED
    BY <1>1, <1>5, <1>6, <1>8, <2>1, OthersKept, CalledNothing DEF LinkInv, ClockInv
<1> QED
  BY <1>7, <1>8
-----------------------------------------------------------------------------
LEMMA SensorBindStep ==
  ASSUME LinkInv, OthersInv, NEW v, NEW t \in SUBSET SensorCallback, sensor_bind(v, t)
  PROVE  LinkInv' /\ OthersInv' /\ NoNullCall'
<1>1. /\ v \in {"PAW3950", "PAW3955"} /\ SensorCallback \subseteq t
      /\ variant' = v /\ transport' = t /\ g_backend' = g_backend
      /\ NoCall /\ UNCHANGED link
  BY DEF sensor_bind, transport_complete
<1>2. t # {}
  BY <1>1 DEF SensorCallback
<1>3. OthersInv'
  BY <1>1, <1>2 DEF OthersInv
<1> QED
  BY <1>1, <1>3, LinkKept, CalledNothing

LEMMA PowerBindStep ==
  ASSUME LinkInv, OthersInv,
         NEW b \in SUBSET {"read_state", "set_ship_mode"}, power_bind(b)
  PROVE  LinkInv' /\ OthersInv' /\ NoNullCall'
<1>1. /\ "read_state" \in b /\ g_backend' = b
      /\ NoCall /\ UNCHANGED <<link, sensor>>
  BY DEF power_bind
<1>2. OthersInv'
  BY <1>1 DEF OthersInv, sensor
<1> QED
  BY <1>1, <1>2, LinkKept, CalledNothing

LEMMA UseStep ==
  ASSUME LinkInv, OthersInv, Use
  PROVE  LinkInv' /\ OthersInv' /\ NoNullCall'
<1>1. UNCHANGED <<link, sensor, g_backend>>
  BY DEF Use, wireless_send_hid, power_read_state, power_enter_ship_mode, SensorCall
<1>2. ASSUME wireless_send_hid PROVE NoNullCall'
  BY <1>2, CalledBound DEF wireless_send_hid, LinkInv, LinkType
<1>3. ASSUME power_read_state PROVE NoNullCall'
  BY <1>3, CalledBound DEF power_read_state, OthersInv
<1>4. ASSUME power_enter_ship_mode PROVE NoNullCall'
  BY <1>4, CalledBound DEF power_enter_ship_mode
<1>5. ASSUME NEW c \in SensorCallback, SensorCall(c) PROVE NoNullCall'
  BY <1>5, CalledBound DEF SensorCall, OthersInv
<1>6. NoNullCall'
  BY <1>2, <1>3, <1>4, <1>5 DEF Use
<1> QED
  BY <1>1, <1>6, LinkKept, OthersKept

LEMMA InitHolds ==
  ASSUME TargetInit
  PROVE  TargetInv
<1>1. LinkType
  <2>1. /\ state = "OFF" /\ elapsed_ms = 0 /\ backend = {}
        /\ linkUp = FALSE /\ radioEvents = <<>> /\ waited = 0 /\ told = FALSE
    BY DEF TargetInit
  <2>2. radioEvents \in Seq(RadioEvent) /\ Len(radioEvents) =< MaxRadioEvents
    BY <2>1, NoEvents, ConstantsTyped
  <2> QED
    BY <2>1, <2>2, ConstantsTyped DEF LinkType
<1>2. RadioInv /\ ClockInv /\ OthersInv /\ NoNullCall
  BY DEF TargetInit, RadioInv, StateFollowsLink, ClockInv, OthersInv, NoNullCall
<1> QED
  BY <1>1, <1>2, InvIs DEF LinkInv

LEMMA StepKeeps ==
  ASSUME TargetInv, [TargetNext]_targetVars
  PROVE  /\ TargetInv'
         /\ Tick /\ state = "PAIRING" /\ state' = "OFF" => waited' = PairingTimeout
<1>1. LinkInv /\ OthersInv /\ NoNullCall
  BY InvIs
<1>2. ASSUME Tick
      PROVE  /\ LinkInv' /\ OthersInv' /\ NoNullCall'
             /\ state = "PAIRING" /\ state' = "OFF" => waited' = PairingTimeout
  BY <1>1, <1>2, TickStepKeeps DEF Tick
<1>3. ASSUME Bind PROVE LinkInv' /\ OthersInv' /\ NoNullCall'
  BY <1>1, <1>3, BindStep, SensorBindStep, PowerBindStep DEF Bind
<1>4. ASSUME UNCHANGED targetVars PROVE LinkInv' /\ OthersInv' /\ NoNullCall'
  <2>1. UNCHANGED link /\ UNCHANGED <<sensor, g_backend>> /\ called' = called
    BY <1>4 DEF targetVars
  <2>2. NoNullCall'
    BY <1>1, <2>1 DEF NoNullCall
  <2> QED
    BY <1>1, <2>1, <2>2, LinkKept, OthersKept
<1>5. LinkInv' /\ OthersInv' /\ NoNullCall'
  BY <1>1, <1>2, <1>3, <1>4, InitStep, PairStep, TellStep, LinkStep, UseStep DEF TargetNext
<1> QED
  BY <1>2, <1>5, InvIs
-----------------------------------------------------------------------------
\* What the theorems below rest on: the strengthened invariant holds.
THEOREM TargetInvariance == TargetSpec => []TargetInv
<1>1. TargetInit => TargetInv
  BY InitHolds
<1>2. TargetInv /\ [TargetNext]_targetVars => TargetInv'
  BY StepKeeps
<1> QED
  BY <1>1, <1>2, PTL DEF TargetSpec

(***************************************************************************)
(* Every variable keeps its type; a sensor is bound exactly while its      *)
(* transport is.  (g6he_wireless_t, g6he_sensor_t, g6he_power.c)           *)
(***************************************************************************)
THEOREM TargetTypeCorrect == TargetSpec => []TargetTypeOK
<1>1. TargetInv => TargetTypeOK
  BY DEF TargetInv
<1> QED
  BY <1>1, TargetInvariance, PTL

(***************************************************************************)
(* No callback is called that is not bound, in every behaviour: however    *)
(* parts are bound, bound again, cleared and used.                         *)
(* (g6he_wireless.c:26,41,86, g6he_sensor.c:8, g6he_power.c:44,67)         *)
(***************************************************************************)
THEOREM CallsAreBound == TargetSpec => []NoNullCall
<1>1. TargetInv => NoNullCall
  BY DEF TargetInv
<1> QED
  BY <1>1, TargetInvariance, PTL

(***************************************************************************)
(* The state follows the link as soon as the radio has told all, however   *)
(* late it tells and whatever pairings, timeouts and answers from within a *)
(* callback come in between.  (g6he_wireless_on_connected, _on_disconnected)*)
(***************************************************************************)
THEOREM LinkIsFollowed == TargetSpec => []StateFollowsLink
<1>1. TargetInv => StateFollowsLink
  BY DEF TargetInv, RadioInv
<1> QED
  BY <1>1, TargetInvariance, PTL

(***************************************************************************)
(* A pairing is over when its timeout is, to the tick, whatever the clock  *)
(* showed before.  (g6he_wireless_tick)                                    *)
(***************************************************************************)
THEOREM PairingOverInTime == TargetSpec => []PairingEndsInTime
<1>1. TargetInv => PairingEndsInTime
  BY DEF TargetInv, ClockInv, PairingEndsInTime
<1> QED
  BY <1>1, TargetInvariance, PTL

(***************************************************************************)
(* And it is not given up before, wherever the clock wraps.                *)
(* (g6he_wireless_on_pair_request, g6he_wireless_tick)                     *)
(***************************************************************************)
THEOREM PairingTimed == TargetSpec => PairingNotCutShort
<1>1. TargetInv /\ [TargetNext]_targetVars =>
        [Tick /\ state = "PAIRING" /\ state' = "OFF" => waited' = PairingTimeout]_targetVars
  BY StepKeeps
<1> QED
  BY <1>1, TargetInvariance, PTL DEF TargetSpec, PairingNotCutShort
=============================================================================
