------------------------------ MODULE Settings ------------------------------
(***************************************************************************)
(* The settings store (g6he_settings.c): a table of at most MaxEntries     *)
(* entries, looked up by the first entry with the key.  The table is the   *)
(* caller's; it is set up with the schema version the caller stored, filled *)
(* with set, and migrated, in any order and as often as the caller likes.  *)
(*                                                                         *)
(* A table is the sequence of its used slots.  Keys and values too long for *)
(* a slot, which set refuses, are left out.                                *)
(***************************************************************************)
EXTENDS Naturals, Sequences

CONSTANTS
  Key, Value, NoValue,
  Current,       \* G6HE_SETTINGS_SCHEMA_VERSION
  StoredVersion, \* what a caller may have stored
  MaxEntries     \* G6HE_SETTINGS_MAX_ENTRIES

ASSUME SettingsAssumption ==
  /\ {"hall/ax0", "hall/ax1", "ax0", "ax1"} \subseteq Key
  /\ NoValue \notin Value
  /\ Current \in Nat /\ StoredVersion \subseteq Nat
  /\ MaxEntries \in Nat

VARIABLES version, entries

settingsVars == <<version, entries>>

Entry == [key : Key, value : Value]

SettingsInit == version \in StoredVersion /\ entries = <<>>

settings_init(v) == version' = v /\ entries' = <<>>
-----------------------------------------------------------------------------
Slots(t, k) == {i \in 1..Len(t) : t[i].key = k}
find_entry(t, k) == CHOOSE i \in Slots(t, k) : \A j \in Slots(t, k) : i =< j
Holds(t, k) == Slots(t, k) # {}

settings_get(k) == IF Holds(entries, k) THEN entries[find_entry(entries, k)].value
                   ELSE NoValue

settings_set_Appends(k, v) ==  \* a defect: the key is not looked up
  /\ Len(entries) < MaxEntries
  /\ entries' = Append(entries, [key |-> k, value |-> v])
  /\ UNCHANGED version
settings_set(k, v) ==
  /\ \/ /\ Holds(entries, k)
        /\ entries' = [entries EXCEPT ![find_entry(entries, k)].value = v]
     \/ /\ ~Holds(entries, k) /\ Len(entries) < MaxEntries
        /\ entries' = Append(entries, [key |-> k, value |-> v])
  /\ UNCHANGED version
-----------------------------------------------------------------------------
\* A removed slot is taken by the last entry.
RemoveAt_NoMove(t, i) ==  \* a defect: the last entry is lost
  SubSeq(t, 1, Len(t) - 1)
RemoveAt(t, i) ==
  [j \in 1..Len(t) - 1 |-> IF j = i THEN t[Len(t)] ELSE t[j]]

\* One turn of the loop over k_renames.
Renamed_Overwrites(t, from, to) ==  \* a defect: the older value wins
  IF ~Holds(t, from) THEN t
  ELSE IF ~Holds(t, to) THEN [t EXCEPT ![find_entry(t, from)].key = to]
  ELSE RemoveAt([t EXCEPT ![find_entry(t, to)].value =
                            t[find_entry(t, from)].value], find_entry(t, from))
Renamed(t, from, to) ==
  IF ~Holds(t, from) THEN t
  ELSE IF ~Holds(t, to) THEN [t EXCEPT ![find_entry(t, from)].key = to]
  ELSE RemoveAt(t, find_entry(t, from))

settings_migrate ==
  /\ version < Current
  /\ entries' = Renamed(Renamed(entries, "hall/ax0", "ax0"), "hall/ax1", "ax1")
  /\ version' = Current
-----------------------------------------------------------------------------
SettingsNext ==
  \/ settings_migrate
  \/ \E v \in StoredVersion : settings_init(v)
  \/ \E k \in Key, v \in Value : settings_set(k, v)

SettingsSpec == SettingsInit /\ [][SettingsNext]_settingsVars
-----------------------------------------------------------------------------
(***************************************************************************)
(* The table stays one: at most MaxEntries entries, no name twice.  A name *)
(* found twice would bring back a value of before when one is dropped.     *)
(***************************************************************************)
SettingsTypeOK ==
  /\ version \in Nat
  /\ entries \in Seq(Entry) /\ Len(entries) =< MaxEntries
  /\ \A i, j \in 1..Len(entries) : entries[i].key = entries[j].key => i = j

(***************************************************************************)
(* The table is the promised map: set changes the one setting named, fails *)
(* only when it has no room for a new name, and migrate renames both axes, *)
(* lets the newer value win, drops nothing else and fills no room, wherever *)
(* in the table the entries stand.  (g6he_settings_set, _migrate, _get)    *)
(***************************************************************************)
Map == INSTANCE SettingsMap
         WITH setting <- [k \in Key |-> settings_get(k)], used <- Len(entries)
ImplementsMap == Map!Spec
=============================================================================
