---------------------------- MODULE SettingsMap ----------------------------
(***************************************************************************)
(* What the settings store promises (g6he_settings.h): a map from names to *)
(* values in which the migration of a store of an older schema renames,    *)
(* and keeps the newer of two values; everything else stays.               *)
(***************************************************************************)
EXTENDS Naturals

CONSTANTS Key, Value, NoValue, Current, MaxEntries
VARIABLES setting, version, used   \* used: how many names have a value

\* What schema 2 calls ax0 and ax1, schema 1 called by these names.
OldName == [k \in {"ax0", "ax1"} |-> IF k = "ax0" THEN "hall/ax0" ELSE "hall/ax1"]
Legacy == {"hall/ax0", "hall/ax1"}
Has(k) == setting[k] # NoValue

Empty(s, u) == s = [k \in Key |-> NoValue] /\ u = 0

Put(k, v) ==
  /\ setting' = [setting EXCEPT ![k] = v]
  /\ \/ Has(k) /\ UNCHANGED used
     \/ ~Has(k) /\ used < MaxEntries /\ used' = used + 1
  /\ UNCHANGED version

Duplicate(k) == IF Has(k) /\ Has(OldName[k]) THEN 1 ELSE 0
Migrate ==
  /\ version < Current /\ version' = Current
  /\ setting' = [k \in Key |->
       IF k \in Legacy THEN NoValue
       ELSE IF k \in DOMAIN OldName /\ ~Has(k) THEN setting[OldName[k]]
       ELSE setting[k]]
  /\ used' = used - Duplicate("ax0") - Duplicate("ax1")

Init == Empty(setting, used) /\ version \in Nat
Reload == Empty(setting', used') /\ version' \in Nat

Next == Migrate \/ Reload \/ \E k \in Key, v \in Value : Put(k, v)
Spec == Init /\ [][Next]_<<setting, version, used>>
=============================================================================
