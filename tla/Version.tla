------------------------------ MODULE Version ------------------------------
(***************************************************************************)
(* Version texts "v?X.Y.Z+B": how the firmware writes the version of an    *)
(* image, reads one and compares two (g6he_mcuboot.c), and how the tool    *)
(* does (g6he_mac_tool.py).  A text is its prefix and its four numbers,    *)
(* which a device may give any size; "bad" is any text of another shape.   *)
(***************************************************************************)
EXTENDS Integers, FiniteSets, Sequences

CONSTANTS
  Word,             \* 2^32
  Base, MaxDigits,  \* 10, and the digits of the largest number: 10
  VersionStringMax  \* G6HE_VERSION_STRING_MAX: with the final NUL

Text(prefix, numbers) == [prefix |-> prefix, numbers |-> numbers]

Digits(n) == 1 + Cardinality({k \in 1..MaxDigits : Base^k =< n})
TextLength(v) == 3 + Digits(v[1]) + Digits(v[2]) + Digits(v[3]) + Digits(v[4])

\* The last digits that find no room are left out.
Lost(v) == TextLength(v) + 1 - VersionStringMax
format_version(v) ==
  Text("", IF TextLength(v) < VersionStringMax THEN v
           ELSE [v EXCEPT ![4] = @ \div Base^Lost(v)])

parse_u32_dec(n) == n % Word
parse_version(t) == [i \in 1..4 |-> parse_u32_dec(t.numbers[i])]
Parses(t) == t.prefix \in {"", "v", "V"}

Differ(a, b) == {i \in 1..4 : a[i] # b[i]}
First(s) == CHOOSE i \in s : \A j \in s : i =< j

compare_FromBuild(a, b) ==  \* a defect: the numbers in the wrong order
  IF Differ(a, b) = {} THEN 0
  ELSE LET i == CHOOSE i \in Differ(a, b) : \A j \in Differ(a, b) : j =< i
       IN IF a[i] < b[i] THEN -1 ELSE 1
compare(a, b) ==
  IF Differ(a, b) = {} THEN 0
  ELSE LET i == First(Differ(a, b)) IN IF a[i] < b[i] THEN -1 ELSE 1

version_compare(current, target) ==
  IF Parses(current) /\ Parses(target)
  THEN compare(parse_version(current), parse_version(target)) ELSE 2

version_relation(current, target) ==
  CASE version_compare(current, target) = 2 -> "unknown"
    [] version_compare(current, target) = 0 -> "same"
    [] version_compare(current, target) = 1 -> "downgrade"
    [] version_compare(current, target) = -1 -> "upgrade"
-----------------------------------------------------------------------------
\* The tool's; Python compares the tuples of numbers it read.
Less(a, b) ==
  \E i \in 1..4 : a[i] < b[i] /\ \A j \in 1..i - 1 : a[j] = b[j]

_version_order(current, target) ==
  CASE current.prefix \notin {"", "v"} \/ target.prefix \notin {"", "v"} -> "unknown"
    [] OTHER -> IF current.numbers = target.numbers THEN "same"
                ELSE IF Less(current.numbers, target.numbers) THEN "newer" ELSE "older"
=============================================================================
