------------------------------- MODULE MCWire -------------------------------
EXTENDS Wire

\* Zeros, the largest bytes, and two sequences in which every byte differs.
Pattern(n) == {[i \in 1..n |-> (a * i + b) % ByteModulus] : a \in {0, 5}, b \in {0, 31}}

Requests == UNION {[1..n -> {0, 1, 31}] : n \in 0..2}
              \cup UNION {Pattern(n) : n \in {MaxRequestPayload - 1, MaxRequestPayload}}

\* Around a first report that is full (6), a second (19), and the longest (29).
\* One holds, from its second report on, what reads as a response of zeros.
Responses == UNION {Pattern(n) : n \in {4, 5, 6, 7, 18, 19, 20, 29, 30}}
               \cup {[i \in 1..20 |-> CASE i = 9 -> 10 [] i = 11 -> 6 [] i = 12 -> 25
                                        [] OTHER -> 0]}

\* Another report, empty or as full as can be.
Foreign == {[i \in Index |-> IF i = 0 THEN 9 ELSE b] : b \in {0, 31}}
=============================================================================
