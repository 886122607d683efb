---------------------------- MODULE SumTheorems ----------------------------
(***************************************************************************)
(* Facts about the sums of the community module Functions, for naturals:   *)
(* what a sum is made of, that its order does not matter, and what one      *)
(* summand more, or another one, changes.                                  *)
(***************************************************************************)
EXTENDS Integers, Sequences, Functions, FiniteSetTheorems, WellFoundedInduction, TLAPS

(***************************************************************************)
(* Induction over the subsets of a finite set: of those with a property,   *)
(* one is smallest.                                                        *)
(***************************************************************************)
LEMMA SmallestSet ==
  ASSUME NEW D, IsFiniteSet(D), NEW T, T \subseteq SUBSET D, T # {}
  PROVE  \E s \in T : \A u \in SUBSET s : u # s => u \notin T
<1>1. T \subseteq FiniteSubsetsOf(D)
  BY FS_Subset DEF FiniteSubsetsOf
<1>2. PICK s \in T : \A u \in T : <<u, s>> \notin StrictSubsetOrdering(D)
  BY <1>1, WFMin, FS_StrictSubsetOrderingWellFounded
<1> QED
  BY <1>2 DEF StrictSubsetOrdering

-----------------------------------------------------------------------------
(***************************************************************************)
(* SumFunctionOnSet is a recursive function over subsets.  It exists, and  *)
(* two of them agree where both are defined.                               *)
(***************************************************************************)
Pick(s) == CHOOSE x \in s : TRUE
\* g is the running sum of w that SumFunctionOnSet takes.
Running(w, D, g) ==
  g = [s \in SUBSET D |-> IF s = {} THEN 0 ELSE w[Pick(s)] + g[s \ {Pick(s)}]]
TheRunning(w, D) == CHOOSE g : Running(w, D, g)

LEMMA SumIs ==
  ASSUME NEW w, NEW D
  PROVE SumFunctionOnSet(w, D) = TheRunning(w, D)[D]
BY DEF SumFunctionOnSet, FoldFunctionOnSet, MapThenFoldSet, TheRunning, Running, Pick

LEMMA RunningAt ==
  ASSUME NEW w, NEW D, NEW g, Running(w, D, g), NEW s \in SUBSET D
  PROVE  /\ s = {} => g[s] = 0
         /\ s # {} => /\ g[s] = w[Pick(s)] + g[s \ {Pick(s)}]
                      /\ Pick(s) \in s /\ s \ {Pick(s)} \in SUBSET s
                      /\ s \ {Pick(s)} # s
<1>1. g[s] = IF s = {} THEN 0 ELSE w[Pick(s)] + g[s \ {Pick(s)}]
  BY Zenon DEF Running
<1>2. s # {} => Pick(s) \in s
  BY DEF Pick
<1> QED
  BY <1>1, <1>2

LEMMA RunningEmpty ==
  ASSUME NEW w, NEW D, NEW g, Running(w, D, g)
  PROVE  g[{}] = 0
<1>1. {} \in SUBSET D
  OBVIOUS
<1> QED
  BY <1>1, RunningAt

LEMMA RunningsAgree ==
  ASSUME NEW w, NEW D, IsFiniteSet(D), NEW E, NEW g, NEW h,
         Running(w, D, g), Running(w, E, h), NEW s \in SUBSET D, s \in SUBSET E
  PROVE  g[s] = h[s]
<1> DEFINE T == {u \in SUBSET s : g[u] # h[u]}
<1>1. SUFFICES ASSUME T # {} PROVE FALSE
  OBVIOUS
<1>2. IsFiniteSet(s)
  BY FS_Subset
<1>3. PICK u \in T : \A v \in SUBSET u : v # u => v \notin T
  <2>1. T \subseteq SUBSET s
    OBVIOUS
  <2> HIDE DEF T
  <2> QED
    BY <1>1, <1>2, <2>1, SmallestSet
<1>4. u \in SUBSET D /\ u \in SUBSET E /\ u \in SUBSET s /\ g[u] # h[u]
  BY <1>3
<1> DEFINE v == u \ {Pick(u)}
<1>5. CASE u = {}
  <2>1. g[{}] = 0 /\ h[{}] = 0
    BY RunningEmpty
  <2> QED
    BY <1>4, <1>5, <2>1
<1>6. CASE u # {}
  <2>1. /\ g[u] = w[Pick(u)] + g[v] /\ h[u] = w[Pick(u)] + h[v]
        /\ v \in SUBSET u /\ v # u
    BY <1>4, <1>6, RunningAt
  <2>2. v \notin T
    BY <1>3, <2>1
  <2>3. g[v] = h[v]
    BY <1>4, <2>1, <2>2
  <2> QED
    BY <1>4, <2>1, <2>3
<1> QED
  BY <1>5, <1>6

LEMMA RunningExists ==
  ASSUME NEW w, NEW D, IsFiniteSet(D)
  PROVE  Running(w, D, TheRunning(w, D))
<1> DEFINE T == {s \in SUBSET D : ~Running(w, s, TheRunning(w, s))}
<1>1. SUFFICES ASSUME T # {} PROVE FALSE
  OBVIOUS
<1>2. PICK t \in T : \A u \in SUBSET t : u # t => u \notin T
  <2>1. T \subseteq SUBSET D
    OBVIOUS
  <2> HIDE DEF T
  <2> QED
    BY <1>1, <2>1, SmallestSet
<1>3. t \in SUBSET D /\ IsFiniteSet(t)
  BY <1>2, FS_Subset
<1> DEFINE before(s) == TheRunning(w, s \ {Pick(s)})[s \ {Pick(s)}]
           g == [s \in SUBSET t |-> IF s = {} THEN 0 ELSE w[Pick(s)] + before(s)]
<1>4. ASSUME NEW s \in SUBSET t, s # {}
      PROVE  g[s \ {Pick(s)}] = before(s)
  <2> DEFINE r == s \ {Pick(s)}
  <2>1. Pick(s) \in s
    BY <1>4 DEF Pick
  <2>2. r \in SUBSET t /\ r # t /\ r \in SUBSET D /\ IsFiniteSet(r)
    BY <2>1, <1>3, FS_Subset
  <2>3. Running(w, r, TheRunning(w, r))
    BY <1>2, <2>2
  <2>4. CASE r = {}
    <3>1. g[r] = 0
      BY <2>2, <2>4
    <3>2. TheRunning(w, r)[r] = 0
      BY <2>3, <2>4, RunningAt
    <3> QED
      BY <3>1, <3>2
  <2>5. CASE r # {}
    <3> DEFINE q == r \ {Pick(r)}
    <3>1. g[r] = w[Pick(r)] + TheRunning(w, q)[q]
      BY <2>2, <2>5
    <3>2. /\ TheRunning(w, r)[r] = w[Pick(r)] + TheRunning(w, r)[q]
          /\ Pick(r) \in r /\ q \in SUBSET r
      <4>1. r \in SUBSET r
        OBVIOUS
      <4> HIDE DEF r
      <4> QED
        BY <2>3, <2>5, <4>1, RunningAt
    <3>3. q \in SUBSET t /\ q # t /\ q \in SUBSET D
      <4>1. q \in SUBSET t /\ q \in SUBSET D
        BY <2>2, <3>2
      <4>2. Pick(r) \in t /\ Pick(r) \notin q
        <5> HIDE DEF r
        <5> QED
          BY <2>2, <3>2
      <4> QED
        BY <4>1, <4>2
    <3>4. Running(w, q, TheRunning(w, q))
      BY <1>2, <3>3
    <3>5. TheRunning(w, r)[q] = TheRunning(w, q)[q]
      BY <2>2, <2>3, <3>2, <3>4, RunningsAgree
    <3> QED
      BY <3>1, <3>2, <3>5
  <2> QED
    BY <2>4, <2>5
<1>5. g = [s \in SUBSET t |-> IF s = {} THEN 0 ELSE w[Pick(s)] + g[s \ {Pick(s)}]]
  BY <1>4
<1>6. Running(w, t, g)
  BY <1>5, Zenon DEF Running
<1>7. Running(w, t, TheRunning(w, t))
  BY <1>6, Zenon DEF TheRunning
<1> QED
  BY <1>2, <1>7

-----------------------------------------------------------------------------
LEMMA SumEmpty ==
  ASSUME NEW w
  PROVE  SumFunctionOnSet(w, {}) = 0
BY SumIs, RunningExists, RunningAt, FS_EmptySet

\* The sum in the order of Pick; its other orders follow.
LEMMA SumPick ==
  ASSUME NEW w, NEW D, IsFiniteSet(D), D # {}
  PROVE  /\ Pick(D) \in D
         /\ SumFunctionOnSet(w, D) = w[Pick(D)] + SumFunctionOnSet(w, D \ {Pick(D)})
<1> DEFINE E == D \ {Pick(D)}
<1>1. Running(w, D, TheRunning(w, D)) /\ Pick(D) \in D /\ E \in SUBSET D
  BY RunningExists DEF Pick
<1>2. IsFiniteSet(E) /\ Running(w, E, TheRunning(w, E))
  BY <1>1, FS_Subset, RunningExists
<1>3. TheRunning(w, D)[D] = w[Pick(D)] + TheRunning(w, D)[E]
  BY <1>1, RunningAt
<1>4. TheRunning(w, D)[E] = TheRunning(w, E)[E]
  BY <1>1, <1>2, RunningsAgree
<1> QED
  BY <1>1, <1>3, <1>4, SumIs

LEMMA SumTyped ==
  ASSUME NEW w, NEW D, IsFiniteSet(D), \A i \in D : w[i] \in Nat
  PROVE  SumFunctionOnSet(w, D) \in Nat
<1> DEFINE T == {s \in SUBSET D : SumFunctionOnSet(w, s) \notin Nat}
<1>1. SUFFICES ASSUME T # {} PROVE FALSE
  OBVIOUS
<1>2. PICK s \in T : \A u \in SUBSET s : u # s => u \notin T
  <2>1. T \subseteq SUBSET D
    OBVIOUS
  <2> HIDE DEF T
  <2> QED
    BY <1>1, <2>1, SmallestSet
<1>3. s \in SUBSET D /\ IsFiniteSet(s) /\ s # {}
  <2>1. SumFunctionOnSet(w, s) \notin Nat /\ SumFunctionOnSet(w, {}) \in Nat
    BY <1>2, SumEmpty
  <2> QED
    BY <1>2, <2>1, FS_Subset
<1>4. /\ Pick(s) \in s
      /\ SumFunctionOnSet(w, s) = w[Pick(s)] + SumFunctionOnSet(w, s \ {Pick(s)})
  BY <1>3, SumPick
<1>5. SumFunctionOnSet(w, s \ {Pick(s)}) \in Nat
  BY <1>2, <1>3, <1>4
<1> QED
  BY <1>2, <1>3, <1>4, <1>5

\* Any one summand can be taken out.
LEMMA SumSplit ==
  ASSUME NEW w, NEW D, IsFiniteSet(D), \A i \in D : w[i] \in Nat, NEW y \in D
  PROVE  SumFunctionOnSet(w, D) = w[y] + SumFunctionOnSet(w, D \ {y})
<1> DEFINE Sum(s) == SumFunctionOnSet(w, s)
           T == {s \in SUBSET D : \E x \in s : Sum(s) # w[x] + Sum(s \ {x})}
<1>1. SUFFICES ASSUME T # {} PROVE FALSE
  OBVIOUS
<1>2. PICK s \in T : \A u \in SUBSET s : u # s => u \notin T
  <2>1. T \subseteq SUBSET D
    OBVIOUS
  <2> HIDE DEF T
  <2> QED
    BY <1>1, <2>1, SmallestSet
<1>3. PICK x \in s : Sum(s) # w[x] + Sum(s \ {x})
  BY <1>2
<1>4. s \in SUBSET D /\ IsFiniteSet(s)
  BY <1>2, FS_Subset
<1> DEFINE p == Pick(s)
<1>5. p \in s /\ Sum(s) = w[p] + Sum(s \ {p})
  BY <1>3, <1>4, SumPick
<1>6. p # x
  BY <1>3, <1>5
<1>7. Sum(s \ {p}) = w[x] + Sum((s \ {p}) \ {x})
  <2>1. s \ {p} \in SUBSET s /\ s \ {p} # s /\ s \ {p} \in SUBSET D /\ x \in s \ {p}
    BY <1>3, <1>4, <1>5, <1>6
  <2> QED
    BY <1>2, <2>1
<1>8. Sum(s \ {x}) = w[p] + Sum((s \ {x}) \ {p})
  <2>1. s \ {x} \in SUBSET s /\ s \ {x} # s /\ s \ {x} \in SUBSET D /\ p \in s \ {x}
    BY <1>3, <1>4, <1>5, <1>6
  <2> QED
    BY <1>2, <2>1
<1>9. (s \ {p}) \ {x} = (s \ {x}) \ {p} /\ IsFiniteSet((s \ {x}) \ {p})
  BY <1>4, FS_Subset
<1>10. Sum((s \ {x}) \ {p}) \in Nat /\ w[p] \in Nat /\ w[x] \in Nat
  BY <1>3, <1>4, <1>5, <1>9, SumTyped
<1> HIDE DEF Sum
<1> QED
  BY <1>3, <1>5, <1>7, <1>8, <1>9, <1>10

\* The sum depends on the summands only.
LEMMA SumSame ==
  ASSUME NEW w, NEW v, NEW D, IsFiniteSet(D), \A i \in D : w[i] = v[i]
  PROVE  SumFunctionOnSet(w, D) = SumFunctionOnSet(v, D)
<1> DEFINE T == {s \in SUBSET D : SumFunctionOnSet(w, s) # SumFunctionOnSet(v, s)}
<1>1. SUFFICES ASSUME T # {} PROVE FALSE
  OBVIOUS
<1>2. PICK s \in T : \A u \in SUBSET s : u # s => u \notin T
  <2>1. T \subseteq SUBSET D
    OBVIOUS
  <2> HIDE DEF T
  <2> QED
    BY <1>1, <2>1, SmallestSet
<1>3. s \in SUBSET D /\ IsFiniteSet(s) /\ SumFunctionOnSet(w, s) # SumFunctionOnSet(v, s)
  BY <1>2, FS_Subset
<1>4. s # {}
  BY <1>3, SumEmpty
<1>5. /\ Pick(s) \in s
      /\ SumFunctionOnSet(w, s) = w[Pick(s)] + SumFunctionOnSet(w, s \ {Pick(s)})
      /\ SumFunctionOnSet(v, s) = v[Pick(s)] + SumFunctionOnSet(v, s \ {Pick(s)})
  BY <1>3, <1>4, SumPick
<1>6. SumFunctionOnSet(w, s \ {Pick(s)}) = SumFunctionOnSet(v, s \ {Pick(s)})
  BY <1>2, <1>3, <1>5
<1> QED
  BY <1>3, <1>5, <1>6
-----------------------------------------------------------------------------
(***************************************************************************)
(* Sums of sequences.                                                      *)
(***************************************************************************)
LEMMA SeqSum ==
  ASSUME NEW s \in Seq(Nat)
  PROVE  /\ SumFunction(s) = SumFunctionOnSet(s, 1..Len(s))
         /\ IsFiniteSet(1..Len(s)) /\ \A i \in 1..Len(s) : s[i] \in Nat
         /\ SumFunction(s) \in Nat
<1>1. SumFunction(s) = SumFunctionOnSet(s, 1..Len(s))
  BY DEF SumFunction
<1>2. IsFiniteSet(1..Len(s))
  <2>1. Len(s) \in Int
    OBVIOUS
  <2> QED
    BY <2>1, FS_Interval
<1>3. \A i \in 1..Len(s) : s[i] \in Nat
  OBVIOUS
<1> QED
  BY <1>1, <1>2, <1>3, SumTyped

\* One summand more.
LEMMA SumAppend ==
  ASSUME NEW s \in Seq(Nat), NEW x \in Nat
  PROVE  SumFunction(Append(s, x)) = SumFunction(s) + x
<1> DEFINE t == Append(s, x)
           n == Len(s)
<1>1. t \in Seq(Nat) /\ Len(t) = n + 1 /\ t[n + 1] = x /\ \A i \in 1..n : t[i] = s[i]
  OBVIOUS
<1>2. n \in Nat /\ n + 1 \in 1..n + 1 /\ (1..n + 1) \ {n + 1} = 1..n
  OBVIOUS
<1> HIDE DEF t, n
<1>3. SumFunctionOnSet(t, 1..n + 1) = x + SumFunctionOnSet(t, 1..n)
  <2> DEFINE D == 1..n + 1
  <2>1. IsFiniteSet(D) /\ (\A i \in D : t[i] \in Nat) /\ n + 1 \in D
    BY <1>1, <1>2, SeqSum
  <2> HIDE DEF D
  <2>2. SumFunctionOnSet(t, D) = t[n + 1] + SumFunctionOnSet(t, D \ {n + 1})
    BY ONLY <2>1, SumSplit
  <2> QED
    BY <1>1, <1>2, <2>2 DEF D
<1>4. IsFiniteSet(1..n)
  BY <1>2, FS_Interval
<1>5. SumFunctionOnSet(t, 1..n) = SumFunctionOnSet(s, 1..n)
  BY <1>1, <1>4, SumSame
<1>6. SumFunction(t) = SumFunctionOnSet(t, 1..n + 1) /\ SumFunction(s) \in Nat
      /\ SumFunction(s) = SumFunctionOnSet(s, 1..n)
  BY <1>1, SeqSum DEF n
<1> QED
  BY <1>3, <1>5, <1>6 DEF t

\* Another summand.
LEMMA SumChange ==
  ASSUME NEW s \in Seq(Nat), NEW t \in Seq(Nat), Len(s) = Len(t),
         NEW k \in 1..Len(s), \A i \in 1..Len(s) : i # k => s[i] = t[i]
  PROVE  SumFunction(s) + t[k] = SumFunction(t) + s[k]
<1> DEFINE D == 1..Len(s)
           rest == D \ {k}
<1>1. /\ SumFunction(s) = SumFunctionOnSet(s, D) /\ SumFunction(t) = SumFunctionOnSet(t, D)
      /\ IsFiniteSet(D) /\ \A i \in D : s[i] \in Nat /\ t[i] \in Nat
  BY SeqSum
<1>2. IsFiniteSet(rest) /\ (\A i \in rest : s[i] = t[i] /\ s[i] \in Nat)
  BY <1>1, FS_Subset
<1> HIDE DEF D, rest
<1>3. SumFunctionOnSet(s, rest) = SumFunctionOnSet(t, rest)
  BY <1>2, SumSame
<1>4. SumFunctionOnSet(s, rest) \in Nat
  BY <1>2, SumTyped
<1>5. /\ k \in D /\ IsFiniteSet(D)
      /\ \A i \in D : s[i] \in Nat
      /\ \A i \in D : t[i] \in Nat
  BY <1>1 DEF D
<1>6. SumFunctionOnSet(s, D) = s[k] + SumFunctionOnSet(s, rest)
  BY ONLY <1>5, SumSplit DEF rest
<1>7. SumFunctionOnSet(t, D) = t[k] + SumFunctionOnSet(t, rest)
  BY ONLY <1>5, SumSplit DEF rest
<1> QED
  BY <1>1, <1>3, <1>4, <1>5, <1>6, <1>7
=============================================================================
