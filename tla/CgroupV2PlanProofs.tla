------------------------- MODULE CgroupV2PlanProofs --------------------------
(***************************************************************************)
(* What the plans of a pass are, for every list of attached programs, every *)
(* set of rules and every cache: the lemmas CgroupV2Proofs rests on.        *)
(*                                                                         *)
(* Let G be a set of programs that is closed under rewrapping, such as      *)
(* those around one original or those that deny one device.  A Sound plan   *)
(* never leaves the cgroup without a member of G if it has one: some member *)
(* is detached only after a pair step has put another one in place          *)
(* (Guarded).  GrantSteps, RestoreSteps, the rebuild of missing lineages    *)
(* and the empty plan are Sound.                                            *)
(*                                                                         *)
(* A plan is a concatenation of parts, one per lineage, and of steps for    *)
(* the bare programs; what a part does with one program carries over to the *)
(* concatenation.  Lists have no induction here: where one is needed, the   *)
(* least position at which the claim fails is refuted (Minimum).            *)
(***************************************************************************)
EXTENDS CgroupV2, FiniteSetTheorems, WellFoundedInduction, TLAPS

-----------------------------------------------------------------------------
(* Sets of positions and the elements a list has there.                      *)

LEMMA Minimum ==
    ASSUME NEW T, T \subseteq Nat, T # {}
    PROVE  \E x \in T : \A y \in T : x <= y
<1> DEFINE R == OpToRel(<, Nat)
<1>1. IsWellFoundedOn(R, Nat)
    BY NatLessThanWellFounded, Zenon
<1>2. \A x, y \in Nat : <<y, x>> \in R <=> y < x
    BY Zenon DEF OpToRel
<1> HIDE DEF R
<1>3. \E x \in T : \A y \in T : ~(<<y, x>> \in R)
    BY <1>1, WFMin, Zenon
<1>4. \A x, y \in Nat : ~(<<y, x>> \in R) => x <= y
    BY <1>2
<1> QED BY <1>3, <1>4, Zenon

LEMMA MinIsLeast ==
    ASSUME NEW T, T \subseteq Nat, T # {}
    PROVE  Min(T) \in T /\ \A y \in T : Min(T) <= y
BY Minimum, Zenon DEF Min

\* A set of positions is finite, and so is what is at most one of them.
LEMMA FinitePositions ==
    ASSUME NEW n \in Nat, NEW P, P \subseteq 1 .. n
    PROVE  IsFiniteSet(P) /\ Cardinality(P) \in Nat /\ Cardinality(P) <= n
<1>1. IsFiniteSet(1 .. n) /\ Cardinality(1 .. n) = n
    BY FS_Interval
<1>2. IsFiniteSet(P) /\ Cardinality(P) <= n
    BY <1>1, FS_Subset, Zenon
<1> QED BY <1>2, FS_CardinalityType, Zenon

\* Every rank is taken: Nth chooses an element.
LEMMA NthExists ==
    ASSUME NEW n \in Nat, NEW P, P \subseteq 1 .. n, NEW k \in 1 .. Cardinality(P)
    PROVE  \E p \in P : Cardinality(UpTo(P, p)) = k
<1> DEFINE M == {m \in 0 .. n : Cardinality(UpTo(P, m)) >= k}
<1>1. \A m : IsFiniteSet(UpTo(P, m)) /\ Cardinality(UpTo(P, m)) \in Nat
    BY FinitePositions, Zenon DEF UpTo
<1>0. \A q \in P : q \in Nat /\ q <= n /\ ~(q <= 0)
    OBVIOUS
<1>2. UpTo(P, n) = P /\ UpTo(P, 0) = {}
    BY <1>0, Zenon DEF UpTo
<1>3. Cardinality(UpTo(P, 0)) = 0
    BY <1>2, FS_EmptySet, Zenon
<1>4. Cardinality(P) \in Nat
    BY FinitePositions, Zenon
<1>5. n \in M
    BY <1>2, <1>4
<1>6. PICK m \in M : \A x \in M : m <= x
  <2>1. M \subseteq Nat /\ M # {}
    BY <1>5
  <2> QED BY <2>1, Minimum, Zenon
<1>7. m \in 1 .. n
    BY <1>3, <1>4, <1>6
<1>8. ~(Cardinality(UpTo(P, m - 1)) >= k)
  <2>1. m - 1 \in 0 .. n /\ ~(m <= m - 1)
    BY <1>7
  <2> QED BY <1>6, <2>1, Zenon
<1>9. Cardinality(UpTo(P, m)) >= k
    BY <1>6, Zenon
<1> HIDE DEF M
<1>10. UpTo(P, m) = UpTo(P, m - 1) \cup (P \cap {m})
  <2>1. \A q \in P : q <= m <=> q <= m - 1 \/ q = m
    BY <1>0, <1>7
  <2> QED BY <2>1, Zenon DEF UpTo
<1>11. m \in P
  <2>1. SUFFICES ASSUME m \notin P PROVE FALSE
    OBVIOUS
  <2>2. UpTo(P, m) = UpTo(P, m - 1)
    BY <1>10, <2>1, Zenon
  <2> QED BY <1>8, <1>9, <2>2, Zenon
<1>12. UpTo(P, m) = UpTo(P, m - 1) \cup {m}
    BY <1>10, <1>11, Zenon
<1>13. m \notin UpTo(P, m - 1)
    BY <1>7 DEF UpTo
<1>14. Cardinality(UpTo(P, m)) = Cardinality(UpTo(P, m - 1)) + 1
    BY <1>1, <1>12, <1>13, FS_AddElement, Zenon
<1>15. Cardinality(UpTo(P, m)) = k
    BY <1>1, <1>4, <1>8, <1>9, <1>14
<1> QED BY <1>11, <1>15, Zenon

LEMMA NthSpec ==
    ASSUME NEW n \in Nat, NEW P, P \subseteq 1 .. n, NEW k \in 1 .. Cardinality(P)
    PROVE  Nth(P, k) \in P /\ Cardinality(UpTo(P, Nth(P, k))) = k
BY NthExists, Zenon DEF Nth

\* The ranks of two positions differ.
LEMMA RankInjective ==
    ASSUME NEW n \in Nat, NEW P, P \subseteq 1 .. n, NEW x \in P, NEW y \in P,
           Cardinality(UpTo(P, x)) = Cardinality(UpTo(P, y))
    PROVE  x = y
<1>1. ASSUME NEW u \in P, NEW v \in P, u < v,
             Cardinality(UpTo(P, u)) = Cardinality(UpTo(P, v))
      PROVE  FALSE
  <2>1. \A q \in P : q <= u => q <= v
    BY <1>1
  <2>4. UpTo(P, u) \in SUBSET UpTo(P, v)
    BY <2>1, Zenon DEF UpTo
  <2>2. IsFiniteSet(UpTo(P, v))
    BY FinitePositions, Zenon DEF UpTo
  <2>3. UpTo(P, u) = UpTo(P, v)
    BY <1>1, <2>4, <2>2, FS_Subset, Zenon
  <2> QED BY <1>1, <2>3 DEF UpTo
<1> QED BY <1>1

\* Every position has its rank.
LEMMA NthOnto ==
    ASSUME NEW n \in Nat, NEW P, P \subseteq 1 .. n, NEW p \in P
    PROVE  \E k \in 1 .. Cardinality(P) : Nth(P, k) = p
<1> DEFINE U == UpTo(P, p)
<1>1. IsFiniteSet(P) /\ Cardinality(P) \in Nat /\ IsFiniteSet(U) /\ Cardinality(U) \in Nat
    BY FinitePositions, Zenon DEF UpTo
<1>2. Cardinality(U) <= Cardinality(P)
    BY <1>1, FS_Subset, Zenon DEF UpTo
<1>3. Cardinality(U) # 0
  <2>1. p \in U
    BY DEF UpTo
  <2> QED BY <1>1, <2>1, FS_EmptySet, Zenon
<1>4. Cardinality(U) \in 1 .. Cardinality(P)
    BY <1>1, <1>2, <1>3
<1>5. /\ Nth(P, Cardinality(U)) \in P
      /\ Cardinality(UpTo(P, Nth(P, Cardinality(U)))) = Cardinality(U)
    BY <1>4, NthSpec, Zenon
<1>6. Nth(P, Cardinality(U)) = p
    BY <1>5, RankInjective, Zenon
<1> QED BY <1>4, <1>6, Zenon

\* Pick gives a list of the elements at the positions, each position once.
LEMMA PickSpec ==
    ASSUME NEW S, NEW s \in Seq(S), NEW P, P \subseteq DOMAIN s
    PROVE  /\ Pick(s, P) \in Seq(S)
           /\ DOMAIN Pick(s, P) = 1 .. Cardinality(P)
           /\ Len(Pick(s, P)) = Cardinality(P)
           /\ \A k \in DOMAIN Pick(s, P) : Nth(P, k) \in P /\ Pick(s, P)[k] = s[Nth(P, k)]
           /\ \A i \in P : \E k \in DOMAIN Pick(s, P) : Nth(P, k) = i
           /\ \A k, l \in DOMAIN Pick(s, P) : Nth(P, k) = Nth(P, l) => k = l
<1>1. Len(s) \in Nat /\ P \subseteq 1 .. Len(s)
    OBVIOUS
<1>2. Cardinality(P) \in Nat
    BY <1>1, FinitePositions, Zenon
<1>3. \A k \in 1 .. Cardinality(P) :
         Nth(P, k) \in P /\ Cardinality(UpTo(P, Nth(P, k))) = k
    BY <1>1, NthSpec, Zenon
<1>11. \A i \in P : s[i] \in S
    OBVIOUS
<1>4. \A k \in 1 .. Cardinality(P) : s[Nth(P, k)] \in S
    BY <1>3, <1>11, Zenon
<1>5. Pick(s, P) \in [1 .. Cardinality(P) -> S]
    BY <1>4, Zenon DEF Pick
<1>6. Pick(s, P) \in Seq(S) /\ Len(Pick(s, P)) = Cardinality(P)
    BY <1>2, <1>5
<1>7. \A i \in P : \E k \in 1 .. Cardinality(P) : Nth(P, k) = i
    BY <1>1, NthOnto, Zenon
<1>8. DOMAIN Pick(s, P) = 1 .. Cardinality(P)
    BY <1>5, Zenon
<1>9. \A k \in 1 .. Cardinality(P) : Pick(s, P)[k] = s[Nth(P, k)]
    BY Zenon DEF Pick
<1>10. \A k, l \in 1 .. Cardinality(P) : Nth(P, k) = Nth(P, l) => k = l
    BY <1>3, Zenon
<1> QED BY <1>3, <1>6, <1>7, <1>8, <1>9, <1>10, Zenon
-----------------------------------------------------------------------------
(* Concat, by induction over the parts.                                      *)

FlattensTo(ss, f, m) ==
    \A i \in 0 .. m : f[i] = IF i = 0 THEN <<>> ELSE f[i - 1] \o ss[i]

LEMMA FlattenExists ==
    ASSUME NEW S, NEW ss \in Seq(Seq(S)), NEW n \in 0 .. Len(ss)
    PROVE  \E f \in [0 .. n -> Seq(S)] : FlattensTo(ss, f, n)
<1> DEFINE T == {m \in 0 .. Len(ss) : ~ \E f \in [0 .. m -> Seq(S)] : FlattensTo(ss, f, m)}
<1>1. SUFFICES ASSUME T # {} PROVE FALSE
    OBVIOUS
<1>2. PICK m \in T : \A x \in T : m <= x
  <2>1. T \subseteq Nat
    OBVIOUS
  <2> QED BY <1>1, <2>1, Minimum, Zenon
<1>3. m \in 0 .. Len(ss) /\ (m # 0 => ss[m] \in Seq(S)) /\ <<>> \in Seq(S)
    OBVIOUS
<1>4. CASE m = 0
  <2> DEFINE f == [i \in 0 .. 0 |-> <<>>]
  <2>1. f \in [0 .. m -> Seq(S)]
    BY <1>3, <1>4, Zenon
  <2>2. FlattensTo(ss, f, m)
    BY <1>4 DEF FlattensTo
  <2> QED BY <2>1, <2>2, Zenon
<1>5. CASE m # 0
  <2>1. m - 1 \in 0 .. Len(ss) /\ ~(m <= m - 1)
    BY <1>3, <1>5
  <2>2. m - 1 \notin T
    BY <1>2, <2>1, Zenon
  <2>3. PICK f \in [0 .. m - 1 -> Seq(S)] : FlattensTo(ss, f, m - 1)
    BY <2>1, <2>2, Zenon
  <2> DEFINE g == [i \in 0 .. m |-> IF i = m THEN f[m - 1] \o ss[m] ELSE f[i]]
  <2>4. f[m - 1] \o ss[m] \in Seq(S)
    BY <1>3, <1>5, <2>1
  <2>5. g \in [0 .. m -> Seq(S)]
    BY <1>3, <2>4
  <2>6. ASSUME NEW i \in 0 .. m
        PROVE  g[i] = IF i = 0 THEN <<>> ELSE g[i - 1] \o ss[i]
    <3>1. CASE i = m
      <4>1. i # 0 /\ i - 1 \in 0 .. m /\ i - 1 # m
        BY <1>3, <1>5, <3>1
      <4>2. g[i] = f[m - 1] \o ss[m] /\ g[i - 1] = f[i - 1]
        BY <3>1, <4>1, Zenon
      <4> QED BY <3>1, <4>1, <4>2, Zenon
    <3>2. CASE i # m
      <4>1. i \in 0 .. m - 1 /\ (i # 0 => i - 1 \in 0 .. m /\ i - 1 # m)
        BY <1>3, <3>2
      <4>2. f[i] = IF i = 0 THEN <<>> ELSE f[i - 1] \o ss[i]
        BY <2>3, <4>1, Zenon DEF FlattensTo
      <4>3. g[i] = f[i] /\ (i # 0 => g[i - 1] = f[i - 1])
        BY <3>2, <4>1, Zenon
      <4> QED BY <4>2, <4>3, Zenon
    <3> QED BY <3>1, <3>2, Zenon
  <2>7. FlattensTo(ss, g, m)
    BY <2>6, Zenon DEF FlattensTo
  <2> QED BY <2>5, <2>7, Zenon
<1> QED BY <1>4, <1>5, Zenon

LEMMA FlattenDefined ==
    ASSUME NEW S, NEW ss \in Seq(Seq(S))
    PROVE  \E f \in [0 .. Len(ss) -> Seq(S)] :
              FlattensTo(ss, f, Len(ss)) /\ Concat(ss) = f[Len(ss)]
<1> DEFINE n == Len(ss)
           Def(f) == f = [i \in 0 .. n |-> IF i = 0 THEN <<>> ELSE f[i - 1] \o ss[i]]
           g[i \in 0 .. n] == IF i = 0 THEN <<>> ELSE g[i - 1] \o ss[i]
<1>1. n \in 0 .. Len(ss)
    OBVIOUS
<1>2. PICK f \in [0 .. n -> Seq(S)] : FlattensTo(ss, f, n)
    BY <1>1, FlattenExists, Zenon
<1>3. Def(f)
    BY <1>2, Zenon DEF FlattensTo
<1>4. Def(g)
    BY <1>3, Zenon
<1> HIDE DEF g
<1>5. Concat(ss) = g[n]
    BY Zenon DEF Concat, g
<1>6. FlattensTo(ss, g, n)
    BY <1>4, Zenon DEF FlattensTo
<1>7. \A i \in 0 .. n : g[i] = f[i]
  <2> DEFINE T == {i \in 0 .. n : g[i] # f[i]}
  <2>1. SUFFICES ASSUME T # {} PROVE FALSE
    OBVIOUS
  <2>2. PICK m \in T : \A x \in T : m <= x
    <3>1. T \subseteq Nat
      OBVIOUS
    <3> QED BY <2>1, <3>1, Minimum, Zenon
  <2>3. CASE m = 0
    BY <1>2, <1>6, <2>2, <2>3, Zenon DEF FlattensTo
  <2>4. CASE m # 0
    <3>1. m - 1 \in 0 .. n /\ ~(m <= m - 1)
      BY <2>2, <2>4
    <3>2. g[m - 1] = f[m - 1]
      BY <2>2, <3>1, Zenon
    <3>3. g[m] = g[m - 1] \o ss[m] /\ f[m] = f[m - 1] \o ss[m]
      BY <1>2, <1>6, <2>2, <2>4, Zenon DEF FlattensTo
    <3> QED BY <2>2, <3>2, <3>3, Zenon
  <2> QED BY <2>3, <2>4, Zenon
<1> QED BY <1>1, <1>2, <1>5, <1>7, Zenon

LEMMA Concatenation ==
    ASSUME NEW S, NEW h \in Seq(S), NEW t \in Seq(S)
    PROVE  /\ h \o t \in Seq(S)
           /\ DOMAIN (h \o t) = 1 .. Len(h) + Len(t)
           /\ Len(h \o t) = Len(h) + Len(t)
           /\ \A j \in DOMAIN h : (h \o t)[j] = h[j] /\ j \in Nat
           /\ \A b \in DOMAIN t : (h \o t)[Len(h) + b] = t[b]
OBVIOUS

\* An element of the result is an element of a part, and comes after the first
\* element of that part.
Comes(ss, flat, m) ==
    \A j \in DOMAIN flat : \E a \in 1 .. m : \E b \in DOMAIN ss[a] :
        flat[j] = ss[a][b] /\ (b > 1 => \E k \in 1 .. j - 1 : flat[k] = ss[a][1])

LEMMA FlattenSpec ==
    ASSUME NEW S, NEW ss \in Seq(Seq(S))
    PROVE  Concat(ss) \in Seq(S) /\ Comes(ss, Concat(ss), Len(ss))
<1>1. PICK f \in [0 .. Len(ss) -> Seq(S)] :
         FlattensTo(ss, f, Len(ss)) /\ Concat(ss) = f[Len(ss)]
    BY FlattenDefined, Zenon
<1> DEFINE T == {m \in 0 .. Len(ss) : ~Comes(ss, f[m], m)}
<1>0. Len(ss) \in 0 .. Len(ss) /\ f[Len(ss)] \in Seq(S)
  <2>1. Len(ss) \in 0 .. Len(ss)
    OBVIOUS
  <2> QED BY <1>1, <2>1, Zenon
<1>2. SUFFICES ASSUME T # {} PROVE FALSE
  BY <1>0, <1>1, Zenon
<1>3. PICK m \in T : \A x \in T : m <= x
  <2>1. T \subseteq Nat
    OBVIOUS
  <2> QED BY <1>2, <2>1, Minimum, Zenon
<1>4. m \in 0 .. Len(ss) /\ f[m] \in Seq(S)
  <2>1. m \in 0 .. Len(ss)
    OBVIOUS
  <2> QED BY <1>1, <2>1, Zenon
<1>5. CASE m = 0
  <2>1. f[m] = <<>>
    BY <1>1, <1>4, <1>5, Zenon DEF FlattensTo
  <2>2. DOMAIN f[m] = {}
    BY <2>1
  <2> QED BY <2>2, Zenon DEF Comes
<1>6. CASE m # 0
  <2>0. m \in 1 .. Len(ss) /\ ss[m] \in Seq(S)
    <3>1. m \in 1 .. Len(ss)
      BY <1>4, <1>6
    <3> QED BY <3>1
  <2>1. m - 1 \in 0 .. Len(ss) /\ ~(m <= m - 1) /\ f[m - 1] \in Seq(S)
    <3>1. m - 1 \in 0 .. Len(ss) /\ ~(m <= m - 1)
      BY <1>4, <1>6
    <3> QED BY <1>1, <3>1, Zenon
  <2>2. Comes(ss, f[m - 1], m - 1)
    BY <1>3, <2>1, Zenon
  <2>3. f[m] = f[m - 1] \o ss[m]
    BY <1>1, <1>4, <1>6, Zenon DEF FlattensTo
  <2> DEFINE h == f[m - 1]
             t == ss[m]
  <2>4. h \in Seq(S) /\ t \in Seq(S) /\ Len(h) \in Nat
    BY <2>0, <2>1
  <2> HIDE DEF h, t
  <2>8. f[m] = h \o t
    BY <2>3, Zenon DEF h, t
  <2>5. /\ \A j \in DOMAIN h : f[m][j] = h[j] /\ j \in Nat
        /\ \A b \in DOMAIN t : f[m][Len(h) + b] = t[b]
        /\ DOMAIN f[m] = 1 .. Len(h) + Len(t)
    <3>1. /\ \A j \in DOMAIN h : (h \o t)[j] = h[j] /\ j \in Nat
          /\ \A b \in DOMAIN t : (h \o t)[Len(h) + b] = t[b]
          /\ DOMAIN (h \o t) = 1 .. Len(h) + Len(t)
      BY <2>4, Concatenation
    <3> QED BY <2>8, <3>1, Zenon
  <2>6. ASSUME NEW j \in DOMAIN f[m]
        PROVE  \E a \in 1 .. m : \E b \in DOMAIN ss[a] :
                  f[m][j] = ss[a][b] /\ (b > 1 => \E k \in 1 .. j - 1 : f[m][k] = ss[a][1])
    <3>1. CASE j \in DOMAIN h
      <4>1. PICK a \in 1 .. m - 1 : \E b \in DOMAIN ss[a] :
               h[j] = ss[a][b] /\ (b > 1 => \E k \in 1 .. j - 1 : h[k] = ss[a][1])
        BY <2>2, <3>1, Zenon DEF Comes, h
      <4>2. PICK b \in DOMAIN ss[a] :
               h[j] = ss[a][b] /\ (b > 1 => \E k \in 1 .. j - 1 : h[k] = ss[a][1])
        BY <4>1, Zenon
      <4>3. \A k \in 1 .. j - 1 : k \in DOMAIN h
        BY <2>4, <3>1
      <4>4. a \in 1 .. m
        BY <1>4
      <4>5. f[m][j] = ss[a][b] /\ (b > 1 => \E k \in 1 .. j - 1 : f[m][k] = ss[a][1])
        BY <2>5, <3>1, <4>2, <4>3, Zenon
      <4> QED BY <4>4, <4>5, Zenon
    <3>2. CASE j \notin DOMAIN h
      <4> DEFINE b == j - Len(h)
      <4>1. b \in DOMAIN t /\ j = Len(h) + b
        BY <2>4, <2>5, <3>2
      <4>2. f[m][j] = ss[m][b] /\ b \in DOMAIN ss[m]
        BY <2>5, <4>1, Zenon DEF t
      <4>3. ASSUME b > 1 PROVE Len(h) + 1 \in 1 .. j - 1 /\ f[m][Len(h) + 1] = ss[m][1]
        <5>1. 1 \in DOMAIN t /\ Len(h) + 1 \in 1 .. j - 1
          BY <2>4, <4>1, <4>3
        <5> QED BY <2>5, <5>1, Zenon DEF t
      <4>4. m \in 1 .. m
        BY <1>4
      <4> HIDE DEF b
      <4> QED BY <4>2, <4>3, <4>4, Zenon
    <3> QED BY <3>1, <3>2, Zenon
  <2>7. Comes(ss, f[m], m)
    BY <2>6, Zenon DEF Comes
  <2> QED BY <2>7, Zenon
<1> QED BY <1>5, <1>6, Zenon

-----------------------------------------------------------------------------
(* Plans.                                                                    *)

Unique(progs) == \A i, j \in DOMAIN progs : progs[i].id = progs[j].id => i = j

LEMMA Records ==
    \A p \in Attached : /\ p.original \in Originals /\ p.nonce \in Nat
                        /\ p.rules \in SUBSET Devices /\ p.id \in Nat
                        /\ Content(p) \in Program /\ LineageOf(p) \in CachedLineage
BY Zenon DEF Attached, Program, CachedLineage, Content, LineageOf, Lineage

LEMMA Wrappers ==
    /\ \A o \in Originals, n \in Nat, r \in SUBSET Devices : Wrapper(o, n, r) \in Program
    /\ \A o : Bare(o) = Wrapper(o, 0, {})
BY Zenon DEF Program, Wrapper, Bare

LEMMA Steps ==
    /\ \A p \in Program, id \in Nat : PairStep(id, p) \in PlanStep
    /\ \A p \in Program : AttachStep(p) \in PlanStep
    /\ \A id \in Nat : DetachStep(id) \in PlanStep
BY Zenon DEF PlanStep, PairStep, AttachStep, DetachStep

LEMMA PairFields ==
    \A p, id : /\ PairStep(id, p).kind = "pair" /\ PairStep(id, p).old = id
               /\ PairStep(id, p).new = p
BY Zenon DEF PairStep

LEMMA DetachFields ==
    \A id : DetachStep(id).kind = "detach" /\ DetachStep(id).old = id
BY Zenon DEF DetachStep

\* The members of a lineage.
Selected(members, progs, g) ==
    /\ members \in Seq(Attached)
    /\ \A k \in DOMAIN members :
          \E i \in DOMAIN progs : members[k] = progs[i] /\ LineageOf(progs[i]) = g
    /\ \A i \in DOMAIN progs : LineageOf(progs[i]) = g =>
          \E k \in DOMAIN members : members[k] = progs[i]
    /\ Unique(members)

LEMMA MembersSpec ==
    ASSUME NEW progs \in Seq(Attached), NEW g, Unique(progs)
    PROVE  Selected(Members(progs, g), progs, g)
<1> DEFINE P == {i \in DOMAIN progs : LineageOf(progs[i]) = g}
<1>1. Members(progs, g) = Pick(progs, P)
    BY Zenon DEF Members, Select, Positions
<1>2. P \subseteq DOMAIN progs /\ \A i \in DOMAIN progs : i \in P <=> LineageOf(progs[i]) = g
    BY Zenon
<1> HIDE DEF P
<1>3. /\ Pick(progs, P) \in Seq(Attached)
      /\ \A k \in DOMAIN Pick(progs, P) : Nth(P, k) \in P /\ Pick(progs, P)[k] = progs[Nth(P, k)]
      /\ \A i \in P : \E k \in DOMAIN Pick(progs, P) : Nth(P, k) = i
      /\ \A k, l \in DOMAIN Pick(progs, P) : Nth(P, k) = Nth(P, l) => k = l
    BY <1>2, PickSpec
<1>4. Unique(Pick(progs, P))
  <2>1. ASSUME NEW k \in DOMAIN Pick(progs, P), NEW l \in DOMAIN Pick(progs, P),
               Pick(progs, P)[k].id = Pick(progs, P)[l].id
        PROVE  k = l
    <3>1. /\ Nth(P, k) \in DOMAIN progs /\ Nth(P, l) \in DOMAIN progs
          /\ progs[Nth(P, k)].id = progs[Nth(P, l)].id
      BY <1>2, <1>3, <2>1, Zenon
    <3>2. Nth(P, k) = Nth(P, l)
      BY <3>1, Zenon DEF Unique
    <3> QED BY <1>3, <3>2, Zenon
  <2> QED BY <2>1, Zenon DEF Unique
<1>5. Selected(Pick(progs, P), progs, g)
    BY <1>2, <1>3, <1>4, Zenon DEF Selected
<1> QED BY <1>1, <1>5, Zenon

LEMMA BaresSpec ==
    ASSUME NEW progs \in Seq(Attached)
    PROVE  /\ Bares(progs) \in Seq(Attached)
           /\ \A k \in DOMAIN Bares(progs) :
                 \E i \in DOMAIN progs : Bares(progs)[k] = progs[i] /\ ~Owned(progs[i])
<1> DEFINE P == {i \in DOMAIN progs : ~Owned(progs[i])}
<1>1. Bares(progs) = Pick(progs, P)
    BY Zenon DEF Bares, Select, Positions
<1>2. P \subseteq DOMAIN progs /\ \A i \in P : ~Owned(progs[i])
    BY Zenon
<1> HIDE DEF P
<1>3. /\ Pick(progs, P) \in Seq(Attached)
      /\ \A k \in DOMAIN Pick(progs, P) : Nth(P, k) \in P /\ Pick(progs, P)[k] = progs[Nth(P, k)]
    BY <1>2, PickSpec
<1>4. ASSUME NEW k \in DOMAIN Pick(progs, P)
      PROVE  \E i \in DOMAIN progs : Pick(progs, P)[k] = progs[i] /\ ~Owned(progs[i])
  <2>1. Nth(P, k) \in DOMAIN progs /\ ~Owned(progs[Nth(P, k)])
    BY <1>2, <1>3, Zenon
  <2> QED BY <1>3, <2>1, Zenon
<1> QED BY <1>1, <1>3, <1>4, Zenon

LEMMA GroupsSpec ==
    ASSUME NEW progs \in Seq(Attached)
    PROVE  /\ Groups(progs) \in Seq(CachedLineage)
           /\ \A a \in DOMAIN Groups(progs) :
                 \E i \in DOMAIN progs : Groups(progs)[a] = LineageOf(progs[i]) /\ Owned(progs[i])
           /\ \A a, b \in DOMAIN Groups(progs) : Groups(progs)[a] = Groups(progs)[b] => a = b
<1> DEFINE P == Firsts(progs)
           s == [i \in DOMAIN progs |-> LineageOf(progs[i])]
<1>1. Groups(progs) = Pick(s, P)
    BY Zenon DEF Groups
<1>2. /\ P \subseteq DOMAIN progs
      /\ \A i \in P : /\ Owned(progs[i])
                      /\ \A j \in 1 .. i - 1 : LineageOf(progs[j]) # LineageOf(progs[i])
    BY Zenon DEF Firsts
<1>3. \A i \in DOMAIN progs : s[i] = LineageOf(progs[i]) /\ s[i] \in CachedLineage
  <2>1. \A i \in DOMAIN progs : progs[i] \in Attached
    OBVIOUS
  <2> QED BY <2>1, Records, Zenon
<1>4. s \in Seq(CachedLineage) /\ DOMAIN s = DOMAIN progs
  <2>1. s \in [1 .. Len(progs) -> CachedLineage]
    BY <1>3
  <2> QED BY <2>1
<1> HIDE DEF P, s
<1>5. /\ Pick(s, P) \in Seq(CachedLineage)
      /\ \A k \in DOMAIN Pick(s, P) : Nth(P, k) \in P /\ Pick(s, P)[k] = s[Nth(P, k)]
      /\ \A k, l \in DOMAIN Pick(s, P) : Nth(P, k) = Nth(P, l) => k = l
    BY <1>2, <1>4, PickSpec, Zenon
<1>6. \A i, j \in P : LineageOf(progs[i]) = LineageOf(progs[j]) => i = j
  <2>1. \A i, j \in P : i \in 1 .. j - 1 \/ j \in 1 .. i - 1 \/ i = j
    BY <1>2
  <2> QED BY <1>2, <2>1, Zenon
<1>7. \A a \in DOMAIN Pick(s, P) : /\ Nth(P, a) \in P /\ Nth(P, a) \in DOMAIN progs
                                   /\ Pick(s, P)[a] = LineageOf(progs[Nth(P, a)])
                                   /\ Owned(progs[Nth(P, a)])
    BY <1>2, <1>3, <1>5, Zenon
<1>8. \A a \in DOMAIN Pick(s, P) :
         \E i \in DOMAIN progs : Pick(s, P)[a] = LineageOf(progs[i]) /\ Owned(progs[i])
    BY <1>7, Zenon
<1>9. ASSUME NEW a \in DOMAIN Pick(s, P), NEW b \in DOMAIN Pick(s, P),
             Pick(s, P)[a] = Pick(s, P)[b]
      PROVE  a = b
  <2>1. LineageOf(progs[Nth(P, a)]) = LineageOf(progs[Nth(P, b)])
    BY <1>7, <1>9, Zenon
  <2>2. Nth(P, a) = Nth(P, b)
    BY <1>6, <1>7, <2>1, Zenon
  <2> QED BY <1>5, <2>2, Zenon
<1> QED BY <1>1, <1>5, <1>8, <1>9, Zenon

\* The program a pass with rules r wants around an original: bare for no rules.
Desired(p, o, n, r) == p = Wrapper(o, n, r) /\ (n # 0 \/ r = {})

\* A bare program has no rules.
Plain(p) == p.nonce = 0 => p.rules = {}

\* What a part of a plan, the steps for one lineage, does: it detaches members
\* of the lineage and may first put a program around the same original in the
\* place of one.  If it does not, a program around that original stays: a
\* member that the part leaves alone, or a bare program.
Part(part, progs, g, r) ==
    /\ part \in Seq(PlanStep)
    /\ \A b \in DOMAIN part :
          /\ part[b].kind \in {"detach", "pair"}
          /\ \E i \in DOMAIN progs : LineageOf(progs[i]) = g /\ part[b].old = progs[i].id
          /\ part[b].kind = "pair" =>
                b = 1 /\ \E n \in Nat : Desired(part[b].new, g.original, n, r)
    /\ \/ \E e \in DOMAIN progs :
             /\ \E n \in Nat : Content(progs[e]) = Wrapper(g.original, n, r)
             /\ \/ ~Owned(progs[e])
                \/ /\ LineageOf(progs[e]) = g
                   /\ \A b \in DOMAIN part : part[b].kind = "detach" => part[b].old # progs[e].id
       \/ 1 \in DOMAIN part /\ part[1].kind = "pair"

\* What is left without one position.
Remains(rest, s, k) == \A j \in DOMAIN rest : \E i \in DOMAIN s : i # k /\ rest[j] = s[i]

LEMMA Removed ==
    ASSUME NEW S, NEW s \in Seq(S), NEW k \in DOMAIN s,
           NEW rest, rest = Pick(s, DOMAIN s \ {k})
    PROVE  rest \in Seq(S) /\ Remains(rest, s, k)
<1> DEFINE P == DOMAIN s \ {k}
<1>1. P \subseteq DOMAIN s /\ \A i \in P : i # k
    BY Zenon
<1> HIDE DEF P
<1>2. /\ Pick(s, P) \in Seq(S)
      /\ \A j \in DOMAIN Pick(s, P) : Nth(P, j) \in P /\ Pick(s, P)[j] = s[Nth(P, j)]
    BY <1>1, PickSpec
<1>3. rest = Pick(s, P)
    BY Zenon DEF P
<1> QED BY <1>1, <1>2, <1>3, Zenon DEF Remains

LEMMA DetachAllSpec ==
    ASSUME NEW members \in Seq(Attached)
    PROVE  /\ DetachAll(members) \in Seq(PlanStep) /\ DOMAIN DetachAll(members) = DOMAIN members
           /\ \A b \in DOMAIN members : DetachAll(members)[b] = DetachStep(members[b].id)
<1>1. \A b \in DOMAIN members : members[b] \in Attached
    OBVIOUS
<1>2. \A b \in DOMAIN members : DetachStep(members[b].id) \in PlanStep
  <2>1. \A b \in DOMAIN members : members[b].id \in Nat
    BY <1>1, Records, Zenon
  <2> QED BY <2>1, Steps, Zenon
<1>3. DetachAll(members) \in [1 .. Len(members) -> PlanStep]
    BY <1>2 DEF DetachAll
<1>4. \A b \in DOMAIN members : DetachAll(members)[b] = DetachStep(members[b].id)
    BY Zenon DEF DetachAll
<1> QED BY <1>3, <1>4

\* A swap in the place of the first member, then the others go.
SwapsFirst(part, members, p) ==
    /\ part \in Seq(PlanStep) /\ 1 \in DOMAIN part
    /\ part[1] = PairStep(members[1].id, p)
    /\ \A b \in DOMAIN part :
          b # 1 => \E i \in DOMAIN members : part[b] = DetachStep(members[i].id)

LEMMA SwapFirst ==
    ASSUME NEW members \in Seq(Attached), NEW rest \in Seq(Attached), NEW p \in Program,
           members # <<>>,
           \A j \in DOMAIN rest : \E i \in DOMAIN members : rest[j] = members[i],
           NEW part, part = <<PairStep(members[1].id, p)>> \o DetachAll(rest)
    PROVE  SwapsFirst(part, members, p)
<1> DEFINE h == <<PairStep(members[1].id, p)>>
           t == DetachAll(rest)
<1>1. members[1] \in Attached
    OBVIOUS
<1>2. PairStep(members[1].id, p) \in PlanStep
    BY <1>1, Records, Steps, Zenon
<1>3. h \in Seq(PlanStep) /\ Len(h) = 1 /\ h[1] = PairStep(members[1].id, p) /\ DOMAIN h = {1}
    BY <1>2
<1>4. /\ t \in Seq(PlanStep) /\ DOMAIN t = DOMAIN rest
      /\ \A b \in DOMAIN rest : t[b] = DetachStep(rest[b].id)
    BY DetachAllSpec, Zenon
<1> HIDE DEF h, t
<1>8. part = h \o t
    BY Zenon DEF h, t
<1>5. /\ part \in Seq(PlanStep)
      /\ DOMAIN part = 1 .. Len(h) + Len(t)
      /\ \A j \in DOMAIN h : part[j] = h[j]
      /\ \A b \in DOMAIN t : part[Len(h) + b] = t[b]
  <2>1. h \in Seq(PlanStep) /\ t \in Seq(PlanStep)
    BY <1>3, <1>4, Zenon
  <2>2. /\ h \o t \in Seq(PlanStep)
        /\ DOMAIN (h \o t) = 1 .. Len(h) + Len(t)
        /\ \A j \in DOMAIN h : (h \o t)[j] = h[j]
        /\ \A b \in DOMAIN t : (h \o t)[Len(h) + b] = t[b]
    BY <2>1, Concatenation
  <2> QED BY <1>8, <2>2, Zenon
<1>6. 1 \in DOMAIN part /\ part[1] = PairStep(members[1].id, p)
    BY <1>3, <1>4, <1>5
<1>7. ASSUME NEW b \in DOMAIN part, b # 1
      PROVE  \E i \in DOMAIN members : part[b] = DetachStep(members[i].id)
  <2>1. b - 1 \in DOMAIN t /\ b = Len(h) + (b - 1)
    BY <1>3, <1>4, <1>5, <1>7
  <2>2. part[b] = DetachStep(rest[b - 1].id) /\ b - 1 \in DOMAIN rest
    BY <1>4, <1>5, <2>1, Zenon
  <2> QED BY <2>2, Zenon
<1> QED BY <1>5, <1>6, <1>7, Zenon DEF SwapsFirst

LEMMA GrantPart ==
    ASSUME NEW progs \in Seq(Attached), NEW g \in CachedLineage, NEW r \in SUBSET Devices,
           Unique(progs),
           \E i \in DOMAIN progs : LineageOf(progs[i]) = g /\ Owned(progs[i])
    PROVE  Part(GrantSteps(Members(progs, g), g, r), progs, g, r)
<1> DEFINE members == Members(progs, g)
           desired == Wrapper(g.original, g.nonce, r)
           part == GrantSteps(members, g, r)
           I == {i \in DOMAIN members : Content(members[i]) = desired}
           existing == Min(I)
<1>1. /\ members \in Seq(Attached)
      /\ \A k \in DOMAIN members :
            \E i \in DOMAIN progs : members[k] = progs[i] /\ LineageOf(progs[i]) = g
      /\ \A i \in DOMAIN progs : LineageOf(progs[i]) = g =>
            \E k \in DOMAIN members : members[k] = progs[i]
      /\ Unique(members)
  <2>1. Selected(members, progs, g)
    BY MembersSpec, Zenon
  <2> HIDE DEF members
  <2> QED BY <2>1, Zenon DEF Selected
<1>2. g.nonce \in Nat /\ g.original \in Originals /\ desired \in Program /\ g.nonce # 0
    BY Wrappers DEF CachedLineage, Owned, LineageOf, Lineage
<1>4. members # <<>>
    BY <1>1
<1>5. part = (IF I = {} THEN <<PairStep(members[1].id, desired)>> ELSE <<>>)
                 \o DetachAll(Pick(members, DOMAIN members \ {IF I = {} THEN 1 ELSE existing}))
    BY Zenon DEF GrantSteps, Positions
<1>6. I \subseteq DOMAIN members /\ \A i \in I : Content(members[i]) = desired
    BY Zenon
<1> HIDE DEF members, desired, existing, part, I
<1>7. CASE I = {}
  <2> DEFINE rest == Pick(members, DOMAIN members \ {1})
  <2>1. 1 \in DOMAIN members
    BY <1>1, <1>4
  <2>2. rest \in Seq(Attached) /\ \A j \in DOMAIN rest : \E i \in DOMAIN members : rest[j] = members[i]
    <3>1. members \in Seq(Attached) /\ rest = Pick(members, DOMAIN members \ {1})
      BY <1>1, Zenon
    <3> HIDE DEF rest
    <3>2. rest \in Seq(Attached) /\ Remains(rest, members, 1)
      BY <2>1, <3>1, Removed, Zenon
    <3> QED BY <3>2, Zenon DEF Remains
  <2>3. part = <<PairStep(members[1].id, desired)>> \o DetachAll(rest)
    BY <1>5, <1>7, Zenon
  <2>4. /\ part \in Seq(PlanStep) /\ 1 \in DOMAIN part
        /\ part[1] = PairStep(members[1].id, desired)
        /\ \A b \in DOMAIN part : b # 1 => \E i \in DOMAIN members : part[b] = DetachStep(members[i].id)
    <3> HIDE DEF rest
    <3>1. members \in Seq(Attached)
      BY <1>1, Zenon
    <3>2. \A j \in DOMAIN rest : \E i \in DOMAIN members : rest[j] = members[i]
      BY <2>2, Zenon
    <3>3. rest \in Seq(Attached) /\ desired \in Program
      BY <1>2, <2>2, Zenon
    <3>4. SwapsFirst(part, members, desired)
      BY <1>4, <2>3, <3>1, <3>2, <3>3, SwapFirst, Zenon
    <3> QED BY <3>4, Zenon DEF SwapsFirst
  <2>5. ASSUME NEW b \in DOMAIN part
        PROVE  /\ part[b].kind \in {"detach", "pair"}
               /\ \E i \in DOMAIN progs : LineageOf(progs[i]) = g /\ part[b].old = progs[i].id
               /\ part[b].kind = "pair" =>
                     b = 1 /\ \E n \in Nat : Desired(part[b].new, g.original, n, r)
    <3>1. CASE b = 1
      <4>0. part[b] = PairStep(members[1].id, desired)
        BY <2>4, <3>1, Zenon
      <4>1. part[b].kind = "pair" /\ part[b].old = members[1].id /\ part[b].new = desired
        BY <4>0, PairFields
      <4>2. \E i \in DOMAIN progs : LineageOf(progs[i]) = g /\ part[b].old = progs[i].id
        <5>1. PICK i \in DOMAIN progs : members[1] = progs[i] /\ LineageOf(progs[i]) = g
          BY <1>1, <2>1, Zenon
        <5> QED BY <4>1, <5>1, Zenon
      <4>3. \E n \in Nat : Desired(part[b].new, g.original, n, r)
        BY <1>2, <4>1, Zenon DEF desired, Desired
      <4> QED BY <3>1, <4>1, <4>2, <4>3, Zenon
    <3>2. CASE b # 1
      <4>1. PICK k \in DOMAIN members : part[b] = DetachStep(members[k].id)
        BY <2>4, <3>2, Zenon
      <4>2. part[b].kind = "detach" /\ part[b].old = members[k].id
        BY <4>1, DetachFields, Zenon
      <4>3. \E i \in DOMAIN progs : LineageOf(progs[i]) = g /\ part[b].old = progs[i].id
        <5>1. PICK i \in DOMAIN progs : members[k] = progs[i] /\ LineageOf(progs[i]) = g
          BY <1>1, Zenon
        <5> QED BY <4>2, <5>1, Zenon
      <4>4. part[b].kind # "pair"
        BY <4>2, Zenon
      <4> QED BY <4>2, <4>3, <4>4, Zenon
    <3> QED BY <3>1, <3>2, Zenon
  <2>6. part[1].kind = "pair"
    BY <2>4, PairFields
  <2> QED BY <2>4, <2>5, <2>6, Zenon DEF Part, part, members
<1>8. CASE I # {}
  <2>1. existing \in I /\ existing \in DOMAIN members
    <3>1. I \subseteq Nat
      <4>0. members \in Seq(Attached)
        BY <1>1, Zenon
      <4>1. DOMAIN members \subseteq Nat
        BY <4>0
      <4> QED BY <1>6, <4>1, Zenon
    <3>2. existing \in I
      BY <1>8, <3>1, MinIsLeast, Zenon DEF existing
    <3> QED BY <1>6, <3>2, Zenon
  <2> DEFINE rest == Pick(members, DOMAIN members \ {existing})
  <2>2. /\ rest \in Seq(Attached)
        /\ \A j \in DOMAIN rest : \E i \in DOMAIN members : i # existing /\ rest[j] = members[i]
    <3>1. members \in Seq(Attached) /\ rest = Pick(members, DOMAIN members \ {existing})
      BY <1>1, Zenon
    <3> HIDE DEF rest
    <3>2. rest \in Seq(Attached) /\ Remains(rest, members, existing)
      BY <2>1, <3>1, Removed, Zenon
    <3> QED BY <3>2, Zenon DEF Remains
  <2>3. part = DetachAll(rest)
    <3>1. part = <<>> \o DetachAll(rest)
      BY <1>5, <1>8, Zenon
    <3>2. DetachAll(rest) \in Seq(PlanStep)
      BY <2>2, DetachAllSpec, Zenon
    <3> QED BY <3>1, <3>2
  <2>4. /\ part \in Seq(PlanStep)
        /\ \A b \in DOMAIN part : \E i \in DOMAIN members :
              i # existing /\ part[b] = DetachStep(members[i].id)
    <3>1. part \in Seq(PlanStep) /\ DOMAIN part = DOMAIN rest
      BY <2>2, <2>3, DetachAllSpec, Zenon
    <3>2. \A b \in DOMAIN rest : part[b] = DetachStep(rest[b].id)
      BY <2>2, <2>3, DetachAllSpec, Zenon
    <3> HIDE DEF rest
    <3> QED BY <2>2, <3>1, <3>2, Zenon
  <2>5. PICK e \in DOMAIN progs : members[existing] = progs[e] /\ LineageOf(progs[e]) = g
    BY <1>1, <2>1, Zenon
  <2>6. \E n \in Nat : Content(progs[e]) = Wrapper(g.original, n, r)
    BY <1>2, <1>6, <2>1, <2>5, Zenon DEF desired
  <2>7. ASSUME NEW b \in DOMAIN part
        PROVE  /\ part[b].kind = "detach"
               /\ \E i \in DOMAIN progs : LineageOf(progs[i]) = g /\ part[b].old = progs[i].id
               /\ part[b].old # progs[e].id
    <3>1. PICK k \in DOMAIN members : k # existing /\ part[b] = DetachStep(members[k].id)
      BY <2>4, Zenon
    <3>2. part[b].kind = "detach" /\ part[b].old = members[k].id
      BY <3>1, DetachFields, Zenon
    <3>3. members[k].id # members[existing].id
      BY <1>1, <2>1, <3>1, Zenon DEF Unique
    <3>4. \E i \in DOMAIN progs : LineageOf(progs[i]) = g /\ part[b].old = progs[i].id
      <4>1. PICK i \in DOMAIN progs : members[k] = progs[i] /\ LineageOf(progs[i]) = g
        BY <1>1, Zenon
      <4> QED BY <3>2, <4>1, Zenon
    <3> QED BY <2>5, <3>2, <3>3, <3>4, Zenon
  <2>8. \A b \in DOMAIN part : part[b].kind # "pair" /\ part[b].kind \in {"detach", "pair"}
    BY <2>7, Zenon
  <2> QED BY <2>4, <2>5, <2>6, <2>7, <2>8, Zenon DEF Part, part, members
<1> QED BY <1>7, <1>8, Zenon

\* A count that is not 0 counts something.
LEMMA Counted ==
    ASSUME NEW S, NEW s \in Seq(S), NEW o
    PROVE  /\ CountOf(s, o) \in Nat
           /\ CountOf(s, o) # 0 <=> \E i \in DOMAIN s : s[i].original = o
<1> DEFINE P == {i \in DOMAIN s : s[i].original = o}
<1>1. CountOf(s, o) = Cardinality(P)
    BY Zenon DEF CountOf, Positions
<1>2. Len(s) \in Nat /\ P \subseteq 1 .. Len(s)
    OBVIOUS
<1>3. IsFiniteSet(P) /\ Cardinality(P) \in Nat
    BY <1>2, FinitePositions, Zenon
<1>4. Cardinality(P) = 0 <=> P = {}
    BY <1>3, FS_EmptySet, Zenon
<1>5. P = {} <=> ~ \E i \in DOMAIN s : s[i].original = o
    BY Zenon
<1> HIDE DEF P
<1> QED BY <1>1, <1>3, <1>4, <1>5, Zenon

LEMMA RestorePart ==
    ASSUME NEW progs \in Seq(Attached), Unique(progs), NEW groups \in Seq(CachedLineage),
           NEW a \in DOMAIN groups, \A i \in DOMAIN progs : Plain(progs[i]),
           \E i \in DOMAIN progs : LineageOf(progs[i]) = groups[a]
    PROVE  Part(RestoreSteps(progs, groups, a), progs, groups[a], {})
<1> DEFINE g == groups[a]
           members == Members(progs, g)
           desired == Bare(g.original)
           part == RestoreSteps(progs, groups, a)
           spare == Rank(groups, a) <= CountOf(Bares(progs), g.original)
<1>1. /\ members \in Seq(Attached)
      /\ \A k \in DOMAIN members :
            \E i \in DOMAIN progs : members[k] = progs[i] /\ LineageOf(progs[i]) = g
      /\ \A i \in DOMAIN progs : LineageOf(progs[i]) = g =>
            \E k \in DOMAIN members : members[k] = progs[i]
      /\ Unique(members)
  <2>1. Selected(members, progs, g)
    BY MembersSpec, Zenon
  <2> HIDE DEF members
  <2> QED BY <2>1, Zenon DEF Selected
<1>2. g \in CachedLineage /\ g.original \in Originals
  <2>1. g \in CachedLineage
    OBVIOUS
  <2> HIDE DEF g
  <2> QED BY <2>1, Zenon DEF CachedLineage
<1>3. desired = Wrapper(g.original, 0, {}) /\ desired \in Program
    BY <1>2, Zenon DEF Program, Wrapper, Bare
<1>4. members # <<>>
    BY <1>1
<1>5. part = IF spare THEN DetachAll(members)
             ELSE <<PairStep(members[1].id, desired)>> \o DetachAll(Tail(members))
    BY Zenon DEF RestoreSteps
<1>6. ASSUME spare
      PROVE  \E e \in DOMAIN progs : ~Owned(progs[e]) /\ progs[e].original = g.original
  <2> DEFINE sub == SubSeq(groups, 1, a)
             bares == Bares(progs)
  <2>1. sub \in Seq(CachedLineage) /\ a \in DOMAIN sub /\ sub[a] = groups[a]
    OBVIOUS
  <2>2. bares \in Seq(Attached)
    BY BaresSpec, Zenon
  <2>3. Rank(groups, a) = CountOf(sub, g.original)
    BY Zenon DEF Rank
  <2> HIDE DEF sub, bares, g
  <2>4. CountOf(sub, g.original) \in Nat /\ CountOf(sub, g.original) # 0
    BY <2>1, Counted, Zenon DEF g
  <2>5. CountOf(bares, g.original) \in Nat
    BY <2>2, Counted, Zenon
  <2>6. Rank(groups, a) <= CountOf(bares, g.original)
    BY <1>6, Zenon DEF bares
  <2>7. CountOf(bares, g.original) # 0
    BY <2>3, <2>4, <2>5, <2>6
  <2>8. PICK k \in DOMAIN bares : bares[k].original = g.original
    BY <2>2, <2>7, Counted, Zenon
  <2>9. PICK e \in DOMAIN progs : bares[k] = progs[e] /\ ~Owned(progs[e])
    BY BaresSpec, Zenon DEF bares
  <2> QED BY <2>8, <2>9, Zenon
<1> HIDE DEF g, members, desired, part, spare
<1>7. CASE ~spare
  <2> DEFINE rest == Tail(members)
  <2>1. 1 \in DOMAIN members
    BY <1>1, <1>4
  <2>2. rest \in Seq(Attached) /\ \A j \in DOMAIN rest : \E i \in DOMAIN members : rest[j] = members[i]
    <3>1. members \in Seq(Attached)
      BY <1>1, Zenon
    <3>2. rest \in Seq(Attached) /\ \A j \in DOMAIN rest : rest[j] = members[j + 1] /\ j + 1 \in DOMAIN members
      BY <1>4, <3>1
    <3> QED BY <3>2, Zenon
  <2>3. part = <<PairStep(members[1].id, desired)>> \o DetachAll(rest)
    BY <1>5, <1>7, Zenon
  <2>4. /\ part \in Seq(PlanStep) /\ 1 \in DOMAIN part
        /\ part[1] = PairStep(members[1].id, desired)
        /\ \A b \in DOMAIN part : b # 1 => \E i \in DOMAIN members : part[b] = DetachStep(members[i].id)
    <3> HIDE DEF rest
    <3>1. members \in Seq(Attached)
      BY <1>1, Zenon
    <3>2. SwapsFirst(part, members, desired)
      BY <1>3, <1>4, <2>2, <2>3, <3>1, SwapFirst, Zenon
    <3> QED BY <3>2, Zenon DEF SwapsFirst
  <2>5. ASSUME NEW b \in DOMAIN part
        PROVE  /\ part[b].kind \in {"detach", "pair"}
               /\ \E i \in DOMAIN progs : LineageOf(progs[i]) = g /\ part[b].old = progs[i].id
               /\ part[b].kind = "pair" =>
                     b = 1 /\ \E n \in Nat : Desired(part[b].new, g.original, n, {})
    <3>1. CASE b = 1
      <4>0. part[b] = PairStep(members[1].id, desired)
        BY <2>4, <3>1, Zenon
      <4>1. part[b].kind = "pair" /\ part[b].old = members[1].id /\ part[b].new = desired
        BY <4>0, PairFields
      <4>2. \E i \in DOMAIN progs : LineageOf(progs[i]) = g /\ part[b].old = progs[i].id
        <5>1. PICK i \in DOMAIN progs : members[1] = progs[i] /\ LineageOf(progs[i]) = g
          BY <1>1, <2>1, Zenon
        <5> QED BY <4>1, <5>1, Zenon
      <4>3. \E n \in Nat : Desired(part[b].new, g.original, n, {})
        <5>1. 0 \in Nat
          OBVIOUS
        <5> QED BY <1>3, <4>1, <5>1, Zenon DEF Desired
      <4> QED BY <3>1, <4>1, <4>2, <4>3, Zenon
    <3>2. CASE b # 1
      <4>1. PICK k \in DOMAIN members : part[b] = DetachStep(members[k].id)
        BY <2>4, <3>2, Zenon
      <4>2. part[b].kind = "detach" /\ part[b].old = members[k].id
        BY <4>1, DetachFields, Zenon
      <4>3. \E i \in DOMAIN progs : LineageOf(progs[i]) = g /\ part[b].old = progs[i].id
        <5>1. PICK i \in DOMAIN progs : members[k] = progs[i] /\ LineageOf(progs[i]) = g
          BY <1>1, Zenon
        <5> QED BY <4>2, <5>1, Zenon
      <4>4. part[b].kind # "pair"
        BY <4>2, Zenon
      <4> QED BY <4>2, <4>3, <4>4, Zenon
    <3> QED BY <3>1, <3>2, Zenon
  <2>6. part[1].kind = "pair"
    BY <2>4, PairFields
  <2> QED BY <2>4, <2>5, <2>6, Zenon DEF Part, part, g
<1>8. CASE spare
  <2>1. PICK e \in DOMAIN progs : ~Owned(progs[e]) /\ progs[e].original = g.original
    BY <1>6, <1>8, Zenon
  <2>2. part = DetachAll(members)
    BY <1>5, <1>8, Zenon
  <2>3. /\ part \in Seq(PlanStep) /\ DOMAIN part = DOMAIN members
        /\ \A b \in DOMAIN members : part[b] = DetachStep(members[b].id)
    BY <1>1, <2>2, DetachAllSpec, Zenon
  <2>4. ASSUME NEW b \in DOMAIN part
        PROVE  /\ part[b].kind = "detach" /\ part[b].kind # "pair"
               /\ \E i \in DOMAIN progs : LineageOf(progs[i]) = g /\ part[b].old = progs[i].id
    <3>1. part[b] = DetachStep(members[b].id) /\ b \in DOMAIN members
      BY <2>3, Zenon
    <3>2. part[b].kind = "detach" /\ part[b].old = members[b].id
      BY <3>1, DetachFields, Zenon
    <3>3. PICK i \in DOMAIN progs : members[b] = progs[i] /\ LineageOf(progs[i]) = g
      BY <1>1, <3>1, Zenon
    <3> QED BY <3>2, <3>3, Zenon
  <2>5. \E n \in Nat : Content(progs[e]) = Wrapper(g.original, n, {})
    BY <2>1, Zenon DEF Plain, Owned, Content, Wrapper
  <2> QED BY <2>1, <2>3, <2>4, <2>5, Zenon DEF Part, part, g
<1> QED BY <1>7, <1>8, Zenon

-----------------------------------------------------------------------------
(* What a plan must be for its execution to be safe.  G is a set of programs  *)
(* of which one must always be attached: those around one original, or those  *)
(* that deny one device.                                                      *)

\* Wrapping the original of a member again gives a member.
Rewraps(G, r) == \A c \in G : \A n \in Nat : Wrapper(c.original, n, r) \in G

\* Program w is in G, and before the plan detaches it it puts another program of
\* G in the place of one.
Guarded(G, progs, plan, from, w) ==
    /\ Content(progs[w]) \in G
    /\ \A j \in from .. Len(plan) :
          plan[j].kind = "detach" /\ plan[j].old = progs[w].id =>
              \E k \in from .. j - 1 : plan[k].kind = "pair" /\ plan[k].new \in G

\* A pair step keeps the original of the program that it replaces.
PairOK(step, progs, r) ==
    /\ \E n \in Nat : Desired(step.new, step.new.original, n, r)
    /\ \A i \in DOMAIN progs : progs[i].id = step.old => progs[i].original = step.new.original

Sound(plan, progs, r) ==
    /\ plan \in Seq(PlanStep)
    /\ \A j \in DOMAIN plan : /\ plan[j].kind = "pair" => PairOK(plan[j], progs, r)
                              /\ plan[j].kind = "attach" => Plain(plan[j].new)
    /\ \A G \in SUBSET Program : Rewraps(G, r) =>
          \A i \in DOMAIN progs : Content(progs[i]) \in G =>
              \E w \in DOMAIN progs : Guarded(G, progs, plan, 1, w)

LEMMA PairInPart ==
    ASSUME NEW progs \in Seq(Attached), Unique(progs), NEW g, NEW r, NEW part,
           Part(part, progs, g, r), NEW b \in DOMAIN part, part[b].kind = "pair"
    PROVE  PairOK(part[b], progs, r)
<1>1. PICK i \in DOMAIN progs : LineageOf(progs[i]) = g /\ part[b].old = progs[i].id
    BY Zenon DEF Part
<1>2. PICK n \in Nat : Desired(part[b].new, g.original, n, r)
    BY Zenon DEF Part
<1>3. progs[i].original = g.original
    BY <1>1, Zenon DEF LineageOf, Lineage
<1>4. part[b].new.original = g.original
    BY <1>2 DEF Desired, Wrapper
<1>5. \A k \in DOMAIN progs : progs[k].id = part[b].old => k = i
    BY <1>1, Zenon DEF Unique
<1>6. \A k \in DOMAIN progs : progs[k].id = part[b].old => progs[k].original = part[b].new.original
    BY <1>3, <1>4, <1>5, Zenon
<1>7. \E m \in Nat : Desired(part[b].new, part[b].new.original, m, r)
    BY <1>2, <1>4, Zenon
<1> QED BY <1>6, <1>7, Zenon DEF PairOK

LEMMA FlattenSound ==
    ASSUME NEW progs \in Seq(Attached), Unique(progs), NEW r \in SUBSET Devices,
           NEW groups \in Seq(CachedLineage),
           \A a \in DOMAIN groups :
              \E i \in DOMAIN progs : groups[a] = LineageOf(progs[i]) /\ Owned(progs[i]),
           \A a, b \in DOMAIN groups : groups[a] = groups[b] => a = b,
           NEW ss \in Seq(Seq(PlanStep)), Len(ss) = Len(groups),
           \A a \in DOMAIN groups : Part(ss[a], progs, groups[a], r)
    PROVE  Sound(Concat(ss), progs, r)
<1> DEFINE flat == Concat(ss)
<1>0. DOMAIN groups = 1 .. Len(ss)
    OBVIOUS
<1>1. flat \in Seq(PlanStep) /\ Comes(ss, flat, Len(ss))
    BY FlattenSpec, Zenon
<1> HIDE DEF flat
<1> DEFINE From(j, a, b) ==
              flat[j] = ss[a][b] /\ (b > 1 => \E k \in 1 .. j - 1 : flat[k] = ss[a][1])
<1>2. ASSUME NEW j \in DOMAIN flat
      PROVE  \E a \in DOMAIN groups : \E b \in DOMAIN ss[a] : From(j, a, b)
    BY <1>0, <1>1, Zenon DEF Comes
<1> HIDE DEF From
<1>3. ASSUME NEW j \in DOMAIN flat, flat[j].kind = "pair" PROVE PairOK(flat[j], progs, r)
  <2>1. PICK a \in DOMAIN groups : \E b \in DOMAIN ss[a] : From(j, a, b)
    BY <1>2, Zenon
  <2>4. PICK b \in DOMAIN ss[a] : From(j, a, b)
    BY <2>1, Zenon
  <2>2. flat[j] = ss[a][b]
    BY <2>4, Zenon DEF From
  <2>3. Part(ss[a], progs, groups[a], r)
    BY Zenon
  <2> QED BY <1>3, <2>2, <2>3, PairInPart, Zenon
<1>4. ASSUME NEW G \in SUBSET Program, Rewraps(G, r), NEW i \in DOMAIN progs,
             Content(progs[i]) \in G
      PROVE  \E w \in DOMAIN progs : Guarded(G, progs, flat, 1, w)
  <2> DEFINE Kept(a, e) ==
               /\ \E n \in Nat : Content(progs[e]) = Wrapper(groups[a].original, n, r)
               /\ \/ ~Owned(progs[e])
                  \/ /\ LineageOf(progs[e]) = groups[a]
                     /\ \A b \in DOMAIN ss[a] :
                           ss[a][b].kind = "detach" => ss[a][b].old # progs[e].id
  \* The step at j detaches program w: it belongs to the part of w's lineage.
  <2>1. ASSUME NEW j \in DOMAIN flat, flat[j].kind = "detach", NEW w \in DOMAIN progs,
               flat[j].old = progs[w].id
        PROVE  \E a \in DOMAIN groups :
                  /\ groups[a] = LineageOf(progs[w]) /\ Owned(progs[w])
                  /\ \E b \in DOMAIN ss[a] : From(j, a, b)
    <3>1. PICK a \in DOMAIN groups : \E b \in DOMAIN ss[a] : From(j, a, b)
      BY <1>2, Zenon
    <3>2. PICK b \in DOMAIN ss[a] : From(j, a, b)
      BY <3>1, Zenon
    <3>3. Part(ss[a], progs, groups[a], r)
      BY Zenon
    <3>4. PICK v \in DOMAIN progs : LineageOf(progs[v]) = groups[a] /\ ss[a][b].old = progs[v].id
      BY <3>3, Zenon DEF Part
    <3>9. progs[v].id = progs[w].id
      BY <2>1, <3>2, <3>4, Zenon DEF From
    <3>5. v = w
      BY <3>9, Zenon DEF Unique
    <3>6. PICK u \in DOMAIN progs : groups[a] = LineageOf(progs[u]) /\ Owned(progs[u])
      BY Zenon
    <3>7. LineageOf(progs[w]).nonce # 0
      BY <3>4, <3>5, <3>6 DEF LineageOf, Lineage, Owned
    <3>8. Owned(progs[w])
      BY <3>7, Zenon DEF LineageOf, Lineage, Owned
    <3> QED BY <3>2, <3>4, <3>5, <3>8, Zenon
  <2>2. CASE \E a \in DOMAIN groups : groups[a] = LineageOf(progs[i]) /\ \E e \in DOMAIN progs : Kept(a, e)
    <3>1. PICK a \in DOMAIN groups : groups[a] = LineageOf(progs[i]) /\ \E e \in DOMAIN progs : Kept(a, e)
      BY <2>2, Zenon
    <3>2. PICK e \in DOMAIN progs : Kept(a, e)
      BY <3>1, Zenon
    <3>3. groups[a].original = progs[i].original /\ Content(progs[i]).original = progs[i].original
      BY <3>1 DEF LineageOf, Lineage, Content
    <3>4. \A n \in Nat : Wrapper(groups[a].original, n, r) \in G
      BY <1>4, <3>3, Zenon DEF Rewraps
    <3>5. Content(progs[e]) \in G
      BY <3>2, <3>4, Zenon
    <3>6. ASSUME NEW j \in DOMAIN flat, flat[j].kind = "detach", flat[j].old = progs[e].id
          PROVE  FALSE
      <4>1. PICK c \in DOMAIN groups :
               /\ groups[c] = LineageOf(progs[e]) /\ Owned(progs[e])
               /\ \E b \in DOMAIN ss[c] : From(j, c, b)
        BY <2>1, <3>6, Zenon
      <4>2. LineageOf(progs[e]) = groups[a]
        BY <3>2, <4>1, Zenon
      <4>3. c = a
        BY <4>1, <4>2, Zenon
      <4>4. PICK b \in DOMAIN ss[a] : flat[j] = ss[a][b]
        BY <4>1, <4>3, Zenon DEF From
      <4> QED BY <3>2, <3>6, <4>1, <4>4, Zenon
    <3>7. 1 .. Len(flat) = DOMAIN flat
      BY <1>1
    <3>8. Guarded(G, progs, flat, 1, e)
      BY <3>5, <3>6, <3>7, Zenon DEF Guarded
    <3> QED BY <3>8, Zenon
  <2>3. CASE ~ \E a \in DOMAIN groups : groups[a] = LineageOf(progs[i]) /\ \E e \in DOMAIN progs : Kept(a, e)
    <3>1. ASSUME NEW j \in DOMAIN flat, flat[j].kind = "detach", flat[j].old = progs[i].id
          PROVE  \E k \in 1 .. j - 1 : flat[k].kind = "pair" /\ flat[k].new \in G
      <4>1. PICK a \in DOMAIN groups :
               /\ groups[a] = LineageOf(progs[i])
               /\ \E b \in DOMAIN ss[a] : From(j, a, b)
        BY <2>1, <3>1, Zenon
      <4>2. PICK b \in DOMAIN ss[a] : From(j, a, b)
        BY <4>1, Zenon
      <4>3. Part(ss[a], progs, groups[a], r)
        BY Zenon
      <4>4. 1 \in DOMAIN ss[a] /\ ss[a][1].kind = "pair"
        BY <2>3, <4>1, <4>3, Zenon DEF Part
      <4>5. b # 1
        BY <3>1, <4>2, <4>4, Zenon DEF From
      <4>6. b > 1
        <5>1. ss[a] \in Seq(PlanStep)
          BY <4>3, Zenon DEF Part
        <5> QED BY <4>5, <5>1
      <4>7. PICK k \in 1 .. j - 1 : flat[k] = ss[a][1]
        BY <4>2, <4>6, Zenon DEF From
      <4>8. PICK n \in Nat : Desired(ss[a][1].new, groups[a].original, n, r)
        BY <4>3, <4>4, Zenon DEF Part
      <4>9. groups[a].original = progs[i].original /\ Content(progs[i]).original = progs[i].original
        BY <4>1 DEF LineageOf, Lineage, Content
      <4>10. ss[a][1].new \in G
        <5>1. Wrapper(progs[i].original, n, r) \in G
          BY <1>4, <4>9, Zenon DEF Rewraps
        <5> QED BY <4>8, <4>9, <5>1, Zenon DEF Desired
      <4> QED BY <4>4, <4>7, <4>10, Zenon
    <3>2. 1 .. Len(flat) = DOMAIN flat
      BY <1>1
    <3>3. Guarded(G, progs, flat, 1, i)
      BY <1>4, <3>1, <3>2, Zenon DEF Guarded
    <3> QED BY <3>3, Zenon
  <2> QED BY <2>2, <2>3, Zenon
<1>6. ASSUME NEW j \in DOMAIN flat PROVE flat[j].kind # "attach"
  <2>1. PICK a \in DOMAIN groups : \E b \in DOMAIN ss[a] : From(j, a, b)
    BY <1>2, Zenon
  <2>2. PICK b \in DOMAIN ss[a] : From(j, a, b)
    BY <2>1, Zenon
  <2>3. ss[a][b].kind \in {"detach", "pair"}
    BY Zenon DEF Part
  <2> QED BY <2>2, <2>3, Zenon DEF From
<1>5. Sound(flat, progs, r)
    BY <1>1, <1>3, <1>4, <1>6, Zenon DEF Sound
<1> QED BY <1>5, Zenon DEF flat

\* Steps that only attach or swap can be added to a plan.
LEMMA SoundExtends ==
    ASSUME NEW progs, NEW r, NEW plan, Sound(plan, progs, r), NEW more \in Seq(PlanStep),
           \A j \in DOMAIN more : \/ more[j].kind = "pair" /\ PairOK(more[j], progs, r)
                                  \/ more[j].kind = "attach" /\ Plain(more[j].new)
    PROVE  Sound(plan \o more, progs, r)
<1> DEFINE both == plan \o more
<1>0. plan \in Seq(PlanStep)
    BY Zenon DEF Sound
<1>1. /\ both \in Seq(PlanStep)
      /\ DOMAIN both = 1 .. Len(plan) + Len(more)
      /\ Len(both) = Len(plan) + Len(more)
      /\ \A j \in DOMAIN plan : both[j] = plan[j] /\ j \in Nat
      /\ \A b \in DOMAIN more : both[Len(plan) + b] = more[b]
    BY <1>0, Concatenation
<1> HIDE DEF both
<1>2. /\ DOMAIN plan = 1 .. Len(plan) /\ DOMAIN more = 1 .. Len(more)
      /\ Len(plan) \in Nat /\ Len(more) \in Nat
    BY <1>0
<1>3. ASSUME NEW j \in DOMAIN both, j \notin DOMAIN plan
      PROVE  \/ both[j].kind = "pair" /\ PairOK(both[j], progs, r)
             \/ both[j].kind = "attach" /\ Plain(both[j].new)
  <2>1. j - Len(plan) \in DOMAIN more /\ j = Len(plan) + (j - Len(plan))
    <3>1. j \in 1 .. Len(plan) + Len(more) /\ j \notin 1 .. Len(plan)
      BY <1>1, <1>2, <1>3, Zenon
    <3>2. j - Len(plan) \in 1 .. Len(more) /\ j = Len(plan) + (j - Len(plan))
      BY <1>2, <3>1
    <3> QED BY <1>2, <3>2, Zenon
  <2>2. both[j] = more[j - Len(plan)]
    BY <1>1, <2>1, Zenon
  <2> QED BY <2>1, <2>2, Zenon
<1>4. ASSUME NEW j \in DOMAIN both
      PROVE  /\ both[j].kind = "pair" => PairOK(both[j], progs, r)
             /\ both[j].kind = "attach" => Plain(both[j].new)
  <2>1. CASE j \in DOMAIN plan
    <3>1. both[j] = plan[j]
      BY <1>1, <2>1, Zenon
    <3> QED BY <2>1, <3>1, Zenon DEF Sound
  <2>2. CASE j \notin DOMAIN plan
    BY <1>3, <2>2, Zenon
  <2> QED BY <2>1, <2>2, Zenon
<1>5. ASSUME NEW G \in SUBSET Program, Rewraps(G, r), NEW i \in DOMAIN progs,
             Content(progs[i]) \in G
      PROVE  \E w \in DOMAIN progs : Guarded(G, progs, both, 1, w)
  <2>1. PICK w \in DOMAIN progs : Guarded(G, progs, plan, 1, w)
    BY <1>5, Zenon DEF Sound
  <2>2. ASSUME NEW j \in 1 .. Len(both), both[j].kind = "detach", both[j].old = progs[w].id
        PROVE  \E k \in 1 .. j - 1 : both[k].kind = "pair" /\ both[k].new \in G
    <3>1. j \in DOMAIN both
      BY <1>1, Zenon
    <3>2. j \in DOMAIN plan
      BY <1>3, <2>2, <3>1, Zenon
    <3>3. plan[j].kind = "detach" /\ plan[j].old = progs[w].id /\ j \in 1 .. Len(plan)
      BY <1>1, <1>2, <2>2, <3>2, Zenon
    <3>4. PICK k \in 1 .. j - 1 : plan[k].kind = "pair" /\ plan[k].new \in G
      BY <2>1, <3>3, Zenon DEF Guarded
    <3>5. k \in DOMAIN plan
      BY <1>2, <3>3
    <3> QED BY <1>1, <3>4, <3>5, Zenon
  <2>3. Guarded(G, progs, both, 1, w)
    BY <2>1, <2>2, Zenon DEF Guarded
  <2> QED BY <2>3, Zenon
<1>6. Sound(both, progs, r)
    BY <1>1, <1>4, <1>5, Zenon DEF Sound
<1> QED BY <1>6, Zenon DEF both

PlanOK(plan, progs, r) ==
    /\ Sound(plan.steps, progs, r)
    /\ plan.lineages \in Seq(CachedLineage)
    /\ plan.nonces \in Nat

LEMMA GrantSound ==
    ASSUME NEW progs \in Seq(Attached), Unique(progs), NEW r \in SUBSET Devices, nonces \in Nat
    PROVE  PlanOK(PlanGrant(progs, r), progs, r)
<1> DEFINE groups == Groups(progs)
           bares == Bares(progs)
           ss == [a \in DOMAIN groups |-> GrantSteps(Members(progs, groups[a]), groups[a], r)]
           more == [i \in DOMAIN bares |->
                      PairStep(bares[i].id, Wrapper(bares[i].original, nonces + i, r))]
           fresh == [i \in DOMAIN bares |-> Lineage(nonces + i, bares[i].original)]
           plan == PlanGrant(progs, r)
<1>1. /\ groups \in Seq(CachedLineage)
      /\ \A a \in DOMAIN groups :
            \E i \in DOMAIN progs : groups[a] = LineageOf(progs[i]) /\ Owned(progs[i])
      /\ \A a, b \in DOMAIN groups : groups[a] = groups[b] => a = b
    BY GroupsSpec, Zenon
<1>2. /\ bares \in Seq(Attached)
      /\ \A k \in DOMAIN bares : \E i \in DOMAIN progs : bares[k] = progs[i] /\ ~Owned(progs[i])
    BY BaresSpec, Zenon
<1>3. /\ plan.steps = Concat(ss) \o more
      /\ plan.lineages = groups \o fresh
      /\ plan.nonces = nonces + Len(bares)
    BY Zenon DEF PlanGrant
<1>4. ASSUME NEW a \in DOMAIN groups
      PROVE  ss[a] \in Seq(PlanStep) /\ Part(ss[a], progs, groups[a], r)
  <2>1. groups[a] \in CachedLineage
    BY <1>1
  <2>2. \E i \in DOMAIN progs : LineageOf(progs[i]) = groups[a] /\ Owned(progs[i])
    BY <1>1, Zenon
  <2> HIDE DEF groups
  <2>3. Part(GrantSteps(Members(progs, groups[a]), groups[a], r), progs, groups[a], r)
    BY <2>1, <2>2, GrantPart, Zenon
  <2>4. ss[a] = GrantSteps(Members(progs, groups[a]), groups[a], r)
    BY Zenon
  <2> HIDE DEF ss
  <2>5. Part(ss[a], progs, groups[a], r)
    BY <2>3, <2>4, Zenon
  <2> QED BY <2>5, Zenon DEF Part
<1>5. DOMAIN ss = DOMAIN groups
    BY Zenon
<1>6. \A i \in DOMAIN bares :
         /\ more[i] = PairStep(bares[i].id, Wrapper(bares[i].original, nonces + i, r))
         /\ fresh[i] = Lineage(nonces + i, bares[i].original)
    BY Zenon
<1>7. DOMAIN more = DOMAIN bares /\ DOMAIN fresh = DOMAIN bares
    BY Zenon
<1>8. ss = [a \in DOMAIN groups |-> ss[a]] /\ more = [i \in DOMAIN bares |-> more[i]]
      /\ fresh = [i \in DOMAIN bares |-> fresh[i]]
    BY Zenon
<1> HIDE DEF groups, bares, ss, more, fresh, plan
<1>9. ss \in Seq(Seq(PlanStep)) /\ Len(ss) = Len(groups)
  <2>1. groups \in Seq(CachedLineage)
    BY <1>1, Zenon
  <2>2. ss \in [1 .. Len(groups) -> Seq(PlanStep)]
    BY <1>4, <1>8, <2>1
  <2> QED BY <2>1, <2>2
<1>10. Sound(Concat(ss), progs, r)
    BY <1>1, <1>4, <1>9, FlattenSound, Zenon
<1>11. ASSUME NEW i \in DOMAIN bares
       PROVE  /\ more[i] \in PlanStep /\ fresh[i] \in CachedLineage
              /\ more[i].kind = "pair" /\ PairOK(more[i], progs, r)
  <2>1. PICK k \in DOMAIN progs : bares[i] = progs[k] /\ ~Owned(progs[k])
    BY <1>2, Zenon
  <2>2. bares[i] \in Attached
    BY <1>2
  <2>3. bares[i].id \in Nat /\ bares[i].original \in Originals
    BY <2>2, Records, Zenon
  <2>4. nonces + i \in Nat /\ nonces + i # 0
    BY <1>2
  <2> DEFINE new == Wrapper(bares[i].original, nonces + i, r)
  <2>5. new \in Program
    BY <2>3, <2>4, Wrappers, Zenon
  <2>6. more[i] \in PlanStep
    BY <1>6, <2>3, <2>5, Steps, Zenon
  <2>7. more[i].kind = "pair" /\ more[i].old = bares[i].id /\ more[i].new = new
    <3>1. more[i] = PairStep(bares[i].id, new)
      BY <1>6, Zenon
    <3> HIDE DEF new
    <3> QED BY <3>1, PairFields
  <2>8. new.original = bares[i].original
    BY Zenon DEF Wrapper
  <2>9. \A j \in DOMAIN progs : progs[j].id = more[i].old => progs[j].original = more[i].new.original
    BY <2>1, <2>7, <2>8, Zenon DEF Unique
  <2>10. Desired(more[i].new, more[i].new.original, nonces + i, r)
    BY <2>4, <2>7, <2>8, Zenon DEF Desired
  <2>11. PairOK(more[i], progs, r)
    BY <2>4, <2>9, <2>10, Zenon DEF PairOK
  <2>12. fresh[i] \in CachedLineage
    <3>1. fresh[i] = Lineage(nonces + i, bares[i].original)
      BY <1>6, Zenon
    <3> QED BY <2>3, <2>4, <3>1 DEF Lineage, CachedLineage
  <2> QED BY <2>6, <2>7, <2>11, <2>12, Zenon
<1>12. more \in Seq(PlanStep) /\ fresh \in Seq(CachedLineage)
  <2>1. bares \in Seq(Attached)
    BY <1>2, Zenon
  <2>2. more \in [1 .. Len(bares) -> PlanStep]
    BY <1>8, <1>11, <2>1
  <2>3. fresh \in [1 .. Len(bares) -> CachedLineage]
    BY <1>8, <1>11, <2>1
  <2> QED BY <2>1, <2>2, <2>3
<1>13. Sound(Concat(ss) \o more, progs, r)
    BY <1>7, <1>10, <1>11, <1>12, SoundExtends, Zenon
<1>14. groups \o fresh \in Seq(CachedLineage)
    BY <1>1, <1>12, Concatenation, Zenon
<1>15. nonces + Len(bares) \in Nat
    BY <1>2
<1> QED BY <1>3, <1>13, <1>14, <1>15, Zenon DEF PlanOK, plan

LEMMA RestoreSound ==
    ASSUME NEW progs \in Seq(Attached), Unique(progs), \A i \in DOMAIN progs : Plain(progs[i]),
           nonces \in Nat
    PROVE  PlanOK(PlanRestore(progs), progs, {})
<1> DEFINE groups == Groups(progs)
           bares == Bares(progs)
           ss == [a \in DOMAIN groups |-> RestoreSteps(progs, groups, a)]
           all == [i \in DOMAIN bares |-> i]
           P == {i \in DOMAIN all : Rank(bares, all[i]) > CountOf(groups, bares[all[i]].original)}
           unused == Pick(all, P)
           loose == [i \in DOMAIN unused |-> Lineage(0, bares[unused[i]].original)]
           plan == PlanRestore(progs)
<1>1. /\ groups \in Seq(CachedLineage)
      /\ \A a \in DOMAIN groups :
            \E i \in DOMAIN progs : groups[a] = LineageOf(progs[i]) /\ Owned(progs[i])
      /\ \A a, b \in DOMAIN groups : groups[a] = groups[b] => a = b
    BY GroupsSpec, Zenon
<1>2. bares \in Seq(Attached)
    BY BaresSpec, Zenon
<1>3. /\ plan.steps = Concat(ss)
      /\ plan.lineages = groups \o loose
      /\ plan.nonces = nonces
    BY Zenon DEF PlanRestore, Select, Positions
<1>4. ASSUME NEW a \in DOMAIN groups
      PROVE  ss[a] \in Seq(PlanStep) /\ Part(ss[a], progs, groups[a], {})
  <2>1. \E i \in DOMAIN progs : LineageOf(progs[i]) = groups[a]
    BY <1>1, Zenon
  <2>0. groups \in Seq(CachedLineage)
    BY <1>1, Zenon
  <2> HIDE DEF groups
  <2>3. Part(RestoreSteps(progs, groups, a), progs, groups[a], {})
    BY <2>0, <2>1, RestorePart, Zenon
  <2>4. ss[a] = RestoreSteps(progs, groups, a)
    BY Zenon
  <2> HIDE DEF ss
  <2>5. Part(ss[a], progs, groups[a], {})
    BY <2>3, <2>4, Zenon
  <2> QED BY <2>5, Zenon DEF Part
<1>5. ss = [a \in DOMAIN groups |-> ss[a]] /\ loose = [i \in DOMAIN unused |-> loose[i]]
    BY Zenon
<1>6. P \subseteq DOMAIN all /\ DOMAIN all = DOMAIN bares /\ \A i \in DOMAIN bares : all[i] = i
    BY Zenon
<1>7. \A i \in DOMAIN unused : loose[i] = Lineage(0, bares[unused[i]].original)
    BY Zenon
<1>16. all = [i \in DOMAIN bares |-> all[i]]
    BY Zenon
<1> HIDE DEF groups, bares, ss, all, P, loose, plan
<1>8. all \in Seq(DOMAIN bares)
  <2>1. all \in [1 .. Len(bares) -> DOMAIN bares]
    BY <1>2, <1>6, <1>16
  <2> QED BY <1>2, <2>1
<1>9. unused \in Seq(DOMAIN bares)
    BY <1>6, <1>8, PickSpec, Zenon
<1> HIDE DEF unused
<1>10. \A i \in DOMAIN unused : loose[i] \in CachedLineage
  <2>1. \A i \in DOMAIN unused : unused[i] \in DOMAIN bares
    BY <1>9
  <2>2. \A i \in DOMAIN bares : bares[i].original \in Originals
    <3>1. \A i \in DOMAIN bares : bares[i] \in Attached
      BY <1>2
    <3> QED BY <3>1, Records, Zenon
  <2>3. \A i \in DOMAIN unused : bares[unused[i]].original \in Originals
    BY <2>1, <2>2, Zenon
  <2>4. \A o \in Originals : Lineage(0, o) \in CachedLineage
    BY Zenon DEF Lineage, CachedLineage
  <2> QED BY <1>7, <2>3, <2>4, Zenon
<1>11. loose \in Seq(CachedLineage)
  <2>1. loose \in [1 .. Len(unused) -> CachedLineage]
    BY <1>5, <1>9, <1>10
  <2> QED BY <1>9, <2>1
<1>12. ss \in Seq(Seq(PlanStep)) /\ Len(ss) = Len(groups)
  <2>1. groups \in Seq(CachedLineage)
    BY <1>1, Zenon
  <2>2. ss \in [1 .. Len(groups) -> Seq(PlanStep)]
    BY <1>4, <1>5, <2>1
  <2> QED BY <2>1, <2>2
<1>13. Sound(Concat(ss), progs, {})
    BY <1>1, <1>4, <1>12, FlattenSound, Zenon
<1>14. groups \o loose \in Seq(CachedLineage)
    BY <1>1, <1>11, Concatenation, Zenon
<1> QED BY <1>3, <1>13, <1>14, Zenon DEF PlanOK, plan

LEMMA MissingTyped ==
    ASSUME NEW cached \in Seq(CachedLineage), NEW progs
    PROVE  MissingLineages(cached, progs) \in Seq(CachedLineage)
<1> DEFINE P == {i \in DOMAIN cached : cached[i] \notin Range(Groups(progs))}
           unmatched == Pick(cached, P)
           all == [i \in DOMAIN unmatched |-> i]
           Q == {i \in DOMAIN all :
                    Rank(unmatched, all[i]) > CountOf(Bares(progs), unmatched[all[i]].original)}
           missing == Pick(all, Q)
           result == [i \in DOMAIN missing |-> unmatched[missing[i]]]
<1>1. MissingLineages(cached, progs) = result
    BY Zenon DEF MissingLineages, Select, Positions
<1>2. P \subseteq DOMAIN cached
    BY Zenon
<1> HIDE DEF P
<1>3. unmatched \in Seq(CachedLineage)
    BY <1>2, PickSpec, Zenon
<1> HIDE DEF unmatched
<1>4. all \in Seq(DOMAIN unmatched) /\ Q \subseteq DOMAIN all
  <2>1. all \in [1 .. Len(unmatched) -> DOMAIN unmatched]
    BY <1>3
  <2>2. Q \subseteq DOMAIN all
    BY Zenon
  <2> HIDE DEF all
  <2> QED BY <1>3, <2>1, <2>2
<1> HIDE DEF all, Q
<1>5. missing \in Seq(DOMAIN unmatched)
    BY <1>4, PickSpec, Zenon
<1> HIDE DEF missing
<1>6. \A i \in DOMAIN missing : unmatched[missing[i]] \in CachedLineage
  <2>1. \A i \in DOMAIN missing : missing[i] \in DOMAIN unmatched
    BY <1>5
  <2>2. \A i \in DOMAIN unmatched : unmatched[i] \in CachedLineage
    BY <1>3
  <2> QED BY <2>1, <2>2, Zenon
<1>7. result \in [1 .. Len(missing) -> CachedLineage]
    BY <1>5, <1>6
<1> HIDE DEF result
<1> QED BY <1>1, <1>5, <1>7

LEMMA RebuildSound ==
    ASSUME NEW plan, NEW progs, NEW r \in SUBSET Devices, PlanOK(plan, progs, r),
           NEW cached \in Seq(CachedLineage)
    PROVE  PlanOK(AddRebuild(plan, cached, r), progs, r)
<1> DEFINE Zero(i) == {k \in DOMAIN SubSeq(cached, 1, i) : SubSeq(cached, 1, i)[k].nonce = 0}
           Fresh(i) == Cardinality(Zero(i))
           Nonce(i) == IF cached[i].nonce = 0 /\ r # {} THEN plan.nonces + Fresh(i)
                       ELSE cached[i].nonce
           Prog(i) == IF r = {} THEN Bare(cached[i].original)
                      ELSE Wrapper(cached[i].original, Nonce(i), r)
           more == [i \in DOMAIN cached |-> AttachStep(Prog(i))]
           again == [i \in DOMAIN cached |-> Lineage(Nonce(i), cached[i].original)]
           result == AddRebuild(plan, cached, r)
<1>1. /\ result.steps = plan.steps \o more
      /\ result.lineages = plan.lineages \o again
      /\ result.nonces = IF r = {} THEN plan.nonces ELSE plan.nonces + Fresh(Len(cached))
    BY Zenon DEF AddRebuild, Positions
<1>2. ASSUME NEW i \in 0 .. Len(cached)
      PROVE  /\ Fresh(i) \in Nat
             /\ i # 0 /\ cached[i].nonce = 0 => Fresh(i) # 0
  <2> DEFINE sub == SubSeq(cached, 1, i)
  <2>1. /\ DOMAIN sub = 1 .. i
        /\ i # 0 => i \in DOMAIN sub /\ sub[i] = cached[i]
    OBVIOUS
  <2> HIDE DEF sub
  <2>2. Zero(i) = {k \in DOMAIN sub : sub[k].nonce = 0}
    BY Zenon DEF sub
  <2> HIDE DEF Zero
  <2>3. Zero(i) \subseteq 1 .. i
    BY <2>1, <2>2, Zenon
  <2>4. IsFiniteSet(Zero(i)) /\ Cardinality(Zero(i)) \in Nat
    BY <2>3, FinitePositions
  <2>5. i # 0 /\ cached[i].nonce = 0 => i \in Zero(i)
    BY <2>1, <2>2, Zenon
  <2>6. Zero(i) # {} => Cardinality(Zero(i)) # 0
    BY <2>4, FS_EmptySet, Zenon
  <2> QED BY <2>4, <2>5, <2>6, Zenon
<1>3. plan.nonces \in Nat /\ plan.lineages \in Seq(CachedLineage) /\ Sound(plan.steps, progs, r)
    BY Zenon DEF PlanOK
<1> HIDE DEF Zero, Fresh
<1>4. ASSUME NEW i \in DOMAIN cached
      PROVE  /\ Nonce(i) \in Nat /\ cached[i].original \in Originals
             /\ r # {} => Nonce(i) # 0
  <2>1. i \in 0 .. Len(cached) /\ i # 0
    OBVIOUS
  <2>2. cached[i] \in CachedLineage
    OBVIOUS
  <2>3. cached[i].nonce \in Nat /\ cached[i].original \in Originals
    BY <2>2, Zenon DEF CachedLineage
  <2>4. Fresh(i) \in Nat /\ (cached[i].nonce = 0 => Fresh(i) # 0)
    BY <1>2, <2>1, Zenon
  <2> QED BY <1>3, <2>3, <2>4
<1> HIDE DEF Nonce
<1>5. ASSUME NEW i \in DOMAIN cached
      PROVE  Prog(i) \in Program /\ Plain(Prog(i))
  <2>1. CASE r = {}
    BY <1>4, <2>1, Zenon DEF Bare, Plain, Program
  <2>2. CASE r # {}
    <3>1. Prog(i) = Wrapper(cached[i].original, Nonce(i), r)
      BY <2>2, Zenon
    <3> HIDE DEF Prog
    <3> QED BY <1>4, <2>2, <3>1 DEF Wrapper, Plain, Program
  <2> QED BY <2>1, <2>2, Zenon
<1> HIDE DEF Prog
<1>6. \A i \in DOMAIN cached : /\ more[i] = AttachStep(Prog(i))
                               /\ again[i] = Lineage(Nonce(i), cached[i].original)
    BY Zenon
<1>7. DOMAIN more = DOMAIN cached /\ more = [i \in DOMAIN cached |-> more[i]]
      /\ again = [i \in DOMAIN cached |-> again[i]]
    BY Zenon
<1> HIDE DEF more, again
<1>8. \A i \in DOMAIN cached : more[i] \in PlanStep /\ again[i] \in CachedLineage
  <2>1. \A i \in DOMAIN cached : more[i] \in PlanStep
    BY <1>5, <1>6, Steps, Zenon
  <2>2. \A n \in Nat, o \in Originals : Lineage(n, o) \in CachedLineage
    BY Zenon DEF Lineage, CachedLineage
  <2>3. \A i \in DOMAIN cached : again[i] \in CachedLineage
    BY <1>4, <1>6, <2>2, Zenon
  <2> QED BY <2>1, <2>3, Zenon
<1>9. more \in Seq(PlanStep) /\ again \in Seq(CachedLineage)
  <2>1. more \in [1 .. Len(cached) -> PlanStep]
    BY <1>7, <1>8
  <2>2. again \in [1 .. Len(cached) -> CachedLineage]
    BY <1>7, <1>8
  <2> QED BY <2>1, <2>2
<1>10. ASSUME NEW i \in DOMAIN more PROVE more[i].kind = "attach" /\ Plain(more[i].new)
  <2>1. more[i] = AttachStep(Prog(i)) /\ i \in DOMAIN cached
    BY <1>6, <1>7, Zenon
  <2>2. more[i].kind = "attach" /\ more[i].new = Prog(i)
    BY <2>1 DEF AttachStep
  <2> QED BY <1>5, <2>1, <2>2, Zenon
<1>11. Sound(plan.steps \o more, progs, r)
    BY <1>3, <1>9, <1>10, SoundExtends, Zenon
<1>12. plan.lineages \o again \in Seq(CachedLineage)
    BY <1>3, <1>9, Concatenation, Zenon
<1>13. result.nonces \in Nat
  <2>1. Len(cached) \in 0 .. Len(cached)
    OBVIOUS
  <2> QED BY <1>1, <1>2, <1>3, <2>1
<1> HIDE DEF result
<1> QED BY <1>1, <1>11, <1>12, <1>13, Zenon DEF PlanOK, result

\* The empty plan of a rebuild.
LEMMA EmptySound ==
    ASSUME NEW r, nonces \in Nat
    PROVE  PlanOK(EmptyPlan, <<>>, r)
<1>1. Sound(<<>>, <<>>, r)
    BY DEF Sound
<1>2. EmptyPlan.steps = <<>> /\ EmptyPlan.lineages = <<>> /\ EmptyPlan.nonces = nonces
    BY Zenon DEF EmptyPlan
<1> QED BY <1>1, <1>2 DEF PlanOK

=============================================================================
