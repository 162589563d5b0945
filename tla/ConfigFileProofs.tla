--------------------------- MODULE ConfigFileProofs --------------------------
(***************************************************************************)
(* Proofs about ConfigFile: whatever is in the files, a file is accepted    *)
(* only if it is strict, and the settings in force are those the flags and  *)
(* the accepted files say.                                                  *)
(*                                                                         *)
(* The inductive invariant is that the node tree is well formed; the rest   *)
(* is about one document.  The decode goes over the pairs of the document   *)
(* in order, and what it has after n of them (DecodedUpTo) is shown by       *)
(* induction on n, in the form that the least n for which it fails is       *)
(* refuted (Minimum).                                                       *)
(***************************************************************************)
EXTENDS ConfigFile, FiniteSetTheorems, WellFoundedInduction, TLAPS

-----------------------------------------------------------------------------
(* Positions of a list.                                                      *)

LEMMA Minimum ==
    ASSUME NEW T, T \subseteq Nat, T # {}
    PROVE  \E x \in T : \A y \in T : x <= y
<1> DEFINE R == OpToRel(<, Nat)
<1>1. IsWellFoundedOn(R, Nat)
    BY NatLessThanWellFounded, Zenon
<1>2. \A x, y \in Nat : <<y, x>> \in R <=> y < x
    BY Zenon DEF OpToRel
<1> HIDE DEF R
<1>3. \E x \in T : \A y \in T : ~(<<y, x>> \in R)
    BY <1>1, WFMin, Zenon
<1>4. \A x, y \in Nat : ~(<<y, x>> \in R) => x <= y
    BY <1>2
<1> QED BY <1>3, <1>4, Zenon

\* A set of positions is finite, and so is what is at most one of them.
LEMMA FinitePositions ==
    ASSUME NEW n \in Nat, NEW P, P \subseteq 1 .. n
    PROVE  IsFiniteSet(P) /\ Cardinality(P) \in Nat /\ Cardinality(P) <= n
<1>1. IsFiniteSet(1 .. n) /\ Cardinality(1 .. n) = n
    BY FS_Interval
<1>2. IsFiniteSet(P) /\ Cardinality(P) <= n
    BY <1>1, FS_Subset, Zenon
<1> QED BY <1>2, FS_CardinalityType, Zenon

\* Every rank is taken: Nth chooses an element.
LEMMA NthExists ==
    ASSUME NEW n \in Nat, NEW P, P \subseteq 1 .. n, NEW k \in 1 .. Cardinality(P)
    PROVE  \E p \in P : Cardinality(UpTo(P, p)) = k
<1> DEFINE M == {m \in 0 .. n : Cardinality(UpTo(P, m)) >= k}
<1>1. \A m : IsFiniteSet(UpTo(P, m)) /\ Cardinality(UpTo(P, m)) \in Nat
    BY FinitePositions, Zenon DEF UpTo
<1>0. \A q \in P : q \in Nat /\ q <= n /\ ~(q <= 0)
    OBVIOUS
<1>2. UpTo(P, n) = P /\ UpTo(P, 0) = {}
    BY <1>0, Zenon DEF UpTo
<1>3. Cardinality(UpTo(P, 0)) = 0
    BY <1>2, FS_EmptySet, Zenon
<1>4. Cardinality(P) \in Nat
    BY FinitePositions, Zenon
<1>5. n \in M
    BY <1>2, <1>4
<1>6. PICK m \in M : \A x \in M : m <= x
  <2>1. M \subseteq Nat /\ M # {}
    BY <1>5
  <2> QED BY <2>1, Minimum, Zenon
<1>7. m \in 1 .. n
    BY <1>3, <1>4, <1>6
<1>8. ~(Cardinality(UpTo(P, m - 1)) >= k)
  <2>1. m - 1 \in 0 .. n /\ ~(m <= m - 1)
    BY <1>7
  <2> QED BY <1>6, <2>1, Zenon
<1>9. Cardinality(UpTo(P, m)) >= k
    BY <1>6, Zenon
<1> HIDE DEF M
<1>10. UpTo(P, m) = UpTo(P, m - 1) \cup (P \cap {m})
  <2>1. \A q \in P : q <= m <=> q <= m - 1 \/ q = m
    BY <1>0, <1>7
  <2> QED BY <2>1, Zenon DEF UpTo
<1>11. m \in P
  <2>1. SUFFICES ASSUME m \notin P PROVE FALSE
    OBVIOUS
  <2>2. UpTo(P, m) = UpTo(P, m - 1)
    BY <1>10, <2>1, Zenon
  <2> QED BY <1>8, <1>9, <2>2, Zenon
<1>12. UpTo(P, m) = UpTo(P, m - 1) \cup {m}
    BY <1>10, <1>11, Zenon
<1>13. m \notin UpTo(P, m - 1)
    BY <1>7 DEF UpTo
<1>14. Cardinality(UpTo(P, m)) = Cardinality(UpTo(P, m - 1)) + 1
    BY <1>1, <1>12, <1>13, FS_AddElement, Zenon
<1>15. Cardinality(UpTo(P, m)) = k
    BY <1>1, <1>4, <1>8, <1>9, <1>14
<1> QED BY <1>11, <1>15, Zenon

LEMMA NthSpec ==
    ASSUME NEW n \in Nat, NEW P, P \subseteq 1 .. n, NEW k \in 1 .. Cardinality(P)
    PROVE  Nth(P, k) \in P /\ Cardinality(UpTo(P, Nth(P, k))) = k
BY NthExists, Zenon DEF Nth

\* The ranks of two positions differ.
LEMMA RankInjective ==
    ASSUME NEW n \in Nat, NEW P, P \subseteq 1 .. n, NEW x \in P, NEW y \in P,
           Cardinality(UpTo(P, x)) = Cardinality(UpTo(P, y))
    PROVE  x = y
<1>1. ASSUME NEW u \in P, NEW v \in P, u < v,
             Cardinality(UpTo(P, u)) = Cardinality(UpTo(P, v))
      PROVE  FALSE
  <2>1. \A q \in P : q <= u => q <= v
    BY <1>1
  <2>4. UpTo(P, u) \in SUBSET UpTo(P, v)
    BY <2>1, Zenon DEF UpTo
  <2>2. IsFiniteSet(UpTo(P, v))
    BY FinitePositions, Zenon DEF UpTo
  <2>3. UpTo(P, u) = UpTo(P, v)
    BY <1>1, <2>4, <2>2, FS_Subset, Zenon
  <2> QED BY <1>1, <2>3 DEF UpTo
<1> QED BY <1>1

\* Every position has its rank.
LEMMA NthOnto ==
    ASSUME NEW n \in Nat, NEW P, P \subseteq 1 .. n, NEW p \in P
    PROVE  \E k \in 1 .. Cardinality(P) : Nth(P, k) = p
<1> DEFINE U == UpTo(P, p)
<1>1. IsFiniteSet(P) /\ Cardinality(P) \in Nat /\ IsFiniteSet(U) /\ Cardinality(U) \in Nat
    BY FinitePositions, Zenon DEF UpTo
<1>2. Cardinality(U) <= Cardinality(P)
    BY <1>1, FS_Subset, Zenon DEF UpTo
<1>3. Cardinality(U) # 0
  <2>1. p \in U
    BY DEF UpTo
  <2> QED BY <1>1, <2>1, FS_EmptySet, Zenon
<1>4. Cardinality(U) \in 1 .. Cardinality(P)
    BY <1>1, <1>2, <1>3
<1>5. /\ Nth(P, Cardinality(U)) \in P
      /\ Cardinality(UpTo(P, Nth(P, Cardinality(U)))) = Cardinality(U)
    BY <1>4, NthSpec, Zenon
<1>6. Nth(P, Cardinality(U)) = p
    BY <1>5, RankInjective, Zenon
<1> QED BY <1>4, <1>6, Zenon

-----------------------------------------------------------------------------
(* The node tree.                                                            *)

NodeKinds == {"scalar", "mapping", "sequence", "alias"}

Tags == {ScalarTag(scalar) : scalar \in Scalars} \cup {"", "!!map", "!!seq"}

Texts == {scalar.text : scalar \in Scalars} \cup Anchors \cup {""}

NodeSet == [kind : NodeKinds, tag : Tags, text : Texts, content : Seq(Nat), alias : Nat]

\* The children of a node and what an alias stands for are nodes of the tree, an alias
\* stands for no alias, and a collection has its own tag and no text.
WellFormedNode(i) ==
    /\ \A j \in DOMAIN nodes[i].content : nodes[i].content[j] \in DOMAIN nodes
    /\ nodes[i].kind = "alias" =>
          nodes[i].alias \in DOMAIN nodes /\ nodes[nodes[i].alias].kind # "alias"
    /\ nodes[i].kind \in {"mapping", "sequence"} =>
          nodes[i].text = "" /\ nodes[i].tag \in {"!!map", "!!seq"}

WellFormed ==
    /\ nodes \in Seq(NodeSet)
    /\ \A i \in DOMAIN nodes : WellFormedNode(i)
    /\ open \in Seq(DOMAIN nodes)
    /\ anchors \in [Anchors -> Nat]
    /\ \A a \in Anchors : anchors[a] # 0 =>
          anchors[a] \in DOMAIN nodes /\ nodes[anchors[a]].kind # "alias"

LEMMA NodeFields ==
    ASSUME WellFormed, NEW i \in DOMAIN nodes
    PROVE  nodes[i] \in NodeSet /\ nodes[i].content \in Seq(Nat)
<1>1. nodes[i] \in NodeSet
    BY DEF WellFormed
<1> QED BY <1>1 DEF NodeSet

\* An alias is followed in one step.
LEMMA DerefSpec ==
    ASSUME WellFormed, NEW i \in DOMAIN nodes
    PROVE  Deref(i) \in DOMAIN nodes /\ nodes[Deref(i)].kind # "alias"
BY Zenon DEF WellFormed, WellFormedNode, Deref

-----------------------------------------------------------------------------
(* The decode of the pairs, by induction over them.                          *)

PairCount == Len(Pairs(1))

Name(p) == DecodeString(Pairs(1)[p].key)

Field(p) == CHOOSE k \in Name(p).value : TRUE

Decoded(p) == DecodeField(Field(p), Pairs(1)[p].value)

\* The pairs up to the n-th whose key sets a field.
Named(n) == {q \in 1 .. n : Name(q).value # {}}

Blank == [bad |-> DuplicateKeys, seen |-> {}, file |-> NoFile]

DecodesTo(f, m) ==
    \A i \in 0 .. m : f[i] = IF i = 0 THEN Blank ELSE DecodePair(f[i - 1], Pairs(1)[i])

LEMMA DecodeExists ==
    ASSUME PairCount \in Nat, NEW n \in 0 .. PairCount
    PROVE  \E f : f = [i \in 0 .. n |-> f[i]] /\ DecodesTo(f, n)
<1> DEFINE T == {m \in 0 .. PairCount :
                    ~ \E f : f = [i \in 0 .. m |-> f[i]] /\ DecodesTo(f, m)}
<1>1. SUFFICES ASSUME T # {} PROVE FALSE
    OBVIOUS
<1>2. PICK m \in T : \A x \in T : m <= x
  <2>1. T \subseteq Nat
    OBVIOUS
  <2> QED BY <1>1, <2>1, Minimum, Zenon
<1>3. m \in 0 .. PairCount
    OBVIOUS
<1>4. CASE m = 0
  <2> DEFINE f == [i \in 0 .. m |-> Blank]
  <2>1. f = [i \in 0 .. m |-> f[i]]
    BY Zenon
  <2>2. \A i \in 0 .. m : i = 0
    BY <1>4
  <2>3. DecodesTo(f, m)
    BY <2>2, Zenon DEF DecodesTo
  <2> HIDE DEF f
  <2> QED BY <2>1, <2>3, Zenon
<1>5. CASE m # 0
  <2>1. m - 1 \in 0 .. PairCount /\ ~(m <= m - 1)
    BY <1>3, <1>5
  <2>2. m - 1 \notin T
    BY <1>2, <2>1, Zenon
  <2>3. PICK f : f = [i \in 0 .. m - 1 |-> f[i]] /\ DecodesTo(f, m - 1)
    BY <2>1, <2>2, Zenon
  <2> DEFINE g == [i \in 0 .. m |->
                      IF i = m THEN DecodePair(f[m - 1], Pairs(1)[m]) ELSE f[i]]
  <2>4. g = [i \in 0 .. m |-> g[i]]
    BY Zenon
  <2>5. ASSUME NEW i \in 0 .. m
        PROVE  g[i] = IF i = 0 THEN Blank ELSE DecodePair(g[i - 1], Pairs(1)[i])
    <3>1. CASE i = m
      <4>1. i # 0 /\ i - 1 \in 0 .. m /\ i - 1 # m
        BY <1>3, <1>5, <3>1
      <4>2. g[i] = DecodePair(f[m - 1], Pairs(1)[m]) /\ g[i - 1] = f[i - 1]
        BY <3>1, <4>1, Zenon
      <4> QED BY <3>1, <4>1, <4>2, Zenon
    <3>2. CASE i # m
      <4>1. i \in 0 .. m - 1 /\ (i # 0 => i - 1 \in 0 .. m /\ i - 1 # m)
        BY <1>3, <3>2
      <4>2. f[i] = IF i = 0 THEN Blank ELSE DecodePair(f[i - 1], Pairs(1)[i])
        BY <2>3, <4>1, Zenon DEF DecodesTo
      <4>3. g[i] = f[i] /\ (i # 0 => g[i - 1] = f[i - 1])
        BY <3>2, <4>1, Zenon
      <4> QED BY <4>2, <4>3, Zenon
    <3> QED BY <3>1, <3>2, Zenon
  <2>6. DecodesTo(g, m)
    BY <2>5, Zenon DEF DecodesTo
  <2> HIDE DEF g
  <2> QED BY <2>4, <2>6, Zenon
<1> QED BY <1>4, <1>5, Zenon

LEMMA DecodeDefined ==
    ASSUME PairCount \in Nat
    PROVE  \E f : /\ DecodesTo(f, PairCount)
                  /\ Decode = IF f[PairCount].bad THEN {} ELSE {f[PairCount].file}
<1> DEFINE n == PairCount
           Def(f) == f = [i \in 0 .. n |->
                             IF i = 0 THEN Blank ELSE DecodePair(f[i - 1], Pairs(1)[i])]
           g[i \in 0 .. n] == IF i = 0 THEN Blank ELSE DecodePair(g[i - 1], Pairs(1)[i])
<1>1. n \in 0 .. PairCount
    OBVIOUS
<1>2. PICK f : f = [i \in 0 .. n |-> f[i]] /\ DecodesTo(f, n)
    BY <1>1, DecodeExists, Zenon
<1>3. Def(f)
    BY <1>2, Zenon DEF DecodesTo
<1>4. Def(g)
    BY <1>3, Zenon
<1> HIDE DEF g
<1>5. Decode = IF g[n].bad THEN {} ELSE {g[n].file}
    BY Zenon DEF Decode, g, PairCount, Blank
<1>6. DecodesTo(g, n)
    BY <1>4, Zenon DEF DecodesTo
<1> QED BY <1>5, <1>6, Zenon

\* What is decoded from the first n pairs, unless an error is reported: every key that
\* sets a field sets another one, to what its value decodes to.
DecodedUpTo(done, n) ==
    /\ done.seen = {Field(q) : q \in Named(n)}
    /\ \A q \in 1 .. n : ~Name(q).bad
    /\ \A q \in Named(n) :
          Field(q) \in Keys /\ ~Decoded(q).bad /\ done.file[Field(q)] = Decoded(q).value
    /\ \A q, r \in Named(n) : Field(q) = Field(r) => q = r
    /\ \A k \in Keys : k \notin done.seen => done.file[k] = {}

IsDone(done) ==
    /\ done = [bad |-> done.bad, seen |-> done.seen, file |-> done.file]
    /\ done.file = [k \in Keys |-> done.file[k]]

\* The three ways a pair goes: an error, nothing, a field set.
LEMMA PairSpec ==
    ASSUME NEW done, IsDone(done), NEW p
    PROVE  LET after == DecodePair(done, Pairs(1)[p]) IN
           /\ IsDone(after)
           /\ ~after.bad =>
                 /\ ~done.bad /\ ~Name(p).bad
                 /\ Name(p).value = {} => after = done
                 /\ Name(p).value # {} =>
                       /\ Field(p) \in Keys /\ Field(p) \notin done.seen /\ ~Decoded(p).bad
                       /\ after.seen = done.seen \cup {Field(p)}
                       /\ after.file = [done.file EXCEPT ![Field(p)] = Decoded(p).value]
<1> DEFINE after == DecodePair(done, Pairs(1)[p])
           name == Name(p)
           field == Field(p)
           decoded == Decoded(p)
<1>1. after = IF name.bad THEN Refused(done)
              ELSE IF name.value = {} THEN done
              ELSE IF field \notin Keys \/ field \in done.seen \/ decoded.bad
              THEN Refused(done)
              ELSE [bad |-> done.bad, seen |-> done.seen \cup {field},
                    file |-> [done.file EXCEPT ![field] = decoded.value]]
    BY Zenon DEF DecodePair, Name, Field, Decoded
<1> HIDE DEF name, field, decoded
<1>2. PICK b, s, f : done = [bad |-> b, seen |-> s, file |-> f] /\ f = [k \in Keys |-> f[k]]
    BY Zenon DEF IsDone
<1>3. Refused(done) = [bad |-> TRUE, seen |-> s, file |-> f]
    BY <1>2, Zenon DEF Refused
<1>5. CASE name.bad \/ (name.value # {} /\ (field \notin Keys \/ field \in done.seen \/ decoded.bad))
  <2>1. after = [bad |-> TRUE, seen |-> s, file |-> f]
    BY <1>1, <1>3, <1>5, Zenon
  <2> HIDE DEF after
  <2>2. after.bad /\ after.seen = s /\ after.file = f
    BY <2>1
  <2>3. IsDone(after)
    BY <1>2, <2>1, <2>2, Zenon DEF IsDone
  <2> QED BY <2>2, <2>3, Zenon DEF after
<1>6. CASE ~name.bad /\ name.value = {}
  <2>1. after = done
    BY <1>1, <1>6, Zenon
  <2> HIDE DEF after
  <2> QED BY <1>6, <2>1, Zenon DEF after, name
<1>7. CASE ~name.bad /\ name.value # {} /\ field \in Keys /\ field \notin done.seen /\ ~decoded.bad
  <2>1. after = [bad |-> b, seen |-> s \cup {field},
                 file |-> [f EXCEPT ![field] = decoded.value]]
    BY <1>1, <1>2, <1>7, Zenon
  <2> HIDE DEF after
  <2>2. /\ after.bad = b /\ after.seen = s \cup {field}
        /\ after.file = [f EXCEPT ![field] = decoded.value]
    BY <2>1
  <2>3. done.bad = b /\ done.seen = s /\ done.file = f
    BY <1>2
  <2>4. after.file = [k \in Keys |-> after.file[k]]
    BY <1>2, <2>2
  <2>5. IsDone(after)
    BY <2>1, <2>2, <2>4, Zenon DEF IsDone
  <2> QED BY <1>7, <2>2, <2>3, <2>5, Zenon DEF after, name, field, decoded
<1> QED BY <1>5, <1>6, <1>7, Zenon

LEMMA DecodedSpec ==
    ASSUME PairCount \in Nat, NEW f, DecodesTo(f, PairCount), NEW n \in 0 .. PairCount
    PROVE  IsDone(f[n]) /\ (~f[n].bad => DecodedUpTo(f[n], n))
<1> DEFINE T == {m \in 0 .. PairCount : ~(IsDone(f[m]) /\ (~f[m].bad => DecodedUpTo(f[m], m)))}
<1>1. SUFFICES ASSUME T # {} PROVE FALSE
    OBVIOUS
<1>2. PICK m \in T : \A x \in T : m <= x
  <2>1. T \subseteq Nat
    OBVIOUS
  <2> QED BY <1>1, <2>1, Minimum, Zenon
<1>3. m \in 0 .. PairCount
    OBVIOUS
<1>4. CASE m = 0
  <2>1. f[m] = Blank
    BY <1>3, <1>4, Zenon DEF DecodesTo
  <2>2. f[m].seen = {} /\ f[m].file = NoFile /\ IsDone(f[m])
    BY <2>1 DEF Blank, IsDone, NoFile
  <2>3. 1 .. m = {}
    BY <1>4
  <2>4. Named(m) = {}
    BY <2>3, Zenon DEF Named
  <2>5. \A k \in Keys : f[m].file[k] = {}
    BY <2>2, Zenon DEF NoFile
  <2>6. DecodedUpTo(f[m], m)
    BY <2>2, <2>3, <2>4, <2>5, Zenon DEF DecodedUpTo
  <2> QED BY <2>2, <2>6, Zenon
<1>5. CASE m # 0
  <2> DEFINE done == f[m - 1]
             after == f[m]
  <2>1. m - 1 \in 0 .. PairCount /\ ~(m <= m - 1) /\ m \in 1 .. m
    BY <1>3, <1>5
  <2>2. IsDone(done) /\ (~done.bad => DecodedUpTo(done, m - 1))
    BY <1>2, <2>1, Zenon
  <2>3. after = DecodePair(done, Pairs(1)[m])
    BY <1>3, <1>5, Zenon DEF DecodesTo
  <2> HIDE DEF done, after
  <2>4. /\ IsDone(after)
        /\ ~after.bad =>
              /\ ~done.bad /\ ~Name(m).bad
              /\ Name(m).value = {} => after = done
              /\ Name(m).value # {} =>
                    /\ Field(m) \in Keys /\ Field(m) \notin done.seen /\ ~Decoded(m).bad
                    /\ after.seen = done.seen \cup {Field(m)}
                    /\ after.file = [done.file EXCEPT ![Field(m)] = Decoded(m).value]
    BY <2>2, <2>3, PairSpec, Zenon
  <2>5. SUFFICES ASSUME ~after.bad PROVE DecodedUpTo(after, m)
    BY <2>4, Zenon DEF after
  <2>6. DecodedUpTo(done, m - 1)
    BY <2>2, <2>4, <2>5, Zenon
  <2>7. \A q \in 1 .. m : q \in 1 .. m - 1 \/ q = m
    BY <1>3, <1>5
  <2>8. \A q \in 1 .. m - 1 : q \in 1 .. m /\ q # m
    BY <1>3, <1>5
  <2>9. \A q \in 1 .. m : ~Name(q).bad
    BY <2>4, <2>5, <2>6, <2>7, Zenon DEF DecodedUpTo
  <2>10. CASE Name(m).value = {}
    <3>1. Named(m) = Named(m - 1)
      BY <2>7, <2>8, <2>10, Zenon DEF Named
    <3> QED BY <2>4, <2>5, <2>6, <2>9, <2>10, <3>1, Zenon DEF DecodedUpTo
  <2>11. CASE Name(m).value # {}
    <3> DEFINE k == Field(m)
    <3>1. Named(m) = Named(m - 1) \cup {m}
      BY <2>1, <2>7, <2>8, <2>11, Zenon DEF Named
    <3>2. /\ k \in Keys /\ k \notin done.seen /\ ~Decoded(m).bad
          /\ after.seen = done.seen \cup {k}
          /\ after.file = [done.file EXCEPT ![k] = Decoded(m).value]
      BY <2>4, <2>5, <2>11, Zenon
    <3>3. done.seen = {Field(q) : q \in Named(m - 1)}
      BY <2>6, Zenon DEF DecodedUpTo
    <3>4. after.seen = {Field(q) : q \in Named(m)}
      BY <3>1, <3>2, <3>3, Zenon
    <3>5. \A q \in Named(m - 1) : Field(q) # k
      BY <3>2, <3>3, Zenon
    <3>6. done.file = [j \in Keys |-> done.file[j]]
      BY <2>2, Zenon DEF IsDone
    <3>7. \A j \in Keys : after.file[j] = IF j = k THEN Decoded(m).value ELSE done.file[j]
      BY <3>2, <3>6
    <3>8. \A q \in Named(m) :
             Field(q) \in Keys /\ ~Decoded(q).bad /\ after.file[Field(q)] = Decoded(q).value
      BY <2>6, <3>1, <3>2, <3>5, <3>7, Zenon DEF DecodedUpTo
    <3>9. \A q, r \in Named(m) : Field(q) = Field(r) => q = r
      BY <2>6, <3>1, <3>5, Zenon DEF DecodedUpTo
    <3>10. \A j \in Keys : j \notin after.seen => after.file[j] = {}
      BY <2>6, <3>2, <3>7, Zenon DEF DecodedUpTo
    <3> QED BY <2>9, <3>4, <3>8, <3>9, <3>10, Zenon DEF DecodedUpTo
  <2> QED BY <2>10, <2>11, Zenon
<1> QED BY <1>4, <1>5, Zenon

\* What an accepted decode says of the pairs of the document.
LEMMA DecodeSpec ==
    ASSUME PairCount \in Nat, NEW file \in Decode
    PROVE  /\ \A q \in 1 .. PairCount : ~Name(q).bad
           /\ \A q \in Named(PairCount) :
                 Field(q) \in Keys /\ ~Decoded(q).bad /\ file[Field(q)] = Decoded(q).value
           /\ \A q, r \in Named(PairCount) : Field(q) = Field(r) => q = r
           /\ \A k \in Keys : (\A q \in Named(PairCount) : Field(q) # k) => file[k] = {}
<1>1. PICK f : /\ DecodesTo(f, PairCount)
               /\ Decode = IF f[PairCount].bad THEN {} ELSE {f[PairCount].file}
    BY DecodeDefined, Zenon
<1>2. ~f[PairCount].bad /\ file = f[PairCount].file
    BY <1>1, Zenon
<1>3. PairCount \in 0 .. PairCount
    OBVIOUS
<1>4. DecodedUpTo(f[PairCount], PairCount)
    BY <1>1, <1>2, <1>3, DecodedSpec, Zenon
<1> QED BY <1>2, <1>4, Zenon DEF DecodedUpTo

-----------------------------------------------------------------------------
(* The pairs, their keys and their values.                                   *)

LEMMA KeySet == Keys = {"log-level", "dry-run", "device-deny", "metrics-addr"} /\ "" \notin Keys
<1>1. Keys = {"log-level", "dry-run", "device-deny", "metrics-addr"}
    BY Zenon DEF Keys, Shape
<1> QED BY <1>1

LEMMA PairsSpec ==
    ASSUME WellFormed, 1 \in DOMAIN nodes
    PROVE  /\ PairCount \in Nat /\ DOMAIN Pairs(1) = 1 .. PairCount
           /\ \A p \in 1 .. PairCount :
                 Pairs(1)[p].key \in DOMAIN nodes /\ Pairs(1)[p].value \in DOMAIN nodes
<1> DEFINE content == nodes[1].content
           half == Len(content) \div 2
<1>1. content \in Seq(Nat) /\ Len(content) \in Nat /\ DOMAIN content = 1 .. Len(content)
  <2>1. content \in Seq(Nat)
    BY NodeFields, Zenon
  <2> QED BY <2>1
<1>2. \A j \in DOMAIN content : content[j] \in DOMAIN nodes
    BY Zenon DEF WellFormed, WellFormedNode
<1>3. Pairs(1) = [p \in 1 .. half |-> [key |-> content[2 * p - 1], value |-> content[2 * p]]]
    BY Zenon DEF Pairs
<1> HIDE DEF content
<1>4. half \in Nat /\ 2 * half <= Len(content)
    BY <1>1
<1>5. \A p \in 1 .. half : 2 * p - 1 \in DOMAIN content /\ 2 * p \in DOMAIN content
    BY <1>1, <1>4
<1> HIDE DEF half
<1>6. Len(Pairs(1)) = half /\ DOMAIN Pairs(1) = 1 .. half
    BY <1>3, <1>4
<1>7. \A p \in 1 .. half : /\ Pairs(1)[p].key = content[2 * p - 1]
                           /\ Pairs(1)[p].value = content[2 * p]
  <2> TAKE p \in 1 .. half
  <2>1. Pairs(1)[p] = [key |-> content[2 * p - 1], value |-> content[2 * p]]
    BY <1>3, Zenon
  <2> QED BY <2>1
<1> QED BY <1>2, <1>4, <1>5, <1>6, <1>7, Zenon DEF PairCount

\* A scalar resolves to null exactly when it is tagged so, to an error when the tag of a
\* bool or of a null does not fit, and the text of a null or of a bool is no key.
LEMMA ResolveSpec ==
    ASSUME NEW node, Resolve(node) # "error"
    PROVE  /\ Resolve(node) = "null" <=> node.tag = "!!null"
           /\ node.tag = "!!null" => node.text = ""
           /\ Resolve(node) = "bool" <=> node.tag = "!!bool"
           /\ node.tag = "!!bool" => node.text \in {"true", "false"}
<1>1. CASE node.tag \notin {"!!bool", "!!null"}
    BY <1>1 DEF Resolve
<1>2. CASE node.tag = "!!bool"
    BY <1>2 DEF Resolve, PlainTag
<1>3. CASE node.tag = "!!null"
    BY <1>3 DEF Resolve, PlainTag
<1> QED BY <1>1, <1>2, <1>3, Zenon

\* What is decoded into a string.
LEMMA StringSpec ==
    ASSUME NEW i, ~DecodeString(i).bad
    PROVE  /\ nodes[Deref(i)].kind = "scalar"
           /\ Resolve(nodes[Deref(i)]) # "error"
           /\ DecodeString(i).value =
                 IF nodes[Deref(i)].tag = "!!null" THEN {} ELSE {nodes[Deref(i)].text}
<1> DEFINE node == nodes[Deref(i)]
<1>1. DecodeString(i) = IF node.kind # "scalar" \/ Resolve(node) = "error" THEN Bad
                        ELSE IF Resolve(node) = "null" THEN Unset ELSE Set(node.text)
    BY Zenon DEF DecodeString
<1> HIDE DEF node
<1>2. Bad.bad
    BY DEF Bad
<1>3. node.kind = "scalar" /\ Resolve(node) # "error"
    BY <1>1, <1>2, Zenon
<1>4. DecodeString(i) = IF node.tag = "!!null" THEN Unset ELSE Set(node.text)
    BY <1>1, <1>3, ResolveSpec, Zenon
<1>5. Unset.value = {} /\ Set(node.text).value = {node.text}
    BY DEF Unset, Set
<1> QED BY <1>3, <1>4, <1>5, Zenon DEF node

\* A pair sets field k exactly when the text of its key, an alias followed, is k.
LEMMA NameSpec ==
    ASSUME NEW p \in 1 .. PairCount, ~Name(p).bad, NEW k \in Keys
    PROVE  (p \in Named(PairCount) /\ Field(p) = k) <=> nodes[Deref(Pairs(1)[p].key)].text = k
<1> DEFINE node == nodes[Deref(Pairs(1)[p].key)]
<1>1. Name(p).value = IF node.tag = "!!null" THEN {} ELSE {node.text}
    BY StringSpec, Zenon DEF Name
<1>2. node.tag = "!!null" => node.text = ""
    BY StringSpec, ResolveSpec, Zenon DEF Name
<1> HIDE DEF node
<1>3. CASE node.tag = "!!null"
    BY <1>1, <1>2, <1>3, KeySet, Zenon DEF Named, node
<1>4. CASE node.tag # "!!null"
  <2>1. Name(p).value = {node.text} /\ p \in Named(PairCount)
    BY <1>1, <1>4, Zenon DEF Named
  <2>2. Field(p) = node.text
    BY <2>1, Zenon DEF Field
  <2> QED BY <2>1, <2>2, Zenon DEF node
<1> QED BY <1>3, <1>4, Zenon

LEMMA Values == \A v : Set(v).value = {v} /\ [bad |-> FALSE, value |-> v].value = v
BY DEF Set

LEMMA BoolSpec ==
    ASSUME NEW i, ~DecodeBool(i).bad
    PROVE  /\ nodes[Deref(i)].kind = "scalar"
           /\ Resolve(nodes[Deref(i)]) # "error"
           /\ DecodeBool(i).value =
                 IF nodes[Deref(i)].tag = "!!null" THEN {}
                 ELSE {nodes[Deref(i)].text \in {"true", "yes"}}
<1> DEFINE node == nodes[Deref(i)]
<1>1. DecodeBool(i) = IF node.kind # "scalar" \/ Resolve(node) = "error" THEN Bad
                      ELSE IF Resolve(node) = "null" THEN Unset
                      ELSE IF Resolve(node) = "bool" THEN Set(node.text = "true")
                      ELSE IF Yaml11Bool(node.text) = {} THEN Bad
                      ELSE [bad |-> FALSE, value |-> Yaml11Bool(node.text)]
    BY Zenon DEF DecodeBool
<1> HIDE DEF node
<1>2. Bad.bad /\ Unset.value = {}
    BY DEF Bad, Unset
<1>3. node.kind = "scalar" /\ Resolve(node) # "error"
    BY <1>1, <1>2, Zenon
<1>4. CASE node.tag = "!!null"
  <2>1. DecodeBool(i) = Unset
    BY <1>1, <1>3, <1>4, ResolveSpec, Zenon
  <2> QED BY <1>2, <1>3, <1>4, <2>1, Zenon DEF node
<1>5. CASE node.tag = "!!bool"
  <2>1. Resolve(node) = "bool" /\ node.text \in {"true", "false"}
    BY <1>3, <1>5, ResolveSpec, Zenon
  <2>2. DecodeBool(i) = Set(node.text = "true")
    BY <1>1, <1>3, <2>1
  <2>3. (node.text = "true") = (node.text \in {"true", "yes"})
    BY <2>1
  <2>4. DecodeBool(i).value = {node.text = "true"}
    BY <2>2, Values, Zenon
  <2> QED BY <1>3, <1>5, <2>3, <2>4 DEF node
<1>6. CASE node.tag \notin {"!!null", "!!bool"}
  <2>1. Resolve(node) = "text"
    BY <1>6, Zenon DEF Resolve
  <2>2. DecodeBool(i) = [bad |-> FALSE, value |-> Yaml11Bool(node.text)]
        /\ Yaml11Bool(node.text) # {}
    BY <1>1, <1>2, <1>3, <2>1
  <2>3. Yaml11Bool(node.text) = {node.text \in {"true", "yes"}}
    <3>1. CASE node.text = "yes"
      <4>1. (node.text \in {"true", "yes"}) = TRUE
        BY <3>1, Zenon
      <4>2. Yaml11Bool(node.text) = {TRUE}
        BY <3>1, Zenon DEF Yaml11Bool
      <4> QED BY <4>1, <4>2, Zenon
    <3>2. CASE node.text = "no"
      <4>1. (node.text \in {"true", "yes"}) = FALSE
        BY <3>2
      <4>2. Yaml11Bool(node.text) = {FALSE}
        BY <3>2 DEF Yaml11Bool
      <4> QED BY <4>1, <4>2, Zenon
    <3>3. node.text = "yes" \/ node.text = "no"
      BY <2>2 DEF Yaml11Bool
    <3> QED BY <3>1, <3>2, <3>3, Zenon
  <2>4. DecodeBool(i).value = Yaml11Bool(node.text)
    BY <2>2, Values, Zenon
  <2> QED BY <1>3, <1>6, <2>3, <2>4, Zenon DEF node
<1> QED BY <1>4, <1>5, <1>6, Zenon

\* The list of a sequence node: the texts of its items, the nulls left out.
Item(node, j) == nodes[Deref(node.content[j])]

SaidItems(node) == {j \in DOMAIN node.content : Item(node, j).tag # "!!null"}

ListOf(node) == [k \in 1 .. Cardinality(SaidItems(node)) |-> Item(node, Nth(SaidItems(node), k)).text]

LEMMA SaidItemsSpec ==
    ASSUME WellFormed, NEW i \in DOMAIN nodes
    PROVE  /\ Cardinality(SaidItems(nodes[i])) \in Nat
           /\ \A k \in 1 .. Cardinality(SaidItems(nodes[i])) :
                 Nth(SaidItems(nodes[i]), k) \in SaidItems(nodes[i])
           /\ \A j \in SaidItems(nodes[i]) :
                 \E k \in 1 .. Cardinality(SaidItems(nodes[i])) : Nth(SaidItems(nodes[i]), k) = j
<1> DEFINE P == SaidItems(nodes[i])
           n == Len(nodes[i].content)
<1>1. nodes[i].content \in Seq(Nat)
    BY NodeFields, Zenon
<1>2. n \in Nat /\ DOMAIN nodes[i].content = 1 .. n
    BY <1>1
<1>3. P \subseteq 1 .. n
    BY <1>2, Zenon DEF SaidItems
<1> HIDE DEF P, n
<1>4. Cardinality(P) \in Nat
    BY <1>2, <1>3, FinitePositions, Zenon
<1>5. \A k \in 1 .. Cardinality(P) : Nth(P, k) \in P
    BY <1>2, <1>3, NthSpec, Zenon
<1>6. \A j \in P : \E k \in 1 .. Cardinality(P) : Nth(P, k) = j
    BY <1>2, <1>3, NthOnto, Zenon
<1> QED BY <1>4, <1>5, <1>6, Zenon DEF P

LEMMA ValueOfList ==
    ASSUME WellFormed, NEW i \in DOMAIN nodes
    PROVE  Value("device-deny", nodes[i]) = {ListOf(nodes[i])}
<1> DEFINE node == nodes[i]
           items == [j \in DOMAIN node.content |-> nodes[Deref(node.content[j])]]
           said == Select(items, LAMBDA item : item.tag # "!!null")
           P == SaidItems(node)
<1>1. Value("device-deny", node) = {[j \in DOMAIN said |-> said[j].text]}
    BY DEF Value
<1>2. \A j \in DOMAIN node.content : items[j] = Item(node, j)
    BY Zenon DEF Item
<1>3. {j \in DOMAIN items : items[j].tag # "!!null"} = P
    BY <1>2, Zenon DEF SaidItems
<1>8. said = Pick(items, {j \in DOMAIN items : items[j].tag # "!!null"})
    BY Zenon DEF Select, Positions
<1>4. said = [k \in 1 .. Cardinality(P) |-> items[Nth(P, k)]]
    BY <1>3, <1>8, Zenon DEF Pick
<1>5. \A k \in 1 .. Cardinality(P) : Nth(P, k) \in DOMAIN node.content
    BY SaidItemsSpec, Zenon DEF SaidItems
<1>6. [j \in DOMAIN said |-> said[j].text]
          = [k \in 1 .. Cardinality(P) |-> Item(node, Nth(P, k)).text]
  <2> HIDE DEF said, items, P
  <2>1. DOMAIN said = 1 .. Cardinality(P)
    BY <1>4, Zenon
  <2>2. \A k \in 1 .. Cardinality(P) : said[k].text = Item(node, Nth(P, k)).text
    BY <1>2, <1>4, <1>5, Zenon
  <2> QED BY <2>1, <2>2, Zenon
<1> QED BY <1>1, <1>6, Zenon DEF ListOf

\* What is decoded into a list.
LEMMA ListSpec ==
    ASSUME WellFormed, NEW i \in DOMAIN nodes, ~DecodeList(i).bad
    PROVE  DecodeList(i).value =
              IF nodes[Deref(i)].tag = "!!null" THEN {} ELSE {ListOf(nodes[Deref(i)])}
<1> DEFINE node == nodes[Deref(i)]
           items == [j \in DOMAIN node.content |-> DecodeString(node.content[j])]
           kept == Select(items, LAMBDA item : item.value # {})
           list == [j \in DOMAIN kept |-> CHOOSE text \in kept[j].value : TRUE]
           P == SaidItems(node)
<1>0. Deref(i) \in DOMAIN nodes /\ node.kind # "alias"
    BY DerefSpec, Zenon
<1>1. DecodeList(i) = IF node.kind = "scalar" /\ Resolve(node) = "null" THEN Unset
                      ELSE IF node.kind # "sequence" \/ \E j \in DOMAIN items : items[j].bad THEN Bad
                      ELSE Set(list)
    BY Zenon DEF DecodeList
<1>2. Bad.bad /\ Unset.value = {}
    BY DEF Bad, Unset
<1>3. CASE node.kind = "scalar" /\ Resolve(node) = "null"
  <2>1. node.tag = "!!null"
    BY <1>3, ResolveSpec
  <2>2. DecodeList(i) = Unset
    BY <1>1, <1>3, Zenon
  <2> QED BY <1>2, <2>1, <2>2, Zenon
<1>4. CASE ~(node.kind = "scalar" /\ Resolve(node) = "null")
  <2>1. node.kind = "sequence" /\ \A j \in DOMAIN items : ~items[j].bad
    BY <1>1, <1>2, <1>4, Zenon
  <2>2. DecodeList(i) = Set(list)
    BY <1>1, <1>4, <2>1, Zenon
  <2>3. node.tag # "!!null"
    <3>1. node.tag \in {"!!map", "!!seq"}
      BY <1>0, <2>1, Zenon DEF WellFormed, WellFormedNode
    <3> QED BY <3>1
  <2>4. \A j \in DOMAIN node.content :
           items[j].value = IF Item(node, j).tag = "!!null" THEN {} ELSE {Item(node, j).text}
    <3> TAKE j \in DOMAIN node.content
    <3>1. items[j] = DecodeString(node.content[j])
      BY Zenon
    <3>2. ~DecodeString(node.content[j]).bad
      BY <2>1, <3>1, Zenon
    <3> HIDE DEF items
    <3> QED BY <3>1, <3>2, StringSpec, Zenon DEF Item
  <2>5. {j \in DOMAIN items : items[j].value # {}} = P
    BY <2>4, Zenon DEF SaidItems
  <2>6. kept = Pick(items, {j \in DOMAIN items : items[j].value # {}})
    BY Zenon DEF Select, Positions
  <2>7. kept = [k \in 1 .. Cardinality(P) |-> items[Nth(P, k)]]
    BY <2>5, <2>6, Zenon DEF Pick
  <2>8. \A k \in 1 .. Cardinality(P) : Nth(P, k) \in P
    BY <1>0, SaidItemsSpec, Zenon
  <2>9. ASSUME NEW k \in 1 .. Cardinality(P)
        PROVE  (CHOOSE text \in kept[k].value : TRUE) = Item(node, Nth(P, k)).text
    <3> DEFINE j == Nth(P, k)
    <3>1. j \in DOMAIN node.content /\ Item(node, j).tag # "!!null"
      BY <2>8, Zenon DEF SaidItems
    <3>2. kept[k] = items[j]
      BY <2>7, Zenon
    <3> HIDE DEF kept, items, j
    <3>3. kept[k].value = {Item(node, j).text}
      BY <2>4, <3>1, <3>2, Zenon
    <3> QED BY <3>3, Zenon DEF j
  <2>10. DOMAIN kept = 1 .. Cardinality(P)
    BY <2>7, Zenon
  <2>11. list = ListOf(node)
    <3> HIDE DEF kept, P
    <3> QED BY <2>9, <2>10, Zenon DEF ListOf, P
  <2> HIDE DEF list
  <2> QED BY <2>2, <2>3, <2>11, Values, Zenon
<1> QED BY <1>3, <1>4, Zenon

\* A field is set to what the document says of it.
LEMMA FieldSpec ==
    ASSUME WellFormed, NEW i \in DOMAIN nodes, NEW k \in Keys, ~DecodeField(k, i).bad
    PROVE  DecodeField(k, i).value =
              IF nodes[Deref(i)].tag = "!!null" THEN {} ELSE Value(k, nodes[Deref(i)])
<1> DEFINE node == nodes[Deref(i)]
<1>0. Deref(i) \in DOMAIN nodes
    BY DerefSpec, Zenon
<1>1. CASE k = "dry-run"
  <2>1. DecodeField(k, i) = DecodeBool(i)
    BY <1>1 DEF DecodeField
  <2>2. Value(k, node) = {node.text \in {"true", "yes"}}
    BY <1>1 DEF Value
  <2> QED BY <2>1, <2>2, BoolSpec, Zenon
<1>2. CASE k = "device-deny"
  <2>1. DecodeField(k, i) = DecodeList(i)
    BY <1>2 DEF DecodeField
  <2>2. Value(k, node) = {ListOf(node)}
    BY <1>0, <1>2, ValueOfList, Zenon
  <2> QED BY <2>1, <2>2, ListSpec, Zenon
<1>3. CASE k \notin {"dry-run", "device-deny"}
  <2>1. DecodeField(k, i) = [DecodeString(i) EXCEPT !.value = @ \ {""}]
    BY <1>3 DEF DecodeField
  <2>2. Value(k, node) = {node.text} \ {""}
    BY <1>3 DEF Value
  <2>3. DecodeField(k, i).bad = DecodeString(i).bad
        /\ DecodeField(k, i).value = DecodeString(i).value \ {""}
    BY <2>1 DEF DecodeString, Bad, Unset, Set
  <2> QED BY <2>2, <2>3, StringSpec, Zenon
<1> QED BY <1>1, <1>2, <1>3, Zenon

-----------------------------------------------------------------------------
(* A document that is accepted.                                              *)

\* The key of a pair, an alias followed.
KeyText(p) == nodes[Deref(Pairs(1)[p].key)].text

Says(k, p) ==
    LET node == nodes[Deref(Pairs(1)[p].value)] IN
    IF node.tag = "!!null" THEN {} ELSE Value(k, node)

LEMMA SaidBy ==
    ASSUME ~IsEmptyDocument, DOMAIN Pairs(1) = 1 .. PairCount, NEW k
    PROVE  Said(k) = UNION {Says(k, p) : p \in {q \in 1 .. PairCount : KeyText(q) = k}}
<1> DEFINE says(pair) == LET node == nodes[Deref(pair.value)] IN
                         IF node.tag = "!!null" THEN {} ELSE Value(k, node)
           read == {pair \in Range(Pairs(1)) : nodes[Deref(pair.key)].text = k}
           given == {q \in 1 .. PairCount : KeyText(q) = k}
<1>1. Said(k) = UNION {says(pair) : pair \in read}
    BY Zenon DEF Said
<1>2. \A p \in 1 .. PairCount : says(Pairs(1)[p]) = Says(k, p)
    BY Zenon DEF Says
<1> HIDE DEF says
<1>3. \A pair \in read : \E p \in given : pair = Pairs(1)[p]
    BY Zenon DEF Range, KeyText
<1>4. \A p \in given : Pairs(1)[p] \in read
    BY Zenon DEF Range, KeyText
<1>5. \A p \in given : p \in 1 .. PairCount
    BY Zenon
<1> HIDE DEF read, given
<1>6. {says(pair) : pair \in read} = {Says(k, p) : p \in given}
  <2>1. \A pair \in read : \E p \in given : says(pair) = Says(k, p)
    <3> TAKE pair \in read
    <3>1. PICK p \in given : pair = Pairs(1)[p]
      BY <1>3, Zenon
    <3>2. says(pair) = Says(k, p)
      BY <1>2, <1>5, <3>1, Zenon
    <3> QED BY <3>2, Zenon
  <2>2. \A p \in given : \E pair \in read : says(pair) = Says(k, p)
    BY <1>2, <1>4, <1>5, Zenon
  <2> QED BY <2>1, <2>2, Zenon
<1> QED BY <1>1, <1>6, Zenon DEF given

LEMMA Root ==
    ASSUME WellFormed, ~IsEmptyDocument
    PROVE  1 \in DOMAIN nodes
<1>1. nodes # <<>> /\ nodes \in Seq(NodeSet)
    BY Zenon DEF IsEmptyDocument, WellFormed
<1> QED BY <1>1

\* What is decoded is what the document says.
LEMMA SaidSpec ==
    ASSUME WellFormed, ~IsEmptyDocument, NEW file \in Decode, NEW k \in Keys
    PROVE  file[k] = Said(k)
<1> DEFINE N == PairCount
           given == {q \in 1 .. N : KeyText(q) = k}
<1>1. /\ N \in Nat /\ DOMAIN Pairs(1) = 1 .. N
      /\ \A p \in 1 .. N : Pairs(1)[p].key \in DOMAIN nodes /\ Pairs(1)[p].value \in DOMAIN nodes
    BY Root, PairsSpec, Zenon
<1>2. /\ \A q \in 1 .. N : ~Name(q).bad
      /\ \A q \in Named(N) :
            Field(q) \in Keys /\ ~Decoded(q).bad /\ file[Field(q)] = Decoded(q).value
      /\ \A q, r \in Named(N) : Field(q) = Field(r) => q = r
      /\ (\A q \in Named(N) : Field(q) # k) => file[k] = {}
    BY <1>1, DecodeSpec, Zenon
<1>3. \A p \in 1 .. N : (p \in Named(N) /\ Field(p) = k) <=> p \in given
    BY <1>2, NameSpec, Zenon DEF KeyText
<1>4. Said(k) = UNION {Says(k, p) : p \in given}
    BY <1>1, SaidBy, Zenon
<1>5. \A q \in Named(N) : q \in 1 .. N
    BY Zenon DEF Named
<1>6. \A q \in given : q \in 1 .. N
    BY Zenon
<1> HIDE DEF N, given
<1>7. CASE given = {}
  <2>1. Said(k) = {}
    BY <1>4, <1>7, Zenon
  <2>2. \A q \in Named(N) : Field(q) # k
    BY <1>3, <1>5, <1>7, Zenon
  <2> QED BY <1>2, <2>1, <2>2, Zenon
<1>8. CASE given # {}
  <2>1. PICK p \in given : TRUE
    BY <1>8, Zenon
  <2>2. p \in 1 .. N /\ p \in Named(N) /\ Field(p) = k
    BY <1>3, <1>6, <2>1, Zenon
  <2>3. given = {p}
    BY <1>2, <1>3, <1>6, <2>1, <2>2, Zenon
  <2>4. Said(k) = Says(k, p)
    BY <1>4, <2>3, Zenon
  <2>5. file[k] = DecodeField(k, Pairs(1)[p].value).value /\ ~DecodeField(k, Pairs(1)[p].value).bad
    BY <1>2, <2>2, Zenon DEF Decoded
  <2>6. DecodeField(k, Pairs(1)[p].value).value = Says(k, p)
    BY <1>1, <2>2, <2>5, FieldSpec, Zenon DEF Says
  <2> QED BY <2>4, <2>5, <2>6, Zenon
<1> QED BY <1>7, <1>8, Zenon

\* The same for the file that load_file gives, an empty document included.
LEMMA LoadedSpec ==
    ASSUME WellFormed, NEW whole, NEW file \in LoadFile(whole), NEW k \in Keys
    PROVE  file[k] = Reading[k]
<1>1. Reading[k] = Said(k)
    BY Zenon DEF Reading
<1>2. CASE IsEmptyDocument
  <2>1. Said(k) = {}
    BY <1>2, Zenon DEF Said
  <2>2. file = NoFile
    BY <1>2, Zenon DEF LoadFile
  <2> QED BY <1>1, <2>1, <2>2, Zenon DEF NoFile
<1>3. CASE ~IsEmptyDocument
  <2>1. file \in Decode
    BY <1>3, Zenon DEF LoadFile
  <2> QED BY <1>1, <1>3, <2>1, SaidSpec, Zenon
<1> QED BY <1>2, <1>3, Zenon

\* A list that is in force has its items among the globs.
LEMMA GlobsSpec ==
    ASSUME WellFormed, NEW i \in DOMAIN nodes, Range(ListOf(nodes[i])) \subseteq Globs,
           NEW j \in DOMAIN nodes[i].content, Item(nodes[i], j).tag # "!!null"
    PROVE  Item(nodes[i], j).text \in Globs
<1> DEFINE P == SaidItems(nodes[i])
<1>1. j \in P
    BY Zenon DEF SaidItems
<1>2. PICK k \in 1 .. Cardinality(P) : Nth(P, k) = j
    BY <1>1, SaidItemsSpec, Zenon
<1>3. k \in DOMAIN ListOf(nodes[i]) /\ ListOf(nodes[i])[k] = Item(nodes[i], j).text
    BY <1>2, Zenon DEF ListOf
<1> QED BY <1>3, Zenon DEF Range

\* The value of a key that is written out has passed the shape pass, the decode and the
\* validation.
LEMMA FitsSpec ==
    ASSUME WellFormed, NEW file, ValidateEnums(file), Validate(Merge(file)),
           NEW v \in DOMAIN nodes, NEW k \in Keys, HasShape(Deref(v), Shape[k]),
           ~DecodeField(k, v).bad, file[k] = DecodeField(k, v).value
    PROVE  Fits(k, Deref(v))
<1> DEFINE i == Deref(v)
           node == nodes[i]
<1>0. i \in DOMAIN nodes
    BY DerefSpec, Zenon
<1>1. file[k] = IF node.tag = "!!null" THEN {} ELSE Value(k, node)
    BY FieldSpec, Zenon
<1>2. CASE k = "dry-run"
  <2>1. Shape[k] = "bool" /\ DecodeField(k, v) = DecodeBool(v)
    BY <1>2 DEF Shape, DecodeField
  <2>2. node.tag = "!!bool"
    BY <2>1 DEF HasShape
  <2>3. Resolve(node) # "error"
    BY <2>1, BoolSpec, Zenon
  <2>4. node.text \in {"true", "false"}
    BY <2>2, <2>3, ResolveSpec, Zenon
  <2> QED BY <1>2, <2>2, <2>4 DEF Fits
<1>3. CASE k = "log-level"
  <2>1. Shape[k] = "non-empty string"
    BY <1>3 DEF Shape
  <2>2. node.tag = "!!str" /\ node.text # ""
    BY <2>1 DEF HasShape, IsNonEmptyString, IsString
  <2>3. Value(k, node) = {node.text} \ {""}
    BY <1>3 DEF Value
  <2>4. node.text \in file[k]
    BY <1>1, <2>2, <2>3
  <2>5. node.text \in LogLevels
    BY <1>3, <2>4, Zenon DEF ValidateEnums
  <2> QED BY <1>3, <2>2, <2>5 DEF Fits
<1>4. CASE k = "metrics-addr"
  <2>1. Shape[k] = "string"
    BY <1>4 DEF Shape
  <2>2. node.tag = "!!str"
    BY <2>1 DEF HasShape, IsString
  <2> QED BY <1>4, <2>2 DEF Fits
<1>5. CASE k = "device-deny"
  <2>1. Shape[k] = "list"
    BY <1>5 DEF Shape
  <2>2. /\ node.kind = "sequence"
        /\ \A item \in Range(node.content) : IsNonEmptyString(Deref(item))
    BY <2>1 DEF HasShape
  <2>3. \A item \in Range(node.content) :
           nodes[Deref(item)].tag = "!!str" /\ nodes[Deref(item)].text # ""
    BY <2>2, Zenon DEF IsNonEmptyString, IsString
  <2>4. ASSUME k \notin cliSet, NEW item \in Range(node.content)
        PROVE  nodes[Deref(item)].text \in Globs
    <3>1. node.tag # "!!null"
      <4>1. node.tag \in {"!!map", "!!seq"}
        BY <1>0, <2>2, Zenon DEF WellFormed, WellFormedNode
      <4> QED BY <4>1
    <3>2. Value(k, node) = {ListOf(node)}
      BY <1>0, <1>5, ValueOfList, Zenon
    <3>3. Merge(file)[k] = {ListOf(node)}
      BY <1>1, <2>4, <3>1, <3>2, Zenon DEF Merge
    <3>4. Range(ListOf(node)) \subseteq Globs
      BY <1>5, <3>3, Zenon DEF Validate
    <3>5. PICK j \in DOMAIN node.content : item = node.content[j]
      BY Zenon DEF Range
    <3>6. nodes[Deref(item)] = Item(node, j)
      BY <3>5, Zenon DEF Item
    <3>7. nodes[Deref(item)].tag # "!!null"
      <4>1. nodes[Deref(item)].tag = "!!str"
        BY <2>3, Zenon
      <4> QED BY <4>1
    <3> QED BY <1>0, <3>4, <3>6, <3>7, GlobsSpec, Zenon
  <2>5. Fits(k, i) <=>
           /\ nodes[i].kind = "sequence"
           /\ \A item \in Range(nodes[i].content) :
                 /\ nodes[Deref(item)].tag = "!!str" /\ nodes[Deref(item)].text # ""
                 /\ k \notin cliSet => nodes[Deref(item)].text \in Globs
    BY <1>5 DEF Fits
  <2> QED BY <2>2, <2>3, <2>4, <2>5, Zenon
<1>6. k \in {"log-level", "dry-run", "device-deny", "metrics-addr"}
    BY KeySet, Zenon
<1> QED BY <1>2, <1>3, <1>4, <1>5, <1>6, Zenon

LEMMA StrictHolds ==
    ASSUME WellFormed
    PROVE  Strict
<1> DEFINE N == PairCount
<1>1. SUFFICES ASSUME ~IsEmptyDocument, NEW file \in LoadFile(TRUE), Validate(Merge(file))
               PROVE  /\ nodes[1].kind = "mapping"
                      /\ \A p \in DOMAIN Pairs(1) :
                            LET pair == Pairs(1)[p]  key == nodes[pair.key] IN
                            /\ (key.kind = "scalar" /\ key.tag # "!!null") =>
                                  key.text \in Keys /\ Fits(key.text, Deref(pair.value))
                            /\ \A q \in DOMAIN Pairs(1) \ {p} :
                                  \/ nodes[Deref(pair.key)].text \notin Keys
                                  \/ nodes[Deref(Pairs(1)[q].key)].text # nodes[Deref(pair.key)].text
    BY Zenon DEF Strict
<1>2. CheckShapes /\ file \in Decode /\ ValidateEnums(file)
    BY <1>1, Zenon DEF LoadFile
<1>3. /\ N \in Nat /\ DOMAIN Pairs(1) = 1 .. N
      /\ \A p \in 1 .. N : Pairs(1)[p].key \in DOMAIN nodes /\ Pairs(1)[p].value \in DOMAIN nodes
    BY <1>1, Root, PairsSpec, Zenon
<1>4. /\ \A q \in 1 .. N : ~Name(q).bad
      /\ \A q \in Named(N) :
            Field(q) \in Keys /\ ~Decoded(q).bad /\ file[Field(q)] = Decoded(q).value
      /\ \A q, r \in Named(N) : Field(q) = Field(r) => q = r
    BY <1>2, <1>3, DecodeSpec, Zenon
<1>5. nodes[1].kind = "mapping"
    BY <1>2, Zenon DEF CheckShapes
<1>6. ASSUME NEW p \in 1 .. N, nodes[Pairs(1)[p].key].kind = "scalar",
             nodes[Pairs(1)[p].key].tag # "!!null"
      PROVE  /\ nodes[Pairs(1)[p].key].text \in Keys
             /\ Fits(nodes[Pairs(1)[p].key].text, Deref(Pairs(1)[p].value))
  <2> DEFINE key == nodes[Pairs(1)[p].key]
             k == key.text
             v == Pairs(1)[p].value
  <2>1. Deref(Pairs(1)[p].key) = Pairs(1)[p].key
    BY <1>6 DEF Deref
  <2>2. Name(p).value = {k}
    BY <1>4, <1>6, <2>1, StringSpec, Zenon DEF Name
  <2>3. p \in Named(N) /\ Field(p) = k
    BY <2>2, Zenon DEF Named, Field
  <2>4. k \in Keys /\ ~DecodeField(k, v).bad /\ file[k] = DecodeField(k, v).value
    BY <1>4, <2>3, Zenon DEF Decoded
  <2>5. HasShape(Deref(v), Shape[k])
    <3>1. Pairs(1)[p] \in Range(Pairs(1))
      BY <1>3, Zenon DEF Range
    <3> QED BY <1>2, <2>4, <3>1, Zenon DEF CheckShapes
  <2>6. v \in DOMAIN nodes
    BY <1>3, Zenon
  <2> HIDE DEF k, v
  <2>7. Fits(k, Deref(v))
    BY <1>1, <1>2, <2>4, <2>5, <2>6, FitsSpec, Zenon
  <2> QED BY <2>4, <2>7, Zenon DEF k, v
<1>7. ASSUME NEW p \in 1 .. N, NEW q \in (1 .. N) \ {p}, KeyText(p) \in Keys, KeyText(q) = KeyText(p)
      PROVE  FALSE
  <2>1. p \in Named(N) /\ Field(p) = KeyText(p)
    BY <1>4, <1>7, NameSpec, Zenon DEF KeyText
  <2>2. q \in Named(N) /\ Field(q) = KeyText(p)
    BY <1>4, <1>7, NameSpec, Zenon DEF KeyText
  <2> QED BY <1>4, <1>7, <2>1, <2>2, Zenon
<1> QED BY <1>3, <1>5, <1>6, <1>7, Zenon DEF KeyText

-----------------------------------------------------------------------------
(* The tree stays well formed.                                               *)

LEMMA InitWellFormed ==
    ASSUME Init
    PROVE  WellFormed
<1>1. nodes = <<>> /\ open = <<>> /\ anchors = [a \in Anchors |-> 0]
    BY Zenon DEF Init
<1>2. nodes \in Seq(NodeSet) /\ DOMAIN nodes = {} /\ open \in Seq(DOMAIN nodes)
    BY <1>1
<1>3. anchors \in [Anchors -> Nat] /\ \A a \in Anchors : anchors[a] = 0
    BY <1>1
<1> QED BY <1>2, <1>3, Zenon DEF WellFormed

LEMMA DropWellFormed ==
    ASSUME Drop
    PROVE  WellFormed'
<1>1. nodes' = <<>> /\ open' = <<>> /\ anchors' = [a \in Anchors |-> 0]
    BY Zenon DEF Drop
<1>2. nodes' \in Seq(NodeSet) /\ DOMAIN nodes' = {} /\ open' \in Seq(DOMAIN nodes')
    BY <1>1
<1>3. anchors' \in [Anchors -> Nat] /\ \A a \in Anchors : anchors'[a] = 0
    BY <1>1
<1> QED BY <1>2, <1>3, Zenon DEF WellFormed

\* A node that push may be given.
Pushable(node, name) ==
    /\ node \in NodeSet /\ node.content = <<>>
    /\ node.kind = "alias" =>
          node.alias \in DOMAIN nodes /\ nodes[node.alias].kind # "alias" /\ name \notin Anchors
    /\ node.kind \in {"mapping", "sequence"} => node.text = "" /\ node.tag \in {"!!map", "!!seq"}

WithChild(i, c) == [nodes EXCEPT ![i].content = Append(@, c)]

Grown(mid, i, c) ==
    /\ mid \in Seq(NodeSet) /\ Len(mid) = Len(nodes)
    /\ \A j \in DOMAIN nodes :
          /\ mid[j].kind = nodes[j].kind /\ mid[j].tag = nodes[j].tag
          /\ mid[j].text = nodes[j].text /\ mid[j].alias = nodes[j].alias
          /\ mid[j].content = IF j = i THEN Append(nodes[j].content, c) ELSE nodes[j].content

\* The tree with one more child of node i is as before in every other respect.
LEMMA ChildAdded ==
    ASSUME nodes \in Seq(NodeSet), NEW i \in DOMAIN nodes, NEW c \in Nat, NEW mid,
           mid = WithChild(i, c)
    PROVE  Grown(mid, i, c)
<1>1. nodes \in [1 .. Len(nodes) -> NodeSet] /\ Len(nodes) \in Nat /\ DOMAIN nodes = 1 .. Len(nodes)
    OBVIOUS
<1>2. nodes[i] \in NodeSet /\ nodes[i].content \in Seq(Nat)
  <2>1. nodes[i] \in NodeSet
    BY <1>1, Zenon
  <2> QED BY <2>1 DEF NodeSet
<1> DEFINE new == [nodes[i] EXCEPT !.content = Append(@, c)]
<1>3. Append(nodes[i].content, c) \in Seq(Nat)
    BY <1>2
<1>4. /\ new \in NodeSet /\ new.kind = nodes[i].kind /\ new.tag = nodes[i].tag
      /\ new.text = nodes[i].text /\ new.alias = nodes[i].alias
      /\ new.content = Append(nodes[i].content, c)
    BY <1>2, <1>3 DEF NodeSet
<1>5. mid = [nodes EXCEPT ![i] = new]
    BY Zenon DEF WithChild
<1> HIDE DEF new
<1>6. mid \in [1 .. Len(nodes) -> NodeSet]
    BY <1>1, <1>4, <1>5
<1>7. \A j \in DOMAIN nodes : mid[j] = IF j = i THEN new ELSE nodes[j]
    BY <1>1, <1>5
<1>8. mid \in Seq(NodeSet) /\ Len(mid) = Len(nodes)
    BY <1>1, <1>6
<1> QED BY <1>4, <1>7, <1>8, Zenon DEF Grown

\* The tree with a node at its end.
Longer(all, mid, node) ==
    /\ all \in Seq(NodeSet) /\ DOMAIN all = 1 .. Len(mid) + 1
    /\ \A j \in 1 .. Len(mid) : all[j] = mid[j]
    /\ all[Len(mid) + 1] = node

LEMMA NodeAppended ==
    ASSUME NEW mid \in Seq(NodeSet), NEW node \in NodeSet
    PROVE  Longer(Append(mid, node), mid, node)
BY DEF Longer

LEMMA SeqWiden ==
    ASSUME NEW S, NEW T, NEW s \in Seq(S), \A x \in S : x \in T
    PROVE  s \in Seq(T)
OBVIOUS

LEMMA PushWellFormed ==
    ASSUME WellFormed, NEW node, NEW name, NEW opens \in BOOLEAN, Pushable(node, name),
           Push(node, name, opens)
    PROVE  WellFormed'
<1>0. PICK n, i : n = Len(nodes) /\ i = n + 1
    BY Zenon
<1> DEFINE mid == IF open = <<>> THEN nodes ELSE WithChild(Innermost, i)
<1>1. /\ nodes' = Append(mid, node)
      /\ open' = IF opens THEN Append(open, i) ELSE open
      /\ anchors' = [a \in Anchors |-> IF a = name THEN i ELSE anchors[a]]
    BY <1>0, Zenon DEF Push, WithChild
<1>2. nodes \in Seq(NodeSet) /\ n \in Nat /\ DOMAIN nodes = 1 .. n
  <2>1. nodes \in Seq(NodeSet)
    BY Zenon DEF WellFormed
  <2> QED BY <1>0, <2>1
<1>3. i \in Nat /\ i \notin 1 .. n /\ i \in 1 .. i /\ \A j \in 1 .. n : j \in 1 .. i /\ j \in Nat
    BY <1>0, <1>2
<1>4. open # <<>> => Innermost \in DOMAIN nodes
  <2>1. open \in Seq(DOMAIN nodes)
    BY Zenon DEF WellFormed
  <2> QED BY <2>1 DEF Innermost
<1>5. /\ mid \in Seq(NodeSet) /\ Len(mid) = n
      /\ \A j \in 1 .. n :
            /\ mid[j].kind = nodes[j].kind /\ mid[j].tag = nodes[j].tag
            /\ mid[j].text = nodes[j].text /\ mid[j].alias = nodes[j].alias
            /\ mid[j].content \in {nodes[j].content, Append(nodes[j].content, i)}
  <2>1. CASE open = <<>>
    BY <1>0, <1>2, <2>1, Zenon
  <2>2. CASE open # <<>>
    <3>1. mid = WithChild(Innermost, i)
      BY <2>2, Zenon
    <3> HIDE DEF mid
    <3>2. Grown(mid, Innermost, i)
      BY <1>2, <1>3, <1>4, <2>2, <3>1, ChildAdded, Zenon
    <3> QED BY <1>0, <1>2, <3>2, Zenon DEF Grown
  <2> QED BY <2>1, <2>2, Zenon
<1> HIDE DEF mid
<1>6. /\ nodes' \in Seq(NodeSet) /\ DOMAIN nodes' = 1 .. i
      /\ \A j \in 1 .. n : nodes'[j] = mid[j]
      /\ nodes'[i] = node
  <2>1. node \in NodeSet
    BY Zenon DEF Pushable
  <2>2. Longer(nodes', mid, node)
    BY <1>1, <1>5, <2>1, NodeAppended, Zenon
  <2> QED BY <1>0, <1>5, <2>2, Zenon DEF Longer
<1>7. \A j \in 1 .. i : j \in 1 .. n \/ j = i
    BY <1>0, <1>2
<1>8. \A j \in 1 .. n :
         /\ \A c \in DOMAIN mid[j].content : mid[j].content[c] \in 1 .. i
         /\ nodes[j].kind = "alias" =>
               nodes[j].alias \in 1 .. n /\ nodes[nodes[j].alias].kind # "alias"
         /\ nodes[j].kind \in {"mapping", "sequence"} =>
               nodes[j].text = "" /\ nodes[j].tag \in {"!!map", "!!seq"}
  <2> TAKE j \in 1 .. n
  <2>1. WellFormedNode(j) /\ nodes[j].content \in Seq(Nat)
    BY <1>2, NodeFields, Zenon DEF WellFormed
  <2>2. \A c \in DOMAIN nodes[j].content : nodes[j].content[c] \in 1 .. i
    BY <1>2, <1>3, <2>1, Zenon DEF WellFormedNode
  <2>3. \A c \in DOMAIN Append(nodes[j].content, i) : Append(nodes[j].content, i)[c] \in 1 .. i
    <3> DEFINE s == nodes[j].content
    <3>1. s \in Seq(Nat) /\ \A c \in DOMAIN s : s[c] \in 1 .. i
      BY <2>1, <2>2, Zenon
    <3> HIDE DEF s
    <3>2. \A c \in DOMAIN Append(s, i) : Append(s, i)[c] \in 1 .. i
      BY <1>3, <3>1
    <3> QED BY <3>2, Zenon DEF s
  <2>4. \A c \in DOMAIN mid[j].content : mid[j].content[c] \in 1 .. i
    BY <1>5, <2>2, <2>3, Zenon
  <2> QED BY <1>2, <2>1, <2>4, Zenon DEF WellFormedNode
<1>9. ASSUME NEW j \in 1 .. n PROVE WellFormedNode(j)'
  <2>1. \A c \in DOMAIN nodes'[j].content : nodes'[j].content[c] \in DOMAIN nodes'
    BY <1>6, <1>8, Zenon
  <2>4. /\ nodes'[j].kind = nodes[j].kind /\ nodes'[j].tag = nodes[j].tag
        /\ nodes'[j].text = nodes[j].text /\ nodes'[j].alias = nodes[j].alias
    BY <1>5, <1>6, Zenon
  <2>2. ASSUME nodes'[j].kind = "alias"
        PROVE  nodes'[j].alias \in DOMAIN nodes' /\ nodes'[nodes'[j].alias].kind # "alias"
    <3> DEFINE t == nodes[j].alias
    <3>1. t \in 1 .. n /\ nodes[t].kind # "alias"
      BY <1>8, <2>2, <2>4, Zenon
    <3>2. t \in 1 .. i /\ nodes'[t].kind = nodes[t].kind
      BY <1>3, <1>5, <1>6, <3>1, Zenon
    <3> QED BY <1>6, <2>4, <3>1, <3>2, Zenon
  <2>3. nodes'[j].kind \in {"mapping", "sequence"} =>
           nodes'[j].text = "" /\ nodes'[j].tag \in {"!!map", "!!seq"}
    BY <1>8, <2>4, Zenon
  <2> QED BY <2>1, <2>2, <2>3, Zenon DEF WellFormedNode
<1>10. WellFormedNode(i)'
  <2>1. DOMAIN nodes'[i].content = {}
    <3>1. nodes'[i].content = <<>>
      BY <1>6, Zenon DEF Pushable
    <3> QED BY <3>1
  <2>2. nodes'[i].kind = "alias" =>
           nodes'[i].alias \in DOMAIN nodes' /\ nodes'[nodes'[i].alias].kind # "alias"
    BY <1>2, <1>3, <1>5, <1>6, Zenon DEF Pushable
  <2>3. nodes'[i].kind \in {"mapping", "sequence"} =>
           nodes'[i].text = "" /\ nodes'[i].tag \in {"!!map", "!!seq"}
    BY <1>6, Zenon DEF Pushable
  <2> QED BY <2>1, <2>2, <2>3, Zenon DEF WellFormedNode
<1>11. \A j \in DOMAIN nodes' : WellFormedNode(j)'
    BY <1>6, <1>7, <1>9, <1>10, Zenon
<1>12. open' \in Seq(DOMAIN nodes')
  <2>1. open \in Seq(1 .. n)
    BY <1>2, Zenon DEF WellFormed
  <2>2. open \in Seq(1 .. i)
    BY <1>3, <2>1, SeqWiden, Zenon
  <2>3. Append(open, i) \in Seq(1 .. i)
    BY <1>3, <2>2
  <2> QED BY <1>1, <1>6, <2>2, <2>3, Zenon
<1>13. anchors' \in [Anchors -> Nat]
  <2>1. anchors \in [Anchors -> Nat]
    BY Zenon DEF WellFormed
  <2> QED BY <1>1, <1>3, <2>1
<1>14. ASSUME NEW a \in Anchors, anchors'[a] # 0
       PROVE  anchors'[a] \in DOMAIN nodes' /\ nodes'[anchors'[a]].kind # "alias"
  <2>1. CASE a = name
    <3>1. anchors'[a] = i
      BY <1>1, <2>1, Zenon
    <3>2. node.kind # "alias"
      BY <2>1, Zenon DEF Pushable
    <3> QED BY <1>3, <1>6, <3>1, <3>2, Zenon
  <2>2. CASE a # name
    <3>1. anchors'[a] = anchors[a]
      BY <1>1, <2>2, Zenon
    <3>2. anchors[a] \in 1 .. n /\ nodes[anchors[a]].kind # "alias"
      BY <1>2, <1>14, <3>1, Zenon DEF WellFormed
    <3> DEFINE t == anchors[a]
    <3>3. t \in 1 .. i /\ nodes'[t].kind = nodes[t].kind
      BY <1>3, <1>5, <1>6, <3>2, Zenon
    <3> QED BY <1>6, <3>1, <3>2, <3>3, Zenon
  <2> QED BY <2>1, <2>2, Zenon
<1> QED BY <1>6, <1>11, <1>12, <1>13, <1>14, Zenon DEF WellFormed

Made(kind, tag, text, alias) ==
    [kind |-> kind, tag |-> tag, text |-> text, content |-> <<>>, alias |-> alias]

IsMade(node, kind, tag, text, alias) ==
    /\ node \in NodeSet /\ node.content = <<>> /\ node.kind = kind
    /\ node.tag = tag /\ node.text = text /\ node.alias = alias

LEMMA MadeSpec ==
    ASSUME NEW kind \in NodeKinds, NEW tag \in Tags, NEW text \in Texts, NEW alias \in Nat
    PROVE  IsMade(Made(kind, tag, text, alias), kind, tag, text, alias)
BY DEF Made, IsMade, NodeSet

LEMMA ScalarPushable ==
    ASSUME NEW scalar \in Scalars, NEW name
    PROVE  Pushable(Made("scalar", ScalarTag(scalar), scalar.text, 0), name)
<1>1. scalar.text \in Texts /\ ScalarTag(scalar) \in Tags
    BY Zenon DEF Texts, Tags
<1>2. "scalar" \in NodeKinds /\ 0 \in Nat /\ "scalar" # "alias"
      /\ "scalar" \notin {"mapping", "sequence"}
    BY DEF NodeKinds
<1>3. PICK node : /\ node = Made("scalar", ScalarTag(scalar), scalar.text, 0)
                  /\ IsMade(node, "scalar", ScalarTag(scalar), scalar.text, 0)
    BY <1>1, <1>2, MadeSpec, Zenon
<1> QED BY <1>2, <1>3, Zenon DEF Pushable, IsMade

LEMMA CollectionPushable ==
    ASSUME NEW kind \in {"mapping", "sequence"}, NEW name
    PROVE  Pushable(Made(kind, IF kind = "mapping" THEN "!!map" ELSE "!!seq", "", 0), name)
<1>1. /\ "" \in Texts /\ (IF kind = "mapping" THEN "!!map" ELSE "!!seq") \in Tags
      /\ (IF kind = "mapping" THEN "!!map" ELSE "!!seq") \in {"!!map", "!!seq"}
    BY Zenon DEF Texts, Tags
<1>2. kind \in NodeKinds /\ 0 \in Nat /\ kind # "alias"
    BY DEF NodeKinds
<1>3. PICK tag : tag = IF kind = "mapping" THEN "!!map" ELSE "!!seq"
    BY Zenon
<1>4. PICK node : node = Made(kind, tag, "", 0) /\ IsMade(node, kind, tag, "", 0)
    BY <1>1, <1>2, <1>3, MadeSpec, Zenon
<1> QED BY <1>1, <1>2, <1>3, <1>4, Zenon DEF Pushable, IsMade

LEMMA AliasPushable ==
    ASSUME WellFormed, NEW name \in Anchors, anchors[name] # 0
    PROVE  Pushable(Made("alias", "", name, anchors[name]), "")
<1>1. anchors[name] \in Nat /\ anchors[name] \in DOMAIN nodes /\ nodes[anchors[name]].kind # "alias"
    BY Zenon DEF WellFormed
<1>2. name \in Texts /\ "" \in Tags /\ "" \notin Anchors
    BY AnchorsAssumption, Zenon DEF Texts, Tags
<1>3. "alias" \in NodeKinds /\ "alias" \notin {"mapping", "sequence"}
    BY DEF NodeKinds
<1>4. PICK node : /\ node = Made("alias", "", name, anchors[name])
                  /\ IsMade(node, "alias", "", name, anchors[name])
    BY <1>1, <1>2, <1>3, MadeSpec, Zenon
<1> QED BY <1>1, <1>2, <1>3, <1>4, Zenon DEF Pushable, IsMade

LEMMA SameDocument ==
    ASSUME WellFormed, nodes' = nodes, open' = open, anchors' = anchors
    PROVE  WellFormed'
BY Zenon DEF WellFormed, WellFormedNode

LEMMA StepWellFormed ==
    ASSUME WellFormed, [Next]_vars
    PROVE  WellFormed'
<1>1. CASE ReadFile \/ ReadFails \/ NoDocument \/ UNCHANGED vars
  <2>1. nodes' = nodes /\ open' = open /\ anchors' = anchors
    BY <1>1 DEF ReadFile, ReadFails, NoDocument, vars, document
  <2> QED BY <2>1, SameDocument, Zenon
<1>2. CASE SyntaxFails \/ Load
    BY <1>2, DropWellFormed, Zenon DEF SyntaxFails, Load
<1>3. CASE CollectionEnd
  <2>1. nodes' = nodes /\ anchors' = anchors /\ open' = SubSeq(open, 1, Len(open) - 1) /\ open # <<>>
    BY <1>3, Zenon DEF CollectionEnd
  <2>2. open \in Seq(DOMAIN nodes)
    BY Zenon DEF WellFormed
  <2>3. SubSeq(open, 1, Len(open) - 1) \in Seq(DOMAIN nodes)
    BY <2>1, <2>2
  <2>4. open' \in Seq(DOMAIN nodes')
    BY <2>1, <2>3, Zenon
  <2> QED BY <2>1, <2>4, Zenon DEF WellFormed, WellFormedNode
<1>4. ASSUME NEW scalar \in Scalars, NEW name, ScalarEvent(scalar, name) PROVE WellFormed'
    BY <1>4, ScalarPushable, PushWellFormed, Zenon DEF ScalarEvent, Made
<1>5. ASSUME NEW kind \in {"mapping", "sequence"}, NEW name, CollectionStart(kind, name)
      PROVE  WellFormed'
    BY <1>5, CollectionPushable, PushWellFormed, Zenon DEF CollectionStart, Made
<1>6. ASSUME NEW name \in Anchors, AliasEvent(name) PROVE WellFormed'
    BY <1>6, AliasPushable, PushWellFormed, Zenon DEF AliasEvent, Made
<1> QED BY <1>1, <1>2, <1>3, <1>4, <1>5, <1>6, Zenon DEF Next

-----------------------------------------------------------------------------
(* The settings in force.                                                    *)

\* What is merged under the flags is what the document says.
LEMMA MergeSpec ==
    ASSUME WellFormed, NEW whole, NEW file \in LoadFile(whole), NEW k \in Keys
    PROVE  Merge(file)[k] = IF k \in cliSet \/ Reading[k] = {} THEN Flag(k) ELSE Reading[k]
<1>1. file[k] = Reading[k]
    BY LoadedSpec, Zenon
<1>2. Merge(file)[k] = IF k \notin cliSet /\ file[k] # {} THEN file[k] ELSE Flag(k)
    BY Zenon DEF Merge
<1> QED BY <1>1, <1>2, Zenon

LEMMA ApplyInForce ==
    ASSUME WellFormed, InForce, NEW whole, Apply(LoadFile(whole))
    PROVE  InForce'
<1>0. cliSet' = cliSet
    BY Zenon DEF Apply, Start, Reload, daemon
<1>1. \A k \in Keys : Flag(k)' = Flag(k)
    BY <1>0, Zenon DEF Flag
<1>2. ASSUME NEW file \in LoadFile(whole), Start(file)
      PROVE  InForce'
  <2>1. current' = Merge(file) /\ first' = Reading /\ latest' = Reading
    BY <1>2, Zenon DEF Start
  <2>2. ASSUME NEW k \in Keys
        PROVE  /\ current'[k] = IF k \in cliSet' \/ first'[k] = {} THEN Flag(k)' ELSE first'[k]
               /\ current'[k] = IF k \in cliSet' \/ latest'[k] = {} THEN Flag(k)' ELSE latest'[k]
    <3>1. Merge(file)[k] = IF k \in cliSet \/ Reading[k] = {} THEN Flag(k) ELSE Reading[k]
      BY MergeSpec, Zenon
    <3> QED BY <1>0, <1>1, <2>1, <3>1, Zenon
  <2> QED BY <2>2, Zenon DEF InForce
<1>3. ASSUME NEW file \in LoadFile(whole), Reload(file)
      PROVE  InForce'
  <2>1. /\ started /\ first' = first /\ latest' = Reading
        /\ current' = [k \in Keys |-> IF k \in Cold THEN current[k] ELSE Merge(file)[k]]
    BY <1>3, Zenon DEF Reload
  <2>2. ASSUME NEW k \in Keys, k \in Cold
        PROVE  current'[k] = IF k \in cliSet' \/ first'[k] = {} THEN Flag(k)' ELSE first'[k]
    <3>1. current'[k] = current[k]
      BY <2>1, <2>2, Zenon
    <3>2. current[k] = IF k \in cliSet \/ first[k] = {} THEN Flag(k) ELSE first[k]
      BY <2>1, <2>2, Zenon DEF InForce
    <3> QED BY <1>0, <1>1, <2>1, <3>1, <3>2, Zenon
  <2>3. ASSUME NEW k \in Keys, k \notin Cold
        PROVE  current'[k] = IF k \in cliSet' \/ latest'[k] = {} THEN Flag(k)' ELSE latest'[k]
    <3>1. current'[k] = Merge(file)[k]
      BY <2>1, <2>3, Zenon
    <3>2. Merge(file)[k] = IF k \in cliSet \/ Reading[k] = {} THEN Flag(k) ELSE Reading[k]
      BY MergeSpec, Zenon
    <3> QED BY <1>0, <1>1, <2>1, <3>1, <3>2, Zenon
  <2> QED BY <2>2, <2>3, Zenon DEF InForce
<1>4. CASE UNCHANGED daemon
  <2>1. started' = started /\ current' = current /\ first' = first /\ latest' = latest
    BY <1>4 DEF daemon
  <2> QED BY <1>0, <1>1, <2>1, Zenon DEF InForce
<1> QED BY <1>2, <1>3, <1>4, Zenon DEF Apply

LEMMA StepInForce ==
    ASSUME WellFormed, InForce, [Next]_vars
    PROVE  InForce'
<1>1. CASE Load
    BY <1>1, ApplyInForce, Zenon DEF Load
<1>2. CASE UNCHANGED daemon
  <2>1. /\ started' = started /\ current' = current /\ first' = first /\ latest' = latest
        /\ cliSet' = cliSet
    BY <1>2 DEF daemon
  <2>2. \A k \in Keys : Flag(k)' = Flag(k)
    BY <2>1, Zenon DEF Flag
  <2> QED BY <2>1, <2>2, Zenon DEF InForce
<1>3. ASSUME ~Load PROVE UNCHANGED daemon
    BY <1>3, Zenon DEF Next, ReadFile, ReadFails, SyntaxFails, NoDocument, CollectionEnd,
        ScalarEvent, CollectionStart, AliasEvent, Push, vars
<1> QED BY <1>1, <1>2, <1>3, Zenon

\* The tree that the reader builds is well formed whatever the parser's events are: the
\* children of a node and what an alias stands for are nodes of it.
THEOREM TreesAreWellFormed == Spec => []WellFormed
<1>1. Init => WellFormed
    BY InitWellFormed, Zenon
<1>2. WellFormed /\ [Next]_vars => WellFormed'
    BY StepWellFormed, Zenon
<1> QED BY <1>1, <1>2, PTL DEF Spec

\* For every document, of any size and with any scalars, anchors and nesting: a file is
\* accepted only if every key written out in it is known, has a value of its own type and
\* is there once (check_shapes, decode and the validation taken together).
THEOREM FilesAreStrict == Spec => []Strict
<1>1. WellFormed => Strict
    BY StrictHolds, Zenon
<1> QED BY <1>1, TreesAreWellFormed, PTL

\* For every sequence of files, of any size: the settings in force are the flags that
\* were given, else what the last accepted file says, else the defaults, and what needs a
\* restart is as the file of the start said (decode, merge, startup_settings, reload).
THEOREM SettingsAreInForce == Spec => []InForce
<1>1. Init => InForce
    BY Zenon DEF Init, InForce
<1>2. WellFormed /\ InForce /\ [Next]_vars => InForce'
    BY StepInForce, Zenon
<1> QED BY <1>1, <1>2, TreesAreWellFormed, PTL DEF Spec

=============================================================================
