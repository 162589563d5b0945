--------------------------- MODULE CgroupV2Proofs ----------------------------
(***************************************************************************)
(* Until systemd wipes the cgroup, every runtime filter stays attached,     *)
(* bare or wrapped, whatever call of a pass fails and wherever the daemon   *)
(* dies; and no pass lets the container use a device it could not use       *)
(* before and is not meant to use after.  For every list of runtime         *)
(* filters, every set of devices and every value of the bounds.             *)
(*                                                                         *)
(* The argument: for G the programs around one original (Of), or those      *)
(* that deny one device (Denying), some attached program of G is Guarded by *)
(* what is left of the plan (Holds).  A plan starts Sound                   *)
(* (CgroupV2PlanProofs); a kernel call gives a new program an id that no    *)
(* attached one has (FreshIsNew), so that a later detach hits the program   *)
(* it was planned for; a swap attaches before it detaches, and its rollback *)
(* takes away only what the swap attached.                                  *)
(***************************************************************************)
EXTENDS CgroupV2PlanProofs

-----------------------------------------------------------------------------
(* The inductive invariant.                                                  *)

\* The programs that confine a container as original o does, bare or wrapped,
\* and those that do not allow device d.
Of(o) == {c \in Program : c.original = o}
Denying(d) == {c \in Program : d \notin c.rules \cup Allows[c.original]}

Swapping == pc \in {"added", "rollback"}

\* A program of G is attached and will not go before another one has come; it
\* is not the one that a swap has added and may take back.
HoldsIn(G, progs, plan, from, swapping) ==
    \E w \in DOMAIN progs : /\ Guarded(G, progs, plan, from, w)
                            /\ swapping => w # Len(progs)

Holds(G) == HoldsIn(G, attached, steps, at, Swapping)

Olds(plan) == {plan[i].old : i \in {j \in DOMAIN plan : plan[j].kind # "attach"}}

\* The kernel's programs and the plan fit together.
ProgramsOK == Unique(attached) /\ \A i \in DOMAIN attached : Plain(attached[i])
StepsOK ==
    /\ \A j \in DOMAIN steps : steps[j].kind # "detach" => Plain(steps[j].new)
    /\ \A j \in at .. Len(steps) : steps[j].kind = "pair" => PairOK(steps[j], attached, rules)
    /\ pc = "idle" => steps = <<>>

\* A swap in progress is at a pair and has added its new program.
Added ==
    Swapping =>
        /\ at \in DOMAIN steps /\ steps[at].kind = "pair"
        /\ ~disturbed => /\ attached # <<>>
                         /\ Content(attached[Len(attached)]) = steps[at].new
                         /\ attached[Len(attached)].id \notin Olds(steps)

Wiped == /\ wipes = 0 => ~disturbed
         /\ pc # "idle" /\ disturbed => before = Devices

KeepsRuntime == wipes = 0 => \A i \in DOMAIN runtime : Holds(Of(runtime[i]))

KeepsDenials ==
    pc # "idle" /\ ~disturbed => \A d \in Devices \ (before \cup rules) : Holds(Denying(d))

IInv == /\ TypeOK /\ ProgramsOK /\ StepsOK /\ Added /\ Wiped
        /\ KeepsRuntime /\ KeepsDenials

-----------------------------------------------------------------------------
(* What a kernel call does to the list of attached programs.                 *)

LEMMA FiniteImage ==
    ASSUME NEW n \in Nat, NEW P, P \subseteq 1 .. n, NEW f, NEW T,
           T = {f[i] : i \in P}
    PROVE  IsFiniteSet(T)
<1> DEFINE g == [i \in P |-> f[i]]
<1>1. IsFiniteSet(P)
    BY FinitePositions, Zenon
<1>2. g \in Surjection(P, T)
    BY Zenon DEF Surjection
<1> QED BY <1>1, <1>2, FS_Surjection, Zenon

\* A new program object is told apart from every one that is in use.
LEMMA FreshIsNew ==
    ASSUME attached \in Seq(Attached), steps \in Seq(PlanStep)
    PROVE  /\ FreshId \in Nat
           /\ \A i \in DOMAIN attached : attached[i].id # FreshId
           /\ FreshId \notin Olds(steps)
<1> DEFINE ids == [i \in DOMAIN attached |-> attached[i].id]
           A == {attached[i].id : i \in DOMAIN attached}
           J == {j \in DOMAIN steps : steps[j].kind # "attach"}
           olds == [i \in J |-> steps[i].old]
           held == A \cup Olds(steps)
           free == (1 .. Cardinality(held) + 1) \ held
<1>1. Len(attached) \in Nat /\ DOMAIN attached \subseteq 1 .. Len(attached)
    OBVIOUS
<1>2. Len(steps) \in Nat /\ J \subseteq 1 .. Len(steps)
    OBVIOUS
<1>3. IsFiniteSet(A)
  <2>1. A = {ids[i] : i \in DOMAIN attached}
    BY Zenon
  <2> HIDE DEF A, ids
  <2> QED BY <1>1, <2>1, FiniteImage, Zenon
<1>4. IsFiniteSet(Olds(steps))
  <2> DEFINE T == Olds(steps)
  <2>1. T = {olds[i] : i \in J}
    BY Zenon DEF Olds
  <2> HIDE DEF T, J, olds
  <2>2. IsFiniteSet(T)
    BY <1>2, <2>1, FiniteImage, Zenon
  <2> QED BY <2>2, Zenon DEF T
<1>5. FreshId = Min(free)
    BY Zenon DEF FreshId, Olds
<1> HIDE DEF A
<1>6. IsFiniteSet(held) /\ Cardinality(held) \in Nat
    BY <1>3, <1>4, FS_Union, FS_CardinalityType, Zenon
<1> HIDE DEF held
<1>7. free \subseteq Nat /\ free # {}
  <2> DEFINE n == Cardinality(held) + 1
  <2>0. n \in Nat
    BY <1>6
  <2>1. IsFiniteSet(1 .. n) /\ Cardinality(1 .. n) = n
    <3> HIDE DEF n
    <3> QED BY <2>0, FS_Interval
  <2>2. ASSUME 1 .. n \subseteq held PROVE FALSE
    <3>1. Cardinality(1 .. n) <= Cardinality(held)
      BY <1>6, <2>2, FS_Subset, Zenon
    <3> QED BY <1>6, <2>0, <2>1, <3>1
  <2> QED BY <2>2
<1>8. Min(free) \in free
    BY <1>7, MinIsLeast, Zenon
<1>9. FreshId \in Nat /\ FreshId \notin held
    BY <1>5, <1>7, <1>8, Zenon
<1> QED BY <1>9, Zenon DEF held, A

\* The list new has programs of progs and possibly a new one, p under the id f.
Evolves(new, progs, p, f) ==
    /\ new \in Seq(Attached)
    /\ Unique(new)
    /\ \A i \in DOMAIN new : \/ \E j \in DOMAIN progs : new[i] = progs[j]
                             \/ new[i] = Object(p, f)

LEMMA Objects ==
    ASSUME NEW p \in Program, NEW f \in Nat
    PROVE  /\ Object(p, f) \in Attached /\ Content(Object(p, f)) = p
           /\ Object(p, f).id = f /\ Object(p, f).original = p.original
           /\ Plain(p) => Plain(Object(p, f))
BY Zenon DEF Program, Attached, Object, Content, Plain

Extends(new, progs, o) ==
    /\ Len(new) \in DOMAIN new /\ new # <<>>
    /\ \A i \in DOMAIN progs : i \in DOMAIN new /\ new[i] = progs[i] /\ i # Len(new)
    /\ new[Len(new)] = o

LEMMA Appended ==
    ASSUME NEW progs \in Seq(Attached), Unique(progs), NEW p \in Program, NEW f \in Nat,
           \A i \in DOMAIN progs : progs[i].id # f,
           NEW new, new = Append(progs, Object(p, f))
    PROVE  Evolves(new, progs, p, f) /\ Extends(new, progs, Object(p, f))
<1> DEFINE o == Object(p, f)
<1>1. o \in Attached /\ o.id = f
    BY Objects, Zenon
<1> HIDE DEF o
<1>2. /\ new \in Seq(Attached) /\ Len(progs) \in Nat /\ Len(new) = Len(progs) + 1
      /\ DOMAIN new = 1 .. Len(progs) + 1 /\ DOMAIN progs = 1 .. Len(progs)
      /\ \A i \in DOMAIN progs : i \in DOMAIN new /\ new[i] = progs[i] /\ i # Len(new)
      /\ new[Len(new)] = o /\ new # <<>> /\ Len(new) \in DOMAIN new
    BY <1>1 DEF o
<1>3. \A i \in DOMAIN new : i \in DOMAIN progs \/ i = Len(new)
    BY <1>2
<1>4. Unique(new)
  <2> SUFFICES ASSUME NEW i \in DOMAIN new, NEW j \in DOMAIN new, new[i].id = new[j].id
               PROVE  i = j
    BY Zenon DEF Unique
  <2>1. CASE i \in DOMAIN progs /\ j \in DOMAIN progs
    BY <1>2, <2>1, Zenon DEF Unique
  <2>2. CASE i = Len(new) /\ j \in DOMAIN progs
    BY <1>1, <1>2, <2>2, Zenon
  <2>3. CASE i \in DOMAIN progs /\ j = Len(new)
    BY <1>1, <1>2, <2>3, Zenon
  <2> QED BY <1>3, <2>1, <2>2, <2>3, Zenon
<1>5. Evolves(new, progs, p, f)
    BY <1>2, <1>3, <1>4, Zenon DEF Evolves, o
<1> QED BY <1>2, <1>5, Zenon DEF o, Extends

Swapped(progs, id, o) ==
    [i \in DOMAIN progs |-> IF progs[i].id = id THEN o ELSE progs[i]]

LEMMA Replaced ==
    ASSUME NEW progs \in Seq(Attached), Unique(progs), NEW p \in Program, NEW f \in Nat,
           \A i \in DOMAIN progs : progs[i].id # f, NEW id,
           NEW new, new = Swapped(progs, id, Object(p, f))
    PROVE  Evolves(new, progs, p, f)
<1> DEFINE o == Object(p, f)
<1>1. o \in Attached /\ o.id = f
    BY Objects, Zenon
<1>2. /\ DOMAIN new = DOMAIN progs /\ new = [i \in DOMAIN progs |-> new[i]]
      /\ \A i \in DOMAIN progs : /\ progs[i].id = id => new[i] = o
                                 /\ progs[i].id # id => new[i] = progs[i]
    BY Zenon DEF Swapped
<1> HIDE DEF o
<1>3. \A i \in DOMAIN progs : progs[i] \in Attached
    OBVIOUS
<1>4. \A i \in DOMAIN progs : new[i] \in Attached
    BY <1>1, <1>2, <1>3, Zenon
<1>5. new \in Seq(Attached)
  <2>1. new \in [1 .. Len(progs) -> Attached]
    BY <1>2, <1>4
  <2> QED BY <2>1
<1>6. Unique(new)
  <2> SUFFICES ASSUME NEW i \in DOMAIN progs, NEW j \in DOMAIN progs, new[i].id = new[j].id
               PROVE  i = j
    BY <1>2, Zenon DEF Unique
  <2>1. CASE progs[i].id = progs[j].id
    BY <2>1, Zenon DEF Unique
  <2>2. CASE progs[i].id # progs[j].id /\ progs[i].id = id
    <3>1. new[i] = o /\ new[j] = progs[j]
      BY <1>2, <2>2, Zenon
    <3> QED BY <1>1, <3>1, Zenon
  <2>3. CASE progs[i].id # progs[j].id /\ progs[i].id # id
    <3>1. new[i] = progs[i] /\ new[j] \in {o, progs[j]}
      BY <1>2, <2>3, Zenon
    <3> QED BY <1>1, <2>3, <3>1, Zenon
  <2> QED BY <2>1, <2>2, <2>3, Zenon
<1>7. Evolves(new, progs, p, f)
    BY <1>2, <1>5, <1>6, Zenon DEF Evolves, o
<1> QED BY <1>7, Zenon

\* What detaching a program leaves.
Without(progs, id) == Pick(progs, {i \in DOMAIN progs : progs[i].id # id})

Leaves(new, progs, id) ==
    \A j \in DOMAIN progs : progs[j].id # id => \E i \in DOMAIN new : new[i] = progs[j]

LEMMA Detached ==
    ASSUME NEW progs \in Seq(Attached), Unique(progs), NEW id, NEW p, NEW f,
           NEW new, new = Without(progs, id)
    PROVE  Evolves(new, progs, p, f) /\ Leaves(new, progs, id)
<1> DEFINE P == {i \in DOMAIN progs : progs[i].id # id}
<1>1. new = Pick(progs, P)
    BY Zenon DEF Without
<1>2. P \subseteq DOMAIN progs /\ \A i \in DOMAIN progs : i \in P <=> progs[i].id # id
    BY Zenon
<1> HIDE DEF P
<1>0. /\ Pick(progs, P) \in Seq(Attached)
      /\ \A k \in DOMAIN Pick(progs, P) : Nth(P, k) \in P /\ Pick(progs, P)[k] = progs[Nth(P, k)]
      /\ \A i \in P : \E k \in DOMAIN Pick(progs, P) : Nth(P, k) = i
      /\ \A k, l \in DOMAIN Pick(progs, P) : Nth(P, k) = Nth(P, l) => k = l
    BY <1>2, PickSpec
<1>3. /\ new \in Seq(Attached)
      /\ \A k \in DOMAIN new : Nth(P, k) \in P /\ new[k] = progs[Nth(P, k)]
      /\ \A i \in P : \E k \in DOMAIN new : Nth(P, k) = i
      /\ \A k, l \in DOMAIN new : Nth(P, k) = Nth(P, l) => k = l
    BY <1>0, <1>1, Zenon
<1>4. Unique(new)
  <2>1. ASSUME NEW k \in DOMAIN new, NEW l \in DOMAIN new, new[k].id = new[l].id
        PROVE  k = l
    <3>1. /\ Nth(P, k) \in DOMAIN progs /\ Nth(P, l) \in DOMAIN progs
          /\ progs[Nth(P, k)].id = progs[Nth(P, l)].id
      BY <1>2, <1>3, <2>1, Zenon
    <3>2. Nth(P, k) = Nth(P, l)
      BY <3>1, Zenon DEF Unique
    <3> QED BY <1>3, <3>2, Zenon
  <2> QED BY <2>1, Zenon DEF Unique
<1>5. \A k \in DOMAIN new : \E j \in DOMAIN progs : new[k] = progs[j]
    BY <1>2, <1>3, Zenon
<1>6. ASSUME NEW j \in DOMAIN progs, progs[j].id # id
      PROVE  \E i \in DOMAIN new : new[i] = progs[j]
  <2>1. PICK k \in DOMAIN new : Nth(P, k) = j
    BY <1>2, <1>3, <1>6, Zenon
  <2> QED BY <1>3, <2>1, Zenon
<1>7. Evolves(new, progs, p, f)
    BY <1>3, <1>4, <1>5, Zenon DEF Evolves
<1> QED BY <1>6, <1>7, Zenon DEF Leaves

-----------------------------------------------------------------------------
(* How the pairs and the guards of a plan survive a kernel call.             *)

LEMMA PairKept ==
    ASSUME NEW progs, NEW new, NEW p \in Program, NEW f \in Nat, Evolves(new, progs, p, f),
           NEW step, NEW r, PairOK(step, progs, r), step.old # f
    PROVE  PairOK(step, new, r)
<1>1. Object(p, f).id = f
    BY Objects, Zenon
<1>2. ASSUME NEW i \in DOMAIN new, new[i].id = step.old
      PROVE  new[i].original = step.new.original
  <2>1. new[i] # Object(p, f)
    BY <1>1, <1>2, Zenon
  <2>2. PICK j \in DOMAIN progs : new[i] = progs[j]
    BY <2>1, Zenon DEF Evolves
  <2> QED BY <1>2, <2>2, Zenon DEF PairOK
<1> QED BY <1>2, Zenon DEF PairOK

LEMMA PlainKept ==
    ASSUME NEW progs, NEW new, NEW p \in Program, NEW f \in Nat, Evolves(new, progs, p, f),
           Plain(p), \A i \in DOMAIN progs : Plain(progs[i])
    PROVE  \A i \in DOMAIN new : Plain(new[i])
BY Objects, Zenon DEF Evolves

\* A guarded program stays guarded by a step that is not the swap that guards it.
LEMMA GuardStays ==
    ASSUME NEW G, NEW progs, NEW new, NEW plan, NEW from \in Nat, NEW w, NEW i,
           Guarded(G, progs, plan, from, w), new[i] = progs[w],
           Len(plan) \in Nat,
           plan[from].kind = "pair" => plan[from].new \notin G
    PROVE  Guarded(G, new, plan, from + 1, i)
<1>1. Content(new[i]) \in G
    BY Zenon DEF Guarded
<1>2. ASSUME NEW j \in from + 1 .. Len(plan), plan[j].kind = "detach", plan[j].old = new[i].id
      PROVE  \E k \in from + 1 .. j - 1 : plan[k].kind = "pair" /\ plan[k].new \in G
  <2>1. j \in from .. Len(plan) /\ j \in Int
    OBVIOUS
  <2>2. PICK k \in from .. j - 1 : plan[k].kind = "pair" /\ plan[k].new \in G
    BY <1>2, <2>1, Zenon DEF Guarded
  <2>3. k # from
    BY <2>2, Zenon
  <2>4. k \in from + 1 .. j - 1
    BY <2>1, <2>3
  <2> QED BY <2>2, <2>4, Zenon
<1> QED BY <1>1, <1>2, Zenon DEF Guarded

\* A program that the plan does not name is guarded, and every one is once the
\* plan is given up.
LEMMA GuardFresh ==
    ASSUME NEW G, NEW new, NEW plan \in Seq(PlanStep), NEW from \in Nat \ {0}, NEW i,
           Content(new[i]) \in G, new[i].id \notin Olds(plan)
    PROVE  Guarded(G, new, plan, from, i)
<1>1. ASSUME NEW j \in from .. Len(plan), plan[j].kind = "detach"
      PROVE  plan[j].old # new[i].id
  <2>1. j \in DOMAIN plan
    OBVIOUS
  <2> QED BY <1>1, <2>1, Zenon DEF Olds
<1> QED BY <1>1, Zenon DEF Guarded

LEMMA GuardOver ==
    ASSUME NEW G, NEW new, NEW i, Content(new[i]) \in G
    PROVE  Guarded(G, new, <<>>, 1, i)
<1>1. 1 .. Len(<<>>) = {}
    OBVIOUS
<1> QED BY <1>1, Zenon DEF Guarded

\* A swap puts a program of G in the place of a program of G.
LEMMA SwapKeeps ==
    ASSUME NEW G, NEW r, Rewraps(G, r), NEW progs, NEW w \in DOMAIN progs,
           progs[w] \in Attached, NEW step, step.new \in Program,
           Content(progs[w]) \in G, PairOK(step, progs, r), step.old = progs[w].id
    PROVE  step.new \in G
<1>1. PICK n \in Nat : Desired(step.new, step.new.original, n, r)
    BY Zenon DEF PairOK
<1>2. step.new.original = progs[w].original
    BY Zenon DEF PairOK
<1>3. Content(progs[w]).original = progs[w].original
    BY Zenon DEF Content
<1>4. Wrapper(Content(progs[w]).original, n, r) \in G
    BY Zenon DEF Rewraps
<1> QED BY <1>1, <1>2, <1>3, <1>4, Zenon DEF Desired

-----------------------------------------------------------------------------
(* A program of G stays attached through each call of a pass.                *)

LEMMA HoldsOver ==
    ASSUME NEW G, NEW progs, NEW plan, NEW from, NEW swapping,
           HoldsIn(G, progs, plan, from, swapping)
    PROVE  HoldsIn(G, progs, <<>>, 1, FALSE)
<1>1. PICK w \in DOMAIN progs : Guarded(G, progs, plan, from, w)
    BY Zenon DEF HoldsIn
<1>2. Content(progs[w]) \in G
    BY <1>1, Zenon DEF Guarded
<1>3. Guarded(G, progs, <<>>, 1, w)
    BY <1>2, GuardOver, Zenon
<1> QED BY <1>3, Zenon DEF HoldsIn

LEMMA HoldsMore ==
    ASSUME NEW G, NEW progs, NEW plan, NEW from, NEW now, NEW then, then => now,
           HoldsIn(G, progs, plan, from, now)
    PROVE  HoldsIn(G, progs, plan, from, then)
BY Zenon DEF HoldsIn

LEMMA HoldsAttach ==
    ASSUME NEW G, NEW progs \in Seq(Attached), Unique(progs), NEW plan \in Seq(PlanStep),
           NEW from \in DOMAIN plan, plan[from].kind = "attach",
           HoldsIn(G, progs, plan, from, FALSE),
           NEW p \in Program, NEW f \in Nat, \A i \in DOMAIN progs : progs[i].id # f,
           NEW new, new = Append(progs, Object(p, f))
    PROVE  HoldsIn(G, new, plan, from + 1, FALSE)
<1>1. PICK w \in DOMAIN progs : Guarded(G, progs, plan, from, w)
    BY Zenon DEF HoldsIn
<1>2. w \in DOMAIN new /\ new[w] = progs[w]
  <2>1. Extends(new, progs, Object(p, f))
    BY Appended, Zenon
  <2> QED BY <2>1, Zenon DEF Extends
<1>3. from \in Nat /\ Len(plan) \in Nat
    OBVIOUS
<1>4. Guarded(G, new, plan, from + 1, w)
    BY <1>1, <1>2, <1>3, GuardStays, Zenon
<1> QED BY <1>2, <1>4, Zenon DEF HoldsIn

LEMMA HoldsDetach ==
    ASSUME NEW G, NEW progs \in Seq(Attached), Unique(progs), NEW plan \in Seq(PlanStep),
           NEW from \in DOMAIN plan, plan[from].kind = "detach",
           HoldsIn(G, progs, plan, from, FALSE),
           NEW new, new = Without(progs, plan[from].old)
    PROVE  HoldsIn(G, new, plan, from + 1, FALSE)
<1>1. PICK w \in DOMAIN progs : Guarded(G, progs, plan, from, w)
    BY Zenon DEF HoldsIn
<1>2. from \in Nat /\ Len(plan) \in Nat /\ from \in from .. Len(plan) /\ from .. from - 1 = {}
    OBVIOUS
<1>3. progs[w].id # plan[from].old
    BY <1>1, <1>2, Zenon DEF Guarded
<1>4. PICK i \in DOMAIN new : new[i] = progs[w]
  <2>1. Leaves(new, progs, plan[from].old)
    BY Detached, Zenon
  <2> QED BY <1>3, <2>1, Zenon DEF Leaves
<1>5. Guarded(G, new, plan, from + 1, i)
    BY <1>1, <1>2, <1>4, GuardStays, Zenon
<1> QED BY <1>5, Zenon DEF HoldsIn

LEMMA HoldsReplace ==
    ASSUME NEW G, NEW r, Rewraps(G, r),
           NEW progs \in Seq(Attached), Unique(progs), NEW plan \in Seq(PlanStep),
           NEW from \in DOMAIN plan, plan[from].kind = "pair", plan[from].new \in Program,
           PairOK(plan[from], progs, r),
           HoldsIn(G, progs, plan, from, FALSE),
           \E i \in DOMAIN progs : progs[i].id = plan[from].old,
           NEW f \in Nat, \A i \in DOMAIN progs : progs[i].id # f, f \notin Olds(plan),
           NEW new, new = Swapped(progs, plan[from].old, Object(plan[from].new, f))
    PROVE  HoldsIn(G, new, plan, from + 1, FALSE)
<1> DEFINE p == plan[from].new
           id == plan[from].old
<1>1. PICK w \in DOMAIN progs : Guarded(G, progs, plan, from, w)
    BY Zenon DEF HoldsIn
<1>2. from \in Nat /\ Len(plan) \in Nat /\ from + 1 \in Nat \ {0}
    OBVIOUS
<1>3. progs[w] \in Attached
    OBVIOUS
<1>4. /\ DOMAIN new = DOMAIN progs
      /\ \A i \in DOMAIN progs : /\ progs[i].id = id => new[i] = Object(p, f)
                                 /\ progs[i].id # id => new[i] = progs[i]
    BY Zenon DEF Swapped
<1>5. CASE p \in G
  <2>1. PICK i \in DOMAIN progs : progs[i].id = id
    BY Zenon
  <2>2. new[i] = Object(p, f)
    BY <1>4, <2>1, Zenon
  <2>3. Content(new[i]) = p /\ new[i].id = f
    <3> HIDE DEF p
    <3>1. p \in Program
      BY Zenon DEF p
    <3>2. Content(Object(p, f)) = p /\ Object(p, f).id = f
      BY <3>1, Objects, Zenon
    <3> QED BY <2>2, <3>2, Zenon
  <2>4. Content(new[i]) \in G /\ new[i].id \notin Olds(plan)
    BY <1>5, <2>3, Zenon
  <2>5. Guarded(G, new, plan, from + 1, i)
    BY <1>2, <2>4, GuardFresh, Zenon
  <2> QED BY <1>4, <2>5, Zenon DEF HoldsIn
<1>6. CASE p \notin G
  <2>1. Content(progs[w]) \in G
    BY <1>1, Zenon DEF Guarded
  <2>2. progs[w].id # id
    BY <1>3, <1>6, <2>1, SwapKeeps, Zenon
  <2>3. new[w] = progs[w]
    BY <1>4, <2>2, Zenon
  <2>4. Guarded(G, new, plan, from + 1, w)
    BY <1>1, <1>2, <1>6, <2>3, GuardStays, Zenon
  <2> QED BY <1>4, <2>4, Zenon DEF HoldsIn
<1> QED BY <1>5, <1>6, Zenon

LEMMA HoldsAdd ==
    ASSUME NEW G, NEW progs \in Seq(Attached), Unique(progs), NEW plan, NEW from,
           HoldsIn(G, progs, plan, from, FALSE),
           NEW p \in Program, NEW f \in Nat, \A i \in DOMAIN progs : progs[i].id # f,
           NEW new, new = Append(progs, Object(p, f))
    PROVE  HoldsIn(G, new, plan, from, TRUE)
<1>1. PICK w \in DOMAIN progs : Guarded(G, progs, plan, from, w)
    BY Zenon DEF HoldsIn
<1>2. w \in DOMAIN new /\ new[w] = progs[w] /\ w # Len(new)
  <2>1. Extends(new, progs, Object(p, f))
    BY Appended, Zenon
  <2> QED BY <2>1, Zenon DEF Extends
<1>3. Guarded(G, new, plan, from, w)
    BY <1>1, <1>2, Zenon DEF Guarded
<1> QED BY <1>2, <1>3, Zenon DEF HoldsIn

LEMMA HoldsSwap ==
    ASSUME NEW G, NEW r, Rewraps(G, r),
           NEW progs \in Seq(Attached), Unique(progs), NEW plan \in Seq(PlanStep),
           NEW from \in DOMAIN plan, plan[from].kind = "pair", plan[from].new \in Program,
           plan[from].old \in Olds(plan), PairOK(plan[from], progs, r),
           HoldsIn(G, progs, plan, from, TRUE),
           Len(progs) \in DOMAIN progs, Content(progs[Len(progs)]) = plan[from].new,
           progs[Len(progs)].id \notin Olds(plan),
           NEW new, new = Without(progs, plan[from].old)
    PROVE  HoldsIn(G, new, plan, from + 1, FALSE)
<1> DEFINE p == plan[from].new
           id == plan[from].old
           last == Len(progs)
<1>1. PICK w \in DOMAIN progs : Guarded(G, progs, plan, from, w)
    BY Zenon DEF HoldsIn
<1>2. from \in Nat /\ Len(plan) \in Nat /\ from + 1 \in Nat \ {0}
    OBVIOUS
<1>3. progs[w] \in Attached
    OBVIOUS
<1>4. \A j \in DOMAIN progs : progs[j].id # id => \E i \in DOMAIN new : new[i] = progs[j]
  <2>1. Leaves(new, progs, id)
    BY Detached, Zenon
  <2> QED BY <2>1, Zenon DEF Leaves
<1>5. CASE p \in G
  <2>1. progs[last].id # id
    BY Zenon
  <2>2. PICK i \in DOMAIN new : new[i] = progs[last]
    BY <1>4, <2>1, Zenon
  <2>3. Content(new[i]) \in G /\ new[i].id \notin Olds(plan)
    BY <1>5, <2>2, Zenon
  <2>4. Guarded(G, new, plan, from + 1, i)
    BY <1>2, <2>3, GuardFresh, Zenon
  <2> QED BY <2>4, Zenon DEF HoldsIn
<1>6. CASE p \notin G
  <2>1. Content(progs[w]) \in G
    BY <1>1, Zenon DEF Guarded
  <2>2. progs[w].id # id
    BY <1>3, <1>6, <2>1, SwapKeeps, Zenon
  <2>3. PICK i \in DOMAIN new : new[i] = progs[w]
    BY <1>4, <2>2, Zenon
  <2>4. Guarded(G, new, plan, from + 1, i)
    BY <1>1, <1>2, <1>6, <2>3, GuardStays, Zenon
  <2> QED BY <2>4, Zenon DEF HoldsIn
<1> QED BY <1>5, <1>6, Zenon

LEMMA HoldsRollback ==
    ASSUME NEW G, NEW progs \in Seq(Attached), Unique(progs), NEW plan, NEW from,
           HoldsIn(G, progs, plan, from, TRUE), Len(progs) \in DOMAIN progs,
           NEW id, id = progs[Len(progs)].id,
           NEW new, new = Without(progs, id)
    PROVE  HoldsIn(G, new, <<>>, 1, FALSE)
<1>1. PICK w \in DOMAIN progs : Guarded(G, progs, plan, from, w) /\ w # Len(progs)
    BY Zenon DEF HoldsIn
<1>2. progs[w].id # id
    BY <1>1, Zenon DEF Unique
<1>3. PICK i \in DOMAIN new : new[i] = progs[w]
  <2>1. Leaves(new, progs, id)
    BY Detached, Zenon
  <2> QED BY <1>2, <2>1, Zenon DEF Leaves
<1>4. Content(new[i]) \in G
    BY <1>1, <1>3, Zenon DEF Guarded
<1>5. Guarded(G, new, <<>>, 1, i)
    BY <1>4, GuardOver, Zenon
<1> QED BY <1>5, Zenon DEF HoldsIn

-----------------------------------------------------------------------------
(* The invariant, step by step.                                              *)

Safety == ProgramsOK /\ StepsOK /\ Added /\ Wiped /\ KeepsRuntime /\ KeepsDenials

LEMMA StepFields ==
    ASSUME steps \in Seq(PlanStep), NEW j \in DOMAIN steps
    PROVE  /\ steps[j] \in PlanStep
           /\ steps[j].kind \in {"attach", "detach", "pair"}
           /\ steps[j].kind # "detach" => steps[j].new \in Program
           /\ steps[j].kind # "attach" => steps[j].old \in Nat /\ steps[j].old \in Olds(steps)
<1>1. steps[j] \in PlanStep
    OBVIOUS
<1>2. /\ steps[j].kind \in {"attach", "detach", "pair"}
      /\ steps[j].kind # "detach" => steps[j].new \in Program
      /\ steps[j].kind # "attach" => steps[j].old \in Nat
    BY <1>1, Zenon DEF PlanStep
<1>3. steps[j].kind # "attach" => steps[j].old \in Olds(steps)
    BY Zenon DEF Olds
<1> QED BY <1>1, <1>2, <1>3, Zenon

\* The sets of programs that the properties are about are closed under the
\* wrapping that a pass does.
LEMMA Closed ==
    ASSUME NEW r \in SUBSET Devices
    PROVE  /\ \A o \in Originals : Of(o) \in SUBSET Program /\ Rewraps(Of(o), r)
           /\ \A d \in Devices : d \notin r =>
                Denying(d) \in SUBSET Program /\ Rewraps(Denying(d), r)
<1>1. \A o \in Originals, n \in Nat : /\ Wrapper(o, n, r) \in Program
                                      /\ Wrapper(o, n, r).original = o
                                      /\ Wrapper(o, n, r).rules = r
    BY Zenon DEF Wrapper, Program
<1>2. \A c \in Program : c.original \in Originals
    BY Zenon DEF Program
<1>3. \A o \in Originals : Of(o) \in SUBSET Program /\ Rewraps(Of(o), r)
    BY <1>1, <1>2, Zenon DEF Of, Rewraps
<1>4. ASSUME NEW d \in Devices, d \notin r
      PROVE  Denying(d) \in SUBSET Program /\ Rewraps(Denying(d), r)
  <2>1. ASSUME NEW c \in Denying(d), NEW n \in Nat
        PROVE  Wrapper(c.original, n, r) \in Denying(d)
    <3>1. c \in Program /\ d \notin Allows[c.original]
      BY Zenon DEF Denying
    <3>2. /\ Wrapper(c.original, n, r) \in Program
          /\ Wrapper(c.original, n, r).original = c.original
          /\ Wrapper(c.original, n, r).rules = r
      BY <1>1, <1>2, <3>1, Zenon
    <3> QED BY <1>4, <3>1, <3>2, Zenon DEF Denying
  <2>2. Denying(d) \in SUBSET Program
    BY Zenon DEF Denying
  <2> QED BY <2>1, <2>2, Zenon DEF Rewraps
<1> QED BY <1>3, <1>4, Zenon

LEMMA RuntimeOriginals ==
    ASSUME TypeOK
    PROVE  \A i \in DOMAIN runtime : runtime[i] \in Originals
<1>1. runtime \in Seq(Originals)
    BY RuntimeAssumption, Zenon DEF TypeOK
<1> QED BY <1>1

\* What holds for every set of programs that a pass keeps holds for the runtime's
\* programs and for the devices that are denied.
LEMMA KeepsBoth ==
    ASSUME TypeOK, Wiped, KeepsRuntime, KeepsDenials, pc # "idle",
           UNCHANGED <<rules, wipes, disturbed, before, runtime>>,
           ~disturbed => \A G \in SUBSET Program : Rewraps(G, rules) /\ Holds(G) => Holds(G)'
    PROVE  KeepsRuntime' /\ KeepsDenials'
<1>1. rules \in SUBSET Devices
    BY Zenon DEF TypeOK
<1>2. ASSUME wipes = 0, NEW i \in DOMAIN runtime PROVE Holds(Of(runtime[i]))'
  <2>1. ~disturbed /\ Holds(Of(runtime[i]))
    BY <1>2, Zenon DEF Wiped, KeepsRuntime
  <2>2. runtime[i] \in Originals
    BY RuntimeOriginals, Zenon
  <2> DEFINE o == runtime[i]
  <2>3. PICK x : x = Of(o)
    BY Zenon
  <2>4. x \in SUBSET Program /\ Rewraps(x, rules) /\ Holds(x)
    BY <1>1, <2>1, <2>2, <2>3, Closed, Zenon
  <2>5. Holds(x)'
    BY <2>1, <2>4, Zenon
  <2>6. Of(runtime[i])' = x
    BY <2>3, Zenon DEF Of
  <2> QED BY <2>5, <2>6, Zenon DEF Holds
<1>3. ASSUME NEW d \in Devices \ (before \cup rules), ~disturbed PROVE Holds(Denying(d))'
  <2>1. d \in Devices /\ d \notin rules /\ Holds(Denying(d))
    BY <1>3, Zenon DEF KeepsDenials
  <2>2. Denying(d) \in SUBSET Program /\ Rewraps(Denying(d), rules)
    BY <1>1, <2>1, Closed, Zenon
  <2> QED BY <1>3, <2>1, <2>2, Zenon
<1>4. KeepsRuntime'
    BY <1>2, Zenon DEF KeepsRuntime
<1>5. KeepsDenials'
    BY <1>3, Zenon DEF KeepsDenials
<1> QED BY <1>4, <1>5, Zenon

\* Every way to end a pass without touching a program.
LEMMA Ends ==
    ASSUME IInv, UNCHANGED <<attached, wipes, disturbed, before, runtime>>,
           pc' = "idle", steps' = <<>>, at' = 1
    PROVE  Safety'
<1>1. ProgramsOK'
    BY Zenon DEF IInv, ProgramsOK
<1>2. StepsOK'
  <2>1. DOMAIN steps' = {} /\ at' .. Len(steps') = {}
    OBVIOUS
  <2> QED BY <2>1, Zenon DEF StepsOK
<1>3. ~Swapping'
    BY Zenon DEF Swapping
<1>4. Added' /\ Wiped' /\ KeepsDenials'
    BY <1>3, Zenon DEF Added, IInv, Wiped, KeepsDenials
<1>5. ASSUME NEW G, Holds(G) PROVE Holds(G)'
  <2>1. HoldsIn(G, attached, <<>>, 1, FALSE)
    BY <1>5, HoldsOver, Zenon DEF Holds
  <2>2. HoldsIn(G, attached', steps', at', FALSE)
    BY <2>1, Zenon
  <2> QED BY <1>3, <2>2, Zenon DEF Holds, HoldsIn
<1>6. KeepsRuntime'
  <2> SUFFICES ASSUME wipes = 0, NEW i \in DOMAIN runtime PROVE Holds(Of(runtime[i]))'
    BY Zenon DEF KeepsRuntime
  <2>1. Holds(Of(runtime[i]))
    BY Zenon DEF KeepsRuntime, IInv
  <2>2. PICK x : x = Of(runtime[i])
    BY Zenon
  <2>3. Holds(x)'
    BY <1>5, <2>1, <2>2, Zenon
  <2>4. Of(runtime[i])' = x
    BY <2>2, Zenon DEF Of
  <2> QED BY <2>3, <2>4, Zenon DEF Holds
<1> QED BY <1>1, <1>2, <1>4, <1>6, Zenon DEF Safety

\* Steps that neither touch a program nor move on in the plan.
LEMMA Pauses ==
    ASSUME IInv, UNCHANGED <<attached, rules, steps, at, wipes, disturbed, before, runtime>>,
           pc # "idle", pc' # "idle", Swapping' <=> Swapping
    PROVE  Safety'
<1>1. ProgramsOK' /\ StepsOK' /\ Wiped'
    BY Zenon DEF IInv, ProgramsOK, StepsOK, Wiped
<1>2. Added'
    BY Zenon DEF IInv, Added
<1>3. \A G : Holds(G) => Holds(G)'
    BY Zenon DEF Holds, HoldsIn
<1>4. KeepsRuntime' /\ KeepsDenials'
    BY <1>3, KeepsBoth, Zenon DEF IInv
<1> QED BY <1>1, <1>2, <1>4, Zenon DEF Safety

\* Steps that change the attached programs and go on with the plan.
LEMMA Evolve ==
    ASSUME IInv, NEW p \in Program, Plain(p), Evolves(attached', attached, p, FreshId),
           UNCHANGED <<rules, steps, wipes, disturbed, before>>,
           at' \in {at, at + 1}, pc # "idle", pc' # "idle"
    PROVE  ProgramsOK' /\ StepsOK' /\ Wiped'
<1>0. /\ attached \in Seq(Attached) /\ steps \in Seq(PlanStep)
      /\ at \in 1 .. Len(steps) + 1
    BY Zenon DEF IInv, TypeOK
<1>1. FreshId \in Nat /\ FreshId \notin Olds(steps)
    BY <1>0, FreshIsNew, Zenon
<1>2. ProgramsOK'
  <2>1. Unique(attached')
    BY Zenon DEF Evolves
  <2>2. \A i \in DOMAIN attached : Plain(attached[i])
    BY Zenon DEF IInv, ProgramsOK
  <2>3. \A i \in DOMAIN attached' : Plain(attached'[i])
    BY <1>1, <2>2, PlainKept, Zenon
  <2> QED BY <2>1, <2>3, Zenon DEF ProgramsOK
<1>3. ASSUME NEW j \in at' .. Len(steps), steps[j].kind = "pair"
      PROVE  PairOK(steps[j], attached', rules)
  <2>1. j \in at .. Len(steps) /\ j \in DOMAIN steps
    BY <1>0
  <2>2. PairOK(steps[j], attached, rules)
    BY <1>3, <2>1, Zenon DEF IInv, StepsOK
  <2>3. steps[j].old # FreshId
    <3>1. steps[j].old \in Olds(steps)
      BY <1>3, <2>1, Zenon DEF Olds
    <3> QED BY <1>1, <3>1, Zenon
  <2>4. \A step : PairOK(step, attached, rules) /\ step.old # FreshId => PairOK(step, attached', rules)
    BY <1>1, PairKept, Zenon
  <2> QED BY <2>2, <2>3, <2>4, Zenon
<1>4. StepsOK'
    BY <1>3, Zenon DEF IInv, StepsOK
<1>5. Wiped'
    BY Zenon DEF IInv, Wiped
<1> QED BY <1>2, <1>4, <1>5, Zenon

\* What the current step of the plan is.
LEMMA AtStep ==
    ASSUME IInv, NEW kind, Step(kind)
    PROVE  /\ attached \in Seq(Attached) /\ steps \in Seq(PlanStep) /\ Unique(attached)
           /\ at \in DOMAIN steps /\ at \in Nat /\ at + 1 \in 1 .. Len(steps) + 1
           /\ pc = "step" /\ ~Swapping /\ steps[at].kind = kind
           /\ kind # "detach" => steps[at].new \in Program /\ Plain(steps[at].new)
           /\ kind # "attach" => steps[at].old \in Nat /\ steps[at].old \in Olds(steps)
           /\ kind = "pair" => PairOK(steps[at], attached, rules)
<1>0. /\ attached \in Seq(Attached) /\ steps \in Seq(PlanStep) /\ Unique(attached)
      /\ at \in 1 .. Len(steps) + 1 /\ at <= Len(steps) /\ pc = "step" /\ steps[at].kind = kind
    BY Zenon DEF IInv, TypeOK, ProgramsOK, Step
<1>1. /\ at \in DOMAIN steps /\ at \in Nat /\ at + 1 \in 1 .. Len(steps) + 1
      /\ at \in at .. Len(steps)
    BY <1>0
<1>2. ~Swapping
    BY <1>0, Zenon DEF Swapping
<1>3. /\ kind # "detach" => steps[at].new \in Program
      /\ kind # "attach" => steps[at].old \in Nat /\ steps[at].old \in Olds(steps)
    BY <1>0, <1>1, StepFields, Zenon
<1>4. /\ kind # "detach" => Plain(steps[at].new)
      /\ kind = "pair" => PairOK(steps[at], attached, rules)
    BY <1>0, <1>1, Zenon DEF IInv, StepsOK
<1> QED BY <1>0, <1>1, <1>2, <1>3, <1>4, Zenon

LEMMA AtPair ==
    ASSUME IInv, Step("pair")
    PROVE  /\ attached \in Seq(Attached) /\ steps \in Seq(PlanStep) /\ Unique(attached)
           /\ at \in DOMAIN steps /\ at + 1 \in 1 .. Len(steps) + 1
           /\ pc = "step" /\ ~Swapping /\ steps[at].kind = "pair"
           /\ steps[at].new \in Program /\ Plain(steps[at].new)
           /\ PairOK(steps[at], attached, rules)
<1>1. "pair" # "detach" /\ "pair" # "attach"
    OBVIOUS
<1> QED BY <1>1, AtStep, Zenon

LEMMA DetachIs ==
    ASSUME NEW id, Detach(id)
    PROVE  attached' = Without(attached, id)
BY Zenon DEF Detach, Select, Positions, Without

\* A step of the plan is done: nothing but the programs and the position changes.
LEMMA GoesOn ==
    ASSUME NextStep
    PROVE  /\ UNCHANGED <<rules, steps, wipes, disturbed, before, runtime>>
           /\ UNCHANGED <<replaces, cache, nonces, rebuilds, passes, failures, crashes>>
           /\ UNCHANGED <<intact, outcome, leftovers>>
           /\ at' = at + 1 /\ pc' = "step" /\ pc' # "idle" /\ ~Swapping'
<1>1. /\ UNCHANGED <<rules, steps, wipes, disturbed, before, runtime>>
      /\ UNCHANGED <<replaces, cache, nonces, rebuilds, passes, failures, crashes>>
      /\ UNCHANGED <<intact, outcome, leftovers>>
      /\ at' = at + 1 /\ pc' = "step"
    BY Zenon DEF NextStep, pass, bounds, history
<1>2. pc' # "idle" /\ ~Swapping'
    BY <1>1, Zenon DEF Swapping
<1> QED BY <1>1, <1>2, Zenon

LEMMA Unswapping ==
    ASSUME ~Swapping
    PROVE  Added /\ \A G : Holds(G) <=> HoldsIn(G, attached, steps, at, FALSE)
BY Zenon DEF Added, Holds, HoldsIn

LEMMA AttachNewKeeps ==
    ASSUME IInv, AttachNew
    PROVE  Safety'
<1> DEFINE p == steps[at].new
<1>1. Step("attach") /\ NextStep /\ attached' = Append(attached, Object(p, FreshId))
    BY Zenon DEF AttachNew, Attach
<1>2. /\ attached \in Seq(Attached) /\ steps \in Seq(PlanStep) /\ Unique(attached)
      /\ at \in DOMAIN steps /\ pc = "step" /\ ~Swapping /\ steps[at].kind = "attach"
      /\ p \in Program /\ Plain(p)
    BY <1>1, AtStep
<1>3. FreshId \in Nat /\ \A i \in DOMAIN attached : attached[i].id # FreshId
    BY <1>2, FreshIsNew, Zenon
<1>4. /\ UNCHANGED <<rules, steps, wipes, disturbed, before, runtime>>
      /\ at' = at + 1 /\ pc' # "idle" /\ ~Swapping'
    BY <1>1, GoesOn, Zenon
<1>5. pc # "idle"
    BY <1>2, Zenon
<1> HIDE DEF p
<1>6. Evolves(attached', attached, p, FreshId)
    BY <1>1, <1>2, <1>3, Appended, Zenon
<1>7. ProgramsOK' /\ StepsOK' /\ Wiped'
    BY <1>2, <1>4, <1>5, <1>6, Evolve, Zenon
<1>8. ASSUME NEW G, Holds(G) PROVE Holds(G)'
  <2>1. HoldsIn(G, attached, steps, at, FALSE)
    BY <1>2, <1>8, Zenon DEF Holds, HoldsIn
  <2>2. HoldsIn(G, attached', steps, at + 1, FALSE)
    BY <1>1, <1>2, <1>3, <2>1, HoldsAttach, Zenon
  <2>3. HoldsIn(G, attached', steps', at', FALSE)
    BY <1>4, <2>2, Zenon
  <2> QED BY <1>4, <2>3, Zenon DEF Holds, HoldsIn
<1>9. KeepsRuntime' /\ KeepsDenials'
    BY <1>4, <1>5, <1>8, KeepsBoth, Zenon DEF IInv
<1>10. Added'
    BY <1>4, Zenon DEF Added
<1> QED BY <1>7, <1>9, <1>10, Zenon DEF Safety

LEMMA DetachOldKeeps ==
    ASSUME IInv, DetachOld
    PROVE  Safety'
<1> DEFINE id == steps[at].old
<1>1. Step("detach") /\ NextStep /\ IsAttached(id) /\ Detach(id)
    BY Zenon DEF DetachOld
<1>2. /\ attached \in Seq(Attached) /\ steps \in Seq(PlanStep) /\ Unique(attached)
      /\ at \in DOMAIN steps /\ pc = "step" /\ ~Swapping /\ steps[at].kind = "detach"
    BY <1>1, AtStep, Zenon
<1>3. attached' = Without(attached, id)
    BY <1>1, DetachIs, Zenon
<1>4. /\ UNCHANGED <<rules, steps, wipes, disturbed, before, runtime>>
      /\ at' = at + 1 /\ pc' # "idle" /\ ~Swapping'
    BY <1>1, GoesOn, Zenon
<1>5. pc # "idle"
    BY <1>2, Zenon
<1>6. PICK p \in Program : Plain(p)
  <2>1. PICK i \in DOMAIN attached : TRUE
    BY <1>1, Zenon DEF IsAttached
  <2>2. attached[i] \in Attached
    BY <1>2
  <2>3. Plain(attached[i])
    BY Zenon DEF IInv, ProgramsOK
  <2>4. Content(attached[i]) \in Program
    BY <2>2, Records, Zenon
  <2>5. Plain(Content(attached[i]))
    BY <2>3, Zenon DEF Plain, Content
  <2> QED BY <2>4, <2>5, Zenon
<1> HIDE DEF id
<1>7. Evolves(attached', attached, p, FreshId)
    BY <1>2, <1>3, Detached, Zenon
<1>8. ProgramsOK' /\ StepsOK' /\ Wiped'
    BY <1>4, <1>5, <1>6, <1>7, Evolve, Zenon
<1>9. ASSUME NEW G, Holds(G) PROVE Holds(G)'
  <2>1. HoldsIn(G, attached, steps, at, FALSE)
    BY <1>2, <1>9, Zenon DEF Holds, HoldsIn
  <2>2. HoldsIn(G, attached', steps, at + 1, FALSE)
    BY <1>2, <1>3, <2>1, HoldsDetach, Zenon DEF id
  <2>3. HoldsIn(G, attached', steps', at', FALSE)
    BY <1>4, <2>2, Zenon
  <2> QED BY <1>4, <2>3, Zenon DEF Holds, HoldsIn
<1>10. KeepsRuntime' /\ KeepsDenials'
    BY <1>4, <1>5, <1>9, KeepsBoth, Zenon DEF IInv
<1>11. Added'
    BY <1>4, Zenon DEF Added
<1> QED BY <1>8, <1>10, <1>11, Zenon DEF Safety

LEMMA SwapReplaceKeeps ==
    ASSUME IInv, SwapReplace
    PROVE  Safety'
<1> DEFINE p == steps[at].new
           id == steps[at].old
<1>1. /\ Step("pair") /\ NextStep /\ IsAttached(id)
      /\ attached' = Swapped(attached, id, Object(p, FreshId))
    BY Zenon DEF SwapReplace, Replace, Swapped
<1>2. /\ attached \in Seq(Attached) /\ steps \in Seq(PlanStep) /\ Unique(attached)
      /\ at \in DOMAIN steps /\ pc = "step" /\ ~Swapping /\ steps[at].kind = "pair"
      /\ p \in Program /\ Plain(p) /\ PairOK(steps[at], attached, rules)
    BY <1>1, AtPair, Zenon
<1>3. FreshId \in Nat /\ FreshId \notin Olds(steps)
      /\ \A i \in DOMAIN attached : attached[i].id # FreshId
    BY <1>2, FreshIsNew, Zenon
<1>4. /\ UNCHANGED <<rules, steps, wipes, disturbed, before, runtime>>
      /\ at' = at + 1 /\ pc' # "idle" /\ ~Swapping'
    BY <1>1, GoesOn, Zenon
<1>5. pc # "idle"
    BY <1>2, Zenon
<1>6. \E i \in DOMAIN attached : attached[i].id = id
    BY <1>1, Zenon DEF IsAttached
<1> HIDE DEF p, id
<1>7. Evolves(attached', attached, p, FreshId)
    BY <1>1, <1>2, <1>3, Replaced, Zenon
<1>8. ProgramsOK' /\ StepsOK' /\ Wiped'
    BY <1>2, <1>4, <1>5, <1>7, Evolve, Zenon
<1>9. ASSUME NEW G, Rewraps(G, rules), Holds(G) PROVE Holds(G)'
  <2>1. HoldsIn(G, attached, steps, at, FALSE)
    BY <1>2, <1>9, Zenon DEF Holds, HoldsIn
  <2>2. HoldsIn(G, attached', steps, at + 1, FALSE)
    BY <1>1, <1>2, <1>3, <1>6, <1>9, <2>1, HoldsReplace, Zenon DEF id, p
  <2>3. HoldsIn(G, attached', steps', at', FALSE)
    BY <1>4, <2>2, Zenon
  <2> QED BY <1>4, <2>3, Zenon DEF Holds, HoldsIn
<1>10. KeepsRuntime' /\ KeepsDenials'
    BY <1>4, <1>5, <1>9, KeepsBoth, Zenon DEF IInv
<1>11. Added'
    BY <1>4, Zenon DEF Added
<1> QED BY <1>8, <1>10, <1>11, Zenon DEF Safety

LEMMA SwapAddKeeps ==
    ASSUME IInv, SwapAdd
    PROVE  Safety'
<1> DEFINE p == steps[at].new
<1>1. Step("pair") /\ attached' = Append(attached, Object(p, FreshId)) /\ pc' = "added"
    BY Zenon DEF SwapAdd, Attach
<1>2. /\ attached \in Seq(Attached) /\ steps \in Seq(PlanStep) /\ Unique(attached)
      /\ at \in DOMAIN steps /\ pc = "step" /\ ~Swapping /\ steps[at].kind = "pair"
      /\ p \in Program /\ Plain(p)
    BY <1>1, AtPair, Zenon
<1>3. FreshId \in Nat /\ FreshId \notin Olds(steps)
      /\ \A i \in DOMAIN attached : attached[i].id # FreshId
    BY <1>2, FreshIsNew, Zenon
<1>4. UNCHANGED <<rules, steps, wipes, disturbed, before, runtime, at>>
    BY Zenon DEF SwapAdd, pass, bounds, history
<1>5. pc # "idle" /\ pc' # "idle" /\ Swapping'
    BY <1>1, <1>2, Zenon DEF Swapping
<1> HIDE DEF p
<1>6. Evolves(attached', attached, p, FreshId) /\ Extends(attached', attached, Object(p, FreshId))
    BY <1>1, <1>2, <1>3, Appended, Zenon
<1>7. ProgramsOK' /\ StepsOK' /\ Wiped'
    BY <1>2, <1>4, <1>5, <1>6, Evolve, Zenon
<1>8. ASSUME NEW G, Holds(G) PROVE Holds(G)'
  <2>1. HoldsIn(G, attached, steps, at, FALSE)
    BY <1>2, <1>8, Zenon DEF Holds, HoldsIn
  <2>2. HoldsIn(G, attached', steps, at, TRUE)
    BY <1>1, <1>2, <1>3, <2>1, HoldsAdd, Zenon
  <2>3. HoldsIn(G, attached', steps', at', TRUE)
    BY <1>4, <2>2, Zenon
  <2> QED BY <2>3, Zenon DEF Holds, HoldsIn
<1>9. KeepsRuntime' /\ KeepsDenials'
    BY <1>4, <1>5, <1>8, KeepsBoth, Zenon DEF IInv
<1>10. Added'
  <2>1. Content(Object(p, FreshId)) = p /\ Object(p, FreshId).id = FreshId
    BY <1>2, <1>3, Objects, Zenon
  <2>2. /\ attached' # <<>> /\ Content(attached'[Len(attached')]) = p
        /\ attached'[Len(attached')].id \notin Olds(steps)
    BY <1>3, <1>6, <2>1, Zenon DEF Extends
  <2>3. /\ at' \in DOMAIN steps' /\ steps'[at'].kind = "pair"
        /\ attached' # <<>> /\ Content(attached'[Len(attached')]) = steps'[at'].new
        /\ attached'[Len(attached')].id \notin Olds(steps')
    BY <1>2, <1>4, <2>2, Zenon DEF p
  <2> QED BY <2>3, Zenon DEF Added
<1> QED BY <1>7, <1>9, <1>10, Zenon DEF Safety

LEMMA SwapDetachKeeps ==
    ASSUME IInv, SwapDetach
    PROVE  Safety'
<1> DEFINE id == steps[at].old
           p == steps[at].new
<1>1. pc = "added" /\ NextStep /\ IsAttached(id) /\ Detach(id)
    BY Zenon DEF SwapDetach
<1>2. Swapping
    BY <1>1, Zenon DEF Swapping
<1>3. /\ attached \in Seq(Attached) /\ steps \in Seq(PlanStep) /\ Unique(attached)
      /\ at \in DOMAIN steps /\ steps[at].kind = "pair"
    BY <1>2, Zenon DEF IInv, TypeOK, ProgramsOK, Added
<1>4. at \in at .. Len(steps)
    BY <1>3
<1>5. Plain(p) /\ PairOK(steps[at], attached, rules)
    BY <1>3, <1>4, Zenon DEF IInv, StepsOK
<1>6. p \in Program /\ id \in Olds(steps)
    BY <1>3, StepFields, Zenon
<1>7. attached' = Without(attached, id)
    BY <1>1, DetachIs, Zenon
<1>8. /\ UNCHANGED <<rules, steps, wipes, disturbed, before, runtime>>
      /\ at' = at + 1 /\ pc' # "idle" /\ ~Swapping'
    BY <1>1, GoesOn, Zenon
<1>9. pc # "idle"
    BY <1>1, Zenon
<1> HIDE DEF p, id
<1>10. Evolves(attached', attached, p, FreshId)
    BY <1>3, <1>7, Detached, Zenon
<1>11. ProgramsOK' /\ StepsOK' /\ Wiped'
    BY <1>5, <1>6, <1>8, <1>9, <1>10, Evolve, Zenon
<1>12. ASSUME ~disturbed, NEW G, Rewraps(G, rules), Holds(G) PROVE Holds(G)'
  <2>0. /\ attached # <<>> /\ Content(attached[Len(attached)]) = p
        /\ attached[Len(attached)].id \notin Olds(steps)
    BY <1>2, <1>12, Zenon DEF IInv, Added, p
  <2>1. HoldsIn(G, attached, steps, at, TRUE)
    BY <1>2, <1>12, Zenon DEF Holds, HoldsIn
  <2>2. Len(attached) \in DOMAIN attached
    BY <1>3, <2>0
  <2>3. HoldsIn(G, attached', steps, at + 1, FALSE)
    BY <1>3, <1>5, <1>6, <1>7, <1>12, <2>0, <2>1, <2>2, HoldsSwap, Zenon DEF id, p
  <2>4. HoldsIn(G, attached', steps', at', FALSE)
    BY <1>8, <2>3, Zenon
  <2> QED BY <1>8, <2>4, Zenon DEF Holds, HoldsIn
<1>13. KeepsRuntime' /\ KeepsDenials'
    BY <1>8, <1>9, <1>12, KeepsBoth, Zenon DEF IInv
<1>14. Added'
    BY <1>8, Zenon DEF Added
<1> QED BY <1>11, <1>13, <1>14, Zenon DEF Safety

LEMMA SwapRollbackKeeps ==
    ASSUME IInv, SwapRollback
    PROVE  Safety'
<1> DEFINE id == attached[Len(attached)].id
<1>1. /\ pc = "rollback" /\ attached # <<>> /\ Detach(id)
      /\ pc' = "idle" /\ steps' = <<>> /\ at' = 1
      /\ UNCHANGED <<wipes, disturbed, before, runtime>>
    BY Zenon DEF SwapRollback, Return, bounds, history
<1>2. Swapping /\ ~Swapping'
    BY <1>1, Zenon DEF Swapping
<1>3. attached \in Seq(Attached) /\ Unique(attached)
    BY Zenon DEF IInv, TypeOK, ProgramsOK
<1>4. attached' = Without(attached, id)
    BY <1>1, DetachIs, Zenon
<1>5. Len(attached) \in DOMAIN attached
    BY <1>1, <1>3
<1>6. PICK p : p = attached[1]
    BY Zenon
<1> HIDE DEF id
<1>7. Evolves(attached', attached, p, id)
    BY <1>3, <1>4, Detached, Zenon
<1>8. ProgramsOK'
  <2> DEFINE P == {i \in DOMAIN attached : attached[i].id # id}
  <2>1. attached' = Pick(attached, P) /\ P \subseteq DOMAIN attached
    BY <1>4, Zenon DEF Without
  <2> HIDE DEF P
  <2>2. \A k \in DOMAIN Pick(attached, P) : Nth(P, k) \in P /\ Pick(attached, P)[k] = attached[Nth(P, k)]
    BY <1>3, <2>1, PickSpec
  <2>3. \A i \in DOMAIN attached' : Plain(attached'[i])
    BY <2>1, <2>2, Zenon DEF IInv, ProgramsOK
  <2> QED BY <1>7, <2>3, Zenon DEF ProgramsOK, Evolves
<1>9. StepsOK'
  <2>1. DOMAIN steps' = {} /\ at' .. Len(steps') = {} /\ steps' = <<>>
    BY <1>1
  <2> QED BY <2>1, Zenon DEF StepsOK
<1>10. Added' /\ Wiped' /\ KeepsDenials'
    BY <1>1, <1>2, Zenon DEF Added, IInv, Wiped, KeepsDenials
<1>11. ASSUME NEW G, Holds(G) PROVE Holds(G)'
  <2>1. HoldsIn(G, attached, steps, at, TRUE)
    BY <1>2, <1>11, Zenon DEF Holds, HoldsIn
  <2>2. HoldsIn(G, attached', <<>>, 1, FALSE)
    BY <1>3, <1>4, <1>5, <2>1, HoldsRollback, Zenon DEF id
  <2>3. HoldsIn(G, attached', steps', at', FALSE)
    BY <1>1, <2>2, Zenon
  <2> QED BY <1>2, <2>3, Zenon DEF Holds, HoldsIn
<1>12. KeepsRuntime'
  <2> SUFFICES ASSUME wipes = 0, NEW i \in DOMAIN runtime PROVE Holds(Of(runtime[i]))'
    BY <1>1, Zenon DEF KeepsRuntime
  <2>1. Holds(Of(runtime[i]))
    BY Zenon DEF KeepsRuntime, IInv
  <2>2. PICK x : x = Of(runtime[i])
    BY Zenon
  <2>3. Holds(x)'
    BY <1>11, <2>1, <2>2, Zenon
  <2>4. Of(runtime[i])' = x
    BY <1>1, <2>2, Zenon DEF Of
  <2> QED BY <2>3, <2>4, Zenon DEF Holds
<1> QED BY <1>8, <1>9, <1>10, <1>12, Zenon DEF Safety

LEMMA WipeKeeps ==
    ASSUME IInv, Wipe
    PROVE  Safety'
<1>1. /\ wipes \in Nat /\ wipes' = wipes + 1 /\ attached' = <<>>
      /\ before' = Devices /\ disturbed' = TRUE
      /\ UNCHANGED <<steps, at, rules, pc>>
    BY Zenon DEF Wipe, IInv, TypeOK, pass
<1>2. wipes' # 0 /\ DOMAIN attached' = {}
    BY <1>1
<1>3. ProgramsOK'
    BY <1>2, Zenon DEF ProgramsOK, Unique
<1>4. ASSUME NEW j \in at .. Len(steps), steps[j].kind = "pair"
      PROVE  PairOK(steps[j], attached', rules)
    BY <1>2, <1>4, Zenon DEF IInv, StepsOK, PairOK
<1>5. StepsOK'
    BY <1>1, <1>4, Zenon DEF IInv, StepsOK
<1>6. Added'
    BY <1>1, Zenon DEF IInv, Added, Swapping
<1>7. Wiped' /\ KeepsRuntime' /\ KeepsDenials'
    BY <1>1, <1>2, Zenon DEF Wiped, KeepsRuntime, KeepsDenials
<1> QED BY <1>3, <1>5, <1>6, <1>7, Zenon DEF Safety

-----------------------------------------------------------------------------
(* The start of a pass.                                                      *)

\* The caller's programs and the plan of a pass that begins.
LEMMA CommitKeeps ==
    ASSUME IInv, pc = "idle", NEW r \in SUBSET Devices, NEW plan, PlanOK(plan, attached, r),
           NEW b, Commit(plan, r, b), UNCHANGED <<attached, wipes, runtime>>
    PROVE  Safety'
<1>1. /\ steps' = plan.steps /\ at' = 1 /\ rules' = r /\ pc' = "load"
      /\ before' = Effective(attached) /\ disturbed' = FALSE
    BY Zenon DEF Commit
<1>2. Sound(plan.steps, attached, r)
    BY Zenon DEF PlanOK
<1>3. ~Swapping' /\ pc' # "idle"
    BY <1>1, Zenon DEF Swapping
<1>4. ProgramsOK' /\ Added' /\ Wiped'
    BY <1>1, <1>3, Zenon DEF IInv, ProgramsOK, Added, Wiped
<1>5. StepsOK'
  <2>1. /\ plan.steps \in Seq(PlanStep)
        /\ \A j \in DOMAIN plan.steps :
              /\ plan.steps[j].kind = "pair" => PairOK(plan.steps[j], attached, r)
              /\ plan.steps[j].kind = "attach" => Plain(plan.steps[j].new)
    BY <1>2, Zenon DEF Sound
  <2>2. steps' \in Seq(PlanStep) /\ DOMAIN steps' = 1 .. Len(steps')
    BY <1>1, <2>1
  <2>3. \A j \in DOMAIN steps' :
           /\ steps'[j].kind = "pair" => PairOK(steps'[j], attached', rules')
           /\ steps'[j].kind = "attach" => Plain(steps'[j].new)
    BY <1>1, <2>1, Zenon
  <2>4. ASSUME NEW j \in DOMAIN steps', steps'[j].kind # "detach" PROVE Plain(steps'[j].new)
    <3>1. steps'[j] \in PlanStep
      BY <2>2
    <3>2. steps'[j].kind \in {"attach", "pair"} /\ steps'[j].new \in Program
      BY <2>4, <3>1, Zenon DEF PlanStep
    <3>3. CASE steps'[j].kind = "attach"
      BY <2>3, <3>3, Zenon
    <3>4. CASE steps'[j].kind = "pair"
      <4>1. PICK n \in Nat : Desired(steps'[j].new, steps'[j].new.original, n, rules')
        BY <2>3, <3>4, Zenon DEF PairOK
      <4> QED BY <4>1 DEF Desired, Wrapper, Plain
    <3> QED BY <3>2, <3>3, <3>4, Zenon
  <2> QED BY <1>1, <1>3, <2>2, <2>3, <2>4, Zenon DEF StepsOK
<1>6. ASSUME NEW G \in SUBSET Program, Rewraps(G, r), NEW i \in DOMAIN attached,
             Content(attached[i]) \in G
      PROVE  Holds(G)'
  <2>1. PICK w \in DOMAIN attached : Guarded(G, attached, plan.steps, 1, w)
    BY <1>2, <1>6, Zenon DEF Sound
  <2>2. HoldsIn(G, attached', steps', at', FALSE)
    BY <1>1, <2>1, Zenon DEF HoldsIn
  <2> QED BY <1>3, <2>2, Zenon DEF Holds, HoldsIn
<1>7. KeepsRuntime'
  <2> SUFFICES ASSUME wipes = 0, NEW i \in DOMAIN runtime PROVE Holds(Of(runtime[i]))'
    BY Zenon DEF KeepsRuntime
  <2>1. Holds(Of(runtime[i]))
    BY Zenon DEF KeepsRuntime, IInv
  <2>2. runtime[i] \in Originals
    BY RuntimeOriginals, Zenon DEF IInv
  <2>3. PICK x : x = Of(runtime[i])
    BY Zenon
  <2>4. x \in SUBSET Program /\ Rewraps(x, r)
    BY <2>2, <2>3, Closed, Zenon
  <2>5. PICK w \in DOMAIN attached : Content(attached[w]) \in x
    BY <2>1, <2>3, Zenon DEF Holds, HoldsIn, Guarded
  <2>6. Holds(x)'
    BY <1>6, <2>4, <2>5, Zenon
  <2>7. Of(runtime[i])' = x
    BY <2>3, Zenon DEF Of
  <2> QED BY <2>6, <2>7, Zenon DEF Holds
<1>8. KeepsDenials'
  <2> SUFFICES ASSUME NEW d \in Devices, d \notin Effective(attached), d \notin r
               PROVE  Holds(Denying(d))'
    BY <1>1, Zenon DEF KeepsDenials
  <2>1. PICK i \in DOMAIN attached : d \notin attached[i].rules \cup Allows[attached[i].original]
    BY Zenon DEF Effective
  <2>2. attached[i] \in Attached
    BY DEF IInv, TypeOK
  <2>3. Content(attached[i]) \in Denying(d)
    <3>1. /\ Content(attached[i]) \in Program
          /\ Content(attached[i]).rules = attached[i].rules
          /\ Content(attached[i]).original = attached[i].original
      BY <2>2, Zenon DEF Content, Attached, Program
    <3> QED BY <2>1, <3>1, Zenon DEF Denying
  <2>4. Denying(d) \in SUBSET Program /\ Rewraps(Denying(d), r)
    BY Closed, Zenon
  <2> QED BY <1>6, <2>3, <2>4, Zenon
<1> QED BY <1>4, <1>5, <1>7, <1>8, Zenon DEF Safety

\* The plan that set_rules commits to.
LEMMA SetRulesPlan ==
    ASSUME IInv, NEW r \in SUBSET Devices, SetRules(r)
    PROVE  \E plan : PlanOK(plan, attached, r) /\ Commit(plan, r, cache.rebuilding)
<1> DEFINE base == IF r = {} THEN PlanRestore(attached) ELSE PlanGrant(attached, r)
           lost == MissingLineages(cache.lineages, attached)
           plan == IF cache.rebuilding THEN AddRebuild(base, lost, r) ELSE base
<1>1. Commit(plan, r, cache.rebuilding)
    BY Zenon DEF SetRules
<1>2. /\ attached \in Seq(Attached) /\ Unique(attached) /\ nonces \in Nat
      /\ \A i \in DOMAIN attached : Plain(attached[i])
      /\ cache \in [lineages : Seq(CachedLineage), rebuilding : BOOLEAN]
    BY Zenon DEF IInv, TypeOK, ProgramsOK
<1>3. cache.lineages \in Seq(CachedLineage)
    BY <1>2, Zenon
<1>4. PlanOK(base, attached, r)
  <2>1. CASE r = {}
    BY <1>2, <2>1, RestoreSound, Zenon
  <2>2. CASE r # {}
    BY <1>2, <2>2, GrantSound, Zenon
  <2> QED BY <2>1, <2>2, Zenon
<1> HIDE DEF base
<1>5. lost \in Seq(CachedLineage)
    BY <1>3, MissingTyped, Zenon
<1> HIDE DEF lost
<1>6. PlanOK(AddRebuild(base, lost, r), attached, r)
    BY <1>4, <1>5, RebuildSound, Zenon
<1>7. PlanOK(plan, attached, r)
    BY <1>4, <1>6, Zenon
<1> QED BY <1>1, <1>7, Zenon

LEMMA RebuildPlan ==
    ASSUME IInv, NEW r \in SUBSET Devices, Rebuild(r)
    PROVE  \E plan : PlanOK(plan, attached, r) /\ Commit(plan, r, TRUE)
<1> DEFINE plan == AddRebuild(EmptyPlan, cache.lineages, r)
<1>1. Commit(plan, r, TRUE) /\ attached = <<>>
    BY Zenon DEF Rebuild
<1>2. nonces \in Nat /\ cache \in [lineages : Seq(CachedLineage), rebuilding : BOOLEAN]
    BY Zenon DEF IInv, TypeOK
<1>3. cache.lineages \in Seq(CachedLineage)
    BY <1>2, Zenon
<1>4. PlanOK(EmptyPlan, attached, r)
    BY <1>1, <1>2, EmptySound, Zenon
<1>5. PlanOK(plan, attached, r)
    BY <1>3, <1>4, RebuildSound, Zenon
<1> QED BY <1>1, <1>5, Zenon

-----------------------------------------------------------------------------
(* Types.                                                                    *)

\* The part of TypeOK that a kernel call and the end of a pass are about.
PassType ==
    /\ attached \in Seq(Attached)
    /\ steps \in Seq(PlanStep) /\ at \in 1 .. Len(steps) + 1
    /\ pc \in {"idle", "load", "step", "added", "rollback"}
    /\ outcome \in {"none", "ok", "error"}
    /\ rules \in SUBSET Devices /\ rebuilds \in BOOLEAN

ProcessType ==
    /\ cache \in [lineages : Seq(CachedLineage), rebuilding : BOOLEAN]
    /\ probe \in {"unknown", "supported", "unsupported"}
    /\ nonces \in Nat /\ replaces \in BOOLEAN

CountType ==
    passes \in Nat /\ failures \in Nat /\ wipes \in Nat /\ crashes \in Nat /\ leftovers \in Nat

HistoryType ==
    /\ runtime \in RuntimeFilters /\ before \in SUBSET Devices
    /\ disturbed \in BOOLEAN /\ intact \in BOOLEAN

LEMMA TypeParts == TypeOK <=> PassType /\ ProcessType /\ CountType /\ HistoryType
BY Zenon DEF TypeOK, PassType, ProcessType, CountType, HistoryType

LEMMA TypePartsPrime == TypeOK' <=> PassType' /\ ProcessType' /\ CountType' /\ HistoryType'
BY Zenon DEF TypeOK, PassType, ProcessType, CountType, HistoryType

LEMMA Returned ==
    ASSUME TypeOK, NEW result \in {"none", "ok", "error"}, Return(result), attached' \in Seq(Attached)
    PROVE  PassType' /\ pc' = "idle" /\ steps' = <<>> /\ at' = 1
<1>1. pc' = "idle" /\ outcome' = result /\ steps' = <<>> /\ at' = 1 /\ rebuilds' = FALSE /\ rules' = rules
    BY Zenon DEF Return
<1>2. <<>> \in Seq(PlanStep) /\ 1 \in 1 .. Len(<<>>) + 1
    OBVIOUS
<1>3. rules \in SUBSET Devices
    BY Zenon DEF TypeOK
<1> QED BY <1>1, <1>2, <1>3, Zenon DEF PassType

LEMMA Failed ==
    ASSUME TypeOK, Fails
    PROVE  failures' \in Nat
BY DEF TypeOK, Fails

LEMMA Frames ==
    ASSUME TypeOK
    PROVE  /\ UNCHANGED <<cache, probe, nonces, replaces>> => ProcessType'
           /\ UNCHANGED <<runtime, before, disturbed, intact>> => HistoryType'
<1>1. ProcessType /\ HistoryType
    BY TypeParts, Zenon
<1>2. UNCHANGED <<cache, probe, nonces, replaces>> => ProcessType'
    BY <1>1, Zenon DEF ProcessType
<1>3. UNCHANGED <<runtime, before, disturbed, intact>> => HistoryType'
    BY <1>1, Zenon DEF HistoryType
<1> QED BY <1>2, <1>3, Zenon

LEMMA Counts ==
    ASSUME TypeOK, failures' \in Nat,
           passes' \in {passes, passes + 1}, wipes' \in {wipes, wipes + 1},
           crashes' \in {crashes, crashes + 1}, leftovers' \in {leftovers, leftovers + 1}
    PROVE  CountType'
BY DEF TypeOK, CountType

LEMMA StepFailed ==
    ASSUME TypeOK, StepFails, failures' \in Nat, probe' = probe
    PROVE  /\ TypeOK' /\ pc' = "idle" /\ steps' = <<>> /\ at' = 1
           /\ UNCHANGED <<attached, wipes, disturbed, before, runtime>>
<1>1. /\ Return("error")
      /\ UNCHANGED <<attached, wipes, disturbed, before, runtime>>
      /\ UNCHANGED <<cache, probe, nonces, replaces>>
      /\ UNCHANGED <<runtime, before, disturbed, intact>>
      /\ UNCHANGED <<passes, wipes, crashes, leftovers>>
    BY Zenon DEF StepFails, kernel, history
<1>2. attached' \in Seq(Attached)
    BY <1>1, Zenon DEF TypeOK
<1>3. PassType' /\ pc' = "idle" /\ steps' = <<>> /\ at' = 1
    BY <1>1, <1>2, Returned, Zenon
<1>4. ProcessType' /\ HistoryType'
    BY <1>1, Frames, Zenon
<1>5. CountType'
    BY <1>1, Counts, Zenon
<1> QED BY <1>1, <1>3, <1>4, <1>5, TypePartsPrime, Zenon

LEMMA SteppedOn ==
    ASSUME TypeOK, NextStep, attached' \in Seq(Attached),
           probe' \in {"unknown", "supported", "unsupported"},
           at + 1 \in 1 .. Len(steps) + 1
    PROVE  TypeOK'
<1>1. /\ UNCHANGED <<rules, steps, wipes, disturbed, before, runtime>>
      /\ UNCHANGED <<replaces, cache, nonces, rebuilds, passes, failures, crashes>>
      /\ UNCHANGED <<intact, outcome, leftovers>>
      /\ at' = at + 1 /\ pc' = "step"
    BY GoesOn, Zenon
<1> QED BY <1>1, Zenon DEF TypeOK

LEMMA AttachType ==
    ASSUME attached \in Seq(Attached), Unique(attached), steps \in Seq(PlanStep),
           NEW p \in Program, Attach(p)
    PROVE  attached' \in Seq(Attached)
<1>1. FreshId \in Nat
    BY FreshIsNew, Zenon
<1>2. Object(p, FreshId) \in Attached
    BY <1>1, Objects, Zenon
<1>3. attached' = Append(attached, Object(p, FreshId))
    BY Zenon DEF Attach
<1> QED BY <1>2, <1>3

LEMMA DetachType ==
    ASSUME attached \in Seq(Attached), Unique(attached), NEW id, Detach(id)
    PROVE  attached' \in Seq(Attached)
<1>1. attached' = Without(attached, id)
    BY DetachIs, Zenon
<1> QED BY <1>1, Detached, Zenon DEF Evolves

-----------------------------------------------------------------------------
(* Every action keeps the invariant.                                         *)

LEMMA CommitTypes ==
    ASSUME TypeOK, NEW r \in SUBSET Devices, NEW plan, PlanOK(plan, attached, r),
           NEW b \in BOOLEAN, Commit(plan, r, b), passes' = passes + 1,
           UNCHANGED <<kernel, probe, failures, wipes, crashes, runtime, leftovers, intact>>
    PROVE  TypeOK'
<1>1. /\ cache' = [lineages |-> plan.lineages, rebuilding |-> b] /\ nonces' = plan.nonces
      /\ steps' = plan.steps /\ at' = 1 /\ rules' = r /\ rebuilds' = b /\ pc' = "load"
      /\ outcome' = "none" /\ before' = Effective(attached) /\ disturbed' = FALSE
    BY Zenon DEF Commit
<1>2. /\ UNCHANGED <<attached, replaces, probe, runtime, intact>>
      /\ UNCHANGED <<failures, wipes, crashes, leftovers>>
    BY Zenon DEF kernel
<1>3. /\ plan.steps \in Seq(PlanStep) /\ plan.lineages \in Seq(CachedLineage)
      /\ plan.nonces \in Nat
    BY Zenon DEF PlanOK, Sound
<1>4. 1 \in 1 .. Len(plan.steps) + 1
    BY <1>3
<1>5. attached \in Seq(Attached)
    BY Zenon DEF TypeOK
<1>6. PassType'
    BY <1>1, <1>2, <1>3, <1>4, <1>5, Zenon DEF PassType
<1>7. cache' \in [lineages : Seq(CachedLineage), rebuilding : BOOLEAN]
    BY <1>1, <1>3, Zenon
<1>8. ProcessType'
    BY <1>1, <1>2, <1>3, <1>7, Zenon DEF TypeOK, ProcessType
<1>9. HistoryType'
    BY <1>1, <1>2, Zenon DEF TypeOK, HistoryType, Effective
<1>10. CountType'
    BY <1>2 DEF TypeOK, CountType
<1> QED BY <1>6, <1>8, <1>9, <1>10, TypePartsPrime, Zenon

LEMMA StartKeeps ==
    ASSUME IInv, NEW r \in SUBSET Devices, SetRules(r) \/ Rebuild(r)
    PROVE  TypeOK' /\ Safety'
<1>1. /\ pc = "idle" /\ passes' = passes + 1 /\ TypeOK
      /\ UNCHANGED <<kernel, probe, failures, wipes, crashes, runtime, leftovers, intact>>
    BY Zenon DEF SetRules, Rebuild, StartPass, IInv
<1>2. UNCHANGED <<attached, wipes, runtime>>
    BY <1>1, Zenon DEF kernel
<1>3. PICK plan : PlanOK(plan, attached, r) /\ \E b \in BOOLEAN : Commit(plan, r, b)
  <2>1. CASE SetRules(r)
    <3>1. cache.rebuilding \in BOOLEAN
      BY <1>1, Zenon DEF TypeOK
    <3> QED BY <2>1, <3>1, SetRulesPlan, Zenon
  <2>2. CASE Rebuild(r)
    BY <2>2, RebuildPlan, Zenon
  <2> QED BY <2>1, <2>2, Zenon
<1>4. PICK b \in BOOLEAN : Commit(plan, r, b)
    BY <1>3, Zenon
<1>5. TypeOK'
    BY <1>1, <1>3, <1>4, CommitTypes, Zenon
<1>6. Safety'
    BY <1>1, <1>2, <1>3, <1>4, CommitKeeps, Zenon
<1> QED BY <1>5, <1>6, Zenon

\* The steps before and after the execution of a plan.
LEMMA PassKeeps ==
    ASSUME IInv, FilterMissing \/ Refused \/ Load \/ LoadFails \/ Done
    PROVE  TypeOK' /\ Safety'
<1>0. TypeOK /\ attached \in Seq(Attached) /\ failures \in Nat
    BY Zenon DEF IInv, TypeOK
<1>1. CASE Load
  <2>1. /\ UNCHANGED <<attached, rules, steps, at, wipes, disturbed, before, runtime>>
        /\ UNCHANGED <<cache, probe, nonces, replaces>>
        /\ UNCHANGED <<rebuilds, outcome, leftovers, intact, passes, failures, crashes>>
        /\ pc = "load" /\ pc' = "step"
    BY <1>1, Zenon DEF Load, kernel, process, pass, bounds, history
  <2>2. pc # "idle" /\ pc' # "idle" /\ (Swapping' <=> Swapping)
    BY <2>1, Zenon DEF Swapping
  <2>3. TypeOK'
    BY <1>0, <2>1, Zenon DEF TypeOK
  <2> QED BY <2>1, <2>2, <2>3, Pauses, Zenon
<1>2. CASE FilterMissing \/ Refused \/ LoadFails
  <2>1. /\ UNCHANGED <<attached, wipes, disturbed, before, runtime>>
        /\ UNCHANGED <<cache, probe, nonces, replaces>>
        /\ UNCHANGED <<runtime, before, disturbed, intact>>
        /\ UNCHANGED <<wipes, crashes, leftovers>>
        /\ Return("error")
    BY <1>2, Zenon DEF FilterMissing, Refused, LoadFails, kernel, process, history
  <2>2. passes' \in {passes, passes + 1}
    BY <1>2, Zenon DEF FilterMissing, Refused, LoadFails, StartPass
  <2>3. failures' \in Nat
    BY <1>0, <1>2, Failed, Zenon DEF FilterMissing, Refused, LoadFails
  <2>4. PassType' /\ pc' = "idle" /\ steps' = <<>> /\ at' = 1
    BY <1>0, <2>1, Returned, Zenon
  <2>5. ProcessType' /\ HistoryType'
    BY <1>0, <2>1, Frames, Zenon
  <2>6. CountType'
    BY <1>0, <2>1, <2>2, <2>3, Counts, Zenon
  <2>7. Safety'
    BY <2>1, <2>4, Ends, Zenon
  <2> QED BY <2>4, <2>5, <2>6, <2>7, TypePartsPrime, Zenon
<1>3. CASE Done
  <2>1. /\ UNCHANGED <<attached, wipes, disturbed, before, runtime>>
        /\ UNCHANGED <<probe, nonces, replaces>>
        /\ UNCHANGED <<runtime, before, disturbed, intact>>
        /\ UNCHANGED <<passes, failures, wipes, crashes, leftovers>>
        /\ Return("ok")
        /\ cache' = IF rebuilds THEN [cache EXCEPT !.rebuilding = FALSE] ELSE cache
    BY <1>3, Zenon DEF Done, kernel, bounds, history
  <2>2. PassType' /\ pc' = "idle" /\ steps' = <<>> /\ at' = 1
    BY <1>0, <2>1, Returned, Zenon
  <2>3. cache' \in [lineages : Seq(CachedLineage), rebuilding : BOOLEAN]
    <3>1. cache \in [lineages : Seq(CachedLineage), rebuilding : BOOLEAN]
      BY <1>0, Zenon DEF TypeOK
    <3> QED BY <2>1, <3>1, Zenon
  <2>4. ProcessType' /\ HistoryType'
    BY <1>0, <2>1, <2>3, Frames, Zenon DEF TypeOK, ProcessType
  <2>5. CountType'
    BY <1>0, <2>1, Counts, Zenon
  <2>6. Safety'
    BY <2>1, <2>2, Ends, Zenon
  <2> QED BY <2>2, <2>4, <2>5, <2>6, TypePartsPrime, Zenon
<1> QED BY <1>1, <1>2, <1>3, Zenon

\* The steps of a plan that attach or detach one program.
LEMMA PlanKeeps ==
    ASSUME IInv, AttachNew \/ DetachOld \/ CallFails
    PROVE  TypeOK' /\ Safety'
<1>0. TypeOK /\ attached \in Seq(Attached) /\ failures \in Nat /\ Unique(attached)
    BY Zenon DEF IInv, TypeOK, ProgramsOK
<1>1. CASE AttachNew
  <2>1. Step("attach") /\ NextStep /\ Attach(steps[at].new) /\ probe' = probe
    BY <1>1, Zenon DEF AttachNew
  <2>2. at + 1 \in 1 .. Len(steps) + 1 /\ steps[at].new \in Program /\ steps \in Seq(PlanStep)
    BY <2>1, AtStep
  <2>3. attached' \in Seq(Attached)
    BY <1>0, <2>1, <2>2, AttachType, Zenon
  <2>4. TypeOK'
    BY <1>0, <2>1, <2>2, <2>3, SteppedOn, Zenon DEF TypeOK
  <2> QED BY <1>1, <2>4, AttachNewKeeps, Zenon
<1>2. CASE DetachOld
  <2>1. Step("detach") /\ NextStep /\ Detach(steps[at].old) /\ probe' = probe
    BY <1>2, Zenon DEF DetachOld
  <2>2. at + 1 \in 1 .. Len(steps) + 1
    BY <2>1, AtStep, Zenon
  <2>3. attached' \in Seq(Attached)
    BY <1>0, <2>1, DetachType, Zenon
  <2>4. TypeOK'
    BY <1>0, <2>1, <2>2, <2>3, SteppedOn, Zenon DEF TypeOK
  <2> QED BY <1>2, <2>4, DetachOldKeeps, Zenon
<1>3. CASE CallFails
  <2>1. StepFails /\ probe' = probe /\ (Fails \/ failures' = failures)
    BY <1>3, Zenon DEF CallFails
  <2>2. failures' \in Nat
    BY <1>0, <2>1, Failed, Zenon
  <2> QED BY <1>0, <2>1, <2>2, StepFailed, Ends, Zenon
<1> QED BY <1>1, <1>2, <1>3, Zenon

LEMMA SwapKeepsAll ==
    ASSUME IInv, Swap
    PROVE  TypeOK' /\ Safety'
<1>0. /\ TypeOK /\ attached \in Seq(Attached) /\ failures \in Nat /\ Unique(attached)
      /\ steps \in Seq(PlanStep) /\ probe \in {"unknown", "supported", "unsupported"}
    BY Zenon DEF IInv, TypeOK, ProgramsOK
<1>1. CASE SwapReplace
  <2> DEFINE p == steps[at].new
             id == steps[at].old
  <2>1. /\ Step("pair") /\ NextStep /\ probe' = "supported"
        /\ attached' = Swapped(attached, id, Object(p, FreshId))
    BY <1>1, Zenon DEF SwapReplace, Replace, Swapped
  <2>2. at + 1 \in 1 .. Len(steps) + 1 /\ p \in Program
    BY <2>1, AtPair, Zenon
  <2>3. FreshId \in Nat /\ \A i \in DOMAIN attached : attached[i].id # FreshId
    BY <1>0, FreshIsNew, Zenon
  <2> HIDE DEF p, id
  <2>4. Evolves(attached', attached, p, FreshId)
    BY <1>0, <2>1, <2>2, <2>3, Replaced, Zenon
  <2>5. attached' \in Seq(Attached)
    BY <2>4, Zenon DEF Evolves
  <2>6. TypeOK'
    BY <1>0, <2>1, <2>2, <2>5, SteppedOn, Zenon
  <2> QED BY <1>1, <2>6, SwapReplaceKeeps, Zenon
<1>2. CASE SwapReplaceFails \/ SwapAddFails
  <2>1. StepFails /\ probe' = probe /\ (Fails \/ failures' = failures)
    BY <1>2, Zenon DEF SwapReplaceFails, SwapAddFails
  <2>2. failures' \in Nat
    BY <1>0, <2>1, Failed, Zenon
  <2> QED BY <1>0, <2>1, <2>2, StepFailed, Ends, Zenon
<1>3. CASE SwapUnsupported
  <2>1. /\ UNCHANGED <<attached, rules, steps, at, wipes, disturbed, before, runtime>>
        /\ UNCHANGED <<cache, nonces, replaces, rebuilds, passes, crashes>>
        /\ UNCHANGED <<pc, outcome, leftovers, intact>>
        /\ probe' = "unsupported" /\ pc = "step"
    BY <1>3, Zenon DEF SwapUnsupported, Step, kernel, pass, history
  <2>2. failures' \in Nat
    <3>1. Fails \/ failures' = failures
      BY <1>3, Zenon DEF SwapUnsupported
    <3> QED BY <1>0, <3>1, Failed, Zenon
  <2>3. TypeOK'
    BY <1>0, <2>1, <2>2, Zenon DEF TypeOK
  <2>4. pc # "idle" /\ pc' # "idle" /\ (Swapping' <=> Swapping)
    BY <2>1, Zenon DEF Swapping
  <2> QED BY <2>1, <2>3, <2>4, Pauses, Zenon
<1>4. CASE SwapAdd
  <2>1. Step("pair") /\ Attach(steps[at].new) /\ pc' = "added"
    BY <1>4, Zenon DEF SwapAdd
  <2>2. steps[at].new \in Program
    BY <2>1, AtPair, Zenon
  <2>3. attached' \in Seq(Attached)
    BY <1>0, <2>1, <2>2, AttachType, Zenon
  <2>4. /\ UNCHANGED <<rules, steps, at, wipes, disturbed, before, runtime>>
        /\ UNCHANGED <<cache, probe, nonces, replaces, rebuilds, passes, failures, crashes>>
        /\ UNCHANGED <<outcome, leftovers, intact>>
    BY <1>4, Zenon DEF SwapAdd, process, pass, bounds, history
  <2>5. TypeOK'
    BY <1>0, <2>1, <2>3, <2>4, Zenon DEF TypeOK
  <2> QED BY <1>4, <2>5, SwapAddKeeps, Zenon
<1>5. CASE SwapDetach
  <2>1. pc = "added" /\ NextStep /\ Detach(steps[at].old) /\ probe' = probe
    BY <1>5, Zenon DEF SwapDetach
  <2>2. at \in DOMAIN steps
    <3>1. Swapping
      BY <2>1, Zenon DEF Swapping
    <3> QED BY <3>1, Zenon DEF IInv, Added
  <2>3. at + 1 \in 1 .. Len(steps) + 1
    BY <1>0, <2>2
  <2>4. attached' \in Seq(Attached)
    BY <1>0, <2>1, DetachType, Zenon
  <2>5. TypeOK'
    BY <1>0, <2>1, <2>3, <2>4, SteppedOn, Zenon
  <2> QED BY <1>5, <2>5, SwapDetachKeeps, Zenon
<1>6. CASE SwapDetachFails
  <2>1. /\ UNCHANGED <<attached, rules, steps, at, wipes, disturbed, before, runtime>>
        /\ UNCHANGED <<cache, probe, nonces, replaces, rebuilds, passes, crashes>>
        /\ UNCHANGED <<outcome, leftovers, intact>>
        /\ pc = "added" /\ pc' = "rollback"
    BY <1>6, Zenon DEF SwapDetachFails, kernel, process, pass, history
  <2>2. failures' \in Nat
    <3>1. Fails \/ failures' = failures
      BY <1>6, Zenon DEF SwapDetachFails
    <3> QED BY <1>0, <3>1, Failed, Zenon
  <2>3. TypeOK'
    BY <1>0, <2>1, <2>2, Zenon DEF TypeOK
  <2>4. pc # "idle" /\ pc' # "idle" /\ (Swapping' <=> Swapping)
    BY <2>1, Zenon DEF Swapping
  <2> QED BY <2>1, <2>3, <2>4, Pauses, Zenon
<1>7. CASE SwapRollback
  <2>1. /\ Detach(attached[Len(attached)].id) /\ Return("error")
        /\ UNCHANGED <<cache, probe, nonces, replaces>>
        /\ UNCHANGED <<runtime, before, disturbed, intact>>
        /\ UNCHANGED <<passes, failures, wipes, crashes, leftovers>>
    BY <1>7, Zenon DEF SwapRollback, process, bounds, history
  <2>2. attached' \in Seq(Attached)
    BY <1>0, <2>1, DetachType, Zenon
  <2>3. PassType' /\ ProcessType' /\ HistoryType'
    BY <1>0, <2>1, <2>2, Returned, Frames, Zenon
  <2>4. CountType'
    BY <1>0, <2>1, Counts, Zenon
  <2> QED BY <1>7, <2>3, <2>4, TypePartsPrime, SwapRollbackKeeps, Zenon
<1>8. CASE SwapRollbackFails
  <2>1. /\ UNCHANGED <<attached, wipes, disturbed, before, runtime>>
        /\ UNCHANGED <<cache, probe, nonces, replaces>>
        /\ UNCHANGED <<passes, crashes>>
        /\ Return("error")
    BY <1>8, Zenon DEF SwapRollbackFails, kernel, process
  <2>2. /\ Fails \/ failures' = failures
        /\ leftovers' \in {leftovers, leftovers + 1} /\ intact' \in BOOLEAN
    BY <1>0, <1>8, Zenon DEF SwapRollbackFails, TypeOK
  <2>3. failures' \in Nat
    BY <1>0, <2>2, Failed, Zenon
  <2>4. PassType' /\ pc' = "idle" /\ steps' = <<>> /\ at' = 1
    BY <1>0, <2>1, Returned, Zenon
  <2>5. ProcessType'
    BY <1>0, <2>1, Frames, Zenon
  <2>6. HistoryType'
    BY <1>0, <2>1, <2>2, Zenon DEF TypeOK, HistoryType
  <2>7. CountType'
    BY <1>0, <2>1, <2>2, <2>3, Counts, Zenon
  <2>8. Safety'
    BY <2>1, <2>4, Ends, Zenon
  <2> QED BY <2>4, <2>5, <2>6, <2>7, <2>8, TypePartsPrime, Zenon
<1> QED BY <1>1, <1>2, <1>3, <1>4, <1>5, <1>6, <1>7, <1>8, Zenon DEF Swap

\* The world's steps.
LEMMA WorldKeeps ==
    ASSUME IInv, Wipe \/ Crash
    PROVE  TypeOK' /\ Safety'
<1>0. TypeOK /\ attached \in Seq(Attached)
    BY Zenon DEF IInv, TypeOK
<1>1. CASE Wipe
  <2>1. /\ attached' = <<>> /\ wipes' = wipes + 1 /\ before' = Devices /\ disturbed' = TRUE
        /\ intact' \in BOOLEAN
        /\ UNCHANGED <<rules, steps, at, pc, outcome, rebuilds, runtime>>
        /\ UNCHANGED <<cache, probe, nonces, replaces>>
        /\ UNCHANGED <<passes, failures, crashes, leftovers>>
    BY <1>0, <1>1, Zenon DEF Wipe, TypeOK, process, pass
  <2>2. attached' \in Seq(Attached)
    BY <2>1
  <2>3. PassType' /\ HistoryType' /\ ProcessType'
    BY <1>0, <2>1, <2>2, Zenon DEF TypeOK, PassType, HistoryType, ProcessType
  <2>4. CountType'
    BY <1>0, <2>1 DEF TypeOK, CountType
  <2> QED BY <1>1, <2>3, <2>4, TypePartsPrime, WipeKeeps, Zenon
<1>2. CASE Crash
  <2>1. /\ UNCHANGED <<attached, wipes, disturbed, before, runtime>>
        /\ UNCHANGED <<nonces, replaces, passes, failures>>
        /\ crashes' = crashes + 1 /\ probe' = "unknown"
        /\ cache' = [lineages |-> <<>>, rebuilding |-> FALSE]
        /\ Return("none")
    BY <1>2, Zenon DEF Crash, kernel
  <2>2. leftovers' \in {leftovers, leftovers + 1} /\ intact' \in BOOLEAN
    BY <1>0, <1>2, Zenon DEF Crash, TypeOK
  <2>3. PassType' /\ pc' = "idle" /\ steps' = <<>> /\ at' = 1
    BY <1>0, <2>1, Returned, Zenon
  <2>4. cache' \in [lineages : Seq(CachedLineage), rebuilding : BOOLEAN]
    BY <2>1
  <2>5. ProcessType' /\ HistoryType'
    BY <1>0, <2>1, <2>2, <2>4, Zenon DEF TypeOK, ProcessType, HistoryType
  <2>6. CountType'
    BY <1>0, <2>1, <2>2 DEF TypeOK, CountType
  <2>7. Safety'
    BY <2>1, <2>3, Ends, Zenon
  <2> QED BY <2>3, <2>5, <2>6, <2>7, TypePartsPrime, Zenon
<1> QED BY <1>1, <1>2, Zenon

LEMMA InvariantStep ==
    ASSUME IInv, [Next]_vars
    PROVE  IInv'
<1>1. CASE Next
  <2>1. TypeOK' /\ Safety'
    BY <1>1, StartKeeps, PassKeeps, PlanKeeps, SwapKeepsAll, WorldKeeps, Zenon DEF Next
  <2> QED BY <2>1, Zenon DEF Safety, IInv
<1>2. CASE UNCHANGED vars
  <2>1. /\ UNCHANGED <<attached, replaces, cache, probe, pc, rules, steps, at, rebuilds>>
        /\ UNCHANGED <<nonces, passes, failures, wipes, crashes, runtime, outcome, before>>
        /\ UNCHANGED <<disturbed, leftovers, intact>>
    BY <1>2, Zenon DEF vars, kernel, process, pass, bounds, history
  <2>2. TypeOK'
    <3>1. PassType' /\ ProcessType'
      BY <2>1, TypeParts, Zenon DEF IInv, PassType, ProcessType
    <3>2. CountType' /\ HistoryType'
      BY <2>1, TypeParts, Zenon DEF IInv, CountType, HistoryType
    <3> QED BY <3>1, <3>2, TypePartsPrime, Zenon
  <2>4. ProgramsOK' /\ StepsOK'
    BY <2>1, Zenon DEF IInv, ProgramsOK, StepsOK
  <2>5. Added' /\ Wiped'
    BY <2>1, Zenon DEF IInv, Added, Swapping, Wiped
  <2>3. KeepsRuntime' /\ KeepsDenials'
    BY <2>1, Zenon DEF IInv, KeepsRuntime, KeepsDenials, Holds, Swapping
  <2> QED BY <2>2, <2>3, <2>4, <2>5, Zenon DEF IInv
<1> QED BY <1>1, <1>2, Zenon

LEMMA InvariantInit == Init => IInv
<1> SUFFICES ASSUME Init PROVE IInv
    OBVIOUS
<1>1. /\ runtime \in RuntimeFilters /\ pc = "idle" /\ rules = {} /\ steps = <<>> /\ at = 1
      /\ nonces = 0 /\ wipes = 0 /\ disturbed = FALSE /\ before = {}
      /\ attached = [i \in DOMAIN runtime |-> Object(Bare(runtime[i]), i)]
    BY Zenon DEF Init
<1>2. runtime \in Seq(Originals)
    BY <1>1, RuntimeAssumption, Zenon
<1>3. ASSUME NEW i \in DOMAIN runtime
      PROVE  /\ i \in Nat /\ Bare(runtime[i]) \in Program /\ Plain(Bare(runtime[i]))
             /\ Bare(runtime[i]).original = runtime[i]
  <2>1. i \in Nat /\ runtime[i] \in Originals
    BY <1>2
  <2> QED BY <2>1, Zenon DEF Bare, Program, Plain
<1>4. /\ DOMAIN attached = DOMAIN runtime
      /\ attached = [i \in DOMAIN runtime |-> attached[i]]
      /\ \A i \in DOMAIN runtime : attached[i] = Object(Bare(runtime[i]), i)
    BY <1>1, Zenon
<1>5. ASSUME NEW i \in DOMAIN runtime
      PROVE  /\ attached[i] \in Attached /\ attached[i].id = i /\ Plain(attached[i])
             /\ Content(attached[i]) \in Of(runtime[i])
  <2> DEFINE b == Bare(runtime[i])
  <2>1. b \in Program /\ i \in Nat /\ Plain(b) /\ b.original = runtime[i]
    BY <1>3, Zenon
  <2>2. attached[i] = Object(b, i)
    BY <1>4, Zenon
  <2> HIDE DEF b
  <2>3. /\ Object(b, i) \in Attached /\ Object(b, i).id = i /\ Plain(Object(b, i))
        /\ Content(Object(b, i)) = b
    BY <2>1, Objects, Zenon
  <2>4. Content(attached[i]) \in Of(runtime[i])
    BY <2>1, <2>2, <2>3, Zenon DEF Of
  <2> QED BY <2>2, <2>3, <2>4, Zenon
<1>6. attached \in Seq(Attached)
  <2>1. attached \in [1 .. Len(runtime) -> Attached]
    BY <1>2, <1>4, <1>5
  <2> QED BY <1>2, <2>1
<1>7. TypeOK
  <2>1. cache \in [lineages : Seq(CachedLineage), rebuilding : BOOLEAN]
    BY DEF Init
  <2>2. <<>> \in Seq(PlanStep) /\ 1 \in 1 .. Len(<<>>) + 1 /\ 0 \in Nat
    OBVIOUS
  <2> QED BY <1>6, <2>1, <2>2, Zenon DEF Init, TypeOK
<1>8. ProgramsOK
    BY <1>4, <1>5, Zenon DEF ProgramsOK, Unique
<1>9. StepsOK
  <2>1. DOMAIN steps = {} /\ at .. Len(steps) = {}
    BY <1>1
  <2> QED BY <1>1, <2>1, Zenon DEF StepsOK
<1>10. ~Swapping
    BY <1>1, Zenon DEF Swapping
<1>11. Added /\ Wiped /\ KeepsDenials
    BY <1>1, <1>10, Zenon DEF Added, Wiped, KeepsDenials
<1>12. KeepsRuntime
  <2> SUFFICES ASSUME NEW i \in DOMAIN runtime PROVE Holds(Of(runtime[i]))
    BY Zenon DEF KeepsRuntime
  <2>1. Guarded(Of(runtime[i]), attached, <<>>, 1, i)
    BY <1>5, GuardOver, Zenon
  <2>2. HoldsIn(Of(runtime[i]), attached, <<>>, 1, Swapping)
    BY <1>4, <1>10, <2>1, Zenon DEF HoldsIn
  <2> QED BY <1>1, <2>2, Zenon DEF Holds
<1> QED BY <1>7, <1>8, <1>9, <1>11, <1>12, Zenon DEF IInv

LEMMA Invariant == Spec => []IInv
<1> QED BY InvariantInit, InvariantStep, PTL DEF Spec

\* The state of the cgroup, of the daemon's memory of it and of a pass keeps its
\* type.
THEOREM TypeCorrect == Spec => []TypeOK
<1>1. IInv => TypeOK
    BY Zenon DEF IInv
<1> QED BY <1>1, Invariant, PTL

\* However many programs the runtime attached, whatever the rules, and wherever
\* a pass is cut short by a failed call, a rollback or a crash: until systemd
\* wipes the cgroup, every program of the runtime stays in force, bare or
\* wrapped.
THEOREM FiltersAreKept == Spec => []FiltersKept
<1>1. ASSUME IInv PROVE FiltersKept
  <2> SUFFICES ASSUME wipes = 0, NEW i \in DOMAIN runtime PROVE CountOf(attached, runtime[i]) # 0
    BY Zenon DEF FiltersKept, Missing
  <2> DEFINE P == {j \in DOMAIN attached : attached[j].original = runtime[i]}
  <2>1. Holds(Of(runtime[i]))
    BY <1>1, Zenon DEF IInv, KeepsRuntime
  <2>2. PICK w \in DOMAIN attached : Content(attached[w]) \in Of(runtime[i])
    BY <2>1, Zenon DEF Holds, HoldsIn, Guarded
  <2>3. Content(attached[w]).original = attached[w].original
    BY Zenon DEF Content
  <2>4. w \in P
    BY <2>2, <2>3, Zenon DEF Of
  <2>5. CountOf(attached, runtime[i]) = Cardinality(P)
    BY Zenon DEF CountOf, Positions
  <2>6. Len(attached) \in Nat /\ P \subseteq 1 .. Len(attached)
    BY <1>1 DEF IInv, TypeOK
  <2> HIDE DEF P
  <2>7. IsFiniteSet(P)
    BY <2>6, FinitePositions, Zenon
  <2>8. P # {} => Cardinality(P) # 0
    BY <2>7, FS_EmptySet, Zenon
  <2> QED BY <2>4, <2>5, <2>8, Zenon
<1> QED BY <1>1, Invariant, PTL

\* No state of a pass, whatever its plan, its failures and its rollbacks, makes a
\* device accessible that was not accessible before and is not meant to be after.
THEOREM NeverWidened == Spec => []NeverWider
<1>1. ASSUME IInv PROVE NeverWider
  <2> SUFFICES ASSUME pc # "idle", NEW d \in Effective(attached), d \notin before
               PROVE  d \in Target(rules)
    BY Zenon DEF NeverWider
  <2>1. d \in Devices
    BY Zenon DEF Effective
  <2>2. ~disturbed
    BY <1>1, <2>1, Zenon DEF IInv, Wiped
  <2>3. d \in rules
    <3> SUFFICES ASSUME d \notin rules PROVE FALSE
      BY Zenon
    <3>1. Holds(Denying(d))
      BY <1>1, <2>1, <2>2, Zenon DEF IInv, KeepsDenials
    <3>2. PICK w \in DOMAIN attached : Content(attached[w]) \in Denying(d)
      BY <3>1, Zenon DEF Holds, HoldsIn, Guarded
    <3>3. /\ Content(attached[w]).original = attached[w].original
          /\ Content(attached[w]).rules = attached[w].rules
      BY Zenon DEF Content
    <3> QED BY <3>2, <3>3, Zenon DEF Denying, Effective
  <2> QED BY <2>1, <2>3, Zenon DEF Target
<1> QED BY <1>1, Invariant, PTL

=============================================================================
