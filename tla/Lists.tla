-------------------------------- MODULE Lists --------------------------------
(***************************************************************************)
(* Lists filtered and joined.  The filter picks positions rather than       *)
(* dropping elements, so that what it keeps has a definition without        *)
(* recursion; proofs need that, and count the positions instead.            *)
(***************************************************************************)
EXTENDS Naturals, Sequences, FiniteSets

\* The positions of a list whose element satisfies a test.
Positions(s, Test(_)) == {i \in DOMAIN s : Test(s[i])}

\* The k-th smallest of a set of positions, the elements of a list at some of
\* its positions, in their order, and those that satisfy a test.
UpTo(P, p) == {q \in P : q <= p}

Nth(P, k) == CHOOSE p \in P : Cardinality(UpTo(P, p)) = k

Pick(s, P) == [k \in 1 .. Cardinality(P) |-> s[Nth(P, k)]]

Select(s, Test(_)) == Pick(s, Positions(s, Test))

\* The lists of a list, one after the other.
Concat(ss) ==
    LET upTo[n \in 0 .. Len(ss)] == IF n = 0 THEN <<>> ELSE upTo[n - 1] \o ss[n]
    IN  upTo[Len(ss)]

=============================================================================
