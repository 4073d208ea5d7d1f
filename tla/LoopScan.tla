------------------------------- MODULE LoopScan -------------------------------
(***************************************************************************)
(* The loop shape shared by parseFromCmdline, parseHotSpotVMFlags and      *)
(* parseOpenJ9VMFlags (src/unnamed/part_000): a result record starts at c  *)
(* and each token of the sequence b, from left to right, is folded into    *)
(* it by Step.  The models write the loop as the recursive function        *)
(* scan[i \in 0..Len(b)]; this module states what such a function is, for *)
(* every Step and c: it exists and satisfies its defining equation, and    *)
(* it keeps every property that holds of c and that Step preserves.  The   *)
(* parser modules instantiate it with their own step operator.             *)
(***************************************************************************)
EXTENDS Naturals, Sequences, WellFoundedInduction, TLAPS

CONSTANTS
  Step(_, _),  \* one iteration of the loop body
  c            \* the record before the first iteration

(* The loop over b as the models write it: scan[i] is the record after the *)
(* first i tokens.                                                         *)
Scan(b) == LET scan[i \in 0..Len(b)] == IF i = 0 THEN c ELSE Step(scan[i - 1], b[i]) IN scan

(* g is the loop's record after each of the first n tokens of b.           *)
Solves(g, b, n) == g = [i \in 0..n |-> IF i = 0 THEN c ELSE Step(g[i - 1], b[i])]

(* Every non-empty set of naturals has a least element.                    *)
LEMMA LeastElement ==
  ASSUME NEW T \in SUBSET Nat, T # {}
  PROVE  \E m \in T : \A k \in T : m <= k
<1>1. PICK x \in T : \A y \in T : ~(<<y, x>> \in OpToRel(<, Nat))
  BY NatLessThanWellFounded, WFMin
<1>2. \A y \in T : ~(y < x)
  <2> TAKE y \in T
  <2>1. ~(<<y, x>> \in OpToRel(<, Nat))
    BY <1>1
  <2>2. <<y, x>> \in Nat \X Nat
    OBVIOUS
  <2> QED
    BY <2>1, <2>2 DEF OpToRel
<1> QED
  BY <1>2

(* Every non-empty set of naturals up to n has a greatest element.        *)
LEMMA GreatestElement ==
  ASSUME NEW n \in Nat, NEW S \in SUBSET (0..n), S # {}
  PROVE  \E m \in S : \A k \in S : k <= m
<1> DEFINE T == {n - k : k \in S}
<1>1. T \in SUBSET Nat
  <2> SUFFICES ASSUME NEW k \in S PROVE n - k \in Nat
    OBVIOUS
  <2> QED
    OBVIOUS
<1>2. T # {}
  <2>1. PICK k0 \in S : TRUE
    OBVIOUS
  <2> QED
    BY <2>1
<1>3. PICK d \in T : \A e \in T : d <= e
  BY <1>1, <1>2, LeastElement
<1>4. PICK m \in S : d = n - m
  OBVIOUS
<1>5. \A k \in S : k <= m
  <2> TAKE k \in S
  <2>1. n - k \in T
    OBVIOUS
  <2>2. n - m <= n - k
    BY <1>3, <1>4, <2>1
  <2> QED
    BY <2>2
<1> QED
  BY <1>5

(* The loop can be run for any number of iterations: a record sequence   *)
(* for n tokens extends one for n - 1.                                    *)
LEMMA ScanExists ==
  ASSUME NEW b, NEW n \in Nat
  PROVE  \E g : Solves(g, b, n)
<1> DEFINE T == {k \in 0..n : ~\E g : Solves(g, b, k)}
<1> SUFFICES ASSUME T # {} PROVE FALSE
  OBVIOUS
<1>1. PICK m \in T : \A k \in T : m <= k
  <2>1. T \in SUBSET Nat
    OBVIOUS
  <2> QED
    BY <2>1, LeastElement
<1>2. CASE m = 0
  <2>1. Solves([i \in 0..0 |-> c], b, 0)
    BY DEF Solves
  <2> QED
    BY <1>1, <1>2, <2>1
<1>3. CASE m # 0
  <2>1. m - 1 \in 0..n /\ m - 1 \notin T
    BY <1>1, <1>3
  <2>2. PICK g : Solves(g, b, m - 1)
    BY <2>1
  <2> DEFINE h == [i \in 0..m |-> IF i < m THEN g[i] ELSE Step(g[m - 1], b[m])]
  <2>3. Solves(h, b, m)
    BY <1>1, <1>3, <2>2 DEF Solves
  <2> QED
    BY <1>1, <2>3
<1> QED
  BY <1>2, <1>3

(* scan satisfies its defining equation.                                 *)
LEMMA ScanEquation ==
  ASSUME NEW S, NEW b \in Seq(S)
  PROVE  Solves(Scan(b), b, Len(b))
<1>1. \E g : Solves(g, b, Len(b))
  BY ScanExists
<1> QED
  BY <1>1 DEF Scan, Solves
(* Induction over the loop: a set G of (iteration, record) pairs that     *)
(* holds the start and is closed under one iteration holds every record  *)
(* of the loop.                                                           *)
LEMMA ScanInvariant ==
  ASSUME NEW S, NEW b \in Seq(S), NEW G,
         <<0, c>> \in G,
         \A k \in 1..Len(b) : \A v : <<k - 1, v>> \in G => <<k, Step(v, b[k])>> \in G
  PROVE  \A k \in 0..Len(b) : <<k, Scan(b)[k]>> \in G
<1> DEFINE f == Scan(b)
           T == {k \in 0..Len(b) : <<k, f[k]>> \notin G}
<1>1. Solves(f, b, Len(b))
  BY ScanEquation
<1> SUFFICES ASSUME T # {} PROVE FALSE
  OBVIOUS
<1>2. PICK m \in T : \A k \in T : m <= k
  <2>1. T \in SUBSET Nat
    OBVIOUS
  <2> QED
    BY <2>1, LeastElement
<1>3. CASE m = 0
  <2>1. f[0] = c
    BY <1>1 DEF Solves
  <2> QED
    BY <1>2, <1>3, <2>1
<1>4. CASE m # 0
  <2>1. m - 1 \in 0..Len(b) /\ m - 1 \notin T
    BY <1>2, <1>4
  <2>2. <<m - 1, f[m - 1]>> \in G
    BY <2>1
  <2>3. f[m] = Step(f[m - 1], b[m])
    BY <1>1, <1>2, <1>4 DEF Solves
  <2> QED
    BY <1>2, <1>4, <2>2, <2>3
<1> QED
  BY <1>3, <1>4

(* A set of records that holds c and that Step keeps holds the result.    *)
LEMMA ScanType ==
  ASSUME NEW S, NEW b \in Seq(S), NEW P, c \in P,
         \A v \in P, t \in S : Step(v, t) \in P
  PROVE  Scan(b)[Len(b)] \in P
<1> DEFINE G == Nat \X P
<1>1. <<0, c>> \in G
  OBVIOUS
<1>2. \A k \in 1..Len(b) : \A v : <<k - 1, v>> \in G => <<k, Step(v, b[k])>> \in G
  OBVIOUS
<1>3. \A k \in 0..Len(b) : <<k, Scan(b)[k]>> \in G
  BY <1>1, <1>2, ScanInvariant
<1>4. Len(b) \in 0..Len(b)
  OBVIOUS
<1> QED
  BY <1>3, <1>4
=============================================================================
