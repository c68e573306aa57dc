----------------------------- MODULE Recursion -----------------------------
(***************************************************************************)
(* Numbers, and functions by recursion over them.  A set of numbers stands *)
(* for a predicate and a function for a step, since the theorems on        *)
(* induction of the library take operators, which no prover instantiates.  *)
(***************************************************************************)
EXTENDS Integers, WellFoundedInduction, TLAPS

LEMMA LeastNumber ==
  ASSUME NEW T \in SUBSET Nat, NEW n \in T PROVE \E i \in T : \A j \in T : ~(j < i)
<1>1. \A S \in SUBSET Nat : S # {} => \E x \in S : \A y \in S : ~(<<y, x>> \in OpToRel(<, Nat))
  BY NatLessThanWellFounded, WFMin
<1> QED
  BY <1>1 DEF OpToRel

LEMMA UpTo ==
  ASSUME NEW N \in Nat, NEW P, 0 \in P, \A n \in 1..N : n - 1 \in P => n \in P
  PROVE  \A n \in 0..N : n \in P
<1> SUFFICES ASSUME NEW n \in 0..N, n \notin P PROVE FALSE
  OBVIOUS
<1>1. PICK i \in 0..N \ P : \A j \in 0..N \ P : ~(j < i)
  <2>1. 0..N \ P \in SUBSET Nat /\ n \in 0..N \ P
    OBVIOUS
  <2> QED
    BY <2>1, LeastNumber
<1>2. i \in 1..N /\ i - 1 \in 0..N /\ i - 1 < i
  BY <1>1
<1> QED
  BY <1>1, <1>2

\* A step repeated n times, from base.
Repeats(f, D, base, step, n) ==
  /\ f \in [0..n -> D] /\ f[0] = base
  /\ \A m \in 1..n : f[m] = step[<<f[m-1], m>>]

LEMMA Repeated ==
  ASSUME NEW D, NEW base \in D, NEW N \in Nat, NEW step \in [D \X (1..N) -> D]
  PROVE  \E f : Repeats(f, D, base, step, N)
<1> DEFINE P == {n \in 0..N : \E f : Repeats(f, D, base, step, n)}
<1>1. 0 \in P
  <2>1. Repeats([n \in 0..0 |-> base], D, base, step, 0)
    BY DEF Repeats
  <2> QED
    BY <2>1
<1>2. ASSUME NEW n \in 1..N, n - 1 \in P PROVE n \in P
  <2>1. PICK f : Repeats(f, D, base, step, n - 1)
    BY <1>2
  <2> DEFINE g == [m \in 0..n |-> IF m = n THEN step[<<f[n-1], n>>] ELSE f[m]]
  <2>2. n - 1 \in 0..(n-1) /\ n \in 1..N /\ f \in [0..(n-1) -> D] /\ f[0] = base
    BY <2>1 DEF Repeats
  <2>3. f[n-1] \in D /\ <<f[n-1], n>> \in D \X (1..N) /\ step[<<f[n-1], n>>] \in D
    BY <2>2
  <2>4. g \in [0..n -> D]
    <3>1. ASSUME NEW m \in 0..n PROVE g[m] \in D
      <4>1. m = n \/ m \in 0..(n-1)
        OBVIOUS
      <4> QED
        BY <2>2, <2>3, <4>1
    <3> QED
      BY <3>1
  <2>5. g[0] = base
    BY <2>2
  <2>6. ASSUME NEW m \in 1..n PROVE g[m] = step[<<g[m-1], m>>]
    <3>1. m - 1 \in 0..n /\ m - 1 # n /\ g[m-1] = f[m-1]
      OBVIOUS
    <3>2. CASE m = n
      BY <3>1, <3>2
    <3>3. CASE m # n
      <4>1. m \in 1..(n-1) /\ m \in 0..n
        BY <3>3
      <4>2. f[m] = step[<<f[m-1], m>>]
        BY <2>1, <4>1 DEF Repeats
      <4> QED
        BY <3>1, <3>3, <4>1, <4>2
    <3> QED
      BY <3>2, <3>3
  <2> HIDE DEF g
  <2>7. Repeats(g, D, base, step, n)
    BY <2>4, <2>5, <2>6 DEF Repeats
  <2> QED
    BY <2>7
<1> HIDE DEF P
<1>3. \A n \in 0..N : n \in P
  BY <1>1, <1>2, UpTo
<1>4. N \in P
  BY <1>3
<1> QED
  BY <1>4 DEF P

\* What a step of D to D repeats stays in D.
LEMMA StaysIn ==
  ASSUME NEW D, NEW N \in Nat, NEW f, f[0] \in D,
         \A n \in 1..N : f[n-1] \in D => f[n] \in D
  PROVE  \A n \in 0..N : f[n] \in D
<1> DEFINE P == {n \in 0..N : f[n] \in D}
<1>0. 0 \in 0..N
  OBVIOUS
<1>1. 0 \in P
  BY <1>0, Zenon
<1>2. \A n \in 1..N : n - 1 \in P => n \in P
  OBVIOUS
<1> HIDE DEF P
<1>3. \A n \in 0..N : n \in P
  BY <1>1, <1>2, UpTo
<1> QED
  BY <1>3 DEF P
=============================================================================
