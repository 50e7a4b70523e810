----------------------------- MODULE Induction -----------------------------
(***************************************************************************)
(* Induction over the naturals up to a bound, stated of a set and not of   *)
(* an operator, for the proofs about what a recursive function computes.   *)
(***************************************************************************)
EXTENDS FiniteSetTheorems, TLAPS

(* A set of naturals has a least element: of the sets 0 .. n for its       *)
(* members, one contains no other.                                         *)
LEMMA NatLeast ==
  ASSUME NEW T, T \subseteq Nat, T # {}
  PROVE  \E x \in T : \A y \in T : x <= y
<1> DEFINE Upto(n) == 0 .. n
           B == {Upto(n) : n \in T}
           R == StrictSubsetOrdering(Nat)
<1>1. IsWellFoundedOn(R, FiniteSubsetsOf(Nat))
  BY FS_StrictSubsetOrderingWellFounded
<1>2. B \subseteq FiniteSubsetsOf(Nat) /\ B # {}
  <2>1. ASSUME NEW n \in T PROVE Upto(n) \in FiniteSubsetsOf(Nat)
    <3>1. IsFiniteSet(0 .. n)
      BY FS_Interval
    <3>2. 0 .. n \subseteq Nat
      OBVIOUS
    <3> QED
      BY <3>1, <3>2 DEF FiniteSubsetsOf
  <2> QED
    BY <2>1
<1>3. \E b \in B : \A d \in B : ~(<<d, b>> \in R)
  <2> HIDE DEF R, B
  <2> QED
    BY <1>1, <1>2, WFMin
<1>4. PICK x \in T : \A y \in T : ~(<<Upto(y), Upto(x)>> \in R)
  BY <1>3
<1>5. ASSUME NEW y \in T PROVE x <= y
  <2> SUFFICES ASSUME y < x PROVE FALSE
    OBVIOUS
  <2>1. Upto(y) \subseteq Upto(x) /\ Upto(y) # Upto(x)
    <3>1. x \in Upto(x) /\ x \notin Upto(y)
      OBVIOUS
    <3> QED
      BY <3>1
  <2>2. Upto(y) \in SUBSET Nat /\ Upto(x) \in SUBSET Nat
    OBVIOUS
  <2>3. <<Upto(y), Upto(x)>> \in R
    BY <2>1, <2>2 DEF StrictSubsetOrdering
  <2> QED
    BY <2>3, <1>4
<1> QED
  BY <1>5

(* A set of naturals up to a bound has a greatest element.                 *)
LEMMA UptoGreatest ==
  ASSUME NEW N \in Nat, NEW T, T \subseteq 0 .. N, T # {}
  PROVE  \E x \in T : \A y \in T : x >= y
<1> DEFINE R == {N - x : x \in T}
<1>1. PICK r \in R : \A q \in R : r <= q
  <2>1. \A x \in T : N - x \in Nat
    OBVIOUS
  <2>2. R \subseteq Nat /\ R # {}
    BY <2>1
  <2> QED
    BY <2>2, NatLeast
<1>2. PICK x \in T : r = N - x
  BY <1>1
<1>3. ASSUME NEW y \in T PROVE x >= y
  <2>1. N - x <= N - y
    BY <1>1, <1>2
  <2> QED
    BY <2>1
<1> QED
  BY <1>3

(* What holds at 0 and of the next number holds up to the bound.           *)
LEMMA UptoInduction ==
  ASSUME NEW N \in Nat, NEW T, 0 \in T, \A m \in 0 .. N : m < N /\ m \in T => m + 1 \in T
  PROVE  0 .. N \subseteq T
<1> DEFINE Missing == {m \in 0 .. N : m \notin T}
<1> SUFFICES ASSUME Missing # {} PROVE FALSE
  OBVIOUS
<1>1. PICK x \in Missing : \A y \in Missing : x <= y
  <2>1. Missing \subseteq Nat
    OBVIOUS
  <2> QED
    BY <2>1, NatLeast
<1>2. x \in 0 .. N /\ x # 0 /\ x \notin T
  OBVIOUS
<1>3. x - 1 \in 0 .. N /\ x - 1 < N /\ x - 1 \notin Missing
  BY <1>1, <1>2
<1>4. (x - 1) + 1 \in T
  BY <1>3
<1> QED
  BY <1>2, <1>4

(* The courses that begin at z and take step n by G[n].                    *)
Courses(N, D, z, G) ==
  {f \in [0 .. N -> D] : f[0] = z /\ \A n \in 1 .. N : f[n] = G[n][f[n - 1]]}

(* There is one: what a recursive function computes is defined.            *)
LEMMA UptoRecursion ==
  ASSUME NEW N, NEW D, NEW z, NEW G, N \in Nat, z \in D, G \in [1 .. N -> [D -> D]]
  PROVE  Courses(N, D, z, G) # {}
<1> DEFINE Runs(m, f) == f[0] = z /\ \A n \in 1 .. m : f[n] = G[n][f[n - 1]]
           T == {m \in 0 .. N : \E f \in [0 .. m -> D] : Runs(m, f)}
<1>1. 0 \in T
  <2> DEFINE f == [n \in 0 .. 0 |-> z]
  <2>1. f \in [0 .. 0 -> D] /\ f[0] = z
    OBVIOUS
  <2>2. Runs(0, f)
    BY <2>1
  <2>3. 0 \in 0 .. N
    OBVIOUS
  <2> HIDE DEF f, Runs
  <2> QED
    BY <2>1, <2>2, <2>3
<1>2. ASSUME NEW m \in 0 .. N, m < N, m \in T PROVE m + 1 \in T
  <2>1. PICK f \in [0 .. m -> D] : Runs(m, f)
    BY <1>2
  <2> DEFINE g == [n \in 0 .. m + 1 |-> IF n = m + 1 THEN G[m + 1][f[m]] ELSE f[n]]
  <2>2. m + 1 \in 1 .. N /\ f[m] \in D
    BY <1>2
  <2>3. G[m + 1][f[m]] \in D
    BY <2>2
  <2>4. g \in [0 .. m + 1 -> D]
    BY <2>3
  <2>5. ASSUME NEW n \in 1 .. m + 1 PROVE g[n] = G[n][g[n - 1]]
    <3>1. g[n - 1] = f[n - 1] /\ (n # m + 1 => g[n] = f[n] /\ n \in 1 .. m)
      OBVIOUS
    <3> QED
      BY <2>1, <3>1
  <2>6. Runs(m + 1, g)
    BY <2>1, <2>5
  <2>7. m + 1 \in 0 .. N
    BY <1>2
  <2> QED
    BY <2>4, <2>6, <2>7
<1> HIDE DEF T
<1>3. 0 .. N \subseteq T
  BY <1>1, <1>2, UptoInduction
<1>4. N \in T
  BY <1>3
<1> QED
  BY <1>4 DEF T, Courses

(* The functions of 1..N that are at each place what G makes of them, where *)
(* G looks only at the places behind.                                      *)
Descents(N, D, G) == {f \in [1 .. N -> D] : \A k \in 1 .. N : f[k] = G[k][f]}

(* There is one: what a recursive function computes from the end is defined. *)
LEMMA DownRecursion ==
  ASSUME NEW N, NEW D, NEW G, N \in Nat, D # {}, G \in [1 .. N -> [[1 .. N -> D] -> D]],
         \A k \in 1 .. N : \A f, g \in [1 .. N -> D] :
           (\A j \in 1 .. N : j > k => f[j] = g[j]) => G[k][f] = G[k][g]
  PROVE  Descents(N, D, G) # {}
<1> DEFINE F == [1 .. N -> D]
           Solves(m, f) == \A k \in 1 .. N : k > N - m => f[k] = G[k][f]
           T == {m \in 0 .. N : \E f \in F : Solves(m, f)}
<1>1. 0 \in T
  <2>1. PICK d : d \in D
    OBVIOUS
  <2>2. [k \in 1 .. N |-> d] \in F
    BY <2>1
  <2>3. \A f : Solves(0, f)
    OBVIOUS
  <2>4. 0 \in 0 .. N
    OBVIOUS
  <2> HIDE DEF Solves, F
  <2> QED
    BY <2>2, <2>3, <2>4
<1>2. ASSUME NEW m \in 0 .. N, m < N, m \in T PROVE m + 1 \in T
  <2>1. PICK f \in F : Solves(m, f)
    BY <1>2
  <2>2. PICK i : i = N - m
    OBVIOUS
  <2>3. i \in 1 .. N /\ N - (m + 1) = i - 1 /\ m + 1 \in 0 .. N
    BY <1>2, <2>2
  <2>4. G[i][f] \in D
    BY <2>1, <2>3
  <2> DEFINE g == [f EXCEPT ![i] = G[i][f]]
  <2>5. g \in F /\ g[i] = G[i][f] /\ \A j \in 1 .. N : j # i => g[j] = f[j]
    BY <2>1, <2>3, <2>4
  <2> HIDE DEF g
  <2>6. ASSUME NEW k \in 1 .. N, k >= i PROVE G[k][g] = G[k][f]
    <3>1. \A j \in 1 .. N : j > k => g[j] = f[j]
      BY <2>3, <2>5, <2>6
    <3> QED
      BY <2>1, <2>5, <3>1
  <2>7. ASSUME NEW k \in 1 .. N, k > i - 1 PROVE g[k] = G[k][g]
    <3>1. k = i \/ k > i
      BY <2>3, <2>7
    <3>2. G[k][g] = G[k][f]
      BY <2>3, <2>6, <3>1
    <3>3. k > i => f[k] = G[k][f]
      BY <2>1, <2>2
    <3> QED
      BY <2>3, <2>5, <3>1, <3>2, <3>3
  <2>8. Solves(m + 1, g)
    BY <2>3, <2>7
  <2> HIDE DEF Solves, F
  <2> QED
    BY <2>3, <2>5, <2>8
<1> HIDE DEF T
<1>3. 0 .. N \subseteq T
  BY <1>1, <1>2, UptoInduction
<1>4. N \in T
  BY <1>3
<1>5. PICK f \in F : Solves(N, f)
  BY <1>4 DEF T
<1>6. \A k \in 1 .. N : k > N - N
  OBVIOUS
<1>7. \A k \in 1 .. N : f[k] = G[k][f]
  BY <1>5, <1>6
<1> QED
  BY <1>5, <1>7 DEF Descents

(* The functions on the places from M to N whose value at a place is what  *)
(* G makes, there, of the function.                                        *)
Ascents(M, N, D, G) == {f \in [M .. N -> D] : \A k \in M .. N : f[k] = G[k][f]}

(* If G looks at earlier places only, there is one: what a recursive       *)
(* function computes from the start is defined.                            *)
LEMMA UpRecursion ==
  ASSUME NEW M, NEW N, NEW D, NEW G, M \in Nat, N \in Nat, M <= N, D # {},
         G \in [M .. N -> [[M .. N -> D] -> D]],
         \A k \in M .. N : \A f, g \in [M .. N -> D] :
           (\A j \in M .. N : j < k => f[j] = g[j]) => G[k][f] = G[k][g]
  PROVE  Ascents(M, N, D, G) # {}
<1> DEFINE F == [M .. N -> D]
           L == N + 1 - M
           Solves(m, f) == \A k \in M .. N : k < M + m => f[k] = G[k][f]
           T == {m \in 0 .. L : \E f \in F : Solves(m, f)}
<1>1. 0 \in T
  <2>1. PICK d : d \in D
    OBVIOUS
  <2>2. [k \in M .. N |-> d] \in F
    BY <2>1
  <2>3. \A f : Solves(0, f)
    OBVIOUS
  <2>4. 0 \in 0 .. L
    OBVIOUS
  <2> HIDE DEF Solves, F
  <2> QED
    BY <2>2, <2>3, <2>4
<1>2. ASSUME NEW m \in 0 .. L, m < L, m \in T PROVE m + 1 \in T
  <2>1. PICK f \in F : Solves(m, f)
    BY <1>2
  <2>2. PICK i : i = M + m
    OBVIOUS
  <2>3. i \in M .. N /\ M + (m + 1) = i + 1 /\ m + 1 \in 0 .. L
    BY <1>2, <2>2
  <2>4. G[i][f] \in D
    BY <2>1, <2>3
  <2> DEFINE g == [f EXCEPT ![i] = G[i][f]]
  <2>5. g \in F /\ g[i] = G[i][f] /\ \A j \in M .. N : j # i => g[j] = f[j]
    BY <2>1, <2>3, <2>4
  <2> HIDE DEF g
  <2>6. ASSUME NEW k \in M .. N, k <= i PROVE G[k][g] = G[k][f]
    <3>1. \A j \in M .. N : j < k => g[j] = f[j]
      BY <2>3, <2>5, <2>6
    <3> QED
      BY <2>1, <2>5, <3>1
  <2>7. ASSUME NEW k \in M .. N, k < i + 1 PROVE g[k] = G[k][g]
    <3>1. k = i \/ k < i
      BY <2>3, <2>7
    <3>2. G[k][g] = G[k][f]
      BY <2>3, <2>6, <3>1
    <3>3. k < i => f[k] = G[k][f]
      BY <2>1, <2>2
    <3> QED
      BY <2>3, <2>5, <3>1, <3>2, <3>3
  <2>8. Solves(m + 1, g)
    BY <2>3, <2>7
  <2> HIDE DEF Solves, F
  <2> QED
    BY <2>3, <2>5, <2>8
<1>3. L \in Nat
  OBVIOUS
<1>4. PICK f \in F : Solves(L, f)
  <2> HIDE DEF T, L
  <2>1. 0 .. L \subseteq T
    BY <1>1, <1>2, <1>3, UptoInduction
  <2>2. L \in T
    BY <1>3, <2>1
  <2> QED
    BY <2>2 DEF T
<1>5. \A k \in M .. N : k < M + L
  OBVIOUS
<1>6. \A k \in M .. N : f[k] = G[k][f]
  BY <1>4, <1>5
<1> QED
  BY <1>4, <1>6 DEF Ascents
=============================================================================
