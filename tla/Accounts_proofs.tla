--------------------------- MODULE Accounts_proofs --------------------------
(***************************************************************************)
(* Facts about the sum of costs.  The library states induction over Nat    *)
(* with an operator parameter, which the provers cannot instantiate, so    *)
(* the inductions below are by smallest counterexample: the initial        *)
(* segments of Nat are finite sets, strict inclusion of finite sets is     *)
(* well founded, and a well-founded relation has minimal elements.         *)
(***************************************************************************)
EXTENDS Accounts, FiniteSetTheorems, TLAPS

(* Every non-empty set of naturals has a least element.                     *)
LEMMA LeastNumber ==
    ASSUME NEW T, T \subseteq Nat, T # {}
    PROVE  \E x \in T : \A y \in T : x <= y
<1> DEFINE R == StrictSubsetOrdering(Nat)
           F == FiniteSubsetsOf(Nat)
           Segments == {1..n : n \in T}
<1>1. IsWellFoundedOn(R, F)
  BY FS_StrictSubsetOrderingWellFounded, Zenon
<1>2. \A n \in Nat : 1..n \in F
  <2> SUFFICES ASSUME NEW n \in Nat
               PROVE  1..n \in F
    OBVIOUS
  <2>1. IsFiniteSet(1..n)
    BY FS_Interval, n \in Int, 1 \in Int, Zenon
  <2>2. 1..n \subseteq Nat
    BY SMT
  <2> QED
    BY <2>1, <2>2, Zenon DEF FiniteSubsetsOf
<1>3. Segments \subseteq F /\ Segments # {}
  BY <1>2
<1>4. PICK X \in Segments : \A Y \in Segments : ~ (<<Y, X>> \in R)
  <2> HIDE DEF R, F, Segments
  <2> QED BY <1>1, <1>3, WFMin, Zenon
<1>5. PICK x \in T : X = 1..x
  BY <1>4
<1>6. ASSUME NEW y \in T
      PROVE  x <= y
  <2>1. SUFFICES ASSUME y < x PROVE FALSE
    BY SMT
  <2>2. 1..y \subseteq 1..x /\ 1..y # 1..x
    <3>1. x \in 1..x /\ x \notin 1..y
      BY <2>1, SMT
    <3>2. 1..y \subseteq 1..x
      BY <2>1, SMT
    <3> QED BY <3>1, <3>2
  <2>3. 1..y \in SUBSET Nat /\ 1..x \in SUBSET Nat
    BY SMT
  <2>4. <<1..y, 1..x>> \in R
    BY <2>2, <2>3, Zenon DEF StrictSubsetOrdering
  <2> QED
    BY <2>4, <1>4, <1>5, Zenon
<1> QED
  BY <1>6

-----------------------------------------------------------------------------
\* The recursion that defines CostUpTo(S), of a function f on 0..m.
Accumulates(S, f, m) ==
    f = [n \in 0..m |->
            IF n = 0 THEN 0
                     ELSE f[n - 1] + (IF n \in S THEN Cost[n] ELSE 0)]

(* The recursion has a solution on every initial segment.                   *)
LEMMA AccumulatesExists ==
    ASSUME NEW S
    PROVE  \A m \in 0..N : \E f : Accumulates(S, f, m)
<1> USE NAssumption
<1> DEFINE T == {m \in 0..N : ~ \E f : Accumulates(S, f, m)}
<1> SUFFICES ASSUME T # {} PROVE FALSE
  OBVIOUS
<1>1. PICK m \in T : \A k \in T : m <= k
  <2>1. T \subseteq Nat
    BY SMT
  <2> HIDE DEF T
  <2> QED BY <2>1, LeastNumber
<1>2. m \in 0..N
  OBVIOUS
<1>3. CASE m = 0
  <2>1. Accumulates(S, [n \in 0..0 |-> 0], 0)
    BY SMT DEF Accumulates
  <2> QED BY <2>1, <1>3, Zenon
<1>4. CASE m # 0
  <2>1. m - 1 \in 0..N /\ m - 1 \notin T
    BY <1>1, <1>2, <1>4, SMT
  <2>2. PICK g : Accumulates(S, g, m - 1)
    BY <2>1
  <2> DEFINE f == [n \in 0..m |->
                     IF n = m THEN g[m - 1] + (IF m \in S THEN Cost[m] ELSE 0)
                              ELSE g[n]]
  <2>3. ASSUME NEW n \in 0..m
        PROVE  f[n] = IF n = 0 THEN 0
                               ELSE f[n - 1] + (IF n \in S THEN Cost[n] ELSE 0)
    <3>1. CASE n = m
      <4>1. m - 1 \in 0..m /\ m - 1 # m
        BY <1>2, <1>4, SMT
      <4>2. f[m - 1] = g[m - 1]
        BY <4>1
      <4> QED BY <3>1, <4>2, <1>4
    <3>2. CASE n = 0
      <4>1. g[0] = 0
        BY <2>2, <1>2, <1>4, SMT DEF Accumulates
      <4> QED BY <3>2, <4>1, <1>4
    <3>3. CASE n # m /\ n # 0
      <4>1. n \in 0..(m - 1) /\ n - 1 \in 0..m /\ n - 1 # m
        BY <3>3, <1>2, SMT
      <4>2. f[n] = g[n] /\ f[n - 1] = g[n - 1]
        BY <4>1, <3>3
      <4>3. g[n] = g[n - 1] + (IF n \in S THEN Cost[n] ELSE 0)
        BY <2>2, <4>1, <3>3, Zenon DEF Accumulates
      <4> HIDE DEF f
      <4> QED BY <4>2, <4>3, <3>3, Zenon
    <3> QED BY <3>1, <3>2, <3>3
  <2>4. Accumulates(S, f, m)
    BY <2>3, Zenon DEF Accumulates
  <2> QED BY <2>4, Zenon
<1> QED
  BY <1>3, <1>4

(* CostUpTo satisfies the recursion it is defined by.                       *)
LEMMA CostUpToRecursion ==
    ASSUME NEW S
    PROVE  Accumulates(S, CostUpTo(S), N)
<1>1. \E f : Accumulates(S, f, N)
  BY AccumulatesExists, NAssumption, SMT
<1> QED
  BY <1>1, Zenon DEF Accumulates, CostUpTo

-----------------------------------------------------------------------------
LEMMA CostUpToStep ==
    ASSUME NEW S
    PROVE  /\ CostUpTo(S)[0] = 0
           /\ \A n \in 1..N :
                 CostUpTo(S)[n] =
                   CostUpTo(S)[n - 1] + (IF n \in S THEN Cost[n] ELSE 0)
<1> DEFINE c == CostUpTo(S)
<1>1. c = [n \in 0..N |->
             IF n = 0 THEN 0
                      ELSE c[n - 1] + (IF n \in S THEN Cost[n] ELSE 0)]
  BY CostUpToRecursion, Zenon DEF Accumulates
<1> HIDE DEF c
<1>2. c[0] = 0
  BY <1>1, NAssumption, SMT
<1>3. ASSUME NEW n \in 1..N
      PROVE  c[n] = c[n - 1] + (IF n \in S THEN Cost[n] ELSE 0)
  <2>1. n \in 0..N /\ n # 0
    BY NAssumption, SMT
  <2> QED BY <1>1, <2>1, Zenon
<1> QED
  BY <1>2, <1>3 DEF c

(* Partial sums are naturals.                                               *)
LEMMA CostUpToType ==
    ASSUME NEW S
    PROVE  \A n \in 0..N : CostUpTo(S)[n] \in Nat
<1> DEFINE c == CostUpTo(S)
           T == {n \in 0..N : c[n] \notin Nat}
<1> SUFFICES ASSUME T # {} PROVE FALSE
  OBVIOUS
<1>1. PICK m \in T : \A k \in T : m <= k
  <2>1. T \subseteq Nat
    BY NAssumption, SMT
  <2> HIDE DEF T
  <2> QED BY <2>1, LeastNumber
<1>2. m # 0
  BY CostUpToStep
<1>3. m \in 1..N /\ m - 1 \in 0..N /\ m - 1 \notin T
  BY <1>1, <1>2, NAssumption, SMT
<1>4. Cost[m] \in Nat
  BY <1>3, CostAssumption DEF Jobs
<1>5. c[m - 1] \in Nat
  BY <1>3
<1>6. c[m] = c[m - 1] + (IF m \in S THEN Cost[m] ELSE 0)
  BY <1>3, CostUpToStep
<1> QED
  BY <1>4, <1>5, <1>6, SMT

LEMMA CostOfType ==
    ASSUME NEW S
    PROVE  CostOf(S) \in Nat
BY CostUpToType, NAssumption, SMT DEF CostOf

(* A set with no job in it costs nothing.                                   *)
LEMMA CostOfEmpty == CostOf({}) = 0
<1> DEFINE c == CostUpTo({})
           T == {n \in 0..N : c[n] # 0}
<1> SUFFICES ASSUME T # {} PROVE FALSE
  BY NAssumption, SMT DEF CostOf
<1>1. PICK m \in T : \A k \in T : m <= k
  <2>1. T \subseteq Nat
    BY NAssumption, SMT
  <2> HIDE DEF T
  <2> QED BY <2>1, LeastNumber
<1>2. m # 0
  BY CostUpToStep
<1>3. m \in 1..N /\ m - 1 \in 0..N /\ m - 1 \notin T
  BY <1>1, <1>2, NAssumption, SMT
<1>4. c[m] = c[m - 1] + 0
  BY <1>3, CostUpToStep
<1> QED
  BY <1>3, <1>4, SMT

(* Adding one job adds its cost once.                                       *)
LEMMA CostOfAdd ==
    ASSUME NEW S, NEW j \in Jobs, j \notin S
    PROVE  CostOf(S \cup {j}) = CostOf(S) + Cost[j]
<1> DEFINE c == CostUpTo(S)
           d == CostUpTo(S \cup {j})
           Extra(n) == IF j <= n THEN Cost[j] ELSE 0
           T == {n \in 0..N : d[n] # c[n] + Extra(n)}
<1>1. j \in 1..N /\ Cost[j] \in Nat
  BY CostAssumption DEF Jobs
<1>2. T = {}
  <2> SUFFICES ASSUME T # {} PROVE FALSE
    OBVIOUS
  <2>1. PICK m \in T : \A k \in T : m <= k
    <3>1. T \subseteq Nat
      BY NAssumption, SMT
    <3> HIDE DEF T
    <3> QED BY <3>1, LeastNumber
  <2>2. m # 0
    <3>1. c[0] = 0 /\ d[0] = 0
      BY CostUpToStep
    <3>2. 0 \notin T
      BY <3>1, <1>1, NAssumption, SMT
    <3> QED BY <3>2
  <2>3. m \in 1..N /\ m - 1 \in 0..N /\ m - 1 \notin T
    <3>1. m \in 0..N
      OBVIOUS
    <3> HIDE DEF T
    <3> QED BY <3>1, <2>1, <2>2, NAssumption, SMT
  <2>4. d[m - 1] = c[m - 1] + Extra(m - 1)
    BY <2>3
  <2>5. /\ c[m] = c[m - 1] + (IF m \in S THEN Cost[m] ELSE 0)
        /\ d[m] = d[m - 1] + (IF m \in S \cup {j} THEN Cost[m] ELSE 0)
    BY <2>3, CostUpToStep
  <2>6. c[m - 1] \in Nat /\ Cost[m] \in Nat
    BY <2>3, CostUpToType, CostAssumption DEF Jobs
  <2>7. d[m] = c[m] + Extra(m)
    <3>1. CASE m = j
      <4>1. Extra(m) = Cost[j] /\ Extra(m - 1) = 0
        BY <3>1, <2>3, SMT
      <4> QED BY <3>1, <4>1, <2>4, <2>5, <2>6, SMT
    <3>2. CASE m # j
      <4>1. Extra(m) = Extra(m - 1)
        BY <3>2, <2>3, <1>1, SMT
      <4>2. Extra(m) \in Nat
        BY <1>1
      <4>3. (m \in S \cup {j}) = (m \in S)
        BY <3>2
      <4> HIDE DEF Extra, c, d
      <4> QED BY <4>1, <4>2, <4>3, <2>4, <2>5, <2>6, SMT
    <3> QED BY <3>1, <3>2
  <2> QED
    BY <2>3, <2>7
<1>3. N \in 0..N /\ j <= N
  BY <1>1, NAssumption, SMT
<1> QED
  BY <1>2, <1>3 DEF CostOf

(* A set of jobs costs at least what any of its subsets costs.              *)
LEMMA CostOfMonotone ==
    ASSUME NEW S, NEW S1, S \subseteq S1
    PROVE  CostOf(S) <= CostOf(S1)
<1> DEFINE c == CostUpTo(S)
           d == CostUpTo(S1)
           T == {n \in 0..N : ~ (c[n] <= d[n])}
<1> SUFFICES ASSUME T # {} PROVE FALSE
  BY NAssumption, SMT DEF CostOf
<1>1. PICK m \in T : \A k \in T : m <= k
  <2>1. T \subseteq Nat
    BY NAssumption, SMT
  <2> HIDE DEF T
  <2> QED BY <2>1, LeastNumber
<1>2. m # 0
  <2>1. c[0] = 0 /\ d[0] = 0
    BY CostUpToStep
  <2> QED BY <2>1
<1>3. m \in 1..N /\ m - 1 \in 0..N /\ m - 1 \notin T
  BY <1>1, <1>2, NAssumption, SMT
<1>4. c[m - 1] <= d[m - 1]
  BY <1>3
<1>5. /\ c[m] = c[m - 1] + (IF m \in S THEN Cost[m] ELSE 0)
      /\ d[m] = d[m - 1] + (IF m \in S1 THEN Cost[m] ELSE 0)
  BY <1>3, CostUpToStep
<1>6. Cost[m] \in Nat /\ c[m - 1] \in Nat /\ d[m - 1] \in Nat
  BY <1>3, CostAssumption, CostUpToType DEF Jobs
<1>7. ~ (c[m] <= d[m])
  OBVIOUS
<1> HIDE DEF c, d
<1> QED
  BY <1>4, <1>5, <1>6, <1>7, SMT

-----------------------------------------------------------------------------
(* What one user has spent.                                                 *)

LEMMA SpentType ==
    ASSUME NEW S, NEW u
    PROVE  Spent(S, u) \in Nat
BY CostOfType DEF Spent

LEMMA SpentNothing ==
    ASSUME NEW u
    PROVE  Spent({}, u) = 0
<1>1. JobsOf({}, u) = {}
  BY DEF JobsOf
<1> QED
  BY <1>1, CostOfEmpty DEF Spent

(* Charging a job charges its owner, and nobody else.                       *)
LEMMA SpentAdd ==
    ASSUME NEW S, NEW j \in Jobs, j \notin S, NEW u
    PROVE  Spent(S \cup {j}, u) =
             Spent(S, u) + (IF Owner[j] = u THEN Cost[j] ELSE 0)
<1>1. CASE Owner[j] = u
  <2>1. JobsOf(S \cup {j}, u) = JobsOf(S, u) \cup {j} /\ j \notin JobsOf(S, u)
    BY <1>1 DEF JobsOf
  <2>2. CostOf(JobsOf(S, u) \cup {j}) = CostOf(JobsOf(S, u)) + Cost[j]
    BY <2>1, CostOfAdd
  <2> QED BY <1>1, <2>1, <2>2 DEF Spent
<1>2. CASE Owner[j] # u
  <2>1. JobsOf(S \cup {j}, u) = JobsOf(S, u)
    BY <1>2 DEF JobsOf
  <2>2. Spent(S, u) \in Nat
    BY SpentType
  <2>3. Spent(S \cup {j}, u) = Spent(S, u)
    BY <2>1 DEF Spent
  <2> QED BY <1>2, <2>2, <2>3
<1> QED
  BY <1>1, <1>2

(* Returning quota never raises what anybody has spent.                     *)
LEMMA SpentMonotone ==
    ASSUME NEW S, NEW S1, S \subseteq S1, NEW u
    PROVE  Spent(S, u) <= Spent(S1, u)
<1>1. JobsOf(S, u) \subseteq JobsOf(S1, u)
  BY DEF JobsOf
<1> QED
  BY <1>1, CostOfMonotone DEF Spent

=============================================================================
