--------------------------- MODULE DelaysProofs ---------------------------
(***************************************************************************)
(* Lemmas about exponential waits: powers of two, and the time a pass of   *)
(* classify has spent by each of its attempts.                             *)
(***************************************************************************)
EXTENDS Delays, FiniteSetTheorems, FunctionTheorems, TLAPS

\* The powers of two, by way of the subsets they count: naturals from 1 up,
\* and growing with their exponent.
LEMMA PowerCounts ==
    ASSUME NEW k \in Nat
    PROVE  /\ IsFiniteSet(SUBSET (1 .. k))
           /\ 2^k = Cardinality(SUBSET (1 .. k))
           /\ 2^k \in Nat
<1>1. IsFiniteSet(1 .. k) /\ Cardinality(1 .. k) = k
  BY FS_Interval
<1>2. /\ IsFiniteSet(SUBSET (1 .. k))
      /\ Cardinality(SUBSET (1 .. k)) = 2^k
  BY <1>1, FS_SUBSET
<1> QED BY <1>2, FS_CardinalityType

LEMMA PowerZero == 2^0 = 1
<1>1. 1 .. 0 = {}
  OBVIOUS
<1>2. SUBSET {} = {{}}
  OBVIOUS
<1>3. Cardinality({{}}) = 1
  BY FS_Singleton
<1> QED BY <1>1, <1>2, <1>3, PowerCounts

LEMMA PowerGrows ==
    ASSUME NEW k \in Nat, NEW n \in Nat, k <= n
    PROVE  2^k <= 2^n
<1>1. SUBSET (1 .. k) \subseteq SUBSET (1 .. n)
  OBVIOUS
<1>2. Cardinality(SUBSET (1 .. k)) <= Cardinality(SUBSET (1 .. n))
  BY <1>1, PowerCounts, FS_Subset
<1> QED BY <1>2, PowerCounts

\* Half the subsets of 1 .. k+1 hold k+1.
LEMMA PowerDoubles ==
    ASSUME NEW k \in Nat
    PROVE  2^(k + 1) = 2^k + 2^k
<1> DEFINE S == SUBSET (1 .. k)
           T == {X \cup {k + 1} : X \in S}
           f == [X \in S |-> X \cup {k + 1}]
<1>1. SUBSET (1 .. k + 1) = S \cup T
  <2>1. 1 .. k + 1 = (1 .. k) \cup {k + 1}
    OBVIOUS
  <2>2. ASSUME NEW Y \in SUBSET (1 .. k + 1), Y \notin S
        PROVE  Y \in T
    <3>1. Y \ {k + 1} \in S
      BY <2>1
    <3>2. Y = (Y \ {k + 1}) \cup {k + 1}
      BY <2>1, <2>2
    <3> QED BY <3>1, <3>2
  <2>3. S \cup T \subseteq SUBSET (1 .. k + 1)
    BY <2>1
  <2> QED BY <2>2, <2>3
<1>2. S \cap T = {}
  <2>1. k + 1 \notin 1 .. k
    OBVIOUS
  <2> QED BY <2>1
<1>3. IsFiniteSet(S) /\ Cardinality(S) = 2^k
  BY PowerCounts
<1>4. ExistsBijection(S, T)
  <2>1. f \in [S -> T]
    OBVIOUS
  <2>2. ASSUME NEW X \in S, NEW Y \in S, f[X] = f[Y]
        PROVE  X = Y
    <3>1. X \cup {k + 1} = Y \cup {k + 1}
      BY <2>2
    <3>2. k + 1 \notin X /\ k + 1 \notin Y
      OBVIOUS
    <3> QED BY <3>1, <3>2
  <2>3. \A Z \in T : \E X \in S : f[X] = Z
    OBVIOUS
  <2>4. f \in Bijection(S, T)
    BY <2>1, <2>2, <2>3, Fun_IsBij
  <2> QED BY <2>4 DEF ExistsBijection
<1>5. IsFiniteSet(T) /\ Cardinality(T) = Cardinality(S)
  BY <1>3, <1>4, FS_Bijection
<1>6. 2^(k + 1) = Cardinality(S \cup T)
  <2>1. k + 1 \in Nat
    OBVIOUS
  <2>2. 2^(k + 1) = Cardinality(SUBSET (1 .. k + 1))
    BY <2>1, PowerCounts, Zenon
  <2> QED BY <1>1, <2>2
<1> HIDE DEF S, T
<1>7. Cardinality(S \cup T) = Cardinality(S) + Cardinality(T) - Cardinality(S \cap T)
  BY <1>3, <1>5, FS_Union
<1>8. Cardinality(S \cap T) = 0
  BY <1>2, FS_EmptySet
<1> QED BY <1>3, <1>5, <1>6, <1>7, <1>8, PowerCounts

---------------------------------------------------------------------------
(***************************************************************************)
(* Passes.                                                                 *)
(***************************************************************************)

\* What a pass has spent is a natural number of seconds.
LEMMA SpentType ==
    ASSUME NEW k \in Nat
    PROVE  SpentBefore(k) \in Nat
<1> DEFINE p == 2^k
<1>1. p \in Nat /\ p >= 1
  <2>1. 0 \in Nat /\ 0 <= k
    OBVIOUS
  <2>2. 2^0 <= 2^k
    BY <2>1, PowerGrows, Zenon
  <2> QED BY <2>2, PowerCounts, PowerZero
<1> HIDE DEF p
<1>2. k * CallTimeout \in Nat /\ BackoffBase * (p - 1) \in Nat
  BY <1>1, DelaysAssumption
<1> QED BY <1>2 DEF SpentBefore, p

\* A failed attempt that another one follows takes the time between their
\* starts.
LEMMA SpentStep ==
    ASSUME NEW k \in Nat
    PROVE  SpentBefore(k + 1) = SpentBefore(k) + CallTimeout + BackoffBase * 2^k
<1> DEFINE p == 2^k
           q == 2^(k + 1)
<1>1. p \in Nat /\ q = p + p
  BY PowerCounts, PowerDoubles
<1> HIDE DEF p, q
<1>2. (k + 1) * CallTimeout = k * CallTimeout + CallTimeout
  BY DelaysAssumption
<1>3. BackoffBase * (q - 1) = BackoffBase * (p - 1) + BackoffBase * p
  BY <1>1, DelaysAssumption
<1>4. /\ k * CallTimeout \in Int /\ BackoffBase * (p - 1) \in Int
      /\ BackoffBase * p \in Int
  BY <1>1, DelaysAssumption
<1> QED BY <1>2, <1>3, <1>4, DelaysAssumption DEF SpentBefore, p, q

\* Whatever attempt gets the answer, its pass is over within PassTime.
LEMMA SpentWithin ==
    ASSUME NEW k \in 0 .. MaxCallAttempts - 1
    PROVE  SpentBefore(k) + CallTimeout <= PassTime
<1> DEFINE p == 2^k
           q == 2^(MaxCallAttempts - 1)
<1>1. p \in Nat /\ q \in Nat /\ p <= q
  <2>1. k \in Nat /\ MaxCallAttempts - 1 \in Nat /\ k <= MaxCallAttempts - 1
    BY DelaysAssumption
  <2> QED BY <2>1, PowerCounts, PowerGrows
<1> HIDE DEF p, q
<1>2. k * CallTimeout + CallTimeout <= MaxCallAttempts * CallTimeout
  BY DelaysAssumption
<1>3. BackoffBase * (p - 1) <= BackoffBase * (q - 1)
  BY <1>1, DelaysAssumption
<1>4. /\ k * CallTimeout \in Int /\ MaxCallAttempts * CallTimeout \in Int
      /\ BackoffBase * (p - 1) \in Int /\ BackoffBase * (q - 1) \in Int
  BY <1>1, DelaysAssumption
<1> QED BY <1>2, <1>3, <1>4, DelaysAssumption DEF SpentBefore, PassTime, p, q

LEMMA PassTimeType == PassTime \in Nat
<1>1. 0 \in 0 .. MaxCallAttempts - 1
  BY DelaysAssumption
<1>2. PassTime \in Int
  <2>1. MaxCallAttempts - 1 \in Nat
    BY DelaysAssumption
  <2>2. 2^(MaxCallAttempts - 1) \in Nat
    BY <2>1, PowerCounts
  <2> QED BY <2>2, DelaysAssumption DEF PassTime
<1> QED BY <1>1, <1>2, SpentWithin, SpentType, DelaysAssumption
===========================================================================
