-------------------------- MODULE SharedDataProofs --------------------------
(***************************************************************************)
(* Proofs about the data that the services share without a lock.           *)
(*                                                                         *)
(* A live fragment, for any rows, writes, requests under way and breaks:   *)
(* the types with what a current page and two writers may never be, and    *)
(* that a fragment that is replaced never goes back.  The start, for any   *)
(* services, columns and first passwords: what is there when a service is  *)
(* ready.  The picture directory, for any monitors, pictures, sizes,       *)
(* limits and batches: why a picture is deleted, and what a deleted        *)
(* monitor leaves behind.  The logs, for any number and sizes of them.     *)
(***************************************************************************)
EXTENDS LivePage, Startup, SnapshotStore, LogCleanup, FiniteSetTheorems,
        WellFoundedInduction, TLAPS

-----------------------------------------------------------------------------
(***************************************************************************)
(* Sums over finite sets, and the largest and the smallest of some numbers.*)
(***************************************************************************)

\* A family of subsets of a finite set that has every subset whose parts of one element
\* less it has, has them all.
LEMMA SubsetInduction ==
    ASSUME NEW S, IsFiniteSet(S), NEW Good \in SUBSET (SUBSET S),
           \A T \in SUBSET S : (\A x \in T : T \ {x} \in Good) => T \in Good
    PROVE  Good = SUBSET S
<1> DEFINE bad == (SUBSET S) \ Good
<1> SUFFICES ASSUME bad # {} PROVE FALSE
  OBVIOUS
<1>1. bad \subseteq FiniteSubsetsOf(S)
  BY FS_Subset DEF FiniteSubsetsOf
<1>2. PICK T \in bad : \A U \in bad : <<U, T>> \notin StrictSubsetOrdering(S)
  <2> HIDE DEF bad
  <2>1. QED
    BY <1>1, WFMin, FS_StrictSubsetOrderingWellFounded
<1>3. ASSUME NEW x \in T PROVE T \ {x} \in Good
  <2>1. T \ {x} \in SUBSET S /\ T \in SUBSET S /\ T \ {x} \subseteq T /\ T \ {x} # T
    OBVIOUS
  <2>2. <<T \ {x}, T>> \in StrictSubsetOrdering(S)
    BY <2>1, Zenon DEF StrictSubsetOrdering
  <2>3. QED
    BY <1>2, <2>1, <2>2
<1>4. QED
  BY <1>2, <1>3

\* The recursive function in the definition of a sum over U of what w gives its elements.
Pick(s) == CHOOSE x \in s : TRUE
Sums(w, U, f) ==
    f = [s \in SUBSET U |-> IF s = {} THEN 0 ELSE w[Pick(s)] + f[s \ {Pick(s)}]]
SumsOf(w, U) == CHOOSE f : Sums(w, U, f)

\* The sum is that function's value at the whole set.
LEMMA SumIsSumsOf ==
    ASSUME NEW w, NEW U
    PROVE  SumFunctionOnSet(w, U) = SumsOf(w, U)[U]
BY DEF SumFunctionOnSet, FoldFunctionOnSet, MapThenFoldSet, SumsOf, Sums, Pick

\* An element is picked of a set that has one.
LEMMA PickFacts == \A s : s # {} => Pick(s) \in s
  BY DEF Pick

\* What such a function says of one set.
LEMMA SumsFacts ==
    ASSUME NEW w, NEW U, NEW f, Sums(w, U, f)
    PROVE  \A s \in SUBSET U : f[s] = IF s = {} THEN 0 ELSE w[Pick(s)] + f[s \ {Pick(s)}]
<1>1. f = [s \in SUBSET U |-> IF s = {} THEN 0 ELSE w[Pick(s)] + f[s \ {Pick(s)}]]
  BY DEF Sums
<1>2. QED
  BY <1>1, Zenon

\* Two of them agree where both are defined.
LEMMA SumsAgree ==
    ASSUME NEW w, NEW U, NEW V, IsFiniteSet(U), V \subseteq U,
           NEW f, NEW g, Sums(w, U, f), Sums(w, V, g)
    PROVE  \A s \in SUBSET V : f[s] = g[s]
<1> DEFINE Good == {s \in SUBSET V : f[s] = g[s]}
<1>1. IsFiniteSet(V)
  BY FS_Subset
<1>2. ASSUME NEW s \in SUBSET V, \A x \in s : s \ {x} \in Good
      PROVE  s \in Good
  <2>1. CASE s = {}
    BY <2>1, SumsFacts
  <2>2. CASE s # {}
    <3>1. Pick(s) \in s
      BY <2>2, PickFacts
    <3>2. f[s \ {Pick(s)}] = g[s \ {Pick(s)}]
      BY <1>2, <3>1
    <3>3. f[s] = w[Pick(s)] + f[s \ {Pick(s)}]
      <4>1. \A t \in SUBSET U : f[t] = IF t = {} THEN 0 ELSE w[Pick(t)] + f[t \ {Pick(t)}]
        BY SumsFacts
      <4>2. QED
        BY <2>2, <4>1, Zenon
    <3>4. g[s] = w[Pick(s)] + g[s \ {Pick(s)}]
      <4>1. \A t \in SUBSET V : g[t] = IF t = {} THEN 0 ELSE w[Pick(t)] + g[t \ {Pick(t)}]
        BY Zenon DEF Sums
      <4>2. QED
        BY <2>2, <4>1, Zenon
    <3>5. QED
      BY <3>2, <3>3, <3>4
  <2>3. QED
    BY <2>1, <2>2
<1>3. Good = SUBSET V
  <2> HIDE DEF Good
  <2>1. Good \in SUBSET (SUBSET V)
    BY DEF Good
  <2>2. QED
    BY <1>1, <1>2, <2>1, SubsetInduction
<1>4. QED
  BY <1>3

\* There is such a function for every finite set.
LEMMA SumsExist ==
    ASSUME NEW w, NEW S, IsFiniteSet(S)
    PROVE  \A U \in SUBSET S : Sums(w, U, SumsOf(w, U))
<1> DEFINE Good == {U \in SUBSET S : Sums(w, U, SumsOf(w, U))}
<1>1. \A U \in SUBSET S : (\E f : Sums(w, U, f)) => U \in Good
  BY DEF SumsOf
<1>2. \A U \in Good : U \in SUBSET S /\ IsFiniteSet(U) /\ Sums(w, U, SumsOf(w, U))
  BY FS_Subset
<1>3. ASSUME NEW U \in Good, NEW V \in SUBSET U
      PROVE  V \in Good
  <2> DEFINE g == [s \in SUBSET V |-> SumsOf(w, U)[s]]
  <2>1. \A s \in SUBSET V : g[s] = IF s = {} THEN 0 ELSE w[Pick(s)] + g[s \ {Pick(s)}]
    <3>1. Sums(w, U, SumsOf(w, U))
      BY <1>2
    <3>2. \A s \in SUBSET V : g[s] = SumsOf(w, U)[s]
      OBVIOUS
    <3> HIDE DEF g
    <3>3. ASSUME NEW s \in SUBSET V
          PROVE  g[s] = IF s = {} THEN 0 ELSE w[Pick(s)] + g[s \ {Pick(s)}]
      <4>1. s \in SUBSET U /\ s \ {Pick(s)} \in SUBSET V
        OBVIOUS
      <4>2. SumsOf(w, U)[{}] = 0
        BY <3>1, SumsFacts
      <4>3. s # {} => SumsOf(w, U)[s] = w[Pick(s)] + SumsOf(w, U)[s \ {Pick(s)}]
        <5>1. \A t \in SUBSET U :
                 SumsOf(w, U)[t] = IF t = {} THEN 0 ELSE w[Pick(t)] + SumsOf(w, U)[t \ {Pick(t)}]
          BY <3>1, SumsFacts
        <5>2. QED
          BY <4>1, <5>1, Zenon
      <4>4. QED
        BY <3>2, <4>1, <4>2, <4>3
    <3>4. QED
      BY <3>3
  <2>2. Sums(w, V, g)
    <3>1. g = [s \in SUBSET V |-> g[s]]
      OBVIOUS
    <3> HIDE DEF g
    <3>2. QED
      BY <2>1, <3>1, Zenon DEF Sums
  <2>3. V \in SUBSET S
    BY <1>2
  <2>4. QED
    BY <1>1, <2>2, <2>3
<1>4. ASSUME NEW U \in SUBSET S, \A x \in U : U \ {x} \in Good
      PROVE  U \in Good
  <2>1. \A V \in SUBSET U : V # U => V \in Good
    <3>1. SUFFICES ASSUME NEW V \in SUBSET U, V # U PROVE V \in Good
      OBVIOUS
    <3>2. PICK x \in U : V \subseteq U \ {x}
      BY <3>1
    <3>3. U \ {x} \in Good
      BY <1>4
    <3> HIDE DEF Good
    <3>4. QED
      BY <1>3, <3>2, <3>3
  <2> DEFINE top == IF U = {} THEN 0 ELSE w[Pick(U)] + SumsOf(w, U \ {Pick(U)})[U \ {Pick(U)}]
             f == [s \in SUBSET U |-> IF s = U THEN top ELSE SumsOf(w, s)[s]]
  <2>2. \A s \in SUBSET U : f[s] = IF s = U THEN top ELSE SumsOf(w, s)[s]
    OBVIOUS
  <2>3. f = [s \in SUBSET U |-> f[s]]
    OBVIOUS
  <2> HIDE DEF f, Good
  <2>4. ASSUME NEW s \in SUBSET U
        PROVE  f[s] = IF s = {} THEN 0 ELSE w[Pick(s)] + f[s \ {Pick(s)}]
    <3> DEFINE rest == s \ {Pick(s)}
    <3>1. s # {} => Pick(s) \in s /\ rest \in SUBSET s /\ rest # s
      BY PickFacts
    <3>2. s # {} => f[rest] = SumsOf(w, rest)[rest]
      <4>1. rest \in SUBSET U
        OBVIOUS
      <4>2. s # {} => rest # U
        BY <3>1
      <4>3. QED
        BY <2>2, <4>1, <4>2
    <3>3. CASE s = U
      <4>1. f[s] = top
        BY <2>2, <3>3
      <4>2. QED
        BY <3>2, <3>3, <4>1
    <3>4. CASE s # U
      <4>1. f[s] = SumsOf(w, s)[s] /\ s \in Good
        BY <2>1, <2>2, <3>4
      <4>2. Sums(w, s, SumsOf(w, s)) /\ IsFiniteSet(s)
        BY <1>2, <4>1
      <4>3. CASE s = {}
        BY <4>1, <4>2, <4>3, SumsFacts
      <4>4. CASE s # {}
        <5>1. s \in SUBSET s
          OBVIOUS
        <5>2. f[s] = w[Pick(s)] + SumsOf(w, s)[rest]
          <6>1. \A t \in SUBSET s :
                   SumsOf(w, s)[t] = IF t = {} THEN 0 ELSE w[Pick(t)] + SumsOf(w, s)[t \ {Pick(t)}]
            BY <4>2, SumsFacts
          <6>2. QED
            BY <4>1, <4>4, <5>1, <6>1, Zenon
        <5>3. rest \in SUBSET U /\ rest # U
          BY <3>1, <4>4
        <5>4. Sums(w, rest, SumsOf(w, rest))
          BY <1>2, <2>1, <5>3
        <5>5. rest \subseteq s /\ rest \in SUBSET rest
          OBVIOUS
        <5> HIDE DEF rest
        <5>6. SumsOf(w, s)[rest] = SumsOf(w, rest)[rest]
          BY <4>2, <5>4, <5>5, SumsAgree
        <5>7. QED
          BY <3>2, <4>4, <5>2, <5>6 DEF rest
      <4>5. QED
        BY <4>3, <4>4
    <3>5. QED
      BY <3>3, <3>4
  <2>5. Sums(w, U, f)
    BY <2>3, <2>4, Zenon DEF Sums
  <2>6. QED
    BY <1>1, <2>5
<1>5. Good \in SUBSET (SUBSET S)
  OBVIOUS
<1> HIDE DEF Good
<1>6. Good = SUBSET S
  BY <1>4, <1>5, SubsetInduction
<1>7. QED
  BY <1>2, <1>6

\* The sum over a finite set S of natural numbers and over its parts.
LEMMA SumFacts ==
    ASSUME NEW w, NEW S, IsFiniteSet(S), \A x \in S : w[x] \in Nat
    PROVE  /\ SumFunctionOnSet(w, {}) = 0
           /\ \A T \in SUBSET S : SumFunctionOnSet(w, T) \in Nat
           /\ \A T \in SUBSET S : \A x \in T :
                 SumFunctionOnSet(w, T) = w[x] + SumFunctionOnSet(w, T \ {x})
<1> DEFINE F == SumsOf(w, S)
<1>1. Sums(w, S, F)
  BY SumsExist
<1>2. \A T \in SUBSET S : SumFunctionOnSet(w, T) = F[T]
  <2>1. SUFFICES ASSUME NEW T \in SUBSET S PROVE SumsOf(w, T)[T] = F[T]
    BY SumIsSumsOf
  <2>2. Sums(w, S, SumsOf(w, S)) /\ Sums(w, T, SumsOf(w, T))
    BY SumsExist
  <2>3. T \subseteq S /\ T \in SUBSET T
    OBVIOUS
  <2>4. SumsOf(w, S)[T] = SumsOf(w, T)[T]
    BY <2>2, <2>3, SumsAgree
  <2>5. QED
    BY <2>4
<1>3. \A s \in SUBSET S : F[s] = IF s = {} THEN 0 ELSE w[Pick(s)] + F[s \ {Pick(s)}]
  BY <1>1, SumsFacts
<1> HIDE DEF F
<1>4. F[{}] = 0
  BY <1>3
<1>5. \A T \in SUBSET S : F[T] \in Nat
  <2> DEFINE Good == {T \in SUBSET S : F[T] \in Nat}
  <2>1. ASSUME NEW T \in SUBSET S, \A x \in T : T \ {x} \in Good
        PROVE  T \in Good
    <3>1. CASE T = {}
      BY <1>4, <3>1
    <3>2. CASE T # {}
      <4>1. Pick(T) \in T
        BY <3>2, PickFacts
      <4>2. F[T] = w[Pick(T)] + F[T \ {Pick(T)}]
        BY <1>3, <3>2
      <4>3. F[T \ {Pick(T)}] \in Nat /\ w[Pick(T)] \in Nat
        BY <2>1, <4>1
      <4>4. QED
        BY <4>2, <4>3
    <3>3. QED
      BY <3>1, <3>2
  <2>2. Good \in SUBSET (SUBSET S)
    OBVIOUS
  <2> HIDE DEF Good
  <2>3. Good = SUBSET S
    BY <2>1, <2>2, SubsetInduction
  <2>4. QED
    BY <2>3 DEF Good
<1>6. \A T \in SUBSET S : \A x \in T : F[T] = w[x] + F[T \ {x}]
  <2> DEFINE Good == {T \in SUBSET S : \A x \in T : F[T] = w[x] + F[T \ {x}]}
  <2>1. ASSUME NEW T \in SUBSET S, \A x \in T : T \ {x} \in Good, NEW x \in T
        PROVE  F[T] = w[x] + F[T \ {x}]
    <3> DEFINE p == Pick(T)
               both == T \ {x, p}
    <3>1. p \in T
      BY PickFacts
    <3>2. F[T] = w[p] + F[T \ {p}]
      BY <1>3
    <3> HIDE DEF p
    <3>3. CASE x = p
      BY <3>2, <3>3
    <3>4. CASE x # p
      <4>1. (T \ {p}) \ {x} = both /\ (T \ {x}) \ {p} = both
        OBVIOUS
      <4>2. F[T \ {p}] = w[x] + F[both]
        <5>1. T \ {p} \in Good /\ x \in T \ {p}
          BY <2>1, <3>1, <3>4
        <5>2. QED
          BY <4>1, <5>1
      <4>3. F[T \ {x}] = w[p] + F[both]
        <5>1. T \ {x} \in Good /\ p \in T \ {x}
          BY <2>1, <3>1, <3>4
        <5>2. QED
          BY <4>1, <5>1
      <4>4. w[x] \in Nat /\ w[p] \in Nat /\ F[both] \in Nat
        <5>1. both \in SUBSET S /\ x \in S /\ p \in S
          BY <3>1
        <5>2. QED
          BY <1>5, <5>1
      <4>5. QED
        BY <3>2, <4>2, <4>3, <4>4
    <3>5. QED
      BY <3>3, <3>4
  <2>2. \A T \in SUBSET S : (\A x \in T : T \ {x} \in Good) => T \in Good
    BY <2>1
  <2>3. Good \in SUBSET (SUBSET S)
    OBVIOUS
  <2> HIDE DEF Good
  <2>4. Good = SUBSET S
    BY <2>2, <2>3, SubsetInduction
  <2>5. QED
    BY <2>4 DEF Good
<1>7. \A T \in SUBSET S : \A x \in T : T \ {x} \in SUBSET S
  OBVIOUS
<1>8. QED
  BY <1>2, <1>4, <1>5, <1>6, <1>7

\* A part of a finite set does not sum up to more.
LEMMA SumMonotone ==
    ASSUME NEW w, NEW S, IsFiniteSet(S), \A x \in S : w[x] \in Nat, NEW T \in SUBSET S
    PROVE  SumFunctionOnSet(w, T) <= SumFunctionOnSet(w, S)
<1> DEFINE Total(U) == SumFunctionOnSet(w, U)
           Good == {U \in SUBSET S : T \subseteq U => Total(T) <= Total(U)}
<1>1. \A U \in SUBSET S : Total(U) \in Nat /\ \A x \in U : Total(U) = w[x] + Total(U \ {x})
  BY SumFacts
<1> HIDE DEF Total
<1>2. ASSUME NEW U \in SUBSET S, \A x \in U : U \ {x} \in Good, T \subseteq U
      PROVE  Total(T) <= Total(U)
  <2>1. CASE T = U
    BY <1>1, <2>1
  <2>2. CASE T # U
    <3>1. PICK x \in U : T \subseteq U \ {x}
      BY <1>2, <2>2
    <3>2. Total(T) <= Total(U \ {x})
      BY <1>2, <3>1
    <3>3. Total(U) = w[x] + Total(U \ {x}) /\ w[x] \in Nat
      BY <1>1
    <3>4. Total(U \ {x}) \in Nat /\ Total(T) \in Nat
      BY <1>1
    <3>5. QED
      BY <3>2, <3>3, <3>4
  <2>3. QED
    BY <2>1, <2>2
<1>3. \A U \in SUBSET S : (\A x \in U : U \ {x} \in Good) => U \in Good
  BY <1>2
<1>4. Good \in SUBSET (SUBSET S)
  OBVIOUS
<1> HIDE DEF Good
<1>5. Good = SUBSET S
  BY <1>3, <1>4, SubsetInduction
<1>6. QED
  BY <1>5 DEF Good, Total

\* Max finds the largest of a non-empty set of numbers.
LEMMA MaxFacts ==
    ASSUME NEW n \in Nat, NEW S \in SUBSET (0 .. n), S # {}
    PROVE  Max(S) \in S /\ \A i \in S : i <= Max(S)
<1> DEFINE Rests == {i .. n : i \in S}
<1>1. Rests \subseteq FiniteSubsetsOf(0 .. n) /\ Rests # {}
  <2>1. ASSUME NEW i \in S
        PROVE  /\ i .. n \in SUBSET (0 .. n)
               /\ IsFiniteSet(i .. n)
    BY FS_Interval
  <2>2. QED
    BY <2>1 DEF FiniteSubsetsOf
<1>2. PICK X \in Rests : \A Y \in Rests : <<Y, X>> \notin StrictSubsetOrdering(0 .. n)
  <2> HIDE DEF Rests
  <2>1. QED
    BY <1>1, WFMin, FS_StrictSubsetOrderingWellFounded
<1>3. PICK i \in S : X = i .. n
  BY <1>2
<1>4. ASSUME NEW j \in S
      PROVE  i >= j
  <2>1. SUFFICES ASSUME i < j
                 PROVE  FALSE
    OBVIOUS
  <2>2. j .. n \subseteq i .. n /\ j .. n # i .. n
    BY <2>1
  <2>3. j .. n \in Rests
    OBVIOUS
  <2>4. /\ j .. n \in SUBSET (0 .. n)
        /\ i .. n \in SUBSET (0 .. n)
    OBVIOUS
  <2>5. <<j .. n, i .. n>> \in StrictSubsetOrdering(0 .. n)
    BY <2>2, <2>4, Zenon DEF StrictSubsetOrdering
  <2> HIDE DEF Rests
  <2>6. QED
    BY <1>2, <1>3, <2>3, <2>5
<1>5. QED
  BY <1>4 DEF Max

\* Min finds the smallest of a non-empty set of numbers.
LEMMA MinFacts ==
    ASSUME NEW n \in Nat, NEW S \in SUBSET (0 .. n), S # {}
    PROVE  Min(S) \in S /\ \A i \in S : Min(S) <= i
<1> DEFINE mirrored == {n - i : i \in S}
<1>1. mirrored \in SUBSET (0 .. n) /\ mirrored # {}
  <2>1. \A i \in S : n - i \in 0 .. n
    OBVIOUS
  <2>2. QED
    BY <2>1
<1>2. Max(mirrored) \in mirrored /\ \A j \in mirrored : j <= Max(mirrored)
  <2> HIDE DEF mirrored
  <2>1. QED
    BY <1>1, MaxFacts
<1>3. PICK i \in S : \A j \in S : n - j <= n - i
  BY <1>2
<1>4. \A j \in S : i <= j
  BY <1>3
<1>5. QED
  BY <1>4 DEF Min

-----------------------------------------------------------------------------
(***************************************************************************)
(* The live fragment.                                                      *)
(***************************************************************************)

\* The types of the records, which TypeOK leaves open.
RecordsOK ==
    /\ pending \in [Writers -> {None} \cup Rows \X Nat]
    /\ stream \in [open : BOOLEAN, previous : (0 .. clock) \X (0 .. Cardinality(Rows))]

Uncommitted(w) == IF pending[w] = None THEN 0 ELSE 1

\* Every tick of the clock is a change of the content, or one about to be committed.
ClockCountsChanges == clock = version + Uncommitted("worker") + Uncommitted("api")

\* An answer that will be put in the place of the page's element is not older than it,
\* that for the table around it apart.
AttachedAreNew ==
    topic \notin InPlace =>
        \A i \in Fetches :
            fetch[i].state = "answered" /\ fetch[i].attached /\ ~fetch[i].whole
                => fetch[i].version >= page

IInv ==
    /\ TypeOK
    /\ RecordsOK
    /\ ClockCountsChanges
    /\ AttachedAreNew

-----------------------------------------------------------------------------
(* The signature. *)

\* A signature is a timestamp that was given and a number of rows.
LEMMA SignatureFacts ==
    ASSUME IInv
    PROVE  Signature \in (0 .. clock) \X (0 .. Cardinality(Rows))
<1> DEFINE stamps == {rows[r] : r \in Rows} \cup {0}
           filled == {r \in Rows : rows[r] # 0}
<1>1. clock \in Nat /\ rows \in [Rows -> 0 .. clock]
  BY LiveAssumption DEF IInv, TypeOK
<1>2. stamps \in SUBSET (0 .. clock) /\ stamps # {}
  BY <1>1
<1> HIDE DEF stamps
<1>3. Max(stamps) \in 0 .. clock
  BY <1>1, <1>2, MaxFacts
<1>4. Cardinality(filled) \in 0 .. Cardinality(Rows) /\ 0 \in 0 .. Cardinality(Rows)
  <2>1. filled \subseteq Rows
    OBVIOUS
  <2> HIDE DEF filled
  <2>2. /\ Cardinality(filled) \in Nat /\ Cardinality(Rows) \in Nat
        /\ Cardinality(filled) <= Cardinality(Rows)
    BY <2>1, LiveAssumption, FS_Subset, FS_CardinalityType
  <2>3. QED
    BY <2>2
<1> HIDE DEF filled
<1>5. Signature = <<Max(stamps), IF topic \in Counted THEN Cardinality(filled) ELSE 0>>
  BY DEF Signature, SignatureOf, stamps, filled
<1>6. QED
  BY <1>3, <1>4, <1>5

-----------------------------------------------------------------------------
(***************************************************************************)
(* The tables.  What a writer does leaves the stream and the page alone,   *)
(* and only ever makes the timestamps and versions that may occur more.    *)
(***************************************************************************)

\* What TypeOK says of the writers.
PendingOK ==
    \A w \in Writers : pending[w] # None =>
        /\ pending[w] \in Rows \X (1 .. clock)
        /\ \A v \in Writers \ {w} : pending[v] # None => pending[v][2] # pending[w][2]

\* A step of a writer keeps the invariant when it keeps what that says of the tables.
LEMMA TablesStep ==
    ASSUME IInv,
           UNCHANGED <<topic, stream, browser, breaks>>,
           clock' \in clock .. MaxWrites, version' \in version .. clock',
           rows' \in [Rows -> 0 .. clock'],
           pending' \in [Writers -> {None} \cup Rows \X Nat], PendingOK',
           lost' \subseteq Reasons, page = version' => lost' = {},
           ClockCountsChanges'
    PROVE  IInv'
<1>1. /\ clock \in 1 .. MaxWrites /\ version \in 1 .. clock /\ page \in 0 .. version
      /\ MaxWrites \in Nat
      /\ UNCHANGED <<messages, fetch, page>>
  BY LiveAssumption DEF IInv, TypeOK, browser
<1>2. clock' \in 1 .. MaxWrites /\ version' \in 1 .. clock' /\ page' \in 0 .. version'
  BY <1>1
<1>3. stream' \in [open : BOOLEAN, previous : (0 .. clock') \X (0 .. Cardinality(Rows))]
  BY <1>1, <1>2 DEF IInv, RecordsOK
<1>4. fetch' \in [Fetches -> [state : {"free", "asked", "answered"}, version : 0 .. version',
                              attached : BOOLEAN, whole : BOOLEAN]]
  <2>1. \A x \in 0 .. version : x \in 0 .. version'
    BY <1>1
  <2>2. fetch \in [Fetches -> [state : {"free", "asked", "answered"},
                               version : 0 .. version, attached : BOOLEAN,
                               whole : BOOLEAN]]
    BY DEF IInv, TypeOK
  <2>3. QED
    BY <1>1, <2>1, <2>2
<1>5. TypeOK'
  BY <1>1, <1>2, <1>3, <1>4 DEF IInv, TypeOK, PendingOK
<1>6. RecordsOK' /\ AttachedAreNew'
  BY <1>1, <1>3 DEF IInv, RecordsOK, AttachedAreNew
<1>7. QED
  BY <1>5, <1>6 DEF IInv

\* What a change adds to the losses keeps them those of a page that is not current.
LEMMA ChangeFacts ==
    ASSUME IInv, NEW stamps, NEW reason \in Reasons, Change(stamps, reason)
    PROVE  /\ rows' = stamps /\ version' = version + 1
           /\ lost' \subseteq Reasons
           /\ page = version' => lost' = {}
<1>1. /\ version \in Nat /\ page \in Nat /\ page <= version /\ lost \subseteq Reasons
  BY LiveAssumption DEF IInv, TypeOK
<1>2. QED
  BY <1>1 DEF Change

\* What the invariant says of the tables.
LEMMA TableFacts ==
    ASSUME IInv
    PROVE  /\ clock \in 1 .. MaxWrites /\ MaxWrites \in Nat /\ version \in 1 .. clock
           /\ rows \in [Rows -> 0 .. clock]
           /\ pending \in [Writers -> {None} \cup Rows \X Nat] /\ PendingOK
           /\ lost \subseteq Reasons /\ (page = version => lost = {})
           /\ clock = version + Uncommitted("worker") + Uncommitted("api")
           /\ Uncommitted("worker") \in {0, 1} /\ Uncommitted("api") \in {0, 1}
BY LiveAssumption
DEF IInv, TypeOK, RecordsOK, PendingOK, ClockCountsChanges, Uncommitted

\* A writer takes its timestamp.
LEMMA StampStep ==
    ASSUME IInv, NEW w \in Writers, NEW r \in Rows, Stamp(w, r)
    PROVE  IInv'
<1> DEFINE stamped == <<r, clock + 1>>
<1>1. /\ pending[w] = None /\ clock < MaxWrites /\ clock' = clock + 1
      /\ pending' = [pending EXCEPT ![w] = stamped]
      /\ UNCHANGED <<topic, stream, browser, breaks, rows, version, lost, page>>
  BY DEF Stamp, browser
<1>2. stamped \in Rows \X (1 .. clock') /\ stamped \in Rows \X Nat /\ stamped[2] = clock'
      /\ stamped # None
  BY <1>1, TableFacts DEF None
<1> HIDE DEF stamped
<1>3. /\ pending' \in [Writers -> {None} \cup Rows \X Nat]
      /\ pending'[w] = stamped
      /\ \A v \in Writers \ {w} : pending'[v] = pending[v]
  BY <1>1, <1>2, TableFacts
<1>4. PendingOK'
  <2>1. ASSUME NEW v \in Writers \ {w}, pending[v] # None
        PROVE  pending[v] \in Rows \X (1 .. clock') /\ pending[v][2] # clock'
    <3>1. pending[v] \in Rows \X (1 .. clock) /\ clock \in Nat
      BY <2>1, TableFacts DEF PendingOK
    <3>2. QED
      BY <1>1, <3>1
  <2>2. \A u, v \in Writers \ {w} : pending[u] # None /\ pending[v] # None /\ u # v
            => pending[u][2] # pending[v][2]
    BY TableFacts DEF PendingOK
  <2>3. QED
    BY <1>2, <1>3, <2>1, <2>2 DEF PendingOK
<1>5. ClockCountsChanges'
  BY <1>1, <1>2, <1>3, TableFacts DEF ClockCountsChanges, Uncommitted, Writers
<1>6. /\ clock' \in clock .. MaxWrites /\ version' \in version .. clock'
      /\ rows' \in [Rows -> 0 .. clock']
  BY <1>1, TableFacts
<1>7. QED
  BY <1>1, <1>3, <1>4, <1>5, <1>6, TableFacts, TablesStep

\* A writer commits.
LEMMA CommitStep ==
    ASSUME IInv, NEW w \in Writers, Commit(w)
    PROVE  IInv'
<1> DEFINE r == pending[w][1]
           stamp == pending[w][2]
           stamps == [rows EXCEPT ![r] = stamp]
<1>1. /\ pending[w] # None /\ Change(stamps, "overtaken")
      /\ pending' = [pending EXCEPT ![w] = None]
      /\ UNCHANGED <<topic, stream, browser, breaks, clock, page>>
  BY DEF Commit, browser
<1>2. r \in Rows /\ stamp \in 1 .. clock
  BY <1>1, TableFacts DEF PendingOK
<1> HIDE DEF r, stamp
<1>3. stamps \in [Rows -> 0 .. clock]
  BY <1>2, TableFacts
<1> HIDE DEF stamps
<1>4. /\ rows' = stamps /\ version' = version + 1 /\ lost' \subseteq Reasons
      /\ page = version' => lost' = {}
  BY <1>1, ChangeFacts DEF Reasons
<1>5. /\ pending' \in [Writers -> {None} \cup Rows \X Nat]
      /\ pending'[w] = None
      /\ \A v \in Writers \ {w} : pending'[v] = pending[v]
  BY <1>1, TableFacts
<1>6. PendingOK'
  BY <1>1, <1>5, TableFacts DEF PendingOK
<1>7. ClockCountsChanges' /\ clock' = version' + Uncommitted("worker")'
                                   + Uncommitted("api")'
      /\ Uncommitted("worker")' \in {0, 1} /\ Uncommitted("api")' \in {0, 1}
  BY <1>1, <1>4, <1>5, TableFacts DEF ClockCountsChanges, Uncommitted, Writers
<1>8. /\ clock' \in clock .. MaxWrites /\ version' \in version .. clock'
  BY <1>1, <1>4, <1>7, TableFacts
<1>9. QED
  BY <1>1, <1>3, <1>4, <1>5, <1>6, <1>7, <1>8, TablesStep

\* A change without a timestamp.
LEMMA UnstampedStep ==
    ASSUME IInv, ChangeSilently \/ \E r \in Rows : DeleteRow(r)
    PROVE  IInv'
<1>1. PICK stamps \in {rows} \cup {[rows EXCEPT ![r] = 0] : r \in Rows},
           reason \in Reasons : Change(stamps, reason)
  BY DEF ChangeSilently, DeleteRow, Reasons
<1>2. /\ clock < MaxWrites /\ clock' = clock + 1
      /\ UNCHANGED <<topic, stream, browser, breaks, pending, page>>
  BY DEF ChangeSilently, DeleteRow, browser
<1>3. stamps \in [Rows -> 0 .. clock'] /\ clock' \in Nat
  <2>1. stamps \in [Rows -> 0 .. clock]
    BY <1>1, TableFacts
  <2>2. QED
    BY <1>2, <2>1, TableFacts
<1>4. /\ rows' = stamps /\ version' = version + 1 /\ lost' \subseteq Reasons
      /\ page = version' => lost' = {}
  BY <1>1, ChangeFacts
<1>5. PendingOK'
  <2>1. \A x \in 1 .. clock : x \in 1 .. clock'
    BY <1>2, TableFacts
  <2>2. QED
    BY <1>2, <2>1, TableFacts DEF PendingOK
<1>6. ClockCountsChanges'
  BY <1>2, <1>4, TableFacts DEF ClockCountsChanges, Uncommitted
<1>7. clock' \in clock .. MaxWrites /\ version' \in version .. clock'
  BY <1>2, <1>4, TableFacts
<1>8. QED
  BY <1>2, <1>3, <1>4, <1>5, <1>6, <1>7, TableFacts, TablesStep

-----------------------------------------------------------------------------
(***************************************************************************)
(* The stream and the browser.  They leave the tables alone.               *)
(***************************************************************************)

\* A request, when the content has this version.
FetchRecords(v) ==
    [state : {"free", "asked", "answered"}, version : 0 .. v,
     attached : BOOLEAN, whole : BOOLEAN]

\* A step of the stream or of the browser keeps the invariant when it keeps what that
\* says of the page and of the requests.
LEMMA PageStep ==
    ASSUME IInv, UNCHANGED tables,
           stream' \in [open : BOOLEAN, previous : (0 .. clock) \X (0 .. Cardinality(Rows))],
           messages' \in Nat, breaks' \in 0 .. MaxBreaks,
           page' \in 0 .. version, fetch' \in [Fetches -> FetchRecords(version)],
           lost' \subseteq Reasons, page' = version => lost' = {},
           AttachedAreNew'
    PROVE  IInv'
<1>1. /\ UNCHANGED <<topic, rows, version, clock, pending>>
      /\ stream'.open \in BOOLEAN
      /\ stream'.previous \in (0 .. clock) \X (0 .. Cardinality(Rows))
  BY DEF tables
<1>2. TypeOK'
  BY <1>1 DEF IInv, TypeOK, FetchRecords
<1>3. RecordsOK'
  BY <1>1 DEF IInv, RecordsOK
<1>4. ClockCountsChanges'
  BY <1>1 DEF IInv, ClockCountsChanges, Uncommitted
<1>5. QED
  BY <1>2, <1>3, <1>4 DEF IInv

\* What the invariant says of the stream and of the browser.
LEMMA PageFacts ==
    ASSUME IInv
    PROVE  /\ version \in Nat /\ page \in 0 .. version
           /\ stream \in [open : BOOLEAN, previous : (0 .. clock) \X (0 .. Cardinality(Rows))]
           /\ messages \in Nat /\ breaks \in 0 .. MaxBreaks /\ MaxBreaks \in Nat
           /\ fetch \in [Fetches -> FetchRecords(version)]
           /\ lost \subseteq Reasons /\ (page = version => lost = {})
           /\ AttachedAreNew
BY LiveAssumption DEF IInv, TypeOK, RecordsOK, FetchRecords

\* A request that is free has no answer, and one that is made has none yet.
LEMMA NoFetchFacts ==
    ASSUME NEW v \in Nat
    PROVE  /\ NoFetch \in FetchRecords(v) /\ NoFetch.state = "free"
           /\ [NoFetch EXCEPT !.state = "asked"] \in FetchRecords(v)
           /\ [NoFetch EXCEPT !.state = "asked"].state = "asked"
           /\ \A w \in BOOLEAN :
                /\ [NoFetch EXCEPT !.state = "asked", !.whole = w] \in FetchRecords(v)
                /\ [NoFetch EXCEPT !.state = "asked", !.whole = w].state = "asked"
<1>1. NoFetch \in FetchRecords(v) /\ NoFetch.state = "free"
  BY SMT DEF NoFetch, FetchRecords
<1> DEFINE asking == [NoFetch EXCEPT !.state = "asked"]
<1>2. asking \in FetchRecords(v) /\ asking.state = "asked"
  BY <1>1, SMT DEF FetchRecords
<1>3. \A w \in BOOLEAN : [NoFetch EXCEPT !.state = "asked", !.whole = w] =
                           [asking EXCEPT !.whole = w]
  OBVIOUS
<1> HIDE DEF asking
<1>4. \A w \in BOOLEAN : /\ [asking EXCEPT !.whole = w] \in FetchRecords(v)
                         /\ [asking EXCEPT !.whole = w].state = "asked"
  BY <1>2, SMT DEF FetchRecords
<1>5. QED
  BY <1>1, <1>2, <1>3, <1>4 DEF asking

\* What answering makes of a request.
LEMMA RequestFacts ==
    ASSUME NEW v \in Nat, NEW q \in FetchRecords(v)
    PROVE  /\ [q EXCEPT !.state = "answered", !.version = v] \in FetchRecords(v)
           /\ [q EXCEPT !.state = "answered", !.version = v].version = v
<1> DEFINE answer == [q EXCEPT !.state = "answered"]
<1>1. answer \in FetchRecords(v)
  BY SMT DEF FetchRecords
<1>2. [q EXCEPT !.state = "answered", !.version = v] = [answer EXCEPT !.version = v]
  OBVIOUS
<1> HIDE DEF answer
<1>3. /\ [answer EXCEPT !.version = v] \in FetchRecords(v)
      /\ [answer EXCEPT !.version = v].version = v
  BY <1>1, SMT DEF FetchRecords
<1>4. QED
  BY <1>2, <1>3

\* What a page that is loaded shows, and asks for.
LEMMA FirstFacts ==
    ASSUME NEW v \in Nat, NEW t
    PROVE  /\ FirstPage(t, v) \in 0 .. v
           /\ FirstFetch(t) \in [Fetches -> FetchRecords(v)]
           /\ \A i \in Fetches : FirstFetch(t)[i].state # "answered"
<1>1. FirstPage(t, v) \in 0 .. v
  BY DEF FirstPage, Loading
<1>2. ASSUME NEW i \in Fetches
      PROVE  FirstFetch(t)[i] \in FetchRecords(v) /\ FirstFetch(t)[i].state # "answered"
  BY NoFetchFacts DEF FirstFetch
<1>3. QED
  BY <1>1, <1>2 DEF FirstFetch

\* The stream takes a first sample, another one, or breaks.
LEMMA StreamStep ==
    ASSUME IInv, Connect \/ Sample \/ Break
    PROVE  IInv'
<1>1. Signature \in (0 .. clock) \X (0 .. Cardinality(Rows))
  BY SignatureFacts
<1>2. /\ UNCHANGED <<tables, topic, version, fetch, page>>
      /\ messages' \in Nat /\ breaks' \in 0 .. MaxBreaks
  BY PageFacts DEF Connect, Sample, Break, tables, browser
<1>3. stream' \in [open : BOOLEAN, previous : (0 .. clock) \X (0 .. Cardinality(Rows))]
  <2>1. CASE Connect
    BY <1>1, <2>1 DEF Connect
  <2>2. CASE Sample
    BY <1>1, <2>2, PageFacts DEF Sample
  <2>3. CASE Break
    BY <2>3, PageFacts DEF Break
  <2>4. QED
    BY <2>1, <2>2, <2>3
<1>4. lost' \subseteq Reasons /\ (page = version => lost' = {})
  BY PageFacts DEF Connect, Sample, Break, Reasons
<1>5. AttachedAreNew'
  BY <1>2, PageFacts DEF AttachedAreNew
<1>6. QED
  BY <1>2, <1>3, <1>4, <1>5, PageFacts, PageStep

\* The page is loaded.
LEMMA LoadStep ==
    ASSUME IInv, Load
    PROVE  IInv'
<1>1. /\ UNCHANGED <<tables, topic>> /\ page' = FirstPage(topic, version) /\ lost' = {}
      /\ messages' = 0 /\ breaks' \in 0 .. MaxBreaks
      /\ fetch' = FirstFetch(topic)
  BY PageFacts DEF Load, tables
<1>2. stream' \in [open : BOOLEAN, previous : (0 .. clock) \X (0 .. Cardinality(Rows))]
  BY PageFacts DEF Load
<1>3. /\ page' \in 0 .. version /\ fetch' \in [Fetches -> FetchRecords(version)]
      /\ \A i \in Fetches : fetch'[i].state # "answered"
  BY <1>1, PageFacts, FirstFacts
<1>4. AttachedAreNew'
  BY <1>3 DEF AttachedAreNew
<1>5. messages' \in Nat
  BY <1>1
<1>6. QED
  BY <1>1, <1>2, <1>3, <1>4, <1>5, PageStep

\* A request is asked for, or answered: the others stay as they are.
LEMMA RequestStep ==
    ASSUME IInv, Refresh \/ RefreshTable \/ \E i \in Fetches : Answer(i)
    PROVE  IInv'
<1>1. /\ UNCHANGED <<tables, topic, version, stream, page, lost>>
      /\ (messages > 0 /\ messages' = messages - 1) \/ messages' = messages
      /\ breaks' = breaks \/ (breaks < MaxBreaks /\ breaks' = breaks + 1)
  BY DEF Refresh, RefreshTable, Answer, tables
<1>2. /\ fetch' \in [Fetches -> FetchRecords(version)]
      /\ \A j \in Fetches : \/ fetch'[j] = fetch[j]
                            \/ fetch'[j].state = "asked"
                            \/ fetch'[j].version = version
  <2>1. CASE Refresh \/ RefreshTable
    <3> DEFINE first == Min(Free)
    <3>1. PICK asking : /\ asking \in FetchRecords(version) /\ asking.state = "asked"
                        /\ fetch' = [fetch EXCEPT ![first] = asking]
      <4> DEFINE own == [NoFetch EXCEPT !.state = "asked"]
                 around(w) == [NoFetch EXCEPT !.state = "asked", !.whole = w]
      <4>1. CASE Refresh
        <5>1. own \in FetchRecords(version) /\ own.state = "asked"
          BY PageFacts, NoFetchFacts
        <5>2. fetch' = [fetch EXCEPT ![first] = own]
          BY <4>1 DEF Refresh
        <5>3. QED
          BY <5>1, <5>2
      <4>2. CASE RefreshTable
        <5> DEFINE w == topic \in Nested
        <5>1. /\ around(w) \in FetchRecords(version)
              /\ around(w).state = "asked"
          <6>1. w \in BOOLEAN /\ version \in Nat
            BY PageFacts
          <6> HIDE DEF w
          <6>2. QED
            BY <6>1, NoFetchFacts
        <5>2. fetch' = [fetch EXCEPT ![first] = around(w)]
          BY <4>2 DEF RefreshTable
        <5>3. QED
          BY <5>1, <5>2
      <4>3. QED
        BY <2>1, <4>1, <4>2
    <3> HIDE DEF first
    <3>2. QED
      BY <3>1, PageFacts
  <2>2. ASSUME NEW i \in Fetches, Answer(i)
        PROVE  /\ fetch' \in [Fetches -> FetchRecords(version)]
               /\ \A j \in Fetches : fetch'[j] = fetch[j] \/ fetch'[j].version = version
    <3> DEFINE reply == [fetch[i] EXCEPT !.state = "answered", !.version = version]
    <3>1. reply \in FetchRecords(version) /\ reply.version = version
      BY PageFacts, RequestFacts
    <3>2. fetch' = [fetch EXCEPT ![i] = [@ EXCEPT !.state = "answered", !.version = version]]
      BY <2>2, PageFacts DEF Answer
    <3>3. fetch' = [fetch EXCEPT ![i] = reply]
      BY <3>2
    <3> HIDE DEF reply
    <3>4. QED
      BY <3>1, <3>3, PageFacts
  <2>3. QED
    BY <2>1, <2>2
<1>3. AttachedAreNew'
  BY <1>1, <1>2, PageFacts DEF AttachedAreNew
<1>4. messages' \in Nat /\ breaks' \in 0 .. MaxBreaks
  BY <1>1, PageFacts
<1>5. QED
  BY <1>1, <1>2, <1>3, <1>4, PageFacts, PageStep

\* An answer is swapped in.
LEMMA SwapStep ==
    ASSUME IInv, NEW i \in Fetches, Swap(i)
    PROVE  IInv'
<1>1. /\ UNCHANGED <<tables, topic, version, stream, messages, breaks>>
      /\ page' = fetch[i].version
      /\ fetch' = [j \in Fetches |-> IF j = i THEN NoFetch
                                     ELSE IF Stays(j, i) THEN fetch[j] ELSE Detached(j)]
      /\ lost' \in {{}, lost \cup {"table"}, lost \cup {"overlap"}, lost}
      /\ page' = version => lost' = {}
  BY DEF Swap, Shown, tables
<1>2. page' \in 0 .. version
  <2>1. fetch[i] \in FetchRecords(version)
    BY PageFacts
  <2>2. QED
    BY <1>1, <2>1 DEF FetchRecords
<1>3. lost' \subseteq Reasons /\ (page' = version => lost' = {})
  BY <1>1, PageFacts DEF Reasons
<1>4. ASSUME NEW j \in Fetches
      PROVE  /\ Detached(j) \in FetchRecords(version)
             /\ Detached(j).state = "free" \/ ~Detached(j).attached
  <2>1. fetch[j] \in FetchRecords(version)
    BY PageFacts
  <2>2. /\ [fetch[j] EXCEPT !.attached = FALSE] \in FetchRecords(version)
        /\ ~[fetch[j] EXCEPT !.attached = FALSE].attached
    BY <2>1 DEF FetchRecords
  <2>3. QED
    BY <2>2, PageFacts, NoFetchFacts DEF Detached
<1>5. fetch' \in [Fetches -> FetchRecords(version)]
  BY <1>1, <1>4, NoFetchFacts, PageFacts
<1>6. AttachedAreNew'
  <2>1. SUFFICES ASSUME topic \notin InPlace, NEW j \in Fetches
                 PROVE  \/ fetch'[j].state # "answered" \/ ~fetch'[j].attached
                        \/ fetch'[j].whole
    BY <1>1 DEF AttachedAreNew
  <2>2. fetch'[j] = NoFetch \/ fetch'[j] = Detached(j) \/ (fetch'[j] = fetch[j] /\ fetch[j].whole)
    BY <1>1, <2>1 DEF Stays
  <2>3. QED
    BY <1>4, <2>2, NoFetchFacts, PageFacts
<1>7. QED
  BY <1>1, <1>2, <1>3, <1>5, <1>6, PageFacts, PageStep

\* A request ends without a swap.
LEMMA EndedStep ==
    ASSUME IInv, NEW i \in Fetches, SwapDetached(i) \/ FetchFails(i)
    PROVE  IInv'
<1>1. PICK reason \in Reasons : Ended(i, reason)
  BY DEF SwapDetached, FetchFails, Reasons
<1>2. /\ UNCHANGED <<tables, topic, version, stream, messages, page, breaks>>
      /\ fetch' = [fetch EXCEPT ![i] = NoFetch]
      /\ lost' = IF page # version THEN lost \cup {reason} ELSE lost
  BY <1>1 DEF Ended, tables
<1>3. lost' \subseteq Reasons /\ (page = version => lost' = {})
  BY <1>2, PageFacts
<1>4. /\ fetch' \in [Fetches -> FetchRecords(version)]
      /\ \A j \in Fetches : fetch'[j] = fetch[j] \/ fetch'[j].state = "free"
  BY <1>2, NoFetchFacts, PageFacts
<1>5. AttachedAreNew'
  BY <1>2, <1>4, PageFacts DEF AttachedAreNew
<1>6. QED
  BY <1>2, <1>3, <1>4, <1>5, PageFacts, PageStep

-----------------------------------------------------------------------------
(***************************************************************************)
(* The theorems.                                                           *)
(***************************************************************************)

\* The page is rendered from the tables as they are, the health panel without content.
LEMMA Initially == Init => IInv
<1> SUFFICES ASSUME Init
             PROVE  IInv
  OBVIOUS
<1>1. /\ topic \in Topics /\ clock = 1 /\ version = 1 /\ messages = 0
      /\ rows \in [Rows -> 0 .. clock] /\ pending = [w \in Writers |-> None]
      /\ breaks = 0 /\ lost = {} /\ MaxBreaks \in Nat /\ clock \in 1 .. MaxWrites
  BY LiveAssumption DEF Init
<1>2. stream \in [open : BOOLEAN, previous : (0 .. clock) \X (0 .. Cardinality(Rows))]
  <2>1. Cardinality(Rows) \in Nat
    BY LiveAssumption, FS_CardinalityType
  <2>2. stream = [open |-> FALSE, previous |-> <<0, 0>>]
    BY DEF Init
  <2>3. QED
    BY <1>1, <2>1, <2>2
<1>3. /\ page \in 0 .. version
      /\ fetch \in [Fetches -> [state : {"free", "asked", "answered"}, version : 0 .. version,
                                attached : BOOLEAN, whole : BOOLEAN]]
      /\ \A i \in Fetches : fetch[i].state # "answered"
  <2>1. page = FirstPage(topic, version) /\ fetch = FirstFetch(topic) /\ version \in Nat
    BY DEF Init
  <2>2. QED
    BY <2>1, FirstFacts DEF FetchRecords
<1>4. TypeOK
  BY <1>1, <1>2, <1>3 DEF TypeOK
<1>5. RecordsOK
  BY <1>1, <1>2 DEF RecordsOK
<1>6. ClockCountsChanges
  BY <1>1 DEF ClockCountsChanges, Uncommitted, Writers
<1>7. AttachedAreNew
  BY <1>3 DEF AttachedAreNew
<1>8. QED
  BY <1>4, <1>5, <1>6, <1>7 DEF IInv

\* Every action, and a step that changes nothing, keeps the invariant.
LEMMA Steps == IInv /\ [Next]_live => IInv'
<1> SUFFICES ASSUME IInv, [Next]_live
             PROVE  IInv'
  OBVIOUS
<1>1. CASE \E w \in Writers : Commit(w) \/ \E r \in Rows : Stamp(w, r)
  BY <1>1, CommitStep, StampStep
<1>2. CASE ChangeSilently \/ \E r \in Rows : DeleteRow(r)
  BY <1>2, UnstampedStep
<1>3. CASE Connect \/ Sample \/ Break
  BY <1>3, StreamStep
<1>4. CASE Load
  BY <1>4, LoadStep
<1>5. CASE Refresh \/ RefreshTable \/ \E i \in Fetches : Answer(i)
  BY <1>5, RequestStep
<1>6. CASE \E i \in Fetches : Swap(i)
  BY <1>6, SwapStep
<1>7. CASE \E i \in Fetches : SwapDetached(i) \/ FetchFails(i)
  BY <1>7, EndedStep
<1>8. CASE UNCHANGED live
  BY <1>8
  DEF live, tables, browser, IInv, TypeOK, RecordsOK, ClockCountsChanges, Uncommitted,
      AttachedAreNew
<1>9. QED
  BY <1>1, <1>2, <1>3, <1>4, <1>5, <1>6, <1>7, <1>8 DEF Next

\* The invariant holds in every state.
THEOREM Invariance == Spec => []IInv
BY Initially, Steps, PTL DEF Spec

\* The page shows a version that was, no answer is from the future, a page that is
\* current has missed nothing, and the two writers never hold one timestamp.
THEOREM TypeCorrect == Spec => []TypeOK
<1>1. IInv => TypeOK
  BY DEF IInv
<1>2. QED
  BY <1>1, Invariance, PTL

\* A step of a fragment that is replaced shows an older version only with the table
\* around it.
LEMMA StepsForward ==
    IInv /\ [Next]_live =>
        [page' < page => topic \in InPlace \/ \E i \in Fetches : fetch[i].whole /\ Swap(i)]_live
<1> SUFFICES ASSUME IInv, [Next]_live, topic \notin InPlace,
                    \A i \in Fetches : ~(fetch[i].whole /\ Swap(i))
             PROVE  ~(page' < page)
  OBVIOUS
<1>1. page \in Nat /\ version \in Nat /\ page <= version
  BY PageFacts
<1>2. CASE Load
  BY <1>1, <1>2 DEF Load, FirstPage
<1>3. ASSUME NEW i \in Fetches, Swap(i)
      PROVE  ~(page' < page)
  <2>1. /\ ~fetch[i].whole /\ fetch[i].state = "answered" /\ fetch[i].attached
        /\ page' = fetch[i].version
    BY <1>3 DEF Swap, Shown
  <2>2. fetch[i].version \in Nat
    BY PageFacts DEF FetchRecords
  <2>3. QED
    BY <1>1, <2>1, <2>2, PageFacts DEF AttachedAreNew
<1>4. CASE page' = page
  BY <1>1, <1>4
<1>5. QED
  BY <1>2, <1>3, <1>4
  DEF Next, Commit, Stamp, ChangeSilently, DeleteRow, Connect, Sample, Break, Refresh,
      RefreshTable, Answer, SwapDetached, FetchFails, Ended, live, browser

\* A fragment that is replaced shows an older version after a newer one only when the
\* table around it is swapped in, however many requests are under way and in whatever
\* order they are answered: the events, the relays and the monitors' table itself never
\* go back, and the outputs go back with the table alone.
THEOREM NeverBackTheorem == Spec => PageNeverGoesBack
BY Invariance, StepsForward, PTL DEF Spec, PageNeverGoesBack

-----------------------------------------------------------------------------
(***************************************************************************)
(* The start, before any page is opened.                                   *)
(***************************************************************************)

\* A process has every column it has been past, and the tables with it; one that adds a
\* column is at one.
PastColumns ==
    \A p \in Processes :
        /\ process[p].stage # "down" => created
        /\ process[p].stage = "add" => process[p].column <= Len(Columns)
        /\ process[p].stage \in {"look", "add"} =>
            \A i \in DOMAIN Columns : i < process[p].column => Columns[i] \in columns
        /\ process[p].stage \in {"relays", "settings", "ready"} => columns = ToSet(Columns)

Stages == {"down", "look", "add", "relays", "settings", "ready"}
RequestStages == {"new", "hashing", "stored", "told", "refused", "lost"}
Positions == [stage : Stages, column : 1 .. Len(Columns) + 1]
ProcessesOK == process \in [Processes -> Positions] /\ PastColumns

\* What Truthful says of the requests.
Answered ==
    \A r \in Requests :
        /\ request[r] \in {"stored", "told"} => admin = r
        /\ request[r] = "refused" => admin \notin {Nobody, r}
        /\ admin = r => request[r] \in {"stored", "told", "lost"}

\* A service that is ready does not miss a column.
ReadyHasColumns == \A p \in Processes : process[p].stage = "ready" => columns = ToSet(Columns)

StartInv ==
    /\ StartTypeOK
    /\ Truthful
    /\ PastColumns

\* A process that moves on keeps what the invariant says of the processes, when no
\* column is lost and it has those it claims.
LEMMA MoveStep ==
    ASSUME StartInv, NEW p \in Processes, NEW moved \in Positions,
           process' = [process EXCEPT ![p] = moved],
           created => created' /\ columns \subseteq columns', columns' \subseteq ToSet(Columns),
           moved.stage # "down" => created',
           ~created => \A q \in Processes : process[q].stage = "down",
           moved.stage = "add" => moved.column <= Len(Columns),
           moved.stage \in {"look", "add"} =>
                \A i \in DOMAIN Columns : i < moved.column => Columns[i] \in columns',
           moved.stage \in {"relays", "settings", "ready"} => columns' = ToSet(Columns)
    PROVE  ProcessesOK'
<1>1. process \in [Processes -> Positions] /\ columns \subseteq ToSet(Columns)
  BY DEF StartInv, StartTypeOK, Positions, Stages
<1>2. /\ process' \in [Processes -> Positions]
      /\ process'[p] = moved /\ \A q \in Processes \ {p} : process'[q] = process[q]
  BY <1>1
<1>3. ASSUME NEW q \in Processes
      PROVE  /\ process'[q].stage # "down" => created'
             /\ process'[q].stage = "add" => process'[q].column <= Len(Columns)
             /\ process'[q].stage \in {"look", "add"} =>
                    \A i \in DOMAIN Columns :
                        i < process'[q].column => Columns[i] \in columns'
             /\ process'[q].stage \in {"relays", "settings", "ready"} =>
                    columns' = ToSet(Columns)
  <2>1. CASE q = p
    BY <1>2, <2>1
  <2>2. CASE q # p
    BY <1>1, <1>2, <2>2 DEF StartInv, PastColumns
  <2>3. QED
    BY <2>1, <2>2
<1>4. QED
  BY <1>2, <1>3 DEF ProcessesOK, PastColumns

\* At gives a position.
LEMMA PositionFacts ==
    ASSUME NEW stage \in Stages, NEW column \in 1 .. Len(Columns) + 1
    PROVE  /\ At(stage, column) \in Positions
           /\ At(stage, column).stage = stage /\ At(stage, column).column = column
BY DEF At, Positions

\* A file is new, or an older one with some of the columns, and no process runs.
LEMMA StartInitially == StartInit => StartInv
<1> SUFFICES ASSUME StartInit
             PROVE  StartInv
  OBVIOUS
<1>1. Len(Columns) \in Nat /\ MaxCrashes \in Nat
  BY StartAssumption
<1>2. /\ Down \in [stage : {"down", "look", "add", "relays", "settings", "ready"},
                   column : 1 .. Len(Columns) + 1]
      /\ Down.stage = "down"
  BY <1>1 DEF Down, At
<1>3. /\ process \in [Processes ->
                [stage : {"down", "look", "add", "relays", "settings", "ready"},
                 column : 1 .. Len(Columns) + 1]]
      /\ \A p \in Processes : process[p].stage = "down"
  BY <1>2 DEF StartInit
<1>4. StartTypeOK
  BY <1>1, <1>3 DEF StartInit, StartTypeOK, Nobody
<1>5. Truthful
  BY StartAssumption DEF StartInit, Truthful, Nobody
<1>6. PastColumns
  BY <1>3 DEF PastColumns
<1>7. QED
  BY <1>4, <1>5, <1>6 DEF StartInv

\* A process of the start moves on: the columns and the rows of the tables only ever gain.
LEMMA ProcessStep ==
    ASSUME StartInv, NEW p \in Processes, Step(p)
    PROVE  StartInv'
<1> DEFINE k == process[p].column
           s == process[p].stage
           Moves(moved) ==
              /\ process' = [process EXCEPT ![p] = moved]
              /\ created => created' /\ columns \subseteq columns'
              /\ columns' \subseteq ToSet(Columns) /\ created' \in BOOLEAN
              /\ moved.stage # "down" => created'
              /\ moved.stage = "add" => moved.column <= Len(Columns)
              /\ moved.stage \in {"look", "add"} =>
                    \A i \in DOMAIN Columns : i < moved.column => Columns[i] \in columns'
              /\ moved.stage \in {"relays", "settings", "ready"} => columns' = ToSet(Columns)
              /\ UNCHANGED <<kept, admin, request, crashes>>
<1>1. /\ Len(Columns) \in Nat /\ DOMAIN Columns = 1 .. Len(Columns)
      /\ ToSet(Columns) = {Columns[i] : i \in DOMAIN Columns}
      /\ k \in 1 .. Len(Columns) + 1 /\ columns \subseteq ToSet(Columns)
      /\ created \in BOOLEAN
      /\ ~created => \A q \in Processes : process[q].stage = "down"
  BY StartAssumption DEF StartInv, StartTypeOK, PastColumns, ToSet
<1>2. /\ s # "down" => created
      /\ s = "add" => k <= Len(Columns)
      /\ s \in {"look", "add"} => \A i \in DOMAIN Columns : i < k => Columns[i] \in columns
      /\ s \in {"relays", "settings", "ready"} => columns = ToSet(Columns)
  BY DEF StartInv, PastColumns
<1>3. PICK moved \in Positions : Moves(moved)
  <2>1. CASE CreateTables(p)
    <3> DEFINE m == At("look", 1)
    <3>1. m \in Positions /\ m.stage = "look" /\ m.column = 1
      BY <1>1, PositionFacts DEF Stages
    <3>2. /\ process' = [process EXCEPT ![p] = m] /\ created' = TRUE
          /\ columns' = IF created THEN columns ELSE ToSet(Columns)
          /\ UNCHANGED <<kept, admin, request, crashes>>
      BY <2>1 DEF CreateTables, Goes
    <3> HIDE DEF m
    <3>3. Moves(m)
      BY <1>1, <3>1, <3>2
    <3>4. QED
      BY <3>1, <3>3
  <2>2. CASE LookForColumn(p) /\ Columns[k] \in columns
    <3> DEFINE m == At("look", k + 1)
    <3>1. s = "look" /\ k <= Len(Columns)
      BY <2>2 DEF LookForColumn
    <3>2. m \in Positions /\ m.stage = "look" /\ m.column = k + 1
      BY <1>1, <3>1, PositionFacts DEF Stages
    <3>3. /\ process' = [process EXCEPT ![p] = m]
          /\ UNCHANGED <<created, columns, kept, admin, request, crashes>>
      BY <2>2 DEF LookForColumn, Goes
    <3> HIDE DEF m
    <3>4. Moves(m)
      BY <1>1, <1>2, <2>2, <3>1, <3>2, <3>3
    <3>5. QED
      BY <3>2, <3>4
  <2>3. CASE LookForColumn(p) /\ Columns[k] \notin columns
    <3> DEFINE m == At("add", k)
    <3>1. s = "look" /\ k <= Len(Columns)
      BY <2>3 DEF LookForColumn
    <3>2. m \in Positions /\ m.stage = "add" /\ m.column = k
      BY <1>1, PositionFacts DEF Stages
    <3>3. /\ process' = [process EXCEPT ![p] = m]
          /\ UNCHANGED <<created, columns, kept, admin, request, crashes>>
      BY <2>3 DEF LookForColumn, Goes
    <3> HIDE DEF m
    <3>4. Moves(m)
      BY <1>1, <1>2, <3>1, <3>2, <3>3
    <3>5. QED
      BY <3>2, <3>4
  <2>4. CASE AddColumn(p) /\ Columns[k] \in columns
    <3> DEFINE m == At("down", 1)
    <3>1. m \in Positions /\ m.stage = "down"
      BY <1>1, PositionFacts DEF Stages
    <3>2. /\ process' = [process EXCEPT ![p] = m]
          /\ UNCHANGED <<created, columns, kept, admin, request, crashes>>
      BY <2>4 DEF AddColumn, Down
    <3> HIDE DEF m
    <3>3. Moves(m)
      BY <1>1, <3>1, <3>2
    <3>4. QED
      BY <3>1, <3>3
  <2>5. CASE AddColumn(p) /\ Columns[k] \notin columns
    <3> DEFINE m == At("look", k + 1)
    <3>1. s = "add" /\ k <= Len(Columns)
      BY <1>2, <2>5 DEF AddColumn
    <3>2. m \in Positions /\ m.stage = "look" /\ m.column = k + 1
      BY <1>1, <3>1, PositionFacts DEF Stages
    <3>3. /\ process' = [process EXCEPT ![p] = m]
          /\ columns' = columns \cup {Columns[k]}
          /\ UNCHANGED <<created, kept, admin, request, crashes>>
      BY <2>5 DEF AddColumn, Goes
    <3> HIDE DEF m
    <3>4. Moves(m)
      BY <1>1, <1>2, <3>1, <3>2, <3>3
    <3>5. QED
      BY <3>2, <3>4
  <2>6. CASE CountRelays(p)
    <3>1. PICK stage \in {"relays", "settings"} : process' = [process EXCEPT ![p] = At(stage, 1)]
      BY <2>6 DEF CountRelays, Goes
    <3> DEFINE m == At(stage, 1)
    <3>2. m \in Positions /\ m.stage = stage
      BY <1>1, PositionFacts DEF Stages
    <3>3. /\ s = "look" /\ k > Len(Columns) /\ process' = [process EXCEPT ![p] = m]
          /\ UNCHANGED <<created, columns, kept, admin, request, crashes>>
      BY <2>6, <3>1 DEF CountRelays
    <3> HIDE DEF m
    <3>4. columns = ToSet(Columns)
      BY <1>1, <1>2, <3>3
    <3>5. Moves(m)
      BY <1>1, <1>2, <3>2, <3>3, <3>4
    <3>6. QED
      BY <3>2, <3>5
  <2>7. CASE InsertRelays(p) \/ InsertSettings(p)
    <3>1. PICK stage \in {"settings", "ready"} : process' = [process EXCEPT ![p] = At(stage, 1)]
      BY <2>7 DEF InsertRelays, InsertSettings, Goes
    <3> DEFINE m == At(stage, 1)
    <3>2. m \in Positions /\ m.stage = stage
      BY <1>1, PositionFacts DEF Stages
    <3>3. /\ s \in {"relays", "settings"} /\ process' = [process EXCEPT ![p] = m]
          /\ UNCHANGED <<created, columns, kept, admin, request, crashes>>
      BY <2>7, <3>1 DEF InsertRelays, InsertSettings
    <3> HIDE DEF m
    <3>4. Moves(m)
      BY <1>1, <1>2, <3>2, <3>3
    <3>5. QED
      BY <3>2, <3>4
  <2>8. QED
    BY <2>1, <2>2, <2>3, <2>4, <2>5, <2>6, <2>7 DEF Step
<1>4. /\ store' \in [Tables -> {"empty", "default", "changed"}]
      /\ \A table \in Tables : store[table] = "changed" => store'[table] = "changed"
  <2>1. store \in [Tables -> {"empty", "default", "changed"}]
    BY DEF StartInv, StartTypeOK
  <2>2. \/ store' = store
        \/ \E table \in Tables : InsertOrIgnore(table)
    BY DEF Step, CreateTables, LookForColumn, AddColumn, CountRelays, InsertRelays,
           InsertSettings, Tables
  <2>3. QED
    BY <2>1, <2>2 DEF InsertOrIgnore
<1>5. ProcessesOK'
  BY <1>1, <1>3, MoveStep
<1>6. StartTypeOK'
  BY <1>3, <1>4, <1>5 DEF StartInv, StartTypeOK, ProcessesOK, Positions, Stages
<1>7. Truthful'
  BY <1>3, <1>4 DEF StartInv, Truthful
<1>8. QED
  BY <1>5, <1>6, <1>7 DEF ProcessesOK, StartInv

\* A process crashes, or the cleanup ends: it holds nothing any more.
LEMMA DownStep ==
    ASSUME StartInv, CleanupEnds \/ \E p \in Processes : Crash(p)
    PROVE  StartInv'
<1>1. PICK p \in Processes :
        process[p].stage # "down" /\ process' = [process EXCEPT ![p] = Down]
  BY DEF CleanupEnds, Crash, Processes
<1>2. /\ UNCHANGED <<created, columns, store, kept, admin>>
      /\ crashes' \in 0 .. MaxCrashes
  BY StartAssumption DEF CleanupEnds, Crash, StartInv, StartTypeOK
<1>r. /\ request' \in [Requests -> RequestStages]
      /\ \A r \in Requests :
            \/ request'[r] = request[r]
            \/ request[r] \in {"hashing", "stored"} /\ request'[r] = "lost"
  <2>1. request \in [Requests -> RequestStages]
    BY DEF StartInv, StartTypeOK, RequestStages
  <2>2. CASE CleanupEnds
    BY <2>1, <2>2 DEF CleanupEnds
  <2>3. ASSUME NEW q \in Processes, Crash(q)
        PROVE  /\ request' \in [Requests -> RequestStages]
               /\ \A r \in Requests :
                     \/ request'[r] = request[r]
                     \/ request[r] \in {"hashing", "stored"} /\ request'[r] = "lost"
    <3>1. PICK cut \in SUBSET Served(q) :
            request' = [r \in Requests |-> IF r \in cut THEN "lost" ELSE request[r]]
      BY <2>3 DEF Crash
    <3>2. \A r \in cut : request[r] \in {"hashing", "stored"}
      BY <3>1 DEF Served
    <3>3. "lost" \in RequestStages
      BY DEF RequestStages
    <3>4. QED
      BY <2>1, <3>1, <3>2, <3>3
  <2>4. QED
    BY <2>2, <2>3
<1>3. /\ Len(Columns) \in Nat /\ created \in BOOLEAN /\ columns \subseteq ToSet(Columns)
      /\ ~created => \A q \in Processes : process[q].stage = "down"
  BY StartAssumption DEF StartInv, StartTypeOK, PastColumns
<1>4. Down \in Positions /\ Down.stage = "down"
  BY <1>3 DEF Down, At, Positions, Stages
<1>5. ProcessesOK'
  BY <1>1, <1>2, <1>3, <1>4, MoveStep
<1>6. StartTypeOK'
  BY <1>2, <1>r, <1>5 DEF StartInv, StartTypeOK, ProcessesOK, Positions, Stages, RequestStages
<1>7. Truthful'
  <2>1. Truthful
    BY DEF StartInv
  <2>2. ASSUME NEW r \in Requests
        PROVE  /\ request'[r] \in {"stored", "told"} => admin = r
               /\ request'[r] = "refused" => admin \notin {Nobody, r}
               /\ admin = r => request'[r] \in {"stored", "told", "lost"}
    BY <1>r, <2>1 DEF Truthful
  <2>3. QED
    BY <1>2, <2>1, <2>2 DEF Truthful
<1>8. QED
  BY <1>5, <1>6, <1>7 DEF ProcessesOK, StartInv

\* Operators save, and send a first password.
LEMMA OperatorStep ==
    ASSUME StartInv,
           \/ \E table \in Tables : Save(table)
           \/ \E r \in Requests : AskToBootstrap(r) \/ InsertAdmin(r) \/ Tell(r)
    PROVE  StartInv'
<1>1. UNCHANGED <<created, columns, process, crashes>>
  BY DEF Save, AskToBootstrap, InsertAdmin, Tell
<1>2. PastColumns'
  BY <1>1 DEF StartInv, PastColumns
<1>3. /\ store' \in [Tables -> {"empty", "default", "changed"}]
      /\ kept' \in [Tables -> {"empty", "default", "changed"}]
      /\ \A table \in Tables : kept'[table] = "changed" => store'[table] = "changed"
  BY DEF StartInv, StartTypeOK, Truthful, Save, AskToBootstrap, InsertAdmin, Tell
<1>4. /\ admin' \in Requests \cup {Nobody}
      /\ request' \in [Requests -> RequestStages]
      /\ Answered'
  <2>1. /\ admin \in Requests \cup {Nobody} /\ Nobody \notin Requests
        /\ request \in [Requests -> RequestStages]
        /\ Answered
    BY StartAssumption DEF StartInv, StartTypeOK, Truthful, Answered, RequestStages
  <2>2. CASE UNCHANGED <<admin, request>>
    BY <2>1, <2>2 DEF Answered
  <2>3. ASSUME NEW r \in Requests, AskToBootstrap(r)
        PROVE  /\ admin' \in Requests \cup {Nobody}
               /\ request' \in [Requests -> RequestStages]
               /\ Answered'
    BY <2>1, <2>3 DEF AskToBootstrap, Answered, RequestStages
  <2>4. ASSUME NEW r \in Requests, InsertAdmin(r)
        PROVE  /\ admin' \in Requests \cup {Nobody}
               /\ request' \in [Requests -> RequestStages]
               /\ Answered'
    BY <2>1, <2>4 DEF InsertAdmin, Answered, RequestStages
  <2>5. ASSUME NEW r \in Requests, Tell(r)
        PROVE  /\ admin' \in Requests \cup {Nobody}
               /\ request' \in [Requests -> RequestStages]
               /\ Answered'
    BY <2>1, <2>5 DEF Tell, Answered, RequestStages
  <2>6. QED
    BY <2>2, <2>3, <2>4, <2>5 DEF Save
<1>5. StartTypeOK'
  BY <1>1, <1>3, <1>4 DEF StartInv, StartTypeOK, RequestStages
<1>6. Truthful'
  BY <1>3, <1>4 DEF Truthful, Answered
<1>7. QED
  BY <1>2, <1>5, <1>6 DEF StartInv

\* Every step of the start keeps the invariant.
LEMMA StartSteps == StartInv /\ [StartNext]_boot => StartInv'
<1> SUFFICES ASSUME StartInv, [StartNext]_boot
             PROVE  StartInv'
  OBVIOUS
<1>1. CASE UNCHANGED boot
  BY <1>1 DEF boot, StartInv, StartTypeOK, Truthful, PastColumns
<1>2. CASE \E p \in Processes : Step(p)
  BY <1>2, ProcessStep
<1>3. CASE CleanupEnds \/ \E p \in Processes : Crash(p)
  BY <1>3, DownStep
<1>4. CASE \/ \E table \in Tables : Save(table)
           \/ \E r \in Requests : AskToBootstrap(r) \/ InsertAdmin(r) \/ Tell(r)
  BY <1>4, OperatorStep
<1>5. QED
  BY <1>1, <1>2, <1>3, <1>4 DEF StartNext

\* A service that is ready has every column, whoever added it and whoever died of that;
\* the settings and relay states that were saved meanwhile are kept, and the password is
\* that of the one request that was told so, or whose process died before it could tell.
THEOREM StartTheorem == StartSpec => [](StartTypeOK /\ Truthful /\ ReadyHasColumns)
<1>1. StartInv => StartTypeOK /\ Truthful /\ ReadyHasColumns
  BY DEF StartInv, PastColumns, ReadyHasColumns
<1>2. QED
  BY <1>1, StartInitially, StartSteps, PTL DEF StartSpec

-----------------------------------------------------------------------------
(***************************************************************************)
(* The picture directory.                                                  *)
(***************************************************************************)

Listed(p) == pruner[p].names \cup pruner[p].records.names

\* The monitor whose picture is written is one of the cycle's, and those that the API
\* deleted since the cycle read the table, and a file without its row, are known.
Witnesses ==
    /\ worker.todo \ monitors \subseteq torn
    /\ worker.stage \notin {"cycle", "reading"} => worker.picture = NoMonitor
    /\ worker.stage = "cycle" /\ worker.picture # NoMonitor => worker.picture \in worker.todo
    /\ \A m \in (monitors \cap files.names) \ debugRows :
          m \in torn \/ (worker.stage = "cycle" /\ worker.picture = m)
    /\ OrphansAreWitnessed

\* The picture of the event being written has a number no file and no list has.
Numbers ==
    /\ worker.stage \in {"reading", "writing"} => events >= 1
    /\ \A p \in Pruners : \A f \in files.names \cup Listed(p) :
          f \notin Monitors =>
             f <= events /\ (worker.stage \in {"reading", "writing"} => f # events)

\* What the pruner knew when it decided to delete a file.
Asked(p) == pruner[p].usage > pruner[p].limit \/ pruner[p].short

StageOK(p) ==
    /\ pruner[p].stage \in {"off", "reading", "listing"} => Listed(p) = {} /\ touched[p] = {}
    /\ pruner[p].stage = "sizing" => pruner[p].records = Empty
    /\ pruner[p].stage \in {"deleting", "unlinking"} =>
          pruner[p].names = {} /\ pruner[p].usage = Bytes(pruner[p].records.names)
    /\ pruner[p].stage = "unlinking" => More(p) /\ Asked(p)
    /\ p = "worker" /\ worker.stage # "pruning" => pruner[p].stage \in {"off", "reading"}
    /\ p = "worker" /\ pruner[p].stage = "reading" => worker.stage = "starting"

\* Whatever is older than a file the pruner noted, and that no other changed, it noted
\* too, and unchanged, as the older.
OlderAreListed(p) ==
    \A g \in (Listed(p) \cap files.names) \ touched[p], f \in files.names :
        <<f, g>> \in files.older =>
           /\ f \in Listed(p) \ touched[p]
           /\ pruner[p].stage \in {"deleting", "unlinking"} =>
                 <<f, g>> \in pruner[p].records.older

\* As long as nothing it recorded was changed out of turn, files go in the order of the
\* records: none is missing that is younger than one still there.
YoungerRemain(p) ==
    pruner[p].stage \in {"deleting", "unlinking"} /\ touched[p] = {} =>
        \A f \in pruner[p].records.names \cap files.names, g \in pruner[p].records.names :
            <<f, g>> \in pruner[p].records.older => g \in files.names

PrunerOK(p) ==
    touched[p] \subseteq Monitors /\ StageOK(p) /\ OlderAreListed(p) /\ YoungerRemain(p)

StoreInv ==
    /\ StoreTypeOK
    /\ Witnesses
    /\ Numbers
    /\ \A p \in Pruners : PrunerOK(p)

-----------------------------------------------------------------------------
(* Directories. *)

\* What it is to be a directory.
LEMMA DirectoryFacts ==
    ASSUME NEW dir \in Directories
    PROVE  /\ dir.names \subseteq Pictures
           /\ dir.older \subseteq dir.names \X dir.names
           /\ \A f \in dir.names, g \in dir.names :
                 <<f, g>> \in dir.older <=> f # g /\ <<g, f>> \notin dir.older
           /\ \A f, g : <<f, g>> \in dir.older => f \in dir.names /\ g \in dir.names
<1>1. InOrder(dir) /\ dir \in [names : SUBSET Pictures, older : SUBSET (Pictures \X Pictures)]
  BY DEF Directories
<1>2. dir.names \subseteq Pictures
  BY <1>1
<1>3. QED
  BY <1>1, <1>2 DEF InOrder

\* A directory with some of its names, and so without one.
LEMMA OnlyFacts ==
    ASSUME NEW dir \in Directories, NEW S
    PROVE  /\ Only(dir, S) \in Directories
           /\ Only(dir, S).names = dir.names \cap S
           /\ \A f, g : <<f, g>> \in Only(dir, S).older <=>
                           <<f, g>> \in dir.older /\ f \in S /\ g \in S
<1>1. InOrder(dir) /\ dir \in [names : SUBSET Pictures, older : SUBSET (Pictures \X Pictures)]
  BY DEF Directories
<1>2. /\ Only(dir, S).names = dir.names \cap S
      /\ Only(dir, S).older = dir.older \cap (S \X S)
  BY DEF Only
<1>3. Only(dir, S) \in [names : SUBSET Pictures, older : SUBSET (Pictures \X Pictures)]
  BY <1>1 DEF Only
<1>4. \A f, g : <<f, g>> \in Only(dir, S).older <=> <<f, g>> \in dir.older /\ f \in S /\ g \in S
  BY <1>2
<1>5. InOrder(Only(dir, S))
  <2>1. Only(dir, S).older \subseteq Only(dir, S).names \X Only(dir, S).names
    BY <1>1, <1>2 DEF InOrder
  <2>2. QED
    BY <1>1, <1>2, <1>4, <2>1 DEF InOrder
<1>6. QED
  BY <1>2, <1>3, <1>4, <1>5 DEF Directories

\* A directory without one file.
LEMMA WithoutFacts ==
    ASSUME NEW dir \in Directories, NEW f
    PROVE  /\ Without(dir, f) \in Directories
           /\ Without(dir, f).names = dir.names \ {f}
           /\ \A g, h : <<g, h>> \in Without(dir, f).older <=>
                           <<g, h>> \in dir.older /\ g # f /\ h # f
BY OnlyFacts, DirectoryFacts DEF Without

\* A written picture is the youngest.
LEMMA WrittenFacts ==
    ASSUME NEW dir \in Directories, NEW f \in Pictures
    PROVE  /\ Written(dir, f) \in Directories
           /\ Written(dir, f).names = dir.names \cup {f}
           /\ \A g, h : <<g, h>> \in Written(dir, f).older <=>
                           \/ <<g, h>> \in dir.older /\ g # f /\ h # f
                           \/ g \in dir.names /\ g # f /\ h = f
<1> DEFINE rest == Without(dir, f)
           new == Written(dir, f)
<1>1. /\ rest \in Directories /\ rest.names = dir.names \ {f}
      /\ \A g, h : <<g, h>> \in rest.older <=> <<g, h>> \in dir.older /\ g # f /\ h # f
  BY WithoutFacts
<1>2. /\ new.names = dir.names \cup {f}
      /\ new.older = rest.older \cup ((dir.names \ {f}) \X {f})
      /\ new = [names |-> new.names, older |-> new.older]
  BY DEF Written
<1>3. InOrder(rest) /\ rest.older \subseteq Pictures \X Pictures /\ dir.names \subseteq Pictures
  BY <1>1, DirectoryFacts DEF Directories
<1> HIDE DEF rest, new
<1>4. new \in [names : SUBSET Pictures, older : SUBSET (Pictures \X Pictures)]
  <2>1. new.names \in SUBSET Pictures /\ new.older \in SUBSET (Pictures \X Pictures)
    BY <1>2, <1>3
  <2>2. QED
    BY <1>2, <2>1
<1>5. \A g, h : <<g, h>> \in new.older <=> \/ <<g, h>> \in rest.older
                                           \/ g \in rest.names /\ h = f
  BY <1>1, <1>2
<1>6. InOrder(new)
  <2>1. /\ rest.older \subseteq rest.names \X rest.names
        /\ \A g \in rest.names, h \in rest.names :
              <<g, h>> \in rest.older <=> g # h /\ <<h, g>> \notin rest.older
        /\ \A g \in rest.names, h \in rest.names, i \in rest.names :
              <<g, h>> \in rest.older /\ <<h, i>> \in rest.older => <<g, i>> \in rest.older
    BY <1>3 DEF InOrder
  <2>2. new.names = rest.names \cup {f} /\ f \notin rest.names
    BY <1>1, <1>2
  <2>3. \A g, h : <<g, h>> \in rest.older => g \in rest.names /\ h \in rest.names
    BY <2>1
  <2>4. new.older \subseteq new.names \X new.names
    BY <1>1, <1>2, <2>1, <2>2
  <2>5. \A g \in new.names, h \in new.names :
           <<g, h>> \in new.older <=> g # h /\ <<h, g>> \notin new.older
    BY <1>5, <2>1, <2>2, <2>3
  <2>6. \A g \in new.names, h \in new.names, i \in new.names :
           <<g, h>> \in new.older /\ <<h, i>> \in new.older => <<g, i>> \in new.older
    BY <1>5, <2>1, <2>2, <2>3
  <2>7. QED
    BY <2>4, <2>5, <2>6 DEF InOrder
<1>7. new \in Directories
  BY <1>4, <1>6 DEF Directories
<1>8. \A g, h : <<g, h>> \in new.older <=> \/ <<g, h>> \in dir.older /\ g # f /\ h # f
                                           \/ g \in dir.names /\ g # f /\ h = f
  BY <1>1, <1>5
<1>9. QED
  BY <1>2, <1>7, <1>8 DEF new

\* The pictures are finitely many.
LEMMA FinitePictures == IsFiniteSet(Pictures)
<1>1. IsFiniteSet(Monitors) /\ MaxEvents \in Nat
  BY StoreAssumption
<1>2. IsFiniteSet(1 .. MaxEvents)
  BY <1>1, FS_Interval
<1>3. QED
  BY <1>1, <1>2, FS_Union DEF Pictures

\* There is an oldest file in a directory that has one.
LEMMA OldestFacts ==
    ASSUME NEW dir \in Directories, dir.names # {}
    PROVE  Oldest(dir) \in dir.names /\ \A g \in dir.names : <<g, Oldest(dir)>> \notin dir.older
<1> DEFINE Elder(f) == {g \in dir.names : <<g, f>> \in dir.older}
           elders == {Elder(f) : f \in dir.names}
<1>1. IsFiniteSet(dir.names)
  BY FinitePictures, DirectoryFacts, FS_Subset
<1>2. elders \subseteq FiniteSubsetsOf(dir.names) /\ elders # {}
  <2>1. \A f \in dir.names : Elder(f) \subseteq dir.names
    OBVIOUS
  <2> HIDE DEF Elder
  <2>2. \A f \in dir.names : Elder(f) \in FiniteSubsetsOf(dir.names)
    BY <1>1, <2>1, FS_Subset DEF FiniteSubsetsOf
  <2>3. QED
    BY <2>2
<1>3. PICK X \in elders : \A Y \in elders : <<Y, X>> \notin StrictSubsetOrdering(dir.names)
  <2> HIDE DEF elders
  <2>1. QED
    BY <1>1, <1>2, WFMin, FS_StrictSubsetOrderingWellFounded
<1>4. PICK f \in dir.names : X = Elder(f)
  BY <1>3
<1>5. InOrder(dir)
  BY DEF Directories
<1>6. ASSUME NEW g \in dir.names, <<g, f>> \in dir.older
      PROVE  FALSE
  <2>1. Elder(g) \subseteq Elder(f)
    BY <1>5, <1>6 DEF InOrder
  <2>2. g \in Elder(f) /\ g \notin Elder(g)
    BY <1>5, <1>6 DEF InOrder
  <2>3. Elder(g) \in SUBSET dir.names /\ Elder(f) \in SUBSET dir.names
    OBVIOUS
  <2>4. Elder(g) \in elders
    OBVIOUS
  <2> HIDE DEF Elder, elders
  <2>5. <<Elder(g), Elder(f)>> \in StrictSubsetOrdering(dir.names)
    BY <2>1, <2>2, <2>3, Zenon DEF StrictSubsetOrdering
  <2>6. QED
    BY <1>3, <1>4, <2>4, <2>5
<1>7. \A g \in dir.names : <<g, f>> \notin dir.older
  BY <1>6
<1>8. QED
  BY <1>7 DEF Oldest

\* The bytes of some pictures.
LEMMA BytesFacts ==
    ASSUME NEW names \in SUBSET Pictures
    PROVE  /\ Bytes(names) \in Nat
           /\ \A part \in SUBSET names : Bytes(part) <= Bytes(names)
           /\ \A f \in names : Bytes(names) = Size[f] + Bytes(names \ {f}) /\ Size[f] \in Nat
<1>1. IsFiniteSet(names) /\ \A f \in names : Size[f] \in Nat
  BY FinitePictures, FS_Subset, StoreAssumption
<1>2. SumFunctionOnSet(Size, names) \in Nat
  BY <1>1, SumFacts
<1>3. \A f \in names :
         SumFunctionOnSet(Size, names) = Size[f] + SumFunctionOnSet(Size, names \ {f})
  BY <1>1, SumFacts
<1>4. \A part \in SUBSET names : SumFunctionOnSet(Size, part) <= SumFunctionOnSet(Size, names)
  BY <1>1, SumMonotone
<1>5. QED
  BY <1>1, <1>2, <1>3, <1>4 DEF Bytes

-----------------------------------------------------------------------------
(* What a change of the directory does to the lists. *)

\* The records and fields of the pruners and the worker.
PrunerRecords ==
    [stage : {"off", "reading", "listing", "sizing", "deleting", "unlinking"},
     names : SUBSET Pictures, records : Directories, usage : Nat, short : BOOLEAN,
     deleted : Nat, limit : Limits, minFree : MinFrees]
WorkerRecords ==
    [stage : {"idle", "cycle", "reading", "writing", "pruning", "down", "starting"},
     todo : SUBSET Monitors, cycle : SUBSET Monitors, picture : Monitors \cup {NoMonitor}]

\* What the types say of the worker, the directory and a pruner.
LEMMA RecordFacts ==
    ASSUME StoreInv
    PROVE  /\ worker \in WorkerRecords /\ pruner \in [Pruners -> PrunerRecords]
           /\ files \in Directories
           /\ \A p \in Pruners : /\ pruner[p].records \in Directories
                                 /\ Listed(p) \subseteq Pictures
                                 /\ touched[p] \subseteq Monitors
<1>1. worker \in WorkerRecords /\ pruner \in [Pruners -> PrunerRecords] /\ files \in Directories
  BY DEF StoreInv, StoreTypeOK, WorkerRecords, PrunerRecords
<1>2. \A p \in Pruners : pruner[p].records \in Directories /\ pruner[p].names \subseteq Pictures
  BY <1>1 DEF PrunerRecords
<1>3. \A p \in Pruners : Listed(p) \subseteq Pictures
  BY <1>2, DirectoryFacts DEF Listed
<1>4. QED
  BY <1>1, <1>2, <1>3 DEF StoreInv, PrunerOK

\* Two recorded files that are still there unchanged have kept their order.
LEMMA OrderKept ==
    ASSUME StoreInv, NEW p \in Pruners, pruner[p].stage \in {"deleting", "unlinking"},
           NEW f \in (pruner[p].records.names \cap files.names) \ touched[p],
           NEW g \in (pruner[p].records.names \cap files.names) \ touched[p]
    PROVE  <<f, g>> \in pruner[p].records.older <=> <<f, g>> \in files.older
<1> DEFINE noted == pruner[p].records
<1>1. noted \in Directories /\ files \in Directories
  BY RecordFacts
<1>2. \A h \in {f, g}, i \in {f, g} : <<h, i>> \in files.older => <<h, i>> \in noted.older
  BY DEF StoreInv, PrunerOK, OlderAreListed, Listed
<1>3. /\ <<f, g>> \in files.older <=> f # g /\ <<g, f>> \notin files.older
      /\ <<f, g>> \in noted.older <=> f # g /\ <<g, f>> \notin noted.older
  BY <1>1, DirectoryFacts
<1>4. QED
  BY <1>2, <1>3

\* A file is written: its place is the youngest, and the lists that have it note it.
LEMMA WritingKeeps ==
    ASSUME StoreInv, NEW f \in Pictures, files' = Written(files, f), NEW p \in Pruners,
           pruner'[p] = pruner[p],
           touched'[p] = IF f \in Listed(p) THEN touched[p] \cup {f} ELSE touched[p]
    PROVE  OlderAreListed(p)' /\ YoungerRemain(p)'
<1>1. /\ files'.names = files.names \cup {f}
      /\ \A g, h : <<g, h>> \in files'.older <=> \/ <<g, h>> \in files.older /\ g # f /\ h # f
                                                 \/ g \in files.names /\ g # f /\ h = f
  BY RecordFacts, WrittenFacts
<1>2. Listed(p)' = Listed(p)
  BY DEF Listed
<1>3. \A g, h : <<g, h>> \in files.older => g \in files.names /\ h \in files.names
  BY RecordFacts, DirectoryFacts
<1>4. OlderAreListed(p)'
  <2>1. SUFFICES ASSUME NEW g \in (Listed(p) \cap files'.names) \ touched'[p],
                        NEW h \in files'.names, <<h, g>> \in files'.older
                 PROVE  /\ h \in Listed(p) \ touched'[p]
                        /\ pruner[p].stage \in {"deleting", "unlinking"} =>
                              <<h, g>> \in pruner[p].records.older
    BY <1>2 DEF OlderAreListed
  <2>2. g # f /\ g \notin touched[p]
    OBVIOUS
  <2>3. <<h, g>> \in files.older /\ h # f
    BY <1>1, <2>1, <2>2
  <2>4. /\ h \in Listed(p) \ touched[p]
        /\ pruner[p].stage \in {"deleting", "unlinking"} =>
              <<h, g>> \in pruner[p].records.older
    BY <1>3, <2>2, <2>3 DEF StoreInv, PrunerOK, OlderAreListed
  <2>5. QED
    BY <2>3, <2>4
<1>5. YoungerRemain(p)'
  <2>1. CASE f \in Listed(p)
    BY <2>1 DEF YoungerRemain
  <2>2. CASE f \notin Listed(p)
    BY <1>1, <2>2 DEF StoreInv, PrunerOK, YoungerRemain, Listed
  <2>3. QED
    BY <2>1, <2>2
<1>6. QED
  BY <1>4, <1>5

\* A file is deleted: the list that has it notes it, or the file was the oldest.
LEMMA DeletionKeeps ==
    ASSUME StoreInv, NEW f, files' = Without(files, f), NEW p \in Pruners,
           pruner'[p] = pruner[p],
           touched'[p] = touched[p] \/ (f \in Listed(p) /\ touched'[p] = touched[p] \cup {f}),
           \/ f \in Listed(p) => f \in touched'[p]
           \/ \A g \in files.names : <<g, f>> \notin files.older
    PROVE  OlderAreListed(p)' /\ YoungerRemain(p)'
<1>1. /\ files'.names = files.names \ {f}
      /\ \A g, h : <<g, h>> \in files'.older <=> <<g, h>> \in files.older /\ g # f /\ h # f
  BY RecordFacts, WithoutFacts
<1>2. Listed(p)' = Listed(p)
  BY DEF Listed
<1>3. OlderAreListed(p)'
  BY <1>1, <1>2 DEF StoreInv, PrunerOK, OlderAreListed
<1>4. YoungerRemain(p)'
  <2>1. SUFFICES ASSUME pruner[p].stage \in {"deleting", "unlinking"}, touched'[p] = {},
                        NEW g \in pruner[p].records.names \cap files'.names,
                        NEW h \in pruner[p].records.names,
                        <<g, h>> \in pruner[p].records.older
                 PROVE  h \in files'.names
    BY DEF YoungerRemain
  <2>2. touched[p] = {} /\ g \in files.names /\ g # f
    BY <1>1, <2>1
  <2>3. h \in files.names
    BY <2>1, <2>2 DEF StoreInv, PrunerOK, YoungerRemain
  <2>4. SUFFICES ASSUME h = f PROVE FALSE
    BY <1>1, <2>3
  <2>5. <<g, f>> \in files.older
    BY <2>1, <2>2, <2>3, <2>4, OrderKept
  <2>6. f \in Listed(p)
    BY <2>4 DEF Listed
  <2>7. QED
    BY <2>1, <2>2, <2>5, <2>6
<1>5. QED
  BY <1>3, <1>4

\* Nothing changes for a pruner.
LEMMA Undisturbed ==
    ASSUME StoreInv, NEW p \in Pruners,
           pruner'[p] = pruner[p], touched'[p] = touched[p], files' = files,
           p = "worker" /\ worker'.stage # "pruning" => pruner[p].stage \in {"off", "reading"},
           p = "worker" /\ pruner[p].stage = "reading" => worker'.stage = "starting"
    PROVE  PrunerOK(p)'
<1>1. StageOK(p)'
  BY DEF StoreInv, PrunerOK, StageOK, Asked, More, Listed, Bytes
<1>2. OlderAreListed(p)' /\ YoungerRemain(p)'
  BY DEF StoreInv, PrunerOK, OlderAreListed, YoungerRemain, Listed
<1>3. QED
  BY <1>1, <1>2 DEF StoreInv, PrunerOK

-----------------------------------------------------------------------------
(* The worker. *)

\* No monitor is taken for none.
LEMMA NoMonitorFacts == StoreInv => \A m \in monitors : m # NoMonitor
  BY StoreAssumption DEF StoreInv, StoreTypeOK

\* In its cycle, the worker's own pruner is off.
LEMMA WorkerKeepsLists ==
    ASSUME StoreInv, worker.stage \notin {"pruning", "starting"},
           UNCHANGED <<files, pruner, touched>>
    PROVE  \A p \in Pruners : PrunerOK(p)'
<1>1. \A p \in Pruners : p = "worker" => pruner[p].stage = "off"
  BY DEF StoreInv, PrunerOK, StageOK
<1>2. QED
  BY <1>1, Undisturbed

\* A cycle begins: the monitors to do are those of the table.
LEMMA BeginCycleStep == ASSUME StoreInv, BeginCycle PROVE StoreInv'
<1>1. /\ worker' \in WorkerRecords /\ worker'.stage = "cycle" /\ worker'.todo = monitors
      /\ worker'.picture = worker.picture
  BY RecordFacts DEF BeginCycle, WorkerRecords, StoreInv, StoreTypeOK
<1>2. StoreTypeOK'
  BY <1>1 DEF BeginCycle, dbRows, settings, StoreInv, StoreTypeOK, WorkerRecords
<1>3. Witnesses'
  BY <1>1 DEF BeginCycle, dbRows, settings, StoreInv, Witnesses, OrphansAreWitnessed
<1>4. Numbers'
  BY <1>1 DEF BeginCycle, StoreInv, Numbers, Listed
<1>5. QED
  BY <1>2, <1>3, <1>4, WorkerKeepsLists DEF BeginCycle, StoreInv

\* A picture gets its row: of a monitor that is there, or a known orphan.
LEMMA SavePictureStep == ASSUME StoreInv, SavePicture PROVE StoreInv'
<1>1. /\ worker' \in WorkerRecords /\ worker'.stage = "cycle" /\ worker'.picture = NoMonitor
      /\ worker'.todo = worker.todo \ {worker.picture} /\ worker.picture \in Monitors
  BY RecordFacts DEF SavePicture, WorkerRecords
<1>2. StoreTypeOK'
  BY <1>1 DEF SavePicture, settings, StoreInv, StoreTypeOK, WorkerRecords
<1>3. Witnesses'
  BY <1>1 DEF SavePicture, StoreInv, Witnesses, OrphansAreWitnessed
<1>4. Numbers'
  BY <1>1 DEF SavePicture, StoreInv, Numbers, Listed
<1>5. QED
  BY <1>2, <1>3, <1>4, WorkerKeepsLists DEF SavePicture, StoreInv

\* A monitor without a picture is done, and others of its camera.
LEMMA NoPictureStep ==
    ASSUME StoreInv, NEW m \in Monitors, NEW others \in SUBSET Monitors, NoPicture(m, others)
    PROVE  StoreInv'
<1>1. /\ worker' \in WorkerRecords /\ worker'.stage = "cycle" /\ worker'.picture = NoMonitor
      /\ worker'.todo \subseteq worker.todo /\ worker.stage = "cycle"
  BY RecordFacts DEF NoPicture, Remaining, WorkerRecords
<1>2. StoreTypeOK'
  BY <1>1 DEF NoPicture, dbRows, settings, StoreInv, StoreTypeOK, WorkerRecords
<1>3. Witnesses'
  BY <1>1 DEF NoPicture, dbRows, settings, StoreInv, Witnesses, OrphansAreWitnessed
<1>4. Numbers'
  BY <1>1 DEF NoPicture, StoreInv, Numbers, Listed
<1>5. QED
  BY <1>2, <1>3, <1>4, WorkerKeepsLists DEF NoPicture, StoreInv

\* A picture whose row cannot be written: torn knows the file, or an earlier row does.
LEMMA SavePictureFailsStep ==
    ASSUME StoreInv, NEW others \in SUBSET Monitors, SavePictureFails(others)
    PROVE  StoreInv'
<1>1. /\ worker' \in WorkerRecords /\ worker'.stage = "cycle" /\ worker'.picture = NoMonitor
      /\ worker'.todo \subseteq worker.todo /\ worker.stage = "cycle"
      /\ worker.picture \in Monitors
  BY RecordFacts DEF SavePictureFails, Remaining, WorkerRecords
<1>2. edits' \in 0 .. MaxEdits
  BY StoreAssumption DEF SavePictureFails, StoreInv, StoreTypeOK
<1>3. torn \subseteq torn' /\ torn' \subseteq Monitors
      /\ worker.picture \in torn' \cup debugRows
  BY <1>1 DEF SavePictureFails, StoreInv, StoreTypeOK
<1>4. StoreTypeOK'
  BY <1>1, <1>2, <1>3 DEF SavePictureFails, dbRows, settings, StoreInv, StoreTypeOK, WorkerRecords
<1>5. Witnesses'
  BY <1>1, <1>3 DEF SavePictureFails, dbRows, settings, StoreInv, Witnesses, OrphansAreWitnessed
<1>6. Numbers'
  BY <1>1 DEF SavePictureFails, StoreInv, Numbers, Listed
<1>7. QED
  BY <1>1, <1>4, <1>5, <1>6, WorkerKeepsLists DEF SavePictureFails, StoreInv

\* The event that gets the next number has no picture yet.
LEMMA ChoosePictureStep ==
    ASSUME StoreInv, NEW m \in Monitors, ChoosePicture(m)
    PROVE  StoreInv'
<1>1. /\ worker' \in WorkerRecords /\ worker'.stage \in {"reading", "writing"}
      /\ worker'.todo = {} /\ worker.todo = {} /\ worker.stage = "cycle"
      /\ worker'.stage = "writing" => worker'.picture = worker.picture
  BY RecordFacts DEF ChoosePicture, WorkerRecords
<1>2. worker.picture = NoMonitor
  BY <1>1 DEF StoreInv, Witnesses, OrphansAreWitnessed
<1>3. events \in Nat /\ events' = events + 1 /\ events' \in 0 .. MaxEvents
  BY StoreAssumption DEF ChoosePicture, StoreInv, StoreTypeOK
<1>4. StoreTypeOK'
  BY <1>1, <1>3 DEF ChoosePicture, dbRows, settings, StoreInv, StoreTypeOK, WorkerRecords
<1>5. Witnesses'
  BY <1>1, <1>2, NoMonitorFacts
     DEF ChoosePicture, dbRows, settings, StoreInv, Witnesses, OrphansAreWitnessed
<1>6. Numbers'
  <2>1. \A p \in Pruners : \A f \in files.names \cup Listed(p) :
           f \notin Monitors => f \in Nat /\ f <= events
    <3>1. \A p \in Pruners : files.names \cup Listed(p) \subseteq Monitors \cup 1 .. MaxEvents
      BY RecordFacts, DirectoryFacts DEF Pictures
    <3>2. QED
      BY <3>1 DEF StoreInv, Numbers
  <2>2. \A p \in Pruners : \A f \in files.names \cup Listed(p) :
           f \notin Monitors => f <= events' /\ f # events'
    BY <1>3, <2>1
  <2>3. files' = files /\ pruner' = pruner
    BY DEF ChoosePicture
  <2>4. QED
    BY <1>3, <2>2, <2>3 DEF Numbers, Listed
<1>7. QED
  BY <1>1, <1>4, <1>5, <1>6, WorkerKeepsLists DEF ChoosePicture, StoreInv

\* The picture is read, or has gone and ends the worker.
LEMMA ReadPictureStep == ASSUME StoreInv, ReadPicture PROVE StoreInv'
<1>1. /\ worker' \in WorkerRecords /\ worker'.stage \in {"writing", "down"}
      /\ worker'.todo = worker.todo /\ worker'.picture = NoMonitor
  BY RecordFacts DEF ReadPicture, WorkerRecords
<1>2. StoreTypeOK'
  BY <1>1 DEF ReadPicture, dbRows, settings, StoreInv, StoreTypeOK, WorkerRecords
<1>3. Witnesses'
  BY <1>1 DEF ReadPicture, dbRows, settings, StoreInv, Witnesses, OrphansAreWitnessed
<1>4. Numbers'
  BY <1>1 DEF ReadPicture, StoreInv, Numbers, Listed
<1>5. QED
  BY <1>2, <1>3, <1>4, WorkerKeepsLists DEF ReadPicture, StoreInv

\* The rules are done with when every monitor is: the worker's prune begins.
LEMMA EndRulesStep == ASSUME StoreInv, EndRules PROVE StoreInv'
<1>1. /\ worker' \in WorkerRecords /\ worker'.stage = "pruning"
      /\ worker'.todo = {} /\ worker.todo = {} /\ worker.stage = "cycle"
      /\ worker'.picture = worker.picture
  BY RecordFacts DEF EndRules, WorkerRecords
<1>2. worker.picture = NoMonitor
  BY <1>1 DEF StoreInv, Witnesses, OrphansAreWitnessed
<1>3. /\ pruner' \in [Pruners -> PrunerRecords]
      /\ pruner'["worker"].stage = "listing"
      /\ \A p \in Pruners : /\ pruner'[p].names = pruner[p].names
                            /\ pruner'[p].records = pruner[p].records
                            /\ pruner'[p].deleted = pruner[p].deleted
      /\ \A p \in Pruners : p # "worker" => pruner'[p] = pruner[p]
  <2> DEFINE r == [pruner["worker"] EXCEPT !.stage = "listing"]
  <2>1. pruner["worker"] \in PrunerRecords /\ pruner \in [Pruners -> PrunerRecords]
    BY RecordFacts DEF Pruners
  <2>2. /\ r \in PrunerRecords /\ r.stage = "listing" /\ r.names = pruner["worker"].names
        /\ r.records = pruner["worker"].records /\ r.deleted = pruner["worker"].deleted
    BY <2>1 DEF PrunerRecords
  <2>3. pruner' = [pruner EXCEPT !["worker"] = r]
    BY DEF EndRules
  <2> HIDE DEF r
  <2>4. \A p \in Pruners : pruner'[p] = IF p = "worker" THEN r ELSE pruner[p]
    BY <2>1, <2>3
  <2>5. pruner' \in [Pruners -> PrunerRecords]
    BY <2>1, <2>2, <2>3
  <2>6. "worker" \in Pruners
    BY DEF Pruners
  <2>7. QED
    BY <2>2, <2>4, <2>5, <2>6
<1>4. StoreTypeOK'
  BY <1>1, <1>3 DEF EndRules, dbRows, settings, StoreInv, StoreTypeOK, WorkerRecords, PrunerRecords
<1>5. Witnesses'
  BY <1>1, <1>2, NoMonitorFacts
     DEF EndRules, dbRows, settings, StoreInv, Witnesses, OrphansAreWitnessed
<1>6. \A p \in Pruners : Listed(p)' = Listed(p)
  BY <1>3 DEF Listed
<1>7. Numbers'
  BY <1>1, <1>6 DEF EndRules, StoreInv, Numbers
<1>8. ASSUME NEW p \in Pruners PROVE PrunerOK(p)'
  <2>1. CASE p = "worker"
    <3>1. pruner[p].stage = "off"
      BY <1>1, <2>1 DEF StoreInv, PrunerOK, StageOK
    <3>2. Listed(p) = {} /\ touched[p] = {} /\ touched' = touched
      BY <3>1 DEF EndRules, StoreInv, PrunerOK, StageOK
    <3>3. QED
      BY <1>1, <1>3, <1>6, <2>1, <3>2
         DEF PrunerOK, StageOK, OlderAreListed, YoungerRemain
  <2>2. CASE p # "worker"
    BY <1>3, <2>2, Undisturbed DEF EndRules
  <2>3. QED
    BY <2>1, <2>2
<1>9. QED
  BY <1>4, <1>5, <1>7, <1>8 DEF StoreInv

\* What Touch notes, and for whom.
LEMMA TouchFacts ==
    ASSUME StoreInv, NEW others, NEW f, Touch(others, f)
    PROVE  /\ touched' \in [Pruners -> SUBSET Pictures]
           /\ \A p \in Pruners : touched'[p] = IF p \in others /\ f \in Listed(p)
                                               THEN touched[p] \cup {f} ELSE touched[p]
<1>1. \A p \in Pruners : touched[p] \subseteq Pictures /\ Listed(p) \subseteq Pictures
  BY RecordFacts DEF Pictures
<1>2. touched' = [p \in Pruners |-> IF p \in others /\ f \in Listed(p)
                                    THEN touched[p] \cup {f} ELSE touched[p]]
  BY DEF Touch, Listed
<1>3. QED
  BY <1>1, <1>2

\* A pruner of which others note a file is in the same stage as before.
LEMMA StagesKeep ==
    ASSUME StoreInv, NEW p \in Pruners, pruner'[p] = pruner[p],
           touched'[p] # touched[p] => Listed(p) # {},
           p = "worker" /\ worker'.stage # "pruning" => pruner[p].stage \in {"off", "reading"},
           p = "worker" /\ pruner[p].stage = "reading" => worker'.stage = "starting"
    PROVE  StageOK(p)'
BY DEF StoreInv, PrunerOK, StageOK, Asked, More, Listed, Bytes

\* A debug picture is rewritten: who listed it notes that.
LEMMA WritePictureStep ==
    ASSUME StoreInv, NEW m \in Monitors, WritePicture(m)
    PROVE  StoreInv'
<1>1. /\ worker' \in WorkerRecords /\ worker'.stage = "cycle" /\ worker'.picture = m
      /\ worker'.todo = worker.todo /\ m \in worker.todo /\ worker.stage = "cycle"
  BY RecordFacts DEF WritePicture, WorkerRecords
<1>2. m \in Pictures /\ files' \in Directories /\ files'.names = files.names \cup {m}
  BY RecordFacts, WrittenFacts DEF WritePicture, Pictures
<1>3. /\ touched' \in [Pruners -> SUBSET Pictures]
      /\ \A p \in Pruners :
            touched'[p] = IF m \in Listed(p) THEN touched[p] \cup {m} ELSE touched[p]
  BY TouchFacts DEF WritePicture
<1>4. StoreTypeOK'
  BY <1>1, <1>2, <1>3 DEF WritePicture, dbRows, settings, StoreInv, StoreTypeOK, WorkerRecords
<1>5. Witnesses'
  BY <1>1, <1>2, NoMonitorFacts
     DEF WritePicture, dbRows, settings, StoreInv, Witnesses, OrphansAreWitnessed
<1>6. Numbers'
  BY <1>1, <1>2 DEF WritePicture, StoreInv, Numbers, Listed
<1>7. ASSUME NEW p \in Pruners PROVE PrunerOK(p)'
  <2>1. pruner'[p] = pruner[p] /\ files' = Written(files, m)
    BY DEF WritePicture
  <2>2. p = "worker" => pruner[p].stage = "off"
    BY <1>1 DEF StoreInv, PrunerOK, StageOK
  <2>3. StageOK(p)'
    BY <1>3, <2>1, <2>2, StagesKeep
  <2>4. touched'[p] \subseteq Monitors
    BY <1>3, RecordFacts
  <2>5. QED
    BY <1>2, <1>3, <2>1, <2>3, <2>4, WritingKeeps DEF PrunerOK
<1>8. QED
  BY <1>4, <1>5, <1>6, <1>7 DEF StoreInv

\* An event's picture is written: its number is in no list.
LEMMA WriteEventStep == ASSUME StoreInv, WriteEvent PROVE StoreInv'
<1>1. /\ worker' \in WorkerRecords /\ worker'.stage = "cycle" /\ worker'.picture = NoMonitor
      /\ worker'.todo = worker.todo /\ worker.stage = "writing"
  BY RecordFacts DEF WriteEvent, WorkerRecords, StoreInv, Witnesses, OrphansAreWitnessed
<1>2. events \in 1 .. MaxEvents
  BY <1>1, StoreAssumption DEF StoreInv, StoreTypeOK, Numbers
<1>3. events \in Pictures /\ events \notin Monitors
  BY <1>2, StoreAssumption DEF Pictures
<1>4. files' \in Directories /\ files'.names = files.names \cup {events}
  BY <1>3, RecordFacts, WrittenFacts DEF WriteEvent
<1>5. \A p \in Pruners : events \notin Listed(p)
  BY <1>1, <1>3 DEF StoreInv, Numbers
<1>6. StoreTypeOK'
  BY <1>1, <1>4 DEF WriteEvent, dbRows, settings, StoreInv, StoreTypeOK, WorkerRecords
<1>7. Witnesses'
  <2>1. (monitors' \cap files'.names) \ debugRows' = (monitors \cap files.names) \ debugRows
    BY <1>3, <1>4 DEF WriteEvent, dbRows, settings, StoreInv, StoreTypeOK
  <2>2. OrphansAreWitnessed'
    <3>1. \A m \in Monitors : m \in files'.names => m \in files.names
      BY <1>3, <1>4
    <3>2. QED
      BY <3>1 DEF WriteEvent, dbRows, settings, StoreInv, Witnesses, OrphansAreWitnessed
  <2>3. QED
    BY <1>1, <2>1, <2>2 DEF WriteEvent, dbRows, settings, StoreInv, Witnesses
<1>8. Numbers'
  BY <1>1, <1>2, <1>4 DEF WriteEvent, StoreInv, Numbers, Listed
<1>9. ASSUME NEW p \in Pruners PROVE PrunerOK(p)'
  <2>1. pruner'[p] = pruner[p] /\ files' = Written(files, events) /\ touched'[p] = touched[p]
    BY DEF WriteEvent
  <2>2. p = "worker" => pruner[p].stage = "off"
    BY <1>1 DEF StoreInv, PrunerOK, StageOK
  <2>3. StageOK(p)'
    BY <2>1, <2>2, StagesKeep
  <2>4. OlderAreListed(p)' /\ YoungerRemain(p)'
    BY <1>3, <1>5, <2>1, WritingKeeps
  <2>5. QED
    BY <2>1, <2>3, <2>4, RecordFacts DEF PrunerOK
<1>10. QED
  BY <1>6, <1>7, <1>8, <1>9 DEF StoreInv

-----------------------------------------------------------------------------
(* The API, the machine and the service manager. *)

LEMMA DeleteMonitorStep ==
    ASSUME StoreInv, NEW m \in Monitors, DeleteMonitor(m)
    PROVE  StoreInv'
<1>1. /\ files' = files /\ pruner' = pruner /\ touched' = touched /\ worker' = worker
      /\ events' = events /\ torn \subseteq torn'
      /\ monitors' = monitors \ {m} /\ debugRows' = debugRows \ {m} /\ m \in monitors
      /\ unlinking' = unlinking \cup (debugRows \cap {m})
      /\ m \in worker.todo => m \in torn'
  BY DEF DeleteMonitor
<1>2. StoreTypeOK'
  BY <1>1 DEF DeleteMonitor, settings, StoreInv, StoreTypeOK
<1>3. Witnesses'
  <2>1. ASSUME m \in files.names, m \notin debugRows
        PROVE  m \in torn'
    BY <1>1, <2>1, NoMonitorFacts DEF StoreInv, Witnesses
  <2>2. OrphansAreWitnessed'
    BY <1>1, <2>1 DEF StoreInv, Witnesses, OrphansAreWitnessed
  <2>3. QED
    BY <1>1, <2>2 DEF StoreInv, Witnesses
<1>4. Numbers'
  BY <1>1 DEF StoreInv, Numbers, Listed
<1>5. \A p \in Pruners : PrunerOK(p)'
  BY <1>1, Undisturbed DEF StoreInv, PrunerOK, StageOK
<1>6. QED
  BY <1>2, <1>3, <1>4, <1>5 DEF StoreInv

\* The API deletes a picture whose row is gone: who listed it notes that.
LEMMA DeleteFileStep ==
    ASSUME StoreInv, NEW m \in Monitors, DeleteFile(m)
    PROVE  StoreInv'
<1>1. /\ files' = Without(files, m) /\ pruner' = pruner /\ worker' = worker
      /\ events' = events /\ torn' = torn /\ monitors' = monitors /\ debugRows' = debugRows
      /\ unlinking' = unlinking \ {m}
  BY DEF DeleteFile
<1>2. files' \in Directories /\ files'.names = files.names \ {m}
  BY <1>1, RecordFacts, WithoutFacts
<1>3. /\ touched' \in [Pruners -> SUBSET Pictures]
      /\ \A p \in Pruners :
            touched'[p] = IF m \in Listed(p) THEN touched[p] \cup {m} ELSE touched[p]
  BY TouchFacts DEF DeleteFile
<1>4. StoreTypeOK'
  BY <1>2, <1>3 DEF DeleteFile, settings, StoreInv, StoreTypeOK
<1>5. Witnesses'
  BY <1>1, <1>2 DEF StoreInv, Witnesses, OrphansAreWitnessed
<1>6. Numbers'
  BY <1>1, <1>2 DEF StoreInv, Numbers, Listed
<1>7. ASSUME NEW p \in Pruners PROVE PrunerOK(p)'
  <2>1. /\ p = "worker" /\ worker'.stage # "pruning" => pruner[p].stage \in {"off", "reading"}
        /\ p = "worker" /\ pruner[p].stage = "reading" => worker'.stage = "starting"
    BY <1>1 DEF StoreInv, PrunerOK, StageOK
  <2>2. StageOK(p)'
    BY <1>1, <1>3, <2>1, StagesKeep
  <2>3. OlderAreListed(p)' /\ YoungerRemain(p)'
    BY <1>1, <1>3, DeletionKeeps
  <2>4. touched'[p] \subseteq Monitors
    BY <1>3, RecordFacts
  <2>5. QED
    BY <2>2, <2>3, <2>4 DEF PrunerOK
<1>8. QED
  BY <1>4, <1>5, <1>6, <1>7 DEF StoreInv

\* A picture that cannot be deleted is no longer waited for, and known.
LEMMA DeleteFileFailsStep ==
    ASSUME StoreInv, NEW m \in Monitors, DeleteFileFails(m)
    PROVE  StoreInv'
<1>1. /\ files' = files /\ pruner' = pruner /\ touched' = touched /\ worker' = worker
      /\ events' = events /\ torn' = torn \cup {m} /\ monitors' = monitors
      /\ debugRows' = debugRows /\ unlinking' = unlinking \ {m}
  BY DEF DeleteFileFails
<1>2. StoreTypeOK'
  BY <1>1 DEF DeleteFileFails, settings, StoreInv, StoreTypeOK
<1>3. Witnesses'
  BY <1>1 DEF StoreInv, Witnesses, OrphansAreWitnessed
<1>4. Numbers'
  BY <1>1 DEF StoreInv, Numbers, Listed
<1>5. \A p \in Pruners : PrunerOK(p)'
  BY <1>1, Undisturbed DEF StoreInv, PrunerOK, StageOK
<1>6. QED
  BY <1>2, <1>3, <1>4, <1>5 DEF StoreInv

\* New settings or another file on the disk are nothing to the lists.
LEMMA EditStep ==
    ASSUME StoreInv, \/ \E l \in Limits : UpdateMaxBytes(l)
                     \/ \E n \in MinFrees : UpdateMinFree(n)
                     \/ \E n \in Foreign : DiskChanges(n)
    PROVE  StoreInv'
<1>1. /\ files' = files /\ pruner' = pruner /\ touched' = touched /\ worker' = worker
      /\ events' = events /\ torn' = torn /\ monitors' = monitors /\ debugRows' = debugRows
      /\ unlinking' = unlinking
  BY DEF UpdateMaxBytes, UpdateMinFree, DiskChanges, dbRows, settings
<1>2. edits' \in 0 .. MaxEdits
  BY StoreAssumption DEF UpdateMaxBytes, UpdateMinFree, DiskChanges, StoreInv, StoreTypeOK
<1>3. StoreTypeOK'
  BY <1>1, <1>2
     DEF UpdateMaxBytes, UpdateMinFree, DiskChanges, dbRows, settings, StoreInv, StoreTypeOK
<1>4. Witnesses'
  BY <1>1 DEF StoreInv, Witnesses, OrphansAreWitnessed
<1>5. Numbers'
  BY <1>1 DEF StoreInv, Numbers, Listed
<1>6. \A p \in Pruners : PrunerOK(p)'
  BY <1>1, Undisturbed DEF StoreInv, PrunerOK, StageOK
<1>7. QED
  BY <1>3, <1>4, <1>5, <1>6 DEF StoreInv

-----------------------------------------------------------------------------
(* The pruners. *)

\* One pruner has moved on.
LEMMA MovedFacts ==
    ASSUME StoreInv, NEW p \in Pruners, NEW r \in PrunerRecords, r.deleted <= Batch(p),
           pruner' = [pruner EXCEPT ![p] = r]
    PROVE  /\ pruner' \in [Pruners -> PrunerRecords]
           /\ pruner'[p] = r
           /\ \A q \in Pruners : q # p => pruner'[q] = pruner[q] /\ Listed(q)' = Listed(q)
           /\ \A q \in Pruners : pruner'[q].deleted <= Batch(q)
           /\ Listed(p)' = r.names \cup r.records.names
<1>1. pruner \in [Pruners -> PrunerRecords] /\ \A q \in Pruners : pruner[q].deleted <= Batch(q)
  BY RecordFacts DEF StoreInv, StoreTypeOK
<1>2. pruner'[p] = r /\ \A q \in Pruners : q # p => pruner'[q] = pruner[q]
  BY <1>1
<1>3. QED
  BY <1>1, <1>2 DEF Listed

\* No files are a directory.
LEMMA EmptyFacts == Empty \in Directories /\ Empty.names = {} /\ Empty.older = {}
  BY DEF Empty, Directories, InOrder

\* A pruner that is off.
LEMMA IdleFacts ==
    ASSUME NEW lim \in Limits, NEW free \in MinFrees
    PROVE  /\ Idle(lim, free) \in PrunerRecords /\ Idle(lim, free).stage = "off"
           /\ Idle(lim, free).names = {} /\ Idle(lim, free).records = Empty
           /\ \A p \in Pruners : Idle(lim, free).deleted <= Batch(p)
BY EmptyFacts, StoreAssumption DEF Idle, PrunerRecords

\* A pruner that has listed nothing yet reads the settings.
LEMMA ReadingKeeps ==
    ASSUME StoreInv, NEW p \in Pruners, NEW r \in PrunerRecords,
           pruner[p].stage \in {"off", "reading"}, r.stage \in {"off", "reading", "listing"},
           r = [pruner[p] EXCEPT !.stage = r.stage, !.limit = r.limit, !.minFree = r.minFree],
           pruner' = [pruner EXCEPT ![p] = r],
           p = "worker" /\ worker'.stage # "pruning" => r.stage \in {"off", "reading"},
           p = "worker" /\ r.stage = "reading" => worker'.stage = "starting",
           p # "worker" => worker' = worker,
           UNCHANGED <<files, touched>>
    PROVE  /\ pruner' \in [Pruners -> PrunerRecords]
           /\ \A q \in Pruners : pruner'[q].deleted <= Batch(q)
           /\ \A q \in Pruners : Listed(q)' = Listed(q)
           /\ \A q \in Pruners : PrunerOK(q)'
<1>1. pruner[p] \in PrunerRecords /\ pruner[p].deleted <= Batch(p)
  BY RecordFacts DEF StoreInv, StoreTypeOK
<1>2. /\ r.names = pruner[p].names /\ r.records = pruner[p].records
      /\ r.deleted = pruner[p].deleted
  BY <1>1 DEF PrunerRecords
<1>3. /\ pruner' \in [Pruners -> PrunerRecords] /\ pruner'[p] = r
      /\ \A q \in Pruners : q # p => pruner'[q] = pruner[q] /\ Listed(q)' = Listed(q)
      /\ \A q \in Pruners : pruner'[q].deleted <= Batch(q)
      /\ Listed(p)' = r.names \cup r.records.names
  BY <1>1, <1>2, MovedFacts
<1>4. Listed(p)' = Listed(p)
  BY <1>2, <1>3 DEF Listed
<1>5. ASSUME NEW q \in Pruners PROVE PrunerOK(q)'
  <2>1. CASE q = p
    <3>1. Listed(p) = {} /\ touched'[p] = {}
      BY DEF StoreInv, PrunerOK, StageOK
    <3>2. QED
      BY <1>3, <1>4, <2>1, <3>1 DEF PrunerOK, StageOK, OlderAreListed, YoungerRemain
  <2>2. CASE q # p
    BY <1>3, <2>2, Undisturbed DEF StoreInv, PrunerOK, StageOK, Pruners
  <2>3. QED
    BY <2>1, <2>2
<1>6. QED
  BY <1>3, <1>4, <1>5

\* The cleanup service starts with the limit of the table.
LEMMA StartCleanupStep == ASSUME StoreInv, StartCleanup PROVE StoreInv'
<1> DEFINE p == "cleanup"
           r == [pruner[p] EXCEPT !.stage = "reading", !.limit = limit]
<1>1. p \in Pruners /\ pruner[p].stage = "off" /\ limit \in Limits /\ pruner[p] \in PrunerRecords
  BY RecordFacts DEF StartCleanup, StoreInv, StoreTypeOK, Pruners
<1>2. /\ r \in PrunerRecords /\ r.stage = "reading"
      /\ r = [pruner[p] EXCEPT !.stage = r.stage, !.limit = r.limit, !.minFree = r.minFree]
  BY <1>1 DEF PrunerRecords
<1>3. /\ pruner' = [pruner EXCEPT ![p] = r]
      /\ UNCHANGED <<dbRows, files, foreign, events, worker, torn, touched, edits>>
  BY <1>1, RecordFacts DEF StartCleanup
<1> HIDE DEF r
<1>4. /\ pruner' \in [Pruners -> PrunerRecords]
      /\ \A q \in Pruners : pruner'[q].deleted <= Batch(q)
      /\ \A q \in Pruners : Listed(q)' = Listed(q)
      /\ \A q \in Pruners : PrunerOK(q)'
  BY <1>1, <1>2, <1>3, ReadingKeeps
<1>5. StoreTypeOK'
  BY <1>3, <1>4 DEF dbRows, settings, StoreInv, StoreTypeOK, PrunerRecords
<1>6. Witnesses'
  BY <1>3 DEF dbRows, settings, StoreInv, Witnesses, OrphansAreWitnessed
<1>7. Numbers'
  BY <1>3, <1>4 DEF StoreInv, Numbers
<1>8. QED
  BY <1>4, <1>5, <1>6, <1>7 DEF StoreInv

\* The second setting is read: the service lists, the worker begins.
LEMMA ReadMinFreeStep == ASSUME StoreInv, NEW p \in Pruners, ReadMinFree(p) PROVE StoreInv'
<1> DEFINE r == [pruner[p] EXCEPT !.minFree = minFree,
                                  !.stage = IF p = "worker" THEN "off" ELSE "listing"]
<1>1. pruner[p].stage = "reading" /\ minFree \in MinFrees /\ pruner[p] \in PrunerRecords
  BY RecordFacts DEF ReadMinFree, StoreInv, StoreTypeOK
<1>2. /\ r \in PrunerRecords /\ r.stage = IF p = "worker" THEN "off" ELSE "listing"
      /\ r = [pruner[p] EXCEPT !.stage = r.stage, !.limit = r.limit, !.minFree = r.minFree]
  BY <1>1 DEF PrunerRecords
<1>3. /\ pruner' = [pruner EXCEPT ![p] = r]
      /\ UNCHANGED <<dbRows, files, foreign, events, torn, touched, edits>>
  BY <1>1, RecordFacts DEF ReadMinFree
<1>4. /\ p # "worker" => worker' = worker
      /\ p = "worker" => /\ worker.stage = "starting" /\ worker'.stage = "idle"
                         /\ worker'.todo = {} /\ worker'.picture = NoMonitor
                         /\ worker' \in WorkerRecords
  BY <1>1 DEF ReadMinFree, NewWorker, WorkerRecords, StoreInv, PrunerOK, StageOK
<1> HIDE DEF r
<1>5. /\ pruner' \in [Pruners -> PrunerRecords]
      /\ \A q \in Pruners : pruner'[q].deleted <= Batch(q)
      /\ \A q \in Pruners : Listed(q)' = Listed(q)
      /\ \A q \in Pruners : PrunerOK(q)'
  BY <1>1, <1>2, <1>3, <1>4, ReadingKeeps
<1>6. worker' \in WorkerRecords
  BY <1>4, RecordFacts
<1>7. StoreTypeOK'
  BY <1>3, <1>5, <1>6 DEF dbRows, settings, StoreInv, StoreTypeOK, PrunerRecords, WorkerRecords
<1>8. Witnesses'
  <2>1. CASE p = "worker"
    BY <1>3, <1>4, <2>1 DEF dbRows, settings, StoreInv, Witnesses, OrphansAreWitnessed
  <2>2. CASE p # "worker"
    BY <1>3, <1>4, <2>2 DEF dbRows, settings, StoreInv, Witnesses, OrphansAreWitnessed
  <2>3. QED
    BY <2>1, <2>2
<1>9. Numbers'
  <2>1. /\ worker'.stage \in {"reading", "writing"} => worker.stage \in {"reading", "writing"}
        /\ files' = files /\ events' = events
    BY <1>3, <1>4
  <2>2. QED
    BY <1>5, <2>1 DEF StoreInv, Numbers
<1>10. QED
  BY <1>5, <1>7, <1>8, <1>9 DEF StoreInv

\* The listing: all there is, so nothing older is missed.
LEMMA ListStep == ASSUME StoreInv, NEW p \in Pruners, List(p) PROVE StoreInv'
<1> DEFINE r == [pruner[p] EXCEPT !.stage = "sizing", !.names = files.names]
<1>1. /\ pruner[p] \in PrunerRecords /\ pruner[p].stage = "listing"
      /\ pruner[p].deleted <= Batch(p) /\ pruner \in [Pruners -> PrunerRecords]
  BY RecordFacts DEF List, StoreInv, StoreTypeOK
<1>2. files.names \subseteq Pictures
  BY RecordFacts, DirectoryFacts
<1>3. /\ r \in PrunerRecords /\ r.stage = "sizing" /\ r.names = files.names
      /\ r.records = pruner[p].records /\ r.deleted <= Batch(p)
  BY <1>1, <1>2 DEF PrunerRecords
<1>4. /\ pruner' = [pruner EXCEPT ![p] = r]
      /\ UNCHANGED <<dbRows, files, foreign, events, worker, torn, touched, edits>>
  BY <1>1 DEF List
<1> HIDE DEF r
<1>5. /\ Listed(p) = {} /\ touched[p] = {}
      /\ p = "worker" => worker.stage = "pruning"
  BY <1>1 DEF StoreInv, PrunerOK, StageOK
<1>6. pruner[p].records = Empty
  <2>1. pruner[p].records \in Directories /\ pruner[p].records.names = {}
    BY <1>5, RecordFacts DEF Listed
  <2>2. pruner[p].records.older = {}
    BY <2>1, DirectoryFacts
  <2>3. pruner[p].records = [names |-> pruner[p].records.names, older |-> pruner[p].records.older]
    BY <2>1 DEF Directories
  <2>4. QED
    BY <2>1, <2>2, <2>3 DEF Empty
<1>7. /\ pruner' \in [Pruners -> PrunerRecords] /\ pruner'[p] = r
      /\ \A q \in Pruners : q # p => pruner'[q] = pruner[q] /\ Listed(q)' = Listed(q)
      /\ \A q \in Pruners : pruner'[q].deleted <= Batch(q)
      /\ Listed(p)' = r.names \cup r.records.names
  BY <1>3, <1>4, MovedFacts
<1>8. Listed(p)' = files.names
  BY <1>3, <1>6, <1>7, EmptyFacts
<1>9. StoreTypeOK'
  BY <1>4, <1>7 DEF dbRows, settings, StoreInv, StoreTypeOK, PrunerRecords
<1>10. Witnesses'
  BY <1>4 DEF dbRows, settings, StoreInv, Witnesses, OrphansAreWitnessed
<1>11. Numbers'
  BY <1>4, <1>7, <1>8 DEF StoreInv, Numbers
<1>12. ASSUME NEW q \in Pruners PROVE PrunerOK(q)'
  <2>1. CASE q = p
    <3>1. touched'[q] = {} /\ files' = files /\ worker' = worker
      BY <1>4, <1>5, <2>1
    <3>2. QED
      BY <1>3, <1>5, <1>6, <1>7, <1>8, <2>1, <3>1
         DEF PrunerOK, StageOK, OlderAreListed, YoungerRemain
  <2>2. CASE q # p
    BY <1>4, <1>7, <2>2, Undisturbed DEF StoreInv, PrunerOK, StageOK
  <2>3. QED
    BY <2>1, <2>2
<1>13. QED
  BY <1>9, <1>10, <1>11, <1>12 DEF StoreInv

\* What is found of the list, with its sizes and times, is what there is of it.
LEMMA GatherStep == ASSUME StoreInv, NEW p \in Pruners, Gather(p) PROVE StoreInv'
<1> DEFINE found == Only(files, pruner[p].names)
           r == [pruner[p] EXCEPT !.stage = "deleting", !.names = {}, !.records = found,
                                  !.usage = Bytes(found.names)]
<1>1. /\ pruner[p] \in PrunerRecords /\ pruner[p].stage = "sizing"
      /\ pruner[p].deleted <= Batch(p) /\ pruner \in [Pruners -> PrunerRecords]
      /\ pruner[p].names \subseteq files.names
  BY RecordFacts DEF Gather, StoreInv, StoreTypeOK
<1>2. /\ found \in Directories /\ found.names = pruner[p].names
      /\ \A f, g : <<f, g>> \in found.older <=>
            <<f, g>> \in files.older /\ f \in pruner[p].names /\ g \in pruner[p].names
  <2>1. files \in Directories
    BY RecordFacts
  <2>2. /\ found \in Directories /\ found.names = files.names \cap pruner[p].names
        /\ \A f, g : <<f, g>> \in found.older <=>
              <<f, g>> \in files.older /\ f \in pruner[p].names /\ g \in pruner[p].names
    BY <2>1, OnlyFacts
  <2> HIDE DEF found
  <2>3. QED
    BY <1>1, <2>2
<1>3. Bytes(found.names) \in Nat
  BY <1>2, DirectoryFacts, BytesFacts
<1>4. /\ pruner' = [pruner EXCEPT ![p] = r]
      /\ UNCHANGED <<dbRows, files, foreign, events, worker, torn, touched, edits>>
  BY <1>1 DEF Gather
<1> HIDE DEF found
<1>5. /\ r \in PrunerRecords /\ r.stage = "deleting" /\ r.names = {} /\ r.records = found
      /\ r.usage = Bytes(found.names) /\ r.deleted <= Batch(p)
  BY <1>1, <1>2, <1>3 DEF PrunerRecords
<1> HIDE DEF r
<1>6. /\ Listed(p) = pruner[p].names
      /\ p = "worker" => worker.stage = "pruning"
  BY <1>1, EmptyFacts DEF StoreInv, PrunerOK, StageOK, Listed
<1>7. /\ pruner' \in [Pruners -> PrunerRecords] /\ pruner'[p] = r
      /\ \A q \in Pruners : q # p => pruner'[q] = pruner[q] /\ Listed(q)' = Listed(q)
      /\ \A q \in Pruners : pruner'[q].deleted <= Batch(q)
      /\ Listed(p)' = r.names \cup r.records.names
  BY <1>4, <1>5, MovedFacts
<1>8. Listed(p)' = Listed(p)
  BY <1>2, <1>5, <1>6, <1>7
<1>9. StoreTypeOK'
  BY <1>4, <1>7 DEF dbRows, settings, StoreInv, StoreTypeOK, PrunerRecords
<1>10. Witnesses'
  BY <1>4 DEF dbRows, settings, StoreInv, Witnesses, OrphansAreWitnessed
<1>11. Numbers'
  BY <1>4, <1>7, <1>8 DEF StoreInv, Numbers
<1>12. ASSUME NEW q \in Pruners PROVE PrunerOK(q)'
  <2>1. CASE q = p
    <3>1. /\ touched' = touched /\ files' = files /\ worker' = worker
          /\ touched'[p] \subseteq Monitors
      BY <1>4, RecordFacts
    <3>2. StageOK(p)'
      BY <1>5, <1>6, <1>7, <3>1 DEF StageOK, Bytes
    <3>3. OlderAreListed(p)'
      BY <1>1, <1>2, <1>5, <1>6, <1>7, <1>8, <3>1 DEF StoreInv, PrunerOK, OlderAreListed
    <3>4. YoungerRemain(p)'
      BY <1>1, <1>2, <1>5, <1>7, <3>1 DEF YoungerRemain
    <3>5. QED
      BY <2>1, <3>1, <3>2, <3>3, <3>4 DEF PrunerOK
  <2>2. CASE q # p
    BY <1>4, <1>7, <2>2, Undisturbed DEF StoreInv, PrunerOK, StageOK
  <2>3. QED
    BY <2>1, <2>2
<1>13. QED
  BY <1>9, <1>10, <1>11, <1>12 DEF StoreInv

\* A pruner is off again, and what it noted is forgotten.
LEMMA OffKeeps ==
    ASSUME StoreInv, NEW p \in Pruners, NEW lim \in Limits, NEW free \in MinFrees,
           pruner' = [pruner EXCEPT ![p] = Idle(lim, free)], files' = files, touched'[p] = {},
           \A q \in Pruners : q # p => touched'[q] = touched[q],
           p # "worker" => worker' = worker
    PROVE  /\ pruner' \in [Pruners -> PrunerRecords]
           /\ \A q \in Pruners : pruner'[q].deleted <= Batch(q)
           /\ \A q \in Pruners : Listed(q)' \subseteq Listed(q)
           /\ \A q \in Pruners : PrunerOK(q)'
<1> DEFINE r == Idle(lim, free)
<1>1. /\ r \in PrunerRecords /\ r.stage = "off" /\ r.names = {} /\ r.records.names = {}
      /\ r.deleted <= Batch(p)
  BY IdleFacts, EmptyFacts
<1> HIDE DEF r
<1>2. /\ pruner' \in [Pruners -> PrunerRecords] /\ pruner'[p] = r
      /\ \A q \in Pruners : q # p => pruner'[q] = pruner[q] /\ Listed(q)' = Listed(q)
      /\ \A q \in Pruners : pruner'[q].deleted <= Batch(q)
      /\ Listed(p)' = {}
  <2>1. pruner' = [pruner EXCEPT ![p] = r]
    BY DEF r
  <2>2. Listed(p)' = r.names \cup r.records.names
    BY <1>1, <2>1, MovedFacts
  <2>3. /\ pruner' \in [Pruners -> PrunerRecords] /\ pruner'[p] = r
        /\ \A q \in Pruners : q # p => pruner'[q] = pruner[q] /\ Listed(q)' = Listed(q)
        /\ \A q \in Pruners : pruner'[q].deleted <= Batch(q)
    BY <1>1, <2>1, MovedFacts
  <2>4. QED
    BY <1>1, <2>2, <2>3
<1>3. ASSUME NEW q \in Pruners PROVE PrunerOK(q)'
  <2>1. CASE q = p
    BY <1>1, <1>2, <2>1 DEF PrunerOK, StageOK, OlderAreListed, YoungerRemain
  <2>2. CASE q # p
    BY <1>2, <2>2, Undisturbed DEF StoreInv, PrunerOK, StageOK, Pruners
  <2>3. QED
    BY <2>1, <2>2
<1>4. QED
  BY <1>2, <1>3

\* A run of a pruner ends, well or with the exception of a file that has gone.
LEMMA EndsStep ==
    ASSUME StoreInv, NEW p \in Pruners, NEW stage \in {"idle", "down"}, Ends(p, stage),
           pruner[p].stage \notin {"off", "reading"}, edits' \in 0 .. MaxEdits,
           UNCHANGED <<dbRows, files, foreign, events, torn>>
    PROVE  StoreInv'
<1>1. /\ p # "worker" => worker' = worker
      /\ p = "worker" => /\ worker' \in WorkerRecords /\ worker'.stage = stage
                         /\ worker'.todo = {} /\ worker'.picture = NoMonitor
                         /\ worker.stage = "pruning"
  BY DEF Ends, NewWorker, WorkerRecords, StoreInv, PrunerOK, StageOK
<1>2. pruner[p].limit \in Limits /\ pruner[p].minFree \in MinFrees
  BY RecordFacts DEF PrunerRecords
<1>3. /\ pruner' = [pruner EXCEPT ![p] = Idle(pruner[p].limit, pruner[p].minFree)]
      /\ touched' = [touched EXCEPT ![p] = {}]
  BY DEF Ends
<1>4. /\ touched' \in [Pruners -> SUBSET Pictures] /\ touched'[p] = {}
      /\ \A q \in Pruners : q # p => touched'[q] = touched[q]
  BY <1>3 DEF StoreInv, StoreTypeOK
<1>5. /\ pruner' \in [Pruners -> PrunerRecords]
      /\ \A q \in Pruners : pruner'[q].deleted <= Batch(q)
      /\ \A q \in Pruners : Listed(q)' \subseteq Listed(q)
      /\ \A q \in Pruners : PrunerOK(q)'
  BY <1>1, <1>2, <1>3, <1>4, OffKeeps
<1>6. worker' \in WorkerRecords
  BY <1>1, RecordFacts
<1>7. StoreTypeOK'
  BY <1>4, <1>5, <1>6 DEF dbRows, settings, StoreInv, StoreTypeOK, WorkerRecords, PrunerRecords
<1>8. Witnesses'
  <2>1. CASE p = "worker"
    BY <1>1, <2>1 DEF dbRows, settings, StoreInv, Witnesses, OrphansAreWitnessed
  <2>2. CASE p # "worker"
    BY <1>1, <2>2 DEF dbRows, settings, StoreInv, Witnesses, OrphansAreWitnessed
  <2>3. QED
    BY <2>1, <2>2
<1>9. Numbers'
  <2>1. /\ worker'.stage \in {"reading", "writing"} => worker.stage \in {"reading", "writing"}
        /\ files' = files /\ events' = events
    BY <1>1
  <2>2. QED
    BY <1>5, <2>1 DEF StoreInv, Numbers
<1>10. QED
  BY <1>5, <1>7, <1>8, <1>9 DEF StoreInv

\* The ways a run ends.
LEMMA FinishStep ==
    ASSUME StoreInv, NEW p \in Pruners, Finish(p) \/ GatherFails(p) \/ UnlinkFails(p)
    PROVE  StoreInv'
<1>1. edits \in 0 .. MaxEdits /\ (edits < MaxEdits => edits + 1 \in 0 .. MaxEdits)
  BY StoreAssumption DEF StoreInv, StoreTypeOK
<1>2. CASE Finish(p)
  BY <1>1, <1>2, EndsStep DEF Finish
<1>3. CASE GatherFails(p)
  BY <1>1, <1>3, EndsStep DEF GatherFails
<1>4. CASE UnlinkFails(p)
  BY <1>1, <1>4, EndsStep DEF UnlinkFails
<1>5. QED
  BY <1>2, <1>3, <1>4

\* A crash: the file that was written has no row yet, which torn remembers.
LEMMA WorkerCrashStep == ASSUME StoreInv, WorkerCrash PROVE StoreInv'
<1>1. /\ worker' \in WorkerRecords /\ worker'.stage = "down" /\ worker'.todo = {}
      /\ worker'.picture = NoMonitor
  BY DEF WorkerCrash, NewWorker, WorkerRecords
<1>2. /\ "worker" \in Pruners /\ pruner["worker"].limit \in Limits
      /\ pruner["worker"].minFree \in MinFrees
  BY RecordFacts DEF PrunerRecords, Pruners
<1>3. /\ touched' \in [Pruners -> SUBSET Pictures] /\ touched'["worker"] = {}
      /\ \A q \in Pruners : q # "worker" => touched'[q] = touched[q]
  BY <1>2 DEF WorkerCrash, StoreInv, StoreTypeOK
<1>4. /\ pruner' = [pruner EXCEPT !["worker"] = Idle(pruner["worker"].limit,
                                                      pruner["worker"].minFree)]
      /\ files' = files
  BY DEF WorkerCrash
<1>5. /\ pruner' \in [Pruners -> PrunerRecords]
      /\ \A q \in Pruners : pruner'[q].deleted <= Batch(q)
      /\ \A q \in Pruners : Listed(q)' \subseteq Listed(q)
      /\ \A q \in Pruners : PrunerOK(q)'
  BY <1>2, <1>3, <1>4, OffKeeps
<1>6. /\ torn \subseteq torn' /\ torn' \subseteq Monitors
      /\ worker.stage = "cycle" => worker.picture \in torn' \cup debugRows \cup {NoMonitor}
  BY RecordFacts DEF WorkerCrash, StoreInv, StoreTypeOK, WorkerRecords
<1>7. edits' \in 0 .. MaxEdits
  BY StoreAssumption DEF WorkerCrash, StoreInv, StoreTypeOK
<1>8. StoreTypeOK'
  BY <1>1, <1>3, <1>5, <1>6, <1>7
     DEF WorkerCrash, dbRows, settings, StoreInv, StoreTypeOK, WorkerRecords, PrunerRecords
<1>9. Witnesses'
  BY <1>1, <1>6, NoMonitorFacts
     DEF WorkerCrash, dbRows, settings, StoreInv, Witnesses, OrphansAreWitnessed
<1>10. Numbers'
  BY <1>1, <1>5 DEF WorkerCrash, StoreInv, Numbers
<1>11. QED
  BY <1>5, <1>8, <1>9, <1>10 DEF StoreInv

\* The worker starts again, and reads the limit of the table.
LEMMA WorkerRestartStep == ASSUME StoreInv, WorkerRestart PROVE StoreInv'
<1> DEFINE p == "worker"
           r == [pruner[p] EXCEPT !.stage = "reading", !.limit = limit]
<1>1. /\ worker' \in WorkerRecords /\ worker'.stage = "starting" /\ worker'.todo = worker.todo
      /\ worker'.picture = worker.picture /\ worker.stage = "down"
  BY RecordFacts DEF WorkerRestart, WorkerRecords
<1>2. p \in Pruners /\ pruner[p].stage = "off" /\ limit \in Limits /\ pruner[p] \in PrunerRecords
  BY RecordFacts DEF WorkerRestart, StoreInv, StoreTypeOK, Pruners
<1>3. /\ r \in PrunerRecords /\ r.stage = "reading"
      /\ r = [pruner[p] EXCEPT !.stage = r.stage, !.limit = r.limit, !.minFree = r.minFree]
  BY <1>2 DEF PrunerRecords
<1>4. /\ pruner' = [pruner EXCEPT ![p] = r]
      /\ UNCHANGED <<dbRows, files, foreign, events, torn, touched, edits>>
  BY <1>2, RecordFacts DEF WorkerRestart
<1> HIDE DEF r
<1>5. /\ pruner' \in [Pruners -> PrunerRecords]
      /\ \A q \in Pruners : pruner'[q].deleted <= Batch(q)
      /\ \A q \in Pruners : Listed(q)' = Listed(q)
      /\ \A q \in Pruners : PrunerOK(q)'
  BY <1>1, <1>2, <1>3, <1>4, ReadingKeeps
<1>6. StoreTypeOK'
  BY <1>1, <1>4, <1>5
     DEF dbRows, settings, StoreInv, StoreTypeOK, WorkerRecords, PrunerRecords
<1>7. Witnesses'
  BY <1>1, <1>4 DEF dbRows, settings, StoreInv, Witnesses, OrphansAreWitnessed
<1>8. Numbers'
  BY <1>1, <1>4, <1>5 DEF StoreInv, Numbers
<1>9. QED
  BY <1>5, <1>6, <1>7, <1>8 DEF StoreInv

\* A recorded file that nobody changed is the oldest there is when its turn comes.
LEMMA InTurn ==
    ASSUME StoreInv, NEW p \in Pruners, pruner[p].stage \in {"deleting", "unlinking"},
           pruner[p].records.names # {}, Oldest(pruner[p].records) \notin touched[p]
    PROVE  \A g \in files.names : <<g, Oldest(pruner[p].records)>> \notin files.older
<1> DEFINE noted == pruner[p].records
           f == Oldest(noted)
<1>1. noted \in Directories /\ files \in Directories
  BY RecordFacts
<1>2. f \in noted.names /\ \A g \in noted.names : <<g, f>> \notin noted.older
  BY <1>1, OldestFacts
<1>3. SUFFICES ASSUME NEW g \in files.names, <<g, f>> \in files.older
               PROVE  FALSE
  OBVIOUS
<1> HIDE DEF f
<1>4. f \in files.names
  BY <1>1, <1>3, DirectoryFacts
<1>5. f \in Listed(p) \cap files.names
  BY <1>2, <1>4 DEF Listed
<1>6. f \notin touched[p]
  BY DEF f
<1>7. <<g, f>> \in noted.older
  BY <1>3, <1>5, <1>6 DEF StoreInv, PrunerOK, OlderAreListed
<1>8. g \in noted.names
  BY <1>1, <1>7, DirectoryFacts
<1>9. QED
  BY <1>2, <1>7, <1>8

\* The decision to delete a file, for the limit or for the space as it is.
LEMMA CheckStep == ASSUME StoreInv, NEW p \in Pruners, Check(p) PROVE StoreInv'
<1> DEFINE r == [pruner[p] EXCEPT !.stage = "unlinking", !.short = Short(p)]
<1>1. /\ pruner[p] \in PrunerRecords /\ pruner[p].stage = "deleting"
      /\ pruner[p].deleted <= Batch(p) /\ pruner \in [Pruners -> PrunerRecords]
      /\ More(p) /\ ~Enough(p)
  BY RecordFacts DEF Check, StoreInv, StoreTypeOK
<1>2. Short(p) \in BOOLEAN
  BY DEF Short
<1>3. /\ r \in PrunerRecords /\ r.stage = "unlinking" /\ r.short = Short(p)
      /\ r.names = pruner[p].names /\ r.records = pruner[p].records
      /\ r.usage = pruner[p].usage /\ r.limit = pruner[p].limit
      /\ r.deleted = pruner[p].deleted
  BY <1>1, <1>2 DEF PrunerRecords
<1>4. /\ pruner' = [pruner EXCEPT ![p] = r]
      /\ UNCHANGED <<dbRows, files, foreign, events, worker, torn, touched, edits>>
  BY <1>1 DEF Check
<1> HIDE DEF r
<1>5. /\ pruner' \in [Pruners -> PrunerRecords] /\ pruner'[p] = r
      /\ \A q \in Pruners : q # p => pruner'[q] = pruner[q] /\ Listed(q)' = Listed(q)
      /\ \A q \in Pruners : pruner'[q].deleted <= Batch(q)
      /\ Listed(p)' = r.names \cup r.records.names
  BY <1>1, <1>3, <1>4, MovedFacts
<1>6. Listed(p)' = Listed(p)
  BY <1>3, <1>5 DEF Listed
<1>7. StoreTypeOK'
  BY <1>4, <1>5 DEF dbRows, settings, StoreInv, StoreTypeOK, PrunerRecords
<1>8. Witnesses'
  BY <1>4 DEF dbRows, settings, StoreInv, Witnesses, OrphansAreWitnessed
<1>9. Numbers'
  BY <1>4, <1>5, <1>6 DEF StoreInv, Numbers
<1>10. ASSUME NEW q \in Pruners PROVE PrunerOK(q)'
  <2>1. CASE q = p
    <3>1. /\ touched' = touched /\ files' = files /\ worker' = worker
          /\ touched'[p] \subseteq Monitors
      BY <1>4, RecordFacts
    <3>2. More(p)'
      BY <1>1, <1>3, <1>5 DEF More
    <3>3. Asked(p)'
      <4>1. pruner[p].usage \in Nat /\ pruner[p].limit \in Nat
        BY <1>1, StoreAssumption DEF PrunerRecords
      <4>2. pruner[p].usage > pruner[p].limit \/ Short(p)
        BY <1>1, <4>1 DEF Enough
      <4>3. QED
        BY <1>3, <1>5, <4>2 DEF Asked
    <3>4. StageOK(p)'
      BY <1>1, <1>3, <1>5, <3>1, <3>2, <3>3 DEF StoreInv, PrunerOK, StageOK, Bytes
    <3>5. OlderAreListed(p)' /\ YoungerRemain(p)'
      BY <1>1, <1>3, <1>5, <1>6, <3>1 DEF StoreInv, PrunerOK, OlderAreListed, YoungerRemain
    <3>6. QED
      BY <2>1, <3>1, <3>4, <3>5 DEF PrunerOK
  <2>2. CASE q # p
    BY <1>4, <1>5, <2>2, Undisturbed DEF StoreInv, PrunerOK, StageOK
  <2>3. QED
    BY <2>1, <2>2
<1>11. QED
  BY <1>7, <1>8, <1>9, <1>10 DEF StoreInv

\* A deletion: the oldest of the records, whoever else is deleting meanwhile.
LEMMA UnlinkStep == ASSUME StoreInv, NEW p \in Pruners, Unlink(p) PROVE StoreInv'
<1> DEFINE noted == pruner[p].records
           f == Oldest(noted)
           rest == Without(noted, f)
           r == [pruner[p] EXCEPT !.stage = "deleting", !.short = FALSE,
                                  !.records = Without(@, f), !.deleted = @ + 1,
                                  !.usage = @ - Size[f]]
           others == {q \in Pruners \ {p} : OutOfTurn(p, f)}
<1>1. /\ pruner[p] \in PrunerRecords /\ pruner \in [Pruners -> PrunerRecords]
      /\ pruner[p].stage = "unlinking" /\ noted.names # {} /\ pruner[p].deleted < Batch(p)
      /\ noted \in Directories
  BY RecordFacts DEF Unlink, More, StoreInv, PrunerOK, StageOK
<1>2. f \in noted.names /\ f \in Pictures /\ \A g \in noted.names : <<g, f>> \notin noted.older
  BY <1>1, OldestFacts, DirectoryFacts
<1>3. /\ pruner[p].names = {} /\ pruner[p].usage = Bytes(noted.names)
      /\ Listed(p) = noted.names
      /\ p = "worker" => worker.stage = "pruning"
  BY <1>1 DEF StoreInv, PrunerOK, StageOK, Listed
<1>4. \A g \in files.names : f \notin touched[p] => <<g, f>> \notin files.older
  BY <1>1, InTurn
<1>5. /\ files' = Without(files, f) /\ pruner' = [pruner EXCEPT ![p] = r]
      /\ Touch(others, f)
      /\ UNCHANGED <<dbRows, foreign, events, worker, torn, edits>>
  BY <1>1 DEF Unlink, Removed
<1> HIDE DEF f
<1>6. /\ rest \in Directories /\ rest.names = noted.names \ {f}
      /\ \A g, h : <<g, h>> \in rest.older <=> <<g, h>> \in noted.older /\ g # f /\ h # f
  BY <1>1, WithoutFacts
<1>7. pruner[p].usage - Size[f] = Bytes(rest.names) /\ Bytes(rest.names) \in Nat
  <2>1. noted.names \in SUBSET Pictures /\ rest.names \in SUBSET Pictures
    BY <1>1, <1>6, DirectoryFacts
  <2>2. Bytes(noted.names) = Size[f] + Bytes(noted.names \ {f}) /\ Size[f] \in Nat
    BY <1>2, <2>1, BytesFacts
  <2>3. Bytes(rest.names) \in Nat
    BY <2>1, BytesFacts
  <2>4. QED
    BY <1>3, <1>6, <2>2, <2>3
<1>8. pruner[p].deleted + 1 \in Nat /\ pruner[p].deleted + 1 <= Batch(p)
  <2>1. Batch(p) \in Nat
    BY StoreAssumption
  <2>2. pruner[p].deleted \in Nat
    BY <1>1 DEF PrunerRecords
  <2>3. QED
    BY <1>1, <2>1, <2>2
<1>9. /\ r \in PrunerRecords /\ r.stage = "deleting" /\ r.names = {} /\ r.records = rest
      /\ r.usage = Bytes(rest.names) /\ r.deleted <= Batch(p)
  <2>1. /\ r.stage = "deleting" /\ r.names = {} /\ r.records = rest
        /\ r.deleted = pruner[p].deleted + 1 /\ r.usage = pruner[p].usage - Size[f]
    BY <1>1, <1>3 DEF PrunerRecords
  <2>2. r \in PrunerRecords
    <3> HIDE DEF rest
    <3>1. QED
      BY <1>1, <1>6, <1>7, <1>8 DEF PrunerRecords, rest
  <2>3. QED
    BY <1>7, <1>8, <2>1, <2>2
<1> HIDE DEF r, rest
<1>10. /\ pruner' \in [Pruners -> PrunerRecords] /\ pruner'[p] = r
       /\ \A q \in Pruners : q # p => pruner'[q] = pruner[q] /\ Listed(q)' = Listed(q)
       /\ \A q \in Pruners : pruner'[q].deleted <= Batch(q)
  BY <1>5, <1>9, MovedFacts
<1>11. Listed(p)' = Listed(p) \ {f}
  <2>1. Listed(p)' = r.names \cup r.records.names
    BY <1>5, <1>9, MovedFacts
  <2>2. r.names = {} /\ r.records.names = rest.names
    BY <1>9
  <2>3. Listed(p)' = rest.names
    BY <2>1, <2>2
  <2>4. QED
    BY <1>3, <1>6, <2>3
<1>12. /\ touched' \in [Pruners -> SUBSET Pictures]
       /\ touched'[p] = touched[p]
       /\ \A q \in Pruners : q # p =>
             touched'[q] = IF f \in touched[p] /\ f \in Listed(q)
                           THEN touched[q] \cup {f} ELSE touched[q]
  <2>1. \A q \in Pruners : q \in others <=> q # p /\ f \in touched[p]
    BY DEF OutOfTurn
  <2> HIDE DEF others
  <2>2. /\ touched' \in [Pruners -> SUBSET Pictures]
        /\ \A q \in Pruners : touched'[q] = IF q \in others /\ f \in Listed(q)
                                            THEN touched[q] \cup {f} ELSE touched[q]
    BY <1>5, TouchFacts
  <2>3. QED
    BY <2>1, <2>2
<1>13. /\ files' \in Directories /\ files'.names = files.names \ {f}
       /\ \A g, h : <<g, h>> \in files'.older <=> <<g, h>> \in files.older /\ g # f /\ h # f
  BY <1>5, RecordFacts, WithoutFacts
<1>14. StoreTypeOK'
  BY <1>5, <1>10, <1>12, <1>13 DEF dbRows, settings, StoreInv, StoreTypeOK, PrunerRecords
<1>15. Witnesses'
  BY <1>5, <1>13 DEF dbRows, settings, StoreInv, Witnesses, OrphansAreWitnessed
<1>16. Numbers'
  BY <1>5, <1>10, <1>11, <1>13 DEF StoreInv, Numbers
<1>17. ASSUME NEW q \in Pruners PROVE PrunerOK(q)'
  <2>1. touched'[q] \subseteq Monitors
    BY <1>12, RecordFacts
  <2>2. CASE q = p
    <3>1. StageOK(p)'
      <4>1. /\ pruner'[p].stage = "deleting" /\ pruner'[p].names = {}
            /\ pruner'[p].usage = Bytes(pruner'[p].records.names)
        BY <1>9, <1>10
      <4>2. Bytes(pruner'[p].records.names) = Bytes(pruner[p].records.names)'
        BY DEF Bytes
      <4>3. p = "worker" => worker'.stage = "pruning"
        BY <1>3, <1>5
      <4>4. QED
        BY <4>1, <4>2, <4>3 DEF StageOK
    <3>2. OlderAreListed(p)'
      <4>1. SUFFICES ASSUME NEW h \in (Listed(p)' \cap files'.names) \ touched'[p],
                            NEW g \in files'.names, <<g, h>> \in files'.older
                     PROVE  g \in Listed(p)' \ touched'[p] /\ <<g, h>> \in rest.older
        BY <1>9, <1>10 DEF OlderAreListed
      <4>2. /\ <<g, h>> \in files.older /\ g # f /\ h # f
            /\ h \in (Listed(p) \cap files.names) \ touched[p] /\ g \in files.names
        BY <1>11, <1>12, <1>13, <4>1
      <4>3. g \in Listed(p) \ touched[p] /\ <<g, h>> \in noted.older
        BY <1>1, <4>2 DEF StoreInv, PrunerOK, OlderAreListed
      <4>4. QED
        BY <1>6, <1>11, <1>12, <4>2, <4>3
    <3>3. YoungerRemain(p)'
      BY <1>1, <1>6, <1>9, <1>10, <1>12, <1>13 DEF StoreInv, PrunerOK, YoungerRemain
    <3>4. QED
      BY <2>1, <2>2, <3>1, <3>2, <3>3 DEF PrunerOK
  <2>3. CASE q # p
    <3>1. /\ pruner'[q] = pruner[q]
          /\ touched'[q] = IF f \in touched[p] /\ f \in Listed(q)
                           THEN touched[q] \cup {f} ELSE touched[q]
      BY <1>10, <1>12, <2>3
    <3>2. OlderAreListed(q)' /\ YoungerRemain(q)'
      BY <1>4, <1>5, <3>1, DeletionKeeps
    <3>3. /\ q = "worker" /\ worker'.stage # "pruning" => pruner[q].stage \in {"off", "reading"}
          /\ q = "worker" /\ pruner[q].stage = "reading" => worker'.stage = "starting"
      BY <1>5 DEF StoreInv, PrunerOK, StageOK
    <3>4. StageOK(q)'
      BY <3>1, <3>3, StagesKeep
    <3>5. QED
      BY <2>1, <3>2, <3>4 DEF PrunerOK
  <2>4. QED
    BY <2>2, <2>3
<1>18. QED
  BY <1>14, <1>15, <1>16, <1>17 DEF StoreInv

-----------------------------------------------------------------------------
(* The theorems. *)

LEMMA StoreInitially == StoreInit => StoreInv
<1> SUFFICES ASSUME StoreInit PROVE StoreInv
  OBVIOUS
<1>1. /\ limit \in Limits /\ minFree \in MinFrees
      /\ \A p \in Pruners : pruner[p] = Idle(limit, minFree) /\ touched[p] = {}
  BY DEF StoreInit
<1>2. /\ pruner \in [Pruners -> PrunerRecords]
      /\ \A p \in Pruners : /\ pruner[p].stage = "off" /\ Listed(p) = {}
                            /\ pruner[p].deleted <= Batch(p)
  BY <1>1, IdleFacts, EmptyFacts DEF StoreInit, Listed
<1>3. /\ files \in Directories /\ files.names = {}
      /\ worker \in WorkerRecords /\ worker.stage = "idle" /\ worker.todo = {}
      /\ worker.picture = NoMonitor
  BY EmptyFacts DEF StoreInit, NewWorker, WorkerRecords
<1>4. StoreTypeOK
  BY <1>1, <1>2, <1>3, StoreAssumption DEF StoreInit, StoreTypeOK, PrunerRecords, WorkerRecords
<1>5. Witnesses /\ Numbers
  BY <1>2, <1>3 DEF StoreInit, Witnesses, OrphansAreWitnessed, Numbers
<1>6. \A p \in Pruners : PrunerOK(p)
  BY <1>1, <1>2, <1>3 DEF PrunerOK, StageOK, OlderAreListed, YoungerRemain
<1>7. QED
  BY <1>4, <1>5, <1>6 DEF StoreInv

\* Every step of the three processes keeps the invariant.
LEMMA StoreSteps == StoreInv /\ [StoreNext]_vars => StoreInv'
<1> SUFFICES ASSUME StoreInv, [StoreNext]_vars PROVE StoreInv'
  OBVIOUS
<1>1. CASE WorkerStep
  <2>1. ASSUME NEW m \in Monitors,
               \/ WritePicture(m) \/ ChoosePicture(m)
               \/ \E others \in SUBSET Monitors : NoPicture(m, others)
        PROVE  StoreInv'
    BY <2>1, WritePictureStep, NoPictureStep, ChoosePictureStep
  <2>2. QED
    BY <1>1, <2>1, BeginCycleStep, SavePictureStep, ReadPictureStep, WriteEventStep, EndRulesStep
       DEF WorkerStep
<1>2. CASE \E p \in Pruners : PrunerStep(p) \/ UnlinkFails(p)
  BY <1>2, ReadMinFreeStep, ListStep, GatherStep, CheckStep, UnlinkStep, FinishStep
     DEF PrunerStep
<1>3. CASE StartCleanup \/ WorkerCrash \/ WorkerRestart
  BY <1>3, StartCleanupStep, WorkerCrashStep, WorkerRestartStep
<1>4. CASE \/ \E m \in Monitors : DeleteMonitor(m) \/ DeleteFile(m) \/ DeleteFileFails(m)
           \/ \E others \in SUBSET Monitors : SavePictureFails(others)
  BY <1>4, DeleteMonitorStep, DeleteFileStep, DeleteFileFailsStep, SavePictureFailsStep
<1>5. CASE \/ \E l \in Limits : UpdateMaxBytes(l)
           \/ \E n \in MinFrees : UpdateMinFree(n)
           \/ \E n \in Foreign : DiskChanges(n)
  BY <1>5, EditStep
<1>6. CASE UNCHANGED vars
  <2>1. \A p \in Pruners : PrunerOK(p)'
    BY <1>6, Undisturbed DEF vars, StoreInv, PrunerOK, StageOK
  <2>2. StoreTypeOK' /\ Witnesses' /\ Numbers'
    BY <1>6 DEF vars, dbRows, settings, StoreInv, StoreTypeOK, Witnesses, OrphansAreWitnessed,
                Numbers, Listed
  <2>3. QED
    BY <2>1, <2>2 DEF StoreInv
<1>7. QED
  BY <1>1, <1>2, <1>3, <1>4, <1>5, <1>6 DEF StoreNext

\* So it always holds.
LEMMA StoreInvariance == StoreSpec => []StoreInv
  BY StoreInitially, StoreSteps, PTL DEF StoreSpec

(* For any monitors, pictures, sizes, limits and batches: the types, the order of the
   directory and of what each pruner noted of it, and the batch no run exceeds. *)
THEOREM StoreTypeTheorem == StoreSpec => []StoreTypeOK
<1>1. StoreInv => StoreTypeOK
  BY DEF StoreInv
<1>2. QED
  BY <1>1, StoreInvariance, PTL

(* A deleted monitor leaves neither row nor file of its picture for good, whatever fails
   and crashes: but for one that the worker was about to write, or whose row could not be
   written before, or whose file could not be deleted. *)
THEOREM OrphansTheorem == StoreSpec => []OrphansAreWitnessed
<1>1. StoreInv => OrphansAreWitnessed
  BY DEF StoreInv, Witnesses
<1>2. QED
  BY <1>1, StoreInvariance, PTL

\* When nothing was changed out of turn, all that is left of the records is there, the
\* file whose turn it is and what is younger, and has the bytes the pruner counts.
LEMMA RecordsAreFromOn ==
    ASSUME StoreInv, NEW p \in Pruners, pruner[p].stage \in {"deleting", "unlinking"},
           pruner[p].records.names # {}, touched[p] = {},
           Oldest(pruner[p].records) \in files.names
    PROVE  pruner[p].usage <= Bytes(FromOn(Oldest(pruner[p].records)))
<1> DEFINE noted == pruner[p].records
           f == Oldest(noted)
<1>1. noted \in Directories /\ files \in Directories
  BY RecordFacts
<1>2. f \in noted.names /\ \A g \in noted.names : <<g, f>> \notin noted.older
  BY <1>1, OldestFacts
<1> HIDE DEF f
<1>3. noted.names \subseteq FromOn(f)
  <2>1. SUFFICES ASSUME NEW g \in noted.names, g # f PROVE g \in FromOn(f)
    BY <1>2 DEF FromOn, f
  <2>2. <<f, g>> \in noted.older
    BY <1>1, <1>2, <2>1, DirectoryFacts
  <2>3. g \in files.names /\ f \in files.names
    BY <1>2, <2>2 DEF f, StoreInv, PrunerOK, YoungerRemain
  <2>4. <<f, g>> \in files.older
    BY <1>2, <2>2, <2>3, OrderKept
  <2>5. QED
    BY <2>3, <2>4 DEF FromOn
<1>4. FromOn(f) \in SUBSET Pictures
  BY <1>1, DirectoryFacts DEF FromOn
<1>5. pruner[p].usage = Bytes(noted.names)
  BY DEF StoreInv, PrunerOK, StageOK
<1>6. Bytes(noted.names) <= Bytes(FromOn(f))
  BY <1>3, <1>4, BytesFacts
<1>7. QED
  BY <1>5, <1>6 DEF f

\* Every deletion has its reason.
LEMMA StepsJustified ==
    StoreInv /\ [StoreNext]_vars =>
        [\A p \in Pruners : Unlink(p) =>
            LET f == Oldest(pruner[p].records)
            IN  \/ f \notin files.names
                \/ touched[p] \cap Monitors # {}
                \/ Bytes(FromOn(f)) > limit
                \/ pruner[p].short /\ pruner[p].minFree = minFree
                \/ Outdated(p) /\ (Bytes(FromOn(f)) > pruner[p].limit \/ pruner[p].short)]_vars
<1> SUFFICES ASSUME StoreInv, NEW p \in Pruners, Unlink(p),
                    Oldest(pruner[p].records) \in files.names, touched[p] \cap Monitors = {},
                    ~pruner[p].short
             PROVE  Bytes(FromOn(Oldest(pruner[p].records))) > pruner[p].limit
  BY DEF Outdated
<1> DEFINE f == Oldest(pruner[p].records)
<1>1. touched[p] = {}
  BY RecordFacts
<1>2. /\ pruner[p].stage = "unlinking" /\ pruner[p].records.names # {}
      /\ pruner[p].usage > pruner[p].limit
  BY DEF Unlink, StoreInv, PrunerOK, StageOK, More, Asked
<1>3. pruner[p].usage <= Bytes(FromOn(f))
  BY <1>1, <1>2, RecordsAreFromOn
<1>4. FromOn(f) \in SUBSET Pictures /\ files \in Directories
  BY RecordFacts, DirectoryFacts DEF FromOn
<1>5. Bytes(FromOn(f)) \in Nat
  BY <1>4, BytesFacts
<1>6. pruner[p].usage \in Nat /\ pruner[p].limit \in Nat
  BY RecordFacts, StoreAssumption DEF PrunerRecords
<1> HIDE DEF f
<1>7. Bytes(FromOn(f)) > pruner[p].limit
  BY <1>2, <1>3, <1>5, <1>6
<1>8. QED
  BY <1>7 DEF f

(* Two pruners, each with its own stale list, its own sum and settings of its own, and all
   that others do to the directory meanwhile: no picture goes that neither the configured
   limit nor the configured space asked for, but for those that a setting changed since it
   was read, or a picture rewritten or deleted out of turn, explains. *)
THEOREM PruningTheorem == StoreSpec => PruningIsJustified
<1>1. StoreSpec => [][StoreNext]_vars
  BY PTL DEF StoreSpec
<1>2. QED
  BY <1>1, StoreInvariance, StepsJustified, PTL DEF PruningIsJustified

-----------------------------------------------------------------------------
(***************************************************************************)
(* The logs.                                                               *)
(***************************************************************************)

\* The logs are numbers, and each has its bytes.
LogTypes ==
    /\ \E n \in Nat : size \in [1 .. n -> Nat]
    /\ logs \subseteq DOMAIN size /\ stuck \subseteq DOMAIN size /\ listed \subseteq DOMAIN size
    /\ expired \in Nat /\ maximum \in Nat

\* The total is that of the kept logs still there, the loop deletes them from the oldest
\* on, and leaves behind only what it could not delete.
CutInProgress ==
    /\ total = LogBytes(Kept \cap logs)
    /\ todo \subseteq ButNewest(Kept) \cap logs
    /\ \A log \in (Kept \cap logs) \ todo : log \in stuck \/ log = Max(Kept)
    /\ \A gone \in Kept \ logs, log \in todo : gone < log

LogInv ==
    /\ LogTypes
    /\ CutInProgress
    /\ ExpiredLogsGo /\ FreshLogsGoForSpace /\ NewestStays

\* The bytes of some logs, and which of them is the oldest and which the newest.
LEMMA LogFacts ==
    ASSUME LogTypes, NEW some \in SUBSET (DOMAIN size)
    PROVE  /\ LogBytes(some) \in Nat
           /\ \A part \in SUBSET some : LogBytes(part) <= LogBytes(some)
           /\ \A log \in some : LogBytes(some) = size[log] + LogBytes(some \ {log})
           /\ some # {} => /\ Min(some) \in some /\ \A log \in some : Min(some) <= log
                           /\ Max(some) \in some /\ \A log \in some : log <= Max(some)
           /\ \A log \in some : log \in Nat /\ size[log] \in Nat
<1>1. PICK n \in Nat : size \in [1 .. n -> Nat]
  BY DEF LogTypes
<1>2. IsFiniteSet(some) /\ some \in SUBSET (0 .. n) /\ \A log \in some : size[log] \in Nat
  <2>1. IsFiniteSet(1 .. n)
    BY FS_Interval
  <2>2. some \subseteq 1 .. n
    BY <1>1
  <2>3. IsFiniteSet(some)
    BY <2>1, <2>2, FS_Subset
  <2>4. QED
    BY <1>1, <2>2, <2>3
<1>3. some # {} => /\ Min(some) \in some /\ \A log \in some : Min(some) <= log
                   /\ Max(some) \in some /\ \A log \in some : log <= Max(some)
  BY <1>2, MinFacts, MaxFacts
<1>4. LogBytes(some) \in Nat
  <2>1. SumFunctionOnSet(size, some) \in Nat
    BY <1>2, SumFacts
  <2>2. QED
    BY <2>1 DEF LogBytes
<1>5. \A log \in some : LogBytes(some) = size[log] + LogBytes(some \ {log})
  <2>1. \A log \in some :
           SumFunctionOnSet(size, some) = size[log] + SumFunctionOnSet(size, some \ {log})
    BY <1>2, SumFacts
  <2>2. QED
    BY <2>1 DEF LogBytes
<1>6. \A part \in SUBSET some : LogBytes(part) <= LogBytes(some)
  BY <1>2, SumMonotone DEF LogBytes
<1>7. QED
  BY <1>2, <1>3, <1>4, <1>5, <1>6

\* What has been listed, kept or is left to do is among the logs there have been.
LEMMA KeptFacts ==
    ASSUME LogInv
    PROVE  /\ Kept \in SUBSET (DOMAIN size) /\ Kept \cap logs \in SUBSET (DOMAIN size)
           /\ todo \in SUBSET (DOMAIN size)
           /\ total = LogBytes(Kept \cap logs) /\ total \in Nat
BY LogFacts DEF LogInv, LogTypes, CutInProgress, Kept, ButNewest

\* The first state: nothing has been listed.
LEMMA LogsInitially == LogInit => LogInv
<1> SUFFICES ASSUME LogInit PROVE LogInv
  OBVIOUS
<1>1. PICK n \in 0 .. MaxLogs : /\ logs = 1 .. n
                                /\ size \in [1 .. n -> LogSizes]
                                /\ stuck \in SUBSET (1 .. n)
  BY DEF LogInit
<1>2. LogTypes
  <2>1. n \in Nat /\ LogSizes \subseteq Nat
    BY LogAssumption
  <2>2. size \in [1 .. n -> Nat]
    BY <1>1, <2>1
  <2>3. QED
    BY <1>1, <2>1, <2>2 DEF LogInit, LogTypes
<1>3. Kept = {}
  BY DEF LogInit, Kept
<1>4. LogBytes({}) = 0
  BY SumFacts, FS_EmptySet DEF LogBytes
<1>5. CutInProgress
  BY <1>3, <1>4 DEF LogInit, CutInProgress
<1>6. QED
  BY <1>2, <1>3, <1>5 DEF LogInit, LogInv, ExpiredLogsGo, FreshLogsGoForSpace, NewestStays

\* A run begins: no kept log has gone yet, and all but the newest are left to do.
LEMMA CleanupStep ==
    ASSUME LogInv, NEW cutoff \in logs \cup {0}, NEW max \in LogLimits,
           NEW found \in SUBSET logs, CleanupLogs(cutoff, max, found)
    PROVE  LogInv'
<1>1. LogTypes'
  <2>1. \A log \in logs : log \in Nat
    BY LogFacts DEF LogInv, LogTypes
  <2>2. cutoff \in Nat /\ max \in Nat
    BY <2>1, LogAssumption
  <2>3. QED
    BY <2>2 DEF LogInv, LogTypes, CleanupLogs
<1>2. Kept' \subseteq logs' /\ Kept' \cap logs' = Kept'
  <2>1. \A log \in found : log \in Nat
    BY LogFacts DEF LogInv, LogTypes
  <2>2. cutoff \in Nat
    BY LogFacts DEF LogInv, LogTypes
  <2>3. /\ logs' = logs \ {log \in found \ stuck : log <= cutoff}
        /\ listed' = found /\ expired' = cutoff
    BY DEF CleanupLogs
  <2>4. Kept' = {log \in found : log > cutoff}
    BY <2>3 DEF Kept
  <2>5. \A log \in found : log > cutoff => log \in logs'
    BY <2>1, <2>2, <2>3
  <2>6. QED
    BY <2>4, <2>5
<1>3. CutInProgress'
  BY <1>2 DEF CleanupLogs, CutToSize, CutInProgress, ButNewest, LogBytes
<1>4. ExpiredLogsGo'
  BY LogFacts DEF LogInv, LogTypes, CleanupLogs, ExpiredLogsGo
<1>5. FreshLogsGoForSpace'
  BY <1>2 DEF FreshLogsGoForSpace
<1>6. NewestStays'
  <2>1. Kept' \in SUBSET (DOMAIN size)
    BY <1>1, <1>2 DEF LogTypes, CleanupLogs
  <2>2. Kept' # {} => Max(Kept') \in Kept'
    BY <2>1, LogFacts DEF LogInv
  <2>3. QED
    BY <1>2, <2>2 DEF NewestStays
<1>7. QED
  BY <1>1, <1>3, <1>4, <1>5, <1>6 DEF LogInv

\* A turn of the loop is about the oldest of the kept logs it has not come to.
LEMMA TurnFacts ==
    ASSUME LogInv, ~Over
    PROVE  /\ Min(todo) \in todo /\ Min(todo) \in Kept /\ Min(todo) \in logs
           /\ Min(todo) # Max(Kept)
           /\ \A log \in todo \ {Min(todo)} : Min(todo) < log
           /\ total > maximum
<1>1. todo # {} /\ ~(total <= maximum)
  BY DEF Over
<1>2. /\ Min(todo) \in todo
      /\ \A log \in todo : Min(todo) <= log /\ Min(todo) \in Nat /\ log \in Nat
  BY <1>1, KeptFacts, LogFacts DEF LogInv
<1>3. total \in Nat /\ maximum \in Nat
  BY KeptFacts DEF LogInv, LogTypes
<1>4. QED
  BY <1>1, <1>2, <1>3 DEF LogInv, CutInProgress, ButNewest

\* A log is deleted: with the newer ones and those that stayed it was the total.
LEMMA DeleteLogStep == ASSUME LogInv, DeleteLog PROVE LogInv'
<1> DEFINE log == Min(todo)
<1>1. /\ ~Over /\ log \notin stuck
      /\ logs' = logs \ {log} /\ todo' = todo \ {log} /\ total' = total - size[log]
      /\ UNCHANGED lists
  BY DEF DeleteLog
<1>2. /\ log \in todo /\ log \in Kept /\ log \in logs /\ log # Max(Kept)
      /\ \A other \in todo \ {log} : log < other
      /\ total > maximum
  BY <1>1, TurnFacts
<1>3. Kept' = Kept /\ size' = size /\ maximum' = maximum
  BY <1>1 DEF Kept, lists
<1>4. \A some : LogBytes(some)' = LogBytes(some)
  BY <1>3 DEF LogBytes
<1> HIDE DEF log
<1>5. LogTypes'
  BY <1>1 DEF LogInv, LogTypes, lists
<1>6. CutInProgress'
  <2>1. total' = LogBytes(Kept \cap logs')
    <3>1. Kept \cap logs \in SUBSET (DOMAIN size) /\ log \in Kept \cap logs
      BY <1>2, KeptFacts
    <3>2. LogBytes(Kept \cap logs) = size[log] + LogBytes((Kept \cap logs) \ {log})
      BY <3>1, LogFacts DEF LogInv
    <3>3. /\ LogBytes((Kept \cap logs) \ {log}) \in Nat
          /\ size[log] \in Nat
      BY <3>1, LogFacts DEF LogInv
    <3>4. Kept \cap logs' = (Kept \cap logs) \ {log}
      BY <1>1
    <3>5. total = LogBytes(Kept \cap logs)
      BY KeptFacts
    <3>6. total' = LogBytes((Kept \cap logs) \ {log})
      BY <1>1, <3>2, <3>3, <3>5
    <3>7. QED
      BY <3>4, <3>6
  <2>2. todo' \subseteq ButNewest(Kept) \cap logs'
    BY <1>1 DEF LogInv, CutInProgress
  <2>3. \A other \in (Kept \cap logs') \ todo' : other \in stuck \/ other = Max(Kept)
    BY <1>1 DEF LogInv, CutInProgress
  <2>4. \A gone \in Kept \ logs', other \in todo' : gone < other
    BY <1>1, <1>2 DEF LogInv, CutInProgress
  <2>5. stuck' = stuck
    BY <1>1 DEF lists
  <2>6. QED
    BY <1>3, <1>4, <2>1, <2>2, <2>3, <2>4, <2>5 DEF CutInProgress, ButNewest, LogBytes
<1>7. ExpiredLogsGo'
  <2>1. log > expired /\ log \in Nat /\ expired \in Nat
    BY <1>2, KeptFacts, LogFacts DEF LogInv, LogTypes, Kept
  <2>2. \A other \in listed : other <= expired => other # log
    BY <2>1
  <2>3. QED
    BY <1>1, <2>2 DEF LogInv, ExpiredLogsGo, lists
<1>8. FreshLogsGoForSpace'
  <2>1. SUFFICES ASSUME NEW gone \in Kept \ logs'
                 PROVE  LogBytes({other \in Kept : other >= gone \/ other \in logs'}) > maximum
    BY <1>3 DEF FreshLogsGoForSpace, LogBytes
  <2> DEFINE seen == {other \in Kept : other >= gone \/ other \in logs'}
  <2>2. seen \in SUBSET (DOMAIN size)
    BY KeptFacts
  <2>3. CASE gone = log
    <3>1. Kept \cap logs \subseteq seen
      <4>1. log >= log
        BY <1>2, KeptFacts, LogFacts DEF LogInv
      <4>2. QED
        BY <1>1, <2>3, <4>1
    <3> HIDE DEF seen
    <3>2. LogBytes(Kept \cap logs) <= LogBytes(seen) /\ LogBytes(seen) \in Nat
      BY <2>2, <3>1, LogFacts DEF LogInv
    <3>3. LogBytes(Kept \cap logs) > maximum /\ LogBytes(Kept \cap logs) \in Nat
      BY <1>2, KeptFacts
    <3>4. maximum \in Nat
      BY DEF LogInv, LogTypes
    <3>5. QED
      BY <3>2, <3>3, <3>4 DEF seen
  <2>4. CASE gone # log
    <3>1. gone \in Kept \ logs
      BY <1>1, <2>4
    <3>2. log >= gone
      <4>1. gone < log
        BY <1>2, <3>1 DEF LogInv, CutInProgress
      <4>2. gone \in Nat /\ log \in Nat
        BY <1>2, KeptFacts, LogFacts DEF LogInv
      <4>3. QED
        BY <4>1, <4>2
    <3>3. seen = {other \in Kept : other >= gone \/ other \in logs}
      BY <1>1, <3>2
    <3>4. QED
      BY <3>1, <3>3 DEF LogInv, FreshLogsGoForSpace
  <2>5. QED
    BY <2>3, <2>4
<1>9. NewestStays'
  BY <1>1, <1>2, <1>3 DEF LogInv, NewestStays
<1>10. QED
  BY <1>5, <1>6, <1>7, <1>8, <1>9 DEF LogInv

\* A log that cannot be deleted is left behind.
LEMMA LeaveLogStep == ASSUME LogInv, LeaveLog PROVE LogInv'
<1>1. /\ ~Over /\ Min(todo) \in stuck /\ todo' = todo \ {Min(todo)}
      /\ logs' = logs /\ total' = total /\ size' = size /\ stuck' = stuck
      /\ listed' = listed /\ expired' = expired /\ maximum' = maximum
  BY DEF LeaveLog, lists
<1>2. Min(todo) \in todo
  BY <1>1, TurnFacts
<1>3. CutInProgress'
  BY <1>1, <1>2 DEF LogInv, CutInProgress, Kept, ButNewest, LogBytes
<1>4. QED
  BY <1>1, <1>3
     DEF LogInv, LogTypes, ExpiredLogsGo, FreshLogsGoForSpace, NewestStays, Kept, LogBytes

\* Every step of the clean-up of logs keeps the invariant.
LEMMA LogSteps == LogInv /\ [LogNext]_cleanup => LogInv'
<1> SUFFICES ASSUME LogInv, [LogNext]_cleanup PROVE LogInv'
  OBVIOUS
<1>1. ASSUME NEW cutoff \in logs \cup {0}, NEW max \in LogLimits, NEW found \in SUBSET logs,
             CleanupLogs(cutoff, max, found)
      PROVE  LogInv'
  BY <1>1, CleanupStep
<1>2. CASE DeleteLog
  BY <1>2, DeleteLogStep
<1>3. CASE LeaveLog
  BY <1>3, LeaveLogStep
<1>4. CASE UNCHANGED cleanup
  BY <1>4
     DEF cleanup, lists, LogInv, LogTypes, CutInProgress, ExpiredLogsGo, FreshLogsGoForSpace,
         NewestStays, Kept, ButNewest, LogBytes
<1>5. QED
  BY <1>1, <1>2, <1>3, <1>4 DEF LogNext

\* When a run is over, either the total fits or the loop has come to every log.
LEMMA LogsCut == LogInv => LogsAreCutToSize
<1> SUFFICES ASSUME LogInv PROVE LogsAreCutToSize
  OBVIOUS
<1>1. WhatStaysFits
  <2>1. SUFFICES ASSUME Over, ~(LogBytes(Kept \cap logs) <= maximum)
                 PROVE  \A log \in (Kept \cap logs) \ stuck : log = Max(Kept)
    BY DEF WhatStaysFits
  <2>2. todo = {}
    BY <2>1 DEF Over, LogInv, CutInProgress
  <2>3. QED
    BY <2>2 DEF LogInv, CutInProgress
<1>2. QED
  BY <1>1 DEF LogInv, LogsAreCutToSize

(* For any number of logs of any sizes, whichever of them cannot be read or deleted, and for any
   cutoffs and limits, run after run, a clean-up takes what it must and no more. *)
THEOREM LogsTheorem == LogSpec => []LogsAreCutToSize
<1>1. LogSpec => []LogInv
  BY LogsInitially, LogSteps, PTL DEF LogSpec
<1>2. QED
  BY <1>1, LogsCut, PTL
=============================================================================
