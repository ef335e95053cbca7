-------------------------- MODULE InstrumentedProofs --------------------------
(***************************************************************************)
(* Proofs about the management objects of modules Management and           *)
(* Instrumented, for any number of threads, messages, transactions and     *)
(* reports and any width of a word: no update is left unreported, and the  *)
(* counters follow from the journal and the transactions.                  *)
(*                                                                         *)
(* A counter is the sum of the threads' slots, a fold over a set.  Its     *)
(* value is reached by induction over the subsets of a finite set, which   *)
(* is stated here for a set of subsets: the theorems of the library take   *)
(* an operator.  What a thread is about to count is summed up the same     *)
(* way, over its list of calls; with it the totals change only where the   *)
(* journal does.                                                           *)
(***************************************************************************)
EXTENDS Instrumented, SequenceTheorems, FiniteSetTheorems, WellFoundedInduction, TLAPS

-----------------------------------------------------------------------------
(* Sums over a finite set.                                                 *)

\* The sum of f's values on S.
Sum(f, S) == MapThenSumSet(LAMBDA x : f[x], S)

\* The function it is defined by.
Picked(T) == CHOOSE x \in T : TRUE
Step(f, T, g) == IF T = {} THEN 0 ELSE f[Picked(T)] + g[T \ {Picked(T)}]
Iter(f, S, g) == g = [T \in SUBSET S |-> Step(f, T, g)]

\* Induction over the subsets of a finite set: the theorems of the library take an
\* operator.
LEMMA SubsetInduction ==
    ASSUME NEW S, IsFiniteSet(S), NEW P,
           \A T \in SUBSET S : (\A x \in T : T \ {x} \in P) => T \in P
    PROVE  \A T \in SUBSET S : T \in P
<1> SUFFICES ASSUME NEW U \in SUBSET S, U \notin P PROVE FALSE
  OBVIOUS
<1> DEFINE Less == OpToRel(<, Nat)
           Ns == {n \in Nat : \E T \in SUBSET S : T \notin P /\ Cardinality(T) = n}
<1>1. \A a, b \in Nat : <<a, b>> \in Less <=> a < b BY DEF OpToRel
<1>2. IsWellFoundedOn(Less, Nat) BY NatLessThanWellFounded
<1>3. \A T \in SUBSET S : IsFiniteSet(T) /\ Cardinality(T) \in Nat
  BY FS_Subset, FS_CardinalityType
<1>4. Ns \in SUBSET Nat /\ Cardinality(U) \in Ns BY <1>3
<1> HIDE DEF Less
<1>5. PICK k \in Ns : \A b \in Ns : ~(<<b, k>> \in Less)
  <2> HIDE DEF Ns
  <2> QED BY <1>2, <1>4, WFMin
<1>6. PICK T \in SUBSET S : T \notin P /\ Cardinality(T) = k BY <1>5
<1>7. PICK x \in T : T \ {x} \notin P BY <1>6
<1>8. T \ {x} \in SUBSET S /\ Cardinality(T \ {x}) = k - 1 /\ Cardinality(T \ {x}) \in Nat
  BY <1>3, <1>6, <1>7, FS_RemoveElement
<1>9. k - 1 \in Ns BY <1>7, <1>8
<1>10. k - 1 \in Nat /\ k \in Nat /\ k - 1 < k BY <1>5, <1>8
<1> QED BY <1>1, <1>5, <1>9, <1>10

\* The sum of a finite set is defined ...
LEMMA IterExists ==
    ASSUME NEW S, IsFiniteSet(S), NEW f
    PROVE  \E g : Iter(f, S, g)
<1> DEFINE Upto(T) == {U \in SUBSET S : Cardinality(U) <= Cardinality(T)}
           Part(T, g) == g = [U \in Upto(T) |-> Step(f, U, g)]
           P == {T \in SUBSET S : \E g : Part(T, g)}
<1>0. \A T \in SUBSET S : IsFiniteSet(T) /\ Cardinality(T) \in Nat
  BY FS_Subset, FS_CardinalityType
<1>1. ASSUME NEW T \in SUBSET S, \A x \in T : T \ {x} \in P PROVE T \in P
  <2>1. CASE T = {}
    <3> DEFINE g == [U \in {{}} |-> 0]
    <3>1. Upto(T) = {{}} BY <1>0, <2>1, FS_EmptySet
    <3>2. g = [U \in {{}} |-> Step(f, U, g)] BY DEF Step
    <3> QED BY <3>1, <3>2
  <2>2. CASE T # {}
    <3>1. PICK y \in T : TRUE BY <2>2
    <3>2. PICK g : Part(T \ {y}, g) BY <1>1, <3>1
    <3>3. Cardinality(T \ {y}) = Cardinality(T) - 1 BY <1>0, FS_RemoveElement
    <3>4. ASSUME NEW U \in Upto(T), U # {} PROVE Picked(U) \in U /\ U \ {Picked(U)} \in Upto(T \ {y})
      <4>1. Picked(U) \in U BY <3>4 DEF Picked
      <4>2. Cardinality(U \ {Picked(U)}) = Cardinality(U) - 1 BY <1>0, <4>1, FS_RemoveElement
      <4>3. Cardinality(U) \in Nat /\ Cardinality(T) \in Nat BY <1>0
      <4> QED BY <4>1, <4>2, <4>3, <3>3
    <3> DEFINE h == [U \in Upto(T) |-> Step(f, U, g)]
    <3>5. \A U \in Upto(T \ {y}) : U \in Upto(T) /\ h[U] = g[U]
      <4> TAKE U \in Upto(T \ {y})
      <4>1. U \in Upto(T) BY <1>0, <3>3
      <4>2. g[U] = Step(f, U, g) BY <3>2
      <4> QED BY <4>1, <4>2
    <3>6. \A U \in Upto(T) : Step(f, U, g) = Step(f, U, h)
      <4> TAKE U \in Upto(T)
      <4> HIDE DEF Upto, h
      <4> QED BY <3>4, <3>5 DEF Step
    <3>7. Part(T, h) BY <3>6
    <3> QED BY <3>7
  <2> QED BY <2>1, <2>2
<1>2. \A T \in SUBSET S : T \in P
  <2> HIDE DEF P
  <2> QED BY <1>1, SubsetInduction
<1>3. PICK g : Part(S, g) BY <1>2
<1>4. Upto(S) = SUBSET S
  <2> SUFFICES ASSUME NEW U \in SUBSET S PROVE Cardinality(U) <= Cardinality(S)
    OBVIOUS
  <2> QED BY FS_Subset
<1>5. Iter(f, S, g) BY <1>3, <1>4 DEF Iter
<1> QED BY <1>5

\* ... and is the value of any function that satisfies the definition.
LEMMA IterAgree ==
    ASSUME NEW S, IsFiniteSet(S), NEW R \in SUBSET S, NEW f, NEW g, NEW h, NEW e,
           Iter(f, S, g), Iter(h, R, e), \A x \in R : f[x] = h[x]
    PROVE  \A T \in SUBSET R : g[T] = e[T]
<1> DEFINE P == {T \in SUBSET R : g[T] = e[T]}
<1>1. IsFiniteSet(R) BY FS_Subset
<1>2. ASSUME NEW T \in SUBSET R, \A x \in T : T \ {x} \in P PROVE T \in P
  <2>1. g[T] = Step(f, T, g) /\ e[T] = Step(h, T, e) BY DEF Iter
  <2>2. T # {} => Picked(T) \in T BY DEF Picked
  <2> QED BY <1>2, <2>1, <2>2 DEF Step
<1>3. \A T \in SUBSET R : T \in P
  <2> HIDE DEF P
  <2> QED BY <1>1, <1>2, SubsetInduction
<1> QED BY <1>3

\* ... and is what the fold computes, on every subset.
LEMMA SumIter ==
    ASSUME NEW S, IsFiniteSet(S), NEW f
    PROVE  \E g : Iter(f, S, g) /\ \A T \in SUBSET S : Sum(f, T) = g[T]
<1>1. PICK g : Iter(f, S, g) BY IterExists
<1>2. ASSUME NEW T \in SUBSET S PROVE Sum(f, T) = g[T]
  <2>0. IsFiniteSet(T) BY FS_Subset
  <2> DEFINE e == CHOOSE e : Iter(f, T, e)
  <2>1. Iter(f, T, e) BY <2>0, IterExists
  <2>2. Sum(f, T) = e[T] BY DEF Sum, MapThenSumSet, MapThenFoldSet, Iter, Step, Picked
  <2> HIDE DEF e
  <2>3. \A U \in SUBSET T : g[U] = e[U] BY <1>1, <2>1, IterAgree
  <2> QED BY <2>2, <2>3
<1> QED BY <1>1, <1>2

\* Nothing sums to 0.
LEMMA SumEmpty == ASSUME NEW f PROVE Sum(f, {}) = 0
<1>1. IsFiniteSet({}) BY FS_EmptySet
<1>2. PICK g : Iter(f, {}, g) /\ \A T \in SUBSET {} : Sum(f, T) = g[T] BY <1>1, SumIter
<1>3. g[{}] = Step(f, {}, g) BY <1>2 DEF Iter
<1> QED BY <1>2, <1>3 DEF Step

\* A sum is over the values, in whichever order.
LEMMA SumSame ==
    ASSUME NEW S, IsFiniteSet(S), NEW f, NEW h, \A x \in S : f[x] = h[x]
    PROVE  Sum(f, S) = Sum(h, S)
<1>1. PICK g : Iter(f, S, g) /\ \A T \in SUBSET S : Sum(f, T) = g[T] BY SumIter
<1>2. PICK e : Iter(h, S, e) /\ \A T \in SUBSET S : Sum(h, T) = e[T] BY SumIter
<1>3. S \in SUBSET S OBVIOUS
<1>4. \A T \in SUBSET S : g[T] = e[T] BY <1>1, <1>2, <1>3, IterAgree
<1> QED BY <1>1, <1>2, <1>4

\* A sum of integers is one, and any element may be added last.
LEMMA SumRemove ==
    ASSUME NEW S, IsFiniteSet(S), NEW f, \A x \in S : f[x] \in Int
    PROVE  \A T \in SUBSET S : Sum(f, T) \in Int /\ \A t \in T : Sum(f, T) = f[t] + Sum(f, T \ {t})
<1>1. PICK g : Iter(f, S, g) /\ \A T \in SUBSET S : Sum(f, T) = g[T] BY SumIter
<1>2. \A T \in SUBSET S : g[T] = Step(f, T, g) BY <1>1 DEF Iter
<1> DEFINE Q == {T \in SUBSET S : g[T] \in Int}
           P == {T \in SUBSET S : \A t \in T : g[T] = f[t] + g[T \ {t}]}
<1>3. ASSUME NEW T \in SUBSET S, \A x \in T : T \ {x} \in Q PROVE T \in Q
  <2>1. g[T] = Step(f, T, g) BY <1>2
  <2>2. CASE T = {} BY <2>1, <2>2 DEF Step
  <2>3. CASE T # {}
    <3> DEFINE x == Picked(T)
    <3>1. x \in T BY <2>3 DEF Picked
    <3>2. g[T] = f[x] + g[T \ {x}] BY <2>1, <2>3 DEF Step
    <3> HIDE DEF x
    <3>3. f[x] \in Int /\ g[T \ {x}] \in Int BY <1>3, <3>1
    <3> QED BY <3>2, <3>3
  <2> QED BY <2>2, <2>3
<1>4. \A T \in SUBSET S : T \in Q
  <2> HIDE DEF Q
  <2> QED BY <1>3, SubsetInduction
<1>5. ASSUME NEW T \in SUBSET S, \A x \in T : T \ {x} \in P PROVE T \in P
  <2> SUFFICES ASSUME NEW t \in T PROVE g[T] = f[t] + g[T \ {t}]
    OBVIOUS
  <2> DEFINE x == Picked(T)
  <2>1. x \in T BY DEF Picked
  <2>2. g[T] = f[x] + g[T \ {x}] BY <1>2 DEF Step
  <2> HIDE DEF x
  <2>3. CASE t = x BY <2>2, <2>3
  <2>4. CASE t # x
    <3> DEFINE U == (T \ {t}) \ {x}
               R == T \ {x}
               V == T \ {t}
    <3>1. (T \ {x}) \ {t} = U OBVIOUS
    <3>2. g[R] = f[t] + g[U] BY <1>5, <2>1, <2>4, <3>1
    <3>3. g[V] = f[x] + g[U] BY <1>5, <2>1, <2>4
    <3>4. f[x] \in Int /\ f[t] \in Int BY <2>1
    <3>5. g[U] \in Int BY <1>4
    <3>6. g[T] = f[x] + g[R] BY <2>2
    <3> HIDE DEF P, Q, R, U, V
    <3>7. g[T] = f[t] + g[V] BY <3>2, <3>3, <3>4, <3>5, <3>6
    <3> QED BY <3>7 DEF V
  <2> QED BY <2>3, <2>4
<1>6. \A T \in SUBSET S : T \in P
  <2> HIDE DEF P
  <2> QED BY <1>5, SubsetInduction
<1> QED BY <1>1, <1>4, <1>6

\* Zeros sum to 0.
LEMMA SumZero ==
    ASSUME NEW S, IsFiniteSet(S), NEW f, \A x \in S : f[x] = 0
    PROVE  Sum(f, S) = 0
<1> DEFINE P == {T \in SUBSET S : Sum(f, T) = 0}
<1>1. ASSUME NEW T \in SUBSET S, \A x \in T : T \ {x} \in P PROVE T \in P
  <2>1. CASE T = {} BY <2>1, SumEmpty
  <2>2. CASE T # {}
    <3>1. PICK x \in T : TRUE BY <2>2
    <3>2. Sum(f, T) = f[x] + Sum(f, T \ {x})
      <4>1. \A y \in S : f[y] \in Int OBVIOUS
      <4> QED BY <4>1, <3>1, SumRemove
    <3>3. Sum(f, T \ {x}) = 0 /\ f[x] = 0 BY <1>1, <3>1
    <3> QED BY <3>2, <3>3
  <2> QED BY <2>1, <2>2
<1>2. \A T \in SUBSET S : T \in P
  <2> HIDE DEF P
  <2> QED BY <1>1, SubsetInduction
<1>3. S \in SUBSET S OBVIOUS
<1> QED BY <1>2, <1>3

\* A sum changes by as much as the one value that changes.
LEMMA SumStep ==
    ASSUME NEW S, IsFiniteSet(S), NEW f, NEW h, NEW t \in S,
           \A x \in S : f[x] \in Int /\ h[x] \in Int,
           \A x \in S \ {t} : h[x] = f[x]
    PROVE  Sum(f, S) \in Int /\ Sum(h, S) = Sum(f, S) + (h[t] - f[t])
<1> DEFINE R == S \ {t}
<1>1. Sum(f, S) = f[t] + Sum(f, R) /\ Sum(f, R) \in Int /\ Sum(f, S) \in Int BY SumRemove
<1>2. Sum(h, S) = h[t] + Sum(h, R) BY SumRemove
<1>3. Sum(h, R) = Sum(f, R)
  <2>1. IsFiniteSet(R) BY FS_Subset
  <2> QED BY <2>1, SumSame
<1>4. f[t] \in Int /\ h[t] \in Int OBVIOUS
<1> HIDE DEF R
<1> QED BY <1>1, <1>2, <1>3, <1>4

-----------------------------------------------------------------------------
(* Words.                                                                  *)

\* What a word keeps of a number.
LEMMA WrapRange == \A a \in Int : Wrap(a) \in 0 .. Words - 1 /\ Wrap(Wrap(a)) = Wrap(a)
<1> TAKE a \in Int
<1>1. Words \in Nat \ {0} BY ManagementAssumption
<1>2. \A w \in Nat \ {0} : a % w \in 0 .. w - 1 OBVIOUS
<1>3. \A w \in Nat \ {0} : \A b \in 0 .. w - 1 : b % w = b OBVIOUS
<1> QED BY <1>1, <1>2, <1>3 DEF Wrap

\* A whole number of turns leaves a remainder.
LEMMA WrapTurns == \A w \in Nat \ {0} : \A k, r \in Int : (k * w + r) % w = r % w
<1> TAKE w \in Nat \ {0}
<1> TAKE k, r \in Int
<1> DEFINE x == k * w + r
           n == (x \div w) - k - (r \div w)
<1>1. x \in Int /\ x = w * (x \div w) + (x % w) /\ x % w \in 0 .. w - 1 /\ x \div w \in Int
  OBVIOUS
<1>2. r = w * (r \div w) + (r % w) /\ r % w \in 0 .. w - 1 /\ r \div w \in Int
  OBVIOUS
<1>3. n \in Int BY <1>1, <1>2
<1>4. w * n = (r % w) - (x % w) BY <1>1, <1>2
<1>5. -w < w * n /\ w * n < w BY <1>1, <1>2, <1>4
<1> HIDE DEF n
<1>6. n = 0
  <2>1. CASE n >= 1
    <3>1. w * n >= w BY <1>3, <2>1
    <3> QED BY <3>1, <1>5, <1>3
  <2>2. CASE n <= -1
    <3>1. w * n <= -w BY <1>3, <2>2
    <3> QED BY <3>1, <1>5, <1>3
  <2> QED BY <2>1, <2>2, <1>3
<1>7. w * n = 0 BY <1>6
<1> QED BY <1>1, <1>2, <1>4, <1>7

\* Numbers of the same word stay so when the same is added to both.
LEMMA WrapAdd == \A a, b \in Int : Wrap(Wrap(a) + b) = Wrap(a + b)
<1> TAKE a, b \in Int
<1>1. Words \in Nat \ {0} BY ManagementAssumption
<1>2. \A w \in Nat \ {0} : ((a % w) + b) % w = (a + b) % w
  <2> TAKE w \in Nat \ {0}
  <2>1. a = (a \div w) * w + (a % w) /\ a % w \in Int /\ a \div w \in Int OBVIOUS
  <2>2. a + b = (a \div w) * w + ((a % w) + b) /\ (a % w) + b \in Int BY <2>1
  <2>3. ((a \div w) * w + ((a % w) + b)) % w = ((a % w) + b) % w
    <3> DEFINE q == a \div w
               r == (a % w) + b
    <3>1. q \in Int /\ r \in Int BY <2>1
    <3> HIDE DEF q, r
    <3>2. (q * w + r) % w = r % w BY <3>1, WrapTurns
    <3> QED BY <3>2 DEF q, r
  <2> QED BY <2>2, <2>3
<1> QED BY <1>1, <1>2 DEF Wrap

\* Words of a sum are the same when one of its values keeps its word.
LEMMA SumWord ==
    ASSUME NEW S, IsFiniteSet(S), NEW f, NEW h, NEW t \in S,
           \A x \in S : f[x] \in Int /\ h[x] \in Int,
           \A x \in S \ {t} : h[x] = f[x], Wrap(h[t]) = Wrap(f[t])
    PROVE  Wrap(Sum(h, S)) = Wrap(Sum(f, S))
<1> DEFINE a == Sum(f, S) - f[t]
<1>1. Sum(f, S) \in Int /\ Sum(h, S) = Sum(f, S) + (h[t] - f[t]) BY SumStep
<1>2. f[t] \in Int /\ h[t] \in Int OBVIOUS
<1>3. a \in Int /\ Sum(f, S) = f[t] + a /\ Sum(h, S) = h[t] + a BY <1>1, <1>2
<1> HIDE DEF a
<1>4. Wrap(f[t] + a) = Wrap(Wrap(f[t]) + a) /\ Wrap(h[t] + a) = Wrap(Wrap(h[t]) + a)
  BY <1>2, <1>3, WrapAdd
<1> QED BY <1>3, <1>4

\* The names used, and the calls on objects.
Names == {"initialFileCount", "autoExpand", "currentFileCount", "maxFileCount", "dataFileSize",
          "writePageSize", "writePages", "recordDepth", "enqueues", "txn", "txnEnqueues",
          "txnDequeues", "dequeues", "txnCommits", "txnAborts", "tplIsInitialized",
          "tplTransactionDepth", "tplTxnPrepares", "tplTxnCommits", "tplTxnAborts", ""}
Updates == [kind : {"count", "gauge", "prop", "mark"}, obj : Objects, what : Names, by : Int]

\* Induction up to N, for a set: the theorems of the library take an operator.
LEMMA SetInduction ==
    ASSUME NEW N \in Nat, NEW S, 0 \in S, \A n \in 0 .. N - 1 : n \in S => n + 1 \in S
    PROVE  \A n \in 0 .. N : n \in S
<1> SUFFICES ASSUME NEW m \in 0 .. N, m \notin S PROVE FALSE
  OBVIOUS
<1> DEFINE Less == OpToRel(<, Nat)
           T == {n \in Nat : n <= N /\ n \notin S}
<1>1. \A a, b \in Nat : <<a, b>> \in Less <=> a < b BY DEF OpToRel
<1>2. IsWellFoundedOn(Less, Nat) BY NatLessThanWellFounded
<1>3. T \in SUBSET Nat /\ m \in T OBVIOUS
<1> HIDE DEF Less
<1>4. PICK k \in T : \A b \in T : ~(<<b, k>> \in Less)
  <2> HIDE DEF T
  <2> QED BY <1>2, <1>3, WFMin
<1>5. k # 0 /\ k \in Nat /\ k <= N /\ k \notin S OBVIOUS
<1>6. k - 1 \in S
  <2>1. k - 1 \in Nat /\ k - 1 < k BY <1>5
  <2>2. <<k - 1, k>> \in Less BY <1>1, <1>5, <2>1
  <2>3. k - 1 \notin T BY <1>4, <2>2
  <2> QED BY <2>1, <2>3, <1>5
<1> QED BY <1>5, <1>6

\* What a call adds to a value, and what a list of calls adds.
Amount(u, k, o, w) == IF u.kind = k /\ u.obj = o /\ u.what = w THEN u.by ELSE 0
Amounts(s, k, o, w) == [i \in 1 .. Len(s) |-> Amount(s[i], k, o, w)]
Due(s, k, o, w) == Sum(Amounts(s, k, o, w), 1 .. Len(s))

\* A call adds an integer, ...
LEMMA AmountInt == \A u \in Updates : \A k, o, w : Amount(u, k, o, w) \in Int
BY DEF Amount, Updates

\* ... the empty list nothing, ...
LEMMA DueEmpty == \A k, o, w : Due(<<>>, k, o, w) = 0
<1> TAKE k, o, w
<1>1. Len(<<>>) = 0 /\ 1 .. 0 = {} OBVIOUS
<1> QED BY <1>1, SumEmpty DEF Due

\* ... a list an integer, ...
LEMMA DueInt ==
    ASSUME NEW s \in Seq(Updates), NEW k, NEW o, NEW w
    PROVE  Due(s, k, o, w) \in Int
<1> DEFINE f == Amounts(s, k, o, w)
           D == 1 .. Len(s)
<1>1. \A i \in D : f[i] \in Int BY AmountInt DEF Amounts
<1>2. IsFiniteSet(D) BY FS_Interval
<1> HIDE DEF f, D
<1>3. Sum(f, D) \in Int BY <1>1, <1>2, SumRemove
<1> QED BY <1>3 DEF Due, f, D

\* ... and a list with a call behind it what that call adds besides.
LEMMA DueAppend ==
    ASSUME NEW s \in Seq(Updates), NEW u \in Updates, NEW k, NEW o, NEW w
    PROVE  Due(Append(s, u), k, o, w) = Due(s, k, o, w) + Amount(u, k, o, w)
<1> DEFINE r == Append(s, u)
           n == Len(s)
           g == Amounts(r, k, o, w)
           f == Amounts(s, k, o, w)
           C == 1 .. n
           D == 1 .. n + 1
<1>1. n \in Nat /\ Len(r) = n + 1 /\ r[n + 1] = u /\ \A i \in C : r[i] = s[i] /\ s[i] \in Updates
  OBVIOUS
<1>2. g[n + 1] = Amount(u, k, o, w) /\ \A i \in C : g[i] = f[i] BY <1>1 DEF Amounts
<1>3. \A i \in C : f[i] \in Int BY <1>1, AmountInt DEF Amounts
<1>4. \A i \in D : g[i] \in Int
  <2>1. \A i \in D : i = n + 1 \/ i \in C BY <1>1
  <2> HIDE DEF C, D, g, f
  <2> QED BY <2>1, <1>2, <1>3, AmountInt
<1>5. IsFiniteSet(C) /\ IsFiniteSet(D) BY <1>1, FS_Interval
<1>6. n + 1 \in D /\ D \ {n + 1} = C BY <1>1
<1>7. Due(s, k, o, w) = Sum(f, C) /\ Due(r, k, o, w) = Sum(g, D)
  BY <1>1 DEF Due
<1> HIDE DEF f, g, C, D, n
<1>8. Sum(g, D) = g[n + 1] + Sum(g, C)
  <2>1. \A t \in D : Sum(g, D) = g[t] + Sum(g, D \ {t}) BY <1>4, <1>5, SumRemove
  <2> QED BY <1>6, <2>1
<1>9. Sum(g, C) = Sum(f, C) BY <1>2, <1>5, SumSame
<1>10. Sum(f, C) \in Int BY <1>3, <1>5, SumRemove
<1>11. Amount(u, k, o, w) \in Int BY AmountInt
<1> HIDE DEF r
<1>12. Due(r, k, o, w) = Due(s, k, o, w) + Amount(u, k, o, w) BY <1>2, <1>7, <1>8, <1>9, <1>10, <1>11
<1> QED BY <1>12 DEF r

\* Lists one after the other: by induction on the length of the second.
LEMMA DueConcat ==
    ASSUME NEW s \in Seq(Updates), NEW r \in Seq(Updates), NEW k, NEW o, NEW w
    PROVE  Due(s \o r, k, o, w) = Due(s, k, o, w) + Due(r, k, o, w)
<1> DEFINE Begin(n) == SubSeq(r, 1, n)
           Holds(n) == Due(s \o Begin(n), k, o, w) = Due(s, k, o, w) + Due(Begin(n), k, o, w)
           Ns == {n \in Nat : Holds(n)}
<1>0. Len(r) \in Nat /\ Due(s, k, o, w) \in Int BY DueInt
<1>1. 0 \in Ns
  <2>1. Begin(0) = <<>> /\ s \o <<>> = s BY <1>0
  <2>2. Due(s \o Begin(0), k, o, w) = Due(s, k, o, w) /\ Due(Begin(0), k, o, w) = 0
    BY <2>1, DueEmpty
  <2> QED BY <1>0, <2>2
<1>2. ASSUME NEW n \in 0 .. Len(r) - 1, n \in Ns PROVE n + 1 \in Ns
  <2> DEFINE b == Begin(n)
             u == r[n + 1]
  <2>1. n \in Nat /\ n + 1 \in 1 .. Len(r) BY <1>0
  <2>2. b \in Seq(Updates) /\ u \in Updates /\ s \o b \in Seq(Updates) BY <2>1
  <2>3. Begin(n + 1) = Append(b, u) BY <2>1
  <2>4. s \o Append(b, u) = Append(s \o b, u) BY <2>2
  <2>5. Holds(n) BY <1>2
  <2> HIDE DEF b, u
  <2>6. Due(s \o Append(b, u), k, o, w) = Due(s \o b, k, o, w) + Amount(u, k, o, w)
    <3> DEFINE c == s \o b
    <3>1. c \in Seq(Updates) BY <2>2
    <3> HIDE DEF c
    <3>2. Due(Append(c, u), k, o, w) = Due(c, k, o, w) + Amount(u, k, o, w)
      BY <2>2, <3>1, DueAppend
    <3> QED BY <2>4, <3>2 DEF c
  <2>7. Due(Append(b, u), k, o, w) = Due(b, k, o, w) + Amount(u, k, o, w)
    BY <2>2, DueAppend
  <2>8. Due(s \o b, k, o, w) = Due(s, k, o, w) + Due(b, k, o, w) BY <2>5 DEF b
  <2>9. Due(b, k, o, w) \in Int /\ Amount(u, k, o, w) \in Int BY <2>2, DueInt, AmountInt
  <2>10. Due(s \o Append(b, u), k, o, w) = Due(s, k, o, w) + Due(Append(b, u), k, o, w)
    BY <1>0, <2>6, <2>7, <2>8, <2>9
  <2>11. Holds(n + 1) BY <2>3, <2>10
  <2> QED BY <2>1, <2>11
<1>3. \A n \in 0 .. Len(r) : n \in Ns
  <2> HIDE DEF Ns
  <2> QED BY <1>0, <1>1, <1>2, SetInduction
<1>4. Holds(Len(r)) BY <1>0, <1>3
<1>5. Begin(Len(r)) = r BY <1>0
<1> QED BY <1>4, <1>5

\* A list of one call adds what the call does.
LEMMA DueOne == \A u \in Updates : \A k, o, w : Due(<<u>>, k, o, w) = Amount(u, k, o, w)
<1> TAKE u \in Updates
<1> TAKE k, o, w
<1> DEFINE e == <<>>
           one == <<u>>
<1>1. one = Append(e, u) /\ e \in Seq(Updates) OBVIOUS
<1>2. Due(e, k, o, w) = 0 /\ Amount(u, k, o, w) \in Int BY DueEmpty, AmountInt
<1> HIDE DEF e, one
<1>3. Due(Append(e, u), k, o, w) = Due(e, k, o, w) + Amount(u, k, o, w) BY <1>1, DueAppend
<1>4. Due(one, k, o, w) = Amount(u, k, o, w) BY <1>1, <1>2, <1>3
<1> QED BY <1>4 DEF one

\* A list is its first call and the rest.
LEMMA DueHead ==
    ASSUME NEW s \in Seq(Updates), s # <<>>, NEW k, NEW o, NEW w
    PROVE  /\ Head(s) \in Updates /\ Tail(s) \in Seq(Updates)
           /\ Due(s, k, o, w) = Amount(Head(s), k, o, w) + Due(Tail(s), k, o, w)
<1>1. Head(s) \in Updates /\ Tail(s) \in Seq(Updates) /\ s = <<Head(s)>> \o Tail(s) OBVIOUS
<1> DEFINE h == <<Head(s)>>
           t == Tail(s)
<1>2. h \in Seq(Updates) /\ t \in Seq(Updates) /\ s = h \o t BY <1>1
<1>3. Due(h, k, o, w) = Amount(Head(s), k, o, w) BY <1>1, DueOne
<1> HIDE DEF h, t
<1>4. Due(h \o t, k, o, w) = Due(h, k, o, w) + Due(t, k, o, w) BY <1>2, DueConcat
<1> QED BY <1>1, <1>2, <1>3, <1>4 DEF t

\* A list of calls that add nothing adds nothing.
LEMMA DueZero ==
    ASSUME NEW s \in Seq(Updates), NEW k, NEW o, NEW w,
           \A i \in 1 .. Len(s) : Amount(s[i], k, o, w) = 0
    PROVE  Due(s, k, o, w) = 0
<1> DEFINE D == 1 .. Len(s)
           f == Amounts(s, k, o, w)
<1>1. IsFiniteSet(D) BY FS_Interval
<1>2. \A i \in D : f[i] = 0 BY DEF Amounts
<1> HIDE DEF D, f
<1>3. Sum(f, D) = 0 BY <1>1, <1>2, SumZero
<1> QED BY <1>3 DEF D, f, Due

-----------------------------------------------------------------------------
(* What is reported.                                                       *)

Slots(o) == {NoSlot, RawSlot} \cup [Counters[o] -> 0 .. Words - 1]
CallOps == {"none", "initialize", "enqueue", "dequeue", "counting"}
CallType == [op : CallOps, m : SUBSET Msgs, x : SUBSET Xids, txn_incr : BOOLEAN]
ReportOf(o) == [obj : {o}, left : SUBSET Threads, sums : [Counters[o] -> 0 .. Words - 1]]

Types ==
    /\ DOMAIN slot = Objects /\ \A o \in Objects : slot[o] \in [Threads -> Slots(o)]
    /\ DOMAIN gauge = Objects /\ DOMAIN props = Objects
    /\ DOMAIN sent = Objects /\ DOMAIN sentProps = Objects
    /\ instChanged \in [Objects -> BOOLEAN] /\ configChanged \in [Objects -> BOOLEAN]
    /\ todo \in [Threads -> Seq(Updates)] /\ call \in [Threads -> CallType]
    /\ agent = NoReport \/ \E o \in Objects : agent \in ReportOf(o)

\* A slot that is not cleared belongs to a thread that is about to do so.
RawInv == \A o \in Objects, t \in Threads :
    slot[o][t] = RawSlot => Doing(t, "count") /\ Head(todo[t]).obj = o

\* A thread that has calls to make on an object is counting.
BusyInv == \A t \in Threads : todo[t] # <<>> => call[t].op \in {"counting", "initialize"}

\* The counters of the threads, those of a slot that is not there taken for 0.
Vals(o, c) == [t \in Threads |-> IF HasSlot(o, t) THEN slot[o][t][c] ELSE 0]

\* A counter of object o has been changed, or will be, and its flag is still to be set.
Touches(u, o) == u.kind \in {"count", "mark"} /\ u.obj = o
PendIn(s, o) == \E i \in 1 .. Len(s) : Touches(s[i], o)
Pending(o) == \E t \in Threads : PendIn(todo[t], o)

\* With the flag down and none of these calls under way, the report under way has
\* summed up what is in the slots it has visited, or the last one all there is.
SumsSoFar(o) == \A c \in Counters[o] : agent.sums[c] = Wrap(Sum(Vals(o, c), Threads \ agent.left))
SaysAll(o) ==
    /\ \A c \in Counters[o] : sent[o].sums[c] = Wrap(Sum(Vals(o, c), Threads))
    /\ \A g \in Gauges[o] : sent[o].gauge[g].val = gauge[o][g].val /\ gauge[o][g] = Restarted(gauge[o][g])
StatsOf(o) == ~instChanged[o] /\ ~Pending(o) => IF agent.obj = o THEN SumsSoFar(o) ELSE SaysAll(o)
StatsInv == \A o \in Objects : StatsOf(o)

PropsInv == \A o \in Objects : ~configChanged[o] => sentProps[o] = props[o]

ReportInv == Types /\ RawInv /\ BusyInv /\ StatsInv /\ PropsInv

\* aggregatePerThreadStats() computes the sum of the counters.
LEMMA TotalIs == \A o, c : Total(o, c) = Wrap(Sum(Vals(o, c), Threads))
<1> TAKE o, c
<1> DEFINE f == Vals(o, c)
           ElseOf(g) == [T \in SUBSET Threads |-> IF T = {} THEN 0
               ELSE (IF HasSlot(o, Picked(T)) THEN slot[o][Picked(T)][c] ELSE 0) + g[T \ {Picked(T)}]]
           e == CHOOSE e : e = ElseOf(e)
<1>1. Total(o, c) = Wrap(e[Threads])
  BY DEF Total, MapThenSumSet, MapThenFoldSet, Picked
<1>2. IsFiniteSet(Threads) BY ThreadsAssumption
<1>3. ASSUME NEW g PROVE ElseOf(g) = [T \in SUBSET Threads |-> Step(f, T, g)]
  <2>1. ASSUME NEW T \in SUBSET Threads, T # {}
        PROVE (IF HasSlot(o, Picked(T)) THEN slot[o][Picked(T)][c] ELSE 0) = f[Picked(T)]
    <3>1. Picked(T) \in Threads BY <2>1 DEF Picked
    <3> QED BY <3>1 DEF Vals
  <2> HIDE DEF f
  <2> QED BY <2>1 DEF Step
<1>4. PICK g : Iter(f, Threads, g) /\ \A T \in SUBSET Threads : Sum(f, T) = g[T]
  BY <1>2, SumIter
<1>5. g = ElseOf(g) BY <1>3, <1>4 DEF Iter
<1>6. e = ElseOf(e) BY <1>5
<1>7. Iter(f, Threads, e) BY <1>3, <1>6 DEF Iter
<1> HIDE DEF e, f
<1> DEFINE S == Threads
<1>8. S \in SUBSET S OBVIOUS
<1>9. IsFiniteSet(S) /\ Iter(f, S, g) /\ Iter(f, S, e) BY <1>2, <1>4, <1>7
<1> HIDE DEF S
<1>10. \A T \in SUBSET S : g[T] = e[T] BY <1>8, <1>9, IterAgree
<1>11. Sum(f, Threads) = e[Threads] BY <1>4, <1>10 DEF S
<1> QED BY <1>1, <1>11 DEF f

\* There is a word, 0.
LEMMA WordsAre == Words \in Nat \ {0} /\ 0 \in 0 .. Words - 1 /\ Wrap(0) = 0
<1>1. Words \in Nat \ {0} BY ManagementAssumption
<1>2. \A w \in Nat \ {0} : 0 % w = 0 OBVIOUS
<1> QED BY <1>1, <1>2 DEF Wrap

\* A slot is one thing or the other.
LEMMA SlotKinds == ASSUME Types, NEW o \in Objects, NEW t \in Threads
    PROVE /\ slot[o][t] \in Slots(o)
          /\ HasSlot(o, t) <=> slot[o][t] \in [Counters[o] -> 0 .. Words - 1]
<1>1. slot[o][t] \in Slots(o) BY DEF Types
<1> QED BY <1>1, SlotsAssumption DEF Slots, HasSlot

\* A counter in a slot is an integer.
LEMMA ValsInt == ASSUME Types, NEW o \in Objects, NEW c \in Counters[o]
    PROVE \A t \in Threads : Vals(o, c)[t] \in Int
<1> TAKE t \in Threads
<1>1. HasSlot(o, t) => slot[o][t][c] \in 0 .. Words - 1 BY SlotKinds
<1>2. Words \in Nat BY WordsAre
<1> QED BY <1>1, <1>2 DEF Vals

\* The lists of calls.
LEMMA ListTypes ==
    /\ \A o \in Objects : \A w \in Names, n \in Int :
          /\ Add(o, w, n) \in Updates /\ Raise(o, w, n) \in Updates
          /\ Inc(o, w) \in Updates /\ Dec(o, w) \in Updates /\ Up(o, w) \in Updates
          /\ Down(o, w) \in Updates /\ SetProp(o, w) \in Updates /\ Mark(o) \in Updates
    /\ \A c : NewTxn(c) \in Seq(Updates) /\ EnqueueCounts(c) \in Seq(Updates) /\ DequeueCounts(c) \in Seq(Updates)
    /\ TplInit \in Seq(Updates) /\ \A b \in BOOLEAN : EndCounts(b) \in Seq(Updates)
    /\ InitialSets \in Seq(Updates)
<1>1. \A o \in Objects : \A w \in Names, n \in Int :
          /\ Add(o, w, n) \in Updates /\ Raise(o, w, n) \in Updates
          /\ Inc(o, w) \in Updates /\ Dec(o, w) \in Updates /\ Up(o, w) \in Updates
          /\ Down(o, w) \in Updates /\ SetProp(o, w) \in Updates /\ Mark(o) \in Updates
  <2> SUFFICES ASSUME NEW o \in Objects, NEW w \in Names, NEW n \in Int
               PROVE /\ Add(o, w, n) \in Updates /\ Raise(o, w, n) \in Updates
                     /\ Inc(o, w) \in Updates /\ Dec(o, w) \in Updates /\ Up(o, w) \in Updates
                     /\ Down(o, w) \in Updates /\ SetProp(o, w) \in Updates /\ Mark(o) \in Updates
    OBVIOUS
  <2>1. Add(o, w, n) \in Updates /\ Raise(o, w, n) \in Updates BY DEF Add, Raise, Updates
  <2>2. Inc(o, w) \in Updates /\ Dec(o, w) \in Updates BY DEF Inc, Dec, Updates
  <2>3. Up(o, w) \in Updates /\ Down(o, w) \in Updates BY DEF Up, Down, Updates
  <2>4. SetProp(o, w) \in Updates BY DEF SetProp, Updates
  <2>5. Mark(o) \in Updates
    <3>1. PICK e \in Names : e = "" BY DEF Names
    <3>2. Mark(o) = [kind |-> "mark", obj |-> o, what |-> e, by |-> 0] BY <3>1 DEF Mark
    <3> QED BY <3>2 DEF Updates
  <2> QED BY <2>1, <2>2, <2>3, <2>4, <2>5
<1>0. /\ "txn" \in Names /\ "enqueues" \in Names /\ "dequeues" \in Names /\ "txnEnqueues" \in Names
      /\ "txnDequeues" \in Names /\ "recordDepth" \in Names /\ "txnCommits" \in Names
      /\ "txnAborts" \in Names /\ "tplIsInitialized" \in Names /\ "tplTransactionDepth" \in Names
      /\ "tplTxnPrepares" \in Names /\ "tplTxnCommits" \in Names /\ "tplTxnAborts" \in Names
  BY DEF Names
<1> USE <1>0
<1>2. Journal \in Objects /\ Store \in Objects BY InstrumentedAssumption
<1>3. ASSUME NEW c PROVE NewTxn(c) \in Seq(Updates)
  <2>1. Inc(Journal, "txn") \in Updates BY <1>1, <1>2
  <2> QED BY <2>1 DEF NewTxn
<1>4. ASSUME NEW c PROVE EnqueueCounts(c) \in Seq(Updates)
  <2>1. Inc(Journal, "enqueues") \in Updates /\ Inc(Journal, "txnEnqueues") \in Updates /\ Up(Journal, "recordDepth") \in Updates
    BY <1>1, <1>2
  <2>2. NewTxn(c) \in Seq(Updates) BY <1>3
  <2> QED BY <2>1, <2>2 DEF EnqueueCounts
<1>5. ASSUME NEW c PROVE DequeueCounts(c) \in Seq(Updates)
  <2>1. Inc(Journal, "dequeues") \in Updates /\ Inc(Journal, "txnDequeues") \in Updates /\ Down(Journal, "recordDepth") \in Updates
    BY <1>1, <1>2
  <2>2. NewTxn(c) \in Seq(Updates) BY <1>3
  <2> QED BY <2>1, <2>2 DEF DequeueCounts
<1>6. TplInit \in Seq(Updates)
  <2>1. SetProp(Store, "tplIsInitialized") \in Updates BY <1>1, <1>2
  <2> QED BY <2>1 DEF TplInit
<1>7. ASSUME NEW b \in BOOLEAN PROVE EndCounts(b) \in Seq(Updates)
  <2>1. Dec(Journal, "txn") \in Updates /\ Down(Store, "tplTransactionDepth") \in Updates
        /\ \A w \in Names : Inc(Journal, w) \in Updates /\ Inc(Store, w) \in Updates
    BY <1>1, <1>2
  <2> QED BY <2>1 DEF EndCounts
<1>8. InitialSets \in Seq(Updates)
  <2>1. Len(JournalProps) = 7 /\ \A i \in 1 .. 7 : JournalProps[i] \in Names BY DEF JournalProps, Names
  <2>2. \A i \in 1 .. 7 : SetProp(Journal, JournalProps[i]) \in Updates BY <1>1, <1>2, <2>1
  <2> QED BY <2>1, <2>2 DEF InitialSets
<1> QED BY <1>1, <1>3, <1>4, <1>5, <1>6, <1>7, <1>8

\* What a recovery may find is finite, and at most one transaction is open in it.
LEMMA FiniteRec ==
    ASSUME Init
    PROVE  /\ IsFiniteSet(queue) /\ IsFiniteSet(stored) /\ queue \subseteq stored
           /\ IsFiniteSet(UNION {adds[x] : x \in Xids}) /\ IsFiniteSet(UNION {takes[x] : x \in Xids})
           /\ IsFiniteSet(Open) /\ Cardinality(Open) <= 1
           /\ DOMAIN adds = Xids /\ DOMAIN takes = Xids
           /\ stored = {} => Open = {}
<1>0. IsFiniteSet(RecMsgs) BY InstrumentedAssumption
<1>1. PICK q \in SUBSET RecMsgs : \E a \in SUBSET (RecMsgs \ q), k \in SUBSET q :
          /\ queue = q /\ stored = q \cup a
          /\ \/ a = {} /\ k = {} /\ adds = [x \in Xids |-> {}] /\ takes = adds
             \/ /\ a \cup k # {}
                /\ \E x \in Xids : /\ adds = [y \in Xids |-> IF y = x THEN a ELSE {}]
                                   /\ takes = [y \in Xids |-> IF y = x THEN k ELSE {}]
  BY DEF Init
<1>2. PICK a \in SUBSET (RecMsgs \ q), k \in SUBSET q :
          /\ queue = q /\ stored = q \cup a
          /\ \/ a = {} /\ k = {} /\ adds = [x \in Xids |-> {}] /\ takes = adds
             \/ /\ a \cup k # {}
                /\ \E x \in Xids : /\ adds = [y \in Xids |-> IF y = x THEN a ELSE {}]
                                   /\ takes = [y \in Xids |-> IF y = x THEN k ELSE {}]
  BY <1>1
<1>3. IsFiniteSet(queue) /\ IsFiniteSet(stored) /\ IsFiniteSet(a) /\ IsFiniteSet(k) /\ queue \subseteq stored
  <2>1. queue \subseteq RecMsgs /\ stored \subseteq RecMsgs /\ a \subseteq RecMsgs /\ k \subseteq RecMsgs
    BY <1>2
  <2> QED BY <1>0, <1>2, <2>1, FS_Subset
<1>4. IsFiniteSet({}) /\ Cardinality({}) = 0 BY FS_EmptySet
<1>5. CASE adds = [x \in Xids |-> {}] /\ takes = adds
  <2>1. Open = {} BY <1>5 DEF Open, InMap
  <2>2. UNION {adds[x] : x \in Xids} = {} /\ UNION {takes[x] : x \in Xids} = {} BY <1>5
  <2>3. DOMAIN adds = Xids /\ DOMAIN takes = Xids BY <1>5
  <2> QED BY <1>3, <1>4, <2>1, <2>2, <2>3
<1>6. CASE a \cup k # {} /\ \E x \in Xids : /\ adds = [y \in Xids |-> IF y = x THEN a ELSE {}]
                                            /\ takes = [y \in Xids |-> IF y = x THEN k ELSE {}]
  <2>1. PICK x \in Xids : /\ adds = [y \in Xids |-> IF y = x THEN a ELSE {}]
                          /\ takes = [y \in Xids |-> IF y = x THEN k ELSE {}]
    BY <1>6
  <2>2. UNION {adds[y] : y \in Xids} = a
    <3>1. \A m : m \in UNION {adds[y] : y \in Xids} <=> \E y \in Xids : m \in adds[y] OBVIOUS
    <3> QED BY <2>1, <3>1
  <2>3. UNION {takes[y] : y \in Xids} = k
    <3>1. \A m : m \in UNION {takes[y] : y \in Xids} <=> \E y \in Xids : m \in takes[y] OBVIOUS
    <3> QED BY <2>1, <3>1
  <2>4. Open \subseteq {x} BY <2>1 DEF Open, InMap
  <2>5. IsFiniteSet({x}) /\ Cardinality({x}) = 1 BY FS_Singleton
  <2>6. IsFiniteSet(Open) /\ Cardinality(Open) <= 1 BY <2>4, <2>5, FS_Subset
  <2>7. stored # {} BY <1>2, <1>6
  <2>8. DOMAIN adds = Xids /\ DOMAIN takes = Xids BY <2>1
  <2> QED BY <1>3, <2>2, <2>3, <2>6, <2>7, <2>8
<1> QED BY <1>2, <1>5, <1>6

\* What JournalImpl::recover() says is a list of calls.
LEMMA RecoveredType == ASSUME Init PROVE \A b \in BOOLEAN : Recovered(b) \in Seq(Updates)
<1> TAKE b \in BOOLEAN
<1>1. /\ Cardinality(queue) \in Int /\ Cardinality(Open) \in Int
      /\ Cardinality(UNION {adds[x] : x \in Xids}) \in Int
      /\ Cardinality(UNION {takes[x] : x \in Xids}) \in Int
  BY FiniteRec, FS_CardinalityType
<1>2. Journal \in Objects /\ Store \in Objects BY InstrumentedAssumption
<1>3. /\ "txn" \in Names /\ "enqueues" \in Names /\ "txnEnqueues" \in Names
      /\ "txnDequeues" \in Names /\ "recordDepth" \in Names
      /\ "tplTransactionDepth" \in Names /\ "tplTxnPrepares" \in Names
  BY DEF Names
<1> DEFINE s == <<Raise(Journal, "recordDepth", Cardinality(queue)),
                  Add(Journal, "enqueues", Cardinality(queue)),
                  Add(Journal, "txn", Cardinality(Open)),
                  Add(Journal, "txnEnqueues", Cardinality(UNION {adds[x] : x \in Xids})),
                  Add(Journal, "txnDequeues", Cardinality(UNION {takes[x] : x \in Xids}))>>
           r == <<Up(Store, "tplTransactionDepth"), Inc(Store, "tplTxnPrepares")>>
<1>4. s \in Seq(Updates)
  <2>1. /\ Raise(Journal, "recordDepth", Cardinality(queue)) \in Updates
        /\ Add(Journal, "enqueues", Cardinality(queue)) \in Updates
        /\ Add(Journal, "txn", Cardinality(Open)) \in Updates
    BY <1>1, <1>2, <1>3, ListTypes
  <2>2. /\ Add(Journal, "txnEnqueues", Cardinality(UNION {adds[x] : x \in Xids})) \in Updates
        /\ Add(Journal, "txnDequeues", Cardinality(UNION {takes[x] : x \in Xids})) \in Updates
    BY <1>1, <1>2, <1>3, ListTypes
  <2> QED BY <2>1, <2>2
<1>5. r \in Seq(Updates)
  <2>1. Up(Store, "tplTransactionDepth") \in Updates /\ Inc(Store, "tplTxnPrepares") \in Updates
    BY <1>2, <1>3, ListTypes
  <2> QED BY <2>1
<1>6. Recovered(b) = IF ~b THEN <<>> ELSE (InitialSets \o s) \o IF prepared = {} THEN <<>> ELSE r
  BY DEF Recovered
<1> HIDE DEF s, r
<1>7. InitialSets \in Seq(Updates) BY ListTypes
<1> QED BY <1>4, <1>5, <1>6, <1>7

\* The invariant holds when the objects are new.
LEMMA ReportInit == Init => ReportInv
<1> SUFFICES ASSUME Init PROVE ReportInv
  OBVIOUS
<1>1. PICK managed \in BOOLEAN : LET t == Min(Threads) IN
          /\ call = [u \in Threads |-> IF u = t THEN [NoCall EXCEPT !.op = "initialize"] ELSE NoCall]
          /\ todo = [u \in Threads |-> IF u # t THEN <<>>
                                       ELSE IF stored = {} THEN InitialSets ELSE Recovered(managed)]
  BY DEF Init
<1>2. MInit BY DEF Init
<1>3. todo \in [Threads -> Seq(Updates)] BY <1>1, ListTypes, RecoveredType
<1>4. call \in [Threads -> CallType]
  <2>1. NoCall \in CallType /\ [NoCall EXCEPT !.op = "initialize"] \in CallType
    BY DEF NoCall, CallType, CallOps
  <2> QED BY <1>1, <2>1
<1>5. \A o \in Objects : slot[o] \in [Threads -> Slots(o)] /\ \A t \in Threads : slot[o][t] # RawSlot
  BY <1>2, SlotsAssumption DEF MInit, Slots
<1>6. Types BY <1>2, <1>3, <1>4, <1>5 DEF Types, MInit
<1>7. RawInv BY <1>5 DEF RawInv
<1>8. BusyInv
  <2>1. [NoCall EXCEPT !.op = "initialize"].op = "initialize" BY DEF NoCall
  <2> QED BY <1>1, <2>1 DEF BusyInv
<1>9. StatsInv BY <1>2 DEF StatsInv, StatsOf, MInit
<1>10. PropsInv BY <1>2 DEF PropsInv, MInit
<1> QED BY <1>6, <1>7, <1>8, <1>9, <1>10 DEF ReportInv

-----------------------------------------------------------------------------
(* The broker's calls.                                                     *)

\* A call of the journal gives its thread calls to make on the objects.
Loads(t) ==
    /\ todo[t] = <<>>
    /\ \E s \in Seq(Updates), c \in CallType :
          /\ todo' = [todo EXCEPT ![t] = s] /\ call' = [call EXCEPT ![t] = c]
          /\ s # <<>> => c.op = "counting"
    /\ UNCHANGED <<slot, gauge, props, instChanged, configChanged, sent, sentProps, agent, reports>>

BrokerCall(t) == Ask(t) \/ Enqueue(t) \/ Dequeue(t) \/ Refused(t) \/ Return(t) \/ LocalPrepare(t) \/ Completed(t)

\* Every call of the broker is of this form.
LEMMA CallsLoad ==
    ASSUME Types, BusyInv, NEW t \in Threads, BrokerCall(t)
    PROVE  Loads(t)
<1>0. NoCall \in CallType /\ NoCall.op = "none" BY DEF NoCall, CallType, CallOps
<1>1. DOMAIN todo = Threads /\ todo = [todo EXCEPT ![t] = todo[t]] /\ todo[t] \in Seq(Updates)
      /\ call[t] \in CallType
  BY DEF Types
<1>2. call[t] = NoCall => todo[t] = <<>> BY <1>0 DEF BusyInv
<1>3. \A c \in CallType : [c EXCEPT !.op = "counting"] \in CallType /\ [c EXCEPT !.op = "counting"].op = "counting"
  BY DEF CallType, CallOps
<1>4. CASE Ask(t)
  <2>1. PICK c : c \in CallType /\ call' = [call EXCEPT ![t] = c]
    <3>1. PICK op \in {"enqueue", "dequeue"}, m \in Msgs, x \in {{}} \cup {{y} : y \in Xids} :
              call' = [call EXCEPT ![t] = Asked(op, {m}, x)]
      BY <1>4 DEF Ask
    <3>2. Asked(op, {m}, x) \in CallType
      <4>1. x \in SUBSET Xids /\ {m} \in SUBSET Msgs OBVIOUS
      <4>2. op \in CallOps BY DEF CallOps
      <4>3. Knows(x) \in BOOLEAN BY DEF Knows
      <4> QED BY <4>1, <4>2, <4>3 DEF Asked, CallType
    <3> QED BY <3>1, <3>2
  <2>2. todo[t] = <<>> /\ UNCHANGED mvars BY <1>2, <1>4 DEF Ask, Calls
  <2> QED BY <1>1, <2>1, <2>2 DEF Loads, mvars
<1>5. CASE Enqueue(t) \/ Dequeue(t)
  <2>1. PICK s \in Seq(Updates) : todo' = [todo EXCEPT ![t] = s]
    BY <1>5, ListTypes DEF Enqueue, Dequeue
  <2>2. call' = [call EXCEPT ![t] = [call[t] EXCEPT !.op = "counting"]]
    BY <1>5 DEF Enqueue, Dequeue
  <2>3. todo[t] = <<>> /\ UNCHANGED <<slot, gauge, props, instChanged, configChanged, sent, sentProps, agent, reports>>
    BY <1>5 DEF Enqueue, Dequeue
  <2> QED BY <1>1, <1>3, <2>1, <2>2, <2>3 DEF Loads
<1>6. CASE Refused(t) \/ Return(t)
  <2>1. todo[t] = <<>> /\ UNCHANGED mvars /\ call' = [call EXCEPT ![t] = NoCall]
    BY <1>6 DEF Refused, Return
  <2> QED BY <1>0, <1>1, <2>1 DEF Loads, mvars
<1>7. CASE LocalPrepare(t) \/ Completed(t)
  <2>1. PICK x \in Xids : call' = [call EXCEPT ![t] = Counting(x)]
    BY <1>7 DEF LocalPrepare, Completed, Open
  <2>2. Counting(x) \in CallType /\ Counting(x).op = "counting"
    BY DEF Counting, NoCall, CallType, CallOps
  <2>3. PICK s \in Seq(Updates) : todo' = [todo EXCEPT ![t] = s]
    <3>1. CASE LocalPrepare(t)
      <4>1. Store \in Objects /\ "tplTransactionDepth" \in Names /\ "tplTxnPrepares" \in Names
        BY InstrumentedAssumption DEF Names
      <4>2. Up(Store, "tplTransactionDepth") \in Updates /\ Inc(Store, "tplTxnPrepares") \in Updates
        BY <4>1, ListTypes
      <4>3. <<Up(Store, "tplTransactionDepth"), Inc(Store, "tplTxnPrepares")>> \in Seq(Updates) BY <4>2
      <4>4. TplInit \in Seq(Updates) BY ListTypes
      <4>5. TplInit \o <<Up(Store, "tplTransactionDepth"), Inc(Store, "tplTxnPrepares")>> \in Seq(Updates)
        BY <4>3, <4>4
      <4>6. todo' = [todo EXCEPT ![t] = TplInit \o <<Up(Store, "tplTransactionDepth"), Inc(Store, "tplTxnPrepares")>>]
        BY <3>1 DEF LocalPrepare
      <4> QED BY <4>5, <4>6
    <3>2. CASE Completed(t)
      <4>1. PICK commit \in BOOLEAN : todo' = [todo EXCEPT ![t] = TplInit \o EndCounts(commit)]
        BY <3>2 DEF Completed
      <4>2. TplInit \in Seq(Updates) /\ EndCounts(commit) \in Seq(Updates) BY ListTypes
      <4>3. TplInit \o EndCounts(commit) \in Seq(Updates) BY <4>2
      <4> QED BY <4>1, <4>3
    <3> QED BY <1>7, <3>1, <3>2
  <2>4. todo[t] = <<>> /\ UNCHANGED <<slot, gauge, props, instChanged, configChanged, sent, sentProps, agent, reports>>
    BY <1>2, <1>7 DEF LocalPrepare, Completed, Calls
  <2> QED BY <1>1, <2>1, <2>2, <2>3, <2>4 DEF Loads
<1> QED BY <1>4, <1>5, <1>6, <1>7 DEF BrokerCall

\* A step that leaves an object, the report under way and what is pending on the
\* object as they are leaves what is reported as it is.
LEMMA StatsQuiet ==
    ASSUME NEW o \in Objects, StatsOf(o), slot'[o] = slot[o], gauge'[o] = gauge[o],
           sent'[o] = sent[o], instChanged'[o] = instChanged[o],
           agent' = agent \/ (agent.obj # o /\ agent'.obj # o),
           Pending(o) => Pending(o)'
    PROVE  StatsOf(o)'
<1>1. \A c : Vals(o, c)' = Vals(o, c) BY DEF Vals, HasSlot
<1>2. CASE agent' = agent BY <1>1, <1>2 DEF StatsOf, SumsSoFar, SaysAll
<1>3. CASE agent.obj # o /\ agent'.obj # o BY <1>1, <1>3 DEF StatsOf, SaysAll
<1> QED BY <1>2, <1>3

\* To be about to count something disturbs no report.
LEMMA LoadsKeepReports ==
    ASSUME ReportInv, NEW t \in Threads, Loads(t)
    PROVE  ReportInv'
<1>1. PICK s \in Seq(Updates), c \in CallType :
          /\ todo' = [todo EXCEPT ![t] = s] /\ call' = [call EXCEPT ![t] = c]
          /\ s # <<>> => c.op = "counting"
  BY DEF Loads
<1>2. todo[t] = <<>> /\ UNCHANGED <<slot, gauge, props, instChanged, configChanged, sent, sentProps, agent, reports>>
  BY DEF Loads
<1>3. Types' BY <1>1, <1>2 DEF ReportInv, Types
<1>4. DOMAIN todo = Threads /\ DOMAIN call = Threads BY DEF ReportInv, Types
<1>5. BusyInv' BY <1>1, <1>4 DEF ReportInv, BusyInv
<1>6. RawInv'
  <2> SUFFICES ASSUME NEW o \in Objects, NEW u \in Threads, slot'[o][u] = RawSlot
               PROVE Doing(u, "count")' /\ Head(todo'[u]).obj = o
    BY DEF RawInv
  <2>1. Doing(u, "count") /\ Head(todo[u]).obj = o BY <1>2 DEF ReportInv, RawInv
  <2>2. u # t BY <1>2, <2>1 DEF Doing
  <2> QED BY <1>1, <1>4, <2>1, <2>2 DEF Doing
<1>7. StatsInv'
  <2> SUFFICES ASSUME NEW o \in Objects PROVE StatsOf(o)'
    BY DEF StatsInv
  <2>1. Pending(o) => Pending(o)'
    <3> SUFFICES ASSUME NEW u \in Threads, PendIn(todo[u], o) PROVE Pending(o)'
      BY DEF Pending
    <3>1. u # t BY <1>2 DEF PendIn
    <3> QED BY <1>1, <1>4, <3>1 DEF Pending
  <2> QED BY <1>2, <2>1, StatsQuiet DEF ReportInv, StatsInv
<1>8. PropsInv' BY <1>2 DEF ReportInv, PropsInv
<1> QED BY <1>3, <1>5, <1>6, <1>7, <1>8 DEF ReportInv

-----------------------------------------------------------------------------
(* A thread's calls on an object.                                          *)

\* What is pending in a list stays so while other calls are made.
LEMMA PendHead == ASSUME NEW s \in Seq(Updates), s # <<>>, NEW o, PendIn(s, o), ~Touches(Head(s), o)
    PROVE PendIn(Tail(s), o)
<1>1. PICK i \in 1 .. Len(s) : Touches(s[i], o) BY DEF PendIn
<1>2. i # 1 BY <1>1
<1>3. i - 1 \in 1 .. Len(Tail(s)) /\ Tail(s)[i - 1] = s[i] BY <1>2
<1> QED BY <1>1, <1>3 DEF PendIn

\* What holds of a thread that makes its first call and has the others left.
LEMMA FirstCall ==
    ASSUME ReportInv, NEW t \in Threads, todo[t] # <<>>
    PROVE  /\ Head(todo[t]) \in Updates /\ Head(todo[t]).obj \in Objects /\ Tail(todo[t]) \in Seq(Updates)
           /\ todo[t] \in Seq(Updates) /\ call[t].op \in {"counting", "initialize"}
           /\ DOMAIN todo = Threads
<1>1. todo[t] \in Seq(Updates) /\ DOMAIN todo = Threads BY DEF ReportInv, Types
<1>2. Head(todo[t]) \in Updates /\ Tail(todo[t]) \in Seq(Updates) BY <1>1
<1>3. Head(todo[t]).obj \in Objects BY <1>2 DEF Updates
<1> QED BY <1>1, <1>2, <1>3 DEF ReportInv, BusyInv

\* With a call done, what is pending on other objects still is.
LEMMA DonePending ==
    ASSUME ReportInv, NEW t \in Threads, todo[t] # <<>>, Done(t), NEW o,
           ~Touches(Head(todo[t]), o), Pending(o)
    PROVE  Pending(o)'
<1>1. PICK u \in Threads : PendIn(todo[u], o) BY DEF Pending
<1>2. todo' = [todo EXCEPT ![t] = Tail(todo[t])] BY DEF Done
<1>3. todo[t] \in Seq(Updates) /\ DOMAIN todo = Threads BY FirstCall
<1>4. CASE u # t
  <2>1. todo'[u] = todo[u] BY <1>2, <1>3, <1>4
  <2> QED BY <1>1, <2>1 DEF Pending
<1>5. CASE u = t
  <2>1. todo'[u] = Tail(todo[u]) BY <1>2, <1>3, <1>5
  <2>2. PendIn(Tail(todo[u]), o) BY <1>1, <1>3, <1>5, PendHead
  <2> QED BY <2>1, <2>2 DEF Pending
<1> QED BY <1>4, <1>5

\* A slot that is not cleared is that of a thread at its first call, so that a step
\* of a thread at a call of another kind, or with its slot cleared, leaves it.
LEMMA DoneRaw ==
    ASSUME ReportInv, NEW t \in Threads, todo[t] # <<>>, slot' = slot,
           NEW s \in Seq(Updates), todo' = [todo EXCEPT ![t] = s],
           ~Doing(t, "count")
    PROVE  RawInv'
<1> SUFFICES ASSUME NEW o \in Objects, NEW u \in Threads, slot'[o][u] = RawSlot
             PROVE Doing(u, "count")' /\ Head(todo'[u]).obj = o
  BY DEF RawInv
<1>1. Doing(u, "count") /\ Head(todo[u]).obj = o BY DEF ReportInv, RawInv
<1>2. u # t BY <1>1
<1>3. todo'[u] = todo[u] BY <1>2, FirstCall
<1> QED BY <1>1, <1>3 DEF Doing

\* The types, if only the lists and the objects named in them change.
LEMMA PublishKeeps == ASSUME ReportInv, NEW t \in Threads, Publish(t), UNCHANGED call PROVE ReportInv'
<1>2. todo[t] # <<>> BY DEF Publish, Doing
<1>3. PICK b \in Objects : b = Head(todo[t]).obj BY <1>2, FirstCall
<1>1. /\ Doing(t, "count") /\ slot[b][t] = NoSlot /\ slot' = [slot EXCEPT ![b][t] = RawSlot]
      /\ UNCHANGED <<gauge, props, instChanged, configChanged, sent, sentProps, agent, reports, todo>>
  BY <1>3 DEF Publish
<1>4. DOMAIN slot = Objects /\ \A o \in Objects : slot[o] \in [Threads -> Slots(o)] BY DEF ReportInv, Types
<1>5. /\ slot'[b] = [slot[b] EXCEPT ![t] = RawSlot] /\ DOMAIN slot' = Objects
      /\ \A o \in Objects : o # b => slot'[o] = slot[o]
  BY <1>1, <1>3, <1>4
<1>6. \A o \in Objects : slot'[o] \in [Threads -> Slots(o)]
  <2>1. slot'[b] \in [Threads -> Slots(b)] BY <1>3, <1>4, <1>5 DEF Slots
  <2> QED BY <1>4, <1>5, <2>1
<1>7. Types' BY <1>1, <1>5, <1>6 DEF ReportInv, Types
<1>8. RawInv'
  <2> SUFFICES ASSUME NEW o \in Objects, NEW u \in Threads, slot'[o][u] = RawSlot
               PROVE Doing(u, "count")' /\ Head(todo'[u]).obj = o
    BY DEF RawInv
  <2>1. CASE o = b /\ u = t BY <1>1, <1>3, <2>1 DEF Doing
  <2>2. CASE ~(o = b /\ u = t)
    <3>1. slot[o][u] = RawSlot BY <1>3, <1>4, <1>5, <2>2
    <3> QED BY <1>1, <3>1 DEF ReportInv, RawInv, Doing
  <2> QED BY <2>1, <2>2
<1>9. Pending(b)'
  <2>1. Touches(Head(todo[t]), b) BY <1>1, <1>3 DEF Touches, Doing
  <2>2. todo[t] \in Seq(Updates) BY <1>2, FirstCall
  <2>3. 1 \in 1 .. Len(todo[t]) /\ Head(todo[t]) = todo[t][1] BY <1>2, <2>2
  <2> QED BY <1>1, <2>1, <2>3 DEF Pending, PendIn
<1>10. StatsInv'
  <2> SUFFICES ASSUME NEW o \in Objects PROVE StatsOf(o)'
    BY DEF StatsInv
  <2>1. CASE o = b BY <1>9, <2>1 DEF StatsOf
  <2>2. CASE o # b
    <3>1. Pending(o) => Pending(o)' BY <1>1 DEF Pending
    <3> QED BY <1>1, <1>5, <2>2, <3>1, StatsQuiet DEF ReportInv, StatsInv
  <2> QED BY <2>1, <2>2
<1>11. BusyInv' /\ PropsInv' BY <1>1 DEF ReportInv, BusyInv, PropsInv
<1> QED BY <1>7, <1>8, <1>10, <1>11 DEF ReportInv

\* Its counters are set to 0.
LEMMA ClearKeeps == ASSUME ReportInv, NEW t \in Threads, Clear(t), UNCHANGED call PROVE ReportInv'
<1>2. todo[t] # <<>> BY DEF Clear, Doing
<1>3. PICK b \in Objects : b = Head(todo[t]).obj BY <1>2, FirstCall
<1>1. /\ Doing(t, "count") /\ slot' = [slot EXCEPT ![b][t] = Zeros(b)]
      /\ UNCHANGED <<gauge, props, instChanged, configChanged, sent, sentProps, agent, reports, todo>>
  BY <1>3 DEF Clear
<1>4. DOMAIN slot = Objects /\ \A o \in Objects : slot[o] \in [Threads -> Slots(o)] BY DEF ReportInv, Types
<1>5. /\ slot'[b] = [slot[b] EXCEPT ![t] = Zeros(b)] /\ DOMAIN slot' = Objects
      /\ \A o \in Objects : o # b => slot'[o] = slot[o]
  BY <1>1, <1>3, <1>4
<1>6. Zeros(b) \in [Counters[b] -> 0 .. Words - 1]
  BY WordsAre DEF Zeros
<1>6a. \A o \in Objects : slot'[o] \in [Threads -> Slots(o)]
  <2>1. slot'[b] \in [Threads -> Slots(b)] BY <1>3, <1>4, <1>5, <1>6 DEF Slots
  <2> QED BY <1>4, <1>5, <2>1
<1>7. Types' BY <1>1, <1>5, <1>6a DEF ReportInv, Types
<1>8. RawInv'
  <2> SUFFICES ASSUME NEW o \in Objects, NEW u \in Threads, slot'[o][u] = RawSlot
               PROVE Doing(u, "count")' /\ Head(todo'[u]).obj = o
    BY DEF RawInv
  <2>1. CASE o = b /\ u = t BY <1>3, <1>4, <1>5, <1>6, <2>1, SlotsAssumption
  <2>2. CASE ~(o = b /\ u = t)
    <3>1. slot[o][u] = RawSlot BY <1>3, <1>4, <1>5, <2>2
    <3> QED BY <1>1, <3>1 DEF ReportInv, RawInv, Doing
  <2> QED BY <2>1, <2>2
<1>9. Pending(b)'
  <2>1. Touches(Head(todo[t]), b) BY <1>1, <1>3 DEF Touches, Doing
  <2>2. todo[t] \in Seq(Updates) BY <1>2, FirstCall
  <2>3. 1 \in 1 .. Len(todo[t]) /\ Head(todo[t]) = todo[t][1] BY <1>2, <2>2
  <2> QED BY <1>1, <2>1, <2>3 DEF Pending, PendIn
<1>10. StatsInv'
  <2> SUFFICES ASSUME NEW o \in Objects PROVE StatsOf(o)'
    BY DEF StatsInv
  <2>1. CASE o = b BY <1>9, <2>1 DEF StatsOf
  <2>2. CASE o # b
    <3>1. Pending(o) => Pending(o)' BY <1>1 DEF Pending
    <3> QED BY <1>1, <1>5, <2>2, <3>1, StatsQuiet DEF ReportInv, StatsInv
  <2> QED BY <2>1, <2>2
<1>11. BusyInv' /\ PropsInv' BY <1>1 DEF ReportInv, BusyInv, PropsInv
<1> QED BY <1>7, <1>8, <1>10, <1>11 DEF ReportInv

\* The list of a thread that has counted: its flag is still to be set.
LEMMA CountKeeps == ASSUME ReportInv, NEW t \in Threads, Count(t), UNCHANGED call PROVE ReportInv'
<1> DEFINE h == Head(todo[t])
<1>2. todo[t] # <<>> BY DEF Count, Doing
<1>3. PICK b \in Objects : b = h.obj /\ h \in Updates /\ Tail(todo[t]) \in Seq(Updates) BY <1>2, FirstCall
<1> DEFINE s == <<Mark(b)>> \o Tail(todo[t])
           new == [slot[b][t] EXCEPT ![h.what] = Wrap(slot[b][t][h.what] + h.by)]
<1>1. /\ Doing(t, "count") /\ HasSlot(b, t) /\ slot' = [slot EXCEPT ![b][t] = new]
      /\ todo' = [todo EXCEPT ![t] = s]
      /\ UNCHANGED <<gauge, props, instChanged, configChanged, sent, sentProps, agent, reports>>
  BY <1>3 DEF Count
<1>4. DOMAIN slot = Objects /\ \A o \in Objects : slot[o] \in [Threads -> Slots(o)] BY DEF ReportInv, Types
<1>5. Mark(b) \in Updates
  <2>1. \E w : w \in Names BY DEF Names
  <2> QED BY <1>3, <2>1, ListTypes
<1>6. s \in Seq(Updates) /\ s # <<>> /\ s[1] = Mark(b) /\ 1 \in 1 .. Len(s) BY <1>3, <1>5
<1>7. new \in [Counters[b] -> 0 .. Words - 1]
  <2>1. slot[b][t] \in [Counters[b] -> 0 .. Words - 1] BY <1>1, <1>3, SlotKinds DEF ReportInv
  <2>2. h.what \in Counters[b] => Wrap(slot[b][t][h.what] + h.by) \in 0 .. Words - 1
    <3>1. h.by \in Int BY <1>3 DEF Updates
    <3>2. Words \in Nat BY WordsAre
    <3> HIDE DEF h
    <3>3. h.what \in Counters[b] => slot[b][t][h.what] + h.by \in Int BY <2>1, <3>1, <3>2
    <3> QED BY <3>3, WrapRange
  <2> HIDE DEF h
  <2> QED BY <2>1, <2>2
<1> HIDE DEF h, s, new
<1>8. /\ slot'[b] = [slot[b] EXCEPT ![t] = new] /\ DOMAIN slot' = Objects
      /\ \A o \in Objects : o # b => slot'[o] = slot[o]
  BY <1>1, <1>3, <1>4
<1>9. \A o \in Objects : slot'[o] \in [Threads -> Slots(o)]
  <2>1. slot'[b] \in [Threads -> Slots(b)] BY <1>3, <1>4, <1>7, <1>8 DEF Slots
  <2> QED BY <1>4, <1>8, <2>1
<1>10. Types' BY <1>1, <1>6, <1>8, <1>9 DEF ReportInv, Types
<1>11. DOMAIN todo = Threads BY DEF ReportInv, Types
<1>12. RawInv'
  <2> SUFFICES ASSUME NEW o \in Objects, NEW u \in Threads, slot'[o][u] = RawSlot
               PROVE Doing(u, "count")' /\ Head(todo'[u]).obj = o
    BY DEF RawInv
  <2>1. ~(o = b /\ u = t) BY <1>3, <1>4, <1>7, <1>8, SlotsAssumption
  <2>2. slot[o][u] = RawSlot BY <1>3, <1>4, <1>8, <2>1
  <2>3. Doing(u, "count") /\ Head(todo[u]).obj = o BY <2>2 DEF ReportInv, RawInv
  <2>4. u # t
    <3>1. u = t => o = b BY <1>3, <2>3 DEF h
    <3> QED BY <2>1, <3>1
  <2>5. todo'[u] = todo[u] BY <1>1, <1>11, <2>4
  <2> QED BY <2>3, <2>5 DEF Doing
<1>13. Pending(b)'
  <2>1. Touches(Mark(b), b) BY DEF Touches, Mark
  <2>2. todo'[t] = s BY <1>1, <1>11
  <2> QED BY <1>6, <2>1, <2>2 DEF Pending, PendIn
<1>14. StatsInv'
  <2> SUFFICES ASSUME NEW o \in Objects PROVE StatsOf(o)'
    BY DEF StatsInv
  <2>1. CASE o = b BY <1>13, <2>1 DEF StatsOf
  <2>2. CASE o # b
    <3>1. Pending(o) => Pending(o)'
      <4> SUFFICES ASSUME NEW u \in Threads, PendIn(todo[u], o) PROVE Pending(o)'
        BY DEF Pending
      <4>1. CASE u # t
        <5>1. todo'[u] = todo[u] BY <1>1, <1>11, <4>1
        <5> QED BY <5>1 DEF Pending
      <4>2. CASE u = t
        <5>1. ~Touches(Head(todo[t]), o) BY <1>3, <2>2 DEF Touches, h
        <5>2. PendIn(Tail(todo[t]), o) BY <1>2, <4>2, <5>1, PendHead, FirstCall
        <5>3. PICK i \in 1 .. Len(Tail(todo[t])) : Touches(Tail(todo[t])[i], o) BY <5>2 DEF PendIn
        <5>4. i + 1 \in 1 .. Len(s) /\ s[i + 1] = Tail(todo[t])[i] BY <1>3, <1>5 DEF s
        <5>5. todo'[t] = s BY <1>1, <1>11
        <5> QED BY <5>3, <5>4, <5>5 DEF Pending, PendIn
      <4> QED BY <4>1, <4>2
    <3> QED BY <1>1, <1>8, <2>2, <3>1, StatsQuiet DEF ReportInv, StatsInv
  <2> QED BY <2>1, <2>2
<1>15. BusyInv'
  <2> SUFFICES ASSUME NEW u \in Threads, todo'[u] # <<>> PROVE call'[u].op \in {"counting", "initialize"}
    BY DEF BusyInv
  <2>1. todo[u] # <<>> BY <1>1, <1>2, <1>11
  <2> QED BY <2>1 DEF ReportInv, BusyInv
<1>16. PropsInv' BY <1>1 DEF ReportInv, PropsInv
<1> QED BY <1>10, <1>12, <1>14, <1>15, <1>16 DEF ReportInv

\* Calls that leave the slots and the report under way.
LEMMA DoneKeeps ==
    ASSUME ReportInv, NEW t \in Threads, todo[t] # <<>>, ~Doing(t, "count"), Done(t),
           UNCHANGED <<slot, agent, call, sent, sentProps>>,
           NEW b \in Objects, b = Head(todo[t]).obj, Head(todo[t]).kind = "mark" => instChanged'[b],
           \A o \in Objects : o # b => gauge'[o] = gauge[o] /\ props'[o] = props[o],
           gauge'[b] = gauge[b] \/ instChanged'[b], props'[b] = props[b] \/ configChanged'[b],
           DOMAIN gauge' = Objects, DOMAIN props' = Objects,
           instChanged' \in [Objects -> BOOLEAN], configChanged' \in [Objects -> BOOLEAN],
           \A o \in Objects : o # b => instChanged'[o] = instChanged[o] /\ configChanged'[o] = configChanged[o],
           instChanged'[b] = instChanged[b] \/ instChanged'[b],
           configChanged'[b] = configChanged[b] \/ configChanged'[b]
    PROVE  ReportInv'
<1>1. todo' = [todo EXCEPT ![t] = Tail(todo[t])] /\ Tail(todo[t]) \in Seq(Updates) /\ DOMAIN todo = Threads
  BY FirstCall DEF Done
<1>2. Types' BY <1>1 DEF ReportInv, Types
<1>3. RawInv' BY <1>1, DoneRaw
<1>4. BusyInv'
  <2> SUFFICES ASSUME NEW u \in Threads, todo'[u] # <<>> PROVE call'[u].op \in {"counting", "initialize"}
    BY DEF BusyInv
  <2>1. todo[u] # <<>> BY <1>1
  <2> QED BY <2>1 DEF ReportInv, BusyInv
<1>5. StatsInv'
  <2> SUFFICES ASSUME NEW o \in Objects, ~instChanged'[o] PROVE StatsOf(o)'
    BY DEF StatsInv, StatsOf
  <2>1. slot'[o] = slot[o] /\ sent'[o] = sent[o] /\ agent' = agent OBVIOUS
  <2>2. gauge'[o] = gauge[o] /\ instChanged'[o] = instChanged[o] BY DEF ReportInv, Types
  <2>3. ~Touches(Head(todo[t]), o)
    <3>1. Head(todo[t]).kind # "count" BY DEF Doing
    <3> QED BY <3>1 DEF Touches
  <2>4. Pending(o) => Pending(o)' BY <2>3, DonePending
  <2> QED BY <2>1, <2>2, <2>4, StatsQuiet DEF ReportInv, StatsInv
<1>6. PropsInv' BY DEF ReportInv, PropsInv, Types
<1> QED BY <1>2, <1>3, <1>4, <1>5, <1>6 DEF ReportInv

\* The flag goes up.
LEMMA MarkKeeps == ASSUME ReportInv, NEW t \in Threads, MarkChanged(t), UNCHANGED call PROVE ReportInv'
<1>1. todo[t] # <<>> /\ Head(todo[t]).kind = "mark" /\ ~Doing(t, "count") BY DEF MarkChanged, Doing
<1>2. PICK b \in Objects : b = Head(todo[t]).obj BY <1>1, FirstCall
<1>3. /\ instChanged' = [instChanged EXCEPT ![b] = TRUE] /\ Done(t)
      /\ UNCHANGED <<slot, gauge, props, configChanged, sent, sentProps, agent, reports>>
  BY <1>2 DEF MarkChanged
<1>4. instChanged \in [Objects -> BOOLEAN] /\ configChanged \in [Objects -> BOOLEAN] /\ DOMAIN gauge = Objects /\ DOMAIN props = Objects
  BY DEF ReportInv, Types
<1>5. instChanged' \in [Objects -> BOOLEAN] /\ instChanged'[b] /\ \A o \in Objects : o # b => instChanged'[o] = instChanged[o]
  BY <1>3, <1>4
<1> QED BY <1>1, <1>2, <1>3, <1>4, <1>5, DoneKeeps

\* A gauge moves, and the flag with it.
LEMMA MoveKeeps == ASSUME ReportInv, NEW t \in Threads, Move(t), UNCHANGED call PROVE ReportInv'
<1>1. todo[t] # <<>> /\ Head(todo[t]).kind = "gauge" /\ ~Doing(t, "count") BY DEF Move, Doing
<1>2. PICK b \in Objects : b = Head(todo[t]).obj BY <1>1, FirstCall
<1> DEFINE h == Head(todo[t])
           new == [gauge[b] EXCEPT ![h.what] = Moved(gauge[b][h.what], h.by)]
<1>3. /\ gauge' = [gauge EXCEPT ![b] = new]
      /\ instChanged' = [instChanged EXCEPT ![b] = TRUE] /\ Done(t)
      /\ UNCHANGED <<slot, props, configChanged, sent, sentProps, agent, reports>>
  BY <1>2 DEF Move
<1> HIDE DEF new
<1>4. instChanged \in [Objects -> BOOLEAN] /\ configChanged \in [Objects -> BOOLEAN] /\ DOMAIN gauge = Objects /\ DOMAIN props = Objects
  BY DEF ReportInv, Types
<1>5. instChanged' \in [Objects -> BOOLEAN] /\ instChanged'[b] /\ \A o \in Objects : o # b => instChanged'[o] = instChanged[o]
  BY <1>3, <1>4
<1>6. DOMAIN gauge' = Objects /\ \A o \in Objects : o # b => gauge'[o] = gauge[o] BY <1>3, <1>4
<1>7. /\ UNCHANGED <<slot, agent, call, sent, sentProps>> /\ props' = props /\ configChanged' = configChanged
      /\ Head(todo[t]).kind # "mark" /\ Done(t)
  BY <1>1, <1>3
<1> HIDE DEF h
<1> QED BY <1>1, <1>2, <1>4, <1>5, <1>6, <1>7, DoneKeeps

\* A property is set, and its flag.
LEMMA SetKeeps == ASSUME ReportInv, NEW t \in Threads, Set(t), UNCHANGED call PROVE ReportInv'
<1>1. todo[t] # <<>> /\ Head(todo[t]).kind = "prop" /\ ~Doing(t, "count") BY DEF Set, Doing
<1>2. PICK b \in Objects : b = Head(todo[t]).obj BY <1>1, FirstCall
<1> DEFINE new == props[b] \cup {Head(todo[t]).what}
<1>3. /\ props' = [props EXCEPT ![b] = new]
      /\ configChanged' = [configChanged EXCEPT ![b] = TRUE] /\ Done(t)
      /\ UNCHANGED <<slot, gauge, instChanged, sent, sentProps, agent, reports>>
  BY <1>2 DEF Set
<1> HIDE DEF new
<1>4. instChanged \in [Objects -> BOOLEAN] /\ configChanged \in [Objects -> BOOLEAN] /\ DOMAIN gauge = Objects /\ DOMAIN props = Objects
  BY DEF ReportInv, Types
<1>5. configChanged' \in [Objects -> BOOLEAN] /\ configChanged'[b] /\ \A o \in Objects : o # b => configChanged'[o] = configChanged[o]
  BY <1>3, <1>4
<1>6. DOMAIN props' = Objects /\ \A o \in Objects : o # b => props'[o] = props[o] BY <1>3, <1>4
<1>7. /\ UNCHANGED <<slot, agent, call, sent, sentProps>> /\ gauge' = gauge /\ instChanged' = instChanged
      /\ Head(todo[t]).kind # "mark" /\ Done(t)
  BY <1>1, <1>3
<1> QED BY <1>1, <1>2, <1>4, <1>5, <1>6, <1>7, DoneKeeps

-----------------------------------------------------------------------------
(* The agent's reports.                                                    *)

\* A set of threads has a least one, and it is one of them.
LEMMA MinIn == ASSUME NEW S \in SUBSET Nat, S # {} PROVE Min(S) \in S
<1> DEFINE Less == OpToRel(<, Nat)
<1>1. \A a, b \in Nat : <<a, b>> \in Less <=> a < b BY DEF OpToRel
<1>2. IsWellFoundedOn(Less, Nat) BY NatLessThanWellFounded
<1> HIDE DEF Less
<1>3. PICK k \in S : \A b \in S : ~(<<b, k>> \in Less) BY <1>2, WFMin
<1>4. \A b \in S : k <= b
  <2> TAKE b \in S
  <2>1. k \in Nat /\ b \in Nat /\ ~(b < k) BY <1>1, <1>3
  <2> QED BY <2>1
<1> QED BY <1>4 DEF Min

\* What a step of a report leaves alone: lists, objects' values and the calls.
LEMMA ReportFrame ==
    ASSUME ReportInv, UNCHANGED <<todo, call, slot>>
    PROVE  RawInv' /\ BusyInv' /\ \A o \in Objects : (Pending(o) <=> Pending(o)') /\ \A c : Vals(o, c)' = Vals(o, c)
BY DEF ReportInv, RawInv, BusyInv, Doing, Pending, Vals, HasSlot

\* The properties are reported.
LEMMA PropertiesKeep ==
    ASSUME ReportInv, NEW o \in Objects, WriteProperties(o), UNCHANGED call
    PROVE  ReportInv'
<1>1. /\ configChanged' = [configChanged EXCEPT ![o] = FALSE]
      /\ sentProps' = [sentProps EXCEPT ![o] = props[o]]
      /\ UNCHANGED <<slot, gauge, props, instChanged, sent, agent, reports, todo>>
  BY DEF WriteProperties
<1>2. Types' BY <1>1 DEF ReportInv, Types
<1>3. PropsInv' BY <1>1 DEF ReportInv, Types, PropsInv
<1>4. RawInv' /\ BusyInv' /\ \A e \in Objects : Pending(e) <=> Pending(e)' BY <1>1, ReportFrame
<1>5. StatsInv'
  <2> SUFFICES ASSUME NEW e \in Objects PROVE StatsOf(e)'
    BY DEF StatsInv
  <2> QED BY <1>1, <1>4, StatsQuiet DEF ReportInv, StatsInv
<1> QED BY <1>2, <1>3, <1>4, <1>5 DEF ReportInv

\* A report begins: the flag goes down before any slot is read.
LEMMA StatisticsKeep ==
    ASSUME ReportInv, NEW o \in Objects, WriteStatistics(o), UNCHANGED call
    PROVE  ReportInv'
<1>1. /\ agent = NoReport
      /\ instChanged' = [instChanged EXCEPT ![o] = FALSE]
      /\ agent' = [obj |-> o, left |-> Threads, sums |-> Zeros(o)]
      /\ UNCHANGED <<slot, gauge, props, configChanged, sent, sentProps, todo>>
  BY DEF WriteStatistics
<1>2. agent.obj = NoObject /\ NoObject \notin Objects BY <1>1, ManagementAssumption DEF NoReport
<1>3. agent' \in ReportOf(o) BY <1>1, WordsAre DEF ReportOf, Zeros
<1>4. Types' BY <1>1, <1>3 DEF ReportInv, Types
<1>5. PropsInv' BY <1>1 DEF ReportInv, PropsInv
<1>6. RawInv' /\ BusyInv' /\ \A e \in Objects : Pending(e) <=> Pending(e)' BY <1>1, ReportFrame
<1>7. StatsInv'
  <2> SUFFICES ASSUME NEW e \in Objects PROVE StatsOf(e)'
    BY DEF StatsInv
  <2>1. CASE e = o
    <3>1. agent'.obj = e /\ agent'.left = Threads /\ agent'.sums = Zeros(e) BY <1>1, <2>1
    <3>2. SumsSoFar(e)'
      <4> SUFFICES ASSUME NEW c \in Counters[e]
                   PROVE agent'.sums[c] = Wrap(Sum(Vals(e, c)', Threads \ agent'.left))
        BY DEF SumsSoFar
      <4>1. Threads \ agent'.left = {} BY <3>1
      <4>2. Sum(Vals(e, c)', {}) = 0 BY SumEmpty
      <4>3. agent'.sums[c] = 0 BY <3>1 DEF Zeros
      <4> QED BY <4>1, <4>2, <4>3, WordsAre
    <3> QED BY <3>1, <3>2 DEF StatsOf
  <2>2. CASE e # o
    <3>1. agent.obj # e /\ agent'.obj # e BY <1>1, <1>2, <2>2
    <3>2. instChanged'[e] = instChanged[e] BY <1>1, <2>2 DEF ReportInv, Types
    <3> QED BY <1>1, <1>6, <3>1, <3>2, StatsQuiet DEF ReportInv, StatsInv
  <2> QED BY <2>1, <2>2
<1> QED BY <1>4, <1>5, <1>6, <1>7 DEF ReportInv

\* One more slot is summed up.
LEMMA AggregateKeeps == ASSUME ReportInv, AggregateSlot, UNCHANGED call PROVE ReportInv'
<1>1. agent # NoReport /\ agent.left # {} BY DEF AggregateSlot
<1>2. PICK o \in Objects : agent \in ReportOf(o) BY <1>1 DEF ReportInv, Types
<1>3. agent.obj = o /\ agent.left \in SUBSET Threads /\ agent.sums \in [Counters[o] -> 0 .. Words - 1]
  BY <1>2 DEF ReportOf
<1>4. PICK t \in Threads : t = Min(agent.left) /\ t \in agent.left BY <1>1, <1>3, MinIn, ThreadsAssumption
<1>5. PICK v \in SlotValues(o, t) :
        agent' = [agent EXCEPT !.left = @ \ {t}, !.sums = [c \in Counters[o] |-> Wrap(@[c] + v[c])]]
  BY <1>3, <1>4 DEF AggregateSlot
<1>6. UNCHANGED <<slot, gauge, props, instChanged, configChanged, sent, sentProps, reports, todo>>
  BY DEF AggregateSlot
<1>7. /\ agent'.obj = o /\ agent'.left = agent.left \ {t}
      /\ agent' = [obj |-> o, left |-> agent.left \ {t}, sums |-> [c \in Counters[o] |-> Wrap(agent.sums[c] + v[c])]]
  BY <1>2, <1>5 DEF ReportOf
<1>8. Words \in Nat /\ \A n \in 0 .. Words - 1 : n \in Int BY WordsAre
<1>9. \A c \in Counters[o] : v[c] \in Int
  <2>1. slot[o][t] \in Slots(o) BY SlotKinds DEF ReportInv
  <2>2. \A n \in Garbage : n \in 0 .. Words - 1 BY ManagementAssumption
  <2>3. CASE slot[o][t] = NoSlot
    <3>1. v = Zeros(o) BY <2>3, SlotsAssumption DEF SlotValues
    <3> QED BY <3>1 DEF Zeros
  <2>4. CASE slot[o][t] = RawSlot
    <3>1. v \in {[c \in Counters[o] |-> n] : n \in Garbage} BY <2>4, SlotsAssumption DEF SlotValues
    <3> QED BY <1>8, <2>2, <3>1
  <2>5. CASE slot[o][t] \notin {NoSlot, RawSlot}
    <3>1. v = slot[o][t] BY <2>5 DEF SlotValues
    <3>2. v \in [Counters[o] -> 0 .. Words - 1] BY <2>1, <2>5, <3>1 DEF Slots
    <3> QED BY <1>8, <3>2
  <2> QED BY <2>3, <2>4, <2>5
<1>10. agent' \in ReportOf(o)
  <2>1. \A c \in Counters[o] : Wrap(agent.sums[c] + v[c]) \in 0 .. Words - 1
    <3> TAKE c \in Counters[o]
    <3>1. agent.sums[c] + v[c] \in Int BY <1>3, <1>8, <1>9
    <3> QED BY <3>1, WrapRange
  <2> QED BY <1>3, <1>7, <2>1 DEF ReportOf
<1>11. Types' BY <1>6, <1>10 DEF ReportInv, Types
<1>12. PropsInv' BY <1>6 DEF ReportInv, PropsInv
<1>13. RawInv' /\ BusyInv' /\ \A e \in Objects : (Pending(e) <=> Pending(e)') /\ \A c : Vals(e, c)' = Vals(e, c)
  BY <1>6, ReportFrame
<1>14. StatsInv'
  <2> SUFFICES ASSUME NEW e \in Objects PROVE StatsOf(e)'
    BY DEF StatsInv
  <2>1. CASE e # o
    <3>1. agent.obj # e /\ agent'.obj # e BY <1>3, <1>7, <2>1
    <3> QED BY <1>6, <1>13, <3>1, StatsQuiet DEF ReportInv, StatsInv
  <2>2. CASE e = o
    <3> SUFFICES ASSUME ~instChanged'[o], ~Pending(o)', NEW c \in Counters[o]
                 PROVE agent'.sums[c] = Wrap(Sum(Vals(o, c)', Threads \ agent'.left))
      BY <1>7, <2>2 DEF StatsOf, SumsSoFar
    <3> DEFINE f == Vals(o, c)
               D == Threads \ agent.left
               E == Threads \ agent'.left
    <3>1. agent.sums[c] = Wrap(Sum(f, D))
      BY <1>3, <1>6, <1>13 DEF ReportInv, StatsInv, StatsOf, SumsSoFar
    <3>2. v[c] = f[t]
      <4>1. slot[o][t] # RawSlot
        <5>1. slot[o][t] = RawSlot => Pending(o)
          <6> SUFFICES ASSUME slot[o][t] = RawSlot PROVE Pending(o)
            OBVIOUS
          <6>1. Doing(t, "count") /\ Head(todo[t]).obj = o BY DEF ReportInv, RawInv
          <6>2. todo[t] \in Seq(Updates) /\ todo[t] # <<>> BY <6>1, FirstCall DEF Doing
          <6>3. Touches(todo[t][1], o) /\ 1 \in 1 .. Len(todo[t]) BY <6>1, <6>2 DEF Touches, Doing
          <6> QED BY <6>3 DEF Pending, PendIn
        <5> QED BY <1>13, <5>1
      <4>2. CASE slot[o][t] = NoSlot
        <5>1. v = Zeros(o) BY <4>2, SlotsAssumption DEF SlotValues
        <5> QED BY <4>2, <5>1 DEF Zeros, Vals, HasSlot
      <4>3. CASE slot[o][t] # NoSlot
        <5>1. v = slot[o][t] BY <4>1, <4>3 DEF SlotValues
        <5> QED BY <4>1, <4>3, <5>1 DEF Vals, HasSlot
      <4> QED BY <4>2, <4>3
    <3>3. IsFiniteSet(Threads) /\ D \in SUBSET Threads /\ E \in SUBSET Threads /\ t \in E /\ E \ {t} = D
      BY <1>3, <1>4, <1>7, ThreadsAssumption
    <3>4. \A u \in Threads : f[u] \in Int BY ValsInt DEF ReportInv
    <3>5. agent'.sums[c] = Wrap(agent.sums[c] + v[c]) BY <1>7
    <3>6. Vals(o, c)' = f BY <1>13
    <3> HIDE DEF f, D, E
    <3>7. Sum(f, E) = f[t] + Sum(f, D) /\ Sum(f, D) \in Int
      <4>1. \A T \in SUBSET Threads : Sum(f, T) \in Int /\ \A u \in T : Sum(f, T) = f[u] + Sum(f, T \ {u})
        BY <3>3, <3>4, SumRemove
      <4> QED BY <3>3, <4>1
    <3>8. agent'.sums[c] = Wrap(Wrap(Sum(f, D)) + f[t]) BY <3>1, <3>2, <3>5
    <3>9. f[t] \in Int BY <3>4
    <3>10. Wrap(Wrap(Sum(f, D)) + f[t]) = Wrap(Sum(f, D) + f[t]) BY <3>7, <3>9, WrapAdd
    <3>11. Sum(f, D) + f[t] = Sum(f, E) BY <3>7, <3>9
    <3> QED BY <3>6, <3>8, <3>10, <3>11 DEF E
  <2> QED BY <2>1, <2>2
<1> QED BY <1>11, <1>12, <1>13, <1>14 DEF ReportInv

\* The report goes out: with the flag still down it says all there is.
LEMMA SendKeeps == ASSUME ReportInv, Send, UNCHANGED call PROVE ReportInv'
<1>1. agent # NoReport /\ agent.left = {} BY DEF Send
<1>2. PICK o \in Objects : agent \in ReportOf(o) BY <1>1 DEF ReportInv, Types
<1>3. agent.obj = o BY <1>2 DEF ReportOf
<1> DEFINE rec == [sums |-> agent.sums, gauge |-> gauge[o]]
           new == [g \in Gauges[o] |-> Restarted(gauge[o][g])]
<1>4. /\ sent' = [sent EXCEPT ![o] = rec] /\ gauge' = [gauge EXCEPT ![o] = new]
      /\ instChanged' = instChanged /\ agent' = NoReport
      /\ UNCHANGED <<slot, props, configChanged, sentProps, reports, todo>>
  BY <1>3 DEF Send, FlagAtEnd
<1>5. DOMAIN sent = Objects /\ DOMAIN gauge = Objects BY DEF ReportInv, Types
<1>6. /\ sent'[o] = rec /\ gauge'[o] = new /\ DOMAIN sent' = Objects /\ DOMAIN gauge' = Objects
      /\ \A e \in Objects : e # o => sent'[e] = sent[e] /\ gauge'[e] = gauge[e]
  BY <1>4, <1>5
<1>7. Types' BY <1>4, <1>6 DEF ReportInv, Types
<1>8. PropsInv' BY <1>4 DEF ReportInv, PropsInv
<1>9. RawInv' /\ BusyInv' /\ \A e \in Objects : (Pending(e) <=> Pending(e)') /\ \A c : Vals(e, c)' = Vals(e, c)
  BY <1>4, ReportFrame
<1>10. agent'.obj \notin Objects BY <1>4, ManagementAssumption DEF NoReport
<1>11. StatsInv'
  <2> SUFFICES ASSUME NEW e \in Objects PROVE StatsOf(e)'
    BY DEF StatsInv
  <2>1. CASE e # o
    <3>1. agent.obj # e /\ agent'.obj # e BY <1>3, <1>10, <2>1
    <3> QED BY <1>4, <1>6, <1>9, <2>1, <3>1, StatsQuiet DEF ReportInv, StatsInv
  <2>2. CASE e = o
    <3> SUFFICES ASSUME ~instChanged'[o], ~Pending(o)' PROVE SaysAll(o)'
      BY <1>10, <2>2 DEF StatsOf
    <3>1. SumsSoFar(o) BY <1>3, <1>4, <1>9 DEF ReportInv, StatsInv, StatsOf
    <3>2. Threads \ agent.left = Threads BY <1>1
    <3>3. \A c \in Counters[o] : sent'[o].sums[c] = Wrap(Sum(Vals(o, c)', Threads))
      BY <1>6, <1>9, <3>1, <3>2 DEF SumsSoFar
    <3>4. ASSUME NEW g \in Gauges[o]
          PROVE sent'[o].gauge[g].val = gauge'[o][g].val /\ gauge'[o][g] = Restarted(gauge'[o][g])
      <4>1. gauge'[o][g] = Restarted(gauge[o][g]) /\ sent'[o].gauge[g] = gauge[o][g] BY <1>6
      <4> QED BY <4>1 DEF Restarted
    <3> QED BY <3>3, <3>4 DEF SaysAll
  <2> QED BY <2>1, <2>2
<1> QED BY <1>7, <1>8, <1>9, <1>11 DEF ReportInv

-----------------------------------------------------------------------------
\* Each step of a thread or of the agent keeps the invariant.
LEMMA ReportStep == ReportInv /\ [Next]_vars => ReportInv'
<1> SUFFICES ASSUME ReportInv, [Next]_vars PROVE ReportInv'
  OBVIOUS
<1>1. CASE UNCHANGED vars
  <2>1. UNCHANGED <<slot, gauge, props, instChanged, configChanged, sent, sentProps, agent, reports, todo, call>>
    BY <1>1 DEF vars, mvars, ivars
  <2>2. Types' BY <2>1 DEF ReportInv, Types
  <2>3. RawInv' /\ BusyInv' /\ \A e \in Objects : Pending(e) <=> Pending(e)' BY <2>1, ReportFrame
  <2>4. PropsInv' BY <2>1 DEF ReportInv, PropsInv
  <2>5. StatsInv'
    <3> SUFFICES ASSUME NEW e \in Objects PROVE StatsOf(e)'
      BY DEF StatsInv
    <3> QED BY <2>1, <2>3, StatsQuiet DEF ReportInv, StatsInv
  <2> QED BY <2>2, <2>3, <2>4, <2>5 DEF ReportInv
<1>2. ASSUME NEW t \in Threads, BrokerCall(t) PROVE ReportInv'
  <2>1. Loads(t) BY <1>2, CallsLoad DEF ReportInv
  <2> QED BY <2>1, LoadsKeepReports
<1>3. ASSUME NEW t \in Threads, Update(t), UNCHANGED <<jvars, ivars>> PROVE ReportInv'
  <2>1. UNCHANGED call BY <1>3 DEF ivars
  <2> QED BY <1>3, <2>1, PublishKeeps, ClearKeeps, CountKeeps, MarkKeeps, MoveKeeps, SetKeeps DEF Update
<1>4. ASSUME Report, UNCHANGED <<jvars, ivars>> PROVE ReportInv'
  <2>1. UNCHANGED call BY <1>4 DEF ivars
  <2> QED BY <1>4, <2>1, AggregateKeeps, SendKeeps, PropertiesKeep, StatisticsKeep DEF Report
<1> QED BY <1>1, <1>2, <1>3, <1>4 DEF Next, BrokerStep, BrokerCall

\* While an object's flag is down and none of its counters is being changed, the
\* report under way has the sums of the slots visited, and the last one everything.
THEOREM ReportAlways == Spec => []ReportInv
<1> QED BY ReportInit, ReportStep, PTL DEF Spec

\* No update is lost between the unlocked counting and the agent's reading of the
\* flag and the slots: a flag that is down means that the last report says it all.
THEOREM NothingUnreportedAlways == Spec => []NothingUnreported
<1>1. ReportInv => NothingUnreported
  <2> SUFFICES ASSUME ReportInv, NEW o \in Objects
               PROVE /\ (Idle /\ agent.obj # o /\ ~instChanged[o]) => SaysAll(o)
                     /\ (Idle /\ ~configChanged[o]) => sentProps[o] = props[o]
    BY TotalIs DEF NothingUnreported, SaysAll
  <2>1. Idle => ~Pending(o) BY DEF Idle, Pending, PendIn
  <2>2. (agent.obj # o /\ ~instChanged[o] /\ ~Pending(o)) => SaysAll(o) BY DEF ReportInv, StatsInv, StatsOf
  <2> QED BY <2>1, <2>2 DEF ReportInv, PropsInv
<1> QED BY <1>1, ReportAlways, PTL

-----------------------------------------------------------------------------
(* What the counters come to when all calls have been counted.             *)

GaugeVals == [val : 0 .. Words - 1, high : 0 .. Words - 1, low : 0 .. Words - 1]
GaugeInv == \A o \in Objects : gauge[o] \in [Gauges[o] -> GaugeVals]

\* A counter as it is in each thread's slot, with what the thread is about to add.
Bal(o, c) == [t \in Threads |-> Vals(o, c)[t] + Due(todo[t], "count", o, c)]
Counted(o, c) == Sum(Bal(o, c), Threads)

\* The same for a gauge.
Owed(o, g) == [t \in Threads |-> Due(todo[t], "gauge", o, g)]
Moving(o, g) == gauge[o][g].val + Sum(Owed(o, g), Threads)

\* The totals are integers.
LEMMA BalInt ==
    ASSUME Types, NEW o \in Objects, NEW c \in Counters[o]
    PROVE  (\A t \in Threads : Bal(o, c)[t] \in Int) /\ Counted(o, c) \in Int
<1>1. ASSUME NEW t \in Threads PROVE Bal(o, c)[t] \in Int
  <2>1. Vals(o, c)[t] \in Int BY ValsInt
  <2>2. todo[t] \in Seq(Updates) BY DEF Types
  <2>3. Due(todo[t], "count", o, c) \in Int BY <2>2, DueInt
  <2> QED BY <2>1, <2>3 DEF Bal
<1> DEFINE f == Bal(o, c)
           S == Threads
<1>2. IsFiniteSet(S) /\ \A t \in S : f[t] \in Int BY <1>1, ThreadsAssumption
<1> HIDE DEF f, S
<1>3. Sum(f, S) \in Int BY <1>2, SumRemove
<1> QED BY <1>1, <1>3 DEF Counted, f, S

\* The same for gauges.
LEMMA OwedInt ==
    ASSUME Types, GaugeInv, NEW o \in Objects, NEW g \in Gauges[o]
    PROVE  /\ \A t \in Threads : Owed(o, g)[t] \in Int
           /\ Sum(Owed(o, g), Threads) \in Int /\ gauge[o][g].val \in 0 .. Words - 1 /\ gauge[o][g].val \in Int
           /\ Moving(o, g) \in Int
<1>1. ASSUME NEW t \in Threads PROVE Owed(o, g)[t] \in Int
  <2>2. todo[t] \in Seq(Updates) BY DEF Types
  <2>3. Due(todo[t], "gauge", o, g) \in Int BY <2>2, DueInt
  <2> QED BY <2>3 DEF Owed
<1> DEFINE f == Owed(o, g)
           S == Threads
<1>2. IsFiniteSet(S) /\ \A t \in S : f[t] \in Int BY <1>1, ThreadsAssumption
<1> HIDE DEF f, S
<1>3. Sum(f, S) \in Int BY <1>2, SumRemove
<1>4. gauge[o][g].val \in 0 .. Words - 1 BY DEF GaugeInv, GaugeVals
<1>5. gauge[o][g].val \in Int BY <1>4, WordsAre
<1> QED BY <1>1, <1>3, <1>4, <1>5 DEF Moving, f, S

\* If each thread's part is unchanged, so is the whole.
LEMMA CountedQuiet ==
    ASSUME NEW o, NEW c, \A t \in Threads : Bal(o, c)'[t] = Bal(o, c)[t]
    PROVE  Counted(o, c)' = Counted(o, c)
<1> DEFINE f == Bal(o, c)
           h == Bal(o, c)'
           S == Threads
<1>1. IsFiniteSet(S) /\ \A t \in S : h[t] = f[t] BY ThreadsAssumption
<1>2. Counted(o, c)' = Sum(h, S) /\ Counted(o, c) = Sum(f, S) BY DEF Counted
<1> HIDE DEF f, h, S
<1> QED BY <1>1, <1>2, SumSame

\* With the words of gauges and of all parts of counters kept, the counts are.
CountsSame ==
    \A o \in Objects : /\ \A c \in Counters[o] : Wrap(Counted(o, c)') = Wrap(Counted(o, c))
                       /\ \A g \in Gauges[o] : Wrap(Moving(o, g)') = Wrap(Moving(o, g))

\* A step of thread t, by what it does to t's part of each value.
LEMMA CountedStep ==
    ASSUME Types, Types', NEW o \in Objects, NEW c \in Counters[o], NEW t \in Threads,
           \A u \in Threads : u # t => Bal(o, c)'[u] = Bal(o, c)[u]
    PROVE  /\ Counted(o, c)' = Counted(o, c) + (Bal(o, c)'[t] - Bal(o, c)[t])
           /\ Wrap(Bal(o, c)'[t]) = Wrap(Bal(o, c)[t]) => Wrap(Counted(o, c)') = Wrap(Counted(o, c))
<1> DEFINE f == Bal(o, c)
           h == Bal(o, c)'
           S == Threads
<1>1. \A u \in S : f[u] \in Int BY BalInt
<1>2. \A u \in S : h[u] \in Int
  <2>1. ASSUME NEW u \in Threads PROVE Bal(o, c)'[u] \in Int
    <3>1. Vals(o, c)'[u] \in Int
      <4>1. slot'[o][u] \in Slots(o) BY DEF Types
      <4>2. HasSlot(o, u)' => slot'[o][u][c] \in 0 .. Words - 1 BY <4>1 DEF Slots, HasSlot
      <4> QED BY <4>2, WordsAre DEF Vals
    <3>2. todo'[u] \in Seq(Updates) BY DEF Types
    <3>3. Due(todo'[u], "count", o, c) \in Int BY <3>2, DueInt
    <3> QED BY <3>1, <3>3 DEF Bal
  <2> QED BY <2>1
<1>3. IsFiniteSet(S) /\ t \in S BY ThreadsAssumption
<1>3a. \A u \in S \ {t} : h[u] = f[u] OBVIOUS
<1>4. Counted(o, c)' = Sum(h, S) /\ Counted(o, c) = Sum(f, S) BY DEF Counted
<1> HIDE DEF f, h, S
<1>5. \A u \in S : f[u] \in Int /\ h[u] \in Int BY <1>1, <1>2
<1>6. Sum(f, S) \in Int /\ Sum(h, S) = Sum(f, S) + (h[t] - f[t]) BY <1>3, <1>3a, <1>5, SumStep
<1>7. Wrap(h[t]) = Wrap(f[t]) => Wrap(Sum(h, S)) = Wrap(Sum(f, S)) BY <1>3, <1>3a, <1>5, SumWord
<1>8. Counted(o, c)' = Counted(o, c) + (h[t] - f[t]) BY <1>4, <1>6
<1>9. Wrap(h[t]) = Wrap(f[t]) => Wrap(Counted(o, c)') = Wrap(Counted(o, c)) BY <1>4, <1>7
<1> QED BY <1>8, <1>9 DEF f, h

\* The same for what is to be added to a gauge.
LEMMA OwedStep ==
    ASSUME Types, Types', NEW o \in Objects, NEW g, NEW t \in Threads,
           \A u \in Threads : u # t => todo'[u] = todo[u]
    PROVE  /\ Sum(Owed(o, g), Threads) \in Int
           /\ Sum(Owed(o, g)', Threads) =
                 Sum(Owed(o, g), Threads) + (Due(todo'[t], "gauge", o, g) - Due(todo[t], "gauge", o, g))
<1> DEFINE f == Owed(o, g)
           h == Owed(o, g)'
           S == Threads
<1>1. \A u \in S : f[u] = Due(todo[u], "gauge", o, g) /\ h[u] = Due(todo'[u], "gauge", o, g) BY DEF Owed
<1>2. \A u \in S : f[u] \in Int /\ h[u] \in Int
  <2> TAKE u \in S
  <2>1. todo[u] \in Seq(Updates) /\ todo'[u] \in Seq(Updates) BY DEF Types
  <2> QED BY <1>1, <2>1, DueInt
<1>3. IsFiniteSet(S) /\ t \in S BY ThreadsAssumption
<1>4. \A u \in S \ {t} : h[u] = f[u] BY <1>1
<1> HIDE DEF f, h, S
<1>5. Sum(f, S) \in Int /\ Sum(h, S) = Sum(f, S) + (h[t] - f[t]) BY <1>2, <1>3, <1>4, SumStep
<1>6. h[t] - f[t] = Due(todo'[t], "gauge", o, g) - Due(todo[t], "gauge", o, g) BY <1>1, <1>3
<1> QED BY <1>5, <1>6 DEF f, h, S

\* Calls of one kind do not count as the other; setting a flag counts nothing.
LEMMA MarkAmount == \A b, k, o, w : k # "mark" => Amount(Mark(b), k, o, w) = 0
BY DEF Amount, Mark

\* What is left to count after the first call of a list.
LEMMA DoneDue ==
    ASSUME ReportInv, NEW t \in Threads, todo[t] # <<>>, Done(t)
    PROVE  /\ \A u \in Threads : u # t => todo'[u] = todo[u]
           /\ \A k, o, w : /\ Due(todo'[t], k, o, w) = Due(todo[t], k, o, w) - Amount(Head(todo[t]), k, o, w)
                           /\ Amount(Head(todo[t]), k, o, w) \in Int /\ Due(todo'[t], k, o, w) \in Int
<1>1. todo' = [todo EXCEPT ![t] = Tail(todo[t])] BY DEF Done
<1>2. todo[t] \in Seq(Updates) /\ DOMAIN todo = Threads BY FirstCall
<1>3. todo'[t] = Tail(todo[t]) /\ \A u \in Threads : u # t => todo'[u] = todo[u] BY <1>1, <1>2
<1>4. ASSUME NEW k, NEW o, NEW w
      PROVE /\ Due(todo'[t], k, o, w) = Due(todo[t], k, o, w) - Amount(Head(todo[t]), k, o, w)
            /\ Amount(Head(todo[t]), k, o, w) \in Int /\ Due(todo'[t], k, o, w) \in Int
  <2> DEFINE s == todo[t]
  <2>1. s \in Seq(Updates) /\ s # <<>> BY <1>2
  <2> HIDE DEF s
  <2>2. Head(s) \in Updates /\ Tail(s) \in Seq(Updates) /\ Due(s, k, o, w) = Amount(Head(s), k, o, w) + Due(Tail(s), k, o, w)
    BY <2>1, DueHead
  <2>3. Due(Tail(s), k, o, w) \in Int /\ Amount(Head(s), k, o, w) \in Int BY <2>2, DueInt, AmountInt
  <2>4. Due(todo'[t], k, o, w) = Due(Tail(s), k, o, w) BY <1>3 DEF s
  <2>5. Due(Tail(s), k, o, w) = Due(s, k, o, w) - Amount(Head(s), k, o, w) BY <2>2, <2>3
  <2> QED BY <2>3, <2>4, <2>5 DEF s
<1> QED BY <1>3, <1>4

\* Nothing is counted by a step that leaves the lists and the values.
LEMMA QuietCounts ==
    ASSUME UNCHANGED todo, \A o \in Objects : \A c \in Counters[o] : Vals(o, c)' = Vals(o, c),
           \A o \in Objects : \A g \in Gauges[o] : gauge'[o][g].val = gauge[o][g].val
    PROVE  CountsSame
<1>1. ASSUME NEW o \in Objects, NEW c \in Counters[o] PROVE Counted(o, c)' = Counted(o, c)
  <2>1. \A t \in Threads : Bal(o, c)'[t] = Bal(o, c)[t] BY DEF Bal
  <2> QED BY <2>1, CountedQuiet
<1>2. ASSUME NEW o \in Objects, NEW g \in Gauges[o] PROVE Moving(o, g)' = Moving(o, g)
  <2>1. Owed(o, g)' = Owed(o, g) BY DEF Owed
  <2> QED BY <2>1 DEF Moving
<1> QED BY <1>1, <1>2 DEF CountsSame

\* A new slot counts as 0 before and after it is cleared.
LEMMA PublishCounts == ASSUME ReportInv, NEW t \in Threads, Publish(t) \/ Clear(t) PROVE CountsSame
<1>2. todo[t] # <<>> BY DEF Publish, Clear, Doing
<1>3. PICK b \in Objects : b = Head(todo[t]).obj BY <1>2, FirstCall
<1>4. DOMAIN slot = Objects /\ \A o \in Objects : slot[o] \in [Threads -> Slots(o)] BY DEF ReportInv, Types
<1>5. \E new \in {RawSlot, Zeros(b)} : slot' = [slot EXCEPT ![b][t] = new]
  BY <1>3 DEF Publish, Clear
<1>6. PICK new \in {RawSlot, Zeros(b)} : slot' = [slot EXCEPT ![b][t] = new] BY <1>5
<1>7. /\ slot'[b] = [slot[b] EXCEPT ![t] = new] /\ \A o \in Objects : o # b => slot'[o] = slot[o]
  BY <1>3, <1>4, <1>6
<1>8. slot[b][t] \in {NoSlot, RawSlot} /\ UNCHANGED <<todo, gauge>> BY <1>3 DEF Publish, Clear
<1>9. Zeros(b) \in [Counters[b] -> 0 .. Words - 1] BY WordsAre DEF Zeros
<1>10. Zeros(b) \notin {NoSlot, RawSlot} BY <1>9, SlotsAssumption
<1>11. ASSUME NEW o \in Objects, NEW c \in Counters[o] PROVE Vals(o, c)' = Vals(o, c)
  <2>1. CASE o # b BY <1>7, <2>1 DEF Vals, HasSlot
  <2>2. CASE o = b
    <3> SUFFICES ASSUME NEW u \in Threads
                 PROVE (IF HasSlot(b, u)' THEN slot'[b][u][c] ELSE 0) = (IF HasSlot(b, u) THEN slot[b][u][c] ELSE 0)
      BY <2>2 DEF Vals
    <3>1. CASE u # t
      <4>1. slot'[b][u] = slot[b][u] BY <1>4, <1>7, <3>1
      <4> QED BY <4>1 DEF HasSlot
    <3>2. CASE u = t
      <4>1. slot'[b][u] = new BY <1>4, <1>7, <3>2
      <4>2. ~HasSlot(b, u) BY <1>8, <3>2 DEF HasSlot
      <4>3. CASE new = RawSlot BY <4>1, <4>2, <4>3 DEF HasSlot
      <4>4. CASE new = Zeros(b)
        <5>1. slot'[b][u][c] = 0 BY <2>2, <4>1, <4>4 DEF Zeros
        <5> QED BY <4>2, <5>1
      <4> QED BY <4>3, <4>4
    <3> QED BY <3>1, <3>2
  <2> QED BY <2>1, <2>2
<1> QED BY <1>8, <1>11, QuietCounts

\* Counting moves a counter from what is due to the slot; a word may wrap.
LEMMA CountCounts == ASSUME ReportInv, ReportInv', NEW t \in Threads, Count(t) PROVE CountsSame
<1> DEFINE h == Head(todo[t])
<1>2. todo[t] # <<>> /\ h.kind = "count" BY DEF Count, Doing
<1>3. PICK b \in Objects : b = h.obj /\ h \in Updates /\ Tail(todo[t]) \in Seq(Updates) BY <1>2, FirstCall
<1> DEFINE r == Tail(todo[t])
           s == <<Mark(b)>> \o r
           new == [slot[b][t] EXCEPT ![h.what] = Wrap(slot[b][t][h.what] + h.by)]
<1>1. /\ HasSlot(b, t) /\ slot' = [slot EXCEPT ![b][t] = new]
      /\ todo' = [todo EXCEPT ![t] = s] /\ gauge' = gauge
  BY <1>3 DEF Count
<1>4. DOMAIN slot = Objects /\ (\A o \in Objects : slot[o] \in [Threads -> Slots(o)]) /\ DOMAIN todo = Threads
      /\ todo[t] \in Seq(Updates)
  BY DEF ReportInv, Types
<1>5. Mark(b) \in Updates
  <2>1. \E w : w \in Names BY DEF Names
  <2> QED BY <1>3, <2>1, ListTypes
<1>6. s \in Seq(Updates) /\ <<Mark(b)>> \in Seq(Updates) BY <1>3, <1>5
<1>7. slot[b][t] \in [Counters[b] -> 0 .. Words - 1] BY <1>1, <1>3, SlotKinds DEF ReportInv
<1>8. h.by \in Int BY <1>3 DEF Updates
<1>9. ASSUME NEW k, k # "mark", NEW o, NEW w
      PROVE /\ Due(s, k, o, w) = Due(todo[t], k, o, w) - Amount(h, k, o, w)
            /\ Due(todo[t], k, o, w) \in Int /\ Amount(h, k, o, w) \in Int
  <2> DEFINE m == <<Mark(b)>>
             d == todo[t]
  <2>1. m \in Seq(Updates) /\ r \in Seq(Updates) /\ d \in Seq(Updates) /\ d # <<>> BY <1>2, <1>3, <1>4, <1>6
  <2>2. Due(m, k, o, w) = 0 BY <1>5, <1>9, DueOne, MarkAmount
  <2>3. r = Tail(d) /\ h = Head(d) /\ s = m \o r OBVIOUS
  <2> HIDE DEF m, r, s, d, h
  <2>4. Due(m \o r, k, o, w) = Due(m, k, o, w) + Due(r, k, o, w) BY <2>1, DueConcat
  <2>5. Due(d, k, o, w) = Amount(h, k, o, w) + Due(r, k, o, w) BY <2>1, <2>3, DueHead
  <2>6. Due(r, k, o, w) \in Int /\ Due(d, k, o, w) \in Int /\ Amount(h, k, o, w) \in Int
    BY <1>3, <2>1, DueInt, AmountInt
  <2>7. Due(s, k, o, w) = Due(d, k, o, w) - Amount(h, k, o, w) BY <2>2, <2>3, <2>4, <2>5, <2>6
  <2> QED BY <2>6, <2>7 DEF d
<1>10. todo'[t] = s /\ \A u \in Threads : u # t => todo'[u] = todo[u] BY <1>1, <1>4
<1> HIDE DEF s, r
<1>11. /\ slot'[b] = [slot[b] EXCEPT ![t] = new] /\ \A o \in Objects : o # b => slot'[o] = slot[o]
  BY <1>1, <1>3, <1>4
<1>12. slot'[b][t] = new /\ \A u \in Threads : u # t => slot'[b][u] = slot[b][u] BY <1>4, <1>11
<1>13. HasSlot(b, t)'
  <2>2. new \in [Counters[b] -> 0 .. Words - 1]
    <3>2. \A c \in Counters[b] : c = h.what => Wrap(slot[b][t][h.what] + h.by) \in 0 .. Words - 1
      <4> TAKE c \in Counters[b]
      <4>1. c = h.what => slot[b][t][h.what] \in Int BY <1>7, WordsAre
      <4> HIDE DEF h
      <4>2. c = h.what => slot[b][t][h.what] + h.by \in Int BY <1>8, <4>1
      <4> QED BY <4>2, WrapRange
    <3> HIDE DEF h
    <3> QED BY <1>7, <3>2
  <2> HIDE DEF new
  <2> QED BY <1>12, <2>2, SlotsAssumption DEF HasSlot
<1>14. ASSUME NEW o \in Objects, NEW c \in Counters[o]
       PROVE Wrap(Counted(o, c)') = Wrap(Counted(o, c))
  <2>1. ASSUME NEW u \in Threads, u # t PROVE Bal(o, c)'[u] = Bal(o, c)[u]
    <3>1. slot'[o][u] = slot[o][u] BY <1>11, <1>12, <2>1
    <3> QED BY <1>10, <2>1, <3>1 DEF Bal, Vals, HasSlot
  <2>2. Wrap(Bal(o, c)'[t]) = Wrap(Bal(o, c)[t])
    <3> DEFINE d == Due(todo[t], "count", o, c)
               e == Due(s, "count", o, c)
               a == Amount(h, "count", o, c)
    <3>1. e = d - a /\ d \in Int /\ a \in Int BY <1>9
    <3>2. Bal(o, c)[t] = Vals(o, c)[t] + d /\ Bal(o, c)'[t] = Vals(o, c)'[t] + e BY <1>10 DEF Bal
    <3>3. CASE o = b /\ c = h.what
      <4> DEFINE x == slot[b][t][c]
      <4>1. x \in Int BY <1>7, <3>3, WordsAre
      <4>2. Vals(o, c)[t] = x BY <1>1, <3>3 DEF Vals
      <4>3. Vals(o, c)'[t] = Wrap(x + h.by)
        <5>1. new[c] = Wrap(x + h.by) BY <1>7, <3>3
        <5> HIDE DEF new, x
        <5> QED BY <1>12, <1>13, <3>3, <5>1 DEF Vals
      <4>4. a = h.by BY <1>2, <1>3, <3>3 DEF Amount
      <4> HIDE DEF x, d, e, a, h
      <4>5. Bal(o, c)'[t] = Wrap(x + a) + (d - a) BY <3>1, <3>2, <4>3, <4>4
      <4>6. Bal(o, c)[t] = (x + a) + (d - a) BY <3>1, <3>2, <4>1, <4>2
      <4>7. x + a \in Int /\ d - a \in Int BY <3>1, <4>1
      <4> QED BY <4>5, <4>6, <4>7, WrapAdd
    <3>4. CASE ~(o = b /\ c = h.what)
      <4>1. a = 0 BY <1>3, <3>4 DEF Amount
      <4>2. Vals(o, c)'[t] = Vals(o, c)[t]
        <5>1. CASE o # b BY <1>11, <5>1 DEF Vals, HasSlot
        <5>2. CASE o = b
          <6>1. slot'[o][t][c] = slot[o][t][c] BY <1>7, <1>12, <3>4, <5>2
          <6> QED BY <1>1, <1>13, <5>2, <6>1 DEF Vals
        <5> QED BY <5>1, <5>2
      <4> HIDE DEF d, e, a
      <4>3. e = d BY <3>1, <4>1
      <4> QED BY <3>2, <4>2, <4>3
    <3> QED BY <3>3, <3>4
  <2> QED BY <2>1, <2>2, CountedStep DEF ReportInv
<1>15. ASSUME NEW o \in Objects, NEW g \in Gauges[o] PROVE Moving(o, g)' = Moving(o, g)
  <2>1. Amount(h, "gauge", o, g) = 0 BY <1>2 DEF Amount
  <2> HIDE DEF h
  <2>2. Due(s, "gauge", o, g) = Due(todo[t], "gauge", o, g) BY <1>9, <2>1
  <2>3. Owed(o, g)' = Owed(o, g)
    <3>1. \A u \in Threads : Due(todo'[u], "gauge", o, g) = Due(todo[u], "gauge", o, g) BY <1>10, <2>2
    <3> QED BY <3>1 DEF Owed
  <2> QED BY <1>1, <2>3 DEF Moving
<1> QED BY <1>14, <1>15 DEF CountsSame

\* So does a gauge's call.
LEMMA MoveCounts ==
    ASSUME ReportInv, ReportInv', GaugeInv, NEW t \in Threads, Move(t)
    PROVE  CountsSame /\ GaugeInv'
<1> DEFINE h == Head(todo[t])
<1>1. todo[t] # <<>> /\ h.kind = "gauge" /\ Done(t) /\ slot' = slot BY DEF Move, Doing
<1>2. PICK b \in Objects : b = h.obj /\ h \in Updates BY <1>1, FirstCall
<1> DEFINE new == [gauge[b] EXCEPT ![h.what] = Moved(gauge[b][h.what], h.by)]
<1>3. gauge' = [gauge EXCEPT ![b] = new] BY <1>2 DEF Move
<1>4. DOMAIN gauge = Objects /\ gauge[b] \in [Gauges[b] -> GaugeVals] BY DEF ReportInv, Types, GaugeInv
<1>5. h.by \in Int BY <1>2 DEF Updates
<1>6. h.what \in Gauges[b] => Moved(gauge[b][h.what], h.by) \in GaugeVals
  <2> HIDE DEF h
  <2> SUFFICES ASSUME h.what \in Gauges[b] PROVE Moved(gauge[b][h.what], h.by) \in GaugeVals
    OBVIOUS
  <2> DEFINE x == gauge[b][h.what]
  <2>1. x \in GaugeVals BY <1>4
  <2>2. x.val \in Int /\ x.val \in 0 .. Words - 1 BY <2>1, WordsAre DEF GaugeVals
  <2>3. Wrap(x.val + h.by) \in 0 .. Words - 1
    <3> DEFINE n == x.val + h.by
    <3>1. n \in Int BY <1>5, <2>2
    <3> HIDE DEF n
    <3>2. Wrap(n) \in 0 .. Words - 1 BY <3>1, WrapRange
    <3> QED BY <3>2 DEF n
  <2> HIDE DEF x
  <2> QED BY <2>1, <2>3 DEF Moved, GaugeVals, x
<1> HIDE DEF h
<1>7. new \in [Gauges[b] -> GaugeVals] BY <1>4, <1>6
<1>8. h.what \in Gauges[b] => new[h.what].val = Wrap(gauge[b][h.what].val + h.by) BY <1>4 DEF Moved
<1>9. \A g \in Gauges[b] : g # h.what => new[g] = gauge[b][g] BY <1>4
<1> HIDE DEF new
<1>10. gauge'[b] = new /\ \A o \in Objects : o # b => gauge'[o] = gauge[o] BY <1>3, <1>4
<1>11. GaugeInv' BY <1>7, <1>10 DEF GaugeInv
<1>12. /\ \A u \in Threads : u # t => todo'[u] = todo[u]
       /\ \A k, o, w : /\ Due(todo'[t], k, o, w) = Due(todo[t], k, o, w) - Amount(h, k, o, w)
                       /\ Amount(h, k, o, w) \in Int /\ Due(todo'[t], k, o, w) \in Int
  BY <1>1, DoneDue DEF h
<1>13. ASSUME NEW o \in Objects, NEW c \in Counters[o] PROVE Counted(o, c)' = Counted(o, c)
  <2>1. Amount(h, "count", o, c) = 0 BY <1>1 DEF Amount
  <2>2. Due(todo'[t], "count", o, c) = Due(todo[t], "count", o, c)
    <3>1. todo[t] \in Seq(Updates) BY DEF ReportInv, Types
    <3>2. Due(todo[t], "count", o, c) \in Int BY <3>1, DueInt
    <3> QED BY <1>12, <2>1, <3>2
  <2>3. \A u \in Threads : Due(todo'[u], "count", o, c) = Due(todo[u], "count", o, c) BY <1>12, <2>2
  <2>4. Vals(o, c)' = Vals(o, c) BY <1>1 DEF Vals, HasSlot
  <2>5. \A u \in Threads : Bal(o, c)'[u] = Bal(o, c)[u] BY <2>3, <2>4 DEF Bal
  <2> QED BY <2>5, CountedQuiet
<1>14. ASSUME NEW o \in Objects, NEW g \in Gauges[o] PROVE Wrap(Moving(o, g)') = Wrap(Moving(o, g))
  <2> DEFINE d == Due(todo[t], "gauge", o, g)
             e == Due(todo'[t], "gauge", o, g)
             a == Amount(h, "gauge", o, g)
             S == Sum(Owed(o, g), Threads)
             T == Sum(Owed(o, g)', Threads)
  <2>1. S \in Int /\ T = S + (e - d) BY <1>12, OwedStep DEF ReportInv
  <2>2. todo[t] \in Seq(Updates) BY DEF ReportInv, Types
  <2>3. d \in Int BY <2>2, DueInt
  <2>4. e = d - a /\ a \in Int BY <1>12
  <2>5. Moving(o, g) = gauge[o][g].val + S /\ Moving(o, g)' = gauge'[o][g].val + T BY DEF Moving
  <2>6. gauge[o][g].val \in Int BY OwedInt DEF ReportInv
  <2> HIDE DEF d, e, S, T
  <2>7. CASE o = b /\ g = h.what
    <3> DEFINE x == gauge[o][g].val
    <3>1. a = h.by BY <1>1, <1>2, <2>7 DEF Amount, h
    <3>2. gauge'[o][g].val = Wrap(x + h.by) BY <1>8, <1>10, <2>7
    <3>3. x \in Int BY <2>6
    <3> HIDE DEF x, a
    <3>4. Moving(o, g)' = Wrap(x + a) + (S - a) BY <2>1, <2>3, <2>4, <2>5, <3>1, <3>2
    <3>5. Moving(o, g) = (x + a) + (S - a) BY <2>1, <2>4, <2>5, <3>3 DEF x
    <3>6. x + a \in Int /\ S - a \in Int BY <2>1, <2>4, <3>3
    <3> QED BY <3>4, <3>5, <3>6, WrapAdd
  <2>8. CASE ~(o = b /\ g = h.what)
    <3>1. a = 0 BY <1>2, <2>8 DEF Amount
    <3>2. gauge'[o][g] = gauge[o][g] BY <1>9, <1>10, <2>8
    <3> HIDE DEF a
    <3> QED BY <2>1, <2>3, <2>4, <2>5, <3>1, <3>2
  <2> QED BY <2>7, <2>8
<1> QED BY <1>11, <1>13, <1>14 DEF CountsSame

\* Setting a flag or a property counts nothing.
LEMMA OtherCounts ==
    ASSUME ReportInv, NEW t \in Threads, todo[t] # <<>>, Head(todo[t]).kind \in {"mark", "prop"}, Done(t),
           UNCHANGED <<slot, gauge>>
    PROVE  CountsSame
<1> DEFINE h == Head(todo[t])
<1>12. /\ \A u \in Threads : u # t => todo'[u] = todo[u]
       /\ \A k, o, w : /\ Due(todo'[t], k, o, w) = Due(todo[t], k, o, w) - Amount(h, k, o, w)
                       /\ Amount(h, k, o, w) \in Int /\ Due(todo'[t], k, o, w) \in Int
  BY DoneDue
<1>1. ASSUME NEW k \in {"count", "gauge"}, NEW o, NEW w, NEW u \in Threads
      PROVE Due(todo'[u], k, o, w) = Due(todo[u], k, o, w)
  <2>1. Amount(h, k, o, w) = 0 BY DEF Amount
  <2>2. todo[t] \in Seq(Updates) BY DEF ReportInv, Types
  <2>3. Due(todo[t], k, o, w) \in Int BY <2>2, DueInt
  <2> HIDE DEF h
  <2>4. Due(todo'[t], k, o, w) = Due(todo[t], k, o, w) BY <1>12, <2>1, <2>3
  <2> QED BY <1>12, <2>4
<1>2. ASSUME NEW o \in Objects, NEW c \in Counters[o] PROVE Counted(o, c)' = Counted(o, c)
  <2>1. Vals(o, c)' = Vals(o, c) BY DEF Vals, HasSlot
  <2>2. \A u \in Threads : Due(todo'[u], "count", o, c) = Due(todo[u], "count", o, c) BY <1>1
  <2>3. \A u \in Threads : Bal(o, c)'[u] = Bal(o, c)[u] BY <2>1, <2>2 DEF Bal
  <2> QED BY <2>3, CountedQuiet
<1>3. ASSUME NEW o \in Objects, NEW g \in Gauges[o] PROVE Moving(o, g)' = Moving(o, g)
  <2>1. \A u \in Threads : Due(todo'[u], "gauge", o, g) = Due(todo[u], "gauge", o, g) BY <1>1
  <2>2. Owed(o, g)' = Owed(o, g) BY <2>1 DEF Owed
  <2> QED BY <2>2 DEF Moving
<1> QED BY <1>2, <1>3 DEF CountsSame

\* A call made on an object moves what it adds from the list to the value, ...
LEMMA UpdateCounts ==
    ASSUME ReportInv, ReportInv', GaugeInv, NEW t \in Threads, Update(t)
    PROVE  CountsSame /\ GaugeInv'
<1>1. CASE Publish(t) \/ Clear(t)
  <2>1. gauge' = gauge BY <1>1 DEF Publish, Clear
  <2> QED BY <1>1, <2>1, PublishCounts DEF GaugeInv
<1>2. CASE Count(t)
  <2>1. gauge' = gauge BY <1>2 DEF Count
  <2> QED BY <1>2, <2>1, CountCounts DEF GaugeInv
<1>3. CASE Move(t) BY <1>3, MoveCounts
<1>4. CASE MarkChanged(t) \/ Set(t)
  <2>1. /\ todo[t] # <<>> /\ Head(todo[t]).kind \in {"mark", "prop"} /\ Done(t) /\ UNCHANGED <<slot, gauge>>
    BY <1>4 DEF MarkChanged, Set, Doing
  <2> QED BY <2>1, OtherCounts DEF GaugeInv
<1> QED BY <1>1, <1>2, <1>3, <1>4 DEF Update

\* ... and a report changes neither.
LEMMA ReportCounts ==
    ASSUME ReportInv, GaugeInv, Report
    PROVE  CountsSame /\ GaugeInv'
<1>1. UNCHANGED <<slot, todo>> BY DEF Report, AggregateSlot, Send, WriteProperties, WriteStatistics
<1>2. CASE Send
  <2>1. agent # NoReport BY <1>2 DEF Send
  <2>2. PICK o \in Objects : agent \in ReportOf(o) BY <2>1 DEF ReportInv, Types
  <2>3. agent.obj = o BY <2>2 DEF ReportOf
  <2> DEFINE new == [g \in Gauges[o] |-> Restarted(gauge[o][g])]
  <2>4. gauge' = [gauge EXCEPT ![o] = new] BY <1>2, <2>3 DEF Send
  <2>5. \A g \in Gauges[o] : new[g].val = gauge[o][g].val /\ new[g] \in GaugeVals
    BY DEF Restarted, GaugeInv, GaugeVals
  <2>6. new \in [Gauges[o] -> GaugeVals] BY <2>5
  <2> HIDE DEF new
  <2>7. DOMAIN gauge = Objects BY DEF ReportInv, Types
  <2>8. gauge'[o] = new /\ \A e \in Objects : e # o => gauge'[e] = gauge[e] BY <2>4, <2>7
  <2>9. GaugeInv' BY <2>6, <2>8 DEF GaugeInv
  <2>10. \A e \in Objects : \A g \in Gauges[e] : gauge'[e][g].val = gauge[e][g].val BY <2>5, <2>8
  <2>11. \A e \in Objects : \A c \in Counters[e] : Vals(e, c)' = Vals(e, c) BY <1>1 DEF Vals, HasSlot
  <2> QED BY <1>1, <2>9, <2>10, <2>11, QuietCounts
<1>3. CASE ~Send
  <2>1. UNCHANGED gauge BY <1>3 DEF Report, AggregateSlot, WriteProperties, WriteStatistics
  <2>2. \A e \in Objects : \A c \in Counters[e] : Vals(e, c)' = Vals(e, c) BY <1>1 DEF Vals, HasSlot
  <2> QED BY <1>1, <2>1, <2>2, QuietCounts DEF GaugeInv
<1> QED BY <1>2, <1>3

-----------------------------------------------------------------------------
(* What a call of the journal or a transaction makes its thread count.     *)

\* The numbers a list adds: to the open transactions, the records enqueued and
\* dequeued, the depths of journal and prepared list, and the transactions ended.
Adds(s, txn, enq, deq, depth, tpl, ends) ==
    /\ Due(s, "count", Journal, "txn") = txn
    /\ Due(s, "count", Journal, "enqueues") = enq
    /\ Due(s, "count", Journal, "dequeues") = deq
    /\ Due(s, "gauge", Journal, "recordDepth") = depth
    /\ Due(s, "gauge", Store, "tplTransactionDepth") = tpl
    /\ Due(s, "count", Store, "tplTxnCommits") + Due(s, "count", Store, "tplTxnAborts") = ends

\* Its numbers are those of its two parts together.
IsSum(z, s, r, k, o, w) ==
    /\ Due(z, k, o, w) = Due(s, k, o, w) + Due(r, k, o, w)
    /\ Due(s, k, o, w) \in Int /\ Due(r, k, o, w) \in Int
Sums(z, s, r) ==
    /\ IsSum(z, s, r, "count", Journal, "txn") /\ IsSum(z, s, r, "count", Journal, "enqueues")
    /\ IsSum(z, s, r, "count", Journal, "dequeues") /\ IsSum(z, s, r, "gauge", Journal, "recordDepth")
    /\ IsSum(z, s, r, "gauge", Store, "tplTransactionDepth")
    /\ IsSum(z, s, r, "count", Store, "tplTxnCommits") /\ IsSum(z, s, r, "count", Store, "tplTxnAborts")

\* Lists one behind the other.
LEMMA SumsJoin ==
    ASSUME NEW s \in Seq(Updates), NEW r \in Seq(Updates)
    PROVE  Sums(s \o r, s, r)
<1>1. \A k, o, w : Due(s \o r, k, o, w) = Due(s, k, o, w) + Due(r, k, o, w) BY DueConcat
<1>2. \A k, o, w : Due(s, k, o, w) \in Int /\ Due(r, k, o, w) \in Int BY DueInt
<1>3. \A k, o, w : IsSum(s \o r, s, r, k, o, w) BY <1>1, <1>2 DEF IsSum
<1> QED BY <1>3 DEF Sums

\* So their numbers add up.
LEMMA AddsJoin ==
  ASSUME NEW z, NEW a, NEW b, Sums(z, a, b),
  NEW a1 \in Int, NEW a2 \in Int, NEW a3 \in Int, NEW a4 \in Int, NEW a5 \in Int, NEW a6 \in Int,
  Adds(a, a1, a2, a3, a4, a5, a6),
  NEW b1 \in Int, NEW b2 \in Int, NEW b3 \in Int, NEW b4 \in Int, NEW b5 \in Int, NEW b6 \in Int,
  Adds(b, b1, b2, b3, b4, b5, b6)
  PROVE Adds(z, a1 + b1, a2 + b2, a3 + b3, a4 + b4, a5 + b5, a6 + b6)
<1>1. Due(z, "count", Journal, "txn") = a1 + b1 BY DEF Adds, IsSum, Sums
<1>2. Due(z, "count", Journal, "enqueues") = a2 + b2 BY DEF Adds, IsSum, Sums
<1>3. Due(z, "count", Journal, "dequeues") = a3 + b3 BY DEF Adds, IsSum, Sums
<1>4. Due(z, "gauge", Journal, "recordDepth") = a4 + b4 BY DEF Adds, IsSum, Sums
<1>5. Due(z, "gauge", Store, "tplTransactionDepth") = a5 + b5 BY DEF Adds, IsSum, Sums
<1>6. Due(z, "count", Store, "tplTxnCommits") + Due(z, "count", Store, "tplTxnAborts") = a6 + b6
  <2>1. Due(a, "count", Store, "tplTxnCommits") + Due(a, "count", Store, "tplTxnAborts") = a6
        /\ Due(b, "count", Store, "tplTxnCommits") + Due(b, "count", Store, "tplTxnAborts") = b6
    BY DEF Adds
  <2>2. \A o, w : IsSum(z, a, b, "count", o, w) => Due(z, "count", o, w) = Due(a, "count", o, w) + Due(b, "count", o, w)
                  /\ Due(a, "count", o, w) \in Int /\ Due(b, "count", o, w) \in Int BY DEF IsSum
  <2>3. IsSum(z, a, b, "count", Store, "tplTxnCommits") /\ IsSum(z, a, b, "count", Store, "tplTxnAborts") BY DEF Sums
  <2> QED BY <2>1, <2>2, <2>3
<1> QED BY <1>1, <1>2, <1>3, <1>4, <1>5, <1>6 DEF Adds

\* Two calls are one and another.
LEMMA PairIs == ASSUME NEW a, NEW b PROVE <<a, b>> = <<a>> \o <<b>>
<1>1. (<<a>> \o <<b>>) = Append(<<a>>, b) OBVIOUS
<1>2. <<a, b>> = Append(<<a>>, b) OBVIOUS
<1> QED BY <1>1, <1>2

\* No call.
LEMMA AddsNothing == Adds(<<>>, 0, 0, 0, 0, 0, 0)
BY DueEmpty DEF Adds

\* A single call.
LEMMA AddsOne ==
    ASSUME NEW u \in Updates
    PROVE  Adds(<<u>>, Amount(u, "count", Journal, "txn"), Amount(u, "count", Journal, "enqueues"),
                Amount(u, "count", Journal, "dequeues"), Amount(u, "gauge", Journal, "recordDepth"),
                Amount(u, "gauge", Store, "tplTransactionDepth"),
                Amount(u, "count", Store, "tplTxnCommits") + Amount(u, "count", Store, "tplTxnAborts"))
BY DueOne DEF Adds

\* The names of counters and gauges used below.
LEMMA StoreNames ==
    /\ Journal \in Objects /\ Store \in Objects /\ Journal # Store
    /\ "txn" \in Names /\ "enqueues" \in Names /\ "dequeues" \in Names /\ "txnEnqueues" \in Names
    /\ "txnDequeues" \in Names /\ "recordDepth" \in Names /\ "txnCommits" \in Names
    /\ "txnAborts" \in Names /\ "tplIsInitialized" \in Names /\ "tplTransactionDepth" \in Names
    /\ "tplTxnPrepares" \in Names /\ "tplTxnCommits" \in Names /\ "tplTxnAborts" \in Names
BY InstrumentedAssumption DEF Names, Journal, Store

\* The single calls the program makes.
LEMMA AddsCounts ==
    /\ Adds(<<Inc(Journal, "txn")>>, 1, 0, 0, 0, 0, 0)
    /\ Adds(<<Dec(Journal, "txn")>>, -1, 0, 0, 0, 0, 0)
    /\ Adds(<<Inc(Journal, "enqueues")>>, 0, 1, 0, 0, 0, 0)
    /\ Adds(<<Inc(Journal, "dequeues")>>, 0, 0, 1, 0, 0, 0)
    /\ Adds(<<Inc(Journal, "txnEnqueues")>>, 0, 0, 0, 0, 0, 0)
    /\ Adds(<<Inc(Journal, "txnDequeues")>>, 0, 0, 0, 0, 0, 0)
    /\ Adds(<<Inc(Journal, "txnCommits")>>, 0, 0, 0, 0, 0, 0)
    /\ Adds(<<Inc(Journal, "txnAborts")>>, 0, 0, 0, 0, 0, 0)
    /\ Adds(<<Up(Journal, "recordDepth")>>, 0, 0, 0, 1, 0, 0)
    /\ Adds(<<Down(Journal, "recordDepth")>>, 0, 0, 0, -1, 0, 0)
    /\ Adds(<<Up(Store, "tplTransactionDepth")>>, 0, 0, 0, 0, 1, 0)
    /\ Adds(<<Down(Store, "tplTransactionDepth")>>, 0, 0, 0, 0, -1, 0)
    /\ Adds(<<Inc(Store, "tplTxnPrepares")>>, 0, 0, 0, 0, 0, 0)
    /\ Adds(<<Inc(Store, "tplTxnCommits")>>, 0, 0, 0, 0, 0, 1)
    /\ Adds(<<Inc(Store, "tplTxnAborts")>>, 0, 0, 0, 0, 0, 1)
    /\ Adds(<<SetProp(Store, "tplIsInitialized")>>, 0, 0, 0, 0, 0, 0)
<1>0. \A o \in Objects : \A w \in Names, n \in Int :
          /\ Inc(o, w) \in Updates /\ Dec(o, w) \in Updates /\ Up(o, w) \in Updates
          /\ Down(o, w) \in Updates /\ SetProp(o, w) \in Updates
  BY ListTypes
<1>1. Adds(<<Inc(Journal, "txn")>>, 1, 0, 0, 0, 0, 0) BY <1>0, StoreNames, DueOne DEF Adds, Amount, Inc
<1>2. Adds(<<Dec(Journal, "txn")>>, -1, 0, 0, 0, 0, 0) BY <1>0, StoreNames, DueOne DEF Adds, Amount, Dec
<1>3. Adds(<<Inc(Journal, "enqueues")>>, 0, 1, 0, 0, 0, 0) BY <1>0, StoreNames, DueOne DEF Adds, Amount, Inc
<1>4. Adds(<<Inc(Journal, "dequeues")>>, 0, 0, 1, 0, 0, 0) BY <1>0, StoreNames, DueOne DEF Adds, Amount, Inc
<1>5. Adds(<<Inc(Journal, "txnEnqueues")>>, 0, 0, 0, 0, 0, 0) BY <1>0, StoreNames, DueOne DEF Adds, Amount, Inc
<1>6. Adds(<<Inc(Journal, "txnDequeues")>>, 0, 0, 0, 0, 0, 0) BY <1>0, StoreNames, DueOne DEF Adds, Amount, Inc
<1>7. Adds(<<Inc(Journal, "txnCommits")>>, 0, 0, 0, 0, 0, 0) BY <1>0, StoreNames, DueOne DEF Adds, Amount, Inc
<1>8. Adds(<<Inc(Journal, "txnAborts")>>, 0, 0, 0, 0, 0, 0) BY <1>0, StoreNames, DueOne DEF Adds, Amount, Inc
<1>9. Adds(<<Up(Journal, "recordDepth")>>, 0, 0, 0, 1, 0, 0) BY <1>0, StoreNames, DueOne DEF Adds, Amount, Up
<1>10. Adds(<<Down(Journal, "recordDepth")>>, 0, 0, 0, -1, 0, 0) BY <1>0, StoreNames, DueOne DEF Adds, Amount, Down
<1>11. Adds(<<Up(Store, "tplTransactionDepth")>>, 0, 0, 0, 0, 1, 0) BY <1>0, StoreNames, DueOne DEF Adds, Amount, Up
<1>12. Adds(<<Down(Store, "tplTransactionDepth")>>, 0, 0, 0, 0, -1, 0) BY <1>0, StoreNames, DueOne DEF Adds, Amount, Down
<1>13. Adds(<<Inc(Store, "tplTxnPrepares")>>, 0, 0, 0, 0, 0, 0) BY <1>0, StoreNames, DueOne DEF Adds, Amount, Inc
<1>14. Adds(<<Inc(Store, "tplTxnCommits")>>, 0, 0, 0, 0, 0, 1) BY <1>0, StoreNames, DueOne DEF Adds, Amount, Inc
<1>15. Adds(<<Inc(Store, "tplTxnAborts")>>, 0, 0, 0, 0, 0, 1) BY <1>0, StoreNames, DueOne DEF Adds, Amount, Inc
<1>16. Adds(<<SetProp(Store, "tplIsInitialized")>>, 0, 0, 0, 0, 0, 0) BY <1>0, StoreNames, DueOne DEF Adds, Amount, SetProp
<1> QED BY <1>1, <1>2, <1>3, <1>4, <1>5, <1>6, <1>7, <1>8, <1>9, <1>10, <1>11, <1>12, <1>13, <1>14, <1>15, <1>16

\* A call is a list of calls.
LEMMA UpdateLists ==
    \A o \in Objects : \A w \in Names, n \in Int :
        /\ <<Inc(o, w)>> \in Seq(Updates) /\ <<Dec(o, w)>> \in Seq(Updates) /\ <<Up(o, w)>> \in Seq(Updates)
        /\ <<Down(o, w)>> \in Seq(Updates) /\ <<SetProp(o, w)>> \in Seq(Updates)
        /\ <<Add(o, w, n)>> \in Seq(Updates) /\ <<Raise(o, w, n)>> \in Seq(Updates)
<1> TAKE o \in Objects
<1> TAKE w \in Names, n \in Int
<1>1. /\ Inc(o, w) \in Updates /\ Dec(o, w) \in Updates /\ Up(o, w) \in Updates
      /\ Down(o, w) \in Updates /\ SetProp(o, w) \in Updates
      /\ Add(o, w, n) \in Updates /\ Raise(o, w, n) \in Updates
  BY ListTypes
<1> QED BY <1>1

\* What the calls of the journal count: a transaction if it is new, ...
LEMMA AddsNewTxn ==
    ASSUME NEW c
    PROVE  Adds(NewTxn(c), IF c.x = {} \/ c.txn_incr THEN 0 ELSE 1, 0, 0, 0, 0, 0)
BY AddsNothing, AddsCounts DEF NewTxn

\* ... a record enqueued, ...
LEMMA AddsEnqueue ==
    ASSUME NEW c, NEW n \in {0, 1}, n = IF c.x = {} \/ c.txn_incr THEN 0 ELSE 1
    PROVE  EnqueueCounts(c) \in Seq(Updates) /\ Adds(EnqueueCounts(c), n, 1, 0, 1, 0, 0)
<1> DEFINE s1 == NewTxn(c)
           s2 == <<Inc(Journal, "enqueues")>>
           s3 == IF c.x = {} THEN <<>> ELSE <<Inc(Journal, "txnEnqueues")>>
           s4 == <<Up(Journal, "recordDepth")>>
           z2 == s1 \o s2
           z3 == z2 \o s3
           z4 == z3 \o s4
<1>0. n \in Int OBVIOUS
<1>1. s1 \in Seq(Updates) /\ Adds(s1, n, 0, 0, 0, 0, 0) BY ListTypes, AddsNewTxn
<1>2. s2 \in Seq(Updates) /\ Adds(s2, 0, 1, 0, 0, 0, 0) BY UpdateLists, StoreNames, AddsCounts
<1>3. s3 \in Seq(Updates) /\ Adds(s3, 0, 0, 0, 0, 0, 0) BY UpdateLists, StoreNames, AddsCounts, AddsNothing
<1>4. s4 \in Seq(Updates) /\ Adds(s4, 0, 0, 0, 1, 0, 0) BY UpdateLists, StoreNames, AddsCounts
<1>5. EnqueueCounts(c) = z4 BY <1>1, <1>2, <1>3, <1>4 DEF EnqueueCounts
<1> HIDE DEF s1, s2, s3, s4
<1>6. z2 = s1 \o s2 /\ z3 = z2 \o s3 /\ z4 = z3 \o s4 OBVIOUS
<1> HIDE DEF z2, z3, z4
<1>7. z2 \in Seq(Updates) /\ Adds(z2, n, 1, 0, 0, 0, 0)
  <2>1. s1 \in Seq(Updates) /\ s2 \in Seq(Updates) /\ z2 = s1 \o s2 BY <1>1, <1>2, <1>6
  <2>2. z2 \in Seq(Updates) BY <2>1
  <2>3. Sums(s1 \o s2, s1, s2) BY <2>1, SumsJoin
  <2>4. Sums(z2, s1, s2) BY <2>1, <2>3
  <2>6. Adds(z2, n + 0, 0 + 1, 0 + 0, 0 + 0, 0 + 0, 0 + 0)
    BY <1>0, <1>1, <1>2, <2>4, AddsJoin
  <2> QED BY <1>0, <2>2, <2>6
<1>9. z3 \in Seq(Updates) /\ Adds(z3, n, 1, 0, 0, 0, 0)
  <2>1. z2 \in Seq(Updates) /\ s3 \in Seq(Updates) /\ z3 = z2 \o s3 BY <1>3, <1>6, <1>7
  <2>2. z3 \in Seq(Updates) BY <2>1
  <2>3. Sums(z2 \o s3, z2, s3) BY <2>1, SumsJoin
  <2>4. Sums(z3, z2, s3) BY <2>1, <2>3
  <2>6. Adds(z3, n + 0, 1 + 0, 0 + 0, 0 + 0, 0 + 0, 0 + 0)
    BY <1>0, <1>7, <1>3, <2>4, AddsJoin
  <2> QED BY <1>0, <2>2, <2>6
<1>11. z4 \in Seq(Updates) /\ Adds(z4, n, 1, 0, 1, 0, 0)
  <2>1. z3 \in Seq(Updates) /\ s4 \in Seq(Updates) /\ z4 = z3 \o s4 BY <1>4, <1>6, <1>9
  <2>2. z4 \in Seq(Updates) BY <2>1
  <2>3. Sums(z3 \o s4, z3, s4) BY <2>1, SumsJoin
  <2>4. Sums(z4, z3, s4) BY <2>1, <2>3
  <2>6. Adds(z4, n + 0, 1 + 0, 0 + 0, 0 + 1, 0 + 0, 0 + 0)
    BY <1>0, <1>9, <1>4, <2>4, AddsJoin
  <2> QED BY <1>0, <2>2, <2>6
<1> QED BY <1>5, <1>11

\* ... a record dequeued; ...
LEMMA AddsDequeue ==
    ASSUME NEW c, NEW n \in {0, 1}, n = IF c.x = {} \/ c.txn_incr THEN 0 ELSE 1
    PROVE  DequeueCounts(c) \in Seq(Updates) /\ Adds(DequeueCounts(c), n, 0, 1, -1, 0, 0)
<1> DEFINE s1 == NewTxn(c)
           s2 == <<Inc(Journal, "dequeues")>>
           s3 == <<Inc(Journal, "txnDequeues")>>
           s4 == <<Down(Journal, "recordDepth")>>
           z2 == s1 \o s2
           z3 == z2 \o s3
           z4 == z3 \o s4
<1>0. n \in Int OBVIOUS
<1>1. s1 \in Seq(Updates) /\ Adds(s1, n, 0, 0, 0, 0, 0) BY ListTypes, AddsNewTxn
<1>2. s2 \in Seq(Updates) /\ Adds(s2, 0, 0, 1, 0, 0, 0) BY UpdateLists, StoreNames, AddsCounts
<1>3. s3 \in Seq(Updates) /\ Adds(s3, 0, 0, 0, 0, 0, 0) BY UpdateLists, StoreNames, AddsCounts
<1>4. s4 \in Seq(Updates) /\ Adds(s4, 0, 0, 0, -1, 0, 0) BY UpdateLists, StoreNames, AddsCounts
<1>5. DequeueCounts(c) = z4
  <2>1. <<Inc(Journal, "dequeues"), Inc(Journal, "txnDequeues"), Down(Journal, "recordDepth")>> = (s2 \o s3) \o s4
    OBVIOUS
  <2>2. s2 \o s3 \in Seq(Updates) BY <1>2, <1>3
  <2> HIDE DEF s1, s2, s3, s4
  <2>3. s1 \o ((s2 \o s3) \o s4) = ((s1 \o s2) \o s3) \o s4 BY <1>1, <1>2, <1>3, <1>4
  <2> QED BY <2>1, <2>3 DEF DequeueCounts, s1
<1> HIDE DEF s1, s2, s3, s4
<1>6. z2 = s1 \o s2 /\ z3 = z2 \o s3 /\ z4 = z3 \o s4 OBVIOUS
<1> HIDE DEF z2, z3, z4
<1>7. z2 \in Seq(Updates) /\ Adds(z2, n, 0, 1, 0, 0, 0)
  <2>1. s1 \in Seq(Updates) /\ s2 \in Seq(Updates) /\ z2 = s1 \o s2 BY <1>1, <1>2, <1>6
  <2>2. z2 \in Seq(Updates) BY <2>1
  <2>3. Sums(s1 \o s2, s1, s2) BY <2>1, SumsJoin
  <2>4. Sums(z2, s1, s2) BY <2>1, <2>3
  <2>6. Adds(z2, n + 0, 0 + 0, 0 + 1, 0 + 0, 0 + 0, 0 + 0)
    BY <1>0, <1>1, <1>2, <2>4, AddsJoin
  <2> QED BY <1>0, <2>2, <2>6
<1>9. z3 \in Seq(Updates) /\ Adds(z3, n, 0, 1, 0, 0, 0)
  <2>1. z2 \in Seq(Updates) /\ s3 \in Seq(Updates) /\ z3 = z2 \o s3 BY <1>3, <1>6, <1>7
  <2>2. z3 \in Seq(Updates) BY <2>1
  <2>3. Sums(z2 \o s3, z2, s3) BY <2>1, SumsJoin
  <2>4. Sums(z3, z2, s3) BY <2>1, <2>3
  <2>6. Adds(z3, n + 0, 0 + 0, 1 + 0, 0 + 0, 0 + 0, 0 + 0)
    BY <1>0, <1>7, <1>3, <2>4, AddsJoin
  <2> QED BY <1>0, <2>2, <2>6
<1>11. z4 \in Seq(Updates) /\ Adds(z4, n, 0, 1, -1, 0, 0)
  <2>1. z3 \in Seq(Updates) /\ s4 \in Seq(Updates) /\ z4 = z3 \o s4 BY <1>4, <1>6, <1>9
  <2>2. z4 \in Seq(Updates) BY <2>1
  <2>3. Sums(z3 \o s4, z3, s4) BY <2>1, SumsJoin
  <2>4. Sums(z4, z3, s4) BY <2>1, <2>3
  <2>5. -1 \in Int OBVIOUS
  <2>6. Adds(z4, n + 0, 0 + 0, 1 + 0, 0 + (-1), 0 + 0, 0 + 0)
    BY <1>0, <1>9, <1>4, <2>4, <2>5, AddsJoin
  <2> QED BY <1>0, <2>2, <2>6
<1> QED BY <1>5, <1>11

\* ... what those of the store do: the prepared list is initialized, ...
LEMMA AddsTplInit == TplInit \in Seq(Updates) /\ Adds(TplInit, 0, 0, 0, 0, 0, 0)
BY ListTypes, AddsNothing, AddsCounts DEF TplInit

\* ... a transaction prepared, ...
LEMMA AddsPrepare ==
    LET s == TplInit \o <<Up(Store, "tplTransactionDepth"), Inc(Store, "tplTxnPrepares")>>
    IN  s \in Seq(Updates) /\ Adds(s, 0, 0, 0, 0, 1, 0)
<1> DEFINE s1 == TplInit
           s2 == <<Up(Store, "tplTransactionDepth")>>
           s3 == <<Inc(Store, "tplTxnPrepares")>>
           z2 == s1 \o s2
           z3 == z2 \o s3
<1>1. s1 \in Seq(Updates) /\ Adds(s1, 0, 0, 0, 0, 0, 0) BY AddsTplInit
<1>2. s2 \in Seq(Updates) /\ Adds(s2, 0, 0, 0, 0, 1, 0) BY UpdateLists, StoreNames, AddsCounts
<1>3. s3 \in Seq(Updates) /\ Adds(s3, 0, 0, 0, 0, 0, 0) BY UpdateLists, StoreNames, AddsCounts
<1>5. TplInit \o <<Up(Store, "tplTransactionDepth"), Inc(Store, "tplTxnPrepares")>> = z3
  <2>1. <<Up(Store, "tplTransactionDepth"), Inc(Store, "tplTxnPrepares")>> = s2 \o s3 OBVIOUS
  <2> HIDE DEF s1, s2, s3
  <2>3. s1 \o (s2 \o s3) = (s1 \o s2) \o s3 BY <1>1, <1>2, <1>3
  <2> QED BY <2>1, <2>3 DEF s1
<1> HIDE DEF s1, s2, s3
<1>6. z2 = s1 \o s2 /\ z3 = z2 \o s3 OBVIOUS
<1> HIDE DEF z2, z3
<1>7. z2 \in Seq(Updates) /\ Adds(z2, 0, 0, 0, 0, 1, 0)
  <2>1. s1 \in Seq(Updates) /\ s2 \in Seq(Updates) /\ z2 = s1 \o s2 BY <1>1, <1>2, <1>6
  <2>2. z2 \in Seq(Updates) BY <2>1
  <2>3. Sums(s1 \o s2, s1, s2) BY <2>1, SumsJoin
  <2>4. Sums(z2, s1, s2) BY <2>1, <2>3
  <2> QED BY <1>1, <1>2, <1>6, <2>2, <2>4 DEF Adds, Sums, IsSum
<1>9. z3 \in Seq(Updates) /\ Adds(z3, 0, 0, 0, 0, 1, 0)
  <2>1. z2 \in Seq(Updates) /\ s3 \in Seq(Updates) /\ z3 = z2 \o s3 BY <1>3, <1>6, <1>7
  <2>2. z3 \in Seq(Updates) BY <2>1
  <2>3. Sums(z2 \o s3, z2, s3) BY <2>1, SumsJoin
  <2>4. Sums(z3, z2, s3) BY <2>1, <2>3
  <2> QED BY <1>3, <1>6, <1>7, <2>2, <2>4 DEF Adds, Sums, IsSum
<1> QED BY <1>5, <1>9

\* ... a transaction ended, prepared or not; ...
LEMMA AddsEnd ==
    ASSUME NEW b \in BOOLEAN
    PROVE  TplInit \o EndCounts(b) \in Seq(Updates) /\ Adds(TplInit \o EndCounts(b), -1, 0, 0, 0, -1, 1)
<1> DEFINE s1 == TplInit
           s2 == <<Dec(Journal, "txn")>>
           s3 == <<Inc(Journal, IF b THEN "txnCommits" ELSE "txnAborts")>>
           s4 == <<Down(Store, "tplTransactionDepth")>>
           s5 == <<Inc(Store, IF b THEN "tplTxnCommits" ELSE "tplTxnAborts")>>
           z2 == s1 \o s2
           z3 == z2 \o s3
           z4 == z3 \o s4
           z5 == z4 \o s5
<1>1. s1 \in Seq(Updates) /\ Adds(s1, 0, 0, 0, 0, 0, 0) BY AddsTplInit
<1>2. s2 \in Seq(Updates) /\ Adds(s2, -1, 0, 0, 0, 0, 0) BY UpdateLists, StoreNames, AddsCounts
<1>3. s3 \in Seq(Updates) /\ Adds(s3, 0, 0, 0, 0, 0, 0) BY UpdateLists, StoreNames, AddsCounts
<1>4. s4 \in Seq(Updates) /\ Adds(s4, 0, 0, 0, 0, -1, 0) BY UpdateLists, StoreNames, AddsCounts
<1>5. s5 \in Seq(Updates) /\ Adds(s5, 0, 0, 0, 0, 0, 1) BY UpdateLists, StoreNames, AddsCounts
<1>6. TplInit \o EndCounts(b) = z5
  <2>1. EndCounts(b) = ((s2 \o s3) \o s4) \o s5 BY DEF EndCounts
  <2> HIDE DEF s1, s2, s3, s4, s5
  <2>2. s2 \o s3 \in Seq(Updates) /\ (s2 \o s3) \o s4 \in Seq(Updates) BY <1>2, <1>3, <1>4
  <2>3. s1 \o (s2 \o s3) = (s1 \o s2) \o s3 BY <1>1, <1>2, <1>3
  <2>4. s1 \o ((s2 \o s3) \o s4) = (s1 \o (s2 \o s3)) \o s4
    <3> DEFINE r == s2 \o s3
    <3>1. r \in Seq(Updates) BY <2>2
    <3> HIDE DEF r
    <3>2. s1 \o (r \o s4) = (s1 \o r) \o s4 BY <1>1, <1>4, <3>1
    <3> QED BY <3>2 DEF r
  <2>5. s1 \o (((s2 \o s3) \o s4) \o s5) = (s1 \o ((s2 \o s3) \o s4)) \o s5
    <3> DEFINE r == (s2 \o s3) \o s4
    <3>1. r \in Seq(Updates) BY <2>2
    <3> HIDE DEF r
    <3>2. s1 \o (r \o s5) = (s1 \o r) \o s5 BY <1>1, <1>5, <3>1
    <3> QED BY <3>2 DEF r
  <2>6. TplInit = s1 BY DEF s1
  <2> QED BY <2>1, <2>3, <2>4, <2>5, <2>6
<1> HIDE DEF s1, s2, s3, s4, s5
<1>7. z2 = s1 \o s2 /\ z3 = z2 \o s3 /\ z4 = z3 \o s4 /\ z5 = z4 \o s5 OBVIOUS
<1> HIDE DEF z2, z3, z4, z5
<1>8. z2 \in Seq(Updates) /\ Adds(z2, -1, 0, 0, 0, 0, 0)
  <2>1. s1 \in Seq(Updates) /\ s2 \in Seq(Updates) /\ z2 = s1 \o s2 BY <1>1, <1>2, <1>7
  <2>2. z2 \in Seq(Updates) BY <2>1
  <2>3. Sums(s1 \o s2, s1, s2) BY <2>1, SumsJoin
  <2>4. Sums(z2, s1, s2) BY <2>1, <2>3
  <2> QED BY <1>1, <1>2, <1>7, <2>2, <2>4 DEF Adds, Sums, IsSum
<1>10. z3 \in Seq(Updates) /\ Adds(z3, -1, 0, 0, 0, 0, 0)
  <2>1. z2 \in Seq(Updates) /\ s3 \in Seq(Updates) /\ z3 = z2 \o s3 BY <1>3, <1>7, <1>8
  <2>2. z3 \in Seq(Updates) BY <2>1
  <2>3. Sums(z2 \o s3, z2, s3) BY <2>1, SumsJoin
  <2>4. Sums(z3, z2, s3) BY <2>1, <2>3
  <2> QED BY <1>3, <1>7, <1>8, <2>2, <2>4 DEF Adds, Sums, IsSum
<1>12. z4 \in Seq(Updates) /\ Adds(z4, -1, 0, 0, 0, -1, 0)
  <2>1. z3 \in Seq(Updates) /\ s4 \in Seq(Updates) /\ z4 = z3 \o s4 BY <1>4, <1>7, <1>10
  <2>2. z4 \in Seq(Updates) BY <2>1
  <2>3. Sums(z3 \o s4, z3, s4) BY <2>1, SumsJoin
  <2>4. Sums(z4, z3, s4) BY <2>1, <2>3
  <2> QED BY <1>4, <1>7, <1>10, <2>2, <2>4 DEF Adds, Sums, IsSum
<1>14. z5 \in Seq(Updates) /\ Adds(z5, -1, 0, 0, 0, -1, 1)
  <2>1. z4 \in Seq(Updates) /\ s5 \in Seq(Updates) /\ z5 = z4 \o s5 BY <1>5, <1>7, <1>12
  <2>2. z5 \in Seq(Updates) BY <2>1
  <2>3. Sums(z4 \o s5, z4, s5) BY <2>1, SumsJoin
  <2>4. Sums(z5, z4, s5) BY <2>1, <2>3
  <2>5. -1 \in Int OBVIOUS
  <2>6. Adds(z5, -1 + 0, 0 + 0, 0 + 0, 0 + 0, -1 + 0, 0 + 1)
    BY <1>12, <1>5, <2>4, <2>5, AddsJoin
  <2> QED BY <2>2, <2>6
<1> QED BY <1>6, <1>14

\* ... and what is said of a new journal, ...
LEMMA AddsSets == InitialSets \in Seq(Updates) /\ Adds(InitialSets, 0, 0, 0, 0, 0, 0)
<1>1. InitialSets \in Seq(Updates) BY ListTypes
<1>2. \A i \in 1 .. Len(InitialSets) : InitialSets[i].kind = "prop"
  <2>1. Len(InitialSets) = Len(JournalProps) /\ Len(JournalProps) = 7 BY DEF InitialSets, JournalProps
  <2>2. \A i \in 1 .. 7 : InitialSets[i] = SetProp(Journal, JournalProps[i]) BY <2>1 DEF InitialSets
  <2> QED BY <2>1, <2>2 DEF SetProp
<1>3. \A k, o, w : k # "prop" => Due(InitialSets, k, o, w) = 0
  <2> SUFFICES ASSUME NEW k, NEW o, NEW w, k # "prop" PROVE Due(InitialSets, k, o, w) = 0
    OBVIOUS
  <2> DEFINE s == InitialSets
  <2>1. s \in Seq(Updates) /\ \A i \in 1 .. Len(s) : Amount(s[i], k, o, w) = 0 BY <1>1, <1>2 DEF Amount
  <2> HIDE DEF s
  <2>2. Due(s, k, o, w) = 0 BY <2>1, DueZero
  <2> QED BY <2>2 DEF s
<1> QED BY <1>1, <1>3 DEF Adds

\* ... or of one that has been recovered.
LEMMA AddsRecovered ==
    ASSUME Init
    PROVE  /\ Adds(Recovered(FALSE), 0, 0, 0, 0, 0, 0)
           /\ Adds(Recovered(TRUE), Cardinality(Open), Cardinality(queue), 0, Cardinality(queue),
                   IF prepared = {} THEN 0 ELSE 1, 0)
<1>1. Recovered(FALSE) = <<>> BY DEF Recovered
<1> DEFINE q == Cardinality(queue)
           p == Cardinality(Open)
           e == Cardinality(UNION {adds[x] : x \in Xids})
           d == Cardinality(UNION {takes[x] : x \in Xids})
           s0 == InitialSets
           s1 == <<Raise(Journal, "recordDepth", q)>>
           s2 == <<Add(Journal, "enqueues", q)>>
           s3 == <<Add(Journal, "txn", p)>>
           s4 == <<Add(Journal, "txnEnqueues", e)>>
           s5 == <<Add(Journal, "txnDequeues", d)>>
           s6 == IF prepared = {} THEN <<>> ELSE <<Up(Store, "tplTransactionDepth")>>
           s7 == IF prepared = {} THEN <<>> ELSE <<Inc(Store, "tplTxnPrepares")>>
           n == IF prepared = {} THEN 0 ELSE 1
           z1 == s0 \o s1
           z2 == z1 \o s2
           z3 == z2 \o s3
           z4 == z3 \o s4
           z5 == z4 \o s5
           z6 == z5 \o s6
           z7 == z6 \o s7
<1>11. n \in Int OBVIOUS
<1>2. q \in Int /\ p \in Int /\ e \in Int /\ d \in Int BY FiniteRec, FS_CardinalityType
<1> HIDE DEF q, p, e, d
<1>3. s0 \in Seq(Updates) /\ Adds(s0, 0, 0, 0, 0, 0, 0) BY AddsSets
<1>4. s1 \in Seq(Updates) /\ Adds(s1, 0, 0, 0, q, 0, 0)
  <2>1. Raise(Journal, "recordDepth", q) \in Updates BY <1>2, StoreNames, ListTypes
  <2> QED BY <1>2, <2>1, StoreNames, DueOne DEF Adds, Amount, Raise
<1>5. s2 \in Seq(Updates) /\ Adds(s2, 0, q, 0, 0, 0, 0)
  <2>1. Add(Journal, "enqueues", q) \in Updates BY <1>2, StoreNames, ListTypes
  <2> QED BY <1>2, <2>1, StoreNames, DueOne DEF Adds, Amount, Add
<1>6. s3 \in Seq(Updates) /\ Adds(s3, p, 0, 0, 0, 0, 0)
  <2>1. Add(Journal, "txn", p) \in Updates BY <1>2, StoreNames, ListTypes
  <2> QED BY <1>2, <2>1, StoreNames, DueOne DEF Adds, Amount, Add
<1>7. s4 \in Seq(Updates) /\ Adds(s4, 0, 0, 0, 0, 0, 0)
  <2>1. Add(Journal, "txnEnqueues", e) \in Updates BY <1>2, StoreNames, ListTypes
  <2> QED BY <1>2, <2>1, StoreNames, DueOne DEF Adds, Amount, Add
<1>8. s5 \in Seq(Updates) /\ Adds(s5, 0, 0, 0, 0, 0, 0)
  <2>1. Add(Journal, "txnDequeues", d) \in Updates BY <1>2, StoreNames, ListTypes
  <2> QED BY <1>2, <2>1, StoreNames, DueOne DEF Adds, Amount, Add
<1>9. s6 \in Seq(Updates) /\ Adds(s6, 0, 0, 0, 0, n, 0) BY UpdateLists, StoreNames, AddsCounts, AddsNothing
<1>10. s7 \in Seq(Updates) /\ Adds(s7, 0, 0, 0, 0, 0, 0) BY UpdateLists, StoreNames, AddsCounts, AddsNothing
<1>12. Recovered(TRUE) = z7
  <2> DEFINE r == <<Raise(Journal, "recordDepth", q), Add(Journal, "enqueues", q), Add(Journal, "txn", p),
                    Add(Journal, "txnEnqueues", e), Add(Journal, "txnDequeues", d)>>
             v == IF prepared = {} THEN <<>> ELSE <<Up(Store, "tplTransactionDepth"), Inc(Store, "tplTxnPrepares")>>
             r2 == s1 \o s2
             r3 == r2 \o s3
             r4 == r3 \o s4
  <2>1. Recovered(TRUE) = (s0 \o r) \o v BY DEF Recovered, q, p, e, d
  <2>2. r = r4 \o s5 /\ v = s6 \o s7
    <3>1. r = r4 \o s5 OBVIOUS
    <3>2. CASE prepared = {} BY <3>2, <3>1
    <3>3. CASE prepared # {}
      <4>1. v = <<Up(Store, "tplTransactionDepth"), Inc(Store, "tplTxnPrepares")>> BY <3>3
      <4>2. s6 = <<Up(Store, "tplTransactionDepth")>> /\ s7 = <<Inc(Store, "tplTxnPrepares")>> BY <3>3
      <4>4. v = s6 \o s7
        <5> DEFINE a == Up(Store, "tplTransactionDepth")
                   b == Inc(Store, "tplTxnPrepares")
        <5>1. v = <<a, b>> /\ s6 = <<a>> /\ s7 = <<b>> BY <4>1, <4>2
        <5> HIDE DEF v, s6, s7, a, b
        <5>2. <<a, b>> = <<a>> \o <<b>> BY PairIs
        <5> QED BY <5>1, <5>2
      <4> QED BY <4>4, <3>1
    <3> QED BY <3>2, <3>3
  <2>3. r2 \in Seq(Updates) /\ r3 \in Seq(Updates) /\ r4 \in Seq(Updates) /\ r \in Seq(Updates)
    <3> HIDE DEF s1, s2, s3, s4, s5, r
    <3>1. r2 \in Seq(Updates) BY <1>4, <1>5
    <3> HIDE DEF r2
    <3>2. r3 \in Seq(Updates) BY <1>6, <3>1
    <3> HIDE DEF r3
    <3>3. r4 \in Seq(Updates) BY <1>7, <3>2
    <3> HIDE DEF r4
    <3>4. r \in Seq(Updates) BY <1>8, <3>3, <2>2
    <3> QED BY <3>1, <3>2, <3>3, <3>4
  <2> HIDE DEF s0, s1, s2, s3, s4, s5, s6, s7, r, v
  <2>4. s0 \o r2 = z2 BY <1>3, <1>4, <1>5
  <2> HIDE DEF r2
  <2>5. s0 \o r3 = (s0 \o r2) \o s3 BY <1>3, <1>6, <2>3
  <2> HIDE DEF r3
  <2>6. s0 \o r4 = (s0 \o r3) \o s4 BY <1>3, <1>7, <2>3
  <2> HIDE DEF r4
  <2>7. s0 \o r = (s0 \o r4) \o s5 BY <1>3, <1>8, <2>2, <2>3
  <2>8. s0 \o r = z5
    <3> HIDE DEF z2
    <3> QED BY <2>4, <2>5, <2>6, <2>7
  <2>9. s0 \o r \in Seq(Updates) BY <1>3, <2>3
  <2> HIDE DEF z5
  <2>10. z5 \in Seq(Updates) BY <2>8, <2>9
  <2>11. z5 \o (s6 \o s7) = (z5 \o s6) \o s7 BY <1>9, <1>10, <2>10
  <2> QED BY <2>1, <2>2, <2>8, <2>11
<1> HIDE DEF s0, s1, s2, s3, s4, s5, s6, s7
<1>13. /\ z1 = s0 \o s1 /\ z2 = z1 \o s2 /\ z3 = z2 \o s3 /\ z4 = z3 \o s4
       /\ z5 = z4 \o s5 /\ z6 = z5 \o s6 /\ z7 = z6 \o s7
  OBVIOUS
<1> HIDE DEF z1, z2, z3, z4, z5, z6, z7, n
<1>14. z1 \in Seq(Updates) /\ Adds(z1, 0, 0, 0, q, 0, 0)
  <2>1. s0 \in Seq(Updates) /\ s1 \in Seq(Updates) /\ z1 = s0 \o s1 BY <1>3, <1>4, <1>13
  <2>2. z1 \in Seq(Updates) BY <2>1
  <2>3. Sums(s0 \o s1, s0, s1) BY <2>1, SumsJoin
  <2>4. Sums(z1, s0, s1) BY <2>1, <2>3
  <2>6. Adds(z1, 0 + 0, 0 + 0, 0 + 0, 0 + q, 0 + 0, 0 + 0)
    BY <1>2, <1>11, <1>3, <1>4, <2>4, AddsJoin
  <2> QED BY <1>2, <1>11, <2>2, <2>6
<1>16. z2 \in Seq(Updates) /\ Adds(z2, 0, q, 0, q, 0, 0)
  <2>1. z1 \in Seq(Updates) /\ s2 \in Seq(Updates) /\ z2 = z1 \o s2 BY <1>5, <1>13, <1>14
  <2>2. z2 \in Seq(Updates) BY <2>1
  <2>3. Sums(z1 \o s2, z1, s2) BY <2>1, SumsJoin
  <2>4. Sums(z2, z1, s2) BY <2>1, <2>3
  <2>6. Adds(z2, 0 + 0, 0 + q, 0 + 0, q + 0, 0 + 0, 0 + 0)
    BY <1>2, <1>11, <1>14, <1>5, <2>4, AddsJoin
  <2> QED BY <1>2, <1>11, <2>2, <2>6
<1>18. z3 \in Seq(Updates) /\ Adds(z3, p, q, 0, q, 0, 0)
  <2>1. z2 \in Seq(Updates) /\ s3 \in Seq(Updates) /\ z3 = z2 \o s3 BY <1>6, <1>13, <1>16
  <2>2. z3 \in Seq(Updates) BY <2>1
  <2>3. Sums(z2 \o s3, z2, s3) BY <2>1, SumsJoin
  <2>4. Sums(z3, z2, s3) BY <2>1, <2>3
  <2>6. Adds(z3, 0 + p, q + 0, 0 + 0, q + 0, 0 + 0, 0 + 0)
    BY <1>2, <1>11, <1>16, <1>6, <2>4, AddsJoin
  <2> QED BY <1>2, <1>11, <2>2, <2>6
<1>20. z4 \in Seq(Updates) /\ Adds(z4, p, q, 0, q, 0, 0)
  <2>1. z3 \in Seq(Updates) /\ s4 \in Seq(Updates) /\ z4 = z3 \o s4 BY <1>7, <1>13, <1>18
  <2>2. z4 \in Seq(Updates) BY <2>1
  <2>3. Sums(z3 \o s4, z3, s4) BY <2>1, SumsJoin
  <2>4. Sums(z4, z3, s4) BY <2>1, <2>3
  <2>6. Adds(z4, p + 0, q + 0, 0 + 0, q + 0, 0 + 0, 0 + 0)
    BY <1>2, <1>11, <1>18, <1>7, <2>4, AddsJoin
  <2> QED BY <1>2, <1>11, <2>2, <2>6
<1>22. z5 \in Seq(Updates) /\ Adds(z5, p, q, 0, q, 0, 0)
  <2>1. z4 \in Seq(Updates) /\ s5 \in Seq(Updates) /\ z5 = z4 \o s5 BY <1>8, <1>13, <1>20
  <2>2. z5 \in Seq(Updates) BY <2>1
  <2>3. Sums(z4 \o s5, z4, s5) BY <2>1, SumsJoin
  <2>4. Sums(z5, z4, s5) BY <2>1, <2>3
  <2>6. Adds(z5, p + 0, q + 0, 0 + 0, q + 0, 0 + 0, 0 + 0)
    BY <1>2, <1>11, <1>20, <1>8, <2>4, AddsJoin
  <2> QED BY <1>2, <1>11, <2>2, <2>6
<1>24. z6 \in Seq(Updates) /\ Adds(z6, p, q, 0, q, n, 0)
  <2>1. z5 \in Seq(Updates) /\ s6 \in Seq(Updates) /\ z6 = z5 \o s6 BY <1>9, <1>13, <1>22
  <2>2. z6 \in Seq(Updates) BY <2>1
  <2>3. Sums(z5 \o s6, z5, s6) BY <2>1, SumsJoin
  <2>4. Sums(z6, z5, s6) BY <2>1, <2>3
  <2>6. Adds(z6, p + 0, q + 0, 0 + 0, q + 0, 0 + n, 0 + 0)
    BY <1>2, <1>11, <1>22, <1>9, <2>4, AddsJoin
  <2> QED BY <1>2, <1>11, <2>2, <2>6
<1>26. z7 \in Seq(Updates) /\ Adds(z7, p, q, 0, q, n, 0)
  <2>1. z6 \in Seq(Updates) /\ s7 \in Seq(Updates) /\ z7 = z6 \o s7 BY <1>10, <1>13, <1>24
  <2>2. z7 \in Seq(Updates) BY <2>1
  <2>3. Sums(z6 \o s7, z6, s7) BY <2>1, SumsJoin
  <2>4. Sums(z7, z6, s7) BY <2>1, <2>3
  <2>6. Adds(z7, p + 0, q + 0, 0 + 0, q + 0, n + 0, 0 + 0)
    BY <1>2, <1>11, <1>24, <1>10, <2>4, AddsJoin
  <2> QED BY <1>2, <1>11, <2>2, <2>6
<1>28. Adds(Recovered(TRUE), p, q, 0, q, n, 0) BY <1>12, <1>26
<1> QED BY <1>1, <1>28, AddsNothing DEF p, q, n

\* The totals once all calls under way have been counted, and what they should come to:
\* the transactions open, the records accepted and those prepared, of what the objects
\* have seen.
Begun == Counted(Journal, "txn")
Taken == Counted(Journal, "enqueues")
Gone == Counted(Journal, "dequeues")
Depth == Moving(Journal, "recordDepth")
TplDepth == Moving(Store, "tplTransactionDepth")
Ends == Counted(Store, "tplTxnCommits") + Counted(Store, "tplTxnAborts")
OpenSeen == Cardinality(Open) - missed.txn
StoredSeen == Cardinality(stored) - missed.enqueues
PreparedSeen == Cardinality(prepared) - missed.txn - Cardinality(unprepared)

TotalsInv ==
    /\ Wrap(Begun) = Wrap(OpenSeen)
    /\ Wrap(Taken) = Wrap(StoredSeen)
    /\ Wrap(Depth) = Wrap(Taken - Gone)
    /\ Wrap(TplDepth) = Wrap(PreparedSeen)
    /\ Wrap(Ends) = Wrap(Cardinality(ended))

\* What the journal and the transactions are, whatever is counted of them.
SetsInv ==
    /\ IsFiniteSet(stored) /\ IsFiniteSet(Open) /\ IsFiniteSet(prepared)
    /\ IsFiniteSet(ended) /\ IsFiniteSet(unprepared)
    /\ missed.txn \in Int /\ missed.enqueues \in Int
    /\ DOMAIN adds = Xids /\ DOMAIN takes = Xids
    /\ prepared \subseteq Open /\ unprepared \subseteq ended /\ Open \cap ended = {}

\* Words that are equal stay so when the same is added to both.
LEMMA WrapShift == \A x, y, a \in Int : Wrap(x) = Wrap(y) => Wrap(x + a) = Wrap(y + a)
<1> TAKE x, y, a \in Int
<1>1. Wrap(Wrap(x) + a) = Wrap(x + a) /\ Wrap(Wrap(y) + a) = Wrap(y + a) BY WrapAdd
<1> QED BY <1>1

\* Sums and differences of equal words are equal words.
LEMMA WrapPair ==
    ASSUME NEW x \in Int, NEW y \in Int, NEW u \in Int, NEW v \in Int, Wrap(x) = Wrap(u), Wrap(y) = Wrap(v)
    PROVE  Wrap(x + y) = Wrap(u + v) /\ Wrap(x - y) = Wrap(u - v)
<1>1. Wrap(x + y) = Wrap(u + y) BY WrapShift
<1>2. Wrap(y + u) = Wrap(v + u) BY WrapShift
<1>3. y + u = u + y /\ v + u = u + v OBVIOUS
<1> DEFINE m == -y
           n == u - y - v
<1>4. m \in Int /\ n \in Int OBVIOUS
<1>5. x + m = x - y /\ u + m = u - y /\ y + n = u - v /\ v + n = u - y OBVIOUS
<1> HIDE DEF m, n
<1>6. Wrap(x + m) = Wrap(u + m) BY <1>4, WrapShift
<1>7. Wrap(y + n) = Wrap(v + n) BY <1>4, WrapShift
<1> QED BY <1>1, <1>2, <1>3, <1>5, <1>6, <1>7

TotalsInt ==
    /\ Begun \in Int /\ Taken \in Int /\ Gone \in Int /\ Depth \in Int /\ TplDepth \in Int /\ Ends \in Int
    /\ Counted(Store, "tplTxnCommits") \in Int /\ Counted(Store, "tplTxnAborts") \in Int

\* They are integers.
LEMMA TotalTypes == Types /\ GaugeInv => TotalsInt
<1> SUFFICES ASSUME Types, GaugeInv PROVE TotalsInt
  OBVIOUS
<1>1. /\ Journal \in Objects /\ Store \in Objects
      /\ "enqueues" \in Counters[Journal] /\ "dequeues" \in Counters[Journal] /\ "txn" \in Counters[Journal]
      /\ "recordDepth" \in Gauges[Journal] /\ "tplTransactionDepth" \in Gauges[Store]
      /\ "tplTxnCommits" \in Counters[Store] /\ "tplTxnAborts" \in Counters[Store]
  BY InstrumentedAssumption
<1>2. \A o \in Objects : \A c \in Counters[o] : Counted(o, c) \in Int BY BalInt
<1>3. \A o \in Objects : \A g \in Gauges[o] : Moving(o, g) \in Int BY OwedInt
<1>4. Counted(Store, "tplTxnCommits") \in Int /\ Counted(Store, "tplTxnAborts") \in Int BY <1>1, <1>2
<1>5. Begun \in Int /\ Taken \in Int /\ Gone \in Int BY <1>1, <1>2 DEF Begun, Taken, Gone
<1>6. Depth \in Int /\ TplDepth \in Int BY <1>1, <1>3 DEF Depth, TplDepth
<1>7. Ends \in Int BY <1>4 DEF Ends
<1> QED BY <1>4, <1>5, <1>6, <1>7 DEF TotalsInt

\* So are the sizes.
LEMMA SizeTypes ==
    ASSUME SetsInv
    PROVE  /\ OpenSeen \in Int /\ StoredSeen \in Int /\ PreparedSeen \in Int /\ Cardinality(ended) \in Int
           /\ Cardinality(Open) \in Int /\ Cardinality(stored) \in Int /\ Cardinality(prepared) \in Int
           /\ Cardinality(unprepared) \in Int
<1>1. /\ Cardinality(Open) \in Nat /\ Cardinality(stored) \in Nat /\ Cardinality(prepared) \in Nat
      /\ Cardinality(ended) \in Nat /\ Cardinality(unprepared) \in Nat
  BY FS_CardinalityType DEF SetsInv
<1>2. missed.txn \in Int /\ missed.enqueues \in Int BY DEF SetsInv
<1> QED BY <1>1, <1>2 DEF OpenSeen, StoredSeen, PreparedSeen

\* The counting itself changes no total.
LEMMA TotalsSame ==
    ASSUME Types, GaugeInv, Types', GaugeInv', SetsInv, CountsSame, TotalsInv, UNCHANGED <<jvars, ivars>>
    PROVE  TotalsInv'
<1>1. /\ Journal \in Objects /\ Store \in Objects
      /\ "enqueues" \in Counters[Journal] /\ "dequeues" \in Counters[Journal] /\ "txn" \in Counters[Journal]
      /\ "recordDepth" \in Gauges[Journal] /\ "tplTransactionDepth" \in Gauges[Store]
      /\ "tplTxnCommits" \in Counters[Store] /\ "tplTxnAborts" \in Counters[Store]
  BY InstrumentedAssumption
<1>2. TotalsInt BY TotalTypes
<1>3. TotalsInt'
  <2>1. (Types /\ GaugeInv => TotalsInt)' BY TotalTypes, PTL
  <2> QED BY <2>1
<1>4. /\ OpenSeen \in Int /\ StoredSeen \in Int /\ PreparedSeen \in Int /\ Cardinality(ended) \in Int
      /\ OpenSeen' = OpenSeen /\ StoredSeen' = StoredSeen /\ PreparedSeen' = PreparedSeen
      /\ Cardinality(ended)' = Cardinality(ended)
  BY SizeTypes DEF OpenSeen, StoredSeen, PreparedSeen, jvars, ivars, Open, InMap
<1>5. /\ Wrap(Counted(Journal, "txn")') = Wrap(Counted(Journal, "txn"))
      /\ Wrap(Counted(Journal, "enqueues")') = Wrap(Counted(Journal, "enqueues"))
      /\ Wrap(Counted(Journal, "dequeues")') = Wrap(Counted(Journal, "dequeues"))
      /\ Wrap(Counted(Store, "tplTxnCommits")') = Wrap(Counted(Store, "tplTxnCommits"))
      /\ Wrap(Counted(Store, "tplTxnAborts")') = Wrap(Counted(Store, "tplTxnAborts"))
      /\ Wrap(Moving(Journal, "recordDepth")') = Wrap(Moving(Journal, "recordDepth"))
      /\ Wrap(Moving(Store, "tplTransactionDepth")') = Wrap(Moving(Store, "tplTransactionDepth"))
  BY <1>1 DEF CountsSame
<1>6. Wrap(Begun') = Wrap(Begun) /\ Wrap(Taken') = Wrap(Taken) /\ Wrap(Gone') = Wrap(Gone)
      /\ Wrap(Depth') = Wrap(Depth) /\ Wrap(TplDepth') = Wrap(TplDepth)
  BY <1>5 DEF Begun, Taken, Gone, Depth, TplDepth
<1>7. Wrap(Taken' - Gone') = Wrap(Taken - Gone) BY <1>2, <1>3, <1>6, WrapPair DEF TotalsInt
<1>8. Wrap(Ends') = Wrap(Ends)
  <2>1. Wrap(Counted(Store, "tplTxnCommits")' + Counted(Store, "tplTxnAborts")') =
        Wrap(Counted(Store, "tplTxnCommits") + Counted(Store, "tplTxnAborts"))
    BY <1>2, <1>3, <1>5, WrapPair DEF TotalsInt
  <2> QED BY <2>1 DEF Ends
<1>9. /\ Wrap(Begun') = Wrap(OpenSeen') /\ Wrap(Taken') = Wrap(StoredSeen')
      /\ Wrap(Depth') = Wrap(Taken' - Gone') /\ Wrap(TplDepth') = Wrap(PreparedSeen')
      /\ Wrap(Ends') = Wrap(Cardinality(ended)')
  BY <1>4, <1>6, <1>7, <1>8 DEF TotalsInv
<1> QED BY <1>9 DEF TotalsInv, Wrap

\* A step changes the totals, and what they should come to, by these numbers.
TotalsBy(a1, a2, a3, a4, a5, a6) ==
    /\ Begun' = Begun + a1 /\ Taken' = Taken + a2 /\ Gone' = Gone + a3
    /\ Depth' = Depth + a4 /\ TplDepth' = TplDepth + a5 /\ Ends' = Ends + a6
SizesBy(a1, a2, a3, a4, a5, a6) ==
    /\ a1 \in Int /\ a2 \in Int /\ a3 \in Int /\ a4 \in Int /\ a5 \in Int /\ a6 \in Int
    /\ OpenSeen' = OpenSeen + a1 /\ StoredSeen' = StoredSeen + a2 /\ a4 = a2 - a3
    /\ PreparedSeen' = PreparedSeen + a5 /\ Cardinality(ended)' = Cardinality(ended) + a6

\* A list of calls is about to be made.
LEMMA LoadTotals ==
    ASSUME Types, Types', GaugeInv, NEW t \in Threads, todo[t] = <<>>, NEW s \in Seq(Updates),
           todo' = [todo EXCEPT ![t] = s], UNCHANGED <<slot, gauge>>,
           NEW a1, NEW a2, NEW a3, NEW a4, NEW a5, NEW a6, Adds(s, a1, a2, a3, a4, a5, a6)
    PROVE  TotalsBy(a1, a2, a3, a4, a5, a6)
<1>1. /\ Journal \in Objects /\ Store \in Objects
      /\ "enqueues" \in Counters[Journal] /\ "dequeues" \in Counters[Journal] /\ "txn" \in Counters[Journal]
      /\ "recordDepth" \in Gauges[Journal] /\ "tplTransactionDepth" \in Gauges[Store]
      /\ "tplTxnCommits" \in Counters[Store] /\ "tplTxnAborts" \in Counters[Store]
  BY InstrumentedAssumption
<1>2. DOMAIN todo = Threads BY DEF Types
<1>3. todo'[t] = s /\ \A u \in Threads : u # t => todo'[u] = todo[u] BY <1>2
<1>4. \A k, o, w : Due(s, k, o, w) \in Int BY DueInt
<1>5. \A k, o, w : Due(todo[t], k, o, w) = 0 BY DueEmpty
<1>6. ASSUME NEW o \in Objects, NEW c \in Counters[o]
      PROVE  Counted(o, c)' = Counted(o, c) + Due(s, "count", o, c) /\ Counted(o, c) \in Int
  <2>1. Vals(o, c)' = Vals(o, c) BY DEF Vals, HasSlot
  <2>2. \A u \in Threads : u # t => Bal(o, c)'[u] = Bal(o, c)[u] BY <1>3, <2>1 DEF Bal
  <2>3. Bal(o, c)'[t] = Vals(o, c)[t] + Due(s, "count", o, c) BY <1>3, <2>1 DEF Bal
  <2>4. Bal(o, c)[t] = Vals(o, c)[t] + 0 BY <1>5 DEF Bal
  <2>5. Vals(o, c)[t] \in Int BY ValsInt
  <2>6. Bal(o, c)'[t] - Bal(o, c)[t] = Due(s, "count", o, c)
    <3>1. Due(s, "count", o, c) \in Int BY <1>4
    <3> QED BY <2>3, <2>4, <2>5, <3>1
  <2>7. Counted(o, c)' = Counted(o, c) + (Bal(o, c)'[t] - Bal(o, c)[t]) BY <2>2, CountedStep
  <2> QED BY <2>6, <2>7, BalInt
<1>7. ASSUME NEW o \in Objects, NEW g \in Gauges[o]
      PROVE  Moving(o, g)' = Moving(o, g) + Due(s, "gauge", o, g)
  <2>1. Sum(Owed(o, g), Threads) \in Int /\ gauge[o][g].val \in Int BY OwedInt
  <2>2. Sum(Owed(o, g)', Threads) =
            Sum(Owed(o, g), Threads) + (Due(todo'[t], "gauge", o, g) - Due(todo[t], "gauge", o, g))
    BY <1>3, OwedStep
  <2>3. Due(todo'[t], "gauge", o, g) = Due(s, "gauge", o, g) /\ Due(s, "gauge", o, g) \in Int BY <1>3, <1>4
  <2>4. Sum(Owed(o, g)', Threads) = Sum(Owed(o, g), Threads) + Due(s, "gauge", o, g)
    BY <1>5, <2>1, <2>2, <2>3
  <2>5. Moving(o, g)' = gauge[o][g].val + Sum(Owed(o, g)', Threads) BY DEF Moving
  <2> QED BY <2>1, <2>3, <2>4, <2>5 DEF Moving
<1>8. Begun' = Begun + a1 BY <1>1, <1>6 DEF Begun, Adds
<1>9. Taken' = Taken + a2 BY <1>1, <1>6 DEF Taken, Adds
<1>10. Gone' = Gone + a3 BY <1>1, <1>6 DEF Gone, Adds
<1>11. Depth' = Depth + a4 BY <1>1, <1>7 DEF Depth, Adds
<1>12. TplDepth' = TplDepth + a5 BY <1>1, <1>7 DEF TplDepth, Adds
<1>13. Ends' = Ends + a6
  <2>1. /\ Counted(Store, "tplTxnCommits")' = Counted(Store, "tplTxnCommits") + Due(s, "count", Store, "tplTxnCommits")
        /\ Counted(Store, "tplTxnAborts")' = Counted(Store, "tplTxnAborts") + Due(s, "count", Store, "tplTxnAborts")
        /\ Counted(Store, "tplTxnCommits") \in Int /\ Counted(Store, "tplTxnAborts") \in Int
    BY <1>1, <1>6
  <2>2. /\ Due(s, "count", Store, "tplTxnCommits") \in Int /\ Due(s, "count", Store, "tplTxnAborts") \in Int
        /\ Due(s, "count", Store, "tplTxnCommits") + Due(s, "count", Store, "tplTxnAborts") = a6
    BY <1>4 DEF Adds
  <2> QED BY <2>1, <2>2 DEF Ends
<1> QED BY <1>8, <1>9, <1>10, <1>11, <1>12, <1>13 DEF TotalsBy

\* The totals go on agreeing if what a call does and what it counts do.
LEMMA TotalsStep ==
    ASSUME Types, GaugeInv, SetsInv, TotalsInv, SetsInv', TotalsInt',
           NEW a1, NEW a2, NEW a3, NEW a4, NEW a5, NEW a6,
           TotalsBy(a1, a2, a3, a4, a5, a6), SizesBy(a1, a2, a3, a4, a5, a6)
    PROVE  TotalsInv'
<1>1. TotalsInt BY TotalTypes
<1>2. OpenSeen \in Int /\ StoredSeen \in Int /\ PreparedSeen \in Int /\ Cardinality(ended) \in Int
  BY SizeTypes
<1>3. Wrap(Begun + a1) = Wrap(OpenSeen + a1)
  <2>1. Begun \in Int /\ OpenSeen \in Int /\ Wrap(Begun) = Wrap(OpenSeen) /\ a1 \in Int
    BY <1>1, <1>2 DEF TotalsInv, TotalsInt, SizesBy
  <2> QED BY <2>1, WrapShift
<1>4. Wrap(Taken + a2) = Wrap(StoredSeen + a2)
  <2>1. Taken \in Int /\ StoredSeen \in Int /\ Wrap(Taken) = Wrap(StoredSeen) /\ a2 \in Int
    BY <1>1, <1>2 DEF TotalsInv, TotalsInt, SizesBy
  <2> QED BY <2>1, WrapShift
<1>5. Wrap(Depth + a4) = Wrap((Taken - Gone) + a4)
  <2> DEFINE d == Taken - Gone
  <2>1. d \in Int /\ Depth \in Int /\ Wrap(Depth) = Wrap(d) /\ a4 \in Int BY <1>1 DEF TotalsInv, TotalsInt, SizesBy
  <2> HIDE DEF d
  <2>3. Wrap(Depth + a4) = Wrap(d + a4) BY <2>1, WrapShift
  <2> QED BY <2>3 DEF d
<1>6. (Taken - Gone) + a4 = (Taken + a2) - (Gone + a3) BY <1>1 DEF TotalsInt, SizesBy
<1>7. Wrap(TplDepth + a5) = Wrap(PreparedSeen + a5)
  <2>1. TplDepth \in Int /\ PreparedSeen \in Int /\ Wrap(TplDepth) = Wrap(PreparedSeen) /\ a5 \in Int
    BY <1>1, <1>2 DEF TotalsInv, TotalsInt, SizesBy
  <2> QED BY <2>1, WrapShift
<1>8. Wrap(Ends + a6) = Wrap(Cardinality(ended) + a6)
  <2> DEFINE e == Cardinality(ended)
  <2>1. e \in Int /\ Ends \in Int /\ Wrap(Ends) = Wrap(e) /\ a6 \in Int
    BY <1>1, <1>2 DEF TotalsInt, TotalsInv, SizesBy
  <2> HIDE DEF e
  <2>2. Wrap(Ends + a6) = Wrap(e + a6) BY <2>1, WrapShift
  <2> QED BY <2>2 DEF e
<1>9. /\ Wrap(Begun') = Wrap(OpenSeen') /\ Wrap(Taken') = Wrap(StoredSeen')
      /\ Wrap(Depth') = Wrap(Taken' - Gone') /\ Wrap(TplDepth') = Wrap(PreparedSeen')
      /\ Wrap(Ends') = Wrap(Cardinality(ended)')
  BY <1>3, <1>4, <1>5, <1>6, <1>7, <1>8 DEF TotalsBy, SizesBy
<1> QED BY <1>9 DEF TotalsInv, Wrap

\* A thread that calls the journal knows whether its transaction is in the map, and no
\* other thread uses that transaction meanwhile.
CallsInv ==
    /\ \A t \in Threads : call[t].op \in {"enqueue", "dequeue"} =>
          call[t].txn_incr = Knows(call[t].x) /\ call[t].x \cap (prepared \cup ended) = {}
    /\ \A t, u \in Threads : t # u => call[t].x \cap call[u].x = {}
    /\ \A t \in Threads : call[t].x = {} \/ \E x \in Xids : call[t].x = {x}

CountsInv == ReportInv /\ GaugeInv /\ SetsInv /\ CallsInv /\ TotalsInv

\* A call begins or ends, and leaves the other threads' transactions alone.
LEMMA CallsKept ==
    ASSUME Types, CallsInv, NEW t \in Threads, NEW c, call' = [call EXCEPT ![t] = c],
           c.x = {} \/ \E x \in Xids : c.x = {x},
           \A u \in Threads : u # t => call[u].x \cap c.x = {},
           c.op \in {"enqueue", "dequeue"} =>
               c.txn_incr = (\E y \in c.x : InMap(y)') /\ c.x \cap (prepared' \cup ended') = {},
           \A u \in Threads : u # t => \A x \in call[u].x :
               /\ InMap(x)' <=> InMap(x)
               /\ x \in prepared' \cup ended' => x \in prepared \cup ended
    PROVE  CallsInv'
<1>0. DOMAIN call = Threads BY DEF Types
<1>1. call'[t] = c /\ \A u \in Threads : u # t => call'[u] = call[u] BY <1>0
<1>2. ASSUME NEW u \in Threads, call'[u].op \in {"enqueue", "dequeue"}
      PROVE call'[u].txn_incr = (\E y \in call'[u].x : InMap(y)') /\ call'[u].x \cap (prepared' \cup ended') = {}
  <2>1. CASE u = t BY <1>1, <1>2, <2>1
  <2>2. CASE u # t
    <3>1. call'[u] = call[u] BY <1>1, <2>2
    <3>2. call[u].txn_incr = Knows(call[u].x) /\ call[u].x \cap (prepared \cup ended) = {}
      BY <1>2, <3>1 DEF CallsInv
    <3>3. (\E y \in call[u].x : InMap(y)) <=> (\E y \in call[u].x : InMap(y)') BY <2>2
    <3>4. call[u].x \cap (prepared' \cup ended') = {} BY <2>2, <3>2
    <3> QED BY <3>1, <3>2, <3>3, <3>4 DEF Knows
  <2> QED BY <2>1, <2>2
<1>3. ASSUME NEW u \in Threads, NEW v \in Threads, u # v PROVE call'[u].x \cap call'[v].x = {}
  <2>1. CASE u = t BY <1>1, <1>3, <2>1
  <2>2. CASE v = t BY <1>1, <1>3, <2>2
  <2>3. CASE u # t /\ v # t BY <1>1, <1>3, <2>3 DEF CallsInv
  <2> QED BY <2>1, <2>2, <2>3
<1>4. ASSUME NEW u \in Threads PROVE call'[u].x = {} \/ \E x \in Xids : call'[u].x = {x}
  <2>1. CASE u = t BY <1>1, <2>1
  <2>2. CASE u # t BY <1>1, <2>2 DEF CallsInv
  <2> QED BY <2>1, <2>2
<1> QED BY <1>2, <1>3, <1>4 DEF CallsInv, Knows

\* A record is added to transaction x, or claimed by it.
LEMMA ClaimStep ==
    ASSUME SetsInv, NEW x \in Xids, NEW m,
           \/ adds' = [adds EXCEPT ![x] = adds[x] \cup {m}] /\ takes' = takes
           \/ takes' = [takes EXCEPT ![x] = takes[x] \cup {m}] /\ adds' = adds
    PROVE  /\ DOMAIN adds' = Xids /\ DOMAIN takes' = Xids
           /\ Open' = Open \cup {x} /\ \A y \in Xids : y # x => (InMap(y)' <=> InMap(y))
           /\ IsFiniteSet(Open')
           /\ Cardinality(Open') = IF InMap(x) THEN Cardinality(Open) ELSE Cardinality(Open) + 1
<1>1. DOMAIN adds = Xids /\ DOMAIN takes = Xids BY DEF SetsInv
<1>2. DOMAIN adds' = Xids /\ DOMAIN takes' = Xids BY <1>1
<1>3. \A y \in Xids : y # x => adds'[y] = adds[y] /\ takes'[y] = takes[y] BY <1>1
<1>4. m \in adds'[x] \cup takes'[x] BY <1>1
<1>5. \A y \in Xids : y # x => (InMap(y)' <=> InMap(y)) BY <1>3 DEF InMap
<1>6. InMap(x)' BY <1>4 DEF InMap
<1>7. Open' = {y \in Xids : InMap(y)'} BY DEF Open
<1>8. \A y : y \in Open' <=> y \in Open \cup {x} BY <1>5, <1>6, <1>7 DEF Open
<1>9. Open' = Open \cup {x} BY <1>8
<1>10. IsFiniteSet(Open) BY DEF SetsInv
<1>11. x \in Open <=> InMap(x) BY DEF Open
<1>12. /\ IsFiniteSet(Open \cup {x})
       /\ Cardinality(Open \cup {x}) = IF x \in Open THEN Cardinality(Open) ELSE Cardinality(Open) + 1
  BY <1>10, FS_AddElement
<1> QED BY <1>2, <1>5, <1>9, <1>11, <1>12

\* What a call of the journal comes to, and what it leaves.
LEMMA EnqueueSizes ==
    ASSUME CountsInv, NEW t \in Threads, Enqueue(t)
    PROVE  /\ \E n \in {0, 1} : /\ n = IF call[t].x = {} \/ call[t].txn_incr THEN 0 ELSE 1
                                /\ SizesBy(n, 1, 0, 1, 0, 0)
           /\ SetsInv'
           /\ \A y \in Xids : y \notin call[t].x => (InMap(y)' <=> InMap(y))
<1>1. PICK m \in call[t].m : IF call[t].x = {} THEN J!Enqueue(m) ELSE \E x \in call[t].x : J!TxnEnqueue(x, m)
  BY DEF Enqueue
<1>2. m \notin stored /\ stored' = stored \cup {m} /\ takes' = takes
      /\ UNCHANGED <<prepared, ended, unprepared, missed>>
  BY <1>1 DEF Enqueue, J!Enqueue, J!TxnEnqueue
<1>3. SetsInv BY DEF CountsInv
<1>4. IsFiniteSet(stored') /\ Cardinality(stored)' = Cardinality(stored) + 1
  BY <1>2, <1>3, FS_AddElement DEF SetsInv
<1>5. /\ OpenSeen \in Int /\ StoredSeen \in Int /\ PreparedSeen \in Int /\ Cardinality(ended) \in Int
      /\ Cardinality(Open) \in Int /\ Cardinality(stored) \in Int /\ missed.txn \in Int /\ missed.enqueues \in Int
  BY <1>3, SizeTypes DEF SetsInv
<1>6. PreparedSeen' = PreparedSeen + 0 /\ Cardinality(ended)' = Cardinality(ended) + 0
  BY <1>2, <1>5 DEF PreparedSeen
<1>7. StoredSeen' = StoredSeen + 1 BY <1>2, <1>4, <1>5 DEF StoredSeen
<1>8. CASE call[t].x = {}
  <2>1. adds' = adds BY <1>1, <1>8 DEF J!Enqueue
  <2>2. Open' = Open /\ \A y \in Xids : InMap(y)' <=> InMap(y) BY <1>2, <2>1 DEF Open, InMap
  <2>3. OpenSeen' = OpenSeen + 0 BY <1>2, <1>5, <2>2 DEF OpenSeen
  <2>4. SetsInv' BY <1>2, <1>3, <1>4, <2>1, <2>2 DEF SetsInv
  <2>5. SizesBy(0, 1, 0, 1, 0, 0) BY <1>6, <1>7, <2>3 DEF SizesBy
  <2> QED BY <1>8, <2>2, <2>4, <2>5
<1>9. CASE call[t].x # {}
  <2>1. PICK x \in call[t].x : J!TxnEnqueue(x, m) BY <1>1, <1>9
  <2>2. PICK z \in Xids : call[t].x = {z} BY <1>9 DEF CountsInv, CallsInv
  <2>3. call[t].x = {x} /\ x \in Xids BY <2>1, <2>2
  <2>4. adds' = [adds EXCEPT ![x] = adds[x] \cup {m}] /\ takes' = takes BY <2>1 DEF J!TxnEnqueue
  <2>5. /\ DOMAIN adds' = Xids /\ DOMAIN takes' = Xids
        /\ Open' = Open \cup {x} /\ \A y \in Xids : y # x => (InMap(y)' <=> InMap(y))
        /\ IsFiniteSet(Open')
        /\ Cardinality(Open') = IF InMap(x) THEN Cardinality(Open) ELSE Cardinality(Open) + 1
    BY <1>3, <2>3, <2>4, ClaimStep
  <2>6. call[t].txn_incr = InMap(x) /\ x \notin ended
    <3>1. call[t].op = "enqueue" BY DEF Enqueue
    <3>2. call[t].txn_incr = Knows(call[t].x) /\ call[t].x \cap (prepared \cup ended) = {}
      BY <3>1 DEF CountsInv, CallsInv
    <3>3. Knows(call[t].x) = InMap(x) BY <2>3 DEF Knows, InMap
    <3> QED BY <2>3, <3>2, <3>3
  <2>7. SetsInv' BY <1>2, <1>3, <1>4, <2>5, <2>6 DEF SetsInv
  <2>8. CASE InMap(x)
    <3>1. OpenSeen' = OpenSeen + 0 BY <1>2, <1>5, <2>5, <2>8 DEF OpenSeen
    <3>2. SizesBy(0, 1, 0, 1, 0, 0) BY <1>6, <1>7, <3>1 DEF SizesBy
    <3> QED BY <2>3, <2>5, <2>6, <2>7, <2>8, <3>2
  <2>9. CASE ~InMap(x)
    <3>1. OpenSeen' = OpenSeen + 1 BY <1>2, <1>5, <2>5, <2>9 DEF OpenSeen
    <3>2. SizesBy(1, 1, 0, 1, 0, 0) BY <1>6, <1>7, <3>1 DEF SizesBy
    <3> QED BY <1>9, <2>3, <2>5, <2>6, <2>7, <2>9, <3>2
  <2> QED BY <2>8, <2>9
<1> QED BY <1>8, <1>9

\* The same for a dequeue.
LEMMA DequeueSizes ==
    ASSUME CountsInv, NEW t \in Threads, Dequeue(t)
    PROVE  /\ \E n \in {0, 1} : /\ n = IF call[t].x = {} \/ call[t].txn_incr THEN 0 ELSE 1
                                /\ SizesBy(n, 0, 1, -1, 0, 0)
           /\ SetsInv'
           /\ \A y \in Xids : y \notin call[t].x => (InMap(y)' <=> InMap(y))
<1>1. PICK m \in call[t].m : IF call[t].x = {} THEN J!Dequeue(m) ELSE \E x \in call[t].x : J!TxnDequeue(x, m)
  BY DEF Dequeue
<1>2. stored' = stored /\ adds' = adds /\ UNCHANGED <<prepared, ended, unprepared, missed>>
  BY <1>1 DEF Dequeue, J!Dequeue, J!TxnDequeue
<1>3. SetsInv BY DEF CountsInv
<1>5. /\ OpenSeen \in Int /\ StoredSeen \in Int /\ PreparedSeen \in Int /\ Cardinality(ended) \in Int
      /\ Cardinality(Open) \in Int /\ Cardinality(stored) \in Int /\ missed.txn \in Int /\ missed.enqueues \in Int
  BY <1>3, SizeTypes DEF SetsInv
<1>6. PreparedSeen' = PreparedSeen + 0 /\ Cardinality(ended)' = Cardinality(ended) + 0
  BY <1>2, <1>5 DEF PreparedSeen
<1>7. StoredSeen' = StoredSeen + 0 BY <1>2, <1>5 DEF StoredSeen
<1>8. CASE call[t].x = {}
  <2>1. takes' = takes BY <1>1, <1>8 DEF J!Dequeue
  <2>2. Open' = Open /\ \A y \in Xids : InMap(y)' <=> InMap(y) BY <1>2, <2>1 DEF Open, InMap
  <2>3. OpenSeen' = OpenSeen + 0 BY <1>2, <1>5, <2>2 DEF OpenSeen
  <2>4. SetsInv' BY <1>2, <1>3, <2>1, <2>2 DEF SetsInv
  <2>5. SizesBy(0, 0, 1, -1, 0, 0) BY <1>6, <1>7, <2>3 DEF SizesBy
  <2> QED BY <1>8, <2>2, <2>4, <2>5
<1>9. CASE call[t].x # {}
  <2>1. PICK x \in call[t].x : J!TxnDequeue(x, m) BY <1>1, <1>9
  <2>2. PICK z \in Xids : call[t].x = {z} BY <1>9 DEF CountsInv, CallsInv
  <2>3. call[t].x = {x} /\ x \in Xids BY <2>1, <2>2
  <2>4. takes' = [takes EXCEPT ![x] = takes[x] \cup {m}] /\ adds' = adds BY <2>1 DEF J!TxnDequeue
  <2>5. /\ DOMAIN adds' = Xids /\ DOMAIN takes' = Xids
        /\ Open' = Open \cup {x} /\ \A y \in Xids : y # x => (InMap(y)' <=> InMap(y))
        /\ IsFiniteSet(Open')
        /\ Cardinality(Open') = IF InMap(x) THEN Cardinality(Open) ELSE Cardinality(Open) + 1
    BY <1>3, <2>3, <2>4, ClaimStep
  <2>6. call[t].txn_incr = InMap(x) /\ x \notin ended
    <3>1. call[t].op = "dequeue" BY DEF Dequeue
    <3>2. call[t].txn_incr = Knows(call[t].x) /\ call[t].x \cap (prepared \cup ended) = {}
      BY <3>1 DEF CountsInv, CallsInv
    <3>3. Knows(call[t].x) = InMap(x) BY <2>3 DEF Knows, InMap
    <3> QED BY <2>3, <3>2, <3>3
  <2>7. SetsInv' BY <1>2, <1>3, <2>5, <2>6 DEF SetsInv
  <2>8. CASE InMap(x)
    <3>1. OpenSeen' = OpenSeen + 0 BY <1>2, <1>5, <2>5, <2>8 DEF OpenSeen
    <3>2. SizesBy(0, 0, 1, -1, 0, 0) BY <1>6, <1>7, <3>1 DEF SizesBy
    <3> QED BY <2>3, <2>5, <2>6, <2>7, <2>8, <3>2
  <2>9. CASE ~InMap(x)
    <3>1. OpenSeen' = OpenSeen + 1 BY <1>2, <1>5, <2>5, <2>9 DEF OpenSeen
    <3>2. SizesBy(1, 0, 1, -1, 0, 0) BY <1>6, <1>7, <3>1 DEF SizesBy
    <3> QED BY <1>9, <2>3, <2>5, <2>6, <2>7, <2>9, <3>2
  <2> QED BY <2>8, <2>9
<1> QED BY <1>8, <1>9

\* The same for a transaction prepared, ...
LEMMA PrepareSizes ==
    ASSUME CountsInv, NEW x \in Open \ prepared, prepared' = prepared \cup {x},
           UNCHANGED <<jvars, ended, unprepared, missed>>
    PROVE  SizesBy(0, 0, 0, 0, 1, 0) /\ SetsInv'
<1>1. SetsInv BY DEF CountsInv
<1>2. Open' = Open /\ \A y : InMap(y)' <=> InMap(y) BY DEF Open, InMap, jvars
<1>3. IsFiniteSet(prepared') /\ Cardinality(prepared)' = Cardinality(prepared) + 1
  BY <1>1, FS_AddElement DEF SetsInv
<1>4. SetsInv' BY <1>1, <1>2, <1>3 DEF SetsInv, jvars
<1>5. /\ OpenSeen \in Int /\ StoredSeen \in Int /\ PreparedSeen \in Int /\ Cardinality(ended) \in Int
      /\ Cardinality(Open) \in Int /\ Cardinality(stored) \in Int /\ missed.txn \in Int /\ missed.enqueues \in Int
      /\ Cardinality(prepared) \in Int /\ Cardinality(unprepared) \in Int
  BY <1>1, SizeTypes DEF SetsInv
<1>6. OpenSeen' = OpenSeen + 0 /\ StoredSeen' = StoredSeen + 0 /\ Cardinality(ended)' = Cardinality(ended) + 0
  BY <1>2, <1>5 DEF OpenSeen, StoredSeen, jvars
<1>7. PreparedSeen' = PreparedSeen + 1 BY <1>3, <1>5 DEF PreparedSeen
<1> QED BY <1>4, <1>6, <1>7 DEF SizesBy

\* ... and for one ended.
LEMMA EndSizes ==
    ASSUME CountsInv, NEW x \in Open, adds' = [adds EXCEPT ![x] = {}], takes' = [takes EXCEPT ![x] = {}],
           stored' = stored, ended' = ended \cup {x}, prepared' = prepared \ {x},
           unprepared' = unprepared \cup ({x} \ prepared), missed' = missed
    PROVE  /\ SizesBy(-1, 0, 0, 0, -1, 1) /\ SetsInv'
           /\ \A y \in Xids : y # x => (InMap(y)' <=> InMap(y))
<1>1. SetsInv BY DEF CountsInv
<1>2. DOMAIN adds = Xids /\ DOMAIN takes = Xids /\ x \in Xids BY <1>1 DEF SetsInv, Open
<1>3. \A y \in Xids : y # x => (InMap(y)' <=> InMap(y)) BY <1>2 DEF InMap
<1>4. ~InMap(x)' BY <1>2 DEF InMap
<1>5. Open' = {y \in Xids : InMap(y)'} BY DEF Open
<1>6. \A y : y \in Open' <=> y \in Open \ {x} BY <1>3, <1>4, <1>5 DEF Open
<1>7. Open' = Open \ {x} BY <1>6
<1>8. IsFiniteSet(Open \ {x}) /\ Cardinality(Open \ {x}) = Cardinality(Open) - 1
  BY <1>1, FS_RemoveElement DEF SetsInv
<1>9. x \notin ended /\ x \notin unprepared BY <1>1 DEF SetsInv
<1>10. IsFiniteSet(ended') /\ Cardinality(ended)' = Cardinality(ended) + 1
  BY <1>1, <1>9, FS_AddElement DEF SetsInv
<1>11. /\ OpenSeen \in Int /\ StoredSeen \in Int /\ PreparedSeen \in Int /\ Cardinality(ended) \in Int
       /\ Cardinality(Open) \in Int /\ Cardinality(stored) \in Int /\ missed.txn \in Int /\ missed.enqueues \in Int
       /\ Cardinality(prepared) \in Int /\ Cardinality(unprepared) \in Int
  BY <1>1, SizeTypes DEF SetsInv
<1>12. /\ IsFiniteSet(prepared') /\ IsFiniteSet(unprepared')
       /\ Cardinality(prepared') - Cardinality(unprepared') = (Cardinality(prepared) - Cardinality(unprepared)) - 1
       /\ Cardinality(prepared') \in Int /\ Cardinality(unprepared') \in Int
  <2>1. IsFiniteSet(prepared) /\ IsFiniteSet(unprepared) BY <1>1 DEF SetsInv
  <2>2. CASE x \in prepared
    <3>1. IsFiniteSet(prepared') /\ Cardinality(prepared') = Cardinality(prepared) - 1
      BY <2>1, <2>2, FS_RemoveElement
    <3>2. unprepared' = unprepared BY <2>2
    <3>3. Cardinality(unprepared') = Cardinality(unprepared) BY <3>2
    <3>4. IsFiniteSet(unprepared') BY <2>1, <3>2
    <3> QED BY <1>11, <3>1, <3>3, <3>4
  <2>3. CASE x \notin prepared
    <3>1. unprepared' = unprepared \cup {x} /\ prepared' = prepared BY <2>3
    <3>2. IsFiniteSet(unprepared') /\ Cardinality(unprepared') = Cardinality(unprepared) + 1
      <4> DEFINE u == unprepared
      <4>1. IsFiniteSet(u) /\ x \notin u BY <1>9, <2>1
      <4> HIDE DEF u
      <4>2. IsFiniteSet(u \cup {x}) /\ Cardinality(u \cup {x}) = Cardinality(u) + 1 BY <4>1, FS_AddElement
      <4> QED BY <3>1, <4>2 DEF u
    <3>3. Cardinality(prepared') = Cardinality(prepared) /\ IsFiniteSet(prepared') BY <2>1, <3>1
    <3> QED BY <1>11, <3>2, <3>3
  <2> QED BY <2>2, <2>3
<1>13. DOMAIN adds' = Xids /\ DOMAIN takes' = Xids BY <1>2
<1>14. prepared' \subseteq Open' /\ unprepared' \subseteq ended' /\ Open' \cap ended' = {}
  BY <1>1, <1>7 DEF SetsInv
<1>15. SetsInv' BY <1>1, <1>7, <1>8, <1>10, <1>12, <1>13, <1>14 DEF SetsInv
<1>16. OpenSeen' = OpenSeen + (-1) BY <1>7, <1>8, <1>11 DEF OpenSeen
<1>17. PreparedSeen' = PreparedSeen + (-1) BY <1>11, <1>12 DEF PreparedSeen
<1>18. StoredSeen' = StoredSeen + 0 BY <1>11 DEF StoredSeen
<1> QED BY <1>3, <1>10, <1>15, <1>16, <1>17, <1>18 DEF SizesBy

\* A call that is made, with the list of what is to be counted for it.
LEMMA ListStep ==
    ASSUME CountsInv, ReportInv', NEW t \in Threads, todo[t] = <<>>, NEW s \in Seq(Updates),
           todo' = [todo EXCEPT ![t] = s], UNCHANGED <<slot, gauge>>,
           NEW a1, NEW a2, NEW a3, NEW a4, NEW a5, NEW a6,
           Adds(s, a1, a2, a3, a4, a5, a6), SizesBy(a1, a2, a3, a4, a5, a6), SetsInv', CallsInv'
    PROVE  CountsInv'
<1>1. Types /\ Types' /\ GaugeInv /\ SetsInv /\ TotalsInv BY DEF CountsInv, ReportInv
<1>2. GaugeInv' BY <1>1 DEF GaugeInv
<1>3. TotalsInt'
  <2>1. (Types /\ GaugeInv => TotalsInt)' BY TotalTypes, PTL
  <2> QED BY <1>1, <1>2, <2>1
<1>4. TotalsBy(a1, a2, a3, a4, a5, a6) BY <1>1, LoadTotals
<1>5. TotalsInv' BY <1>1, <1>3, <1>4, TotalsStep
<1> QED BY <1>2, <1>5 DEF CountsInv

\* A call that is to be counted, by its transaction and what it does to the sets.
LEMMA QuietStep ==
    ASSUME CountsInv, ReportInv', NEW t \in Threads, todo[t] = <<>>, NEW c, call' = [call EXCEPT ![t] = c],
           UNCHANGED <<slot, gauge, todo, jvars, prepared, ended, unprepared, missed>>,
           c.x = {} \/ \E x \in Xids : c.x = {x},
           \A u \in Threads : u # t => call[u].x \cap c.x = {},
           c.op \in {"enqueue", "dequeue"} => c.txn_incr = Knows(c.x) /\ c.x \cap (prepared \cup ended) = {}
    PROVE  CountsInv'
<1>1. Types /\ CallsInv /\ SetsInv BY DEF CountsInv, ReportInv
<1>2. Open' = Open /\ \A y : InMap(y)' <=> InMap(y) BY DEF Open, InMap, jvars
<1>3. CallsInv'
  <2>1. c.op \in {"enqueue", "dequeue"} =>
            c.txn_incr = (\E y \in c.x : InMap(y)') /\ c.x \cap (prepared' \cup ended') = {}
    BY <1>2 DEF Knows
  <2>2. \A u \in Threads : u # t => \A x \in call[u].x :
            (InMap(x)' <=> InMap(x)) /\ (x \in prepared' \cup ended' => x \in prepared \cup ended)
    BY <1>2
  <2> QED BY <1>1, <2>1, <2>2, CallsKept
<1>4. SetsInv' BY <1>1, <1>2 DEF SetsInv, jvars
<1>5. OpenSeen \in Int /\ StoredSeen \in Int /\ PreparedSeen \in Int /\ Cardinality(ended) \in Int
  BY <1>1, SizeTypes
<1>6. SizesBy(0, 0, 0, 0, 0, 0)
  <2>1. OpenSeen' = OpenSeen /\ StoredSeen' = StoredSeen /\ PreparedSeen' = PreparedSeen
        /\ Cardinality(ended)' = Cardinality(ended)
    BY <1>2 DEF OpenSeen, StoredSeen, PreparedSeen, jvars
  <2> QED BY <1>5, <2>1 DEF SizesBy
<1>7. todo' = [todo EXCEPT ![t] = <<>>] BY <1>1 DEF Types
<1>8. <<>> \in Seq(Updates) OBVIOUS
<1> QED BY <1>3, <1>4, <1>6, <1>7, <1>8, AddsNothing, ListStep

\* A thread in no call uses no transaction.
LEMMA NoCallFacts == NoCall.op = "none" /\ NoCall.x = {}
BY DEF NoCall

\* The calls of the broker keep the invariant: one that is begun, ...
LEMMA AskCounts ==
    ASSUME CountsInv, ReportInv', NEW t \in Threads, Ask(t)
    PROVE  CountsInv'
<1>1. PICK op \in {"enqueue", "dequeue"}, m \in Msgs, x \in {{}} \cup {{y} : y \in Xids} :
          /\ Unused({m}, x) /\ x \cap (prepared \cup ended) = {}
          /\ call' = [call EXCEPT ![t] = Asked(op, {m}, x)]
  BY DEF Ask
<1>2. call[t] = NoCall /\ todo[t] = <<>>
  <2>1. call[t] = NoCall BY DEF Ask, Calls
  <2> QED BY <2>1, NoCallFacts DEF CountsInv, ReportInv, BusyInv
<1>3. UNCHANGED <<slot, gauge, todo, jvars, prepared, ended, unprepared, missed>> BY DEF Ask, mvars
<1> DEFINE c == Asked(op, {m}, x)
<1>4. c.x = x /\ c.txn_incr = Knows(x) BY DEF Asked
<1>5. call' = [call EXCEPT ![t] = c] BY <1>1
<1> HIDE DEF c
<1>6. c.x = {} \/ \E y \in Xids : c.x = {y} BY <1>4
<1>7. \A u \in Threads : u # t => call[u].x \cap c.x = {} BY <1>1, <1>4 DEF Unused
<1>8. c.txn_incr = Knows(c.x) /\ c.x \cap (prepared \cup ended) = {} BY <1>1, <1>4
<1> QED BY <1>2, <1>3, <1>5, <1>6, <1>7, <1>8, QuietStep

\* ... one that is over, ...
LEMMA ReturnCounts ==
    ASSUME CountsInv, ReportInv', NEW t \in Threads, Refused(t) \/ Return(t)
    PROVE  CountsInv'
<1>1. /\ todo[t] = <<>> /\ call' = [call EXCEPT ![t] = NoCall]
      /\ UNCHANGED <<slot, gauge, todo, jvars, prepared, ended, unprepared, missed>>
  BY DEF Refused, Return, mvars
<1>2. NoCall.op = "none" /\ NoCall.x = {} BY NoCallFacts
<1> DEFINE c == NoCall
<1>3. c.op = "none" /\ c.x = {} /\ call' = [call EXCEPT ![t] = c] BY <1>1, <1>2
<1> HIDE DEF c
<1>4. \A u \in Threads : u # t => call[u].x \cap c.x = {} BY <1>3
<1>5. ~(c.op \in {"enqueue", "dequeue"}) /\ (c.x = {} \/ \E x \in Xids : c.x = {x}) BY <1>3
<1> QED BY <1>1, <1>3, <1>4, <1>5, QuietStep

\* ... the journal's enqueue and dequeue, ...
LEMMA JournalCallCounts ==
    ASSUME CountsInv, ReportInv', NEW t \in Threads, Enqueue(t) \/ Dequeue(t)
    PROVE  CountsInv'
<1> DEFINE c == [call[t] EXCEPT !.op = "counting"]
<1>1. /\ todo[t] = <<>> /\ call' = [call EXCEPT ![t] = c]
      /\ UNCHANGED <<slot, gauge, prepared, ended, unprepared, missed>>
  BY DEF Enqueue, Dequeue
<1>2. call[t] \in CallType /\ DOMAIN todo = Threads BY DEF CountsInv, ReportInv, Types
<1>3. c.op = "counting" /\ c.x = call[t].x BY <1>2 DEF CallType
<1> HIDE DEF c
<1>4. SetsInv' /\ \A y \in Xids : y \notin call[t].x => (InMap(y)' <=> InMap(y))
  BY EnqueueSizes, DequeueSizes
<1>5. CallsInv'
  <2>1. Types /\ CallsInv BY DEF CountsInv, ReportInv
  <2>2. c.x = {} \/ \E x \in Xids : c.x = {x} BY <1>3, <2>1 DEF CallsInv
  <2>3. \A u \in Threads : u # t => call[u].x \cap c.x = {} BY <1>3, <2>1 DEF CallsInv
  <2>4. ASSUME NEW u \in Threads, u # t, NEW x \in call[u].x
        PROVE (InMap(x)' <=> InMap(x)) /\ (x \in prepared' \cup ended' => x \in prepared \cup ended)
    <3>1. x \notin call[t].x BY <2>3, <2>4, <1>3
    <3>2. x \in Xids BY <2>1, <2>4 DEF CallsInv
    <3> QED BY <1>1, <1>4, <3>1, <3>2
  <2>5. ~(c.op \in {"enqueue", "dequeue"}) BY <1>3
  <2> QED BY <1>1, <2>1, <2>2, <2>3, <2>4, <2>5, CallsKept
<1>6. CASE Enqueue(t)
  <2>1. PICK n \in {0, 1} : n = (IF call[t].x = {} \/ call[t].txn_incr THEN 0 ELSE 1) /\ SizesBy(n, 1, 0, 1, 0, 0)
    BY <1>6, EnqueueSizes
  <2>2. PICK d : d = call[t] OBVIOUS
  <2>3. EnqueueCounts(d) \in Seq(Updates) /\ Adds(EnqueueCounts(d), n, 1, 0, 1, 0, 0)
    BY <2>1, <2>2, AddsEnqueue
  <2>4. PICK s \in Seq(Updates) : s = EnqueueCounts(d) BY <2>3
  <2>5. todo' = [todo EXCEPT ![t] = s] BY <1>6, <2>2, <2>4 DEF Enqueue
  <2>6. Adds(s, n, 1, 0, 1, 0, 0) BY <2>3, <2>4
  <2> QED BY <1>1, <1>4, <1>5, <2>1, <2>5, <2>6, ListStep
<1>7. CASE Dequeue(t)
  <2>1. PICK n \in {0, 1} : n = (IF call[t].x = {} \/ call[t].txn_incr THEN 0 ELSE 1) /\ SizesBy(n, 0, 1, -1, 0, 0)
    BY <1>7, DequeueSizes
  <2>2. PICK d : d = call[t] OBVIOUS
  <2>3. DequeueCounts(d) \in Seq(Updates) /\ Adds(DequeueCounts(d), n, 0, 1, -1, 0, 0)
    BY <2>1, <2>2, AddsDequeue
  <2>4. PICK s \in Seq(Updates) : s = DequeueCounts(d) BY <2>3
  <2>5. todo' = [todo EXCEPT ![t] = s] BY <1>7, <2>2, <2>4 DEF Dequeue
  <2>6. Adds(s, n, 0, 1, -1, 0, 0) BY <2>3, <2>4
  <2> QED BY <1>1, <1>4, <1>5, <2>1, <2>5, <2>6, ListStep
<1> QED BY <1>6, <1>7

\* A thread that prepares or ends a transaction uses that one.
LEMMA CountingFacts == \A x : Counting(x).op = "counting" /\ Counting(x).x = {x}
BY DEF Counting, NoCall

\* ... prepare, ...
LEMMA PrepareCounts ==
    ASSUME CountsInv, ReportInv', NEW t \in Threads, LocalPrepare(t)
    PROVE  CountsInv'
<1>1. PICK x \in Open \ prepared :
          Unused({}, {x}) /\ prepared' = prepared \cup {x} /\ call' = [call EXCEPT ![t] = Counting(x)]
  BY DEF LocalPrepare
<1>2. UNCHANGED <<slot, gauge, jvars, ended, unprepared, missed>> BY DEF LocalPrepare
<1>3. SizesBy(0, 0, 0, 0, 1, 0) /\ SetsInv' BY <1>1, <1>2, PrepareSizes
<1>4. todo[t] = <<>>
  <2>1. call[t] = NoCall BY DEF LocalPrepare, Calls
  <2> QED BY <2>1, NoCallFacts DEF CountsInv, ReportInv, BusyInv
<1> DEFINE c == Counting(x)
<1>5. c.op = "counting" /\ c.x = {x} /\ call' = [call EXCEPT ![t] = c] BY <1>1, CountingFacts
<1> HIDE DEF c
<1>6. CallsInv'
  <2>1. Types /\ CallsInv BY DEF CountsInv, ReportInv
  <2>2. c.x = {} \/ \E y \in Xids : c.x = {y} BY <1>1, <1>5 DEF Open
  <2>3. \A u \in Threads : u # t => call[u].x \cap c.x = {} BY <1>1, <1>5 DEF Unused
  <2>4. ASSUME NEW u \in Threads, u # t, NEW y \in call[u].x
        PROVE (InMap(y)' <=> InMap(y)) /\ (y \in prepared' \cup ended' => y \in prepared \cup ended)
    <3>1. y # x BY <1>5, <2>3, <2>4
    <3>2. InMap(y)' <=> InMap(y) BY <1>2 DEF InMap, jvars
    <3> QED BY <1>1, <1>2, <3>1, <3>2
  <2>5. ~(c.op \in {"enqueue", "dequeue"}) BY <1>5
  <2> QED BY <1>5, <2>1, <2>2, <2>3, <2>4, <2>5, CallsKept
<1>7. PICK s : s = TplInit \o <<Up(Store, "tplTransactionDepth"), Inc(Store, "tplTxnPrepares")>> OBVIOUS
<1>8. s \in Seq(Updates) /\ Adds(s, 0, 0, 0, 0, 1, 0) BY <1>7, AddsPrepare
<1>9. todo' = [todo EXCEPT ![t] = s] BY <1>7 DEF LocalPrepare
<1> QED BY <1>2, <1>3, <1>4, <1>6, <1>8, <1>9, ListStep

\* ... and commit and abort.
LEMMA EndCountsOf ==
    ASSUME CountsInv, ReportInv', NEW t \in Threads, Completed(t)
    PROVE  CountsInv'
<1>1. PICK x \in Open, commit \in BOOLEAN :
          /\ Unused({}, {x}) /\ (commit => x \in prepared)
          /\ IF commit THEN J!Commit(x) ELSE J!Abort(x)
          /\ ended' = ended \cup {x} /\ prepared' = prepared \ {x}
          /\ unprepared' = unprepared \cup ({x} \ prepared)
          /\ call' = [call EXCEPT ![t] = Counting(x)]
          /\ todo' = [todo EXCEPT ![t] = TplInit \o EndCounts(commit)]
  BY DEF Completed
<1>2. UNCHANGED <<slot, gauge, missed>> BY DEF Completed
<1>3. adds' = [adds EXCEPT ![x] = {}] /\ takes' = [takes EXCEPT ![x] = {}] /\ stored' = stored
  BY <1>1 DEF J!Commit, J!Abort
<1>4. /\ SizesBy(-1, 0, 0, 0, -1, 1) /\ SetsInv'
      /\ \A y \in Xids : y # x => (InMap(y)' <=> InMap(y))
  BY <1>1, <1>2, <1>3, EndSizes
<1>5. todo[t] = <<>>
  <2>1. call[t] = NoCall BY DEF Completed, Calls
  <2> QED BY <2>1, NoCallFacts DEF CountsInv, ReportInv, BusyInv
<1> DEFINE c == Counting(x)
<1>6. c.op = "counting" /\ c.x = {x} /\ call' = [call EXCEPT ![t] = c] BY <1>1, CountingFacts
<1> HIDE DEF c
<1>7. CallsInv'
  <2>1. Types /\ CallsInv BY DEF CountsInv, ReportInv
  <2>2. c.x = {} \/ \E y \in Xids : c.x = {y} BY <1>1, <1>6 DEF Open
  <2>3. \A u \in Threads : u # t => call[u].x \cap c.x = {} BY <1>1, <1>6 DEF Unused
  <2>4. ASSUME NEW u \in Threads, u # t, NEW y \in call[u].x
        PROVE (InMap(y)' <=> InMap(y)) /\ (y \in prepared' \cup ended' => y \in prepared \cup ended)
    <3>1. y # x BY <1>6, <2>3, <2>4
    <3>2. y \in Xids BY <2>1, <2>4 DEF CallsInv
    <3> QED BY <1>1, <1>4, <3>1, <3>2
  <2>5. ~(c.op \in {"enqueue", "dequeue"}) BY <1>6
  <2> QED BY <1>6, <2>1, <2>2, <2>3, <2>4, <2>5, CallsKept
<1>8. PICK s : s = TplInit \o EndCounts(commit) OBVIOUS
<1>9. s \in Seq(Updates) /\ Adds(s, -1, 0, 0, 0, -1, 1) BY <1>8, AddsEnd
<1>10. todo' = [todo EXCEPT ![t] = s] BY <1>1, <1>8
<1> QED BY <1>2, <1>4, <1>5, <1>7, <1>9, <1>10, ListStep

\* Each step of a thread or of the agent keeps the counts.
LEMMA CountsStep == CountsInv /\ [Next]_vars => CountsInv'
<1> SUFFICES ASSUME CountsInv, [Next]_vars PROVE CountsInv'
  OBVIOUS
<1>1. ReportInv' BY ReportStep DEF CountsInv
<1>2. CASE \E t \in Threads : BrokerCall(t)
  BY <1>1, <1>2, AskCounts, ReturnCounts, JournalCallCounts, PrepareCounts, EndCountsOf DEF BrokerCall
<1>3. ASSUME CountsSame /\ GaugeInv', UNCHANGED <<jvars, ivars>> PROVE CountsInv'
  <2>1. SetsInv' BY <1>3 DEF CountsInv, SetsInv, jvars, ivars, Open, InMap
  <2>2. CallsInv' BY <1>3 DEF CountsInv, CallsInv, jvars, ivars, Knows, InMap
  <2>3. TotalsInv' BY <1>1, <1>3, TotalsSame DEF CountsInv, ReportInv
  <2> QED BY <1>1, <1>3, <2>1, <2>2, <2>3 DEF CountsInv
<1>4. ASSUME NEW t \in Threads, Update(t), UNCHANGED <<jvars, ivars>> PROVE CountsInv'
  <2>1. CountsSame /\ GaugeInv' BY <1>1, <1>4, UpdateCounts DEF CountsInv
  <2> QED BY <1>3, <1>4, <2>1
<1>5. ASSUME Report, UNCHANGED <<jvars, ivars>> PROVE CountsInv'
  <2>1. CountsSame /\ GaugeInv' BY <1>5, ReportCounts DEF CountsInv
  <2> QED BY <1>3, <1>5, <2>1
<1>6. CASE UNCHANGED vars
  <2>1. UNCHANGED <<slot, gauge, todo>> /\ UNCHANGED <<jvars, ivars>> BY <1>6 DEF vars, mvars
  <2>2. \A o \in Objects : \A c \in Counters[o] : Vals(o, c)' = Vals(o, c) BY <2>1 DEF Vals, HasSlot
  <2>3. CountsSame BY <2>1, <2>2, QuietCounts
  <2>4. GaugeInv' BY <2>1 DEF CountsInv, GaugeInv
  <2> QED BY <1>3, <2>1, <2>3, <2>4
<1> QED BY <1>2, <1>4, <1>5, <1>6 DEF Next, BrokerStep, BrokerCall

\* The sum of values all but one of which are 0.
LEMMA SumAlone ==
    ASSUME NEW S, IsFiniteSet(S), NEW f, NEW t \in S, f[t] \in Int, \A u \in S \ {t} : f[u] = 0
    PROVE  Sum(f, S) = f[t]
<1>1. \A x \in S : f[x] \in Int OBVIOUS
<1>2. S \in SUBSET S OBVIOUS
<1>3. Sum(f, S) = f[t] + Sum(f, S \ {t}) BY <1>1, <1>2, SumRemove
<1>4. IsFiniteSet(S \ {t}) BY FS_Subset
<1> DEFINE R == S \ {t}
<1>5. IsFiniteSet(R) /\ \A u \in R : f[u] = 0 BY <1>4
<1> HIDE DEF R
<1>6. Sum(f, R) = 0 BY <1>5, SumZero
<1> QED BY <1>3, <1>6 DEF R

\* At the start a total is what the thread that creates the objects is about to say.
LEMMA FreshCounts ==
    ASSUME Init, Types, NEW t \in Threads, \A u \in Threads : u # t => todo[u] = <<>>, NEW s, s = todo[t]
    PROVE  /\ \A o \in Objects : \A c \in Counters[o] : Counted(o, c) = Due(s, "count", o, c)
           /\ \A o \in Objects : \A g \in Gauges[o] : Moving(o, g) = Due(s, "gauge", o, g)
<1>1. MInit BY DEF Init
<1>2. s \in Seq(Updates) BY DEF Types
<1>3. \A k, o, w : Due(s, k, o, w) \in Int BY <1>2, DueInt
<1>4. \A k, o, w : \A u \in Threads : u # t => Due(todo[u], k, o, w) = 0 BY DueEmpty
<1>5. IsFiniteSet(Threads) BY ThreadsAssumption
<1>6. ASSUME NEW o \in Objects, NEW c \in Counters[o] PROVE Counted(o, c) = Due(s, "count", o, c)
  <2> DEFINE f == Bal(o, c)
             S == Threads
  <2>1. \A u \in Threads : slot[o][u] = NoSlot BY <1>1 DEF MInit
  <2>2. \A u \in Threads : ~HasSlot(o, u) BY <2>1 DEF HasSlot
  <2>3. \A u \in Threads : Vals(o, c)[u] = 0 BY <2>2 DEF Vals
  <2>4. \A u \in Threads : Bal(o, c)[u] = 0 + Due(todo[u], "count", o, c) BY <2>3 DEF Bal
  <2>5. f[t] = Due(s, "count", o, c)
    <3>1. Due(s, "count", o, c) \in Int BY <1>3
    <3> QED BY <2>4, <3>1
  <2>6. \A u \in S \ {t} : f[u] = 0 BY <1>4, <2>4
  <2>7. f[t] \in Int BY <1>3, <2>5
  <2> HIDE DEF f, S
  <2>8. Sum(f, S) = f[t] BY <1>5, <2>6, <2>7, SumAlone DEF S
  <2> QED BY <2>5, <2>8 DEF Counted, f, S
<1>7. ASSUME NEW o \in Objects, NEW g \in Gauges[o] PROVE Moving(o, g) = Due(s, "gauge", o, g)
  <2> DEFINE f == Owed(o, g)
             S == Threads
  <2>1. gauge[o][g].val = 0 BY <1>1 DEF MInit, ZeroGauge
  <2>2. f[t] = Due(s, "gauge", o, g) BY DEF Owed
  <2>3. \A u \in S \ {t} : f[u] = 0 BY <1>4 DEF Owed
  <2>4. f[t] \in Int BY <1>3, <2>2
  <2> HIDE DEF f, S
  <2>5. Sum(f, S) = f[t] BY <1>5, <2>3, <2>4, SumAlone DEF S
  <2>6. Moving(o, g) = 0 + f[t] BY <2>1, <2>5 DEF Moving, f, S
  <2> QED BY <2>2, <2>4, <2>6
<1> QED BY <1>6, <1>7

\* What it says is what there is.
LEMMA CountsInit == Init => CountsInv
<1> SUFFICES ASSUME Init PROVE CountsInv
  OBVIOUS
<1>1. ReportInv /\ Types BY ReportInit DEF ReportInv
<1>2. PICK managed \in BOOLEAN : LET t == Min(Threads) IN
          /\ missed = [enqueues |-> Cardinality(IF managed THEN stored \ queue ELSE stored),
                       txn |-> IF managed THEN 0 ELSE Cardinality(Open)]
          /\ call = [u \in Threads |-> IF u = t THEN [NoCall EXCEPT !.op = "initialize"] ELSE NoCall]
          /\ todo = [u \in Threads |-> IF u # t THEN <<>>
                                       ELSE IF stored = {} THEN InitialSets ELSE Recovered(managed)]
  BY DEF Init
<1>3. PICK t \in Threads : t = Min(Threads) BY MinIn, ThreadsAssumption
<1>4. /\ IsFiniteSet(queue) /\ IsFiniteSet(stored) /\ queue \subseteq stored
      /\ IsFiniteSet(Open) /\ Cardinality(Open) <= 1 /\ DOMAIN adds = Xids /\ DOMAIN takes = Xids
      /\ stored = {} => Open = {}
  BY FiniteRec
<1>5. prepared = Open /\ ended = {} /\ unprepared = {} BY DEF Init
<1>6. IsFiniteSet({}) /\ Cardinality({}) = 0 BY FS_EmptySet
<1>7. /\ Cardinality(Open) \in Nat /\ Cardinality(queue) \in Nat /\ Cardinality(stored) \in Nat
      /\ IsFiniteSet(stored \ queue) /\ Cardinality(stored \ queue) \in Nat
      /\ Cardinality(stored \ queue) = Cardinality(stored) - Cardinality(queue)
  <2>1. stored \cap queue = queue BY <1>4
  <2>2. IsFiniteSet(stored \ queue) /\ Cardinality(stored \ queue) = Cardinality(stored) - Cardinality(stored \cap queue)
    BY <1>4, FS_Difference
  <2> QED BY <1>4, <2>1, <2>2, FS_CardinalityType
<1>8. Open = {} <=> Cardinality(Open) = 0 BY <1>4, FS_EmptySet
<1>9. /\ missed.enqueues = IF managed THEN Cardinality(stored \ queue) ELSE Cardinality(stored)
      /\ missed.txn = IF managed THEN 0 ELSE Cardinality(Open)
  BY <1>2
<1>10. SetsInv BY <1>4, <1>5, <1>6, <1>7, <1>9 DEF SetsInv
<1>11. CallsInv
  <2>1. \A u \in Threads : call[u].x = {} /\ ~(call[u].op \in {"enqueue", "dequeue"})
    BY <1>2 DEF NoCall
  <2> QED BY <2>1 DEF CallsInv
<1>12. GaugeInv
  <2>1. MInit BY DEF Init
  <2>2. ZeroGauge \in GaugeVals BY WordsAre DEF ZeroGauge, GaugeVals
  <2> QED BY <2>1, <2>2 DEF GaugeInv, MInit
<1>13. PICK s : s = todo[t] OBVIOUS
<1>14. s = IF stored = {} THEN InitialSets ELSE Recovered(managed) BY <1>2, <1>3, <1>13
<1>15. \A u \in Threads : u # t => todo[u] = <<>> BY <1>2, <1>3
<1>16. /\ \A o \in Objects : \A c \in Counters[o] : Counted(o, c) = Due(s, "count", o, c)
       /\ \A o \in Objects : \A g \in Gauges[o] : Moving(o, g) = Due(s, "gauge", o, g)
  BY <1>1, <1>13, <1>15, FreshCounts
<1>17. ASSUME NEW a1, NEW a2, NEW a3, NEW a4, NEW a5, NEW a6, Adds(s, a1, a2, a3, a4, a5, a6)
       PROVE /\ Begun = a1 /\ Taken = a2 /\ Gone = a3 /\ Depth = a4 /\ TplDepth = a5 /\ Ends = a6
  <2>1. /\ Journal \in Objects /\ Store \in Objects
        /\ "enqueues" \in Counters[Journal] /\ "dequeues" \in Counters[Journal] /\ "txn" \in Counters[Journal]
        /\ "recordDepth" \in Gauges[Journal] /\ "tplTransactionDepth" \in Gauges[Store]
        /\ "tplTxnCommits" \in Counters[Store] /\ "tplTxnAborts" \in Counters[Store]
    BY InstrumentedAssumption
  <2>2. Begun = a1 /\ Taken = a2 /\ Gone = a3 BY <1>16, <1>17, <2>1 DEF Adds, Begun, Taken, Gone
  <2>3. Depth = a4 /\ TplDepth = a5 BY <1>16, <1>17, <2>1 DEF Adds, Depth, TplDepth
  <2>4. Ends = a6 BY <1>16, <1>17, <2>1 DEF Adds, Ends
  <2> QED BY <2>2, <2>3, <2>4
<1>18. /\ OpenSeen = Cardinality(Open) - missed.txn /\ StoredSeen = Cardinality(stored) - missed.enqueues
       /\ PreparedSeen = Cardinality(Open) - missed.txn /\ Cardinality(ended) = 0
  BY <1>5, <1>6, <1>7, <1>9 DEF OpenSeen, StoredSeen, PreparedSeen
<1>19. TotalsInv
  <2>1. CASE stored = {}
    <3>1. Begun = 0 /\ Taken = 0 /\ Gone = 0 /\ Depth = 0 /\ TplDepth = 0 /\ Ends = 0
      BY <1>14, <1>17, <2>1, AddsSets
    <3>2. OpenSeen = 0 /\ PreparedSeen = 0
      <4>1. Open = {} BY <1>4, <2>1
      <4>2. Cardinality(Open) = 0 BY <1>8, <4>1
      <4>3. missed.txn = 0 BY <1>9, <4>2
      <4> QED BY <1>18, <4>2, <4>3
    <3>3. StoredSeen = 0
      <4>1. Cardinality(stored) = 0 /\ Cardinality(stored \ queue) = 0 BY <1>6, <2>1
      <4> QED BY <1>9, <1>18, <4>1
    <3> QED BY <1>18, <3>1, <3>2, <3>3 DEF TotalsInv
  <2>2. CASE stored # {} /\ ~managed
    <3>1. Adds(s, 0, 0, 0, 0, 0, 0) BY <1>14, <2>2, AddsRecovered
    <3>2. Begun = 0 /\ Taken = 0 /\ Gone = 0 /\ Depth = 0 /\ TplDepth = 0 /\ Ends = 0
      BY <1>17, <3>1
    <3>3. OpenSeen = 0 /\ PreparedSeen = 0 /\ StoredSeen = 0 BY <1>7, <1>9, <1>18, <2>2
    <3> QED BY <1>18, <3>2, <3>3 DEF TotalsInv
  <2>3. CASE stored # {} /\ managed
    <3>1. Adds(s, Cardinality(Open), Cardinality(queue), 0, Cardinality(queue), IF prepared = {} THEN 0 ELSE 1, 0)
      BY <1>14, <2>3, AddsRecovered
    <3>2. /\ Begun = Cardinality(Open) /\ Taken = Cardinality(queue) /\ Gone = 0 /\ Depth = Cardinality(queue)
          /\ TplDepth = (IF prepared = {} THEN 0 ELSE 1) /\ Ends = 0
      BY <1>17, <3>1
    <3>3. OpenSeen = Cardinality(Open) /\ PreparedSeen = Cardinality(Open) BY <1>7, <1>9, <1>18, <2>3
    <3>4. StoredSeen = Cardinality(queue) BY <1>7, <1>9, <1>18, <2>3
    <3>5. TplDepth = Cardinality(Open) BY <1>4, <1>5, <1>7, <1>8, <3>2
    <3>6. Depth = Taken - Gone BY <1>7, <3>2
    <3> QED BY <1>18, <3>2, <3>3, <3>4, <3>5, <3>6 DEF TotalsInv
  <2> QED BY <2>1, <2>2, <2>3
<1> QED BY <1>1, <1>10, <1>11, <1>12, <1>19 DEF CountsInv

\* A word is its own remainder.
LEMMA WordIs == \A v \in 0 .. Words - 1 : Wrap(v) = v
<1> TAKE v \in 0 .. Words - 1
<1>1. \A w \in Nat \ {0} : \A x \in 0 .. w - 1 : x % w = x OBVIOUS
<1> QED BY <1>1, WordsAre DEF Wrap

\* When nobody is counting, the totals are what the objects say.
LEMMA IdleTotals ==
    ASSUME Types, GaugeInv, Idle
    PROVE  /\ \A o \in Objects : \A c \in Counters[o] : Total(o, c) = Wrap(Counted(o, c))
           /\ \A o \in Objects : \A g \in Gauges[o] : gauge[o][g].val = Wrap(Moving(o, g))
<1>1. \A k, o, w : \A u \in Threads : Due(todo[u], k, o, w) = 0 BY DueEmpty DEF Idle
<1>2. IsFiniteSet(Threads) BY ThreadsAssumption
<1>3. ASSUME NEW o \in Objects, NEW c \in Counters[o] PROVE Total(o, c) = Wrap(Counted(o, c))
  <2> DEFINE f == Bal(o, c)
             h == Vals(o, c)
             S == Threads
  <2>1. \A u \in S : f[u] = h[u]
    <3> TAKE u \in S
    <3>1. f[u] = h[u] + 0 BY <1>1 DEF Bal
    <3>2. h[u] \in Int BY ValsInt
    <3> QED BY <3>1, <3>2
  <2> HIDE DEF f, h, S
  <2>2. Sum(f, S) = Sum(h, S) BY <1>2, <2>1, SumSame DEF S
  <2>3. Total(o, c) = Wrap(Sum(h, S)) BY TotalIs DEF h, S
  <2> QED BY <2>2, <2>3 DEF Counted, f, S
<1>4. ASSUME NEW o \in Objects, NEW g \in Gauges[o] PROVE gauge[o][g].val = Wrap(Moving(o, g))
  <2> DEFINE f == Owed(o, g)
             S == Threads
  <2>1. \A u \in S : f[u] = 0 BY <1>1 DEF Owed
  <2> HIDE DEF f, S
  <2>2. Sum(f, S) = 0 BY <1>2, <2>1, SumZero DEF S
  <2>3. gauge[o][g].val \in 0 .. Words - 1 /\ gauge[o][g].val \in Int BY OwedInt
  <2>4. Moving(o, g) = gauge[o][g].val + 0 BY <2>2 DEF Moving, f, S
  <2>5. Moving(o, g) = gauge[o][g].val BY <2>3, <2>4
  <2> QED BY <2>3, <2>5, WordIs
<1> QED BY <1>3, <1>4

\* So the counters agree with the journal whenever nobody is counting.
LEMMA CountsImply == CountsInv => CountsAgree
<1> SUFFICES ASSUME CountsInv, Idle PROVE JournalCounts /\ StoreCounts
  BY DEF CountsAgree
<1>1. Types /\ GaugeInv /\ TotalsInv BY DEF CountsInv, ReportInv
<1>2. /\ \A o \in Objects : \A c \in Counters[o] : Total(o, c) = Wrap(Counted(o, c))
      /\ \A o \in Objects : \A g \in Gauges[o] : gauge[o][g].val = Wrap(Moving(o, g))
  BY <1>1, IdleTotals
<1>3. /\ Journal \in Objects /\ Store \in Objects
      /\ "enqueues" \in Counters[Journal] /\ "dequeues" \in Counters[Journal] /\ "txn" \in Counters[Journal]
      /\ "recordDepth" \in Gauges[Journal] /\ "tplTransactionDepth" \in Gauges[Store]
      /\ "tplTxnCommits" \in Counters[Store] /\ "tplTxnAborts" \in Counters[Store]
  BY InstrumentedAssumption
<1>4. /\ Total(Journal, "txn") = Wrap(Begun) /\ Total(Journal, "enqueues") = Wrap(Taken)
      /\ Total(Journal, "dequeues") = Wrap(Gone)
      /\ gauge[Journal]["recordDepth"].val = Wrap(Depth)
      /\ gauge[Store]["tplTransactionDepth"].val = Wrap(TplDepth)
  BY <1>2, <1>3 DEF Begun, Taken, Gone, Depth, TplDepth
<1>5. TotalsInt BY <1>1, TotalTypes
<1>6. ASSUME NEW x \in Int, NEW y \in Int
      PROVE Wrap(Wrap(x) + Wrap(y)) = Wrap(x + y) /\ Wrap(Wrap(x) - Wrap(y)) = Wrap(x - y)
  <2> DEFINE u == Wrap(x)
             v == Wrap(y)
  <2>1. u \in Int /\ v \in Int /\ Wrap(u) = Wrap(x) /\ Wrap(v) = Wrap(y) BY WrapRange, WordsAre
  <2> HIDE DEF u, v
  <2>2. Wrap(u + v) = Wrap(x + y) /\ Wrap(u - v) = Wrap(x - y) BY <2>1, WrapPair
  <2> QED BY <2>2 DEF u, v
<1>7. Wrap(Total(Journal, "enqueues") - Total(Journal, "dequeues")) = Wrap(Taken - Gone)
  BY <1>4, <1>5, <1>6 DEF TotalsInt
<1>8. Wrap(Total(Store, "tplTxnCommits") + Total(Store, "tplTxnAborts")) = Wrap(Ends)
  <2>1. /\ Total(Store, "tplTxnCommits") = Wrap(Counted(Store, "tplTxnCommits"))
        /\ Total(Store, "tplTxnAborts") = Wrap(Counted(Store, "tplTxnAborts"))
    BY <1>2, <1>3
  <2>2. Counted(Store, "tplTxnCommits") \in Int /\ Counted(Store, "tplTxnAborts") \in Int BY <1>5 DEF TotalsInt
  <2> QED BY <1>6, <2>1, <2>2 DEF Ends
<1>9. JournalCounts BY <1>1, <1>4, <1>7 DEF JournalCounts, TotalsInv, OpenSeen, StoredSeen
<1>10. StoreCounts BY <1>1, <1>4, <1>8 DEF StoreCounts, TotalsInv, PreparedSeen
<1> QED BY <1>9, <1>10

\* When all calls made have been counted, the counters follow from the journal and the
\* transactions, although one thread counts up what another counts down and words wrap.
THEOREM CountsAgreeAlways == Spec => []CountsAgree
<1> QED BY CountsInit, CountsStep, CountsImply, PTL DEF Spec
=============================================================================
