--------------------------- MODULE Journal2Proofs ---------------------------
(***************************************************************************)
(* For any number of threads and messages: no two threads of module        *)
(* Journal2 work on the same callback list, and every token is in exactly  *)
(* one place from its enqueue to its deletion.                             *)
(***************************************************************************)
EXTENDS Journal2, FiniteSetTheorems, SequenceTheorems, TLAPS

\* What a thread is doing tells which locks it holds and which list it works
\* on: the list that is filled is the one the switch names, and the one that
\* is emptied is the other, as long as the switch needs both locks.
Holds(t) ==
    /\ pc[t] \in {"pushing", "move", "switching"} => writeLock = t
    /\ pc[t] \in {"deliver", "switching"} => cbLock = t
    /\ pc[t] = "move" => idx[t] = switch
    /\ pc[t] = "deliver" => idx[t] = ~switch

IInv ==
    /\ pc \in [Threads -> {"start", "loop", "push", "pushing", "move", "process",
                           "deliver", "switching", "ended"}]
    /\ idx \in [Threads -> BOOLEAN]
    /\ switch \in BOOLEAN
    /\ \A t \in Threads : Holds(t)

\* No thread has the number that stands for a free lock.
LEMMA FreeIsNobody == Free \notin Threads
  BY Journal2Assumption, SMT DEF Threads, Free

\* At the start nobody holds anything.
LEMMA InitHolds == Init => IInv
  BY DEF Init, IInv, Holds

\* The step of a thread takes only a free lock and gives back only its own.
LEMMA StepHolds == ASSUME IInv, NEW t \in Threads, ThreadStep(t) PROVE IInv'
<1> USE FreeIsNobody DEF IInv, Holds, Goes
<1>1. CASE Start(t) BY <1>1 DEF Start, lists
<1>2. CASE Create(t) BY <1>2 DEF Create, lists
<1>3. CASE Take(t) BY <1>3 DEF Take
<1>4. CASE Poll(t) BY <1>4 DEF Poll, lists
<1>5. CASE Lock(t) BY <1>5 DEF Lock, lists
<1>6. CASE Push(t)
  <2>1. CASE Len(writeList) + 1 >= Threshold BY <1>6, <2>1 DEF Push
  <2>2. CASE ~(Len(writeList) + 1 >= Threshold) BY <1>6, <2>2 DEF Push
  <2> QED BY <2>1, <2>2
<1>7. CASE Flush(t)
  <2>1. CASE writeLock = Free BY <1>7, <2>1 DEF Flush, lists
  <2>2. CASE writeLock # Free BY <1>7, <2>2 DEF Flush, lists
  <2> QED BY <2>1, <2>2
<1>8. CASE Move(t) BY <1>8 DEF Move
<1>9. CASE Process(t)
  <2>1. CASE cbLock = Free BY <1>9, <2>1 DEF Process, lists
  <2>2. CASE cbLock # Free BY <1>9, <2>2 DEF Process, Processed, lists
  <2> QED BY <2>1, <2>2
<1>10. CASE Deliver(t) BY <1>10 DEF Deliver
<1>11. CASE Switch(t) BY <1>11 DEF Switch, Processed
<1> QED BY <1>1, <1>2, <1>3, <1>4, <1>5, <1>6, <1>7, <1>8, <1>9, <1>10, <1>11
        DEF ThreadStep

\* Two threads cannot hold one lock, so one fills and the other empties.
LEMMA HoldsApart == IInv => ListsApart
  BY FreeIsNobody DEF IInv, Holds, ListsApart

\* The lists are plain vectors without a lock of their own: no two threads
\* ever work on the same one (flushNoLock(), processCompletedAioWriteEvents()).
THEOREM NoListShared == Spec => []ListsApart
<1>1. IInv /\ [Next]_vars => IInv'
  <2> SUFFICES ASSUME IInv, [Next]_vars PROVE IInv'
    OBVIOUS
  <2>1. CASE Next BY <2>1, StepHolds DEF Next
  <2>2. CASE UNCHANGED vars BY <2>2 DEF vars, lists, IInv, Holds
  <2> QED BY <2>1, <2>2
<1> QED BY InitHolds, <1>1, HoldsApart, PTL DEF Spec

-----------------------------------------------------------------------------
(* How often a token occurs in a list, as the lists change.                *)

\* The places of k in s.
At(k, s) == {i \in DOMAIN s : s[i] = k}

\* A token occurs a natural number of times, and at all only where it is listed.
LEMMA OccursNat == \A s \in Seq(Tokens) : \A k :
    /\ At(k, s) \subseteq 1 .. Len(s) /\ IsFiniteSet(At(k, s))
    /\ Occurs(k, s) = Cardinality(At(k, s)) /\ Occurs(k, s) \in Nat
    /\ k \notin Tokens => Occurs(k, s) = 0
<1> TAKE s \in Seq(Tokens)
<1> TAKE k
<1>1. At(k, s) \subseteq 1 .. Len(s)
  BY DEF At
<1>2. IsFiniteSet(1 .. Len(s))
  BY FS_Interval
<1>3. IsFiniteSet(At(k, s)) /\ Cardinality(At(k, s)) \in Nat
  BY <1>1, <1>2, FS_Subset, FS_CardinalityType
<1>4. k \notin Tokens => At(k, s) = {}
  BY ElementOfSeq DEF At
<1> QED BY <1>1, <1>3, <1>4, FS_EmptySet DEF Occurs, At

\* Nothing is in an empty list.
LEMMA OccursEmpty == \A k : Occurs(k, <<>>) = 0
<1> TAKE k
<1>1. {i \in DOMAIN <<>> : <<>>[i] = k} = {}
  OBVIOUS
<1> QED BY <1>1, FS_EmptySet DEF Occurs

\* What is in a list occurs in it, and once is at one place.
LEMMA OccursIn == \A s \in Seq(Tokens) : \A i \in DOMAIN s : Occurs(s[i], s) > 0
<1> SUFFICES ASSUME NEW s \in Seq(Tokens), NEW i \in DOMAIN s PROVE Occurs(s[i], s) > 0
  OBVIOUS
<1>1. i \in At(s[i], s)
  BY DEF At
<1>2. At(s[i], s) # {}
  BY <1>1
<1>3. IsFiniteSet(At(s[i], s)) /\ Occurs(s[i], s) \in Nat /\ Occurs(s[i], s) = Cardinality(At(s[i], s))
  BY OccursNat
<1> QED BY <1>2, <1>3, FS_EmptySet

\* push_back(): one occurrence more, of that token only.
LEMMA OccursAppend == \A s \in Seq(Tokens), e \in Tokens : \A k :
    Occurs(k, Append(s, e)) = Occurs(k, s) + (IF k = e THEN 1 ELSE 0)
<1> SUFFICES ASSUME NEW s \in Seq(Tokens), NEW e \in Tokens, NEW k
             PROVE  Occurs(k, Append(s, e)) = Occurs(k, s) + (IF k = e THEN 1 ELSE 0)
  OBVIOUS
<1>1. /\ Append(s, e) \in Seq(Tokens) /\ Len(Append(s, e)) = Len(s) + 1
      /\ \A i \in 1 .. Len(s) : Append(s, e)[i] = s[i]
      /\ Append(s, e)[Len(s) + 1] = e
      /\ Len(s) \in Nat /\ DOMAIN s = 1 .. Len(s) /\ DOMAIN Append(s, e) = 1 .. Len(s) + 1
  BY AppendProperties
<1>2. At(k, Append(s, e)) = IF k = e THEN At(k, s) \cup {Len(s) + 1} ELSE At(k, s)
  <2>1. \A i : i \in 1 .. Len(s) + 1 <=> i \in 1 .. Len(s) \/ i = Len(s) + 1
    BY <1>1
  <2> QED BY <1>1, <2>1 DEF At
<1>3. Len(s) + 1 \notin At(k, s) /\ IsFiniteSet(At(k, s)) /\ Occurs(k, s) \in Nat
      /\ Occurs(k, s) = Cardinality(At(k, s))
  BY <1>1, OccursNat
<1>4. Occurs(k, Append(s, e)) = Cardinality(At(k, Append(s, e)))
  BY <1>1, OccursNat
<1> DEFINE A == At(k, s)
           n == Len(s) + 1
<1> HIDE DEF A, n
<1>5. IsFiniteSet(A) /\ n \notin A => Cardinality(A \cup {n}) = Cardinality(A) + 1
  BY FS_AddElement
<1> QED BY <1>2, <1>3, <1>4, <1>5 DEF A, n

\* A list without its last element, and without its first.
LEMMA OccursFront == \A s \in Seq(Tokens) : s # <<>> =>
    /\ Front(s) \in Seq(Tokens) /\ Last(s) \in Tokens
    /\ \A k : Occurs(k, s) = Occurs(k, Front(s)) + (IF k = Last(s) THEN 1 ELSE 0)
<1> SUFFICES ASSUME NEW s \in Seq(Tokens), s # <<>>
             PROVE  /\ Front(s) \in Seq(Tokens) /\ Last(s) \in Tokens
                    /\ \A k : Occurs(k, s)
                              = Occurs(k, Front(s)) + (IF k = Last(s) THEN 1 ELSE 0)
  OBVIOUS
<1>1. PICK r \in Seq(Tokens), e \in Tokens : s = Append(r, e)
  BY SequenceEmptyOrAppend
<1>2. /\ Len(r) \in Nat /\ Len(s) = Len(r) + 1 /\ s[Len(r) + 1] = e
      /\ \A i \in 1 .. Len(r) : s[i] = r[i]
  BY <1>1, AppendProperties
<1>3. Last(s) = e
  BY <1>2 DEF Last
<1>4. Front(s) = r
  <2>1. \A i \in 1 .. Len(r) : s[i] \in Tokens
    BY <1>2, ElementOfSeq
  <2>2. /\ SubSeq(s, 1, Len(r)) \in Seq(Tokens)
        /\ Len(SubSeq(s, 1, Len(r))) = Len(r)
        /\ \A i \in 1 .. Len(r) : SubSeq(s, 1, Len(r))[i] = r[i]
    BY <1>2, <2>1, SubSeqProperties
  <2>3. SubSeq(s, 1, Len(r)) = r
    BY <2>2, SeqEqual
  <2> QED BY <1>2, <2>3 DEF Front
<1> QED BY <1>1, <1>3, <1>4, OccursAppend

\* Two lists, and the second turned round: as many places as places in both.
LEMMA OccursShifted ==
    ASSUME NEW A, NEW B, NEW C, IsFiniteSet(A), IsFiniteSet(B), NEW g \in [B -> C],
           g \in Bijection(B, C), A \cap C = {}
    PROVE  Cardinality(A \cup C) = Cardinality(A) + Cardinality(B)
<1>1. ExistsBijection(B, C)
  BY DEF ExistsBijection
<1>2. IsFiniteSet(C) /\ Cardinality(C) = Cardinality(B)
  BY <1>1, FS_Bijection
<1>3. Cardinality(A) \in Nat /\ Cardinality(B) \in Nat
  BY FS_CardinalityType
<1>4. Cardinality(A \cup C) = Cardinality(A) + Cardinality(C) - Cardinality(A \cap C)
  BY <1>2, FS_Union
<1>5. Cardinality(A \cap C) = 0
  BY FS_EmptySet
<1> QED BY <1>2, <1>3, <1>4, <1>5

\* The first token of a list is taken: one occurrence less, of that token only.
LEMMA OccursTail == \A s \in Seq(Tokens) : s # <<>> =>
    /\ Tail(s) \in Seq(Tokens) /\ Head(s) \in Tokens
    /\ \A k : Occurs(k, s) = Occurs(k, Tail(s)) + (IF k = Head(s) THEN 1 ELSE 0)
<1> SUFFICES ASSUME NEW s \in Seq(Tokens), s # <<>>, NEW k
             PROVE  /\ Tail(s) \in Seq(Tokens) /\ Head(s) \in Tokens
                    /\ Occurs(k, s) = Occurs(k, Tail(s)) + (IF k = Head(s) THEN 1 ELSE 0)
  OBVIOUS
<1>1. /\ Tail(s) \in Seq(Tokens) /\ Head(s) \in Tokens /\ Head(s) = s[1]
      /\ Len(Tail(s)) = Len(s) - 1 /\ Len(s) \in Nat /\ Len(s) > 0
      /\ \A i \in 1 .. Len(Tail(s)) : Tail(s)[i] = s[i + 1]
  BY HeadTailProperties, EmptySeq
<1> DEFINE A == {i \in {1} : s[i] = k}
           B == At(k, Tail(s))
           C == {i \in 2 .. Len(s) : s[i] = k}
           g == [i \in B |-> i + 1]
<1>2. B \subseteq 1 .. Len(s) - 1 /\ IsFiniteSet(B) /\ Occurs(k, Tail(s)) = Cardinality(B)
      /\ Occurs(k, Tail(s)) \in Nat
  BY <1>1, OccursNat
<1>3. g \in [B -> C]
  BY <1>1, <1>2 DEF At
<1>4. g \in Injection(B, C)
  BY <1>2, <1>3 DEF Injection, IsInjective
<1>5. g \in Surjection(B, C)
  <2>1. \A c \in C : c - 1 \in B /\ g[c - 1] = c
    BY <1>1 DEF At
  <2> QED BY <1>3, <2>1 DEF Surjection
<1>6. g \in Bijection(B, C)
  BY <1>4, <1>5 DEF Bijection
<1>7. At(k, s) = A \cup C
  BY <1>1 DEF At
<1>8. A \cap C = {}
  OBVIOUS
<1>9. A = IF k = Head(s) THEN {1} ELSE {}
  BY <1>1
<1>10. IsFiniteSet(A) /\ Cardinality(A) = IF k = Head(s) THEN 1 ELSE 0
  <2>1. IsFiniteSet({1}) /\ Cardinality({1}) = 1
    BY FS_Singleton
  <2> HIDE DEF A
  <2> QED BY <1>9, <2>1, FS_EmptySet
<1>11. Occurs(k, s) = Cardinality(At(k, s))
  BY OccursNat
<1> HIDE DEF A, B, C, g
<1>12. Cardinality(A \cup C) = Cardinality(A) + Cardinality(B)
  BY <1>2, <1>3, <1>6, <1>8, <1>10, OccursShifted
<1> QED BY <1>1, <1>2, <1>7, <1>10, <1>11, <1>12

\* A list is emptied, last token first, onto another (flushNoLock()): nothing is lost.
LEMMA OccursMoved == \A s, r \in Seq(Tokens) :
    /\ s \o Reverse(r) \in Seq(Tokens)
    /\ \A k : Occurs(k, s \o Reverse(r)) = Occurs(k, s) + Occurs(k, r)
<1> SUFFICES ASSUME NEW s \in Seq(Tokens), NEW r \in Seq(Tokens), NEW k
             PROVE  /\ s \o Reverse(r) \in Seq(Tokens)
                    /\ Occurs(k, s \o Reverse(r)) = Occurs(k, s) + Occurs(k, r)
  OBVIOUS
<1>1. /\ Len(s) \in Nat /\ Len(r) \in Nat /\ DOMAIN s = 1 .. Len(s) /\ DOMAIN r = 1 .. Len(r)
      /\ \A i \in 1 .. Len(r) : r[i] \in Tokens
  BY ElementOfSeq
<1>2. /\ Reverse(r) \in [1 .. Len(r) -> Tokens]
      /\ \A i \in 1 .. Len(r) : Reverse(r)[i] = r[Len(r) - i + 1]
  BY <1>1 DEF Reverse
<1>3. Reverse(r) \in Seq(Tokens) /\ Len(Reverse(r)) = Len(r)
  BY <1>1, <1>2
<1>4. /\ s \o Reverse(r) \in Seq(Tokens) /\ Len(s \o Reverse(r)) = Len(s) + Len(r)
      /\ \A i \in 1 .. Len(s) + Len(r) : (s \o Reverse(r))[i] =
             IF i <= Len(s) THEN s[i] ELSE Reverse(r)[i - Len(s)]
  <2> DEFINE rr == Reverse(r)
  <2> HIDE DEF rr
  <2>1. rr \in Seq(Tokens) /\ Len(rr) = Len(r)
    BY <1>3 DEF rr
  <2>2. /\ s \o rr \in Seq(Tokens) /\ Len(s \o rr) = Len(s) + Len(rr)
        /\ \A i \in 1 .. Len(s) + Len(rr) : (s \o rr)[i] =
               IF i <= Len(s) THEN s[i] ELSE rr[i - Len(s)]
    BY <2>1, ConcatProperties
  <2> QED BY <2>1, <2>2 DEF rr
<1> DEFINE n == Len(s) + Len(r)
           A == At(k, s)
           B == At(k, r)
           C == {i \in Len(s) + 1 .. n : (s \o Reverse(r))[i] = k}
           g == [i \in B |-> n + 1 - i]
<1>5. \A i \in Len(s) + 1 .. n : (s \o Reverse(r))[i] = r[n + 1 - i] /\ n + 1 - i \in 1 .. Len(r)
  BY <1>1, <1>2, <1>4
<1>6. g \in [B -> C]
  <2>1. \A i \in 1 .. Len(r) : n + 1 - i \in Len(s) + 1 .. n /\ n + 1 - (n + 1 - i) = i
    BY <1>1
  <2> QED BY <1>1, <1>5, <2>1 DEF At
<1>7. g \in Injection(B, C)
  <2>1. \A i, j \in 1 .. Len(r) : n + 1 - i = n + 1 - j => i = j
    BY <1>1
  <2>2. B \subseteq 1 .. Len(r)
    BY <1>1 DEF At
  <2>3. \A i, j \in B : g[i] = g[j] => i = j
    BY <2>1, <2>2
  <2> HIDE DEF g, B, C
  <2> QED BY <1>6, <2>3 DEF Injection, IsInjective
<1>8. g \in Surjection(B, C)
  <2>1. ASSUME NEW c \in C PROVE n + 1 - c \in B /\ g[n + 1 - c] = c
    <3>1. c \in Len(s) + 1 .. n /\ r[n + 1 - c] = k /\ n + 1 - c \in 1 .. Len(r)
      BY <1>5
    <3>2. n + 1 - c \in B
      BY <1>1, <3>1 DEF At
    <3>3. n + 1 - (n + 1 - c) = c
      BY <1>1, <3>1
    <3> QED BY <3>2, <3>3
  <2> QED BY <1>6, <2>1 DEF Surjection
<1>9. g \in Bijection(B, C)
  BY <1>7, <1>8 DEF Bijection
<1>10. At(k, s \o Reverse(r)) = A \cup C
  <2>1. DOMAIN (s \o Reverse(r)) = 1 .. n
    BY <1>4
  <2>2. \A i \in 1 .. Len(s) : (s \o Reverse(r))[i] = s[i]
    BY <1>1, <1>4
  <2>3. \A i : i \in 1 .. n <=> i \in 1 .. Len(s) \/ i \in Len(s) + 1 .. n
    BY <1>1
  <2> QED BY <1>1, <2>1, <2>2, <2>3 DEF At
<1>11. A \cap C = {}
  BY <1>1 DEF At
<1>12. /\ IsFiniteSet(A) /\ IsFiniteSet(B)
       /\ Occurs(k, s) = Cardinality(A) /\ Occurs(k, r) = Cardinality(B)
       /\ Occurs(k, s \o Reverse(r)) = Cardinality(At(k, s \o Reverse(r)))
  BY <1>4, OccursNat
<1> HIDE DEF A, B, C, g
<1>13. Cardinality(A \cup C) = Cardinality(A) + Cardinality(B)
  BY <1>6, <1>9, <1>11, <1>12, OccursShifted
<1> QED BY <1>4, <1>10, <1>12, <1>13

-----------------------------------------------------------------------------
(* The threads, and the tokens they make.                                  *)

\* Half of the threads enqueue: they start in turn, and alternate.
Enqueuers == {t \in Threads : t % 2 = 1}
Holding(t) == pc[t] \in {"push", "pushing"}

\* The tokens made so far, by the thread and the number of the message.
Made == {m \in Enqueuers \X (1 .. NumMsgs) :
             m[2] <= cnt[m[1]] + (IF Holding(m[1]) THEN 1 ELSE 0)}

StartInv == \E m \in 0 .. 2 * Pairs :
    /\ {t \in Threads : pc[t] # "start"} = 1 .. m
    /\ threadSwitch <=> m % 2 = 1

\* A thread has a token exactly while it enqueues or dequeues it.
ThreadInv ==
    /\ role \in [Threads -> {"none", "enq", "deq"}] /\ cnt \in [Threads -> 0 .. NumMsgs]
    /\ tok \in [Threads -> Tokens \cup {NoToken}] /\ threadSwitch \in BOOLEAN
    /\ \A t \in Threads :
           /\ role[t] = IF pc[t] = "start" THEN "none" ELSE IF t % 2 = 1 THEN "enq" ELSE "deq"
           /\ pc[t] = "start" => cnt[t] = 0
           /\ tok[t] # NoToken <=> Holding(t)
           /\ Holding(t) => cnt[t] < NumMsgs

\* Tokens are numbered as they are made, and none before it is made is anywhere.
MadeInv ==
    /\ nextRecordId = Cardinality(Made)
    /\ \A k \in Tokens : opState[k] = "NONE" <=> k > nextRecordId

ListTypes ==
    /\ opState \in [Tokens -> {"NONE", "ENQUEUE", "DEQUEUE", "DELETED"}]
    /\ writeList \in Seq(Tokens) /\ cbList \in [BOOLEAN -> Seq(Tokens)]
    /\ unproc \in Seq(Tokens)

TokenInv == IInv /\ StartInv /\ ThreadInv /\ MadeInv /\ ListTypes /\ TokensAccounted

\* The sizes are numbers, and no token stands for having none.
LEMMA SizesNat == /\ Pairs \in Nat \ {0} /\ NumMsgs \in Nat \ {0} /\ Pairs * NumMsgs \in Nat
                  /\ NoToken \notin Tokens
BY Journal2Assumption DEF Tokens, NoToken

\* No more than half of the threads enqueue, so no more tokens are made than there are.
LEMMA MadeBound == /\ IsFiniteSet(Made) /\ Cardinality(Made) \in 0 .. Pairs * NumMsgs
                   /\ IsFiniteSet(Threads)
                   /\ \A m : m \in Enqueuers \X (1 .. NumMsgs) /\ m \notin Made =>
                          Cardinality(Made) < Pairs * NumMsgs
<1> DEFINE All == Enqueuers \X (1 .. NumMsgs)
           g == [i \in 1 .. Pairs |-> 2 * i - 1]
<1>1. g \in Surjection(1 .. Pairs, Enqueuers)
  <2>1. \A i \in 1 .. Pairs : 2 * i - 1 \in 1 .. 2 * Pairs /\ (2 * i - 1) % 2 = 1
    BY SizesNat
  <2>2. g \in [1 .. Pairs -> Enqueuers]
    BY <2>1 DEF Enqueuers, Threads
  <2>3. \A t \in Enqueuers : \E i \in 1 .. Pairs : g[i] = t
    <3> TAKE t \in Enqueuers
    <3>1. t \in 1 .. 2 * Pairs /\ t % 2 = 1
      BY DEF Enqueuers, Threads
    <3>2. (t + 1) \div 2 \in 1 .. Pairs /\ 2 * ((t + 1) \div 2) - 1 = t
      BY <3>1, SizesNat
    <3>3. g[(t + 1) \div 2] = t
      BY <3>2
    <3> QED BY <3>2, <3>3
  <2> HIDE DEF g
  <2> QED BY <2>2, <2>3 DEF Surjection
<1>2. IsFiniteSet(1 .. Pairs) /\ Cardinality(1 .. Pairs) = Pairs
  BY SizesNat, FS_Interval
<1>3. IsFiniteSet(Enqueuers) /\ Cardinality(Enqueuers) <= Pairs /\ Cardinality(Enqueuers) \in Nat
  <2> HIDE DEF g
  <2> QED BY <1>1, <1>2, FS_Surjection, FS_CardinalityType
<1>4. IsFiniteSet(1 .. NumMsgs) /\ Cardinality(1 .. NumMsgs) = NumMsgs
  BY SizesNat, FS_Interval
<1>5. IsFiniteSet(All) /\ Cardinality(All) = Cardinality(Enqueuers) * NumMsgs
  BY <1>3, <1>4, FS_Product
<1>6. \A n \in Nat : n <= Pairs => n * NumMsgs <= Pairs * NumMsgs
  BY SizesNat
<1>7. Cardinality(All) <= Pairs * NumMsgs /\ Cardinality(All) \in Nat
  BY <1>3, <1>5, <1>6, FS_CardinalityType
<1>8. Made \subseteq All
  BY DEF Made
<1> HIDE DEF All
<1>9. IsFiniteSet(Made) /\ Cardinality(Made) <= Cardinality(All) /\ Cardinality(Made) \in Nat
      /\ (Cardinality(All) = Cardinality(Made) => All = Made)
  BY <1>5, <1>8, FS_Subset, FS_CardinalityType
<1>10. \A m \in All : m \notin Made => Cardinality(Made) < Pairs * NumMsgs
  BY <1>7, <1>9, SizesNat
<1>11. IsFiniteSet(Threads)
  BY SizesNat, FS_Interval DEF Threads
<1> QED BY <1>7, <1>9, <1>10, <1>11, SizesNat DEF All

\* Threads that hold token k.
Holders(k) == {t \in Threads : tok[t] = k}

\* A thread that takes a token, or lets it go, is one holder more or less of it.
LEMMA HoldersChange ==
    ASSUME ThreadInv, NEW t \in Threads, NEW e, tok' = [tok EXCEPT ![t] = e]
    PROVE  \A k \in Tokens :
               Cardinality(Holders(k))' = Cardinality(Holders(k))
                   + (IF k = e /\ k # tok[t] THEN 1 ELSE 0)
                   - (IF k = tok[t] /\ k # e THEN 1 ELSE 0)
<1> TAKE k \in Tokens
<1>1. \A u \in Threads : tok'[u] = IF u = t THEN e ELSE tok[u]
  BY DEF ThreadInv
<1>2. IsFiniteSet(Holders(k)) /\ Cardinality(Holders(k)) \in Nat
  BY MadeBound, FS_Subset, FS_CardinalityType DEF Holders
<1>3. CASE k = e /\ k # tok[t]
  <2>1. Holders(k)' = Holders(k) \cup {t} /\ t \notin Holders(k)
    BY <1>1, <1>3 DEF Holders
  <2>2. Cardinality(Holders(k) \cup {t}) = Cardinality(Holders(k)) + 1
    BY <1>2, <2>1, FS_AddElement
  <2> QED BY <1>2, <1>3, <2>1, <2>2
<1>4. CASE k = tok[t] /\ k # e
  <2>1. Holders(k)' = Holders(k) \ {t} /\ t \in Holders(k)
    BY <1>1, <1>4 DEF Holders
  <2>2. Cardinality(Holders(k) \ {t}) = Cardinality(Holders(k)) - 1
    BY <1>2, <2>1, FS_RemoveElement
  <2> QED BY <1>2, <1>4, <2>1, <2>2
<1>5. CASE (k = e) <=> (k = tok[t])
  <2>1. Holders(k)' = Holders(k)
    BY <1>1, <1>5 DEF Holders
  <2> QED BY <1>2, <1>5, <2>1
<1> QED BY <1>3, <1>4, <1>5

\* The next token is within bounds, and has not been used.
LEMMA TokenFresh == ASSUME TokenInv, NEW t \in Threads, Create(t)
    PROVE  /\ nextRecordId \in Nat /\ nextRecordId + 1 \in Tokens
           /\ <<t, cnt[t] + 1>> \in Enqueuers \X (1 .. NumMsgs) /\ <<t, cnt[t] + 1>> \notin Made
           /\ ~Holding(t) /\ tok[t] = NoToken
<1>1. /\ pc[t] = "loop" /\ role[t] = "enq" /\ cnt[t] < NumMsgs /\ cnt[t] \in 0 .. NumMsgs
      /\ t % 2 = 1 /\ ~Holding(t) /\ tok[t] = NoToken
  BY DEF Create, TokenInv, ThreadInv, Holding
<1>2. <<t, cnt[t] + 1>> \in Enqueuers \X (1 .. NumMsgs)
  BY <1>1, SizesNat DEF Enqueuers
<1>3. <<t, cnt[t] + 1>> \notin Made
  BY <1>1 DEF Made
<1>4. nextRecordId = Cardinality(Made) /\ Cardinality(Made) \in 0 .. Pairs * NumMsgs
      /\ Cardinality(Made) < Pairs * NumMsgs
  BY <1>2, <1>3, MadeBound DEF TokenInv, MadeInv
<1> QED BY <1>1, <1>2, <1>3, <1>4, SizesNat DEF Tokens

\* How a thread's step changes what it does: it alone moves.
LEMMA ThreadMoves ==
    ASSUME TokenInv, NEW t \in Threads, pc[t] # "start",
           pc' = [pc EXCEPT ![t] = pc'[t]], pc'[t] # "start",
           tok' = [tok EXCEPT ![t] = tok'[t]], cnt' = [cnt EXCEPT ![t] = cnt'[t]],
           tok'[t] \in Tokens \cup {NoToken}, cnt'[t] \in 0 .. NumMsgs,
           tok'[t] # NoToken <=> Holding(t)', Holding(t)' => cnt'[t] < NumMsgs,
           UNCHANGED <<role, threadSwitch>>
    PROVE  StartInv' /\ ThreadInv'
<1>1. pc \in [Threads -> {"start", "loop", "push", "pushing", "move", "process",
                          "deliver", "switching", "ended"}]
  BY DEF TokenInv, IInv
<1>2. \A u \in Threads : pc'[u] = "start" <=> pc[u] = "start"
  BY <1>1
<1>3. StartInv'
  <2>1. {u \in Threads : pc'[u] # "start"} = {u \in Threads : pc[u] # "start"}
    BY <1>2
  <2> QED BY <2>1 DEF TokenInv, StartInv
<1>4. \A u \in Threads \ {t} : pc'[u] = pc[u] /\ tok'[u] = tok[u] /\ cnt'[u] = cnt[u]
  BY <1>1 DEF TokenInv, ThreadInv
<1>5. \A u \in Threads : /\ tok'[u] # NoToken <=> Holding(u)'
                         /\ Holding(u)' => cnt'[u] < NumMsgs
  BY <1>4 DEF TokenInv, ThreadInv, Holding
<1>6. \A u \in Threads : pc'[u] = "start" => cnt'[u] = 0
  BY <1>2, <1>4 DEF TokenInv, ThreadInv
<1>7. /\ cnt' \in [Threads -> 0 .. NumMsgs] /\ tok' \in [Threads -> Tokens \cup {NoToken}]
  BY DEF TokenInv, ThreadInv
<1> QED BY <1>2, <1>3, <1>5, <1>6, <1>7 DEF TokenInv, ThreadInv

\* A thread's step, as far as the roles, counts and tokens of threads go.
LEMMA StepThreads == ASSUME TokenInv, NEW t \in Threads, ThreadStep(t)
                     PROVE  StartInv' /\ ThreadInv'
<1>1. /\ pc \in [Threads -> {"start", "loop", "push", "pushing", "move", "process",
                             "deliver", "switching", "ended"}]
      /\ role \in [Threads -> {"none", "enq", "deq"}] /\ cnt \in [Threads -> 0 .. NumMsgs]
      /\ tok \in [Threads -> Tokens \cup {NoToken}] /\ threadSwitch \in BOOLEAN
      /\ tok[t] # NoToken <=> Holding(t)
      /\ Holding(t) => cnt[t] < NumMsgs
  BY DEF TokenInv, IInv, ThreadInv
<1>2. CASE Start(t)
  <2>1. /\ pc[t] = "start" /\ pc' = [pc EXCEPT ![t] = "loop"]
        /\ role' = [role EXCEPT ![t] = IF threadSwitch THEN "deq" ELSE "enq"]
        /\ threadSwitch' = ~threadSwitch /\ UNCHANGED <<cnt, tok>>
        /\ \A u \in Threads : u < t => pc[u] # "start"
    BY <1>2 DEF Start, Goes
  <2>2. PICK m \in 0 .. 2 * Pairs : /\ {u \in Threads : pc[u] # "start"} = 1 .. m
                                    /\ threadSwitch <=> m % 2 = 1
    BY DEF TokenInv, StartInv
  <2>3. t = m + 1 /\ m + 1 \in 0 .. 2 * Pairs
    <3>1. t \in 1 .. 2 * Pairs /\ t \notin 1 .. m
      BY <2>1, <2>2 DEF Threads
    <3>2. t > 1 => t - 1 \in Threads /\ t - 1 < t
      BY <3>1, SizesNat DEF Threads
    <3>3. t > 1 => t - 1 \in 1 .. m
      BY <2>1, <2>2, <3>2
    <3> QED BY <3>1, <3>3, SizesNat
  <2>4. {u \in Threads : pc'[u] # "start"} = 1 .. m + 1
    <3>1. {u \in Threads : pc'[u] # "start"} = {u \in Threads : pc[u] # "start"} \cup {t}
      BY <1>1, <2>1
    <3>2. 1 .. m + 1 = (1 .. m) \cup {m + 1}
      OBVIOUS
    <3> QED BY <2>2, <2>3, <3>1, <3>2
  <2>5. threadSwitch' <=> (m + 1) % 2 = 1
    <3>1. \A n \in Nat : (n + 1) % 2 = 1 <=> n % 2 # 1
      OBVIOUS
    <3>2. m \in Nat
      BY SizesNat
    <3> QED BY <2>1, <2>2, <3>1, <3>2
  <2>6. StartInv'
    BY <2>3, <2>4, <2>5 DEF StartInv
  <2>7. role'[t] = IF t % 2 = 1 THEN "enq" ELSE "deq"
    BY <1>1, <2>1, <2>2, <2>3
  <2>8. \A u \in Threads \ {t} : pc'[u] = pc[u] /\ role'[u] = role[u]
    BY <1>1, <2>1
  <2>9. pc'[t] = "loop" /\ role' \in [Threads -> {"none", "enq", "deq"}]
    BY <1>1, <2>1
  <2> QED BY <2>1, <2>6, <2>7, <2>8, <2>9 DEF TokenInv, ThreadInv, Holding
<1>3. CASE Create(t)
  <2>1. nextRecordId + 1 \in Tokens /\ nextRecordId + 1 # NoToken
    BY <1>3, TokenFresh, SizesNat
  <2>2. /\ pc[t] = "loop" /\ pc' = [pc EXCEPT ![t] = "push"] /\ cnt[t] < NumMsgs
        /\ tok' = [tok EXCEPT ![t] = nextRecordId + 1] /\ UNCHANGED <<role, threadSwitch, cnt>>
    BY <1>3 DEF Create, Goes
  <2>3. pc'[t] = "push" /\ tok'[t] = nextRecordId + 1 /\ cnt' = [cnt EXCEPT ![t] = cnt'[t]]
    BY <1>1, <2>2
  <2> QED BY <1>1, <2>1, <2>2, <2>3, ThreadMoves DEF Holding
<1>4. CASE Take(t)
  <2>1. Head(unproc) \in Tokens /\ Head(unproc) # NoToken
    BY <1>4, OccursTail, SizesNat DEF Take, TokenInv, ListTypes
  <2>2. /\ pc[t] = "loop" /\ pc' = [pc EXCEPT ![t] = "push"] /\ cnt[t] < NumMsgs
        /\ tok' = [tok EXCEPT ![t] = Head(unproc)] /\ UNCHANGED <<role, threadSwitch, cnt>>
    BY <1>4 DEF Take, Goes, locals
  <2>3. pc'[t] = "push" /\ tok'[t] = Head(unproc) /\ cnt' = [cnt EXCEPT ![t] = cnt'[t]]
    BY <1>1, <2>2
  <2> QED BY <1>1, <2>1, <2>2, <2>3, ThreadMoves DEF Holding
<1>5. CASE Push(t)
  <2>1. /\ pc[t] = "pushing" /\ tok' = [tok EXCEPT ![t] = NoToken]
        /\ cnt' = [cnt EXCEPT ![t] = @ + 1] /\ UNCHANGED <<role, threadSwitch>>
        /\ \E q \in {"move", "process", "loop"} : pc' = [pc EXCEPT ![t] = q]
    BY <1>5 DEF Push, Goes
  <2>2. /\ pc'[t] \in {"move", "process", "loop"} /\ pc' = [pc EXCEPT ![t] = pc'[t]]
        /\ tok'[t] = NoToken /\ cnt'[t] = cnt[t] + 1
        /\ cnt' = [cnt EXCEPT ![t] = cnt'[t]] /\ tok' = [tok EXCEPT ![t] = tok'[t]]
    BY <1>1, <2>1
  <2>3. cnt'[t] \in 0 .. NumMsgs
    BY <1>1, <2>1, <2>2, SizesNat DEF Holding
  <2> QED BY <2>1, <2>2, <2>3, ThreadMoves DEF Holding
<1>6. ASSUME Poll(t) \/ Lock(t) \/ Flush(t) \/ Move(t) \/ Process(t) \/ Deliver(t) \/ Switch(t)
      PROVE  StartInv' /\ ThreadInv'
  <2>1. /\ pc[t] # "start" /\ UNCHANGED <<role, threadSwitch, cnt, tok>>
        /\ \/ pc' = pc
           \/ pc[t] = "push" /\ pc' = [pc EXCEPT ![t] = "pushing"]
           \/ /\ ~Holding(t)
              /\ \E q \in {"loop", "process", "move", "ended", "deliver", "switching"} :
                     pc' = [pc EXCEPT ![t] = q]
    <3>1. CASE Poll(t) BY <3>1 DEF Poll, Goes, locals, Holding
    <3>2. CASE Lock(t) BY <3>2 DEF Lock, Goes, locals, Holding
    <3>3. CASE Flush(t) BY <3>3 DEF Flush, Goes, locals, Holding
    <3>4. CASE Move(t) BY <3>4 DEF Move, Goes, locals, Holding
    <3>5. CASE Process(t) BY <3>5 DEF Process, Processed, Goes, locals, Holding
    <3>6. CASE Deliver(t) BY <3>6 DEF Deliver, locals
    <3>7. CASE Switch(t) BY <3>7 DEF Switch, Processed, Goes, locals, Holding
    <3> QED BY <1>6, <3>1, <3>2, <3>3, <3>4, <3>5, <3>6, <3>7
  <2>2. pc'[t] # "start" /\ pc' = [pc EXCEPT ![t] = pc'[t]] /\ (Holding(t)' <=> Holding(t))
    BY <1>1, <2>1 DEF Holding
  <2>3. cnt' = [cnt EXCEPT ![t] = cnt'[t]] /\ tok' = [tok EXCEPT ![t] = tok'[t]]
    BY <1>1, <2>1
  <2> QED BY <1>1, <2>1, <2>2, <2>3, ThreadMoves
<1> QED BY <1>2, <1>3, <1>4, <1>5, <1>6 DEF ThreadStep

\* The places of a token, one list at a time.
LEMMA PlacesNat == ASSUME TokenInv, NEW k \in Tokens
    PROVE  /\ Occurs(k, writeList) \in Nat /\ Occurs(k, cbList[TRUE]) \in Nat
           /\ Occurs(k, cbList[FALSE]) \in Nat /\ Occurs(k, unproc) \in Nat
           /\ Cardinality(Holders(k)) \in Nat
           /\ Places(k) = Occurs(k, writeList) + Occurs(k, cbList[TRUE])
                          + Occurs(k, cbList[FALSE]) + Occurs(k, unproc) + Cardinality(Holders(k))
           /\ Places(k) # 0 => Places(k) = 1 /\ opState[k] \in {"ENQUEUE", "DEQUEUE"}
           /\ opState[k] \in {"ENQUEUE", "DEQUEUE"} => Places(k) = 1
           /\ opState[k] \notin {"ENQUEUE", "DEQUEUE"} => Places(k) = 0
<1>1. /\ cbList[TRUE] \in Seq(Tokens) /\ cbList[FALSE] \in Seq(Tokens)
      /\ writeList \in Seq(Tokens) /\ unproc \in Seq(Tokens)
  BY DEF TokenInv, ListTypes
<1>2. /\ Occurs(k, writeList) \in Nat /\ Occurs(k, cbList[TRUE]) \in Nat
      /\ Occurs(k, cbList[FALSE]) \in Nat /\ Occurs(k, unproc) \in Nat
  BY <1>1, OccursNat
<1>3. IsFiniteSet(Holders(k))
  BY MadeBound, FS_Subset DEF Holders
<1>4. Cardinality(Holders(k)) \in Nat
  BY <1>3, FS_CardinalityType
<1>5. Places(k) = Occurs(k, writeList) + Occurs(k, cbList[TRUE])
                  + Occurs(k, cbList[FALSE]) + Occurs(k, unproc) + Cardinality(Holders(k))
  BY DEF Places, Holders
<1>6. Places(k) = IF opState[k] \in {"ENQUEUE", "DEQUEUE"} THEN 1 ELSE 0
  BY DEF TokenInv, TokensAccounted
<1> QED BY <1>2, <1>4, <1>5, <1>6

\* The token that is called back has not been freed.
LEMMA Delivered == ASSUME TokenInv, NEW t \in Threads, Deliver(t)
    PROVE  \E k \in Tokens : /\ k = Last(cbList[idx[t]]) /\ opState[k] \in {"ENQUEUE", "DEQUEUE"}
                             /\ opState[k] # "NONE"
<1>1. cbList[idx[t]] \in Seq(Tokens) /\ cbList[idx[t]] # <<>> /\ idx[t] \in {TRUE, FALSE}
  BY DEF Deliver, TokenInv, ListTypes, IInv
<1>2. PICK k \in Tokens : k = Last(cbList[idx[t]])
  BY <1>1, OccursFront
<1>3. /\ Occurs(k, cbList[idx[t]]) = Occurs(k, Front(cbList[idx[t]])) + 1
      /\ Occurs(k, Front(cbList[idx[t]])) \in Nat
  <2>1. /\ Front(cbList[idx[t]]) \in Seq(Tokens)
        /\ Occurs(k, cbList[idx[t]]) = Occurs(k, Front(cbList[idx[t]])) + 1
    BY <1>1, <1>2, OccursFront
  <2> QED BY <2>1, OccursNat
<1>4. Occurs(k, cbList[TRUE]) > 0 \/ Occurs(k, cbList[FALSE]) > 0
  <2>1. Occurs(k, cbList[idx[t]]) > 0
    BY <1>3
  <2>2. CASE idx[t] = TRUE
    BY <2>1, <2>2
  <2>3. CASE idx[t] = FALSE
    BY <2>1, <2>3
  <2> QED BY <1>1, <2>2, <2>3
<1>5. /\ Occurs(k, writeList) \in Nat /\ Occurs(k, cbList[TRUE]) \in Nat
      /\ Occurs(k, cbList[FALSE]) \in Nat /\ Occurs(k, unproc) \in Nat
      /\ Cardinality(Holders(k)) \in Nat
      /\ Places(k) = Occurs(k, writeList) + Occurs(k, cbList[TRUE])
                     + Occurs(k, cbList[FALSE]) + Occurs(k, unproc) + Cardinality(Holders(k))
      /\ Places(k) # 0 => opState[k] \in {"ENQUEUE", "DEQUEUE"}
  BY PlacesNat
<1>6. opState[k] \in {"ENQUEUE", "DEQUEUE"}
  <2> DEFINE a == Occurs(k, writeList)
             b == Occurs(k, cbList[TRUE])
             c == Occurs(k, cbList[FALSE])
             d == Occurs(k, unproc)
             h == Cardinality(Holders(k))
  <2>1. /\ a \in Nat /\ b \in Nat /\ c \in Nat /\ d \in Nat /\ h \in Nat
        /\ Places(k) = a + b + c + d + h /\ (b > 0 \/ c > 0)
    BY <1>4, <1>5
  <2> HIDE DEF a, b, c, d, h
  <2>2. Places(k) # 0
    BY <2>1
  <2> QED BY <1>5, <2>2
<1> QED BY <1>2, <1>6

\* A token is made by a step of its own; no other step makes or forgets one.
LEMMA StepMade == ASSUME TokenInv, NEW t \in Threads, ThreadStep(t), ThreadInv'
                  PROVE  MadeInv'
<1> DEFINE Count(u) == cnt[u] + (IF Holding(u) THEN 1 ELSE 0)
           CountAfter(u) == cnt'[u] + (IF Holding(u)' THEN 1 ELSE 0)
<1>1. /\ pc \in [Threads -> {"start", "loop", "push", "pushing", "move", "process",
                             "deliver", "switching", "ended"}]
      /\ cnt \in [Threads -> 0 .. NumMsgs]
      /\ opState \in [Tokens -> {"NONE", "ENQUEUE", "DEQUEUE", "DELETED"}]
      /\ nextRecordId = Cardinality(Made)
      /\ \A k \in Tokens : opState[k] = "NONE" <=> k > nextRecordId
  BY DEF TokenInv, IInv, ThreadInv, MadeInv, ListTypes
<1>2. CASE Create(t)
  <2>1. /\ nextRecordId \in Nat /\ nextRecordId + 1 \in Tokens
        /\ <<t, cnt[t] + 1>> \in Enqueuers \X (1 .. NumMsgs) /\ <<t, cnt[t] + 1>> \notin Made
        /\ ~Holding(t)
    BY <1>2, TokenFresh
  <2>2. /\ pc' = [pc EXCEPT ![t] = "push"] /\ cnt' = cnt /\ nextRecordId' = nextRecordId + 1
        /\ opState' = [opState EXCEPT ![nextRecordId + 1] = "ENQUEUE"]
    BY <1>2 DEF Create, Goes
  <2>3. Count(t) = cnt[t] /\ CountAfter(t) = cnt[t] + 1 /\ cnt[t] \in Nat
        /\ \A u \in Threads \ {t} : CountAfter(u) = Count(u)
    BY <1>1, <2>1, <2>2, SizesNat DEF Holding
  <2>4. Made' = Made \cup {<<t, cnt[t] + 1>>}
    <3>1. ASSUME NEW m \in Enqueuers \X (1 .. NumMsgs)
          PROVE  m[2] <= CountAfter(m[1]) <=> m[2] <= Count(m[1]) \/ m = <<t, cnt[t] + 1>>
      <4>1. m[1] \in Threads /\ m[2] \in Nat /\ m = <<m[1], m[2]>>
        BY SizesNat DEF Enqueuers
      <4> HIDE DEF Count, CountAfter
      <4>2. m = <<t, cnt[t] + 1>> <=> m[1] = t /\ m[2] = cnt[t] + 1
        BY <4>1
      <4> QED BY <2>3, <4>1, <4>2
    <3> QED BY <2>1, <3>1 DEF Made
  <2>5. Cardinality(Made') = nextRecordId + 1
    BY <1>1, <2>1, <2>4, MadeBound, FS_AddElement
  <2>6. \A k \in Tokens : opState'[k] = "NONE" <=> k > nextRecordId'
    BY <1>1, <2>1, <2>2 DEF Tokens
  <2> QED BY <2>2, <2>5, <2>6 DEF MadeInv
<1>3. CASE ~Create(t)
  <2>1. UNCHANGED nextRecordId
    BY <1>3 DEF ThreadStep, Start, Take, Poll, Lock, Push, Flush, Move, Process, Deliver, Switch,
                locals
  <2>2. \A u \in Threads : t % 2 = 1 /\ u = t => CountAfter(u) = Count(u)
    <3> SUFFICES ASSUME t % 2 = 1 PROVE CountAfter(t) = Count(t)
      OBVIOUS
    <3>1. role[t] # "deq"
      BY DEF TokenInv, ThreadInv
    <3>2. CASE Take(t)
      BY <3>1, <3>2 DEF Take
    <3>3. CASE Start(t) BY <1>1, <3>3 DEF Start, Goes, Holding
    <3>4. CASE Poll(t) BY <1>1, <3>4 DEF Poll, Goes, Holding, locals
    <3>5. CASE Lock(t) BY <1>1, <3>5 DEF Lock, Goes, Holding, locals
    <3>6. CASE Push(t)
      <4>1. pc[t] = "pushing" /\ cnt'[t] = cnt[t] + 1
            /\ \E q \in {"move", "process", "loop"} : pc' = [pc EXCEPT ![t] = q]
        BY <1>1, <3>6 DEF Push, Goes
      <4>2. Holding(t) /\ ~Holding(t)'
        BY <1>1, <4>1 DEF Holding
      <4> QED BY <1>1, <4>1, <4>2, SizesNat
    <3>7. CASE Flush(t) BY <1>1, <3>7 DEF Flush, Goes, Holding, locals
    <3>8. CASE Move(t) BY <1>1, <3>8 DEF Move, Goes, Holding, locals
    <3>9. CASE Process(t) BY <1>1, <3>9 DEF Process, Processed, Goes, Holding, locals
    <3>10. CASE Deliver(t) BY <1>1, <3>10 DEF Deliver, Goes, Holding, locals
    <3>11. CASE Switch(t) BY <1>1, <3>11 DEF Switch, Processed, Goes, Holding, locals
    <3> QED BY <1>3, <3>2, <3>3, <3>4, <3>5, <3>6, <3>7, <3>8, <3>9, <3>10, <3>11 DEF ThreadStep
  <2>3. \A u \in Threads \ {t} : CountAfter(u) = Count(u)
    <3>1. \A u \in Threads \ {t} : pc'[u] = pc[u] /\ cnt'[u] = cnt[u]
      BY <1>1, <1>3 DEF ThreadStep, Start, Take, Poll, Lock, Push, Flush, Move, Process,
           Processed, Deliver, Switch, Goes, locals
    <3> QED BY <3>1 DEF Holding
  <2>4. Made' = Made
    <3>1. \A m \in Enqueuers \X (1 .. NumMsgs) : CountAfter(m[1]) = Count(m[1])
      <4> TAKE m \in Enqueuers \X (1 .. NumMsgs)
      <4>1. m[1] \in Threads /\ m[1] % 2 = 1
        BY DEF Enqueuers
      <4> HIDE DEF Count, CountAfter
      <4> QED BY <2>2, <2>3, <4>1
    <3> QED BY <3>1 DEF Made
  <2>5. \A k \in Tokens : opState'[k] = "NONE" <=> opState[k] = "NONE"
    <3>1. CASE Take(t)
      <4>1. opState[Head(unproc)] = "ENQUEUE"
            /\ opState' = [opState EXCEPT ![Head(unproc)] = "DEQUEUE"]
        BY <3>1 DEF Take
      <4> QED BY <1>1, <4>1
    <3>2. CASE Deliver(t)
      <4>1. PICK k \in Tokens : k = Last(cbList[idx[t]]) /\ opState[k] # "NONE"
        BY <3>2, Delivered
      <4>2. opState[k] # "NONE"
        BY <4>1
      <4>3. opState' = opState \/ opState' = [opState EXCEPT ![k] = "DELETED"]
        BY <3>2, <4>1 DEF Deliver
      <4> QED BY <1>1, <4>2, <4>3
    <3>3. ~Take(t) /\ ~Deliver(t) => opState' = opState
      BY <1>3 DEF ThreadStep, Start, Poll, Lock, Push, Flush, Move, Process, Processed, Switch
    <3> QED BY <3>1, <3>2, <3>3
  <2> QED BY <1>1, <2>1, <2>4, <2>5 DEF MadeInv
<1> QED BY <1>2, <1>3

\* What the states of the tokens in a list say of each token.
LEMMA ListStates == \A s \in Seq(Tokens) : \A st :
    (\A i \in DOMAIN s : st[s[i]] = "ENQUEUE")
        <=> (\A k \in Tokens : Occurs(k, s) > 0 => st[k] = "ENQUEUE")
<1> SUFFICES ASSUME NEW s \in Seq(Tokens), NEW st
             PROVE  (\A i \in DOMAIN s : st[s[i]] = "ENQUEUE")
                        <=> (\A k \in Tokens : Occurs(k, s) > 0 => st[k] = "ENQUEUE")
  OBVIOUS
<1>1. ASSUME \A i \in DOMAIN s : st[s[i]] = "ENQUEUE", NEW k \in Tokens, Occurs(k, s) > 0
      PROVE  st[k] = "ENQUEUE"
  <2>1. At(k, s) # {}
    <3>1. Occurs(k, s) = Cardinality(At(k, s)) /\ Occurs(k, s) > 0
      BY <1>1, OccursNat
    <3>2. Cardinality({}) = 0
      BY FS_EmptySet
    <3>3. At(k, s) = {} => Occurs(k, s) = 0
      BY <3>1, <3>2
    <3> QED BY <3>1, <3>3
  <2> QED BY <1>1, <2>1 DEF At
<1>2. ASSUME \A k \in Tokens : Occurs(k, s) > 0 => st[k] = "ENQUEUE", NEW i \in DOMAIN s
      PROVE  st[s[i]] = "ENQUEUE"
  <2>1. s[i] \in Tokens /\ Occurs(s[i], s) > 0
    BY OccursIn, ElementOfSeq
  <2> QED BY <1>2, <2>1
<1> QED BY <1>1, <1>2

\* The accounts hold after a step if they hold of each token by itself.
LEMMA EachAccounted ==
    ASSUME ListTypes',
           \A k \in Tokens :
               /\ Places(k)' = IF opState'[k] \in {"ENQUEUE", "DEQUEUE"} THEN 1 ELSE 0
               /\ Occurs(k, unproc') > 0 => opState'[k] = "ENQUEUE"
    PROVE  TokensAccounted'
<1>1. unproc' \in Seq(Tokens)
  BY DEF ListTypes
<1>2. \A i \in DOMAIN unproc' : opState'[unproc'[i]] = "ENQUEUE"
  BY <1>1, ListStates
<1> QED BY <1>2 DEF TokensAccounted

\* The places of a token after a step.
LEMMA PlacesAfter == \A k \in Tokens : Places(k)' =
    Occurs(k, writeList') + Occurs(k, cbList'[TRUE]) + Occurs(k, cbList'[FALSE])
    + Occurs(k, unproc') + Cardinality(Holders(k)')
BY DEF Places, Holders, Occurs

\* One token, before a step: what waits to be dequeued is an enqueue.
LEMMA UnprocStates == ASSUME TokenInv, NEW k \in Tokens
    PROVE  Occurs(k, unproc) > 0 => opState[k] = "ENQUEUE"
<1>1. unproc \in Seq(Tokens) /\ \A i \in DOMAIN unproc : opState[unproc[i]] = "ENQUEUE"
  BY DEF TokenInv, ListTypes, TokensAccounted
<1> QED BY <1>1, ListStates

\* A thread's step moves a token from one place to the next, in the state that fits.
LEMMA StepTokens == ASSUME TokenInv, NEW t \in Threads, ThreadStep(t), ThreadInv'
                    PROVE  ListTypes' /\ TokensAccounted'
<1>1. /\ opState \in [Tokens -> {"NONE", "ENQUEUE", "DEQUEUE", "DELETED"}]
      /\ writeList \in Seq(Tokens) /\ cbList \in [BOOLEAN -> Seq(Tokens)]
      /\ unproc \in Seq(Tokens) /\ ThreadInv /\ idx[t] \in BOOLEAN
      /\ cbList[TRUE] \in Seq(Tokens) /\ cbList[FALSE] \in Seq(Tokens)
  BY DEF TokenInv, ListTypes, IInv
<1> DEFINE W(k) == Occurs(k, writeList)
           B(k) == Occurs(k, cbList[TRUE])
           C(k) == Occurs(k, cbList[FALSE])
           U(k) == Occurs(k, unproc)
           H(k) == Cardinality(Holders(k))
           W2(k) == Occurs(k, writeList')
           B2(k) == Occurs(k, cbList'[TRUE])
           C2(k) == Occurs(k, cbList'[FALSE])
           U2(k) == Occurs(k, unproc')
           H2(k) == Cardinality(Holders(k)')
           P2(k) == Places(k)'
           InPlay(k) == opState[k] \in {"ENQUEUE", "DEQUEUE"}
<1>2. \A k \in Tokens : /\ W(k) \in Nat /\ B(k) \in Nat /\ C(k) \in Nat /\ U(k) \in Nat
                        /\ H(k) \in Nat
                        /\ InPlay(k) => W(k) + B(k) + C(k) + U(k) + H(k) = 1
                        /\ ~InPlay(k) => W(k) + B(k) + C(k) + U(k) + H(k) = 0
                        /\ U(k) > 0 => opState[k] = "ENQUEUE"
  BY PlacesNat, UnprocStates
<1> HIDE DEF W, B, C, U, H, W2, B2, C2, U2, H2, P2
<1>3. CASE Create(t)
  <2> DEFINE n == nextRecordId + 1
  <2>1. n \in Tokens /\ tok[t] = NoToken /\ opState[n] = "NONE" /\ NoToken \notin Tokens
    <3>1. n \in Tokens /\ tok[t] = NoToken /\ nextRecordId \in Nat
      BY <1>3, TokenFresh
    <3>2. opState[n] = "NONE" <=> n > nextRecordId
      BY <3>1 DEF TokenInv, MadeInv
    <3> QED BY <3>1, <3>2, SizesNat
  <2>2. /\ tok' = [tok EXCEPT ![t] = n] /\ opState' = [opState EXCEPT ![n] = "ENQUEUE"]
        /\ UNCHANGED <<writeList, cbList, unproc>>
    BY <1>3 DEF Create, lists
  <2>3. ListTypes'
    BY <1>1, <2>1, <2>2 DEF ListTypes
  <2> HIDE DEF n
  <2>4. \A k \in Tokens : H2(k) = H(k) + (IF k = n THEN 1 ELSE 0)
    <3> TAKE k \in Tokens
    <3>1. H2(k) = Cardinality(Holders(k))
              + (IF k = n /\ k # tok[t] THEN 1 ELSE 0) - (IF k = tok[t] /\ k # n THEN 1 ELSE 0)
      BY <1>1, <2>2, HoldersChange DEF H2
    <3>2. H(k) \in Nat
      BY <1>2
    <3> QED BY <2>1, <3>1, <3>2 DEF H
  <2>5. \A k \in Tokens : P2(k) = W(k) + B(k) + C(k) + U(k) + H2(k)
    BY <2>2, PlacesAfter DEF W, B, C, U, W2, B2, C2, U2, H2, P2
  <2>6. \A k \in Tokens : opState'[k] = IF k = n THEN "ENQUEUE" ELSE opState[k]
    BY <1>1, <2>2
  <2>7. \A k \in Tokens : U2(k) = U(k)
    BY <2>2 DEF U, U2
  <2>8. ASSUME NEW k \in Tokens
        PROVE  /\ P2(k) = IF opState'[k] \in {"ENQUEUE", "DEQUEUE"} THEN 1 ELSE 0
               /\ U2(k) > 0 => opState'[k] = "ENQUEUE"
    <3>1. /\ W(k) \in Nat /\ B(k) \in Nat /\ C(k) \in Nat /\ U(k) \in Nat /\ H(k) \in Nat
          /\ InPlay(k) => W(k) + B(k) + C(k) + U(k) + H(k) = 1
          /\ ~InPlay(k) => W(k) + B(k) + C(k) + U(k) + H(k) = 0
          /\ U(k) > 0 => opState[k] = "ENQUEUE"
      BY <1>2
    <3>2. /\ P2(k) = W(k) + B(k) + C(k) + U(k) + H2(k)
          /\ H2(k) = H(k) + (IF k = n THEN 1 ELSE 0)
          /\ opState'[k] = IF k = n THEN "ENQUEUE" ELSE opState[k]
          /\ U2(k) = U(k)
      BY <2>4, <2>5, <2>6, <2>7
    <3>3. CASE k = n
      BY <2>1, <3>1, <3>2, <3>3
    <3>4. CASE k # n
      BY <3>1, <3>2, <3>4
    <3> QED BY <3>3, <3>4
  <2> QED BY <2>3, <2>8, EachAccounted DEF P2, U2
<1>4. CASE Take(t)
  <2> DEFINE n == Head(unproc)
  <2>1. /\ unproc # <<>> /\ n \in Tokens /\ tok[t] = NoToken /\ opState[n] = "ENQUEUE"
        /\ NoToken \notin Tokens /\ Tail(unproc) \in Seq(Tokens)
        /\ \A k : Occurs(k, unproc) = Occurs(k, Tail(unproc)) + (IF k = n THEN 1 ELSE 0)
    BY <1>1, <1>4, SizesNat, OccursTail DEF Take, ThreadInv, Holding
  <2>2. /\ tok' = [tok EXCEPT ![t] = n] /\ opState' = [opState EXCEPT ![n] = "DEQUEUE"]
        /\ unproc' = Tail(unproc) /\ UNCHANGED <<writeList, cbList>>
    BY <1>4 DEF Take
  <2>3. ListTypes'
    BY <1>1, <2>1, <2>2 DEF ListTypes
  <2>4. \A k \in Tokens : U2(k) \in Nat
                          /\ U(k) = U2(k) + (IF k = n THEN 1 ELSE 0)
    BY <2>1, <2>2, OccursNat DEF U, U2
  <2> HIDE DEF n
  <2>5. \A k \in Tokens : H2(k) = H(k) + (IF k = n THEN 1 ELSE 0)
    <3> TAKE k \in Tokens
    <3>1. H2(k) = Cardinality(Holders(k))
              + (IF k = n /\ k # tok[t] THEN 1 ELSE 0) - (IF k = tok[t] /\ k # n THEN 1 ELSE 0)
      BY <1>1, <2>2, HoldersChange DEF H2
    <3>2. H(k) \in Nat
      BY <1>2
    <3> QED BY <2>1, <3>1, <3>2 DEF H
  <2>6. \A k \in Tokens :
            P2(k) = W(k) + B(k) + C(k) + U2(k) + H2(k)
    BY <2>2, PlacesAfter DEF W, B, C, W2, B2, C2, U2, H2, P2
  <2>7. \A k \in Tokens : opState'[k] = IF k = n THEN "DEQUEUE" ELSE opState[k]
    BY <1>1, <2>2
  <2>8. ASSUME NEW k \in Tokens
        PROVE  /\ P2(k) = IF opState'[k] \in {"ENQUEUE", "DEQUEUE"} THEN 1 ELSE 0
               /\ U2(k) > 0 => opState'[k] = "ENQUEUE"
    <3>1. /\ W(k) \in Nat /\ B(k) \in Nat /\ C(k) \in Nat /\ U(k) \in Nat /\ H(k) \in Nat
          /\ InPlay(k) => W(k) + B(k) + C(k) + U(k) + H(k) = 1
          /\ ~InPlay(k) => W(k) + B(k) + C(k) + U(k) + H(k) = 0
          /\ U(k) > 0 => opState[k] = "ENQUEUE"
      BY <1>2
    <3>2. /\ P2(k) = W(k) + B(k) + C(k) + U2(k) + H2(k)
          /\ U2(k) \in Nat /\ U(k) = U2(k) + (IF k = n THEN 1 ELSE 0)
          /\ H2(k) = H(k) + (IF k = n THEN 1 ELSE 0)
          /\ opState'[k] = IF k = n THEN "DEQUEUE" ELSE opState[k]
      BY <2>4, <2>5, <2>6, <2>7
    <3>3. CASE k = n
      <4>1. W(k) + B(k) + C(k) + U(k) + H(k) = 1 /\ U(k) = U2(k) + 1 /\ H2(k) = H(k) + 1
        BY <2>1, <3>1, <3>2, <3>3
      <4>2. U2(k) = 0 /\ W(k) = 0 /\ B(k) = 0 /\ C(k) = 0 /\ H(k) = 0
        BY <3>1, <3>2, <4>1
      <4> QED BY <3>2, <3>3, <4>1, <4>2
    <3>4. CASE k # n
      BY <3>1, <3>2, <3>4
    <3> QED BY <3>3, <3>4
  <2> QED BY <2>3, <2>8, EachAccounted DEF P2, U2
<1>5. CASE Push(t)
  <2> DEFINE n == tok[t]
  <2>1. n \in Tokens /\ NoToken \notin Tokens
    BY <1>1, <1>5, SizesNat DEF Push, ThreadInv, Holding
  <2>2. /\ tok' = [tok EXCEPT ![t] = NoToken] /\ opState' = opState
        /\ writeList' = Append(writeList, n) /\ UNCHANGED <<cbList, unproc>>
    BY <1>5 DEF Push
  <2>3. ListTypes'
    BY <1>1, <2>1, <2>2, AppendProperties DEF ListTypes
  <2>4. \A k \in Tokens : W2(k) = W(k) + (IF k = n THEN 1 ELSE 0)
    BY <1>1, <2>1, <2>2, OccursAppend DEF W, W2
  <2>5. \A k \in Tokens : H2(k) = H(k) - (IF k = n THEN 1 ELSE 0)
    <3> TAKE k \in Tokens
    <3>1. H2(k) = Cardinality(Holders(k))
              + (IF k = NoToken /\ k # n THEN 1 ELSE 0) - (IF k = n /\ k # NoToken THEN 1 ELSE 0)
      BY <1>1, <2>2, HoldersChange DEF H2
    <3>2. H(k) \in Nat
      BY <1>2
    <3> QED BY <2>1, <3>1, <3>2 DEF H
  <2> HIDE DEF n
  <2>6. \A k \in Tokens :
            P2(k) = W2(k) + B(k) + C(k) + U(k) + H2(k)
    BY <2>2, PlacesAfter DEF U, B, C, W2, B2, C2, U2, H2, P2
  <2>7. \A k \in Tokens : U2(k) = U(k) /\ opState'[k] = opState[k]
    BY <2>2 DEF U, U2
  <2>8. ASSUME NEW k \in Tokens
        PROVE  /\ P2(k) = IF opState'[k] \in {"ENQUEUE", "DEQUEUE"} THEN 1 ELSE 0
               /\ U2(k) > 0 => opState'[k] = "ENQUEUE"
    BY <1>2, <2>4, <2>5, <2>6, <2>7
  <2> QED BY <2>3, <2>8, EachAccounted DEF P2, U2
<1>6. CASE Move(t)
  <2> DEFINE s == cbList[idx[t]] \o Reverse(writeList)
  <2>1. /\ cbList' = [cbList EXCEPT ![idx[t]] = s] /\ writeList' = <<>>
        /\ UNCHANGED <<tok, opState, unproc>>
    BY <1>6 DEF Move
  <2>2. /\ s \in Seq(Tokens) /\ <<>> \in Seq(Tokens)
        /\ \A k : Occurs(k, s) = Occurs(k, cbList[idx[t]]) + W(k)
    BY <1>1, OccursMoved, EmptySeq DEF W
  <2> HIDE DEF s
  <2>3. ListTypes'
    BY <1>1, <2>1, <2>2 DEF ListTypes
  <2>4. \A k \in Tokens : W2(k) = 0
    BY <2>1, OccursEmpty DEF W2
  <2>5. \A k \in Tokens : B2(k) + C2(k)
                          = B(k) + C(k) + W(k)
    <3> TAKE k \in Tokens
    <3>3. B(k) \in Nat /\ C(k) \in Nat /\ W(k) \in Nat
      BY <1>2
    <3>1. CASE idx[t] = TRUE
      <4>1. cbList'[TRUE] = s /\ cbList'[FALSE] = cbList[FALSE]
        BY <1>1, <2>1, <3>1
      <4>2. B2(k) = B(k) + W(k) /\ C2(k) = C(k)
        BY <2>2, <3>1, <4>1 DEF B, C, B2, C2
      <4> QED BY <3>3, <4>2
    <3>2. CASE idx[t] = FALSE
      <4>1. cbList'[FALSE] = s /\ cbList'[TRUE] = cbList[TRUE]
        BY <1>1, <2>1, <3>2
      <4>2. C2(k) = C(k) + W(k) /\ B2(k) = B(k)
        BY <2>2, <3>2, <4>1 DEF B, C, B2, C2
      <4> QED BY <3>3, <4>2
    <3> QED BY <1>1, <3>1, <3>2
  <2>6. \A k \in Tokens : /\ P2(k) = 0 + B2(k)
                                          + C2(k) + U(k) + H(k)
                          /\ B2(k) \in Nat /\ C2(k) \in Nat
    <3>1. \A k \in Tokens : Holders(k)' = Holders(k)
      BY <2>1 DEF Holders
    <3>2. cbList'[TRUE] \in Seq(Tokens) /\ cbList'[FALSE] \in Seq(Tokens)
      BY <2>3 DEF ListTypes
    <3> QED BY <2>1, <2>4, <3>1, <3>2, PlacesAfter, OccursNat DEF U, H, W2, B2, C2, U2, H2, P2
  <2>7. \A k \in Tokens : U2(k) = U(k) /\ opState'[k] = opState[k]
    BY <2>1 DEF U, U2
  <2>8. ASSUME NEW k \in Tokens
        PROVE  /\ P2(k) = IF opState'[k] \in {"ENQUEUE", "DEQUEUE"} THEN 1 ELSE 0
               /\ U2(k) > 0 => opState'[k] = "ENQUEUE"
    <3>1. /\ W(k) \in Nat /\ B(k) \in Nat /\ C(k) \in Nat /\ U(k) \in Nat /\ H(k) \in Nat
          /\ InPlay(k) => W(k) + B(k) + C(k) + U(k) + H(k) = 1
          /\ ~InPlay(k) => W(k) + B(k) + C(k) + U(k) + H(k) = 0
          /\ U(k) > 0 => opState[k] = "ENQUEUE"
      BY <1>2
    <3>2. /\ P2(k) = 0 + B2(k) + C2(k) + U(k) + H(k)
          /\ B2(k) \in Nat /\ C2(k) \in Nat
          /\ B2(k) + C2(k) = B(k) + C(k) + W(k)
          /\ U2(k) = U(k) /\ opState'[k] = opState[k]
      BY <2>5, <2>6, <2>7
    <3>3. P2(k) = W(k) + B(k) + C(k) + U(k) + H(k)
      BY <3>1, <3>2
    <3> QED BY <3>1, <3>2, <3>3
  <2> QED BY <2>3, <2>8, EachAccounted DEF P2, U2
<1>7. CASE Deliver(t)
  <2> DEFINE s == cbList[idx[t]]
  <2>1. PICK n \in Tokens : n = Last(s) /\ opState[n] \in {"ENQUEUE", "DEQUEUE"}
    BY <1>7, Delivered
  <2>2. /\ cbList' = [cbList EXCEPT ![idx[t]] = Front(s)]
        /\ UNCHANGED <<tok, writeList>>
        /\ IF opState[n] = "ENQUEUE"
           THEN unproc' = Append(unproc, n) /\ UNCHANGED opState
           ELSE opState' = [opState EXCEPT ![n] = "DELETED"] /\ UNCHANGED unproc
    BY <1>7, <2>1 DEF Deliver
  <2>3. /\ Front(s) \in Seq(Tokens)
        /\ \A k : Occurs(k, s) = Occurs(k, Front(s)) + (IF k = n THEN 1 ELSE 0)
    BY <1>1, <1>7, <2>1, OccursFront DEF Deliver
  <2>4. ListTypes'
    <3>1. cbList' \in [BOOLEAN -> Seq(Tokens)]
      BY <1>1, <2>2, <2>3
    <3>2. unproc' \in Seq(Tokens)
      <4>1. Append(unproc, n) \in Seq(Tokens)
        BY <1>1, <2>1, AppendProperties
      <4> QED BY <1>1, <2>2, <4>1
    <3>3. opState' \in [Tokens -> {"NONE", "ENQUEUE", "DEQUEUE", "DELETED"}]
      BY <1>1, <2>2
    <3> QED BY <1>1, <2>2, <3>1, <3>2, <3>3 DEF ListTypes
  <2>5. \A k \in Tokens : B2(k) + C2(k)
                          = B(k) + C(k) - (IF k = n THEN 1 ELSE 0)
    <3> TAKE k \in Tokens
    <3>3. B(k) \in Nat /\ C(k) \in Nat /\ Occurs(k, Front(s)) \in Nat
      BY <1>2, <2>3, OccursNat
    <3>1. CASE idx[t] = TRUE
      <4>1. cbList'[TRUE] = Front(s) /\ cbList'[FALSE] = cbList[FALSE]
        BY <1>1, <2>2, <3>1
      <4>2. /\ B(k) = B2(k) + (IF k = n THEN 1 ELSE 0)
            /\ C2(k) = C(k) /\ B2(k) \in Nat
        BY <2>3, <3>1, <3>3, <4>1 DEF B, C, B2, C2
      <4> QED BY <3>3, <4>2
    <3>2. CASE idx[t] = FALSE
      <4>1. cbList'[FALSE] = Front(s) /\ cbList'[TRUE] = cbList[TRUE]
        BY <1>1, <2>2, <3>2
      <4>2. /\ C(k) = C2(k) + (IF k = n THEN 1 ELSE 0)
            /\ B2(k) = B(k) /\ C2(k) \in Nat
        BY <2>3, <3>2, <3>3, <4>1 DEF B, C, B2, C2
      <4> QED BY <3>3, <4>2
    <3> QED BY <1>1, <3>1, <3>2
  <2> HIDE DEF s
  <2>6. \A k \in Tokens : /\ P2(k) = W(k) + B2(k)
                                + C2(k) + U2(k) + H(k)
                          /\ B2(k) \in Nat /\ C2(k) \in Nat
    <3>1. \A k \in Tokens : Holders(k)' = Holders(k)
      BY <2>2 DEF Holders
    <3>2. cbList'[TRUE] \in Seq(Tokens) /\ cbList'[FALSE] \in Seq(Tokens)
      BY <2>4 DEF ListTypes
    <3> QED BY <2>2, <3>1, <3>2, PlacesAfter, OccursNat DEF W, H, W2, B2, C2, U2, H2, P2
  <2>7. CASE opState[n] = "ENQUEUE"
    <3>1. \A k \in Tokens : /\ U2(k) = U(k) + (IF k = n THEN 1 ELSE 0)
                            /\ opState'[k] = opState[k]
      <4>1. unproc' = Append(unproc, n) /\ opState' = opState
        BY <2>2, <2>7
      <4> QED BY <1>1, <4>1, OccursAppend DEF U, U2
    <3>2. ASSUME NEW k \in Tokens
          PROVE  /\ P2(k) = IF opState'[k] \in {"ENQUEUE", "DEQUEUE"} THEN 1 ELSE 0
                 /\ U2(k) > 0 => opState'[k] = "ENQUEUE"
      <4>1. /\ W(k) \in Nat /\ B(k) \in Nat /\ C(k) \in Nat /\ U(k) \in Nat /\ H(k) \in Nat
            /\ InPlay(k) => W(k) + B(k) + C(k) + U(k) + H(k) = 1
            /\ ~InPlay(k) => W(k) + B(k) + C(k) + U(k) + H(k) = 0
            /\ U(k) > 0 => opState[k] = "ENQUEUE"
        BY <1>2
      <4>2. /\ P2(k) = W(k) + B2(k) + C2(k)
                            + U2(k) + H(k)
            /\ B2(k) \in Nat /\ C2(k) \in Nat
            /\ B2(k) + C2(k)
               = B(k) + C(k) - (IF k = n THEN 1 ELSE 0)
            /\ U2(k) = U(k) + (IF k = n THEN 1 ELSE 0)
            /\ opState'[k] = opState[k]
        BY <2>5, <2>6, <3>1
      <4>3. CASE k = n
        <5>1. P2(k) = W(k) + B(k) + C(k) + U(k) + H(k)
          BY <4>1, <4>2, <4>3
        <5> QED BY <2>1, <2>7, <4>1, <4>2, <4>3, <5>1
      <4>4. CASE k # n
        <5>1. P2(k) = W(k) + B(k) + C(k) + U(k) + H(k)
          BY <4>1, <4>2, <4>4
        <5> QED BY <4>1, <4>2, <4>4, <5>1
      <4> QED BY <4>3, <4>4
    <3> QED BY <2>4, <3>2, EachAccounted DEF P2, U2
  <2>8. CASE opState[n] # "ENQUEUE"
    <3>1. \A k \in Tokens : /\ U2(k) = U(k)
                            /\ opState'[k] = IF k = n THEN "DELETED" ELSE opState[k]
      BY <1>1, <2>2, <2>8 DEF U, U2
    <3>2. ASSUME NEW k \in Tokens
          PROVE  /\ P2(k) = IF opState'[k] \in {"ENQUEUE", "DEQUEUE"} THEN 1 ELSE 0
                 /\ U2(k) > 0 => opState'[k] = "ENQUEUE"
      <4>1. /\ W(k) \in Nat /\ B(k) \in Nat /\ C(k) \in Nat /\ U(k) \in Nat /\ H(k) \in Nat
            /\ InPlay(k) => W(k) + B(k) + C(k) + U(k) + H(k) = 1
            /\ ~InPlay(k) => W(k) + B(k) + C(k) + U(k) + H(k) = 0
            /\ U(k) > 0 => opState[k] = "ENQUEUE"
        BY <1>2
      <4>2. /\ P2(k) = W(k) + B2(k) + C2(k)
                            + U2(k) + H(k)
            /\ B2(k) \in Nat /\ C2(k) \in Nat
            /\ B2(k) + C2(k)
               = B(k) + C(k) - (IF k = n THEN 1 ELSE 0)
            /\ U2(k) = U(k)
            /\ opState'[k] = IF k = n THEN "DELETED" ELSE opState[k]
        BY <2>5, <2>6, <3>1
      <4>3. CASE k = n
        <5>1. P2(k) = W(k) + B(k) + C(k) - 1 + U(k) + H(k)
          BY <4>1, <4>2, <4>3
        <5> QED BY <2>1, <2>8, <4>1, <4>2, <4>3, <5>1
      <4>4. CASE k # n
        <5>1. P2(k) = W(k) + B(k) + C(k) + U(k) + H(k)
          BY <4>1, <4>2, <4>4
        <5> QED BY <4>1, <4>2, <4>4, <5>1
      <4> QED BY <4>3, <4>4
    <3> QED BY <2>4, <3>2, EachAccounted DEF P2, U2
  <2> QED BY <2>7, <2>8
<1>8. ASSUME Start(t) \/ Poll(t) \/ Lock(t) \/ Flush(t) \/ Process(t) \/ Switch(t)
      PROVE  ListTypes' /\ TokensAccounted'
  <2>1. UNCHANGED <<tok, opState, writeList, cbList, unproc>>
    BY <1>8 DEF Start, Poll, Lock, Flush, Process, Switch, lists
  <2>2. ListTypes'
    BY <1>1, <2>1 DEF ListTypes
  <2>3. \A k \in Tokens : Places(k)' = Places(k)
    BY <2>1 DEF Places, Occurs
  <2> QED BY <2>1, <2>2, <2>3 DEF TokenInv, TokensAccounted
<1> QED BY <1>3, <1>4, <1>5, <1>6, <1>7, <1>8 DEF ThreadStep

\* At the start no token has been made.
LEMMA InitTokens == Init => TokenInv
<1> SUFFICES ASSUME Init PROVE TokenInv
  OBVIOUS
<1>1. /\ threadSwitch = FALSE /\ role = [t \in Threads |-> "none"]
      /\ pc = [t \in Threads |-> "start"] /\ cnt = [t \in Threads |-> 0]
      /\ tok = [t \in Threads |-> NoToken] /\ opState = [k \in Tokens |-> "NONE"]
      /\ nextRecordId = 0 /\ writeList = <<>> /\ cbList = [b \in BOOLEAN |-> <<>>]
      /\ unproc = <<>>
  BY DEF Init
<1>2. StartInv
  <2>1. {t \in Threads : pc[t] # "start"} = 1 .. 0
    BY <1>1
  <2>2. 0 \in 0 .. 2 * Pairs
    BY SizesNat
  <2> QED BY <1>1, <2>1, <2>2 DEF StartInv
<1>3. ThreadInv
  <2>1. \A t \in Threads : pc[t] = "start" /\ role[t] = "none" /\ cnt[t] = 0 /\ tok[t] = NoToken
    BY <1>1
  <2>2. /\ role \in [Threads -> {"none", "enq", "deq"}] /\ cnt \in [Threads -> 0 .. NumMsgs]
        /\ tok \in [Threads -> Tokens \cup {NoToken}] /\ threadSwitch \in BOOLEAN
    <3>1. 0 \in 0 .. NumMsgs
      BY SizesNat
    <3> QED BY <1>1, <3>1
  <2> QED BY <2>1, <2>2 DEF ThreadInv, Holding
<1>4. MadeInv
  <2>1. Made = {}
    BY <1>1 DEF Made, Holding, Enqueuers
  <2> QED BY <1>1, <2>1, FS_EmptySet DEF MadeInv, Tokens
<1>5. ListTypes
  BY <1>1, EmptySeq DEF ListTypes
<1>6. TokensAccounted
  <2>1. \A k \in Tokens : {t \in Threads : tok[t] = k} = {}
    BY <1>1, SizesNat
  <2>2. \A k \in Tokens : Places(k) = 0
    <3> TAKE k \in Tokens
    <3>1. cbList[TRUE] = <<>> /\ cbList[FALSE] = <<>> /\ writeList = <<>> /\ unproc = <<>>
      BY <1>1
    <3>2. Cardinality({t \in Threads : tok[t] = k}) = 0
      BY <2>1, FS_EmptySet
    <3>3. Occurs(k, <<>>) = 0
      BY OccursEmpty
    <3> QED BY <3>1, <3>2, <3>3 DEF Places
  <2>3. DOMAIN unproc = {}
    BY <1>1
  <2> QED BY <1>1, <2>2, <2>3 DEF TokensAccounted
<1> QED BY <1>2, <1>3, <1>4, <1>5, <1>6, InitHolds DEF TokenInv

\* With any number of threads and messages a token is in exactly one place from the
\* moment it is made until it is freed, and in none from then on: flushNoLock() and
\* the callbacks lose none, call none back twice, and touch none after its delete.
THEOREM TokensAccountedAlways == Spec => []TokensAccounted
<1>1. TokenInv /\ [Next]_vars => TokenInv'
  <2> SUFFICES ASSUME TokenInv, [Next]_vars PROVE TokenInv'
    OBVIOUS
  <2>1. ASSUME NEW t \in Threads, ThreadStep(t) PROVE TokenInv'
    <3>1. IInv' /\ StartInv' /\ ThreadInv'
      BY <2>1, StepHolds, StepThreads DEF TokenInv
    <3> QED BY <2>1, <3>1, StepMade, StepTokens DEF TokenInv
  <2>2. CASE UNCHANGED vars
    <3> USE <2>2 DEF vars, lists, locals
    <3>1. IInv'
      BY DEF TokenInv, IInv, Holds
    <3>2. StartInv' /\ ThreadInv'
      BY DEF TokenInv, StartInv, ThreadInv, Holding
    <3>3. MadeInv'
      BY DEF TokenInv, MadeInv, Made, Holding
    <3>4. ListTypes'
      BY DEF TokenInv, ListTypes
    <3>5. \A k \in Tokens : Places(k)' = Places(k)
      BY DEF Places, Occurs
    <3>6. TokensAccounted'
      BY <3>5 DEF TokenInv, TokensAccounted
    <3> QED BY <3>1, <3>2, <3>3, <3>4, <3>6 DEF TokenInv
  <2> QED BY <2>1, <2>2 DEF Next
<1>2. TokenInv => TokensAccounted
  BY DEF TokenInv
<1> QED BY InitTokens, <1>1, <1>2, PTL DEF Spec
=============================================================================
