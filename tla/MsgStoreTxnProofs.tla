-------------------------- MODULE MsgStoreTxnProofs --------------------------
(***************************************************************************)
(* Proofs about transactions over several journals, for any number of      *)
(* queues, messages, transactions and crashes: the order of the records    *)
(* over the journals, that a transaction takes effect everywhere or        *)
(* nowhere, that what the broker was told holds after any crash, and that  *)
(* the broker's queues and the journals agree.                             *)
(*                                                                         *)
(* The invariant is stated for one transaction.  A step of the store is a  *)
(* step on one transaction and leaves the others alone (Quiet), or is one  *)
(* of the disk, of a crash or of recovery, which is nothing but a step on  *)
(* every one of them.  For the messages there is a second invariant, Book, *)
(* stated for one queue: what its log says of a message is what enq_map    *)
(* and the broker hold, up to what transactions that are ending still have *)
(* to give the broker.                                                     *)
(***************************************************************************)
EXTENDS MsgStoreTxn, SequenceTheorems, WellFoundedInduction, TLAPS

-----------------------------------------------------------------------------
(* Induction over a log.                                                   *)

\* Induction up to N, for a set: the theorems of the library take an operator.
LEMMA SetInduction ==
    ASSUME NEW N \in Nat, NEW S, 0 \in S, \A n \in 0 .. N - 1 : n \in S => n + 1 \in S
    PROVE  \A n \in 0 .. N : n \in S
<1> SUFFICES ASSUME NEW m \in 0 .. N, m \notin S PROVE FALSE
  OBVIOUS
<1> DEFINE Less == OpToRel(<, Nat)
           T == {n \in Nat : n <= N /\ n \notin S}
<1>1. \A a, b \in Nat : <<a, b>> \in Less <=> a < b BY DEF OpToRel
<1>2. IsWellFoundedOn(Less, Nat) BY NatLessThanWellFounded
<1>3. T \in SUBSET Nat /\ m \in T OBVIOUS
<1> HIDE DEF Less
<1>4. PICK k \in T : \A b \in T : ~(<<b, k>> \in Less)
  <2> HIDE DEF T
  <2> QED BY <1>2, <1>3, WFMin
<1>5. k # 0 /\ k \in Nat /\ k <= N /\ k \notin S OBVIOUS
<1>6. k - 1 \in S
  <2>1. k - 1 \in Nat /\ k - 1 < k BY <1>5
  <2>2. <<k - 1, k>> \in Less BY <1>1, <1>5, <2>1
  <2>3. k - 1 \notin T BY <1>4, <2>2
  <2> QED BY <2>1, <2>3, <1>5
<1> QED BY <1>5, <1>6

\* Replay() takes the records one by one.
LEMMA ReplayIs ==
    ASSUME NEW l, Len(l) \in Nat
    PROVE  \E f : /\ Replay(l) = f[Len(l)] /\ f[0] = NoMaps
                  /\ \A n \in 0 .. Len(l) - 1 : f[n + 1] = After(f[n], l[n + 1], 0)
<1> DEFINE N == Len(l)
           Part(n, g) == g = [k \in 0 .. n |-> IF k = 0 THEN NoMaps ELSE After(g[k - 1], l[k], 0)]
           S == {n \in Nat : \E g : Part(n, g)}
<1>1. 0 \in S
  <2> DEFINE g == [k \in 0 .. 0 |-> NoMaps]
  <2>1. Part(0, g) OBVIOUS
  <2> QED BY <2>1
<1>2. ASSUME NEW n \in 0 .. N - 1, n \in S PROVE n + 1 \in S
  <2>1. PICK g : Part(n, g) BY <1>2
  <2> DEFINE h == [k \in 0 .. n + 1 |-> IF k = n + 1 THEN After(g[n], l[n + 1], 0) ELSE g[k]]
  <2>2. Part(n + 1, h)
    <3>1. \A k \in 0 .. n : h[k] = g[k] OBVIOUS
    <3>2. \A k \in 0 .. n + 1 : h[k] = IF k = 0 THEN NoMaps ELSE After(h[k - 1], l[k], 0)
      <4> SUFFICES ASSUME NEW k \in 0 .. n + 1 PROVE h[k] = IF k = 0 THEN NoMaps ELSE After(h[k - 1], l[k], 0)
        OBVIOUS
      <4>1. CASE k = n + 1
        <5>1. h[k] = After(g[n], l[n + 1], 0) /\ h[k - 1] = g[n] BY <4>1
        <5> QED BY <4>1, <5>1
      <4>2. CASE k \in 0 .. n
        <5>1. h[k] = g[k] /\ (k # 0 => h[k - 1] = g[k - 1]) BY <4>2
        <5>2. g[k] = IF k = 0 THEN NoMaps ELSE After(g[k - 1], l[k], 0) BY <2>1, <4>2
        <5> QED BY <5>1, <5>2
      <4> QED BY <4>1, <4>2
    <3>3. h = [k \in 0 .. n + 1 |-> h[k]] OBVIOUS
    <3> HIDE DEF h
    <3> QED BY <3>2, <3>3
  <2> HIDE DEF Part, h
  <2>3. n + 1 \in Nat OBVIOUS
  <2> QED BY <2>2, <2>3
<1>3. \A n \in 0 .. N : n \in S
  <2> HIDE DEF S
  <2> QED BY <1>1, <1>2, SetInduction
<1>4. \E g : Part(N, g) BY <1>3
<1> DEFINE f == CHOOSE g : Part(N, g)
<1>5. Part(N, f) BY <1>4
<1>6. Replay(l) = f[Len(l)] BY DEF Replay
<1> HIDE DEF f
<1> QED BY <1>5, <1>6

-----------------------------------------------------------------------------
(* The inductive invariant.                                                *)

\* A record is an operation or an end of a transaction.
IsOp(r) == r.t \in {"enq", "deq"}
IsEnd(r) == r.t \in {"commit", "abort"}
\* Records as they are written: an operation has a message (or, in the prepared
\* list, an xid), an end has a transaction.
LogRec == {r \in RecordType : IF IsOp(r) THEN r.m \in Msgs \cup Xids ELSE r.x \in Xids}
MapsOf == [emap : SUBSET (Msgs \cup Xids), lock : SUBSET (Msgs \cup Xids), tmap : [Xids -> Seq(EntryType)]]

\* The records of transaction x in log l, with their positions.
Recs(l, x) == {[at |-> i, is |-> l[i]] : i \in {k \in 1 .. Len(l) : l[k].x = x}}
RecsOf(j, x) == Recs(log[j], x)
HeldOf(j, x) == Entries(maps[j], x)

\* The operations after the last end, and the entries of txn_map that stand for them.
OpenOps(S) == {e \in S : IsOp(e.is) /\ \A d \in S : IsEnd(d.is) => d.at < e.at}
Says(t, e, n) ==
    /\ t.m = e.is.m /\ (t.enq <=> e.is.t = "enq") /\ t.flag = e.is.flag
    /\ t.pos = e.at \/ (t.pos = 0 /\ e.at <= n)
Match(Es, S, n) ==
    /\ \A t \in Es : \E e \in OpenOps(S) : Says(t, e, n)
    /\ \A e \in OpenOps(S) : \E t \in Es : Says(t, e, n)

\* Where transaction x is, a sync counted with what comes after it.
Waiting(x) == ctx[x].pc \in {"flush", "sync"}
Stage(x) == IF Waiting(x) THEN ctx[x].then ELSE ctx[x].pc
Early == {"none", "open", "tplEnq"}

OnDisk(j, x) == \A e \in RecsOf(j, x) : e.at <= cmpl[j]
Decided(x, b) == \E e \in RecsOf(TPL, x) : e.is.t = "deq" /\ e.is.flag = b /\ e.at <= cmpl[TPL]
HasIn(S, t) == \E e \in S : e.is.t = t

\* Types: the maps of the prepared list hold xids for messages.
Types ==
    /\ log \in [Journals -> Seq(LogRec)]
    /\ \A j \in Journals : cmpl[j] <= subm[j] /\ subm[j] <= Len(log[j])
    /\ cmpl \in [Journals -> Nat] /\ subm \in [Journals -> Nat]
    /\ maps \in [Journals -> MapsOf]
    /\ ctx \in [Xids -> CtxType]
    /\ rec \in [phase : {"up", "tpl", "queues", "txns"}, todo : SUBSET (Queues \cup Xids), prep : SUBSET Xids,
               list : [Xids -> [deq : BOOLEAN, commit : BOOLEAN, tpc : BOOLEAN]]]
    /\ ops \in [Xids -> SUBSET OpType]
    /\ told \in [Xids -> {"none", "prepared", "committed", "aborted"}]
    /\ asked \in [Xids -> {"none", "commit", "abort"}]

\* The context of a transaction: whether the prepared list is involved follows from
\* where its thread is.
ShapeInv(x) ==
    /\ ctx[x].pc = "none" => ctx[x] = NoCtx
    /\ Waiting(x) => ctx[x].then # "none"
    /\ Stage(x) \in Early => ~ctx[x].prepared /\ ctx[x].dtok = "NONE"
    /\ Stage(x) = "prepared" => ctx[x].prepared
    /\ Waiting(x) /\ Stage(x) = "tplDeq" => ctx[x].prepared
    /\ Stage(x) \in {"tplDeq", "prepared"} => (ctx[x].prepared <=> ctx[x].dtok = "ENQ")
    /\ Stage(x) \in {"tplDeq", "close", "return"} /\ ctx[x].commit => ctx[x].prepared

\* The order of the records in the prepared list.
ListOrder(S) ==
    /\ \A e \in S : e.is.t = "deq" => \E d \in S : d.is.t = "enq" /\ d.at < e.at
    /\ \A e \in S : IsEnd(e.is) =>
         \E d \in S : d.is.t = "deq" /\ (d.is.flag <=> e.is.t = "commit") /\ d.at < e.at
    /\ \A e, d \in S : e.is.t = "deq" /\ d.is.t = "deq" => e.is.flag = d.is.flag
    /\ \A e, d \in S : IsEnd(d.is) => e.at <= d.at

\* What the prepared list holds of a transaction follows from where its thread is.
ListStage(x) ==
    /\ Stage(x) \in Early => RecsOf(TPL, x) = {}
    /\ ctx[x].pc \notin {"gone", "failed"} /\ ~ctx[x].prepared => RecsOf(TPL, x) = {}
    /\ Stage(x) \in {"prepared", "tplDeq"} /\ ctx[x].prepared =>
         (\E e \in RecsOf(TPL, x) : e.is.t = "enq") /\ (\A e \in RecsOf(TPL, x) : e.is.t = "enq")
    /\ Stage(x) = "prepared" => \E e \in RecsOf(TPL, x) : e.is.t = "enq" /\ e.is.flag
    /\ Stage(x) = "close" /\ ctx[x].prepared =>
         /\ \E e \in RecsOf(TPL, x) : e.is.t = "deq" /\ e.is.flag = ctx[x].commit
         /\ \A e \in RecsOf(TPL, x) : IsOp(e.is)
    /\ Stage(x) = "return" /\ ctx[x].commit => HasIn(RecsOf(TPL, x), "commit")

\* An operation of x on queue q.
Does(e, o, x) == e.is = Record(o.t, o.m, x, FALSE)

\* A prepare record means that all operations are on disk; a commit in the prepared
\* list that all queues have theirs on disk; an end in a queue that the decision is on
\* disk, or that there never was anything to decide.
QueueOrder(x) ==
    /\ HasIn(RecsOf(TPL, x), "enq") => \A o \in ops[x] : \E e \in RecsOf(o.q, x) : Does(e, o, x) /\ e.at <= cmpl[o.q]
    /\ HasIn(RecsOf(TPL, x), "commit") => \A o \in ops[x] : \E e \in RecsOf(o.q, x) : e.is.t = "commit" /\ e.at <= cmpl[o.q]
    /\ \A q \in Queues : HasIn(RecsOf(q, x), "commit") => Decided(x, TRUE)
    /\ \A q \in Queues : \A e \in RecsOf(q, x) : e.is.t = "commit" =>
          \A o \in ops[x] : o.q = q => \E d \in RecsOf(q, x) : Does(d, o, x) /\ d.at < e.at
    /\ \A q \in Queues : HasIn(RecsOf(q, x), "abort") =>
          Decided(x, FALSE) \/ (RecsOf(TPL, x) = {} /\ Stage(x) \in {"close", "return", "done", "gone", "failed"})

\* Before the decision every operation is in its journal, and its queue impacted.
EarlyInv(x) ==
    /\ ctx[x].pc = "none" => ops[x] = {} /\ \A j \in Journals : RecsOf(j, x) = {}
    /\ Stage(x) \in Early => \A o \in ops[x] : \E e \in RecsOf(o.q, x) : Does(e, o, x)
    /\ Stage(x) \in Early \cup {"prepared", "tplDeq"} => \A o \in ops[x] : o.q \in ctx[x].impacted
    /\ Stage(x) \notin {"return", "done", "failed", "gone"} => \A q \in Queues \ ctx[x].impacted : OnDisk(q, x) /\ HeldOf(q, x) = {}

\* What a sync has waited for is on disk; so is all that a crash leaves.
DiskInv(x) ==
    /\ ctx[x].pc = "sync" => \A j \in SyncSet(x) : \A e \in RecsOf(j, x) : e.at <= subm[j]
    /\ ctx[x].pc = "tplEnq" => \A q \in ctx[x].impacted : OnDisk(q, x)
    /\ ctx[x].pc \in {"prepared", "tplDeq", "close"} => OnDisk(TPL, x)
    /\ ctx[x].pc = "close" /\ ctx[x].commit => \A q \in ctx[x].impacted : OnDisk(q, x)
    /\ Stage(x) = "return" /\ ctx[x].prepared => Decided(x, ctx[x].commit)
    /\ ctx[x].pc = "return" /\ ctx[x].commit => OnDisk(TPL, x)
    /\ ctx[x].pc = "gone" => \A j \in Journals : OnDisk(j, x)

\* A transaction recovery forgets: interrupted, and not in the prepared list.
Dropped(x) == ctx[x].pc = "gone" /\ (rec.phase = "up" \/ x \notin rec.prep)
\* txn_map of a recovered journal holds the transaction's open operations.
MapInv(x) ==
    /\ rec.phase # "tpl" => Match(HeldOf(TPL, x), RecsOf(TPL, x), cmpl[TPL])
    /\ \A q \in Queues : rec.phase \in {"txns", "up"} \/ (rec.phase = "queues" /\ q \notin rec.todo) =>
         IF Dropped(x) THEN HeldOf(q, x) = {} ELSE Match(HeldOf(q, x), RecsOf(q, x), cmpl[q])

CommitFree(x) == \A q \in Queues : ~HasIn(RecsOf(q, x), "commit")
\* How far an ending transaction has come: the queues still to be closed.
ProgressInv(x) ==
    /\ Stage(x) = "close" /\ ctx[x].commit => \A o \in ops[x] : o.q \in ctx[x].left \/ HasIn(RecsOf(o.q, x), "commit")
    /\ Stage(x) = "close" /\ ~ctx[x].commit => CommitFree(x) /\ \A q \in Queues : q \in ctx[x].left \/ HeldOf(q, x) = {}
    /\ Stage(x) = "close" => ctx[x].left \subseteq ctx[x].impacted
    /\ Stage(x) = "return" /\ ~ctx[x].commit => CommitFree(x) /\ \A q \in Queues : HeldOf(q, x) = {}
    /\ Stage(x) = "done" => HasIn(RecsOf(TPL, x), "commit") \/ (CommitFree(x) /\ \A q \in Queues : HeldOf(q, x) = {})

\* The prepared list has a prepare record of x that no end follows.
Enlisted(x) == HasIn(OpenOps(RecsOf(TPL, x)), "enq")
\* Recovery: which transactions are still to be taken up, and that the list says what
\* the records say.
RecInv(x) ==
    /\ rec.phase \in {"tpl", "queues"} => ctx[x].pc \in {"none", "gone"}
    /\ rec.phase = "txns" => (x \in rec.todo <=> x \in rec.prep /\ ctx[x].pc = "gone")
    /\ rec.phase = "txns" => ctx[x].pc \in {"none", "gone", "prepared", "done"} \cup Running
    /\ rec.phase \in {"queues", "txns"} /\ x \in rec.prep /\ ctx[x].pc \in {"none", "gone"} =>
         /\ Enlisted(x)
         /\ rec.list[x].deq <=> \E e \in OpenOps(RecsOf(TPL, x)) : e.is.t = "deq"
         /\ rec.list[x].commit <=> \A e \in OpenOps(RecsOf(TPL, x)) : e.is.t = "deq" => e.is.flag
         /\ rec.list[x].tpc <=> \E e \in OpenOps(RecsOf(TPL, x)) : e.is.t = "enq" /\ e.is.flag
    /\ rec.phase # "tpl" /\ Dropped(x) => ~Enlisted(x)

\* What the broker was told is on disk.
ToldInv(x) ==
    /\ told[x] # "none" => Stage(x) \notin Early
    /\ told[x] = "committed" => \E e \in RecsOf(TPL, x) : e.is.t = "commit" /\ e.at <= cmpl[TPL]
    /\ told[x] = "aborted" =>
         /\ \/ ctx[x].pc \in {"done", "gone"}
            \/ rec.phase = "txns" /\ ctx[x].pc \in Running
         /\ Decided(x, FALSE) \/ (RecsOf(TPL, x) = {} /\ ctx[x].pc \in {"done", "gone"})
    /\ told[x] = "prepared" /\ asked[x] = "none" =>
         /\ ctx[x].pc \in {"prepared", "gone"}
         /\ \E e \in RecsOf(TPL, x) : e.is.t = "enq" /\ e.is.flag /\ e.at <= cmpl[TPL]
         /\ \A e \in RecsOf(TPL, x) : e.is.t = "enq"

\* The invariant of one transaction.
TxnInv(x) ==
    /\ ShapeInv(x) /\ ListOrder(RecsOf(TPL, x)) /\ ListStage(x) /\ QueueOrder(x) /\ EarlyInv(x)
    /\ DiskInv(x) /\ MapInv(x) /\ ProgressInv(x) /\ RecInv(x) /\ ToldInv(x)

-----------------------------------------------------------------------------
(* What a record does to txn_map.                                          *)

\* The entry of txn_map for a record.
EntryOf(r, pos) == [m |-> r.m, enq |-> r.t = "enq", flag |-> r.flag, pos |-> pos]

\* The elements of a sequence, one more appended (the entries of txn_map).
LEMMA AppendSet ==
    ASSUME NEW S, NEW s \in Seq(S), NEW e \in S
    PROVE  ToSet(Append(s, e)) = ToSet(s) \cup {e}
<1>1. /\ Append(s, e) \in Seq(S) /\ Len(Append(s, e)) = Len(s) + 1 /\ Append(s, e)[Len(s) + 1] = e
      /\ \A i \in 1 .. Len(s) : Append(s, e)[i] = s[i]
      /\ DOMAIN s = 1 .. Len(s) /\ DOMAIN Append(s, e) = 1 .. Len(s) + 1 /\ Len(s) \in Nat
  BY LenProperties
<1>2. \A i \in 1 .. Len(s) + 1 : i = Len(s) + 1 \/ i \in 1 .. Len(s) BY <1>1
<1>3. Len(s) + 1 \in 1 .. Len(s) + 1 /\ \A i \in 1 .. Len(s) : i \in 1 .. Len(s) + 1 BY <1>1
<1> QED BY <1>1, <1>2, <1>3 DEF ToSet

\* The empty sequence has no element.
LEMMA EmptySet == ToSet(<<>>) = {}
BY DEF ToSet

\* A transaction without entries is not in txn_map.
LEMMA NoEntries ==
    ASSUME NEW ms \in MapsOf, NEW x \in Xids, Entries(ms, x) = {}
    PROVE  ms.tmap[x] = <<>>
<1>1. ms.tmap[x] \in Seq(EntryType) BY DEF MapsOf
<1>2. Len(ms.tmap[x]) \in Nat /\ DOMAIN ms.tmap[x] = 1 .. Len(ms.tmap[x]) BY <1>1, LenProperties
<1>3. DOMAIN ms.tmap[x] = {} BY DEF Entries, ToSet
<1>4. Len(ms.tmap[x]) = 0
  <2> SUFFICES ASSUME Len(ms.tmap[x]) # 0 PROVE FALSE OBVIOUS
  <2>1. 1 \in 1 .. Len(ms.tmap[x]) BY <1>2
  <2> QED BY <1>2, <1>3, <2>1
<1> QED BY <1>1, <1>4, EmptySeq

\* An operation of a transaction changes its entry of txn_map alone.
LEMMA EntryForm ==
    ASSUME NEW ms \in MapsOf, NEW x \in Xids, NEW s \in Seq(EntryType)
    PROVE  [ms EXCEPT !.tmap[x] = s] \in MapsOf /\ [ms EXCEPT !.tmap[x] = s].tmap = [ms.tmap EXCEPT ![x] = s]
BY DEF MapsOf

\* An abort empties its entry of txn_map alone.
LEMMA AbortForm ==
    ASSUME NEW ms \in MapsOf, NEW x \in Xids, NEW D
    PROVE  /\ [ms EXCEPT !.lock = @ \ D, !.tmap[x] = <<>>] \in MapsOf
           /\ [ms EXCEPT !.lock = @ \ D, !.tmap[x] = <<>>].tmap = [ms.tmap EXCEPT ![x] = <<>>]
<1>1. <<>> \in Seq(EntryType) BY EmptySeq
<1> QED BY <1>1 DEF MapsOf

\* A commit empties its entry of txn_map alone.
LEMMA CommitForm ==
    ASSUME NEW ms \in MapsOf, NEW x \in Xids, NEW D, NEW A \in SUBSET (Msgs \cup Xids)
    PROVE  /\ [ms EXCEPT !.emap = (@ \cup A) \ D, !.lock = @ \ D, !.tmap[x] = <<>>] \in MapsOf
           /\ [ms EXCEPT !.emap = (@ \cup A) \ D, !.lock = @ \ D, !.tmap[x] = <<>>].tmap
                = [ms.tmap EXCEPT ![x] = <<>>]
<1>1. <<>> \in Seq(EntryType) BY EmptySeq
<1> QED BY <1>1 DEF MapsOf

\* What a record does to txn_map: an operation is appended to its transaction's
\* entries, an end removes them, and no other transaction's entries change.
LEMMA AfterIs ==
    ASSUME NEW ms \in MapsOf, NEW r \in LogRec, NEW pos \in Nat
    PROVE  /\ After(ms, r, pos) \in MapsOf
           /\ \A x \in Xids : x # r.x => After(ms, r, pos).tmap[x] = ms.tmap[x]
           /\ IsOp(r) /\ r.x \in Xids =>
                 /\ After(ms, r, pos).tmap[r.x] = Append(ms.tmap[r.x], EntryOf(r, pos))
                 /\ EntryOf(r, pos) \in EntryType
           /\ ~IsOp(r) => r.x \in Xids /\ After(ms, r, pos).tmap[r.x] = <<>>
<1>1. /\ r.t \in {"enq", "deq", "abort", "commit"} /\ r.x \in Xids \cup {NoXid} /\ r.flag \in BOOLEAN
      /\ IsOp(r) => r.m \in Msgs \cup Xids
      /\ ~IsOp(r) => r.x \in Xids
  BY DEF LogRec, RecordType
<1>2. \A x \in Xids : ms.tmap[x] \in Seq(EntryType) BY DEF MapsOf
<1>3. NoXid \notin Xids BY XidAssumption
<1>4. ASSUME IsOp(r) PROVE EntryOf(r, pos) \in EntryType
  <2>1. r.m \in Msgs \cup Xids /\ r.flag \in BOOLEAN BY <1>1, <1>4
  <2> QED BY <2>1 DEF EntryOf, EntryType
<1>5. ms.tmap \in [Xids -> Seq(EntryType)] /\ <<>> \in Seq(EntryType) BY EmptySeq DEF MapsOf
<1>6. ASSUME IsOp(r), r.x \in Xids
      PROVE  /\ InTxn(ms, r, pos) \in MapsOf
             /\ InTxn(ms, r, pos).tmap = [ms.tmap EXCEPT ![r.x] = Append(ms.tmap[r.x], EntryOf(r, pos))]
  <2> DEFINE s == Append(ms.tmap[r.x], EntryOf(r, pos))
  <2>1. s \in Seq(EntryType) BY <1>2, <1>4, <1>6
  <2>2. InTxn(ms, r, pos) = [ms EXCEPT !.tmap[r.x] = s] BY DEF InTxn, EntryOf
  <2> HIDE DEF s
  <2>3. PICK x \in Xids : x = r.x BY <1>6
  <2>4. InTxn(ms, r, pos) = [ms EXCEPT !.tmap[x] = s] BY <2>2, <2>3
  <2>5. [ms EXCEPT !.tmap[x] = s] \in MapsOf /\ [ms EXCEPT !.tmap[x] = s].tmap = [ms.tmap EXCEPT ![x] = s]
    BY <2>1, EntryForm
  <2> QED BY <2>3, <2>4, <2>5 DEF s
<1>7. ASSUME NEW ns \in MapsOf, NEW s \in Seq(EntryType), r.x \in Xids,
             ns.tmap = [ms.tmap EXCEPT ![r.x] = s]
      PROVE  ns.tmap[r.x] = s /\ \A x \in Xids : x # r.x => ns.tmap[x] = ms.tmap[x]
  BY <1>5, <1>7
<1>8. CASE r.t = "enq"
  <2>1. After(ms, r, pos) = AfterEnqueue(ms, r, pos) /\ IsOp(r) BY <1>8 DEF After, IsOp
  <2>2. CASE r.x = NoXid
    <3>1. After(ms, r, pos) \in MapsOf /\ After(ms, r, pos).tmap = ms.tmap
      <4>1. r.m \in Msgs \cup Xids BY <1>1, <2>1
      <4>2. After(ms, r, pos) = [ms EXCEPT !.emap = @ \cup {r.m}] BY <2>1, <2>2 DEF AfterEnqueue
      <4> QED BY <4>1, <4>2 DEF MapsOf
    <3> QED BY <1>3, <2>1, <2>2, <3>1
  <2>3. CASE r.x \in Xids
    <3>1. After(ms, r, pos) = InTxn(ms, r, pos) BY <1>3, <2>1, <2>3 DEF AfterEnqueue
    <3>2. Append(ms.tmap[r.x], EntryOf(r, pos)) \in Seq(EntryType) BY <1>2, <1>4, <2>1, <2>3
    <3> QED BY <1>4, <1>6, <1>7, <2>1, <2>3, <3>1, <3>2
  <2> QED BY <1>1, <2>2, <2>3
<1>9. CASE r.t = "deq"
  <2>1. After(ms, r, pos) = AfterDequeue(ms, r, pos) /\ IsOp(r) BY <1>9 DEF After, IsOp
  <2>2. CASE r.x = NoXid
    <3>1. After(ms, r, pos) \in MapsOf /\ After(ms, r, pos).tmap = ms.tmap
      <4>1. r.m \in Msgs \cup Xids BY <1>1, <2>1
      <4>2. After(ms, r, pos) = [ms EXCEPT !.emap = @ \ {r.m}, !.lock = @ \ {r.m}] BY <2>1, <2>2 DEF AfterDequeue
      <4> QED BY <4>1, <4>2 DEF MapsOf
    <3> QED BY <1>3, <2>1, <2>2, <3>1
  <2>3. CASE r.x \in Xids
    <3> DEFINE ns == InTxn(ms, r, pos)
    <3>1. After(ms, r, pos) = [ns EXCEPT !.lock = @ \cup ({r.m} \cap ms.emap)]
      BY <1>3, <2>1, <2>3 DEF AfterDequeue
    <3>2. Append(ms.tmap[r.x], EntryOf(r, pos)) \in Seq(EntryType) BY <1>2, <1>4, <2>1, <2>3
    <3>3. ns \in MapsOf /\ ns.tmap = [ms.tmap EXCEPT ![r.x] = Append(ms.tmap[r.x], EntryOf(r, pos))]
      BY <1>6, <2>1, <2>3
    <3>4. r.m \in Msgs \cup Xids BY <1>1, <2>1
    <3> HIDE DEF ns
    <3>5. After(ms, r, pos) \in MapsOf /\ After(ms, r, pos).tmap = ns.tmap BY <3>1, <3>3, <3>4 DEF MapsOf
    <3> QED BY <1>4, <1>7, <2>1, <2>3, <3>2, <3>3, <3>5
  <2> QED BY <1>1, <2>2, <2>3
<1>10. \A x \in Xids : EnqsOf(ms, x) \subseteq Msgs \cup Xids
  <2> SUFFICES ASSUME NEW x \in Xids, NEW e \in Entries(ms, x) PROVE e.m \in Msgs \cup Xids
    BY DEF EnqsOf
  <2>1. PICK i \in DOMAIN ms.tmap[x] : e = ms.tmap[x][i] BY DEF Entries, ToSet
  <2>2. e \in EntryType BY <1>2, <2>1
  <2> QED BY <2>2 DEF EntryType
<1>11. CASE r.t = "abort"
  <2>1. After(ms, r, pos) = AfterAbort(ms, r.x) BY <1>11 DEF After
  <2>2. ~IsOp(r) /\ r.x \in Xids BY <1>1, <1>11 DEF IsOp
  <2>3. After(ms, r, pos) \in MapsOf /\ After(ms, r, pos).tmap = [ms.tmap EXCEPT ![r.x] = <<>>]
    <3> DEFINE D == DeqsOf(ms, r.x)
    <3>1. After(ms, r, pos) = [ms EXCEPT !.lock = @ \ D, !.tmap[r.x] = <<>>] BY <2>1 DEF AfterAbort
    <3> HIDE DEF D
    <3>2. PICK x \in Xids : x = r.x BY <2>2
    <3>3. After(ms, r, pos) = [ms EXCEPT !.lock = @ \ D, !.tmap[x] = <<>>] BY <3>1, <3>2
    <3>4. /\ [ms EXCEPT !.lock = @ \ D, !.tmap[x] = <<>>] \in MapsOf
          /\ [ms EXCEPT !.lock = @ \ D, !.tmap[x] = <<>>].tmap = [ms.tmap EXCEPT ![x] = <<>>]
      BY AbortForm
    <3> QED BY <3>2, <3>3, <3>4
  <2> QED BY <1>5, <1>7, <2>2, <2>3
<1>12. CASE r.t = "commit"
  <2>1. After(ms, r, pos) = AfterCommit(ms, r.x) BY <1>12 DEF After
  <2>2. ~IsOp(r) /\ r.x \in Xids BY <1>1, <1>12 DEF IsOp
  <2>3. After(ms, r, pos) \in MapsOf /\ After(ms, r, pos).tmap = [ms.tmap EXCEPT ![r.x] = <<>>]
    <3> DEFINE D == DeqsOf(ms, r.x)
               A == EnqsOf(ms, r.x)
    <3>1. After(ms, r, pos) = [ms EXCEPT !.emap = (@ \cup A) \ D, !.lock = @ \ D, !.tmap[r.x] = <<>>]
      BY <2>1 DEF AfterCommit
    <3>2. A \in SUBSET (Msgs \cup Xids) BY <1>10, <2>2
    <3> HIDE DEF D, A
    <3>3. PICK x \in Xids : x = r.x BY <2>2
    <3>4. After(ms, r, pos) = [ms EXCEPT !.emap = (@ \cup A) \ D, !.lock = @ \ D, !.tmap[x] = <<>>] BY <3>1, <3>3
    <3>5. /\ [ms EXCEPT !.emap = (@ \cup A) \ D, !.lock = @ \ D, !.tmap[x] = <<>>] \in MapsOf
          /\ [ms EXCEPT !.emap = (@ \cup A) \ D, !.lock = @ \ D, !.tmap[x] = <<>>].tmap = [ms.tmap EXCEPT ![x] = <<>>]
      BY <3>2, CommitForm
    <3> QED BY <3>3, <3>4, <3>5
  <2> QED BY <1>5, <1>7, <2>2, <2>3
<1> QED BY <1>1, <1>8, <1>9, <1>11, <1>12

-----------------------------------------------------------------------------
(* The records of a transaction in a log.                                  *)

\* The records of a transaction in a log, by position.
LEMMA RecsAre ==
    ASSUME NEW l \in Seq(LogRec), NEW x \in Xids
    PROVE  /\ \A e \in Recs(l, x) : /\ e.at \in 1 .. Len(l) /\ e.at \in Nat /\ e.is \in LogRec /\ e.is.x = x
                                    /\ l[e.at] = e.is /\ e = [at |-> e.at, is |-> e.is]
           /\ \A i \in 1 .. Len(l) : l[i].x = x => [at |-> i, is |-> l[i]] \in Recs(l, x)
<1>1. \A i \in 1 .. Len(l) : l[i] \in LogRec /\ i \in Nat BY LenProperties
<1> QED BY <1>1 DEF Recs

\* A record written to a log is one of its own transaction.
LEMMA RecsAppend ==
    ASSUME NEW l \in Seq(LogRec), NEW r \in LogRec, NEW x \in Xids
    PROVE  Recs(Append(l, r), x) = Recs(l, x) \cup (IF r.x = x THEN {[at |-> Len(l) + 1, is |-> r]} ELSE {})
<1> DEFINE k == Append(l, r)
<1>1. /\ Len(k) = Len(l) + 1 /\ k[Len(l) + 1] = r /\ Len(l) \in Nat
      /\ \A i \in 1 .. Len(l) : k[i] = l[i]
  BY LenProperties
<1>2. \A i : i \in 1 .. Len(k) <=> i \in 1 .. Len(l) \/ i = Len(l) + 1 BY <1>1
<1> HIDE DEF k
<1>3. ASSUME NEW e \in Recs(k, x) PROVE e \in Recs(l, x) \cup (IF r.x = x THEN {[at |-> Len(l) + 1, is |-> r]} ELSE {})
  <2>1. PICK i \in 1 .. Len(k) : k[i].x = x /\ e = [at |-> i, is |-> k[i]] BY DEF Recs
  <2>2. CASE i \in 1 .. Len(l) BY <1>1, <2>1, <2>2 DEF Recs
  <2>3. CASE i = Len(l) + 1 BY <1>1, <2>1, <2>3
  <2> QED BY <1>2, <2>1, <2>2, <2>3
<1>4. ASSUME NEW e \in Recs(l, x) PROVE e \in Recs(k, x)
  <2>1. PICK i \in 1 .. Len(l) : l[i].x = x /\ e = [at |-> i, is |-> l[i]] BY DEF Recs
  <2>2. i \in 1 .. Len(k) /\ k[i] = l[i] BY <1>1, <1>2, <2>1
  <2> QED BY <2>1, <2>2 DEF Recs
<1>5. r.x = x => [at |-> Len(l) + 1, is |-> r] \in Recs(k, x)
  <2>1. Len(l) + 1 \in 1 .. Len(k) BY <1>1
  <2> QED BY <1>1, <2>1 DEF Recs
<1>6. Recs(k, x) = Recs(l, x) \cup (IF r.x = x THEN {[at |-> Len(l) + 1, is |-> r]} ELSE {})
  BY <1>3, <1>4, <1>5
<1> QED BY <1>6 DEF k

\* What a crash leaves of a log.
LEMMA RecsCut ==
    ASSUME NEW l \in Seq(LogRec), NEW k \in Nat, k <= Len(l), NEW x \in Xids
    PROVE  /\ SubSeq(l, 1, k) \in Seq(LogRec) /\ Len(SubSeq(l, 1, k)) = k
           /\ Recs(SubSeq(l, 1, k), x) = {e \in Recs(l, x) : e.at <= k}
<1> DEFINE s == SubSeq(l, 1, k)
<1>1. Len(l) \in Nat BY LenProperties
<1>2. s \in Seq(LogRec) /\ Len(s) = k /\ \A i \in 1 .. k : s[i] = l[i]
  BY <1>1, SubSeqProperties
<1> HIDE DEF s
<1>3. \A i \in 1 .. k : i \in 1 .. Len(l) BY <1>1
<1>4. ASSUME NEW e \in Recs(s, x) PROVE e \in Recs(l, x) /\ e.at <= k
  <2>1. PICK i \in 1 .. k : s[i].x = x /\ e = [at |-> i, is |-> s[i]] BY <1>2 DEF Recs
  <2>2. e = [at |-> i, is |-> l[i]] /\ l[i].x = x /\ i \in 1 .. Len(l) BY <1>2, <1>3, <2>1
  <2>3. e.at = i BY <2>1
  <2> QED BY <2>2, <2>3 DEF Recs
<1>5. ASSUME NEW e \in Recs(l, x), e.at <= k PROVE e \in Recs(s, x)
  <2>1. PICK i \in 1 .. Len(l) : l[i].x = x /\ e = [at |-> i, is |-> l[i]] BY DEF Recs
  <2>2. i \in 1 .. k BY <1>1, <1>5, <2>1
  <2>3. e = [at |-> i, is |-> s[i]] /\ s[i].x = x BY <1>2, <2>1, <2>2
  <2> QED BY <1>2, <2>2, <2>3 DEF Recs
<1>6. Recs(s, x) = {e \in Recs(l, x) : e.at <= k} BY <1>4, <1>5
<1> QED BY <1>2, <1>6 DEF s

-----------------------------------------------------------------------------
(* The entries of txn_map against the records.                             *)

\* Position p is after every record.
Later(S, p) == \A e \in S : e.at \in Nat /\ e.at < p

\* An operation is appended, or an end.
LEMMA MatchOp ==
    ASSUME NEW Es, NEW S, NEW n \in Nat, NEW r \in LogRec, NEW p \in Nat, NEW pos \in Nat, Match(Es, S, n),
           Later(S, p), IsOp(r), pos = p \/ (pos = 0 /\ p <= n)
    PROVE  Match(Es \cup {EntryOf(r, pos)}, S \cup {[at |-> p, is |-> r]}, n)
<1> DEFINE e == [at |-> p, is |-> r]
           t == EntryOf(r, pos)
<1>1. ~IsEnd(r) BY DEF IsOp, IsEnd
<1>2. e.at = p /\ e.is = r OBVIOUS
<1>3. Says(t, e, n) BY DEF Says, EntryOf
<1> HIDE DEF e, t
<1>4. OpenOps(S \cup {e}) = OpenOps(S) \cup {e}
  <2>1. ASSUME NEW d \in OpenOps(S) PROVE d \in OpenOps(S \cup {e}) BY <1>1, <1>2 DEF OpenOps
  <2>2. e \in OpenOps(S \cup {e}) BY <1>1, <1>2 DEF OpenOps, Later
  <2>3. ASSUME NEW d \in OpenOps(S \cup {e}) PROVE d \in OpenOps(S) \cup {e} BY DEF OpenOps
  <2> QED BY <2>1, <2>2, <2>3
<1>5. Match(Es \cup {t}, S \cup {e}, n) BY <1>3, <1>4 DEF Match
<1> QED BY <1>5 DEF e, t

\* After an end a transaction has no entries.
LEMMA MatchEnd ==
    ASSUME NEW S, NEW n \in Nat, NEW r \in LogRec, NEW p \in Nat, Later(S, p), ~IsOp(r)
    PROVE  Match({}, S \cup {[at |-> p, is |-> r]}, n)
<1> DEFINE e == [at |-> p, is |-> r]
<1>1. IsEnd(r) BY DEF IsOp, IsEnd, LogRec, RecordType
<1>2. e.at = p /\ e.is = r OBVIOUS
<1> HIDE DEF e
<1>3. OpenOps(S \cup {e}) = {}
  <2> SUFFICES ASSUME NEW d \in OpenOps(S \cup {e}) PROVE FALSE OBVIOUS
  <2>1. d \in S \/ d = e BY DEF OpenOps
  <2>2. e.at < d.at BY <1>1, <1>2 DEF OpenOps
  <2> QED BY <1>2, <2>1, <2>2 DEF Later
<1>4. Match({}, S \cup {e}, n) BY <1>3 DEF Match
<1> QED BY <1>4 DEF e

\* A transaction without records has no entries.
LEMMA MatchNone == ASSUME NEW n PROVE Match({}, {}, n)
BY DEF Match, OpenOps

\* More of the log is on disk.
LEMMA MatchMore ==
    ASSUME NEW Es, NEW S, NEW n, NEW k, Match(Es, S, n), \A e \in S : e.at <= n => e.at <= k
    PROVE  Match(Es, S, k)
<1>1. \A e \in OpenOps(S) : e \in S BY DEF OpenOps
<1>2. \A t, e : Says(t, e, n) /\ e \in S => Says(t, e, k) BY DEF Says
<1> QED BY <1>1, <1>2 DEF Match

\* Replay() takes the records one by one, and rebuilds for every transaction the
\* entries of its open operations (rcvr_get_next_record() record by record).
LEMMA ReplaySteps ==
    ASSUME NEW l \in Seq(LogRec)
    PROVE  \E f : /\ Replay(l) = f[Len(l)] /\ f[0] = NoMaps
                  /\ \A n \in 0 .. Len(l) - 1 : f[n + 1] = After(f[n], l[n + 1], 0)
                  /\ \A n \in 0 .. Len(l) : /\ f[n] \in MapsOf
                        /\ \A x \in Xids : Match(Entries(f[n], x), Recs(SubSeq(l, 1, n), x), Len(l))
<1>1. Len(l) \in Nat BY LenProperties
<1>2. PICK f : /\ Replay(l) = f[Len(l)] /\ f[0] = NoMaps
               /\ \A n \in 0 .. Len(l) - 1 : f[n + 1] = After(f[n], l[n + 1], 0)
  BY <1>1, ReplayIs
<1> DEFINE P(n) == /\ f[n] \in MapsOf
                   /\ \A x \in Xids : Match(Entries(f[n], x), Recs(SubSeq(l, 1, n), x), Len(l))
           S == {n \in Nat : P(n)}
<1>3. 0 \in S
  <2>1. NoMaps \in MapsOf /\ \A x \in Xids : NoMaps.tmap[x] = <<>>
    BY EmptySeq DEF NoMaps, MapsOf
  <2>2. \A x \in Xids : Entries(NoMaps, x) = {} BY <2>1, EmptySet DEF Entries
  <2>3. \A x \in Xids : Recs(SubSeq(l, 1, 0), x) = {}
    <3> SUFFICES ASSUME NEW x \in Xids PROVE Recs(SubSeq(l, 1, 0), x) = {} OBVIOUS
    <3>1. Recs(SubSeq(l, 1, 0), x) = {e \in Recs(l, x) : e.at <= 0} BY <1>1, RecsCut
    <3>2. \A e \in Recs(l, x) : e.at \in 1 .. Len(l) BY RecsAre
    <3> QED BY <1>1, <3>1, <3>2
  <2>4. P(0) BY <1>2, <2>1, <2>2, <2>3, MatchNone
  <2> QED BY <2>4
<1>4. ASSUME NEW n \in 0 .. Len(l) - 1, n \in S PROVE n + 1 \in S
  <2>1. n \in Nat /\ n + 1 \in Nat /\ n + 1 \in 1 .. Len(l) /\ n <= Len(l) /\ n + 1 <= Len(l) BY <1>1
  <2>2. PICK r \in LogRec : r = l[n + 1] BY <2>1, LenProperties
  <2>3. PICK ms \in MapsOf : ms = f[n] BY <1>4
  <2>4. f[n + 1] = After(ms, r, 0) BY <1>2, <2>2, <2>3
  <2>5. /\ After(ms, r, 0) \in MapsOf
        /\ \A x \in Xids : x # r.x => After(ms, r, 0).tmap[x] = ms.tmap[x]
        /\ IsOp(r) /\ r.x \in Xids => /\ After(ms, r, 0).tmap[r.x] = Append(ms.tmap[r.x], EntryOf(r, 0))
                                       /\ EntryOf(r, 0) \in EntryType
        /\ ~IsOp(r) => r.x \in Xids /\ After(ms, r, 0).tmap[r.x] = <<>>
    BY AfterIs
  <2> DEFINE s == SubSeq(l, 1, n)
  <2>6. s \in Seq(LogRec) /\ Len(s) = n /\ SubSeq(l, 1, n + 1) = Append(s, r)
    <3>1. s \in Seq(LogRec) /\ Len(s) = n /\ \A i \in 1 .. n : s[i] = l[i] BY <1>1, <2>1, SubSeqProperties
    <3>2. SubSeq(l, 1, n + 1) \in Seq(LogRec) /\ Len(SubSeq(l, 1, n + 1)) = n + 1
          /\ \A i \in 1 .. n + 1 : SubSeq(l, 1, n + 1)[i] = l[i] BY <1>1, <2>1, SubSeqProperties
    <3>3. /\ Append(s, r) \in Seq(LogRec) /\ Len(Append(s, r)) = n + 1 /\ Append(s, r)[n + 1] = r
          /\ \A i \in 1 .. n : Append(s, r)[i] = s[i]
      BY <3>1, LenProperties
    <3>4. \A i \in 1 .. n + 1 : SubSeq(l, 1, n + 1)[i] = Append(s, r)[i]
      <4> SUFFICES ASSUME NEW i \in 1 .. n + 1 PROVE SubSeq(l, 1, n + 1)[i] = Append(s, r)[i] OBVIOUS
      <4>1. i = n + 1 \/ i \in 1 .. n BY <2>1
      <4>2. CASE i = n + 1 BY <2>2, <3>2, <3>3, <4>2
      <4>3. CASE i \in 1 .. n BY <3>1, <3>2, <3>3, <4>3
      <4> QED BY <4>1, <4>2, <4>3
    <3> HIDE DEF s
    <3> QED BY <3>1, <3>2, <3>3, <3>4, SeqEqual
  <2>7. ASSUME NEW x \in Xids PROVE Match(Entries(f[n + 1], x), Recs(SubSeq(l, 1, n + 1), x), Len(l))
    <3> HIDE DEF s
    <3> DEFINE T == Recs(s, x)
               e == [at |-> n + 1, is |-> r]
    <3>1. Recs(SubSeq(l, 1, n + 1), x) = T \cup (IF r.x = x THEN {e} ELSE {})
      <4>1. Recs(Append(s, r), x) = Recs(s, x) \cup (IF r.x = x THEN {[at |-> Len(s) + 1, is |-> r]} ELSE {})
        BY <2>6, RecsAppend
      <4> QED BY <2>6, <4>1
    <3>2. Match(Entries(ms, x), T, Len(l)) BY <1>4, <2>3 DEF s
    <3>3. Later(T, n + 1)
      <4>1. \A d \in Recs(s, x) : d.at \in 1 .. n BY <2>6, RecsAre
      <4> QED BY <2>1, <4>1 DEF Later
    <3>4. CASE r.x # x
      <4>1. Entries(f[n + 1], x) = Entries(ms, x) BY <2>4, <2>5, <3>4 DEF Entries
      <4> QED BY <3>1, <3>2, <3>4, <4>1
    <3>5. CASE r.x = x /\ IsOp(r)
      <4>1. ms.tmap[x] \in Seq(EntryType) BY DEF MapsOf
      <4>2. Entries(f[n + 1], x) = Entries(ms, x) \cup {EntryOf(r, 0)}
        <5>1. PICK sq \in Seq(EntryType) : sq = ms.tmap[x] BY <4>1
        <5>2. EntryOf(r, 0) \in EntryType /\ f[n + 1].tmap[x] = Append(sq, EntryOf(r, 0)) BY <2>4, <2>5, <3>5, <5>1
        <5>3. ToSet(Append(sq, EntryOf(r, 0))) = ToSet(sq) \cup {EntryOf(r, 0)} BY <5>2, AppendSet
        <5> QED BY <5>1, <5>2, <5>3 DEF Entries
      <4>3. Match(Entries(ms, x) \cup {EntryOf(r, 0)}, T \cup {e}, Len(l))
        <5>1. PICK Es : Es = Entries(ms, x) OBVIOUS
        <5>2. PICK T0 : T0 = T OBVIOUS
        <5> HIDE DEF T
        <5>3. Match(Es, T0, Len(l)) /\ Later(T0, n + 1) BY <3>2, <3>3, <5>1, <5>2
        <5>4. Match(Es \cup {EntryOf(r, 0)}, T0 \cup {e}, Len(l)) BY <1>1, <2>1, <3>5, <5>3, MatchOp
        <5> QED BY <5>1, <5>2, <5>4
      <4> QED BY <3>1, <3>5, <4>2, <4>3
    <3>6. CASE r.x = x /\ ~IsOp(r)
      <4>1. Entries(f[n + 1], x) = {} BY <2>4, <2>5, <3>6, EmptySet DEF Entries
      <4>2. Match({}, T \cup {e}, Len(l))
        <5>1. PICK T0 : T0 = T OBVIOUS
        <5> HIDE DEF T
        <5>2. Match({}, T0 \cup {e}, Len(l)) BY <1>1, <2>1, <3>3, <3>6, <5>1, MatchEnd
        <5> QED BY <5>1, <5>2
      <4> QED BY <3>1, <3>6, <4>1, <4>2
    <3> QED BY <3>4, <3>5, <3>6
  <2>8. P(n + 1)
    <3> HIDE DEF s
    <3> QED BY <2>4, <2>5, <2>7
  <2> QED BY <2>1, <2>8
<1>5. \A n \in 0 .. Len(l) : n \in S
  <2> HIDE DEF S
  <2> QED BY <1>1, <1>3, <1>4, SetInduction
<1>6. \A n \in 0 .. Len(l) : P(n) BY <1>5
<1> HIDE DEF S
<1> QED BY <1>2, <1>6

\* Replay() rebuilds, from any log, for every transaction the entries of its open
\* operations.
LEMMA ReplayMatch ==
    ASSUME NEW l \in Seq(LogRec)
    PROVE  Replay(l) \in MapsOf /\ \A x \in Xids : Match(Entries(Replay(l), x), Recs(l, x), Len(l))
<1>1. Len(l) \in Nat BY LenProperties
<1>2. PICK f : /\ Replay(l) = f[Len(l)]
               /\ \A n \in 0 .. Len(l) : /\ f[n] \in MapsOf
                     /\ \A x \in Xids : Match(Entries(f[n], x), Recs(SubSeq(l, 1, n), x), Len(l))
  BY ReplaySteps
<1>3. Len(l) \in 0 .. Len(l) BY <1>1
<1>4. SubSeq(l, 1, Len(l)) = l
  <2>1. /\ SubSeq(l, 1, Len(l)) \in Seq(LogRec) /\ Len(SubSeq(l, 1, Len(l))) = Len(l)
        /\ \A i \in 1 .. Len(l) : SubSeq(l, 1, Len(l))[i] = l[i]
    BY <1>1, SubSeqProperties
  <2> QED BY <2>1, SeqEqual
<1> QED BY <1>2, <1>3, <1>4

-----------------------------------------------------------------------------
(* Facts about a state and a write.                                        *)

\* The prepared list is a journal apart from those of the queues.
LEMMA TplIsJournal == TPL \in Journals /\ (\A q \in Queues : q \in Journals /\ q # TPL)
BY StoreAssumption DEF Journals

\* Types of what the other lemmas look at.
LEMMA StateFacts ==
    ASSUME Types, NEW x \in Xids, NEW j \in Journals
    PROVE  /\ \A e \in RecsOf(j, x) : e.at \in Nat /\ e.at <= Len(log[j]) /\ e.is \in LogRec /\ e.is.x = x
           /\ Len(log[j]) \in Nat /\ cmpl[j] \in Nat /\ subm[j] \in Nat
           /\ Later(RecsOf(j, x), Len(log[j]) + 1)
           /\ maps[j].tmap[x] \in Seq(EntryType) /\ (HeldOf(j, x) = {} <=> maps[j].tmap[x] = <<>>)
           /\ \A t \in HeldOf(j, x) : t \in EntryType
<1>1. log[j] \in Seq(LogRec) /\ cmpl[j] \in Nat /\ subm[j] \in Nat /\ maps[j] \in MapsOf BY DEF Types
<1>2. Len(log[j]) \in Nat BY <1>1, LenProperties
<1>3. \A e \in RecsOf(j, x) : e.at \in 1 .. Len(log[j]) /\ e.at \in Nat /\ e.is \in LogRec /\ e.is.x = x
  BY <1>1, RecsAre DEF RecsOf
<1>4. maps[j].tmap[x] \in Seq(EntryType) BY <1>1 DEF MapsOf
<1>5. HeldOf(j, x) = {} <=> maps[j].tmap[x] = <<>> BY <1>1, NoEntries, EmptySet DEF HeldOf, Entries
<1>6. \A t \in HeldOf(j, x) : t \in EntryType BY <1>4 DEF HeldOf, Entries, ToSet
<1> QED BY <1>1, <1>2, <1>3, <1>4, <1>5, <1>6 DEF Later

\* What a write changes: the records and entries of one transaction in one journal.
LEMMA WriteDoes ==
    ASSUME Types, NEW j \in Journals, NEW r \in LogRec, Write(j, r)
    PROVE  /\ log' \in [Journals -> Seq(LogRec)] /\ maps' \in [Journals -> MapsOf]
           /\ subm' = subm /\ cmpl' = cmpl
           /\ \A i \in Journals : subm'[i] <= Len(log'[i])
           /\ \A i \in Journals : \A x \in Xids : i # j \/ r.x # x => RecsOf(i, x)' = RecsOf(i, x) /\ HeldOf(i, x)' = HeldOf(i, x)
           /\ \A x \in Xids : r.x = x =>
                /\ RecsOf(j, x)' = RecsOf(j, x) \cup {[at |-> Len(log[j]) + 1, is |-> r]}
                /\ IsOp(r) => HeldOf(j, x)' = HeldOf(j, x) \cup {EntryOf(r, Len(log[j]) + 1)}
                /\ ~IsOp(r) => HeldOf(j, x)' = {}
<1>1. /\ log[j] \in Seq(LogRec) /\ maps[j] \in MapsOf /\ log \in [Journals -> Seq(LogRec)] /\ maps \in [Journals -> MapsOf]
      /\ \A i \in Journals : subm[i] \in Nat /\ subm[i] <= Len(log[i])
  BY DEF Types
<1>2. Len(log[j]) \in Nat /\ Len(Append(log[j], r)) = Len(log[j]) + 1 /\ Append(log[j], r) \in Seq(LogRec)
  BY <1>1, LenProperties
<1>3. /\ log' = [log EXCEPT ![j] = Append(log[j], r)] /\ subm' = subm /\ cmpl' = cmpl
      /\ maps' = [maps EXCEPT ![j] = After(maps[j], r, Len(log[j]) + 1)]
  BY DEF Write
<1>4. PICK p \in Nat : p = Len(log[j]) + 1 BY <1>2
<1>5. PICK ms \in MapsOf : ms = maps[j] BY <1>1
<1>6. /\ After(ms, r, p) \in MapsOf
      /\ \A x \in Xids : x # r.x => After(ms, r, p).tmap[x] = ms.tmap[x]
      /\ IsOp(r) /\ r.x \in Xids => /\ After(ms, r, p).tmap[r.x] = Append(ms.tmap[r.x], EntryOf(r, p))
                                     /\ EntryOf(r, p) \in EntryType
      /\ ~IsOp(r) => r.x \in Xids /\ After(ms, r, p).tmap[r.x] = <<>>
  BY AfterIs
<1>7. /\ log'[j] = Append(log[j], r) /\ maps'[j] = After(ms, r, p)
      /\ \A i \in Journals : i # j => log'[i] = log[i] /\ maps'[i] = maps[i]
      /\ log' \in [Journals -> Seq(LogRec)] /\ maps' \in [Journals -> MapsOf]
  BY <1>1, <1>2, <1>3, <1>4, <1>5, <1>6
<1>8. \A i \in Journals : subm'[i] <= Len(log'[i]) BY <1>1, <1>2, <1>3, <1>7
<1>9. ASSUME NEW i \in Journals, NEW x \in Xids, i # j \/ r.x # x
      PROVE  RecsOf(i, x)' = RecsOf(i, x) /\ HeldOf(i, x)' = HeldOf(i, x)
  <2>1. CASE i # j BY <1>7, <2>1 DEF RecsOf, HeldOf, Entries
  <2>2. CASE i = j
    <3>1. Recs(Append(log[j], r), x) = Recs(log[j], x)
      <4>1. Recs(Append(log[j], r), x)
              = Recs(log[j], x) \cup (IF r.x = x THEN {[at |-> Len(log[j]) + 1, is |-> r]} ELSE {})
        BY <1>1, RecsAppend
      <4> QED BY <1>9, <2>2, <4>1
    <3>2. maps'[j].tmap[x] = maps[j].tmap[x] BY <1>5, <1>6, <1>7, <1>9, <2>2
    <3> QED BY <1>7, <2>2, <3>1, <3>2 DEF RecsOf, HeldOf, Entries
  <2> QED BY <2>1, <2>2
<1>10. ASSUME NEW x \in Xids, r.x = x
       PROVE  /\ RecsOf(j, x)' = RecsOf(j, x) \cup {[at |-> Len(log[j]) + 1, is |-> r]}
              /\ IsOp(r) => HeldOf(j, x)' = HeldOf(j, x) \cup {EntryOf(r, Len(log[j]) + 1)}
              /\ ~IsOp(r) => HeldOf(j, x)' = {}
  <2>1. Recs(Append(log[j], r), x) = Recs(log[j], x) \cup {[at |-> Len(log[j]) + 1, is |-> r]}
    BY <1>1, <1>10, RecsAppend
  <2>2. RecsOf(j, x)' = RecsOf(j, x) \cup {[at |-> Len(log[j]) + 1, is |-> r]} BY <1>7, <2>1 DEF RecsOf
  <2>3. ASSUME IsOp(r) PROVE HeldOf(j, x)' = HeldOf(j, x) \cup {EntryOf(r, Len(log[j]) + 1)}
    <3>1. PICK sq \in Seq(EntryType) : sq = ms.tmap[x] BY DEF MapsOf
    <3>2. EntryOf(r, p) \in EntryType /\ maps'[j].tmap[x] = Append(sq, EntryOf(r, p)) BY <1>6, <1>7, <1>10, <2>3, <3>1
    <3>3. ToSet(Append(sq, EntryOf(r, p))) = ToSet(sq) \cup {EntryOf(r, p)} BY <3>2, AppendSet
    <3> QED BY <1>4, <1>5, <3>1, <3>2, <3>3 DEF HeldOf, Entries
  <2>4. ~IsOp(r) => HeldOf(j, x)' = {} BY <1>6, <1>7, <1>10, EmptySet DEF HeldOf, Entries
  <2> QED BY <2>2, <2>3, <2>4
<1> QED BY <1>3, <1>7, <1>8, <1>9, <1>10

\* is_txn_synced() is right about the disk.
LEMMA SyncedOnDisk ==
    ASSUME Types, NEW x \in Xids, NEW j \in Journals, Match(HeldOf(j, x), RecsOf(j, x), cmpl[j]), IsTxnSynced(j, x)
    PROVE  OnDisk(j, x)
<1> SUFFICES ASSUME NEW e \in RecsOf(j, x), ~(e.at <= cmpl[j]) PROVE FALSE BY DEF OnDisk
<1>1. log[j] \in Seq(LogRec) /\ cmpl[j] \in Nat BY DEF Types
<1>2. \A d \in RecsOf(j, x) : /\ d.at \in 1 .. Len(log[j]) /\ d.at \in Nat /\ d.is \in LogRec /\ d.is.x = x
                         /\ log[j][d.at] = d.is
  BY <1>1, RecsAre DEF RecsOf
<1>3. \A d \in RecsOf(j, x) : IsEnd(d.is) => d.at <= cmpl[j]
  <2> SUFFICES ASSUME NEW d \in RecsOf(j, x), IsEnd(d.is), ~(d.at <= cmpl[j]) PROVE FALSE OBVIOUS
  <2>1. d.at \in cmpl[j] + 1 .. Len(log[j]) BY <1>1, <1>2
  <2>2. Ends(log[j][d.at], x) BY <1>2 DEF Ends, IsEnd
  <2> QED BY <2>1, <2>2 DEF IsTxnSynced
<1>4. IsOp(e.is)
  <2>1. e.is.t \in {"enq", "deq", "abort", "commit"} BY <1>2 DEF LogRec, RecordType
  <2> QED BY <1>3, <2>1 DEF IsOp, IsEnd
<1>5. e \in OpenOps(RecsOf(j, x))
  <2>1. \A d \in RecsOf(j, x) : IsEnd(d.is) => d.at < e.at BY <1>1, <1>2, <1>3
  <2> QED BY <1>4, <2>1 DEF OpenOps
<1>6. PICK t \in HeldOf(j, x) : Says(t, e, cmpl[j]) BY <1>5 DEF Match
<1>7. t.pos <= cmpl[j] BY <1>6 DEF IsTxnSynced, HeldOf
<1> QED BY <1>1, <1>2, <1>6, <1>7 DEF Says

-----------------------------------------------------------------------------
(* Steps that leave a transaction alone.                                   *)

\* A step that leaves transaction x alone: its records, its entries and its context stay.
Quiet(x) ==
    /\ \A j \in Journals : /\ RecsOf(j, x)' = RecsOf(j, x) /\ HeldOf(j, x)' = HeldOf(j, x)
                           /\ cmpl[j] <= cmpl'[j] /\ subm[j] <= subm'[j]
    /\ ctx'[x] = ctx[x] /\ ops'[x] = ops[x] /\ told'[x] = told[x] /\ asked'[x] = asked[x]
    /\ rec'.phase = rec.phase /\ rec'.prep = rec.prep /\ rec'.list = rec.list
    /\ rec.phase = "queues" => rec'.todo = rec.todo
    /\ x \in rec'.todo <=> x \in rec.todo

\* A step that leaves a transaction alone keeps its invariant.
LEMMA QuietKeeps ==
    ASSUME Types, Types', NEW x \in Xids, TxnInv(x), Quiet(x)
    PROVE  TxnInv(x)'
<1>1. /\ \A j \in Journals : RecsOf(j, x)' = RecsOf(j, x) /\ HeldOf(j, x)' = HeldOf(j, x)
      /\ ctx'[x] = ctx[x] /\ ops'[x] = ops[x] /\ told'[x] = told[x] /\ asked'[x] = asked[x]
      /\ rec'.phase = rec.phase /\ rec'.prep = rec.prep /\ rec'.list = rec.list
      /\ rec.phase = "queues" => rec'.todo = rec.todo
      /\ x \in rec'.todo <=> x \in rec.todo
  BY DEF Quiet
<1>2. \A j \in Journals : /\ cmpl[j] \in Nat /\ cmpl'[j] \in Nat /\ cmpl[j] <= cmpl'[j]
                          /\ subm[j] \in Nat /\ subm'[j] \in Nat /\ subm[j] <= subm'[j]
  BY DEF Quiet, Types
<1>3. \A j \in Journals : \A e \in RecsOf(j, x) : e.at \in Nat BY StateFacts
<1>4. TPL \in Journals /\ \A q \in Queues : q \in Journals BY TplIsJournal
<1>5. Waiting(x)' = Waiting(x) /\ Stage(x)' = Stage(x) /\ SyncSet(x)' = SyncSet(x)
  BY <1>1 DEF Waiting, Stage, SyncSet
<1>6. /\ \A j \in Journals : \A e \in RecsOf(j, x) : (e.at <= cmpl[j] => e.at <= cmpl'[j]) /\ (e.at <= subm[j] => e.at <= subm'[j])
  BY <1>2, <1>3
<1>7. \A j \in Journals : OnDisk(j, x) => OnDisk(j, x)' BY <1>1, <1>6 DEF OnDisk
<1>8. \A b : Decided(x, b) => Decided(x, b)' BY <1>1, <1>4, <1>6 DEF Decided
<1>9. ops[x] \in SUBSET OpType /\ ctx[x].impacted \subseteq Queues BY DEF Types, CtxType
<1>10. \A o \in ops[x] : o.q \in Queues BY <1>9 DEF OpType
<1>11. ShapeInv(x)' BY <1>1, <1>5 DEF TxnInv, ShapeInv
<1>12. ListOrder(RecsOf(TPL, x))' BY <1>1, <1>4 DEF TxnInv, ListOrder
<1>13. ListStage(x)' BY <1>1, <1>4, <1>5 DEF TxnInv, ListStage, HasIn
<1>14. QueueOrder(x)'
  <2>1. QueueOrder(x) BY DEF TxnInv
  <2>2. HasIn(RecsOf(TPL, x), "enq")' => \A o \in ops[x]' : \E e \in RecsOf(o.q, x)' : Does(e, o, x) /\ e.at <= cmpl'[o.q]
    BY <1>1, <1>4, <1>6, <1>10, <2>1 DEF QueueOrder, HasIn
  <2>3. HasIn(RecsOf(TPL, x), "commit")' => \A o \in ops[x]' : \E e \in RecsOf(o.q, x)' : e.is.t = "commit" /\ e.at <= cmpl'[o.q]
    BY <1>1, <1>4, <1>6, <1>10, <2>1 DEF QueueOrder, HasIn
  <2>4. \A q \in Queues : HasIn(RecsOf(q, x), "commit")' => Decided(x, TRUE)'
    BY <1>1, <1>4, <1>8, <2>1 DEF QueueOrder, HasIn
  <2>5. \A q \in Queues : \A e \in RecsOf(q, x)' : e.is.t = "commit" =>
          \A o \in ops'[x] : o.q = q => \E d \in RecsOf(q, x)' : Does(d, o, x) /\ d.at < e.at
    BY <1>1, <1>4, <2>1 DEF QueueOrder
  <2>6. \A q \in Queues : HasIn(RecsOf(q, x), "abort")' =>
          Decided(x, FALSE)' \/ (RecsOf(TPL, x)' = {} /\ Stage(x)' \in {"close", "return", "done", "gone", "failed"})
    BY <1>1, <1>4, <1>5, <1>8, <2>1 DEF QueueOrder, HasIn
  <2> QED BY <2>2, <2>3, <2>4, <2>5, <2>6 DEF QueueOrder
<1>15. EarlyInv(x)'
  <2>1. EarlyInv(x) BY DEF TxnInv
  <2> QED BY <1>1, <1>4, <1>5, <1>7, <1>10, <2>1 DEF EarlyInv
<1>16. DiskInv(x)'
  <2>1. DiskInv(x) BY DEF TxnInv
  <2>2. \A j \in SyncSet(x) : j \in Journals BY <1>4, <1>9 DEF SyncSet
  <2> QED BY <1>1, <1>4, <1>5, <1>6, <1>7, <1>8, <1>9, <2>1, <2>2 DEF DiskInv
<1>17. MapInv(x)'
  <2>1. MapInv(x) BY DEF TxnInv
  <2>2. \A j \in Journals : Match(HeldOf(j, x), RecsOf(j, x), cmpl[j]) => Match(HeldOf(j, x)', RecsOf(j, x)', cmpl'[j])
    <3> SUFFICES ASSUME NEW j \in Journals, Match(HeldOf(j, x), RecsOf(j, x), cmpl[j])
                 PROVE  Match(HeldOf(j, x), RecsOf(j, x), cmpl'[j])
      BY <1>1
    <3>1. PICK Es, S, n, k : Es = HeldOf(j, x) /\ S = RecsOf(j, x) /\ n = cmpl[j] /\ k = cmpl'[j] OBVIOUS
    <3>2. \A e \in S : e.at <= n => e.at <= k BY <1>6, <3>1
    <3>3. Match(Es, S, n) BY <3>1
    <3>4. Match(Es, S, k) BY <3>2, <3>3, MatchMore
    <3> QED BY <3>1, <3>4
  <2>3. Dropped(x)' = Dropped(x) BY <1>1 DEF Dropped
  <2> QED BY <1>1, <1>4, <2>1, <2>2, <2>3 DEF MapInv
<1>18. ProgressInv(x)'
  <2>1. ProgressInv(x) BY DEF TxnInv
  <2>2. CommitFree(x)' = CommitFree(x) BY <1>1, <1>4 DEF CommitFree, HasIn
  <2> QED BY <1>1, <1>4, <1>5, <1>10, <2>1, <2>2 DEF ProgressInv, HasIn
<1>19. RecInv(x)'
  <2>1. RecInv(x) BY DEF TxnInv
  <2>2. Dropped(x)' = Dropped(x) BY <1>1 DEF Dropped
  <2>3. Enlisted(x)' = Enlisted(x) BY <1>1, <1>4 DEF Enlisted, HasIn, OpenOps
  <2>4. OpenOps(RecsOf(TPL, x))' = OpenOps(RecsOf(TPL, x)) BY <1>1, <1>4 DEF OpenOps
  <2> QED BY <1>1, <2>1, <2>2, <2>3, <2>4 DEF RecInv
<1>20. ToldInv(x)'
  <2>1. ToldInv(x) BY DEF TxnInv
  <2> QED BY <1>1, <1>4, <1>5, <1>6, <1>8, <2>1 DEF ToldInv
<1> QED BY <1>11, <1>12, <1>13, <1>14, <1>15, <1>16, <1>17, <1>18, <1>19, <1>20 DEF TxnInv

-----------------------------------------------------------------------------
(* Types.                                                                  *)

\* The fields of a record.
LEMMA RecordFields ==
    ASSUME NEW t, NEW m, NEW x, NEW f
    PROVE  /\ Record(t, m, x, f).t = t /\ Record(t, m, x, f).m = m /\ Record(t, m, x, f).x = x /\ Record(t, m, x, f).flag = f
           /\ IsOp(Record(t, m, x, f)) <=> t \in {"enq", "deq"}
           /\ IsEnd(Record(t, m, x, f)) <=> t \in {"commit", "abort"}
BY DEF Record, IsOp, IsEnd

\* The records the store writes are records of a log.
LEMMA RecordsAre ==
    /\ \A t \in {"enq", "deq"}, m \in Msgs \cup Xids, x \in Xids \cup {NoXid}, f \in BOOLEAN : Record(t, m, x, f) \in LogRec
    /\ \A t \in {"commit", "abort"}, x \in Xids : Record(t, NoXid, x, FALSE) \in LogRec
BY DEF Record, LogRec, RecordType, IsOp

\* The record that ends a transaction in a journal.
LEMMA EndRecordIs ==
    ASSUME NEW x \in Xids, ctx[x] \in CtxType
    PROVE  /\ EndRecord(x) \in LogRec /\ ~IsOp(EndRecord(x)) /\ IsEnd(EndRecord(x)) /\ EndRecord(x).x = x
           /\ EndRecord(x).t = IF ctx[x].commit THEN "commit" ELSE "abort"
<1>1. ctx[x].commit \in BOOLEAN BY DEF CtxType
<1>2. CASE ctx[x].commit
  <2>1. EndRecord(x) = Record("commit", NoXid, x, FALSE) BY <1>2 DEF EndRecord
  <2>2. Record("commit", NoXid, x, FALSE) \in LogRec BY RecordsAre
  <2>3. /\ Record("commit", NoXid, x, FALSE).t = "commit" /\ Record("commit", NoXid, x, FALSE).x = x
        /\ ~IsOp(Record("commit", NoXid, x, FALSE)) /\ IsEnd(Record("commit", NoXid, x, FALSE))
    BY DEF Record, IsOp, IsEnd
  <2> QED BY <1>2, <2>1, <2>2, <2>3
<1>3. CASE ~ctx[x].commit
  <2>1. EndRecord(x) = Record("abort", NoXid, x, FALSE) BY <1>3 DEF EndRecord
  <2>2. Record("abort", NoXid, x, FALSE) \in LogRec BY RecordsAre
  <2>3. /\ Record("abort", NoXid, x, FALSE).t = "abort" /\ Record("abort", NoXid, x, FALSE).x = x
        /\ ~IsOp(Record("abort", NoXid, x, FALSE)) /\ IsEnd(Record("abort", NoXid, x, FALSE))
    BY DEF Record, IsOp, IsEnd
  <2> QED BY <1>3, <2>1, <2>2, <2>3
<1> QED BY <1>1, <1>2, <1>3

\* Recovery keeps the entries of the transactions in the prepared list alone.
LEMMA UnpreparedIs ==
    ASSUME NEW ms \in MapsOf, NEW prep
    PROVE  /\ WithoutUnprepared(ms, prep) \in MapsOf
           /\ \A x \in Xids : WithoutUnprepared(ms, prep).tmap[x] = IF x \in prep THEN ms.tmap[x] ELSE <<>>
<1> DEFINE D == UNION {DeqsOf(ms, x) : x \in Xids \ prep}
<1>1. WithoutUnprepared(ms, prep) =
        [ms EXCEPT !.lock = @ \ D, !.tmap = [x \in Xids |-> IF x \in Xids \ prep THEN <<>> ELSE @[x]]]
  BY DEF WithoutUnprepared
<1> HIDE DEF D
<1>2. <<>> \in Seq(EntryType) BY EmptySeq
<1> DEFINE g == [x \in Xids |-> IF x \in prep THEN ms.tmap[x] ELSE <<>>]
<1>3. [x \in Xids |-> IF x \in Xids \ prep THEN <<>> ELSE ms.tmap[x]] = g OBVIOUS
<1>4. g \in [Xids -> Seq(EntryType)] BY <1>2 DEF MapsOf
<1>5. \A x \in Xids : g[x] = IF x \in prep THEN ms.tmap[x] ELSE <<>> OBVIOUS
<1>6. WithoutUnprepared(ms, prep) = [ms EXCEPT !.lock = @ \ D, !.tmap = g] BY <1>1, <1>3
<1> HIDE DEF g
<1>7. [ms EXCEPT !.lock = @ \ D, !.tmap = g] \in MapsOf /\ [ms EXCEPT !.lock = @ \ D, !.tmap = g].tmap = g
  BY <1>4 DEF MapsOf
<1> QED BY <1>5, <1>6, <1>7

\* The initial state is well typed.
LEMMA InitTypes == Init => Types
<1> SUFFICES ASSUME Init PROVE Types OBVIOUS
<1>1. <<>> \in Seq(LogRec) /\ Len(<<>>) = 0 /\ <<>> \in Seq(EntryType) BY EmptySeq
<1>2. NoMaps \in MapsOf BY <1>1 DEF NoMaps, MapsOf
<1>3. NoCtx \in CtxType BY DEF NoCtx, CtxType, Running
<1>4. log \in [Journals -> Seq(LogRec)] /\ \A j \in Journals : cmpl[j] <= subm[j] /\ subm[j] <= Len(log[j])
  BY <1>1 DEF Init
<1>5. rec \in [phase : {"up", "tpl", "queues", "txns"}, todo : SUBSET (Queues \cup Xids), prep : SUBSET Xids,
               list : [Xids -> [deq : BOOLEAN, commit : BOOLEAN, tpc : BOOLEAN]]]
  BY DEF Init, Up, NoList
<1> QED BY <1>2, <1>3, <1>4, <1>5 DEF Init, Types

\* A step of the store that writes at most one record.
LEMMA WriteTypes ==
    ASSUME Types, NEW j \in Journals, NEW r \in LogRec, Write(j, r) \/ UNCHANGED jrnlVars,
           ctx' \in [Xids -> CtxType], UNCHANGED rec, ops' \in [Xids -> SUBSET OpType], UNCHANGED <<told, asked>>
    PROVE  Types'
<1>1. CASE Write(j, r)
  <2>1. log' \in [Journals -> Seq(LogRec)] /\ maps' \in [Journals -> MapsOf] /\ subm' = subm /\ cmpl' = cmpl
        /\ \A i \in Journals : subm'[i] <= Len(log'[i])
    BY <1>1, WriteDoes
  <2> QED BY <2>1 DEF Types
<1>2. CASE UNCHANGED jrnlVars
  BY <1>2 DEF Types, jrnlVars
<1> QED BY <1>1, <1>2

\* A context that is to sync is a context.
LEMMA StartSyncType ==
    ASSUME NEW x \in Xids, ctx[x] \in CtxType, NEW then \in {"tplEnq", "prepared", "tplDeq", "close", "return"}
    PROVE  StartSync(x, then) \in CtxType
BY DEF StartSync, CtxType, Running

\* Every step keeps the types.
LEMMA TypesNext == Types /\ [Next]_vars => Types'
<1> SUFFICES ASSUME Types, [Next]_vars PROVE Types' OBVIOUS
<1>0. /\ TPL \in Journals /\ \A q \in Queues : q \in Journals BY TplIsJournal
<1>1. \A x \in Xids : ctx[x] \in CtxType BY DEF Types
<1>2. ctx \in [Xids -> CtxType] /\ ops \in [Xids -> SUBSET OpType] BY DEF Types
<1>3. ASSUME NEW q \in Queues, NEW m \in Msgs, Enqueue(q, m) \/ Dequeue(q, m) PROVE Types'
  <2>1. PICK t \in {"enq", "deq"} : Write(q, Record(t, m, NoXid, FALSE)) BY <1>3 DEF Enqueue, Dequeue
  <2>2. Record(t, m, NoXid, FALSE) \in LogRec BY RecordsAre
  <2>3. UNCHANGED <<ctx, rec, ops, told, asked>> BY <1>3 DEF Enqueue, Dequeue, histVars
  <2> QED BY <1>0, <1>2, <2>1, <2>2, <2>3, WriteTypes
<1>4. ASSUME NEW x \in Xids, NEW q \in Queues, NEW m \in Msgs, TxnEnqueue(x, q, m) \/ TxnDequeue(x, q, m) PROVE Types'
  <2>1. PICK t \in {"enq", "deq"} : TxnOp(x, q, m, t) BY <1>4 DEF TxnEnqueue, TxnDequeue
  <2>2. Record(t, m, x, FALSE) \in LogRec BY RecordsAre
  <2>3. ctx' \in [Xids -> CtxType]
    <3>1. [ctx[x] EXCEPT !.impacted = @ \cup {q}] \in CtxType BY <1>1 DEF CtxType
    <3>2. ctx' = [ctx EXCEPT ![x] = [ctx[x] EXCEPT !.impacted = @ \cup {q}]] BY <1>2, <2>1 DEF TxnOp, CtxType
    <3> QED BY <1>2, <3>1, <3>2
  <2>4. ops' \in [Xids -> SUBSET OpType]
    <3>1. ops' = [ops EXCEPT ![x] = @ \cup {[q |-> q, m |-> m, t |-> t]}] BY <2>1 DEF TxnOp
    <3>2. [q |-> q, m |-> m, t |-> t] \in OpType BY DEF OpType
    <3> QED BY <1>2, <3>1, <3>2
  <2>5. Write(q, Record(t, m, x, FALSE)) /\ UNCHANGED <<rec, asked, told>> BY <2>1 DEF TxnOp
  <2> QED BY <1>0, <2>2, <2>3, <2>4, <2>5, WriteTypes
<1>5. ASSUME NEW x \in Xids, NEW c \in CtxType, ctx' = [ctx EXCEPT ![x] = c], UNCHANGED <<jrnlVars, rec, ops>>,
             told' \in [Xids -> {"none", "prepared", "committed", "aborted"}], asked' \in [Xids -> {"none", "commit", "abort"}]
      PROVE Types'
  BY <1>5 DEF Types, jrnlVars
<1>6. ASSUME NEW x \in Xids, NEW pc \in Running \cup {"none", "open", "prepared", "failed", "done", "gone"}, Goto(x, pc)
      PROVE  \E c \in CtxType : ctx' = [ctx EXCEPT ![x] = c]
  <2>1. [ctx[x] EXCEPT !.pc = pc] \in CtxType BY <1>1 DEF CtxType
  <2>2. ctx' = [ctx EXCEPT ![x] = [ctx[x] EXCEPT !.pc = pc]] BY <1>1, <1>2, <1>6 DEF Goto, CtxType
  <2> QED BY <2>1, <2>2
<1>7. /\ told \in [Xids -> {"none", "prepared", "committed", "aborted"}] /\ asked \in [Xids -> {"none", "commit", "abort"}]
  BY DEF Types
<1>8. ASSUME NEW x \in Xids, Prepare(x) PROVE Types'
  <2>1. StartSync(x, "tplEnq") \in CtxType BY <1>1, StartSyncType
  <2>2. ctx' = [ctx EXCEPT ![x] = StartSync(x, "tplEnq")] /\ UNCHANGED <<jrnlVars, rec, ops, told, asked>>
    BY <1>8 DEF Prepare, LocalPrepare, histVars
  <2> QED BY <1>5, <1>7, <2>1, <2>2
<1>9. ASSUME NEW x \in Xids, NEW tpc \in BOOLEAN, Begin(x, tpc) PROVE Types'
  <2>1. [ctx[x] EXCEPT !.pc = "open", !.tpc = tpc] \in CtxType BY <1>1 DEF CtxType
  <2>2. ctx' = [ctx EXCEPT ![x] = [ctx[x] EXCEPT !.pc = "open", !.tpc = tpc]] /\ UNCHANGED <<jrnlVars, rec, ops, told, asked>>
    BY <1>1, <1>2, <1>9 DEF Begin, histVars, CtxType
  <2> QED BY <1>5, <1>7, <2>1, <2>2
<1>10. ASSUME NEW x \in Xids, NEW end \in {"commit", "abort"}, EndLocal(x, end) PROVE Types'
  <2>1. CASE ctx[x].impacted = {}
    <3>1. Goto(x, "done") /\ UNCHANGED <<jrnlVars, rec, ops, told, asked>> BY <1>10, <2>1 DEF EndLocal, histVars
    <3> QED BY <1>5, <1>6, <1>7, <3>1
  <2>2. CASE ctx[x].impacted # {}
    <3>1. [LocalPrepare(x) EXCEPT !.commit = end = "commit"] \in CtxType
      <4>1. LocalPrepare(x) \in CtxType BY <1>1, StartSyncType DEF LocalPrepare
      <4> QED BY <4>1 DEF CtxType
    <3>2. /\ ctx' = [ctx EXCEPT ![x] = [LocalPrepare(x) EXCEPT !.commit = end = "commit"]]
          /\ UNCHANGED <<jrnlVars, rec, ops, told>> /\ asked' \in [Xids -> {"none", "commit", "abort"}]
      BY <1>7, <1>10, <2>2 DEF EndLocal, Ask
    <3> QED BY <1>5, <1>7, <3>1, <3>2
  <2> QED BY <2>1, <2>2
<1>11. ASSUME NEW x \in Xids, NEW end \in {"commit", "abort"}, EndDtx(x, end) PROVE Types'
  <2>1. [ctx[x] EXCEPT !.pc = "tplDeq", !.commit = (end = "commit")] \in CtxType BY <1>1 DEF CtxType, Running
  <2>2. /\ ctx' = [ctx EXCEPT ![x] = [ctx[x] EXCEPT !.pc = "tplDeq", !.commit = (end = "commit")]]
        /\ UNCHANGED <<jrnlVars, rec, ops, told>> /\ asked' \in [Xids -> {"none", "commit", "abort"}]
    BY <1>1, <1>2, <1>7, <1>11 DEF EndDtx, Ask, CtxType
  <2> QED BY <1>5, <1>7, <2>1, <2>2
<1>12. ASSUME NEW x \in Xids, Flush(x) PROVE Types'
  <2>1. PICK c \in CtxType : ctx' = [ctx EXCEPT ![x] = c] BY <1>6, <1>12 DEF Flush, Running
  <2>2. /\ subm' = [j \in Journals |-> IF j \in SyncSet(x) /\ ~IsTxnSynced(j, x) THEN Len(log[j]) ELSE subm[j]]
        /\ UNCHANGED <<log, cmpl, maps, rec, ops, told, asked>>
    BY <1>12 DEF Flush, histVars
  <2>3. \A j \in Journals : Len(log[j]) \in Nat /\ cmpl[j] \in Nat /\ subm[j] \in Nat /\ cmpl[j] <= subm[j] /\ subm[j] <= Len(log[j])
    BY LenProperties DEF Types
  <2>4. subm' \in [Journals -> Nat] /\ \A j \in Journals : cmpl[j] <= subm'[j] /\ subm'[j] <= Len(log[j])
    BY <2>2, <2>3
  <2> QED BY <2>1, <2>2, <2>4 DEF Types
<1>13. ASSUME NEW x \in Xids, Sync(x) PROVE Types'
  <2>1. ctx[x].then \in Running \cup {"none", "open", "prepared", "failed", "done", "gone"} BY <1>1 DEF CtxType, Running
  <2>2. Goto(x, ctx[x].then) /\ UNCHANGED <<jrnlVars, rec, ops, asked>> BY <1>13 DEF Sync
  <2>3. told' \in [Xids -> {"none", "prepared", "committed", "aborted"}] BY <1>7, <1>13 DEF Sync
  <2> QED BY <1>5, <1>6, <1>7, <2>1, <2>2, <2>3
<1>14. ASSUME NEW x \in Xids, SyncTimeout(x) PROVE Types'
  <2>1. Goto(x, "failed") /\ UNCHANGED <<jrnlVars, rec, ops, told, asked>> BY <1>14 DEF SyncTimeout, histVars
  <2> QED BY <1>5, <1>6, <1>7, <2>1
<1>15. ASSUME NEW x \in Xids, TplEnqueue(x) PROVE Types'
  <2> DEFINE then == IF ctx[x].tpc THEN "prepared" ELSE "tplDeq"
             c == [StartSync(x, then) EXCEPT !.prepared = TRUE, !.dtok = "ENQ"]
  <2>1. c \in CtxType
    <3>1. StartSync(x, then) \in CtxType BY <1>1, StartSyncType
    <3> QED BY <3>1 DEF CtxType
  <2>2. ctx' = [ctx EXCEPT ![x] = c] /\ Write(TPL, Record("enq", x, x, ctx[x].tpc)) /\ UNCHANGED <<rec, ops, told, asked>>
    BY <1>15 DEF TplEnqueue, histVars
  <2>3. Record("enq", x, x, ctx[x].tpc) \in LogRec
    <3>1. ctx[x].tpc \in BOOLEAN BY <1>1 DEF CtxType
    <3> QED BY <3>1, RecordsAre
  <2> HIDE DEF c
  <2>4. ctx' \in [Xids -> CtxType] BY <1>2, <2>1, <2>2
  <2> QED BY <1>0, <1>2, <2>2, <2>3, <2>4, WriteTypes
<1>16. ASSUME NEW x \in Xids, TplDequeue(x) PROVE Types'
  <2> DEFINE c == [StartSync(x, "close") EXCEPT !.dtok = IF IsEnqueued(x) THEN "DEQ" ELSE @, !.left = ctx[x].impacted]
  <2>1. c \in CtxType
    <3>1. StartSync(x, "close") \in CtxType BY <1>1, StartSyncType
    <3>2. ctx[x].impacted \in SUBSET Queues BY <1>1 DEF CtxType
    <3> QED BY <3>1, <3>2 DEF CtxType
  <2>2. ctx' = [ctx EXCEPT ![x] = c] /\ (Write(TPL, Record("deq", x, x, ctx[x].commit)) \/ UNCHANGED jrnlVars)
        /\ UNCHANGED <<rec, ops, told, asked>>
    BY <1>16 DEF TplDequeue, histVars
  <2>3. Record("deq", x, x, ctx[x].commit) \in LogRec
    <3>1. ctx[x].commit \in BOOLEAN BY <1>1 DEF CtxType
    <3> QED BY <3>1, RecordsAre
  <2> HIDE DEF c
  <2>4. ctx' \in [Xids -> CtxType] BY <1>2, <2>1, <2>2
  <2> QED BY <1>0, <1>2, <2>2, <2>3, <2>4, WriteTypes
<1>17. \A x \in Xids : \A next \in {"close", "return"} : AfterEnd(x, next) \in CtxType
  <2> SUFFICES ASSUME NEW x \in Xids, NEW next \in {"close", "return"} PROVE AfterEnd(x, next) \in CtxType OBVIOUS
  <2>1. StartSync(x, next) \in CtxType BY <1>1, StartSyncType
  <2>2. [ctx[x] EXCEPT !.pc = next] \in CtxType BY <1>1 DEF CtxType, Running
  <2> QED BY <2>1, <2>2 DEF AfterEnd
<1>18. ASSUME NEW x \in Xids, NEW q \in Queues, CommitQueue(x, q) PROVE Types'
  <2> DEFINE c == [AfterEnd(x, "close") EXCEPT !.left = @ \ {q}]
  <2>1. c \in CtxType
    <3>1. AfterEnd(x, "close") \in CtxType BY <1>17
    <3> QED BY <3>1 DEF CtxType
  <2>2. ctx' = [ctx EXCEPT ![x] = c] /\ Write(q, EndRecord(x)) /\ UNCHANGED <<rec, ops, told, asked>>
    BY <1>18 DEF CommitQueue, histVars
  <2> HIDE DEF c
  <2>3. ctx' \in [Xids -> CtxType] BY <1>2, <2>1, <2>2
  <2>4. EndRecord(x) \in LogRec BY <1>1, EndRecordIs
  <2> QED BY <1>0, <1>2, <2>2, <2>3, <2>4, WriteTypes
<1>19. ASSUME NEW x \in Xids, CommitTpl(x) PROVE Types'
  <2>1. EndRecord(x) \in LogRec BY <1>1, EndRecordIs
  <2>2. (Write(TPL, EndRecord(x)) \/ UNCHANGED jrnlVars) /\ UNCHANGED <<rec, ops, told, asked>>
    BY <1>19 DEF CommitTpl, histVars
  <2>3. ctx' \in [Xids -> CtxType]
    <3>1. AfterEnd(x, "return") \in CtxType BY <1>17
    <3>2. [AfterEnd(x, "return") EXCEPT !.impacted = {}] \in CtxType BY <3>1 DEF CtxType
    <3>3. [ctx[x] EXCEPT !.pc = "return", !.impacted = {}] \in CtxType BY <1>1 DEF CtxType, Running
    <3>4. \/ ctx' = [ctx EXCEPT ![x] = [AfterEnd(x, "return") EXCEPT !.impacted = {}]]
          \/ ctx' = [ctx EXCEPT ![x].pc = "return", ![x].impacted = {}]
      BY <1>19 DEF CommitTpl
    <3>5. [ctx EXCEPT ![x].pc = "return", ![x].impacted = {}] = [ctx EXCEPT ![x] = [ctx[x] EXCEPT !.pc = "return", !.impacted = {}]]
      BY <1>1, <1>2 DEF CtxType
    <3> QED BY <1>2, <3>2, <3>3, <3>4, <3>5
  <2> QED BY <1>0, <1>2, <2>1, <2>2, <2>3, WriteTypes
<1>20. ASSUME NEW x \in Xids, Return(x) PROVE Types'
  <2>1. Goto(x, "done") /\ UNCHANGED <<jrnlVars, rec, ops, asked>> BY <1>20 DEF Return
  <2>2. told' \in [Xids -> {"none", "prepared", "committed", "aborted"}] BY <1>7, <1>20 DEF Return
  <2> QED BY <1>5, <1>6, <1>7, <2>1, <2>2
<1>21. ASSUME NEW j \in Journals, PageOut(j) \/ Complete(j) PROVE Types'
  <2>1. UNCHANGED <<log, maps, ctx, rec, ops, told, asked>> BY <1>21 DEF PageOut, Complete, histVars
  <2>2. \A i \in Journals : Len(log[i]) \in Nat /\ cmpl[i] \in Nat /\ subm[i] \in Nat /\ cmpl[i] <= subm[i] /\ subm[i] <= Len(log[i])
    BY LenProperties DEF Types
  <2>3. /\ subm' \in [Journals -> Nat] /\ cmpl' \in [Journals -> Nat]
        /\ \A i \in Journals : cmpl'[i] <= subm'[i] /\ subm'[i] <= Len(log[i])
    <3>1. subm \in [Journals -> Nat] /\ cmpl \in [Journals -> Nat] BY DEF Types
    <3>2. CASE PageOut(j)
      <4>1. subm[j] < Len(log[j]) /\ subm' = [subm EXCEPT ![j] = subm[j] + 1] /\ cmpl' = cmpl BY <3>2 DEF PageOut
      <4> QED BY <2>2, <3>1, <4>1
    <3>3. CASE Complete(j)
      <4>1. cmpl[j] < subm[j] /\ cmpl' = [cmpl EXCEPT ![j] = cmpl[j] + 1] /\ subm' = subm BY <3>3 DEF Complete
      <4> QED BY <2>2, <3>1, <4>1
    <3> QED BY <1>21, <3>2, <3>3
  <2> QED BY <2>1, <2>3 DEF Types
<1>22. ASSUME Crash PROVE Types'
  <2>1. PICK kept \in [Journals -> UNION {0 .. subm[j] : j \in Journals}] :
          /\ \A j \in Journals : kept[j] \in cmpl[j] .. subm[j]
          /\ log' = [j \in Journals |-> SubSeq(log[j], 1, kept[j])]
          /\ subm' = kept /\ cmpl' = kept
    BY <1>22 DEF Crash
  <2>2. \A j \in Journals : log[j] \in Seq(LogRec) /\ Len(log[j]) \in Nat /\ cmpl[j] \in Nat /\ subm[j] \in Nat /\ subm[j] <= Len(log[j])
    BY LenProperties DEF Types
  <2>3. ASSUME NEW j \in Journals PROVE kept[j] \in Nat /\ kept[j] <= Len(log[j])
    <3>1. kept[j] \in cmpl[j] .. subm[j] BY <2>1
    <3> QED BY <2>2, <3>1
  <2>4. \A j \in Journals : SubSeq(log[j], 1, kept[j]) \in Seq(LogRec) /\ Len(SubSeq(log[j], 1, kept[j])) = kept[j]
    <3> SUFFICES ASSUME NEW j \in Journals
                 PROVE  SubSeq(log[j], 1, kept[j]) \in Seq(LogRec) /\ Len(SubSeq(log[j], 1, kept[j])) = kept[j]
      OBVIOUS
    <3>1. PICK l \in Seq(LogRec), k \in Nat : l = log[j] /\ k = kept[j] /\ k <= Len(l) BY <2>2, <2>3
    <3>2. \A i \in 1 .. k : l[i] \in LogRec BY <2>2, <3>1, LenProperties
    <3> QED BY <3>1, <3>2, SubSeqProperties
  <2>5. /\ log' \in [Journals -> Seq(LogRec)] /\ subm' \in [Journals -> Nat] /\ cmpl' \in [Journals -> Nat]
        /\ \A j \in Journals : cmpl'[j] <= subm'[j] /\ subm'[j] <= Len(log'[j])
    BY <2>1, <2>3, <2>4
  <2>6. maps' \in [Journals -> MapsOf]
    <3>1. NoMaps \in MapsOf BY EmptySeq DEF NoMaps, MapsOf
    <3> QED BY <1>22, <3>1 DEF Crash
  <2>7. ctx' \in [Xids -> CtxType]
    <3>1. NoCtx \in CtxType /\ [NoCtx EXCEPT !.pc = "gone"] \in CtxType BY DEF NoCtx, CtxType, Running
    <3> QED BY <1>22, <3>1 DEF Crash
  <2>8. rec' \in [phase : {"up", "tpl", "queues", "txns"}, todo : SUBSET (Queues \cup Xids), prep : SUBSET Xids,
               list : [Xids -> [deq : BOOLEAN, commit : BOOLEAN, tpc : BOOLEAN]]]
    BY <1>22 DEF Crash, Up, NoList
  <2>9. UNCHANGED <<ops, told, asked>> BY <1>22 DEF Crash, histVars
  <2> QED BY <1>2, <1>7, <2>5, <2>6, <2>7, <2>8, <2>9 DEF Types
<1>23. ASSUME RecoverTplStore PROVE Types'
  <2> DEFINE ms == Replay(log[TPL])
  <2>1. ms \in MapsOf
    <3>1. log[TPL] \in Seq(LogRec) BY <1>0 DEF Types
    <3> QED BY <3>1, ReplayMatch
  <2>2. /\ maps' = [maps EXCEPT ![TPL] = ms] /\ UNCHANGED <<log, subm, cmpl, ctx, ops, told, asked>>
        /\ rec' = [phase |-> "queues", todo |-> Queues, prep |-> Listed(ms), list |-> [x \in Xids |-> ListEntry(ms, x)]]
    BY <1>23 DEF RecoverTplStore, histVars
  <2> HIDE DEF ms
  <2>3. \A x \in Xids : ListEntry(ms, x) \in [deq : BOOLEAN, commit : BOOLEAN, tpc : BOOLEAN] BY DEF ListEntry
  <2>4. Listed(ms) \in SUBSET Xids BY DEF Listed
  <2>5. rec' \in [phase : {"up", "tpl", "queues", "txns"}, todo : SUBSET (Queues \cup Xids), prep : SUBSET Xids,
               list : [Xids -> [deq : BOOLEAN, commit : BOOLEAN, tpc : BOOLEAN]]]
    BY <2>2, <2>3, <2>4
  <2>6. maps' \in [Journals -> MapsOf] BY <2>1, <2>2 DEF Types
  <2> QED BY <2>2, <2>5, <2>6 DEF Types
<1>24. ASSUME NEW q \in Queues, RecoverQueue(q) PROVE Types'
  <2> DEFINE ms == WithoutUnprepared(Replay(log[q]), rec.prep)
  <2>1. ms \in MapsOf
    <3>1. log[q] \in Seq(LogRec) BY <1>0 DEF Types
    <3>2. Replay(log[q]) \in MapsOf BY <3>1, ReplayMatch
    <3> QED BY <3>2, UnpreparedIs
  <2>2. /\ maps' = [maps EXCEPT ![q] = ms] /\ UNCHANGED <<log, subm, cmpl, ctx, ops, told, asked>>
        /\ rec' = IF rec.todo = {q} THEN [rec EXCEPT !.phase = "txns", !.todo = rec.prep] ELSE [rec EXCEPT !.todo = @ \ {q}]
    BY <1>24 DEF RecoverQueue, histVars
  <2> HIDE DEF ms
  <2>3. rec' \in [phase : {"up", "tpl", "queues", "txns"}, todo : SUBSET (Queues \cup Xids), prep : SUBSET Xids,
               list : [Xids -> [deq : BOOLEAN, commit : BOOLEAN, tpc : BOOLEAN]]]
    BY <2>2 DEF Types
  <2>4. maps' \in [Journals -> MapsOf] BY <2>1, <2>2 DEF Types
  <2> QED BY <2>2, <2>3, <2>4 DEF Types
<1>25. ASSUME NEW x \in Xids, RecoverTxn(x) PROVE Types'
  <2> DEFINE touched == {q \in Queues : Entries(maps[q], x) # {}}
             c == [NoCtx EXCEPT !.prepared = TRUE, !.dtok = "ENQ", !.impacted = touched,
                                !.tpc = rec.list[x].tpc, !.commit = rec.list[x].commit, !.rcvd = Completes(x)]
             d == IF rec.list[x].deq THEN [c EXCEPT !.pc = "flush", !.then = "close", !.left = touched]
                  ELSE [c EXCEPT !.pc = IF c.tpc THEN "prepared" ELSE "tplDeq"]
  <2>1. d \in CtxType
    <3>1. touched \in SUBSET Queues OBVIOUS
    <3>2. rec.list[x] \in [deq : BOOLEAN, commit : BOOLEAN, tpc : BOOLEAN] BY DEF Types
    <3>3. Completes(x) \in BOOLEAN BY DEF Completes
    <3> HIDE DEF touched
    <3>4. c \in CtxType BY <3>1, <3>2, <3>3 DEF NoCtx, CtxType, Running
    <3> HIDE DEF c
    <3> QED BY <3>1, <3>2, <3>4 DEF CtxType, Running
  <2>2. ctx' = [ctx EXCEPT ![x] = d] /\ rec' = [rec EXCEPT !.todo = @ \ {x}] /\ UNCHANGED <<jrnlVars, ops, told, asked>>
    BY <1>25 DEF RecoverTxn, histVars
  <2> HIDE DEF d
  <2>3. ctx' \in [Xids -> CtxType] BY <1>2, <2>1, <2>2
  <2>4. rec' \in [phase : {"up", "tpl", "queues", "txns"}, todo : SUBSET (Queues \cup Xids), prep : SUBSET Xids,
               list : [Xids -> [deq : BOOLEAN, commit : BOOLEAN, tpc : BOOLEAN]]]
    BY <2>2 DEF Types
  <2> QED BY <2>2, <2>3, <2>4 DEF Types, jrnlVars
<1>26. ASSUME RecoveryComplete PROVE Types'
  <2>1. rec' \in [phase : {"up", "tpl", "queues", "txns"}, todo : SUBSET (Queues \cup Xids), prep : SUBSET Xids,
               list : [Xids -> [deq : BOOLEAN, commit : BOOLEAN, tpc : BOOLEAN]]]
    BY <1>26 DEF RecoveryComplete, Up, NoList
  <2> QED BY <1>26, <2>1 DEF RecoveryComplete, Types, jrnlVars, histVars
<1>27. CASE UNCHANGED vars
  BY <1>27 DEF Types, vars, jrnlVars, histVars
<1> QED
  BY <1>3, <1>4, <1>8, <1>9, <1>10, <1>11, <1>12, <1>13, <1>14, <1>15, <1>16, <1>18, <1>19, <1>20, <1>21, <1>22, <1>23,
     <1>24, <1>25, <1>26, <1>27 DEF Next, Broker, Thread, Recovery

-----------------------------------------------------------------------------
(* Steps of a thread: waiting for the disk.                                *)

\* A transaction somebody works on: its maps are those of its records.
LEMMA Matched ==
    ASSUME NEW x \in Xids, TxnInv(x), rec.phase \in {"txns", "up"}, ctx[x].pc # "gone", NEW j \in Journals
    PROVE  Match(HeldOf(j, x), RecsOf(j, x), cmpl[j])
<1>1. MapInv(x) /\ ~Dropped(x) BY DEF TxnInv, Dropped
<1> QED BY <1>1 DEF MapInv, Journals

\* A thread works on a transaction only when the journals are recovered.
LEMMA Working ==
    ASSUME Types, NEW x \in Xids, TxnInv(x), ctx[x].pc \notin {"none", "gone"}
    PROVE  rec.phase \in {"txns", "up"}
<1>1. rec.phase \in {"up", "tpl", "queues", "txns"} BY DEF Types
<1> QED BY <1>1 DEF TxnInv, RecInv

\* What a step of its thread that writes nothing leaves true of a transaction.
LEMMA CtxStep ==
    ASSUME Types, Types', NEW x \in Xids, TxnInv(x),
           \A j \in Journals : RecsOf(j, x)' = RecsOf(j, x) /\ HeldOf(j, x)' = HeldOf(j, x) /\ cmpl'[j] = cmpl[j],
           rec' = rec, ops'[x] = ops[x], rec.phase \in {"txns", "up"},
           ctx[x].pc # "gone", ctx'[x].pc \notin {"none", "gone"},
           rec.phase = "txns" => ctx'[x].pc \in {"prepared", "done"} \cup Running,
           Stage(x) \in {"close", "return", "done", "failed"} => Stage(x)' \in {"close", "return", "done", "failed"}
    PROVE  ListOrder(RecsOf(TPL, x))' /\ QueueOrder(x)' /\ MapInv(x)' /\ RecInv(x)'
<1>1. TPL \in Journals /\ \A q \in Queues : q \in Journals BY TplIsJournal
<1>2. \A o \in ops[x] : o.q \in Queues BY DEF Types, OpType
<1>3. ListOrder(RecsOf(TPL, x))' BY <1>1 DEF TxnInv, ListOrder
<1>4. QueueOrder(x)'
  <2>1. QueueOrder(x) BY DEF TxnInv
  <2>2. \A b : Decided(x, b)' <=> Decided(x, b) BY <1>1 DEF Decided
  <2>3. HasIn(RecsOf(TPL, x), "enq")' => \A o \in ops'[x] : \E e \in RecsOf(o.q, x)' : Does(e, o, x) /\ e.at <= cmpl'[o.q]
    BY <1>1, <1>2, <2>1 DEF QueueOrder, HasIn
  <2>4. HasIn(RecsOf(TPL, x), "commit")' => \A o \in ops'[x] : \E e \in RecsOf(o.q, x)' : e.is.t = "commit" /\ e.at <= cmpl'[o.q]
    BY <1>1, <1>2, <2>1 DEF QueueOrder, HasIn
  <2>5. \A q \in Queues : HasIn(RecsOf(q, x), "commit")' => Decided(x, TRUE)' BY <1>1, <2>1, <2>2 DEF QueueOrder, HasIn
  <2>6. \A q \in Queues : \A e \in RecsOf(q, x)' : e.is.t = "commit" =>
          \A o \in ops'[x] : o.q = q => \E d \in RecsOf(q, x)' : Does(d, o, x) /\ d.at < e.at
    BY <1>1, <2>1 DEF QueueOrder
  <2>7. ~(Stage(x) = "gone") BY DEF Stage, Waiting, TxnInv, ShapeInv, Types, CtxType
  <2>8. \A q \in Queues : HasIn(RecsOf(q, x), "abort")' =>
          Decided(x, FALSE)' \/ (RecsOf(TPL, x)' = {} /\ Stage(x)' \in {"close", "return", "done", "gone", "failed"})
    BY <1>1, <2>1, <2>2, <2>7 DEF QueueOrder, HasIn
  <2> QED BY <2>3, <2>4, <2>5, <2>6, <2>8 DEF QueueOrder
<1>5. MapInv(x)'
  <2>1. \A j \in Journals : Match(HeldOf(j, x)', RecsOf(j, x)', cmpl'[j]) BY Matched
  <2>2. ~Dropped(x)' BY DEF Dropped
  <2> QED BY <1>1, <2>1, <2>2 DEF MapInv
<1>6. RecInv(x)'
  <2>1. RecInv(x) BY DEF TxnInv
  <2>2. ~Dropped(x)' BY DEF Dropped
  <2> QED BY <2>1, <2>2 DEF RecInv
<1> QED BY <1>3, <1>4, <1>5, <1>6

\* The journals are left alone.
LEMMA SameJournals ==
    ASSUME NEW x \in Xids, log' = log, maps' = maps
    PROVE  \A j \in Journals : RecsOf(j, x)' = RecsOf(j, x) /\ HeldOf(j, x)' = HeldOf(j, x)
BY DEF RecsOf, HeldOf, Entries

\* A step on the context of x is nothing to the other transactions.
LEMMA OthersQuiet ==
    ASSUME Types, Types', NEW x \in Xids, NEW y \in Xids, y # x, log' = log, maps' = maps, cmpl' = cmpl,
           \A j \in Journals : subm[j] <= subm'[j], rec' = rec,
           ctx'[y] = ctx[y], ops'[y] = ops[y], told'[y] = told[y], asked'[y] = asked[y]
    PROVE  Quiet(y)
<1>1. \A j \in Journals : cmpl[j] <= cmpl'[j] BY DEF Types
<1> QED BY <1>1, SameJournals DEF Quiet

\* Nothing is taken back from the kernel.
LEMMA SubmSame ==
    ASSUME Types, subm' = subm
    PROVE  \A j \in Journals : subm[j] <= subm'[j]
BY DEF Types

\* TxnCtxt::sync() hands every journal's records of the transaction to the kernel.
LEMMA FlushKeeps ==
    ASSUME Types, Types', NEW x \in Xids, TxnInv(x), Flush(x)
    PROVE  TxnInv(x)' /\ \A y \in Xids : y # x => Quiet(y)
<1>1. /\ ctx[x].pc = "flush" /\ ctx' = [ctx EXCEPT ![x].pc = "sync"] /\ log' = log /\ maps' = maps /\ cmpl' = cmpl /\ rec' = rec
      /\ ops' = ops /\ told' = told /\ asked' = asked
      /\ subm' = [j \in Journals |-> IF j \in SyncSet(x) /\ ~IsTxnSynced(j, x) THEN Len(log[j]) ELSE subm[j]]
  BY DEF Flush, At, Goto, histVars
<1>2. /\ ctx'[x] = [ctx[x] EXCEPT !.pc = "sync"] /\ ctx[x] \in CtxType
      /\ \A y \in Xids : y # x => ctx'[y] = ctx[y]
  BY <1>1 DEF Types
<1>3. ctx'[x].pc = "sync" /\ ctx'[x].then = ctx[x].then /\ ctx'[x].impacted = ctx[x].impacted /\ ctx'[x].left = ctx[x].left
      /\ ctx'[x].prepared = ctx[x].prepared /\ ctx'[x].dtok = ctx[x].dtok /\ ctx'[x].commit = ctx[x].commit
  BY <1>2 DEF CtxType
<1>4. Waiting(x) /\ Waiting(x)' /\ Stage(x)' = Stage(x) /\ SyncSet(x)' = SyncSet(x) BY <1>1, <1>3 DEF Waiting, Stage, SyncSet
<1>5. TPL \in Journals /\ \A q \in Queues : q \in Journals BY TplIsJournal
<1>6. \A j \in Journals : RecsOf(j, x)' = RecsOf(j, x) /\ HeldOf(j, x)' = HeldOf(j, x) /\ cmpl'[j] = cmpl[j] BY <1>1, SameJournals
<1>7. rec.phase \in {"txns", "up"} BY <1>1, Working
<1>8. ListOrder(RecsOf(TPL, x))' /\ QueueOrder(x)' /\ MapInv(x)' /\ RecInv(x)'
  BY <1>1, <1>3, <1>4, <1>6, <1>7, CtxStep DEF Running
<1>9. \A j \in Journals : subm[j] <= subm'[j]
  <2>1. \A j \in Journals : Len(log[j]) \in Nat /\ subm[j] \in Nat /\ subm[j] <= Len(log[j]) BY LenProperties DEF Types
  <2> QED BY <1>1, <2>1
<1>10. DiskInv(x)'
  <2>1. ASSUME NEW j \in SyncSet(x), NEW e \in RecsOf(j, x) PROVE e.at <= subm'[j]
    <3>1. j \in Journals BY <1>2, <1>5 DEF SyncSet, CtxType
    <3>2. /\ e.at \in Nat /\ e.at <= Len(log[j]) /\ Len(log[j]) \in Nat /\ cmpl[j] \in Nat /\ subm[j] \in Nat /\ cmpl[j] <= subm[j]
      BY <3>1, StateFacts DEF Types
    <3>3. CASE IsTxnSynced(j, x)
      <4>1. OnDisk(j, x) BY <1>1, <1>7, <3>1, <3>3, Matched, SyncedOnDisk
      <4>2. subm'[j] = subm[j] BY <1>1, <3>1, <3>3
      <4> QED BY <3>2, <4>1, <4>2 DEF OnDisk
    <3>4. CASE ~IsTxnSynced(j, x)
      <4>1. subm'[j] = Len(log[j]) BY <1>1, <3>1, <3>4
      <4> QED BY <3>2, <4>1
    <3> QED BY <3>3, <3>4
  <2>2. \A j \in SyncSet(x) : j \in Journals BY <1>2, <1>5 DEF SyncSet, CtxType
  <2>3. \A b : Decided(x, b)' <=> Decided(x, b) BY <1>5, <1>6 DEF Decided
  <2>4. DiskInv(x) BY DEF TxnInv
  <2> QED BY <1>3, <1>4, <1>6, <2>1, <2>2, <2>3, <2>4 DEF DiskInv
<1>11. ShapeInv(x)' BY <1>1, <1>3, <1>4 DEF TxnInv, ShapeInv
<1>12. ListStage(x)' BY <1>1, <1>3, <1>4, <1>5, <1>6 DEF TxnInv, ListStage, HasIn
<1>13. \A o \in ops[x] : o.q \in Queues BY DEF Types, OpType
<1>14. EarlyInv(x)'
  <2>1. EarlyInv(x) BY DEF TxnInv
  <2> QED BY <1>1, <1>3, <1>4, <1>5, <1>6, <1>13, <2>1 DEF EarlyInv, OnDisk
<1>15. ProgressInv(x)'
  <2>1. ProgressInv(x) BY DEF TxnInv
  <2>2. CommitFree(x)' = CommitFree(x) BY <1>5, <1>6 DEF CommitFree, HasIn
  <2> QED BY <1>1, <1>3, <1>4, <1>5, <1>6, <1>13, <2>1, <2>2 DEF ProgressInv, HasIn
<1>16. ToldInv(x)'
  <2>1. ToldInv(x) BY DEF TxnInv
  <2>2. \A b : Decided(x, b)' <=> Decided(x, b) BY <1>5, <1>6 DEF Decided
  <2> QED BY <1>1, <1>3, <1>4, <1>5, <1>6, <2>1, <2>2 DEF ToldInv, Running
<1>17. TxnInv(x)' BY <1>8, <1>10, <1>11, <1>12, <1>14, <1>15, <1>16 DEF TxnInv
<1> QED BY <1>1, <1>2, <1>9, <1>17, OthersQuiet

\* After the wait of TxnCtxt::sync() the transaction's records are on disk.
LEMMA SyncKeeps ==
    ASSUME Types, Types', NEW x \in Xids, TxnInv(x), Sync(x)
    PROVE  TxnInv(x)' /\ \A y \in Xids : y # x => Quiet(y)
<1>1. /\ ctx[x].pc = "sync" /\ ctx' = [ctx EXCEPT ![x].pc = ctx[x].then] /\ log' = log /\ maps' = maps /\ cmpl' = cmpl /\ rec' = rec
      /\ subm' = subm /\ ops' = ops /\ asked' = asked
      /\ told' = [told EXCEPT ![x] = IF ctx[x].then = "prepared" THEN "prepared" ELSE @]
      /\ Waited(x)
  BY DEF Sync, At, Goto, jrnlVars
<1>2. /\ ctx'[x] = [ctx[x] EXCEPT !.pc = ctx[x].then] /\ ctx[x] \in CtxType
      /\ \A y \in Xids : y # x => ctx'[y] = ctx[y] /\ told'[y] = told[y]
  BY <1>1 DEF Types
<1>3. ctx'[x].pc = ctx[x].then /\ ctx'[x].then = ctx[x].then /\ ctx'[x].impacted = ctx[x].impacted /\ ctx'[x].left = ctx[x].left
      /\ ctx'[x].prepared = ctx[x].prepared /\ ctx'[x].dtok = ctx[x].dtok /\ ctx'[x].commit = ctx[x].commit
  BY <1>2 DEF CtxType
<1>4. Waiting(x) /\ ctx[x].then \in {"tplEnq", "prepared", "tplDeq", "close", "return"}
  BY <1>1, <1>2 DEF Waiting, CtxType, TxnInv, ShapeInv
<1>5. ~Waiting(x)' /\ Stage(x)' = ctx[x].then /\ Stage(x) = ctx[x].then BY <1>3, <1>4 DEF Waiting, Stage
<1>6. TPL \in Journals /\ \A q \in Queues : q \in Journals BY TplIsJournal
<1>7. \A j \in Journals : RecsOf(j, x)' = RecsOf(j, x) /\ HeldOf(j, x)' = HeldOf(j, x) /\ cmpl'[j] = cmpl[j] BY <1>1, SameJournals
<1>8. rec.phase \in {"txns", "up"} BY <1>1, Working
<1>9. ListOrder(RecsOf(TPL, x))' /\ QueueOrder(x)' /\ MapInv(x)' /\ RecInv(x)'
  BY <1>1, <1>3, <1>4, <1>5, <1>7, <1>8, CtxStep DEF Running
<1>10. ASSUME NEW j \in SyncSet(x) PROVE OnDisk(j, x)
  <2>1. j \in Journals BY <1>2, <1>6 DEF SyncSet, CtxType
  <2>2. CASE IsTxnSynced(j, x) BY <1>1, <1>8, <2>1, <2>2, Matched, SyncedOnDisk
  <2>3. CASE cmpl[j] = subm[j]
    <3>1. \A e \in RecsOf(j, x) : e.at <= subm[j] BY <1>1 DEF TxnInv, DiskInv
    <3> QED BY <2>3, <3>1 DEF OnDisk
  <2> QED BY <1>1, <2>2, <2>3 DEF Waited
<1>11. OnDisk(TPL, x)
  <2>1. CASE ctx[x].prepared BY <1>10, <2>1 DEF SyncSet
  <2>2. CASE ~ctx[x].prepared
    <3>1. RecsOf(TPL, x) = {} BY <1>1, <2>2 DEF TxnInv, ListStage
    <3> QED BY <3>1 DEF OnDisk
  <2> QED BY <2>1, <2>2
<1>12. \A q \in ctx[x].impacted : OnDisk(q, x) BY <1>10 DEF SyncSet
<1>13. \A j \in Journals : OnDisk(j, x)' <=> OnDisk(j, x) BY <1>7 DEF OnDisk
<1>14. \A b : Decided(x, b)' <=> Decided(x, b) BY <1>6, <1>7 DEF Decided
<1>15. ShapeInv(x)' BY <1>1, <1>3, <1>4, <1>5 DEF TxnInv, ShapeInv
<1>16. DiskInv(x)'
  <2>1. DiskInv(x) BY DEF TxnInv
  <2>2. ctx[x].impacted \subseteq Queues BY <1>2 DEF CtxType
  <2> QED BY <1>3, <1>4, <1>5, <1>6, <1>11, <1>12, <1>13, <1>14, <2>1, <2>2 DEF DiskInv
<1>17. ListStage(x)' BY <1>1, <1>3, <1>4, <1>5, <1>6, <1>7 DEF TxnInv, ListStage, HasIn
<1>18. \A o \in ops[x] : o.q \in Queues BY DEF Types, OpType
<1>19. EarlyInv(x)'
  <2>1. EarlyInv(x) BY DEF TxnInv
  <2> QED BY <1>1, <1>3, <1>4, <1>5, <1>6, <1>7, <1>13, <1>18, <2>1 DEF EarlyInv
<1>20. ProgressInv(x)'
  <2>1. ProgressInv(x) BY DEF TxnInv
  <2>2. CommitFree(x)' = CommitFree(x) BY <1>6, <1>7 DEF CommitFree, HasIn
  <2> QED BY <1>1, <1>3, <1>4, <1>5, <1>6, <1>7, <1>18, <2>1, <2>2 DEF ProgressInv, HasIn
<1>21. ToldInv(x)'
  <2>1. ToldInv(x) BY DEF TxnInv
  <2>2. CASE ctx[x].then = "prepared"
    <3>1. told'[x] = "prepared" BY <1>1, <2>2 DEF Types
    <3>2. /\ \E e \in RecsOf(TPL, x) : e.is.t = "enq" /\ e.is.flag
          /\ \A e \in RecsOf(TPL, x) : e.is.t = "enq"
      BY <1>5, <2>2 DEF TxnInv, ListStage, ShapeInv
    <3>3. \E e \in RecsOf(TPL, x)' : e.is.t = "enq" /\ e.is.flag /\ e.at <= cmpl'[TPL] BY <1>6, <1>7, <1>11, <3>2 DEF OnDisk
    <3> QED BY <1>3, <1>5, <1>6, <1>7, <2>2, <3>1, <3>2, <3>3 DEF ToldInv, Early
  <2>3. CASE ctx[x].then # "prepared"
    <3>1. told'[x] = told[x] BY <1>1, <2>3 DEF Types
    <3> QED BY <1>1, <1>3, <1>4, <1>5, <1>6, <1>7, <1>14, <2>1, <2>3, <3>1 DEF ToldInv, Running
  <2> QED BY <2>2, <2>3
<1>22. TxnInv(x)' BY <1>9, <1>15, <1>16, <1>17, <1>19, <1>20, <1>21 DEF TxnInv
<1> QED BY <1>1, <1>2, <1>22, OthersQuiet, SubmSame

\* A wait that takes too long.
LEMMA SyncTimeoutKeeps ==
    ASSUME Types, Types', NEW x \in Xids, TxnInv(x), SyncTimeout(x)
    PROVE  TxnInv(x)' /\ \A y \in Xids : y # x => Quiet(y)
<1>1. /\ ctx[x].pc = "sync" /\ ctx' = [ctx EXCEPT ![x].pc = "failed"] /\ log' = log /\ maps' = maps /\ cmpl' = cmpl /\ rec' = rec
      /\ subm' = subm /\ ops' = ops /\ asked' = asked /\ told' = told /\ rec.phase = "up"
  BY DEF SyncTimeout, At, Goto, jrnlVars, histVars, IsUp
<1>2. /\ ctx'[x] = [ctx[x] EXCEPT !.pc = "failed"] /\ ctx[x] \in CtxType
      /\ \A y \in Xids : y # x => ctx'[y] = ctx[y]
  BY <1>1 DEF Types
<1>3. ctx'[x].pc = "failed" BY <1>2 DEF CtxType
<1>4. ~Waiting(x)' /\ Stage(x)' = "failed" BY <1>3 DEF Waiting, Stage
<1>5. TPL \in Journals /\ \A q \in Queues : q \in Journals BY TplIsJournal
<1>6. \A j \in Journals : RecsOf(j, x)' = RecsOf(j, x) /\ HeldOf(j, x)' = HeldOf(j, x) /\ cmpl'[j] = cmpl[j] BY <1>1, SameJournals
<1>7. ListOrder(RecsOf(TPL, x))' /\ QueueOrder(x)' /\ MapInv(x)' /\ RecInv(x)'
  BY <1>1, <1>3, <1>4, <1>6, CtxStep
<1>8. ShapeInv(x)' /\ ListStage(x)' /\ EarlyInv(x)' /\ DiskInv(x)' /\ ProgressInv(x)'
  BY <1>3, <1>4 DEF ShapeInv, ListStage, EarlyInv, DiskInv, ProgressInv, Early
<1>9. ToldInv(x)'
  <2>1. ToldInv(x) BY DEF TxnInv
  <2> QED BY <1>1, <1>3, <1>4, <1>5, <1>6, <2>1 DEF ToldInv, Early
<1>10. TxnInv(x)' BY <1>7, <1>8, <1>9 DEF TxnInv
<1> QED BY <1>1, <1>2, <1>10, OthersQuiet, SubmSame

-----------------------------------------------------------------------------
(* Calls of the broker.                                                    *)

\* A transaction with nothing in the prepared list has no end in any queue.
LEMMA NoEndsEarly ==
    ASSUME NEW x \in Xids, TxnInv(x), RecsOf(TPL, x) = {}
    PROVE  /\ CommitFree(x) /\ \A b : ~Decided(x, b)
           /\ Stage(x) \notin {"close", "return", "done", "gone", "failed"} => \A q \in Queues : ~HasIn(RecsOf(q, x), "abort")
<1>1. \A b : ~Decided(x, b) BY DEF Decided
<1>2. QueueOrder(x) BY DEF TxnInv
<1> QED BY <1>1, <1>2 DEF QueueOrder, CommitFree

\* Nor has one whose prepare record is not dequeued.
LEMMA NoEndsUndecided ==
    ASSUME NEW x \in Xids, TxnInv(x), \A e \in RecsOf(TPL, x) : e.is.t = "enq", RecsOf(TPL, x) # {}
    PROVE  CommitFree(x) /\ (\A q \in Queues : ~HasIn(RecsOf(q, x), "abort")) /\ \A b : ~Decided(x, b)
<1>1. \A b : ~Decided(x, b) BY DEF Decided
<1>2. QueueOrder(x) BY DEF TxnInv
<1> QED BY <1>1, <1>2 DEF QueueOrder, CommitFree

\* begin().
LEMMA BeginKeeps ==
    ASSUME Types, Types', NEW x \in Xids, TxnInv(x), NEW tpc \in BOOLEAN, Begin(x, tpc)
    PROVE  TxnInv(x)' /\ \A y \in Xids : y # x => Quiet(y)
<1>1. /\ ctx[x].pc = "none" /\ ctx' = [ctx EXCEPT ![x].pc = "open", ![x].tpc = tpc] /\ log' = log /\ maps' = maps /\ cmpl' = cmpl
      /\ rec' = rec /\ subm' = subm /\ ops' = ops /\ asked' = asked /\ told' = told /\ rec.phase = "up"
  BY DEF Begin, At, jrnlVars, histVars, IsUp
<1>2. ctx \in [Xids -> CtxType] /\ ctx[x] = NoCtx /\ ctx[x] \in CtxType BY <1>1 DEF TxnInv, ShapeInv, Types
<1>3. /\ ctx'[x] = [ctx[x] EXCEPT !.pc = "open", !.tpc = tpc]
      /\ \A y \in Xids : y # x => ctx'[y] = ctx[y]
  BY <1>1, <1>2 DEF CtxType
<1>4. ctx'[x].pc = "open" /\ ctx'[x].prepared = FALSE /\ ctx'[x].dtok = "NONE" /\ ctx'[x].impacted = {}
      /\ ctx[x].impacted = {}
  BY <1>2, <1>3 DEF NoCtx
<1>5. ~Waiting(x)' /\ Stage(x)' = "open" /\ Stage(x) = "none" BY <1>1, <1>4 DEF Waiting, Stage
<1>6. TPL \in Journals /\ \A q \in Queues : q \in Journals BY TplIsJournal
<1>7. \A j \in Journals : RecsOf(j, x)' = RecsOf(j, x) /\ HeldOf(j, x)' = HeldOf(j, x) /\ cmpl'[j] = cmpl[j] BY <1>1, SameJournals
<1>8. ListOrder(RecsOf(TPL, x))' /\ QueueOrder(x)' /\ MapInv(x)' /\ RecInv(x)'
  BY <1>1, <1>4, <1>5, <1>7, CtxStep
<1>9. ops[x] = {} /\ \A j \in Journals : RecsOf(j, x) = {} BY <1>1 DEF TxnInv, EarlyInv
<1>10. \A q \in Queues : HeldOf(q, x) = {} /\ OnDisk(q, x)
  BY <1>4, <1>5 DEF TxnInv, EarlyInv
<1>11. ShapeInv(x)' /\ ListStage(x)' /\ DiskInv(x)' /\ ProgressInv(x)'
  BY <1>4, <1>5, <1>6, <1>7, <1>9 DEF ShapeInv, ListStage, DiskInv, ProgressInv, Early
<1>12. EarlyInv(x)' BY <1>1, <1>4, <1>5, <1>6, <1>7, <1>9, <1>10 DEF EarlyInv, OnDisk
<1>13. ToldInv(x)'
  <2>1. told[x] = "none" BY <1>5 DEF TxnInv, ToldInv, Early
  <2> QED BY <1>1, <2>1 DEF ToldInv
<1>14. TxnInv(x)' BY <1>8, <1>11, <1>12, <1>13 DEF TxnInv
<1> QED BY <1>1, <1>3, <1>14, OthersQuiet, SubmSame

\* localPrepare() starts with a sync of the queues.
LEMMA PrepareKeeps ==
    ASSUME Types, Types', NEW x \in Xids, TxnInv(x), ctx[x].pc = "open", rec.phase = "up", NEW c \in CtxType,
           c.pc = "flush", c.then = "tplEnq", c.impacted = ctx[x].impacted, c.prepared = ctx[x].prepared, c.dtok = ctx[x].dtok,
           ctx' = [ctx EXCEPT ![x] = c], NEW a, asked' = [asked EXCEPT ![x] = a], UNCHANGED <<jrnlVars, rec, ops, told>>
    PROVE  TxnInv(x)' /\ \A y \in Xids : y # x => Quiet(y)
<1>1. log' = log /\ maps' = maps /\ cmpl' = cmpl /\ subm' = subm /\ rec' = rec /\ ops' = ops /\ told' = told
  BY DEF jrnlVars
<1>2. ctx'[x] = c /\ \A y \in Xids : y # x => ctx'[y] = ctx[y] /\ asked'[y] = asked[y] BY DEF Types
<1>3. Waiting(x)' /\ Stage(x)' = "tplEnq" /\ Stage(x) = "open" /\ ~Waiting(x) BY <1>2 DEF Waiting, Stage
<1>4. TPL \in Journals /\ \A q \in Queues : q \in Journals BY TplIsJournal
<1>5. \A j \in Journals : RecsOf(j, x)' = RecsOf(j, x) /\ HeldOf(j, x)' = HeldOf(j, x) /\ cmpl'[j] = cmpl[j] BY <1>1, SameJournals
<1>6. ListOrder(RecsOf(TPL, x))' /\ QueueOrder(x)' /\ MapInv(x)' /\ RecInv(x)'
  BY <1>1, <1>2, <1>3, <1>5, CtxStep
<1>7. ShapeInv(x)' BY <1>2, <1>3 DEF ShapeInv, TxnInv, Early
<1>8. RecsOf(TPL, x) = {} BY <1>3 DEF TxnInv, ListStage, Early
<1>9. ListStage(x)' /\ DiskInv(x)' /\ ProgressInv(x)'
  BY <1>2, <1>3, <1>4, <1>5, <1>8 DEF ListStage, DiskInv, ProgressInv, Early
<1>10. \A o \in ops[x] : o.q \in Queues BY DEF Types, OpType
<1>11. EarlyInv(x)'
  <2>1. EarlyInv(x) BY DEF TxnInv
  <2> QED BY <1>1, <1>2, <1>3, <1>4, <1>5, <1>10, <2>1 DEF EarlyInv, OnDisk, Early
<1>12. ToldInv(x)'
  <2>1. told[x] = "none" BY <1>3 DEF TxnInv, ToldInv, Early
  <2> QED BY <1>1, <2>1 DEF ToldInv
<1>13. TxnInv(x)' BY <1>6, <1>7, <1>9, <1>11, <1>12 DEF TxnInv
<1> QED BY <1>1, <1>2, <1>13, OthersQuiet, SubmSame

\* prepare() of a distributed transaction.
LEMMA StartPrepareKeeps ==
    ASSUME Types, Types', NEW x \in Xids, TxnInv(x), Prepare(x)
    PROVE  TxnInv(x)' /\ \A y \in Xids : y # x => Quiet(y)
<1>1. ctx[x] \in CtxType BY DEF Types
<1>2. PICK c : c = StartSync(x, "tplEnq") OBVIOUS
<1>3. c \in CtxType BY <1>1, <1>2, StartSyncType
<1>4. c.pc = "flush" /\ c.then = "tplEnq" /\ c.impacted = ctx[x].impacted /\ c.prepared = ctx[x].prepared /\ c.dtok = ctx[x].dtok
  BY <1>1, <1>2 DEF StartSync, CtxType
<1>5. /\ ctx[x].pc = "open" /\ rec.phase = "up" /\ ctx' = [ctx EXCEPT ![x] = c] /\ UNCHANGED <<jrnlVars, rec, ops, told, asked>>
  BY <1>2 DEF Prepare, LocalPrepare, At, IsUp, histVars
<1>6. PICK a : a = asked[x] OBVIOUS
<1>7. asked' = [asked EXCEPT ![x] = a] BY <1>5, <1>6 DEF Types
<1> QED BY <1>3, <1>4, <1>5, <1>7, PrepareKeeps

\* commit() and abort() of a local transaction.
LEMMA EndLocalKeeps ==
    ASSUME Types, Types', NEW x \in Xids, TxnInv(x), NEW end \in {"commit", "abort"}, EndLocal(x, end)
    PROVE  TxnInv(x)' /\ \A y \in Xids : y # x => Quiet(y)
<1>1. ctx[x] \in CtxType /\ ctx[x].pc = "open" /\ rec.phase = "up" /\ UNCHANGED <<jrnlVars, rec>>
  BY DEF EndLocal, At, IsUp, Types
<1>2. CASE ctx[x].impacted # {}
  <2>1. PICK c : c = [LocalPrepare(x) EXCEPT !.commit = end = "commit"] OBVIOUS
  <2>2. StartSync(x, "tplEnq") \in CtxType BY <1>1, StartSyncType
  <2>3. c \in CtxType BY <2>1, <2>2 DEF LocalPrepare, CtxType
  <2>4. c.pc = "flush" /\ c.then = "tplEnq" /\ c.impacted = ctx[x].impacted /\ c.prepared = ctx[x].prepared /\ c.dtok = ctx[x].dtok
    BY <1>1, <2>1 DEF LocalPrepare, StartSync, CtxType
  <2>5. ctx' = [ctx EXCEPT ![x] = c] /\ UNCHANGED <<ops, told>> /\ asked' = [asked EXCEPT ![x] = end]
    BY <1>2, <2>1 DEF EndLocal, Ask
  <2> QED BY <1>1, <2>3, <2>4, <2>5, PrepareKeeps
<1>3. CASE ctx[x].impacted = {}
  <2>1. /\ ctx' = [ctx EXCEPT ![x].pc = "done"] /\ log' = log /\ maps' = maps /\ cmpl' = cmpl
        /\ rec' = rec /\ subm' = subm /\ ops' = ops /\ asked' = asked /\ told' = told
    BY <1>1, <1>3 DEF EndLocal, Goto, jrnlVars, histVars
  <2>2. ctx'[x] = [ctx[x] EXCEPT !.pc = "done"] /\ \A y \in Xids : y # x => ctx'[y] = ctx[y] BY <2>1 DEF Types
  <2>3. ctx'[x].pc = "done" /\ ctx'[x].prepared = ctx[x].prepared BY <1>1, <2>2 DEF CtxType
  <2>4. ~Waiting(x)' /\ Stage(x)' = "done" /\ Stage(x) = "open" BY <1>1, <2>3 DEF Waiting, Stage
  <2>5. TPL \in Journals /\ \A q \in Queues : q \in Journals BY TplIsJournal
  <2>6. \A j \in Journals : RecsOf(j, x)' = RecsOf(j, x) /\ HeldOf(j, x)' = HeldOf(j, x) /\ cmpl'[j] = cmpl[j] BY <2>1, SameJournals
  <2>7. ListOrder(RecsOf(TPL, x))' /\ QueueOrder(x)' /\ MapInv(x)' /\ RecInv(x)'
    BY <1>1, <2>1, <2>3, <2>4, <2>6, CtxStep
  <2>8. RecsOf(TPL, x) = {} BY <2>4 DEF TxnInv, ListStage, Early
  <2>9. CommitFree(x) BY <2>8, NoEndsEarly
  <2>10. \A q \in Queues : HeldOf(q, x) = {} BY <1>3, <2>4 DEF TxnInv, EarlyInv
  <2>11. CommitFree(x)' BY <2>5, <2>6, <2>9 DEF CommitFree, HasIn
  <2>12. ShapeInv(x)' /\ ListStage(x)' /\ EarlyInv(x)' /\ DiskInv(x)'
    BY <2>3, <2>4, <2>5, <2>6, <2>8 DEF ShapeInv, ListStage, EarlyInv, DiskInv, Early
  <2>13. ProgressInv(x)' BY <2>4, <2>5, <2>6, <2>10, <2>11 DEF ProgressInv
  <2>14. ToldInv(x)'
    <3>1. told[x] = "none" BY <2>4 DEF TxnInv, ToldInv, Early
    <3> QED BY <2>1, <3>1 DEF ToldInv
  <2>15. TxnInv(x)' BY <2>7, <2>12, <2>13, <2>14 DEF TxnInv
  <2> QED BY <2>1, <2>2, <2>15, OthersQuiet, SubmSame
<1> QED BY <1>2, <1>3

\* commit() and abort() of a distributed transaction.
LEMMA EndDtxKeeps ==
    ASSUME Types, Types', NEW x \in Xids, TxnInv(x), NEW end \in {"commit", "abort"}, EndDtx(x, end)
    PROVE  TxnInv(x)' /\ \A y \in Xids : y # x => Quiet(y)
<1>1. /\ ctx[x].pc = "prepared" \/ (ctx[x].pc = "open" /\ end = "abort")
      /\ ctx' = [ctx EXCEPT ![x].pc = "tplDeq", ![x].commit = (end = "commit")] /\ log' = log /\ maps' = maps /\ cmpl' = cmpl
      /\ rec' = rec /\ subm' = subm /\ ops' = ops /\ asked' = [asked EXCEPT ![x] = end] /\ told' = told /\ rec.phase = "up"
  BY DEF EndDtx, At, jrnlVars, IsUp, Ask
<1>2. /\ ctx'[x] = [ctx[x] EXCEPT !.pc = "tplDeq", !.commit = (end = "commit")] /\ ctx[x] \in CtxType
      /\ \A y \in Xids : y # x => ctx'[y] = ctx[y] /\ asked'[y] = asked[y]
      /\ asked'[x] = end
  BY <1>1 DEF Types, CtxType
<1>3. ctx'[x].pc = "tplDeq" /\ ctx'[x].prepared = ctx[x].prepared /\ ctx'[x].dtok = ctx[x].dtok /\ ctx'[x].impacted = ctx[x].impacted
      /\ ctx'[x].commit = (end = "commit")
  BY <1>2 DEF CtxType
<1>4. ~Waiting(x)' /\ Stage(x)' = "tplDeq" /\ ~Waiting(x) /\ Stage(x) = ctx[x].pc BY <1>1, <1>3 DEF Waiting, Stage
<1>5. TPL \in Journals /\ \A q \in Queues : q \in Journals BY TplIsJournal
<1>6. \A j \in Journals : RecsOf(j, x)' = RecsOf(j, x) /\ HeldOf(j, x)' = HeldOf(j, x) /\ cmpl'[j] = cmpl[j] BY <1>1, SameJournals
<1>7. ListOrder(RecsOf(TPL, x))' /\ QueueOrder(x)' /\ MapInv(x)' /\ RecInv(x)'
  BY <1>1, <1>3, <1>4, <1>6, CtxStep
<1>8. ShapeInv(x)'
  <2>1. ShapeInv(x) BY DEF TxnInv
  <2> QED BY <1>1, <1>3, <1>4, <2>1 DEF ShapeInv, Early
<1>9. ListStage(x)'
  <2>1. ListStage(x) /\ ShapeInv(x) BY DEF TxnInv
  <2> QED BY <1>1, <1>3, <1>4, <1>5, <1>6, <2>1 DEF ListStage, ShapeInv, Early
<1>10. \A o \in ops[x] : o.q \in Queues BY DEF Types, OpType
<1>11. EarlyInv(x)'
  <2>1. EarlyInv(x) BY DEF TxnInv
  <2> QED BY <1>1, <1>3, <1>4, <1>5, <1>6, <1>10, <2>1 DEF EarlyInv, OnDisk, Early
<1>12. DiskInv(x)'
  <2>1. OnDisk(TPL, x)
    <3>1. CASE ctx[x].pc = "prepared" BY <3>1 DEF TxnInv, DiskInv
    <3>2. CASE ctx[x].pc = "open"
      <4>1. RecsOf(TPL, x) = {} BY <1>4, <3>2 DEF TxnInv, ListStage, Early
      <4> QED BY <4>1 DEF OnDisk
    <3> QED BY <1>1, <3>1, <3>2
  <2>2. OnDisk(TPL, x)' BY <1>5, <1>6, <2>1 DEF OnDisk
  <2> QED BY <1>3, <1>4, <2>2 DEF DiskInv
<1>13. ProgressInv(x)' BY <1>3, <1>4 DEF ProgressInv
<1>14. ToldInv(x)'
  <2>1. ToldInv(x) BY DEF TxnInv
  <2> QED BY <1>1, <1>2, <1>3, <1>4, <1>5, <1>6, <2>1 DEF ToldInv, Early, Running
<1>15. TxnInv(x)' BY <1>7, <1>8, <1>9, <1>11, <1>12, <1>13, <1>14 DEF TxnInv
<1> QED BY <1>1, <1>2, <1>15, OthersQuiet, SubmSame

\* The call returns to the broker.
LEMMA ReturnKeeps ==
    ASSUME Types, Types', NEW x \in Xids, TxnInv(x), Return(x)
    PROVE  TxnInv(x)' /\ \A y \in Xids : y # x => Quiet(y)
<1>1. /\ ctx[x].pc = "return" /\ ctx' = [ctx EXCEPT ![x].pc = "done"] /\ log' = log /\ maps' = maps /\ cmpl' = cmpl
      /\ rec' = rec /\ subm' = subm /\ ops' = ops /\ asked' = asked
      /\ told' = [told EXCEPT ![x] = IF ctx[x].commit THEN "committed" ELSE "aborted"]
  BY DEF Return, At, Goto, jrnlVars
<1>2. /\ ctx'[x] = [ctx[x] EXCEPT !.pc = "done"] /\ ctx[x] \in CtxType
      /\ \A y \in Xids : y # x => ctx'[y] = ctx[y] /\ told'[y] = told[y]
      /\ told'[x] = IF ctx[x].commit THEN "committed" ELSE "aborted"
  BY <1>1 DEF Types
<1>3. ctx'[x].pc = "done" /\ ctx'[x].prepared = ctx[x].prepared /\ ctx[x].commit \in BOOLEAN BY <1>2 DEF CtxType
<1>4. ~Waiting(x)' /\ Stage(x)' = "done" /\ ~Waiting(x) /\ Stage(x) = "return" BY <1>1, <1>3 DEF Waiting, Stage
<1>5. TPL \in Journals /\ \A q \in Queues : q \in Journals BY TplIsJournal
<1>6. \A j \in Journals : RecsOf(j, x)' = RecsOf(j, x) /\ HeldOf(j, x)' = HeldOf(j, x) /\ cmpl'[j] = cmpl[j] BY <1>1, SameJournals
<1>7. rec.phase \in {"txns", "up"} BY <1>1, Working
<1>8. ListOrder(RecsOf(TPL, x))' /\ QueueOrder(x)' /\ MapInv(x)' /\ RecInv(x)'
  BY <1>1, <1>3, <1>4, <1>6, <1>7, CtxStep
<1>9. ListStage(x) /\ ProgressInv(x) /\ DiskInv(x) /\ ShapeInv(x) BY DEF TxnInv
<1>10. CommitFree(x)' = CommitFree(x) BY <1>5, <1>6 DEF CommitFree, HasIn
<1>11. \A b : Decided(x, b)' <=> Decided(x, b) BY <1>5, <1>6 DEF Decided
<1>12. ShapeInv(x)' /\ EarlyInv(x)' /\ DiskInv(x)' BY <1>3, <1>4 DEF ShapeInv, EarlyInv, DiskInv, Early
<1>13. ListStage(x)' BY <1>1, <1>3, <1>4, <1>5, <1>6, <1>9 DEF ListStage, Early
<1>14. ProgressInv(x)' BY <1>4, <1>5, <1>6, <1>9, <1>10 DEF ProgressInv, ListStage, HasIn
<1>15. ToldInv(x)'
  <2>1. CASE ctx[x].commit
    <3>1. HasIn(RecsOf(TPL, x), "commit") /\ OnDisk(TPL, x) BY <1>1, <1>4, <1>9, <2>1 DEF ListStage, DiskInv
    <3>2. \E e \in RecsOf(TPL, x)' : e.is.t = "commit" /\ e.at <= cmpl'[TPL] BY <1>5, <1>6, <3>1 DEF HasIn, OnDisk
    <3> QED BY <1>2, <1>4, <2>1, <3>2 DEF ToldInv, Early
  <2>2. CASE ~ctx[x].commit
    <3>1. Decided(x, FALSE) \/ RecsOf(TPL, x) = {}
      <4>1. CASE ctx[x].prepared
        <5>1. Decided(x, ctx[x].commit) BY <1>4, <1>9, <4>1 DEF DiskInv
        <5>2. ctx[x].commit = FALSE BY <1>3, <2>2
        <5> QED BY <5>1, <5>2
      <4>2. CASE ~ctx[x].prepared BY <1>1, <1>9, <4>2 DEF ListStage
      <4> QED BY <4>1, <4>2
    <3> QED BY <1>2, <1>3, <1>4, <1>5, <1>6, <1>11, <2>2, <3>1 DEF ToldInv, Early
  <2> QED BY <2>1, <2>2
<1>16. TxnInv(x)' BY <1>8, <1>12, <1>13, <1>14, <1>15 DEF TxnInv
<1> QED BY <1>1, <1>2, <1>16, OthersQuiet, SubmSame

-----------------------------------------------------------------------------
(* Steps of a thread: writing records.                                     *)

\* A record of one transaction is nothing to another one.
LEMMA OthersWrite ==
    ASSUME Types, Types', NEW y \in Xids, NEW j \in Journals, NEW r \in LogRec, Write(j, r), r.x # y, rec' = rec,
           ctx'[y] = ctx[y], ops'[y] = ops[y], told'[y] = told[y], asked'[y] = asked[y]
    PROVE  Quiet(y)
<1>1. subm' = subm /\ cmpl' = cmpl /\ \A i \in Journals : RecsOf(i, y)' = RecsOf(i, y) /\ HeldOf(i, y)' = HeldOf(i, y) BY WriteDoes
<1>2. \A i \in Journals : cmpl[i] <= cmpl'[i] /\ subm[i] <= subm'[i] BY <1>1 DEF Types
<1> QED BY <1>1, <1>2 DEF Quiet

\* A record of x is written by the thread that works on it.
LEMMA OwnWrite ==
    ASSUME Types, Types', NEW x \in Xids, TxnInv(x), rec.phase \in {"txns", "up"}, ctx[x].pc # "gone",
           ctx'[x].pc \notin {"none", "gone"}, rec' = rec,
           rec.phase = "txns" => ctx'[x].pc \in {"prepared", "done"} \cup Running,
           NEW j \in Journals, NEW r \in LogRec, r.x = x, Write(j, r)
    PROVE  /\ MapInv(x)' /\ RecInv(x)'
           /\ \A i \in Journals : cmpl'[i] = cmpl[i] /\ (i # j => RecsOf(i, x)' = RecsOf(i, x) /\ HeldOf(i, x)' = HeldOf(i, x))
           /\ ~IsOp(r) => HeldOf(j, x)' = {}
           /\ \E p \in Nat : /\ Later(RecsOf(j, x), p) /\ cmpl[j] < p
                             /\ RecsOf(j, x)' = RecsOf(j, x) \cup {[at |-> p, is |-> r]}
<1>1. /\ subm' = subm /\ cmpl' = cmpl
      /\ \A i \in Journals : i # j => RecsOf(i, x)' = RecsOf(i, x) /\ HeldOf(i, x)' = HeldOf(i, x)
      /\ RecsOf(j, x)' = RecsOf(j, x) \cup {[at |-> Len(log[j]) + 1, is |-> r]}
      /\ IsOp(r) => HeldOf(j, x)' = HeldOf(j, x) \cup {EntryOf(r, Len(log[j]) + 1)}
      /\ ~IsOp(r) => HeldOf(j, x)' = {}
  <2>1. /\ subm' = subm /\ cmpl' = cmpl
        /\ \A i \in Journals : \A y \in Xids : i # j \/ r.x # y => RecsOf(i, y)' = RecsOf(i, y) /\ HeldOf(i, y)' = HeldOf(i, y)
        /\ \A y \in Xids : r.x = y =>
                /\ RecsOf(j, y)' = RecsOf(j, y) \cup {[at |-> Len(log[j]) + 1, is |-> r]}
                /\ IsOp(r) => HeldOf(j, y)' = HeldOf(j, y) \cup {EntryOf(r, Len(log[j]) + 1)}
                /\ ~IsOp(r) => HeldOf(j, y)' = {}
    BY WriteDoes
  <2> QED BY <2>1
<1>2. Len(log[j]) \in Nat /\ cmpl[j] \in Nat /\ Later(RecsOf(j, x), Len(log[j]) + 1) BY StateFacts
<1>3. cmpl[j] <= Len(log[j]) BY <1>2 DEF Types
<1>4. PICK p \in Nat : p = Len(log[j]) + 1 /\ cmpl[j] < p BY <1>2, <1>3
<1>5. Match(HeldOf(j, x)', RecsOf(j, x)', cmpl'[j])
  <2>1. PICK Es, S, n : n \in Nat /\ Es = HeldOf(j, x) /\ S = RecsOf(j, x) /\ n = cmpl[j] BY <1>2
  <2>2. Match(Es, S, n) BY <2>1, Matched
  <2>3. Later(S, p) BY <1>2, <1>4, <2>1
  <2>4. CASE IsOp(r)
    <3>1. Match(Es \cup {EntryOf(r, p)}, S \cup {[at |-> p, is |-> r]}, n) BY <1>4, <2>1, <2>2, <2>3, <2>4, MatchOp
    <3> QED BY <1>1, <1>4, <2>1, <2>4, <3>1
  <2>5. CASE ~IsOp(r)
    <3>1. Match({}, S \cup {[at |-> p, is |-> r]}, n) BY <1>4, <2>1, <2>3, <2>5, MatchEnd
    <3> QED BY <1>1, <1>4, <2>1, <2>5, <3>1
  <2> QED BY <2>4, <2>5
<1>6. \A i \in Journals : Match(HeldOf(i, x)', RecsOf(i, x)', cmpl'[i])
  <2>1. \A i \in Journals : Match(HeldOf(i, x), RecsOf(i, x), cmpl[i]) BY Matched
  <2> QED BY <1>1, <1>5, <2>1
<1>7. ~Dropped(x)' BY DEF Dropped
<1>8. MapInv(x)' BY <1>6, <1>7, TplIsJournal DEF MapInv
<1>9. RecInv(x)'
  <2>1. RecInv(x) BY DEF TxnInv
  <2> QED BY <1>7, <2>1 DEF RecInv
<1> QED BY <1>1, <1>2, <1>4, <1>8, <1>9

\* An enqueue or a dequeue in a transaction.
LEMMA TxnOpKeeps ==
    ASSUME Types, Types', NEW x \in Xids, TxnInv(x), NEW q \in Queues, NEW m \in Msgs, NEW t \in {"enq", "deq"}, TxnOp(x, q, m, t)
    PROVE  TxnInv(x)' /\ \A y \in Xids : y # x => Quiet(y)
<1> DEFINE r == Record(t, m, x, FALSE)
           o == [q |-> q, m |-> m, t |-> t]
<1>1. /\ rec.phase = "up" /\ ctx[x].pc = "open" /\ Write(q, r) /\ ctx' = [ctx EXCEPT ![x].impacted = @ \cup {q}]
      /\ ops' = [ops EXCEPT ![x] = @ \cup {o}] /\ rec' = rec /\ asked' = asked /\ told' = told
  BY DEF TxnOp, IsUp, At
<1>2. r \in LogRec /\ r.x = x /\ r.t = t /\ IsOp(r)
  <2>1. r \in LogRec BY RecordsAre
  <2>2. r.x = x /\ r.t = t BY DEF Record
  <2> QED BY <2>1, <2>2 DEF IsOp
<1>3. o.q = q /\ o.m = m /\ o.t = t OBVIOUS
<1>4. r = Record(o.t, o.m, x, FALSE) BY <1>3
<1> HIDE DEF r, o
<1>5. /\ ctx'[x] = [ctx[x] EXCEPT !.impacted = @ \cup {q}] /\ ctx[x] \in CtxType
      /\ ops'[x] = ops[x] \cup {o}
      /\ \A y \in Xids : y # x => ctx'[y] = ctx[y] /\ ops'[y] = ops[y]
  BY <1>1 DEF Types
<1>6. ctx'[x].pc = "open" /\ ctx'[x].prepared = ctx[x].prepared /\ ctx'[x].dtok = ctx[x].dtok
      /\ ctx'[x].impacted = ctx[x].impacted \cup {q}
  BY <1>1, <1>5 DEF CtxType
<1>7. ~Waiting(x)' /\ Stage(x)' = "open" /\ ~Waiting(x) /\ Stage(x) = "open" BY <1>1, <1>6 DEF Waiting, Stage
<1>8. TPL \in Journals /\ \A k \in Queues : k \in Journals /\ k # TPL BY TplIsJournal
<1>9. /\ MapInv(x)' /\ RecInv(x)'
      /\ \A i \in Journals : cmpl'[i] = cmpl[i] /\ (i # q => RecsOf(i, x)' = RecsOf(i, x) /\ HeldOf(i, x)' = HeldOf(i, x))
      /\ \E p \in Nat : RecsOf(q, x)' = RecsOf(q, x) \cup {[at |-> p, is |-> r]}
  BY <1>1, <1>2, <1>6, <1>8, OwnWrite
<1>10. PICK p \in Nat : RecsOf(q, x)' = RecsOf(q, x) \cup {[at |-> p, is |-> r]} BY <1>9
<1>11. RecsOf(TPL, x) = {} /\ RecsOf(TPL, x)' = {}
  <2>1. RecsOf(TPL, x) = {} BY <1>7 DEF TxnInv, ListStage, Early
  <2> QED BY <1>8, <1>9, <2>1
<1>12. ListOrder(RecsOf(TPL, x))' /\ ListStage(x)' BY <1>6, <1>7, <1>11 DEF ListOrder, ListStage
<1>13. ShapeInv(x)'
  <2>1. ShapeInv(x) BY DEF TxnInv
  <2> QED BY <1>6, <1>7, <2>1 DEF ShapeInv, Early
<1>14. \A k \in Queues : ~HasIn(RecsOf(k, x), "commit") /\ ~HasIn(RecsOf(k, x), "abort")
  BY <1>7, <1>11, NoEndsEarly DEF CommitFree
<1>15. \A k \in Queues : ~HasIn(RecsOf(k, x), "commit")' /\ ~HasIn(RecsOf(k, x), "abort")'
  <2> SUFFICES ASSUME NEW k \in Queues PROVE ~HasIn(RecsOf(k, x), "commit")' /\ ~HasIn(RecsOf(k, x), "abort")' OBVIOUS
  <2>1. CASE k # q BY <1>8, <1>9, <1>14, <2>1 DEF HasIn
  <2>2. CASE k = q
    <3>1. \A e \in RecsOf(q, x)' : e \in RecsOf(q, x) \/ e.is.t \in {"enq", "deq"} BY <1>2, <1>10
    <3> QED BY <1>14, <2>2, <3>1 DEF HasIn
  <2> QED BY <2>1, <2>2
<1>16. QueueOrder(x)' BY <1>11, <1>15 DEF QueueOrder, HasIn
<1>17. EarlyInv(x)'
  <2>1. EarlyInv(x) BY DEF TxnInv
  <2>2. \A k \in Queues : RecsOf(k, x) \subseteq RecsOf(k, x)' BY <1>8, <1>9, <1>10
  <2>3. \A u \in ops[x] : u.q \in Queues BY DEF Types, OpType
  <2>4. \A u \in ops'[x] : \E e \in RecsOf(u.q, x)' : Does(e, u, x)
    <3> SUFFICES ASSUME NEW u \in ops'[x] PROVE \E e \in RecsOf(u.q, x)' : Does(e, u, x) OBVIOUS
    <3>1. CASE u \in ops[x]
      <4>1. PICK e \in RecsOf(u.q, x) : Does(e, u, x) BY <1>7, <2>1, <3>1 DEF EarlyInv, Early
      <4> QED BY <2>2, <2>3, <3>1, <4>1
    <3>2. CASE u = o
      <4>1. [at |-> p, is |-> r] \in RecsOf(q, x)' BY <1>10
      <4>2. Does([at |-> p, is |-> r], o, x) BY <1>4 DEF Does
      <4> QED BY <1>3, <3>2, <4>1, <4>2
    <3> QED BY <1>5, <3>1, <3>2
  <2>5. \A u \in ops'[x] : u.q \in ctx'[x].impacted BY <1>3, <1>5, <1>6, <1>7, <2>1 DEF EarlyInv, Early
  <2>6. \A k \in Queues \ ctx'[x].impacted : OnDisk(k, x)' /\ HeldOf(k, x)' = {}
    BY <1>6, <1>7, <1>8, <1>9, <2>1 DEF EarlyInv, OnDisk
  <2> QED BY <1>6, <1>7, <2>4, <2>5, <2>6 DEF EarlyInv
<1>18. DiskInv(x)' /\ ProgressInv(x)' BY <1>6, <1>7 DEF DiskInv, ProgressInv
<1>19. ToldInv(x)'
  <2>1. told[x] = "none" BY <1>7 DEF TxnInv, ToldInv, Early
  <2> QED BY <1>1, <2>1 DEF ToldInv
<1>20. TxnInv(x)' BY <1>9, <1>12, <1>13, <1>16, <1>17, <1>18, <1>19 DEF TxnInv
<1>21. \A y \in Xids : y # x => Quiet(y) BY <1>1, <1>2, <1>5, <1>8, OthersWrite
<1> QED BY <1>20, <1>21

\* The prepare record is written after all operations are on disk.
LEMMA TplEnqueueKeeps ==
    ASSUME Types, Types', NEW x \in Xids, TxnInv(x), TplEnqueue(x)
    PROVE  TxnInv(x)' /\ \A y \in Xids : y # x => Quiet(y)
<1> DEFINE r == Record("enq", x, x, ctx[x].tpc)
           then == IF ctx[x].tpc THEN "prepared" ELSE "tplDeq"
           c == [StartSync(x, then) EXCEPT !.prepared = TRUE, !.dtok = "ENQ"]
<1>1. /\ ctx[x].pc = "tplEnq" /\ Write(TPL, r) /\ ctx' = [ctx EXCEPT ![x] = c]
      /\ ops' = ops /\ rec' = rec /\ asked' = asked /\ told' = told
  BY DEF TplEnqueue, At, histVars
<1>2. ctx[x] \in CtxType /\ ctx[x].tpc \in BOOLEAN BY DEF Types, CtxType
<1>3. r \in LogRec /\ r.x = x /\ r.t = "enq" /\ r.flag = ctx[x].tpc /\ IsOp(r) BY <1>2, RecordsAre, RecordFields
<1>4. c.pc = "flush" /\ c.then = then /\ c.prepared = TRUE /\ c.dtok = "ENQ" /\ c.impacted = ctx[x].impacted /\ c.commit = ctx[x].commit
  BY <1>2 DEF StartSync, CtxType
<1>5. then \in {"prepared", "tplDeq"} /\ (then = "prepared" => ctx[x].tpc) OBVIOUS
<1> HIDE DEF r, c, then
<1>6. ctx'[x] = c /\ \A y \in Xids : y # x => ctx'[y] = ctx[y] BY <1>1 DEF Types
<1>7. Waiting(x)' /\ Stage(x)' = then /\ ~Waiting(x) /\ Stage(x) = "tplEnq" BY <1>1, <1>4, <1>6 DEF Waiting, Stage
<1>8. TPL \in Journals /\ \A k \in Queues : k \in Journals /\ k # TPL BY TplIsJournal
<1>9. rec.phase \in {"txns", "up"} BY <1>1, Working
<1>10. /\ MapInv(x)' /\ RecInv(x)'
       /\ \A i \in Journals : cmpl'[i] = cmpl[i] /\ (i # TPL => RecsOf(i, x)' = RecsOf(i, x) /\ HeldOf(i, x)' = HeldOf(i, x))
       /\ \E p \in Nat : RecsOf(TPL, x)' = RecsOf(TPL, x) \cup {[at |-> p, is |-> r]}
  BY <1>1, <1>3, <1>4, <1>6, <1>8, <1>9, OwnWrite DEF Running
<1>11. RecsOf(TPL, x) = {} BY <1>7 DEF TxnInv, ListStage, Early
<1>12. PICK p \in Nat : RecsOf(TPL, x)' = {[at |-> p, is |-> r]} BY <1>10, <1>11
<1>13. PICK e : e = [at |-> p, is |-> r] OBVIOUS
<1>14. RecsOf(TPL, x)' = {e} /\ e.at = p /\ e.is = r BY <1>12, <1>13
<1>15. ListOrder(RecsOf(TPL, x))' BY <1>3, <1>14 DEF ListOrder, IsEnd
<1>16. ListStage(x)' BY <1>3, <1>4, <1>5, <1>6, <1>7, <1>14 DEF ListStage, Early
<1>17. ShapeInv(x)' BY <1>4, <1>5, <1>6, <1>7 DEF ShapeInv, Early
<1>18. \A o \in ops[x] : o.q \in Queues BY DEF Types, OpType
<1>19. QueueOrder(x)'
  <2>1. \A q \in Queues : ~HasIn(RecsOf(q, x), "commit") /\ ~HasIn(RecsOf(q, x), "abort") BY <1>7, <1>11, NoEndsEarly DEF CommitFree
  <2>2. \A q \in Queues : ~HasIn(RecsOf(q, x), "commit")' /\ ~HasIn(RecsOf(q, x), "abort")' BY <1>8, <1>10, <2>1 DEF HasIn
  <2>3. ~HasIn(RecsOf(TPL, x), "commit")' BY <1>3, <1>14 DEF HasIn
  <2>4. \A o \in ops'[x] : \E d \in RecsOf(o.q, x)' : Does(d, o, x) /\ d.at <= cmpl'[o.q]
    <3> SUFFICES ASSUME NEW o \in ops[x] PROVE \E d \in RecsOf(o.q, x)' : Does(d, o, x) /\ d.at <= cmpl'[o.q] BY <1>1
    <3>1. EarlyInv(x) /\ DiskInv(x) BY DEF TxnInv
    <3>2. PICK d \in RecsOf(o.q, x) : Does(d, o, x) BY <1>7, <3>1 DEF EarlyInv, Early
    <3>3. OnDisk(o.q, x) BY <1>1, <1>7, <3>1 DEF EarlyInv, DiskInv, Early
    <3> QED BY <1>8, <1>10, <1>18, <3>2, <3>3 DEF OnDisk
  <2> QED BY <2>2, <2>3, <2>4 DEF QueueOrder, HasIn
<1>20. EarlyInv(x)'
  <2>1. EarlyInv(x) BY DEF TxnInv
  <2>2. \A k \in Queues \ ctx'[x].impacted : OnDisk(k, x)' /\ HeldOf(k, x)' = {}
    BY <1>4, <1>6, <1>7, <1>8, <1>10, <2>1 DEF EarlyInv, OnDisk
  <2> QED BY <1>1, <1>4, <1>5, <1>6, <1>7, <2>1, <2>2 DEF EarlyInv, Early
<1>21. DiskInv(x)' /\ ProgressInv(x)' BY <1>4, <1>5, <1>6, <1>7 DEF DiskInv, ProgressInv
<1>22. ToldInv(x)'
  <2>1. told[x] = "none" BY <1>7 DEF TxnInv, ToldInv, Early
  <2> QED BY <1>1, <2>1 DEF ToldInv
<1>23. TxnInv(x)' BY <1>10, <1>15, <1>16, <1>17, <1>19, <1>20, <1>21, <1>22 DEF TxnInv
<1>24. \A y \in Xids : y # x => Quiet(y) BY <1>1, <1>3, <1>6, <1>8, OthersWrite
<1> QED BY <1>23, <1>24

\* At tplDeq the prepare record is on disk if there is one.
LEMMA EnqueuedIs ==
    ASSUME Types, NEW x \in Xids, TxnInv(x), ctx[x].pc = "tplDeq"
    PROVE  IsEnqueued(x) <=> ctx[x].prepared
<1>1. ~Waiting(x) /\ Stage(x) = "tplDeq" BY DEF Waiting, Stage
<1>2. ctx[x].prepared <=> ctx[x].dtok = "ENQ" BY <1>1 DEF TxnInv, ShapeInv
<1>3. TPL \in Journals BY TplIsJournal
<1>4. \A t \in HeldOf(TPL, x) : t.pos <= cmpl[TPL]
  <2> SUFFICES ASSUME NEW t \in HeldOf(TPL, x) PROVE t.pos <= cmpl[TPL] OBVIOUS
  <2>1. rec.phase \in {"txns", "up"} BY Working
  <2>2. Match(HeldOf(TPL, x), RecsOf(TPL, x), cmpl[TPL]) BY <1>3, <2>1, Matched
  <2>3. PICK e \in OpenOps(RecsOf(TPL, x)) : Says(t, e, cmpl[TPL]) BY <2>2 DEF Match
  <2>4. e \in RecsOf(TPL, x) BY <2>3 DEF OpenOps
  <2>5. e.at <= cmpl[TPL] BY <2>4 DEF TxnInv, DiskInv, OnDisk
  <2>6. cmpl[TPL] \in Nat BY <1>3 DEF Types
  <2> QED BY <2>3, <2>5, <2>6 DEF Says
<1> QED BY <1>2, <1>4 DEF IsEnqueued, HeldOf

\* The prepare record is dequeued: the decision.
LEMMA TplDequeueKeeps ==
    ASSUME Types, Types', NEW x \in Xids, TxnInv(x), TplDequeue(x)
    PROVE  TxnInv(x)' /\ \A y \in Xids : y # x => Quiet(y)
<1> DEFINE r == Record("deq", x, x, ctx[x].commit)
           c == [StartSync(x, "close") EXCEPT !.dtok = IF IsEnqueued(x) THEN "DEQ" ELSE @, !.left = ctx[x].impacted]
<1>1. /\ ctx[x].pc = "tplDeq" /\ (IF ctx[x].prepared THEN Write(TPL, r) ELSE UNCHANGED jrnlVars) /\ ctx' = [ctx EXCEPT ![x] = c]
      /\ ops' = ops /\ rec' = rec /\ asked' = asked /\ told' = told
  BY EnqueuedIs DEF TplDequeue, At, histVars
<1>2. ctx[x] \in CtxType /\ ctx[x].commit \in BOOLEAN BY DEF Types, CtxType
<1>3. r \in LogRec /\ r.x = x /\ r.t = "deq" /\ r.flag = ctx[x].commit /\ IsOp(r) /\ ~IsEnd(r)
  BY <1>2, RecordsAre, RecordFields
<1>4. c.pc = "flush" /\ c.then = "close" /\ c.prepared = ctx[x].prepared /\ c.impacted = ctx[x].impacted /\ c.left = ctx[x].impacted
      /\ c.commit = ctx[x].commit
  BY <1>2 DEF StartSync, CtxType
<1> HIDE DEF r, c
<1>5. ctx'[x] = c /\ \A y \in Xids : y # x => ctx'[y] = ctx[y] BY <1>1 DEF Types
<1>6. Waiting(x)' /\ Stage(x)' = "close" /\ ~Waiting(x) /\ Stage(x) = "tplDeq" BY <1>1, <1>4, <1>5 DEF Waiting, Stage
<1>7. TPL \in Journals /\ \A k \in Queues : k \in Journals /\ k # TPL BY TplIsJournal
<1>8. rec.phase \in {"txns", "up"} BY <1>1, Working
<1>9. ShapeInv(x) /\ ListStage(x) /\ EarlyInv(x) /\ ToldInv(x) /\ QueueOrder(x) BY DEF TxnInv
<1>10. \A o \in ops[x] : o.q \in Queues BY DEF Types, OpType
<1>11. ctx[x].prepared => (\E e \in RecsOf(TPL, x) : e.is.t = "enq") /\ (\A e \in RecsOf(TPL, x) : e.is.t = "enq")
  BY <1>6, <1>9 DEF ListStage
<1>12. ~ctx[x].prepared => RecsOf(TPL, x) = {} BY <1>1, <1>9 DEF ListStage
<1>13. CommitFree(x) BY <1>11, <1>12, NoEndsEarly, NoEndsUndecided
<1>14. (\A i \in Journals : cmpl'[i] = cmpl[i]) /\ \A q \in Queues : RecsOf(q, x)' = RecsOf(q, x) /\ HeldOf(q, x)' = HeldOf(q, x)
  <2>1. CASE ctx[x].prepared
    <3>1. \A i \in Journals : cmpl'[i] = cmpl[i] /\ (i # TPL => RecsOf(i, x)' = RecsOf(i, x) /\ HeldOf(i, x)' = HeldOf(i, x))
      BY <1>1, <1>3, <1>4, <1>5, <1>7, <1>8, <2>1, OwnWrite DEF Running
    <3> QED BY <1>7, <3>1
  <2>2. CASE ~ctx[x].prepared
    <3>1. log' = log /\ maps' = maps /\ cmpl' = cmpl BY <1>1, <2>2 DEF jrnlVars
    <3> QED BY <1>7, <3>1, SameJournals
  <2> QED BY <2>1, <2>2
<1>15. ShapeInv(x)' BY <1>4, <1>5, <1>6, <1>9 DEF ShapeInv, Early
<1>16. EarlyInv(x)' BY <1>1, <1>4, <1>5, <1>6, <1>7, <1>9, <1>14 DEF EarlyInv, OnDisk, Early
<1>17. DiskInv(x)' BY <1>4, <1>5, <1>6 DEF DiskInv
<1>18. ProgressInv(x)'
  <2>1. \A o \in ops'[x] : o.q \in ctx'[x].left BY <1>1, <1>4, <1>5, <1>6, <1>9 DEF EarlyInv
  <2>2. \A q \in Queues : q \in ctx'[x].left \/ HeldOf(q, x)' = {} BY <1>4, <1>5, <1>6, <1>9, <1>14 DEF EarlyInv
  <2>3. CommitFree(x)' BY <1>13, <1>14 DEF CommitFree, HasIn
  <2> QED BY <1>4, <1>5, <1>6, <2>1, <2>2, <2>3 DEF ProgressInv
<1>19. CASE ctx[x].prepared
  <2>1. /\ MapInv(x)' /\ RecInv(x)'
        /\ \E p \in Nat : /\ Later(RecsOf(TPL, x), p) /\ cmpl[TPL] < p
                          /\ RecsOf(TPL, x)' = RecsOf(TPL, x) \cup {[at |-> p, is |-> r]}
    BY <1>1, <1>3, <1>4, <1>5, <1>7, <1>8, <1>19, OwnWrite DEF Running
  <2>2. PICK p \in Nat : Later(RecsOf(TPL, x), p) /\ RecsOf(TPL, x)' = RecsOf(TPL, x) \cup {[at |-> p, is |-> r]} BY <2>1
  <2>3. PICK e : e = [at |-> p, is |-> r] OBVIOUS
  <2>4. RecsOf(TPL, x)' = RecsOf(TPL, x) \cup {e} /\ e.at = p /\ e.is = r BY <2>2, <2>3
  <2>5. PICK d \in RecsOf(TPL, x) : d.is.t = "enq" BY <1>11, <1>19
  <2>6. d.at < p BY <2>2 DEF Later
  <2>7. ListOrder(RecsOf(TPL, x))'
    <3>1. \A f \in RecsOf(TPL, x)' : ~IsEnd(f.is) BY <1>3, <1>11, <1>19, <2>4 DEF IsEnd
    <3>2. \A f \in RecsOf(TPL, x)' : f.is.t = "deq" => f = e BY <1>11, <1>19, <2>4
    <3> QED BY <2>4, <2>5, <2>6, <3>1, <3>2 DEF ListOrder
  <2>8. ListStage(x)'
    <3>1. \A f \in RecsOf(TPL, x)' : IsOp(f.is) BY <1>3, <1>11, <1>19, <2>4 DEF IsOp
    <3> QED BY <1>3, <1>4, <1>5, <1>6, <1>19, <2>4, <3>1 DEF ListStage, Early
  <2>9. QueueOrder(x)'
    <3>1. \A q \in Queues : ~HasIn(RecsOf(q, x), "commit") /\ ~HasIn(RecsOf(q, x), "abort")
      BY <1>11, <1>19, NoEndsUndecided DEF CommitFree
    <3>2. \A q \in Queues : ~HasIn(RecsOf(q, x), "commit")' /\ ~HasIn(RecsOf(q, x), "abort")' BY <1>14, <3>1 DEF HasIn
    <3>3. ~HasIn(RecsOf(TPL, x), "commit")' BY <1>3, <1>11, <1>19, <2>4 DEF HasIn
    <3>4. \A o \in ops'[x] : \E f \in RecsOf(o.q, x)' : Does(f, o, x) /\ f.at <= cmpl'[o.q]
      <4>1. \A o \in ops[x] : \E f \in RecsOf(o.q, x) : Does(f, o, x) /\ f.at <= cmpl[o.q]
        BY <1>9, <2>5 DEF QueueOrder, HasIn
      <4> QED BY <1>1, <1>7, <1>10, <1>14, <4>1
    <3> QED BY <3>2, <3>3, <3>4 DEF QueueOrder, HasIn
  <2>10. ToldInv(x)'
    <3>1. \A b : ~Decided(x, b) BY <1>11, <1>19, NoEndsUndecided
    <3>2. told[x] # "aborted" BY <1>9, <1>11, <1>19, <3>1 DEF ToldInv
    <3>3. told[x] # "committed" BY <1>9, <1>11, <1>19 DEF ToldInv
    <3>4. ~(told[x] = "prepared" /\ asked[x] = "none") BY <1>1, <1>9 DEF ToldInv
    <3> QED BY <1>1, <1>6, <3>2, <3>3, <3>4 DEF ToldInv, Early
  <2>11. TxnInv(x)' BY <1>15, <1>16, <1>17, <1>18, <2>1, <2>7, <2>8, <2>9, <2>10 DEF TxnInv
  <2>12. \A y \in Xids : y # x => Quiet(y) BY <1>1, <1>3, <1>5, <1>7, <1>19, OthersWrite
  <2> QED BY <2>11, <2>12
<1>20. CASE ~ctx[x].prepared
  <2>1. log' = log /\ maps' = maps /\ cmpl' = cmpl /\ subm' = subm BY <1>1, <1>20 DEF jrnlVars
  <2>2. \A j \in Journals : RecsOf(j, x)' = RecsOf(j, x) /\ HeldOf(j, x)' = HeldOf(j, x) /\ cmpl'[j] = cmpl[j] BY <2>1, SameJournals
  <2>3. ListOrder(RecsOf(TPL, x))' /\ QueueOrder(x)' /\ MapInv(x)' /\ RecInv(x)'
    BY <1>1, <1>4, <1>5, <1>6, <1>8, <2>2, CtxStep DEF Running
  <2>4. ListStage(x)' BY <1>4, <1>5, <1>6, <1>7, <1>12, <1>20, <2>2 DEF ListStage, Early
  <2>5. \A b : Decided(x, b)' <=> Decided(x, b) BY <1>7, <2>2 DEF Decided
  <2>6. ToldInv(x)' BY <1>1, <1>4, <1>5, <1>6, <1>7, <1>9, <2>2, <2>5 DEF ToldInv, Early, Running
  <2>7. TxnInv(x)' BY <1>15, <1>16, <1>17, <1>18, <2>3, <2>4, <2>6 DEF TxnInv
  <2> QED BY <1>1, <1>5, <2>1, <2>7, OthersQuiet, SubmSame
<1> QED BY <1>19, <1>20

\* A thread that closes transaction x goes on from here, with or without a sync.
LEMMA AfterEndIs ==
    ASSUME NEW x \in Xids, ctx[x] \in CtxType, NEW next \in {"close", "return"}
    PROVE  LET c == AfterEnd(x, next) IN
           /\ c \in CtxType /\ c.impacted = ctx[x].impacted /\ c.left = ctx[x].left /\ c.prepared = ctx[x].prepared
           /\ c.dtok = ctx[x].dtok /\ c.commit = ctx[x].commit
           /\ IF ctx[x].commit THEN c.pc = "flush" /\ c.then = next ELSE c.pc = next
<1>1. StartSync(x, next) \in CtxType BY StartSyncType
<1>2. [ctx[x] EXCEPT !.pc = next] \in CtxType BY DEF CtxType, Running
<1> QED BY <1>1, <1>2 DEF AfterEnd, StartSync, CtxType

\* The record that ends the transaction in the journal of a queue.
LEMMA CommitQueueKeeps ==
    ASSUME Types, Types', NEW x \in Xids, TxnInv(x), NEW q \in Queues, CommitQueue(x, q)
    PROVE  TxnInv(x)' /\ \A y \in Xids : y # x => Quiet(y)
<1> DEFINE r == EndRecord(x)
           c == [AfterEnd(x, "close") EXCEPT !.left = @ \ {q}]
<1>1. /\ ctx[x].pc = "close" /\ q \in ctx[x].left /\ Write(q, r) /\ ctx' = [ctx EXCEPT ![x] = c]
      /\ ops' = ops /\ rec' = rec /\ asked' = asked /\ told' = told
  BY DEF CommitQueue, At, histVars
<1>2. ctx[x] \in CtxType /\ ctx[x].commit \in BOOLEAN BY DEF Types, CtxType
<1>3. r \in LogRec /\ r.x = x /\ ~IsOp(r) /\ IsEnd(r) /\ r.t = (IF ctx[x].commit THEN "commit" ELSE "abort")
  BY <1>2, EndRecordIs
<1>4. /\ c.prepared = ctx[x].prepared /\ c.impacted = ctx[x].impacted /\ c.left = ctx[x].left \ {q} /\ c.commit = ctx[x].commit
      /\ c.dtok = ctx[x].dtok /\ (IF ctx[x].commit THEN c.pc = "flush" /\ c.then = "close" ELSE c.pc = "close")
  BY <1>2, AfterEndIs DEF CtxType
<1> HIDE DEF r, c
<1>5. ctx'[x] = c /\ \A y \in Xids : y # x => ctx'[y] = ctx[y] BY <1>1 DEF Types
<1>6. Stage(x)' = "close" /\ ~Waiting(x) /\ Stage(x) = "close" /\ (Waiting(x)' <=> ctx[x].commit)
  BY <1>1, <1>2, <1>4, <1>5 DEF Waiting, Stage
<1>7. TPL \in Journals /\ \A k \in Queues : k \in Journals /\ k # TPL BY TplIsJournal
<1>8. rec.phase \in {"txns", "up"} BY <1>1, Working
<1>9. /\ MapInv(x)' /\ RecInv(x)' /\ HeldOf(q, x)' = {}
      /\ \A i \in Journals : cmpl'[i] = cmpl[i] /\ (i # q => RecsOf(i, x)' = RecsOf(i, x) /\ HeldOf(i, x)' = HeldOf(i, x))
      /\ \E p \in Nat : /\ Later(RecsOf(q, x), p) /\ cmpl[q] < p
                        /\ RecsOf(q, x)' = RecsOf(q, x) \cup {[at |-> p, is |-> r]}
  BY <1>1, <1>2, <1>3, <1>4, <1>5, <1>7, <1>8, OwnWrite DEF Running
<1>10. PICK p \in Nat : cmpl[q] < p /\ RecsOf(q, x)' = RecsOf(q, x) \cup {[at |-> p, is |-> r]} BY <1>9
<1>11. PICK e : e = [at |-> p, is |-> r] OBVIOUS
<1>12. RecsOf(q, x)' = RecsOf(q, x) \cup {e} /\ e.at = p /\ e.is = r BY <1>10, <1>11
<1>13. RecsOf(TPL, x)' = RecsOf(TPL, x) /\ cmpl'[TPL] = cmpl[TPL] BY <1>7, <1>9
<1>14. /\ ShapeInv(x) /\ ListOrder(RecsOf(TPL, x)) /\ ListStage(x) /\ EarlyInv(x) /\ ToldInv(x) /\ QueueOrder(x) /\ DiskInv(x) /\ ProgressInv(x)
  BY DEF TxnInv
<1>15. \A o \in ops[x] : o.q \in Queues BY DEF Types, OpType
<1>16. \A k \in Queues : RecsOf(k, x) \subseteq RecsOf(k, x)' /\ \A d \in RecsOf(k, x)' : d \in RecsOf(k, x) \/ (k = q /\ d = e)
  BY <1>7, <1>9, <1>12
<1>17. \A b : Decided(x, b)' <=> Decided(x, b) BY <1>13 DEF Decided
<1>18. ctx[x].prepared => Decided(x, ctx[x].commit) /\ HasIn(RecsOf(TPL, x), "enq")
  <2>1. ctx[x].prepared => \E d \in RecsOf(TPL, x) : d.is.t = "deq" /\ d.is.flag = ctx[x].commit BY <1>6, <1>14 DEF ListStage
  <2>2. OnDisk(TPL, x) BY <1>1, <1>14 DEF DiskInv
  <2> QED BY <1>14, <2>1, <2>2 DEF Decided, OnDisk, ListOrder, HasIn
<1>19. ctx[x].commit => ctx[x].prepared BY <1>6, <1>14 DEF ShapeInv
<1>20. ListOrder(RecsOf(TPL, x))' BY <1>13, <1>14 DEF ListOrder
<1>21. ListStage(x)' BY <1>4, <1>5, <1>6, <1>13, <1>14, <1>1 DEF ListStage, Early
<1>22. ShapeInv(x)' BY <1>4, <1>5, <1>6, <1>14 DEF ShapeInv, Early
<1>23. QueueOrder(x)'
  <2>1. HasIn(RecsOf(TPL, x), "enq")' => \A o \in ops'[x] : \E d \in RecsOf(o.q, x)' : Does(d, o, x) /\ d.at <= cmpl'[o.q]
    BY <1>1, <1>7, <1>9, <1>13, <1>14, <1>15, <1>16 DEF QueueOrder, HasIn
  <2>2. HasIn(RecsOf(TPL, x), "commit")' => \A o \in ops'[x] : \E d \in RecsOf(o.q, x)' : d.is.t = "commit" /\ d.at <= cmpl'[o.q]
    BY <1>1, <1>7, <1>9, <1>13, <1>14, <1>15, <1>16 DEF QueueOrder, HasIn
  <2>3. \A k \in Queues : HasIn(RecsOf(k, x), "commit")' => Decided(x, TRUE)'
    <3> SUFFICES ASSUME NEW k \in Queues, NEW d \in RecsOf(k, x)', d.is.t = "commit" PROVE Decided(x, TRUE) BY <1>17 DEF HasIn
    <3>1. CASE d \in RecsOf(k, x) BY <1>14, <3>1 DEF QueueOrder, HasIn
    <3>2. CASE d = e
      <4>1. ctx[x].commit = TRUE BY <1>2, <1>3, <1>12, <3>2
      <4> QED BY <1>18, <1>19, <4>1
    <3> QED BY <1>16, <3>1, <3>2
  <2>4. \A k \in Queues : \A d \in RecsOf(k, x)' : d.is.t = "commit" =>
          \A o \in ops'[x] : o.q = k => \E f \in RecsOf(k, x)' : Does(f, o, x) /\ f.at < d.at
    <3> SUFFICES ASSUME NEW k \in Queues, NEW d \in RecsOf(k, x)', d.is.t = "commit", NEW o \in ops[x], o.q = k
                 PROVE  \E f \in RecsOf(k, x) : Does(f, o, x) /\ f.at < d.at
      BY <1>1, <1>16
    <3>1. CASE d \in RecsOf(k, x) BY <1>14, <3>1 DEF QueueOrder
    <3>2. CASE k = q /\ d = e
      <4>1. ctx[x].commit BY <1>3, <1>12, <3>2
      <4>2. PICK f \in RecsOf(k, x) : Does(f, o, x) /\ f.at <= cmpl[o.q] BY <1>14, <1>18, <1>19, <4>1 DEF QueueOrder
      <4>3. f.at \in Nat /\ cmpl[k] \in Nat BY <1>7, StateFacts
      <4>4. f.at < d.at BY <1>10, <1>12, <3>2, <4>2, <4>3
      <4> QED BY <4>2, <4>4
    <3> QED BY <1>16, <3>1, <3>2
  <2>5. \A k \in Queues : HasIn(RecsOf(k, x), "abort")' =>
          Decided(x, FALSE)' \/ (RecsOf(TPL, x)' = {} /\ Stage(x)' \in {"close", "return", "done", "gone", "failed"})
    <3> SUFFICES ASSUME NEW k \in Queues, NEW d \in RecsOf(k, x)', d.is.t = "abort" PROVE Decided(x, FALSE) \/ RecsOf(TPL, x) = {}
      BY <1>6, <1>13, <1>17 DEF HasIn
    <3>1. CASE d \in RecsOf(k, x) BY <1>14, <3>1 DEF QueueOrder, HasIn
    <3>2. CASE d = e
      <4>1. ctx[x].commit = FALSE BY <1>2, <1>3, <1>12, <3>2
      <4>2. ~ctx[x].prepared => RecsOf(TPL, x) = {} BY <1>1, <1>14 DEF ListStage
      <4> QED BY <1>18, <4>1, <4>2
    <3> QED BY <1>16, <3>1, <3>2
  <2> QED BY <2>1, <2>2, <2>3, <2>4, <2>5 DEF QueueOrder
<1>24. EarlyInv(x)'
  <2>1. \A k \in Queues \ ctx[x].impacted : k # q BY <1>1, <1>6, <1>14 DEF ProgressInv
  <2>2. \A k \in Queues \ ctx'[x].impacted : OnDisk(k, x)' /\ HeldOf(k, x)' = {}
    BY <1>4, <1>5, <1>6, <1>7, <1>9, <1>14, <2>1 DEF EarlyInv, OnDisk
  <2>3. ctx'[x].pc # "none" BY <1>2, <1>4, <1>5
  <2> QED BY <1>6, <2>2, <2>3 DEF EarlyInv, Early
<1>25. DiskInv(x)'
  <2>1. OnDisk(TPL, x)' BY <1>1, <1>13, <1>14 DEF DiskInv, OnDisk
  <2> QED BY <1>2, <1>4, <1>5, <1>6, <2>1 DEF DiskInv
<1>26. ProgressInv(x)'
  <2>1. ctx'[x].commit => \A o \in ops'[x] : o.q \in ctx'[x].left \/ HasIn(RecsOf(o.q, x), "commit")'
    <3> SUFFICES ASSUME ctx[x].commit, NEW o \in ops[x], o.q \notin ctx[x].left \/ o.q = q PROVE HasIn(RecsOf(o.q, x), "commit")'
      BY <1>1, <1>4, <1>5
    <3>1. CASE o.q \notin ctx[x].left BY <1>6, <1>14, <1>15, <1>16, <3>1 DEF ProgressInv, HasIn
    <3>2. CASE o.q = q BY <1>3, <1>12, <3>2 DEF HasIn
    <3> QED BY <3>1, <3>2
  <2>2. ~ctx'[x].commit => CommitFree(x)' /\ \A k \in Queues : k \in ctx'[x].left \/ HeldOf(k, x)' = {}
    <3> SUFFICES ASSUME ~ctx[x].commit PROVE CommitFree(x)' /\ \A k \in Queues : k \in ctx'[x].left \/ HeldOf(k, x)' = {}
      BY <1>4, <1>5
    <3>1. CommitFree(x) /\ \A k \in Queues : k \in ctx[x].left \/ HeldOf(k, x) = {} BY <1>6, <1>14 DEF ProgressInv
    <3>2. CommitFree(x)' BY <1>3, <1>12, <1>16, <3>1 DEF CommitFree, HasIn
    <3>3. \A k \in Queues : k \in ctx'[x].left \/ HeldOf(k, x)' = {} BY <1>4, <1>5, <1>7, <1>9, <3>1
    <3> QED BY <3>2, <3>3
  <2>3. ctx'[x].left \subseteq ctx'[x].impacted BY <1>4, <1>5, <1>6, <1>14 DEF ProgressInv
  <2> QED BY <1>6, <2>1, <2>2, <2>3 DEF ProgressInv
<1>27. ToldInv(x)' BY <1>1, <1>2, <1>4, <1>5, <1>6, <1>13, <1>14, <1>17 DEF ToldInv, Early, Running
<1>28. TxnInv(x)' BY <1>9, <1>20, <1>21, <1>22, <1>23, <1>24, <1>25, <1>26, <1>27 DEF TxnInv
<1>29. \A y \in Xids : y # x => Quiet(y) BY <1>1, <1>3, <1>5, <1>7, OthersWrite
<1> QED BY <1>28, <1>29

\* The record that ends the transaction in the prepared list.
LEMMA CommitTplKeeps ==
    ASSUME Types, Types', NEW x \in Xids, TxnInv(x), CommitTpl(x)
    PROVE  TxnInv(x)' /\ \A y \in Xids : y # x => Quiet(y)
<1>1. /\ ctx[x].pc = "close" /\ ctx[x].left = {} /\ ops' = ops /\ rec' = rec /\ asked' = asked /\ told' = told
      /\ \/ ctx[x].prepared /\ Write(TPL, EndRecord(x)) /\ ctx' = [ctx EXCEPT ![x] = [AfterEnd(x, "return") EXCEPT !.impacted = {}]]
         \/ ~ctx[x].prepared /\ ctx' = [ctx EXCEPT ![x].pc = "return", ![x].impacted = {}] /\ UNCHANGED jrnlVars
  BY DEF CommitTpl, At, histVars
<1>2. ctx[x] \in CtxType /\ ctx[x].commit \in BOOLEAN BY DEF Types, CtxType
<1>3. ~Waiting(x) /\ Stage(x) = "close" BY <1>1 DEF Waiting, Stage
<1>4. TPL \in Journals /\ \A k \in Queues : k \in Journals /\ k # TPL BY TplIsJournal
<1>5. rec.phase \in {"txns", "up"} BY <1>1, Working
<1>6. /\ ShapeInv(x) /\ ListOrder(RecsOf(TPL, x)) /\ ListStage(x) /\ EarlyInv(x) /\ ToldInv(x) /\ QueueOrder(x) /\ DiskInv(x) /\ ProgressInv(x)
  BY DEF TxnInv
<1>7. \A o \in ops[x] : o.q \in Queues BY DEF Types, OpType
<1>8. ctx[x].commit => ctx[x].prepared BY <1>3, <1>6 DEF ShapeInv
<1>9. \A k \in Queues : ~ctx[x].commit => HeldOf(k, x) = {} /\ CommitFree(x) BY <1>1, <1>3, <1>6 DEF ProgressInv
<1>10. ~ctx[x].commit => CommitFree(x) BY <1>3, <1>6 DEF ProgressInv
<1>11. CASE ctx[x].prepared
  <2> DEFINE r == EndRecord(x)
             c == [AfterEnd(x, "return") EXCEPT !.impacted = {}]
  <2>1. Write(TPL, r) /\ ctx' = [ctx EXCEPT ![x] = c] BY <1>1, <1>11
  <2>2. r \in LogRec /\ r.x = x /\ ~IsOp(r) /\ IsEnd(r) /\ r.t = (IF ctx[x].commit THEN "commit" ELSE "abort")
    BY <1>2, EndRecordIs
  <2>3. /\ c.prepared = ctx[x].prepared /\ c.commit = ctx[x].commit
        /\ (IF ctx[x].commit THEN c.pc = "flush" /\ c.then = "return" ELSE c.pc = "return")
    BY <1>2, AfterEndIs DEF CtxType
  <2> HIDE DEF r, c
  <2>4. ctx'[x] = c /\ \A y \in Xids : y # x => ctx'[y] = ctx[y] BY <2>1 DEF Types
  <2>5. Stage(x)' = "return" /\ (Waiting(x)' <=> ctx[x].commit) BY <1>2, <2>3, <2>4 DEF Waiting, Stage
  <2>6. /\ MapInv(x)' /\ RecInv(x)'
        /\ \A i \in Journals : cmpl'[i] = cmpl[i] /\ (i # TPL => RecsOf(i, x)' = RecsOf(i, x) /\ HeldOf(i, x)' = HeldOf(i, x))
        /\ \E p \in Nat : /\ Later(RecsOf(TPL, x), p) /\ cmpl[TPL] < p
                          /\ RecsOf(TPL, x)' = RecsOf(TPL, x) \cup {[at |-> p, is |-> r]}
    BY <1>1, <1>2, <1>4, <1>5, <2>1, <2>2, <2>3, <2>4, OwnWrite DEF Running
  <2>7. PICK p \in Nat : Later(RecsOf(TPL, x), p) /\ RecsOf(TPL, x)' = RecsOf(TPL, x) \cup {[at |-> p, is |-> r]} BY <2>6
  <2>8. PICK e : e = [at |-> p, is |-> r] OBVIOUS
  <2>9. RecsOf(TPL, x)' = RecsOf(TPL, x) \cup {e} /\ e.at = p /\ e.is = r BY <2>7, <2>8
  <2>10. \A k \in Queues : RecsOf(k, x)' = RecsOf(k, x) /\ HeldOf(k, x)' = HeldOf(k, x) /\ cmpl'[k] = cmpl[k] BY <1>4, <2>6
  <2>11. cmpl'[TPL] = cmpl[TPL] BY <1>4, <2>6
  <2>12. /\ \E d \in RecsOf(TPL, x) : d.is.t = "deq" /\ d.is.flag = ctx[x].commit
         /\ \A d \in RecsOf(TPL, x) : IsOp(d.is)
    BY <1>3, <1>6, <1>11 DEF ListStage
  <2>13. PICK d \in RecsOf(TPL, x) : d.is.t = "deq" /\ d.is.flag = ctx[x].commit BY <2>12
  <2>14. OnDisk(TPL, x) BY <1>1, <1>6 DEF DiskInv
  <2>15. Decided(x, ctx[x].commit) BY <2>13, <2>14 DEF Decided, OnDisk
  <2>16. \A b : Decided(x, b) => Decided(x, b)' BY <2>9, <2>11 DEF Decided
  <2>17. \A f \in RecsOf(TPL, x) : f.at \in Nat /\ f.at < p BY <2>7 DEF Later
  <2>18. \A f \in RecsOf(TPL, x) : ~IsEnd(f.is) BY <2>12 DEF IsOp, IsEnd
  <2>19. ListOrder(RecsOf(TPL, x))'
    <3>1. \A f \in RecsOf(TPL, x)' : f.is.t = "deq" => \E g \in RecsOf(TPL, x)' : g.is.t = "enq" /\ g.at < f.at
      <4>1. e.is.t # "deq" BY <2>2, <2>9
      <4> QED BY <1>6, <2>9, <4>1 DEF ListOrder
    <3>2. \A f \in RecsOf(TPL, x)' : IsEnd(f.is) =>
            \E g \in RecsOf(TPL, x)' : g.is.t = "deq" /\ (g.is.flag <=> f.is.t = "commit") /\ g.at < f.at
      <4>1. d.is.flag <=> e.is.t = "commit" BY <1>2, <2>2, <2>9, <2>13
      <4>2. d.at < e.at /\ d \in RecsOf(TPL, x)' BY <2>9, <2>17
      <4> QED BY <2>9, <2>13, <2>18, <4>1, <4>2
    <3>3. \A f, g \in RecsOf(TPL, x)' : f.is.t = "deq" /\ g.is.t = "deq" => f.is.flag = g.is.flag
      <4>1. e.is.t # "deq" BY <2>2, <2>9
      <4> QED BY <1>6, <2>9, <4>1 DEF ListOrder
    <3>4. \A f, g \in RecsOf(TPL, x)' : IsEnd(g.is) => f.at <= g.at BY <2>9, <2>17, <2>18
    <3> QED BY <3>1, <3>2, <3>3, <3>4 DEF ListOrder
  <2>20. ListStage(x)' BY <1>2, <1>11, <2>2, <2>3, <2>4, <2>5, <2>9 DEF ListStage, HasIn, Early
  <2>21. ShapeInv(x)' BY <1>2, <1>11, <2>3, <2>4, <2>5 DEF ShapeInv, Early
  <2>22. QueueOrder(x)'
    <3>1. HasIn(RecsOf(TPL, x), "enq")' => \A o \in ops'[x] : \E f \in RecsOf(o.q, x)' : Does(f, o, x) /\ f.at <= cmpl'[o.q]
      <4>1. e.is.t # "enq" BY <2>2, <2>9
      <4>2. HasIn(RecsOf(TPL, x), "enq")' => HasIn(RecsOf(TPL, x), "enq") BY <2>9, <4>1 DEF HasIn
      <4> QED BY <1>1, <1>6, <1>7, <2>10, <4>2 DEF QueueOrder
    <3>2. HasIn(RecsOf(TPL, x), "commit")' => \A o \in ops'[x] : \E f \in RecsOf(o.q, x)' : f.is.t = "commit" /\ f.at <= cmpl'[o.q]
      <4> SUFFICES ASSUME HasIn(RecsOf(TPL, x), "commit")', NEW o \in ops[x]
                   PROVE  \E f \in RecsOf(o.q, x) : f.is.t = "commit" /\ f.at <= cmpl[o.q]
        BY <1>1, <1>7, <2>10
      <4>1. ctx[x].commit
        <5>1. \A f \in RecsOf(TPL, x) : f.is.t # "commit" BY <2>18 DEF IsEnd
        <5> QED BY <2>2, <2>9, <4>1, <5>1 DEF HasIn
      <4>2. HasIn(RecsOf(o.q, x), "commit") BY <1>1, <1>3, <1>6, <4>1 DEF ProgressInv
      <4>3. OnDisk(o.q, x)
        <5>1. CASE o.q \in ctx[x].impacted BY <1>1, <1>6, <4>1, <5>1 DEF DiskInv
        <5>2. CASE o.q \notin ctx[x].impacted BY <1>3, <1>6, <1>7, <5>2 DEF EarlyInv
        <5> QED BY <5>1, <5>2
      <4> QED BY <4>2, <4>3 DEF HasIn, OnDisk
    <3>3. \A q \in Queues : HasIn(RecsOf(q, x), "commit")' => Decided(x, TRUE)' BY <1>6, <2>10, <2>16 DEF QueueOrder, HasIn
    <3>4. \A q \in Queues : \A f \in RecsOf(q, x)' : f.is.t = "commit" =>
            \A o \in ops'[x] : o.q = q => \E g \in RecsOf(q, x)' : Does(g, o, x) /\ g.at < f.at
      BY <1>1, <1>6, <2>10 DEF QueueOrder
    <3>5. \A q \in Queues : HasIn(RecsOf(q, x), "abort")' => Decided(x, FALSE)'
      <4>1. RecsOf(TPL, x) # {} BY <2>13
      <4> QED BY <1>6, <2>10, <2>16, <4>1 DEF QueueOrder, HasIn
    <3> QED BY <3>1, <3>2, <3>3, <3>4, <3>5 DEF QueueOrder
  <2>23. EarlyInv(x)'
    <3>1. ctx'[x].pc # "none" BY <1>2, <2>3, <2>4
    <3> QED BY <2>5, <3>1 DEF EarlyInv, Early
  <2>24. DiskInv(x)' BY <1>2, <2>3, <2>4, <2>5, <2>15, <2>16 DEF DiskInv
  <2>25. CommitFree(x)' <=> CommitFree(x) BY <2>10 DEF CommitFree, HasIn
  <2>26. ProgressInv(x)' BY <1>9, <1>10, <2>3, <2>4, <2>5, <2>10, <2>25 DEF ProgressInv
  <2>27. ToldInv(x)'
    <3>1. RecsOf(TPL, x) # {} BY <2>13
    <3>2. told[x] = "committed" => \E f \in RecsOf(TPL, x)' : f.is.t = "commit" /\ f.at <= cmpl'[TPL]
      BY <1>6, <2>9, <2>11 DEF ToldInv
    <3>3. told[x] = "aborted" => Decided(x, FALSE)' /\ rec.phase = "txns" BY <1>1, <1>6, <2>16, <3>1 DEF ToldInv
    <3>4. ~(told[x] = "prepared" /\ asked[x] = "none") BY <1>1, <1>6 DEF ToldInv
    <3>5. ctx'[x].pc \in Running BY <1>2, <2>3, <2>4 DEF Running
    <3> QED BY <1>1, <2>5, <3>2, <3>3, <3>4, <3>5 DEF ToldInv, Early
  <2>28. TxnInv(x)' BY <2>6, <2>19, <2>20, <2>21, <2>22, <2>23, <2>24, <2>26, <2>27 DEF TxnInv
  <2>29. \A y \in Xids : y # x => Quiet(y) BY <1>1, <1>4, <2>1, <2>2, <2>4, OthersWrite
  <2> QED BY <2>28, <2>29
<1>12. CASE ~ctx[x].prepared
  <2>1. /\ ctx' = [ctx EXCEPT ![x].pc = "return", ![x].impacted = {}] /\ log' = log /\ maps' = maps /\ cmpl' = cmpl /\ subm' = subm
    BY <1>1, <1>12 DEF jrnlVars
  <2>2. /\ ctx'[x] = [ctx[x] EXCEPT !.pc = "return", !.impacted = {}]
        /\ \A y \in Xids : y # x => ctx'[y] = ctx[y]
    BY <2>1 DEF Types, CtxType
  <2>3. ctx'[x].pc = "return" /\ ctx'[x].prepared = ctx[x].prepared /\ ctx'[x].commit = ctx[x].commit
    BY <1>2, <2>2 DEF CtxType
  <2>4. ~Waiting(x)' /\ Stage(x)' = "return" BY <2>3 DEF Waiting, Stage
  <2>5. \A j \in Journals : RecsOf(j, x)' = RecsOf(j, x) /\ HeldOf(j, x)' = HeldOf(j, x) /\ cmpl'[j] = cmpl[j] BY <2>1, SameJournals
  <2>6. ListOrder(RecsOf(TPL, x))' /\ QueueOrder(x)' /\ MapInv(x)' /\ RecInv(x)'
    BY <1>1, <1>3, <1>5, <2>3, <2>4, <2>5, CtxStep DEF Running
  <2>7. RecsOf(TPL, x) = {} /\ ~ctx[x].commit BY <1>1, <1>6, <1>8, <1>12 DEF ListStage
  <2>8. ShapeInv(x)' /\ ListStage(x)' /\ EarlyInv(x)' /\ DiskInv(x)'
    BY <1>4, <1>12, <2>3, <2>4, <2>5, <2>7 DEF ShapeInv, ListStage, EarlyInv, DiskInv, Early
  <2>9. CommitFree(x)' <=> CommitFree(x) BY <1>4, <2>5 DEF CommitFree, HasIn
  <2>10. ProgressInv(x)' BY <1>4, <1>9, <1>10, <2>4, <2>5, <2>7, <2>9 DEF ProgressInv
  <2>11. \A b : Decided(x, b)' <=> Decided(x, b) BY <1>4, <2>5 DEF Decided
  <2>12. ToldInv(x)' BY <1>1, <1>3, <1>4, <1>6, <2>3, <2>4, <2>5, <2>11 DEF ToldInv, Early, Running
  <2>13. TxnInv(x)' BY <2>6, <2>8, <2>10, <2>12 DEF TxnInv
  <2> QED BY <1>1, <2>1, <2>2, <2>13, OthersQuiet, SubmSame
<1> QED BY <1>11, <1>12

-----------------------------------------------------------------------------
(* Steps outside transactions; crashes.                                    *)

\* Steps that are nothing to any transaction.
LEMMA QuietSteps ==
    ASSUME Types, Types', NEW y \in Xids,
           \/ \E q \in Queues, m \in Msgs : Enqueue(q, m) \/ Dequeue(q, m)
           \/ \E j \in Journals : PageOut(j) \/ Complete(j)
           \/ UNCHANGED vars
    PROVE  Quiet(y)
<1>1. ASSUME NEW q \in Queues, NEW m \in Msgs, Enqueue(q, m) \/ Dequeue(q, m) PROVE Quiet(y)
  <2>1. PICK t \in {"enq", "deq"} : Write(q, Record(t, m, NoXid, FALSE)) BY <1>1 DEF Enqueue, Dequeue
  <2>2. Record(t, m, NoXid, FALSE) \in LogRec BY RecordsAre
  <2>3. Record(t, m, NoXid, FALSE).x # y BY XidAssumption DEF Record
  <2>4. UNCHANGED <<ctx, rec, ops, told, asked>> BY <1>1 DEF Enqueue, Dequeue, histVars
  <2>5. q \in Journals BY TplIsJournal
  <2> QED BY <2>1, <2>2, <2>3, <2>4, <2>5, OthersWrite
<1>2. ASSUME UNCHANGED <<log, maps, ctx, rec, ops, told, asked>>,
             \A i \in Journals : cmpl[i] <= cmpl'[i] /\ subm[i] <= subm'[i]
      PROVE  Quiet(y)
  BY <1>2, SameJournals DEF Quiet
<1>3. \A i \in Journals : cmpl[i] \in Nat /\ subm[i] \in Nat BY DEF Types
<1>4. cmpl \in [Journals -> Nat] /\ subm \in [Journals -> Nat] BY DEF Types
<1>5. ASSUME NEW j \in Journals, PageOut(j) \/ Complete(j) PROVE Quiet(y)
  <2>1. UNCHANGED <<log, maps, ctx, rec, ops, told, asked>> BY <1>5 DEF PageOut, Complete, histVars
  <2>2. \A i \in Journals : cmpl[i] <= cmpl'[i] /\ subm[i] <= subm'[i]
    BY <1>3, <1>4, <1>5 DEF PageOut, Complete
  <2> QED BY <1>2, <2>1, <2>2
<1>6. CASE UNCHANGED vars
  <2>1. UNCHANGED <<log, maps, ctx, rec, ops, told, asked, cmpl, subm>> BY <1>6 DEF vars, jrnlVars, histVars
  <2> QED BY <1>2, <1>3, <2>1
<1> QED BY <1>1, <1>5, <1>6

\* What a crash leaves.
LEMMA CrashDoes ==
    ASSUME Types, Types', NEW x \in Xids, Crash
    PROVE  /\ \A j \in Journals : /\ RecsOf(j, x)' = {e \in RecsOf(j, x) : e.at <= cmpl'[j]} /\ cmpl[j] <= cmpl'[j]
                                  /\ cmpl[j] \in Nat /\ cmpl'[j] \in Nat
           /\ ctx'[x] = IF ctx[x].pc = "none" THEN NoCtx ELSE [NoCtx EXCEPT !.pc = "gone"]
           /\ rec'.phase = "tpl" /\ ops' = ops /\ told' = told /\ asked' = asked
<1>1. PICK kept \in [Journals -> UNION {0 .. subm[j] : j \in Journals}] :
          /\ \A j \in Journals : kept[j] \in cmpl[j] .. subm[j]
          /\ log' = [j \in Journals |-> SubSeq(log[j], 1, kept[j])]
          /\ cmpl' = kept
  BY DEF Crash
<1>2. ASSUME NEW j \in Journals
      PROVE  /\ RecsOf(j, x)' = {e \in RecsOf(j, x) : e.at <= cmpl'[j]} /\ cmpl[j] <= cmpl'[j]
             /\ cmpl[j] \in Nat /\ cmpl'[j] \in Nat
  <2>1. /\ log[j] \in Seq(LogRec) /\ Len(log[j]) \in Nat /\ cmpl[j] \in Nat /\ subm[j] \in Nat
        /\ subm[j] <= Len(log[j]) /\ kept[j] \in cmpl[j] .. subm[j]
    BY <1>1, LenProperties DEF Types
  <2>2. PICK k \in Nat : k = kept[j] /\ k <= Len(log[j]) /\ cmpl[j] <= k BY <2>1
  <2>3. PICK l \in Seq(LogRec) : l = log[j] BY <2>1
  <2>4. Recs(SubSeq(l, 1, k), x) = {e \in Recs(l, x) : e.at <= k} BY <2>2, <2>3, RecsCut
  <2>5. log'[j] = SubSeq(l, 1, k) /\ cmpl'[j] = k BY <1>1, <2>2, <2>3
  <2> QED BY <2>1, <2>2, <2>3, <2>4, <2>5 DEF RecsOf
<1>3. ctx'[x] = IF ctx[x].pc = "none" THEN NoCtx ELSE [NoCtx EXCEPT !.pc = "gone"] BY DEF Crash, At
<1>4. rec'.phase = "tpl" /\ ops' = ops /\ told' = told /\ asked' = asked BY DEF Crash, Up, histVars
<1> QED BY <1>2, <1>3, <1>4

\* A crash: everything the invariant relies on was on disk.
LEMMA CrashKeeps ==
    ASSUME Types, Types', NEW x \in Xids, TxnInv(x), Crash
    PROVE  TxnInv(x)'
<1>1. /\ \A j \in Journals : /\ RecsOf(j, x)' = {e \in RecsOf(j, x) : e.at <= cmpl'[j]} /\ cmpl[j] <= cmpl'[j]
                             /\ cmpl[j] \in Nat /\ cmpl'[j] \in Nat
      /\ ctx'[x] = IF ctx[x].pc = "none" THEN NoCtx ELSE [NoCtx EXCEPT !.pc = "gone"]
      /\ rec'.phase = "tpl" /\ ops' = ops /\ told' = told /\ asked' = asked
  BY CrashDoes
<1>2. /\ ctx[x].pc = "none" => ctx'[x] = NoCtx
      /\ ctx'[x].pc = IF ctx[x].pc = "none" THEN "none" ELSE "gone"
      /\ ctx'[x].commit = FALSE /\ ctx'[x].prepared = FALSE /\ ctx'[x].dtok = "NONE" /\ ctx'[x].impacted = {}
  BY <1>1 DEF NoCtx
<1>3. TPL \in Journals /\ \A q \in Queues : q \in Journals /\ q # TPL BY TplIsJournal
<1>4. ~Waiting(x)' /\ Stage(x)' = ctx'[x].pc BY <1>2 DEF Waiting, Stage
<1>5. \A j \in Journals : \A e \in RecsOf(j, x) : e.at \in Nat /\ (e.at <= cmpl[j] => e.at <= cmpl'[j] /\ e \in RecsOf(j, x)')
  <2>1. \A j \in Journals : \A e \in RecsOf(j, x) : e.at \in Nat BY StateFacts
  <2> QED BY <1>1, <2>1
<1>6. \A j \in Journals : \A e \in RecsOf(j, x)' : e \in RecsOf(j, x) /\ e.at <= cmpl'[j] BY <1>1
<1>7. \A o \in ops[x] : o.q \in Queues BY DEF Types, OpType
<1>8. ctx[x].pc = "none" => ops[x] = {} /\ \A j \in Journals : RecsOf(j, x)' = {}
  <2>1. EarlyInv(x) BY DEF TxnInv
  <2> QED BY <1>6, <2>1 DEF EarlyInv
<1>9. ListOrder(RecsOf(TPL, x))'
  <2>1. ListOrder(RecsOf(TPL, x)) BY DEF TxnInv
  <2>2. \A e \in RecsOf(TPL, x)' : \A d \in RecsOf(TPL, x) : d.at < e.at => d \in RecsOf(TPL, x)'
    BY <1>1, <1>3, <1>5
  <2>3. PICK S, Z : S = RecsOf(TPL, x) /\ Z = RecsOf(TPL, x)' OBVIOUS
  <2>4. /\ \A e \in Z : e \in S
        /\ \A e \in Z : \A d \in S : d.at < e.at => d \in Z
    BY <1>3, <1>6, <2>2, <2>3
  <2>5. ListOrder(S) BY <2>1, <2>3
  <2>6. ListOrder(Z) BY <2>4, <2>5 DEF ListOrder
  <2> QED BY <2>3, <2>6
<1>10. \A b : Decided(x, b) => Decided(x, b)' BY <1>3, <1>5 DEF Decided
<1>11. QueueOrder(x)'
  <2>1. QueueOrder(x) BY DEF TxnInv
  <2>2. HasIn(RecsOf(TPL, x), "enq")' => \A o \in ops'[x] : \E e \in RecsOf(o.q, x)' : Does(e, o, x) /\ e.at <= cmpl'[o.q]
    BY <1>1, <1>3, <1>5, <1>6, <1>7, <2>1 DEF QueueOrder, HasIn
  <2>3. HasIn(RecsOf(TPL, x), "commit")' => \A o \in ops'[x] : \E e \in RecsOf(o.q, x)' : e.is.t = "commit" /\ e.at <= cmpl'[o.q]
    BY <1>1, <1>3, <1>5, <1>6, <1>7, <2>1 DEF QueueOrder, HasIn
  <2>4. \A q \in Queues : HasIn(RecsOf(q, x), "commit")' => Decided(x, TRUE)' BY <1>3, <1>6, <1>10, <2>1 DEF QueueOrder, HasIn
  <2>5. \A q \in Queues : \A e \in RecsOf(q, x)' : e.is.t = "commit" =>
          \A o \in ops'[x] : o.q = q => \E d \in RecsOf(q, x)' : Does(d, o, x) /\ d.at < e.at
    <3> SUFFICES ASSUME NEW q \in Queues, NEW e \in RecsOf(q, x)', e.is.t = "commit", NEW o \in ops[x], o.q = q
                 PROVE  \E d \in RecsOf(q, x)' : Does(d, o, x) /\ d.at < e.at
      BY <1>1
    <3>1. e \in RecsOf(q, x) /\ e.at <= cmpl'[q] BY <1>3, <1>6
    <3>2. PICK d \in RecsOf(q, x) : Does(d, o, x) /\ d.at < e.at BY <2>1, <3>1 DEF QueueOrder
    <3>3. d.at \in Nat /\ e.at \in Nat /\ cmpl'[q] \in Nat BY <1>1, <1>3, <1>5, <3>1
    <3>4. d \in RecsOf(q, x)' BY <1>1, <1>3, <3>1, <3>2, <3>3
    <3> QED BY <3>2, <3>4
  <2>6. \A q \in Queues : HasIn(RecsOf(q, x), "abort")' =>
          Decided(x, FALSE)' \/ (RecsOf(TPL, x)' = {} /\ Stage(x)' \in {"close", "return", "done", "gone", "failed"})
    <3> SUFFICES ASSUME NEW q \in Queues, HasIn(RecsOf(q, x), "abort")'
                 PROVE Decided(x, FALSE)' \/ (RecsOf(TPL, x)' = {} /\ Stage(x)' = "gone") OBVIOUS
    <3>1. HasIn(RecsOf(q, x), "abort") BY <1>3, <1>6 DEF HasIn
    <3>2. Decided(x, FALSE) \/ RecsOf(TPL, x) = {} BY <2>1, <3>1 DEF QueueOrder
    <3>3. Stage(x)' = "gone" BY <1>2, <1>3, <1>4, <1>8 DEF HasIn
    <3> QED BY <1>3, <1>6, <1>10, <3>2, <3>3
  <2> QED BY <2>2, <2>3, <2>4, <2>5, <2>6 DEF QueueOrder
<1>12. ShapeInv(x)' BY <1>2, <1>4 DEF ShapeInv
<1>13. ListStage(x)' BY <1>2, <1>3, <1>4, <1>8 DEF ListStage, Early
<1>14. EarlyInv(x)'
  <2>1. \A q \in Queues : HeldOf(q, x)' = {}
    <3>1. maps' = [j \in Journals |-> NoMaps] BY DEF Crash
    <3>2. NoMaps.tmap[x] = <<>> BY DEF NoMaps
    <3> QED BY <1>3, <3>1, <3>2, EmptySet DEF HeldOf, Entries
  <2>2. CASE ctx[x].pc = "none" BY <1>1, <1>2, <1>3, <1>4, <1>8, <2>1, <2>2 DEF EarlyInv, OnDisk
  <2>3. CASE ctx[x].pc # "none" BY <1>2, <1>4, <2>3 DEF EarlyInv, Early
  <2> QED BY <2>2, <2>3
<1>15. DiskInv(x)'
  <2>1. \A j \in Journals : OnDisk(j, x)' BY <1>6 DEF OnDisk
  <2> QED BY <1>2, <1>4, <2>1 DEF DiskInv
<1>16. MapInv(x)' /\ RecInv(x)' BY <1>1, <1>2 DEF MapInv, RecInv
<1>17. ProgressInv(x)' BY <1>2, <1>4 DEF ProgressInv
<1>18. ToldInv(x)'
  <2>1. ToldInv(x) BY DEF TxnInv
  <2>2. CASE ctx[x].pc = "none"
    <3>1. told[x] = "none" BY <2>1, <2>2 DEF ToldInv, Stage, Waiting, Early
    <3> QED BY <1>1, <3>1 DEF ToldInv
  <2>3. CASE ctx[x].pc # "none"
    <3>1. told[x] = "committed" => \E e \in RecsOf(TPL, x)' : e.is.t = "commit" /\ e.at <= cmpl'[TPL]
      BY <1>3, <1>5, <2>1 DEF ToldInv
    <3>2. told[x] = "aborted" => Decided(x, FALSE)' \/ RecsOf(TPL, x)' = {}
      BY <1>3, <1>6, <1>10, <2>1 DEF ToldInv
    <3>3. told[x] = "prepared" /\ asked[x] = "none" =>
            /\ \E e \in RecsOf(TPL, x)' : e.is.t = "enq" /\ e.is.flag /\ e.at <= cmpl'[TPL]
            /\ \A e \in RecsOf(TPL, x)' : e.is.t = "enq"
      BY <1>3, <1>5, <1>6, <2>1 DEF ToldInv
    <3> QED BY <1>1, <1>2, <1>4, <2>3, <3>1, <3>2, <3>3 DEF ToldInv, Early
  <2> QED BY <2>2, <2>3
<1> QED BY <1>9, <1>11, <1>12, <1>13, <1>14, <1>15, <1>16, <1>17, <1>18 DEF TxnInv

-----------------------------------------------------------------------------
(* Recovery.                                                               *)

\* What the entries say of the records.
LEMMA MatchSays ==
    ASSUME NEW Es, NEW S, NEW n, Match(Es, S, n)
    PROVE  /\ (\E t \in Es : t.enq) <=> HasIn(OpenOps(S), "enq")
           /\ (\E t \in Es : ~t.enq) <=> \E e \in OpenOps(S) : e.is.t = "deq"
           /\ (\A t \in Es : t.enq \/ t.flag) <=> \A e \in OpenOps(S) : e.is.t = "deq" => e.is.flag
           /\ (\E t \in Es : t.enq /\ t.flag) <=> \E e \in OpenOps(S) : e.is.t = "enq" /\ e.is.flag
<1>1. \A e \in OpenOps(S) : e.is.t = "enq" \/ e.is.t = "deq" BY DEF OpenOps, IsOp
<1>2. \A t \in Es : \E e \in OpenOps(S) : (t.enq <=> e.is.t = "enq") /\ t.flag = e.is.flag BY DEF Match, Says
<1>3. \A e \in OpenOps(S) : \E t \in Es : (t.enq <=> e.is.t = "enq") /\ t.flag = e.is.flag BY DEF Match, Says
<1>4. (\E t \in Es : t.enq) <=> HasIn(OpenOps(S), "enq") BY <1>2, <1>3 DEF HasIn
<1>5. (\E t \in Es : ~t.enq) <=> \E e \in OpenOps(S) : e.is.t = "deq"
  <2>1. ASSUME NEW t \in Es, ~t.enq PROVE \E e \in OpenOps(S) : e.is.t = "deq" BY <1>1, <1>2, <2>1
  <2>2. ASSUME NEW e \in OpenOps(S), e.is.t = "deq" PROVE \E t \in Es : ~t.enq BY <1>3, <2>2
  <2> QED BY <2>1, <2>2
<1>6. (\A t \in Es : t.enq \/ t.flag) <=> \A e \in OpenOps(S) : e.is.t = "deq" => e.is.flag
  <2>1. ASSUME \A t \in Es : t.enq \/ t.flag, NEW e \in OpenOps(S), e.is.t = "deq" PROVE e.is.flag BY <1>3, <2>1
  <2>2. ASSUME \A e \in OpenOps(S) : e.is.t = "deq" => e.is.flag, NEW t \in Es PROVE t.enq \/ t.flag BY <1>1, <1>2, <2>2
  <2> QED BY <2>1, <2>2
<1>7. (\E t \in Es : t.enq /\ t.flag) <=> \E e \in OpenOps(S) : e.is.t = "enq" /\ e.is.flag BY <1>2, <1>3
<1> QED BY <1>4, <1>5, <1>6, <1>7

\* A replayed journal of a transaction whose records are all on disk.
LEMMA ReplayedMatch ==
    ASSUME Types, NEW x \in Xids, NEW j \in Journals, OnDisk(j, x)
    PROVE  Match(Entries(Replay(log[j]), x), RecsOf(j, x), cmpl[j]) /\ Replay(log[j]) \in MapsOf
<1>1. PICK l \in Seq(LogRec) : l = log[j] BY DEF Types
<1>2. Replay(l) \in MapsOf /\ Match(Entries(Replay(l), x), Recs(l, x), Len(l)) BY ReplayMatch
<1>3. PICK Es, S, n, k : Es = Entries(Replay(l), x) /\ S = RecsOf(j, x) /\ n = Len(l) /\ k = cmpl[j] OBVIOUS
<1>4. Match(Es, S, n) BY <1>1, <1>2, <1>3 DEF RecsOf
<1>5. \A e \in S : e.at <= n => e.at <= k BY <1>3 DEF OnDisk
<1>6. Match(Es, S, k) BY <1>4, <1>5, MatchMore
<1> QED BY <1>1, <1>2, <1>3, <1>6

\* While the store is not yet up again every transaction is as the crash left it.
LEMMA Crashed ==
    ASSUME Types, NEW x \in Xids, TxnInv(x), rec.phase \in {"tpl", "queues"}
    PROVE  /\ ctx[x].pc \in {"none", "gone"} /\ Stage(x) = ctx[x].pc /\ ~Waiting(x)
           /\ ctx[x].pc = "none" => ctx[x] = NoCtx /\ ops[x] = {} /\ \A j \in Journals : RecsOf(j, x) = {}
           /\ \A j \in Journals : OnDisk(j, x)
<1>1. ctx[x].pc \in {"none", "gone"} BY DEF TxnInv, RecInv
<1>2. ctx[x].pc = "none" => ctx[x] = NoCtx /\ ops[x] = {} /\ \A j \in Journals : RecsOf(j, x) = {}
  BY DEF TxnInv, ShapeInv, EarlyInv
<1>3. ctx[x].pc = "gone" => \A j \in Journals : OnDisk(j, x) BY DEF TxnInv, DiskInv
<1> QED BY <1>1, <1>2, <1>3 DEF Stage, Waiting, OnDisk

\* Steps of recovery that only rebuild maps.
LEMMA RebuildKeeps ==
    ASSUME Types, Types', NEW x \in Xids, TxnInv(x), rec.phase \in {"tpl", "queues"},
           UNCHANGED <<log, subm, cmpl, ctx, ops, told, asked>>,
           ctx[x].pc = "none" => \A q \in Queues : HeldOf(q, x)' = {}
    PROVE  /\ ShapeInv(x)' /\ ListOrder(RecsOf(TPL, x))' /\ ListStage(x)' /\ QueueOrder(x)' /\ EarlyInv(x)'
           /\ DiskInv(x)' /\ ProgressInv(x)' /\ ToldInv(x)'
<1>1. /\ ctx[x].pc \in {"none", "gone"} /\ Stage(x) = ctx[x].pc /\ ~Waiting(x)
      /\ ctx[x].pc = "none" => ctx[x] = NoCtx /\ ops[x] = {} /\ \A j \in Journals : RecsOf(j, x) = {}
      /\ \A j \in Journals : OnDisk(j, x)
  BY Crashed
<1>2. TPL \in Journals /\ \A q \in Queues : q \in Journals BY TplIsJournal
<1>3. \A j : RecsOf(j, x)' = RecsOf(j, x) BY DEF RecsOf
<1>4. Stage(x)' = Stage(x) /\ ~Waiting(x)' BY <1>1 DEF Stage, Waiting
<1>5. ShapeInv(x)' BY <1>1, <1>4 DEF TxnInv, ShapeInv
<1>6. ListOrder(RecsOf(TPL, x))' BY <1>3 DEF TxnInv, ListOrder
<1>7. ListStage(x)' BY <1>3, <1>4 DEF TxnInv, ListStage, HasIn
<1>8. \A b : Decided(x, b)' <=> Decided(x, b) BY <1>3 DEF Decided
<1>9. QueueOrder(x)'
  <2>1. QueueOrder(x) BY DEF TxnInv
  <2> QED BY <1>3, <1>4, <1>8, <2>1 DEF QueueOrder, HasIn
<1>10. EarlyInv(x)'
  <2>1. CASE ctx[x].pc = "none" BY <1>1, <1>2, <1>3, <1>4, <2>1 DEF EarlyInv, OnDisk
  <2>2. CASE ctx[x].pc = "gone" BY <1>1, <1>4, <2>2 DEF EarlyInv, Early
  <2> QED BY <1>1, <2>1, <2>2
<1>11. \A j \in Journals : OnDisk(j, x)' BY <1>1, <1>3 DEF OnDisk
<1>12. DiskInv(x)' BY <1>1, <1>4, <1>11 DEF DiskInv
<1>13. ProgressInv(x)' BY <1>1, <1>4 DEF ProgressInv
<1>14. ToldInv(x)'
  <2>1. ToldInv(x) BY DEF TxnInv
  <2> QED BY <1>1, <1>3, <1>4, <1>8, <2>1 DEF ToldInv, Running
<1> QED BY <1>5, <1>6, <1>7, <1>9, <1>10, <1>12, <1>13, <1>14

\* readTplStore(): the list says of every transaction what its records say.
LEMMA RecoverTplStoreKeeps ==
    ASSUME Types, Types', NEW x \in Xids, TxnInv(x), RecoverTplStore
    PROVE  TxnInv(x)'
<1> DEFINE ms == Replay(log[TPL])
<1>1. /\ rec.phase = "tpl" /\ maps' = [maps EXCEPT ![TPL] = ms]
      /\ rec' = [phase |-> "queues", todo |-> Queues, prep |-> Listed(ms), list |-> [y \in Xids |-> ListEntry(ms, y)]]
      /\ UNCHANGED <<log, subm, cmpl, ctx, ops, told, asked>>
  BY DEF RecoverTplStore, histVars
<1>2. /\ ctx[x].pc \in {"none", "gone"} /\ Stage(x) = ctx[x].pc
      /\ \A j \in Journals : OnDisk(j, x)
  BY <1>1, Crashed
<1>3. TPL \in Journals /\ \A q \in Queues : q \in Journals /\ q # TPL BY TplIsJournal
<1>4. Match(Entries(ms, x), RecsOf(TPL, x), cmpl[TPL]) BY <1>2, <1>3, ReplayedMatch
<1> HIDE DEF ms
<1>5. rec'.phase = "queues" /\ rec'.todo = Queues /\ rec'.prep = Listed(ms) /\ rec'.list[x] = ListEntry(ms, x) BY <1>1
<1>6. HeldOf(TPL, x)' = Entries(ms, x) /\ \A q \in Queues : HeldOf(q, x)' = HeldOf(q, x) BY <1>1, <1>3 DEF Types, HeldOf, Entries
<1>7. RecsOf(TPL, x)' = RecsOf(TPL, x) BY <1>1 DEF RecsOf
<1>8. /\ (\E t \in Entries(ms, x) : t.enq) <=> HasIn(OpenOps(RecsOf(TPL, x)), "enq")
      /\ (\E t \in Entries(ms, x) : ~t.enq) <=> \E e \in OpenOps(RecsOf(TPL, x)) : e.is.t = "deq"
      /\ (\A t \in Entries(ms, x) : t.enq \/ t.flag) <=> \A e \in OpenOps(RecsOf(TPL, x)) : e.is.t = "deq" => e.is.flag
      /\ (\E t \in Entries(ms, x) : t.enq /\ t.flag) <=> \E e \in OpenOps(RecsOf(TPL, x)) : e.is.t = "enq" /\ e.is.flag
  <2>1. PICK Es, S, n : Es = Entries(ms, x) /\ S = RecsOf(TPL, x) /\ n = cmpl[TPL] OBVIOUS
  <2>2. Match(Es, S, n) BY <1>4, <2>1
  <2>3. /\ (\E t \in Es : t.enq) <=> HasIn(OpenOps(S), "enq")
        /\ (\E t \in Es : ~t.enq) <=> \E e \in OpenOps(S) : e.is.t = "deq"
        /\ (\A t \in Es : t.enq \/ t.flag) <=> \A e \in OpenOps(S) : e.is.t = "deq" => e.is.flag
        /\ (\E t \in Es : t.enq /\ t.flag) <=> \E e \in OpenOps(S) : e.is.t = "enq" /\ e.is.flag
    BY <2>2, MatchSays
  <2> QED BY <2>1, <2>3
<1>9. Enlisted(x)' = Enlisted(x) /\ OpenOps(RecsOf(TPL, x))' = OpenOps(RecsOf(TPL, x)) BY <1>7 DEF Enlisted, HasIn, OpenOps
<1>10. x \in Listed(ms) <=> Enlisted(x)
  <2>1. x \in Listed(ms) <=> \E t \in Entries(ms, x) : t.enq BY DEF Listed, EnqsOf
  <2> QED BY <1>8, <2>1 DEF Enlisted
<1>11. /\ ListEntry(ms, x).deq <=> \E e \in OpenOps(RecsOf(TPL, x)) : e.is.t = "deq"
       /\ ListEntry(ms, x).commit <=> \A e \in OpenOps(RecsOf(TPL, x)) : e.is.t = "deq" => e.is.flag
       /\ ListEntry(ms, x).tpc <=> \E e \in OpenOps(RecsOf(TPL, x)) : e.is.t = "enq" /\ e.is.flag
  <2>1. /\ ListEntry(ms, x).deq = (DeqsOf(ms, x) # {})
        /\ ListEntry(ms, x).commit = \A t \in Entries(ms, x) : t.enq \/ t.flag
        /\ ListEntry(ms, x).tpc = \E t \in Entries(ms, x) : t.enq /\ t.flag
    BY DEF ListEntry
  <2>2. DeqsOf(ms, x) # {} <=> \E t \in Entries(ms, x) : ~t.enq BY DEF DeqsOf
  <2> QED BY <1>8, <2>1, <2>2
<1>12. MapInv(x)' BY <1>1, <1>4, <1>5, <1>6, <1>7 DEF MapInv
<1>13. RecInv(x)'
  <2>1. Dropped(x)' => ~Enlisted(x) BY <1>5, <1>10 DEF Dropped
  <2> QED BY <1>1, <1>2, <1>5, <1>9, <1>10, <1>11, <2>1 DEF RecInv
<1>14. ctx[x].pc = "none" => \A q \in Queues : HeldOf(q, x)' = {}
  <2>1. EarlyInv(x) BY DEF TxnInv
  <2>2. ctx[x].pc = "none" => ctx[x].impacted = {} BY <1>1, Crashed DEF NoCtx
  <2> QED BY <1>2, <1>6, <2>1, <2>2 DEF EarlyInv
<1> QED BY <1>1, <1>12, <1>13, <1>14, RebuildKeeps DEF TxnInv

\* recoverMessages(): a queue's maps are rebuilt for the listed transactions.
LEMMA RecoverQueueKeeps ==
    ASSUME Types, Types', NEW x \in Xids, TxnInv(x), NEW q \in Queues, RecoverQueue(q)
    PROVE  TxnInv(x)'
<1> DEFINE ms == WithoutUnprepared(Replay(log[q]), rec.prep)
<1>1. /\ rec.phase = "queues" /\ q \in rec.todo /\ maps' = [maps EXCEPT ![q] = ms]
      /\ rec' = IF rec.todo = {q} THEN [rec EXCEPT !.phase = "txns", !.todo = rec.prep] ELSE [rec EXCEPT !.todo = @ \ {q}]
      /\ UNCHANGED <<log, subm, cmpl, ctx, ops, told, asked>>
  BY DEF RecoverQueue, histVars
<1>2. /\ ctx[x].pc \in {"none", "gone"} /\ Stage(x) = ctx[x].pc
      /\ ctx[x].pc = "none" => ctx[x] = NoCtx /\ \A j \in Journals : RecsOf(j, x) = {}
      /\ \A j \in Journals : OnDisk(j, x)
  BY <1>1, Crashed
<1>3. TPL \in Journals /\ \A k \in Queues : k \in Journals /\ k # TPL BY TplIsJournal
<1>4. Match(Entries(Replay(log[q]), x), RecsOf(q, x), cmpl[q]) /\ Replay(log[q]) \in MapsOf BY <1>2, <1>3, ReplayedMatch
<1>5. ms.tmap[x] = IF x \in rec.prep THEN Replay(log[q]).tmap[x] ELSE <<>>
  <2>1. PICK rs \in MapsOf : rs = Replay(log[q]) BY <1>4
  <2>2. PICK prep : prep = rec.prep OBVIOUS
  <2>3. WithoutUnprepared(rs, prep).tmap[x] = IF x \in prep THEN rs.tmap[x] ELSE <<>> BY UnpreparedIs
  <2> QED BY <2>1, <2>2, <2>3
<1> HIDE DEF ms
<1>6. HeldOf(q, x)' = (IF x \in rec.prep THEN Entries(Replay(log[q]), x) ELSE {})
  <2>1. maps'[q] = ms BY <1>1, <1>3 DEF Types
  <2> QED BY <1>5, <2>1, EmptySet DEF HeldOf, Entries
<1>7. \A j \in Journals : j # q => HeldOf(j, x)' = HeldOf(j, x) BY <1>1, <1>3 DEF Types, HeldOf, Entries
<1>8. \A j : RecsOf(j, x)' = RecsOf(j, x) BY <1>1 DEF RecsOf
<1>9. /\ rec'.prep = rec.prep /\ rec'.list = rec.list
      /\ rec'.phase \in {"queues", "txns"}
      /\ rec'.phase = "txns" => rec.todo = {q} /\ rec'.todo = rec.prep
      /\ rec'.phase = "queues" => rec'.todo = rec.todo \ {q}
  BY <1>1 DEF Types
<1>10. Dropped(x)' = Dropped(x) BY <1>1, <1>9 DEF Dropped
<1>11. Match(HeldOf(q, x)', RecsOf(q, x), cmpl[q]) \/ (Dropped(x) /\ HeldOf(q, x)' = {})
  <2>1. CASE x \in rec.prep BY <1>4, <1>6, <2>1
  <2>2. CASE x \notin rec.prep /\ ctx[x].pc = "gone" BY <1>6, <2>2 DEF Dropped
  <2>3. CASE x \notin rec.prep /\ ctx[x].pc = "none"
    <3>1. RecsOf(q, x) = {} /\ HeldOf(q, x)' = {} BY <1>2, <1>3, <1>6, <2>3
    <3> QED BY <3>1, MatchNone
  <2> QED BY <1>2, <2>1, <2>2, <2>3
<1>12. x \in rec.prep => ctx[x].pc = "gone"
  <2>1. x \in rec.prep => Enlisted(x) BY <1>1, <1>2 DEF TxnInv, RecInv
  <2>2. Enlisted(x) => RecsOf(TPL, x) # {} BY DEF Enlisted, HasIn, OpenOps
  <2> QED BY <1>2, <1>3, <2>1, <2>2
<1>13. Dropped(x) => HeldOf(q, x)' = {} BY <1>1, <1>6 DEF Dropped
<1>14. MapInv(x)'
  <2>1. MapInv(x) BY DEF TxnInv
  <2>2. Match(HeldOf(TPL, x)', RecsOf(TPL, x)', cmpl'[TPL]) BY <1>1, <1>3, <1>7, <1>8, <2>1 DEF MapInv
  <2>3. ASSUME NEW k \in Queues, rec'.phase \in {"txns", "up"} \/ (rec'.phase = "queues" /\ k \notin rec'.todo)
        PROVE  IF Dropped(x)' THEN HeldOf(k, x)' = {} ELSE Match(HeldOf(k, x)', RecsOf(k, x)', cmpl'[k])
    <3>1. CASE k = q BY <1>1, <1>8, <1>10, <1>11, <1>13, <3>1
    <3>2. CASE k # q
      <4>1. k \notin rec.todo BY <1>9, <2>3, <3>2
      <4>2. IF Dropped(x) THEN HeldOf(k, x) = {} ELSE Match(HeldOf(k, x), RecsOf(k, x), cmpl[k]) BY <1>1, <2>1, <4>1 DEF MapInv
      <4> QED BY <1>1, <1>3, <1>7, <1>8, <1>10, <3>2, <4>2
    <3> QED BY <3>1, <3>2
  <2> QED BY <2>2, <2>3 DEF MapInv
<1>15. RecInv(x)'
  <2>1. RecInv(x) BY DEF TxnInv
  <2>2. Enlisted(x)' = Enlisted(x) /\ OpenOps(RecsOf(TPL, x))' = OpenOps(RecsOf(TPL, x)) BY <1>8 DEF Enlisted, HasIn, OpenOps
  <2> QED BY <1>1, <1>2, <1>9, <1>10, <1>12, <2>1, <2>2 DEF RecInv
<1>16. ctx[x].pc = "none" => \A k \in Queues : HeldOf(k, x)' = {}
  <2>1. EarlyInv(x) BY DEF TxnInv
  <2>2. ctx[x].pc = "none" => ctx[x].impacted = {} BY <1>2 DEF NoCtx
  <2> QED BY <1>2, <1>3, <1>6, <1>7, <1>12, <2>1, <2>2 DEF EarlyInv
<1> QED BY <1>1, <1>14, <1>15, <1>16, RebuildKeeps DEF TxnInv

\* A listed transaction: the prepared list holds its operations and no end.
LEMMA ListedOpen ==
    ASSUME Types, NEW x \in Xids, TxnInv(x), Enlisted(x)
    PROVE  /\ RecsOf(TPL, x) # {} /\ OpenOps(RecsOf(TPL, x)) = RecsOf(TPL, x)
           /\ \A e \in RecsOf(TPL, x) : e.is.t \in {"enq", "deq"} /\ e.is.flag \in BOOLEAN
           /\ \E e \in RecsOf(TPL, x) : e.is.t = "enq"
<1>1. PICK e0 \in OpenOps(RecsOf(TPL, x)) : e0.is.t = "enq" BY DEF Enlisted, HasIn
<1>2. e0 \in RecsOf(TPL, x) /\ \A d \in RecsOf(TPL, x) : IsEnd(d.is) => d.at < e0.at BY <1>1 DEF OpenOps
<1>3. TPL \in Journals BY TplIsJournal
<1>4. \A e \in RecsOf(TPL, x) : e.at \in Nat /\ e.is \in LogRec BY <1>3, StateFacts
<1>5. \A d \in RecsOf(TPL, x) : ~IsEnd(d.is)
  <2>1. ListOrder(RecsOf(TPL, x)) BY DEF TxnInv
  <2>2. \A d \in RecsOf(TPL, x) : IsEnd(d.is) => e0.at <= d.at BY <1>2, <2>1 DEF ListOrder
  <2> QED BY <1>2, <1>4, <2>2
<1>6. \A e \in RecsOf(TPL, x) : e.is.t \in {"enq", "deq"} /\ e.is.flag \in BOOLEAN
  <2>1. \A e \in RecsOf(TPL, x) : e.is.t \in {"enq", "deq", "abort", "commit"} /\ e.is.flag \in BOOLEAN
    BY <1>4 DEF LogRec, RecordType
  <2> QED BY <1>5, <2>1 DEF IsEnd
<1>7. OpenOps(RecsOf(TPL, x)) = RecsOf(TPL, x) BY <1>5, <1>6 DEF OpenOps, IsOp
<1> QED BY <1>1, <1>2, <1>6, <1>7

\* An operation of a queue's journal that no end follows is in the maps.
LEMMA OpenTouches ==
    ASSUME Types, NEW x \in Xids, NEW q \in Queues, Match(HeldOf(q, x), RecsOf(q, x), cmpl[q]),
           NEW e \in RecsOf(q, x), IsOp(e.is), \A d \in RecsOf(q, x) : IsEnd(d.is) => d.at < e.at
    PROVE  HeldOf(q, x) # {}
<1>1. e \in OpenOps(RecsOf(q, x)) BY DEF OpenOps
<1> QED BY <1>1 DEF Match

\* recover() takes a listed transaction up where the crash interrupted it.
LEMMA RecoverTxnKeeps ==
    ASSUME Types, Types', NEW x \in Xids, TxnInv(x), RecoverTxn(x)
    PROVE  TxnInv(x)' /\ \A y \in Xids : y # x => Quiet(y)
<1> DEFINE touched == {q \in Queues : Entries(maps[q], x) # {}}
           T == RecsOf(TPL, x)
           c == [NoCtx EXCEPT !.prepared = TRUE, !.dtok = "ENQ", !.impacted = touched,
                              !.tpc = rec.list[x].tpc, !.commit = rec.list[x].commit, !.rcvd = Completes(x)]
           d == IF rec.list[x].deq THEN [c EXCEPT !.pc = "flush", !.then = "close", !.left = touched]
                ELSE [c EXCEPT !.pc = IF c.tpc THEN "prepared" ELSE "tplDeq"]
<1>1. /\ rec.phase = "txns" /\ x \in rec.todo /\ rec' = [rec EXCEPT !.todo = @ \ {x}]
      /\ ctx' = [ctx EXCEPT ![x] = d] /\ UNCHANGED <<log, subm, cmpl, maps, ops, told, asked>>
  BY DEF RecoverTxn, jrnlVars, histVars
<1>2. /\ d.prepared = TRUE /\ d.dtok = "ENQ" /\ d.impacted = touched /\ d.commit = rec.list[x].commit
      /\ rec.list[x].deq => d.pc = "flush" /\ d.then = "close" /\ d.left = touched
      /\ ~rec.list[x].deq /\ rec.list[x].tpc => d.pc = "prepared"
      /\ ~rec.list[x].deq /\ ~rec.list[x].tpc => d.pc = "tplDeq"
  BY DEF NoCtx
<1>3. rec.list[x].deq \in BOOLEAN /\ rec.list[x].commit \in BOOLEAN /\ rec.list[x].tpc \in BOOLEAN BY DEF Types
<1>4. \A q \in Queues : q \in touched <=> HeldOf(q, x) # {} BY DEF HeldOf
<1>5. touched \subseteq Queues OBVIOUS
<1> HIDE DEF c, d, touched
<1>6. ctx'[x] = d /\ \A y \in Xids : y # x => ctx'[y] = ctx[y] BY <1>1 DEF Types
<1>7. /\ rec'.phase = "txns" /\ rec'.prep = rec.prep /\ rec'.list = rec.list /\ rec'.todo = rec.todo \ {x}
  BY <1>1 DEF Types
<1>8. TPL \in Journals /\ \A q \in Queues : q \in Journals /\ q # TPL BY TplIsJournal
<1>9. \A j, y : RecsOf(j, y)' = RecsOf(j, y) /\ HeldOf(j, y)' = HeldOf(j, y) BY <1>1 DEF RecsOf, HeldOf, Entries
<1>10. ctx[x].pc = "gone" /\ x \in rec.prep BY <1>1 DEF TxnInv, RecInv
<1>11. /\ Enlisted(x)
       /\ rec.list[x].deq <=> \E e \in OpenOps(T) : e.is.t = "deq"
       /\ rec.list[x].commit <=> \A e \in OpenOps(T) : e.is.t = "deq" => e.is.flag
       /\ rec.list[x].tpc <=> \E e \in OpenOps(T) : e.is.t = "enq" /\ e.is.flag
  BY <1>1, <1>10 DEF TxnInv, RecInv
<1>12. /\ T # {} /\ OpenOps(T) = T
       /\ \A e \in T : e.is.t \in {"enq", "deq"} /\ e.is.flag \in BOOLEAN
       /\ \E e \in T : e.is.t = "enq"
  BY <1>11, ListedOpen
<1>13. /\ ListOrder(T) /\ QueueOrder(x) /\ MapInv(x) /\ ToldInv(x)
       /\ \A j \in Journals : OnDisk(j, x)
  BY <1>10 DEF TxnInv, DiskInv
<1>14. \A e, g \in T : e.is.t = "deq" /\ g.is.t = "deq" => e.is.flag = g.is.flag BY <1>13 DEF ListOrder
<1>15. \A j \in Journals : Match(HeldOf(j, x), RecsOf(j, x), cmpl[j])
  <2>1. ~Dropped(x) BY <1>1, <1>10 DEF Dropped
  <2> QED BY <1>1, <1>13, <2>1 DEF MapInv, Journals
<1>16. rec.list[x].deq <=> \E e \in T : e.is.t = "deq" BY <1>11, <1>12
<1>17. rec.list[x].commit <=> \A e \in T : e.is.t = "deq" => e.is.flag BY <1>11, <1>12
<1>18. rec.list[x].tpc <=> \E e \in T : e.is.t = "enq" /\ e.is.flag BY <1>11, <1>12
<1>19. /\ Decided(x, TRUE) => rec.list[x].deq /\ rec.list[x].commit
       /\ Decided(x, FALSE) => rec.list[x].deq /\ ~rec.list[x].commit
  BY <1>14, <1>16, <1>17 DEF Decided
<1>20. /\ Stage(x)' = IF rec.list[x].deq THEN "close" ELSE IF rec.list[x].tpc THEN "prepared" ELSE "tplDeq"
       /\ ctx'[x].pc = IF rec.list[x].deq THEN "flush" ELSE IF rec.list[x].tpc THEN "prepared" ELSE "tplDeq"
       /\ Waiting(x)' <=> rec.list[x].deq
  BY <1>2, <1>3, <1>6 DEF Stage, Waiting
<1>21. \A b : Decided(x, b)' <=> Decided(x, b) BY <1>1, <1>9 DEF Decided
<1> HIDE DEF T
<1>22. RecsOf(TPL, x)' = T /\ RecsOf(TPL, x) = T BY <1>9 DEF T
<1>23. ShapeInv(x)' BY <1>2, <1>6, <1>20 DEF ShapeInv, Early
<1>24. ListOrder(RecsOf(TPL, x))' BY <1>13, <1>22 DEF ListOrder
<1>25. ListStage(x)'
  <2>1. CASE rec.list[x].deq
    <3>1. PICK e \in T : e.is.t = "deq" BY <1>16, <2>1
    <3>2. e.is.flag = rec.list[x].commit BY <1>3, <1>12, <1>14, <1>17, <3>1
    <3>3. \A g \in T : IsOp(g.is) BY <1>12 DEF IsOp
    <3> QED BY <1>2, <1>6, <1>20, <1>22, <2>1, <3>1, <3>2, <3>3 DEF ListStage, Early
  <2>2. CASE ~rec.list[x].deq
    <3>1. \A e \in T : e.is.t = "enq" BY <1>12, <1>16, <2>2
    <3> QED BY <1>2, <1>6, <1>12, <1>18, <1>20, <1>22, <2>2, <3>1 DEF ListStage, Early
  <2> QED BY <1>3, <2>1, <2>2
<1>26. QueueOrder(x)'
  <2>1. \A q \in Queues : HasIn(RecsOf(q, x), "abort") => Decided(x, FALSE) BY <1>12, <1>13, <1>22 DEF QueueOrder
  <2> QED BY <1>1, <1>9, <1>13, <1>21, <2>1 DEF QueueOrder, HasIn
<1>27. ASSUME NEW o \in ops[x]
       PROVE  /\ o.q \in Queues
              /\ \E e \in RecsOf(o.q, x) : Does(e, o, x) /\ IsOp(e.is)
  <2>1. o.q \in Queues /\ o.t \in {"enq", "deq"} BY DEF Types, OpType
  <2>2. HasIn(RecsOf(TPL, x), "enq") BY <1>12, <1>22 DEF HasIn
  <2>3. PICK e \in RecsOf(o.q, x) : Does(e, o, x) BY <1>13, <2>2 DEF QueueOrder
  <2>4. IsOp(e.is) BY <2>1, <2>3 DEF Does, Record, IsOp
  <2> QED BY <2>1, <2>3, <2>4
<1>28. ASSUME NEW o \in ops[x], o.q \notin touched PROVE \E g \in RecsOf(o.q, x) : IsEnd(g.is)
  <2>1. PICK e \in RecsOf(o.q, x) : Does(e, o, x) /\ IsOp(e.is) BY <1>27
  <2>2. HeldOf(o.q, x) = {} /\ o.q \in Queues BY <1>4, <1>27, <1>28
  <2>3. Match(HeldOf(o.q, x), RecsOf(o.q, x), cmpl[o.q]) BY <1>8, <1>15, <2>2
  <2>4. ~(\A g \in RecsOf(o.q, x) : IsEnd(g.is) => g.at < e.at) BY <2>1, <2>2, <2>3, OpenTouches
  <2> QED BY <2>4
<1>29. \A q \in Queues : \A g \in RecsOf(q, x) : IsEnd(g.is) =>
         \/ g.is.t = "commit" /\ HasIn(RecsOf(q, x), "commit") /\ rec.list[x].deq /\ rec.list[x].commit
         \/ g.is.t = "abort" /\ rec.list[x].deq /\ ~rec.list[x].commit
  <2> SUFFICES ASSUME NEW q \in Queues, NEW g \in RecsOf(q, x), IsEnd(g.is)
               PROVE  \/ g.is.t = "commit" /\ HasIn(RecsOf(q, x), "commit") /\ rec.list[x].deq /\ rec.list[x].commit
                      \/ g.is.t = "abort" /\ rec.list[x].deq /\ ~rec.list[x].commit
    OBVIOUS
  <2>1. CASE g.is.t = "commit"
    <3>1. HasIn(RecsOf(q, x), "commit") BY <2>1 DEF HasIn
    <3>2. Decided(x, TRUE) BY <1>13, <3>1 DEF QueueOrder
    <3> QED BY <1>19, <2>1, <3>1, <3>2
  <2>2. CASE g.is.t = "abort"
    <3>1. HasIn(RecsOf(q, x), "abort") BY <2>2 DEF HasIn
    <3>2. Decided(x, FALSE) BY <1>12, <1>13, <1>22, <3>1 DEF QueueOrder
    <3> QED BY <1>19, <2>2, <3>2
  <2> QED BY <2>1, <2>2 DEF IsEnd
<1>30. EarlyInv(x)'
  <2>1. ASSUME ~rec.list[x].deq, NEW o \in ops[x] PROVE o.q \in touched BY <1>27, <1>28, <1>29, <2>1
  <2>2. \A q \in Queues : q \notin touched => OnDisk(q, x)' /\ HeldOf(q, x)' = {}
    BY <1>1, <1>4, <1>8, <1>9, <1>13 DEF OnDisk
  <2>3. ctx'[x].impacted = touched BY <1>2, <1>6
  <2> QED BY <1>1, <1>3, <1>20, <2>1, <2>2, <2>3 DEF EarlyInv, Early
<1>31. DiskInv(x)'
  <2>1. OnDisk(TPL, x)' BY <1>1, <1>8, <1>9, <1>13 DEF OnDisk
  <2> QED BY <1>20, <2>1 DEF DiskInv
<1>32. MapInv(x)'
  <2>1. ~Dropped(x)' BY <1>20 DEF Dropped
  <2> QED BY <1>1, <1>8, <1>9, <1>15, <2>1 DEF MapInv
<1>33. ProgressInv(x)'
  <2>1. ASSUME rec.list[x].deq, rec.list[x].commit, NEW o \in ops[x] PROVE o.q \in touched \/ HasIn(RecsOf(o.q, x), "commit")
    BY <1>27, <1>28, <1>29, <2>1
  <2>2. ASSUME ~rec.list[x].commit PROVE CommitFree(x)
    <3> SUFFICES ASSUME NEW q \in Queues, HasIn(RecsOf(q, x), "commit") PROVE FALSE BY DEF CommitFree
    <3>1. Decided(x, TRUE) BY <1>13 DEF QueueOrder
    <3> QED BY <1>19, <2>2, <3>1
  <2>3. CommitFree(x)' <=> CommitFree(x) BY <1>9 DEF CommitFree, HasIn
  <2>4. ctx'[x].commit = rec.list[x].commit /\ ctx'[x].impacted = touched /\ (rec.list[x].deq => ctx'[x].left = touched)
    BY <1>2, <1>6
  <2> QED BY <1>1, <1>4, <1>9, <1>20, <2>1, <2>2, <2>3, <2>4 DEF ProgressInv, HasIn
<1>34. RecInv(x)'
  <2>1. ~Dropped(x)' BY <1>20 DEF Dropped
  <2> QED BY <1>1, <1>7, <1>20, <2>1 DEF RecInv, Running
<1>35. ToldInv(x)'
  <2>1. Stage(x)' \notin Early BY <1>20 DEF Early
  <2>2. told[x] # "committed" BY <1>12, <1>13, <1>22 DEF ToldInv
  <2>3. told[x] = "aborted" => Decided(x, FALSE) BY <1>12, <1>13, <1>22 DEF ToldInv
  <2>4. told[x] = "aborted" => ctx'[x].pc \in Running BY <1>19, <1>20, <2>3 DEF Running
  <2>5. told[x] = "prepared" /\ asked[x] = "none" =>
          /\ \E e \in T : e.is.t = "enq" /\ e.is.flag /\ e.at <= cmpl[TPL]
          /\ \A e \in T : e.is.t = "enq"
    BY <1>13, <1>22 DEF ToldInv
  <2>6. told[x] = "prepared" /\ asked[x] = "none" => ctx'[x].pc = "prepared" BY <1>16, <1>18, <1>20, <2>5
  <2> QED BY <1>1, <1>7, <1>21, <1>22, <2>1, <2>2, <2>3, <2>4, <2>5, <2>6 DEF ToldInv
<1>36. TxnInv(x)' BY <1>23, <1>24, <1>25, <1>26, <1>30, <1>31, <1>32, <1>33, <1>34, <1>35 DEF TxnInv
<1>37. ASSUME NEW y \in Xids, y # x PROVE Quiet(y)
  <2>1. \A j \in Journals : cmpl[j] <= cmpl'[j] /\ subm[j] <= subm'[j] BY <1>1 DEF Types
  <2> QED BY <1>1, <1>6, <1>7, <1>9, <1>37, <2>1 DEF Quiet
<1> QED BY <1>36, <1>37

\* The store is up again.
LEMMA RecoveryCompleteKeeps ==
    ASSUME Types, Types', NEW x \in Xids, TxnInv(x), RecoveryComplete
    PROVE  TxnInv(x)'
<1>1. /\ rec.phase = "txns" /\ rec.todo = {} /\ NoneRunning /\ rec'.phase = "up"
      /\ UNCHANGED <<log, subm, cmpl, maps, ctx, ops, told, asked>>
  BY DEF RecoveryComplete, Up, jrnlVars, histVars
<1>2. \A j : RecsOf(j, x)' = RecsOf(j, x) /\ HeldOf(j, x)' = HeldOf(j, x) BY <1>1 DEF RecsOf, HeldOf, Entries
<1>3. Stage(x)' = Stage(x) /\ Waiting(x)' = Waiting(x) /\ SyncSet(x)' = SyncSet(x) BY <1>1 DEF Stage, Waiting, SyncSet
<1>4. \A b : Decided(x, b)' <=> Decided(x, b) BY <1>1, <1>2 DEF Decided
<1>5. \A j : OnDisk(j, x)' <=> OnDisk(j, x) BY <1>1, <1>2 DEF OnDisk
<1>6. ctx[x].pc = "gone" => x \notin rec.prep BY <1>1 DEF TxnInv, RecInv
<1>7. Dropped(x)' = Dropped(x) BY <1>1, <1>6 DEF Dropped
<1>8. ShapeInv(x)' BY <1>1, <1>3 DEF TxnInv, ShapeInv
<1>9. ListOrder(RecsOf(TPL, x))' BY <1>2 DEF TxnInv, ListOrder
<1>10. ListStage(x)' BY <1>1, <1>2, <1>3 DEF TxnInv, ListStage, HasIn
<1>11. QueueOrder(x)'
  <2>1. QueueOrder(x) BY DEF TxnInv
  <2> QED BY <1>1, <1>2, <1>3, <1>4, <2>1 DEF QueueOrder, HasIn
<1>12. EarlyInv(x)'
  <2>1. EarlyInv(x) BY DEF TxnInv
  <2> QED BY <1>1, <1>2, <1>3, <1>5, <2>1 DEF EarlyInv
<1>13. DiskInv(x)'
  <2>1. DiskInv(x) BY DEF TxnInv
  <2> QED BY <1>1, <1>2, <1>3, <1>4, <1>5, <2>1 DEF DiskInv
<1>14. MapInv(x)'
  <2>1. MapInv(x) BY DEF TxnInv
  <2> QED BY <1>1, <1>2, <1>7, <2>1 DEF MapInv
<1>15. ProgressInv(x)'
  <2>1. ProgressInv(x) BY DEF TxnInv
  <2> QED BY <1>1, <1>2, <1>3, <2>1 DEF ProgressInv, CommitFree, HasIn
<1>16. RecInv(x)'
  <2>1. RecInv(x) BY DEF TxnInv
  <2>2. Enlisted(x)' = Enlisted(x) BY <1>2 DEF Enlisted, HasIn, OpenOps
  <2> QED BY <1>1, <1>7, <2>1, <2>2 DEF RecInv
<1>17. ToldInv(x)'
  <2>1. ToldInv(x) BY DEF TxnInv
  <2>2. ctx[x].pc \notin Running BY <1>1 DEF NoneRunning
  <2> QED BY <1>1, <1>2, <1>3, <1>4, <2>1, <2>2 DEF ToldInv
<1> QED BY <1>8, <1>9, <1>10, <1>11, <1>12, <1>13, <1>14, <1>15, <1>16, <1>17 DEF TxnInv

-----------------------------------------------------------------------------
(* The invariant holds.                                                    *)

\* No transaction has begun.
LEMMA InitInv == Init => \A x \in Xids : TxnInv(x)
<1> SUFFICES ASSUME Init, NEW x \in Xids PROVE TxnInv(x) OBVIOUS
<1>1. /\ ctx[x] = NoCtx /\ ops[x] = {} /\ told[x] = "none" /\ asked[x] = "none" /\ rec.phase = "up"
      /\ rec.prep = {}
  BY DEF Init, Up
<1>2. TPL \in Journals /\ \A q \in Queues : q \in Journals BY TplIsJournal
<1>3. \A j \in Journals : RecsOf(j, x) = {} /\ HeldOf(j, x) = {}
  <2>1. \A j \in Journals : log[j] = <<>> /\ maps[j] = NoMaps BY DEF Init
  <2>2. \A j \in Journals : maps[j].tmap[x] = <<>> BY <2>1 DEF NoMaps
  <2>3. Len(<<>>) = 0 BY EmptySeq
  <2> QED BY <2>1, <2>2, <2>3, EmptySet DEF RecsOf, HeldOf, Entries, Recs
<1>4. /\ ctx[x].pc = "none" /\ ctx[x].prepared = FALSE /\ ctx[x].dtok = "NONE"
      /\ ~Waiting(x) /\ Stage(x) = "none"
  BY <1>1 DEF NoCtx, Waiting, Stage
<1>5. ShapeInv(x) BY <1>1, <1>4 DEF ShapeInv
<1>6. ListOrder(RecsOf(TPL, x)) /\ ListStage(x) /\ QueueOrder(x) BY <1>1, <1>2, <1>3, <1>4 DEF ListOrder, ListStage, QueueOrder, HasIn
<1>7. EarlyInv(x) /\ DiskInv(x) /\ ProgressInv(x) /\ ToldInv(x)
  BY <1>1, <1>2, <1>3, <1>4 DEF EarlyInv, DiskInv, ProgressInv, ToldInv, OnDisk
<1>8. MapInv(x)
  <2>1. \A j \in Journals : Match(HeldOf(j, x), RecsOf(j, x), cmpl[j]) BY <1>3, MatchNone
  <2> QED BY <1>2, <1>4, <2>1 DEF MapInv, Dropped
<1>9. RecInv(x) BY <1>1, <1>4 DEF RecInv, Dropped
<1> QED BY <1>5, <1>6, <1>7, <1>8, <1>9 DEF TxnInv

\* Every step keeps the invariant of every transaction.
LEMMA NextInv == Types /\ (\A x \in Xids : TxnInv(x)) /\ [Next]_vars => \A x \in Xids : TxnInv(x)'
<1> SUFFICES ASSUME Types, \A x \in Xids : TxnInv(x), [Next]_vars, NEW y \in Xids PROVE TxnInv(y)' OBVIOUS
<1>1. Types' BY TypesNext
<1>2. TxnInv(y) OBVIOUS
<1>3. Quiet(y) => TxnInv(y)' BY <1>1, <1>2, QuietKeeps
<1>4. ASSUME NEW x \in Xids, TxnInv(x)' /\ \A z \in Xids : z # x => Quiet(z) PROVE TxnInv(y)'
  <2>1. CASE y = x BY <1>4, <2>1
  <2>2. CASE y # x BY <1>3, <1>4, <2>2
  <2> QED BY <2>1, <2>2
<1>5. \A x \in Xids : TxnInv(x) OBVIOUS
<1>6. CASE \/ \E q \in Queues, m \in Msgs : Enqueue(q, m) \/ Dequeue(q, m)
           \/ \E j \in Journals : PageOut(j) \/ Complete(j)
           \/ UNCHANGED vars
  BY <1>1, <1>3, <1>6, QuietSteps
<1>7. CASE \E x \in Xids : Prepare(x) BY <1>1, <1>4, <1>5, <1>7, StartPrepareKeeps
<1>8. CASE \E x \in Xids, tpc \in BOOLEAN : Begin(x, tpc) BY <1>1, <1>4, <1>5, <1>8, BeginKeeps
<1>9. CASE \E x \in Xids, end \in {"commit", "abort"} : EndLocal(x, end) BY <1>1, <1>4, <1>5, <1>9, EndLocalKeeps
<1>10. CASE \E x \in Xids, end \in {"commit", "abort"} : EndDtx(x, end) BY <1>1, <1>4, <1>5, <1>10, EndDtxKeeps
<1>11. CASE \E x \in Xids, q \in Queues, m \in Msgs : TxnEnqueue(x, q, m) \/ TxnDequeue(x, q, m)
  <2>1. PICK x \in Xids, q \in Queues, m \in Msgs, t \in {"enq", "deq"} : TxnOp(x, q, m, t)
    BY <1>11 DEF TxnEnqueue, TxnDequeue
  <2> QED BY <1>1, <1>4, <1>5, <2>1, TxnOpKeeps
<1>12. CASE \E x \in Xids : Flush(x) BY <1>1, <1>4, <1>5, <1>12, FlushKeeps
<1>13. CASE \E x \in Xids : Sync(x) BY <1>1, <1>4, <1>5, <1>13, SyncKeeps
<1>14. CASE \E x \in Xids : SyncTimeout(x) BY <1>1, <1>4, <1>5, <1>14, SyncTimeoutKeeps
<1>15. CASE \E x \in Xids : TplEnqueue(x) BY <1>1, <1>4, <1>5, <1>15, TplEnqueueKeeps
<1>16. CASE \E x \in Xids : TplDequeue(x) BY <1>1, <1>4, <1>5, <1>16, TplDequeueKeeps
<1>17. CASE \E x \in Xids, q \in Queues : CommitQueue(x, q) BY <1>1, <1>4, <1>5, <1>17, CommitQueueKeeps
<1>18. CASE \E x \in Xids : CommitTpl(x) BY <1>1, <1>4, <1>5, <1>18, CommitTplKeeps
<1>19. CASE \E x \in Xids : Return(x) BY <1>1, <1>4, <1>5, <1>19, ReturnKeeps
<1>20. CASE RecoverTplStore BY <1>1, <1>2, <1>20, RecoverTplStoreKeeps
<1>21. CASE \E q \in Queues : RecoverQueue(q) BY <1>1, <1>2, <1>21, RecoverQueueKeeps
<1>22. CASE \E x \in Xids : RecoverTxn(x) BY <1>1, <1>4, <1>5, <1>22, RecoverTxnKeeps
<1>23. CASE RecoveryComplete BY <1>1, <1>2, <1>23, RecoveryCompleteKeeps
<1>24. CASE Crash BY <1>1, <1>2, <1>24, CrashKeeps
<1> QED
  BY <1>6, <1>7, <1>8, <1>9, <1>10, <1>11, <1>12, <1>13, <1>14, <1>15, <1>16, <1>17, <1>18, <1>19, <1>20, <1>21, <1>22,
     <1>23, <1>24 DEF Next, Broker, Thread, Recovery

\* The inductive invariant.
Inv == Types /\ \A x \in Xids : TxnInv(x)

\* The inductive invariant holds in every reachable state of a store with any number
\* of queues, messages and transactions, whatever crashes and time-outs there are.
THEOREM InvAlways == Spec => []Inv
<1>1. Init => Inv BY InitTypes, InitInv DEF Inv
<1>2. Inv /\ [Next]_vars => Inv' BY TypesNext, NextInv DEF Inv
<1> QED BY <1>1, <1>2, PTL DEF Spec

-----------------------------------------------------------------------------
(* The properties.                                                         *)

\* Records of a log and their positions.
LEMMA HasIs ==
    ASSUME Types, NEW x \in Xids, NEW j \in Journals, NEW t
    PROVE  Has(log[j], t, x) <=> HasIn(RecsOf(j, x), t)
<1>1. PICK l \in Seq(LogRec) : l = log[j] BY DEF Types
<1>2. /\ \A e \in Recs(l, x) : e.at \in 1 .. Len(l) /\ e.is.x = x /\ l[e.at] = e.is
      /\ \A i \in 1 .. Len(l) : l[i].x = x => [at |-> i, is |-> l[i]] \in Recs(l, x)
  BY RecsAre
<1>3. DOMAIN l = 1 .. Len(l) BY LenProperties
<1>4. ASSUME NEW i \in DOMAIN l, l[i].t = t, l[i].x = x PROVE HasIn(Recs(l, x), t)
  <2>1. [at |-> i, is |-> l[i]] \in Recs(l, x) BY <1>2, <1>3, <1>4
  <2> QED BY <1>4, <2>1 DEF HasIn
<1>5. ASSUME HasIn(Recs(l, x), t) PROVE Has(l, t, x)
  <2>1. PICK e \in Recs(l, x) : e.is.t = t BY <1>5 DEF HasIn
  <2>2. e.at \in DOMAIN l /\ l[e.at].t = t /\ l[e.at].x = x BY <1>2, <1>3, <2>1
  <2> QED BY <2>2 DEF Has
<1> QED BY <1>1, <1>4, <1>5 DEF Has, RecsOf

\* The order of the records over the journals.
LEMMA DecidedInOrderFromInv == Inv => DecidedInOrder
<1> SUFFICES ASSUME Inv, NEW x \in Xids PROVE PreparedAfterData(x) /\ CommitAfterDecision(x) BY DEF DecidedInOrder
<1>1. Types /\ QueueOrder(x) BY DEF Inv, TxnInv
<1>2. TPL \in Journals /\ \A q \in Queues : q \in Journals BY TplIsJournal
<1>3. \A o \in ops[x] : o.q \in Queues BY <1>1 DEF Types, OpType
<1>4. \A j \in Journals : log[j] \in Seq(LogRec) /\ cmpl[j] \in Nat BY <1>1 DEF Types
<1>5. \A j \in Journals : \A e \in RecsOf(j, x) : e.at \in Nat /\ e.at >= 1 /\ log[j][e.at] = e.is /\ e.is.x = x
  BY <1>4, RecsAre DEF RecsOf
<1>6. PreparedAfterData(x)
  <2> SUFFICES ASSUME Has(log[TPL], "enq", x), NEW o \in ops[x]
               PROVE  \E i \in 1 .. cmpl[o.q] : log[o.q][i] = Record(o.t, o.m, x, FALSE)
    BY DEF PreparedAfterData
  <2>1. HasIn(RecsOf(TPL, x), "enq") BY <1>1, <1>2, HasIs
  <2>2. PICK e \in RecsOf(o.q, x) : Does(e, o, x) /\ e.at <= cmpl[o.q] BY <1>1, <2>1 DEF QueueOrder
  <2>3. e.at \in 1 .. cmpl[o.q] /\ log[o.q][e.at] = e.is BY <1>2, <1>3, <1>4, <1>5, <2>2
  <2> QED BY <2>2, <2>3 DEF Does
<1>7. CommitAfterDecision(x)
  <2> SUFFICES ASSUME NEW q \in Queues, Has(log[q], "commit", x)
               PROVE  \E i \in 1 .. cmpl[TPL] : log[TPL][i].x = x /\ log[TPL][i].t = "deq" /\ log[TPL][i].flag
    BY DEF CommitAfterDecision
  <2>1. HasIn(RecsOf(q, x), "commit") BY <1>1, <1>2, HasIs
  <2>2. PICK e \in RecsOf(TPL, x) : e.is.t = "deq" /\ e.is.flag = TRUE /\ e.at <= cmpl[TPL] BY <1>1, <2>1 DEF QueueOrder, Decided
  <2>3. e.at \in 1 .. cmpl[TPL] /\ log[TPL][e.at] = e.is /\ e.is.x = x BY <1>2, <1>4, <1>5, <2>2
  <2> QED BY <2>2, <2>3
<1> QED BY <1>6, <1>7

\* A transaction whose commit record the prepared list has is committed everywhere.
LEMMA CommittedAll ==
    ASSUME Types, NEW x \in Xids, QueueOrder(x), HasIn(RecsOf(TPL, x), "commit")
    PROVE  \A q \in QueuesOf(x) : Committed(q, x)
<1> SUFFICES ASSUME NEW u \in ops[x] PROVE Committed(u.q, x) BY DEF QueuesOf
<1>1. u.q \in Journals BY TplIsJournal DEF Types, OpType
<1>2. PICK q \in Journals : q = u.q BY <1>1
<1>3. PICK e \in RecsOf(q, x) : e.is.t = "commit" BY <1>2 DEF QueueOrder
<1>4. q \in Queues BY <1>2 DEF Types, OpType
<1>5. \A o \in ops[x] : o.q = q => \E d \in RecsOf(q, x) : Does(d, o, x) /\ d.at < e.at BY <1>3, <1>4 DEF QueueOrder
<1>6. log[q] \in Seq(LogRec) BY DEF Types
<1>7. \A d \in RecsOf(q, x) : d.at \in 1 .. Len(log[q]) /\ d.at \in Nat /\ d.at >= 1 /\ log[q][d.at] = d.is /\ d.is.x = x
  BY <1>6, RecsAre DEF RecsOf
<1>8. e.at \in DOMAIN log[q] /\ log[q][e.at].t = "commit" /\ log[q][e.at].x = x BY <1>3, <1>6, <1>7, LenProperties
<1>9. ASSUME NEW o \in ops[x], o.q = q PROVE \E k \in 1 .. e.at - 1 : log[q][k] = Record(o.t, o.m, x, FALSE)
  <2>1. PICK d \in RecsOf(q, x) : Does(d, o, x) /\ d.at < e.at BY <1>5, <1>9
  <2>2. d.at \in 1 .. e.at - 1 /\ log[q][d.at] = d.is BY <1>7, <2>1
  <2> QED BY <2>1, <2>2 DEF Does
<1>10. Committed(q, x) BY <1>8, <1>9 DEF Committed
<1> QED BY <1>2, <1>10

\* A transaction without commits and entries is in no queue.
LEMMA UntouchedAll ==
    ASSUME Types, NEW x \in Xids, CommitFree(x), \A q \in Queues : HeldOf(q, x) = {}
    PROVE  \A q \in QueuesOf(x) : Untouched(q, x)
<1> SUFFICES ASSUME NEW q \in Queues PROVE Untouched(q, x)
  <2>1. \A o \in ops[x] : o.q \in Queues BY DEF Types, OpType
  <2> QED BY <2>1 DEF QueuesOf
<1>1. q \in Journals BY TplIsJournal
<1>2. maps[q].tmap[x] = <<>> BY <1>1, StateFacts
<1>3. ~Has(log[q], "commit", x) BY <1>1, HasIs DEF CommitFree
<1> QED BY <1>2, <1>3 DEF Untouched

\* A transaction nobody has asked recovery for: committed, or free of commits.
LEMMA NotEnlisted ==
    ASSUME Types, NEW x \in Xids, TxnInv(x), ~Enlisted(x), ~HasIn(RecsOf(TPL, x), "commit")
    PROVE  CommitFree(x)
<1>1. ListOrder(RecsOf(TPL, x)) /\ QueueOrder(x) BY DEF TxnInv
<1>2. TPL \in Journals BY TplIsJournal
<1>3. \A e \in RecsOf(TPL, x) : e.at \in Nat /\ e.is \in LogRec BY <1>2, StateFacts
<1>4. CASE RecsOf(TPL, x) = {}
  <2>1. ~Decided(x, TRUE) BY <1>4 DEF Decided
  <2> QED BY <1>1, <2>1 DEF QueueOrder, CommitFree
<1>5. CASE RecsOf(TPL, x) # {}
  <2>1. \A e \in RecsOf(TPL, x) : IsOp(e.is) \/ IsEnd(e.is) BY <1>3 DEF LogRec, RecordType, IsOp, IsEnd
  <2>2. \E d \in RecsOf(TPL, x) : IsEnd(d.is)
    <3> SUFFICES ASSUME \A d \in RecsOf(TPL, x) : ~IsEnd(d.is) PROVE FALSE OBVIOUS
    <3>1. OpenOps(RecsOf(TPL, x)) = RecsOf(TPL, x) BY <2>1 DEF OpenOps
    <3>2. \E e \in RecsOf(TPL, x) : e.is.t = "enq" BY <1>1, <1>5, <2>1 DEF ListOrder, IsOp
    <3> QED BY <3>1, <3>2 DEF Enlisted, HasIn
  <2>3. PICK d \in RecsOf(TPL, x) : IsEnd(d.is) /\ d.is.t # "commit" BY <2>2 DEF HasIn
  <2>4. PICK g \in RecsOf(TPL, x) : g.is.t = "deq" /\ ~g.is.flag BY <1>1, <2>3 DEF ListOrder
  <2>5. ~Decided(x, TRUE)
    <3> SUFFICES ASSUME NEW e \in RecsOf(TPL, x), e.is.t = "deq", e.is.flag = TRUE PROVE FALSE BY DEF Decided
    <3>1. e.is.flag = g.is.flag BY <1>1, <2>4 DEF ListOrder
    <3> QED BY <2>4, <3>1
  <2> QED BY <1>1, <2>5 DEF QueueOrder, CommitFree
<1> QED BY <1>4, <1>5

\* A transaction nobody works on is committed everywhere or nowhere.
LEMMA AllOrNothingFromInv == Inv => AllOrNothing
<1> SUFFICES ASSUME Inv, IsUp, NEW x \in Xids, ctx[x].pc \in {"done", "gone"}
             PROVE  \/ \A q \in QueuesOf(x) : Committed(q, x)
                    \/ \A q \in QueuesOf(x) : Untouched(q, x)
  BY DEF AllOrNothing
<1>1. Types /\ TxnInv(x) /\ QueueOrder(x) BY DEF Inv, TxnInv
<1>2. rec.phase = "up" BY DEF IsUp
<1>3. CASE HasIn(RecsOf(TPL, x), "commit") BY <1>1, <1>3, CommittedAll
<1>4. CASE ~HasIn(RecsOf(TPL, x), "commit") /\ ctx[x].pc = "done"
  <2>1. Stage(x) = "done" BY <1>4 DEF Stage, Waiting
  <2>2. CommitFree(x) /\ \A q \in Queues : HeldOf(q, x) = {} BY <1>1, <1>4, <2>1 DEF TxnInv, ProgressInv
  <2> QED BY <1>1, <2>2, UntouchedAll
<1>5. CASE ~HasIn(RecsOf(TPL, x), "commit") /\ ctx[x].pc = "gone"
  <2>1. Dropped(x) BY <1>2, <1>5 DEF Dropped
  <2>2. ~Enlisted(x) BY <1>1, <1>2, <2>1 DEF TxnInv, RecInv
  <2>3. CommitFree(x) BY <1>1, <1>5, <2>2, NotEnlisted
  <2>4. \A q \in Queues : HeldOf(q, x) = {} BY <1>1, <1>2, <2>1 DEF TxnInv, MapInv
  <2> QED BY <1>1, <2>3, <2>4, UntouchedAll
<1> QED BY <1>3, <1>4, <1>5

\* What the broker was told is what the journals hold.
LEMMA ToldHoldsFromInv == Inv => ToldHolds
<1> SUFFICES ASSUME Inv, IsUp, NEW x \in Xids
             PROVE  /\ told[x] = "committed" => \A q \in QueuesOf(x) : Committed(q, x)
                    /\ told[x] = "aborted" => \A q \in QueuesOf(x) : Untouched(q, x)
                    /\ told[x] = "prepared" => ctx[x].pc # "gone" \/ asked[x] # "none"
                    /\ told[x] = "prepared" /\ At(x, "prepared") => \A o \in ops[x] :
                          o.m \in (IF o.t = "enq" THEN EnqsOf(maps[o.q], x) ELSE DeqsOf(maps[o.q], x))
  BY DEF ToldHolds
<1>1. Types /\ TxnInv(x) /\ QueueOrder(x) /\ ToldInv(x) /\ ListOrder(RecsOf(TPL, x)) BY DEF Inv, TxnInv
<1>2. rec.phase = "up" BY DEF IsUp
<1>3. TPL \in Journals BY TplIsJournal
<1>4. \A e \in RecsOf(TPL, x) : e.at \in Nat /\ e.is \in LogRec BY <1>1, <1>3, StateFacts
<1>5. told[x] = "committed" => \A q \in QueuesOf(x) : Committed(q, x)
  <2> SUFFICES ASSUME told[x] = "committed" PROVE \A q \in QueuesOf(x) : Committed(q, x) OBVIOUS
  <2>1. HasIn(RecsOf(TPL, x), "commit") BY <1>1 DEF ToldInv, HasIn
  <2> QED BY <1>1, <2>1, CommittedAll
<1>6. told[x] = "aborted" => \A q \in QueuesOf(x) : Untouched(q, x)
  <2> SUFFICES ASSUME told[x] = "aborted" PROVE \A q \in QueuesOf(x) : Untouched(q, x) OBVIOUS
  <2>1. ctx[x].pc \in {"done", "gone"} BY <1>1, <1>2 DEF ToldInv
  <2>2. ~Decided(x, TRUE) /\ ~HasIn(RecsOf(TPL, x), "commit")
    <3>1. CASE RecsOf(TPL, x) = {} BY <3>1 DEF Decided, HasIn
    <3>2. CASE Decided(x, FALSE)
      <4>1. PICK g \in RecsOf(TPL, x) : g.is.t = "deq" /\ g.is.flag = FALSE BY <3>2 DEF Decided
      <4>2. \A e \in RecsOf(TPL, x) : e.is.t = "deq" => e.is.flag = FALSE BY <1>1, <4>1 DEF ListOrder
      <4>3. ASSUME HasIn(RecsOf(TPL, x), "commit") PROVE FALSE
        <5>1. PICK e \in RecsOf(TPL, x) : e.is.t = "commit" BY <4>3 DEF HasIn
        <5>2. \E d \in RecsOf(TPL, x) : d.is.t = "deq" /\ d.is.flag BY <1>1, <5>1 DEF ListOrder, IsEnd
        <5> QED BY <4>2, <5>2
      <4> QED BY <4>2, <4>3 DEF Decided
    <3> QED BY <1>1, <3>1, <3>2 DEF ToldInv
  <2>3. CommitFree(x) BY <1>1, <2>2 DEF QueueOrder, CommitFree
  <2>4. \A q \in Queues : HeldOf(q, x) = {}
    <3>1. CASE ctx[x].pc = "done"
      <4>1. Stage(x) = "done" BY <3>1 DEF Stage, Waiting
      <4> QED BY <1>1, <2>2, <4>1 DEF TxnInv, ProgressInv
    <3>2. CASE ctx[x].pc = "gone"
      <4>1. Dropped(x) BY <1>2, <3>2 DEF Dropped
      <4> QED BY <1>1, <1>2, <4>1 DEF TxnInv, MapInv
    <3> QED BY <2>1, <3>1, <3>2
  <2> QED BY <1>1, <2>3, <2>4, UntouchedAll
<1>7. told[x] = "prepared" => ctx[x].pc # "gone" \/ asked[x] # "none"
  <2> SUFFICES ASSUME told[x] = "prepared", ctx[x].pc = "gone", asked[x] = "none" PROVE FALSE OBVIOUS
  <2>1. /\ \E e \in RecsOf(TPL, x) : e.is.t = "enq"
        /\ \A e \in RecsOf(TPL, x) : e.is.t = "enq"
    BY <1>1 DEF ToldInv
  <2>2. Enlisted(x) BY <2>1 DEF Enlisted, HasIn, OpenOps, IsOp, IsEnd
  <2> QED BY <1>1, <1>2, <2>2 DEF TxnInv, RecInv, Dropped
<1>8. ASSUME At(x, "prepared"), NEW o \in ops[x]
      PROVE  o.m \in (IF o.t = "enq" THEN EnqsOf(maps[o.q], x) ELSE DeqsOf(maps[o.q], x))
  <2>1. ctx[x].pc = "prepared" /\ Stage(x) = "prepared" BY <1>8 DEF At, Stage, Waiting
  <2>2. ctx[x].prepared BY <1>1, <2>1 DEF TxnInv, ShapeInv
  <2>3. (\E e \in RecsOf(TPL, x) : e.is.t = "enq") /\ (\A e \in RecsOf(TPL, x) : e.is.t = "enq")
    BY <1>1, <2>1, <2>2 DEF TxnInv, ListStage
  <2>4. CommitFree(x) /\ \A q \in Queues : ~HasIn(RecsOf(q, x), "abort") BY <1>1, <2>3, NoEndsUndecided
  <2>5. o.q \in Queues /\ o.q \in Journals /\ o.t \in {"enq", "deq"} BY <1>1, TplIsJournal DEF Types, OpType
  <2>6. PICK e \in RecsOf(o.q, x) : Does(e, o, x) BY <1>1, <2>3 DEF QueueOrder, HasIn
  <2>7. e.is.t = o.t /\ e.is.m = o.m BY <2>6 DEF Does, Record
  <2>8. e \in OpenOps(RecsOf(o.q, x)) BY <2>4, <2>5, <2>6, <2>7 DEF OpenOps, IsOp, IsEnd, CommitFree, HasIn
  <2>9. Match(HeldOf(o.q, x), RecsOf(o.q, x), cmpl[o.q]) BY <1>1, <1>2, <2>1, <2>5, Matched
  <2>10. PICK t \in HeldOf(o.q, x) : Says(t, e, cmpl[o.q]) BY <2>8, <2>9 DEF Match
  <2>11. t.m = o.m /\ (t.enq <=> o.t = "enq") BY <2>7, <2>10 DEF Says
  <2>12. CASE o.t = "enq"
    <3>1. t \in {d \in Entries(maps[o.q], x) : d.enq} BY <2>10, <2>11, <2>12 DEF HeldOf
    <3> QED BY <2>11, <2>12, <3>1 DEF EnqsOf
  <2>13. CASE o.t = "deq"
    <3>1. t \in {d \in Entries(maps[o.q], x) : ~d.enq} BY <2>10, <2>11, <2>13 DEF HeldOf
    <3> QED BY <2>11, <2>13, <3>1 DEF DeqsOf
  <2> QED BY <2>5, <2>12, <2>13
<1> QED BY <1>5, <1>6, <1>7, <1>8

\* localPrepare() and completed() write the records of a transaction in the order
\* recovery relies on: no prepare record is even written before every operation is on
\* disk, and no commit record of a queue before the decision is.
THEOREM DecidedInOrderAlways == Spec => []DecidedInOrder
BY InvAlways, DecidedInOrderFromInv, PTL

\* Whenever the store is up, a transaction nobody works on any more is committed with
\* all its operations in every journal it touched or has left nothing in any, however
\* often the broker, or recovery itself, was interrupted.
THEOREM AllOrNothingAlways == Spec => []AllOrNothing
BY InvAlways, AllOrNothingFromInv, PTL

\* What the broker was told of a transaction holds whenever the store is up: a commit
\* is in every journal, an abort in none, and a prepared transaction is still there
\* with all its operations.
THEOREM ToldHoldsAlways == Spec => []ToldHolds
BY InvAlways, ToldHoldsFromInv, PTL

-----------------------------------------------------------------------------
(* The messages of a queue: what its log says of them, and what the broker *)
(* holds.                                                                  *)

\* The records of a log, with their positions.
AllOf(l) == {[at |-> i, is |-> l[i]] : i \in 1 .. Len(l)}
All(q) == AllOf(log[q])
\* One record more.
More(S, p, r) == S \cup {[at |-> p, is |-> r]}

\* An operation that took effect: outside a transaction, or in a committed one.
EndedBy(S, e, t) == \E c \in S : c.is.t = t /\ c.is.x = e.is.x /\ e.at < c.at
Effective(S, e) == e.is.x = NoXid \/ EndedBy(S, e, "commit")
OpAt(e, t, m) == e.is.t = t /\ e.is.m = m
Done(S, t) == {m \in Msgs : \E e \in S : OpAt(e, t, m) /\ Effective(S, e)}
\* The messages that are enqueued and not dequeued.
Live(S) == Done(S, "enq") \ Done(S, "deq")
\* The messages of the operations of x that no end follows.
OpenIn(S, x, t) == {m \in Msgs : \E e \in S :
    OpAt(e, t, m) /\ e.is.x = x /\ \A d \in S : d.is.x = x /\ IsEnd(d.is) => d.at < e.at}
Open(q, x, t) == OpenIn(All(q), x, t)

\* A log in order: a message is enqueued once, and dequeued after that took effect;
\* a transaction does not end both ways, and ends after its operations.
InOrder(S) ==
    /\ \A e \in S : IsOp(e.is) => e.is.m \in Msgs
    /\ \A e, d \in S : e.is.t = "enq" /\ OpAt(d, "enq", e.is.m) => e = d
    /\ \A d \in S : d.is.t = "deq" => \E e \in S :
          /\ OpAt(e, "enq", d.is.m) /\ e.at < d.at
          /\ e.is.x = NoXid \/ \E c \in S : c.is.t = "commit" /\ c.is.x = e.is.x /\ e.at < c.at /\ c.at < d.at
    /\ \A c, d \in S : ~(c.is.t = "commit" /\ d.is.t = "abort" /\ c.is.x = d.is.x)
    /\ \A e, c \in S : IsOp(e.is) /\ IsEnd(c.is) /\ c.is.x = e.is.x => e.at < c.at

\* What was enqueued in x may be dequeued: its commit is on disk in the prepared list.
Over(x) == /\ ctx[x].pc \in {"done", "gone"}
           /\ \E e \in RecsOf(TPL, x) : e.is.t = "commit" /\ e.at <= cmpl[TPL]
\* What was dequeued in x may be dequeued again: the broker was given it back, or
\* recovery found no prepare record of x.
Undone(x) == ctx[x].pc \in {"done", "gone"} \/ ctx[x].rcvd
Lost(x) == ctx[x].pc = "gone" /\ ~Enlisted(x)

Released(q) == \A d, e \in All(q) :
    d.is.t = "deq" /\ OpAt(e, "enq", d.is.m) /\ e.is.x # NoXid => Over(e.is.x)
\* Only one dequeue of a message takes effect: one before it was aborted or lost.
Rivals(q) == \A d, k \in All(q) : d.is.t = "deq" /\ OpAt(k, "deq", d.is.m) /\ d.at < k.at =>
    /\ d.is.x # NoXid
    /\ ~EndedBy(All(q), d, "commit")
    /\ \/ Lost(d.is.x)
       \/ /\ Undone(d.is.x)
          /\ \E c \in All(q) : c.is.t = "abort" /\ c.is.x = d.is.x /\ d.at < c.at /\ c.at < k.at
\* The records of a transaction are those of its operations.
Known(q) == \A e \in All(q) : IsOp(e.is) /\ e.is.x # NoXid => e.is.m \in OpsOn(q, e.is.x, e.is.t)

Rebuilt(q) == rec.phase \in {"txns", "up"} \/ (rec.phase = "queues" /\ q \notin rec.todo)
EmapInv(q) == Rebuilt(q) => maps[q].emap = Live(All(q))

\* What the broker may hold: the messages no open transaction is dequeuing.
Free(q) == Live(All(q)) \ UNION {Open(q, x, "deq") : x \in {y \in Xids : ~Dropped(y)}}
\* What the end of x gives it.
Ending(x) == Stage(x) \in {"close", "return"} \/ ctx[x].pc = "failed"
Due(q, x) == OpsOn(q, x, IF ctx[x].commit THEN "enq" ELSE "deq")
\* What recovery gives it, by the list.
Kept(q)  == {m \in Live(All(q)) :
                \A x \in rec.prep : m \in Open(q, x, "deq") => Completes(x) /\ ~rec.list[x].commit}
Coming(q) == UNION {Open(q, x, "enq") : x \in {y \in rec.prep : Completes(y) /\ rec.list[y].commit}}

AvailInv(q) ==
    /\ Rebuilt(q) /\ ~IsUp => avail[q] = Kept(q) \cup Coming(q)
    /\ IsUp => /\ avail[q] \subseteq Free(q)
               /\ \A m \in Free(q) \ avail[q] : \E x \in Xids : Ending(x) /\ m \in Due(q, x)
\* The broker holds nothing before the transactions that enqueued it, or were to
\* dequeue it, are over.
Given(q) == IsUp => \A e \in All(q) : e.is.x # NoXid /\ e.is.m \in avail[q] =>
    /\ e.is.t = "enq" => Over(e.is.x)
    /\ e.is.t = "deq" => Undone(e.is.x)

\* The log of a queue, and what the broker was given of it.
LogInv(q) == InOrder(All(q)) /\ Released(q) /\ Rivals(q) /\ Known(q)
QueueInv(q) == LogInv(q) /\ EmapInv(q) /\ AvailInv(q) /\ Given(q)

\* A transaction whose records are all there unless a crash took them; the end of one
\* that is done is on disk; one that recovery works on is ended as the list says.
LoggedInv(x) == ctx[x].pc # "gone" => \A o \in ops[x] : \E e \in RecsOf(o.q, x) : Does(e, o, x)
DoneInv(x) == ctx[x].pc = "done" => \A e \in RecsOf(TPL, x) : e.is.t = "commit" => e.at <= cmpl[TPL]
RcvdInv(x) ==
    /\ rec.phase = "txns" /\ ctx[x].pc \notin {"none", "gone"} =>
         /\ x \in rec.prep
         /\ IF Completes(x)
            THEN Stage(x) \in {"tplDeq", "close", "return", "done"} /\ ctx[x].commit = rec.list[x].commit /\ ctx[x].rcvd
            ELSE ctx[x].pc = "prepared" /\ ~ctx[x].rcvd
    /\ (rec.phase # "txns" \/ ctx[x].pc = "gone") /\ ctx[x].rcvd => ctx[x].pc = "done"

ThreadInv(x) == LoggedInv(x) /\ DoneInv(x) /\ RcvdInv(x)

Book == /\ avail \in [Queues -> SUBSET Msgs]
        /\ \A q \in Queues : QueueInv(q)
        /\ \A x \in Xids : ThreadInv(x)

-----------------------------------------------------------------------------
(* Logs.                                                                   *)

\* The records of a log are records, and those of a transaction are among them.
LEMMA AllAre ==
    ASSUME NEW l \in Seq(LogRec)
    PROVE  /\ \A e \in AllOf(l) : e.at \in Nat /\ e.at <= Len(l) /\ e.is \in LogRec /\ e = [at |-> e.at, is |-> e.is]
           /\ \A e, d \in AllOf(l) : e.at = d.at => e = d
           /\ \A x \in Xids : Recs(l, x) = {e \in AllOf(l) : e.is.x = x}
           /\ Later(AllOf(l), Len(l) + 1)
<1>1. Len(l) \in Nat /\ \A i \in 1 .. Len(l) : l[i] \in LogRec /\ i \in Nat BY LenProperties
<1>2. \A e \in AllOf(l) : e.at \in 1 .. Len(l) /\ e.is = l[e.at] /\ e = [at |-> e.at, is |-> e.is] BY DEF AllOf
<1>3. \A x \in Xids : Recs(l, x) = {e \in AllOf(l) : e.is.x = x}
  <2> SUFFICES ASSUME NEW x \in Xids PROVE Recs(l, x) = {e \in AllOf(l) : e.is.x = x} OBVIOUS
  <2>1. ASSUME NEW e \in Recs(l, x) PROVE e \in AllOf(l) /\ e.is.x = x BY DEF Recs, AllOf
  <2>2. ASSUME NEW e \in AllOf(l), e.is.x = x PROVE e \in Recs(l, x) BY <1>2, <2>2 DEF Recs
  <2> QED BY <2>1, <2>2
<1>4. \A e \in AllOf(l) : e.at \in Nat /\ e.at <= Len(l) /\ e.at < Len(l) + 1 /\ e.is \in LogRec BY <1>1, <1>2
<1>5. \A e, d \in AllOf(l) : e.at = d.at => e = d
  <2> SUFFICES ASSUME NEW e \in AllOf(l), NEW d \in AllOf(l), e.at = d.at PROVE e = d OBVIOUS
  <2>1. e.is = d.is BY <1>2
  <2>2. e = [at |-> e.at, is |-> e.is] /\ d = [at |-> d.at, is |-> d.is] BY <1>2
  <2> QED BY <2>1, <2>2
<1> QED BY <1>2, <1>3, <1>4, <1>5 DEF Later

\* A record is appended.
LEMMA AllAppend ==
    ASSUME NEW l \in Seq(LogRec), NEW r \in LogRec
    PROVE  AllOf(Append(l, r)) = More(AllOf(l), Len(l) + 1, r)
<1> DEFINE k == Append(l, r)
<1>1. /\ Len(k) = Len(l) + 1 /\ k[Len(l) + 1] = r /\ Len(l) \in Nat
      /\ \A i \in 1 .. Len(l) : k[i] = l[i]
  BY LenProperties
<1>2. \A i : i \in 1 .. Len(k) <=> i \in 1 .. Len(l) \/ i = Len(l) + 1 BY <1>1
<1> HIDE DEF k
<1>3. ASSUME NEW e \in AllOf(k) PROVE e \in AllOf(l) \cup {[at |-> Len(l) + 1, is |-> r]}
  <2>1. PICK i \in 1 .. Len(k) : e = [at |-> i, is |-> k[i]] BY DEF AllOf
  <2>2. CASE i \in 1 .. Len(l) BY <1>1, <2>1, <2>2 DEF AllOf
  <2>3. CASE i = Len(l) + 1 BY <1>1, <2>1, <2>3
  <2> QED BY <1>2, <2>1, <2>2, <2>3
<1>4. ASSUME NEW e \in AllOf(l) PROVE e \in AllOf(k)
  <2>1. PICK i \in 1 .. Len(l) : e = [at |-> i, is |-> l[i]] BY DEF AllOf
  <2>2. i \in 1 .. Len(k) /\ k[i] = l[i] BY <1>1, <1>2, <2>1
  <2> QED BY <2>1, <2>2 DEF AllOf
<1>5. [at |-> Len(l) + 1, is |-> r] \in AllOf(k)
  <2>1. Len(l) + 1 \in 1 .. Len(k) BY <1>1
  <2> QED BY <1>1, <2>1 DEF AllOf
<1>6. AllOf(k) = AllOf(l) \cup {[at |-> Len(l) + 1, is |-> r]} BY <1>3, <1>4, <1>5
<1> QED BY <1>6 DEF k, More

\* What a crash leaves.
LEMMA AllCut ==
    ASSUME NEW l \in Seq(LogRec), NEW k \in Nat, k <= Len(l)
    PROVE  AllOf(SubSeq(l, 1, k)) = {e \in AllOf(l) : e.at <= k}
<1> DEFINE s == SubSeq(l, 1, k)
<1>1. Len(l) \in Nat BY LenProperties
<1>2. Len(s) = k /\ \A i \in 1 .. k : s[i] = l[i] BY <1>1, SubSeqProperties
<1> HIDE DEF s
<1>3. \A i \in 1 .. k : i \in 1 .. Len(l) BY <1>1
<1>4. ASSUME NEW e \in AllOf(s) PROVE e \in AllOf(l) /\ e.at <= k
  <2>1. PICK i \in 1 .. k : e = [at |-> i, is |-> s[i]] BY <1>2 DEF AllOf
  <2>2. e = [at |-> i, is |-> l[i]] /\ i \in 1 .. Len(l) BY <1>2, <1>3, <2>1
  <2>3. e.at = i BY <2>1
  <2> QED BY <2>2, <2>3 DEF AllOf
<1>5. ASSUME NEW e \in AllOf(l), e.at <= k PROVE e \in AllOf(s)
  <2>1. PICK i \in 1 .. Len(l) : e = [at |-> i, is |-> l[i]] BY DEF AllOf
  <2>2. i \in 1 .. k BY <1>1, <1>5, <2>1
  <2>3. e = [at |-> i, is |-> s[i]] BY <1>2, <2>1, <2>2
  <2> QED BY <1>2, <2>2, <2>3 DEF AllOf
<1>6. AllOf(s) = {e \in AllOf(l) : e.at <= k} BY <1>4, <1>5
<1> QED BY <1>6 DEF s

\* A log in order is still in order when its end is lost.
LEMMA InOrderCut ==
    ASSUME NEW S, \A e \in S : e.at \in Nat, InOrder(S), NEW k \in Nat
    PROVE  InOrder({e \in S : e.at <= k})
<1> DEFINE C == {e \in S : e.at <= k}
<1>1. \A e \in C : e \in S /\ e.at \in Nat /\ e.at <= k OBVIOUS
<1>2. \A e \in S, d \in C : e.at < d.at => e \in C OBVIOUS
<1> HIDE DEF C
<1>3. \A d \in C : d.is.t = "deq" => \E e \in C :
          /\ OpAt(e, "enq", d.is.m) /\ e.at < d.at
          /\ e.is.x = NoXid \/ \E c \in C : c.is.t = "commit" /\ c.is.x = e.is.x /\ e.at < c.at /\ c.at < d.at
  <2> SUFFICES ASSUME NEW d \in C, d.is.t = "deq"
               PROVE \E e \in C :
                  /\ OpAt(e, "enq", d.is.m) /\ e.at < d.at
                  /\ e.is.x = NoXid \/ \E c \in C : c.is.t = "commit" /\ c.is.x = e.is.x /\ e.at < c.at /\ c.at < d.at
    OBVIOUS
  <2>1. PICK e \in S : /\ OpAt(e, "enq", d.is.m) /\ e.at < d.at
                       /\ e.is.x = NoXid \/ \E c \in S : c.is.t = "commit" /\ c.is.x = e.is.x /\ e.at < c.at /\ c.at < d.at
    BY <1>1 DEF InOrder
  <2>2. e \in C BY <1>2, <2>1
  <2>3. \A c \in S : c.at < d.at => c \in C BY <1>2
  <2> QED BY <2>1, <2>2, <2>3
<1>4. InOrder(C) BY <1>1, <1>3 DEF InOrder
<1> QED BY <1>4 DEF C

-----------------------------------------------------------------------------
(* What a record does to the messages of a log.                            *)

\* The messages of the operations that took effect, one record later.
LEMMA DoneMore ==
    ASSUME NEW S, NEW r \in LogRec, NEW p \in Nat, Later(S, p), NEW t \in {"enq", "deq"},
           InOrder(More(S, p, r))
    PROVE  /\ r.t \notin {"enq", "deq", "commit"} => Done(More(S, p, r), t) = Done(S, t)
           /\ r.t \in {"enq", "deq"} /\ r.x # NoXid => Done(More(S, p, r), t) = Done(S, t)
           /\ r.t \in {"enq", "deq"} /\ r.x = NoXid => Done(More(S, p, r), t) = Done(S, t) \cup (IF r.t = t THEN {r.m} ELSE {})
           /\ r.t = "commit" => Done(More(S, p, r), t) = Done(S, t) \cup OpenIn(S, r.x, t)
<1>0. PICK S2 : S2 = More(S, p, r) OBVIOUS
<1>1. PICK n : n = [at |-> p, is |-> r] OBVIOUS
<1>2. n.at = p /\ n.is = r /\ S2 = S \cup {n} /\ InOrder(S2) BY <1>0, <1>1 DEF More
<1>3. \A e \in S : e.at \in Nat /\ e.at < n.at /\ ~(n.at < e.at) BY <1>2 DEF Later
<1>4. r.t # "commit" => \A e \in S : Effective(S2, e) <=> Effective(S, e) BY <1>2 DEF Effective, EndedBy
<1>5. r.t # "commit" /\ r.x # NoXid => ~Effective(S2, n) BY <1>2, <1>3 DEF Effective, EndedBy
<1>6. CASE r.t \notin {"enq", "deq", "commit"} BY <1>0, <1>2, <1>4, <1>6 DEF Done, OpAt
<1>7. CASE r.t \in {"enq", "deq"} /\ r.x # NoXid BY <1>0, <1>2, <1>4, <1>5, <1>7 DEF Done
<1>8. CASE r.t \in {"enq", "deq"} /\ r.x = NoXid
  <2>1. Effective(S2, n) BY <1>2, <1>8 DEF Effective
  <2>2. r.m \in Msgs BY <1>2, <1>8 DEF InOrder, IsOp
  <2>3. \A m \in Msgs : OpAt(n, t, m) <=> r.t = t /\ m = r.m BY <1>2 DEF OpAt
  <2> QED BY <1>0, <1>2, <1>4, <1>8, <2>1, <2>2, <2>3 DEF Done
<1>9. CASE r.t = "commit"
  <2>1. \A m \in Msgs : ~OpAt(n, t, m) BY <1>2, <1>9 DEF OpAt
  <2>2. \A e \in S : Effective(S2, e) <=> Effective(S, e) \/ e.is.x = r.x BY <1>2, <1>3, <1>9 DEF Effective, EndedBy
  <2>3. ASSUME NEW e \in S, NEW m \in Msgs, OpAt(e, t, m), e.is.x = r.x PROVE Effective(S, e) \/ m \in OpenIn(S, r.x, t)
    <3>1. CASE \A d \in S : d.is.x = r.x /\ IsEnd(d.is) => d.at < e.at BY <2>3, <3>1 DEF OpenIn
    <3>2. CASE \E d \in S : d.is.x = r.x /\ IsEnd(d.is) /\ ~(d.at < e.at)
      <4>1. PICK d \in S : d.is.x = r.x /\ IsEnd(d.is) /\ ~(d.at < e.at) BY <3>2
      <4>2. e.at < d.at BY <1>2, <2>3, <4>1 DEF InOrder, OpAt, IsOp
      <4>3. d.is.t = "commit" BY <1>2, <1>9, <4>1 DEF InOrder, IsEnd
      <4> QED BY <2>3, <4>1, <4>2, <4>3 DEF Effective, EndedBy
    <3> QED BY <3>1, <3>2
  <2>4. \A m \in OpenIn(S, r.x, t) : m \in Msgs /\ \E e \in S : OpAt(e, t, m) /\ e.is.x = r.x BY DEF OpenIn
  <2>5. Done(S, t) \subseteq Done(S2, t) BY <1>2, <2>2 DEF Done
  <2>6. OpenIn(S, r.x, t) \subseteq Done(S2, t) BY <1>2, <2>2, <2>4 DEF Done
  <2>7. Done(S2, t) \subseteq Done(S, t) \cup OpenIn(S, r.x, t)
    <3> SUFFICES ASSUME NEW m \in Done(S2, t) PROVE m \in Done(S, t) \cup OpenIn(S, r.x, t) OBVIOUS
    <3>1. PICK e \in S2 : m \in Msgs /\ OpAt(e, t, m) /\ Effective(S2, e) BY DEF Done
    <3>2. e \in S BY <1>2, <2>1, <3>1
    <3> QED BY <2>2, <2>3, <3>1, <3>2 DEF Done
  <2> QED BY <1>0, <1>9, <2>5, <2>6, <2>7
<1> QED BY <1>0, <1>6, <1>7, <1>8, <1>9

\* The open operations of a transaction, one record later.
LEMMA OpenMore ==
    ASSUME NEW S, NEW r \in LogRec, NEW p \in Nat, Later(S, p), NEW t \in {"enq", "deq"}, NEW x \in Xids,
           InOrder(More(S, p, r))
    PROVE  /\ r.x # x => OpenIn(More(S, p, r), x, t) = OpenIn(S, x, t)
           /\ r.x = x /\ IsOp(r) => OpenIn(More(S, p, r), x, t) = OpenIn(S, x, t) \cup (IF r.t = t THEN {r.m} ELSE {})
           /\ r.x = x /\ ~IsOp(r) => OpenIn(More(S, p, r), x, t) = {}
<1>0. PICK S2 : S2 = More(S, p, r) OBVIOUS
<1>1. PICK n : n = [at |-> p, is |-> r] OBVIOUS
<1>2. n.at = p /\ n.is = r /\ S2 = S \cup {n} /\ InOrder(S2) BY <1>0, <1>1 DEF More
<1>3. \A e \in S : e.at \in Nat /\ e.at < n.at /\ ~(n.at < e.at) BY <1>2 DEF Later
<1>4. CASE r.x # x BY <1>0, <1>2, <1>4 DEF OpenIn
<1>5. CASE r.x = x /\ IsOp(r)
  <2>1. ~IsEnd(r) BY <1>5 DEF IsOp, IsEnd
  <2>2. r.m \in Msgs BY <1>2, <1>5 DEF InOrder
  <2>3. \A m \in Msgs : OpAt(n, t, m) <=> r.t = t /\ m = r.m BY <1>2 DEF OpAt
  <2>4. \A d \in S2 : d.is.x = x /\ IsEnd(d.is) => d.at < n.at BY <1>2, <1>3, <2>1
  <2>5. \A m \in Msgs : m \in OpenIn(S2, x, t) <=> m \in OpenIn(S, x, t) \/ (r.t = t /\ m = r.m)
    BY <1>2, <1>5, <2>1, <2>3, <2>4 DEF OpenIn
  <2> QED BY <1>0, <1>5, <2>2, <2>5 DEF OpenIn
<1>6. CASE r.x = x /\ ~IsOp(r)
  <2>1. IsEnd(r) BY <1>6 DEF IsOp, IsEnd, LogRec, RecordType
  <2>2. \A m : ~OpAt(n, t, m) BY <1>2, <1>6 DEF OpAt, IsOp
  <2> QED BY <1>0, <1>2, <1>3, <1>6, <2>1, <2>2 DEF OpenIn
<1> QED BY <1>0, <1>4, <1>5, <1>6

\* In a log in order, what an open transaction has enqueued is not dequeued.
LEMMA OpenNotDequeued ==
    ASSUME NEW S, \A e \in S : e.at \in Nat, InOrder(S), NEW x \in Xids, NEW m \in OpenIn(S, x, "enq")
    PROVE  /\ \A d \in S : ~OpAt(d, "deq", m)
           /\ m \notin Done(S, "enq")
<1>1. PICK e \in S : /\ OpAt(e, "enq", m) /\ e.is.x = x
                     /\ \A d \in S : d.is.x = x /\ IsEnd(d.is) => d.at < e.at
  BY DEF OpenIn
<1>2. NoXid # x BY XidAssumption
<1>3. ~\E c \in S : c.is.t = "commit" /\ c.is.x = x /\ e.at < c.at
  <2>1. \A c \in S : c.is.t = "commit" => IsEnd(c.is) BY DEF IsEnd
  <2>2. \A c \in S : ~(c.at < e.at /\ e.at < c.at) OBVIOUS
  <2> QED BY <1>1, <2>1, <2>2
<1>4. \A d \in S : OpAt(d, "enq", m) => d = e BY <1>1 DEF InOrder, OpAt
<1>5. ASSUME NEW d \in S, OpAt(d, "deq", m) PROVE FALSE
  <2>1. PICK f \in S : /\ OpAt(f, "enq", m)
                       /\ f.is.x = NoXid \/ \E c \in S : c.is.t = "commit" /\ c.is.x = f.is.x /\ f.at < c.at
    BY <1>5 DEF InOrder, OpAt
  <2>2. f = e BY <1>4, <2>1
  <2> QED BY <1>1, <1>2, <1>3, <2>1, <2>2
<1>6. m \notin Done(S, "enq")
  <2> SUFFICES ASSUME NEW f \in S, OpAt(f, "enq", m), Effective(S, f) PROVE FALSE BY DEF Done
  <2>1. f = e BY <1>4
  <2> QED BY <1>1, <1>2, <1>3, <2>1 DEF Effective, EndedBy
<1> QED BY <1>5, <1>6

\* What a record does to the messages of enq_map.
LEMMA AfterEmap ==
    ASSUME NEW ms \in MapsOf, NEW r \in LogRec, NEW pos \in Nat
    PROVE  /\ r.t = "enq" /\ r.x = NoXid => After(ms, r, pos).emap = ms.emap \cup {r.m}
           /\ r.t = "deq" /\ r.x = NoXid => After(ms, r, pos).emap = ms.emap \ {r.m}
           /\ r.t \in {"enq", "deq"} /\ r.x \in Xids => After(ms, r, pos).emap = ms.emap
           /\ r.t = "abort" => After(ms, r, pos).emap = ms.emap
           /\ r.t = "commit" => After(ms, r, pos).emap = (ms.emap \cup EnqsOf(ms, r.x)) \ DeqsOf(ms, r.x)
<1>1. ms = [emap |-> ms.emap, lock |-> ms.lock, tmap |-> ms.tmap] BY DEF MapsOf
<1>2. r.x \in Xids => r.x # NoXid BY XidAssumption
<1>3. \A y, s : [ms EXCEPT !.tmap[y] = s].emap = ms.emap /\ [ms EXCEPT !.tmap[y] = s].lock = ms.lock BY <1>1
<1>4. CASE r.t = "enq" /\ r.x = NoXid
  <2>1. After(ms, r, pos) = AfterEnqueue(ms, r, pos) BY <1>4 DEF After
  <2>2. AfterEnqueue(ms, r, pos) = [ms EXCEPT !.emap = @ \cup {r.m}] BY <1>4 DEF AfterEnqueue
  <2>3. [ms EXCEPT !.emap = @ \cup {r.m}].emap = ms.emap \cup {r.m} BY <1>1
  <2> QED BY <1>2, <1>4, <2>1, <2>2, <2>3
<1>5. CASE r.t = "deq" /\ r.x = NoXid
  <2>1. After(ms, r, pos) = AfterDequeue(ms, r, pos) BY <1>5 DEF After
  <2>2. AfterDequeue(ms, r, pos) = [ms EXCEPT !.emap = @ \ {r.m}, !.lock = @ \ {r.m}] BY <1>5 DEF AfterDequeue
  <2>3. [ms EXCEPT !.emap = @ \ {r.m}, !.lock = @ \ {r.m}].emap = ms.emap \ {r.m} BY <1>1
  <2> QED BY <1>2, <1>5, <2>1, <2>2, <2>3
<1>6. CASE r.t \in {"enq", "deq"} /\ r.x \in Xids
  <2>1. InTxn(ms, r, pos).emap = ms.emap BY <1>3 DEF InTxn
  <2>2. \A L : [InTxn(ms, r, pos) EXCEPT !.lock = L].emap = InTxn(ms, r, pos).emap BY <1>1 DEF InTxn
  <2>3. AfterEnqueue(ms, r, pos) = InTxn(ms, r, pos) BY <1>2, <1>6 DEF AfterEnqueue
  <2>4. AfterDequeue(ms, r, pos).emap = InTxn(ms, r, pos).emap BY <1>2, <1>6, <2>2 DEF AfterDequeue
  <2> QED BY <1>2, <1>6, <2>1, <2>3, <2>4 DEF After
<1>7. CASE r.t = "abort" BY <1>1, <1>7 DEF After, AfterAbort
<1>8. CASE r.t = "commit" BY <1>1, <1>8 DEF After, AfterCommit
<1> QED BY <1>2, <1>4, <1>5, <1>6, <1>7, <1>8 DEF LogRec, RecordType

\* The entries of txn_map name the messages of the open operations.
LEMMA MatchMsgs ==
    ASSUME NEW Es, NEW S, NEW n, NEW x \in Xids, Match(Es, {e \in S : e.is.x = x}, n), \A e \in S : IsOp(e.is) => e.is.m \in Msgs
    PROVE  /\ {t.m : t \in {e \in Es : e.enq}} = OpenIn(S, x, "enq")
           /\ {t.m : t \in {e \in Es : ~e.enq}} = OpenIn(S, x, "deq")
<1> DEFINE T == {e \in S : e.is.x = x}
           ByEs(b) == {m \in Msgs : \E t \in Es : t.m = m /\ (t.enq <=> b)}
<1>1. \A e : e \in OpenOps(T) <=> /\ e \in S /\ e.is.x = x /\ IsOp(e.is)
                                  /\ \A d \in S : d.is.x = x /\ IsEnd(d.is) => d.at < e.at
  BY DEF OpenOps
<1>2. \A t \in Es : \E e \in OpenOps(T) : t.m = e.is.m /\ (t.enq <=> e.is.t = "enq")
  BY DEF Match, Says
<1>3. \A e \in OpenOps(T) : \E t \in Es : t.m = e.is.m /\ (t.enq <=> e.is.t = "enq")
  BY DEF Match, Says
<1> HIDE DEF T
<1>4. \A t \in Es : t.m \in Msgs BY <1>1, <1>2
<1>5. \A m : m \in OpenIn(S, x, "enq") <=> m \in Msgs /\ \E e \in OpenOps(T) : e.is.m = m /\ e.is.t = "enq"
  BY <1>1 DEF OpenIn, OpAt, IsOp
<1>6. \A m : m \in OpenIn(S, x, "deq") <=> m \in Msgs /\ \E e \in OpenOps(T) : e.is.m = m /\ e.is.t = "deq"
  BY <1>1 DEF OpenIn, OpAt, IsOp
<1>7. \A e \in OpenOps(T) : e.is.t = "deq" <=> ~(e.is.t = "enq") BY <1>1 DEF IsOp
<1>8. \A m : m \in {t.m : t \in {e \in Es : e.enq}} <=> m \in OpenIn(S, x, "enq")
  BY <1>2, <1>3, <1>4, <1>5
<1>9. \A m : m \in {t.m : t \in {e \in Es : ~e.enq}} <=> m \in OpenIn(S, x, "deq")
  BY <1>2, <1>3, <1>4, <1>6, <1>7
<1> QED BY <1>8, <1>9

\* enq_map stays the messages that are enqueued and not dequeued, record by record.
LEMMA EmapStep ==
    ASSUME NEW ms \in MapsOf, NEW r \in LogRec, NEW pos \in Nat, NEW S, NEW p \in Nat, Later(S, p), NEW n,
           InOrder(S), InOrder(More(S, p, r)), ms.emap = Live(S),
           r.x \in Xids => Match(Entries(ms, r.x), {e \in S : e.is.x = r.x}, n)
    PROVE  After(ms, r, pos).emap = Live(More(S, p, r))
<1>0. PICK S2 : S2 = More(S, p, r) OBVIOUS
<1>1. r.t \in {"enq", "deq", "abort", "commit"} /\ r.x \in Xids \cup {NoXid} BY DEF LogRec, RecordType
<1>2. r.t \in {"abort", "commit"} => r.x \in Xids BY DEF LogRec, IsOp
<1>3. r.x \in Xids => r.x # NoXid BY XidAssumption
<1>4. \A e \in S : e.at \in Nat /\ IsOp(e.is) => e.is.m \in Msgs BY DEF InOrder
<1>5. \A t \in {"enq", "deq"} :
         /\ r.t \notin {"enq", "deq", "commit"} => Done(S2, t) = Done(S, t)
         /\ r.t \in {"enq", "deq"} /\ r.x # NoXid => Done(S2, t) = Done(S, t)
         /\ r.t \in {"enq", "deq"} /\ r.x = NoXid => Done(S2, t) = Done(S, t) \cup (IF r.t = t THEN {r.m} ELSE {})
         /\ r.t = "commit" => Done(S2, t) = Done(S, t) \cup OpenIn(S, r.x, t)
  <2> SUFFICES ASSUME NEW t \in {"enq", "deq"}
               PROVE  /\ r.t \notin {"enq", "deq", "commit"} => Done(S2, t) = Done(S, t)
                      /\ r.t \in {"enq", "deq"} /\ r.x # NoXid => Done(S2, t) = Done(S, t)
                      /\ r.t \in {"enq", "deq"} /\ r.x = NoXid => Done(S2, t) = Done(S, t) \cup (IF r.t = t THEN {r.m} ELSE {})
                      /\ r.t = "commit" => Done(S2, t) = Done(S, t) \cup OpenIn(S, r.x, t)
    OBVIOUS
  <2> QED BY <1>0, DoneMore
<1>6. CASE r.t = "enq" /\ r.x = NoXid
  <2>1. r.m \notin Done(S, "deq")
    <3> SUFFICES ASSUME r.m \in Done(S, "deq") PROVE FALSE OBVIOUS
    <3>1. PICK d \in S : OpAt(d, "deq", r.m) BY DEF Done
    <3>2. PICK e \in S : OpAt(e, "enq", r.m) BY <3>1 DEF InOrder, OpAt
    <3>3. PICK k : k = [at |-> p, is |-> r] OBVIOUS
    <3>4. k.at = p /\ k.is = r BY <3>3
    <3>5. k = e BY <1>0, <1>6, <3>2, <3>3, <3>4 DEF InOrder, OpAt, More
    <3> QED BY <3>4, <3>5 DEF Later
  <2>2. Live(S2) = Live(S) \cup {r.m} BY <1>5, <1>6, <2>1 DEF Live
  <2> QED BY <1>0, <1>3, <1>6, <2>2, AfterEmap
<1>7. CASE r.t = "deq" /\ r.x = NoXid
  <2>1. Live(S2) = Live(S) \ {r.m} BY <1>5, <1>7 DEF Live
  <2> QED BY <1>0, <1>3, <1>7, <2>1, AfterEmap
<1>8. CASE r.t \in {"enq", "deq"} /\ r.x \in Xids
  <2>1. Live(S2) = Live(S) BY <1>3, <1>5, <1>8 DEF Live
  <2> QED BY <1>0, <1>3, <1>8, <2>1, AfterEmap
<1>9. CASE r.t = "abort"
  <2>1. Live(S2) = Live(S) BY <1>5, <1>9 DEF Live
  <2> QED BY <1>0, <1>3, <1>9, <2>1, AfterEmap
<1>10. CASE r.t = "commit"
  <2>1. PICK x \in Xids : x = r.x BY <1>2, <1>10
  <2>2. PICK Es : Es = Entries(ms, x) OBVIOUS
  <2>3. \A e \in S : IsOp(e.is) => e.is.m \in Msgs BY DEF InOrder
  <2>4. Match(Es, {e \in S : e.is.x = x}, n) BY <2>1, <2>2
  <2>5. /\ {t.m : t \in {e \in Es : e.enq}} = OpenIn(S, x, "enq")
        /\ {t.m : t \in {e \in Es : ~e.enq}} = OpenIn(S, x, "deq")
    BY <2>3, <2>4, MatchMsgs
  <2>6. EnqsOf(ms, x) = OpenIn(S, x, "enq") /\ DeqsOf(ms, x) = OpenIn(S, x, "deq") BY <2>2, <2>5 DEF EnqsOf, DeqsOf
  <2>7. \A m \in OpenIn(S, x, "enq") : m \notin Done(S, "deq")
    <3> SUFFICES ASSUME NEW m \in OpenIn(S, x, "enq") PROVE m \notin Done(S, "deq") OBVIOUS
    <3>1. \A e \in S : e.at \in Nat BY DEF Later
    <3>2. \A d \in S : ~OpAt(d, "deq", m) BY <3>1, OpenNotDequeued
    <3> QED BY <3>2 DEF Done
  <2>8. Live(S2) = (Live(S) \cup OpenIn(S, x, "enq")) \ OpenIn(S, x, "deq") BY <1>5, <1>10, <2>1, <2>7 DEF Live
  <2>9. After(ms, r, pos).emap = (ms.emap \cup EnqsOf(ms, r.x)) \ DeqsOf(ms, r.x) BY <1>10, AfterEmap
  <2> QED BY <1>0, <2>1, <2>6, <2>8, <2>9
<1> QED BY <1>1, <1>2, <1>6, <1>7, <1>8, <1>9, <1>10

\* enq_map of a replayed log in order.
LEMMA ReplayEmap ==
    ASSUME NEW l \in Seq(LogRec), InOrder(AllOf(l))
    PROVE  Replay(l).emap = Live(AllOf(l))
<1>1. Len(l) \in Nat BY LenProperties
<1>2. PICK f : /\ Replay(l) = f[Len(l)] /\ f[0] = NoMaps
               /\ \A n \in 0 .. Len(l) - 1 : f[n + 1] = After(f[n], l[n + 1], 0)
               /\ \A n \in 0 .. Len(l) : /\ f[n] \in MapsOf
                     /\ \A x \in Xids : Match(Entries(f[n], x), Recs(SubSeq(l, 1, n), x), Len(l))
  BY ReplaySteps
<1> DEFINE Upto(n) == {e \in AllOf(l) : e.at <= n}
           S == {n \in Nat : f[n].emap = Live(Upto(n))}
<1>3. /\ \A e \in AllOf(l) : e.at \in Nat /\ e.at <= Len(l) /\ e.is \in LogRec /\ e = [at |-> e.at, is |-> e.is]
      /\ \A x \in Xids : Recs(l, x) = {e \in AllOf(l) : e.is.x = x}
  BY AllAre
<1>4. \A e \in AllOf(l) : e.at \in 1 .. Len(l) /\ e.is = l[e.at] BY DEF AllOf
<1>5. 0 \in S
  <2>1. Upto(0) = {} BY <1>1, <1>4
  <2>2. Live({}) = {} BY DEF Live, Done
  <2>3. f[0].emap = {} BY <1>2 DEF NoMaps
  <2> QED BY <2>1, <2>2, <2>3
<1>6. ASSUME NEW n \in 0 .. Len(l) - 1, n \in S PROVE n + 1 \in S
  <2>1. n \in Nat /\ n + 1 \in Nat /\ n + 1 \in 1 .. Len(l) /\ n <= Len(l) /\ n \in 0 .. Len(l) /\ n + 1 \in 0 .. Len(l) BY <1>1
  <2>2. PICK r \in LogRec : r = l[n + 1] BY <2>1, LenProperties
  <2>3. PICK ms \in MapsOf : ms = f[n] BY <1>2, <2>1
  <2>4. f[n + 1] = After(ms, r, 0) BY <1>2, <2>2, <2>3
  <2>5. PICK A : A = Upto(n) OBVIOUS
  <2>6. PICK B : B = Upto(n + 1) OBVIOUS
  <2>7. B = A \cup {[at |-> n + 1, is |-> r]}
    <3>1. [at |-> n + 1, is |-> r] \in AllOf(l) BY <2>1, <2>2 DEF AllOf
    <3>2. \A e \in AllOf(l) : e.at <= n + 1 <=> e.at <= n \/ e.at = n + 1 BY <1>3, <2>1
    <3>3. \A e \in AllOf(l) : e.at = n + 1 => e = [at |-> n + 1, is |-> r] BY <1>3, <1>4, <2>2
    <3>4. [at |-> n + 1, is |-> r].at = n + 1 OBVIOUS
    <3>5. n + 1 <= n + 1 BY <2>1
    <3>6. \A e : e \in B <=> e \in AllOf(l) /\ e.at <= n + 1 BY <2>6
    <3>7. \A e : e \in A <=> e \in AllOf(l) /\ e.at <= n BY <2>5
    <3> QED BY <3>1, <3>2, <3>3, <3>4, <3>5, <3>6, <3>7
  <2>8. Later(A, n + 1) BY <1>3, <2>1, <2>5 DEF Later
  <2>9. InOrder(A) /\ InOrder(B)
    <3>1. \A k \in Nat : InOrder({e \in AllOf(l) : e.at <= k}) BY <1>3, InOrderCut
    <3> QED BY <2>1, <2>5, <2>6, <3>1
  <2>10. \A x \in Xids : Match(Entries(ms, x), {e \in A : e.is.x = x}, Len(l))
    <3> SUFFICES ASSUME NEW x \in Xids PROVE Match(Entries(ms, x), {e \in A : e.is.x = x}, Len(l)) OBVIOUS
    <3>1. Recs(SubSeq(l, 1, n), x) = {e \in Recs(l, x) : e.at <= n} BY <2>1, RecsCut
    <3>2. Recs(SubSeq(l, 1, n), x) = {e \in A : e.is.x = x} BY <1>3, <2>5, <3>1
    <3> QED BY <1>2, <2>1, <2>3, <3>2
  <2>11. ms.emap = Live(A) BY <1>6, <2>3, <2>5
  <2> HIDE DEF Upto
  <2>12. After(ms, r, 0).emap = Live(B)
    <3>1. PICK p \in Nat : p = n + 1 BY <2>1
    <3>2. Later(A, p) /\ B = More(A, p, r) BY <2>7, <2>8, <3>1 DEF More
    <3>3. PICK N : N = Len(l) OBVIOUS
    <3>4. r.x \in Xids => Match(Entries(ms, r.x), {e \in A : e.is.x = r.x}, N) BY <2>10, <3>3
    <3>5. 0 \in Nat OBVIOUS
    <3> QED BY <2>9, <2>11, <3>2, <3>4, <3>5, EmapStep
  <2> QED BY <2>1, <2>4, <2>6, <2>12
<1>7. \A n \in 0 .. Len(l) : n \in S
  <2> HIDE DEF S
  <2> QED BY <1>1, <1>5, <1>6, SetInduction
<1>8. f[Len(l)].emap = Live(Upto(Len(l))) BY <1>1, <1>7
<1>9. Upto(Len(l)) = AllOf(l) BY <1>3
<1> QED BY <1>2, <1>8, <1>9

-----------------------------------------------------------------------------
(* What a step leaves alone.                                               *)

\* What is over for a transaction stays over.
Keeps(x) ==
    /\ Over(x) => Over(x)'
    /\ Undone(x) /\ (IsUp \/ \E q \in Queues : HasIn(RecsOf(q, x), "abort")) => Undone(x)'
    /\ Lost(x) => Lost(x)'
    /\ \A q \in Queues, t \in {"enq", "deq"} : OpsOn(q, x, t) \subseteq OpsOn(q, x, t)'
\* A call that is about to give messages to the broker is still about to.
Stays(x) ==
    /\ ctx'[x].pc = "gone" <=> ctx[x].pc = "gone"
    /\ Ending(x) => Ending(x)' /\ ctx'[x].commit = ctx[x].commit

\* The records of a queue's journal.
LEMMA AllFacts ==
    ASSUME Types, NEW q \in Queues
    PROVE  /\ \A e \in All(q) : /\ e.at \in Nat /\ e.is \in LogRec /\ e.is.x \in Xids \cup {NoXid}
                                /\ e.is.t \in {"enq", "deq", "commit", "abort"}
           /\ \A x \in Xids : RecsOf(q, x) = {e \in All(q) : e.is.x = x}
           /\ Later(All(q), Len(log[q]) + 1) /\ Len(log[q]) \in Nat
           /\ log[q] \in Seq(LogRec) /\ maps[q] \in MapsOf /\ q \in Journals
<1>1. q \in Journals BY TplIsJournal
<1>2. log[q] \in Seq(LogRec) /\ maps[q] \in MapsOf BY <1>1 DEF Types
<1>3. Len(log[q]) \in Nat BY <1>2, LenProperties
<1>4. PICK l \in Seq(LogRec) : l = log[q] BY <1>2
<1>5. /\ \A e \in AllOf(l) : e.at \in Nat /\ e.is \in LogRec
      /\ \A x \in Xids : Recs(l, x) = {e \in AllOf(l) : e.is.x = x}
      /\ Later(AllOf(l), Len(l) + 1)
  BY AllAre
<1>6. \A r \in LogRec : r.x \in Xids \cup {NoXid} /\ r.t \in {"enq", "deq", "commit", "abort"} BY DEF LogRec, RecordType
<1> QED BY <1>1, <1>2, <1>3, <1>4, <1>5, <1>6 DEF All, RecsOf

\* A record written to the journal of a queue.
LEMMA WriteAll ==
    ASSUME Types, NEW q \in Queues, NEW r \in LogRec, Write(q, r)
    PROVE  /\ All(q)' = More(All(q), Len(log[q]) + 1, r)
           /\ maps'[q] = After(maps[q], r, Len(log[q]) + 1)
           /\ \A j \in Journals : j # q => log'[j] = log[j] /\ maps'[j] = maps[j]
           /\ log'[TPL] = log[TPL] /\ cmpl' = cmpl
<1>1. q \in Journals /\ TPL \in Journals /\ TPL # q BY TplIsJournal
<1>2. log \in [Journals -> Seq(LogRec)] /\ maps \in [Journals -> MapsOf] BY DEF Types
<1>3. log'[q] = Append(log[q], r) /\ maps'[q] = After(maps[q], r, Len(log[q]) + 1) BY <1>1, <1>2 DEF Write
<1>4. \A j \in Journals : j # q => log'[j] = log[j] /\ maps'[j] = maps[j] BY <1>2 DEF Write
<1>5. cmpl' = cmpl BY DEF Write
<1>6. PICK l \in Seq(LogRec) : l = log[q] BY <1>1, <1>2
<1>7. AllOf(Append(l, r)) = More(AllOf(l), Len(l) + 1, r) BY AllAppend
<1>8. All(q)' = More(All(q), Len(log[q]) + 1, r) BY <1>3, <1>6, <1>7 DEF All
<1> QED BY <1>1, <1>3, <1>4, <1>5, <1>8

\* A record written to the prepared list.
LEMMA WriteTpl ==
    ASSUME Types, NEW r \in LogRec, Write(TPL, r)
    PROVE  \A q \in Queues : log'[q] = log[q] /\ maps'[q] = maps[q]
<1>1. \A q \in Queues : q \in Journals /\ q # TPL BY TplIsJournal
<1>2. log \in [Journals -> Seq(LogRec)] /\ maps \in [Journals -> MapsOf] BY DEF Types
<1> QED BY <1>1, <1>2 DEF Write

\* A step that leaves a transaction alone.
LEMMA QuietStays ==
    ASSUME Types, Types', NEW x \in Xids, Quiet(x)
    PROVE  Keeps(x) /\ Stays(x)
<1>1. TPL \in Journals BY TplIsJournal
<1>2. /\ RecsOf(TPL, x)' = RecsOf(TPL, x) /\ cmpl[TPL] <= cmpl'[TPL] /\ ctx'[x] = ctx[x] /\ ops'[x] = ops[x]
  BY <1>1 DEF Quiet
<1>3. cmpl[TPL] \in Nat /\ cmpl'[TPL] \in Nat BY <1>1 DEF Types
<1>4. \A e \in RecsOf(TPL, x) : e.at \in Nat BY <1>1, StateFacts
<1>5. \A e \in RecsOf(TPL, x) : e.at <= cmpl[TPL] => e.at <= cmpl'[TPL] BY <1>2, <1>3, <1>4
<1>6. Over(x) => Over(x)' BY <1>2, <1>5 DEF Over
<1>7. Undone(x)' = Undone(x) BY <1>2 DEF Undone
<1>8. Lost(x)' = Lost(x) BY <1>2 DEF Lost, Enlisted
<1>9. \A q \in Queues, t \in {"enq", "deq"} : OpsOn(q, x, t)' = OpsOn(q, x, t) BY <1>2 DEF OpsOn
<1>10. Stage(x)' = Stage(x) BY <1>2 DEF Stage, Waiting
<1>11. Stays(x) BY <1>2, <1>10 DEF Stays, Ending
<1> QED BY <1>6, <1>7, <1>8, <1>9, <1>11 DEF Keeps

\* A step of the thread of a transaction that is not done.
LEMMA WorkStays ==
    ASSUME NEW x \in Xids, ctx[x].pc \notin {"done", "gone"}, ctx'[x].pc # "gone", ctx'[x].rcvd = ctx[x].rcvd,
           \A q \in Queues, t \in {"enq", "deq"} : OpsOn(q, x, t) \subseteq OpsOn(q, x, t)'
    PROVE  Keeps(x)
<1>1. ~Over(x) /\ ~Lost(x) BY DEF Over, Lost
<1>2. Undone(x) => Undone(x)' BY DEF Undone
<1> QED BY <1>1, <1>2 DEF Keeps

\* The log of a queue that nothing is written to.
LEMMA LogKept ==
    ASSUME Types, NEW q \in Queues, log'[q] = log[q], \A x \in Xids : Keeps(x), LogInv(q)
    PROVE  LogInv(q)'
<1>1. All(q)' = All(q) BY DEF All
<1>2. /\ \A e \in All(q) : e.is.x \in Xids \cup {NoXid}
      /\ \A x \in Xids : RecsOf(q, x) = {e \in All(q) : e.is.x = x}
  BY AllFacts
<1>3. PICK S : S = All(q) OBVIOUS
<1>4. InOrder(All(q))' BY <1>1 DEF LogInv, InOrder, OpAt, IsOp, IsEnd
<1>5. Released(q)'
  <2>1. \A x \in Xids : Over(x) => Over(x)' BY DEF Keeps
  <2>2. \A d, e \in S : d.is.t = "deq" /\ OpAt(e, "enq", d.is.m) /\ e.is.x # NoXid => Over(e.is.x)
    BY <1>3 DEF LogInv, Released
  <2>3. \A d, e \in S : d.is.t = "deq" /\ OpAt(e, "enq", d.is.m) /\ e.is.x # NoXid => Over(e.is.x)'
    BY <1>2, <1>3, <2>1, <2>2
  <2> QED BY <1>1, <1>3, <2>3 DEF Released, OpAt
<1>6. Rivals(q)'
  <2> SUFFICES ASSUME NEW d \in S, NEW k \in S, d.is.t = "deq" /\ OpAt(k, "deq", d.is.m) /\ d.at < k.at
               PROVE  /\ d.is.x # NoXid
                      /\ ~EndedBy(S, d, "commit")
                      /\ \/ Lost(d.is.x)'
                         \/ /\ Undone(d.is.x)'
                            /\ \E c \in S : c.is.t = "abort" /\ c.is.x = d.is.x /\ d.at < c.at /\ c.at < k.at
    BY <1>1, <1>3 DEF Rivals, OpAt, EndedBy
  <2>1. /\ d.is.x # NoXid
        /\ ~EndedBy(S, d, "commit")
        /\ \/ Lost(d.is.x)
           \/ /\ Undone(d.is.x)
              /\ \E c \in S : c.is.t = "abort" /\ c.is.x = d.is.x /\ d.at < c.at /\ c.at < k.at
    BY <1>3 DEF LogInv, Rivals
  <2>2. PICK x \in Xids : x = d.is.x BY <1>2, <1>3, <2>1
  <2>3. Lost(x) => Lost(x)' BY DEF Keeps
  <2>4. ASSUME NEW c \in S, c.is.t = "abort" /\ c.is.x = d.is.x /\ Undone(x) PROVE Undone(x)'
    <3>1. HasIn(RecsOf(q, x), "abort") BY <1>2, <1>3, <2>2, <2>4 DEF HasIn
    <3> QED BY <2>4, <3>1 DEF Keeps
  <2> QED BY <2>1, <2>2, <2>3, <2>4
<1>7. Known(q)'
  <2>1. \A x \in Xids : OpsOn(q, x, "enq") \subseteq OpsOn(q, x, "enq")' /\ OpsOn(q, x, "deq") \subseteq OpsOn(q, x, "deq")'
    BY DEF Keeps
  <2>2. ASSUME NEW e \in S, IsOp(e.is) /\ e.is.x # NoXid PROVE e.is.m \in OpsOn(q, e.is.x, e.is.t)'
    <3>1. PICK x \in Xids : x = e.is.x BY <1>2, <1>3, <2>2
    <3>2. e.is.m \in OpsOn(q, x, e.is.t) BY <1>3, <2>2, <3>1 DEF LogInv, Known
    <3>3. CASE e.is.t = "enq" BY <2>1, <3>1, <3>2, <3>3
    <3>4. CASE e.is.t = "deq" BY <2>1, <3>1, <3>2, <3>4
    <3> QED BY <2>2, <3>3, <3>4 DEF IsOp
  <2> QED BY <1>1, <1>3, <2>2 DEF Known, IsOp
<1> QED BY <1>4, <1>5, <1>6, <1>7 DEF LogInv

\* The messages of enq_map when a record is written.
LEMMA EmapWrite ==
    ASSUME Types, NEW q \in Queues, NEW r \in LogRec, Write(q, r), Rebuilt(q), EmapInv(q), InOrder(All(q)), InOrder(All(q)'),
           r.x \in Xids => Match(HeldOf(q, r.x), RecsOf(q, r.x), cmpl[q])
    PROVE  maps'[q].emap = Live(All(q)')
<1>1. /\ Later(All(q), Len(log[q]) + 1) /\ Len(log[q]) \in Nat
      /\ maps[q] \in MapsOf
      /\ \A x \in Xids : RecsOf(q, x) = {e \in All(q) : e.is.x = x}
  BY AllFacts
<1>2. All(q)' = More(All(q), Len(log[q]) + 1, r) /\ maps'[q] = After(maps[q], r, Len(log[q]) + 1) BY WriteAll
<1>3. PICK S : S = All(q) OBVIOUS
<1>4. PICK ms \in MapsOf : ms = maps[q] BY <1>1
<1>5. PICK p \in Nat : p = Len(log[q]) + 1 BY <1>1
<1>6. PICK n : n = cmpl[q] OBVIOUS
<1>7. r.x \in Xids => Match(Entries(ms, r.x), {e \in S : e.is.x = r.x}, n) BY <1>1, <1>3, <1>4, <1>6 DEF HeldOf
<1>8. ms.emap = Live(S) BY <1>3, <1>4 DEF EmapInv
<1>9. Later(S, p) /\ InOrder(S) /\ InOrder(More(S, p, r)) BY <1>1, <1>2, <1>3, <1>5
<1>10. After(ms, r, p).emap = Live(More(S, p, r)) BY <1>7, <1>8, <1>9, EmapStep
<1> QED BY <1>2, <1>3, <1>4, <1>5, <1>10

\* A queue that a step leaves alone.
LEMMA QueueSame ==
    ASSUME Types, NEW q \in Queues, log'[q] = log[q], maps'[q] = maps[q], avail'[q] = avail[q], rec' = rec,
           \A x \in Xids : Keeps(x) /\ Stays(x), QueueInv(q)
    PROVE  QueueInv(q)'
<1>1. All(q)' = All(q) BY DEF All
<1>2. \A e \in All(q) : e.is.x \in Xids \cup {NoXid} BY AllFacts
<1>3. LogInv(q)' BY LogKept DEF QueueInv
<1>4. Rebuilt(q)' = Rebuilt(q) /\ IsUp' = IsUp BY DEF Rebuilt, IsUp
<1>5. \A S : Live(S)' = Live(S) BY DEF Live, Done, Effective, EndedBy, OpAt
<1>6. Live(All(q))' = Live(All(q)) BY <1>1
<1>7. EmapInv(q)' BY <1>4, <1>6 DEF QueueInv, EmapInv
<1>8. \A x, t : Open(q, x, t)' = Open(q, x, t) BY <1>1 DEF Open
<1>9. \A x \in Xids : Dropped(x)' = Dropped(x) BY DEF Stays, Dropped
<1>10. Kept(q)' = Kept(q) /\ Coming(q)' = Coming(q) BY <1>6, <1>8 DEF Kept, Coming, Completes
<1>11. Free(q)' = Free(q)
  <2>1. {y \in Xids : ~Dropped(y)'} = {y \in Xids : ~Dropped(y)} BY <1>9
  <2> QED BY <1>6, <1>8, <2>1 DEF Free
<1>12. ASSUME NEW x \in Xids, Ending(x), NEW m, m \in Due(q, x) PROVE Ending(x)' /\ m \in Due(q, x)'
  <2>1. Ending(x)' /\ ctx'[x].commit = ctx[x].commit BY <1>12 DEF Stays
  <2>2. OpsOn(q, x, "enq") \subseteq OpsOn(q, x, "enq")' /\ OpsOn(q, x, "deq") \subseteq OpsOn(q, x, "deq")' BY DEF Keeps
  <2> QED BY <1>12, <2>1, <2>2 DEF Due
<1>13. AvailInv(q)' BY <1>4, <1>10, <1>11, <1>12 DEF QueueInv, AvailInv
<1>14. Given(q)'
  <2> SUFFICES ASSUME IsUp, NEW e \in All(q), e.is.x # NoXid, e.is.m \in avail[q]
               PROVE (e.is.t = "enq" => Over(e.is.x)') /\ (e.is.t = "deq" => Undone(e.is.x)')
    BY <1>1, <1>4 DEF Given
  <2>1. PICK x \in Xids : x = e.is.x BY <1>2
  <2>2. (e.is.t = "enq" => Over(x)) /\ (e.is.t = "deq" => Undone(x)) BY <2>1 DEF QueueInv, Given
  <2>3. (Over(x) => Over(x)') /\ (Undone(x) => Undone(x)') BY DEF Keeps
  <2> QED BY <2>1, <2>2, <2>3
<1> QED BY <1>3, <1>7, <1>13, <1>14 DEF QueueInv

-----------------------------------------------------------------------------
(* Steps that leave the queues alone.                                      *)

\* A transaction that a step leaves alone.
LEMMA QuietThread ==
    ASSUME Types, Types', NEW x \in Xids, ThreadInv(x), Quiet(x)
    PROVE  ThreadInv(x)'
<1>1. TPL \in Journals /\ \A o \in ops[x] : o.q \in Journals
  BY TplIsJournal DEF Types, OpType
<1>2. /\ \A j \in Journals : RecsOf(j, x)' = RecsOf(j, x) /\ cmpl[j] <= cmpl'[j]
      /\ ctx'[x] = ctx[x] /\ ops'[x] = ops[x]
      /\ rec'.phase = rec.phase /\ rec'.prep = rec.prep /\ rec'.list = rec.list
  BY DEF Quiet
<1>3. cmpl[TPL] \in Nat /\ cmpl'[TPL] \in Nat BY <1>1 DEF Types
<1>4. \A e \in RecsOf(TPL, x) : e.at \in Nat BY <1>1, StateFacts
<1>5. \A e \in RecsOf(TPL, x) : e.at <= cmpl[TPL] => e.at <= cmpl'[TPL] BY <1>1, <1>2, <1>3, <1>4
<1>6. LoggedInv(x)' BY <1>1, <1>2 DEF ThreadInv, LoggedInv, Does
<1>7. DoneInv(x)' BY <1>1, <1>2, <1>5 DEF ThreadInv, DoneInv
<1>8. RcvdInv(x)' BY <1>2 DEF ThreadInv, RcvdInv, Completes, Stage, Waiting
<1> QED BY <1>6, <1>7, <1>8 DEF ThreadInv

\* Steps that touch no queue.
LEMMA StepSame ==
    ASSUME Types, Types', Book, \A q \in Queues : log'[q] = log[q] /\ maps'[q] = maps[q], avail' = avail, rec' = rec,
           \A x \in Xids : Quiet(x) \/ (Keeps(x) /\ Stays(x) /\ ThreadInv(x)')
    PROVE  Book'
<1>1. \A x \in Xids : Keeps(x) /\ Stays(x) BY QuietStays
<1>2. \A x \in Xids : ThreadInv(x)' BY QuietThread DEF Book
<1>3. \A q \in Queues : QueueInv(q)' BY <1>1, QueueSame DEF Book
<1> QED BY <1>2, <1>3 DEF Book

\* A step of the thread of transaction x that writes to no queue and does not end it.
LEMMA ThreadWork ==
    ASSUME Types, NEW x \in Xids, ThreadInv(x), rec' = rec, ops'[x] = ops[x],
           \A q \in Queues : RecsOf(q, x)' = RecsOf(q, x),
           ctx[x].pc \notin {"done", "gone"}, ctx'[x].pc \notin {"done", "gone"}, ctx'[x].rcvd = ctx[x].rcvd,
           rec.phase = "txns" => /\ ctx[x].pc \notin {"none", "prepared"} /\ ctx'[x].commit = ctx[x].commit
                                 /\ Stage(x)' \in {"tplDeq", "close", "return"},
           Ending(x) => Ending(x)' /\ ctx'[x].commit = ctx[x].commit
    PROVE  Keeps(x) /\ Stays(x) /\ ThreadInv(x)'
<1>1. \A q \in Queues, t \in {"enq", "deq"} : OpsOn(q, x, t)' = OpsOn(q, x, t) BY DEF OpsOn
<1>2. Keeps(x) BY <1>1, WorkStays
<1>3. Stays(x) BY DEF Stays
<1>4. \A o \in ops[x] : o.q \in Queues BY DEF Types, OpType
<1>5. LoggedInv(x)' BY <1>4 DEF ThreadInv, LoggedInv, Does
<1>6. DoneInv(x)' BY DEF DoneInv
<1>7. RcvdInv(x)'
  <2>1. CASE rec.phase = "txns"
    <3>1. x \in rec.prep /\ Completes(x) /\ ctx[x].commit = rec.list[x].commit /\ ctx[x].rcvd
      BY <2>1 DEF ThreadInv, RcvdInv
    <3> QED BY <2>1, <3>1 DEF RcvdInv, Completes
  <2>2. CASE rec.phase # "txns" BY <2>2 DEF ThreadInv, RcvdInv
  <2> QED BY <2>1, <2>2
<1> QED BY <1>2, <1>3, <1>5, <1>6, <1>7 DEF ThreadInv

\* A step of a thread that touches no queue.
LEMMA WorkSame ==
    ASSUME Types, Types', Book, NEW x \in Xids, \A y \in Xids : y # x => Quiet(y), avail' = avail, rec' = rec, ops' = ops,
           \A q \in Queues : log'[q] = log[q] /\ maps'[q] = maps[q],
           ctx[x].pc \notin {"done", "gone"}, ctx'[x].pc \notin {"done", "gone"}, ctx'[x].rcvd = ctx[x].rcvd,
           rec.phase = "txns" => /\ ctx[x].pc \notin {"none", "prepared"} /\ ctx'[x].commit = ctx[x].commit
                                 /\ Stage(x)' \in {"tplDeq", "close", "return"},
           Ending(x) => Ending(x)' /\ ctx'[x].commit = ctx[x].commit
    PROVE  Book'
<1>1. \A q \in Queues : RecsOf(q, x)' = RecsOf(q, x) BY DEF RecsOf
<1>2. ThreadInv(x) BY DEF Book
<1>3. Keeps(x) /\ Stays(x) /\ ThreadInv(x)' BY <1>1, <1>2, ThreadWork
<1>4. \A y \in Xids : Quiet(y) \/ (Keeps(y) /\ Stays(y) /\ ThreadInv(y)') BY <1>3
<1> QED BY <1>4, StepSame

\* A transaction in recovery that somebody works on.
LEMMA RcvdWork ==
    ASSUME Types, NEW x \in Xids, ThreadInv(x), rec.phase = "txns", ctx[x].pc \notin {"none", "gone", "prepared"}
    PROVE  Stage(x) \in {"tplDeq", "close", "return", "done"} /\ ctx[x].rcvd /\ x \in rec.prep /\ Completes(x)
BY DEF ThreadInv, RcvdInv

\* Syncs.
LEMMA SyncsBook ==
    ASSUME Types, Types', Book, \A x \in Xids : TxnInv(x), NEW x \in Xids, Flush(x) \/ Sync(x) \/ SyncTimeout(x)
    PROVE  Book'
<1>1. \A y \in Xids : y # x => Quiet(y) BY FlushKeeps, SyncKeeps, SyncTimeoutKeeps
<1>2. ctx \in [Xids -> CtxType] /\ ShapeInv(x) BY DEF Types, TxnInv
<1>3. ThreadInv(x) BY DEF Book
<1>4. log' = log /\ maps' = maps /\ avail' = avail /\ rec' = rec /\ ops' = ops
  BY DEF Flush, Sync, SyncTimeout, jrnlVars, histVars
<1>5. Waiting(x) /\ ctx[x].pc \notin {"done", "gone", "none", "prepared", "failed"} /\ ctx[x].then \in {"tplEnq", "prepared", "tplDeq", "close", "return"}
  BY <1>2 DEF Flush, Sync, SyncTimeout, At, Waiting, ShapeInv, CtxType
<1>6. Stage(x) = ctx[x].then BY <1>5 DEF Stage
<1>7. rec.phase = "txns" => Stage(x) \in {"tplDeq", "close", "return"} BY <1>3, <1>5, <1>6, RcvdWork
<1>8. CASE Flush(x)
  <2>1. ctx'[x] = [ctx[x] EXCEPT !.pc = "sync"] BY <1>2, <1>8 DEF Flush, Goto
  <2>2. ctx[x] \in CtxType BY <1>2
  <2>3. ctx'[x].pc = "sync" /\ ctx'[x].then = ctx[x].then /\ ctx'[x].rcvd = ctx[x].rcvd /\ ctx'[x].commit = ctx[x].commit
    BY <2>1, <2>2 DEF CtxType
  <2>4. Stage(x)' = ctx[x].then BY <2>3 DEF Stage, Waiting
  <2>5. Ending(x) => Ending(x)' BY <1>5, <1>6, <2>4 DEF Ending
  <2>6. rec.phase = "txns" => Stage(x)' \in {"tplDeq", "close", "return"} BY <1>6, <1>7, <2>4
  <2>7. ctx'[x].pc \notin {"done", "gone"} BY <1>5, <2>3
  <2>8. \A q \in Queues : log'[q] = log[q] /\ maps'[q] = maps[q] BY <1>4
  <2> QED BY <1>1, <1>4, <1>5, <2>3, <2>5, <2>6, <2>7, <2>8, WorkSame
<1>9. CASE Sync(x)
  <2>1. ctx'[x] = [ctx[x] EXCEPT !.pc = ctx[x].then] BY <1>2, <1>9 DEF Sync, Goto
  <2>2. ctx[x] \in CtxType BY <1>2
  <2>3. ctx'[x].pc = ctx[x].then /\ ctx'[x].rcvd = ctx[x].rcvd /\ ctx'[x].commit = ctx[x].commit
    BY <2>1, <2>2 DEF CtxType
  <2>4. Stage(x)' = ctx[x].then BY <1>5, <2>3 DEF Stage, Waiting
  <2>5. Ending(x) => Ending(x)' BY <1>5, <1>6, <2>4 DEF Ending
  <2>6. rec.phase = "txns" => Stage(x)' \in {"tplDeq", "close", "return"} BY <1>6, <1>7, <2>4
  <2>7. ctx'[x].pc \notin {"done", "gone"} BY <1>5, <2>3
  <2>8. \A q \in Queues : log'[q] = log[q] /\ maps'[q] = maps[q] BY <1>4
  <2> QED BY <1>1, <1>4, <1>5, <2>3, <2>5, <2>6, <2>7, <2>8, WorkSame
<1>10. CASE SyncTimeout(x)
  <2>1. ctx'[x] = [ctx[x] EXCEPT !.pc = "failed"] /\ rec.phase = "up" BY <1>2, <1>10 DEF SyncTimeout, Goto, IsUp
  <2>2. ctx[x] \in CtxType BY <1>2
  <2>3. ctx'[x].pc = "failed" /\ ctx'[x].rcvd = ctx[x].rcvd /\ ctx'[x].commit = ctx[x].commit
    BY <2>1, <2>2 DEF CtxType
  <2> QED BY <1>1, <1>4, <1>5, <2>1, <2>3, WorkSame DEF Ending
<1> QED BY <1>8, <1>9, <1>10

\* begin().
LEMMA BeginBook ==
    ASSUME Types, Types', Book, \A x \in Xids : TxnInv(x), NEW x \in Xids, NEW tpc \in BOOLEAN, Begin(x, tpc)
    PROVE  Book'
<1>1. \A y \in Xids : y # x => Quiet(y) BY BeginKeeps
<1>2. /\ ctx[x].pc = "none" /\ ctx' = [ctx EXCEPT ![x].pc = "open", ![x].tpc = tpc] /\ log' = log /\ maps' = maps
      /\ avail' = avail /\ rec' = rec /\ ops' = ops /\ rec.phase = "up"
  BY DEF Begin, At, jrnlVars, histVars, IsUp
<1>3. ctx \in [Xids -> CtxType] /\ ctx[x] \in CtxType BY DEF Types
<1>4. ctx'[x] = [ctx[x] EXCEPT !.pc = "open", !.tpc = tpc] BY <1>2, <1>3 DEF CtxType
<1>5. ctx'[x].pc = "open" /\ ctx'[x].rcvd = ctx[x].rcvd BY <1>3, <1>4 DEF CtxType
<1>6. ~Ending(x) BY <1>2 DEF Ending, Stage, Waiting
<1>7. \A q \in Queues : log'[q] = log[q] /\ maps'[q] = maps[q] BY <1>2
<1> QED BY <1>1, <1>2, <1>5, <1>6, <1>7, WorkSame

\* A transaction whose thread starts to work on it while the store is up.
LEMMA StartBook ==
    ASSUME Types, Types', Book, NEW x \in Xids, \A y \in Xids : y # x => Quiet(y), NEW c \in CtxType, ctx'[x] = c,
           ctx[x].pc \in {"open", "prepared"}, c.pc \in {"flush", "tplDeq"}, c.rcvd = ctx[x].rcvd, IsUp,
           UNCHANGED <<jrnlVars, rec, avail, ops>>
    PROVE  Book'
<1>1. ~Ending(x) BY DEF Ending, Stage, Waiting
<1>2. log' = log /\ maps' = maps /\ rec' = rec /\ avail' = avail /\ ops' = ops BY DEF jrnlVars
<1>3. \A q \in Queues : log'[q] = log[q] /\ maps'[q] = maps[q] BY <1>2
<1>4. rec.phase # "txns" BY DEF IsUp
<1> QED BY <1>1, <1>2, <1>3, <1>4, WorkSame

\* prepare(), and commit() and abort() of a transaction that has touched a queue.
LEMMA AskBook ==
    ASSUME Types, Types', Book, \A x \in Xids : TxnInv(x), NEW x \in Xids,
           Prepare(x) \/ (\E end \in {"commit", "abort"} : EndDtx(x, end) \/ (EndLocal(x, end) /\ ctx[x].impacted # {}))
    PROVE  Book'
<1>1. \A y \in Xids : y # x => Quiet(y) BY StartPrepareKeeps, EndDtxKeeps, EndLocalKeeps
<1>2. ctx[x] \in CtxType /\ ctx \in [Xids -> CtxType] BY DEF Types
<1>3. StartSync(x, "tplEnq") \in CtxType /\ StartSync(x, "tplEnq").pc = "flush" /\ StartSync(x, "tplEnq").rcvd = ctx[x].rcvd
  <2>1. StartSync(x, "tplEnq") \in CtxType BY <1>2, StartSyncType
  <2>2. StartSync(x, "tplEnq").pc = "flush" /\ StartSync(x, "tplEnq").rcvd = ctx[x].rcvd BY <1>2 DEF StartSync, CtxType
  <2> QED BY <2>1, <2>2
<1>4. CASE Prepare(x)
  <2>1. ctx'[x] = StartSync(x, "tplEnq") /\ ctx[x].pc = "open" BY <1>2, <1>4 DEF Prepare, LocalPrepare, At
  <2>2. IsUp /\ UNCHANGED <<jrnlVars, rec, avail, ops>> BY <1>4 DEF Prepare, histVars
  <2>3. PICK c \in CtxType : c = StartSync(x, "tplEnq") BY <1>3
  <2> QED BY <1>1, <1>3, <2>1, <2>2, <2>3, StartBook
<1>5. ASSUME NEW end \in {"commit", "abort"}, EndDtx(x, end) PROVE Book'
  <2>1. /\ ctx[x].pc \in {"prepared", "open"} /\ IsUp /\ UNCHANGED <<jrnlVars, rec, avail, ops>>
        /\ ctx' = [ctx EXCEPT ![x].pc = "tplDeq", ![x].commit = (end = "commit")]
    BY <1>5 DEF EndDtx, At
  <2>2. PICK b \in BOOLEAN : b = (end = "commit") OBVIOUS
  <2>3. PICK c : c = [ctx[x] EXCEPT !.pc = "tplDeq", !.commit = b] OBVIOUS
  <2>4. c \in CtxType /\ c.pc = "tplDeq" /\ c.rcvd = ctx[x].rcvd BY <1>2, <2>3 DEF CtxType, Running
  <2>5. ctx'[x] = c BY <1>2, <2>1, <2>2, <2>3 DEF CtxType
  <2> QED BY <1>1, <2>1, <2>4, <2>5, StartBook
<1>6. ASSUME NEW end \in {"commit", "abort"}, EndLocal(x, end), ctx[x].impacted # {} PROVE Book'
  <2>1. /\ ctx[x].pc = "open" /\ IsUp /\ UNCHANGED <<jrnlVars, rec, avail, ops>>
        /\ ctx' = [ctx EXCEPT ![x] = [LocalPrepare(x) EXCEPT !.commit = end = "commit"]]
    BY <1>6 DEF EndLocal, At
  <2>2. PICK b \in BOOLEAN : b = (end = "commit") OBVIOUS
  <2>3. PICK d \in CtxType : d = LocalPrepare(x) BY <1>3 DEF LocalPrepare
  <2>4. d.pc = "flush" /\ d.rcvd = ctx[x].rcvd BY <1>3, <2>3 DEF LocalPrepare
  <2>5. PICK c : c = [d EXCEPT !.commit = b] OBVIOUS
  <2>6. c \in CtxType /\ c.pc = "flush" /\ c.rcvd = ctx[x].rcvd BY <2>4, <2>5 DEF CtxType
  <2>7. ctx'[x] = c BY <1>2, <2>1, <2>2, <2>3, <2>5
  <2> QED BY <1>1, <2>1, <2>6, <2>7, StartBook
<1> QED BY <1>4, <1>5, <1>6

\* commit() and abort() of a local transaction that has touched no queue.
LEMMA EndLocalBook ==
    ASSUME Types, Types', Book, \A x \in Xids : TxnInv(x), NEW x \in Xids, NEW end \in {"commit", "abort"}, EndLocal(x, end)
    PROVE  Book'
<1>1. CASE ctx[x].impacted # {} BY <1>1, AskBook
<1>2. CASE ctx[x].impacted = {}
  <2>1. \A y \in Xids : y # x => Quiet(y) BY EndLocalKeeps
  <2>2. /\ ctx[x].pc = "open" /\ ctx' = [ctx EXCEPT ![x].pc = "done"] /\ log' = log /\ maps' = maps
        /\ avail' = avail /\ rec' = rec /\ ops' = ops /\ rec.phase = "up"
    BY <1>2 DEF EndLocal, At, Goto, jrnlVars, histVars, IsUp
  <2>3. ctx[x] \in CtxType /\ ctx'[x] = [ctx[x] EXCEPT !.pc = "done"] BY <2>2 DEF Types
  <2>4. ctx'[x].pc = "done" /\ ctx'[x].rcvd = ctx[x].rcvd BY <2>3 DEF CtxType
  <2>5. Stage(x) = "open" BY <2>2 DEF Stage, Waiting
  <2>6. RecsOf(TPL, x) = {} BY <2>5 DEF TxnInv, ListStage, Early
  <2>7. \A j : RecsOf(j, x)' = RecsOf(j, x) BY <2>2 DEF RecsOf
  <2>8. \A q \in Queues, t \in {"enq", "deq"} : OpsOn(q, x, t)' = OpsOn(q, x, t) BY <2>2 DEF OpsOn
  <2>9. Keeps(x) BY <2>2, <2>4, <2>8, WorkStays
  <2>10. Stays(x) BY <2>2, <2>4, <2>5 DEF Stays, Ending
  <2>11. ThreadInv(x) BY DEF Book
  <2>12. LoggedInv(x)' BY <2>2, <2>7, <2>11 DEF ThreadInv, LoggedInv, Does
  <2>13. DoneInv(x)' BY <2>6, <2>7 DEF DoneInv
  <2>14. RcvdInv(x)' BY <2>2, <2>4, <2>11 DEF ThreadInv, RcvdInv
  <2>15. \A y \in Xids : Quiet(y) \/ (Keeps(y) /\ Stays(y) /\ ThreadInv(y)') BY <2>1, <2>9, <2>10, <2>12, <2>13, <2>14 DEF ThreadInv
  <2>16. \A q \in Queues : log'[q] = log[q] /\ maps'[q] = maps[q] BY <2>2
  <2> QED BY <2>2, <2>15, <2>16, StepSame
<1> QED BY <1>1, <1>2

\* The records of the prepared list.
LEMMA ListBook ==
    ASSUME Types, Types', Book, \A x \in Xids : TxnInv(x), NEW x \in Xids, TplEnqueue(x) \/ TplDequeue(x) \/ CommitTpl(x)
    PROVE  Book'
<1>1. \A y \in Xids : y # x => Quiet(y) BY TplEnqueueKeeps, TplDequeueKeeps, CommitTplKeeps
<1>2. ctx \in [Xids -> CtxType] /\ ctx[x] \in CtxType BY DEF Types
<1>3. ThreadInv(x) BY DEF Book
<1>4. ctx[x].pc \in {"tplEnq", "tplDeq", "close"} /\ Stage(x) = ctx[x].pc /\ avail' = avail /\ rec' = rec /\ ops' = ops
  BY DEF TplEnqueue, TplDequeue, CommitTpl, At, Stage, Waiting, histVars
<1>5. rec.phase = "txns" => ctx[x].pc \in {"tplDeq", "close"} BY <1>3, <1>4, RcvdWork
<1>6. \A q \in Queues : log'[q] = log[q] /\ maps'[q] = maps[q]
  <2>1. PICK r \in LogRec : Write(TPL, r) \/ UNCHANGED jrnlVars
    <3>1. ctx[x].tpc \in BOOLEAN /\ ctx[x].commit \in BOOLEAN BY <1>2 DEF CtxType
    <3>2. \A t \in {"enq", "deq"}, f \in BOOLEAN : Record(t, x, x, f) \in LogRec BY RecordsAre
    <3>3. EndRecord(x) \in LogRec BY <1>2, EndRecordIs
    <3>4. CASE TplEnqueue(x)
      <4>1. PICK r : r = Record("enq", x, x, ctx[x].tpc) OBVIOUS
      <4> QED BY <3>1, <3>2, <3>4, <4>1 DEF TplEnqueue
    <3>5. CASE TplDequeue(x)
      <4>1. PICK r : r = Record("deq", x, x, ctx[x].commit) OBVIOUS
      <4> QED BY <3>1, <3>2, <3>5, <4>1 DEF TplDequeue
    <3>6. CASE CommitTpl(x)
      <4>1. PICK r : r = EndRecord(x) OBVIOUS
      <4> QED BY <3>3, <3>6, <4>1 DEF CommitTpl
    <3> QED BY <3>4, <3>5, <3>6
  <2>2. CASE Write(TPL, r) BY <2>2, WriteTpl
  <2>3. CASE UNCHANGED jrnlVars BY <2>3 DEF jrnlVars
  <2> QED BY <2>1, <2>2, <2>3
<1>7. CASE TplEnqueue(x)
  <2> DEFINE then == IF ctx[x].tpc THEN "prepared" ELSE "tplDeq"
             c == [StartSync(x, then) EXCEPT !.prepared = TRUE, !.dtok = "ENQ"]
  <2>1. ctx'[x] = c BY <1>2, <1>7 DEF TplEnqueue
  <2>2. c.pc = "flush" /\ c.rcvd = ctx[x].rcvd BY <1>2 DEF StartSync, CtxType
  <2>3. ctx[x].pc = "tplEnq" BY <1>7 DEF TplEnqueue, At
  <2> HIDE DEF c, then
  <2>4. ~Ending(x) /\ rec.phase # "txns" BY <1>4, <1>5, <2>3 DEF Ending
  <2> QED BY <1>1, <1>4, <1>6, <2>1, <2>2, <2>4, WorkSame
<1>8. CASE TplDequeue(x)
  <2> DEFINE c == [StartSync(x, "close") EXCEPT !.dtok = IF IsEnqueued(x) THEN "DEQ" ELSE @, !.left = ctx[x].impacted]
  <2>1. ctx'[x] = c BY <1>2, <1>8 DEF TplDequeue
  <2>2. c.pc = "flush" /\ c.then = "close" /\ c.rcvd = ctx[x].rcvd /\ c.commit = ctx[x].commit BY <1>2 DEF StartSync, CtxType
  <2>3. ctx[x].pc = "tplDeq" BY <1>8 DEF TplDequeue, At
  <2> HIDE DEF c
  <2>4. ~Ending(x) BY <1>4, <2>3 DEF Ending
  <2>5. Stage(x)' = "close" BY <2>1, <2>2 DEF Stage, Waiting
  <2> QED BY <1>1, <1>4, <1>6, <2>1, <2>2, <2>4, <2>5, WorkSame
<1>9. CASE CommitTpl(x)
  <2>1. PICK c : /\ ctx'[x] = c /\ c.rcvd = ctx[x].rcvd /\ c.commit = ctx[x].commit
                 /\ c.pc = "return" \/ (c.pc = "flush" /\ c.then = "return")
    <3>1. CASE ctx[x].prepared
      <4>1. PICK a : a = AfterEnd(x, "return") OBVIOUS
      <4>2. /\ a \in CtxType /\ a.commit = ctx[x].commit /\ a.rcvd = ctx[x].rcvd
            /\ a.pc = "return" \/ (a.pc = "flush" /\ a.then = "return")
        BY <1>2, <4>1 DEF AfterEnd, StartSync, CtxType, Running
      <4>3. PICK c : c = [a EXCEPT !.impacted = {}] OBVIOUS
      <4>4. c.pc = a.pc /\ c.then = a.then /\ c.rcvd = a.rcvd /\ c.commit = a.commit BY <4>2, <4>3 DEF CtxType
      <4>5. ctx'[x] = c BY <1>2, <1>9, <3>1, <4>1, <4>3 DEF CommitTpl
      <4> QED BY <4>2, <4>4, <4>5
    <3>2. CASE ~ctx[x].prepared
      <4>1. ctx'[x] = [ctx[x] EXCEPT !.pc = "return", !.impacted = {}] BY <1>2, <1>9, <3>2 DEF CommitTpl, CtxType
      <4>2. ctx'[x].pc = "return" /\ ctx'[x].rcvd = ctx[x].rcvd /\ ctx'[x].commit = ctx[x].commit BY <1>2, <4>1 DEF CtxType
      <4> QED BY <4>2
    <3> QED BY <3>1, <3>2
  <2>2. Stage(x)' = "return" BY <2>1 DEF Stage, Waiting
  <2>3. Ending(x)' /\ ctx[x].pc = "close" BY <1>9, <2>2 DEF Ending, CommitTpl, At
  <2>4. ctx'[x].pc \notin {"done", "gone"} BY <2>1
  <2>5. ctx'[x].rcvd = ctx[x].rcvd /\ ctx'[x].commit = ctx[x].commit BY <2>1
  <2> QED BY <1>1, <1>4, <1>6, <2>2, <2>3, <2>4, <2>5, WorkSame
<1> QED BY <1>7, <1>8, <1>9

\* Pages are handed to the kernel and written by it.
LEMMA DisksBook ==
    ASSUME Types, Types', Book, (\E j \in Journals : PageOut(j) \/ Complete(j)) \/ UNCHANGED vars
    PROVE  Book'
<1>1. \A y \in Xids : Quiet(y) BY QuietSteps
<1>2. log' = log /\ maps' = maps /\ avail' = avail /\ rec' = rec
  BY DEF PageOut, Complete, vars, jrnlVars
<1>3. \A q \in Queues : log'[q] = log[q] /\ maps'[q] = maps[q] BY <1>2
<1> QED BY <1>1, <1>2, <1>3, StepSame

-----------------------------------------------------------------------------
(* Records written to a queue's journal.                                   *)

\* An enqueue of a new message, by a transaction that has not ended.
LEMMA EnqOrder ==
    ASSUME NEW S, NEW r \in LogRec, NEW p \in Nat, Later(S, p), InOrder(S), r.t = "enq", r.m \in Msgs,
           \A e \in S : e.is.t = "enq" => e.is.m # r.m, \A c \in S : IsEnd(c.is) => c.is.x # r.x
    PROVE  InOrder(More(S, p, r)) /\ \A d \in S : ~OpAt(d, "deq", r.m)
<1>1. PICK n : n = [at |-> p, is |-> r] OBVIOUS
<1>2. PICK S2 : S2 = More(S, p, r) OBVIOUS
<1>3. n.at = p /\ n.is = r /\ S2 = S \cup {n} BY <1>1, <1>2 DEF More
<1>4. \A e \in S : e.at \in Nat /\ e.at < n.at BY <1>3 DEF Later
<1>5. \A e \in S2 : IsOp(e.is) => e.is.m \in Msgs BY <1>3 DEF InOrder
<1>6. \A e, d \in S2 : e.is.t = "enq" /\ OpAt(d, "enq", e.is.m) => e = d BY <1>3 DEF InOrder, OpAt
<1>7. \A d \in S2 : d.is.t = "deq" => \E e \in S2 :
          /\ OpAt(e, "enq", d.is.m) /\ e.at < d.at
          /\ e.is.x = NoXid \/ \E c \in S2 : c.is.t = "commit" /\ c.is.x = e.is.x /\ e.at < c.at /\ c.at < d.at
  <2> SUFFICES ASSUME NEW d \in S, d.is.t = "deq"
               PROVE \E e \in S2 :
                  /\ OpAt(e, "enq", d.is.m) /\ e.at < d.at
                  /\ e.is.x = NoXid \/ \E c \in S2 : c.is.t = "commit" /\ c.is.x = e.is.x /\ e.at < c.at /\ c.at < d.at
    BY <1>3
  <2>1. PICK e \in S : /\ OpAt(e, "enq", d.is.m) /\ e.at < d.at
                       /\ e.is.x = NoXid \/ \E c \in S : c.is.t = "commit" /\ c.is.x = e.is.x /\ e.at < c.at /\ c.at < d.at
    BY DEF InOrder
  <2> QED BY <1>3, <2>1
<1>8. \A c, d \in S2 : ~(c.is.t = "commit" /\ d.is.t = "abort" /\ c.is.x = d.is.x) BY <1>3 DEF InOrder
<1>9. \A e, c \in S2 : IsOp(e.is) /\ IsEnd(c.is) /\ c.is.x = e.is.x => e.at < c.at
  <2>1. ~IsEnd(n.is) BY <1>3 DEF IsEnd
  <2> QED BY <1>3, <2>1 DEF InOrder
<1>10. \A d \in S : ~OpAt(d, "deq", r.m) BY DEF InOrder, OpAt
<1> QED BY <1>2, <1>5, <1>6, <1>7, <1>8, <1>9, <1>10 DEF InOrder

\* A dequeue of a message that is there, by a transaction that has not ended.
LEMMA DeqOrder ==
    ASSUME NEW S, NEW r \in LogRec, NEW p \in Nat, Later(S, p), InOrder(S), r.t = "deq", r.m \in Live(S),
           \A c \in S : IsEnd(c.is) => c.is.x # r.x
    PROVE  InOrder(More(S, p, r))
<1>1. PICK n : n = [at |-> p, is |-> r] OBVIOUS
<1>2. PICK S2 : S2 = More(S, p, r) OBVIOUS
<1>3. n.at = p /\ n.is = r /\ S2 = S \cup {n} BY <1>1, <1>2 DEF More
<1>4. \A e \in S : e.at \in Nat /\ e.at < n.at BY <1>3 DEF Later
<1>5. r.m \in Msgs /\ \E e \in S : OpAt(e, "enq", r.m) /\ Effective(S, e) BY DEF Live, Done
<1>6. \A e \in S2 : IsOp(e.is) => e.is.m \in Msgs BY <1>3, <1>5 DEF InOrder
<1>7. \A e, d \in S2 : e.is.t = "enq" /\ OpAt(d, "enq", e.is.m) => e = d BY <1>3 DEF InOrder, OpAt
<1>8. ASSUME NEW d \in S, d.is.t = "deq"
      PROVE \E e \in S2 :
          /\ OpAt(e, "enq", d.is.m) /\ e.at < d.at
          /\ e.is.x = NoXid \/ \E c \in S2 : c.is.t = "commit" /\ c.is.x = e.is.x /\ e.at < c.at /\ c.at < d.at
  <2>1. PICK e \in S : /\ OpAt(e, "enq", d.is.m) /\ e.at < d.at
                       /\ e.is.x = NoXid \/ \E c \in S : c.is.t = "commit" /\ c.is.x = e.is.x /\ e.at < c.at /\ c.at < d.at
    BY <1>8 DEF InOrder
  <2> QED BY <1>3, <2>1
<1>9. \E e \in S2 :
          /\ OpAt(e, "enq", n.is.m) /\ e.at < n.at
          /\ e.is.x = NoXid \/ \E c \in S2 : c.is.t = "commit" /\ c.is.x = e.is.x /\ e.at < c.at /\ c.at < n.at
  BY <1>3, <1>4, <1>5 DEF Effective, EndedBy
<1>10. \A c, d \in S2 : ~(c.is.t = "commit" /\ d.is.t = "abort" /\ c.is.x = d.is.x) BY <1>3 DEF InOrder
<1>11. \A e, c \in S2 : IsOp(e.is) /\ IsEnd(c.is) /\ c.is.x = e.is.x => e.at < c.at
  <2>1. ~IsEnd(n.is) BY <1>3 DEF IsEnd
  <2> QED BY <1>3, <2>1 DEF InOrder
<1> QED BY <1>2, <1>3, <1>6, <1>7, <1>8, <1>9, <1>10, <1>11 DEF InOrder

\* An end of a transaction that has not ended the other way.
LEMMA EndOrder ==
    ASSUME NEW S, NEW r \in LogRec, NEW p \in Nat, Later(S, p), InOrder(S), IsEnd(r),
           \A c \in S : IsEnd(c.is) /\ c.is.x = r.x => c.is.t = r.t
    PROVE  InOrder(More(S, p, r))
<1>1. PICK n : n = [at |-> p, is |-> r] OBVIOUS
<1>2. PICK S2 : S2 = More(S, p, r) OBVIOUS
<1>3. n.at = p /\ n.is = r /\ S2 = S \cup {n} BY <1>1, <1>2 DEF More
<1>4. \A e \in S : e.at \in Nat /\ e.at < n.at BY <1>3 DEF Later
<1>5. ~IsOp(n.is) /\ n.is.t \notin {"enq", "deq"} BY <1>3 DEF IsEnd, IsOp
<1>6. \A e \in S2 : IsOp(e.is) => e.is.m \in Msgs BY <1>3, <1>5 DEF InOrder
<1>7. \A e, d \in S2 : e.is.t = "enq" /\ OpAt(d, "enq", e.is.m) => e = d BY <1>3, <1>5 DEF InOrder, OpAt
<1>8. \A d \in S2 : d.is.t = "deq" => \E e \in S2 :
          /\ OpAt(e, "enq", d.is.m) /\ e.at < d.at
          /\ e.is.x = NoXid \/ \E c \in S2 : c.is.t = "commit" /\ c.is.x = e.is.x /\ e.at < c.at /\ c.at < d.at
  <2> SUFFICES ASSUME NEW d \in S, d.is.t = "deq"
               PROVE \E e \in S2 :
                  /\ OpAt(e, "enq", d.is.m) /\ e.at < d.at
                  /\ e.is.x = NoXid \/ \E c \in S2 : c.is.t = "commit" /\ c.is.x = e.is.x /\ e.at < c.at /\ c.at < d.at
    BY <1>3, <1>5
  <2>1. PICK e \in S : /\ OpAt(e, "enq", d.is.m) /\ e.at < d.at
                       /\ e.is.x = NoXid \/ \E c \in S : c.is.t = "commit" /\ c.is.x = e.is.x /\ e.at < c.at /\ c.at < d.at
    BY DEF InOrder
  <2> QED BY <1>3, <2>1
<1>9. \A c, d \in S2 : ~(c.is.t = "commit" /\ d.is.t = "abort" /\ c.is.x = d.is.x)
  <2> SUFFICES ASSUME NEW c \in S2, NEW d \in S2, c.is.t = "commit", d.is.t = "abort", c.is.x = d.is.x PROVE FALSE OBVIOUS
  <2>1. IsEnd(c.is) /\ IsEnd(d.is) BY DEF IsEnd
  <2>2. ~(c \in S /\ d \in S) BY DEF InOrder
  <2>3. c = n \/ d = n BY <1>3, <2>2
  <2> QED BY <1>3, <2>1, <2>3
<1>10. \A e, c \in S2 : IsOp(e.is) /\ IsEnd(c.is) /\ c.is.x = e.is.x => e.at < c.at BY <1>3, <1>4, <1>5 DEF InOrder
<1> QED BY <1>2, <1>6, <1>7, <1>8, <1>9, <1>10 DEF InOrder

\* What a record needs that is written to a log.
LEMMA LogWrite ==
    ASSUME Types, NEW q \in Queues, NEW r \in LogRec, Write(q, r), \A x \in Xids : Keeps(x), LogInv(q), InOrder(All(q)'),
           r.t = "enq" => \A d \in All(q) : ~OpAt(d, "deq", r.m),
           r.t = "deq" => \A e \in All(q) : OpAt(e, "enq", r.m) /\ e.is.x # NoXid => Over(e.is.x)',
           r.t = "deq" => \A d \in All(q) : OpAt(d, "deq", r.m) =>
               /\ d.is.x # NoXid
               /\ ~EndedBy(All(q), d, "commit")
               /\ Lost(d.is.x)' \/ (Undone(d.is.x)' /\ EndedBy(All(q), d, "abort")),
           r.t = "commit" => \A d, k \in All(q) : d.is.t = "deq" /\ OpAt(k, "deq", d.is.m) /\ d.at < k.at => d.is.x # r.x,
           IsOp(r) /\ r.x # NoXid => r.m \in OpsOn(q, r.x, r.t)'
    PROVE  LogInv(q)'
<1>1. /\ \A e \in All(q) : e.at \in Nat /\ e.is.x \in Xids \cup {NoXid}
      /\ \A x \in Xids : RecsOf(q, x) = {e \in All(q) : e.is.x = x}
      /\ Later(All(q), Len(log[q]) + 1) /\ Len(log[q]) \in Nat
  BY AllFacts
<1>2. PICK S : S = All(q) OBVIOUS
<1>3. PICK p \in Nat : p = Len(log[q]) + 1 BY <1>1
<1>4. PICK n : n = [at |-> p, is |-> r] OBVIOUS
<1>5. PICK S2 : S2 = All(q)' OBVIOUS
<1>6. n.at = p /\ n.is = r /\ S2 = S \cup {n} BY <1>2, <1>3, <1>4, <1>5, WriteAll DEF More
<1>7. \A e \in S : e.at \in Nat /\ e.at < n.at /\ ~(n.at < e.at) BY <1>1, <1>2, <1>3, <1>6 DEF Later
<1>8. \A x \in Xids : (Over(x) => Over(x)') /\ (Lost(x) => Lost(x)') BY DEF Keeps
<1>9. Released(q)'
  <2> SUFFICES ASSUME NEW d \in S2, NEW e \in S2, d.is.t = "deq", OpAt(e, "enq", d.is.m), e.is.x # NoXid PROVE Over(e.is.x)'
    BY <1>5 DEF Released, OpAt
  <2>1. CASE e = n BY <1>2, <1>6, <2>1 DEF OpAt
  <2>2. CASE e \in S /\ d = n BY <1>2, <1>6, <2>2
  <2>3. CASE e \in S /\ d \in S
    <3>1. Over(e.is.x) BY <1>2, <2>3 DEF LogInv, Released
    <3>2. PICK x \in Xids : x = e.is.x BY <1>1, <1>2, <2>3
    <3> QED BY <1>8, <3>1, <3>2
  <2> QED BY <1>6, <2>1, <2>2, <2>3
<1>10. Rivals(q)'
  <2> SUFFICES ASSUME NEW d \in S2, NEW k \in S2, d.is.t = "deq" /\ OpAt(k, "deq", d.is.m) /\ d.at < k.at
               PROVE  /\ d.is.x # NoXid
                      /\ ~EndedBy(S2, d, "commit")
                      /\ \/ Lost(d.is.x)'
                         \/ /\ Undone(d.is.x)'
                            /\ \E c \in S2 : c.is.t = "abort" /\ c.is.x = d.is.x /\ d.at < c.at /\ c.at < k.at
    BY <1>5 DEF Rivals, OpAt, EndedBy
  <2>1. d \in S
    <3>1. ~(n.at < n.at) BY <1>3, <1>6
    <3> QED BY <1>6, <1>7, <3>1
  <2>2. CASE k = n
    <3>1. r.t = "deq" /\ r.m = d.is.m BY <1>6, <2>2 DEF OpAt
    <3>2. /\ d.is.x # NoXid
          /\ ~EndedBy(S, d, "commit")
          /\ Lost(d.is.x)' \/ (Undone(d.is.x)' /\ EndedBy(S, d, "abort"))
      BY <1>2, <2>1, <3>1 DEF OpAt
    <3>3. ~EndedBy(S2, d, "commit") BY <1>6, <3>1, <3>2 DEF EndedBy
    <3>4. EndedBy(S, d, "abort") => \E c \in S2 : c.is.t = "abort" /\ c.is.x = d.is.x /\ d.at < c.at /\ c.at < k.at
      BY <1>6, <1>7, <2>2 DEF EndedBy
    <3> QED BY <3>2, <3>3, <3>4
  <2>3. CASE k \in S
    <3>1. /\ d.is.x # NoXid
          /\ ~EndedBy(S, d, "commit")
          /\ \/ Lost(d.is.x)
             \/ /\ Undone(d.is.x)
                /\ \E c \in S : c.is.t = "abort" /\ c.is.x = d.is.x /\ d.at < c.at /\ c.at < k.at
      BY <1>2, <2>1, <2>3 DEF LogInv, Rivals
    <3>2. PICK x \in Xids : x = d.is.x BY <1>1, <1>2, <2>1, <3>1
    <3>3. r.t = "commit" => d.is.x # r.x BY <1>2, <2>1, <2>3
    <3>4. ~EndedBy(S2, d, "commit") BY <1>6, <3>1, <3>3 DEF EndedBy
    <3>5. ASSUME NEW c \in S, c.is.t = "abort" /\ c.is.x = d.is.x /\ Undone(x) PROVE Undone(x)'
      <4>1. HasIn(RecsOf(q, x), "abort") BY <1>1, <1>2, <3>2, <3>5 DEF HasIn
      <4> QED BY <3>5, <4>1 DEF Keeps
    <3> QED BY <1>6, <1>8, <3>1, <3>2, <3>4, <3>5
  <2> QED BY <1>6, <2>2, <2>3
<1>11. Known(q)'
  <2> SUFFICES ASSUME NEW e \in S2, IsOp(e.is), e.is.x # NoXid PROVE e.is.m \in OpsOn(q, e.is.x, e.is.t)'
    BY <1>5 DEF Known, IsOp
  <2>1. CASE e = n BY <1>6, <2>1
  <2>2. CASE e \in S
    <3>1. PICK x \in Xids : x = e.is.x BY <1>1, <1>2, <2>2
    <3>2. e.is.m \in OpsOn(q, x, e.is.t) BY <1>2, <2>2, <3>1 DEF LogInv, Known
    <3>3. OpsOn(q, x, "enq") \subseteq OpsOn(q, x, "enq")' /\ OpsOn(q, x, "deq") \subseteq OpsOn(q, x, "deq")'
      BY DEF Keeps
    <3> QED BY <3>1, <3>2, <3>3 DEF IsOp
  <2> QED BY <1>6, <2>1, <2>2
<1> QED BY <1>9, <1>10, <1>11 DEF LogInv

\* What is due to the broker stays due.
LEMMA DueStays ==
    ASSUME NEW q \in Queues, NEW x \in Xids, Keeps(x), Stays(x), Ending(x), NEW m, m \in Due(q, x)
    PROVE  Ending(x)' /\ m \in Due(q, x)'
<1>1. Ending(x)' /\ ctx'[x].commit = ctx[x].commit BY DEF Stays
<1>2. OpsOn(q, x, "enq") \subseteq OpsOn(q, x, "enq")' /\ OpsOn(q, x, "deq") \subseteq OpsOn(q, x, "deq")' BY DEF Keeps
<1> QED BY <1>1, <1>2 DEF Due

\* What the broker holds stays given to it.
LEMMA GivenStays ==
    ASSUME Types, NEW q \in Queues, \A x \in Xids : Keeps(x), IsUp, Given(q), NEW e \in All(q), e.is.x # NoXid, e.is.m \in avail[q]
    PROVE  (e.is.t = "enq" => Over(e.is.x)') /\ (e.is.t = "deq" => Undone(e.is.x)')
<1>1. PICK x \in Xids : x = e.is.x BY AllFacts
<1>2. (e.is.t = "enq" => Over(x)) /\ (e.is.t = "deq" => Undone(x)) BY <1>1 DEF Given
<1>3. (Over(x) => Over(x)') /\ (Undone(x) => Undone(x)') BY DEF Keeps
<1> QED BY <1>1, <1>2, <1>3

-----------------------------------------------------------------------------
(* Operations of the broker.                                               *)

\* What the broker holds is in the journal, and what no open transaction dequeues.
LEMMA HeldIsFree ==
    ASSUME Types, NEW q \in Queues, QueueInv(q), IsUp, NEW m \in avail[q]
    PROVE  /\ m \in Live(All(q)) /\ m \in Msgs
           /\ \A x \in Xids : ~Dropped(x) => m \notin Open(q, x, "deq")
           /\ \E e \in All(q) : OpAt(e, "enq", m)
<1>1. m \in Free(q) BY DEF QueueInv, AvailInv
<1>2. m \in Live(All(q)) /\ \A x \in Xids : ~Dropped(x) => m \notin Open(q, x, "deq") BY <1>1 DEF Free
<1>3. m \in Msgs /\ \E e \in All(q) : OpAt(e, "enq", m) BY <1>2 DEF Live, Done
<1> QED BY <1>2, <1>3

\* A transaction that is open has not ended in any queue.
LEMMA NoEndsOpen ==
    ASSUME Types, NEW x \in Xids, TxnInv(x), ctx[x].pc = "open", NEW q \in Queues
    PROVE  \A c \in All(q) : IsEnd(c.is) => c.is.x # x
<1>1. Stage(x) = "open" BY DEF Stage, Waiting
<1>2. RecsOf(TPL, x) = {} BY <1>1 DEF TxnInv, ListStage, Early
<1>3. CommitFree(x) /\ ~HasIn(RecsOf(q, x), "abort") BY <1>1, <1>2, NoEndsEarly
<1>4. RecsOf(q, x) = {e \in All(q) : e.is.x = x} BY AllFacts
<1> QED BY <1>3, <1>4 DEF CommitFree, HasIn, IsEnd

\* An enqueue, outside a transaction or in an open one.
LEMMA EnqBook ==
    ASSUME Types, Types', Book, \A x \in Xids : TxnInv(x), NEW q \in Queues, NEW m \in Msgs, NEW y \in Xids \cup {NoXid},
           Fresh(q, m), IsUp, Write(q, Record("enq", m, y, FALSE)), rec' = rec,
           avail' = IF y = NoXid THEN [avail EXCEPT ![q] = @ \cup {m}] ELSE avail,
           \A x \in Xids : Keeps(x) /\ Stays(x) /\ ThreadInv(x)',
           y \in Xids => ctx[y].pc = "open" /\ m \in OpsOn(q, y, "enq")'
    PROVE  Book'
<1>1. PICK r \in LogRec : r = Record("enq", m, y, FALSE) BY RecordsAre
<1>2. r.t = "enq" /\ r.m = m /\ r.x = y /\ IsOp(r) /\ Write(q, r)
  <2>1. r.t = "enq" /\ r.m = m /\ r.x = y BY <1>1 DEF Record
  <2> QED BY <1>1, <2>1 DEF IsOp
<1>3. /\ \A e \in All(q) : e.at \in Nat /\ e.is \in LogRec /\ e.is.x \in Xids \cup {NoXid}
      /\ \A x \in Xids : RecsOf(q, x) = {e \in All(q) : e.is.x = x}
      /\ Later(All(q), Len(log[q]) + 1) /\ Len(log[q]) \in Nat
  BY AllFacts
<1>4. PICK S : S = All(q) OBVIOUS
<1>5. PICK p \in Nat : p = Len(log[q]) + 1 BY <1>3
<1>6. PICK S2 : S2 = More(S, p, r) OBVIOUS
<1>7. All(q)' = S2 BY <1>2, <1>4, <1>5, <1>6, WriteAll
<1>8. QueueInv(q) /\ InOrder(S) /\ Later(S, p) BY <1>3, <1>4, <1>5 DEF Book, QueueInv, LogInv
<1>9. \A e \in S : e.is.t = "enq" => e.is.m # m
  <2> SUFFICES ASSUME NEW e \in S, e.is.t = "enq" PROVE e.is.m # m OBVIOUS
  <2>1. PICK i \in 1 .. Len(log[q]) : e = [at |-> i, is |-> log[q][i]] BY <1>4 DEF All, AllOf
  <2>2. i \in DOMAIN log[q] BY AllFacts, LenProperties
  <2> QED BY <2>1, <2>2 DEF Fresh
<1>10. \A c \in S : IsEnd(c.is) => c.is.x # y
  <2>1. CASE y \in Xids BY <1>4, <2>1, NoEndsOpen
  <2>2. CASE y = NoXid
    <3>1. \A c \in S : IsEnd(c.is) => c.is.x \in Xids BY <1>3, <1>4 DEF LogRec, IsOp, IsEnd
    <3> QED BY <2>2, <3>1, XidAssumption
  <2> QED BY <2>1, <2>2
<1>11. InOrder(S2) /\ \A d \in S : ~OpAt(d, "deq", m) BY <1>2, <1>6, <1>8, <1>9, <1>10, EnqOrder
<1>12. LogInv(q)'
  <2>1. \A x \in Xids : Keeps(x) OBVIOUS
  <2>2. IsOp(r) /\ r.x # NoXid => r.m \in OpsOn(q, r.x, r.t)' BY <1>2
  <2>3. LogInv(q) BY <1>8 DEF QueueInv
  <2>4. InOrder(All(q)') /\ \A d \in All(q) : ~OpAt(d, "deq", r.m) BY <1>2, <1>4, <1>7, <1>11
  <2>5. r.t # "deq" /\ r.t # "commit" BY <1>2
  <2> QED BY <1>2, <2>1, <2>2, <2>3, <2>4, <2>5, LogWrite
<1>13. Rebuilt(q) /\ Rebuilt(q)' /\ IsUp' BY DEF Rebuilt, IsUp
<1>14. maps'[q].emap = Live(S2)
  <2>1. EmapInv(q) BY <1>8 DEF QueueInv
  <2>2. ASSUME r.x \in Xids PROVE Match(HeldOf(q, r.x), RecsOf(q, r.x), cmpl[q])
    <3>1. PICK x \in Xids : x = r.x BY <2>2
    <3>2. q \in Journals /\ rec.phase \in {"txns", "up"} /\ ctx[x].pc # "gone" /\ TxnInv(x)
      BY <1>2, <3>1, TplIsJournal DEF IsUp
    <3>3. Match(HeldOf(q, x), RecsOf(q, x), cmpl[q]) BY <3>2, Matched
    <3> QED BY <3>1, <3>3
  <2>3. InOrder(All(q)) /\ InOrder(All(q)') BY <1>4, <1>7, <1>8, <1>11
  <2> QED BY <1>2, <1>7, <1>13, <2>1, <2>2, <2>3, EmapWrite
<1>15. EmapInv(q)' BY <1>7, <1>14 DEF EmapInv, Live, Done, Effective, EndedBy, OpAt
<1>16. Live(S2) = Live(S) \cup (IF y = NoXid THEN {m} ELSE {})
  <2>1. Later(S, p) /\ InOrder(More(S, p, r)) BY <1>6, <1>8, <1>11
  <2>2. Done(S2, "deq") = Done(S, "deq") BY <1>2, <1>6, <2>1, DoneMore
  <2>3. Done(S2, "enq") = Done(S, "enq") \cup (IF y = NoXid THEN {m} ELSE {}) BY <1>2, <1>6, <2>1, DoneMore
  <2>4. m \notin Done(S, "deq") BY <1>11 DEF Done
  <2> QED BY <2>2, <2>3, <2>4 DEF Live
<1>17. \A x \in Xids : OpenIn(S2, x, "deq") = OpenIn(S, x, "deq") /\ m \notin OpenIn(S, x, "deq")
  <2> SUFFICES ASSUME NEW x \in Xids PROVE OpenIn(S2, x, "deq") = OpenIn(S, x, "deq") /\ m \notin OpenIn(S, x, "deq") OBVIOUS
  <2>1. Later(S, p) /\ InOrder(More(S, p, r)) BY <1>6, <1>8, <1>11
  <2>2. /\ r.x # x => OpenIn(More(S, p, r), x, "deq") = OpenIn(S, x, "deq")
        /\ r.x = x /\ IsOp(r) => OpenIn(More(S, p, r), x, "deq") = OpenIn(S, x, "deq") \cup (IF r.t = "deq" THEN {r.m} ELSE {})
    <3>1. PICK t \in {"enq", "deq"} : t = "deq" OBVIOUS
    <3>2. /\ r.x # x => OpenIn(More(S, p, r), x, t) = OpenIn(S, x, t)
          /\ r.x = x /\ IsOp(r) => OpenIn(More(S, p, r), x, t) = OpenIn(S, x, t) \cup (IF r.t = t THEN {r.m} ELSE {})
      BY <2>1, OpenMore
    <3> QED BY <3>1, <3>2
  <2>3. m \notin OpenIn(S, x, "deq") BY <1>11 DEF OpenIn
  <2> QED BY <1>2, <1>6, <2>2, <2>3
<1>18. \A x \in Xids : Dropped(x)' = Dropped(x) BY DEF Stays, Dropped
<1>19. Free(q)' = Free(q) \cup (IF y = NoXid THEN {m} ELSE {})
  <2>1. {x \in Xids : ~Dropped(x)'} = {x \in Xids : ~Dropped(x)} BY <1>18
  <2>2. Free(q) = Live(S) \ UNION {OpenIn(S, x, "deq") : x \in {z \in Xids : ~Dropped(z)}} BY <1>4 DEF Free, Open
  <2>3. Free(q)' = Live(S2) \ UNION {OpenIn(S2, x, "deq") : x \in {z \in Xids : ~Dropped(z)}}
    BY <1>7, <2>1 DEF Free, Open, Live, Done, Effective, EndedBy, OpAt, OpenIn, IsEnd
  <2>4. UNION {OpenIn(S2, x, "deq") : x \in {z \in Xids : ~Dropped(z)}} = UNION {OpenIn(S, x, "deq") : x \in {z \in Xids : ~Dropped(z)}}
    BY <1>17
  <2> QED BY <1>16, <1>17, <2>2, <2>3, <2>4
<1>20. avail'[q] = avail[q] \cup (IF y = NoXid THEN {m} ELSE {}) /\ avail' \in [Queues -> SUBSET Msgs]
       /\ \A k \in Queues : k # q => avail'[k] = avail[k]
  BY DEF Book
<1>21. avail[q] \subseteq Free(q) /\ \A k \in Free(q) \ avail[q] : \E x \in Xids : Ending(x) /\ k \in Due(q, x)
  BY <1>8 DEF QueueInv, AvailInv
<1>22. AvailInv(q)'
  <2>1. avail'[q] \subseteq Free(q)' BY <1>19, <1>20, <1>21
  <2>2. ASSUME NEW k \in Free(q)' \ avail'[q] PROVE \E x \in Xids : Ending(x)' /\ k \in Due(q, x)'
    <3>1. k \in Free(q) \ avail[q] BY <1>19, <1>20, <2>2
    <3>2. PICK x \in Xids : Ending(x) /\ k \in Due(q, x) BY <1>21, <3>1
    <3> QED BY <3>2, DueStays
  <2> QED BY <1>13, <2>1, <2>2 DEF AvailInv
<1>23. Given(q)'
  <2> SUFFICES ASSUME NEW e \in S2, e.is.x # NoXid, e.is.m \in avail'[q]
               PROVE (e.is.t = "enq" => Over(e.is.x)') /\ (e.is.t = "deq" => Undone(e.is.x)')
    BY <1>7 DEF Given
  <2>1. CASE e \in S /\ e.is.m \in avail[q]
    <3>1. Given(q) BY <1>8 DEF QueueInv
    <3> QED BY <1>4, <2>1, <3>1, GivenStays
  <2>2. CASE e \in S /\ e.is.m \notin avail[q]
    <3>1. e.is.m = m BY <1>20, <2>2
    <3> QED BY <1>9, <1>11, <2>2, <3>1 DEF OpAt
  <2>3. CASE e \notin S
    <3>1. e.is = r BY <1>6, <2>3 DEF More
    <3>2. m \in avail[q] BY <1>2, <1>20, <3>1
    <3>3. \E d \in S : OpAt(d, "enq", m) BY <1>4, <1>8, <3>2, HeldIsFree
    <3> QED BY <1>9, <3>3 DEF OpAt
  <2> QED BY <2>1, <2>2, <2>3
<1>24. ASSUME NEW k \in Queues PROVE QueueInv(k)'
  <2>1. CASE k = q BY <1>12, <1>15, <1>22, <1>23, <2>1 DEF QueueInv
  <2>2. CASE k # q
    <3>1. k \in Journals BY TplIsJournal
    <3>2. log'[k] = log[k] /\ maps'[k] = maps[k] BY <1>2, <2>2, <3>1, WriteAll
    <3>3. QueueInv(k) BY DEF Book
    <3> QED BY <1>20, <2>2, <3>2, <3>3, QueueSame
  <2> QED BY <2>1, <2>2
<1> QED BY <1>20, <1>24 DEF Book

\* A dequeue is an open one of its transaction.
LEMMA DeqOpens ==
    ASSUME NEW S, NEW r \in LogRec, NEW p \in Nat, Later(S, p), InOrder(More(S, p, r)), r.t = "deq"
    PROVE  \A x \in Xids : OpenIn(More(S, p, r), x, "deq") = OpenIn(S, x, "deq") \cup (IF r.x = x THEN {r.m} ELSE {})
<1>0. PICK S2 : S2 = More(S, p, r) OBVIOUS
<1>1. PICK n : n = [at |-> p, is |-> r] OBVIOUS
<1>2. n.at = p /\ n.is = r /\ S2 = S \cup {n} /\ InOrder(S2) BY <1>0, <1>1 DEF More
<1>3. \A e \in S : e.at \in Nat /\ e.at < n.at BY <1>2 DEF Later
<1>4. ~IsEnd(r) /\ r.m \in Msgs BY <1>2 DEF InOrder, IsOp, IsEnd
<1>5. \A m \in Msgs : OpAt(n, "deq", m) <=> m = r.m BY <1>2 DEF OpAt
<1>6. ASSUME NEW x \in Xids
      PROVE  OpenIn(S2, x, "deq") = OpenIn(S, x, "deq") \cup (IF r.x = x THEN {r.m} ELSE {})
  <2>1. CASE r.x # x BY <1>2, <2>1 DEF OpenIn
  <2>2. CASE r.x = x
    <3>1. \A d \in S2 : d.is.x = x /\ IsEnd(d.is) => d.at < n.at BY <1>2, <1>3, <1>4
    <3>2. \A m \in Msgs : m \in OpenIn(S2, x, "deq") <=> m \in OpenIn(S, x, "deq") \/ m = r.m
      BY <1>2, <1>4, <1>5, <2>2, <3>1 DEF OpenIn
    <3> QED BY <1>4, <2>2, <3>2 DEF OpenIn
  <2> QED BY <2>1, <2>2
<1> QED BY <1>0, <1>6

\* A dequeue, outside a transaction or in an open one.
LEMMA DeqBook ==
    ASSUME Types, Types', Book, \A x \in Xids : TxnInv(x), NEW q \in Queues, NEW m \in avail[q], NEW y \in Xids \cup {NoXid},
           IsUp, Write(q, Record("deq", m, y, FALSE)), rec' = rec, avail' = [avail EXCEPT ![q] = @ \ {m}],
           \A x \in Xids : Keeps(x) /\ Stays(x) /\ ThreadInv(x)',
           y \in Xids => ctx[y].pc = "open" /\ m \in OpsOn(q, y, "deq")'
    PROVE  Book'
<1>1. QueueInv(q) BY DEF Book
<1>2. /\ m \in Live(All(q)) /\ m \in Msgs
      /\ \A x \in Xids : ~Dropped(x) => m \notin Open(q, x, "deq")
  BY <1>1, HeldIsFree
<1>3. PICK r \in LogRec : r = Record("deq", m, y, FALSE) BY <1>2, RecordsAre
<1>4. r.t = "deq" /\ r.m = m /\ r.x = y /\ IsOp(r) /\ Write(q, r)
  <2>1. r.t = "deq" /\ r.m = m /\ r.x = y BY <1>3 DEF Record
  <2> QED BY <1>3, <2>1 DEF IsOp
<1>5. /\ \A e \in All(q) : e.at \in Nat /\ e.is \in LogRec /\ e.is.x \in Xids \cup {NoXid}
      /\ Later(All(q), Len(log[q]) + 1) /\ Len(log[q]) \in Nat
  BY AllFacts
<1>6. PICK S : S = All(q) OBVIOUS
<1>7. PICK p \in Nat : p = Len(log[q]) + 1 BY <1>5
<1>8. PICK S2 : S2 = More(S, p, r) OBVIOUS
<1>9. All(q)' = S2 BY <1>4, <1>6, <1>7, <1>8, WriteAll
<1>10. InOrder(S) /\ Later(S, p) /\ LogInv(q) /\ Given(q) BY <1>1, <1>5, <1>6, <1>7 DEF QueueInv, LogInv
<1>11. \A c \in S : IsEnd(c.is) => c.is.x # y
  <2>1. CASE y \in Xids BY <1>6, <2>1, NoEndsOpen
  <2>2. CASE y = NoXid
    <3>1. \A c \in S : IsEnd(c.is) => c.is.x \in Xids BY <1>5, <1>6 DEF LogRec, IsOp, IsEnd
    <3> QED BY <2>2, <3>1, XidAssumption
  <2> QED BY <2>1, <2>2
<1>12. InOrder(S2) BY <1>2, <1>4, <1>6, <1>8, <1>10, <1>11, DeqOrder
<1>13. ASSUME NEW e \in S, OpAt(e, "enq", m), e.is.x # NoXid PROVE Over(e.is.x)'
  <2>1. e.is.m \in avail[q] /\ e.is.t = "enq" BY <1>13 DEF OpAt
  <2> QED BY <1>6, <1>10, <1>13, <2>1, GivenStays
<1>14. ASSUME NEW d \in S, OpAt(d, "deq", m)
       PROVE  d.is.x # NoXid /\ ~EndedBy(S, d, "commit") /\ (Lost(d.is.x)' \/ (Undone(d.is.x)' /\ EndedBy(S, d, "abort")))
  <2>1. ~Effective(S, d) BY <1>2, <1>6, <1>14 DEF Live, Done
  <2>2. d.is.x # NoXid /\ ~EndedBy(S, d, "commit") BY <2>1 DEF Effective
  <2>3. PICK x \in Xids : x = d.is.x BY <1>5, <1>6, <2>2
  <2>4. CASE Dropped(x)
    <3>1. RecInv(x) /\ rec.phase = "up" BY DEF TxnInv, IsUp
    <3>2. Lost(x) BY <2>4, <3>1 DEF Lost, Dropped, RecInv
    <3> QED BY <2>2, <2>3, <3>2 DEF Keeps
  <2>5. CASE ~Dropped(x)
    <3>1. m \notin OpenIn(S, x, "deq") BY <1>2, <1>6, <2>5 DEF Open
    <3>2. PICK c \in S : c.is.x = x /\ IsEnd(c.is) /\ ~(c.at < d.at) BY <1>2, <1>14, <2>3, <3>1 DEF OpenIn
    <3>3. d.at < c.at BY <1>10, <1>14, <2>3, <3>2 DEF InOrder, OpAt, IsOp
    <3>4. c.is.t = "abort" BY <2>2, <2>3, <3>2, <3>3 DEF EndedBy, IsEnd
    <3>5. EndedBy(S, d, "abort") BY <2>3, <3>2, <3>3, <3>4 DEF EndedBy
    <3>6. d.is.m \in avail[q] /\ d.is.t = "deq" BY <1>14 DEF OpAt
    <3>7. Undone(d.is.x)' BY <1>6, <1>10, <2>2, <3>6, GivenStays
    <3> QED BY <2>2, <3>5, <3>7
  <2> QED BY <2>4, <2>5
<1>15. LogInv(q)'
  <2>1. \A x \in Xids : Keeps(x) OBVIOUS
  <2>2. IsOp(r) /\ r.x # NoXid => r.m \in OpsOn(q, r.x, r.t)' BY <1>4
  <2>3. InOrder(All(q)') BY <1>9, <1>12
  <2>4. \A e \in All(q) : OpAt(e, "enq", r.m) /\ e.is.x # NoXid => Over(e.is.x)' BY <1>4, <1>6, <1>13
  <2>5. \A d \in All(q) : OpAt(d, "deq", r.m) =>
               /\ d.is.x # NoXid
               /\ ~EndedBy(All(q), d, "commit")
               /\ Lost(d.is.x)' \/ (Undone(d.is.x)' /\ EndedBy(All(q), d, "abort"))
    BY <1>4, <1>6, <1>14
  <2>6. r.t # "enq" /\ r.t # "commit" BY <1>4
  <2> QED BY <1>4, <1>10, <2>1, <2>2, <2>3, <2>4, <2>5, <2>6, LogWrite
<1>16. Rebuilt(q) /\ Rebuilt(q)' /\ IsUp' BY DEF Rebuilt, IsUp
<1>17. maps'[q].emap = Live(S2)
  <2>1. EmapInv(q) BY <1>1 DEF QueueInv
  <2>2. ASSUME r.x \in Xids PROVE Match(HeldOf(q, r.x), RecsOf(q, r.x), cmpl[q])
    <3>1. PICK x \in Xids : x = r.x BY <2>2
    <3>2. q \in Journals /\ rec.phase \in {"txns", "up"} /\ ctx[x].pc # "gone" /\ TxnInv(x)
      BY <1>4, <3>1, TplIsJournal DEF IsUp
    <3>3. Match(HeldOf(q, x), RecsOf(q, x), cmpl[q]) BY <3>2, Matched
    <3> QED BY <3>1, <3>3
  <2>3. InOrder(All(q)) /\ InOrder(All(q)') BY <1>6, <1>9, <1>10, <1>12
  <2> QED BY <1>4, <1>9, <1>16, <2>1, <2>2, <2>3, EmapWrite
<1>18. EmapInv(q)' BY <1>9, <1>17 DEF EmapInv, Live, Done, Effective, EndedBy, OpAt
<1>19. Live(S2) = Live(S) \ (IF y = NoXid THEN {m} ELSE {})
  <2>1. Later(S, p) /\ InOrder(More(S, p, r)) BY <1>8, <1>10, <1>12
  <2>2. ASSUME NEW t \in {"enq", "deq"}
        PROVE  Done(S2, t) = Done(S, t) \cup (IF y = NoXid /\ t = "deq" THEN {m} ELSE {})
    <3>1. /\ r.t \in {"enq", "deq"} /\ r.x # NoXid => Done(More(S, p, r), t) = Done(S, t)
          /\ r.t \in {"enq", "deq"} /\ r.x = NoXid => Done(More(S, p, r), t) = Done(S, t) \cup (IF r.t = t THEN {r.m} ELSE {})
      BY <2>1, DoneMore
    <3>2. r.t \in {"enq", "deq"} /\ (r.t = t <=> t = "deq") BY <1>4
    <3> QED BY <1>4, <1>8, <3>1, <3>2
  <2>3. Done(S2, "enq") = Done(S, "enq") BY <2>2
  <2>4. Done(S2, "deq") = Done(S, "deq") \cup (IF y = NoXid THEN {m} ELSE {}) BY <2>2
  <2> QED BY <2>3, <2>4 DEF Live
<1>20. \A x \in Xids : OpenIn(S2, x, "deq") = OpenIn(S, x, "deq") \cup (IF y = x THEN {m} ELSE {})
  <2>1. Later(S, p) /\ InOrder(More(S, p, r)) BY <1>8, <1>10, <1>12
  <2>2. \A x \in Xids : OpenIn(More(S, p, r), x, "deq") = OpenIn(S, x, "deq") \cup (IF r.x = x THEN {r.m} ELSE {})
    BY <1>4, <2>1, DeqOpens
  <2> QED BY <1>4, <1>8, <2>2
<1>21. \A x \in Xids : Dropped(x)' = Dropped(x) BY DEF Stays, Dropped
<1>22. y \in Xids => ~Dropped(y) BY DEF Dropped
<1>23. Free(q)' = Free(q) \ {m}
  <2>1. {x \in Xids : ~Dropped(x)'} = {x \in Xids : ~Dropped(x)} BY <1>21
  <2>2. PICK Z : Z = {z \in Xids : ~Dropped(z)} OBVIOUS
  <2>3. Free(q) = Live(S) \ UNION {OpenIn(S, x, "deq") : x \in Z} BY <1>6, <2>2 DEF Free, Open
  <2>4. Free(q)' = Live(S2) \ UNION {OpenIn(S2, x, "deq") : x \in Z}
    BY <1>9, <2>1, <2>2 DEF Free, Open, Live, Done, Effective, EndedBy, OpAt, OpenIn, IsEnd
  <2>5. Z \subseteq Xids /\ (y \in Xids => y \in Z) BY <1>22, <2>2
  <2>6. CASE y = NoXid
    <3>1. \A x \in Xids : y # x BY <2>6, XidAssumption
    <3>2. \A x \in Z : OpenIn(S2, x, "deq") = OpenIn(S, x, "deq") BY <1>20, <2>5, <3>1
    <3> QED BY <1>19, <2>3, <2>4, <2>6, <3>2
  <2>7. CASE y \in Xids
    <3>1. Live(S2) = Live(S) BY <1>19, <2>7, XidAssumption
    <3>2. UNION {OpenIn(S2, x, "deq") : x \in Z} = (UNION {OpenIn(S, x, "deq") : x \in Z}) \cup {m}
      <4>1. \A x \in Z : OpenIn(S2, x, "deq") = OpenIn(S, x, "deq") \cup (IF y = x THEN {m} ELSE {}) BY <1>20, <2>5
      <4>2. y \in Z BY <2>5, <2>7
      <4>3. \A x \in Z : \A k : k \in OpenIn(S2, x, "deq") <=> k \in OpenIn(S, x, "deq") \/ (x = y /\ k = m) BY <4>1
      <4>4. \A k : k \in UNION {OpenIn(S2, x, "deq") : x \in Z} <=> \E x \in Z : k \in OpenIn(S2, x, "deq") OBVIOUS
      <4>5. \A k : k \in UNION {OpenIn(S, x, "deq") : x \in Z} <=> \E x \in Z : k \in OpenIn(S, x, "deq") OBVIOUS
      <4>6. \A k : (\E x \in Z : k \in OpenIn(S2, x, "deq")) <=> (\E x \in Z : k \in OpenIn(S, x, "deq")) \/ k = m BY <4>2, <4>3
      <4>7. \A k : k \in UNION {OpenIn(S2, x, "deq") : x \in Z} <=> k \in UNION {OpenIn(S, x, "deq") : x \in Z} \/ k = m
        BY <4>4, <4>5, <4>6
      <4> QED BY <4>7
    <3>3. PICK A : A = UNION {OpenIn(S, x, "deq") : x \in Z} OBVIOUS
    <3>4. Free(q) = Live(S) \ A BY <2>3, <3>3
    <3>5. PICK B : B = UNION {OpenIn(S2, x, "deq") : x \in Z} OBVIOUS
    <3>6. B = A \cup {m}
      <4>1. B = (UNION {OpenIn(S, x, "deq") : x \in Z}) \cup {m} BY <3>2, <3>5, Zenon
      <4> QED BY <3>3, <4>1, Zenon
    <3>7. Free(q)' = Live(S) \ B BY <2>4, <3>1, <3>5
    <3> QED BY <3>4, <3>6, <3>7
  <2> QED BY <2>6, <2>7
<1>24. avail'[q] = avail[q] \ {m} /\ avail' \in [Queues -> SUBSET Msgs]
       /\ \A k \in Queues : k # q => avail'[k] = avail[k]
  BY DEF Book
<1>25. avail[q] \subseteq Free(q) /\ \A k \in Free(q) \ avail[q] : \E x \in Xids : Ending(x) /\ k \in Due(q, x)
  BY <1>1 DEF QueueInv, AvailInv
<1>26. AvailInv(q)'
  <2>1. avail'[q] \subseteq Free(q)' BY <1>23, <1>24, <1>25
  <2>2. ASSUME NEW k \in Free(q)' \ avail'[q] PROVE \E x \in Xids : Ending(x)' /\ k \in Due(q, x)'
    <3>1. k \in Free(q) \ avail[q] BY <1>23, <1>24, <2>2
    <3>2. PICK x \in Xids : Ending(x) /\ k \in Due(q, x) BY <1>25, <3>1
    <3> QED BY <3>2, DueStays
  <2> QED BY <1>16, <2>1, <2>2 DEF AvailInv
<1>27. Given(q)'
  <2> SUFFICES ASSUME NEW e \in S2, e.is.x # NoXid, e.is.m \in avail'[q]
               PROVE (e.is.t = "enq" => Over(e.is.x)') /\ (e.is.t = "deq" => Undone(e.is.x)')
    BY <1>9 DEF Given
  <2>1. e.is.m \in avail[q] /\ e.is.m # m BY <1>24
  <2>2. e \in S
    <3>1. e \notin S => e.is = r BY <1>8 DEF More
    <3> QED BY <1>4, <2>1, <3>1
  <2> QED BY <1>6, <1>10, <2>1, <2>2, GivenStays
<1>28. ASSUME NEW k \in Queues PROVE QueueInv(k)'
  <2>1. CASE k = q BY <1>15, <1>18, <1>26, <1>27, <2>1 DEF QueueInv
  <2>2. CASE k # q
    <3>1. k \in Journals BY TplIsJournal
    <3>2. log'[k] = log[k] /\ maps'[k] = maps[k] BY <1>4, <2>2, <3>1, WriteAll
    <3>3. QueueInv(k) BY DEF Book
    <3> QED BY <1>24, <2>2, <3>2, <3>3, QueueSame
  <2> QED BY <2>1, <2>2
<1> QED BY <1>24, <1>28 DEF Book

\* Operations outside transactions.
LEMMA PlainBook ==
    ASSUME Types, Types', Book, \A x \in Xids : TxnInv(x), NEW q \in Queues, NEW m \in Msgs, Enqueue(q, m) \/ Dequeue(q, m)
    PROVE  Book'
<1>1. \A x \in Xids : Quiet(x) BY QuietSteps
<1>2. \A x \in Xids : Keeps(x) /\ Stays(x) BY <1>1, QuietStays
<1>3. \A x \in Xids : ThreadInv(x)' BY <1>1, QuietThread DEF Book
<1>4. PICK y \in Xids \cup {NoXid} : y = NoXid OBVIOUS
<1>5. y \notin Xids BY <1>4, XidAssumption
<1>6. CASE Enqueue(q, m)
  <2>1. /\ Fresh(q, m) /\ IsUp /\ Write(q, Record("enq", m, y, FALSE)) /\ rec' = rec
        /\ avail' = [avail EXCEPT ![q] = @ \cup {m}]
    BY <1>4, <1>6 DEF Enqueue
  <2> QED BY <1>2, <1>3, <1>4, <1>5, <2>1, EnqBook
<1>7. CASE Dequeue(q, m)
  <2>1. /\ m \in avail[q] /\ IsUp /\ Write(q, Record("deq", m, y, FALSE)) /\ rec' = rec
        /\ avail' = [avail EXCEPT ![q] = @ \ {m}]
    BY <1>4, <1>7 DEF Dequeue
  <2> QED BY <1>2, <1>3, <1>5, <2>1, DeqBook
<1> QED BY <1>6, <1>7

\* An operation in a transaction is one of its records.
LEMMA TxnOpWork ==
    ASSUME Types, Types', Book, NEW x \in Xids, TxnInv(x), NEW q \in Queues, NEW m \in Msgs, NEW t \in {"enq", "deq"}, TxnOp(x, q, m, t)
    PROVE  /\ \A y \in Xids : Keeps(y) /\ Stays(y) /\ ThreadInv(y)'
           /\ m \in OpsOn(q, x, t)'
<1>1. \A y \in Xids : y # x => Quiet(y) BY TxnOpKeeps
<1>2. /\ ctx[x].pc = "open" /\ rec.phase = "up" /\ rec' = rec
      /\ ctx' = [ctx EXCEPT ![x].impacted = @ \cup {q}]
      /\ ops' = [ops EXCEPT ![x] = @ \cup {[q |-> q, m |-> m, t |-> t]}]
  BY DEF TxnOp, At, IsUp
<1>3. ctx[x] \in CtxType /\ ctx \in [Xids -> CtxType] /\ ops \in [Xids -> SUBSET OpType] BY DEF Types
<1>4. PICK o : o = [q |-> q, m |-> m, t |-> t] OBVIOUS
<1>5. o.q = q /\ o.m = m /\ o.t = t BY <1>4
<1>6. ops'[x] = ops[x] \cup {o} BY <1>2, <1>3, <1>4
<1>7. ctx'[x] = [ctx[x] EXCEPT !.impacted = @ \cup {q}] BY <1>2, <1>3
<1>8. ctx'[x].pc = "open" /\ ctx'[x].rcvd = ctx[x].rcvd BY <1>2, <1>3, <1>7 DEF CtxType
<1>9. \A k \in Queues, s \in {"enq", "deq"} : OpsOn(k, x, s) \subseteq OpsOn(k, x, s)' BY <1>6 DEF OpsOn
<1>10. m \in OpsOn(q, x, t)'
  <2>1. o \in {p \in ops'[x] : p.q = q /\ p.t = t} BY <1>5, <1>6
  <2> QED BY <1>5, <2>1 DEF OpsOn
<1>11. Keeps(x) BY <1>2, <1>8, <1>9, WorkStays
<1>12. Stays(x) BY <1>2, <1>8 DEF Stays, Ending, Stage, Waiting
<1>13. PICK r \in LogRec : r = Record(t, m, x, FALSE) BY RecordsAre
<1>14. r.x = x /\ Write(q, r) BY <1>13 DEF Record, TxnOp
<1>15. q \in Journals BY TplIsJournal
<1>16. /\ \A i \in Journals : i # q => RecsOf(i, x)' = RecsOf(i, x)
       /\ RecsOf(q, x)' = RecsOf(q, x) \cup {[at |-> Len(log[q]) + 1, is |-> r]}
  BY <1>14, <1>15, WriteDoes
<1>17. \A i \in Journals : \A e \in RecsOf(i, x) : e \in RecsOf(i, x)' BY <1>16
<1>18. LoggedInv(x)'
  <2> SUFFICES ASSUME NEW p \in ops'[x] PROVE \E e \in RecsOf(p.q, x)' : Does(e, p, x) BY DEF LoggedInv, Does
  <2>1. CASE p = o
    <3>1. PICK e : e = [at |-> Len(log[q]) + 1, is |-> r] OBVIOUS
    <3>2. e.is = r BY <3>1
    <3>3. Does(e, p, x) BY <1>5, <1>13, <2>1, <3>2 DEF Does
    <3> QED BY <1>5, <1>16, <2>1, <3>1, <3>3
  <2>2. CASE p \in ops[x]
    <3>1. p.q \in Journals BY <1>3, <2>2, TplIsJournal DEF OpType
    <3>2. LoggedInv(x) BY DEF Book, ThreadInv
    <3>3. \E e \in RecsOf(p.q, x) : Does(e, p, x) BY <1>2, <2>2, <3>2 DEF LoggedInv
    <3> QED BY <1>17, <3>1, <3>3
  <2> QED BY <1>6, <2>1, <2>2
<1>19. DoneInv(x)' BY <1>8 DEF DoneInv
<1>20. RcvdInv(x)'
  <2>1. RcvdInv(x) BY DEF Book, ThreadInv
  <2> QED BY <1>2, <1>8, <2>1 DEF RcvdInv
<1>21. ASSUME NEW y \in Xids PROVE Keeps(y) /\ Stays(y) /\ ThreadInv(y)'
  <2>1. CASE y = x BY <1>11, <1>12, <1>18, <1>19, <1>20, <2>1 DEF ThreadInv
  <2>2. CASE y # x BY <1>1, <2>2, QuietStays, QuietThread DEF Book
  <2> QED BY <2>1, <2>2
<1> QED BY <1>10, <1>21

\* Operations in transactions.
LEMMA TxnOpsBook ==
    ASSUME Types, Types', Book, \A x \in Xids : TxnInv(x), NEW x \in Xids, NEW q \in Queues, NEW m \in Msgs,
           TxnEnqueue(x, q, m) \/ TxnDequeue(x, q, m)
    PROVE  Book'
<1>1. PICK y \in Xids \cup {NoXid} : y = x OBVIOUS
<1>2. y # NoXid BY <1>1, XidAssumption
<1>3. TxnInv(x) OBVIOUS
<1>4. CASE TxnEnqueue(x, q, m)
  <2>1. TxnOp(x, q, m, "enq") BY <1>4 DEF TxnEnqueue
  <2>2. /\ \A z \in Xids : Keeps(z) /\ Stays(z) /\ ThreadInv(z)'
        /\ m \in OpsOn(q, x, "enq")'
    BY <1>3, <2>1, TxnOpWork
  <2>3. Fresh(q, m) /\ IsUp /\ Write(q, Record("enq", m, y, FALSE)) /\ rec' = rec /\ avail' = avail /\ ctx[x].pc = "open"
    BY <1>1, <1>4 DEF TxnEnqueue, TxnOp, At
  <2> QED BY <1>1, <1>2, <2>2, <2>3, EnqBook
<1>5. CASE TxnDequeue(x, q, m)
  <2>1. TxnOp(x, q, m, "deq") BY <1>5 DEF TxnDequeue
  <2>2. /\ \A z \in Xids : Keeps(z) /\ Stays(z) /\ ThreadInv(z)'
        /\ m \in OpsOn(q, x, "deq")'
    BY <1>3, <2>1, TxnOpWork
  <2>3. /\ m \in avail[q] /\ IsUp /\ Write(q, Record("deq", m, y, FALSE)) /\ rec' = rec /\ ctx[x].pc = "open"
        /\ avail' = [avail EXCEPT ![q] = @ \ {m}]
    BY <1>1, <1>5 DEF TxnDequeue, TxnOp, At
  <2> QED BY <1>1, <2>2, <2>3, DeqBook
<1> QED BY <1>4, <1>5

-----------------------------------------------------------------------------
(* The end of a transaction in the journal of a queue.                     *)

\* What an end does to the messages of a log: a commit lets the operations of its
\* transaction take effect, and either end leaves none of them open.
LEMMA EndMore ==
    ASSUME NEW S, NEW r \in LogRec, NEW p \in Nat, Later(S, p), InOrder(More(S, p, r)), IsEnd(r)
    PROVE  /\ \A x \in Xids : \A m : m \in OpenIn(More(S, p, r), x, "deq") <=> m \in OpenIn(S, x, "deq") /\ x # r.x
           /\ \A x \in Xids : \A m : m \in OpenIn(More(S, p, r), x, "enq") <=> m \in OpenIn(S, x, "enq") /\ x # r.x
           /\ r.t = "commit" => \A m : m \in Live(More(S, p, r)) <=>
                 /\ m \in Done(S, "enq") \/ m \in OpenIn(S, r.x, "enq")
                 /\ m \notin Done(S, "deq") /\ m \notin OpenIn(S, r.x, "deq")
           /\ r.t = "abort" => Live(More(S, p, r)) = Live(S)
<1>0. PICK S2 : S2 = More(S, p, r) OBVIOUS
<1>1. PICK n : n = [at |-> p, is |-> r] OBVIOUS
<1>2. n.at = p /\ n.is = r /\ S2 = S \cup {n} BY <1>0, <1>1 DEF More
<1>3. \A e \in S : e.at \in Nat /\ e.at < n.at /\ ~(n.at < e.at) BY <1>2 DEF Later
<1>4. r.t \in {"commit", "abort"} /\ \A m : ~OpAt(n, "enq", m) /\ ~OpAt(n, "deq", m) BY <1>2 DEF IsEnd, OpAt
<1>5. ASSUME NEW t \in {"enq", "deq"}, NEW x \in Xids, NEW m PROVE m \in OpenIn(S2, x, t) <=> m \in OpenIn(S, x, t) /\ x # r.x
  <2>1. ~OpAt(n, t, m) BY <1>4
  <2>2. CASE x # r.x BY <1>2, <2>1, <2>2 DEF OpenIn
  <2>3. CASE x = r.x BY <1>2, <1>3, <2>1, <2>3 DEF OpenIn
  <2> QED BY <2>2, <2>3
<1>6. ASSUME r.t = "commit", NEW t \in {"enq", "deq"}, NEW m
      PROVE  m \in Done(S2, t) <=> m \in Done(S, t) \/ m \in OpenIn(S, r.x, t)
  <2>1. \A e \in S : Effective(S2, e) <=> Effective(S, e) \/ e.is.x = r.x
    BY <1>2, <1>3, <1>6 DEF Effective, EndedBy
  <2>2. ~OpAt(n, t, m) BY <1>4
  <2>3. m \in OpenIn(S, r.x, t) => m \in Done(S2, t) BY <1>2, <2>1 DEF OpenIn, Done
  <2>4. m \in Done(S, t) => m \in Done(S2, t) BY <1>2, <2>1 DEF Done
  <2>5. ASSUME m \in Done(S2, t), m \notin Done(S, t) PROVE m \in OpenIn(S, r.x, t)
    <3>1. PICK e \in S : OpAt(e, t, m) /\ Effective(S2, e) BY <1>2, <2>2, <2>5 DEF Done
    <3>2. m \in Msgs /\ e.is.x = r.x /\ ~Effective(S, e) BY <2>1, <2>5, <3>1 DEF Done
    <3>3. ASSUME NEW d \in S, d.is.x = r.x, IsEnd(d.is) PROVE d.at < e.at
      <4>1. CASE d.is.t = "commit"
        <5>1. ~(e.at < d.at) BY <3>2, <3>3, <4>1 DEF Effective, EndedBy
        <5>2. d # e BY <3>1, <4>1 DEF OpAt
        <5>3. IsOp(e.is) BY <3>1 DEF OpAt, IsOp
        <5>4. d \in S2 /\ e \in S2 BY <1>2
        <5>5. e.at < d.at BY <1>0, <3>2, <3>3, <5>3, <5>4 DEF InOrder
        <5> QED BY <5>1, <5>5
      <4>2. CASE d.is.t = "abort"
        <5>1. d \in S2 /\ n \in S2 /\ n.is.t = "commit" /\ n.is.x = r.x BY <1>2, <1>6
        <5> QED BY <1>0, <3>3, <4>2, <5>1 DEF InOrder
      <4> QED BY <3>3, <4>1, <4>2 DEF IsEnd
    <3> QED BY <3>1, <3>2, <3>3 DEF OpenIn
  <2> QED BY <2>3, <2>4, <2>5
<1>7. r.t = "commit" => \A m : m \in Live(S2) <=>
                 /\ m \in Done(S, "enq") \/ m \in OpenIn(S, r.x, "enq")
                 /\ m \notin Done(S, "deq") /\ m \notin OpenIn(S, r.x, "deq")
  BY <1>6 DEF Live
<1>8. r.t = "abort" => Live(S2) = Live(S)
  <2> SUFFICES ASSUME r.t = "abort" PROVE Live(S2) = Live(S) OBVIOUS
  <2>1. \A e \in S : Effective(S2, e) <=> Effective(S, e) BY <1>2 DEF Effective, EndedBy
  <2>2. \A m : ~OpAt(n, "enq", m) /\ ~OpAt(n, "deq", m) BY <1>4
  <2>3. Done(S2, "enq") = Done(S, "enq") /\ Done(S2, "deq") = Done(S, "deq") BY <1>2, <2>1, <2>2 DEF Done
  <2> QED BY <2>3 DEF Live
<1> QED BY <1>0, <1>5, <1>7, <1>8

\* A transaction that is being closed in its queues has not ended the other way.
LEMMA ClosesOneWay ==
    ASSUME Types, NEW x \in Xids, TxnInv(x), ctx[x].pc = "close", NEW q \in Queues
    PROVE  /\ ctx[x].commit => ~HasIn(RecsOf(q, x), "abort")
           /\ ~ctx[x].commit => ~HasIn(RecsOf(q, x), "commit")
<1>1. Stage(x) = "close" BY DEF Stage, Waiting
<1>2. ~ctx[x].commit => ~HasIn(RecsOf(q, x), "commit") BY <1>1 DEF TxnInv, ProgressInv, CommitFree
<1>3. ASSUME ctx[x].commit PROVE ~HasIn(RecsOf(q, x), "abort")
  <2>1. ctx[x].prepared BY <1>1, <1>3 DEF TxnInv, ShapeInv
  <2>2. PICK e \in RecsOf(TPL, x) : e.is.t = "deq" /\ e.is.flag = ctx[x].commit BY <1>1, <2>1 DEF TxnInv, ListStage
  <2>3. ctx[x].commit = TRUE BY <1>3 DEF Types, CtxType
  <2>4. ~Decided(x, FALSE) BY <2>2, <2>3 DEF TxnInv, ListOrder, Decided
  <2> QED BY <2>2, <2>4 DEF TxnInv, QueueOrder
<1> QED BY <1>2, <1>3

\* The thread of a transaction that is closed in a queue.
LEMMA CommitQueueWork ==
    ASSUME Types, Types', Book, NEW x \in Xids, TxnInv(x), NEW q \in Queues, CommitQueue(x, q)
    PROVE  \A y \in Xids : Keeps(y) /\ Stays(y) /\ ThreadInv(y)'
<1>1. \A y \in Xids : y # x => Quiet(y) BY CommitQueueKeeps
<1>2. /\ ctx[x].pc = "close" /\ rec' = rec /\ ops' = ops /\ Write(q, EndRecord(x))
      /\ ctx' = [ctx EXCEPT ![x] = [AfterEnd(x, "close") EXCEPT !.left = @ \ {q}]]
  BY DEF CommitQueue, At, histVars
<1>3. ctx[x] \in CtxType /\ ctx \in [Xids -> CtxType] /\ ops \in [Xids -> SUBSET OpType] BY DEF Types
<1>4. /\ AfterEnd(x, "close") \in CtxType /\ AfterEnd(x, "close").commit = ctx[x].commit
      /\ IF ctx[x].commit THEN AfterEnd(x, "close").pc = "flush" /\ AfterEnd(x, "close").then = "close"
                          ELSE AfterEnd(x, "close").pc = "close"
  BY <1>3, AfterEndIs
<1>5. AfterEnd(x, "close").rcvd = ctx[x].rcvd BY <1>3 DEF AfterEnd, StartSync, CtxType
<1>6. PICK c \in CtxType : c = AfterEnd(x, "close") BY <1>4
<1>7. ctx'[x] = [c EXCEPT !.left = @ \ {q}] BY <1>2, <1>3, <1>6
<1>8. /\ ctx'[x].commit = ctx[x].commit /\ ctx'[x].rcvd = ctx[x].rcvd
      /\ ctx'[x].pc = c.pc /\ ctx'[x].then = c.then
  BY <1>4, <1>5, <1>6, <1>7 DEF CtxType
<1>9. ctx'[x].pc \in {"flush", "close"} /\ Stage(x)' = "close" BY <1>4, <1>6, <1>8 DEF Stage, Waiting
<1>10. Stage(x) = "close" BY <1>2 DEF Stage, Waiting
<1>11. \A k \in Queues, t \in {"enq", "deq"} : OpsOn(k, x, t) \subseteq OpsOn(k, x, t)' BY <1>2 DEF OpsOn
<1>12. Keeps(x) BY <1>2, <1>8, <1>9, <1>11, WorkStays
<1>13. Stays(x) BY <1>2, <1>8, <1>9 DEF Stays, Ending
<1>14. PICK r \in LogRec : r = EndRecord(x) /\ r.x = x BY <1>3, EndRecordIs
<1>15. q \in Journals /\ Write(q, r) BY <1>2, <1>14, TplIsJournal
<1>16. /\ \A i \in Journals : i # q => RecsOf(i, x)' = RecsOf(i, x)
       /\ RecsOf(q, x)' = RecsOf(q, x) \cup {[at |-> Len(log[q]) + 1, is |-> r]}
  BY <1>14, <1>15, WriteDoes
<1>17. \A i \in Journals : \A e \in RecsOf(i, x) : e \in RecsOf(i, x)' BY <1>16
<1>18. LoggedInv(x)'
  <2> SUFFICES ASSUME NEW o \in ops[x] PROVE \E e \in RecsOf(o.q, x)' : Does(e, o, x) BY <1>2 DEF LoggedInv, Does
  <2>1. o.q \in Journals BY <1>3, TplIsJournal DEF OpType
  <2>2. LoggedInv(x) BY DEF Book, ThreadInv
  <2>3. \E e \in RecsOf(o.q, x) : Does(e, o, x) BY <1>2, <2>2 DEF LoggedInv
  <2> QED BY <1>17, <2>1, <2>3
<1>19. DoneInv(x)' BY <1>9 DEF DoneInv
<1>20. RcvdInv(x)'
  <2>1. RcvdInv(x) BY DEF Book, ThreadInv
  <2>2. Completes(x)' = Completes(x) /\ rec'.phase = rec.phase /\ rec'.prep = rec.prep /\ rec'.list = rec.list
    BY <1>2 DEF Completes
  <2>3. CASE rec.phase = "txns"
    <3>1. x \in rec.prep /\ Completes(x) /\ ctx[x].commit = rec.list[x].commit /\ ctx[x].rcvd
      BY <1>2, <2>1, <2>3 DEF RcvdInv
    <3> QED BY <1>8, <1>9, <2>2, <2>3, <3>1 DEF RcvdInv
  <2>4. CASE rec.phase # "txns"
    <3>1. ~ctx[x].rcvd BY <1>2, <2>1, <2>4 DEF RcvdInv
    <3> QED BY <1>8, <2>2, <2>4, <3>1 DEF RcvdInv
  <2> QED BY <2>3, <2>4
<1>21. ASSUME NEW y \in Xids PROVE Keeps(y) /\ Stays(y) /\ ThreadInv(y)'
  <2>1. CASE y = x BY <1>12, <1>13, <1>18, <1>19, <1>20, <2>1 DEF ThreadInv
  <2>2. CASE y # x BY <1>1, <2>2, QuietStays, QuietThread DEF Book
  <2> QED BY <2>1, <2>2
<1> QED BY <1>21

\* The record that ends transaction x in a queue.
LEMMA CommitQueueBook ==
    ASSUME Types, Types', Book, \A x \in Xids : TxnInv(x), NEW x \in Xids, NEW q \in Queues, CommitQueue(x, q)
    PROVE  Book'
<1>1. TxnInv(x) /\ QueueInv(q) /\ ThreadInv(x) BY DEF Book
<1>2. \A y \in Xids : Keeps(y) /\ Stays(y) /\ ThreadInv(y)' BY <1>1, CommitQueueWork
<1>3. ctx[x].pc = "close" /\ rec' = rec /\ avail' = avail /\ Write(q, EndRecord(x)) BY DEF CommitQueue, At
<1>4. ctx[x] \in CtxType BY DEF Types
<1>5. PICK r \in LogRec : /\ r = EndRecord(x) /\ r.x = x /\ IsEnd(r) /\ ~IsOp(r)
                          /\ r.t = IF ctx[x].commit THEN "commit" ELSE "abort"
  BY <1>4, EndRecordIs
<1>6. Write(q, r) BY <1>3, <1>5
<1>7. /\ \A e \in All(q) : e.at \in Nat /\ e.is \in LogRec /\ e.is.x \in Xids \cup {NoXid}
      /\ \A y \in Xids : RecsOf(q, y) = {e \in All(q) : e.is.x = y}
      /\ Later(All(q), Len(log[q]) + 1) /\ Len(log[q]) \in Nat
  BY AllFacts
<1>8. PICK S : S = All(q) OBVIOUS
<1>9. PICK p \in Nat : p = Len(log[q]) + 1 BY <1>7
<1>10. PICK S2 : S2 = More(S, p, r) OBVIOUS
<1>11. All(q)' = S2 BY <1>6, <1>8, <1>9, <1>10, WriteAll
<1>12. InOrder(S) /\ Later(S, p) /\ LogInv(q) BY <1>1, <1>7, <1>8, <1>9 DEF QueueInv, LogInv
<1>13. \A c \in S : IsEnd(c.is) /\ c.is.x = x => c.is.t = r.t
  <2>1. /\ ctx[x].commit => ~HasIn(RecsOf(q, x), "abort")
        /\ ~ctx[x].commit => ~HasIn(RecsOf(q, x), "commit")
    BY <1>1, <1>3, ClosesOneWay
  <2> QED BY <1>5, <1>7, <1>8, <2>1 DEF HasIn, IsEnd
<1>14. InOrder(S2)
  <2>1. \A c \in S : IsEnd(c.is) /\ c.is.x = r.x => c.is.t = r.t BY <1>5, <1>13
  <2> QED BY <1>5, <1>10, <1>12, <2>1, EndOrder
<1>15. LogInv(q)'
  <2>1. \A y \in Xids : Keeps(y) BY <1>2
  <2>2. r.t \notin {"enq", "deq"} BY <1>5
  <2>3. InOrder(All(q)') BY <1>11, <1>14
  <2>4. ASSUME r.t = "commit", NEW d \in All(q), NEW k \in All(q), d.is.t = "deq" /\ OpAt(k, "deq", d.is.m) /\ d.at < k.at
        PROVE  d.is.x # r.x
    <3>1. Lost(d.is.x) \/ \E c \in All(q) : c.is.t = "abort" /\ c.is.x = d.is.x BY <1>12, <2>4 DEF LogInv, Rivals
    <3>2. ~Lost(x) BY <1>3 DEF Lost
    <3>3. ~\E c \in All(q) : c.is.t = "abort" /\ c.is.x = x BY <1>8, <1>13, <2>4 DEF IsEnd
    <3> QED BY <1>5, <3>1, <3>2, <3>3
  <2>5. ~IsOp(r) BY <1>5
  <2>6. r.t = "commit" => \A d, k \in All(q) : d.is.t = "deq" /\ OpAt(k, "deq", d.is.m) /\ d.at < k.at => d.is.x # r.x
    BY <2>4
  <2> QED BY <1>6, <1>12, <2>1, <2>2, <2>3, <2>5, <2>6, LogWrite
<1>16. rec.phase \in {"txns", "up"} BY <1>1, <1>3, Working
<1>17. Rebuilt(q) /\ Rebuilt(q)' /\ IsUp' = IsUp BY <1>3, <1>16 DEF Rebuilt, IsUp
<1>18. maps'[q].emap = Live(S2)
  <2>1. EmapInv(q) BY <1>1 DEF QueueInv
  <2>2. q \in Journals /\ ctx[x].pc # "gone" BY <1>3, TplIsJournal
  <2>3. Match(HeldOf(q, x), RecsOf(q, x), cmpl[q]) BY <1>1, <1>16, <2>2, Matched
  <2>4. r.x \in Xids => Match(HeldOf(q, r.x), RecsOf(q, r.x), cmpl[q]) BY <1>5, <2>3
  <2>5. InOrder(All(q)) /\ InOrder(All(q)') BY <1>8, <1>11, <1>12, <1>14
  <2> QED BY <1>6, <1>11, <1>17, <2>1, <2>4, <2>5, EmapWrite
<1>19. EmapInv(q)' BY <1>11, <1>18 DEF EmapInv, Live, Done, Effective, EndedBy, OpAt
<1>20. /\ \A y \in Xids : \A m : m \in OpenIn(S2, y, "deq") <=> m \in OpenIn(S, y, "deq") /\ y # x
       /\ \A y \in Xids : \A m : m \in OpenIn(S2, y, "enq") <=> m \in OpenIn(S, y, "enq") /\ y # x
       /\ ctx[x].commit => \A m : m \in Live(S2) <=>
             /\ m \in Done(S, "enq") \/ m \in OpenIn(S, x, "enq")
             /\ m \notin Done(S, "deq") /\ m \notin OpenIn(S, x, "deq")
       /\ ~ctx[x].commit => Live(S2) = Live(S)
  <2>1. Later(S, p) /\ InOrder(More(S, p, r)) BY <1>10, <1>12, <1>14
  <2>2. /\ \A y \in Xids : \A m : m \in OpenIn(More(S, p, r), y, "deq") <=> m \in OpenIn(S, y, "deq") /\ y # r.x
        /\ \A y \in Xids : \A m : m \in OpenIn(More(S, p, r), y, "enq") <=> m \in OpenIn(S, y, "enq") /\ y # r.x
        /\ r.t = "commit" => \A m : m \in Live(More(S, p, r)) <=>
             /\ m \in Done(S, "enq") \/ m \in OpenIn(S, r.x, "enq")
             /\ m \notin Done(S, "deq") /\ m \notin OpenIn(S, r.x, "deq")
        /\ r.t = "abort" => Live(More(S, p, r)) = Live(S)
    BY <1>5, <2>1, EndMore
  <2> QED BY <1>5, <1>10, <2>2
<1>21. \A m : m \in Live(S) <=> m \in Done(S, "enq") /\ m \notin Done(S, "deq") BY DEF Live
<1>22. \A y \in Xids : Dropped(y)' = Dropped(y) BY <1>2, <1>3 DEF Stays, Dropped
<1>23. ~Dropped(x) BY <1>3 DEF Dropped
<1>24. \A m : m \in Free(q) <=> m \in Live(S) /\ \A y \in Xids : m \in OpenIn(S, y, "deq") => Dropped(y)
  BY <1>8 DEF Free, Open
<1>25. \A m : m \in Free(q)' <=> m \in Live(S2) /\ \A y \in Xids : m \in OpenIn(S2, y, "deq") => Dropped(y)
  <2>1. Free(q)' = Live(S2) \ UNION {OpenIn(S2, y, "deq") : y \in {z \in Xids : ~Dropped(z)'}}
    BY <1>11 DEF Free, Open, Live, Done, Effective, EndedBy, OpAt, OpenIn, IsEnd
  <2> QED BY <1>22, <2>1
<1>26. ASSUME NEW t \in {"enq", "deq"}, NEW m \in OpenIn(S, x, t) PROVE m \in OpsOn(q, x, t)
  <2>1. PICK e \in S : OpAt(e, t, m) /\ e.is.x = x BY DEF OpenIn
  <2>2. IsOp(e.is) /\ e.is.x # NoXid BY <2>1, XidAssumption DEF OpAt, IsOp
  <2> QED BY <1>8, <1>12, <2>1, <2>2 DEF LogInv, Known, OpAt
<1>27. IsUp => AvailInv(q)'
  <2> SUFFICES ASSUME IsUp PROVE AvailInv(q)' OBVIOUS
  <2>1. avail[q] \subseteq Free(q) /\ \A k \in Free(q) \ avail[q] : \E y \in Xids : Ending(y) /\ k \in Due(q, y)
    BY <1>1 DEF QueueInv, AvailInv
  <2>2. Ending(x) BY <1>3 DEF Ending, Stage, Waiting
  <2>3. ASSUME NEW m \in avail[q] PROVE m \in Free(q)'
    <3>1. m \in Live(S) /\ \A y \in Xids : m \in OpenIn(S, y, "deq") => Dropped(y) BY <1>24, <2>1, <2>3
    <3>2. m \notin OpenIn(S, x, "deq") BY <1>23, <3>1
    <3>3. m \in Live(S2) BY <1>20, <1>21, <3>1, <3>2
    <3> QED BY <1>20, <1>25, <3>1, <3>3
  <2>4. ASSUME NEW m \in Free(q)' \ avail'[q] PROVE \E y \in Xids : Ending(y)' /\ m \in Due(q, y)'
    <3>1. CASE m \in Free(q)
      <4>1. PICK y \in Xids : Ending(y) /\ m \in Due(q, y) BY <1>3, <2>1, <2>4, <3>1
      <4> QED BY <1>2, <4>1, DueStays
    <3>2. CASE m \notin Free(q)
      <4>1. m \in Live(S2) /\ \A y \in Xids : m \in OpenIn(S2, y, "deq") => Dropped(y) BY <1>25, <2>4
      <4>2. \A y \in Xids : y # x => (m \in OpenIn(S, y, "deq") => Dropped(y)) BY <1>20, <4>1
      <4>3. m \in Live(S) => m \in OpenIn(S, x, "deq") BY <1>24, <3>2, <4>2
      <4>4. ctx[x].commit => m \in OpenIn(S, x, "enq") BY <1>20, <1>21, <4>1, <4>3
      <4>5. ~ctx[x].commit => m \in OpenIn(S, x, "deq") BY <1>20, <4>1, <4>3
      <4>6. m \in Due(q, x) BY <1>26, <4>4, <4>5 DEF Due
      <4> QED BY <1>2, <2>2, <4>6, DueStays
    <3> QED BY <3>1, <3>2
  <2>5. avail'[q] \subseteq Free(q)' BY <1>3, <2>3
  <2> QED BY <1>17, <2>4, <2>5 DEF AvailInv
<1>28. ~IsUp => AvailInv(q)'
  <2> SUFFICES ASSUME ~IsUp PROVE AvailInv(q)' OBVIOUS
  <2>1. avail[q] = Kept(q) \cup Coming(q) BY <1>1, <1>17 DEF QueueInv, AvailInv
  <2>2. rec.phase = "txns" BY <1>16 DEF IsUp
  <2>3. x \in rec.prep /\ Completes(x) /\ ctx[x].commit = rec.list[x].commit BY <1>1, <1>3, <2>2 DEF ThreadInv, RcvdInv
  <2>4. rec.prep \subseteq Xids BY DEF Types
  <2>5. \A m : m \in Kept(q) <=> m \in Live(S) /\ \A y \in rec.prep : m \in OpenIn(S, y, "deq") => Completes(y) /\ ~rec.list[y].commit
    BY <1>8 DEF Kept, Open
  <2>6. \A m : m \in Coming(q) <=> \E y \in rec.prep : Completes(y) /\ rec.list[y].commit /\ m \in OpenIn(S, y, "enq")
    BY <1>8 DEF Coming, Open
  <2>7. \A y : Completes(y)' = Completes(y) BY <1>3 DEF Completes
  <2>8. Live(All(q))' = Live(S2) /\ \A y : Open(q, y, "deq")' = OpenIn(S2, y, "deq") /\ Open(q, y, "enq")' = OpenIn(S2, y, "enq")
    BY <1>11 DEF Live, Done, Effective, EndedBy, OpAt, Open, OpenIn, IsEnd
  <2>9. \A m : m \in Kept(q)' <=> m \in Live(S2) /\ \A y \in rec.prep : m \in OpenIn(S2, y, "deq") => Completes(y) /\ ~rec.list[y].commit
    BY <1>3, <2>7, <2>8 DEF Kept
  <2>10. \A m : m \in Coming(q)' <=> \E y \in rec.prep : Completes(y) /\ rec.list[y].commit /\ m \in OpenIn(S2, y, "enq")
    BY <1>3, <2>7, <2>8 DEF Coming
  <2>11. CASE ~ctx[x].commit
    <3>1. ~rec.list[x].commit BY <2>3, <2>11
    <3>2. ASSUME NEW m PROVE m \in Kept(q)' <=> m \in Kept(q)
      <4>1. m \in Live(S2) <=> m \in Live(S) BY <1>20, <2>11
      <4>2. \A y \in rec.prep : y # x => (m \in OpenIn(S2, y, "deq") <=> m \in OpenIn(S, y, "deq")) BY <1>20, <2>4
      <4> QED BY <2>3, <2>5, <2>9, <3>1, <4>1, <4>2
    <3>3. ASSUME NEW m PROVE m \in Coming(q)' <=> m \in Coming(q)
      <4>1. \A y \in rec.prep : y # x => (m \in OpenIn(S2, y, "enq") <=> m \in OpenIn(S, y, "enq")) BY <1>20, <2>4
      <4> QED BY <2>6, <2>10, <3>1, <4>1
    <3>4. Kept(q)' = Kept(q) /\ Coming(q)' = Coming(q) BY <3>2, <3>3
    <3> QED BY <1>3, <1>17, <2>1, <3>4 DEF AvailInv
  <2>12. CASE ctx[x].commit
    <3>1. rec.list[x].commit BY <2>3, <2>12
    <3>2. ASSUME NEW m \in Kept(q) PROVE m \in Kept(q)'
      <4>1. m \in Live(S) /\ \A y \in rec.prep : m \in OpenIn(S, y, "deq") => Completes(y) /\ ~rec.list[y].commit BY <2>5, <3>2
      <4>2. m \notin OpenIn(S, x, "deq") BY <2>3, <3>1, <4>1
      <4>3. m \in Live(S2) BY <1>20, <1>21, <2>12, <4>1, <4>2
      <4>4. \A y \in rec.prep : m \in OpenIn(S2, y, "deq") => m \in OpenIn(S, y, "deq") BY <1>20, <2>4
      <4> QED BY <2>9, <4>1, <4>3, <4>4
    <3>3. ASSUME NEW m \in Coming(q) PROVE m \in Kept(q)' \/ m \in Coming(q)'
      <4>1. PICK y \in rec.prep : Completes(y) /\ rec.list[y].commit /\ m \in OpenIn(S, y, "enq") BY <2>6, <3>3
      <4>2. CASE y # x BY <1>20, <2>4, <2>10, <4>1, <4>2
      <4>3. CASE y = x
        <5>1. m \in OpenIn(S, x, "enq") BY <4>1, <4>3
        <5>2. \A d \in S : ~OpAt(d, "deq", m)
          <6>1. \A e \in S : e.at \in Nat BY <1>7, <1>8
          <6> QED BY <1>12, <5>1, <6>1, OpenNotDequeued
        <5>3. m \notin Done(S, "deq") /\ \A z \in Xids : m \notin OpenIn(S, z, "deq") BY <5>2 DEF Done, OpenIn
        <5>4. m \in Live(S2) BY <1>20, <2>12, <5>1, <5>3
        <5>5. \A z \in rec.prep : m \notin OpenIn(S2, z, "deq") BY <1>20, <2>4, <5>3
        <5> QED BY <2>9, <5>4, <5>5
      <4> QED BY <4>2, <4>3
    <3>4. ASSUME NEW m \in Kept(q)' PROVE m \in Kept(q) \/ m \in Coming(q)
      <4>1. m \in Live(S2) /\ \A y \in rec.prep : m \in OpenIn(S2, y, "deq") => Completes(y) /\ ~rec.list[y].commit BY <2>9, <3>4
      <4>2. m \notin OpenIn(S, x, "deq") /\ (m \in Live(S) \/ m \in OpenIn(S, x, "enq")) BY <1>20, <1>21, <2>12, <4>1
      <4>3. CASE m \in OpenIn(S, x, "enq") BY <2>3, <2>6, <3>1, <4>3
      <4>4. CASE m \in Live(S)
        <5>1. \A y \in rec.prep : m \in OpenIn(S, y, "deq") => m \in OpenIn(S2, y, "deq") BY <1>20, <2>4, <4>2
        <5> QED BY <2>5, <4>1, <4>4, <5>1
      <4> QED BY <4>2, <4>3, <4>4
    <3>5. ASSUME NEW m \in Coming(q)' PROVE m \in Coming(q)
      <4>1. PICK y \in rec.prep : Completes(y) /\ rec.list[y].commit /\ m \in OpenIn(S2, y, "enq") BY <2>10, <3>5
      <4>2. m \in OpenIn(S, y, "enq") BY <1>20, <2>4, <4>1
      <4> QED BY <2>6, <4>1, <4>2
    <3>6. Kept(q)' \cup Coming(q)' = Kept(q) \cup Coming(q) BY <3>2, <3>3, <3>4, <3>5
    <3> QED BY <1>3, <1>17, <2>1, <3>6 DEF AvailInv
  <2> QED BY <2>11, <2>12
<1>29. Given(q)'
  <2> SUFFICES ASSUME IsUp', NEW e \in S2, e.is.x # NoXid, e.is.m \in avail'[q]
               PROVE (e.is.t = "enq" => Over(e.is.x)') /\ (e.is.t = "deq" => Undone(e.is.x)')
    BY <1>11 DEF Given
  <2>1. CASE e \in S
    <3>1. Given(q) /\ IsUp /\ \A y \in Xids : Keeps(y) BY <1>1, <1>2, <1>17 DEF QueueInv
    <3>2. e.is.m \in avail[q] /\ e \in All(q) BY <1>3, <1>8, <2>1
    <3> QED BY <3>1, <3>2, GivenStays
  <2>2. CASE e \notin S
    <3>1. e.is = r BY <1>10, <2>2 DEF More
    <3> QED BY <1>5, <3>1
  <2> QED BY <2>1, <2>2
<1>30. ASSUME NEW k \in Queues PROVE QueueInv(k)'
  <2>1. CASE k = q BY <1>15, <1>19, <1>27, <1>28, <1>29, <2>1 DEF QueueInv
  <2>2. CASE k # q
    <3>1. k \in Journals BY TplIsJournal
    <3>2. log'[k] = log[k] /\ maps'[k] = maps[k] /\ avail'[k] = avail[k] BY <1>3, <1>6, <2>2, <3>1, WriteAll
    <3>3. QueueInv(k) BY DEF Book
    <3> QED BY <1>2, <1>3, <3>2, <3>3, QueueSame
  <2> QED BY <2>1, <2>2
<1> QED BY <1>2, <1>3, <1>30 DEF Book

-----------------------------------------------------------------------------
(* A call that ends a transaction returns.                                 *)

\* The records of a queue at one position are one record.
LEMMA OneRecord ==
    ASSUME Types, NEW q \in Queues
    PROVE  \A e, d \in All(q) : e = d \/ e.at < d.at \/ d.at < e.at
<1>1. PICK l \in Seq(LogRec) : l = log[q] BY AllFacts
<1>2. \A e \in AllOf(l) : e.at \in Nat BY AllAre
<1>3. \A e, d \in AllOf(l) : e.at = d.at => e = d BY AllAre
<1> QED BY <1>1, <1>2, <1>3 DEF All

\* What a committed transaction has enqueued is the broker's.
LEMMA ReturnEnqueued ==
    ASSUME Types, Book, NEW x \in Xids, TxnInv(x), ctx[x].pc = "return", ctx[x].commit, NEW q \in Queues, NEW m \in OpsOn(q, x, "enq")
    PROVE  /\ m \in Free(q)
           /\ \A e \in All(q) : e.is.m = m /\ IsOp(e.is) => e.is.t = "enq" /\ e.is.x = x
<1>1. LogInv(q) /\ InOrder(All(q)) BY DEF Book, QueueInv, LogInv
<1>2. Stage(x) = "return" BY DEF Stage, Waiting
<1>3. HasIn(RecsOf(TPL, x), "commit") BY <1>2 DEF TxnInv, ListStage
<1>4. PICK o \in ops[x] : o.q = q /\ o.m = m /\ o.t = "enq" BY DEF OpsOn
<1>5. m \in Msgs BY <1>4 DEF Types, OpType
<1>6. QueueOrder(x) BY DEF TxnInv
<1>7. PICK c \in RecsOf(q, x) : c.is.t = "commit" BY <1>3, <1>4, <1>6 DEF QueueOrder
<1>8. PICK d \in RecsOf(q, x) : Does(d, o, x) /\ d.at < c.at BY <1>4, <1>6, <1>7 DEF QueueOrder
<1>9. c \in All(q) /\ d \in All(q) /\ c.is.x = x /\ d.is.x = x BY <1>7, <1>8, AllFacts
<1>10. d.is.t = "enq" /\ d.is.m = m BY <1>4, <1>8 DEF Does, Record
<1>11. PICK S : S = All(q) OBVIOUS
<1>12. Effective(S, d) /\ OpAt(d, "enq", m) BY <1>7, <1>8, <1>9, <1>10, <1>11 DEF Effective, EndedBy, OpAt
<1>13. m \in Done(S, "enq") BY <1>5, <1>9, <1>11, <1>12 DEF Done
<1>14. ~Over(x) /\ x # NoXid BY XidAssumption DEF Over
<1>15. \A k \in S : ~OpAt(k, "deq", m)
  <2> SUFFICES ASSUME NEW k \in S, OpAt(k, "deq", m) PROVE FALSE OBVIOUS
  <2>1. k.is.t = "deq" /\ OpAt(d, "enq", k.is.m) BY <1>12 DEF OpAt
  <2>2. Over(d.is.x) BY <1>1, <1>9, <1>11, <1>14, <2>1 DEF LogInv, Released
  <2> QED BY <1>9, <1>14, <2>2
<1>16. m \notin Done(S, "deq") /\ \A y \in Xids : m \notin OpenIn(S, y, "deq") BY <1>15 DEF Done, OpenIn
<1>17. m \in Free(q) BY <1>11, <1>13, <1>16 DEF Free, Open, Live
<1>18. ASSUME NEW e \in S, e.is.m = m, IsOp(e.is) PROVE e.is.t = "enq" /\ e.is.x = x
  <2>1. e.is.t = "enq" BY <1>15, <1>18 DEF IsOp, OpAt
  <2>2. OpAt(d, "enq", e.is.m) BY <1>12, <1>18 DEF OpAt
  <2>3. e = d BY <1>1, <1>9, <1>11, <2>1, <2>2 DEF InOrder
  <2> QED BY <1>9, <2>1, <2>3
<1> QED BY <1>11, <1>17, <1>18

\* What an aborted transaction has dequeued is the broker's again.
LEMMA ReturnDequeued ==
    ASSUME Types, Book, \A y \in Xids : TxnInv(y), NEW x \in Xids, ctx[x].pc = "return", ~ctx[x].commit, ~ctx[x].rcvd, IsUp,
           NEW q \in Queues, NEW m \in OpsOn(q, x, "deq")
    PROVE  /\ m \in Free(q)
           /\ \A e \in All(q) : OpAt(e, "enq", m) /\ e.is.x # NoXid => Over(e.is.x)
           /\ \A e \in All(q) : OpAt(e, "deq", m) => e.is.x = x \/ Undone(e.is.x)
<1>1. LogInv(q) /\ InOrder(All(q)) /\ Rivals(q) /\ Released(q) BY DEF Book, QueueInv, LogInv
<1>2. TxnInv(x) /\ Stage(x) = "return" BY DEF Stage, Waiting
<1>3. CommitFree(x) /\ HeldOf(q, x) = {} BY <1>2 DEF TxnInv, ProgressInv
<1>4. PICK o \in ops[x] : o.q = q /\ o.m = m /\ o.t = "deq" BY DEF OpsOn
<1>5. m \in Msgs BY <1>4 DEF Types, OpType
<1>6. LoggedInv(x) BY DEF Book, ThreadInv
<1>7. PICK d \in RecsOf(q, x) : Does(d, o, x) BY <1>4, <1>6 DEF LoggedInv
<1>8. d \in All(q) /\ d.is.x = x /\ RecsOf(q, x) = {e \in All(q) : e.is.x = x} BY <1>7, AllFacts
<1>9. d.is.t = "deq" /\ d.is.m = m BY <1>4, <1>7 DEF Does, Record
<1>10. PICK S : S = All(q) OBVIOUS
<1>11. PICK e0 \in S : /\ OpAt(e0, "enq", m) /\ e0.at < d.at
                       /\ e0.is.x = NoXid \/ \E c \in S : c.is.t = "commit" /\ c.is.x = e0.is.x /\ e0.at < c.at /\ c.at < d.at
  BY <1>1, <1>8, <1>9, <1>10 DEF InOrder
<1>12. m \in Done(S, "enq") BY <1>5, <1>11 DEF Done, Effective, EndedBy
<1>13. ~Undone(x) /\ ~Lost(x) /\ x # NoXid BY XidAssumption DEF Undone, Lost
\* Dequeues before d had no effect, and there are none after it.
<1>14. ASSUME NEW k \in S, OpAt(k, "deq", m)
       PROVE  \/ k = d
              \/ /\ ~Effective(S, k)
                 /\ Lost(k.is.x) \/ (Undone(k.is.x) /\ \E c \in S : c.is.t = "abort" /\ c.is.x = k.is.x /\ k.at < c.at)
  <2>1. OpAt(d, "deq", k.is.m) /\ OpAt(k, "deq", d.is.m) /\ k.is.t = "deq" BY <1>9, <1>14 DEF OpAt
  <2>2. CASE k.at < d.at
    <3>1. /\ k.is.x # NoXid /\ ~EndedBy(S, k, "commit")
          /\ Lost(k.is.x) \/ (Undone(k.is.x) /\ \E c \in S : c.is.t = "abort" /\ c.is.x = k.is.x /\ k.at < c.at)
      BY <1>1, <1>8, <1>10, <2>1, <2>2 DEF Rivals
    <3> QED BY <3>1 DEF Effective
  <2>3. CASE d.at < k.at
    <3>1. Lost(d.is.x) \/ Undone(d.is.x) BY <1>1, <1>8, <1>9, <1>10, <2>1, <2>3 DEF Rivals
    <3> QED BY <1>8, <1>13, <3>1
  <2> QED BY <1>8, <1>10, <2>2, <2>3, OneRecord
<1>15. ~Effective(S, d)
  <2> SUFFICES ASSUME Effective(S, d) PROVE FALSE OBVIOUS
  <2>1. PICK c \in S : c.is.t = "commit" /\ c.is.x = x BY <1>8, <1>13 DEF Effective, EndedBy
  <2> QED BY <1>3, <1>8, <1>10, <2>1 DEF CommitFree, HasIn
<1>16. m \notin Done(S, "deq") BY <1>14, <1>15 DEF Done
<1>17. ASSUME NEW y \in Xids, m \in OpenIn(S, y, "deq") PROVE Dropped(y)
  <2>1. PICK k \in S : /\ OpAt(k, "deq", m) /\ k.is.x = y
                       /\ \A c \in S : c.is.x = y /\ IsEnd(c.is) => c.at < k.at
    BY <1>17 DEF OpenIn
  <2>2. CASE k = d
    <3>1. y = x BY <1>8, <2>1, <2>2
    <3>2. rec.phase \in {"txns", "up"} /\ ctx[x].pc # "gone" /\ q \in Journals BY TplIsJournal DEF IsUp
    <3>3. Match(HeldOf(q, x), RecsOf(q, x), cmpl[q]) BY <1>2, <3>2, Matched
    <3>4. \A c \in RecsOf(q, x) : IsEnd(c.is) => c.at < d.at BY <1>8, <1>10, <2>1, <2>2, <3>1
    <3>5. IsOp(d.is) BY <1>9 DEF IsOp
    <3> QED BY <1>3, <1>7, <3>3, <3>4, <3>5, OpenTouches
  <2>3. CASE k # d
    <3>1. Lost(y) \/ \E c \in S : c.is.t = "abort" /\ c.is.x = y /\ k.at < c.at BY <1>14, <2>1, <2>3
    <3>2. ~\E c \in S : c.is.t = "abort" /\ c.is.x = y /\ k.at < c.at
      <4> SUFFICES ASSUME NEW c \in S, c.is.t = "abort", c.is.x = y, k.at < c.at PROVE FALSE OBVIOUS
      <4>1. c.at < k.at BY <2>1 DEF IsEnd
      <4>2. c.at \in Nat /\ k.at \in Nat BY <1>10, AllFacts
      <4> QED BY <4>1, <4>2
    <3> QED BY <3>1, <3>2 DEF Lost, Dropped, IsUp
  <2> QED BY <2>2, <2>3
<1>18. m \in Free(q) BY <1>10, <1>12, <1>16, <1>17 DEF Free, Open, Live
<1>19. ASSUME NEW e \in S, OpAt(e, "enq", m), e.is.x # NoXid PROVE Over(e.is.x)
  <2>1. OpAt(e, "enq", d.is.m) BY <1>9, <1>19
  <2> QED BY <1>1, <1>8, <1>9, <1>10, <1>19, <2>1 DEF Released
<1>20. ASSUME NEW e \in S, OpAt(e, "deq", m) PROVE e.is.x = x \/ Undone(e.is.x)
  BY <1>8, <1>14, <1>20 DEF Lost, Undone
<1> QED BY <1>10, <1>18, <1>19, <1>20

\* The thread of a transaction whose call returns.
LEMMA ReturnWork ==
    ASSUME Types, Types', Book, NEW x \in Xids, TxnInv(x), Return(x)
    PROVE  /\ \A y \in Xids : Keeps(y) /\ ThreadInv(y)' /\ (y # x => Stays(y))
           /\ ctx'[x].pc = "done" /\ ~Dropped(x) /\ ~Dropped(x)'
<1>1. \A y \in Xids : y # x => Quiet(y) BY ReturnKeeps
<1>2. /\ ctx[x].pc = "return" /\ ctx' = [ctx EXCEPT ![x].pc = "done"] /\ log' = log /\ cmpl' = cmpl /\ rec' = rec /\ ops' = ops
  BY DEF Return, At, Goto, jrnlVars
<1>3. ctx[x] \in CtxType /\ ctx \in [Xids -> CtxType] BY DEF Types
<1>4. ctx'[x].pc = "done" /\ ctx'[x].rcvd = ctx[x].rcvd /\ ctx'[x].commit = ctx[x].commit BY <1>2, <1>3 DEF CtxType
<1>5. Stage(x) = "return" /\ Stage(x)' = "done" BY <1>2, <1>4 DEF Stage, Waiting
<1>6. \A k \in Queues, t \in {"enq", "deq"} : OpsOn(k, x, t) \subseteq OpsOn(k, x, t)' BY <1>2 DEF OpsOn
<1>7. Keeps(x) BY <1>2, <1>4, <1>6, WorkStays
<1>8. ThreadInv(x) BY DEF Book
<1>9. LoggedInv(x)' BY <1>2, <1>4, <1>8 DEF ThreadInv, LoggedInv, RecsOf, Does
<1>10. DoneInv(x)'
  <2>1. ASSUME NEW e \in RecsOf(TPL, x), e.is.t = "commit" PROVE e.at <= cmpl[TPL]
    <3>1. CASE ctx[x].commit BY <1>2, <3>1, TplIsJournal DEF TxnInv, DiskInv, OnDisk
    <3>2. CASE ~ctx[x].commit
      <4>1. ctx[x].prepared BY <1>2, <2>1 DEF TxnInv, ListStage
      <4>2. Decided(x, FALSE) BY <1>3, <1>5, <3>2, <4>1 DEF TxnInv, DiskInv, CtxType
      <4>3. PICK d \in RecsOf(TPL, x) : d.is.t = "deq" /\ d.is.flag = FALSE BY <4>2 DEF Decided
      <4>4. IsEnd(e.is) BY <2>1 DEF IsEnd
      <4>5. PICK k \in RecsOf(TPL, x) : k.is.t = "deq" /\ (k.is.flag <=> e.is.t = "commit") BY <4>4 DEF TxnInv, ListOrder
      <4>6. k.is.flag = d.is.flag BY <4>3, <4>5 DEF TxnInv, ListOrder
      <4> QED BY <2>1, <4>3, <4>5, <4>6
    <3> QED BY <3>1, <3>2
  <2> QED BY <1>2, <2>1 DEF DoneInv, RecsOf
<1>11. RcvdInv(x)'
  <2>1. RcvdInv(x) BY <1>8 DEF ThreadInv
  <2>2. Completes(x)' = Completes(x) /\ rec'.phase = rec.phase /\ rec'.prep = rec.prep /\ rec'.list = rec.list
    BY <1>2 DEF Completes
  <2>3. CASE rec.phase = "txns"
    <3>1. x \in rec.prep /\ Completes(x) /\ ctx[x].commit = rec.list[x].commit /\ ctx[x].rcvd
      BY <1>2, <2>1, <2>3 DEF RcvdInv
    <3> QED BY <1>4, <1>5, <2>2, <2>3, <3>1 DEF RcvdInv
  <2>4. CASE rec.phase # "txns" BY <1>4, <2>2, <2>4 DEF RcvdInv
  <2> QED BY <2>3, <2>4
<1>12. ASSUME NEW y \in Xids PROVE Keeps(y) /\ ThreadInv(y)' /\ (y # x => Stays(y))
  <2>1. CASE y = x BY <1>7, <1>9, <1>10, <1>11, <2>1 DEF ThreadInv
  <2>2. CASE y # x BY <1>1, <2>2, QuietStays, QuietThread DEF Book
  <2> QED BY <2>1, <2>2
<1>13. ~Dropped(x) /\ ~Dropped(x)' BY <1>2, <1>4 DEF Dropped
<1> QED BY <1>4, <1>12, <1>13

\* The broker is given what the end of the transaction gives it.
LEMMA ReturnBook ==
    ASSUME Types, Types', Book, \A x \in Xids : TxnInv(x), NEW x \in Xids, Return(x)
    PROVE  Book'
<1>1. TxnInv(x) /\ ThreadInv(x) BY DEF Book
<1>2. /\ \A y \in Xids : Keeps(y) /\ ThreadInv(y)' /\ (y # x => Stays(y))
      /\ ctx'[x].pc = "done" /\ ~Dropped(x) /\ ~Dropped(x)'
  BY <1>1, ReturnWork
<1>3. /\ ctx[x].pc = "return" /\ log' = log /\ cmpl' = cmpl /\ maps' = maps /\ rec' = rec /\ ops' = ops
      /\ avail' = IF ctx[x].rcvd THEN avail ELSE
            [q \in Queues |-> avail[q] \cup OpsOn(q, x, IF ctx[x].commit THEN "enq" ELSE "deq")]
  BY DEF Return, At, jrnlVars
<1>4. rec.phase \in {"txns", "up"} BY <1>1, <1>3, Working
<1>5. IsUp' = IsUp /\ \A q \in Queues : Rebuilt(q) /\ Rebuilt(q)' BY <1>3, <1>4 DEF Rebuilt, IsUp
<1>6. IF IsUp THEN ~ctx[x].rcvd ELSE ctx[x].rcvd
  <2>1. CASE rec.phase = "up" BY <1>1, <1>3, <2>1 DEF ThreadInv, RcvdInv, IsUp
  <2>2. CASE rec.phase = "txns" BY <1>1, <1>3, <2>2, RcvdWork DEF IsUp
  <2> QED BY <1>4, <2>1, <2>2
<1>7. avail \in [Queues -> SUBSET Msgs] BY DEF Book
<1>8. PICK t \in {"enq", "deq"} : t = IF ctx[x].commit THEN "enq" ELSE "deq" OBVIOUS
<1>9. IsUp => \A q \in Queues : avail'[q] = avail[q] \cup OpsOn(q, x, t) BY <1>3, <1>6, <1>8
<1>10. \A q \in Queues : OpsOn(q, x, t) \subseteq Msgs BY DEF OpsOn, Types, OpType
<1>11. avail' \in [Queues -> SUBSET Msgs]
  <2>1. CASE ctx[x].rcvd BY <1>3, <1>7, <2>1
  <2>2. CASE ~ctx[x].rcvd
    <3>1. avail' = [q \in Queues |-> avail[q] \cup OpsOn(q, x, t)] BY <1>3, <1>8, <2>2
    <3>2. \A q \in Queues : avail[q] \cup OpsOn(q, x, t) \in SUBSET Msgs BY <1>7, <1>10
    <3> QED BY <3>1, <3>2
  <2> QED BY <2>1, <2>2
<1>12. ASSUME NEW q \in Queues PROVE QueueInv(q)'
  <2>1. QueueInv(q) BY DEF Book
  <2>2. All(q)' = All(q) BY <1>3 DEF All
  <2>3. LogInv(q)'
    <3>1. log'[q] = log[q] /\ \A y \in Xids : Keeps(y) BY <1>2, <1>3
    <3>2. LogInv(q) BY <2>1 DEF QueueInv
    <3> QED BY <3>1, <3>2, LogKept
  <2>4. Live(All(q))' = Live(All(q)) BY <2>2 DEF Live, Done, Effective, EndedBy, OpAt
  <2>5. EmapInv(q)' BY <1>3, <1>5, <2>1, <2>4 DEF QueueInv, EmapInv
  <2>6. \A y, s : Open(q, y, s)' = Open(q, y, s) BY <2>2 DEF Open
  <2>7. \A y \in Xids : Dropped(y)' = Dropped(y) BY <1>2, <1>3 DEF Stays, Dropped
  <2>8. Free(q)' = Free(q)
    <3>1. {y \in Xids : ~Dropped(y)'} = {y \in Xids : ~Dropped(y)} BY <2>7
    <3> QED BY <2>4, <2>6, <3>1 DEF Free
  <2>9. Kept(q)' = Kept(q) /\ Coming(q)' = Coming(q) BY <1>3, <2>4, <2>6 DEF Kept, Coming, Completes
  <2>10. CASE ~IsUp
    <3>1. avail' = avail BY <1>3, <1>6, <2>10
    <3>2. AvailInv(q)' BY <1>5, <2>1, <2>9, <2>10, <3>1 DEF QueueInv, AvailInv
    <3>3. Given(q)' BY <1>5, <2>10 DEF Given
    <3> QED BY <2>3, <2>5, <3>2, <3>3 DEF QueueInv
  <2>11. CASE IsUp
    <3>1. avail'[q] = avail[q] \cup OpsOn(q, x, t) /\ ~ctx[x].rcvd BY <1>6, <1>9, <2>11
    <3>2. avail[q] \subseteq Free(q) /\ \A k \in Free(q) \ avail[q] : \E y \in Xids : Ending(y) /\ k \in Due(q, y)
      BY <2>1, <2>11 DEF QueueInv, AvailInv
    <3>3. ASSUME NEW m \in OpsOn(q, x, t) PROVE m \in Free(q)
      <4>1. CASE ctx[x].commit BY <1>1, <1>3, <1>8, <4>1, ReturnEnqueued
      <4>2. CASE ~ctx[x].commit BY <1>3, <1>8, <2>11, <3>1, <4>2, ReturnDequeued
      <4> QED BY <4>1, <4>2
    <3>4. ASSUME NEW m \in Free(q)' \ avail'[q] PROVE \E y \in Xids : Ending(y)' /\ m \in Due(q, y)'
      <4>1. m \in Free(q) \ avail[q] /\ m \notin OpsOn(q, x, t) BY <2>8, <3>1, <3>4
      <4>2. PICK y \in Xids : Ending(y) /\ m \in Due(q, y) BY <3>2, <4>1
      <4>3. y # x BY <1>8, <4>1, <4>2 DEF Due
      <4>4. Keeps(y) /\ Stays(y) BY <1>2, <4>3
      <4> QED BY <4>2, <4>4, DueStays
    <3>5. avail'[q] \subseteq Free(q)' BY <2>8, <3>1, <3>2, <3>3
    <3>6. AvailInv(q)' BY <1>5, <2>11, <3>4, <3>5 DEF AvailInv
    <3>7. ASSUME NEW e \in All(q), e.is.x # NoXid, e.is.m \in avail'[q]
          PROVE  (e.is.t = "enq" => Over(e.is.x)') /\ (e.is.t = "deq" => Undone(e.is.x)')
      <4>1. \A y \in Xids : Keeps(y) BY <1>2
      <4>2. CASE e.is.m \in avail[q]
        <5>1. Given(q) BY <2>1 DEF QueueInv
        <5> QED BY <2>11, <3>7, <4>1, <4>2, <5>1, GivenStays
      <4>3. CASE e.is.m \notin avail[q]
        <5>1. PICK m \in OpsOn(q, x, t) : m = e.is.m BY <3>1, <3>7, <4>3
        <5>2. PICK y \in Xids : y = e.is.x BY <3>7, AllFacts
        <5>3. CASE ctx[x].commit
          <6>1. e.is.t \in {"enq", "deq"} => e.is.t = "enq" /\ e.is.x = x
            BY <1>1, <1>3, <1>8, <5>1, <5>3, ReturnEnqueued DEF IsOp
          <6>2. Over(x)'
            <7>1. Stage(x) = "return" BY <1>3 DEF Stage, Waiting
            <7>2. PICK c \in RecsOf(TPL, x) : c.is.t = "commit" BY <1>1, <5>3, <7>1 DEF TxnInv, ListStage, HasIn
            <7>3. c.at <= cmpl[TPL] BY <1>1, <1>3, <5>3, <7>2, TplIsJournal DEF TxnInv, DiskInv, OnDisk
            <7> QED BY <1>2, <1>3, <7>2, <7>3 DEF Over, RecsOf
          <6> QED BY <6>1, <6>2
        <5>4. CASE ~ctx[x].commit
          <6>1. /\ OpAt(e, "enq", m) => Over(y)
                /\ OpAt(e, "deq", m) => y = x \/ Undone(y)
            BY <1>3, <1>8, <2>11, <3>1, <3>7, <5>1, <5>2, <5>4, ReturnDequeued
          <6>2. (Over(y) => Over(y)') /\ (Undone(y) => Undone(y)') BY <2>11, <4>1 DEF Keeps
          <6>3. Undone(x)' BY <1>2 DEF Undone
          <6>4. (e.is.t = "enq" => Over(y)') /\ (e.is.t = "deq" => Undone(y)') BY <5>1, <6>1, <6>2, <6>3 DEF OpAt
          <6> QED BY <5>2, <6>4
        <5> QED BY <5>3, <5>4
      <4> QED BY <4>2, <4>3
    <3>8. Given(q)' BY <2>2, <3>7 DEF Given
    <3> QED BY <2>3, <2>5, <3>6, <3>8 DEF QueueInv
  <2> QED BY <2>10, <2>11
<1> QED BY <1>2, <1>11, <1>12 DEF Book

-----------------------------------------------------------------------------
(* Crash and recovery.                                                     *)

\* A crash cuts the log of a queue.
LEMMA CrashCuts ==
    ASSUME Types, NEW q \in Queues, Crash
    PROVE  \E k \in Nat : All(q)' = {e \in All(q) : e.at <= k}
<1>1. PICK kept \in [Journals -> UNION {0 .. subm[j] : j \in Journals}] :
         /\ \A j \in Journals : kept[j] \in cmpl[j] .. subm[j]
         /\ log' = [j \in Journals |-> SubSeq(log[j], 1, kept[j])]
  BY DEF Crash
<1>2. q \in Journals /\ log[q] \in Seq(LogRec) /\ cmpl[q] \in Nat /\ subm[q] \in Nat /\ subm[q] <= Len(log[q])
  BY TplIsJournal DEF Types
<1>3. PICK k : k = kept[q] OBVIOUS
<1>4. k \in cmpl[q] .. subm[q] /\ log'[q] = SubSeq(log[q], 1, k) BY <1>1, <1>2, <1>3
<1>5. PICK l \in Seq(LogRec) : l = log[q] BY <1>2
<1>6. Len(l) \in Nat BY LenProperties
<1>7. k \in Nat /\ k <= Len(l) BY <1>2, <1>4, <1>5, <1>6
<1>8. AllOf(SubSeq(l, 1, k)) = {e \in AllOf(l) : e.at <= k} BY <1>7, AllCut
<1> QED BY <1>4, <1>5, <1>7, <1>8 DEF All

\* What is over for a transaction stays over when the broker crashes.
LEMMA CrashThread ==
    ASSUME Types, Types', NEW x \in Xids, TxnInv(x), Crash
    PROVE  /\ Over(x) => Over(x)'
           /\ Undone(x) => Undone(x)'
           /\ Lost(x) => Lost(x)'
           /\ ThreadInv(x)'
<1>1. TPL \in Journals BY TplIsJournal
<1>2. /\ \A j \in Journals : /\ RecsOf(j, x)' = {e \in RecsOf(j, x) : e.at <= cmpl'[j]} /\ cmpl[j] <= cmpl'[j]
                             /\ cmpl[j] \in Nat /\ cmpl'[j] \in Nat
      /\ ctx'[x] = IF ctx[x].pc = "none" THEN NoCtx ELSE [NoCtx EXCEPT !.pc = "gone"]
      /\ rec'.phase = "tpl" /\ ops' = ops
  BY CrashDoes
<1>3. ctx'[x].pc = (IF ctx[x].pc = "none" THEN "none" ELSE "gone") /\ ~ctx'[x].rcvd BY <1>2 DEF NoCtx
<1>4. ctx[x].pc = "none" => ~ctx[x].rcvd /\ ops[x] = {} BY DEF TxnInv, ShapeInv, EarlyInv, NoCtx
<1>5. \A e \in RecsOf(TPL, x) : e.at \in Nat BY <1>1, StateFacts
<1>6. \A e \in RecsOf(TPL, x) : e.at <= cmpl[TPL] => e \in RecsOf(TPL, x)' /\ e.at <= cmpl'[TPL] BY <1>1, <1>2, <1>5
<1>7. Over(x) => Over(x)' BY <1>3, <1>6 DEF Over
<1>8. Undone(x) => Undone(x)' BY <1>3, <1>4 DEF Undone
<1>9. Lost(x) => Lost(x)'
  <2> SUFFICES ASSUME Lost(x) PROVE Lost(x)' OBVIOUS
  <2>1. ctx[x].pc = "gone" BY DEF Lost
  <2>2. \A e \in RecsOf(TPL, x) : e.at <= cmpl[TPL] BY <1>1, <2>1 DEF TxnInv, DiskInv, OnDisk
  <2>3. RecsOf(TPL, x)' = RecsOf(TPL, x) BY <1>1, <1>2, <1>6, <2>2
  <2> QED BY <1>3, <2>1, <2>3 DEF Lost, Enlisted
<1>10. ThreadInv(x)' BY <1>2, <1>3, <1>4 DEF ThreadInv, LoggedInv, DoneInv, RcvdInv
<1> QED BY <1>7, <1>8, <1>9, <1>10

\* After a crash the log of a queue is in order, as far as it is there.
LEMMA CrashBook ==
    ASSUME Types, Types', Book, \A x \in Xids : TxnInv(x), Crash
    PROVE  Book'
<1>1. /\ rec'.phase = "tpl" /\ ops' = ops /\ avail' = [q \in Queues |-> {}] BY DEF Crash, histVars
<1>2. \A x \in Xids : /\ Over(x) => Over(x)'
                      /\ Undone(x) => Undone(x)'
                      /\ Lost(x) => Lost(x)'
                      /\ ThreadInv(x)'
  BY CrashThread
<1>3. ASSUME NEW q \in Queues PROVE LogInv(q)'
  <2>1. LogInv(q) /\ InOrder(All(q)) BY DEF Book, QueueInv, LogInv
  <2>2. PICK n \in Nat : All(q)' = {e \in All(q) : e.at <= n} BY CrashCuts
  <2>3. \A e \in All(q) : e.at \in Nat /\ e.is.x \in Xids \cup {NoXid} BY AllFacts
  <2>4. PICK S : S = All(q) OBVIOUS
  <2>5. PICK S2 : S2 = All(q)' OBVIOUS
  <2>6. S2 = {e \in S : e.at <= n} BY <2>2, <2>4, <2>5
  <2>7. InOrder(S2) BY <2>1, <2>3, <2>4, <2>6, InOrderCut
  <2>8. S2 \subseteq S BY <2>6
  <2>9. Released(q)'
    <3> SUFFICES ASSUME NEW d \in S2, NEW e \in S2, d.is.t = "deq", OpAt(e, "enq", d.is.m), e.is.x # NoXid PROVE Over(e.is.x)'
      BY <2>5 DEF Released, OpAt
    <3>1. Over(e.is.x) BY <2>1, <2>4, <2>8 DEF LogInv, Released
    <3>2. PICK x \in Xids : x = e.is.x BY <2>3, <2>4, <2>8
    <3> QED BY <1>2, <3>1, <3>2
  <2>10. Rivals(q)'
    <3> SUFFICES ASSUME NEW d \in S2, NEW k \in S2, d.is.t = "deq" /\ OpAt(k, "deq", d.is.m) /\ d.at < k.at
                 PROVE  /\ d.is.x # NoXid
                        /\ ~EndedBy(S2, d, "commit")
                        /\ \/ Lost(d.is.x)'
                           \/ /\ Undone(d.is.x)'
                              /\ \E c \in S2 : c.is.t = "abort" /\ c.is.x = d.is.x /\ d.at < c.at /\ c.at < k.at
      BY <2>5 DEF Rivals, OpAt, EndedBy
    <3>1. /\ d.is.x # NoXid
          /\ ~EndedBy(S, d, "commit")
          /\ \/ Lost(d.is.x)
             \/ /\ Undone(d.is.x)
                /\ \E c \in S : c.is.t = "abort" /\ c.is.x = d.is.x /\ d.at < c.at /\ c.at < k.at
      BY <2>1, <2>4, <2>8 DEF LogInv, Rivals
    <3>2. PICK x \in Xids : x = d.is.x BY <2>3, <2>4, <2>8, <3>1
    <3>3. ~EndedBy(S2, d, "commit") BY <2>8, <3>1 DEF EndedBy
    <3>4. \A c \in S : c.at < k.at => c \in S2
      <4> SUFFICES ASSUME NEW c \in S, c.at < k.at PROVE c.at <= n BY <2>6
      <4>1. k.at <= n /\ k.at \in Nat /\ c.at \in Nat BY <2>3, <2>4, <2>6
      <4> QED BY <4>1
    <3> QED BY <1>2, <3>1, <3>2, <3>3, <3>4
  <2>11. Known(q)'
    <3> SUFFICES ASSUME NEW e \in S2, IsOp(e.is), e.is.x # NoXid PROVE e.is.m \in OpsOn(q, e.is.x, e.is.t)'
      BY <2>5 DEF Known, IsOp
    <3>1. e.is.m \in OpsOn(q, e.is.x, e.is.t) BY <2>1, <2>4, <2>8 DEF LogInv, Known
    <3> QED BY <1>1, <3>1 DEF OpsOn
  <2>12. InOrder(All(q))' BY <2>5, <2>7 DEF InOrder, OpAt, IsOp, IsEnd
  <2> QED BY <2>9, <2>10, <2>11, <2>12 DEF LogInv
<1>4. \A q \in Queues : ~Rebuilt(q)' /\ ~IsUp' BY <1>1 DEF Rebuilt, IsUp
<1>5. \A q \in Queues : QueueInv(q)' BY <1>3, <1>4 DEF QueueInv, EmapInv, AvailInv, Given
<1>6. avail' \in [Queues -> SUBSET Msgs] BY <1>1
<1> QED BY <1>2, <1>5, <1>6 DEF Book

\* What is over for a transaction that a step of recovery leaves alone.
LEMMA RecoveryStays ==
    ASSUME NEW x \in Xids, log' = log, cmpl' = cmpl, ctx' = ctx, ops' = ops
    PROVE  Keeps(x)
BY DEF Keeps, Over, Undone, Lost, Enlisted, OpsOn, RecsOf

\* The prepared list is read.
LEMMA RecoverTplStoreBook ==
    ASSUME Types, Types', Book, \A x \in Xids : TxnInv(x), RecoverTplStore
    PROVE  Book'
<1>1. /\ rec.phase = "tpl" /\ rec'.phase = "queues" /\ rec'.todo = Queues
      /\ log' = log /\ cmpl' = cmpl /\ ctx' = ctx /\ ops' = ops /\ avail' = avail
  BY DEF RecoverTplStore, histVars
<1>2. \A x \in Xids : Keeps(x) BY <1>1, RecoveryStays
<1>3. \A q \in Queues : ~Rebuilt(q)' /\ ~IsUp' BY <1>1 DEF Rebuilt, IsUp
<1>4. ASSUME NEW q \in Queues PROVE QueueInv(q)'
  <2>1. LogInv(q) BY DEF Book, QueueInv
  <2>2. LogInv(q)' BY <1>1, <1>2, <2>1, LogKept
  <2> QED BY <1>3, <2>2 DEF QueueInv, EmapInv, AvailInv, Given
<1>5. ASSUME NEW x \in Xids PROVE ThreadInv(x)'
  <2>1. ThreadInv(x) BY DEF Book
  <2>2. LoggedInv(x)' /\ DoneInv(x)' BY <1>1, <2>1 DEF ThreadInv, LoggedInv, DoneInv, RecsOf, Does
  <2>3. RcvdInv(x)' BY <1>1, <2>1 DEF ThreadInv, RcvdInv
  <2> QED BY <2>2, <2>3 DEF ThreadInv
<1> QED BY <1>1, <1>4, <1>5 DEF Book

\* The maps of a recovered queue: of its log, for the listed transactions.
LEMMA RecoveredMaps ==
    ASSUME Types, \A x \in Xids : TxnInv(x), rec.phase \in {"tpl", "queues"}, NEW q \in Queues, InOrder(All(q)), NEW ms,
           ms = WithoutUnprepared(Replay(log[q]), rec.prep)
    PROVE  /\ ms.emap = Live(All(q))
           /\ \A x \in rec.prep : EnqsOf(ms, x) = Open(q, x, "enq") /\ DeqsOf(ms, x) = Open(q, x, "deq")
           /\ \A x \in Xids \ rec.prep : EnqsOf(ms, x) = {}
<1>1. log[q] \in Seq(LogRec) /\ q \in Journals BY AllFacts
<1>2. PICK l \in Seq(LogRec) : l = log[q] BY <1>1
<1>3. PICK rs : rs = Replay(l) OBVIOUS
<1>4. rs \in MapsOf BY <1>3, ReplayMatch
<1>5. rs.emap = Live(AllOf(l)) BY <1>2, <1>3, ReplayEmap DEF All
<1>6. ms = WithoutUnprepared(rs, rec.prep) BY <1>2, <1>3
<1>7. ms.emap = rs.emap
  <2>1. rs = [emap |-> rs.emap, lock |-> rs.lock, tmap |-> rs.tmap] BY <1>4 DEF MapsOf
  <2> QED BY <1>6, <2>1 DEF WithoutUnprepared
<1>8. \A x \in Xids : ms.tmap[x] = IF x \in rec.prep THEN rs.tmap[x] ELSE <<>> BY <1>4, <1>6, UnpreparedIs
<1>9. rec.prep \subseteq Xids BY DEF Types
<1>10. ASSUME NEW x \in rec.prep PROVE EnqsOf(ms, x) = Open(q, x, "enq") /\ DeqsOf(ms, x) = Open(q, x, "deq")
  <2>1. x \in Xids /\ TxnInv(x) BY <1>9
  <2>2. OnDisk(q, x) BY <1>1, <2>1, Crashed
  <2>3. Match(Entries(Replay(log[q]), x), RecsOf(q, x), cmpl[q]) BY <1>1, <2>1, <2>2, ReplayedMatch
  <2>4. Entries(ms, x) = Entries(rs, x) BY <1>8, <2>1 DEF Entries
  <2>5. PICK S : S = All(q) OBVIOUS
  <2>6. PICK Es : Es = Entries(ms, x) OBVIOUS
  <2>7. PICK n : n = cmpl[q] OBVIOUS
  <2>8. RecsOf(q, x) = {e \in S : e.is.x = x} BY <2>1, <2>5, AllFacts
  <2>9. Match(Es, {e \in S : e.is.x = x}, n) BY <1>2, <1>3, <2>3, <2>4, <2>6, <2>7, <2>8
  <2>10. \A e \in S : IsOp(e.is) => e.is.m \in Msgs BY <2>5 DEF InOrder
  <2>11. /\ {t.m : t \in {e \in Es : e.enq}} = OpenIn(S, x, "enq")
         /\ {t.m : t \in {e \in Es : ~e.enq}} = OpenIn(S, x, "deq")
    BY <2>1, <2>9, <2>10, MatchMsgs
  <2> QED BY <2>5, <2>6, <2>11 DEF EnqsOf, DeqsOf, Open
<1>11. ASSUME NEW x \in Xids \ rec.prep PROVE EnqsOf(ms, x) = {}
  <2>1. Entries(ms, x) = {} BY <1>8, EmptySet DEF Entries
  <2> QED BY <2>1 DEF EnqsOf
<1> QED BY <1>2, <1>5, <1>7, <1>10, <1>11 DEF All

\* recoverMessages() gives the broker what the end of the listed transactions will leave it.
LEMMA RecoveredIs ==
    ASSUME Types, NEW q \in Queues, InOrder(All(q)), NEW ms, ms.emap = Live(All(q)),
           \A x \in rec.prep : EnqsOf(ms, x) = Open(q, x, "enq") /\ DeqsOf(ms, x) = Open(q, x, "deq"),
           \A x \in Xids \ rec.prep : EnqsOf(ms, x) = {}
    PROVE  Recovered(ms) = Kept(q) \cup Coming(q)
<1>1. PICK S : S = All(q) OBVIOUS
<1>2. rec.prep \subseteq Xids BY DEF Types
<1>3. /\ InOrder(S) /\ ms.emap = Live(S)
      /\ \A x \in rec.prep : EnqsOf(ms, x) = OpenIn(S, x, "enq") /\ DeqsOf(ms, x) = OpenIn(S, x, "deq")
  BY <1>1 DEF Open
<1>4. \A e \in S : e.at \in Nat BY <1>1, AllFacts
<1>5. ASSUME NEW x \in rec.prep, NEW m \in OpenIn(S, x, "enq")
      PROVE  /\ m \notin Live(S) /\ \A y \in rec.prep : m \notin OpenIn(S, y, "deq")
             /\ \A y \in rec.prep : m \in OpenIn(S, y, "enq") => y = x
  <2>1. (\A d \in S : ~OpAt(d, "deq", m)) /\ m \notin Done(S, "enq") BY <1>2, <1>3, <1>4, <1>5, OpenNotDequeued
  <2>2. m \notin Live(S) /\ \A y \in rec.prep : m \notin OpenIn(S, y, "deq") BY <2>1 DEF Live, OpenIn
  <2>3. ASSUME NEW y \in rec.prep, m \in OpenIn(S, y, "enq") PROVE y = x
    <3>1. PICK e \in S : OpAt(e, "enq", m) /\ e.is.x = x BY <1>5 DEF OpenIn
    <3>2. PICK d \in S : OpAt(d, "enq", m) /\ d.is.x = y BY <2>3 DEF OpenIn
    <3>3. e = d BY <1>3, <3>1, <3>2 DEF InOrder, OpAt
    <3> QED BY <3>1, <3>2, <3>3
  <2> QED BY <2>2, <2>3
<1>6. \A m : m \in Kept(q) <=> m \in Live(S) /\ \A y \in rec.prep : m \in OpenIn(S, y, "deq") => Completes(y) /\ ~rec.list[y].commit
  BY <1>1 DEF Kept, Open
<1>7. \A m : m \in Coming(q) <=> \E y \in rec.prep : Completes(y) /\ rec.list[y].commit /\ m \in OpenIn(S, y, "enq")
  BY <1>1 DEF Coming, Open
<1>8. \A m : m \in Found(ms) <=> m \in Live(S) \/ \E y \in rec.prep : m \in OpenIn(S, y, "enq")
  <2>1. \A m : m \in Found(ms) <=> m \in Live(S) \/ \E y \in Xids : m \in EnqsOf(ms, y) BY <1>3 DEF Found
  <2> QED BY <1>2, <1>3, <2>1
<1>9. \A m : \A y : y \in HeldBy(ms, m) <=> y \in rec.prep /\ (m \in OpenIn(S, y, "enq") \/ m \in OpenIn(S, y, "deq"))
  BY <1>3 DEF HeldBy, Locks
<1>10. \A m : m \in Recovered(ms) <=> m \in Found(ms) /\ \A y \in HeldBy(ms, m) : GivenTo(ms, m, y) BY DEF Recovered
<1>11. ASSUME NEW m \in Live(S) PROVE m \in Recovered(ms) <=> m \in Kept(q) \cup Coming(q)
  <2>1. \A y \in rec.prep : m \notin OpenIn(S, y, "enq") BY <1>5, <1>11
  <2>2. m \notin Coming(q) BY <1>7, <2>1
  <2>3. \A y \in rec.prep : GivenTo(ms, m, y) <=> Completes(y) /\ ~rec.list[y].commit BY <1>3, <1>11 DEF GivenTo
  <2> QED BY <1>6, <1>8, <1>9, <1>10, <1>11, <2>1, <2>2, <2>3
<1>12. ASSUME NEW m, m \notin Live(S) PROVE m \in Recovered(ms) <=> m \in Kept(q) \cup Coming(q)
  <2>1. m \notin Kept(q) BY <1>6, <1>12
  <2>2. ASSUME NEW x \in rec.prep, m \in OpenIn(S, x, "enq") PROVE m \in Recovered(ms) <=> m \in Coming(q)
    <3>1. /\ \A y \in rec.prep : m \notin OpenIn(S, y, "deq")
          /\ \A y \in rec.prep : m \in OpenIn(S, y, "enq") => y = x
      BY <1>5, <2>2
    <3>2. \A y : y \in HeldBy(ms, m) <=> y = x BY <1>9, <2>2, <3>1
    <3>3. GivenTo(ms, m, x) <=> Completes(x) /\ rec.list[x].commit BY <1>3, <1>12, <2>2, <3>1 DEF GivenTo
    <3>4. m \in Coming(q) <=> Completes(x) /\ rec.list[x].commit BY <1>7, <2>2, <3>1
    <3>5. m \in Found(ms) BY <1>8, <2>2
    <3> QED BY <1>10, <3>2, <3>3, <3>4, <3>5
  <2>3. CASE \E x \in rec.prep : m \in OpenIn(S, x, "enq") BY <2>1, <2>2, <2>3
  <2>4. CASE ~\E x \in rec.prep : m \in OpenIn(S, x, "enq") BY <1>7, <1>8, <1>10, <1>12, <2>1, <2>4
  <2> QED BY <2>3, <2>4
<1> QED BY <1>11, <1>12

\* A queue is recovered.
LEMMA RecoverQueueBook ==
    ASSUME Types, Types', Book, \A x \in Xids : TxnInv(x), NEW q \in Queues, RecoverQueue(q)
    PROVE  Book'
<1>1. /\ rec.phase = "queues" /\ q \in rec.todo
      /\ log' = log /\ cmpl' = cmpl /\ ctx' = ctx /\ ops' = ops
      /\ rec' = IF rec.todo = {q} THEN [rec EXCEPT !.phase = "txns", !.todo = rec.prep] ELSE [rec EXCEPT !.todo = @ \ {q}]
  BY DEF RecoverQueue, histVars
<1>2. PICK ms : ms = WithoutUnprepared(Replay(log[q]), rec.prep) OBVIOUS
<1>3. maps' = [maps EXCEPT ![q] = ms] /\ avail' = [avail EXCEPT ![q] = Recovered(ms)] BY <1>2 DEF RecoverQueue
<1>4. \A x \in Xids : Keeps(x) BY <1>1, RecoveryStays
<1>5. /\ rec'.prep = rec.prep /\ rec'.list = rec.list
      /\ IF rec.todo = {q} THEN rec'.phase = "txns" ELSE rec'.phase = "queues" /\ rec'.todo = rec.todo \ {q}
  BY <1>1 DEF Types
<1>6. ~IsUp /\ ~IsUp' BY <1>1, <1>5 DEF IsUp
<1>7. q \in Journals /\ maps \in [Journals -> MapsOf] BY TplIsJournal DEF Types
<1>8. avail \in [Queues -> SUBSET Msgs] BY DEF Book
<1>9. maps'[q] = ms /\ avail'[q] = Recovered(ms) BY <1>3, <1>7, <1>8
<1>10. InOrder(All(q)) BY DEF Book, QueueInv, LogInv
<1>11. /\ ms.emap = Live(All(q))
       /\ \A x \in rec.prep : EnqsOf(ms, x) = Open(q, x, "enq") /\ DeqsOf(ms, x) = Open(q, x, "deq")
       /\ \A x \in Xids \ rec.prep : EnqsOf(ms, x) = {}
  BY <1>1, <1>2, <1>10, RecoveredMaps
<1>12. Recovered(ms) = Kept(q) \cup Coming(q) BY <1>10, <1>11, RecoveredIs
<1>13. ASSUME NEW k \in Queues
       PROVE  /\ Live(All(k))' = Live(All(k))
              /\ Kept(k)' = Kept(k) /\ Coming(k)' = Coming(k)
  <2>1. All(k)' = All(k) BY <1>1 DEF All
  <2>2. Live(All(k))' = Live(All(k)) BY <2>1 DEF Live, Done, Effective, EndedBy, OpAt
  <2>3. \A y, s : Open(k, y, s)' = Open(k, y, s) BY <2>1 DEF Open
  <2> QED BY <1>5, <2>2, <2>3 DEF Kept, Coming, Completes
<1>14. ASSUME NEW k \in Queues PROVE QueueInv(k)'
  <2>1. QueueInv(k) BY DEF Book
  <2>2. LogInv(k)' BY <1>1, <1>4, <2>1, LogKept DEF QueueInv
  <2>3. Given(k)' BY <1>6 DEF Given
  <2>4. CASE k = q
    <3>1. EmapInv(k)' BY <1>9, <1>11, <1>13, <2>4 DEF EmapInv
    <3>2. AvailInv(k)' BY <1>6, <1>9, <1>12, <1>13, <2>4 DEF AvailInv
    <3> QED BY <2>2, <2>3, <3>1, <3>2 DEF QueueInv
  <2>5. CASE k # q
    <3>1. k \in Journals BY TplIsJournal
    <3>2. maps'[k] = maps[k] /\ avail'[k] = avail[k] BY <1>3, <1>7, <1>8, <2>5, <3>1
    <3>3. Rebuilt(k)' => Rebuilt(k) BY <1>1, <1>5, <2>5 DEF Rebuilt
    <3>4. EmapInv(k)' BY <1>13, <2>1, <3>2, <3>3 DEF QueueInv, EmapInv
    <3>5. AvailInv(k)' BY <1>6, <1>13, <2>1, <3>2, <3>3 DEF QueueInv, AvailInv
    <3> QED BY <2>2, <2>3, <3>4, <3>5 DEF QueueInv
  <2> QED BY <2>4, <2>5
<1>15. ASSUME NEW x \in Xids PROVE ThreadInv(x)'
  <2>1. ThreadInv(x) BY DEF Book
  <2>2. LoggedInv(x)' /\ DoneInv(x)' BY <1>1, <2>1 DEF ThreadInv, LoggedInv, DoneInv, RecsOf, Does
  <2>3. TxnInv(x) OBVIOUS
  <2>4. ctx[x].pc \in {"none", "gone"} BY <1>1, <2>3, Crashed
  <2>5. RcvdInv(x)' BY <1>1, <1>5, <2>1, <2>4 DEF ThreadInv, RcvdInv
  <2> QED BY <2>2, <2>5 DEF ThreadInv
<1>16. avail' \in [Queues -> SUBSET Msgs]
  <2>1. Recovered(ms) \subseteq Msgs BY <1>12 DEF Kept, Coming, Live, Done, Open, OpenIn
  <2> QED BY <1>3, <1>8, <2>1
<1> QED BY <1>14, <1>15, <1>16 DEF Book

\* recover() takes a listed transaction up: what was over for it stays over.
LEMMA RecoverTxnThread ==
    ASSUME Types, Types', NEW x \in Xids, TxnInv(x), RecoverTxn(x)
    PROVE  Keeps(x) /\ ThreadInv(x)'
<1> DEFINE touched == {q \in Queues : Entries(maps[q], x) # {}}
           c == [NoCtx EXCEPT !.prepared = TRUE, !.dtok = "ENQ", !.impacted = touched,
                              !.tpc = rec.list[x].tpc, !.commit = rec.list[x].commit, !.rcvd = Completes(x)]
           d == IF rec.list[x].deq THEN [c EXCEPT !.pc = "flush", !.then = "close", !.left = touched]
                ELSE [c EXCEPT !.pc = IF c.tpc THEN "prepared" ELSE "tplDeq"]
<1>1. /\ rec.phase = "txns" /\ x \in rec.todo /\ rec' = [rec EXCEPT !.todo = @ \ {x}]
      /\ ctx' = [ctx EXCEPT ![x] = d] /\ log' = log /\ cmpl' = cmpl /\ ops' = ops
  BY DEF RecoverTxn, jrnlVars, histVars
<1>2. /\ d.commit = rec.list[x].commit /\ d.rcvd = Completes(x)
      /\ rec.list[x].deq => d.pc = "flush" /\ d.then = "close"
      /\ ~rec.list[x].deq /\ rec.list[x].tpc => d.pc = "prepared"
      /\ ~rec.list[x].deq /\ ~rec.list[x].tpc => d.pc = "tplDeq"
  BY DEF NoCtx
<1>3. rec.list[x].deq \in BOOLEAN /\ rec.list[x].commit \in BOOLEAN /\ rec.list[x].tpc \in BOOLEAN BY DEF Types
<1> HIDE DEF c, d, touched
<1>4. ctx'[x] = d BY <1>1 DEF Types
<1>5. rec'.phase = "txns" /\ rec'.prep = rec.prep /\ rec'.list = rec.list BY <1>1 DEF Types
<1>6. ctx[x].pc = "gone" /\ x \in rec.prep BY <1>1 DEF TxnInv, RecInv
<1>7. /\ Enlisted(x)
      /\ rec.list[x].deq <=> \E e \in OpenOps(RecsOf(TPL, x)) : e.is.t = "deq"
  BY <1>1, <1>6 DEF TxnInv, RecInv
<1>8. /\ RecsOf(TPL, x) # {} /\ OpenOps(RecsOf(TPL, x)) = RecsOf(TPL, x)
      /\ \A e \in RecsOf(TPL, x) : e.is.t \in {"enq", "deq"}
      /\ HasIn(RecsOf(TPL, x), "enq")
  BY <1>7, ListedOpen DEF HasIn
<1>9. QueueOrder(x) BY DEF TxnInv
<1>10. Keeps(x)
  <2>1. ~Over(x) BY <1>8 DEF Over
  <2>2. ~Lost(x) BY <1>7 DEF Lost
  <2>3. ASSUME NEW q \in Queues, HasIn(RecsOf(q, x), "abort") PROVE Undone(x)'
    <3>1. Decided(x, FALSE) BY <1>8, <1>9, <2>3 DEF QueueOrder
    <3>2. rec.list[x].deq BY <1>7, <1>8, <3>1 DEF Decided
    <3> QED BY <1>2, <1>4, <3>2 DEF Undone, Completes
  <2>4. ~IsUp BY <1>1 DEF IsUp
  <2>5. \A q \in Queues, t \in {"enq", "deq"} : OpsOn(q, x, t)' = OpsOn(q, x, t) BY <1>1 DEF OpsOn
  <2> QED BY <2>1, <2>2, <2>3, <2>4, <2>5 DEF Keeps
<1>11. LoggedInv(x)'
  <2>1. \A o \in ops[x] : \E e \in RecsOf(o.q, x) : Does(e, o, x) BY <1>8, <1>9 DEF QueueOrder
  <2> QED BY <1>1, <2>1 DEF LoggedInv, RecsOf, Does
<1>12. DoneInv(x)' BY <1>2, <1>3, <1>4 DEF DoneInv
<1>13. Completes(x)' = Completes(x) BY <1>5 DEF Completes
<1>14. Stage(x)' = (IF rec.list[x].deq THEN "close" ELSE IF rec.list[x].tpc THEN "prepared" ELSE "tplDeq")
  BY <1>2, <1>3, <1>4 DEF Stage, Waiting
<1>15. RcvdInv(x)' BY <1>2, <1>3, <1>4, <1>5, <1>6, <1>13, <1>14 DEF RcvdInv, Completes
<1> QED BY <1>10, <1>11, <1>12, <1>15 DEF ThreadInv

\* The queues stay what they are while recovery takes up transactions.
LEMMA RecoverTxnBook ==
    ASSUME Types, Types', Book, \A x \in Xids : TxnInv(x), NEW x \in Xids, RecoverTxn(x)
    PROVE  Book'
<1>1. /\ rec.phase = "txns" /\ rec' = [rec EXCEPT !.todo = @ \ {x}]
      /\ log' = log /\ maps' = maps /\ avail' = avail
  BY DEF RecoverTxn, jrnlVars, histVars
<1>2. rec'.phase = "txns" /\ rec'.prep = rec.prep /\ rec'.list = rec.list BY <1>1 DEF Types
<1>3. Keeps(x) /\ ThreadInv(x)' BY RecoverTxnThread
<1>4. \A y \in Xids : y # x => Quiet(y) BY RecoverTxnKeeps
<1>5. \A y \in Xids : Keeps(y) /\ ThreadInv(y)'
  <2> SUFFICES ASSUME NEW y \in Xids PROVE Keeps(y) /\ ThreadInv(y)' OBVIOUS
  <2>1. ThreadInv(y) BY DEF Book
  <2>2. CASE y = x BY <1>3, <2>2
  <2>3. CASE y # x BY <1>4, <2>1, <2>3, QuietStays, QuietThread
  <2> QED BY <2>2, <2>3
<1>6. ASSUME NEW q \in Queues PROVE QueueInv(q)'
  <2>1. QueueInv(q) BY DEF Book
  <2>2. LogInv(q)' BY <1>1, <1>5, <2>1, LogKept DEF QueueInv
  <2>3. All(q)' = All(q) BY <1>1 DEF All
  <2>4. Live(All(q))' = Live(All(q)) BY <2>3 DEF Live, Done, Effective, EndedBy, OpAt
  <2>5. \A y, s : Open(q, y, s)' = Open(q, y, s) BY <2>3 DEF Open
  <2>6. Kept(q)' = Kept(q) /\ Coming(q)' = Coming(q) BY <1>2, <2>4, <2>5 DEF Kept, Coming, Completes
  <2>7. Rebuilt(q) /\ ~IsUp /\ ~IsUp' BY <1>1, <1>2 DEF Rebuilt, IsUp
  <2>8. EmapInv(q)' BY <1>1, <2>1, <2>4, <2>7 DEF QueueInv, EmapInv
  <2>9. AvailInv(q)' BY <1>1, <2>1, <2>6, <2>7 DEF QueueInv, AvailInv
  <2>10. Given(q)' BY <2>7 DEF Given
  <2> QED BY <2>2, <2>8, <2>9, <2>10 DEF QueueInv
<1> QED BY <1>1, <1>5, <1>6 DEF Book

\* Where the transactions are when recovery is about to end: those of the list are
\* completed or in doubt, and the others were lost or have not begun.
LEMMA Settled ==
    ASSUME Types, NEW x \in Xids, TxnInv(x), ThreadInv(x), RecoveryComplete
    PROVE  /\ rec.phase = "txns" /\ ctx[x].pc \in {"none", "gone", "prepared", "done"}
           /\ x \in rec.prep <=> ctx[x].pc \in {"prepared", "done"}
           /\ ctx[x].pc = "prepared" => ~Completes(x) /\ ~ctx[x].rcvd
           /\ ctx[x].pc = "done" => Completes(x)
           /\ ctx[x].pc \in {"none", "gone"} => ~ctx[x].rcvd
           /\ ctx[x].pc = "none" => \A j \in Journals : RecsOf(j, x) = {}
<1>1. rec.phase = "txns" /\ rec.todo = {} /\ ctx[x].pc \notin Running BY DEF RecoveryComplete, NoneRunning
<1>2. ctx[x].pc \in {"none", "gone", "prepared", "done"} BY <1>1 DEF TxnInv, RecInv
<1>3. ctx[x].pc = "none" => ~ctx[x].rcvd /\ \A j \in Journals : RecsOf(j, x) = {}
  BY DEF TxnInv, ShapeInv, EarlyInv, NoCtx
<1>4. x \in rec.prep => ctx[x].pc # "gone" BY <1>1 DEF TxnInv, RecInv
<1>5. x \in rec.prep => ctx[x].pc # "none"
  <2> SUFFICES ASSUME x \in rec.prep, ctx[x].pc = "none" PROVE FALSE OBVIOUS
  <2>1. Enlisted(x) BY <1>1 DEF TxnInv, RecInv
  <2>2. RecsOf(TPL, x) = {} BY <1>3, TplIsJournal
  <2> QED BY <2>1, <2>2, ListedOpen
<1>6. RcvdInv(x) BY DEF ThreadInv
<1>7. ctx[x].pc \in {"prepared", "done"} => Stage(x) = ctx[x].pc /\ x \in rec.prep BY <1>1, <1>6 DEF Stage, Waiting, RcvdInv
<1>8. ctx[x].pc = "prepared" => ~Completes(x) /\ ~ctx[x].rcvd BY <1>1, <1>6, <1>7 DEF RcvdInv
<1>9. ctx[x].pc = "done" => Completes(x) BY <1>1, <1>6 DEF RcvdInv
<1>10. ctx[x].pc = "gone" => ~ctx[x].rcvd BY <1>6 DEF RcvdInv
<1> QED BY <1>1, <1>2, <1>3, <1>4, <1>5, <1>7, <1>8, <1>9, <1>10

\* A transaction that is done has no open operation in a recovered queue.
LEMMA DoneClosed ==
    ASSUME Types, NEW x \in Xids, TxnInv(x), rec.phase \in {"txns", "up"}, ctx[x].pc = "done", NEW q \in Queues, LogInv(q),
           NEW t \in {"enq", "deq"}
    PROVE  Open(q, x, t) = {}
<1> SUFFICES ASSUME NEW m \in Open(q, x, t) PROVE FALSE OBVIOUS
<1>1. q \in Journals /\ RecsOf(q, x) = {e \in All(q) : e.is.x = x} /\ \A e \in All(q) : e.at \in Nat BY AllFacts
<1>2. PICK e \in All(q) : OpAt(e, t, m) /\ e.is.x = x /\ \A d \in All(q) : d.is.x = x /\ IsEnd(d.is) => d.at < e.at
  BY DEF Open, OpenIn
<1>3. e \in RecsOf(q, x) /\ IsOp(e.is) /\ \A d \in RecsOf(q, x) : IsEnd(d.is) => d.at < e.at BY <1>1, <1>2 DEF OpAt, IsOp
<1>4. Match(HeldOf(q, x), RecsOf(q, x), cmpl[q]) BY <1>1, Matched
<1>5. HeldOf(q, x) # {} BY <1>3, <1>4, OpenTouches
<1>6. HasIn(RecsOf(TPL, x), "commit")
  <2>1. ProgressInv(x) /\ Stage(x) = "done" BY DEF TxnInv, Stage, Waiting
  <2> QED BY <1>5, <2>1 DEF ProgressInv
<1>7. QueueOrder(x) BY DEF TxnInv
<1>8. x # NoXid BY XidAssumption
<1>9. e.is.m \in OpsOn(q, x, e.is.t) BY <1>2, <1>3, <1>8 DEF LogInv, Known
<1>10. PICK o \in ops[x] : o.q = q BY <1>9 DEF OpsOn
<1>11. PICK c \in RecsOf(q, x) : c.is.t = "commit" BY <1>6, <1>7, <1>10 DEF QueueOrder
<1>12. c \in All(q) /\ c.is.x = x /\ IsEnd(c.is) BY <1>1, <1>11 DEF IsEnd
<1>13. e.at < c.at BY <1>2, <1>3, <1>12 DEF LogInv, InOrder
<1>14. c.at < e.at BY <1>2, <1>12
<1> QED BY <1>1, <1>2, <1>12, <1>13, <1>14

\* When recovery ends, what is enqueued in a committed transaction is over.
LEMMA SettledOver ==
    ASSUME Types, NEW x \in Xids, TxnInv(x), ThreadInv(x), RecoveryComplete, NEW q \in Queues, HasIn(RecsOf(q, x), "commit")
    PROVE  Over(x)
<1>1. /\ rec.phase = "txns" /\ ctx[x].pc \in {"none", "gone", "prepared", "done"}
      /\ x \in rec.prep <=> ctx[x].pc \in {"prepared", "done"}
      /\ ctx[x].pc = "none" => \A j \in Journals : RecsOf(j, x) = {}
  BY Settled
<1>2. q \in Journals /\ TPL \in Journals BY TplIsJournal
<1>3. ctx[x].pc # "none" BY <1>1, <1>2 DEF HasIn
<1>4. ~CommitFree(x) BY DEF CommitFree
<1>5. ctx[x].pc # "prepared"
  <2> SUFFICES ASSUME ctx[x].pc = "prepared" PROVE FALSE OBVIOUS
  <2>1. Stage(x) = "prepared" BY DEF Stage, Waiting
  <2>2. ctx[x].prepared BY <2>1 DEF TxnInv, ShapeInv
  <2>3. RecsOf(TPL, x) # {} /\ \A e \in RecsOf(TPL, x) : e.is.t = "enq" BY <2>1, <2>2 DEF TxnInv, ListStage
  <2> QED BY <1>4, <2>3, NoEndsUndecided
<1>6. CASE ctx[x].pc = "done"
  <2>1. Stage(x) = "done" BY <1>6 DEF Stage, Waiting
  <2>2. HasIn(RecsOf(TPL, x), "commit") BY <1>4, <2>1 DEF TxnInv, ProgressInv
  <2>3. \A e \in RecsOf(TPL, x) : e.is.t = "commit" => e.at <= cmpl[TPL] BY <1>6 DEF ThreadInv, DoneInv
  <2> QED BY <1>6, <2>2, <2>3 DEF Over, HasIn
<1>7. CASE ctx[x].pc = "gone"
  <2>1. Dropped(x) BY <1>1, <1>7 DEF Dropped
  <2>2. ~Enlisted(x) BY <1>1, <2>1 DEF TxnInv, RecInv
  <2>3. HasIn(RecsOf(TPL, x), "commit") BY <1>4, <2>2, NotEnlisted
  <2>4. OnDisk(TPL, x) BY <1>2, <1>7 DEF TxnInv, DiskInv
  <2> QED BY <1>7, <2>3, <2>4 DEF Over, HasIn, OnDisk
<1> QED BY <1>1, <1>3, <1>5, <1>6, <1>7

\* When recovery ends, what a transaction in doubt dequeued is held by it.
LEMMA SettledHolds ==
    ASSUME Types, NEW x \in Xids, TxnInv(x), ThreadInv(x), ctx[x].pc = "prepared", NEW q \in Queues, InOrder(All(q)),
           NEW e \in All(q), e.is.t = "deq", e.is.x = x
    PROVE  e.is.m \in Open(q, x, "deq")
<1>1. Stage(x) = "prepared" BY DEF Stage, Waiting
<1>2. ctx[x].prepared BY <1>1 DEF TxnInv, ShapeInv
<1>3. RecsOf(TPL, x) # {} /\ \A d \in RecsOf(TPL, x) : d.is.t = "enq" BY <1>1, <1>2 DEF TxnInv, ListStage
<1>4. ~HasIn(RecsOf(q, x), "commit") /\ ~HasIn(RecsOf(q, x), "abort") BY <1>3, NoEndsUndecided DEF CommitFree
<1>5. RecsOf(q, x) = {d \in All(q) : d.is.x = x} BY AllFacts
<1>6. \A d \in All(q) : d.is.x = x => ~IsEnd(d.is) BY <1>4, <1>5 DEF HasIn, IsEnd
<1>7. e.is.m \in Msgs BY DEF InOrder, IsOp
<1> QED BY <1>6, <1>7 DEF Open, OpenIn, OpAt

\* Once recovery has completed what the list says, the broker holds what is free.
LEMMA KeptIsFree ==
    ASSUME Types, Book, \A x \in Xids : TxnInv(x), RecoveryComplete, NEW q \in Queues
    PROVE  /\ Coming(q) = {}
           /\ \A m : m \in Kept(q) <=> m \in Live(All(q)) /\ \A x \in Xids : ctx[x].pc # "gone" => m \notin Open(q, x, "deq")
<1>1. \A x \in Xids : ThreadInv(x) /\ LogInv(q) BY DEF Book, QueueInv
<1>2. \A x \in Xids : /\ rec.phase = "txns" /\ ctx[x].pc \in {"none", "gone", "prepared", "done"}
                      /\ x \in rec.prep <=> ctx[x].pc \in {"prepared", "done"}
                      /\ ctx[x].pc = "prepared" => ~Completes(x) /\ ~ctx[x].rcvd
                      /\ ctx[x].pc = "none" => \A j \in Journals : RecsOf(j, x) = {}
  BY <1>1, Settled
<1>3. rec.prep \subseteq Xids /\ q \in Journals BY TplIsJournal DEF Types
<1>4. \A x \in Xids, t \in {"enq", "deq"} : ctx[x].pc = "done" => Open(q, x, t) = {} BY <1>1, <1>2, DoneClosed
<1>5. ASSUME NEW x \in Xids, ctx[x].pc = "none" PROVE Open(q, x, "deq") = {}
  <2>1. RecsOf(q, x) = {} BY <1>2, <1>3, <1>5
  <2>2. RecsOf(q, x) = {e \in All(q) : e.is.x = x} BY AllFacts
  <2> QED BY <2>1, <2>2 DEF Open, OpenIn
<1>6. Coming(q) = {}
  <2>1. ASSUME NEW y \in rec.prep, Completes(y) PROVE Open(q, y, "enq") = {}
    <3>1. ctx[y].pc = "done" BY <1>2, <1>3, <2>1
    <3> QED BY <1>3, <1>4, <3>1
  <2> QED BY <2>1 DEF Coming
<1>7. ASSUME NEW m
      PROVE  m \in Kept(q) <=> m \in Live(All(q)) /\ \A x \in Xids : ctx[x].pc # "gone" => m \notin Open(q, x, "deq")
  <2>1. ASSUME m \in Kept(q), NEW x \in Xids, ctx[x].pc # "gone" PROVE m \notin Open(q, x, "deq")
    <3>1. CASE ctx[x].pc = "none" BY <1>5, <3>1
    <3>2. CASE ctx[x].pc = "done" BY <1>4, <3>2
    <3>3. CASE ctx[x].pc = "prepared"
      <4>1. x \in rec.prep /\ ~Completes(x) BY <1>2, <3>3
      <4> QED BY <2>1, <4>1 DEF Kept
    <3> QED BY <1>2, <2>1, <3>1, <3>2, <3>3
  <2>2. ASSUME m \in Live(All(q)), \A x \in Xids : ctx[x].pc # "gone" => m \notin Open(q, x, "deq") PROVE m \in Kept(q)
    <3>1. \A x \in rec.prep : m \notin Open(q, x, "deq") BY <1>2, <1>3, <2>2
    <3> QED BY <2>2, <3>1 DEF Kept
  <2>3. m \in Kept(q) => m \in Live(All(q)) BY DEF Kept
  <2> QED BY <2>1, <2>2, <2>3
<1> QED BY <1>6, <1>7

\* The store is up: the broker has of every queue what its journal has.
LEMMA RecoveryCompleteBook ==
    ASSUME Types, Types', Book, \A x \in Xids : TxnInv(x), RecoveryComplete
    PROVE  Book'
<1>1. /\ rec.phase = "txns" /\ rec' = Up /\ rec'.phase = "up"
      /\ log' = log /\ cmpl' = cmpl /\ maps' = maps /\ ctx' = ctx /\ avail' = avail /\ ops' = ops
  BY DEF RecoveryComplete, Up, jrnlVars, histVars
<1>2. \A x \in Xids : Keeps(x) BY <1>1, RecoveryStays
<1>3. \A x \in Xids : /\ ctx[x].pc \in {"none", "gone", "prepared", "done"}
                      /\ x \in rec.prep <=> ctx[x].pc \in {"prepared", "done"}
                      /\ ctx[x].pc = "prepared" => ~Completes(x) /\ ~ctx[x].rcvd
                      /\ ctx[x].pc \in {"none", "gone"} => ~ctx[x].rcvd
                      /\ ctx[x].pc = "none" => \A j \in Journals : RecsOf(j, x) = {}
  BY Settled DEF Book
<1>4. ASSUME NEW q \in Queues PROVE QueueInv(q)'
  <2>1. QueueInv(q) /\ LogInv(q) /\ InOrder(All(q)) BY DEF Book, QueueInv, LogInv
  <2>2. LogInv(q)' BY <1>1, <1>2, <2>1, LogKept
  <2>3. Rebuilt(q) /\ ~IsUp /\ IsUp' BY <1>1 DEF Rebuilt, IsUp
  <2>4. All(q)' = All(q) BY <1>1 DEF All
  <2>5. Live(All(q))' = Live(All(q)) BY <2>4 DEF Live, Done, Effective, EndedBy, OpAt
  <2>6. EmapInv(q)' BY <1>1, <2>1, <2>3, <2>5 DEF QueueInv, EmapInv
  <2>7. /\ Coming(q) = {}
        /\ \A m : m \in Kept(q) <=> m \in Live(All(q)) /\ \A x \in Xids : ctx[x].pc # "gone" => m \notin Open(q, x, "deq")
    BY KeptIsFree
  <2>8. \A m : m \in avail[q] <=> m \in Kept(q) BY <2>1, <2>3, <2>7 DEF QueueInv, AvailInv
  <2>9. \A x, t : Open(q, x, t)' = Open(q, x, t) BY <2>4 DEF Open
  <2>10. \A x \in Xids : Dropped(x)' <=> ctx[x].pc = "gone" BY <1>1 DEF Dropped
  <2>11. \A m : m \in Free(q)' <=> m \in avail[q]
    <3>1. \A m : m \in Free(q)' <=> m \in Live(All(q))' /\ \A x \in Xids : ~Dropped(x)' => m \notin Open(q, x, "deq")'
      BY DEF Free
    <3> QED BY <2>5, <2>7, <2>8, <2>9, <2>10, <3>1
  <2>12. AvailInv(q)' BY <1>1, <2>3, <2>11 DEF AvailInv
  <2>13. Given(q)'
    <3> SUFFICES ASSUME NEW e \in All(q), e.is.x # NoXid, e.is.m \in avail[q]
                 PROVE  (e.is.t = "enq" => Over(e.is.x)') /\ (e.is.t = "deq" => Undone(e.is.x)')
      BY <1>1, <2>4 DEF Given
    <3>1. PICK x \in Xids : x = e.is.x BY AllFacts
    <3>2. RecsOf(q, x) = {d \in All(q) : d.is.x = x} /\ q \in Journals BY AllFacts
    <3>3. ctx[x].pc # "none" BY <1>3, <3>1, <3>2
    <3>4. ASSUME e.is.t = "enq" PROVE Over(x)'
      <4>1. e.is.m \in Live(All(q)) BY <2>7, <2>8
      <4>2. PICK k \in All(q) : OpAt(k, "enq", e.is.m) /\ Effective(All(q), k) BY <4>1 DEF Live, Done
      <4>3. k = e BY <2>1, <3>4, <4>2 DEF InOrder
      <4>4. PICK c \in All(q) : c.is.t = "commit" /\ c.is.x = x BY <3>1, <4>2, <4>3 DEF Effective, EndedBy
      <4>5. HasIn(RecsOf(q, x), "commit") BY <3>2, <4>4 DEF HasIn
      <4>6. TxnInv(x) /\ ThreadInv(x) BY DEF Book
      <4>7. Over(x) BY <4>5, <4>6, SettledOver
      <4> QED BY <1>2, <4>7 DEF Keeps
    <3>5. ASSUME e.is.t = "deq" PROVE Undone(x)'
      <4>1. TxnInv(x) /\ ThreadInv(x) BY DEF Book
      <4>2. ctx[x].pc # "prepared"
        <5> SUFFICES ASSUME ctx[x].pc = "prepared" PROVE FALSE OBVIOUS
        <5>1. e.is.m \in Open(q, x, "deq") BY <2>1, <3>1, <3>5, <4>1, SettledHolds
        <5> QED BY <2>7, <2>8, <5>1
      <4> QED BY <1>1, <1>3, <3>3, <4>2 DEF Undone
    <3> QED BY <3>1, <3>4, <3>5
  <2> QED BY <2>2, <2>6, <2>12, <2>13 DEF QueueInv
<1>5. ASSUME NEW x \in Xids PROVE ThreadInv(x)'
  <2>1. ThreadInv(x) BY DEF Book
  <2>2. LoggedInv(x)' /\ DoneInv(x)' BY <1>1, <2>1 DEF ThreadInv, LoggedInv, DoneInv, RecsOf, Does
  <2>3. RcvdInv(x)' BY <1>1, <1>3 DEF RcvdInv
  <2> QED BY <2>2, <2>3 DEF ThreadInv
<1> QED BY <1>1, <1>4, <1>5 DEF Book

-----------------------------------------------------------------------------
(* The broker and the journals agree.                                      *)

\* Nothing is enqueued yet.
LEMMA InitBook == Init => Book
<1> SUFFICES ASSUME Init PROVE Book OBVIOUS
<1>1. /\ \A x \in Xids : ctx[x] = NoCtx /\ ops[x] = {}
      /\ rec.phase = "up" /\ avail = [q \in Queues |-> {}]
  BY DEF Init, Up
<1>2. ASSUME NEW q \in Queues PROVE QueueInv(q)
  <2>1. q \in Journals BY TplIsJournal
  <2>2. log[q] = <<>> /\ maps[q].emap = {} /\ avail[q] = {} BY <1>1, <2>1 DEF Init, NoMaps
  <2>3. Len(<<>>) = 0 BY EmptySeq
  <2>4. All(q) = {} BY <2>2, <2>3 DEF All, AllOf
  <2>5. Live(All(q)) = {} BY <2>4 DEF Live, Done
  <2>6. Free(q) = {} BY <2>5 DEF Free
  <2>7. LogInv(q) BY <2>4 DEF LogInv, InOrder, Released, Rivals, Known
  <2>8. EmapInv(q) BY <2>2, <2>5 DEF EmapInv
  <2>9. AvailInv(q) BY <1>1, <2>2, <2>6 DEF AvailInv, IsUp
  <2>10. Given(q) BY <2>4 DEF Given
  <2> QED BY <2>7, <2>8, <2>9, <2>10 DEF QueueInv
<1>3. ASSUME NEW x \in Xids PROVE ThreadInv(x)
  <2>1. ctx[x].pc = "none" /\ ~ctx[x].rcvd BY <1>1 DEF NoCtx
  <2> QED BY <1>1, <2>1 DEF ThreadInv, LoggedInv, DoneInv, RcvdInv
<1> QED BY <1>1, <1>2, <1>3 DEF Book

\* Every step keeps the book.
LEMMA NextBook == Types /\ (\A x \in Xids : TxnInv(x)) /\ Book /\ [Next]_vars => Book'
<1> SUFFICES ASSUME Types, \A x \in Xids : TxnInv(x), Book, [Next]_vars PROVE Book' OBVIOUS
<1>1. Types' BY TypesNext
<1>2. \A x \in Xids : TxnInv(x) OBVIOUS
<1>3. CASE \E q \in Queues, m \in Msgs : Enqueue(q, m) \/ Dequeue(q, m) BY <1>1, <1>2, <1>3, PlainBook
<1>4. CASE (\E j \in Journals : PageOut(j) \/ Complete(j)) \/ UNCHANGED vars BY <1>1, <1>4, DisksBook
<1>5. CASE \E x \in Xids : Prepare(x) BY <1>1, <1>2, <1>5, AskBook
<1>6. CASE \E x \in Xids, tpc \in BOOLEAN : Begin(x, tpc) BY <1>1, <1>2, <1>6, BeginBook
<1>7. CASE \E x \in Xids, end \in {"commit", "abort"} : EndLocal(x, end) BY <1>1, <1>2, <1>7, EndLocalBook
<1>8. CASE \E x \in Xids, end \in {"commit", "abort"} : EndDtx(x, end) BY <1>1, <1>2, <1>8, AskBook
<1>9. CASE \E x \in Xids, q \in Queues, m \in Msgs : TxnEnqueue(x, q, m) \/ TxnDequeue(x, q, m)
  BY <1>1, <1>2, <1>9, TxnOpsBook
<1>10. CASE \E x \in Xids : Flush(x) \/ Sync(x) \/ SyncTimeout(x) BY <1>1, <1>2, <1>10, SyncsBook
<1>11. CASE \E x \in Xids : TplEnqueue(x) \/ TplDequeue(x) \/ CommitTpl(x) BY <1>1, <1>2, <1>11, ListBook
<1>12. CASE \E x \in Xids, q \in Queues : CommitQueue(x, q) BY <1>1, <1>2, <1>12, CommitQueueBook
<1>13. CASE \E x \in Xids : Return(x) BY <1>1, <1>2, <1>13, ReturnBook
<1>14. CASE RecoverTplStore BY <1>1, <1>2, <1>14, RecoverTplStoreBook
<1>15. CASE \E q \in Queues : RecoverQueue(q) BY <1>1, <1>2, <1>15, RecoverQueueBook
<1>16. CASE \E x \in Xids : RecoverTxn(x) BY <1>1, <1>2, <1>16, RecoverTxnBook
<1>17. CASE RecoveryComplete BY <1>1, <1>2, <1>17, RecoveryCompleteBook
<1>18. CASE Crash BY <1>1, <1>2, <1>18, CrashBook
<1> QED
  BY <1>3, <1>4, <1>5, <1>6, <1>7, <1>8, <1>9, <1>10, <1>11, <1>12, <1>13, <1>14, <1>15, <1>16, <1>17, <1>18
  DEF Next, Broker, Thread, Recovery

\* When no call is under way nothing is due to the broker, and enq_map and txn_map of
\* every queue say what its log says.
LEMMA BrokerAgreesFromBook == Inv /\ Book => BrokerAgrees
<1> SUFFICES ASSUME Inv, Book, IsUp, NoneRunning, \A x \in Xids : ~At(x, "failed"), NEW q \in Queues
             PROVE  avail[q] = maps[q].emap \ Dequeuing(q)
  BY DEF BrokerAgrees
<1>1. Types /\ \A x \in Xids : TxnInv(x) BY DEF Inv
<1>2. QueueInv(q) /\ InOrder(All(q)) BY DEF Book, QueueInv, LogInv
<1>3. rec.phase = "up" /\ Rebuilt(q) BY DEF IsUp, Rebuilt
<1>4. \A x \in Xids : ~Ending(x)
  <2> SUFFICES ASSUME NEW x \in Xids PROVE ~Ending(x) OBVIOUS
  <2>1. ctx[x].pc \notin Running /\ ctx[x].pc # "failed" BY DEF NoneRunning, At
  <2>2. Stage(x) = ctx[x].pc BY <2>1 DEF Stage, Waiting, Running
  <2> QED BY <2>1, <2>2 DEF Ending, Running
<1>5. maps[q].emap = Live(All(q)) BY <1>2, <1>3 DEF QueueInv, EmapInv
<1>6. \A m : m \in avail[q] <=> m \in Free(q) BY <1>2, <1>4 DEF QueueInv, AvailInv
<1>7. ASSUME NEW x \in Xids, Dropped(x) PROVE DeqsOf(maps[q], x) = {}
  <2>1. HeldOf(q, x) = {} BY <1>1, <1>3, <1>7 DEF TxnInv, MapInv
  <2> QED BY <2>1 DEF HeldOf, DeqsOf
<1>8. ASSUME NEW x \in Xids, ~Dropped(x) PROVE DeqsOf(maps[q], x) = Open(q, x, "deq")
  <2>1. Match(HeldOf(q, x), RecsOf(q, x), cmpl[q]) BY <1>1, <1>3, <1>8 DEF TxnInv, MapInv
  <2>2. PICK S : S = All(q) OBVIOUS
  <2>3. PICK Es : Es = Entries(maps[q], x) OBVIOUS
  <2>4. PICK n : n = cmpl[q] OBVIOUS
  <2>5. RecsOf(q, x) = {e \in S : e.is.x = x} BY <1>1, <2>2, AllFacts
  <2>6. Match(Es, {e \in S : e.is.x = x}, n) BY <2>1, <2>3, <2>4, <2>5 DEF HeldOf
  <2>7. \A e \in S : IsOp(e.is) => e.is.m \in Msgs BY <1>2, <2>2 DEF InOrder
  <2>8. {t.m : t \in {e \in Es : ~e.enq}} = OpenIn(S, x, "deq") BY <2>6, <2>7, MatchMsgs
  <2> QED BY <2>2, <2>3, <2>8 DEF DeqsOf, Open
<1>9. \A m : m \in Dequeuing(q) <=> \E x \in Xids : ~Dropped(x) /\ m \in Open(q, x, "deq")
  <2>1. \A m : m \in Dequeuing(q) <=> \E x \in Xids : m \in DeqsOf(maps[q], x) BY DEF Dequeuing
  <2> QED BY <1>7, <1>8, <2>1
<1>10. \A m : m \in Free(q) <=> m \in Live(All(q)) /\ ~\E x \in Xids : ~Dropped(x) /\ m \in Open(q, x, "deq") BY DEF Free
<1> QED BY <1>5, <1>6, <1>9, <1>10

\* Whenever the store is up and no call of it is under way, and none was given up, the
\* broker has available of every queue the messages that are enqueued in its journal and
\* that no open transaction is dequeuing: also after any crash, when recoverMessages()
\* gave them out before the interrupted transactions were completed.
THEOREM BrokerAgreesAlways == Spec => []BrokerAgrees
<1>1. Init => Inv /\ Book BY InitTypes, InitInv, InitBook DEF Inv
<1>2. Inv /\ Book /\ [Next]_vars => (Inv /\ Book)' BY TypesNext, NextInv, NextBook DEF Inv
<1>3. Inv /\ Book => BrokerAgrees BY BrokerAgreesFromBook
<1> QED BY <1>1, <1>2, <1>3, PTL DEF Spec
=============================================================================
