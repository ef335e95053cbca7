----------------------------- MODULE TxnJournal -----------------------------
(***************************************************************************)
(* One journal as the store's transactions see it: a log of records, and   *)
(* the two maps a record changes when it is written (class wmgr) and again *)
(* when it is replayed after a crash (jcntl::rcvr_get_next_record()).      *)
(* Pages, files and sizes are those of module Wmgr; here a record is what  *)
(* it says and a log is a sequence.  This module holds no state.           *)
(***************************************************************************)
EXTENDS Naturals, Sequences, SequencesExt

CONSTANTS
    Xids,       \* transaction ids
    NoXid       \* the empty xid of an operation outside a transaction

ASSUME XidAssumption == NoXid \notin Xids

\* m is the message enqueued or dequeued; flag is only used in the prepared
\* list: an enqueue says whether the transaction is 2PC, a dequeue whether it
\* is to be committed.
Record(t, m, x, flag) == [t |-> t, m |-> m, x |-> x, flag |-> flag]

\* emap holds the enqueued messages, lock those of them that a transaction is
\* dequeuing, tmap[x] the operations of open transaction x with the position of
\* their record in the log (0 once recovered: such a record is on disk).
NoMaps == [emap |-> {}, lock |-> {}, tmap |-> [x \in Xids |-> <<>>]]

Entries(ms, x) == ToSet(ms.tmap[x])
EnqsOf(ms, x) == {t.m : t \in {e \in Entries(ms, x) : e.enq}}
DeqsOf(ms, x) == {t.m : t \in {e \in Entries(ms, x) : ~e.enq}}

InTxn(ms, r, pos) ==
    [ms EXCEPT !.tmap[r.x] =
        Append(@, [m |-> r.m, enq |-> r.t = "enq", flag |-> r.flag, pos |-> pos])]

AfterEnqueue(ms, r, pos) ==
    IF r.x = NoXid THEN [ms EXCEPT !.emap = @ \cup {r.m}] ELSE InTxn(ms, r, pos)

\* A message enqueued by an open transaction is not in emap: nothing to lock.
AfterDequeue(ms, r, pos) ==
    IF r.x = NoXid
    THEN [ms EXCEPT !.emap = @ \ {r.m}, !.lock = @ \ {r.m}]
    ELSE [InTxn(ms, r, pos) EXCEPT !.lock = @ \cup ({r.m} \cap ms.emap)]

AfterAbort(ms, x) ==
    [ms EXCEPT !.lock = @ \ DeqsOf(ms, x), !.tmap[x] = <<>>]

\* Mutant: the lock of a record survives the record.
AfterCommit_KeepsLock(ms, x) ==
    [ms EXCEPT !.emap = (@ \cup EnqsOf(ms, x)) \ DeqsOf(ms, x), !.tmap[x] = <<>>]

AfterCommit(ms, x) ==
    [ms EXCEPT !.emap = (@ \cup EnqsOf(ms, x)) \ DeqsOf(ms, x),
               !.lock = @ \ DeqsOf(ms, x),
               !.tmap[x] = <<>>]

\* The maps after record r, which stands at position pos.
After(ms, r, pos) ==
    CASE r.t = "enq"    -> AfterEnqueue(ms, r, pos)
      [] r.t = "deq"    -> AfterDequeue(ms, r, pos)
      [] r.t = "abort"  -> AfterAbort(ms, r.x)
      [] r.t = "commit" -> AfterCommit(ms, r.x)

\* The maps rebuilt from a log; what is found there is on disk.
Replay(log) ==
    LET after[n \in 0 .. Len(log)] == IF n = 0 THEN NoMaps ELSE After(after[n - 1], log[n], 0)
    IN  after[Len(log)]

\* Transactions that are not in the prepared list are forgotten, and what they
\* were dequeuing is unlocked.  Nothing is written to the journal.
WithoutUnprepared(ms, prepared) ==
    LET gone == Xids \ prepared
    IN  [ms EXCEPT
            !.lock = @ \ UNION {DeqsOf(ms, x) : x \in gone},
            !.tmap = [x \in Xids |-> IF x \in gone THEN <<>> ELSE @[x]]]

\* The records of transaction x that end it.
Ends(r, x) == r.t \in {"abort", "commit"} /\ r.x = x
=============================================================================
