---------------------------- MODULE MsgStoreTxn ----------------------------
(***************************************************************************)
(* Transactions over several journals: class TxnCtxt, localPrepare() and   *)
(* completed() of class MessageStoreImpl, and the recovery of the store.   *)
(*                                                                         *)
(* Every queue has a journal; one more journal, the prepared list (TPL),   *)
(* makes a transaction atomic.  A local (1PC) transaction is prepared and  *)
(* completed in one call of commit() or abort(); a distributed (2PC) one   *)
(* by separate calls.  First all the transaction's records are synced in   *)
(* every journal, then its prepare record is written to the TPL, then a    *)
(* dequeue of that record says how it ends, then each journal and at last  *)
(* the TPL get their commit or abort record.                               *)
(*                                                                         *)
(* A crash loses what is not on disk.  Recovery replays the TPL and then   *)
(* the queues' journals, and completes what a crash interrupted.           *)
(***************************************************************************)
EXTENDS TxnJournal, FiniteSets

CONSTANTS
    Queues,     \* the queues, each with its journal
    TPL,        \* the journal of prepared transactions
    Msgs,       \* messages
    MaxOps,     \* bound: operations in one transaction
    MaxCrash    \* bound: crashes

ASSUME StoreAssumption ==
    /\ TPL \notin Queues
    /\ MaxOps \in Nat /\ MaxCrash \in Nat

Journals == Queues \cup {TPL}

VARIABLES
    log,        \* log[j]: the records written to journal j
    subm,       \* subm[j]: how many of them are handed to the kernel
    cmpl,       \* cmpl[j]: how many of those are reported on disk
    maps,       \* maps[j]: enq_map and txn_map of journal j
    ctx,        \* ctx[x]: the TxnCtxt of x and the thread working on it
    rec,        \* the recovery of the store
    avail,      \* avail[q]: messages the broker holds as available on q
    ops,        \* history: ops[x], the operations the broker made in x
    asked,      \* history: asked[x], how the broker asked x to end
    told,       \* history: told[x], what the broker was told of x
    crashes     \* crashes so far

jrnlVars == <<log, subm, cmpl, maps>>
histVars == <<ops, asked, told>>
vars == <<jrnlVars, ctx, rec, avail, histVars, crashes>>

(***************************************************************************)
(* A context: pc and then (where the thread goes after a sync), the        *)
(* impacted queues, those still to be closed, whether the TPL is involved  *)
(* (preparedXidStorePtr), the state of the TPL data token, whether the     *)
(* transaction is distributed (isTPC()) and whether it is to be committed, *)
(* and whether recovery brought it back.                                   *)
(***************************************************************************)
NoCtx == [pc |-> "none", then |-> "none", impacted |-> {}, left |-> {},
          prepared |-> FALSE, dtok |-> "NONE", tpc |-> FALSE, commit |-> FALSE,
          rcvd |-> FALSE]

\* Mutant: recovery also waits for the transactions that are in doubt.
Running_InDoubt == {"flush", "sync", "tplEnq", "tplDeq", "close", "return", "prepared"}

\* Threads are in a call of the store in these places.
Running == {"flush", "sync", "tplEnq", "tplDeq", "close", "return"}

NoList == [x \in Xids |-> [deq |-> FALSE, commit |-> FALSE, tpc |-> FALSE]]
Up == [phase |-> "up", todo |-> {}, list |-> NoList, prep |-> {}]

Init ==
    /\ log = [j \in Journals |-> <<>>]
    /\ subm = [j \in Journals |-> 0]
    /\ cmpl = [j \in Journals |-> 0]
    /\ maps = [j \in Journals |-> NoMaps]
    /\ ctx = [x \in Xids |-> NoCtx]
    /\ rec = Up
    /\ avail = [q \in Queues |-> {}]
    /\ ops = [x \in Xids |-> {}]
    /\ asked = [x \in Xids |-> "none"]
    /\ told = [x \in Xids |-> "none"]
    /\ crashes = 0

At(x, pc) == ctx[x].pc = pc
Goto(x, pc) == ctx' = [ctx EXCEPT ![x].pc = pc]
IsUp == rec.phase = "up"

\* A record is put into the journal's page cache, and its maps follow.
Write(j, r) ==
    /\ log' = [log EXCEPT ![j] = Append(@, r)]
    /\ maps' = [maps EXCEPT ![j] = After(@, r, Len(log[j]) + 1)]
    /\ UNCHANGED <<subm, cmpl>>

\* is_txn_synced(): no record of x, and no end of x, is still on its way.
IsTxnSynced(j, x) ==
    /\ \A t \in Entries(maps[j], x) : t.pos <= cmpl[j]
    /\ \A i \in cmpl[j] + 1 .. Len(log[j]) : ~Ends(log[j][i], x)

-----------------------------------------------------------------------------
(* The broker: operations outside and inside transactions.                 *)

\* The store numbers messages: one that is enqueued on a queue is new there.
Fresh(q, m) == \A i \in DOMAIN log[q] : log[q][i].t = "enq" => log[q][i].m # m

Enqueue(q, m) ==
    /\ IsUp
    /\ Fresh(q, m)
    /\ Write(q, Record("enq", m, NoXid, FALSE))
    /\ avail' = [avail EXCEPT ![q] = @ \cup {m}]
    /\ UNCHANGED <<ctx, rec, histVars, crashes>>

Dequeue(q, m) ==
    /\ IsUp
    /\ m \in avail[q]
    /\ Write(q, Record("deq", m, NoXid, FALSE))
    /\ avail' = [avail EXCEPT ![q] = @ \ {m}]
    /\ UNCHANGED <<ctx, rec, histVars, crashes>>

\* begin() of a local transaction or, with an xid, of a distributed one.
Begin(x, tpc) ==
    /\ IsUp
    /\ At(x, "none")
    /\ ctx' = [ctx EXCEPT ![x].pc = "open", ![x].tpc = tpc]
    /\ UNCHANGED <<jrnlVars, rec, avail, histVars, crashes>>

\* An operation in transaction x: the journal is written, and the queue is
\* added to the queues the transaction has touched (addXidRecord()).
TxnOp(x, q, m, t) ==
    /\ IsUp
    /\ At(x, "open")
    /\ Cardinality(ops[x]) < MaxOps
    /\ Write(q, Record(t, m, x, FALSE))
    /\ ctx' = [ctx EXCEPT ![x].impacted = @ \cup {q}]
    /\ ops' = [ops EXCEPT ![x] = @ \cup {[q |-> q, m |-> m, t |-> t]}]
    /\ UNCHANGED <<rec, asked, told, crashes>>

TxnEnqueue(x, q, m) ==
    /\ Fresh(q, m)
    /\ TxnOp(x, q, m, "enq")
    /\ UNCHANGED avail

TxnDequeue(x, q, m) ==
    /\ m \in avail[q]
    /\ TxnOp(x, q, m, "deq")
    /\ avail' = [avail EXCEPT ![q] = @ \ {m}]

-----------------------------------------------------------------------------
(* TxnCtxt::sync(): every journal of the transaction is flushed, then each *)
(* is waited for until it is synced or has no write in flight.             *)

\* Mutant: only the prepared list is synced.
SyncSet_TplOnly(x) == IF ctx[x].prepared THEN {TPL} ELSE {}

SyncSet(x) == ctx[x].impacted \cup (IF ctx[x].prepared THEN {TPL} ELSE {})

StartSync(x, then) == [ctx[x] EXCEPT !.pc = "flush", !.then = then]

Flush(x) ==
    /\ At(x, "flush")
    /\ subm' = [j \in Journals |->
                  IF j \in SyncSet(x) /\ ~IsTxnSynced(j, x) THEN Len(log[j]) ELSE subm[j]]
    /\ Goto(x, "sync")
    /\ UNCHANGED <<log, cmpl, maps, rec, avail, histVars, crashes>>

\* Mutant: the wait is for every journal of the store, flushed or not.
Waited_All(x) == \A j \in Journals : cmpl[j] = Len(log[j])

Waited(x) == \A j \in SyncSet(x) : IsTxnSynced(j, x) \/ cmpl[j] = subm[j]

\* A 2PC prepare returns to the broker once it is synced.
Sync(x) ==
    /\ At(x, "sync")
    /\ Waited(x)
    /\ Goto(x, ctx[x].then)
    /\ told' = [told EXCEPT ![x] = IF ctx[x].then = "prepared" THEN "prepared" ELSE @]
    /\ UNCHANGED <<jrnlVars, rec, avail, ops, asked, crashes>>

\* A wait for the disk that takes too long throws out of the call, and the
\* broker gives the transaction up.
SyncTimeout(x) ==
    /\ IsUp
    /\ At(x, "sync")
    /\ Goto(x, "failed")
    /\ UNCHANGED <<jrnlVars, rec, avail, histVars, crashes>>

-----------------------------------------------------------------------------
(* localPrepare() and completed().                                         *)

\* Mutant: the prepare record is written without syncing the queues first.
LocalPrepare_NoSync(x) == [ctx[x] EXCEPT !.pc = "tplEnq"]

LocalPrepare(x) == StartSync(x, "tplEnq")

Ask(x, end) == asked' = [asked EXCEPT ![x] = end]

\* commit() and abort() of a local transaction, and prepare() of a 2PC one.  A
\* local transaction that has touched no queue ends at once.
EndLocal(x, end) ==
    /\ IsUp
    /\ At(x, "open") /\ ~ctx[x].tpc
    /\ IF ctx[x].impacted = {} THEN Goto(x, "done") /\ UNCHANGED histVars
       ELSE /\ ctx' = [ctx EXCEPT ![x] = [LocalPrepare(x) EXCEPT !.commit = end = "commit"]]
            /\ Ask(x, end)
            /\ UNCHANGED <<ops, told>>
    /\ UNCHANGED <<jrnlVars, rec, avail, crashes>>

Prepare(x) ==
    /\ IsUp
    /\ At(x, "open") /\ ctx[x].tpc
    /\ ctx' = [ctx EXCEPT ![x] = LocalPrepare(x)]
    /\ UNCHANGED <<jrnlVars, rec, avail, histVars, crashes>>

\* The prepare record is synced too before localPrepare() returns.
TplEnqueue(x) ==
    /\ At(x, "tplEnq")
    /\ Write(TPL, Record("enq", x, x, ctx[x].tpc))
    /\ ctx' = [ctx EXCEPT ![x] =
                 [StartSync(x, IF ctx[x].tpc THEN "prepared" ELSE "tplDeq")
                     EXCEPT !.prepared = TRUE, !.dtok = "ENQ"]]
    /\ UNCHANGED <<rec, avail, histVars, crashes>>

\* The broker ends a 2PC transaction: it may abort one that is not prepared.
EndDtx(x, end) ==
    /\ IsUp
    /\ ctx[x].tpc
    /\ At(x, "prepared") \/ (At(x, "open") /\ end = "abort")
    /\ ctx' = [ctx EXCEPT ![x].pc = "tplDeq", ![x].commit = (end = "commit")]
    /\ Ask(x, end)
    /\ UNCHANGED <<jrnlVars, rec, avail, ops, told, crashes>>

\* The data token of the prepare record says ENQ once that record is on disk.
IsEnqueued(x) == ctx[x].dtok = "ENQ" /\ \A t \in Entries(maps[TPL], x) : t.pos <= cmpl[TPL]

\* completed(): the prepare record is dequeued, if there is one on disk, with
\* the way the transaction ends; complete() starts with a sync.
TplDequeue(x) ==
    /\ At(x, "tplDeq")
    /\ IF IsEnqueued(x)
       THEN Write(TPL, Record("deq", x, x, ctx[x].commit))
       ELSE UNCHANGED jrnlVars
    /\ ctx' = [ctx EXCEPT ![x] = [StartSync(x, "close")
                 EXCEPT !.dtok = IF IsEnqueued(x) THEN "DEQ" ELSE @, !.left = ctx[x].impacted]]
    /\ UNCHANGED <<rec, avail, histVars, crashes>>

EndRecord(x) == Record(IF ctx[x].commit THEN "commit" ELSE "abort", NoXid, x, FALSE)

\* Mutant: a commit record is not waited for.
AfterEnd_NoSync(x, next) == [ctx[x] EXCEPT !.pc = next]

\* commitTxn() syncs a commit record; an abort record is left to the cache.
AfterEnd(x, next) ==
    IF ctx[x].commit THEN StartSync(x, next) ELSE [ctx[x] EXCEPT !.pc = next]

CommitQueue(x, q) ==
    /\ At(x, "close")
    /\ q \in ctx[x].left
    /\ Write(q, EndRecord(x))
    /\ ctx' = [ctx EXCEPT ![x] = [AfterEnd(x, "close") EXCEPT !.left = @ \ {q}]]
    /\ UNCHANGED <<rec, avail, histVars, crashes>>

CommitTpl(x) ==
    /\ At(x, "close")
    /\ ctx[x].left = {}
    /\ IF ctx[x].prepared
       THEN /\ Write(TPL, EndRecord(x))
            /\ ctx' = [ctx EXCEPT ![x] = [AfterEnd(x, "return") EXCEPT !.impacted = {}]]
       ELSE /\ ctx' = [ctx EXCEPT ![x].pc = "return", ![x].impacted = {}]
            /\ UNCHANGED jrnlVars
    /\ UNCHANGED <<rec, avail, histVars, crashes>>

\* The call returns.  The broker releases what was enqueued, or takes back what
\* was dequeued; recovery has already done so for what it completes itself.
OpsOn(q, x, t) == {o.m : o \in {p \in ops[x] : p.q = q /\ p.t = t}}

Return(x) ==
    /\ At(x, "return")
    /\ Goto(x, "done")
    /\ told' = [told EXCEPT ![x] = IF ctx[x].commit THEN "committed" ELSE "aborted"]
    /\ avail' = IF ctx[x].rcvd THEN avail ELSE
          [q \in Queues |-> avail[q] \cup OpsOn(q, x, IF ctx[x].commit THEN "enq" ELSE "deq")]
    /\ UNCHANGED <<jrnlVars, rec, ops, asked, crashes>>

-----------------------------------------------------------------------------
(* The journals' disks.  Pages become full, or a timer flushes them; the   *)
(* kernel completes the writes of a journal in the order of the log.       *)

PageOut(j) ==
    /\ subm[j] < Len(log[j])
    /\ subm' = [subm EXCEPT ![j] = @ + 1]
    /\ UNCHANGED <<log, cmpl, maps, ctx, rec, avail, histVars, crashes>>

Complete(j) ==
    /\ cmpl[j] < subm[j]
    /\ cmpl' = [cmpl EXCEPT ![j] = @ + 1]
    /\ UNCHANGED <<log, subm, maps, ctx, rec, avail, histVars, crashes>>

\* A crash keeps what is complete and any more of what was with the kernel.
Crash ==
    /\ crashes < MaxCrash
    /\ crashes' = crashes + 1
    /\ \E kept \in [Journals -> UNION {0 .. subm[j] : j \in Journals}] :
          /\ \A j \in Journals : kept[j] \in cmpl[j] .. subm[j]
          /\ log' = [j \in Journals |-> SubSeq(log[j], 1, kept[j])]
          /\ subm' = kept
          /\ cmpl' = kept
    /\ maps' = [j \in Journals |-> NoMaps]
    /\ ctx' = [x \in Xids |-> IF At(x, "none") THEN NoCtx ELSE [NoCtx EXCEPT !.pc = "gone"]]
    /\ avail' = [q \in Queues |-> {}]
    /\ rec' = [Up EXCEPT !.phase = "tpl"]
    /\ UNCHANGED histVars

-----------------------------------------------------------------------------
(* MessageStoreImpl::recover(): the prepared list, the queues one by one,  *)
(* then the transactions in the list one by one.                           *)

\* readTplStore(): a transaction is in the list while the TPL has records of it
\* and no end.  Without a dequeue it is assumed to be committed.
Listed(ms) == {x \in Xids : EnqsOf(ms, x) # {}}

\* Mutant: the flag of the dequeue is not looked at.
ListEntry_AlwaysCommit(ms, x) ==
    [deq    |-> DeqsOf(ms, x) # {},
     commit |-> TRUE,
     tpc    |-> \E t \in Entries(ms, x) : t.enq /\ t.flag]

ListEntry(ms, x) ==
    [deq    |-> DeqsOf(ms, x) # {},
     commit |-> \A t \in Entries(ms, x) : t.enq \/ t.flag,
     tpc    |-> \E t \in Entries(ms, x) : t.enq /\ t.flag]

RecoverTplStore ==
    /\ rec.phase = "tpl"
    /\ LET ms == Replay(log[TPL])
       IN  /\ maps' = [maps EXCEPT ![TPL] = ms]
           /\ rec' = [phase |-> "queues", todo |-> Queues, prep |-> Listed(ms),
                      list |-> [x \in Xids |-> ListEntry(ms, x)]]
    /\ UNCHANGED <<log, subm, cmpl, ctx, avail, histVars, crashes>>

\* recoverMessages(): of the messages still in the journal, those that no listed
\* transaction holds are given to the broker, and those held by a transaction
\* that recovery will complete, according to how it ends.
Locks(ms, x) == EnqsOf(ms, x) \cup DeqsOf(ms, x)
HeldBy(ms, m) == {x \in rec.prep : m \in Locks(ms, x)}
Completes(x) == rec.list[x].deq \/ ~rec.list[x].tpc
GivenTo(ms, m, x) ==
    /\ Completes(x)
    /\ IF m \in ms.emap THEN ~rec.list[x].commit
       ELSE m \in EnqsOf(ms, x) \ DeqsOf(ms, x) /\ rec.list[x].commit
Found(ms) == ms.emap \cup UNION {EnqsOf(ms, x) : x \in Xids}

\* Mutant: what a transaction to be completed enqueued is not given out.
Recovered_EmapOnly(ms) == {m \in ms.emap : \A x \in HeldBy(ms, m) : GivenTo(ms, m, x)}

Recovered(ms) == {m \in Found(ms) : \A x \in HeldBy(ms, m) : GivenTo(ms, m, x)}

RecoverQueue(q) ==
    /\ rec.phase = "queues"
    /\ q \in rec.todo
    /\ LET ms == WithoutUnprepared(Replay(log[q]), rec.prep)
       IN  /\ maps' = [maps EXCEPT ![q] = ms]
           /\ avail' = [avail EXCEPT ![q] = Recovered(ms)]
    /\ rec' = IF rec.todo = {q} THEN [rec EXCEPT !.phase = "txns", !.todo = rec.prep]
              ELSE [rec EXCEPT !.todo = @ \ {q}]
    /\ UNCHANGED <<log, subm, cmpl, ctx, histVars, crashes>>

NoneRunning == \A x \in Xids : ctx[x].pc \notin Running

\* A 2PC transaction without a dequeue is left to the broker, in doubt; all
\* others are completed now, from the dequeue of the prepare record or after it.
RecoverTxn(x) ==
    /\ rec.phase = "txns"
    /\ x \in rec.todo
    /\ NoneRunning
    /\ rec' = [rec EXCEPT !.todo = @ \ {x}]
    /\ LET touched == {q \in Queues : Entries(maps[q], x) # {}}
           c == [NoCtx EXCEPT !.prepared = TRUE, !.dtok = "ENQ", !.impacted = touched,
                              !.tpc = rec.list[x].tpc, !.commit = rec.list[x].commit, !.rcvd = Completes(x)]
       IN  ctx' = [ctx EXCEPT ![x] =
               IF rec.list[x].deq
               THEN [c EXCEPT !.pc = "flush", !.then = "close", !.left = touched]
               ELSE [c EXCEPT !.pc = IF c.tpc THEN "prepared" ELSE "tplDeq"]]
    /\ UNCHANGED <<jrnlVars, avail, histVars, crashes>>

RecoveryComplete ==
    /\ rec.phase = "txns"
    /\ rec.todo = {}
    /\ NoneRunning
    /\ rec' = Up
    /\ UNCHANGED <<jrnlVars, ctx, avail, histVars, crashes>>

-----------------------------------------------------------------------------
Broker ==
    \/ \E q \in Queues, m \in Msgs : Enqueue(q, m) \/ Dequeue(q, m)
    \/ \E x \in Xids : \/ Prepare(x)
                       \/ \E tpc \in BOOLEAN : Begin(x, tpc)
                       \/ \E end \in {"commit", "abort"} : EndLocal(x, end) \/ EndDtx(x, end)
                       \/ \E q \in Queues, m \in Msgs : TxnEnqueue(x, q, m) \/ TxnDequeue(x, q, m)

Thread(x) ==
    \/ Flush(x) \/ Sync(x) \/ TplEnqueue(x) \/ TplDequeue(x)
    \/ CommitTpl(x) \/ Return(x)
    \/ \E q \in Queues : CommitQueue(x, q)

Recovery ==
    \/ RecoverTplStore \/ RecoveryComplete
    \/ \E q \in Queues : RecoverQueue(q)
    \/ \E x \in Xids : RecoverTxn(x)

Next ==
    \/ Broker
    \/ \E x \in Xids : Thread(x) \/ SyncTimeout(x)
    \/ \E j \in Journals : PageOut(j) \/ Complete(j)
    \/ Recovery
    \/ Crash

Spec == Init /\ [][Next]_vars
-----------------------------------------------------------------------------
(* Properties.                                                             *)

RecordType == [t : {"enq", "deq", "abort", "commit"}, m : Msgs \cup Xids \cup {NoXid},
               x : Xids \cup {NoXid}, flag : BOOLEAN]
EntryType == [m : Msgs \cup Xids, enq : BOOLEAN, flag : BOOLEAN, pos : Nat]
MapsType == [emap : SUBSET Msgs, lock : SUBSET Msgs, tmap : [Xids -> Seq(EntryType)]]
CtxType == [pc : Running \cup {"none", "open", "prepared", "failed", "done", "gone"},
            then : {"none", "tplEnq", "prepared", "tplDeq", "close", "return"},
            impacted : SUBSET Queues, left : SUBSET Queues, prepared : BOOLEAN,
            dtok : {"NONE", "ENQ", "DEQ"}, tpc : BOOLEAN, commit : BOOLEAN, rcvd : BOOLEAN]
OpType == [q : Queues, m : Msgs, t : {"enq", "deq"}]

\* The type invariant: the kernel never holds more of a journal than was written
\* to it, nothing is complete that was not submitted, and only messages of the
\* journal are locked in it.
TypeOK ==
    /\ log \in [Journals -> Seq(RecordType)]
    /\ \A j \in Journals : cmpl[j] \in 0 .. subm[j] /\ subm[j] \in 0 .. Len(log[j])
    /\ maps \in [Journals -> MapsType]
    /\ \A j \in Journals : maps[j].lock \subseteq maps[j].emap
    /\ ctx \in [Xids -> CtxType]
    /\ rec.phase \in {"up", "tpl", "queues", "txns"} /\ rec.prep \subseteq Xids
    /\ avail \in [Queues -> SUBSET Msgs]
    /\ ops \in [Xids -> SUBSET OpType]

Has(l, t, x) == \E i \in DOMAIN l : l[i].t = t /\ l[i].x = x

\* "all txn data must hit the disk on *all* queues before the TPL prepare (enq)
\* is written" (localPrepare()): the prepare record in the page cache of the TPL
\* already means that every operation of the transaction is on disk.
PreparedAfterData(x) == Has(log[TPL], "enq", x) =>
    \A o \in ops[x] : \E i \in 1 .. cmpl[o.q] :
        log[o.q][i] = Record(o.t, o.m, x, FALSE)

\* No journal has the commit of a prepared transaction before the TPL has on disk
\* that it is to be committed: a crash in between would leave the other journals
\* to what is assumed of a transaction without an end.
CommitAfterDecision(x) == \A q \in Queues : Has(log[q], "commit", x) =>
    \E i \in 1 .. cmpl[TPL] :
        log[TPL][i].x = x /\ log[TPL][i].t = "deq" /\ log[TPL][i].flag

\* The order over the journals that a recovery relies on: first the data, then
\* the prepare record, then the decision, then the commit records of the queues.
DecidedInOrder == \A x \in Xids : PreparedAfterData(x) /\ CommitAfterDecision(x)

\* Transaction x is committed in the journal of q, with all its operations there.
Committed(q, x) == \E i \in DOMAIN log[q] :
    /\ log[q][i].t = "commit" /\ log[q][i].x = x
    /\ \A o \in ops[x] : o.q = q =>
        \E k \in 1 .. i - 1 : log[q][k] = Record(o.t, o.m, x, FALSE)
Untouched(q, x) == ~Has(log[q], "commit", x) /\ maps[q].tmap[x] = <<>>
QueuesOf(x) == {o.q : o \in ops[x]}

\* A transaction that nobody works on any more took effect as a whole or not at
\* all, in every journal it touched, whenever the broker crashed and however
\* often recovery itself was interrupted.
AllOrNothing == IsUp => \A x \in Xids : ctx[x].pc \in {"done", "gone"} =>
    \/ \A q \in QueuesOf(x) : Committed(q, x)
    \/ \A q \in QueuesOf(x) : Untouched(q, x)

\* What the broker was told holds after any crash: a commit stays, an abort stays
\* one, and a prepared transaction is still there with all its operations.
ToldHolds == IsUp => \A x \in Xids :
    /\ told[x] = "committed" => \A q \in QueuesOf(x) : Committed(q, x)
    /\ told[x] = "aborted" => \A q \in QueuesOf(x) : Untouched(q, x)
    /\ told[x] = "prepared" => ctx[x].pc # "gone" \/ asked[x] # "none"
    /\ told[x] = "prepared" /\ At(x, "prepared") => \A o \in ops[x] :
          o.m \in (IF o.t = "enq" THEN EnqsOf(maps[o.q], x) ELSE DeqsOf(maps[o.q], x))

Dequeuing(q) == UNION {DeqsOf(maps[q], x) : x \in Xids}

\* The broker's queue and the journal agree when no call is under way, also right
\* after a recovery, where recoverMessages() guesses from the lists what the
\* completion of interrupted transactions will do afterwards.
BrokerAgrees == IsUp /\ NoneRunning /\ (\A x \in Xids : ~At(x, "failed")) =>
    \A q \in Queues : avail[q] = maps[q].emap \ Dequeuing(q)

\* "If it is aborted, it can never be read" (jcntl.hpp): a transaction that the
\* broker asked to abort is never found committed, crash or not.
AbortedNeverCommits == \A x \in Xids : asked[x] = "abort" =>
    \A q \in Queues : ~Has(log[q], "commit", x)

\* "An enqueue is locked when a transactional dequeue is pending that has been
\* neither committed nor aborted" (enq_map.hpp); recoverMessages() asserts it.
LockedWhileDequeued == rec.phase \in {"txns", "up"} =>
    \A q \in Queues : maps[q].lock = maps[q].emap \cap Dequeuing(q)

-----------------------------------------------------------------------------
(* Liveness: threads go on, what is submitted is written, recovery runs.   *)

Fairness ==
    /\ \A x \in Xids : WF_vars(Thread(x))
    /\ \A j \in Journals : WF_vars(Complete(j))
    /\ WF_vars(Recovery)
FairSpec == Spec /\ Fairness

\* Every call of the store returns, unless it times out or the broker crashes,
\* and a crashed store comes up again with the interrupted transactions completed.
CallReturns(x) == ctx[x].pc \in Running ~> ctx[x].pc \notin Running
RecoveryEnds == ~IsUp ~> IsUp
CallsAndRecoveryEnd == (\A x \in Xids : CallReturns(x)) /\ RecoveryEnds
=============================================================================
