---------------------------- MODULE Instrumented ----------------------------
(***************************************************************************)
(* What JournalImpl and MessageStoreImpl tell the management objects about *)
(* a queue's journal and the transactions on it.  The journal itself is    *)
(* the abstract one of module MessageJournal: a call changes it first and  *)
(* is counted afterwards, step by step, while other threads call it and    *)
(* the agent reports.  The store recovers its queues before management is  *)
(* enabled (StorePlugin::initialize), but JournalImpl::recover() has code  *)
(* for an object that exists already: both orders are initial states.      *)
(***************************************************************************)
EXTENDS Management

CONSTANTS
    Msgs, Xids,     \* messages, and transactions (each used once)
    RecMsgs,        \* the messages a recovery may have found
    MaxCalls        \* bound: calls of the broker

VARIABLES
    stored, queue, adds, takes,     \* the journal: see MessageJournal
    prepared,       \* transactions in the prepared list
    ended,          \* transactions committed or aborted
    unprepared,     \* those of them that were never prepared
    tplReady,       \* the prepared list's journal has been initialized
    call,           \* call[t]: the call thread t is in
    calls,          \* history: calls made so far
    missed          \* history: what was there before the objects were

jvars == <<stored, queue, adds, takes>>
ivars == <<prepared, ended, unprepared, tplReady, call, calls, missed>>
vars == <<mvars, jvars, ivars>>

J == INSTANCE MessageJournal WITH Txns <- Xids

Journal == "journal"
Store == "store"

ASSUME InstrumentedAssumption ==
    /\ IsFiniteSet(RecMsgs)
    /\ {Journal, Store} \subseteq Objects
    /\ {"enqueues", "dequeues", "txn"} \subseteq Counters[Journal] /\ "recordDepth" \in Gauges[Journal]
    /\ {"tplTxnCommits", "tplTxnAborts"} \subseteq Counters[Store] /\ "tplTransactionDepth" \in Gauges[Store]

\* JournalImpl::initialize().
JournalProps == <<"initialFileCount", "autoExpand", "currentFileCount", "maxFileCount",
                  "dataFileSize", "writePageSize", "writePages">>
InitialSets == [i \in 1 .. Len(JournalProps) |-> SetProp(Journal, JournalProps[i])]

InMap(x) == adds[x] \cup takes[x] # {}
Open == {x \in Xids : InMap(x)}

NoCall == [op |-> "none", m |-> {}, x |-> {}, txn_incr |-> FALSE]

\* The broker uses a message or a transaction in one thread at a time.
Unused(m, x) == \A t \in Threads : call[t].m \cap m = {} /\ call[t].x \cap x = {}
Created == \A t \in Threads : call[t].op # "initialize"

\* What JournalImpl::recover() says if the object is there.  It sets the properties
\* before the files are known, and leaves the open transactions' enqueues out of two
\* of the counts.
Recovered(managed) ==
    IF ~managed THEN <<>>
    ELSE InitialSets \o
         <<Raise(Journal, "recordDepth", Cardinality(queue)),
           Add(Journal, "enqueues", Cardinality(queue)),
           Add(Journal, "txn", Cardinality(Open)),
           Add(Journal, "txnEnqueues", Cardinality(UNION {adds[x] : x \in Xids})),
           Add(Journal, "txnDequeues", Cardinality(UNION {takes[x] : x \in Xids}))>>
         \o IF prepared = {} THEN <<>>
            ELSE <<Up(Store, "tplTransactionDepth"), Inc(Store, "tplTxnPrepares")>>

Init ==
    /\ MInit
    /\ \E q \in SUBSET RecMsgs : \E a \in SUBSET (RecMsgs \ q), k \in SUBSET q :
          /\ queue = q /\ stored = q \cup a
          /\ \/ a = {} /\ k = {} /\ adds = [x \in Xids |-> {}] /\ takes = adds
             \/ /\ a \cup k # {}
                /\ \E x \in Xids : /\ adds = [y \in Xids |-> IF y = x THEN a ELSE {}]
                                   /\ takes = [y \in Xids |-> IF y = x THEN k ELSE {}]
    /\ prepared = Open /\ ended = {} /\ unprepared = {}
    /\ tplReady = (Open # {}) /\ calls = 0
    /\ \E managed \in BOOLEAN : LET t == Min(Threads) IN
          /\ missed = [enqueues |-> Cardinality(IF managed THEN stored \ queue ELSE stored),
                       txn |-> IF managed THEN 0 ELSE Cardinality(Open)]
          /\ call = [u \in Threads |-> IF u = t THEN [NoCall EXCEPT !.op = "initialize"] ELSE NoCall]
          /\ todo = [u \in Threads |-> IF u # t THEN <<>>
                                       ELSE IF stored = {} THEN InitialSets ELSE Recovered(managed)]

-----------------------------------------------------------------------------
(* Calls of the journal.                                                   *)

Calls(t) == call[t] = NoCall /\ calls < MaxCalls /\ calls' = calls + 1

\* Whether the transaction is known is asked before the call.
Knows(x) == \E y \in x : InMap(y)
Asked(op, m, x) == [op |-> op, m |-> m, x |-> x, txn_incr |-> Knows(x)]

Ask(t) ==
    /\ Calls(t) /\ Created
    /\ \E op \in {"enqueue", "dequeue"}, m \in Msgs, x \in {{}} \cup {{y} : y \in Xids} :
          /\ Unused({m}, x) /\ x \cap (prepared \cup ended) = {}
          /\ call' = [call EXCEPT ![t] = Asked(op, {m}, x)]
    /\ UNCHANGED <<mvars, jvars, prepared, ended, unprepared, tplReady, missed>>

\* A transaction's first record makes it one more open transaction.
NewTxn(c) == IF c.x = {} \/ c.txn_incr THEN <<>> ELSE <<Inc(Journal, "txn")>>

EnqueueCounts(c) ==
    NewTxn(c) \o <<Inc(Journal, "enqueues")>>
    \o (IF c.x = {} THEN <<>> ELSE <<Inc(Journal, "txnEnqueues")>>)
    \o <<Up(Journal, "recordDepth")>>

\* txnDequeues is counted in both kinds of dequeue.
DequeueCounts(c) ==
    NewTxn(c) \o <<Inc(Journal, "dequeues"), Inc(Journal, "txnDequeues"), Down(Journal, "recordDepth")>>

Enqueue(t) ==
    /\ call[t].op = "enqueue" /\ todo[t] = <<>>
    /\ \E m \in call[t].m : IF call[t].x = {} THEN J!Enqueue(m)
                            ELSE \E x \in call[t].x : J!TxnEnqueue(x, m)
    /\ todo' = [todo EXCEPT ![t] = EnqueueCounts(call[t])]
    /\ call' = [call EXCEPT ![t].op = "counting"]
    /\ UNCHANGED <<slot, gauge, props, instChanged, configChanged, sent, sentProps, agent, reports>>
    /\ UNCHANGED <<prepared, ended, unprepared, tplReady, calls, missed>>

Dequeue(t) ==
    /\ call[t].op = "dequeue" /\ todo[t] = <<>>
    /\ \E m \in call[t].m : IF call[t].x = {} THEN J!Dequeue(m)
                            ELSE \E x \in call[t].x : J!TxnDequeue(x, m)
    /\ todo' = [todo EXCEPT ![t] = DequeueCounts(call[t])]
    /\ call' = [call EXCEPT ![t].op = "counting"]
    /\ UNCHANGED <<slot, gauge, props, instChanged, configChanged, sent, sentProps, agent, reports>>
    /\ UNCHANGED <<prepared, ended, unprepared, tplReady, calls, missed>>

\* handleIoResult() throws, or jcntl does: nothing is counted.
Refused(t) ==
    /\ call[t].op \in {"enqueue", "dequeue"} /\ todo[t] = <<>>
    /\ call' = [call EXCEPT ![t] = NoCall]
    /\ UNCHANGED <<mvars, jvars, prepared, ended, unprepared, tplReady, calls, missed>>

Return(t) ==
    /\ call[t].op \in {"counting", "initialize"} /\ todo[t] = <<>>
    /\ call' = [call EXCEPT ![t] = NoCall]
    /\ UNCHANGED <<mvars, jvars, prepared, ended, unprepared, tplReady, calls, missed>>

-----------------------------------------------------------------------------
(* Transactions of the store.                                              *)

\* chkTplStoreInit().
TplInit == IF tplReady THEN <<>> ELSE <<SetProp(Store, "tplIsInitialized")>>

Counting(x) == [NoCall EXCEPT !.op = "counting", !.x = {x}]

LocalPrepare(t) ==
    /\ Calls(t)
    /\ \E x \in Open \ prepared :
          /\ Unused({}, {x})
          /\ prepared' = prepared \cup {x}
          /\ call' = [call EXCEPT ![t] = Counting(x)]
    /\ todo' = [todo EXCEPT ![t] = TplInit \o
                    <<Up(Store, "tplTransactionDepth"), Inc(Store, "tplTxnPrepares")>>]
    /\ tplReady' = TRUE
    /\ UNCHANGED <<slot, gauge, props, instChanged, configChanged, sent, sentProps, agent, reports>>
    /\ UNCHANGED <<jvars, ended, unprepared, missed>>

EndCounts_CommitOnly(commit) ==
    (IF commit THEN <<Dec(Journal, "txn"), Inc(Journal, "txnCommits")>> ELSE <<Inc(Journal, "txnAborts")>>)
    \o <<Down(Store, "tplTransactionDepth"), Inc(Store, IF commit THEN "tplTxnCommits" ELSE "tplTxnAborts")>>
EndCounts(commit) ==
    <<Dec(Journal, "txn"), Inc(Journal, IF commit THEN "txnCommits" ELSE "txnAborts"),
      Down(Store, "tplTransactionDepth"), Inc(Store, IF commit THEN "tplTxnCommits" ELSE "tplTxnAborts")>>

\* completed(), which also aborts a distributed transaction that was never prepared.
Completed(t) ==
    /\ Calls(t)
    /\ \E x \in Open, commit \in BOOLEAN :
          /\ Unused({}, {x}) /\ (commit => x \in prepared)
          /\ IF commit THEN J!Commit(x) ELSE J!Abort(x)
          /\ ended' = ended \cup {x} /\ prepared' = prepared \ {x}
          /\ unprepared' = unprepared \cup ({x} \ prepared)
          /\ call' = [call EXCEPT ![t] = Counting(x)]
          /\ todo' = [todo EXCEPT ![t] = TplInit \o EndCounts(commit)]
    /\ tplReady' = TRUE
    /\ UNCHANGED <<slot, gauge, props, instChanged, configChanged, sent, sentProps, agent, reports>>
    /\ UNCHANGED missed

-----------------------------------------------------------------------------
BrokerStep(t) ==
    \/ Ask(t) \/ Enqueue(t) \/ Dequeue(t) \/ Refused(t) \/ Return(t)
    \/ LocalPrepare(t) \/ Completed(t)
    \/ Update(t) /\ UNCHANGED <<jvars, ivars>>

Next == (\E t \in Threads : BrokerStep(t)) \/ (Report /\ UNCHANGED <<jvars, ivars>>)

Spec == Init /\ [][Next]_vars

-----------------------------------------------------------------------------
(* When all calls made have been counted, the counters follow from the     *)
(* journal, though a transaction is counted up in one thread's slot and    *)
(* down in another's, and unsigned words wrap (Journal.h:317, JournalImpl  *)
(* .cpp:454): open transactions, all records ever accepted, and the gauge  *)
(* as the difference of two counters.                                      *)
JournalCounts ==
    /\ Total(Journal, "txn") = Wrap(Cardinality(Open) - missed.txn)
    /\ Total(Journal, "enqueues") = Wrap(Cardinality(stored) - missed.enqueues)
    /\ gauge[Journal]["recordDepth"].val =
          Wrap(Total(Journal, "enqueues") - Total(Journal, "dequeues"))

\* So do the store's, but for each transaction aborted before it was prepared,
\* which completed() takes off all the same (MessageStoreImpl.cpp:1446).
StoreCounts ==
    /\ gauge[Store]["tplTransactionDepth"].val =
          Wrap(Cardinality(prepared) - missed.txn - Cardinality(unprepared))
    /\ Wrap(Total(Store, "tplTxnCommits") + Total(Store, "tplTxnAborts")) = Wrap(Cardinality(ended))

CountsAgree == Idle => JournalCounts /\ StoreCounts

(* A flag that is down means that the last report says it all: no update   *)
(* is lost between the unlocked counting and the agent's reading of flag   *)
(* and slots, not even of a slot read before it was set to zero (Journal   *)
(* .cpp:619, Journal.h:110).                                               *)
NothingUnreported ==
    \A o \in Objects :
        /\ (Idle /\ agent.obj # o /\ ~instChanged[o]) =>
              /\ \A c \in Counters[o] : sent[o].sums[c] = Total(o, c)
              /\ \A g \in Gauges[o] : /\ sent[o].gauge[g].val = gauge[o][g].val
                                      /\ gauge[o][g] = Restarted(gauge[o][g])
        /\ (Idle /\ ~configChanged[o]) => sentProps[o] = props[o]

(* The schema says that recordDepth is the "Number of currently enqueued   *)
(* records (durable messages)" (Journal.cpp:270).  It is not: an aborted   *)
(* transaction's records are never taken off or put back, and what was     *)
(* there before the object is never counted.                               *)
DepthIsEnqueued == (Idle /\ Open = {}) => gauge[Journal]["recordDepth"].val = Cardinality(queue)
=============================================================================
