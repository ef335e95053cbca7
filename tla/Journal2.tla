------------------------------ MODULE Journal2 ------------------------------
(***************************************************************************)
(* The journal of the second generation (jrnl2/Journal.cpp) under its      *)
(* only user, the performance test (perf/JournalInstance.cpp): threads in  *)
(* pairs, one of which enqueues messages and one of which dequeues those   *)
(* whose enqueue has been called back.  A token goes from the write list   *)
(* to one of two callback lists; the switch says which one flushNoLock()   *)
(* fills, processCompletedAioWriteEvents() empties the other.  Two locks   *)
(* protect the three lists between them, one of which is only ever tried.  *)
(***************************************************************************)
EXTENDS Integers, Sequences, SequencesExt, FiniteSets

CONSTANTS
    Pairs,      \* pairs of threads (numThreadPairsPerQueue)
    NumMsgs,    \* messages per thread
    Threshold   \* _s_listSizeThreshold: a write list as long as this is flushed

ASSUME Journal2Assumption == {Pairs, NumMsgs, Threshold} \subseteq Nat \ {0}

Threads == 1 .. 2 * Pairs
Tokens == 1 .. Pairs * NumMsgs      \* by _recordId, which counts them as they are made
NoToken == 0
Free == 0

VARIABLES
    threadSwitch,   \* the next thread to start dequeues (JournalInstance::_threadSwitch)
    role, pc,       \* per thread: what it does, and where it is
    cnt,            \* per thread: messages done
    tok,            \* per thread: dtokPtr
    calls,          \* per thread: calls of processCompletedAioWriteEvents() to make
    idx,            \* per thread: the callback list it works on, reset when done
    opState,        \* per token: its DataTokenState, "DELETED" once freed
    nextRecordId,   \* AtomicRecordIdCounter
    writeList, cbList, switch,  \* the lists, and the list flushNoLock() fills
    writeLock, cbLock,          \* the thread that holds the lock, or Free
    unproc,         \* JournalInstance::_unprocCallbackList
    skipped         \* history: an enqueuer's last flush met a lock held

locals == <<threadSwitch, role, cnt, nextRecordId>>
lists == <<writeList, cbList, switch, unproc>>
vars == <<locals, pc, tok, calls, idx, opState, lists, writeLock, cbLock, skipped>>

Init ==
    /\ threadSwitch = FALSE
    /\ role = [t \in Threads |-> "none"] /\ pc = [t \in Threads |-> "start"]
    /\ cnt = [t \in Threads |-> 0] /\ tok = [t \in Threads |-> NoToken]
    /\ calls = [t \in Threads |-> 0] /\ idx = [t \in Threads |-> FALSE]
    /\ opState = [k \in Tokens |-> "NONE"] /\ nextRecordId = 0
    /\ writeList = <<>> /\ cbList = [b \in BOOLEAN |-> <<>>] /\ switch = FALSE
    /\ writeLock = Free /\ cbLock = Free /\ unproc = <<>> /\ skipped = FALSE

Goes(t, where) == pc' = [pc EXCEPT ![t] = where]

-----------------------------------------------------------------------------
(* The threads of the test.                                                *)

\* operator(): the threads alternate between the two tasks.  They are numbered
\* in the order in which they get here: nothing else tells them apart.
Start(t) ==
    /\ pc[t] = "start" /\ \A u \in Threads : u < t => pc[u] # "start"
    /\ role' = [role EXCEPT ![t] = IF threadSwitch THEN "deq" ELSE "enq"]
    /\ threadSwitch' = ~threadSwitch
    /\ Goes(t, "loop")
    /\ UNCHANGED <<cnt, tok, calls, idx, opState, nextRecordId, lists, writeLock, cbLock,
                   skipped>>

\* _doEnqueues(): a new token, and enqueue() up to its lock.
Create(t) ==
    /\ pc[t] = "loop" /\ role[t] = "enq" /\ cnt[t] < NumMsgs
    /\ nextRecordId' = nextRecordId + 1
    /\ tok' = [tok EXCEPT ![t] = nextRecordId + 1]
    /\ opState' = [opState EXCEPT ![nextRecordId + 1] = "ENQUEUE"]
    /\ Goes(t, "push")
    /\ UNCHANGED <<threadSwitch, role, cnt, calls, idx, lists, writeLock, cbLock, skipped>>

\* _doDequeues(): the oldest token called back, and dequeue() up to its lock.
Take(t) ==
    /\ pc[t] = "loop" /\ role[t] = "deq" /\ cnt[t] < NumMsgs
    /\ unproc # <<>> /\ opState[Head(unproc)] = "ENQUEUE"
    /\ tok' = [tok EXCEPT ![t] = Head(unproc)]
    /\ unproc' = Tail(unproc)
    /\ opState' = [opState EXCEPT ![Head(unproc)] = "DEQUEUE"]
    /\ Goes(t, "push")
    /\ UNCHANGED <<locals, calls, idx, writeList, cbList, switch, writeLock, cbLock, skipped>>

\* _doDequeues(): nothing called back, so look for completed events.
Poll(t) ==
    /\ pc[t] = "loop" /\ role[t] = "deq" /\ cnt[t] < NumMsgs /\ unproc = <<>>
    /\ calls' = [calls EXCEPT ![t] = 1]
    /\ Goes(t, "process")
    /\ UNCHANGED <<locals, tok, idx, opState, lists, writeLock, cbLock, skipped>>

-----------------------------------------------------------------------------
(* The journal.                                                            *)

\* Mutant: the switch is changed under the lock of the callback lists alone.
Lock_NotForSwitch(t) ==
    /\ \/ pc[t] = "push" /\ writeLock = Free /\ writeLock' = t /\ Goes(t, "pushing")
       \/ pc[t] = "deliver" /\ cbList[idx[t]] = <<>> /\ Goes(t, "switching")
          /\ UNCHANGED writeLock
    /\ UNCHANGED <<locals, tok, calls, idx, opState, lists, cbLock, skipped>>

\* The lock of the write list, for a push or for the switch.
Lock(t) ==
    /\ writeLock = Free
    /\ \/ pc[t] = "push" /\ Goes(t, "pushing")
       \/ pc[t] = "deliver" /\ cbList[idx[t]] = <<>> /\ Goes(t, "switching")
    /\ writeLock' = t
    /\ UNCHANGED <<locals, tok, calls, idx, opState, lists, cbLock, skipped>>

\* enqueue() and dequeue() under the lock of the write list.  A long list
\* makes them flush under the same lock and process after it; a dequeuer
\* processes once more in any case.
Push(t) ==
    /\ pc[t] = "pushing"
    /\ writeList' = Append(writeList, tok[t])
    /\ tok' = [tok EXCEPT ![t] = NoToken]
    /\ cnt' = [cnt EXCEPT ![t] = @ + 1]
    /\ LET once == IF role[t] = "deq" THEN 1 ELSE 0
       IN IF Len(writeList) + 1 >= Threshold
          THEN /\ idx' = [idx EXCEPT ![t] = switch]
               /\ calls' = [calls EXCEPT ![t] = once + 1]
               /\ Goes(t, "move")
               /\ UNCHANGED writeLock
          ELSE /\ writeLock' = Free
               /\ calls' = [calls EXCEPT ![t] = once]
               /\ Goes(t, IF once = 1 THEN "process" ELSE "loop")
               /\ UNCHANGED idx
    /\ UNCHANGED <<threadSwitch, role, nextRecordId, opState, cbList, switch, unproc,
                   cbLock, skipped>>

\* flush() at the end of a task: does nothing when the lock is held.
Flush(t) ==
    /\ pc[t] = "loop" /\ cnt[t] = NumMsgs
    /\ IF writeLock = Free
       THEN /\ writeLock' = t /\ idx' = [idx EXCEPT ![t] = switch]
            /\ Goes(t, "move")
            /\ UNCHANGED skipped
       ELSE /\ skipped' = (skipped \/ role[t] = "enq")
            /\ Goes(t, "ended")
            /\ UNCHANGED <<writeLock, idx>>
    /\ UNCHANGED <<locals, tok, calls, opState, lists, cbLock>>

\* flushNoLock(), which turns the list round, and the end of the section.
Move(t) ==
    /\ pc[t] = "move"
    /\ cbList' = [cbList EXCEPT ![idx[t]] = @ \o Reverse(writeList)]
    /\ writeList' = <<>>
    /\ writeLock' = Free
    /\ idx' = [idx EXCEPT ![t] = FALSE]
    /\ Goes(t, IF calls[t] = 0 THEN "ended" ELSE "process")
    /\ UNCHANGED <<locals, tok, calls, opState, switch, unproc, cbLock, skipped>>

Processed(t) ==
    /\ calls' = [calls EXCEPT ![t] = @ - 1]
    /\ Goes(t, IF calls[t] = 1 THEN "loop" ELSE "process")

\* processCompletedAioWriteEvents(): one thread at a time, the others go on.
Process(t) ==
    /\ pc[t] = "process"
    /\ IF cbLock = Free
       THEN /\ cbLock' = t /\ idx' = [idx EXCEPT ![t] = ~switch]
            /\ Goes(t, "deliver")
            /\ UNCHANGED calls
       ELSE Processed(t) /\ UNCHANGED <<cbLock, idx>>
    /\ UNCHANGED <<locals, tok, opState, lists, writeLock, skipped>>

\* Mutant: the list is cleared after one token.
Deliver_OneOnly(t) ==
    /\ pc[t] = "deliver" /\ cbList[idx[t]] # <<>>
    /\ cbList' = [cbList EXCEPT ![idx[t]] = <<>>]
    /\ unproc' = Append(unproc, Last(cbList[idx[t]]))
    /\ UNCHANGED <<locals, pc, tok, calls, idx, opState, writeList, switch, writeLock,
                   cbLock, skipped>>

\* writeAioCompleteCallback(): one token; that of a dequeue has had its life.
Deliver(t) ==
    /\ pc[t] = "deliver" /\ cbList[idx[t]] # <<>>
    /\ cbList' = [cbList EXCEPT ![idx[t]] = Front(@)]
    /\ LET k == Last(cbList[idx[t]])
       IN IF opState[k] = "ENQUEUE"
          THEN unproc' = Append(unproc, k) /\ UNCHANGED opState
          ELSE opState' = [opState EXCEPT ![k] = "DELETED"] /\ UNCHANGED unproc
    /\ UNCHANGED <<locals, pc, tok, calls, idx, writeList, switch, writeLock, cbLock, skipped>>

\* Mutant: the lists are not switched.
Switch_Forgotten(t) ==
    /\ pc[t] = "switching"
    /\ writeLock' = Free /\ cbLock' = Free
    /\ idx' = [idx EXCEPT ![t] = FALSE]
    /\ Processed(t)
    /\ UNCHANGED <<locals, tok, opState, lists, skipped>>

\* The switch changes under both locks.
Switch(t) ==
    /\ pc[t] = "switching"
    /\ switch' = ~switch
    /\ writeLock' = Free /\ cbLock' = Free
    /\ idx' = [idx EXCEPT ![t] = FALSE]
    /\ Processed(t)
    /\ UNCHANGED <<locals, tok, opState, writeList, cbList, unproc, skipped>>

-----------------------------------------------------------------------------
ThreadStep(t) ==
    \/ Start(t) \/ Create(t) \/ Take(t) \/ Poll(t)
    \/ Lock(t) \/ Push(t) \/ Flush(t) \/ Move(t) \/ Process(t) \/ Deliver(t) \/ Switch(t)

Next == \E t \in Threads : ThreadStep(t)

Spec == Init /\ [][Next]_vars

\* A thread that waits for the lock of the write list gets it in the end: the
\* others hold it for a few instructions, and a poller sleeps between two calls.
Fairness == \A t \in Threads : SF_vars(ThreadStep(t))
FairSpec == Spec /\ Fairness

-----------------------------------------------------------------------------
(* Properties.                                                             *)

\* The lists are plain vectors: the thread that fills a callback list holds
\* one lock and the thread that empties one holds the other, and they never
\* work on the same list (Journal.cpp:151-184).
ListsApart ==
    \A t, u \in Threads :
        t # u /\ {pc[t], pc[u]} \subseteq {"move", "deliver"} => idx[t] # idx[u]

Occurs(k, s) == Cardinality({i \in DOMAIN s : s[i] = k})
Places(k) ==
    Occurs(k, writeList) + Occurs(k, cbList[TRUE]) + Occurs(k, cbList[FALSE])
    + Occurs(k, unproc) + Cardinality({t \in Threads : tok[t] = k})

\* A token is in one place until it is freed and in none from then on, and
\* what waits to be dequeued is an enqueue: nothing is lost, called back twice
\* or used after delete (DataTokenState.cpp:91-101 would throw).
TokensAccounted ==
    /\ \A k \in Tokens : Places(k) = IF opState[k] \in {"ENQUEUE", "DEQUEUE"} THEN 1 ELSE 0
    /\ \A i \in DOMAIN unproc : opState[unproc[i]] = "ENQUEUE"

AllEnded == \A t \in Threads : pc[t] = "ended"

\* The test ends, all its messages enqueued and dequeued, unless the last
\* flush of an enqueuer found the lock held and was dropped (Journal.cpp:137-147).
EndsUnlessFlushLost == <>(AllEnded \/ skipped)

\* The number of messages is "per thread to be enqueued then dequeued (ie both
\* ways through broker)" (JournalInstance.hpp:108): every thread ends.
TestEnds == <>AllEnded
=============================================================================
