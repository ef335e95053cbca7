--------------------------- MODULE MessageJournal ---------------------------
(***************************************************************************)
(* What a journal promises its queue, without files, pages or writes: a    *)
(* set of messages, and transactions that add and take messages together   *)
(* or not at all (class jcntl: "All enqueued records are effectively       *)
(* released for reading" on commit, "deleted from the journal" on abort).  *)
(***************************************************************************)
CONSTANTS Msgs, Txns

VARIABLES
    stored,     \* messages ever accepted, in a transaction or not
    queue,      \* messages enqueued, not dequeued, not part of an open add
    adds,       \* adds[x]: messages enqueued in open transaction x
    takes       \* takes[x]: messages dequeued in open transaction x

vars == <<stored, queue, adds, takes>>

Init ==
    /\ stored = {} /\ queue = {}
    /\ adds = [x \in Txns |-> {}]
    /\ takes = [x \in Txns |-> {}]

\* No transaction has claimed message m.
Unclaimed(m) == \A x \in Txns : m \notin takes[x]

Enqueue(m) ==
    /\ m \notin stored
    /\ stored' = stored \cup {m}
    /\ queue' = queue \cup {m}
    /\ UNCHANGED <<adds, takes>>

TxnEnqueue(x, m) ==
    /\ m \notin stored
    /\ stored' = stored \cup {m}
    /\ adds' = [adds EXCEPT ![x] = @ \cup {m}]
    /\ UNCHANGED <<queue, takes>>

Dequeue(m) ==
    /\ m \in queue /\ Unclaimed(m)
    /\ queue' = queue \ {m}
    /\ UNCHANGED <<stored, adds, takes>>

TxnDequeue(x, m) ==
    /\ m \in queue \cup adds[x] /\ Unclaimed(m)
    /\ takes' = [takes EXCEPT ![x] = @ \cup {m}]
    /\ UNCHANGED <<stored, queue, adds>>

Commit(x) ==
    /\ queue' = (queue \cup adds[x]) \ takes[x]
    /\ adds' = [adds EXCEPT ![x] = {}]
    /\ takes' = [takes EXCEPT ![x] = {}]
    /\ UNCHANGED stored

Abort(x) ==
    /\ adds' = [adds EXCEPT ![x] = {}]
    /\ takes' = [takes EXCEPT ![x] = {}]
    /\ UNCHANGED <<stored, queue>>

Next ==
    \/ \E m \in Msgs : Enqueue(m) \/ Dequeue(m)
    \/ \E x \in Txns, m \in Msgs : TxnEnqueue(x, m) \/ TxnDequeue(x, m)
    \/ \E x \in Txns : Commit(x) \/ Abort(x)

Spec == Init /\ [][Next]_vars
=============================================================================
