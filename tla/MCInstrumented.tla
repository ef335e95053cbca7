--------------------------- MODULE MCInstrumented ---------------------------
(***************************************************************************)
(* Module Instrumented with a journal's and a store's object, for TLC.     *)
(***************************************************************************)
EXTENDS Instrumented

MCObjects == {Journal, Store}
MCCounters == [o \in MCObjects |->
    IF o = Journal THEN {"enqueues", "dequeues", "txn", "txnEnqueues", "txnDequeues", "txnCommits", "txnAborts"}
                   ELSE {"tplTxnPrepares", "tplTxnCommits", "tplTxnAborts"}]
MCGauges == [o \in MCObjects |-> IF o = Journal THEN {"recordDepth"} ELSE {"tplTransactionDepth"}]

\* A report that its flag says is out of date, or that is being replaced, no
\* longer matters: no step and no property looks at it.
MCView == <<slot, gauge, props, instChanged, configChanged, agent, reports, todo, jvars, ivars,
            [o \in MCObjects |-> IF instChanged[o] \/ agent.obj = o THEN {} ELSE {sent[o]}],
            [o \in MCObjects |-> IF configChanged[o] THEN {} ELSE {sentProps[o]}]>>
=============================================================================
