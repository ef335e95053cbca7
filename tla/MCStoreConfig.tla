--------------------------- MODULE MCStoreConfig ---------------------------
(* A small broker for the configuration store.                               *)
EXTENDS StoreConfig, TLC
CONSTANTS t1, t2, q1, x1, g1, k1
Option(count, size, page, truncate) ==
  [count |-> count, size |-> size, page |-> page, truncate |-> truncate, ae |-> FALSE, aemax |-> 0]
\* All have write pages of 128 KiB, which a file of one read page cannot hold.
StartOptions == {Option(0, 2, 100, FALSE), Option(9, 40000, 128, FALSE), Option(0, 2, 100, TRUE)}
Arguments(count, size, ae, aemax) == [count |-> count, size |-> size, ae |-> ae, aemax |-> aemax]
\* The size of the second is refused, and the limit of the third; the limit of the
\* last leaves room to expand or not, as the store's options have it.
Args == {Arguments(NoArg, NoArg, NoArg, NoArg), Arguments(2, 1, NoArg, NoArg),
         Arguments(2, 3, FALSE, 1), Arguments(NoArg, 3, TRUE, 2)}
\* Auto-expansion without a limit.
Unlimited == {Arguments(NoArg, NoArg, TRUE, NoArg)}
Threads == Permutations({t1, t2})
=============================================================================
