---------------------------- MODULE JournalFiles ----------------------------
(***************************************************************************)
(* The journal's files as the writer sees them: the per-file controller    *)
(* (class fcntl) and the rotating file controller for writes (class wrfc). *)
(* This module holds no state.  It defines what each method does to a file *)
(* controller or to the ring; module Wmgr keeps them in variables.         *)
(*                                                                         *)
(* Sizes are counted in dblks (128 bytes); SblkDblks dblks make one sblk,  *)
(* the unit of direct I/O and the size of the file header.                 *)
(***************************************************************************)
EXTENDS Integers

CONSTANTS
    NumFiles,       \* files in the ring (_num_jfiles)
    FilePages,      \* write cache pages that fill the data part of one file
    PageDblks,      \* dblks in one page of the write cache
    SblkDblks       \* dblks in one sblk (JRNL_SBLK_SIZE)

ASSUME RingAssumption ==
    /\ NumFiles \in Nat /\ NumFiles >= 2
    /\ FilePages \in Nat \ {0}
    /\ PageDblks \in Nat \ {0}
    /\ SblkDblks \in Nat \ {0}

Files == 0 .. NumFiles - 1

FileDblks == FilePages * PageDblks      \* the data part of a file
FullDblks == FileDblks + SblkDblks      \* _ffull_dblks: header included

(***************************************************************************)
(* fcntl: the counters of one file.                                        *)
(*   enq   records enqueued and not dequeued whose header is in this file  *)
(*   subm  dblks handed to the kernel since the file was last reset        *)
(*   cmpl  dblks whose write the kernel has reported complete              *)
(*   aio   writes submitted and not yet reported complete                  *)
(*   fhdr  the write of the file header is one of them                     *)
(***************************************************************************)
NewFile == [enq |-> 0, subm |-> 0, cmpl |-> 0, aio |-> 0, fhdr |-> FALSE]

IsVoid(fc) == fc.subm = 0

\* Mutant: a file still holding enqueued records may be reset.
CanReset_IgnoreEnq(fc) == fc.aio = 0

\* A file still holding enqueued records, or with writes in flight, is kept.
CanReset(fc) == fc.enq = 0 /\ fc.aio = 0
WrReset(fc) == IF CanReset(fc) THEN [fc EXCEPT !.subm = 0, !.cmpl = 0] ELSE fc

Overflows(fc, n) == fc.subm + n > FullDblks     \* JERR_FCNTL_FILEOFFSOVFL

\* One write of n dblks is submitted, and one such write is reported complete.
Submit(fc, n) == [fc EXCEPT !.subm = @ + n, !.aio = @ + 1]
\* Mutant: the completed write stays counted as in flight.
Complete_KeepAio(fc, n) == [fc EXCEPT !.cmpl = @ + n]

Complete(fc, n) == [fc EXCEPT !.cmpl = @ + n, !.aio = @ - 1]
CompleteError(fc, n) == IF fc.cmpl + n > fc.subm THEN "CMPLOFFSOVFL"
                        ELSE IF fc.aio = 0 THEN "UNDERFLOW" ELSE "none"

(***************************************************************************)
(* wrfc: the ring.  idx is the file being written, resetOk remembers that  *)
(* its counters were reset, owi is the overwrite indicator stamped on what *)
(* is written, and frot stays TRUE until the ring first wraps.             *)
(***************************************************************************)
NewRing == [idx |-> 0, resetOk |-> FALSE, owi |-> FALSE, frot |-> TRUE]

After(i, n) == (i + n) % NumFiles

\* The capacity kept free of enqueues: 20% of the journal, and at least a file.
EnqCapOffset ==
    LET fifth == (FileDblks * NumFiles + 4) \div 5
    IN  IF fifth < FileDblks THEN FileDblks ELSE fifth

(***************************************************************************)
(* Would writing n dblks from the write position of file i, and then the   *)
(* reserved capacity, run into a file that still holds enqueued records?   *)
(* The walk over the files stops at the first such file.  The second       *)
(* disjunct is a walk that goes round the whole ring and past file i.      *)
(***************************************************************************)
EnqThreshold(fs, i, n) ==
    LET written == IF IsVoid(fs[i]) THEN 0 ELSE fs[i].subm - SblkDblks
        hops    == (written + n + EnqCapOffset - 1) \div FileDblks
    IN  \/ \E j \in 1 .. hops : After(i, j) # i /\ fs[After(i, j)].enq > 0
        \/ hops > NumFiles /\ hops % NumFiles # 0 /\ fs[i].enq > 0

(***************************************************************************)
(* Rotation moves to the next file and resets it, unless that file has     *)
(* writes in flight, in which case resetOk keeps its old value.            *)
(***************************************************************************)
Rotated(ring, fs) ==
    LET next == After(ring.idx, 1)
        wrap == next = 0
    IN  [idx     |-> next,
         resetOk |-> IF fs[next].aio > 0 THEN ring.resetOk
                     ELSE CanReset(fs[next]),
         owi     |-> IF wrap THEN ~ring.owi ELSE ring.owi,
         frot    |-> IF wrap THEN FALSE ELSE ring.frot]

RotateResult(ring, fs) ==
    LET next == After(ring.idx, 1)
    IN  IF fs[next].aio > 0 THEN "FILE_AIOWAIT"
        ELSE IF CanReset(fs[next]) THEN "SUCCESS" ELSE "FULL"
=============================================================================
