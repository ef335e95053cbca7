-------------------------------- MODULE Wmgr --------------------------------
(***************************************************************************)
(* The write side of one journal: class wmgr (the write page cache and the *)
(* asynchronous writes), driven through class jcntl, which runs every call *)
(* under _wr_mutex and repeats it when it has to wait for a write.         *)
(*                                                                         *)
(* A record is copied into the current page of the cache; a page is handed *)
(* to the kernel when it is full or flushed; the kernel completes writes   *)
(* in any order; get_events() takes the completions and moves the data     *)
(* tokens of the records on.  Meanwhile enq_map and txn_map say which      *)
(* records are enqueued, and the file controllers count them so that the   *)
(* ring never takes a file that is still needed.                           *)
(*                                                                         *)
(* One call holds the mutex from Call to Exit and is followed step by step *)
(* through op.pc.  Only the kernel, and the reader, act in between.        *)
(***************************************************************************)
EXTENDS JournalFiles, Sequences, FiniteSets, FiniteSetsExt

CONSTANTS
    NumPages,       \* pages of the write cache (_cache_num_pages)
    MaxRid,         \* bound: record ids handed out
    Xids,           \* transaction ids
    NoXid,          \* the empty xid of an operation outside a transaction
    EnqSizes,       \* sizes of enqueue records, in dblks
    CtlDblks,       \* size of a dequeue, abort or commit record, in dblks
    SlowDisk        \* whether writes may lag a whole turn of the ring behind

ASSUME WmgrAssumption ==
    /\ NumPages \in Nat \ {0}
    /\ MaxRid \in Nat
    /\ NoXid \notin Xids
    /\ EnqSizes \subseteq Nat \ {0}
    /\ CtlDblks \in Nat \ {0}
    /\ PageDblks % SblkDblks = 0
    /\ SlowDisk \in BOOLEAN

Rids  == 1 .. MaxRid
Pages == 0 .. NumPages - 1

NoRid  == 0
NoFile == -1

Kinds   == {"enq", "deq", "abort", "commit"}
Results == {"SUCCESS", "PAGE_AIOWAIT", "FILE_AIOWAIT", "BUSY", "FULL",
            "ENQCAPTHRESH", "ENQDISCONT", "DEQREFUSED", "AIOCMPLWAIT"}
Faults  == {"none", "FILEOFFSOVFL", "CMPLOFFSOVFL", "UNDERFLOW", "MAP_DUPLICATE",
            "MAP_NOTFOUND", "MAP_LOCKED", "BADDTOKSTATE", "BADPGSTATE", "ASSERT"}

VARIABLES
    file,       \* file[f]: the counters of file f (fcntl)
    ring,       \* the rotating file controller (wrfc)
    page,       \* page[p]: state, tokens of the records on it, its write
    pgIndex,    \* _pg_index: the page being filled
    pgOffset,   \* _pg_offset_dblks: dblks of it that are taken
    pgCntr,     \* _pg_cntr: whole pages put into the current file
    cached,     \* _cached_offset_dblks: dblks not handed to the kernel
    evtRem,     \* _aio_evt_rem: completions still to come
    busy,       \* which of _enq_busy, _deq_busy, _abort_busy, _commit_busy
    tok,        \* tok[r]: the data token of the operation with record id r
    emap,       \* emap[r]: where r is enqueued, and its transaction lock
    tmap,       \* tmap[x]: operations of transaction x, in the order made
    pend,       \* _txn_pending_set: commits and aborts not yet on disk
    op,         \* the call that holds _wr_mutex
    fault       \* the internal error thrown, if any: it ends the model

fileVars == <<file, ring>>
pageVars == <<page, pgIndex, pgOffset, pgCntr, cached, evtRem>>
mapVars  == <<emap, tmap, pend>>
vars == <<fileVars, pageVars, busy, tok, mapVars, op, fault>>

-----------------------------------------------------------------------------
(* The data types.                                                         *)

\* wstate is split as data_tok.hpp proposes: the operation and its progress.
NoTok == [kind |-> "none", st |-> "NONE", xid |-> NoXid, drid |-> NoRid,
          fid |-> NoFile, size |-> 0, written |-> 0, pgs |-> 0, span |-> {}]

\* Mutant: the id of the record to dequeue is not set.
NewTok_NoDrid(k, x, d, n) == [NoTok EXCEPT !.kind = k, !.xid = x, !.size = n]

NewTok(k, x, d, n) == [NoTok EXCEPT !.kind = k, !.xid = x, !.drid = d, !.size = n]

NoOp == [pc |-> "idle", kind |-> "none", rid |-> NoRid, res |-> "SUCCESS",
         done |-> FALSE]

FreePage  == [st |-> "UNUSED", toks |-> {}, wd |-> 0, wfh |-> NoFile]
NoEntry   == [pfid |-> NoFile, lock |-> FALSE]
InEmap(r) == emap[r].pfid # NoFile

\* The records of transaction x, by what they do.
Entries(x) == {tmap[x][i] : i \in DOMAIN tmap[x]}
EnqsOf(x)  == {t \in Entries(x) : t.enq}
DeqsOf(x)  == {t \in Entries(x) : ~t.enq}
DataExists(x, r) == \E t \in Entries(x) : t.rid = r

Used(r)   == tok[r].kind # "none"
Closed(x) == \E r \in Rids : tok[r].xid = x /\ tok[r].kind \in {"abort", "commit"}

-----------------------------------------------------------------------------
Init ==
    /\ file = [f \in Files |-> NewFile]
    /\ ring = NewRing
    /\ page = [p \in Pages |-> IF p = 0 THEN [FreePage EXCEPT !.st = "IN_USE"]
                                        ELSE FreePage]
    /\ pgIndex = 0 /\ pgOffset = 0 /\ pgCntr = 0 /\ cached = 0 /\ evtRem = 0
    /\ busy = {}
    /\ tok = [r \in Rids |-> NoTok]
    /\ emap = [r \in Rids |-> NoEntry]
    /\ tmap = [x \in Xids |-> <<>>]
    /\ pend = {}
    /\ op = NoOp
    /\ fault = "none"

At(pc) == fault = "none" /\ op.pc = pc
Goto(pc) == op' = [op EXCEPT !.pc = pc]
Return(res) == op' = [op EXCEPT !.pc = "exit", !.res = res]
Throw(e) == fault' = e
T == tok[op.rid]

-----------------------------------------------------------------------------
(* The callers: a thread of the broker takes _wr_mutex and starts a call.  *)
(* The store numbers its records itself (external rids), so a new record   *)
(* takes the next id; a refused call gives its id back.                    *)

Start(k, r) == op' = [NoOp EXCEPT !.pc = "check", !.kind = k, !.rid = r]
NextRid(r) == ~Used(r) /\ \A s \in 1 .. r - 1 : Used(s)

NewCall(k, r, x, d, n) ==
    /\ At("idle")
    /\ NextRid(r)
    /\ x # NoXid => ~Closed(x)
    /\ tok' = [tok EXCEPT ![r] = NewTok(k, x, d, n)]
    /\ Start(k, r)
    /\ UNCHANGED <<fileVars, pageVars, busy, mapVars, fault>>

CallEnqueue(r) == \E x \in Xids \cup {NoXid}, n \in EnqSizes :
    NewCall("enq", r, x, NoRid, n)

\* The broker dequeues a message it has enqueued, once in a transaction.
CallDequeue(r) == \E x \in Xids \cup {NoXid}, d \in Rids :
    /\ tok[d].kind = "enq" /\ tok[d].st # "PART"
    /\ x # NoXid => \A t \in DeqsOf(x) : t.drid # d
    /\ NewCall("deq", r, x, d, CtlDblks)

CallEnd(r) == \E k \in {"abort", "commit"}, x \in Xids :
    /\ tmap[x] # <<>>
    /\ NewCall(k, r, x, NoRid, CtlDblks)

\* A record that was only partly written may be offered again.
Retry(r) ==
    /\ At("idle")
    /\ tok[r].st = "PART"
    /\ Start(tok[r].kind, r)
    /\ UNCHANGED <<fileVars, pageVars, busy, tok, mapVars, fault>>

\* Without SlowDisk the next file's writes are on disk before a flush, or a
\* caller that gives up waiting, can leave the ring at that file.
NextFileIdle == SlowDisk \/ file[After(ring.idx, 1)].aio = 0

\* The inactivity timer, TxnCtxt::sync() and stop() flush.
CallFlush ==
    /\ At("idle")
    /\ NextFileIdle
    /\ op' = [NoOp EXCEPT !.pc = "flush", !.kind = "flush", !.done = TRUE]
    /\ UNCHANGED <<fileVars, pageVars, busy, tok, mapVars, fault>>

-----------------------------------------------------------------------------
(* The checks every operation starts with: the busy flags, then            *)
(* pre_write_check(), then dequeue_check().                                *)

\* Mutant: only enqueue_data() looks at the flags of the other operations.
OtherBusy_EnqOnly == op.kind = "enq" /\ busy \ {"enq"} # {}
\* Mutant: a current file that cannot be reset is used all the same.
FileReady_Always == TRUE
\* Mutant: a page that is being filled blocks too.
PageBlocked_InUse == page[pgIndex].st # "UNUSED"

OtherBusy    == busy \ {op.kind} # {}
FileReady    == ring.resetOk \/ CanReset(file[ring.idx])
FilesReset   == IF ring.resetOk THEN file
                ELSE [file EXCEPT ![ring.idx] = WrReset(@)]
PageBlocked  == page[pgIndex].st = "AIO_PENDING"
OpenPage(pg) == IF pg[pgIndex].st = "UNUSED"
                THEN [pg EXCEPT ![pgIndex].st = "IN_USE"] ELSE pg

ThresholdReached ==
    /\ op.kind = "enq" /\ "enq" \notin busy
    /\ EnqThreshold(FilesReset, ring.idx, cached + T.size)
Disconnected == op.kind \in busy /\ T.st # "PART"

\* Mutant: the lock of another transaction is not looked at.
DequeueFound_NoLock ==
    InEmap(T.drid) \/ (T.xid # NoXid /\ DataExists(T.xid, T.drid))

DequeueFound ==
    IF InEmap(T.drid) THEN ~emap[T.drid].lock
                      ELSE T.xid # NoXid /\ DataExists(T.xid, T.drid)
DequeueRefused == op.kind = "deq" /\ "deq" \notin busy /\ ~DequeueFound

CheckBusy ==
    /\ At("check")
    /\ OtherBusy
    /\ Return("BUSY")
    /\ UNCHANGED <<fileVars, pageVars, busy, tok, mapVars, fault>>

CheckFull ==
    /\ At("check")
    /\ ~OtherBusy /\ ~FileReady
    /\ Return("FULL")
    /\ UNCHANGED <<fileVars, pageVars, busy, tok, mapVars, fault>>

\* The current file is reset if it is still to be, whatever is found next.
FileChecked ==
    /\ At("check")
    /\ ~OtherBusy /\ FileReady
    /\ file' = FilesReset
    /\ ring' = [ring EXCEPT !.resetOk = TRUE]

CheckPage ==
    /\ FileChecked
    /\ PageBlocked
    /\ Return("PAGE_AIOWAIT")
    /\ UNCHANGED <<pageVars, busy, tok, mapVars, fault>>

PageChecked ==
    /\ FileChecked
    /\ ~PageBlocked
    /\ page' = OpenPage(page)
    /\ UNCHANGED <<pgIndex, pgOffset, pgCntr, cached, evtRem, tok, mapVars, fault>>

CheckRefused ==
    /\ PageChecked
    /\ \/ ThresholdReached /\ Return("ENQCAPTHRESH")
       \/ ~ThresholdReached /\ Disconnected /\ Return("ENQDISCONT")
       \/ ~Disconnected /\ DequeueRefused /\ Return("DEQREFUSED")
    /\ UNCHANGED busy

CheckOk ==
    /\ PageChecked
    /\ ~ThresholdReached /\ ~Disconnected /\ ~DequeueRefused
    /\ busy' = busy \cup {op.kind}
    /\ Goto("encode")

-----------------------------------------------------------------------------
(* One turn of the loop that copies a record into the cache.               *)

Encode ==
    /\ At("encode")
    /\ LET room == PageDblks - pgOffset
           left == T.size - T.written
           n    == IF left < room THEN left ELSE room
       IN  /\ tok' = [tok EXCEPT ![op.rid] =
                  [T EXCEPT !.fid     = IF T.written = 0 THEN ring.idx ELSE T.fid,
                            !.written = T.written + n,
                            !.pgs     = T.pgs + 1,
                            !.span    = T.span \cup {ring.idx},
                            !.st      = IF n = left THEN T.st ELSE "PART"]]
           /\ page' = [page EXCEPT ![pgIndex].toks = @ \cup {op.rid}]
           /\ pgOffset' = pgOffset + n
           /\ cached' = cached + n
           /\ Goto(IF n = left THEN "complete" ELSE "header")
    /\ UNCHANGED <<fileVars, pgIndex, pgCntr, evtRem, busy, mapVars, fault>>

\* The record is whole: its token moves on and the maps take it in.
Recorded ==
    /\ At("complete")
    /\ tok' = [tok EXCEPT ![op.rid].st = "SUBM"]
    /\ op' = [op EXCEPT !.pc = "header", !.done = TRUE]
    /\ UNCHANGED <<ring, pageVars, busy>>

\* Mutant: a record counts as on disk once it is in the page cache.
Entry_Synced(r, d, is_enq) ==
    [rid |-> r, drid |-> d, pfid |-> T.fid, enq |-> is_enq, aio |-> TRUE]

Entry(r, d, is_enq) ==
    [rid |-> r, drid |-> d, pfid |-> T.fid, enq |-> is_enq, aio |-> FALSE]
TmapInsert(x, t) == tmap' = [tmap EXCEPT ![x] = Append(@, t)]

EnqueueTxn ==
    /\ Recorded
    /\ op.kind = "enq" /\ T.xid # NoXid
    /\ file' = [file EXCEPT ![T.fid].enq = @ + 1]
    /\ TmapInsert(T.xid, Entry(op.rid, NoRid, TRUE))
    /\ UNCHANGED <<emap, pend, fault>>

EnqueueNonTxn ==
    /\ Recorded
    /\ op.kind = "enq" /\ T.xid = NoXid
    /\ file' = [file EXCEPT ![T.fid].enq = @ + 1]
    /\ IF InEmap(op.rid)
       THEN Throw("MAP_DUPLICATE") /\ UNCHANGED emap
       ELSE /\ emap' = [emap EXCEPT ![op.rid] = [pfid |-> T.fid, lock |-> FALSE]]
            /\ UNCHANGED fault
    /\ UNCHANGED <<tmap, pend>>

\* A record this transaction enqueued is not in emap: then nothing is locked.
DequeueTxn ==
    /\ Recorded
    /\ op.kind = "deq" /\ T.xid # NoXid
    /\ emap' = [emap EXCEPT ![T.drid].lock = InEmap(T.drid)]
    /\ TmapInsert(T.xid, Entry(op.rid, T.drid, FALSE))
    /\ UNCHANGED <<file, pend, fault>>

DequeueNonTxn ==
    /\ Recorded
    /\ op.kind = "deq" /\ T.xid = NoXid
    /\ LET f == emap[T.drid].pfid
           error == IF ~InEmap(T.drid) THEN "MAP_NOTFOUND"
                    ELSE IF emap[T.drid].lock THEN "MAP_LOCKED"
                    ELSE IF file[f].enq = 0 THEN "UNDERFLOW" ELSE "none"
       IN  /\ Throw(error)
           /\ emap' = [emap EXCEPT ![T.drid] = IF error = "none" THEN NoEntry ELSE @]
           /\ file' = IF error = "none" THEN [file EXCEPT ![f].enq = @ - 1] ELSE file
    /\ UNCHANGED <<tmap, pend>>

\* Closing a transaction: it leaves txn_map, and its xid waits for the write.
CloseTxn(error, newEmap, newFile) ==
    /\ Recorded
    /\ Throw(error)
    /\ IF error # "none" THEN UNCHANGED <<file, mapVars>> ELSE
       /\ emap' = newEmap
       /\ file' = newFile
       /\ tmap' = [tmap EXCEPT ![T.xid] = <<>>]
       /\ pend' = pend \cup {T.xid}

\* The file counters without these records, of which each is in file t.pfid.
CountIn(f, recs) == Cardinality({t \in recs : t.pfid = f})
Missing(recs) == \E f \in Files : file[f].enq < CountIn(f, recs)

\* Mutant: closing a transaction leaves the file counters alone.
Without_None(recs) == file

Without(recs) == [f \in Files |-> [file[f] EXCEPT !.enq = @ - CountIn(f, recs)]]

AbortTxn ==
    /\ op.kind = "abort"
    /\ LET unlocked == {t.drid : t \in DeqsOf(T.xid)}
           error == IF Missing(EnqsOf(T.xid)) THEN "UNDERFLOW"
                    ELSE IF T.xid \in pend THEN "MAP_DUPLICATE" ELSE "none"
       IN  CloseTxn(error,
                    [r \in Rids |-> IF r \in unlocked
                                    THEN [emap[r] EXCEPT !.lock = FALSE] ELSE emap[r]],
                    Without(EnqsOf(T.xid)))

\* Mutant: a commit only takes the dequeued records out.
WithEnqs_None(x) == emap

\* emap once the enqueues of transaction x are in it.
WithEnqs(x) == [r \in Rids |->
    IF \E t \in EnqsOf(x) : t.rid = r
    THEN [pfid |-> (CHOOSE t \in EnqsOf(x) : t.rid = r).pfid, lock |-> FALSE]
    ELSE emap[r]]

\* A dequeue whose record is not in emap when its turn comes.
DeqNotFound(x) == \E i \in DOMAIN tmap[x] :
    LET d == tmap[x][i].drid
        enqBefore == \E j \in 1 .. i - 1 : tmap[x][j].enq /\ tmap[x][j].rid = d
        deqBefore == \E j \in 1 .. i - 1 : ~tmap[x][j].enq /\ tmap[x][j].drid = d
    IN  ~tmap[x][i].enq /\ (deqBefore \/ ~(InEmap(d) \/ enqBefore))

CommitTxn ==
    /\ op.kind = "commit"
    /\ LET x == T.xid
           deqd == {t.drid : t \in DeqsOf(x)}
           removed == {[rid |-> d, pfid |-> WithEnqs(x)[d].pfid] : d \in deqd}
           error == IF \E t \in EnqsOf(x) : InEmap(t.rid) THEN "MAP_DUPLICATE"
                    ELSE IF DeqNotFound(x) THEN "MAP_NOTFOUND"
                    ELSE IF Missing(removed) THEN "UNDERFLOW"
                    ELSE IF x \in pend THEN "MAP_DUPLICATE" ELSE "none"
       IN  CloseTxn(error,
                    [r \in Rids |-> IF r \in deqd THEN NoEntry ELSE WithEnqs(x)[r]],
                    Without(removed))

WriteFileHeader ==
    /\ file' = [file EXCEPT ![ring.idx] = [Submit(@, SblkDblks) EXCEPT !.fhdr = TRUE]]
    /\ evtRem' = evtRem + 1

\* A file nothing has been written to yet gets its header.
FileHeaderCheck ==
    /\ At("header")
    /\ IF IsVoid(file[ring.idx]) THEN WriteFileHeader ELSE UNCHANGED <<file, evtRem>>
    /\ Goto(IF pgOffset >= PageDblks THEN "flush" ELSE "exit")
    /\ UNCHANGED <<ring, page, pgIndex, pgOffset, pgCntr, cached, busy, tok, mapVars, fault>>

-----------------------------------------------------------------------------
(* write_flush(), and what flush_check() and flush() do after it.          *)

\* Mutant: a page is written as it stands.
RoundUp_None(n) == n

RoundUp(n) == ((n + SblkDblks - 1) \div SblkDblks) * SblkDblks

\* The page is padded to a whole sblk and handed to the kernel; the next one opens.
SubmitPage ==
    LET n == RoundUp(cached)
        offset == pgOffset + n - cached
        full == offset >= PageDblks
        next == (pgIndex + 1) % NumPages
        sent == [page EXCEPT ![pgIndex] =
                     [@ EXCEPT !.st = "AIO_PENDING", !.wd = n, !.wfh = ring.idx]]
        error == IF page[pgIndex].st # "IN_USE" THEN "BADPGSTATE"
                 ELSE IF Overflows(file[ring.idx], n) THEN "FILEOFFSOVFL" ELSE "none"
    IN  IF error # "none"
        THEN Throw(error) /\ UNCHANGED <<fileVars, pageVars>>
        ELSE /\ file' = [file EXCEPT ![ring.idx] = Submit(@, n)]
             /\ page' = [sent EXCEPT ![next].st = IF @ = "UNUSED" THEN "IN_USE" ELSE @]
             /\ pgIndex' = next
             /\ pgOffset' = IF full THEN 0 ELSE offset
             /\ pgCntr' = IF full THEN pgCntr + 1 ELSE pgCntr
             /\ cached' = 0
             /\ evtRem' = evtRem + 1
             /\ UNCHANGED <<ring, fault>>

WriteFlush ==
    /\ At("flush")
    /\ IF cached = 0 \/ PageBlocked
       THEN UNCHANGED <<fileVars, pageVars, fault>> ELSE SubmitPage
    /\ op' = [op EXCEPT !.pc = "reap",
                        !.res = IF cached > 0 /\ PageBlocked THEN "PAGE_AIOWAIT" ELSE @]
    /\ UNCHANGED <<busy, tok, mapVars>>

\* get_events() waits for a completion, if one is to come, but a signal ends the
\* wait early: any number may have been taken.
\* After get_events() the file is rotated if it is full.  A record that is not
\* done goes on, unless the next page or the next file is not ready for it.
FlushCheck ==
    /\ At("reap")
    /\ page' = OpenPage(page)
    /\ LET pageWait == PageBlocked /\ ~op.done
           rotate   == pgCntr >= FilePages
           rotated  == RotateResult(ring, file)
           res      == IF rotate /\ rotated # "SUCCESS" THEN rotated
                       ELSE IF pageWait THEN "PAGE_AIOWAIT" ELSE op.res
           stop     == op.done \/ pageWait \/ (rotate /\ rotated # "SUCCESS")
       IN  /\ pgCntr' = IF rotate THEN 0 ELSE pgCntr
           /\ ring' = IF rotate THEN Rotated(ring, file) ELSE ring
           /\ file' = IF rotate THEN [file EXCEPT ![After(ring.idx, 1)] = WrReset(@)] ELSE file
           /\ op' = [op EXCEPT !.pc = IF stop THEN "exit" ELSE "encode", !.res = res]
    /\ UNCHANGED <<pgIndex, pgOffset, cached, evtRem, busy, tok, mapVars, fault>>

-----------------------------------------------------------------------------
(* The end of a call, and handle_aio_wait().                               *)

\* A call that has to wait keeps the mutex; flush() does not wait.
Exit ==
    /\ At("exit")
    /\ busy' = IF op.kind # "flush" /\ T.st \in {"SUBM", "COMPL"}
               THEN busy \ {op.kind} ELSE busy
    /\ IF op.kind # "flush" /\ op.res \in {"PAGE_AIOWAIT", "FILE_AIOWAIT"}
       THEN Goto("wait") /\ UNCHANGED tok
       ELSE /\ op' = NoOp
            /\ tok' = [r \in Rids |-> IF r = op.rid /\ tok[r].st = "NONE"
                                      THEN NoTok ELSE tok[r]]
    /\ UNCHANGED <<fileVars, pageVars, mapVars, fault>>

WaitPage ==
    /\ At("wait")
    /\ op.res = "PAGE_AIOWAIT" /\ page[pgIndex].st = "UNUSED"
    /\ Start(op.kind, op.rid)
    /\ UNCHANGED <<fileVars, pageVars, busy, tok, mapVars, fault>>

WaitFile ==
    /\ At("wait")
    /\ op.res = "FILE_AIOWAIT" /\ file[ring.idx].aio = 0
    /\ file' = [file EXCEPT ![ring.idx] = WrReset(@)]
    /\ ring' = [ring EXCEPT !.resetOk = CanReset(file[ring.idx])]
    /\ IF T.st = "PART" THEN Start(op.kind, op.rid) ELSE op' = NoOp
    /\ UNCHANGED <<pageVars, busy, tok, mapVars, fault>>

\* The wait gives up after _aio_cmpl_timeout and throws AIOCMPLWAIT.
WaitTimeout ==
    /\ At("wait")
    /\ SlowDisk \/ op.res = "PAGE_AIOWAIT"
    /\ Return("AIOCMPLWAIT")
    /\ UNCHANGED <<fileVars, pageVars, busy, tok, mapVars, fault>>

-----------------------------------------------------------------------------
(* get_events(): from a waiting call, after a write_flush(), or from the   *)
(* events timer, which takes the mutex only if it is free.                 *)

Reaping == fault = "none" /\ op.pc \in {"idle", "reap", "wait"} /\ evtRem > 0

\* Mutant: any page of a record completes it.
Arrived_FirstPage(p) == {r \in page[p].toks : tok[r].st # "PART"}
\* Mutant: the page count is tested before it is taken down.
Arrived_Early(p) == {r \in page[p].toks : tok[r].pgs = 0 /\ tok[r].st # "PART"}
\* Mutant: the write of an abort record leaves the pending set alone.
EndedBy_Commit(rs) == {r \in rs : tok[r].kind = "commit"}

\* Tokens for which this page was the last one missing.
Arrived(p) == {r \in page[p].toks : tok[r].pgs = 1 /\ tok[r].st # "PART"}
EndedBy(rs) == {r \in rs : tok[r].kind \in {"abort", "commit"}}

ReapPage(p) ==
    /\ Reaping
    /\ page[p].st = "AIO_PENDING"
    /\ LET last  == Arrived(p)
           ended == EndedBy(last)
           fc    == file[page[p].wfh]
           error == IF \E r \in page[p].toks : tok[r].pgs = 0 THEN "ASSERT"
                    ELSE IF \E r \in last : tok[r].st # "SUBM" THEN "BADDTOKSTATE"
                    ELSE IF \E r \in ended : tok[r].xid \notin pend THEN "MAP_NOTFOUND"
                    ELSE CompleteError(fc, page[p].wd)
       IN  /\ Throw(error)
           /\ IF error # "none" THEN UNCHANGED <<file, page, tok, tmap, pend>> ELSE
              /\ tok' = [r \in Rids |-> IF r \in page[p].toks
                    THEN [tok[r] EXCEPT !.pgs = @ - 1, !.st = IF r \in last THEN "COMPL" ELSE @]
                    ELSE tok[r]]
              /\ tmap' = [x \in Xids |-> [i \in DOMAIN tmap[x] |->
                    [tmap[x][i] EXCEPT !.aio = @ \/ tmap[x][i].rid \in last]]]
              /\ pend' = pend \ {tok[r].xid : r \in ended}
              /\ file' = [file EXCEPT ![page[p].wfh] = Complete(@, page[p].wd)]
              /\ page' = [page EXCEPT ![p] = FreePage]
    /\ evtRem' = evtRem - 1
    /\ UNCHANGED <<ring, pgIndex, pgOffset, pgCntr, cached, busy, emap, op>>

ReapHeader(f) ==
    /\ Reaping
    /\ file[f].fhdr
    /\ LET error == CompleteError(file[f], SblkDblks)
       IN  /\ Throw(error)
           /\ file' = IF error # "none" THEN file ELSE
                  [file EXCEPT ![f] = [Complete(@, SblkDblks) EXCEPT !.fhdr = FALSE]]
    /\ evtRem' = evtRem - 1
    /\ UNCHANGED <<ring, page, pgIndex, pgOffset, pgCntr, cached, busy, tok, mapVars, op>>

-----------------------------------------------------------------------------
Check == CheckBusy \/ CheckFull \/ CheckPage \/ CheckRefused \/ CheckOk
Record == EnqueueTxn \/ EnqueueNonTxn \/ DequeueTxn \/ DequeueNonTxn
          \/ AbortTxn \/ CommitTxn
Wait == WaitPage \/ WaitFile

Caller == \/ \E r \in Rids : CallEnqueue(r) \/ CallDequeue(r) \/ CallEnd(r) \/ Retry(r)
          \/ CallFlush
Holder == \/ Check \/ Encode \/ Record \/ FileHeaderCheck
          \/ WriteFlush \/ FlushCheck \/ Exit \/ Wait
Kernel == \/ \E p \in Pages : ReapPage(p)
          \/ \E f \in Files : ReapHeader(f)

Next == Caller \/ Holder \/ WaitTimeout \/ Kernel
Spec == Init /\ [][Next]_vars

-----------------------------------------------------------------------------
(* Properties.                                                             *)

FileType  == [enq : Nat, subm : Nat, cmpl : Nat, aio : Nat, fhdr : BOOLEAN]
RingType  == [idx : Files, resetOk : BOOLEAN, owi : BOOLEAN, frot : BOOLEAN]
PageType  == [st : {"UNUSED", "IN_USE", "AIO_PENDING"}, toks : SUBSET Rids, wd : Nat,
              wfh : Files \cup {NoFile}]
EntryType == [rid : Rids, drid : Rids \cup {NoRid}, pfid : Files,
              enq : BOOLEAN, aio : BOOLEAN]
TokType == [kind : Kinds \cup {"none"}, st : {"NONE", "PART", "SUBM", "COMPL"},
            xid : Xids \cup {NoXid}, drid : Rids \cup {NoRid},
            fid : Files \cup {NoFile}, size : Nat, written : Nat, pgs : Nat,
            span : SUBSET Files]
OpType  == [pc : {"idle", "check", "encode", "complete", "header", "flush", "reap",
                  "exit", "wait"},
            kind : Kinds \cup {"none", "flush"}, rid : Rids \cup {NoRid},
            res : Results, done : BOOLEAN]

FileTypes ==
    /\ file \in [Files -> FileType]
    /\ ring \in RingType
PageTypes ==
    /\ page \in [Pages -> PageType]
    /\ pgIndex \in Pages /\ pgOffset \in 0 .. PageDblks /\ pgCntr \in Nat
    /\ cached \in 0 .. pgOffset /\ evtRem \in Nat
MapTypes ==
    /\ emap \in [Rids -> [pfid : Files \cup {NoFile}, lock : BOOLEAN]]
    /\ tmap \in [Xids -> Seq(EntryType)]
    /\ pend \subseteq Xids
CallTypes ==
    /\ busy \subseteq Kinds
    /\ tok \in [Rids -> TokType]
    /\ op \in OpType
    /\ fault \in Faults

OpShape ==
    /\ op.kind \in Kinds => op.rid \in Rids /\ tok[op.rid].kind = op.kind
    /\ op.kind = "none" => op.pc = "idle"
    /\ op.kind = "flush" => op.done /\ op.pc \in {"flush", "reap", "exit"}
    /\ op.pc = "complete" => T.fid \in Files
TokShape == \A r \in Rids :
    /\ tok[r].written <= tok[r].size
    /\ tok[r].written > 0 => tok[r].fid \in Files
    /\ tok[r].kind = "none" => tok[r].st = "NONE"
    /\ tok[r].kind = "deq" => tok[r].drid \in Rids
    /\ tok[r].kind \in {"abort", "commit"} => tok[r].xid \in Xids
PageShape == \A p \in Pages : page[p].st = "AIO_PENDING" => page[p].wfh \in Files

\* The type invariant: the counters of fcntl and wmgr never go below zero, the
\* call in progress and the token it works on agree, and a token's fields are
\* set when a step relies on them, so that it is inductive.
TypeOK == /\ FileTypes /\ PageTypes /\ MapTypes /\ CallTypes
          /\ OpShape /\ TokShape /\ PageShape

\* No call of the write pipeline ends in one of the exceptions that report that
\* its own books are wrong: a counter below zero or past the end of its file, a
\* record missing from a map or in it twice, a page or token in a wrong state.
\* (Recovery has errors of its own, with names of their own.)
NoInternalError == fault \notin Faults \ {"none"}

\* Records enqueued in file f: those in emap, and those open transactions hold.
EnqIn(f) == {r \in Rids : emap[r].pfid = f}
TxnEnqIn(f) == {t \in UNION {EnqsOf(x) : x \in Xids} : t.pfid = f}

\* fcntl::_rec_enqcnt, which decides whether a file may be overwritten, agrees
\* with enq_map and txn_map through enqueues, dequeues, commits and aborts.
EnqCountExact == \A f \in Files :
    file[f].enq = Cardinality(EnqIn(f)) + Cardinality(TxnEnqIn(f))

\* The writes in flight to file f, as the pages know them.
InFlight(f) == {p \in Pages : page[p].st = "AIO_PENDING" /\ page[p].wfh = f}

\* The dblks of those writes, each named by its page and its place there.
DblksInFlight(f) == UNION {{p} \X (1 .. page[p].wd) : p \in InFlight(f)}
WriteDblks(f) == Cardinality(DblksInFlight(f))
HeaderOut(f) == IF file[f].fhdr THEN 1 ELSE 0

\* Every write is accounted for until it completes: per file the count and the
\* dblks in flight, over all files the events still to be taken, and per token the
\* pages that hold part of its record and are not on disk.  File rotation,
\* file_header_check(), the waits and the report of a complete enqueue (ENQ,
\* wr_aio_cb) all decide by these counts, whatever order the kernel writes in.
TokenPages(r) ==
    /\ tok[r].pgs = Cardinality({p \in Pages : r \in page[p].toks})
    /\ tok[r].st = "COMPL" => tok[r].pgs = 0
    /\ tok[r].st = "SUBM" => tok[r].pgs > 0

AioAccounted ==
    /\ \A f \in Files :
        /\ file[f].aio = Cardinality(InFlight(f)) + HeaderOut(f)
        /\ file[f].subm - file[f].cmpl = WriteDblks(f) + SblkDblks * HeaderOut(f)
    /\ evtRem = Cardinality({p \in Pages : page[p].st = "AIO_PENDING"})
              + Cardinality({f \in Files : file[f].fhdr})
    /\ \A r \in Rids : TokenPages(r)

\* Direct I/O (O_DIRECT) takes whole sblks only: what is written starts and ends
\* on an sblk boundary of the page and of the file, whatever sizes are flushed.
Aligned(n) == n % SblkDblks = 0
DirectIoAligned ==
    /\ Aligned(pgOffset - cached)
    /\ \A p \in Pages : Aligned(page[p].wd)
    /\ \A f \in Files : Aligned(file[f].subm)

\* A record is locked in emap exactly while one open transaction dequeues it.
LockedByOneTxn == \A r \in Rids :
    LET lockers == {x \in Xids : \E t \in DeqsOf(x) : t.drid = r}
    IN  /\ Cardinality(lockers) <= 1
        /\ InEmap(r) => (emap[r].lock <=> lockers # {})

\* is_txn_synced() is true for an open transaction only when all its records are
\* on disk: this is what localPrepare() relies on before it writes the prepare.
IsTxnSynced(x) == (\A t \in Entries(x) : t.aio) /\ x \notin pend
SyncedIsOnDisk == \A x \in Xids : ~Closed(x) /\ IsTxnSynced(x) =>
    \A t \in Entries(x) : tok[t.rid].st = "COMPL"

\* _txn_pending_set holds the transactions whose commit or abort is recorded and
\* not yet on disk, so the second sync of a commit waits for that record.
PendingIsUnwritten == pend =
    {x \in Xids : \E r \in Rids : /\ tok[r].xid = x /\ tok[r].st = "SUBM"
                                  /\ tok[r].kind \in {"abort", "commit"}}

\* "Are these encodes mutually exclusive?" (wmgr.hpp): between calls the busy
\* flag of an operation is up exactly while a record of it is half written, and
\* there is never a second one, so records are not interleaved in the journal.
HalfWritten == {r \in Rids : tok[r].st = "PART"}
BusyIsHalfWritten ==
    /\ Cardinality(busy) <= 1
    /\ op.pc = "idle" => busy = {tok[r].kind : r \in HalfWritten}
    /\ Cardinality(HalfWritten) <= 1

\* handle_aio_wait() loops until the current page is UNUSED: it never waits for
\* a page that only a caller could free.
WaitsForKernel ==
    /\ op.pc = "wait" /\ op.res = "PAGE_AIOWAIT" => page[pgIndex].st # "IN_USE"
    /\ cached > 0 => page[pgIndex].st = "IN_USE"

\* Records that must survive: enqueued (also in a transaction) or being written.
Enqueued(r) == InEmap(r) \/ \E x \in Xids : DataExists(x, r)
Needed(r) == Enqueued(r) \/ tok[r].st = "PART"

\* A file is only taken for new data when no record still needed has any part in
\* it, also one whose header is in an earlier file (enqcnt counts headers only).
NoLiveOverwritten == [][\A f \in Files : file'[f].subm < file[f].subm =>
    \A r \in Rids : f \in tok[r].span => ~Needed(r)]_vars

-----------------------------------------------------------------------------
(* The journal's promise.                                                  *)

MJ == INSTANCE MessageJournal WITH
    Msgs   <- Rids,
    Txns   <- Xids,
    stored <- {r \in Rids : tok[r].kind = "enq" /\ tok[r].st \in {"SUBM", "COMPL"}},
    queue  <- {r \in Rids : InEmap(r)},
    adds   <- [x \in Xids |-> {t.rid : t \in EnqsOf(x)}],
    takes  <- [x \in Xids |-> {t.drid : t \in DeqsOf(x)}]

\* However records are cut into pages and files, refused, resumed and written,
\* enq_map and txn_map change only as the operations of jcntl.hpp say, each in
\* one step: a transaction's records are released or discarded all at once.
KeepsPromise == MJ!Spec

-----------------------------------------------------------------------------
(* Liveness, under the fairness of module JournalImpl.                     *)

\* A record that was accepted whole reaches the disk and its owner is told.
AcceptedIsCompleted == \A r \in Rids : tok[r].st = "SUBM" ~> tok[r].st = "COMPL"

\* A call always gives the mutex back.
CallReturns == op.pc # "idle" ~> op.pc = "idle"
=============================================================================
