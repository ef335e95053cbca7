------------------------------ MODULE Recovery ------------------------------
(***************************************************************************)
(* A journal that is killed and recovered (jcntl::recover() and            *)
(* recover_complete()).  The write side is module Wmgr; this module adds   *)
(* what its writes leave in the files, the crash, and the analysis that    *)
(* rebuilds the maps, the file counters and the write position from the    *)
(* files alone: first the file headers (class jinf), then every record     *)
(* from the oldest file on, until something does not fit.                  *)
(*                                                                         *)
(* A dblk on disk is a cell that names the record it belongs to; what a    *)
(* file holds from an earlier turn of the ring stays in it until it is     *)
(* written again.                                                          *)
(***************************************************************************)
EXTENDS Wmgr, SequencesExt

CONSTANTS
    MaxCrash,       \* bound: crashes
    InOrder,        \* whether writes reach the disk in the order submitted
    ReuseXids       \* whether a transaction may be named as one that was dropped

ASSUME RecoveryAssumption ==
    /\ MaxCrash \in Nat
    /\ InOrder \in BOOLEAN /\ ReuseXids \in BOOLEAN
    /\ CtlDblks < NumFiles * FileDblks

VARIABLES
    disk,       \* disk[f]: the header and the data dblks of file f
    unwritten,  \* writes submitted whose completion is not taken, oldest first
    buf,        \* the cells of the dblks that are only in the page cache
    log,        \* history: what was recorded, in order, and is not lost
    prepared,   \* transactions in the store's prepared list
    rcvdat,     \* _rcvdat: what the analysis found
    crashes     \* crashes so far

diskVars == <<disk, unwritten, buf>>
lifeVars == <<prepared, rcvdat, crashes>>
rvars == <<vars, diskVars, log, lifeVars>>

-----------------------------------------------------------------------------
(* What is on disk.  A record's first dblk carries its header: kind, ids,  *)
(* size and overwrite indicator; its last one the tail, with its id.       *)

Blank == [kind |-> "none", rid |-> NoRid, xid |-> NoXid, drid |-> NoRid,
          size |-> 0, part |-> 0, owi |-> FALSE]
Filler == [Blank EXCEPT !.kind = "filler"]

Cell(r, part, owi) ==
    [kind |-> tok[r].kind, rid |-> r, xid |-> tok[r].xid, drid |-> tok[r].drid,
     size |-> tok[r].size, part |-> part, owi |-> owi]

NoHeader == [owi |-> FALSE, fro |-> -1]
NewDisk == [f \in Files |-> [hdr |-> NoHeader, data |-> [i \in 1 .. FileDblks |-> Blank]]]

HeaderWrite(f, h) == [page |-> -1, f |-> f, hdr |-> h, at |-> 0, cells |-> <<>>]
PageWrite(p, f, at, cells) ==
    [page |-> p, f |-> f, hdr |-> NoHeader, at |-> at, cells |-> cells]

\* Disk d after write w.
Put(d, w) ==
    IF w.page = -1 THEN [d EXCEPT ![w.f].hdr = w.hdr]
    ELSE [d EXCEPT ![w.f].data = [i \in 1 .. FileDblks |->
              IF i \in w.at + 1 .. w.at + Len(w.cells) THEN w.cells[i - w.at] ELSE @[i]]]

\* _fro: where the first record that begins in this file begins; 0 if none does.
\* What is cached when a file is still void is the part of the record just put
\* into it.
FirstRecordOffset ==
    LET rem == T.size - T.written + cached
    IN  IF T.written = cached THEN SblkDblks
        ELSE IF rem < FileDblks THEN rem + SblkDblks ELSE 0

-----------------------------------------------------------------------------
(* The analysis.  Its state is a record: a position (fid, off in dblks,    *)
(* header included) with the overwrite indicator lowi, what rcvdat will    *)
(* hold, the maps, the disk, and whether it goes on.                       *)

HasHeader(d, f) == d[f].hdr # NoHeader
SameOwi(d, f) == d[f].hdr.owi = d[0].hdr.owi

\* jinf::analyze(): files up to the first one without a header; those written in
\* the turn before (late) come first, then those written since (early).
HeadedFiles(d) == {f \in Files : \A g \in 0 .. f : HasHeader(d, g)}
Early(d) == {f \in HeadedFiles(d) : SameOwi(d, f)}
\* Mutant of Late: every file counts as written in the present turn.
Late_None(d) == {f \in {} : ~SameOwi(d, f)}
Late(d) == HeadedFiles(d) \ Early(d)
OwiBad(d) == \E f \in Early(d), g \in Late(d) : g < f

FirstFile(d) == IF Late(d) = {} THEN 0 ELSE Min(Late(d))

StartScan(d) ==
    LET first == FirstFile(d)
    IN  [fid |-> first, off |-> d[first].hdr.fro, lowi |-> d[0].hdr.owi,
         ffid |-> first, lfid |-> Max(Early(d)), owi |-> d[0].hdr.owi,
         frot |-> HeadedFiles(d) # Files, empty |-> FALSE, eo |-> 0, hrid |-> NoRid,
         last |-> NoRid, end |-> <<first, SblkDblks>>,
         enq |-> [f \in Files |-> 0], emap |-> [r \in Rids |-> NoEntry],
         tmap |-> [x \in Xids |-> <<>>], disk |-> d, lffull |-> FALSE,
         go |-> TRUE, fault |-> IF OwiBad(d) THEN "OWIBAD" ELSE "none"]

NothingFound == [StartScan([NewDisk EXCEPT ![0].hdr.fro = 0]) EXCEPT
                    !.empty = TRUE, !.frot = FALSE, !.lfid = 0, !.go = FALSE]

Stop(s) == [s EXCEPT !.go = FALSE]

\* check_journal_alignment(): the rest of the sblk is filled, on disk.
Align(s, f, pos) ==
    LET upto == RoundUp(pos)
    IN  IF upto = pos THEN [Stop(s) EXCEPT !.eo = pos]
        ELSE [Stop(s) EXCEPT
                 !.disk[f].data = [i \in 1 .. FileDblks |->
                     IF i + SblkDblks \in pos + 1 .. upto THEN Filler ELSE @[i]],
                 !.lfid = f,
                 !.ffid = IF s.frot THEN @ ELSE After(f, 1),
                 !.eo = upto]

\* jfile_cycle() past n file ends; a header is read of every file entered.
CanCycle(s, n) == \A i \in 1 .. n : /\ After(s.fid, i) # s.ffid
                                    /\ HasHeader(s.disk, After(s.fid, i))
Cycled(s, n, off) ==
    [s EXCEPT !.fid = After(@, n), !.off = off, !.eo = FullDblks,
              !.lowi = IF s.fid + n >= NumFiles THEN ~@ ELSE @]

NextFile(s) ==
    IF CanCycle(s, 1) THEN Cycled(s, 1, s.disk[After(s.fid, 1)].hdr.fro)
    ELSE [Stop(s) EXCEPT !.eo = FullDblks]

\* Mutant of OwiChanged: the indicator is not compared.
OwiChanged_Never(s, c) == FALSE
\* check_owi()
OwiChanged(s, c) == IF s.ffid # 0 THEN c.owi = s.lowi ELSE c.owi # s.lowi
\* Mutant of BoundaryFile: the oldest file, not the one before it.
BoundaryFile_First(s) == s.ffid
BoundaryFile(s) == IF s.ffid # 0 THEN s.ffid - 1 ELSE NumFiles - 1

\* decode(): where the record at the position of s has its last dblk, as the
\* number of files on and the dblk of that file; it is whole if the tail is there.
LastFile(s, c) == (s.off - SblkDblks + c.size - 1) \div FileDblks
LastDblk(s, c) == ((s.off - SblkDblks + c.size - 1) % FileDblks) + 1
IsWhole(s, c) ==
    /\ CanCycle(s, LastFile(s, c))
    /\ LET t == s.disk[After(s.fid, LastFile(s, c))].data[LastDblk(s, c)]
       IN  t.part = t.size /\ t.kind = c.kind /\ t.rid = c.rid
PastRecord(s, c) ==
    LET n == LastFile(s, c)
        off == LastDblk(s, c) + SblkDblks
        p == IF n = 0 THEN [s EXCEPT !.off = off] ELSE Cycled(s, n, off)
    IN  [p EXCEPT !.last = c.rid, !.end = <<p.fid, off>>]

-----------------------------------------------------------------------------
(* What a whole record does to the maps and counts: the second copy in the *)
(* code of what enqueue(), dequeue(), abort() and commit() do (Wmgr).      *)

Count(cnt, f, n) == [cnt EXCEPT ![f] = @ + n]
Uncounted(cnt, recs) == [f \in Files |-> cnt[f] - CountIn(f, recs)]
TxnEntry(s, c) == [rid |-> c.rid, drid |-> c.drid, pfid |-> s.fid,
                   enq |-> c.kind = "enq", aio |-> TRUE]
OpsOf(s, x, enq) == {t \in ToSet(s.tmap[x]) : t.enq = enq}
Taken(s, x) == {t.drid : t \in OpsOf(s, x, FALSE)}
Unlock(emap_, rs) == [r \in Rids |-> [emap_[r] EXCEPT !.lock = @ /\ r \notin rs]]

ReplayTxnOp(s, c) ==
    LET q == [s EXCEPT !.tmap[c.xid] = Append(@, TxnEntry(s, c))]
    IN  IF c.kind = "enq" THEN [q EXCEPT !.enq = Count(@, s.fid, 1)]
        ELSE [q EXCEPT !.emap[c.drid].lock = s.emap[c.drid] # NoEntry]

ReplayEnqueue(s, c) ==
    IF s.emap[c.rid] # NoEntry THEN [s EXCEPT !.fault = "MAP_DUPLICATE"]
    ELSE [s EXCEPT !.enq = Count(@, s.fid, 1),
                   !.emap[c.rid] = [pfid |-> s.fid, lock |-> FALSE]]

\* A record that is not found was enqueued in a file that is overwritten.
Removed(s, rs) ==
    LET found == {[rid |-> r, pfid |-> s.emap[r].pfid] : r \in {q \in rs : s.emap[q] # NoEntry}}
    IN  [s EXCEPT !.enq = Uncounted(@, found),
                  !.emap = [r \in Rids |-> IF r \in rs THEN NoEntry ELSE @[r]]]

\* Mutant of ReplayAbort: the dequeues of the transaction leave their locks.
ReplayAbort_KeepsLocks(s, x) ==
    [s EXCEPT !.enq = Uncounted(@, OpsOf(s, x, TRUE)),
              !.tmap[x] = <<>>]
ReplayAbort(s, x) ==
    [s EXCEPT !.enq = Uncounted(@, OpsOf(s, x, TRUE)),
              !.emap = Unlock(@, Taken(s, x)),
              !.tmap[x] = <<>>]

ReplayCommit(s, x) ==
    LET put == OpsOf(s, x, TRUE)
        with == [r \in Rids |-> IF \E t \in put : t.rid = r
                    THEN [pfid |-> (CHOOSE t \in put : t.rid = r).pfid, lock |-> FALSE]
                    ELSE s.emap[r]]
    IN  IF \E t \in put : s.emap[t.rid] # NoEntry
        THEN [s EXCEPT !.fault = "MAP_DUPLICATE"]
        ELSE Removed([s EXCEPT !.emap = with, !.tmap[x] = <<>>], Taken(s, x))

ReplayRecord(s, c) ==
    CASE c.kind \in {"enq", "deq"} /\ c.xid # NoXid -> ReplayTxnOp(s, c)
      [] c.kind = "enq" /\ c.xid = NoXid -> ReplayEnqueue(s, c)
      [] c.kind = "deq" /\ c.xid = NoXid -> Removed(s, {c.drid})
      [] c.kind = "abort"  -> ReplayAbort(s, c.xid)
      [] c.kind = "commit" -> ReplayCommit(s, c.xid)

\* rcvr_get_next_record().  Offset 0, where no record begins, holds the file
\* header, and a dblk in the middle of a record is no header either.
NextRecord(s) ==
    IF s.off >= FullDblks THEN NextFile(s)
    ELSE IF s.off < SblkDblks THEN Align(s, s.fid, s.off)
    ELSE LET c == s.disk[s.fid].data[s.off - SblkDblks + 1]
             seen == [s EXCEPT !.hrid = IF c.rid > @ THEN c.rid ELSE @]
         IN  IF c.kind = "filler" THEN [s EXCEPT !.off = @ + 1]
             ELSE IF c.kind = "none" \/ c.part # 1 THEN Align(s, s.fid, s.off)
             ELSE IF OwiChanged(s, c)
                  THEN IF s.fid = BoundaryFile(s) THEN Align(s, s.fid, s.off)
                       ELSE [s EXCEPT !.fault = "OWIMISMATCH"]
             ELSE IF ~IsWhole(s, c) THEN Align(seen, s.fid, s.off)
             ELSE LET done == ReplayRecord(seen, c)
                      past == PastRecord(s, c)
                  IN  [done EXCEPT !.fid = past.fid, !.off = past.off, !.eo = past.eo,
                           !.lowi = past.lowi, !.last = past.last, !.end = past.end]

\* Mutant of DropTxns: the enqueues dropped stay in the counts of the files.
DropTxns_StillCounted(s) ==
    LET gone == Xids \ prepared
    IN  [s EXCEPT
            !.emap = Unlock(@, UNION {Taken(s, x) : x \in gone}),
            !.tmap = [x \in Xids |-> IF x \in gone THEN <<>> ELSE @[x]]]
\* Transactions that are not in the prepared list are dropped.
DropTxns(s) ==
    LET gone == Xids \ prepared
    IN  [s EXCEPT
            !.enq = Uncounted(@, UNION {OpsOf(s, x, TRUE) : x \in gone}),
            !.emap = Unlock(@, UNION {Taken(s, x) : x \in gone}),
            !.tmap = [x \in Xids |-> IF x \in gone THEN <<>> ELSE @[x]]]

JournalFull(s) == /\ s.eo = FullDblks
                  /\ s.ffid = After(s.lfid, 1) /\ s.enq[s.ffid] > 0

\* jcntl::rcvr_janalyze() and what recover() makes of it.
Analysis(d) ==
    IF ~HasHeader(d, 0) THEN [NothingFound EXCEPT !.disk = d] ELSE
    LET steps   == [i \in 1 .. NumFiles * (FileDblks + 1) + 1 |-> i]
        more(s) == s.go /\ s.fault = "none"
        scanned == FoldLeft(LAMBDA s, i : IF more(s) THEN NextRecord(s) ELSE s,
                            StartScan(d), steps)
        kept    == DropTxns(scanned)
    IN  [kept EXCEPT !.lffull = kept.eo = FullDblks,
                     !.fault = IF @ = "none" /\ JournalFull(kept) THEN "RECOVERJFULL" ELSE @]

-----------------------------------------------------------------------------
(* The write side, and what it leaves on disk.                             *)

NoRcvdat == [empty |-> TRUE, ffid |-> 0, lfid |-> 0, eo |-> 0, owi |-> FALSE,
             frot |-> FALSE, lffull |-> FALSE, enq |-> [f \in Files |-> 0],
             hrid |-> NoRid, end |-> <<0, 0>>]
RInit ==
    /\ Init
    /\ disk = NewDisk
    /\ unwritten = <<>> /\ buf = <<>> /\ log = <<>>
    /\ prepared = {} /\ rcvdat = NoRcvdat /\ crashes = 0

EncodeCells ==
    /\ Encode
    /\ buf' = buf \o [i \in 1 .. tok'[op.rid].written - T.written |->
                        Cell(op.rid, T.written + i, ring.owi)]
    /\ UNCHANGED <<disk, unwritten, log, lifeVars>>

LogEntry(k, r, x, d) == [kind |-> k, rid |-> r, xid |-> x, drid |-> d]
RecordLogged ==
    /\ Record
    /\ log' = Append(log, LogEntry(op.kind, op.rid, T.xid, T.drid))
    /\ UNCHANGED <<diskVars, lifeVars>>

HeaderOrNot ==
    /\ FileHeaderCheck
    /\ unwritten' = IF IsVoid(file[ring.idx])
          THEN Append(unwritten, HeaderWrite(ring.idx,
                                     [owi |-> ring.owi, fro |-> FirstRecordOffset]))
          ELSE unwritten
    /\ UNCHANGED <<disk, buf, log, lifeVars>>

\* dblk_roundup() fills up the sblk.
FlushCells ==
    /\ WriteFlush
    /\ IF evtRem' = evtRem THEN UNCHANGED <<unwritten, buf>>
       ELSE /\ unwritten' = Append(unwritten,
                   PageWrite(pgIndex, ring.idx, file[ring.idx].subm - SblkDblks,
                       buf \o [i \in 1 .. RoundUp(cached) - cached |-> Filler]))
            /\ buf' = <<>>
    /\ UNCHANGED <<disk, log, lifeVars>>

\* The kernel reports a write, which is then on disk.
Written(i) ==
    /\ InOrder => i = 1
    /\ LET w == unwritten[i]
       IN  /\ IF w.page = -1 THEN ReapHeader(w.f) ELSE ReapPage(w.page)
           /\ disk' = Put(disk, w)
           /\ unwritten' = RemoveAt(unwritten, i)
    /\ UNCHANGED <<buf, log, lifeVars>>

\* The store puts a synced transaction into its prepared list; it then only
\* ends it.
Prepare(x) ==
    /\ At("idle")
    /\ x \notin prepared /\ tmap[x] # <<>> /\ IsTxnSynced(x)
    /\ prepared' = prepared \cup {x}
    /\ UNCHANGED <<vars, diskVars, log, rcvdat, crashes>>

\* The transactions a recovery has dropped.
Dropped == {e.xid : e \in {d \in ToSet(log) : d.rid = NoRid}}

MayWrite(x) == x \notin prepared /\ (ReuseXids \/ x \notin Dropped)
Call == \/ \E r \in Rids : (CallEnqueue(r) \/ CallDequeue(r)) /\ MayWrite(tok'[r].xid)
        \/ \E r \in Rids : CallEnd(r) \/ Retry(r)
        \/ CallFlush

NoWrite ==
    /\ Call \/ Check \/ FlushCheck \/ Exit \/ Wait \/ WaitTimeout
    /\ UNCHANGED <<diskVars, log, lifeVars>>

-----------------------------------------------------------------------------
(* A crash, and recover() with what it finds.  Of the writes whose         *)
(* completion was not seen any may be on disk, or, in order, the first     *)
(* few.  The store goes on numbering after the highest id found.           *)

KeptDisk(keep) == FoldLeft(LAMBDA d, i : IF i \in keep THEN Put(d, unwritten[i]) ELSE d,
                           disk, [i \in DOMAIN unwritten |-> i])

\* The write counters: the last file goes on at eo, the others count as full.
RecoveredFile(a, f) ==
    IF a.empty THEN NewFile ELSE
    LET n == IF f = a.lfid THEN a.eo ELSE FullDblks
    IN  [NewFile EXCEPT !.enq = a.enq[f], !.subm = n, !.cmpl = n]
BeforeRotate(a) == [f \in Files |-> RecoveredFile(a, f)]
LastFileRing(a) == [idx |-> a.lfid, resetOk |-> TRUE, owi |-> a.owi, frot |-> a.frot]
RecoveredRing(a) == IF a.lffull THEN Rotated(LastFileRing(a), BeforeRotate(a))
                    ELSE LastFileRing(a)
RecoveredFiles(a) ==
    IF a.lffull THEN [BeforeRotate(a) EXCEPT ![After(a.lfid, 1)] = WrReset(@)]
    ELSE BeforeRotate(a)

\* A record id at or below the highest found is not handed out again.
Spent == [NoTok EXCEPT !.kind = "deq", !.st = "COMPL"]
RecoveredTok(a, r) ==
    IF r > a.hrid THEN NoTok
    ELSE IF tok[r].kind = "enq" /\ (a.emap[r] # NoEntry
                                   \/ \E x \in Xids : \E t \in OpsOf(a, x, TRUE) : t.rid = r)
         THEN [NoTok EXCEPT !.kind = "enq", !.st = "COMPL", !.xid = tok[r].xid]
    ELSE IF tok[r].kind \in {"abort", "commit"}
         THEN [NoTok EXCEPT !.kind = tok[r].kind, !.st = "COMPL", !.xid = tok[r].xid]
    ELSE Spent

Open(s) == {x \in Xids : s.adds[x] \cup s.takes[x] # {}}

\* What the log says is in the journal: MessageJournal, record by record.
Ideal(l) == FoldLeft(LAMBDA q, e :
    CASE e.kind = "enq" /\ e.xid = NoXid -> [q EXCEPT !.queue = @ \cup {e.rid}]
      [] e.kind = "enq" /\ e.xid # NoXid -> [q EXCEPT !.adds[e.xid] = @ \cup {e.rid}]
      [] e.kind = "deq" /\ e.xid = NoXid -> [q EXCEPT !.queue = @ \ {e.drid}]
      [] e.kind = "deq" /\ e.xid # NoXid -> [q EXCEPT !.takes[e.xid] = @ \cup {e.drid}]
      [] e.kind = "abort"  -> [q EXCEPT !.adds[e.xid] = {}, !.takes[e.xid] = {}]
      [] e.kind = "commit" -> [q EXCEPT !.queue = (@ \cup q.adds[e.xid]) \ q.takes[e.xid],
                                        !.adds[e.xid] = {}, !.takes[e.xid] = {}],
    [queue |-> {}, adds |-> [x \in Xids |-> {}], takes |-> [x \in Xids |-> {}]], l)

\* The log up to the last record found, and the transactions that are dropped.
FoundLog(a) ==
    LET found == SubSeq(log, 1, Max({0} \cup {i \in DOMAIN log : log[i].rid = a.last
                                                                   /\ a.last # NoRid}))
        gone  == Open(Ideal(found)) \ prepared
    IN  found \o SetToSeq({LogEntry("abort", NoRid, x, NoRid) : x \in gone})

\* wmgr::initialize with the offset eo: the pages go on in the middle of the file.
PagesFrom(eo) ==
    LET data == IF eo = 0 THEN 0 ELSE eo - SblkDblks
    IN  /\ pgCntr' = data \div PageDblks /\ pgOffset' = data % PageDblks
        /\ page' = [p \in Pages |-> IF p = 0 THEN [FreePage EXCEPT !.st = "IN_USE"]
                                     ELSE FreePage]
        /\ pgIndex' = 0 /\ cached' = 0 /\ evtRem' = 0

Recover(a) ==
    /\ disk' = a.disk /\ emap' = a.emap /\ tmap' = a.tmap /\ fault' = a.fault
    /\ rcvdat' = [i \in DOMAIN NoRcvdat |-> a[i]]
    /\ log' = FoundLog(a)
    /\ file' = RecoveredFiles(a) /\ ring' = RecoveredRing(a)
    /\ PagesFrom(IF a.lffull THEN 0 ELSE a.eo)
    /\ tok' = [r \in Rids |-> RecoveredTok(a, r)]
    /\ op' = [NoOp EXCEPT !.pc = "readonly"]

\* Bound: a crash inside a call leaves no other disk than a crash after it of
\* which fewer writes are kept, so only the latter is followed.
CrashPoint == op.pc \in {"idle", "readonly", "wait"}

Crash ==
    /\ crashes < MaxCrash /\ CrashPoint
    /\ fault = "none"
    /\ \E keep \in SUBSET DOMAIN unwritten :
        /\ InOrder => \A i \in keep, j \in DOMAIN unwritten : j < i => j \in keep
        /\ Recover(Analysis(KeptDisk(keep)))
    /\ busy' = {} /\ pend' = {}
    /\ unwritten' = <<>> /\ buf' = <<>>
    /\ crashes' = crashes + 1
    /\ UNCHANGED prepared

\* The read-only phase ends: the files and the ring are set from rcvdat again.
RecoverComplete ==
    /\ At("readonly")
    /\ file' = RecoveredFiles(rcvdat) /\ ring' = RecoveredRing(rcvdat)
    /\ op' = NoOp
    /\ rcvdat' = NoRcvdat
    /\ UNCHANGED <<pageVars, busy, tok, mapVars, fault, diskVars, log, prepared, crashes>>

RNext == \/ EncodeCells \/ RecordLogged \/ HeaderOrNot \/ FlushCells \/ NoWrite
         \/ \E i \in DOMAIN unwritten : Written(i)
         \/ \E x \in Xids : Prepare(x)
         \/ Crash \/ RecoverComplete
RSpec == RInit /\ [][RNext]_rvars

-----------------------------------------------------------------------------
(* Properties.                                                             *)

\* What is recovered is what was written: the records up to some point of the
\* log, as the operations meant them, with the transactions of the prepared list
\* still open and their records locked, and those not in it undone.
RecoversTheLog == op.pc \in {"idle", "readonly"} /\ fault = "none" =>
    LET q == Ideal(log)
    IN  /\ {r \in Rids : InEmap(r)} = q.queue
        /\ {r \in Rids : InEmap(r) /\ emap[r].lock} = q.queue \cap UNION Range(q.takes)
        /\ \A x \in Xids : /\ {t.rid : t \in EnqsOf(x)} = q.adds[x]
                            /\ {t.drid : t \in DeqsOf(x)} = q.takes[x]

\* A record that was reported complete is still in the journal after any crash.
Acked(e) == e.rid \in Rids /\ tok[e.rid].st = "COMPL"
NothingAckedIsLost == [][\A e \in ToSet(log) : Acked(e) => e \in ToSet(log')]_rvars

\* "Initialize journal by recovering state from previously written journal"
\* (jcntl.hpp): a message that is in the journal and whose enqueue was reported
\* complete is in it after a crash, unless recovery is refused.
MessagesSurvive == [][crashes' # crashes /\ fault' = "none" =>
    \A r \in Rids : InEmap(r) /\ tok[r].st = "COMPL" => emap'[r] # NoEntry]_rvars

\* A journal that these calls have written can be recovered, and goes on without
\* an internal error: recovery may only refuse it because it is full.
GoesOn == fault \in {"none", "RECOVERJFULL"}

\* "_lfid: Last file id", "_eo: End offset (first byte past last record)"
\* (rcvdat.hpp): the writer goes on right after the last record, or after the
\* fillers behind it.
EndIsPastLastRecord == op.pc = "readonly" /\ ~rcvdat.empty /\ fault = "none" =>
    \/ /\ rcvdat.lfid = rcvdat.end[1] /\ rcvdat.eo >= rcvdat.end[2]
       /\ \A i \in rcvdat.end[2] + 1 .. rcvdat.eo :
            disk[rcvdat.lfid].data[i - SblkDblks] = Filler
    \/ /\ rcvdat.end[2] = FullDblks
       /\ rcvdat.lfid = After(rcvdat.end[1], 1) /\ rcvdat.eo = SblkDblks

\* The initial overwrite indicator of the analysis is that of the file the writer
\* goes on in.
LastFileOwi == op.pc = "readonly" /\ ~rcvdat.empty /\ fault = "none" =>
    disk[rcvdat.lfid].hdr.owi = rcvdat.owi

\* Bound: recoveries that leave a wrong position behind are not followed further.
SoundPosition == EndIsPastLastRecord /\ LastFileOwi
=============================================================================
