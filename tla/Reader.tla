------------------------------- MODULE Reader -------------------------------
(***************************************************************************)
(* The read side of one journal (class rmgr with the read controller rrfc) *)
(* and its two users: recoverMessages(), which reads everything while the  *)
(* journal is recovered, and JournalImpl::loadMsgContent(), which reads    *)
(* forward from where it is until it meets the record it was asked for,    *)
(* while the broker goes on writing (modules Wmgr and Recovery).           *)
(*                                                                         *)
(* The reader holds _read_lock but not the writers' mutex: it looks at the *)
(* maps and at the write counters of the files as they are, and the writer *)
(* resets a file's read counters with its own, and invalidates the reader  *)
(* when it moves to the file that is read next.  One pass over the checks, *)
(* over a record or over aio_cycle() is one step; the kernel's reads and   *)
(* all the steps of the writers lie between.                               *)
(***************************************************************************)
EXTENDS Recovery

CONSTANTS
    RdPages,        \* pages of the read cache (JRNL_RMGR_PAGES)
    RdPageDblks,    \* dblks in one of them (JRNL_RMGR_PAGE_SIZE sblks)
    Overtakes       \* whether the writers may come round to a file that is being read

ASSUME ReaderAssumption ==
    /\ RdPages \in Nat \ {0}
    /\ RdPageDblks \in Nat \ {0} /\ RdPageDblks % SblkDblks = 0
    /\ Overtakes \in BOOLEAN

VARIABLES
    rm,         \* the read manager: see NewReader
    dtok,       \* the data token of the read, and what has been read for it
    load,       \* the call: where it is, the record asked for, its result
    oooRids,    \* oooRidList: records met beyond the one asked for
    lastRead,   \* lastReadRid
    recovered   \* history: the records recoverMessages() was given, in order

rdvars == <<rm, dtok, load, oooRids, lastRead, recovered>>
allvars == <<rvars, rdvars>>

-----------------------------------------------------------------------------
(* The read manager: rrfc's file and validity, the header read (fhdr), the *)
(* position in the pages, the files' read counters, and the pages.  io is  *)
(* a read's progress: with the kernel (out) or an event to take (done).    *)

NewRdPage == [st |-> "UNUSED", rd |-> 0, rfh |-> NoFile, n |-> 0, at |-> 0, io |-> "none",
              cells |-> [i \in 1 .. RdPageDblks |-> Blank]]
NewReader(f) ==
    [fid |-> f, valid |-> FALSE, fhdr |-> "none", fro |-> 0, pg |-> 0, off |-> 0,
     subm |-> [g \in Files |-> 0], cmpl |-> [g \in Files |-> 0],
     page |-> [p \in 0 .. RdPages - 1 |-> NewRdPage], err |-> "none", blocked |-> FALSE]

\* Token and record read in one: blk dblks of size were taken from the pages.
NewDtok == [rid |-> NoRid, rst |-> "UNREAD", blk |-> 0, size |-> 0, parts |-> <<>>]
NoLoad == [pc |-> "idle", want |-> NoRid, again |-> FALSE, next |-> "none", res |-> "none"]

Rem(m) == m.page[m.pg].rd - m.off       \* dblks_rem()
PageHere(m) == m.page[m.pg].st = "AIO_COMPLETE"

\* Nothing is left of what was written to the file, and nothing is on its way.
Exhausted(m) == /\ Rem(m) = 0
                /\ file[m.fid].cmpl = m.cmpl[m.fid] /\ file[m.fid].subm = file[m.fid].cmpl

ReadsOut(m, io) == {p \in DOMAIN m.page : m.page[p].io = io}
AnyRead(m, io) == ReadsOut(m, io) # {} \/ m.fhdr = io
Events(m) == AnyRead(m, "out") \/ AnyRead(m, "done")

\* Mutant of SetFile: the read counters are not reset.
SetFile_KeepsCounters(m, f) == [m EXCEPT !.fid = f]
\* rrfc::set_findex()
SetFile(m, f) == [m EXCEPT !.fid = f, !.subm[f] = 0, !.cmpl[f] = 0]

\* What add_rd_subm_cnt_dblks and add_rd_cmpl_cnt_dblks refuse.
ReadsTooFar(m, f, n) == m.subm[f] + n > file[f].subm
EndsTooFar(m, f, n) == m.cmpl[f] + n > m.subm[f]

\* The header read gives the offset of the first record, from where reading
\* starts: whole pages before it count as read.
GotHeader(m) ==
    LET subm == file[m.fid].subm
        fro  == IF m.fro = 0 \/ m.fro > subm THEN subm - SblkDblks ELSE m.fro - SblkDblks
        over == (fro \div RdPageDblks) * RdPageDblks
    IN  IF EndsTooFar(m, m.fid, SblkDblks) THEN [m EXCEPT !.err = "CMPLOFFSOVFL"]
        ELSE IF ReadsTooFar(m, m.fid, over) THEN [m EXCEPT !.err = "RDOFFSOVFL"]
        ELSE [m EXCEPT !.cmpl[m.fid] = @ + SblkDblks + over, !.subm[m.fid] = @ + over,
                       !.pg = (fro \div RdPageDblks) % RdPages, !.off = fro - over,
                       !.fhdr = "none", !.fro = 0, !.valid = TRUE]

\* A page whose file was reset since stays as it is, and its event is gone.
Kept(m) == {p \in ReadsOut(m, "done") : m.subm[m.page[p].rfh] >= SblkDblks}
GotPages(m) ==
    LET sum(f) == MapThenSumSet(LAMBDA p : m.page[p].n, {p \in Kept(m) : m.page[p].rfh = f})
        new == [m EXCEPT
            !.cmpl = [f \in Files |-> @[f] + sum(f)],
            !.page = [p \in DOMAIN @ |->
                IF p \in Kept(m) THEN [@[p] EXCEPT !.rd = m.page[p].n, !.st = "AIO_COMPLETE",
                                                   !.io = "none"]
                ELSE IF @[p].io = "done" THEN [@[p] EXCEPT !.io = "none"] ELSE @[p]]]
    IN  IF \E f \in Files : EndsTooFar(m, f, sum(f)) THEN [new EXCEPT !.err = "CMPLOFFSOVFL"]
        ELSE new

\* get_events(): takes all there are, and waits for one if there is none yet.
GetEvents(m) ==
    IF ~Events(m) THEN m
    ELSE IF ~AnyRead(m, "done") THEN [m EXCEPT !.blocked = TRUE]
    ELSE IF m.fhdr = "done" THEN GotHeader(m) ELSE GotPages(m)

-----------------------------------------------------------------------------
(* aio_cycle() and rotate_page().                                          *)

\* get_earliest_fid(): the first file with a record in the maps.
InMaps(f) == EnqIn(f) # {} \/ \E x \in Xids : \E t \in Entries(x) : t.pfid = f
EarliestFid ==
    LET first == IF ring.frot THEN 0 ELSE After(ring.idx, 1)
        stops == {i \in 0 .. NumFiles - 1 :
                    After(first, i) = ring.idx \/ InMaps(After(first, i))}
    IN  After(first, Min(stops))

\* Out of step with the writer: wait for all reads, forget the pages, and read the
\* header of the earliest file, unless nothing was written to it.
Resync(m) ==
    LET f == EarliestFid
        clear == SetFile([m EXCEPT !.pg = 0, !.off = 0,
                     !.page = [p \in DOMAIN @ |-> [@[p] EXCEPT !.st = "UNUSED", !.io = "none"]]], f)
    IN  IF AnyRead(m, "out") THEN [m EXCEPT !.blocked = TRUE]
        ELSE IF file[f].cmpl = 0 /\ file[f].subm = 0 THEN clear
        ELSE IF file[f].fhdr THEN [m EXCEPT !.blocked = TRUE]       \* fhdr_wr_sync()
        ELSE [clear EXCEPT !.fhdr = "out", !.subm[f] = SblkDblks]

\* rd_remaining_dblks(), of unsigned counters: below zero it is more than any page.
Left(n) == IF n < 0 THEN RdPageDblks ELSE n

\* One turn of init_aio_reads(): page p reads on, and rrfc moves on from a file that
\* is full and read to its end.
InitRead(m, p) ==
    LET f == m.fid
        from == IF m.subm[f] = 0 THEN SblkDblks ELSE m.subm[f]
        past == IF m.subm[f] = 0
                THEN [m EXCEPT !.subm[f] = SblkDblks, !.cmpl[f] = @ + SblkDblks] ELSE m
        n == Min({Left(file[f].cmpl - from), RdPageDblks})
        sent == [past EXCEPT !.subm[f] = from + n,
                    !.page[p] = [@ EXCEPT !.st = "AIO_PENDING", !.rfh = f, !.n = n,
                                          !.at = from - SblkDblks, !.io = "out"]]
    IN  IF file[f].cmpl = 0 THEN m ELSE IF n = 0 THEN past
        ELSE IF ReadsTooFar(past, f, n) THEN [past EXCEPT !.err = "RDOFFSOVFL"]
        ELSE IF from + n = FullDblks THEN SetFile(sent, After(f, 1)) ELSE sent

\* Pages not in use read on, from the current one round; then what has arrived is
\* taken, if reads were already out.
ReadOn(m) ==
    LET order == [i \in 1 .. RdPages |-> (m.pg + i - 1) % RdPages]
        free  == {i \in 1 .. RdPages : m.page[order[i]].st = "UNUSED"}
        turns == [i \in 1 .. Cardinality(free) |-> (order[Min(free)] + i - 1) % RdPages]
        sent  == IF free = {} THEN m ELSE FoldLeft(InitRead, m, turns)
    IN  IF \E p \in DOMAIN m.page : m.page[p].st = "AIO_PENDING" THEN GetEvents(sent) ELSE sent

AioCycle(m) == IF m.fhdr # "none" THEN m ELSE IF ~m.valid THEN Resync(m) ELSE ReadOn(m)

RotatePage(m) ==
    LET next == [m EXCEPT !.page[m.pg] = [@ EXCEPT !.rd = 0, !.st = "UNUSED"],
                          !.pg = (m.pg + 1) % RdPages]
    IN  [AioCycle(next) EXCEPT !.off = 0]

-----------------------------------------------------------------------------
(* read_enq() and skip(): a record is taken page by page, until it is at   *)
(* its end or the next page has not arrived.                               *)

\* Mutant of Take: the part is taken from the beginning of the page.
Take_FromPageStart(s) ==
    LET n == Min({s.d.size - s.d.blk, Rem(s.m)})
    IN  [s EXCEPT !.m.off = @ + n, !.d.blk = @ + n,
                  !.d.parts = @ \o SubSeq(s.m.page[s.m.pg].cells, 1, n)]
Take(s) ==
    LET n == Min({s.d.size - s.d.blk, Rem(s.m)})
    IN  [s EXCEPT !.m.off = @ + n, !.d.blk = @ + n,
                  !.d.parts = @ \o SubSeq(s.m.page[s.m.pg].cells, s.m.off + 1, s.m.off + n)]
AtEnd(s) == s.d.blk = s.d.size
TakeOn(s, i) ==
    LET t == [s EXCEPT !.m = RotatePage(@)]
    IN  IF AtEnd(s) \/ s.wait THEN s
        ELSE IF PageHere(t.m) THEN Take(t) ELSE [t EXCEPT !.wait = TRUE]
Consume(m, d) ==
    LET s == FoldLeft(TakeOn, Take([m |-> m, d |-> d, wait |-> FALSE]),
                      [i \in 1 .. d.size |-> i])
    IN  IF AtEnd(s) /\ Rem(s.m) = 0 THEN [s EXCEPT !.m = RotatePage(@)] ELSE s

\* consume_filler()
PastFiller(m) == LET one == [m EXCEPT !.off = @ + 1]
                 IN  IF Rem(one) = 0 THEN RotatePage(one) ELSE one

\* decode() compares the tail with the header.
TailFits(d) == LET t == d.parts[d.size] IN t.rid = d.rid /\ t.part = d.size

-----------------------------------------------------------------------------
(* The steps of read_data_record().                                        *)

Readonly == op.pc = "readonly"
RdAt(pc) == load.pc = pc /\ fault = "none" /\ rm.err = "none"
LoadAt(pc) == load' = [load EXCEPT !.pc = pc]
Fails(res) == load' = [load EXCEPT !.pc = "done", !.res = res]
UserVars == <<oooRids, lastRead, recovered>>

\* The end of what was written: what is cached is flushed first.
AtEmpty(m, next) ==
    \/ cached > 0 /\ load' = [load EXCEPT !.pc = "flush", !.next = next]
    \/ cached = 0 /\ Events(m) /\ LoadAt(next)
    \/ cached = 0 /\ ~Events(m) /\ Fails("EMPTY")

AtItsEnd(m) == m.valid /\ m.fhdr = "none" /\ Exhausted(m)

\* A record left half read or half skipped is gone on with first.
ReadEntry == IF dtok.rst = "UNREAD" THEN "loop" ELSE "part"

\* pre_read_check()
PreReadCheck ==
    /\ RdAt("read")
    /\ \E got \in {GetEvents(rm)} : \E on \in {IF AtItsEnd(got) THEN AioCycle(got) ELSE got} :
           /\ ~on.blocked
           /\ rm' = on
           /\ \/ ~got.valid /\ ~load.again /\ LoadAt("sync")
              \/ ~got.valid /\ load.again /\ Fails("RCINVALID")
              \/ got.valid /\ got.fhdr # "none" /\ LoadAt("read")
              \/ AtItsEnd(got) /\ Exhausted(on) /\ AtEmpty(on, ReadEntry)
              \/ got.valid /\ got.fhdr = "none" /\ ~(Exhausted(got) /\ Exhausted(on)) /\ LoadAt(ReadEntry)
    /\ UNCHANGED <<rvars, dtok, UserVars>>

\* synchronize(), then wait_for_validity().
Synchronize ==
    /\ RdAt("sync")
    /\ \E m \in {IF rm.valid THEN rm ELSE AioCycle(rm)} :
           /\ ~m.blocked
           /\ rm' = m
           /\ IF m.valid \/ m.fhdr # "none" THEN LoadAt("validity") ELSE Fails("EMPTY")
    /\ UNCHANGED <<rvars, dtok, UserVars>>
WaitForValidity ==
    /\ RdAt("validity")
    /\ \E m \in {IF rm.valid THEN rm ELSE GetEvents(rm)} :
           /\ ~m.blocked
           /\ rm' = m
           /\ load' = IF m.valid THEN [load EXCEPT !.pc = "read", !.again = TRUE] ELSE load
    /\ UNCHANGED <<rvars, dtok, UserVars>>

\* jcntl::flush(), called by the reader.
ReaderFlush ==
    /\ load.pc = "flush"
    /\ CallFlush
    /\ LoadAt("flushed")
    /\ UNCHANGED <<diskVars, log, lifeVars, rm, dtok, UserVars>>
ReaderFlushed ==
    /\ load.pc = "flushed" /\ op.kind # "flush"
    /\ LoadAt(load.next)
    /\ UNCHANGED <<rvars, rm, dtok, UserVars>>

\* PAGE_AIOWAIT: the users take write events, or sleep, and call again.
CallAgain == load' = [load EXCEPT !.pc = "read", !.again = FALSE]
NotYet == \E m \in {AioCycle(rm)} : ~m.blocked /\ rm' = m /\ CallAgain /\ UNCHANGED dtok

\* The top of the loop over the records.
LoopCheck ==
    /\ RdAt("loop")
    /\ \E on \in {IF Exhausted(rm) THEN AioCycle(rm) ELSE rm} :
           /\ ~on.blocked
           /\ rm' = on
           /\ IF Exhausted(rm) /\ Exhausted(on) THEN AtEmpty(on, "page") ELSE LoadAt("page")
    /\ UNCHANGED <<rvars, dtok, UserVars>>

\* A record that was read whole is for the caller to look at, one that was skipped
\* is forgotten.  One that is not skipped whole is left for the next call, or, when
\* the skip has just begun, for the loop: consume_xid_rec() does not return it.
ReadOrSkip(d, read, partly) == \E s \in {Consume(rm, d)} :
    /\ ~s.m.blocked
    /\ rm' = s.m
    /\ dtok' = IF AtEnd(s) THEN IF read THEN [s.d EXCEPT !.rst = "READ"] ELSE NewDtok
               ELSE IF read THEN [s.d EXCEPT !.rst = "READ_PART"]
               ELSE [s.d EXCEPT !.rst = "SKIP_PART", !.rid = NoRid, !.parts = <<>>]
    /\ IF ~AtEnd(s) THEN IF read \/ partly = "read" THEN CallAgain ELSE LoadAt(partly)
       ELSE IF ~read THEN LoadAt("loop")
       ELSE IF TailFits(s.d) THEN LoadAt("got") ELSE Fails("BADRECTAIL")

GoOn ==
    /\ RdAt("part")
    /\ IF ~PageHere(rm) THEN NotYet
       ELSE ReadOrSkip(dtok, dtok.rst = "READ_PART", "read")
    /\ UNCHANGED <<rvars, UserVars>>

\* Whether a record in the file is to be read, may not be yet, or is gone.
TxnRead(r) == \E x \in Xids : \E t \in Entries(x) : IF t.enq THEN t.rid = r ELSE t.drid = r
\* Mutant of IsEnq: the transaction map is not searched.
IsEnq_MapOnly(r) == InEmap(r) /\ ~emap[r].lock
IsEnq(r) == IF InEmap(r) /\ ~emap[r].lock THEN TRUE ELSE TxnRead(r)
TxPending(r) == ~Readonly /\ (IF InEmap(r) THEN emap[r].lock ELSE TxnRead(r))

Header == rm.page[rm.pg].cells[rm.off + 1]
NewPart(c) == [NewDtok EXCEPT !.rid = c.rid, !.size = c.size]

ReadRecord ==
    /\ RdAt("page")
    /\ IF ~PageHere(rm) THEN NotYet
       ELSE LET c == Header
                begins == c.kind \in Kinds /\ c.part = 1
                pending == c.kind = "enq" /\ TxPending(c.rid)
            IN
            \/ /\ begins /\ pending
               /\ Fails("TXPENDING") /\ UNCHANGED <<rm, dtok>>
            \/ /\ begins /\ ~pending
               /\ ReadOrSkip(NewPart(c), c.kind = "enq" /\ IsEnq(c.rid), "loop")
            \/ /\ c.kind = "filler"
               /\ \E m \in {PastFiller(rm)} : ~m.blocked /\ rm' = m
               /\ LoadAt("loop") /\ UNCHANGED dtok
            \/ /\ c.kind # "filler" /\ ~begins
               /\ Fails("EMPTY") /\ UNCHANGED <<rm, dtok>>
    /\ UNCHANGED <<rvars, UserVars>>

-----------------------------------------------------------------------------
(* loadMsgContent(), of a message that is_enqueued() and whose enqueue has *)
(* returned.                                                               *)

Invalidate(m) == [m EXCEPT !.valid = FALSE]

Load(r) ==
    /\ load.pc = "idle" /\ ~Readonly /\ fault = "none"
    /\ InEmap(r) /\ ~emap[r].lock /\ op.rid # r
    /\ IF dtok.rid = r
       THEN /\ load' = [NoLoad EXCEPT !.pc = "done", !.want = r, !.res = "ok"]
            /\ UNCHANGED <<rm, dtok, oooRids>>
       ELSE /\ load' = [NoLoad EXCEPT !.pc = "read", !.want = r]
            /\ LET back == r \in oooRids \/ r < lastRead
               IN  /\ rm' = IF back THEN Invalidate(rm) ELSE rm
                   /\ oooRids' = IF back THEN {} ELSE oooRids
            /\ dtok' = NewDtok
    /\ UNCHANGED <<rvars, lastRead, recovered>>

LoadGot ==
    /\ load.pc = "got" /\ ~Readonly
    /\ IF dtok.rid = load.want
       THEN /\ load' = [load EXCEPT !.pc = "done", !.res = "ok"]
            /\ lastRead' = dtok.rid
            /\ UNCHANGED <<dtok, oooRids>>
       ELSE /\ CallAgain
            /\ oooRids' = IF dtok.rid > load.want THEN oooRids \cup {dtok.rid} ELSE oooRids
            /\ dtok' = NewDtok
            /\ UNCHANGED lastRead
    /\ UNCHANGED <<rvars, rm, recovered>>

\* Bound: a load that fails leaves the reader past records that lastReadRid and
\* oooRidList do not name, which later loads then do not find; none is followed.
LoadReturns ==
    /\ load.pc = "done" /\ ~Readonly /\ load.res = "ok"
    /\ load' = NoLoad
    /\ UNCHANGED <<rvars, rm, dtok, UserVars>>

-----------------------------------------------------------------------------
(* recoverMessages(), which ends at EMPTY.                                 *)

RecoverGot ==
    /\ load.pc = "got" /\ Readonly
    /\ recovered' = Append(recovered, dtok.rid)
    /\ dtok' = NewDtok
    /\ CallAgain
    /\ UNCHANGED <<rvars, rm, oooRids, lastRead>>

ReadAllAndComplete ==
    /\ load.pc = "done" /\ load.res = "EMPTY"
    /\ RecoverComplete
    /\ rm' = NewReader(rcvdat.ffid)
    /\ dtok' = NewDtok /\ load' = NoLoad /\ recovered' = <<>>
    /\ UNCHANGED <<oooRids, lastRead>>

-----------------------------------------------------------------------------
(* What the writers do to the reader, and the kernel.                      *)

\* The files on which a step of the holder of the mutex calls fcntl::reset().
ResetFiles ==
    LET next == After(ring.idx, 1)
    IN  {f \in Files :
            \/ f = ring.idx /\ op.pc = "check" /\ ~OtherBusy /\ ~ring.resetOk
            \/ f = next /\ op.pc = "reap" /\ pgCntr >= FilePages /\ file[next].aio = 0
            \/ f = ring.idx /\ op.pc = "wait" /\ op.res = "FILE_AIOWAIT" /\ op'.pc # "exit"}

\* Mutant of AfterHolder: the reader is not told that its file is entered.
AfterHolder_Untold(m) ==
    [m EXCEPT !.subm = [f \in Files |-> IF f \in ResetFiles THEN 0 ELSE @[f]],
              !.cmpl = [f \in Files |-> IF f \in ResetFiles THEN 0 ELSE @[f]]]
\* chk_wr_frot()
AfterHolder(m) ==
    LET reset == [m EXCEPT !.subm = [f \in Files |-> IF f \in ResetFiles THEN 0 ELSE @[f]],
                           !.cmpl = [f \in Files |-> IF f \in ResetFiles THEN 0 ELSE @[f]]]
    IN  IF ring'.idx # ring.idx /\ ring'.idx = m.fid THEN Invalidate(reset) ELSE reset

\* Files with reads that are under way or to be taken, or a record half read.
FilesRead == {rm.page[p].rfh : p \in {q \in DOMAIN rm.page : rm.page[q].io # "none"}}
             \cup {f \in {rm.fid} : rm.fhdr # "none" \/ dtok.rst \in {"READ_PART", "SKIP_PART"}}
FilesEntered == ResetFiles \cup {f \in {ring'.idx} : ring'.idx # ring.idx}

WriterStep ==
    /\ \/ EncodeCells \/ RecordLogged \/ HeaderOrNot \/ FlushCells \/ NoWrite
       \/ \E i \in DOMAIN unwritten : Written(i)
       \/ \E x \in Xids : Prepare(x)
    /\ (Overtakes \/ FilesEntered \cap FilesRead = {})
    /\ rm' = IF op' # op THEN AfterHolder(rm) ELSE rm
    /\ UNCHANGED <<dtok, load, UserVars>>

\* A read is served: what is on disk then is in the page.
KernelRead ==
    /\ \/ \E p \in ReadsOut(rm, "out") :
            LET q == rm.page[p] IN
            rm' = [rm EXCEPT !.page[p] = [q EXCEPT !.io = "done",
                      !.cells = [i \in 1 .. RdPageDblks |->
                          IF i <= q.n THEN disk[q.rfh].data[q.at + i] ELSE @[i]]]]
       \/ rm.fhdr = "out" /\ rm' = [rm EXCEPT !.fhdr = "done", !.fro = disk[rm.fid].hdr.fro]
    /\ UNCHANGED <<rvars, dtok, load, UserVars>>

\* The broker is killed; after the analysis recoverMessages() starts.  Bound: what
\* the reader was doing is lost with it, so only crashes before it begins are followed.
CrashReader ==
    /\ rm = NewReader(rm.fid) /\ load = NoLoad
    /\ Crash
    /\ rm' = NewReader(rcvdat'.ffid)
    /\ dtok' = NewDtok
    /\ load' = IF fault' = "none" THEN [NoLoad EXCEPT !.pc = "read"] ELSE NoLoad
    /\ oooRids' = {} /\ lastRead' = NoRid /\ recovered' = <<>>

ReaderStep == \/ PreReadCheck \/ Synchronize \/ WaitForValidity \/ ReaderFlush \/ ReaderFlushed
              \/ LoopCheck \/ GoOn \/ ReadRecord
              \/ LoadGot \/ LoadReturns \/ RecoverGot \/ ReadAllAndComplete

RdInit == RInit /\ rm = NewReader(0) /\ dtok = NewDtok /\ load = NoLoad
          /\ oooRids = {} /\ lastRead = NoRid /\ recovered = <<>>
RdNext == ReaderStep \/ (\E r \in Rids : Load(r)) \/ WriterStep \/ KernelRead \/ CrashReader
RdSpec == RdInit /\ [][RdNext]_allvars

-----------------------------------------------------------------------------
(* Properties.                                                             *)

\* Content that is returned is that of the record asked for, whole and in order.
RightContent == load.pc = "done" /\ load.res = "ok" =>
    /\ dtok.rid = load.want
    /\ \A i \in DOMAIN dtok.parts : dtok.parts[i].rid = load.want /\ dtok.parts[i].part = i
    /\ Len(dtok.parts) = dtok.parts[1].size

\* A load of a message that stays enqueued does not run past it to the end of the
\* journal, nor into the middle of another record, wherever the writers are: it
\* ends with the message, unless the writers entered the reader's file between its
\* two checks or a record before it is locked by a transaction.
LoadFinds == load.pc = "done" /\ ~Readonly /\ InEmap(load.want) /\ ~emap[load.want].lock =>
    load.res \in {"ok", "RCINVALID", "TXPENDING"}

\* recoverMessages() is given every message of the journal, also those an open
\* transaction enqueued or will dequeue, once, and nothing else.
RecoversMessages == load.pc = "done" /\ Readonly =>
    LET held == {r \in Rids : InEmap(r)} \cup {t.rid : t \in UNION {EnqsOf(x) : x \in Xids}}
    IN  /\ load.res = "EMPTY"
        /\ Range(recovered) = held /\ Len(recovered) = Cardinality(held)

\* The read counters of a file never pass its write counters (fcntl throws
\* RDOFFSOVFL and CMPLOFFSOVFL), although the writer resets both under the reader.
ReaderSound == rm.err = "none"
=============================================================================
