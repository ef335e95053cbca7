-------------------------- MODULE JournalImplProofs --------------------------
(***************************************************************************)
(* Proofs about module JournalImpl, for any number of threads, files,      *)
(* pages and records: the broker's threads, the timer and stop() drive the *)
(* writer only as module Wmgr allows, so that what is proved of it holds   *)
(* here; between the unprotected accesses to the flags nothing accepted is *)
(* left to nobody; and a journal that was stopped has all of it on disk.   *)
(***************************************************************************)
EXTENDS JournalImpl, WmgrRingProofs

-----------------------------------------------------------------------------
(* The journal drives the writer.                                          *)

\* A step of the threads is a step of the writer, or leaves it alone.
LEMMA StepsOfWriter == [JNext]_jvars => [Next]_vars
<1> SUFFICES ASSUME [JNext]_jvars PROVE [Next]_vars
  OBVIOUS
<1>1. CASE BrokerCall
  BY <1>1 DEF BrokerCall, Next, Caller
<1>2. CASE HolderStep(Holder) \/ HolderStep(WaitTimeout)
  BY <1>2 DEF HolderStep, Next
<1>3. CASE Collect
  BY <1>3 DEF Collect, Next, Kernel
<1>4. CASE TimerThread
  BY <1>4 DEF TimerThread, FlushFire, SawActivity, TimerFlush, TimerFlushed, Triggered,
              EventsFire, EventsFired, Next, Caller
<1>5. CASE Stop \/ Stopping
  BY <1>5 DEF Stop, Stopping, StopFlush, Drained, Next, Caller
<1>6. CASE HandleIoResult \/ BrokerFlushed
  BY <1>6 DEF HandleIoResult, BrokerFlushed
<1>7. CASE UNCHANGED jvars
  BY <1>7 DEF jvars
<1> QED BY <1>1, <1>2, <1>3, <1>4, <1>5, <1>6, <1>7 DEF JNext

\* Whatever the broker's threads, the timer and stop() do, under _wr_mutex they
\* only call jcntl and go on with the calls as module Wmgr says, so that each of
\* its theorems is one of this module's specification too.
THEOREM DrivesWriter == JSpec => Spec
<1>1. JInit => Init
  BY DEF JInit
<1>2. [JNext]_jvars => [Next]_vars
  BY StepsOfWriter
<1> QED BY <1>1, <1>2, PTL DEF JSpec, Spec

-----------------------------------------------------------------------------
(* Where accepted records are.                                            *)

\* A record that was accepted and not reported is being written, or on the page
\* that is being filled.
LEMMA WhereSubmitted ==
    ASSUME AioInv, CopyInv, NEW r \in Rids, tok[r].st = "SUBM", evtRem = 0
    PROVE  cached > 0 /\ r \in page[pgIndex].toks
<1>1. /\ TypeOK /\ PageUse /\ CurrentUse
      /\ evtRem = Cardinality(Out) + Cardinality(HeadersOut)
  BY DEF AioInv, MapsInv, UseInv, CopyInv, AioAccounted, Out, HeadersOut
<1>2. tok[r].pgs = Cardinality(PagesOf(r)) /\ tok[r].pgs > 0
  <2>1. TokenPages(r)
    BY DEF AioInv, AioAccounted
  <2> QED BY <2>1 DEF TokenPages, PagesOf
<1>3. PagesOf(r) # {}
  BY <1>2, FS_EmptySet
<1>4. Out = {}
  <2>1. IsFiniteSet(Out) /\ IsFiniteSet(HeadersOut)
    BY <1>1, WritesFinite
  <2>2. Cardinality(Out) \in Nat /\ Cardinality(HeadersOut) \in Nat
    BY <2>1, FS_CardinalityType
  <2>3. Cardinality(Out) = 0
    <3> DEFINE a == Cardinality(Out)
               b == Cardinality(HeadersOut)
    <3>1. a \in Nat /\ b \in Nat /\ a + b = 0
      BY <1>1, <2>2
    <3> HIDE DEF a, b
    <3>2. a = 0
      BY <3>1
    <3> QED BY <3>2 DEF a
  <2> QED BY <2>1, <2>3, FS_EmptySet
<1>5. PICK p \in Pages : r \in page[p].toks
  BY <1>3 DEF PagesOf
<1>6. page[p].st \in {"UNUSED", "IN_USE", "AIO_PENDING"}
  BY <1>1 DEF TypeOK, PageTypes, PageType
<1>7. page[p].st = "IN_USE" /\ p = pgIndex
  BY <1>1, <1>4, <1>5, <1>6 DEF PageUse, Out
<1> QED BY <1>1, <1>5, <1>7 DEF CurrentUse

-----------------------------------------------------------------------------
(* The threads.                                                            *)

ThreadTypes ==
    /\ timer \in {"idle", "active", "flush", "flushing", "set", "triggered", "events"}
    /\ owner \in {"none", "broker", "timer", "stop"}
    /\ returned \in Nat /\ flushed \in BOOLEAN
    /\ life \in {"up", "stopping", "draining", "stopped"}

\* Somebody holds the mutex exactly while a call is under way; the timer and
\* stop() only flush.
OwnerInv ==
    /\ owner = "none" <=> op.pc = "idle"
    /\ owner = "timer" <=> timer = "flushing"
    /\ owner \in {"timer", "stop"} => op.kind = "flush"
    /\ owner = "stop" => life = "stopping"

\* Once stop() has been called only it and the events timer act, and after its
\* flush nothing is left in the cache.
LifeInv ==
    /\ life # "up" => /\ timer \in {"idle", "events"} /\ owner \in {"none", "stop"}
                      /\ returned = 0 /\ ~flushed
    /\ life \in {"draining", "stopped"} => owner = "none" /\ cached = 0
    /\ life = "stopped" => evtRem = 0

\* The inactivity timer is going to flush: there was activity, or there is none it
\* has not seen, and it is not about to say that it has flushed already.
WillFlush ==
    \/ writeActivityFlag \/ returned > 0
    \/ ~flushTriggeredFlag /\ timer \notin {"set", "triggered"}
    \/ timer \in {"active", "flush", "flushing"}
    \/ life # "up"

\* The call of the broker under way comes to handleIoResult() when it is done.
Reports == owner = "broker" /\ op.kind \in Kinds /\ op.res \notin Thrown

\* What is in the cache will be flushed, or is all of the call under way.
CachedInv == cached > 0 =>
    WillFlush \/ (Reports /\ op.pc # "check" /\ page[pgIndex].toks \subseteq {op.rid})

\* What was accepted will be reported, or is accepted by the call under way.
Accepted == \E r \in Rids : tok[r].st = "SUBM"
ReportInv == Accepted => WillFlush \/ ToBeCollected \/ (Reports /\ op.done)

ThreadInv == ThreadTypes /\ OwnerInv /\ LifeInv /\ CachedInv /\ (~SlowDisk => ReportInv)
JInv == AioInv /\ CopyInv /\ ThreadInv

-----------------------------------------------------------------------------
(* What a step of a call does to the cache, and to its own report.         *)

\* Dblks come into the cache only from the record of the call under way; as long
\* as they are there the call neither starts again nor ends in an exception.
CacheGoes == cached' > 0 =>
    \/ /\ op.pc = "encode" /\ op'.pc \notin {"idle", "check"} /\ op'.res = "SUCCESS"
       /\ op.kind \in Kinds /\ (cached = 0 => page[pgIndex].toks = {})
       /\ page'[pgIndex'].toks = page[pgIndex].toks \cup {op.rid}
    \/ /\ cached' = cached /\ page'[pgIndex'].toks = page[pgIndex].toks
       /\ op.pc # "check" /\ op'.pc # "idle" =>
              op'.pc # "check" /\ (op'.res = op.res \/ op'.res \notin Thrown)

\* A call whose record is whole goes on to its end, unless it waits for a file
\* longer than it may.
DoneGoes ==
    /\ Accepted' => Accepted \/ op.pc = "complete"
    /\ op.pc = "complete" => op.kind \in Kinds /\ op'.done /\ op'.res = "SUCCESS"
    /\ ~SlowDisk /\ op.kind \in Kinds /\ op.done /\ op'.pc # "idle" =>
           op'.done /\ (op'.res = op.res \/ op'.res \notin Thrown)

CallGoes ==
    /\ fault = "none" /\ op.pc # "idle"
    /\ IF op'.pc = "idle" THEN op.pc \in {"exit", "wait"} /\ cached' = cached
                          ELSE op'.kind = op.kind /\ op'.rid = op.rid
    /\ CacheGoes /\ DoneGoes

\* Steps that copy and submit nothing, and that no record becomes whole by.
LEMMA GoesOn ==
    ASSUME fault = "none", op.pc \notin {"idle", "complete"}, op'.pc # "idle",
           op'.kind = op.kind, op'.rid = op.rid, op'.done = op.done, tok' = tok,
           op'.res = op.res \/ op'.res \notin Thrown,
           cached' = cached, pgIndex' = pgIndex, op.pc # "check" => op'.pc # "check",
           page'[pgIndex].toks = page[pgIndex].toks
    PROVE  CallGoes
BY DEF CallGoes, CacheGoes, DoneGoes, Accepted

\* The checks.
LEMMA CheckGoes == AioInv /\ CopyInv /\ Check => CallGoes
<1> SUFFICES ASSUME AioInv, CopyInv, Check PROVE CallGoes
  OBVIOUS
<1>1. /\ TypeOK /\ op \in OpType /\ MapInv /\ fault = "none" /\ op.pc = "check" /\ ~op.done
      /\ UNCHANGED <<tok, cached, pgIndex>> /\ pgIndex \in Pages
      /\ page' = page \/ page' = OpenPage(page)
  BY DEF AioInv, MapsInv, MapInv, TokInv, CallInv, TypeOK, CallTypes, PageTypes, Check, CheckBusy,
         CheckFull, CheckPage, CheckRefused, CheckOk, PageChecked, FileChecked, At, pageVars
<1>2. /\ op'.kind = op.kind /\ op'.rid = op.rid /\ op'.pc \in {"encode", "exit"}
  <2>1. CASE CheckOk
    <3>1. op' = [op EXCEPT !.pc = "encode"]
      BY <2>1 DEF CheckOk, Goto
    <3> QED BY <1>1, <3>1, OpAfter
  <2>2. CASE ~CheckOk
    <3>1. PICK res : op' = [op EXCEPT !.pc = "exit", !.res = res]
      BY <2>2 DEF Check, CheckBusy, CheckFull, CheckPage, CheckRefused, Return
    <3> QED BY <1>1, <3>1, OpAfter
  <2> QED BY <2>1, <2>2
<1>3. page'[pgIndex].toks = page[pgIndex].toks
  BY <1>1, OpensPage DEF PageOpened
<1> QED BY <1>1, <1>2, <1>3 DEF CallGoes, CacheGoes, DoneGoes, Accepted

\* A turn of the copy loop.
LEMMA EncodeGoes == AioInv /\ CopyInv /\ Encode => CallGoes
<1> SUFFICES ASSUME AioInv, CopyInv, Encode PROVE CallGoes
  OBVIOUS
<1>1. /\ TypeOK /\ PageInv /\ CurrentUse /\ MapInv /\ op \in OpType /\ fault = "none"
      /\ op.pc = "encode" /\ op.res = "SUCCESS" /\ ~op.done /\ pgIndex' = pgIndex
      /\ page \in [Pages -> PageType] /\ pgIndex \in Pages /\ tok \in [Rids -> TokType]
      /\ page' = [page EXCEPT ![pgIndex].toks = @ \cup {op.rid}]
  BY DEF AioInv, MapsInv, MapInv, TokInv, CallInv, CopyInv, ResultInv, TypeOK, CallTypes,
         PageTypes, Encode, At
<1>2. op.kind \in Kinds /\ op.rid \in Rids /\ T = tok[op.rid]
  BY <1>1, OpKinds DEF T
<1>3. PICK pc \in {"complete", "header"} : op' = [op EXCEPT !.pc = pc]
  BY DEF Encode, Goto
<1>4. op'.pc \in {"complete", "header"} /\ op'.kind = op.kind /\ op'.rid = op.rid
      /\ op'.res = "SUCCESS"
  BY <1>1, <1>3, OpAfter
<1>5. page'[pgIndex'].toks = page[pgIndex].toks \cup {op.rid}
  BY <1>1 DEF PageType
<1>6. cached = 0 => page[pgIndex].toks = {}
  BY <1>1 DEF PageInv, CurrentUse
<1>7. Accepted' => Accepted
  <2>1. PICK fid, written, pgs, span, st : /\ st \in {T.st, "PART"}
            /\ tok' = [tok EXCEPT ![op.rid] = [T EXCEPT !.fid = fid, !.written = written,
                           !.pgs = pgs, !.span = span, !.st = st]]
    BY DEF Encode
  <2>2. tok'[op.rid].st = st /\ \A r \in Rids \ {op.rid} : tok'[r] = tok[r]
    BY <1>1, <1>2, <2>1 DEF TokType
  <2> QED BY <1>2, <2>1, <2>2 DEF Accepted
<1> QED BY <1>1, <1>2, <1>4, <1>5, <1>6, <1>7 DEF CallGoes, CacheGoes, DoneGoes

\* The record is whole.
LEMMA RecordGoes == AioInv /\ CopyInv /\ Record => CallGoes
<1> SUFFICES ASSUME AioInv, CopyInv, Record PROVE CallGoes
  OBVIOUS
<1>1. /\ Recorded /\ TypeOK /\ op \in OpType /\ fault = "none" /\ op.pc = "complete"
      /\ op.res = "SUCCESS" /\ UNCHANGED <<page, cached, pgIndex>>
      /\ op' = [op EXCEPT !.pc = "header", !.done = TRUE]
  BY DEF AioInv, MapsInv, CopyInv, ResultInv, TypeOK, CallTypes, Record, EnqueueTxn,
         EnqueueNonTxn, DequeueTxn, DequeueNonTxn, AbortTxn, CommitTxn, CloseTxn, Recorded, At,
         pageVars
<1>2. op'.pc = "header" /\ op'.kind = op.kind /\ op'.rid = op.rid /\ op'.res = op.res /\ op'.done
  BY <1>1, OpAfter, OpDone
<1>3. op.kind \in Kinds
  BY <1>1, OpKinds
<1> QED BY <1>1, <1>2, <1>3 DEF CallGoes, CacheGoes, DoneGoes

\* file_header_check().
LEMMA HeaderGoes == AioInv /\ CopyInv /\ FileHeaderCheck => CallGoes
<1> SUFFICES ASSUME AioInv, CopyInv, FileHeaderCheck PROVE CallGoes
  OBVIOUS
<1>1. /\ op \in OpType /\ fault = "none" /\ op.pc = "header"
      /\ UNCHANGED <<page, cached, pgIndex, tok>>
  BY DEF AioInv, MapsInv, TypeOK, CallTypes, FileHeaderCheck, At
<1>2. PICK pc \in {"flush", "exit"} : op' = [op EXCEPT !.pc = pc]
  BY DEF FileHeaderCheck, Goto
<1>3. /\ op'.pc = pc /\ op'.kind = op.kind /\ op'.rid = op.rid /\ op'.res = op.res
      /\ op'.done = op.done
  BY <1>1, <1>2, OpAfter, OpDone
<1> QED BY <1>1, <1>2, <1>3, GoesOn

\* write_flush().
LEMMA WriteFlushGoes == AioInv /\ CopyInv /\ WriteFlush => CallGoes
<1> SUFFICES ASSUME AioInv, CopyInv, WriteFlush PROVE CallGoes
  OBVIOUS
<1>1. op \in OpType /\ PageInv /\ fault = "none" /\ op.pc = "flush" /\ tok' = tok
  BY DEF AioInv, MapsInv, TypeOK, CallTypes, WriteFlush, At
<1>2. ~(cached > 0 /\ PageBlocked)
  BY <1>1 DEF PageInv, PageBlocked
<1>3. op' = [op EXCEPT !.pc = "reap", !.res = op.res]
  BY <1>2 DEF WriteFlush
<1>4. /\ op'.pc = "reap" /\ op'.kind = op.kind /\ op'.rid = op.rid /\ op'.res = op.res
      /\ op'.done = op.done
  BY <1>1, <1>3, OpAfter, OpDone
<1>5. CASE UNCHANGED pageVars
  BY <1>1, <1>4, <1>5, GoesOn DEF pageVars
<1>6. CASE ~UNCHANGED pageVars
  <2>1. cached' = 0
    BY <1>6 DEF WriteFlush, SubmitPage
  <2> QED BY <1>1, <1>4, <2>1 DEF CallGoes, CacheGoes, DoneGoes, Accepted
<1> QED BY <1>5, <1>6

\* flush_check().
LEMMA FlushCheckGoes == AioInv /\ CopyInv /\ FlushCheck => CallGoes
<1> SUFFICES ASSUME AioInv, CopyInv, FlushCheck PROVE CallGoes
  OBVIOUS
<1>1. /\ TypeOK /\ op \in OpType /\ fault = "none" /\ op.pc = "reap"
      /\ UNCHANGED <<cached, pgIndex, tok>> /\ page' = OpenPage(page) /\ pgIndex \in Pages
  BY DEF AioInv, MapsInv, TypeOK, CallTypes, PageTypes, FlushCheck, At
<1>2. RotateResult(ring, file) \in {"SUCCESS", "FILE_AIOWAIT", "FULL"}
  BY DEF RotateResult
<1>3. PICK pc \in {"exit", "encode"}, res \in {op.res, "FILE_AIOWAIT", "FULL", "PAGE_AIOWAIT"} :
          op' = [op EXCEPT !.pc = pc, !.res = res]
  <2> DEFINE pageWait == PageBlocked /\ ~op.done
             rotate   == pgCntr >= FilePages
             rotated  == RotateResult(ring, file)
             res      == IF rotate /\ rotated # "SUCCESS" THEN rotated
                         ELSE IF pageWait THEN "PAGE_AIOWAIT" ELSE op.res
             stop     == op.done \/ pageWait \/ (rotate /\ rotated # "SUCCESS")
             pc       == IF stop THEN "exit" ELSE "encode"
  <2>1. op' = [op EXCEPT !.pc = pc, !.res = res]
    BY DEF FlushCheck
  <2>2. pc \in {"exit", "encode"} /\ res \in {op.res, "FILE_AIOWAIT", "FULL", "PAGE_AIOWAIT"}
    BY <1>2
  <2> HIDE DEF pc, res
  <2> QED BY <2>1, <2>2
<1>4. /\ op'.pc = pc /\ op'.kind = op.kind /\ op'.rid = op.rid /\ op'.res = res
      /\ op'.done = op.done
  BY <1>1, <1>3, OpAfter, OpDone
<1>5. page'[pgIndex].toks = page[pgIndex].toks
  BY <1>1, OpensPage DEF PageOpened
<1>6. op'.res = op.res \/ op'.res \notin Thrown
  BY <1>3, <1>4 DEF Thrown
<1> QED BY <1>1, <1>3, <1>4, <1>5, <1>6, GoesOn

\* The end of a call.
LEMMA ExitGoes == AioInv /\ CopyInv /\ Exit => CallGoes
<1> SUFFICES ASSUME AioInv, CopyInv, Exit PROVE CallGoes
  OBVIOUS
<1>1. /\ op \in OpType /\ fault = "none" /\ op.pc = "exit" /\ tok \in [Rids -> TokType]
      /\ UNCHANGED <<page, cached, pgIndex>>
  BY DEF AioInv, MapsInv, TypeOK, CallTypes, Exit, At, pageVars
<1>2. CASE op' = [op EXCEPT !.pc = "wait"] /\ tok' = tok
  <2>1. /\ op'.pc = "wait" /\ op'.kind = op.kind /\ op'.rid = op.rid /\ op'.res = op.res
        /\ op'.done = op.done
    BY <1>1, <1>2, OpAfter, OpDone
  <2> QED BY <1>1, <1>2, <2>1, GoesOn
<1>3. CASE op' = NoOp
  <2>1. op'.pc = "idle"
    BY <1>3 DEF NoOp
  <2>2. Accepted' => Accepted
    BY <1>1 DEF Accepted, Exit, NoTok
  <2> QED BY <1>1, <2>1, <2>2 DEF CallGoes, CacheGoes, DoneGoes
<1> QED BY <1>2, <1>3 DEF Exit, Goto

\* A call that waits has nothing cached; one whose record is whole does not start
\* again, and it does not give up unless the disk lags a turn of the ring behind.
LEMMA WaitGoes == AioInv /\ CopyInv /\ (Wait \/ WaitTimeout) => CallGoes
<1> SUFFICES ASSUME AioInv, CopyInv, Wait \/ WaitTimeout PROVE CallGoes
  OBVIOUS
<1>1. /\ TypeOK /\ op \in OpType /\ CallInv /\ fault = "none" /\ op.pc = "wait" /\ cached = 0
      /\ UNCHANGED <<page, cached, pgIndex, tok>>
  BY DEF AioInv, MapsInv, MapInv, TokInv, CopyInv, ResultInv, FlushedOut, TypeOK, CallTypes,
         Wait, WaitPage, WaitFile, WaitTimeout, At, pageVars
<1>2. op.kind \in Kinds
  BY <1>1, OpKinds
<1>3. CASE op' = NoOp
  <2>1. op'.pc = "idle"
    BY <1>3 DEF NoOp
  <2> QED BY <1>1, <2>1 DEF CallGoes, CacheGoes, DoneGoes, Accepted
<1>4. CASE op' # NoOp
  <2>1. \/ op' = [NoOp EXCEPT !.pc = "check", !.kind = op.kind, !.rid = op.rid]
           /\ (op.res = "PAGE_AIOWAIT" \/ T.st = "PART")
        \/ op' = [op EXCEPT !.pc = "exit", !.res = "AIOCMPLWAIT"]
           /\ (SlowDisk \/ op.res = "PAGE_AIOWAIT")
    BY <1>4 DEF Wait, WaitPage, WaitFile, WaitTimeout, Start, Return
  <2>2. op'.kind = op.kind /\ op'.rid = op.rid /\ op'.pc # "idle"
    <3>1. CASE op' = [NoOp EXCEPT !.pc = "check", !.kind = op.kind, !.rid = op.rid]
      BY <3>1, OpNew
    <3>2. CASE op' = [op EXCEPT !.pc = "exit", !.res = "AIOCMPLWAIT"]
      BY <1>1, <3>2, OpAfter
    <3> QED BY <2>1, <3>1, <3>2
  <2>3. SlowDisk \/ ~op.done
    BY <1>1, <1>2, <2>1 DEF CallInv, Whole
  <2> QED BY <1>1, <2>2, <2>3 DEF CallGoes, CacheGoes, DoneGoes, Accepted
<1> QED BY <1>3, <1>4

\* Every step of the thread that holds the mutex.
LEMMA HolderGoes == AioInv /\ CopyInv /\ (Holder \/ WaitTimeout) => CallGoes
BY CheckGoes, EncodeGoes, RecordGoes, HeaderGoes, WriteFlushGoes, FlushCheckGoes, ExitGoes,
   WaitGoes DEF Holder

-----------------------------------------------------------------------------
(* What the threads do.                                                    *)

\* No thread is in the journal when it is new.
LEMMA InitThread == JInit => ThreadInv
<1> SUFFICES ASSUME JInit PROVE ThreadInv
  OBVIOUS
<1>1. ThreadTypes /\ OwnerInv /\ LifeInv
  BY DEF JInit, Init, NoOp, ThreadTypes, OwnerInv, LifeInv
<1>2. CachedInv
  BY DEF JInit, Init, CachedInv
<1>3. ReportInv
  BY DEF JInit, Init, ReportInv, Accepted, NoTok
<1> QED BY <1>1, <1>2, <1>3 DEF ThreadInv

\* The holder of the mutex goes on, and gives it back.
LEMMA HolderThread ==
    ASSUME JInv, CallGoes, NEW step, HolderStep(step)
    PROVE  ThreadInv'
<1>1. /\ TypeOK /\ ResultInv /\ ThreadTypes /\ OwnerInv /\ LifeInv /\ CachedInv /\ UNCHANGED flagVars
      /\ fault = "none" /\ op.pc # "idle" /\ owner # "none" /\ cached \in Nat
  <2>1. cached \in 0 .. pgOffset /\ pgOffset \in 0 .. PageDblks
    BY DEF JInv, AioInv, MapsInv, TypeOK, PageTypes
  <2> QED BY <2>1, SizesInNat
          DEF JInv, AioInv, MapsInv, CopyInv, ThreadInv, HolderStep, CallGoes, OwnerInv
<1>2. op.kind \in Kinds <=> owner = "broker" /\ op.kind # "flush"
  BY <1>1, OpKinds DEF OwnerInv, ThreadTypes, Kinds
<1>3. CASE op'.pc # "idle"
  <2>1. /\ UNCHANGED <<timer, owner, returned, flushed, life>>
        /\ op'.kind = op.kind /\ op'.rid = op.rid
    BY <1>3 DEF HolderStep, GivesBack, threadVars, CallGoes
  <2>2. WillFlush' <=> WillFlush
    BY <1>1, <2>1 DEF WillFlush, flagVars
  <2>3. ToBeCollected' <=> ToBeCollected
    BY <1>1, <2>1 DEF ToBeCollected, flagVars
  <2>4. ThreadTypes' /\ OwnerInv' /\ LifeInv'
    BY <1>1, <1>3, <2>1 DEF ThreadTypes, OwnerInv, LifeInv
  <2>5. CachedInv'
    <3> SUFFICES ASSUME cached' > 0, ~WillFlush
                 PROVE  Reports' /\ op'.pc # "check" /\ page'[pgIndex'].toks \subseteq {op'.rid}
      BY <2>2 DEF CachedInv
    <3>1. CASE /\ op.pc = "encode" /\ op'.pc \notin {"idle", "check"} /\ op'.res = "SUCCESS"
               /\ op.kind \in Kinds /\ (cached = 0 => page[pgIndex].toks = {})
               /\ page'[pgIndex'].toks = page[pgIndex].toks \cup {op.rid}
      <4>1. page[pgIndex].toks \subseteq {op.rid}
        BY <1>1, <3>1 DEF CachedInv
      <4> QED BY <1>2, <2>1, <3>1, <4>1 DEF Reports, Thrown
    <3>2. CASE /\ cached' = cached /\ page'[pgIndex'].toks = page[pgIndex].toks
               /\ op.pc # "check" /\ op'.pc # "idle" =>
                      op'.pc # "check" /\ (op'.res = op.res \/ op'.res \notin Thrown)
      BY <1>1, <1>3, <2>1, <3>2 DEF CachedInv, Reports
    <3> QED BY <3>1, <3>2 DEF CallGoes, CacheGoes
  <2>6. ASSUME ~SlowDisk PROVE ReportInv'
    <3> SUFFICES ASSUME Accepted', ~WillFlush, ~ToBeCollected PROVE Reports' /\ op'.done
      BY <2>2, <2>3 DEF ReportInv
    <3>1. CASE op.pc = "complete"
      BY <1>2, <2>1, <3>1 DEF CallGoes, DoneGoes, Reports, Thrown
    <3>2. CASE op.pc # "complete"
      <4>1. Reports /\ op.done
        BY <2>6, <3>2 DEF JInv, ThreadInv, ReportInv, CallGoes, DoneGoes
      <4> QED BY <1>3, <2>1, <2>6, <4>1 DEF CallGoes, DoneGoes, Reports
    <3> QED BY <3>1, <3>2
  <2> QED BY <2>4, <2>5, <2>6 DEF ThreadInv
<1>4. CASE op'.pc = "idle"
  <2>1. /\ owner' = "none" /\ cached' = cached /\ op.pc \in {"exit", "wait"}
        /\ returned' = IF op.kind # "flush" /\ op.res \notin Thrown THEN returned + 1 ELSE returned
        /\ flushed' = (flushed \/ (op.kind = "flush" /\ owner = "broker"))
        /\ timer' = IF owner = "timer" THEN "set" ELSE timer
        /\ life' = IF owner = "stop" THEN "draining" ELSE life
    BY <1>4 DEF HolderStep, GivesBack, CallGoes
  <2>2. op.kind = "flush" => cached = 0
    BY <1>1, <2>1 DEF ResultInv, FlushedOut, TypeOK, OpShape
  <2>3. ThreadTypes'
    BY <1>1, <2>1 DEF ThreadTypes
  <2>4. OwnerInv'
    BY <1>1, <1>4, <2>1 DEF OwnerInv
  <2>5. LifeInv'
    BY <1>1, <2>1, <2>2 DEF LifeInv, OwnerInv, ThreadTypes
  <2>6. WillFlush => WillFlush' \/ owner = "timer"
    BY <1>1, <2>1 DEF WillFlush, flagVars, OwnerInv, ThreadTypes
  <2>7. Reports => WillFlush'
    <3>1. ASSUME Reports PROVE returned' > 0
      BY <1>1, <2>1, <3>1 DEF Reports, Kinds, ThreadTypes
    <3> QED BY <3>1 DEF WillFlush
  <2>8. CachedInv'
    <3>1. owner = "timer" => cached = 0
      BY <1>1, <2>2 DEF OwnerInv
    <3> QED BY <1>1, <2>1, <2>6, <2>7, <3>1 DEF CachedInv
  <2>9. ASSUME ~SlowDisk PROVE ReportInv'
    <3>1. ToBeCollected => ToBeCollected'
      BY <1>1, <2>1 DEF ToBeCollected, flagVars
    <3>2. owner = "timer" => ToBeCollected'
      BY <2>1 DEF ToBeCollected
    <3>3. Accepted' => Accepted
      BY <2>1 DEF CallGoes, DoneGoes
    <3> QED BY <2>6, <2>7, <2>9, <3>1, <3>2, <3>3 DEF JInv, ThreadInv, ReportInv
  <2> QED BY <2>3, <2>4, <2>5, <2>8, <2>9 DEF ThreadInv
<1> QED BY <1>3, <1>4

\* A call starts, of the broker, of the inactivity timer or of stop().
LEMMA CallThread == JInv /\ (BrokerCall \/ TimerFlush \/ StopFlush) => ThreadInv'
<1> SUFFICES ASSUME JInv, BrokerCall \/ TimerFlush \/ StopFlush PROVE ThreadInv'
  OBVIOUS
<1>1. /\ TypeOK /\ ThreadTypes /\ OwnerInv /\ LifeInv /\ CachedInv /\ UNCHANGED flagVars
      /\ tok \in [Rids -> TokType]
  BY DEF JInv, AioInv, MapsInv, TypeOK, CallTypes, ThreadInv, BrokerCall, TimerFlush, StopFlush
<1>2. /\ op.pc = "idle" /\ op'.pc # "idle" /\ UNCHANGED <<cached, evtRem>>
      /\ TimerFlush \/ StopFlush => op'.kind = "flush"
      /\ UNCHANGED <<returned, flushed, life>>
      /\ IF TimerFlush THEN timer = "flush" /\ timer' = "flushing" /\ owner' = "timer"
         ELSE timer' = timer
      /\ BrokerCall => owner' = "broker" /\ life = "up"
      /\ StopFlush => owner' = "stop" /\ life = "stopping"
  BY DEF BrokerCall, TimerFlush, StopFlush, CallEnqueue, CallDequeue, CallEnd, NewCall, Retry,
         CallFlush, At, Start, NoOp, pageVars
<1>3. Accepted' => Accepted
  <2>1. tok' = tok \/ \E r \in Rids : \E k, x, d, n : tok' = [tok EXCEPT ![r] = NewTok(k, x, d, n)]
    BY DEF BrokerCall, TimerFlush, StopFlush, CallEnqueue, CallDequeue, CallEnd, NewCall, Retry,
           CallFlush
  <2>2. ASSUME NEW r \in Rids, NEW k, NEW x, NEW d, NEW n,
               tok' = [tok EXCEPT ![r] = NewTok(k, x, d, n)]
        PROVE  Accepted' => Accepted
    <3>1. tok'[r].st = "NONE" /\ \A s \in Rids \ {r} : tok'[s] = tok[s]
      BY <1>1, <2>2 DEF NewTok, NoTok
    <3> QED BY <3>1 DEF Accepted
  <2>3. CASE tok' = tok
    BY <2>3 DEF Accepted
  <2> QED BY <2>1, <2>2, <2>3
<1>4. ~Reports
  BY <1>1, <1>2 DEF Reports, OwnerInv
<1>5. WillFlush => WillFlush'
  BY <1>1, <1>2 DEF WillFlush, flagVars
<1>6. ToBeCollected => ToBeCollected'
  BY <1>1, <1>2 DEF ToBeCollected, flagVars
<1>7. ThreadTypes'
  BY <1>1, <1>2 DEF ThreadTypes
<1>8. OwnerInv' /\ LifeInv'
  BY <1>1, <1>2 DEF ThreadTypes, OwnerInv, LifeInv
<1> QED BY <1>1, <1>2, <1>3, <1>4, <1>5, <1>6, <1>7, <1>8
        DEF JInv, ThreadInv, CachedInv, ReportInv

\* Completions are taken: nothing that is cached, and nothing new is accepted.
LEMMA CollectThread == JInv /\ Collect => ThreadInv'
<1> SUFFICES ASSUME JInv, Collect PROVE ThreadInv'
  OBVIOUS
<1>1. /\ TypeOK /\ MapInv /\ PageInv /\ TokenUse /\ AioAccounted /\ ThreadTypes /\ OwnerInv /\ LifeInv
      /\ CachedInv /\ UNCHANGED <<flagVars, threadVars, life>>
      /\ page \in [Pages -> PageType] /\ pgIndex \in Pages /\ tok \in [Rids -> TokType]
  BY DEF JInv, AioInv, MapsInv, UseInv, TypeOK, PageTypes, CallTypes, ThreadInv, Collect
<1>2. /\ UNCHANGED <<op, cached, pgIndex>> /\ evtRem > 0
      /\ page[pgIndex].st = "IN_USE" => page'[pgIndex].toks = page[pgIndex].toks
      /\ Accepted' => Accepted
  <2>1. ASSUME NEW p \in Pages, ReapPage(p)
        PROVE  /\ UNCHANGED <<op, cached, pgIndex>> /\ evtRem > 0
               /\ page[pgIndex].st = "IN_USE" => page'[pgIndex].toks = page[pgIndex].toks
               /\ Accepted' => Accepted
    <3>1. /\ page[p].st = "AIO_PENDING" /\ page' = [page EXCEPT ![p] = FreePage]
          /\ UNCHANGED <<pgIndex, cached, op>>
          /\ tok' = [r \in Rids |-> IF r \in page[p].toks
                THEN [tok[r] EXCEPT !.pgs = @ - 1, !.st = IF r \in Arrived(p) THEN "COMPL" ELSE @]
                ELSE tok[r]]
      BY <1>1, <2>1, ReapsCleanly
    <3>2. \A r \in Rids : tok'[r].st = "COMPL" \/ tok'[r].st = tok[r].st
      BY <1>1, <3>1 DEF TokType
    <3>3. page[pgIndex].st = "IN_USE" => page'[pgIndex].toks = page[pgIndex].toks
      BY <1>1, <3>1
    <3>4. Accepted' => Accepted
      BY <3>2 DEF Accepted
    <3> QED BY <2>1, <3>1, <3>3, <3>4 DEF ReapPage, Reaping
  <2>2. ASSUME NEW f \in Files, ReapHeader(f)
        PROVE  UNCHANGED <<op, cached, pgIndex, page, tok>> /\ evtRem > 0
    BY <2>2 DEF ReapHeader, Reaping
  <2> QED BY <2>1, <2>2 DEF Collect, Accepted
<1>3. ThreadTypes' /\ OwnerInv' /\ LifeInv'
  BY <1>1, <1>2 DEF ThreadTypes, OwnerInv, LifeInv, threadVars
<1>4. (WillFlush' <=> WillFlush) /\ (ToBeCollected' <=> ToBeCollected) /\ (Reports' <=> Reports)
  BY <1>1, <1>2 DEF WillFlush, ToBeCollected, Reports, flagVars, threadVars
<1>5. CachedInv'
  <2>1. cached > 0 => page[pgIndex].st = "IN_USE"
    BY <1>1 DEF PageInv
  <2> QED BY <1>1, <1>2, <1>4, <2>1 DEF CachedInv
<1> QED BY <1>2, <1>3, <1>4, <1>5 DEF JInv, ThreadInv, ReportInv

\* When no write is under way, all that was accepted and not reported is on the
\* page being filled, and so is flushed with it.
LEMMA StillToFlush ==
    ASSUME JInv, Accepted, evtRem = 0
    PROVE  WillFlush \/ (Reports /\ op.done)
<1>1. PICK r \in Rids : tok[r].st = "SUBM"
  BY DEF Accepted
<1>2. cached > 0 /\ r \in page[pgIndex].toks
  BY <1>1, WhereSubmitted DEF JInv
<1>3. CASE Reports /\ r = op.rid
  BY <1>1, <1>3 DEF Reports, JInv, AioInv, MapsInv, MapInv, TokInv, CallInv, T, Whole
<1> QED BY <1>2, <1>3 DEF JInv, ThreadInv, CachedInv

\* The steps outside the mutex: the flags and the events timer.
LEMMA TimerThreadKeeps ==
    ASSUME JInv, FlushFire \/ SawActivity \/ TimerFlushed \/ Triggered \/ EventsFire \/ EventsFired
    PROVE  ThreadInv'
<1>1. /\ ThreadTypes /\ OwnerInv /\ LifeInv /\ CachedInv /\ UNCHANGED vars
      /\ UNCHANGED <<owner, returned, flushed, life>> /\ timer # "flushing" /\ timer' # "flushing"
      /\ life # "up" => timer' \in {"idle", "events"}
  BY DEF JInv, ThreadInv, FlushFire, SawActivity, TimerFlushed, Triggered, EventsFire, EventsFired,
         TimerGoes, LifeInv
<1>2. UNCHANGED <<page, pgIndex, cached, evtRem, op, tok>>
  BY <1>1 DEF vars, pageVars
<1>3. ThreadTypes' /\ OwnerInv' /\ LifeInv'
  <2>1. timer' \in {"idle", "active", "flush", "flushing", "set", "triggered", "events"}
    BY DEF FlushFire, SawActivity, TimerFlushed, Triggered, EventsFire, EventsFired, TimerGoes
  <2> QED BY <1>1, <1>2, <2>1 DEF ThreadTypes, OwnerInv, LifeInv
<1>4. WillFlush => WillFlush'
  BY <1>1 DEF WillFlush, FlushFire, SawActivity, TimerFlushed, Triggered, EventsFire, EventsFired,
              TimerGoes
<1>5. CachedInv'
  BY <1>1, <1>2, <1>4 DEF CachedInv, Reports
<1>6. ASSUME ~SlowDisk PROVE ReportInv'
  <2> SUFFICES ASSUME Accepted PROVE WillFlush' \/ ToBeCollected' \/ (Reports' /\ op'.done)
    BY <1>2 DEF ReportInv, Accepted
  <2>1. WillFlush \/ ToBeCollected \/ (Reports /\ op.done)
    BY <1>6 DEF JInv, ThreadInv, ReportInv
  <2>2. Reports /\ op.done => Reports' /\ op'.done
    BY <1>1, <1>2 DEF Reports
  <2>3. CASE FlushFire \/ SawActivity \/ Triggered \/ EventsFire
    <3>1. ToBeCollected => WillFlush' \/ ToBeCollected'
      BY <2>3 DEF WillFlush, ToBeCollected, FlushFire, SawActivity, Triggered, EventsFire, TimerGoes,
                  flagVars
    <3> QED BY <1>4, <2>1, <2>2, <3>1
  <2>4. CASE TimerFlushed \/ EventsFired
    <3>1. evtRem # 0 => ToBeCollected'
      <4>1. evtRem \in Nat
        BY DEF JInv, AioInv, MapsInv, TypeOK, PageTypes
      <4>2. ASSUME evtRem # 0 PROVE getEventsTimerSetFlag'
        <5>1. evtRem > 0
          BY <4>1, <4>2
        <5> QED BY <2>4, <5>1, Zenon DEF TimerFlushed, EventsFired, EventsTimerSet
      <4> QED BY <4>2 DEF ToBeCollected
    <3>2. evtRem = 0 => WillFlush \/ (Reports /\ op.done)
      BY StillToFlush
    <3> QED BY <1>4, <2>2, <3>1, <3>2
  <2> QED BY <2>3, <2>4
<1> QED BY <1>3, <1>5, <1>6 DEF ThreadInv

\* The broker's threads after they gave the mutex back, and stop().
LEMMA BrokerKeeps ==
    ASSUME JInv, HandleIoResult \/ BrokerFlushed \/ Stop \/ Drained \/ UNCHANGED jvars
    PROVE  ThreadInv'
<1>1. /\ ThreadTypes /\ OwnerInv /\ LifeInv /\ CachedInv /\ UNCHANGED <<vars, timer, owner>>
      /\ evtRem \in Nat
  BY DEF JInv, AioInv, MapsInv, TypeOK, PageTypes, ThreadInv, HandleIoResult, BrokerFlushed, Stop,
         Drained, jvars, threadVars
<1>2. UNCHANGED <<page, pgIndex, cached, evtRem, op, tok>>
  BY <1>1 DEF vars, pageVars
<1>3. ThreadTypes' /\ OwnerInv' /\ LifeInv'
  <2>1. CASE HandleIoResult
    BY <1>1, <1>2, <2>1 DEF HandleIoResult, ThreadTypes, OwnerInv, LifeInv
  <2>2. CASE BrokerFlushed
    BY <1>1, <1>2, <2>2 DEF BrokerFlushed, ThreadTypes, OwnerInv, LifeInv
  <2>3. CASE Stop
    BY <1>1, <1>2, <2>3 DEF Stop, threadVars, ThreadTypes, OwnerInv, LifeInv
  <2>4. CASE Drained
    BY <1>1, <1>2, <2>4 DEF Drained, threadVars, ThreadTypes, OwnerInv, LifeInv
  <2>5. CASE UNCHANGED jvars
    BY <1>1, <1>2, <2>5 DEF jvars, threadVars, ThreadTypes, OwnerInv, LifeInv
  <2> QED BY <2>1, <2>2, <2>3, <2>4, <2>5
<1>4. WillFlush => WillFlush'
  BY <1>1 DEF WillFlush, HandleIoResult, BrokerFlushed, Stop, Drained, jvars, flagVars, threadVars
<1>5. CachedInv'
  BY <1>1, <1>2, <1>4 DEF CachedInv, Reports
<1>6. ASSUME ~SlowDisk PROVE ReportInv'
  <2> SUFFICES ASSUME Accepted PROVE WillFlush' \/ ToBeCollected' \/ (Reports' /\ op'.done)
    BY <1>2 DEF ReportInv, Accepted
  <2>1. WillFlush \/ ToBeCollected \/ (Reports /\ op.done)
    BY <1>6 DEF JInv, ThreadInv, ReportInv
  <2>2. Reports /\ op.done => Reports' /\ op'.done
    BY <1>1, <1>2 DEF Reports
  <2>3. CASE BrokerFlushed
    <3>1. evtRem # 0 => ToBeCollected'
      <4>1. ASSUME evtRem # 0 PROVE getEventsTimerSetFlag'
        <5>1. evtRem > 0
          BY <1>1, <4>1
        <5> QED BY <2>3, <5>1, Zenon DEF BrokerFlushed, EventsTimerSet
      <4> QED BY <4>1 DEF ToBeCollected
    <3>2. evtRem = 0 => WillFlush \/ (Reports /\ op.done)
      BY StillToFlush
    <3> QED BY <1>4, <2>2, <3>1, <3>2
  <2>4. CASE ~BrokerFlushed
    <3>1. ToBeCollected => ToBeCollected'
      BY <2>4 DEF ToBeCollected, HandleIoResult, Stop, Drained, jvars, flagVars, threadVars
    <3> QED BY <1>4, <2>1, <2>2, <3>1
  <2> QED BY <2>3, <2>4
<1> QED BY <1>3, <1>5, <1>6 DEF ThreadInv

\* Every step of the threads.
LEMMA NextThread == JInv /\ [JNext]_jvars => ThreadInv'
<1> SUFFICES ASSUME JInv, [JNext]_jvars PROVE ThreadInv'
  OBVIOUS
<1>1. CASE HolderStep(Holder) \/ HolderStep(WaitTimeout)
  <2>1. CallGoes
    BY <1>1, HolderGoes DEF HolderStep, JInv
  <2> QED BY <1>1, <2>1, HolderThread
<1>2. CASE BrokerCall \/ TimerFlush \/ StopFlush
  BY <1>2, CallThread
<1>3. CASE Collect
  BY <1>3, CollectThread
<1>4. CASE FlushFire \/ SawActivity \/ TimerFlushed \/ Triggered \/ EventsFire \/ EventsFired
  BY <1>4, TimerThreadKeeps
<1>5. CASE HandleIoResult \/ BrokerFlushed \/ Stop \/ Drained \/ UNCHANGED jvars
  BY <1>5, BrokerKeeps
<1> QED BY <1>1, <1>2, <1>3, <1>4, <1>5 DEF JNext, TimerThread, Stopping

\* So the invariant holds in every reachable state.
LEMMA ThreadsAlways == JSpec => []JInv
<1>1. JInit => JInv
  BY InitAio, InitCopy, InitThread DEF JInit, JInv
<1>2. JInv /\ [JNext]_jvars => JInv'
  BY StepsOfWriter, NextAio, NextCopy, NextThread DEF JInv
<1> QED BY <1>1, <1>2, PTL DEF JSpec

-----------------------------------------------------------------------------
(* Every reachable state.                                                  *)

\* Whatever the threads do between the unprotected accesses to the flags, the
\* inactivity timer always comes to flush what a call of the broker has left in
\* the page cache (flushFire() and handleIoResult()).
CachedWillFlush == cached > 0 => ToBeFlushed

\* It holds of every journal, also of one whose disk is slow.
THEOREM CachedWillFlushAlways == JSpec => []CachedWillFlush
<1>1. JInv => CachedWillFlush
  BY DEF JInv, ThreadInv, CachedInv, CachedWillFlush, WillFlush, Reports, ToBeFlushed
<1> QED BY <1>1, ThreadsAlways, PTL

\* With that, and as long as writes do not lag a whole turn of the ring behind (so
\* that no call gives up waiting for a file after its record was accepted), every
\* record accepted and not reported will be flushed, or its write collected by the
\* events timer: no interleaving leaves it to nobody.
THEOREM NothingForgottenAlways == ~SlowDisk => (JSpec => []NothingForgotten)
<1> SUFFICES ASSUME ~SlowDisk PROVE JSpec => []NothingForgotten
  OBVIOUS
<1>1. JInv => NothingForgotten
  BY DEF JInv, ThreadInv, CachedInv, ReportInv, Accepted, NothingForgotten, WillFlush, Reports,
         ToBeFlushed
<1> QED BY <1>1, ThreadsAlways, PTL

\* stop() flushes, waits for all completions and leaves nothing: in a stopped
\* journal the cache is empty, no write is under way, and the owner of every
\* accepted record was told.
THEOREM StoppedIsWrittenAlways == JSpec => []StoppedIsWritten
<1>1. JInv => StoppedIsWritten
  <2> SUFFICES ASSUME JInv, life = "stopped" PROVE cached = 0 /\ evtRem = 0 /\ ~Accepted
    BY DEF StoppedIsWritten, Accepted
  <2>1. cached = 0 /\ evtRem = 0
    BY DEF JInv, ThreadInv, LifeInv
  <2>2. ~Accepted
    BY <2>1, WhereSubmitted DEF JInv, Accepted
  <2> QED BY <2>1, <2>2
<1> QED BY <1>1, ThreadsAlways, PTL
=============================================================================
