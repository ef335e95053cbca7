----------------------------- MODULE WmgrProofs -----------------------------
(***************************************************************************)
(* Proofs about module Wmgr, for any number of files, pages, records and   *)
(* transactions: types, what a call may wait for, and that the records of  *)
(* two calls are never mixed; then the maps: enq_map, txn_map and the      *)
(* pending set against the records written, the counts of the files        *)
(* against the maps, and that the journal keeps its promise (module        *)
(* MessageJournal).                                                        *)
(***************************************************************************)
EXTENDS Wmgr, FiniteSetTheorems, TLAPS

USE DEF Results, Faults, Kinds, NoRid, NoFile

-----------------------------------------------------------------------------
(* Helpers.                                                                *)

\* Rotation stays within the ring (wrfc::rotate).
LEMMA AfterInFiles == \A i \in Files, n \in Nat : After(i, n) \in Files
<1>1. SUFFICES ASSUME NEW i \in Files, NEW n \in Nat PROVE After(i, n) \in Files
  OBVIOUS
<1>2. i + n \in Nat /\ NumFiles \in Nat \ {0}
  BY RingAssumption DEF Files
<1>3. (i + n) % NumFiles \in 0 .. NumFiles - 1
  BY <1>2
<1> QED BY <1>3 DEF After, Files

\* Padding a page to whole sblks (wmgr::dblk_roundup) gives a number of dblks.
LEMMA RoundUpNat == \A n \in Nat : RoundUp(n) \in Nat
<1>1. SUFFICES ASSUME NEW n \in Nat PROVE RoundUp(n) \in Nat
  OBVIOUS
<1>2. SblkDblks \in Nat \ {0} /\ n + SblkDblks - 1 \in Nat
  BY RingAssumption
<1>3. ((n + SblkDblks - 1) \div SblkDblks) \in Nat
  BY <1>2
<1> QED BY <1>2, <1>3 DEF RoundUp

\* The next page is a page (wmgr::rotate_page).
LEMMA NextPageInPages == pgIndex \in Pages => (pgIndex + 1) % NumPages \in Pages
BY WmgrAssumption DEF Pages

\* The methods of fcntl and wrfc keep the counters natural numbers.
LEMMA FileOps == \A fc \in FileType, n \in Nat :
    /\ Submit(fc, n) \in FileType
    /\ CompleteError(fc, n) = "none" => Complete(fc, n) \in FileType
    /\ CompleteError(fc, n) \in Faults
    /\ WrReset(fc) \in FileType
<1> SUFFICES ASSUME NEW fc \in FileType, NEW n \in Nat
             PROVE  /\ Submit(fc, n) \in FileType
                    /\ CompleteError(fc, n) = "none" => Complete(fc, n) \in FileType
                    /\ CompleteError(fc, n) \in Faults
                    /\ WrReset(fc) \in FileType
  OBVIOUS
<1>1. Submit(fc, n) \in FileType
  <2>1. fc.subm + n \in Nat /\ fc.aio + 1 \in Nat
    BY DEF FileType
  <2> QED BY <2>1, Zenon DEF FileType, Submit
<1>2. CompleteError(fc, n) = "none" => Complete(fc, n) \in FileType
  <2>1. CompleteError(fc, n) = "none" => fc.cmpl + n \in Nat /\ fc.aio - 1 \in Nat
    BY DEF FileType, CompleteError
  <2> QED BY <2>1, Zenon DEF FileType, Complete
<1>3. CompleteError(fc, n) \in Faults
  BY DEF CompleteError
<1>4. WrReset(fc) \in FileType
  BY Zenon, 0 \in Nat DEF FileType, WrReset
<1> QED BY <1>1, <1>2, <1>3, <1>4

\* wrfc::rotate().
LEMMA RotatedType == FileTypes => Rotated(ring, file) \in RingType
<1> SUFFICES ASSUME FileTypes PROVE Rotated(ring, file) \in RingType
  OBVIOUS
<1>1. ring.idx \in Files /\ After(ring.idx, 1) \in Files
  BY AfterInFiles DEF FileTypes, RingType
<1>2. CanReset(file[After(ring.idx, 1)]) \in BOOLEAN
  BY <1>1 DEF CanReset, FileTypes, FileType
<1> QED BY <1>1, <1>2 DEF Rotated, FileTypes, RingType

\* The records of a transaction are a finite set of entries.
LEMMA EntriesFinite == MapTypes => \A x \in Xids :
    /\ IsFiniteSet(Entries(x)) /\ Entries(x) \subseteq EntryType
    /\ IsFiniteSet(EnqsOf(x)) /\ IsFiniteSet(DeqsOf(x))
<1> SUFFICES ASSUME MapTypes, NEW x \in Xids
             PROVE  /\ IsFiniteSet(Entries(x)) /\ Entries(x) \subseteq EntryType
                    /\ IsFiniteSet(EnqsOf(x)) /\ IsFiniteSet(DeqsOf(x))
  OBVIOUS
<1>1. tmap[x] \in Seq(EntryType)
  BY DEF MapTypes
<1>2. DOMAIN tmap[x] = 1 .. Len(tmap[x]) /\ Len(tmap[x]) \in Nat
  BY <1>1
<1>3. IsFiniteSet(DOMAIN tmap[x])
  BY <1>2, FS_Interval
<1> DEFINE entry == [i \in DOMAIN tmap[x] |-> tmap[x][i]]
<1>4. entry \in Surjection(DOMAIN tmap[x], Entries(x))
  BY DEF Entries, Surjection
<1>5. IsFiniteSet(Entries(x))
  BY <1>3, <1>4, FS_Surjection
<1>6. Entries(x) \subseteq EntryType
  BY <1>1 DEF Entries
<1>7. EnqsOf(x) \subseteq Entries(x) /\ DeqsOf(x) \subseteq Entries(x)
  BY DEF EnqsOf, DeqsOf
<1> QED BY <1>5, <1>6, <1>7, FS_Subset

\* So are the records a commit takes out of enq_map (get_remove_pfid).
LEMMA CountInNat == \A recs, f : IsFiniteSet(recs) => CountIn(f, recs) \in Nat
<1> SUFFICES ASSUME NEW recs, NEW f, IsFiniteSet(recs) PROVE CountIn(f, recs) \in Nat
  OBVIOUS
<1>1. {t \in recs : t.pfid = f} \subseteq recs
  OBVIOUS
<1> QED BY <1>1, FS_Subset, FS_CardinalityType DEF CountIn

\* A closed transaction's records leave the counters natural numbers.
LEMMA WithoutType == FileTypes => \A recs : IsFiniteSet(recs) /\ ~Missing(recs) =>
    Without(recs) \in [Files -> FileType]
<1> SUFFICES ASSUME FileTypes, NEW recs, IsFiniteSet(recs), ~Missing(recs),
                    NEW f \in Files
             PROVE  [file[f] EXCEPT !.enq = @ - CountIn(f, recs)] \in FileType
  BY DEF Without
<1>1. CountIn(f, recs) \in Nat
  BY CountInNat
<1>2. ~(file[f].enq < CountIn(f, recs))
  BY DEF Missing
<1>3. file[f] \in FileType
  BY DEF FileTypes
<1> QED BY <1>1, <1>2, <1>3 DEF FileType

-----------------------------------------------------------------------------
(* Every action preserves the type invariant.                              *)

\* A new journal.
LEMMA InitType == Init => TypeOK
<1> SUFFICES ASSUME Init PROVE TypeOK
  OBVIOUS
<1>1. 0 \in Files /\ 0 \in Pages /\ 0 \in Nat /\ 0 \in 0 .. PageDblks
  BY RingAssumption, WmgrAssumption DEF Files, Pages
<1>2. FileTypes
  BY <1>1, Zenon DEF Init, FileTypes, FileType, RingType, NewFile, NewRing
<1>3. PageTypes
  <2>1. FreePage \in PageType /\ [FreePage EXCEPT !.st = "IN_USE"] \in PageType
    BY <1>1, Zenon DEF FreePage, PageType
  <2>2. page \in [Pages -> PageType]
    BY <2>1 DEF Init
  <2> QED BY <2>2, <1>1 DEF Init, PageTypes
<1>4. MapTypes
  BY DEF Init, MapTypes, NoEntry
<1>5. CallTypes
  BY <1>1 DEF Init, CallTypes, NoTok, NoOp, TokType, OpType
<1>6. OpShape /\ TokShape /\ PageShape
  BY DEF Init, OpShape, TokShape, PageShape, NoTok, NoOp, FreePage
<1> QED BY <1>2, <1>3, <1>4, <1>5, <1>6 DEF TypeOK

\* The call in progress takes another step, or returns.
Pcs == {"check", "encode", "complete", "header", "flush", "reap", "exit", "wait"}
\* A call that goes on.
LEMMA OpMoves == op \in OpType => \A pc \in Pcs, res \in Results :
    /\ [op EXCEPT !.pc = pc] \in OpType
    /\ [op EXCEPT !.pc = pc, !.res = res] \in OpType
    /\ [op EXCEPT !.pc = pc, !.done = TRUE] \in OpType
<1> SUFFICES ASSUME op \in OpType, NEW pc \in Pcs, NEW res \in Results
             PROVE  /\ [op EXCEPT !.pc = pc] \in OpType
                    /\ [op EXCEPT !.pc = pc, !.res = res] \in OpType
                    /\ [op EXCEPT !.pc = pc, !.done = TRUE] \in OpType
  OBVIOUS
<1>1. pc \in {"idle", "check", "encode", "complete", "header", "flush", "reap", "exit", "wait"}
  BY DEF Pcs
<1> HIDE DEF Results
<1>2. [op EXCEPT !.pc = pc] \in OpType
  BY <1>1, Zenon DEF OpType
<1>3. [op EXCEPT !.pc = pc, !.res = res] \in OpType
  BY <1>1, Zenon DEF OpType
<1>4. [op EXCEPT !.pc = pc, !.done = TRUE] \in OpType
  BY <1>1, Zenon DEF OpType
<1> QED BY <1>2, <1>3, <1>4

\* A call that starts.
LEMMA OpStarts == \A r \in Rids, k \in Kinds :
    /\ [NoOp EXCEPT !.pc = "check", !.kind = k, !.rid = r] \in OpType
    /\ [NoOp EXCEPT !.pc = "flush", !.kind = "flush", !.done = TRUE] \in OpType
<1> TAKE r \in Rids, k \in Kinds
<1>1. NoOp \in OpType
  BY DEF NoOp, OpType
<1>2. [NoOp EXCEPT !.pc = "check", !.kind = k, !.rid = r] \in OpType
  BY <1>1, Zenon DEF OpType
<1>3. [NoOp EXCEPT !.pc = "flush", !.kind = "flush", !.done = TRUE] \in OpType
  BY <1>1, Zenon DEF OpType
<1> QED BY <1>2, <1>3

\* A call that is past its start is one of the five operations.
LEMMA OpKinds == TypeOK /\ op.pc # "idle" =>
    /\ op \in OpType /\ op.kind \in Kinds \cup {"flush"}
    /\ op.pc \notin {"flush", "reap", "exit"} => op.kind \in Kinds
    /\ op.kind \in Kinds => /\ op.rid \in Rids /\ T \in TokType
                            /\ T.kind = op.kind
BY DEF TypeOK, CallTypes, OpShape, OpType, T

\* What is left to show when the call goes on and tokens stay as they are.
LEMMA CallGoesOn ==
    ASSUME TypeOK, op.pc # "idle", UNCHANGED tok,
           op' \in OpType, op'.kind = op.kind, op'.rid = op.rid, op'.done = op.done,
           op'.pc \notin {"idle", "complete"},
           op.kind = "flush" => op'.pc \in {"flush", "reap", "exit"},
           busy' \subseteq Kinds, fault' \in Faults
    PROVE  CallTypes' /\ OpShape' /\ TokShape'
<1>1. CallTypes'
  BY DEF TypeOK, CallTypes
<1>2. OpShape'
  BY DEF TypeOK, OpShape, T
<1>3. TokShape'
  BY DEF TypeOK, TokShape
<1> QED BY <1>1, <1>2, <1>3

\* A new token.
LEMMA NewTokType ==
    \A k \in Kinds, x \in Xids \cup {NoXid}, d \in Rids \cup {NoRid}, n \in Nat :
        /\ NewTok(k, x, d, n) \in TokType
        /\ NewTok(k, x, d, n).kind = k /\ NewTok(k, x, d, n).st = "NONE"
        /\ NewTok(k, x, d, n).xid = x /\ NewTok(k, x, d, n).drid = d
        /\ NewTok(k, x, d, n).size = n /\ NewTok(k, x, d, n).written = 0
<1> TAKE k \in Kinds, x \in Xids \cup {NoXid}, d \in Rids \cup {NoRid}, n \in Nat
<1>1. NoTok \in TokType
  BY DEF NoTok, TokType
<1>2. NewTok(k, x, d, n) \in TokType
  BY <1>1, Zenon DEF NewTok, TokType
<1> QED BY <1>1, <1>2 DEF NewTok, NoTok, TokType

\* A call starts with a new token.
LEMMA NewCallType ==
    ASSUME TypeOK, NEW k \in Kinds, NEW r \in Rids, NEW x \in Xids \cup {NoXid},
           NEW d \in Rids \cup {NoRid}, NEW n \in Nat, n > 0,
           k = "deq" => d \in Rids, k \in {"abort", "commit"} => x \in Xids,
           NewCall(k, r, x, d, n)
    PROVE  TypeOK'
<1>1. FileTypes' /\ PageTypes' /\ MapTypes' /\ PageShape'
  BY DEF TypeOK, FileTypes, PageTypes, MapTypes, PageShape, NewCall, fileVars, pageVars, mapVars
<1>2. op' = [NoOp EXCEPT !.pc = "check", !.kind = k, !.rid = r] /\ op' \in OpType
  <2>1. op' = [NoOp EXCEPT !.pc = "check", !.kind = k, !.rid = r]
    BY DEF NewCall, Start
  <2> QED BY <2>1, OpStarts
<1>3. op'.kind = k /\ op'.rid = r /\ op'.pc = "check"
  BY <1>2 DEF NoOp
<1>4. tok' = [tok EXCEPT ![r] = NewTok(k, x, d, n)] /\ tok \in [Rids -> TokType]
  BY DEF NewCall, TypeOK, CallTypes
<1>5. tok' \in [Rids -> TokType]
  BY <1>4, NewTokType
<1>6. CallTypes'
  BY <1>2, <1>5 DEF NewCall, TypeOK, CallTypes
<1>7. OpShape'
  <2>1. tok'[r] = NewTok(k, x, d, n)
    BY <1>4
  <2>2. NewTok(k, x, d, n).kind = k
    BY DEF NewTok, NoTok
  <2> QED BY <1>3, <2>1, <2>2 DEF OpShape, T
<1>8. TokShape'
  BY <1>4, NewTokType DEF TypeOK, TokShape
<1> QED BY <1>1, <1>6, <1>7, <1>8 DEF TypeOK

\* What the callers do.
LEMMA CallerType == TypeOK /\ Caller => TypeOK'
<1> SUFFICES ASSUME TypeOK, Caller PROVE TypeOK'
  OBVIOUS
<1>1. ASSUME NEW r \in Rids, CallEnqueue(r) PROVE TypeOK'
  <2>1. PICK x \in Xids \cup {NoXid}, n \in EnqSizes : NewCall("enq", r, x, NoRid, n)
    BY <1>1 DEF CallEnqueue
  <2>2. n \in Nat /\ n > 0
    BY WmgrAssumption
  <2> QED BY <2>1, <2>2, NewCallType
<1>2. ASSUME NEW r \in Rids, CallDequeue(r) PROVE TypeOK'
  <2>1. PICK x \in Xids \cup {NoXid}, d \in Rids : NewCall("deq", r, x, d, CtlDblks)
    BY <1>2 DEF CallDequeue
  <2>2. CtlDblks \in Nat /\ CtlDblks > 0
    BY WmgrAssumption
  <2> QED BY <2>1, <2>2, NewCallType
<1>3. ASSUME NEW r \in Rids, CallEnd(r) PROVE TypeOK'
  <2>1. PICK k \in {"abort", "commit"}, x \in Xids : NewCall(k, r, x, NoRid, CtlDblks)
    BY <1>3 DEF CallEnd
  <2>2. CtlDblks \in Nat /\ CtlDblks > 0
    BY WmgrAssumption
  <2> QED BY <2>1, <2>2, NewCallType
<1>4. ASSUME NEW r \in Rids, Retry(r) PROVE TypeOK'
  <2>1. tok[r].kind \in Kinds
    BY <1>4 DEF Retry, TypeOK, CallTypes, TokShape, TokType
  <2>2. op' = [NoOp EXCEPT !.pc = "check", !.kind = tok[r].kind, !.rid = r] /\ op' \in OpType
    BY <1>4, <2>1, OpStarts DEF Retry, Start
  <2>3. op'.kind = tok[r].kind /\ op'.rid = r /\ op'.pc = "check"
    BY <2>2 DEF NoOp
  <2>4. FileTypes' /\ PageTypes' /\ MapTypes' /\ PageShape' /\ TokShape'
    BY <1>4 DEF TypeOK, FileTypes, PageTypes, MapTypes, PageShape, TokShape, Retry,
                fileVars, pageVars, mapVars
  <2>5. CallTypes' /\ OpShape'
    BY <1>4, <2>1, <2>2, <2>3 DEF TypeOK, CallTypes, OpShape, T, Retry
  <2> QED BY <2>4, <2>5 DEF TypeOK
<1>5. ASSUME CallFlush PROVE TypeOK'
  <2>1. op' = [NoOp EXCEPT !.pc = "flush", !.kind = "flush", !.done = TRUE]
    BY <1>5 DEF CallFlush
  <2>2. op' \in OpType
    BY <2>1, Zenon DEF NoOp, OpType
  <2>3. op'.kind = "flush" /\ op'.pc = "flush" /\ op'.done
    BY <2>1 DEF NoOp
  <2>4. FileTypes' /\ PageTypes' /\ MapTypes' /\ PageShape' /\ TokShape'
    BY <1>5 DEF TypeOK, FileTypes, PageTypes, MapTypes, PageShape, TokShape, CallFlush,
                fileVars, pageVars, mapVars
  <2>5. CallTypes' /\ OpShape'
    BY <1>5, <2>2, <2>3 DEF TypeOK, CallTypes, OpShape, T, CallFlush
  <2> QED BY <2>4, <2>5 DEF TypeOK
<1> QED BY <1>1, <1>2, <1>3, <1>4, <1>5 DEF Caller

\* Resetting the current file, and opening the current page.
LEMMA FilesResetType == TypeOK => FilesReset \in [Files -> FileType]
<1> SUFFICES ASSUME TypeOK PROVE FilesReset \in [Files -> FileType]
  OBVIOUS
<1>1. file \in [Files -> FileType] /\ ring.idx \in Files
  BY DEF TypeOK, FileTypes, RingType
<1>2. WrReset(file[ring.idx]) \in FileType
  BY <1>1, FileOps
<1> QED BY <1>1, <1>2 DEF FilesReset

\* A page is opened.
LEMMA OpenPageType == TypeOK =>
    /\ OpenPage(page) \in [Pages -> PageType]
    /\ \A p \in Pages : OpenPage(page)[p].st = "AIO_PENDING" => page[p].wfh \in Files
    /\ \A p \in Pages : OpenPage(page)[p].wfh = page[p].wfh
<1> SUFFICES ASSUME TypeOK
             PROVE  /\ OpenPage(page) \in [Pages -> PageType]
                    /\ \A p \in Pages : OpenPage(page)[p].st = "AIO_PENDING" => page[p].wfh \in Files
                    /\ \A p \in Pages : OpenPage(page)[p].wfh = page[p].wfh
  OBVIOUS
<1>1. page \in [Pages -> PageType] /\ pgIndex \in Pages
  BY DEF TypeOK, PageTypes
<1>2. [page[pgIndex] EXCEPT !.st = "IN_USE"] \in PageType
  BY <1>1, Zenon DEF PageType
<1>3. OpenPage(page) \in [Pages -> PageType]
  BY <1>1, <1>2 DEF OpenPage
<1>4. \A p \in Pages : OpenPage(page)[p].wfh = page[p].wfh
  BY <1>1 DEF OpenPage, PageType
<1>5. \A p \in Pages : OpenPage(page)[p].st = "AIO_PENDING" => page[p].wfh \in Files
  BY <1>1 DEF OpenPage, PageType, TypeOK, PageShape
<1> QED BY <1>3, <1>4, <1>5

\* The current file is reset.
LEMMA FileCheckedType == TypeOK /\ FileChecked => FileTypes'
<1> SUFFICES ASSUME TypeOK, FileChecked PROVE FileTypes'
  OBVIOUS
<1>1. ring' \in RingType
  BY DEF FileChecked, TypeOK, FileTypes, RingType
<1> QED BY <1>1, FilesResetType DEF FileChecked, FileTypes

\* The current page is opened.
LEMMA PageCheckedType == TypeOK /\ PageChecked => PageTypes' /\ PageShape' /\ MapTypes'
<1> SUFFICES ASSUME TypeOK, PageChecked PROVE PageTypes' /\ PageShape' /\ MapTypes'
  OBVIOUS
<1>1. page' = OpenPage(page)
      /\ UNCHANGED <<pgIndex, pgOffset, pgCntr, cached, evtRem, mapVars>>
  BY DEF PageChecked
<1>2. PageTypes'
  BY <1>1, OpenPageType DEF TypeOK, PageTypes
<1>3. PageShape'
  BY <1>1, OpenPageType DEF PageShape
<1>4. MapTypes'
  BY <1>1 DEF TypeOK, MapTypes, mapVars
<1> QED BY <1>2, <1>3, <1>4

\* The checks.
LEMMA CheckType == TypeOK /\ Check => TypeOK'
<1> SUFFICES ASSUME TypeOK, Check PROVE TypeOK'
  OBVIOUS
<1>1. op.pc = "check" /\ op \in OpType /\ op.kind \in Kinds /\ fault \in Faults /\ busy \subseteq Kinds
  BY OpKinds DEF Check, CheckBusy, CheckFull, CheckPage, CheckRefused, CheckOk,
                 PageChecked, FileChecked, At, TypeOK, CallTypes
<1>2. ASSUME NEW res \in Results, Return(res), UNCHANGED <<busy, tok, fault>>
      PROVE  CallTypes' /\ OpShape' /\ TokShape'
  <2>1. op' \in OpType
    BY <1>1, <1>2, OpMoves DEF Return, Pcs
  <2>2. op'.kind = op.kind /\ op'.rid = op.rid /\ op'.done = op.done /\ op'.pc = "exit"
    BY <1>1, <1>2 DEF Return, OpType
  <2> QED BY <1>1, <1>2, <2>1, <2>2, CallGoesOn
<1>3. CASE CheckBusy \/ CheckFull
  <2>1. UNCHANGED <<fileVars, pageVars, busy, tok, mapVars, fault>>
    BY <1>3 DEF CheckBusy, CheckFull
  <2>2. CallTypes' /\ OpShape' /\ TokShape'
    BY <1>2, <1>3, <2>1 DEF CheckBusy, CheckFull
  <2> QED BY <2>1, <2>2 DEF TypeOK, FileTypes, PageTypes, MapTypes, PageShape,
                           fileVars, pageVars, mapVars
<1>4. CASE CheckPage
  <2>1. UNCHANGED <<pageVars, busy, tok, mapVars, fault>> /\ Return("PAGE_AIOWAIT")
    BY <1>4 DEF CheckPage
  <2>2. CallTypes' /\ OpShape' /\ TokShape'
    BY <1>2, <2>1
  <2>3. FileTypes'
    BY <1>4, FileCheckedType DEF CheckPage
  <2> QED BY <2>1, <2>2, <2>3 DEF TypeOK, PageTypes, MapTypes, PageShape, pageVars, mapVars
<1>5. CASE CheckRefused
  <2>1. PageChecked /\ UNCHANGED <<busy, tok, fault>>
    BY <1>5 DEF CheckRefused, PageChecked
  <2>2. CallTypes' /\ OpShape' /\ TokShape'
    BY <1>2, <1>5, <2>1 DEF CheckRefused
  <2> QED BY <2>1, <2>2, FileCheckedType, PageCheckedType DEF TypeOK, PageChecked
<1>6. CASE CheckOk
  <2>1. PageChecked /\ UNCHANGED <<tok, fault>> /\ busy' = busy \cup {op.kind} /\ Goto("encode")
    BY <1>6 DEF CheckOk, PageChecked
  <2>2. op' \in OpType
    BY <1>1, <2>1, OpMoves DEF Goto, Pcs
  <2>3. op'.kind = op.kind /\ op'.rid = op.rid /\ op'.done = op.done /\ op'.pc = "encode"
    BY <1>1, <2>1 DEF Goto, OpType
  <2>4. CallTypes' /\ OpShape' /\ TokShape'
    BY <1>1, <2>1, <2>2, <2>3, CallGoesOn
  <2> QED BY <2>1, <2>4, FileCheckedType, PageCheckedType DEF TypeOK, PageChecked
<1> QED BY <1>3, <1>4, <1>5, <1>6 DEF Check

\* A turn of the copy loop.
LEMMA EncodeType == TypeOK /\ Encode => TypeOK'
<1> SUFFICES ASSUME TypeOK, Encode PROVE TypeOK'
  OBVIOUS
<1> DEFINE room == PageDblks - pgOffset
           left == T.size - T.written
           n    == IF left < room THEN left ELSE room
           t    == [T EXCEPT !.fid     = IF T.written = 0 THEN ring.idx ELSE T.fid,
                             !.written = T.written + n,
                             !.pgs     = T.pgs + 1,
                             !.span    = T.span \cup {ring.idx},
                             !.st      = IF n = left THEN T.st ELSE "PART"]
           pc   == IF n = left THEN "complete" ELSE "header"
<1>1. /\ op.pc = "encode" /\ op \in OpType /\ op.kind \in Kinds /\ op.rid \in Rids
      /\ T \in TokType /\ T.kind = op.kind
  BY OpKinds DEF Encode, At
<1>2. ring.idx \in Files /\ PageDblks \in Nat /\ pgOffset \in 0 .. PageDblks
      /\ cached \in 0 .. pgOffset
  BY RingAssumption DEF TypeOK, FileTypes, RingType, PageTypes
<1>3. /\ T.written \in Nat /\ T.size \in Nat /\ T.pgs \in Nat /\ T.span \subseteq Files
      /\ T.written <= T.size /\ (T.written > 0 => T.fid \in Files)
      /\ T.fid \in Files \cup {NoFile}
      /\ T.st \in {"NONE", "PART", "SUBM", "COMPL"}
  BY <1>1 DEF TypeOK, TokShape, TokType, T
<1>4. room \in Nat /\ left \in Nat /\ n \in Nat /\ n <= room /\ n <= left
  BY <1>2, <1>3
<1>5. /\ tok' = [tok EXCEPT ![op.rid] = t]
      /\ page' = [page EXCEPT ![pgIndex].toks = @ \cup {op.rid}]
      /\ pgOffset' = pgOffset + n /\ cached' = cached + n
      /\ op' = [op EXCEPT !.pc = pc]
      /\ UNCHANGED <<fileVars, pgIndex, pgCntr, evtRem, busy, mapVars, fault>>
  <2>1. tok' = [tok EXCEPT ![op.rid] = t]
    BY DEF Encode, T
  <2>2. /\ page' = [page EXCEPT ![pgIndex].toks = @ \cup {op.rid}]
        /\ pgOffset' = pgOffset + n /\ cached' = cached + n
        /\ op' = [op EXCEPT !.pc = pc]
    BY DEF Encode, Goto, T
  <2>3. UNCHANGED <<fileVars, pgIndex, pgCntr, evtRem, busy, mapVars, fault>>
    BY DEF Encode
  <2> QED BY <2>1, <2>2, <2>3
<1> HIDE DEF room, left, n
<1>6. t \in TokType
  <2>1. T.written + n \in Nat /\ T.pgs + 1 \in Nat
    BY <1>3, <1>4
  <2>2. (IF T.written = 0 THEN ring.idx ELSE T.fid) \in Files \cup {NoFile}
    BY <1>2, <1>3
  <2>3. T.span \cup {ring.idx} \in SUBSET Files
    BY <1>2, <1>3
  <2>4. (IF n = left THEN T.st ELSE "PART") \in {"NONE", "PART", "SUBM", "COMPL"}
    BY <1>3
  <2> QED BY <1>1, <2>1, <2>2, <2>3, <2>4, Zenon DEF TokType
<1>7. /\ t.fid = IF T.written = 0 THEN ring.idx ELSE T.fid
      /\ t.written = T.written + n /\ t.size = T.size /\ t.kind = T.kind
      /\ t.drid = T.drid /\ t.xid = T.xid
  BY <1>1 DEF TokType
<1>8. t.fid \in Files
  BY <1>2, <1>3, <1>7
<1> HIDE DEF t
<1>9. op' \in OpType /\ op'.pc = pc /\ op'.kind = op.kind /\ op'.rid = op.rid
  <2>1. pc \in Pcs
    BY DEF Pcs
  <2> HIDE DEF pc
  <2>2. op' \in OpType
    BY <1>1, <1>5, <2>1, OpMoves
  <2> QED BY <1>1, <1>5, <2>2 DEF OpType
<1>10. tok \in [Rids -> TokType] /\ tok' \in [Rids -> TokType] /\ tok'[op.rid] = t
  BY <1>1, <1>5, <1>6 DEF TypeOK, CallTypes
<1>11. CallTypes'
  BY <1>5, <1>9, <1>10 DEF TypeOK, CallTypes
<1>12. OpShape'
  BY <1>1, <1>7, <1>8, <1>9, <1>10 DEF OpShape, T
<1>13. TokShape'
  <2>1. ASSUME NEW r \in Rids, r # op.rid PROVE tok'[r] = tok[r]
    BY <2>1, <1>5, <1>10
  <2>2. t.written <= t.size
    BY <1>3, <1>4, <1>7 DEF left
  <2>3. T.kind # "none" /\ (T.kind = "deq" => T.drid \in Rids)
        /\ (T.kind \in {"abort", "commit"} => T.xid \in Xids)
    BY <1>1 DEF TypeOK, TokShape, T
  <2> QED BY <1>7, <1>8, <1>10, <2>1, <2>2, <2>3 DEF TypeOK, TokShape
<1>14. PageTypes' /\ PageShape'
  <2>1. page \in [Pages -> PageType] /\ pgIndex \in Pages
    BY DEF TypeOK, PageTypes
  <2>2. [page[pgIndex] EXCEPT !.toks = @ \cup {op.rid}] \in PageType
    BY <1>1, <2>1, Zenon DEF PageType
  <2>3. page' \in [Pages -> PageType]
    BY <1>5, <2>1, <2>2
  <2>4. \A p \in Pages : page'[p].st = page[p].st /\ page'[p].wfh = page[p].wfh
    BY <1>5, <2>1 DEF PageType
  <2>5. pgOffset' \in 0 .. PageDblks /\ cached' \in 0 .. pgOffset'
    BY <1>2, <1>4, <1>5 DEF room
  <2> QED BY <1>5, <2>3, <2>4, <2>5 DEF TypeOK, PageTypes, PageShape
<1> QED BY <1>5, <1>11, <1>12, <1>13, <1>14
       DEF TypeOK, FileTypes, MapTypes, fileVars, mapVars

\* The record is whole.
LEMMA RecordedType == TypeOK /\ Recorded => PageTypes' /\ PageShape' /\ OpShape' /\ TokShape'
    /\ op' \in OpType /\ busy' \subseteq Kinds /\ tok' \in [Rids -> TokType]
    /\ op.kind \in Kinds /\ op.rid \in Rids /\ T \in TokType /\ T.kind = op.kind
    /\ T.fid \in Files
<1> SUFFICES ASSUME TypeOK, Recorded
             PROVE  /\ PageTypes' /\ PageShape' /\ OpShape' /\ TokShape'
                    /\ op' \in OpType /\ busy' \subseteq Kinds /\ tok' \in [Rids -> TokType]
                    /\ op.kind \in Kinds /\ op.rid \in Rids /\ T \in TokType /\ T.kind = op.kind
                    /\ T.fid \in Files
  OBVIOUS
<1>1. /\ op.pc = "complete" /\ op \in OpType /\ op.kind \in Kinds /\ op.rid \in Rids
      /\ T \in TokType /\ T.kind = op.kind
  BY OpKinds DEF Recorded, At
<1>2. T.fid \in Files
  BY <1>1 DEF TypeOK, OpShape
<1>3. /\ tok' = [tok EXCEPT ![op.rid].st = "SUBM"]
      /\ op' = [op EXCEPT !.pc = "header", !.done = TRUE]
      /\ UNCHANGED <<ring, pageVars, busy>>
  BY DEF Recorded
<1>4. op' \in OpType
  BY <1>1, <1>3, OpMoves DEF Pcs
<1>5. op'.pc = "header" /\ op'.kind = op.kind /\ op'.rid = op.rid
  BY <1>1, <1>3 DEF OpType
<1>6. tok \in [Rids -> TokType]
  BY DEF TypeOK, CallTypes
<1>7. [tok[op.rid] EXCEPT !.st = "SUBM"] \in TokType
  BY <1>1, <1>6, Zenon DEF TokType
<1>8. tok' \in [Rids -> TokType]
  BY <1>1, <1>3, <1>6, <1>7
<1>9. \A r \in Rids : /\ tok'[r].kind = tok[r].kind /\ tok'[r].drid = tok[r].drid
                      /\ tok'[r].xid = tok[r].xid /\ tok'[r].fid = tok[r].fid
                      /\ tok'[r].written = tok[r].written /\ tok'[r].size = tok[r].size
                      /\ (r # op.rid => tok'[r].st = tok[r].st)
  BY <1>1, <1>3, <1>6 DEF TokType
<1>10. TokShape'
  BY <1>1, <1>9 DEF TypeOK, TokShape, T
<1>11. OpShape'
  BY <1>1, <1>5, <1>9 DEF OpShape, T
<1>12. PageTypes' /\ PageShape' /\ busy' \subseteq Kinds
  BY <1>3 DEF TypeOK, PageTypes, PageShape, CallTypes, pageVars
<1> QED BY <1>1, <1>2, <1>4, <1>8, <1>10, <1>11, <1>12

\* A record whose header is in file f is counted there.
LEMMA FileEnqType == TypeOK => \A f \in Files :
    /\ [file EXCEPT ![f].enq = @ + 1] \in [Files -> FileType]
    /\ file[f].enq # 0 => [file EXCEPT ![f].enq = @ - 1] \in [Files -> FileType]
<1> SUFFICES ASSUME TypeOK, NEW f \in Files
             PROVE  /\ [file EXCEPT ![f].enq = @ + 1] \in [Files -> FileType]
                    /\ file[f].enq # 0 => [file EXCEPT ![f].enq = @ - 1] \in [Files -> FileType]
  OBVIOUS
<1>1. file \in [Files -> FileType] /\ file[f] \in FileType /\ file[f].enq \in Nat
  BY DEF TypeOK, FileTypes, FileType
<1>2. [file[f] EXCEPT !.enq = @ + 1] \in FileType
  BY <1>1 DEF FileType
<1>3. file[f].enq # 0 => [file[f] EXCEPT !.enq = @ - 1] \in FileType
  BY <1>1 DEF FileType
<1> QED BY <1>1, <1>2, <1>3

\* Its entry in txn_map.
LEMMA EntryInType == TypeOK /\ op.rid \in Rids /\ T.fid \in Files =>
    \A d \in Rids \cup {NoRid}, b \in BOOLEAN, x \in Xids :
        TmapInsert(x, Entry(op.rid, d, b)) => tmap' \in [Xids -> Seq(EntryType)]
<1> SUFFICES ASSUME TypeOK, op.rid \in Rids, T.fid \in Files,
                    NEW d \in Rids \cup {NoRid}, NEW b \in BOOLEAN, NEW x \in Xids,
                    TmapInsert(x, Entry(op.rid, d, b))
             PROVE  tmap' \in [Xids -> Seq(EntryType)]
  OBVIOUS
<1>1. Entry(op.rid, d, b) \in EntryType
  BY DEF Entry, EntryType
<1>2. tmap \in [Xids -> Seq(EntryType)]
  BY DEF TypeOK, MapTypes
<1>3. Append(tmap[x], Entry(op.rid, d, b)) \in Seq(EntryType)
  BY <1>1, <1>2
<1> QED BY <1>2, <1>3 DEF TmapInsert

\* What is left to show of a step that records a whole record.
LEMMA RecordedKeeps ==
    ASSUME TypeOK, Recorded, file' \in [Files -> FileType], MapTypes', fault' \in Faults
    PROVE  TypeOK'
<1>1. FileTypes'
  BY DEF Recorded, TypeOK, FileTypes
<1>2. CallTypes'
  BY RecordedType DEF CallTypes
<1> QED BY <1>1, <1>2, RecordedType DEF TypeOK

\* The entries of enq_map.
Emap == [Rids -> [pfid : Files \cup {NoFile}, lock : BOOLEAN]]

\* The changes of enq_map.
LEMMA EmapType == TypeOK => \A r \in Rids :
    /\ \A f \in Files : [emap EXCEPT ![r] = [pfid |-> f, lock |-> FALSE]] \in Emap
    /\ [emap EXCEPT ![r] = NoEntry] \in Emap
    /\ \A b \in BOOLEAN : [emap EXCEPT ![r].lock = b] \in Emap
<1> SUFFICES ASSUME TypeOK, NEW r \in Rids
             PROVE  /\ \A f \in Files : [emap EXCEPT ![r] = [pfid |-> f, lock |-> FALSE]] \in Emap
                    /\ [emap EXCEPT ![r] = NoEntry] \in Emap
                    /\ \A b \in BOOLEAN : [emap EXCEPT ![r].lock = b] \in Emap
  OBVIOUS
<1>1. emap \in Emap
  BY DEF TypeOK, MapTypes, Emap
<1> QED BY <1>1 DEF Emap, NoEntry

\* The four ways to take an enqueue or a dequeue into the maps.
LEMMA EnqueueDequeueType ==
    TypeOK /\ (EnqueueTxn \/ EnqueueNonTxn \/ DequeueTxn \/ DequeueNonTxn) => TypeOK'
<1> SUFFICES ASSUME TypeOK, EnqueueTxn \/ EnqueueNonTxn \/ DequeueTxn \/ DequeueNonTxn
             PROVE  TypeOK'
  OBVIOUS
<1>1. Recorded
  BY DEF EnqueueTxn, EnqueueNonTxn, DequeueTxn, DequeueNonTxn
<1>2. op.kind \in Kinds /\ op.rid \in Rids /\ T \in TokType /\ T.kind = op.kind
      /\ T.fid \in Files
  BY <1>1, RecordedType
<1>3. file \in [Files -> FileType] /\ emap \in Emap /\ fault \in Faults
      /\ tmap \in [Xids -> Seq(EntryType)] /\ pend \subseteq Xids
  BY DEF TypeOK, FileTypes, MapTypes, CallTypes, Emap
<1>4. T.xid # NoXid => T.xid \in Xids
  BY <1>2 DEF TokType
<1>5. op.kind = "deq" => T.drid \in Rids
  BY <1>2 DEF TypeOK, TokShape, T
<1>6. CASE EnqueueTxn
  <2>1. file' \in [Files -> FileType] /\ fault' \in Faults
    BY <1>2, <1>3, <1>6, FileEnqType DEF EnqueueTxn
  <2>2. tmap' \in [Xids -> Seq(EntryType)]
    BY <1>2, <1>4, <1>6, EntryInType DEF EnqueueTxn
  <2>3. MapTypes'
    BY <1>3, <1>6, <2>2 DEF EnqueueTxn, MapTypes, Emap
  <2> QED BY <1>1, <2>1, <2>3, RecordedKeeps
<1>7. CASE EnqueueNonTxn
  <2>1. file' \in [Files -> FileType]
    BY <1>2, <1>7, FileEnqType DEF EnqueueNonTxn
  <2>2. emap' \in Emap /\ fault' \in Faults
    BY <1>2, <1>3, <1>7, EmapType DEF EnqueueNonTxn, Throw
  <2>3. MapTypes'
    BY <1>3, <1>7, <2>2 DEF EnqueueNonTxn, MapTypes, Emap
  <2> QED BY <1>1, <2>1, <2>2, <2>3, RecordedKeeps
<1>8. CASE DequeueTxn
  <2>1. file' \in [Files -> FileType] /\ fault' \in Faults
    BY <1>3, <1>8 DEF DequeueTxn
  <2>2. emap' \in Emap
    <3>1. InEmap(T.drid) \in BOOLEAN /\ T.drid \in Rids
      BY <1>5, <1>8 DEF InEmap, DequeueTxn
    <3>2. emap' = [emap EXCEPT ![T.drid].lock = InEmap(T.drid)]
      BY <1>8 DEF DequeueTxn
    <3> QED BY <3>1, <3>2, EmapType
  <2>3. tmap' \in [Xids -> Seq(EntryType)]
    BY <1>2, <1>4, <1>5, <1>8, EntryInType DEF DequeueTxn
  <2>4. MapTypes'
    BY <1>3, <1>8, <2>2, <2>3 DEF DequeueTxn, MapTypes, Emap
  <2> QED BY <1>1, <2>1, <2>4, RecordedKeeps
<1>9. CASE DequeueNonTxn
  <2> DEFINE f == emap[T.drid].pfid
             error == IF ~InEmap(T.drid) THEN "MAP_NOTFOUND"
                      ELSE IF emap[T.drid].lock THEN "MAP_LOCKED"
                      ELSE IF file[f].enq = 0 THEN "UNDERFLOW" ELSE "none"
  <2>1. /\ Throw(error)
        /\ emap' = [emap EXCEPT ![T.drid] = IF error = "none" THEN NoEntry ELSE @]
        /\ file' = IF error = "none" THEN [file EXCEPT ![f].enq = @ - 1] ELSE file
        /\ UNCHANGED <<tmap, pend>>
    BY <1>9 DEF DequeueNonTxn
  <2>2. T.drid \in Rids
    BY <1>5, <1>9 DEF DequeueNonTxn
  <2>3. error = "none" => f \in Files /\ file[f].enq # 0
    BY <1>3, <2>2 DEF Emap, InEmap
  <2>4. error \in Faults
    OBVIOUS
  <2> HIDE DEF error, f
  <2>5. file' \in [Files -> FileType]
    BY <1>3, <2>1, <2>3, FileEnqType
  <2>6. emap' \in Emap
    <3>1. CASE error = "none"
      BY <2>1, <2>2, <3>1, EmapType
    <3>2. CASE error # "none"
      BY <1>3, <2>1, <3>2 DEF Emap
    <3> QED BY <3>1, <3>2
  <2>7. MapTypes' /\ fault' \in Faults
    BY <1>3, <2>1, <2>4, <2>6 DEF MapTypes, Emap, Throw
  <2> QED BY <1>1, <2>5, <2>7, RecordedKeeps
<1> QED BY <1>6, <1>7, <1>8, <1>9

\* A transaction is closed.
LEMMA CloseTxnType ==
    ASSUME TypeOK, NEW error \in Faults, NEW newEmap, NEW newFile, T.xid \in Xids,
           CloseTxn(error, newEmap, newFile),
           error = "none" => newEmap \in Emap /\ newFile \in [Files -> FileType]
    PROVE  TypeOK'
<1>1. Recorded /\ fault' \in Faults
  BY DEF CloseTxn, Throw
<1>2. file \in [Files -> FileType] /\ emap \in Emap
      /\ tmap \in [Xids -> Seq(EntryType)] /\ pend \subseteq Xids
  BY DEF TypeOK, FileTypes, MapTypes, Emap
<1>3. CASE error # "none"
  <2>1. file' \in [Files -> FileType] /\ MapTypes'
    BY <1>2, <1>3 DEF CloseTxn, TypeOK, MapTypes, mapVars
  <2> QED BY <1>1, <2>1, RecordedKeeps
<1>4. CASE error = "none"
  <2>1. /\ emap' = newEmap /\ file' = newFile
        /\ tmap' = [tmap EXCEPT ![T.xid] = <<>>]
        /\ pend' = pend \cup {T.xid}
    BY <1>4 DEF CloseTxn
  <2>2. <<>> \in Seq(EntryType)
    OBVIOUS
  <2>3. tmap' \in [Xids -> Seq(EntryType)]
    BY <1>2, <2>1, <2>2
  <2>4. MapTypes'
    BY <1>2, <1>4, <2>1, <2>3 DEF MapTypes, Emap
  <2> QED BY <1>1, <1>4, <2>1, <2>4, RecordedKeeps
<1> QED BY <1>3, <1>4

\* By an abort.
LEMMA AbortTxnType == TypeOK /\ AbortTxn => TypeOK'
<1> SUFFICES ASSUME TypeOK, AbortTxn PROVE TypeOK'
  OBVIOUS
<1> DEFINE unlocked == {t.drid : t \in DeqsOf(T.xid)}
           error == IF Missing(EnqsOf(T.xid)) THEN "UNDERFLOW"
                    ELSE IF T.xid \in pend THEN "MAP_DUPLICATE" ELSE "none"
           newEmap == [r \in Rids |-> IF r \in unlocked
                                      THEN [emap[r] EXCEPT !.lock = FALSE] ELSE emap[r]]
<1>1. op.kind = "abort" /\ CloseTxn(error, newEmap, Without(EnqsOf(T.xid)))
  BY DEF AbortTxn
<1>2. T.xid \in Xids
  BY <1>1, RecordedType DEF CloseTxn, TypeOK, TokShape, T
<1>3. newEmap \in Emap
  BY DEF TypeOK, MapTypes, Emap
<1>4. error \in Faults /\ (error = "none" => ~Missing(EnqsOf(T.xid)))
  OBVIOUS
<1>5. ~Missing(EnqsOf(T.xid)) => Without(EnqsOf(T.xid)) \in [Files -> FileType]
  BY <1>2, EntriesFinite, WithoutType DEF TypeOK
<1> HIDE DEF newEmap, error
<1> QED BY <1>1, <1>2, <1>3, <1>4, <1>5, CloseTxnType

\* emap with the enqueues of a transaction in it is still a map.
LEMMA WithEnqsType == TypeOK => \A x \in Xids : WithEnqs(x) \in Emap
<1> SUFFICES ASSUME TypeOK, NEW x \in Xids, NEW r \in Rids
             PROVE  (IF \E t \in EnqsOf(x) : t.rid = r
                     THEN [pfid |-> (CHOOSE t \in EnqsOf(x) : t.rid = r).pfid, lock |-> FALSE]
                     ELSE emap[r]) \in [pfid : Files \cup {NoFile}, lock : BOOLEAN]
  BY DEF WithEnqs, Emap
<1>1. emap[r] \in [pfid : Files \cup {NoFile}, lock : BOOLEAN]
  BY DEF TypeOK, MapTypes
<1>2. EnqsOf(x) \subseteq EntryType
  BY EntriesFinite DEF TypeOK, EnqsOf
<1>3. CASE \E t \in EnqsOf(x) : t.rid = r
  <2>1. (CHOOSE t \in EnqsOf(x) : t.rid = r) \in EntryType
    BY <1>2, <1>3
  <2> QED BY <1>3, <2>1 DEF EntryType
<1> QED BY <1>1, <1>3

\* By a commit.
LEMMA CommitTxnType == TypeOK /\ CommitTxn => TypeOK'
<1> SUFFICES ASSUME TypeOK, CommitTxn PROVE TypeOK'
  OBVIOUS
<1> DEFINE x == T.xid
           deqd == {t.drid : t \in DeqsOf(x)}
           removed == {[rid |-> d, pfid |-> WithEnqs(x)[d].pfid] : d \in deqd}
           error == IF \E t \in EnqsOf(x) : InEmap(t.rid) THEN "MAP_DUPLICATE"
                    ELSE IF DeqNotFound(x) THEN "MAP_NOTFOUND"
                    ELSE IF Missing(removed) THEN "UNDERFLOW"
                    ELSE IF x \in pend THEN "MAP_DUPLICATE" ELSE "none"
           newEmap == [r \in Rids |-> IF r \in deqd THEN NoEntry ELSE WithEnqs(x)[r]]
<1>1. op.kind = "commit" /\ CloseTxn(error, newEmap, Without(removed))
  BY DEF CommitTxn
<1>2. x \in Xids
  BY <1>1, RecordedType DEF CloseTxn, TypeOK, TokShape, T
<1>3. newEmap \in Emap
  BY <1>2, WithEnqsType DEF Emap, NoEntry
<1>4. error \in Faults /\ (error = "none" => ~Missing(removed))
  OBVIOUS
<1>5. IsFiniteSet(removed)
  <2> DEFINE taken == [t \in DeqsOf(x) |-> [rid |-> t.drid, pfid |-> WithEnqs(x)[t.drid].pfid]]
  <2>1. taken \in Surjection(DeqsOf(x), removed)
    BY DEF Surjection
  <2> QED BY <1>2, <2>1, EntriesFinite, FS_Surjection DEF TypeOK
<1>6. ~Missing(removed) => Without(removed) \in [Files -> FileType]
  BY <1>5, WithoutType DEF TypeOK
<1> HIDE DEF newEmap, error, removed
<1> QED BY <1>1, <1>2, <1>3, <1>4, <1>6, CloseTxnType

\* Sizes are numbers.
LEMMA SizesInNat == SblkDblks \in Nat /\ PageDblks \in Nat /\ 0 \in 0 .. PageDblks
BY RingAssumption

\* file_header_check().
LEMMA FileHeaderCheckType == TypeOK /\ FileHeaderCheck => TypeOK'
<1> SUFFICES ASSUME TypeOK, FileHeaderCheck PROVE TypeOK'
  OBVIOUS
<1> DEFINE pc == IF pgOffset >= PageDblks THEN "flush" ELSE "exit"
<1>1. op.pc = "header" /\ op \in OpType /\ op.kind \in Kinds /\ fault \in Faults /\ busy \subseteq Kinds
  BY OpKinds DEF FileHeaderCheck, At, TypeOK, CallTypes
<1>2. /\ IF IsVoid(file[ring.idx]) THEN WriteFileHeader ELSE UNCHANGED <<file, evtRem>>
      /\ op' = [op EXCEPT !.pc = pc]
      /\ UNCHANGED <<ring, page, pgIndex, pgOffset, pgCntr, cached, busy, tok, mapVars, fault>>
  BY DEF FileHeaderCheck, Goto
<1>3. pc \in {"flush", "exit"}
  OBVIOUS
<1> HIDE DEF pc
<1>4. op' \in OpType
  BY <1>1, <1>2, <1>3, OpMoves DEF Pcs
<1>5. op'.kind = op.kind /\ op'.rid = op.rid /\ op'.done = op.done /\ op'.pc = pc
  BY <1>1, <1>2 DEF OpType
<1>6. CallTypes' /\ OpShape' /\ TokShape'
  BY <1>1, <1>2, <1>3, <1>4, <1>5, CallGoesOn
<1>7. file' \in [Files -> FileType] /\ evtRem' \in Nat
  <2>1. file \in [Files -> FileType] /\ ring.idx \in Files /\ evtRem \in Nat
    BY DEF TypeOK, FileTypes, RingType, PageTypes
  <2>2. Submit(file[ring.idx], SblkDblks) \in FileType
    BY <2>1, SizesInNat, FileOps
  <2>3. [Submit(file[ring.idx], SblkDblks) EXCEPT !.fhdr = TRUE] \in FileType
    BY <2>2 DEF FileType
  <2> QED BY <1>2, <2>1, <2>3 DEF WriteFileHeader
<1>8. FileTypes' /\ PageTypes' /\ MapTypes' /\ PageShape'
  BY <1>2, <1>7 DEF TypeOK, FileTypes, PageTypes, MapTypes, PageShape, mapVars
<1> QED BY <1>6, <1>8 DEF TypeOK

\* A page is submitted.
LEMMA SubmitPageType == TypeOK /\ SubmitPage =>
    FileTypes' /\ PageTypes' /\ PageShape' /\ fault' \in Faults
<1> SUFFICES ASSUME TypeOK, SubmitPage
             PROVE  FileTypes' /\ PageTypes' /\ PageShape' /\ fault' \in Faults
  OBVIOUS
<1> DEFINE n == RoundUp(cached)
           offset == pgOffset + n - cached
           full == offset >= PageDblks
           next == (pgIndex + 1) % NumPages
           sent == [page EXCEPT ![pgIndex] =
                        [@ EXCEPT !.st = "AIO_PENDING", !.wd = n, !.wfh = ring.idx]]
           error == IF page[pgIndex].st # "IN_USE" THEN "BADPGSTATE"
                    ELSE IF Overflows(file[ring.idx], n) THEN "FILEOFFSOVFL" ELSE "none"
<1>1. CASE error # "none"
  <2>1. Throw(error) /\ UNCHANGED <<fileVars, pageVars>>
    BY <1>1 DEF SubmitPage
  <2> QED BY <2>1 DEF TypeOK, FileTypes, PageTypes, PageShape, fileVars, pageVars, Throw
<1>2. CASE error = "none"
  <2>1. /\ file' = [file EXCEPT ![ring.idx] = Submit(@, n)]
        /\ page' = [sent EXCEPT ![next].st = IF @ = "UNUSED" THEN "IN_USE" ELSE @]
        /\ pgIndex' = next
        /\ pgOffset' = IF full THEN 0 ELSE offset
        /\ pgCntr' = IF full THEN pgCntr + 1 ELSE pgCntr
        /\ cached' = 0
        /\ evtRem' = evtRem + 1
        /\ UNCHANGED <<ring, fault>>
    BY <1>2 DEF SubmitPage
  <2>2. /\ file \in [Files -> FileType] /\ ring.idx \in Files /\ ring \in RingType
        /\ page \in [Pages -> PageType] /\ pgIndex \in Pages /\ evtRem \in Nat
        /\ pgOffset \in 0 .. PageDblks /\ cached \in 0 .. pgOffset /\ pgCntr \in Nat
        /\ fault \in Faults
    BY DEF TypeOK, FileTypes, RingType, PageTypes, CallTypes
  <2>3. n \in Nat /\ cached \in Nat /\ pgOffset - cached \in Nat
    BY <2>2, RoundUpNat, SizesInNat
  <2>4. next \in Pages
    BY <2>2, NextPageInPages
  <2> HIDE DEF n, next
  <2>5. [page[pgIndex] EXCEPT !.st = "AIO_PENDING", !.wd = n, !.wfh = ring.idx] \in PageType
    BY <2>2, <2>3, Zenon DEF PageType
  <2>6. sent \in [Pages -> PageType]
    BY <2>2, <2>5
  <2>7. \A p \in Pages : sent[p].st = "AIO_PENDING" => sent[p].wfh \in Files
    <3>1. sent[pgIndex] = [page[pgIndex] EXCEPT !.st = "AIO_PENDING", !.wd = n, !.wfh = ring.idx]
      BY <2>2
    <3>2. sent[pgIndex].wfh = ring.idx
      BY <2>2, <3>1 DEF PageType
    <3>3. \A p \in Pages : p # pgIndex => sent[p] = page[p]
      BY <2>2
    <3> QED BY <2>2, <3>2, <3>3 DEF TypeOK, PageShape
  <2> HIDE DEF sent
  <2>8. page' \in [Pages -> PageType]
    BY <2>1, <2>4, <2>6 DEF PageType
  <2>9. \A p \in Pages : page'[p].wfh = sent[p].wfh
                         /\ (page'[p].st = "AIO_PENDING" => sent[p].st = "AIO_PENDING")
    BY <2>1, <2>4, <2>6 DEF PageType
  <2>10. PageShape'
    BY <2>7, <2>9 DEF PageShape
  <2>11. pgOffset' \in 0 .. PageDblks /\ cached' \in 0 .. pgOffset' /\ pgCntr' \in Nat
    BY <2>1, <2>2, <2>3, SizesInNat
  <2>12. PageTypes'
    BY <2>1, <2>2, <2>4, <2>8, <2>11 DEF PageTypes
  <2>13. FileTypes'
    <3>1. Submit(file[ring.idx], n) \in FileType
      BY <2>2, <2>3, FileOps
    <3> QED BY <2>1, <2>2, <3>1 DEF FileTypes
  <2> QED BY <2>1, <2>2, <2>10, <2>12, <2>13
<1> QED BY <1>1, <1>2

\* write_flush().
LEMMA WriteFlushType == TypeOK /\ WriteFlush => TypeOK'
<1> SUFFICES ASSUME TypeOK, WriteFlush PROVE TypeOK'
  OBVIOUS
<1> DEFINE res == IF cached > 0 /\ PageBlocked THEN "PAGE_AIOWAIT" ELSE op.res
<1>1. op.pc = "flush" /\ op \in OpType /\ fault \in Faults /\ busy \subseteq Kinds
  BY OpKinds DEF WriteFlush, At, TypeOK, CallTypes
<1>2. /\ IF cached = 0 \/ PageBlocked
         THEN UNCHANGED <<fileVars, pageVars, fault>> ELSE SubmitPage
      /\ op' = [op EXCEPT !.pc = "reap", !.res = res]
      /\ UNCHANGED <<busy, tok, mapVars>>
  BY DEF WriteFlush
<1>3. res \in Results
  BY <1>1 DEF OpType
<1> HIDE DEF res
<1>4. FileTypes' /\ PageTypes' /\ PageShape' /\ fault' \in Faults
  BY <1>1, <1>2, SubmitPageType
     DEF TypeOK, FileTypes, PageTypes, PageShape, fileVars, pageVars
<1>5. op' \in OpType
  BY <1>1, <1>2, <1>3, OpMoves DEF Pcs
<1>6. op'.kind = op.kind /\ op'.rid = op.rid /\ op'.done = op.done /\ op'.pc = "reap"
  BY <1>1, <1>2 DEF OpType
<1>7. CallTypes' /\ OpShape' /\ TokShape'
  BY <1>1, <1>2, <1>4, <1>5, <1>6, CallGoesOn
<1> QED BY <1>2, <1>4, <1>7 DEF TypeOK, MapTypes, mapVars

\* flush_check().
LEMMA FlushCheckType == TypeOK /\ FlushCheck => TypeOK'
<1> SUFFICES ASSUME TypeOK, FlushCheck PROVE TypeOK'
  OBVIOUS
<1> DEFINE pageWait == PageBlocked /\ ~op.done
           rotate   == pgCntr >= FilePages
           rotated  == RotateResult(ring, file)
           res      == IF rotate /\ rotated # "SUCCESS" THEN rotated
                       ELSE IF pageWait THEN "PAGE_AIOWAIT" ELSE op.res
           stop     == op.done \/ pageWait \/ (rotate /\ rotated # "SUCCESS")
           pc       == IF stop THEN "exit" ELSE "encode"
           next     == After(ring.idx, 1)
<1>1. op.pc = "reap" /\ op \in OpType /\ fault \in Faults /\ busy \subseteq Kinds
  BY OpKinds DEF FlushCheck, At, TypeOK, CallTypes
<1>2. /\ page' = OpenPage(page)
      /\ pgCntr' = IF rotate THEN 0 ELSE pgCntr
      /\ ring' = IF rotate THEN Rotated(ring, file) ELSE ring
      /\ file' = IF rotate THEN [file EXCEPT ![next] = WrReset(@)] ELSE file
      /\ op' = [op EXCEPT !.pc = pc, !.res = res]
      /\ UNCHANGED <<pgIndex, pgOffset, cached, evtRem, busy, tok, mapVars, fault>>
  BY DEF FlushCheck
<1>3. res \in Results
  BY <1>1 DEF OpType, RotateResult
<1>4. pc \in {"exit", "encode"} /\ (op.kind = "flush" => pc = "exit")
  BY DEF TypeOK, OpShape
<1> HIDE DEF res, pc, rotate
<1>5. op' \in OpType
  BY <1>1, <1>2, <1>3, <1>4, OpMoves DEF Pcs
<1>6. op'.kind = op.kind /\ op'.rid = op.rid /\ op'.done = op.done /\ op'.pc = pc
  BY <1>1, <1>2 DEF OpType
<1>7. CallTypes' /\ OpShape' /\ TokShape'
  BY <1>1, <1>2, <1>4, <1>5, <1>6, CallGoesOn
<1>8. FileTypes'
  <2>1. file \in [Files -> FileType] /\ ring \in RingType /\ ring.idx \in Files
    BY DEF TypeOK, FileTypes, RingType
  <2>2. next \in Files
    BY <2>1, AfterInFiles
  <2> HIDE DEF next
  <2>3. WrReset(file[next]) \in FileType
    BY <2>1, <2>2, FileOps
  <2> QED BY <1>2, <2>1, <2>2, <2>3, RotatedType DEF TypeOK, FileTypes
<1>9. PageTypes' /\ PageShape'
  <2>1. pgCntr' \in Nat
    BY <1>2 DEF TypeOK, PageTypes
  <2> QED BY <1>2, <2>1, OpenPageType DEF TypeOK, PageTypes, PageShape
<1> QED BY <1>2, <1>7, <1>8, <1>9 DEF TypeOK, MapTypes, mapVars

\* The end of a call.
LEMMA ExitType == TypeOK /\ Exit => TypeOK'
<1> SUFFICES ASSUME TypeOK, Exit PROVE TypeOK'
  OBVIOUS
<1>1. op.pc = "exit" /\ op \in OpType /\ fault \in Faults /\ busy \subseteq Kinds
      /\ tok \in [Rids -> TokType]
  BY OpKinds DEF Exit, At, TypeOK, CallTypes
<1>2. FileTypes' /\ PageTypes' /\ MapTypes' /\ PageShape'
  BY DEF Exit, TypeOK, FileTypes, PageTypes, MapTypes, PageShape,
         fileVars, pageVars, mapVars
<1>3. busy' \subseteq Kinds /\ fault' \in Faults
  BY <1>1 DEF Exit
<1>4. CASE op.kind # "flush" /\ op.res \in {"PAGE_AIOWAIT", "FILE_AIOWAIT"}
  <2>1. op' = [op EXCEPT !.pc = "wait"] /\ UNCHANGED tok
    BY <1>4 DEF Exit, Goto
  <2>2. op' \in OpType
    BY <1>1, <2>1, OpMoves DEF Pcs
  <2>3. op'.kind = op.kind /\ op'.rid = op.rid /\ op'.done = op.done /\ op'.pc = "wait"
    BY <1>1, <2>1 DEF OpType
  <2>4. CallTypes' /\ OpShape' /\ TokShape'
    BY <1>1, <1>3, <1>4, <2>1, <2>2, <2>3, CallGoesOn
  <2> QED BY <1>2, <2>4 DEF TypeOK
<1>5. CASE ~(op.kind # "flush" /\ op.res \in {"PAGE_AIOWAIT", "FILE_AIOWAIT"})
  <2>1. /\ op' = NoOp
        /\ tok' = [r \in Rids |-> IF r = op.rid /\ tok[r].st = "NONE" THEN NoTok ELSE tok[r]]
    BY <1>5 DEF Exit
  <2>2. NoTok \in TokType /\ NoTok.kind = "none" /\ NoTok.st = "NONE"
        /\ NoTok.written = 0 /\ NoTok.size = 0
    BY DEF NoTok, TokType
  <2>3. NoOp \in OpType /\ NoOp.kind = "none" /\ NoOp.pc = "idle"
    BY DEF NoOp, OpType
  <2>4. tok' \in [Rids -> TokType]
    BY <1>1, <2>1, <2>2
  <2>5. TokShape'
    BY <2>1, <2>2 DEF TypeOK, TokShape
  <2>6. CallTypes' /\ OpShape'
    BY <1>3, <2>1, <2>3, <2>4 DEF CallTypes, OpShape
  <2> QED BY <1>2, <2>5, <2>6 DEF TypeOK
<1> QED BY <1>4, <1>5

\* handle_aio_wait().
LEMMA WaitType == TypeOK /\ (Wait \/ WaitTimeout) => TypeOK'
<1> SUFFICES ASSUME TypeOK, Wait \/ WaitTimeout PROVE TypeOK'
  OBVIOUS
<1>1. /\ op.pc = "wait" /\ op \in OpType /\ op.kind \in Kinds /\ op.rid \in Rids
      /\ tok[op.rid].kind = op.kind
      /\ fault \in Faults /\ busy \subseteq Kinds
      /\ UNCHANGED <<pageVars, busy, tok, mapVars, fault>>
  BY OpKinds DEF Wait, WaitPage, WaitFile, WaitTimeout, At, TypeOK, CallTypes, T
<1>2. PageTypes' /\ MapTypes' /\ PageShape' /\ TokShape'
  BY <1>1 DEF TypeOK, PageTypes, MapTypes, PageShape, TokShape, pageVars, mapVars
<1>3. ASSUME Start(op.kind, op.rid) \/ op' = NoOp PROVE CallTypes' /\ OpShape'
  <2>1. CASE Start(op.kind, op.rid)
    <3>1. op' = [NoOp EXCEPT !.pc = "check", !.kind = op.kind, !.rid = op.rid]
          /\ op' \in OpType
      BY <1>1, <2>1, OpStarts DEF Start
    <3>2. op'.pc = "check" /\ op'.kind = op.kind /\ op'.rid = op.rid
      BY <3>1 DEF NoOp
    <3> QED BY <1>1, <3>1, <3>2 DEF TypeOK, CallTypes, OpShape, T
  <2>2. CASE op' = NoOp
    <3>1. NoOp \in OpType /\ NoOp.kind = "none" /\ NoOp.pc = "idle"
      BY DEF NoOp, OpType
    <3> QED BY <1>1, <2>2, <3>1 DEF TypeOK, CallTypes, OpShape
  <2> QED BY <1>3, <2>1, <2>2
<1>4. CASE WaitPage
  <2>1. Start(op.kind, op.rid) /\ UNCHANGED fileVars
    BY <1>4 DEF WaitPage
  <2> QED BY <1>2, <1>3, <2>1 DEF TypeOK, FileTypes, fileVars
<1>5. CASE WaitFile
  <2>1. /\ Start(op.kind, op.rid) \/ op' = NoOp
        /\ file' = [file EXCEPT ![ring.idx] = WrReset(@)]
        /\ ring' = [ring EXCEPT !.resetOk = CanReset(file[ring.idx])]
    BY <1>5 DEF WaitFile
  <2>2. file \in [Files -> FileType] /\ ring \in RingType /\ ring.idx \in Files
    BY DEF TypeOK, FileTypes, RingType
  <2>3. WrReset(file[ring.idx]) \in FileType /\ CanReset(file[ring.idx]) \in BOOLEAN
    BY <2>2, FileOps DEF CanReset
  <2>4. file' \in [Files -> FileType] /\ ring' \in RingType
    BY <2>1, <2>2, <2>3 DEF RingType
  <2>5. FileTypes'
    BY <2>4 DEF FileTypes
  <2> QED BY <1>2, <1>3, <2>1, <2>5 DEF TypeOK
<1>6. CASE WaitTimeout
  <2>1. op' = [op EXCEPT !.pc = "exit", !.res = "AIOCMPLWAIT"] /\ UNCHANGED fileVars
    BY <1>6 DEF WaitTimeout, Return
  <2>2. op' \in OpType
    BY <1>1, <2>1, OpMoves DEF Pcs
  <2>3. op'.kind = op.kind /\ op'.rid = op.rid /\ op'.done = op.done /\ op'.pc = "exit"
    BY <1>1, <2>1 DEF OpType
  <2>4. CallTypes' /\ OpShape' /\ TokShape'
    BY <1>1, <2>2, <2>3, CallGoesOn
  <2> QED BY <1>2, <2>1, <2>4 DEF TypeOK, FileTypes, fileVars
<1> QED BY <1>4, <1>5, <1>6 DEF Wait

\* A file header is on disk.
LEMMA ReapHeaderType == ASSUME TypeOK, NEW f \in Files, ReapHeader(f) PROVE TypeOK'
<1> DEFINE error == CompleteError(file[f], SblkDblks)
<1>1. /\ Throw(error) /\ evtRem > 0 /\ evtRem' = evtRem - 1
      /\ file' = IF error # "none" THEN file ELSE
            [file EXCEPT ![f] = [Complete(@, SblkDblks) EXCEPT !.fhdr = FALSE]]
      /\ UNCHANGED <<ring, page, pgIndex, pgOffset, pgCntr, cached, busy, tok, mapVars, op>>
  BY DEF ReapHeader, Reaping
<1>2. file \in [Files -> FileType] /\ evtRem \in Nat
  BY DEF TypeOK, FileTypes, PageTypes
<1>3. error \in Faults /\ (error = "none" => Complete(file[f], SblkDblks) \in FileType)
  BY <1>2, SizesInNat, FileOps
<1> HIDE DEF error
<1>4. file' \in [Files -> FileType]
  <2>1. CASE error = "none"
    <3>1. [Complete(file[f], SblkDblks) EXCEPT !.fhdr = FALSE] \in FileType
      BY <1>3, <2>1 DEF FileType
    <3> QED BY <1>1, <1>2, <2>1, <3>1
  <2> QED BY <1>1, <1>2, <2>1
<1>5. evtRem' \in Nat /\ fault' \in Faults
  BY <1>1, <1>2, <1>3 DEF Throw
<1> QED BY <1>1, <1>4, <1>5
       DEF TypeOK, FileTypes, PageTypes, MapTypes, CallTypes, OpShape, TokShape,
           PageShape, T, mapVars

\* A page is on disk.
LEMMA ReapPageType == ASSUME TypeOK, NEW p \in Pages, ReapPage(p) PROVE TypeOK'
<1> DEFINE last  == Arrived(p)
           ended == EndedBy(last)
           fc    == file[page[p].wfh]
           error == IF \E r \in page[p].toks : tok[r].pgs = 0 THEN "ASSERT"
                    ELSE IF \E r \in last : tok[r].st # "SUBM" THEN "BADDTOKSTATE"
                    ELSE IF \E r \in ended : tok[r].xid \notin pend THEN "MAP_NOTFOUND"
                    ELSE CompleteError(fc, page[p].wd)
<1>1. /\ Throw(error) /\ evtRem > 0 /\ evtRem' = evtRem - 1
      /\ page[p].st = "AIO_PENDING"
      /\ UNCHANGED <<ring, pgIndex, pgOffset, pgCntr, cached, busy, emap, op>>
      /\ error # "none" => UNCHANGED <<file, page, tok, tmap, pend>>
  BY DEF ReapPage, Reaping
<1>2. /\ file \in [Files -> FileType] /\ evtRem \in Nat /\ page \in [Pages -> PageType]
      /\ tok \in [Rids -> TokType] /\ tmap \in [Xids -> Seq(EntryType)]
      /\ page[p].wfh \in Files /\ page[p].wd \in Nat
  BY <1>1 DEF TypeOK, FileTypes, PageTypes, CallTypes, MapTypes, PageType, PageShape
<1>3. error \in Faults /\ evtRem' \in Nat /\ fault' \in Faults
  <2>1. CompleteError(fc, page[p].wd) \in Faults
    BY <1>2, FileOps
  <2>2. error \in Faults
    BY <2>1
  <2> HIDE DEF error
  <2> QED BY <1>1, <1>2, <2>2 DEF Throw
<1>4. CASE error # "none"
  BY <1>1, <1>3, <1>4
     DEF TypeOK, FileTypes, PageTypes, MapTypes, CallTypes, OpShape, TokShape, PageShape, T
<1>5. CASE error = "none"
  <2>1. /\ \A r \in page[p].toks : tok[r].pgs # 0
        /\ CompleteError(fc, page[p].wd) = "none"
    BY <1>5
  <2>2. /\ tok' = [r \in Rids |-> IF r \in page[p].toks
              THEN [tok[r] EXCEPT !.pgs = @ - 1, !.st = IF r \in last THEN "COMPL" ELSE @]
              ELSE tok[r]]
        /\ tmap' = [x \in Xids |-> [i \in DOMAIN tmap[x] |->
              [tmap[x][i] EXCEPT !.aio = @ \/ tmap[x][i].rid \in last]]]
        /\ pend' = pend \ {tok[r].xid : r \in ended}
        /\ file' = [file EXCEPT ![page[p].wfh] = Complete(@, page[p].wd)]
        /\ page' = [page EXCEPT ![p] = FreePage]
    BY <1>5 DEF ReapPage
  <2>3. last \subseteq page[p].toks
        /\ \A r \in last : tok[r].kind # "none"
    <3>1. \A r \in last : tok[r].st = "SUBM"
      BY <1>5
    <3>2. last \subseteq Rids
      BY <1>2 DEF Arrived, PageType
    <3> QED BY <3>1, <3>2 DEF TypeOK, TokShape, Arrived
  <2> HIDE DEF last, ended, error
  <2>4. file' \in [Files -> FileType]
    <3>1. Complete(fc, page[p].wd) \in FileType
      BY <1>2, <2>1, FileOps
    <3> QED BY <1>2, <2>2, <3>1
  <2>5. page' \in [Pages -> PageType] /\ PageShape'
    <3>1. FreePage \in PageType /\ FreePage.st = "UNUSED"
      BY DEF FreePage, PageType
    <3> QED BY <1>2, <2>2, <3>1 DEF TypeOK, PageShape
  <2>6. \A r \in Rids :
            /\ tok'[r] \in TokType
            /\ tok'[r].kind = tok[r].kind /\ tok'[r].drid = tok[r].drid
            /\ tok'[r].xid = tok[r].xid /\ tok'[r].fid = tok[r].fid
            /\ tok'[r].written = tok[r].written /\ tok'[r].size = tok[r].size
            /\ (tok[r].kind = "none" => tok'[r].st = tok[r].st)
    <3> TAKE r \in Rids
    <3>1. tok[r] \in TokType
      BY <1>2
    <3>2. CASE r \in page[p].toks
      <4>1. tok[r].pgs - 1 \in Nat
        BY <2>1, <3>1, <3>2 DEF TokType
      <4>2. (IF r \in last THEN "COMPL" ELSE tok[r].st) \in {"NONE", "PART", "SUBM", "COMPL"}
        BY <3>1 DEF TokType
      <4>3. tok'[r] = [tok[r] EXCEPT !.pgs = @ - 1, !.st = IF r \in last THEN "COMPL" ELSE @]
        BY <2>2, <3>2
      <4>4. tok'[r] \in TokType
        BY <3>1, <4>1, <4>2, <4>3, Zenon DEF TokType
      <4> QED BY <2>3, <3>1, <4>3, <4>4 DEF TokType
    <3>3. CASE r \notin page[p].toks
      BY <2>2, <3>1, <3>3
    <3> QED BY <3>2, <3>3
  <2>7. tok' \in [Rids -> TokType]
    <3>1. tok' = [r \in Rids |-> tok'[r]]
      BY <2>2
    <3> QED BY <2>6, <3>1
  <2>8. TokShape'
    BY <2>6 DEF TypeOK, TokShape
  <2>9. CallTypes' /\ OpShape'
    BY <1>1, <1>3, <2>6, <2>7 DEF TypeOK, CallTypes, OpShape, OpType, T
  <2>10. tmap' \in [Xids -> Seq(EntryType)]
    <3>1. ASSUME NEW x \in Xids
          PROVE  [i \in DOMAIN tmap[x] |->
                    [tmap[x][i] EXCEPT !.aio = @ \/ tmap[x][i].rid \in last]] \in Seq(EntryType)
      <4>1. tmap[x] \in Seq(EntryType)
        BY <1>2
      <4>2. DOMAIN tmap[x] = 1 .. Len(tmap[x]) /\ Len(tmap[x]) \in Nat
        BY <4>1
      <4>3. \A i \in DOMAIN tmap[x] :
               [tmap[x][i] EXCEPT !.aio = @ \/ tmap[x][i].rid \in last] \in EntryType
        <5>1. \A e \in EntryType, b \in BOOLEAN : [e EXCEPT !.aio = b] \in EntryType
          BY DEF EntryType
        <5>2. \A i \in DOMAIN tmap[x] : tmap[x][i] \in EntryType
          BY <4>1
        <5>3. \A i \in DOMAIN tmap[x] : (tmap[x][i].aio \/ tmap[x][i].rid \in last) \in BOOLEAN
          OBVIOUS
        <5> QED BY <5>1, <5>2, <5>3, Zenon
      <4> QED BY <4>2, <4>3
    <3> QED BY <2>2, <3>1
  <2>11. MapTypes' /\ PageTypes' /\ FileTypes'
    BY <1>1, <1>3, <2>2, <2>4, <2>5, <2>10 DEF TypeOK, FileTypes, MapTypes, PageTypes
  <2> QED BY <2>5, <2>8, <2>9, <2>11 DEF TypeOK
<1> QED BY <1>4, <1>5

\* What every step of the writer preserves.
LEMMA NextType == TypeOK /\ [Next]_vars => TypeOK'
<1> SUFFICES ASSUME TypeOK, [Next]_vars PROVE TypeOK'
  OBVIOUS
<1>1. CASE Caller
  BY <1>1, CallerType
<1>2. CASE Holder
  <2>1. ASSUME Record PROVE TypeOK'
    BY <2>1, EnqueueDequeueType, AbortTxnType, CommitTxnType DEF Record
  <2> QED BY <1>2, <2>1, CheckType, EncodeType, FileHeaderCheckType, WriteFlushType,
             FlushCheckType, ExitType, WaitType DEF Holder
<1>3. CASE WaitTimeout
  BY <1>3, WaitType
<1>4. CASE Kernel
  BY <1>4, ReapPageType, ReapHeaderType DEF Kernel
<1>5. CASE UNCHANGED vars
  BY <1>5 DEF vars, fileVars, pageVars, mapVars, TypeOK, FileTypes, PageTypes, MapTypes,
              CallTypes, OpShape, TokShape, PageShape, T
<1> QED BY <1>1, <1>2, <1>3, <1>4, <1>5 DEF Next

\* In every reachable state of a journal of any size the counters of fcntl and
\* wmgr are natural numbers, no subtraction that the code guards goes below
\* zero, the write position stays inside its page, and a token has the fields
\* set that the step it is in relies on.
THEOREM TypeCorrect == Spec => []TypeOK
<1>1. Init => TypeOK
  BY InitType
<1>2. TypeOK /\ [Next]_vars => TypeOK'
  BY NextType
<1> QED BY <1>1, <1>2, PTL DEF Spec

-----------------------------------------------------------------------------
(* The calls: what they wait for and write.                                *)

\* The page a record is encoded into is open, and a call that is to wait for a
\* page has found it with the kernel.
PageInv ==
    /\ cached > 0 \/ op.pc = "encode" => page[pgIndex].st = "IN_USE"
    /\ op.res = "PAGE_AIOWAIT" => /\ op.pc \in {"exit", "wait"}
                                  /\ page[pgIndex].st # "IN_USE"

\* A call is working from its checks to its exit, and done when its record is
\* whole (the call may then still have to wait for the next file).
HalfKinds == {tok[r].kind : r \in HalfWritten}
Working == op.kind # "flush" /\ op.pc \in {"encode", "complete", "header", "flush", "reap"}
Done == /\ op.kind # "flush" /\ op.pc \in {"check", "exit", "wait"}
        /\ T.st \in {"SUBM", "COMPL"}

BusyInv ==
    /\ \A r, s \in HalfWritten : r = s
    /\ Working => busy = {op.kind} /\ HalfWritten \subseteq {op.rid}
    /\ Working /\ op.pc \in {"header", "flush", "reap"} => T.st # "NONE"
    /\ Done => /\ HalfWritten = {} /\ busy \subseteq {op.kind}
               /\ op.pc # "exit" => busy = {}
    /\ ~Working /\ ~Done => busy = HalfKinds

-----------------------------------------------------------------------------
(* Waiting for a page (jcntl::handle_aio_wait).                            *)

\* A step that leaves the current page as it is, and neither comes back to the
\* copy loop nor finds a page with the kernel, keeps the invariant.
LEMMA PageKept ==
    ASSUME PageInv, page'[pgIndex'].st = page[pgIndex].st, cached' = cached,
           op'.pc = "encode" => op.pc = "encode",
           op'.res = "PAGE_AIOWAIT" => op.res = "PAGE_AIOWAIT" /\ op'.pc \in {"exit", "wait"}
    PROVE  PageInv'
BY DEF PageInv

\* wmgr::pre_write_check() and flush_check() open the page if it is free.
LEMMA OpenPageOpens == TypeOK =>
    /\ ~PageBlocked => OpenPage(page)[pgIndex].st = "IN_USE"
    /\ PageBlocked => OpenPage(page)[pgIndex].st = "AIO_PENDING"
    /\ page[pgIndex].st = "IN_USE" => OpenPage(page)[pgIndex].st = "IN_USE"
<1> SUFFICES ASSUME TypeOK
             PROVE  /\ ~PageBlocked => OpenPage(page)[pgIndex].st = "IN_USE"
                    /\ PageBlocked => OpenPage(page)[pgIndex].st = "AIO_PENDING"
                    /\ page[pgIndex].st = "IN_USE" => OpenPage(page)[pgIndex].st = "IN_USE"
  OBVIOUS
<1>1. page \in [Pages -> PageType] /\ pgIndex \in Pages
  BY DEF TypeOK, PageTypes
<1>2. page[pgIndex].st \in {"UNUSED", "IN_USE", "AIO_PENDING"}
  BY <1>1 DEF PageType
<1>3. ASSUME page[pgIndex].st = "UNUSED" PROVE OpenPage(page)[pgIndex].st = "IN_USE"
  <2>1. OpenPage(page) = [page EXCEPT ![pgIndex].st = "IN_USE"]
    BY <1>3 DEF OpenPage
  <2> QED BY <1>1, <2>1 DEF PageType
<1> QED BY <1>2, <1>3 DEF OpenPage, PageBlocked

\* The call in progress after one of its moves.
LEMMA OpAfter == op \in OpType => \A pc, res :
    /\ [op EXCEPT !.pc = pc].pc = pc /\ [op EXCEPT !.pc = pc].res = op.res
    /\ [op EXCEPT !.pc = pc].kind = op.kind /\ [op EXCEPT !.pc = pc].rid = op.rid
    /\ [op EXCEPT !.pc = pc, !.res = res].pc = pc
    /\ [op EXCEPT !.pc = pc, !.res = res].res = res
    /\ [op EXCEPT !.pc = pc, !.res = res].kind = op.kind
    /\ [op EXCEPT !.pc = pc, !.res = res].rid = op.rid
    /\ [op EXCEPT !.pc = pc, !.done = TRUE].pc = pc
    /\ [op EXCEPT !.pc = pc, !.done = TRUE].res = op.res
    /\ [op EXCEPT !.pc = pc, !.done = TRUE].kind = op.kind
    /\ [op EXCEPT !.pc = pc, !.done = TRUE].rid = op.rid
BY DEF OpType

\* The first page is open.
LEMMA InitPage == Init => PageInv
<1> SUFFICES ASSUME Init PROVE PageInv
  OBVIOUS
<1>1. 0 \in Pages
  BY WmgrAssumption DEF Pages
<1> QED BY <1>1 DEF Init, PageInv, NoOp, FreePage

\* A call starts.
LEMMA CallerPage == PageInv /\ Caller => PageInv'
<1> SUFFICES ASSUME PageInv, Caller PROVE PageInv'
  OBVIOUS
<1>1. UNCHANGED pageVars /\ op'.pc \in {"check", "flush"} /\ op'.res = "SUCCESS"
  BY DEF Caller, CallEnqueue, CallDequeue, CallEnd, NewCall, Retry, CallFlush, Start, NoOp
<1> QED BY <1>1, PageKept DEF pageVars

\* The checks: a call that waits has found the page blocked.
LEMMA CheckPageInv == TypeOK /\ PageInv /\ Check => PageInv'
<1> SUFFICES ASSUME TypeOK, PageInv, Check PROVE PageInv'
  OBVIOUS
<1>1. op \in OpType
  BY DEF TypeOK, CallTypes
<1>2. CASE CheckBusy \/ CheckFull
  <2>1. UNCHANGED pageVars
    BY <1>2 DEF CheckBusy, CheckFull
  <2>2. PICK res \in {"BUSY", "FULL"} : op' = [op EXCEPT !.pc = "exit", !.res = res]
    BY <1>2 DEF CheckBusy, CheckFull, Return
  <2>3. op'.pc = "exit" /\ op'.res # "PAGE_AIOWAIT"
    BY <1>1, <2>2, OpAfter
  <2> QED BY <2>1, <2>3, PageKept DEF pageVars
<1>3. CASE CheckPage
  <2>1. UNCHANGED pageVars /\ op'.pc = "exit" /\ PageBlocked
    BY <1>1, <1>3, OpAfter DEF CheckPage, Return
  <2> QED BY <2>1 DEF PageInv, pageVars, PageBlocked
<1>4. CASE CheckRefused \/ CheckOk
  <2>1. page' = OpenPage(page) /\ pgIndex' = pgIndex /\ ~PageBlocked
    BY <1>4 DEF CheckRefused, CheckOk, PageChecked
  <2>2. page'[pgIndex'].st = "IN_USE"
    BY <2>1, OpenPageOpens
  <2>3. op'.res # "PAGE_AIOWAIT"
    <3>1. CASE CheckRefused
      <4>1. PICK res \in {"ENQCAPTHRESH", "ENQDISCONT", "DEQREFUSED"} :
                op' = [op EXCEPT !.pc = "exit", !.res = res]
        BY <3>1 DEF CheckRefused, Return
      <4> QED BY <1>1, <4>1, OpAfter
    <3>2. CASE CheckOk
      <4>1. op' = [op EXCEPT !.pc = "encode"] /\ op.pc = "check"
        BY <3>2 DEF CheckOk, PageChecked, FileChecked, At, Goto
      <4> QED BY <1>1, <4>1, OpAfter DEF PageInv
    <3> QED BY <1>4, <3>1, <3>2
  <2> QED BY <2>2, <2>3 DEF PageInv
<1> QED BY <1>2, <1>3, <1>4 DEF Check

\* The copy loop writes to an open page.
LEMMA RecordPage == TypeOK /\ PageInv /\ (Encode \/ Record \/ FileHeaderCheck) => PageInv'
<1> SUFFICES ASSUME TypeOK, PageInv, Encode \/ Record \/ FileHeaderCheck PROVE PageInv'
  OBVIOUS
<1>1. op \in OpType /\ page \in [Pages -> PageType] /\ pgIndex \in Pages
  BY DEF TypeOK, CallTypes, PageTypes
<1>2. CASE Encode
  <2>1. /\ op.pc = "encode" /\ pgIndex' = pgIndex
        /\ page' = [page EXCEPT ![pgIndex].toks = @ \cup {op.rid}]
    BY <1>2 DEF Encode, At
  <2>2. \E pc \in {"complete", "header"} : op' = [op EXCEPT !.pc = pc]
    BY <1>2 DEF Encode, Goto
  <2>3. page'[pgIndex'].st = page[pgIndex].st
    BY <1>1, <2>1 DEF PageType
  <2>4. op'.res = op.res /\ op'.pc # "encode"
    BY <1>1, <2>2, OpAfter
  <2> QED BY <2>1, <2>3, <2>4 DEF PageInv
<1>3. CASE Record
  <2>1. op.pc = "complete" /\ UNCHANGED pageVars /\ op' = [op EXCEPT !.pc = "header", !.done = TRUE]
    BY <1>3 DEF Record, EnqueueTxn, EnqueueNonTxn, DequeueTxn, DequeueNonTxn,
                AbortTxn, CommitTxn, CloseTxn, Recorded, At
  <2>2. op'.pc = "header" /\ op'.res = op.res
    BY <1>1, <2>1, OpAfter
  <2> QED BY <2>1, <2>2 DEF PageInv, pageVars
<1>4. CASE FileHeaderCheck
  <2>1. op.pc = "header" /\ UNCHANGED <<page, pgIndex, cached>>
    BY <1>4 DEF FileHeaderCheck, At
  <2>2. \E pc \in {"flush", "exit"} : op' = [op EXCEPT !.pc = pc]
    BY <1>4 DEF FileHeaderCheck, Goto
  <2>3. op'.pc # "encode" /\ op'.res = op.res
    BY <1>1, <2>2, OpAfter
  <2> QED BY <2>1, <2>3 DEF PageInv
<1> QED BY <1>2, <1>3, <1>4

\* wmgr::write_flush(): a page that holds data is open, so it is never found with
\* the kernel, and the result of the call stays as it was.
LEMMA WriteFlushPage == TypeOK /\ PageInv /\ WriteFlush => PageInv'
<1> SUFFICES ASSUME TypeOK, PageInv, WriteFlush PROVE PageInv'
  OBVIOUS
<1>1. op \in OpType /\ op.pc = "flush" /\ cached \in Nat
  <2>1. cached \in 0 .. pgOffset /\ pgOffset \in 0 .. PageDblks
    BY DEF TypeOK, PageTypes
  <2> QED BY <2>1, SizesInNat DEF TypeOK, CallTypes, WriteFlush, At
<1>2. ~(cached > 0 /\ PageBlocked)
  BY DEF PageInv, PageBlocked
<1>3. op' = [op EXCEPT !.pc = "reap", !.res = op.res]
  BY <1>2 DEF WriteFlush
<1>4. op'.pc = "reap" /\ op'.res # "PAGE_AIOWAIT"
  BY <1>1, <1>3, OpAfter DEF PageInv
<1>5. UNCHANGED pageVars \/ cached' = 0
  BY DEF WriteFlush, SubmitPage
<1> QED BY <1>1, <1>4, <1>5 DEF PageInv, pageVars

\* wmgr::flush_check(): the call only goes on in a page that is open.
LEMMA FlushCheckPage == TypeOK /\ PageInv /\ FlushCheck => PageInv'
<1> SUFFICES ASSUME TypeOK, PageInv, FlushCheck PROVE PageInv'
  OBVIOUS
<1> DEFINE pageWait == PageBlocked /\ ~op.done
           rotate   == pgCntr >= FilePages
           rotated  == RotateResult(ring, file)
           res      == IF rotate /\ rotated # "SUCCESS" THEN rotated
                       ELSE IF pageWait THEN "PAGE_AIOWAIT" ELSE op.res
           stop     == op.done \/ pageWait \/ (rotate /\ rotated # "SUCCESS")
           pc       == IF stop THEN "exit" ELSE "encode"
<1>1. op \in OpType /\ op.pc = "reap" /\ op.res # "PAGE_AIOWAIT"
  BY DEF TypeOK, CallTypes, FlushCheck, At, PageInv
<1>2. page' = OpenPage(page) /\ op' = [op EXCEPT !.pc = pc, !.res = res]
      /\ UNCHANGED <<pgIndex, cached>>
  BY DEF FlushCheck
<1>3. op'.pc = pc /\ op'.res = res
  <2> HIDE DEF pc, res
  <2> QED BY <1>1, <1>2, OpAfter
<1>4. rotated # "PAGE_AIOWAIT"
  BY DEF RotateResult
<1>5. op'.pc = "encode" => ~PageBlocked
  BY <1>3
<1>6. op'.res = "PAGE_AIOWAIT" => op'.pc = "exit" /\ PageBlocked
  BY <1>1, <1>3, <1>4
<1> HIDE DEF pageWait, rotate, rotated, res, stop, pc
<1> QED BY <1>2, <1>5, <1>6, OpenPageOpens DEF PageInv

\* The end of a call, and its waits, open no page.
LEMMA ExitPage == TypeOK /\ PageInv /\ (Exit \/ Wait \/ WaitTimeout) => PageInv'
<1> SUFFICES ASSUME TypeOK, PageInv, Exit \/ Wait \/ WaitTimeout PROVE PageInv'
  OBVIOUS
<1>1. op \in OpType
  BY DEF TypeOK, CallTypes
<1>2. UNCHANGED pageVars
  BY DEF Exit, Wait, WaitPage, WaitFile, WaitTimeout
<1>3. \/ op' = [op EXCEPT !.pc = "wait"]
      \/ op' = NoOp
      \/ op' = [NoOp EXCEPT !.pc = "check", !.kind = op.kind, !.rid = op.rid]
      \/ op' = [op EXCEPT !.pc = "exit", !.res = "AIOCMPLWAIT"]
  BY DEF Exit, Wait, WaitPage, WaitFile, WaitTimeout, Goto, Start, Return
<1>4. op'.pc # "encode" /\ (op'.res = "PAGE_AIOWAIT" => op.res = "PAGE_AIOWAIT" /\ op'.pc = "wait")
  <2>1. CASE op' = [op EXCEPT !.pc = "wait"]
    BY <1>1, <2>1, OpAfter
  <2>2. CASE op' = NoOp
    BY <2>2 DEF NoOp
  <2>3. CASE op' = [NoOp EXCEPT !.pc = "check", !.kind = op.kind, !.rid = op.rid]
    BY <2>3 DEF NoOp
  <2>4. CASE op' = [op EXCEPT !.pc = "exit", !.res = "AIOCMPLWAIT"]
    BY <1>1, <2>4, OpAfter
  <2> QED BY <1>3, <2>1, <2>2, <2>3, <2>4
<1> QED BY <1>2, <1>4, PageKept DEF pageVars

\* A write that completes frees a page that was with the kernel, never the one
\* that is being filled (wmgr::get_events).
LEMMA KernelPage == TypeOK /\ PageInv /\ Kernel => PageInv'
<1> SUFFICES ASSUME TypeOK, PageInv, Kernel PROVE PageInv'
  OBVIOUS
<1>1. page \in [Pages -> PageType] /\ pgIndex \in Pages
  BY DEF TypeOK, PageTypes
<1>2. ASSUME NEW p \in Pages, ReapPage(p) PROVE PageInv'
  <2>1. /\ page[p].st = "AIO_PENDING" /\ UNCHANGED <<pgIndex, cached, op>>
        /\ page' = page \/ page' = [page EXCEPT ![p] = FreePage]
    BY <1>2 DEF ReapPage
  <2>2. page'[pgIndex].st = page[pgIndex].st
        \/ (page[pgIndex].st = "AIO_PENDING" /\ page'[pgIndex].st = "UNUSED")
    BY <1>1, <2>1 DEF FreePage
  <2> QED BY <2>1, <2>2 DEF PageInv
<1>3. ASSUME NEW f \in Files, ReapHeader(f) PROVE PageInv'
  <2>1. UNCHANGED <<page, pgIndex, cached, op>>
    BY <1>3 DEF ReapHeader
  <2> QED BY <2>1 DEF PageInv
<1> QED BY <1>2, <1>3 DEF Kernel

\* Every step keeps the invariant of the pages.
LEMMA NextPage == TypeOK /\ PageInv /\ [Next]_vars => PageInv'
<1> SUFFICES ASSUME TypeOK, PageInv, [Next]_vars PROVE PageInv'
  OBVIOUS
<1>1. CASE Next
  BY <1>1, CallerPage, CheckPageInv, RecordPage, WriteFlushPage, FlushCheckPage,
     ExitPage, KernelPage DEF Next, Holder
<1>2. CASE UNCHANGED vars
  BY <1>2 DEF vars, pageVars, PageInv
<1> QED BY <1>1, <1>2

\* handle_aio_wait() never waits for a page that only a caller could free, with
\* the mutex in its hand that this caller would need: in every reachable state of
\* a journal of any size, whatever the kernel completes and when.
THEOREM WaitsForKernelAlways == Spec => []WaitsForKernel
<1>1. Init => TypeOK /\ PageInv
  BY InitType, InitPage
<1>2. TypeOK /\ PageInv /\ [Next]_vars => TypeOK' /\ PageInv'
  BY NextType, NextPage
<1>3. PageInv => WaitsForKernel
  BY DEF PageInv, WaitsForKernel
<1> QED BY <1>1, <1>2, <1>3, PTL DEF Spec

-----------------------------------------------------------------------------
(* One record at a time (_enq_busy, _deq_busy, _abort_busy, _commit_busy). *)

\* Tokens change, but the half-written records are the same.
LEMMA HalfSame ==
    ASSUME \A r \in Rids : /\ tok'[r].st = "PART" <=> tok[r].st = "PART"
                           /\ tok[r].st = "PART" => tok'[r].kind = tok[r].kind
    PROVE  HalfWritten' = HalfWritten /\ HalfKinds' = HalfKinds
<1>1. HalfWritten' = HalfWritten
  BY DEF HalfWritten
<1>2. \A r \in HalfWritten : tok'[r].kind = tok[r].kind
  BY DEF HalfWritten
<1> QED BY <1>1, <1>2 DEF HalfKinds

\* The record of the call in progress, as far as it has come.
LEMMA CallToken == TypeOK /\ op.kind \in Kinds =>
    /\ op.rid \in Rids /\ T = tok[op.rid] /\ T.kind = op.kind
    /\ T.st \in {"NONE", "PART", "SUBM", "COMPL"}
    /\ HalfWritten \subseteq {op.rid} /\ T.st = "PART" => HalfKinds = {op.kind}
    /\ HalfWritten \subseteq {op.rid} /\ T.st # "PART" => HalfWritten = {}
<1> SUFFICES ASSUME TypeOK, op.kind \in Kinds
             PROVE  /\ op.rid \in Rids /\ T = tok[op.rid] /\ T.kind = op.kind
                    /\ T.st \in {"NONE", "PART", "SUBM", "COMPL"}
                    /\ HalfWritten \subseteq {op.rid} /\ T.st = "PART" => HalfKinds = {op.kind}
                    /\ HalfWritten \subseteq {op.rid} /\ T.st # "PART" => HalfWritten = {}
  OBVIOUS
<1>1. /\ op.rid \in Rids /\ T = tok[op.rid] /\ T.kind = op.kind
      /\ T.st \in {"NONE", "PART", "SUBM", "COMPL"}
  BY DEF TypeOK, OpShape, CallTypes, TokType, T
<1>2. op.rid \in HalfWritten <=> T.st = "PART"
  BY <1>1 DEF HalfWritten
<1>3. ASSUME HalfWritten \subseteq {op.rid}, T.st = "PART" PROVE HalfKinds = {op.kind}
  <2>1. HalfWritten = {op.rid}
    BY <1>2, <1>3
  <2> QED BY <1>1, <2>1 DEF HalfKinds
<1> QED BY <1>1, <1>2, <1>3

\* Nothing is written yet.
LEMMA InitBusy == Init => BusyInv
<1> SUFFICES ASSUME Init PROVE BusyInv
  OBVIOUS
<1>1. HalfWritten = {}
  BY DEF Init, HalfWritten, NoTok
<1>2. ~Working /\ ~Done /\ busy = {}
  BY DEF Init, Working, Done, NoOp
<1> QED BY <1>1, <1>2 DEF BusyInv, HalfKinds

\* A call starts.
LEMMA CallerBusy == TypeOK /\ BusyInv /\ Caller => BusyInv'
<1> SUFFICES ASSUME TypeOK, BusyInv, Caller PROVE BusyInv'
  OBVIOUS
<1>1. op.pc = "idle" /\ busy' = busy
  BY DEF Caller, CallEnqueue, CallDequeue, CallEnd, NewCall, Retry, CallFlush, At
<1>2. busy = HalfKinds /\ \A r, s \in HalfWritten : r = s
  BY <1>1 DEF BusyInv, Working, Done
<1>3. ASSUME NEW r \in Rids, NEW k, NEW x, NEW d, NEW n, NewCall(k, r, x, d, n)
      PROVE  BusyInv'
  <2>1. tok' = [tok EXCEPT ![r] = NewTok(k, x, d, n)] /\ tok \in [Rids -> TokType]
        /\ tok[r].st = "NONE"
    BY <1>3 DEF NewCall, NextRid, Used, TypeOK, CallTypes, TokShape
  <2>2. tok'[r].st = "NONE"
    BY <2>1 DEF NewTok, NoTok
  <2>3. HalfWritten' = HalfWritten /\ HalfKinds' = HalfKinds
    BY <2>1, <2>2, HalfSame
  <2>4. op'.pc = "check" /\ op'.rid = r
    BY <1>3 DEF NewCall, Start, NoOp
  <2>5. ~Working' /\ ~Done'
    BY <2>2, <2>4 DEF Working, Done, T
  <2> QED BY <1>1, <1>2, <2>3, <2>5 DEF BusyInv
<1>4. ASSUME NEW r \in Rids, Retry(r) PROVE BusyInv'
  <2>1. UNCHANGED tok /\ tok[r].st = "PART" /\ op'.pc = "check" /\ op'.rid = r
    BY <1>4 DEF Retry, Start, NoOp
  <2>2. ~Working' /\ ~Done'
    BY <2>1 DEF Working, Done, T
  <2> QED BY <1>1, <1>2, <2>1, <2>2, HalfSame DEF BusyInv
<1>5. CASE CallFlush
  <2>1. UNCHANGED tok /\ op'.kind = "flush"
    BY <1>5 DEF CallFlush, NoOp
  <2>2. ~Working' /\ ~Done'
    BY <2>1 DEF Working, Done
  <2> QED BY <1>1, <1>2, <2>1, <2>2, HalfSame DEF BusyInv
<1> QED BY <1>3, <1>4, <1>5 DEF Caller, CallEnqueue, CallDequeue, CallEnd

\* The checks let a call pass only if no other operation is half written, and of
\* its own kind at most the record that it brings back.
LEMMA CheckBusyInv == TypeOK /\ BusyInv /\ Check => BusyInv'
<1> SUFFICES ASSUME TypeOK, BusyInv, Check PROVE BusyInv'
  OBVIOUS
<1>1. op.pc = "check" /\ op \in OpType /\ op.kind \in Kinds /\ UNCHANGED tok
  <2>1. op.pc = "check" /\ UNCHANGED tok
    BY DEF Check, CheckBusy, CheckFull, CheckPage, CheckRefused, CheckOk, PageChecked,
           FileChecked, At
  <2> QED BY <2>1, OpKinds
<1>2. HalfWritten' = HalfWritten /\ HalfKinds' = HalfKinds /\ ~Working
  BY <1>1, HalfSame DEF Working
<1>3. CASE CheckBusy \/ CheckFull \/ CheckPage \/ CheckRefused
  <2>1. PICK res : op' = [op EXCEPT !.pc = "exit", !.res = res]
    BY <1>3 DEF CheckBusy, CheckFull, CheckPage, CheckRefused, Return
  <2>2. busy' = busy /\ op'.pc = "exit" /\ op'.kind = op.kind /\ op'.rid = op.rid
    BY <1>1, <1>3, <2>1, OpAfter DEF CheckBusy, CheckFull, CheckPage, CheckRefused
  <2>3. ~Working' /\ (Done' <=> Done)
    BY <1>1, <2>2 DEF Working, Done, T
  <2> QED BY <1>2, <2>2, <2>3 DEF BusyInv
<1>4. CASE CheckOk
  <2>1. /\ busy' = busy \cup {op.kind} /\ op' = [op EXCEPT !.pc = "encode"]
        /\ ~Disconnected /\ ~OtherBusy
    BY <1>4 DEF CheckOk, Goto, PageChecked, FileChecked
  <2>2. op'.pc = "encode" /\ op'.kind = op.kind /\ op'.rid = op.rid
    BY <1>1, <2>1, OpAfter
  <2>3. busy' = {op.kind}
    BY <2>1 DEF OtherBusy
  <2>4. HalfWritten \subseteq {op.rid}
    <3>1. CASE Done
      BY <3>1 DEF BusyInv
    <3>2. CASE ~Done
      <4> SUFFICES ASSUME NEW r \in HalfWritten PROVE r = op.rid
        OBVIOUS
      <4>1. busy = HalfKinds /\ tok[r].kind \in busy
        BY <1>2, <3>2 DEF BusyInv, HalfKinds
      <4>2. op.kind \in busy
        BY <2>1, <4>1 DEF OtherBusy
      <4>3. op.rid \in HalfWritten
        BY <1>1, <2>1, <4>2, CallToken DEF Disconnected, HalfWritten
      <4> QED BY <4>3 DEF BusyInv
    <3> QED BY <3>1, <3>2
  <2>5. Working' /\ ~Done'
    BY <1>1, <2>2 DEF Working, Done, Kinds
  <2> QED BY <1>2, <2>2, <2>3, <2>4, <2>5 DEF BusyInv
<1> QED BY <1>3, <1>4 DEF Check

\* While its record is copied only the call's own token becomes half written.
LEMMA RecordBusy == TypeOK /\ BusyInv /\ (Encode \/ Record) => BusyInv'
<1> SUFFICES ASSUME TypeOK, BusyInv, Encode \/ Record PROVE BusyInv'
  OBVIOUS
<1>1. op.pc \in {"encode", "complete"} /\ op \in OpType /\ op.kind \in Kinds /\ busy' = busy
      /\ tok \in [Rids -> TokType]
  <2>1. op.pc \in {"encode", "complete"} /\ busy' = busy
    BY DEF Encode, Record, EnqueueTxn, EnqueueNonTxn, DequeueTxn, DequeueNonTxn,
           AbortTxn, CommitTxn, CloseTxn, Recorded, At
  <2> QED BY <2>1, OpKinds DEF TypeOK, CallTypes
<1>2. busy = {op.kind} /\ HalfWritten \subseteq {op.rid} /\ op.rid \in Rids
      /\ T.st \in {"NONE", "PART", "SUBM", "COMPL"} /\ T = tok[op.rid] /\ T \in TokType
  BY <1>1, CallToken DEF BusyInv, Working, Kinds
<1>3. /\ \A r \in Rids \ {op.rid} : tok'[r] = tok[r]
      /\ op'.kind = op.kind /\ op'.rid = op.rid
      /\ op'.pc = "complete" \/ (op'.pc = "header" /\ tok'[op.rid].st # "NONE")
  <2>1. CASE Encode
    <3>1. PICK t, pc : /\ tok' = [tok EXCEPT ![op.rid] = t]
                       /\ op' = [op EXCEPT !.pc = pc]
                       /\ pc = "complete" \/ (pc = "header" /\ t.st = "PART")
      <4> DEFINE room == PageDblks - pgOffset
                 left == T.size - T.written
                 n    == IF left < room THEN left ELSE room
                 new  == [T EXCEPT !.fid     = IF T.written = 0 THEN ring.idx ELSE T.fid,
                                   !.written = T.written + n,
                                   !.pgs     = T.pgs + 1,
                                   !.span    = T.span \cup {ring.idx},
                                   !.st      = IF n = left THEN T.st ELSE "PART"]
                 to   == IF n = left THEN "complete" ELSE "header"
      <4>1. tok' = [tok EXCEPT ![op.rid] = new] /\ op' = [op EXCEPT !.pc = to]
        BY <2>1 DEF Encode, Goto
      <4>2. to = "complete" \/ (to = "header" /\ new.st = "PART")
        BY <1>2 DEF TokType
      <4> HIDE DEF new, to
      <4> QED BY <4>1, <4>2
    <3>2. tok'[op.rid] = t /\ op'.pc = pc /\ op'.kind = op.kind /\ op'.rid = op.rid
      BY <1>1, <1>2, <3>1, OpAfter
    <3> QED BY <1>1, <3>1, <3>2
  <2>2. CASE Record
    <3>1. /\ tok' = [tok EXCEPT ![op.rid].st = "SUBM"]
          /\ op' = [op EXCEPT !.pc = "header", !.done = TRUE]
      BY <2>2 DEF Record, EnqueueTxn, EnqueueNonTxn, DequeueTxn, DequeueNonTxn,
                  AbortTxn, CommitTxn, CloseTxn, Recorded
    <3>2. op'.pc = "header" /\ op'.kind = op.kind /\ op'.rid = op.rid
      BY <1>1, <3>1, OpAfter
    <3>3. tok'[op.rid].st = "SUBM" /\ \A r \in Rids \ {op.rid} : tok'[r] = tok[r]
      BY <1>1, <1>2, <3>1 DEF TokType
    <3> QED BY <3>2, <3>3
  <2> QED BY <2>1, <2>2
<1>4. HalfWritten' \subseteq {op.rid}
  BY <1>2, <1>3 DEF HalfWritten
<1>5. Working' /\ ~Done'
  BY <1>1, <1>3 DEF Working, Done, Kinds
<1> QED BY <1>1, <1>2, <1>3, <1>4, <1>5 DEF BusyInv, T

\* Between the record and the exit neither tokens nor flags change.
LEMMA BusyGoesOn ==
    ASSUME TypeOK, BusyInv, op.pc \in {"header", "flush", "reap"},
           op'.pc \in {"encode", "flush", "reap", "exit"},
           op'.kind = op.kind, op'.rid = op.rid, UNCHANGED <<busy, tok>>
    PROVE  BusyInv'
<1>1. HalfWritten' = HalfWritten /\ HalfKinds' = HalfKinds /\ T' = T
  BY HalfSame DEF T
<1>2. CASE op.kind = "flush"
  <2>1. ~Working /\ ~Done /\ ~Working' /\ ~Done'
    BY <1>2 DEF Working, Done
  <2> QED BY <1>1, <2>1 DEF BusyInv
<1>3. CASE op.kind # "flush"
  <2>1. op.kind \in Kinds
    BY <1>3, OpKinds
  <2>2. /\ busy = {op.kind} /\ HalfWritten \subseteq {op.rid} /\ T.st # "NONE"
        /\ \A r, s \in HalfWritten : r = s
    BY <1>3 DEF BusyInv, Working
  <2>3. CASE op'.pc = "exit" /\ T.st = "PART"
    <3>1. ~Working' /\ ~Done' /\ busy = HalfKinds
      BY <1>1, <2>1, <2>2, <2>3, CallToken DEF Working, Done
    <3> QED BY <1>1, <2>2, <3>1 DEF BusyInv
  <2>4. CASE op'.pc = "exit" /\ T.st # "PART"
    <3>1. ~Working' /\ Done' /\ HalfWritten = {}
      BY <1>1, <1>3, <2>1, <2>2, <2>4, CallToken DEF Working, Done
    <3> QED BY <1>1, <2>2, <2>4, <3>1 DEF BusyInv
  <2>5. CASE op'.pc # "exit"
    <3>1. Working' /\ ~Done'
      BY <1>3, <2>5 DEF Working, Done
    <3> QED BY <1>1, <2>2, <3>1 DEF BusyInv
  <2> QED BY <2>3, <2>4, <2>5
<1> QED BY <1>2, <1>3

\* Flushing leaves flags and records alone.
LEMMA FlushBusy == TypeOK /\ BusyInv /\ (FileHeaderCheck \/ WriteFlush \/ FlushCheck) => BusyInv'
<1> SUFFICES ASSUME TypeOK, BusyInv, FileHeaderCheck \/ WriteFlush \/ FlushCheck
             PROVE  BusyInv'
  OBVIOUS
<1>1. op \in OpType /\ op.pc \in {"header", "flush", "reap"} /\ UNCHANGED <<busy, tok>>
  BY DEF TypeOK, CallTypes, FileHeaderCheck, WriteFlush, FlushCheck, At
<1>2. CASE FileHeaderCheck
  <2>1. PICK pc \in {"flush", "exit"} : op' = [op EXCEPT !.pc = pc]
    BY <1>2 DEF FileHeaderCheck, Goto
  <2> QED BY <1>1, <2>1, OpAfter, BusyGoesOn
<1>3. CASE WriteFlush
  <2>1. PICK res : op' = [op EXCEPT !.pc = "reap", !.res = res]
    BY <1>3 DEF WriteFlush
  <2> QED BY <1>1, <2>1, OpAfter, BusyGoesOn
<1>4. CASE FlushCheck
  <2> DEFINE pageWait == PageBlocked /\ ~op.done
             rotate   == pgCntr >= FilePages
             rotated  == RotateResult(ring, file)
             pc  == IF op.done \/ pageWait \/ (rotate /\ rotated # "SUCCESS")
                    THEN "exit" ELSE "encode"
             res == IF rotate /\ rotated # "SUCCESS" THEN rotated
                    ELSE IF pageWait THEN "PAGE_AIOWAIT" ELSE op.res
  <2>1. op' = [op EXCEPT !.pc = pc, !.res = res]
    BY <1>4 DEF FlushCheck
  <2>2. pc \in {"exit", "encode"}
    OBVIOUS
  <2> HIDE DEF pc, res
  <2> QED BY <1>1, <2>1, <2>2, OpAfter, BusyGoesOn
<1> QED BY <1>2, <1>3, <1>4

\* The flag comes down exactly when the record is whole.
LEMMA ExitBusy == TypeOK /\ BusyInv /\ Exit => BusyInv'
<1> SUFFICES ASSUME TypeOK, BusyInv, Exit PROVE BusyInv'
  OBVIOUS
<1>1. op.pc = "exit" /\ op \in OpType /\ \A r, s \in HalfWritten : r = s
  BY DEF TypeOK, CallTypes, BusyInv, Exit, At
<1>2. HalfWritten' = HalfWritten /\ HalfKinds' = HalfKinds
  <2>1. \A r \in Rids : /\ tok'[r].st = "PART" <=> tok[r].st = "PART"
                        /\ tok[r].st = "PART" => tok'[r].kind = tok[r].kind
    BY DEF Exit, NoTok
  <2> QED BY <2>1, HalfSame
<1>3. busy' = HalfKinds /\ (Done => busy' = {} /\ HalfWritten = {})
  <2>1. CASE Done
    <3>1. HalfWritten = {} /\ busy \subseteq {op.kind} /\ busy' = busy \ {op.kind}
      BY <1>1, <2>1 DEF BusyInv, Done, Exit
    <3> QED BY <3>1 DEF HalfKinds
  <2>2. CASE ~Done
    BY <1>1, <2>2 DEF BusyInv, Working, Done, Exit
  <2> QED BY <2>1, <2>2
<1>4. ~Working' /\ (Done' => Done)
  <2>1. (op' = [op EXCEPT !.pc = "wait"] /\ UNCHANGED tok) \/ op' = NoOp
    BY DEF Exit, Goto
  <2>2. CASE op' = [op EXCEPT !.pc = "wait"] /\ UNCHANGED tok
    <3>1. op'.pc = "wait" /\ op'.kind = op.kind /\ op'.rid = op.rid
      BY <1>1, <2>2, OpAfter
    <3> QED BY <1>1, <2>2, <3>1 DEF Working, Done, T
  <2>3. CASE op' = NoOp
    BY <2>3 DEF Working, Done, NoOp
  <2> QED BY <2>1, <2>2, <2>3
<1> QED BY <1>1, <1>2, <1>3, <1>4 DEF BusyInv

\* So does waiting.
LEMMA WaitBusy == TypeOK /\ BusyInv /\ (Wait \/ WaitTimeout) => BusyInv'
<1> SUFFICES ASSUME TypeOK, BusyInv, Wait \/ WaitTimeout PROVE BusyInv'
  OBVIOUS
<1>1. op.pc = "wait" /\ op \in OpType /\ UNCHANGED <<busy, tok>>
  BY DEF TypeOK, CallTypes, Wait, WaitPage, WaitFile, WaitTimeout, At
<1>2. HalfWritten' = HalfWritten /\ HalfKinds' = HalfKinds
  BY <1>1, HalfSame
<1>3. /\ busy = HalfKinds /\ \A r, s \in HalfWritten : r = s
      /\ Done => busy = {} /\ HalfWritten = {}
  BY <1>1 DEF BusyInv, Working, HalfKinds
<1>4. ~Working' /\ (Done' => Done)
  <2>1. \/ op' = NoOp
        \/ op' = [NoOp EXCEPT !.pc = "check", !.kind = op.kind, !.rid = op.rid]
        \/ op' = [op EXCEPT !.pc = "exit", !.res = "AIOCMPLWAIT"]
    BY DEF Wait, WaitPage, WaitFile, WaitTimeout, Start, Return
  <2>2. CASE op' = NoOp
    BY <2>2 DEF Working, Done, NoOp
  <2>3. CASE op' = [NoOp EXCEPT !.pc = "check", !.kind = op.kind, !.rid = op.rid]
    <3>1. op'.pc = "check" /\ op'.kind = op.kind /\ op'.rid = op.rid
      BY <2>3 DEF NoOp
    <3> QED BY <1>1, <3>1 DEF Working, Done, T
  <2>4. CASE op' = [op EXCEPT !.pc = "exit", !.res = "AIOCMPLWAIT"]
    <3>1. op'.pc = "exit" /\ op'.kind = op.kind /\ op'.rid = op.rid
      BY <1>1, <2>4, OpAfter
    <3> QED BY <1>1, <3>1 DEF Working, Done, T
  <2> QED BY <2>1, <2>2, <2>3, <2>4
<1> QED BY <1>1, <1>2, <1>3, <1>4 DEF BusyInv

\* A completion neither makes a record half written nor ends one that is.
LEMMA KernelBusy == TypeOK /\ BusyInv /\ Kernel => BusyInv'
<1> SUFFICES ASSUME TypeOK, BusyInv, Kernel PROVE BusyInv'
  OBVIOUS
<1>1. UNCHANGED <<busy, op>>
  BY DEF Kernel, ReapPage, ReapHeader
<1>2. \A r \in Rids : \/ tok'[r].st = tok[r].st
                      \/ tok[r].st = "SUBM" /\ tok'[r].st = "COMPL"
  <2>1. ASSUME NEW p \in Pages, ReapPage(p), tok' # tok, NEW r \in Rids
        PROVE  \/ tok'[r].st = tok[r].st
               \/ tok[r].st = "SUBM" /\ tok'[r].st = "COMPL"
    <3>1. /\ tok' = [s \in Rids |-> IF s \in page[p].toks
                THEN [tok[s] EXCEPT !.pgs = @ - 1, !.st = IF s \in Arrived(p) THEN "COMPL" ELSE @]
                ELSE tok[s]]
          /\ \A s \in Arrived(p) : tok[s].st = "SUBM"
      BY <2>1, Zenon DEF ReapPage
    <3>2. tok[r] \in TokType
      BY DEF TypeOK, CallTypes
    <3> QED BY <3>1, <3>2 DEF TokType
  <2>2. ASSUME NEW f \in Files, ReapHeader(f) PROVE tok' = tok
    BY <2>2 DEF ReapHeader
  <2> QED BY <2>1, <2>2 DEF Kernel
<1>3. \A r \in Rids : tok'[r].kind = tok[r].kind
  <2>1. ASSUME NEW p \in Pages, ReapPage(p), tok' # tok, NEW r \in Rids
        PROVE  tok'[r].kind = tok[r].kind
    <3>1. tok' = [s \in Rids |-> IF s \in page[p].toks
                THEN [tok[s] EXCEPT !.pgs = @ - 1, !.st = IF s \in Arrived(p) THEN "COMPL" ELSE @]
                ELSE tok[s]]
      BY <2>1, Zenon DEF ReapPage
    <3>2. tok[r] \in TokType
      BY DEF TypeOK, CallTypes
    <3> QED BY <3>1, <3>2 DEF TokType
  <2>2. ASSUME NEW f \in Files, ReapHeader(f) PROVE tok' = tok
    BY <2>2 DEF ReapHeader
  <2> QED BY <2>1, <2>2 DEF Kernel
<1>4. HalfWritten' = HalfWritten /\ HalfKinds' = HalfKinds
  BY <1>2, <1>3, HalfSame
<1>5. (Working' <=> Working)
  BY <1>1 DEF Working
<1>6. op.pc # "idle" /\ op.kind # "flush" =>
          /\ T.st = "NONE" <=> T'.st = "NONE"
          /\ T.st \in {"SUBM", "COMPL"} <=> T'.st \in {"SUBM", "COMPL"}
  <2> SUFFICES ASSUME op.pc # "idle", op.kind # "flush"
               PROVE  /\ T.st = "NONE" <=> T'.st = "NONE"
                      /\ T.st \in {"SUBM", "COMPL"} <=> T'.st \in {"SUBM", "COMPL"}
    OBVIOUS
  <2>1. op.rid \in Rids /\ T = tok[op.rid] /\ T' = tok'[op.rid]
    BY <1>1, OpKinds DEF T
  <2> QED BY <1>2, <2>1
<1>7. Done' <=> Done
  BY <1>1, <1>6 DEF Done
<1> QED BY <1>1, <1>4, <1>5, <1>6, <1>7 DEF BusyInv, Working

\* Every step keeps the busy flags and the half-written record together.
LEMMA NextBusy == TypeOK /\ BusyInv /\ [Next]_vars => BusyInv'
<1> SUFFICES ASSUME TypeOK, BusyInv, [Next]_vars PROVE BusyInv'
  OBVIOUS
<1>1. CASE Next
  BY <1>1, CallerBusy, CheckBusyInv, RecordBusy, FlushBusy, ExitBusy, WaitBusy,
     KernelBusy DEF Next, Holder
<1>2. CASE UNCHANGED vars
  BY <1>2 DEF vars, BusyInv, HalfWritten, HalfKinds, Working, Done, T
<1> QED BY <1>1, <1>2

\* "Are these encodes mutually exclusive?" (wmgr.hpp): in every reachable state
\* at most one record is half written and at most one busy flag is up, between
\* calls exactly the flag of that record's operation, for any number of calls,
\* refusals, waits that give up, and completions in any order.
THEOREM BusyIsHalfWrittenAlways == Spec => []BusyIsHalfWritten
<1>1. Init => TypeOK /\ BusyInv
  BY InitType, InitBusy
<1>2. TypeOK /\ BusyInv /\ [Next]_vars => TypeOK' /\ BusyInv'
  BY NextType, NextBusy
<1>3. TypeOK /\ BusyInv => BusyIsHalfWritten
  <2> SUFFICES ASSUME TypeOK, BusyInv PROVE BusyIsHalfWritten
    OBVIOUS
  <2>1. ASSUME NEW S, \A r, s \in S : r = s PROVE Cardinality(S) <= 1
    <3>1. CASE S = {}
      BY <3>1, FS_EmptySet
    <3>2. CASE S # {}
      <4>1. PICK r \in S : S = {r}
        BY <2>1, <3>2
      <4> QED BY <4>1, FS_Singleton
    <3> QED BY <3>1, <3>2
  <2>2. Cardinality(HalfWritten) <= 1
    BY <2>1 DEF BusyInv
  <2>3. \A k, l \in busy : k = l
    BY DEF BusyInv, HalfKinds
  <2>4. op.pc = "idle" => busy = {tok[r].kind : r \in HalfWritten}
    BY DEF BusyInv, HalfKinds, Working, Done
  <2> QED BY <2>1, <2>2, <2>3, <2>4 DEF BusyIsHalfWritten
<1> QED BY <1>1, <1>2, <1>3, PTL DEF Spec

-----------------------------------------------------------------------------
(* The inductive invariant of the maps.                                    *)

Whole == {"SUBM", "COMPL"}
Ends  == {"abort", "commit"}

Adds(x)  == {t.rid : t \in EnqsOf(x)}
Takes(x) == {t.drid : t \in DeqsOf(x)}

\* A token without a record belongs to the call in progress; the call is done
\* exactly when its record is whole, and never copies or waits for a page then.
CallInv ==
    /\ \A r \in Rids : tok[r].kind # "none" /\ tok[r].st = "NONE" =>
           op.kind \in Kinds /\ r = op.rid
    /\ op.kind \in Kinds => (op.done <=> T.st \in Whole)
    /\ op.pc \in {"check", "encode", "complete"} => ~op.done
    /\ op.kind \in Kinds /\ op.res = "PAGE_AIOWAIT" => ~op.done
    /\ op.kind \in Kinds /\ op.res = "FILE_AIOWAIT" => T.st # "NONE"
    /\ op.pc = "idle" => op.kind = "none"

\* What is dequeued is a record that was enqueued whole.
DequeueInv == \A r \in Rids : tok[r].kind = "deq" =>
    tok[tok[r].drid].kind = "enq" /\ tok[tok[r].drid].st \in Whole

\* A transaction ends once, and is pending while that record is being written.
EndInv ==
    /\ \A r, s \in Rids : tok[r].kind \in Ends /\ tok[s].kind \in Ends
                          /\ tok[r].xid = tok[s].xid => r = s
    /\ \A x \in Xids : x \in pend <=> \E r \in Rids :
           tok[r].kind \in Ends /\ tok[r].xid = x /\ tok[r].st = "SUBM"

\* An entry of txn_map stands for a whole record of its transaction.
EntryOf(x) == \A i \in DOMAIN tmap[x] :
    LET t == tmap[x][i]
        k == tok[t.rid]
    IN  /\ k.xid = x /\ k.st \in Whole /\ k.fid = t.pfid
        /\ IF t.enq THEN k.kind = "enq" /\ t.drid = NoRid
                    ELSE k.kind = "deq" /\ t.drid = k.drid
        /\ t.aio <=> k.st = "COMPL"
EntryInv == \A x \in Xids : EntryOf(x)

\* What a transaction dequeues is in enq_map or enqueued earlier in it, once.
OrderOf(x) == \A i \in DOMAIN tmap[x] : ~tmap[x][i].enq =>
    /\ \/ InEmap(tmap[x][i].drid)
       \/ \E j \in 1 .. i - 1 : tmap[x][j].enq /\ tmap[x][j].rid = tmap[x][i].drid
    /\ \A j \in 1 .. i - 1 : ~tmap[x][j].enq => tmap[x][j].drid # tmap[x][i].drid
OrderInv == \A x \in Xids : OrderOf(x)

\* enq_map holds whole enqueue records, none of them of an open transaction.
EmapInv == \A r \in Rids : InEmap(r) =>
    /\ tok[r].kind = "enq" /\ tok[r].st \in Whole /\ tok[r].fid = emap[r].pfid
    /\ \A x \in Xids : r \notin Adds(x)

\* A record is taken by one transaction, which is what its lock says.
LockInv == \A r \in Rids :
    /\ \A x, y \in Xids : r \in Takes(x) /\ r \in Takes(y) => x = y
    /\ InEmap(r) => (emap[r].lock <=> \E x \in Xids : r \in Takes(x))

\* What dequeue_check() found is still so when the record is whole.
Found(r) ==
    /\ \A y \in Xids : tok[r].drid \notin Takes(y)
    /\ InEmap(tok[r].drid) \/ (tok[r].xid # NoXid /\ tok[r].drid \in Adds(tok[r].xid))
FoundInv ==
    /\ \A r \in Rids : tok[r].kind = "deq" /\ tok[r].st = "PART" => Found(r)
    /\ op.kind = "deq" /\ op.pc \in {"encode", "complete"} => Found(op.rid)
    /\ op.kind = "deq" /\ T.st = "NONE" /\ T.xid # NoXid => T.drid \notin Takes(T.xid)

\* The records enqueued, in enq_map or in a transaction, and those a file's
\* counter counts.
Held    == {r \in Rids : InEmap(r) \/ \E x \in Xids : r \in Adds(x)}
Live(f) == {r \in Held : tok[r].fid = f}
LiveInv == \A f \in Files : file[f].enq = Cardinality(Live(f))

TokInv  == CallInv /\ DequeueInv /\ EndInv /\ FoundInv
BookInv == EntryInv /\ OrderInv /\ EmapInv /\ LockInv /\ LiveInv
MapInv  == TokInv /\ BookInv

-----------------------------------------------------------------------------
(* Steps that leave the maps alone.                                        *)

\* txn_map says the same, and of each record whether it is on disk.
SameTmap == \A x \in Xids :
    /\ DOMAIN tmap'[x] = DOMAIN tmap[x]
    /\ \A i \in DOMAIN tmap[x] :
          /\ tmap'[x][i].rid = tmap[x][i].rid /\ tmap'[x][i].drid = tmap[x][i].drid
          /\ tmap'[x][i].enq = tmap[x][i].enq /\ tmap'[x][i].pfid = tmap[x][i].pfid
          /\ tmap'[x][i].aio <=> tok'[tmap[x][i].rid].st = "COMPL"
SameMaps == SameTmap /\ emap' = emap /\ \A f \in Files : file'[f].enq = file[f].enq

\* The records that are whole stay what they are.
SameRecord(r) == /\ tok'[r].kind = tok[r].kind /\ tok'[r].xid = tok[r].xid
                 /\ tok'[r].drid = tok[r].drid
WholeKept == \A r \in Rids : tok[r].st \in Whole =>
    SameRecord(r) /\ tok'[r].fid = tok[r].fid /\ tok'[r].st \in Whole

\* Adds and Takes by position in the transaction.
LEMMA ByPosition ==
    /\ \A x \in Xids : \A r : r \in Adds(x) <=>
           \E i \in DOMAIN tmap[x] : tmap[x][i].enq /\ tmap[x][i].rid = r
    /\ \A x \in Xids : \A r : r \in Takes(x) <=>
           \E i \in DOMAIN tmap[x] : ~tmap[x][i].enq /\ tmap[x][i].drid = r
    /\ \A x \in Xids : \A r : DataExists(x, r) <=> \E i \in DOMAIN tmap[x] : tmap[x][i].rid = r
BY DEF Adds, Takes, EnqsOf, DeqsOf, Entries, DataExists

\* Operations that name the same records.
LEMMA SameSets == SameTmap =>
    \A x \in Xids : Adds(x)' = Adds(x) /\ Takes(x)' = Takes(x)
<1> SUFFICES ASSUME SameTmap, NEW x \in Xids
             PROVE  Adds(x)' = Adds(x) /\ Takes(x)' = Takes(x)
  OBVIOUS
<1>1. DOMAIN tmap'[x] = DOMAIN tmap[x]
      /\ \A i \in DOMAIN tmap[x] :
          /\ tmap'[x][i].rid = tmap[x][i].rid /\ tmap'[x][i].drid = tmap[x][i].drid
          /\ tmap'[x][i].enq = tmap[x][i].enq
  BY DEF SameTmap
<1>2. Entries(x)' = {tmap'[x][i] : i \in DOMAIN tmap[x]}
  BY <1>1 DEF Entries
<1>3. Adds(x)' = Adds(x)
  BY <1>1, <1>2 DEF Adds, EnqsOf, Entries
<1>4. Takes(x)' = Takes(x)
  BY <1>1, <1>2 DEF Takes, DeqsOf, Entries
<1> QED BY <1>3, <1>4

\* txn_map is not touched and the whole records do not move on.
LEMMA TmapStays ==
    ASSUME TypeOK, EntryInv, tmap' = tmap,
           \A r \in Rids : tok[r].st \in Whole => tok'[r].st = tok[r].st
    PROVE  SameTmap
<1> SUFFICES ASSUME NEW x \in Xids, NEW i \in DOMAIN tmap[x]
             PROVE  tmap[x][i].aio <=> tok'[tmap[x][i].rid].st = "COMPL"
  BY DEF SameTmap
<1>1. tmap[x] \in Seq(EntryType)
  BY DEF TypeOK, MapTypes
<1>2. tmap[x][i] \in EntryType
  BY <1>1
<1>3. tmap[x][i].rid \in Rids /\ tok[tmap[x][i].rid].st \in Whole
      /\ (tmap[x][i].aio <=> tok[tmap[x][i].rid].st = "COMPL")
  BY <1>2 DEF EntryInv, EntryOf, EntryType
<1> QED BY <1>3

\* The books stay right.
LEMMA BooksKept ==
    ASSUME TypeOK, BookInv, SameMaps, WholeKept
    PROVE  BookInv'
<1>1. \A x \in Xids : Adds(x)' = Adds(x) /\ Takes(x)' = Takes(x)
  BY SameSets DEF SameMaps
<1>2. \A r : InEmap(r)' <=> InEmap(r)
  BY DEF SameMaps, InEmap
<1>3. \A x \in Xids : \A i \in DOMAIN tmap[x] : tmap[x][i].rid \in Rids
  <2> TAKE x \in Xids
  <2>1. tmap[x] \in Seq(EntryType)
    BY DEF TypeOK, MapTypes
  <2>2. \A i \in DOMAIN tmap[x] : tmap[x][i] \in EntryType
    BY <2>1
  <2> QED BY <2>2 DEF EntryType
<1>4. EntryInv'
  <2> SUFFICES ASSUME NEW x \in Xids, NEW i \in DOMAIN tmap[x]
               PROVE  LET t == tmap'[x][i]
                          k == tok'[t.rid]
                      IN  /\ k.xid = x /\ k.st \in Whole /\ k.fid = t.pfid
                          /\ IF t.enq THEN k.kind = "enq" /\ t.drid = NoRid
                                      ELSE k.kind = "deq" /\ t.drid = k.drid
                          /\ t.aio <=> k.st = "COMPL"
    BY DEF EntryInv, EntryOf, SameMaps, SameTmap
  <2> QED BY <1>3 DEF BookInv, EntryInv, EntryOf, SameMaps, SameTmap, WholeKept, SameRecord
<1>5. OrderInv'
  <2> SUFFICES ASSUME NEW x \in Xids, NEW i \in DOMAIN tmap'[x], ~tmap'[x][i].enq
               PROVE  /\ \/ emap'[tmap'[x][i].drid].pfid # NoFile
                         \/ \E j \in 1 .. i - 1 : tmap'[x][j].enq /\ tmap'[x][j].rid = tmap'[x][i].drid
                      /\ \A j \in 1 .. i - 1 : ~tmap'[x][j].enq => tmap'[x][j].drid # tmap'[x][i].drid
    BY Zenon DEF OrderInv, OrderOf, InEmap
  <2>1. DOMAIN tmap[x] = 1 .. Len(tmap[x]) /\ Len(tmap[x]) \in Nat
    BY DEF TypeOK, MapTypes
  <2>2. /\ i \in DOMAIN tmap[x]
        /\ \A j \in DOMAIN tmap[x] : /\ tmap'[x][j].rid = tmap[x][j].rid
                                     /\ tmap'[x][j].drid = tmap[x][j].drid
                                     /\ tmap'[x][j].enq = tmap[x][j].enq
    BY DEF SameMaps, SameTmap
  <2>3. \A j \in 1 .. i - 1 : j \in DOMAIN tmap[x]
    BY <2>1, <2>2
  <2>4. ~tmap[x][i].enq
    BY <2>2
  <2>5. /\ \/ InEmap(tmap[x][i].drid)
           \/ \E j \in 1 .. i - 1 : tmap[x][j].enq /\ tmap[x][j].rid = tmap[x][i].drid
        /\ \A j \in 1 .. i - 1 : ~tmap[x][j].enq => tmap[x][j].drid # tmap[x][i].drid
    BY <2>2, <2>4 DEF BookInv, OrderInv, OrderOf
  <2> QED BY <2>2, <2>3, <2>5 DEF SameMaps, InEmap
<1>6. EmapInv'
  BY <1>1, <1>2 DEF BookInv, EmapInv, SameMaps, WholeKept, SameRecord
<1>7. LockInv'
  BY <1>1, <1>2 DEF BookInv, LockInv, SameMaps
<1>8. LiveInv'
  <2> SUFFICES ASSUME NEW f \in Files PROVE Live(f)' = Live(f)
    BY DEF BookInv, LiveInv, SameMaps
  <2>1. ASSUME NEW r \in Rids, InEmap(r) \/ \E x \in Xids : r \in Adds(x)
        PROVE  tok'[r].fid = tok[r].fid
    <3>1. tok[r].st \in Whole
      BY <2>1, ByPosition DEF BookInv, EmapInv, EntryInv, EntryOf
    <3> QED BY <3>1 DEF WholeKept
  <2>2. Held' = Held
    BY <1>1, <1>2 DEF Held
  <2> QED BY <2>1, <2>2 DEF Live, Held
<1> QED BY <1>4, <1>5, <1>6, <1>7, <1>8 DEF BookInv

-----------------------------------------------------------------------------
(* The call in progress and its token.                                     *)

\* Whether the call is done, after a step of it.
LEMMA OpDone == op \in OpType => \A pc, res :
    /\ [op EXCEPT !.pc = pc].done = op.done
    /\ [op EXCEPT !.pc = pc, !.res = res].done = op.done
    /\ [op EXCEPT !.pc = pc, !.done = TRUE].done = TRUE
BY DEF OpType

\* A call that starts.
LEMMA OpNew == \A k, r :
    LET new == [NoOp EXCEPT !.pc = "check", !.kind = k, !.rid = r]
    IN  /\ new.pc = "check" /\ new.kind = k /\ new.rid = r
        /\ new.res = "SUCCESS" /\ new.done = FALSE
BY DEF NoOp

\* What is left to show when the call goes on, and of the tokens at most those
\* change whose records were whole.
LEMMA CallKept ==
    ASSUME TypeOK, CallInv, op.pc # "idle",
           op'.kind = op.kind, op'.rid = op.rid, op'.done = op.done, op'.pc # "idle",
           op'.pc \in {"check", "encode", "complete"} => ~op.done,
           op'.res = op.res \/ /\ op'.res = "PAGE_AIOWAIT" => op.kind = "flush" \/ ~op.done
                               /\ op'.res = "FILE_AIOWAIT" => op.kind = "flush" \/ T.st # "NONE",
           \A r \in Rids : /\ tok'[r].kind = tok[r].kind
                           /\ tok'[r].st = "NONE" <=> tok[r].st = "NONE"
                           /\ tok'[r].st \in Whole <=> tok[r].st \in Whole
    PROVE  CallInv'
<1>1. op.kind \in Kinds => op.rid \in Rids /\ T = tok[op.rid] /\ T' = tok'[op.rid]
  BY DEF TypeOK, OpShape, T
<1>2. op.kind \in Kinds => /\ T'.st = "NONE" <=> T.st = "NONE"
                           /\ T'.st \in Whole <=> T.st \in Whole
  BY <1>1
<1> QED BY <1>2 DEF CallInv, Kinds

\* No call is under way.
LEMMA InitCall == Init => CallInv
BY DEF Init, CallInv, NoTok, NoOp, Kinds

\* A call starts, and is not done.
LEMMA CallerCall == TypeOK /\ CallInv /\ Caller => CallInv'
<1> SUFFICES ASSUME TypeOK, CallInv, Caller PROVE CallInv'
  OBVIOUS
<1>1. op.pc = "idle" /\ op.kind = "none" /\ tok \in [Rids -> TokType]
      /\ \A r \in Rids : tok[r].kind # "none" => tok[r].st # "NONE"
  BY DEF Caller, CallEnqueue, CallDequeue, CallEnd, NewCall, Retry, CallFlush, At,
         CallInv, TypeOK, CallTypes, Kinds
<1>2. ASSUME NEW r \in Rids, NEW k \in Kinds, NEW x, NEW d, NEW n, NewCall(k, r, x, d, n)
      PROVE  CallInv'
  <2>1. tok' = [tok EXCEPT ![r] = NewTok(k, x, d, n)]
        /\ op' = [NoOp EXCEPT !.pc = "check", !.kind = k, !.rid = r]
    BY <1>2 DEF NewCall, Start
  <2>2. /\ op'.pc = "check" /\ op'.kind = k /\ op'.rid = r
        /\ op'.res = "SUCCESS" /\ op'.done = FALSE
    BY <2>1, OpNew
  <2>3. tok'[r].st = "NONE" /\ \A s \in Rids \ {r} : tok'[s] = tok[s]
    BY <1>1, <2>1 DEF NewTok, NoTok
  <2> QED BY <1>1, <2>2, <2>3 DEF CallInv, T, Whole
<1>3. ASSUME NEW r \in Rids, Retry(r) PROVE CallInv'
  <2>1. tok' = tok /\ tok[r].st = "PART"
        /\ op' = [NoOp EXCEPT !.pc = "check", !.kind = tok[r].kind, !.rid = r]
    BY <1>3 DEF Retry, Start
  <2>2. /\ op'.pc = "check" /\ op'.rid = r /\ op'.res = "SUCCESS" /\ op'.done = FALSE
    BY <2>1, OpNew
  <2> QED BY <1>1, <2>1, <2>2 DEF CallInv, T, Whole
<1>4. CASE CallFlush
  <2>1. tok' = tok /\ op'.kind = "flush" /\ op'.pc = "flush"
    BY <1>4 DEF CallFlush, NoOp
  <2> QED BY <1>1, <2>1 DEF CallInv, Kinds
<1> QED BY <1>2, <1>3, <1>4 DEF Caller, CallEnqueue, CallDequeue, CallEnd, Kinds

\* Each step of a call.
LEMMA HolderCall ==
    TypeOK /\ PageInv /\ BusyInv /\ CallInv /\ (Holder \/ WaitTimeout) => CallInv'
<1> SUFFICES ASSUME TypeOK, PageInv, BusyInv, CallInv, Holder \/ WaitTimeout PROVE CallInv'
  OBVIOUS
<1>1. op \in OpType /\ tok \in [Rids -> TokType]
  BY DEF TypeOK, CallTypes
<1>2. ASSUME Check PROVE CallInv'
  <2>1. op.pc = "check" /\ tok' = tok /\ ~op.done
    BY <1>2 DEF Check, CheckBusy, CheckFull, CheckPage, CheckRefused, CheckOk, PageChecked,
           FileChecked, At, CallInv
  <2>2. \/ op' = [op EXCEPT !.pc = "encode"]
        \/ \E res : res # "FILE_AIOWAIT" /\ op' = [op EXCEPT !.pc = "exit", !.res = res]
    BY <1>2 DEF Check, CheckBusy, CheckFull, CheckPage, CheckRefused, CheckOk, Return, Goto
  <2>3. /\ op'.kind = op.kind /\ op'.rid = op.rid /\ op'.done = op.done
        /\ op'.pc \in {"encode", "exit"}
        /\ (op'.res = op.res \/ op'.res # "FILE_AIOWAIT")
    <3>1. CASE op' = [op EXCEPT !.pc = "encode"]
      BY <1>1, <3>1, OpAfter, OpDone
    <3>2. ASSUME NEW res, res # "FILE_AIOWAIT", op' = [op EXCEPT !.pc = "exit", !.res = res]
          PROVE  /\ op'.kind = op.kind /\ op'.rid = op.rid /\ op'.done = op.done
                 /\ op'.pc = "exit" /\ op'.res # "FILE_AIOWAIT"
      BY <1>1, <3>2, OpAfter, OpDone
    <3> QED BY <2>2, <3>1, <3>2
  <2> QED BY <2>1, <2>3, CallKept
<1>3. ASSUME Encode PROVE CallInv'
  <2> DEFINE room == PageDblks - pgOffset
             left == T.size - T.written
             n    == IF left < room THEN left ELSE room
             new  == [T EXCEPT !.fid     = IF T.written = 0 THEN ring.idx ELSE T.fid,
                               !.written = T.written + n,
                               !.pgs     = T.pgs + 1,
                               !.span    = T.span \cup {ring.idx},
                               !.st      = IF n = left THEN T.st ELSE "PART"]
             to   == IF n = left THEN "complete" ELSE "header"
  <2>1. op.pc = "encode" /\ ~op.done /\ op.kind \in Kinds /\ op.rid \in Rids /\ T = tok[op.rid]
        /\ T \in TokType /\ T.kind = op.kind /\ T.st \notin Whole
    BY <1>3, OpKinds DEF Encode, At, CallInv, T
  <2>2. tok' = [tok EXCEPT ![op.rid] = new] /\ op' = [op EXCEPT !.pc = to]
    BY <1>3 DEF Encode, Goto
  <2>3. new.kind = op.kind /\ new.st \in {T.st, "PART"} /\ to \in {"complete", "header"}
    BY <2>1 DEF TokType
  <2> HIDE DEF new, to
  <2>4. tok'[op.rid] = new /\ \A r \in Rids \ {op.rid} : tok'[r] = tok[r]
    BY <1>1, <2>1, <2>2
  <2>5. op'.kind = op.kind /\ op'.rid = op.rid /\ op'.done = op.done /\ op'.res = op.res
        /\ op'.pc \in {"complete", "header"}
    BY <1>1, <2>2, <2>3, OpAfter, OpDone
  <2> QED BY <2>1, <2>3, <2>4, <2>5 DEF CallInv, T, Whole
<1>4. ASSUME Record PROVE CallInv'
  <2>1. op.pc = "complete" /\ tok' = [tok EXCEPT ![op.rid].st = "SUBM"]
        /\ op' = [op EXCEPT !.pc = "header", !.done = TRUE]
    BY <1>4 DEF Record, EnqueueTxn, EnqueueNonTxn, DequeueTxn, DequeueNonTxn,
                AbortTxn, CommitTxn, CloseTxn, Recorded, At
  <2>2. op.kind \in Kinds /\ op.rid \in Rids /\ op.res # "PAGE_AIOWAIT"
    BY <2>1, OpKinds DEF PageInv
  <2>3. /\ op'.kind = op.kind /\ op'.rid = op.rid /\ op'.done = TRUE /\ op'.res = op.res
        /\ op'.pc = "header"
    BY <1>1, <2>1, OpAfter, OpDone
  <2>4. tok'[op.rid].st = "SUBM" /\ \A r \in Rids \ {op.rid} : tok'[r] = tok[r]
    BY <1>1, <2>1, <2>2 DEF TokType
  <2> QED BY <2>2, <2>3, <2>4 DEF CallInv, T, Whole
<1>5. ASSUME FileHeaderCheck PROVE CallInv'
  <2>1. op.pc = "header" /\ tok' = tok
    BY <1>5 DEF FileHeaderCheck, At
  <2>2. PICK pc \in {"flush", "exit"} : op' = [op EXCEPT !.pc = pc]
    BY <1>5 DEF FileHeaderCheck, Goto
  <2>3. /\ op'.kind = op.kind /\ op'.rid = op.rid /\ op'.done = op.done /\ op'.res = op.res
        /\ op'.pc \in {"flush", "exit"}
    BY <1>1, <2>2, OpAfter, OpDone
  <2> QED BY <2>1, <2>3, CallKept
<1>6. ASSUME WriteFlush PROVE CallInv'
  <2>1. op.pc = "flush" /\ tok' = tok
    BY <1>6 DEF WriteFlush, At
  <2>2. ~(cached > 0 /\ PageBlocked)
    BY DEF PageInv, PageBlocked
  <2>3. op' = [op EXCEPT !.pc = "reap", !.res = op.res]
    BY <1>6, <2>2 DEF WriteFlush
  <2>4. /\ op'.kind = op.kind /\ op'.rid = op.rid /\ op'.done = op.done /\ op'.res = op.res
        /\ op'.pc = "reap"
    BY <1>1, <2>3, OpAfter, OpDone
  <2> QED BY <2>1, <2>4, CallKept
<1>7. ASSUME FlushCheck PROVE CallInv'
  <2> DEFINE pageWait == PageBlocked /\ ~op.done
             rotate   == pgCntr >= FilePages
             rotated  == RotateResult(ring, file)
             pc  == IF op.done \/ pageWait \/ (rotate /\ rotated # "SUCCESS")
                    THEN "exit" ELSE "encode"
             res == IF rotate /\ rotated # "SUCCESS" THEN rotated
                    ELSE IF pageWait THEN "PAGE_AIOWAIT" ELSE op.res
  <2>1. op.pc = "reap" /\ tok' = tok /\ op' = [op EXCEPT !.pc = pc, !.res = res]
    BY <1>7 DEF FlushCheck, At
  <2>2. pc \in {"exit", "encode"} /\ (pc = "encode" => ~op.done)
        /\ (res = op.res \/ (res = "PAGE_AIOWAIT" /\ ~op.done) \/ res \in {"FULL", "FILE_AIOWAIT"})
    BY DEF RotateResult
  <2>3. op.kind # "flush" => T.st # "NONE"
    BY <2>1 DEF BusyInv, Working
  <2> HIDE DEF pc, res
  <2>4. /\ op'.kind = op.kind /\ op'.rid = op.rid /\ op'.done = op.done /\ op'.res = res
        /\ op'.pc = pc
    BY <1>1, <2>1, OpAfter, OpDone
  <2> QED BY <2>1, <2>2, <2>3, <2>4, CallKept
<1>8. ASSUME Exit PROVE CallInv'
  <2>1. op.pc = "exit"
    BY <1>8 DEF Exit, At
  <2>2. CASE op' = [op EXCEPT !.pc = "wait"] /\ UNCHANGED tok
    <3>1. /\ op'.kind = op.kind /\ op'.rid = op.rid /\ op'.done = op.done /\ op'.res = op.res
          /\ op'.pc = "wait"
      BY <1>1, <2>2, OpAfter, OpDone
    <3> QED BY <2>1, <2>2, <3>1, CallKept
  <2>3. CASE /\ op' = NoOp
             /\ tok' = [r \in Rids |-> IF r = op.rid /\ tok[r].st = "NONE" THEN NoTok ELSE tok[r]]
    <3>1. op'.pc = "idle" /\ op'.kind = "none"
      BY <2>3 DEF NoOp
    <3>2. \A r \in Rids : tok'[r].st = "NONE" => tok'[r].kind = "none"
      BY <2>3 DEF CallInv, NoTok
    <3> QED BY <3>1, <3>2 DEF CallInv, Kinds
  <2> QED BY <1>8, <2>2, <2>3 DEF Exit, Goto
<1>9. ASSUME Wait PROVE CallInv'
  <2>1. op.pc = "wait" /\ op.kind \in Kinds /\ op.rid \in Rids /\ T = tok[op.rid] /\ tok' = tok
    BY <1>9, OpKinds DEF Wait, WaitPage, WaitFile, At, T
  <2>2. CASE Start(op.kind, op.rid) /\ T.st \notin Whole
    <3>1. /\ op'.pc = "check" /\ op'.kind = op.kind /\ op'.rid = op.rid
          /\ op'.res = "SUCCESS" /\ op'.done = FALSE
      BY <2>2, OpNew DEF Start
    <3> QED BY <2>1, <2>2, <3>1 DEF CallInv, T
  <2>3. CASE op' = NoOp /\ T.st # "NONE"
    <3>1. op'.pc = "idle" /\ op'.kind = "none"
      BY <2>3 DEF NoOp
    <3> QED BY <2>1, <2>3, <3>1 DEF CallInv, Kinds
  <2> QED BY <1>9, <2>1, <2>2, <2>3 DEF Wait, WaitPage, WaitFile, CallInv, Whole
<1>10. ASSUME WaitTimeout PROVE CallInv'
  <2>1. op.pc = "wait" /\ tok' = tok /\ op' = [op EXCEPT !.pc = "exit", !.res = "AIOCMPLWAIT"]
    BY <1>10 DEF WaitTimeout, At, Return
  <2>2. /\ op'.kind = op.kind /\ op'.rid = op.rid /\ op'.done = op.done
        /\ op'.res = "AIOCMPLWAIT" /\ op'.pc = "exit"
    BY <1>1, <2>1, OpAfter, OpDone
  <2> QED BY <2>1, <2>2, CallKept
<1> QED BY <1>2, <1>3, <1>4, <1>5, <1>6, <1>7, <1>8, <1>9, <1>10 DEF Holder

-----------------------------------------------------------------------------
(* A write that completes (wmgr::get_events).                              *)

\* What one completion does to the tokens of a page and to the entries.
LEMMA PageReaped ==
    ASSUME TypeOK, EntryInv, NEW p \in Pages, ReapPage(p)
    PROVE  /\ UNCHANGED <<emap, op, busy>> /\ fault = "none"
           /\ \A r \in Rids : SameRecord(r) /\ tok'[r].fid = tok[r].fid
           /\ SameTmap /\ \A f \in Files : file'[f].enq = file[f].enq
           /\ \/ fault' # "none" /\ UNCHANGED <<file, page, tok, tmap, pend>>
              \/ /\ fault' = "none" /\ pend' = pend \ {tok[r].xid : r \in EndedBy(Arrived(p))}
                 /\ \A r \in Arrived(p) : r \in Rids /\ tok[r].st = "SUBM"
                 /\ \A r \in Rids : tok'[r].st = IF r \in Arrived(p) THEN "COMPL" ELSE tok[r].st
<1> DEFINE last  == Arrived(p)
           ended == EndedBy(last)
           fc    == file[page[p].wfh]
           error == IF \E r \in page[p].toks : tok[r].pgs = 0 THEN "ASSERT"
                    ELSE IF \E r \in last : tok[r].st # "SUBM" THEN "BADDTOKSTATE"
                    ELSE IF \E r \in ended : tok[r].xid \notin pend THEN "MAP_NOTFOUND"
                    ELSE CompleteError(fc, page[p].wd)
<1>1. /\ Throw(error) /\ page[p].st = "AIO_PENDING" /\ UNCHANGED <<emap, op, busy>>
      /\ fault = "none" /\ (error # "none" => UNCHANGED <<file, page, tok, tmap, pend>>)
  BY DEF ReapPage, Reaping
<1>2. /\ file \in [Files -> FileType] /\ tok \in [Rids -> TokType]
      /\ tmap \in [Xids -> Seq(EntryType)] /\ page[p].toks \subseteq Rids
      /\ page[p].wfh \in Files
  BY <1>1 DEF TypeOK, FileTypes, PageTypes, CallTypes, MapTypes, PageType, PageShape
<1>3. \A x \in Xids : \A i \in DOMAIN tmap[x] :
          tmap[x][i] \in EntryType /\ tmap[x][i].rid \in Rids
          /\ (tmap[x][i].aio <=> tok[tmap[x][i].rid].st = "COMPL")
  <2> TAKE x \in Xids
  <2>1. tmap[x] \in Seq(EntryType)
    BY <1>2
  <2>2. \A i \in DOMAIN tmap[x] : tmap[x][i] \in EntryType
    BY <2>1
  <2> QED BY <2>2 DEF EntryType, EntryInv, EntryOf
<1>4. CASE error # "none"
  <2>1. UNCHANGED <<file, page, tok, tmap, pend>> /\ fault' # "none"
    BY <1>1, <1>4 DEF Throw
  <2>2. SameTmap
    BY <1>3, <2>1 DEF SameTmap
  <2> QED BY <1>1, <2>1, <2>2 DEF SameRecord
<1>5. CASE error = "none"
  <2>1. /\ \A r \in last : tok[r].st = "SUBM"
        /\ tok' = [r \in Rids |-> IF r \in page[p].toks
              THEN [tok[r] EXCEPT !.pgs = @ - 1, !.st = IF r \in last THEN "COMPL" ELSE @]
              ELSE tok[r]]
        /\ tmap' = [x \in Xids |-> [i \in DOMAIN tmap[x] |->
              [tmap[x][i] EXCEPT !.aio = @ \/ tmap[x][i].rid \in last]]]
        /\ pend' = pend \ {tok[r].xid : r \in ended}
        /\ file' = [file EXCEPT ![page[p].wfh] = Complete(@, page[p].wd)]
    BY <1>5 DEF ReapPage
  <2>2. last \subseteq page[p].toks /\ fault' = "none"
    BY <1>1, <1>5 DEF Arrived, Throw
  <2> HIDE DEF last, ended, error
  <2>3. \A r \in Rids : /\ SameRecord(r) /\ tok'[r].fid = tok[r].fid
                        /\ tok'[r].st = IF r \in last THEN "COMPL" ELSE tok[r].st
    <3> TAKE r \in Rids
    <3>1. tok[r] \in TokType
      BY <1>2
    <3>2. CASE r \in page[p].toks
      <4>1. tok'[r] = [tok[r] EXCEPT !.pgs = @ - 1, !.st = IF r \in last THEN "COMPL" ELSE @]
        BY <2>1, <3>2
      <4> QED BY <3>1, <4>1 DEF TokType, SameRecord
    <3>3. CASE r \notin page[p].toks
      BY <2>1, <2>2, <3>3 DEF SameRecord
    <3> QED BY <3>2, <3>3
  <2>4. SameTmap
    <3> SUFFICES ASSUME NEW x \in Xids
                 PROVE  /\ DOMAIN tmap'[x] = DOMAIN tmap[x]
                        /\ \A i \in DOMAIN tmap[x] :
                              /\ tmap'[x][i].rid = tmap[x][i].rid
                              /\ tmap'[x][i].drid = tmap[x][i].drid
                              /\ tmap'[x][i].enq = tmap[x][i].enq
                              /\ tmap'[x][i].pfid = tmap[x][i].pfid
                              /\ tmap'[x][i].aio <=> tok'[tmap[x][i].rid].st = "COMPL"
      BY DEF SameTmap
    <3>1. tmap'[x] = [i \in DOMAIN tmap[x] |->
                          [tmap[x][i] EXCEPT !.aio = @ \/ tmap[x][i].rid \in last]]
      BY <2>1
    <3> SUFFICES ASSUME NEW i \in DOMAIN tmap[x]
                 PROVE  /\ tmap'[x][i].rid = tmap[x][i].rid
                        /\ tmap'[x][i].drid = tmap[x][i].drid
                        /\ tmap'[x][i].enq = tmap[x][i].enq
                        /\ tmap'[x][i].pfid = tmap[x][i].pfid
                        /\ tmap'[x][i].aio <=> tok'[tmap[x][i].rid].st = "COMPL"
      BY <3>1
    <3> DEFINE t == tmap[x][i]
    <3>2. t \in EntryType /\ t.rid \in Rids /\ (t.aio <=> tok[t.rid].st = "COMPL")
      BY <1>3
    <3>3. tmap'[x][i] = [t EXCEPT !.aio = t.aio \/ t.rid \in last]
      BY <3>1
    <3>4. tmap'[x][i].aio <=> t.aio \/ t.rid \in last
      BY <3>2, <3>3 DEF EntryType
    <3>5. tok'[t.rid].st = "COMPL" <=> t.rid \in last \/ tok[t.rid].st = "COMPL"
      BY <2>3, <3>2
    <3> HIDE DEF t
    <3>6. /\ tmap'[x][i].rid = t.rid /\ tmap'[x][i].drid = t.drid
          /\ tmap'[x][i].enq = t.enq /\ tmap'[x][i].pfid = t.pfid
      BY <3>2, <3>3 DEF EntryType
    <3> QED BY <3>2, <3>4, <3>5, <3>6 DEF t
  <2>5. \A f \in Files : file'[f].enq = file[f].enq
    BY <1>2, <2>1 DEF Complete, FileType
  <2> QED BY <1>1, <1>2, <2>1, <2>2, <2>3, <2>4, <2>5 DEF last, ended
<1> QED BY <1>4, <1>5

-----------------------------------------------------------------------------
(* What the tokens say, when the maps are left alone.                      *)

\* What is dequeued stays whole.
LEMMA DequeueKept ==
    ASSUME TypeOK, DequeueInv, WholeKept,
           \A r \in Rids : tok'[r].kind = "deq" =>
               tok[r].kind = "deq" /\ tok'[r].drid = tok[r].drid
    PROVE  DequeueInv'
<1> SUFFICES ASSUME NEW r \in Rids, tok'[r].kind = "deq"
             PROVE  tok'[tok'[r].drid].kind = "enq" /\ tok'[tok'[r].drid].st \in Whole
  BY DEF DequeueInv
<1>1. tok[r].kind = "deq" /\ tok'[r].drid = tok[r].drid /\ tok[r].drid \in Rids
  BY DEF TypeOK, TokShape
<1> QED BY <1>1 DEF DequeueInv, WholeKept, SameRecord

\* The ends that are not on disk stay pending.
LEMMA EndKept ==
    ASSUME EndInv, pend' = pend,
           \A r \in Rids :
               /\ tok'[r].kind \in Ends => tok[r].kind \in Ends /\ tok'[r].xid = tok[r].xid
               /\ tok'[r].kind \in Ends /\ tok'[r].st = "SUBM"
                  <=> tok[r].kind \in Ends /\ tok[r].st = "SUBM"
    PROVE  EndInv'
BY DEF EndInv

\* What dequeue_check() found is still there.
LEMMA FoundKept ==
    ASSUME TypeOK, TypeOK', SameTmap, emap' = emap,
           \A r \in Rids : tok'[r].kind = "deq" /\ tok'[r].st = "PART" =>
               Found(r) /\ SameRecord(r),
           op'.kind = "deq" /\ op'.pc \in {"encode", "complete"} =>
               Found(op'.rid) /\ SameRecord(op'.rid),
           op'.kind = "deq" /\ tok'[op'.rid].st = "NONE" /\ tok'[op'.rid].xid # NoXid =>
               tok'[op'.rid].drid \notin Takes(tok'[op'.rid].xid)
    PROVE  FoundInv'
<1>1. \A x \in Xids : Adds(x)' = Adds(x) /\ Takes(x)' = Takes(x)
  BY SameSets
<1>2. op'.kind = "deq" => op'.rid \in Rids
  BY DEF TypeOK, OpShape, Kinds
<1>3. \A r \in Rids : tok'[r].xid # NoXid => tok'[r].xid \in Xids
  BY DEF TypeOK, CallTypes, TokType
<1>4. \A r \in Rids : Found(r) /\ SameRecord(r) => Found(r)'
  BY <1>1, <1>3 DEF Found, SameRecord, InEmap
<1>5. op'.kind = "deq" /\ T'.st = "NONE" /\ T'.xid # NoXid => T'.drid \notin Takes(T.xid)'
  BY <1>1, <1>2, <1>3 DEF T
<1> QED BY <1>2, <1>4, <1>5 DEF FoundInv, T

\* Tokens and maps are as they were.
LEMMA QuietKept ==
    ASSUME TypeOK, TypeOK', MapInv, CallInv', UNCHANGED <<tok, emap, tmap, pend>>,
           \A f \in Files : file'[f].enq = file[f].enq,
           op'.kind = "deq" /\ op'.pc \in {"encode", "complete"} => Found(op'.rid),
           op'.kind = "deq" /\ tok[op'.rid].st = "NONE" => op.kind = "deq" /\ op'.rid = op.rid
    PROVE  MapInv'
<1>1. EntryInv /\ MapTypes /\ BookInv
  BY DEF MapInv, BookInv, TypeOK
<1>2. SameTmap
  BY <1>1 DEF EntryInv, EntryOf, SameTmap
<1>3. WholeKept /\ \A r : SameRecord(r)
  BY DEF WholeKept, SameRecord
<1>4. BookInv'
  BY <1>1, <1>2, <1>3, BooksKept DEF SameMaps
<1>5. DequeueInv' /\ EndInv'
  BY <1>3, DequeueKept, EndKept DEF MapInv, TokInv
<1>6. FoundInv'
  BY <1>2, <1>3, FoundKept DEF MapInv, TokInv, FoundInv, T
<1> QED BY <1>4, <1>5, <1>6 DEF MapInv, TokInv

\* get_events(): completions take off the pending set what they end.
LEMMA KernelMaps == TypeOK /\ MapInv /\ Kernel => MapInv'
<1> SUFFICES ASSUME TypeOK, MapInv, Kernel PROVE MapInv'
  OBVIOUS
<1>1. TypeOK'
  BY NextType DEF Next
<1>2. ASSUME NEW p \in Pages, ReapPage(p) PROVE MapInv'
  <2>1. /\ op' = op /\ emap' = emap /\ SameTmap
        /\ \A r \in Rids : SameRecord(r) /\ tok'[r].fid = tok[r].fid
        /\ \A f \in Files : file'[f].enq = file[f].enq
    BY <1>2, PageReaped DEF MapInv, BookInv
  <2>2. \/ tok' = tok /\ pend' = pend
        \/ /\ pend' = pend \ {tok[r].xid : r \in EndedBy(Arrived(p))}
           /\ \A r \in Arrived(p) : r \in Rids /\ tok[r].st = "SUBM"
           /\ \A r \in Rids : tok'[r].st = IF r \in Arrived(p) THEN "COMPL" ELSE tok[r].st
    BY <1>2, PageReaped DEF MapInv, BookInv
  <2>3. \A r \in Rids : \/ tok'[r].st = tok[r].st
                        \/ tok[r].st = "SUBM" /\ tok'[r].st = "COMPL"
    BY <2>2
  <2>4. WholeKept
    BY <2>1, <2>3 DEF WholeKept, Whole
  <2>5. BookInv'
    BY <2>1, <2>4, BooksKept DEF MapInv, SameMaps
  <2>6. CallInv'
    <3>1. op.kind \in Kinds => op.rid \in Rids
      BY DEF TypeOK, OpShape
    <3> QED BY <2>1, <2>3, <3>1 DEF MapInv, TokInv, CallInv, SameRecord, T, Whole
  <2>7. DequeueInv'
    BY <2>1, <2>4, DequeueKept DEF MapInv, TokInv, SameRecord
  <2>8. EndInv'
    <3>1. CASE tok' = tok /\ pend' = pend
      BY <3>1 DEF MapInv, TokInv, EndInv
    <3>2. CASE /\ pend' = pend \ {tok[r].xid : r \in EndedBy(Arrived(p))}
               /\ \A r \in Arrived(p) : r \in Rids /\ tok[r].st = "SUBM"
               /\ \A r \in Rids : tok'[r].st = IF r \in Arrived(p) THEN "COMPL" ELSE tok[r].st
      <4>1. \A r, s \in Rids : tok'[r].kind \in Ends /\ tok'[s].kind \in Ends
                               /\ tok'[r].xid = tok'[s].xid => r = s
        BY <2>1 DEF MapInv, TokInv, EndInv, SameRecord
      <4>2. ASSUME NEW x \in Xids, NEW r \in Rids, tok[r].kind \in Ends, tok[r].xid = x,
                   r \notin Arrived(p)
            PROVE  x \notin {tok[s].xid : s \in EndedBy(Arrived(p))}
        BY <3>2, <4>2 DEF MapInv, TokInv, EndInv, EndedBy, Ends
      <4>3. ASSUME NEW x \in Xids, NEW r \in Rids, tok[r].kind \in Ends, tok[r].xid = x,
                   r \in Arrived(p)
            PROVE  x \in {tok[s].xid : s \in EndedBy(Arrived(p))}
        BY <4>3 DEF EndedBy, Ends
      <4> QED BY <2>1, <3>2, <4>1, <4>2, <4>3 DEF MapInv, TokInv, EndInv, SameRecord
    <3> QED BY <2>2, <3>1, <3>2
  <2>9. FoundInv'
    BY <1>1, <2>1, <2>3, FoundKept
       DEF MapInv, TokInv, FoundInv, SameRecord, TypeOK, OpShape, T, Kinds
  <2> QED BY <2>5, <2>6, <2>7, <2>8, <2>9 DEF MapInv, TokInv
<1>3. ASSUME NEW f \in Files, ReapHeader(f) PROVE MapInv'
  <2>1. UNCHANGED <<tok, emap, tmap, pend, op>>
    BY <1>3 DEF ReapHeader, mapVars
  <2>2. \A g \in Files : file'[g].enq = file[g].enq
    BY <1>3 DEF ReapHeader, TypeOK, FileTypes, FileType, Complete
  <2>3. CallInv'
    BY <2>1 DEF MapInv, TokInv, CallInv, T
  <2> QED BY <1>1, <2>1, <2>2, <2>3, QuietKept DEF MapInv, TokInv, FoundInv
<1> QED BY <1>2, <1>3 DEF Kernel

-----------------------------------------------------------------------------
(* Calls that start, are checked, copy, flush and end.                     *)

\* A call starts with a token of its own.
LEMMA NewCallMaps ==
    ASSUME TypeOK, TypeOK', MapInv, CallInv', NEW k \in Kinds, NEW r \in Rids,
           NEW x \in Xids \cup {NoXid}, NEW d \in Rids \cup {NoRid}, NEW n \in Nat,
           NewCall(k, r, x, d, n),
           k = "deq" => /\ d \in Rids /\ tok[d].kind = "enq" /\ tok[d].st # "PART"
                        /\ x # NoXid => d \notin Takes(x),
           k \in Ends => x \in Xids
    PROVE  MapInv'
<1>1. /\ op.pc = "idle" /\ op.kind = "none" /\ tok[r].kind = "none"
      /\ x # NoXid => ~Closed(x)
      /\ tok' = [tok EXCEPT ![r] = NewTok(k, x, d, n)]
      /\ op' = [NoOp EXCEPT !.pc = "check", !.kind = k, !.rid = r]
      /\ UNCHANGED <<file, emap, tmap, pend>>
  BY DEF NewCall, At, NextRid, Used, Start, MapInv, TokInv, CallInv, fileVars, mapVars
<1>2. /\ op'.pc = "check" /\ op'.kind = k /\ op'.rid = r
  BY <1>1, OpNew
<1>3. /\ tok'[r].kind = k /\ tok'[r].st = "NONE" /\ tok'[r].xid = x /\ tok'[r].drid = d
      /\ \A s \in Rids \ {r} : tok'[s] = tok[s]
  BY <1>1, NewTokType DEF TypeOK, CallTypes
<1>4. tok[r].st = "NONE" /\ tok \in [Rids -> TokType]
  BY <1>1 DEF TypeOK, TokShape, CallTypes
<1>5. WholeKept /\ \A s \in Rids \ {r} : SameRecord(s)
  BY <1>3, <1>4 DEF WholeKept, SameRecord, Whole
<1>6. SameTmap
  BY <1>1, <1>3, <1>4, TmapStays DEF MapInv, BookInv, Whole
<1>7. BookInv'
  BY <1>1, <1>5, <1>6, BooksKept DEF MapInv, SameMaps
<1>8. DequeueInv'
  <2>1. k = "deq" => d # r /\ tok[d].st \in Whole
    <3>1. \A s \in Rids : tok[s].kind # "none" => tok[s].st # "NONE"
      BY <1>1 DEF MapInv, TokInv, CallInv, Kinds
    <3>2. k = "deq" => tok[d].st \in {"NONE", "PART", "SUBM", "COMPL"}
      BY <1>4 DEF TokType
    <3> QED BY <1>1, <3>1, <3>2 DEF Whole
  <2>2. \A s \in Rids \ {r} : tok[s].kind = "deq" =>
            /\ tok[s].drid \in Rids /\ tok[s].drid # r
            /\ tok[tok[s].drid].kind = "enq" /\ tok[tok[s].drid].st \in Whole
    BY <1>1 DEF MapInv, TokInv, DequeueInv, TypeOK, TokShape
  <2> QED BY <1>3, <2>1, <2>2 DEF DequeueInv
<1>9. EndInv'
  <2>1. k \in Ends => \A s \in Rids : tok[s].kind \in Ends => tok[s].xid # x
    BY <1>1, WmgrAssumption DEF Closed, Ends
  <2>2. r \in Rids /\ tok'[r].st # "SUBM" /\ tok[r].kind \notin Ends
    BY <1>1, <1>3 DEF Ends
  <2>3. \A s, t \in Rids : tok'[s].kind \in Ends /\ tok'[t].kind \in Ends
                           /\ tok'[s].xid = tok'[t].xid => s = t
    BY <1>3, <2>1, <2>2 DEF MapInv, TokInv, EndInv
  <2> QED BY <1>1, <1>3, <2>2, <2>3 DEF MapInv, TokInv, EndInv
<1>10. FoundInv'
  <2>1. \A s \in Rids : tok'[s].kind = "deq" /\ tok'[s].st = "PART" => Found(s) /\ SameRecord(s)
    BY <1>3, <1>5 DEF MapInv, TokInv, FoundInv
  <2> QED BY <1>1, <1>2, <1>3, <1>6, <2>1, FoundKept
<1> QED BY <1>7, <1>8, <1>9, <1>10 DEF MapInv, TokInv

\* So the maps do not hear of it.
LEMMA CallerMaps == TypeOK /\ MapInv /\ Caller => MapInv'
<1> SUFFICES ASSUME TypeOK, MapInv, Caller PROVE MapInv'
  OBVIOUS
<1>1. TypeOK' /\ CallInv'
  BY NextType, CallerCall DEF Next, MapInv, TokInv
<1>2. ASSUME NEW r \in Rids, CallEnqueue(r) PROVE MapInv'
  <2>1. PICK x \in Xids \cup {NoXid}, n \in EnqSizes : NewCall("enq", r, x, NoRid, n)
    BY <1>2 DEF CallEnqueue
  <2>2. n \in Nat
    BY WmgrAssumption
  <2> QED BY <1>1, <2>1, <2>2, NewCallMaps DEF Kinds, Ends
<1>3. ASSUME NEW r \in Rids, CallDequeue(r) PROVE MapInv'
  <2>1. PICK x \in Xids \cup {NoXid}, d \in Rids :
            /\ tok[d].kind = "enq" /\ tok[d].st # "PART"
            /\ x # NoXid => \A t \in DeqsOf(x) : t.drid # d
            /\ NewCall("deq", r, x, d, CtlDblks)
    BY <1>3 DEF CallDequeue
  <2>2. x # NoXid => d \notin Takes(x)
    BY <2>1 DEF Takes
  <2>3. CtlDblks \in Nat
    BY WmgrAssumption
  <2> QED BY <1>1, <2>1, <2>2, <2>3, NewCallMaps DEF Kinds, Ends
<1>4. ASSUME NEW r \in Rids, CallEnd(r) PROVE MapInv'
  <2>1. PICK k \in {"abort", "commit"}, x \in Xids : NewCall(k, r, x, NoRid, CtlDblks)
    BY <1>4 DEF CallEnd
  <2>2. CtlDblks \in Nat
    BY WmgrAssumption
  <2> QED BY <1>1, <2>1, <2>2, NewCallMaps DEF Kinds, Ends
<1>5. ASSUME NEW r \in Rids, Retry(r) PROVE MapInv'
  <2>1. UNCHANGED <<tok, file, emap, tmap, pend>> /\ tok[r].st = "PART"
        /\ op' = [NoOp EXCEPT !.pc = "check", !.kind = tok[r].kind, !.rid = r]
    BY <1>5 DEF Retry, Start, fileVars, mapVars
  <2>2. op'.pc = "check" /\ op'.rid = r
    BY <2>1, OpNew
  <2> QED BY <1>1, <2>1, <2>2, QuietKept
<1>6. CASE CallFlush
  <2>1. UNCHANGED <<tok, file, emap, tmap, pend>> /\ op'.kind = "flush"
    BY <1>6 DEF CallFlush, NoOp, fileVars, mapVars
  <2> QED BY <1>1, <2>1, QuietKept
<1> QED BY <1>2, <1>3, <1>4, <1>5, <1>6 DEF Caller

\* Resetting a file leaves its count of records alone (wrfc, fcntl::reset).
LEMMA ResetKeepsEnq == TypeOK => \A f, g \in Files :
    [file EXCEPT ![f] = WrReset(@)][g].enq = file[g].enq
BY DEF TypeOK, FileTypes, FileType, WrReset

\* Writes do not change the count of enqueued records.
LEMMA SubmitKeepsEnq == \A fc \in FileType : \A n :
    /\ Submit(fc, n).enq = fc.enq
    /\ [Submit(fc, n) EXCEPT !.fhdr = TRUE].enq = fc.enq
BY DEF Submit, FileType

\* What a dequeue finds: wmgr::dequeue_check(), against the books.
LEMMA CheckFinds ==
    ASSUME TypeOK, MapInv, op.pc = "check", op.kind = "deq", ~Disconnected, ~DequeueRefused
    PROVE  Found(op.rid)
<1>1. op.rid \in Rids /\ T = tok[op.rid] /\ T \in TokType /\ T.kind = "deq" /\ T.drid \in Rids
      /\ T.st \in {"NONE", "PART", "SUBM", "COMPL"}
  BY OpKinds DEF TypeOK, TokShape, T, Kinds, TokType
<1>2. T.st \in {"NONE", "PART"}
  BY <1>1 DEF MapInv, TokInv, CallInv, Whole, Kinds
<1>3. CASE T.st = "PART"
  BY <1>1, <1>3 DEF MapInv, TokInv, FoundInv
<1>4. CASE T.st = "NONE"
  <2>1. DequeueFound
    BY <1>4 DEF Disconnected, DequeueRefused
  <2>2. CASE InEmap(T.drid)
    <3>1. ~emap[T.drid].lock
      BY <2>1, <2>2 DEF DequeueFound
    <3> QED BY <1>1, <2>2, <3>1 DEF MapInv, BookInv, LockInv, Found
  <2>3. CASE ~InEmap(T.drid)
    <3>1. T.xid \in Xids /\ T.xid # NoXid /\ DataExists(T.xid, T.drid)
      BY <1>1, <2>1, <2>3 DEF DequeueFound, TokType
    <3>2. tok[T.drid].kind = "enq"
      BY <1>1 DEF MapInv, TokInv, DequeueInv
    <3>3. T.drid \in Adds(T.xid)
      BY <3>1, <3>2, ByPosition DEF MapInv, BookInv, EntryInv, EntryOf
    <3>4. \A y \in Xids : T.drid \in Adds(y) => y = T.xid
      BY <3>1, <3>3, ByPosition DEF MapInv, BookInv, EntryInv, EntryOf
    <3>5. \A y \in Xids : T.drid \in Takes(y) => y = T.xid
      <4> SUFFICES ASSUME NEW y \in Xids, T.drid \in Takes(y) PROVE y = T.xid
        OBVIOUS
      <4>1. PICK i \in DOMAIN tmap[y] : ~tmap[y][i].enq /\ tmap[y][i].drid = T.drid
        BY ByPosition
      <4>2. PICK j \in 1 .. i - 1 : tmap[y][j].enq /\ tmap[y][j].rid = T.drid
        BY <2>3, <4>1 DEF MapInv, BookInv, OrderInv, OrderOf
      <4>3. j \in DOMAIN tmap[y]
        BY <4>1, <4>2 DEF TypeOK, MapTypes
      <4> QED BY <3>4, <4>2, <4>3, ByPosition
    <3>6. T.drid \notin Takes(T.xid)
      BY <1>4, <3>1 DEF MapInv, TokInv, FoundInv
    <3> QED BY <1>1, <3>1, <3>3, <3>5, <3>6 DEF Found
  <2> QED BY <2>2, <2>3
<1> QED BY <1>2, <1>3, <1>4

\* The checks: dequeue_check() has found what is dequeued.
LEMMA CheckMaps == TypeOK /\ TypeOK' /\ MapInv /\ CallInv' /\ Check => MapInv'
<1> SUFFICES ASSUME TypeOK, TypeOK', MapInv, CallInv', Check PROVE MapInv'
  OBVIOUS
<1>1. op.pc = "check" /\ op \in OpType /\ UNCHANGED <<tok, emap, tmap, pend>>
  BY DEF Check, CheckBusy, CheckFull, CheckPage, CheckRefused, CheckOk, PageChecked,
         FileChecked, At, mapVars, TypeOK, CallTypes
<1>2. \A f \in Files : file'[f].enq = file[f].enq
  <2>1. file' = file \/ file' = [file EXCEPT ![ring.idx] = WrReset(@)]
    BY DEF Check, CheckBusy, CheckFull, CheckPage, CheckRefused, CheckOk, PageChecked,
           FileChecked, FilesReset, fileVars
  <2>2. ring.idx \in Files
    BY DEF TypeOK, FileTypes, RingType
  <2> QED BY <2>1, <2>2, ResetKeepsEnq
<1>3. ASSUME CheckOk PROVE MapInv'
  <2>1. op' = [op EXCEPT !.pc = "encode"] /\ ~Disconnected /\ ~DequeueRefused
    BY <1>3 DEF CheckOk, Goto
  <2>2. op'.kind = op.kind /\ op'.rid = op.rid
    BY <1>1, <2>1, OpAfter
  <2> QED BY <1>1, <1>2, <2>1, <2>2, CheckFinds, QuietKept
<1>4. ASSUME CheckBusy \/ CheckFull \/ CheckPage \/ CheckRefused PROVE MapInv'
  <2>1. PICK res : op' = [op EXCEPT !.pc = "exit", !.res = res]
    BY <1>4 DEF CheckBusy, CheckFull, CheckPage, CheckRefused, Return
  <2>2. op'.kind = op.kind /\ op'.rid = op.rid /\ op'.pc = "exit"
    BY <1>1, <2>1, OpAfter
  <2> QED BY <1>1, <1>2, <2>2, QuietKept
<1> QED BY <1>3, <1>4 DEF Check

\* A record that is copied is not in any map yet.
LEMMA EncodeMaps == TypeOK /\ TypeOK' /\ MapInv /\ CallInv' /\ Encode => MapInv'
<1> SUFFICES ASSUME TypeOK, TypeOK', MapInv, CallInv', Encode PROVE MapInv'
  OBVIOUS
<1> DEFINE room == PageDblks - pgOffset
           left == T.size - T.written
           n    == IF left < room THEN left ELSE room
           new  == [T EXCEPT !.fid     = IF T.written = 0 THEN ring.idx ELSE T.fid,
                             !.written = T.written + n,
                             !.pgs     = T.pgs + 1,
                             !.span    = T.span \cup {ring.idx},
                             !.st      = IF n = left THEN T.st ELSE "PART"]
           to   == IF n = left THEN "complete" ELSE "header"
<1>1. /\ op.pc = "encode" /\ op.kind \in Kinds /\ op.rid \in Rids /\ T = tok[op.rid]
      /\ T \in TokType /\ T.kind = op.kind /\ T.st \notin Whole
      /\ tok \in [Rids -> TokType] /\ op \in OpType
  BY OpKinds DEF Encode, At, MapInv, TokInv, CallInv, T, TypeOK, CallTypes
<1>2. /\ tok' = [tok EXCEPT ![op.rid] = new] /\ op' = [op EXCEPT !.pc = to]
      /\ UNCHANGED <<file, emap, tmap, pend>>
  BY DEF Encode, Goto, fileVars, mapVars
<1>3. /\ new.kind = T.kind /\ new.st \in {T.st, "PART"} /\ new.xid = T.xid /\ new.drid = T.drid
      /\ to \in {"complete", "header"}
  BY <1>1 DEF TokType
<1> HIDE DEF new, to
<1>4. tok'[op.rid] = new /\ \A r \in Rids \ {op.rid} : tok'[r] = tok[r]
  BY <1>1, <1>2
<1>5. op'.kind = op.kind /\ op'.rid = op.rid
  BY <1>1, <1>2, OpAfter
<1>6. WholeKept /\ \A r \in Rids : SameRecord(r)
  BY <1>1, <1>3, <1>4 DEF WholeKept, SameRecord
<1>7. SameTmap
  BY <1>1, <1>2, <1>4, TmapStays DEF MapInv, BookInv
<1>8. BookInv'
  BY <1>2, <1>6, <1>7, BooksKept DEF MapInv, SameMaps
<1>9. DequeueInv'
  BY <1>6, DequeueKept DEF MapInv, TokInv, SameRecord
<1>10. EndInv'
  <2>1. \A r \in Rids : tok'[r].st = "SUBM" <=> tok[r].st = "SUBM"
    BY <1>1, <1>3, <1>4 DEF Whole
  <2> QED BY <1>2, <1>6, <2>1, EndKept DEF MapInv, TokInv, SameRecord
<1>11. FoundInv'
  <2>1. op.kind = "deq" => Found(op.rid)
    BY <1>1 DEF MapInv, TokInv, FoundInv
  <2>2. \A r \in Rids : tok'[r].kind = "deq" /\ tok'[r].st = "PART" => Found(r) /\ SameRecord(r)
    BY <1>1, <1>3, <1>4, <1>6, <2>1 DEF MapInv, TokInv, FoundInv
  <2>3. tok'[op.rid].st = "NONE" => T.st = "NONE"
    BY <1>3, <1>4
  <2> QED BY <1>1, <1>2, <1>3, <1>4, <1>5, <1>6, <1>7, <2>1, <2>2, <2>3, FoundKept
          DEF MapInv, TokInv, FoundInv
<1> QED BY <1>8, <1>9, <1>10, <1>11 DEF MapInv, TokInv

\* Flushing leaves the maps alone.
LEMMA FlushMaps ==
    TypeOK /\ TypeOK' /\ BusyInv /\ MapInv /\ CallInv'
      /\ (FileHeaderCheck \/ WriteFlush \/ FlushCheck) => MapInv'
<1> SUFFICES ASSUME TypeOK, TypeOK', BusyInv, MapInv, CallInv',
                    FileHeaderCheck \/ WriteFlush \/ FlushCheck
             PROVE  MapInv'
  OBVIOUS
<1>1. /\ op \in OpType /\ ring.idx \in Files /\ file \in [Files -> FileType]
      /\ op.pc \in {"header", "flush", "reap"} /\ UNCHANGED <<tok, emap, tmap, pend>>
  BY DEF TypeOK, CallTypes, FileTypes, RingType, FileHeaderCheck, WriteFlush, FlushCheck, At,
         mapVars
<1>2. CASE FileHeaderCheck
  <2>1. PICK pc \in {"flush", "exit"} : op' = [op EXCEPT !.pc = pc]
    BY <1>2 DEF FileHeaderCheck, Goto
  <2>2. \A f \in Files : file'[f].enq = file[f].enq
    <3>1. file' = file \/ file' = [file EXCEPT ![ring.idx] = [Submit(@, SblkDblks) EXCEPT !.fhdr = TRUE]]
      BY <1>2 DEF FileHeaderCheck, WriteFileHeader
    <3>2. [Submit(file[ring.idx], SblkDblks) EXCEPT !.fhdr = TRUE].enq = file[ring.idx].enq
      BY <1>1, SubmitKeepsEnq
    <3> QED BY <1>1, <3>1, <3>2
  <2>3. op'.kind = op.kind /\ op'.rid = op.rid /\ op'.pc = pc
    BY <1>1, <2>1, OpAfter
  <2> QED BY <1>1, <2>2, <2>3, QuietKept
<1>3. CASE WriteFlush
  <2>1. PICK res : op' = [op EXCEPT !.pc = "reap", !.res = res]
    BY <1>3 DEF WriteFlush
  <2>2. \A f \in Files : file'[f].enq = file[f].enq
    <3>1. file' = file \/ file' = [file EXCEPT ![ring.idx] = Submit(@, RoundUp(cached))]
      BY <1>3 DEF WriteFlush, SubmitPage, fileVars
    <3>2. Submit(file[ring.idx], RoundUp(cached)).enq = file[ring.idx].enq
      BY <1>1, SubmitKeepsEnq
    <3> QED BY <1>1, <3>1, <3>2
  <2>3. op'.kind = op.kind /\ op'.rid = op.rid /\ op'.pc = "reap"
    BY <1>1, <2>1, OpAfter
  <2> QED BY <1>1, <2>2, <2>3, QuietKept
<1>4. CASE FlushCheck
  <2> DEFINE pageWait == PageBlocked /\ ~op.done
             rotate   == pgCntr >= FilePages
             rotated  == RotateResult(ring, file)
             pc  == IF op.done \/ pageWait \/ (rotate /\ rotated # "SUCCESS")
                    THEN "exit" ELSE "encode"
             res == IF rotate /\ rotated # "SUCCESS" THEN rotated
                    ELSE IF pageWait THEN "PAGE_AIOWAIT" ELSE op.res
  <2>1. op' = [op EXCEPT !.pc = pc, !.res = res] /\ op.pc = "reap"
    BY <1>4 DEF FlushCheck, At
  <2>2. pc \in {"exit", "encode"} /\ (pc = "encode" => ~op.done)
    OBVIOUS
  <2>3. \A f \in Files : file'[f].enq = file[f].enq
    <3>1. file' = file \/ file' = [file EXCEPT ![After(ring.idx, 1)] = WrReset(@)]
      BY <1>4 DEF FlushCheck
    <3>2. After(ring.idx, 1) \in Files
      BY <1>1, AfterInFiles
    <3> QED BY <3>1, <3>2, ResetKeepsEnq
  <2> HIDE DEF pc, res
  <2>4. op'.kind = op.kind /\ op'.rid = op.rid /\ op'.pc = pc
    BY <1>1, <2>1, OpAfter
  <2>5. op'.kind = "deq" /\ op'.pc = "encode" => Found(op.rid)
    <3> SUFFICES ASSUME op.kind = "deq", pc = "encode" PROVE Found(op.rid)
      BY <2>4
    <3>1. op.rid \in Rids /\ T = tok[op.rid] /\ T.kind = "deq"
          /\ T.st \in {"NONE", "PART", "SUBM", "COMPL"}
      BY <2>1, OpKinds DEF Kinds, T, TokType
    <3>2. T.st # "NONE"
      BY <2>1 DEF BusyInv, Working
    <3>3. T.st \notin Whole
      BY <2>2 DEF MapInv, TokInv, CallInv, Kinds
    <3> QED BY <3>1, <3>2, <3>3 DEF MapInv, TokInv, FoundInv, Whole
  <2> QED BY <1>1, <2>2, <2>3, <2>4, <2>5, QuietKept
<1> QED BY <1>2, <1>3, <1>4

\* A call that wrote nothing gives its token back.
LEMMA ExitMaps == TypeOK /\ TypeOK' /\ MapInv /\ CallInv' /\ Exit => MapInv'
<1> SUFFICES ASSUME TypeOK, TypeOK', MapInv, CallInv', Exit PROVE MapInv'
  OBVIOUS
<1>1. op \in OpType /\ UNCHANGED <<file, emap, tmap, pend>>
  BY DEF Exit, TypeOK, CallTypes, fileVars, mapVars
<1>2. CASE op' = [op EXCEPT !.pc = "wait"] /\ tok' = tok
  <2>1. op'.kind = op.kind /\ op'.rid = op.rid /\ op'.pc = "wait"
    BY <1>1, <1>2, OpAfter
  <2> QED BY <1>1, <1>2, <2>1, QuietKept
<1>3. CASE /\ op' = NoOp
           /\ tok' = [r \in Rids |-> IF r = op.rid /\ tok[r].st = "NONE" THEN NoTok ELSE tok[r]]
  <2>1. op'.kind = "none"
    BY <1>3 DEF NoOp
  <2>2. \A r \in Rids : \/ tok'[r] = tok[r]
                        \/ /\ tok[r].st = "NONE"
                           /\ tok'[r].kind = "none" /\ tok'[r].st = "NONE"
    BY <1>3 DEF NoTok
  <2>3. \A r \in Rids : tok[r].st # "NONE" => tok'[r] = tok[r]
    BY <1>3
  <2>4. WholeKept
    BY <2>3 DEF WholeKept, SameRecord, Whole
  <2>5. SameTmap
    BY <1>1, <2>3, TmapStays DEF MapInv, BookInv, Whole
  <2>6. BookInv'
    BY <1>1, <2>4, <2>5, BooksKept DEF MapInv, SameMaps
  <2>7. DequeueInv'
    BY <2>2, <2>4, DequeueKept DEF MapInv, TokInv
  <2>8. EndInv'
    BY <1>1, <2>2, EndKept DEF MapInv, TokInv, Ends
  <2>9. FoundInv'
    <3>1. \A r \in Rids : tok'[r].kind = "deq" /\ tok'[r].st = "PART" => Found(r) /\ SameRecord(r)
      BY <2>2 DEF MapInv, TokInv, FoundInv, SameRecord
    <3> QED BY <1>1, <2>1, <2>5, <3>1, FoundKept
  <2> QED BY <2>6, <2>7, <2>8, <2>9 DEF MapInv, TokInv
<1> QED BY <1>2, <1>3 DEF Exit, Goto

\* So does waiting.
LEMMA WaitMaps == TypeOK /\ TypeOK' /\ MapInv /\ CallInv' /\ (Wait \/ WaitTimeout) => MapInv'
<1> SUFFICES ASSUME TypeOK, TypeOK', MapInv, CallInv', Wait \/ WaitTimeout PROVE MapInv'
  OBVIOUS
<1>1. op \in OpType /\ op.pc = "wait" /\ UNCHANGED <<tok, emap, tmap, pend>>
  BY DEF Wait, WaitPage, WaitFile, WaitTimeout, At, TypeOK, CallTypes, mapVars
<1>2. \A f \in Files : file'[f].enq = file[f].enq
  <2>1. file' = file \/ file' = [file EXCEPT ![ring.idx] = WrReset(@)]
    BY DEF Wait, WaitPage, WaitFile, WaitTimeout, fileVars
  <2>2. ring.idx \in Files
    BY DEF TypeOK, FileTypes, RingType
  <2> QED BY <2>1, <2>2, ResetKeepsEnq
<1>3. \/ op' = NoOp
      \/ op' = [NoOp EXCEPT !.pc = "check", !.kind = op.kind, !.rid = op.rid]
      \/ op' = [op EXCEPT !.pc = "exit", !.res = "AIOCMPLWAIT"]
  BY DEF Wait, WaitPage, WaitFile, WaitTimeout, Start, Return
<1>4. CASE op' = NoOp
  <2>1. op'.kind = "none"
    BY <1>4 DEF NoOp
  <2> QED BY <1>1, <1>2, <2>1, QuietKept
<1>5. CASE op' = [NoOp EXCEPT !.pc = "check", !.kind = op.kind, !.rid = op.rid]
  <2>1. op'.kind = op.kind /\ op'.rid = op.rid /\ op'.pc = "check"
    BY <1>5, OpNew
  <2> QED BY <1>1, <1>2, <2>1, QuietKept
<1>6. CASE op' = [op EXCEPT !.pc = "exit", !.res = "AIOCMPLWAIT"]
  <2>1. op'.kind = op.kind /\ op'.rid = op.rid /\ op'.pc = "exit"
    BY <1>1, <1>6, OpAfter
  <2> QED BY <1>1, <1>2, <2>1, QuietKept
<1> QED BY <1>3, <1>4, <1>5, <1>6

-----------------------------------------------------------------------------
(* Counting records by the file that holds their header.                   *)

\* The records of S whose header is in file f.
InFile(S, f) == {r \in S : tok[r].fid = f}

\* As many entries of a set of map entries lie in file f as records they name:
\* what fcntl::decr_enqcnt() is called for in txn_abort() and txn_commit().
LEMMA CountByRid ==
    ASSUME NEW recs, NEW S, NEW f, IsFiniteSet(S),
           \A t \in recs : t.rid \in S /\ t.pfid = tok[t.rid].fid,
           \A r \in S : \E t \in recs : t.rid = r,
           \A t, u \in recs : t.rid = u.rid => t = u
    PROVE  CountIn(f, recs) = Cardinality(InFile(S, f))
<1> DEFINE SF == {r \in S : tok[r].fid = f}
           RF == {t \in recs : t.pfid = f}
           g  == [r \in SF |-> CHOOSE t \in recs : t.rid = r]
<1>1. \A r \in SF : g[r] \in recs /\ g[r].rid = r
  OBVIOUS
<1>2. \A r \in SF : g[r] \in RF
  BY <1>1
<1>3. \A t \in RF : t.rid \in SF /\ g[t.rid] = t
  BY <1>1
<1>4. g \in [SF -> RF]
  BY <1>2
<1>5. g \in Surjection(SF, RF)
  BY <1>3, <1>4 DEF Surjection
<1>6. g \in Injection(SF, RF)
  BY <1>1, <1>4 DEF Injection, IsInjective
<1>7. IsFiniteSet(SF)
  BY FS_Subset
<1> HIDE DEF g, SF, RF
<1>8. Cardinality(RF) = Cardinality(SF)
  BY <1>5, <1>6, <1>7, FS_Surjection
<1> QED BY <1>8 DEF CountIn, InFile, SF, RF

\* What is counted is finite.
LEMMA HeldFinite == \A f : /\ IsFiniteSet(Rids) /\ IsFiniteSet(Held)
                           /\ IsFiniteSet(Live(f)) /\ Cardinality(Live(f)) \in Nat
<1> TAKE f
<1>1. IsFiniteSet(Rids)
  BY FS_Interval, WmgrAssumption DEF Rids
<1>2. IsFiniteSet(Held)
  BY <1>1, FS_Subset DEF Held
<1>3. IsFiniteSet(Live(f))
  BY <1>2, FS_Subset DEF Live
<1> QED BY <1>1, <1>2, <1>3, FS_CardinalityType

\* One more record is enqueued and its file counts it.
LEMMA HeldGrows ==
    ASSUME TypeOK, LiveInv, NEW r \in Rids, r \notin Held, Held' = Held \cup {r},
           \A s \in Rids : tok'[s].fid = tok[s].fid, tok[r].fid \in Files,
           file' = [file EXCEPT ![tok[r].fid].enq = @ + 1]
    PROVE  LiveInv'
<1> SUFFICES ASSUME NEW f \in Files PROVE file'[f].enq = Cardinality(Live(f)')
  BY DEF LiveInv
<1>1. file[f] \in FileType /\ file \in [Files -> FileType]
  BY DEF TypeOK, FileTypes
<1>2. Live(f)' = IF tok[r].fid = f THEN Live(f) \cup {r} ELSE Live(f)
  BY DEF Live, Held
<1>3. file'[f].enq = IF tok[r].fid = f THEN file[f].enq + 1 ELSE file[f].enq
  BY <1>1 DEF FileType
<1>4. r \notin Live(f)
  BY DEF Live
<1>5. Cardinality(Live(f) \cup {r}) = Cardinality(Live(f)) + 1
  BY <1>4, HeldFinite, FS_AddElement
<1> QED BY <1>2, <1>3, <1>5 DEF LiveInv

\* Records leave the maps: each file counted those of it, and counts them no more.
LEMMA HeldShrinks ==
    ASSUME LiveInv, NEW gone, gone \subseteq Held
    PROVE  \A f \in Files :
               /\ Cardinality(InFile(gone, f)) \in Nat
               /\ Cardinality(InFile(gone, f)) <= file[f].enq
               /\ Cardinality(InFile(Held \ gone, f))
                      = file[f].enq - Cardinality(InFile(gone, f))
<1> TAKE f \in Files
<1> DEFINE G == InFile(gone, f)
           H == InFile(Held \ gone, f)
<1>1. G \subseteq Live(f) /\ H = Live(f) \ G /\ Live(f) \cap G = G
  BY DEF Live, InFile
<1>2. IsFiniteSet(Live(f))
  BY HeldFinite
<1> HIDE DEF G, H
<1>3. IsFiniteSet(G) /\ Cardinality(G) \in Nat /\ Cardinality(G) <= Cardinality(Live(f))
  BY <1>1, <1>2, FS_Subset, FS_CardinalityType
<1>4. Cardinality(H) = Cardinality(Live(f)) - Cardinality(G)
  <2>1. Cardinality(Live(f) \ G) = Cardinality(Live(f)) - Cardinality(Live(f) \cap G)
    BY <1>2, FS_Difference
  <2> QED BY <1>1, <2>1
<1> QED BY <1>3, <1>4 DEF LiveInv, G, H

-----------------------------------------------------------------------------
(* The entries of txn_map.                                                 *)

\* What an entry of txn_map says of the record it stands for.
LEMMA EntryFacts ==
    ASSUME TypeOK, EntryInv, NEW x \in Xids
    PROVE  /\ DOMAIN tmap[x] = 1 .. Len(tmap[x]) /\ Len(tmap[x]) \in Nat
           /\ tmap[x] \in Seq(EntryType)
           /\ \A i \in DOMAIN tmap[x] :
                 /\ tmap[x][i] \in EntryType /\ tmap[x][i].rid \in Rids
                 /\ tok[tmap[x][i].rid].st \in Whole /\ tok[tmap[x][i].rid].xid = x
<1>1. tmap[x] \in Seq(EntryType)
  BY DEF TypeOK, MapTypes
<1>2. DOMAIN tmap[x] = 1 .. Len(tmap[x]) /\ Len(tmap[x]) \in Nat
      /\ \A i \in DOMAIN tmap[x] : tmap[x][i] \in EntryType
  BY <1>1
<1>3. \A i \in DOMAIN tmap[x] : tmap[x][i].rid \in Rids
  BY <1>2 DEF EntryType
<1> QED BY <1>1, <1>2, <1>3 DEF EntryInv, EntryOf

\* The records a transaction enqueued, and those it dequeued.
LEMMA AddsFacts ==
    ASSUME TypeOK, EntryInv, NEW x \in Xids, NEW r \in Adds(x)
    PROVE  /\ r \in Rids /\ r \in Held /\ tok[r].kind = "enq" /\ tok[r].st \in Whole
           /\ tok[r].xid = x /\ tok[r].fid \in Files
           /\ \A y \in Xids : r \in Adds(y) => y = x
<1>1. PICK i \in DOMAIN tmap[x] : tmap[x][i].enq /\ tmap[x][i].rid = r
  BY ByPosition
<1>2. r \in Rids /\ tok[r].kind = "enq" /\ tok[r].st \in Whole /\ tok[r].xid = x
      /\ tok[r].fid \in Files
  BY <1>1, EntryFacts DEF EntryInv, EntryOf, EntryType
<1>3. ASSUME NEW y \in Xids, r \in Adds(y) PROVE y = x
  <2>1. PICK j \in DOMAIN tmap[y] : tmap[y][j].enq /\ tmap[y][j].rid = r
    BY <1>3, ByPosition
  <2> QED BY <1>2, <2>1 DEF EntryInv, EntryOf
<1> QED BY <1>2, <1>3 DEF Held

\* A record a transaction dequeues was enqueued whole, and is in one of the maps.
LEMMA TakesFacts ==
    ASSUME TypeOK, EntryInv, OrderInv, DequeueInv, NEW x \in Xids, NEW r \in Takes(x)
    PROVE  /\ r \in Rids /\ tok[r].kind = "enq" /\ tok[r].st \in Whole
           /\ InEmap(r) \/ r \in Adds(x)
<1>1. PICK i \in DOMAIN tmap[x] : ~tmap[x][i].enq /\ tmap[x][i].drid = r
  BY ByPosition
<1>2. DOMAIN tmap[x] = 1 .. Len(tmap[x]) /\ Len(tmap[x]) \in Nat
      /\ tmap[x][i].rid \in Rids
  BY EntryFacts
<1>3. tok[tmap[x][i].rid].kind = "deq" /\ tok[tmap[x][i].rid].drid = r
  BY <1>1 DEF EntryInv, EntryOf
<1>4. r \in Rids /\ tok[r].kind = "enq" /\ tok[r].st \in Whole
  BY <1>2, <1>3 DEF TypeOK, TokShape, DequeueInv
<1>5. ASSUME NEW j \in 1 .. i - 1, tmap[x][j].enq, tmap[x][j].rid = r PROVE r \in Adds(x)
  <2>1. j \in DOMAIN tmap[x]
    BY <1>2
  <2> QED BY <2>1, <1>5, ByPosition
<1> QED BY <1>1, <1>4, <1>5 DEF OrderInv, OrderOf

\* An entry is known by the record it stands for.
LEMMA EntryUnique ==
    ASSUME TypeOK, EntryInv, NEW x \in Xids, NEW t \in EnqsOf(x), NEW u \in EnqsOf(x),
           t.rid = u.rid
    PROVE  t = u
<1>1. PICK i \in DOMAIN tmap[x], j \in DOMAIN tmap[x] : t = tmap[x][i] /\ u = tmap[x][j]
  BY DEF EnqsOf, Entries
<1>2. t \in EntryType /\ u \in EntryType /\ t.enq /\ u.enq
  BY <1>1, EntryFacts DEF EnqsOf
<1>3. t.drid = u.drid /\ t.pfid = u.pfid /\ (t.aio <=> u.aio)
  BY <1>1, <1>2 DEF EntryInv, EntryOf
<1>4. t = [rid |-> t.rid, drid |-> t.drid, pfid |-> t.pfid, enq |-> t.enq, aio |-> t.aio]
      /\ u = [rid |-> u.rid, drid |-> u.drid, pfid |-> u.pfid, enq |-> u.enq, aio |-> u.aio]
  BY <1>2 DEF EntryType
<1>5. t.aio \in BOOLEAN /\ u.aio \in BOOLEAN /\ t.enq \in BOOLEAN /\ u.enq \in BOOLEAN
  BY <1>2 DEF EntryType
<1> QED BY <1>2, <1>3, <1>4, <1>5

\* A transaction that is not touched stays right, while what it dequeues stays
\* in enq_map.
LEMMA OthersKept ==
    ASSUME TypeOK, EntryInv, OrderInv, NEW y \in Xids, tmap'[y] = tmap[y],
           \A r \in Rids : tok[r].st \in Whole => tok'[r] = tok[r]
    PROVE  /\ EntryOf(y)'
           /\ (\A r \in Takes(y) : InEmap(r) => InEmap(r)') => OrderOf(y)'
<1>1. /\ DOMAIN tmap[y] = 1 .. Len(tmap[y]) /\ Len(tmap[y]) \in Nat
      /\ \A i \in DOMAIN tmap[y] :
            tmap[y][i].rid \in Rids /\ tok[tmap[y][i].rid].st \in Whole
  BY EntryFacts
<1>2. \A i \in DOMAIN tmap[y] : tok'[tmap[y][i].rid] = tok[tmap[y][i].rid]
  BY <1>1
<1>3. EntryOf(y)'
  BY <1>2 DEF EntryInv, EntryOf
<1>4. ASSUME \A r \in Takes(y) : InEmap(r) => InEmap(r)'
      PROVE  OrderOf(y)'
  <2> SUFFICES ASSUME NEW i \in DOMAIN tmap'[y], ~tmap'[y][i].enq
               PROVE  /\ \/ emap'[tmap'[y][i].drid].pfid # NoFile
                         \/ \E j \in 1 .. i - 1 : tmap'[y][j].enq /\ tmap'[y][j].rid = tmap'[y][i].drid
                      /\ \A j \in 1 .. i - 1 : ~tmap'[y][j].enq => tmap'[y][j].drid # tmap'[y][i].drid
    BY Zenon DEF OrderOf, InEmap
  <2>1. i \in DOMAIN tmap[y] /\ ~tmap[y][i].enq /\ tmap[y][i].drid \in Takes(y)
    BY ByPosition
  <2> QED BY <1>4, <2>1 DEF OrderInv, OrderOf, InEmap
<1> QED BY <1>3, <1>4

\* One entry more at the end of a transaction (txn_map::insert_txn_data).
LEMMA Appended ==
    ASSUME TypeOK, NEW x \in Xids, NEW t \in EntryType, TmapInsert(x, t)
    PROVE  /\ \A y \in Xids \ {x} : tmap'[y] = tmap[y]
           /\ DOMAIN tmap[x] = 1 .. Len(tmap[x]) /\ Len(tmap[x]) \in Nat
           /\ DOMAIN tmap'[x] = DOMAIN tmap[x] \cup {Len(tmap[x]) + 1}
           /\ \A i \in DOMAIN tmap[x] : tmap'[x][i] = tmap[x][i]
           /\ tmap'[x][Len(tmap[x]) + 1] = t
           /\ Adds(x)' = Adds(x) \cup (IF t.enq THEN {t.rid} ELSE {})
           /\ Takes(x)' = Takes(x) \cup (IF t.enq THEN {} ELSE {t.drid})
           /\ \A y \in Xids \ {x} : Adds(y)' = Adds(y) /\ Takes(y)' = Takes(y)
<1>1. tmap[x] \in Seq(EntryType) /\ tmap' = [tmap EXCEPT ![x] = Append(tmap[x], t)]
      /\ tmap \in [Xids -> Seq(EntryType)]
  BY DEF TmapInsert, TypeOK, MapTypes
<1>2. /\ \A y \in Xids \ {x} : tmap'[y] = tmap[y]
      /\ tmap'[x] = Append(tmap[x], t)
      /\ DOMAIN tmap[x] = 1 .. Len(tmap[x]) /\ Len(tmap[x]) \in Nat
  BY <1>1
<1>3. /\ DOMAIN tmap'[x] = DOMAIN tmap[x] \cup {Len(tmap[x]) + 1}
      /\ \A i \in DOMAIN tmap[x] : tmap'[x][i] = tmap[x][i]
      /\ tmap'[x][Len(tmap[x]) + 1] = t
  BY <1>1, <1>2
<1>4. Entries(x)' = Entries(x) \cup {t}
  <2>1. Entries(x)' = {tmap'[x][i] : i \in DOMAIN tmap'[x]}
    BY DEF Entries
  <2> QED BY <1>3, <2>1 DEF Entries
<1>5. EnqsOf(x)' = EnqsOf(x) \cup (IF t.enq THEN {t} ELSE {})
      /\ DeqsOf(x)' = DeqsOf(x) \cup (IF t.enq THEN {} ELSE {t})
  BY <1>4 DEF EnqsOf, DeqsOf
<1>6. Adds(x)' = Adds(x) \cup (IF t.enq THEN {t.rid} ELSE {})
      /\ Takes(x)' = Takes(x) \cup (IF t.enq THEN {} ELSE {t.drid})
  BY <1>5 DEF Adds, Takes
<1>7. \A y \in Xids \ {x} : Adds(y)' = Adds(y) /\ Takes(y)' = Takes(y)
  BY <1>2 DEF Adds, Takes, EnqsOf, DeqsOf, Entries
<1> QED BY <1>2, <1>3, <1>6, <1>7

\* A transaction that leaves txn_map.
LEMMA Emptied ==
    ASSUME TypeOK, NEW x \in Xids, tmap' = [tmap EXCEPT ![x] = <<>>]
    PROVE  /\ \A y \in Xids \ {x} : tmap'[y] = tmap[y] /\ Adds(y)' = Adds(y)
                                    /\ Takes(y)' = Takes(y)
           /\ DOMAIN tmap'[x] = {} /\ Adds(x)' = {} /\ Takes(x)' = {}
<1>1. tmap'[x] = <<>> /\ \A y \in Xids \ {x} : tmap'[y] = tmap[y]
  BY DEF TypeOK, MapTypes
<1>2. DOMAIN tmap'[x] = {}
  BY <1>1
<1>3. Entries(x)' = {}
  BY <1>2 DEF Entries
<1>4. Adds(x)' = {} /\ Takes(x)' = {}
  BY <1>3 DEF Adds, Takes, EnqsOf, DeqsOf
<1> QED BY <1>1, <1>2, <1>4 DEF Adds, Takes, EnqsOf, DeqsOf, Entries

-----------------------------------------------------------------------------
(* The record of the call in progress is whole.                            *)

\* The record is in no map before this step, and alone moves on in it.
LEMMA RecordFacts ==
    ASSUME TypeOK, MapInv, BusyInv, Recorded
    PROVE  /\ op.kind \in Kinds /\ op.rid \in Rids /\ T = tok[op.rid] /\ T \in TokType
           /\ T.kind = op.kind /\ T.st \notin Whole /\ T.fid \in Files
           /\ tok'[op.rid].st = "SUBM"
           /\ \A r \in Rids \ {op.rid} : tok'[r] = tok[r] /\ tok[r].st # "PART"
           /\ \A r \in Rids : SameRecord(r) /\ tok'[r].fid = tok[r].fid
           /\ op'.kind = op.kind /\ op'.rid = op.rid /\ op'.pc = "header"
           /\ op.rid \notin Held
           /\ \A x \in Xids : \A i \in DOMAIN tmap[x] : tmap[x][i].rid # op.rid
           /\ op.kind = "deq" => Found(op.rid)
<1>1. op.pc = "complete" /\ tok' = [tok EXCEPT ![op.rid].st = "SUBM"]
      /\ op' = [op EXCEPT !.pc = "header", !.done = TRUE]
  BY DEF Recorded, At
<1>2. /\ op.kind \in Kinds /\ op.rid \in Rids /\ T = tok[op.rid] /\ T \in TokType
      /\ T.kind = op.kind /\ op \in OpType /\ T.fid \in Files /\ tok \in [Rids -> TokType]
  BY <1>1, OpKinds DEF T, TypeOK, OpShape, CallTypes
<1>3. T.st \notin Whole
  BY <1>1, <1>2 DEF MapInv, TokInv, CallInv
<1>4. tok'[op.rid].st = "SUBM" /\ tok'[op.rid].fid = T.fid /\ SameRecord(op.rid)
  BY <1>1, <1>2 DEF TokType, SameRecord
<1>5. \A r \in Rids \ {op.rid} : tok'[r] = tok[r]
  BY <1>1, <1>2
<1>6. \A r \in Rids \ {op.rid} : tok[r].st # "PART"
  <2>1. op.kind # "flush"
    BY <1>2 DEF Kinds
  <2>2. Working
    BY <1>1, <2>1 DEF Working
  <2> QED BY <2>2 DEF BusyInv, HalfWritten
<1>7. op'.kind = op.kind /\ op'.rid = op.rid /\ op'.pc = "header"
  BY <1>1, <1>2 DEF OpType
<1>8. \A x \in Xids : \A i \in DOMAIN tmap[x] : tmap[x][i].rid # op.rid
  BY <1>2, <1>3 DEF MapInv, BookInv, EntryInv, EntryOf
<1>9. op.rid \notin Held
  <2>1. \A x \in Xids : op.rid \notin Adds(x)
    BY <1>8, ByPosition
  <2>2. ~InEmap(op.rid)
    BY <1>2, <1>3 DEF MapInv, BookInv, EmapInv
  <2> QED BY <2>1, <2>2 DEF Held
<1>10. op.kind = "deq" => Found(op.rid)
  BY <1>1 DEF MapInv, TokInv, FoundInv
<1> QED BY <1>2, <1>3, <1>4, <1>5, <1>6, <1>7, <1>8, <1>9, <1>10 DEF SameRecord

\* The tokens after it; of a commit or an abort, the transaction is pending too.
LEMMA RecordTokens ==
    ASSUME TypeOK, MapInv, BusyInv, CallInv', Recorded,
           pend' = pend \cup (IF op.kind \in Ends THEN {T.xid} ELSE {})
    PROVE  TokInv'
<1>1. /\ op.kind \in Kinds /\ op.rid \in Rids /\ T = tok[op.rid]
      /\ T.kind = op.kind /\ T.st \notin Whole /\ tok'[op.rid].st = "SUBM"
      /\ \A r \in Rids \ {op.rid} : tok'[r] = tok[r] /\ tok[r].st # "PART"
      /\ \A r \in Rids : SameRecord(r) /\ tok'[r].fid = tok[r].fid
      /\ op'.kind = op.kind /\ op'.rid = op.rid /\ op'.pc = "header"
  BY RecordFacts
<1>2. WholeKept
  BY <1>1 DEF WholeKept, Whole
<1>3. DequeueInv'
  BY <1>1, <1>2, DequeueKept DEF MapInv, TokInv, SameRecord
<1>4. \A r \in Rids : tok'[r].st # "PART"
  BY <1>1
<1>5. FoundInv'
  <2>1. T'.st # "NONE"
    BY <1>1 DEF T
  <2> QED BY <1>1, <1>4, <2>1 DEF FoundInv
<1>6. EndInv'
  <2>1. \A r, s \in Rids : tok'[r].kind \in Ends /\ tok'[s].kind \in Ends
                          /\ tok'[r].xid = tok'[s].xid => r = s
    BY <1>1 DEF MapInv, TokInv, EndInv, SameRecord
  <2>2. ASSUME NEW x \in Xids
        PROVE  x \in pend' <=> \E r \in Rids : tok'[r].kind \in Ends /\ tok'[r].xid = x
                                              /\ tok'[r].st = "SUBM"
    <3>1. x \in pend <=> \E r \in Rids : tok[r].kind \in Ends /\ tok[r].xid = x
                                          /\ tok[r].st = "SUBM"
      BY DEF MapInv, TokInv, EndInv
    <3>2. \A r \in Rids : tok'[r].st = "SUBM" <=> tok[r].st = "SUBM" \/ r = op.rid
      BY <1>1
    <3> QED BY <1>1, <3>1, <3>2 DEF SameRecord
  <2> QED BY <2>1, <2>2 DEF EndInv
<1> QED BY <1>3, <1>5, <1>6 DEF TokInv

\* A record is entered in txn_map as it was written.
LEMMA RecordEntry ==
    ASSUME TypeOK, MapInv, BusyInv, Recorded, NEW t \in EntryType, T.xid \in Xids,
           TmapInsert(T.xid, t), t.rid = op.rid, t.pfid = T.fid, ~t.aio,
           IF t.enq THEN op.kind = "enq" /\ t.drid = NoRid
                    ELSE op.kind = "deq" /\ t.drid = T.drid
    PROVE  EntryInv'
<1>1. /\ op.kind \in Kinds /\ op.rid \in Rids /\ T = tok[op.rid]
      /\ T.kind = op.kind /\ tok'[op.rid].st = "SUBM"
      /\ \A r \in Rids \ {op.rid} : tok'[r] = tok[r] /\ tok[r].st # "PART"
      /\ \A r \in Rids : SameRecord(r) /\ tok'[r].fid = tok[r].fid
      /\ \A x \in Xids : \A i \in DOMAIN tmap[x] : tmap[x][i].rid # op.rid
  BY RecordFacts
<1> DEFINE Stands(x, u) == /\ tok'[u.rid].xid = x /\ tok'[u.rid].st \in Whole
                           /\ tok'[u.rid].fid = u.pfid
                           /\ IF u.enq THEN tok'[u.rid].kind = "enq" /\ u.drid = NoRid
                              ELSE tok'[u.rid].kind = "deq" /\ u.drid = tok'[u.rid].drid
                           /\ u.aio <=> tok'[u.rid].st = "COMPL"
<1>2. ASSUME NEW x \in Xids, NEW i \in DOMAIN tmap[x] PROVE Stands(x, tmap[x][i])
  <2>1. tmap[x][i].rid \in Rids /\ tmap[x][i].rid # op.rid
    BY <1>1, EntryFacts DEF MapInv, BookInv
  <2>2. tok'[tmap[x][i].rid] = tok[tmap[x][i].rid]
    BY <1>1, <2>1
  <2> QED BY <2>2 DEF MapInv, BookInv, EntryInv, EntryOf
<1>3. Stands(T.xid, t)
  <2>1. tok'[op.rid].xid = T.xid /\ tok'[op.rid].drid = T.drid /\ tok'[op.rid].kind = op.kind
        /\ tok'[op.rid].fid = T.fid
    BY <1>1 DEF SameRecord
  <2> QED BY <1>1, <2>1 DEF Whole
<1>4. ASSUME NEW x \in Xids, NEW i \in DOMAIN tmap'[x] PROVE Stands(x, tmap'[x][i])
  <2>1. CASE x # T.xid
    BY <1>2, <2>1, Appended
  <2>2. CASE x = T.xid /\ i \in DOMAIN tmap[x]
    BY <1>2, <2>2, Appended
  <2>3. CASE x = T.xid /\ i \notin DOMAIN tmap[x]
    BY <1>3, <2>3, Appended
  <2> QED BY <2>1, <2>2, <2>3
<1> QED BY <1>4 DEF EntryInv, EntryOf

-----------------------------------------------------------------------------
(* wmgr::enqueue().                                                        *)

\* An operation's entry in txn_map.
LEMMA EntryType1 ==
    ASSUME TypeOK, op.rid \in Rids, T.fid \in Files, NEW d \in Rids \cup {NoRid}, NEW e \in BOOLEAN
    PROVE  /\ Entry(op.rid, d, e) \in EntryType
           /\ Entry(op.rid, d, e).rid = op.rid /\ Entry(op.rid, d, e).drid = d
           /\ Entry(op.rid, d, e).pfid = T.fid /\ Entry(op.rid, d, e).enq = e
           /\ Entry(op.rid, d, e).aio = FALSE
BY DEF Entry, EntryType

\* An enqueue in a transaction.
LEMMA EnqueueTxnMaps ==
    TypeOK /\ MapInv /\ BusyInv /\ CallInv' /\ EnqueueTxn => MapInv'
<1> SUFFICES ASSUME TypeOK, MapInv, BusyInv, CallInv', EnqueueTxn PROVE MapInv'
  OBVIOUS
<1> DEFINE t == Entry(op.rid, NoRid, TRUE)
<1>1. /\ Recorded /\ op.kind = "enq" /\ T.xid # NoXid /\ UNCHANGED <<emap, pend>>
      /\ file' = [file EXCEPT ![T.fid].enq = @ + 1] /\ TmapInsert(T.xid, t)
  BY DEF EnqueueTxn
<1>2. /\ op.rid \in Rids /\ T = tok[op.rid] /\ T \in TokType /\ T.fid \in Files
      /\ T.kind = op.kind /\ tok'[op.rid].st = "SUBM"
      /\ \A r \in Rids \ {op.rid} : tok'[r] = tok[r]
      /\ \A r \in Rids : SameRecord(r) /\ tok'[r].fid = tok[r].fid
      /\ op.rid \notin Held
  BY <1>1, RecordFacts
<1>3. PICK x \in Xids : x = T.xid
  BY <1>1, <1>2 DEF TokType
<1>4. /\ t \in EntryType /\ t.rid = op.rid /\ t.drid = NoRid /\ t.pfid = T.fid /\ t.enq = TRUE
      /\ t.aio = FALSE
  BY <1>2, EntryType1
<1> HIDE DEF t
<1>5. TokInv'
  <2>1. pend' = pend \cup (IF op.kind \in Ends THEN {T.xid} ELSE {})
    BY <1>1 DEF Ends
  <2> QED BY <1>1, <2>1, RecordTokens
<1>6. EntryInv'
  BY <1>1, <1>3, <1>4, RecordEntry
<1>7. /\ Adds(x)' = Adds(x) \cup {op.rid} /\ Takes(x)' = Takes(x)
      /\ \A y \in Xids \ {x} : Adds(y)' = Adds(y) /\ Takes(y)' = Takes(y)
      /\ \A y \in Xids \ {x} : tmap'[y] = tmap[y]
      /\ DOMAIN tmap[x] = 1 .. Len(tmap[x]) /\ Len(tmap[x]) \in Nat
      /\ DOMAIN tmap'[x] = DOMAIN tmap[x] \cup {Len(tmap[x]) + 1}
      /\ \A i \in DOMAIN tmap[x] : tmap'[x][i] = tmap[x][i]
      /\ tmap'[x][Len(tmap[x]) + 1] = t
  <2>1. TmapInsert(x, t)
    BY <1>1, <1>3 DEF TmapInsert
  <2>2. /\ Adds(x)' = Adds(x) \cup (IF t.enq THEN {t.rid} ELSE {})
        /\ Takes(x)' = Takes(x) \cup (IF t.enq THEN {} ELSE {t.drid})
    BY <1>4, <2>1, Appended
  <2>3. \A y \in Xids \ {x} : Adds(y)' = Adds(y) /\ Takes(y)' = Takes(y)
    BY <1>4, <2>1, Appended
  <2>4. /\ \A y \in Xids \ {x} : tmap'[y] = tmap[y]
        /\ DOMAIN tmap[x] = 1 .. Len(tmap[x]) /\ Len(tmap[x]) \in Nat
        /\ DOMAIN tmap'[x] = DOMAIN tmap[x] \cup {Len(tmap[x]) + 1}
        /\ \A i \in DOMAIN tmap[x] : tmap'[x][i] = tmap[x][i]
        /\ tmap'[x][Len(tmap[x]) + 1] = t
    BY <1>4, <2>1, Appended
  <2> QED BY <1>4, <2>2, <2>3, <2>4
<1>8. OrderInv'
  <2> SUFFICES ASSUME NEW y \in Xids, NEW i \in DOMAIN tmap'[y], ~tmap'[y][i].enq
               PROVE  /\ \/ emap'[tmap'[y][i].drid].pfid # NoFile
                         \/ \E j \in 1 .. i - 1 : tmap'[y][j].enq /\ tmap'[y][j].rid = tmap'[y][i].drid
                      /\ \A j \in 1 .. i - 1 : ~tmap'[y][j].enq => tmap'[y][j].drid # tmap'[y][i].drid
    BY Zenon DEF OrderInv, OrderOf, InEmap
  <2>1. i \in DOMAIN tmap[y] /\ tmap'[y][i] = tmap[y][i]
    BY <1>4, <1>7
  <2>2. \A j \in 1 .. i - 1 : j \in DOMAIN tmap[y] /\ tmap'[y][j] = tmap[y][j]
    <3>1. DOMAIN tmap[y] = 1 .. Len(tmap[y]) /\ Len(tmap[y]) \in Nat
      BY EntryFacts DEF MapInv, BookInv
    <3> QED BY <1>7, <2>1, <3>1
  <2>3. /\ \/ InEmap(tmap[y][i].drid)
           \/ \E j \in 1 .. i - 1 : tmap[y][j].enq /\ tmap[y][j].rid = tmap[y][i].drid
        /\ \A j \in 1 .. i - 1 : ~tmap[y][j].enq => tmap[y][j].drid # tmap[y][i].drid
    BY <2>1 DEF MapInv, BookInv, OrderInv, OrderOf
  <2> QED BY <1>1, <2>1, <2>2, <2>3 DEF InEmap
<1>9. \A r \in Rids : InEmap(r)' <=> InEmap(r)
  BY <1>1 DEF InEmap
<1>10. EmapInv'
  <2> SUFFICES ASSUME NEW r \in Rids, InEmap(r)
               PROVE  /\ tok'[r].kind = "enq" /\ tok'[r].st \in Whole /\ tok'[r].fid = emap[r].pfid
                      /\ \A y \in Xids : r \notin Adds(y)'
    BY <1>1, <1>9 DEF EmapInv
  <2>1. r # op.rid
    BY <1>2 DEF Held
  <2> QED BY <1>2, <1>7, <2>1 DEF MapInv, BookInv, EmapInv
<1>11. LockInv'
  <2>1. \A y \in Xids : Takes(y)' = Takes(y)
    BY <1>7
  <2> QED BY <1>1, <1>9, <2>1 DEF MapInv, BookInv, LockInv
<1>12. LiveInv'
  <2>1. Held' = Held \cup {op.rid}
    BY <1>2, <1>3, <1>7, <1>9 DEF Held
  <2> QED BY <1>1, <1>2, <2>1, HeldGrows DEF MapInv, BookInv
<1> QED BY <1>5, <1>6, <1>8, <1>10, <1>11, <1>12 DEF MapInv, BookInv

\* An enqueue outside a transaction, which is never in enq_map before.
LEMMA EnqueueNonTxnMaps ==
    TypeOK /\ MapInv /\ BusyInv /\ CallInv' /\ EnqueueNonTxn =>
        /\ MapInv'
        /\ emap' = [emap EXCEPT ![op.rid] = [pfid |-> T.fid, lock |-> FALSE]]
<1> SUFFICES ASSUME TypeOK, MapInv, BusyInv, CallInv', EnqueueNonTxn
             PROVE  /\ MapInv'
                    /\ emap' = [emap EXCEPT ![op.rid] = [pfid |-> T.fid, lock |-> FALSE]]
  OBVIOUS
<1>1. /\ Recorded /\ op.kind = "enq" /\ T.xid = NoXid /\ UNCHANGED <<tmap, pend>>
      /\ file' = [file EXCEPT ![T.fid].enq = @ + 1]
  BY DEF EnqueueNonTxn
<1>2. /\ op.rid \in Rids /\ T = tok[op.rid] /\ T \in TokType /\ T.fid \in Files
      /\ T.kind = op.kind /\ tok'[op.rid].st = "SUBM" /\ T.st \notin Whole
      /\ \A r \in Rids \ {op.rid} : tok'[r] = tok[r]
      /\ \A r \in Rids : SameRecord(r) /\ tok'[r].fid = tok[r].fid
      /\ op.rid \notin Held
  BY <1>1, RecordFacts
<1>3. emap' = [emap EXCEPT ![op.rid] = [pfid |-> T.fid, lock |-> FALSE]]
  <2>1. ~InEmap(op.rid)
    BY <1>2 DEF Held
  <2> QED BY <2>1 DEF EnqueueNonTxn
<1>4. /\ emap'[op.rid] = [pfid |-> T.fid, lock |-> FALSE]
      /\ \A r \in Rids \ {op.rid} : emap'[r] = emap[r]
  BY <1>2, <1>3 DEF TypeOK, MapTypes
<1>5. \A r \in Rids : InEmap(r)' <=> InEmap(r) \/ r = op.rid
  BY <1>2, <1>4 DEF InEmap, Files, NoFile
<1>6. TokInv'
  <2>1. pend' = pend \cup (IF op.kind \in Ends THEN {T.xid} ELSE {})
    BY <1>1 DEF Ends
  <2> QED BY <1>1, <2>1, RecordTokens
<1>7. EntryInv' /\ OrderInv'
  <2> SUFFICES ASSUME NEW y \in Xids PROVE EntryOf(y)' /\ OrderOf(y)'
    BY DEF EntryInv, OrderInv
  <2>1. \A r \in Takes(y) : InEmap(r) => InEmap(r)'
    BY <1>5, TakesFacts DEF MapInv, BookInv, TokInv
  <2>2. \A r \in Rids : tok[r].st \in Whole => tok'[r] = tok[r]
    BY <1>2
  <2> QED BY <1>1, <2>1, <2>2, OthersKept DEF MapInv, BookInv
<1>8. \A y \in Xids : Adds(y)' = Adds(y) /\ Takes(y)' = Takes(y)
  BY <1>1 DEF Adds, Takes, EnqsOf, DeqsOf, Entries
<1>9. EmapInv'
  <2> SUFFICES ASSUME NEW r \in Rids, InEmap(r)'
               PROVE  /\ tok'[r].kind = "enq" /\ tok'[r].st \in Whole /\ tok'[r].fid = emap'[r].pfid
                      /\ \A y \in Xids : r \notin Adds(y)'
    BY DEF EmapInv
  <2>1. CASE r = op.rid
    BY <1>1, <1>2, <1>4, <1>8, <2>1 DEF SameRecord, Whole, Held
  <2>2. CASE r # op.rid
    BY <1>2, <1>4, <1>5, <1>8, <2>2 DEF MapInv, BookInv, EmapInv
  <2> QED BY <2>1, <2>2
<1>10. \A y \in Xids : op.rid \notin Takes(y)
  BY <1>2, TakesFacts DEF MapInv, BookInv, TokInv
<1>11. LockInv'
  <2> SUFFICES ASSUME NEW r \in Rids
               PROVE  /\ \A x, y \in Xids : r \in Takes(x)' /\ r \in Takes(y)' => x = y
                      /\ InEmap(r)' => (emap'[r].lock <=> \E x \in Xids : r \in Takes(x)')
    BY DEF LockInv
  <2>1. CASE r = op.rid
    BY <1>4, <1>8, <1>10, <2>1
  <2>2. CASE r # op.rid
    BY <1>4, <1>5, <1>8, <2>2 DEF MapInv, BookInv, LockInv
  <2> QED BY <2>1, <2>2
<1>12. LiveInv'
  <2>1. Held' = Held \cup {op.rid}
    BY <1>2, <1>5, <1>8 DEF Held
  <2> QED BY <1>1, <1>2, <2>1, HeldGrows DEF MapInv, BookInv
<1> QED BY <1>3, <1>6, <1>7, <1>9, <1>11, <1>12 DEF MapInv, BookInv

-----------------------------------------------------------------------------
(* wmgr::dequeue().                                                        *)

\* A dequeue in a transaction locks what it found, if that is in enq_map.
LEMMA DequeueTxnMaps ==
    TypeOK /\ MapInv /\ BusyInv /\ CallInv' /\ DequeueTxn => MapInv'
<1> SUFFICES ASSUME TypeOK, MapInv, BusyInv, CallInv', DequeueTxn PROVE MapInv'
  OBVIOUS
<1> DEFINE t == Entry(op.rid, T.drid, FALSE)
<1>1. /\ Recorded /\ op.kind = "deq" /\ T.xid # NoXid /\ UNCHANGED <<file, pend>>
      /\ emap' = [emap EXCEPT ![T.drid].lock = InEmap(T.drid)] /\ TmapInsert(T.xid, t)
  BY DEF DequeueTxn
<1>2. /\ op.rid \in Rids /\ T = tok[op.rid] /\ T \in TokType /\ T.fid \in Files
      /\ T.kind = op.kind /\ tok'[op.rid].st = "SUBM"
      /\ \A r \in Rids \ {op.rid} : tok'[r] = tok[r]
      /\ \A r \in Rids : SameRecord(r) /\ tok'[r].fid = tok[r].fid
      /\ T.st \notin Whole /\ Found(op.rid)
  BY <1>1, RecordFacts
<1>3. PICK x \in Xids : x = T.xid
  BY <1>1, <1>2 DEF TokType
<1>4. PICK d \in Rids : d = T.drid
  BY <1>1, <1>2 DEF TypeOK, TokShape
<1>5. /\ t \in EntryType /\ t.rid = op.rid /\ t.drid = d /\ t.pfid = T.fid /\ t.enq = FALSE
      /\ t.aio = FALSE
  BY <1>2, <1>4, EntryType1
<1> HIDE DEF t
<1>6. TokInv'
  <2>1. pend' = pend \cup (IF op.kind \in Ends THEN {T.xid} ELSE {})
    BY <1>1 DEF Ends
  <2> QED BY <1>1, <2>1, RecordTokens
<1>7. EntryInv'
  BY <1>1, <1>3, <1>4, <1>5, RecordEntry
<1>8. /\ Adds(x)' = Adds(x) /\ Takes(x)' = Takes(x) \cup {d}
      /\ \A y \in Xids \ {x} : Adds(y)' = Adds(y) /\ Takes(y)' = Takes(y)
      /\ \A y \in Xids \ {x} : tmap'[y] = tmap[y]
      /\ DOMAIN tmap[x] = 1 .. Len(tmap[x]) /\ Len(tmap[x]) \in Nat
      /\ DOMAIN tmap'[x] = DOMAIN tmap[x] \cup {Len(tmap[x]) + 1}
      /\ \A i \in DOMAIN tmap[x] : tmap'[x][i] = tmap[x][i]
      /\ tmap'[x][Len(tmap[x]) + 1] = t
  <2>1. TmapInsert(x, t)
    BY <1>1, <1>3 DEF TmapInsert
  <2>2. /\ Adds(x)' = Adds(x) \cup (IF t.enq THEN {t.rid} ELSE {})
        /\ Takes(x)' = Takes(x) \cup (IF t.enq THEN {} ELSE {t.drid})
    BY <1>5, <2>1, Appended
  <2>3. \A y \in Xids \ {x} : Adds(y)' = Adds(y) /\ Takes(y)' = Takes(y)
    BY <1>5, <2>1, Appended
  <2>4. /\ \A y \in Xids \ {x} : tmap'[y] = tmap[y]
        /\ DOMAIN tmap[x] = 1 .. Len(tmap[x]) /\ Len(tmap[x]) \in Nat
        /\ DOMAIN tmap'[x] = DOMAIN tmap[x] \cup {Len(tmap[x]) + 1}
        /\ \A i \in DOMAIN tmap[x] : tmap'[x][i] = tmap[x][i]
        /\ tmap'[x][Len(tmap[x]) + 1] = t
    BY <1>5, <2>1, Appended
  <2> QED BY <1>5, <2>2, <2>3, <2>4
<1>9. /\ \A r \in Rids : emap'[r].pfid = emap[r].pfid /\ (r # d => emap'[r] = emap[r])
      /\ emap'[d].lock = InEmap(d)
  BY <1>1, <1>4 DEF TypeOK, MapTypes
<1>10. \A r \in Rids : InEmap(r)' <=> InEmap(r)
  BY <1>9 DEF InEmap
<1>11. /\ \A y \in Xids : d \notin Takes(y)
       /\ InEmap(d) \/ d \in Adds(x)
  BY <1>2, <1>3, <1>4 DEF Found
<1>12. OrderInv'
  <2>1. ASSUME NEW y \in Xids \ {x} PROVE OrderOf(y)'
    <3>1. \A r \in Takes(y) : InEmap(r) => InEmap(r)'
      BY <1>10, TakesFacts DEF MapInv, BookInv, TokInv
    <3>2. \A r \in Rids : tok[r].st \in Whole => tok'[r] = tok[r]
      BY <1>2
    <3> QED BY <1>8, <3>1, <3>2, OthersKept DEF MapInv, BookInv
  <2>2. ASSUME NEW i \in DOMAIN tmap'[x], ~tmap'[x][i].enq
        PROVE  /\ \/ emap'[tmap'[x][i].drid].pfid # NoFile
                  \/ \E j \in 1 .. i - 1 : tmap'[x][j].enq /\ tmap'[x][j].rid = tmap'[x][i].drid
               /\ \A j \in 1 .. i - 1 : ~tmap'[x][j].enq => tmap'[x][j].drid # tmap'[x][i].drid
    <3>1. \A j \in 1 .. i - 1 : j \in DOMAIN tmap[x] /\ tmap'[x][j] = tmap[x][j]
      BY <1>8
    <3>2. CASE i \in DOMAIN tmap[x]
      <4>1. tmap'[x][i] = tmap[x][i] /\ ~tmap[x][i].enq
        BY <1>8, <2>2, <3>2
      <4>2. tmap[x][i].drid \in Rids
        <5>1. tmap[x][i].drid \in Takes(x)
          BY <3>2, <4>1, ByPosition
        <5> QED BY <5>1, TakesFacts DEF MapInv, BookInv, TokInv
      <4>3. /\ \/ InEmap(tmap[x][i].drid)
               \/ \E j \in 1 .. i - 1 : tmap[x][j].enq /\ tmap[x][j].rid = tmap[x][i].drid
            /\ \A j \in 1 .. i - 1 : ~tmap[x][j].enq => tmap[x][j].drid # tmap[x][i].drid
        BY <3>2, <4>1 DEF MapInv, BookInv, OrderInv, OrderOf
      <4> QED BY <1>9, <3>1, <4>1, <4>2, <4>3 DEF InEmap
    <3>3. CASE i \notin DOMAIN tmap[x]
      <4>1. i = Len(tmap[x]) + 1 /\ tmap'[x][i].drid = d /\ 1 .. i - 1 = DOMAIN tmap[x]
        BY <1>5, <1>8, <3>3
      <4>2. \A j \in DOMAIN tmap[x] : ~tmap[x][j].enq => tmap[x][j].drid # d
        BY <1>11, ByPosition
      <4>3. InEmap(d) \/ \E j \in DOMAIN tmap[x] : tmap[x][j].enq /\ tmap[x][j].rid = d
        BY <1>11, ByPosition
      <4> QED BY <1>9, <3>1, <4>1, <4>2, <4>3 DEF InEmap
    <3> QED BY <3>2, <3>3
  <2>3. OrderOf(x)'
    BY <2>2, Zenon DEF OrderOf, InEmap
  <2> QED BY <2>1, <2>3 DEF OrderInv
<1>13. \A y \in Xids : Adds(y)' = Adds(y)
  BY <1>8
<1>14. EmapInv'
  <2> SUFFICES ASSUME NEW r \in Rids, InEmap(r)
               PROVE  /\ tok'[r].kind = "enq" /\ tok'[r].st \in Whole /\ tok'[r].fid = emap'[r].pfid
                      /\ \A y \in Xids : r \notin Adds(y)'
    BY <1>10 DEF EmapInv
  <2>1. tok[r].kind = "enq" /\ tok[r].st \in Whole /\ tok[r].fid = emap[r].pfid
        /\ \A y \in Xids : r \notin Adds(y)
    BY DEF MapInv, BookInv, EmapInv
  <2> QED BY <1>2, <1>9, <1>13, <2>1
<1>15. LockInv'
  <2> SUFFICES ASSUME NEW r \in Rids
               PROVE  /\ \A z, y \in Xids : r \in Takes(z)' /\ r \in Takes(y)' => z = y
                      /\ InEmap(r) => (emap'[r].lock <=> \E z \in Xids : r \in Takes(z)')
    BY <1>10 DEF LockInv
  <2>1. \A y \in Xids : r \in Takes(y)' <=> r \in Takes(y) \/ (y = x /\ r = d)
    BY <1>8
  <2>2. /\ \A z, y \in Xids : r \in Takes(z) /\ r \in Takes(y) => z = y
        /\ InEmap(r) => (emap[r].lock <=> \E z \in Xids : r \in Takes(z))
    BY DEF MapInv, BookInv, LockInv
  <2>3. CASE r = d
    BY <1>9, <1>11, <2>1, <2>3
  <2>4. CASE r # d
    BY <1>9, <2>1, <2>2, <2>4
  <2> QED BY <2>3, <2>4
<1>16. LiveInv'
  <2>1. Held' = Held
    BY <1>10, <1>13 DEF Held
  <2>2. \A f : Live(f)' = Live(f)
    BY <1>2, <2>1 DEF Live, Held
  <2> QED BY <1>1, <2>2 DEF MapInv, BookInv, LiveInv
<1> QED BY <1>6, <1>7, <1>12, <1>14, <1>15, <1>16 DEF MapInv, BookInv

\* A dequeue outside a transaction: what dequeue_check() found is still there,
\* unlocked and counted by its file.
LEMMA DequeueNonTxnMaps ==
    TypeOK /\ MapInv /\ BusyInv /\ CallInv' /\ DequeueNonTxn =>
        /\ MapInv' /\ fault' = "none"
        /\ emap' = [emap EXCEPT ![T.drid] = NoEntry]
<1> SUFFICES ASSUME TypeOK, MapInv, BusyInv, CallInv', DequeueNonTxn
             PROVE  /\ MapInv' /\ fault' = "none"
                    /\ emap' = [emap EXCEPT ![T.drid] = NoEntry]
  OBVIOUS
<1>1. Recorded /\ op.kind = "deq" /\ T.xid = NoXid /\ UNCHANGED <<tmap, pend>>
  BY DEF DequeueNonTxn
<1>2. /\ op.rid \in Rids /\ T = tok[op.rid] /\ T \in TokType
      /\ T.kind = op.kind /\ tok'[op.rid].st = "SUBM"
      /\ \A r \in Rids \ {op.rid} : tok'[r] = tok[r]
      /\ \A r \in Rids : SameRecord(r) /\ tok'[r].fid = tok[r].fid
      /\ T.st \notin Whole /\ Found(op.rid)
  BY <1>1, RecordFacts
<1>3. PICK d \in Rids : d = T.drid
  BY <1>1, <1>2 DEF TypeOK, TokShape
<1>4. InEmap(d) /\ \A y \in Xids : d \notin Takes(y)
  BY <1>1, <1>2, <1>3 DEF Found
<1>5. ~emap[d].lock /\ emap[d].pfid = tok[d].fid /\ tok[d].kind = "enq"
  BY <1>4 DEF MapInv, BookInv, LockInv, EmapInv
<1>6. emap[d] \in [pfid : Files \cup {NoFile}, lock : BOOLEAN]
      /\ emap \in [Rids -> [pfid : Files \cup {NoFile}, lock : BOOLEAN]]
      /\ file \in [Files -> FileType]
  BY DEF TypeOK, MapTypes, FileTypes
<1>7. PICK f \in Files : f = emap[d].pfid
  BY <1>4, <1>6 DEF InEmap
<1> DEFINE gone(g) == InFile({d}, g)
<1>8. {d} \subseteq Held
  BY <1>4 DEF Held
<1>9. \A g \in Files : Cardinality(gone(g)) = IF g = f THEN 1 ELSE 0
  <2> TAKE g \in Files
  <2>1. gone(g) = IF g = f THEN {d} ELSE {}
    BY <1>5, <1>7 DEF InFile
  <2> QED BY <2>1, FS_Singleton, FS_EmptySet
<1> HIDE DEF gone
<1>10. \A g \in Files : /\ Cardinality(gone(g)) <= file[g].enq
                        /\ Cardinality(InFile(Held \ {d}, g))
                               = file[g].enq - Cardinality(gone(g))
  BY <1>8, HeldShrinks DEF MapInv, BookInv, gone
<1>11. file[f].enq # 0 /\ file[f] \in FileType /\ file[f].enq \in Nat
  <2>1. file[f] \in FileType /\ file[f].enq \in Nat
    BY <1>6 DEF FileType
  <2>2. Cardinality(gone(f)) = 1 /\ Cardinality(gone(f)) <= file[f].enq
    BY <1>9, <1>10
  <2> QED BY <2>1, <2>2
<1>12. /\ fault' = "none"
       /\ emap' = [emap EXCEPT ![T.drid] = NoEntry]
       /\ file' = [file EXCEPT ![f].enq = @ - 1]
  <2> DEFINE error == IF ~InEmap(T.drid) THEN "MAP_NOTFOUND"
                      ELSE IF emap[T.drid].lock THEN "MAP_LOCKED"
                      ELSE IF file[emap[T.drid].pfid].enq = 0 THEN "UNDERFLOW" ELSE "none"
  <2>1. error = "none"
    BY <1>3, <1>4, <1>5, <1>7, <1>11
  <2>2. /\ fault' = error
        /\ emap' = [emap EXCEPT ![T.drid] = IF error = "none" THEN NoEntry ELSE @]
        /\ file' = IF error = "none" THEN [file EXCEPT ![emap[T.drid].pfid].enq = @ - 1] ELSE file
    BY Zenon DEF DequeueNonTxn, Throw
  <2> HIDE DEF error
  <2> QED BY <1>3, <1>7, <2>1, <2>2
<1>13. /\ emap'[d].pfid = NoFile /\ \A r \in Rids \ {d} : emap'[r] = emap[r]
       /\ \A r \in Rids : InEmap(r)' <=> InEmap(r) /\ r # d
  <2>1. emap'[d] = NoEntry /\ \A r \in Rids \ {d} : emap'[r] = emap[r]
    BY <1>3, <1>6, <1>12
  <2> QED BY <2>1 DEF NoEntry, InEmap
<1>14. \A g \in Files : file'[g].enq = file[g].enq - Cardinality(gone(g))
  <2> TAKE g \in Files
  <2>1. CASE g = f
    <3>1. file'[f].enq = file[f].enq - 1
      BY <1>6, <1>11, <1>12 DEF FileType
    <3> QED BY <1>9, <2>1, <3>1
  <2>2. CASE g # f
    <3>1. file'[g] = file[g] /\ file[g].enq \in Nat
      BY <1>6, <1>12, <2>2 DEF FileType
    <3> QED BY <1>9, <2>2, <3>1
  <2> QED BY <2>1, <2>2
<1>15. TokInv'
  <2>1. pend' = pend \cup (IF op.kind \in Ends THEN {T.xid} ELSE {})
    BY <1>1 DEF Ends
  <2> QED BY <1>1, <2>1, RecordTokens
<1>16. EntryInv' /\ OrderInv'
  <2> SUFFICES ASSUME NEW y \in Xids PROVE EntryOf(y)' /\ OrderOf(y)'
    BY DEF EntryInv, OrderInv
  <2>1. \A r \in Takes(y) : InEmap(r) => InEmap(r)'
    BY <1>4, <1>13, TakesFacts DEF MapInv, BookInv, TokInv
  <2>2. \A r \in Rids : tok[r].st \in Whole => tok'[r] = tok[r]
    BY <1>2
  <2> QED BY <1>1, <2>1, <2>2, OthersKept DEF MapInv, BookInv
<1>17. \A y \in Xids : Adds(y)' = Adds(y) /\ Takes(y)' = Takes(y)
  BY <1>1 DEF Adds, Takes, EnqsOf, DeqsOf, Entries
<1>18. EmapInv'
  <2> SUFFICES ASSUME NEW r \in Rids, InEmap(r), r # d
               PROVE  /\ tok'[r].kind = "enq" /\ tok'[r].st \in Whole /\ tok'[r].fid = emap'[r].pfid
                      /\ \A y \in Xids : r \notin Adds(y)'
    BY <1>13 DEF EmapInv
  <2>1. tok[r].kind = "enq" /\ tok[r].st \in Whole /\ tok[r].fid = emap[r].pfid
        /\ \A y \in Xids : r \notin Adds(y)
    BY DEF MapInv, BookInv, EmapInv
  <2> QED BY <1>2, <1>13, <1>17, <2>1
<1>19. LockInv'
  BY <1>13, <1>17 DEF MapInv, BookInv, LockInv
<1>20. LiveInv'
  <2>1. Held' = Held \ {d}
    <3>1. \A y \in Xids : d \notin Adds(y)
      BY <1>4 DEF MapInv, BookInv, EmapInv
    <3> QED BY <1>13, <1>17, <3>1 DEF Held
  <2>2. ASSUME NEW g \in Files PROVE file'[g].enq = Cardinality(Live(g)')
    <3>1. Live(g)' = InFile(Held \ {d}, g)
      BY <1>2, <2>1 DEF Live, Held, InFile
    <3> QED BY <1>10, <1>14, <3>1
  <2> QED BY <2>2 DEF LiveInv
<1> QED BY <1>12, <1>15, <1>16, <1>18, <1>19, <1>20 DEF MapInv, BookInv

-----------------------------------------------------------------------------
(* wmgr::abort() and wmgr::commit().                                       *)

\* A transaction that ends is open, and not pending already.
LEMMA EndFacts ==
    ASSUME TypeOK, MapInv, BusyInv, Recorded, op.kind \in Ends
    PROVE  T.xid \in Xids /\ T.xid \notin pend
<1>1. /\ op.rid \in Rids /\ T = tok[op.rid] /\ T.kind = op.kind /\ T.st \notin Whole
  BY RecordFacts
<1>2. T.xid \in Xids
  BY <1>1 DEF TypeOK, TokShape, Ends
<1>3. ASSUME T.xid \in pend PROVE FALSE
  <2>1. PICK r \in Rids : tok[r].kind \in Ends /\ tok[r].xid = T.xid /\ tok[r].st = "SUBM"
    BY <1>2, <1>3 DEF MapInv, TokInv, EndInv
  <2>2. r = op.rid
    BY <1>1, <2>1 DEF MapInv, TokInv, EndInv
  <2> QED BY <1>1, <2>1, <2>2 DEF Whole
<1> QED BY <1>2, <1>3

\* The file counters are taken down by what leaves the maps.
LEMMA WithoutCounts ==
    ASSUME TypeOK, LiveInv, NEW recs, NEW gone, gone \subseteq Held,
           \A f \in Files : CountIn(f, recs) = Cardinality(InFile(gone, f))
    PROVE  /\ ~Missing(recs)
           /\ \A f \in Files : Without(recs)[f].enq
                                  = Cardinality(InFile(Held \ gone, f))
<1>1. \A f \in Files : file[f] \in FileType /\ file[f].enq \in Nat
  BY DEF TypeOK, FileTypes, FileType
<1>2. ~Missing(recs)
  <2> SUFFICES ASSUME NEW f \in Files, file[f].enq < CountIn(f, recs) PROVE FALSE
    BY DEF Missing
  <2>1. CountIn(f, recs) \in Nat /\ CountIn(f, recs) <= file[f].enq
    BY HeldShrinks
  <2> QED BY <1>1, <2>1
<1>3. ASSUME NEW f \in Files
      PROVE  Without(recs)[f].enq = Cardinality(InFile(Held \ gone, f))
  <2>1. Without(recs)[f].enq = file[f].enq - CountIn(f, recs)
    BY <1>1 DEF Without, FileType
  <2>2. Cardinality(InFile(Held \ gone, f))
            = file[f].enq - Cardinality(InFile(gone, f))
    BY HeldShrinks
  <2> QED BY <2>1, <2>2
<1> QED BY <1>2, <1>3

\* The entries an abort looks through, as the records they stand for.
LEMMA AddsCount ==
    ASSUME TypeOK, MapInv, NEW x \in Xids
    PROVE  /\ Adds(x) \subseteq Held
           /\ \A f \in Files : CountIn(f, EnqsOf(x)) = Cardinality(InFile(Adds(x), f))
<1>1. TypeOK /\ EntryInv
  BY DEF MapInv, BookInv
<1>2. Adds(x) \subseteq Held /\ IsFiniteSet(Adds(x))
  <2>1. Adds(x) \subseteq Held
    BY <1>1, AddsFacts
  <2> QED BY <2>1, HeldFinite, FS_Subset
<1>3. \A t \in EnqsOf(x) : t.rid \in Adds(x) /\ t.pfid = tok[t.rid].fid
  <2> TAKE t \in EnqsOf(x)
  <2>1. PICK i \in DOMAIN tmap[x] : t = tmap[x][i] /\ t.enq
    BY DEF EnqsOf, Entries
  <2> QED BY <1>1, <2>1 DEF Adds, EntryInv, EntryOf
<1>4. \A r \in Adds(x) : \E t \in EnqsOf(x) : t.rid = r
  BY DEF Adds
<1>5. \A t, u \in EnqsOf(x) : t.rid = u.rid => t = u
  BY <1>1, EntryUnique
<1> QED BY <1>2, <1>3, <1>4, <1>5, CountByRid

\* An aborted transaction leaves txn_map and its locks with it.
LEMMA AbortMaps ==
    TypeOK /\ MapInv /\ BusyInv /\ CallInv' /\ AbortTxn =>
        /\ MapInv' /\ fault' = "none"
        /\ tmap' = [tmap EXCEPT ![T.xid] = <<>>]
        /\ \A r \in Rids : InEmap(r)' <=> InEmap(r)
<1> SUFFICES ASSUME TypeOK, MapInv, BusyInv, CallInv', AbortTxn
             PROVE  /\ MapInv' /\ fault' = "none"
                    /\ tmap' = [tmap EXCEPT ![T.xid] = <<>>]
                    /\ \A r \in Rids : InEmap(r)' <=> InEmap(r)
  OBVIOUS
<1>1. Recorded /\ op.kind = "abort" /\ op.kind \in Ends
  BY DEF AbortTxn, CloseTxn, Ends
<1>2. /\ op.rid \in Rids /\ T = tok[op.rid]
      /\ T.kind = op.kind /\ T.st \notin Whole
      /\ \A r \in Rids \ {op.rid} : tok'[r] = tok[r]
      /\ \A r \in Rids : SameRecord(r) /\ tok'[r].fid = tok[r].fid
  BY <1>1, RecordFacts
<1>3. PICK x \in Xids : x = T.xid /\ x \notin pend
  BY <1>1, EndFacts
<1>4. Adds(x) \subseteq Held
      /\ \A f \in Files : CountIn(f, EnqsOf(x)) = Cardinality(InFile(Adds(x), f))
  BY AddsCount
<1>5. /\ ~Missing(EnqsOf(x))
      /\ \A f \in Files : Without(EnqsOf(x))[f].enq
                              = Cardinality(InFile(Held \ Adds(x), f))
  <2>1. TypeOK /\ LiveInv
    BY DEF MapInv, BookInv
  <2> QED BY <1>4, <2>1, WithoutCounts
<1>6. /\ fault' = "none"
      /\ emap' = [r \in Rids |-> IF r \in Takes(x) THEN [emap[r] EXCEPT !.lock = FALSE] ELSE emap[r]]
      /\ file' = Without(EnqsOf(x))
      /\ tmap' = [tmap EXCEPT ![x] = <<>>]
      /\ pend' = pend \cup {x}
  <2> DEFINE error == IF Missing(EnqsOf(T.xid)) THEN "UNDERFLOW"
                      ELSE IF T.xid \in pend THEN "MAP_DUPLICATE" ELSE "none"
             new == [r \in Rids |-> IF r \in Takes(T.xid)
                                    THEN [emap[r] EXCEPT !.lock = FALSE] ELSE emap[r]]
  <2>1. error = "none"
    BY <1>3, <1>5
  <2>2. CloseTxn(error, new, Without(EnqsOf(T.xid)))
    BY DEF AbortTxn, Takes
  <2>3. new = [r \in Rids |-> IF r \in Takes(x) THEN [emap[r] EXCEPT !.lock = FALSE] ELSE emap[r]]
    BY <1>3
  <2> HIDE DEF error, new
  <2>4. /\ fault' = "none" /\ emap' = new /\ file' = Without(EnqsOf(T.xid))
        /\ tmap' = [tmap EXCEPT ![T.xid] = <<>>] /\ pend' = pend \cup {T.xid}
    BY <2>1, <2>2 DEF CloseTxn, Throw
  <2> QED BY <1>3, <2>3, <2>4
<1>7. /\ \A r \in Rids : emap'[r].pfid = emap[r].pfid
      /\ \A r \in Rids \ Takes(x) : emap'[r] = emap[r]
      /\ \A r \in Takes(x) : r \in Rids /\ ~emap'[r].lock
  <2>1. Takes(x) \subseteq Rids
    BY TakesFacts DEF MapInv, TokInv, BookInv
  <2>2. \A r \in Rids : emap[r] \in [pfid : Files \cup {NoFile}, lock : BOOLEAN]
    BY DEF TypeOK, MapTypes
  <2>3. \A r \in Rids : emap'[r] = IF r \in Takes(x) THEN [emap[r] EXCEPT !.lock = FALSE] ELSE emap[r]
    BY <1>6
  <2> QED BY <2>1, <2>2, <2>3
<1>8. \A r \in Rids : InEmap(r)' <=> InEmap(r)
  BY <1>7 DEF InEmap
<1>9. /\ \A y \in Xids \ {x} : tmap'[y] = tmap[y] /\ Adds(y)' = Adds(y) /\ Takes(y)' = Takes(y)
      /\ DOMAIN tmap'[x] = {} /\ Adds(x)' = {} /\ Takes(x)' = {}
  BY <1>6, Emptied
<1>10. TokInv'
  <2>1. pend' = pend \cup (IF op.kind \in Ends THEN {T.xid} ELSE {})
    BY <1>1, <1>3, <1>6
  <2> QED BY <1>1, <2>1, RecordTokens
<1>11. EntryInv' /\ OrderInv'
  <2>1. ASSUME NEW y \in Xids \ {x} PROVE EntryOf(y)' /\ OrderOf(y)'
    <3>1. \A r \in Takes(y) : InEmap(r) => InEmap(r)'
      BY <1>8, TakesFacts DEF MapInv, BookInv, TokInv
    <3>2. \A r \in Rids : tok[r].st \in Whole => tok'[r] = tok[r]
      BY <1>2
    <3> QED BY <1>9, <3>1, <3>2, OthersKept DEF MapInv, BookInv
  <2>2. EntryOf(x)' /\ OrderOf(x)'
    BY <1>9 DEF EntryOf, OrderOf
  <2> QED BY <2>1, <2>2 DEF EntryInv, OrderInv
<1>12. EmapInv'
  <2> SUFFICES ASSUME NEW r \in Rids, InEmap(r)
               PROVE  /\ tok'[r].kind = "enq" /\ tok'[r].st \in Whole /\ tok'[r].fid = emap'[r].pfid
                      /\ \A y \in Xids : r \notin Adds(y)'
    BY <1>8 DEF EmapInv
  <2>1. tok[r].kind = "enq" /\ tok[r].st \in Whole /\ tok[r].fid = emap[r].pfid
        /\ \A y \in Xids : r \notin Adds(y)
    BY DEF MapInv, BookInv, EmapInv
  <2> QED BY <1>2, <1>7, <1>9, <2>1
<1>13. LockInv'
  <2> SUFFICES ASSUME NEW r \in Rids
               PROVE  /\ \A z, y \in Xids : r \in Takes(z)' /\ r \in Takes(y)' => z = y
                      /\ InEmap(r) => (emap'[r].lock <=> \E z \in Xids : r \in Takes(z)')
    BY <1>8 DEF LockInv
  <2>1. \A y \in Xids : r \in Takes(y)' <=> r \in Takes(y) /\ y # x
    BY <1>9
  <2>2. /\ \A z, y \in Xids : r \in Takes(z) /\ r \in Takes(y) => z = y
        /\ InEmap(r) => (emap[r].lock <=> \E z \in Xids : r \in Takes(z))
    BY DEF MapInv, BookInv, LockInv
  <2>3. CASE r \in Takes(x)
    BY <1>7, <2>1, <2>2, <2>3
  <2>4. CASE r \notin Takes(x)
    BY <1>7, <2>1, <2>2, <2>4
  <2> QED BY <2>3, <2>4
<1>14. LiveInv'
  <2>1. Held' = Held \ Adds(x)
    <3>1. \A r \in Adds(x) : ~InEmap(r) /\ \A y \in Xids : r \in Adds(y) => y = x
      BY AddsFacts DEF MapInv, BookInv, EmapInv
    <3>2. \A y \in Xids : \A r : r \in Adds(y)' <=> r \in Adds(y) /\ y # x
      BY <1>9
    <3> QED BY <1>8, <3>1, <3>2 DEF Held
  <2>2. ASSUME NEW f \in Files PROVE file'[f].enq = Cardinality(Live(f)')
    <3>1. Live(f)' = InFile(Held \ Adds(x), f)
      BY <1>2, <2>1 DEF Live, Held, InFile
    <3> QED BY <1>5, <1>6, <3>1
  <2> QED BY <2>2 DEF LiveInv
<1> QED BY <1>3, <1>6, <1>8, <1>10, <1>11, <1>12, <1>13, <1>14 DEF MapInv, BookInv

\* emap with the enqueues of a transaction: each where its header was written.
LEMMA WithEnqsIs ==
    ASSUME TypeOK, MapInv, NEW x \in Xids, NEW r \in Rids
    PROVE  WithEnqs(x)[r] = IF r \in Adds(x) THEN [pfid |-> tok[r].fid, lock |-> FALSE]
                                             ELSE emap[r]
<1>1. CASE r \in Adds(x)
  <2> DEFINE t == CHOOSE t \in EnqsOf(x) : t.rid = r
  <2>1. t \in EnqsOf(x) /\ t.rid = r
    BY <1>1 DEF Adds
  <2>2. WithEnqs(x)[r] = [pfid |-> t.pfid, lock |-> FALSE]
    BY <2>1 DEF WithEnqs
  <2> HIDE DEF t
  <2>3. PICK i \in DOMAIN tmap[x] : t = tmap[x][i]
    BY <2>1 DEF EnqsOf, Entries
  <2>4. t.pfid = tok[r].fid
    BY <2>1, <2>3 DEF MapInv, BookInv, EntryInv, EntryOf
  <2> QED BY <1>1, <2>2, <2>4
<1>2. CASE r \notin Adds(x)
  BY <1>2 DEF WithEnqs, Adds
<1> QED BY <1>1, <1>2

\* What a commit takes out: it is there, and in the file its header is in.
LEMMA TakesCount ==
    ASSUME TypeOK, MapInv, NEW x \in Xids, NEW recs,
           recs = {[rid |-> d, pfid |-> WithEnqs(x)[d].pfid] : d \in Takes(x)}
    PROVE  /\ Takes(x) \subseteq Held
           /\ \A f \in Files : CountIn(f, recs) = Cardinality(InFile(Takes(x), f))
<1>1. \A d \in Takes(x) : d \in Rids /\ (InEmap(d) \/ d \in Adds(x))
  BY TakesFacts DEF MapInv, BookInv, TokInv
<1>2. Takes(x) \subseteq Held /\ IsFiniteSet(Takes(x))
  <2>1. Takes(x) \subseteq Held
    BY <1>1 DEF Held
  <2> QED BY <2>1, HeldFinite, FS_Subset
<1>3. \A d \in Takes(x) : WithEnqs(x)[d].pfid = tok[d].fid
  <2> TAKE d \in Takes(x)
  <2>1. CASE d \in Adds(x)
    <3>1. WithEnqs(x)[d] = [pfid |-> tok[d].fid, lock |-> FALSE]
      BY <1>1, <2>1, WithEnqsIs
    <3> QED BY <3>1
  <2>2. CASE d \notin Adds(x)
    <3>1. WithEnqs(x)[d] = emap[d] /\ InEmap(d) /\ d \in Rids
      BY <1>1, <2>2, WithEnqsIs
    <3> QED BY <3>1 DEF MapInv, BookInv, EmapInv
  <2> QED BY <2>1, <2>2
<1>4. \A t \in recs : t.rid \in Takes(x) /\ t.pfid = tok[t.rid].fid
  BY <1>3
<1>5. \A d \in Takes(x) : \E t \in recs : t.rid = d
  <2> TAKE d \in Takes(x)
  <2>1. [rid |-> d, pfid |-> WithEnqs(x)[d].pfid] \in recs
    OBVIOUS
  <2> QED BY <2>1
<1>6. \A t, u \in recs : t.rid = u.rid => t = u
  OBVIOUS
<1> QED BY <1>2, <1>4, <1>5, <1>6, CountByRid

\* A commit always finds what the transaction dequeues.
LEMMA DeqsFound ==
    ASSUME TypeOK, MapInv, NEW x \in Xids
    PROVE  ~DeqNotFound(x) /\ ~\E t \in EnqsOf(x) : InEmap(t.rid)
<1>1. ~DeqNotFound(x)
  BY DEF DeqNotFound, MapInv, BookInv, OrderInv, OrderOf
<1>2. ASSUME NEW t \in EnqsOf(x), InEmap(t.rid) PROVE FALSE
  <2>1. t.rid \in Adds(x)
    BY DEF Adds
  <2>2. t.rid \in Rids
    BY <2>1, AddsFacts DEF MapInv, BookInv
  <2> QED BY <1>2, <2>1, <2>2 DEF MapInv, BookInv, EmapInv
<1> QED BY <1>1, <1>2

\* A committed transaction leaves txn_map for enq_map, less what it dequeued.
LEMMA CommitMaps ==
    TypeOK /\ MapInv /\ BusyInv /\ CallInv' /\ CommitTxn =>
        /\ MapInv' /\ fault' = "none"
        /\ tmap' = [tmap EXCEPT ![T.xid] = <<>>]
        /\ \A r \in Rids : InEmap(r)' <=> (InEmap(r) \/ r \in Adds(T.xid)) /\ r \notin Takes(T.xid)
<1> SUFFICES ASSUME TypeOK, MapInv, BusyInv, CallInv', CommitTxn
             PROVE  /\ MapInv' /\ fault' = "none"
                    /\ tmap' = [tmap EXCEPT ![T.xid] = <<>>]
                    /\ \A r \in Rids : InEmap(r)' <=> (InEmap(r) \/ r \in Adds(T.xid))
                                                      /\ r \notin Takes(T.xid)
  OBVIOUS
<1>1. Recorded /\ op.kind = "commit" /\ op.kind \in Ends
  BY DEF CommitTxn, CloseTxn, Ends
<1>2. /\ op.rid \in Rids /\ T = tok[op.rid]
      /\ T.kind = op.kind /\ T.st \notin Whole
      /\ \A r \in Rids \ {op.rid} : tok'[r] = tok[r]
      /\ \A r \in Rids : SameRecord(r) /\ tok'[r].fid = tok[r].fid
  BY <1>1, RecordFacts
<1>3. PICK x \in Xids : x = T.xid /\ x \notin pend
  BY <1>1, EndFacts
<1> DEFINE recs == {[rid |-> d, pfid |-> WithEnqs(x)[d].pfid] : d \in Takes(x)}
<1>4. Takes(x) \subseteq Held
      /\ \A f \in Files : CountIn(f, recs) = Cardinality(InFile(Takes(x), f))
  BY TakesCount
<1> HIDE DEF recs
<1>5. /\ ~Missing(recs)
      /\ \A f \in Files : Without(recs)[f].enq = Cardinality(InFile(Held \ Takes(x), f))
  <2>1. TypeOK /\ LiveInv
    BY DEF MapInv, BookInv
  <2> QED BY <1>4, <2>1, WithoutCounts
<1>6. /\ fault' = "none"
      /\ emap' = [r \in Rids |-> IF r \in Takes(x) THEN NoEntry ELSE WithEnqs(x)[r]]
      /\ file' = Without(recs)
      /\ tmap' = [tmap EXCEPT ![x] = <<>>]
      /\ pend' = pend \cup {x}
  <2> DEFINE removed(z) == {[rid |-> d, pfid |-> WithEnqs(z)[d].pfid] : d \in Takes(z)}
             error(z) == IF \E t \in EnqsOf(z) : InEmap(t.rid) THEN "MAP_DUPLICATE"
                         ELSE IF DeqNotFound(z) THEN "MAP_NOTFOUND"
                         ELSE IF Missing(removed(z)) THEN "UNDERFLOW"
                         ELSE IF z \in pend THEN "MAP_DUPLICATE" ELSE "none"
             new(z) == [r \in Rids |-> IF r \in Takes(z) THEN NoEntry ELSE WithEnqs(z)[r]]
  <2>1. CloseTxn(error(T.xid), new(T.xid), Without(removed(T.xid)))
    BY DEF CommitTxn, Takes
  <2>2. error(x) = "none"
    BY <1>3, <1>5, DeqsFound DEF recs
  <2>3. removed(x) = recs
    BY DEF recs
  <2> HIDE DEF removed, error, new
  <2>4. error(T.xid) = "none"
    BY <1>3, <2>2
  <2>5. /\ fault' = "none" /\ emap' = new(T.xid) /\ file' = Without(removed(T.xid))
        /\ tmap' = [tmap EXCEPT ![T.xid] = <<>>] /\ pend' = pend \cup {T.xid}
    BY <2>1, <2>4 DEF CloseTxn, Throw
  <2>6. /\ fault' = "none" /\ emap' = new(x) /\ file' = Without(recs)
        /\ tmap' = [tmap EXCEPT ![x] = <<>>] /\ pend' = pend \cup {x}
    BY <1>3, <2>3, <2>5
  <2> QED BY <2>6 DEF new
<1>7. \A r \in Rids :
          /\ r \in Takes(x) => emap'[r].pfid = NoFile
          /\ r \in Adds(x) \ Takes(x) => emap'[r].pfid = tok[r].fid /\ ~emap'[r].lock
          /\ r \notin Adds(x) \cup Takes(x) => emap'[r] = emap[r]
  <2> TAKE r \in Rids
  <2>1. emap'[r] = IF r \in Takes(x) THEN NoEntry ELSE WithEnqs(x)[r]
    BY <1>6
  <2>2. CASE r \in Takes(x)
    BY <2>1, <2>2 DEF NoEntry
  <2>3. CASE r \in Adds(x) \ Takes(x)
    <3>1. emap'[r] = [pfid |-> tok[r].fid, lock |-> FALSE]
      BY <2>1, <2>3, WithEnqsIs
    <3> QED BY <2>3, <3>1
  <2>4. CASE r \notin Adds(x) \cup Takes(x)
    BY <2>1, <2>4, WithEnqsIs
  <2> QED BY <2>2, <2>3, <2>4
<1>8. \A r \in Adds(x) : /\ r \in Rids /\ tok[r].kind = "enq" /\ tok[r].st \in Whole
                         /\ tok[r].fid # NoFile /\ ~InEmap(r)
                         /\ \A y \in Xids : r \in Adds(y) => y = x
  <2> TAKE r \in Adds(x)
  <2>1. /\ r \in Rids /\ tok[r].kind = "enq" /\ tok[r].st \in Whole /\ tok[r].fid \in Files
        /\ \A y \in Xids : r \in Adds(y) => y = x
    BY AddsFacts DEF MapInv, BookInv
  <2>2. tok[r].fid # NoFile
    BY <2>1 DEF Files, NoFile
  <2> QED BY <2>1, <2>2 DEF MapInv, BookInv, EmapInv
<1>9. \A r \in Rids : InEmap(r)' <=> (InEmap(r) \/ r \in Adds(x)) /\ r \notin Takes(x)
  BY <1>7, <1>8 DEF InEmap
<1>10. /\ \A y \in Xids \ {x} : tmap'[y] = tmap[y] /\ Adds(y)' = Adds(y) /\ Takes(y)' = Takes(y)
       /\ DOMAIN tmap'[x] = {} /\ Adds(x)' = {} /\ Takes(x)' = {}
  BY <1>6, Emptied
<1>11. TokInv'
  <2>1. pend' = pend \cup (IF op.kind \in Ends THEN {T.xid} ELSE {})
    BY <1>1, <1>3, <1>6
  <2> QED BY <1>1, <2>1, RecordTokens
<1>12. EntryInv' /\ OrderInv'
  <2>1. ASSUME NEW y \in Xids \ {x} PROVE EntryOf(y)' /\ OrderOf(y)'
    <3>1. \A r \in Takes(y) : r \in Rids /\ r \notin Takes(x)
      BY TakesFacts DEF MapInv, BookInv, TokInv, LockInv
    <3>2. \A r \in Takes(y) : InEmap(r) => InEmap(r)'
      BY <1>9, <3>1
    <3>3. \A r \in Rids : tok[r].st \in Whole => tok'[r] = tok[r]
      BY <1>2
    <3> QED BY <1>10, <3>2, <3>3, OthersKept DEF MapInv, BookInv
  <2>2. EntryOf(x)' /\ OrderOf(x)'
    BY <1>10 DEF EntryOf, OrderOf
  <2> QED BY <2>1, <2>2 DEF EntryInv, OrderInv
<1>13. EmapInv'
  <2> SUFFICES ASSUME NEW r \in Rids, InEmap(r)'
               PROVE  /\ tok'[r].kind = "enq" /\ tok'[r].st \in Whole /\ tok'[r].fid = emap'[r].pfid
                      /\ \A y \in Xids : r \notin Adds(y)'
    BY DEF EmapInv
  <2>1. (InEmap(r) \/ r \in Adds(x)) /\ r \notin Takes(x)
    BY <1>9
  <2>2. CASE r \in Adds(x)
    <3>1. emap'[r].pfid = tok[r].fid
      BY <1>7, <2>1, <2>2
    <3> QED BY <1>2, <1>8, <1>10, <2>2, <3>1 DEF SameRecord
  <2>3. CASE r \notin Adds(x)
    <3>1. emap'[r] = emap[r] /\ InEmap(r)
      BY <1>7, <2>1, <2>3
    <3>2. tok[r].kind = "enq" /\ tok[r].st \in Whole /\ tok[r].fid = emap[r].pfid
          /\ \A y \in Xids : r \notin Adds(y)
      BY <3>1 DEF MapInv, BookInv, EmapInv
    <3> QED BY <1>2, <1>10, <3>1, <3>2
  <2> QED BY <2>2, <2>3
<1>14. LockInv'
  <2> SUFFICES ASSUME NEW r \in Rids
               PROVE  /\ \A z, y \in Xids : r \in Takes(z)' /\ r \in Takes(y)' => z = y
                      /\ InEmap(r)' => (emap'[r].lock <=> \E z \in Xids : r \in Takes(z)')
    BY DEF LockInv
  <2>1. \A y \in Xids : r \in Takes(y)' <=> r \in Takes(y) /\ y # x
    BY <1>10
  <2>2. /\ \A z, y \in Xids : r \in Takes(z) /\ r \in Takes(y) => z = y
        /\ InEmap(r) => (emap[r].lock <=> \E z \in Xids : r \in Takes(z))
    BY DEF MapInv, BookInv, LockInv
  <2>3. ASSUME InEmap(r)' PROVE emap'[r].lock <=> \E z \in Xids : r \in Takes(z)'
    <3>1. (InEmap(r) \/ r \in Adds(x)) /\ r \notin Takes(x)
      BY <1>9, <2>3
    <3>2. CASE r \in Adds(x)
      <4>1. ~emap'[r].lock
        BY <1>7, <3>1, <3>2
      <4>2. \A z \in Xids : r \in Takes(z) => r \in Adds(z)
        BY <1>8, <3>2, TakesFacts DEF MapInv, BookInv, TokInv
      <4> QED BY <1>8, <2>1, <3>2, <4>1, <4>2
    <3>3. CASE r \notin Adds(x)
      BY <1>7, <2>1, <2>2, <3>1, <3>3
    <3> QED BY <3>2, <3>3
  <2> QED BY <2>1, <2>2, <2>3
<1>15. LiveInv'
  <2>1. Held' = Held \ Takes(x)
    <3>1. \A y \in Xids : \A r : r \in Adds(y)' <=> r \in Adds(y) /\ y # x
      BY <1>10
    <3>2. \A y \in Xids, r \in Rids : r \in Adds(y) /\ r \in Takes(x) => y = x
      BY TakesFacts, <1>8 DEF MapInv, BookInv, TokInv, EmapInv
    <3> QED BY <1>9, <3>1, <3>2 DEF Held
  <2>2. ASSUME NEW f \in Files PROVE file'[f].enq = Cardinality(Live(f)')
    <3>1. Live(f)' = InFile(Held \ Takes(x), f)
      BY <1>2, <2>1 DEF Live, Held, InFile
    <3> QED BY <1>5, <1>6, <3>1
  <2> QED BY <2>2 DEF LiveInv
<1> QED BY <1>3, <1>6, <1>9, <1>11, <1>12, <1>13, <1>14, <1>15 DEF MapInv, BookInv

-----------------------------------------------------------------------------
(* Every reachable state.                                                  *)

MapsInv == TypeOK /\ PageInv /\ BusyInv /\ MapInv

\* A new journal has empty maps and no records.
LEMMA InitMaps == Init => MapsInv
<1> SUFFICES ASSUME Init PROVE MapsInv
  OBVIOUS
<1>1. TypeOK /\ PageInv /\ BusyInv /\ CallInv
  BY InitType, InitPage, InitBusy, InitCall
<1>2. /\ \A r \in Rids : tok[r].kind = "none" /\ tok[r].st = "NONE" /\ ~InEmap(r)
      /\ \A x \in Xids : DOMAIN tmap[x] = {}
      /\ pend = {} /\ op.kind = "none" /\ \A f \in Files : file[f].enq = 0
  BY DEF Init, NoTok, NoEntry, NoOp, NewFile, InEmap
<1>3. \A x \in Xids : Adds(x) = {} /\ Takes(x) = {}
  BY <1>2 DEF Adds, Takes, EnqsOf, DeqsOf, Entries
<1>4. DequeueInv /\ EndInv /\ FoundInv
  BY <1>2 DEF DequeueInv, EndInv, FoundInv, Ends
<1>5. EntryInv /\ OrderInv /\ EmapInv /\ LockInv
  BY <1>2, <1>3 DEF EntryInv, EntryOf, OrderInv, OrderOf, EmapInv, LockInv
<1>6. LiveInv
  <2>1. \A f : Live(f) = {}
    BY <1>2, <1>3 DEF Live, Held
  <2> QED BY <1>2, <2>1, FS_EmptySet DEF LiveInv
<1> QED BY <1>1, <1>4, <1>5, <1>6 DEF MapsInv, MapInv, TokInv, BookInv

\* Every step keeps the invariant of the maps.
LEMMA NextMaps == MapsInv /\ [Next]_vars => MapsInv'
<1> SUFFICES ASSUME MapsInv, [Next]_vars PROVE MapsInv'
  OBVIOUS
<1>1. /\ TypeOK /\ PageInv /\ BusyInv /\ MapInv /\ CallInv
      /\ TypeOK' /\ PageInv' /\ BusyInv'
  BY NextType, NextPage, NextBusy DEF MapsInv, MapInv, TokInv
<1>2. CASE Caller
  BY <1>1, <1>2, CallerMaps DEF MapsInv
<1>3. CASE Kernel
  BY <1>1, <1>3, KernelMaps DEF MapsInv
<1>4. CASE Holder \/ WaitTimeout
  <2>1. CallInv'
    BY <1>1, <1>4, HolderCall
  <2>2. ASSUME Record PROVE MapInv'
    BY <1>1, <2>1, <2>2, EnqueueTxnMaps, EnqueueNonTxnMaps, DequeueTxnMaps, DequeueNonTxnMaps,
       AbortMaps, CommitMaps DEF Record
  <2>3. ASSUME Check \/ Encode \/ FileHeaderCheck \/ WriteFlush \/ FlushCheck PROVE MapInv'
    BY <1>1, <2>1, <2>3, CheckMaps, EncodeMaps, FlushMaps
  <2>4. ASSUME Exit \/ Wait \/ WaitTimeout PROVE MapInv'
    BY <1>1, <2>1, <2>4, ExitMaps, WaitMaps
  <2> QED BY <1>1, <1>4, <2>2, <2>3, <2>4 DEF Holder, MapsInv
<1>5. CASE UNCHANGED vars
  <2>1. UNCHANGED <<tok, file, emap, tmap, pend, op>>
    BY <1>5 DEF vars, fileVars, mapVars
  <2>2. CallInv'
    BY <1>1, <2>1 DEF CallInv, T
  <2>3. op'.kind = "deq" /\ op'.pc \in {"encode", "complete"} => Found(op'.rid)
    BY <1>1, <2>1 DEF MapInv, TokInv, FoundInv
  <2>4. MapInv'
    BY <1>1, <2>1, <2>2, <2>3, QuietKept
  <2> QED BY <1>1, <2>4 DEF MapsInv
<1> QED BY <1>2, <1>3, <1>4, <1>5 DEF Next

\* So the invariant holds in every reachable state.
LEMMA MapsAlways == Spec => []MapsInv
BY InitMaps, NextMaps, PTL DEF Spec

-----------------------------------------------------------------------------
(* What the runs check of the maps.                                        *)

\* is_txn_synced() never calls an open transaction written while one of its
\* records is on its way to the disk, however the completions arrive: what
\* localPrepare() decides on.
THEOREM SyncedIsOnDiskAlways == Spec => []SyncedIsOnDisk
<1>1. MapsInv => SyncedIsOnDisk
  BY DEF MapsInv, MapInv, BookInv, EntryInv, EntryOf, SyncedIsOnDisk, IsTxnSynced, Entries
<1> QED BY <1>1, MapsAlways, PTL

\* _txn_pending_set holds exactly the transactions whose commit or abort record
\* is written but not on disk, though it is filled by the caller's thread and
\* emptied by whoever takes the completions.
THEOREM PendingIsUnwrittenAlways == Spec => []PendingIsUnwritten
<1>1. MapsInv => PendingIsUnwritten
  BY DEF MapsInv, MapInv, TokInv, EndInv, Ends, TypeOK, MapTypes, PendingIsUnwritten
<1> QED BY <1>1, MapsAlways, PTL

\* A record in enq_map is locked exactly while one transaction dequeues it, and
\* no record is ever dequeued by two.
THEOREM LockedByOneTxnAlways == Spec => []LockedByOneTxn
<1>1. ASSUME MapsInv, NEW r \in Rids
      PROVE  LET lockers == {x \in Xids : \E t \in DeqsOf(x) : t.drid = r}
             IN  /\ Cardinality(lockers) <= 1
                 /\ InEmap(r) => (emap[r].lock <=> lockers # {})
  <2> DEFINE lockers == {x \in Xids : \E t \in DeqsOf(x) : t.drid = r}
  <2>1. \A x \in Xids : x \in lockers <=> r \in Takes(x)
    BY DEF Takes
  <2>2. /\ \A x, y \in lockers : x = y
        /\ InEmap(r) => (emap[r].lock <=> lockers # {})
    BY <1>1, <2>1 DEF MapsInv, MapInv, BookInv, LockInv
  <2>3. Cardinality(lockers) <= 1
    <3>1. CASE lockers = {}
      BY <3>1, FS_EmptySet
    <3>2. CASE lockers # {}
      <4>1. PICK x \in lockers : lockers = {x}
        BY <2>2, <3>2
      <4> HIDE DEF lockers
      <4> QED BY <4>1, FS_Singleton
    <3> QED BY <3>1, <3>2
  <2> QED BY <2>2, <2>3
<1>2. MapsInv => LockedByOneTxn
  BY <1>1 DEF LockedByOneTxn
<1> QED BY <1>2, MapsAlways, PTL

\* The count that keeps a file from being overwritten (fcntl::_rec_enqcnt) is that
\* of the records enq_map and txn_map hold of it, through enqueues, dequeues,
\* commits and aborts of any number of transactions.
THEOREM EnqCountExactAlways == Spec => []EnqCountExact
<1>1. ASSUME MapsInv, NEW f \in Files
      PROVE  file[f].enq = Cardinality(EnqIn(f)) + Cardinality(TxnEnqIn(f))
  <2> DEFINE recs == UNION {EnqsOf(x) : x \in Xids}
             S    == {r \in Held : \E x \in Xids : r \in Adds(x)}
  <2>1. TypeOK /\ EntryInv /\ EmapInv /\ LiveInv
    BY <1>1 DEF MapsInv, MapInv, BookInv
  <2>2. IsFiniteSet(S)
    BY HeldFinite, FS_Subset
  <2>3. \A t \in recs : t.rid \in S /\ t.pfid = tok[t.rid].fid
    <3> TAKE t \in recs
    <3>1. PICK x \in Xids : t \in EnqsOf(x)
      OBVIOUS
    <3>2. PICK i \in DOMAIN tmap[x] : t = tmap[x][i] /\ t.enq
      BY <3>1 DEF EnqsOf, Entries
    <3>3. t.rid \in Adds(x)
      BY <3>1 DEF Adds
    <3> QED BY <2>1, <3>2, <3>3, AddsFacts DEF EntryInv, EntryOf
  <2>4. \A r \in S : \E t \in recs : t.rid = r
    BY DEF Adds
  <2>5. \A t, u \in recs : t.rid = u.rid => t = u
    <3> SUFFICES ASSUME NEW x \in Xids, NEW y \in Xids, NEW t \in EnqsOf(x), NEW u \in EnqsOf(y),
                        t.rid = u.rid
                 PROVE  t = u
      OBVIOUS
    <3>1. t.rid \in Adds(x) /\ t.rid \in Adds(y)
      BY DEF Adds
    <3>2. x = y
      BY <2>1, <3>1, AddsFacts
    <3> QED BY <2>1, <3>2, EntryUnique
  <2>6. Cardinality(TxnEnqIn(f)) = Cardinality(InFile(S, f))
    <3> HIDE DEF S
    <3>1. CountIn(f, recs) = Cardinality(InFile(S, f))
      BY <2>2, <2>3, <2>4, <2>5, CountByRid
    <3> QED BY <3>1 DEF CountIn, TxnEnqIn
  <2>7. /\ Live(f) = EnqIn(f) \cup InFile(S, f)
        /\ EnqIn(f) \cap InFile(S, f) = {}
    <3>1. \A r \in Rids : InEmap(r) => tok[r].fid = emap[r].pfid /\ r \notin S
      BY <2>1 DEF EmapInv
    <3>2. f # NoFile
      BY DEF Files, NoFile
    <3>3. \A r \in Rids : emap[r].pfid = f => InEmap(r)
      BY <3>2 DEF InEmap
    <3> QED BY <3>1, <3>3 DEF Live, Held, EnqIn, InFile
  <2>8. IsFiniteSet(EnqIn(f)) /\ IsFiniteSet(InFile(S, f))
    <3>1. IsFiniteSet(Live(f))
      BY HeldFinite
    <3>2. EnqIn(f) \subseteq Live(f) /\ InFile(S, f) \subseteq Live(f)
      BY <2>7
    <3> QED BY <3>1, <3>2, FS_Subset
  <2> HIDE DEF recs, S
  <2>9. Cardinality(EnqIn(f) \cup InFile(S, f))
            = Cardinality(EnqIn(f)) + Cardinality(InFile(S, f)) - Cardinality(EnqIn(f) \cap InFile(S, f))
    BY <2>8, FS_Union
  <2>10. /\ Cardinality(EnqIn(f) \cap InFile(S, f)) = 0
         /\ Cardinality(EnqIn(f)) \in Nat /\ Cardinality(InFile(S, f)) \in Nat
    BY <2>7, <2>8, FS_EmptySet, FS_CardinalityType
  <2>11. file[f].enq = Cardinality(EnqIn(f) \cup InFile(S, f))
    BY <2>1, <2>7 DEF LiveInv
  <2> QED BY <2>6, <2>9, <2>10, <2>11
<1>2. MapsInv => EnqCountExact
  BY <1>1 DEF EnqCountExact
<1> QED BY <1>2, MapsAlways, PTL

-----------------------------------------------------------------------------
(* The journal keeps its promise: module MessageJournal.                   *)

Stored   == {r \in Rids : tok[r].kind = "enq" /\ tok[r].st \in {"SUBM", "COMPL"}}
Queue    == {r \in Rids : InEmap(r)}
AddsMap  == [x \in Xids |-> {t.rid : t \in EnqsOf(x)}]
TakesMap == [x \in Xids |-> {t.drid : t \in DeqsOf(x)}]
Promise  == <<Stored, Queue, AddsMap, TakesMap>>

\* A new journal is an empty one.
LEMMA InitPromise == Init => MJ!Init
<1> SUFFICES ASSUME Init PROVE MJ!Init
  OBVIOUS
<1>1. \A r \in Rids : tok[r].kind = "none" /\ ~InEmap(r)
  BY DEF Init, NoTok, NoEntry, InEmap
<1>2. \A x \in Xids : EnqsOf(x) = {} /\ DeqsOf(x) = {}
  BY DEF Init, EnqsOf, DeqsOf, Entries
<1> QED BY <1>1, <1>2 DEF MJ!Init

\* The maps tell the promise what transactions hold.
LEMMA PromiseMaps ==
    ASSUME NEW x \in Xids
    PROVE  AddsMap[x] = Adds(x) /\ TakesMap[x] = Takes(x)
BY DEF AddsMap, TakesMap, Adds, Takes

\* A record that is whole is the one new thing stored, if it is an enqueue.
LEMMA RecordStored ==
    ASSUME TypeOK, MapInv, BusyInv, Recorded
    PROVE  /\ op.rid \notin Stored
           /\ Stored' = IF op.kind = "enq" THEN Stored \cup {op.rid} ELSE Stored
<1>1. /\ op.rid \in Rids /\ T = tok[op.rid] /\ T.kind = op.kind /\ T.st \notin Whole
      /\ tok'[op.rid].st = "SUBM"
      /\ \A r \in Rids \ {op.rid} : tok'[r] = tok[r]
      /\ \A r \in Rids : SameRecord(r)
  BY RecordFacts
<1> QED BY <1>1 DEF Stored, Whole, SameRecord

\* The maps of the transactions after a step, from their sets.
LEMMA MapsAfter ==
    /\ (\A x \in Xids : Adds(x)' = Adds(x)) => AddsMap' = AddsMap
    /\ (\A x \in Xids : Takes(x)' = Takes(x)) => TakesMap' = TakesMap
    /\ \A x \in Xids : \A m : Adds(x)' = Adds(x) \cup {m}
           /\ (\A y \in Xids \ {x} : Adds(y)' = Adds(y)) =>
              AddsMap' = [AddsMap EXCEPT ![x] = @ \cup {m}]
    /\ \A x \in Xids : \A m : Takes(x)' = Takes(x) \cup {m}
           /\ (\A y \in Xids \ {x} : Takes(y)' = Takes(y)) =>
              TakesMap' = [TakesMap EXCEPT ![x] = @ \cup {m}]
    /\ \A x \in Xids : Adds(x)' = {} /\ (\A y \in Xids \ {x} : Adds(y)' = Adds(y)) =>
              AddsMap' = [AddsMap EXCEPT ![x] = {}]
    /\ \A x \in Xids : Takes(x)' = {} /\ (\A y \in Xids \ {x} : Takes(y)' = Takes(y)) =>
              TakesMap' = [TakesMap EXCEPT ![x] = {}]
<1>1. AddsMap = [x \in Xids |-> Adds(x)] /\ TakesMap = [x \in Xids |-> Takes(x)]
  BY DEF AddsMap, TakesMap, Adds, Takes
<1>2. AddsMap' = [x \in Xids |-> Adds(x)'] /\ TakesMap' = [x \in Xids |-> Takes(x)']
  BY DEF AddsMap, TakesMap, Adds, Takes
<1> QED BY <1>1, <1>2

\* wmgr::enqueue(), outside a transaction and in one.
LEMMA EnqueuePromise ==
    TypeOK /\ MapInv /\ BusyInv /\ CallInv' /\ (EnqueueTxn \/ EnqueueNonTxn) => MJ!Next
<1> SUFFICES ASSUME TypeOK, MapInv, BusyInv, CallInv', EnqueueTxn \/ EnqueueNonTxn PROVE MJ!Next
  OBVIOUS
<1>1. Recorded /\ op.kind = "enq"
  BY DEF EnqueueTxn, EnqueueNonTxn
<1>2. op.rid \in Rids /\ T = tok[op.rid] /\ T \in TokType /\ T.fid \in Files
  BY <1>1, RecordFacts
<1>3. PICK m \in Rids : m = op.rid
  BY <1>2
<1>4. m \notin Stored /\ Stored' = Stored \cup {m}
  BY <1>1, <1>3, RecordStored
<1>5. CASE EnqueueNonTxn
  <2>1. emap' = [emap EXCEPT ![m] = [pfid |-> T.fid, lock |-> FALSE]] /\ tmap' = tmap
    BY <1>3, <1>5, EnqueueNonTxnMaps DEF EnqueueNonTxn
  <2>2. Queue' = Queue \cup {m}
    <3>1. /\ emap'[m] = [pfid |-> T.fid, lock |-> FALSE]
          /\ \A r \in Rids \ {m} : emap'[r] = emap[r]
      BY <2>1 DEF TypeOK, MapTypes
    <3>2. emap'[m].pfid # NoFile
      BY <1>2, <3>1 DEF Files, NoFile
    <3> QED BY <3>1, <3>2 DEF Queue, InEmap
  <2>3. AddsMap' = AddsMap /\ TakesMap' = TakesMap
    BY <2>1 DEF AddsMap, TakesMap, EnqsOf, DeqsOf, Entries
  <2>4. MJ!Enqueue(m)
    BY <1>4, <2>2, <2>3 DEF MJ!Enqueue, Stored, Queue, AddsMap, TakesMap
  <2> QED BY <2>4 DEF MJ!Next
<1>6. CASE EnqueueTxn
  <2> DEFINE t == Entry(op.rid, NoRid, TRUE)
  <2>1. PICK x \in Xids : x = T.xid
    BY <1>2, <1>6 DEF EnqueueTxn, TokType
  <2>2. TmapInsert(x, t) /\ emap' = emap
    BY <1>6, <2>1 DEF EnqueueTxn, TmapInsert
  <2>3. t \in EntryType /\ t.enq = TRUE /\ t.rid = m
    BY <1>2, <1>3, EntryType1
  <2> HIDE DEF t
  <2>4. /\ Adds(x)' = Adds(x) \cup (IF t.enq THEN {t.rid} ELSE {})
        /\ Takes(x)' = Takes(x) \cup (IF t.enq THEN {} ELSE {t.drid})
    BY <2>2, <2>3, Appended
  <2>5. \A y \in Xids \ {x} : Adds(y)' = Adds(y) /\ Takes(y)' = Takes(y)
    BY <2>2, <2>3, Appended
  <2>6. Adds(x)' = Adds(x) \cup {m} /\ Takes(x)' = Takes(x)
    BY <2>3, <2>4
  <2>7. AddsMap' = [AddsMap EXCEPT ![x] = @ \cup {m}]
    BY <2>5, <2>6, MapsAfter
  <2>8. TakesMap' = TakesMap
    BY <2>5, <2>6, MapsAfter
  <2>9. Queue' = Queue
    BY <2>2 DEF Queue, InEmap
  <2>10. MJ!TxnEnqueue(x, m)
    BY <1>4, <2>7, <2>8, <2>9 DEF MJ!TxnEnqueue, Stored, Queue, AddsMap, TakesMap
  <2> QED BY <2>10 DEF MJ!Next
<1> QED BY <1>5, <1>6

\* wmgr::dequeue(), outside a transaction and in one.
LEMMA DequeuePromise ==
    TypeOK /\ MapInv /\ BusyInv /\ CallInv' /\ (DequeueTxn \/ DequeueNonTxn) => MJ!Next
<1> SUFFICES ASSUME TypeOK, MapInv, BusyInv, CallInv', DequeueTxn \/ DequeueNonTxn PROVE MJ!Next
  OBVIOUS
<1>1. Recorded /\ op.kind = "deq"
  BY DEF DequeueTxn, DequeueNonTxn
<1>2. /\ op.rid \in Rids /\ T = tok[op.rid] /\ T \in TokType /\ T.fid \in Files
      /\ T.kind = "deq" /\ Found(op.rid)
  BY <1>1, RecordFacts
<1>3. PICK m \in Rids : m = T.drid
  BY <1>2 DEF TypeOK, TokShape
<1>4. Stored' = Stored
  BY <1>1, RecordStored
<1>5. \A x \in Xids : m \notin TakesMap[x]
  BY <1>2, <1>3, PromiseMaps DEF Found
<1>6. CASE DequeueNonTxn
  <2>1. emap' = [emap EXCEPT ![m] = NoEntry] /\ tmap' = tmap
    BY <1>3, <1>6, DequeueNonTxnMaps DEF DequeueNonTxn
  <2>2. Queue' = Queue \ {m}
    <3>1. emap'[m] = NoEntry /\ \A r \in Rids \ {m} : emap'[r] = emap[r]
      BY <2>1 DEF TypeOK, MapTypes
    <3> QED BY <3>1 DEF Queue, InEmap, NoEntry
  <2>3. AddsMap' = AddsMap /\ TakesMap' = TakesMap
    BY <2>1 DEF AddsMap, TakesMap, EnqsOf, DeqsOf, Entries
  <2>4. m \in Queue
    BY <1>2, <1>3, <1>6 DEF DequeueNonTxn, Found, Queue
  <2>5. MJ!Dequeue(m)
    BY <1>4, <1>5, <2>2, <2>3, <2>4
       DEF MJ!Dequeue, MJ!Unclaimed, Stored, Queue, AddsMap, TakesMap
  <2> QED BY <2>5 DEF MJ!Next
<1>7. CASE DequeueTxn
  <2> DEFINE t == Entry(op.rid, T.drid, FALSE)
  <2>1. PICK x \in Xids : x = T.xid
    BY <1>2, <1>7 DEF DequeueTxn, TokType
  <2>2. TmapInsert(x, t) /\ emap' = [emap EXCEPT ![m].lock = InEmap(m)]
    BY <1>3, <1>7, <2>1 DEF DequeueTxn, TmapInsert
  <2>3. t \in EntryType /\ t.enq = FALSE /\ t.drid = m
    BY <1>2, <1>3, EntryType1
  <2> HIDE DEF t
  <2>4. /\ Adds(x)' = Adds(x) \cup (IF t.enq THEN {t.rid} ELSE {})
        /\ Takes(x)' = Takes(x) \cup (IF t.enq THEN {} ELSE {t.drid})
    BY <2>2, <2>3, Appended
  <2>5. \A y \in Xids \ {x} : Adds(y)' = Adds(y) /\ Takes(y)' = Takes(y)
    BY <2>2, <2>3, Appended
  <2>6. Adds(x)' = Adds(x) /\ Takes(x)' = Takes(x) \cup {m}
    BY <2>3, <2>4
  <2>7. AddsMap' = AddsMap
    BY <2>5, <2>6, MapsAfter
  <2>8. TakesMap' = [TakesMap EXCEPT ![x] = @ \cup {m}]
    BY <2>5, <2>6, MapsAfter
  <2>9. Queue' = Queue
    <3>1. \A r \in Rids : emap'[r].pfid = emap[r].pfid
      BY <2>2 DEF TypeOK, MapTypes
    <3> QED BY <3>1 DEF Queue, InEmap
  <2>10. m \in Queue \cup AddsMap[x]
    BY <1>2, <1>3, <2>1, PromiseMaps DEF Found, Queue
  <2>11. MJ!TxnDequeue(x, m)
    BY <1>4, <1>5, <2>7, <2>8, <2>9, <2>10
       DEF MJ!TxnDequeue, MJ!Unclaimed, Stored, Queue, AddsMap, TakesMap
  <2> QED BY <2>11 DEF MJ!Next
<1> QED BY <1>6, <1>7

\* wmgr::abort() and wmgr::commit().
LEMMA EndPromise ==
    TypeOK /\ MapInv /\ BusyInv /\ CallInv' /\ (AbortTxn \/ CommitTxn) => MJ!Next
<1> SUFFICES ASSUME TypeOK, MapInv, BusyInv, CallInv', AbortTxn \/ CommitTxn PROVE MJ!Next
  OBVIOUS
<1>1. Recorded /\ op.kind \in Ends
  BY DEF AbortTxn, CommitTxn, CloseTxn, Ends
<1>2. Stored' = Stored
  BY <1>1, RecordStored DEF Ends
<1>3. PICK x \in Xids : x = T.xid
  BY <1>1, EndFacts
<1>4. tmap' = [tmap EXCEPT ![x] = <<>>]
  BY <1>3, AbortMaps, CommitMaps
<1>5. /\ \A y \in Xids \ {x} : Adds(y)' = Adds(y) /\ Takes(y)' = Takes(y)
      /\ Adds(x)' = {} /\ Takes(x)' = {}
  BY <1>4, Emptied
<1>6. AddsMap' = [AddsMap EXCEPT ![x] = {}]
  BY <1>5, MapsAfter
<1>7. TakesMap' = [TakesMap EXCEPT ![x] = {}]
  BY <1>5, MapsAfter
<1>8. CASE AbortTxn
  <2>1. Queue' = Queue
    BY <1>8, AbortMaps DEF Queue
  <2>2. MJ!Abort(x)
    BY <1>2, <1>6, <1>7, <2>1 DEF MJ!Abort, Stored, Queue, AddsMap, TakesMap
  <2> QED BY <2>2 DEF MJ!Next
<1>9. CASE CommitTxn
  <2>1. \A r \in Rids : InEmap(r)' <=> (InEmap(r) \/ r \in Adds(x)) /\ r \notin Takes(x)
    BY <1>3, <1>9, CommitMaps
  <2>2. Adds(x) \subseteq Rids
    BY AddsFacts DEF MapInv, BookInv
  <2>3. Queue' = (Queue \cup AddsMap[x]) \ TakesMap[x]
    BY <2>1, <2>2, PromiseMaps DEF Queue
  <2>4. MJ!Commit(x)
    BY <1>2, <1>6, <1>7, <2>3 DEF MJ!Commit, Stored, Queue, AddsMap, TakesMap
  <2> QED BY <2>4 DEF MJ!Next
<1> QED BY <1>8, <1>9

\* Everything else a call does, and every completion, leaves it as it is.
LEMMA QuietPromise ==
    ASSUME tmap' = tmap, emap' = emap,
           \A r \in Rids : \/ tok'[r] = tok[r]
                           \/ tok[r].st \notin Whole /\ tok'[r].st \notin Whole
    PROVE  UNCHANGED Promise
<1>1. Stored' = Stored
  BY DEF Stored, Whole
<1> QED BY <1>1 DEF Promise, Queue, InEmap, AddsMap, TakesMap, EnqsOf, DeqsOf, Entries

\* A call that starts changes nothing of the queue it promises.
LEMMA CallerPromise == TypeOK /\ Caller => UNCHANGED Promise
<1> SUFFICES ASSUME TypeOK, Caller PROVE UNCHANGED Promise
  OBVIOUS
<1>1. ASSUME NEW r \in Rids, NEW k, NEW x, NEW d, NEW n, NewCall(k, r, x, d, n)
      PROVE  UNCHANGED Promise
  <2>1. tok[r].kind = "none" /\ tok' = [tok EXCEPT ![r] = NewTok(k, x, d, n)]
        /\ UNCHANGED <<emap, tmap>>
    BY <1>1 DEF NewCall, NextRid, Used, mapVars
  <2>2. NewTok(k, x, d, n).st = "NONE"
    BY DEF NewTok, NoTok
  <2>3. tok[r].st = "NONE" /\ tok \in [Rids -> TokType]
    BY <2>1 DEF TypeOK, TokShape, CallTypes
  <2>4. tok'[r].st = "NONE" /\ \A s \in Rids \ {r} : tok'[s] = tok[s]
    BY <2>1, <2>2, <2>3
  <2> QED BY <2>1, <2>3, <2>4, QuietPromise DEF Whole
<1>2. ASSUME NEW r \in Rids, Retry(r) PROVE UNCHANGED Promise
  BY <1>2, QuietPromise DEF Retry, mapVars
<1>3. ASSUME CallFlush PROVE UNCHANGED Promise
  BY <1>3, QuietPromise DEF CallFlush, mapVars
<1> QED BY <1>1, <1>2, <1>3 DEF Caller, CallEnqueue, CallDequeue, CallEnd

\* Nor do its checks, copies, flushes and waits.
LEMMA HolderPromise ==
    TypeOK /\ MapInv /\ (Check \/ Encode \/ FileHeaderCheck \/ WriteFlush \/ FlushCheck
                              \/ Exit \/ Wait \/ WaitTimeout) => UNCHANGED Promise
<1> SUFFICES ASSUME TypeOK, MapInv, Check \/ Encode \/ FileHeaderCheck \/ WriteFlush \/ FlushCheck
                                    \/ Exit \/ Wait \/ WaitTimeout
             PROVE  UNCHANGED Promise
  OBVIOUS
<1>1. CASE Encode
  <2> DEFINE room == PageDblks - pgOffset
             left == T.size - T.written
             n    == IF left < room THEN left ELSE room
             new  == [T EXCEPT !.fid     = IF T.written = 0 THEN ring.idx ELSE T.fid,
                               !.written = T.written + n,
                               !.pgs     = T.pgs + 1,
                               !.span    = T.span \cup {ring.idx},
                               !.st      = IF n = left THEN T.st ELSE "PART"]
  <2>1. /\ op.rid \in Rids /\ T = tok[op.rid] /\ T \in TokType /\ T.st \notin Whole
        /\ tok \in [Rids -> TokType]
    BY <1>1, OpKinds DEF Encode, At, MapInv, TokInv, CallInv, T, TypeOK, CallTypes
  <2>2. tok' = [tok EXCEPT ![op.rid] = new] /\ UNCHANGED <<emap, tmap>>
    BY <1>1 DEF Encode, mapVars
  <2>3. new.st \notin Whole
    BY <2>1 DEF TokType, Whole
  <2> HIDE DEF new
  <2>4. tok'[op.rid].st \notin Whole /\ \A r \in Rids \ {op.rid} : tok'[r] = tok[r]
    BY <2>1, <2>2, <2>3
  <2> QED BY <2>1, <2>2, <2>4, QuietPromise
<1>2. CASE Exit
  <2>1. tok' = tok \/ tok' = [r \in Rids |-> IF r = op.rid /\ tok[r].st = "NONE"
                                             THEN NoTok ELSE tok[r]]
    BY <1>2 DEF Exit
  <2>2. \A r \in Rids : \/ tok'[r] = tok[r]
                        \/ tok[r].st \notin Whole /\ tok'[r].st \notin Whole
    BY <2>1 DEF NoTok, Whole
  <2> QED BY <1>2, <2>2, QuietPromise DEF Exit, mapVars
<1>3. CASE Check \/ FileHeaderCheck \/ WriteFlush \/ FlushCheck \/ Wait \/ WaitTimeout
  <2>1. UNCHANGED <<tok, emap, tmap>>
    BY <1>3 DEF Check, CheckBusy, CheckFull, CheckPage, CheckRefused, CheckOk, PageChecked,
               FileHeaderCheck, WriteFlush, FlushCheck, Wait, WaitPage, WaitFile, WaitTimeout,
               mapVars
  <2> QED BY <2>1, QuietPromise
<1> QED BY <1>1, <1>2, <1>3

\* Nor do completions.
LEMMA KernelPromise == TypeOK /\ MapInv /\ Kernel => UNCHANGED Promise
<1> SUFFICES ASSUME TypeOK, MapInv, Kernel PROVE UNCHANGED Promise
  OBVIOUS
<1>1. ASSUME NEW p \in Pages, ReapPage(p) PROVE UNCHANGED Promise
  <2>1. /\ emap' = emap /\ \A r \in Rids : SameRecord(r)
        /\ SameTmap
        /\ \/ fault' # "none" /\ tok' = tok
           \/ /\ \A r \in Arrived(p) : r \in Rids /\ tok[r].st = "SUBM"
              /\ \A r \in Rids : tok'[r].st = IF r \in Arrived(p) THEN "COMPL" ELSE tok[r].st
    BY <1>1, PageReaped DEF MapInv, BookInv
  <2>2. Stored' = Stored
    BY <2>1 DEF Stored, SameRecord
  <2>3. \A x \in Xids : Adds(x)' = Adds(x) /\ Takes(x)' = Takes(x)
    BY <2>1, SameSets
  <2>4. AddsMap' = AddsMap /\ TakesMap' = TakesMap
    BY <2>3, MapsAfter
  <2> QED BY <2>1, <2>2, <2>4 DEF Promise, Queue, InEmap
<1>2. ASSUME NEW f \in Files, ReapHeader(f) PROVE UNCHANGED Promise
  BY <1>2, QuietPromise DEF ReapHeader, mapVars
<1> QED BY <1>1, <1>2 DEF Kernel

\* However records are cut into pages and files, refused, resumed and written,
\* and whatever the kernel completes and when, enq_map and txn_map change only as
\* the operations of jcntl.hpp say, each in one step: every step of the journal
\* is one of module MessageJournal or leaves its messages as they are.
THEOREM KeepsPromiseAlways == Spec => KeepsPromise
<1>1. MapsInv /\ [Next]_vars => [MJ!Next]_(MJ!vars)
  <2> SUFFICES ASSUME MapsInv, [Next]_vars PROVE MJ!Next \/ UNCHANGED Promise
    BY DEF MJ!vars, Promise, Stored, Queue, AddsMap, TakesMap
  <2>1. TypeOK /\ PageInv /\ BusyInv /\ MapInv /\ CallInv /\ CallInv'
    BY NextMaps DEF MapsInv, MapInv, TokInv
  <2>2. ASSUME Record PROVE MJ!Next
    BY <2>1, <2>2, EnqueuePromise, DequeuePromise, EndPromise DEF Record
  <2>3. CASE UNCHANGED vars
    BY <2>3, QuietPromise DEF vars, mapVars
  <2> QED BY <2>1, <2>2, <2>3, CallerPromise, HolderPromise, KernelPromise DEF Next, Holder
<1> QED BY <1>1, InitPromise, MapsAlways, PTL DEF Spec, KeepsPromise, MJ!Spec

=============================================================================
