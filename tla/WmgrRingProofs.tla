--------------------------- MODULE WmgrRingProofs ---------------------------
(***************************************************************************)
(* Proofs about the writes and the files of module Wmgr, for any number of *)
(* files, pages, records and transactions.  The writes: every one is       *)
(* accounted for until the kernel reports it, whatever the order, and the  *)
(* only internal error a call can end in is that of a file that has no     *)
(* room left.  The files: while a call is under way, what it has cached is *)
(* on the page being filled, and no file is written past its end, as long  *)
(* as writes do not lag a whole turn of the ring behind; and no file is    *)
(* taken for new data while a record still needed has a part in it.        *)
(***************************************************************************)
EXTENDS WmgrProofs

-----------------------------------------------------------------------------
(* The inductive invariant.                                                *)

\* A free page holds no record, and only the current page is open.
PageUse == \A p \in Pages : /\ page[p].st = "UNUSED" => page[p].toks = {}
                            /\ page[p].st = "IN_USE" => p = pgIndex

\* A record nothing is written of is in no page, except the one that has just been
\* copied whole; that one is in the current page.
TokenUse ==
    /\ \A r \in Rids : tok[r].st = "NONE" /\ ~(op.pc = "complete" /\ op.rid = r) =>
           \A p \in Pages : r \notin page[p].toks
    /\ op.pc = "complete" => op.rid \in page[pgIndex].toks

\* A record that is only partly written fills its page, and a page that is full is
\* handed over before anything else is copied: no page is given a record twice.
PartUse ==
    /\ \A r \in page[pgIndex].toks :
           tok[r].st = "PART" /\ page[pgIndex].st = "IN_USE" =>
               pgOffset = PageDblks \/ (op.pc = "complete" /\ r = op.rid)
    /\ pgOffset = PageDblks => op.pc \in {"complete", "header", "flush"} /\ cached > 0

\* No error but that of a file that is full.
OnlyFull == fault \in {"none", "FILEOFFSOVFL"}

UseInv == PageUse /\ TokenUse /\ (fault = "none" => PartUse)
AioInv == MapsInv /\ UseInv /\ AioAccounted /\ OnlyFull

-----------------------------------------------------------------------------
(* Counting writes.                                                        *)

Out        == {p \in Pages : page[p].st = "AIO_PENDING"}
HeadersOut == {f \in Files : file[f].fhdr}
PagesOf(r) == {p \in Pages : r \in page[p].toks}

\* One page's dblks, each named by its page and its place there.
Dblks(p, n) == {p} \X (1 .. n)

\* As many as were written.
LEMMA DblksCount == \A p : \A n \in Nat :
    IsFiniteSet(Dblks(p, n)) /\ Cardinality(Dblks(p, n)) = n
<1> TAKE p
<1> TAKE n \in Nat
<1>1. IsFiniteSet({p}) /\ Cardinality({p}) = 1
  BY FS_Singleton
<1>2. IsFiniteSet(1 .. n) /\ Cardinality(1 .. n) = n
  BY FS_Interval
<1>3. /\ IsFiniteSet({p} \X (1 .. n))
      /\ Cardinality({p} \X (1 .. n)) = Cardinality({p}) * Cardinality(1 .. n)
  BY <1>1, <1>2, FS_Product
<1> QED BY <1>1, <1>2, <1>3 DEF Dblks

\* What is counted is finite.
LEMMA WritesFinite == TypeOK =>
    /\ IsFiniteSet(Pages) /\ IsFiniteSet(Files) /\ IsFiniteSet(Out) /\ IsFiniteSet(HeadersOut)
    /\ \A r : IsFiniteSet(PagesOf(r)) /\ Cardinality(PagesOf(r)) \in Nat
    /\ \A f : /\ IsFiniteSet(InFlight(f)) /\ Cardinality(InFlight(f)) \in Nat
              /\ IsFiniteSet(DblksInFlight(f)) /\ WriteDblks(f) \in Nat
<1> SUFFICES ASSUME TypeOK
             PROVE  /\ IsFiniteSet(Pages) /\ IsFiniteSet(Files)
                    /\ IsFiniteSet(Out) /\ IsFiniteSet(HeadersOut)
                    /\ \A r : IsFiniteSet(PagesOf(r)) /\ Cardinality(PagesOf(r)) \in Nat
                    /\ \A f : /\ IsFiniteSet(InFlight(f)) /\ Cardinality(InFlight(f)) \in Nat
                              /\ IsFiniteSet(DblksInFlight(f)) /\ WriteDblks(f) \in Nat
  OBVIOUS
<1>1. IsFiniteSet(Pages) /\ IsFiniteSet(Files)
  BY FS_Interval, WmgrAssumption, RingAssumption DEF Pages, Files
<1>2. IsFiniteSet(Out) /\ IsFiniteSet(HeadersOut)
  BY <1>1, FS_Subset DEF Out, HeadersOut
<1>3. ASSUME NEW r PROVE IsFiniteSet(PagesOf(r)) /\ Cardinality(PagesOf(r)) \in Nat
  <2>1. IsFiniteSet(PagesOf(r))
    BY <1>1, FS_Subset DEF PagesOf
  <2> QED BY <2>1, FS_CardinalityType
<1>4. ASSUME NEW f
      PROVE  /\ IsFiniteSet(InFlight(f)) /\ Cardinality(InFlight(f)) \in Nat
             /\ IsFiniteSet(DblksInFlight(f)) /\ WriteDblks(f) \in Nat
  <2>1. IsFiniteSet(InFlight(f))
    BY <1>1, FS_Subset DEF InFlight
  <2> DEFINE S == {Dblks(p, page[p].wd) : p \in InFlight(f)}
             m == [p \in InFlight(f) |-> Dblks(p, page[p].wd)]
  <2>2. m \in Surjection(InFlight(f), S)
    BY DEF Surjection
  <2>3. IsFiniteSet(S)
    BY <2>1, <2>2, FS_Surjection
  <2>4. \A p \in InFlight(f) : page[p].wd \in Nat
    BY DEF InFlight, TypeOK, PageTypes, PageType
  <2>5. \A D \in S : IsFiniteSet(D)
    BY <2>4, DblksCount
  <2>6. UNION S = DblksInFlight(f)
    BY DEF DblksInFlight, Dblks
  <2> HIDE DEF S
  <2>7. IsFiniteSet(UNION S)
    BY <2>3, <2>5, FS_UNION
  <2>8. IsFiniteSet(DblksInFlight(f))
    BY <2>6, <2>7
  <2> QED BY <2>1, <2>8, FS_CardinalityType DEF WriteDblks
<1> QED BY <1>1, <1>2, <1>3, <1>4

\* The dblks in flight to a file, page by page.
LEMMA DblksOf == \A f, d : d \in DblksInFlight(f) <=>
    \E p \in InFlight(f) : d \in Dblks(p, page[p].wd)
BY DEF DblksInFlight, Dblks

\* Two pages have none in common.
LEMMA DblksApart == \A p, q, m, n, d : d \in Dblks(p, m) /\ d \in Dblks(q, n) => p = q
BY DEF Dblks

-----------------------------------------------------------------------------
(* What a step does to the accounts.                                       *)

\* A file's writes, and a page's, are as they were.
FileSame(f) == /\ file'[f].aio = file[f].aio /\ file'[f].fhdr = file[f].fhdr
               /\ file'[f].subm - file'[f].cmpl = file[f].subm - file[f].cmpl
PageSame(p) == /\ page'[p].st = "AIO_PENDING" <=> page[p].st = "AIO_PENDING"
               /\ page'[p].toks = page[p].toks
               /\ page[p].st = "AIO_PENDING" => /\ page'[p].wd = page[p].wd
                                                /\ page'[p].wfh = page[p].wfh

\* The two parts of AioAccounted about one file.
FileAcc(f) == /\ file[f].aio = Cardinality(InFlight(f)) + HeaderOut(f)
              /\ file[f].subm - file[f].cmpl = WriteDblks(f) + SblkDblks * HeaderOut(f)

\* A file and its pages as they were.
LEMMA FileKept ==
    ASSUME NEW f \in Files, FileAcc(f), FileSame(f),
           \A p \in Pages : page[p].wfh = f \/ page'[p].wfh = f => PageSame(p)
    PROVE  FileAcc(f)' /\ InFlight(f)' = InFlight(f)
<1>1. InFlight(f)' = InFlight(f)
  BY DEF InFlight, PageSame
<1>2. \A p \in InFlight(f) : page'[p].wd = page[p].wd
  BY DEF InFlight, PageSame
<1>3. DblksInFlight(f)' = DblksInFlight(f)
  BY <1>1, <1>2 DEF DblksInFlight
<1>4. HeaderOut(f)' = HeaderOut(f)
  BY DEF HeaderOut, FileSame
<1> QED BY <1>1, <1>3, <1>4 DEF FileAcc, FileSame, WriteDblks

\* The pages of the records as they were.
LEMMA TokensKept ==
    ASSUME AioAccounted, \A p \in Pages : page'[p].toks = page[p].toks,
           \A r \in Rids : /\ tok'[r].pgs = tok[r].pgs
                           /\ tok'[r].st = "COMPL" => tok[r].pgs = 0
                           /\ tok'[r].st = "SUBM" => tok[r].pgs > 0
    PROVE  \A r \in Rids : TokenPages(r)'
<1> TAKE r \in Rids
<1>1. {p \in Pages : r \in page'[p].toks} = {p \in Pages : r \in page[p].toks}
  OBVIOUS
<1> QED BY <1>1 DEF AioAccounted, TokenPages

\* A step that submits nothing and takes no completion.
LEMMA AioKept ==
    ASSUME AioAccounted, \A f \in Files : FileSame(f), \A p \in Pages : PageSame(p),
           evtRem' = evtRem,
           \A r \in Rids : /\ tok'[r].pgs = tok[r].pgs
                           /\ tok'[r].st = "COMPL" => tok[r].pgs = 0
                           /\ tok'[r].st = "SUBM" => tok[r].pgs > 0
    PROVE  AioAccounted'
<1>1. \A f \in Files : FileAcc(f)'
  BY FileKept DEF AioAccounted, FileAcc
<1>2. Out' = Out /\ HeadersOut' = HeadersOut
  BY DEF Out, HeadersOut, PageSame, FileSame
<1>3. \A r \in Rids : TokenPages(r)'
  BY TokensKept DEF PageSame
<1> QED BY <1>1, <1>2, <1>3 DEF AioAccounted, FileAcc, Out, HeadersOut

\* A write of a page is submitted to the current file.
LEMMA PageSubmitted ==
    ASSUME TypeOK, AioAccounted, NEW q \in Pages, NEW n \in Nat,
           page[q].st # "AIO_PENDING", page'[q].st = "AIO_PENDING",
           page'[q].wd = n, page'[q].wfh = ring.idx, page'[q].toks = page[q].toks,
           \A p \in Pages \ {q} : PageSame(p),
           file' = [file EXCEPT ![ring.idx] = Submit(@, n)],
           evtRem' = evtRem + 1, tok' = tok
    PROVE  AioAccounted'
<1> PICK c \in Files : c = ring.idx
  BY DEF TypeOK, FileTypes, RingType
<1>1. file \in [Files -> FileType] /\ file[c] \in FileType /\ tok \in [Rids -> TokType]
  BY DEF TypeOK, FileTypes, RingType, CallTypes
<1>2. /\ file'[c].aio = file[c].aio + 1 /\ file'[c].subm = file[c].subm + n
      /\ file'[c].cmpl = file[c].cmpl
      /\ \A f \in Files \ {c} : file'[f] = file[f]
      /\ \A f \in Files : file'[f].fhdr = file[f].fhdr
  BY <1>1 DEF FileType, Submit
<1>3. \A f \in Files : FileAcc(f)
  BY DEF AioAccounted, FileAcc
<1>4. ASSUME NEW f \in Files, f # c PROVE FileAcc(f)'
  <2>1. InFlight(f)' = InFlight(f) /\ q \notin InFlight(f)
    BY <1>4 DEF InFlight, PageSame
  <2>2. \A p \in InFlight(f) : page'[p].wd = page[p].wd
    BY <2>1 DEF InFlight, PageSame
  <2>3. DblksInFlight(f)' = DblksInFlight(f)
    BY <2>1, <2>2 DEF DblksInFlight
  <2> QED BY <1>2, <1>3, <1>4, <2>1, <2>3 DEF FileAcc, HeaderOut, WriteDblks
<1>5. InFlight(c)' = InFlight(c) \cup {q} /\ q \notin InFlight(c)
  BY DEF InFlight, PageSame
<1>6. Cardinality(InFlight(c)') = Cardinality(InFlight(c)) + 1
  BY <1>5, WritesFinite, FS_AddElement
<1>7. WriteDblks(c)' = WriteDblks(c) + n
  <2> DEFINE D == DblksInFlight(c)
             E == Dblks(q, n)
  <2>1. \A p \in InFlight(c) : page'[p].wd = page[p].wd
    BY <1>5 DEF InFlight, PageSame
  <2>2. DblksInFlight(c)' = D \cup E
    BY <1>5, <2>1 DEF DblksInFlight, Dblks
  <2>3. D \cap E = {}
    BY <1>5, DblksOf, DblksApart
  <2>4. IsFiniteSet(D) /\ Cardinality(D) \in Nat
    BY WritesFinite DEF WriteDblks
  <2>5. IsFiniteSet(E) /\ Cardinality(E) = n
    BY DblksCount
  <2> HIDE DEF D, E
  <2>6. Cardinality(D \cup E) = Cardinality(D) + Cardinality(E) - Cardinality(D \cap E)
    BY <2>4, <2>5, FS_Union
  <2>7. Cardinality(D \cap E) = 0
    BY <2>3, FS_EmptySet
  <2>8. Cardinality(D \cup E) = Cardinality(D) + n
    BY <2>4, <2>5, <2>6, <2>7
  <2> QED BY <2>2, <2>8 DEF WriteDblks, D
<1>8. FileAcc(c)'
  <2>1. HeaderOut(c)' = HeaderOut(c) /\ HeaderOut(c) \in {0, 1}
    BY <1>1, <1>2 DEF HeaderOut
  <2>2. Cardinality(InFlight(c)) \in Nat /\ WriteDblks(c) \in Nat
    BY WritesFinite
  <2>3. file[c].aio \in Nat /\ file[c].subm \in Nat /\ file[c].cmpl \in Nat
    BY <1>1 DEF FileType
  <2>4. SblkDblks * HeaderOut(c) \in Nat
    BY <2>1, SizesInNat
  <2> QED BY <1>1, <1>2, <1>3, <1>6, <1>7, <2>1, <2>2, <2>3, <2>4 DEF FileAcc
<1>9. evtRem' = Cardinality(Out') + Cardinality(HeadersOut')
  <2>1. Out' = Out \cup {q} /\ q \notin Out /\ HeadersOut' = HeadersOut
    BY <1>2 DEF Out, HeadersOut, PageSame
  <2>2. Cardinality(Out') = Cardinality(Out) + 1
    BY <2>1, WritesFinite, FS_AddElement
  <2>3. Cardinality(Out) \in Nat /\ Cardinality(HeadersOut) \in Nat
    BY WritesFinite, FS_CardinalityType
  <2>4. evtRem = Cardinality(Out) + Cardinality(HeadersOut)
    BY DEF AioAccounted, Out, HeadersOut
  <2> QED BY <2>1, <2>2, <2>3, <2>4
<1>10. \A r \in Rids : TokenPages(r)'
  <2>1. \A r \in Rids : tok[r].pgs \in Nat
    BY <1>1 DEF TokType
  <2>2. \A p \in Pages : page'[p].toks = page[p].toks
    BY DEF PageSame
  <2> QED BY <2>1, <2>2, TokensKept DEF AioAccounted, TokenPages
<1> QED BY <1>4, <1>8, <1>9, <1>10 DEF AioAccounted, FileAcc, Out, HeadersOut

\* The write of a file header is submitted: nothing else of that file is in flight.
LEMMA HeaderSubmitted ==
    ASSUME TypeOK, AioAccounted, IsVoid(file[ring.idx]), WriteFileHeader,
           UNCHANGED <<page, tok>>
    PROVE  AioAccounted'
<1> PICK c \in Files : c = ring.idx
  BY DEF TypeOK, FileTypes, RingType
<1>1. file \in [Files -> FileType] /\ file[c] \in FileType /\ tok \in [Rids -> TokType]
      /\ SblkDblks \in Nat /\ SblkDblks > 0
  BY RingAssumption DEF TypeOK, FileTypes, CallTypes
<1>2. /\ file'[c].aio = file[c].aio + 1 /\ file'[c].subm = file[c].subm + SblkDblks
      /\ file'[c].cmpl = file[c].cmpl /\ file'[c].fhdr
      /\ \A f \in Files \ {c} : file'[f] = file[f]
  BY <1>1 DEF FileType, Submit, WriteFileHeader
<1>3. \A f \in Files : FileAcc(f)
  BY DEF AioAccounted, FileAcc
<1>4. \A f \in Files : InFlight(f)' = InFlight(f) /\ WriteDblks(f)' = WriteDblks(f)
  BY DEF InFlight, WriteDblks, DblksInFlight
<1>5. ~file[c].fhdr /\ HeaderOut(c) = 0 /\ HeaderOut(c)' = 1
  <2>1. file[c].subm = 0 /\ file[c].cmpl \in Nat
    BY <1>1 DEF IsVoid, FileType
  <2>2. WriteDblks(c) \in Nat /\ file[c].subm - file[c].cmpl = WriteDblks(c) + SblkDblks * HeaderOut(c)
    BY <1>3, WritesFinite DEF FileAcc
  <2>3. CASE file[c].fhdr
    <3>1. HeaderOut(c) = 1
      BY <2>3 DEF HeaderOut
    <3> QED BY <1>1, <2>1, <2>2, <3>1
  <2> QED BY <1>2, <2>3 DEF HeaderOut
<1>6. \A f \in Files \ {c} : FileAcc(f)'
  BY <1>2, <1>3, <1>4 DEF FileAcc, HeaderOut
<1>7. FileAcc(c)'
  <2>1. file[c].aio \in Nat /\ file[c].subm \in Nat /\ file[c].cmpl \in Nat
    BY <1>1 DEF FileType
  <2>2. Cardinality(InFlight(c)) \in Nat /\ WriteDblks(c) \in Nat
    BY WritesFinite
  <2> QED BY <1>1, <1>2, <1>3, <1>4, <1>5, <2>1, <2>2 DEF FileAcc
<1>8. evtRem' = Cardinality(Out') + Cardinality(HeadersOut')
  <2>1. Out' = Out /\ HeadersOut' = HeadersOut \cup {c} /\ c \notin HeadersOut
    BY <1>2, <1>5 DEF Out, HeadersOut
  <2>2. Cardinality(HeadersOut') = Cardinality(HeadersOut) + 1
    BY <2>1, WritesFinite, FS_AddElement
  <2>3. Cardinality(Out) \in Nat /\ Cardinality(HeadersOut) \in Nat
    BY WritesFinite, FS_CardinalityType
  <2>4. evtRem = Cardinality(Out) + Cardinality(HeadersOut) /\ evtRem' = evtRem + 1
    BY DEF AioAccounted, Out, HeadersOut, WriteFileHeader
  <2> QED BY <2>1, <2>2, <2>3, <2>4
<1>9. \A r \in Rids : TokenPages(r)'
  <2>1. \A r \in Rids : tok[r].pgs \in Nat
    BY <1>1 DEF TokType
  <2> QED BY <2>1, TokensKept DEF AioAccounted, TokenPages
<1> QED BY <1>6, <1>7, <1>8, <1>9 DEF AioAccounted, FileAcc, Out, HeadersOut

\* The kernel reports a page: its file expects exactly that, and no error is found.
LEMMA PageFits ==
    ASSUME TypeOK, AioAccounted, NEW q \in Pages, page[q].st = "AIO_PENDING"
    PROVE  /\ CompleteError(file[page[q].wfh], page[q].wd) = "none"
           /\ \A r \in page[q].toks : tok[r].pgs # 0
<1> PICK c \in Files : c = page[q].wfh
  BY DEF TypeOK, PageShape
<1>1. file[c] \in FileType /\ page[q].wd \in Nat /\ page[q].toks \subseteq Rids
      /\ SblkDblks \in Nat
  BY SizesInNat DEF TypeOK, FileTypes, PageTypes, PageType
<1>2. FileAcc(c) /\ HeaderOut(c) \in {0, 1}
  BY DEF AioAccounted, FileAcc, HeaderOut
<1>3. q \in InFlight(c) /\ IsFiniteSet(InFlight(c)) /\ Cardinality(InFlight(c)) \in Nat
      /\ WriteDblks(c) \in Nat
  BY WritesFinite DEF InFlight
<1>4. Cardinality(InFlight(c)) # 0
  BY <1>3, FS_EmptySet
<1>5. page[q].wd <= WriteDblks(c)
  <2>1. Dblks(q, page[q].wd) \in SUBSET DblksInFlight(c)
    BY <1>3, DblksOf
  <2>2. Cardinality(Dblks(q, page[q].wd)) <= Cardinality(DblksInFlight(c))
    BY <2>1, WritesFinite, FS_Subset
  <2>3. Cardinality(Dblks(q, page[q].wd)) = page[q].wd
    BY <1>1, DblksCount
  <2> QED BY <2>2, <2>3 DEF WriteDblks
<1>6. CompleteError(file[c], page[q].wd) = "none"
  <2>1. file[c].aio \in Nat /\ file[c].subm \in Nat /\ file[c].cmpl \in Nat
    BY <1>1 DEF FileType
  <2>2. SblkDblks * HeaderOut(c) \in Nat
    BY <1>1, <1>2
  <2>3. file[c].aio # 0
    BY <1>2, <1>3, <1>4, <2>1 DEF FileAcc
  <2>4. ~(file[c].cmpl + page[q].wd > file[c].subm)
    BY <1>1, <1>2, <1>3, <1>5, <2>1, <2>2 DEF FileAcc
  <2> QED BY <2>3, <2>4 DEF CompleteError
<1>7. ASSUME NEW r \in page[q].toks PROVE tok[r].pgs # 0
  <2>1. r \in Rids /\ q \in PagesOf(r) /\ IsFiniteSet(PagesOf(r))
    BY <1>1, WritesFinite DEF PagesOf
  <2>2. Cardinality(PagesOf(r)) # 0
    BY <2>1, FS_EmptySet
  <2> QED BY <2>1, <2>2 DEF AioAccounted, TokenPages, PagesOf
<1> QED BY <1>6, <1>7

\* The kernel reports a page in any state of the others: get_events() finds every
\* token and every file in the state it expects.
LEMMA ReapsCleanly ==
    ASSUME TypeOK, MapInv, TokenUse, AioAccounted, NEW q \in Pages, ReapPage(q)
    PROVE  /\ fault = "none" /\ fault' = "none" /\ page[q].st = "AIO_PENDING"
           /\ \A r \in Arrived(q) : tok[r].st = "SUBM"
           /\ tok' = [r \in Rids |-> IF r \in page[q].toks
                 THEN [tok[r] EXCEPT !.pgs = @ - 1, !.st = IF r \in Arrived(q) THEN "COMPL" ELSE @]
                 ELSE tok[r]]
           /\ file' = [file EXCEPT ![page[q].wfh] = Complete(@, page[q].wd)]
           /\ page' = [page EXCEPT ![q] = FreePage]
           /\ evtRem' = evtRem - 1
           /\ UNCHANGED <<ring, pgIndex, pgOffset, cached, op>>
<1> DEFINE error == IF \E r \in page[q].toks : tok[r].pgs = 0 THEN "ASSERT"
                    ELSE IF \E r \in Arrived(q) : tok[r].st # "SUBM" THEN "BADDTOKSTATE"
                    ELSE IF \E r \in EndedBy(Arrived(q)) : tok[r].xid \notin pend THEN "MAP_NOTFOUND"
                    ELSE CompleteError(file[page[q].wfh], page[q].wd)
<1>1. /\ page[q].st = "AIO_PENDING" /\ fault = "none" /\ op.pc \in {"idle", "reap", "wait"}
      /\ evtRem' = evtRem - 1 /\ UNCHANGED <<ring, pgIndex, pgOffset, cached, op>>
      /\ fault' = error
  BY DEF ReapPage, Reaping, Throw
<1>2. /\ CompleteError(file[page[q].wfh], page[q].wd) = "none"
      /\ \A r \in page[q].toks : tok[r].pgs # 0
  BY <1>1, PageFits
<1>3. \A r \in Arrived(q) : r \in page[q].toks /\ r \in Rids /\ tok[r].st = "SUBM"
  <2> TAKE r \in Arrived(q)
  <2>1. r \in page[q].toks /\ tok[r].st # "PART" /\ tok[r].pgs = 1 /\ r \in Rids /\ tok[r] \in TokType
    BY DEF Arrived, TypeOK, PageTypes, PageType, CallTypes
  <2>2. tok[r].st # "NONE"
    BY <1>1, <2>1 DEF TokenUse
  <2>3. tok[r].st # "COMPL"
    <3>1. TokenPages(r)
      BY <2>1 DEF AioAccounted
    <3> QED BY <2>1, <3>1 DEF TokenPages
  <2> QED BY <2>1, <2>2, <2>3 DEF TokType
<1>4. \A r \in EndedBy(Arrived(q)) : tok[r].xid \in pend
  <2> TAKE r \in EndedBy(Arrived(q))
  <2>1. r \in Rids /\ tok[r].st = "SUBM" /\ tok[r].kind \in Ends
    BY <1>3 DEF EndedBy, Ends
  <2>2. tok[r].xid \in Xids
    BY <2>1 DEF TypeOK, TokShape, Ends
  <2> QED BY <2>1, <2>2 DEF MapInv, TokInv, EndInv
<1>5. error = "none"
  BY <1>2, <1>3, <1>4
<1>6. /\ tok' = [r \in Rids |-> IF r \in page[q].toks
            THEN [tok[r] EXCEPT !.pgs = @ - 1, !.st = IF r \in Arrived(q) THEN "COMPL" ELSE @]
            ELSE tok[r]]
      /\ file' = [file EXCEPT ![page[q].wfh] = Complete(@, page[q].wd)]
      /\ page' = [page EXCEPT ![q] = FreePage]
  BY <1>5 DEF ReapPage
<1> HIDE DEF error
<1> QED BY <1>1, <1>3, <1>5, <1>6

\* That page is accounted for no more.
LEMMA PageReapedAcc ==
    ASSUME TypeOK, MapInv, TokenUse, AioAccounted, NEW q \in Pages, ReapPage(q)
    PROVE  AioAccounted'
<1> DEFINE n == page[q].wd
<1>1. /\ page[q].st = "AIO_PENDING"
      /\ \A r \in Arrived(q) : tok[r].st = "SUBM"
      /\ tok' = [r \in Rids |-> IF r \in page[q].toks
            THEN [tok[r] EXCEPT !.pgs = @ - 1, !.st = IF r \in Arrived(q) THEN "COMPL" ELSE @]
            ELSE tok[r]]
      /\ file' = [file EXCEPT ![page[q].wfh] = Complete(@, n)]
      /\ page' = [page EXCEPT ![q] = FreePage]
      /\ evtRem' = evtRem - 1
  BY ReapsCleanly
<1> PICK c \in Files : c = page[q].wfh
  BY <1>1 DEF TypeOK, PageShape
<1>2. /\ file \in [Files -> FileType] /\ file[c] \in FileType /\ page \in [Pages -> PageType]
      /\ n \in Nat /\ page[q].toks \subseteq Rids /\ tok \in [Rids -> TokType] /\ evtRem \in Nat
  BY DEF TypeOK, FileTypes, PageTypes, PageType, CallTypes
<1>3. /\ file'[c].aio = file[c].aio - 1 /\ file'[c].subm = file[c].subm
      /\ file'[c].cmpl = file[c].cmpl + n
      /\ \A f \in Files \ {c} : file'[f] = file[f]
      /\ \A f \in Files : file'[f].fhdr = file[f].fhdr
  BY <1>1, <1>2 DEF FileType, Complete
<1>4. /\ \A p \in Pages \ {q} : page'[p] = page[p]
      /\ page'[q].st = "UNUSED" /\ page'[q].toks = {}
  BY <1>1, <1>2 DEF FreePage
<1>5. \A f \in Files : FileAcc(f) /\ InFlight(f)' = InFlight(f) \ {q}
  BY <1>4 DEF AioAccounted, FileAcc, InFlight
<1>6. ASSUME NEW f \in Files, f # c PROVE FileAcc(f)'
  <2>1. InFlight(f)' = InFlight(f)
    BY <1>5, <1>6 DEF InFlight
  <2>2. DblksInFlight(f)' = DblksInFlight(f)
    <3>1. \A p \in InFlight(f) : page'[p].wd = page[p].wd
      BY <1>4, <1>6 DEF InFlight
    <3> QED BY <2>1, <3>1 DEF DblksInFlight
  <2> QED BY <1>3, <1>5, <1>6, <2>1, <2>2 DEF FileAcc, HeaderOut, WriteDblks
<1>7. q \in InFlight(c) /\ IsFiniteSet(InFlight(c)) /\ Cardinality(InFlight(c)) \in Nat
      /\ WriteDblks(c) \in Nat
  BY <1>1, WritesFinite DEF InFlight
<1>8. Cardinality(InFlight(c)') = Cardinality(InFlight(c)) - 1
  BY <1>5, <1>7, FS_RemoveElement
<1>9. WriteDblks(c)' = WriteDblks(c) - n
  <2> DEFINE D == DblksInFlight(c)
             E == Dblks(q, n)
             F == D \ E
  <2>1. \A p \in InFlight(c) \ {q} : page'[p].wd = page[p].wd
    BY <1>4 DEF InFlight
  <2>2. \A d : d \in DblksInFlight(c)' <=> \E p \in InFlight(c) \ {q} : d \in Dblks(p, page[p].wd)
    BY <1>5, <2>1 DEF DblksInFlight, Dblks
  <2>3. DblksInFlight(c)' = F
    BY <2>2, DblksOf, DblksApart, <1>7
  <2>4. IsFiniteSet(D) /\ Cardinality(D) \in Nat
    BY WritesFinite DEF WriteDblks
  <2>5. Cardinality(E) = n
    BY <1>2, DblksCount
  <2>6. D \cap E = E
    BY <1>7, DblksOf
  <2> HIDE DEF D, E
  <2>7. Cardinality(F) = Cardinality(D) - Cardinality(D \cap E)
    BY <2>4, FS_Difference
  <2> QED BY <2>3, <2>5, <2>6, <2>7 DEF WriteDblks, D
<1>10. FileAcc(c)'
  <2>1. HeaderOut(c)' = HeaderOut(c) /\ HeaderOut(c) \in {0, 1}
    BY <1>3 DEF HeaderOut
  <2>2. file[c].aio \in Nat /\ file[c].subm \in Nat /\ file[c].cmpl \in Nat
    BY <1>2 DEF FileType
  <2>3. SblkDblks * HeaderOut(c) \in Nat
    BY <2>1, SizesInNat
  <2> HIDE DEF n
  <2> QED BY <1>2, <1>3, <1>5, <1>7, <1>8, <1>9, <2>1, <2>2, <2>3 DEF FileAcc
<1>11. evtRem' = Cardinality(Out') + Cardinality(HeadersOut')
  <2>1. page[q].st = "AIO_PENDING" /\ evtRem' = evtRem - 1
    BY <1>1
  <2>2. Out' = Out \ {q} /\ q \in Out
    BY <1>4, <2>1 DEF Out
  <2>3. HeadersOut' = HeadersOut
    BY <1>3 DEF HeadersOut
  <2>4. Cardinality(Out') = Cardinality(Out) - 1
    BY <2>2, WritesFinite, FS_RemoveElement
  <2>5. Cardinality(Out) \in Nat /\ Cardinality(HeadersOut) \in Nat
    BY WritesFinite, FS_CardinalityType
  <2>6. evtRem = Cardinality(Out) + Cardinality(HeadersOut)
    BY DEF AioAccounted, Out, HeadersOut
  <2> QED BY <2>1, <2>3, <2>4, <2>5, <2>6
<1>12. ASSUME NEW r \in Rids PROVE TokenPages(r)'
  <2>1. tok[r] \in TokType /\ tok[r].pgs \in Nat /\ TokenPages(r)
    BY <1>2 DEF AioAccounted, TokType
  <2>2. PagesOf(r)' = PagesOf(r) \ {q}
    BY <1>4 DEF PagesOf
  <2>3. CASE r \notin page[q].toks
    <3>1. tok'[r] = tok[r] /\ PagesOf(r)' = PagesOf(r)
      BY <1>1, <2>2, <2>3 DEF PagesOf
    <3> QED BY <2>1, <3>1 DEF TokenPages, PagesOf
  <2>4. CASE r \in page[q].toks
    <3>1. tok'[r] = [tok[r] EXCEPT !.pgs = @ - 1, !.st = IF r \in Arrived(q) THEN "COMPL" ELSE @]
      BY <1>1, <2>4
    <3>2. tok'[r].pgs = tok[r].pgs - 1
          /\ tok'[r].st = IF r \in Arrived(q) THEN "COMPL" ELSE tok[r].st
      BY <2>1, <3>1 DEF TokType
    <3>3. q \in PagesOf(r) /\ IsFiniteSet(PagesOf(r)) /\ Cardinality(PagesOf(r)) \in Nat
      BY <2>4, WritesFinite DEF PagesOf
    <3>4. Cardinality(PagesOf(r)') = Cardinality(PagesOf(r)) - 1
      BY <2>2, <3>3, FS_RemoveElement
    <3>5. tok'[r].pgs = Cardinality(PagesOf(r)')
      BY <2>1, <3>2, <3>4 DEF TokenPages, PagesOf
    <3>6. tok[r].pgs # 0
      BY <1>1, <2>4, PageFits
    <3>7. tok'[r].st = "COMPL" => tok'[r].pgs = 0
      BY <2>1, <3>2, <3>6 DEF Arrived, TokenPages
    <3>8. tok'[r].st = "SUBM" => tok'[r].pgs > 0
      BY <2>1, <2>4, <3>2, <3>6 DEF Arrived
    <3> QED BY <3>5, <3>7, <3>8 DEF TokenPages, PagesOf
  <2> QED BY <2>3, <2>4
<1> QED BY <1>6, <1>10, <1>11, <1>12 DEF AioAccounted, FileAcc, Out, HeadersOut

\* A file header is reported: its file expects that too, and counts it no more.
LEMMA HeaderReapedAcc ==
    ASSUME TypeOK, AioAccounted, NEW c \in Files, ReapHeader(c)
    PROVE  AioAccounted' /\ fault' = "none" /\ fault = "none"
           /\ UNCHANGED <<page, pgIndex, pgOffset, cached, tok, op>>
<1>1. /\ fault = "none" /\ file[c].fhdr /\ fault' = CompleteError(file[c], SblkDblks)
      /\ file' = IF CompleteError(file[c], SblkDblks) # "none" THEN file ELSE
             [file EXCEPT ![c] = [Complete(@, SblkDblks) EXCEPT !.fhdr = FALSE]]
      /\ evtRem' = evtRem - 1 /\ UNCHANGED <<page, pgIndex, pgOffset, cached, tok, op>>
  BY DEF ReapHeader, Reaping, Throw
<1>2. /\ file \in [Files -> FileType] /\ file[c] \in FileType /\ tok \in [Rids -> TokType]
      /\ SblkDblks \in Nat /\ SblkDblks > 0
  BY RingAssumption DEF TypeOK, FileTypes, CallTypes
<1>3. /\ HeaderOut(c) = 1 /\ \A f \in Files : FileAcc(f)
      /\ Cardinality(InFlight(c)) \in Nat /\ WriteDblks(c) \in Nat
      /\ file[c].aio \in Nat /\ file[c].subm \in Nat /\ file[c].cmpl \in Nat
  BY <1>1, <1>2, WritesFinite DEF HeaderOut, AioAccounted, FileAcc, FileType
<1>4. CompleteError(file[c], SblkDblks) = "none"
  BY <1>2, <1>3 DEF FileAcc, CompleteError
<1>5. file' = [file EXCEPT ![c] = [Complete(@, SblkDblks) EXCEPT !.fhdr = FALSE]]
  BY <1>1, <1>4
<1>6. /\ file'[c].aio = file[c].aio - 1 /\ file'[c].subm = file[c].subm
      /\ file'[c].cmpl = file[c].cmpl + SblkDblks /\ ~file'[c].fhdr
      /\ \A f \in Files \ {c} : file'[f] = file[f]
  BY <1>2, <1>5 DEF FileType, Complete
<1>7. \A f \in Files : InFlight(f)' = InFlight(f) /\ WriteDblks(f)' = WriteDblks(f)
  BY <1>1 DEF InFlight, WriteDblks, DblksInFlight
<1>8. \A f \in Files \ {c} : FileAcc(f)'
  BY <1>3, <1>6, <1>7 DEF FileAcc, HeaderOut
<1>9. FileAcc(c)'
  <2>1. HeaderOut(c)' = 0
    BY <1>6 DEF HeaderOut
  <2> QED BY <1>2, <1>3, <1>6, <1>7, <2>1 DEF FileAcc
<1>10. evtRem' = Cardinality(Out') + Cardinality(HeadersOut')
  <2>1. HeadersOut' = HeadersOut \ {c} /\ c \in HeadersOut
    BY <1>1, <1>6 DEF HeadersOut
  <2>2. Out' = Out
    BY <1>1 DEF Out
  <2>3. Cardinality(HeadersOut') = Cardinality(HeadersOut) - 1
    BY <2>1, WritesFinite, FS_RemoveElement
  <2>4. Cardinality(Out) \in Nat /\ Cardinality(HeadersOut) \in Nat
    BY WritesFinite, FS_CardinalityType
  <2>5. evtRem = Cardinality(Out) + Cardinality(HeadersOut) /\ evtRem' = evtRem - 1
    BY <1>1 DEF AioAccounted, Out, HeadersOut
  <2> QED BY <2>2, <2>3, <2>4, <2>5
<1>11. \A r \in Rids : TokenPages(r)'
  <2>1. \A r \in Rids : tok[r].pgs \in Nat
    BY <1>2 DEF TokType
  <2> QED BY <1>1, <2>1, TokensKept DEF AioAccounted, TokenPages
<1>12. AioAccounted'
  BY <1>8, <1>9, <1>10, <1>11 DEF AioAccounted, FileAcc, Out, HeadersOut
<1> QED BY <1>1, <1>4, <1>12

-----------------------------------------------------------------------------
(* Which page a record is in.                                              *)

\* A page as it was, except that the current page may be opened.
PageOpened(p) ==
    /\ page'[p].toks = page[p].toks /\ page'[p].wd = page[p].wd /\ page'[p].wfh = page[p].wfh
    /\ \/ page'[p].st = page[p].st
       \/ p = pgIndex /\ page[p].st = "UNUSED" /\ page'[p].st = "IN_USE"

\* The checks and flush_check() open a free page, and change nothing else of it.
LEMMA OpensPage == TypeOK /\ page' = OpenPage(page) => \A p \in Pages : PageOpened(p)
<1> SUFFICES ASSUME TypeOK, page' = OpenPage(page), NEW p \in Pages PROVE PageOpened(p)
  OBVIOUS
<1>1. page \in [Pages -> PageType] /\ pgIndex \in Pages
  BY DEF TypeOK, PageTypes
<1>2. CASE page[pgIndex].st = "UNUSED" /\ p = pgIndex
  <2>1. page'[p] = [page[p] EXCEPT !.st = "IN_USE"]
    BY <1>1, <1>2 DEF OpenPage
  <2> QED BY <1>1, <1>2, <2>1 DEF PageType, PageOpened
<1>3. CASE ~(page[pgIndex].st = "UNUSED" /\ p = pgIndex)
  <2>1. page'[p] = page[p]
    BY <1>1, <1>3 DEF OpenPage
  <2> QED BY <2>1 DEF PageOpened
<1> QED BY <1>2, <1>3

\* Resetting a file leaves its account as it was: nothing of it is in flight.
LEMMA ResetSame ==
    ASSUME TypeOK, AioAccounted, NEW f \in Files,
           file'[f] = file[f] \/ file'[f] = WrReset(file[f])
    PROVE  FileSame(f)
<1>1. CASE file'[f] = file[f]
  BY <1>1 DEF FileSame
<1>2. CASE file'[f] = WrReset(file[f]) /\ CanReset(file[f])
  <2>1. /\ file[f] \in FileType /\ file[f].aio = 0 /\ FileAcc(f)
        /\ file[f].subm \in Nat /\ file[f].cmpl \in Nat /\ SblkDblks \in Nat
    BY <1>2, SizesInNat DEF TypeOK, FileTypes, FileType, CanReset, AioAccounted, FileAcc
  <2>2. HeaderOut(f) \in {0, 1} /\ IsFiniteSet(InFlight(f)) /\ Cardinality(InFlight(f)) \in Nat
    BY WritesFinite DEF HeaderOut
  <2>3. Cardinality(InFlight(f)) = 0 /\ HeaderOut(f) = 0
    BY <2>1, <2>2 DEF FileAcc
  <2>4. InFlight(f) = {}
    BY <2>2, <2>3, FS_EmptySet
  <2>5. DblksInFlight(f) = {}
    BY <2>4 DEF DblksInFlight
  <2>6. WriteDblks(f) = 0
    BY <2>5, FS_EmptySet DEF WriteDblks
  <2>7. file[f].subm - file[f].cmpl = 0
    BY <2>1, <2>3, <2>6 DEF FileAcc
  <2>8. file'[f] = [file[f] EXCEPT !.subm = 0, !.cmpl = 0]
    BY <1>2 DEF WrReset
  <2> QED BY <2>1, <2>7, <2>8 DEF FileType, FileSame
<1>3. CASE file'[f] = WrReset(file[f]) /\ ~CanReset(file[f])
  BY <1>3 DEF FileSame, WrReset
<1> QED BY <1>1, <1>2, <1>3

\* A step that copies, submits and reaps nothing.
LEMMA StepKept ==
    ASSUME TypeOK, UseInv, AioAccounted, fault = "none",
           \A f \in Files : FileSame(f), \A p \in Pages : PageOpened(p),
           UNCHANGED <<pgIndex, pgOffset, cached, evtRem>>,
           op.pc # "complete", op'.pc # "complete",
           pgOffset = PageDblks => op.pc = "header" /\ op'.pc = "flush",
           \A r \in Rids : tok'[r].st = tok[r].st /\ tok'[r].pgs = tok[r].pgs
    PROVE  UseInv' /\ AioAccounted'
<1>1. \A p \in Pages : PageSame(p)
  BY DEF PageOpened, PageSame
<1>2. AioAccounted'
  <2>1. \A r \in Rids : tok[r].pgs \in Nat
    BY DEF TypeOK, CallTypes, TokType
  <2> QED BY <1>1, <2>1, AioKept DEF AioAccounted, TokenPages
<1>3. PageUse'
  BY DEF UseInv, PageUse, PageOpened
<1>4. TokenUse'
  BY DEF UseInv, TokenUse, PageOpened
<1>5. PartUse'
  <2>1. pgIndex \in Pages /\ page[pgIndex].toks \subseteq Rids
    BY DEF TypeOK, PageTypes, PageType
  <2>2. PageOpened(pgIndex) /\ PartUse /\ PageUse
    BY <2>1 DEF UseInv
  <2>3. page'[pgIndex].st = "IN_USE" /\ page'[pgIndex].toks # {} => page[pgIndex].st = "IN_USE"
    BY <2>1, <2>2 DEF PageOpened, PageUse
  <2> QED BY <2>1, <2>2, <2>3 DEF PartUse, PageOpened
<1> QED BY <1>2, <1>3, <1>4, <1>5 DEF UseInv

\* A full page waits for nothing but its header check and its submission.
LEMMA NotFull == TypeOK /\ UseInv /\ fault = "none" =>
    (op.pc \notin {"complete", "header", "flush"} => pgOffset # PageDblks)
BY DEF UseInv, PartUse

-----------------------------------------------------------------------------
(* The steps that copy, submit and reap nothing.                           *)

Kept == UseInv' /\ AioAccounted' /\ OnlyFull'

\* A call starts: its token was of no record.
LEMMA CallerAio == AioInv /\ Caller => Kept
<1> SUFFICES ASSUME AioInv, Caller PROVE Kept
  OBVIOUS
<1>1. /\ TypeOK /\ UseInv /\ AioAccounted /\ OnlyFull
      /\ op.pc = "idle" /\ fault = "none" /\ fault' = fault
      /\ op'.pc \in {"check", "flush"} /\ UNCHANGED <<file, pageVars>>
  BY DEF AioInv, MapsInv, Caller, CallEnqueue, CallDequeue, CallEnd, NewCall, Retry, CallFlush,
         At, Start, NoOp, fileVars
<1>2. \A r \in Rids : tok'[r].st = tok[r].st /\ tok'[r].pgs = tok[r].pgs
  <2>1. ASSUME NEW k, NEW r \in Rids, NEW x, NEW d, NEW n, NewCall(k, r, x, d, n)
        PROVE  \A s \in Rids : tok'[s].st = tok[s].st /\ tok'[s].pgs = tok[s].pgs
    <3>1. tok' = [tok EXCEPT ![r] = NewTok(k, x, d, n)] /\ tok[r].kind = "none"
      BY <2>1 DEF NewCall, NextRid, Used
    <3>2. tok \in [Rids -> TokType] /\ tok[r].st = "NONE"
      BY <1>1, <3>1 DEF TypeOK, CallTypes, TokShape
    <3>3. PagesOf(r) = {}
      BY <1>1, <3>2 DEF UseInv, TokenUse, PagesOf
    <3>4. tok[r].pgs = 0
      <4>1. TokenPages(r)
        BY <1>1 DEF AioAccounted
      <4> QED BY <3>3, <4>1, FS_EmptySet DEF TokenPages, PagesOf
    <3>5. tok'[r] = NewTok(k, x, d, n) /\ \A s \in Rids \ {r} : tok'[s] = tok[s]
      BY <3>1, <3>2
    <3>6. NewTok(k, x, d, n).st = "NONE" /\ NewTok(k, x, d, n).pgs = 0
      BY DEF NewTok, NoTok
    <3> QED BY <3>2, <3>4, <3>5, <3>6
  <2>2. tok' = tok \/ \E r \in Rids : \E k, x, d, n : NewCall(k, r, x, d, n)
    BY DEF Caller, CallEnqueue, CallDequeue, CallEnd, Retry, CallFlush
  <2> QED BY <2>1, <2>2
<1>3. UseInv' /\ AioAccounted'
  <2>1. \A f \in Files : FileSame(f)
    BY <1>1 DEF FileSame
  <2>2. \A p \in Pages : PageOpened(p)
    BY <1>1 DEF PageOpened, pageVars
  <2>3. pgOffset # PageDblks
    BY <1>1, NotFull
  <2> QED BY <1>1, <1>2, <2>1, <2>2, <2>3, StepKept DEF pageVars
<1> QED BY <1>1, <1>3 DEF Kept, OnlyFull

\* The checks reset the current file and open the current page.
LEMMA CheckAio == AioInv /\ Check => Kept
<1> SUFFICES ASSUME AioInv, Check PROVE Kept
  OBVIOUS
<1>1. /\ TypeOK /\ UseInv /\ AioAccounted /\ OnlyFull /\ tok' = tok
      /\ op.pc = "check" /\ fault = "none" /\ fault' = fault /\ op \in OpType
      /\ page' = page \/ page' = OpenPage(page)
      /\ file' = file \/ file' = FilesReset
      /\ UNCHANGED <<pgIndex, pgOffset, cached, evtRem>>
  BY DEF AioInv, MapsInv, TypeOK, CallTypes, Check, CheckBusy, CheckFull, CheckPage,
         CheckRefused, CheckOk, PageChecked, FileChecked, At, fileVars, pageVars
<1>2. op'.pc \in {"exit", "encode"}
  <2>1. CASE CheckOk
    <3>1. op' = [op EXCEPT !.pc = "encode"]
      BY <2>1 DEF CheckOk, Goto
    <3> QED BY <1>1, <3>1, OpAfter
  <2>2. CASE ~CheckOk
    <3>1. PICK res : op' = [op EXCEPT !.pc = "exit", !.res = res]
      BY <2>2 DEF Check, CheckBusy, CheckFull, CheckPage, CheckRefused, Return
    <3> QED BY <1>1, <3>1, OpAfter
  <2> QED BY <2>1, <2>2
<1>3. \A f \in Files : FileSame(f)
  <2> TAKE f \in Files
  <2>1. file'[f] = file[f] \/ file'[f] = WrReset(file[f])
    BY <1>1 DEF FilesReset, TypeOK, FileTypes
  <2> QED BY <1>1, <2>1, ResetSame
<1>4. \A p \in Pages : PageOpened(p)
  BY <1>1, OpensPage DEF PageOpened
<1>5. pgOffset # PageDblks
  BY <1>1, NotFull
<1>6. UseInv' /\ AioAccounted'
  BY <1>1, <1>2, <1>3, <1>4, <1>5, StepKept
<1> QED BY <1>1, <1>6 DEF Kept, OnlyFull

\* A full page goes from the header check to its submission.
LEMMA HeaderAio == AioInv /\ FileHeaderCheck => Kept
<1> SUFFICES ASSUME AioInv, FileHeaderCheck PROVE Kept
  OBVIOUS
<1>1. /\ TypeOK /\ UseInv /\ AioAccounted /\ OnlyFull /\ tok' = tok /\ op \in OpType
      /\ op.pc = "header" /\ fault = "none" /\ fault' = fault
      /\ UNCHANGED <<page, pgIndex, pgOffset, cached>>
      /\ pgOffset \in 0 .. PageDblks /\ PageDblks \in Nat
  BY SizesInNat DEF AioInv, MapsInv, TypeOK, CallTypes, PageTypes, FileHeaderCheck, At
<1> DEFINE pc == IF pgOffset >= PageDblks THEN "flush" ELSE "exit"
<1>2. op'.pc = pc
  BY <1>1, OpAfter DEF FileHeaderCheck, Goto
<1>3. op'.pc \in {"flush", "exit"} /\ (pgOffset = PageDblks => op'.pc = "flush")
  BY <1>1, <1>2
<1>4. CASE IsVoid(file[ring.idx])
  <2>1. AioAccounted'
    BY <1>1, <1>4, HeaderSubmitted DEF FileHeaderCheck
  <2>2. UseInv'
    BY <1>1, <1>3 DEF UseInv, PageUse, TokenUse, PartUse
  <2> QED BY <1>1, <2>1, <2>2 DEF Kept, OnlyFull
<1>5. CASE ~IsVoid(file[ring.idx])
  <2>1. UNCHANGED <<file, evtRem>>
    BY <1>5 DEF FileHeaderCheck
  <2>2. \A f \in Files : FileSame(f)
    BY <2>1 DEF FileSame
  <2>3. \A p \in Pages : PageOpened(p)
    BY <1>1 DEF PageOpened
  <2>4. UseInv' /\ AioAccounted'
    BY <1>1, <1>3, <2>1, <2>2, <2>3, StepKept
  <2> QED BY <1>1, <2>4 DEF Kept, OnlyFull
<1> QED BY <1>4, <1>5

\* Rotation resets the next file; the next page opens.
LEMMA FlushCheckAio == AioInv /\ FlushCheck => Kept
<1> SUFFICES ASSUME AioInv, FlushCheck PROVE Kept
  OBVIOUS
<1>1. /\ TypeOK /\ UseInv /\ AioAccounted /\ OnlyFull /\ tok' = tok /\ op \in OpType
      /\ op.pc = "reap" /\ fault = "none" /\ fault' = fault /\ page' = OpenPage(page)
      /\ file' = file \/ file' = [file EXCEPT ![After(ring.idx, 1)] = WrReset(@)]
      /\ UNCHANGED <<pgIndex, pgOffset, cached, evtRem>>
  BY DEF AioInv, MapsInv, TypeOK, CallTypes, FlushCheck, At
<1>2. op'.pc \in {"exit", "encode"}
  <2>1. \E pc \in {"exit", "encode"} : \E res : op' = [op EXCEPT !.pc = pc, !.res = res]
    <3> DEFINE pageWait == PageBlocked /\ ~op.done
               rotate   == pgCntr >= FilePages
               rotated  == RotateResult(ring, file)
               pc  == IF op.done \/ pageWait \/ (rotate /\ rotated # "SUCCESS")
                      THEN "exit" ELSE "encode"
               res == IF rotate /\ rotated # "SUCCESS" THEN rotated
                      ELSE IF pageWait THEN "PAGE_AIOWAIT" ELSE op.res
    <3>1. op' = [op EXCEPT !.pc = pc, !.res = res]
      BY DEF FlushCheck
    <3>2. pc \in {"exit", "encode"}
      OBVIOUS
    <3> HIDE DEF pc, res
    <3> QED BY <3>1, <3>2
  <2> QED BY <1>1, <2>1, OpAfter
<1>3. \A f \in Files : FileSame(f)
  <2> TAKE f \in Files
  <2>1. file'[f] = file[f] \/ file'[f] = WrReset(file[f])
    BY <1>1 DEF TypeOK, FileTypes
  <2> QED BY <1>1, <2>1, ResetSame
<1>4. \A p \in Pages : PageOpened(p)
  BY <1>1, OpensPage
<1>5. pgOffset # PageDblks
  BY <1>1, NotFull
<1>6. UseInv' /\ AioAccounted'
  BY <1>1, <1>2, <1>3, <1>4, <1>5, StepKept
<1> QED BY <1>1, <1>6 DEF Kept, OnlyFull

\* The end of a call, and its waits.
LEMMA ExitAio == AioInv /\ (Exit \/ Wait \/ WaitTimeout) => Kept
<1> SUFFICES ASSUME AioInv, Exit \/ Wait \/ WaitTimeout PROVE Kept
  OBVIOUS
<1>1. /\ TypeOK /\ UseInv /\ AioAccounted /\ OnlyFull /\ op \in OpType
      /\ op.pc \in {"exit", "wait"} /\ fault = "none" /\ fault' = fault
      /\ UNCHANGED <<page, pgIndex, pgOffset, cached, evtRem>>
      /\ file' = file \/ file' = [file EXCEPT ![ring.idx] = WrReset(@)]
  BY DEF AioInv, MapsInv, TypeOK, CallTypes, Exit, Wait, WaitPage, WaitFile, WaitTimeout, At,
         fileVars, pageVars
<1>2. op'.pc \in {"idle", "check", "wait", "exit"}
  <2>1. \/ op' = NoOp \/ op' = [op EXCEPT !.pc = "wait"]
        \/ op' = [op EXCEPT !.pc = "exit", !.res = "AIOCMPLWAIT"]
        \/ op' = [NoOp EXCEPT !.pc = "check", !.kind = op.kind, !.rid = op.rid]
    BY DEF Exit, Wait, WaitPage, WaitFile, WaitTimeout, Goto, Start, Return
  <2>2. CASE op' = NoOp
    BY <2>2 DEF NoOp
  <2>3. CASE op' = [op EXCEPT !.pc = "wait"]
    BY <1>1, <2>3, OpAfter
  <2>4. CASE op' = [op EXCEPT !.pc = "exit", !.res = "AIOCMPLWAIT"]
    BY <1>1, <2>4, OpAfter
  <2>5. CASE op' = [NoOp EXCEPT !.pc = "check", !.kind = op.kind, !.rid = op.rid]
    BY <2>5, OpNew
  <2> QED BY <2>1, <2>2, <2>3, <2>4, <2>5
<1>3. \A r \in Rids : tok'[r].st = tok[r].st /\ tok'[r].pgs = tok[r].pgs
  <2>1. tok' = tok \/ tok' = [r \in Rids |-> IF r = op.rid /\ tok[r].st = "NONE"
                                             THEN NoTok ELSE tok[r]]
    BY DEF Exit, Wait, WaitPage, WaitFile, WaitTimeout
  <2>2. ASSUME NEW r \in Rids, tok[r].st = "NONE" PROVE tok[r].pgs = 0
    <3>1. PagesOf(r) = {}
      BY <1>1, <2>2 DEF UseInv, TokenUse, PagesOf
    <3>2. TokenPages(r)
      BY <1>1 DEF AioAccounted
    <3> QED BY <3>1, <3>2, FS_EmptySet DEF TokenPages, PagesOf
  <2> QED BY <2>1, <2>2 DEF NoTok
<1>4. \A f \in Files : FileSame(f)
  <2> TAKE f \in Files
  <2>1. file'[f] = file[f] \/ file'[f] = WrReset(file[f])
    BY <1>1 DEF TypeOK, FileTypes
  <2> QED BY <1>1, <2>1, ResetSame
<1>5. \A p \in Pages : PageOpened(p)
  BY <1>1 DEF PageOpened
<1>6. pgOffset # PageDblks
  BY <1>1, NotFull
<1>7. UseInv' /\ AioAccounted'
  BY <1>1, <1>2, <1>3, <1>4, <1>5, <1>6, StepKept
<1> QED BY <1>1, <1>7 DEF Kept, OnlyFull

-----------------------------------------------------------------------------
(* Copying a record, and recording it.                                     *)

\* A record is never copied twice into a page, so its pages are counted right.
LEMMA EncodeAio == AioInv /\ Encode => Kept
<1> SUFFICES ASSUME AioInv, Encode PROVE Kept
  OBVIOUS
<1> DEFINE room == PageDblks - pgOffset
           left == T.size - T.written
           n    == IF left < room THEN left ELSE room
           t    == [T EXCEPT !.fid     = IF T.written = 0 THEN ring.idx ELSE T.fid,
                             !.written = T.written + n,
                             !.pgs     = T.pgs + 1,
                             !.span    = T.span \cup {ring.idx},
                             !.st      = IF n = left THEN T.st ELSE "PART"]
           pc   == IF n = left THEN "complete" ELSE "header"
<1>1. /\ TypeOK /\ UseInv /\ AioAccounted /\ OnlyFull /\ PageInv /\ MapInv /\ op \in OpType
      /\ op.pc = "encode" /\ fault = "none" /\ fault' = fault
      /\ UNCHANGED <<file, pgIndex, evtRem>>
  BY DEF AioInv, MapsInv, TypeOK, CallTypes, Encode, At, fileVars
<1>2. /\ op.rid \in Rids /\ op.kind \in Kinds /\ T \in TokType /\ T = tok[op.rid]
      /\ tok \in [Rids -> TokType] /\ page \in [Pages -> PageType] /\ pgIndex \in Pages
      /\ pgOffset \in 0 .. PageDblks /\ cached \in 0 .. pgOffset /\ PageDblks \in Nat
      /\ T.size \in Nat /\ T.written \in Nat /\ T.written <= T.size /\ T.pgs \in Nat
  <2>1. op.rid \in Rids /\ op.kind \in Kinds /\ T \in TokType
    BY <1>1, OpKinds
  <2> QED BY <1>1, <2>1, SizesInNat DEF TypeOK, CallTypes, PageTypes, TokShape, TokType, T
<1>3. page[pgIndex].st = "IN_USE" /\ pgOffset # PageDblks
  BY <1>1, NotFull DEF PageInv
<1>4. op.rid \notin page[pgIndex].toks
  <2>1. T.st # "NONE" => T.st = "PART"
    BY <1>1, <1>2 DEF MapInv, TokInv, CallInv, TokType, Whole
  <2>2. T.st = "NONE" => op.rid \notin page[pgIndex].toks
    BY <1>1, <1>2 DEF UseInv, TokenUse
  <2>3. T.st = "PART" => op.rid \notin page[pgIndex].toks
    BY <1>1, <1>2, <1>3 DEF UseInv, PartUse
  <2> QED BY <2>1, <2>2, <2>3
<1>5. /\ n \in Nat /\ n <= room /\ pgOffset + n <= PageDblks
      /\ n # left => n = room /\ pgOffset + n = PageDblks
      /\ pgOffset + n = PageDblks => cached + n > 0
  BY <1>2, <1>3
<1>6. /\ tok' = [tok EXCEPT ![op.rid] = t]
      /\ page' = [page EXCEPT ![pgIndex].toks = @ \cup {op.rid}]
      /\ pgOffset' = pgOffset + n /\ cached' = cached + n
      /\ op' = [op EXCEPT !.pc = pc]
  <2>1. tok' = [tok EXCEPT ![op.rid] = t]
    BY DEF Encode, T
  <2>2. /\ page' = [page EXCEPT ![pgIndex].toks = @ \cup {op.rid}]
        /\ pgOffset' = pgOffset + n /\ cached' = cached + n
        /\ op' = [op EXCEPT !.pc = pc]
    BY DEF Encode, Goto, T
  <2> QED BY <2>1, <2>2
<1>7. op'.pc = pc /\ op'.rid = op.rid
  <2> HIDE DEF pc
  <2> QED BY <1>1, <1>6, OpAfter
<1> HIDE DEF n, left
<1>8. /\ tok'[op.rid].pgs = tok[op.rid].pgs + 1
      /\ tok'[op.rid].st = IF n = left THEN tok[op.rid].st ELSE "PART"
      /\ \A r \in Rids \ {op.rid} : tok'[r] = tok[r]
  <2>1. t.pgs = T.pgs + 1 /\ t.st = IF n = left THEN T.st ELSE "PART"
    BY <1>2 DEF TokType
  <2> HIDE DEF t
  <2> QED BY <1>2, <1>6, <2>1
<1>9. /\ page'[pgIndex].toks = page[pgIndex].toks \cup {op.rid}
      /\ \A p \in Pages : p # pgIndex => page'[p] = page[p]
      /\ \A p \in Pages : /\ page'[p].st = page[p].st /\ page'[p].wd = page[p].wd
                          /\ page'[p].wfh = page[p].wfh
  BY <1>2, <1>6 DEF PageType
<1>10. AioAccounted'
  <2>1. \A f \in Files : FileAcc(f)'
    <3> TAKE f \in Files
    <3>1. InFlight(f)' = InFlight(f)
      BY <1>9 DEF InFlight
    <3>2. \A p \in InFlight(f) : page'[p].wd = page[p].wd
      BY <1>9 DEF InFlight
    <3>3. DblksInFlight(f)' = DblksInFlight(f)
      BY <3>1, <3>2 DEF DblksInFlight
    <3> QED BY <1>1, <3>1, <3>3 DEF AioAccounted, FileAcc, HeaderOut, WriteDblks
  <2>2. evtRem' = Cardinality(Out') + Cardinality(HeadersOut')
    <3>1. Out' = Out /\ HeadersOut' = HeadersOut
      BY <1>1, <1>9 DEF Out, HeadersOut
    <3> QED BY <1>1, <3>1 DEF AioAccounted, Out, HeadersOut
  <2>3. ASSUME NEW r \in Rids, r # op.rid PROVE TokenPages(r)'
    <3>1. PagesOf(r)' = PagesOf(r)
      BY <1>2, <1>9, <2>3 DEF PagesOf
    <3>2. TokenPages(r) /\ tok'[r] = tok[r]
      BY <1>1, <1>8, <2>3 DEF AioAccounted
    <3> QED BY <3>1, <3>2 DEF TokenPages, PagesOf
  <2>4. TokenPages(op.rid)'
    <3>1. PagesOf(op.rid)' = PagesOf(op.rid) \cup {pgIndex} /\ pgIndex \notin PagesOf(op.rid)
      BY <1>2, <1>4, <1>7, <1>9 DEF PagesOf
    <3>2. Cardinality(PagesOf(op.rid)') = Cardinality(PagesOf(op.rid)) + 1
      BY <1>1, <3>1, WritesFinite, FS_AddElement
    <3>3. TokenPages(op.rid)
      BY <1>1, <1>2 DEF AioAccounted
    <3>4. tok'[op.rid].st \notin Whole
      BY <1>1, <1>2, <1>8 DEF MapInv, TokInv, CallInv, Whole
    <3> QED BY <1>7, <1>8, <3>2, <3>3, <3>4 DEF TokenPages, PagesOf, Whole
  <2>5. \A r \in Rids : TokenPages(r)'
    <3> TAKE r \in Rids
    <3>1. CASE r # op.rid
      BY <2>3, <3>1
    <3>2. CASE r = op.rid
      BY <1>7, <2>4, <3>2 DEF TokenPages
    <3> QED BY <3>1, <3>2
  <2> QED BY <2>1, <2>2, <2>5 DEF AioAccounted, FileAcc, Out, HeadersOut
<1>11. PageUse'
  <2>1. page'[pgIndex].st = "IN_USE"
    BY <1>2, <1>3, <1>9
  <2> QED BY <1>1, <1>9, <2>1 DEF UseInv, PageUse
<1>12. TokenUse'
  <2>1. ASSUME NEW r \in Rids, tok'[r].st = "NONE", ~(op'.pc = "complete" /\ op'.rid = r),
               NEW p \in Pages
        PROVE  r \notin page'[p].toks
    <3>1. r # op.rid
      BY <1>7, <1>8, <2>1
    <3>2. r \notin page[p].toks
      BY <1>1, <1>8, <2>1, <3>1 DEF UseInv, TokenUse
    <3> QED BY <1>2, <1>9, <3>1, <3>2
  <2>2. op'.rid \in page'[pgIndex'].toks
    BY <1>1, <1>7, <1>9
  <2> QED BY <2>1, <2>2 DEF TokenUse
<1>13. PartUse'
  <2>1. ASSUME NEW r \in page'[pgIndex'].toks, tok'[r].st = "PART"
        PROVE  pgOffset' = PageDblks \/ (op'.pc = "complete" /\ r = op'.rid)
    <3>1. CASE n # left
      BY <1>5, <1>6, <3>1
    <3>2. CASE n = left
      <4>1. r \in page[pgIndex].toks => tok[r].st # "PART"
        BY <1>1, <1>3 DEF UseInv, PartUse
      <4>2. r \in Rids /\ (r \in page[pgIndex].toks \/ r = op.rid)
        BY <1>1, <1>2, <1>9 DEF PageType
      <4> QED BY <1>7, <1>8, <2>1, <3>2, <4>1, <4>2
    <3> QED BY <3>1, <3>2
  <2>2. pgOffset' = PageDblks => op'.pc \in {"complete", "header", "flush"} /\ cached' > 0
    BY <1>5, <1>6, <1>7
  <2> QED BY <2>1, <2>2 DEF PartUse
<1> QED BY <1>1, <1>10, <1>11, <1>12, <1>13 DEF Kept, UseInv, OnlyFull

\* The maps take the record without an error.
LEMMA RecordNoFault == MapsInv /\ CallInv' /\ Record => fault' = "none"
<1> SUFFICES ASSUME MapsInv, CallInv', Record PROVE fault' = "none"
  OBVIOUS
<1>1. TypeOK /\ MapInv /\ BusyInv
  BY DEF MapsInv
<1>2. CASE EnqueueTxn \/ DequeueTxn
  BY <1>2 DEF EnqueueTxn, DequeueTxn, Recorded, At
<1>3. CASE EnqueueNonTxn
  <2>1. op.rid \notin Held /\ op.rid \in Rids /\ fault = "none"
    BY <1>1, <1>3, RecordFacts DEF EnqueueNonTxn, Recorded, At
  <2>2. ~InEmap(op.rid)
    BY <2>1 DEF Held
  <2> QED BY <1>3, <2>1, <2>2 DEF EnqueueNonTxn
<1>4. CASE DequeueNonTxn
  BY <1>1, <1>4, DequeueNonTxnMaps
<1>5. CASE AbortTxn \/ CommitTxn
  BY <1>1, <1>5, AbortMaps, CommitMaps
<1> QED BY <1>2, <1>3, <1>4, <1>5 DEF Record

\* Recording counts records in and out of the files, and does not touch their writes.
LEMMA RecordFiles == TypeOK /\ Record => \A f \in Files :
    /\ file'[f].aio = file[f].aio /\ file'[f].fhdr = file[f].fhdr
    /\ file'[f].subm = file[f].subm /\ file'[f].cmpl = file[f].cmpl
<1> DEFINE Same(f) == /\ file'[f].aio = file[f].aio /\ file'[f].fhdr = file[f].fhdr
                      /\ file'[f].subm = file[f].subm /\ file'[f].cmpl = file[f].cmpl
<1> SUFFICES ASSUME TypeOK, Record PROVE \A f \in Files : Same(f)
  OBVIOUS
<1>1. file \in [Files -> FileType]
  BY DEF TypeOK, FileTypes
<1>2. ASSUME NEW g, file' = [file EXCEPT ![g].enq = @ + 1] \/ file' = [file EXCEPT ![g].enq = @ - 1]
      PROVE  \A f \in Files : Same(f)
  BY <1>1, <1>2 DEF FileType
<1>3. ASSUME NEW recs, file' = Without(recs) PROVE \A f \in Files : Same(f)
  BY <1>1, <1>3 DEF Without, FileType
<1>4. file' = file => \A f \in Files : Same(f)
  OBVIOUS
<1>5. \/ file' = file \/ \E recs : file' = Without(recs)
      \/ \E g : file' = [file EXCEPT ![g].enq = @ + 1] \/ file' = [file EXCEPT ![g].enq = @ - 1]
  <2>1. CASE EnqueueTxn \/ EnqueueNonTxn \/ DequeueTxn
    BY <2>1 DEF EnqueueTxn, EnqueueNonTxn, DequeueTxn
  <2>2. CASE DequeueNonTxn
    BY <2>2 DEF DequeueNonTxn
  <2>3. CASE AbortTxn
    BY <2>3 DEF AbortTxn, CloseTxn
  <2>4. CASE CommitTxn
    BY <2>4 DEF CommitTxn, CloseTxn
  <2> QED BY <2>1, <2>2, <2>3, <2>4 DEF Record
<1> QED BY <1>2, <1>3, <1>4, <1>5

\* The files' counts of records are not counts of writes.
LEMMA RecordAio == AioInv /\ CallInv' /\ TypeOK' /\ Record => Kept
<1> SUFFICES ASSUME AioInv, CallInv', TypeOK', Record PROVE Kept
  OBVIOUS
<1>1. /\ TypeOK /\ UseInv /\ AioAccounted /\ MapsInv /\ MapInv /\ BusyInv /\ fault' = "none"
      /\ Recorded /\ op.pc = "complete" /\ fault = "none" /\ UNCHANGED pageVars
      /\ tok' = [tok EXCEPT ![op.rid].st = "SUBM"]
  <2>1. Recorded
    BY DEF Record, EnqueueTxn, EnqueueNonTxn, DequeueTxn, DequeueNonTxn, AbortTxn, CommitTxn,
           CloseTxn
  <2> QED BY <2>1, RecordNoFault DEF AioInv, MapsInv, Recorded, At
<1>2. /\ op.rid \in Rids /\ T = tok[op.rid] /\ T.st \notin Whole /\ tok'[op.rid].st = "SUBM"
      /\ op'.pc = "header" /\ op'.rid = op.rid /\ \A r \in Rids \ {op.rid} : tok'[r] = tok[r]
  BY <1>1, RecordFacts
<1>3. \A f \in Files : FileSame(f)
  BY <1>1, RecordFiles DEF FileSame
<1>4. op.rid \in page[pgIndex].toks /\ pgIndex \in Pages
  BY <1>1 DEF UseInv, TokenUse, TypeOK, PageTypes
<1>5. AioAccounted'
  <2>1. \A p \in Pages : PageSame(p)
    BY <1>1 DEF PageSame, pageVars
  <2>2. \A r \in Rids : TokenPages(r) /\ tok[r].pgs \in Nat /\ tok[r] \in TokType
    BY <1>1 DEF AioAccounted, TypeOK, CallTypes, TokType
  <2>3. \A r \in Rids : tok'[r].pgs = tok[r].pgs
    BY <1>1, <1>2, <2>2 DEF TokType
  <2>4. tok[op.rid].pgs > 0
    <3>1. pgIndex \in PagesOf(op.rid) /\ IsFiniteSet(PagesOf(op.rid))
      BY <1>1, <1>4, WritesFinite DEF PagesOf
    <3>2. Cardinality(PagesOf(op.rid)) # 0
      BY <3>1, FS_EmptySet
    <3> QED BY <1>2, <2>2, <3>2 DEF TokenPages, PagesOf
  <2>5. \A r \in Rids : /\ tok'[r].st = "COMPL" => tok[r].pgs = 0
                        /\ tok'[r].st = "SUBM" => tok[r].pgs > 0
    BY <1>2, <2>2, <2>4 DEF TokenPages
  <2> QED BY <1>1, <1>3, <2>1, <2>3, <2>5, AioKept DEF pageVars
<1>6. UseInv'
  <2>1. PageUse'
    BY <1>1 DEF UseInv, PageUse, pageVars
  <2>2. TokenUse'
    <3>1. \A r \in Rids : tok'[r].st = "NONE" => r # op.rid /\ tok[r].st = "NONE"
      BY <1>2
    <3> QED BY <1>1, <1>2, <3>1 DEF UseInv, TokenUse, pageVars
  <2>3. PartUse'
    <3>1. page[pgIndex].toks \subseteq Rids
      BY <1>1, <1>4 DEF TypeOK, PageTypes, PageType
    <3>2. \A r \in page[pgIndex].toks : tok'[r].st = "PART" => r # op.rid /\ tok[r].st = "PART"
      BY <1>2, <3>1
    <3> QED BY <1>1, <1>2, <3>2 DEF UseInv, PartUse, pageVars
  <2> QED BY <2>1, <2>2, <2>3 DEF UseInv
<1> QED BY <1>1, <1>5, <1>6 DEF Kept, OnlyFull

-----------------------------------------------------------------------------
(* Handing a page over, and hearing of it.                                 *)

\* The page that is handed over is the open one, and is counted; the next one
\* opens only when it holds no record.
LEMMA SubmitAio ==
    ASSUME AioInv, SubmitPage, cached > 0, fault = "none", op.pc = "flush",
           op'.pc = "reap", tok' = tok
    PROVE  Kept
<1> DEFINE n == RoundUp(cached)
           offset == pgOffset + n - cached
           full == offset >= PageDblks
           next == (pgIndex + 1) % NumPages
           sent == [page EXCEPT ![pgIndex] =
                        [@ EXCEPT !.st = "AIO_PENDING", !.wd = n, !.wfh = ring.idx]]
           error == IF page[pgIndex].st # "IN_USE" THEN "BADPGSTATE"
                    ELSE IF Overflows(file[ring.idx], n) THEN "FILEOFFSOVFL" ELSE "none"
<1>1. TypeOK /\ UseInv /\ AioAccounted /\ PageInv /\ page[pgIndex].st = "IN_USE"
  BY DEF AioInv, MapsInv, PageInv
<1>2. /\ page \in [Pages -> PageType] /\ pgIndex \in Pages /\ ring.idx \in Files
      /\ pgOffset \in 0 .. PageDblks /\ cached \in 0 .. pgOffset
  BY <1>1 DEF TypeOK, FileTypes, RingType, PageTypes
<1>3. CASE error # "none"
  <2>1. UNCHANGED <<fileVars, pageVars>> /\ fault' = "FILEOFFSOVFL"
    BY <1>1, <1>3 DEF SubmitPage, Throw
  <2>2. UseInv' /\ OnlyFull'
    BY <1>1, <2>1 DEF UseInv, PageUse, TokenUse, OnlyFull, pageVars
  <2>3. AioAccounted'
    <3>1. \A f \in Files : FileSame(f)
      BY <2>1 DEF FileSame, fileVars
    <3>2. \A p \in Pages : PageSame(p)
      BY <2>1 DEF PageSame, pageVars
    <3>3. \A r \in Rids : tok[r].pgs \in Nat
      BY <1>1 DEF TypeOK, CallTypes, TokType
    <3> QED BY <1>1, <2>1, <3>1, <3>2, <3>3, AioKept DEF AioAccounted, TokenPages, pageVars
  <2> QED BY <2>2, <2>3 DEF Kept
<1>4. CASE error = "none"
  <2>1. /\ file' = [file EXCEPT ![ring.idx] = Submit(@, n)]
        /\ page' = [sent EXCEPT ![next].st = IF @ = "UNUSED" THEN "IN_USE" ELSE @]
        /\ pgIndex' = next
        /\ pgOffset' = IF full THEN 0 ELSE offset
        /\ cached' = 0
        /\ evtRem' = evtRem + 1
        /\ UNCHANGED <<ring, fault>>
    BY <1>4 DEF SubmitPage
  <2>2. n \in Nat /\ cached \in Nat /\ pgOffset \in Nat /\ PageDblks \in Nat /\ PageDblks > 0
    BY <1>2, RoundUpNat, SizesInNat, RingAssumption
  <2>3. next \in Pages
    BY <1>2, NextPageInPages
  <2>4. pgOffset' # PageDblks
    BY <2>1, <2>2
  <2> HIDE DEF n, next
  <2>5. /\ sent[pgIndex].st = "AIO_PENDING" /\ sent[pgIndex].wd = n
        /\ sent[pgIndex].wfh = ring.idx /\ sent[pgIndex].toks = page[pgIndex].toks
        /\ \A p \in Pages \ {pgIndex} : sent[p] = page[p]
        /\ sent \in [Pages -> PageType]
    <3>1. sent[pgIndex] = [page[pgIndex] EXCEPT !.st = "AIO_PENDING", !.wd = n, !.wfh = ring.idx]
      BY <1>2
    <3>2. sent[pgIndex] \in PageType
      BY <1>2, <2>2, <3>1, Zenon DEF PageType
    <3>3. \A p \in Pages \ {pgIndex} : sent[p] = page[p]
      BY <1>2
    <3>4. sent \in [Pages -> PageType]
      BY <1>2, <3>2
    <3> QED BY <1>2, <3>1, <3>3, <3>4 DEF PageType
  <2> HIDE DEF sent
  <2>6. \A p \in Pages : /\ page'[p].toks = sent[p].toks /\ page'[p].wd = sent[p].wd
                         /\ page'[p].wfh = sent[p].wfh
                         /\ \/ page'[p].st = sent[p].st /\ (p = next => sent[p].st # "UNUSED")
                            \/ /\ p = next /\ sent[p].st = "UNUSED" /\ page'[p].st = "IN_USE"
    <3> SUFFICES ASSUME NEW p \in Pages
                 PROVE  /\ page'[p].toks = sent[p].toks /\ page'[p].wd = sent[p].wd
                        /\ page'[p].wfh = sent[p].wfh
                        /\ \/ page'[p].st = sent[p].st /\ (p = next => sent[p].st # "UNUSED")
                           \/ /\ p = next /\ sent[p].st = "UNUSED" /\ page'[p].st = "IN_USE"
      OBVIOUS
    <3>1. CASE p # next
      BY <2>1, <2>5, <3>1
    <3>2. CASE p = next
      <4>1. page'[p] = [sent[p] EXCEPT !.st = IF @ = "UNUSED" THEN "IN_USE" ELSE @]
        BY <2>1, <2>5, <3>2
      <4>2. sent[p] \in PageType
        BY <2>5
      <4> QED BY <3>2, <4>1, <4>2 DEF PageType
    <3> QED BY <3>1, <3>2
  <2>7. \A p \in Pages \ {pgIndex} : PageSame(p)
    BY <2>5, <2>6 DEF PageSame
  <2>8. /\ page'[pgIndex].st = "AIO_PENDING" /\ page'[pgIndex].wd = n
        /\ page'[pgIndex].wfh = ring.idx /\ page'[pgIndex].toks = page[pgIndex].toks
    BY <1>2, <2>5, <2>6
  <2>9. AioAccounted'
    <3>1. page[pgIndex].st # "AIO_PENDING"
      BY <1>1
    <3> QED BY <1>1, <1>2, <2>1, <2>2, <2>7, <2>8, <3>1, PageSubmitted
  <2>10. PageUse'
    <3>1. PageUse
      BY <1>1 DEF UseInv
    <3>2. ASSUME NEW p \in Pages, page'[p].st = "UNUSED" PROVE page'[p].toks = {}
      <4>1. p # pgIndex /\ page[p].st = "UNUSED" /\ page'[p].toks = page[p].toks
        BY <2>5, <2>6, <2>8, <3>2
      <4> QED BY <3>1, <4>1 DEF PageUse
    <3>3. ASSUME NEW p \in Pages, page'[p].st = "IN_USE" PROVE p = next
      <4>1. CASE p = pgIndex
        BY <2>8, <3>3, <4>1
      <4>2. CASE p # pgIndex
        <5>1. page[p].st # "IN_USE"
          BY <3>1, <4>2 DEF PageUse
        <5> QED BY <2>5, <2>6, <3>3, <4>2, <5>1
      <4> QED BY <4>1, <4>2
    <3> QED BY <2>1, <3>2, <3>3 DEF PageUse
  <2>11. TokenUse'
    <3>1. \A p \in Pages : page'[p].toks = page[p].toks
      BY <2>7, <2>8 DEF PageSame
    <3> QED BY <1>1, <3>1 DEF UseInv, TokenUse
  <2>12. PartUse'
    <3>1. page'[next].st = "IN_USE" => page'[next].toks = {}
      <4>1. next = pgIndex => page'[next].st # "IN_USE"
        BY <2>8
      <4>2. next # pgIndex => page[next].st # "IN_USE"
        BY <1>1, <2>3 DEF UseInv, PageUse
      <4>3. next # pgIndex /\ page'[next].st = "IN_USE" => page[next].st = "UNUSED"
        BY <2>3, <2>5, <2>6, <4>2
      <4>4. next # pgIndex => page'[next].toks = page[next].toks
        BY <2>3, <2>5, <2>6
      <4> QED BY <1>1, <2>3, <4>1, <4>3, <4>4 DEF UseInv, PageUse
    <3> QED BY <2>1, <2>4, <3>1 DEF PartUse
  <2> QED BY <2>1, <2>9, <2>10, <2>11, <2>12 DEF Kept, UseInv, OnlyFull, AioInv
<1> QED BY <1>3, <1>4

\* write_flush().
LEMMA WriteFlushAio == AioInv /\ WriteFlush => Kept
<1> SUFFICES ASSUME AioInv, WriteFlush PROVE Kept
  OBVIOUS
<1>1. /\ TypeOK /\ UseInv /\ AioAccounted /\ OnlyFull /\ PageInv /\ tok' = tok /\ op \in OpType
      /\ op.pc = "flush" /\ fault = "none"
      /\ IF cached = 0 \/ PageBlocked THEN UNCHANGED <<fileVars, pageVars, fault>> ELSE SubmitPage
  BY DEF AioInv, MapsInv, TypeOK, CallTypes, WriteFlush, At
<1>2. op'.pc = "reap"
  <2>1. PICK res : op' = [op EXCEPT !.pc = "reap", !.res = res]
    BY DEF WriteFlush
  <2> QED BY <1>1, <2>1, OpAfter
<1>3. cached \in Nat /\ (cached > 0 => ~PageBlocked)
  <2>1. pgOffset \in 0 .. PageDblks /\ cached \in 0 .. pgOffset
    BY <1>1 DEF TypeOK, PageTypes
  <2> QED BY <1>1, <2>1, SizesInNat DEF PageInv, PageBlocked
<1>4. CASE cached = 0
  <2>1. UNCHANGED <<fileVars, pageVars, fault>>
    BY <1>1, <1>4
  <2>2. pgOffset # PageDblks
    BY <1>1, <1>4 DEF UseInv, PartUse
  <2>3. \A f \in Files : FileSame(f)
    BY <2>1 DEF FileSame, fileVars
  <2>4. \A p \in Pages : PageOpened(p)
    BY <2>1 DEF PageOpened, pageVars
  <2>5. UseInv' /\ AioAccounted'
    BY <1>1, <1>2, <2>1, <2>2, <2>3, <2>4, StepKept DEF pageVars
  <2> QED BY <1>1, <2>1, <2>5 DEF Kept, OnlyFull
<1>5. CASE cached > 0
  BY <1>1, <1>2, <1>3, <1>5, SubmitAio
<1> QED BY <1>3, <1>4, <1>5

\* get_events().
LEMMA KernelAio == AioInv /\ Kernel => Kept
<1> SUFFICES ASSUME AioInv, Kernel PROVE Kept
  OBVIOUS
<1>1. TypeOK /\ UseInv /\ AioAccounted /\ OnlyFull /\ MapInv /\ TokenUse
  BY DEF AioInv, MapsInv, UseInv
<1>2. ASSUME NEW q \in Pages, ReapPage(q) PROVE Kept
  <2>1. /\ fault = "none" /\ fault' = "none" /\ page[q].st = "AIO_PENDING"
        /\ \A r \in Arrived(q) : tok[r].st = "SUBM"
        /\ tok' = [r \in Rids |-> IF r \in page[q].toks
              THEN [tok[r] EXCEPT !.pgs = @ - 1, !.st = IF r \in Arrived(q) THEN "COMPL" ELSE @]
              ELSE tok[r]]
        /\ page' = [page EXCEPT ![q] = FreePage]
        /\ UNCHANGED <<pgIndex, pgOffset, cached, op>>
    BY <1>1, <1>2, ReapsCleanly
  <2>2. AioAccounted'
    BY <1>1, <1>2, PageReapedAcc
  <2>3. page \in [Pages -> PageType] /\ tok \in [Rids -> TokType] /\ pgIndex \in Pages
        /\ op.pc \in {"idle", "reap", "wait"}
    BY <1>1, <1>2 DEF TypeOK, PageTypes, CallTypes, ReapPage, Reaping
  <2>4. /\ \A p \in Pages \ {q} : page'[p] = page[p]
        /\ page'[q].st = "UNUSED" /\ page'[q].toks = {}
    BY <2>1, <2>3 DEF FreePage
  <2>5. \A r \in Rids : /\ tok'[r].st = "NONE" => tok[r].st = "NONE"
                        /\ tok'[r].st = "PART" => tok[r].st = "PART"
    <3> TAKE r \in Rids
    <3>1. CASE r \in page[q].toks
      <4>1. tok'[r] = [tok[r] EXCEPT !.pgs = @ - 1, !.st = IF r \in Arrived(q) THEN "COMPL" ELSE @]
        BY <2>1, <3>1
      <4>2. tok'[r].st = IF r \in Arrived(q) THEN "COMPL" ELSE tok[r].st
        BY <2>3, <4>1 DEF TokType
      <4> QED BY <4>2
    <3>2. CASE r \notin page[q].toks
      BY <2>1, <3>2
    <3> QED BY <3>1, <3>2
  <2>6. PageUse'
    BY <1>1, <2>1, <2>4 DEF UseInv, PageUse
  <2>7. TokenUse'
    <3>1. \A p \in Pages : page'[p].toks \subseteq page[p].toks
      BY <2>4
    <3> QED BY <1>1, <2>1, <2>3, <2>5, <3>1 DEF TokenUse
  <2>8. PartUse'
    <3>1. page[pgIndex].toks \subseteq Rids
      BY <2>3 DEF PageType
    <3>2. page'[pgIndex] = page[pgIndex] \/ page'[pgIndex].toks = {}
      BY <2>3, <2>4
    <3> QED BY <1>1, <2>1, <2>5, <3>1, <3>2 DEF UseInv, PartUse
  <2> QED BY <2>1, <2>2, <2>6, <2>7, <2>8 DEF Kept, UseInv, OnlyFull
<1>3. ASSUME NEW f \in Files, ReapHeader(f) PROVE Kept
  <2>1. AioAccounted' /\ fault' = "none" /\ fault = "none"
        /\ UNCHANGED <<page, pgIndex, pgOffset, cached, tok, op>>
    BY <1>1, <1>3, HeaderReapedAcc
  <2>2. UseInv'
    BY <1>1, <2>1 DEF UseInv, PageUse, TokenUse, PartUse
  <2> QED BY <2>1, <2>2 DEF Kept, OnlyFull
<1> QED BY <1>2, <1>3 DEF Kernel

-----------------------------------------------------------------------------
(* Every reachable state.                                                  *)

\* Nothing is in flight when the journal is new.
LEMMA InitAio == Init => AioInv
<1> SUFFICES ASSUME Init PROVE AioInv
  OBVIOUS
<1>1. MapsInv /\ TypeOK
  BY InitMaps DEF MapsInv
<1>2. /\ \A p \in Pages : page[p].toks = {} /\ page[p].st # "AIO_PENDING"
                          /\ (page[p].st = "IN_USE" => p = 0)
      /\ \A f \in Files : ~file[f].fhdr /\ file[f].aio = 0 /\ file[f].subm = 0 /\ file[f].cmpl = 0
      /\ \A r \in Rids : tok[r].pgs = 0 /\ tok[r].st = "NONE"
      /\ evtRem = 0 /\ pgIndex = 0 /\ pgOffset = 0 /\ op.pc = "idle" /\ fault = "none"
  BY DEF Init, FreePage, NewFile, NoTok, NoOp
<1>3. UseInv /\ OnlyFull
  BY <1>1, <1>2, RingAssumption DEF UseInv, PageUse, TokenUse, PartUse, OnlyFull, TypeOK, PageTypes
<1>4. \A f \in Files : FileAcc(f)
  <2> TAKE f \in Files
  <2>1. InFlight(f) = {}
    BY <1>2 DEF InFlight
  <2>2. DblksInFlight(f) = {}
    BY <2>1 DEF DblksInFlight
  <2>3. HeaderOut(f) = 0 /\ SblkDblks \in Nat
    BY <1>2, SizesInNat DEF HeaderOut
  <2> QED BY <1>2, <2>1, <2>2, <2>3, FS_EmptySet DEF FileAcc, WriteDblks
<1>5. evtRem = Cardinality(Out) + Cardinality(HeadersOut)
  <2>1. Out = {} /\ HeadersOut = {}
    BY <1>2 DEF Out, HeadersOut
  <2> QED BY <1>2, <2>1, FS_EmptySet
<1>6. \A r \in Rids : TokenPages(r)
  <2> TAKE r \in Rids
  <2>1. {p \in Pages : r \in page[p].toks} = {}
    BY <1>2
  <2> QED BY <1>2, <2>1, FS_EmptySet DEF TokenPages
<1> QED BY <1>1, <1>3, <1>4, <1>5, <1>6 DEF AioInv, AioAccounted, FileAcc, Out, HeadersOut

\* Every step keeps the accounts.
LEMMA NextAio == AioInv /\ [Next]_vars => AioInv'
<1> SUFFICES ASSUME AioInv, [Next]_vars PROVE AioInv'
  OBVIOUS
<1>1. MapsInv' /\ TypeOK' /\ CallInv'
  BY NextMaps DEF AioInv, MapsInv, MapInv, TokInv
<1>2. CASE Next
  <2>1. Kept
    BY <1>1, <1>2, CallerAio, CheckAio, EncodeAio, RecordAio, HeaderAio, WriteFlushAio,
       FlushCheckAio, ExitAio, KernelAio DEF Next, Holder
  <2> QED BY <1>1, <2>1 DEF Kept, AioInv
<1>3. CASE UNCHANGED vars
  <2>1. UNCHANGED <<file, page, pgIndex, pgOffset, cached, evtRem, tok, op, fault>>
    BY <1>3 DEF vars, fileVars, pageVars
  <2>2. \A f \in Files : FileSame(f)
    BY <2>1 DEF FileSame
  <2>3. \A p \in Pages : PageSame(p)
    BY <2>1 DEF PageSame
  <2>4. \A r \in Rids : tok[r].pgs \in Nat
    BY DEF AioInv, MapsInv, TypeOK, CallTypes, TokType
  <2>5. AioAccounted'
    BY <2>1, <2>2, <2>3, <2>4, AioKept DEF AioInv, AioAccounted, TokenPages
  <2>6. UseInv' /\ OnlyFull'
    BY <2>1 DEF AioInv, UseInv, PageUse, TokenUse, PartUse, OnlyFull
  <2> QED BY <1>1, <2>5, <2>6 DEF AioInv
<1> QED BY <1>2, <1>3

\* So the invariant holds in every reachable state.
LEMMA AioAlways == Spec => []AioInv
BY InitAio, NextAio, PTL DEF Spec

\* In every reachable state the writes in flight are accounted for: per file their
\* count and their dblks, over all files the events to come, per token the pages
\* of its record, with any number of pages and files and completions in any order.
THEOREM AioAccountedAlways == Spec => []AioAccounted
<1>1. AioInv => AioAccounted
  BY DEF AioInv
<1> QED BY <1>1, AioAlways, PTL

\* No call ends in an exception of the maps, the tokens, the pages or the completion
\* counters (JERR_MAP_*, JERR_WMGR_BAD*, JERR_FCNTL_CMPLOFFSOVFL, the assertions of
\* get_events()), whatever is called and however its writes complete: the one
\* internal error left is a file that is written past its end (JERR_FCNTL_FILEOFFSOVFL).
THEOREM OnlyFullAlways == Spec => []OnlyFull
<1>1. AioInv => OnlyFull
  BY DEF AioInv
<1> QED BY <1>1, AioAlways, PTL

-----------------------------------------------------------------------------
(* Direct I/O: whole sblks only.                                           *)

\* A number that is a whole number of units.
LEMMA Multiple == \A m \in Nat : \A s \in Nat \ {0} : m % s = 0 =>
    m \div s \in Nat /\ m = (m \div s) * s
<1> TAKE m \in Nat
<1> TAKE s \in Nat \ {0}
<1>1. m = s * (m \div s) + (m % s)
  BY SMT
<1>2. m \div s \in Nat /\ s * (m \div s) = (m \div s) * s
  BY SMT
<1> QED BY <1>1, <1>2

\* Sums of sblks, and what dblk_roundup() gives, are whole sblks.
LEMMA AlignedNumbers ==
    /\ Aligned(0) /\ Aligned(SblkDblks)
    /\ \A n \in Nat : Aligned(RoundUp(n))
    /\ \A m, n \in Nat : Aligned(m) /\ Aligned(n) => Aligned(m + n)
<1>1. SblkDblks \in Nat \ {0}
  BY RingAssumption
<1>2. \A m \in Nat : \A s \in Nat \ {0} : (m * s) % s = 0
  OBVIOUS
<1>4. Aligned(0) /\ Aligned(SblkDblks)
  BY <1>1 DEF Aligned
<1>5. ASSUME NEW n \in Nat PROVE Aligned(RoundUp(n))
  <2>1. (n + SblkDblks - 1) \div SblkDblks \in Nat
    BY <1>1
  <2> QED BY <1>1, <1>2, <2>1 DEF Aligned, RoundUp
<1>6. ASSUME NEW m \in Nat, NEW n \in Nat, Aligned(m), Aligned(n) PROVE Aligned(m + n)
  <2>1. PICK j \in Nat : m = j * SblkDblks
    BY <1>1, <1>6, Multiple DEF Aligned
  <2>2. PICK k \in Nat : n = k * SblkDblks
    BY <1>1, <1>6, Multiple DEF Aligned
  <2>3. m + n = (j + k) * SblkDblks /\ j + k \in Nat
    BY <1>1, <2>1, <2>2
  <2> QED BY <1>1, <1>2, <2>3 DEF Aligned
<1> QED BY <1>4, <1>5, <1>6

\* A file's position stays, goes back to its start, or passes its header.
FileSteps == \A f \in Files :
    \/ file'[f].subm = file[f].subm
    \/ file'[f].subm = 0
    \/ file'[f].subm = file[f].subm + SblkDblks
PageSteps == \A p \in Pages : page'[p].wd = page[p].wd \/ page'[p].wd = 0

\* Steps that hand no page to the kernel keep everything on sblk boundaries.
LEMMA StaysAligned ==
    TypeOK /\ DirectIoAligned /\ FileSteps /\ PageSteps
    /\ pgOffset' - cached' = pgOffset - cached => DirectIoAligned'
<1> SUFFICES ASSUME TypeOK, DirectIoAligned, FileSteps, PageSteps,
                    pgOffset' - cached' = pgOffset - cached
             PROVE  DirectIoAligned'
  OBVIOUS
<1>1. Aligned(pgOffset - cached)'
  BY DEF DirectIoAligned, Aligned
<1>2. \A p \in Pages : Aligned(page[p].wd)'
  BY AlignedNumbers DEF DirectIoAligned, PageSteps, Aligned
<1>3. \A f \in Files : Aligned(file[f].subm)'
  <2> TAKE f \in Files
  <2>1. file[f].subm \in Nat /\ Aligned(file[f].subm)
    BY DEF TypeOK, FileTypes, FileType, DirectIoAligned
  <2>2. Aligned(file[f].subm + SblkDblks)
    BY <2>1, AlignedNumbers, SizesInNat
  <2> QED BY <2>1, <2>2, AlignedNumbers DEF FileSteps, Aligned
<1> QED BY <1>1, <1>2, <1>3 DEF DirectIoAligned

\* The file controllers' methods move a file's position as FileSteps says.
LEMMA ResetSteps == TypeOK =>
    /\ \A f, g \in Files : [file EXCEPT ![f] = WrReset(@)][g].subm \in {file[g].subm, 0}
    /\ \A g \in Files : FilesReset[g].subm \in {file[g].subm, 0}
<1> SUFFICES ASSUME TypeOK
             PROVE  /\ \A f, g \in Files :
                          [file EXCEPT ![f] = WrReset(@)][g].subm \in {file[g].subm, 0}
                    /\ \A g \in Files : FilesReset[g].subm \in {file[g].subm, 0}
  OBVIOUS
<1>1. file \in [Files -> FileType] /\ ring.idx \in Files
  BY DEF TypeOK, FileTypes, RingType
<1>2. \A fc \in FileType : WrReset(fc).subm \in {fc.subm, 0}
  BY DEF WrReset, FileType
<1>3. \A f, g \in Files : [file EXCEPT ![f] = WrReset(@)][g].subm \in {file[g].subm, 0}
  BY <1>1, <1>2
<1> QED BY <1>1, <1>3 DEF FilesReset

\* Steps that hand no page over: calls, checks, copies, rotations and waits.
LEMMA QuietAligned ==
    TypeOK /\ DirectIoAligned
    /\ (Caller \/ Check \/ Encode \/ Record \/ FlushCheck \/ Exit \/ Wait \/ WaitTimeout)
    => DirectIoAligned'
<1> SUFFICES ASSUME TypeOK, DirectIoAligned,
                    Caller \/ Check \/ Encode \/ Record \/ FlushCheck \/ Exit \/ Wait
                    \/ WaitTimeout
             PROVE  DirectIoAligned'
  OBVIOUS
<1>1. /\ ring.idx \in Files /\ file \in [Files -> FileType] /\ pgIndex \in Pages
      /\ page \in [Pages -> PageType] /\ pgOffset \in Nat /\ cached \in Nat
  <2>1. pgOffset \in 0 .. PageDblks /\ cached \in 0 .. pgOffset
    BY DEF TypeOK, PageTypes
  <2> QED BY <2>1, SizesInNat DEF TypeOK, FileTypes, RingType, PageTypes
<1>2. pgOffset' - cached' = pgOffset - cached
  <2>1. CASE Encode
    <3>1. PICK n \in Nat : pgOffset' = pgOffset + n /\ cached' = cached + n
      <4> DEFINE n == IF T.size - T.written < PageDblks - pgOffset
                      THEN T.size - T.written ELSE PageDblks - pgOffset
      <4>1. T.written <= T.size /\ T.size \in Nat /\ T.written \in Nat
        <5>1. op.pc = "encode"
          BY <2>1 DEF Encode, At
        <5>2. op.rid \in Rids
          BY <5>1, OpKinds DEF TypeOK, OpShape
        <5>3. tok[op.rid] \in TokType /\ tok[op.rid].written <= tok[op.rid].size
          BY <5>2 DEF TypeOK, CallTypes, TokShape
        <5> QED BY <5>3 DEF TokType, T
      <4>2. pgOffset \in 0 .. PageDblks
        BY DEF TypeOK, PageTypes
      <4>3. n \in Nat
        BY <4>1, <4>2, SizesInNat
      <4>4. pgOffset' = pgOffset + n /\ cached' = cached + n
        BY <2>1 DEF Encode
      <4> QED BY <4>3, <4>4
    <3> QED BY <1>1, <3>1
  <2>2. CASE ~Encode
    <3>1. UNCHANGED <<pgOffset, cached>>
      BY <2>2 DEF Caller, CallEnqueue, CallDequeue, CallEnd, NewCall, Retry, CallFlush, Check,
         CheckBusy, CheckFull, CheckPage, CheckRefused, CheckOk, PageChecked, Record, EnqueueTxn,
         EnqueueNonTxn, DequeueTxn, DequeueNonTxn, AbortTxn, CommitTxn, CloseTxn, Recorded,
         FlushCheck, Exit, Wait, WaitPage, WaitFile, WaitTimeout, pageVars
    <3> QED BY <3>1
  <2> QED BY <2>1, <2>2
<1>3. FileSteps
  <2>1. CASE Record
    BY <2>1, RecordFiles DEF FileSteps
  <2>2. CASE ~Record
    <3>1. \/ file' = file \/ file' = FilesReset
          \/ file' = [file EXCEPT ![After(ring.idx, 1)] = WrReset(@)]
          \/ file' = [file EXCEPT ![ring.idx] = WrReset(@)]
      BY <2>2 DEF Caller, CallEnqueue, CallDequeue, CallEnd, NewCall, Retry, CallFlush, Check,
         CheckBusy, CheckFull, CheckPage, CheckRefused, CheckOk, PageChecked, FileChecked,
         Encode, FlushCheck, Exit, Wait, WaitPage, WaitFile, WaitTimeout, fileVars
    <3>2. After(ring.idx, 1) \in Files
      BY <1>1, AfterInFiles
    <3> QED BY <1>1, <3>1, <3>2, ResetSteps DEF FileSteps
  <2> QED BY <2>1, <2>2
<1>4. PageSteps
  <2>1. \/ page' = page \/ page' = OpenPage(page)
        \/ page' = [page EXCEPT ![pgIndex].toks = @ \cup {op.rid}]
    BY DEF Caller, CallEnqueue, CallDequeue, CallEnd, NewCall, Retry, CallFlush, Check,
       CheckBusy, CheckFull, CheckPage, CheckRefused, CheckOk, PageChecked, Encode, Record,
       EnqueueTxn, EnqueueNonTxn, DequeueTxn, DequeueNonTxn, AbortTxn, CommitTxn, CloseTxn,
       Recorded, FlushCheck, Exit, Wait, WaitPage, WaitFile, WaitTimeout, pageVars
  <2>2. page' = [page EXCEPT ![pgIndex].toks = @ \cup {op.rid}] => PageSteps
    BY <1>1 DEF PageSteps, PageType
  <2>3. page' = OpenPage(page) => PageSteps
    BY OpensPage DEF PageOpened, PageSteps
  <2> QED BY <2>1, <2>2, <2>3 DEF PageSteps
<1> QED BY <1>2, <1>3, <1>4, StaysAligned

\* The header of a file takes one sblk.
LEMMA HeaderAligned == TypeOK /\ DirectIoAligned /\ FileHeaderCheck => DirectIoAligned'
<1> SUFFICES ASSUME TypeOK, DirectIoAligned, FileHeaderCheck PROVE DirectIoAligned'
  OBVIOUS
<1>1. ring.idx \in Files /\ file \in [Files -> FileType]
  BY DEF TypeOK, FileTypes, RingType
<1>2. UNCHANGED <<page, pgOffset, cached>>
  BY DEF FileHeaderCheck
<1>3. FileSteps
  <2>1. CASE IsVoid(file[ring.idx])
    <3>1. file' = [file EXCEPT ![ring.idx] = [Submit(@, SblkDblks) EXCEPT !.fhdr = TRUE]]
      BY <2>1 DEF FileHeaderCheck, WriteFileHeader
    <3>2. \A fc \in FileType :
              [Submit(fc, SblkDblks) EXCEPT !.fhdr = TRUE].subm = fc.subm + SblkDblks
      BY DEF Submit, FileType
    <3> QED BY <1>1, <3>1, <3>2 DEF FileSteps
  <2>2. CASE ~IsVoid(file[ring.idx])
    BY <2>2 DEF FileHeaderCheck, FileSteps
  <2> QED BY <2>1, <2>2
<1> QED BY <1>2, <1>3, StaysAligned DEF PageSteps

\* A page that is handed over is padded to a whole sblk.
LEMMA WriteFlushAligned == TypeOK /\ DirectIoAligned /\ WriteFlush => DirectIoAligned'
<1> SUFFICES ASSUME TypeOK, DirectIoAligned, WriteFlush PROVE DirectIoAligned'
  OBVIOUS
<1> DEFINE n == RoundUp(cached)
           offset == pgOffset + n - cached
           next == (pgIndex + 1) % NumPages
           sent == [page EXCEPT ![pgIndex] =
                        [@ EXCEPT !.st = "AIO_PENDING", !.wd = n, !.wfh = ring.idx]]
<1>1. /\ page \in [Pages -> PageType] /\ pgIndex \in Pages /\ ring.idx \in Files
      /\ file \in [Files -> FileType] /\ pgOffset \in Nat /\ cached \in 0 .. pgOffset
  <2>1. pgOffset \in 0 .. PageDblks /\ cached \in 0 .. pgOffset
    BY DEF TypeOK, PageTypes
  <2> QED BY <2>1, SizesInNat DEF TypeOK, FileTypes, RingType, PageTypes
<1>2. \/ UNCHANGED <<file, page, pgOffset, cached>>
      \/ /\ file' = [file EXCEPT ![ring.idx] = Submit(@, n)]
         /\ page' = [sent EXCEPT ![next].st = IF @ = "UNUSED" THEN "IN_USE" ELSE @]
         /\ pgOffset' \in {0, offset}
         /\ cached' = 0
  BY DEF WriteFlush, SubmitPage, fileVars, pageVars
<1>3. n \in Nat /\ Aligned(n)
  BY <1>1, RoundUpNat, AlignedNumbers
<1> HIDE DEF n
<1>4. CASE UNCHANGED <<file, page, pgOffset, cached>>
  BY <1>4 DEF DirectIoAligned, Aligned
<1>5. CASE /\ file' = [file EXCEPT ![ring.idx] = Submit(@, n)]
           /\ page' = [sent EXCEPT ![next].st = IF @ = "UNUSED" THEN "IN_USE" ELSE @]
           /\ pgOffset' \in {0, offset}
           /\ cached' = 0
  <2>1. Aligned(pgOffset' - cached')
    <3>1. offset = (pgOffset - cached) + n /\ pgOffset - cached \in Nat
      BY <1>1, <1>3
    <3>2. Aligned(offset)
      BY <1>3, <3>1, AlignedNumbers DEF DirectIoAligned
    <3>3. pgOffset' - cached' = pgOffset'
      BY <1>1, <1>3, <1>5, <3>1
    <3> QED BY <1>5, <3>2, <3>3, AlignedNumbers
  <2>2. ASSUME NEW p \in Pages PROVE Aligned(page'[p].wd)
    <3>1. sent[p].wd = IF p = pgIndex THEN n ELSE page[p].wd
      BY <1>1 DEF PageType
    <3>2. page'[p].wd = sent[p].wd
      BY <1>1, <1>5 DEF PageType
    <3> QED BY <1>3, <3>1, <3>2 DEF DirectIoAligned
  <2>3. ASSUME NEW f \in Files PROVE Aligned(file'[f].subm)
    <3>1. file[f].subm \in Nat /\ Aligned(file[f].subm)
      BY <1>1 DEF FileType, DirectIoAligned
    <3>2. file'[f].subm \in {file[f].subm, file[f].subm + n}
      BY <1>1, <1>5 DEF Submit, FileType
    <3> QED BY <1>3, <3>1, <3>2, AlignedNumbers
  <2> QED BY <2>1, <2>2, <2>3 DEF DirectIoAligned, Aligned
<1> QED BY <1>2, <1>4, <1>5

\* A completion moves no position.
LEMMA KernelAligned == TypeOK /\ DirectIoAligned /\ Kernel => DirectIoAligned'
<1> SUFFICES ASSUME TypeOK, DirectIoAligned, Kernel PROVE DirectIoAligned'
  OBVIOUS
<1>1. file \in [Files -> FileType] /\ page \in [Pages -> PageType]
  BY DEF TypeOK, FileTypes, PageTypes
<1>2. UNCHANGED <<pgOffset, cached>>
  BY DEF Kernel, ReapPage, ReapHeader
<1>3. FileSteps
  <2>1. \A fc \in FileType : \A n : /\ Complete(fc, n).subm = fc.subm
                                /\ [Complete(fc, n) EXCEPT !.fhdr = FALSE].subm = fc.subm
    BY DEF Complete, FileType
  <2>2. \/ file' = file
        \/ \E g, n : file' = [file EXCEPT ![g] = Complete(@, n)]
        \/ \E g, n : file' = [file EXCEPT ![g] = [Complete(@, n) EXCEPT !.fhdr = FALSE]]
    BY DEF Kernel, ReapPage, ReapHeader
  <2>3. ASSUME NEW g, NEW n, file' = [file EXCEPT ![g] = Complete(@, n)] PROVE FileSteps
    BY <1>1, <2>1, <2>3 DEF FileSteps
  <2>4. ASSUME NEW g, NEW n,
               file' = [file EXCEPT ![g] = [Complete(@, n) EXCEPT !.fhdr = FALSE]]
        PROVE  FileSteps
    BY <1>1, <2>1, <2>4 DEF FileSteps
  <2> QED BY <2>2, <2>3, <2>4 DEF FileSteps
<1>4. PageSteps
  <2>1. page' = page \/ \E p \in Pages : page' = [page EXCEPT ![p] = FreePage]
    BY DEF Kernel, ReapPage, ReapHeader
  <2> QED BY <1>1, <2>1 DEF PageSteps, FreePage
<1> QED BY <1>2, <1>3, <1>4, StaysAligned

\* Whatever sizes are enqueued and flushed, every write begins and ends on an sblk
\* boundary of its page and of its file, as O_DIRECT demands: dblk_roundup() pads what
\* is flushed, and the next record goes on behind the padding.
THEOREM DirectIoAlignedAlways == Spec => []DirectIoAligned
<1>1. Init => TypeOK /\ DirectIoAligned
  BY InitType, AlignedNumbers DEF Init, DirectIoAligned, NewFile, FreePage
<1>2. TypeOK /\ DirectIoAligned /\ [Next]_vars => TypeOK' /\ DirectIoAligned'
  <2> SUFFICES ASSUME TypeOK, DirectIoAligned, [Next]_vars PROVE DirectIoAligned'
    BY NextType
  <2>1. CASE Next
    BY <2>1, QuietAligned, HeaderAligned, WriteFlushAligned, KernelAligned DEF Next, Holder
  <2>2. CASE UNCHANGED vars
    BY <2>2 DEF vars, fileVars, pageVars, DirectIoAligned, Aligned
  <2> QED BY <2>1, <2>2
<1> QED BY <1>1, <1>2, PTL DEF Spec

-----------------------------------------------------------------------------
(* What the cache holds while a call is under way.                         *)

\* A record has a size, and as long as it is not whole some of it is to be copied.
SizeOf(r) ==
    /\ tok[r].kind # "none" => tok[r].size > 0
    /\ ~(op.pc = "complete" /\ op.rid = r) =>
           /\ tok[r].st = "NONE" => tok[r].written = 0
           /\ tok[r].st = "PART" => tok[r].written < tok[r].size
SizeInv == \A r \in Rids : SizeOf(r)

\* Records on the page being filled are dblks not handed to the kernel.
CurrentUse == page[pgIndex].st = "IN_USE" /\ page[pgIndex].toks # {} => cached > 0

\* A call has no result before it ends.  When it has to wait for a file, or has
\* flushed, nothing is left in the cache.
FlushedOut(o) == \/ o.pc \in {"reap", "wait"}
                 \/ o.pc = "exit" /\ (o.kind = "flush" \/ o.res \in {"FILE_AIOWAIT", "AIOCMPLWAIT"})
ResultInv ==
    /\ op.pc \notin {"exit", "wait"} => op.res = "SUCCESS"
    /\ fault = "none" /\ FlushedOut(op) => cached = 0

CopyInv == SizeInv /\ CurrentUse /\ ResultInv

\* The tokens of a step that copies nothing: those of a call given up are cleared.
LEMMA SizeKept ==
    ASSUME SizeInv,
           \A r \in Rids : \/ tok'[r] = NoTok
                           \/ /\ tok'[r].kind = tok[r].kind /\ tok'[r].size = tok[r].size
                              /\ tok'[r].written = tok[r].written
                              /\ tok'[r].st = tok[r].st \/ tok'[r].st \in Whole,
           op.pc = "complete" => tok'[op.rid].st \in Whole
    PROVE  SizeInv'
<1> SUFFICES ASSUME NEW r \in Rids PROVE SizeOf(r)'
  BY DEF SizeInv
<1>1. CASE tok'[r] = NoTok
  BY <1>1 DEF SizeOf, NoTok
<1>2. CASE tok'[r] # NoTok
  BY <1>2 DEF SizeInv, SizeOf, Whole
<1> QED BY <1>1, <1>2

\* The current page of a step that copies and submits nothing.
LEMMA CurrentKept ==
    ASSUME PageUse, pgIndex \in Pages, CurrentUse, cached' = cached, pgIndex' = pgIndex,
           \/ page'[pgIndex].st # "IN_USE"
           \/ page'[pgIndex].toks = page[pgIndex].toks
              /\ (page[pgIndex].st = "UNUSED" \/ page'[pgIndex].st = page[pgIndex].st)
    PROVE  CurrentUse'
BY DEF CurrentUse, PageUse

\* Nothing is cached yet.
LEMMA InitCopy == Init => CopyInv
<1> SUFFICES ASSUME Init PROVE CopyInv
  OBVIOUS
<1>1. SizeInv
  BY DEF Init, SizeInv, SizeOf, NoTok
<1>2. CurrentUse
  <2>1. 0 \in Pages
    BY WmgrAssumption DEF Pages
  <2>2. page[pgIndex].toks = {}
    BY <2>1 DEF Init, FreePage
  <2> QED BY <2>2 DEF CurrentUse
<1>3. ResultInv
  BY DEF Init, ResultInv, FlushedOut, NoOp
<1> QED BY <1>1, <1>2, <1>3 DEF CopyInv

\* A call starts: its record has the size the broker gave it, and nothing is copied.
LEMMA CallerCopy == AioInv /\ CopyInv /\ Caller => CopyInv'
<1> SUFFICES ASSUME AioInv, CopyInv, Caller PROVE CopyInv'
  OBVIOUS
<1>1. /\ TypeOK /\ PageUse /\ pgIndex \in Pages /\ op.pc = "idle"
      /\ SizeInv /\ CurrentUse /\ UNCHANGED <<page, pgIndex, cached>>
  BY DEF AioInv, MapsInv, UseInv, CopyInv, TypeOK, PageTypes, Caller, CallEnqueue, CallDequeue,
         CallEnd, NewCall, Retry, CallFlush, At, pageVars
<1>2. /\ op'.pc \in {"check", "flush"} /\ op'.res = "SUCCESS"
  BY DEF Caller, CallEnqueue, CallDequeue, CallEnd, NewCall, Retry, CallFlush, Start, NoOp
<1>3. SizeInv'
  <2>1. ASSUME NEW k \in Kinds, NEW r \in Rids, NEW x \in Xids \cup {NoXid},
               NEW d \in Rids \cup {NoRid}, NEW n \in Nat \ {0}, NewCall(k, r, x, d, n)
        PROVE  SizeInv'
    <3>1. tok' = [tok EXCEPT ![r] = NewTok(k, x, d, n)] /\ tok \in [Rids -> TokType]
      BY <1>1, <2>1 DEF NewCall, TypeOK, CallTypes
    <3>2. tok'[r] = NewTok(k, x, d, n) /\ \A s \in Rids \ {r} : tok'[s] = tok[s]
      BY <3>1
    <3>3. NewTok(k, x, d, n).st = "NONE" /\ NewTok(k, x, d, n).size = n
          /\ NewTok(k, x, d, n).written = 0
      BY NewTokType
    <3> QED BY <1>1, <1>2, <3>2, <3>3 DEF SizeInv, SizeOf
  <2>2. CASE tok' = tok
    BY <1>1, <2>2 DEF SizeInv, SizeOf
  <2>3. \/ tok' = tok
        \/ \E k \in Kinds, r \in Rids, x \in Xids \cup {NoXid}, d \in Rids \cup {NoRid},
              n \in Nat \ {0} : NewCall(k, r, x, d, n)
    <3> DEFINE Starts == \E k \in Kinds, r \in Rids, x \in Xids \cup {NoXid},
                            d \in Rids \cup {NoRid}, n \in Nat \ {0} : NewCall(k, r, x, d, n)
    <3>1. ASSUME NEW r \in Rids, CallEnqueue(r) PROVE Starts
      <4>1. PICK x \in Xids \cup {NoXid}, n \in EnqSizes : NewCall("enq", r, x, NoRid, n)
        BY <3>1 DEF CallEnqueue
      <4> QED BY <4>1, WmgrAssumption DEF Kinds
    <3>2. ASSUME NEW r \in Rids, CallDequeue(r) PROVE Starts
      <4>1. PICK x \in Xids \cup {NoXid}, d \in Rids : NewCall("deq", r, x, d, CtlDblks)
        BY <3>2 DEF CallDequeue
      <4> QED BY <4>1, WmgrAssumption DEF Kinds
    <3>3. ASSUME NEW r \in Rids, CallEnd(r) PROVE Starts
      <4>1. PICK k \in {"abort", "commit"}, x \in Xids : NewCall(k, r, x, NoRid, CtlDblks)
        BY <3>3 DEF CallEnd
      <4> QED BY <4>1, WmgrAssumption DEF Kinds
    <3>4. (\E r \in Rids : Retry(r)) \/ CallFlush => tok' = tok
      BY DEF Retry, CallFlush
    <3> QED BY <3>1, <3>2, <3>3, <3>4 DEF Caller
  <2> QED BY <2>1, <2>2, <2>3
<1>4. CurrentUse'
  BY <1>1 DEF CurrentUse
<1>5. ResultInv'
  BY <1>2 DEF ResultInv, FlushedOut
<1> QED BY <1>3, <1>4, <1>5 DEF CopyInv

\* The checks.
LEMMA CheckCopy == AioInv /\ CopyInv /\ Check => CopyInv'
<1> SUFFICES ASSUME AioInv, CopyInv, Check PROVE CopyInv'
  OBVIOUS
<1>1. /\ TypeOK /\ PageUse /\ pgIndex \in Pages /\ op.pc = "check" /\ op \in OpType
      /\ SizeInv /\ CurrentUse /\ op.res = "SUCCESS" /\ op.kind \in Kinds
      /\ tok' = tok /\ UNCHANGED <<pgIndex, cached>>
      /\ page' = page \/ page' = OpenPage(page)
  BY OpKinds
     DEF AioInv, MapsInv, UseInv, CopyInv, ResultInv, TypeOK, PageTypes, CallTypes, Check,
         CheckBusy, CheckFull, CheckPage, CheckRefused, CheckOk, PageChecked, FileChecked, At,
         pageVars
<1>2. /\ op'.kind = op.kind /\ op'.pc \in {"encode", "exit"}
      /\ op'.pc = "encode" => op'.res = "SUCCESS"
      /\ op'.res \notin {"FILE_AIOWAIT", "AIOCMPLWAIT"}
  <2>1. CASE CheckOk
    <3>1. op' = [op EXCEPT !.pc = "encode"]
      BY <2>1 DEF CheckOk, Goto
    <3> QED BY <1>1, <3>1, OpAfter
  <2>2. CASE ~CheckOk
    <3>1. PICK res \in {"BUSY", "FULL", "PAGE_AIOWAIT", "ENQCAPTHRESH", "ENQDISCONT", "DEQREFUSED"} :
              op' = [op EXCEPT !.pc = "exit", !.res = res]
      BY <2>2 DEF Check, CheckBusy, CheckFull, CheckPage, CheckRefused, Return
    <3> QED BY <1>1, <3>1, OpAfter
  <2> QED BY <2>1, <2>2
<1>3. SizeInv'
  BY <1>1, SizeKept
<1>4. CurrentUse'
  <2>1. PageOpened(pgIndex)
    BY <1>1, OpensPage DEF PageOpened
  <2> QED BY <1>1, <2>1, CurrentKept DEF PageOpened
<1>5. ResultInv'
  BY <1>1, <1>2 DEF ResultInv, FlushedOut, Kinds
<1> QED BY <1>3, <1>4, <1>5 DEF CopyInv

\* A turn of the copy loop always copies something.
LEMMA EncodeCopy == AioInv /\ CopyInv /\ Encode => CopyInv' /\ cached' > 0
<1> SUFFICES ASSUME AioInv, CopyInv, Encode PROVE CopyInv' /\ cached' > 0
  OBVIOUS
<1> DEFINE room == PageDblks - pgOffset
           left == T.size - T.written
           n    == IF left < room THEN left ELSE room
           t    == [T EXCEPT !.fid     = IF T.written = 0 THEN ring.idx ELSE T.fid,
                             !.written = T.written + n,
                             !.pgs     = T.pgs + 1,
                             !.span    = T.span \cup {ring.idx},
                             !.st      = IF n = left THEN T.st ELSE "PART"]
           pc   == IF n = left THEN "complete" ELSE "header"
<1>1. /\ TypeOK /\ UseInv /\ MapInv /\ op \in OpType /\ SizeInv /\ ResultInv
      /\ op.pc = "encode" /\ fault = "none" /\ pgIndex' = pgIndex
  BY DEF AioInv, MapsInv, CopyInv, TypeOK, CallTypes, Encode, At
<1>2. /\ op.rid \in Rids /\ op.kind \in Kinds /\ T \in TokType /\ T = tok[op.rid]
      /\ T.kind = op.kind /\ tok \in [Rids -> TokType]
      /\ pgOffset \in 0 .. PageDblks /\ cached \in 0 .. pgOffset /\ PageDblks \in Nat
      /\ T.size \in Nat /\ T.written \in Nat
  <2>1. op.rid \in Rids /\ op.kind \in Kinds /\ T \in TokType /\ T.kind = op.kind
    BY <1>1, OpKinds
  <2> QED BY <1>1, <2>1, SizesInNat DEF TypeOK, CallTypes, PageTypes, TokType, T
<1>3. pgOffset # PageDblks
  BY <1>1, NotFull
<1>4. T.written < T.size
  <2>1. T.st \in {"NONE", "PART"}
    BY <1>1, <1>2 DEF MapInv, TokInv, CallInv, TokType, Whole
  <2>2. SizeOf(op.rid)
    BY <1>1, <1>2 DEF SizeInv
  <2>3. T.kind # "none"
    BY <1>2 DEF Kinds
  <2> QED BY <1>1, <1>2, <2>1, <2>2, <2>3 DEF SizeOf
<1>5. n \in Nat /\ n > 0 /\ n <= left /\ cached \in Nat
  BY <1>2, <1>3, <1>4
<1>6. /\ tok' = [tok EXCEPT ![op.rid] = t] /\ cached' = cached + n
      /\ op' = [op EXCEPT !.pc = pc]
  BY DEF Encode, Goto
<1>7. /\ t.kind = T.kind /\ t.size = T.size /\ t.written = T.written + n
      /\ n # left => t.st = "PART"
  BY <1>2 DEF TokType
<1>8. n # left => T.written + n < T.size
  BY <1>2, <1>5
<1>9. op'.pc = pc /\ op'.rid = op.rid /\ op'.kind = op.kind /\ op'.res = "SUCCESS"
  <2> HIDE DEF pc
  <2> QED BY <1>1, <1>6, OpAfter DEF ResultInv
<1>10. cached' > 0
  <2> HIDE DEF n
  <2> QED BY <1>5, <1>6
<1>11. \A r \in Rids \ {op.rid} : tok'[r] = tok[r]
  BY <1>2, <1>6
<1>12. tok'[op.rid] = t
  BY <1>2, <1>6
<1> HIDE DEF t
<1>13. SizeInv'
  <2> SUFFICES ASSUME NEW r \in Rids PROVE SizeOf(r)'
    BY DEF SizeInv
  <2>1. CASE r # op.rid
    BY <1>1, <1>11, <2>1 DEF SizeInv, SizeOf
  <2>2. CASE r = op.rid
    <3>1. t.kind # "none" => t.size > 0
      BY <1>1, <1>2, <1>7 DEF SizeInv, SizeOf
    <3>2. op'.pc # "complete" => t.st = "PART" /\ t.written < t.size
      BY <1>7, <1>8, <1>9
    <3> QED BY <1>9, <1>12, <2>2, <3>1, <3>2 DEF SizeOf
  <2> QED BY <2>1, <2>2
<1>14. CurrentUse'
  BY <1>10 DEF CurrentUse
<1>15. ResultInv'
  BY <1>9 DEF ResultInv, FlushedOut
<1> QED BY <1>10, <1>13, <1>14, <1>15 DEF CopyInv

\* The record is whole, and a file gets its header.
LEMMA RecordCopy == AioInv /\ CopyInv /\ (Record \/ FileHeaderCheck) => CopyInv'
<1> SUFFICES ASSUME AioInv, CopyInv, Record \/ FileHeaderCheck PROVE CopyInv'
  OBVIOUS
<1>1. /\ TypeOK /\ MapInv /\ BusyInv /\ op \in OpType /\ SizeInv /\ CurrentUse /\ ResultInv
      /\ UNCHANGED <<page, pgIndex, cached>> /\ op.pc \in {"complete", "header"}
  BY DEF AioInv, MapsInv, CopyInv, TypeOK, CallTypes, Record, EnqueueTxn, EnqueueNonTxn,
         DequeueTxn, DequeueNonTxn, AbortTxn, CommitTxn, CloseTxn, Recorded, FileHeaderCheck,
         At, pageVars
<1>2. /\ op'.kind = op.kind /\ op'.res = "SUCCESS" /\ op'.pc \in {"header", "flush", "exit"}
      /\ op.kind \in Kinds
  <2>1. op.res = "SUCCESS" /\ op.kind \in Kinds
    BY <1>1, OpKinds DEF ResultInv
  <2>2. CASE Record
    <3>1. op' = [op EXCEPT !.pc = "header", !.done = TRUE]
      BY <2>2 DEF Record, EnqueueTxn, EnqueueNonTxn, DequeueTxn, DequeueNonTxn, AbortTxn,
                  CommitTxn, CloseTxn, Recorded
    <3> QED BY <1>1, <2>1, <3>1, OpAfter
  <2>3. CASE FileHeaderCheck
    <3>1. PICK pc \in {"flush", "exit"} : op' = [op EXCEPT !.pc = pc]
      BY <2>3 DEF FileHeaderCheck, Goto
    <3> QED BY <1>1, <2>1, <3>1, OpAfter
  <2> QED BY <2>2, <2>3
<1>3. SizeInv'
  <2>1. CASE Record
    <3>1. Recorded
      BY <2>1 DEF Record, EnqueueTxn, EnqueueNonTxn, DequeueTxn, DequeueNonTxn, AbortTxn,
                  CommitTxn, CloseTxn
    <3>2. tok' = [tok EXCEPT ![op.rid].st = "SUBM"] /\ tok \in [Rids -> TokType]
      BY <1>1, <3>1 DEF Recorded, TypeOK, CallTypes
    <3>3. \A r \in Rids : /\ tok'[r].kind = tok[r].kind /\ tok'[r].size = tok[r].size
                          /\ tok'[r].written = tok[r].written
                          /\ tok'[r].st = tok[r].st \/ tok'[r].st \in Whole
      BY <3>2 DEF TokType, Whole
    <3>4. tok'[op.rid].st \in Whole
      BY <1>1, <3>1, RecordFacts DEF Whole
    <3> QED BY <1>1, <3>3, <3>4, SizeKept
  <2>2. CASE FileHeaderCheck
    <3>1. tok' = tok /\ op.pc = "header"
      BY <2>2 DEF FileHeaderCheck, At
    <3> QED BY <1>1, <3>1, SizeKept
  <2> QED BY <2>1, <2>2
<1>4. CurrentUse'
  BY <1>1 DEF CurrentUse
<1>5. ResultInv'
  BY <1>2 DEF ResultInv, FlushedOut, Kinds
<1> QED BY <1>3, <1>4, <1>5 DEF CopyInv

\* write_flush(): the page goes to the kernel with all that is cached.
LEMMA WriteFlushCopy == AioInv /\ CopyInv /\ WriteFlush => CopyInv'
<1> SUFFICES ASSUME AioInv, CopyInv, WriteFlush PROVE CopyInv'
  OBVIOUS
<1>1. /\ TypeOK /\ PageInv /\ PageUse /\ op \in OpType /\ SizeInv /\ CurrentUse /\ ResultInv
      /\ op.pc = "flush" /\ fault = "none" /\ tok' = tok
      /\ page \in [Pages -> PageType] /\ pgIndex \in Pages /\ cached \in Nat
  <2>1. cached \in 0 .. pgOffset /\ pgOffset \in 0 .. PageDblks
    BY DEF AioInv, MapsInv, TypeOK, PageTypes
  <2> QED BY <2>1, SizesInNat
          DEF AioInv, MapsInv, UseInv, CopyInv, TypeOK, CallTypes, PageTypes, WriteFlush, At
<1>2. ~(cached > 0 /\ PageBlocked)
  BY <1>1 DEF PageInv, PageBlocked
<1>3. op' = [op EXCEPT !.pc = "reap", !.res = op.res]
  BY <1>2 DEF WriteFlush
<1>4. op'.pc = "reap" /\ op'.res = "SUCCESS" /\ op'.kind = op.kind
  BY <1>1, <1>3, OpAfter DEF ResultInv
<1>5. SizeInv'
  BY <1>1, SizeKept
<1>6. CASE cached = 0
  <2>1. UNCHANGED <<page, pgIndex, cached>>
    BY <1>6 DEF WriteFlush, pageVars
  <2> QED BY <1>1, <1>4, <1>5, <1>6, <2>1 DEF CopyInv, CurrentUse, ResultInv
<1>7. CASE cached > 0
  <2>1. SubmitPage
    BY <1>2, <1>7 DEF WriteFlush
  <2>2. CASE fault' # "none"
    <3>1. UNCHANGED <<page, pgIndex, cached>>
      BY <1>1, <2>1, <2>2 DEF SubmitPage, pageVars
    <3> QED BY <1>1, <1>4, <1>5, <2>2, <3>1 DEF CopyInv, CurrentUse, ResultInv
  <2>3. CASE fault' = "none"
    <3> DEFINE next == (pgIndex + 1) % NumPages
               sent == [page EXCEPT ![pgIndex] =
                   [@ EXCEPT !.st = "AIO_PENDING", !.wd = RoundUp(cached), !.wfh = ring.idx]]
    <3>1. /\ page' = [sent EXCEPT ![next].st = IF @ = "UNUSED" THEN "IN_USE" ELSE @]
          /\ pgIndex' = next /\ cached' = 0
      BY <2>1, <2>3 DEF SubmitPage, Throw
    <3>2. next \in Pages
      BY <1>1, NextPageInPages
    <3>3. CurrentUse'
      <4> HIDE DEF next
      <4>1. page'[next] = [sent[next] EXCEPT !.st = IF @ = "UNUSED" THEN "IN_USE" ELSE @]
        BY <1>1, <3>1, <3>2
      <4>2. CASE next = pgIndex
        <5>1. sent[next].st = "AIO_PENDING"
          BY <1>1, <4>2 DEF PageType
        <5>2. page'[next].st = "AIO_PENDING"
          BY <1>1, <4>1, <4>2, <5>1 DEF PageType
        <5> QED BY <3>1, <5>2 DEF CurrentUse
      <4>3. CASE next # pgIndex
        <5>1. sent[next] = page[next] /\ page[next] \in PageType
          BY <1>1, <3>2, <4>3
        <5>2. page'[next].toks = page[next].toks
              /\ (page'[next].st = "IN_USE" => page[next].st \in {"UNUSED", "IN_USE"})
          BY <4>1, <5>1 DEF PageType
        <5>3. page[next].st # "IN_USE"
          BY <1>1, <3>2, <4>3 DEF PageUse
        <5> QED BY <1>1, <3>1, <3>2, <5>2, <5>3 DEF CurrentUse, PageUse
      <4> QED BY <4>2, <4>3
    <3> QED BY <1>4, <1>5, <3>1, <3>3 DEF CopyInv, ResultInv
  <2> QED BY <2>2, <2>3
<1> QED BY <1>1, <1>6, <1>7

\* flush_check(): the call goes on without a result, or ends with nothing cached.
LEMMA FlushCheckCopy == AioInv /\ CopyInv /\ FlushCheck => CopyInv'
<1> SUFFICES ASSUME AioInv, CopyInv, FlushCheck PROVE CopyInv'
  OBVIOUS
<1> DEFINE pageWait == PageBlocked /\ ~op.done
           rotate   == pgCntr >= FilePages
           rotated  == RotateResult(ring, file)
           res      == IF rotate /\ rotated # "SUCCESS" THEN rotated
                       ELSE IF pageWait THEN "PAGE_AIOWAIT" ELSE op.res
           stop     == op.done \/ pageWait \/ (rotate /\ rotated # "SUCCESS")
           pc       == IF stop THEN "exit" ELSE "encode"
<1>1. /\ TypeOK /\ PageUse /\ op \in OpType /\ SizeInv /\ CurrentUse /\ op.res = "SUCCESS"
      /\ op.pc = "reap" /\ cached = 0 /\ pgIndex \in Pages /\ page' = OpenPage(page)
      /\ UNCHANGED <<tok, pgIndex, cached>> /\ op' = [op EXCEPT !.pc = pc, !.res = res]
  BY DEF AioInv, MapsInv, UseInv, CopyInv, ResultInv, FlushedOut, TypeOK, CallTypes, PageTypes,
         FlushCheck, At
<1>2. pc = "exit" \/ (pc = "encode" /\ res = "SUCCESS")
  BY <1>1
<1>3. op'.pc = pc /\ op'.res = res
  <2> HIDE DEF pc, res
  <2> QED BY <1>1, OpAfter
<1>4. SizeInv'
  BY <1>1, SizeKept
<1>5. CurrentUse'
  <2>1. PageOpened(pgIndex)
    BY <1>1, OpensPage
  <2> QED BY <1>1, <2>1, CurrentKept DEF PageOpened
<1> HIDE DEF pageWait, rotate, rotated, res, stop, pc
<1> QED BY <1>1, <1>2, <1>3, <1>4, <1>5 DEF CopyInv, ResultInv

\* The end of a call, and its waits: a call that waits has nothing cached.
LEMMA ExitCopy == AioInv /\ CopyInv /\ (Exit \/ Wait \/ WaitTimeout) => CopyInv'
<1> SUFFICES ASSUME AioInv, CopyInv, Exit \/ Wait \/ WaitTimeout PROVE CopyInv'
  OBVIOUS
<1>1. /\ TypeOK /\ PageInv /\ op \in OpType /\ SizeInv /\ CurrentUse /\ ResultInv
      /\ op.pc \in {"exit", "wait"} /\ fault = "none" /\ cached \in Nat
      /\ UNCHANGED <<page, pgIndex, cached>>
  <2>1. cached \in 0 .. pgOffset /\ pgOffset \in 0 .. PageDblks
    BY DEF AioInv, MapsInv, TypeOK, PageTypes
  <2> QED BY <2>1, SizesInNat
          DEF AioInv, MapsInv, CopyInv, TypeOK, CallTypes, PageTypes, Exit, Wait, WaitPage,
              WaitFile, WaitTimeout, At, pageVars
<1>2. \A r \in Rids : tok'[r] = tok[r] \/ tok'[r] = NoTok
  BY <1>1 DEF TypeOK, CallTypes, Exit, Wait, WaitPage, WaitFile, WaitTimeout
<1>3. SizeInv'
  BY <1>1, <1>2, SizeKept
<1>4. CurrentUse'
  BY <1>1 DEF CurrentUse
<1>5. ResultInv'
  <2>1. \/ op' = NoOp
        \/ op' = [NoOp EXCEPT !.pc = "check", !.kind = op.kind, !.rid = op.rid]
        \/ /\ op' = [op EXCEPT !.pc = "wait"]
           /\ op.pc = "exit" /\ op.res \in {"PAGE_AIOWAIT", "FILE_AIOWAIT"}
        \/ op' = [op EXCEPT !.pc = "exit", !.res = "AIOCMPLWAIT"] /\ op.pc = "wait"
    BY DEF Exit, Wait, WaitPage, WaitFile, WaitTimeout, Goto, Start, Return, At
  <2>2. CASE op' = NoOp
    BY <2>2 DEF NoOp, ResultInv, FlushedOut
  <2>3. CASE op' = [NoOp EXCEPT !.pc = "check", !.kind = op.kind, !.rid = op.rid]
    <3>1. op'.pc = "check" /\ op'.res = "SUCCESS"
      BY <2>3, OpNew
    <3> QED BY <3>1 DEF ResultInv, FlushedOut
  <2>4. CASE /\ op' = [op EXCEPT !.pc = "wait"]
             /\ op.pc = "exit" /\ op.res \in {"PAGE_AIOWAIT", "FILE_AIOWAIT"}
    <3>1. op'.pc = "wait"
      BY <1>1, <2>4, OpAfter
    <3>2. cached = 0
      BY <1>1, <2>4 DEF ResultInv, FlushedOut, PageInv
    <3> QED BY <1>1, <3>1, <3>2 DEF ResultInv
  <2>5. CASE op' = [op EXCEPT !.pc = "exit", !.res = "AIOCMPLWAIT"] /\ op.pc = "wait"
    <3>1. op'.pc = "exit"
      BY <1>1, <2>5, OpAfter
    <3>2. cached = 0
      BY <1>1, <2>5 DEF ResultInv, FlushedOut
    <3> QED BY <1>1, <3>1, <3>2 DEF ResultInv
  <2> QED BY <2>1, <2>2, <2>3, <2>4, <2>5
<1> QED BY <1>3, <1>4, <1>5 DEF CopyInv

\* get_events() never takes anything off the page being filled.
LEMMA KernelCopy == AioInv /\ CopyInv /\ Kernel => CopyInv'
<1> SUFFICES ASSUME AioInv, CopyInv, Kernel PROVE CopyInv'
  OBVIOUS
<1>1. /\ TypeOK /\ MapInv /\ PageUse /\ TokenUse /\ AioAccounted /\ SizeInv /\ CurrentUse
      /\ ResultInv /\ page \in [Pages -> PageType] /\ pgIndex \in Pages
      /\ tok \in [Rids -> TokType]
  BY DEF AioInv, MapsInv, UseInv, CopyInv, TypeOK, PageTypes, CallTypes
<1>2. ASSUME NEW p \in Pages, ReapPage(p) PROVE CopyInv'
  <2>1. /\ fault = "none" /\ page[p].st = "AIO_PENDING" /\ page' = [page EXCEPT ![p] = FreePage]
        /\ UNCHANGED <<pgIndex, cached, op>>
        /\ tok' = [r \in Rids |-> IF r \in page[p].toks
              THEN [tok[r] EXCEPT !.pgs = @ - 1, !.st = IF r \in Arrived(p) THEN "COMPL" ELSE @]
              ELSE tok[r]]
    BY <1>1, <1>2, ReapsCleanly
  <2>2. op.pc \in {"idle", "reap", "wait"}
    BY <1>2 DEF ReapPage, Reaping
  <2>3. \A r \in Rids : /\ tok'[r].kind = tok[r].kind /\ tok'[r].size = tok[r].size
                        /\ tok'[r].written = tok[r].written
                        /\ tok'[r].st = tok[r].st \/ tok'[r].st \in Whole
    BY <1>1, <2>1 DEF TokType, Whole
  <2>4. SizeInv'
    BY <1>1, <2>2, <2>3, SizeKept
  <2>5. page'[pgIndex].st # "IN_USE" \/ page'[pgIndex] = page[pgIndex]
    BY <1>1, <2>1 DEF FreePage
  <2>6. CurrentUse'
    BY <1>1, <2>1, <2>5, CurrentKept
  <2> QED BY <1>1, <2>1, <2>4, <2>6 DEF CopyInv, ResultInv
<1>3. ASSUME NEW f \in Files, ReapHeader(f) PROVE CopyInv'
  <2>1. fault = "none" /\ UNCHANGED <<page, pgIndex, cached, op, tok>>
    BY <1>3 DEF ReapHeader, Reaping
  <2> QED BY <1>1, <2>1 DEF CopyInv, SizeInv, SizeOf, CurrentUse, ResultInv
<1> QED BY <1>2, <1>3 DEF Kernel

\* Every step.
LEMMA NextCopy == AioInv /\ CopyInv /\ [Next]_vars => CopyInv'
<1> SUFFICES ASSUME AioInv, CopyInv, [Next]_vars PROVE CopyInv'
  OBVIOUS
<1>1. CASE Next
  BY <1>1, CallerCopy, CheckCopy, EncodeCopy, RecordCopy, WriteFlushCopy, FlushCheckCopy,
     ExitCopy, KernelCopy DEF Next, Holder
<1>2. CASE UNCHANGED vars
  BY <1>2 DEF vars, pageVars, CopyInv, SizeInv, SizeOf, CurrentUse, ResultInv
<1> QED BY <1>1, <1>2

-----------------------------------------------------------------------------
(* No file is written past its end.                                        *)

\* A call that copies or writes a record.
Going == op.kind \in Kinds /\ op.pc \in {"encode", "complete", "header", "flush", "reap"}

\* A full file is left before anything else is written.
CntrInv == op.pc # "reap" => pgCntr < FilePages

\* What is cached, and what is being copied, goes to a file that was reset.
ReadyInv == cached > 0 \/ Going => ring.resetOk

\* A flush never leaves the ring at a file with writes in flight.
FlushInv == op.kind = "flush" =>
    /\ op.pc \in {"flush", "reap"} => file[After(ring.idx, 1)].aio = 0
    /\ op.res # "FILE_AIOWAIT"

\* The current file holds at most its header and the pages put into it; but while a
\* call waits for a file, _reset_ok may stand for the file before.
RoomInv == ring.resetOk /\ op.res # "FILE_AIOWAIT" =>
    file[ring.idx].subm <= SblkDblks + pgCntr * PageDblks + pgOffset - cached

RingInv == fault = "none" /\ CntrInv /\ ReadyInv /\ FlushInv /\ RoomInv

\* A page that starts on an sblk boundary has room for what is cached and its padding.
LEMMA RoundUpFits ==
    ASSUME NEW a \in Nat, NEW c \in Nat, Aligned(a), a + c <= PageDblks
    PROVE  a + RoundUp(c) <= PageDblks
<1>1. SblkDblks \in Nat \ {0} /\ PageDblks \in Nat /\ PageDblks % SblkDblks = 0
  BY RingAssumption, WmgrAssumption
<1>3. \A i, k \in Nat : \A s \in Nat \ {0} : i < (k + 1) * s => i \div s <= k
  <2> SUFFICES ASSUME NEW i \in Nat, NEW k \in Nat, NEW s \in Nat \ {0}, i < (k + 1) * s,
                      i \div s > k
               PROVE  FALSE
    BY SMT
  <2>1. i >= s * (i \div s) /\ i \div s \in Nat
    BY SMT
  <2> DEFINE q == i \div s
  <2>2. q >= k + 1 /\ q \in Nat /\ i >= s * q
    BY <2>1
  <2> HIDE DEF q
  <2>3. s * q >= s * (k + 1)
    BY <2>2
  <2> QED BY <2>2, <2>3
<1>4. PICK j \in Nat : a = j * SblkDblks
  BY <1>1, Multiple DEF Aligned
<1>5. PICK k \in Nat : PageDblks = k * SblkDblks
  BY <1>1, Multiple
<1>6. PICK m \in Nat : k = j + m
  <2>1. j <= k
    BY <1>1, <1>4, <1>5
  <2>2. k - j \in Nat /\ k = j + (k - j)
    BY <2>1
  <2> QED BY <2>2
<1>7. c <= m * SblkDblks /\ PageDblks = a + m * SblkDblks
  <2>1. k * SblkDblks = j * SblkDblks + m * SblkDblks
    BY <1>1, <1>6
  <2> QED BY <1>1, <1>4, <1>5, <2>1
<1>8. (c + SblkDblks - 1) \div SblkDblks <= m
  <2>1. c + SblkDblks - 1 \in Nat /\ c + SblkDblks - 1 < (m + 1) * SblkDblks
    BY <1>1, <1>7
  <2> QED BY <1>1, <1>3, <2>1
<1>9. RoundUp(c) <= m * SblkDblks
  <2> DEFINE q == (c + SblkDblks - 1) \div SblkDblks
  <2>1. q \in Nat /\ q <= m /\ RoundUp(c) = q * SblkDblks
    BY <1>1, <1>8 DEF RoundUp
  <2> HIDE DEF q
  <2> QED BY <1>1, <2>1
<1> QED BY <1>1, <1>7, <1>9, RoundUpNat

\* Before the last page of a file there is room for one more.
LEMMA LastPageFits == \A k, n, p \in Nat : k < n => k * p + p <= n * p
<1> TAKE k, n, p \in Nat
<1>1. ASSUME k < n PROVE k * p + p <= n * p
  <2>1. PICK d \in Nat : n = k + 1 + d
    <3>1. n - k - 1 \in Nat /\ n = k + 1 + (n - k - 1)
      BY <1>1
    <3> QED BY <3>1
  <2>2. n * p = k * p + p + d * p /\ d * p \in Nat
    BY <2>1
  <2> QED BY <2>2
<1> QED BY <1>1

\* The facts about files and counters that the steps below work with.
LEMMA RingFacts == TypeOK =>
    /\ file \in [Files -> FileType] /\ ring.idx \in Files /\ ring \in RingType
    /\ After(ring.idx, 1) \in Files /\ After(ring.idx, 1) # ring.idx
    /\ SblkDblks \in Nat /\ PageDblks \in Nat /\ FilePages \in Nat /\ pgCntr * PageDblks \in Nat
    /\ \A f \in Files : file[f].subm \in Nat /\ file[f].aio \in Nat
    /\ pgCntr \in Nat /\ pgOffset \in Nat /\ cached \in Nat /\ cached <= pgOffset
    /\ pgOffset <= PageDblks
<1> SUFFICES ASSUME TypeOK
             PROVE  /\ file \in [Files -> FileType] /\ ring.idx \in Files /\ ring \in RingType
                    /\ After(ring.idx, 1) \in Files /\ After(ring.idx, 1) # ring.idx
                    /\ SblkDblks \in Nat /\ PageDblks \in Nat /\ FilePages \in Nat
                    /\ pgCntr * PageDblks \in Nat
                    /\ \A f \in Files : file[f].subm \in Nat /\ file[f].aio \in Nat
                    /\ pgCntr \in Nat /\ pgOffset \in Nat /\ cached \in Nat /\ cached <= pgOffset
                    /\ pgOffset <= PageDblks
  OBVIOUS
<1>1. file \in [Files -> FileType] /\ ring \in RingType /\ ring.idx \in Files /\ pgCntr \in Nat
      /\ pgOffset \in 0 .. PageDblks /\ cached \in 0 .. pgOffset
  BY DEF TypeOK, FileTypes, RingType, PageTypes
<1>2. SblkDblks \in Nat /\ PageDblks \in Nat /\ FilePages \in Nat /\ NumFiles \in Nat /\ NumFiles >= 2
  BY RingAssumption
<1>3. After(ring.idx, 1) # ring.idx
  BY <1>1, <1>2 DEF After, Files
<1>4. pgCntr * PageDblks \in Nat
  BY <1>1, <1>2
<1>5. \A f \in Files : file[f].subm \in Nat /\ file[f].aio \in Nat
  BY <1>1 DEF FileType
<1>6. pgOffset \in Nat /\ cached \in Nat /\ cached <= pgOffset /\ pgOffset <= PageDblks
  BY <1>1, <1>2
<1> QED BY <1>1, <1>2, <1>3, <1>4, <1>5, <1>6, AfterInFiles

\* Steps that hand nothing over, and stay with the current file.
LEMMA RingKept ==
    ASSUME TypeOK, TypeOK', RingInv, fault' = fault, ring' = ring, pgCntr' = pgCntr,
           pgOffset' - cached' = pgOffset - cached,
           \A f \in Files : file'[f].subm <= file[f].subm /\ file'[f].aio <= file[f].aio
                            /\ file'[f].aio \in Nat /\ file'[f].subm \in Nat,
           op.pc = "reap" => op'.pc = "reap" \/ pgCntr < FilePages,
           cached' > 0 \/ Going' => ring.resetOk,
           op'.kind = "flush" => /\ op.kind = "flush" /\ op'.res # "FILE_AIOWAIT"
                                 /\ op'.pc \in {"flush", "reap"} => op.pc \in {"flush", "reap"},
           op'.res # "FILE_AIOWAIT" => op.res # "FILE_AIOWAIT"
    PROVE  RingInv'
<1>1. fault' = "none" /\ CntrInv'
  BY DEF RingInv, CntrInv
<1>2. ReadyInv'
  BY DEF ReadyInv
<1>3. FlushInv'
  <2>1. After(ring.idx, 1) \in Files /\ \A f \in Files : file[f].aio \in Nat
    BY RingFacts
  <2> QED BY <2>1 DEF RingInv, FlushInv, After
<1>4. RoomInv'
  <2> SUFFICES ASSUME ring.resetOk, op'.res # "FILE_AIOWAIT"
               PROVE  file'[ring.idx].subm <= SblkDblks + pgCntr * PageDblks + pgOffset' - cached'
    BY DEF RoomInv
  <2> DEFINE base == pgCntr * PageDblks
             a    == pgOffset - cached
  <2>1. file[ring.idx].subm <= SblkDblks + pgCntr * PageDblks + pgOffset - cached
    BY DEF RingInv, RoomInv
  <2>2. /\ base \in Nat /\ SblkDblks \in Nat /\ pgOffset \in Nat /\ cached \in Nat
        /\ file[ring.idx].subm \in Nat /\ ring.idx \in Files
    BY RingFacts
  <2>3. file[ring.idx].subm <= SblkDblks + base + a
    BY <2>1, <2>2
  <2>4. file'[ring.idx].subm <= SblkDblks + base + a /\ pgOffset' - cached' = a
    BY <2>2, <2>3
  <2>5. pgOffset' \in Int /\ cached' \in Int
    <3>1. pgOffset' \in 0 .. PageDblks /\ cached' \in 0 .. pgOffset'
      BY DEF TypeOK, PageTypes
    <3> QED BY <3>1, SizesInNat
  <2> QED BY <2>2, <2>4, <2>5
<1> QED BY <1>1, <1>2, <1>3, <1>4 DEF RingInv

\* What fcntl's methods do to the counts that matter here.
LEMMA ResetLowers == TypeOK => \A f, g \in Files :
    LET fs == [file EXCEPT ![f] = WrReset(@)]
    IN  /\ fs[g].subm \in Nat /\ fs[g].subm <= file[g].subm /\ fs[g].aio = file[g].aio
        /\ CanReset(file[f]) => fs[f].subm = 0
<1> SUFFICES ASSUME TypeOK, NEW f \in Files, NEW g \in Files
             PROVE  LET fs == [file EXCEPT ![f] = WrReset(@)]
                    IN  /\ fs[g].subm \in Nat /\ fs[g].subm <= file[g].subm
                        /\ fs[g].aio = file[g].aio
                        /\ CanReset(file[f]) => fs[f].subm = 0
  OBVIOUS
<1>1. file \in [Files -> FileType]
  BY DEF TypeOK, FileTypes
<1>2. \A fc \in FileType : /\ WrReset(fc).subm \in Nat /\ WrReset(fc).subm <= fc.subm
                           /\ WrReset(fc).aio = fc.aio
                           /\ CanReset(fc) => WrReset(fc).subm = 0
  BY DEF WrReset, FileType
<1>3. \A fc \in FileType : fc.subm \in Nat /\ fc.subm <= fc.subm
  BY DEF FileType
<1> QED BY <1>1, <1>2, <1>3

\* A call starts; a flush only when the next file has no write in flight.
LEMMA CallerRing == ~SlowDisk /\ AioInv /\ TypeOK' /\ CopyInv /\ RingInv /\ Caller => RingInv'
<1> SUFFICES ASSUME ~SlowDisk, AioInv, TypeOK', CopyInv, RingInv, Caller PROVE RingInv'
  OBVIOUS
<1>1. /\ TypeOK /\ op.pc = "idle" /\ op.res = "SUCCESS" /\ UNCHANGED <<fileVars, pageVars, fault>>
  BY DEF AioInv, MapsInv, CopyInv, ResultInv, Caller, CallEnqueue, CallDequeue, CallEnd, NewCall,
         Retry, CallFlush, At
<1>2. /\ op'.pc \in {"check", "flush"} /\ op'.res = "SUCCESS"
      /\ op'.pc = "flush" => op'.kind = "flush"
  BY DEF Caller, CallEnqueue, CallDequeue, CallEnd, NewCall, Retry, CallFlush, Start, NoOp
<1>3. op'.kind = "flush" => file[After(ring.idx, 1)].aio = 0
  <2>1. ASSUME ~CallFlush PROVE op'.kind # "flush"
    <3> DEFINE Starts == \E r : \E k \in Kinds :
                  op' = [NoOp EXCEPT !.pc = "check", !.kind = k, !.rid = r]
    <3>1. Starts
      <4>1. ASSUME NEW r \in Rids, CallEnqueue(r) PROVE Starts
        BY <4>1 DEF CallEnqueue, NewCall, Start, Kinds
      <4>2. ASSUME NEW r \in Rids, CallDequeue(r) PROVE Starts
        BY <4>2 DEF CallDequeue, NewCall, Start, Kinds
      <4>3. ASSUME NEW r \in Rids, CallEnd(r) PROVE Starts
        BY <4>3 DEF CallEnd, NewCall, Start, Kinds
      <4>4. ASSUME NEW r \in Rids, Retry(r) PROVE Starts
        <5>1. tok[r].st = "PART"
          BY <4>4 DEF Retry
        <5>2. tok[r].kind \in Kinds
          BY <1>1, <5>1 DEF TypeOK, CallTypes, TokType, TokShape
        <5> QED BY <4>4, <5>2 DEF Retry, Start
      <4> QED BY <2>1, <4>1, <4>2, <4>3, <4>4 DEF Caller
    <3>2. PICK r : \E k \in Kinds : op' = [NoOp EXCEPT !.pc = "check", !.kind = k, !.rid = r]
      BY <3>1
    <3>3. PICK k \in Kinds : op' = [NoOp EXCEPT !.pc = "check", !.kind = k, !.rid = r]
      BY <3>2
    <3>4. op'.kind = k
      BY <3>3, OpNew
    <3> QED BY <3>4 DEF Kinds
  <2> QED BY <2>1 DEF CallFlush, NextFileIdle
<1>4. /\ UNCHANGED <<file, ring, pgCntr, pgOffset, cached>>
  BY <1>1 DEF fileVars, pageVars
<1>5. fault' = "none" /\ CntrInv'
  BY <1>1, <1>4 DEF RingInv, CntrInv
<1>6. ReadyInv'
  BY <1>2, <1>4 DEF RingInv, ReadyInv, Going, Kinds
<1>7. FlushInv'
  BY <1>2, <1>3, <1>4 DEF FlushInv
<1>8. RoomInv'
  BY <1>1, <1>4 DEF RingInv, RoomInv
<1> QED BY <1>5, <1>6, <1>7, <1>8 DEF RingInv

\* The checks reset the current file before anything is written to it.
LEMMA CheckRing == AioInv /\ TypeOK' /\ CopyInv /\ RingInv /\ Check => RingInv'
<1> SUFFICES ASSUME AioInv, TypeOK', CopyInv, RingInv, Check PROVE RingInv'
  OBVIOUS
<1>1. /\ TypeOK /\ op \in OpType /\ op.pc = "check" /\ op.kind \in Kinds /\ op.res = "SUCCESS"
      /\ UNCHANGED <<pgCntr, pgOffset, cached, fault>>
  BY OpKinds
     DEF AioInv, MapsInv, CopyInv, ResultInv, TypeOK, CallTypes, Check, CheckBusy, CheckFull,
         CheckPage, CheckRefused, CheckOk, PageChecked, FileChecked, At, pageVars
<1>2. op'.kind = op.kind /\ op'.pc \in {"encode", "exit"} /\ (op'.pc = "encode" => CheckOk)
  <2>1. CASE CheckOk
    <3>1. op' = [op EXCEPT !.pc = "encode"]
      BY <2>1 DEF CheckOk, Goto
    <3> QED BY <1>1, <2>1, <3>1, OpAfter
  <2>2. CASE ~CheckOk
    <3>1. PICK res : op' = [op EXCEPT !.pc = "exit", !.res = res]
      BY <2>2 DEF Check, CheckBusy, CheckFull, CheckPage, CheckRefused, Return
    <3> QED BY <1>1, <3>1, OpAfter
  <2> QED BY <2>1, <2>2
<1>3. fault' = "none" /\ CntrInv'
  BY <1>1 DEF RingInv, CntrInv
<1>4. FlushInv'
  BY <1>1, <1>2 DEF FlushInv, Kinds
<1>5. CASE UNCHANGED <<file, ring>>
  <2>1. ReadyInv'
    <3>1. CheckOk => ring'.resetOk
      BY <1>1, RingFacts DEF CheckOk, PageChecked, FileChecked, RingType
    <3> QED BY <1>1, <1>2, <1>5, <3>1 DEF RingInv, ReadyInv, Going
  <2>2. RoomInv'
    BY <1>1, <1>5 DEF RingInv, RoomInv
  <2> QED BY <1>3, <1>4, <2>1, <2>2 DEF RingInv
<1>6. CASE ~UNCHANGED <<file, ring>>
  <2>1. /\ FileReady /\ file' = FilesReset /\ ring' = [ring EXCEPT !.resetOk = TRUE]
    BY <1>6 DEF Check, CheckBusy, CheckFull, CheckPage, CheckRefused, CheckOk, PageChecked,
                FileChecked, fileVars
  <2>2. ring'.idx = ring.idx /\ ring'.resetOk
    BY <1>1, <2>1, RingFacts DEF RingType
  <2>3. ReadyInv'
    BY <2>2 DEF ReadyInv
  <2>4. RoomInv'
    <3>1. CASE ring.resetOk
      BY <1>1, <2>1, <2>2, <3>1 DEF FilesReset, RingInv, RoomInv
    <3>2. CASE ~ring.resetOk
      <4>1. file'[ring.idx].subm = 0
        BY <1>1, <2>1, <3>2, RingFacts, ResetLowers DEF FileReady, FilesReset
      <4> DEFINE base == pgCntr * PageDblks
      <4>2. base \in Nat /\ SblkDblks \in Nat /\ pgOffset \in Nat /\ cached \in Nat /\ cached <= pgOffset
        BY <1>1, RingFacts
      <4> HIDE DEF base
      <4>3. 0 <= SblkDblks + base + pgOffset - cached
        BY <4>2
      <4> QED BY <1>1, <2>2, <4>1, <4>3 DEF RoomInv, base
    <3> QED BY <3>1, <3>2
  <2> QED BY <1>3, <1>4, <2>3, <2>4 DEF RingInv
<1> QED BY <1>5, <1>6

\* A turn of the copy loop.
LEMMA EncodeRing == AioInv /\ TypeOK' /\ CopyInv /\ RingInv /\ Encode => RingInv'
<1> SUFFICES ASSUME AioInv, TypeOK', CopyInv, RingInv, Encode PROVE RingInv'
  OBVIOUS
<1> DEFINE room == PageDblks - pgOffset
           left == T.size - T.written
           n    == IF left < room THEN left ELSE room
           pc   == IF n = left THEN "complete" ELSE "header"
<1>1. /\ TypeOK /\ op \in OpType /\ op.pc = "encode" /\ op.kind \in Kinds /\ op.res = "SUCCESS"
      /\ UNCHANGED <<file, ring, pgCntr, fault>>
  BY OpKinds DEF AioInv, MapsInv, CopyInv, ResultInv, TypeOK, CallTypes, Encode, At, fileVars
<1>2. pgOffset' = pgOffset + n /\ cached' = cached + n /\ op' = [op EXCEPT !.pc = pc]
  BY DEF Encode, Goto
<1>3. n \in Int
  <2>1. T.size \in Nat /\ T.written \in Nat /\ pgOffset \in Nat /\ PageDblks \in Nat
    BY <1>1, OpKinds, RingFacts DEF TokType
  <2> QED BY <2>1
<1> HIDE DEF n
<1>4. pgOffset' - cached' = pgOffset - cached
  BY <1>1, <1>2, <1>3, RingFacts
<1>5. op'.pc = pc /\ op'.kind = op.kind /\ op'.res = "SUCCESS"
  <2> HIDE DEF pc
  <2> QED BY <1>1, <1>2, OpAfter
<1>6. ring.resetOk
  BY <1>1 DEF RingInv, ReadyInv, Going
<1>7. op.kind # "flush"
  BY <1>1 DEF Kinds
<1>8. \A f \in Files : file[f].subm \in Nat /\ file[f].aio \in Nat
  BY <1>1, RingFacts
<1> QED BY <1>1, <1>4, <1>5, <1>6, <1>7, <1>8, RingKept

\* The record is whole.
LEMMA RecordRing ==
    AioInv /\ AioInv' /\ CopyInv /\ RingInv /\ Record => RingInv'
<1> SUFFICES ASSUME AioInv, AioInv', CopyInv, RingInv, Record PROVE RingInv'
  OBVIOUS
<1>1. /\ TypeOK /\ TypeOK' /\ MapsInv /\ MapInv /\ BusyInv /\ CallInv' /\ op \in OpType
  BY DEF AioInv, MapsInv, MapInv, TokInv, TypeOK, CallTypes
<1>2. Recorded
  BY DEF Record, EnqueueTxn, EnqueueNonTxn, DequeueTxn, DequeueNonTxn, AbortTxn, CommitTxn,
         CloseTxn
<1>3. /\ op.pc = "complete" /\ op.kind \in Kinds /\ op.res = "SUCCESS" /\ fault = "none"
      /\ UNCHANGED <<ring, pgCntr, pgOffset, cached>> /\ op' = [op EXCEPT !.pc = "header", !.done = TRUE]
  BY <1>1, <1>2, RecordFacts DEF CopyInv, ResultInv, Recorded, At, pageVars
<1>4. op'.pc = "header" /\ op'.kind = op.kind /\ op'.res = "SUCCESS"
  BY <1>1, <1>3, OpAfter
<1>5. fault' = fault
  BY <1>1, <1>3, RecordNoFault
<1>6. \A f \in Files : file'[f].subm = file[f].subm /\ file'[f].aio = file[f].aio
                       /\ file[f].subm \in Nat /\ file[f].aio \in Nat
  BY <1>1, RecordFiles, RingFacts
<1>7. ring.resetOk /\ op.kind # "flush"
  BY <1>3 DEF RingInv, ReadyInv, Going, Kinds
<1>8. \A f \in Files : file'[f].subm <= file[f].subm /\ file'[f].aio <= file[f].aio
                       /\ file'[f].aio \in Nat /\ file'[f].subm \in Nat
  BY <1>6
<1> QED BY <1>1, <1>3, <1>4, <1>5, <1>7, <1>8, RingKept

\* A file gets its header only when nothing is in it.
LEMMA HeaderRing == AioInv /\ TypeOK' /\ CopyInv /\ RingInv /\ FileHeaderCheck => RingInv'
<1> SUFFICES ASSUME AioInv, TypeOK', CopyInv, RingInv, FileHeaderCheck PROVE RingInv'
  OBVIOUS
<1>1. /\ TypeOK /\ op \in OpType /\ op.pc = "header" /\ op.kind \in Kinds /\ op.res = "SUCCESS"
      /\ UNCHANGED <<ring, pgCntr, pgOffset, cached, fault>>
  BY OpKinds DEF AioInv, MapsInv, CopyInv, ResultInv, TypeOK, CallTypes, FileHeaderCheck, At
<1>2. ring.resetOk /\ op.kind # "flush"
  BY <1>1 DEF RingInv, ReadyInv, Going, Kinds
<1>3. /\ op'.kind = op.kind /\ op'.res = "SUCCESS"
  <2>1. PICK pc : op' = [op EXCEPT !.pc = pc]
    BY DEF FileHeaderCheck, Goto
  <2> QED BY <1>1, <2>1, OpAfter
<1>4. CASE file' = file
  <2>1. \A f \in Files : file[f].subm \in Nat /\ file[f].aio \in Nat
    BY <1>1, RingFacts
  <2> QED BY <1>1, <1>2, <1>3, <1>4, <2>1, RingKept
<1>5. CASE file' # file
  <2>1. IsVoid(file[ring.idx]) /\ WriteFileHeader
    BY <1>5 DEF FileHeaderCheck
  <2>2. file'[ring.idx].subm = file[ring.idx].subm + SblkDblks
    BY <1>1, <2>1, RingFacts DEF WriteFileHeader, Submit, FileType
  <2>3. file'[ring.idx].subm = SblkDblks
    BY <1>1, <2>1, <2>2, RingFacts DEF IsVoid
  <2>4. fault' = "none" /\ CntrInv' /\ ReadyInv' /\ FlushInv'
    BY <1>1, <1>2, <1>3 DEF RingInv, CntrInv, ReadyInv, FlushInv
  <2>5. RoomInv'
    <3> DEFINE base == pgCntr * PageDblks
    <3>1. base \in Nat /\ SblkDblks \in Nat /\ pgOffset \in Nat /\ cached \in Nat /\ cached <= pgOffset
      BY <1>1, RingFacts
    <3> HIDE DEF base
    <3>2. SblkDblks <= SblkDblks + base + pgOffset - cached
      BY <3>1
    <3> QED BY <1>1, <2>3, <3>2 DEF RoomInv, base
  <2> QED BY <2>4, <2>5 DEF RingInv
<1> QED BY <1>4, <1>5

\* write_flush(): a page goes to a file that has room for it.
LEMMA SubmitRing ==
    ASSUME AioInv, TypeOK', CopyInv, DirectIoAligned, RingInv, SubmitPage, cached > 0,
           op.pc = "flush", op'.pc = "reap", op'.res = "SUCCESS", op'.kind = op.kind
    PROVE  RingInv'
<1> DEFINE n      == RoundUp(cached)
           offset == pgOffset + n - cached
           full   == offset >= PageDblks
           base   == pgCntr * PageDblks
           whole  == FilePages * PageDblks
<1>1. /\ TypeOK /\ PageInv /\ fault = "none" /\ op.res = "SUCCESS" /\ ring \in RingType
      /\ file \in [Files -> FileType] /\ ring.idx \in Files
  BY RingFacts DEF AioInv, MapsInv, CopyInv, ResultInv, RingInv
<1>2. /\ SblkDblks \in Nat /\ PageDblks \in Nat /\ FilePages \in Nat /\ pgCntr \in Nat /\ base \in Nat
      /\ pgOffset \in Nat /\ cached \in Nat /\ cached <= pgOffset /\ pgOffset <= PageDblks
      /\ file[ring.idx].subm \in Nat /\ PageDblks > 0
  BY <1>1, RingFacts, RingAssumption
<1>3. page[pgIndex].st = "IN_USE" /\ ring.resetOk /\ pgCntr < FilePages
  BY <1>1 DEF PageInv, RingInv, ReadyInv, CntrInv
<1>4. base + PageDblks <= whole /\ whole \in Nat
  BY <1>2, <1>3, LastPageFits
<1>5. FullDblks = whole + SblkDblks
  BY DEF FullDblks, FileDblks
<1>6. n \in Nat /\ offset \in Nat /\ offset <= PageDblks
  <2>1. pgOffset - cached \in Nat /\ (pgOffset - cached) + cached <= PageDblks
    BY <1>2
  <2>2. Aligned(pgOffset - cached)
    BY DEF DirectIoAligned
  <2>3. (pgOffset - cached) + n <= PageDblks /\ n \in Nat
    BY <1>2, <2>1, <2>2, RoundUpFits, RoundUpNat
  <2> HIDE DEF n
  <2> QED BY <1>2, <2>3
<1>7. file[ring.idx].subm <= SblkDblks + base + pgOffset - cached
  BY <1>1, <1>3 DEF RingInv, RoomInv
<1>8. file[ring.idx].subm + n <= SblkDblks + base + offset
  <2> HIDE DEF n, base
  <2> QED BY <1>2, <1>6, <1>7
<1>9. ~Overflows(file[ring.idx], n)
  <2>1. file[ring.idx].subm + n <= FullDblks
    <3> HIDE DEF n, base, offset, whole
    <3> QED BY <1>2, <1>4, <1>5, <1>6, <1>8
  <2>2. FullDblks \in Nat /\ file[ring.idx].subm + n \in Nat
    <3> HIDE DEF n, whole
    <3> QED BY <1>2, <1>4, <1>5, <1>6
  <2> HIDE DEF n
  <2> QED BY <2>1, <2>2 DEF Overflows
<1> HIDE DEF n
<1>10. /\ file' = [file EXCEPT ![ring.idx] = Submit(@, n)]
       /\ pgOffset' = IF full THEN 0 ELSE offset
       /\ pgCntr' = IF full THEN pgCntr + 1 ELSE pgCntr
       /\ cached' = 0 /\ ring' = ring /\ fault' = "none"
  BY <1>1, <1>3, <1>9 DEF SubmitPage, n
<1>11. file'[ring.idx].subm = file[ring.idx].subm + n
  BY <1>1, <1>10 DEF Submit, FileType
<1>12. CntrInv'
  BY DEF CntrInv
<1>13. ReadyInv'
  BY <1>3, <1>10 DEF ReadyInv
<1>14. FlushInv'
  <2>1. /\ After(ring.idx, 1) # ring.idx /\ After(ring.idx, 1) \in Files
    BY <1>1, RingFacts
  <2>2. After(ring.idx, 1)' = After(ring.idx, 1)
    BY <1>10 DEF After
  <2>3. file'[After(ring.idx, 1)] = file[After(ring.idx, 1)]
    BY <1>1, <1>10, <2>1
  <2>4. op.kind = "flush" => file[After(ring.idx, 1)].aio = 0
    BY DEF RingInv, FlushInv
  <2> QED BY <1>10, <2>3, <2>4 DEF FlushInv
<1>15. RoomInv'
  <2>1. file'[ring.idx].subm <= SblkDblks + (pgCntr * PageDblks)' + pgOffset' - cached'
    <3>1. CASE full
      <4>1. (pgCntr + 1) * PageDblks = base + PageDblks
        BY <1>2
      <4>2. (pgCntr * PageDblks)' = base + PageDblks /\ pgOffset' = 0 /\ offset = PageDblks
        BY <1>2, <1>6, <1>10, <3>1, <4>1
      <4>3. file[ring.idx].subm + n <= SblkDblks + (base + PageDblks)
        <5> HIDE DEF base, offset
        <5> QED BY <1>2, <1>6, <1>8, <4>2
      <4> HIDE DEF base, offset
      <4> QED BY <1>2, <1>6, <1>10, <1>11, <4>2, <4>3
    <3>2. CASE ~full
      <4>1. (pgCntr * PageDblks)' = base /\ pgOffset' = offset
        BY <1>10, <3>2
      <4> HIDE DEF base, offset
      <4> QED BY <1>2, <1>6, <1>8, <1>10, <1>11, <4>1
    <3> QED BY <3>1, <3>2
  <2> QED BY <1>10, <2>1 DEF RoomInv
<1> QED BY <1>10, <1>12, <1>13, <1>14, <1>15 DEF RingInv

\* write_flush().
LEMMA WriteFlushRing ==
    AioInv /\ TypeOK' /\ CopyInv /\ DirectIoAligned /\ RingInv /\ WriteFlush => RingInv'
<1> SUFFICES ASSUME AioInv, TypeOK', CopyInv, DirectIoAligned, RingInv, WriteFlush PROVE RingInv'
  OBVIOUS
<1>1. /\ TypeOK /\ PageInv /\ op \in OpType /\ op.pc = "flush" /\ op.res = "SUCCESS"
      /\ cached \in Nat
  BY RingFacts DEF AioInv, MapsInv, CopyInv, ResultInv, TypeOK, CallTypes, WriteFlush, At
<1>2. ~(cached > 0 /\ PageBlocked)
  BY <1>1 DEF PageInv, PageBlocked
<1>3. op' = [op EXCEPT !.pc = "reap", !.res = op.res]
  BY <1>2 DEF WriteFlush
<1>4. op'.pc = "reap" /\ op'.res = "SUCCESS" /\ op'.kind = op.kind
  BY <1>1, <1>3, OpAfter
<1>5. CASE cached > 0
  BY <1>1, <1>2, <1>4, <1>5, SubmitRing DEF WriteFlush
<1>6. CASE cached = 0
  <2>1. UNCHANGED <<file, ring, pgCntr, pgOffset, cached, fault>>
    BY <1>6 DEF WriteFlush, fileVars, pageVars
  <2>2. \A f \in Files : file[f].subm \in Nat /\ file[f].aio \in Nat
    BY <1>1, RingFacts
  <2>3. Going' => ring.resetOk
    BY <1>1, <1>4 DEF RingInv, ReadyInv, Going
  <2> QED BY <1>1, <1>4, <1>6, <2>1, <2>2, <2>3, RingKept
<1> QED BY <1>1, <1>5, <1>6

\* flush_check(): the page is closed, and the ring goes on to the next file when the
\* one before is full; a file with writes in flight is waited for.
LEMMA FlushCheckRing == AioInv /\ TypeOK' /\ CopyInv /\ RingInv /\ FlushCheck => RingInv'
<1> SUFFICES ASSUME AioInv, TypeOK', CopyInv, RingInv, FlushCheck PROVE RingInv'
  OBVIOUS
<1> DEFINE pageWait == PageBlocked /\ ~op.done
           rotate   == pgCntr >= FilePages
           rotated  == RotateResult(ring, file)
           res      == IF rotate /\ rotated # "SUCCESS" THEN rotated
                       ELSE IF pageWait THEN "PAGE_AIOWAIT" ELSE op.res
           stop     == op.done \/ pageWait \/ (rotate /\ rotated # "SUCCESS")
           pc       == IF stop THEN "exit" ELSE "encode"
           next     == After(ring.idx, 1)
           base     == pgCntr' * PageDblks
<1>1. /\ TypeOK /\ op \in OpType /\ op.pc = "reap" /\ op.res = "SUCCESS" /\ cached = 0
      /\ UNCHANGED <<pgOffset, cached, fault>> /\ fault = "none"
      /\ pgCntr' = IF rotate THEN 0 ELSE pgCntr
      /\ ring' = IF rotate THEN Rotated(ring, file) ELSE ring
      /\ file' = IF rotate THEN [file EXCEPT ![next] = WrReset(@)] ELSE file
      /\ op' = [op EXCEPT !.pc = pc, !.res = res]
  BY DEF AioInv, MapsInv, CopyInv, ResultInv, FlushedOut, TypeOK, CallTypes, FlushCheck, At
<1>2. op'.pc = pc /\ op'.res = res /\ op'.kind = op.kind
  <2> HIDE DEF pc, res
  <2> QED BY <1>1, OpAfter
<1>3. /\ next \in Files /\ pgCntr \in Nat /\ FilePages \in Nat \ {0} /\ PageDblks \in Nat
      /\ SblkDblks \in Nat /\ pgOffset \in Nat
      /\ \A f \in Files : file[f].subm \in Nat /\ file[f].aio \in Nat
  BY <1>1, RingFacts, RingAssumption
<1>4. pc \in {"exit", "encode"}
  OBVIOUS
<1>5. CASE ~rotate
  <2>1. pgCntr < FilePages
    BY <1>3, <1>5
  <2>2. res # "FILE_AIOWAIT"
    BY <1>1, <1>5
  <2>3. UNCHANGED <<file, ring, pgCntr>>
    BY <1>1, <1>5
  <2>4. Going' => ring.resetOk
    BY <1>1, <1>2 DEF RingInv, ReadyInv, Going
  <2> HIDE DEF pc, res
  <2> QED BY <1>1, <1>2, <1>3, <2>1, <2>2, <2>3, <2>4, RingKept
<1>6. CASE rotate
  <2>1. /\ pgCntr' = 0 /\ ring' = Rotated(ring, file) /\ file' = [file EXCEPT ![next] = WrReset(@)]
        /\ ring'.idx = next
    BY <1>1, <1>6 DEF Rotated
  <2>2. /\ file[next].aio > 0 => rotated = "FILE_AIOWAIT"
        /\ file[next].aio = 0 /\ rotated = "SUCCESS" => ring'.resetOk /\ CanReset(file[next])
        /\ file[next].aio = 0 /\ rotated # "SUCCESS" => ~ring'.resetOk
    BY <1>3, <2>1 DEF RotateResult, Rotated
  <2>3. rotated # "SUCCESS" => pc = "exit" /\ res = rotated
    BY <1>6
  <2>4. file[next].aio \in Nat
    BY <1>3
  <2> HIDE DEF rotated, pc, res, rotate
  <2>5. fault' = "none" /\ CntrInv'
    BY <1>1, <1>3, <2>1 DEF CntrInv
  <2>6. ReadyInv'
    BY <1>1, <1>2, <2>2, <2>3, <2>4 DEF ReadyInv, Going
  <2>7. FlushInv'
    <3>1. op.kind = "flush" => file[next].aio = 0
      BY <1>1 DEF RingInv, FlushInv
    <3>2. op.kind = "flush" => res # "FILE_AIOWAIT"
      <4>1. file[next].aio = 0 => res # "FILE_AIOWAIT"
        <5>1. file[next].aio = 0 => rotated # "FILE_AIOWAIT"
          BY DEF rotated, RotateResult
        <5> QED BY <1>1, <5>1 DEF res
      <4> QED BY <3>1, <4>1
    <3> QED BY <1>2, <1>4, <3>2 DEF FlushInv
  <2>8. RoomInv'
    <3>1. ring'.resetOk /\ op'.res # "FILE_AIOWAIT" => file'[ring'.idx].subm = 0
      <4>1. CanReset(file[next]) => file'[next].subm = 0
        BY <1>1, <1>3, <2>1, ResetLowers
      <4> QED BY <1>2, <2>1, <2>2, <2>3, <2>4, <4>1
    <3>2. base = 0
      BY <1>3, <2>1
    <3> HIDE DEF base
    <3>3. 0 <= SblkDblks + base + pgOffset - cached
      BY <1>1, <1>3, <3>2
    <3>4. 0 <= SblkDblks + pgCntr' * PageDblks + pgOffset' - cached'
      BY <1>1, <3>3 DEF base
    <3> QED BY <3>1, <3>4 DEF RoomInv
  <2> QED BY <2>5, <2>6, <2>7, <2>8 DEF RingInv
<1> QED BY <1>5, <1>6

\* The end of a call, and the page wait: a call that found the next file with writes
\* in flight does not end before it has been reset.
LEMMA ExitRing ==
    ~SlowDisk /\ AioInv /\ TypeOK' /\ CopyInv /\ RingInv /\ (Exit \/ WaitPage \/ WaitTimeout)
    => RingInv'
<1> SUFFICES ASSUME ~SlowDisk, AioInv, TypeOK', CopyInv, RingInv, Exit \/ WaitPage \/ WaitTimeout
             PROVE  RingInv'
  OBVIOUS
<1>1. /\ TypeOK /\ op \in OpType /\ op.pc \in {"exit", "wait"} /\ op.kind \in Kinds \cup {"flush"}
      /\ op.pc = "wait" => op.kind \in Kinds
      /\ UNCHANGED <<file, ring, pgCntr, pgOffset, cached, fault>>
  BY OpKinds
     DEF AioInv, MapsInv, TypeOK, CallTypes, Exit, WaitPage, WaitTimeout, At, fileVars, pageVars
<1>2. op.kind = "flush" => op.res # "FILE_AIOWAIT"
  BY DEF RingInv, FlushInv
<1>3. /\ op'.pc # "reap" /\ ~Going' /\ op'.kind # "flush"
      /\ op'.res # "FILE_AIOWAIT" => op.res # "FILE_AIOWAIT"
  <2>1. \/ /\ op' = [op EXCEPT !.pc = "wait"] /\ op.kind # "flush"
        \/ /\ op' = NoOp
           /\ op.kind = "flush" \/ op.res # "FILE_AIOWAIT"
        \/ /\ op' = [NoOp EXCEPT !.pc = "check", !.kind = op.kind, !.rid = op.rid]
           /\ op.res = "PAGE_AIOWAIT" /\ op.pc = "wait"
        \/ /\ op' = [op EXCEPT !.pc = "exit", !.res = "AIOCMPLWAIT"]
           /\ op.res = "PAGE_AIOWAIT" /\ op.pc = "wait"
    BY DEF Exit, WaitPage, WaitTimeout, Goto, Start, Return, At
  <2>2. CASE op' = [op EXCEPT !.pc = "wait"] /\ op.kind # "flush"
    <3>1. op'.pc = "wait" /\ op'.res = op.res /\ op'.kind = op.kind
      BY <1>1, <2>2, OpAfter
    <3> QED BY <2>2, <3>1 DEF Going
  <2>3. CASE op' = NoOp /\ (op.kind = "flush" \/ op.res # "FILE_AIOWAIT")
    <3>1. op'.pc = "idle" /\ op'.kind = "none"
      BY <2>3 DEF NoOp
    <3> QED BY <1>2, <2>3, <3>1 DEF Going
  <2>4. CASE /\ op' = [NoOp EXCEPT !.pc = "check", !.kind = op.kind, !.rid = op.rid]
             /\ op.res = "PAGE_AIOWAIT" /\ op.pc = "wait"
    <3>1. op'.pc = "check" /\ op'.kind = op.kind
      BY <2>4, OpNew
    <3> QED BY <1>1, <2>4, <3>1 DEF Going, Kinds
  <2>5. CASE /\ op' = [op EXCEPT !.pc = "exit", !.res = "AIOCMPLWAIT"]
             /\ op.res = "PAGE_AIOWAIT" /\ op.pc = "wait"
    <3>1. op'.pc = "exit" /\ op'.kind = op.kind
      BY <1>1, <2>5, OpAfter
    <3> QED BY <1>1, <2>5, <3>1 DEF Going, Kinds
  <2> QED BY <2>1, <2>2, <2>3, <2>4, <2>5
<1>4. \A f \in Files : file[f].subm \in Nat /\ file[f].aio \in Nat
  BY <1>1, RingFacts
<1>5. cached > 0 => ring.resetOk
  BY DEF RingInv, ReadyInv
<1> QED BY <1>1, <1>3, <1>4, <1>5, RingKept

\* The file wait ends when the file has no write in flight: then it is reset.
LEMMA WaitFileRing == AioInv /\ TypeOK' /\ CopyInv /\ RingInv /\ WaitFile => RingInv'
<1> SUFFICES ASSUME AioInv, TypeOK', CopyInv, RingInv, WaitFile PROVE RingInv'
  OBVIOUS
<1>1. /\ TypeOK /\ op \in OpType /\ op.pc = "wait" /\ op.kind \in Kinds /\ cached = 0
      /\ UNCHANGED <<pgCntr, pgOffset, cached, fault>>
      /\ file' = [file EXCEPT ![ring.idx] = WrReset(@)]
      /\ ring' = [ring EXCEPT !.resetOk = CanReset(file[ring.idx])]
  BY OpKinds
     DEF AioInv, MapsInv, CopyInv, ResultInv, FlushedOut, TypeOK, CallTypes, WaitFile, At, pageVars
<1>2. ring'.idx = ring.idx /\ ring'.resetOk = CanReset(file[ring.idx])
  BY <1>1, RingFacts DEF RingType
<1>3. op'.pc \in {"idle", "check"} /\ op'.kind # "flush"
  <2>1. CASE op' = NoOp
    BY <2>1 DEF NoOp
  <2>2. CASE op' = [NoOp EXCEPT !.pc = "check", !.kind = op.kind, !.rid = op.rid]
    <3>1. op'.pc = "check" /\ op'.kind = op.kind
      BY <2>2, OpNew
    <3> QED BY <1>1, <3>1 DEF Kinds
  <2> QED BY <2>1, <2>2 DEF WaitFile, Start
<1>4. fault' = "none" /\ CntrInv'
  BY <1>1, <1>3 DEF RingInv, CntrInv
<1>5. ReadyInv' /\ FlushInv'
  BY <1>1, <1>3 DEF ReadyInv, FlushInv, Going
<1>6. RoomInv'
  <2>1. ring'.resetOk => file'[ring'.idx].subm = 0
    BY <1>1, <1>2, RingFacts, ResetLowers
  <2> DEFINE base == pgCntr * PageDblks
  <2>2. base \in Nat /\ SblkDblks \in Nat /\ pgOffset \in Nat
    BY <1>1, RingFacts
  <2> HIDE DEF base
  <2>3. 0 <= SblkDblks + base + pgOffset - cached
    BY <1>1, <2>2
  <2> QED BY <1>1, <2>1, <2>3 DEF RoomInv, base
<1> QED BY <1>4, <1>5, <1>6 DEF RingInv

\* Completions leave what was submitted alone.
LEMMA KernelRing == AioInv /\ TypeOK' /\ CopyInv /\ RingInv /\ Kernel => RingInv'
<1> SUFFICES ASSUME AioInv, TypeOK', CopyInv, RingInv, Kernel PROVE RingInv'
  OBVIOUS
<1>1. /\ TypeOK /\ MapInv /\ UseInv /\ TokenUse /\ AioAccounted
      /\ file \in [Files -> FileType] /\ page \in [Pages -> PageType]
  BY DEF AioInv, MapsInv, UseInv, TypeOK, FileTypes, PageTypes
<1>2. UNCHANGED <<ring, pgCntr, pgOffset, cached, op>>
  BY DEF Kernel, ReapPage, ReapHeader
<1>3. /\ fault' = fault
      /\ \A f \in Files : /\ file'[f].subm = file[f].subm
                          /\ file'[f].aio = file[f].aio \/ file'[f].aio = file[f].aio - 1
  <2>1. ASSUME NEW f \in Files, NEW fc, file' = [file EXCEPT ![f] = fc],
               fc.subm = file[f].subm, fc.aio = file[f].aio - 1
        PROVE  \A g \in Files : file'[g].subm = file[g].subm
                     /\ (file'[g].aio = file[g].aio \/ file'[g].aio = file[g].aio - 1)
    BY <1>1, <2>1
  <2>2. ASSUME NEW p \in Pages, ReapPage(p)
        PROVE  /\ fault' = "none" /\ fault = "none"
               /\ \A g \in Files : file'[g].subm = file[g].subm
                     /\ (file'[g].aio = file[g].aio \/ file'[g].aio = file[g].aio - 1)
    <3>1. fault' = "none" /\ fault = "none" /\ page[p].st = "AIO_PENDING"
      BY <1>1, <2>2, ReapsCleanly
    <3>2. page[p].wfh \in Files
      BY <1>1, <3>1 DEF TypeOK, PageShape
    <3>3. file' = [file EXCEPT ![page[p].wfh] = Complete(@, page[p].wd)]
      BY <2>2, <3>1 DEF ReapPage, Throw
    <3>4. /\ Complete(file[page[p].wfh], page[p].wd).subm = file[page[p].wfh].subm
          /\ Complete(file[page[p].wfh], page[p].wd).aio = file[page[p].wfh].aio - 1
      BY <1>1, <3>2 DEF Complete, FileType
    <3> QED BY <2>1, <3>1, <3>2, <3>3, <3>4
  <2>3. ASSUME NEW f \in Files, ReapHeader(f)
        PROVE  /\ fault' = "none" /\ fault = "none"
               /\ \A g \in Files : file'[g].subm = file[g].subm
                     /\ (file'[g].aio = file[g].aio \/ file'[g].aio = file[g].aio - 1)
    <3>1. fault' = "none" /\ fault = "none"
      BY <1>1, <2>3, HeaderReapedAcc
    <3>2. file' = [file EXCEPT ![f] = [Complete(@, SblkDblks) EXCEPT !.fhdr = FALSE]]
      BY <2>3, <3>1 DEF ReapHeader, Throw
    <3> DEFINE fc == [Complete(file[f], SblkDblks) EXCEPT !.fhdr = FALSE]
    <3>3. fc.subm = file[f].subm /\ fc.aio = file[f].aio - 1
      BY <1>1 DEF Complete, FileType
    <3>4. file' = [file EXCEPT ![f] = fc]
      BY <3>2
    <3> HIDE DEF fc
    <3> QED BY <2>1, <3>1, <3>3, <3>4
  <2> QED BY <2>2, <2>3 DEF Kernel
<1>4. \A f \in Files : /\ file'[f].subm <= file[f].subm /\ file'[f].aio <= file[f].aio
                       /\ file'[f].aio \in Nat /\ file'[f].subm \in Nat
  <2>1. \A f \in Files : file'[f].subm \in Nat /\ file'[f].aio \in Nat
    BY DEF TypeOK, FileTypes, FileType
  <2>2. \A f \in Files : file[f].subm \in Nat /\ file[f].aio \in Nat
    BY <1>1 DEF FileType
  <2> QED BY <1>3, <2>1, <2>2
<1>5. (cached' > 0 \/ Going') => ring.resetOk
  BY <1>2 DEF RingInv, ReadyInv, Going
<1>6. op.kind = "flush" => op.res # "FILE_AIOWAIT"
  BY DEF RingInv, FlushInv
<1> QED BY <1>1, <1>2, <1>3, <1>4, <1>5, <1>6, RingKept

\* Nothing is written yet.
LEMMA InitRing == Init => RingInv
<1> SUFFICES ASSUME Init PROVE RingInv
  OBVIOUS
<1>1. /\ fault = "none" /\ pgCntr = 0 /\ cached = 0 /\ op = NoOp /\ ring.resetOk = FALSE
  BY DEF Init, NewRing
<1>2. CntrInv
  BY <1>1, RingAssumption DEF CntrInv
<1>3. ReadyInv /\ FlushInv
  BY <1>1 DEF ReadyInv, FlushInv, Going, NoOp, Kinds
<1> QED BY <1>1, <1>2, <1>3 DEF RingInv, RoomInv

\* Every step.
LEMMA NextRing ==
    ~SlowDisk /\ AioInv /\ CopyInv /\ DirectIoAligned /\ RingInv /\ [Next]_vars => RingInv'
<1> SUFFICES ASSUME ~SlowDisk, AioInv, CopyInv, DirectIoAligned, RingInv, [Next]_vars
             PROVE  RingInv'
  OBVIOUS
<1>1. AioInv' /\ TypeOK'
  BY NextAio DEF AioInv, MapsInv
<1>2. CASE Next
  BY <1>1, <1>2, CallerRing, CheckRing, EncodeRing, RecordRing, HeaderRing, WriteFlushRing,
     FlushCheckRing, ExitRing, WaitFileRing, KernelRing DEF Next, Holder, Wait
<1>3. CASE UNCHANGED vars
  BY <1>3 DEF vars, fileVars, pageVars, RingInv, CntrInv, ReadyInv, FlushInv, RoomInv, Going,
              After
<1> QED BY <1>2, <1>3

\* No call of the write pipeline ends in an exception that its own books are wrong
\* (JERR_FCNTL_FILEOFFSOVFL when a file is full, JERR_MAP_*, JERR_WMGR_BAD*,
\* JERR_FCNTL_CMPLOFFSOVFL, the assertions of get_events()), for any number of files,
\* pages and records of any size, when the writes to the next file are complete
\* before a flush leaves the ring at it or a caller gives up waiting for it.
THEOREM NoInternalErrorAlways == ~SlowDisk => (Spec => []NoInternalError)
<1> SUFFICES ASSUME ~SlowDisk PROVE Spec => []NoInternalError
  OBVIOUS
<1>1. Init => AioInv /\ CopyInv /\ RingInv
  BY InitAio, InitCopy, InitRing
<1>2. AioInv /\ CopyInv /\ DirectIoAligned /\ RingInv /\ [Next]_vars
      => AioInv' /\ CopyInv' /\ RingInv'
  BY NextAio, NextCopy, NextRing
<1>3. RingInv => NoInternalError
  BY DEF RingInv, NoInternalError
<1> QED BY <1>1, <1>2, <1>3, DirectIoAlignedAlways, PTL DEF Spec

-----------------------------------------------------------------------------
(* No file is taken while a record still needed has a part in it.          *)

\* No record is longer than all files but one: a longer one would come round to
\* the file of its own header while it is being written.
RecordsFit == \A n \in EnqSizes \cup {CtlDblks} : n <= (NumFiles - 1) * FileDblks

\* A call that found the next file with writes in flight waits for it; then
\* _reset_ok still stands for the file before.
Waits == op.pc \in {"exit", "wait"} /\ op.res = "FILE_AIOWAIT"
Ready == ring.resetOk /\ ~Waits

\* A call gave that wait up: nothing can be written any more, as the current file
\* counts as reset and is full.
Stale == Ready /\ file[ring.idx].subm = FullDblks /\ pgCntr = 0

\* How far file f is ahead of file h in the ring.  A record with its header in h
\* has its parts between h and the current file, which counts once it is reset;
\* once the ring is back at h, the file is not reset while its header is needed.
Dist(h, f) == IF h <= f THEN f - h ELSE f + NumFiles - h
Behind(h, S) == \A f \in S :
    IF Ready THEN Dist(h, f) <= Dist(h, ring.idx) ELSE Dist(h, f) < Dist(h, ring.idx)
Safe(h, S) == Behind(h, S) \/ (ring.idx = h /\ ~Ready)

\* Where the ring is: the current file is void, or holds its header and what was
\* put into it; every other file is void or full.
Put     == pgCntr * PageDblks + pgOffset
Opening == /\ file[ring.idx].subm = 0 /\ pgCntr = 0 /\ pgOffset = cached
           /\ cached > 0 => op.pc \in {"complete", "header"}
Filling == file[ring.idx].subm = SblkDblks + Put - cached
PlaceInv ==
    /\ IF op.pc = "reap" THEN pgCntr <= FilePages ELSE pgCntr < FilePages
    /\ pgCntr = FilePages => pgOffset = 0
    /\ ReadyInv
    /\ \A f \in Files : f # ring.idx \/ ~Ready => file[f].subm \in {0, FullDblks}
    /\ \A f \in Files : file[f].subm = 0 => file[f].aio = 0
    /\ Waits => file[ring.idx].subm = FullDblks
    /\ ~Ready => pgCntr = 0 /\ pgOffset = 0
    /\ Ready => Opening \/ Filling

\* A record being written reaches back from the place in the current file: what is
\* written of it has been put there and into the files since its header.
Writing(r) == tok[r].st = "PART" \/ (op.pc = "complete" /\ r = op.rid)
OwnOf(r) ==
    /\ tok[r].kind # "none" => tok[r].size \in EnqSizes \cup {CtlDblks}
    /\ tok[r].st = "NONE" /\ ~Writing(r) => tok[r].span = {}
    /\ Writing(r) =>
           /\ tok[r].written > 0
           /\ tok[r].fid \in Files /\ Behind(tok[r].fid, tok[r].span)
           /\ tok[r].written + FileDblks > Dist(tok[r].fid, ring.idx) * FileDblks + Put
           /\ pgOffset \in {0, PageDblks} \/ (op.pc = "complete" /\ r = op.rid)
OwnInv == \A r \in Rids : OwnOf(r)

\* The parts of a record that is held, and of the dequeue records of it: they were
\* written after its header.
About(e) == {d \in Rids : d = e \/ (tok[d].kind = "deq" /\ tok[d].drid = e)}
HoldInv == \A e \in Held : \A d \in About(e) : Safe(tok[e].fid, tok[d].span)

TurnInv == fault = "none" => Stale \/ (PlaceInv /\ OwnInv /\ HoldInv)

\* Steps of the ring, from file to file.
LEMMA DistFacts == \A h, i \in Files :
    /\ Dist(h, i) \in Nat /\ Dist(h, i) < NumFiles /\ Dist(h, h) = 0
    /\ \A f \in Files : Dist(h, f) = Dist(h, i) => f = i
    /\ h # After(i, 1) => Dist(h, After(i, 1)) = Dist(h, i) + 1
    /\ h = After(i, 1) => Dist(h, i) = NumFiles - 1
<1> TAKE h, i \in Files
<1>1. /\ NumFiles \in Nat /\ NumFiles >= 2 /\ h \in Nat /\ h < NumFiles /\ i \in Nat /\ i < NumFiles
      /\ \A f \in Files : f \in Nat /\ f < NumFiles
  BY RingAssumption DEF Files
<1>2. After(i, 1) = IF i + 1 = NumFiles THEN 0 ELSE i + 1
  BY <1>1 DEF After
<1>3. /\ Dist(h, i) \in Nat /\ Dist(h, i) < NumFiles /\ Dist(h, h) = 0
      /\ \A f \in Files : Dist(h, f) = Dist(h, i) => f = i
  BY <1>1 DEF Dist
<1>4. h # After(i, 1) => Dist(h, After(i, 1)) = Dist(h, i) + 1
  BY <1>1, <1>2 DEF Dist
<1>5. h = After(i, 1) => Dist(h, i) = NumFiles - 1
  BY <1>1, <1>2 DEF Dist
<1> QED BY <1>3, <1>4, <1>5

\* The ring stays, or resets the file it is at, or goes on to the next one when the
\* current one is full; a file is ready only when it could be reset.
Stays  == ring'.idx = ring.idx /\ (Ready' <=> Ready)
Opens  == ring'.idx = ring.idx /\ ~Ready /\ Ready' /\ CanReset(file[ring.idx])
Turns  == /\ Ready /\ ring'.idx = After(ring.idx, 1)
          /\ Ready' => CanReset(file[After(ring.idx, 1)])
Moves  == Stays \/ Opens \/ Turns

\* What was safe stays safe, if the file it counts from cannot be reset.
LEMMA SafeMoves ==
    ASSUME ring.idx \in Files, NEW h \in Files, NEW S, S \subseteq Files, Safe(h, S), Moves,
           ~CanReset(file[h])
    PROVE  Safe(h, S)'
<1>1. \A f \in S : f \in Files /\ Dist(h, f) \in Nat
  BY DistFacts
<1>2. CASE Stays
  BY <1>2 DEF Stays, Safe, Behind
<1>3. CASE Opens
  <2>1. ring.idx # h
    BY <1>3 DEF Opens
  <2>2. \A f \in S : Dist(h, f) < Dist(h, ring.idx)
    BY <1>3, <2>1 DEF Opens, Safe, Behind
  <2>3. Dist(h, ring.idx) \in Nat
    BY DistFacts
  <2>4. \A f \in S : Dist(h, f) <= Dist(h, ring.idx)
    BY <1>1, <2>2, <2>3
  <2> QED BY <1>3, <2>4 DEF Opens, Safe, Behind
<1>4. CASE Turns
  <2> DEFINE next == After(ring.idx, 1)
  <2>1. \A f \in S : Dist(h, f) <= Dist(h, ring.idx)
    BY <1>4 DEF Turns, Safe, Behind
  <2>2. Dist(h, ring.idx) \in Nat
    BY DistFacts
  <2>3. CASE h = next
    BY <1>4, <2>3 DEF Turns, Safe
  <2>4. CASE h # next
    <3>1. Dist(h, next) = Dist(h, ring.idx) + 1
      BY <2>4, DistFacts
    <3>2. \A f \in S : Dist(h, f) < Dist(h, next) /\ Dist(h, f) <= Dist(h, next)
      <4> HIDE DEF next
      <4> QED BY <1>1, <2>1, <2>2, <3>1
    <3> QED BY <1>4, <3>2 DEF Turns, Safe, Behind
  <2> QED BY <2>3, <2>4
<1> QED BY <1>2, <1>3, <1>4 DEF Moves

\* A record being written stays behind the current file, unless the ring comes round
\* to its header.
LEMMA BehindMoves ==
    ASSUME ring.idx \in Files, NEW h \in Files, NEW S, S \subseteq Files, Behind(h, S), Moves,
           Turns => h # After(ring.idx, 1)
    PROVE  Behind(h, S)'
<1>1. \A f \in S : f \in Files /\ Dist(h, f) \in Nat
  BY DistFacts
<1>2. CASE Stays
  BY <1>2 DEF Stays, Behind
<1>3. CASE Opens
  <2>1. \A f \in S : Dist(h, f) < Dist(h, ring.idx)
    BY <1>3 DEF Opens, Behind
  <2>2. Dist(h, ring.idx) \in Nat
    BY DistFacts
  <2>3. \A f \in S : Dist(h, f) <= Dist(h, ring.idx)
    BY <1>1, <2>1, <2>2
  <2> QED BY <1>3, <2>3 DEF Opens, Behind
<1>4. CASE Turns
  <2> DEFINE next == After(ring.idx, 1)
  <2>1. \A f \in S : Dist(h, f) <= Dist(h, ring.idx)
    BY <1>4 DEF Turns, Behind
  <2>2. Dist(h, ring.idx) \in Nat
    BY DistFacts
  <2>3. Dist(h, next) = Dist(h, ring.idx) + 1
    BY <1>4, DistFacts
  <2>4. \A f \in S : Dist(h, f) < Dist(h, next) /\ Dist(h, f) <= Dist(h, next)
    <3> HIDE DEF next
    <3> QED BY <1>1, <2>1, <2>2, <2>3
  <2> QED BY <1>4, <2>4 DEF Turns, Behind
<1> QED BY <1>2, <1>3, <1>4 DEF Moves

\* A record that is held is a whole enqueue, and its file counts it.
LEMMA HeldFacts ==
    ASSUME TypeOK, MapInv, NEW e \in Held
    PROVE  /\ e \in Rids /\ tok[e].kind = "enq" /\ tok[e].st \in Whole /\ tok[e].fid \in Files
           /\ file[tok[e].fid].enq > 0 /\ ~CanReset(file[tok[e].fid])
<1>1. e \in Rids
  BY DEF Held
<1>2. tok[e].kind = "enq" /\ tok[e].st \in Whole /\ tok[e].fid \in Files
  <2>1. CASE InEmap(e)
    <3>1. tok[e].kind = "enq" /\ tok[e].st \in Whole /\ tok[e].fid = emap[e].pfid
      BY <1>1, <2>1 DEF MapInv, BookInv, EmapInv
    <3>2. emap[e].pfid \in Files
      BY <1>1, <2>1 DEF TypeOK, MapTypes, InEmap
    <3> QED BY <3>1, <3>2
  <2>2. CASE \E x \in Xids : e \in Adds(x)
    BY <2>2, AddsFacts DEF MapInv, BookInv
  <2> QED BY <2>1, <2>2 DEF Held
<1>3. file[tok[e].fid].enq = Cardinality(Live(tok[e].fid))
  BY <1>2 DEF MapInv, BookInv, LiveInv
<1>4. e \in Live(tok[e].fid) /\ IsFiniteSet(Live(tok[e].fid))
  BY HeldFinite DEF Live
<1>5. Cardinality(Live(tok[e].fid)) \in Nat /\ Cardinality(Live(tok[e].fid)) # 0
  BY <1>4, FS_CardinalityType, FS_EmptySet
<1> QED BY <1>1, <1>2, <1>3, <1>5 DEF CanReset

\* What is held after a step, from what the step does to the journal's promise: at
\* most the record it stores is new.
LEMMA HeldAfter ==
    /\ UNCHANGED Promise => Held' = Held
    /\ MJ!Next => \A e \in Held' : e \in Held \/ (e \in Stored' /\ e \notin Stored)
<1>1. \A r \in Rids : /\ InEmap(r) <=> r \in Queue
                      /\ InEmap(r)' <=> r \in Queue'
  BY DEF Queue
<1>2. \A x \in Xids : AddsMap[x] = Adds(x) /\ AddsMap'[x] = Adds(x)'
  BY DEF AddsMap, Adds
<1>3. ASSUME UNCHANGED Promise PROVE Held' = Held
  BY <1>1, <1>2, <1>3 DEF Promise, Held
<1>4. ASSUME MJ!Next, NEW e \in Held' PROVE e \in Held \/ (e \in Stored' /\ e \notin Stored)
  <2>1. e \in Rids /\ (e \in Queue' \/ \E x \in Xids : e \in AddsMap'[x])
    BY <1>1, <1>2 DEF Held
  <2>2. \/ e \in Queue \/ \E x \in Xids : e \in AddsMap[x]
        \/ e \in Stored' /\ e \notin Stored
    <3>1. ASSUME NEW m \in Rids, MJ!Enqueue(m) \/ MJ!Dequeue(m)
          PROVE  \/ e \in Queue \/ \E x \in Xids : e \in AddsMap[x]
                 \/ e \in Stored' /\ e \notin Stored
      <4>1. AddsMap' = AddsMap
        BY <3>1 DEF MJ!Enqueue, MJ!Dequeue, AddsMap
      <4>2. Queue' \subseteq Queue \/ (Queue' = Queue \cup {m} /\ m \in Stored' /\ m \notin Stored)
        BY <3>1 DEF MJ!Enqueue, MJ!Dequeue, Queue, Stored
      <4> QED BY <2>1, <4>1, <4>2
    <3>2. ASSUME NEW x \in Xids, NEW m \in Rids, MJ!TxnEnqueue(x, m) \/ MJ!TxnDequeue(x, m)
          PROVE  \/ e \in Queue \/ \E y \in Xids : e \in AddsMap[y]
                 \/ e \in Stored' /\ e \notin Stored
      <4>1. Queue' = Queue
        BY <3>2 DEF MJ!TxnEnqueue, MJ!TxnDequeue, Queue
      <4>2. \/ AddsMap' = AddsMap
            \/ AddsMap' = [AddsMap EXCEPT ![x] = @ \cup {m}] /\ m \in Stored' /\ m \notin Stored
        BY <3>2 DEF MJ!TxnEnqueue, MJ!TxnDequeue, AddsMap, Stored
      <4>3. \A y \in Xids : AddsMap'[y] \subseteq AddsMap[y]
                            \/ (AddsMap'[y] = AddsMap[y] \cup {m} /\ m \in Stored' /\ m \notin Stored)
        <5>1. DOMAIN AddsMap = Xids
          BY DEF AddsMap
        <5> HIDE DEF AddsMap
        <5> QED BY <4>2, <5>1
      <4> QED BY <2>1, <4>1, <4>3
    <3>3. ASSUME NEW x \in Xids, MJ!Commit(x) \/ MJ!Abort(x)
          PROVE  e \in Queue \/ \E y \in Xids : e \in AddsMap[y]
      <4>1. AddsMap' = [AddsMap EXCEPT ![x] = {}]
        BY <3>3 DEF MJ!Commit, MJ!Abort, AddsMap
      <4>2. Queue' \subseteq Queue \cup AddsMap[x]
        BY <3>3 DEF MJ!Commit, MJ!Abort, AddsMap, Queue
      <4>3. \A y \in Xids : AddsMap'[y] \subseteq AddsMap[y]
        <5>1. DOMAIN AddsMap = Xids
          BY DEF AddsMap
        <5> HIDE DEF AddsMap
        <5> QED BY <4>1, <5>1
      <4> QED BY <2>1, <4>2, <4>3
    <3> QED BY <1>4, <3>1, <3>2, <3>3 DEF MJ!Next
  <2> QED BY <1>1, <1>2, <2>1, <2>2 DEF Held
<1> QED BY <1>3, <1>4


\* The dblks put into the current file, and those of whole files.
LEMMA PutFacts == TypeOK =>
    /\ FileDblks \in Nat /\ Put \in Nat /\ FullDblks = FileDblks + SblkDblks /\ FullDblks > 0
    /\ \A d \in Nat : d * FileDblks \in Nat /\ (d + 1) * FileDblks = d * FileDblks + FileDblks
    /\ pgCntr = FilePages => Put = FileDblks + pgOffset
    /\ pgCntr = 0 => Put = pgOffset
    /\ pgCntr < FilePages => pgCntr * PageDblks + PageDblks <= FileDblks
<1> SUFFICES ASSUME TypeOK
             PROVE  /\ FileDblks \in Nat /\ Put \in Nat /\ FullDblks = FileDblks + SblkDblks
                    /\ FullDblks > 0
                    /\ \A d \in Nat : /\ d * FileDblks \in Nat
                                      /\ (d + 1) * FileDblks = d * FileDblks + FileDblks
                    /\ pgCntr = FilePages => Put = FileDblks + pgOffset
                    /\ pgCntr = 0 => Put = pgOffset
                    /\ pgCntr < FilePages => pgCntr * PageDblks + PageDblks <= FileDblks
  OBVIOUS
<1>1. /\ pgCntr \in Nat /\ PageDblks \in Nat /\ FilePages \in Nat /\ pgOffset \in Nat
      /\ pgCntr * PageDblks \in Nat /\ SblkDblks \in Nat /\ SblkDblks > 0
  BY RingFacts, RingAssumption
<1>2. FileDblks \in Nat
  BY <1>1 DEF FileDblks
<1>3. FullDblks = FileDblks + SblkDblks /\ FullDblks > 0
  BY <1>1, <1>2 DEF FullDblks
<1>4. Put \in Nat
  BY <1>1 DEF Put
<1>5. \A d \in Nat : d * FileDblks \in Nat /\ (d + 1) * FileDblks = d * FileDblks + FileDblks
  BY <1>2
<1>6. pgCntr = FilePages => Put = FileDblks + pgOffset
  BY DEF Put, FileDblks
<1>7. pgCntr = 0 => Put = pgOffset
  BY <1>1 DEF Put
<1>8. pgCntr < FilePages => pgCntr * PageDblks + PageDblks <= FileDblks
  BY <1>1, LastPageFits DEF FileDblks
<1> QED BY <1>2, <1>3, <1>4, <1>5, <1>6, <1>7, <1>8

\* The ring does not come round to the header of a record that is being written.
LEMMA NotRound ==
    ASSUME TypeOK, RecordsFit, NEW r \in Rids, OwnOf(r), tok[r].st = "PART", pgCntr = FilePages
    PROVE  tok[r].fid # After(ring.idx, 1)
<1> DEFINE h == tok[r].fid
           d == Dist(h, ring.idx)
<1> SUFFICES ASSUME h = After(ring.idx, 1) PROVE FALSE
  OBVIOUS
<1>1. /\ h \in Files /\ ring.idx \in Files /\ d \in Nat /\ d = NumFiles - 1
  BY RingFacts, DistFacts DEF OwnOf, Writing
<1>2. tok[r].written + FileDblks > d * FileDblks + Put
  BY DEF OwnOf, Writing
<1>3. /\ tok[r].written \in Nat /\ tok[r].size \in Nat /\ tok[r].written <= tok[r].size
      /\ tok[r].kind # "none"
  BY DEF TypeOK, CallTypes, TokType, TokShape
<1>4. tok[r].size <= d * FileDblks
  BY <1>1, <1>3 DEF OwnOf, RecordsFit
<1>5. Put = FileDblks + pgOffset /\ pgOffset \in Nat /\ FileDblks \in Nat /\ d * FileDblks \in Nat
  BY <1>1, PutFacts, RingFacts
<1> HIDE DEF d
<1> QED BY <1>2, <1>3, <1>4, <1>5

\* A token that stays as it is, but for the pages it waits for; one that is given to
\* a new call or taken back; and that of a record that is whole or on disk.
Steady(r)  == /\ SameRecord(r) /\ tok'[r].st = tok[r].st
              /\ tok'[r].fid = tok[r].fid /\ tok'[r].span = tok[r].span
              /\ tok'[r].size = tok[r].size /\ tok'[r].written = tok[r].written
Cleared(r) == /\ tok'[r].st = "NONE" /\ tok'[r].span = {} /\ tok[r].st \notin Whole
              /\ tok'[r].kind # "none" => tok'[r].size \in EnqSizes \cup {CtlDblks}
Settled(r) == /\ tok'[r].st \in Whole /\ SameRecord(r)
              /\ tok'[r].fid = tok[r].fid /\ tok'[r].span = tok[r].span
              /\ tok'[r].size = tok[r].size

\* A record being written, in a step that copies nothing.
LEMMA OwnKept ==
    ASSUME TypeOK, TypeOK', RecordsFit, NEW r \in Rids, OwnOf(r), Moves,
           op'.pc # "complete", op.pc = "complete" => tok'[op.rid].st \in Whole,
           Steady(r) \/ Cleared(r) \/ Settled(r),
           Turns => pgCntr = FilePages /\ pgCntr' = 0 /\ pgOffset' = pgOffset,
           tok[r].st = "PART" /\ ~Turns => Put' = Put,
           tok'[r].st = "PART" => pgOffset' \in {0, PageDblks}
    PROVE  OwnOf(r)'
<1>1. tok'[r].kind # "none" => tok'[r].size \in EnqSizes \cup {CtlDblks}
  BY DEF OwnOf, Steady, Cleared, Settled, SameRecord
<1>2. tok'[r].st = "NONE" => tok'[r].span = {}
  BY DEF OwnOf, Steady, Cleared, Settled, Whole, Writing
<1>3. Writing(r)' <=> tok'[r].st = "PART"
  BY DEF Writing
<1>4. ASSUME tok'[r].st = "PART"
      PROVE  /\ tok'[r].written > 0
             /\ tok'[r].fid \in Files /\ Behind(tok[r].fid, tok[r].span)'
             /\ tok'[r].written + FileDblks > Dist(tok'[r].fid, ring'.idx) * FileDblks + Put'
             /\ pgOffset' \in {0, PageDblks}
  <2>1. /\ tok'[r].fid = tok[r].fid /\ tok'[r].span = tok[r].span
        /\ tok'[r].written = tok[r].written
        /\ tok[r].st = "PART" /\ (op.pc = "complete" => r # op.rid) /\ tok[r].written > 0
    BY <1>4 DEF OwnOf, Writing, Steady, Cleared, Settled, Whole
  <2>2. PICK h \in Files : h = tok[r].fid
    BY <2>1 DEF OwnOf, Writing
  <2>3. PICK S \in SUBSET Files : S = tok[r].span
    BY DEF TypeOK, CallTypes, TokType
  <2>4. Behind(h, S)
    BY <2>1, <2>2, <2>3 DEF OwnOf, Writing
  <2>5. Turns => h # After(ring.idx, 1)
    BY <2>1, <2>2, NotRound
  <2>6. Behind(h, S)'
    BY <2>4, <2>5, RingFacts, BehindMoves
  <2>7. tok[r].written + FileDblks > Dist(h, ring.idx) * FileDblks + Put
    BY <2>1, <2>2 DEF OwnOf, Writing
  <2>8. Dist(h, ring'.idx) * FileDblks + Put' = Dist(h, ring.idx) * FileDblks + Put
    <3>1. CASE ~Turns
      BY <2>1, <3>1 DEF Moves, Stays, Opens
    <3>2. CASE Turns
      <4>1. Dist(h, ring'.idx) = Dist(h, ring.idx) + 1 /\ Dist(h, ring.idx) \in Nat
        BY <2>5, <3>2, RingFacts, DistFacts DEF Turns
      <4>2. Put = FileDblks + pgOffset
        BY <3>2, PutFacts
      <4>3. Put' = pgOffset
        BY <3>2, RingFacts DEF Put
      <4> DEFINE d == Dist(h, ring.idx)
      <4>4. /\ (d + 1) * FileDblks = d * FileDblks + FileDblks /\ d * FileDblks \in Nat
            /\ FileDblks \in Nat /\ pgOffset \in Nat
        BY <4>1, PutFacts, RingFacts
      <4>5. Dist(h, ring'.idx) = d + 1
        BY <4>1
      <4> HIDE DEF d
      <4>6. Dist(h, ring'.idx) * FileDblks = d * FileDblks + FileDblks
        BY <4>4, <4>5
      <4>7. d * FileDblks + FileDblks + pgOffset = d * FileDblks + (FileDblks + pgOffset)
        BY <4>4
      <4> QED BY <4>2, <4>3, <4>6, <4>7 DEF d
    <3> QED BY <3>1, <3>2
  <2> QED BY <1>4, <2>1, <2>2, <2>3, <2>6, <2>7, <2>8 DEF Behind, Dist
<1> QED BY <1>1, <1>2, <1>3, <1>4 DEF OwnOf

\* The parts of the records that were held; the one record that is copied is not one of
\* them, and its part goes to a file that is ready.
LEMMA HoldKept ==
    ASSUME TypeOK, MapInv, HoldInv, Moves,
           \A e \in Held : tok'[e].fid = tok[e].fid,
           \A d \in Rids : \/ tok'[d].span = {}
                           \/ /\ tok'[d].kind = tok[d].kind /\ tok'[d].drid = tok[d].drid
                              /\ \/ tok'[d].span = tok[d].span
                                 \/ tok'[d].span = tok[d].span \cup {ring.idx} /\ Ready /\ Stays
    PROVE  \A e \in Held : (\A d \in About(e) : Safe(tok[e].fid, tok[d].span))'
<1> SUFFICES ASSUME NEW e \in Held, NEW d \in Rids,
                    d = e \/ (tok'[d].kind = "deq" /\ tok'[d].drid = e)
             PROVE  Safe(tok[e].fid, tok[d].span)'
  BY DEF About
<1>1. /\ ~CanReset(file[tok[e].fid]) /\ ring.idx \in Files
      /\ tok'[e].fid = tok[e].fid /\ tok[d].span \subseteq Files
  BY HeldFacts, RingFacts DEF TypeOK, CallTypes, TokType
<1>2. PICK h \in Files : h = tok[e].fid
  BY HeldFacts
<1>3. CASE tok'[d].span = {}
  BY <1>3 DEF Safe, Behind
<1>4. CASE tok'[d].span # {}
  <2>1. PICK S \in SUBSET Files : S = tok[d].span
    BY <1>1
  <2>2. d \in About(e)
    BY <1>4 DEF About
  <2>3. Safe(h, S)
    BY <1>2, <2>1, <2>2 DEF HoldInv
  <2>4. Safe(h, S)'
    BY <1>1, <1>2, <2>3, SafeMoves
  <2>5. CASE tok'[d].span = S
    BY <1>1, <1>2, <2>4, <2>5 DEF Safe, Behind, Dist
  <2>6. CASE tok'[d].span = S \cup {ring.idx} /\ Ready /\ Stays
    <3>1. Behind(h, S)
      BY <2>3, <2>6 DEF Safe
    <3>2. Dist(h, ring.idx) <= Dist(h, ring.idx)
      BY <1>1, DistFacts
    <3>0. PICK U \in SUBSET Files : U = S \cup {ring.idx}
      BY <1>1
    <3>3. Behind(h, U)
      BY <2>6, <3>0, <3>1, <3>2 DEF Behind
    <3>4. Behind(h, U)'
      BY <2>6, <3>3 DEF Stays, Behind
    <3>5. tok'[d].span = U
      BY <2>1, <2>6, <3>0
    <3> QED BY <1>1, <1>2, <3>4, <3>5 DEF Safe, Behind, Dist
  <2> QED BY <1>4, <2>1, <2>5, <2>6
<1> QED BY <1>3, <1>4

\* A record still needed is a record held, a dequeue of one, or being written.
LEMMA NeededSafe ==
    ASSUME TypeOK, MapInv, HoldInv, OwnInv, NEW r \in Rids, Needed(r)
    PROVE  \E h \in Files : /\ Safe(h, tok[r].span)
                            /\ \/ ~CanReset(file[h])
                               \/ tok[r].st = "PART" /\ h = tok[r].fid /\ Behind(h, tok[r].span)
<1>1. ASSUME NEW e \in Held, r \in About(e)
      PROVE  \E h \in Files : Safe(h, tok[r].span) /\ ~CanReset(file[h])
  BY <1>1, HeldFacts DEF HoldInv
<1>2. ASSUME r \in Held
      PROVE  \E h \in Files : Safe(h, tok[r].span) /\ ~CanReset(file[h])
  BY <1>1, <1>2 DEF About
<1>3. CASE InEmap(r)
  BY <1>2, <1>3 DEF Held
<1>4. ASSUME NEW x \in Xids, DataExists(x, r)
      PROVE  \E h \in Files : Safe(h, tok[r].span) /\ ~CanReset(file[h])
  <2>1. PICK i \in DOMAIN tmap[x] : tmap[x][i].rid = r
    BY <1>4, ByPosition
  <2>2. CASE tmap[x][i].enq
    <3>1. r \in Adds(x)
      BY <2>1, <2>2, ByPosition
    <3> QED BY <1>2, <3>1 DEF Held
  <2>3. CASE ~tmap[x][i].enq
    <3> DEFINE e == tmap[x][i].drid
    <3>1. tok[r].kind = "deq" /\ tok[r].drid = e
      BY <2>1, <2>3 DEF MapInv, BookInv, EntryInv, EntryOf
    <3>2. e \in Rids
      BY <3>1 DEF TypeOK, TokShape
    <3>3. InEmap(e) \/ \E j \in 1 .. i - 1 : tmap[x][j].enq /\ tmap[x][j].rid = e
      BY <2>3 DEF MapInv, BookInv, OrderInv, OrderOf
    <3>4. \A j \in 1 .. i - 1 : j \in DOMAIN tmap[x]
      <4>1. DOMAIN tmap[x] = 1 .. Len(tmap[x]) /\ Len(tmap[x]) \in Nat
        BY EntryFacts DEF MapInv, BookInv
      <4> QED BY <4>1
    <3> HIDE DEF e
    <3>5. InEmap(e) \/ e \in Adds(x)
      BY <3>3, <3>4, ByPosition
    <3>6. e \in Held
      BY <3>2, <3>5 DEF Held
    <3>7. r \in About(e)
      BY <3>1 DEF About
    <3> QED BY <1>1, <3>6, <3>7
  <2> QED BY <2>2, <2>3
<1>5. CASE tok[r].st = "PART"
  <2>1. Writing(r) /\ OwnOf(r)
    BY <1>5 DEF Writing, OwnInv
  <2> QED BY <1>5, <2>1 DEF OwnOf, Safe
<1> QED BY <1>3, <1>4, <1>5 DEF Needed, Enqueued

\* So no part of it is in a file that is reset: neither in the current one, when it is
\* not ready, nor in the next one when the current one is full.
LEMMA NeededStays ==
    ASSUME TypeOK, MapInv, RecordsFit, HoldInv, OwnInv, NEW r \in Rids, Needed(r),
           NEW f \in Files, CanReset(file[f]),
           \/ f = ring.idx /\ ~Ready
           \/ f = After(ring.idx, 1) /\ Ready /\ pgCntr = FilePages
    PROVE  f \notin tok[r].span
<1>1. PICK h \in Files : /\ Safe(h, tok[r].span)
                         /\ \/ ~CanReset(file[h])
                            \/ tok[r].st = "PART" /\ h = tok[r].fid /\ Behind(h, tok[r].span)
  BY NeededSafe
<1>2. ring.idx \in Files
  BY RingFacts
<1>3. CASE f = ring.idx /\ ~Ready
  <2>1. Behind(h, tok[r].span)
    BY <1>1, <1>3 DEF Safe
  <2>2. f \in tok[r].span => Dist(h, f) < Dist(h, f)
    BY <1>3, <2>1 DEF Behind
  <2> QED BY <1>2, <1>3, <2>2, DistFacts
<1>4. CASE f = After(ring.idx, 1) /\ Ready /\ pgCntr = FilePages
  <2>1. h # f
    BY <1>1, <1>4, NotRound DEF OwnInv
  <2>2. Dist(h, f) = Dist(h, ring.idx) + 1
    BY <1>2, <1>4, <2>1, DistFacts
  <2>3. f \in tok[r].span => Dist(h, f) <= Dist(h, ring.idx)
    BY <1>1, <1>4 DEF Safe, Behind
  <2> QED BY <1>2, <2>2, <2>3, DistFacts
<1> QED BY <1>3, <1>4


-----------------------------------------------------------------------------
(* The steps.                                                              *)

TokenMoves == \A r \in Rids : Steady(r) \/ Cleared(r) \/ Settled(r)

\* The tokens of a step that leaves them alone.
LEMMA StillTokens == tok' = tok => TokenMoves
BY DEF TokenMoves, Steady, SameRecord

\* A step that leaves the ring where it is, and copies and submits nothing.
LEMMA PlaceKept ==
    ASSUME PlaceInv, ring' = ring, Ready' <=> Ready, Waits' => Waits,
           UNCHANGED <<pgCntr, pgOffset, cached>>,
           \A f \in Files : file'[f].subm = file[f].subm /\ (file[f].aio = 0 => file'[f].aio = 0),
           ring.idx \in Files, ReadyInv',
           op.pc = "reap" /\ op'.pc # "reap" => pgCntr < FilePages,
           pgCntr \in Nat,
           \/ op'.pc \in {"complete", "header"} \/ op.pc \notin {"complete", "header"}
           \/ file[ring.idx].subm # 0
    PROVE  PlaceInv'
<1>1. IF op'.pc = "reap" THEN pgCntr' <= FilePages ELSE pgCntr' < FilePages
  BY RingAssumption DEF PlaceInv
<1>2. pgCntr' = FilePages => pgOffset' = 0
  BY DEF PlaceInv
<1>3. \A f \in Files : f # ring'.idx \/ ~Ready' => file'[f].subm \in {0, FullDblks}
  BY DEF PlaceInv
<1>4. \A f \in Files : file'[f].subm = 0 => file'[f].aio = 0
  BY DEF PlaceInv
<1>5. Waits' => file'[ring'.idx].subm = FullDblks
  BY DEF PlaceInv
<1>6. ~Ready' => pgCntr' = 0 /\ pgOffset' = 0
  BY DEF PlaceInv
<1>7. Ready' => Opening' \/ Filling'
  BY DEF PlaceInv, Opening, Filling, Put
<1> QED BY <1>1, <1>2, <1>3, <1>4, <1>5, <1>6, <1>7 DEF PlaceInv, FullDblks, FileDblks

\* The records being written and those held, when the ring moves as it may.
LEMMA TokensTurn ==
    ASSUME TypeOK, TypeOK', MapInv, RecordsFit, OwnInv, HoldInv, Moves, TokenMoves, Held' = Held,
           op'.pc # "complete", op.pc # "complete",
           Turns => pgCntr = FilePages /\ pgCntr' = 0 /\ pgOffset' = pgOffset,
           (\E r \in Rids : tok[r].st = "PART") /\ ~Turns =>
               Put' = Put /\ (pgOffset \in {0, PageDblks} => pgOffset' \in {0, PageDblks})
    PROVE  OwnInv' /\ HoldInv'
<1>1. ASSUME NEW r \in Rids PROVE OwnOf(r)'
  <2>1. OwnOf(r) /\ (Steady(r) \/ Cleared(r) \/ Settled(r))
    BY DEF OwnInv, TokenMoves
  <2>2. tok'[r].st = "PART" => tok[r].st = "PART"
    BY <2>1 DEF Steady, Cleared, Settled, Whole
  <2>3. tok[r].st = "PART" => pgOffset \in {0, PageDblks}
    BY <2>1 DEF OwnOf, Writing
  <2>4. tok'[r].st = "PART" => pgOffset' \in {0, PageDblks}
    BY <2>2, <2>3
  <2> QED BY <2>1, <2>4, OwnKept
<1>2. \A e \in Held : tok'[e].fid = tok[e].fid
  BY HeldFacts DEF TokenMoves, Steady, Cleared, Settled
<1>3. \A d \in Rids : \/ tok'[d].span = {}
                      \/ /\ tok'[d].kind = tok[d].kind /\ tok'[d].drid = tok[d].drid
                         /\ tok'[d].span = tok[d].span
  BY DEF TokenMoves, Steady, Cleared, Settled, SameRecord
<1>4. \A e \in Held : (\A d \in About(e) : Safe(tok[e].fid, tok[d].span))'
  BY <1>2, <1>3, HoldKept
<1> QED BY <1>1, <1>4 DEF OwnInv, HoldInv

\* Both together.
LEMMA QuietTurn ==
    ASSUME AioInv, AioInv', RecordsFit, PlaceInv, OwnInv, HoldInv, TokenMoves, UNCHANGED Promise,
           ring' = ring, Ready' <=> Ready, Waits' => Waits, UNCHANGED <<pgCntr, pgOffset, cached>>,
           \A f \in Files : file'[f].subm = file[f].subm /\ (file[f].aio = 0 => file'[f].aio = 0),
           ReadyInv', op.pc = "reap" /\ op'.pc # "reap" => pgCntr < FilePages,
           op'.pc # "complete", op.pc # "complete",
           op.pc = "header" => op'.pc = "header" \/ file[ring.idx].subm # 0
    PROVE  TurnInv'
<1>1. TypeOK /\ TypeOK' /\ MapInv /\ Held' = Held
  BY HeldAfter DEF AioInv, MapsInv
<1>2. ring.idx \in Files /\ pgCntr \in Nat
  BY <1>1, RingFacts
<1>3. PlaceInv'
  BY <1>2, PlaceKept
<1>4. Moves /\ ~Turns
  <2>1. ring.idx # After(ring.idx, 1)
    BY <1>1, RingFacts
  <2> QED BY <2>1 DEF Moves, Stays, Turns
<1>5. OwnInv' /\ HoldInv'
  BY <1>1, <1>4, TokensTurn DEF Put
<1> QED BY <1>3, <1>5 DEF TurnInv

\* A call starts.
LEMMA CallerTurn ==
    ASSUME AioInv, AioInv', CopyInv, RecordsFit, PlaceInv, OwnInv, HoldInv, Caller
    PROVE  TurnInv'
<1>1. /\ TypeOK /\ TypeOK' /\ op.pc = "idle" /\ op'.pc \in {"check", "flush"} /\ op'.res = "SUCCESS"
      /\ op'.pc = "flush" => op'.kind = "flush"
      /\ UNCHANGED <<file, ring, pgCntr, pgOffset, cached>>
  BY DEF AioInv, MapsInv, Caller, CallEnqueue, CallDequeue, CallEnd, NewCall, Retry, CallFlush,
         Start, NoOp, At, fileVars, pageVars
<1>2. ~Waits /\ ~Waits' /\ (Ready' <=> Ready)
  BY <1>1 DEF Waits, Ready
<1>3. ReadyInv'
  BY <1>1 DEF PlaceInv, ReadyInv, Going, Kinds
<1>4. UNCHANGED Promise
  BY <1>1, CallerPromise
<1>5. TokenMoves
  <2>1. ASSUME NEW k \in Kinds, NEW r \in Rids, NEW x \in Xids \cup {NoXid},
               NEW d \in Rids \cup {NoRid}, NEW n \in EnqSizes \cup {CtlDblks},
               NewCall(k, r, x, d, n)
        PROVE  TokenMoves
    <3>1. tok' = [tok EXCEPT ![r] = NewTok(k, x, d, n)] /\ tok[r].kind = "none"
      BY <2>1 DEF NewCall, NextRid, Used
    <3>2. tok \in [Rids -> TokType] /\ tok[r].st = "NONE"
      BY <1>1, <3>1 DEF TypeOK, CallTypes, TokShape
    <3>3. tok'[r] = NewTok(k, x, d, n) /\ \A s \in Rids \ {r} : tok'[s] = tok[s]
      BY <3>1, <3>2
    <3>4. NewTok(k, x, d, n).st = "NONE" /\ NewTok(k, x, d, n).span = {}
          /\ NewTok(k, x, d, n).size = n
      BY DEF NewTok, NoTok
    <3>5. Cleared(r)
      BY <3>2, <3>3, <3>4 DEF Cleared, Whole
    <3> QED BY <3>3, <3>5 DEF TokenMoves, Steady, SameRecord
  <2>2. \/ tok' = tok
        \/ \E k \in Kinds, r \in Rids, x \in Xids \cup {NoXid}, d \in Rids \cup {NoRid},
              n \in EnqSizes \cup {CtlDblks} : NewCall(k, r, x, d, n)
    <3> DEFINE Starts == \E k \in Kinds, r \in Rids, x \in Xids \cup {NoXid},
                            d \in Rids \cup {NoRid}, n \in EnqSizes \cup {CtlDblks} :
                                NewCall(k, r, x, d, n)
    <3>1. ASSUME NEW r \in Rids, CallEnqueue(r) PROVE Starts
      <4>1. PICK x \in Xids \cup {NoXid}, n \in EnqSizes : NewCall("enq", r, x, NoRid, n)
        BY <3>1 DEF CallEnqueue
      <4> QED BY <4>1 DEF Kinds
    <3>2. ASSUME NEW r \in Rids, CallDequeue(r) PROVE Starts
      <4>1. PICK x \in Xids \cup {NoXid}, d \in Rids : NewCall("deq", r, x, d, CtlDblks)
        BY <3>2 DEF CallDequeue
      <4> QED BY <4>1 DEF Kinds
    <3>3. ASSUME NEW r \in Rids, CallEnd(r) PROVE Starts
      <4>1. PICK k \in {"abort", "commit"}, x \in Xids : NewCall(k, r, x, NoRid, CtlDblks)
        BY <3>3 DEF CallEnd
      <4> QED BY <4>1 DEF Kinds
    <3>4. (\E r \in Rids : Retry(r)) \/ CallFlush => tok' = tok
      BY DEF Retry, CallFlush
    <3> QED BY <3>1, <3>2, <3>3, <3>4 DEF Caller
  <2> QED BY <2>1, <2>2, StillTokens
<1> QED BY <1>1, <1>2, <1>3, <1>4, <1>5, QuietTurn


\* The current file is reset, when it was left by a wait or found full.
LEMMA OpensTurn ==
    ASSUME AioInv, AioInv', CopyInv, RecordsFit, PlaceInv, OwnInv, HoldInv, UNCHANGED Promise,
           tok' = tok, UNCHANGED <<pgCntr, pgOffset, cached>>,
           file' = [file EXCEPT ![ring.idx] = WrReset(@)], CanReset(file[ring.idx]),
           ring'.idx = ring.idx, ~Ready, ring'.resetOk, ~Waits',
           op.pc # "complete", op'.pc \notin {"complete", "reap"}
    PROVE  TurnInv'
<1>1. /\ TypeOK /\ TypeOK' /\ MapInv /\ Held' = Held
      /\ file \in [Files -> FileType] /\ ring.idx \in Files
      /\ cached \in Nat /\ cached <= pgOffset /\ FilePages \in Nat /\ FilePages > 0
      /\ After(ring.idx, 1) # ring.idx
  BY HeldAfter, RingFacts, RingAssumption DEF AioInv, MapsInv
<1>2. Ready' /\ pgCntr = 0 /\ pgOffset = 0 /\ cached = 0
  BY <1>1 DEF PlaceInv, Ready
<1>3. Opens /\ Moves /\ ~Turns
  BY <1>1, <1>2 DEF Opens, Moves, Turns
<1>4. OwnInv' /\ HoldInv'
  BY <1>1, <1>3, TokensTurn, StillTokens DEF Put
<1>5. /\ file'[ring.idx].subm = 0 /\ file'[ring.idx].aio = 0
      /\ \A f \in Files \ {ring.idx} : file'[f] = file[f]
  BY <1>1 DEF WrReset, CanReset, FileType
<1>6. PlaceInv'
  <2>1. ReadyInv'
    BY DEF ReadyInv
  <2>2. Opening'
    BY <1>2, <1>5 DEF Opening
  <2>3. pgCntr' < FilePages /\ pgCntr' # FilePages
    BY <1>1, <1>2
  <2> QED BY <1>2, <1>5, <2>1, <2>2, <2>3 DEF PlaceInv, FullDblks, FileDblks
<1> QED BY <1>4, <1>6 DEF TurnInv

\* The checks.
LEMMA CheckTurn ==
    ASSUME AioInv, AioInv', CopyInv, RecordsFit, PlaceInv, OwnInv, HoldInv, Check
    PROVE  TurnInv'
<1>1. /\ TypeOK /\ TypeOK' /\ MapInv /\ op \in OpType /\ op.pc = "check" /\ op.kind \in Kinds
      /\ op.res = "SUCCESS" /\ tok' = tok /\ UNCHANGED <<pgCntr, pgOffset, cached, fault>>
  BY OpKinds
     DEF AioInv, MapsInv, CopyInv, ResultInv, TypeOK, CallTypes, Check, CheckBusy, CheckFull,
         CheckPage, CheckRefused, CheckOk, PageChecked, FileChecked, At, pageVars
<1>2. /\ op'.kind = op.kind /\ op'.pc \in {"encode", "exit"} /\ (op'.pc = "encode" => CheckOk)
      /\ op'.res # "FILE_AIOWAIT"
  <2>1. CASE CheckOk
    <3>1. op' = [op EXCEPT !.pc = "encode"]
      BY <2>1 DEF CheckOk, Goto
    <3> QED BY <1>1, <2>1, <3>1, OpAfter
  <2>2. CASE ~CheckOk
    <3>1. PICK res \in {"BUSY", "FULL", "PAGE_AIOWAIT", "ENQCAPTHRESH", "ENQDISCONT", "DEQREFUSED"} :
              op' = [op EXCEPT !.pc = "exit", !.res = res]
      BY <2>2 DEF Check, CheckBusy, CheckFull, CheckPage, CheckRefused, Return
    <3> QED BY <1>1, <3>1, OpAfter
  <2> QED BY <2>1, <2>2
<1>3. ~Waits /\ ~Waits'
  BY <1>1, <1>2 DEF Waits
<1>4. UNCHANGED Promise
  BY <1>1, HolderPromise
<1>5. ring \in RingType /\ \A f \in Files : file[f].subm \in Nat
  BY <1>1, RingFacts
<1>6. CASE UNCHANGED <<file, ring>>
  <2>1. ReadyInv'
    <3>1. CheckOk => ring'.resetOk
      BY <1>1, <1>5 DEF CheckOk, PageChecked, FileChecked, RingType
    <3> QED BY <1>1, <1>2, <1>6, <3>1 DEF PlaceInv, ReadyInv, Going
  <2>2. Ready' <=> Ready
    BY <1>3, <1>6 DEF Ready
  <2> QED BY <1>1, <1>2, <1>3, <1>4, <1>6, <2>1, <2>2, QuietTurn, StillTokens
<1>7. CASE ~UNCHANGED <<file, ring>>
  <2>1. /\ FileReady /\ file' = FilesReset /\ ring' = [ring EXCEPT !.resetOk = TRUE]
    BY <1>7 DEF Check, CheckBusy, CheckFull, CheckPage, CheckRefused, CheckOk, PageChecked,
                FileChecked, fileVars
  <2>2. ring'.idx = ring.idx /\ ring'.resetOk
    BY <1>5, <2>1 DEF RingType
  <2>3. ~ring.resetOk
    BY <1>5, <1>7, <2>1 DEF FilesReset, RingType
  <2>4. CanReset(file[ring.idx]) /\ file' = [file EXCEPT ![ring.idx] = WrReset(@)] /\ ~Ready
    BY <2>1, <2>3 DEF FileReady, FilesReset, Ready
  <2> QED BY <1>1, <1>2, <1>3, <1>4, <2>2, <2>4, OpensTurn
<1> QED BY <1>6, <1>7

\* The end of the wait for a file: it is reset if it can be.
LEMMA WaitFileTurn ==
    ASSUME AioInv, AioInv', CopyInv, RecordsFit, PlaceInv, OwnInv, HoldInv, WaitFile
    PROVE  TurnInv'
<1>1. /\ TypeOK /\ op.pc = "wait" /\ op.res = "FILE_AIOWAIT" /\ cached = 0
      /\ tok' = tok /\ UNCHANGED <<pgCntr, pgOffset, cached, fault>>
      /\ file' = [file EXCEPT ![ring.idx] = WrReset(@)]
      /\ ring' = [ring EXCEPT !.resetOk = CanReset(file[ring.idx])]
  BY DEF AioInv, MapsInv, CopyInv, ResultInv, FlushedOut, WaitFile, At, pageVars
<1>2. ring'.idx = ring.idx /\ ring'.resetOk = CanReset(file[ring.idx]) /\ ring \in RingType
  BY <1>1, RingFacts DEF RingType
<1>3. op'.pc \in {"idle", "check"}
  <2>1. op' = NoOp \/ op' = [NoOp EXCEPT !.pc = "check", !.kind = op.kind, !.rid = op.rid]
    BY DEF WaitFile, Start
  <2>2. CASE op' = NoOp
    BY <2>2 DEF NoOp
  <2>3. CASE op' = [NoOp EXCEPT !.pc = "check", !.kind = op.kind, !.rid = op.rid]
    <3>1. op'.pc = "check"
      BY <2>3, OpNew
    <3> QED BY <3>1
  <2> QED BY <2>1, <2>2, <2>3
<1>4. Waits /\ ~Waits' /\ ~Ready
  BY <1>1, <1>3 DEF Waits, Ready
<1>5. UNCHANGED Promise
  BY <1>1, HolderPromise DEF AioInv, MapsInv, Wait
<1>6. CASE CanReset(file[ring.idx])
  BY <1>1, <1>2, <1>3, <1>4, <1>5, <1>6, OpensTurn
<1>7. CASE ~CanReset(file[ring.idx])
  <2>1. file' = file
    BY <1>1, <1>7, RingFacts DEF WrReset
  <2>2. ~Ready' /\ ring'.idx = ring.idx
    BY <1>2, <1>7 DEF Ready
  <2>3. PlaceInv'
    <3>1. pgCntr = 0 /\ pgOffset = 0 /\ FilePages \in Nat /\ FilePages > 0
      BY <1>4, RingAssumption DEF PlaceInv
    <3>2. ReadyInv'
      BY <1>1, <1>3 DEF ReadyInv, Going
    <3>3. pgCntr' < FilePages /\ pgCntr' # FilePages
      BY <1>1, <3>1
    <3> QED BY <1>1, <1>3, <1>4, <2>1, <2>2, <3>1, <3>2, <3>3 DEF PlaceInv, FullDblks, FileDblks
  <2>4. Moves /\ ~Turns
    BY <1>4, <2>2 DEF Moves, Stays, Turns
  <2>5. Held' = Held /\ TypeOK' /\ MapInv
    BY <1>5, HeldAfter DEF AioInv, MapsInv
  <2>6. OwnInv' /\ HoldInv'
    BY <1>1, <1>3, <2>4, <2>5, TokensTurn, StillTokens DEF Put
  <2> QED BY <2>3, <2>6 DEF TurnInv
<1> QED BY <1>6, <1>7

\* The end of a call, and the waits that end without the file being reset: a call that
\* gives up the wait for a file leaves the journal unable to write.
LEMMA ExitTurn ==
    ASSUME AioInv, AioInv', CopyInv, RecordsFit, PlaceInv, OwnInv, HoldInv,
           Exit \/ WaitPage \/ WaitTimeout
    PROVE  TurnInv'
<1>1. /\ TypeOK /\ op \in OpType /\ op.pc \in {"exit", "wait"}
      /\ UNCHANGED <<file, ring, pgCntr, pgOffset, cached, fault>>
      /\ tok \in [Rids -> TokType]
  BY DEF AioInv, MapsInv, TypeOK, CallTypes, Exit, WaitPage, WaitTimeout, At, fileVars, pageVars
<1>2. /\ op'.pc \in {"wait", "idle", "check", "exit"}
      /\ op'.pc \in {"wait", "exit"} /\ op'.res = "FILE_AIOWAIT" => Waits
  <2>1. \/ op' = [op EXCEPT !.pc = "wait"] /\ op.pc = "exit"
        \/ op' = NoOp
        \/ op' = [NoOp EXCEPT !.pc = "check", !.kind = op.kind, !.rid = op.rid]
        \/ op' = [op EXCEPT !.pc = "exit", !.res = "AIOCMPLWAIT"]
    BY DEF Exit, WaitPage, WaitTimeout, Goto, Start, Return, At
  <2>2. CASE op' = [op EXCEPT !.pc = "wait"] /\ op.pc = "exit"
    <3>1. op'.pc = "wait" /\ op'.res = op.res
      BY <1>1, <2>2, OpAfter
    <3> QED BY <2>2, <3>1 DEF Waits
  <2>3. CASE op' = NoOp
    BY <2>3 DEF NoOp
  <2>4. CASE op' = [NoOp EXCEPT !.pc = "check", !.kind = op.kind, !.rid = op.rid]
    BY <2>4, OpNew
  <2>5. CASE op' = [op EXCEPT !.pc = "exit", !.res = "AIOCMPLWAIT"]
    <3>1. op'.pc = "exit" /\ op'.res = "AIOCMPLWAIT"
      BY <1>1, <2>5, OpAfter
    <3> QED BY <3>1
  <2> QED BY <2>1, <2>2, <2>3, <2>4, <2>5
<1>3. Waits' => Waits
  BY <1>2 DEF Waits
<1>4. UNCHANGED Promise
  BY <1>1, HolderPromise DEF AioInv, MapsInv, Wait
<1>5. TokenMoves
  <2>1. \A r \in Rids : tok'[r] = tok[r] \/ (tok'[r] = NoTok /\ tok[r].st = "NONE")
    BY <1>1 DEF Exit, WaitPage, WaitTimeout
  <2> QED BY <2>1 DEF TokenMoves, Steady, SameRecord, Cleared, NoTok, Whole
<1>6. ReadyInv'
  BY <1>1, <1>2 DEF PlaceInv, ReadyInv, Going
<1>7. CASE Ready' <=> Ready
  BY <1>1, <1>2, <1>3, <1>4, <1>5, <1>6, <1>7, QuietTurn DEF PlaceInv
<1>8. CASE ~(Ready' <=> Ready)
  <2>1. Waits /\ ~Ready /\ Ready'
    BY <1>1, <1>3, <1>8 DEF Ready
  <2>2. Stale'
    BY <1>1, <2>1 DEF PlaceInv, Stale, FullDblks, FileDblks
  <2> QED BY <2>2 DEF TurnInv
<1> QED BY <1>7, <1>8

\* A completion takes writes from the files, and no more.
LEMMA KernelTurn ==
    ASSUME AioInv, AioInv', CopyInv, RecordsFit, PlaceInv, OwnInv, HoldInv, Kernel
    PROVE  TurnInv'
<1>1. /\ TypeOK /\ TypeOK' /\ MapInv /\ UseInv /\ TokenUse /\ AioAccounted
      /\ file \in [Files -> FileType] /\ page \in [Pages -> PageType] /\ tok \in [Rids -> TokType]
  BY DEF AioInv, MapsInv, UseInv, TypeOK, FileTypes, PageTypes, CallTypes
<1>2. UNCHANGED <<ring, pgCntr, pgOffset, cached, op>> /\ op.pc \in {"idle", "reap", "wait"}
  BY DEF Kernel, ReapPage, ReapHeader, Reaping
<1>3. /\ \A f \in Files : /\ file'[f].subm = file[f].subm
                          /\ file'[f].aio = file[f].aio \/ file'[f].aio = file[f].aio - 1
      /\ TokenMoves
  <2>1. ASSUME NEW f \in Files, NEW fc, file' = [file EXCEPT ![f] = fc],
               fc.subm = file[f].subm, fc.aio = file[f].aio - 1
        PROVE  \A g \in Files : file'[g].subm = file[g].subm
                     /\ (file'[g].aio = file[g].aio \/ file'[g].aio = file[g].aio - 1)
    BY <1>1, <2>1
  <2>2. ASSUME NEW p \in Pages, ReapPage(p)
        PROVE  /\ \A g \in Files : file'[g].subm = file[g].subm
                     /\ (file'[g].aio = file[g].aio \/ file'[g].aio = file[g].aio - 1)
               /\ TokenMoves
    <3>1. /\ fault' = "none" /\ fault = "none" /\ page[p].st = "AIO_PENDING"
          /\ tok' = [r \in Rids |-> IF r \in page[p].toks
                THEN [tok[r] EXCEPT !.pgs = @ - 1, !.st = IF r \in Arrived(p) THEN "COMPL" ELSE @]
                ELSE tok[r]]
      BY <1>1, <2>2, ReapsCleanly
    <3>2. page[p].wfh \in Files
      BY <1>1, <3>1 DEF TypeOK, PageShape
    <3>3. file' = [file EXCEPT ![page[p].wfh] = Complete(@, page[p].wd)]
      BY <2>2, <3>1 DEF ReapPage, Throw
    <3>4. /\ Complete(file[page[p].wfh], page[p].wd).subm = file[page[p].wfh].subm
          /\ Complete(file[page[p].wfh], page[p].wd).aio = file[page[p].wfh].aio - 1
      BY <1>1, <3>2 DEF Complete, FileType
    <3>5. TokenMoves
      <4> SUFFICES ASSUME NEW r \in Rids PROVE Steady(r) \/ Cleared(r) \/ Settled(r)
        BY DEF TokenMoves
      <4>1. CASE r \in Arrived(p)
        <5>1. r \in page[p].toks
          BY <4>1 DEF Arrived
        <5>2. tok'[r] = [tok[r] EXCEPT !.pgs = @ - 1, !.st = "COMPL"]
          BY <3>1, <4>1, <5>1
        <5> QED BY <1>1, <5>2 DEF Settled, SameRecord, Whole, TokType
      <4>2. CASE r \notin Arrived(p)
        <5>1. tok'[r] = tok[r] \/ tok'[r] = [tok[r] EXCEPT !.pgs = @ - 1, !.st = @]
          BY <3>1, <4>2
        <5> QED BY <1>1, <5>1 DEF Steady, SameRecord, TokType
      <4> QED BY <4>1, <4>2
    <3> QED BY <2>1, <3>1, <3>2, <3>3, <3>4, <3>5
  <2>3. ASSUME NEW f \in Files, ReapHeader(f)
        PROVE  /\ \A g \in Files : file'[g].subm = file[g].subm
                     /\ (file'[g].aio = file[g].aio \/ file'[g].aio = file[g].aio - 1)
               /\ TokenMoves
    <3>1. fault' = "none" /\ fault = "none" /\ tok' = tok
      BY <1>1, <2>3, HeaderReapedAcc DEF ReapHeader
    <3>2. file' = [file EXCEPT ![f] = [Complete(@, SblkDblks) EXCEPT !.fhdr = FALSE]]
      BY <2>3, <3>1 DEF ReapHeader, Throw
    <3> DEFINE fc == [Complete(file[f], SblkDblks) EXCEPT !.fhdr = FALSE]
    <3>3. fc.subm = file[f].subm /\ fc.aio = file[f].aio - 1
      BY <1>1 DEF Complete, FileType
    <3>4. file' = [file EXCEPT ![f] = fc]
      BY <3>2
    <3> HIDE DEF fc
    <3> QED BY <2>1, <3>1, <3>3, <3>4, StillTokens
  <2> QED BY <2>2, <2>3 DEF Kernel
<1>4. \A f \in Files : file[f].aio = 0 => file'[f].aio = 0
  <2>1. \A f \in Files : file'[f].aio \in Nat /\ file[f].aio \in Nat
    BY <1>1 DEF TypeOK, FileTypes, FileType
  <2> QED BY <1>3, <2>1
<1>5. ReadyInv' /\ (Ready' <=> Ready) /\ (Waits' <=> Waits)
  BY <1>2 DEF PlaceInv, ReadyInv, Going, Ready, Waits
<1>6. UNCHANGED Promise
  BY <1>1, KernelPromise
<1> QED BY <1>2, <1>3, <1>4, <1>5, <1>6, QuietTurn


\* A turn of the copy loop: the part goes to a file that is ready, and the record
\* reaches back from there to its header.
LEMMA EncodeTurn ==
    ASSUME AioInv, AioInv', CopyInv, RecordsFit, PlaceInv, OwnInv, HoldInv, Encode
    PROVE  TurnInv'
<1> DEFINE room == PageDblks - pgOffset
           left == T.size - T.written
           n    == IF left < room THEN left ELSE room
           t    == [T EXCEPT !.fid     = IF T.written = 0 THEN ring.idx ELSE T.fid,
                             !.written = T.written + n,
                             !.pgs     = T.pgs + 1,
                             !.span    = T.span \cup {ring.idx},
                             !.st      = IF n = left THEN T.st ELSE "PART"]
           pc   == IF n = left THEN "complete" ELSE "header"
<1>1. /\ TypeOK /\ UseInv /\ MapInv /\ BusyInv /\ op \in OpType /\ SizeInv /\ op.res = "SUCCESS"
      /\ op.pc = "encode" /\ fault = "none" /\ UNCHANGED <<file, ring, pgCntr>>
  BY DEF AioInv, MapsInv, CopyInv, ResultInv, TypeOK, CallTypes, Encode, At, fileVars
<1>2. /\ op.rid \in Rids /\ op.kind \in Kinds /\ T \in TokType /\ T = tok[op.rid]
      /\ T.kind = op.kind /\ tok \in [Rids -> TokType]
      /\ T.size \in Nat /\ T.written \in Nat /\ T.span \subseteq Files
  <2>1. op.rid \in Rids /\ op.kind \in Kinds /\ T \in TokType /\ T.kind = op.kind
    BY <1>1, OpKinds
  <2> QED BY <1>1, <2>1 DEF TypeOK, CallTypes, TokType, T
<1>3. /\ pgOffset < PageDblks /\ pgOffset \in Nat /\ PageDblks \in Nat /\ cached \in Nat
      /\ cached <= pgOffset /\ ring.idx \in Files /\ SblkDblks \in Nat
  <2>1. pgOffset # PageDblks
    BY <1>1, NotFull
  <2> QED BY <1>1, <2>1, RingFacts
<1>4. /\ T.written < T.size /\ T.st \in {"NONE", "PART"}
      /\ T.st = "NONE" => T.written = 0
  <2>1. T.st \in {"NONE", "PART"}
    BY <1>1, <1>2 DEF MapInv, TokInv, CallInv, TokType, Whole
  <2>2. SizeOf(op.rid)
    BY <1>1, <1>2 DEF SizeInv
  <2>3. T.kind # "none"
    BY <1>2 DEF Kinds
  <2> QED BY <1>1, <1>2, <2>1, <2>2, <2>3 DEF SizeOf
<1>5. /\ n \in Nat /\ n > 0 /\ n <= PageDblks - pgOffset
      /\ n # left => n = PageDblks - pgOffset
  BY <1>2, <1>3, <1>4
<1>6. /\ tok' = [tok EXCEPT ![op.rid] = t] /\ op' = [op EXCEPT !.pc = pc]
      /\ cached' = cached + n /\ pgOffset' = pgOffset + n
  BY DEF Encode, Goto
<1>21. cached' = cached + n /\ pgOffset' = pgOffset + n
  BY <1>6
<1>7. /\ t.kind = T.kind /\ t.drid = T.drid /\ t.size = T.size /\ t.written = T.written + n
      /\ t.span = T.span \cup {ring.idx}
      /\ t.fid = (IF T.written = 0 THEN ring.idx ELSE T.fid)
      /\ t.st = (IF n = left THEN T.st ELSE "PART")
  BY <1>2 DEF TokType
<1>8. op'.pc = pc /\ op'.rid = op.rid /\ op'.kind = op.kind /\ op'.res = "SUCCESS"
  <2> HIDE DEF pc
  <2> QED BY <1>1, <1>6, OpAfter
<1>9. tok'[op.rid] = t /\ \A r \in Rids \ {op.rid} : tok'[r] = tok[r]
  BY <1>2, <1>6
<1>10. pc \in {"complete", "header"} /\ (pc = "complete" <=> n = left)
  OBVIOUS
<1>11. n # left => pgOffset' = PageDblks
  BY <1>3, <1>5, <1>6
<1>12. t.st = "NONE" => n = left
  BY <1>7
<1> HIDE DEF n, t, pc, left, room
<1>13. ring.resetOk /\ Ready /\ Ready' /\ ~Waits' /\ Stays
  BY <1>1, <1>2, <1>8, <1>10 DEF PlaceInv, ReadyInv, Going, Ready, Waits, Stays
<1>14. pgCntr < FilePages /\ pgCntr \in Nat /\ FilePages \in Nat
  BY <1>1, RingFacts DEF PlaceInv
<1> DEFINE base == pgCntr * PageDblks
<1>15. /\ base \in Nat /\ FileDblks \in Nat /\ base + PageDblks <= FileDblks
       /\ Put = base + pgOffset /\ Put' = base + pgOffset'
  BY <1>1, <1>14, PutFacts, RingFacts DEF Put
<1> HIDE DEF base
<1>16. PlaceInv'
  <2>1. ReadyInv'
    BY <1>1, <1>13 DEF ReadyInv
  <2>2. Opening => Opening'
    <3>1. pgOffset = cached => pgOffset' = cached'
      BY <1>6
    <3> QED BY <1>1, <1>8, <1>10, <3>1 DEF Opening
  <2>3. Filling => Filling'
    <3>1. SblkDblks + (base + pgOffset) - cached = SblkDblks + (base + pgOffset') - cached'
      BY <1>3, <1>5, <1>21, <1>15
    <3>2. ASSUME file[ring.idx].subm = SblkDblks + Put - cached
          PROVE  file[ring.idx].subm = SblkDblks + Put' - cached'
      BY <1>15, <3>1, <3>2
    <3> QED BY <1>1, <3>2 DEF Filling
  <2>4. pgCntr' < FilePages /\ pgCntr' # FilePages
    BY <1>1, <1>14
  <2> QED BY <1>1, <1>8, <1>10, <1>13, <2>1, <2>2, <2>3, <2>4 DEF PlaceInv, FullDblks, FileDblks
<1>17. ASSUME NEW r \in Rids, r # op.rid PROVE OwnOf(r)'
  <2>1. tok'[r] = tok[r] /\ OwnOf(r)
    BY <1>9, <1>17 DEF OwnInv
  <2>2. tok[r].st # "PART"
    BY <1>1, <1>2, <1>17 DEF BusyInv, Working, HalfWritten, Kinds
  <2>3. ~Writing(r) /\ ~Writing(r)'
    BY <1>1, <1>8, <1>17, <2>1, <2>2 DEF Writing
  <2> QED BY <2>1, <2>3 DEF OwnOf
<1>18. OwnOf(op.rid)'
  <2>1. OwnOf(op.rid) /\ (T.st = "PART" => Writing(op.rid))
    BY <1>2 DEF OwnInv, Writing
  <2>2. PICK i \in Files : i = ring.idx
    BY <1>3
  <2>3. Dist(i, i) = 0
    BY DistFacts
  <2>4. /\ t.fid \in Files /\ Behind(t.fid, t.span)
        /\ t.written + FileDblks > Dist(t.fid, i) * FileDblks + Put'
    <3>1. CASE T.st = "NONE"
      <4>1. t.fid = i /\ t.span = {i} /\ T.written = 0
        <5>1. ~Writing(op.rid)
          BY <1>1, <1>2, <3>1 DEF Writing
        <5> QED BY <1>2, <1>4, <1>7, <2>1, <2>2, <3>1, <5>1 DEF OwnOf
      <4>2. Behind(i, {i})
        BY <1>13, <2>2, <2>3 DEF Behind
      <4>3. Dist(i, i) * FileDblks = 0
        BY <1>15, <2>3
      <4>4. n + FileDblks > base + (pgOffset + n)
        BY <1>3, <1>5, <1>15
      <4>5. t.written = n
        BY <1>5, <1>7, <4>1
      <4>6. Put' = base + (pgOffset + n) /\ Put' \in Nat
        BY <1>3, <1>5, <1>15, <1>21
      <4>7. Dist(t.fid, i) * FileDblks + Put' = base + (pgOffset + n)
        BY <4>1, <4>3, <4>6
      <4> QED BY <4>1, <4>2, <4>4, <4>5, <4>7
    <3>2. CASE T.st = "PART"
      <4>1. /\ T.written > 0 /\ T.fid \in Files /\ Behind(T.fid, T.span)
            /\ T.written + FileDblks > Dist(T.fid, i) * FileDblks + Put
        BY <1>2, <2>1, <2>2, <3>2 DEF OwnOf
      <4>2. PICK h \in Files : h = T.fid
        BY <4>1
      <4>3. t.fid = h
        BY <1>2, <1>7, <4>1, <4>2
      <4>4. Dist(h, i) \in Nat
        BY DistFacts
      <4>5. Behind(h, T.span \cup {i})
        BY <1>13, <2>2, <4>1, <4>2, <4>4 DEF Behind
      <4> DEFINE far == Dist(h, i) * FileDblks
      <4>6. far \in Nat /\ T.written + FileDblks > far + Put
        BY <1>15, <4>1, <4>2, <4>4
      <4> HIDE DEF far
      <4>7. T.written + n + FileDblks > far + (base + (pgOffset + n))
        BY <1>2, <1>3, <1>5, <1>15, <4>6
      <4> QED BY <1>6, <1>7, <1>15, <2>2, <4>3, <4>5, <4>7 DEF far
    <3> QED BY <1>4, <3>1, <3>2
  <2>5. Behind(tok[op.rid].fid, tok[op.rid].span)'
    <3>0. PICK h \in Files : h = t.fid
      BY <2>4
    <3>1. PICK S : h = t.fid /\ S = t.span
      BY <3>0
    <3>2. Behind(h, S)
      BY <2>4, <3>1
    <3>3. tok'[op'.rid].fid = h /\ tok'[op'.rid].span = S
      BY <1>8, <1>9, <3>1
    <3> QED BY <1>13, <3>2, <3>3 DEF Behind, Dist, Stays
  <2>6. t.written > 0
    BY <1>2, <1>5, <1>7
  <2>7. t.size \in EnqSizes \cup {CtlDblks}
    BY <1>2, <1>7, <2>1 DEF OwnOf, Kinds
  <2>8. pgOffset' = PageDblks \/ op'.pc = "complete"
    BY <1>8, <1>10, <1>11
  <2>9. t.st = "NONE" => op'.pc = "complete"
    BY <1>8, <1>10, <1>12
  <2>10. tok'[op.rid].written + FileDblks > Dist(tok'[op.rid].fid, ring'.idx) * FileDblks + Put'
    BY <1>1, <1>9, <2>2, <2>4
  <2>11. tok'[op.rid] = t /\ op'.rid = op.rid
    BY <1>8, <1>9
  <2> QED BY <2>4, <2>5, <2>6, <2>7, <2>8, <2>9, <2>10, <2>11 DEF OwnOf, Writing, FileDblks, Dist
<1>19. OwnInv'
  BY <1>17, <1>18, <1>8 DEF OwnInv
<1>20. HoldInv'
  <2>1. Held' = Held
    BY <1>1, HolderPromise, HeldAfter
  <2>2. \A e \in Held : tok'[e].fid = tok[e].fid
    BY <1>1, <1>2, <1>4, <1>9, HeldFacts DEF Whole
  <2>3. \A d \in Rids : \/ tok'[d].span = {}
                        \/ /\ tok'[d].kind = tok[d].kind /\ tok'[d].drid = tok[d].drid
                           /\ \/ tok'[d].span = tok[d].span
                              \/ tok'[d].span = tok[d].span \cup {ring.idx} /\ Ready /\ Stays
    BY <1>2, <1>7, <1>9, <1>13
  <2> QED BY <1>1, <1>13, <2>1, <2>2, <2>3, HoldKept DEF HoldInv, Moves
<1> QED BY <1>16, <1>19, <1>20 DEF TurnInv


\* The record is whole: if it is held from now on, no dequeue of it is there yet.
LEMMA RecordTurn ==
    ASSUME AioInv, AioInv', CopyInv, RecordsFit, PlaceInv, OwnInv, HoldInv, Record
    PROVE  TurnInv'
<1>1. /\ TypeOK /\ TypeOK' /\ MapInv /\ BusyInv /\ CallInv' /\ op \in OpType
      /\ tok \in [Rids -> TokType]
  BY DEF AioInv, MapsInv, MapInv, TokInv, TypeOK, CallTypes
<1>2. Recorded
  BY DEF Record, EnqueueTxn, EnqueueNonTxn, DequeueTxn, DequeueNonTxn, AbortTxn, CommitTxn,
         CloseTxn
<1>3. /\ op.pc = "complete" /\ op.kind \in Kinds /\ op.res = "SUCCESS" /\ op.rid \in Rids
      /\ UNCHANGED <<ring, pgCntr, pgOffset, cached>>
      /\ op' = [op EXCEPT !.pc = "header", !.done = TRUE]
      /\ tok' = [tok EXCEPT ![op.rid].st = "SUBM"]
      /\ tok[op.rid].st \notin Whole
      /\ \A r \in Rids \ {op.rid} : tok'[r] = tok[r] /\ tok[r].st # "PART"
  BY <1>1, <1>2, RecordFacts DEF CopyInv, ResultInv, Recorded, At, pageVars, T
<1>4. op'.pc = "header" /\ op'.kind = op.kind /\ op'.res = "SUCCESS"
  BY <1>1, <1>3, OpAfter
<1>5. /\ Ready /\ Ready' /\ ~Waits /\ ~Waits' /\ Stays /\ ReadyInv'
  BY <1>3, <1>4 DEF PlaceInv, ReadyInv, Going, Ready, Waits, Stays
<1>6. tok'[op.rid] = [tok[op.rid] EXCEPT !.st = "SUBM"]
  BY <1>1, <1>3
<1>7. TokenMoves /\ Settled(op.rid)
  <2>1. Settled(op.rid)
    BY <1>1, <1>3, <1>6 DEF Settled, SameRecord, Whole, TokType
  <2>2. \A r \in Rids \ {op.rid} : Steady(r)
    BY <1>3 DEF Steady, SameRecord
  <2> QED BY <2>1, <2>2 DEF TokenMoves
<1>8. PlaceInv'
  <2>1. \A f \in Files : file'[f].subm = file[f].subm /\ (file[f].aio = 0 => file'[f].aio = 0)
    BY <1>1, RecordFiles
  <2> QED BY <1>1, <1>3, <1>4, <1>5, <2>1, RingFacts, PlaceKept
<1>9. OwnInv'
  <2> SUFFICES ASSUME NEW r \in Rids PROVE OwnOf(r)'
    BY DEF OwnInv
  <2>1. OwnOf(r) /\ (Steady(r) \/ Cleared(r) \/ Settled(r))
    BY <1>7 DEF OwnInv, TokenMoves
  <2>2. tok'[r].st # "PART" /\ tok'[op.rid].st \in Whole
    BY <1>3, <1>7 DEF Settled, Whole
  <2>3. Moves /\ ~Turns /\ Put' = Put
    <3>1. After(ring.idx, 1) # ring.idx
      BY <1>1, RingFacts
    <3> QED BY <1>3, <1>5, <3>1 DEF Moves, Stays, Turns, Put
  <2> QED BY <1>1, <1>4, <2>1, <2>2, <2>3, OwnKept
<1>10. \A e \in Held : (\A d \in About(e) : Safe(tok[e].fid, tok[d].span))'
  <2>1. \A r \in Rids : /\ tok'[r].fid = tok[r].fid /\ tok'[r].span = tok[r].span
                        /\ tok'[r].kind = tok[r].kind /\ tok'[r].drid = tok[r].drid
    BY <1>3, <1>7 DEF Settled, SameRecord
  <2>2. \A e \in Held : tok'[e].fid = tok[e].fid
    BY <1>1, <2>1, HeldFacts
  <2> QED BY <1>1, <1>5, <2>1, <2>2, HoldKept DEF Moves
<1>11. \A e \in Held' : e \in Held \/ e = op.rid
  <2>1. MJ!Next
    BY <1>1, EnqueuePromise, DequeuePromise, EndPromise DEF Record
  <2>2. \A e : e \in Stored' /\ e \notin Stored => e = op.rid
    BY <1>1, <1>2, RecordStored
  <2> QED BY <2>1, <2>2, HeldAfter
<1>12. (\A d \in About(op.rid) : Safe(tok[op.rid].fid, tok[d].span))'
  <2> SUFFICES ASSUME NEW d \in Rids,
                      d = op'.rid \/ (tok'[d].kind = "deq" /\ tok'[d].drid = op'.rid)
               PROVE  Safe(tok[op.rid].fid, tok[d].span)'
    BY DEF About
  <2>1. op'.rid = op.rid
    BY <1>1, <1>2, RecordFacts
  <2>2. d = op.rid
    <3>1. ASSUME d # op.rid PROVE FALSE
      <4>1. tok[d].kind = "deq" /\ tok[d].drid = op.rid
        BY <1>3, <2>1, <3>1
      <4> QED BY <1>1, <1>3, <4>1 DEF MapInv, TokInv, DequeueInv
    <3> QED BY <3>1
  <2>3. PICK h, S : h = tok[op.rid].fid /\ S = tok[op.rid].span
    OBVIOUS
  <2>4. Behind(h, S)
    BY <1>3, <2>3 DEF OwnInv, OwnOf, Writing
  <2>5. tok'[op'.rid].fid = h /\ tok'[d].span = S
    BY <1>7, <2>1, <2>2, <2>3 DEF Settled
  <2> QED BY <1>5, <2>4, <2>5 DEF Safe, Behind, Dist, Stays
<1>13. HoldInv'
  <2>1. op'.rid = op.rid
    BY <1>1, <1>2, RecordFacts
  <2> QED BY <1>10, <1>11, <1>12, <2>1 DEF HoldInv, About
<1> QED BY <1>8, <1>9, <1>13 DEF TurnInv

\* A file gets its header: then it holds that and what is cached.
LEMMA HeaderTurn ==
    ASSUME AioInv, AioInv', CopyInv, RecordsFit, PlaceInv, OwnInv, HoldInv, FileHeaderCheck
    PROVE  TurnInv'
<1>1. /\ TypeOK /\ TypeOK' /\ MapInv /\ op \in OpType /\ op.pc = "header" /\ op.kind \in Kinds
      /\ op.res = "SUCCESS" /\ UNCHANGED <<ring, pgCntr, pgOffset, cached, tok, fault>>
  BY OpKinds
     DEF AioInv, MapsInv, CopyInv, ResultInv, TypeOK, CallTypes, FileHeaderCheck, At
<1>2. op'.pc \in {"flush", "exit"} /\ op'.res = "SUCCESS"
  <2>1. PICK pc \in {"flush", "exit"} : op' = [op EXCEPT !.pc = pc]
    BY DEF FileHeaderCheck, Goto
  <2> QED BY <1>1, <2>1, OpAfter
<1>3. Ready /\ Ready' /\ ~Waits /\ ~Waits' /\ Stays /\ ReadyInv'
  BY <1>1, <1>2 DEF PlaceInv, ReadyInv, Going, Ready, Waits, Stays
<1>4. UNCHANGED Promise
  BY <1>1, HolderPromise
<1>5. CASE file[ring.idx].subm # 0
  <2>1. file' = file
    BY <1>5 DEF FileHeaderCheck, IsVoid
  <2> QED BY <1>1, <1>2, <1>3, <1>4, <1>5, <2>1, QuietTurn, StillTokens
<1>6. CASE file[ring.idx].subm = 0
  <2>1. /\ SblkDblks \in Nat /\ SblkDblks > 0 /\ pgOffset \in Nat /\ cached \in Nat
        /\ cached <= pgOffset /\ Put \in Nat /\ (pgCntr = 0 => Put = pgOffset)
        /\ ring.idx \in Files /\ file \in [Files -> FileType] /\ pgCntr \in Nat
        /\ pgCntr * PageDblks \in Nat
    BY <1>1, RingFacts, PutFacts, RingAssumption
  <2>2. Opening
    <3>1. Put >= cached
      <4> DEFINE base == pgCntr * PageDblks
      <4>1. base \in Nat /\ Put = base + pgOffset
        BY <2>1 DEF Put
      <4> HIDE DEF base
      <4> QED BY <2>1, <4>1
    <3>2. ~Filling
      BY <1>6, <2>1, <3>1 DEF Filling
    <3> QED BY <1>3, <3>2 DEF PlaceInv
  <2>3. file' = [file EXCEPT ![ring.idx] = [Submit(@, SblkDblks) EXCEPT !.fhdr = TRUE]]
    BY <1>6 DEF FileHeaderCheck, IsVoid, WriteFileHeader
  <2>4. /\ file'[ring.idx].subm = 0 + SblkDblks
        /\ \A f \in Files \ {ring.idx} : file'[f] = file[f]
    BY <1>6, <2>1, <2>3 DEF Submit, FileType
  <2>5. file'[ring.idx].subm = SblkDblks
    BY <2>1, <2>4
  <2>6. Filling'
    <3>1. SblkDblks = SblkDblks + pgOffset - cached
      BY <2>1, <2>2 DEF Opening
    <3>2. Put = pgOffset
      BY <2>1, <2>2 DEF Opening
    <3>3. Put' = Put
      BY <1>1 DEF Put
    <3> QED BY <1>1, <2>5, <3>1, <3>2, <3>3 DEF Filling
  <2>7. PlaceInv'
    <3>1. pgCntr < FilePages /\ pgCntr # FilePages
      BY <1>1, <2>1, RingAssumption DEF PlaceInv
    <3> QED BY <1>1, <1>2, <1>3, <2>1, <2>4, <2>5, <2>6, <3>1 DEF PlaceInv, FullDblks, FileDblks
  <2>8. Moves /\ ~Turns
    BY <1>1, <1>3, RingFacts DEF Moves, Turns
  <2>9. OwnInv' /\ HoldInv'
    BY <1>1, <1>2, <1>4, <2>8, HeldAfter, TokensTurn, StillTokens DEF Put
  <2> QED BY <2>7, <2>9 DEF TurnInv
<1> QED BY <1>5, <1>6


\* Padding does not shorten what is written.
LEMMA RoundUpCovers == \A c \in Nat : RoundUp(c) \in Nat /\ RoundUp(c) >= c
<1> TAKE c \in Nat
<1>1. SblkDblks \in Nat \ {0} /\ RoundUp(c) \in Nat
  BY RingAssumption, RoundUpNat
<1>2. \A i \in Nat : \A s \in Nat \ {0} : i \div s \in Nat /\ s * (i \div s) + s > i
  BY SMT
<1> DEFINE i == c + SblkDblks - 1
           q == i \div SblkDblks
<1>3. i \in Nat
  BY <1>1
<1>4. q \in Nat /\ SblkDblks * q + SblkDblks > i
  <2> HIDE DEF i
  <2> QED BY <1>1, <1>2, <1>3
<1>5. RoundUp(c) = q * SblkDblks
  BY DEF RoundUp
<1> HIDE DEF q
<1>6. SblkDblks * q + SblkDblks > c + SblkDblks - 1
  BY <1>4
<1>7. q * SblkDblks = SblkDblks * q /\ SblkDblks * q \in Nat
  BY <1>1, <1>4
<1> DEFINE m == SblkDblks * q
<1>8. m + SblkDblks > c + SblkDblks - 1 /\ m \in Nat /\ RoundUp(c) = m
  BY <1>5, <1>6, <1>7
<1> HIDE DEF m
<1> QED BY <1>1, <1>8

\* The page goes to the file, with its padding; only one that is full has a part of
\* a record that goes on.
LEMMA SubmitTurn ==
    ASSUME AioInv, AioInv', CopyInv, DirectIoAligned, RecordsFit, PlaceInv, OwnInv, HoldInv,
           UNCHANGED Promise, SubmitPage, cached > 0, tok' = tok, fault' = "none",
           op.pc = "flush", op'.pc = "reap", op'.kind = op.kind
    PROVE  TurnInv'
<1> DEFINE n      == RoundUp(cached)
           offset == pgOffset + n - cached
           full   == offset >= PageDblks
           base   == pgCntr * PageDblks
           old    == file[ring.idx].subm
<1>1. /\ TypeOK /\ TypeOK' /\ MapInv /\ ring \in RingType /\ file \in [Files -> FileType]
      /\ ring.idx \in Files
  BY RingFacts DEF AioInv, MapsInv
<1>2. /\ file' = [file EXCEPT ![ring.idx] = Submit(@, n)]
      /\ pgOffset' = IF full THEN 0 ELSE offset
      /\ pgCntr' = IF full THEN pgCntr + 1 ELSE pgCntr
      /\ cached' = 0 /\ ring' = ring
  BY DEF SubmitPage, Throw, Faults
<1>3. /\ SblkDblks \in Nat /\ SblkDblks > 0 /\ PageDblks \in Nat /\ FilePages \in Nat
      /\ pgCntr \in Nat /\ base \in Nat /\ pgOffset \in Nat /\ cached \in Nat
      /\ cached <= pgOffset /\ pgOffset <= PageDblks /\ old \in Nat
  BY <1>1, RingFacts, RingAssumption
<1>4. n \in Nat /\ n >= cached /\ offset \in Nat /\ offset <= PageDblks
  <2>1. pgOffset - cached \in Nat /\ (pgOffset - cached) + cached <= PageDblks
    BY <1>3
  <2>2. Aligned(pgOffset - cached)
    BY DEF DirectIoAligned
  <2>3. (pgOffset - cached) + n <= PageDblks /\ n \in Nat /\ n >= cached
    BY <1>3, <2>1, <2>2, RoundUpFits, RoundUpCovers
  <2> HIDE DEF n
  <2> QED BY <1>3, <2>3
<1>5. ~Waits /\ ~Waits' /\ Ready /\ Ready' /\ Stays /\ ReadyInv'
  BY <1>2, <1>3 DEF PlaceInv, ReadyInv, Ready, Waits, Stays
<1>6. old = SblkDblks + Put - cached /\ pgCntr < FilePages
  BY <1>5 DEF PlaceInv, Opening, Filling
<1>7. Put = base + pgOffset
  BY DEF Put
<1> HIDE DEF n
<1>8. /\ file'[ring.idx].subm = old + n
      /\ \A f \in Files \ {ring.idx} : file'[f] = file[f]
  BY <1>1, <1>2 DEF Submit, FileType
<1>9. Put' = base + offset
  <2>1. CASE full
    <3>1. (pgCntr + 1) * PageDblks = base + PageDblks
      BY <1>3
    <3>2. offset = PageDblks
      <4> HIDE DEF offset
      <4> QED BY <1>3, <1>4, <2>1
    <3>3. Put' = (pgCntr + 1) * PageDblks + 0
      BY <1>2, <2>1 DEF Put
    <3> HIDE DEF base, offset
    <3> QED BY <1>3, <3>1, <3>2, <3>3
  <2>2. CASE ~full
    BY <1>2, <2>2 DEF Put
  <2> QED BY <2>1, <2>2
<1>10. Filling'
  <2>1. old + n = SblkDblks + (base + offset) - 0
    <3> HIDE DEF base, old
    <3> QED BY <1>3, <1>4, <1>6, <1>7
  <2>2. cached' = 0 /\ file'[ring'.idx].subm = old + n
    BY <1>2, <1>8
  <2> HIDE DEF old, base, offset
  <2> QED BY <1>9, <2>1, <2>2 DEF Filling
<1>11. file'[ring.idx].subm > 0
  <2>1. old > 0
    <3> HIDE DEF base, old
    <3> QED BY <1>3, <1>6, <1>7
  <2> HIDE DEF old
  <2> QED BY <1>3, <1>4, <1>8, <2>1
<1>12. PlaceInv'
  <2>1. pgCntr' <= FilePages /\ (pgCntr' = FilePages => pgOffset' = 0)
    <3> HIDE DEF offset, full
    <3> QED BY <1>2, <1>3, <1>6
  <2> HIDE DEF full, old, base, offset
  <2> QED BY <1>1, <1>2, <1>5, <1>8, <1>10, <1>11, <2>1 DEF PlaceInv, FullDblks, FileDblks
<1>13. Moves /\ ~Turns
  BY <1>1, <1>5, RingFacts DEF Moves, Stays, Turns
<1>14. (\E r \in Rids : tok[r].st = "PART") =>
           Put' = Put /\ (pgOffset \in {0, PageDblks} => pgOffset' \in {0, PageDblks})
  <2> SUFFICES ASSUME NEW r \in Rids, tok[r].st = "PART"
               PROVE  Put' = Put /\ pgOffset' \in {0, PageDblks}
    OBVIOUS
  <2>1. pgOffset \in {0, PageDblks}
    BY DEF OwnInv, OwnOf, Writing
  <2>2. pgOffset = PageDblks /\ offset = PageDblks
    BY <1>3, <1>4, <2>1
  <2>3. full /\ pgOffset' = 0
    <3>1. full
      <4> HIDE DEF offset
      <4> QED BY <1>3, <2>2
    <3> QED BY <1>2, <3>1
  <2>4. Put' = Put
    <3> HIDE DEF offset, base
    <3> QED BY <1>7, <1>9, <2>2
  <2> QED BY <2>3, <2>4
<1>15. OwnInv' /\ HoldInv'
  BY <1>1, <1>13, <1>14, HeldAfter, TokensTurn, StillTokens
<1> QED BY <1>12, <1>15 DEF TurnInv

\* write_flush().
LEMMA WriteFlushTurn ==
    ASSUME AioInv, AioInv', CopyInv, DirectIoAligned, RecordsFit, PlaceInv, OwnInv, HoldInv,
           WriteFlush
    PROVE  TurnInv'
<1>1. /\ TypeOK /\ MapInv /\ PageInv /\ op \in OpType /\ op.pc = "flush" /\ op.res = "SUCCESS"
      /\ tok' = tok /\ cached \in Nat /\ pgCntr \in Nat
  BY RingFacts DEF AioInv, MapsInv, CopyInv, ResultInv, TypeOK, CallTypes, WriteFlush, At
<1>2. ~(cached > 0 /\ PageBlocked)
  BY <1>1 DEF PageInv, PageBlocked
<1>3. op' = [op EXCEPT !.pc = "reap", !.res = op.res]
  BY <1>2 DEF WriteFlush
<1>4. op'.pc = "reap" /\ op'.res = "SUCCESS" /\ op'.kind = op.kind
  BY <1>1, <1>3, OpAfter
<1>5. UNCHANGED Promise
  BY <1>1, HolderPromise
<1>6. CASE cached > 0
  BY <1>1, <1>2, <1>4, <1>5, <1>6, SubmitTurn DEF WriteFlush, TurnInv
<1>7. CASE cached = 0
  <2>1. UNCHANGED <<file, ring, pgCntr, pgOffset, cached>>
    BY <1>7 DEF WriteFlush, fileVars, pageVars
  <2>2. ~Waits /\ ~Waits' /\ (Ready <=> Ready') /\ ReadyInv'
    BY <1>1, <1>4, <2>1 DEF Waits, Ready, PlaceInv, ReadyInv, Going
  <2> QED BY <1>1, <1>4, <1>5, <2>1, <2>2, QuietTurn, StillTokens
<1> QED BY <1>1, <1>6, <1>7


\* flush_check(): the ring goes on from a file that is full, to one that is reset, or
\* is waited for, or is refused.
LEMMA FlushCheckTurn ==
    ASSUME AioInv, AioInv', CopyInv, RecordsFit, PlaceInv, OwnInv, HoldInv, FlushCheck
    PROVE  TurnInv'
<1> DEFINE pageWait == PageBlocked /\ ~op.done
           rotate   == pgCntr >= FilePages
           rotated  == RotateResult(ring, file)
           res      == IF rotate /\ rotated # "SUCCESS" THEN rotated
                       ELSE IF pageWait THEN "PAGE_AIOWAIT" ELSE op.res
           stop     == op.done \/ pageWait \/ (rotate /\ rotated # "SUCCESS")
           pc       == IF stop THEN "exit" ELSE "encode"
           next     == After(ring.idx, 1)
<1>1. /\ TypeOK /\ TypeOK' /\ MapInv /\ op \in OpType /\ op.pc = "reap" /\ op.res = "SUCCESS"
      /\ cached = 0 /\ UNCHANGED <<pgOffset, cached, tok, fault>>
      /\ pgCntr' = IF rotate THEN 0 ELSE pgCntr
      /\ ring' = IF rotate THEN Rotated(ring, file) ELSE ring
      /\ file' = IF rotate THEN [file EXCEPT ![next] = WrReset(@)] ELSE file
      /\ op' = [op EXCEPT !.pc = pc, !.res = res]
  BY DEF AioInv, MapsInv, CopyInv, ResultInv, FlushedOut, TypeOK, CallTypes, FlushCheck, At
<1>2. op'.pc = pc /\ op'.res = res /\ op'.kind = op.kind
  <2> HIDE DEF pc, res
  <2> QED BY <1>1, OpAfter
<1>3. /\ next \in Files /\ ring.idx \in Files /\ next # ring.idx /\ file \in [Files -> FileType]
      /\ pgCntr \in Nat /\ FilePages \in Nat /\ FilePages > 0
      /\ \A f \in Files : file[f].subm \in Nat /\ file[f].aio \in Nat
  BY <1>1, RingFacts, RingAssumption
<1>4. pc \in {"exit", "encode"} /\ (pc = "encode" => ~rotate \/ rotated = "SUCCESS")
  OBVIOUS
<1>5. UNCHANGED Promise /\ ~Waits
  BY <1>1, HolderPromise DEF Waits
<1>6. CASE ~rotate
  <2>1. res # "FILE_AIOWAIT" /\ pgCntr < FilePages
    BY <1>1, <1>3, <1>6
  <2>2. UNCHANGED <<file, ring, pgCntr>>
    BY <1>1, <1>6
  <2> HIDE DEF pc, res
  <2>3. ~Waits' /\ (Ready' <=> Ready)
    BY <1>2, <1>5, <2>1, <2>2 DEF Waits, Ready
  <2>4. ReadyInv'
    BY <1>1, <1>2, <1>4, <2>2 DEF PlaceInv, ReadyInv, Going
  <2> QED BY <1>1, <1>2, <1>4, <1>5, <2>1, <2>2, <2>3, <2>4, QuietTurn, StillTokens
<1>7. CASE rotate
  <2>1. /\ pgCntr' = 0 /\ ring' = Rotated(ring, file) /\ file' = [file EXCEPT ![next] = WrReset(@)]
        /\ ring'.idx = next
    BY <1>1, <1>7 DEF Rotated
  <2>2. /\ file[next].aio > 0 => rotated = "FILE_AIOWAIT"
        /\ file[next].aio = 0 /\ CanReset(file[next]) => rotated = "SUCCESS" /\ ring'.resetOk
        /\ file[next].aio = 0 /\ ~CanReset(file[next]) => rotated = "FULL" /\ ~ring'.resetOk
    BY <1>3, <2>1 DEF RotateResult, Rotated
  <2>3. /\ rotated # "SUCCESS" => pc = "exit" /\ res = rotated
        /\ rotated = "SUCCESS" => res # "FILE_AIOWAIT"
    BY <1>1, <1>7
  <2>4. pgCntr = FilePages /\ pgOffset = 0 /\ Ready
    BY <1>1, <1>3, <1>7 DEF PlaceInv
  <2>5. file[ring.idx].subm = FullDblks
    <3>1. Filling
      BY <1>3, <2>4 DEF PlaceInv, Opening
    <3>2. Put = FileDblks /\ FileDblks \in Nat /\ FullDblks = FileDblks + SblkDblks
      BY <1>1, <2>4, PutFacts
    <3>3. SblkDblks \in Nat
      BY <1>1, RingFacts
    <3> QED BY <1>1, <3>1, <3>2, <3>3 DEF Filling
  <2>6. /\ file[next].subm \in {0, FullDblks} /\ (file[next].subm = 0 => file[next].aio = 0)
        /\ \A f \in Files : f # next => file'[f] = file[f] /\ file[f].subm \in {0, FullDblks}
    BY <1>3, <2>1, <2>5 DEF PlaceInv
  <2>7. CanReset(file[next]) => file'[next].subm = 0 /\ file'[next].aio = 0
    BY <1>3, <2>1 DEF WrReset, CanReset, FileType
  <2>8. ~CanReset(file[next]) => file'[next] = file[next]
    BY <1>3, <2>1 DEF WrReset
  <2>9. file[next].aio > 0 => ~CanReset(file[next])
    BY <1>3 DEF CanReset
  <2> HIDE DEF rotated, pc, res, rotate, stop
  <2>10. Waits' <=> file[next].aio > 0
    BY <1>2, <1>3, <2>2, <2>3 DEF Waits
  <2>11. Ready' <=> CanReset(file[next])
    BY <1>3, <2>2, <2>9, <2>10 DEF Ready
  <2>12. ReadyInv'
    BY <1>1, <1>2, <1>3, <1>4, <2>2, <2>3 DEF ReadyInv, Going
  <2>13. file'[next].subm \in {0, FullDblks} /\ (file'[next].subm = 0 => file'[next].aio = 0)
    BY <2>6, <2>7, <2>8
  <2>14. Ready' => Opening'
    BY <1>1, <2>1, <2>4, <2>7, <2>11 DEF Opening
  <2>15. Waits' => file'[next].subm = FullDblks
    BY <1>3, <2>6, <2>8, <2>9, <2>10
  <2> HIDE DEF next
  <2>16. pgCntr' < FilePages /\ pgCntr' # FilePages /\ pgOffset' = 0
    BY <1>1, <1>3, <2>1, <2>4
  <2>17. \A f \in Files : file'[f].subm \in {0, FullDblks} /\ (file'[f].subm = 0 => file'[f].aio = 0)
    BY <2>6, <2>13 DEF PlaceInv
  <2>18. PlaceInv'
    BY <1>2, <1>4, <2>1, <2>12, <2>14, <2>15, <2>16, <2>17 DEF PlaceInv, FullDblks, FileDblks
  <2>19. Turns
    BY <2>1, <2>4, <2>11 DEF Turns, next
  <2>20. OwnInv' /\ HoldInv'
    BY <1>1, <1>2, <1>4, <1>5, <2>1, <2>4, <2>19, HeldAfter, TokensTurn, StillTokens DEF Moves
  <2> QED BY <2>18, <2>20 DEF TurnInv
<1> QED BY <1>6, <1>7

\* Steps that neither hand anything to a file nor reset one.
LEMMA FilesStay ==
    ASSUME TypeOK, Caller \/ Encode \/ Record \/ Exit \/ WaitPage \/ WaitTimeout \/ Kernel,
           NEW f \in Files
    PROVE  file'[f].subm = file[f].subm
<1>1. file \in [Files -> FileType]
  BY DEF TypeOK, FileTypes
<1>2. CASE Caller \/ Encode \/ Exit \/ WaitPage \/ WaitTimeout
  BY <1>2 DEF Caller, CallEnqueue, CallDequeue, CallEnd, NewCall, Retry, CallFlush, Encode, Exit,
              WaitPage, WaitTimeout, fileVars
<1>3. CASE Record
  BY <1>3, RecordFiles
<1>4. ASSUME NEW p \in Pages, ReapPage(p) PROVE file'[f].subm = file[f].subm
  <2>1. file' = file \/ file' = [file EXCEPT ![page[p].wfh] = Complete(@, page[p].wd)]
    BY <1>4 DEF ReapPage
  <2>2. file'[f] = file[f] \/ file'[f] = Complete(file[f], page[p].wd)
    BY <1>1, <2>1
  <2> QED BY <1>1, <2>2 DEF Complete, FileType
<1>5. ASSUME NEW g \in Files, ReapHeader(g) PROVE file'[f].subm = file[f].subm
  <2>1. file' = file \/ file' = [file EXCEPT ![g] = [Complete(@, SblkDblks) EXCEPT !.fhdr = FALSE]]
    BY <1>5 DEF ReapHeader
  <2>2. \/ file'[f] = file[f]
        \/ file'[f] = [Complete(file[f], SblkDblks) EXCEPT !.fhdr = FALSE]
    BY <1>1, <2>1
  <2> QED BY <1>1, <2>2 DEF Complete, FileType
<1> QED BY <1>2, <1>3, <1>4, <1>5 DEF Kernel


\* A journal that nothing can be written to any more stays so: the next write would go
\* past the end of the file, and ends in JERR_FCNTL_FILEOFFSOVFL.
LEMMA StaleTurn ==
    ASSUME AioInv, CopyInv, Stale, Next
    PROVE  Stale' /\ \A f \in Files : file'[f].subm = file[f].subm
<1>1. /\ TypeOK /\ op \in OpType /\ ring \in RingType /\ ring.idx \in Files
      /\ file \in [Files -> FileType] /\ PageInv /\ ResultInv
      /\ cached \in Nat /\ pgCntr \in Nat /\ FilePages \in Nat /\ FilePages > 0
      /\ FullDblks \in Nat /\ FullDblks > 0
  <2>1. TypeOK
    BY DEF AioInv, MapsInv
  <2>2. FullDblks \in Nat /\ FullDblks > 0
    <3>1. FileDblks \in Nat /\ FullDblks = FileDblks + SblkDblks /\ FullDblks > 0
      BY <2>1, PutFacts
    <3> QED BY <3>1, RingAssumption
  <2> QED BY <2>1, <2>2, RingFacts, RingAssumption DEF AioInv, MapsInv, CopyInv, TypeOK, CallTypes
<1>2. ring.resetOk /\ ~Waits /\ pgCntr = 0 /\ file[ring.idx].subm = FullDblks
  BY DEF Stale, Ready
<1>3. SUFFICES /\ \A f \in Files : file'[f].subm = file[f].subm
               /\ ring'.idx = ring.idx /\ ring'.resetOk /\ pgCntr' = 0 /\ ~Waits'
  BY <1>1, <1>2 DEF Stale, Ready, FullDblks, FileDblks
<1>4. CASE Caller
  <2>1. op'.pc \in {"check", "flush"} /\ UNCHANGED <<file, ring, pgCntr>>
    BY <1>4 DEF Caller, CallEnqueue, CallDequeue, CallEnd, NewCall, Retry, CallFlush, Start, NoOp,
                fileVars, pageVars
  <2> QED BY <1>2, <2>1 DEF Waits
<1>5. CASE Check
  <2>1. file' = file /\ ring'.idx = ring.idx /\ ring'.resetOk /\ pgCntr' = pgCntr
    BY <1>1, <1>2, <1>5
       DEF Check, CheckBusy, CheckFull, CheckPage, CheckRefused, CheckOk, PageChecked,
           FileChecked, FilesReset, RingType, fileVars, pageVars
  <2>2. op'.res # "FILE_AIOWAIT" \/ op'.pc = "encode"
    <3>1. CASE CheckOk
      <4>1. op' = [op EXCEPT !.pc = "encode"]
        BY <3>1 DEF CheckOk, Goto
      <4> QED BY <1>1, <4>1, OpAfter
    <3>2. CASE ~CheckOk
      <4>1. PICK res \in {"BUSY", "FULL", "PAGE_AIOWAIT", "ENQCAPTHRESH", "ENQDISCONT", "DEQREFUSED"} :
                op' = [op EXCEPT !.pc = "exit", !.res = res]
        BY <1>5, <3>2 DEF Check, CheckBusy, CheckFull, CheckPage, CheckRefused, Return
      <4> QED BY <1>1, <4>1, OpAfter
    <3> QED BY <3>1, <3>2
  <2> QED BY <1>2, <2>1, <2>2 DEF Waits
<1>6. CASE Encode
  <2>1. PICK pc \in {"complete", "header"} : op' = [op EXCEPT !.pc = pc]
    BY <1>6 DEF Encode, Goto
  <2>2. op'.pc = pc
    BY <1>1, <2>1, OpAfter
  <2>3. UNCHANGED <<file, ring, pgCntr>>
    BY <1>6 DEF Encode, fileVars
  <2> QED BY <1>2, <2>2, <2>3 DEF Waits
<1>7. CASE Record
  <2>1. Recorded
    BY <1>7 DEF Record, EnqueueTxn, EnqueueNonTxn, DequeueTxn, DequeueNonTxn, AbortTxn,
                CommitTxn, CloseTxn
  <2>2. op' = [op EXCEPT !.pc = "header", !.done = TRUE] /\ UNCHANGED <<ring, pgCntr>>
    BY <2>1 DEF Recorded, pageVars
  <2>3. op'.pc = "header"
    BY <1>1, <2>2, OpAfter
  <2> QED BY <1>1, <1>2, <1>7, <2>2, <2>3, FilesStay DEF Waits
<1>8. CASE FileHeaderCheck
  <2>1. PICK pc \in {"flush", "exit"} : op' = [op EXCEPT !.pc = pc]
    BY <1>8 DEF FileHeaderCheck, Goto
  <2>2. op'.pc = pc /\ op'.res = op.res /\ op.pc = "header"
    BY <1>1, <1>8, <2>1, OpAfter DEF FileHeaderCheck, At
  <2>3. op'.res = "SUCCESS"
    BY <1>1, <2>2 DEF ResultInv
  <2>4. UNCHANGED <<file, ring, pgCntr>>
    BY <1>1, <1>2, <1>8 DEF FileHeaderCheck, IsVoid
  <2> QED BY <1>2, <2>3, <2>4 DEF Waits
<1>9. CASE WriteFlush
  <2>1. op.pc = "flush"
    BY <1>9 DEF WriteFlush, At
  <2>2. ~(cached > 0 /\ PageBlocked)
    BY <1>1, <2>1 DEF PageInv, PageBlocked
  <2>3. op' = [op EXCEPT !.pc = "reap", !.res = op.res]
    BY <1>9, <2>2 DEF WriteFlush
  <2>4. op'.pc = "reap"
    BY <1>1, <2>3, OpAfter
  <2>5. UNCHANGED <<file, ring, pgCntr>>
    <3>1. CASE cached > 0
      <4> DEFINE n == RoundUp(cached)
      <4>1. n \in Nat /\ n > 0
        <5>1. n \in Nat /\ n >= cached
          BY <1>1, RoundUpCovers
        <5> HIDE DEF n
        <5> QED BY <1>1, <3>1, <5>1
      <4>2. Overflows(file[ring.idx], n)
        <5> HIDE DEF n
        <5> QED BY <1>1, <1>2, <4>1 DEF Overflows
      <4>3. SubmitPage
        BY <1>9, <2>2, <3>1 DEF WriteFlush
      <4>4. UNCHANGED <<fileVars, pageVars>>
        <5>1. CASE page[pgIndex].st # "IN_USE"
          BY <4>3, <5>1 DEF SubmitPage
        <5>2. CASE page[pgIndex].st = "IN_USE"
          BY <4>2, <4>3, <5>2 DEF SubmitPage
        <5> QED BY <5>1, <5>2
      <4> QED BY <4>4 DEF fileVars, pageVars
    <3>2. CASE ~(cached > 0)
      <4>1. cached = 0
        BY <1>1, <3>2
      <4> QED BY <1>9, <4>1 DEF WriteFlush, fileVars, pageVars
    <3> QED BY <3>1, <3>2
  <2> QED BY <1>2, <2>4, <2>5 DEF Waits
<1>10. CASE FlushCheck
  <2> DEFINE pageWait == PageBlocked /\ ~op.done
             res      == IF pageWait THEN "PAGE_AIOWAIT" ELSE op.res
             pc       == IF op.done \/ pageWait THEN "exit" ELSE "encode"
  <2>1. ~(pgCntr >= FilePages)
    BY <1>1, <1>2
  <2>2. /\ UNCHANGED <<file, ring, pgCntr>> /\ op.pc = "reap"
        /\ op' = [op EXCEPT !.pc = pc, !.res = res]
    BY <1>10, <2>1 DEF FlushCheck, At
  <2>3. res # "FILE_AIOWAIT"
    BY <1>1, <2>2 DEF ResultInv
  <2> HIDE DEF pc, res
  <2>4. op'.res = res
    BY <1>1, <2>2, OpAfter
  <2> QED BY <1>2, <2>2, <2>3, <2>4 DEF Waits
<1>11. CASE Exit \/ WaitPage \/ WaitTimeout
  <2>1. /\ op.pc \in {"exit", "wait"} /\ UNCHANGED <<file, ring, pgCntr>>
    BY <1>11 DEF Exit, WaitPage, WaitTimeout, At, fileVars, pageVars
  <2>2. \/ op' = [op EXCEPT !.pc = "wait"]
        \/ op' = NoOp
        \/ op' = [NoOp EXCEPT !.pc = "check", !.kind = op.kind, !.rid = op.rid]
        \/ op' = [op EXCEPT !.pc = "exit", !.res = "AIOCMPLWAIT"]
    BY <1>11 DEF Exit, WaitPage, WaitTimeout, Goto, Start, Return
  <2>3. ~Waits'
    <3>1. CASE op' = [op EXCEPT !.pc = "wait"]
      <4>1. op'.res = op.res
        BY <1>1, <3>1, OpAfter
      <4> QED BY <1>2, <2>1, <4>1 DEF Waits
    <3>2. CASE op' = NoOp
      BY <3>2 DEF NoOp, Waits
    <3>3. CASE op' = [NoOp EXCEPT !.pc = "check", !.kind = op.kind, !.rid = op.rid]
      <4>1. op'.pc = "check"
        BY <3>3, OpNew
      <4> QED BY <4>1 DEF Waits
    <3>4. CASE op' = [op EXCEPT !.pc = "exit", !.res = "AIOCMPLWAIT"]
      <4>1. op'.res = "AIOCMPLWAIT"
        BY <1>1, <3>4, OpAfter
      <4> QED BY <4>1 DEF Waits
    <3> QED BY <2>2, <3>1, <3>2, <3>3, <3>4
  <2> QED BY <1>2, <2>1, <2>3
<1>12. CASE WaitFile
  BY <1>2, <1>12 DEF WaitFile, At, Waits
<1>13. CASE Kernel
  <2>1. UNCHANGED <<ring, pgCntr, op>>
    BY <1>13 DEF Kernel, ReapPage, ReapHeader
  <2> QED BY <1>1, <1>2, <1>13, <2>1, FilesStay DEF Waits
<1> QED BY <1>4, <1>5, <1>6, <1>7, <1>8, <1>9, <1>10, <1>11, <1>12, <1>13 DEF Next, Holder, Wait

\* Every step.
LEMMA NextTurn ==
    ASSUME AioInv, CopyInv, DirectIoAligned, RecordsFit, TurnInv, [Next]_vars
    PROVE  TurnInv'
<1>1. AioInv'
  BY NextAio
<1>2. CASE UNCHANGED vars
  BY <1>2 DEF vars, fileVars, pageVars, mapVars, TurnInv, Stale, PlaceInv, ReadyInv, Going, Waits,
     Ready, Opening, Filling, Put, OwnInv, OwnOf, Writing, Behind, Dist, HoldInv, About, Held,
     InEmap, Adds, EnqsOf, Entries, Safe, FullDblks, FileDblks
<1>3. CASE Next /\ fault = "none" /\ fault' = "none"
  <2>1. CASE Stale
    BY <1>3, <2>1, StaleTurn DEF TurnInv
  <2>2. CASE PlaceInv /\ OwnInv /\ HoldInv
    BY <1>1, <1>3, <2>2, CallerTurn, CheckTurn, EncodeTurn, RecordTurn, HeaderTurn,
       WriteFlushTurn, FlushCheckTurn, ExitTurn, WaitFileTurn, KernelTurn DEF Next, Holder, Wait
  <2> QED BY <1>3, <2>1, <2>2 DEF TurnInv
<1>4. Next => fault = "none"
  BY DEF Next, Caller, CallEnqueue, CallDequeue, CallEnd, NewCall, Retry, CallFlush, Holder, Check,
     CheckBusy, CheckFull, CheckPage, CheckRefused, CheckOk, PageChecked, FileChecked, Encode,
     Record, EnqueueTxn, EnqueueNonTxn, DequeueTxn, DequeueNonTxn, AbortTxn, CommitTxn, CloseTxn,
     Recorded, FileHeaderCheck, WriteFlush, FlushCheck, Exit, Wait, WaitPage, WaitFile,
     WaitTimeout, Kernel, ReapPage, ReapHeader, Reaping, At
<1>5. CASE fault' # "none"
  BY <1>5 DEF TurnInv
<1> QED BY <1>2, <1>3, <1>4, <1>5

\* The steps that take a file, and which one: the current one, or the next one when the
\* current one is full.
LEMMA TakesFile ==
    ASSUME TypeOK, PlaceInv, Next, NEW f \in Files, file'[f].subm < file[f].subm
    PROVE  /\ CanReset(file[f])
           /\ \/ f = ring.idx /\ ~Ready
              \/ f = After(ring.idx, 1) /\ Ready /\ pgCntr = FilePages
<1>1. /\ file \in [Files -> FileType] /\ file[f].subm \in Nat /\ SblkDblks \in Nat
      /\ cached \in Nat /\ pgCntr \in Nat /\ FilePages \in Nat /\ FilePages > 0
  BY RingFacts, RingAssumption
<1>2. \A g : file' = [file EXCEPT ![g] = WrReset(@)] => f = g /\ CanReset(file[f])
  <2> TAKE g
  <2>1. HAVE file' = [file EXCEPT ![g] = WrReset(@)]
  <2>2. f # g => file'[f] = file[f]
    BY <1>1, <2>1
  <2>3. f = g /\ ~CanReset(file[f]) => file'[f] = file[f]
    BY <1>1, <2>1 DEF WrReset
  <2> QED BY <1>1, <2>2, <2>3
<1>3. CASE Caller \/ Encode \/ Record \/ Exit \/ WaitPage \/ WaitTimeout \/ Kernel
  BY <1>1, <1>3, FilesStay
<1>4. CASE Check
  <2>1. file' = file \/ file' = FilesReset
    BY <1>4 DEF Check, CheckBusy, CheckFull, CheckPage, CheckRefused, CheckOk, PageChecked,
                FileChecked, fileVars
  <2>2. ~ring.resetOk /\ file' = [file EXCEPT ![ring.idx] = WrReset(@)]
    BY <1>1, <2>1 DEF FilesReset
  <2> QED BY <1>2, <2>2 DEF Ready
<1>5. CASE FileHeaderCheck
  <2>1. \/ file' = file
        \/ file' = [file EXCEPT ![ring.idx] = [Submit(@, SblkDblks) EXCEPT !.fhdr = TRUE]]
    BY <1>5 DEF FileHeaderCheck, WriteFileHeader
  <2>2. file'[f] = file[f] \/ file'[f] = [Submit(file[f], SblkDblks) EXCEPT !.fhdr = TRUE]
    BY <1>1, <2>1
  <2>3. file'[f].subm = file[f].subm \/ file'[f].subm = file[f].subm + SblkDblks
    BY <1>1, <2>2 DEF Submit, FileType
  <2> QED BY <1>1, <2>3
<1>6. CASE WriteFlush
  <2> DEFINE n == RoundUp(cached)
  <2>1. file' = file \/ file' = [file EXCEPT ![ring.idx] = Submit(@, n)]
    BY <1>6 DEF WriteFlush, SubmitPage, fileVars
  <2>2. n \in Nat
    BY <1>1, RoundUpNat
  <2> HIDE DEF n
  <2>3. file'[f] = file[f] \/ file'[f] = Submit(file[f], n)
    BY <1>1, <2>1
  <2>4. file'[f].subm = file[f].subm \/ file'[f].subm = file[f].subm + n
    BY <1>1, <2>3 DEF Submit, FileType
  <2> QED BY <1>1, <2>2, <2>4
<1>7. CASE FlushCheck
  <2>1. pgCntr >= FilePages /\ file' = [file EXCEPT ![After(ring.idx, 1)] = WrReset(@)]
    BY <1>1, <1>7 DEF FlushCheck
  <2>2. pgCntr = FilePages /\ Ready
    BY <1>1, <2>1 DEF PlaceInv
  <2> QED BY <1>2, <2>1, <2>2
<1>8. CASE WaitFile
  <2>1. file' = [file EXCEPT ![ring.idx] = WrReset(@)] /\ Waits
    BY <1>8 DEF WaitFile, At, Waits
  <2> QED BY <1>2, <2>1 DEF Ready
<1> QED BY <1>3, <1>4, <1>5, <1>6, <1>7, <1>8 DEF Next, Holder, Wait


\* Nothing is written yet.
LEMMA InitTurn == Init => TurnInv
<1> SUFFICES ASSUME Init PROVE TurnInv
  OBVIOUS
<1>1. /\ pgCntr = 0 /\ pgOffset = 0 /\ cached = 0 /\ ~ring.resetOk /\ op.pc = "idle"
      /\ op.kind = "none"
      /\ \A f \in Files : file[f].subm = 0 /\ file[f].aio = 0
      /\ \A r \in Rids : tok[r] = NoTok
  BY DEF Init, NewRing, NewFile, NoOp
<1>2. 0 < FilePages /\ 0 # FilePages
  BY RingAssumption
<1>3. PlaceInv
  BY <1>1, <1>2 DEF PlaceInv, ReadyInv, Going, Ready, Waits, Kinds
<1>4. OwnInv
  BY <1>1 DEF OwnInv, OwnOf, Writing, NoTok
<1>5. Held = {}
  BY DEF Init, NoEntry, Held, InEmap, Adds, EnqsOf, Entries
<1> QED BY <1>3, <1>4, <1>5 DEF TurnInv, HoldInv

\* A file is taken for new data only when no record that is still needed, enqueued,
\* held by an open transaction or half written, has a part in it, though its counter
\* (_rec_enqcnt) counts only the records whose header is in it: for any number of
\* files and pages, any sizes that fit all files but one, and writes however slow.
THEOREM NoLiveOverwrittenAlways == RecordsFit => (Spec => NoLiveOverwritten)
<1> SUFFICES ASSUME RecordsFit PROVE Spec => NoLiveOverwritten
  OBVIOUS
<1>1. Init => AioInv /\ CopyInv /\ TurnInv
  BY InitAio, InitCopy, InitTurn
<1>2. AioInv /\ CopyInv /\ DirectIoAligned /\ TurnInv /\ [Next]_vars
      => AioInv' /\ CopyInv' /\ TurnInv'
  BY NextAio, NextCopy, NextTurn
<1>3. ASSUME AioInv, CopyInv, TurnInv, [Next]_vars
      PROVE  [\A f \in Files : file'[f].subm < file[f].subm =>
                 \A r \in Rids : f \in tok[r].span => ~Needed(r)]_vars
  <2> SUFFICES ASSUME Next, NEW f \in Files, file'[f].subm < file[f].subm,
                      NEW r \in Rids, f \in tok[r].span
               PROVE  ~Needed(r)
    BY <1>3
  <2>1. TypeOK /\ MapInv /\ file[f].subm \in Nat
    BY <1>3, RingFacts DEF AioInv, MapsInv
  <2>2. fault = "none"
    BY DEF Next, Caller, CallEnqueue, CallDequeue, CallEnd, NewCall, Retry, CallFlush, Holder,
           Check, CheckBusy, CheckFull, CheckPage, CheckRefused, CheckOk, PageChecked, FileChecked,
           Encode, Record, EnqueueTxn, EnqueueNonTxn, DequeueTxn, DequeueNonTxn, AbortTxn,
           CommitTxn, CloseTxn, Recorded, FileHeaderCheck, WriteFlush, FlushCheck, Exit, Wait,
           WaitPage, WaitFile, WaitTimeout, Kernel, ReapPage, ReapHeader, Reaping, At
  <2>3. CASE Stale
    BY <1>3, <2>1, <2>3, StaleTurn
  <2>4. CASE PlaceInv /\ OwnInv /\ HoldInv
    <3>1. /\ CanReset(file[f])
          /\ \/ f = ring.idx /\ ~Ready
             \/ f = After(ring.idx, 1) /\ Ready /\ pgCntr = FilePages
      BY <2>1, <2>4, TakesFile
    <3> QED BY <2>1, <2>4, <3>1, NeededStays
  <2> QED BY <1>3, <2>2, <2>3, <2>4 DEF TurnInv
<1> QED BY <1>1, <1>2, <1>3, DirectIoAlignedAlways, PTL DEF Spec, NoLiveOverwritten
=============================================================================
