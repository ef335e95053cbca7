------------------------------ MODULE Records ------------------------------
(***************************************************************************)
(* The layout of records (classes enq_rec, deq_rec, txn_rec over jrec):    *)
(* header, xid, data and tail, one after the other, padded to whole dblks. *)
(* A record is cut wherever a page of the write cache ends, again and      *)
(* elsewhere by the pages of the read cache, and by the files when it is   *)
(* recovered.  Each cut is taken up by a call with an offset in dblks that *)
(* has to work out which parts are still to come.                          *)
(*                                                                         *)
(* Sizes are in units; what is in a unit is the name of the part it is     *)
(* from and the place in it.  One behaviour writes one record, then reads  *)
(* it back through the read cache or through recovery.                     *)
(***************************************************************************)
EXTENDS Integers, Sequences

CONSTANTS
    DblkSize,       \* units of a dblk (JRNL_DBLK_SIZE)
    EnqHdrSize, DeqHdrSize, TxnHdrSize, TailSize,
    MaxXid,         \* bound: units of an xid
    MaxData,        \* bound: units of a message
    ExtDblks,       \* bound: dblks of the record of an external message
    PageSizes       \* dblks of a page, or of a file

ASSUME RecordsAssumption ==
    /\ \A n \in {DblkSize, EnqHdrSize, DeqHdrSize, TxnHdrSize, TailSize} : n \in Nat \ {0}
    /\ \A n \in {EnqHdrSize, DeqHdrSize, TxnHdrSize} :
          DblkSize >= n + TailSize          \* "the header will always fit into the first dblk"
    /\ {MaxXid, MaxData, ExtDblks} \subseteq Nat
    /\ PageSizes \subseteq Nat \ {0}

VARIABLES
    rec,        \* the record
    phase,      \* write, read, recover, done
    how,        \* who has read it back
    pos,        \* dblks of it that are dealt with (rec_offs_dblks)
    room,       \* dblks to the end of the current page, and of a page
    disk,       \* the units where the record goes
    mem,        \* the reader's buffer and tail
    fault       \* a copy out of bounds, or a tail that does not match

vars == <<rec, phase, how, pos, room, disk, mem, fault>>

HdrSize(k) == CASE k = "enq" -> EnqHdrSize [] k = "deq" -> DeqHdrSize
                [] k = "txn" -> TxnHdrSize

\* The data an enqueue record carries: an external message is kept elsewhere.
DataSize(r) == IF r.ext THEN 0 ELSE r.data
HasTail(r)  == r.kind # "deq" \/ r.xid > 0

EnqRecSize(r) == EnqHdrSize + r.xid + DataSize(r) + TailSize
DeqRecSize(r) == DeqHdrSize + IF r.xid > 0 THEN r.xid + TailSize ELSE 0
TxnRecSize(r) == TxnHdrSize + r.xid + TailSize
RecSize(r) == CASE r.kind = "enq" -> EnqRecSize(r) [] r.kind = "deq" -> DeqRecSize(r)
                [] r.kind = "txn" -> TxnRecSize(r)

Dblks(n) == (n + DblkSize - 1) \div DblkSize
RecDblks(r) == Dblks(RecSize(r))

Rec(k, x, d, e) == [kind |-> k, xid |-> x, data |-> d, ext |-> e]
EnqRecord == {r \in {Rec("enq", x, d, e) : x \in 0 .. MaxXid, d \in 0 .. MaxData, e \in BOOLEAN} :
                  r.ext => RecDblks(r) <= ExtDblks}
DeqRecord == {Rec("deq", x, 0, FALSE) : x \in 0 .. MaxXid}
TxnRecord == {Rec("txn", x, 0, FALSE) : x \in 1 .. MaxXid}

Part(name, n) == [i \in 1 .. n |-> <<name, i>>]
Xid(r)  == Part("xid", r.xid)
Data(r) == Part("data", DataSize(r))
Tail1(r) == IF HasTail(r) THEN Part("tail", TailSize) ELSE <<>>

\* What is left of a part, or of an offset, beyond the first n units.
Beyond(s, n) == SubSeq(s, n + 1, Len(s))
Past(offs, n) == IF offs > n THEN offs - n ELSE 0
UpTo(s, n) == SubSeq(s, 1, IF n < Len(s) THEN n ELSE Len(s))

-----------------------------------------------------------------------------
(* encode(): the units that go into the page when offs dblks of the record *)
(* are written and the page has n dblks left.                              *)

Whole(r) == Part("hdr", HdrSize(r.kind)) \o Xid(r) \o Data(r) \o Tail1(r)

\* Mutant: an offset that lies beyond the xid is not counted from its end.
DeqEncode_KeepsOffset(r, offs, n) ==
    LET from == offs * DblkSize - DeqHdrSize
    IN  UpTo(IF offs = 0 THEN Whole(r) ELSE Beyond(Xid(r), from) \o Beyond(Tail1(r), from),
             n * DblkSize)

\* Data of an external message is not copied, but the last page of the record
\* counts it all the same.
EnqEncode(r, offs, n) ==
    LET from       == offs * DblkSize - EnqHdrSize
        split      == RecDblks(r) - offs > n
        beyondXid  == Past(from, r.xid)
        beyondData == IF r.ext /\ split THEN beyondXid ELSE Past(beyondXid, r.data)
        rest       == Beyond(Xid(r), from) \o Beyond(Data(r), beyondXid)
                      \o Beyond(Tail1(r), beyondData)
    IN  UpTo(IF offs = 0 THEN Whole(r) ELSE rest, n * DblkSize)

DeqEncode(r, offs, n) ==
    LET from == offs * DblkSize - DeqHdrSize
        rest == Beyond(Xid(r), from) \o Beyond(Tail1(r), Past(from, r.xid))
    IN  UpTo(IF offs = 0 THEN Whole(r) ELSE rest, n * DblkSize)

TxnEncode(r, offs, n) ==
    LET from == offs * DblkSize - TxnHdrSize
        rest == Beyond(Xid(r), from) \o Beyond(Tail1(r), Past(from, r.xid))
    IN  UpTo(IF offs = 0 THEN Whole(r) ELSE rest, n * DblkSize)

Encode(r, offs, n) == CASE r.kind = "enq" -> EnqEncode(r, offs, n)
                        [] r.kind = "deq" -> DeqEncode(r, offs, n)
                        [] r.kind = "txn" -> TxnEncode(r, offs, n)

-----------------------------------------------------------------------------
(* decode(): how much of the page goes to the buffer (behind its first at  *)
(* units), how much to the tail (behind tailAt), and whether the tail is   *)
(* then checked.                                                           *)

Plan(at, body, tailAt, tail, chk) ==
    [at |-> at, body |-> body, tailAt |-> tailAt, tail |-> tail, chk |-> chk]

\* Mutant: a page that ends in the tail is copied to the buffer as a whole.
FirstPlan_NoTailSplit(hdr, body, n) ==
    IF Dblks(hdr + body + TailSize) <= n THEN Plan(0, body, 0, TailSize, TRUE)
    ELSE Plan(0, n * DblkSize - hdr, 0, 0, FALSE)

\* The first page of a record; body is the xid and the data.
FirstPlan(hdr, body, n) ==
    IF Dblks(hdr + body + TailSize) <= n THEN Plan(0, body, 0, TailSize, TRUE)
    ELSE IF Dblks(hdr + body) <= n
         THEN Plan(0, body, 0, n * DblkSize - hdr - body, FALSE)
         ELSE Plan(0, n * DblkSize - hdr, 0, 0, FALSE)

\* Mutant: a tail that was begun on the page before is taken as new.
NextPlan_WholeTail(hdr, body, offs, n) ==
    LET from == offs * DblkSize - hdr
        left == body - from
    IN  IF Dblks(hdr + body + TailSize) - offs <= n
        THEN IF left > 0 THEN Plan(from, left, 0, TailSize, TRUE)
                         ELSE Plan(from, 0, 0, TailSize, TRUE)
        ELSE IF Dblks(hdr + body) - offs <= n
             THEN Plan(from, left, 0, n * DblkSize - left, FALSE)
             ELSE Plan(from, n * DblkSize, 0, 0, FALSE)

\* A later page, of a record whose body is its xid.
NextPlan(hdr, body, offs, n) ==
    LET from == offs * DblkSize - hdr
        left == body - from
    IN  IF Dblks(hdr + body + TailSize) - offs <= n
        THEN IF left > 0 THEN Plan(from, left, 0, TailSize, TRUE)
                         ELSE Plan(from, 0, -left, TailSize + left, TRUE)
        ELSE IF Dblks(hdr + body) - offs <= n
             THEN Plan(from, left, 0, n * DblkSize - left, FALSE)
             ELSE Plan(from, n * DblkSize, 0, 0, FALSE)

\* A later page of an enqueue record: what is left is counted with the data also
\* of an external message.
EnqNextPlan(r, offs, n) ==
    LET from   == offs * DblkSize - EnqHdrSize
        left   == r.xid + r.data - from
        inBody == from < r.xid \/ (~r.ext /\ left > 0)
        body   == IF inBody THEN left ELSE 0
    IN  IF RecDblks(r) - offs <= n
        THEN IF inBody THEN Plan(from, left, 0, TailSize, TRUE)
                       ELSE Plan(from, 0, -left, TailSize + left, TRUE)
        ELSE IF Dblks(EnqHdrSize + r.xid + DataSize(r)) - offs <= n
             THEN Plan(from, body, 0, n * DblkSize - body, FALSE)
             ELSE Plan(from, n * DblkSize, 0, 0, FALSE)

\* A record without xid and data ends with its header: its tail is not looked at.
EnqPlan(r, offs, n) ==
    IF offs > 0 THEN EnqNextPlan(r, offs, n)
    ELSE IF r.xid + DataSize(r) = 0 THEN Plan(0, 0, 0, 0, FALSE)
    ELSE FirstPlan(EnqHdrSize, r.xid + DataSize(r), n)
DeqPlan(r, offs, n) ==
    IF offs > 0 THEN NextPlan(DeqHdrSize, r.xid, offs, n)
    ELSE IF r.xid = 0 THEN Plan(0, 0, 0, 0, FALSE)
    ELSE FirstPlan(DeqHdrSize, r.xid, n)
TxnPlan(r, offs, n) ==
    IF offs > 0 THEN NextPlan(TxnHdrSize, r.xid, offs, n)
                ELSE FirstPlan(TxnHdrSize, r.xid, n)

DecodePlan(r, offs, n) == CASE r.kind = "enq" -> EnqPlan(r, offs, n)
                            [] r.kind = "deq" -> DeqPlan(r, offs, n)
                            [] r.kind = "txn" -> TxnPlan(r, offs, n)

\* memcpy: n units of page, behind its first `from`, to behind the first `at` of m.
Copy(m, at, page, from, n) ==
    [i \in DOMAIN m |-> IF at < i /\ i <= at + n /\ from + i - at <= Len(page)
                        THEN page[from + i - at] ELSE m[i]]
Fits(m, at, page, from, n) == n >= 0 /\ at + n <= Len(m) /\ from + n <= Len(page)

TailMatches(r, tail) == tail = Tail1(r)

-----------------------------------------------------------------------------
Unwritten == <<"old", 0>>
Blank(n) == [i \in 1 .. n |-> Unwritten]
Space(r) == Blank(RecDblks(r) * DblkSize)

SomeRoom == \E p \in PageSizes : \E n \in 1 .. p : room' = [left |-> n, page |-> p]

Init ==
    /\ rec \in EnqRecord \cup DeqRecord \cup TxnRecord
    /\ phase = "write" /\ how = "none" /\ pos = 0
    /\ \E p \in PageSizes : \E n \in 1 .. p : room = [left |-> n, page |-> p]
    /\ disk = Space(rec)
    /\ mem = [buf |-> <<>>, tail |-> <<>>]
    /\ fault = "none"

NextPage == room' = [room EXCEPT !.left = room.page]

Write ==
    /\ phase = "write"
    /\ LET chunk == Encode(rec, pos, room.left)
       IN  /\ fault' = IF Fits(disk, pos * DblkSize, chunk, 0, Len(chunk)) THEN "none"
                                                                         ELSE "overrun"
           /\ disk' = Copy(disk, pos * DblkSize, chunk, 0, Len(chunk))
           /\ pos' = pos + Dblks(Len(chunk))
    /\ phase' = IF pos' >= RecDblks(rec) THEN "written" ELSE "write"
    /\ NextPage
    /\ UNCHANGED <<rec, how, mem>>

\* rmgr::read() and jcntl::decode() start on the record with buffers of its size.
StartRead(mode, size) ==
    /\ phase = "written" /\ fault = "none"
    /\ phase' = mode /\ how' = mode
    /\ pos' = 0
    /\ SomeRoom
    /\ mem' = [buf |-> Blank(size), tail |-> Blank(Len(Tail1(rec)))]
    /\ UNCHANGED <<rec, disk, fault>>

Open == StartRead("read", rec.xid + DataSize(rec)) \/ StartRead("recover", rec.xid)

Min2(a, b) == IF a < b THEN a ELSE b
PageAt(p, n) == SubSeq(disk, p * DblkSize + 1, Min2((p + n) * DblkSize, Len(disk)))

\* rmgr::read_enq(): decode() on each page until the record is read.
Read ==
    /\ phase = "read" /\ fault = "none"
    /\ LET page == PageAt(pos, room.left)
           p    == DecodePlan(rec, pos, room.left)
           from == IF pos = 0 THEN HdrSize(rec.kind) ELSE 0
           m    == [buf  |-> Copy(mem.buf, p.at, page, from, p.body),
                    tail |-> Copy(mem.tail, p.tailAt, page, from + p.body, p.tail)]
       IN  /\ mem' = m
           /\ fault' = IF ~Fits(mem.buf, IF p.body = 0 THEN 0 ELSE p.at, page, from, p.body)
                          \/ ~Fits(mem.tail, p.tailAt, page, from + p.body, p.tail)
                       THEN "overrun"
                       ELSE IF p.chk /\ ~TailMatches(rec, m.tail) THEN "badtail" ELSE "none"
           /\ pos' = pos + Dblks(from + p.body + p.tail)
    /\ phase' = IF pos' >= RecDblks(rec) THEN "done" ELSE "read"
    /\ NextPage
    /\ UNCHANGED <<rec, how, disk>>

\* rcv_decode(): the xid is kept, data skipped, the tail checked at the end; at
\* the end of a file it says so, and goes on behind the header of the next one.
RcvParts(m, xidAt, tailAt, offs, page) ==
    LET taken(part, at) == [i \in DOMAIN part |->
            IF at + i > offs /\ at + i <= offs + Len(page) THEN page[at + i - offs] ELSE part[i]]
    IN  [buf |-> taken(m.buf, xidAt), tail |-> taken(m.tail, tailAt)]

EnqRcvDecode(m, r, offs, page) ==
    RcvParts(m, EnqHdrSize, EnqHdrSize + r.xid + DataSize(r), offs, page)
DeqRcvDecode(m, r, offs, page) == RcvParts(m, DeqHdrSize, DeqHdrSize + r.xid, offs, page)
TxnRcvDecode(m, r, offs, page) == RcvParts(m, TxnHdrSize, TxnHdrSize + r.xid, offs, page)

RcvDecode(m, r, offs, page) == CASE r.kind = "enq" -> EnqRcvDecode(m, r, offs, page)
                                 [] r.kind = "deq" -> DeqRcvDecode(m, r, offs, page)
                                 [] r.kind = "txn" -> TxnRcvDecode(m, r, offs, page)

Recover ==
    /\ phase = "recover" /\ fault = "none"
    /\ mem' = RcvDecode(mem, rec, pos * DblkSize, PageAt(pos, room.left))
    /\ pos' = Min2(pos + room.left, RecDblks(rec))
    /\ phase' = IF pos' = RecDblks(rec) THEN "done" ELSE "recover"
    /\ fault' = IF phase' = "done" /\ HasTail(rec) /\ ~TailMatches(rec, mem'.tail)
                THEN "badtail" ELSE "none"
    /\ NextPage
    /\ UNCHANGED <<rec, how, disk>>

Next == Write \/ Open \/ Read \/ Recover
Spec == Init /\ [][Next]_vars

-----------------------------------------------------------------------------
(* Properties.                                                             *)

\* Wherever the pages of the writer, the pages of the reader or the files cut a
\* record, also in the middle of its tail, the reader gets the xid and the data
\* that were written, recovery the xid, and both find the tail in its place.
RoundTrip ==
    /\ fault # "badtail"
    /\ phase = "done" => mem.buf = Xid(rec) \o IF how = "read" THEN Data(rec) ELSE <<>>

\* No copy of encode() or decode() leaves the page, the buffer of xid and data, or
\* the tail ("a possible memory overwrite", enq_rec.cpp), and the reader ends on
\* the dblk where the writer put the next record.
InBounds ==
    /\ fault # "overrun"
    /\ phase \in {"written", "done"} => pos = RecDblks(rec)
=============================================================================
