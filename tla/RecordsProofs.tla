---------------------------- MODULE RecordsProofs ----------------------------
(***************************************************************************)
(* Proofs about module Records, for any sizes of headers, tail and dblk,   *)
(* any record, and pages and files of any number of dblks: what encode()   *)
(* writes from an offset is what the record has there, decode() takes each *)
(* unit to its place and stays within page, buffer and tail, and what was  *)
(* written is read back.                                                   *)
(***************************************************************************)
EXTENDS Records, SequenceTheorems, TLAPS

-----------------------------------------------------------------------------
(* Dblks.                                                                  *)

\* Division rounds down.
LEMMA Division == \A n \in Int : \A k \in Nat \ {0} :
    n \div k \in Int /\ k * (n \div k) <= n /\ n < k * (n \div k) + k
OBVIOUS

\* A record takes at most k dblks if and only if it is no longer than these.
LEMMA DblksLe == \A n, k \in Int : Dblks(n) \in Int /\ (Dblks(n) <= k <=> n <= k * DblkSize)
<1> TAKE n, k \in Int
<1> DEFINE q == (n + DblkSize - 1) \div DblkSize
<1>1. DblkSize \in Nat /\ DblkSize > 0 BY RecordsAssumption
<1>2. q \in Int /\ DblkSize * q <= n + DblkSize - 1 /\ n + DblkSize - 1 < DblkSize * q + DblkSize
  BY <1>1, Division
<1> HIDE DEF q
<1>3. \A a, b \in Int : a <= b => DblkSize * a <= DblkSize * b BY <1>1
<1>4. q <= k => n <= k * DblkSize
  <2> SUFFICES ASSUME q <= k PROVE n <= k * DblkSize OBVIOUS
  <2>1. DblkSize * q <= DblkSize * k BY <1>2, <1>3
  <2> QED BY <1>1, <1>2, <2>1
<1>5. ~(q <= k) => ~(n <= k * DblkSize)
  <2> SUFFICES ASSUME k + 1 <= q PROVE ~(n <= k * DblkSize) BY <1>2
  <2>1. DblkSize * (k + 1) <= DblkSize * q BY <1>2, <1>3
  <2>2. DblkSize * (k + 1) = k * DblkSize + DblkSize BY <1>1
  <2>3. DblkSize * q \in Int /\ k * DblkSize \in Int BY <1>1, <1>2
  <2> QED BY <1>1, <1>2, <2>1, <2>2, <2>3
<1> QED BY <1>2, <1>4, <1>5 DEF Dblks, q

\* It is the only number of dblks it just fits into.
LEMMA DblksIs == \A n, k \in Int :
    n <= k * DblkSize /\ ~(n <= (k - 1) * DblkSize) => Dblks(n) = k
<1> TAKE n, k \in Int
<1>1. Dblks(n) \in Int /\ (Dblks(n) <= k <=> n <= k * DblkSize) BY DblksLe
<1>2. k - 1 \in Int /\ (Dblks(n) <= k - 1 <=> n <= (k - 1) * DblkSize) BY DblksLe
<1> QED BY <1>1, <1>2

\* What is left behind the first k dblks, and whole dblks.
LEMMA DblksLess == \A n, k \in Int : Dblks(n - k * DblkSize) = Dblks(n) - k /\ Dblks(k * DblkSize) = k
<1> TAKE n, k \in Int
<1> DEFINE d == Dblks(n)
<1>0. DblkSize \in Nat /\ DblkSize > 0 BY RecordsAssumption
<1>1. d \in Int /\ n <= d * DblkSize /\ ~(n <= (d - 1) * DblkSize)
  <2>1. d \in Int BY DblksLe
  <2> QED BY <2>1, DblksLe
<1> HIDE DEF d
<1>2. (d - k) * DblkSize = d * DblkSize - k * DblkSize BY <1>0, <1>1
<1>3. (d - k - 1) * DblkSize = (d - 1) * DblkSize - k * DblkSize BY <1>0, <1>1
<1>4. d * DblkSize \in Int /\ k * DblkSize \in Int /\ (d - 1) * DblkSize \in Int BY <1>0, <1>1
<1>5. n - k * DblkSize <= (d - k) * DblkSize /\ ~(n - k * DblkSize <= (d - k - 1) * DblkSize)
  BY <1>1, <1>2, <1>3, <1>4
<1>6. Dblks(n - k * DblkSize) = d - k BY <1>1, <1>4, <1>5, DblksIs
<1>7. (k - 1) * DblkSize = k * DblkSize - DblkSize BY <1>0
<1>8. Dblks(k * DblkSize) = k BY <1>0, <1>4, <1>7, DblksIs
<1> QED BY <1>6, <1>8 DEF d

-----------------------------------------------------------------------------
(* Parts of a record.                                                      *)

AllRecords == EnqRecord \cup DeqRecord \cup TxnRecord
Units == {"hdr", "xid", "data", "tail", "old"} \X Nat

\* The sizes of header, xid and data, and tail.
H(r) == HdrSize(r.kind)
B(r) == r.xid + DataSize(r)
T(r) == IF HasTail(r) THEN TailSize ELSE 0
Body(r) == Xid(r) \o Data(r)

\* The header and a tail fit into a dblk, and only a dequeue record has no tail.
LEMMA Sizes ==
    ASSUME NEW r \in AllRecords
    PROVE  /\ H(r) \in Nat \ {0} /\ B(r) \in Nat /\ r.xid \in Nat /\ r.data \in Nat /\ DataSize(r) \in Nat
           /\ T(r) \in Nat /\ TailSize \in Nat \ {0}
           /\ DblkSize \in Nat \ {0} /\ H(r) + TailSize <= DblkSize
           /\ RecSize(r) = H(r) + B(r) + T(r)
           /\ B(r) > 0 => T(r) = TailSize
           /\ r.kind \in {"enq", "deq", "txn"} /\ r.ext \in BOOLEAN
           /\ r.kind # "enq" => DataSize(r) = 0 /\ r.data = 0 /\ ~r.ext
           /\ r.kind # "deq" => T(r) = TailSize
           /\ r.kind = "txn" => r.xid > 0
<1>1. MaxXid \in Nat /\ MaxData \in Nat BY RecordsAssumption
<1>2. /\ TailSize \in Nat \ {0} /\ DblkSize \in Nat \ {0} /\ EnqHdrSize \in Nat \ {0}
      /\ DeqHdrSize \in Nat \ {0} /\ TxnHdrSize \in Nat \ {0}
      /\ EnqHdrSize + TailSize <= DblkSize /\ DeqHdrSize + TailSize <= DblkSize
      /\ TxnHdrSize + TailSize <= DblkSize
  BY RecordsAssumption
<1>3. CASE r \in EnqRecord
  <2>1. PICK x \in 0 .. MaxXid, d \in 0 .. MaxData, e \in BOOLEAN : r = Rec("enq", x, d, e)
    BY <1>3 DEF EnqRecord
  <2>2. r.kind = "enq" /\ r.xid = x /\ r.data = d /\ r.ext = e BY <2>1 DEF Rec
  <2>3. x \in Nat /\ d \in Nat BY <1>1
  <2>4. DataSize(r) \in Nat BY <2>2, <2>3 DEF DataSize
  <2> QED BY <1>2, <2>2, <2>3, <2>4 DEF H, B, T, HdrSize, HasTail, RecSize, EnqRecSize
<1>4. CASE r \in DeqRecord
  <2>1. PICK x \in 0 .. MaxXid : r = Rec("deq", x, 0, FALSE) BY <1>4 DEF DeqRecord
  <2>2. r.kind = "deq" /\ r.xid = x /\ r.data = 0 /\ r.ext = FALSE BY <2>1 DEF Rec
  <2>3. x \in Nat BY <1>1
  <2>4. DataSize(r) = 0 BY <2>2 DEF DataSize
  <2>5. H(r) = DeqHdrSize /\ B(r) = x /\ (x > 0 => T(r) = TailSize) /\ (x = 0 => T(r) = 0)
    BY <2>2, <2>3, <2>4 DEF H, B, T, HdrSize, HasTail
  <2>6. (x > 0 => RecSize(r) = DeqHdrSize + (x + TailSize)) /\ (x = 0 => RecSize(r) = DeqHdrSize + 0)
    BY <2>2 DEF RecSize, DeqRecSize
  <2>7. RecSize(r) = H(r) + B(r) + T(r) /\ (B(r) > 0 => T(r) = TailSize) /\ T(r) \in Nat
    BY <1>2, <2>3, <2>5, <2>6
  <2>8. H(r) \in Nat \ {0} /\ B(r) \in Nat /\ H(r) + TailSize <= DblkSize BY <1>2, <2>3, <2>5
  <2>9. /\ r.kind \in {"enq", "deq", "txn"} /\ r.ext \in BOOLEAN /\ ~r.ext
        /\ r.kind = "deq" /\ DataSize(r) = 0 /\ r.data = 0 /\ r.xid \in Nat
    BY <2>2, <2>3, <2>4
  <2> QED BY <1>2, <2>5, <2>7, <2>8, <2>9
<1>5. CASE r \in TxnRecord
  <2>1. PICK x \in 1 .. MaxXid : r = Rec("txn", x, 0, FALSE) BY <1>5 DEF TxnRecord
  <2>2. r.kind = "txn" /\ r.xid = x /\ r.data = 0 /\ r.ext = FALSE BY <2>1 DEF Rec
  <2>3. x \in Nat /\ x > 0 BY <1>1
  <2>4. DataSize(r) = 0 BY <2>2 DEF DataSize
  <2>5. H(r) = TxnHdrSize /\ B(r) = x /\ T(r) = TailSize
    BY <2>2, <2>3, <2>4 DEF H, B, T, HdrSize, HasTail
  <2>6. RecSize(r) = TxnHdrSize + x + TailSize BY <2>2 DEF RecSize, TxnRecSize
  <2>7. RecSize(r) = H(r) + B(r) + T(r) BY <1>2, <2>3, <2>5, <2>6
  <2>8. H(r) \in Nat \ {0} /\ B(r) \in Nat /\ H(r) + TailSize <= DblkSize BY <1>2, <2>3, <2>5
  <2>9. /\ r.kind \in {"enq", "deq", "txn"} /\ r.ext \in BOOLEAN /\ ~r.ext
        /\ r.kind = "txn" /\ DataSize(r) = 0 /\ r.data = 0 /\ r.xid \in Nat /\ r.xid > 0
    BY <2>2, <2>3, <2>4
  <2> QED BY <1>2, <2>5, <2>7, <2>8, <2>9
<1> QED BY <1>3, <1>4, <1>5 DEF AllRecords

\* One part after another.
LEMMA Joined == \A a, b \in Seq(Units) :
    /\ a \o b \in Seq(Units) /\ Len(a) \in Nat /\ Len(b) \in Nat /\ Len(a \o b) = Len(a) + Len(b)
    /\ \A i \in 1 .. Len(a) + Len(b) : (a \o b)[i] = IF i <= Len(a) THEN a[i] ELSE b[i - Len(a)]
<1> TAKE a, b \in Seq(Units)
<1>1. Len(a) \in Nat /\ Len(b) \in Nat BY LenProperties
<1> QED BY <1>1, ConcatProperties

\* A part is a sequence of units.
LEMMA PartIs == \A name \in {"hdr", "xid", "data", "tail"} : \A n \in Nat :
    Part(name, n) \in Seq(Units) /\ Len(Part(name, n)) = n /\ DOMAIN Part(name, n) = 1 .. n
<1> TAKE name \in {"hdr", "xid", "data", "tail"}
<1> TAKE n \in Nat
<1>1. \A i \in 1 .. n : <<name, i>> \in Units BY DEF Units
<1>2. Part(name, n) \in [1 .. n -> Units] BY <1>1 DEF Part
<1> QED BY <1>2

\* Xid, data, tail and body of a record are as long as it says.
LEMMA PartsAre ==
    ASSUME NEW r \in AllRecords
    PROVE  /\ Part("hdr", H(r)) \in Seq(Units) /\ Len(Part("hdr", H(r))) = H(r)
           /\ Xid(r) \in Seq(Units) /\ Len(Xid(r)) = r.xid
           /\ Data(r) \in Seq(Units) /\ Len(Data(r)) = DataSize(r)
           /\ Tail1(r) \in Seq(Units) /\ Len(Tail1(r)) = T(r)
           /\ Body(r) \in Seq(Units) /\ Len(Body(r)) = B(r)
<1>1. Tail1(r) \in Seq(Units) /\ Len(Tail1(r)) = T(r) BY Sizes, PartIs DEF Tail1, T
<1>2. /\ Xid(r) \in Seq(Units) /\ Len(Xid(r)) = r.xid
      /\ Data(r) \in Seq(Units) /\ Len(Data(r)) = DataSize(r)
  BY Sizes, PartIs DEF Xid, Data
<1>3. Body(r) \in Seq(Units) /\ Len(Body(r)) = Len(Xid(r)) + Len(Data(r)) BY <1>2, Joined DEF Body
<1>4. Len(Body(r)) = B(r) BY <1>2, <1>3 DEF B
<1> QED BY <1>1, <1>2, <1>3, <1>4, Sizes, PartIs

\* Where each of them is in the record.
LEMMA WholeIs ==
    ASSUME NEW r \in AllRecords
    PROVE  /\ Whole(r) \in Seq(Units) /\ Len(Whole(r)) = RecSize(r)
           /\ \A i \in 1 .. r.xid : Whole(r)[H(r) + i] = Xid(r)[i]
           /\ \A i \in 1 .. B(r) : Whole(r)[H(r) + i] = Body(r)[i]
           /\ \A i \in 1 .. T(r) : Whole(r)[H(r) + B(r) + i] = Tail1(r)[i]
<1> DEFINE h == Part("hdr", H(r))
           x == Xid(r)
           d == Data(r)
           t == Tail1(r)
<1>1. h \in Seq(Units) /\ x \in Seq(Units) /\ d \in Seq(Units) /\ t \in Seq(Units) BY PartsAre
<1>2. /\ H(r) \in Nat /\ r.xid \in Nat /\ DataSize(r) \in Nat /\ T(r) \in Nat
      /\ B(r) = r.xid + DataSize(r) /\ RecSize(r) = H(r) + B(r) + T(r)
  BY Sizes DEF B
<1>3. Whole(r) = ((h \o x) \o d) \o t /\ Body(r) = x \o d BY DEF Whole, Body, H
<1>4. Len(h) = H(r) /\ Len(x) = r.xid /\ Len(d) = DataSize(r) /\ Len(t) = T(r) BY PartsAre
<1> HIDE DEF h, x, d, t
<1> DEFINE hx == h \o x
           hxd == hx \o d
           xd == x \o d
           w == hxd \o t
<1>5. hx \in Seq(Units) /\ Len(hx) = Len(h) + Len(x) BY <1>1, Joined
<1>6. \A i \in 1 .. Len(h) + Len(x) : hx[i] = IF i <= Len(h) THEN h[i] ELSE x[i - Len(h)]
  BY <1>1, Joined
<1>7. xd \in Seq(Units) /\ Len(xd) = Len(x) + Len(d) BY <1>1, Joined
<1>8. \A i \in 1 .. Len(x) + Len(d) : xd[i] = IF i <= Len(x) THEN x[i] ELSE d[i - Len(x)]
  BY <1>1, Joined
<1> HIDE DEF hx, xd
<1>9. hxd \in Seq(Units) /\ Len(hxd) = Len(hx) + Len(d) BY <1>1, <1>5, Joined
<1>10. \A i \in 1 .. Len(hx) + Len(d) : hxd[i] = IF i <= Len(hx) THEN hx[i] ELSE d[i - Len(hx)]
  BY <1>1, <1>5, Joined
<1> HIDE DEF hxd
<1>11. w \in Seq(Units) /\ Len(w) = Len(hxd) + Len(t) BY <1>1, <1>9, Joined
<1>12. \A i \in 1 .. Len(hxd) + Len(t) : w[i] = IF i <= Len(hxd) THEN hxd[i] ELSE t[i - Len(hxd)]
  BY <1>1, <1>9, Joined
<1>13. Whole(r) = w BY <1>3 DEF hxd, hx
<1> HIDE DEF w
<1>14. Len(hx) = H(r) + r.xid BY <1>2, <1>4, <1>5
<1>15. Len(hxd) = H(r) + B(r) BY <1>2, <1>4, <1>9, <1>14
<1>16. Len(w) = RecSize(r) BY <1>2, <1>4, <1>11, <1>15
<1>17. ASSUME NEW i \in 1 .. B(r) PROVE w[H(r) + i] = xd[i]
  <2>1. H(r) + i \in 1 .. Len(hxd) + Len(t) /\ H(r) + i <= Len(hxd) BY <1>2, <1>4, <1>15
  <2>2. w[H(r) + i] = hxd[H(r) + i] BY <1>12, <2>1
  <2>3. H(r) + i \in 1 .. Len(hx) + Len(d) /\ i \in 1 .. Len(x) + Len(d) BY <1>2, <1>4, <1>14
  <2>4. CASE i <= r.xid
    <3>1. H(r) + i <= Len(hx) /\ i <= Len(x) /\ H(r) + i \in 1 .. Len(h) + Len(x) /\ ~(H(r) + i <= Len(h))
      BY <1>2, <1>4, <1>14, <2>4
    <3>2. hxd[H(r) + i] = hx[H(r) + i] BY <1>10, <2>3, <3>1
    <3>3. (H(r) + i) - Len(h) = i BY <1>2, <1>4
    <3>4. hx[H(r) + i] = x[i] BY <1>6, <3>1, <3>3
    <3>5. xd[i] = x[i] BY <1>8, <2>3, <3>1
    <3> QED BY <2>2, <3>2, <3>4, <3>5
  <2>5. CASE ~(i <= r.xid)
    <3>1. ~(H(r) + i <= Len(hx)) /\ ~(i <= Len(x)) BY <1>2, <1>4, <1>14, <2>5
    <3>2. (H(r) + i) - Len(hx) = i - Len(x) BY <1>2, <1>4, <1>14
    <3>3. hxd[H(r) + i] = d[i - Len(x)] BY <1>10, <2>3, <3>1, <3>2
    <3>4. xd[i] = d[i - Len(x)] BY <1>8, <2>3, <3>1
    <3> QED BY <2>2, <3>3, <3>4
  <2> QED BY <2>4, <2>5
<1>18. ASSUME NEW i \in 1 .. r.xid PROVE w[H(r) + i] = x[i]
  <2>1. i \in 1 .. B(r) /\ i \in 1 .. Len(x) + Len(d) /\ i <= Len(x) BY <1>2, <1>4
  <2> QED BY <1>8, <1>17, <2>1
<1>19. ASSUME NEW i \in 1 .. T(r) PROVE w[H(r) + B(r) + i] = t[i]
  <2>1. H(r) + B(r) + i \in 1 .. Len(hxd) + Len(t) /\ ~(H(r) + B(r) + i <= Len(hxd))
    BY <1>2, <1>4, <1>15
  <2>2. (H(r) + B(r) + i) - Len(hxd) = i BY <1>2, <1>15
  <2> QED BY <1>12, <2>1, <2>2
<1> QED BY <1>3, <1>11, <1>13, <1>16, <1>17, <1>18, <1>19 DEF x, t, xd

\* What a part has left behind its first n units.
LEMMA BeyondIs ==
    ASSUME NEW s \in Seq(Units), NEW n \in Nat
    PROVE  /\ Beyond(s, n) \in Seq(Units) /\ Len(Beyond(s, n)) \in Nat
           /\ n < Len(s) => Len(Beyond(s, n)) = Len(s) - n
           /\ ~(n < Len(s)) => Len(Beyond(s, n)) = 0
           /\ \A i \in 1 .. Len(Beyond(s, n)) : Beyond(s, n)[i] = s[n + i]
<1>1. Len(s) \in Nat /\ s \in [1 .. Len(s) -> Units] BY LenProperties
<1> DEFINE u == SubSeq(s, n + 1, Len(s))
<1>2. Beyond(s, n) = u BY DEF Beyond
<1>3. CASE n < Len(s)
  <2>1. n + 1 \in 1 .. Len(s) /\ Len(s) \in 1 .. Len(s) BY <1>1, <1>3
  <2>2. \A i \in 1 .. Len(s) - n : n + i \in 1 .. Len(s) BY <1>1, <1>3
  <2>3. u = [i \in 1 .. Len(s) - n |-> s[n + i]]
    BY <1>1, <1>3, <2>1
  <2>4. u \in [1 .. Len(s) - n -> Units] BY <1>1, <2>2, <2>3
  <2>5. Len(s) - n \in Nat BY <1>1, <1>3
  <2>6. u \in Seq(Units) /\ Len(u) = Len(s) - n BY <2>4, <2>5
  <2> HIDE DEF u
  <2> QED BY <1>2, <1>3, <2>3, <2>5, <2>6
<1>4. CASE ~(n < Len(s))
  <2>1. u = <<>> BY <1>1, <1>4
  <2> HIDE DEF u
  <2> QED BY <1>2, <1>4, <2>1
<1> QED BY <1>3, <1>4

\* What two parts have left is what the first has, then what the second has behind it.
LEMMA BeyondConcat ==
    ASSUME NEW a \in Seq(Units), NEW b \in Seq(Units), NEW n \in Nat
    PROVE  Beyond(a \o b, n) = Beyond(a, n) \o Beyond(b, Past(n, Len(a)))
<1> DEFINE p == Past(n, Len(a))
           l == Beyond(a, n)
           u == Beyond(b, p)
           ab == a \o b
           w == Beyond(ab, n)
           lu == l \o u
<1>1. Len(a) \in Nat /\ Len(b) \in Nat BY LenProperties
<1>2. p \in Nat /\ (n > Len(a) => p = n - Len(a)) /\ (~(n > Len(a)) => p = 0) BY <1>1 DEF Past
<1>3. ab \in Seq(Units) /\ Len(ab) = Len(a) + Len(b) BY Joined
<1>4. \A i \in 1 .. Len(a) + Len(b) : ab[i] = IF i <= Len(a) THEN a[i] ELSE b[i - Len(a)] BY Joined
<1> HIDE DEF p, ab
<1>5. l \in Seq(Units) /\ Len(l) \in Nat /\ (n < Len(a) => Len(l) = Len(a) - n) /\ (~(n < Len(a)) => Len(l) = 0)
  BY BeyondIs
<1>6. \A i \in 1 .. Len(l) : l[i] = a[n + i] BY BeyondIs
<1>7. u \in Seq(Units) /\ Len(u) \in Nat /\ (p < Len(b) => Len(u) = Len(b) - p) /\ (~(p < Len(b)) => Len(u) = 0)
  BY <1>2, BeyondIs
<1>8. \A i \in 1 .. Len(u) : u[i] = b[p + i] BY <1>2, BeyondIs
<1>9. w \in Seq(Units) /\ Len(w) \in Nat /\ (n < Len(ab) => Len(w) = Len(ab) - n) /\ (~(n < Len(ab)) => Len(w) = 0)
  BY <1>3, BeyondIs
<1>10. \A i \in 1 .. Len(w) : w[i] = ab[n + i] BY <1>3, BeyondIs
<1> HIDE DEF l, u, w
<1>11. lu \in Seq(Units) /\ Len(lu) = Len(l) + Len(u) BY <1>5, <1>7, Joined
<1>12. \A i \in 1 .. Len(l) + Len(u) : lu[i] = IF i <= Len(l) THEN l[i] ELSE u[i - Len(l)]
  BY <1>5, <1>7, Joined
<1> HIDE DEF lu
<1>13. Len(w) = Len(l) + Len(u)
  <2>1. CASE n < Len(a)
    <3>1. p = 0 /\ Len(l) = Len(a) - n /\ Len(w) = Len(a) + Len(b) - n
      BY <1>1, <1>2, <1>3, <1>5, <1>9, <2>1
    <3>2. Len(u) = Len(b) BY <1>1, <1>7, <3>1
    <3> QED BY <1>1, <3>1, <3>2
  <2>2. CASE ~(n < Len(a))
    <3>1. p = n - Len(a) BY <1>1, <1>2, <2>2
    <3>2. Len(l) = 0 BY <1>5, <2>2
    <3>3. CASE n < Len(a) + Len(b)
      <4>1. Len(w) = Len(a) + Len(b) - n BY <1>3, <1>9, <3>3
      <4>2. Len(u) = Len(b) - p BY <1>1, <1>7, <3>1, <3>3
      <4> QED BY <1>1, <3>1, <3>2, <4>1, <4>2
    <3>4. CASE ~(n < Len(a) + Len(b))
      <4>1. Len(w) = 0 BY <1>3, <1>9, <3>4
      <4>2. Len(u) = 0 BY <1>1, <1>7, <3>1, <3>4
      <4> QED BY <3>2, <4>1, <4>2
    <3> QED BY <3>3, <3>4
  <2> QED BY <2>1, <2>2
<1>14. ASSUME NEW i \in 1 .. Len(w) PROVE w[i] = lu[i]
  <2>1. i \in 1 .. Len(l) + Len(u) BY <1>13
  <2>2. n + i \in 1 .. Len(a) + Len(b) BY <1>1, <1>3, <1>9
  <2>3. w[i] = ab[n + i] BY <1>10
  <2>4. CASE i <= Len(l)
    <3>1. n + i <= Len(a) /\ i \in 1 .. Len(l) BY <1>1, <1>5, <1>9, <2>4
    <3> QED BY <1>4, <1>6, <1>12, <2>1, <2>2, <2>3, <2>4, <3>1
  <2>5. CASE ~(i <= Len(l))
    <3>1. i - Len(l) \in 1 .. Len(u) BY <1>5, <1>7, <1>9, <1>13, <2>5
    <3>2. ~(n + i <= Len(a)) /\ n + i - Len(a) = p + (i - Len(l))
      <4>1. CASE n < Len(a)
        <5>1. p = 0 /\ Len(l) = Len(a) - n BY <1>1, <1>2, <1>5, <4>1
        <5> QED BY <1>1, <2>5, <5>1
      <4>2. CASE ~(n < Len(a))
        <5>1. p = n - Len(a) /\ Len(l) = 0 BY <1>1, <1>2, <1>5, <4>2
        <5> QED BY <1>1, <4>2, <5>1
      <4> QED BY <4>1, <4>2
    <3>3. w[i] = b[n + i - Len(a)] BY <1>4, <2>2, <2>3, <3>2
    <3>4. lu[i] = u[i - Len(l)] BY <1>12, <2>1, <2>5
    <3>5. u[i - Len(l)] = b[p + (i - Len(l))] BY <1>8, <3>1
    <3> QED BY <3>2, <3>3, <3>4, <3>5
  <2> QED BY <2>4, <2>5
<1>15. w = lu BY <1>9, <1>11, <1>13, <1>14, SeqEqual
<1> QED BY <1>15 DEF w, l, u, ab, p, lu

-----------------------------------------------------------------------------
(* Writing.                                                                *)

\* The record of an external message is not cut (README, section 6).
Uncut(r) == r.ext => RecDblks(r) <= 1

\* Which dblks a record has.
LEMMA PagesAre ==
    ASSUME NEW r \in AllRecords
    PROVE  /\ RecDblks(r) \in Nat \ {0} /\ RecSize(r) \in Nat \ {0}
           /\ \A k \in Int : RecDblks(r) <= k <=> RecSize(r) <= k * DblkSize
           /\ \A k \in Int : k * DblkSize \in Int
           /\ \A k, l \in Int : (k + l) * DblkSize = k * DblkSize + l * DblkSize
           /\ \A k \in Nat : k * DblkSize \in Nat
           /\ \A k \in Nat \ {0} : k * DblkSize >= DblkSize
<1>1. RecSize(r) \in Nat \ {0}
  <2>1. H(r) \in Nat /\ H(r) > 0 /\ B(r) \in Nat /\ T(r) \in Nat /\ RecSize(r) = H(r) + B(r) + T(r) BY Sizes
  <2> QED BY <2>1
<1>2. RecDblks(r) \in Int /\ \A k \in Int : RecDblks(r) <= k <=> RecSize(r) <= k * DblkSize
  BY <1>1, DblksLe DEF RecDblks
<1>3. DblkSize \in Nat /\ DblkSize > 0 BY RecordsAssumption
<1>4. \A k \in Int : k * DblkSize \in Int BY <1>3
<1>5. \A k, l \in Int : (k + l) * DblkSize = k * DblkSize + l * DblkSize BY <1>3
<1>6. \A k \in Nat : k * DblkSize \in Nat BY <1>3
<1>7. ASSUME NEW k \in Nat \ {0} PROVE k * DblkSize >= DblkSize
  <2>1. k - 1 \in Nat /\ (k - 1) * DblkSize \in Nat BY <1>6
  <2>2. (k - 1) * DblkSize = k * DblkSize - DblkSize BY <1>3
  <2> QED BY <1>3, <1>6, <2>1, <2>2
<1>8. RecDblks(r) > 0
  <2>1. 0 * DblkSize = 0 BY <1>3
  <2>2. RecDblks(r) <= 0 <=> RecSize(r) <= 0 BY <1>2, <2>1
  <2> QED BY <1>1, <1>2, <2>2
<1>9. RecDblks(r) \in Nat \ {0} BY <1>2, <1>8
<1>10. \A k \in Nat \ {0} : k * DblkSize >= DblkSize BY <1>7
<1> QED BY <1>1, <1>2, <1>4, <1>5, <1>6, <1>9, <1>10

\* What encode() writes from an offset is what the record has left there, the part of
\* each of its parts.
LEMMA RestIs ==
    ASSUME NEW r \in AllRecords, NEW m \in Nat, m >= H(r)
    PROVE  Beyond(Whole(r), m) =
               (Beyond(Xid(r), m - H(r)) \o Beyond(Data(r), Past(m - H(r), r.xid)))
               \o Beyond(Tail1(r), Past(Past(m - H(r), r.xid), DataSize(r)))
<1> DEFINE h == Part("hdr", H(r))
           x == Xid(r)
           d == Data(r)
           t == Tail1(r)
           from == m - H(r)
           hx == h \o x
           hxd == hx \o d
<1>1. h \in Seq(Units) /\ x \in Seq(Units) /\ d \in Seq(Units) /\ t \in Seq(Units) BY PartsAre
<1>2. H(r) \in Nat /\ r.xid \in Nat /\ DataSize(r) \in Nat /\ T(r) \in Nat BY Sizes
<1>3. Whole(r) = hxd \o t BY DEF Whole, H
<1>4. Len(h) = H(r) /\ Len(x) = r.xid /\ Len(d) = DataSize(r) BY PartsAre
<1> HIDE DEF h, x, d, t
<1>5. hx \in Seq(Units) /\ Len(hx) = H(r) + r.xid
  <2>1. hx \in Seq(Units) /\ Len(hx) = Len(h) + Len(x) BY <1>1, Joined
  <2> QED BY <1>4, <2>1
<1>6. Beyond(hx, m) = Beyond(h, m) \o Beyond(x, Past(m, H(r))) BY <1>1, <1>4, BeyondConcat
<1> HIDE DEF hx
<1>7. hxd \in Seq(Units) /\ Len(hxd) = H(r) + r.xid + DataSize(r) BY <1>1, <1>4, <1>5, Joined
<1>8. Beyond(hxd, m) = Beyond(hx, m) \o Beyond(d, Past(m, H(r) + r.xid)) BY <1>1, <1>5, BeyondConcat
<1> HIDE DEF hxd
<1>9. Beyond(Whole(r), m) = Beyond(hxd, m) \o Beyond(t, Past(m, H(r) + r.xid + DataSize(r)))
  BY <1>1, <1>3, <1>7, BeyondConcat
<1>10. from \in Nat /\ Past(m, H(r)) = from BY <1>2 DEF Past
<1>11. Past(m, H(r) + r.xid) = Past(from, r.xid) BY <1>2 DEF Past
<1>12. Past(m, H(r) + r.xid + DataSize(r)) = Past(Past(from, r.xid), DataSize(r))
  <2>1. CASE from > r.xid
    <3>1. Past(from, r.xid) = from - r.xid BY <2>1 DEF Past
    <3> QED BY <1>2, <2>1, <3>1 DEF Past
  <2>2. CASE ~(from > r.xid)
    <3>1. Past(from, r.xid) = 0 BY <2>2 DEF Past
    <3> QED BY <1>2, <1>10, <2>2, <3>1 DEF Past
  <2> QED BY <2>1, <2>2
<1>13. Beyond(h, m) \in Seq(Units) /\ Len(Beyond(h, m)) = 0 BY <1>1, <1>2, <1>4, BeyondIs
<1>14. Beyond(h, m) = <<>> BY <1>13, EmptySeq
<1>15. Beyond(x, from) \in Seq(Units) BY <1>1, <1>10, BeyondIs
<1>16. Beyond(hx, m) = Beyond(x, from) BY <1>6, <1>10, <1>14, <1>15, ConcatEmptySeq
<1> QED BY <1>8, <1>9, <1>11, <1>12, <1>16 DEF x, d, t

\* encode() of the three kinds of records, wherever it goes on: the part of the record
\* that fits into the page.
LEMMA EncodeIs ==
    ASSUME NEW r \in AllRecords, Uncut(r), NEW o \in Nat, o < RecDblks(r), NEW n \in Nat \ {0}
    PROVE  Encode(r, o, n) = UpTo(Beyond(Whole(r), o * DblkSize), n * DblkSize)
<1> DEFINE m == o * DblkSize
           rest == Beyond(Whole(r), m)
<1>1. m \in Nat BY PagesAre
<1>2. CASE o = 0
  <2>1. DblkSize \in Nat BY Sizes
  <2>2. m = 0 BY <1>2, <2>1
  <2>3. Whole(r) \in Seq(Units) /\ Len(Whole(r)) \in Nat /\ Len(Whole(r)) > 0
    <3>1. RecSize(r) \in Nat \ {0} BY PagesAre
    <3>2. Whole(r) \in Seq(Units) /\ Len(Whole(r)) = RecSize(r) BY WholeIs
    <3> QED BY <3>1, <3>2
  <2>4. Beyond(Whole(r), 0) \in Seq(Units) /\ Len(Beyond(Whole(r), 0)) = Len(Whole(r))
    BY <2>3, BeyondIs
  <2>5. \A i \in 1 .. Len(Beyond(Whole(r), 0)) : Beyond(Whole(r), 0)[i] = Whole(r)[0 + i] BY <2>3, BeyondIs
  <2>6. \A i \in 1 .. Len(Beyond(Whole(r), 0)) : Beyond(Whole(r), 0)[i] = Whole(r)[i] BY <2>3, <2>4, <2>5
  <2>7. Beyond(Whole(r), 0) = Whole(r) BY <2>3, <2>4, <2>6, SeqEqual
  <2>8. rest = Whole(r) BY <2>2, <2>7
  <2>9. r.kind \in {"enq", "deq", "txn"} BY Sizes
  <2> HIDE DEF rest
  <2>10. Encode(r, o, n) = UpTo(Whole(r), n * DblkSize)
    BY <1>2, <2>9 DEF Encode, EnqEncode, DeqEncode, TxnEncode
  <2> QED BY <2>8, <2>10 DEF rest
<1>3. CASE o > 0
  <2>1. ~r.ext /\ r.ext \in BOOLEAN
    <3>1. RecDblks(r) \in Nat BY PagesAre
    <3> QED BY <1>3, <3>1, Sizes DEF Uncut
  <2>2. m >= H(r)
    <3>1. m >= DblkSize /\ m \in Nat BY <1>3, PagesAre
    <3>2. DblkSize \in Nat /\ H(r) \in Nat /\ TailSize \in Nat /\ H(r) + TailSize <= DblkSize BY Sizes
    <3> QED BY <3>1, <3>2
  <2> DEFINE from == m - H(r)
             y == Past(from, r.xid)
  <2>3. from \in Nat /\ r.xid \in Nat /\ DataSize(r) \in Nat /\ H(r) \in Nat BY <1>1, <2>2, Sizes
  <2>4. y \in Nat BY <2>3 DEF Past
  <2>5. rest = (Beyond(Xid(r), from) \o Beyond(Data(r), y)) \o Beyond(Tail1(r), Past(y, DataSize(r)))
    BY <1>1, <2>2, RestIs
  <2>6. CASE r.kind = "enq"
    <3>1. DataSize(r) = r.data /\ H(r) = EnqHdrSize BY <2>1, <2>6 DEF DataSize, H, HdrSize
    <3>2. EnqEncode(r, o, n) = UpTo(rest, n * DblkSize)
      <4> HIDE DEF rest
      <4>1. EnqEncode(r, o, n) = UpTo((Beyond(Xid(r), from) \o Beyond(Data(r), y)) \o Beyond(Tail1(r), Past(y, r.data)),
                                      n * DblkSize)
        BY <1>3, <2>1, <3>1 DEF EnqEncode
      <4> QED BY <2>5, <3>1, <4>1
    <3> QED BY <2>6, <3>2 DEF Encode
  <2>7. CASE r.kind # "enq"
    <3>1. DataSize(r) = 0 /\ Past(y, DataSize(r)) = y
      <4>1. DataSize(r) = 0 BY <2>7, Sizes
      <4> QED BY <2>4, <4>1 DEF Past
    <3>2. Data(r) \in Seq(Units) /\ Len(Data(r)) = 0 BY <3>1, PartsAre
    <3>3. Beyond(Data(r), y) \in Seq(Units) /\ Len(Beyond(Data(r), y)) = 0
      <4>1. ~(y < Len(Data(r))) BY <2>4, <3>2
      <4> QED BY <2>4, <3>2, <4>1, BeyondIs
    <3>4. Beyond(Data(r), y) = <<>> BY <3>3, EmptySeq
    <3>5. Xid(r) \in Seq(Units) BY PartsAre
    <3>6. Beyond(Xid(r), from) \in Seq(Units) BY <2>3, <3>5, BeyondIs
    <3>7. Beyond(Xid(r), from) \o Beyond(Data(r), y) = Beyond(Xid(r), from) BY <3>4, <3>6, ConcatEmptySeq
    <3>8. rest = Beyond(Xid(r), from) \o Beyond(Tail1(r), y) BY <2>5, <3>1, <3>7
    <3>9. CASE r.kind = "deq"
      <4>1. H(r) = DeqHdrSize BY <3>9 DEF H, HdrSize
      <4>2. DeqEncode(r, o, n) = UpTo(Beyond(Xid(r), from) \o Beyond(Tail1(r), y), n * DblkSize)
        BY <1>3, <4>1 DEF DeqEncode
      <4> QED BY <3>8, <3>9, <4>2 DEF Encode
    <3>10. CASE r.kind = "txn"
      <4>1. H(r) = TxnHdrSize BY <3>10 DEF H, HdrSize
      <4>2. TxnEncode(r, o, n) = UpTo(Beyond(Xid(r), from) \o Beyond(Tail1(r), y), n * DblkSize)
        BY <1>3, <4>1 DEF TxnEncode
      <4> QED BY <3>8, <3>10, <4>2 DEF Encode
    <3> QED BY <2>7, <3>9, <3>10, Sizes
  <2> QED BY <2>6, <2>7
<1> QED BY <1>2, <1>3

\* A call writes the record's units from its offset to the end of page or record.
LEMMA ChunkIs ==
    ASSUME NEW r \in AllRecords, Uncut(r), NEW o \in Nat, o < RecDblks(r), NEW n \in Nat \ {0},
           NEW c, c = Encode(r, o, n)
    PROVE  /\ c \in Seq(Units) /\ Len(c) \in Nat
           /\ RecSize(r) <= (o + n) * DblkSize => Len(c) = RecSize(r) - o * DblkSize
           /\ ~(RecSize(r) <= (o + n) * DblkSize) => Len(c) = n * DblkSize
           /\ \A i \in 1 .. Len(c) : c[i] = Whole(r)[o * DblkSize + i]
<1> DEFINE m == o * DblkSize
           e == n * DblkSize
           rest == Beyond(Whole(r), m)
           k == IF e < Len(rest) THEN e ELSE Len(rest)
<1>1. c = SubSeq(rest, 1, k) BY EncodeIs DEF UpTo
<1>2. m \in Nat /\ e \in Nat /\ (o + n) * DblkSize = m + e BY PagesAre
<1>3. RecSize(r) \in Nat /\ RecSize(r) > m
  <2>1. ~(RecDblks(r) <= o) /\ RecSize(r) \in Nat BY PagesAre
  <2> QED BY <1>2, <2>1, PagesAre
<1>4. Whole(r) \in Seq(Units) /\ Len(Whole(r)) = RecSize(r) BY WholeIs
<1>5. rest \in Seq(Units) /\ Len(rest) \in Nat /\ Len(rest) = RecSize(r) - m BY <1>2, <1>3, <1>4, BeyondIs
<1>6. \A i \in 1 .. Len(rest) : rest[i] = Whole(r)[m + i] BY <1>2, <1>4, BeyondIs
<1> HIDE DEF m, e, rest
<1>7. k \in Nat /\ k <= Len(rest) BY <1>2, <1>5
<1>8. RecSize(r) <= m + e => k = RecSize(r) - m BY <1>2, <1>3, <1>5
<1>9. ~(RecSize(r) <= m + e) => k = e BY <1>2, <1>3, <1>5
<1> HIDE DEF k
<1>10. c = [i \in 1 .. k |-> rest[i]] /\ \A i \in 1 .. k : rest[i] \in Units
  <2>1. \A i \in 1 .. k : 1 + i - 1 = i BY <1>7
  <2>2. rest \in [1 .. Len(rest) -> Units] BY <1>5, LenProperties
  <2> QED BY <1>1, <1>5, <1>7, <2>1, <2>2
<1>11. c \in Seq(Units) /\ Len(c) = k
  <2>1. c \in [1 .. k -> Units] BY <1>10
  <2> QED BY <1>7, <2>1
<1>12. \A i \in 1 .. Len(c) : c[i] = Whole(r)[m + i] BY <1>5, <1>6, <1>7, <1>10, <1>11
<1> QED BY <1>2, <1>7, <1>8, <1>9, <1>11, <1>12 DEF m, e

-----------------------------------------------------------------------------
(* The inductive invariant.                                                *)

\* What is asked of a record: a reader wants xid and data, recovery the xid.
Kept(r, w) == IF w = "read" THEN Body(r) ELSE Xid(r)

\* The first k units of a record are on disk.
OnDisk(k) == \A i \in 1 .. RecSize(rec) : i <= k => disk[i] = Whole(rec)[i]

\* They are in the reader's buffer and tail.
Holds(m, r, w, k) ==
    /\ \A i \in 1 .. Len(Kept(r, w)) : H(r) + i <= k => m.buf[i] = Kept(r, w)[i]
    /\ \A i \in 1 .. T(r) : H(r) + B(r) + i <= k => m.tail[i] = Tail1(r)[i]
InMem(k) == Holds(mem, rec, how, k)

TypeInv ==
    /\ rec \in AllRecords
    /\ phase \in {"write", "written", "read", "recover", "done"}
    /\ room \in [left : Nat \ {0}, page : Nat \ {0}]
    /\ pos \in Nat
    /\ disk \in [1 .. RecDblks(rec) * DblkSize -> Units]

WriteInv ==
    /\ phase = "write" => pos < RecDblks(rec) /\ OnDisk(pos * DblkSize)
    /\ phase # "write" => OnDisk(RecSize(rec))

ReadInv ==
    /\ phase \in {"read", "recover"} =>
          /\ how = phase /\ pos < RecDblks(rec) /\ InMem(pos * DblkSize)
          /\ mem \in [buf : [1 .. Len(Kept(rec, how)) -> Units], tail : [1 .. T(rec) -> Units]]
    /\ phase = "done" => how \in {"read", "recover"} /\ mem.buf = Kept(rec, how)

EndInv ==
    /\ fault = "none"
    /\ phase \in {"written", "done"} => pos = RecDblks(rec)

RecInv == Uncut(rec) => TypeInv /\ WriteInv /\ ReadInv /\ EndInv

\* memcpy() changes what it is to copy and nothing else.
Copied(c, k, m, at, page, from, n) ==
    /\ c \in [1 .. k -> Units]
    /\ \A i \in 1 .. k : at < i /\ i <= at + n /\ from + i - at <= Len(page) => c[i] = page[from + i - at]
    /\ \A i \in 1 .. k : ~(at < i /\ i <= at + n) => c[i] = m[i]

\* memcpy() from a page.
LEMMA CopyIs ==
    ASSUME NEW k \in Nat, NEW m \in [1 .. k -> Units], NEW page \in Seq(Units),
           NEW at \in Nat, NEW from \in Nat, NEW n \in Nat
    PROVE  Copied(Copy(m, at, page, from, n), k, m, at, page, from, n)
<1>1. page \in [1 .. Len(page) -> Units] /\ Len(page) \in Nat BY LenProperties
<1> DEFINE c == Copy(m, at, page, from, n)
<1>2. c = [i \in 1 .. k |-> IF at < i /\ i <= at + n /\ from + i - at <= Len(page)
                           THEN page[from + i - at] ELSE m[i]]
  BY DEF Copy
<1>3. \A i \in 1 .. k : at < i /\ from + i - at <= Len(page) => page[from + i - at] \in Units
  BY <1>1
<1> HIDE DEF c
<1>4. c \in [1 .. k -> Units] BY <1>2, <1>3
<1>5. Copied(c, k, m, at, page, from, n) BY <1>2, <1>4 DEF Copied
<1> QED BY <1>5 DEF c

\* The dblk a call ends on.
LEMMA NextDblk ==
    ASSUME NEW r \in AllRecords, NEW o \in Nat, o < RecDblks(r), NEW n \in Nat \ {0}
    PROVE  /\ RecSize(r) <= (o + n) * DblkSize =>
                  o + Dblks(RecSize(r) - o * DblkSize) = RecDblks(r)
           /\ ~(RecSize(r) <= (o + n) * DblkSize) =>
                  o + Dblks(n * DblkSize) = o + n /\ o + n < RecDblks(r)
<1>1. RecSize(r) \in Int /\ RecDblks(r) \in Int BY PagesAre
<1>2. Dblks(RecSize(r) - o * DblkSize) = RecDblks(r) - o BY <1>1, DblksLess DEF RecDblks
<1>3. Dblks(n * DblkSize) = n BY DblksLess
<1>4. RecDblks(r) <= o + n <=> RecSize(r) <= (o + n) * DblkSize BY PagesAre
<1> QED BY <1>1, <1>2, <1>3, <1>4

\* encode() and the copy to the page cache.
LEMMA WriteStep ==
    ASSUME Uncut(rec), TypeInv, WriteInv, EndInv, Write
    PROVE  (TypeInv /\ WriteInv /\ ReadInv /\ EndInv)'
<1> DEFINE m == pos * DblkSize
           n == room.left
           S == RecSize(rec)
           N == RecDblks(rec)
           c == Encode(rec, pos, n)
<1>1. /\ phase = "write" /\ rec' = rec /\ mem' = mem /\ how' = how
      /\ fault' = (IF Fits(disk, m, c, 0, Len(c)) THEN "none" ELSE "overrun")
      /\ disk' = Copy(disk, m, c, 0, Len(c)) /\ pos' = pos + Dblks(Len(c))
      /\ phase' = (IF pos' >= N THEN "written" ELSE "write")
      /\ room' = [room EXCEPT !.left = room.page]
  BY DEF Write, NextPage
<1>2. rec \in AllRecords /\ pos \in Nat /\ n \in Nat \ {0} /\ disk \in [1 .. N * DblkSize -> Units]
  BY DEF TypeInv
<1>3. pos < N /\ OnDisk(m) BY <1>1 DEF WriteInv
<1>4. /\ c \in Seq(Units) /\ Len(c) \in Nat
      /\ S <= (pos + n) * DblkSize => Len(c) = S - m
      /\ ~(S <= (pos + n) * DblkSize) => Len(c) = n * DblkSize
  BY <1>2, <1>3, ChunkIs
<1>5. \A i \in 1 .. Len(c) : c[i] = Whole(rec)[m + i] BY <1>2, <1>3, ChunkIs
<1>6. /\ N \in Nat /\ S \in Nat /\ m \in Nat /\ n * DblkSize \in Nat /\ N * DblkSize \in Nat
      /\ (pos + n) * DblkSize = m + n * DblkSize /\ S <= N * DblkSize
  <2>1. N \in Nat \ {0} /\ S \in Nat \ {0} BY <1>2, PagesAre
  <2>2. N \in Int /\ N <= N BY <2>1
  <2>3. S <= N * DblkSize BY <1>2, <2>2, PagesAre
  <2>4. (pos + n) * DblkSize = m + n * DblkSize
    <3>1. pos \in Int /\ n \in Int BY <1>2
    <3> QED BY <1>2, <3>1, PagesAre
  <2>5. m \in Nat /\ n * DblkSize \in Nat /\ N * DblkSize \in Nat BY <1>2, <2>1, PagesAre
  <2> QED BY <2>1, <2>3, <2>4, <2>5
<1>7. m + Len(c) <= N * DblkSize
  <2>1. CASE S <= (pos + n) * DblkSize BY <1>4, <1>6, <2>1
  <2>2. CASE ~(S <= (pos + n) * DblkSize) BY <1>4, <1>6, <2>2
  <2> QED BY <2>1, <2>2
<1>8. Fits(disk, m, c, 0, Len(c))
  <2>1. Len(disk) = N * DblkSize BY <1>2, <1>6
  <2> QED BY <1>4, <1>7, <2>1 DEF Fits
<1> DEFINE K == N * DblkSize
           L == Len(c)
<1>9. /\ disk' \in [1 .. K -> Units]
      /\ \A i \in 1 .. K : m < i /\ i <= m + L /\ 0 + i - m <= Len(c) => disk'[i] = c[0 + i - m]
      /\ \A i \in 1 .. K : ~(m < i /\ i <= m + L) => disk'[i] = disk[i]
  <2> DEFINE z == 0
             cp == Copy(disk, m, c, z, L)
  <2>1. K \in Nat /\ disk \in [1 .. K -> Units] /\ c \in Seq(Units) /\ m \in Nat /\ z \in Nat /\ L \in Nat
    BY <1>2, <1>4, <1>6
  <2>2. disk' = cp BY <1>1
  <2> HIDE DEF K, L, m, c, z
  <2>3. Copied(cp, K, disk, m, c, z, L) BY <2>1, CopyIs
  <2> QED BY <2>2, <2>3 DEF Copied, z
<1>10. ASSUME NEW i \in 1 .. S, i <= m + Len(c) PROVE disk'[i] = Whole(rec)[i]
  <2>1. i \in 1 .. N * DblkSize BY <1>6
  <2>2. CASE i <= m
    <3>1. disk'[i] = disk[i]
      <4>1. ~(m < i /\ i <= m + L) BY <1>6, <2>2
      <4> QED BY <1>9, <2>1, <4>1
    <3> QED BY <1>3, <2>2, <3>1 DEF OnDisk
  <2>3. CASE ~(i <= m)
    <3>1. m < i /\ i <= m + Len(c) /\ 0 + i - m <= Len(c) /\ 0 + i - m = i - m /\ i - m \in 1 .. Len(c) /\ m + (i - m) = i
      BY <1>4, <1>6, <1>10, <2>3
    <3>2. disk'[i] = c[0 + i - m] BY <1>9, <2>1, <3>1
    <3> QED BY <1>5, <3>1, <3>2
  <2> QED BY <2>2, <2>3
<1>11. room' \in [left : Nat \ {0}, page : Nat \ {0}] BY <1>1 DEF TypeInv
<1>12. CASE S <= (pos + n) * DblkSize
  <2>1. pos' = N
    <3>1. Len(c) = S - m BY <1>4, <1>12
    <3>2. pos + Dblks(S - m) = N BY <1>2, <1>3, <1>12, NextDblk
    <3> QED BY <1>1, <3>1, <3>2
  <2>2. phase' = "written" BY <1>1, <1>6, <2>1
  <2>3. \A i \in 1 .. S : disk'[i] = Whole(rec)[i] BY <1>4, <1>6, <1>10, <1>12
  <2>4. TypeInv' BY <1>1, <1>2, <1>6, <1>9, <1>11, <2>1, <2>2 DEF TypeInv
  <2>5. WriteInv' BY <1>1, <2>2, <2>3 DEF WriteInv, OnDisk
  <2>6. ReadInv' BY <2>2 DEF ReadInv
  <2>7. EndInv' BY <1>1, <1>8, <2>1 DEF EndInv
  <2> QED BY <2>4, <2>5, <2>6, <2>7
<1>13. CASE ~(S <= (pos + n) * DblkSize)
  <2>1. Len(c) = n * DblkSize BY <1>4, <1>13
  <2>2. pos' = pos + n /\ pos + n < N
    <3>1. pos + Dblks(n * DblkSize) = pos + n /\ pos + n < N BY <1>2, <1>3, <1>13, NextDblk
    <3> QED BY <1>1, <2>1, <3>1
  <2>3. phase' = "write" /\ pos' \in Nat /\ pos' < N BY <1>1, <1>2, <1>6, <2>2
  <2>4. pos' * DblkSize = m + Len(c) BY <1>6, <2>1, <2>2
  <2>5. \A i \in 1 .. S : i <= pos' * DblkSize => disk'[i] = Whole(rec)[i] BY <1>10, <2>4
  <2>6. TypeInv' BY <1>1, <1>2, <1>9, <1>11, <2>3 DEF TypeInv
  <2>7. WriteInv' BY <1>1, <2>3, <2>5 DEF WriteInv, OnDisk
  <2>8. ReadInv' BY <2>3 DEF ReadInv
  <2>9. EndInv' BY <1>1, <1>8, <2>3 DEF EndInv
  <2> QED BY <2>6, <2>7, <2>8, <2>9
<1> QED BY <1>12, <1>13

-----------------------------------------------------------------------------
(* What decode() takes from a page.                                        *)

\* The units of the record that the buffer is given lie behind those it has, then come
\* those of the tail, up to the end of the page or of the record.
Start(r, o) == o * DblkSize + IF o = 0 THEN H(r) ELSE 0
Takes(s, e, s0, h, b, at, body, tailAt, tail, chk) ==
    /\ s <= e => s0 + body + tail = s
    /\ ~(s <= e) => s0 + body + tail = e
    /\ body > 0 => at = s0 - h /\ s0 + body <= h + b
    /\ body = 0 => s0 >= h + b
    /\ tail > 0 => tailAt = s0 + body - h - b
    /\ tail = 0 => tailAt = 0
    /\ chk => s <= e
Planned(r, o, n, p) ==
    /\ p.body \in Nat /\ p.tail \in Nat /\ p.at \in Nat /\ p.tailAt \in Nat
    /\ Takes(RecSize(r), (o + n) * DblkSize, Start(r, o), H(r), B(r), p.at, p.body, p.tailAt, p.tail, p.chk)

\* A plan with such numbers.
LEMMA PlannedBy ==
    ASSUME NEW r, NEW o, NEW n, NEW at \in Nat, NEW body \in Nat, NEW tailAt \in Nat, NEW tail \in Nat,
           NEW chk, NEW s, s = RecSize(r), NEW e, e = (o + n) * DblkSize,
           NEW s0, s0 = Start(r, o), NEW h, h = H(r), NEW b, b = B(r),
           Takes(s, e, s0, h, b, at, body, tailAt, tail, chk)
    PROVE  Planned(r, o, n, Plan(at, body, tailAt, tail, chk))
<1> DEFINE p == Plan(at, body, tailAt, tail, chk)
<1>1. p.at = at /\ p.body = body /\ p.tailAt = tailAt /\ p.tail = tail /\ p.chk = chk BY DEF Plan
<1> HIDE DEF p
<1>2. Takes(s, e, s0, h, b, p.at, p.body, p.tailAt, p.tail, p.chk) BY <1>1
<1>3. Takes(RecSize(r), (o + n) * DblkSize, Start(r, o), H(r), B(r), p.at, p.body, p.tailAt, p.tail, p.chk)
  BY <1>2
<1>4. p.body \in Nat /\ p.tail \in Nat /\ p.at \in Nat /\ p.tailAt \in Nat BY <1>1
<1>5. Planned(r, o, n, p) BY <1>3, <1>4 DEF Planned
<1> QED BY <1>5 DEF p

\* The three places the page can end at, for a first page.
LEMMA FirstIs ==
    ASSUME NEW r \in AllRecords, B(r) > 0, NEW n \in Nat \ {0}
    PROVE  Planned(r, 0, n, FirstPlan(H(r), B(r), n))
<1> DEFINE e == n * DblkSize
           p == FirstPlan(H(r), B(r), n)
<1>1. H(r) \in Nat /\ H(r) > 0 /\ B(r) \in Nat /\ TailSize \in Nat /\ TailSize > 0 /\ DblkSize \in Nat
  BY Sizes
<1>2. T(r) = TailSize /\ H(r) + TailSize <= DblkSize /\ RecSize(r) = H(r) + B(r) + T(r) BY Sizes
<1>3. e \in Nat /\ e >= DblkSize BY PagesAre
<1>4. Dblks(H(r) + B(r) + TailSize) <= n <=> H(r) + B(r) + TailSize <= e BY <1>1, DblksLe
<1>5. Dblks(H(r) + B(r)) <= n <=> H(r) + B(r) <= e BY <1>1, DblksLe
<1>6. (0 + n) * DblkSize = e BY <1>1
<1>7. Start(r, 0) = H(r) BY <1>1 DEF Start
<1>8. RecSize(r) = H(r) + B(r) + TailSize BY <1>2
<1> HIDE DEF e
<1> DEFINE s == RecSize(r)
           h == H(r)
           b == B(r)
           t == TailSize
<1>9. CASE h + b + t <= e
  <2>1. p = Plan(0, b, 0, t, TRUE) BY <1>4, <1>9 DEF FirstPlan
  <2>2. h \in Nat /\ b \in Nat /\ t \in Nat /\ b > 0 /\ t > 0 /\ s = h + b + t BY <1>1, <1>8
  <2> HIDE DEF p, s, h, b, t
  <2>3. Takes(s, e, h, h, b, 0, b, 0, t, TRUE)
    BY <2>2, <1>9 DEF Takes
  <2>4. Planned(r, 0, n, Plan(0, b, 0, t, TRUE)) BY <1>6, <1>7, <2>2, <2>3, PlannedBy DEF s, h, b
  <2> QED BY <2>1, <2>4 DEF p
<1>10. CASE ~(h + b + t <= e) /\ h + b <= e
  <2> DEFINE l == e - h - b
  <2>1. p = Plan(0, b, 0, l, FALSE) BY <1>4, <1>5, <1>10 DEF FirstPlan, e
  <2>2. h \in Nat /\ b \in Nat /\ t \in Nat /\ b > 0 /\ s = h + b + t BY <1>1, <1>8
  <2>3. l \in Nat /\ h + b + l = e BY <1>3, <1>10, <2>2
  <2> HIDE DEF p, s, h, b, t, l
  <2>4. Takes(s, e, h, h, b, 0, b, 0, l, FALSE)
    BY <2>2, <2>3, <1>10 DEF Takes
  <2>5. Planned(r, 0, n, Plan(0, b, 0, l, FALSE)) BY <1>6, <1>7, <2>2, <2>3, <2>4, PlannedBy DEF s, h, b
  <2> QED BY <2>1, <2>5 DEF p
<1>11. CASE ~(h + b <= e)
  <2> DEFINE l == e - h
  <2>1. p = Plan(0, l, 0, 0, FALSE)
    <3>1. ~(h + b + t <= e) BY <1>1, <1>3, <1>11
    <3> QED BY <1>4, <1>5, <1>11, <3>1 DEF FirstPlan, e
  <2>2. h \in Nat /\ b \in Nat /\ t \in Nat /\ t > 0 /\ s = h + b + t /\ h + t <= DblkSize /\ DblkSize \in Nat
    BY <1>1, <1>2, <1>8
  <2>3. l \in Nat /\ h + l = e /\ l > 0 BY <1>3, <2>2
  <2> HIDE DEF p, s, h, b, t, l
  <2>4. Takes(s, e, h, h, b, 0, l, 0, 0, FALSE)
    BY <1>3, <2>2, <2>3, <1>11 DEF Takes
  <2>5. Planned(r, 0, n, Plan(0, l, 0, 0, FALSE)) BY <1>6, <1>7, <2>2, <2>3, <2>4, PlannedBy DEF s, h, b
  <2> QED BY <2>1, <2>5 DEF p
<1> QED BY <1>9, <1>10, <1>11

\* A later page that the body ends in and the tail does not has something of the body: a
\* tail that begins on the page before ends on this one.
LEMMA BodyLeft ==
    ASSUME NEW r \in AllRecords, B(r) > 0, NEW o \in Nat, NEW n \in Nat \ {0}, o < RecDblks(r),
           ~(RecDblks(r) - o <= n)
    PROVE  B(r) - (o * DblkSize - H(r)) > 0
<1>1. H(r) \in Nat /\ B(r) \in Nat /\ TailSize \in Nat /\ DblkSize \in Nat BY Sizes
<1>2. T(r) = TailSize /\ H(r) + TailSize <= DblkSize /\ RecSize(r) = H(r) + B(r) + T(r) BY Sizes
<1>3. n * DblkSize \in Nat /\ n * DblkSize >= DblkSize /\ o * DblkSize \in Nat BY PagesAre
<1>4. (o + n) * DblkSize = o * DblkSize + n * DblkSize BY <1>1
<1>5. RecDblks(r) \in Int BY PagesAre
<1>6. ~(RecDblks(r) <= o + n) BY <1>5
<1>7. ~(RecSize(r) <= (o + n) * DblkSize) BY <1>6, PagesAre
<1> QED BY <1>1, <1>2, <1>3, <1>4, <1>7

\* The same for a later page.
LEMMA NextIs ==
    ASSUME NEW r \in AllRecords, B(r) > 0, NEW o \in Nat \ {0}, NEW n \in Nat \ {0}, o < RecDblks(r)
    PROVE  Planned(r, o, n, NextPlan(H(r), B(r), o, n))
<1> DEFINE m == o * DblkSize
           e == n * DblkSize
           from == m - H(r)
           left == B(r) - from
           p == NextPlan(H(r), B(r), o, n)
<1>1. /\ H(r) \in Nat /\ H(r) > 0 /\ B(r) \in Nat /\ TailSize \in Nat /\ TailSize > 0 /\ DblkSize \in Nat
  BY Sizes
<1>2. T(r) = TailSize /\ H(r) + TailSize <= DblkSize /\ RecSize(r) = H(r) + B(r) + T(r) BY Sizes
<1>3. e \in Nat /\ e >= DblkSize /\ m \in Nat /\ m >= DblkSize BY PagesAre
<1>4. (o + n) * DblkSize = m + e BY <1>1
<1>5. RecSize(r) = H(r) + B(r) + TailSize BY <1>2
<1>6. RecDblks(r) \in Int /\ RecDblks(r) = Dblks(H(r) + B(r) + TailSize) BY <1>5, PagesAre DEF RecDblks
<1>7. Dblks(H(r) + B(r) + TailSize) - o <= n <=> RecSize(r) <= m + e
  <2>1. RecDblks(r) <= o + n <=> RecSize(r) <= (o + n) * DblkSize BY PagesAre
  <2>2. RecDblks(r) - o <= n <=> RecDblks(r) <= o + n BY <1>6
  <2> QED BY <1>4, <1>6, <2>1, <2>2
<1>8. Dblks(H(r) + B(r)) - o <= n <=> H(r) + B(r) <= m + e
  <2>1. H(r) + B(r) \in Int /\ o + n \in Int BY <1>1
  <2>2. Dblks(H(r) + B(r)) \in Int /\ (Dblks(H(r) + B(r)) <= o + n <=> H(r) + B(r) <= (o + n) * DblkSize)
    BY <2>1, DblksLe
  <2> QED BY <1>4, <2>2
<1>9. m < RecSize(r)
  <2>1. ~(RecDblks(r) <= o) BY <1>6
  <2>2. ~(RecSize(r) <= m) BY <2>1, PagesAre
  <2> QED BY <1>1, <1>3, <1>5, <2>2
<1>10. Start(r, o) = m BY <1>3 DEF Start
<1>11. from \in Nat BY <1>1, <1>2, <1>3
<1>12. left \in Int /\ m + left = H(r) + B(r) /\ m = from + H(r) BY <1>1, <1>3
<1>13. ~(RecSize(r) <= m + e) => left > 0 BY <1>6, <1>7, BodyLeft
<1> DEFINE s == RecSize(r)
           h == H(r)
           b == B(r)
           t == TailSize
           x == m + e
<1>14. /\ h \in Nat /\ b \in Nat /\ t \in Nat /\ t > 0 /\ s = h + b + t /\ h + t <= DblkSize /\ DblkSize \in Nat
       /\ x \in Nat /\ x = m + e /\ s = RecSize(r) /\ x = (o + n) * DblkSize /\ m = Start(r, o)
       /\ h = H(r) /\ b = B(r)
  BY <1>1, <1>2, <1>3, <1>4, <1>5, <1>10
<1>15. CASE s <= x /\ left > 0
  <2>1. p = Plan(from, left, 0, t, TRUE) BY <1>7, <1>15 DEF NextPlan
  <2>2. left \in Nat BY <1>12, <1>15
  <2>3. m + left = h + b /\ m = from + h BY <1>12
  <2> HIDE DEF p, s, h, b, t, x, m, e, from, left
  <2>4. Takes(s, x, m, h, b, from, left, 0, t, TRUE)
    BY <1>3, <1>11, <1>14, <1>15, <2>2, <2>3 DEF Takes
  <2>5. Planned(r, o, n, Plan(from, left, 0, t, TRUE)) BY <1>11, <1>14, <2>2, <2>4, PlannedBy
  <2> QED BY <2>1, <2>5 DEF p
<1>16. CASE s <= x /\ ~(left > 0)
  <2> DEFINE f == -left
             k == t + left
  <2>1. p = Plan(from, 0, f, k, TRUE) BY <1>7, <1>16 DEF NextPlan
  <2>2. m + left = h + b /\ m = from + h /\ left \in Int /\ m < s BY <1>9, <1>12
  <2> HIDE DEF p, s, h, b, t, x, m, e, from, left
  <2>3. k \in Nat /\ k > 0 /\ f \in Nat BY <1>3, <1>14, <1>16, <2>2
  <2>4. Takes(s, x, m, h, b, from, 0, f, k, TRUE)
    BY <1>3, <1>14, <1>16, <2>2, <2>3 DEF Takes
  <2> HIDE DEF f, k
  <2>5. Planned(r, o, n, Plan(from, 0, f, k, TRUE)) BY <1>11, <1>14, <2>3, <2>4, PlannedBy
  <2> QED BY <2>1, <2>5 DEF p
<1>17. CASE ~(s <= x) /\ h + b <= x
  <2> DEFINE k == e - left
  <2>1. p = Plan(from, left, 0, k, FALSE) BY <1>7, <1>8, <1>17 DEF NextPlan
  <2>2. m + left = h + b /\ m = from + h /\ left \in Nat /\ left > 0 BY <1>12, <1>13, <1>17
  <2> HIDE DEF p, s, h, b, t, x, m, e, from, left
  <2>3. k \in Nat BY <1>3, <1>14, <1>17, <2>2
  <2>4. Takes(s, x, m, h, b, from, left, 0, k, FALSE)
    BY <1>3, <1>11, <1>14, <1>17, <2>2, <2>3 DEF Takes
  <2> HIDE DEF k
  <2>5. Planned(r, o, n, Plan(from, left, 0, k, FALSE)) BY <1>11, <1>14, <2>2, <2>3, <2>4, PlannedBy
  <2> QED BY <2>1, <2>5 DEF p
<1>18. CASE ~(h + b <= x)
  <2>1. ~(s <= x) BY <1>14, <1>18
  <2>2. p = Plan(from, e, 0, 0, FALSE) BY <1>7, <1>8, <1>18, <2>1 DEF NextPlan
  <2>3. e \in Nat /\ e > 0 /\ m = from + h BY <1>3, <1>12, <1>14
  <2> HIDE DEF p, s, h, b, t, x, m, e, from, left
  <2>4. Takes(s, x, m, h, b, from, e, 0, 0, FALSE)
    BY <1>3, <1>11, <1>14, <1>18, <2>1, <2>3 DEF Takes
  <2>5. Planned(r, o, n, Plan(from, e, 0, 0, FALSE)) BY <1>11, <1>14, <2>3, <2>4, PlannedBy
  <2> QED BY <2>2, <2>5 DEF p
<1> QED BY <1>15, <1>16, <1>17, <1>18

\* decode() of the three kinds of records.
LEMMA PlanIs ==
    ASSUME NEW r \in AllRecords, Uncut(r), NEW o \in Nat, NEW n \in Nat \ {0}, o < RecDblks(r), B(r) > 0
    PROVE  Planned(r, o, n, DecodePlan(r, o, n))
<1>1. /\ r.xid \in Nat /\ DataSize(r) \in Nat /\ B(r) = r.xid + DataSize(r)
      /\ H(r) \in Nat /\ RecDblks(r) \in Int
  BY Sizes, PagesAre DEF B
<1>2. CASE r.kind = "enq"
  <2>1. H(r) = EnqHdrSize BY <1>2 DEF H, HdrSize
  <2>2. CASE o = 0
    <3>1. EnqPlan(r, o, n) = FirstPlan(H(r), B(r), n)
      <4>1. ~(o > 0) /\ r.xid + DataSize(r) # 0 BY <1>1, <2>2
      <4> QED BY <1>1, <2>1, <4>1 DEF EnqPlan
    <3>2. DecodePlan(r, o, n) = FirstPlan(H(r), B(r), n) BY <1>2, <3>1 DEF DecodePlan
    <3> QED BY <2>2, <3>2, FirstIs
  <2>3. CASE o > 0
    <3>1. ~r.ext /\ r.ext \in BOOLEAN BY <1>1, <2>3, Sizes DEF Uncut
    <3>2. r.data \in Nat /\ DataSize(r) = r.data BY <3>1, Sizes DEF DataSize
    <3> DEFINE from == o * DblkSize - H(r)
               left == B(r) - from
               inBody == from < r.xid \/ (~r.ext /\ left > 0)
               body == IF inBody THEN left ELSE 0
    <3>3. from \in Int
      <4>1. o * DblkSize \in Nat BY PagesAre
      <4> QED BY <1>1, <4>1
    <3>4. inBody <=> left > 0 BY <1>1, <3>1, <3>3
    <3>5. Dblks(EnqHdrSize + r.xid + DataSize(r)) = Dblks(H(r) + B(r))
      <4>1. EnqHdrSize + r.xid + DataSize(r) = H(r) + B(r) BY <1>1, <2>1
      <4> QED BY <4>1
    <3>6. RecDblks(r) = Dblks(H(r) + B(r) + TailSize)
      <4>1. RecSize(r) = H(r) + B(r) + T(r) /\ T(r) = TailSize BY Sizes
      <4> QED BY <4>1 DEF RecDblks
    <3>7. r.xid + r.data - from = left BY <1>1, <3>2, <3>3
    <3>8. ~(RecDblks(r) - o <= n) => left > 0 BY BodyLeft
    <3> DEFINE q == EnqNextPlan(r, o, n)
    <3>9. q = IF RecDblks(r) - o <= n
              THEN IF inBody THEN Plan(from, left, 0, TailSize, TRUE)
                             ELSE Plan(from, 0, -left, TailSize + left, TRUE)
              ELSE IF Dblks(H(r) + B(r)) - o <= n
                   THEN Plan(from, body, 0, n * DblkSize - body, FALSE)
                   ELSE Plan(from, n * DblkSize, 0, 0, FALSE)
      BY <2>1, <3>5, <3>7 DEF EnqNextPlan
    <3>10. NextPlan(H(r), B(r), o, n) =
              IF RecDblks(r) - o <= n
              THEN IF left > 0 THEN Plan(from, left, 0, TailSize, TRUE)
                               ELSE Plan(from, 0, -left, TailSize + left, TRUE)
              ELSE IF Dblks(H(r) + B(r)) - o <= n
                   THEN Plan(from, left, 0, n * DblkSize - left, FALSE)
                   ELSE Plan(from, n * DblkSize, 0, 0, FALSE)
      BY <3>6 DEF NextPlan
    <3>11. q = NextPlan(H(r), B(r), o, n)
      <4> HIDE DEF q, from, left, inBody
      <4>1. CASE RecDblks(r) - o <= n BY <3>4, <3>9, <3>10, <4>1
      <4>2. CASE ~(RecDblks(r) - o <= n)
        <5>1. body = left BY <3>4, <3>8, <4>2
        <5> QED BY <3>9, <3>10, <4>2, <5>1
      <4> QED BY <4>1, <4>2
    <3>12. DecodePlan(r, o, n) = NextPlan(H(r), B(r), o, n) BY <1>2, <2>3, <3>11 DEF DecodePlan, EnqPlan
    <3> QED BY <2>3, <3>12, NextIs
  <2> QED BY <2>2, <2>3
<1>3. CASE r.kind = "deq"
  <2>1. H(r) = DeqHdrSize /\ B(r) = r.xid
    <3>1. DataSize(r) = 0 BY <1>3, Sizes
    <3> QED BY <1>1, <1>3, <3>1 DEF H, HdrSize
  <2>2. CASE o = 0
    <3>1. DeqPlan(r, o, n) = FirstPlan(H(r), B(r), n)
      <4>1. ~(o > 0) /\ r.xid # 0 BY <1>1, <2>1, <2>2
      <4> QED BY <2>1, <4>1 DEF DeqPlan
    <3>2. DecodePlan(r, o, n) = FirstPlan(H(r), B(r), n) BY <1>3, <3>1 DEF DecodePlan
    <3> QED BY <2>2, <3>2, FirstIs
  <2>3. CASE o > 0
    <3>1. DecodePlan(r, o, n) = NextPlan(H(r), B(r), o, n) BY <1>3, <2>1, <2>3 DEF DecodePlan, DeqPlan
    <3> QED BY <2>3, <3>1, NextIs
  <2> QED BY <2>2, <2>3
<1>4. CASE r.kind = "txn"
  <2>1. H(r) = TxnHdrSize /\ B(r) = r.xid
    <3>1. DataSize(r) = 0 BY <1>4, Sizes
    <3> QED BY <1>1, <1>4, <3>1 DEF H, HdrSize
  <2>2. CASE o = 0
    <3>1. DecodePlan(r, o, n) = FirstPlan(H(r), B(r), n) BY <1>4, <2>1, <2>2 DEF DecodePlan, TxnPlan
    <3> QED BY <2>2, <3>1, FirstIs
  <2>3. CASE o > 0
    <3>1. DecodePlan(r, o, n) = NextPlan(H(r), B(r), o, n) BY <1>4, <2>1, <2>3 DEF DecodePlan, TxnPlan
    <3> QED BY <2>3, <3>1, NextIs
  <2> QED BY <2>2, <2>3
<1> QED BY <1>2, <1>3, <1>4, Sizes

-----------------------------------------------------------------------------
(* Reading.                                                                *)

\* What is kept is in the record behind its header.
LEMMA KeptIs ==
    ASSUME NEW r \in AllRecords, NEW w
    PROVE  /\ Kept(r, w) \in Seq(Units) /\ Len(Kept(r, w)) \in Nat /\ Len(Kept(r, w)) <= B(r)
           /\ w = "read" => Len(Kept(r, w)) = B(r)
           /\ w # "read" => Len(Kept(r, w)) = r.xid
           /\ \A i \in 1 .. Len(Kept(r, w)) : Whole(r)[H(r) + i] = Kept(r, w)[i]
<1>1. Body(r) \in Seq(Units) /\ Len(Body(r)) = B(r) /\ Xid(r) \in Seq(Units) /\ Len(Xid(r)) = r.xid BY PartsAre
<1>2. B(r) \in Nat /\ r.xid \in Nat /\ DataSize(r) \in Nat /\ B(r) = r.xid + DataSize(r) BY Sizes DEF B
<1>3. r.xid <= B(r) BY <1>2
<1>4. CASE w = "read"
  <2>1. Kept(r, w) = Body(r) BY <1>4 DEF Kept
  <2> QED BY <1>1, <1>2, <1>4, <2>1, WholeIs
<1>5. CASE w # "read"
  <2>1. Kept(r, w) = Xid(r) BY <1>5 DEF Kept
  <2> QED BY <1>1, <1>2, <1>3, <1>5, <2>1, WholeIs
<1> QED BY <1>4, <1>5

\* A page of the record, x units behind its beginning to its end or that of the page.
LEMMA PageIs ==
    ASSUME TypeInv, NEW o \in Nat, o < RecDblks(rec), NEW n \in Nat \ {0}
    PROVE  \E x \in Nat :
               /\ PageAt(o, n) \in Seq(Units) /\ o * DblkSize + Len(PageAt(o, n)) = x
               /\ o * DblkSize \in Nat /\ Len(PageAt(o, n)) \in Nat
               /\ \A i \in 1 .. Len(PageAt(o, n)) : PageAt(o, n)[i] = disk[o * DblkSize + i]
               /\ (o + n) * DblkSize \in Nat /\ RecDblks(rec) * DblkSize \in Nat
               /\ (o + n) * DblkSize <= RecDblks(rec) * DblkSize => x = (o + n) * DblkSize
               /\ ~((o + n) * DblkSize <= RecDblks(rec) * DblkSize) => x = RecDblks(rec) * DblkSize
               /\ RecSize(rec) <= RecDblks(rec) * DblkSize
<1> DEFINE m == o * DblkSize
           e == (o + n) * DblkSize
           K == RecDblks(rec) * DblkSize
           x == IF e < K THEN e ELSE K
           pg == PageAt(o, n)
<1>1. rec \in AllRecords /\ disk \in [1 .. K -> Units] BY DEF TypeInv
<1>2. RecDblks(rec) \in Nat \ {0} /\ RecSize(rec) \in Nat \ {0} BY <1>1, PagesAre
<1>3. m \in Nat /\ e \in Nat /\ K \in Nat
  <2>1. o + n \in Nat /\ RecDblks(rec) \in Nat BY <1>2
  <2> QED BY <1>1, <2>1, PagesAre
<1>4. RecSize(rec) <= K
  <2>1. RecDblks(rec) \in Int /\ RecDblks(rec) <= RecDblks(rec) BY <1>2
  <2> QED BY <1>1, <2>1, PagesAre
<1>5. m < RecSize(rec)
  <2>1. ~(RecDblks(rec) <= o) BY <1>2
  <2>2. ~(RecSize(rec) <= m) BY <1>1, <2>1, PagesAre
  <2> QED BY <1>2, <1>3, <2>2
<1>6. e >= m
  <2>0. n \in Nat /\ n \in Int /\ o \in Int OBVIOUS
  <2>1. n * DblkSize \in Nat /\ o \in Int /\ n \in Int BY <1>1, <2>0, PagesAre
  <2>2. e = m + n * DblkSize BY <1>1, <2>1, PagesAre
  <2> QED BY <1>3, <2>1, <2>2
<1>7. disk \in Seq(Units) /\ Len(disk) = K BY <1>1, <1>3
<1>8. pg = SubSeq(disk, m + 1, x) BY <1>7 DEF PageAt, Min2
<1> HIDE DEF m, e, K, pg
<1>9. x \in Nat /\ x <= K /\ m <= x BY <1>2, <1>3, <1>4, <1>5, <1>6
<1>10. (e <= K => x = e) /\ (~(e <= K) => x = K) BY <1>3
<1> HIDE DEF x
<1>11. pg = [i \in 1 .. x - m |-> disk[m + i]] BY <1>1, <1>3, <1>7, <1>8, <1>9
<1>12. x - m \in Nat /\ \A i \in 1 .. x - m : m + i \in 1 .. K BY <1>3, <1>9
<1>13. pg \in [1 .. x - m -> Units] BY <1>1, <1>11, <1>12
<1>14. pg \in Seq(Units) /\ Len(pg) = x - m BY <1>12, <1>13
<1>15. m + Len(pg) = x BY <1>3, <1>9, <1>14
<1>16. \A i \in 1 .. Len(pg) : pg[i] = disk[m + i] BY <1>11, <1>14
<1> QED BY <1>3, <1>4, <1>9, <1>10, <1>12, <1>14, <1>15, <1>16 DEF m, e, K, pg

\* The record is in memory once all its units are.
LEMMA AllInMem ==
    ASSUME NEW r \in AllRecords, NEW w, NEW m, Holds(m, r, w, RecSize(r)),
           m \in [buf : [1 .. Len(Kept(r, w)) -> Units], tail : [1 .. T(r) -> Units]]
    PROVE  m.buf = Kept(r, w) /\ m.tail = Tail1(r)
<1> DEFINE k == Kept(r, w)
           t == Tail1(r)
<1>1. k \in Seq(Units) /\ Len(k) \in Nat /\ Len(k) <= B(r) BY KeptIs
<1>2. t \in Seq(Units) /\ Len(t) = T(r) /\ T(r) \in Nat BY PartsAre, Sizes
<1>3. B(r) \in Nat /\ H(r) \in Nat /\ T(r) \in Nat /\ RecSize(r) = H(r) + B(r) + T(r) BY Sizes
<1>4. m.buf \in [1 .. Len(k) -> Units] /\ m.tail \in [1 .. T(r) -> Units] OBVIOUS
<1>5. \A i \in 1 .. Len(k) : m.buf[i] = k[i]
  <2> TAKE i \in 1 .. Len(k)
  <2>1. H(r) + i <= RecSize(r) BY <1>1, <1>3
  <2> QED BY <2>1 DEF Holds
<1>6. \A i \in 1 .. T(r) : m.tail[i] = t[i]
  <2> TAKE i \in 1 .. T(r)
  <2>1. H(r) + B(r) + i <= RecSize(r) BY <1>3
  <2> QED BY <2>1 DEF Holds
<1> HIDE DEF k, t
<1>7. m.buf \in Seq(Units) /\ Len(m.buf) = Len(k) BY <1>1, <1>4
<1>8. m.tail \in Seq(Units) /\ Len(m.tail) = Len(t) BY <1>2, <1>4
<1>9. m.buf = k BY <1>1, <1>5, <1>7, SeqEqual
<1>10. m.tail = t BY <1>2, <1>6, <1>8, SeqEqual
<1> QED BY <1>9, <1>10 DEF k, t

\* Recovery takes over the part of xid and tail that is in the page.
LEMMA RecoverStep ==
    ASSUME Uncut(rec), TypeInv, WriteInv, ReadInv, EndInv, Recover
    PROVE  (TypeInv /\ WriteInv /\ ReadInv /\ EndInv)'
<1> DEFINE m == pos * DblkSize
           n == room.left
           S == RecSize(rec)
           N == RecDblks(rec)
           h == H(rec)
           b == B(rec)
           pg == PageAt(pos, n)
           k == Kept(rec, how)
           t == Tail1(rec)
<1>1. /\ phase = "recover" /\ rec' = rec /\ disk' = disk /\ how' = how
      /\ mem' = RcvDecode(mem, rec, m, pg)
      /\ pos' = Min2(pos + n, N) /\ phase' = (IF pos' = N THEN "done" ELSE "recover")
      /\ fault' = (IF phase' = "done" /\ HasTail(rec) /\ ~TailMatches(rec, mem'.tail) THEN "badtail" ELSE "none")
      /\ room' = [room EXCEPT !.left = room.page]
  BY DEF Recover, NextPage
<1>2. rec \in AllRecords /\ pos \in Nat /\ n \in Nat \ {0} /\ N \in Nat /\ N > 0
  <2>1. rec \in AllRecords /\ pos \in Nat /\ n \in Nat \ {0} BY DEF TypeInv
  <2> QED BY <2>1, PagesAre
<1>3. /\ how = "recover" /\ pos < N /\ InMem(m)
      /\ mem \in [buf : [1 .. Len(k) -> Units], tail : [1 .. T(rec) -> Units]]
  BY <1>1 DEF ReadInv
<1>4. OnDisk(S) BY <1>1 DEF WriteInv
<1>5. PICK x \in Nat :
          /\ pg \in Seq(Units) /\ m + Len(pg) = x /\ m \in Nat /\ Len(pg) \in Nat
          /\ \A i \in 1 .. Len(pg) : pg[i] = disk[m + i]
          /\ (pos + n) * DblkSize \in Nat /\ N * DblkSize \in Nat
          /\ (pos + n) * DblkSize <= N * DblkSize => x = (pos + n) * DblkSize
          /\ ~((pos + n) * DblkSize <= N * DblkSize) => x = N * DblkSize
          /\ S <= N * DblkSize
  BY <1>2, <1>3, PageIs
<1>6. S \in Nat /\ h \in Nat /\ b \in Nat /\ T(rec) \in Nat /\ S = h + b + T(rec) BY <1>2, Sizes
<1>7. k \in Seq(Units) /\ Len(k) \in Nat /\ Len(k) <= b /\ \A i \in 1 .. Len(k) : Whole(rec)[h + i] = k[i]
  BY <1>2, KeptIs
<1>8. \A i \in 1 .. T(rec) : Whole(rec)[h + b + i] = t[i] BY <1>2, WholeIs
<1>9. mem' = RcvParts(mem, h, h + b, m, pg)
  <2>1. CASE rec.kind = "enq"
    <3>1. h = EnqHdrSize /\ h + b = EnqHdrSize + rec.xid + DataSize(rec)
      <4>1. h = EnqHdrSize BY <2>1 DEF H, HdrSize
      <4>2. rec.xid \in Nat /\ DataSize(rec) \in Nat BY <1>2, Sizes
      <4> QED BY <1>6, <4>1, <4>2 DEF B
    <3> QED BY <1>1, <2>1, <3>1 DEF RcvDecode, EnqRcvDecode
  <2>2. CASE rec.kind = "deq"
    <3>1. h = DeqHdrSize /\ h + b = DeqHdrSize + rec.xid
      <4>1. h = DeqHdrSize BY <2>2 DEF H, HdrSize
      <4>2. rec.xid \in Nat /\ DataSize(rec) = 0 BY <1>2, <2>2, Sizes
      <4> QED BY <1>6, <4>1, <4>2 DEF B
    <3> QED BY <1>1, <2>2, <3>1 DEF RcvDecode, DeqRcvDecode
  <2>3. CASE rec.kind = "txn"
    <3>1. h = TxnHdrSize /\ h + b = TxnHdrSize + rec.xid
      <4>1. h = TxnHdrSize BY <2>3 DEF H, HdrSize
      <4>2. rec.xid \in Nat /\ DataSize(rec) = 0 BY <1>2, <2>3, Sizes
      <4> QED BY <1>6, <4>1, <4>2 DEF B
    <3> QED BY <1>1, <2>3, <3>1 DEF RcvDecode, TxnRcvDecode
  <2> QED BY <1>2, <2>1, <2>2, <2>3, Sizes
<1> HIDE DEF m, n, S, N, h, b, pg, k, t
<1>10. /\ mem'.buf = [i \in 1 .. Len(k) |-> IF h + i > m /\ h + i <= x THEN pg[h + i - m] ELSE mem.buf[i]]
       /\ mem'.tail = [i \in 1 .. T(rec) |->
                          IF h + b + i > m /\ h + b + i <= x THEN pg[h + b + i - m] ELSE mem.tail[i]]
       /\ mem' = [buf |-> mem'.buf, tail |-> mem'.tail]
  <2>1. DOMAIN mem.buf = 1 .. Len(k) /\ DOMAIN mem.tail = 1 .. T(rec) BY <1>3
  <2> QED BY <1>5, <1>9, <2>1 DEF RcvParts
<1> DEFINE at(j) == pg[j - m]
           bf == mem'.buf
           tl == mem'.tail
<1> HIDE DEF at
<1>a. /\ bf = [i \in 1 .. Len(k) |-> bf[i]]
      /\ tl = [i \in 1 .. T(rec) |-> tl[i]]
      /\ \A i \in 1 .. Len(k) : /\ h + i > m /\ h + i <= x => bf[i] = at(h + i)
                                /\ ~(h + i > m /\ h + i <= x) => bf[i] = mem.buf[i]
      /\ \A i \in 1 .. T(rec) : /\ h + b + i > m /\ h + b + i <= x => tl[i] = at(h + b + i)
                                /\ ~(h + b + i > m /\ h + b + i <= x) => tl[i] = mem.tail[i]
  <2>1. bf = [i \in 1 .. Len(k) |-> bf[i]] BY <1>10
  <2>2. tl = [i \in 1 .. T(rec) |-> tl[i]] BY <1>10
  <2>3. ASSUME NEW i \in 1 .. Len(k)
        PROVE  /\ h + i > m /\ h + i <= x => bf[i] = at(h + i)
               /\ ~(h + i > m /\ h + i <= x) => bf[i] = mem.buf[i]
    <3>1. bf[i] = IF h + i > m /\ h + i <= x THEN pg[h + i - m] ELSE mem.buf[i] BY <1>10, <2>3
    <3>2. at(h + i) = pg[(h + i) - m] BY DEF at
    <3>3. h + i - m = (h + i) - m BY <1>5, <1>6
    <3> QED BY <3>1, <3>2, <3>3
  <2>4. ASSUME NEW i \in 1 .. T(rec)
        PROVE  /\ h + b + i > m /\ h + b + i <= x => tl[i] = at(h + b + i)
               /\ ~(h + b + i > m /\ h + b + i <= x) => tl[i] = mem.tail[i]
    <3>1. tl[i] = IF h + b + i > m /\ h + b + i <= x THEN pg[h + b + i - m] ELSE mem.tail[i] BY <1>10, <2>4
    <3>2. at(h + b + i) = pg[(h + b + i) - m] BY DEF at
    <3>3. h + b + i - m = (h + b + i) - m BY <1>5, <1>6
    <3> QED BY <3>1, <3>2, <3>3
  <2> QED BY <2>1, <2>2, <2>3, <2>4
<1>11. \A j \in Nat : j > m /\ j <= x => at(j) \in Units /\ at(j) = disk[j]
  <2> SUFFICES ASSUME NEW j \in Nat, j > m, j <= x PROVE at(j) \in Units /\ at(j) = disk[j]
    OBVIOUS
  <2>1. j - m \in 1 .. Len(pg) /\ m + (j - m) = j BY <1>5
  <2>2. pg \in [1 .. Len(pg) -> Units] BY <1>5, LenProperties
  <2> QED BY <1>5, <2>1, <2>2 DEF at
<1> HIDE DEF at, bf, tl
<1>12. bf \in [1 .. Len(k) -> Units]
  <2>1. \A i \in 1 .. Len(k) : h + i \in Nat /\ mem.buf[i] \in Units BY <1>3, <1>6
  <2>2. \A i \in 1 .. Len(k) : h + i > m /\ h + i <= x => at(h + i) \in Units BY <1>11, <2>1
  <2>3. \A i \in 1 .. Len(k) : bf[i] \in Units BY <1>a, <2>1, <2>2
  <2> QED BY <1>a, <2>3
<1>13. tl \in [1 .. T(rec) -> Units]
  <2>1. \A i \in 1 .. T(rec) : h + b + i \in Nat /\ mem.tail[i] \in Units BY <1>3, <1>6
  <2>2. \A i \in 1 .. T(rec) : h + b + i > m /\ h + b + i <= x => at(h + b + i) \in Units BY <1>11, <2>1
  <2>3. \A i \in 1 .. T(rec) : tl[i] \in Units BY <1>a, <2>1, <2>2
  <2> QED BY <1>a, <2>3
<1>14. mem' \in [buf : [1 .. Len(k) -> Units], tail : [1 .. T(rec) -> Units]] BY <1>10, <1>12, <1>13 DEF bf, tl
<1>15. ASSUME NEW i \in 1 .. Len(k), h + i <= x PROVE mem'.buf[i] = k[i]
  <2>1. h + i \in 1 .. S /\ h + i \in Nat /\ i \in 1 .. Len(k) BY <1>6, <1>7
  <2>2. CASE h + i > m
    <3>1. mem'.buf[i] = at(h + i) BY <1>a, <1>15, <2>2 DEF bf
    <3>2. at(h + i) = disk[h + i] BY <1>11, <1>15, <2>1, <2>2
    <3>3. disk[h + i] = Whole(rec)[h + i]
      <4>1. h + i <= S BY <1>6, <2>1
      <4> QED BY <1>4, <2>1, <4>1 DEF OnDisk, S
    <3> QED BY <1>7, <3>1, <3>2, <3>3
  <2>3. CASE ~(h + i > m)
    <3>1. mem'.buf[i] = mem.buf[i] BY <1>a, <2>3 DEF bf
    <3>2. h + i <= m BY <1>5, <2>1, <2>3
    <3> QED BY <1>3, <3>1, <3>2 DEF InMem, Holds, k, h, m
  <2> QED BY <2>2, <2>3
<1>16. ASSUME NEW i \in 1 .. T(rec), h + b + i <= x PROVE mem'.tail[i] = t[i]
  <2>1. h + b + i \in 1 .. S /\ h + b + i \in Nat BY <1>6
  <2>2. CASE h + b + i > m
    <3>1. mem'.tail[i] = at(h + b + i) BY <1>a, <1>16, <2>2 DEF tl
    <3>2. at(h + b + i) = disk[h + b + i] BY <1>11, <1>16, <2>1, <2>2
    <3>3. disk[h + b + i] = Whole(rec)[h + b + i]
      <4>1. h + b + i <= S BY <1>6, <2>1
      <4> QED BY <1>4, <2>1, <4>1 DEF OnDisk, S
    <3> QED BY <1>8, <3>1, <3>2, <3>3
  <2>3. CASE ~(h + b + i > m)
    <3>1. mem'.tail[i] = mem.tail[i] BY <1>a, <2>3 DEF tl
    <3>2. h + b + i <= m BY <1>5, <2>1, <2>3
    <3> QED BY <1>3, <3>1, <3>2 DEF InMem, Holds, b, h, t, m
  <2> QED BY <2>2, <2>3
<1>17. pos' \in Nat /\ pos' <= N /\ pos' * DblkSize = x
  <2>1. N <= pos + n <=> N * DblkSize <= (pos + n) * DblkSize
    <3>1. DblkSize \in Nat /\ DblkSize > 0 BY <1>2, Sizes
    <3>2. \A i, j \in Int : i <= j => i * DblkSize <= j * DblkSize BY <3>1
    <3>3. \A i, j \in Int : i < j => i * DblkSize < j * DblkSize BY <3>1
    <3>4. N \in Int /\ pos + n \in Int BY <1>2
    <3>5. N <= pos + n => N * DblkSize <= (pos + n) * DblkSize BY <3>2, <3>4
    <3>6. pos + n < N => (pos + n) * DblkSize < N * DblkSize BY <3>3, <3>4
    <3> QED BY <1>5, <3>4, <3>5, <3>6
  <2>2. CASE pos + n < N
    <3>1. pos' = pos + n BY <1>1, <2>2 DEF Min2
    <3>2. ~(N * DblkSize <= (pos + n) * DblkSize) BY <1>2, <2>1, <2>2
    <3>3. x = (pos + n) * DblkSize BY <1>5, <3>2
    <3> QED BY <1>2, <2>2, <3>1, <3>3
  <2>3. CASE ~(pos + n < N)
    <3>1. pos' = N BY <1>1, <2>3 DEF Min2
    <3>2. N * DblkSize <= (pos + n) * DblkSize BY <1>2, <2>1, <2>3
    <3>3. x = N * DblkSize BY <1>5, <3>2
    <3> QED BY <1>2, <3>1, <3>3
  <2> QED BY <2>2, <2>3
<1>18. InMem(x)'
  <2>1. k' = k /\ h' = h /\ b' = b /\ t' = t /\ T(rec)' = T(rec) BY <1>1 DEF k, h, b, t
  <2>2. \A i \in 1 .. Len(k) : h + i <= x => mem'.buf[i] = k[i] BY <1>15
  <2>3. \A i \in 1 .. T(rec) : h + b + i <= x => mem'.tail[i] = t[i] BY <1>16
  <2> QED BY <1>1, <2>2, <2>3 DEF InMem, Holds, k, h, b, t
<1>19. TypeInv'
  <2>1. room' \in [left : Nat \ {0}, page : Nat \ {0}] BY <1>1 DEF TypeInv
  <2>2. phase' \in {"recover", "done"} BY <1>1
  <2> QED BY <1>1, <1>17, <2>1, <2>2 DEF TypeInv
<1>20. WriteInv'
  <2>1. phase' # "write" BY <1>1
  <2>2. OnDisk(S)' BY <1>1, <1>4 DEF OnDisk, S
  <2> QED BY <2>1, <2>2 DEF WriteInv, S
<1>21. CASE pos' # N
  <2>1. phase' = "recover" /\ pos' < N BY <1>1, <1>2, <1>17, <1>21
  <2>2. ReadInv'
    <3>1. InMem(pos * DblkSize)' BY <1>17, <1>18
    <3> QED BY <1>1, <1>3, <1>14, <2>1, <3>1 DEF ReadInv, N, k
  <2>3. EndInv' BY <1>1, <2>1 DEF EndInv
  <2> QED BY <1>19, <1>20, <2>2, <2>3
<1>22. CASE pos' = N
  <2>1. phase' = "done" BY <1>1, <1>22
  <2>2. S <= x BY <1>5, <1>17, <1>22
  <2>3. InMem(S)'
    <3>1. \A i \in 1 .. Len(k) : h + i <= S => mem'.buf[i] = k[i]
      <4> TAKE i \in 1 .. Len(k)
      <4>1. h + i <= S => h + i <= x BY <1>6, <2>2
      <4> QED BY <1>15, <4>1
    <3>2. \A i \in 1 .. T(rec) : h + b + i <= S => mem'.tail[i] = t[i]
      <4> TAKE i \in 1 .. T(rec)
      <4>1. h + b + i <= S => h + b + i <= x BY <1>6, <2>2
      <4> QED BY <1>16, <4>1
    <3> QED BY <1>1, <3>1, <3>2 DEF InMem, Holds, k, h, b, t, S
  <2>4. (mem.buf = Kept(rec, how) /\ mem.tail = Tail1(rec))'
    <3>1. rec' \in AllRecords BY <1>1, <1>2
    <3>2. (mem \in [buf : [1 .. Len(Kept(rec, how)) -> Units], tail : [1 .. T(rec) -> Units]])'
      BY <1>1, <1>14 DEF k
    <3>3. InMem(RecSize(rec))' BY <2>3 DEF S
    <3> QED BY <3>1, <3>2, <3>3, AllInMem DEF InMem
  <2>5. ReadInv' BY <1>1, <1>3, <2>1, <2>4 DEF ReadInv
  <2>6. EndInv'
    <3>1. TailMatches(rec, mem'.tail) BY <1>1, <2>4 DEF TailMatches
    <3>2. fault' = "none" BY <1>1, <3>1
    <3> QED BY <1>1, <1>22, <3>2 DEF EndInv, N
  <2> QED BY <1>19, <1>20, <2>5, <2>6
<1> QED BY <1>21, <1>22
\* The places of decode(): a unit of buffer or tail that is now in memory is one that is
\* copied from its place in the page, or it was in memory before.
Placed(m, z, h, b, from, at, body, tailAt, tail) ==
    /\ \A i \in Nat \ {0} : i <= b /\ h + i <= z =>
          \/ at < i /\ i <= at + body /\ from + i - at = h + i - m /\ h + i - m >= 1
          \/ ~(at < i /\ i <= at + body) /\ h + i <= m
    /\ \A i \in Nat \ {0} : h + b + i <= z =>
          \/ tailAt < i /\ i <= tailAt + tail /\ from + body + i - tailAt = h + b + i - m
             /\ h + b + i - m >= 1
          \/ ~(tailAt < i /\ i <= tailAt + tail) /\ h + b + i <= m
    /\ m + from + body + tail = z
    /\ body > 0 => at + body <= b
    /\ tail > 0 => tailAt + tail = z - h - b

\* The numbers of a plan put every unit in its place.
LEMMA PlacedBy ==
    ASSUME NEW m \in Nat, NEW s \in Nat, NEW e \in Nat, NEW h \in Nat, NEW b \in Nat, NEW from \in Nat,
           NEW at \in Nat, NEW body \in Nat, NEW tailAt \in Nat, NEW tail \in Nat, NEW chk,
           NEW z \in Nat, s <= e => z = s, ~(s <= e) => z = e,
           (m = 0 /\ from = h) \/ from = 0, NEW s0, s0 = m + from,
           Takes(s, e, s0, h, b, at, body, tailAt, tail, chk)
    PROVE  Placed(m, z, h, b, from, at, body, tailAt, tail)
<1>1. m + from + body + tail = z BY DEF Takes
<1>2. body > 0 => at = m + from - h /\ m + from + body <= h + b BY DEF Takes
<1>3. body = 0 => m + from >= h + b BY DEF Takes
<1>4. tail > 0 => tailAt = m + from + body - h - b BY DEF Takes
<1>5. tail = 0 => tailAt = 0 BY DEF Takes
<1>6. ASSUME NEW i \in Nat, i > 0, i <= b, h + i <= z
      PROVE  \/ at < i /\ i <= at + body /\ from + i - at = h + i - m /\ h + i - m >= 1
             \/ ~(at < i /\ i <= at + body) /\ h + i <= m
  <2>1. CASE body = 0 BY <1>3, <1>6, <2>1
  <2>2. CASE body > 0 /\ h + i <= m + from BY <1>2, <1>6, <2>2
  <2>3. CASE body > 0 /\ ~(h + i <= m + from)
    <3>1. h + i <= m + from + body
      <4>1. CASE tail > 0 BY <1>2, <1>4, <1>6, <2>3, <4>1
      <4>2. CASE tail = 0 BY <1>1, <1>6, <4>2
      <4> QED BY <4>1, <4>2
    <3> QED BY <1>2, <1>6, <2>3, <3>1
  <2> QED BY <2>1, <2>2, <2>3
<1>7. ASSUME NEW i \in Nat, i > 0, h + b + i <= z
      PROVE  \/ tailAt < i /\ i <= tailAt + tail /\ from + body + i - tailAt = h + b + i - m
                /\ h + b + i - m >= 1
             \/ ~(tailAt < i /\ i <= tailAt + tail) /\ h + b + i <= m
  <2>1. CASE tail = 0
    <3>1. body = 0 BY <1>1, <1>2, <1>7, <2>1
    <3> QED BY <1>1, <1>3, <1>7, <2>1, <3>1
  <2>2. CASE tail > 0 /\ h + b + i <= m + from + body
    <3>1. body = 0 BY <1>2, <1>7, <2>2
    <3> QED BY <1>3, <1>4, <1>7, <2>2, <3>1
  <2>3. CASE tail > 0 /\ ~(h + b + i <= m + from + body) BY <1>1, <1>4, <1>7, <2>3
  <2> QED BY <2>1, <2>2, <2>3
<1>8. body > 0 => at + body <= b BY <1>2
<1>9. tail > 0 => tailAt + tail = z - h - b BY <1>1, <1>4
<1>10. \A i \in Nat \ {0} : i \in Nat /\ i > 0 OBVIOUS
<1> QED BY <1>1, <1>6, <1>7, <1>8, <1>9, <1>10 DEF Placed

\* One decode() of a record that has xid or data.
LEMMA DecodeStep ==
    ASSUME Uncut(rec), TypeInv, WriteInv, ReadInv, phase = "read", B(rec) > 0,
           NEW pg, pg = PageAt(pos, room.left),
           NEW p, p = DecodePlan(rec, pos, room.left),
           NEW from, from = (IF pos = 0 THEN HdrSize(rec.kind) ELSE 0),
           NEW buf, buf = Copy(mem.buf, p.at, pg, from, p.body),
           NEW tail, tail = Copy(mem.tail, p.tailAt, pg, from + p.body, p.tail)
    PROVE  /\ Fits(mem.buf, IF p.body = 0 THEN 0 ELSE p.at, pg, from, p.body)
           /\ Fits(mem.tail, p.tailAt, pg, from + p.body, p.tail)
           /\ buf \in [1 .. B(rec) -> Units] /\ tail \in [1 .. T(rec) -> Units]
           /\ RecSize(rec) <= (pos + room.left) * DblkSize =>
                  /\ from + p.body + p.tail = RecSize(rec) - pos * DblkSize
                  /\ Holds([buf |-> buf, tail |-> tail], rec, "read", RecSize(rec))
           /\ ~(RecSize(rec) <= (pos + room.left) * DblkSize) =>
                  /\ from + p.body + p.tail = room.left * DblkSize
                  /\ Holds([buf |-> buf, tail |-> tail], rec, "read", (pos + room.left) * DblkSize)
                  /\ ~p.chk
<1> DEFINE m == pos * DblkSize
           n == room.left
           S == RecSize(rec)
           N == RecDblks(rec)
           h == H(rec)
           b == B(rec)
           k == Body(rec)
           t == Tail1(rec)
           e == (pos + n) * DblkSize
           z == IF S <= e THEN S ELSE e
<1>1. rec \in AllRecords /\ pos \in Nat /\ n \in Nat \ {0} BY DEF TypeInv
<1>2. how = "read" /\ pos < N /\ InMem(m) BY DEF ReadInv
<1>3. k \in Seq(Units) /\ Len(k) = b /\ Kept(rec, "read") = k BY <1>1, PartsAre DEF Kept
<1>4. mem.buf \in [1 .. b -> Units] /\ mem.tail \in [1 .. T(rec) -> Units]
  BY <1>2, <1>3 DEF ReadInv
<1>5. OnDisk(S) BY DEF WriteInv
<1>6. PICK x \in Nat :
          /\ pg \in Seq(Units) /\ m + Len(pg) = x /\ m \in Nat /\ Len(pg) \in Nat
          /\ \A i \in 1 .. Len(pg) : pg[i] = disk[m + i]
          /\ e \in Nat /\ N * DblkSize \in Nat
          /\ e <= N * DblkSize => x = e
          /\ ~(e <= N * DblkSize) => x = N * DblkSize
          /\ S <= N * DblkSize
  BY <1>1, <1>2, PageIs
<1>7. S \in Nat /\ h \in Nat /\ h > 0 /\ b \in Nat /\ T(rec) \in Nat /\ S = h + b + T(rec) BY <1>1, Sizes
<1>8. \A i \in 1 .. b : Whole(rec)[h + i] = k[i] BY <1>1, WholeIs
<1>9. \A i \in 1 .. T(rec) : Whole(rec)[h + b + i] = t[i] BY <1>1, WholeIs
<1>10. Planned(rec, pos, n, p) BY <1>1, <1>2, PlanIs
<1>11. from \in Nat /\ Start(rec, pos) = m + from /\ ((m = 0 /\ from = h) \/ from = 0)
  <2>1. CASE pos = 0
    <3>1. m = 0
      <4>1. DblkSize \in Nat BY <1>1, Sizes
      <4> QED BY <2>1, <4>1
    <3> QED BY <1>7, <2>1, <3>1 DEF Start, H
  <2>2. CASE pos # 0 BY <1>6, <2>2 DEF Start
  <2> QED BY <2>1, <2>2
<1>12. /\ p.body \in Nat /\ p.tail \in Nat /\ p.at \in Nat /\ p.tailAt \in Nat
       /\ Takes(S, e, m + from, h, b, p.at, p.body, p.tailAt, p.tail, p.chk)
  BY <1>10, <1>11 DEF Planned
<1>13. m < S
  <2>1. N \in Int BY <1>1, PagesAre
  <2>2. ~(N <= pos) BY <1>1, <1>2, <2>1
  <2>3. ~(S <= m) BY <1>1, <2>2, PagesAre
  <2> QED BY <1>6, <1>7, <2>3
<1>14. e = m + n * DblkSize /\ n * DblkSize \in Nat
  <2>1. pos \in Int /\ n \in Int /\ n \in Nat BY <1>1
  <2> QED BY <1>1, <2>1, PagesAre
<1> DEFINE body == p.body
           at == p.at
           tailAt == p.tailAt
           tl == p.tail
           chk == p.chk
<1>15. body \in Nat /\ tl \in Nat /\ at \in Nat /\ tailAt \in Nat /\ Takes(S, e, m + from, h, b, at, body, tailAt, tl, chk)
  BY <1>12
<1>16. buf = Copy(mem.buf, at, pg, from, body) /\ tail = Copy(mem.tail, tailAt, pg, from + body, tl) OBVIOUS
<1>17. chk => S <= e BY <1>15 DEF Takes
<1> HIDE DEF m, n, S, N, h, b, k, t, e, body, at, tailAt, tl, chk
<1>18. z \in Nat /\ (S <= e => z = S) /\ (~(S <= e) => z = e) BY <1>6, <1>7
<1> HIDE DEF z
<1>a. m \in Nat /\ e \in Nat /\ Len(pg) \in Nat /\ m + Len(pg) = x BY <1>6
<1>b. S \in Nat /\ h \in Nat /\ b \in Nat /\ from \in Nat BY <1>7, <1>11
<1>c. body \in Nat /\ tl \in Nat /\ at \in Nat /\ tailAt \in Nat BY <1>15
<1> DEFINE s0 == m + from
<1>d. s0 = m + from /\ Takes(S, e, s0, h, b, at, body, tailAt, tl, chk) BY <1>15
<1> HIDE DEF s0
<1>e. (m = 0 /\ from = h) \/ from = 0 BY <1>11
<1>f. pg \in Seq(Units) BY <1>6
<1>g. Placed(m, z, h, b, from, at, body, tailAt, tl)
  BY <1>a, <1>b, <1>c, <1>d, <1>e, <1>18, PlacedBy
<1>19. /\ m + from + body + tl = z
       /\ body > 0 => at + body <= b
       /\ tl > 0 => tailAt + tl = z - h - b
  BY <1>g DEF Placed
<1>20. z <= x /\ z <= S
  <2>1. CASE S <= e BY <1>6, <1>7, <1>18, <2>1
  <2>2. CASE ~(S <= e) BY <1>6, <1>7, <1>18, <2>2
  <2> QED BY <2>1, <2>2
<1>21. from + body + tl <= Len(pg) /\ from + body <= Len(pg) /\ from + body + tl = z - m
  <2> DEFINE l == Len(pg)
  <2>1. m + from + body + tl = z /\ z <= m + l BY <1>a, <1>19, <1>20
  <2>2. m \in Nat /\ l \in Nat BY <1>a
  <2>3. from \in Nat BY <1>b
  <2>4. body \in Nat /\ tl \in Nat BY <1>c
  <2>5. z \in Nat BY <1>18
  <2> HIDE DEF l
  <2>6. from + body + tl = z - m BY <2>1, <2>2, <2>3, <2>4, <2>5
  <2>7. z - m <= l BY <2>1, <2>2, <2>5
  <2>8. from + body + tl <= l /\ from + body <= l BY <2>2, <2>3, <2>4, <2>6, <2>7
  <2> QED BY <2>6, <2>8 DEF l
<1>22. Len(mem.buf) = b /\ Len(mem.tail) = T(rec) BY <1>4, <1>7
<1>23. Fits(mem.buf, IF body = 0 THEN 0 ELSE at, pg, from, body)
  <2>1. CASE body = 0 BY <1>7, <1>15, <1>21, <1>22, <2>1 DEF Fits
  <2>2. CASE body # 0
    <3>1. at + body <= b BY <1>15, <1>19, <2>2
    <3> QED BY <1>15, <1>21, <1>22, <2>2, <3>1 DEF Fits
  <2> QED BY <2>1, <2>2
<1>24. Fits(mem.tail, tailAt, pg, from + body, tl)
  <2>1. tailAt + tl <= T(rec)
    <3>1. CASE tl = 0
      <4>1. tailAt = 0 BY <1>15, <3>1 DEF Takes
      <4> QED BY <1>7, <3>1, <4>1
    <3>2. CASE tl # 0
      <4>1. tailAt + tl = z - h - b BY <1>15, <1>19, <3>2
      <4> QED BY <1>7, <1>18, <1>20, <4>1
    <3> QED BY <3>1, <3>2
  <2> QED BY <1>15, <1>21, <1>22, <2>1 DEF Fits
<1>25. Copied(buf, b, mem.buf, at, pg, from, body)
  <2> DEFINE mb == mem.buf
  <2>1. mb \in [1 .. b -> Units] /\ buf = Copy(mb, at, pg, from, body) BY <1>4, <1>16
  <2> HIDE DEF mb
  <2>2. Copied(buf, b, mb, at, pg, from, body) BY <1>b, <1>c, <1>f, <2>1, CopyIs
  <2> QED BY <2>2 DEF mb
<1>26. Copied(tail, T(rec), mem.tail, tailAt, pg, from + body, tl)
  <2> DEFINE f == from + body
             mt == mem.tail
             l == T(rec)
  <2>1. f \in Nat /\ l \in Nat /\ tail = Copy(mt, tailAt, pg, f, tl) /\ mt \in [1 .. l -> Units]
    BY <1>4, <1>7, <1>b, <1>c, <1>16
  <2> HIDE DEF f, mt, l
  <2>2. Copied(tail, l, mt, tailAt, pg, f, tl) BY <1>c, <1>f, <2>1, CopyIs
  <2> QED BY <2>2 DEF f, mt, l
<1>27. ASSUME NEW j \in Nat, j - m >= 1, j <= z PROVE pg[j - m] = Whole(rec)[j] /\ j - m <= Len(pg)
  <2>1. j - m \in 1 .. Len(pg) /\ m + (j - m) = j BY <1>a, <1>18, <1>20, <1>27
  <2>2. j \in 1 .. S /\ j <= S BY <1>a, <1>b, <1>18, <1>20, <1>27
  <2>3. disk[j] = Whole(rec)[j] BY <1>5, <2>2 DEF OnDisk, S
  <2> QED BY <1>6, <2>1, <2>3
<1>28. ASSUME NEW i \in 1 .. b, h + i <= z PROVE buf[i] = k[i]
  <2>1. i \in Nat \ {0} /\ i <= b /\ h + i \in Nat BY <1>7
  <2>2. CASE at < i /\ i <= at + body /\ from + i - at = h + i - m /\ h + i - m >= 1
    <3>1. h + i - m = (h + i) - m BY <1>6, <1>7
    <3>2. pg[(h + i) - m] = Whole(rec)[h + i] /\ (h + i) - m <= Len(pg) BY <1>27, <1>28, <2>1, <2>2, <3>1
    <3>3. buf[i] = pg[from + i - at] BY <1>25, <2>2, <3>1, <3>2 DEF Copied
    <3> QED BY <1>8, <2>2, <3>1, <3>2, <3>3
  <2>3. CASE ~(at < i /\ i <= at + body) /\ h + i <= m
    <3>1. buf[i] = mem.buf[i] BY <1>25, <2>3 DEF Copied
    <3>2. mem.buf[i] = k[i] BY <1>2, <1>3, <2>3 DEF InMem, Holds, h
    <3> QED BY <3>1, <3>2
  <2> QED BY <1>g, <1>28, <2>1, <2>2, <2>3 DEF Placed
<1>29. ASSUME NEW i \in 1 .. T(rec), h + b + i <= z PROVE tail[i] = t[i]
  <2>1. i \in Nat \ {0} /\ h + b + i \in Nat BY <1>7
  <2>2. CASE /\ tailAt < i /\ i <= tailAt + tl /\ from + body + i - tailAt = h + b + i - m
             /\ h + b + i - m >= 1
    <3>1. h + b + i - m = (h + b + i) - m BY <1>6, <1>7
    <3>2. pg[(h + b + i) - m] = Whole(rec)[h + b + i] /\ (h + b + i) - m <= Len(pg)
      BY <1>27, <1>29, <2>1, <2>2, <3>1
    <3>3. tail[i] = pg[from + body + i - tailAt] BY <1>26, <2>2, <3>1, <3>2 DEF Copied
    <3> QED BY <1>9, <2>2, <3>1, <3>2, <3>3
  <2>3. CASE ~(tailAt < i /\ i <= tailAt + tl) /\ h + b + i <= m
    <3>1. tail[i] = mem.tail[i] BY <1>26, <2>3 DEF Copied
    <3>2. mem.tail[i] = t[i] BY <1>2, <2>3 DEF InMem, Holds, h, b, t
    <3> QED BY <3>1, <3>2
  <2> QED BY <1>g, <1>29, <2>1, <2>2, <2>3 DEF Placed
<1>30. Holds([buf |-> buf, tail |-> tail], rec, "read", z)
  BY <1>3, <1>28, <1>29 DEF Holds, h, b, t
<1>31. buf \in [1 .. b -> Units] /\ tail \in [1 .. T(rec) -> Units] BY <1>25, <1>26 DEF Copied
<1>32. S <= e => from + body + tl = S - m /\ Holds([buf |-> buf, tail |-> tail], rec, "read", S)
  BY <1>18, <1>21, <1>30
<1>33. ~(S <= e) => from + body + tl = n * DblkSize /\ Holds([buf |-> buf, tail |-> tail], rec, "read", e) /\ ~chk
  <2>1. z = e => z - m = n * DblkSize BY <1>6, <1>14
  <2> QED BY <1>17, <1>18, <1>21, <1>30, <2>1
<1> QED BY <1>23, <1>24, <1>31, <1>32, <1>33 DEF m, n, S, b, e, body, at, tailAt, tl, chk

\* A record without xid and data is one dblk, and nothing is taken from it.
LEMMA EmptyPlan ==
    ASSUME NEW r \in AllRecords, B(r) = 0, NEW n
    PROVE  RecDblks(r) = 1 /\ Dblks(H(r)) = 1 /\ DecodePlan(r, 0, n) = Plan(0, 0, 0, 0, FALSE)
<1>1. /\ H(r) \in Nat /\ H(r) > 0 /\ T(r) \in Nat /\ TailSize \in Nat /\ DblkSize \in Nat
      /\ H(r) + TailSize <= DblkSize /\ RecSize(r) = H(r) + B(r) + T(r)
  BY Sizes
<1>2. T(r) <= TailSize BY <1>1 DEF T
<1>3. r.xid \in Nat /\ DataSize(r) \in Nat /\ r.kind \in {"enq", "deq", "txn"} /\ (r.kind = "txn" => r.xid > 0)
  BY Sizes
<1>4. r.xid = 0 /\ DataSize(r) = 0 /\ r.kind # "txn" BY <1>3 DEF B
<1>5. 1 * DblkSize = DblkSize /\ (1 - 1) * DblkSize = 0 BY <1>1
<1>6. Dblks(H(r)) = 1 BY <1>1, <1>5, DblksIs
<1>7. RecDblks(r) = 1
  <2>1. RecSize(r) \in Int /\ RecSize(r) <= 1 * DblkSize /\ ~(RecSize(r) <= (1 - 1) * DblkSize)
    BY <1>1, <1>2, <1>5
  <2> QED BY <2>1, DblksIs DEF RecDblks
<1>8. DecodePlan(r, 0, n) = Plan(0, 0, 0, 0, FALSE)
  <2>1. CASE r.kind = "enq" BY <1>4, <2>1 DEF DecodePlan, EnqPlan
  <2>2. CASE r.kind = "deq" BY <1>4, <2>2 DEF DecodePlan, DeqPlan
  <2> QED BY <1>3, <1>4, <2>1, <2>2
<1> QED BY <1>6, <1>7, <1>8

\* read_enq() and its like: one page of a record.
LEMMA ReadStep ==
    ASSUME Uncut(rec), TypeInv, WriteInv, ReadInv, EndInv, Read
    PROVE  (TypeInv /\ WriteInv /\ ReadInv /\ EndInv)'
<1> DEFINE m == pos * DblkSize
           n == room.left
           S == RecSize(rec)
           N == RecDblks(rec)
           e == (pos + n) * DblkSize
           pg == PageAt(pos, n)
           p == DecodePlan(rec, pos, n)
           from == IF pos = 0 THEN HdrSize(rec.kind) ELSE 0
           buf == Copy(mem.buf, p.at, pg, from, p.body)
           tail == Copy(mem.tail, p.tailAt, pg, from + p.body, p.tail)
           fits == /\ Fits(mem.buf, IF p.body = 0 THEN 0 ELSE p.at, pg, from, p.body)
                   /\ Fits(mem.tail, p.tailAt, pg, from + p.body, p.tail)
<1>1. /\ phase = "read" /\ rec' = rec /\ disk' = disk /\ how' = how
      /\ mem' = [buf |-> buf, tail |-> tail]
      /\ fault' = (IF ~fits THEN "overrun"
                   ELSE IF p.chk /\ ~TailMatches(rec, tail) THEN "badtail" ELSE "none")
      /\ pos' = pos + Dblks(from + p.body + p.tail)
      /\ phase' = (IF pos' >= N THEN "done" ELSE "read")
      /\ room' = [room EXCEPT !.left = room.page]
  BY DEF Read, NextPage
<1>2. rec \in AllRecords /\ pos \in Nat /\ n \in Nat \ {0} BY DEF TypeInv
<1>3. how = "read" /\ pos < N BY <1>1 DEF ReadInv
<1>4. N \in Nat /\ N > 0 BY <1>2, PagesAre
<1>5. OnDisk(S) BY <1>1 DEF WriteInv
<1>6. B(rec) \in Nat /\ Kept(rec, "read") = Body(rec) /\ Len(Body(rec)) = B(rec)
  BY <1>2, Sizes, PartsAre DEF Kept
<1> HIDE DEF m, n, S, N, e, pg, p, from, buf, tail, fits
<1>7. room' \in [left : Nat \ {0}, page : Nat \ {0}] BY <1>1 DEF TypeInv
<1>8. WriteInv'
  <2>1. phase' # "write" BY <1>1
  <2>2. OnDisk(S)' BY <1>1, <1>5 DEF OnDisk, S
  <2> QED BY <2>1, <2>2 DEF WriteInv, S
<1>9. phase' \in {"read", "done"} BY <1>1
<1>10. pos' \in Nat => TypeInv' BY <1>1, <1>7, <1>9 DEF TypeInv
<1>11. CASE B(rec) = 0
  <2>1. N = 1 /\ pos = 0 /\ p = Plan(0, 0, 0, 0, FALSE) /\ Dblks(H(rec)) = 1
    <3>1. N = 1 /\ Dblks(H(rec)) = 1 BY <1>2, <1>11, EmptyPlan DEF N
    <3>2. pos = 0 BY <1>2, <1>3, <3>1
    <3>3. p = Plan(0, 0, 0, 0, FALSE) BY <1>2, <1>11, <3>2, EmptyPlan DEF p
    <3> QED BY <3>1, <3>2, <3>3
  <2>2. p.at = 0 /\ p.body = 0 /\ p.tailAt = 0 /\ p.tail = 0 /\ p.chk = FALSE BY <2>1 DEF Plan
  <2>3. from = H(rec) /\ from \in Nat
    <3>1. H(rec) \in Nat BY <1>2, Sizes
    <3> QED BY <2>1, <3>1 DEF from, H
  <2>4. pos' = N
    <3>1. from + p.body + p.tail = H(rec)
      <4>1. H(rec) \in Nat BY <1>2, Sizes
      <4>2. H(rec) + 0 + 0 = H(rec) BY <4>1
      <4> QED BY <2>2, <2>3, <4>2
    <3>2. pos' = 0 + 1
      <4>1. pos' = pos + Dblks(H(rec)) BY <1>1, <3>1
      <4> QED BY <2>1, <4>1
    <3> QED BY <2>1, <3>2
  <2>5. phase' = "done" BY <1>1, <1>4, <2>4
  <2>6. mem.buf \in [1 .. 0 -> Units] /\ mem.tail \in [1 .. T(rec) -> Units] /\ T(rec) \in Nat
    BY <1>1, <1>2, <1>3, <1>6, <1>11, Sizes DEF ReadInv
  <2>7. pg \in Seq(Units) /\ Len(pg) \in Nat /\ H(rec) <= Len(pg)
    <3>1. PICK x \in Nat :
              /\ pg \in Seq(Units) /\ m + Len(pg) = x /\ m \in Nat /\ Len(pg) \in Nat
              /\ e \in Nat /\ N * DblkSize \in Nat
              /\ e <= N * DblkSize => x = e
              /\ ~(e <= N * DblkSize) => x = N * DblkSize
              /\ S <= N * DblkSize
      BY <1>2, <1>3, PageIs DEF m, e, N, S, pg, n
    <3>2. e = n * DblkSize /\ m = 0 /\ N * DblkSize = DblkSize /\ DblkSize \in Nat
      <4>1. DblkSize \in Nat /\ n \in Nat BY <1>2, Sizes
      <4> QED BY <2>1, <4>1 DEF e, m
    <3>3. n * DblkSize >= DblkSize BY <1>2, PagesAre
    <3>4. H(rec) \in Nat /\ TailSize \in Nat /\ H(rec) + TailSize <= DblkSize BY <1>2, Sizes
    <3> QED BY <3>1, <3>2, <3>3, <3>4
  <2>8. fault' = "none"
    <3>1. Len(mem.buf) = 0 /\ Len(mem.tail) = T(rec) BY <2>6
    <3>2. Fits(mem.buf, 0, pg, from, 0) BY <2>3, <2>7, <3>1 DEF Fits
    <3>3. Fits(mem.tail, 0, pg, from + 0, 0)
      <4>1. from + 0 + 0 <= Len(pg) /\ 0 + 0 <= Len(mem.tail) BY <2>3, <2>6, <2>7, <3>1
      <4> QED BY <4>1 DEF Fits
    <3>4. fits BY <2>2, <3>2, <3>3 DEF fits
    <3> QED BY <1>1, <2>2, <3>4
  <2>9. mem'.buf = Kept(rec, how)'
    <3>1. buf \in [1 .. 0 -> Units]
      <4>1. Copied(Copy(mem.buf, 0, pg, from, 0), 0, mem.buf, 0, pg, from, 0) BY <2>3, <2>6, <2>7, CopyIs
      <4> QED BY <2>2, <4>1 DEF Copied, buf
    <3>2. buf = <<>> BY <3>1
    <3>3. Body(rec) = <<>>
      <4>1. Body(rec) \in Seq(Units) /\ Len(Body(rec)) = 0 BY <1>2, <1>11, PartsAre
      <4> QED BY <4>1, EmptySeq
    <3> QED BY <1>1, <1>3, <1>6, <3>2, <3>3
  <2>10. ReadInv' BY <1>1, <1>3, <2>5, <2>9 DEF ReadInv
  <2>11. EndInv' BY <1>1, <2>4, <2>8 DEF EndInv, N
  <2> QED BY <1>4, <1>8, <1>10, <2>4, <2>10, <2>11
<1>12. CASE B(rec) > 0
  <2>1. /\ fits
        /\ buf \in [1 .. B(rec) -> Units] /\ tail \in [1 .. T(rec) -> Units]
        /\ S <= e => /\ from + p.body + p.tail = S - m
                     /\ Holds([buf |-> buf, tail |-> tail], rec, "read", S)
        /\ ~(S <= e) => /\ from + p.body + p.tail = n * DblkSize
                        /\ Holds([buf |-> buf, tail |-> tail], rec, "read", e)
                        /\ ~p.chk
    <3> USE DEF m, n, S, e, pg, p, from, buf, tail, fits
    <3> QED BY <1>1, <1>12, DecodeStep
  <2>2. mem' \in [buf : [1 .. Len(Body(rec)) -> Units], tail : [1 .. T(rec) -> Units]]
    BY <1>1, <1>6, <2>1
  <2>3. CASE S <= e
    <3>1. pos' = N
      <4>1. pos + Dblks(S - m) = N BY <1>2, <1>3, <2>3, NextDblk DEF S, e, m, N
      <4> QED BY <1>1, <2>1, <2>3, <4>1
    <3>2. phase' = "done" BY <1>1, <1>4, <3>1
    <3>3. Holds(mem', rec, "read", RecSize(rec)) BY <1>1, <2>1, <2>3 DEF S
    <3>4. mem'.buf = Kept(rec, "read") /\ mem'.tail = Tail1(rec) BY <1>2, <1>6, <2>2, <3>3, AllInMem
    <3>5. TailMatches(rec, tail) BY <1>1, <3>4 DEF TailMatches
    <3>6. fault' = "none" BY <1>1, <2>1, <3>5
    <3>7. ReadInv' BY <1>1, <1>3, <3>2, <3>4 DEF ReadInv
    <3>8. EndInv' BY <1>1, <3>1, <3>6 DEF EndInv, N
    <3> QED BY <1>4, <1>8, <1>10, <3>1, <3>7, <3>8
  <2>4. CASE ~(S <= e)
    <3>1. pos' = pos + n /\ pos + n < N
      <4>1. pos + Dblks(n * DblkSize) = pos + n /\ pos + n < N
        BY <1>2, <1>3, <2>4, NextDblk DEF S, e, N, n
      <4> QED BY <1>1, <2>1, <2>4, <4>1
    <3>2. pos' \in Nat BY <1>2, <3>1
    <3>3. phase' = "read" BY <1>1, <1>4, <3>1, <3>2
    <3>4. fault' = "none" BY <1>1, <2>1, <2>4
    <3>5. InMem(pos * DblkSize)'
      <4>1. Holds(mem', rec, "read", e) BY <1>1, <2>1, <2>4
      <4>2. pos' * DblkSize = e BY <3>1 DEF e
      <4> QED BY <1>1, <1>3, <4>1, <4>2 DEF InMem
    <3>6. ReadInv' BY <1>1, <1>3, <1>6, <2>2, <3>1, <3>3, <3>5 DEF ReadInv, N
    <3>7. EndInv' BY <3>3, <3>4 DEF EndInv
    <3> QED BY <1>8, <1>10, <3>2, <3>6, <3>7
  <2> QED BY <2>3, <2>4
<1> QED BY <1>6, <1>11, <1>12

-----------------------------------------------------------------------------
(* The invariant.                                                          *)

\* A new buffer.
LEMMA BlankIs == \A n \in Nat : Blank(n) \in [1 .. n -> Units]
<1> TAKE n \in Nat
<1>1. Unwritten \in Units BY DEF Unwritten, Units
<1> QED BY <1>1 DEF Blank

\* A page has at least one dblk left.
LEMMA RoomIs ==
    ASSUME NEW p \in PageSizes, NEW n \in 1 .. p
    PROVE  [left |-> n, page |-> p] \in [left : Nat \ {0}, page : Nat \ {0}]
<1>1. p \in Nat /\ p # 0 BY RecordsAssumption
<1>2. n \in Nat /\ n # 0 BY <1>1
<1> QED BY <1>1, <1>2

\* A reader starts with nothing of the record in memory.
LEMMA OpenStep ==
    ASSUME TypeInv, WriteInv, EndInv, Open
    PROVE  (TypeInv /\ WriteInv /\ ReadInv /\ EndInv)'
<1>1. rec \in AllRecords BY DEF TypeInv
<1>2. /\ phase = "written" /\ rec' = rec /\ disk' = disk /\ fault' = fault /\ pos' = 0
      /\ phase' \in {"read", "recover"} /\ how' = phase' /\ SomeRoom
      /\ mem' = [buf |-> Blank(IF how' = "read" THEN rec.xid + DataSize(rec) ELSE rec.xid),
                 tail |-> Blank(Len(Tail1(rec)))]
  <2>1. CASE StartRead("read", rec.xid + DataSize(rec)) BY <2>1 DEF StartRead
  <2>2. CASE StartRead("recover", rec.xid) BY <2>2 DEF StartRead
  <2> QED BY <2>1, <2>2 DEF Open
<1>3. room' \in [left : Nat \ {0}, page : Nat \ {0}]
  <2>1. PICK p \in PageSizes : \E n \in 1 .. p : room' = [left |-> n, page |-> p] BY <1>2 DEF SomeRoom
  <2>2. PICK n \in 1 .. p : room' = [left |-> n, page |-> p] BY <2>1
  <2> QED BY <2>2, RoomIs
<1>4. TypeInv' BY <1>2, <1>3 DEF TypeInv
<1>5. WriteInv'
  <2>1. OnDisk(RecSize(rec)) BY <1>2 DEF WriteInv
  <2>2. OnDisk(RecSize(rec))' BY <1>2, <2>1 DEF OnDisk
  <2> QED BY <1>2, <2>2 DEF WriteInv
<1>6. EndInv' BY <1>2 DEF EndInv
<1>7. /\ mem' = [buf |-> mem'.buf, tail |-> mem'.tail]
      /\ mem'.buf \in [1 .. Len(Kept(rec, how')) -> Units]
      /\ mem'.tail \in [1 .. T(rec) -> Units]
  <2>1. /\ Len(Tail1(rec)) = T(rec) /\ T(rec) \in Nat /\ rec.xid \in Nat /\ DataSize(rec) \in Nat
        /\ Len(Xid(rec)) = rec.xid /\ Len(Body(rec)) = rec.xid + DataSize(rec)
    BY <1>1, Sizes, PartsAre DEF B
  <2> DEFINE s == IF how' = "read" THEN rec.xid + DataSize(rec) ELSE rec.xid
  <2>2. s \in Nat /\ s = Len(Kept(rec, how')) BY <2>1 DEF Kept
  <2> HIDE DEF s
  <2>3. Blank(s) \in [1 .. s -> Units] /\ Blank(T(rec)) \in [1 .. T(rec) -> Units] BY <2>1, <2>2, BlankIs
  <2>4. mem' = [buf |-> Blank(s), tail |-> Blank(T(rec))] BY <1>2, <2>1 DEF s
  <2> QED BY <2>2, <2>3, <2>4
<1>8. 0 < RecDblks(rec) /\ 0 * DblkSize = 0
  <2>1. DblkSize \in Nat BY <1>1, Sizes
  <2> QED BY <1>1, <2>1, PagesAre
<1>9. InMem(pos * DblkSize)'
  <2>1. H(rec) \in Nat /\ H(rec) > 0 /\ B(rec) \in Nat BY <1>1, Sizes
  <2>2. \A i \in Nat : ~(H(rec) + i <= 0) /\ ~(H(rec) + B(rec) + i <= 0) BY <2>1
  <2>3. Len(Kept(rec, how')) \in Nat /\ T(rec) \in Nat BY <1>1, KeptIs, Sizes
  <2>4. Holds(mem', rec, how', 0) BY <2>2, <2>3 DEF Holds
  <2> QED BY <1>2, <1>8, <2>4 DEF InMem
<1>10. ReadInv' BY <1>2, <1>7, <1>8, <1>9 DEF ReadInv
<1> QED BY <1>4, <1>5, <1>6, <1>10

\* Nothing is written of the record yet.
LEMMA RecInit == Init => RecInv
<1> SUFFICES ASSUME Init PROVE TypeInv /\ WriteInv /\ ReadInv /\ EndInv BY DEF RecInv
<1>1. rec \in AllRecords /\ phase = "write" /\ pos = 0 /\ disk = Space(rec) /\ fault = "none"
  BY DEF Init, AllRecords
<1>2. RecDblks(rec) \in Nat /\ 0 < RecDblks(rec) /\ RecDblks(rec) * DblkSize \in Nat /\ 0 * DblkSize = 0
  <2>1. DblkSize \in Nat BY <1>1, Sizes
  <2>2. RecDblks(rec) \in Nat /\ 0 < RecDblks(rec) BY <1>1, PagesAre
  <2> QED BY <1>1, <2>1, <2>2, PagesAre
<1>3. disk \in [1 .. RecDblks(rec) * DblkSize -> Units] BY <1>1, <1>2, BlankIs DEF Space
<1>4. room \in [left : Nat \ {0}, page : Nat \ {0}]
  <2>1. PICK p \in PageSizes : \E n \in 1 .. p : room = [left |-> n, page |-> p] BY DEF Init
  <2>2. PICK n \in 1 .. p : room = [left |-> n, page |-> p] BY <2>1
  <2> QED BY <2>2, RoomIs
<1>5. TypeInv BY <1>1, <1>3, <1>4 DEF TypeInv
<1>6. OnDisk(0) BY DEF OnDisk
<1>7. WriteInv BY <1>1, <1>2, <1>6 DEF WriteInv
<1>8. ReadInv BY <1>1 DEF ReadInv
<1>9. EndInv BY <1>1 DEF EndInv
<1> QED BY <1>5, <1>7, <1>8, <1>9

\* One step per action.
LEMMA RecStep == RecInv /\ [Next]_vars => RecInv'
<1> SUFFICES ASSUME RecInv, [Next]_vars, Uncut(rec)' PROVE (TypeInv /\ WriteInv /\ ReadInv /\ EndInv)'
  BY DEF RecInv
<1>1. rec' = rec BY DEF Next, Write, Open, StartRead, Read, Recover, vars
<1>2. Uncut(rec) BY <1>1
<1>3. TypeInv /\ WriteInv /\ ReadInv /\ EndInv BY <1>2 DEF RecInv
<1>4. CASE Write BY <1>2, <1>3, <1>4, WriteStep
<1>5. CASE Open BY <1>3, <1>5, OpenStep
<1>6. CASE Read BY <1>2, <1>3, <1>6, ReadStep
<1>7. CASE Recover BY <1>2, <1>3, <1>7, RecoverStep
<1>8. CASE UNCHANGED vars
  BY <1>3, <1>8 DEF vars, TypeInv, WriteInv, ReadInv, EndInv, OnDisk, InMem
<1> QED BY <1>4, <1>5, <1>6, <1>7, <1>8 DEF Next

\* Whatever the sizes of headers, tail and dblk, of record, pages and files, and
\* wherever these cut it, what is written and read of a record is as long as the offsets
\* say, and what they say is behind is on disk or in memory (all but the cut records of
\* external messages).
THEOREM RecAlways == Spec => []RecInv
<1>1. Init => RecInv BY RecInit
<1>2. RecInv /\ [Next]_vars => RecInv' BY RecStep
<1> QED BY <1>1, <1>2, PTL DEF Spec

\* The records that are in the model if those of external messages take one dblk.
LEMMA UncutAlways == ExtDblks <= 1 => (Spec => []Uncut(rec))
<1> SUFFICES ASSUME ExtDblks <= 1 PROVE Spec => []Uncut(rec) OBVIOUS
<1>1. Init => Uncut(rec)
  <2> SUFFICES ASSUME Init PROVE Uncut(rec) OBVIOUS
  <2>1. rec \in AllRecords BY DEF Init, AllRecords
  <2> SUFFICES ASSUME rec.ext PROVE RecDblks(rec) <= 1 BY DEF Uncut
  <2>2. rec \in EnqRecord
    <3>1. rec.kind = "enq" BY <2>1, Sizes
    <3>2. ~(rec \in DeqRecord) /\ ~(rec \in TxnRecord) BY <3>1 DEF DeqRecord, TxnRecord, Rec
    <3> QED BY <2>1, <3>2 DEF AllRecords
  <2>3. RecDblks(rec) <= ExtDblks BY <2>2 DEF EnqRecord
  <2>4. RecDblks(rec) \in Nat /\ ExtDblks \in Nat BY <2>1, PagesAre, RecordsAssumption
  <2> QED BY <2>3, <2>4
<1>2. Uncut(rec) /\ [Next]_vars => Uncut(rec)'
  <2> SUFFICES ASSUME Uncut(rec), [Next]_vars PROVE Uncut(rec)' OBVIOUS
  <2>1. rec' = rec BY DEF Next, Write, Open, StartRead, Read, Recover, vars
  <2> QED BY <2>1
<1> QED BY <1>1, <1>2, PTL DEF Spec

\* The reader gets the xid and the data that were written, recovery the xid, and both
\* find the tail in its place.
THEOREM RoundTripAlways == ExtDblks <= 1 => (Spec => []RoundTrip)
<1> SUFFICES ASSUME ExtDblks <= 1 PROVE Spec => []RoundTrip OBVIOUS
<1>1. RecInv /\ Uncut(rec) => RoundTrip
  <2> SUFFICES ASSUME RecInv, Uncut(rec) PROVE RoundTrip OBVIOUS
  <2>1. TypeInv /\ ReadInv /\ EndInv BY DEF RecInv
  <2>2. fault # "badtail" BY <2>1 DEF EndInv
  <2>3. ASSUME phase = "done" PROVE mem.buf = Xid(rec) \o IF how = "read" THEN Data(rec) ELSE <<>>
    <3>1. mem.buf = Kept(rec, how) BY <2>1, <2>3 DEF ReadInv
    <3>2. Xid(rec) \in Seq(Units) BY <2>1, PartsAre DEF TypeInv
    <3>3. Xid(rec) \o <<>> = Xid(rec) BY <3>2, ConcatEmptySeq
    <3> QED BY <3>1, <3>3 DEF Kept, Body
  <2> QED BY <2>2, <2>3 DEF RoundTrip
<1>2. Spec => []Uncut(rec) BY UncutAlways
<1> QED BY <1>1, <1>2, RecAlways, PTL

\* No copy leaves the page, the buffer or the tail, and writer and reader end on the dblk
\* where the next record begins.
THEOREM InBoundsAlways == ExtDblks <= 1 => (Spec => []InBounds)
<1> SUFFICES ASSUME ExtDblks <= 1 PROVE Spec => []InBounds OBVIOUS
<1>1. RecInv /\ Uncut(rec) => InBounds BY DEF RecInv, EndInv, InBounds
<1>2. Spec => []Uncut(rec) BY UncutAlways
<1> QED BY <1>1, <1>2, RecAlways, PTL

=============================================================================
