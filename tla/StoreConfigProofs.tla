------------------------- MODULE StoreConfigProofs -------------------------
(***************************************************************************)
(* For any number of threads, names, keys, crashes and errors: module      *)
(* StoreConfig never puts a binding between the wrong objects, never has a  *)
(* queue's record without its journal, and gives back after a restart      *)
(* what it has answered for.  The inductive invariant has four parts: IdInv *)
(* (ids and what they mean), HeldInv (who holds a queue's record),          *)
(* JournalInv (which files exist), KeptInv (what must come back).          *)
(***************************************************************************)
EXTENDS StoreConfig, FiniteSetTheorems, WellFoundedInduction, TLAPS

\* What the variables hold: the records of the tables, the bindings, the broker's
\* objects, the files of a journal directory, and the calls the threads are in, each
\* with the steps it has left.
Record == [id : Nat, name : Names, inc : Nat]
BindingRecord == [x : Nat, q : Nat, key : Keys, xinc : Nat, qinc : Nat]
BrokerObject == [name : Names, id : Nat, inc : Nat, njf : Nat, size : Nat]
JournalFile == [f : Nat, inc : Nat, geo : Geometry]
Creates == [op : {"create"}, name : Names, id : Nat, inc : Nat, geo : Geometry,
            todo : {<<"clear", "files", "put">>, <<"files", "put">>, <<"put">>}]
Destroys == [op : {"destroy"}, name : Names, id : Nat, inc : Nat,
             todo : {<<"record", "bindings", "unlink">>, <<"bindings", "unlink">>, <<"unlink">>,
                     <<"record", "bindings">>, <<"bindings">>, <<"record">>}]
Binds == [op : {"bind"}, b : BindingRecord, todo : {<<"bind">>}]
         \cup [op : {"unbind"}, b : BindingRecord, todo : {<<"unbind">>}]
IsBindOp(c) == c.op \in {"bind", "unbind"}

\* The steps a call can have left depend on the kind of object it is about.
StepsOK(c) ==
  /\ c.op = "create" /\ c.name \notin QNames => c.todo = <<"put">>
  /\ c.op = "destroy" /\ c.name \notin QNames =>
       c.todo \in {<<"record", "bindings">>, <<"bindings">>, <<"record">>}
  /\ c.op = "destroy" /\ c.name \in QNames =>
       c.todo \in {<<"record", "bindings", "unlink">>, <<"bindings", "unlink">>, <<"unlink">>}
  /\ c.op = "destroy" /\ c.name \notin QNames \cup XNames => c.todo = <<"record">>

CallsOK ==
  /\ call \in [Thread -> {Idle} \cup Creates \cup Destroys \cup Binds]
  /\ \A t \in Thread : StepsOK(call[t])
  /\ kept \in [obj : SUBSET BrokerObject, bound : SUBSET BindingRecord]

GeomOK == /\ geom.njf \in MinFiles .. MaxFiles /\ geom.size \in 1 .. MaxFileSize
          /\ geom.ae \in BOOLEAN /\ geom.aemax \in Nat
DirOK == /\ dir \in [QNames -> [made : BOOLEAN, files : SUBSET JournalFile]]
         /\ \A n \in QNames : IsFiniteSet(dir[n].files)
Types ==
  /\ CallsOK /\ GeomOK
  /\ db \in [Tables -> SUBSET Record]
  /\ \A k \in Tables : \A r \in db[k] : Table(r.name) = k
  /\ seq \in [Tables -> Nat]
  /\ DirOK
  /\ bindingDb \in SUBSET BindingRecord /\ bound \in SUBSET BindingRecord
  /\ obj \in SUBSET BrokerObject
  /\ incs \in Nat

\* A broker that is down or was refused holds nothing and is in no call.
Quiet == life # "up" => /\ obj = {} /\ bound = {}
                        /\ \A t \in Thread : call[t] = Idle

\* Every object made carries a number of its own (inc): the one of a create that
\* has not ended is nobody else's, two objects of the broker differ in it, and so do
\* two records.
IncsUsed ==
  /\ \A o \in obj : o.inc <= incs
  /\ \A k \in Tables : \A r \in db[k] : r.inc <= incs
  /\ \A t \in Thread : /\ IsObjectOp(call[t]) => call[t].inc <= incs
                       /\ IsBindOp(call[t]) => call[t].b.xinc <= incs /\ call[t].b.qinc <= incs
Fresh(t) ==
  call[t].op = "create" =>
    /\ \A o \in obj : o.inc # call[t].inc
    /\ \A k \in Tables : \A r \in db[k] : r.inc # call[t].inc
    /\ \A u \in Thread :
         /\ u # t /\ call[u].op = "create" => call[u].inc # call[t].inc
         /\ IsBindOp(call[u]) => call[u].b.xinc # call[t].inc /\ call[u].b.qinc # call[t].inc
OneInc == \A o, p \in obj : o.inc = p.inc => o = p
OneRecord ==
  /\ \A k, l \in Tables : \A r \in db[k] : \A s \in db[l] : r.inc = s.inc => r = s
  /\ \A k \in Tables : \A r, s \in db[k] : r.id = s.id => r = s
IncInv == IncsUsed /\ (\A t \in Thread : Fresh(t)) /\ OneInc /\ OneRecord

\* Persistence ids in use lie below the sequence of their table, so the id
\* PutRecord draws next is new.
IdsUsed ==
  /\ \A k \in Tables : \A r \in db[k] : r.id < seq[k]
  /\ \A o \in obj : o.id < seq[Table(o.name)]
  /\ \A b \in bindingDb : b.x < seq["exchange"] /\ b.q < seq["queue"]
  /\ \A t \in Thread : IsBindOp(call[t]) =>
       call[t].b.x < seq["exchange"] /\ call[t].b.q < seq["queue"]

\* A binding names an exchange and a queue by id.  Whatever record or object has
\* that id now is the one the binding was made for: this is what keeps an id that is
\* used again after a restart from meaning somebody else.
MatchesRecords(b) ==
  /\ \A r \in db["exchange"] : r.id = b.x => r.inc = b.xinc
  /\ \A r \in db["queue"] : r.id = b.q => r.inc = b.qinc
MatchesObjects(b) ==
  /\ \A o \in obj : o.inc = b.xinc => o.id = b.x /\ o.name \in XNames
  /\ \A o \in obj : o.inc = b.qinc => o.id = b.q /\ o.name \in QNames
BindingsMatch ==
  /\ \A o \in obj : \A r \in db[Table(o.name)] : r.id = o.id => r.inc = o.inc
  /\ \A b \in bindingDb : MatchesRecords(b)
  /\ \A t \in Thread : IsBindOp(call[t]) => MatchesRecords(call[t].b) /\ MatchesObjects(call[t].b)

\* The inductive invariant of NoStrayBinding.
IdInv == Types /\ Quiet /\ IncInv /\ IdsUsed /\ BindingsMatch /\ NoStrayBinding

\* Which call a thread is in, by the step it is about to take.
LEMMA Calls ==
  ASSUME CallsOK, NEW t \in Thread
  PROVE  /\ Doing(t, "clear") => /\ call[t] \in Creates /\ call[t].name \in QNames
                                 /\ call[t].todo = <<"clear", "files", "put">>
         /\ Doing(t, "files") => /\ call[t] \in Creates /\ call[t].name \in QNames
                                 /\ call[t].todo = <<"files", "put">>
         /\ Doing(t, "put") => call[t] \in Creates /\ call[t].todo = <<"put">>
         /\ Doing(t, "record") => /\ call[t] \in Destroys
                                  /\ call[t].todo \in {<<"record", "bindings", "unlink">>,
                                                       <<"record", "bindings">>, <<"record">>}
         /\ Doing(t, "bindings") => /\ call[t] \in Destroys
                                    /\ call[t].todo \in {<<"bindings", "unlink">>, <<"bindings">>}
         /\ Doing(t, "unlink") => /\ call[t] \in Destroys /\ call[t].name \in QNames
                                  /\ call[t].todo = <<"unlink">>
         /\ Doing(t, "bind") => call[t] \in Binds /\ call[t].op = "bind"
         /\ Doing(t, "unbind") => call[t] \in Binds /\ call[t].op = "unbind"
  BY DEF CallsOK, Doing, Creates, Destroys, Binds, Idle, StepsOK

\* A call with more steps left goes on with the next and changes nothing else.
LEMMA GoesOn ==
  ASSUME CallsOK, NEW t \in Thread, NEW c, Advance(t, c), Len(c.todo) # 1
  PROVE  /\ call' = [call EXCEPT ![t] = [c EXCEPT !.todo = Tail(c.todo)]]
         /\ obj' = obj /\ kept' = kept
  BY DEF Advance, CallsOK

\* A call with no step left returns; a create adds the object it made.
LEMMA Returns ==
  ASSUME CallsOK, NEW t \in Thread, NEW c, Advance(t, c), Len(c.todo) = 1
  PROVE  /\ call' = [call EXCEPT ![t] = Idle]
         /\ c.op = "create" => /\ obj' = obj \cup {ObjectOf(c)}
                               /\ kept' = [kept EXCEPT !.obj = @ \cup {ObjectOf(c)}]
         /\ c.op # "create" => obj' = obj /\ kept' = kept
  BY DEF Advance, CallsOK

\* jdir::clear_dir: one file moved away, or the directory made and the call on.
LEMMA ClearDirDoes ==
  ASSUME CallsOK, NEW t \in Thread, ClearDir(t)
  PROVE  /\ Doing(t, "clear") /\ obj' = obj /\ kept' = kept
         /\ UNCHANGED <<db, bindingDb, life, geom, seq, bound, journalList, incs>>
         /\ \/ /\ \E f \in dir[call[t].name].files :
                    dir' = [dir EXCEPT ![call[t].name].files = @ \ {f}]
               /\ call' = call
            \/ /\ dir[call[t].name].files = {}
               /\ dir' = [dir EXCEPT ![call[t].name].made = TRUE]
               /\ call' = [call EXCEPT ![t] = [call[t] EXCEPT !.todo = <<"files", "put">>]]
<1>1. Doing(t, "clear") /\ call[t].todo = <<"clear", "files", "put">> BY Calls DEF ClearDir
<1>2. CASE dir[call[t].name].files # {} BY <1>1, <1>2 DEF ClearDir
<1>3. CASE dir[call[t].name].files = {}
  <2>1. Advance(t, call[t]) BY <1>3 DEF ClearDir
  <2>2. Len(call[t].todo) # 1 /\ Tail(call[t].todo) = <<"files", "put">> BY <1>1
  <2>3. /\ call' = [call EXCEPT ![t] = [call[t] EXCEPT !.todo = <<"files", "put">>]]
        /\ obj' = obj /\ kept' = kept
    BY <2>1, <2>2, GoesOn
  <2> QED BY <1>1, <1>3, <2>3 DEF ClearDir
<1> QED BY <1>2, <1>3

\* lpmgr::initialize: a refusal, or the next data file.
LEMMA CreateFileDoes ==
  ASSUME CallsOK, NEW t \in Thread, CreateFile(t)
  PROVE  /\ Doing(t, "files") /\ obj' = obj /\ kept' = kept
         /\ UNCHANGED <<db, bindingDb, life, geom, seq, bound, incs>>
         /\ \/ /\ dir' = dir /\ call' = [call EXCEPT ![t] = Idle]
               /\ journalList' = journalList \ {call[t].name}
            \/ /\ FilesMade(call[t]) < call[t].geo.njf /\ ~NoRoom(call[t].geo)
               /\ WriteFile(call[t], FilesMade(call[t]))
               /\ call' = call /\ journalList' = journalList
<1>1. Doing(t, "files") /\ IsObjectOp(call[t]) BY Calls DEF CreateFile, Creates, IsObjectOp
<1> QED BY <1>1 DEF CreateFile, Throw

\* write_infofile: the info file, once all data files are there.
LEMMA WriteInfoDoes ==
  ASSUME CallsOK, NEW t \in Thread, WriteInfo(t)
  PROVE  /\ Doing(t, "files") /\ obj' = obj /\ kept' = kept
         /\ UNCHANGED <<db, bindingDb, life, geom, seq, bound, journalList, incs>>
         /\ FilesMade(call[t]) = call[t].geo.njf /\ ~NoRoom(call[t].geo)
         /\ WriteFile(call[t], InfoFile)
         /\ call' = [call EXCEPT ![t] = [call[t] EXCEPT !.todo = <<"put">>]]
<1>1. Doing(t, "files") /\ call[t].todo = <<"files", "put">> BY Calls DEF WriteInfo
<1>2. Advance(t, call[t]) BY DEF WriteInfo
<1>3. Len(call[t].todo) # 1 /\ Tail(call[t].todo) = <<"put">> BY <1>1
<1> QED BY <1>1, <1>2, <1>3, GoesOn DEF WriteInfo

\* The generic create(): a new id, and a record under it or an exception.
LEMMA PutRecordDoes ==
  ASSUME CallsOK, NEW t \in Thread, PutRecord(t)
  PROVE  LET k == Table(call[t].name)
             c == [call[t] EXCEPT !.id = seq[k]]
         IN  /\ Doing(t, "put") /\ NextId(k)
             /\ UNCHANGED <<bindingDb, dir, life, geom, bound, incs>>
             /\ call' = [call EXCEPT ![t] = Idle]
             /\ \/ /\ db' = db /\ obj' = obj /\ kept' = kept
                   /\ journalList' = journalList \ {call[t].name}
                \/ /\ \A r \in db[k] : r.id # seq[k]
                   /\ db' = [db EXCEPT ![k] = @ \cup {[id |-> seq[k], name |-> call[t].name, inc |-> call[t].inc]}]
                   /\ obj' = obj \cup {ObjectOf(c)}
                   /\ kept' = [kept EXCEPT !.obj = @ \cup {ObjectOf(c)}]
                   /\ journalList' = journalList
<1> DEFINE k == Table(call[t].name)
           c == [call[t] EXCEPT !.id = seq[k]]
<1>1. Doing(t, "put") /\ call[t] \in Creates /\ call[t].todo = <<"put">> BY Calls DEF PutRecord
<1>2. /\ c.id = seq[k] /\ c.name = call[t].name /\ c.inc = call[t].inc
      /\ c.op = "create" /\ c.todo = <<"put">> /\ IsObjectOp(call[t])
  BY <1>1 DEF Creates, IsObjectOp
<1>3. CASE \E r \in db[k] : r.id = c.id BY <1>1, <1>2, <1>3 DEF PutRecord, Throw
<1>4. CASE ~ \E r \in db[k] : r.id = c.id
  <2>1. Advance(t, c) BY <1>4 DEF PutRecord
  <2>2. Len(c.todo) = 1 BY <1>2
  <2>3. /\ call' = [call EXCEPT ![t] = Idle] /\ obj' = obj \cup {ObjectOf(c)}
        /\ kept' = [kept EXCEPT !.obj = @ \cup {ObjectOf(c)}]
    BY <1>2, <2>1, <2>2, Returns
  <2> QED BY <1>1, <1>2, <1>4, <2>3 DEF PutRecord
<1> QED BY <1>3, <1>4

\* A step of a destroy leaves the broker's objects alone.
LEMMA DestroyGoes ==
  ASSUME CallsOK, NEW t \in Thread, call[t] \in Destroys, Advance(t, call[t])
  PROVE  /\ obj' = obj /\ kept' = kept
         /\ IF Len(call[t].todo) = 1 THEN call' = [call EXCEPT ![t] = Idle]
            ELSE call' = [call EXCEPT ![t] = [call[t] EXCEPT !.todo = Tail(call[t].todo)]]
  BY GoesOn, Returns DEF Destroys

\* Every name belongs to one table.
LEMMA TableType == \A n : Table(n) \in Tables
  BY DEF Table, Tables

\* The largest file is at least the smallest.
LEMMA FileSize == MaxFileSize \in Nat /\ MaxFileSize >= 1
  BY DEF MaxFileSize

\* Whatever a declaration asks for and is not refused is a geometry: the file count
\* and size are clamped to their limits.
LEMMA GeometryType ==
  /\ Plain \in Geometry
  /\ GeomOK => \A a \in QueueArgs : QueueGeometry(a).size # Refused => QueueGeometry(a) \in Geometry
<1>1. Plain \in Geometry BY FilesAssumption, FileSize DEF Plain, Geometry
<1>2. \A p \in Nat : ChkNumFiles(p) \in MinFiles .. MaxFiles
  BY FilesAssumption DEF ChkNumFiles
<1>3. \A p \in Nat : \A s : ChkFileSize(p, s) \in 1 .. MaxFileSize \/ ChkFileSize(p, s) = Refused
  BY FileSize DEF ChkFileSize
<1>4. ASSUME GeomOK, NEW a \in QueueArgs, QueueGeometry(a).size # Refused
      PROVE  QueueGeometry(a) \in Geometry
  <2> DEFINE g == QueueGeometry(a)
  <2>1. /\ a.count = NoArg \/ a.count \in Nat
        /\ a.size = NoArg \/ a.size \in Nat
        /\ a.ae = NoArg \/ a.ae \in BOOLEAN
        /\ a.aemax = NoArg \/ a.aemax \in Nat
    BY ArgsAssumption, Zenon
  <2>2. /\ g.njf = IF a.count = NoArg THEN geom.njf ELSE ChkNumFiles(a.count)
        /\ g.size = IF a.size = NoArg THEN geom.size ELSE ChkFileSize(a.size, 2 * geom.page)
        /\ g.ae = IF a.ae = NoArg THEN geom.ae ELSE a.ae
        /\ g.aemax = IF a.aemax = NoArg THEN geom.aemax ELSE a.aemax
        /\ g = [njf |-> g.njf, size |-> g.size, ae |-> g.ae, aemax |-> g.aemax]
    BY DEF QueueGeometry
  <2>3. g.size # Refused BY <1>4
  <2> HIDE DEF g
  <2>4. g.njf \in MinFiles .. MaxFiles
    <3>1. CASE a.count = NoArg BY <1>4, <2>2, <3>1 DEF GeomOK
    <3>2. CASE a.count # NoArg BY <1>2, <2>1, <2>2, <3>2
    <3> QED BY <3>1, <3>2
  <2>5. g.size \in 1 .. MaxFileSize
    <3>1. CASE a.size = NoArg BY <1>4, <2>2, <3>1 DEF GeomOK
    <3>2. CASE a.size # NoArg BY <1>3, <2>1, <2>2, <2>3, <3>2
    <3> QED BY <3>1, <3>2
  <2>6. g.ae \in BOOLEAN
    <3>1. CASE a.ae = NoArg BY <1>4, <2>2, <3>1, Zenon DEF GeomOK
    <3>2. CASE a.ae # NoArg BY <2>1, <2>2, <3>2, Zenon
    <3> QED BY <3>1, <3>2
  <2>7. g.aemax \in Nat
    <3>1. CASE a.aemax = NoArg BY <1>4, <2>2, <3>1 DEF GeomOK
    <3>2. CASE a.aemax # NoArg BY <2>1, <2>2, <3>2
    <3> QED BY <3>1, <3>2
  <2>8. g \in Geometry BY <2>2, <2>4, <2>5, <2>6, <2>7 DEF Geometry
  <2> QED BY <2>8 DEF g
<1> QED BY <1>1, <1>4

GeomTyped(g) == /\ g.njf \in MinFiles .. MaxFiles /\ g.size \in 1 .. MaxFileSize
                /\ g.ae \in BOOLEAN /\ g.aemax \in Nat

\* Whatever a start asks for, the geometry of the store is within the limits.
LEMMA StoreGeometryIs == \A opt \in Options : GeomTyped(StoreGeometry(opt))
<1> SUFFICES ASSUME NEW opt \in Options PROVE GeomTyped(StoreGeometry(opt)) OBVIOUS
<1>1. \A p \in Nat : ChkNumFiles(p) \in MinFiles .. MaxFiles
  BY FilesAssumption DEF ChkNumFiles
<1>2. ASSUME NEW p \in Nat PROVE ChkFileSize(p, 0) \in 1 .. MaxFileSize
  <2> DEFINE size == IF p < 1 THEN 1 ELSE IF p > MaxFileSize THEN MaxFileSize ELSE p
  <2>1. size \in 1 .. MaxFileSize BY FileSize
  <2>2. ChkFileSize(p, 0) = IF 0 > size * 128 THEN Refused ELSE size
    BY DEF ChkFileSize, SblksPerPage
  <2> HIDE DEF size
  <2> QED BY <2>1, <2>2, FileSize
<1> DEFINE n == ChkNumFiles(opt.count)
           e == AutoExpand(opt, n)
           size == ChkFileSize(opt.size, 0)
           g == StoreGeometry(opt)
<1>3. e.ae \in BOOLEAN /\ e.aemax \in Nat
  BY OptionsAssumption, FilesAssumption DEF AutoExpand
<1>4. g.njf = n /\ g.size = size /\ g.ae = e.ae /\ g.aemax = e.aemax
  BY DEF StoreGeometry
<1>5. opt.count \in Nat /\ opt.size \in Nat BY OptionsAssumption
<1>6. n \in MinFiles .. MaxFiles /\ size \in 1 .. MaxFileSize BY <1>1, <1>2, <1>5
<1> HIDE DEF n, e, size, g
<1>7. GeomTyped(g) BY <1>3, <1>4, <1>6 DEF GeomTyped
<1> QED BY <1>7 DEF g

\* The same of the state after a start.
LEMMA StoreGeometryType == ASSUME NEW opt \in Options, geom' = StoreGeometry(opt) PROVE GeomOK'
<1>1. GeomTyped(geom') BY StoreGeometryIs, Zenon
<1> QED BY <1>1 DEF GeomTyped, GeomOK

\* What is left of a call.
Later(c, d) ==
  \/ d = Idle
  \/ /\ d.op = c.op
     /\ IsObjectOp(c) => d.name = c.name /\ d.inc = c.inc /\ d.id = c.id
     /\ IsBindOp(c) => d.b = c.b

\* A call that has taken a step is still a call of its kind.
LEMMA TodoType ==
  ASSUME NEW c
  PROVE  /\ c \in Creates => \A s \in {<<"files", "put">>, <<"put">>} : [c EXCEPT !.todo = s] \in Creates
         /\ c \in Destroys => \A s \in {<<"bindings", "unlink">>, <<"unlink">>, <<"bindings">>} :
                                 [c EXCEPT !.todo = s] \in Destroys
  BY DEF Creates, Destroys

\* What is left of a destroy after one of its steps.
LEMMA DestroyType ==
  ASSUME CallsOK, NEW t \in Thread, Advance(t, call[t]),
         Doing(t, "record") \/ Doing(t, "bindings") \/ Doing(t, "unlink")
  PROVE  /\ call[t] \in Destroys /\ obj' = obj /\ kept' = kept
         /\ \/ call' = [call EXCEPT ![t] = Idle]
            \/ \E s \in {<<"bindings", "unlink">>, <<"unlink">>, <<"bindings">>} :
                 /\ call' = [call EXCEPT ![t] = [call[t] EXCEPT !.todo = s]]
                 /\ StepsOK([call[t] EXCEPT !.todo = s])
<1>1. call[t] \in Destroys BY Calls
<1>2. call[t].todo \in {<<"record", "bindings", "unlink">>, <<"record", "bindings">>, <<"record">>,
                        <<"bindings", "unlink">>, <<"bindings">>, <<"unlink">>}
  BY Calls
<1>3. obj' = obj /\ kept' = kept BY <1>1, DestroyGoes
<1>4. CASE Len(call[t].todo) = 1 BY <1>1, <1>3, <1>4, DestroyGoes
<1>5. CASE Len(call[t].todo) # 1
  <2> DEFINE s == Tail(call[t].todo)
  <2>1. call' = [call EXCEPT ![t] = [call[t] EXCEPT !.todo = s]] BY <1>1, <1>5, DestroyGoes
  <2>2. \/ call[t].todo = <<"record", "bindings", "unlink">> /\ s = <<"bindings", "unlink">>
        \/ call[t].todo = <<"record", "bindings">> /\ s = <<"bindings">>
        \/ call[t].todo = <<"bindings", "unlink">> /\ s = <<"unlink">>
    <3>1. CASE call[t].todo = <<"record", "bindings", "unlink">> BY <3>1
    <3>2. CASE call[t].todo = <<"record", "bindings">> BY <3>2
    <3>3. CASE call[t].todo = <<"bindings", "unlink">> BY <3>3
    <3>4. CASE call[t].todo \in {<<"record">>, <<"bindings">>, <<"unlink">>} BY <1>5, <3>4
    <3> HIDE DEF s
    <3> QED BY <1>2, <3>1, <3>2, <3>3, <3>4
  <2> HIDE DEF s
  <2>3. StepsOK(call[t]) BY DEF CallsOK
  <2>4. StepsOK([call[t] EXCEPT !.todo = s])
    BY <1>1, <2>2, <2>3 DEF StepsOK, Destroys
  <2> QED BY <1>1, <1>3, <2>1, <2>2, <2>4
<1> QED BY <1>4, <1>5

\* A thread's call replaced, or ended, leaves the calls well-formed.
LEMMA CallSet ==
  ASSUME CallsOK, NEW t \in Thread, NEW d \in {Idle} \cup Creates \cup Destroys \cup Binds, StepsOK(d),
         call' = [call EXCEPT ![t] = d], kept' \in [obj : SUBSET BrokerObject, bound : SUBSET BindingRecord]
  PROVE  CallsOK'
  BY DEF CallsOK

\* A thread's call replaced, or ended, leaves the calls well-formed.
LEMMA CallDone ==
  ASSUME CallsOK, NEW t \in Thread, call' = [call EXCEPT ![t] = Idle],
         kept' \in [obj : SUBSET BrokerObject, bound : SUBSET BindingRecord]
  PROVE  CallsOK'
<1>1. StepsOK(Idle) BY DEF StepsOK, Idle
<1> QED BY <1>1, CallSet

\* A create that has taken a step has the steps left that its kind has.
LEMMA MoreType ==
  ASSUME Types, NEW t \in Thread, call[t] \in Creates
  PROVE  /\ \A s \in {<<"files", "put">>, <<"put">>} :
              call[t].name \in QNames => StepsOK([call[t] EXCEPT !.todo = s])
         /\ call[t].geo \in Geometry /\ call[t].inc \in Nat /\ call[t].name \in Names
         /\ call[t].op = "create"
  BY DEF Types, CallsOK, StepsOK, Creates

\* Writing one file keeps the directories finite.
LEMMA FileOps ==
  ASSUME Types, NEW t \in Thread, call[t] \in Creates, call[t].name \in QNames
  PROVE  /\ FilesMade(call[t]) \in Nat
         /\ \A f \in Nat : WriteFile(call[t], f) => DirOK'
<1> DEFINE n == call[t].name
<1>1. FilesMade(call[t]) \in Nat
  <2> DEFINE S == {g \in dir[n].files : g.inc = call[t].inc}
  <2>1. S \in SUBSET dir[n].files /\ IsFiniteSet(dir[n].files) BY DEF Types, DirOK
  <2> HIDE DEF S
  <2>2. Cardinality(S) \in Nat BY <2>1, FS_Subset, FS_CardinalityType
  <2> QED BY <2>2 DEF FilesMade, S
<1>2. ASSUME NEW f \in Nat, WriteFile(call[t], f) PROVE DirOK'
  <2> DEFINE g == [f |-> f, inc |-> call[t].inc, geo |-> call[t].geo]
             R == {h \in dir[n].files : h.f # f}
             S == R \cup {g}
  <2>1. g \in JournalFile BY MoreType DEF JournalFile
  <2>2. dir' = [dir EXCEPT ![n].files = S] BY <1>2 DEF WriteFile
  <2>3. S \in SUBSET JournalFile BY <2>1 DEF Types, DirOK
  <2>4. R \in SUBSET dir[n].files /\ IsFiniteSet(dir[n].files) BY DEF Types, DirOK
  <2> HIDE DEF g, R
  <2>5. IsFiniteSet(S) BY <2>4, FS_Subset, FS_AddElement
  <2> HIDE DEF S
  <2> QED BY <2>2, <2>3, <2>5 DEF Types, DirOK
<1> QED BY <1>1, <1>2

\* The object a create makes.
LEMMA ObjectType ==
  ASSUME NEW c, c.name \in Names, c.id \in Nat, c.inc \in Nat, c.geo \in Geometry
  PROVE  ObjectOf(c) \in BrokerObject
  BY FilesAssumption, FileSize DEF ObjectOf, BrokerObject, Geometry

\* Types are kept by the start of a create.
LEMMA BeginCreateType ==
  ASSUME Types, NEW t \in Thread, NEW n \in Names, NEW geo \in Geometry, BeginCreate(t, n, geo)
  PROVE  Types'
<1> DEFINE d == [op |-> "create", name |-> n, id |-> 0, inc |-> incs + 1, geo |-> geo,
                 todo |-> CreateSteps(n)]
<1>1. d \in Creates /\ StepsOK(d) BY DEF Types, Creates, StepsOK, CreateSteps
<1>2. call' = [call EXCEPT ![t] = d] BY DEF BeginCreate
<1> HIDE DEF d
<1>3. CallsOK' BY <1>1, <1>2, CallSet DEF Types, BeginCreate, CallsOK
<1> QED BY <1>3 DEF Types, BeginCreate, disk, GeomOK, DirOK

\* Removing one file keeps the directories finite.
LEMMA RemovesFile ==
  ASSUME DirOK, NEW n \in QNames, NEW f, dir' = [dir EXCEPT ![n].files = @ \ {f}]
  PROVE  DirOK'
<1>1. IsFiniteSet(dir[n].files \ {f}) BY FS_RemoveElement DEF DirOK
<1> QED BY <1>1 DEF DirOK

\* Types are kept by the clearing of a directory.
LEMMA ClearDirType == ASSUME Types, NEW t \in Thread, ClearDir(t) PROVE Types'
<1> USE DEF Types
<1>1. call[t] \in Creates /\ call[t].name \in QNames BY Calls, ClearDirDoes
<1>2. CallsOK'
  <2>1. CASE call' = call BY <2>1, ClearDirDoes DEF CallsOK
  <2>2. CASE call' = [call EXCEPT ![t] = [call[t] EXCEPT !.todo = <<"files", "put">>]]
    BY <1>1, <2>2, ClearDirDoes, TodoType, MoreType, CallSet DEF CallsOK
  <2> QED BY <2>1, <2>2, ClearDirDoes
<1>3. DirOK'
  <2> DEFINE n == call[t].name
  <2>1. CASE \E f \in dir[n].files : dir' = [dir EXCEPT ![n].files = @ \ {f}]
    BY <1>1, <2>1, RemovesFile
  <2>2. CASE dir' = [dir EXCEPT ![n].made = TRUE] BY <1>1, <2>2 DEF DirOK
  <2> QED BY <2>1, <2>2, ClearDirDoes
<1> QED BY <1>2, <1>3, ClearDirDoes DEF GeomOK

\* Types are kept by making a data file.
LEMMA CreateFileType == ASSUME Types, NEW t \in Thread, CreateFile(t) PROVE Types'
<1> USE DEF Types
<1>1. call[t] \in Creates /\ call[t].name \in QNames BY Calls, CreateFileDoes
<1>2. CASE dir' = dir /\ call' = [call EXCEPT ![t] = Idle]
  BY <1>2, CallDone, CreateFileDoes DEF GeomOK, CallsOK, DirOK
<1>3. CASE WriteFile(call[t], FilesMade(call[t])) /\ call' = call
  BY <1>1, <1>3, FileOps, CreateFileDoes DEF GeomOK, CallsOK
<1> QED BY <1>2, <1>3, CreateFileDoes

\* Types are kept by writing the info file.
LEMMA WriteInfoType == ASSUME Types, NEW t \in Thread, WriteInfo(t) PROVE Types'
<1> USE DEF Types
<1>1. call[t] \in Creates /\ call[t].name \in QNames BY Calls, WriteInfoDoes
<1>2. CallsOK'
  BY <1>1, WriteInfoDoes, TodoType, MoreType, CallSet DEF CallsOK
<1>3. DirOK' BY <1>1, FilesAssumption, FileOps, WriteInfoDoes DEF InfoFile
<1> QED BY <1>2, <1>3, WriteInfoDoes DEF GeomOK

\* Types are kept by putting the record.
LEMMA PutRecordType == ASSUME Types, NEW t \in Thread, PutRecord(t) PROVE Types'
<1> USE DEF Types
<1> DEFINE k == Table(call[t].name)
           c == [call[t] EXCEPT !.id = seq[k]]
           o == ObjectOf(c)
           r == [id |-> seq[k], name |-> call[t].name, inc |-> call[t].inc]
<1>1. /\ Doing(t, "put") /\ NextId(k)
      /\ UNCHANGED <<bindingDb, dir, life, geom, bound, incs>>
      /\ call' = [call EXCEPT ![t] = Idle]
      /\ \/ db' = db /\ obj' = obj /\ kept' = kept
         \/ /\ db' = [db EXCEPT ![k] = @ \cup {r}]
            /\ obj' = obj \cup {o}
            /\ kept' = [kept EXCEPT !.obj = @ \cup {o}]
  BY PutRecordDoes
<1>2. call[t] \in Creates /\ k \in Tables BY <1>1, Calls, TableType
<1>3. /\ c.name \in Names /\ c.id \in Nat /\ c.inc \in Nat /\ c.geo \in Geometry
  BY <1>2 DEF Creates
<1>4. o \in BrokerObject /\ r \in Record
  <2>1. r \in Record BY <1>2 DEF Record, Creates
  <2> HIDE DEF c
  <2> QED BY <1>3, <2>1, ObjectType
<1>5. Table(r.name) = k OBVIOUS
<1> HIDE DEF k, c, o, r
<1>6. kept' \in [obj : SUBSET BrokerObject, bound : SUBSET BindingRecord] BY <1>1, <1>4 DEF CallsOK
<1>7. CallsOK' BY <1>1, <1>6, CallDone
<1>8. seq' \in [Tables -> Nat] BY <1>1, <1>2 DEF NextId
<1>9. db' \in [Tables -> SUBSET Record] BY <1>1, <1>2, <1>4
<1>10. \A l \in Tables : \A s \in db'[l] : Table(s.name) = l BY <1>1, <1>2, <1>5
<1> QED BY <1>1, <1>4, <1>7, <1>8, <1>9, <1>10 DEF GeomOK, DirOK

\* Types are kept by the start of a destroy.
LEMMA BeginDestroyType == ASSUME Types, NEW t \in Thread, NEW o \in obj, BeginDestroy(t, o) PROVE Types'
<1> USE DEF Types
<1> DEFINE d == [op |-> "destroy", name |-> o.name, id |-> o.id, inc |-> o.inc, todo |-> DestroySteps(o.name)]
<1>1. d \in Destroys /\ StepsOK(d)
  <2>1. o.name \in Names /\ o.id \in Nat /\ o.inc \in Nat BY DEF BrokerObject
  <2>2. CASE o.name \in QNames
    <3>1. DestroySteps(o.name) = <<"record", "bindings", "unlink">> BY <2>2, NamesAssumption DEF DestroySteps
    <3>2. d \in Destroys BY <2>1, <3>1 DEF Destroys
    <3>3. StepsOK(d) BY <2>2, <3>1, Zenon DEF StepsOK
    <3> QED BY <3>2, <3>3
  <2>3. CASE o.name \in XNames /\ o.name \notin QNames BY <2>1, <2>3 DEF Destroys, StepsOK, DestroySteps
  <2>4. CASE o.name \notin XNames /\ o.name \notin QNames BY <2>1, <2>4 DEF Destroys, StepsOK, DestroySteps
  <2> QED BY <2>2, <2>3, <2>4
<1>2. call' = [call EXCEPT ![t] = d] BY DEF BeginDestroy
<1> HIDE DEF d
<1>3. /\ kept' \in [obj : SUBSET BrokerObject, bound : SUBSET BindingRecord]
      /\ bound' \in SUBSET BindingRecord
  BY DEF BeginDestroy, CallsOK
<1>4. CallsOK' BY <1>1, <1>2, <1>3, CallSet
<1> QED BY <1>3, <1>4 DEF BeginDestroy, disk, GeomOK, DirOK

\* Types are kept by any step of a destroy.
LEMMA DestroyCallType ==
  ASSUME Types, NEW t \in Thread, Advance(t, call[t]),
         Doing(t, "record") \/ Doing(t, "bindings") \/ Doing(t, "unlink")
  PROVE  CallsOK' /\ obj' = obj /\ kept' = kept
<1> USE DEF Types
<1>1. kept' = kept /\ kept \in [obj : SUBSET BrokerObject, bound : SUBSET BindingRecord]
  BY DestroyType DEF CallsOK
<1>2. CASE call' = [call EXCEPT ![t] = Idle] BY <1>1, <1>2, CallDone, DestroyType
<1>3. CASE \E s \in {<<"bindings", "unlink">>, <<"unlink">>, <<"bindings">>} :
             /\ call' = [call EXCEPT ![t] = [call[t] EXCEPT !.todo = s]]
             /\ StepsOK([call[t] EXCEPT !.todo = s])
  BY <1>1, <1>3, TodoType, CallSet, DestroyType
<1> QED BY <1>2, <1>3, DestroyType

\* Types are kept by deleting the record.
LEMMA DeleteRecordType == ASSUME Types, NEW t \in Thread, DeleteRecord(t) PROVE Types'
<1> USE DEF Types
<1>1. CallsOK' /\ obj' = obj BY DestroyCallType DEF DeleteRecord
<1>2. db' \in [Tables -> SUBSET Record] /\ \A l \in Tables : db'[l] \subseteq db[l]
  BY DEF DeleteRecord
<1> QED BY <1>1, <1>2 DEF DeleteRecord, GeomOK, DirOK

\* Types are kept by deleting the bindings.
LEMMA DeleteBindingsType == ASSUME Types, NEW t \in Thread, DeleteBindings(t) PROVE Types'
<1> USE DEF Types
<1>1. CallsOK' /\ obj' = obj BY DestroyCallType DEF DeleteBindings
<1> QED BY <1>1 DEF DeleteBindings, GeomOK, DirOK

\* Types are kept by deleting the directory.
LEMMA DeleteDirType == ASSUME Types, NEW t \in Thread, DeleteDir(t) PROVE Types'
<1> USE DEF Types
<1>1. Doing(t, "unlink") /\ call[t].name \in QNames BY Calls DEF DeleteDir
<1>2. CASE dir[call[t].name].files # {}
  <2>1. DirOK' BY <1>1, <1>2, RemovesFile DEF DeleteDir
  <2> QED BY <1>2, <2>1 DEF DeleteDir, GeomOK, CallsOK
<1>3. CASE dir[call[t].name].files = {}
  <2>1. CallsOK' /\ obj' = obj BY <1>1, <1>3, DestroyCallType DEF DeleteDir
  <2>2. dir' = [dir EXCEPT ![call[t].name].made = FALSE] BY <1>3 DEF DeleteDir
  <2>3. DirOK' BY <1>1, <2>2 DEF DirOK
  <2> QED BY <1>3, <2>1, <2>3 DEF DeleteDir, GeomOK
<1> QED BY <1>2, <1>3

\* Types are kept by the start of a bind or unbind.
LEMMA BeginBindingType ==
  ASSUME Types, NEW t \in Thread, NEW x \in obj, NEW q \in obj, NEW key \in Keys, BeginBinding(t, x, q, key)
  PROVE  Types'
<1> USE DEF Types
<1> DEFINE b == BindingOf(x, q, key)
           op == IF b \in bound THEN "unbind" ELSE "bind"
           d == [op |-> op, b |-> b, todo |-> <<op>>]
<1>1. b \in BindingRecord BY DEF BindingOf, BindingRecord, BrokerObject
<1>2. call' = [call EXCEPT ![t] = d] /\ op \in {"bind", "unbind"} BY DEF BeginBinding
<1>3. kept' = [kept EXCEPT !.bound = @ \ {b}] /\ bound' = bound \ {b} BY DEF BeginBinding
<1> HIDE DEF b, op
<1>4. d \in Binds BY <1>1, <1>2 DEF Binds
<1>5. StepsOK(d) BY <1>2 DEF StepsOK
<1> HIDE DEF d
<1>6. kept' \in [obj : SUBSET BrokerObject, bound : SUBSET BindingRecord] BY <1>3 DEF CallsOK
<1>7. CallsOK' BY <1>2, <1>4, <1>5, <1>6, CallSet
<1> QED BY <1>3, <1>7 DEF BeginBinding, disk, GeomOK, DirOK

\* Types are kept by putting a binding.
LEMMA BindType == ASSUME Types, NEW t \in Thread, Bind(t) PROVE Types'
<1> USE DEF Types
<1>1. call[t] \in Binds BY Calls DEF Bind
<1>2. call[t].b \in BindingRecord BY <1>1 DEF Binds
<1>3. /\ call' = [call EXCEPT ![t] = Idle] /\ obj' = obj
      /\ kept' = kept \/ kept' = [kept EXCEPT !.bound = @ \cup {call[t].b}]
      /\ bound' = bound \/ bound' = bound \cup {call[t].b}
      /\ bindingDb' = bindingDb \/ bindingDb' = bindingDb \cup {call[t].b}
  <2>1. CASE \E d \in bindingDb : SameBinding(d, call[t].b) BY <2>1 DEF Bind, Throw
  <2>2. CASE ~\E d \in bindingDb : SameBinding(d, call[t].b) BY <2>2 DEF Bind
  <2> QED BY <2>1, <2>2
<1>4. kept' \in [obj : SUBSET BrokerObject, bound : SUBSET BindingRecord]
  BY <1>2, <1>3 DEF CallsOK
<1>5. CallsOK' BY <1>3, <1>4, CallDone
<1> QED BY <1>2, <1>3, <1>5 DEF Bind, GeomOK, DirOK

\* Types are kept by removing a binding.
LEMMA UnbindType == ASSUME Types, NEW t \in Thread, Unbind(t) PROVE Types'
<1>1. CallsOK' BY CallDone DEF Types, Unbind, CallsOK
<1> QED BY <1>1 DEF Types, Unbind, GeomOK, DirOK

\* Types are kept by an error in the middle of a call.
LEMMA FailType == ASSUME Types, NEW t \in Thread, Fail(t) PROVE Types'
<1>1. CallsOK' BY CallDone DEF Types, Fail, Throw, CallsOK
<1>2. seq' \in [Tables -> Nat]
  <2>1. Table(call[t].name) \in Tables BY TableType
  <2> QED BY <2>1 DEF Types, Fail, NextId
<1> QED BY <1>1, <1>2 DEF Types, Fail, Throw, disk, GeomOK, DirOK

\* The store's directory deleted: no record and no file is left.
LEMMA Erased == ASSUME Erase PROVE DirOK' /\ db' \in [Tables -> SUBSET Record]
                                   /\ \A k \in Tables : db'[k] = {}
  BY FS_EmptySet DEF Erase, DirOK

\* Types are kept by truncateInit.
LEMMA TruncateType == ASSUME Types, Truncate PROVE Types'
  BY Erased DEF Types, Truncate, Erase, GeomOK, CallsOK

\* Types are kept by a crash.
LEMMA CrashType == ASSUME Types, Crash PROVE Types'
<1>1. CallsOK' BY DEF Types, Crash, CallsOK, StepsOK, Idle
<1> QED BY <1>1 DEF Types, Crash, disk, GeomOK, DirOK

\* Types are kept by a start with --truncate.
LEMMA StartEmptyType == ASSUME Types, NEW opt \in Options, StartEmpty(opt) PROVE Types'
<1>1. GeomOK' BY StoreGeometryType DEF StartEmpty
<1>2. kept' \in [obj : SUBSET BrokerObject, bound : SUBSET BindingRecord] BY DEF StartEmpty
<1>3. CallsOK' BY <1>2 DEF Types, StartEmpty, CallsOK
<1>4. seq' \in [Tables -> Nat] BY DEF StartEmpty
<1> QED BY <1>1, <1>3, <1>4, Erased DEF Types, StartEmpty, Erase

\* The maximum of a bounded nonempty set of numbers is its largest member.
LEMMA MaxOf ==
  ASSUME NEW S \in SUBSET Nat, S # {}, NEW m \in Nat, \A x \in S : x <= m
  PROVE  Max(S) \in S /\ \A y \in S : y <= Max(S)
<1> DEFINE R == OpToRel(<, Nat)
           T == {m - x : x \in S}
<1>1. \A a, b \in Nat : <<a, b>> \in R <=> a < b BY DEF OpToRel
<1>2. T \in SUBSET Nat /\ T # {}
  <2>1. PICK x \in S : TRUE OBVIOUS
  <2>2. m - x \in T BY <2>1
  <2>3. \A y \in S : m - y \in Nat OBVIOUS
  <2> QED BY <2>2, <2>3
<1>3. IsWellFoundedOn(R, Nat) BY NatLessThanWellFounded
<1> HIDE DEF R
<1>4. PICK a \in T : \A b \in T : ~(<<b, a>> \in R)
  <2> HIDE DEF T
  <2> QED BY <1>2, <1>3, WFMin
<1>5. PICK x \in S : a = m - x OBVIOUS
<1>6. \A y \in S : y <= x
  <2> SUFFICES ASSUME NEW y \in S PROVE y <= x OBVIOUS
  <2>1. m - y \in T OBVIOUS
  <2>2. ~(m - y < m - x) BY <1>1, <1>2, <1>4, <1>5, <2>1
  <2> QED BY <2>2
<1>7. \E u \in S : \A y \in S : u >= y BY <1>6
<1>8. Max(S) \in S /\ \A y \in S : Max(S) >= y
  BY <1>7, Zenon DEF Max
<1> QED BY <1>8

\* What a restart makes: a sequence goes on after the highest id found.
LEMMA MaxId ==
  ASSUME Types, IdsUsed, NEW k \in Tables
  PROVE  LET m == Max({1} \cup {r.id : r \in db[k]}) IN m \in Nat /\ \A r \in db[k] : r.id < m + 1
<1> DEFINE S == {1} \cup {r.id : r \in db[k]}
<1>1. S \in SUBSET Nat /\ 1 \in S /\ \A r \in db[k] : r.id \in S BY DEF Types, Record
<1>2. seq[k] + 1 \in Nat /\ \A x \in S : x <= seq[k] + 1 BY DEF Types, IdsUsed, Record
<1> HIDE DEF S
<1>3. Max(S) \in S /\ \A y \in S : y <= Max(S) BY <1>1, <1>2, MaxOf
<1>4. Max(S) \in Nat BY <1>1, <1>3
<1>5. \A r \in db[k] : r.id < Max(S) + 1
  <2> DEFINE m == Max(S)
  <2>1. m \in Nat /\ \A y \in S : y <= m BY <1>3, <1>4
  <2> HIDE DEF m
  <2>2. ASSUME NEW r \in db[k] PROVE r.id < m + 1
    <3>1. r.id \in S /\ r.id \in Nat BY <1>1
    <3>2. r.id <= m BY <2>1, <3>1
    <3> QED BY <2>1, <3>1, <3>2
  <2> QED BY <2>2 DEF m
<1> QED BY <1>4, <1>5 DEF S

ObjectsBack(known, g) == QueuesBack(g) \cup PlainBack(known) \cup PlainBack(db["general"])

\* A start is refused, or brings the tables' objects back.
LEMMA StartDoes ==
  ASSUME Types, NEW opt \in Options, Start(opt)
  PROVE  /\ life = "down" /\ GeomOK'
         /\ UNCHANGED <<db, dir, call, incs, crashes, fails>>
         /\ \/ /\ life' = "refused" /\ UNCHANGED <<bindingDb, seq, obj, bound, kept>>
               /\ \E r \in db["queue"] : ~Verified(r.name) \/ LimitReached(RecoveredGeometry(r.name, geom'))
            \/ /\ life' = "up"
               /\ \A r \in db["queue"] : Verified(r.name)
               /\ \E known \in SUBSET db["exchange"] :
                    /\ ~UnknownTypes => known = db["exchange"]
                    /\ seq' = [k \in Tables |-> Max({1} \cup {r.id : r \in db[k]}) + 1]
                    /\ bindingDb' = RecoverBindings({r.id : r \in known}, {r.id : r \in db["queue"]})
                    /\ obj' = ObjectsBack(known, geom') /\ kept' = [obj |-> obj', bound |-> bound']
                    /\ bound' = RecoverBindings({r.id : r \in known}, {r.id : r \in db["queue"]})
<1>1. GeomOK' BY StoreGeometryType DEF Start
<1>2. CASE \A r \in db["queue"] : Verified(r.name) /\ ~LimitReached(RecoveredGeometry(r.name, geom'))
  <2>1. PICK known \in (IF UnknownTypes THEN SUBSET db["exchange"] ELSE {db["exchange"]}) : Recover(known, geom')
    BY <1>2, Zenon DEF Start
  <2>2. known \in SUBSET db["exchange"] /\ (~UnknownTypes => known = db["exchange"]) BY <2>1
  <2>3. life' = "up" BY <1>2 DEF Start
  <2>4. /\ seq' = [k \in Tables |-> Max({1} \cup {r.id : r \in db[k]}) + 1]
        /\ bindingDb' = RecoverBindings({r.id : r \in known}, {r.id : r \in db["queue"]})
        /\ obj' = ObjectsBack(known, geom') /\ kept' = [obj |-> obj', bound |-> bound']
        /\ bound' = RecoverBindings({r.id : r \in known}, {r.id : r \in db["queue"]})
    BY <2>1, Zenon DEF Recover, ObjectsBack, RecoverBindings
  <2>5. life = "down" /\ UNCHANGED <<db, dir, call, incs, crashes, fails>> BY DEF Start
  <2> QED BY <1>1, <1>2, <2>2, <2>3, <2>4, <2>5
<1>3. CASE ~ \A r \in db["queue"] : Verified(r.name) /\ ~LimitReached(RecoveredGeometry(r.name, geom'))
  BY <1>1, <1>3 DEF Start
<1> QED BY <1>2, <1>3

\* The object of a record.
BackFrom(r, o) == o.name = r.name /\ o.id = r.id /\ o.inc = r.inc
Back(r, g) ==
  ObjectOf([name |-> r.name, id |-> r.id, inc |-> r.inc,
            geo |-> IF r.name \in QNames THEN RecoveredGeometry(r.name, g) ELSE Plain])
BackOK(B, known, g) ==
  LET R == db["queue"] \cup known \cup db["general"]
  IN  /\ B \in SUBSET BrokerObject
      /\ \A o \in B : \E r \in R : o = Back(r, g)
      /\ \A r \in R : Back(r, g) \in B /\ BackFrom(r, Back(r, g))

\* The objects recovery makes are those of the records, one each.
LEMMA ObjectsAreBack ==
  ASSUME Types, NEW known \in SUBSET db["exchange"], NEW g, g.ae \in BOOLEAN, g.aemax \in Nat,
         \A r \in db["queue"] : Verified(r.name)
  PROVE  BackOK(ObjectsBack(known, g), known, g)
<1> DEFINE R == known \cup db["general"]
           B == ObjectsBack(known, g)
<1>1. /\ \A r \in db["queue"] : r \in Record /\ r.name \in QNames
      /\ \A r \in R : r \in Record /\ r.name \notin QNames
  BY NamesAssumption DEF Types, Table, Tables
<1>2. B = {Back(r, g) : r \in db["queue"] \cup R}
  <2>1. \A r \in db["queue"] : Back(r, g) = ObjectOf([name |-> r.name, id |-> r.id, inc |-> r.inc,
                                                      geo |-> RecoveredGeometry(r.name, g)])
    BY <1>1, Zenon DEF Back
  <2>2. \A r \in R : Back(r, g) = ObjectOf([name |-> r.name, id |-> r.id, inc |-> r.inc, geo |-> Plain])
    BY <1>1, Zenon DEF Back
  <2>3. QueuesBack(g) = {Back(r, g) : r \in db["queue"]} BY <2>1 DEF QueuesBack
  <2>4. PlainBack(known) \cup PlainBack(db["general"]) = {Back(r, g) : r \in R} BY <2>2 DEF PlainBack
  <2>5. B = QueuesBack(g) \cup (PlainBack(known) \cup PlainBack(db["general"])) BY DEF ObjectsBack
  <2> QED BY <2>3, <2>4, <2>5
<1>3. ASSUME NEW r \in db["queue"] \cup R PROVE Back(r, g) \in BrokerObject /\ BackFrom(r, Back(r, g))
  <2> DEFINE geo == IF r.name \in QNames THEN RecoveredGeometry(r.name, g) ELSE Plain
             c == [name |-> r.name, id |-> r.id, inc |-> r.inc, geo |-> geo]
  <2>1. geo \in Geometry
    <3>1. CASE r \in db["queue"]
      <4>1. Info(r.name) # {} /\ Info(r.name) \in SUBSET JournalFile
        BY <1>1, <3>1 DEF Verified, Info, Types, DirOK
      <4>2. (CHOOSE i \in Info(r.name) : TRUE) \in JournalFile BY <4>1
      <4>3. RecoveredGeometry(r.name, g) \in Geometry
        BY <4>2 DEF RecoveredGeometry, JournalFile, Geometry
      <4> QED BY <1>1, <3>1, <4>3
    <3>2. CASE r \in R BY <1>1, <3>2, GeometryType
    <3> QED BY <3>1, <3>2
  <2> HIDE DEF geo
  <2>2. c.name \in Names /\ c.id \in Nat /\ c.inc \in Nat /\ c.geo \in Geometry BY <1>1, <2>1 DEF Record
  <2>3. ObjectOf(c) \in BrokerObject BY <2>2, ObjectType
  <2>4. BackFrom(r, ObjectOf(c)) BY DEF BackFrom, ObjectOf
  <2>5. Back(r, g) = ObjectOf(c) BY DEF Back, geo
  <2> QED BY <2>3, <2>4, <2>5
<1> HIDE DEF B
<1>4. \A o \in B : \E r \in db["queue"] \cup R : o = Back(r, g) BY <1>2
<1>5. B \in SUBSET BrokerObject BY <1>3, <1>4
<1>6. \A r \in db["queue"] \cup R : Back(r, g) \in B BY <1>2
<1>7. BackOK(B, known, g) BY <1>3, <1>4, <1>5, <1>6 DEF BackOK
<1> QED BY <1>7 DEF B

\* What a start that is not refused makes of the tables.
LEMMA StartsUp ==
  ASSUME Types, NEW opt \in Options, Start(opt), life' = "up"
  PROVE  \E known \in SUBSET db["exchange"] : \E g :
           /\ g = geom'
           /\ ~UnknownTypes => known = db["exchange"]
           /\ seq' = [k \in Tables |-> Max({1} \cup {r.id : r \in db[k]}) + 1]
           /\ bindingDb' = RecoverBindings({r.id : r \in known}, {r.id : r \in db["queue"]})
           /\ bound' = bindingDb'
           /\ kept' = [obj |-> obj', bound |-> bound']
           /\ \E B : obj' = B /\ BackOK(B, known, g)
<1>1. GeomOK' /\ \A r \in db["queue"] : Verified(r.name) BY StartDoes
<1>2. PICK known \in SUBSET db["exchange"] :
          /\ ~UnknownTypes => known = db["exchange"]
          /\ seq' = [k \in Tables |-> Max({1} \cup {r.id : r \in db[k]}) + 1]
          /\ bindingDb' = RecoverBindings({r.id : r \in known}, {r.id : r \in db["queue"]})
          /\ obj' = ObjectsBack(known, geom') /\ kept' = [obj |-> obj', bound |-> bound']
          /\ bound' = RecoverBindings({r.id : r \in known}, {r.id : r \in db["queue"]})
  BY StartDoes
<1>3. PICK g : g = geom' OBVIOUS
<1>4. g.ae \in BOOLEAN /\ g.aemax \in Nat
  <2>1. geom'.ae \in BOOLEAN /\ geom'.aemax \in Nat BY <1>1 DEF GeomOK
  <2> QED BY <1>3, <2>1, Zenon
<1>5. PICK B : B = ObjectsBack(known, g) OBVIOUS
<1>6. BackOK(B, known, g) BY <1>1, <1>4, <1>5, ObjectsAreBack
<1>7. obj' = B BY <1>2, <1>3, <1>5, Zenon
<1>8. bound' = bindingDb' BY <1>2, Zenon
<1> QED BY <1>2, <1>3, <1>6, <1>7, <1>8, Zenon

\* Types are kept by a start.
LEMMA StartType == ASSUME Types, IdsUsed, NEW opt \in Options, Start(opt) PROVE Types'
<1>1. CASE life' = "refused"
  BY <1>1, StartDoes DEF CallsOK, DirOK, Types
<1>2. CASE life' = "up"
  <2>1. PICK known \in SUBSET db["exchange"] : \E g :
          /\ seq' = [k \in Tables |-> Max({1} \cup {r.id : r \in db[k]}) + 1]
          /\ bindingDb' = RecoverBindings({r.id : r \in known}, {r.id : r \in db["queue"]})
          /\ bound' = bindingDb'
          /\ kept' = [obj |-> obj', bound |-> bound']
          /\ \E B : obj' = B /\ BackOK(B, known, g)
    BY <1>2, StartsUp, Zenon
  <2>2. GeomOK' /\ UNCHANGED <<db, dir, call, incs>> BY <1>2, StartDoes
  <2>3. obj' \in SUBSET BrokerObject BY <2>1 DEF BackOK
  <2>4. seq' \in [Tables -> Nat]
    <3>1. \A k \in Tables : Max({1} \cup {r.id : r \in db[k]}) \in Nat BY MaxId
    <3> QED BY <2>1, <3>1
  <2>5. bound' \in SUBSET BindingRecord /\ bindingDb' \in SUBSET BindingRecord
    BY <2>1 DEF RecoverBindings, Types
  <2>6. CallsOK' BY <2>1, <2>2, <2>3, <2>5 DEF CallsOK, Types
  <2> QED BY <2>2, <2>3, <2>4, <2>5, <2>6 DEF DirOK, Types
<1> QED BY <1>1, <1>2, StartDoes

\* Most steps of a call only take away: records, bindings, files, or the call itself
\* (Later).  Each part of IdInv survives that.
Shrinks ==
  /\ \A k \in Tables : db'[k] \subseteq db[k] /\ seq[k] <= seq'[k]
  /\ bindingDb' \subseteq bindingDb
  /\ UNCHANGED <<obj, bound, incs, life>>
  /\ \A t \in Thread : Later(call[t], call'[t])

\* A thread that is idle is in no call about an object or a binding.
LEMMA IdleIsNothing == ~IsObjectOp(Idle) /\ ~IsBindOp(Idle) /\ Idle.op = "none"
  BY DEF IsObjectOp, IsBindOp, Idle

\* A call that has gone on is about the same object or binding.
LEMMA LaterSame ==
  ASSUME NEW c, NEW d, Later(c, d)
  PROVE  /\ d.op = "create" => c.op = "create" /\ d.inc = c.inc
         /\ IsObjectOp(d) => IsObjectOp(c) /\ d.name = c.name /\ d.inc = c.inc /\ d.id = c.id
         /\ IsBindOp(d) => IsBindOp(c) /\ d.b = c.b
         /\ c = Idle => d = Idle \/ d.op = "none"
  BY IdleIsNothing DEF Later, IsObjectOp, IsBindOp

\* A step that only takes away keeps Quiet.
LEMMA ShrinkQuiet == ASSUME Quiet, Shrinks, life = "up" PROVE Quiet'
  BY DEF Quiet, Shrinks

\* A step that only takes away keeps the numbers of the objects.
LEMMA ShrinkIncs == ASSUME Types, IncInv, Shrinks PROVE IncInv'
<1>1. IncsUsed' BY LaterSame DEF IncInv, IncsUsed, Shrinks
<1>2. ASSUME NEW t \in Thread PROVE Fresh(t)'
  <2> SUFFICES ASSUME call'[t].op = "create" PROVE Fresh(t)' BY DEF Fresh
  <2>1. call[t].op = "create" /\ call'[t].inc = call[t].inc /\ Fresh(t)
    BY LaterSame DEF Shrinks, IncInv
  <2>2. ASSUME NEW u \in Thread
        PROVE  /\ u # t /\ call'[u].op = "create" => call'[u].inc # call'[t].inc
               /\ IsBindOp(call'[u]) => /\ call'[u].b.xinc # call'[t].inc
                                        /\ call'[u].b.qinc # call'[t].inc
    <3>1. Later(call[u], call'[u]) BY DEF Shrinks
    <3> QED BY <2>1, <3>1, LaterSame DEF Fresh
  <2>3. \A k \in Tables : \A r \in db'[k] : r.inc # call'[t].inc BY <2>1 DEF Fresh, Shrinks
  <2>4. \A o \in obj' : o.inc # call'[t].inc BY <2>1 DEF Fresh, Shrinks
  <2> QED BY <2>2, <2>3, <2>4 DEF Fresh
<1>3. OneInc' BY DEF IncInv, OneInc, Shrinks
<1>4. OneRecord' BY DEF IncInv, OneRecord, Shrinks
<1> QED BY <1>1, <1>2, <1>3, <1>4 DEF IncInv

\* A step that only takes away keeps the ids in use.
LEMMA ShrinkIds == ASSUME Types, Types', IdsUsed, Shrinks PROVE IdsUsed'
<1> USE DEF Tables
<1>1. \A k \in Tables : seq[k] \in Nat /\ seq'[k] \in Nat /\ seq[k] <= seq'[k] BY DEF Types, Shrinks
<1>2. ASSUME NEW k \in Tables, NEW r \in db'[k] PROVE r.id < seq'[k]
  BY <1>1, <1>2 DEF IdsUsed, Shrinks, Types, Record
<1>3. ASSUME NEW o \in obj' PROVE o.id < seq'[Table(o.name)]
  BY <1>1, <1>3, TableType DEF IdsUsed, Shrinks, Types, BrokerObject
<1>4. ASSUME NEW b \in bindingDb' PROVE b.x < seq'["exchange"] /\ b.q < seq'["queue"]
  BY <1>1, <1>4 DEF IdsUsed, Shrinks, Types, BindingRecord
<1>5. ASSUME NEW t \in Thread, IsBindOp(call'[t])
      PROVE  call'[t].b.x < seq'["exchange"] /\ call'[t].b.q < seq'["queue"]
  <2>1. IsBindOp(call[t]) /\ call'[t].b = call[t].b BY <1>5, LaterSame DEF Shrinks
  <2>2. call[t].b \in BindingRecord BY <2>1 DEF Types, CallsOK, Binds, Creates, Destroys, Idle, IsBindOp
  <2> QED BY <1>1, <2>1, <2>2 DEF IdsUsed, BindingRecord
<1> QED BY <1>2, <1>3, <1>4, <1>5 DEF IdsUsed

\* A step that only takes away keeps what the bindings mean.
LEMMA ShrinkMatch == ASSUME Types, BindingsMatch, Shrinks PROVE BindingsMatch'
<1>1. \A b : MatchesRecords(b) => MatchesRecords(b)' BY DEF MatchesRecords, Shrinks, Tables
<1>2. \A b : MatchesObjects(b) => MatchesObjects(b)' BY DEF MatchesObjects, Shrinks
<1>3. \A t \in Thread : IsBindOp(call'[t]) => IsBindOp(call[t]) /\ call'[t].b = call[t].b
  BY LaterSame DEF Shrinks
<1>4. \A o \in obj' : \A r \in db'[Table(o.name)] : r.id = o.id => r.inc = o.inc
  BY TableType DEF BindingsMatch, Shrinks
<1>5. \A b \in bindingDb' : MatchesRecords(b)' BY <1>1 DEF BindingsMatch, Shrinks
<1>6. ASSUME NEW t \in Thread, IsBindOp(call[t])'
      PROVE  (MatchesRecords(call[t].b) /\ MatchesObjects(call[t].b))'
  <2>1. PICK b : b = call[t].b OBVIOUS
  <2>2. IsBindOp(call[t]) /\ b = call'[t].b BY <1>3, <1>6, <2>1 DEF IsBindOp
  <2>3. MatchesRecords(b) /\ MatchesObjects(b) BY <2>1, <2>2 DEF BindingsMatch
  <2>4. MatchesRecords(b)' /\ MatchesObjects(b)' BY <1>1, <1>2, <2>3
  <2> QED BY <2>2, <2>4 DEF MatchesRecords, MatchesObjects
<1> QED BY <1>4, <1>5, <1>6 DEF BindingsMatch

\* A step that only takes away keeps IdInv.
LEMMA ShrinkKeeps == ASSUME IdInv, Types', Shrinks, life = "up" PROVE IdInv'
<1>1. NoStrayBinding' BY DEF NoStrayBinding, IdInv, Shrinks
<1> QED BY <1>1, ShrinkQuiet, ShrinkIncs, ShrinkIds, ShrinkMatch DEF IdInv

\* A call that ends or goes on is a later stage of itself, and the others stay.
LEMMA LaterCalls ==
  ASSUME CallsOK, NEW t \in Thread,
         \/ call' = call
         \/ call' = [call EXCEPT ![t] = Idle]
         \/ /\ call[t] \in Creates \cup Destroys
            /\ \E s : call' = [call EXCEPT ![t] = [call[t] EXCEPT !.todo = s]]
  PROVE  \A u \in Thread : Later(call[u], call'[u])
<1>1. \A c : Later(c, c) BY DEF Later
<1>2. \A c : Later(c, Idle) BY DEF Later
<1>3. CASE call' = call BY <1>1, <1>3
<1>4. CASE call' = [call EXCEPT ![t] = Idle] BY <1>1, <1>2, <1>4 DEF CallsOK
<1>5. CASE /\ call[t] \in Creates \cup Destroys
           /\ \E s : call' = [call EXCEPT ![t] = [call[t] EXCEPT !.todo = s]]
  <2>1. PICK s : call' = [call EXCEPT ![t] = [call[t] EXCEPT !.todo = s]] BY <1>5
  <2>2. Later(call[t], [call[t] EXCEPT !.todo = s])
    BY <1>5 DEF Later, Creates, Destroys, IsObjectOp, IsBindOp
  <2> QED BY <1>1, <2>1, <2>2 DEF CallsOK
<1> QED BY <1>3, <1>4, <1>5

SomeStep(t) ==
  \/ ClearDir(t) \/ CreateFile(t) \/ WriteInfo(t) \/ DeleteRecord(t) \/ DeleteBindings(t)
  \/ DeleteDir(t) \/ Unbind(t) \/ Fail(t)

\* The generic destroy(): the record under the id goes.
LEMMA DeleteRecordDoes ==
  ASSUME CallsOK, NEW t \in Thread, DeleteRecord(t)
  PROVE  /\ Doing(t, "record") /\ obj' = obj /\ kept' = kept /\ call[t] \in Destroys
         /\ db' = [db EXCEPT ![Table(call[t].name)] = {r \in @ : r.id # call[t].id}]
         /\ UNCHANGED <<bindingDb, dir, life, geom, seq, bound, journalList, incs>>
         /\ \/ call' = [call EXCEPT ![t] = Idle]
            \/ \E s \in {<<"bindings", "unlink">>, <<"unlink">>, <<"bindings">>} :
                 call' = [call EXCEPT ![t] = [call[t] EXCEPT !.todo = s]]
  BY DestroyType DEF DeleteRecord

\* deleteBindingsForQueue: the bindings under the id go.
LEMMA DeleteBindingsDoes ==
  ASSUME CallsOK, NEW t \in Thread, DeleteBindings(t)
  PROVE  /\ Doing(t, "bindings") /\ obj' = obj /\ kept' = kept /\ call[t] \in Destroys
         /\ bindingDb' = {b \in bindingDb : IF call[t].name \in QNames THEN b.q # call[t].id ELSE b.x # call[t].id}
         /\ UNCHANGED <<db, dir, life, geom, seq, bound, journalList, incs>>
         /\ \/ call' = [call EXCEPT ![t] = Idle]
            \/ \E s \in {<<"bindings", "unlink">>, <<"unlink">>, <<"bindings">>} :
                 call' = [call EXCEPT ![t] = [call[t] EXCEPT !.todo = s]]
  BY DestroyType DEF DeleteBindings

\* delete_jrnl_files: one file unlinked, or the directory removed and the call over.
LEMMA DeleteDirDoes ==
  ASSUME CallsOK, NEW t \in Thread, DeleteDir(t)
  PROVE  /\ Doing(t, "unlink") /\ obj' = obj /\ kept' = kept /\ call[t] \in Destroys /\ call[t].name \in QNames
         /\ UNCHANGED <<db, bindingDb, life, geom, seq, bound, incs>>
         /\ \/ /\ \E f \in dir[call[t].name].files :
                    dir' = [dir EXCEPT ![call[t].name].files = @ \ {f}]
               /\ call' = call /\ journalList' = journalList
            \/ /\ dir[call[t].name].files = {}
               /\ dir' = [dir EXCEPT ![call[t].name].made = FALSE]
               /\ journalList' = journalList \ {call[t].name}
               /\ call' = [call EXCEPT ![t] = Idle]
<1>1. Doing(t, "unlink") BY DEF DeleteDir
<1>2. call[t] \in Destroys /\ call[t].name \in QNames /\ call[t].todo = <<"unlink">> BY <1>1, Calls
<1>3. CASE dir[call[t].name].files # {} BY <1>1, <1>2, <1>3 DEF DeleteDir
<1>4. CASE dir[call[t].name].files = {}
  <2>1. Advance(t, call[t]) BY <1>4 DEF DeleteDir
  <2>2. Len(call[t].todo) = 1 BY <1>2
  <2>3. obj' = obj /\ kept' = kept /\ call' = [call EXCEPT ![t] = Idle] BY <1>2, <2>1, <2>2, DestroyGoes
  <2> QED BY <1>1, <1>2, <1>4, <2>3 DEF DeleteDir
<1> QED BY <1>3, <1>4

\* Every step that neither begins a call nor puts a record or binding takes away.
LEMMA StepShrinks == ASSUME Types, NEW t \in Thread, SomeStep(t) PROVE Shrinks /\ life = "up"
<1>1. CallsOK /\ \A k \in Tables : seq[k] \in Nat BY DEF Types
<1>2. \A k \in Tables : seq[k] <= seq[k] BY <1>1
<1>3. life = "up" BY DEF SomeStep, ClearDir, CreateFile, WriteInfo, DeleteRecord, DeleteBindings, DeleteDir,
                         Unbind, Fail, Doing
<1>4. CASE ClearDir(t)
  <2>1. call[t] \in Creates BY <1>1, <1>4, Calls, ClearDirDoes
  <2>2. \A u \in Thread : Later(call[u], call'[u]) BY <1>1, <1>4, <2>1, ClearDirDoes, LaterCalls
  <2> QED BY <1>1, <1>2, <1>3, <1>4, <2>2, ClearDirDoes DEF Shrinks
<1>5. CASE CreateFile(t)
  <2>2. \A u \in Thread : Later(call[u], call'[u]) BY <1>1, <1>5, CreateFileDoes, LaterCalls
  <2> QED BY <1>1, <1>2, <1>3, <1>5, <2>2, CreateFileDoes DEF Shrinks
<1>6. CASE WriteInfo(t)
  <2>1. call[t] \in Creates BY <1>1, <1>6, Calls, WriteInfoDoes
  <2>2. \A u \in Thread : Later(call[u], call'[u]) BY <1>1, <1>6, <2>1, WriteInfoDoes, LaterCalls
  <2> QED BY <1>1, <1>2, <1>3, <1>6, <2>2, WriteInfoDoes DEF Shrinks
<1>7. CASE DeleteRecord(t)
  <2>2. \A u \in Thread : Later(call[u], call'[u]) BY <1>1, <1>7, DeleteRecordDoes, LaterCalls
  <2>3. \A k \in Tables : db'[k] \subseteq db[k] BY <1>1, <1>7, DeleteRecordDoes DEF Types
  <2> QED BY <1>1, <1>2, <1>3, <1>7, <2>2, <2>3, DeleteRecordDoes DEF Shrinks
<1>8. CASE DeleteBindings(t)
  <2>2. \A u \in Thread : Later(call[u], call'[u]) BY <1>1, <1>8, DeleteBindingsDoes, LaterCalls
  <2> QED BY <1>1, <1>2, <1>3, <1>8, <2>2, DeleteBindingsDoes DEF Shrinks
<1>9. CASE DeleteDir(t)
  <2>2. \A u \in Thread : Later(call[u], call'[u]) BY <1>1, <1>9, DeleteDirDoes, LaterCalls
  <2> QED BY <1>1, <1>2, <1>3, <1>9, <2>2, DeleteDirDoes DEF Shrinks
<1>10. CASE Unbind(t)
  <2>2. \A u \in Thread : Later(call[u], call'[u]) BY <1>1, <1>10, LaterCalls DEF Unbind
  <2> QED BY <1>1, <1>2, <1>3, <1>10, <2>2 DEF Shrinks, Unbind
<1>11. CASE Fail(t)
  <2>2. \A u \in Thread : Later(call[u], call'[u]) BY <1>1, <1>11, LaterCalls DEF Fail, Throw
  <2>3. \A k \in Tables : seq[k] <= seq'[k]
    <3>1. Table(call[t].name) \in Tables BY TableType
    <3> QED BY <1>1, <1>2, <1>11, <3>1 DEF Fail, NextId, Types
  <2> QED BY <1>1, <1>3, <1>11, <2>2, <2>3 DEF Shrinks, Fail, Throw, disk
<1> QED BY <1>4, <1>5, <1>6, <1>7, <1>8, <1>9, <1>10, <1>11 DEF SomeStep

\* Types are kept by every such step.
LEMMA StepType == ASSUME Types, NEW t \in Thread, SomeStep(t) PROVE Types'
  BY ClearDirType, CreateFileType, WriteInfoType, DeleteRecordType, DeleteBindingsType, DeleteDirType,
     UnbindType, FailType DEF SomeStep

\* The call of a bind or unbind holds a binding, one about an object is a create or
\* a destroy.
LEMMA BindOpType == ASSUME Types, NEW t \in Thread, IsBindOp(call[t]) PROVE call[t].b \in BindingRecord
  BY DEF Types, CallsOK, Binds, Creates, Destroys, Idle, IsBindOp

\* A call about an object is a create or a destroy.
LEMMA ObjectOpType == ASSUME Types, NEW t \in Thread, IsObjectOp(call[t]) PROVE call[t] \in Creates \cup Destroys
  BY DEF Types, CallsOK, Binds, Creates, Destroys, Idle, IsObjectOp

\* IdInv is kept by the start of a create, whose number is new.
LEMMA BeginCreateIds ==
  ASSUME IdInv, Types', NEW t \in Thread, NEW n \in Names, NEW geo \in Geometry, BeginCreate(t, n, geo)
  PROVE  IdInv'
<1> DEFINE d == [op |-> "create", name |-> n, id |-> 0, inc |-> incs + 1, geo |-> geo,
                 todo |-> CreateSteps(n)]
<1>1. /\ call' = [call EXCEPT ![t] = d] /\ incs' = incs + 1 /\ call[t] = Idle /\ life = "up"
      /\ UNCHANGED <<db, bindingDb, life, seq, obj, bound>>
  BY DEF BeginCreate, disk
<1>2. d.op = "create" /\ d.inc = incs + 1 /\ d.op # "none" OBVIOUS
<1> HIDE DEF d
<1>3. /\ call'[t] = d /\ \A u \in Thread : u # t => call'[u] = call[u]
  BY <1>1 DEF IdInv, Types, CallsOK
<1>4. ~IsBindOp(d) /\ IsObjectOp(d) BY <1>2 DEF IsBindOp, IsObjectOp
<1>5. incs \in Nat BY DEF IdInv, Types
<1>6. /\ \A o \in obj : o.inc \in Nat /\ o.inc <= incs
      /\ \A k \in Tables : \A r \in db[k] : r.inc \in Nat /\ r.inc <= incs
  BY DEF IdInv, Types, IncInv, IncsUsed, Record, BrokerObject
<1>7. \A u \in Thread : /\ IsObjectOp(call[u]) => call[u].inc \in Nat /\ call[u].inc <= incs
                        /\ IsBindOp(call[u]) => /\ call[u].b.xinc \in Nat /\ call[u].b.xinc <= incs
                                                /\ call[u].b.qinc \in Nat /\ call[u].b.qinc <= incs
  BY BindOpType, ObjectOpType DEF IdInv, IncInv, IncsUsed, Creates, Destroys, BindingRecord
<1>8. IncsUsed'
  <2>1. \A o \in obj' : o.inc <= incs' BY <1>1, <1>5, <1>6
  <2>2. \A k \in Tables : \A r \in db'[k] : r.inc <= incs' BY <1>1, <1>5, <1>6
  <2>3. ASSUME NEW u \in Thread
        PROVE  /\ IsObjectOp(call'[u]) => call'[u].inc <= incs'
               /\ IsBindOp(call'[u]) => call'[u].b.xinc <= incs' /\ call'[u].b.qinc <= incs'
    <3>1. CASE u = t BY <1>1, <1>2, <1>3, <1>4, <1>5, <3>1
    <3>2. CASE u # t
      <4>1. call'[u] = call[u] BY <1>3, <3>2
      <4>2. IsObjectOp(call[u]) => call[u].inc <= incs + 1 BY <1>5, <1>7
      <4>3. IsBindOp(call[u]) => call[u].b.xinc <= incs + 1 /\ call[u].b.qinc <= incs + 1 BY <1>5, <1>7
      <4> QED BY <1>1, <4>1, <4>2, <4>3
    <3> QED BY <3>1, <3>2
  <2> QED BY <2>1, <2>2, <2>3 DEF IncsUsed
<1>9. ASSUME NEW u \in Thread PROVE Fresh(u)'
  <2>1. CASE u = t
    <3>1. \A o \in obj' : o.inc # d.inc BY <1>1, <1>2, <1>5, <1>6
    <3>2. \A k \in Tables : \A r \in db'[k] : r.inc # d.inc BY <1>1, <1>2, <1>5, <1>6
    <3>3. ASSUME NEW v \in Thread, v # t, call'[v].op = "create" PROVE call'[v].inc # d.inc
      <4>1. call'[v] = call[v] /\ IsObjectOp(call[v]) BY <1>3, <3>3 DEF IsObjectOp
      <4> QED BY <1>2, <1>5, <1>7, <4>1
    <3>4. ASSUME NEW v \in Thread, IsBindOp(call'[v])
          PROVE  call'[v].b.xinc # d.inc /\ call'[v].b.qinc # d.inc
      <4>1. call'[v] = call[v] BY <1>3, <1>4, <3>4
      <4> QED BY <1>2, <1>5, <1>7, <3>4, <4>1
    <3> QED BY <1>3, <2>1, <3>1, <3>2, <3>3, <3>4 DEF Fresh
  <2>2. CASE u # t
    <3>1. SUFFICES ASSUME call'[u].op = "create" PROVE Fresh(u)' BY DEF Fresh
    <3>2. call'[u] = call[u] /\ Fresh(u) /\ IsObjectOp(call[u])
      BY <1>3, <2>2, <3>1 DEF IdInv, IncInv, IsObjectOp
    <3>3. d.inc # call[u].inc BY <1>2, <1>5, <1>7, <3>2
    <3> QED BY <1>1, <1>3, <1>4, <3>1, <3>2, <3>3 DEF Fresh
  <2> QED BY <2>1, <2>2
<1>10. IncInv' BY <1>1, <1>8, <1>9 DEF IncInv, OneInc, OneRecord, IdInv
<1>11. \A u \in Thread : IsBindOp(call'[u]) => call'[u] = call[u] BY <1>3, <1>4
<1>12. IdsUsed' BY <1>1, <1>11 DEF IdInv, IdsUsed
<1>13. BindingsMatch' BY <1>1, <1>11 DEF IdInv, BindingsMatch, MatchesRecords, MatchesObjects
<1>14. Quiet' /\ NoStrayBinding' BY <1>1 DEF IdInv, Quiet, NoStrayBinding
<1> QED BY <1>10, <1>12, <1>13, <1>14 DEF IdInv

\* IdInv is kept by putting the record: its id is above all in use, its number its call's own.
LEMMA PutRecordIds ==
  ASSUME IdInv, Types', NEW t \in Thread, PutRecord(t)
  PROVE  IdInv'
<1> DEFINE k == Table(call[t].name)
           n == call[t].name
           i == call[t].inc
           c == [call[t] EXCEPT !.id = seq[k]]
           o == ObjectOf(c)
           r == [id |-> seq[k], name |-> n, inc |-> i]
<1>1. /\ Doing(t, "put") /\ NextId(k)
      /\ UNCHANGED <<bindingDb, life, bound, incs>>
      /\ call' = [call EXCEPT ![t] = Idle]
      /\ \/ db' = db /\ obj' = obj
         \/ /\ \A s \in db[k] : s.id # seq[k]
            /\ db' = [db EXCEPT ![k] = @ \cup {r}]
            /\ obj' = obj \cup {o}
  BY PutRecordDoes DEF IdInv, Types
<1>2. call[t] \in Creates /\ k \in Tables BY <1>1, Calls, TableType DEF IdInv, Types
<1>3. o.name = n /\ o.id = seq[k] /\ o.inc = i /\ Table(o.name) = k BY <1>2 DEF ObjectOf, Creates
<1>4. r.name = n /\ r.id = seq[k] /\ r.inc = i OBVIOUS
<1>5. i \in Nat /\ n \in Names /\ call[t].op = "create" /\ i <= incs /\ IsObjectOp(call[t])
  BY <1>2 DEF Creates, IsObjectOp, IdInv, IncInv, IncsUsed
<1>6. k = Table(n) OBVIOUS
<1> HIDE DEF o, r, n, i, k
<1>7. seq' = [seq EXCEPT ![k] = @ + 1] BY <1>1 DEF NextId
<1>8. /\ \A l \in Tables : seq[l] \in Nat /\ seq[l] <= seq'[l]
      /\ seq'[k] = seq[k] + 1
  BY <1>2, <1>7 DEF IdInv, Types
<1>9. /\ call'[t] = Idle /\ \A u \in Thread : u # t => call'[u] = call[u]
      /\ \A u \in Thread : Later(call[u], call'[u])
  BY <1>1, LaterCalls DEF IdInv, Types, CallsOK
<1>10. life = "up" BY <1>1 DEF Doing
<1>11. CASE db' = db /\ obj' = obj
  <2>1. Shrinks BY <1>1, <1>8, <1>9, <1>11 DEF Shrinks
  <2> QED BY <1>10, <2>1, ShrinkKeeps
<1>12. CASE /\ \A s \in db[k] : s.id # seq[k]
            /\ db' = [db EXCEPT ![k] = @ \cup {r}]
            /\ obj' = obj \cup {o}
  <2>1. \A l \in Tables : db'[l] = IF l = k THEN db[l] \cup {r} ELSE db[l]
    BY <1>2, <1>12 DEF IdInv, Types
  <2>2. /\ \A p \in obj : p.inc # i
        /\ \A l \in Tables : \A s \in db[l] : s.inc # i
        /\ \A u \in Thread : /\ u # t /\ call[u].op = "create" => call[u].inc # i
                             /\ IsBindOp(call[u]) => call[u].b.xinc # i /\ call[u].b.qinc # i
    BY <1>5 DEF IdInv, IncInv, Fresh, i
  <2>3. \A u \in Thread : /\ call'[u].op = "create" => u # t /\ call'[u] = call[u]
                          /\ IsBindOp(call'[u]) => u # t /\ call'[u] = call[u]
                          /\ IsObjectOp(call'[u]) => u # t /\ call'[u] = call[u]
    BY <1>9, IdleIsNothing
  <2>4. IncsUsed' BY <1>1, <1>3, <1>4, <1>5, <1>12, <2>1, <2>3 DEF IdInv, IncInv, IncsUsed
  <2>5. ASSUME NEW u \in Thread PROVE Fresh(u)'
    <3> SUFFICES ASSUME call'[u].op = "create" PROVE Fresh(u)' BY DEF Fresh
    <3>1. u # t /\ call'[u] = call[u] /\ Fresh(u) BY <2>3 DEF IdInv, IncInv
    <3>2. i # call[u].inc BY <2>2, <3>1
    <3> QED BY <1>3, <1>4, <1>12, <2>1, <2>3, <3>1, <3>2 DEF Fresh
  <2>6. OneInc' BY <1>3, <1>12, <2>2 DEF IdInv, IncInv, OneInc
  <2>7. OneRecord' BY <1>4, <1>12, <2>1, <2>2 DEF IdInv, IncInv, OneRecord
  <2>8. IdsUsed'
    <3>1. \A l \in Tables : \A s \in db'[l] : s.id < seq'[l]
      <4> SUFFICES ASSUME NEW l \in Tables, NEW s \in db'[l] PROVE s.id < seq'[l] OBVIOUS
      <4>1. CASE s \in db[l]
        <5>1. s.id \in Nat /\ s.id < seq[l] BY <4>1 DEF IdInv, IdsUsed, Types, Record
        <5> QED BY <1>8, <5>1 DEF IdInv, Types
      <4>2. CASE s \notin db[l]
        <5>1. l = k /\ s.id = seq[k] BY <1>4, <2>1, <4>2
        <5>2. seq[k] \in Nat /\ seq'[k] = seq[k] + 1 BY <1>2, <1>8
        <5>3. seq[k] < seq'[k] BY <5>2
        <5> QED BY <5>1, <5>3
      <4> QED BY <4>1, <4>2
    <3>2. \A p \in obj' : p.id < seq'[Table(p.name)]
      <4> SUFFICES ASSUME NEW p \in obj' PROVE p.id < seq'[Table(p.name)] OBVIOUS
      <4> DEFINE l == Table(p.name)
      <4>0. l \in Tables BY TableType
      <4>1. CASE p \in obj
        <5>1. p.id \in Nat /\ p.id < seq[l] BY <4>1 DEF IdInv, IdsUsed, Types, BrokerObject
        <5> HIDE DEF l
        <5>2. seq[l] \in Nat /\ seq'[l] \in Nat /\ seq[l] <= seq'[l] BY <1>8, <4>0 DEF Types
        <5>3. p.id < seq'[l] BY <5>1, <5>2
        <5> QED BY <5>3 DEF l
      <4>2. CASE p \notin obj BY <1>2, <1>3, <1>8, <1>12, <4>2
      <4> QED BY <4>1, <4>2
    <3>3. {"exchange", "queue"} \subseteq Tables BY DEF Tables
    <3>4. \A b \in BindingRecord : b.x < seq["exchange"] /\ b.q < seq["queue"] =>
                                   b.x < seq'["exchange"] /\ b.q < seq'["queue"]
      BY <1>8, <3>3 DEF BindingRecord, Types
    <3>5. \A b \in bindingDb' : b.x < seq'["exchange"] /\ b.q < seq'["queue"]
      BY <1>1, <3>4 DEF IdInv, IdsUsed, Types
    <3>6. \A u \in Thread : IsBindOp(call'[u]) =>
             call'[u].b.x < seq'["exchange"] /\ call'[u].b.q < seq'["queue"]
      BY <2>3, <3>4, BindOpType DEF IdInv, IdsUsed
    <3> QED BY <3>1, <3>2, <3>5, <3>6 DEF IdsUsed
  <2>9. BindingsMatch'
    <3>1. \A p \in obj' : \A s \in db'[Table(p.name)] : s.id = p.id => s.inc = p.inc
      <4> SUFFICES ASSUME NEW p \in obj', NEW s \in db'[Table(p.name)], s.id = p.id PROVE s.inc = p.inc OBVIOUS
      <4> DEFINE l == Table(p.name)
      <4>0. l \in Tables /\ s \in db'[l] BY TableType
      <4>1. CASE p \in obj
        <5>1. p.id < seq[l] /\ p.id \in Nat BY <4>1 DEF IdInv, IdsUsed, Types, BrokerObject
        <5>2. \A q \in db[l] : q.id = p.id => q.inc = p.inc BY <4>1 DEF IdInv, BindingsMatch
        <5> HIDE DEF l
        <5>3. CASE s \in db[l] BY <5>2, <5>3
        <5>4. CASE s \notin db[l]
          <6>1. l = k /\ s.id = seq[l] BY <1>4, <2>1, <4>0, <5>4
          <6> QED BY <1>8, <4>0, <5>1, <6>1
        <5> QED BY <5>3, <5>4
      <4>2. CASE p \notin obj BY <1>2, <1>3, <1>4, <1>12, <2>1, <4>0, <4>2
      <4> QED BY <4>1, <4>2
    <3>2. ASSUME NEW b \in BindingRecord, b.x < seq["exchange"], b.q < seq["queue"], MatchesRecords(b)
          PROVE  MatchesRecords(b)'
      <4>1. "exchange" \in Tables /\ "queue" \in Tables BY DEF Tables
      <4>2. /\ b.x # seq["exchange"] /\ b.q # seq["queue"] BY <1>8, <3>2, <4>1 DEF BindingRecord
      <4> QED BY <1>4, <2>1, <3>2, <4>1, <4>2 DEF MatchesRecords
    <3>3. \A b \in bindingDb' : MatchesRecords(b)'
      BY <1>1, <3>2 DEF IdInv, BindingsMatch, IdsUsed, Types
    <3>4. ASSUME NEW u \in Thread, IsBindOp(call[u])' PROVE (MatchesRecords(call[u].b) /\ MatchesObjects(call[u].b))'
      <4>1. PICK b : b = call[u].b OBVIOUS
      <4>2. IsBindOp(call[u]) /\ call'[u] = call[u] BY <2>3, <3>4 DEF IsBindOp
      <4>3. /\ b \in BindingRecord /\ b.x < seq["exchange"] /\ b.q < seq["queue"]
            /\ MatchesRecords(b) /\ MatchesObjects(b) /\ b.xinc # i /\ b.qinc # i
        BY <2>2, <4>1, <4>2, BindOpType DEF IdInv, IdsUsed, BindingsMatch
      <4>4. MatchesRecords(b)' BY <3>2, <4>3
      <4>5. MatchesObjects(b)' BY <1>3, <1>12, <4>3 DEF MatchesObjects
      <4> QED BY <4>1, <4>2, <4>4, <4>5 DEF MatchesRecords, MatchesObjects
    <3> QED BY <3>1, <3>3, <3>4 DEF BindingsMatch
  <2>10. Quiet' /\ NoStrayBinding' BY <1>1, <1>10, <1>12 DEF IdInv, Quiet, NoStrayBinding
  <2> QED BY <2>4, <2>5, <2>6, <2>7, <2>8, <2>9, <2>10 DEF IdInv, IncInv
<1> QED BY <1>1, <1>11, <1>12

\* Exchanges and queues are kept in tables of their own.
LEMMA ObjectTables ==
  ASSUME Types, NEW o \in obj
  PROVE  /\ o.name \in XNames => Table(o.name) = "exchange"
         /\ o.name \in QNames => Table(o.name) = "queue"
         /\ o.inc \in Nat /\ o.id \in Nat
  BY NamesAssumption DEF Types, BrokerObject, Table

\* IdInv is kept by the start of a destroy: the bindings of the object leave the broker with it.
LEMMA BeginDestroyIds ==
  ASSUME IdInv, Types', NEW t \in Thread, NEW o \in obj, BeginDestroy(t, o)
  PROVE  IdInv'
<1> DEFINE d == [op |-> "destroy", name |-> o.name, id |-> o.id, inc |-> o.inc, todo |-> DestroySteps(o.name)]
<1>1. /\ call' = [call EXCEPT ![t] = d] /\ life = "up" /\ call[t] = Idle
      /\ UNCHANGED <<db, bindingDb, life, seq, incs>>
      /\ obj' = obj \ {o} /\ bound' = {b \in bound : b.xinc # o.inc /\ b.qinc # o.inc}
  BY DEF BeginDestroy, disk
<1>2. d.op = "destroy" /\ d.inc = o.inc OBVIOUS
<1> HIDE DEF d
<1>3. /\ call'[t] = d /\ \A u \in Thread : u # t => call'[u] = call[u]
  BY <1>1 DEF IdInv, Types, CallsOK
<1>4. ~IsBindOp(d) /\ d.op # "create" BY <1>2 DEF IsBindOp
<1>5. IncsUsed' BY <1>1, <1>2, <1>3, <1>4 DEF IdInv, IncInv, IncsUsed
<1>6. ASSUME NEW u \in Thread PROVE Fresh(u)'
  BY <1>1, <1>3, <1>4 DEF IdInv, IncInv, Fresh
<1>7. OneInc' /\ OneRecord' BY <1>1 DEF IdInv, IncInv, OneInc, OneRecord
<1>8. \A u \in Thread : IsBindOp(call'[u]) => call'[u] = call[u] BY <1>3, <1>4
<1>9. IdsUsed' BY <1>1, <1>8 DEF IdInv, IdsUsed
<1>10. BindingsMatch' BY <1>1, <1>8 DEF IdInv, BindingsMatch, MatchesRecords, MatchesObjects
<1>11. NoStrayBinding'
  <2> SUFFICES ASSUME NEW b \in bound'
               PROVE  /\ \E p \in obj' : p.name \in XNames /\ p.id = b.x /\ p.inc = b.xinc
                      /\ \E p \in obj' : p.name \in QNames /\ p.id = b.q /\ p.inc = b.qinc
    BY DEF NoStrayBinding
  <2>1. b \in bound /\ b.xinc # o.inc /\ b.qinc # o.inc BY <1>1
  <2>2. PICK x \in obj : x.name \in XNames /\ x.id = b.x /\ x.inc = b.xinc BY <2>1 DEF IdInv, NoStrayBinding
  <2>3. PICK q \in obj : q.name \in QNames /\ q.id = b.q /\ q.inc = b.qinc BY <2>1 DEF IdInv, NoStrayBinding
  <2>4. x \in obj' /\ q \in obj' BY <1>1, <2>1, <2>2, <2>3
  <2> QED BY <2>2, <2>3, <2>4
<1>12. Quiet' BY <1>1 DEF Quiet
<1> QED BY <1>5, <1>6, <1>7, <1>9, <1>10, <1>11, <1>12 DEF IdInv, IncInv

\* IdInv is kept by the start of a bind: both objects are the broker's.
LEMMA BeginBindingIds ==
  ASSUME IdInv, Types', NEW t \in Thread, NEW x \in obj, NEW q \in obj, NEW key \in Keys,
         BeginBinding(t, x, q, key)
  PROVE  IdInv'
<1> DEFINE b == BindingOf(x, q, key)
           op == IF b \in bound THEN "unbind" ELSE "bind"
           d == [op |-> op, b |-> b, todo |-> <<op>>]
<1>1. /\ call' = [call EXCEPT ![t] = d] /\ life = "up" /\ bound' \subseteq bound
      /\ x.name \in XNames /\ q.name \in QNames /\ call[t] = Idle
      /\ UNCHANGED <<db, bindingDb, life, seq, incs, obj>>
  BY DEF BeginBinding, disk
<1>2. b.x = x.id /\ b.q = q.id /\ b.xinc = x.inc /\ b.qinc = q.inc BY DEF BindingOf
<1>3. d.b = b /\ ~IsObjectOp(d) /\ d.op # "create" BY DEF IsObjectOp
<1> HIDE DEF b, d
<1>4. /\ call'[t] = d /\ \A u \in Thread : u # t => call'[u] = call[u]
  BY <1>1 DEF IdInv, Types, CallsOK
<1>5. IncsUsed' BY <1>1, <1>2, <1>3, <1>4 DEF IdInv, IncInv, IncsUsed
<1>6. ASSUME NEW u \in Thread PROVE Fresh(u)'
  <2> SUFFICES ASSUME call'[u].op = "create" PROVE Fresh(u)' BY DEF Fresh
  <2>1. u # t /\ call'[u] = call[u] /\ Fresh(u) BY <1>3, <1>4 DEF IdInv, IncInv
  <2>2. b.xinc # call[u].inc /\ b.qinc # call[u].inc BY <1>2, <2>1 DEF Fresh
  <2> QED BY <1>1, <1>3, <1>4, <2>1, <2>2 DEF Fresh
<1>7. OneInc' /\ OneRecord' BY <1>1 DEF IdInv, IncInv, OneInc, OneRecord
<1>8. b.x < seq["exchange"] /\ b.q < seq["queue"]
  BY <1>1, <1>2, ObjectTables DEF IdInv, IdsUsed
<1>9. IdsUsed' BY <1>1, <1>3, <1>4, <1>8 DEF IdInv, IdsUsed
<1>10. MatchesRecords(b)
  BY <1>1, <1>2, ObjectTables DEF IdInv, BindingsMatch, MatchesRecords
<1>11. MatchesObjects(b)
  BY <1>1, <1>2 DEF IdInv, IncInv, OneInc, MatchesObjects
<1>12. ASSUME NEW u \in Thread, IsBindOp(call[u])' PROVE (MatchesRecords(call[u].b) /\ MatchesObjects(call[u].b))'
  <2>1. CASE u = t BY <1>1, <1>3, <1>4, <1>10, <1>11, <2>1 DEF MatchesRecords, MatchesObjects
  <2>2. CASE u # t
    <3>1. call'[u] = call[u] /\ IsBindOp(call[u]) BY <1>4, <1>12, <2>2 DEF IsBindOp
    <3> QED BY <1>1, <3>1 DEF MatchesRecords, MatchesObjects, IdInv, BindingsMatch
  <2> QED BY <2>1, <2>2
<1>13. BindingsMatch' BY <1>1, <1>12 DEF IdInv, BindingsMatch, MatchesRecords
<1>14. NoStrayBinding' /\ Quiet' BY <1>1 DEF IdInv, NoStrayBinding, Quiet
<1> QED BY <1>5, <1>6, <1>7, <1>9, <1>13, <1>14 DEF IdInv, IncInv

\* put(): the binding added, and held by the broker if both objects are still
\* there, or an exception.
LEMMA BindDoes ==
  ASSUME Types, NEW t \in Thread, Bind(t)
  PROVE  /\ call' = [call EXCEPT ![t] = Idle] /\ life = "up" /\ call[t].op = "bind" /\ IsBindOp(call[t])
         /\ UNCHANGED <<db, dir, life, geom, seq, obj, journalList, incs>>
         /\ \/ UNCHANGED <<bindingDb, bound, kept>>
            \/ /\ bindingDb' = bindingDb \cup {call[t].b}
               /\ \A d \in bindingDb : ~SameBinding(d, call[t].b)
               /\ bound' = IF Alive(call[t].b) THEN bound \cup {call[t].b} ELSE bound
               /\ kept' = IF Alive(call[t].b) THEN [kept EXCEPT !.bound = @ \cup {call[t].b}] ELSE kept
<1>1. Doing(t, "bind") BY DEF Bind
<1>2. call[t] \in Binds /\ call[t].op = "bind" BY <1>1, Calls DEF Types
<1>3. ~IsObjectOp(call[t]) /\ IsBindOp(call[t]) BY <1>2 DEF IsObjectOp, IsBindOp
<1>4. CASE \E d \in bindingDb : SameBinding(d, call[t].b)
  BY <1>1, <1>2, <1>3, <1>4 DEF Bind, Throw, Doing
<1>5. CASE ~\E d \in bindingDb : SameBinding(d, call[t].b)
  BY <1>1, <1>2, <1>3, <1>5 DEF Bind, Doing
<1> QED BY <1>4, <1>5

\* IdInv is kept by putting a binding, which reaches the broker only if both objects are still there.
LEMMA BindIds == ASSUME IdInv, Types', NEW t \in Thread, Bind(t) PROVE IdInv'
<1> DEFINE b == call[t].b
<1>1. /\ call' = [call EXCEPT ![t] = Idle] /\ life = "up" /\ IsBindOp(call[t])
      /\ UNCHANGED <<db, dir, life, seq, obj, incs>>
      /\ bindingDb' = bindingDb \/ bindingDb' = bindingDb \cup {b}
      /\ bound' = bound \/ (bound' = bound \cup {b} /\ Alive(b))
  BY BindDoes DEF IdInv
<1>2. \A u \in Thread : Later(call[u], call'[u]) BY <1>1, LaterCalls DEF IdInv, Types
<1>3. \A u \in Thread : /\ call'[u].op = "create" => call'[u] = call[u]
                        /\ IsBindOp(call'[u]) => call'[u] = call[u]
                        /\ IsObjectOp(call'[u]) => call'[u] = call[u]
  BY <1>1, IdleIsNothing DEF IdInv, Types, CallsOK
<1>4. IncsUsed' BY <1>1, <1>3 DEF IdInv, IncInv, IncsUsed
<1>5. \A u \in Thread : Fresh(u)' BY <1>1, <1>3 DEF IdInv, IncInv, Fresh
<1>6. OneInc' /\ OneRecord' BY <1>1 DEF IdInv, IncInv, OneInc, OneRecord
<1>7. /\ b.x < seq["exchange"] /\ b.q < seq["queue"] /\ MatchesRecords(b) /\ MatchesObjects(b)
  BY <1>1 DEF IdInv, IdsUsed, BindingsMatch
<1> HIDE DEF b
<1>8. IdsUsed' BY <1>1, <1>3, <1>7 DEF IdInv, IdsUsed
<1>9. BindingsMatch' BY <1>1, <1>3, <1>7 DEF IdInv, BindingsMatch, MatchesRecords, MatchesObjects
<1>10. NoStrayBinding' BY <1>1, <1>7 DEF IdInv, NoStrayBinding, Alive, MatchesObjects
<1>11. Quiet' BY <1>1 DEF Quiet
<1> QED BY <1>4, <1>5, <1>6, <1>8, <1>9, <1>10, <1>11 DEF IdInv, IncInv

\* IdInv is kept by truncateInit, which wants every journal closed.
LEMMA TruncateIds == ASSUME IdInv, Types', Truncate PROVE IdInv'
<1>1. \A k \in Tables : db'[k] = {} /\ seq[k] <= seq'[k]
  BY Erased DEF Truncate, IdInv, Types
<1>2. \A u \in Thread : Later(call[u], call'[u]) BY DEF Truncate, Later
<1>3. Shrinks /\ life = "up" BY <1>1, <1>2 DEF Shrinks, Truncate, Erase
<1> QED BY <1>3, ShrinkKeeps

\* The tables are as they were, or empty, and no sequence has gone back.
TablesKept == \/ db' = db /\ bindingDb' = bindingDb /\ seq' = seq
              \/ (\A k \in Tables : db'[k] = {}) /\ bindingDb' = {}

\* IdInv holds of a broker that holds nothing, over such tables.
LEMMA QuietIds ==
  ASSUME IdInv, Types', \A t \in Thread : call'[t] = Idle, obj' = {}, bound' = {}, incs' = incs,
         TablesKept
  PROVE  IdInv'
<1> USE DEF TablesKept
<1>1. Quiet' /\ NoStrayBinding' BY DEF Quiet, NoStrayBinding
<1>2. \A t \in Thread : ~IsBindOp(call'[t]) /\ ~IsObjectOp(call'[t]) /\ call'[t].op # "create"
  BY IdleIsNothing
<1>3. IncsUsed' BY <1>2 DEF IdInv, IncInv, IncsUsed
<1>4. \A t \in Thread : Fresh(t)' BY <1>2 DEF Fresh
<1>5. OneInc' BY DEF OneInc
<1>6. OneRecord' BY DEF IdInv, IncInv, OneRecord
<1>7. IdsUsed' BY <1>2 DEF IdInv, IdsUsed
<1>8. BindingsMatch' BY <1>2 DEF IdInv, BindingsMatch, MatchesRecords
<1> QED BY <1>1, <1>3, <1>4, <1>5, <1>6, <1>7, <1>8 DEF IdInv, IncInv

\* IdInv is kept by a crash.
LEMMA CrashIds == ASSUME IdInv, Types', Crash PROVE IdInv'
<1>1. \A t \in Thread : call'[t] = Idle BY DEF Crash
<1>2. /\ obj' = {} /\ bound' = {} /\ incs' = incs
      /\ db' = db /\ bindingDb' = bindingDb /\ seq' = seq
  BY DEF Crash, disk
<1>3. TablesKept BY <1>2 DEF TablesKept
<1> QED BY <1>1, <1>2, <1>3, QuietIds

\* IdInv is kept by a start with --truncate.
LEMMA StartEmptyIds == ASSUME IdInv, Types', NEW opt \in Options, StartEmpty(opt) PROVE IdInv'
<1>1. obj = {} /\ bound = {} /\ \A t \in Thread : call[t] = Idle BY DEF StartEmpty, IdInv, Quiet
<1>2. /\ obj' = {} /\ bound' = {} /\ incs' = incs /\ \A t \in Thread : call'[t] = Idle
      /\ (\A k \in Tables : db'[k] = {}) /\ bindingDb' = {}
  BY <1>1, Erased DEF StartEmpty, Erase
<1>3. TablesKept BY <1>2 DEF TablesKept
<1> QED BY <1>2, <1>3, QuietIds

\* IdInv is kept by a start: recoverBindings deletes what names no recovered exchange or queue.
LEMMA StartIds == ASSUME IdInv, Types', NEW opt \in Options, Start(opt) PROVE IdInv'
<1>1. /\ life = "down" /\ UNCHANGED <<db, dir, call, incs>>
      /\ life' = "up" \/ (life' = "refused" /\ UNCHANGED <<bindingDb, seq, obj, bound>>)
  BY StartDoes DEF IdInv
<1>2. obj = {} /\ bound = {} /\ \A t \in Thread : call[t] = Idle BY <1>1 DEF IdInv, Quiet
<1>3. CASE life' = "refused"
  <2>1. /\ obj' = {} /\ bound' = {} /\ incs' = incs /\ \A t \in Thread : call'[t] = Idle
        /\ db' = db /\ bindingDb' = bindingDb /\ seq' = seq
    BY <1>1, <1>2, <1>3
  <2>2. TablesKept BY <2>1 DEF TablesKept
  <2> QED BY <2>1, <2>2, QuietIds
<1>4. CASE life' = "up"
  <2>1. PICK known \in SUBSET db["exchange"] : \E g :
          /\ seq' = [k \in Tables |-> Max({1} \cup {r.id : r \in db[k]}) + 1]
          /\ bindingDb' = RecoverBindings({r.id : r \in known}, {r.id : r \in db["queue"]})
          /\ bound' = bindingDb'
          /\ \E B : obj' = B /\ BackOK(B, known, g)
    BY <1>4, StartsUp, Zenon DEF IdInv
  <2> DEFINE R == db["queue"] \cup known \cup db["general"]
  <2>2. /\ \A o \in obj' : \E r \in R : BackFrom(r, o)
        /\ \A r \in R : \E o \in obj' : BackFrom(r, o)
    BY <2>1 DEF BackOK
  <2>3. \A r \in R : /\ r \in db[Table(r.name)] /\ Table(r.name) \in Tables
                     /\ r \in Record
    BY DEF IdInv, Types, Tables
  <2>4. /\ known \subseteq db["exchange"]
        /\ \A r \in known : r.name \in XNames
        /\ \A r \in db["queue"] : r.name \in QNames
    BY NamesAssumption DEF IdInv, Types, Tables, Table
  <2>5. \A k \in Tables : seq'[k] \in Nat /\ \A r \in db[k] : r.id < seq'[k]
    BY <2>1, MaxId DEF IdInv
  <2>6. \A b \in bindingDb' : /\ b \in bindingDb
                              /\ \E r \in known : r.id = b.x
                              /\ \E r \in db["queue"] : r.id = b.q
    BY <2>1 DEF RecoverBindings
  <2>7. \A t \in Thread : ~IsBindOp(call'[t]) /\ ~IsObjectOp(call'[t]) /\ call'[t].op # "create"
    BY <1>1, <1>2, IdleIsNothing
  <2>9. OneInc'
    <3> SUFFICES ASSUME NEW o \in obj', NEW p \in obj', o.inc = p.inc PROVE o = p BY DEF OneInc
    <3>1. PICK g : \E B : obj' = B /\ BackOK(B, known, g) BY <2>1
    <3>2. PICK r \in R : o = Back(r, g) /\ BackFrom(r, o) BY <3>1 DEF BackOK
    <3>3. PICK s \in R : p = Back(s, g) /\ BackFrom(s, p) BY <3>1 DEF BackOK
    <3> HIDE DEF R
    <3>4. r.inc = s.inc BY <3>2, <3>3 DEF BackFrom
    <3>5. r = s BY <2>3, <3>4 DEF IdInv, IncInv, OneRecord
    <3> QED BY <3>2, <3>3, <3>5
  <2> HIDE DEF R
  <2>8. IncsUsed' BY <1>1, <2>2, <2>3, <2>7 DEF IdInv, IncInv, IncsUsed, BackFrom
  <2>10. OneRecord' BY <1>1 DEF IdInv, IncInv, OneRecord
  <2>11. \A t \in Thread : Fresh(t)' BY <2>7 DEF Fresh
  <2>12. IdsUsed'
    <3>1. \A o \in obj' : o.id < seq'[Table(o.name)] BY <2>2, <2>3, <2>5 DEF BackFrom
    <3>2. \A b \in bindingDb' : b.x < seq'["exchange"] /\ b.q < seq'["queue"]
      BY <2>4, <2>5, <2>6 DEF Tables
    <3> QED BY <1>1, <2>5, <2>7, <3>1, <3>2 DEF IdsUsed
  <2>13. BindingsMatch'
    <3>1. \A o \in obj' : \A r \in db'[Table(o.name)] : r.id = o.id => r.inc = o.inc
      BY <1>1, <2>2, <2>3 DEF BackFrom, IdInv, IncInv, OneRecord
    <3>2. \A b \in bindingDb' : MatchesRecords(b)'
      BY <1>1, <2>6 DEF IdInv, BindingsMatch, MatchesRecords
    <3> QED BY <2>7, <3>1, <3>2 DEF BindingsMatch
  <2>14. NoStrayBinding'
    <3> SUFFICES ASSUME NEW b \in bindingDb'
                 PROVE  /\ \E p \in obj' : p.name \in XNames /\ p.id = b.x /\ p.inc = b.xinc
                        /\ \E p \in obj' : p.name \in QNames /\ p.id = b.q /\ p.inc = b.qinc
      BY <2>1 DEF NoStrayBinding
    <3>1. PICK r \in known : r.id = b.x BY <2>6
    <3>2. PICK s \in db["queue"] : s.id = b.q BY <2>6
    <3>3. r.inc = b.xinc /\ s.inc = b.qinc
      BY <2>4, <2>6, <3>1, <3>2 DEF IdInv, BindingsMatch, MatchesRecords
    <3>4. r \in R /\ s \in R BY DEF R
    <3> QED BY <2>2, <2>4, <3>1, <3>2, <3>3, <3>4 DEF BackFrom
  <2>15. Quiet' BY <1>4 DEF Quiet
  <2> QED BY <2>8, <2>9, <2>10, <2>11, <2>12, <2>13, <2>14, <2>15 DEF IdInv, IncInv
<1> QED BY <1>1, <1>3, <1>4

\* IdInv at the start, and kept by every step.
LEMMA InitIds == Init => IdInv
<1> SUFFICES ASSUME Init PROVE IdInv OBVIOUS
<1>1. /\ db = [k \in Tables |-> {}] /\ bindingDb = {} /\ obj = {} /\ bound = {} /\ incs = 0
      /\ dir = [n \in QNames |-> [made |-> FALSE, files |-> {}]]
      /\ seq = [k \in Tables |-> 1] /\ call = [t \in Thread |-> Idle]
      /\ kept = [obj |-> {}, bound |-> {}]
  BY DEF Init
<1>2. GeomOK
  <2>1. PICK opt \in Options : geom = StoreGeometry(opt) BY DEF Init
  <2>2. GeomTyped(geom) BY <2>1, StoreGeometryIs, Zenon
  <2> QED BY <2>2 DEF GeomTyped, GeomOK
<1>3. CallsOK BY <1>1 DEF CallsOK, StepsOK, Idle
<1>4. DirOK BY <1>1, FS_EmptySet DEF DirOK
<1>5. Types BY <1>1, <1>2, <1>3, <1>4 DEF Types
<1>6. \A t \in Thread : ~IsBindOp(call[t]) /\ ~IsObjectOp(call[t]) /\ call[t].op # "create"
  BY <1>1, IdleIsNothing
<1>7. IncInv BY <1>1, <1>6 DEF IncInv, IncsUsed, Fresh, OneInc, OneRecord
<1>8. IdsUsed /\ BindingsMatch /\ Quiet /\ NoStrayBinding
  BY <1>1, <1>6 DEF IdsUsed, BindingsMatch, Quiet, NoStrayBinding
<1> QED BY <1>5, <1>7, <1>8 DEF IdInv

\* IdInv is inductive.
LEMMA NextIds == IdInv /\ [Next]_vars => IdInv'
<1> SUFFICES ASSUME IdInv, [Next]_vars PROVE IdInv' OBVIOUS
<1>0. Types /\ IdsUsed BY DEF IdInv
<1>1. ASSUME NEW t \in Thread, NEW n \in QNames, NEW a \in QueueArgs,
             QueueGeometry(a).size # Refused, BeginCreate(t, n, QueueGeometry(a))
      PROVE  IdInv'
  <2>1. QueueGeometry(a) \in Geometry BY <1>0, <1>1, GeometryType DEF Types
  <2>2. PICK geo \in Geometry : geo = QueueGeometry(a) BY <2>1
  <2>3. BeginCreate(t, n, geo) /\ n \in Names BY <1>1, <2>2 DEF Names
  <2> QED BY <1>0, <2>3, BeginCreateType, BeginCreateIds
<1>2. ASSUME NEW t \in Thread, NEW n \in XNames \cup GNames, BeginCreate(t, n, Plain) PROVE IdInv'
  <2>1. Plain \in Geometry /\ n \in Names BY GeometryType DEF Names
  <2> QED BY <1>0, <1>2, <2>1, BeginCreateType, BeginCreateIds
<1>3. ASSUME NEW t \in Thread, SomeStep(t) PROVE IdInv'
  BY <1>0, <1>3, StepType, StepShrinks, ShrinkKeeps
<1>4. ASSUME NEW t \in Thread, PutRecord(t) PROVE IdInv'
  BY <1>0, <1>4, PutRecordType, PutRecordIds
<1>5. ASSUME NEW t \in Thread, NEW o \in obj, BeginDestroy(t, o) PROVE IdInv'
  BY <1>0, <1>5, BeginDestroyType, BeginDestroyIds
<1>6. ASSUME NEW t \in Thread, NEW x \in obj, NEW q \in obj, NEW key \in Keys, BeginBinding(t, x, q, key)
      PROVE  IdInv'
  BY <1>0, <1>6, BeginBindingType, BeginBindingIds
<1>7. ASSUME NEW t \in Thread, Bind(t) PROVE IdInv' BY <1>0, <1>7, BindType, BindIds
<1>8. CASE Truncate BY <1>0, <1>8, TruncateType, TruncateIds
<1>9. CASE Crash BY <1>0, <1>9, CrashType, CrashIds
<1>10. ASSUME NEW opt \in Options, Start(opt) PROVE IdInv' BY <1>0, <1>10, StartType, StartIds
<1>11. ASSUME NEW opt \in Options, StartEmpty(opt) PROVE IdInv'
  BY <1>0, <1>11, StartEmptyType, StartEmptyIds
<1>12. CASE UNCHANGED vars
  BY <1>12 DEF vars, IdInv, Types, CallsOK, GeomOK, DirOK, Quiet, IncInv, IncsUsed, Fresh, OneInc, OneRecord,
               IdsUsed, BindingsMatch, MatchesRecords, MatchesObjects, NoStrayBinding
<1> QED BY <1>1, <1>2, <1>3, <1>4, <1>5, <1>6, <1>7, <1>8, <1>9, <1>10, <1>11, <1>12 DEF Next, SomeStep

\* No binding ever reaches the broker between objects other than those it was made
\* for, although ids are used again after a restart and a bind can race the
\* destruction of its queue or exchange (MessageStoreImpl::bind, recoverBindings).
\* No hypothesis: exchange types may be unknown at a start, and Berkeley DB may
\* refuse to delete a record.
THEOREM NoStrayBindingAlways == Spec => []NoStrayBinding
<1>1. Spec => []IdInv BY InitIds, NextIds, PTL DEF Spec
<1>2. IdInv => NoStrayBinding BY DEF IdInv
<1> QED BY <1>1, <1>2, PTL

-----------------------------------------------------------------------------
\* Every queue's record has a holder: the broker's object, or the destroy that is
\* about to delete the record.  With one call and one object of a name, the name of
\* a queue being created is then free of records.  (A record Berkeley DB refuses to
\* delete would have no holder: DestroyMayFail is excluded where this is used.)
OneCall == \A t, u \in Thread :
  IsObjectOp(call[t]) /\ IsObjectOp(call[u]) /\ call[t].name = call[u].name => t = u
NotBusy == \A o \in obj : o.name \in QNames => ~BusyObject(o.name)
OneName == /\ \A o, p \in obj : o.name \in QNames /\ o.name = p.name => o = p
           /\ \A r, s \in db["queue"] : r.name = s.name => r = s
Same(r, o) == r.id = o.id /\ r.name = o.name /\ r.inc = o.inc
Deleting(t) == call[t].op = "destroy" /\ Head(call[t].todo) = "record"
Held(r) == \/ \E o \in obj : Same(r, o)
           \/ \E t \in Thread : Deleting(t) /\ Same(r, call[t])
RecordHeld == life = "up" => \A r \in db["queue"] : Held(r)

\* The second part of the inductive invariant.
HeldInv == OneCall /\ NotBusy /\ OneName /\ RecordHeld

\* The queue table holds records of queues only.
LEMMA QueueRecords ==
  ASSUME Types
  PROVE  /\ \A r \in db["queue"] : r.name \in QNames /\ r \in Record
         /\ \A n : Table(n) = "queue" <=> n \in QNames
         /\ "queue" \in Tables
  BY DEF Types, Tables, Table

\* A destroy about to delete its record is a call about an object.
LEMMA DeletingCall ==
  ASSUME Types, NEW t \in Thread, Deleting(t)
  PROVE  IsObjectOp(call[t]) /\ call[t].op # "create" /\ call[t] # Idle
  BY DEF Deleting, IsObjectOp, Idle

\* A step that only takes away keeps a holder for every record that is left.
LEMMA ShrinkHeld ==
  ASSUME Types, HeldInv, Shrinks,
         \A r \in db'["queue"] : \A t \in Thread :
           Deleting(t) /\ Same(r, call[t]) => call'[t] = call[t]
  PROVE  HeldInv'
<1>1. \A t \in Thread : IsObjectOp(call'[t]) => IsObjectOp(call[t]) /\ call'[t].name = call[t].name
  BY LaterSame DEF Shrinks
<1>2. OneCall' BY <1>1 DEF HeldInv, OneCall
<1>3. NotBusy' BY <1>1 DEF HeldInv, NotBusy, BusyObject, Shrinks
<1>4. OneName' BY QueueRecords DEF HeldInv, OneName, Shrinks
<1>5. RecordHeld'
  <2> SUFFICES ASSUME life' = "up", NEW r \in db'["queue"] PROVE Held(r)' BY DEF RecordHeld
  <2>1. Held(r) BY QueueRecords DEF HeldInv, RecordHeld, Shrinks
  <2> QED BY <2>1 DEF Held, Shrinks, Deleting
<1> QED BY <1>2, <1>3, <1>4, <1>5 DEF HeldInv

\* A step of one thread's call leaves the calls of the others alone.
LEMMA OthersWait ==
  ASSUME CallsOK, NEW t \in Thread,
         \/ call' = call
         \/ call' = [call EXCEPT ![t] = Idle]
         \/ \E s : call' = [call EXCEPT ![t] = [call[t] EXCEPT !.todo = s]]
  PROVE  \A u \in Thread : u # t => call'[u] = call[u]
<1>1. CASE \E s : call' = [call EXCEPT ![t] = [call[t] EXCEPT !.todo = s]]
  BY <1>1 DEF CallsOK
<1> QED BY <1>1 DEF CallsOK

\* HeldInv is kept by every step that takes away.
LEMMA StepHeld ==
  ASSUME ~DestroyMayFail, Types, HeldInv, NEW t \in Thread, SomeStep(t)
  PROVE  HeldInv'
<1>1. Shrinks /\ life = "up" BY StepShrinks
<1>2. CallsOK BY DEF Types
<1>3. CASE Deleting(t)
  <2>1. call[t] \in Destroys BY <1>2, <1>3 DEF Deleting, CallsOK, Creates, Destroys, Binds, Idle
  <2>2. Doing(t, "record") BY <1>1, <1>3, <2>1 DEF Deleting, Doing, Destroys
  <2>3. ~Doing(t, "clear") /\ ~Doing(t, "files") /\ ~Doing(t, "bindings") /\ ~Doing(t, "unlink") /\ ~Doing(t, "unbind")
    BY <2>2 DEF Doing
  <2>4. DeleteRecord(t)
    BY <2>2, <2>3 DEF SomeStep, ClearDir, CreateFile, WriteInfo, DeleteBindings, DeleteDir, Unbind, Fail
  <2>5. /\ db' = [db EXCEPT ![Table(call[t].name)] = {r \in @ : r.id # call[t].id}]
        /\ \A u \in Thread : u # t => call'[u] = call[u]
    BY <1>2, <2>4, DeleteRecordDoes DEF CallsOK
  <2>6. ASSUME NEW r \in db'["queue"], Same(r, call[t]) PROVE FALSE
    <3>1. r \in db["queue"] BY <1>1, QueueRecords DEF Shrinks
    <3>2. Table(call[t].name) = "queue" BY <2>6, <3>1, QueueRecords DEF Same
    <3> QED BY <2>5, <2>6, <3>2, QueueRecords DEF Same, Types
  <2> QED BY <1>1, <2>5, <2>6, ShrinkHeld
<1>4. CASE ~Deleting(t)
  <2>1. \A u \in Thread : u # t => call'[u] = call[u]
    <3>3. CASE ClearDir(t) BY <1>2, <3>3, ClearDirDoes, OthersWait
    <3>4. CASE CreateFile(t) BY <1>2, <3>4, CreateFileDoes, OthersWait
    <3>5. CASE WriteInfo(t) BY <1>2, <3>5, WriteInfoDoes, OthersWait
    <3>6. CASE DeleteRecord(t) BY <1>2, <3>6, DeleteRecordDoes, OthersWait
    <3>7. CASE DeleteBindings(t) BY <1>2, <3>7, DeleteBindingsDoes, OthersWait
    <3>8. CASE DeleteDir(t) BY <1>2, <3>8, DeleteDirDoes, OthersWait
    <3>9. CASE Unbind(t) \/ Fail(t) BY <1>2, <3>9, OthersWait DEF Unbind, Fail, Throw
    <3> QED BY <3>3, <3>4, <3>5, <3>6, <3>7, <3>8, <3>9 DEF SomeStep
  <2> QED BY <1>1, <1>4, <2>1, ShrinkHeld
<1> QED BY <1>3, <1>4

\* HeldInv is kept by the start of a create: no object and no call has its name.
LEMMA BeginCreateHeld ==
  ASSUME Types, HeldInv, NEW t \in Thread, NEW n \in Names, NEW geo \in Geometry, BeginCreate(t, n, geo)
  PROVE  HeldInv'
<1> DEFINE d == [op |-> "create", name |-> n, id |-> 0, inc |-> incs + 1, geo |-> geo,
                 todo |-> CreateSteps(n)]
<1>1. /\ call' = [call EXCEPT ![t] = d] /\ call[t] = Idle /\ life = "up"
      /\ ~BusyObject(n) /\ \A o \in obj : o.name # n
      /\ UNCHANGED <<db, life, obj>>
  BY DEF BeginCreate, disk
<1>2. d.op = "create" /\ d.name = n OBVIOUS
<1> HIDE DEF d
<1>3. /\ call'[t] = d /\ \A u \in Thread : u # t => call'[u] = call[u]
  BY <1>1 DEF Types, CallsOK
<1>4. OneCall' BY <1>1, <1>2, <1>3 DEF HeldInv, OneCall, BusyObject
<1>5. NotBusy' BY <1>1, <1>2, <1>3 DEF HeldInv, NotBusy, BusyObject
<1>6. OneName' BY <1>1 DEF HeldInv, OneName
<1>7. RecordHeld'
  <2> SUFFICES ASSUME NEW r \in db["queue"] PROVE Held(r)' BY <1>1 DEF RecordHeld
  <2>1. Held(r) BY <1>1 DEF HeldInv, RecordHeld
  <2>2. \A u \in Thread : Deleting(u) => u # t BY <1>1, DeletingCall
  <2> QED BY <1>1, <1>3, <2>1, <2>2 DEF Held, Deleting
<1> QED BY <1>4, <1>5, <1>6, <1>7 DEF HeldInv

\* HeldInv is kept by putting the record: the create's name has no record yet, and the object made holds the new one.
LEMMA PutRecordHeld ==
  ASSUME Types, HeldInv, NEW t \in Thread, PutRecord(t)
  PROVE  HeldInv'
<1> DEFINE k == Table(call[t].name)
           n == call[t].name
           c == [call[t] EXCEPT !.id = seq[k]]
           o == ObjectOf(c)
           r == [id |-> seq[k], name |-> n, inc |-> call[t].inc]
<1>1. /\ Doing(t, "put") /\ call' = [call EXCEPT ![t] = Idle] /\ life' = life
      /\ \/ db' = db /\ obj' = obj
         \/ db' = [db EXCEPT ![k] = @ \cup {r}] /\ obj' = obj \cup {o}
  BY PutRecordDoes DEF Types
<1>2. call[t] \in Creates /\ k \in Tables BY <1>1, Calls, TableType DEF Types
<1>3. o.name = n /\ Same(r, o) BY <1>2 DEF ObjectOf, Creates, Same
<1>4. r.name = n OBVIOUS
<1>5. IsObjectOp(call[t]) /\ call[t].op = "create" /\ life = "up"
  BY <1>1, <1>2 DEF Creates, IsObjectOp, Doing
<1>6. k = "queue" <=> n \in QNames BY QueueRecords
<1>7. call[t].name = n OBVIOUS
<1> HIDE DEF o, r, n, k
<1>8. /\ call'[t] = Idle /\ \A u \in Thread : u # t => call'[u] = call[u]
  BY <1>1 DEF Types, CallsOK
<1>9. \A u \in Thread : IsObjectOp(call'[u]) => u # t /\ call'[u] = call[u] BY <1>8, IdleIsNothing
<1>10. \A u \in Thread : Deleting(u) => Deleting(u)' /\ call'[u] = call[u]
  BY <1>5, <1>8, DeletingCall DEF Deleting
<1>11. OneCall' BY <1>9 DEF HeldInv, OneCall
<1>12. CASE db' = db /\ obj' = obj
  <2>1. NotBusy' BY <1>9, <1>12 DEF HeldInv, NotBusy, BusyObject
  <2>2. OneName' BY <1>12 DEF HeldInv, OneName
  <2>3. RecordHeld' BY <1>1, <1>10, <1>12 DEF HeldInv, RecordHeld, Held
  <2> QED BY <1>11, <2>1, <2>2, <2>3 DEF HeldInv
<1>13. CASE db' = [db EXCEPT ![k] = @ \cup {r}] /\ obj' = obj \cup {o}
  <2>1. \A u \in Thread : u # t /\ IsObjectOp(call[u]) => call[u].name # n
    BY <1>5, <1>7 DEF HeldInv, OneCall
  <2>2. NotBusy' BY <1>3, <1>9, <1>13, <2>1 DEF HeldInv, NotBusy, BusyObject
  <2>3. n \in QNames => \A p \in obj : p.name # n BY <1>5, <1>7 DEF HeldInv, NotBusy, BusyObject
  <2>4. n \in QNames => \A s \in db["queue"] : s.name # n
    BY <1>5, <2>1, <2>3, DeletingCall DEF HeldInv, RecordHeld, Held, Same
  <2>5. db'["queue"] = IF k = "queue" THEN db["queue"] \cup {r} ELSE db["queue"]
    BY <1>2, <1>13, QueueRecords DEF Types
  <2>6. OneName' BY <1>3, <1>4, <1>6, <1>13, <2>3, <2>4, <2>5 DEF HeldInv, OneName
  <2>7. RecordHeld'
    <3> SUFFICES ASSUME NEW s \in db'["queue"] PROVE Held(s)' BY DEF RecordHeld
    <3>1. CASE s \in db["queue"]
      <4>1. Held(s) BY <1>5, <3>1 DEF HeldInv, RecordHeld
      <4> QED BY <1>10, <1>13, <4>1 DEF Held
    <3>2. CASE s = r BY <1>3, <1>13, <3>2 DEF Held
    <3> QED BY <2>5, <3>1, <3>2
  <2> QED BY <1>11, <2>2, <2>6, <2>7 DEF HeldInv
<1> QED BY <1>1, <1>12, <1>13

\* HeldInv is kept by the start of a destroy, which takes over from the object.
LEMMA BeginDestroyHeld ==
  ASSUME Types, HeldInv, NEW t \in Thread, NEW o \in obj, BeginDestroy(t, o)
  PROVE  HeldInv'
<1> DEFINE d == [op |-> "destroy", name |-> o.name, id |-> o.id, inc |-> o.inc, todo |-> DestroySteps(o.name)]
<1>1. /\ call' = [call EXCEPT ![t] = d] /\ life = "up" /\ call[t] = Idle
      /\ UNCHANGED <<db, life>> /\ ~BusyObject(o.name)
      /\ obj' = obj \ {o}
  BY DEF BeginDestroy, disk
<1>2. d.op = "destroy" /\ d.name = o.name /\ \A r : Same(r, o) => Same(r, d) BY DEF Same
<1>3. Head(d.todo) = "record" BY DEF DestroySteps
<1> HIDE DEF d
<1>4. /\ call'[t] = d /\ \A u \in Thread : u # t => call'[u] = call[u]
  BY <1>1 DEF Types, CallsOK
<1>5. OneCall' BY <1>1, <1>2, <1>4 DEF HeldInv, OneCall, BusyObject
<1>6. NotBusy' BY <1>1, <1>2, <1>4 DEF HeldInv, NotBusy, BusyObject, OneName
<1>7. OneName' BY <1>1 DEF HeldInv, OneName
<1>8. RecordHeld'
  <2> SUFFICES ASSUME NEW r \in db["queue"] PROVE Held(r)' BY <1>1 DEF RecordHeld
  <2>1. Held(r) BY <1>1 DEF HeldInv, RecordHeld
  <2>2. \A u \in Thread : Deleting(u) => u # t BY <1>1, DeletingCall
  <2>3. CASE Same(r, o) BY <1>2, <1>3, <1>4, <2>3 DEF Held, Deleting
  <2>4. CASE ~Same(r, o) BY <1>1, <1>4, <2>1, <2>2, <2>4 DEF Held, Deleting
  <2> QED BY <2>3, <2>4
<1> QED BY <1>5, <1>6, <1>7, <1>8 DEF HeldInv

\* HeldInv is kept by calls that are not about an object.
LEMMA OtherCallsHeld ==
  ASSUME Types, HeldInv, NEW t \in Thread, ~IsObjectOp(call[t]), UNCHANGED <<db, obj, life>>,
         ~IsObjectOp(call'[t]), \A u \in Thread : u # t => call'[u] = call[u]
  PROVE  HeldInv'
<1>1. OneCall' /\ NotBusy' BY DEF HeldInv, OneCall, NotBusy, BusyObject
<1>2. OneName' BY DEF HeldInv, OneName
<1>3. \A u \in Thread : Deleting(u) => u # t BY DeletingCall
<1>4. RecordHeld' BY <1>3 DEF HeldInv, RecordHeld, Held, Deleting
<1> QED BY <1>1, <1>2, <1>4 DEF HeldInv

\* HeldInv is kept by the start of a bind or unbind.
LEMMA BeginBindingHeld ==
  ASSUME Types, HeldInv, NEW t \in Thread, NEW x \in obj, NEW q \in obj, NEW key \in Keys,
         BeginBinding(t, x, q, key)
  PROVE  HeldInv'
<1> DEFINE b == BindingOf(x, q, key)
           op == IF b \in bound THEN "unbind" ELSE "bind"
           d == [op |-> op, b |-> b, todo |-> <<op>>]
<1>1. call' = [call EXCEPT ![t] = d] /\ call[t] = Idle /\ UNCHANGED <<db, obj, life>>
  BY DEF BeginBinding, disk
<1>2. ~IsObjectOp(d) BY DEF IsObjectOp
<1> HIDE DEF d
<1> QED BY <1>1, <1>2, IdleIsNothing, OtherCallsHeld DEF Types, CallsOK

\* HeldInv is kept by putting a binding.
LEMMA BindHeld == ASSUME Types, HeldInv, NEW t \in Thread, Bind(t) PROVE HeldInv'
<1>1. /\ call' = [call EXCEPT ![t] = Idle] /\ ~IsObjectOp(call[t])
      /\ UNCHANGED <<db, obj, life>>
  BY BindDoes DEF IsObjectOp
<1> QED BY <1>1, IdleIsNothing, OtherCallsHeld DEF Types, CallsOK

\* HeldInv holds of a broker in no call, over an empty table or when down.
LEMMA NoneHeld ==
  ASSUME \A t \in Thread : call'[t] = Idle, OneName', life' = "up" => db'["queue"] = {}
  PROVE  HeldInv'
<1>1. OneCall' /\ NotBusy' BY IdleIsNothing DEF OneCall, NotBusy, BusyObject
<1>2. RecordHeld' BY DEF RecordHeld
<1> QED BY <1>1, <1>2 DEF HeldInv

\* HeldInv is kept by truncateInit.
LEMMA TruncateHeld == ASSUME Types, HeldInv, Truncate PROVE HeldInv'
<1>1. db'["queue"] = {} BY Erased, QueueRecords DEF Truncate
<1>2. OneName' BY <1>1 DEF HeldInv, OneName, Truncate
<1> QED BY <1>1, <1>2, NoneHeld DEF Truncate

\* HeldInv is kept by a crash.
LEMMA CrashHeld == ASSUME Types, HeldInv, Crash PROVE HeldInv'
<1>1. OneName' /\ life' # "up" /\ \A t \in Thread : call'[t] = Idle
  BY DEF HeldInv, OneName, Crash, disk
<1> QED BY <1>1, NoneHeld

\* HeldInv is kept by a start with --truncate.
LEMMA StartEmptyHeld ==
  ASSUME Types, Quiet, HeldInv, NEW opt \in Options, StartEmpty(opt) PROVE HeldInv'
<1>1. db'["queue"] = {} BY Erased, QueueRecords DEF StartEmpty
<1>2. obj' = {} /\ \A t \in Thread : call'[t] = Idle BY DEF StartEmpty, Quiet
<1>3. OneName' BY <1>1, <1>2 DEF OneName
<1> QED BY <1>1, <1>2, <1>3, NoneHeld

\* HeldInv is kept by a start, which makes an object for every record.
LEMMA StartHeld ==
  ASSUME Types, IdsUsed, Quiet, HeldInv, NEW opt \in Options, Start(opt) PROVE HeldInv'
<1>1. /\ life = "down" /\ UNCHANGED <<db, dir, call, incs>>
      /\ life' = "up" \/ (life' = "refused" /\ UNCHANGED <<bindingDb, seq, obj, bound>>)
  BY StartDoes
<1>2. obj = {} /\ \A t \in Thread : call'[t] = Idle BY <1>1 DEF Quiet
<1>3. CASE life' = "refused"
  <2>1. OneName' BY <1>1, <1>2, <1>3 DEF HeldInv, OneName
  <2> QED BY <1>2, <1>3, <2>1, NoneHeld
<1>4. CASE life' = "up"
  <2>1. PICK known \in SUBSET db["exchange"] : \E g : \E B : obj' = B /\ BackOK(B, known, g)
    BY <1>4, StartsUp, Zenon
  <2>2. PICK g : \E B : obj' = B /\ BackOK(B, known, g) BY <2>1
  <2> DEFINE R == db["queue"] \cup known \cup db["general"]
  <2>3. /\ \A o \in obj' : \E r \in R : o = Back(r, g) /\ BackFrom(r, o)
        /\ \A r \in R : \E o \in obj' : BackFrom(r, o)
    BY <2>2 DEF BackOK
  <2>4. \A r \in R : r.name \in QNames => r \in db["queue"]
    BY NamesAssumption DEF Types, Tables, Table
  <2>5. db["queue"] \subseteq R OBVIOUS
  <2> HIDE DEF R
  <2>6. OneName'
    <3>1. ASSUME NEW o \in obj', NEW p \in obj', o.name \in QNames, o.name = p.name PROVE o = p
      <4>1. PICK r \in R : o = Back(r, g) /\ BackFrom(r, o) BY <2>3
      <4>2. PICK s \in R : p = Back(s, g) /\ BackFrom(s, p) BY <2>3
      <4>3. r \in db["queue"] /\ s \in db["queue"] /\ r.name = s.name
        BY <2>4, <3>1, <4>1, <4>2 DEF BackFrom
      <4>4. r = s BY <4>3 DEF HeldInv, OneName
      <4> QED BY <4>1, <4>2, <4>4
    <3> QED BY <1>1, <3>1 DEF HeldInv, OneName
  <2>7. RecordHeld'
    <3> SUFFICES ASSUME NEW r \in db'["queue"] PROVE Held(r)' BY DEF RecordHeld
    <3>1. \E o \in obj' : BackFrom(r, o) BY <1>1, <2>3, <2>5
    <3> QED BY <3>1 DEF Held, Same, BackFrom
  <2>8. OneCall' /\ NotBusy' BY <1>2, IdleIsNothing DEF OneCall, NotBusy, BusyObject
  <2> QED BY <2>6, <2>7, <2>8 DEF HeldInv
<1> QED BY <1>1, <1>3, <1>4

\* HeldInv at the start.
LEMMA InitHeld == Init => HeldInv
<1> SUFFICES ASSUME Init PROVE HeldInv OBVIOUS
<1>1. obj = {} /\ db["queue"] = {} /\ \A t \in Thread : call[t] = Idle BY DEF Init, Tables
<1> QED BY <1>1, IdleIsNothing DEF HeldInv, OneCall, NotBusy, BusyObject, OneName, RecordHeld

\* HeldInv is inductive, given IdInv, if a record is never refused deletion.
LEMMA NextHeld == ASSUME ~DestroyMayFail, IdInv, HeldInv, [Next]_vars PROVE HeldInv'
<1>0. Types /\ IdsUsed /\ Quiet BY DEF IdInv
<1>1. ASSUME NEW t \in Thread, NEW n \in QNames, NEW a \in QueueArgs,
             QueueGeometry(a).size # Refused, BeginCreate(t, n, QueueGeometry(a))
      PROVE  HeldInv'
  <2>1. QueueGeometry(a) \in Geometry BY <1>0, <1>1, GeometryType DEF Types
  <2>2. PICK geo \in Geometry : geo = QueueGeometry(a) BY <2>1
  <2>3. BeginCreate(t, n, geo) /\ n \in Names BY <1>1, <2>2 DEF Names
  <2> QED BY <1>0, <2>3, BeginCreateHeld
<1>2. ASSUME NEW t \in Thread, NEW n \in XNames \cup GNames, BeginCreate(t, n, Plain) PROVE HeldInv'
  <2>1. Plain \in Geometry /\ n \in Names BY GeometryType DEF Names
  <2> QED BY <1>0, <1>2, <2>1, BeginCreateHeld
<1>3. ASSUME NEW t \in Thread, SomeStep(t) PROVE HeldInv' BY <1>0, <1>3, StepHeld
<1>4. ASSUME NEW t \in Thread, PutRecord(t) PROVE HeldInv' BY <1>0, <1>4, PutRecordHeld
<1>5. ASSUME NEW t \in Thread, NEW o \in obj, BeginDestroy(t, o) PROVE HeldInv'
  BY <1>0, <1>5, BeginDestroyHeld
<1>6. ASSUME NEW t \in Thread, NEW x \in obj, NEW q \in obj, NEW key \in Keys, BeginBinding(t, x, q, key)
      PROVE  HeldInv'
  BY <1>0, <1>6, BeginBindingHeld
<1>7. ASSUME NEW t \in Thread, Bind(t) PROVE HeldInv' BY <1>0, <1>7, BindHeld
<1>8. CASE Truncate BY <1>0, <1>8, TruncateHeld
<1>9. CASE Crash BY <1>0, <1>9, CrashHeld
<1>10. ASSUME NEW opt \in Options, Start(opt) PROVE HeldInv' BY <1>0, <1>10, StartHeld
<1>11. ASSUME NEW opt \in Options, StartEmpty(opt) PROVE HeldInv' BY <1>0, <1>11, StartEmptyHeld
<1>12. CASE UNCHANGED vars
  BY <1>12 DEF vars, HeldInv, OneCall, NotBusy, BusyObject, OneName, RecordHeld, Held, Deleting
<1> QED BY <1>1, <1>2, <1>3, <1>4, <1>5, <1>6, <1>7, <1>8, <1>9, <1>10, <1>11, <1>12 DEF Next, SomeStep

-----------------------------------------------------------------------------
\* The whole journal of a queue: every data file its geometry counts and the info
\* file, all made by the same create.  A create has made the first k files of it
\* (Making), and has made it whole when it puts the record.
Files(inc, geo, S) == {[f |-> j, inc |-> inc, geo |-> geo] : j \in S}
HasJournal(n, inc, geo) == dir[n].files = Files(inc, geo, (0 .. geo.njf - 1) \cup {InfoFile})
Making(t) ==
  call[t].op = "create" /\ call[t].name \in QNames =>
    /\ call[t].todo = <<"files", "put">> =>
         \E k \in 0 .. call[t].geo.njf :
           dir[call[t].name].files = Files(call[t].inc, call[t].geo, 0 .. k - 1)
    /\ call[t].todo = <<"put">> => HasJournal(call[t].name, call[t].inc, call[t].geo)
RecordWhole == \A r \in db["queue"] : \E geo \in Geometry : HasJournal(r.name, r.inc, geo)
JournalInv == RecordWhole /\ \A t \in Thread : Making(t)

\* The number of files made is the number of the next file.
LEMMA FilesCount ==
  ASSUME NEW k \in Nat, NEW inc, NEW geo
  PROVE  LET S == Files(inc, geo, 0 .. k - 1)
         IN  Cardinality(S) = k /\ {g \in S : g.inc = inc} = S
<1> DEFINE S == Files(inc, geo, 0 .. k - 1)
           f == [j \in 0 .. k - 1 |-> [f |-> j, inc |-> inc, geo |-> geo]]
<1>1. IsFiniteSet(0 .. k - 1) /\ Cardinality(0 .. k - 1) = k BY FS_Interval
<1>2. f \in Bijection(0 .. k - 1, S)
  BY DEF Bijection, Injection, Surjection, IsInjective, Files
<1>3. ExistsBijection(0 .. k - 1, S) BY <1>2 DEF ExistsBijection
<1> HIDE DEF f
<1>4. Cardinality(S) = k BY <1>1, <1>3, FS_Bijection
<1>5. {g \in S : g.inc = inc} = S BY DEF Files
<1> QED BY <1>4, <1>5

\* A step that touches one directory leaves the journals of other names whole.
LEMMA Elsewhere ==
  ASSUME Types, JournalInv, NEW t \in Thread, NEW m, 
         \A n \in QNames : n # m => dir'[n].files = dir[n].files,
         db'["queue"] \subseteq db["queue"], \A r \in db'["queue"] : r.name # m,
         \A u \in Thread : u # t => call'[u] = call[u] /\ ~(IsObjectOp(call[u]) /\ call[u].name = m),
         Making(t)'
  PROVE  JournalInv'
<1>1. RecordWhole' BY QueueRecords DEF JournalInv, RecordWhole, HasJournal
<1>2. ASSUME NEW u \in Thread PROVE Making(u)'
  <2>1. CASE u = t BY <2>1
  <2>2. CASE u # t
    <3> SUFFICES ASSUME call'[u].op = "create", call'[u].name \in QNames PROVE Making(u)' BY DEF Making
    <3>1. call'[u] = call[u] /\ call[u].name # m /\ call[u].op = "create" BY <2>2 DEF IsObjectOp
    <3>2. dir'[call[u].name].files = dir[call[u].name].files BY <3>1
    <3>3. Making(u) BY DEF JournalInv
    <3> QED BY <3>1, <3>2, <3>3 DEF Making, HasJournal
  <2> QED BY <2>1, <2>2
<1> QED BY <1>1, <1>2 DEF JournalInv

\* With no file touched, a record put must have its journal.
LEMMA SameFiles ==
  ASSUME Types, JournalInv, dir' = dir,
         \A r \in db'["queue"] : r \in db["queue"] \/ \E geo \in Geometry : HasJournal(r.name, r.inc, geo),
         \A u \in Thread : \/ call'[u] = call[u]
                           \/ call'[u].op # "create"
                           \/ call'[u].name \in QNames => call'[u].todo = <<"clear", "files", "put">>
  PROVE  JournalInv'
<1>1. RecordWhole' BY DEF JournalInv, RecordWhole, HasJournal
<1>2. ASSUME NEW u \in Thread PROVE Making(u)'
  <2>1. CASE call'[u] = call[u] BY <2>1 DEF JournalInv, Making, HasJournal
  <2>2. CASE call'[u].op # "create" BY <2>2 DEF Making
  <2>3. CASE call'[u].name \in QNames => call'[u].todo = <<"clear", "files", "put">>
    <3>1. call'[u].name \in QNames => call'[u].todo # <<"files", "put">> /\ call'[u].todo # <<"put">>
      BY <2>3
    <3> QED BY <3>1 DEF Making
  <2> QED BY <2>1, <2>2, <2>3
<1> QED BY <1>1, <1>2 DEF JournalInv

\* Nobody holds the name of a queue being made, or of one whose record is gone.
LEMMA NameFree ==
  ASSUME Types, HeldInv, life = "up", NEW t \in Thread, IsObjectOp(call[t]), ~Deleting(t), call[t].name \in QNames
  PROVE  /\ \A r \in db["queue"] : r.name # call[t].name
         /\ \A u \in Thread : u # t => ~(IsObjectOp(call[u]) /\ call[u].name = call[t].name)
<1>1. \A u \in Thread : u # t => ~(IsObjectOp(call[u]) /\ call[u].name = call[t].name)
  BY DEF HeldInv, OneCall
<1>2. \A o \in obj : o.name # call[t].name BY DEF HeldInv, NotBusy, BusyObject
<1>3. ASSUME NEW r \in db["queue"], r.name = call[t].name PROVE FALSE
  <2>1. Held(r) BY DEF HeldInv, RecordHeld
  <2> QED BY <1>1, <1>2, <1>3, <2>1, DeletingCall DEF Held, Same
<1> QED BY <1>1, <1>3

\* JournalInv is kept by clearing a directory: its name is free.
LEMMA ClearDirJournal == ASSUME Types, HeldInv, JournalInv, NEW t \in Thread, ClearDir(t) PROVE JournalInv'
<1> DEFINE n == call[t].name
<1>0. CallsOK BY DEF Types
<1>1. /\ Doing(t, "clear") /\ db' = db /\ life = "up"
      /\ call[t] \in Creates /\ n \in QNames /\ call[t].todo = <<"clear", "files", "put">>
  BY <1>0, ClearDirDoes, Calls DEF Doing
<1>2. \A u \in Thread : u # t => call'[u] = call[u] BY <1>0, ClearDirDoes, OthersWait
<1>3. IsObjectOp(call[t]) /\ ~Deleting(t) BY <1>1 DEF IsObjectOp, Creates, Deleting
<1>4. \A m \in QNames : m # n => dir'[m].files = dir[m].files
  BY <1>0, <1>1, ClearDirDoes DEF Types, DirOK
<1>5. Making(t)'
  <2>1. CASE call' = call
    <3>1. call[t].todo # <<"files", "put">> /\ call[t].todo # <<"put">> BY <1>1
    <3> QED BY <2>1, <3>1 DEF Making
  <2>2. CASE /\ dir[n].files = {} /\ dir' = [dir EXCEPT ![n].made = TRUE]
             /\ call' = [call EXCEPT ![t] = [call[t] EXCEPT !.todo = <<"files", "put">>]]
    <3>1. /\ call'[t].todo = <<"files", "put">> /\ call'[t].name = n
          /\ call'[t].inc = call[t].inc /\ call'[t].geo = call[t].geo
      BY <1>0, <1>1, <2>2 DEF CallsOK, Creates
    <3>2. dir'[n].files = {} BY <1>1, <2>2 DEF Types, DirOK
    <3>3. 0 \in 0 .. call[t].geo.njf BY <1>1, FilesAssumption DEF Creates, Geometry
    <3>4. \E k \in 0 .. call'[t].geo.njf :
            dir'[call'[t].name].files = Files(call'[t].inc, call'[t].geo, 0 .. k - 1)
      BY <3>1, <3>2, <3>3 DEF Files
    <3>5. call'[t].todo # <<"put">> BY <3>1
    <3> QED BY <3>4, <3>5 DEF Making
  <2> QED BY <1>0, <2>1, <2>2, ClearDirDoes
<1> QED BY <1>1, <1>2, <1>3, <1>4, <1>5, NameFree, Elsewhere

\* How far a create has come with its files.
LEMMA FilesSoFar ==
  ASSUME Types, JournalInv, NEW t \in Thread, Doing(t, "files")
  PROVE  /\ FilesMade(call[t]) \in 0 .. call[t].geo.njf
         /\ dir[call[t].name].files = Files(call[t].inc, call[t].geo, 0 .. FilesMade(call[t]) - 1)
         /\ call[t].geo.njf \in Nat /\ call[t].geo.njf <= MaxFiles
<1>1. call[t] \in Creates /\ call[t].name \in QNames /\ call[t].todo = <<"files", "put">> BY Calls DEF Types
<1>2. call[t].op = "create" /\ call[t].geo \in Geometry BY <1>1 DEF Creates
<1>3. call[t].geo.njf \in Nat /\ call[t].geo.njf <= MaxFiles
  BY <1>2, FilesAssumption DEF Geometry
<1>4. PICK k \in 0 .. call[t].geo.njf :
             dir[call[t].name].files = Files(call[t].inc, call[t].geo, 0 .. k - 1)
  BY <1>1, <1>2 DEF JournalInv, Making
<1>5. k \in Nat BY <1>3
<1>6. FilesMade(call[t]) = k BY <1>4, <1>5, FilesCount DEF FilesMade
<1> QED BY <1>3, <1>4, <1>6

\* One file of one directory is written.
LEMMA FileWritten ==
  ASSUME Types, NEW t \in Thread, call[t].name \in QNames, NEW f, WriteFile(call[t], f)
  PROVE  /\ dir'[call[t].name].files = {g \in dir[call[t].name].files : g.f # f}
                                        \cup {[f |-> f, inc |-> call[t].inc, geo |-> call[t].geo]}
         /\ \A m \in QNames : /\ m # call[t].name => dir'[m].files = dir[m].files
                              /\ dir'[m].made = dir[m].made
  BY DEF Types, DirOK, WriteFile

\* JournalInv is kept by making a data file: the next in order.
LEMMA CreateFileJournal == ASSUME Types, HeldInv, JournalInv, NEW t \in Thread, CreateFile(t) PROVE JournalInv'
<1> DEFINE n == call[t].name
           k == FilesMade(call[t])
<1>0. CallsOK BY DEF Types
<1>1. /\ Doing(t, "files") /\ db' = db /\ life = "up"
      /\ call[t] \in Creates /\ n \in QNames /\ call[t].todo = <<"files", "put">>
  BY <1>0, CreateFileDoes, Calls DEF Doing
<1>2. \A u \in Thread : u # t => call'[u] = call[u] BY <1>0, CreateFileDoes, OthersWait
<1>3. IsObjectOp(call[t]) /\ ~Deleting(t) BY <1>1 DEF IsObjectOp, Creates, Deleting
<1>4. CASE dir' = dir /\ call' = [call EXCEPT ![t] = Idle]
  <2>1. \A u \in Thread : call'[u] = call[u] \/ call'[u].op # "create"
    BY <1>0, <1>4 DEF CallsOK, Idle
  <2> QED BY <1>1, <1>4, <2>1, SameFiles
<1>5. CASE k < call[t].geo.njf /\ WriteFile(call[t], k) /\ call' = call
  <2>1. /\ dir'[n].files = {g \in dir[n].files : g.f # k} \cup {[f |-> k, inc |-> call[t].inc, geo |-> call[t].geo]}
        /\ \A m \in QNames : m # n => dir'[m].files = dir[m].files
    BY <1>1, <1>5, FileWritten
  <2>2. /\ k \in Nat /\ call[t].geo.njf \in Nat
        /\ dir[n].files = Files(call[t].inc, call[t].geo, 0 .. k - 1)
    BY <1>1, FilesSoFar
  <2> HIDE DEF k
  <2>3. dir'[n].files = Files(call[t].inc, call[t].geo, 0 .. (k + 1) - 1)
    <3>1. PICK inc : inc = call[t].inc OBVIOUS
    <3>2. PICK geo : geo = call[t].geo OBVIOUS
    <3>3. PICK D : D = dir[n].files OBVIOUS
    <3>4. PICK p : p = k OBVIOUS
    <3>5. 0 .. (p + 1) - 1 = (0 .. p - 1) \cup {p} /\ p \notin 0 .. p - 1 BY <2>2, <3>4
    <3>6. D = Files(inc, geo, 0 .. p - 1) BY <2>2, <3>1, <3>2, <3>3, <3>4, Zenon
    <3>7. {g \in D : g.f # p} \cup {[f |-> p, inc |-> inc, geo |-> geo]} = Files(inc, geo, (0 .. p - 1) \cup {p})
      BY <3>5, <3>6 DEF Files
    <3>8. {g \in D : g.f # p} \cup {[f |-> p, inc |-> inc, geo |-> geo]} = Files(inc, geo, 0 .. (p + 1) - 1)
      BY <3>5, <3>7, Zenon
    <3> QED BY <2>1, <3>1, <3>2, <3>3, <3>4, <3>8, Zenon
  <2>4. k + 1 \in 0 .. call[t].geo.njf BY <1>5, <2>2
  <2>5. call[t].todo # <<"put">> BY <1>1
  <2>6. Making(t)' BY <1>5, <2>3, <2>4, <2>5 DEF Making
  <2> QED BY <1>1, <1>2, <1>3, <2>1, <2>6, NameFree, Elsewhere
<1> QED BY <1>0, <1>4, <1>5, CreateFileDoes

\* JournalInv is kept by the info file, which makes the journal whole.
LEMMA WriteInfoJournal == ASSUME Types, HeldInv, JournalInv, NEW t \in Thread, WriteInfo(t) PROVE JournalInv'
<1> DEFINE n == call[t].name
           k == call[t].geo.njf
<1>0. CallsOK BY DEF Types
<1>1. /\ Doing(t, "files") /\ db' = db /\ life = "up"
      /\ call[t] \in Creates /\ n \in QNames
      /\ call' = [call EXCEPT ![t] = [call[t] EXCEPT !.todo = <<"put">>]]
      /\ WriteFile(call[t], InfoFile) /\ FilesMade(call[t]) = k
  BY <1>0, WriteInfoDoes, Calls DEF Doing
<1>2. \A u \in Thread : u # t => call'[u] = call[u] BY <1>0, WriteInfoDoes, OthersWait
<1>3. IsObjectOp(call[t]) /\ ~Deleting(t)
  BY <1>0, <1>1, Calls DEF IsObjectOp, Creates, Deleting
<1>4. /\ dir'[n].files = {g \in dir[n].files : g.f # InfoFile}
                           \cup {[f |-> InfoFile, inc |-> call[t].inc, geo |-> call[t].geo]}
      /\ \A m \in QNames : m # n => dir'[m].files = dir[m].files
  BY <1>1, FileWritten
<1>5. k \in Nat /\ k <= MaxFiles /\ dir[n].files = Files(call[t].inc, call[t].geo, 0 .. k - 1)
  BY <1>1, FilesSoFar
<1>6. dir'[n].files = Files(call[t].inc, call[t].geo, (0 .. k - 1) \cup {InfoFile})
  <2>1. PICK inc : inc = call[t].inc OBVIOUS
  <2>2. PICK geo : geo = call[t].geo OBVIOUS
  <2>3. PICK D : D = dir[n].files OBVIOUS
  <2>4. PICK p : p = k OBVIOUS
  <2>5. InfoFile \notin 0 .. p - 1 BY <1>5, <2>4, FilesAssumption DEF InfoFile
  <2>6. D = Files(inc, geo, 0 .. p - 1) BY <1>5, <2>1, <2>2, <2>3, <2>4, Zenon
  <2>7. {g \in D : g.f # InfoFile} \cup {[f |-> InfoFile, inc |-> inc, geo |-> geo]}
          = Files(inc, geo, (0 .. p - 1) \cup {InfoFile})
    <3> DEFINE S == 0 .. p - 1
               x == InfoFile
    <3>1. x \notin S /\ D = Files(inc, geo, S) BY <2>5, <2>6
    <3> HIDE DEF S, x
    <3>2. {g \in D : g.f # x} \cup {[f |-> x, inc |-> inc, geo |-> geo]} = Files(inc, geo, S \cup {x})
      BY <3>1 DEF Files
    <3> QED BY <3>2 DEF S, x
  <2> QED BY <1>4, <2>1, <2>2, <2>3, <2>4, <2>7, Zenon
<1>7. /\ call'[t].todo = <<"put">> /\ call'[t].name = n
      /\ call'[t].inc = call[t].inc /\ call'[t].geo = call[t].geo
  BY <1>0, <1>1 DEF CallsOK, Creates
<1>8. call'[t].todo # <<"files", "put">> BY <1>7
<1>9. Making(t)' BY <1>6, <1>7, <1>8 DEF Making, HasJournal
<1>10. /\ \A r \in db'["queue"] : r.name # n
       /\ \A u \in Thread : u # t => ~(IsObjectOp(call[u]) /\ call[u].name = n)
  BY <1>1, <1>3, NameFree
<1>11. db'["queue"] \subseteq db["queue"] BY <1>1
<1> QED BY <1>2, <1>4, <1>9, <1>10, <1>11, Elsewhere

\* JournalInv is kept by deleting a directory, after its record.
LEMMA DeleteDirJournal == ASSUME Types, HeldInv, JournalInv, NEW t \in Thread, DeleteDir(t) PROVE JournalInv'
<1> DEFINE n == call[t].name
<1>0. CallsOK BY DEF Types
<1>1. /\ Doing(t, "unlink") /\ db' = db /\ life = "up"
      /\ call[t] \in Destroys /\ n \in QNames /\ call[t].todo = <<"unlink">>
  BY <1>0, DeleteDirDoes, Calls DEF Doing
<1>2. \A u \in Thread : u # t => call'[u] = call[u] BY <1>0, DeleteDirDoes, OthersWait
<1>3. IsObjectOp(call[t]) /\ ~Deleting(t) BY <1>1 DEF IsObjectOp, Destroys, Deleting
<1>4. \/ /\ \E f \in dir[n].files : dir' = [dir EXCEPT ![n].files = @ \ {f}]
         /\ call' = call
      \/ /\ dir' = [dir EXCEPT ![n].made = FALSE]
         /\ call' = [call EXCEPT ![t] = Idle]
  BY <1>0, DeleteDirDoes
<1>5. (\A m \in QNames : m # n => dir'[m].files = dir[m].files) /\ call'[t].op # "create"
  <2>1. CASE call' = call /\ \E f \in dir[n].files : dir' = [dir EXCEPT ![n].files = @ \ {f}]
    BY <1>1, <2>1 DEF Types, DirOK, Destroys
  <2>2. CASE call' = [call EXCEPT ![t] = Idle] /\ dir' = [dir EXCEPT ![n].made = FALSE]
    BY <1>0, <1>1, <2>2, IdleIsNothing DEF Types, DirOK, CallsOK
  <2> QED BY <1>4, <2>1, <2>2
<1>6. Making(t)' BY <1>5 DEF Making
<1>7. /\ \A r \in db'["queue"] : r.name # n
      /\ \A u \in Thread : u # t => ~(IsObjectOp(call[u]) /\ call[u].name = n)
  BY <1>1, <1>3, NameFree
<1>8. db'["queue"] \subseteq db["queue"] BY <1>1
<1> QED BY <1>2, <1>5, <1>6, <1>7, <1>8, Elsewhere

\* JournalInv is kept by putting the record of a whole journal.
LEMMA PutRecordJournal == ASSUME Types, HeldInv, JournalInv, NEW t \in Thread, PutRecord(t) PROVE JournalInv'
<1> DEFINE k == Table(call[t].name)
           r == [id |-> seq[k], name |-> call[t].name, inc |-> call[t].inc]
<1>1. /\ Doing(t, "put") /\ call' = [call EXCEPT ![t] = Idle] /\ dir' = dir
      /\ db' = db \/ db' = [db EXCEPT ![k] = @ \cup {r}]
  BY PutRecordDoes DEF Types
<1>2. call[t] \in Creates /\ k \in Tables /\ call[t].todo = <<"put">> BY <1>1, Calls, TableType DEF Types
<1>3. \A u \in Thread : call'[u] = call[u] \/ call'[u].op # "create"
  BY <1>1 DEF Types, CallsOK, Idle
<1>4. ASSUME NEW s \in db'["queue"], s \notin db["queue"]
      PROVE  \E geo \in Geometry : HasJournal(s.name, s.inc, geo)
  <2>1. k = "queue" /\ s = r BY <1>1, <1>2, <1>4, QueueRecords DEF Types
  <2>2. call[t].name \in QNames /\ call[t].op = "create" /\ call[t].geo \in Geometry
    BY <1>2, <2>1, QueueRecords DEF Creates
  <2>3. HasJournal(call[t].name, call[t].inc, call[t].geo) BY <1>2, <2>2 DEF JournalInv, Making
  <2> QED BY <2>1, <2>2, <2>3
<1> QED BY <1>1, <1>3, <1>4, SameFiles

\* JournalInv is kept by the start of a call.
LEMMA BeginJournal ==
  ASSUME Types, JournalInv, NEW t \in Thread, NEW d, call' = [call EXCEPT ![t] = d],
         UNCHANGED <<dir, db>>,
         d.op # "create" \/ (d.name \in QNames => d.todo = <<"clear", "files", "put">>)
  PROVE  JournalInv'
<1>1. \A u \in Thread : call'[u] = call[u] \/ call'[u] = d BY DEF Types, CallsOK
<1> QED BY <1>1, SameFiles

\* JournalInv is kept by every step that takes away.
LEMMA StepJournal == ASSUME Types, HeldInv, JournalInv, NEW t \in Thread, SomeStep(t) PROVE JournalInv'
<1>0. CallsOK BY DEF Types
<1>1. CASE DeleteRecord(t)
  <2>1. \A u \in Thread : call'[u] = call[u] \/ call'[u].op # "create"
    <3>1. \A u \in Thread : u # t => call'[u] = call[u] BY <1>0, <1>1, DeleteRecordDoes, OthersWait
    <3>2. Later(call[t], call'[t]) /\ call[t] \in Destroys
      BY <1>1, StepShrinks, <1>0, DeleteRecordDoes DEF Shrinks, SomeStep
    <3>3. call'[t].op # "create" BY <3>2, LaterSame DEF Destroys
    <3> QED BY <3>1, <3>3
  <2>2. db'["queue"] \subseteq db["queue"] /\ dir' = dir
    BY <1>0, <1>1, DeleteRecordDoes, QueueRecords DEF Types
  <2> QED BY <2>1, <2>2, SameFiles
<1>2. CASE DeleteBindings(t)
  <2>1. \A u \in Thread : call'[u] = call[u] \/ call'[u].op # "create"
    <3>1. \A u \in Thread : u # t => call'[u] = call[u] BY <1>0, <1>2, DeleteBindingsDoes, OthersWait
    <3>2. Later(call[t], call'[t]) /\ call[t] \in Destroys
      BY <1>2, StepShrinks, <1>0, DeleteBindingsDoes DEF Shrinks, SomeStep
    <3>3. call'[t].op # "create" BY <3>2, LaterSame DEF Destroys
    <3> QED BY <3>1, <3>3
  <2> QED BY <1>0, <1>2, <2>1, DeleteBindingsDoes, SameFiles
<1>3. CASE Unbind(t) \/ Fail(t)
  <2>1. call' = [call EXCEPT ![t] = Idle] /\ UNCHANGED <<dir, db>>
    BY <1>3 DEF Unbind, Fail, Throw, disk
  <2> QED BY <2>1, IdleIsNothing, BeginJournal
<1> QED BY <1>1, <1>2, <1>3, ClearDirJournal, CreateFileJournal, WriteInfoJournal, DeleteDirJournal DEF SomeStep

\* JournalInv holds with no call, over the same files or an empty table.
LEMMA NothingMade ==
  ASSUME Types, JournalInv, \A t \in Thread : call'[t] = Idle, (dir' = dir /\ db' = db) \/ db'["queue"] = {}
  PROVE  JournalInv'
<1>1. \A t \in Thread : Making(t)' BY IdleIsNothing DEF Making
<1>2. RecordWhole' BY DEF JournalInv, RecordWhole, HasJournal
<1> QED BY <1>1, <1>2 DEF JournalInv

\* JournalInv at the start.
LEMMA InitJournal == Init => JournalInv
<1> SUFFICES ASSUME Init PROVE JournalInv OBVIOUS
<1>1. db["queue"] = {} /\ \A t \in Thread : call[t] = Idle BY DEF Init, Tables
<1> QED BY <1>1, IdleIsNothing DEF JournalInv, RecordWhole, Making

\* JournalInv is inductive, given the two before.
LEMMA NextJournal == ASSUME IdInv, HeldInv, JournalInv, [Next]_vars PROVE JournalInv'
<1>0. Types /\ IdsUsed /\ Quiet BY DEF IdInv
<1>1. ASSUME NEW t \in Thread, NEW n \in Names, NEW geo, BeginCreate(t, n, geo) PROVE JournalInv'
  <2> DEFINE d == [op |-> "create", name |-> n, id |-> 0, inc |-> incs + 1, geo |-> geo, todo |-> CreateSteps(n)]
  <2>1. call' = [call EXCEPT ![t] = d] /\ UNCHANGED <<dir, db>> BY <1>1 DEF BeginCreate, disk
  <2>2. d.name \in QNames => d.todo = <<"clear", "files", "put">> BY DEF CreateSteps
  <2> HIDE DEF d
  <2> QED BY <1>0, <2>1, <2>2, BeginJournal
<1>2. ASSUME NEW t \in Thread, NEW n \in QNames, NEW a \in QueueArgs, BeginCreate(t, n, QueueGeometry(a))
      PROVE  JournalInv'
  <2>1. PICK geo : geo = QueueGeometry(a) OBVIOUS
  <2> QED BY <1>1, <1>2, <2>1 DEF Names
<1>3. ASSUME NEW t \in Thread, SomeStep(t) PROVE JournalInv' BY <1>0, <1>3, StepJournal
<1>4. ASSUME NEW t \in Thread, PutRecord(t) PROVE JournalInv' BY <1>0, <1>4, PutRecordJournal
<1>5. ASSUME NEW t \in Thread, NEW o \in obj, BeginDestroy(t, o) PROVE JournalInv'
  <2> DEFINE d == [op |-> "destroy", name |-> o.name, id |-> o.id, inc |-> o.inc, todo |-> DestroySteps(o.name)]
  <2>1. call' = [call EXCEPT ![t] = d] /\ UNCHANGED <<dir, db>> BY <1>5 DEF BeginDestroy, disk
  <2>2. d.op # "create" OBVIOUS
  <2> HIDE DEF d
  <2> QED BY <1>0, <2>1, <2>2, BeginJournal
<1>6. ASSUME NEW t \in Thread, NEW x \in obj, NEW q \in obj, NEW key \in Keys, BeginBinding(t, x, q, key)
      PROVE  JournalInv'
  <2> DEFINE b == BindingOf(x, q, key)
             op == IF b \in bound THEN "unbind" ELSE "bind"
             d == [op |-> op, b |-> b, todo |-> <<op>>]
  <2>1. call' = [call EXCEPT ![t] = d] /\ UNCHANGED <<dir, db>> BY <1>6 DEF BeginBinding, disk
  <2>2. d.op # "create" OBVIOUS
  <2> HIDE DEF d
  <2> QED BY <1>0, <2>1, <2>2, BeginJournal
<1>7. ASSUME NEW t \in Thread, Bind(t) PROVE JournalInv'
  <2>1. call' = [call EXCEPT ![t] = Idle] /\ UNCHANGED <<dir, db>> BY <1>0, <1>7, BindDoes
  <2> QED BY <1>0, <2>1, IdleIsNothing, BeginJournal
<1>8. CASE Truncate
  <2>1. db'["queue"] = {} /\ \A t \in Thread : call'[t] = Idle
    BY <1>0, <1>8, Erased, QueueRecords DEF Truncate
  <2> QED BY <1>0, <2>1, NothingMade
<1>9. CASE Crash BY <1>0, <1>9, NothingMade DEF Crash, disk
<1>10. ASSUME NEW opt \in Options, Start(opt) PROVE JournalInv'
  <2>1. life = "down" /\ UNCHANGED <<db, dir, call>> BY <1>0, <1>10, StartDoes
  <2> QED BY <1>0, <2>1, NothingMade DEF Quiet
<1>11. ASSUME NEW opt \in Options, StartEmpty(opt) PROVE JournalInv'
  <2>1. db'["queue"] = {} /\ \A t \in Thread : call'[t] = Idle
    BY <1>0, <1>11, Erased, QueueRecords DEF StartEmpty, Quiet
  <2> QED BY <1>0, <2>1, NothingMade
<1>12. CASE UNCHANGED vars
  BY <1>12 DEF vars, JournalInv, RecordWhole, Making, HasJournal
<1> QED BY <1>1, <1>2, <1>3, <1>4, <1>5, <1>6, <1>7, <1>8, <1>9, <1>10, <1>11, <1>12 DEF Next, SomeStep, Names

\* A whole journal has every file its info file counts.
LEMMA WholeIsThere == RecordWhole => RecordHasJournal
<1> SUFFICES ASSUME RecordWhole, NEW r \in db["queue"]
             PROVE  \E i \in Info(r.name) :
                      /\ i.inc = r.inc
                      /\ \A j \in 0 .. i.geo.njf - 1 : \E g \in dir[r.name].files : g.f = j /\ g.inc = r.inc
  BY DEF RecordHasJournal
<1>1. PICK geo \in Geometry : HasJournal(r.name, r.inc, geo) BY DEF RecordWhole
<1> DEFINE i == [f |-> InfoFile, inc |-> r.inc, geo |-> geo]
<1>2. i \in Info(r.name) /\ i.inc = r.inc /\ i.geo = geo BY <1>1 DEF HasJournal, Files, Info
<1>3. ASSUME NEW j \in 0 .. geo.njf - 1 PROVE \E g \in dir[r.name].files : g.f = j /\ g.inc = r.inc
  <2> DEFINE g == [f |-> j, inc |-> r.inc, geo |-> geo]
  <2>1. g \in dir[r.name].files BY <1>1 DEF HasJournal, Files
  <2> QED BY <2>1
<1> HIDE DEF i
<1> QED BY <1>2, <1>3

\* At every instant, also between the steps of a create or destroy and after a crash
\* or an error, a queue that has its record in Berkeley DB has the whole journal it
\* was created with (MessageStoreImpl::create and destroy, jcntl::initialize).  The
\* hypothesis excludes a refused deletion of the record (MessageStoreImpl.cpp:644),
\* after which the broker may create a queue of the name over the record's journal.
THEOREM RecordHasJournalAlways == ~DestroyMayFail => (Spec => []RecordHasJournal)
<1> SUFFICES ASSUME ~DestroyMayFail PROVE Spec => []RecordHasJournal OBVIOUS
<1> DEFINE Inv == IdInv /\ HeldInv /\ JournalInv
<1>1. Init => Inv BY InitIds, InitHeld, InitJournal
<1>2. Inv /\ [Next]_vars => Inv' BY NextIds, NextHeld, NextJournal
<1>3. Inv => RecordHasJournal BY WholeIsThere DEF JournalInv
<1> QED BY <1>1, <1>2, <1>3, PTL DEF Spec

-----------------------------------------------------------------------------
\* What the store has answered for is on disk: while the broker runs it is what the
\* broker holds, each object of it has its record under its id, a queue's info file
\* says its geometry, and each binding of it is in the table between two of them.
KeptHeld ==
  life = "up" => /\ kept.obj = obj /\ kept.bound = bound
                 /\ \A o \in obj : o.name \in QNames => o.name \in journalList
KeptRecorded == \A o \in kept.obj : \E r \in db[Table(o.name)] : Same(r, o)
KeptGeometry ==
  \A o \in kept.obj :
    IF o.name \in QNames
    THEN \A i \in Info(o.name) : i.geo.njf = o.njf /\ i.geo.size = o.size
    ELSE o.njf = MinFiles /\ o.size = 1
KeptBound ==
  \A b \in kept.bound :
    /\ b \in bindingDb
    /\ \E o \in kept.obj : o.name \in XNames /\ o.id = b.x
    /\ \E o \in kept.obj : o.name \in QNames /\ o.id = b.q

\* Whatever has a record is recovered: its directory is there and its info file
\* valid, and a create under way is on the way to that.
Sound == \A r \in db["queue"] : dir[r.name].made /\ \A i \in Info(r.name) : Valid(i.geo)
CreateSound(t) ==
  call[t].op = "create" =>
    IF call[t].name \in QNames
    THEN /\ call[t].name \in journalList
         /\ call[t].todo # <<"clear", "files", "put">> => dir[call[t].name].made
         /\ ~NoRoom(call[t].geo) => Valid(call[t].geo)
         /\ call[t].todo = <<"put">> => Valid(call[t].geo)
    ELSE call[t].geo = Plain

\* No destroy deletes what another object has: its id is nobody's any more.
DestroySound(t) ==
  call[t].op = "destroy" =>
    /\ call[t].id < seq[Table(call[t].name)]
    /\ \A o \in obj : Table(o.name) = Table(call[t].name) => o.id # call[t].id

\* One call at a time about a binding, and none about one the broker has.
BindSound(t) ==
  IsBindOp(call[t]) =>
    /\ \A b \in bound : ~SameBinding(b, call[t].b)
    /\ \A u \in Thread : u # t /\ IsBindOp(call[u]) => ~SameBinding(call[u].b, call[t].b)
NoExpansion == geom.ae = FALSE /\ geom.aemax = 0
CallsSound == \A t \in Thread : CreateSound(t) /\ DestroySound(t) /\ BindSound(t)

\* The last part, and the whole inductive invariant of KeptSurvives.
KeptInv == /\ KeptHeld /\ KeptRecorded /\ KeptGeometry /\ KeptBound /\ Sound /\ CallsSound /\ NoExpansion
StoreInv == IdInv /\ HeldInv /\ JournalInv /\ KeptInv

\* A step of one thread's call leaves the calls of the others alone.
LEMMA StepOthers ==
  ASSUME Types, NEW t \in Thread, SomeStep(t)
  PROVE  \A u \in Thread : u # t => call'[u] = call[u]
<1>0. CallsOK BY DEF Types
<1>1. CASE ClearDir(t) BY <1>0, <1>1, ClearDirDoes, OthersWait
<1>2. CASE CreateFile(t) BY <1>0, <1>2, CreateFileDoes, OthersWait
<1>3. CASE WriteInfo(t) BY <1>0, <1>3, WriteInfoDoes, OthersWait
<1>4. CASE DeleteRecord(t) BY <1>0, <1>4, DeleteRecordDoes, OthersWait
<1>5. CASE DeleteBindings(t) BY <1>0, <1>5, DeleteBindingsDoes, OthersWait
<1>6. CASE DeleteDir(t) BY <1>0, <1>6, DeleteDirDoes, OthersWait
<1>7. CASE Unbind(t) \/ Fail(t) BY <1>0, <1>7, OthersWait DEF Unbind, Fail, Throw
<1> QED BY <1>1, <1>2, <1>3, <1>4, <1>5, <1>6, <1>7 DEF SomeStep

\* What a step of a call can take away, and from whom.
LEMMA StepTakes ==
  ASSUME Types, NEW t \in Thread, SomeStep(t)
  PROVE  /\ kept' = kept /\ geom' = geom
         /\ \A n \in QNames : \/ dir'[n] = dir[n]
                              \/ IsObjectOp(call[t]) /\ n = call[t].name /\ ~Deleting(t)
         /\ \A n \in journalList : n \in journalList' \/ (IsObjectOp(call[t]) /\ n = call[t].name)
         /\ \A k \in Tables : \A r \in db[k] :
              r \in db'[k] \/ (Deleting(t) /\ k = Table(call[t].name) /\ r.id = call[t].id)
         /\ \A b \in bindingDb :
              \/ b \in bindingDb'
              \/ /\ call[t].op = "destroy"
                 /\ \/ call[t].name \in QNames /\ b.q = call[t].id
                    \/ call[t].name \in XNames /\ b.x = call[t].id
              \/ IsBindOp(call[t]) /\ SameBinding(b, call[t].b)
<1>0. CallsOK /\ dir \in [QNames -> [made : BOOLEAN, files : SUBSET JournalFile]] BY DEF Types, DirOK
<1>1. CASE ClearDir(t)
  <2>1. call[t] \in Creates /\ call[t].name \in QNames BY <1>0, <1>1, ClearDirDoes, Calls
  <2>2. IsObjectOp(call[t]) /\ ~Deleting(t) BY <2>1 DEF Creates, IsObjectOp, Deleting
  <2>3. \A n \in QNames : n # call[t].name => dir'[n] = dir[n] BY <1>0, <1>1, <2>1, ClearDirDoes
  <2> QED BY <1>0, <1>1, <2>2, <2>3, ClearDirDoes
<1>2. CASE CreateFile(t)
  <2>1. call[t] \in Creates /\ call[t].name \in QNames BY <1>0, <1>2, CreateFileDoes, Calls
  <2>2. IsObjectOp(call[t]) /\ ~Deleting(t) BY <2>1 DEF Creates, IsObjectOp, Deleting
  <2>3. \A n \in QNames : n # call[t].name => dir'[n] = dir[n]
    BY <1>0, <1>2, <2>1, CreateFileDoes DEF WriteFile
  <2> QED BY <1>0, <1>2, <2>2, <2>3, CreateFileDoes
<1>3. CASE WriteInfo(t)
  <2>1. call[t] \in Creates /\ call[t].name \in QNames BY <1>0, <1>3, WriteInfoDoes, Calls
  <2>2. IsObjectOp(call[t]) /\ ~Deleting(t) BY <2>1 DEF Creates, IsObjectOp, Deleting
  <2>3. \A n \in QNames : n # call[t].name => dir'[n] = dir[n]
    BY <1>0, <1>3, <2>1, WriteInfoDoes DEF WriteFile
  <2> QED BY <1>0, <1>3, <2>2, <2>3, WriteInfoDoes
<1>4. CASE DeleteRecord(t)
  <2>1. /\ kept' = kept /\ UNCHANGED <<bindingDb, dir, geom, journalList>>
        /\ db' = [db EXCEPT ![Table(call[t].name)] = {r \in @ : r.id # call[t].id}]
    BY <1>0, <1>4, DeleteRecordDoes
  <2>2. Deleting(t) BY <1>0, <1>4, DeleteRecordDoes DEF Deleting, Doing, Destroys
  <2> QED BY <2>1, <2>2 DEF Types
<1>5. CASE DeleteBindings(t)
  <2>1. /\ kept' = kept /\ UNCHANGED <<db, dir, geom, journalList>> /\ Doing(t, "bindings")
        /\ bindingDb' = {b \in bindingDb : IF call[t].name \in QNames THEN b.q # call[t].id ELSE b.x # call[t].id}
    BY <1>0, <1>5, DeleteBindingsDoes
  <2>2. call[t] \in Destroys /\ call[t].todo # <<"record">> BY <1>0, <2>1, Calls
  <2>3. call[t].op = "destroy" /\ call[t].name \in QNames \cup XNames
    BY <1>0, <2>2 DEF CallsOK, StepsOK, Destroys
  <2> QED BY <2>1, <2>3
<1>6. CASE DeleteDir(t)
  <2>1. call[t] \in Destroys /\ call[t].name \in QNames /\ call[t].todo = <<"unlink">>
    BY <1>0, <1>6, DeleteDirDoes, Calls
  <2>2. IsObjectOp(call[t]) /\ ~Deleting(t) BY <2>1 DEF Destroys, IsObjectOp, Deleting
  <2>3. \A n \in QNames : n # call[t].name => dir'[n] = dir[n] BY <1>0, <1>6, <2>1, DeleteDirDoes
  <2>4. kept' = kept /\ UNCHANGED <<db, bindingDb>> /\ geom' = geom BY <1>0, <1>6, DeleteDirDoes
  <2>5. journalList' = journalList \/ journalList' = journalList \ {call[t].name} BY <1>0, <1>6, DeleteDirDoes
  <2> QED BY <2>2, <2>3, <2>4, <2>5
<1>7. CASE Unbind(t)
  <2>1. IsBindOp(call[t]) BY <1>0, <1>7, Calls DEF Unbind, IsBindOp
  <2> QED BY <1>7, <2>1 DEF Unbind
<1>8. CASE Fail(t) BY <1>8 DEF Fail, Throw, disk
<1> QED BY <1>1, <1>2, <1>3, <1>4, <1>5, <1>6, <1>7, <1>8 DEF SomeStep

\* Two calls about objects are about two names.
LEMMA OwnName ==
  ASSUME HeldInv, NEW t \in Thread, NEW u \in Thread, u # t, IsObjectOp(call[t]), IsObjectOp(call[u])
  PROVE  call[u].name # call[t].name
  BY DEF HeldInv, OneCall

\* A create goes on towards a journal that recovery accepts.
LEMMA StepCreateSound ==
  ASSUME StoreInv, NEW t \in Thread, SomeStep(t)
  PROVE  CreateSound(t)'
<1>0. Types /\ CallsOK /\ CreateSound(t) BY DEF StoreInv, IdInv, Types, KeptInv, CallsSound
<1>1. CASE ClearDir(t)
  <2>1. /\ call[t] \in Creates /\ call[t].name \in QNames /\ call[t].todo = <<"clear", "files", "put">>
        /\ journalList' = journalList
    BY <1>0, <1>1, ClearDirDoes, Calls
  <2>2. call[t].op = "create" BY <2>1 DEF Creates
  <2>3. CASE call' = call BY <1>0, <2>1, <2>2, <2>3 DEF CreateSound
  <2>4. CASE /\ dir' = [dir EXCEPT ![call[t].name].made = TRUE]
             /\ call' = [call EXCEPT ![t] = [call[t] EXCEPT !.todo = <<"files", "put">>]]
    <3>1. /\ call'[t].todo = <<"files", "put">> /\ call'[t].name = call[t].name /\ call'[t].geo = call[t].geo
      BY <1>0, <2>1, <2>4 DEF CallsOK, Creates
    <3>2. dir'[call[t].name].made BY <1>0, <2>1, <2>4 DEF Types, DirOK
    <3>3. call'[t].todo # <<"put">> BY <3>1
    <3> QED BY <1>0, <2>1, <2>2, <3>1, <3>2, <3>3 DEF CreateSound
  <2> QED BY <1>0, <1>1, <2>3, <2>4, ClearDirDoes
<1>2. CASE CreateFile(t)
  <2>1. /\ call[t] \in Creates /\ call[t].name \in QNames /\ call[t].todo = <<"files", "put">>
    BY <1>0, <1>2, CreateFileDoes, Calls
  <2>2. call[t].op = "create" BY <2>1 DEF Creates
  <2>3. CASE call' = [call EXCEPT ![t] = Idle]
    <3>1. call'[t] = Idle BY <1>0, <2>3 DEF CallsOK
    <3> QED BY <3>1, IdleIsNothing DEF CreateSound
  <2>4. CASE WriteFile(call[t], FilesMade(call[t])) /\ call' = call /\ journalList' = journalList
    <3>1. dir'[call[t].name].made = dir[call[t].name].made BY <1>0, <2>1, <2>4 DEF WriteFile, Types, DirOK
    <3> QED BY <1>0, <2>1, <2>2, <2>4, <3>1 DEF CreateSound
  <2> QED BY <1>0, <1>2, <2>3, <2>4, CreateFileDoes
<1>3. CASE WriteInfo(t)
  <2>1. /\ call[t] \in Creates /\ call[t].name \in QNames /\ call[t].todo = <<"files", "put">>
        /\ ~NoRoom(call[t].geo) /\ WriteFile(call[t], InfoFile) /\ journalList' = journalList
        /\ call' = [call EXCEPT ![t] = [call[t] EXCEPT !.todo = <<"put">>]]
    BY <1>0, <1>3, WriteInfoDoes, Calls
  <2>2. call[t].op = "create" BY <2>1 DEF Creates
  <2>3. /\ call'[t].todo = <<"put">> /\ call'[t].name = call[t].name /\ call'[t].geo = call[t].geo
    BY <1>0, <2>1 DEF CallsOK, Creates
  <2>4. dir'[call[t].name].made = dir[call[t].name].made BY <1>0, <2>1 DEF WriteFile, Types, DirOK
  <2>5. /\ call[t].name \in journalList' /\ dir'[call[t].name].made /\ Valid(call[t].geo)
    BY <1>0, <2>1, <2>2, <2>4 DEF CreateSound
  <2> QED BY <2>1, <2>3, <2>5 DEF CreateSound
<1>4. CASE DeleteRecord(t) \/ DeleteBindings(t) \/ DeleteDir(t) \/ Unbind(t) \/ Fail(t)
  <2>1. CASE Fail(t)
    <3>1. call'[t] = Idle BY <1>0, <2>1 DEF Fail, Throw, CallsOK
    <3> QED BY <3>1, IdleIsNothing DEF CreateSound
  <2>2. CASE ~Fail(t)
    <3>1. call[t].op # "create"
      BY <1>0, <1>4, <2>2, Calls DEF DeleteRecord, DeleteBindings, DeleteDir, Unbind, Destroys
    <3>2. Later(call[t], call'[t]) BY <1>0, StepShrinks DEF Shrinks
    <3>3. call'[t].op # "create" BY <3>1, <3>2, LaterSame
    <3> QED BY <3>3 DEF CreateSound
  <2> QED BY <2>1, <2>2
<1> QED BY <1>1, <1>2, <1>3, <1>4 DEF SomeStep

\* KeptInv is kept by every step that takes away: it takes nothing kept.
LEMMA StepKept ==
  ASSUME ~DestroyMayFail, StoreInv, NEW t \in Thread, SomeStep(t)
  PROVE  KeptInv'
<1>0. Types /\ HeldInv /\ KeptInv BY DEF StoreInv, IdInv
<1>1. /\ Shrinks /\ life = "up" /\ life' = "up" /\ obj' = obj /\ bound' = bound
      /\ kept' = kept /\ geom' = geom
  BY <1>0, StepShrinks, StepTakes DEF Shrinks
<1>2. kept.obj = obj /\ kept.bound = bound BY <1>0, <1>1 DEF KeptInv, KeptHeld
<1>3. \A n \in QNames : dir'[n] = dir[n] \/ (IsObjectOp(call[t]) /\ n = call[t].name /\ ~Deleting(t))
  BY <1>0, StepTakes
<1>4. \A n \in journalList : n \in journalList' \/ (IsObjectOp(call[t]) /\ n = call[t].name)
  BY <1>0, StepTakes
<1>5. \A u \in Thread : u # t => call'[u] = call[u] BY <1>0, StepOthers
<1>6. \A o \in obj : o.name \in QNames => ~(IsObjectOp(call[t]) /\ o.name = call[t].name)
  BY <1>0 DEF HeldInv, NotBusy, BusyObject
<1>7. KeptHeld' BY <1>0, <1>1, <1>2, <1>4, <1>6 DEF KeptInv, KeptHeld
<1>8. KeptRecorded'
  <2> SUFFICES ASSUME NEW o \in obj PROVE \E r \in db'[Table(o.name)] : Same(r, o)
    BY <1>1, <1>2 DEF KeptRecorded
  <2>1. PICK r \in db[Table(o.name)] : Same(r, o) BY <1>0, <1>2 DEF KeptInv, KeptRecorded
  <2>2. ASSUME Deleting(t), Table(o.name) = Table(call[t].name), r.id = call[t].id PROVE FALSE
    BY <1>0, <2>1, <2>2 DEF KeptInv, CallsSound, DestroySound, Deleting, Same
  <2>3. r \in db'[Table(o.name)] BY <1>0, <2>1, <2>2, TableType, StepTakes
  <2> QED BY <2>1, <2>3
<1>9. KeptGeometry' BY <1>0, <1>1, <1>2, <1>3, <1>6 DEF KeptInv, KeptGeometry, Info
<1>10. KeptBound'
  <2> SUFFICES ASSUME NEW b \in bound, b \notin bindingDb' PROVE FALSE
    BY <1>0, <1>1, <1>2 DEF KeptInv, KeptBound
  <2>1. /\ b \in bindingDb
        /\ \E o \in obj : o.name \in XNames /\ o.id = b.x
        /\ \E o \in obj : o.name \in QNames /\ o.id = b.q
    BY <1>0, <1>2 DEF KeptInv, KeptBound
  <2>2. CASE IsBindOp(call[t]) /\ SameBinding(b, call[t].b)
    BY <1>0, <2>2 DEF KeptInv, CallsSound, BindSound
  <2>3. CASE call[t].op = "destroy" /\ call[t].name \in QNames /\ b.q = call[t].id
    <3>1. PICK o \in obj : o.name \in QNames /\ o.id = b.q BY <2>1
    <3>2. Table(o.name) = Table(call[t].name) BY <2>3, <3>1 DEF Table
    <3> QED BY <1>0, <2>3, <3>1, <3>2 DEF KeptInv, CallsSound, DestroySound
  <2>4. CASE call[t].op = "destroy" /\ call[t].name \in XNames /\ b.x = call[t].id
    <3>1. PICK o \in obj : o.name \in XNames /\ o.id = b.x BY <2>1
    <3>2. Table(o.name) = Table(call[t].name) BY <2>4, <3>1, NamesAssumption DEF Table
    <3> QED BY <1>0, <2>4, <3>1, <3>2 DEF KeptInv, CallsSound, DestroySound
  <2> QED BY <1>0, <2>1, <2>2, <2>3, <2>4, StepTakes
<1>11. Sound'
  <2> SUFFICES ASSUME NEW r \in db'["queue"]
               PROVE  dir'[r.name].made /\ \A i \in {g \in dir'[r.name].files : g.f = InfoFile} : Valid(i.geo)
    BY DEF Sound, Info
  <2>1. r \in db["queue"] /\ r.name \in QNames BY <1>0, <1>1, QueueRecords DEF Shrinks
  <2>2. dir'[r.name] = dir[r.name] BY <1>0, <1>1, <1>3, <2>1, NameFree
  <2>3. dir[r.name].made /\ \A i \in {g \in dir[r.name].files : g.f = InfoFile} : Valid(i.geo)
    BY <1>0, <2>1 DEF KeptInv, Sound, Info
  <2> QED BY <2>2, <2>3
<1>12. ASSUME NEW u \in Thread PROVE CreateSound(u)'
  <2>1. CASE u = t BY <2>1, StepCreateSound
  <2>2. CASE u # t
    <3> SUFFICES ASSUME call'[u].op = "create" PROVE CreateSound(u)' BY DEF CreateSound
    <3>1. call'[u] = call[u] /\ IsObjectOp(call[u]) BY <1>5, <2>2 DEF IsObjectOp
    <3>2. ~(IsObjectOp(call[t]) /\ call[u].name = call[t].name) BY <1>0, <2>2, <3>1, OwnName
    <3>3. CreateSound(u) BY <1>0 DEF KeptInv, CallsSound
    <3>4. CASE call[u].name \in QNames
      <4>1. dir'[call[u].name] = dir[call[u].name] BY <1>3, <3>2, <3>4
      <4>2. call[u].name \in journalList' BY <1>4, <3>1, <3>2, <3>3, <3>4 DEF CreateSound
      <4> QED BY <3>1, <3>3, <3>4, <4>1, <4>2 DEF CreateSound
    <3>5. CASE call[u].name \notin QNames BY <3>1, <3>3, <3>5 DEF CreateSound
    <3> QED BY <3>4, <3>5
  <2> QED BY <2>1, <2>2
<1>13. ASSUME NEW u \in Thread PROVE DestroySound(u)'
  <2> SUFFICES ASSUME call'[u].op = "destroy" PROVE DestroySound(u)' BY DEF DestroySound
  <2>1. Later(call[u], call'[u]) BY <1>1 DEF Shrinks
  <2>2. call[u].op = "destroy" /\ call'[u].name = call[u].name /\ call'[u].id = call[u].id
    BY <2>1, IdleIsNothing DEF Later, IsObjectOp
  <2>3. DestroySound(u) BY <1>0 DEF KeptInv, CallsSound
  <2>4. /\ Table(call[u].name) \in Tables /\ call[u].id \in Nat
        /\ \A k \in Tables : seq[k] \in Nat /\ seq'[k] \in Nat /\ seq[k] <= seq'[k]
    BY <1>0, <1>1, <2>2, TableType, StepType, ObjectOpType DEF Types, Shrinks, IsObjectOp, Creates, Destroys
  <2>5. call[u].id < seq'[Table(call[u].name)] BY <2>2, <2>3, <2>4 DEF DestroySound
  <2> QED BY <1>1, <2>2, <2>3, <2>5 DEF DestroySound
<1>14. ASSUME NEW u \in Thread PROVE BindSound(u)'
  <2>1. \A v \in Thread : IsBindOp(call'[v]) => IsBindOp(call[v]) /\ call'[v].b = call[v].b
    BY <1>1, LaterSame DEF Shrinks
  <2> QED BY <1>0, <1>1, <2>1 DEF KeptInv, CallsSound, BindSound
<1>15. NoExpansion' BY <1>0, <1>1 DEF KeptInv, NoExpansion
<1> QED BY <1>7, <1>8, <1>9, <1>10, <1>11, <1>12, <1>13, <1>14, <1>15 DEF KeptInv, CallsSound

\* What a start and a declaration may ask for: the command line's options for
\* auto-expansion are disabled, and a declaration that asks for it gives a limit.
\* One that gives none has an info file that recovery refuses (the divergence that
\* the run MCStoreConfig_unlimited shows).
NoExpandOption == \A opt \in Options : opt.ae = FALSE
LimitedExpand == \A a \in QueueArgs : a.ae = TRUE => a.aemax # NoArg /\ a.aemax \in 1 .. MaxFiles

\* With a limit given, recovery accepts what creation accepts.
LEMMA LimitedGeometry ==
  ASSUME LimitedExpand, NoExpansion, NEW a \in QueueArgs, QueueGeometry(a) \in Geometry, ~NoRoom(QueueGeometry(a))
  PROVE  Valid(QueueGeometry(a))
<1> DEFINE g == QueueGeometry(a)
<1>1. /\ g.ae = IF a.ae = NoArg THEN geom.ae ELSE a.ae
      /\ g.aemax = IF a.aemax = NoArg THEN geom.aemax ELSE a.aemax
  BY DEF QueueGeometry
<1> HIDE DEF g
<1>2. g \in Geometry /\ ~NoRoom(g) BY DEF g
<1>3. ASSUME g.ae PROVE g.aemax \in g.njf .. MaxFiles
  <2>1. g.ae = TRUE BY <1>2, <1>3, Zenon DEF Geometry
  <2>2. a.ae # NoArg BY <1>1, <2>1, Zenon DEF NoExpansion
  <2>3. a.ae = TRUE BY <1>1, <2>1, <2>2, Zenon
  <2>4. a.aemax # NoArg /\ a.aemax \in 1 .. MaxFiles BY <2>3, Zenon DEF LimitedExpand
  <2>5. g.aemax = a.aemax BY <1>1, <2>4, Zenon
  <2>6. g.aemax \in 1 .. MaxFiles BY <2>4, <2>5, Zenon
  <2>7. g.njf \in MinFiles .. MaxFiles BY <1>2 DEF Geometry
  <2> QED BY <1>2, <2>6, <2>7, FilesAssumption DEF NoRoom
<1>4. Valid(g) BY <1>2, <1>3 DEF Valid
<1> QED BY <1>4 DEF g

\* Nothing is asked of an idle thread.
LEMMA IdleIsSound ==
  ASSUME NEW t \in Thread, call'[t] = Idle PROVE CreateSound(t)' /\ DestroySound(t)' /\ BindSound(t)'
  BY IdleIsNothing DEF CreateSound, DestroySound, BindSound

\* KeptInv is kept by putting the record of a queue whose journal is whole.
LEMMA PutRecordKept ==
  ASSUME StoreInv, NEW t \in Thread, PutRecord(t)
  PROVE  KeptInv'
<1> DEFINE k == Table(call[t].name)
           n == call[t].name
           c == [call[t] EXCEPT !.id = seq[k]]
           o == ObjectOf(c)
           r == [id |-> seq[k], name |-> n, inc |-> call[t].inc]
<1>0. Types /\ HeldInv /\ JournalInv /\ KeptInv /\ IdsUsed BY DEF StoreInv, IdInv
<1>1. /\ Doing(t, "put") /\ NextId(k) /\ UNCHANGED <<bindingDb, dir, life, geom, bound>>
      /\ call' = [call EXCEPT ![t] = Idle]
      /\ \/ db' = db /\ obj' = obj /\ kept' = kept /\ journalList' = journalList \ {n}
         \/ /\ \A s \in db[k] : s.id # seq[k]
            /\ db' = [db EXCEPT ![k] = @ \cup {r}]
            /\ obj' = obj \cup {o}
            /\ kept' = [kept EXCEPT !.obj = @ \cup {o}]
            /\ journalList' = journalList
  BY <1>0, PutRecordDoes DEF Types
<1>2. call[t] \in Creates /\ k \in Tables /\ call[t].todo = <<"put">>
  BY <1>0, <1>1, Calls, TableType DEF Types
<1>3. /\ o.name = n /\ o.id = seq[k] /\ o.inc = call[t].inc /\ Same(r, o)
      /\ o.njf = call[t].geo.njf /\ o.size = call[t].geo.size
  BY <1>2 DEF ObjectOf, Creates, Same
<1>4. r.name = n OBVIOUS
<1>5. IsObjectOp(call[t]) /\ call[t].op = "create" /\ life = "up" /\ CreateSound(t) /\ Making(t)
  BY <1>0, <1>1, <1>2 DEF Creates, IsObjectOp, Doing, KeptInv, CallsSound, JournalInv
<1>6. k = Table(n) /\ call[t].name = n OBVIOUS
<1> HIDE DEF o, r, n, k
<1>7. /\ call'[t] = Idle /\ \A u \in Thread : u # t => call'[u] = call[u]
  BY <1>0, <1>1 DEF Types, CallsOK
<1>8. kept.obj = obj /\ kept.bound = bound BY <1>0, <1>5 DEF KeptInv, KeptHeld
<1>9. \A p \in obj : p.name \in QNames => p.name # n
  BY <1>0, <1>5, <1>6 DEF HeldInv, NotBusy, BusyObject
<1>10. /\ kept'.obj = obj' /\ kept'.bound = bound'
       /\ obj' = obj \/ (obj' = obj \cup {o} /\ journalList' = journalList)
  BY <1>0, <1>1, <1>8 DEF Types, CallsOK
<1>11. KeptHeld'
  <2>1. ASSUME NEW p \in obj', p.name \in QNames PROVE p.name \in journalList'
    <3>1. CASE p \in obj BY <1>0, <1>1, <1>5, <1>9, <2>1, <3>1 DEF KeptInv, KeptHeld
    <3>2. CASE p \notin obj
      <4>1. p = o /\ journalList' = journalList BY <1>10, <3>2
      <4> QED BY <1>3, <1>5, <1>6, <2>1, <4>1 DEF CreateSound
    <3> QED BY <3>1, <3>2
  <2> QED BY <1>10, <2>1 DEF KeptHeld
<1>12. \A l \in Tables : \A s \in db[l] : s \in db'[l] BY <1>0, <1>1, <1>2 DEF Types
<1>13. KeptRecorded'
  <2> SUFFICES ASSUME NEW p \in obj' PROVE \E s \in db'[Table(p.name)] : Same(s, p)
    BY <1>10 DEF KeptRecorded
  <2>1. CASE p \in obj
    <3>1. PICK s \in db[Table(p.name)] : Same(s, p) BY <1>0, <1>8, <2>1 DEF KeptInv, KeptRecorded
    <3> QED BY <1>12, <3>1, TableType
  <2>2. CASE p \notin obj
    <3>1. p = o /\ db' = [db EXCEPT ![k] = @ \cup {r}] BY <1>1, <2>2
    <3>2. r \in db'[k] BY <1>0, <1>2, <3>1 DEF Types
    <3> QED BY <1>3, <1>6, <3>1, <3>2
  <2> QED BY <2>1, <2>2
<1>14. n \in QNames => \A i \in Info(n) : i.geo = call[t].geo
  BY <1>2, <1>5, <1>6 DEF Making, HasJournal, Files, Info
<1>15. KeptGeometry'
  <2> SUFFICES ASSUME NEW p \in obj'
               PROVE  IF p.name \in QNames
                      THEN \A i \in Info(p.name) : i.geo.njf = p.njf /\ i.geo.size = p.size
                      ELSE p.njf = MinFiles /\ p.size = 1
    BY <1>1, <1>10 DEF KeptGeometry, Info
  <2>1. CASE p \in obj BY <1>0, <1>8, <2>1 DEF KeptInv, KeptGeometry
  <2>2. CASE p \notin obj
    <3>1. p = o BY <1>10, <2>2
    <3>2. n \notin QNames => call[t].geo.njf = MinFiles /\ call[t].geo.size = 1
      BY <1>5, <1>6 DEF CreateSound, Plain
    <3> QED BY <1>3, <1>14, <3>1, <3>2
  <2> QED BY <2>1, <2>2
<1>16. KeptBound' BY <1>0, <1>1, <1>8, <1>10 DEF KeptInv, KeptBound
<1>17. Sound'
  <2> SUFFICES ASSUME NEW s \in db'["queue"] PROVE dir[s.name].made /\ \A i \in Info(s.name) : Valid(i.geo)
    BY <1>1 DEF Sound, Info
  <2>1. CASE s \in db["queue"] BY <1>0, <2>1 DEF KeptInv, Sound
  <2>2. CASE s \notin db["queue"]
    <3>1. k = "queue" /\ s = r BY <1>0, <1>1, <1>2, <2>2, QueueRecords DEF Types
    <3>2. n \in QNames BY <1>0, <1>6, <3>1, QueueRecords
    <3>3. call[t].todo # <<"clear", "files", "put">> BY <1>2
    <3>4. dir[n].made /\ Valid(call[t].geo) BY <1>2, <1>5, <1>6, <3>2, <3>3 DEF CreateSound
    <3> QED BY <1>4, <1>14, <3>1, <3>2, <3>4
  <2> QED BY <2>1, <2>2
<1>18. \A l \in Tables : seq[l] \in Nat /\ seq'[l] \in Nat /\ seq[l] <= seq'[l]
  BY <1>0, <1>1, <1>2 DEF Types, NextId
<1>19. ASSUME NEW u \in Thread PROVE CreateSound(u)' /\ DestroySound(u)' /\ BindSound(u)'
  <2>1. CASE u = t BY <1>7, <2>1, IdleIsSound
  <2>2. CASE u # t
    <3>1. call'[u] = call[u] /\ CreateSound(u) /\ DestroySound(u) /\ BindSound(u)
      BY <1>0, <1>7, <2>2 DEF KeptInv, CallsSound
    <3>2. CreateSound(u)'
      <4>1. call[u].op = "create" => call[u].name # n
        BY <1>0, <1>5, <1>6, <2>2, OwnName DEF IsObjectOp
      <4> QED BY <1>1, <3>1, <4>1 DEF CreateSound
    <3>3. DestroySound(u)'
      <4> SUFFICES ASSUME call[u].op = "destroy" PROVE DestroySound(u)' BY <3>1 DEF DestroySound
      <4> DEFINE l == Table(call[u].name)
      <4>1. l \in Tables /\ call[u].id \in Nat /\ call[u].id < seq[l]
        BY <1>0, <3>1, TableType, ObjectOpType DEF DestroySound, IsObjectOp, Creates, Destroys
      <4>2. \A p \in obj : Table(p.name) = l => p.id # call[u].id BY <3>1 DEF DestroySound
      <4>3. DestroySound(u)' <=> /\ call[u].id < seq'[l]
                                 /\ \A p \in obj' : Table(p.name) = l => p.id # call[u].id
        BY <3>1 DEF DestroySound
      <4> HIDE DEF l
      <4>4. call[u].id < seq'[l] BY <1>18, <4>1
      <4>5. Table(o.name) = l => o.id # call[u].id BY <1>3, <1>6, <1>18, <4>1
      <4> QED BY <1>10, <4>2, <4>3, <4>4, <4>5
    <3>4. BindSound(u)'
      <4>1. \A v \in Thread : IsBindOp(call'[v]) => call'[v] = call[v] BY <1>7, IdleIsNothing
      <4> QED BY <1>1, <3>1, <4>1 DEF BindSound
    <3> QED BY <3>2, <3>3, <3>4
  <2> QED BY <2>1, <2>2
<1>20. NoExpansion' BY <1>0, <1>1 DEF KeptInv, NoExpansion
<1> QED BY <1>11, <1>13, <1>15, <1>16, <1>17, <1>19, <1>20 DEF KeptInv, CallsSound

\* The broker's objects of a table differ in their ids.
LEMMA ObjectById ==
  ASSUME StoreInv, life = "up", NEW o \in obj, NEW p \in obj, Table(o.name) = Table(p.name), o.id = p.id
  PROVE  o = p
<1>1. kept.obj = obj BY DEF StoreInv, KeptInv, KeptHeld
<1>2. PICK r \in db[Table(o.name)] : Same(r, o) BY <1>1 DEF StoreInv, KeptInv, KeptRecorded
<1>3. PICK s \in db[Table(p.name)] : Same(s, p) BY <1>1 DEF StoreInv, KeptInv, KeptRecorded
<1>4. r = s BY <1>2, <1>3, TableType DEF StoreInv, IdInv, IncInv, OneRecord, Same
<1> QED BY <1>2, <1>3, <1>4 DEF StoreInv, IdInv, IncInv, OneInc, Same

\* KeptInv is kept by the start of a create.
LEMMA BeginCreateKept ==
  ASSUME StoreInv, NEW t \in Thread, NEW n \in Names, NEW geo \in Geometry, BeginCreate(t, n, geo),
         IF n \in QNames THEN ~NoRoom(geo) => Valid(geo) ELSE geo = Plain
  PROVE  KeptInv'
<1> DEFINE d == [op |-> "create", name |-> n, id |-> 0, inc |-> incs + 1, geo |-> geo,
                 todo |-> CreateSteps(n)]
<1>0. Types /\ KeptInv BY DEF StoreInv, IdInv
<1>1. /\ call' = [call EXCEPT ![t] = d] /\ life = "up"
      /\ UNCHANGED <<db, bindingDb, dir, life, geom, seq, obj, bound, kept>>
      /\ journalList' = IF n \in QNames THEN journalList \cup {n} ELSE journalList
  BY DEF BeginCreate, disk
<1>2. d.op = "create" /\ d.name = n /\ d.geo = geo OBVIOUS
<1>3. n \in QNames => d.todo = <<"clear", "files", "put">> BY DEF CreateSteps
<1> HIDE DEF d
<1>4. n \in QNames => d.todo # <<"put">> BY <1>3
<1>5. /\ call'[t] = d /\ \A u \in Thread : u # t => call'[u] = call[u]
  BY <1>0, <1>1 DEF Types, CallsOK
<1>6. KeptHeld' BY <1>0, <1>1 DEF KeptInv, KeptHeld
<1>7. KeptRecorded' /\ KeptBound' /\ NoExpansion' BY <1>0, <1>1 DEF KeptInv, KeptRecorded, KeptBound, NoExpansion
<1>8. KeptGeometry' /\ Sound' BY <1>0, <1>1 DEF KeptInv, KeptGeometry, Sound, Info
<1>9. CreateSound(t)' BY <1>1, <1>2, <1>3, <1>4, <1>5 DEF CreateSound
<1>10. ~IsBindOp(d) /\ d.op # "destroy" BY <1>2 DEF IsBindOp
<1>11. DestroySound(t)' /\ BindSound(t)' BY <1>5, <1>10 DEF DestroySound, BindSound
<1>12. ASSUME NEW u \in Thread, u # t PROVE CreateSound(u)' /\ DestroySound(u)' /\ BindSound(u)'
  <2>1. call'[u] = call[u] /\ CreateSound(u) /\ DestroySound(u) /\ BindSound(u)
    BY <1>0, <1>5, <1>12 DEF KeptInv, CallsSound
  <2>2. CreateSound(u)' BY <1>1, <2>1 DEF CreateSound
  <2>3. DestroySound(u)' BY <1>1, <2>1 DEF DestroySound
  <2>4. BindSound(u)' BY <1>1, <1>5, <1>10, <2>1 DEF BindSound
  <2> QED BY <2>2, <2>3, <2>4
<1> QED BY <1>6, <1>7, <1>8, <1>9, <1>11, <1>12 DEF KeptInv, CallsSound

\* KeptInv is kept by the start of a destroy: the object is given up.
LEMMA BeginDestroyKept ==
  ASSUME StoreInv, IdInv', NEW t \in Thread, NEW o \in obj, BeginDestroy(t, o)
  PROVE  KeptInv'
<1> DEFINE d == [op |-> "destroy", name |-> o.name, id |-> o.id, inc |-> o.inc, todo |-> DestroySteps(o.name)]
<1>0. Types /\ KeptInv /\ IdsUsed BY DEF StoreInv, IdInv
<1>1. /\ call' = [call EXCEPT ![t] = d] /\ life = "up"
      /\ UNCHANGED <<db, bindingDb, dir, life, geom, seq, journalList>>
      /\ obj' = obj \ {o} /\ kept'.obj = kept.obj \ {o}
      /\ bound' = {b \in bound : b.xinc # o.inc /\ b.qinc # o.inc}
      /\ kept'.bound = {b \in kept.bound : b.xinc # o.inc /\ b.qinc # o.inc}
  BY DEF BeginDestroy, disk
<1>2. d.op = "destroy" /\ d.name = o.name /\ d.id = o.id OBVIOUS
<1> HIDE DEF d
<1>3. /\ call'[t] = d /\ \A u \in Thread : u # t => call'[u] = call[u]
  BY <1>0, <1>1 DEF Types, CallsOK
<1>4. kept.obj = obj /\ kept.bound = bound BY <1>0, <1>1 DEF KeptInv, KeptHeld
<1>5. KeptHeld' BY <1>0, <1>1, <1>4 DEF KeptInv, KeptHeld
<1>6. KeptRecorded' BY <1>0, <1>1 DEF KeptInv, KeptRecorded
<1>7. bound' \subseteq bindingDb' BY <1>0, <1>1, <1>4 DEF KeptInv, KeptBound
<1>8. NoStrayBinding' BY DEF IdInv
<1>9. KeptBound' BY <1>1, <1>5, <1>7, <1>8 DEF KeptHeld, NoStrayBinding, KeptBound
<1>10. KeptGeometry' /\ Sound' BY <1>0, <1>1 DEF KeptInv, KeptGeometry, Sound, Info
<1>11. NoExpansion' BY <1>0, <1>1 DEF KeptInv, NoExpansion
<1>12. ~IsBindOp(d) /\ d.op # "create" BY <1>2 DEF IsBindOp
<1>13. DestroySound(t)'
  <2>1. d.id < seq'[Table(d.name)] BY <1>0, <1>1, <1>2 DEF IdsUsed
  <2>2. \A p \in obj' : Table(p.name) = Table(d.name) => p.id # d.id BY <1>1, <1>2, ObjectById
  <2> QED BY <1>3, <2>1, <2>2 DEF DestroySound
<1>14. CreateSound(t)' /\ BindSound(t)' BY <1>3, <1>12 DEF CreateSound, BindSound
<1>15. ASSUME NEW u \in Thread, u # t PROVE CreateSound(u)' /\ DestroySound(u)' /\ BindSound(u)'
  <2>1. call'[u] = call[u] /\ CreateSound(u) /\ DestroySound(u) /\ BindSound(u)
    BY <1>0, <1>3, <1>15 DEF KeptInv, CallsSound
  <2>2. CreateSound(u)' BY <1>1, <2>1 DEF CreateSound
  <2>3. DestroySound(u)' BY <1>1, <2>1 DEF DestroySound
  <2>4. BindSound(u)' BY <1>1, <1>3, <1>12, <2>1 DEF BindSound
  <2> QED BY <2>2, <2>3, <2>4
<1> QED BY <1>5, <1>6, <1>9, <1>10, <1>11, <1>13, <1>14, <1>15 DEF KeptInv, CallsSound

\* KeptInv is kept by the start of a bind or unbind: the binding is given up.
LEMMA BeginBindingKept ==
  ASSUME StoreInv, NEW t \in Thread, NEW x \in obj, NEW q \in obj, NEW key \in Keys,
         BeginBinding(t, x, q, key)
  PROVE  KeptInv'
<1> DEFINE b == BindingOf(x, q, key)
           op == IF b \in bound THEN "unbind" ELSE "bind"
           d == [op |-> op, b |-> b, todo |-> <<op>>]
<1>0. Types /\ KeptInv /\ NoStrayBinding BY DEF StoreInv, IdInv
<1>1. /\ call' = [call EXCEPT ![t] = d] /\ life = "up"
      /\ x.name \in XNames /\ q.name \in QNames
      /\ UNCHANGED <<db, bindingDb, dir, life, geom, seq, obj, journalList>>
      /\ bound' = bound \ {b} /\ kept' = [kept EXCEPT !.bound = @ \ {b}] /\ ~BusyBinding(b)
  BY DEF BeginBinding, disk
<1>2. b = [x |-> x.id, q |-> q.id, key |-> key, xinc |-> x.inc, qinc |-> q.inc] BY DEF BindingOf
<1>3. d.b = b /\ d.op # "create" /\ d.op # "destroy" OBVIOUS
<1> HIDE DEF b, d
<1>4. /\ call'[t] = d /\ \A u \in Thread : u # t => call'[u] = call[u]
  BY <1>0, <1>1 DEF Types, CallsOK
<1>5. /\ kept.obj = obj /\ kept.bound = bound
      /\ kept'.obj = kept.obj /\ kept'.bound = bound'
  BY <1>0, <1>1 DEF KeptInv, KeptHeld, Types, CallsOK
<1>6. KeptHeld' BY <1>0, <1>1, <1>5 DEF KeptInv, KeptHeld
<1>7. KeptRecorded' BY <1>0, <1>1, <1>5 DEF KeptInv, KeptRecorded
<1>8. KeptBound' BY <1>0, <1>1, <1>5 DEF KeptInv, KeptBound
<1>9. KeptGeometry' /\ Sound' BY <1>0, <1>1, <1>5 DEF KeptInv, KeptGeometry, Sound, Info
<1>10. NoExpansion' BY <1>0, <1>1 DEF KeptInv, NoExpansion
<1>11. CreateSound(t)' /\ DestroySound(t)' BY <1>3, <1>4 DEF CreateSound, DestroySound
<1>12. ASSUME NEW c \in bound, SameBinding(c, b) PROVE c = b
  <2>1. c \in BindingRecord /\ c.x = x.id /\ c.q = q.id /\ c.key = key
    BY <1>0, <1>2, <1>12 DEF Types, SameBinding
  <2>2. PICK y \in obj : y.name \in XNames /\ y.id = c.x /\ y.inc = c.xinc BY <1>0 DEF NoStrayBinding
  <2>3. PICK p \in obj : p.name \in QNames /\ p.id = c.q /\ p.inc = c.qinc BY <1>0 DEF NoStrayBinding
  <2>4. Table(y.name) = Table(x.name) /\ Table(p.name) = Table(q.name)
    BY <1>0, <1>1, <2>2, <2>3, ObjectTables
  <2>5. y = x BY <1>1, <2>1, <2>2, <2>4, ObjectById
  <2>6. p = q BY <1>1, <2>1, <2>3, <2>4, ObjectById
  <2> QED BY <1>2, <2>1, <2>2, <2>3, <2>5, <2>6 DEF BindingRecord
<1>13. \A u \in Thread : u # t /\ IsBindOp(call[u]) => ~SameBinding(call[u].b, b) /\ ~SameBinding(b, call[u].b)
  BY <1>1 DEF BusyBinding, IsBindOp, SameBinding
<1>14. \A u \in Thread : u # t /\ IsBindOp(call'[u]) => ~SameBinding(call'[u].b, b)
  BY <1>4, <1>13
<1>15. BindSound(t)' BY <1>1, <1>3, <1>4, <1>12, <1>14 DEF BindSound
<1>16. ASSUME NEW u \in Thread, u # t PROVE CreateSound(u)' /\ DestroySound(u)' /\ BindSound(u)'
  <2>1. call'[u] = call[u] /\ CreateSound(u) /\ DestroySound(u) /\ BindSound(u)
    BY <1>0, <1>4, <1>16 DEF KeptInv, CallsSound
  <2>2. CreateSound(u)' BY <1>1, <2>1 DEF CreateSound
  <2>3. DestroySound(u)' BY <1>1, <2>1 DEF DestroySound
  <2>4. BindSound(u)'
    <3> SUFFICES ASSUME IsBindOp(call[u]) PROVE BindSound(u)' BY <2>1 DEF BindSound
    <3>1. \A c \in bound' : ~SameBinding(c, call[u].b) BY <1>1, <2>1 DEF BindSound
    <3>2. ASSUME NEW v \in Thread, v # u, IsBindOp(call'[v]) PROVE ~SameBinding(call'[v].b, call[u].b)
      <4>1. CASE v = t BY <1>3, <1>4, <1>13, <1>16, <4>1
      <4>2. CASE v # t BY <1>4, <2>1, <3>2, <4>2 DEF BindSound
      <4> QED BY <4>1, <4>2
    <3> QED BY <2>1, <3>1, <3>2 DEF BindSound
  <2> QED BY <2>2, <2>3, <2>4
<1> QED BY <1>6, <1>7, <1>8, <1>9, <1>10, <1>11, <1>15, <1>16 DEF KeptInv, CallsSound

\* KeptInv is kept by putting a binding.
LEMMA BindKept ==
  ASSUME StoreInv, IdInv', NEW t \in Thread, Bind(t) PROVE KeptInv'
<1> DEFINE b == call[t].b
<1>0. Types /\ KeptInv BY DEF StoreInv, IdInv
<1>1. /\ call' = [call EXCEPT ![t] = Idle] /\ life = "up" /\ IsBindOp(call[t])
      /\ UNCHANGED <<db, dir, life, geom, seq, obj, journalList>>
      /\ \/ UNCHANGED <<bindingDb, bound, kept>>
         \/ /\ bindingDb' = bindingDb \cup {b}
            /\ bound' = IF Alive(b) THEN bound \cup {b} ELSE bound
            /\ kept' = IF Alive(b) THEN [kept EXCEPT !.bound = @ \cup {b}] ELSE kept
  BY <1>0, BindDoes
<1>2. /\ call'[t] = Idle /\ \A u \in Thread : u # t => call'[u] = call[u]
  BY <1>0, <1>1 DEF Types, CallsOK
<1>3. \A u \in Thread : u # t /\ IsBindOp(call[u]) => ~SameBinding(b, call[u].b)
  BY <1>0, <1>1 DEF KeptInv, CallsSound, BindSound
<1> HIDE DEF b
<1>4. kept.obj = obj /\ kept.bound = bound BY <1>0, <1>1 DEF KeptInv, KeptHeld
<1>5. /\ kept'.obj = obj /\ kept'.bound = bound'
      /\ bound' \subseteq bound \cup {b} /\ bound' \subseteq bindingDb'
  BY <1>0, <1>1, <1>4 DEF Types, CallsOK, KeptInv, KeptBound
<1>6. KeptHeld' BY <1>0, <1>1, <1>5 DEF KeptInv, KeptHeld
<1>7. KeptRecorded' BY <1>0, <1>1, <1>4, <1>5 DEF KeptInv, KeptRecorded
<1>8. NoStrayBinding' BY DEF IdInv
<1>9. KeptBound' BY <1>1, <1>5, <1>8 DEF NoStrayBinding, KeptBound
<1>10. KeptGeometry' /\ Sound' BY <1>0, <1>1, <1>4, <1>5 DEF KeptInv, KeptGeometry, Sound, Info
<1>11. NoExpansion' BY <1>0, <1>1 DEF KeptInv, NoExpansion
<1>12. ASSUME NEW u \in Thread PROVE CreateSound(u)' /\ DestroySound(u)' /\ BindSound(u)'
  <2>1. CASE u = t BY <1>2, <2>1, IdleIsSound
  <2>2. CASE u # t
    <3>1. call'[u] = call[u] /\ CreateSound(u) /\ DestroySound(u) /\ BindSound(u)
      BY <1>0, <1>2, <2>2 DEF KeptInv, CallsSound
    <3>2. CreateSound(u)' BY <1>1, <3>1 DEF CreateSound
    <3>3. DestroySound(u)' BY <1>1, <3>1 DEF DestroySound
    <3>4. \A v \in Thread : IsBindOp(call'[v]) => call'[v] = call[v] BY <1>2, IdleIsNothing
    <3>5. BindSound(u)' BY <1>3, <1>5, <2>2, <3>1, <3>4 DEF BindSound
    <3> QED BY <3>2, <3>3, <3>5
  <2> QED BY <2>1, <2>2
<1> QED BY <1>6, <1>7, <1>9, <1>10, <1>11, <1>12 DEF KeptInv, CallsSound

\* KeptInv is kept by truncateInit.
LEMMA TruncateKept == ASSUME StoreInv, Truncate PROVE KeptInv'
<1>0. Types /\ KeptInv /\ NoStrayBinding BY DEF StoreInv, IdInv
<1>1. /\ life = "up" /\ journalList = {} /\ \A o \in obj : o.name \in QNames
      /\ Erase /\ UNCHANGED <<life, geom, seq, obj, bound, journalList, call, kept>>
      /\ \A t \in Thread : call'[t] = Idle
  BY DEF Truncate
<1>2. obj = {} BY <1>0, <1>1 DEF KeptInv, KeptHeld
<1>3. bound = {} BY <1>0, <1>2 DEF NoStrayBinding
<1>4. kept'.obj = {} /\ kept'.bound = {} BY <1>0, <1>1, <1>2, <1>3 DEF KeptInv, KeptHeld
<1>5. db'["queue"] = {} BY <1>0, <1>1, Erased, QueueRecords
<1>6. KeptHeld' /\ KeptRecorded' /\ KeptGeometry' /\ KeptBound' /\ Sound'
  BY <1>1, <1>2, <1>3, <1>4, <1>5 DEF KeptHeld, KeptRecorded, KeptGeometry, KeptBound, Sound
<1>7. NoExpansion' BY <1>0, <1>1 DEF KeptInv, NoExpansion
<1>8. CallsSound' BY <1>1, IdleIsSound DEF CallsSound
<1> QED BY <1>6, <1>7, <1>8 DEF KeptInv

\* KeptInv is kept by a crash, which takes nothing from the disk.
LEMMA CrashKept == ASSUME StoreInv, Crash PROVE KeptInv'
<1>0. KeptInv BY DEF StoreInv
<1>1. /\ life' # "up" /\ UNCHANGED <<db, bindingDb, dir, geom, seq, kept>>
      /\ \A t \in Thread : call'[t] = Idle
  BY DEF Crash, disk
<1>2. KeptHeld' BY <1>1 DEF KeptHeld
<1>3. KeptRecorded' /\ KeptBound' /\ NoExpansion' BY <1>0, <1>1 DEF KeptInv, KeptRecorded, KeptBound, NoExpansion
<1>4. KeptGeometry' /\ Sound' BY <1>0, <1>1 DEF KeptInv, KeptGeometry, Sound, Info
<1>5. CallsSound' BY <1>1, IdleIsSound DEF CallsSound
<1> QED BY <1>2, <1>3, <1>4, <1>5 DEF KeptInv

\* Without the option the store's geometry has no auto-expansion.
LEMMA NeverExpands ==
  NoExpandOption => \A opt \in Options : StoreGeometry(opt).ae = FALSE /\ StoreGeometry(opt).aemax = 0
<1> SUFFICES ASSUME NoExpandOption, NEW opt \in Options
             PROVE  StoreGeometry(opt).ae = FALSE /\ StoreGeometry(opt).aemax = 0
  OBVIOUS
<1>1. \A njf : AutoExpand(opt, njf) = [ae |-> FALSE, aemax |-> 0] BY DEF AutoExpand, NoExpandOption
<1> QED BY <1>1 DEF StoreGeometry

\* The same of the state after a start.
LEMMA StartExpansion ==
  ASSUME NoExpandOption, NEW opt \in Options, geom' = StoreGeometry(opt) PROVE NoExpansion'
<1>1. geom'.ae = FALSE /\ geom'.aemax = 0 BY NeverExpands, Zenon
<1> QED BY <1>1 DEF NoExpansion

\* What the info file of a recorded queue says.
LEMMA OneInfo ==
  ASSUME RecordWhole, NEW r \in db["queue"]
  PROVE  \E i \in Info(r.name) :
           /\ Info(r.name) = {i} /\ i.geo \in Geometry
           /\ 0 .. i.geo.njf - 1 \subseteq {g.f : g \in dir[r.name].files}
<1>1. PICK geo \in Geometry : dir[r.name].files = Files(r.inc, geo, (0 .. geo.njf - 1) \cup {InfoFile})
  BY DEF RecordWhole, HasJournal
<1> DEFINE i == [f |-> InfoFile, inc |-> r.inc, geo |-> geo]
           S == 0 .. geo.njf - 1
<1> HIDE DEF S
<1>2. dir[r.name].files = Files(r.inc, geo, S \cup {InfoFile}) BY <1>1 DEF S
<1>3. Info(r.name) = {i} BY <1>2 DEF Files, Info
<1>4. ASSUME NEW j \in S PROVE j \in {g.f : g \in dir[r.name].files}
  <2> DEFINE e == [f |-> j, inc |-> r.inc, geo |-> geo]
  <2>1. e \in dir[r.name].files BY <1>2 DEF Files
  <2>2. e.f = j OBVIOUS
  <2> QED BY <2>1, <2>2
<1>5. i.geo = geo OBVIOUS
<1>6. S \subseteq {g.f : g \in dir[r.name].files} BY <1>4
<1> HIDE DEF i
<1> QED BY <1>1, <1>3, <1>5, <1>6 DEF S

\* No start is refused: every recorded queue's journal is verified.
LEMMA StartRecovers ==
  ASSUME NoExpandOption, StoreInv, NEW opt \in Options, Start(opt)
  PROVE  life' = "up" /\ journalList' = {r.name : r \in db["queue"]} /\ NoExpansion'
<1>0. Types /\ RecordWhole /\ Sound BY DEF StoreInv, IdInv, JournalInv, KeptInv
<1>1. NoExpansion' BY StartExpansion DEF Start
<1>2. ASSUME NEW r \in db["queue"]
      PROVE  Verified(r.name) /\ ~LimitReached(RecoveredGeometry(r.name, geom'))
  <2>1. PICK i \in Info(r.name) : 0 .. i.geo.njf - 1 \subseteq {g.f : g \in dir[r.name].files}
    BY <1>0, OneInfo
  <2>2. Verified(r.name) BY <1>0, <2>1 DEF Verified, Sound
  <2>3. PICK g : g = geom' OBVIOUS
  <2>4. g.aemax = 0
    <3>1. geom'.aemax = 0 BY <1>1 DEF NoExpansion
    <3> QED BY <2>3, <3>1, Zenon
  <2>5. ~LimitReached(RecoveredGeometry(r.name, g)) BY <2>4 DEF LimitReached, RecoveredGeometry
  <2>6. ~LimitReached(RecoveredGeometry(r.name, geom')) BY <2>3, <2>5, Zenon
  <2> QED BY <2>2, <2>6
<1>3. life' = "up" /\ \E known : Recover(known, geom')
  BY <1>2, Zenon DEF Start
<1>4. journalList' = {r.name : r \in db["queue"]} BY <1>3, Zenon DEF Recover
<1> QED BY <1>1, <1>3, <1>4

\* The geometry a queue comes back with is the one in its info file.
LEMMA BackGeometry ==
  ASSUME Types, RecordWhole, NEW g, NEW r \in db["queue"]
  PROVE  \A i \in Info(r.name) : i.geo.njf = Back(r, g).njf /\ i.geo.size = Back(r, g).size
<1>1. PICK i \in Info(r.name) : Info(r.name) = {i} BY OneInfo
<1>2. (CHOOSE j \in Info(r.name) : TRUE) = i BY <1>1
<1>3. RecoveredGeometry(r.name, g).njf = i.geo.njf /\ RecoveredGeometry(r.name, g).size = i.geo.size
  BY <1>2 DEF RecoveredGeometry
<1>4. r.name \in QNames BY QueueRecords
<1>5. Back(r, g).njf = i.geo.njf /\ Back(r, g).size = i.geo.size BY <1>3, <1>4 DEF Back, ObjectOf
<1> QED BY <1>1, <1>5

\* Exchanges and general items have no geometry.
LEMMA BackPlain ==
  ASSUME NEW g, NEW r, r.name \notin QNames
  PROVE  Back(r, g).njf = MinFiles /\ Back(r, g).size = 1
  BY DEF Back, ObjectOf, Plain

\* What a start makes of the tables.
LEMMA StartMakes ==
  ASSUME ~UnknownTypes, NoExpandOption, StoreInv, NEW opt \in Options, Start(opt)
  PROVE  \E g : \E B :
           /\ obj' = B /\ BackOK(B, db["exchange"], g)
           /\ kept' = [obj |-> obj', bound |-> bound']
           /\ bindingDb' = RecoverBindings({r.id : r \in db["exchange"]}, {r.id : r \in db["queue"]})
           /\ bound' = bindingDb'
<1>1. Types /\ life' = "up" BY StartRecovers DEF StoreInv, IdInv
<1>2. PICK known \in SUBSET db["exchange"] : \E g :
           /\ ~UnknownTypes => known = db["exchange"]
           /\ bindingDb' = RecoverBindings({r.id : r \in known}, {r.id : r \in db["queue"]})
           /\ bound' = bindingDb'
           /\ kept' = [obj |-> obj', bound |-> bound']
           /\ \E B : obj' = B /\ BackOK(B, known, g)
  BY <1>1, StartsUp, Zenon
<1>3. known = db["exchange"] BY <1>2
<1> QED BY <1>2, <1>3, Zenon

\* KeptInv is kept by a start.
LEMMA StartKept ==
  ASSUME ~UnknownTypes, NoExpandOption, StoreInv, NEW opt \in Options, Start(opt) PROVE KeptInv'
<1>0. Types /\ Quiet /\ KeptInv /\ RecordWhole BY DEF StoreInv, IdInv, JournalInv
<1>1. /\ life = "down" /\ UNCHANGED <<db, dir, call, incs>>
      /\ life' = "up" /\ journalList' = {r.name : r \in db["queue"]} /\ NoExpansion'
  BY <1>0, StartDoes, StartRecovers
<1>2. PICK g : \E B :
           /\ obj' = B /\ BackOK(B, db["exchange"], g)
           /\ kept' = [obj |-> obj', bound |-> bound']
           /\ bindingDb' = RecoverBindings({r.id : r \in db["exchange"]}, {r.id : r \in db["queue"]})
           /\ bound' = bindingDb'
  BY StartMakes, Zenon
<1> DEFINE R == db["queue"] \cup db["exchange"] \cup db["general"]
<1>3. \A o \in obj' : \E r \in R : o = Back(r, g) /\ BackFrom(r, o) BY <1>2 DEF BackOK
<1>4. \A r \in R : \E o \in obj' : BackFrom(r, o) BY <1>2 DEF BackOK
<1>5. /\ \A r \in R : r \in db[Table(r.name)] /\ (r.name \in QNames => r \in db["queue"])
      /\ db["queue"] \subseteq R /\ db["exchange"] \subseteq R
      /\ \A r \in db["queue"] : r.name \in QNames
      /\ \A r \in db["exchange"] : r.name \in XNames
  BY <1>0, NamesAssumption DEF Types, Tables, Table
<1> HIDE DEF R
<1>6. kept'.obj = obj' /\ kept'.bound = bound'
  <2>1. kept' = [obj |-> obj', bound |-> bound'] BY <1>2
  <2> QED BY <2>1
<1>7. \A b \in bound' : /\ b \in bindingDb'
                        /\ \E r \in db["exchange"] : r.id = b.x
                        /\ \E r \in db["queue"] : r.id = b.q
  BY <1>2 DEF RecoverBindings
<1>8. KeptHeld'
  <2>1. ASSUME NEW o \in obj', o.name \in QNames PROVE o.name \in journalList'
    <3>1. PICK r \in R : BackFrom(r, o) BY <1>3
    <3> QED BY <1>1, <1>5, <2>1, <3>1 DEF BackFrom
  <2> QED BY <1>6, <2>1 DEF KeptHeld
<1>9. KeptRecorded'
  <2>1. ASSUME NEW o \in obj' PROVE \E r \in db[Table(o.name)] : Same(r, o)
    <3>1. PICK r \in R : BackFrom(r, o) BY <1>3
    <3> QED BY <1>5, <3>1 DEF BackFrom, Same
  <2> QED BY <1>1, <1>6, <2>1 DEF KeptRecorded
<1>10. KeptBound'
  <2>1. ASSUME NEW b \in bound'
        PROVE  /\ \E o \in obj' : o.name \in XNames /\ o.id = b.x
               /\ \E o \in obj' : o.name \in QNames /\ o.id = b.q
    <3>1. PICK r \in db["exchange"] : r.id = b.x BY <1>7
    <3>2. PICK s \in db["queue"] : s.id = b.q BY <1>7
    <3> QED BY <1>4, <1>5, <3>1, <3>2 DEF BackFrom
  <2> QED BY <1>6, <1>7, <2>1 DEF KeptBound
<1>11. KeptGeometry'
  <2>1. ASSUME NEW o \in obj'
        PROVE  IF o.name \in QNames
               THEN \A i \in Info(o.name) : i.geo.njf = o.njf /\ i.geo.size = o.size
               ELSE o.njf = MinFiles /\ o.size = 1
    <3>1. PICK r \in R : o = Back(r, g) /\ BackFrom(r, o) BY <1>3
    <3>2. o.name = r.name BY <3>1 DEF BackFrom
    <3>3. CASE r.name \in QNames
      <4>1. r \in db["queue"] BY <1>5, <3>3
      <4>2. \A i \in Info(r.name) : i.geo.njf = Back(r, g).njf /\ i.geo.size = Back(r, g).size
        BY <1>0, <4>1, BackGeometry
      <4> QED BY <3>1, <3>2, <3>3, <4>2
    <3>4. CASE r.name \notin QNames BY <3>1, <3>2, <3>4, BackPlain
    <3> QED BY <3>3, <3>4
  <2> QED BY <1>1, <1>6, <2>1 DEF KeptGeometry, Info
<1>12. Sound' BY <1>0, <1>1 DEF KeptInv, Sound, Info
<1>13. CallsSound' BY <1>0, <1>1, IdleIsSound DEF CallsSound, Quiet
<1> QED BY <1>1, <1>8, <1>9, <1>10, <1>11, <1>12, <1>13 DEF KeptInv

\* KeptInv is kept by a start with --truncate, which gives everything up.
LEMMA StartEmptyKept ==
  ASSUME NoExpandOption, StoreInv, NEW opt \in Options, StartEmpty(opt) PROVE KeptInv'
<1>0. Types /\ Quiet BY DEF StoreInv, IdInv
<1>1. /\ life = "down" /\ Erase /\ obj' = obj /\ bound' = bound /\ call' = call
      /\ kept' = [obj |-> {}, bound |-> {}] /\ geom' = StoreGeometry(opt)
  BY DEF StartEmpty
<1>2. obj' = {} /\ bound' = {} /\ \A t \in Thread : call'[t] = Idle BY <1>0, <1>1 DEF Quiet
<1>3. kept'.obj = {} /\ kept'.bound = {} BY <1>1
<1>4. db'["queue"] = {} BY <1>0, <1>1, Erased, QueueRecords
<1>5. KeptHeld' /\ KeptRecorded' /\ KeptGeometry' /\ KeptBound' /\ Sound'
  BY <1>2, <1>3, <1>4 DEF KeptHeld, KeptRecorded, KeptGeometry, KeptBound, Sound
<1>6. NoExpansion' BY <1>1, StartExpansion
<1>7. CallsSound' BY <1>2, IdleIsSound DEF CallsSound
<1> QED BY <1>5, <1>6, <1>7 DEF KeptInv

\* KeptInv at the start.
LEMMA InitKept == NoExpandOption /\ Init => KeptInv
<1> SUFFICES ASSUME NoExpandOption, Init PROVE KeptInv OBVIOUS
<1>1. /\ db["queue"] = {} /\ life = "down" /\ kept.obj = {} /\ kept.bound = {}
      /\ \A t \in Thread : call[t] = Idle
  BY DEF Init, Tables
<1>2. NoExpansion
  <2>1. PICK opt \in Options : geom = StoreGeometry(opt) BY DEF Init
  <2> QED BY <2>1, NeverExpands DEF NoExpansion
<1>3. CallsSound BY <1>1, IdleIsNothing DEF CallsSound, CreateSound, DestroySound, BindSound
<1> QED BY <1>1, <1>2, <1>3 DEF KeptInv, KeptHeld, KeptRecorded, KeptGeometry, KeptBound, Sound

\* KeptInv is inductive, given the three before.
LEMMA NextKept ==
  ASSUME ~DestroyMayFail, ~UnknownTypes, NoExpandOption, LimitedExpand, StoreInv, IdInv', [Next]_vars
  PROVE  KeptInv'
<1>0. Types /\ NoExpansion BY DEF StoreInv, IdInv, KeptInv
<1>1. ASSUME NEW t \in Thread, NEW n \in QNames, NEW a \in QueueArgs,
             QueueGeometry(a).size # Refused, BeginCreate(t, n, QueueGeometry(a))
      PROVE  KeptInv'
  <2>1. QueueGeometry(a) \in Geometry BY <1>0, <1>1, GeometryType DEF Types
  <2>2. ~NoRoom(QueueGeometry(a)) => Valid(QueueGeometry(a)) BY <1>0, <2>1, LimitedGeometry
  <2>3. PICK geo \in Geometry : geo = QueueGeometry(a) BY <2>1
  <2>4. BeginCreate(t, n, geo) /\ n \in Names /\ (~NoRoom(geo) => Valid(geo)) BY <1>1, <2>2, <2>3 DEF Names
  <2> QED BY <2>4, BeginCreateKept
<1>2. ASSUME NEW t \in Thread, NEW n \in XNames \cup GNames, BeginCreate(t, n, Plain) PROVE KeptInv'
  <2>1. Plain \in Geometry /\ n \in Names /\ n \notin QNames BY GeometryType, NamesAssumption DEF Names
  <2> QED BY <1>2, <2>1, BeginCreateKept
<1>3. ASSUME NEW t \in Thread, SomeStep(t) PROVE KeptInv' BY <1>3, StepKept
<1>4. ASSUME NEW t \in Thread, PutRecord(t) PROVE KeptInv' BY <1>4, PutRecordKept
<1>5. ASSUME NEW t \in Thread, NEW o \in obj, BeginDestroy(t, o) PROVE KeptInv' BY <1>5, BeginDestroyKept
<1>6. ASSUME NEW t \in Thread, NEW x \in obj, NEW q \in obj, NEW key \in Keys, BeginBinding(t, x, q, key)
      PROVE  KeptInv'
  BY <1>6, BeginBindingKept
<1>7. ASSUME NEW t \in Thread, Bind(t) PROVE KeptInv' BY <1>7, BindKept
<1>8. CASE Truncate BY <1>8, TruncateKept
<1>9. CASE Crash BY <1>9, CrashKept
<1>10. ASSUME NEW opt \in Options, Start(opt) PROVE KeptInv' BY <1>10, StartKept
<1>11. ASSUME NEW opt \in Options, StartEmpty(opt) PROVE KeptInv' BY <1>11, StartEmptyKept
<1>12. CASE UNCHANGED vars
  BY <1>12 DEF StoreInv, vars, KeptInv, KeptHeld, KeptRecorded, KeptGeometry, KeptBound, Sound, Info, CallsSound,
               CreateSound, DestroySound, BindSound, NoExpansion
<1> QED BY <1>1, <1>2, <1>3, <1>4, <1>5, <1>6, <1>7, <1>8, <1>9, <1>10, <1>11, <1>12 DEF Next, SomeStep

\* A start from a state of the invariant gives back everything kept.
LEMMA StartGivesBack ==
  ASSUME ~UnknownTypes, NoExpandOption, StoreInv, NEW opt \in Options, Start(opt)
  PROVE  kept.obj \subseteq obj' /\ kept.bound \subseteq bound'
<1>0. Types /\ KeptInv /\ RecordWhole BY DEF StoreInv, IdInv, JournalInv
<1>1. PICK g : \E B :
           /\ obj' = B /\ BackOK(B, db["exchange"], g)
           /\ bindingDb' = RecoverBindings({r.id : r \in db["exchange"]}, {r.id : r \in db["queue"]})
           /\ bound' = bindingDb'
  BY StartMakes, Zenon
<1> DEFINE R == db["queue"] \cup db["exchange"] \cup db["general"]
<1>2. \A r \in R : Back(r, g) \in obj' /\ Back(r, g) \in BrokerObject /\ BackFrom(r, Back(r, g))
  BY <1>1 DEF BackOK
<1>3. \A k \in Tables : db[k] \subseteq R BY DEF Tables
<1> HIDE DEF R
<1>4. ASSUME NEW o \in kept.obj PROVE o \in obj'
  <2>1. o \in BrokerObject BY <1>0 DEF Types, CallsOK
  <2>2. PICK r \in db[Table(o.name)] : Same(r, o) BY <1>0 DEF KeptInv, KeptRecorded
  <2>3. r \in R BY <1>3, <2>2, TableType
  <2> DEFINE p == Back(r, g)
  <2>4. p \in obj' /\ p \in BrokerObject /\ p.name = o.name /\ p.id = o.id /\ p.inc = o.inc
    BY <1>2, <2>2, <2>3 DEF BackFrom, Same
  <2>5. p.njf = o.njf /\ p.size = o.size
    <3>1. CASE o.name \in QNames
      <4>1. r \in db["queue"] /\ r.name = o.name BY <2>2, <3>1 DEF Table, Same
      <4>2. PICK i \in Info(r.name) : TRUE BY <1>0, <4>1, OneInfo
      <4>3. i.geo.njf = p.njf /\ i.geo.size = p.size BY <1>0, <4>1, <4>2, BackGeometry
      <4>4. i.geo.njf = o.njf /\ i.geo.size = o.size BY <1>0, <3>1, <4>1, <4>2 DEF KeptInv, KeptGeometry
      <4> QED BY <4>3, <4>4
    <3>2. CASE o.name \notin QNames
      <4>1. r.name \notin QNames BY <2>2, <3>2 DEF Same
      <4>2. p.njf = MinFiles /\ p.size = 1 BY <4>1, BackPlain
      <4>3. o.njf = MinFiles /\ o.size = 1 BY <1>0, <3>2 DEF KeptInv, KeptGeometry
      <4> QED BY <4>2, <4>3
    <3> QED BY <3>1, <3>2
  <2> HIDE DEF p
  <2>6. p = o BY <2>1, <2>4, <2>5 DEF BrokerObject
  <2> QED BY <2>4, <2>6
<1>5. ASSUME NEW b \in kept.bound PROVE b \in bound'
  <2>1. b \in bindingDb BY <1>0 DEF KeptInv, KeptBound
  <2>2. PICK x \in kept.obj : x.name \in XNames /\ x.id = b.x BY <1>0 DEF KeptInv, KeptBound
  <2>3. PICK q \in kept.obj : q.name \in QNames /\ q.id = b.q BY <1>0 DEF KeptInv, KeptBound
  <2>4. Table(x.name) = "exchange" /\ Table(q.name) = "queue" BY <2>2, <2>3, NamesAssumption DEF Table
  <2>5. PICK r \in db["exchange"] : r.id = b.x BY <1>0, <2>2, <2>4 DEF KeptInv, KeptRecorded, Same
  <2>6. PICK s \in db["queue"] : s.id = b.q BY <1>0, <2>3, <2>4 DEF KeptInv, KeptRecorded, Same
  <2> QED BY <1>1, <2>1, <2>5, <2>6 DEF RecoverBindings
<1> QED BY <1>4, <1>5

\* What the store has answered for is what the broker has back after a restart,
\* under the same id and with the geometry of its creation (MessageStoreImpl::recover
\* and the calls that create and bind).  The hypotheses are those of the run: no
\* refused deletion, every exchange type known to the broker, no auto-expansion from
\* the command line, and a limit where a declaration asks for auto-expansion.
THEOREM KeptSurvivesAlways ==
  ~DestroyMayFail /\ ~UnknownTypes /\ NoExpandOption /\ LimitedExpand => (Spec => KeptSurvives)
<1> SUFFICES ASSUME ~DestroyMayFail, ~UnknownTypes, NoExpandOption, LimitedExpand PROVE Spec => KeptSurvives OBVIOUS
<1>1. Init => StoreInv BY InitIds, InitHeld, InitJournal, InitKept DEF StoreInv
<1>2. StoreInv /\ [Next]_vars => StoreInv' BY NextIds, NextHeld, NextJournal, NextKept DEF StoreInv
<1>3. StoreInv /\ [Next]_vars =>
        [(\E opt \in Options : Start(opt)) => kept.obj \subseteq obj' /\ kept.bound \subseteq bound']_vars
  BY StartGivesBack
<1> QED BY <1>1, <1>2, <1>3, PTL DEF Spec, KeptSurvives
=============================================================================
