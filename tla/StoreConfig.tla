------------------------------ MODULE StoreConfig ------------------------------
(* The configuration half of MessageStoreImpl: queues, exchanges, bindings and *)
(* general items, kept in Berkeley DB tables, and the journal directory that   *)
(* goes with each queue.  Calls of several broker threads interleave; a queue  *)
(* is created and destroyed in several steps on two media (the directory, the  *)
(* table), with a crash or an error possible after each; recovery puts the two *)
(* together again and restarts the persistence-id sequences from what it       *)
(* finds.  External (not in src): Berkeley DB's transactions are atomic and    *)
(* durable; the file system keeps what a killed process had done; the broker   *)
(* drops an object whose call failed, makes calls about one object or one      *)
(* binding one after the other, and recovers before it serves.                 *)
EXTENDS Naturals, Sequences, FiniteSets, FiniteSetsExt

CONSTANTS
  Thread,                  \* broker threads inside the store
  QNames, XNames, GNames,  \* names of queues, exchanges and general items
  Keys,                    \* binding keys
  MinFiles, MaxFiles,      \* JRNL_MIN_NUM_FILES and JRNL_MAX_NUM_FILES
  NoArg,                   \* an argument a declaration leaves out
  QueueArgs,               \* arguments of a queue: [count, size, ae, aemax] for
                           \* qpid.file_count, file_size, auto_expand and
                           \* auto_expand_max_jfiles, each a value or NoArg
  Options,                 \* what a start may be given: [count, size, page, ae, aemax,
                           \* truncate]; the command line leaves ae and aemax at their
                           \* defaults (no auto-expansion), as its options are disabled
  UnknownTypes,            \* may a start miss the plug-in of an exchange's type?
  DestroyMayFail,          \* may Berkeley DB refuse to delete a record?
  MaxInc, MaxCrash, MaxFail \* bounds: objects created, crashes, errors

ASSUME FilesAssumption == /\ MinFiles \in Nat \ {0} /\ MaxFiles \in Nat
                          /\ MinFiles <= MaxFiles

\* A name stands for one object of one kind; what an option or an argument asks
\* for are the unsigned numbers and the flag the code reads.
ASSUME NamesAssumption == /\ QNames \cap XNames = {} /\ QNames \cap GNames = {}
                          /\ XNames \cap GNames = {}
ASSUME OptionsAssumption == \A opt \in Options :
  opt.count \in Nat /\ opt.size \in Nat /\ opt.ae \in BOOLEAN /\ opt.aemax \in Nat
ASSUME ArgsAssumption == \A a \in QueueArgs :
  /\ a.count = NoArg \/ a.count \in Nat
  /\ a.size = NoArg \/ a.size \in Nat
  /\ a.ae = NoArg \/ a.ae \in BOOLEAN
  /\ a.aemax = NoArg \/ a.aemax \in Nat

VARIABLES
  db,          \* queueDb, exchangeDb, generalDb: the records of each table
  bindingDb,   \* bindingDb: exchange id -> (queue id, key), duplicates allowed
  dir,         \* the journal directory of each queue name
  life,        \* "down", "up" or "refused" (recovery threw, the broker gave up)
  geom,        \* the geometry the running store was started with
  seq,         \* queueIdSequence, exchangeIdSequence, generalIdSequence
  obj,         \* the broker's objects whose create has returned
  bound,       \* the broker's bindings
  journalList, \* MessageStoreImpl::journalList: names of the open journals
  call,        \* the call each thread is in, and the steps it has left
  kept,        \* ghost: objects the store answered for and must give back
  incs, crashes, fails \* bounds

disk == <<db, bindingDb, dir>>
vars == <<db, bindingDb, dir, life, geom, seq, obj, bound, journalList, call, kept,
          incs, crashes, fails>>

Tables == {"queue", "exchange", "general"}
Names == QNames \cup XNames \cup GNames
Table(n) == IF n \in QNames THEN "queue" ELSE IF n \in XNames THEN "exchange" ELSE "general"

InfoFile == MaxFiles       \* <base>.jinf; the data files are 0 .. MaxFiles - 1
MaxFileSize == 32767       \* JRNL_MAX_FILE_SIZE, in read pages of 64 KiB
Geometry == [njf : MinFiles .. MaxFiles, size : 1 .. MaxFileSize, ae : BOOLEAN, aemax : Nat]
File == [f : 0 .. MaxFiles, inc : 1 .. MaxInc, geo : Geometry]
Object == [name : Names, id : Nat, inc : 1 .. MaxInc, njf : MinFiles .. MaxFiles, size : 1 .. MaxFileSize]
Binding == [x : Nat, q : Nat, key : Keys, xinc : 1 .. MaxInc, qinc : 1 .. MaxInc]
Idle == [op |-> "none", todo |-> <<>>]

\* What chkJrnlNumFilesParam makes of a number asked for.
ChkNumFiles(p) == IF p < MinFiles THEN MinFiles ELSE IF p > MaxFiles THEN MaxFiles ELSE p

\* The other geometry options.  chkJrnlFileSizeParam: the file size, in read
\* pages of 64 KiB (JRNL_MIN_FILE_SIZE is one of them), refused when a write page, in sblks of 512 bytes, does not fit.
SblksPerPage == 128
Refused == 0
ChkFileSize_Unchecked(p, pageSblks) == IF p < 1 THEN 1 ELSE IF p > MaxFileSize THEN MaxFileSize ELSE p
ChkFileSize(p, pageSblks) ==
  LET size == IF p < 1 THEN 1 ELSE IF p > MaxFileSize THEN MaxFileSize ELSE p
  IN  IF pageSblks > size * SblksPerPage THEN Refused ELSE size

\* chkJrnlWrPageCacheSize: the write page, in KiB, is the closest power of two;
\* a power of two asked for together with files of one read page becomes 64.
PowersOf2 == {1, 2, 4, 8, 16, 32, 64, 128}
ChkPageSize(p, fileSize) ==
  CASE p \in PowersOf2 -> IF fileSize = 1 THEN 64 ELSE p
    [] p = 0 -> 32
    [] OTHER -> Min({k \in {4, 8, 16, 32, 64} : 2 * p < 3 * k} \cup {128})

\* getJrnlWrNumPages: a quarter, a half or all of 1 MiB, in write pages.
NumPages(page) ==
  (2048 \div (2 * page)) \div (IF page <= 4 THEN 4 ELSE IF page <= 16 THEN 2 ELSE 1)

\* chkJrnlAutoExpandOptions: off unless asked for, and off when the journal has
\* all its files already; 0 is no limit.  (The adjustment of a limit left at its
\* default cannot happen while that default is 0.)
AutoExpand(opt, njf) ==
  IF ~opt.ae \/ njf = MaxFiles THEN [ae |-> FALSE, aemax |-> 0]
  ELSE [ae |-> TRUE, aemax |-> IF opt.aemax > MaxFiles THEN MaxFiles ELSE opt.aemax]

\* init(options): the geometry of the store, each option checked.  (The prepared
\* list's journal has three options of its own, checked the same way.)
StoreGeometry(opt) ==
  LET njf == ChkNumFiles(opt.count)  size == ChkFileSize(opt.size, 0)
      expand == AutoExpand(opt, njf)
  IN  [njf |-> njf, size |-> size, page |-> ChkPageSize(opt.page, size),
       ae |-> expand.ae, aemax |-> expand.aemax]

\* The geometry a queue's journal is given: its own arguments, of which the file
\* count and size are checked, or the store's where it has none.
QueueGeometry(a) ==
  [njf   |-> IF a.count = NoArg THEN geom.njf ELSE ChkNumFiles(a.count),
   size  |-> IF a.size = NoArg THEN geom.size ELSE ChkFileSize(a.size, 2 * geom.page),
   ae    |-> IF a.ae = NoArg THEN geom.ae ELSE a.ae,
   aemax |-> IF a.aemax = NoArg THEN geom.aemax ELSE a.aemax]

\* lpmgr::initialize and append refuse a limit that leaves no room to expand, or
\* that the files to begin with exceed.
NoRoom(geo) == geo.aemax > 0 /\ (geo.aemax < geo.njf \/ (geo.ae /\ geo.aemax = geo.njf))

-----------------------------------------------------------------------------
\* The steps of a call, in the order the code takes them.
CreateSteps_RecordFirst(n) == IF n \in QNames THEN <<"put", "clear", "files">> ELSE <<"put">>
CreateSteps(n) == IF n \in QNames THEN <<"clear", "files", "put">> ELSE <<"put">>
DestroySteps(n) ==
  CASE n \in QNames -> <<"record", "bindings", "unlink">>
    [] n \in XNames -> <<"record", "bindings">>
    [] OTHER -> <<"record">>

Doing(t, step) == life = "up" /\ call[t].todo # <<>> /\ Head(call[t].todo) = step
IsObjectOp(c) == c.op \in {"create", "destroy"}
BusyObject(n) == \E t \in Thread : IsObjectOp(call[t]) /\ call[t].name = n
SameBinding(b, c) == b.x = c.x /\ b.q = c.q /\ b.key = c.key
BusyBinding(b) == \E t \in Thread : call[t].op \in {"bind", "unbind"} /\ SameBinding(call[t].b, b)
Plain == [njf |-> MinFiles, size |-> 1, ae |-> FALSE, aemax |-> 0]
ObjectOf(c) ==
  [name |-> c.name, id |-> c.id, inc |-> c.inc, njf |-> c.geo.njf, size |-> c.geo.size]

\* The thread's call goes on with its next step; a create that has none left
\* returns, and the broker relies on the object from then on.
Advance(t, c) ==
  LET done == Len(c.todo) = 1
      made == IF done /\ c.op = "create" THEN {ObjectOf(c)} ELSE {}
  IN  /\ call' = [call EXCEPT ![t] = IF done THEN Idle ELSE [c EXCEPT !.todo = Tail(@)]]
      /\ obj' = obj \cup made
      /\ kept' = [kept EXCEPT !.obj = @ \cup made]

\* The call throws: the broker drops the object, and with it the journal, whose
\* destructor takes it off the list (journalDeleted).
Throw(t) ==
  /\ call' = [call EXCEPT ![t] = Idle]
  /\ journalList' = IF IsObjectOp(call[t]) THEN journalList \ {call[t].name} ELSE journalList
  /\ UNCHANGED <<obj, bound, kept>>

-----------------------------------------------------------------------------
Init ==
  /\ db = [k \in Tables |-> {}] /\ bindingDb = {}
  /\ dir = [n \in QNames |-> [made |-> FALSE, files |-> {}]]
  /\ life = "down"
  /\ geom \in {StoreGeometry(opt) : opt \in Options}
  /\ seq = [k \in Tables |-> 1]
  /\ obj = {} /\ bound = {} /\ journalList = {}
  /\ call = [t \in Thread |-> Idle]
  /\ kept = [obj |-> {}, bound |-> {}]
  /\ incs = 0 /\ crashes = 0 /\ fails = 0

\* create(queue | exchange | config): the broker makes one object of a name; a
\* queue's journal is listed before anything of it exists.
BeginCreate(t, n, geo) ==
  /\ life = "up" /\ call[t] = Idle /\ ~BusyObject(n) /\ incs < MaxInc
  /\ \A o \in obj : o.name # n
  /\ incs' = incs + 1
  /\ call' = [call EXCEPT ![t] =
       [op |-> "create", name |-> n, id |-> 0, inc |-> incs + 1, geo |-> geo,
        todo |-> CreateSteps(n)]]
  /\ journalList' = IF n \in QNames THEN journalList \cup {n} ELSE journalList
  /\ UNCHANGED <<disk, life, geom, seq, obj, bound, kept, crashes, fails>>

\* jdir::clear_dir: every file of an earlier journal of the name is moved away,
\* one rename at a time; a directory that is not there is made.
ClearDir_NotMade(t) ==
  /\ Doing(t, "clear")
  /\ LET c == call[t]  n == c.name IN
     IF dir[n].files # {}
     THEN \E f \in dir[n].files :
            /\ dir' = [dir EXCEPT ![n].files = @ \ {f}]
            /\ UNCHANGED <<call, obj, kept>>
     ELSE /\ dir' = dir
          /\ Advance(t, c)
  /\ UNCHANGED <<db, bindingDb, life, geom, seq, bound, journalList, incs, crashes, fails>>
ClearDir(t) ==
  /\ Doing(t, "clear")
  /\ LET c == call[t]  n == c.name IN
     IF dir[n].files # {}
     THEN \E f \in dir[n].files :
            /\ dir' = [dir EXCEPT ![n].files = @ \ {f}]
            /\ UNCHANGED <<call, obj, kept>>
     ELSE /\ dir' = [dir EXCEPT ![n].made = TRUE]
          /\ Advance(t, c)
  /\ UNCHANGED <<db, bindingDb, life, geom, seq, bound, journalList, incs, crashes, fails>>

\* lpmgr::initialize refuses the limits it cannot hold to, then makes the data
\* files in order.
FilesMade(c) == Cardinality({g \in dir[c.name].files : g.inc = c.inc})
WriteFile(c, f) ==
  dir' = [dir EXCEPT ![c.name].files = {g \in @ : g.f # f} \cup {[f |-> f, inc |-> c.inc, geo |-> c.geo]}]

CreateFile(t) ==
  /\ Doing(t, "files")
  /\ LET c == call[t] IN
     IF NoRoom(c.geo)
     THEN Throw(t) /\ dir' = dir
     ELSE /\ FilesMade(c) < c.geo.njf
          /\ WriteFile(c, FilesMade(c))
          /\ UNCHANGED <<call, obj, bound, journalList, kept>>
  /\ UNCHANGED <<db, bindingDb, life, geom, seq, incs, crashes, fails>>

\* write_infofile(): the info file, with the journal's geometry, ends it.
WriteInfo(t) ==
  /\ Doing(t, "files")
  /\ LET c == call[t] IN
     /\ ~NoRoom(c.geo) /\ FilesMade(c) = c.geo.njf
     /\ WriteFile(c, InfoFile)
     /\ Advance(t, c)
  /\ UNCHANGED <<db, bindingDb, life, geom, seq, bound, journalList, incs, crashes, fails>>

\* The generic create(): the next id of the sequence, and the record under it in
\* one Berkeley DB transaction; an id already there makes the caller throw.
NextId(k) == seq' = [seq EXCEPT ![k] = @ + 1]
PutRecord(t) ==
  /\ Doing(t, "put")
  /\ LET k == Table(call[t].name)
         c == [call[t] EXCEPT !.id = seq[k]]
     IN  /\ NextId(k)
         /\ IF \E r \in db[k] : r.id = c.id
            THEN Throw(t) /\ db' = db
            ELSE /\ db' = [db EXCEPT ![k] = @ \cup {[id |-> c.id, name |-> c.name, inc |-> c.inc]}]
                 /\ Advance(t, c)
                 /\ UNCHANGED <<bound, journalList>>
  /\ UNCHANGED <<bindingDb, dir, life, geom, incs, crashes, fails>>

\* destroy(queue | exchange | config): the broker forgets the object first.
BeginDestroy(t, o) ==
  /\ life = "up" /\ call[t] = Idle /\ o \in obj /\ ~BusyObject(o.name)
  /\ LET others(B) == {b \in B : b.xinc # o.inc /\ b.qinc # o.inc} IN
     /\ obj' = obj \ {o}
     /\ bound' = others(bound)
     /\ kept' = [obj |-> kept.obj \ {o}, bound |-> others(kept.bound)]
  /\ call' = [call EXCEPT ![t] =
       [op |-> "destroy", name |-> o.name, id |-> o.id, inc |-> o.inc, todo |-> DestroySteps(o.name)]]
  /\ UNCHANGED <<disk, life, geom, seq, journalList, incs, crashes, fails>>

\* The generic destroy(): db->del of the record.
DeleteRecord(t) ==
  /\ Doing(t, "record")
  /\ LET c == call[t]  k == Table(c.name) IN
     /\ db' = [db EXCEPT ![k] = {r \in @ : r.id # c.id}]
     /\ Advance(t, c)
  /\ UNCHANGED <<bindingDb, dir, life, geom, seq, bound, journalList, incs, crashes, fails>>

\* deleteBindingsForQueue (a scan of the whole table for the queue's id, in one
\* transaction) and, for an exchange, the deletion of everything under its id.
DeleteBindings(t) ==
  /\ Doing(t, "bindings")
  /\ LET c == call[t] IN
     /\ bindingDb' = {b \in bindingDb : IF c.name \in QNames THEN b.q # c.id ELSE b.x # c.id}
     /\ Advance(t, c)
  /\ UNCHANGED <<db, dir, life, geom, seq, bound, journalList, incs, crashes, fails>>

\* delete_jrnl_files: the directory's entries go one unlink at a time, in the
\* order readdir gives them, then the directory; then the journal is deleted
\* and leaves the list.
DeleteDir(t) ==
  /\ Doing(t, "unlink")
  /\ LET c == call[t]  n == c.name IN
     IF dir[n].files # {}
     THEN \E f \in dir[n].files :
            /\ dir' = [dir EXCEPT ![n].files = @ \ {f}]
            /\ UNCHANGED <<call, obj, kept, journalList>>
     ELSE /\ dir' = [dir EXCEPT ![n].made = FALSE]
          /\ journalList' = journalList \ {n}
          /\ Advance(t, c)
  /\ UNCHANGED <<db, bindingDb, life, geom, seq, bound, incs, crashes, fails>>

\* bind() and unbind(): the broker passes an exchange and a queue it holds; either
\* may be destroyed by another thread before the binding is put.
BindingOf(x, q, key) == [x |-> x.id, q |-> q.id, key |-> key, xinc |-> x.inc, qinc |-> q.inc]
BeginBinding(t, x, q, key) ==
  /\ life = "up" /\ call[t] = Idle
  /\ x \in obj /\ q \in obj /\ x.name \in XNames /\ q.name \in QNames
  /\ LET b == BindingOf(x, q, key)
         op == IF b \in bound THEN "unbind" ELSE "bind"
     IN
     /\ ~BusyBinding(b)
     /\ call' = [call EXCEPT ![t] = [op |-> op, b |-> b, todo |-> <<op>>]]
     /\ bound' = bound \ {b}
     /\ kept' = [kept EXCEPT !.bound = @ \ {b}]
  /\ UNCHANGED <<disk, life, geom, seq, obj, journalList, incs, crashes, fails>>

Alive(b) == (\E o \in obj : o.inc = b.xinc) /\ (\E o \in obj : o.inc = b.qinc)

\* put() with DB_NODUPDATA: the same data under the same key makes bind() throw.
Bind(t) ==
  /\ Doing(t, "bind")
  /\ LET b == call[t].b IN
     IF \E d \in bindingDb : SameBinding(d, b)
     THEN Throw(t) /\ bindingDb' = bindingDb
     ELSE /\ bindingDb' = bindingDb \cup {b}
          /\ bound' = IF Alive(b) THEN bound \cup {b} ELSE bound
          /\ kept' = IF Alive(b) THEN [kept EXCEPT !.bound = @ \cup {b}] ELSE kept
          /\ call' = [call EXCEPT ![t] = Idle]
          /\ UNCHANGED <<obj, journalList>>
  /\ UNCHANGED <<db, dir, life, geom, seq, incs, crashes, fails>>

\* deleteBinding(): the duplicates under the exchange's id with the queue's id
\* and the key.
Unbind(t) ==
  /\ Doing(t, "unbind")
  /\ bindingDb' = {d \in bindingDb : ~SameBinding(d, call[t].b)}
  /\ call' = [call EXCEPT ![t] = Idle]
  /\ UNCHANGED <<db, dir, life, geom, seq, obj, bound, journalList, kept, incs, crashes, fails>>

\* An error of Berkeley DB or of the file system in the middle of a call.  The id
\* a failed put had drawn is not given back.
Fail(t) ==
  /\ fails < MaxFail /\ life = "up" /\ call[t] # Idle
  /\ Doing(t, "record") => DestroyMayFail
  /\ fails' = fails + 1
  /\ Throw(t)
  /\ IF Doing(t, "put") THEN NextId(Table(call[t].name)) ELSE seq' = seq
  /\ UNCHANGED <<disk, life, geom, incs, crashes>>

-----------------------------------------------------------------------------
\* truncateInit() while the store is open: refused while a journal is listed;
\* then the store's directory is deleted, or pushed down into a saved one, and
\* opened again.  The sequences are not touched.  The broker does it before it
\* has durable exchanges or general items.
Erase ==
  /\ db' = [k \in Tables |-> {}] /\ bindingDb' = {}
  /\ dir' = [n \in QNames |-> [made |-> FALSE, files |-> {}]]
Truncate_AnyTime ==
  /\ life = "up" /\ \A t \in Thread : call[t] = Idle
  /\ \A o \in obj : o.name \in QNames
  /\ Erase
  /\ UNCHANGED <<life, geom, seq, obj, bound, journalList, call, kept, incs, crashes, fails>>
Truncate ==
  /\ life = "up" /\ \A t \in Thread : call[t] = Idle
  /\ \A o \in obj : o.name \in QNames
  /\ journalList = {}
  /\ Erase
  /\ UNCHANGED <<life, geom, seq, obj, bound, journalList, call, kept, incs, crashes, fails>>

\* The broker is killed, or stops (finalize() only stops the journals).
Crash ==
  /\ life = "up" /\ crashes < MaxCrash
  /\ crashes' = crashes + 1
  /\ life' = "down"
  /\ obj' = {} /\ bound' = {} /\ journalList' = {}
  /\ call' = [t \in Thread |-> Idle]
  /\ UNCHANGED <<disk, geom, seq, kept, incs, fails>>

\* jcntl::recover of a queue's journal: verify_dir reads the info file, validates
\* what it says and wants every data file it counts; the file count and size are
\* the info file's, whatever the options say now, and the auto-expansion is the
\* options', whatever the info file says.
Info(n) == {g \in dir[n].files : g.f = InfoFile}
Valid(geo) == geo \in Geometry /\ (geo.ae => geo.aemax \in geo.njf .. MaxFiles)
Verified(n) ==
  /\ dir[n].made
  /\ \E i \in Info(n) : /\ Valid(i.geo)
                        /\ 0 .. i.geo.njf - 1 \subseteq {g.f : g \in dir[n].files}
RecoveredGeometry_AsAsked(n, g) == g
RecoveredGeometry(n, g) ==
  LET i == CHOOSE i \in Info(n) : TRUE
  IN  [njf |-> i.geo.njf, size |-> i.geo.size, ae |-> g.ae, aemax |-> g.aemax]

\* lpmgr::recover refuses a limit that the journal's files have reached.
LimitReached(geo) == geo.aemax > 0 /\ geo.aemax <= geo.njf

\* recoverBindings: a binding whose exchange or queue was not recovered is
\* deleted from the table.
RecoverBindings_LeavesStale(xids, qids) == bindingDb
RecoverBindings(xids, qids) == {b \in bindingDb : b.x \in xids /\ b.q \in qids}

\* recoverQueues, and recoverExchanges and recoverGeneral: an object of the
\* record's name and id.
QueuesBack(g) ==
  {ObjectOf([name |-> r.name, id |-> r.id, inc |-> r.inc, geo |-> RecoveredGeometry(r.name, g)]) :
     r \in db.queue}
PlainBack(R) ==
  {ObjectOf([name |-> r.name, id |-> r.id, inc |-> r.inc, geo |-> Plain]) : r \in R}

\* recover(): queues, exchanges, bindings, general items; each sequence restarts
\* after the highest id found.  known: the exchanges whose type the broker has
\* (recoverExchange answers null for the others).
Recover(known, g) ==
  LET xids == {r.id : r \in known}
      qids == {r.id : r \in db.queue}
  IN  /\ seq' = [k \in Tables |-> Max({1} \cup {r.id : r \in db[k]}) + 1]
      /\ bindingDb' = RecoverBindings(xids, qids)
      /\ obj' = QueuesBack(g) \cup PlainBack(known) \cup PlainBack(db.general)
      /\ bound' = {b \in bindingDb : b.x \in xids /\ b.q \in qids}
      /\ kept' = [obj |-> obj', bound |-> bound']
      /\ journalList' = {r.name : r \in db.queue}

\* init(options) opens what is there, and the broker recovers it.
Start(opt) ==
  /\ life = "down" /\ ~opt.truncate
  /\ geom' = StoreGeometry(opt)
  /\ IF \A r \in db.queue :
          Verified(r.name) /\ ~LimitReached(RecoveredGeometry(r.name, geom'))
     THEN /\ life' = "up"
          /\ \E known \in (IF UnknownTypes THEN SUBSET db.exchange ELSE {db.exchange}) :
               Recover(known, geom')
     ELSE /\ life' = "refused"
          /\ UNCHANGED <<bindingDb, seq, obj, bound, journalList, kept>>
  /\ UNCHANGED <<db, dir, call, incs, crashes, fails>>

\* init(options) with --truncate deletes the store's directory first; what the
\* store had answered for is given up.
StartEmpty(opt) ==
  /\ life = "down" /\ opt.truncate
  /\ geom' = StoreGeometry(opt)
  /\ life' = "up"
  /\ Erase
  /\ seq' = [k \in Tables |-> 2]
  /\ kept' = [obj |-> {}, bound |-> {}]
  /\ UNCHANGED <<obj, bound, journalList, call, incs, crashes, fails>>

Next ==
  \/ \E t \in Thread :
       \/ \E n \in QNames, a \in QueueArgs :
            QueueGeometry(a).size # Refused /\ BeginCreate(t, n, QueueGeometry(a))
       \/ \E n \in XNames \cup GNames : BeginCreate(t, n, Plain)
       \/ ClearDir(t) \/ CreateFile(t) \/ WriteInfo(t) \/ PutRecord(t)
       \/ \E o \in obj : BeginDestroy(t, o)
       \/ DeleteRecord(t) \/ DeleteBindings(t) \/ DeleteDir(t)
       \/ \E x \in obj, q \in obj, key \in Keys : BeginBinding(t, x, q, key)
       \/ Bind(t) \/ Unbind(t) \/ Fail(t)
  \/ Truncate \/ Crash
  \/ \E o \in Options : Start(o) \/ StartEmpty(o)

Spec == Init /\ [][Next]_vars

-----------------------------------------------------------------------------
\* Whatever size a queue asks for: the store's write page, a power of two in KiB
\* with a cache of at least 256 KiB to rotate, fits into a file of its journal.
\* (Two cases are left to the values of Options, for the code does not handle
\* them: files of one read page with a page size that is not a power of two, 100
\* becoming 128 KiB, and a restart with pages larger than the files of a queue
\* created before.)
PageFitsFile ==
  life = "up" =>
    /\ geom.page \in PowersOf2 /\ NumPages(geom.page) * geom.page \in {256, 512, 1024}
    /\ \A o \in obj : o.name \in QNames => 2 * geom.page <= o.size * SblksPerPage

\* Types; a directory that does not exist holds no file, and a table holds one
\* record under an id; and the page fits.
ConfigTypeOK ==
  /\ \A k \in Tables : \A r \in db[k] :
       /\ r.id \in Nat \ {0} /\ r.inc \in 1 .. MaxInc /\ Table(r.name) = k
       /\ \A s \in db[k] : s.id = r.id => s = r
  /\ bindingDb \subseteq Binding /\ bound \subseteq Binding
  /\ \A n \in QNames : dir[n].files \subseteq File /\ (~dir[n].made => dir[n].files = {})
  /\ life \in {"down", "up", "refused"}
  /\ seq \in [Tables -> Nat \ {0}]
  /\ obj \subseteq Object /\ kept.obj \subseteq Object /\ kept.bound \subseteq Binding
  /\ journalList \subseteq QNames
  /\ PageFitsFile

\* The table and the directory are written one after the other, with nothing
\* that makes the two one: still, at every instant a queue that has its record
\* has the whole journal it was created with, so no crash or failed step leaves
\* a queue that recovery refuses, or a record over another queue's files.
RecordHasJournal ==
  \A r \in db.queue :
    \E i \in Info(r.name) :
      /\ i.inc = r.inc
      /\ \A j \in 0 .. i.geo.njf - 1 : \E g \in dir[r.name].files : g.f = j /\ g.inc = r.inc

\* What the store has answered for (a queue, exchange or item created, a binding
\* made, and not destroyed since) is what the broker has back after a restart,
\* under the same id and with the journal geometry of its creation.
KeptSurvives ==
  [][(\E opt \in Options : Start(opt)) => /\ kept.obj \subseteq obj'
                                          /\ kept.bound \subseteq bound']_vars

\* Ids are used again after a restart, and a bind racing the destruction of its
\* queue or exchange leaves a binding behind: no binding ever reaches the broker
\* between two objects other than those it was made for.
NoStrayBinding ==
  \A b \in bound :
    /\ \E o \in obj : o.name \in XNames /\ o.id = b.x /\ o.inc = b.xinc
    /\ \E o \in obj : o.name \in QNames /\ o.id = b.q /\ o.inc = b.qinc
=============================================================================
