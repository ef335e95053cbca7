----------------------------- MODULE Management -----------------------------
(***************************************************************************)
(* The management objects of the store (gen/qmf/.../Journal and Store):    *)
(* the properties, gauges and counters that broker threads set, and the    *)
(* agent that reports them.  Properties and gauges are changed under the   *)
(* object's accessLock, which a report holds throughout.  A counter is     *)
(* kept per thread, without a lock, and reported as the sum over the       *)
(* threads; two flags say that something is to be reported.  The agent is  *)
(* the broker's (external): one thread, which looks at the flags.          *)
(***************************************************************************)
EXTENDS Integers, Sequences, FiniteSets, FiniteSetsExt

CONSTANTS
    Objects,    \* the management objects
    Counters,   \* Counters[o]: the names of the counters kept per thread
    Gauges,     \* Gauges[o]: the names of the statistics kept under the lock
    Threads,    \* indices of the broker's threads (getThreadIndex())
    Words,      \* the values of an unsigned word: 0 .. Words - 1
    Garbage,    \* what memory that was never written may hold
    MaxReports, \* bound: reports of statistics
    NoObject, NoSlot, RawSlot

ASSUME ManagementAssumption ==
    Words \in Nat \ {0} /\ MaxReports \in Nat /\ Garbage \subseteq 0 .. Words - 1 /\ NoObject \notin Objects

\* The array of slots has a place for each of the threads.
ASSUME ThreadsAssumption == Threads \subseteq Nat /\ Threads # {} /\ IsFiniteSet(Threads)

\* A pointer to no slot, and a slot whose counters are not set, are no counters.
ASSUME SlotsAssumption ==
    /\ NoSlot # RawSlot
    /\ \A o \in Objects : {NoSlot, RawSlot} \cap [Counters[o] -> 0 .. Words - 1] = {}

VARIABLES
    slot,           \* slot[o][t]: perThreadStatsArray[t] of object o
    gauge,          \* gauge[o][g]: its value, with the extremes since the last report
    props,          \* props[o]: the properties that have been set
    instChanged, configChanged,
    sent,           \* sent[o]: the statistics last reported
    sentProps,      \* sentProps[o]: the properties last reported
    agent,          \* the report under way: its object, the slots to add, the sums
    reports,        \* history: reports of statistics so far
    todo            \* todo[t]: the inc_, dec_ and set_ calls thread t is about to make

mvars == <<slot, gauge, props, instChanged, configChanged, sent, sentProps, agent, reports, todo>>

Zeros(o) == [c \in Counters[o] |-> 0]
ZeroGauge == [val |-> 0, high |-> 0, low |-> 0]
NoReport == [obj |-> NoObject, left |-> {}, sums |-> <<>>]

\* A new object: all values 0, no slot, and both flags up (ManagementObject, external).
MInit ==
    /\ slot = [o \in Objects |-> [t \in Threads |-> NoSlot]]
    /\ gauge = [o \in Objects |-> [g \in Gauges[o] |-> ZeroGauge]]
    /\ props = [o \in Objects |-> {}]
    /\ instChanged = [o \in Objects |-> TRUE]
    /\ configChanged = [o \in Objects |-> TRUE]
    /\ sent = [o \in Objects |-> [sums |-> Zeros(o), gauge |-> gauge[o]]]
    /\ sentProps = props
    /\ agent = NoReport /\ reports = 0

\* The calls a thread makes on an object.
Inc(o, c) == [kind |-> "count", obj |-> o, what |-> c, by |-> 1]
Dec(o, c) == [kind |-> "count", obj |-> o, what |-> c, by |-> -1]
Add(o, c, n) == [kind |-> "count", obj |-> o, what |-> c, by |-> n]
Up(o, g) == [kind |-> "gauge", obj |-> o, what |-> g, by |-> 1]
Down(o, g) == [kind |-> "gauge", obj |-> o, what |-> g, by |-> -1]
Raise(o, g, n) == [kind |-> "gauge", obj |-> o, what |-> g, by |-> n]
SetProp(o, p) == [kind |-> "prop", obj |-> o, what |-> p, by |-> 0]
Mark(o) == [kind |-> "mark", obj |-> o, what |-> "", by |-> 0]

Wrap(n) == n % Words
HasSlot(o, t) == slot[o][t] \notin {NoSlot, RawSlot}

\* No report holds object o's accessLock.
Unlocked(o) == agent.obj # o

-----------------------------------------------------------------------------
(* A thread's calls.                                                       *)

Doing(t, kind) == todo[t] # <<>> /\ Head(todo[t]).kind = kind
Done(t) == todo' = [todo EXCEPT ![t] = Tail(@)]

\* getThreadStats() puts a new slot into the array before it sets its counters to 0.
Publish(t) ==
    LET o == Head(todo[t]).obj IN
    /\ Doing(t, "count") /\ slot[o][t] = NoSlot
    /\ slot' = [slot EXCEPT ![o][t] = RawSlot]
    /\ UNCHANGED <<gauge, props, instChanged, configChanged, sent, sentProps, agent, reports, todo>>

Clear(t) ==
    LET o == Head(todo[t]).obj IN
    /\ Doing(t, "count") /\ slot[o][t] = RawSlot
    /\ slot' = [slot EXCEPT ![o][t] = Zeros(o)]
    /\ UNCHANGED <<gauge, props, instChanged, configChanged, sent, sentProps, agent, reports, todo>>

\* The counter first, the flag afterwards, neither under the lock.
Count(t) ==
    LET u == Head(todo[t]) IN
    /\ Doing(t, "count") /\ HasSlot(u.obj, t)
    /\ slot' = [slot EXCEPT ![u.obj][t][u.what] = Wrap(@ + u.by)]
    /\ todo' = [todo EXCEPT ![t] = <<Mark(u.obj)>> \o Tail(@)]
    /\ UNCHANGED <<gauge, props, instChanged, configChanged, sent, sentProps, agent, reports>>

MarkChanged(t) ==
    /\ Doing(t, "mark")
    /\ instChanged' = [instChanged EXCEPT ![Head(todo[t]).obj] = TRUE]
    /\ Done(t)
    /\ UNCHANGED <<slot, gauge, props, configChanged, sent, sentProps, agent, reports>>

\* An increment may set a new high, a decrement a new low.
Moved(g, by) ==
    LET v == Wrap(g.val + by) IN
    [val |-> v,
     high |-> IF by >= 0 /\ g.high < v THEN v ELSE g.high,
     low |-> IF by < 0 /\ g.low > v THEN v ELSE g.low]

Move(t) ==
    LET u == Head(todo[t]) IN
    /\ Doing(t, "gauge") /\ Unlocked(u.obj)
    /\ gauge' = [gauge EXCEPT ![u.obj][u.what] = Moved(@, u.by)]
    /\ instChanged' = [instChanged EXCEPT ![u.obj] = TRUE]
    /\ Done(t)
    /\ UNCHANGED <<slot, props, configChanged, sent, sentProps, agent, reports>>

Set(t) ==
    LET u == Head(todo[t]) IN
    /\ Doing(t, "prop") /\ Unlocked(u.obj)
    /\ props' = [props EXCEPT ![u.obj] = @ \cup {u.what}]
    /\ configChanged' = [configChanged EXCEPT ![u.obj] = TRUE]
    /\ Done(t)
    /\ UNCHANGED <<slot, gauge, instChanged, sent, sentProps, agent, reports>>

Update(t) == Publish(t) \/ Clear(t) \/ Count(t) \/ MarkChanged(t) \/ Move(t) \/ Set(t)

-----------------------------------------------------------------------------
(* The agent's reports.                                                    *)

\* writeProperties() copies the properties under the lock.
WriteProperties(o) ==
    /\ configChanged[o] /\ Unlocked(o)
    /\ configChanged' = [configChanged EXCEPT ![o] = FALSE]
    /\ sentProps' = [sentProps EXCEPT ![o] = props[o]]
    /\ UNCHANGED <<slot, gauge, props, instChanged, sent, agent, reports, todo>>

\* writeStatistics() takes the flag down before it adds up the slots ...
WriteStatistics(o) ==
    /\ agent = NoReport /\ instChanged[o] /\ reports < MaxReports
    /\ reports' = reports + 1
    /\ instChanged' = [instChanged EXCEPT ![o] = FALSE]
    /\ agent' = [obj |-> o, left |-> Threads, sums |-> Zeros(o)]
    /\ UNCHANGED <<slot, gauge, props, configChanged, sent, sentProps, todo>>

\* ... which their threads go on counting in.
SlotValues(o, t) ==
    CASE slot[o][t] = NoSlot -> {Zeros(o)}
      [] slot[o][t] = RawSlot -> {[c \in Counters[o] |-> n] : n \in Garbage}
      [] OTHER -> {slot[o][t]}

AggregateSlot ==
    LET o == agent.obj
        t == Min(agent.left)
    IN  /\ agent # NoReport /\ agent.left # {}
        /\ \E v \in SlotValues(o, t) :
              agent' = [agent EXCEPT !.left = @ \ {t},
                                     !.sums = [c \in Counters[o] |-> Wrap(@[c] + v[c])]]
        /\ UNCHANGED <<slot, gauge, props, instChanged, configChanged, sent, sentProps, reports, todo>>

\* The flag is not touched again: what was counted meanwhile has put it up.
FlagAtEnd_Down(o) == [instChanged EXCEPT ![o] = FALSE]
FlagAtEnd(o) == instChanged

\* The extremes start anew with every report.
Restarted(g) == [val |-> g.val, high |-> g.val, low |-> g.val]

Send ==
    LET o == agent.obj IN
    /\ agent # NoReport /\ agent.left = {}
    /\ sent' = [sent EXCEPT ![o] = [sums |-> agent.sums, gauge |-> gauge[o]]]
    /\ gauge' = [gauge EXCEPT ![o] = [g \in Gauges[o] |-> Restarted(@[g])]]
    /\ instChanged' = FlagAtEnd(o)
    /\ agent' = NoReport
    /\ UNCHANGED <<slot, props, configChanged, sentProps, reports, todo>>

Report == AggregateSlot \/ Send \/ \E o \in Objects : WriteProperties(o) \/ WriteStatistics(o)

-----------------------------------------------------------------------------
(* aggregatePerThreadStats() when nobody is counting.                      *)
Total(o, c) == Wrap(MapThenSumSet(LAMBDA t : IF HasSlot(o, t) THEN slot[o][t][c] ELSE 0, Threads))
Idle == \A t \in Threads : todo[t] = <<>>
=============================================================================
