---------------------------- MODULE JournalImpl ----------------------------
(***************************************************************************)
(* The journal of a queue in the broker (class JournalImpl): the broker's  *)
(* threads call the operations of jcntl (module Wmgr) through it, and a    *)
(* timer thread flushes what is left in the page cache and collects the    *)
(* completions.  Neither the flags of the inactivity timer nor the reading *)
(* of the count of events outside the lock is protected by _wr_mutex, so   *)
(* each access is a step of its own.                                       *)
(***************************************************************************)
EXTENDS Wmgr

CONSTANT Threads    \* bound: threads of the broker in a call at a time

ASSUME ThreadsAssumption == Threads \in Nat \ {0}

VARIABLES
    writeActivityFlag,      \* a call has been made since the timer last looked
    flushTriggeredFlag,     \* the timer has flushed since the last activity
    getEventsTimerSetFlag,  \* the events timer is armed
    timer,      \* where the timer thread is
    owner,      \* who holds the mutex: the broker, the timer, stop() or none
    returned,   \* calls that gave the mutex back and are not yet at handleIoResult()
    flushed,    \* the broker is in flush(), after jcntl::flush()
    life        \* up, stopping, draining (in aio_cmpl_wait()), stopped

flagVars == <<writeActivityFlag, flushTriggeredFlag, getEventsTimerSetFlag>>
threadVars == <<timer, owner, returned, flushed>>
jvars == <<vars, flagVars, threadVars, life>>

JInit ==
    /\ Init
    /\ writeActivityFlag = FALSE /\ flushTriggeredFlag = TRUE
    /\ getEventsTimerSetFlag = FALSE
    /\ timer = "idle" /\ owner = "none" /\ returned = 0 /\ flushed = FALSE
    /\ life = "up"

-----------------------------------------------------------------------------
(* The broker's threads.                                                   *)

BrokerCall ==
    /\ life = "up" /\ returned < Threads
    /\ \/ \E r \in Rids : CallEnqueue(r) \/ CallDequeue(r) \/ CallEnd(r) \/ Retry(r)
       \/ CallFlush /\ ~flushed
    /\ owner' = "broker"
    /\ UNCHANGED <<flagVars, timer, returned, flushed, life>>

\* A call that ends in an exception does not come to handleIoResult().
Thrown == {"DEQREFUSED", "AIOCMPLWAIT"}
GivesBack == op'.pc = "idle"

\* The holder of the mutex goes on, and gives it back with its last step.
HolderStep(step) ==
    /\ step
    /\ IF ~GivesBack THEN UNCHANGED <<threadVars, life>> ELSE
       /\ owner' = "none"
       /\ returned' = IF op.kind # "flush" /\ op.res \notin Thrown THEN returned + 1
                                                                  ELSE returned
       /\ flushed' = (flushed \/ (op.kind = "flush" /\ owner = "broker"))
       /\ timer' = IF owner = "timer" THEN "set" ELSE timer
       /\ life' = IF owner = "stop" THEN "draining" ELSE life
    /\ UNCHANGED flagVars

HandleIoResult ==
    /\ returned > 0
    /\ returned' = returned - 1
    /\ writeActivityFlag' = TRUE
    /\ UNCHANGED <<vars, flushTriggeredFlag, getEventsTimerSetFlag, timer, owner,
                   flushed, life>>

\* The end of flush(): the events timer is armed if a write is under way.
EventsTimerSet == getEventsTimerSetFlag \/ evtRem > 0
BrokerFlushed ==
    /\ flushed
    /\ flushed' = FALSE
    /\ getEventsTimerSetFlag' = EventsTimerSet
    /\ UNCHANGED <<vars, writeActivityFlag, flushTriggeredFlag, timer, owner, returned, life>>

-----------------------------------------------------------------------------
(* flushFire(): a period without activity after one with it flushes.       *)

TimerGoes(t) == timer' = t /\ UNCHANGED <<owner, returned, flushed, life>>

FlushFire ==
    /\ timer = "idle" /\ life = "up"
    /\ writeActivityFlag \/ ~flushTriggeredFlag
    /\ TimerGoes(IF writeActivityFlag THEN "active" ELSE "flush")
    /\ UNCHANGED <<vars, flagVars>>

SawActivity ==
    /\ timer = "active"
    /\ writeActivityFlag' = FALSE /\ flushTriggeredFlag' = FALSE
    /\ TimerGoes("idle")
    /\ UNCHANGED <<vars, getEventsTimerSetFlag>>

TimerFlush ==
    /\ timer = "flush"
    /\ CallFlush
    /\ timer' = "flushing" /\ owner' = "timer"
    /\ UNCHANGED <<flagVars, returned, flushed, life>>

TimerFlushed ==
    /\ timer = "set"
    /\ getEventsTimerSetFlag' = EventsTimerSet
    /\ TimerGoes("triggered")
    /\ UNCHANGED <<vars, writeActivityFlag, flushTriggeredFlag>>

\* Mutant of Triggered: the activity flag is cleared with it.
Triggered_ClearsActivity ==
    /\ timer = "triggered"
    /\ flushTriggeredFlag' = TRUE /\ writeActivityFlag' = FALSE
    /\ TimerGoes("idle")
    /\ UNCHANGED <<vars, getEventsTimerSetFlag>>
Triggered ==
    /\ timer = "triggered"
    /\ flushTriggeredFlag' = TRUE
    /\ TimerGoes("idle")
    /\ UNCHANGED <<vars, writeActivityFlag, getEventsTimerSetFlag>>

-----------------------------------------------------------------------------
(* getEventsFire(): takes the completions there are, unless the mutex is   *)
(* taken, and is armed again as long as some are missing.                  *)

EventsFire ==
    /\ timer = "idle" /\ getEventsTimerSetFlag
    /\ getEventsTimerSetFlag' = FALSE
    /\ TimerGoes("events")
    /\ UNCHANGED <<vars, writeActivityFlag, flushTriggeredFlag>>

\* Mutant of EventsFired: the timer is not armed again.
EventsFired_Once ==
    /\ timer = "events"
    /\ TimerGoes("idle")
    /\ UNCHANGED <<vars, flagVars>>
EventsFired ==
    /\ timer = "events"
    /\ getEventsTimerSetFlag' = (evtRem > 0)
    /\ TimerGoes("idle")
    /\ UNCHANGED <<vars, writeActivityFlag, flushTriggeredFlag>>

\* Mutant of Collecting: stop() leaves the completions to the events timer.
Collecting_ByTimer == op.pc # "idle" \/ timer = "events"
\* Completions are only collected by a thread in get_events().
Collecting == op.pc # "idle" \/ timer = "events" \/ life = "draining"
Collect ==
    /\ Collecting
    /\ \/ \E p \in Pages : ReapPage(p)
       \/ \E f \in Files : ReapHeader(f)
    /\ UNCHANGED <<flagVars, threadVars, life>>

-----------------------------------------------------------------------------
(* stop(true), when the broker makes no more calls.  Cancelling the timer  *)
(* waits for a flushFire() under way.                                      *)

Stop ==
    /\ life = "up" /\ owner # "broker" /\ returned = 0 /\ ~flushed
    /\ timer \in {"idle", "events"}
    /\ life' = "stopping"
    /\ UNCHANGED <<vars, flagVars, threadVars>>

StopFlush ==
    /\ life = "stopping" /\ owner = "none"
    /\ CallFlush
    /\ owner' = "stop"
    /\ UNCHANGED <<flagVars, timer, returned, flushed, life>>

\* Mutant of Drained: the writes are not waited for.
Drained_AtOnce ==
    /\ life = "draining"
    /\ life' = "stopped"
    /\ UNCHANGED <<vars, flagVars, threadVars>>
\* aio_cmpl_wait()
Drained ==
    /\ life = "draining" /\ evtRem = 0
    /\ life' = "stopped"
    /\ UNCHANGED <<vars, flagVars, threadVars>>

-----------------------------------------------------------------------------
TimerThread == \/ FlushFire \/ SawActivity \/ TimerFlush \/ TimerFlushed \/ Triggered
               \/ EventsFire \/ EventsFired
Stopping == StopFlush \/ Drained

JNext == \/ BrokerCall \/ HolderStep(Holder) \/ HolderStep(WaitTimeout)
         \/ HandleIoResult \/ BrokerFlushed
         \/ Collect
         \/ TimerThread
         \/ Stop \/ Stopping

\* Threads that can run do: the one with the mutex, those on their way out of a
\* call, the timer's, which may find the mutex taken any number of times but not
\* always, and the one in stop().  A write ends, and is found by one of the
\* get_events() calls that are made again and again.
Fairness ==
    /\ WF_jvars(HolderStep(Holder))
    /\ WF_jvars(HandleIoResult) /\ WF_jvars(BrokerFlushed)
    /\ WF_jvars(SawActivity \/ TimerFlushed \/ Triggered \/ EventsFired)
    /\ SF_jvars(FlushFire) /\ SF_jvars(EventsFire)
    /\ SF_jvars(TimerFlush \/ StopFlush)
    /\ WF_jvars(Drained)
    /\ SF_jvars(Collect)

JSpec == JInit /\ [][JNext]_jvars
FairSpec == JSpec /\ Fairness

-----------------------------------------------------------------------------
(* Properties.                                                             *)

\* Whatever the threads do between the unprotected accesses to the flags, a record
\* that was accepted and not reported is never left to nobody: the inactivity
\* timer will flush what is cached, and the writes under way are still collected.
ToBeFlushed == \/ writeActivityFlag \/ ~flushTriggeredFlag \/ returned > 0
               \/ timer \in {"active", "flush", "flushing"} \/ owner \in {"broker", "stop"}
               \/ life # "up"
ToBeCollected == getEventsTimerSetFlag \/ flushed \/ timer \in {"set", "events"}
NothingForgotten == fault = "none" /\ (\E r \in Rids : tok[r].st = "SUBM") =>
    /\ cached > 0 => ToBeFlushed
    /\ evtRem > 0 => ToBeFlushed \/ ToBeCollected

\* A journal that was stopped has all its accepted records on disk, and their
\* owners were told.
StoppedIsWritten == life = "stopped" =>
    cached = 0 /\ evtRem = 0 /\ \A r \in Rids : tok[r].st # "SUBM"

\* stop() ends, although the events timer may take the mutex and the events.
StopEnds == life = "stopping" ~> life = "stopped"
=============================================================================
