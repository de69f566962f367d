------------------------------- MODULE MEvent -------------------------------
(***************************************************************************)
(* CMEvent for Linux: several events in one object, which threads set,     *)
(* clear and wait for.  It is built, as in the source, without             *)
(* PMEVENT_COND_VARIABLE: a semaphore counts the calls of Set, and the     *)
(* counters of the events, which a mutex protects, tell which was set.     *)
(* A waiting thread takes a count of the semaphore first and looks for its *)
(* event later, and in between other threads come and go.                  *)
(***************************************************************************)
EXTENDS Integers, FiniteSetsExt

CONSTANTS
  Threads,      \* the threads that wait
  Count,        \* m_bCount
  Interrupts,   \* the threads that may be interrupted by a signal of the system
  MaxSem        \* bound: counts of the semaphore, and of m_iSignals

Events == 0 .. Count - 1

ASSUME MEventAssumption ==
  /\ IsFiniteSet(Threads) /\ Count \in Nat \ {0}
  /\ Interrupts \subseteq Threads /\ MaxSem \in Nat

VARIABLES
  types,     \* eType of each event, the arguments of CMEvent::Init
  sem,       \* m_sSem
  signals,   \* m_iSignals
  counter,   \* iCounter of each event
  cur,       \* m_pEvent_Cur
  pc,        \* where each thread is in Wait
  got        \* what its last Wait returned

eventVars == <<types, signals, counter, cur>>
vars == <<sem, eventVars, pc, got>>

TimeOut == -1       \* MEVENT_TIME_OUT

-----------------------------------------------------------------------------
Init ==
  /\ types \in [Events -> {"auto", "manual", "multi"}]
  /\ sem = 0 /\ signals = 0
  /\ counter = [e \in Events |-> 0]
  /\ cur = 0
  /\ pc = [t \in Threads |-> "out"]
  /\ got = [t \in Threads |-> TimeOut]

\* Mutant: the semaphore is only posted for an event that was not set.
SetOnce(e) ==
  /\ sem < MaxSem /\ signals < MaxSem
  /\ signals' = signals + 1
  /\ counter' = [counter EXCEPT ![e] = @ + 1]
  /\ sem' = IF counter[e] = 0 THEN sem + 1 ELSE sem
  /\ UNCHANGED <<types, cur, pc, got>>

Set(e) ==
  /\ sem < MaxSem /\ signals < MaxSem
  /\ signals' = signals + 1
  /\ counter' = [counter EXCEPT ![e] = @ + 1]
  /\ sem' = sem + 1
  /\ UNCHANGED <<types, cur, pc, got>>

\* The count of the semaphore stays.
Clr(e) ==
  /\ types[e] = "manual" /\ counter[e] > 0
  /\ signals' = signals - 1
  /\ counter' = [counter EXCEPT ![e] = @ - 1]
  /\ UNCHANGED <<types, sem, cur, pc, got>>

-----------------------------------------------------------------------------
(* Wait() and Wait(i_dwMSec).                                              *)

Wait(t) ==
  /\ pc[t] = "out"
  /\ pc' = [pc EXCEPT ![t] = "sleep"]
  /\ UNCHANGED <<sem, eventVars, got>>

WaitTimed(t) ==
  /\ pc[t] = "out"
  /\ pc' = [pc EXCEPT ![t] = "timed"]
  /\ UNCHANGED <<sem, eventVars, got>>

\* sem_wait and sem_timedwait return 0.
SemTaken(t) ==
  /\ pc[t] \in {"sleep", "timed"} /\ sem > 0
  /\ sem' = sem - 1
  /\ pc' = [pc EXCEPT ![t] = "signal"]
  /\ UNCHANGED <<eventVars, got>>

\* The result of sem_wait is not looked at: a signal of the system that ends it
\* sends the thread on without a count.
Interrupted(t) ==
  /\ t \in Interrupts /\ pc[t] = "sleep"
  /\ pc' = [pc EXCEPT ![t] = "signal"]
  /\ UNCHANGED <<sem, eventVars, got>>

\* A signal of the system ends sem_timedwait like the end of its time.
TimedOut(t) ==
  /\ pc[t] = "timed" /\ (sem = 0 \/ t \in Interrupts)
  /\ pc' = [pc EXCEPT ![t] = "out"]
  /\ got' = [got EXCEPT ![t] = TimeOut]
  /\ UNCHANGED <<sem, eventVars>>

-----------------------------------------------------------------------------
(* Get_Signal.                                                             *)

\* The k-th event after the current one; the Count-th is that one itself.
After(k) == (cur + k) % Count

\* Mutant: the search always starts at the first event.
IsLowest(e) == counter[e] > 0 /\ \A f \in 0 .. e - 1 : counter[f] = 0

\* The first event that is set, in the order of the ring.
IsFirst(e) ==
  \E k \in 1 .. Count :
    /\ e = After(k) /\ counter[e] > 0
    /\ \A j \in 1 .. k - 1 : counter[After(j)] = 0

\* A manual event stays set.
Take(e) ==
  IF types[e] = "manual"
  THEN UNCHANGED <<signals, counter>>
  ELSE signals' = signals - 1 /\ counter' = [counter EXCEPT ![e] = @ - 1]

Return(t, result) ==
  /\ pc' = [pc EXCEPT ![t] = "out"]
  /\ got' = [got EXCEPT ![t] = result]
  /\ UNCHANGED sem

Found(t, e) ==
  /\ pc[t] = "signal" /\ signals # 0
  /\ IsFirst(e)
  /\ cur' = e /\ UNCHANGED types
  /\ Take(e)
  /\ Return(t, e)

\* No event is set, "error: signal event wasn't found !" if one is counted.
NotFound(t) ==
  /\ pc[t] = "signal"
  /\ signals = 0 \/ \A e \in Events : counter[e] = 0
  /\ signals' = IF signals = 0 THEN 0 ELSE signals - 1
  /\ UNCHANGED <<types, counter, cur>>
  /\ Return(t, TimeOut)

GetSignal(t) == NotFound(t) \/ \E e \in Events : Found(t, e)

Next ==
  \/ \E e \in Events : Set(e) \/ Clr(e)
  \/ \E t \in Threads :
       Wait(t) \/ WaitTimed(t) \/ SemTaken(t) \/ Interrupted(t) \/ TimedOut(t) \/ GetSignal(t)

Spec == Init /\ [][Next]_vars

\* A thread that waits runs on when it can, and waits again in the end, with a time
\* or without, as Chnl_Routine does in its loop.
Fairness ==
  \A t \in Threads :
    WF_vars(Wait(t) \/ WaitTimed(t)) /\ WF_vars(SemTaken(t)) /\ WF_vars(GetSignal(t))
FairSpec == Spec /\ Fairness

-----------------------------------------------------------------------------
(* Properties.                                                             *)

\* The threads that have taken a count, or were interrupted, and not yet an event
Claiming == {t \in Threads : pc[t] = "signal"}

\* The variables have their types, and m_iSignals is the sum of the counters:
\* the search after a count was taken finds an event, or none is set.
TypeOK ==
  /\ types \in [Events -> {"auto", "manual", "multi"}]
  /\ sem \in 0 .. MaxSem /\ signals \in 0 .. MaxSem
  /\ counter \in [Events -> Nat]
  /\ cur \in Events
  /\ pc \in [Threads -> {"out", "sleep", "timed", "signal"}]
  /\ got \in [Threads -> Events \cup {TimeOut}]
  /\ signals = MapThenSumSet(LAMBDA e : counter[e], Events)

\* The properties below are about events without a manual one, such as the two
\* of the client: a manual event stays set when its count of the semaphore is used.
NoManual == \A e \in Events : types[e] # "manual"

\* Nobody goes to sleep, or sleeps on, while more events are set than other
\* threads are about to take: the counts of the semaphore cover them.
NoneUnnoticed == NoManual => signals <= sem + Cardinality(Claiming)

\* A thread is not told that the time is over while an event is set, except
\* when other threads are on their way to it.
TimeOutIsTrue ==
  [][\A t \in Threads \ Interrupts :
       TimedOut(t) /\ NoManual /\ Claiming = {} => \A e \in Events : counter[e] = 0]_vars

\* An event that is set and was not the last to be returned is returned in the
\* end, however often the others are set: a thread that data keeps busy still
\* hears of the exit.
SetIsReturned ==
  \A e \in Events : (NoManual /\ counter[e] > 0 /\ cur # e) ~> cur = e
=============================================================================
