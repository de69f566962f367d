------------------------------- MODULE Resolver -------------------------------
(***************************************************************************)
(* CDNS_Resolver (Windows): host names of addresses, looked up by a thread *)
(* of its own and kept.  It is a tree of records (RBTree, here the set     *)
(* that module Dictionary promises), a list of all of them and a list of   *)
(* those to be looked up (AList, here the sequences of module Listing).    *)
(* What runs under m_sCS is one step.  GetNameInfoW is external: it        *)
(* succeeds or fails, and takes its time.                                  *)
(***************************************************************************)
EXTENDS Integers, SequencesExt

CONSTANTS
  Users, Addresses, NoAddress,
  TickModulus,               \* the ticks GetTickCount counts before it wraps, 2^32
  TimeOutMin, TimeOutMax,    \* DNS_RESOLVE_TIME_OUT_MIN and _MAX
  Durations                  \* the ticks a lookup may take

ASSUME ResolverAssumption ==
  /\ NoAddress \notin Addresses
  /\ TickModulus \in Nat \ {0}
  /\ TimeOutMin \in Nat /\ TimeOutMax \in Nat /\ TimeOutMin <= TimeOutMax
  /\ Durations \subseteq 0 .. TickModulus - 1

VARIABLES
  known,       \* the addresses in the tree
  records,     \* m_cRecords
  resolving,   \* m_cResolving
  name,        \* m_pName of each record: none, the address itself or the host's name
  sem,         \* m_hSm_Resovle
  user, asked, \* where a user is in Get_Name, and the address it asks for
  thread,      \* where the thread is in Routine
  current,     \* l_pRec
  cursor,      \* l_pEl, as a place in records
  tick,        \* l_dwTick
  waitMax,     \* l_lWaitMax
  timeOut,     \* m_lTimeOut
  slowest,     \* history: the longest a lookup that succeeded has taken
  exit         \* was m_hEv_Exit set?

storeVars  == <<known, records, resolving, name, sem>>
userVars   == <<user, asked>>
threadVars == <<thread, current, cursor, tick, waitMax, timeOut, slowest>>
resolverVars == <<storeVars, userVars, threadVars, exit>>

ResolverInit ==
  /\ known = {} /\ records = <<>> /\ resolving = <<>> /\ sem = 0
  /\ name = [a \in Addresses |-> "none"]
  /\ user = [u \in Users |-> "idle"] /\ asked = [u \in Users |-> NoAddress]
  /\ thread = "wait" /\ current = NoAddress /\ cursor = 0
  /\ tick = 0 /\ waitMax = -1 /\ timeOut = TimeOutMax /\ slowest = 0
  /\ exit = FALSE

\* CDNS_Item::Update: without a name the record is named after its address.
Update(a, resolved) == name' = [name EXCEPT ![a] = IF resolved THEN "host" ELSE "address"]

\* Resolve_SA: GetNameInfoW may find the name or not.
ResolveSA == BOOLEAN

-----------------------------------------------------------------------------
(* Get_Name.                                                               *)

\* A record that is not found is made, pushed and named after its address.
Ask(u, a) ==
  /\ user[u] = "idle" /\ ~exit
  /\ asked' = [asked EXCEPT ![u] = a]
  /\ IF a \in known
     THEN user' = [user EXCEPT ![u] = "read"] /\ UNCHANGED <<known, records, name>>
     ELSE /\ user' = [user EXCEPT ![u] = "queue"]
          /\ known' = known \cup {a}
          /\ records' = Append(records, a)
          /\ Update(a, FALSE)
  /\ UNCHANGED <<resolving, sem, threadVars, exit>>

\* Mutant: the semaphore is only released for the first of the list.
QueueFirst(u) ==
  /\ user[u] = "queue"
  /\ user' = [user EXCEPT ![u] = "wait"]
  /\ resolving' = Append(resolving, asked[u])
  /\ sem' = IF resolving = <<>> THEN sem + 1 ELSE sem
  /\ UNCHANGED <<known, records, name, asked, threadVars, exit>>

Queue(u) ==
  /\ user[u] = "queue"
  /\ user' = [user EXCEPT ![u] = "wait"]
  /\ resolving' = Append(resolving, asked[u])
  /\ sem' = sem + 1
  /\ UNCHANGED <<known, records, name, asked, threadVars, exit>>

\* WaitForSingleObject returns with the event of the record, or after m_lTimeOut,
\* which may be any time after the request was queued.
Waited(u) ==
  /\ user[u] = "wait"
  /\ user' = [user EXCEPT ![u] = "read"]
  /\ UNCHANGED <<known, records, resolving, name, sem, asked, threadVars, exit>>

\* The name is copied; without a name the copy would fail.
ReadName(u) ==
  /\ user[u] = "read"
  /\ user' = [user EXCEPT ![u] = "idle"]
  /\ asked' = [asked EXCEPT ![u] = NoAddress]
  /\ UNCHANGED <<storeVars, threadVars, exit>>

-----------------------------------------------------------------------------
(* Routine.                                                                *)

\* Mutant: the ticks up to the wrap are counted from the wrong end.
DifferenceWrong(cur, prev) ==
  IF cur >= prev THEN cur - prev ELSE (prev - cur) % TickModulus

\* CTicks::Difference, one too small once the counter has wrapped
Difference(cur, prev) ==
  IF cur >= prev THEN cur - prev
  ELSE ((TickModulus - 1 - prev) + cur) % TickModulus

\* The exit goes before the semaphore, and both before the time-out of a second.
WakeExit ==
  /\ thread = "wait" /\ exit
  /\ thread' = "gone"
  /\ UNCHANGED <<storeVars, userVars, current, cursor, tick, waitMax, timeOut, slowest, exit>>

WakeRequest ==
  /\ thread = "wait" /\ ~exit /\ sem > 0
  /\ sem' = sem - 1
  /\ thread' = "take"
  /\ UNCHANGED <<known, records, resolving, name, userVars,
                 current, cursor, tick, waitMax, timeOut, slowest, exit>>

WakeIdle ==
  /\ thread = "wait" /\ ~exit /\ sem = 0
  /\ thread' = "walk"
  /\ UNCHANGED <<storeVars, userVars, current, cursor, tick, waitMax, timeOut, slowest, exit>>

Take ==
  /\ thread = "take"
  /\ IF resolving = <<>>
     THEN thread' = "adjust" /\ current' = NoAddress /\ UNCHANGED resolving
     ELSE thread' = "lookup" /\ current' = Head(resolving) /\ resolving' = Tail(resolving)
  /\ UNCHANGED <<known, records, name, sem, userVars,
                 cursor, tick, waitMax, timeOut, slowest, exit>>

Longer(a, b) == IF a > b THEN a ELSE b

\* Resolve_SA, Update and the event for the user who waits
Lookup ==
  /\ thread = "lookup"
  /\ \E resolved \in ResolveSA, start \in 0 .. TickModulus - 1, d \in Durations :
       /\ tick' = IF resolved THEN Difference((start + d) % TickModulus, start) ELSE 0
       /\ slowest' = IF resolved THEN Longer(slowest, d) ELSE slowest
       /\ Update(current, resolved)
  /\ thread' = "adjust"
  /\ UNCHANGED <<known, records, resolving, sem, userVars, current, cursor, waitMax, timeOut, exit>>

Clamped(t) == IF t > TimeOutMax THEN TimeOutMax ELSE IF t < TimeOutMin THEN TimeOutMin ELSE t

\* Users wait as long as the slowest lookup so far has taken, within the limits.
Adjust ==
  /\ thread = "adjust"
  /\ IF tick > waitMax THEN waitMax' = Clamped(tick) /\ timeOut' = waitMax'
     ELSE UNCHANGED <<waitMax, timeOut>>
  /\ thread' = "wait"
  /\ UNCHANGED <<storeVars, userVars, current, cursor, tick, slowest, exit>>

\* The record after the last one that was refreshed; after the end comes nothing,
\* and then the first.
Walk ==
  /\ thread = "walk"
  /\ cursor' = IF cursor = Len(records) THEN 0 ELSE cursor + 1
  /\ current' = IF cursor' = 0 THEN NoAddress ELSE records[cursor']
  /\ thread' = IF cursor' = 0 THEN "wait" ELSE "refresh"
  /\ UNCHANGED <<storeVars, userVars, tick, waitMax, timeOut, slowest, exit>>

Refresh ==
  /\ thread = "refresh"
  /\ \E resolved \in ResolveSA : Update(current, resolved)
  /\ thread' = "wait"
  /\ UNCHANGED <<known, records, resolving, sem, userVars,
                 current, cursor, tick, waitMax, timeOut, slowest, exit>>

-----------------------------------------------------------------------------
(* The destructor, which nobody calls while others are in Get_Name.  It    *)
(* gives the thread 30 seconds, time enough for a lookup to end.           *)

ExitSignal ==
  /\ ~exit /\ \A u \in Users : user[u] = "idle"
  /\ exit' = TRUE
  /\ UNCHANGED <<storeVars, userVars, threadVars>>

Destroy ==
  /\ thread = "gone"
  /\ known' = {} /\ records' = <<>> /\ resolving' = <<>> /\ sem' = 0
  /\ name' = [a \in Addresses |-> "none"]
  /\ UNCHANGED <<userVars, threadVars, exit>>

Routine ==
  \/ WakeExit \/ WakeRequest \/ WakeIdle \/ Take \/ Lookup \/ Adjust
  \/ Walk \/ Refresh

ResolverNext ==
  \/ \E u \in Users : Queue(u) \/ Waited(u) \/ ReadName(u) \/ \E a \in Addresses : Ask(u, a)
  \/ Routine \/ ExitSignal \/ Destroy

ResolverSpec == ResolverInit /\ [][ResolverNext]_resolverVars

-----------------------------------------------------------------------------
(* Properties.                                                             *)

\* Between two requests users wait as long as the slowest lookup has taken, within
\* the limits, or one tick less if the counter of ticks wrapped meanwhile.
TimeOutTracksSlowest ==
  thread \in {"wait", "walk", "refresh"} /\ waitMax >= 0 =>
    timeOut = waitMax /\ timeOut \in Clamped(slowest - 1) .. Clamped(slowest)

\* An address that a user asked for is looked up while the resolver lives.
EachIsLookedUp ==
  \A a \in Addresses : a \in ToSet(resolving) ~> (thread = "lookup" /\ current = a) \/ exit
=============================================================================
