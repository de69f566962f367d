----------------------------- MODULE Telemetry ------------------------------
(***************************************************************************)
(* A telemetry channel (CP7Telemetry) that several threads use: they make  *)
(* counters and send values of them, and the server switches counters on   *)
(* and off.  The server has to get the information of the channel and the  *)
(* descriptions of all the counters before the first value, and again      *)
(* whenever the connection was reset.  As in Trace, the client is here its *)
(* connection, its reset counter and what Sent accepted since the queue    *)
(* was drained last.                                                       *)
(***************************************************************************)
EXTENDS Integers, SequencesExt

CONSTANTS
  Threads,      \* threads of the application
  NoThread,     \* the owner of a free lock
  Names,        \* names of counters
  MaxCounters,  \* P7TELEMETRY_COUNTERS_MAX_COUNT
  MaxResets,    \* bound: value of the reset counter
  MaxStream     \* bound: messages accepted since the queue was drained

Ids == 0 .. MaxCounters - 1

ASSUME TelemetryAssumption ==
  /\ NoThread \notin Threads
  /\ MaxCounters \in Nat \ {0} /\ MaxResets \in Nat /\ MaxStream \in Nat

VARIABLES
  connected, resets, dirty,  \* the client, as in Trace
  stream,       \* what Sent accepted since the queue was drained, in order
  status,       \* m_sStatus, which all the threads share
  mark,         \* m_dwResets_Channel
  marks,        \* m_dwResets_Counters
  counters,     \* m_pCounters: the name of each, and is it on?
  lock,         \* the owner of m_sCS
  pc,           \* where each thread is in Add or Create
  call,         \* the ID or the name the owner of the lock was called with
  drops,        \* l_bReset: what it describes again
  closed        \* was Sent called with the end of the channel?

clientVars  == <<connected, resets, dirty>>
channelVars == <<mark, marks, counters, closed>>
callVars    == <<call, drops>>
vars == <<clientVars, stream, status, channelVars, lock, pc, callVars>>

Undefined == -1             \* RESET_UNDEFINED

Used == DOMAIN counters     \* the IDs below m_dwUsed

Info     == [type |-> "info"]
Close    == [type |-> "close"]
Desc(id) == [type |-> "counter", id |-> id]

\* A value; "fresh" notes that the reset counter had not moved on since the
\* marks were compared with it.
Value(t, id) ==
  [type |-> "value", id |-> id, thread |-> t, fresh |-> mark = resets /\ marks = resets]

-----------------------------------------------------------------------------
Init ==
  /\ connected = FALSE /\ resets = 0 /\ dirty = FALSE
  /\ stream = <<>>
  /\ status = [connected |-> FALSE, resets |-> 0]
  /\ mark = Undefined /\ marks = Undefined
  /\ counters = [i \in {} |-> [name |-> "", on |-> FALSE]]
  /\ closed = FALSE
  /\ lock = NoThread
  /\ pc = [t \in Threads |-> "idle"]
  /\ call = 0
  /\ drops = {}

-----------------------------------------------------------------------------
(* The client.                                                             *)

Connect ==
  /\ ~connected /\ ~dirty
  /\ resets < MaxResets
  /\ connected' = TRUE
  /\ resets' = resets + 1
  /\ UNCHANGED <<dirty, stream, status, channelVars, lock, pc, callVars>>

Disconnect ==
  /\ connected
  /\ connected' = FALSE
  /\ dirty' = TRUE
  /\ UNCHANGED <<resets, stream, status, channelVars, lock, pc, callVars>>

\* After a disconnect, or because the server does not know the client
Reset ==
  /\ resets < MaxResets
  /\ resets' = resets + 1
  /\ dirty' = FALSE
  /\ stream' = <<>>
  /\ UNCHANGED <<connected, status, channelVars, lock, pc, callVars>>

-----------------------------------------------------------------------------
(* Add.                                                                    *)

\* Get_Status writes into the channel before the lock is taken.
GetStatus(t) ==
  /\ pc[t] = "idle"
  /\ status' = [connected |-> connected, resets |-> resets]
  /\ pc' = [pc EXCEPT ![t] = "test"]
  /\ UNCHANGED <<clientVars, stream, channelVars, lock, callVars>>

TestConnected(t) ==
  /\ pc[t] = "test"
  /\ pc' = [pc EXCEPT ![t] = IF status.connected THEN "enter" ELSE "idle"]
  /\ UNCHANGED <<clientVars, stream, status, channelVars, lock, callVars>>

\* An ID that no counter has ends the call.
Enter(t) ==
  /\ pc[t] = "enter" /\ lock = NoThread
  /\ \E id \in Ids :
       IF id \in Used
       THEN call' = id /\ drops' = {} /\ lock' = t /\ pc' = [pc EXCEPT ![t] = "compare"]
       ELSE pc' = [pc EXCEPT ![t] = "idle"] /\ UNCHANGED <<lock, callVars>>
  /\ UNCHANGED <<clientVars, stream, status, channelVars>>

CompareChannel(t) ==
  /\ pc[t] = "compare"
  /\ pc' = [pc EXCEPT ![t] = IF mark # status.resets THEN "mark" ELSE "counters"]
  /\ UNCHANGED <<clientVars, stream, status, channelVars, lock, callVars>>

\* m_dwResets_Channel = m_sStatus.dwResets, which is read again
MarkChannel(t) ==
  /\ pc[t] = "mark"
  /\ mark' = status.resets
  /\ drops' = {"channel"}
  /\ pc' = [pc EXCEPT ![t] = "counters"]
  /\ UNCHANGED <<clientVars, stream, status, marks, counters, closed, lock, call>>

CompareCounters(t) ==
  /\ pc[t] = "counters"
  /\ pc' = [pc EXCEPT ![t] = IF marks # status.resets THEN "describe" ELSE "send"]
  /\ UNCHANGED <<clientVars, stream, status, channelVars, lock, callVars>>

MarkCounters(t) ==
  /\ pc[t] = "describe"
  /\ marks' = status.resets
  /\ drops' = drops \cup {"counters"}
  /\ pc' = [pc EXCEPT ![t] = "send"]
  /\ UNCHANGED <<clientVars, stream, status, mark, counters, closed, lock, call>>

\* The chunks go to Sent as one message; a counter that is off has no value.
Message(t) ==
  (IF "channel" \in drops THEN <<Info>> ELSE <<>>)
  \o (IF "counters" \in drops THEN [i \in 1 .. Cardinality(Used) |-> Desc(i - 1)] ELSE <<>>)
  \o (IF counters[call].on THEN <<Value(t, call)>> ELSE <<>>)

Leave(t) == lock' = NoThread /\ pc' = [pc EXCEPT ![t] = "idle"]

\* Nothing to describe, and the counter is off
NothingToSend(t) ==
  /\ pc[t] = "send"
  /\ Message(t) = <<>>
  /\ Leave(t)
  /\ UNCHANGED <<clientVars, stream, status, channelVars, callVars>>

SendAccepted(t) ==
  /\ pc[t] = "send"
  /\ connected /\ Message(t) # <<>> /\ Len(stream) < MaxStream
  /\ stream' = stream \o Message(t)
  /\ Leave(t)
  /\ UNCHANGED <<clientVars, status, channelVars, callVars>>

\* Mutant: only the mark of the channel is taken back.
KeepCounters(t) ==
  /\ pc[t] = "send" /\ Message(t) # <<>>
  /\ mark' = IF "channel" \in drops THEN Undefined ELSE mark
  /\ Leave(t)
  /\ UNCHANGED <<clientVars, stream, status, marks, counters, closed, callVars>>

\* The connection is off or there are no free buffers.
SendRefused(t) ==
  /\ pc[t] = "send" /\ Message(t) # <<>>
  /\ mark' = IF "channel" \in drops THEN Undefined ELSE mark
  /\ marks' = IF "counters" \in drops THEN Undefined ELSE marks
  /\ Leave(t)
  /\ UNCHANGED <<clientVars, stream, status, counters, closed, callVars>>

-----------------------------------------------------------------------------
(* Create.                                                                 *)

CreateEnter(t) ==
  /\ pc[t] = "idle" /\ lock = NoThread
  /\ \E n \in Names :
       /\ \A i \in Used : counters[i].name # n
       /\ call' = n
  /\ Cardinality(Used) < MaxCounters
  /\ lock' = t
  /\ pc' = [pc EXCEPT ![t] = "create"]
  /\ UNCHANGED <<clientVars, stream, status, channelVars, drops>>

AddCounter(on) ==
  counters' = [i \in Used \cup {Cardinality(Used)} |->
                 IF i \in Used THEN counters[i] ELSE [name |-> call, on |-> on]]

\* Mutant: the counters that are described already stay so.
CreateQuietly(t) ==
  /\ pc[t] = "create"
  /\ \E on \in BOOLEAN : AddCounter(on)
  /\ Leave(t)
  /\ UNCHANGED <<clientVars, stream, status, mark, marks, closed, callVars>>

\* The counters have to be described again.
Create(t) ==
  /\ pc[t] = "create"
  /\ \E on \in BOOLEAN : AddCounter(on)
  /\ marks' = Undefined
  /\ Leave(t)
  /\ UNCHANGED <<clientVars, stream, status, mark, closed, callVars>>

-----------------------------------------------------------------------------
\* On_Receive
Enable(id, on) ==
  /\ lock = NoThread
  /\ id \in Used
  /\ counters' = [counters EXCEPT ![id].on = on]
  /\ UNCHANGED <<clientVars, stream, status, mark, marks, closed, lock, pc, callVars>>

\* ~CP7Telemetry, when no thread uses the channel any more
Destroy ==
  /\ \A t \in Threads : pc[t] = "idle"
  /\ pc' = [t \in Threads |-> "gone"]
  /\ closed' = (marks # Undefined)
  /\ stream' \in IF closed' /\ connected THEN {stream, Append(stream, Close)} ELSE {stream}
  /\ UNCHANGED <<clientVars, status, mark, marks, counters, lock, callVars>>

Client == Connect \/ Disconnect \/ Reset

Add(t) ==
  \/ GetStatus(t) \/ TestConnected(t) \/ Enter(t)
  \/ CompareChannel(t) \/ MarkChannel(t) \/ CompareCounters(t) \/ MarkCounters(t)
  \/ NothingToSend(t) \/ SendAccepted(t) \/ SendRefused(t)

Next ==
  \/ Client
  \/ \E t \in Threads : Add(t) \/ CreateEnter(t) \/ Create(t)
  \/ \E id \in Ids, on \in BOOLEAN : Enable(id, on)
  \/ Destroy

Spec == Init /\ [][Next]_vars

-----------------------------------------------------------------------------
(* Properties.                                                             *)

SentBefore(r, i) == \E j \in 1 .. i - 1 : stream[j] = r
ValueAt == {i \in DOMAIN stream : stream[i].type = "value"}
Described(i) == SentBefore(Info, i) /\ SentBefore(Desc(stream[i].id), i)

Records ==
  {Info, Close} \cup {Desc(id) : id \in Ids}
  \cup [type : {"value"}, id : Ids, thread : Threads, fresh : BOOLEAN]

Inside == {"compare", "mark", "counters", "describe", "send", "create"}

\* The variables have their types, the lock is held inside the calls, and the
\* counters fill the array from its beginning.
TypeOK ==
  /\ connected \in BOOLEAN /\ dirty \in BOOLEAN /\ resets \in Nat
  /\ stream \in Seq(Records)
  /\ status \in [connected : BOOLEAN, resets : Nat]
  /\ mark \in Nat \cup {Undefined} /\ marks \in Nat \cup {Undefined}
  /\ \E n \in 0 .. MaxCounters : Used = 0 .. n - 1
  /\ counters \in [Used -> [name : Names, on : BOOLEAN]]
  /\ closed \in BOOLEAN
  /\ call \in Ids \cup Names
  /\ drops \subseteq {"channel", "counters"}
  /\ pc \in [Threads -> {"idle", "test", "enter", "gone"} \cup Inside]
  /\ \A t \in Threads : lock = t <=> pc[t] \in Inside

\* Between two calls, what is marked with the present value of the reset
\* counter was accepted since the queue was drained last, for every counter
\* there is: no refused message, no reset and no counter that another thread has
\* just made leaves a mark the server knows nothing of.
MarksAreTrue ==
  lock = NoThread =>
    /\ mark = resets => Contains(stream, Info)
    /\ marks = resets => \A i \in Used : Contains(stream, Desc(i))

\* A value whose marks were up to date when it was accepted comes after the
\* information of the channel and the description of its counter.
FreshIsDescribed == \A i \in ValueAt : stream[i].fresh => Described(i)
=============================================================================
