-------------------------------- MODULE Trace --------------------------------
(***************************************************************************)
(* A trace channel (CP7Trace) that several threads of the application use. *)
(*                                                                         *)
(* The server can only decode a trace after it has got the information of  *)
(* the channel and the description of the trace.  Both are sent once for   *)
(* each value of the client's reset counter: the channel and every         *)
(* description carry the value they were sent under.  The client is here   *)
(* its connection, its counter and what Sent accepted since the queue was  *)
(* drained last; Transport and SendQueue say how it gets there.            *)
(***************************************************************************)
EXTENDS Integers, SequencesExt

CONSTANTS
  Threads,      \* threads of the application
  NoThread,     \* the owner of a free lock
  Traces,       \* places in its code that trace, each with a description
  Numbered,     \* those of them that name an ID of their own, in m_pDesc_Array
  MaxTraces,    \* descriptions there are IDs for in m_cDesc_Tree
  Levels,       \* eP7Trace_Level
  MaxResets,    \* bound: value of the reset counter
  MaxSequence   \* bound: value of the sequence number

ASSUME TraceAssumption ==
  /\ NoThread \notin Threads /\ Traces # {} /\ Numbered \subseteq Traces
  /\ MaxTraces \in Nat /\ Levels \subseteq Nat /\ 0 \in Levels
  /\ MaxResets \in Nat /\ MaxSequence \in Nat

VARIABLES
  connected,  \* m_bConnected of the client
  resets,     \* m_dwConnection_Resets of the client
  dirty,      \* has the client still to drain the queue after a disconnect?
  stream,     \* what Sent accepted since then, in order
  status,     \* m_sStatus, which all the threads share
  mark,       \* m_dwResets
  marks,      \* m_dwResets of each description the channel has
  sequence,   \* m_dwSequence
  verbosity,  \* m_eVerbosity
  lock,       \* the owner of m_sCS
  pc,         \* where each thread is in Trace_Raw
  call,       \* the description and the level of the call that holds the lock
  drops       \* l_bDrops of that call: what it sends again

clientVars  == <<connected, resets, dirty>>
channelVars == <<mark, marks, sequence, verbosity>>
callVars    == <<call, drops>>
vars == <<clientVars, stream, status, channelVars, lock, pc, callVars>>

Undefined == -1             \* RESET_UNDEFINED

Info       == [type |-> "info"]
Desc(d)    == [type |-> "desc", trace |-> d]
Close      == [type |-> "close"]

\* A trace; "fresh" notes that the reset counter had not moved on since its
\* marks were compared.
Data(t, d) == [type |-> "data", trace |-> d, sequence |-> sequence, thread |-> t,
               fresh |-> mark = resets]

-----------------------------------------------------------------------------
Init ==
  /\ connected = FALSE /\ resets = 0 /\ dirty = FALSE
  /\ stream = <<>>
  /\ status = [connected |-> FALSE, resets |-> 0]
  /\ mark = Undefined
  /\ marks = [d \in {} |-> Undefined]
  /\ sequence = 0
  /\ verbosity = 0
  /\ lock = NoThread
  /\ pc = [t \in Threads |-> "idle"]
  /\ call = [trace |-> CHOOSE d \in Traces : TRUE, level |-> 0]
  /\ drops = {}

-----------------------------------------------------------------------------
(* The client.                                                             *)

\* Set_Connected(TRUE)
Connect ==
  /\ ~connected /\ ~dirty
  /\ resets < MaxResets
  /\ connected' = TRUE
  /\ resets' = resets + 1
  /\ UNCHANGED <<dirty, stream, status, channelVars, lock, pc, callVars>>

\* Set_Connected(FALSE)
Disconnect ==
  /\ connected
  /\ connected' = FALSE
  /\ dirty' = TRUE
  /\ UNCHANGED <<resets, stream, status, channelVars, lock, pc, callVars>>

\* Reset_Connetion after that, or because the server does not know the client:
\* it drains the queue and counts under m_hCS_User.
Reset ==
  /\ resets < MaxResets
  /\ resets' = resets + 1
  /\ dirty' = FALSE
  /\ stream' = <<>>
  /\ UNCHANGED <<connected, status, channelVars, lock, pc, callVars>>

-----------------------------------------------------------------------------
(* Trace_Raw.                                                              *)

\* Mutant: the status is only read while the channel thinks it is off.
GetStatusOnce(t) ==
  /\ pc[t] = "idle"
  /\ status' = IF status.connected THEN status ELSE [connected |-> connected, resets |-> resets]
  /\ pc' = [pc EXCEPT ![t] = "test"]
  /\ UNCHANGED <<clientVars, stream, channelVars, lock, callVars>>

\* Get_Status writes into the channel before the lock is taken.
GetStatus(t) ==
  /\ pc[t] = "idle"
  /\ status' = [connected |-> connected, resets |-> resets]
  /\ pc' = [pc EXCEPT ![t] = "test"]
  /\ UNCHANGED <<clientVars, stream, channelVars, lock, callVars>>

TestConnected(t) ==
  /\ pc[t] = "test"
  /\ pc' = [pc EXCEPT ![t] = IF status.connected THEN "enter" ELSE "idle"]
  /\ UNCHANGED <<clientVars, stream, status, channelVars, lock, callVars>>

\* Is there a description, or an ID for a new one?
CanDescribe(d) ==
  d \in DOMAIN marks \cup Numbered \/ Cardinality(DOMAIN marks \ Numbered) < MaxTraces

\* Too low a level: the call is over.
Quiet(t, d, l) ==
  /\ l < verbosity
  /\ pc' = [pc EXCEPT ![t] = "idle"]
  /\ UNCHANGED <<sequence, marks, lock, callVars>>

\* Without a description the call is over: a number is used up all the same.
NoDescription(t, d, l) ==
  /\ l >= verbosity
  /\ ~CanDescribe(d)
  /\ sequence' = sequence + 1
  /\ pc' = [pc EXCEPT ![t] = "idle"]
  /\ UNCHANGED <<marks, lock, callVars>>

\* The description is found, or made, and the call keeps the lock.
Describe(t, d, l) ==
  /\ l >= verbosity
  /\ CanDescribe(d)
  /\ sequence' = sequence + 1
  /\ marks' = [e \in DOMAIN marks \cup {d} |-> IF e \in DOMAIN marks THEN marks[e] ELSE Undefined]
  /\ call' = [trace |-> d, level |-> l]
  /\ drops' = {}
  /\ lock' = t
  /\ pc' = [pc EXCEPT ![t] = "compare"]

\* Mutant: without m_sCS.
EnterAnytime(t) ==
  /\ pc[t] = "enter"
  /\ sequence < MaxSequence
  /\ \E d \in Traces, l \in Levels :
       Quiet(t, d, l) \/ NoDescription(t, d, l) \/ Describe(t, d, l)
  /\ UNCHANGED <<clientVars, stream, status, mark, verbosity>>

Enter(t) ==
  /\ pc[t] = "enter" /\ lock = NoThread
  /\ sequence < MaxSequence
  /\ \E d \in Traces, l \in Levels :
       Quiet(t, d, l) \/ NoDescription(t, d, l) \/ Describe(t, d, l)
  /\ UNCHANGED <<clientVars, stream, status, mark, verbosity>>

\* m_dwResets != m_sStatus.dwResets
CompareChannel(t) ==
  /\ pc[t] = "compare"
  /\ pc' = [pc EXCEPT ![t] = IF mark # status.resets THEN "mark" ELSE "describe"]
  /\ UNCHANGED <<clientVars, stream, status, channelVars, lock, callVars>>

\* m_dwResets = m_sStatus.dwResets, which is read again
MarkChannel(t) ==
  /\ pc[t] = "mark"
  /\ mark' = status.resets
  /\ drops' = {"channel"}
  /\ pc' = [pc EXCEPT ![t] = "describe"]
  /\ UNCHANGED <<clientVars, stream, status, marks, sequence, verbosity, lock, call>>

MarkDescription(t) ==
  /\ pc[t] = "describe"
  /\ IF mark # marks[call.trace]
     THEN marks' = [marks EXCEPT ![call.trace] = mark] /\ drops' = drops \cup {"trace"}
     ELSE UNCHANGED <<marks, drops>>
  /\ pc' = [pc EXCEPT ![t] = "send"]
  /\ UNCHANGED <<clientVars, stream, status, mark, sequence, verbosity, lock, call>>

\* The chunks go to Sent as one message.
Message(t) ==
  (IF "channel" \in drops THEN <<Info>> ELSE <<>>)
  \o (IF "trace" \in drops THEN <<Desc(call.trace)>> ELSE <<>>)
  \o <<Data(t, call.trace)>>

Leave(t) == lock' = NoThread /\ pc' = [pc EXCEPT ![t] = "idle"]

SendAccepted(t) ==
  /\ pc[t] = "send"
  /\ connected
  /\ stream' = stream \o Message(t)
  /\ Leave(t)
  /\ UNCHANGED <<clientVars, status, channelVars, callVars>>

\* Mutant: what was not delivered stays marked.
KeepMarks(t) ==
  /\ pc[t] = "send"
  /\ Leave(t)
  /\ UNCHANGED <<clientVars, stream, status, channelVars, callVars>>

\* The connection is off or there are no free buffers.
SendRefused(t) ==
  /\ pc[t] = "send"
  /\ mark' = IF "channel" \in drops THEN Undefined ELSE mark
  /\ marks' = IF "trace" \in drops THEN [marks EXCEPT ![call.trace] = Undefined] ELSE marks
  /\ Leave(t)
  /\ UNCHANGED <<clientVars, stream, status, sequence, verbosity, callVars>>

-----------------------------------------------------------------------------
\* Mutant: without m_sCS.
SetVerbosityAnytime(l) ==
  /\ verbosity' = l
  /\ UNCHANGED <<clientVars, stream, status, mark, marks, sequence, lock, pc, callVars>>

\* Set_Verbosity, and On_Receive with a command of the server
SetVerbosity(l) ==
  /\ lock = NoThread
  /\ verbosity' = l
  /\ UNCHANGED <<clientVars, stream, status, mark, marks, sequence, lock, pc, callVars>>

\* ~CP7Trace, when no thread uses the channel any more
Destroy ==
  /\ \A t \in Threads : pc[t] = "idle"
  /\ pc' = [t \in Threads |-> "gone"]
  /\ \/ connected /\ mark # Undefined /\ stream' = Append(stream, Close)
     \/ UNCHANGED stream
  /\ UNCHANGED <<clientVars, status, channelVars, lock, callVars>>

Client == Connect \/ Disconnect \/ Reset

TraceRaw(t) ==
  \/ GetStatus(t) \/ TestConnected(t) \/ Enter(t)
  \/ CompareChannel(t) \/ MarkChannel(t) \/ MarkDescription(t)
  \/ SendAccepted(t) \/ SendRefused(t)

Next ==
  \/ Client
  \/ \E t \in Threads : TraceRaw(t)
  \/ \E l \in Levels : SetVerbosity(l)
  \/ Destroy

Spec == Init /\ [][Next]_vars

-----------------------------------------------------------------------------
(* Properties.                                                             *)

SentBefore(r, i) == \E j \in 1 .. i - 1 : stream[j] = r
DataAt == {i \in DOMAIN stream : stream[i].type = "data"}
Described(i) == SentBefore(Info, i) /\ SentBefore(Desc(stream[i].trace), i)

Records ==
  {Info, Close} \cup {Desc(d) : d \in Traces}
  \cup [type : {"data"}, trace : Traces, sequence : Nat, thread : Threads, fresh : BOOLEAN]

\* The variables have their types, and the lock is held inside the calls.
TypeOK ==
  /\ connected \in BOOLEAN /\ dirty \in BOOLEAN /\ resets \in Nat
  /\ stream \in Seq(Records)
  /\ status \in [connected : BOOLEAN, resets : Nat]
  /\ mark \in Nat \cup {Undefined}
  /\ DOMAIN marks \subseteq Traces
  /\ marks \in [DOMAIN marks -> Nat \cup {Undefined}]
  /\ sequence \in Nat /\ verbosity \in Levels
  /\ call \in [trace : Traces, level : Levels]
  /\ drops \subseteq {"channel", "trace"}
  /\ pc \in [Threads -> {"idle", "test", "enter", "compare", "mark", "describe", "send", "gone"}]
  /\ \A t \in Threads : lock = t <=> pc[t] \in {"compare", "mark", "describe", "send"}

\* Between two calls, what is marked with the present value of the reset
\* counter was accepted since the queue was drained last: no refused message,
\* no reset and no other thread leaves a mark the server knows nothing of.
MarksAreTrue ==
  lock = NoThread =>
    /\ mark = resets => Contains(stream, Info)
    /\ \A d \in DOMAIN marks : marks[d] = resets => Contains(stream, Desc(d))

\* A trace whose marks were up to date when it was accepted comes after the
\* information of the channel and its description.
FreshIsDescribed == \A i \in DataAt : stream[i].fresh => Described(i)

\* A thread that acts on an old reset counter, because the connection was reset
\* between its Get_Status and its Sent, does so once: its next trace is
\* described.
StaleOncePerThread ==
  \A i, j \in DataAt : i < j /\ stream[i].thread = stream[j].thread => Described(j)

\* The threads' traces are numbered in the order in which they are sent.
SequenceOrdered ==
  \A i, j \in DataAt : i < j => stream[i].sequence < stream[j].sequence

\* Once Set_Verbosity has returned, no trace below the level is accepted.
VerbosityObeyed ==
  [][\A t \in Threads : SendAccepted(t) => call.level >= verbosity]_vars

\* After a reset the information of the channel and the description come first
\* ("connection was lost, we need to resend initial data", Trace.cpp:1062).
DescribedFirst == \A i \in DataAt : Described(i)
=============================================================================
