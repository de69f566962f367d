------------------------------ MODULE Channels ------------------------------
(***************************************************************************)
(* The channel thread of the client (Chnl_Routine): it hands the commands  *)
(* of the server to the channels, which the application registers and      *)
(* destroys meanwhile.  The communication thread puts packets into         *)
(* m_pData_Queue_In and signals m_cChnl_Event, a CMEvent (module MEvent),  *)
(* once for each; the destructor of the client signals its exit event.     *)
(***************************************************************************)
EXTENDS Integers, SequencesExt

CONSTANTS
  Objects,       \* the channels of the application
  NoChannel,     \* NULL
  MaxIds,        \* USER_PACKET_CHANNEL_ID_MAX_SIZE
  Contents,      \* what a packet may hold: the IDs its commands are for, in order
  MaxPackets     \* bound: packets with commands

Ids == 0 .. MaxIds - 1

ASSUME ChannelsAssumption ==
  /\ NoChannel \notin Objects
  /\ MaxIds \in Nat \ {0} /\ Contents \subseteq Seq(Ids)
  /\ MaxPackets \in Nat

VARIABLES
  sem, signals, counter, cur, pc, got,  \* m_cChnl_Event, and the thread in its Wait
  queueIn,    \* m_pData_Queue_In
  stored,     \* packets put into it so far
  comm,       \* where the communication thread is
  chnl,       \* where the channel thread is in Chnl_Routine
  packet,     \* l_pPacket: its number and its commands
  position,   \* l_pBuffer: the command that comes next
  callee,     \* l_pChannel
  table,      \* m_pChannels
  life,       \* what has become of each channel
  inside,     \* the channel whose m_sCS a thread of the application holds, if any
  exit,       \* did the destructor of the client signal the exit?
  handled     \* the commands the channels were called with, in order

eventVars   == <<sem, signals, counter, cur, pc, got>>
threadVars  == <<packet, position, callee, handled>>
channelVars == <<table, life, inside>>
vars == <<eventVars, queueIn, stored, comm, chnl, threadVars, channelVars, exit>>

Exit == 0           \* THREAD_EXIT_SIGNAL
Data == 1           \* THREAD_DATA_SIGNAL
Thread == "chnl"

Event ==
  INSTANCE MEvent WITH Threads <- {Thread}, Interrupts <- {Thread},
    Count <- 2, MaxSem <- MaxPackets + 1,
    types <- [e \in {Exit, Data} |-> IF e = Exit THEN "auto" ELSE "multi"]

-----------------------------------------------------------------------------
Init ==
  /\ Event!Init
  /\ queueIn = <<>> /\ stored = 0
  /\ comm = "receive" /\ chnl = "wait"
  /\ packet = [number |-> 0, commands |-> <<>>] /\ position = 1 /\ callee = NoChannel
  /\ table = [i \in Ids |-> NoChannel]
  /\ life = [c \in Objects |-> "new"]
  /\ inside = NoChannel
  /\ exit = FALSE
  /\ handled = <<>>

-----------------------------------------------------------------------------
(* The communication thread.                                               *)

CommStore ==
  /\ comm = "receive" /\ stored < MaxPackets
  /\ \E commands \in Contents :
       queueIn' = Append(queueIn, [number |-> stored + 1, commands |-> commands])
  /\ stored' = stored + 1
  /\ comm' = "signal"
  /\ UNCHANGED <<eventVars, chnl, threadVars, channelVars, exit>>

\* Mutant: one signal for a queue that was empty.
CommSignalFirst ==
  /\ comm = "signal"
  /\ comm' = "receive"
  /\ IF Len(queueIn) = 1 THEN Event!Set(Data) ELSE UNCHANGED eventVars
  /\ UNCHANGED <<queueIn, stored, chnl, threadVars, channelVars, exit>>

CommSignal ==
  /\ comm = "signal"
  /\ comm' = "receive"
  /\ Event!Set(Data)
  /\ UNCHANGED <<queueIn, stored, chnl, threadVars, channelVars, exit>>

CommExit ==
  /\ exit /\ comm = "receive"
  /\ comm' = "gone"
  /\ UNCHANGED <<eventVars, queueIn, stored, chnl, threadVars, channelVars, exit>>

-----------------------------------------------------------------------------
(* The channel thread.                                                     *)

\* m_cChnl_Event.Wait(INFINITE), which is the Wait with a time, of 0xFFFFFFFF ms
ChnlWaits ==
  /\ chnl = "wait"
  /\ Event!WaitTimed(Thread)
  /\ UNCHANGED <<queueIn, stored, comm, chnl, threadVars, channelVars, exit>>

ChnlTakesCount ==
  /\ chnl = "wait"
  /\ Event!SemTaken(Thread)
  /\ UNCHANGED <<queueIn, stored, comm, chnl, threadVars, channelVars, exit>>

\* The time is over, or a signal of the system ends it: Wait returns without an event,
\* and the thread waits again.
ChnlTimesOut ==
  /\ chnl = "wait"
  /\ Event!TimedOut(Thread)
  /\ UNCHANGED <<queueIn, stored, comm, chnl, threadVars, channelVars, exit>>

\* Wait returns with an event, or with none if none is set.
ChnlWakes ==
  /\ chnl = "wait"
  /\ Event!GetSignal(Thread)
  /\ chnl' = IF got'[Thread] = Exit THEN "gone"
             ELSE IF got'[Thread] = Data THEN "take" ELSE "wait"
  /\ UNCHANGED <<queueIn, stored, comm, threadVars, channelVars, exit>>

\* Mutant: the packet that was stored last.
TakeLast ==
  /\ chnl = "take"
  /\ IF queueIn = <<>>
     THEN chnl' = "wait" /\ UNCHANGED <<queueIn, packet>>
     ELSE chnl' = "enter" /\ packet' = Last(queueIn) /\ queueIn' = Front(queueIn)
  /\ UNCHANGED <<eventVars, stored, comm, position, callee, handled, channelVars, exit>>

\* "Get event [Data In], but no buffers was found!" when the queue is empty
ChnlTake ==
  /\ chnl = "take"
  /\ IF queueIn = <<>>
     THEN chnl' = "wait" /\ UNCHANGED <<queueIn, packet>>
     ELSE chnl' = "enter" /\ packet' = Head(queueIn) /\ queueIn' = Tail(queueIn)
  /\ UNCHANGED <<eventVars, stored, comm, position, callee, handled, channelVars, exit>>

\* The thread holds m_hCS_Channels.
Dispatching == chnl \in {"dispatch", "call"}

ChnlEnter ==
  /\ chnl = "enter"
  /\ chnl' = "dispatch"
  /\ position' = 1
  /\ UNCHANGED <<eventVars, queueIn, stored, comm, packet, callee, handled, channelVars, exit>>

\* The channel of the next command
ChnlLookup ==
  /\ chnl = "dispatch" /\ position \in DOMAIN packet.commands
  /\ callee' = table[packet.commands[position]]
  /\ chnl' = "call"
  /\ UNCHANGED <<eventVars, queueIn, stored, comm, packet, position, handled, channelVars, exit>>

\* On_Receive under m_sCS, or a line in the log if no channel is registered
ChnlCall ==
  /\ chnl = "call"
  /\ callee # NoChannel => inside # callee
  /\ handled' = IF callee = NoChannel THEN handled
                ELSE Append(handled, [packet |-> packet.number, position |-> position])
  /\ position' = position + 1
  /\ chnl' = "dispatch"
  /\ UNCHANGED <<eventVars, queueIn, stored, comm, packet, callee, channelVars, exit>>

\* Mutant: m_hCS_Channels is not left, and not to be had the next time.
ChnlKeep ==
  /\ chnl = "dispatch" /\ position \notin DOMAIN packet.commands
  /\ chnl' = IF queueIn = <<>> THEN "wait" ELSE "dispatch"
  /\ UNCHANGED <<eventVars, queueIn, stored, comm, threadVars, channelVars, exit>>

\* The packet goes back to the pool.
ChnlLeave ==
  /\ chnl = "dispatch" /\ position \notin DOMAIN packet.commands
  /\ chnl' = "wait"
  /\ UNCHANGED <<eventVars, queueIn, stored, comm, threadVars, channelVars, exit>>

-----------------------------------------------------------------------------
(* The application.                                                        *)

Free == {i \in Ids : table[i] = NoChannel}

\* The constructor of a channel: the lowest ID that is free, if there is one
RegisterChannel(c) ==
  /\ ~exit /\ ~Dispatching
  /\ life[c] = "new"
  /\ \/ \E i \in Free :
          /\ \A j \in Free : i <= j
          /\ table' = [table EXCEPT ![i] = c]
          /\ life' = [life EXCEPT ![c] = "registered"]
     \/ Free = {} /\ UNCHANGED table /\ life' = [life EXCEPT ![c] = "deleted"]
  /\ UNCHANGED <<eventVars, queueIn, stored, comm, chnl, threadVars, inside, exit>>

\* A trace or a value is sent: Trace_Raw and Add take m_sCS of the channel and, under
\* it, the locks of Sent, which nobody holds while he waits for another one.
UserEnter(c) ==
  /\ life[c] = "registered" /\ inside = NoChannel
  /\ inside' = c
  /\ UNCHANGED <<eventVars, queueIn, stored, comm, chnl, threadVars, table, life, exit>>

UserLeave ==
  /\ inside # NoChannel
  /\ inside' = NoChannel
  /\ UNCHANGED <<eventVars, queueIn, stored, comm, chnl, threadVars, table, life, exit>>

\* Mutant: without m_hCS_Channels.
UnregisterAnytime(c) ==
  /\ life[c] = "registered"
  /\ \E i \in Ids : table[i] = c /\ table' = [table EXCEPT ![i] = NoChannel]
  /\ life' = [life EXCEPT ![c] = "unregistered"]
  /\ UNCHANGED <<eventVars, queueIn, stored, comm, chnl, threadVars, inside, exit>>

\* In the destructor of a channel, which nobody uses any more and which holds no lock
UnregisterChannel(c) ==
  /\ life[c] = "registered" /\ ~Dispatching /\ inside # c
  /\ \E i \in Ids : table[i] = c /\ table' = [table EXCEPT ![i] = NoChannel]
  /\ life' = [life EXCEPT ![c] = "unregistered"]
  /\ UNCHANGED <<eventVars, queueIn, stored, comm, chnl, threadVars, inside, exit>>

\* The rest of that destructor
DeleteChannel(c) ==
  /\ life[c] = "unregistered"
  /\ life' = [life EXCEPT ![c] = "deleted"]
  /\ UNCHANGED <<eventVars, queueIn, stored, comm, chnl, threadVars, table, inside, exit>>

\* The destructor of the client, which the channels keep from it while they live,
\* signals the exit ...
ExitSignal ==
  /\ ~exit
  /\ \A c \in Objects : life[c] \in {"new", "deleted"}
  /\ exit' = TRUE
  /\ Event!Set(Exit)
  /\ UNCHANGED <<queueIn, stored, comm, chnl, threadVars, channelVars>>

\* ... joins both threads and returns what is in the queue to the pool.
Joined ==
  /\ comm = "gone" /\ chnl = "gone"
  /\ queueIn' = <<>>
  /\ UNCHANGED <<eventVars, stored, comm, chnl, threadVars, channelVars, exit>>

CommThread == CommStore \/ CommSignal \/ CommExit
ChnlRuns ==
  ChnlWaits \/ ChnlWakes \/ ChnlTake \/ ChnlEnter \/ ChnlLookup \/ ChnlCall \/ ChnlLeave
ChnlThread == ChnlRuns \/ ChnlTakesCount \/ ChnlTimesOut

Next ==
  \/ CommThread \/ ChnlThread \/ ExitSignal \/ Joined \/ UserLeave
  \/ \E c \in Objects :
       RegisterChannel(c) \/ UserEnter(c) \/ UnregisterChannel(c) \/ DeleteChannel(c)

Spec == Init /\ [][Next]_vars

\* The threads run on when they can; nobody has to send, register or destroy.  Two
\* steps of the channel thread are strongly fair: it takes a count that is there in
\* the end, however often signals end its wait, and it gets m_sCS in the end, although
\* others take it again.
Fairness ==
  /\ WF_vars(CommSignal) /\ WF_vars(CommExit) /\ WF_vars(UserLeave)
  /\ WF_vars(ChnlRuns) /\ SF_vars(ChnlTakesCount) /\ SF_vars(ChnlCall)
FairSpec == Spec /\ Fairness

-----------------------------------------------------------------------------
(* Properties.                                                             *)

\* The variables have their types; the thread is in Wait only while it waits.
TypeOK ==
  /\ Event!TypeOK
  /\ pc[Thread] # "out" => chnl = "wait"
  /\ exit \in BOOLEAN
  /\ stored \in 0 .. MaxPackets
  /\ \A i \in DOMAIN queueIn : queueIn[i].number \in 1 .. stored /\ queueIn[i].commands \in Contents
  /\ comm \in {"receive", "signal", "gone"}
  /\ chnl \in {"wait", "take", "enter", "dispatch", "call", "gone"}
  /\ callee \in Objects \cup {NoChannel}
  /\ table \in [Ids -> Objects \cup {NoChannel}]
  /\ life \in [Objects -> {"new", "registered", "unregistered", "deleted"}]
  /\ inside \in Objects \cup {NoChannel}
  /\ \A c \in Objects : life[c] = "registered" <=> \E i \in Ids : table[i] = c

\* There is one signal for each packet of the queue, but for the packet that is
\* about to be signalled and the signal that was just taken: the thread neither
\* wakes in vain nor leaves a packet behind.
SignalPerPacket ==
  ~(comm = "gone" /\ chnl = "gone") =>
    Len(queueIn) = counter[Data] + (IF comm = "signal" THEN 1 ELSE 0)
                                 + (IF chnl = "take" THEN 1 ELSE 0)

\* On_Receive is never called on a channel whose destructor has gone past
\* Unregister_Channel, let alone on one that is deleted.
CalleeLives == chnl = "call" /\ callee # NoChannel => life[callee] = "registered"

\* The channels get the commands in the order in which the packets were stored
\* and stand in them, and none twice.
Earlier(a, b) == a.packet < b.packet \/ (a.packet = b.packet /\ a.position < b.position)
HandledInOrder == \A i, j \in DOMAIN handled : i < j => Earlier(handled[i], handled[j])

\* What the server sent is taken from the queue in the end, if the client lives:
\* whoever holds the m_sCS for which the thread waits does not wait for the thread,
\* and a Wait that ends without an event is called again and leaves the signal where
\* it is.
StoredIsTaken ==
  \A n \in 1 .. MaxPackets : stored >= n ~> packet.number >= n \/ exit

\* The channel thread ends once the exit is signalled, whatever is still queued.
ExitEnds == exit ~> chnl = "gone"
=============================================================================
