------------------------------ MODULE SendQueue ------------------------------
(***************************************************************************)
(* CClient::Sent, which cuts the messages of the users into packets, with  *)
(* the pool the packets come from (CBuffers_Pool) and everybody else who   *)
(* takes packets from it: the communication thread for its window and for  *)
(* receiving, the channel thread for the commands of the server.           *)
(*                                                                         *)
(* A packet's payload is a sequence of message numbers, one for each byte  *)
(* of each message.  What Transport says about when the communication      *)
(* thread sends, frees or resets is a free choice here.                    *)
(***************************************************************************)
EXTENDS Integers, SequencesExt

CONSTANTS
  Cap,          \* bytes of payload in a packet
  Reserve,      \* packets that Sent leaves to the others: 3
  MaxCount,     \* m_dwMax_Count: packets in m_dwMax_Size bytes, rounded down
  SizeLimit,    \* the same, rounded up: with so many packets Allocate refuses
  ChunkCount,   \* packets in a chunk of m_dwChunk_Size bytes
  WndMaxCount,  \* m_dwData_Wnd_Max_Count
  Word,         \* 2^32, where unsigned arithmetic wraps around
  Sizes,        \* bytes of a message, with its header
  Backlogs,     \* how far the channel thread may lag behind: bounds of backlog
  MaxMessages   \* bound: messages in a session

ASSUME SendQueueAssumption ==
  /\ Cap \in Nat \ {0} /\ Reserve \in Nat
  /\ MaxCount \in Nat /\ Reserve <= MaxCount
  /\ SizeLimit \in {MaxCount, MaxCount + 1}
  /\ ChunkCount \in Nat \ {0}
  /\ WndMaxCount \in Nat \ {0}
  /\ Word \in Nat /\ Word > Cap * MaxCount
  /\ Sizes \subseteq Nat \ {0}
  /\ Backlogs \subseteq Nat /\ MaxMessages \in Nat

VARIABLES
  free,       \* m_cBuffers: packets in the pool
  allocated,  \* m_dwCount: packets the pool has made
  extracted,  \* m_dwExtracted
  queueOut,   \* m_pData_Queue_Out: the payload of each packet
  sender,     \* where the owner of m_hCS_User is in Sent, "none" if it is free
  packet,     \* l_pPacket of Sent
  left,       \* bytes of the message that Sent has not stored yet
  comm,       \* where the communication thread is: "run", "reset" or "drain"
  recv,       \* does it have a packet to receive into?
  window,     \* packets in m_pData_Wnd
  queueIn,    \* packets in m_pData_Queue_In
  chnl,       \* does the channel thread have a packet of commands?
  connected,  \* m_bConnected
  backlog,    \* bound: packets that wait for the channel thread or are with it
  messages,   \* history: sizes of the messages Sent accepted in this session
  taken       \* history: what the communication thread took from the queue

poolVars == <<free, allocated, extracted>>
sentVars == <<sender, packet, left, messages>>
commVars == <<comm, recv, window, connected, taken>>
inVars   == <<queueIn, chnl, backlog>>
vars == <<poolVars, queueOut, sentVars, commVars, inVars>>

-----------------------------------------------------------------------------
(* The pool.  Every operation holds its lock.                              *)

\* Get_Free_Count, an unsigned difference
FreeCount == (MaxCount - extracted) % Word

One(b) == IF b THEN 1 ELSE 0

CanPull == free > 0 \/ allocated < SizeLimit

\* Pull_Buffer, which allocates a chunk when the list is empty
PullBuffer ==
  LET fresh == IF free = 0 THEN ChunkCount ELSE 0
  IN  /\ CanPull
      /\ allocated' = allocated + fresh
      /\ free' = free + fresh - 1
      /\ extracted' = extracted + 1

\* n calls of Push_Buffer, which ignores a packet when none is out
PushBuffers(n) ==
  LET k == Min({n, extracted})
  IN  /\ free' = free + k
      /\ extracted' = extracted - k
      /\ UNCHANGED allocated

-----------------------------------------------------------------------------
Init ==
  /\ free = 0 /\ allocated = 0 /\ extracted = 0
  /\ queueOut = <<>>
  /\ sender = "none" /\ packet = <<>> /\ left = 0
  /\ comm = "run" /\ recv = FALSE /\ window = 0
  /\ queueIn = 0 /\ chnl = FALSE
  /\ connected = TRUE
  /\ backlog \in Backlogs
  /\ messages = <<>> /\ taken = <<>>

-----------------------------------------------------------------------------
(* Sent, in the order it takes the locks of the queue and of the pool.     *)

\* Mutant: no packets are left to the others.
NoReserve(n) == n <= (Cap * FreeCount) % Word

\* The test that keeps buffers for the communication thread.
EnoughFree(n) == n + Cap * Reserve <= (Cap * FreeCount) % Word

SentBegin(n) ==
  /\ sender = "none"
  /\ connected
  /\ Len(messages) < MaxMessages
  /\ EnoughFree(n)
  /\ sender' = "last"
  /\ left' = n
  /\ messages' = Append(messages, n)
  /\ UNCHANGED <<poolVars, queueOut, packet, commVars, inVars>>

\* Pull_Last_Data_Packet and the look at its Get_Tail_Size
SentLast ==
  /\ sender = "last"
  /\ IF queueOut = <<>>
     THEN sender' = "pull" /\ UNCHANGED <<queueOut, packet>>
     ELSE /\ packet' = Last(queueOut)
          /\ queueOut' = Front(queueOut)
          /\ sender' = IF Len(packet') < Cap THEN "fill" ELSE "putBack"
  /\ UNCHANGED <<poolVars, left, messages, commVars, inVars>>

\* Mutant: a packet without space is forgotten.
ForgetFull ==
  /\ sender = "putBack"
  /\ packet' = <<>>
  /\ sender' = "pull"
  /\ UNCHANGED <<poolVars, queueOut, left, messages, commVars, inVars>>

SentPutBack ==
  /\ sender = "putBack"
  /\ queueOut' = Append(queueOut, packet)
  /\ packet' = <<>>
  /\ sender' = "pull"
  /\ UNCHANGED <<poolVars, left, messages, commVars, inVars>>

SentPull ==
  /\ sender = "pull"
  /\ PullBuffer
  /\ sender' = "fill"
  /\ UNCHANGED <<queueOut, packet, left, messages, commVars, inVars>>

\* ECLIENT_STATUS_NO_FREE_BUFFERS: what is stored already stays in the queue.
SentPullFails ==
  /\ sender = "pull"
  /\ ~CanPull
  /\ sender' = "none"
  /\ left' = 0
  /\ UNCHANGED <<poolVars, queueOut, packet, messages, commVars, inVars>>

\* Copy as much as there is space for, then Push_Last_Data_Packet.
SentFill ==
  /\ sender = "fill"
  /\ LET k == Min({Cap - Len(packet), left})
     IN  /\ queueOut' = Append(queueOut, packet \o [i \in 1 .. k |-> Len(messages)])
         /\ left' = left - k
         /\ sender' = IF left = k THEN "none" ELSE "pull"
  /\ packet' = <<>>
  /\ UNCHANGED <<poolVars, messages, commVars, inVars>>

-----------------------------------------------------------------------------
(* The communication thread.                                               *)

\* Comm_Routine needs a packet before it calls Recv.
CommPull ==
  /\ comm = "run" /\ ~recv
  /\ PullBuffer
  /\ recv' = TRUE
  /\ UNCHANGED <<queueOut, sentVars, comm, window, connected, taken, inVars>>

\* Process_Incoming_Packet keeps a packet with commands ...
CommKeep ==
  /\ comm = "run" /\ recv
  /\ queueIn + One(chnl) < backlog
  /\ queueIn' = queueIn + 1
  /\ recv' = FALSE
  /\ UNCHANGED <<poolVars, queueOut, sentVars, comm, window, connected, taken, chnl, backlog>>

\* ... and returns any other.
CommReturn ==
  /\ comm = "run" /\ recv
  /\ PushBuffers(1)
  /\ recv' = FALSE
  /\ UNCHANGED <<queueOut, sentVars, comm, window, connected, taken, inVars>>

\* Before that it frees what an acknowledgment or a server report names.
CommFree(k) ==
  /\ comm = "run" /\ recv
  /\ PushBuffers(k)
  /\ window' = window - k
  /\ UNCHANGED <<queueOut, sentVars, comm, recv, connected, taken, inVars>>

\* Get_Delivered_Packet: Pull_Firt_Data_Packet into the window
CommTake ==
  /\ comm = "run"
  /\ queueOut # <<>> /\ window < WndMaxCount
  /\ taken' = taken \o Head(queueOut)
  /\ queueOut' = Tail(queueOut)
  /\ window' = window + 1
  /\ UNCHANGED <<poolVars, sentVars, comm, recv, connected, inVars>>

\* Set_Connected(FALSE), under m_hCS_User
CommDisconnect ==
  /\ comm = "run" /\ connected
  /\ sender = "none"
  /\ connected' = FALSE
  /\ comm' = "reset"
  /\ UNCHANGED <<poolVars, queueOut, sentVars, recv, window, taken, inVars>>

\* Set_Connected(TRUE)
CommConnect ==
  /\ comm = "run" /\ ~connected
  /\ sender = "none"
  /\ connected' = TRUE
  /\ UNCHANGED <<poolVars, queueOut, sentVars, comm, recv, window, taken, inVars>>

\* Reset_Connetion after that, or when the server refuses: first the window ...
CommReset ==
  /\ comm = "reset" \/ (comm = "run" /\ recv)
  /\ PushBuffers(window)
  /\ window' = 0
  /\ comm' = "drain"
  /\ UNCHANGED <<queueOut, sentVars, recv, connected, taken, inVars>>

\* Mutant: without m_hCS_User.
DrainAnytime ==
  /\ comm = "drain"
  /\ PushBuffers(Len(queueOut))
  /\ queueOut' = <<>>
  /\ comm' = "run"
  /\ messages' = <<>> /\ taken' = <<>>
  /\ UNCHANGED <<sender, packet, left, recv, window, connected, inVars>>

\* ... then, under m_hCS_User, the queue.  A session ends.
CommDrain ==
  /\ comm = "drain"
  /\ sender = "none"
  /\ PushBuffers(Len(queueOut))
  /\ queueOut' = <<>>
  /\ comm' = "run"
  /\ messages' = <<>> /\ taken' = <<>>
  /\ UNCHANGED <<sender, packet, left, recv, window, connected, inVars>>

-----------------------------------------------------------------------------
(* Chnl_Routine.                                                           *)

ChnlTake ==
  /\ ~chnl /\ queueIn > 0
  /\ queueIn' = queueIn - 1
  /\ chnl' = TRUE
  /\ UNCHANGED <<poolVars, queueOut, sentVars, commVars, backlog>>

ChnlReturn ==
  /\ chnl
  /\ PushBuffers(1)
  /\ chnl' = FALSE
  /\ UNCHANGED <<queueOut, sentVars, commVars, queueIn, backlog>>

-----------------------------------------------------------------------------
(* ~CClient, once both threads have returned: Comm_Routine gives back its  *)
(* packet at its end, the destructor what is left in the lists.            *)

Destroy ==
  /\ sender = "none" /\ comm = "run" /\ ~chnl
  /\ PushBuffers(Len(queueOut) + queueIn + window + One(recv))
  /\ queueOut' = <<>> /\ queueIn' = 0 /\ window' = 0 /\ recv' = FALSE
  /\ sender' = "gone" /\ comm' = "gone"
  /\ UNCHANGED <<packet, left, messages, connected, taken, chnl, backlog>>

Sent ==
  \/ \E n \in Sizes : SentBegin(n)
  \/ SentLast \/ SentPutBack \/ SentPull \/ SentPullFails \/ SentFill

Comm ==
  \/ CommPull \/ CommKeep \/ CommReturn \/ CommTake
  \/ \E k \in 1 .. window : CommFree(k)
  \/ CommDisconnect \/ CommConnect \/ CommReset \/ CommDrain

Chnl == ChnlTake \/ ChnlReturn

Next == Sent \/ Comm \/ Chnl \/ Destroy

Spec == Init /\ [][Next]_vars

-----------------------------------------------------------------------------
(* Properties.                                                             *)

\* Packets that hold data of the users, and those that others have.
DataPackets  == Len(queueOut) + window + One(sender \in {"fill", "putBack"})
OtherPackets == One(recv) + queueIn + One(chnl)

\* The variables have their types.
TypeOK ==
  /\ free \in Nat /\ allocated \in Nat /\ extracted \in Nat
  /\ queueOut \in Seq(Seq(Nat)) /\ packet \in Seq(Nat)
  /\ sender \in {"none", "last", "putBack", "pull", "fill", "gone"}
  /\ comm \in {"run", "reset", "drain", "gone"}
  /\ left \in Nat /\ window \in Nat /\ queueIn \in Nat
  /\ recv \in BOOLEAN /\ chnl \in BOOLEAN /\ connected \in BOOLEAN
  /\ messages \in Seq(Nat) /\ taken \in Seq(Nat)

\* Every packet is in the pool or with exactly one owner, and is counted so; a
\* destroyed client misses none ("%d buffers are missed" in ~CBuffers_Pool).
PoolConserved ==
  /\ free + extracted = allocated
  /\ extracted = DataPackets + OtherPackets
  /\ comm = "gone" => extracted = 0

\* Data never occupies the buffers that Sent is to leave for packets of the
\* server (Client.cpp:1755).
DataLeavesReserve == DataPackets + Reserve <= MaxCount

\* The channel thread never has as many packets to handle as Sent reserves: what
\* the next four properties need, and DataLeavesReserve lacks.
KeepsUp == backlog < Reserve

\* While the channel thread keeps up, data leaves the reserve to the others.
ReserveIsKept == KeepsUp => DataLeavesReserve

\* Then a message that passed the test at its beginning is stored to its end.
SentNeverFails == KeepsUp => (sender = "pull" => CanPull)

\* Then the communication thread finds a packet to receive into whenever it needs
\* one: without it no answer is ever read and the connection is broken.
ReceiveNeverStarves == KeepsUp => (comm = "run" /\ ~recv => CanPull)

\* Then the bytes of a session that were taken, that are queued and that are still
\* to be stored are those of its messages, whole and in order, wherever packet
\* borders, other threads, resets and full packets cut in.
WholeMessages ==
  KeepsUp /\ sender # "gone" =>
    taken \o FlattenSeq(queueOut) \o packet \o [i \in 1 .. left |-> Len(messages)]
      = FlattenSeq([m \in DOMAIN messages |-> [i \in 1 .. messages[m] |-> m]])
=============================================================================
