------------------------------ MODULE Transport ------------------------------
(***************************************************************************)
(* The delivery protocol of CClient (Sources/Client.cpp): the              *)
(* communication thread with its window, control packet and resets, the    *)
(* user threads that queue data packets, the channel thread that takes     *)
(* server commands, an unreliable datagram network and the server.         *)
(*                                                                         *)
(* A data packet is a number: the order in which Sent put it at the end of *)
(* m_pData_Queue_Out.  A message that Sent adds to the packet at the tail  *)
(* of the queue makes no new packet.                                       *)
(*                                                                         *)
(* Elapsed time is a choice: wherever the code compares a time stamp with  *)
(* a limit, both outcomes are possible.                                    *)
(***************************************************************************)
EXTENDS Integers, SequencesExt

CONSTANTS
  MaxId,        \* TPACKET_MAX_ID: the largest packet ID
  IdReserve,    \* the 128 of Get_Delivered_Packet's overflow test
  WndMaxCount,  \* m_dwData_Wnd_Max_Count: data packets per window
  MaxFails,     \* COMMUNICATION_MAX_DELIVERY_FAILS
  Extra,        \* may the server attach commands to its answers?
  CanExit,      \* may the client be destroyed?
  IdBound,      \* bound: no ID is drawn once the last ID has reached it
  ResetWrap,    \* 2^32, where m_dwConnection_Resets wraps around
  MaxAccepted,  \* bound: data packets the users queue
  MaxRestarts   \* bound: restarts of the server

ASSUME TransportAssumption ==
  /\ MaxId \in Nat /\ IdReserve \in Nat /\ WndMaxCount \in Nat \ {0}
  /\ IdReserve >= 1
  /\ MaxId > WndMaxCount + IdReserve + 1
  /\ MaxFails \in Nat \ {0}
  /\ Extra \in SUBSET BOOLEAN
  /\ CanExit \in BOOLEAN
  /\ IdBound \in Nat /\ MaxAccepted \in Nat
  /\ ResetWrap \in Nat \ {0, 1} /\ MaxRestarts \in Nat

VARIABLES
  commPC,      \* where Comm_Routine is
  waiting,     \* m_bIs_Response_Waiting
  control,     \* m_pPacket_Control (with the packet it points to)
  wnd,         \* m_pData_Wnd: the cells in use, by the position they were added at
  wndCell,     \* m_pData_Wnd_Cell: a position, 0 for NULL
  wndFirst,    \* m_dwData_Wnd_First_ID
  wndLast,     \* m_dwData_Wnd_Last_ID
  resending,   \* m_bData_Resending
  fails,       \* m_dwDelivery_Fails, counted up to MaxFails
  lastId,      \* m_dwLast_Packet_ID
  clientId,    \* m_wClient_ID, 0 until the server has assigned one
  queueOut,    \* m_pData_Queue_Out
  queueIn,     \* m_pData_Queue_In: for each packet, the ID it answers
  connected,   \* m_bConnected
  resets,      \* m_dwConnection_Resets
  exit,        \* THREAD_EXIT_SIGNAL: "none", "set" by ~CClient, "seen" by the thread
  toServer,    \* every datagram the client has sent
  toClient,    \* every datagram the server has sent
  srvHellos,   \* server: the hellos it knows this client by, {} if it does not
  srvCid,      \* server: the client ID it assigns, another one after a restart
  srvGot,      \* server: data packets taken since the newest hello
  accepted,    \* history: number of data packets queued so far
  received,    \* history: data packets that have reached a server
  dispatched   \* history: what Chnl_Routine took from queueIn

windowVars  == <<wnd, wndCell, wndFirst, wndLast, resending>>
controlVars == <<waiting, control, fails, lastId, clientId>>
userVars    == <<queueOut, connected, resets, exit, accepted>>
inVars      == <<queueIn, dispatched>>
serverVars  == <<srvHellos, srvCid, srvGot, received>>
netVars     == <<toServer, toClient>>
vars == <<commPC, windowVars, controlVars, userVars, inVars, serverVars, netVars>>

-----------------------------------------------------------------------------
(* Packets.                                                                *)

NoId == MaxId + 1

ClientTypes == {"hello", "alive", "report", "data", "bye"}

\* A packet of the client, as Finalize stamps it with its ID and client ID.
\* first and last are those of a window report, data that of a data packet.
Packet(type, id, cid, first, last, data) ==
  [type |-> type, id |-> id, cid |-> cid, first |-> first, last |-> last, data |-> data]

NoPacket == Packet("none", 0, 0, 0, 0, 0)

Hello(id, cid) == Packet("hello", id, cid, 0, 0, 0)
Alive(id, cid) == Packet("alive", id, cid, 0, 0, 0)
Bye(id, cid)   == Packet("bye", id, cid, 0, 0, 0)
Report(id, cid, first, last) == Packet("report", id, cid, first, last, 0)
Data(id, cid, data) == Packet("data", id, cid, 0, 0, data)

\* Answers of the server: src is the ID of the packet answered.
Ack(src, result, extra) ==
  [type |-> "ack", src |-> src, cid |-> srvCid, result |-> result, extra |-> extra, lost |-> {}]
ServerReport(src, lost) ==
  [type |-> "lost", src |-> src, cid |-> srvCid, result |-> FALSE, extra |-> FALSE, lost |-> lost]

IncPacketId(id) == IF MaxId < id + 1 THEN 1 ELSE id + 1

BumpFails == IF fails < MaxFails THEN fails + 1 ELSE fails

-----------------------------------------------------------------------------
(* The data window, a list whose cells keep the position they got when     *)
(* they were added at its end.                                             *)

Cells == DOMAIN wnd
WndCount == Cardinality(Cells)
FirstCell == Min(Cells)
LastCell == Max(Cells)
NextCell == IF wndCell = 0 THEN FirstCell ELSE Min({c \in Cells : c > wndCell})

EmptyWnd == [c \in {} |-> NoPacket]

WndAdd(p) ==
  LET new == IF Cells = {} THEN 1 ELSE LastCell + 1
  IN  [c \in Cells \cup {new} |-> IF c = new THEN p ELSE wnd[c]]

WndKeep(ids) == [c \in {d \in Cells : wnd[d].id \in ids} |-> wnd[c]]

WndData == {wnd[c].data : c \in Cells}
WndIds  == {wnd[c].id : c \in Cells}

Send(p) == toServer' = toServer \cup {p}

CanDraw == lastId < IdBound

-----------------------------------------------------------------------------
Init ==
  /\ commPC = "wait"
  /\ waiting = FALSE
  /\ lastId = IncPacketId(0)
  /\ control = Hello(IncPacketId(0), 0)
  /\ wnd = EmptyWnd /\ wndCell = 0
  /\ wndFirst = NoId /\ wndLast = NoId
  /\ resending = FALSE
  /\ fails = 0
  /\ clientId = 0
  /\ queueOut = <<>> /\ queueIn = <<>>
  /\ connected = TRUE
  /\ resets = 0
  /\ exit = "none"
  /\ toServer = {} /\ toClient = {}
  /\ srvHellos = {} /\ srvCid = 1 /\ srvGot = {}
  /\ accepted = 0
  /\ received = {}
  /\ dispatched = <<>>

-----------------------------------------------------------------------------
(* User threads.                                                           *)

\* Push_Last_Data_Packet
PushLast(data) == queueOut' = Append(queueOut, data)

\* Sent, for the part of a message that starts a new packet.  The caller owns
\* a reference, so no call comes after ~CClient has started.
Sent ==
  /\ exit = "none"
  /\ connected
  /\ accepted < MaxAccepted
  /\ accepted' = accepted + 1
  /\ PushLast(accepted + 1)
  /\ UNCHANGED <<commPC, windowVars, controlVars, connected, resets, exit, inVars, serverVars, netVars>>

\* ~CClient signals the threads.
SetExit ==
  /\ CanExit
  /\ exit = "none"
  /\ exit' = "set"
  /\ UNCHANGED <<commPC, windowVars, controlVars, queueOut, connected, resets,
                 accepted, inVars, serverVars, netVars>>

-----------------------------------------------------------------------------
(* Reset_Connetion.  The window is freed by the communication thread alone; *)
(* the queue is drained and the reset counted under m_hCS_User.             *)

\* Mutant: the reset is not counted.
DrainQueueSilently ==
  /\ queueOut' = <<>>
  /\ UNCHANGED resets

DrainQueue ==
  /\ queueOut' = <<>>
  /\ resets' = (resets + 1) % ResetWrap

ResetConnection(cid) ==
  /\ CanDraw
  /\ waiting' = FALSE
  /\ wnd' = EmptyWnd
  /\ wndCell' = 0
  /\ wndFirst' = NoId
  /\ wndLast' = NoId
  /\ resending' = FALSE
  /\ DrainQueue
  /\ lastId' = IncPacketId(lastId)
  /\ control' = Hello(IncPacketId(lastId), cid)

-----------------------------------------------------------------------------
(* Comm_Routine: the wait for the exit signal or the idle timeout.         *)

\* Mutant: the window is not looked at.
IsReadyToExitEarly == ~connected \/ queueOut = <<>>

\* Is_Ready_To_Exit
IsReadyToExit == ~connected \/ (queueOut = <<>> /\ Cells = {})

CommWait ==
  /\ commPC = "wait" /\ exit = "none"
  /\ commPC' = "recv"
  /\ UNCHANGED <<windowVars, controlVars, userVars, inVars, serverVars, netVars>>

CommBye ==
  /\ commPC = "wait" /\ exit # "none"
  /\ IsReadyToExit
  /\ CanDraw
  /\ lastId' = IncPacketId(lastId)
  /\ Send(Bye(IncPacketId(lastId), clientId))
  /\ commPC' = "done"
  /\ UNCHANGED <<windowVars, waiting, control, fails, clientId, userVars, inVars,
                 serverVars, toClient>>

\* The wait that returns the signal does no communication; later waits time out
\* and the thread goes on delivering, until COMMUNICATION_THREAD_EXIT_TIMEOUT.
CommExitPending ==
  /\ commPC = "wait" /\ exit # "none"
  /\ ~IsReadyToExit
  /\ exit' = "seen"
  /\ commPC' \in IF exit = "set" THEN {"wait"} ELSE {"recv", "done"}
  /\ UNCHANGED <<windowVars, controlVars, queueOut, connected, resets, accepted,
                 inVars, serverVars, netVars>>

-----------------------------------------------------------------------------
(* Comm_Routine: Recv and Process_Incoming_Packet.                         *)

ToPump == commPC = "recv" /\ commPC' = "pump"

RecvNothing ==
  /\ ToPump
  /\ UNCHANGED <<windowVars, controlVars, userVars, inVars, serverVars, netVars>>

RecvDamaged ==
  /\ ToPump
  /\ toClient # {}
  /\ waiting' = FALSE
  /\ fails' = BumpFails
  /\ UNCHANGED <<windowVars, control, lastId, clientId, userVars, inVars, serverVars, netVars>>

\* Nobody waits, or the answer is to another packet: only the client ID is kept.
RecvIgnored(m) ==
  /\ ToPump
  /\ waiting => m.src # control.id
  /\ clientId' = IF waiting THEN m.cid ELSE clientId
  /\ UNCHANGED <<windowVars, waiting, control, fails, lastId, userVars, inVars,
                 serverVars, netVars>>

\* Mutant: the ID of the packet answered is not compared.
AnswersAny(m) == ToPump /\ waiting

Answers(m) == ToPump /\ waiting /\ m.src = control.id

\* Mutant: m_bIs_Response_Waiting is not cleared.
AnswerTakenWaiting(m) ==
  /\ clientId' = m.cid
  /\ UNCHANGED waiting
  /\ wndCell' = 0
  /\ control' = NoPacket

\* The awaited answer is there: the control packet is done with.
AnswerTaken(m) ==
  /\ clientId' = m.cid
  /\ waiting' = FALSE
  /\ wndCell' = 0
  /\ control' = NoPacket

KeepExtra(m) == queueIn' = IF m.extra THEN Append(queueIn, m.src) ELSE queueIn

RecvAck(m) ==
  /\ Answers(m)
  /\ m.type = "ack" /\ m.result
  /\ AnswerTaken(m)
  /\ fails' = 0
  /\ IF control.type = "report"
     THEN /\ wnd' = EmptyWnd
          /\ wndFirst' = NoId
          /\ wndLast' = NoId
          /\ resending' = FALSE
     ELSE UNCHANGED <<wnd, wndFirst, wndLast, resending>>
  /\ KeepExtra(m)
  /\ UNCHANGED <<lastId, userVars, dispatched, serverVars, netVars>>

RecvRefusal(m) ==
  /\ Answers(m)
  /\ m.type = "ack" /\ ~m.result
  /\ clientId' = m.cid
  /\ fails' = 0
  /\ ResetConnection(m.cid)
  /\ KeepExtra(m)
  /\ UNCHANGED <<connected, exit, accepted, dispatched, serverVars, netVars>>

RecvServerReport(m) ==
  /\ Answers(m)
  /\ m.type = "lost"
  /\ AnswerTaken(m)
  /\ wnd' = WndKeep(m.lost)
  /\ resending' = (WndIds \cap m.lost # {})
  /\ UNCHANGED <<wndFirst, wndLast, fails, lastId, userVars, inVars, serverVars, netVars>>

-----------------------------------------------------------------------------
(* Comm_Routine: one call of Get_Delivered_Packet and the Send after it.   *)
(* expired, due and idle are the outcomes of the comparisons of elapsed    *)
(* time with COMMUNICATION_RESPONSE_TIMEOUT,                               *)
(* COMMUNICATION_DATA_SEGMENT_MAX_DURATION and COMMUNICATION_IDLE_TIMEOUT. *)

Pumping == commPC = "pump" /\ UNCHANGED <<userVars, inVars, serverVars, toClient>>

\* NULL is returned and the sending loop ends.
PumpEnds == commPC' = "status" /\ UNCHANGED <<windowVars, controlVars, toServer>>

PumpWaits ==
  /\ commPC = "pump" /\ waiting
  /\ PumpEnds
  /\ UNCHANGED <<userVars, inVars, serverVars, toClient>>

PumpControl(expired) ==
  /\ Pumping
  /\ waiting => expired
  /\ control # NoPacket
  /\ fails' = IF waiting THEN BumpFails ELSE fails
  /\ waiting' = TRUE
  /\ Send(control)
  /\ UNCHANGED <<commPC, windowVars, control, lastId, clientId>>

\* Mutant: the control packet does not hold back other packets.
UnbusyAnyControl == ~waiting

Unbusy == ~waiting /\ control = NoPacket

\* Mutant: the limits of the report are swapped.
SendReportSwapped(first, last) ==
  LET report == Report(IncPacketId(lastId), clientId, last, first)
  IN  /\ CanDraw
      /\ lastId' = report.id
      /\ control' = report
      /\ waiting' = TRUE
      /\ Send(report)
      /\ UNCHANGED <<commPC, fails, clientId>>

\* Both IDs of a report have to be below TPACKET_MAX_ID.
SendReport(first, last) ==
  LET report == Report(IncPacketId(lastId), clientId, first, last)
  IN  /\ CanDraw
      /\ lastId' = report.id
      /\ control' = report
      /\ waiting' = TRUE
      /\ Send(report)
      /\ UNCHANGED <<commPC, fails, clientId>>

\* Create_Data_Wnd_Report, which returns NULL when an ID is out of range.
PumpReport(due) ==
  /\ Pumping
  /\ Unbusy /\ ~resending /\ Cells # {}
  /\ due \/ WndMaxCount <= WndCount \/ queueOut = <<>>
  /\ wndFirst' = wnd[FirstCell].id
  /\ wndLast' = wnd[LastCell].id
  /\ UNCHANGED <<wnd, wndCell, resending>>
  /\ IF wndFirst' < MaxId /\ wndLast' < MaxId
     THEN SendReport(wndFirst', wndLast')
     ELSE commPC' = "status" /\ UNCHANGED <<controlVars, toServer>>

\* The ID of the next data packet: an empty window starts over at 1 when its
\* IDs could overflow.
DataId ==
  IF Cells = {} /\ lastId + WndMaxCount + IdReserve >= MaxId THEN 1 ELSE IncPacketId(lastId)

\* Mutant: Pull_Last_Data_Packet.
PullLast(data) ==
  /\ data = Last(queueOut)
  /\ queueOut' = Front(queueOut)

\* Pull_Firt_Data_Packet, of a queue that is not empty.
PullFirst(data) ==
  /\ data = Head(queueOut)
  /\ queueOut' = Tail(queueOut)

PumpData(due) ==
  /\ commPC = "pump"
  /\ Unbusy /\ ~resending
  /\ Cells = {} \/ (~due /\ WndCount < WndMaxCount)
  /\ queueOut # <<>>
  /\ CanDraw
  /\ \E i \in DOMAIN queueOut :
       LET p == Data(DataId, clientId, queueOut[i])
       IN  PullFirst(queueOut[i]) /\ wnd' = WndAdd(p) /\ Send(p)
  /\ lastId' = DataId
  /\ UNCHANGED <<commPC, wndCell, wndFirst, wndLast, resending, waiting, control, fails,
                 clientId, connected, resets, exit, accepted, inVars, serverVars, toClient>>

PumpResend ==
  /\ Pumping
  /\ Unbusy /\ resending /\ Cells # {}
  /\ wndCell # LastCell
  /\ wndCell' = NextCell
  /\ Send(wnd[NextCell])
  /\ UNCHANGED <<commPC, wnd, wndFirst, wndLast, resending, controlVars>>

PumpResendReport ==
  /\ Pumping
  /\ Unbusy /\ resending /\ Cells # {}
  /\ wndCell = LastCell
  /\ IF wndFirst < MaxId /\ wndLast < MaxId
     THEN /\ wndCell' = 0
          /\ SendReport(wndFirst, wndLast)
          /\ UNCHANGED <<wnd, wndFirst, wndLast, resending>>
     ELSE PumpEnds

\* Mutant: the window is not looked at.
NothingQueued == Unbusy /\ (queueOut = <<>> \/ resending)

NothingToSend == Unbusy /\ Cells = {} /\ (queueOut = <<>> \/ resending)

PumpPing ==
  /\ Pumping
  /\ NothingToSend
  /\ CanDraw
  /\ LET ping == Alive(IncPacketId(lastId), clientId)
     IN  control' = ping /\ Send(ping)
  /\ lastId' = IncPacketId(lastId)
  /\ waiting' = TRUE
  /\ UNCHANGED <<commPC, windowVars, fails, clientId>>

PumpNothing ==
  /\ Pumping
  /\ NothingToSend
  /\ PumpEnds

-----------------------------------------------------------------------------
(* Comm_Routine: the connection status, once the sending loop has ended.   *)

LinkUp == fails < MaxFails

CommStatusKept ==
  /\ commPC = "status"
  /\ LinkUp = connected
  /\ commPC' = "wait"
  /\ UNCHANGED <<windowVars, controlVars, userVars, inVars, serverVars, netVars>>

\* Set_Connected(TRUE)
CommEstablish ==
  /\ commPC = "status"
  /\ LinkUp /\ ~connected
  /\ connected' = TRUE
  /\ resets' = (resets + 1) % ResetWrap
  /\ commPC' = "wait"
  /\ UNCHANGED <<windowVars, controlVars, queueOut, exit, accepted, inVars,
                 serverVars, netVars>>

\* Set_Connected(FALSE); m_hCS_User is free before Reset_Connetion takes it again.
CommDisconnect ==
  /\ commPC = "status"
  /\ ~LinkUp /\ connected
  /\ connected' = FALSE
  /\ commPC' = "drop"
  /\ UNCHANGED <<windowVars, controlVars, queueOut, resets, exit, accepted, inVars,
                 serverVars, netVars>>

CommDrop ==
  /\ commPC = "drop"
  /\ ResetConnection(clientId)
  /\ commPC' = "wait"
  /\ UNCHANGED <<fails, clientId, connected, exit, accepted, inVars, serverVars, netVars>>

-----------------------------------------------------------------------------
(* Chnl_Routine takes one packet of server commands per data signal.       *)

Dispatch ==
  /\ queueIn # <<>>
  /\ dispatched' = Append(dispatched, Head(queueIn))
  /\ queueIn' = Tail(queueIn)
  /\ UNCHANGED <<commPC, windowVars, controlVars, userVars, serverVars, netVars>>

-----------------------------------------------------------------------------
(* The server (not part of the repository), as the client's handlers of    *)
(* its answers describe it, and the network: a datagram that was sent may  *)
(* be received at any later moment, any number of times, or never.         *)

Answer(m) == toClient' = toClient \cup {m}

UNCHANGEDClient == UNCHANGED <<commPC, windowVars, controlVars, userVars, inVars, toServer>>

Recognizes(p) == srvHellos # {} /\ p.cid = srvCid

\* A hello that is new starts a session; one seen before is only answered again.
SrvHello(p) ==
  /\ p.type = "hello"
  /\ srvHellos' = srvHellos \cup {p.id}
  /\ srvGot' = IF p.id \in srvHellos THEN srvGot ELSE {}
  /\ \E extra \in Extra : Answer(Ack(p.id, TRUE, extra))
  /\ UNCHANGED <<srvCid, received>>
  /\ UNCHANGEDClient

SrvData(p) ==
  /\ p.type = "data"
  /\ Recognizes(p)
  /\ srvGot' = srvGot \cup {<<p.id, p.data>>}
  /\ received' = received \cup {p.data}
  /\ UNCHANGED <<srvHellos, srvCid, toClient>>
  /\ UNCHANGEDClient

Lost(p) == (p.first .. p.last) \ {g[1] : g \in srvGot}

SrvReport(p) ==
  /\ p.type = "report"
  /\ IF Recognizes(p) /\ Lost(p) # {}
     THEN Answer(ServerReport(p.id, Lost(p)))
     ELSE \E extra \in Extra : Answer(Ack(p.id, Recognizes(p), extra))
  /\ UNCHANGED serverVars
  /\ UNCHANGEDClient

SrvAlive(p) ==
  /\ p.type = "alive"
  /\ \E extra \in Extra : Answer(Ack(p.id, Recognizes(p), extra))
  /\ UNCHANGED serverVars
  /\ UNCHANGEDClient

SrvRestart ==
  /\ srvCid <= MaxRestarts
  /\ srvCid' = srvCid + 1
  /\ srvHellos' = {}
  /\ srvGot' = {}
  /\ UNCHANGED <<received, toClient>>
  /\ UNCHANGEDClient

-----------------------------------------------------------------------------
Recv ==
  \/ RecvNothing
  \/ RecvDamaged
  \/ \E m \in toClient : RecvIgnored(m) \/ RecvAck(m) \/ RecvRefusal(m) \/ RecvServerReport(m)

Pump ==
  \/ PumpWaits
  \/ \E late \in BOOLEAN : PumpControl(late) \/ PumpReport(late) \/ PumpData(late)
  \/ PumpResend
  \/ PumpResendReport
  \/ PumpPing
  \/ PumpNothing

Comm ==
  \/ CommWait \/ CommBye \/ CommExitPending
  \/ Recv
  \/ Pump
  \/ CommStatusKept \/ CommEstablish \/ CommDisconnect \/ CommDrop

Server ==
  \/ \E p \in toServer : SrvHello(p) \/ SrvData(p) \/ SrvReport(p) \/ SrvAlive(p)
  \/ SrvRestart

Next == Sent \/ SetExit \/ Comm \/ Dispatch \/ Server

Spec == Init /\ [][Next]_vars

-----------------------------------------------------------------------------
(* Properties.                                                             *)

Ids == 1 .. MaxId

PacketType ==
  [type : ClientTypes, id : Ids, cid : Nat, first : 0 .. MaxId, last : 0 .. MaxId, data : Nat]

AnswerType ==
  [type : {"ack", "lost"}, src : Ids, cid : Nat, result : BOOLEAN, extra : BOOLEAN, lost : SUBSET (0 .. MaxId)]

FlagTypeOK == waiting \in BOOLEAN /\ resending \in BOOLEAN /\ connected \in BOOLEAN

CommTypeOK ==
  /\ commPC \in {"wait", "recv", "pump", "status", "drop", "done"}
  /\ control \in PacketType \cup {NoPacket}
  /\ fails \in 0 .. MaxFails
  /\ lastId \in Ids
  /\ clientId \in Nat

WindowTypeOK ==
  /\ Cells \subseteq Nat
  /\ \A c \in Cells : wnd[c] \in PacketType
  /\ wndCell \in Nat
  /\ wndFirst \in 1 .. NoId
  /\ wndLast \in 1 .. NoId

UserTypeOK ==
  /\ queueOut \in Seq(Nat)
  /\ resets \in 0 .. ResetWrap - 1
  /\ exit \in {"none", "set", "seen"}
  /\ accepted \in Nat
  /\ queueIn \in Seq(Ids)
  /\ dispatched \in Seq(Ids)

NetTypeOK ==
  /\ toServer \subseteq PacketType
  /\ toClient \subseteq AnswerType
  /\ srvHellos \subseteq Ids
  /\ srvCid \in Nat
  /\ srvGot \subseteq Ids \X Nat
  /\ received \subseteq Nat

\* The variables have their types.
TypeOK == FlagTypeOK /\ CommTypeOK /\ WindowTypeOK /\ UserTypeOK /\ NetTypeOK

\* While a response is awaited there is a control packet: Process_Incoming_Packet
\* follows m_pPacket_Control of a server report without testing it for NULL.
WaitingHasControl ==
  waiting => control # NoPacket /\ control.type \in {"hello", "alive", "report"}

\* The IDs inside the data window are sequential, so that a bit of a server
\* report stands for one packet, the window never holds more packets than such
\* a report has bits for, and every ID is below the TPACKET_MAX_ID above which
\* Create_Data_Wnd_Report and the resending branch would stay silent for ever.
WindowSequential ==
  /\ Cells \subseteq 1 .. WndMaxCount
  /\ \A c, d \in Cells : wnd[d].id - wnd[c].id = d - c
  /\ \A c \in Cells : wnd[c].id < MaxId

\* A window report on its way, and the one that the resending branch will
\* build from m_dwData_Wnd_First_ID and m_dwData_Wnd_Last_ID, covers every
\* packet still in the window: an acknowledgment of it frees them all.
ReportCoversWindow ==
  /\ control.type = "report" =>
       \A c \in Cells : wnd[c].id \in control.first .. control.last
  /\ resending =>
       /\ Cells # {} /\ wndCell \in {0} \cup Cells
       /\ \A c \in Cells : wnd[c].id \in wndFirst .. wndLast

\* Whenever the sending loop has ended with packets in the window, an answer
\* about them is awaited: the thread never goes to sleep on an unreported window.
WindowIsReported ==
  commPC \in {"status", "drop", "wait", "recv"} /\ Cells # {} =>
    waiting /\ control.type = "report"

\* Nothing is held for a connection that is down: what was queued before the
\* drop cannot leak into the session that the next hello opens.
NothingHeldWhenDown ==
  ~connected /\ commPC # "drop" => queueOut = <<>> /\ Cells = {}

\* What the client still holds for the server.
Held == {queueOut[i] : i \in DOMAIN queueOut} \cup WndData

\* A queued packet leaves the client unreceived only with a reset, which the
\* trace and telemetry channels see in the reset counter: an acknowledgment or
\* a report of lost packets, however old, never frees one the server lacks.
LossIsAnnounced ==
  [][\A n \in Held : n \in Held' \cup received \/ resets' # resets]_vars

\* The server can restore the order in which packets were queued from the IDs.
IdsFollowQueue ==
  \A p, q \in toServer :
    p.type = "data" /\ q.type = "data" => (p.id < q.id <=> p.data < q.data)

\* Data, reports and pings leave only after the newest hello was acknowledged.
HelloIsAnswered ==
  \A p \in toServer :
    p.type \in {"data", "report", "alive"} =>
      \E h \in toServer :
        /\ h.type = "hello" /\ h.id < p.id
        /\ \A g \in toServer : g.type = "hello" /\ g.id < p.id => g.id <= h.id
        /\ \E m \in toClient : m.type = "ack" /\ m.src = h.id /\ m.result

\* The commands attached to an answer reach the channels at most once, however
\* often the answer arrives.
DispatchedOnce ==
  LET all == dispatched \o queueIn
  IN  \A i, j \in DOMAIN all : i # j => all[i] # all[j]

\* A client that says bye without having counted a reset leaves nothing behind:
\* every packet its users had queued has reached a server.
ByeAfterDelivery ==
  resets = 0 /\ (\E p \in toServer : p.type = "bye") => 1 .. accepted \subseteq received
=============================================================================
