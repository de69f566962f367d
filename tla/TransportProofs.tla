--------------------------- MODULE TransportProofs ---------------------------
(***************************************************************************)
(* Proofs about Transport, for every value of its constants.               *)
(***************************************************************************)
EXTENDS MCTransport, FiniteSetTheorems, WellFoundedInduction, SequenceTheorems, TLAPS

-----------------------------------------------------------------------------
(* Smallest and largest elements.                                          *)

\* Min picks the smallest element of a set of naturals.
LEMMA MinOfNats ==
  ASSUME NEW S \in SUBSET Nat, S # {}
  PROVE  Min(S) \in S /\ \A y \in S : Min(S) <= y
<1>. DEFINE Less == {ss \in Nat \X Nat : ss[1] < ss[2]}
<1>1. IsWellFoundedOn(Less, Nat)
  BY NatLessThanWellFounded DEF OpToRel
<1>2. PICK x \in S : \A y \in S : ~(<<y, x>> \in Less)
  BY <1>1, WFMin
<1>3. ASSUME NEW y \in S
      PROVE  x <= y
  <2>1. <<y, x>> \in Nat \X Nat
    OBVIOUS
  <2>2. ~(y < x)
    BY <1>2, <2>1
  <2>. QED BY <2>2
<1>. QED BY <1>3 DEF Min

\* Max picks the largest element of a bounded set of naturals.
LEMMA MaxOfNats ==
  ASSUME NEW S \in SUBSET Nat, S # {}, NEW n \in Nat, \A s \in S : s <= n
  PROVE  Max(S) \in S /\ \A y \in S : y <= Max(S)
<1>. DEFINE R == {n - s : s \in S}
<1>1. R \in SUBSET Nat /\ R # {}
  <2>1. ASSUME NEW s \in S
        PROVE  n - s \in Nat
    OBVIOUS
  <2>. QED BY <2>1
<1>2. PICK x \in S : n - x = Min(R)
  BY <1>1, MinOfNats
<1>3. ASSUME NEW y \in S
      PROVE  y <= x
  <2>1. n - x <= n - y
    BY <1>1, <1>2, MinOfNats
  <2>. QED BY <2>1
<1>. QED BY <1>3 DEF Max

-----------------------------------------------------------------------------
(* The inductive invariant.                                                *)

\* A hello or a ping is outstanding only with an empty window, a report that is
\* outstanding is the one made from the recorded limits of the window, and those
\* limits stay fit for another report until the window is acknowledged.
ControlFitsWindow ==
  /\ control.type \in {"none", "hello", "alive", "report"}
  /\ control.type \in {"hello", "alive"} => Cells = {}
  /\ control.type = "report" => control.first = wndFirst /\ control.last = wndLast
  /\ control.type = "report" \/ resending => wndFirst < MaxId /\ wndLast < MaxId

\* The cells of the window have consecutive IDs, with room below TPACKET_MAX_ID
\* for the cells that the window still lacks.
WindowHasRoom ==
  /\ Cells \subseteq 1 .. WndMaxCount
  /\ \A c, d \in Cells : wnd[d].id - wnd[c].id = d - c
  /\ \A c \in Cells : wnd[c].id + WndMaxCount < MaxId + c

\* A window that is not being resent has no gaps, and until it is reported its
\* last ID is the last one drawn.
WindowIsGrowing ==
  ~resending /\ Cells # {} =>
    \E k \in 1 .. WndMaxCount :
      Cells = 1 .. k /\ (control = NoPacket => lastId = wnd[k].id)

IInv ==
  /\ TypeOK
  /\ WaitingHasControl
  /\ ControlFitsWindow
  /\ WindowHasRoom
  /\ WindowIsGrowing
  /\ ReportCoversWindow
  /\ WindowIsReported
  /\ NothingHeldWhenDown

-----------------------------------------------------------------------------
(* Facts about the operators.                                              *)

\* Inc_Packet_ID stays in the range of IDs.
LEMMA IdFacts ==
  /\ IncPacketId(0) \in Ids
  /\ \A id \in Ids : IncPacketId(id) \in Ids
  /\ NoId \in Nat
  /\ MaxId \in Nat
BY TransportAssumption DEF IncPacketId, Ids, NoId

\* The packets that the client makes.
LEMMA PacketFacts ==
  ASSUME NEW id \in Ids, NEW cid \in Nat
  PROVE  /\ Hello(id, cid) \in PacketType /\ Hello(id, cid).type = "hello"
         /\ Alive(id, cid) \in PacketType /\ Alive(id, cid).type = "alive"
         /\ Bye(id, cid) \in PacketType
         /\ \A first, last \in 0 .. MaxId :
              /\ Report(id, cid, first, last) \in PacketType
              /\ Report(id, cid, first, last).type = "report"
              /\ Report(id, cid, first, last).id = id
              /\ Report(id, cid, first, last).first = first
              /\ Report(id, cid, first, last).last = last
         /\ \A data \in Nat :
              /\ Data(id, cid, data) \in PacketType
              /\ Data(id, cid, data).id = id
BY IdFacts DEF Hello, Alive, Bye, Report, Data, Packet, PacketType, ClientTypes, Ids

\* NoPacket is unlike any packet.
LEMMA NoPacketFacts ==
  /\ NoPacket.type = "none"
  /\ \A p \in PacketType : p # NoPacket /\ p.type # "none" /\ p.id \in Ids
BY DEF NoPacket, Packet, PacketType, ClientTypes

\* What the cells of a window in use are.
LEMMA CellFacts ==
  ASSUME Cells \subseteq 1 .. WndMaxCount, Cells # {}
  PROVE  /\ FirstCell \in Cells /\ \A c \in Cells : FirstCell <= c
         /\ LastCell \in Cells /\ \A c \in Cells : c <= LastCell
         /\ wndCell \in {0} \cup Cells /\ wndCell # LastCell => NextCell \in Cells
<1>1. Cells \in SUBSET Nat /\ WndMaxCount \in Nat /\ \A c \in Cells : c <= WndMaxCount
  BY TransportAssumption
<1>2. FirstCell \in Cells /\ \A c \in Cells : FirstCell <= c
  BY <1>1, MinOfNats DEF FirstCell
<1>3. LastCell \in Cells /\ \A c \in Cells : c <= LastCell
  BY <1>1, MaxOfNats DEF LastCell
<1>4. ASSUME wndCell \in Cells, wndCell # LastCell
      PROVE  Min({c \in Cells : c > wndCell}) \in Cells
  <2>. DEFINE S == {c \in Cells : c > wndCell}
  <2>1. LastCell \in S
    BY <1>1, <1>3, <1>4
  <2>2. Min(S) \in S
    BY <1>1, <2>1, MinOfNats
  <2>. QED BY <2>2
<1>. QED BY <1>2, <1>3, <1>4 DEF NextCell

\* A window without gaps is as long as its last position.
LEMMA GapFreeWindow ==
  ASSUME NEW k \in 1 .. WndMaxCount, Cells = 1 .. k
  PROVE  FirstCell = 1 /\ LastCell = k /\ WndCount = k
<1>1. Cells \subseteq 1 .. WndMaxCount /\ Cells # {}
  BY TransportAssumption
<1>2. FirstCell = 1 /\ LastCell = k
  BY <1>1, CellFacts
<1>3. Cardinality(1 .. k) = k
  BY FS_Interval
<1>. QED BY <1>2, <1>3 DEF WndCount

-----------------------------------------------------------------------------
(* Steps that leave the communication thread's state alone.                *)

\* The client starts with an empty window and a hello to send.
LEMMA InitIInv == Init => IInv
<1>. SUFFICES ASSUME Init PROVE IInv
  OBVIOUS
<1>1. Cells = {}
  BY DEF Init, Cells, EmptyWnd
<1>2. control = Hello(IncPacketId(0), 0) /\ control \in PacketType /\ control.type = "hello"
  BY IdFacts, PacketFacts DEF Init
<1>3. CommTypeOK
  BY <1>2, IdFacts, TransportAssumption DEF CommTypeOK, Init
<1>4. WindowTypeOK
  BY <1>1, IdFacts DEF WindowTypeOK, Init, NoId
<1>5. UserTypeOK /\ NetTypeOK
  BY TransportAssumption DEF UserTypeOK, NetTypeOK, Init
<1>6. FlagTypeOK
  BY DEF FlagTypeOK, Init
<1>. QED
  BY <1>1, <1>2, <1>3, <1>4, <1>5, <1>6
  DEF Init, IInv, TypeOK, WaitingHasControl, ControlFitsWindow, WindowHasRoom,
      WindowIsGrowing, ReportCoversWindow, WindowIsReported, NothingHeldWhenDown

\* The parts of the invariant that speak of the window and the control packet
\* hold as long as neither changes.
LEMMA SameWindow ==
  ASSUME IInv, UNCHANGED <<windowVars, waiting, control, lastId>>
  PROVE  /\ WaitingHasControl' /\ ControlFitsWindow' /\ WindowHasRoom'
         /\ WindowIsGrowing' /\ ReportCoversWindow' /\ WindowTypeOK'
<1>1. Cells' = Cells /\ wnd' = wnd
  BY DEF Cells, windowVars
<1>. QED
  BY <1>1
  DEF IInv, windowVars, WaitingHasControl, ControlFitsWindow, WindowHasRoom, WindowIsGrowing,
      ReportCoversWindow, TypeOK, WindowTypeOK

\* A step of the server, of the channel thread or of the destructor.
LEMMA OutsideStep ==
  ASSUME IInv, UNCHANGED <<commPC, windowVars, controlVars, queueOut, connected>>,
         UserTypeOK', NetTypeOK'
  PROVE  IInv'
<1>1. UNCHANGED <<windowVars, waiting, control, lastId, fails, clientId>>
  BY DEF controlVars
<1>2. FlagTypeOK' /\ CommTypeOK'
  BY <1>1 DEF IInv, TypeOK, FlagTypeOK, CommTypeOK, windowVars
<1>3. WindowIsReported' /\ NothingHeldWhenDown'
  BY <1>1 DEF IInv, WindowIsReported, NothingHeldWhenDown, Cells, windowVars
<1>. QED
  BY <1>1, <1>2, <1>3, SameWindow DEF IInv, TypeOK

\* What the server answers is an answer.
LEMMA AckType ==
  ASSUME IInv, NEW src \in Ids, NEW result \in BOOLEAN, NEW extra \in Extra
  PROVE  Ack(src, result, extra) \in AnswerType
BY TransportAssumption DEF Ack, AnswerType, IInv, TypeOK, NetTypeOK

\* A step of the server.
LEMMA ServerStep ==
  ASSUME IInv, Server
  PROVE  IInv'
<1>1. UNCHANGED <<commPC, windowVars, controlVars, userVars, inVars, toServer>>
  BY DEF Server, SrvHello, SrvData, SrvReport, SrvAlive, SrvRestart, UNCHANGEDClient
<1>2. UserTypeOK'
  BY <1>1 DEF IInv, TypeOK, UserTypeOK, userVars, inVars
<1>3. ASSUME NEW p \in toServer, SrvHello(p)
      PROVE  NetTypeOK'
  <2>1. p.id \in Ids
    BY DEF IInv, TypeOK, NetTypeOK, PacketType
  <2>. QED
    BY <1>1, <1>3, <2>1, AckType DEF SrvHello, Answer, IInv, TypeOK, NetTypeOK
<1>4. ASSUME NEW p \in toServer, SrvData(p)
      PROVE  NetTypeOK'
  <2>1. p.id \in Ids /\ p.data \in Nat
    BY DEF IInv, TypeOK, NetTypeOK, PacketType
  <2>2. <<p.id, p.data>> \in Ids \X Nat
    BY <2>1
  <2>3. srvGot' \subseteq Ids \X Nat
    BY <1>4, <2>2 DEF SrvData, IInv, TypeOK, NetTypeOK
  <2>4. received' \subseteq Nat
    BY <1>4, <2>1 DEF SrvData, IInv, TypeOK, NetTypeOK
  <2>. QED
    BY <1>1, <1>4, <2>3, <2>4 DEF SrvData, IInv, TypeOK, NetTypeOK
<1>5. ASSUME NEW p \in toServer, SrvReport(p)
      PROVE  NetTypeOK'
  <2>1. p.id \in Ids /\ p.first \in 0 .. MaxId /\ p.last \in 0 .. MaxId
    BY DEF IInv, TypeOK, NetTypeOK, PacketType
  <2>2. Lost(p) \subseteq 0 .. MaxId
    BY <2>1, IdFacts DEF Lost
  <2>3. ServerReport(p.id, Lost(p)) \in AnswerType
    BY <2>1, <2>2 DEF ServerReport, AnswerType, IInv, TypeOK, NetTypeOK
  <2>4. Recognizes(p) \in BOOLEAN
    BY DEF Recognizes
  <2>5. toClient' \subseteq AnswerType
    BY <1>5, <2>1, <2>3, <2>4, AckType DEF SrvReport, Answer, IInv, TypeOK, NetTypeOK
  <2>. QED
    BY <1>1, <1>5, <2>5 DEF SrvReport, serverVars, IInv, TypeOK, NetTypeOK
<1>6. ASSUME NEW p \in toServer, SrvAlive(p)
      PROVE  NetTypeOK'
  <2>1. p.id \in Ids /\ Recognizes(p) \in BOOLEAN
    BY DEF IInv, TypeOK, NetTypeOK, PacketType, Recognizes
  <2>. QED
    BY <1>1, <1>6, <2>1, AckType DEF SrvAlive, Answer, serverVars, IInv, TypeOK, NetTypeOK
<1>7. ASSUME SrvRestart
      PROVE  NetTypeOK'
  BY <1>1, <1>7 DEF SrvRestart, IInv, TypeOK, NetTypeOK
<1>8. NetTypeOK'
  BY <1>3, <1>4, <1>5, <1>6, <1>7 DEF Server
<1>. QED
  BY <1>1, <1>2, <1>8, OutsideStep DEF userVars

\* A step of a user thread, of the destructor or of the channel thread.
LEMMA UserStep ==
  ASSUME IInv, Sent \/ SetExit \/ Dispatch
  PROVE  IInv'
<1>1. CASE Sent
  <2>1. UNCHANGED <<commPC, windowVars, controlVars, connected, inVars, serverVars, netVars, resets, exit>>
    BY <1>1 DEF Sent, PushLast
  <2>2. UserTypeOK'
    BY <1>1, <2>1 DEF Sent, PushLast, IInv, TypeOK, UserTypeOK, inVars
  <2>3. FlagTypeOK' /\ CommTypeOK' /\ NetTypeOK'
    BY <2>1 DEF IInv, TypeOK, FlagTypeOK, CommTypeOK, NetTypeOK, windowVars, controlVars,
         serverVars, netVars
  <2>4. WindowIsReported' /\ NothingHeldWhenDown'
    BY <1>1, <2>1 DEF Sent, PushLast, IInv, WindowIsReported, NothingHeldWhenDown, Cells, windowVars, controlVars
  <2>. QED
    BY <2>1, <2>2, <2>3, <2>4, SameWindow DEF IInv, TypeOK, controlVars
<1>2. CASE SetExit
  <2>1. UNCHANGED <<commPC, windowVars, controlVars, queueOut, connected, resets, accepted, inVars,
                    serverVars, netVars>> /\ exit' = "set"
    BY <1>2 DEF SetExit
  <2>2. UserTypeOK' /\ NetTypeOK'
    BY <2>1 DEF IInv, TypeOK, UserTypeOK, NetTypeOK, inVars, serverVars, netVars
  <2>. QED
    BY <2>1, <2>2, OutsideStep
<1>3. CASE Dispatch
  <2>1. UNCHANGED <<commPC, windowVars, controlVars, userVars, serverVars, netVars>>
    BY <1>3 DEF Dispatch
  <2>2. queueIn' \in Seq(Ids) /\ dispatched' \in Seq(Ids)
    BY <1>3 DEF Dispatch, IInv, TypeOK, UserTypeOK
  <2>3. UserTypeOK' /\ NetTypeOK'
    BY <2>1, <2>2 DEF IInv, TypeOK, UserTypeOK, NetTypeOK, userVars, serverVars, netVars
  <2>. QED
    BY <2>1, <2>3, OutsideStep DEF userVars
<1>. QED BY <1>1, <1>2, <1>3

-----------------------------------------------------------------------------
(* Steps of the communication thread.                                      *)

\* A step of the communication thread that touches neither window nor control.
LEMMA CommKeepsWindow ==
  ASSUME IInv, UNCHANGED <<windowVars, waiting, control, lastId, fails>>, clientId' \in Nat,
         UNCHANGED <<queueOut, accepted, inVars, serverVars, netVars>>,
         connected' \in BOOLEAN, resets' \in 0 .. ResetWrap - 1,
         exit' \in {"none", "set", "seen"},
         commPC' \in {"wait", "recv", "pump", "status", "drop", "done"},
         WindowIsReported', NothingHeldWhenDown'
  PROVE  IInv'
<1>1. FlagTypeOK'
  BY DEF IInv, TypeOK, FlagTypeOK, windowVars
<1>2. CommTypeOK'
  BY DEF IInv, TypeOK, CommTypeOK
<1>3. UserTypeOK' /\ NetTypeOK'
  BY DEF IInv, TypeOK, UserTypeOK, NetTypeOK, inVars, serverVars, netVars
<1>. QED
  BY <1>1, <1>2, <1>3, SameWindow DEF IInv, TypeOK

\* The reset counter wraps around.
LEMMA ResetTypes ==
  ASSUME IInv
  PROVE  (resets + 1) % ResetWrap \in 0 .. ResetWrap - 1
BY TransportAssumption DEF IInv, TypeOK, UserTypeOK

\* The steps of the wait, of the status check and of an empty socket.
LEMMA WaitAndStatusSteps ==
  ASSUME IInv,
         \/ CommWait \/ CommExitPending \/ RecvNothing
         \/ CommStatusKept \/ CommEstablish \/ CommDisconnect
  PROVE  IInv'
<1>1. UNCHANGED <<windowVars, controlVars, queueOut, accepted, inVars, serverVars, netVars>>
  BY DEF CommWait, CommExitPending, RecvNothing, CommStatusKept, CommEstablish,
         CommDisconnect, userVars
<1>2. /\ resets' \in 0 .. ResetWrap - 1
      /\ exit' \in {"none", "set", "seen"}
      /\ commPC' \in {"wait", "recv", "pump", "status", "drop", "done"}
  BY ResetTypes
  DEF CommWait, CommExitPending, RecvNothing, ToPump, CommStatusKept, CommEstablish, CommDisconnect,
      userVars, IInv, TypeOK, UserTypeOK
<1>3. connected' \in BOOLEAN
  BY DEF CommWait, CommExitPending, RecvNothing, CommStatusKept, CommEstablish,
         CommDisconnect, userVars, IInv, TypeOK, FlagTypeOK
<1>4. Cells' = Cells /\ UNCHANGED <<waiting, control, lastId, fails>> /\ clientId' \in Nat
  BY <1>1 DEF Cells, windowVars, controlVars, IInv, TypeOK, CommTypeOK
<1>5. WindowIsReported'
  BY <1>4
  DEF CommWait, CommExitPending, RecvNothing, ToPump, CommStatusKept, CommEstablish, CommDisconnect,
      IInv, WindowIsReported
<1>6. NothingHeldWhenDown'
  BY <1>1, <1>4
  DEF CommWait, CommExitPending, RecvNothing, ToPump, CommStatusKept, CommEstablish, CommDisconnect,
      userVars, IInv, NothingHeldWhenDown
<1>. QED
  BY <1>1, <1>2, <1>3, <1>4, <1>5, <1>6, CommKeepsWindow
\* The client ID of a datagram, taken over by the client.
LEMMA AnswerFacts ==
  ASSUME IInv, NEW m \in toClient
  PROVE  m.src \in Ids /\ m.cid \in Nat /\ m.type \in {"ack", "lost"}
         /\ m.result \in BOOLEAN /\ m.extra \in BOOLEAN
BY DEF IInv, TypeOK, NetTypeOK, AnswerType

\* An answer nobody waits for at most changes the client ID.
LEMMA IgnoredStep ==
  ASSUME IInv, NEW m \in toClient, RecvIgnored(m)
  PROVE  IInv'
<1>1. UNCHANGED <<windowVars, waiting, control, lastId, fails, userVars, inVars, serverVars, netVars>>
      /\ clientId' \in Nat /\ commPC = "recv" /\ commPC' = "pump"
  BY AnswerFacts DEF RecvIgnored, ToPump, IInv, TypeOK, CommTypeOK
<1>2. UNCHANGED <<queueOut, accepted, connected, resets, exit>> /\ Cells' = Cells
  BY <1>1 DEF userVars, windowVars, Cells
<1>3. WindowIsReported' /\ NothingHeldWhenDown'
  BY <1>1, <1>2 DEF IInv, WindowIsReported, NothingHeldWhenDown
<1>4. connected' \in BOOLEAN /\ resets' \in 0 .. ResetWrap - 1 /\ exit' \in {"none", "set", "seen"}
  BY <1>2 DEF IInv, TypeOK, FlagTypeOK, UserTypeOK
<1>. QED
  BY <1>1, <1>2, <1>3, <1>4, CommKeepsWindow

\* The failure count is capped.
LEMMA FailsType ==
  ASSUME IInv
  PROVE  BumpFails \in 0 .. MaxFails
BY TransportAssumption DEF BumpFails, IInv, TypeOK, CommTypeOK

\* A damaged packet only ends the waiting.
LEMMA DamagedStep ==
  ASSUME IInv, RecvDamaged
  PROVE  IInv'
<1>1. /\ UNCHANGED <<windowVars, control, lastId, clientId, userVars, inVars, serverVars, netVars>>
      /\ waiting' = FALSE /\ fails' = BumpFails /\ commPC = "recv" /\ commPC' = "pump"
  BY DEF RecvDamaged, ToPump
<1>2. UNCHANGED <<queueOut, accepted, connected, resets, exit>> /\ Cells' = Cells /\ wnd' = wnd
  BY <1>1 DEF userVars, windowVars, Cells
<1>3. CommTypeOK' /\ FlagTypeOK'
  BY <1>1, <1>2, FailsType DEF IInv, TypeOK, CommTypeOK, FlagTypeOK, windowVars
<1>4. UserTypeOK' /\ NetTypeOK' /\ WindowTypeOK'
  BY <1>1, <1>2 DEF IInv, TypeOK, UserTypeOK, NetTypeOK, WindowTypeOK, windowVars, userVars, inVars,
       serverVars, netVars
<1>5. /\ WaitingHasControl' /\ ControlFitsWindow' /\ WindowHasRoom' /\ WindowIsGrowing'
      /\ ReportCoversWindow' /\ WindowIsReported' /\ NothingHeldWhenDown'
  BY <1>1, <1>2
  DEF IInv, windowVars, WaitingHasControl, ControlFitsWindow, WindowHasRoom, WindowIsGrowing,
      ReportCoversWindow, WindowIsReported, NothingHeldWhenDown
<1>. QED
  BY <1>3, <1>4, <1>5 DEF IInv, TypeOK

\* The last packet of a client leaves with the window empty.
LEMMA ByeStep ==
  ASSUME IInv, CommBye
  PROVE  IInv'
<1>. DEFINE bye == Bye(IncPacketId(lastId), clientId)
<1>1. bye \in PacketType /\ IncPacketId(lastId) \in Ids
  BY IdFacts, PacketFacts DEF IInv, TypeOK, CommTypeOK
<1>2. /\ UNCHANGED <<windowVars, waiting, control, fails, clientId, userVars, inVars, serverVars, toClient>>
      /\ commPC' = "done" /\ lastId' = IncPacketId(lastId) /\ toServer' = toServer \cup {bye}
      /\ ~connected \/ Cells = {}
      /\ commPC = "wait"
  BY DEF CommBye, Send, IsReadyToExit
<1>3. UNCHANGED <<queueOut, accepted, connected, resets, exit, resending>> /\ Cells' = Cells /\ wnd' = wnd
  BY <1>2 DEF userVars, windowVars, Cells
<1>4. Cells = {}
  BY <1>2 DEF IInv, NothingHeldWhenDown
<1>5. FlagTypeOK' /\ CommTypeOK'
  BY <1>1, <1>2, <1>3 DEF IInv, TypeOK, FlagTypeOK, CommTypeOK
<1>6. UserTypeOK' /\ WindowTypeOK'
  BY <1>2, <1>3 DEF IInv, TypeOK, UserTypeOK, WindowTypeOK, windowVars, inVars
<1>7. NetTypeOK'
  BY <1>1, <1>2 DEF IInv, TypeOK, NetTypeOK, serverVars
<1>8. /\ WaitingHasControl' /\ ControlFitsWindow' /\ WindowHasRoom' /\ WindowIsGrowing'
      /\ ReportCoversWindow' /\ WindowIsReported' /\ NothingHeldWhenDown'
  BY <1>2, <1>3, <1>4
  DEF IInv, windowVars, WaitingHasControl, ControlFitsWindow, WindowHasRoom, WindowIsGrowing,
      ReportCoversWindow, WindowIsReported, NothingHeldWhenDown
<1>. QED
  BY <1>5, <1>6, <1>7, <1>8 DEF IInv, TypeOK

\* Any step that frees the whole window and leaves a hello, or nothing, to send.
LEMMA EmptyWindowStep ==
  ASSUME IInv, Cells' = {}, waiting' = FALSE, resending' = FALSE, wndCell' = 0,
         wndFirst' \in 1 .. NoId, wndLast' \in 1 .. NoId,
         control' = NoPacket \/ (control' \in PacketType /\ control'.type = "hello"),
         fails' \in 0 .. MaxFails, lastId' \in Ids, clientId' \in Nat,
         commPC' \in {"wait", "pump"}, connected' = connected,
         ~connected => queueOut' = <<>> \/ (queueOut' = queueOut /\ commPC # "drop"),
         UserTypeOK', NetTypeOK'
  PROVE  IInv'
<1>1. control'.type \in {"none", "hello"} /\ control' \in PacketType \cup {NoPacket}
  BY NoPacketFacts
<1>2. FlagTypeOK'
  BY DEF FlagTypeOK, IInv, TypeOK
<1>3. CommTypeOK' /\ WindowTypeOK'
  BY <1>1 DEF CommTypeOK, WindowTypeOK
<1>4. /\ WaitingHasControl' /\ ControlFitsWindow' /\ WindowHasRoom' /\ WindowIsGrowing'
      /\ ReportCoversWindow' /\ WindowIsReported'
  BY <1>1
  DEF WaitingHasControl, ControlFitsWindow, WindowHasRoom, WindowIsGrowing,
      ReportCoversWindow, WindowIsReported
<1>5. NothingHeldWhenDown'
  BY DEF IInv, NothingHeldWhenDown
<1>. QED
  BY <1>2, <1>3, <1>4, <1>5 DEF IInv, TypeOK

\* The queue of commands holds the IDs of answered packets.
LEMMA KeepExtraType ==
  ASSUME IInv, NEW m \in toClient, KeepExtra(m)
  PROVE  queueIn' \in Seq(Ids)
BY AnswerFacts DEF KeepExtra, IInv, TypeOK, UserTypeOK

\* An acknowledgment of a report frees the whole window.
LEMMA AckStep ==
  ASSUME IInv, NEW m \in toClient, RecvAck(m)
  PROVE  IInv'
<1>1. /\ waiting /\ control \in PacketType /\ control.type \in {"hello", "alive", "report"}
      /\ commPC = "recv" /\ commPC' = "pump" /\ waiting' = FALSE /\ wndCell' = 0 /\ fails' = 0
      /\ control' = NoPacket /\ clientId' = m.cid /\ clientId' \in Nat
      /\ UNCHANGED <<lastId, userVars, dispatched, serverVars, netVars>>
  BY AnswerFacts DEF RecvAck, AnswerTaken, Answers, ToPump, IInv, TypeOK, CommTypeOK, WaitingHasControl
<1>2. /\ Cells' = {} /\ resending' = FALSE
      /\ wndFirst' \in 1 .. NoId /\ wndLast' \in 1 .. NoId
  <2>1. CASE control.type = "report"
    <3>1. wnd' = EmptyWnd /\ wndFirst' = NoId /\ wndLast' = NoId /\ resending' = FALSE
      BY <2>1 DEF RecvAck
    <3>2. NoId \in 1 .. NoId
      BY TransportAssumption DEF NoId
    <3>. QED
      BY <3>1, <3>2 DEF Cells, EmptyWnd
  <2>2. CASE control.type # "report"
    <3>1. UNCHANGED <<wnd, wndFirst, wndLast, resending>>
      BY <2>2 DEF RecvAck
    <3>2. Cells = {} /\ resending = FALSE
      BY <1>1, <2>2 DEF IInv, ControlFitsWindow, ReportCoversWindow, TypeOK, FlagTypeOK
    <3>. QED
      BY <3>1, <3>2 DEF Cells, IInv, TypeOK, WindowTypeOK
  <2>. QED BY <2>1, <2>2
<1>3. UNCHANGED <<queueOut, connected, resets, exit, accepted>>
  BY <1>1 DEF userVars
<1>4. UserTypeOK' /\ NetTypeOK'
  <2>1. queueIn' \in Seq(Ids)
    BY KeepExtraType DEF RecvAck
  <2>. QED
    BY <1>1, <1>3, <2>1 DEF IInv, TypeOK, UserTypeOK, NetTypeOK, serverVars, netVars
<1>5. lastId' \in Ids /\ fails' \in 0 .. MaxFails
  BY <1>1, TransportAssumption DEF IInv, TypeOK, CommTypeOK
<1>. QED
  BY <1>1, <1>2, <1>3, <1>4, <1>5, EmptyWindowStep

\* Reset_Connetion, with whatever it is called from.
LEMMA ResetStep ==
  ASSUME IInv, NEW cid \in Nat, ResetConnection(cid),
         UNCHANGED <<connected, exit, accepted, dispatched, serverVars, netVars>>,
         fails' \in 0 .. MaxFails, clientId' \in Nat, commPC' \in {"wait", "pump"},
         queueIn' \in Seq(Ids)
  PROVE  IInv'
<1>1. /\ Cells' = {} /\ waiting' = FALSE /\ resending' = FALSE /\ wndCell' = 0
      /\ queueOut' = <<>>
  BY DEF ResetConnection, DrainQueue, Cells, EmptyWnd
<1>2. wndFirst' \in 1 .. NoId /\ wndLast' \in 1 .. NoId
  BY TransportAssumption DEF ResetConnection, NoId
<1>3. lastId' \in Ids /\ control' \in PacketType /\ control'.type = "hello"
  BY IdFacts, PacketFacts DEF ResetConnection, IInv, TypeOK, CommTypeOK
<1>4. resets' \in 0 .. ResetWrap - 1
  BY ResetTypes DEF ResetConnection, DrainQueue
<1>5. UserTypeOK' /\ NetTypeOK'
  BY <1>1, <1>4 DEF IInv, TypeOK, UserTypeOK, NetTypeOK, serverVars, netVars
<1>. QED
  BY <1>1, <1>2, <1>3, <1>5, EmptyWindowStep

\* A negative acknowledgment resets the connection.
LEMMA RefusalStep ==
  ASSUME IInv, NEW m \in toClient, RecvRefusal(m)
  PROVE  IInv'
<1>1. m.cid \in Nat
  BY AnswerFacts
<1>2. /\ ResetConnection(m.cid) /\ clientId' = m.cid /\ fails' = 0 /\ commPC' = "pump"
      /\ UNCHANGED <<connected, exit, accepted, dispatched, serverVars, netVars>>
  BY DEF RecvRefusal, Answers, ToPump
<1>3. queueIn' \in Seq(Ids)
  BY KeepExtraType DEF RecvRefusal
<1>4. fails' \in 0 .. MaxFails
  BY <1>2, TransportAssumption
<1>. QED
  BY <1>1, <1>2, <1>3, <1>4, ResetStep

\* So does the loss of the connection.
LEMMA DropStep ==
  ASSUME IInv, CommDrop
  PROVE  IInv'
<1>1. /\ ResetConnection(clientId) /\ commPC' = "wait"
      /\ UNCHANGED <<fails, clientId, connected, exit, accepted, inVars, serverVars, netVars>>
  BY DEF CommDrop
<1>2. clientId \in Nat /\ fails' \in 0 .. MaxFails /\ clientId' \in Nat /\ queueIn' \in Seq(Ids)
      /\ dispatched' = dispatched
  BY <1>1 DEF IInv, TypeOK, CommTypeOK, UserTypeOK, inVars
<1>. QED
  BY <1>1, <1>2, ResetStep

\* The window keeps the packets that the server reports as lost.
LEMMA ServerReportStep ==
  ASSUME IInv, NEW m \in toClient, RecvServerReport(m)
  PROVE  IInv'
<1>. DEFINE lost == m.lost
            left == {d \in Cells : wnd[d].id \in lost}
<1>1. /\ waiting /\ control \in PacketType /\ control.type \in {"hello", "alive", "report"}
      /\ commPC = "recv" /\ commPC' = "pump" /\ waiting' = FALSE /\ wndCell' = 0
      /\ control' = NoPacket /\ clientId' \in Nat
      /\ wnd' = WndKeep(lost) /\ resending' = (WndIds \cap lost # {})
      /\ UNCHANGED <<wndFirst, wndLast, fails, lastId, userVars, inVars, serverVars, netVars>>
  BY AnswerFacts DEF RecvServerReport, AnswerTaken, Answers, ToPump, IInv, TypeOK, CommTypeOK, WaitingHasControl
<1>2. Cells' = left /\ \A c \in left : wnd'[c] = wnd[c]
  BY <1>1 DEF WndKeep, Cells
<1>3. resending' <=> left # {}
  BY <1>1 DEF WndIds
<1>4. left # {} => control.type = "report"
  BY <1>1 DEF IInv, ControlFitsWindow
<1>5. UNCHANGED <<queueOut, connected, resets, exit, accepted>>
  BY <1>1 DEF userVars
<1>6. CommTypeOK' /\ UserTypeOK' /\ NetTypeOK'
  BY <1>1, <1>5 DEF IInv, TypeOK, CommTypeOK, UserTypeOK, NetTypeOK, inVars, serverVars, netVars
<1>7. FlagTypeOK'
  BY <1>1, <1>5 DEF IInv, TypeOK, FlagTypeOK
<1>8. WindowTypeOK'
  BY <1>1, <1>2 DEF IInv, TypeOK, WindowTypeOK
<1>9. WindowHasRoom'
  BY <1>2 DEF IInv, WindowHasRoom
<1>10. WaitingHasControl' /\ ControlFitsWindow' /\ WindowIsGrowing' /\ WindowIsReported'
  BY <1>1, <1>2, <1>3, <1>4, NoPacketFacts
  DEF IInv, WaitingHasControl, ControlFitsWindow, WindowIsGrowing, WindowIsReported
<1>11. ReportCoversWindow'
  BY <1>1, <1>2, <1>3, <1>4, NoPacketFacts DEF IInv, ReportCoversWindow, ControlFitsWindow
<1>12. NothingHeldWhenDown'
  BY <1>1, <1>2, <1>5 DEF IInv, NothingHeldWhenDown
<1>. QED
  BY <1>6, <1>7, <1>8, <1>9, <1>10, <1>11, <1>12 DEF IInv, TypeOK

\* The sending loop ends: the window is empty, or its report is outstanding.
LEMMA QuietStep ==
  ASSUME IInv, PumpWaits \/ PumpNothing
  PROVE  IInv'
<1>1. /\ UNCHANGED <<windowVars, controlVars, userVars, inVars, serverVars, netVars>>
      /\ commPC = "pump" /\ commPC' = "status"
      /\ waiting \/ Cells = {}
  BY DEF PumpWaits, PumpNothing, PumpEnds, Pumping, NothingToSend, netVars
<1>2. /\ UNCHANGED <<waiting, control, lastId, fails, clientId>>
      /\ UNCHANGED <<queueOut, connected, resets, exit, accepted>>
      /\ Cells' = Cells
  BY <1>1 DEF controlVars, userVars, windowVars, Cells
<1>3. Cells # {} => waiting /\ control.type = "report"
  BY <1>1 DEF IInv, WaitingHasControl, ControlFitsWindow
<1>4. WindowIsReported' /\ NothingHeldWhenDown'
  BY <1>1, <1>2, <1>3 DEF IInv, WindowIsReported, NothingHeldWhenDown
<1>5. /\ connected' \in BOOLEAN /\ resets' \in 0 .. ResetWrap - 1
      /\ exit' \in {"none", "set", "seen"} /\ clientId' \in Nat
  BY <1>2 DEF IInv, TypeOK, FlagTypeOK, UserTypeOK, CommTypeOK
<1>. QED
  BY <1>1, <1>2, <1>4, <1>5, CommKeepsWindow

\* Any step of the sending loop that sends a packet and keeps the cells.
LEMMA SendStep ==
  ASSUME IInv, commPC = "pump", commPC' = "pump",
         NEW p \in PacketType, toServer' = toServer \cup {p},
         UNCHANGED <<userVars, inVars, serverVars, toClient, wnd, resending, clientId>>,
         wndFirst' \in 1 .. NoId, wndLast' \in 1 .. NoId, wndCell' \in Nat,
         waiting' \in BOOLEAN, fails' \in 0 .. MaxFails, lastId' \in Ids,
         control' \in PacketType \cup {NoPacket},
         WaitingHasControl', ControlFitsWindow', WindowIsGrowing', ReportCoversWindow'
  PROVE  IInv'
<1>1. UNCHANGED <<queueOut, connected, resets, exit, accepted>> /\ Cells' = Cells
  BY DEF userVars, Cells
<1>2. FlagTypeOK' /\ CommTypeOK' /\ WindowTypeOK'
  BY <1>1 DEF IInv, TypeOK, FlagTypeOK, CommTypeOK, WindowTypeOK
<1>3. UserTypeOK' /\ NetTypeOK'
  BY <1>1 DEF IInv, TypeOK, UserTypeOK, NetTypeOK, inVars, serverVars
<1>4. WindowHasRoom' /\ WindowIsReported' /\ NothingHeldWhenDown'
  BY <1>1 DEF IInv, WindowHasRoom, WindowIsReported, NothingHeldWhenDown
<1>. QED
  BY <1>2, <1>3, <1>4 DEF IInv, TypeOK

\* The control packet is sent, or sent again.
LEMMA ControlStep ==
  ASSUME IInv, NEW expired \in BOOLEAN, PumpControl(expired)
  PROVE  IInv'
<1>1. /\ commPC = "pump" /\ commPC' = "pump" /\ control # NoPacket
      /\ waiting' = TRUE /\ fails' \in {BumpFails, fails}
      /\ toServer' = toServer \cup {control}
      /\ UNCHANGED <<userVars, inVars, serverVars, toClient, windowVars, control, lastId, clientId>>
  BY DEF PumpControl, Pumping, Send
<1>2. UNCHANGED <<wnd, wndCell, wndFirst, wndLast, resending>> /\ Cells' = Cells
  BY <1>1 DEF windowVars, Cells
<1>3. control \in PacketType /\ fails' \in 0 .. MaxFails
  BY <1>1, FailsType DEF IInv, TypeOK, CommTypeOK
<1>4. /\ wndFirst' \in 1 .. NoId /\ wndLast' \in 1 .. NoId /\ wndCell' \in Nat /\ lastId' \in Ids
      /\ control' \in PacketType \cup {NoPacket}
  BY <1>1, <1>2 DEF IInv, TypeOK, CommTypeOK, WindowTypeOK
<1>5. WaitingHasControl' /\ ControlFitsWindow' /\ WindowIsGrowing' /\ ReportCoversWindow'
  BY <1>1, <1>2, <1>3, NoPacketFacts
  DEF IInv, WaitingHasControl, ControlFitsWindow, WindowIsGrowing, ReportCoversWindow
<1>. QED
  BY <1>1, <1>2, <1>3, <1>4, <1>5, SendStep

\* A ping becomes the control packet when there is nothing else to send.
LEMMA PingStep ==
  ASSUME IInv, PumpPing
  PROVE  IInv'
<1>. DEFINE ping == Alive(IncPacketId(lastId), clientId)
<1>1. ping \in PacketType /\ ping.type = "alive" /\ IncPacketId(lastId) \in Ids
  BY IdFacts, PacketFacts DEF IInv, TypeOK, CommTypeOK
<1>2. /\ commPC = "pump" /\ commPC' = "pump" /\ Cells = {} /\ control' = ping
      /\ waiting' = TRUE /\ toServer' = toServer \cup {ping} /\ lastId' = IncPacketId(lastId)
      /\ UNCHANGED <<userVars, inVars, serverVars, toClient, windowVars, fails, clientId>>
  BY DEF PumpPing, Pumping, NothingToSend, Send
<1>3. UNCHANGED <<wnd, wndCell, wndFirst, wndLast, resending>> /\ Cells' = {}
  BY <1>2 DEF windowVars, Cells
<1>4. ~resending
  BY <1>2 DEF IInv, ReportCoversWindow
<1>5. /\ wndFirst' \in 1 .. NoId /\ wndLast' \in 1 .. NoId /\ wndCell' \in Nat /\ lastId' \in Ids
      /\ control' \in PacketType \cup {NoPacket} /\ fails' \in 0 .. MaxFails
  BY <1>1, <1>2, <1>3 DEF IInv, TypeOK, CommTypeOK, WindowTypeOK
<1>6. WaitingHasControl' /\ ControlFitsWindow' /\ WindowIsGrowing' /\ ReportCoversWindow'
  BY <1>1, <1>2, <1>3, <1>4, NoPacketFacts
  DEF WaitingHasControl, ControlFitsWindow, WindowIsGrowing, ReportCoversWindow
<1>. QED
  BY <1>1, <1>2, <1>3, <1>5, <1>6, SendStep

\* Resending walks over the cells that the server has reported lost.
LEMMA ResendStep ==
  ASSUME IInv, PumpResend
  PROVE  IInv'
<1>1. /\ commPC = "pump" /\ commPC' = "pump" /\ resending /\ Cells # {} /\ wndCell # LastCell
      /\ wndCell' = NextCell /\ toServer' = toServer \cup {wnd[NextCell]}
      /\ UNCHANGED <<userVars, inVars, serverVars, toClient, wnd, wndFirst, wndLast, resending,
                     controlVars>>
  BY DEF PumpResend, Pumping, Send
<1>2. UNCHANGED <<waiting, control, fails, lastId, clientId>> /\ Cells' = Cells
  BY <1>1 DEF controlVars, Cells
<1>3. NextCell \in Cells
  BY <1>1, CellFacts DEF IInv, WindowHasRoom, ReportCoversWindow
<1>4. wnd[NextCell] \in PacketType /\ wndCell' \in Nat
  BY <1>1, <1>3 DEF IInv, TypeOK, WindowTypeOK
<1>5. /\ wndFirst' \in 1 .. NoId /\ wndLast' \in 1 .. NoId /\ lastId' \in Ids
      /\ control' \in PacketType \cup {NoPacket} /\ fails' \in 0 .. MaxFails
  BY <1>1, <1>2 DEF IInv, TypeOK, CommTypeOK, WindowTypeOK
<1>6. waiting' \in BOOLEAN
  BY <1>2 DEF IInv, TypeOK, FlagTypeOK
<1>7. WaitingHasControl' /\ ControlFitsWindow' /\ WindowIsGrowing' /\ ReportCoversWindow'
  BY <1>1, <1>2, <1>3
  DEF IInv, WaitingHasControl, ControlFitsWindow, WindowIsGrowing, ReportCoversWindow
<1>. QED
  BY <1>1, <1>2, <1>4, <1>5, <1>6, <1>7, SendStep

\* Sending a report keeps the invariant when it covers the window.
LEMMA SendReportStep ==
  ASSUME IInv, NEW first \in 1 .. MaxId, NEW last \in 1 .. MaxId, SendReport(first, last),
         commPC = "pump",
         UNCHANGED <<userVars, inVars, serverVars, toClient, wnd, resending>>,
         wndFirst' = first, wndLast' = last, wndCell' \in {0, wndCell},
         first < MaxId, last < MaxId,
         Cells # {}, \A c \in Cells : wnd[c].id \in first .. last
  PROVE  IInv'
<1>. DEFINE report == Report(IncPacketId(lastId), clientId, first, last)
<1>1. first \in 0 .. MaxId /\ last \in 0 .. MaxId /\ first \in 1 .. NoId /\ last \in 1 .. NoId
  BY IdFacts DEF NoId
<1>2. /\ report \in PacketType /\ report.type = "report" /\ IncPacketId(lastId) \in Ids
      /\ report.id = IncPacketId(lastId) /\ report.first = first /\ report.last = last
  BY <1>1, IdFacts, PacketFacts DEF IInv, TypeOK, CommTypeOK
<1>3. /\ commPC' = "pump" /\ control' = report /\ waiting' = TRUE /\ lastId' = report.id
      /\ toServer' = toServer \cup {report} /\ UNCHANGED <<fails, clientId>>
  BY DEF SendReport, Send
<1>4. Cells' = Cells
  BY DEF Cells
<1>5. wndCell' \in Nat /\ lastId' \in Ids /\ fails' \in 0 .. MaxFails
  BY <1>2, <1>3 DEF IInv, TypeOK, CommTypeOK, WindowTypeOK
<1>6. WaitingHasControl' /\ ControlFitsWindow' /\ WindowIsGrowing' /\ ReportCoversWindow'
  BY <1>2, <1>3, <1>4, NoPacketFacts
  DEF IInv, WaitingHasControl, ControlFitsWindow, WindowIsGrowing, ReportCoversWindow
<1>. QED
  BY <1>1, <1>2, <1>3, <1>5, <1>6, SendStep

\* The first report of a window goes from its first to its last cell.
LEMMA ReportStep ==
  ASSUME IInv, NEW due \in BOOLEAN, PumpReport(due)
  PROVE  IInv'
<1>. DEFINE first == wnd[FirstCell].id
            last == wnd[LastCell].id
<1>1. /\ commPC = "pump" /\ Cells # {}
      /\ wndFirst' = first /\ wndLast' = last
      /\ UNCHANGED <<userVars, inVars, serverVars, toClient, wnd, wndCell, resending>>
      /\ first < MaxId /\ last < MaxId => SendReport(first, last)
  BY DEF PumpReport, Pumping, Unbusy
<1>2. /\ FirstCell \in Cells /\ LastCell \in Cells
      /\ \A c \in Cells : FirstCell <= c /\ c <= LastCell
  BY <1>1, CellFacts DEF IInv, WindowHasRoom
<1>3. \A c \in Cells : wnd[c].id \in Ids /\ c \in 1 .. WndMaxCount
  BY DEF IInv, TypeOK, WindowTypeOK, PacketType, WindowHasRoom
<1>4. \A c \in Cells : wnd[c].id < MaxId
  BY <1>3, TransportAssumption DEF IInv, WindowHasRoom, Ids
<1>5. \A c \in Cells : wnd[c].id \in first .. last
  <2>. TAKE c \in Cells
  <2>1. wnd[c].id - first = c - FirstCell /\ last - wnd[c].id = LastCell - c
    BY <1>2 DEF IInv, WindowHasRoom
  <2>. QED BY <1>2, <1>3, <2>1 DEF Ids
<1>6. /\ first \in 1 .. MaxId /\ last \in 1 .. MaxId /\ SendReport(first, last)
      /\ first < MaxId /\ last < MaxId
  BY <1>1, <1>2, <1>3, <1>4 DEF Ids
<1>. QED
  BY <1>1, <1>5, <1>6, SendReportStep

\* The report after a resending repeats the limits of the first one.
LEMMA ResendReportStep ==
  ASSUME IInv, PumpResendReport
  PROVE  IInv'
<1>1. /\ commPC = "pump" /\ Cells # {} /\ resending
      /\ UNCHANGED <<userVars, inVars, serverVars, toClient>>
  BY DEF PumpResendReport, Pumping
<1>2. \A c \in Cells : wnd[c].id \in wndFirst .. wndLast
  BY <1>1 DEF IInv, ReportCoversWindow
<1>3. wndFirst < MaxId /\ wndLast < MaxId
  BY <1>1 DEF IInv, ControlFitsWindow
<1>4. /\ wndCell' = 0 /\ SendReport(wndFirst, wndLast)
      /\ UNCHANGED <<wnd, wndFirst, wndLast, resending>>
  BY <1>3 DEF PumpResendReport
<1>5. wndFirst \in 1 .. MaxId /\ wndLast \in 1 .. MaxId
  BY <1>3, IdFacts DEF IInv, TypeOK, WindowTypeOK, NoId
<1>. QED
  BY <1>1, <1>2, <1>3, <1>4, <1>5, SendReportStep

\* A data packet joins the window with the next ID, or with ID 1 when the empty
\* window starts over.
LEMMA DataStep ==
  ASSUME IInv, NEW due \in BOOLEAN, PumpData(due)
  PROVE  IInv'
<1>. DEFINE p == Data(DataId, clientId, Head(queueOut))
            new == IF Cells = {} THEN 1 ELSE LastCell + 1
<1>1. /\ commPC = "pump" /\ commPC' = "pump" /\ ~waiting /\ control = NoPacket /\ ~resending
      /\ Cells = {} \/ WndCount < WndMaxCount
      /\ queueOut # <<>> /\ queueOut' = Tail(queueOut)
      /\ wnd' = WndAdd(p) /\ toServer' = toServer \cup {p} /\ lastId' = DataId
      /\ UNCHANGED <<wndCell, wndFirst, wndLast, resending, waiting, control, fails,
                     clientId, connected, resets, exit, accepted, inVars, serverVars, toClient>>
  BY DEF PumpData, PullFirst, Unbusy, Send
<1>2. Head(queueOut) \in Nat /\ queueOut' \in Seq(Nat)
  BY <1>1 DEF IInv, TypeOK, UserTypeOK
<1>3. DataId \in Ids /\ lastId \in Ids /\ clientId \in Nat
  BY IdFacts, TransportAssumption DEF DataId, Ids, IInv, TypeOK, CommTypeOK
<1>4. p \in PacketType /\ p.id = DataId
  BY <1>2, <1>3, PacketFacts
<1>5. /\ Cells' = Cells \cup {new} /\ wnd'[new] = p
      /\ \A c \in Cells : c # new => wnd'[c] = wnd[c]
  BY <1>1 DEF WndAdd, Cells
<1>6. ASSUME Cells = {}
      PROVE  new \in Nat /\ WindowHasRoom' /\ WindowIsGrowing'
  <2>1. new = 1 /\ Cells' = 1 .. 1 /\ wnd'[1] = p
    BY <1>5, <1>6
  <2>2. DataId + WndMaxCount < MaxId + 1
    BY <1>3, <1>6, TransportAssumption DEF DataId, IncPacketId, Ids
  <2>3. WindowHasRoom'
    BY <1>3, <1>4, <2>1, <2>2, TransportAssumption DEF WindowHasRoom, Ids
  <2>4. WindowIsGrowing'
    <3>1. 1 \in 1 .. WndMaxCount
      BY TransportAssumption
    <3>. QED
      BY <1>1, <1>4, <2>1, <3>1 DEF WindowIsGrowing
  <2>. QED BY <2>1, <2>3, <2>4
<1>7. ASSUME Cells # {}
      PROVE  new \in Nat /\ WindowHasRoom' /\ WindowIsGrowing'
  <2>1. PICK k \in 1 .. WndMaxCount : Cells = 1 .. k /\ lastId = wnd[k].id
    BY <1>1, <1>7 DEF IInv, WindowIsGrowing
  <2>2. LastCell = k /\ WndCount = k
    BY <2>1, GapFreeWindow
  <2>3. new = k + 1 /\ k < WndMaxCount
    BY <1>1, <1>7, <2>2
  <2>4. k \in Nat /\ k + 1 \in 1 .. WndMaxCount /\ new \in Nat
    BY <2>3, TransportAssumption
  <2>5. Cells' = 1 .. (k + 1)
    <3>1. Cells' = (1 .. k) \cup {k + 1}
      BY <1>5, <2>1, <2>3
    <3>. QED BY <2>4, <3>1
  <2>6. wnd[k].id + WndMaxCount < MaxId + k /\ wnd[k].id \in Nat
    BY <1>3, <2>1 DEF IInv, WindowHasRoom, Ids
  <2>7. DataId = wnd[k].id + 1
    <3>1. DataId = IncPacketId(wnd[k].id)
      BY <1>7, <2>1 DEF DataId
    <3>2. wnd[k].id + 1 <= MaxId
      BY <2>3, <2>4, <2>6, TransportAssumption
    <3>. QED BY <2>6, <3>1, <3>2, IdFacts DEF IncPacketId
  <2>8. wnd'[k + 1].id = wnd[k].id + 1 /\ \A c \in 1 .. k : wnd'[c] = wnd[c]
    BY <1>4, <1>5, <2>1, <2>3, <2>4, <2>7
  <2>9. \A c \in 1 .. (k + 1) : wnd'[c].id = wnd[k].id + (c - k)
    <3>1. \A c \in 1 .. k : wnd[c].id \in Int /\ wnd[c].id - wnd[k].id = c - k
      BY <2>1 DEF IInv, WindowHasRoom, TypeOK, WindowTypeOK, PacketType, Ids
    <3>2. ASSUME NEW c \in 1 .. (k + 1)
          PROVE  wnd'[c].id = wnd[k].id + (c - k)
      <4>1. CASE c = k + 1
        BY <2>4, <2>6, <2>8, <4>1
      <4>2. CASE c \in 1 .. k
        BY <2>4, <2>6, <2>8, <3>1, <4>2
      <4>. QED BY <2>4, <4>1, <4>2
    <3>. QED BY <3>2
  <2>10. WindowHasRoom'
    <3>1. Cells' \subseteq 1 .. WndMaxCount
      BY <2>3, <2>4, <2>5, TransportAssumption
    <3>2. ASSUME NEW c \in Cells', NEW d \in Cells'
          PROVE  wnd'[d].id - wnd'[c].id = d - c /\ wnd'[c].id + WndMaxCount < MaxId + c
      <4>1. c \in 1 .. (k + 1) /\ d \in 1 .. (k + 1)
        BY <2>5
      <4>2. wnd'[c].id = wnd[k].id + (c - k) /\ wnd'[d].id = wnd[k].id + (d - k)
        BY <2>9, <4>1
      <4>. QED BY <2>4, <2>6, <4>1, <4>2, TransportAssumption
    <3>. QED BY <3>1, <3>2 DEF WindowHasRoom
  <2>11. WindowIsGrowing'
    BY <1>1, <2>4, <2>5, <2>7, <2>8 DEF WindowIsGrowing
  <2>. QED BY <2>4, <2>10, <2>11
<1>8. CommTypeOK' /\ FlagTypeOK'
  BY <1>1, <1>3 DEF IInv, TypeOK, CommTypeOK, FlagTypeOK
<1>9. WindowTypeOK'
  BY <1>1, <1>4, <1>5, <1>6, <1>7 DEF IInv, TypeOK, WindowTypeOK
<1>10. UserTypeOK' /\ NetTypeOK'
  BY <1>1, <1>2, <1>4 DEF IInv, TypeOK, UserTypeOK, NetTypeOK, inVars, serverVars
<1>11. /\ WaitingHasControl' /\ ControlFitsWindow' /\ ReportCoversWindow' /\ WindowIsReported'
       /\ NothingHeldWhenDown'
  BY <1>1, NoPacketFacts
  DEF IInv, WaitingHasControl, ControlFitsWindow, ReportCoversWindow, WindowIsReported,
      NothingHeldWhenDown
<1>. QED
  BY <1>6, <1>7, <1>8, <1>9, <1>10, <1>11 DEF IInv, TypeOK

-----------------------------------------------------------------------------
(* The theorems.                                                           *)

\* Every step of every thread, of the network and of the server keeps the
\* invariant.
LEMMA IInvStep ==
  ASSUME IInv, [Next]_vars
  PROVE  IInv'
<1>1. CASE Sent \/ SetExit \/ Dispatch
  BY <1>1, UserStep
<1>2. CASE Server
  BY <1>2, ServerStep
<1>3. CASE CommWait \/ CommExitPending \/ CommStatusKept \/ CommEstablish \/ CommDisconnect
  BY <1>3, WaitAndStatusSteps
<1>4. CASE CommBye
  BY <1>4, ByeStep
<1>5. CASE CommDrop
  BY <1>5, DropStep
<1>6. CASE Recv
  <2>1. CASE RecvNothing
    BY <2>1, WaitAndStatusSteps
  <2>2. CASE RecvDamaged
    BY <2>2, DamagedStep
  <2>3. ASSUME NEW m \in toClient,
               RecvIgnored(m) \/ RecvAck(m) \/ RecvRefusal(m) \/ RecvServerReport(m)
        PROVE  IInv'
    BY <2>3, IgnoredStep, AckStep, RefusalStep, ServerReportStep
  <2>. QED BY <1>6, <2>1, <2>2, <2>3 DEF Recv
<1>7. CASE Pump
  <2>1. CASE PumpWaits \/ PumpNothing
    BY <2>1, QuietStep
  <2>2. ASSUME NEW late \in BOOLEAN, PumpControl(late) \/ PumpReport(late) \/ PumpData(late)
        PROVE  IInv'
    BY <2>2, ControlStep, ReportStep, DataStep
  <2>3. CASE PumpResend \/ PumpResendReport \/ PumpPing
    BY <2>3, ResendStep, ResendReportStep, PingStep
  <2>. QED BY <1>7, <2>1, <2>2, <2>3 DEF Pump
<1>8. CASE UNCHANGED vars
  <2>1. UNCHANGED <<commPC, windowVars, controlVars, queueOut, connected>>
    BY <1>8 DEF vars, userVars
  <2>2. UserTypeOK' /\ NetTypeOK'
    BY <1>8 DEF vars, userVars, inVars, serverVars, netVars, IInv, TypeOK, UserTypeOK, NetTypeOK
  <2>. QED BY <2>1, <2>2, OutsideStep
<1>. QED
  BY <1>1, <1>2, <1>3, <1>4, <1>5, <1>6, <1>7, <1>8 DEF Next, Comm

\* The invariant holds in every reachable state.
THEOREM Invariant == Spec => []IInv
<1>1. Init => IInv
  BY InitIInv
<1>2. IInv /\ [Next]_vars => IInv'
  BY IInvStep
<1>. QED BY <1>1, <1>2, PTL DEF Spec

\* The variables of the client, the network and the server have their types: in
\* particular every ID that leaves the client is in 1 .. TPACKET_MAX_ID and the
\* failure count stays within COMMUNICATION_MAX_DELIVERY_FAILS.
THEOREM TypeCorrect == Spec => []TypeOK
<1>1. IInv => TypeOK
  BY DEF IInv
<1>. QED BY <1>1, Invariant, PTL

\* Process_Incoming_Packet never follows a NULL m_pPacket_Control: whenever a
\* response is awaited the control packet is there, and is one the server answers.
THEOREM ControlIsThere == Spec => []WaitingHasControl
<1>1. IInv => WaitingHasControl
  BY DEF IInv
<1>. QED BY <1>1, Invariant, PTL

\* The IDs inside the window are sequential and in range, for every window size
\* and ID range, over any number of wraps of the ID counter: the IDs of a window
\* never straddle the restart at 1.
THEOREM IdsInWindowAreSequential == Spec => []WindowSequential
<1>1. IInv => WindowSequential
  <2>1. ASSUME IInv, NEW c \in Cells
        PROVE  wnd[c].id < MaxId
    <3>1. wnd[c].id \in Nat /\ c \in 1 .. WndMaxCount /\ wnd[c].id + WndMaxCount < MaxId + c
      BY <2>1 DEF IInv, WindowHasRoom, TypeOK, WindowTypeOK, PacketType, Ids
    <3>. QED BY <3>1, TransportAssumption
  <2>. QED BY <2>1 DEF IInv, WindowHasRoom, WindowSequential
<1>. QED BY <1>1, Invariant, PTL

\* A window report names every packet the window still holds, at its first
\* sending and after every round of resending.
THEOREM ReportIsComplete == Spec => []ReportCoversWindow
<1>1. IInv => ReportCoversWindow
  BY DEF IInv
<1>. QED BY <1>1, Invariant, PTL

\* The communication thread never leaves the sending loop with packets in the
\* window that no report announces.
THEOREM NoSilentWindow == Spec => []WindowIsReported
<1>1. IInv => WindowIsReported
  BY DEF IInv
<1>. QED BY <1>1, Invariant, PTL

\* A client that is disconnected holds neither queued nor sent packets, although
\* Set_Connected and Reset_Connetion take m_hCS_User one after the other.
THEOREM NothingLeaksIntoReconnect == Spec => []NothingHeldWhenDown
<1>1. IInv => NothingHeldWhenDown
  BY DEF IInv
<1>. QED BY <1>1, Invariant, PTL

-----------------------------------------------------------------------------
(* What is known of the datagrams on their way, as long as no ID is drawn  *)
(* twice.                                                                  *)

\* TPACKET_MAX_ID and the IDs left for a last window are not reached.
IdsSuffice == IdBound + WndMaxCount + IdReserve <= MaxId

\* The packets that the client has made; the control packet may not be sent yet.
Made == {p \in toServer \cup {control} : p # NoPacket}

\* An ID stands for one packet, which is made before the next ID is drawn.
IdsIdentifyPackets ==
  /\ \A p \in Made : p.id <= lastId
  /\ \A p, q \in Made : p.id = q.id => p = q
  /\ \A c \in Cells : wnd[c] \in toServer /\ wnd[c].type = "data"
  /\ waiting \/ control.type \in {"alive", "report"} => control \in toServer

\* A report is made after the packets it is about.
ReportsLookBack ==
  /\ \A p \in Made : p.type = "report" => p.last < p.id
  /\ control.type = "report" \/ resending => wndLast <= lastId

\* The data packets that were pulled are the ones before those that are queued.
Pulled == accepted - Len(queueOut)

QueueInOrder ==
  /\ Len(queueOut) <= accepted
  /\ \A i \in DOMAIN queueOut : queueOut[i] = Pulled + i
  /\ \A p \in toServer : p.type = "data" => p.data \in 1 .. Pulled

\* The window holds packets that follow one another, and until it is resent the
\* last one it holds is the one pulled last.
WindowInOrder ==
  /\ \A c, d \in Cells : wnd[d].data - wnd[c].data = d - c
  /\ ~resending => \A c \in Cells : c + 1 \notin Cells => wnd[c].data = Pulled

\* What the server has got was sent, and has been received.
GotWasSent ==
  \A g \in srvGot :
    g[2] \in received /\ \E p \in toServer : p.type = "data" /\ p.id = g[1] /\ p.data = g[2]

\* An answer is to a packet that was sent.  One to a report tells the truth: what it
\* does not name as lost has been received.
IsTrue(m) ==
  /\ \E p \in toServer : p.id = m.src /\ (m.type = "lost" => p.type = "report")
  /\ \A p, q \in toServer :
       /\ p.id = m.src /\ p.type = "report" /\ (m.type = "lost" \/ m.result)
       /\ q.type = "data" /\ q.id \in p.first .. p.last
       => (m.type = "lost" /\ q.id \in m.lost) \/ q.data \in received

AnswersAreTrue == \A m \in toClient : IsTrue(m)

HInv ==
  /\ IdsIdentifyPackets /\ ReportsLookBack /\ QueueInOrder /\ WindowInOrder
  /\ GotWasSent /\ AnswersAreTrue /\ IdsFollowQueue

\* The newest hello was acknowledged before anything else was sent after it.
Acknowledged(h) == \E m \in toClient : m.type = "ack" /\ m.src = h.id /\ m.result
NeedsHello(p) == p.type \in {"data", "report", "alive"}

HelloInv ==
  /\ HelloIsAnswered
  /\ IF control.type = "hello"
     THEN \A p \in toServer : p.type = "hello" \/ NeedsHello(p) => p.id <= control.id
     ELSE \E h \in toServer :
            /\ h.type = "hello" /\ Acknowledged(h)
            /\ \A g \in toServer : g.type = "hello" => g.id <= h.id

\* The answers kept are to control packets before the present one.
Kept == dispatched \o queueIn

DispatchInv ==
  /\ DispatchedOnce
  /\ \A i \in DOMAIN Kept : Kept[i] <= lastId /\ (control # NoPacket => Kept[i] < control.id)

\* A reset draws an ID, and so does each of the two resets of a reconnection.
ResetsSuffice == 2 * IdBound <= ResetWrap

\* The reset that Set_Connected(TRUE) will count
Owed == IF connected \/ commPC = "drop" THEN 0 ELSE 1

ByeInv ==
  /\ lastId = 1 \/ lastId <= IdBound
  /\ resets + Owed <= 2 * lastId - 2
  /\ resets = 0 => 1 .. accepted \subseteq Held \cup received
  /\ (\E p \in toServer : p.type = "bye") => exit # "none" /\ commPC = "done"
  /\ ByeAfterDelivery

-----------------------------------------------------------------------------
(* Facts about the history.                                                *)

\* The next ID is the successor of the last one, for data too.
LEMMA NextId ==
  ASSUME IInv, IdsSuffice, CanDraw
  PROVE  /\ IncPacketId(lastId) = lastId + 1 /\ DataId = lastId + 1
         /\ lastId \in Ids /\ lastId \in Nat /\ lastId + 1 \in Ids
<1>1. lastId \in Nat /\ lastId >= 1 /\ IdBound \in Nat /\ WndMaxCount \in Nat /\ IdReserve \in Nat /\ MaxId \in Nat
  BY TransportAssumption DEF IInv, TypeOK, CommTypeOK, Ids
<1>2. lastId < IdBound /\ lastId + 1 <= MaxId
  BY <1>1, TransportAssumption DEF CanDraw, IdsSuffice
<1>3. ~(lastId + WndMaxCount + IdReserve >= MaxId)
  BY <1>1, <1>2 DEF IdsSuffice
<1>. QED
  BY <1>1, <1>2, <1>3 DEF IncPacketId, DataId, Ids

\* The packets made so far have IDs and the numbers of the types.
LEMMA MadeFacts ==
  ASSUME IInv, NEW p \in Made
  PROVE  p \in PacketType /\ p.id \in Nat /\ p.first \in Nat /\ p.last \in Nat /\ p.data \in Nat
<1>1. p \in PacketType
  BY NoPacketFacts DEF Made, IInv, TypeOK, NetTypeOK, CommTypeOK
<1>. QED BY <1>1, TransportAssumption DEF PacketType, Ids

LEMMA SentIsMade ==
  ASSUME IInv
  PROVE  toServer \subseteq Made /\ (control # NoPacket => control \in Made)
BY NoPacketFacts DEF Made, IInv, TypeOK, NetTypeOK

-----------------------------------------------------------------------------
(* What a step may do to the history, in five kinds.                       *)

outsideVars == <<toClient, srvGot, received, accepted>>
linkVars    == <<connected, resets, exit>>

\* The client makes and answers nothing; a user may queue a packet.
Quiet ==
  /\ UNCHANGED <<toServer, control, lastId, wnd, wndLast, resending>>
  /\ waiting' => waiting
  /\ \/ UNCHANGED <<queueOut, accepted>>
     \/ Sent
  /\ (UNCHANGED outsideVars) \/ Server \/ Sent
  /\ (UNCHANGED <<connected, resets>>) \/ CommEstablish \/ CommDisconnect

\* The awaited answer m is there: it acknowledges the window, or names what is lost.
Answered(m) ==
  /\ waiting /\ m.src = control.id
  /\ control' = NoPacket /\ ~waiting'
  /\ UNCHANGED <<toServer, lastId, queueOut, outsideVars, linkVars>>
  /\ \/ m.type = "ack" /\ m.result /\ Cells' = {} /\ ~resending'
     \/ /\ m.type = "lost" /\ UNCHANGED wndLast
        /\ Cells' = {c \in Cells : wnd[c].id \in m.lost}
        /\ \A c \in Cells' : wnd'[c] = wnd[c]
        /\ resending' <=> Cells' # {}

\* Window and queue are dropped, and a hello is made.
Restarted ==
  /\ Cells' = {} /\ ~resending' /\ ~waiting'
  /\ queueOut' = <<>> /\ resets' = (resets + 1) % ResetWrap
  /\ lastId' = lastId + 1 /\ lastId < IdBound
  /\ \E cid \in Nat : control' = Hello(lastId + 1, cid)
  /\ UNCHANGED <<toServer, outsideVars, connected, exit>>

\* A packet is sent that was made before.
Repeated(p) ==
  /\ p \in Made /\ toServer' = toServer \cup {p}
  /\ waiting' => waiting \/ p = control
  /\ UNCHANGED <<control, lastId, wnd, wndLast, resending, queueOut, outsideVars, linkVars>>

\* A packet gets the next ID and is sent: a bye, a ping, a report or data.
MadeBye(p) ==
  /\ p.type = "bye"
  /\ commPC = "wait" /\ commPC' = "done" /\ exit # "none" /\ IsReadyToExit
  /\ UNCHANGED <<control, waiting, wnd, wndLast, resending, queueOut>>

MadeControl(p) ==
  /\ control = NoPacket /\ control' = p
  /\ \/ p.type = "alive" /\ UNCHANGED wndLast
     \/ p.type = "report" /\ p.last = wndLast' /\ p.last <= lastId
  /\ UNCHANGED <<wnd, resending, queueOut>>

MadeData(p) ==
  /\ control = NoPacket /\ ~resending
  /\ p.type = "data" /\ queueOut # <<>> /\ p.data = Head(queueOut) /\ queueOut' = Tail(queueOut)
  /\ \E k \in Nat :
       /\ Cells = 1 .. k /\ Cells' = 1 .. (k + 1)
       /\ wnd'[k + 1] = p /\ \A c \in 1 .. k : wnd'[c] = wnd[c]
  /\ UNCHANGED <<control, waiting, wndLast, resending>>

MadePacket(p) ==
  /\ p \in PacketType /\ p.id = lastId + 1 /\ lastId' = lastId + 1 /\ lastId < IdBound
  /\ toServer' = toServer \cup {p}
  /\ UNCHANGED <<outsideVars, linkVars>>
  /\ MadeBye(p) \/ MadeControl(p) \/ MadeData(p)

Effect ==
  \/ Quiet \/ Restarted
  \/ \E m \in toClient : Answered(m)
  \/ \E p \in Made : Repeated(p)
  \/ \E p \in PacketType : MadePacket(p)

\* Steps of others, and those of the communication thread that leave window and control
\* packet as they are
LEMMA QuietEffect ==
  ASSUME \/ Sent \/ SetExit \/ Dispatch \/ Server \/ UNCHANGED vars
         \/ CommWait \/ CommExitPending \/ CommStatusKept \/ CommEstablish \/ CommDisconnect
         \/ RecvNothing \/ RecvDamaged \/ (\E m \in toClient : RecvIgnored(m))
         \/ PumpWaits \/ PumpNothing
  PROVE  Quiet
<1>1. CASE Sent
  BY <1>1 DEF Sent, PushLast, Quiet, windowVars, controlVars, netVars
<1>2. CASE Server
  <2>1. UNCHANGEDClient
    BY <1>2 DEF Server, SrvHello, SrvData, SrvReport, SrvAlive, SrvRestart
  <2>2. UNCHANGED <<toServer, control, lastId, wnd, wndLast, resending, waiting, queueOut, accepted>>
    BY <2>1 DEF UNCHANGEDClient, windowVars, controlVars, userVars
  <2>3. UNCHANGED <<connected, resets>>
    BY <2>1 DEF UNCHANGEDClient, userVars
  <2>. QED BY <1>2, <2>2, <2>3 DEF Quiet
<1>3. CASE SetExit \/ Dispatch \/ UNCHANGED vars
  BY <1>3 DEF SetExit, Dispatch, vars, Quiet, outsideVars, windowVars, controlVars, userVars, serverVars, netVars
<1>4. CASE CommWait \/ CommExitPending \/ CommStatusKept \/ CommEstablish \/ CommDisconnect
  BY <1>4 DEF CommWait, CommExitPending, CommStatusKept, CommEstablish, CommDisconnect, Quiet, outsideVars,
     windowVars, controlVars, userVars, serverVars, netVars
<1>5. CASE RecvNothing \/ RecvDamaged \/ (\E m \in toClient : RecvIgnored(m))
  BY <1>5 DEF RecvNothing, RecvDamaged, RecvIgnored, Quiet, outsideVars,
     windowVars, controlVars, userVars, serverVars, netVars
<1>6. CASE PumpWaits \/ PumpNothing
  BY <1>6 DEF PumpWaits, PumpNothing, Pumping, PumpEnds, Quiet, outsideVars,
     windowVars, controlVars, userVars, serverVars
<1>. QED BY <1>1, <1>2, <1>3, <1>4, <1>5, <1>6

\* The answers that are taken
LEMMA AnswerEffect ==
  ASSUME IInv, NEW m \in toClient, RecvAck(m) \/ RecvServerReport(m)
  PROVE  Answered(m)
<1>1. /\ waiting /\ m.src = control.id /\ control' = NoPacket /\ ~waiting'
      /\ UNCHANGED <<toServer, lastId, queueOut, outsideVars, linkVars>>
  BY DEF RecvAck, RecvServerReport, Answers, AnswerTaken, outsideVars, linkVars, userVars, serverVars, netVars
<1>2. CASE RecvAck(m)
  <2>1. ASSUME control.type = "report"
        PROVE  Cells' = {} /\ ~resending'
    <3>1. wnd' = EmptyWnd /\ resending' = FALSE
      BY <1>2, <2>1 DEF RecvAck
    <3>. QED BY <3>1 DEF Cells, EmptyWnd
  <2>2. ASSUME control.type # "report"
        PROVE  Cells' = {} /\ ~resending'
    <3>1. Cells = {} /\ ~resending
      BY <1>1, <2>2 DEF IInv, WaitingHasControl, ControlFitsWindow, ReportCoversWindow
    <3>2. wnd' = wnd /\ resending' = resending
      BY <1>2, <2>2 DEF RecvAck
    <3>. QED BY <3>1, <3>2 DEF Cells
  <2>. QED BY <1>1, <1>2, <2>1, <2>2 DEF RecvAck, Answered
<1>3. CASE RecvServerReport(m)
  <2>1. wnd' = WndKeep(m.lost) /\ resending' = (WndIds \cap m.lost # {}) /\ UNCHANGED wndLast /\ m.type = "lost"
    BY <1>3 DEF RecvServerReport
  <2>2. Cells' = {c \in Cells : wnd[c].id \in m.lost} /\ \A c \in Cells' : wnd'[c] = wnd[c]
    BY <2>1 DEF WndKeep, Cells
  <2>3. resending' <=> Cells' # {}
    <3>1. WndIds \cap m.lost # {} <=> {c \in Cells : wnd[c].id \in m.lost} # {}
      BY DEF WndIds
    <3>. QED BY <2>1, <2>2, <3>1
  <2>. QED BY <1>1, <2>1, <2>2, <2>3 DEF Answered
<1>. QED BY <1>2, <1>3

\* Reset_Connetion
LEMMA RestartEffect ==
  ASSUME IInv, IdsSuffice, CommDrop \/ (\E m \in toClient : RecvRefusal(m))
  PROVE  Restarted
<1>1. PICK cid \in Nat : ResetConnection(cid)
  BY AnswerFacts DEF CommDrop, RecvRefusal, IInv, TypeOK, CommTypeOK
<1>2. UNCHANGED <<toServer, outsideVars, connected, exit>>
  BY DEF CommDrop, RecvRefusal, outsideVars, serverVars, netVars
<1>3. IncPacketId(lastId) = lastId + 1 /\ lastId < IdBound
  BY <1>1, NextId DEF ResetConnection, CanDraw
<1>. QED
  BY <1>1, <1>2, <1>3 DEF ResetConnection, DrainQueue, Restarted, Cells, EmptyWnd

\* A control packet or a data packet is sent once more, or a hello for the first time
LEMMA RepeatEffect ==
  ASSUME IInv, IdsIdentifyPackets, PumpResend \/ (\E late \in BOOLEAN : PumpControl(late))
  PROVE  \E p \in Made : Repeated(p)
<1>1. UNCHANGED <<outsideVars, linkVars, queueOut, control, lastId, wnd, wndLast, resending>>
  BY DEF PumpResend, PumpControl, Pumping, userVars, serverVars, windowVars, controlVars, outsideVars, linkVars
<1>2. CASE PumpResend
  <2>1. resending /\ wndCell # LastCell /\ toServer' = toServer \cup {wnd[NextCell]} /\ waiting' = waiting
    BY <1>2 DEF PumpResend, Send, controlVars
  <2>2. wnd[NextCell] \in Made
    <3>1. NextCell \in Cells
      BY <2>1, CellFacts DEF IInv, WindowHasRoom, ReportCoversWindow
    <3>. QED BY <3>1, SentIsMade DEF IdsIdentifyPackets
  <2>. QED BY <1>1, <2>1, <2>2 DEF Repeated
<1>3. CASE \E late \in BOOLEAN : PumpControl(late)
  <2>1. control # NoPacket /\ toServer' = toServer \cup {control}
    BY <1>3 DEF PumpControl, Send
  <2>2. control \in Made
    BY <2>1, SentIsMade
  <2>. QED BY <1>1, <2>1, <2>2 DEF Repeated
<1>. QED BY <1>2, <1>3

\* What a step that makes a control packet shows to the rest of the proof
LEMMA MadeControlEffect ==
  ASSUME IInv, IdsSuffice, NEW p \in PacketType, p.id = IncPacketId(lastId), CanDraw, lastId' = p.id,
         Send(p), Unbusy, Pumping, UNCHANGED <<wnd, resending>>, control' = p,
         \/ p.type = "alive" /\ UNCHANGED wndLast
         \/ p.type = "report" /\ p.last = wndLast' /\ p.last <= lastId
  PROVE  MadePacket(p)
<1>1. p.id = lastId + 1 /\ lastId < IdBound
  BY NextId DEF CanDraw
<1>2. UNCHANGED <<outsideVars, linkVars, queueOut>> /\ control = NoPacket
  BY DEF Pumping, Unbusy, userVars, serverVars, outsideVars, linkVars
<1>3. MadeControl(p)
  BY <1>2 DEF MadeControl
<1>. QED BY <1>1, <1>2, <1>3 DEF MadePacket, Send

\* Data leaves the queue for the next cell of the window
LEMMA MadeDataEffect ==
  ASSUME IInv, IdsSuffice, NEW due \in BOOLEAN, PumpData(due)
  PROVE  \E p \in PacketType : MadePacket(p)
<1>. DEFINE p == Data(DataId, clientId, Head(queueOut))
            new == IF Cells = {} THEN 1 ELSE LastCell + 1
<1>1. /\ ~waiting /\ control = NoPacket /\ ~resending
      /\ queueOut # <<>> /\ queueOut' = Tail(queueOut)
      /\ wnd' = WndAdd(p) /\ toServer' = toServer \cup {p} /\ lastId' = DataId /\ CanDraw
      /\ UNCHANGED <<wndLast, resending, waiting, control, connected, resets, exit, accepted,
                     serverVars, toClient>>
  BY DEF PumpData, PullFirst, Unbusy, Send
<1>2. Head(queueOut) \in Nat /\ clientId \in Nat
  BY <1>1 DEF IInv, TypeOK, UserTypeOK, CommTypeOK
<1>3. DataId = lastId + 1 /\ lastId < IdBound /\ DataId \in Ids
  BY <1>1, NextId DEF CanDraw
<1>4. p \in PacketType /\ p.id = lastId + 1 /\ p.type = "data" /\ p.data = Head(queueOut)
  BY <1>2, <1>3, PacketFacts DEF Data, Packet
<1>5. /\ Cells' = Cells \cup {new} /\ wnd'[new] = p
      /\ \A c \in Cells : c # new => wnd'[c] = wnd[c]
  BY <1>1 DEF WndAdd, Cells
<1>6. \E k \in Nat : Cells = 1 .. k /\ new = k + 1
  <2>1. CASE Cells = {}
    <3>1. Cells = 1 .. 0 /\ new = 0 + 1
      BY <2>1
    <3>. QED BY <3>1
  <2>2. CASE Cells # {}
    <3>1. PICK k \in 1 .. WndMaxCount : Cells = 1 .. k
      BY <1>1, <2>2 DEF IInv, WindowIsGrowing
    <3>. QED BY <2>2, <3>1, GapFreeWindow, TransportAssumption
  <2>. QED BY <2>1, <2>2
<1>7. PICK k \in Nat : Cells = 1 .. k /\ new = k + 1
  BY <1>6
<1>8. Cells' = 1 .. (k + 1) /\ wnd'[k + 1] = p /\ \A c \in 1 .. k : wnd'[c] = wnd[c]
  <2>1. Cells' = (1 .. k) \cup {k + 1}
    BY <1>5, <1>7
  <2>2. (1 .. k) \cup {k + 1} = 1 .. (k + 1)
    BY <1>7
  <2>. QED BY <1>5, <1>7, <2>1, <2>2
<1>9. MadeData(p)
  BY <1>1, <1>4, <1>7, <1>8 DEF MadeData
<1>10. UNCHANGED <<outsideVars, linkVars>>
  BY <1>1 DEF outsideVars, linkVars, serverVars
<1>. QED BY <1>1, <1>3, <1>4, <1>9, <1>10 DEF MadePacket

\* Every step that draws an ID for a packet and sends it
LEMMA MadeEffect ==
  ASSUME IInv, IdsIdentifyPackets, ReportsLookBack, IdsSuffice,
         \/ CommBye \/ PumpPing \/ PumpResendReport
         \/ \E late \in BOOLEAN : PumpReport(late) \/ PumpData(late)
  PROVE  \E p \in PacketType : MadePacket(p)
<1>1. clientId \in Nat /\ lastId \in Ids /\ IncPacketId(lastId) \in Ids
  BY IdFacts DEF IInv, TypeOK, CommTypeOK
<1>2. CASE CommBye
  <2>. DEFINE p == Bye(IncPacketId(lastId), clientId)
  <2>1. p \in PacketType /\ p.type = "bye" /\ p.id = IncPacketId(lastId)
    BY <1>1, PacketFacts DEF Bye, Packet
  <2>2. p.id = lastId + 1 /\ lastId < IdBound /\ lastId' = p.id /\ toServer' = toServer \cup {p}
    BY <1>2, <2>1, NextId DEF CommBye, CanDraw, Send
  <2>3. MadeBye(p)
    BY <1>2, <2>1 DEF CommBye, MadeBye, windowVars, userVars
  <2>4. UNCHANGED <<outsideVars, linkVars>>
    BY <1>2 DEF CommBye, outsideVars, linkVars, userVars, serverVars
  <2>. QED BY <2>1, <2>2, <2>3, <2>4 DEF MadePacket
<1>3. CASE PumpPing
  <2>. DEFINE p == Alive(IncPacketId(lastId), clientId)
  <2>1. p \in PacketType /\ p.type = "alive" /\ p.id = IncPacketId(lastId)
    BY <1>1, PacketFacts DEF Alive, Packet
  <2>2. MadePacket(p)
    BY <1>3, <2>1, MadeControlEffect DEF PumpPing, NothingToSend, windowVars
  <2>. QED BY <2>1, <2>2
<1>4. ASSUME NEW first \in 0 .. MaxId, NEW last \in 0 .. MaxId, SendReport(first, last), Pumping, Unbusy,
             UNCHANGED <<wnd, resending>>, last = wndLast', last <= lastId
      PROVE  \E p \in PacketType : MadePacket(p)
  <2>. DEFINE p == Report(IncPacketId(lastId), clientId, first, last)
  <2>1. p \in PacketType /\ p.type = "report" /\ p.id = IncPacketId(lastId) /\ p.last = last
    BY <1>1, PacketFacts
  <2>2. CanDraw /\ lastId' = p.id /\ control' = p /\ Send(p)
    BY <1>4 DEF SendReport
  <2>3. MadePacket(p)
    BY <1>4, <2>1, <2>2, MadeControlEffect
  <2>. QED BY <2>1, <2>3
<1>5. \A c \in Cells : wnd[c].id \in Nat /\ wnd[c].id <= lastId /\ wnd[c].id < MaxId /\ wnd[c].id \in 0 .. MaxId
  <2>. TAKE c \in Cells
  <2>1. wnd[c].id \in Ids /\ c \in 1 .. WndMaxCount /\ wnd[c].id + WndMaxCount < MaxId + c
    BY DEF IInv, TypeOK, WindowTypeOK, WindowHasRoom, PacketType
  <2>2. wnd[c].id <= lastId
    BY SentIsMade DEF IdsIdentifyPackets
  <2>. QED BY <2>1, <2>2, TransportAssumption DEF Ids
<1>6. ASSUME NEW late \in BOOLEAN, PumpReport(late)
      PROVE  \E p \in PacketType : MadePacket(p)
  <2>1. FirstCell \in Cells /\ LastCell \in Cells
    BY <1>6, CellFacts DEF IInv, WindowHasRoom, PumpReport
  <2>2. SendReport(wndFirst', wndLast')
    BY <1>5, <1>6, <2>1 DEF PumpReport
  <2>3. wndFirst' = wnd[FirstCell].id /\ wndLast' = wnd[LastCell].id /\ Pumping /\ Unbusy /\ UNCHANGED <<wnd, resending>>
    BY <1>6 DEF PumpReport
  <2>4. wndFirst' \in 0 .. MaxId /\ wndLast' \in 0 .. MaxId /\ wndLast' <= lastId
    BY <1>5, <2>1, <2>3
  <2>. QED BY <1>4, <2>2, <2>3, <2>4
<1>7. CASE PumpResendReport
  <2>1. wndFirst < MaxId /\ wndLast < MaxId /\ wndLast <= lastId
    BY <1>7 DEF IInv, ControlFitsWindow, ReportsLookBack, PumpResendReport
  <2>2. SendReport(wndFirst, wndLast) /\ Pumping /\ Unbusy /\ UNCHANGED <<wnd, resending, wndFirst, wndLast>>
    BY <1>7, <2>1 DEF PumpResendReport
  <2>3. wndFirst \in 0 .. MaxId /\ wndLast \in 0 .. MaxId
    BY <2>1, TransportAssumption DEF IInv, TypeOK, WindowTypeOK, NoId
  <2>. QED BY <1>4, <2>1, <2>2, <2>3
<1>. QED BY <1>2, <1>3, <1>6, <1>7, MadeDataEffect

\* Every step has one of the five effects
LEMMA StepEffect ==
  ASSUME IInv, IdsIdentifyPackets, ReportsLookBack, IdsSuffice, [Next]_vars
  PROVE  Effect
<1>1. CASE Sent \/ SetExit \/ Dispatch \/ Server \/ UNCHANGED vars
  BY <1>1, QuietEffect DEF Effect
<1>2. CASE Comm
  <2>1. CASE CommWait \/ CommExitPending \/ CommStatusKept \/ CommEstablish \/ CommDisconnect
    BY <2>1, QuietEffect DEF Effect
  <2>2. CASE CommBye
    BY <2>2, MadeEffect DEF Effect
  <2>3. CASE CommDrop
    BY <2>3, RestartEffect DEF Effect
  <2>4. CASE Recv
    <3>1. CASE RecvNothing \/ RecvDamaged
      BY <3>1, QuietEffect DEF Effect
    <3>2. ASSUME NEW m \in toClient, RecvIgnored(m) \/ RecvAck(m) \/ RecvRefusal(m) \/ RecvServerReport(m)
          PROVE  Effect
      BY <3>2, QuietEffect, AnswerEffect, RestartEffect DEF Effect
    <3>. QED BY <2>4, <3>1, <3>2 DEF Recv
  <2>5. CASE Pump
    <3>1. CASE PumpWaits \/ PumpNothing
      BY <3>1, QuietEffect DEF Effect
    <3>2. ASSUME NEW late \in BOOLEAN, PumpControl(late) \/ PumpReport(late) \/ PumpData(late)
          PROVE  Effect
      BY <3>2, RepeatEffect, MadeEffect DEF Effect
    <3>3. CASE PumpResend \/ PumpResendReport \/ PumpPing
      BY <3>3, RepeatEffect, MadeEffect DEF Effect
    <3>. QED BY <2>5, <3>1, <3>2, <3>3 DEF Pump
  <2>. QED BY <1>2, <2>1, <2>2, <2>3, <2>4, <2>5 DEF Comm
<1>. QED BY <1>1, <1>2 DEF Next

-----------------------------------------------------------------------------
(* The history is kept by every kind of step.                              *)

\* The hello of a reset
LEMMA HelloFacts ==
  ASSUME IInv, IdsSuffice, lastId < IdBound, NEW cid \in Nat
  PROVE  /\ Hello(lastId + 1, cid) \in PacketType
         /\ Hello(lastId + 1, cid).type = "hello" /\ Hello(lastId + 1, cid).id = lastId + 1
<1>1. lastId + 1 \in Ids
  BY NextId DEF CanDraw
<1>. QED BY <1>1, PacketFacts DEF Hello, Packet

\* No packet is forgotten, and at most one is made, with the next ID.
LEMMA MadeGrows ==
  ASSUME IInv, IdsSuffice, Effect
  PROVE  /\ toServer \subseteq toServer'
         /\ \/ Made' \subseteq Made /\ lastId' = lastId
            \/ \E p \in PacketType :
                 /\ p.id = lastId + 1 /\ lastId' = lastId + 1 /\ Made' \subseteq Made \cup {p}
                 /\ p.type = "report" => p.last <= lastId
<1>1. CASE Quiet
  BY <1>1 DEF Quiet, Made
<1>2. ASSUME NEW m \in toClient, Answered(m)
      PROVE  toServer' = toServer /\ Made' \subseteq Made /\ lastId' = lastId
  BY <1>2 DEF Answered, Made
<1>3. ASSUME Restarted
      PROVE  /\ toServer' = toServer
             /\ \E p \in PacketType :
                  /\ p.id = lastId + 1 /\ lastId' = lastId + 1 /\ Made' \subseteq Made \cup {p}
                  /\ p.type # "report"
  <2>1. PICK cid \in Nat : control' = Hello(lastId + 1, cid)
    BY <1>3 DEF Restarted
  <2>2. toServer' = toServer /\ lastId' = lastId + 1 /\ lastId < IdBound
    BY <1>3 DEF Restarted
  <2>3. Made' \subseteq Made \cup {Hello(lastId + 1, cid)}
    BY <2>1, <2>2 DEF Made
  <2>. QED BY <2>2, <2>3, HelloFacts
<1>4. ASSUME NEW p \in Made, Repeated(p)
      PROVE  toServer \subseteq toServer' /\ Made' \subseteq Made /\ lastId' = lastId
  BY <1>4 DEF Repeated, Made
<1>5. ASSUME NEW p \in PacketType, MadePacket(p)
      PROVE  /\ toServer \subseteq toServer'
             /\ p.id = lastId + 1 /\ lastId' = lastId + 1 /\ Made' \subseteq Made \cup {p}
             /\ p.type = "report" => p.last <= lastId
  <2>1. control' \in {control, p}
    BY <1>5 DEF MadePacket, MadeBye, MadeControl, MadeData
  <2>2. toServer' = toServer \cup {p} /\ p.id = lastId + 1 /\ lastId' = lastId + 1
    BY <1>5 DEF MadePacket
  <2>3. p.type = "report" => p.last <= lastId
    BY <1>5 DEF MadePacket, MadeBye, MadeControl, MadeData
  <2>. QED BY <2>1, <2>2, <2>3 DEF Made
<1>. QED BY <1>1, <1>2, <1>3, <1>4, <1>5 DEF Effect

\* The window: what it holds was there before, or is the data packet just made.
LEMMA CellsGrow ==
  ASSUME Effect
  PROVE  \A c \in Cells' :
           \/ c \in Cells /\ wnd'[c] = wnd[c]
           \/ wnd'[c] \in toServer' /\ wnd'[c].type = "data"
<1>1. CASE Quiet \/ Restarted \/ (\E p \in Made : Repeated(p))
  BY <1>1 DEF Quiet, Restarted, Repeated, Cells
<1>2. ASSUME NEW m \in toClient, Answered(m)
      PROVE  \A c \in Cells' : c \in Cells /\ wnd'[c] = wnd[c]
  BY <1>2 DEF Answered
<1>3. ASSUME NEW p \in PacketType, MadePacket(p), NEW c \in Cells'
      PROVE  \/ c \in Cells /\ wnd'[c] = wnd[c]
             \/ wnd'[c] \in toServer' /\ wnd'[c].type = "data"
  <2>1. p \in toServer'
    BY <1>3 DEF MadePacket
  <2>2. CASE MadeBye(p) \/ MadeControl(p)
    BY <2>2, <1>3 DEF MadeBye, MadeControl, Cells
  <2>3. CASE MadeData(p)
    <3>1. PICK k \in Nat : /\ Cells = 1 .. k /\ Cells' = 1 .. (k + 1)
                           /\ wnd'[k + 1] = p /\ \A d \in 1 .. k : wnd'[d] = wnd[d]
      BY <2>3 DEF MadeData
    <3>2. c \in 1 .. k \/ c = k + 1
      BY <1>3, <3>1
    <3>. QED BY <2>1, <2>3, <3>1, <3>2 DEF MadeData
  <2>. QED BY <1>3, <2>2, <2>3 DEF MadePacket
<1>. QED BY <1>1, <1>2, <1>3 DEF Effect

\* An ID still stands for one packet.
LEMMA IdsStep ==
  ASSUME IInv, IdsSuffice, IdsIdentifyPackets, Effect
  PROVE  IdsIdentifyPackets'
<1>1. lastId \in Nat /\ \A p \in Made : p.id \in Nat /\ p.id <= lastId
  BY MadeFacts DEF IInv, TypeOK, CommTypeOK, Ids, IdsIdentifyPackets
<1>2. /\ \A p \in Made' : p.id <= lastId'
      /\ \A p, q \in Made' : p.id = q.id => p = q
  <2>1. CASE Made' \subseteq Made /\ lastId' = lastId
    BY <2>1 DEF IdsIdentifyPackets
  <2>2. ASSUME NEW p \in PacketType, p.id = lastId + 1, lastId' = lastId + 1, Made' \subseteq Made \cup {p}
        PROVE  /\ \A q \in Made' : q.id <= lastId'
               /\ \A q, r \in Made' : q.id = r.id => q = r
    <3>1. ASSUME NEW q \in Made'
          PROVE  \/ q = p /\ q.id = lastId + 1
                 \/ q \in Made /\ q.id \in Nat /\ q.id <= lastId
      BY <1>1, <2>2
    <3>. QED BY <1>1, <2>2, <3>1 DEF IdsIdentifyPackets
  <2>. QED BY <2>1, <2>2, MadeGrows
<1>3. \A c \in Cells' : wnd'[c] \in toServer' /\ wnd'[c].type = "data"
  BY CellsGrow, MadeGrows DEF IdsIdentifyPackets
<1>4. waiting' \/ control'.type \in {"alive", "report"} => control' \in toServer'
  <2>1. CASE Quiet \/ (\E p \in Made : Repeated(p))
    BY <2>1 DEF Quiet, Repeated, IdsIdentifyPackets
  <2>2. CASE Restarted \/ (\E m \in toClient : Answered(m))
    BY <2>2, HelloFacts, NoPacketFacts DEF Restarted, Answered
  <2>3. ASSUME NEW p \in PacketType, MadePacket(p)
        PROVE  waiting' \/ control'.type \in {"alive", "report"} => control' \in toServer'
    <3>1. toServer' = toServer \cup {p}
      BY <2>3 DEF MadePacket
    <3>2. control' = p \/ (control' = control /\ waiting' = waiting)
      BY <2>3 DEF MadePacket, MadeBye, MadeControl, MadeData
    <3>. QED BY <3>1, <3>2 DEF IdsIdentifyPackets
  <2>. QED BY <2>1, <2>2, <2>3 DEF Effect
<1>. QED BY <1>2, <1>3, <1>4 DEF IdsIdentifyPackets

\* A report is still younger than what it is about.
LEMMA ReportsStep ==
  ASSUME IInv, IdsSuffice, ReportsLookBack, Effect, IInv'
  PROVE  ReportsLookBack'
<1>1. lastId \in Nat /\ \A p \in Made : p.id \in Nat
  BY MadeFacts DEF IInv, TypeOK, CommTypeOK, Ids
<1>2. \A p \in Made' : p.type = "report" => p.last < p.id
  <2>1. CASE Made' \subseteq Made
    BY <2>1 DEF ReportsLookBack
  <2>2. ASSUME NEW p \in PacketType, p.id = lastId + 1, Made' \subseteq Made \cup {p},
               p.type = "report" => p.last <= lastId
        PROVE  \A q \in Made' : q.type = "report" => q.last < q.id
    <3>1. p.last \in Nat
      BY TransportAssumption DEF PacketType
    <3>. QED BY <1>1, <2>2, <3>1 DEF ReportsLookBack
  <2>. QED BY <2>1, <2>2, MadeGrows
<1>3. control'.type = "report" \/ resending' => wndLast' <= lastId'
  <2>1. wndLast \in Nat /\ lastId \in Nat /\ wndLast' \in Nat
    BY DEF IInv, TypeOK, WindowTypeOK, CommTypeOK, Ids
  <2>2. CASE Quiet \/ (\E p \in Made : Repeated(p))
    BY <2>2 DEF Quiet, Repeated, ReportsLookBack
  <2>3. CASE Restarted
    BY <2>3, HelloFacts DEF Restarted
  <2>4. ASSUME NEW m \in toClient, Answered(m), control'.type = "report" \/ resending'
        PROVE  wndLast' <= lastId'
    <3>1. control'.type # "report" /\ resending'
      BY <2>4, NoPacketFacts DEF Answered
    <3>2. UNCHANGED <<wndLast, lastId>> /\ Cells' # {} /\ Cells' \subseteq Cells
      BY <2>4, <3>1 DEF Answered
    <3>3. waiting /\ Cells # {}
      BY <2>4, <3>2 DEF Answered
    <3>4. control.type = "report"
      BY <3>3 DEF IInv, WaitingHasControl, ControlFitsWindow
    <3>. QED BY <3>2, <3>4 DEF ReportsLookBack
  <2>5. ASSUME NEW p \in PacketType, MadePacket(p), control'.type = "report" \/ resending'
        PROVE  wndLast' <= lastId'
    <3>1. lastId' = lastId + 1
      BY <2>5 DEF MadePacket
    <3>2. CASE MadeBye(p) \/ MadeData(p)
      BY <2>1, <2>5, <3>1, <3>2 DEF MadeBye, MadeData, ReportsLookBack
    <3>3. CASE MadeControl(p)
      <4>1. p.type = "report" => p.last = wndLast' /\ p.last <= lastId
        BY <3>3 DEF MadeControl
      <4>2. p.type # "report" => UNCHANGED <<wndLast, resending>> /\ control'.type # "report"
        BY <3>3 DEF MadeControl
      <4>. QED BY <2>1, <2>5, <3>1, <4>1, <4>2 DEF ReportsLookBack
    <3>. QED BY <2>5, <3>2, <3>3 DEF MadePacket
  <2>. QED BY <2>2, <2>3, <2>4, <2>5 DEF Effect
<1>. QED BY <1>2, <1>3 DEF ReportsLookBack

\* A data packet that was made has been sent.
LEMMA DataWasSent ==
  ASSUME IInv, NEW p \in Made, p.type = "data"
  PROVE  p \in toServer
BY DEF Made, IInv, ControlFitsWindow

\* What a step does to the queue: nothing, or one packet is added, or pulled, or all are dropped.
LEMMA QueueFacts ==
  ASSUME IInv, QueueInOrder
  PROVE  /\ queueOut \in Seq(Nat) /\ accepted \in Nat /\ Len(queueOut) \in Nat
         /\ Pulled \in Nat /\ Pulled <= accepted /\ Pulled = accepted - Len(queueOut)
         /\ Sent => /\ accepted' = accepted + 1 /\ Pulled' = Pulled
                    /\ \A i \in DOMAIN queueOut' : queueOut'[i] = Pulled + i
         /\ queueOut' = <<>> /\ UNCHANGED accepted => Pulled' = accepted
         /\ queueOut # <<>> /\ queueOut' = Tail(queueOut) /\ UNCHANGED accepted =>
              /\ Head(queueOut) = Pulled + 1 /\ Pulled' = Pulled + 1 /\ Len(queueOut') <= accepted
              /\ \A i \in DOMAIN queueOut' : queueOut'[i] = Pulled + 1 + i
<1>1. /\ queueOut \in Seq(Nat) /\ accepted \in Nat /\ Len(queueOut) \in Nat
      /\ Pulled \in Nat /\ Pulled <= accepted /\ Pulled = accepted - Len(queueOut)
  BY DEF IInv, TypeOK, UserTypeOK, QueueInOrder, Pulled
<1>2. ASSUME Sent
      PROVE  /\ accepted' = accepted + 1 /\ Pulled' = Pulled
             /\ \A i \in DOMAIN queueOut' : queueOut'[i] = Pulled + i
  <2>1. accepted' = accepted + 1 /\ queueOut' = Append(queueOut, accepted + 1)
    BY <1>2 DEF Sent, PushLast
  <2>2. Len(queueOut') = Len(queueOut) + 1
    BY <1>1, <2>1
  <2>3. Pulled' = Pulled
    BY <1>1, <2>1, <2>2 DEF Pulled
  <2>4. ASSUME NEW i \in DOMAIN queueOut'
        PROVE  queueOut'[i] = Pulled + i
    <3>1. CASE i \in DOMAIN queueOut
      BY <1>1, <2>1, <3>1 DEF QueueInOrder
    <3>2. CASE i \notin DOMAIN queueOut
      <4>1. i = Len(queueOut) + 1
        BY <1>1, <2>1, <2>2, <3>2
      <4>. QED BY <1>1, <2>1, <4>1
    <3>. QED BY <3>1, <3>2
  <2>. QED BY <2>1, <2>3, <2>4
<1>3. ASSUME queueOut' = <<>>, UNCHANGED accepted
      PROVE  Pulled' = accepted
  BY <1>1, <1>3 DEF Pulled
<1>4. ASSUME queueOut # <<>>, queueOut' = Tail(queueOut), UNCHANGED accepted
      PROVE  /\ Head(queueOut) = Pulled + 1 /\ Pulled' = Pulled + 1 /\ Len(queueOut') <= accepted
             /\ \A i \in DOMAIN queueOut' : queueOut'[i] = Pulled + 1 + i
  <2>1. Len(queueOut) >= 1 /\ Len(queueOut') = Len(queueOut) - 1 /\ Head(queueOut) = queueOut[1]
    BY <1>1, <1>4
  <2>2. Head(queueOut) = Pulled + 1
    BY <1>1, <2>1 DEF QueueInOrder
  <2>3. Pulled' = Pulled + 1 /\ Len(queueOut') <= accepted
    BY <1>1, <1>4, <2>1 DEF Pulled
  <2>4. ASSUME NEW i \in DOMAIN queueOut'
        PROVE  queueOut'[i] = Pulled + 1 + i
    <3>1. i \in Nat /\ i + 1 \in DOMAIN queueOut /\ queueOut'[i] = queueOut[i + 1]
      BY <1>1, <1>4, <2>1
    <3>. QED BY <1>1, <3>1 DEF QueueInOrder
  <2>. QED BY <2>2, <2>3, <2>4
<1>. QED BY <1>1, <1>2, <1>3, <1>4

\* The queue still holds what comes after the data packets that were sent.
LEMMA QueueStep ==
  ASSUME IInv, QueueInOrder, Effect
  PROVE  QueueInOrder'
<1>1. Pulled \in Nat /\ accepted \in Nat /\ Pulled <= accepted /\ queueOut \in Seq(Nat)
  BY QueueFacts
<1>2. CASE UNCHANGED <<queueOut, accepted>> /\ \A q \in toServer' : q.type = "data" => q \in toServer
  BY <1>2 DEF QueueInOrder, Pulled
<1>3. CASE Quiet
  <2>1. CASE Sent
    <3>1. Len(queueOut') <= accepted'
      BY <2>1, <1>1 DEF Sent, PushLast, QueueInOrder
    <3>2. toServer' = toServer
      BY <1>3 DEF Quiet
    <3>. QED BY <2>1, <3>1, <3>2, QueueFacts DEF QueueInOrder
  <2>. QED BY <1>2, <1>3, <2>1 DEF Quiet
<1>4. CASE Restarted
  <2>1. queueOut' = <<>> /\ accepted' = accepted /\ toServer' = toServer
    BY <1>4 DEF Restarted, outsideVars
  <2>2. Pulled' = accepted /\ Len(queueOut') = 0 /\ DOMAIN queueOut' = {}
    BY <2>1, QueueFacts
  <2>. QED BY <1>1, <2>1, <2>2 DEF QueueInOrder
<1>5. ASSUME NEW m \in toClient, Answered(m)
      PROVE  QueueInOrder'
  BY <1>2, <1>5 DEF Answered, outsideVars
<1>6. ASSUME NEW p \in Made, Repeated(p)
      PROVE  QueueInOrder'
  BY <1>2, <1>6, DataWasSent DEF Repeated, outsideVars
<1>7. ASSUME NEW p \in PacketType, MadePacket(p)
      PROVE  QueueInOrder'
  <2>1. toServer' = toServer \cup {p} /\ accepted' = accepted
    BY <1>7 DEF MadePacket, outsideVars
  <2>2. CASE MadeBye(p) \/ MadeControl(p)
    <3>1. p.type # "data" /\ queueOut' = queueOut
      BY <2>2 DEF MadeBye, MadeControl
    <3>. QED BY <1>2, <2>1, <3>1
  <2>3. CASE MadeData(p)
    <3>1. queueOut # <<>> /\ p.data = Head(queueOut) /\ queueOut' = Tail(queueOut)
      BY <2>3 DEF MadeData
    <3>2. /\ p.data = Pulled + 1 /\ Pulled' = Pulled + 1 /\ Len(queueOut') <= accepted
          /\ \A i \in DOMAIN queueOut' : queueOut'[i] = Pulled + 1 + i
      BY <2>1, <3>1, QueueFacts
    <3>. QED BY <1>1, <2>1, <3>2 DEF QueueInOrder
  <2>. QED BY <1>7, <2>2, <2>3 DEF MadePacket
<1>. QED BY <1>3, <1>4, <1>5, <1>6, <1>7 DEF Effect

\* The window still holds packets that follow one another.
LEMMA WindowStep ==
  ASSUME IInv, QueueInOrder, WindowInOrder, Effect
  PROVE  WindowInOrder'
<1>1. Pulled \in Nat /\ \A c \in Cells : c \in Nat /\ wnd[c].data \in Nat
  BY QueueFacts DEF IInv, TypeOK, WindowTypeOK, PacketType
<1>2. CASE UNCHANGED <<wnd, resending>> /\ Pulled' = Pulled
  BY <1>2 DEF WindowInOrder, Cells
<1>3. CASE Quiet \/ (\E p \in Made : Repeated(p))
  <2>1. UNCHANGED <<wnd, resending>>
    BY <1>3 DEF Quiet, Repeated
  <2>2. UNCHANGED <<queueOut, accepted>> \/ Sent
    BY <1>3 DEF Quiet, Repeated, outsideVars
  <2>3. Pulled' = Pulled
    BY <2>2, QueueFacts DEF Pulled
  <2>. QED BY <1>2, <2>1, <2>3
<1>4. CASE Restarted
  BY <1>4 DEF Restarted, WindowInOrder
<1>5. ASSUME NEW m \in toClient, Answered(m)
      PROVE  WindowInOrder'
  <2>1. \A c \in Cells' : c \in Cells /\ wnd'[c] = wnd[c] /\ resending'
    BY <1>5 DEF Answered
  <2>. QED BY <2>1 DEF WindowInOrder
<1>6. ASSUME NEW p \in PacketType, MadePacket(p)
      PROVE  WindowInOrder'
  <2>1. accepted' = accepted
    BY <1>6 DEF MadePacket, outsideVars
  <2>2. CASE MadeBye(p) \/ MadeControl(p)
    BY <1>2, <2>1, <2>2 DEF MadeBye, MadeControl, Pulled
  <2>3. CASE MadeData(p)
    <3>1. PICK k \in Nat : /\ Cells = 1 .. k /\ Cells' = 1 .. (k + 1)
                           /\ wnd'[k + 1] = p /\ \A c \in 1 .. k : wnd'[c] = wnd[c]
      BY <2>3 DEF MadeData
    <3>2. p.data = Pulled + 1 /\ Pulled' = Pulled + 1 /\ ~resending
      BY <2>1, <2>3, QueueFacts DEF MadeData
    <3>3. \A c \in 1 .. k : wnd[c].data \in Nat /\ wnd[c].data = Pulled - (k - c)
      <4>1. k \in Cells => k + 1 \notin Cells
        BY <3>1
      <4>2. k \in Cells => wnd[k].data = Pulled
        BY <3>2, <4>1 DEF WindowInOrder
      <4>3. ASSUME NEW c \in 1 .. k
            PROVE  wnd[c].data \in Nat /\ wnd[c].data = Pulled - (k - c)
        <5>1. c \in Cells /\ k \in Cells /\ wnd[k].data - wnd[c].data = k - c
          BY <3>1 DEF WindowInOrder
        <5>. QED BY <1>1, <4>2, <5>1
      <4>. QED BY <4>3
    <3>4. ASSUME NEW c \in Cells'
          PROVE  c \in Nat /\ c <= k + 1 /\ wnd'[c].data = Pulled + 1 - (k + 1 - c)
      <4>1. c \in Nat /\ c <= k + 1 /\ (c \in 1 .. k \/ c = k + 1)
        BY <3>1
      <4>2. CASE c \in 1 .. k
        BY <1>1, <3>1, <3>3, <4>1, <4>2
      <4>3. CASE c = k + 1
        <5>1. wnd'[c].data = Pulled + 1
          BY <3>1, <3>2, <4>3
        <5>2. Pulled + 1 = Pulled + 1 - (k + 1 - c)
          BY <1>1, <4>1, <4>3
        <5>. QED BY <4>1, <4>3, <5>1, <5>2
      <4>. QED BY <4>1, <4>2, <4>3
    <3>5. \A c, d \in Cells' : wnd'[d].data - wnd'[c].data = d - c
      BY <1>1, <3>4
    <3>6. \A c \in Cells' : c + 1 \notin Cells' => wnd'[c].data = Pulled'
      BY <1>1, <3>1, <3>2, <3>4
    <3>. QED BY <3>5, <3>6 DEF WindowInOrder
  <2>. QED BY <1>6, <2>2, <2>3 DEF MadePacket
<1>. QED BY <1>3, <1>4, <1>5, <1>6 DEF Effect

\* Only the server takes data and answers.
LEMMA OutsideFacts ==
  ASSUME Effect
  PROVE  /\ Server \/ UNCHANGED <<toClient, srvGot, received>>
         /\ received \subseteq received' /\ toClient \subseteq toClient'
         /\ Server => toServer' = toServer
<1>1. Server \/ UNCHANGED <<toClient, srvGot, received>>
  BY DEF Effect, Quiet, Answered, Restarted, Repeated, MadePacket, outsideVars, Sent, PushLast, serverVars, netVars
<1>2. ASSUME Server
      PROVE  received \subseteq received' /\ toClient \subseteq toClient' /\ toServer' = toServer
  BY <1>2 DEF Server, SrvHello, SrvData, SrvReport, SrvAlive, SrvRestart, Answer, serverVars, UNCHANGEDClient
<1>. QED BY <1>1, <1>2

\* The server still has got only what was sent.
LEMMA GotStep ==
  ASSUME IInv, IdsSuffice, GotWasSent, Effect
  PROVE  GotWasSent'
<1>1. toServer \subseteq toServer' /\ received \subseteq received'
  BY MadeGrows, OutsideFacts
<1>2. CASE srvGot' \subseteq srvGot
  BY <1>1, <1>2 DEF GotWasSent
<1>3. ASSUME NEW p \in toServer, SrvData(p)
      PROVE  GotWasSent'
  <2>1. srvGot' = srvGot \cup {<<p.id, p.data>>} /\ p.data \in received' /\ p.type = "data" /\ p \in toServer'
    BY <1>1, <1>3 DEF SrvData
  <2>2. ASSUME NEW g \in srvGot'
        PROVE  /\ g[2] \in received'
               /\ \E q \in toServer' : q.type = "data" /\ q.id = g[1] /\ q.data = g[2]
    <3>1. CASE g \in srvGot
      BY <1>1, <3>1 DEF GotWasSent
    <3>2. CASE g = <<p.id, p.data>>
      BY <2>1, <3>2
    <3>. QED BY <2>1, <2>2, <3>1, <3>2
  <2>. QED BY <2>2 DEF GotWasSent
<1>4. Server /\ ~(\E p \in toServer : SrvData(p)) => srvGot' \subseteq srvGot
  BY DEF Server, SrvHello, SrvReport, SrvAlive, SrvRestart, serverVars
<1>. QED BY <1>2, <1>3, <1>4, OutsideFacts

\* What the server has not lost of a report is received.
LEMMA GotIsReceived ==
  ASSUME IInv, IdsIdentifyPackets, GotWasSent, NEW p \in toServer, NEW q \in toServer,
         q.type = "data", q.id \in p.first .. p.last, q.id \notin Lost(p)
  PROVE  q.data \in received
<1>1. PICK g \in srvGot : q.id = g[1]
  BY DEF Lost
<1>2. PICK r \in toServer : r.type = "data" /\ r.id = g[1] /\ r.data = g[2]
  BY DEF GotWasSent
<1>3. r = q
  BY <1>1, <1>2, SentIsMade DEF IdsIdentifyPackets
<1>. QED BY <1>2, <1>3 DEF GotWasSent

\* An answer stays true.
LEMMA AnswerStaysTrue ==
  ASSUME IInv, IInv', IdsSuffice, IdsIdentifyPackets, IdsIdentifyPackets', ReportsLookBack, Effect,
         NEW m \in toClient, IsTrue(m)
  PROVE  IsTrue(m)'
<1>1. PICK h \in toServer : h.id = m.src /\ (m.type = "lost" => h.type = "report")
  BY DEF IsTrue
<1>2. h \in Made /\ h.id \in Nat /\ h.id <= lastId /\ h \in toServer' /\ lastId \in Nat
  BY SentIsMade, MadeFacts, MadeGrows DEF IdsIdentifyPackets, IInv, TypeOK, CommTypeOK, Ids
<1>3. ASSUME NEW q \in Made', q.id <= lastId
      PROVE  q \in Made
  <2>1. lastId' = lastId + 1 /\ q.id = lastId + 1 => FALSE
    BY <1>2, <1>3
  <2>. QED BY <1>3, <2>1, MadeGrows
<1>4. ASSUME NEW p \in toServer', NEW q \in toServer',
             p.id = m.src, p.type = "report", m.type = "lost" \/ m.result,
             q.type = "data", q.id \in p.first .. p.last
      PROVE  (m.type = "lost" /\ q.id \in m.lost) \/ q.data \in received'
  <2>1. p \in Made' /\ q \in Made'
    BY SentIsMade, <1>4 DEF Made, NoPacket, Packet
  <2>2. p \in toServer
    <3>1. p \in Made
      BY <1>1, <1>2, <1>3, <1>4, <2>1
    <3>. QED BY <1>1, <1>2, <1>4, <3>1 DEF IdsIdentifyPackets
  <2>3. p.last < p.id /\ p.last \in Nat /\ p.first \in Nat
    BY <1>4, <2>2, SentIsMade, MadeFacts DEF ReportsLookBack
  <2>4. q.id <= lastId
    BY <1>1, <1>2, <1>4, <2>3
  <2>5. q \in toServer
    BY <1>3, <1>4, <2>1, <2>4, DataWasSent
  <2>6. received \subseteq received'
    BY OutsideFacts
  <2>. QED BY <1>4, <2>2, <2>5, <2>6 DEF IsTrue
<1>. QED BY <1>1, <1>2, <1>4 DEF IsTrue

\* A new answer is true.
LEMMA NewAnswerIsTrue ==
  ASSUME IInv, IdsIdentifyPackets, GotWasSent, Server, NEW m \in toClient', m \notin toClient
  PROVE  IsTrue(m)'
<1>1. toServer' = toServer /\ received \subseteq received'
  BY DEF Server, SrvHello, SrvData, SrvReport, SrvAlive, SrvRestart, serverVars, UNCHANGEDClient
<1>2. ASSUME NEW p \in toServer, m.src = p.id, p.type # "report", m.type = "ack"
      PROVE  IsTrue(m)'
  <2>1. \A q \in toServer : q.id = m.src => q = p
    BY <1>2, SentIsMade DEF IdsIdentifyPackets
  <2>. QED BY <1>1, <1>2, <2>1 DEF IsTrue
<1>3. ASSUME NEW p \in toServer, m.src = p.id, p.type = "report",
             \/ m.type = "lost" /\ m.lost = Lost(p)
             \/ m.type = "ack" /\ (m.result => Lost(p) = {})
      PROVE  IsTrue(m)'
  <2>1. \A q \in toServer : q.id = m.src => q = p
    BY <1>3, SentIsMade DEF IdsIdentifyPackets
  <2>2. ASSUME NEW q \in toServer, m.type = "lost" \/ m.result, q.type = "data", q.id \in p.first .. p.last
        PROVE  (m.type = "lost" /\ q.id \in m.lost) \/ q.data \in received
    BY <1>3, <2>2, GotIsReceived
  <2>. QED BY <1>1, <1>3, <2>1, <2>2 DEF IsTrue
<1>4. PICK p \in toServer : SrvHello(p) \/ SrvData(p) \/ SrvReport(p) \/ SrvAlive(p)
  BY DEF Server, SrvRestart
<1>5. CASE SrvHello(p)
  BY <1>2, <1>5 DEF SrvHello, Answer, Ack
<1>6. CASE SrvAlive(p)
  BY <1>2, <1>6 DEF SrvAlive, Answer, Ack
<1>7. CASE SrvReport(p)
  BY <1>3, <1>7 DEF SrvReport, Answer, Ack, ServerReport
<1>8. CASE SrvData(p)
  BY <1>8 DEF SrvData
<1>. QED BY <1>4, <1>5, <1>6, <1>7, <1>8

\* The answers of the server stay true, and so are new ones.
LEMMA AnswersStep ==
  ASSUME IInv, IInv', IdsSuffice, IdsIdentifyPackets, IdsIdentifyPackets', ReportsLookBack,
         GotWasSent, AnswersAreTrue, Effect
  PROVE  AnswersAreTrue'
<1>1. \A m \in toClient : IsTrue(m)
  BY DEF AnswersAreTrue
<1>2. ASSUME NEW m \in toClient'
      PROVE  IsTrue(m)'
  <2>1. CASE m \in toClient
    BY <1>1, <2>1, AnswerStaysTrue
  <2>2. CASE m \notin toClient
    BY <1>2, <2>2, OutsideFacts, NewAnswerIsTrue
  <2>. QED BY <2>1, <2>2
<1>. QED BY <1>2 DEF AnswersAreTrue

\* The data packets are still numbered in the order in which they were queued.
LEMMA OrderStep ==
  ASSUME IInv, IdsSuffice, IdsIdentifyPackets, QueueInOrder, IdsFollowQueue, Effect
  PROVE  IdsFollowQueue'
<1>1. \A p \in toServer : /\ p.id \in Nat /\ p.data \in Nat /\ p.id <= lastId
                          /\ p.type = "data" => p.data <= Pulled
  BY SentIsMade, MadeFacts DEF IdsIdentifyPackets, QueueInOrder
<1>2. CASE \A q \in toServer' : q.type = "data" => q \in toServer
  BY <1>2 DEF IdsFollowQueue
<1>3. CASE Quiet \/ Restarted \/ (\E m \in toClient : Answered(m))
  BY <1>2, <1>3 DEF Quiet, Restarted, Answered
<1>4. ASSUME NEW p \in Made, Repeated(p)
      PROVE  IdsFollowQueue'
  BY <1>2, <1>4, DataWasSent DEF Repeated
<1>5. ASSUME NEW p \in PacketType, MadePacket(p)
      PROVE  IdsFollowQueue'
  <2>1. toServer' = toServer \cup {p} /\ p.id = lastId + 1 /\ accepted' = accepted
    BY <1>5 DEF MadePacket, outsideVars
  <2>2. CASE MadeBye(p) \/ MadeControl(p)
    BY <1>2, <2>1, <2>2 DEF MadeBye, MadeControl
  <2>3. CASE MadeData(p)
    <3>1. p.data = Pulled + 1 /\ Pulled \in Nat /\ lastId \in Nat
      BY <2>1, <2>3, QueueFacts DEF MadeData, IInv, TypeOK, CommTypeOK, Ids
    <3>2. \A q \in toServer : q.type = "data" => q.id < p.id /\ q.data < p.data /\ q.id \in Nat /\ q.data \in Nat
      BY <1>1, <2>1, <3>1
    <3>3. p.id \in Nat /\ p.data \in Nat
      BY <2>1, <3>1
    <3>4. ASSUME NEW q \in toServer', NEW r \in toServer', q.type = "data", r.type = "data"
          PROVE  q.id < r.id <=> q.data < r.data
      <4>1. CASE q \in toServer /\ r \in toServer
        BY <3>4, <4>1 DEF IdsFollowQueue
      <4>2. CASE q = p \/ r = p
        BY <2>1, <3>2, <3>3, <3>4, <4>2
      <4>. QED BY <2>1, <4>1, <4>2
    <3>. QED BY <3>4 DEF IdsFollowQueue
  <2>. QED BY <1>5, <2>2, <2>3 DEF MadePacket
<1>. QED BY <1>3, <1>4, <1>5 DEF Effect

-----------------------------------------------------------------------------
(* The history, in every reachable state.                                  *)

\* Nothing has happened yet.
LEMMA InitHInv ==
  ASSUME Init
  PROVE  HInv
<1>1. /\ toServer = {} /\ toClient = {} /\ Cells = {} /\ srvGot = {} /\ queueOut = <<>> /\ accepted = 0
      /\ ~waiting /\ ~resending /\ control = Hello(IncPacketId(0), 0) /\ lastId = IncPacketId(0)
  BY DEF Init, Cells, EmptyWnd
<1>2. /\ control \in PacketType /\ control.type = "hello" /\ lastId \in Nat /\ control.id = lastId
  BY <1>1, IdFacts, PacketFacts DEF Hello, Packet, Ids
<1>3. Made = {control}
  BY <1>1, <1>2, NoPacketFacts DEF Made
<1>4. IdsIdentifyPackets
  BY <1>1, <1>2, <1>3 DEF IdsIdentifyPackets
<1>5. ReportsLookBack /\ QueueInOrder /\ WindowInOrder
  BY <1>1, <1>2, <1>3 DEF ReportsLookBack, QueueInOrder, WindowInOrder
<1>6. GotWasSent /\ AnswersAreTrue /\ IdsFollowQueue
  BY <1>1 DEF GotWasSent, AnswersAreTrue, IdsFollowQueue
<1>. QED BY <1>4, <1>5, <1>6 DEF HInv

\* Every step keeps the history in order, and has one of the five effects.
LEMMA HInvStep ==
  ASSUME IInv, HInv, IdsSuffice, [Next]_vars
  PROVE  HInv' /\ IInv' /\ Effect
<1>1. IInv' /\ Effect
  BY IInvStep, StepEffect DEF HInv
<1>2. IdsIdentifyPackets' /\ ReportsLookBack'
  BY <1>1, IdsStep, ReportsStep DEF HInv
<1>3. QueueInOrder' /\ WindowInOrder' /\ IdsFollowQueue'
  BY <1>1, QueueStep, WindowStep, OrderStep DEF HInv
<1>4. GotWasSent' /\ AnswersAreTrue'
  BY <1>1, <1>2, GotStep, AnswersStep DEF HInv
<1>. QED BY <1>1, <1>2, <1>3, <1>4 DEF HInv

\* The history is in order in every reachable state, as long as no ID is drawn twice.
THEOREM HistoryInvariant ==
  ASSUME IdsSuffice
  PROVE  Spec => [](IInv /\ HInv)
<1>1. Init => IInv /\ HInv
  BY InitIInv, InitHInv
<1>2. IInv /\ HInv /\ [Next]_vars => (IInv /\ HInv)'
  BY HInvStep
<1>. QED BY <1>1, <1>2, PTL DEF Spec

\* The server can put the data packets in order by their IDs.
THEOREM OrderIsKept ==
  ASSUME IdsSuffice
  PROVE  Spec => []IdsFollowQueue
<1>1. IInv /\ HInv => IdsFollowQueue
  BY DEF HInv
<1>. QED BY <1>1, HistoryInvariant, PTL

-----------------------------------------------------------------------------
(* What the client holds.                                                  *)

\* What an answer frees has been received.
LEMMA FreedIsReceived ==
  ASSUME IInv, HInv, NEW m \in toClient, Answered(m), NEW c \in Cells, c \notin Cells'
  PROVE  wnd[c].data \in received
<1>1. control.type = "report" /\ control \in toServer /\ m.src = control.id
  BY DEF Answered, IInv, WaitingHasControl, ControlFitsWindow, HInv, IdsIdentifyPackets
<1>2. wnd[c] \in toServer /\ wnd[c].type = "data" /\ wnd[c].id \in control.first .. control.last
  BY <1>1 DEF IInv, ReportCoversWindow, HInv, IdsIdentifyPackets
<1>3. (m.type = "ack" /\ m.result) \/ (m.type = "lost" /\ wnd[c].id \notin m.lost)
  BY DEF Answered
<1>. QED BY <1>1, <1>2, <1>3 DEF HInv, AnswersAreTrue, IsTrue

\* What is held, element by element
LEMMA InHeld ==
  /\ \A n : n \in Held <=> (\E i \in DOMAIN queueOut : n = queueOut[i]) \/ (\E c \in Cells : n = wnd[c].data)
  /\ \A n : n \in Held' <=>
       (\E i \in DOMAIN queueOut' : n = queueOut'[i]) \/ (\E c \in Cells' : n = wnd'[c].data)
BY DEF Held, WndData

\* What is held changes by a packet queued, by packets freed that the server has,
\* or by a reset.
LEMMA HeldStep ==
  ASSUME IInv, HInv
  PROVE  /\ Sent => Held' = Held \cup {accepted + 1}
         /\ Restarted => Held' = {}
         /\ \A m \in toClient : Answered(m) => Held' \subseteq Held /\ Held \ Held' \subseteq received
         /\ \/ Quiet /\ ~Sent
            \/ \E p \in Made : Repeated(p)
            \/ \E p \in PacketType : MadePacket(p)
            => Held' = Held
<1>. QueueInOrder /\ queueOut \in Seq(Nat)
  BY QueueFacts DEF HInv
<1>1. UNCHANGED <<queueOut, wnd>> => Held' = Held
  BY DEF Held, WndData, Cells
<1>2. ASSUME Sent
      PROVE  Held' = Held \cup {accepted + 1}
  <2>1. UNCHANGED wnd /\ queueOut' = Append(queueOut, accepted + 1)
    BY <1>2 DEF Sent, PushLast, windowVars
  <2>2. {queueOut'[i] : i \in DOMAIN queueOut'} = {queueOut[i] : i \in DOMAIN queueOut} \cup {accepted + 1}
    <3>1. accepted \in Nat
      BY DEF IInv, TypeOK, UserTypeOK
    <3>2. DOMAIN queueOut' = 1 .. (Len(queueOut) + 1) /\ DOMAIN queueOut = 1 .. Len(queueOut)
      BY <2>1, <3>1
    <3>3. queueOut'[Len(queueOut) + 1] = accepted + 1 /\ \A i \in DOMAIN queueOut : queueOut'[i] = queueOut[i]
      BY <2>1, <3>1
    <3>4. DOMAIN queueOut' = DOMAIN queueOut \cup {Len(queueOut) + 1}
      BY <3>2
    <3>. QED BY <3>3, <3>4
  <2>. QED BY <1>2, <2>1, <2>2 DEF Held, WndData, Cells
<1>3. ASSUME Restarted
      PROVE  Held' = {}
  BY <1>3 DEF Restarted, Held, WndData
<1>4. ASSUME NEW m \in toClient, Answered(m)
      PROVE  Held' \subseteq Held /\ Held \ Held' \subseteq received
  <2>1. queueOut' = queueOut /\ \A c \in Cells' : c \in Cells /\ wnd'[c] = wnd[c]
    BY <1>4 DEF Answered
  <2>2. ASSUME NEW n \in Held \ Held'
        PROVE  n \in received
    <3>1. PICK c \in Cells : n = wnd[c].data
      BY <2>1, <2>2, InHeld
    <3>2. c \notin Cells'
      BY <2>1, <2>2, <3>1, InHeld
    <3>. QED BY <1>4, <3>1, <3>2, FreedIsReceived
  <2>. QED BY <2>1, <2>2, InHeld
<1>5. ASSUME NEW p \in PacketType, MadeData(p)
      PROVE  Held' = Held
  <2>1. PICK k \in Nat : /\ Cells = 1 .. k /\ Cells' = 1 .. (k + 1)
                         /\ wnd'[k + 1] = p /\ \A c \in 1 .. k : wnd'[c] = wnd[c]
    BY <1>5 DEF MadeData
  <2>2. queueOut # <<>> /\ p.data = Head(queueOut) /\ queueOut' = Tail(queueOut)
    BY <1>5 DEF MadeData
  <2>3. Cells' = Cells \cup {k + 1} /\ k + 1 \notin Cells
    BY <2>1
  <2>4. WndData' = WndData \cup {Head(queueOut)}
    BY <2>1, <2>2, <2>3 DEF WndData
  <2>5. {queueOut[i] : i \in DOMAIN queueOut} =
          {Head(queueOut)} \cup {queueOut'[i] : i \in DOMAIN queueOut'}
    <3>1. Len(queueOut) \in Nat /\ Len(queueOut) >= 1 /\ Len(queueOut') = Len(queueOut) - 1
      BY <2>2
    <3>2. DOMAIN queueOut = 1 .. Len(queueOut) /\ DOMAIN queueOut' = 1 .. (Len(queueOut) - 1)
      BY <2>2, <3>1
    <3>3. Head(queueOut) = queueOut[1] /\ \A i \in DOMAIN queueOut' : queueOut'[i] = queueOut[i + 1]
      BY <2>2, <3>1
    <3>4. ASSUME NEW i \in DOMAIN queueOut
          PROVE  queueOut[i] \in {Head(queueOut)} \cup {queueOut'[j] : j \in DOMAIN queueOut'}
      <4>1. CASE i = 1
        BY <3>3, <4>1
      <4>2. CASE i # 1
        <5>1. i - 1 \in DOMAIN queueOut' /\ (i - 1) + 1 = i
          BY <3>1, <3>2, <4>2
        <5>. QED BY <3>3, <5>1
      <4>. QED BY <4>1, <4>2
    <3>5. ASSUME NEW j \in DOMAIN queueOut'
          PROVE  j + 1 \in DOMAIN queueOut
      BY <3>1, <3>2
    <3>6. 1 \in DOMAIN queueOut
      BY <3>1, <3>2
    <3>. QED BY <3>3, <3>4, <3>5, <3>6
  <2>. QED BY <2>4, <2>5 DEF Held
<1>6. (Quiet /\ ~Sent) \/ (\E p \in Made : Repeated(p)) => Held' = Held
  BY <1>1 DEF Quiet, Repeated
<1>7. ASSUME NEW p \in PacketType, MadePacket(p)
      PROVE  Held' = Held
  BY <1>1, <1>5, <1>7 DEF MadePacket, MadeBye, MadeControl, Held, WndData, Cells
<1>. QED BY <1>2, <1>3, <1>4, <1>6, <1>7

\* A reset changes the counter, wherever it wraps around.
LEMMA ResetShows ==
  ASSUME IInv
  PROVE  (resets + 1) % ResetWrap # resets
<1>1. resets \in Nat /\ resets < ResetWrap /\ ResetWrap \in Nat /\ ResetWrap >= 2
  BY TransportAssumption DEF IInv, TypeOK, UserTypeOK
<1>2. CASE resets + 1 < ResetWrap
  <2>1. (resets + 1) % ResetWrap = resets + 1
    BY <1>1, <1>2
  <2>. QED BY <1>1, <2>1
<1>3. CASE resets + 1 = ResetWrap
  <2>1. (resets + 1) % ResetWrap = 0
    BY <1>1, <1>3
  <2>. QED BY <1>1, <1>3, <2>1
<1>. QED BY <1>1, <1>2, <1>3

\* A packet leaves the client only received, or with a reset that users can see.
THEOREM LossNeedsReset ==
  ASSUME IdsSuffice
  PROVE  Spec => LossIsAnnounced
<1>1. IInv /\ HInv /\ [Next]_vars => [\A n \in Held : n \in Held' \cup received \/ resets' # resets]_vars
  <2>. SUFFICES ASSUME IInv, HInv, [Next]_vars, NEW n \in Held, resets' = resets
                PROVE  n \in Held' \cup received
    OBVIOUS
  <2>1. Effect /\ ~Restarted
    BY HInvStep, ResetShows DEF Restarted
  <2>. QED BY <2>1, HeldStep DEF Effect
<1>. QED BY <1>1, HistoryInvariant, PTL DEF Spec, LossIsAnnounced

-----------------------------------------------------------------------------
(* The refinement of Session.                                              *)

\* Whatever the client holds has been accepted; what is queued was not yet sent.
LEMMA HeldOrder ==
  ASSUME IInv, HInv, NEW n \in Held, n <= Pulled, NEW m \in Held
  PROVE  n < m + WndMaxCount
<1>1. /\ Pulled \in Nat /\ queueOut \in Seq(Nat) /\ WndMaxCount \in Nat /\ WndMaxCount >= 1
      /\ \A i \in DOMAIN queueOut : i >= 1 /\ i \in Nat /\ queueOut[i] = Pulled + i
  BY QueueFacts, TransportAssumption DEF HInv, QueueInOrder
<1>2. PICK c \in Cells : n = wnd[c].data
  BY <1>1, InHeld
<1>3. n \in Nat /\ c \in 1 .. WndMaxCount
  BY <1>2 DEF IInv, TypeOK, WindowTypeOK, PacketType, WindowHasRoom
<1>4. CASE \E i \in DOMAIN queueOut : m = queueOut[i]
  BY <1>1, <1>3, <1>4
<1>5. ASSUME NEW d \in Cells, m = wnd[d].data
      PROVE  n < m + WndMaxCount
  <2>1. m \in Nat /\ d \in 1 .. WndMaxCount
    BY <1>5 DEF IInv, TypeOK, WindowTypeOK, PacketType, WindowHasRoom
  <2>2. n - m = c - d
    BY <1>2, <1>5 DEF HInv, WindowInOrder
  <2>. QED BY <1>1, <1>3, <2>1, <2>2
<1>. QED BY <1>4, <1>5, InHeld

\* What the server does with a data packet
LEMMA DeliverStep ==
  ASSUME IInv, HInv, IdsSuffice, NEW p \in toServer, SrvData(p)
  PROVE  Promise!Next
<1>1. p.data \in 1 .. Pulled /\ Pulled \in Nat /\ accepted \in Nat /\ Pulled <= accepted
  BY QueueFacts DEF SrvData, HInv, QueueInOrder
<1>2. p.data \in 1 .. accepted /\ p.data <= Pulled
  BY <1>1
<1>3. /\ received' = received \cup {p.data}
      /\ UNCHANGED <<accepted, connected, resets, queueOut, wnd>>
  BY DEF SrvData, UNCHANGEDClient, userVars, windowVars
<1>4. Held' = Held
  BY <1>3 DEF Held, WndData, Cells
<1>5. Promise!Deliver(p.data)
  BY <1>2, <1>3, <1>4, HeldOrder DEF Promise!Deliver
<1>. QED BY <1>2, <1>5 DEF Promise!Next

\* Steps that leave alone what Session speaks of
LEMMA StutterStep ==
  ASSUME UNCHANGED <<accepted, received, connected, resets>>, Held' = Held
  PROVE  UNCHANGED Promise!vars
BY DEF Promise!vars

\* Session's step for each kind of step
LEMMA QuietKeepsPromise ==
  ASSUME IInv, HInv, IdsSuffice, Quiet, Held' = Held, ~Sent
  PROVE  [Promise!Next]_Promise!vars
<1>1. UNCHANGED accepted
  BY DEF Quiet
<1>2. CASE Server
  <2>1. UNCHANGED <<connected, resets>>
    BY <1>2 DEF Server, SrvHello, SrvData, SrvReport, SrvAlive, SrvRestart, UNCHANGEDClient, userVars
  <2>2. received' = received \/ \E p \in toServer : SrvData(p)
    BY <1>2 DEF Server, SrvHello, SrvReport, SrvAlive, SrvRestart, serverVars
  <2>. QED BY <1>1, <2>1, <2>2, DeliverStep, StutterStep
<1>3. CASE UNCHANGED outsideVars
  <2>1. received' = received
    BY <1>3 DEF outsideVars
  <2>2. CASE CommEstablish
    <3>1. ~connected /\ connected' = TRUE /\ resets' = (resets + 1) % ResetWrap
      BY <2>2 DEF CommEstablish
    <3>2. queueOut = <<>> /\ Cells = {}
      BY <2>2 DEF CommEstablish, IInv, NothingHeldWhenDown
    <3>3. Held = {}
      BY <3>2, InHeld
    <3>4. Promise!Connect
      BY <1>1, <2>1, <3>1, <3>3 DEF Promise!Connect, Promise!CountReset
    <3>. QED BY <3>4 DEF Promise!Next
  <2>3. CASE CommDisconnect
    <3>1. connected /\ connected' = FALSE /\ resets' = resets
      BY <2>3 DEF CommDisconnect
    <3>2. Promise!Disconnect
      BY <1>1, <2>1, <3>1 DEF Promise!Disconnect
    <3>. QED BY <3>2 DEF Promise!Next
  <2>4. CASE UNCHANGED <<connected, resets>>
    BY <1>1, <2>1, <2>4, StutterStep
  <2>. QED BY <2>2, <2>3, <2>4 DEF Quiet
<1>. QED BY <1>2, <1>3 DEF Quiet

\* Every step of the client, the network and the server is one that Session allows.
LEMMA PromiseStep ==
  ASSUME IInv, HInv, IdsSuffice, [Next]_vars
  PROVE  [Promise!Next]_Promise!vars
<1>1. Effect
  BY HInvStep
<1>2. CASE Sent
  <2>1. connected /\ accepted' = accepted + 1 /\ UNCHANGED <<received, connected, resets>>
    BY <1>2 DEF Sent, PushLast, serverVars
  <2>2. Promise!Accept
    BY <1>2, <2>1, HeldStep DEF Promise!Accept
  <2>. QED BY <2>2 DEF Promise!Next
<1>3. CASE Quiet /\ ~Sent
  BY <1>3, HeldStep, QuietKeepsPromise
<1>4. CASE Restarted
  <2>1. resets' = (resets + 1) % ResetWrap /\ UNCHANGED <<accepted, received, connected>>
    BY <1>4 DEF Restarted, outsideVars
  <2>2. Promise!Drop
    BY <1>4, <2>1, HeldStep DEF Promise!Drop, Promise!CountReset
  <2>. QED BY <2>2 DEF Promise!Next
<1>5. ASSUME NEW m \in toClient, Answered(m)
      PROVE  Promise!Next
  <2>. DEFINE S == Held \ Held'
  <2>1. UNCHANGED <<accepted, received, connected, resets>>
    BY <1>5 DEF Answered, outsideVars, linkVars
  <2>2. S \in SUBSET Held /\ S \subseteq received /\ Held' = Held \ S
    BY <1>5, HeldStep
  <2>3. Promise!Release(S)
    BY <2>1, <2>2 DEF Promise!Release
  <2>. QED BY <2>2, <2>3 DEF Promise!Next
<1>6. CASE (\E p \in Made : Repeated(p)) \/ (\E p \in PacketType : MadePacket(p))
  <2>1. UNCHANGED <<accepted, received, connected, resets>>
    BY <1>6 DEF Repeated, MadePacket, outsideVars, linkVars
  <2>. QED BY <1>6, <2>1, HeldStep, StutterStep
<1>. QED BY <1>1, <1>2, <1>3, <1>4, <1>5, <1>6 DEF Effect

\* The delivery protocol keeps the promise of Session: it holds every packet that it
\* accepted until a server has it, or counts a reset, and never lets a packet overtake
\* one that the server lacks by a window or more.
THEOREM PromiseIsKept ==
  ASSUME IdsSuffice
  PROVE  Spec => KeepsPromise
<1>1. Init => Promise!Init
  <2>. SUFFICES ASSUME Init PROVE Promise!Init
    OBVIOUS
  <2>1. Cells = {} /\ queueOut = <<>>
    BY DEF Init, Cells, EmptyWnd
  <2>2. Held = {}
    BY <2>1, InHeld
  <2>. QED BY <2>2 DEF Init, Promise!Init
<1>2. IInv /\ HInv /\ [Next]_vars => [Promise!Next]_Promise!vars
  BY PromiseStep
<1>. QED BY <1>1, <1>2, HistoryInvariant, PTL DEF Spec, KeepsPromise, Promise!Spec

-----------------------------------------------------------------------------
(* Hellos.                                                                 *)

\* What HelloIsAnswered says of one packet
FollowsHello(p) ==
  \E h \in toServer :
    /\ h.type = "hello" /\ h.id < p.id
    /\ \A g \in toServer : g.type = "hello" /\ g.id < p.id => g.id <= h.id
    /\ Acknowledged(h)

\* The newest hello, once it is acknowledged
NewestIsAcknowledged ==
  \E h \in toServer :
    /\ h.type = "hello" /\ Acknowledged(h)
    /\ \A g \in toServer : g.type = "hello" => g.id <= h.id

\* A packet that followed an acknowledged hello still does when only packets with
\* larger IDs join those that were sent.
LEMMA HelloStays ==
  ASSUME toServer \subseteq toServer', toClient \subseteq toClient', NEW p \in toServer, FollowsHello(p),
         \A g \in toServer' : g.type = "hello" /\ g \notin toServer => ~(g.id < p.id)
  PROVE  FollowsHello(p)'
<1>1. PICK h \in toServer :
        /\ h.type = "hello" /\ h.id < p.id
        /\ \A g \in toServer : g.type = "hello" /\ g.id < p.id => g.id <= h.id
        /\ Acknowledged(h)
  BY DEF FollowsHello
<1>2. Acknowledged(h)'
  BY <1>1 DEF Acknowledged
<1>. QED BY <1>1, <1>2 DEF FollowsHello

\* A step that sends no new packet, or a new one that is neither a hello nor needs one
LEMMA HelloStepNothingNew ==
  ASSUME HelloIsAnswered, toServer \subseteq toServer', toClient \subseteq toClient',
         \A g \in toServer' : g \in toServer \/ g.type = "bye"
  PROVE  HelloIsAnswered' /\ (NewestIsAcknowledged => NewestIsAcknowledged')
<1>1. ASSUME NEW p \in toServer', NeedsHello(p)
      PROVE  FollowsHello(p)'
  <2>1. p \in toServer
    BY <1>1 DEF NeedsHello
  <2>2. FollowsHello(p)
    BY <1>1, <2>1 DEF HelloIsAnswered, FollowsHello, NeedsHello, Acknowledged
  <2>. QED BY <2>1, <2>2, HelloStays
<1>2. HelloIsAnswered'
  BY <1>1 DEF HelloIsAnswered, FollowsHello, NeedsHello, Acknowledged
<1>3. ASSUME NewestIsAcknowledged
      PROVE  NewestIsAcknowledged'
  <2>1. PICK h \in toServer : /\ h.type = "hello" /\ Acknowledged(h)
                              /\ \A g \in toServer : g.type = "hello" => g.id <= h.id
    BY <1>3 DEF NewestIsAcknowledged
  <2>2. Acknowledged(h)'
    BY <2>1 DEF Acknowledged
  <2>. QED BY <2>1, <2>2 DEF NewestIsAcknowledged
<1>. QED BY <1>2, <1>3

\* Data, reports and pings are made only when the newest hello was acknowledged.
LEMMA HelloStep ==
  ASSUME IInv, HInv, IdsSuffice, HelloInv, [Next]_vars
  PROVE  HelloInv'
<1>1. HInv' /\ IInv' /\ Effect /\ toServer \subseteq toServer' /\ toClient \subseteq toClient'
  BY HInvStep, MadeGrows, OutsideFacts
<1>2. /\ HelloIsAnswered
      /\ control.type = "hello" => \A p \in toServer : p.type = "hello" \/ NeedsHello(p) => p.id <= control.id
      /\ control.type # "hello" => NewestIsAcknowledged
  BY DEF HelloInv, NewestIsAcknowledged
<1>3. lastId \in Nat /\ \A p \in Made : p.id \in Nat /\ p.id <= lastId
  BY MadeFacts DEF HInv, IdsIdentifyPackets, IInv, TypeOK, CommTypeOK, Ids
<1>4. CASE Quiet
  <2>1. control' = control /\ toServer' = toServer
    BY <1>4 DEF Quiet
  <2>2. HelloIsAnswered' /\ (NewestIsAcknowledged => NewestIsAcknowledged')
    BY <1>1, <1>2, <2>1, HelloStepNothingNew
  <2>. QED BY <1>2, <2>1, <2>2 DEF HelloInv, NewestIsAcknowledged, NeedsHello
<1>5. ASSUME NEW m \in toClient, Answered(m)
      PROVE  HelloInv'
  <2>1. control' = NoPacket /\ toServer' = toServer /\ m.src = control.id /\ waiting
        /\ UNCHANGED toClient
    BY <1>5 DEF Answered, outsideVars
  <2>2. HelloIsAnswered' /\ (NewestIsAcknowledged => NewestIsAcknowledged')
    BY <1>1, <1>2, <2>1, HelloStepNothingNew
  <2>3. ASSUME control.type = "hello"
        PROVE  NewestIsAcknowledged'
    <3>1. control \in toServer
      BY <2>1 DEF HInv, IdsIdentifyPackets
    <3>2. m.type # "lost"
      <4>1. m.type = "lost" => \E p \in toServer : p.id = m.src /\ p.type = "report"
        BY DEF HInv, AnswersAreTrue, IsTrue
      <4>2. \A p \in toServer : p.id = control.id => p = control
        BY <3>1, SentIsMade DEF HInv, IdsIdentifyPackets
      <4>. QED BY <2>1, <2>3, <4>1, <4>2
    <3>3. m \in toClient' /\ m.type = "ack" /\ m.src = control.id /\ m.result
      BY <1>5, <2>1, <3>2 DEF Answered
    <3>4. \A g \in toServer : g.type = "hello" => g.id <= control.id
      BY <1>2, <2>3
    <3>. QED BY <2>1, <2>3, <3>1, <3>3, <3>4 DEF NewestIsAcknowledged, Acknowledged
  <2>. QED BY <1>2, <2>1, <2>2, <2>3, NoPacketFacts DEF HelloInv, NewestIsAcknowledged
<1>6. CASE Restarted
  <2>1. PICK cid \in Nat : control' = Hello(lastId + 1, cid)
    BY <1>6 DEF Restarted
  <2>2. toServer' = toServer /\ control'.type = "hello" /\ control'.id = lastId + 1
    BY <1>6, <2>1, HelloFacts DEF Restarted
  <2>3. HelloIsAnswered'
    BY <1>1, <1>2, <2>2, HelloStepNothingNew
  <2>4. \A p \in toServer : p.id <= lastId + 1
    BY <1>3, SentIsMade
  <2>. QED BY <2>2, <2>3, <2>4 DEF HelloInv
<1>7. ASSUME NEW p \in Made, Repeated(p)
      PROVE  HelloInv'
  <2>1. toServer' = toServer \cup {p} /\ control' = control
    BY <1>7 DEF Repeated
  <2>2. CASE p \in toServer
    <3>1. HelloIsAnswered' /\ (NewestIsAcknowledged => NewestIsAcknowledged')
      BY <1>1, <1>2, <2>1, <2>2, HelloStepNothingNew
    <3>. QED BY <1>2, <2>1, <2>2, <3>1 DEF HelloInv, NewestIsAcknowledged, NeedsHello
  <2>3. CASE p \notin toServer
    <3>1. p = control /\ control.type = "hello"
      <4>1. p = control /\ p # NoPacket
        BY <2>3 DEF Made
      <4>2. control.type \notin {"alive", "report", "none"}
        BY <2>3, <4>1, NoPacketFacts DEF HInv, IdsIdentifyPackets, IInv, TypeOK, CommTypeOK
      <4>. QED BY <4>1, <4>2 DEF IInv, ControlFitsWindow
    <3>2. ASSUME NEW q \in toServer', NeedsHello(q)
          PROVE  FollowsHello(q)'
      <4>1. q \in toServer
        BY <2>1, <3>1, <3>2 DEF NeedsHello
      <4>2. FollowsHello(q)
        BY <1>2, <3>2, <4>1 DEF HelloIsAnswered, FollowsHello, NeedsHello, Acknowledged
      <4>3. q.id \in Nat /\ p.id \in Nat /\ q.id <= p.id
        BY <1>2, <1>3, <3>1, <3>2, <4>1, SentIsMade
      <4>. QED BY <1>1, <2>1, <4>1, <4>2, <4>3, HelloStays
    <3>3. HelloIsAnswered'
      BY <3>2 DEF HelloIsAnswered, FollowsHello, NeedsHello, Acknowledged
    <3>4. control.id \in Nat
      BY <1>3, <3>1
    <3>. QED BY <1>2, <2>1, <3>1, <3>3, <3>4 DEF HelloInv, NeedsHello
  <2>. QED BY <2>2, <2>3
<1>8. ASSUME NEW p \in PacketType, MadePacket(p)
      PROVE  HelloInv'
  <2>1. toServer' = toServer \cup {p} /\ p.id = lastId + 1
    BY <1>8 DEF MadePacket
  <2>2. CASE MadeBye(p)
    <3>1. p.type = "bye" /\ control' = control
      BY <2>2 DEF MadeBye
    <3>2. HelloIsAnswered' /\ (NewestIsAcknowledged => NewestIsAcknowledged')
      BY <1>1, <1>2, <2>1, <3>1, HelloStepNothingNew
    <3>. QED BY <1>2, <2>1, <3>1, <3>2 DEF HelloInv, NewestIsAcknowledged, NeedsHello
  <2>3. CASE MadeControl(p) \/ MadeData(p)
    <3>1. control = NoPacket /\ control' \in {p, control} /\ p.type # "hello" /\ control'.type # "hello"
      BY <2>3, NoPacketFacts DEF MadeControl, MadeData
    <3>2. PICK h \in toServer : /\ h.type = "hello" /\ Acknowledged(h)
                                /\ \A g \in toServer : g.type = "hello" => g.id <= h.id
      BY <1>2, <3>1, NoPacketFacts DEF NewestIsAcknowledged
    <3>3. Acknowledged(h)' /\ \A g \in toServer' : g.type = "hello" => g \in toServer /\ g.id <= h.id
      BY <1>1, <2>1, <3>1, <3>2 DEF Acknowledged
    <3>4. FollowsHello(p)'
      <4>1. h.id < p.id
        BY <1>3, <2>1, SentIsMade
      <4>. QED BY <2>1, <3>2, <3>3, <4>1 DEF FollowsHello
    <3>5. ASSUME NEW q \in toServer', NeedsHello(q)
          PROVE  FollowsHello(q)'
      <4>1. CASE q \in toServer
        <5>1. FollowsHello(q)
          BY <1>2, <3>5, <4>1 DEF HelloIsAnswered, FollowsHello, NeedsHello, Acknowledged
        <5>. QED BY <1>1, <3>3, <4>1, <5>1, HelloStays
      <4>. QED BY <2>1, <3>4, <3>5, <4>1
    <3>6. HelloIsAnswered'
      BY <3>5 DEF HelloIsAnswered, FollowsHello, NeedsHello, Acknowledged
    <3>. QED BY <2>1, <3>1, <3>2, <3>3, <3>6 DEF HelloInv
  <2>. QED BY <1>8, <2>2, <2>3 DEF MadePacket
<1>. QED BY <1>1, <1>4, <1>5, <1>6, <1>7, <1>8 DEF Effect

\* Data, reports and pings only follow a hello that was acknowledged.
THEOREM HelloComesFirst ==
  ASSUME IdsSuffice
  PROVE  Spec => []HelloIsAnswered
<1>1. Init => HelloInv
  <2>. SUFFICES ASSUME Init PROVE HelloInv
    OBVIOUS
  <2>1. toServer = {} /\ control.type = "hello"
    BY IdFacts, PacketFacts DEF Init
  <2>. QED BY <2>1 DEF HelloInv, HelloIsAnswered
<1>2. IInv /\ HInv /\ HelloInv /\ [Next]_vars => HelloInv'
  BY HelloStep
<1>3. HelloInv => HelloIsAnswered
  BY DEF HelloInv
<1>. QED BY <1>1, <1>2, <1>3, HistoryInvariant, PTL DEF Spec

-----------------------------------------------------------------------------
(* Commands that came with answers.                                        *)

\* Chnl_Routine moves a packet from one sequence to the other.
LEMMA DispatchKeeps ==
  ASSUME IInv, Dispatch
  PROVE  Kept' = Kept
<1>. DEFINE h == Head(queueIn)
            t == Tail(queueIn)
<1>1. queueIn \in Seq(Ids) /\ dispatched \in Seq(Ids) /\ queueIn # <<>>
  BY DEF IInv, TypeOK, UserTypeOK, Dispatch
<1>2. h \in Ids /\ t \in Seq(Ids) /\ <<h>> \in Seq(Ids)
  BY <1>1
<1>3. <<h>> \o t = queueIn
  BY <1>1
<1>4. Append(dispatched, h) = dispatched \o <<h>>
  BY <1>1, <1>2, AppendIsConcat
<1>5. (dispatched \o <<h>>) \o t = dispatched \o (<<h>> \o t)
  BY <1>1, <1>2, ConcatAssociative
<1>. QED BY <1>3, <1>4, <1>5 DEF Dispatch, Kept

\* The answer kept goes to the end.
LEMMA AnswerJoinsKept ==
  ASSUME IInv, NEW m \in toClient, Answers(m), KeepExtra(m), UNCHANGED dispatched
  PROVE  /\ Kept \in Seq(Ids)
         /\ Kept' = Kept \/ Kept' = Append(Kept, control.id)
         /\ control # NoPacket /\ control.id \in Ids
<1>1. queueIn \in Seq(Ids) /\ dispatched \in Seq(Ids) /\ m.src \in Ids /\ m.src = control.id /\ control # NoPacket
  BY AnswerFacts DEF IInv, TypeOK, UserTypeOK, Answers, WaitingHasControl
<1>2. Kept \in Seq(Ids)
  BY <1>1, ConcatProperties DEF Kept
<1>3. CASE queueIn' = queueIn
  BY <1>1, <1>2, <1>3 DEF Kept
<1>4. CASE queueIn' = Append(queueIn, m.src)
  <2>1. Append(queueIn, m.src) = queueIn \o <<m.src>> /\ Append(Kept, m.src) = Kept \o <<m.src>>
    BY <1>1, <1>2, AppendIsConcat
  <2>2. <<m.src>> \in Seq(Ids)
    BY <1>1
  <2>3. dispatched \o (queueIn \o <<m.src>>) = (dispatched \o queueIn) \o <<m.src>>
    BY <1>1, <2>2, ConcatAssociative
  <2>. QED BY <1>1, <1>2, <1>4, <2>1, <2>3 DEF Kept
<1>. QED BY <1>3, <1>4 DEF KeepExtra

\* The control packet stays, is done with, or gets the next ID.
LEMMA ControlStays ==
  ASSUME IInv, IdsSuffice, Effect
  PROVE  \/ control' \in {control, NoPacket} /\ lastId' \in {lastId, lastId + 1}
         \/ control'.id = lastId + 1 /\ lastId' = lastId + 1
<1>1. CASE Quiet \/ (\E m \in toClient : Answered(m)) \/ (\E p \in Made : Repeated(p))
  BY <1>1 DEF Quiet, Answered, Repeated
<1>2. CASE Restarted
  BY <1>2, HelloFacts DEF Restarted
<1>3. CASE \E p \in PacketType : MadePacket(p)
  BY <1>3 DEF MadePacket, MadeBye, MadeControl, MadeData
<1>. QED BY <1>1, <1>2, <1>3 DEF Effect

\* The commands of an answer are kept once: the control packet that it answers is done
\* with, and the next one has a larger ID.
LEMMA DispatchStep ==
  ASSUME IInv, HInv, IdsSuffice, DispatchInv, [Next]_vars
  PROVE  DispatchInv'
<1>1. Effect
  BY HInvStep
<1>2. lastId \in Nat /\ Kept \in Seq(Ids) /\ \A i \in DOMAIN Kept : Kept[i] \in Nat
  <2>1. Kept \in Seq(Ids)
    BY ConcatProperties DEF Kept, IInv, TypeOK, UserTypeOK
  <2>2. \A i \in DOMAIN Kept : Kept[i] \in Ids
    BY <2>1
  <2>. QED BY <2>1, <2>2, TransportAssumption DEF Ids, IInv, TypeOK, CommTypeOK
<1>3. /\ \A i, j \in DOMAIN Kept : i # j => Kept[i] # Kept[j]
      /\ \A i \in DOMAIN Kept : Kept[i] <= lastId /\ (control # NoPacket => Kept[i] < control.id)
  BY DEF DispatchInv, DispatchedOnce, Kept
<1>4. CASE Kept' = Kept
  <2>1. ASSUME NEW i \in DOMAIN Kept
        PROVE  Kept[i] <= lastId' /\ (control' # NoPacket => Kept[i] < control'.id)
    <3>1. Kept[i] \in Nat /\ Kept[i] <= lastId /\ lastId \in Nat
      BY <1>2, <1>3
    <3>2. Kept[i] <= lastId + 1 /\ Kept[i] < lastId + 1
      BY <3>1
    <3>. QED BY <1>1, <1>3, <3>1, <3>2, ControlStays
  <2>. QED BY <1>3, <1>4, <2>1 DEF DispatchInv, DispatchedOnce, Kept
<1>5. CASE UNCHANGED inVars \/ Dispatch
  <2>1. Kept' = Kept
    BY <1>5, DispatchKeeps DEF inVars, Kept
  <2>. QED BY <1>4, <2>1
<1>6. ASSUME NEW m \in toClient, RecvAck(m) \/ RecvRefusal(m)
      PROVE  DispatchInv'
  <2>1. Answers(m) /\ KeepExtra(m) /\ UNCHANGED dispatched
    BY <1>6 DEF RecvAck, RecvRefusal
  <2>2. control # NoPacket /\ control.id \in Ids /\ (Kept' = Kept \/ Kept' = Append(Kept, control.id))
    BY <2>1, AnswerJoinsKept
  <2>3. control.id \in Nat /\ control.id <= lastId
    BY <2>2, SentIsMade, MadeFacts DEF HInv, IdsIdentifyPackets
  <2>4. \/ control' = NoPacket /\ lastId' = lastId
        \/ control'.id = lastId + 1 /\ lastId' = lastId + 1
    BY <1>6, AnswerEffect, RestartEffect, HelloFacts DEF Answered, Restarted
  <2>5. CASE Kept' = Append(Kept, control.id)
    <3>. DEFINE n == Len(Kept) + 1
    <3>1. /\ Len(Kept) \in Nat /\ DOMAIN Kept = 1 .. Len(Kept) /\ DOMAIN Kept' = 1 .. n /\ Kept'[n] = control.id
          /\ \A i \in 1 .. Len(Kept) : Kept'[i] = Kept[i]
      BY <1>2, <2>2, <2>5, AppendProperties
    <3>2. ASSUME NEW i \in DOMAIN Kept'
          PROVE  i = n \/ i \in DOMAIN Kept
      BY <3>1
    <3>3. \A i \in DOMAIN Kept : Kept'[i] = Kept[i] /\ Kept[i] < control.id
      BY <1>3, <2>2, <3>1
    <3>4. ASSUME NEW i \in DOMAIN Kept', NEW j \in DOMAIN Kept', i # j
          PROVE  Kept'[i] # Kept'[j]
      <4>1. CASE i \in DOMAIN Kept /\ j \in DOMAIN Kept
        BY <1>3, <3>3, <3>4, <4>1
      <4>2. CASE i = n /\ j \in DOMAIN Kept
        BY <1>2, <2>3, <3>1, <3>3, <4>2
      <4>3. CASE j = n /\ i \in DOMAIN Kept
        BY <1>2, <2>3, <3>1, <3>3, <4>3
      <4>. QED BY <3>2, <3>4, <4>1, <4>2, <4>3
    <3>5. ASSUME NEW i \in DOMAIN Kept'
          PROVE  Kept'[i] <= lastId' /\ (control' # NoPacket => Kept'[i] < control'.id)
      <4>1. Kept'[i] \in Nat /\ Kept'[i] <= lastId
        BY <1>2, <1>3, <2>3, <3>1, <3>2, <3>3
      <4>. QED BY <1>2, <2>4, <4>1
    <3>. QED BY <3>4, <3>5 DEF DispatchInv, DispatchedOnce, Kept
  <2>. QED BY <1>4, <2>2, <2>5
<1>7. \/ UNCHANGED inVars \/ Dispatch
      \/ \E m \in toClient : RecvAck(m) \/ RecvRefusal(m)
  BY DEF Next, Comm, Recv, Pump, Server, Sent, PushLast, SetExit, CommWait, CommBye, CommExitPending, CommStatusKept,
     CommEstablish, CommDisconnect, CommDrop, RecvNothing, RecvDamaged, RecvIgnored, RecvServerReport,
     PumpWaits, PumpControl, PumpReport, PumpData, PumpResend, PumpResendReport, PumpPing, PumpNothing,
     Pumping, SrvHello, SrvData, SrvReport, SrvAlive, SrvRestart, UNCHANGEDClient, vars
<1>. QED BY <1>5, <1>6, <1>7

\* The commands of an answer reach the channels at most once.
THEOREM CommandsComeOnce ==
  ASSUME IdsSuffice
  PROVE  Spec => []DispatchedOnce
<1>1. Init => DispatchInv
  BY DEF Init, DispatchInv, DispatchedOnce, Kept
<1>2. IInv /\ HInv /\ DispatchInv /\ [Next]_vars => DispatchInv'
  BY DispatchStep
<1>3. DispatchInv => DispatchedOnce
  BY DEF DispatchInv
<1>. QED BY <1>1, <1>2, <1>3, HistoryInvariant, PTL DEF Spec

-----------------------------------------------------------------------------
(* The bye.                                                                *)

\* The communication thread has ended after its bye.
LEMMA DoneIsDone ==
  ASSUME commPC = "done"
  PROVE  ~Comm
BY DEF Comm, Recv, Pump, CommWait, CommBye, CommExitPending, CommStatusKept,
     CommEstablish, CommDisconnect, CommDrop, RecvNothing, RecvDamaged, RecvIgnored, RecvAck, RecvRefusal,
     RecvServerReport, Answers, ToPump, PumpWaits, PumpControl, PumpReport, PumpData, PumpResend,
     PumpResendReport, PumpPing, PumpNothing, Pumping

\* A reset is counted when the connection comes back, and when all is dropped.
LEMMA LinkFacts ==
  ASSUME IInv, IdsSuffice, Effect, [Next]_vars
  PROVE  \/ UNCHANGED resets /\ Owed' <= Owed
         \/ resets' = (resets + 1) % ResetWrap /\ Owed = 1 /\ Owed' = 0 /\ UNCHANGED lastId
         \/ Restarted
<1>1. CASE CommEstablish
  BY <1>1 DEF CommEstablish, Owed, controlVars
<1>2. CASE CommDisconnect
  BY <1>2 DEF CommDisconnect, Owed
<1>3. CASE CommDrop
  BY <1>3, RestartEffect
<1>4. CASE UNCHANGED <<connected, resets>> /\ (commPC' = commPC \/ commPC # "drop")
  BY <1>4 DEF Owed
<1>5. commPC' = commPC \/ commPC # "drop" \/ CommDrop
  BY DEF Next, Comm, Recv, Pump, Server, Sent, PushLast, SetExit, Dispatch, CommWait, CommBye, CommExitPending,
     CommStatusKept, CommEstablish, CommDisconnect, RecvNothing, RecvDamaged, RecvIgnored, RecvAck,
     RecvRefusal, RecvServerReport, Answers, ToPump,
     PumpWaits, PumpControl, PumpReport, PumpData, PumpResend, PumpResendReport, PumpPing, PumpNothing,
     Pumping, SrvHello, SrvData, SrvReport, SrvAlive, SrvRestart, UNCHANGEDClient, vars
<1>6. UNCHANGED <<connected, resets>> \/ CommEstablish \/ CommDisconnect \/ Restarted
  BY DEF Effect, Quiet, Answered, Repeated, MadePacket, linkVars
<1>. QED BY <1>1, <1>2, <1>3, <1>4, <1>5, <1>6

\* A client that counted no reset keeps what it accepted until it has been received.
LEMMA ByeStepNoReset ==
  ASSUME IInv, HInv, IdsSuffice, ResetsSuffice, ByeInv, [Next]_vars
  PROVE  /\ lastId' = 1 \/ lastId' <= IdBound
         /\ resets' + Owed' <= 2 * lastId' - 2
         /\ resets' = 0 => resets = 0 /\ 1 .. accepted' \subseteq Held' \cup received'
<1>1. Effect
  BY HInvStep
<1>2. /\ lastId \in Nat /\ lastId >= 1 /\ resets \in Nat /\ Owed \in 0 .. 1 /\ Owed' \in 0 .. 1
      /\ IdBound \in Nat /\ ResetWrap \in Nat /\ 2 * IdBound <= ResetWrap /\ accepted \in Nat
  BY TransportAssumption DEF IInv, TypeOK, CommTypeOK, UserTypeOK, Ids, Owed, ResetsSuffice
<1>3. lastId' = lastId \/ (lastId' = lastId + 1 /\ lastId < IdBound)
  BY <1>1 DEF Effect, Quiet, Answered, Restarted, Repeated, MadePacket
<1>4. (lastId = 1 \/ lastId <= IdBound) /\ resets + Owed <= 2 * lastId - 2
  BY DEF ByeInv
<1>5. lastId' = 1 \/ lastId' <= IdBound
  BY <1>2, <1>3, <1>4
<1>6. CASE UNCHANGED resets /\ Owed' <= Owed /\ ~Restarted
  <2>1. resets' + Owed' <= 2 * lastId' - 2
    BY <1>2, <1>3, <1>4, <1>6
  <2>2. ASSUME resets = 0
        PROVE  1 .. accepted' \subseteq Held' \cup received'
    <3>1. 1 .. accepted \subseteq Held \cup received
      BY <2>2 DEF ByeInv
    <3>2. CASE Sent
      <4>1. accepted' = accepted + 1 /\ UNCHANGED received
        BY <3>2 DEF Sent, PushLast, serverVars
      <4>2. 1 .. accepted' \subseteq (1 .. accepted) \cup {accepted + 1}
        BY <1>2, <4>1
      <4>. QED BY <3>1, <3>2, <4>1, <4>2, HeldStep
    <3>3. CASE ~Sent
      <4>1. accepted' = accepted
        BY <1>1, <3>3 DEF Effect, Quiet, Answered, Restarted, Repeated, MadePacket, outsideVars
      <4>2. Held \subseteq Held' \cup received
        BY <1>1, <1>6, <3>3, HeldStep DEF Effect
      <4>. QED BY <1>1, <3>1, <4>1, <4>2, OutsideFacts
    <3>. QED BY <3>2, <3>3
  <2>. QED BY <1>5, <1>6, <2>1, <2>2
<1>7. ASSUME \/ resets' = (resets + 1) % ResetWrap /\ Owed = 1 /\ Owed' = 0 /\ UNCHANGED lastId
             \/ Restarted
      PROVE  resets' # 0 /\ resets' + Owed' <= 2 * lastId' - 2
  <2>1. resets' = (resets + 1) % ResetWrap
    BY <1>7 DEF Restarted
  <2>2. resets + 1 < ResetWrap /\ resets + 1 + Owed' <= 2 * lastId' - 2
    <3>1. CASE Owed = 1 /\ Owed' = 0 /\ UNCHANGED lastId
      BY <1>2, <1>4, <3>1
    <3>2. CASE Restarted
      <4>1. lastId' = lastId + 1 /\ lastId < IdBound
        BY <3>2 DEF Restarted
      <4>2. resets + 1 <= 2 * lastId - 1 /\ 2 * lastId' - 2 = 2 * lastId /\ 2 * lastId + 2 <= 2 * IdBound
        BY <1>2, <1>4, <4>1
      <4>3. resets + 1 < ResetWrap
        BY <1>2, <4>2
      <4>4. resets + 1 + Owed' <= 2 * lastId
        <5>1. Owed' = 0 \/ Owed' = 1
          BY DEF Owed
        <5>2. resets + 1 + 0 <= 2 * lastId /\ resets + 1 + 1 <= 2 * lastId
          BY <1>2, <4>2
        <5>. QED BY <5>1, <5>2
      <4>. QED BY <4>2, <4>3, <4>4
    <3>. QED BY <1>7, <3>1, <3>2
  <2>3. resets' = resets + 1
    BY <1>2, <2>1, <2>2
  <2>. QED BY <1>2, <2>2, <2>3
<1>. QED BY <1>1, <1>5, <1>6, <1>7, LinkFacts

\* The client says bye once it holds nothing, and does nothing after it.
LEMMA ByeStepLast ==
  ASSUME IInv, HInv, IdsSuffice, ResetsSuffice, ByeInv, [Next]_vars
  PROVE  ByeInv'
<1>1. Effect /\ received \subseteq received'
  BY HInvStep, OutsideFacts
<1>2. CASE \E b \in toServer : b.type = "bye"
  <2>1. exit # "none" /\ commPC = "done" /\ (resets = 0 => 1 .. accepted \subseteq received)
    BY <1>2 DEF ByeInv, ByeAfterDelivery
  <2>2. Dispatch \/ Server \/ UNCHANGED vars
    BY <2>1, DoneIsDone DEF Next, Sent, PushLast, SetExit
  <2>3. UNCHANGED <<exit, commPC, accepted, resets>>
    BY <2>2 DEF Dispatch, Server, SrvHello, SrvData, SrvReport, SrvAlive, SrvRestart, UNCHANGEDClient,
       userVars, vars
  <2>. QED BY <1>1, <2>1, <2>3, ByeStepNoReset DEF ByeInv, ByeAfterDelivery
<1>3. CASE ~(\E b \in toServer : b.type = "bye")
  <2>1. CASE ~(\E b \in toServer' : b.type = "bye")
    BY <2>1, ByeStepNoReset DEF ByeInv, ByeAfterDelivery
  <2>2. CASE \E b \in toServer' : b.type = "bye"
    <3>1. \E p \in PacketType : MadePacket(p) /\ MadeBye(p)
      <4>1. PICK b \in toServer' : b.type = "bye"
        BY <2>2
      <4>2. \A p \in Made : p.type # "bye"
        BY <1>3, NoPacketFacts DEF Made, IInv, ControlFitsWindow
      <4>3. ~Quiet /\ ~Restarted /\ ~(\E m \in toClient : Answered(m)) /\ ~(\E p \in Made : Repeated(p))
        BY <1>3, <4>1, <4>2 DEF Quiet, Restarted, Answered, Repeated
      <4>4. PICK p \in PacketType : MadePacket(p)
        BY <1>1, <4>3 DEF Effect
      <4>5. p.type = "bye"
        BY <1>3, <4>1, <4>4 DEF MadePacket
      <4>. QED BY <4>4, <4>5 DEF MadePacket, MadeControl, MadeData
    <3>2. PICK p \in PacketType : MadePacket(p) /\ MadeBye(p)
      BY <3>1
    <3>3. commPC = "wait" /\ commPC' = "done" /\ exit # "none" /\ exit' = exit /\ IsReadyToExit
      BY <3>2 DEF MadePacket, MadeBye, linkVars
    <3>4. queueOut = <<>> /\ Cells = {}
      BY <3>3 DEF IsReadyToExit, IInv, NothingHeldWhenDown
    <3>5. Held = {} /\ Held' = Held
      BY <3>2, <3>4, InHeld, HeldStep
    <3>6. resets' = 0 => 1 .. accepted' \subseteq received'
      BY <3>5, ByeStepNoReset
    <3>. QED BY <3>3, <3>6, ByeStepNoReset DEF ByeInv, ByeAfterDelivery
  <2>. QED BY <2>1, <2>2
<1>. QED BY <1>2, <1>3

\* A client that says bye and has counted no reset leaves nothing behind.
THEOREM ByeComesLast ==
  ASSUME IdsSuffice, ResetsSuffice
  PROVE  Spec => []ByeAfterDelivery
<1>1. Init => ByeInv
  <2>. SUFFICES ASSUME Init PROVE ByeInv
    OBVIOUS
  <2>1. lastId = 1
    BY TransportAssumption DEF Init, IncPacketId
  <2>2. resets = 0 /\ Owed = 0 /\ accepted = 0 /\ toServer = {}
    BY DEF Init, Owed
  <2>. QED BY <2>1, <2>2 DEF ByeInv, ByeAfterDelivery
<1>2. IInv /\ HInv /\ ByeInv /\ [Next]_vars => ByeInv'
  BY ByeStepLast
<1>3. ByeInv => ByeAfterDelivery
  BY DEF ByeInv
<1>. QED BY <1>1, <1>2, <1>3, HistoryInvariant, PTL DEF Spec
=============================================================================
