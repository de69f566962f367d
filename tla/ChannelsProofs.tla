---------------------------- MODULE ChannelsProofs ----------------------------
(***************************************************************************)
(* Proofs about Channels: for any channels, IDs, commands and number of    *)
(* packets, signals match packets, no dead channel is called, and the      *)
(* commands are handled in order.                                          *)
(***************************************************************************)
EXTENDS Channels, SequenceTheorems, TLAPS

Places == {"out", "sleep", "timed", "signal"}
Packets == [number : Nat, commands : Seq(Ids)]
Records == [packet : Nat, position : Nat]

\* The types that the steps rely on
Types ==
  /\ counter \in [0 .. 1 -> Nat] /\ pc \in [{Thread} -> Places] /\ got \in [{Thread} -> Int]
  /\ queueIn \in Seq(Packets) /\ stored \in Nat
  /\ comm \in {"receive", "signal", "gone"}
  /\ chnl \in {"wait", "take", "enter", "dispatch", "call", "gone"}
  /\ packet \in Packets /\ position \in Nat
  /\ callee \in Objects \cup {NoChannel}
  /\ table \in [Ids -> Objects \cup {NoChannel}]
  /\ life \in [Objects -> {"new", "registered", "unregistered", "deleted"}]
  /\ handled \in Seq(Records)

-----------------------------------------------------------------------------
(* The steps of the event, as the client sees them.                        *)

\* Set counts one more; nothing else that the types are about changes.
LEMMA SetCounts ==
  ASSUME Types, NEW e \in 0 .. 1, Event!Set(e)
  PROVE  /\ counter' = [counter EXCEPT ![e] = @ + 1]
         /\ pc' = pc /\ got' = got
  BY DEF Event!Set

\* The steps of the thread in Wait before it looks for an event
Waiting == ChnlWaits \/ ChnlTakesCount \/ ChnlTimesOut

\* They leave the counters, and nothing but the event changes.
LEMMA WaitKeeps ==
  ASSUME Types, Waiting
  PROVE  /\ counter' = counter
         /\ pc' \in [{Thread} -> Places] /\ got' \in [{Thread} -> Int]
         /\ UNCHANGED <<queueIn, stored, comm, chnl, threadVars, channelVars, exit>>
<1>. USE DEF Types, Places, Event!eventVars
<1>1. CASE ChnlWaits
  BY <1>1 DEF ChnlWaits, Event!WaitTimed
<1>2. CASE ChnlTakesCount
  BY <1>2 DEF ChnlTakesCount, Event!SemTaken
<1>3. CASE ChnlTimesOut
  BY <1>3 DEF ChnlTimesOut, Event!TimedOut, Event!TimeOut
<1>. QED BY <1>1, <1>2, <1>3 DEF Waiting

\* It returns with an event that was set, whose counter is one less, or with none.
LEMMA WakeTakes ==
  ASSUME Types, ChnlWakes
  PROVE  /\ pc' \in [{Thread} -> Places] /\ got' \in [{Thread} -> Int]
         /\ \/ /\ counter' = counter
               /\ chnl' = "wait"
            \/ /\ counter[Data] > 0
               /\ counter' = [counter EXCEPT ![Data] = @ - 1]
               /\ chnl' = "take"
            \/ /\ counter[Exit] > 0
               /\ counter' = [counter EXCEPT ![Exit] = @ - 1]
               /\ chnl' = "gone"
<1>. USE DEF Types, Places, Exit, Data
<1>1. CASE Event!NotFound(Thread)
  <2>1. got' = [got EXCEPT ![Thread] = -1] /\ counter' = counter
    BY <1>1 DEF Event!NotFound, Event!Return, Event!TimeOut
  <2>2. pc' = [pc EXCEPT ![Thread] = "out"]
    BY <1>1 DEF Event!NotFound, Event!Return
  <2>3. got'[Thread] = -1
    BY <2>1
  <2>. QED BY <2>1, <2>2, <2>3 DEF ChnlWakes
<1>2. ASSUME NEW e \in 0 .. 1, Event!Found(Thread, e)
      PROVE  /\ pc' \in [{Thread} -> Places] /\ got' \in [{Thread} -> Int]
             /\ got'[Thread] = e /\ counter[e] > 0
             /\ counter' = [counter EXCEPT ![e] = @ - 1]
  <2>1. got' = [got EXCEPT ![Thread] = e] /\ pc' = [pc EXCEPT ![Thread] = "out"]
    BY <1>2 DEF Event!Found, Event!Return
  <2>2. counter[e] > 0
    BY <1>2 DEF Event!Found, Event!IsFirst
  <2>3. counter' = [counter EXCEPT ![e] = @ - 1]
    BY <1>2 DEF Event!Found, Event!Take
  <2>. QED BY <2>1, <2>2, <2>3
<1>3. Event!NotFound(Thread) \/ \E e \in 0 .. 1 : Event!Found(Thread, e)
  BY DEF ChnlWakes, Event!GetSignal, Event!Events
<1>. QED BY <1>1, <1>2, <1>3 DEF ChnlWakes

-----------------------------------------------------------------------------
(* Types.                                                                  *)

LEMMA IdsAreThere == Ids \subseteq Nat /\ <<>> \in Seq(Ids)
  BY ChannelsAssumption DEF ChannelsAssumption, Ids

LEMMA TypesInit == Init => Types
<1>. SUFFICES ASSUME Init PROVE Types
  OBVIOUS
<1>1. counter \in [0 .. 1 -> Nat] /\ pc \in [{Thread} -> Places] /\ got \in [{Thread} -> Int]
  BY DEF Init, Event!Init, Event!Events, Event!TimeOut, Places
<1>2. packet \in Packets
  BY IdsAreThere DEF Init, Packets
<1>. QED BY <1>1, <1>2 DEF Init, Types

\* Commands are taken and handled in steps that touch no channel, and channels come
\* and go in steps that touch no packet.
LEMMA TypesStep == Types /\ [Next]_vars => Types'
<1>. SUFFICES ASSUME Types, [Next]_vars PROVE Types'
  OBVIOUS
<1>. USE DEF Types
<1>1. CASE CommStore
  <2>1. PICK c \in Contents : queueIn' = Append(queueIn, [number |-> stored + 1, commands |-> c])
    BY <1>1 DEF CommStore
  <2>2. [number |-> stored + 1, commands |-> c] \in Packets
    BY ChannelsAssumption DEF ChannelsAssumption, Packets
  <2>3. queueIn' \in Seq(Packets)
    BY <2>1, <2>2
  <2>. QED BY <1>1, <2>3 DEF CommStore, eventVars, threadVars, channelVars
<1>2. CASE CommSignal
  <2>1. Event!Set(Data) /\ Data \in 0 .. 1
    BY <1>2 DEF CommSignal, Data
  <2>2. counter' \in [0 .. 1 -> Nat] /\ pc' = pc /\ got' = got
    BY <2>1, SetCounts
  <2>. QED BY <1>2, <2>2 DEF CommSignal, threadVars, channelVars
<1>3. CASE CommExit
  BY <1>3 DEF CommExit, eventVars, threadVars, channelVars
<1>4. CASE Waiting
  BY <1>4, WaitKeeps DEF threadVars, channelVars
<1>5. CASE ChnlWakes
  <2>1. counter' \in [0 .. 1 -> Nat] /\ chnl' \in {"wait", "take", "gone"}
    BY <1>5, WakeTakes DEF Data, Exit
  <2>. QED BY <1>5, <2>1, WakeTakes DEF ChnlWakes, threadVars, channelVars
<1>6. CASE ChnlTake
  <2>1. queueIn' \in Seq(Packets) /\ packet' \in Packets
    BY <1>6, HeadTailProperties DEF ChnlTake
  <2>. QED BY <1>6, <2>1 DEF ChnlTake, eventVars, channelVars
<1>7. CASE ChnlEnter
  BY <1>7 DEF ChnlEnter, eventVars, channelVars
<1>8. CASE ChnlLookup
  <2>1. packet.commands[position] \in Ids
    BY <1>8 DEF ChnlLookup, Packets
  <2>. QED BY <1>8, <2>1 DEF ChnlLookup, eventVars, channelVars
<1>9. CASE ChnlCall
  <2>1. [packet |-> packet.number, position |-> position] \in Records
    BY DEF Packets, Records
  <2>2. handled' \in Seq(Records)
    BY <1>9, <2>1 DEF ChnlCall
  <2>. QED BY <1>9, <2>2 DEF ChnlCall, eventVars, channelVars
<1>10. CASE ChnlLeave
  BY <1>10 DEF ChnlLeave, eventVars, threadVars, channelVars
<1>11. CASE ExitSignal
  <2>1. Event!Set(Exit) /\ Exit \in 0 .. 1
    BY <1>11 DEF ExitSignal, Exit
  <2>2. counter' \in [0 .. 1 -> Nat] /\ pc' = pc /\ got' = got
    BY <2>1, SetCounts
  <2>. QED BY <1>11, <2>2 DEF ExitSignal, threadVars, channelVars
<1>12. CASE Joined
  BY <1>12 DEF Joined, eventVars, threadVars, channelVars
<1>13. CASE UserLeave \/ \E c \in Objects : UserEnter(c)
  BY <1>13 DEF UserLeave, UserEnter, eventVars, threadVars
<1>14. ASSUME NEW c \in Objects, RegisterChannel(c) \/ UnregisterChannel(c) \/ DeleteChannel(c)
       PROVE  Types'
  <2>1. table' \in [Ids -> Objects \cup {NoChannel}]
    BY <1>14 DEF RegisterChannel, UnregisterChannel, DeleteChannel
  <2>2. life' \in [Objects -> {"new", "registered", "unregistered", "deleted"}]
    BY <1>14 DEF RegisterChannel, UnregisterChannel, DeleteChannel
  <2>. QED BY <1>14, <2>1, <2>2 DEF RegisterChannel, UnregisterChannel, DeleteChannel, eventVars, threadVars
<1>15. CASE UNCHANGED vars
  BY <1>15 DEF vars, eventVars, threadVars, channelVars
<1>. QED BY <1>1, <1>2, <1>3, <1>4, <1>5, <1>6, <1>7, <1>8, <1>9, <1>10, <1>11, <1>12, <1>13,
            <1>14, <1>15 DEF Next, CommThread, ChnlThread, ChnlRuns, Waiting

LEMMA TypesHold == Spec => []Types
<1>1. Init => Types
  BY TypesInit
<1>2. Types /\ [Next]_vars => Types'
  BY TypesStep
<1>. QED BY <1>1, <1>2, PTL DEF Spec

-----------------------------------------------------------------------------
(* Signals and packets.                                                    *)

LEMMA SignalStep ==
  ASSUME Types, SignalPerPacket, [Next]_vars
  PROVE  SignalPerPacket'
<1>. USE DEF SignalPerPacket
<1>0. Types'
  BY TypesStep
<1>1. CASE CommStore
  <2>1. Len(queueIn') = Len(queueIn) + 1
    BY <1>1 DEF CommStore, Types
  <2>. QED BY <1>1, <2>1 DEF CommStore, Types, Data, eventVars
<1>2. CASE CommSignal
  <2>1. counter' = [counter EXCEPT ![Data] = @ + 1]
    BY <1>2, SetCounts DEF CommSignal, Data
  <2>2. counter'[Data] = counter[Data] + 1
    BY <2>1 DEF Types, Data
  <2>. QED BY <1>2, <2>2 DEF CommSignal, Types, Data
<1>3. CASE CommExit
  BY <1>3 DEF CommExit, eventVars
<1>4. CASE Waiting
  BY <1>4, WaitKeeps
\* A count is taken together with the state in which the thread looks for a packet.
<1>5. CASE ChnlWakes
  <2>1. chnl = "wait" /\ UNCHANGED <<queueIn, comm>>
    BY <1>5 DEF ChnlWakes
  <2>2. CASE counter' = counter /\ chnl' = "wait"
    BY <2>1, <2>2
  <2>3. CASE counter' = [counter EXCEPT ![Data] = @ - 1] /\ chnl' = "take"
    <3>1. counter'[Data] = counter[Data] - 1
      BY <2>3 DEF Types, Data
    <3>. QED BY <2>1, <2>3, <3>1 DEF Types, Data
  <2>4. CASE counter' = [counter EXCEPT ![Exit] = @ - 1] /\ chnl' = "gone"
    <3>1. counter'[Data] = counter[Data]
      BY <2>4 DEF Types, Data, Exit
    <3>. QED BY <2>1, <2>4, <3>1
  <2>. QED BY <1>5, <2>2, <2>3, <2>4, WakeTakes
\* The thread never looks in vain, so that the queue is one shorter.
<1>6. CASE ChnlTake
  <2>1. Len(queueIn) = counter[Data] + (IF comm = "signal" THEN 1 ELSE 0) + 1
    BY <1>6 DEF ChnlTake
  <2>2. queueIn # <<>>
    BY <2>1 DEF Types, Data
  <2>3. Len(queueIn') = Len(queueIn) - 1 /\ chnl' = "enter"
    BY <1>6, <2>2, HeadTailProperties DEF ChnlTake, Types
  <2>. QED BY <1>6, <2>1, <2>3 DEF ChnlTake, Types, Data, eventVars
<1>7. CASE ChnlEnter \/ ChnlLookup \/ ChnlCall \/ ChnlLeave
  BY <1>7 DEF ChnlEnter, ChnlLookup, ChnlCall, ChnlLeave, eventVars
<1>8. CASE ExitSignal
  <2>1. counter' = [counter EXCEPT ![Exit] = @ + 1]
    BY <1>8, SetCounts DEF ExitSignal, Exit
  <2>2. counter'[Data] = counter[Data]
    BY <2>1 DEF Types, Data, Exit
  <2>. QED BY <1>8, <2>2 DEF ExitSignal
<1>9. CASE Joined
  BY <1>9 DEF Joined
<1>10. CASE UserLeave \/ \E c \in Objects :
              UserEnter(c) \/ RegisterChannel(c) \/ UnregisterChannel(c) \/ DeleteChannel(c)
  BY <1>10 DEF UserLeave, UserEnter, RegisterChannel, UnregisterChannel, DeleteChannel, eventVars
<1>11. CASE UNCHANGED vars
  BY <1>11 DEF vars, eventVars
<1>. QED BY <1>1, <1>2, <1>3, <1>4, <1>5, <1>6, <1>7, <1>8, <1>9, <1>10, <1>11
         DEF Next, CommThread, ChnlThread, ChnlRuns, Waiting

\* The counts of the data event are the packets that wait, whatever is set, taken
\* and interrupted: the channel thread wakes for each packet and for nothing else.
THEOREM SignalsMatch == Spec => []SignalPerPacket
<1>1. Init => SignalPerPacket
  BY DEF Init, SignalPerPacket, Event!Init, Event!Events, Data
<1>2. Types /\ SignalPerPacket /\ [Next]_vars => SignalPerPacket'
  BY SignalStep
<1>. QED BY <1>1, <1>2, TypesHold, PTL DEF Spec

-----------------------------------------------------------------------------
(* The table of channels.                                                  *)

\* A channel is in the table while it is registered, and in one place.
TableInv ==
  /\ \A i \in Ids : table[i] # NoChannel => life[table[i]] = "registered"
  /\ \A i, j \in Ids : table[i] # NoChannel /\ table[i] = table[j] => i = j

CalleeInv == TableInv /\ CalleeLives

LEMMA CalleeStep ==
  ASSUME Types, CalleeInv, [Next]_vars
  PROVE  CalleeInv'
<1>. USE DEF CalleeInv, TableInv, CalleeLives
<1>1. CASE ChnlLookup
  <2>1. packet.commands[position] \in Ids
    BY <1>1 DEF ChnlLookup, Types, Packets
  <2>. QED BY <1>1, <2>1 DEF ChnlLookup, channelVars
<1>2. CASE CommStore \/ CommSignal \/ CommExit \/ Waiting \/ ChnlWakes \/ ChnlTake
           \/ ChnlEnter \/ ChnlCall \/ ChnlLeave \/ ExitSignal \/ Joined
  <2>1. UNCHANGED <<table, life>>
    BY <1>2, WaitKeeps DEF CommStore, CommSignal, CommExit, ChnlWakes, ChnlTake, ChnlEnter,
       ChnlCall, ChnlLeave, ExitSignal, Joined, channelVars
  <2>2. chnl' = "call" => chnl = "call" /\ callee' = callee
    BY <1>2, WaitKeeps, WakeTakes DEF CommStore, CommSignal, CommExit, ChnlTake, ChnlEnter,
       ChnlCall, ChnlLeave, ExitSignal, Joined, threadVars
  <2>. QED BY <2>1, <2>2
<1>3. CASE UserLeave \/ \E c \in Objects : UserEnter(c)
  BY <1>3 DEF UserLeave, UserEnter, threadVars
<1>4. ASSUME NEW c \in Objects, RegisterChannel(c)
      PROVE  CalleeInv'
  <2>1. chnl # "call" /\ chnl' = chnl /\ life[c] = "new"
    BY <1>4 DEF RegisterChannel, Dispatching
  <2>2. \A i \in Ids : table[i] # c
    BY <2>1, ChannelsAssumption DEF ChannelsAssumption
  <2>3. CASE UNCHANGED table /\ life' = [life EXCEPT ![c] = "deleted"]
    BY <2>1, <2>2, <2>3 DEF Types
  <2>4. ASSUME NEW i \in Ids, table[i] = NoChannel, table' = [table EXCEPT ![i] = c],
               life' = [life EXCEPT ![c] = "registered"]
        PROVE  CalleeInv'
    BY <2>1, <2>2, <2>4 DEF Types
  <2>. QED BY <1>4, <2>3, <2>4 DEF RegisterChannel, Free
<1>5. ASSUME NEW c \in Objects, UnregisterChannel(c)
      PROVE  CalleeInv'
  <2>1. chnl # "call" /\ chnl' = chnl /\ life' = [life EXCEPT ![c] = "unregistered"]
    BY <1>5 DEF UnregisterChannel, Dispatching
  <2>2. PICK i \in Ids : table[i] = c /\ table' = [table EXCEPT ![i] = NoChannel]
    BY <1>5 DEF UnregisterChannel
  <2>3. c # NoChannel
    BY ChannelsAssumption DEF ChannelsAssumption
  <2>4. \A j \in Ids : table'[j] # NoChannel => j # i /\ table'[j] = table[j] /\ table[j] # c
    BY <2>2, <2>3 DEF Types
  <2>. QED BY <2>1, <2>2, <2>4 DEF Types
<1>6. ASSUME NEW c \in Objects, DeleteChannel(c)
      PROVE  CalleeInv'
  BY <1>6 DEF DeleteChannel, threadVars, Types
<1>7. CASE UNCHANGED vars
  BY <1>7 DEF vars, threadVars, channelVars
<1>. QED BY <1>1, <1>2, <1>3, <1>4, <1>5, <1>6, <1>7 DEF Next, CommThread, ChnlThread, ChnlRuns, Waiting

\* Whatever channels are registered and destroyed while packets are handled, the
\* channel thread calls only channels that are registered.
THEOREM CalleeIsAlive == Spec => []CalleeLives
<1>1. Init => CalleeInv
  BY DEF Init, CalleeInv, TableInv, CalleeLives
<1>2. Types /\ CalleeInv /\ [Next]_vars => CalleeInv'
  BY CalleeStep
<1>3. CalleeInv => CalleeLives
  BY DEF CalleeInv
<1>. QED BY <1>1, <1>2, <1>3, TypesHold, PTL DEF Spec

-----------------------------------------------------------------------------
(* The order of the commands.                                              *)

\* The numbers of the packets rise from the one in hand to the last of the queue.
QueueRises ==
  /\ packet.number <= stored
  /\ \A i \in DOMAIN queueIn : packet.number < queueIn[i].number /\ queueIn[i].number <= stored
  /\ \A i, j \in DOMAIN queueIn : i < j => queueIn[i].number < queueIn[j].number

\* What was handled comes before what is in hand.
HandledBefore ==
  \A i \in DOMAIN handled :
    /\ handled[i].packet <= packet.number
    /\ chnl = "enter" => handled[i].packet < packet.number
    /\ chnl \in {"dispatch", "call"} =>
         Earlier(handled[i], [packet |-> packet.number, position |-> position])

OrderInv == QueueRises /\ HandledBefore /\ HandledInOrder

LEMMA NumbersAreNumbers ==
  ASSUME Types
  PROVE  /\ packet.number \in Nat
         /\ \A i \in DOMAIN queueIn : queueIn[i].number \in Nat
         /\ \A i \in DOMAIN handled : handled[i].packet \in Nat
<1>1. /\ packet \in Packets
      /\ \A i \in DOMAIN queueIn : queueIn[i] \in Packets
      /\ \A i \in DOMAIN handled : handled[i] \in Records
  BY DEF Types
<1>2. /\ \A p \in Packets : p.number \in Nat
      /\ \A r \in Records : r.packet \in Nat
  BY DEF Packets, Records
<1>. QED BY <1>1, <1>2

LEMMA OrderStep ==
  ASSUME Types, OrderInv, [Next]_vars
  PROVE  OrderInv'
<1>. USE DEF OrderInv
<1>1. CASE CommStore
  <2>1. PICK c \in Contents : queueIn' = Append(queueIn, [number |-> stored + 1, commands |-> c])
    BY <1>1 DEF CommStore
  <2>. DEFINE p == [number |-> stored + 1, commands |-> c]
  <2>2. p \in Packets /\ p.number = stored + 1
    BY ChannelsAssumption DEF ChannelsAssumption, Packets, Types
  <2>3. /\ DOMAIN queueIn' = 1 .. Len(queueIn) + 1 /\ DOMAIN queueIn = 1 .. Len(queueIn)
        /\ queueIn'[Len(queueIn) + 1] = p
        /\ \A i \in DOMAIN queueIn : queueIn'[i] = queueIn[i]
    BY <2>1, <2>2 DEF Types
  <2>4. stored' = stored + 1 /\ UNCHANGED <<packet, position, handled, chnl>>
    BY <1>1 DEF CommStore, threadVars
  <2>5. \A i \in DOMAIN queueIn : queueIn[i].number \in Nat
    BY NumbersAreNumbers
  <2>. HIDE DEF p
  <2>6. packet.number \in Nat /\ stored \in Nat /\ Len(queueIn) \in Nat
    BY DEF Types, Packets
  <2>7. \A i \in DOMAIN queueIn' : packet.number < queueIn'[i].number /\ queueIn'[i].number <= stored + 1
    BY <2>2, <2>3, <2>5, <2>6 DEF QueueRises
  <2>8. \A i, j \in DOMAIN queueIn' : i < j => queueIn'[i].number < queueIn'[j].number
    BY <2>2, <2>3, <2>5, <2>6 DEF QueueRises
  <2>9. QueueRises'
    BY <2>4, <2>6, <2>7, <2>8 DEF QueueRises
  <2>. QED BY <2>4, <2>9 DEF HandledBefore, HandledInOrder, Earlier
<1>2. CASE ChnlTake
  <2>1. CASE queueIn = <<>>
    BY <1>2, <2>1 DEF ChnlTake, QueueRises, HandledBefore, HandledInOrder
  <2>2. CASE queueIn # <<>>
    <3>1. packet' = queueIn[1] /\ queueIn' = Tail(queueIn) /\ chnl' = "enter"
          /\ UNCHANGED <<stored, position, handled>>
      BY <1>2, <2>2, HeadTailProperties DEF ChnlTake, Types
    <3>2. /\ Len(queueIn') = Len(queueIn) - 1 /\ Len(queueIn) \in Nat \ {0}
          /\ \A i \in 1 .. Len(queueIn) - 1 : queueIn'[i] = queueIn[i + 1]
      BY <2>2, <3>1, HeadTailProperties DEF Types
    <3>3. DOMAIN queueIn = 1 .. Len(queueIn) /\ DOMAIN queueIn' = 1 .. Len(queueIn) - 1
      BY <3>2, TypesStep DEF Types
    <3>4. packet'.number > packet.number /\ packet'.number <= stored
      BY <3>1, <3>2, <3>3 DEF QueueRises
    <3>5. /\ \A i \in DOMAIN queueIn' : packet'.number < queueIn'[i].number /\ queueIn'[i].number <= stored
          /\ \A i, j \in DOMAIN queueIn' : i < j => queueIn'[i].number < queueIn'[j].number
      BY <3>1, <3>2, <3>3 DEF QueueRises
    <3>6. QueueRises'
      BY <3>1, <3>4, <3>5 DEF QueueRises
    <3>7. \A i \in DOMAIN handled : handled[i].packet \in Nat
      BY NumbersAreNumbers
    <3>8. packet.number \in Nat /\ packet'.number \in Nat
      BY <3>1, <3>2, <3>3, NumbersAreNumbers
    <3>9. HandledBefore'
      BY <3>1, <3>4, <3>7, <3>8 DEF HandledBefore
    <3>. QED BY <3>1, <3>6, <3>9 DEF HandledInOrder, Earlier
  <2>. QED BY <2>1, <2>2
<1>3. CASE ChnlEnter
  <2>1. /\ chnl = "enter" /\ chnl' = "dispatch"
        /\ UNCHANGED <<packet, handled, queueIn, stored>>
    BY <1>3 DEF ChnlEnter
  <2>. QED BY <2>1 DEF QueueRises, HandledBefore, HandledInOrder, Earlier
<1>4. CASE ChnlLookup
  BY <1>4 DEF ChnlLookup, QueueRises, HandledBefore, HandledInOrder, Earlier
<1>5. CASE ChnlCall
  <2>. DEFINE h == [packet |-> packet.number, position |-> position]
  <2>1. /\ chnl = "call" /\ chnl' = "dispatch" /\ position' = position + 1
        /\ UNCHANGED <<packet, queueIn, stored>>
        /\ handled' = handled \/ handled' = Append(handled, h)
    BY <1>5 DEF ChnlCall
  <2>2. QueueRises'
    BY <2>1 DEF QueueRises
  <2>3. h \in Records /\ h.packet = packet.number /\ h.position = position
    BY DEF Records, Types, Packets
  <2>4. \A i \in DOMAIN handled : Earlier(handled[i], h) /\ handled[i] \in Records
    BY <2>1 DEF HandledBefore, Types
  <2>5. packet.number \in Nat /\ position \in Nat
    BY DEF Types, Packets
  <2>. HIDE DEF h
  <2>6. CASE handled' = handled
    <3>1. \A i \in DOMAIN handled : Earlier(handled[i], [packet |-> packet.number, position |-> position + 1])
      BY <2>3, <2>4, <2>5 DEF Earlier, Records
    <3>2. HandledBefore'
      BY <2>1, <2>6, <3>1 DEF HandledBefore
    <3>. QED BY <2>2, <2>6, <3>2 DEF HandledInOrder, Earlier
  <2>7. CASE handled' = Append(handled, h)
    <3>1. /\ DOMAIN handled' = 1 .. Len(handled) + 1 /\ DOMAIN handled = 1 .. Len(handled)
          /\ Len(handled) \in Nat
          /\ handled'[Len(handled) + 1] = h
          /\ \A i \in DOMAIN handled : handled'[i] = handled[i]
      BY <2>3, <2>7 DEF Types
    <3>2. \A i \in DOMAIN handled' :
            Earlier(handled'[i], [packet |-> packet.number, position |-> position + 1])
      BY <2>3, <2>4, <2>5, <3>1 DEF Earlier, Records
    <3>3. \A i \in DOMAIN handled' : handled'[i].packet <= packet.number
      BY <2>3, <2>4, <2>5, <3>1 DEF Earlier, Records
    <3>4. HandledBefore'
      BY <2>1, <3>2, <3>3 DEF HandledBefore
    <3>5. \A i, j \in DOMAIN handled' : i < j => Earlier(handled'[i], handled'[j])
      BY <2>4, <3>1 DEF HandledInOrder
    <3>6. HandledInOrder'
      BY <3>5 DEF HandledInOrder, Earlier
    <3>. QED BY <2>2, <3>4, <3>6
  <2>. QED BY <2>1, <2>6, <2>7
<1>6. CASE ChnlLeave \/ ChnlWakes
  <2>1. UNCHANGED <<packet, position, handled, queueIn, stored>> /\ chnl' \in {"wait", "take", "gone"}
    BY <1>6, WakeTakes DEF ChnlLeave, ChnlWakes, threadVars
  <2>. QED BY <2>1 DEF QueueRises, HandledBefore, HandledInOrder, Earlier
<1>7. CASE Joined
  BY <1>7 DEF Joined, threadVars, QueueRises, HandledBefore, HandledInOrder, Earlier
<1>8. ASSUME UNCHANGED <<packet, position, handled, queueIn, stored, chnl>>
      PROVE  OrderInv'
  BY <1>8 DEF QueueRises, HandledBefore, HandledInOrder, Earlier
<1>9. CASE CommSignal \/ CommExit \/ Waiting \/ ExitSignal \/ UserLeave \/ UNCHANGED vars
  BY <1>8, <1>9, WaitKeeps DEF CommSignal, CommExit, ExitSignal, UserLeave, vars, threadVars
<1>10. ASSUME NEW c \in Objects,
              UserEnter(c) \/ RegisterChannel(c) \/ UnregisterChannel(c) \/ DeleteChannel(c)
       PROVE  OrderInv'
  BY <1>8, <1>10 DEF UserEnter, RegisterChannel, UnregisterChannel, DeleteChannel, threadVars
<1>. QED BY <1>1, <1>2, <1>3, <1>4, <1>5, <1>6, <1>7, <1>9, <1>10
         DEF Next, CommThread, ChnlThread, ChnlRuns, Waiting

\* For any packets and any interleaving of those who store, handle, register and
\* destroy: each command is handled after all that were stored before it.
THEOREM CommandsInOrder == Spec => []HandledInOrder
<1>1. Init => OrderInv
  BY DEF Init, OrderInv, QueueRises, HandledBefore, HandledInOrder
<1>2. Types /\ OrderInv /\ [Next]_vars => OrderInv'
  BY OrderStep
<1>3. OrderInv => HandledInOrder
  BY DEF OrderInv
<1>. QED BY <1>1, <1>2, <1>3, TypesHold, PTL DEF Spec
=============================================================================
