--------------------------- MODULE SendQueueProofs ---------------------------
(***************************************************************************)
(* Proofs about SendQueue, for every value of its constants.               *)
(***************************************************************************)
EXTENDS SendQueue, SequenceTheorems, WellFoundedInduction, TLAPS

-----------------------------------------------------------------------------
(* Arithmetic and sequences.                                               *)

\* The smaller of two numbers.
LEMMA MinOfTwo ==
  ASSUME NEW a \in Int, NEW b \in Int
  PROVE  Min({a, b}) = IF a <= b THEN a ELSE b
BY DEF Min

\* A number below the modulus is its own remainder.
LEMMA SmallMod ==
  ASSUME NEW a \in Nat, NEW w \in Nat, a < w
  PROVE  a % w = a
OBVIOUS

\* Products with a positive factor are ordered like the other factors.
LEMMA CapOrder ==
  /\ \A a, b \in Int : a <= b => Cap * a <= Cap * b
  /\ \A a, b \in Int : Cap * a < Cap * b => a < b
  /\ \A a \in Int : Cap * (a + 1) = Cap * a + Cap /\ Cap * a \in Int
  /\ \A a, b \in Int : Cap * (a - b) = Cap * a - Cap * b
<1>1. Cap \in Nat /\ Cap > 0
  BY SendQueueAssumption
<1>2. \A a, b \in Int : a <= b => Cap * a <= Cap * b
  BY <1>1
<1>3. \A a, b \in Int : Cap * a < Cap * b => a < b
  BY <1>1
<1>. QED BY <1>1, <1>2, <1>3

\* The list operations of the queue, by their lengths.
LEMMA QueueFacts ==
  ASSUME NEW S, NEW q \in Seq(S)
  PROVE  /\ \A e \in S : Append(q, e) \in Seq(S) /\ Len(Append(q, e)) = Len(q) + 1
         /\ q # <<>> => /\ Last(q) \in S
                        /\ Front(q) \in Seq(S) /\ Len(Front(q)) = Len(q) - 1
                        /\ Head(q) \in S
                        /\ Tail(q) \in Seq(S) /\ Len(Tail(q)) = Len(q) - 1
<1>1. ASSUME q # <<>>
      PROVE  Last(q) \in S /\ Front(q) \in Seq(S) /\ Len(Front(q)) = Len(q) - 1
  <2>1. Len(q) \in Nat \ {0}
    BY <1>1, EmptySeq
  <2>. DEFINE n == Len(q) - 1
  <2>2. n \in Nat /\ \A i \in 1 .. n : q[i] \in S
    BY <2>1, ElementOfSeq
  <2>. HIDE DEF n
  <2>3. SubSeq(q, 1, n) \in Seq(S) /\ Len(SubSeq(q, 1, n)) = n
    BY <2>2, SubSeqProperties
  <2>4. Last(q) \in S
    BY <2>1, ElementOfSeq DEF Last
  <2>. QED BY <2>3, <2>4 DEF Front, n
<1>. QED BY <1>1, HeadTailProperties

-----------------------------------------------------------------------------
(* Every packet has one owner.                                             *)

\* A packet that Sent fills has space, and Sent has no packet otherwise.
PacketHasSpace ==
  /\ sender = "fill" => Len(packet) < Cap
  /\ sender \notin {"fill", "putBack"} => packet = <<>>

\* The destructor runs once nobody calls Sent.
GoneTogether == comm = "gone" <=> sender = "gone"

\* The channel thread keeps up as far as backlog says.
CommandsBounded == backlog \in Nat /\ queueIn + One(chnl) <= backlog

Counted ==
  /\ TypeOK
  /\ PoolConserved
  /\ PacketHasSpace
  /\ GoneTogether
  /\ CommandsBounded

\* One is a number.
LEMMA OneFacts == One(TRUE) = 1 /\ One(FALSE) = 0
BY DEF One

\* Pulling a buffer conserves the packets.
LEMMA PullFacts ==
  ASSUME free \in Nat, allocated \in Nat, extracted \in Nat,
         PullBuffer, free + extracted = allocated
  PROVE  /\ free' \in Nat /\ allocated' \in Nat /\ extracted' = extracted + 1
         /\ free' + extracted' = allocated'
BY SendQueueAssumption DEF PullBuffer, CanPull

\* So does returning packets that are out.
LEMMA PushFacts ==
  ASSUME free \in Nat, allocated \in Nat, extracted \in Nat,
         NEW n \in Nat, n <= extracted, PushBuffers(n),
         free + extracted = allocated
  PROVE  /\ free' \in Nat /\ allocated' \in Nat
         /\ extracted' \in Nat /\ extracted' = extracted - n
         /\ free' + extracted' = allocated'
<1>1. Min({n, extracted}) = n
  BY MinOfTwo
<1>. QED BY <1>1 DEF PushBuffers

\* The two counts are numbers, and so are their parts.
LEMMA CountFacts ==
  ASSUME TypeOK
  PROVE  /\ Len(queueOut) \in Nat
         /\ One(recv) \in Nat /\ One(chnl) \in Nat
         /\ One(sender \in {"fill", "putBack"}) \in Nat
         /\ DataPackets \in Nat /\ OtherPackets \in Nat
<1>1. Len(queueOut) \in Nat /\ window \in Nat /\ queueIn \in Nat
  BY DEF TypeOK
<1>2. One(recv) \in Nat /\ One(chnl) \in Nat /\ One(sender \in {"fill", "putBack"}) \in Nat
  BY DEF One
<1>3. DataPackets \in Nat /\ OtherPackets \in Nat
  BY <1>1 DEF DataPackets, OtherPackets, One
<1>. QED BY <1>1, <1>2, <1>3

\* Nothing is out at the start.
LEMMA CountedInit == Init => Counted
<1>. SUFFICES ASSUME Init PROVE Counted
  OBVIOUS
<1>1. <<>> \in Seq(Seq(Nat)) /\ <<>> \in Seq(Nat) /\ Len(<<>>) = 0
  OBVIOUS
<1>2. TypeOK
  BY <1>1 DEF Init, TypeOK
<1>3. One(recv) = 0 /\ One(chnl) = 0 /\ One(sender \in {"fill", "putBack"}) = 0
  BY DEF Init, One
<1>4. DataPackets = 0 /\ OtherPackets = 0
  BY <1>1, <1>3 DEF Init, DataPackets, OtherPackets
<1>5. PoolConserved
  BY <1>4 DEF Init, PoolConserved
<1>6. PacketHasSpace /\ GoneTogether
  BY DEF Init, PacketHasSpace, GoneTogether
<1>7. CommandsBounded
  BY <1>3, SendQueueAssumption DEF Init, CommandsBounded
<1>. QED BY <1>2, <1>5, <1>6, <1>7 DEF Counted

\* Only Sent takes packets for data.
DataMoves == DataPackets' <= DataPackets \/ (SentPull /\ DataPackets' = DataPackets + 1)

\* No step loses a packet, counts one twice or breaks the types.
LEMMA CountedStep == Counted /\ [Next]_vars => Counted' /\ DataMoves
<1>. SUFFICES ASSUME Counted, [Next]_vars
              PROVE  Counted' /\ DataMoves
  OBVIOUS
<1>. USE DEF Counted, poolVars, sentVars, commVars, inVars
<1>0. /\ Len(queueOut) \in Nat
      /\ One(recv) \in Nat /\ One(chnl) \in Nat
      /\ DataPackets \in Nat /\ OtherPackets \in Nat
  BY CountFacts
<1>1. ASSUME NEW n \in Sizes, SentBegin(n)
      PROVE  Counted' /\ DataMoves
  <2>1. n \in Nat
    BY SendQueueAssumption
  <2>2. messages' \in Seq(Nat)
    BY <1>1, <2>1, QueueFacts DEF SentBegin, TypeOK
  <2>3. TypeOK'
    BY <1>1, <2>1, <2>2 DEF SentBegin, TypeOK
  <2>4. DataPackets' = DataPackets /\ OtherPackets' = OtherPackets
    BY <1>1, <2>1, <2>2, <1>0 DEF SentBegin, DataPackets, OtherPackets, One, TypeOK
  <2>5. comm # "gone" /\ comm' # "gone"
    BY <1>1, <2>1, <2>2, <1>0 DEF SentBegin, GoneTogether, PoolConserved, OtherPackets, One, TypeOK
  <2>6. PoolConserved'
    BY <1>1, <2>1, <2>2, <2>4, <2>5, <1>0 DEF SentBegin, PoolConserved, TypeOK
  <2>7. PacketHasSpace' /\ GoneTogether'
    BY <1>1, <2>1, <2>2 DEF SentBegin, PacketHasSpace, GoneTogether, TypeOK
  <2>8. CommandsBounded'
    BY <1>1, <1>0, SendQueueAssumption, <2>1, <2>2 DEF SentBegin, CommandsBounded, One, TypeOK
  <2>9. DataMoves
    BY <1>1, <1>0, <2>4, <2>1, <2>2 DEF DataMoves, TypeOK
  <2>. QED BY <2>3, <2>6, <2>7, <2>8, <2>9
<1>2. CASE SentLast
  <2>. USE <1>2 DEF SentLast
  <2>1. CASE queueOut = <<>>
    <3>1. TypeOK'
      BY <2>1 DEF TypeOK
    <3>2. DataPackets' = DataPackets /\ OtherPackets' = OtherPackets
      BY <2>1 DEF DataPackets, OtherPackets, One
    <3>3. PoolConserved'
      BY <2>1, <3>2 DEF PoolConserved
    <3>4. PacketHasSpace' /\ GoneTogether' /\ CommandsBounded'
      BY <2>1 DEF PacketHasSpace, GoneTogether, CommandsBounded
    <3>. QED BY <1>0, <3>1, <3>2, <3>3, <3>4 DEF DataMoves
  <2>2. CASE queueOut # <<>>
    <3>1. /\ packet' \in Seq(Nat) /\ queueOut' \in Seq(Seq(Nat))
          /\ Len(queueOut') = Len(queueOut) - 1
      BY <2>2, QueueFacts DEF TypeOK
    <3>2. sender' \in {"fill", "putBack"} /\ (sender' = "fill" => Len(packet') < Cap)
      BY <2>2
    <3>3. TypeOK'
      BY <3>1, <3>2 DEF TypeOK
    <3>4. One(sender \in {"fill", "putBack"}) = 0 /\ One(sender' \in {"fill", "putBack"}) = 1
      BY <3>2 DEF One
    <3>5. DataPackets' = DataPackets /\ OtherPackets' = OtherPackets
      BY <3>1, <3>4, <1>0 DEF DataPackets, OtherPackets, TypeOK
    <3>6. PoolConserved'
      BY <3>5 DEF PoolConserved
    <3>7. PacketHasSpace' /\ GoneTogether' /\ CommandsBounded'
      BY <3>2 DEF PacketHasSpace, GoneTogether, CommandsBounded
    <3>. QED BY <1>0, <3>3, <3>5, <3>6, <3>7 DEF DataMoves
  <2>. QED BY <2>1, <2>2
<1>3. CASE SentPutBack
  <2>. USE <1>3
  <2>1. queueOut' \in Seq(Seq(Nat)) /\ Len(queueOut') = Len(queueOut) + 1
    BY QueueFacts DEF SentPutBack, TypeOK
  <2>2. <<>> \in Seq(Nat)
    OBVIOUS
  <2>3. TypeOK'
    BY <2>1, <2>2 DEF SentPutBack, TypeOK
  <2>4. DataPackets' = DataPackets /\ OtherPackets' = OtherPackets
    BY <2>1, <2>2, <1>0 DEF SentPutBack, DataPackets, OtherPackets, One, TypeOK
  <2>5. comm # "gone" /\ comm' # "gone"
    BY <2>1, <2>2, <1>0 DEF SentPutBack, GoneTogether, PoolConserved, OtherPackets, One, TypeOK
  <2>6. PoolConserved'
    BY <2>1, <2>2, <2>4, <2>5, <1>0 DEF SentPutBack, PoolConserved, TypeOK
  <2>7. PacketHasSpace' /\ GoneTogether'
    BY <2>1, <2>2 DEF SentPutBack, PacketHasSpace, GoneTogether, TypeOK
  <2>8. CommandsBounded'
    BY <1>0, SendQueueAssumption, <2>1, <2>2 DEF SentPutBack, CommandsBounded, One, TypeOK
  <2>9. DataMoves
    BY <1>0, <2>4, <2>1, <2>2 DEF DataMoves, TypeOK
  <2>. QED BY <2>3, <2>6, <2>7, <2>8, <2>9
<1>4. CASE SentPull
  <2>. USE <1>4
  <2>1. Len(packet) < Cap
    BY SendQueueAssumption DEF SentPull, PacketHasSpace
  <2>2. /\ free' \in Nat /\ allocated' \in Nat /\ extracted' = extracted + 1
       /\ free' + extracted' = allocated'
    BY PullFacts DEF SentPull, TypeOK, PoolConserved
  <2>3. TypeOK'
    BY <2>1, <2>2 DEF SentPull, TypeOK
  <2>4. DataPackets' = DataPackets + 1 /\ OtherPackets' = OtherPackets
    BY <2>1, <2>2, <1>0 DEF SentPull, DataPackets, OtherPackets, One, TypeOK
  <2>5. comm # "gone" /\ comm' # "gone"
    BY <2>1, <2>2, <1>0 DEF SentPull, GoneTogether, PoolConserved, OtherPackets, One, TypeOK
  <2>6. PoolConserved'
    <3>1. extracted' = DataPackets' + OtherPackets'
      BY <2>4, <2>1, <2>2, <1>0 DEF PoolConserved
    <3>2. free' + extracted' = allocated'
      BY <2>2
    <3>. QED BY <2>5, <3>1, <3>2 DEF PoolConserved
  <2>7. PacketHasSpace' /\ GoneTogether'
    BY <2>1, <2>2 DEF SentPull, PacketHasSpace, GoneTogether, TypeOK
  <2>8. CommandsBounded'
    BY <1>0, SendQueueAssumption, <2>1, <2>2 DEF SentPull, CommandsBounded, One, TypeOK
  <2>9. DataMoves
    BY <1>0, <2>4, <2>1, <2>2 DEF DataMoves, TypeOK
  <2>. QED BY <2>3, <2>6, <2>7, <2>8, <2>9
<1>5. CASE SentPullFails
  <2>. USE <1>5
  <2>1. TypeOK'
    BY DEF SentPullFails, TypeOK
  <2>2. DataPackets' = DataPackets /\ OtherPackets' = OtherPackets
    BY <1>0 DEF SentPullFails, DataPackets, OtherPackets, One, TypeOK
  <2>3. comm # "gone" /\ comm' # "gone"
    BY <1>0 DEF SentPullFails, GoneTogether, PoolConserved, OtherPackets, One, TypeOK
  <2>4. PoolConserved'
    BY <2>2, <2>3, <1>0 DEF SentPullFails, PoolConserved, TypeOK
  <2>5. PacketHasSpace' /\ GoneTogether'
    BY DEF SentPullFails, PacketHasSpace, GoneTogether, TypeOK
  <2>6. CommandsBounded'
    BY <1>0, SendQueueAssumption DEF SentPullFails, CommandsBounded, One, TypeOK
  <2>7. DataMoves
    BY <1>0, <2>2 DEF DataMoves, TypeOK
  <2>. QED BY <2>1, <2>4, <2>5, <2>6, <2>7
<1>6. CASE SentFill
  <2>. DEFINE space == Cap - Len(packet)
              k == Min({space, left})
              piece == [i \in 1 .. k |-> Len(messages)]
              filled == packet \o piece
  <2>1. /\ queueOut' = Append(queueOut, filled) /\ left' = left - k
        /\ sender' \in {"none", "pull"}
        /\ UNCHANGED <<poolVars, messages, commVars, inVars>>
    BY <1>6 DEF SentFill
  <2>2. packet' = <<>> /\ packet' \in Seq(Nat)
    BY <1>6 DEF SentFill
  <2>3. sender = "fill"
    BY <1>6 DEF SentFill
  <2>4. Len(packet) \in Nat /\ Len(messages) \in Nat /\ left \in Nat /\ Cap \in Nat
    BY SendQueueAssumption DEF TypeOK
  <2>5. space \in Nat
    BY <2>3, <2>4 DEF PacketHasSpace
  <2>. HIDE DEF space
  <2>6. space \in Int /\ left \in Int
    BY <2>4, <2>5
  <2>7. k = IF space <= left THEN space ELSE left
    BY <2>6, MinOfTwo, Zenon
  <2>. HIDE DEF k
  <2>8. k \in Nat /\ k <= left
    BY <2>4, <2>5, <2>7
  <2>9. piece \in Seq(Nat)
    BY <2>4, <2>8
  <2>. HIDE DEF piece
  <2>10. filled \in Seq(Nat)
    BY <2>9, ConcatProperties DEF TypeOK
  <2>. HIDE DEF filled
  <2>11. queueOut \in Seq(Seq(Nat))
    BY DEF TypeOK
  <2>12. queueOut' \in Seq(Seq(Nat)) /\ Len(queueOut') = Len(queueOut) + 1
    BY <2>1, <2>10, <2>11, QueueFacts
  <2>13. TypeOK'
    BY <2>1, <2>2, <2>4, <2>8, <2>12 DEF TypeOK
  <2>14. One(sender \in {"fill", "putBack"}) = 1 /\ One(sender' \in {"fill", "putBack"}) = 0
    BY <2>1, <2>3 DEF One
  <2>15. DataPackets' = DataPackets /\ OtherPackets' = OtherPackets
    BY <1>0, <2>1, <2>12, <2>14 DEF DataPackets, OtherPackets, TypeOK
  <2>16. PoolConserved'
    BY <2>1, <2>15 DEF PoolConserved
  <2>17. PacketHasSpace' /\ GoneTogether' /\ CommandsBounded'
    BY <2>1, <2>2, <2>3 DEF PacketHasSpace, GoneTogether, CommandsBounded
  <2>. QED BY <1>0, <2>13, <2>15, <2>16, <2>17 DEF DataMoves
<1>7. CASE CommPull
  <2>. USE <1>7
  <2>1. /\ free' \in Nat /\ allocated' \in Nat /\ extracted' = extracted + 1
       /\ free' + extracted' = allocated'
    BY PullFacts DEF CommPull, TypeOK, PoolConserved
  <2>2. TypeOK'
    BY <2>1 DEF CommPull, TypeOK
  <2>3. DataPackets' = DataPackets /\ OtherPackets' = OtherPackets + 1
    BY <2>1, <1>0 DEF CommPull, DataPackets, OtherPackets, One, TypeOK
  <2>4. comm # "gone" /\ comm' # "gone"
    BY <2>1, <1>0 DEF CommPull, GoneTogether, PoolConserved, OtherPackets, One, TypeOK
  <2>5. PoolConserved'
    <3>1. extracted' = DataPackets' + OtherPackets'
      BY <2>3, <2>1, <1>0 DEF PoolConserved
    <3>2. free' + extracted' = allocated'
      BY <2>1
    <3>. QED BY <2>4, <3>1, <3>2 DEF PoolConserved
  <2>6. PacketHasSpace' /\ GoneTogether'
    BY <2>1 DEF CommPull, PacketHasSpace, GoneTogether, TypeOK
  <2>7. CommandsBounded'
    BY <1>0, SendQueueAssumption, <2>1 DEF CommPull, CommandsBounded, One, TypeOK
  <2>8. DataMoves
    BY <1>0, <2>3, <2>1 DEF DataMoves, TypeOK
  <2>. QED BY <2>2, <2>5, <2>6, <2>7, <2>8
<1>8. CASE CommKeep
  <2>. USE <1>8
  <2>1. queueIn' \in Nat /\ queueIn' + One(chnl) <= backlog /\ backlog' = backlog /\ recv' = FALSE
    BY <1>0, SendQueueAssumption DEF CommKeep, CommandsBounded, TypeOK
  <2>2. chnl' = chnl
    BY DEF CommKeep
  <2>3. TypeOK'
    BY <2>1, <2>2 DEF CommKeep, TypeOK
  <2>4. DataPackets' = DataPackets /\ OtherPackets' = OtherPackets
    BY <2>1, <2>2, <1>0 DEF CommKeep, DataPackets, OtherPackets, One, TypeOK
  <2>5. comm # "gone" /\ comm' # "gone"
    BY <2>1, <2>2, <1>0 DEF CommKeep, GoneTogether, PoolConserved, OtherPackets, One, TypeOK
  <2>6. PoolConserved'
    BY <2>1, <2>2, <2>4, <2>5, <1>0 DEF CommKeep, PoolConserved, TypeOK
  <2>7. PacketHasSpace' /\ GoneTogether'
    BY <2>1, <2>2 DEF CommKeep, PacketHasSpace, GoneTogether, TypeOK
  <2>8. CommandsBounded'
    BY <1>0, SendQueueAssumption, <2>1, <2>2 DEF CommKeep, CommandsBounded, One, TypeOK
  <2>9. DataMoves
    BY <1>0, <2>4, <2>1, <2>2 DEF DataMoves, TypeOK
  <2>. QED BY <2>3, <2>6, <2>7, <2>8, <2>9
<1>9. CASE CommReturn
  <2>. USE <1>9
  <2>1. 1 \in Nat /\ 1 <= extracted
    BY <1>0 DEF CommReturn, TypeOK, PoolConserved, DataPackets, OtherPackets, One
  <2>2. /\ free' \in Nat /\ allocated' \in Nat /\ extracted' \in Nat
       /\ extracted' = extracted - (1)
       /\ free' + extracted' = allocated'
    BY <2>1, PushFacts DEF CommReturn, TypeOK, PoolConserved
  <2>3. TypeOK'
    BY <2>1, <2>2 DEF CommReturn, TypeOK
  <2>4. DataPackets' = DataPackets /\ OtherPackets' = OtherPackets - 1
    BY <2>1, <2>2, <1>0 DEF CommReturn, DataPackets, OtherPackets, One, TypeOK
  <2>5. comm # "gone" /\ comm' # "gone"
    BY <2>1, <2>2, <1>0 DEF CommReturn, GoneTogether, PoolConserved, OtherPackets, One, TypeOK
  <2>6. PoolConserved'
    <3>1. extracted' = DataPackets' + OtherPackets'
      BY <2>4, <2>1, <2>2, <1>0 DEF PoolConserved
    <3>2. free' + extracted' = allocated'
      BY <2>2
    <3>. QED BY <2>5, <3>1, <3>2 DEF PoolConserved
  <2>7. PacketHasSpace' /\ GoneTogether'
    BY <2>1, <2>2 DEF CommReturn, PacketHasSpace, GoneTogether, TypeOK
  <2>8. CommandsBounded'
    BY <1>0, SendQueueAssumption, <2>1, <2>2 DEF CommReturn, CommandsBounded, One, TypeOK
  <2>9. DataMoves
    BY <1>0, <2>4, <2>1, <2>2 DEF DataMoves, TypeOK
  <2>. QED BY <2>3, <2>6, <2>7, <2>8, <2>9
<1>10. ASSUME NEW k \in 1 .. window, CommFree(k)
      PROVE  Counted' /\ DataMoves
  <2>1. k \in Nat /\ k <= extracted
    BY <1>10, <1>0 DEF CommFree, TypeOK, PoolConserved, DataPackets, OtherPackets, One
  <2>2. /\ free' \in Nat /\ allocated' \in Nat /\ extracted' \in Nat
       /\ extracted' = extracted - (k)
       /\ free' + extracted' = allocated'
    BY <1>10, <2>1, PushFacts DEF CommFree, TypeOK, PoolConserved
  <2>3. TypeOK'
    BY <1>10, <2>1, <2>2 DEF CommFree, TypeOK
  <2>4. DataPackets' = DataPackets - k /\ OtherPackets' = OtherPackets
    BY <1>10, <2>1, <2>2, <1>0 DEF CommFree, DataPackets, OtherPackets, One, TypeOK
  <2>5. comm # "gone" /\ comm' # "gone"
    BY <1>10, <2>1, <2>2, <1>0 DEF CommFree, GoneTogether, PoolConserved, OtherPackets, One, TypeOK
  <2>6. PoolConserved'
    <3>1. extracted' = DataPackets' + OtherPackets'
      BY <1>10, <2>4, <2>1, <2>2, <1>0 DEF PoolConserved
    <3>2. free' + extracted' = allocated'
      BY <2>2
    <3>. QED BY <2>5, <3>1, <3>2 DEF PoolConserved
  <2>7. PacketHasSpace' /\ GoneTogether'
    BY <1>10, <2>1, <2>2 DEF CommFree, PacketHasSpace, GoneTogether, TypeOK
  <2>8. CommandsBounded'
    BY <1>10, <1>0, SendQueueAssumption, <2>1, <2>2 DEF CommFree, CommandsBounded, One, TypeOK
  <2>9. DataMoves
    BY <1>10, <1>0, <2>4, <2>1, <2>2 DEF DataMoves, TypeOK
  <2>. QED BY <2>3, <2>6, <2>7, <2>8, <2>9
<1>11. CASE CommTake
  <2>. USE <1>11
  <2>1. /\ Head(queueOut) \in Seq(Nat) /\ queueOut' \in Seq(Seq(Nat))
       /\ Len(queueOut') = Len(queueOut) - 1
    BY QueueFacts DEF CommTake, TypeOK
  <2>2. taken' \in Seq(Nat)
    BY <2>1, ConcatProperties DEF CommTake, TypeOK
  <2>3. TypeOK'
    BY <2>1, <2>2 DEF CommTake, TypeOK
  <2>4. DataPackets' = DataPackets /\ OtherPackets' = OtherPackets
    BY <2>1, <2>2, <1>0 DEF CommTake, DataPackets, OtherPackets, One, TypeOK
  <2>5. comm # "gone" /\ comm' # "gone"
    BY <2>1, <2>2, <1>0 DEF CommTake, GoneTogether, PoolConserved, OtherPackets, One, TypeOK
  <2>6. PoolConserved'
    BY <2>1, <2>2, <2>4, <2>5, <1>0 DEF CommTake, PoolConserved, TypeOK
  <2>7. PacketHasSpace' /\ GoneTogether'
    BY <2>1, <2>2 DEF CommTake, PacketHasSpace, GoneTogether, TypeOK
  <2>8. CommandsBounded'
    BY <1>0, SendQueueAssumption, <2>1, <2>2 DEF CommTake, CommandsBounded, One, TypeOK
  <2>9. DataMoves
    BY <1>0, <2>4, <2>1, <2>2 DEF DataMoves, TypeOK
  <2>. QED BY <2>3, <2>6, <2>7, <2>8, <2>9
<1>12. CASE CommDisconnect
  <2>. USE <1>12
  <2>1. TypeOK'
    BY DEF CommDisconnect, TypeOK
  <2>2. DataPackets' = DataPackets /\ OtherPackets' = OtherPackets
    BY <1>0 DEF CommDisconnect, DataPackets, OtherPackets, One, TypeOK
  <2>3. comm # "gone" /\ comm' # "gone"
    BY <1>0 DEF CommDisconnect, GoneTogether, PoolConserved, OtherPackets, One, TypeOK
  <2>4. PoolConserved'
    BY <2>2, <2>3, <1>0 DEF CommDisconnect, PoolConserved, TypeOK
  <2>5. PacketHasSpace' /\ GoneTogether'
    BY DEF CommDisconnect, PacketHasSpace, GoneTogether, TypeOK
  <2>6. CommandsBounded'
    BY <1>0, SendQueueAssumption DEF CommDisconnect, CommandsBounded, One, TypeOK
  <2>7. DataMoves
    BY <1>0, <2>2 DEF DataMoves, TypeOK
  <2>. QED BY <2>1, <2>4, <2>5, <2>6, <2>7
<1>13. CASE CommConnect
  <2>. USE <1>13
  <2>1. TypeOK'
    BY DEF CommConnect, TypeOK
  <2>2. DataPackets' = DataPackets /\ OtherPackets' = OtherPackets
    BY <1>0 DEF CommConnect, DataPackets, OtherPackets, One, TypeOK
  <2>3. comm # "gone" /\ comm' # "gone"
    BY <1>0 DEF CommConnect, GoneTogether, PoolConserved, OtherPackets, One, TypeOK
  <2>4. PoolConserved'
    BY <2>2, <2>3, <1>0 DEF CommConnect, PoolConserved, TypeOK
  <2>5. PacketHasSpace' /\ GoneTogether'
    BY DEF CommConnect, PacketHasSpace, GoneTogether, TypeOK
  <2>6. CommandsBounded'
    BY <1>0, SendQueueAssumption DEF CommConnect, CommandsBounded, One, TypeOK
  <2>7. DataMoves
    BY <1>0, <2>2 DEF DataMoves, TypeOK
  <2>. QED BY <2>1, <2>4, <2>5, <2>6, <2>7
<1>14. CASE CommReset
  <2>. USE <1>14
  <2>1. /\ window' = 0 /\ queueOut' = queueOut /\ sender' = sender
       /\ recv' = recv /\ queueIn' = queueIn /\ chnl' = chnl
    BY DEF CommReset
  <2>2. window \in Nat /\ window <= extracted
    BY <2>1, <1>0 DEF CommReset, TypeOK, PoolConserved, DataPackets, OtherPackets, One
  <2>3. /\ free' \in Nat /\ allocated' \in Nat /\ extracted' \in Nat
       /\ extracted' = extracted - (window)
       /\ free' + extracted' = allocated'
    BY <2>2, PushFacts DEF CommReset, TypeOK, PoolConserved
  <2>4. TypeOK'
    BY <2>1, <2>2, <2>3 DEF CommReset, TypeOK
  <2>5. DataPackets' = DataPackets - window /\ OtherPackets' = OtherPackets
    BY <2>1, <2>2, <2>3, <1>0 DEF DataPackets, OtherPackets, One
  <2>6. comm # "gone" /\ comm' # "gone"
    BY <2>1, <2>2, <2>3, <1>0 DEF CommReset, GoneTogether, PoolConserved, OtherPackets, One, TypeOK
  <2>7. PoolConserved'
    <3>1. extracted' = DataPackets' + OtherPackets'
      BY <2>5, <2>1, <2>2, <2>3, <1>0 DEF PoolConserved
    <3>2. free' + extracted' = allocated'
      BY <2>3
    <3>. QED BY <2>6, <3>1, <3>2 DEF PoolConserved
  <2>8. PacketHasSpace' /\ GoneTogether'
    BY <2>1, <2>2, <2>3 DEF CommReset, PacketHasSpace, GoneTogether, TypeOK
  <2>9. CommandsBounded'
    BY <1>0, SendQueueAssumption, <2>1, <2>2, <2>3 DEF CommReset, CommandsBounded, One, TypeOK
  <2>10. DataMoves
    BY <1>0, <2>5, <2>1, <2>2, <2>3 DEF DataMoves, TypeOK
  <2>. QED BY <2>4, <2>7, <2>8, <2>9, <2>10
<1>15. CASE CommDrain
  <2>. USE <1>15
  <2>1. <<>> \in Seq(Seq(Nat)) /\ <<>> \in Seq(Nat) /\ Len(<<>>) = 0
    OBVIOUS
  <2>2. Len(queueOut) \in Nat /\ Len(queueOut) <= extracted
    BY <2>1, <1>0 DEF CommDrain, TypeOK, PoolConserved, DataPackets, OtherPackets, One
  <2>3. /\ free' \in Nat /\ allocated' \in Nat /\ extracted' \in Nat
       /\ extracted' = extracted - (Len(queueOut))
       /\ free' + extracted' = allocated'
    BY <2>2, PushFacts DEF CommDrain, TypeOK, PoolConserved
  <2>4. TypeOK'
    BY <2>1, <2>2, <2>3 DEF CommDrain, TypeOK
  <2>5. DataPackets' = DataPackets - Len(queueOut) /\ OtherPackets' = OtherPackets
    BY <2>1, <2>2, <2>3, <1>0 DEF CommDrain, DataPackets, OtherPackets, One, TypeOK
  <2>6. comm # "gone" /\ comm' # "gone"
    BY <2>1, <2>2, <2>3, <1>0 DEF CommDrain, GoneTogether, PoolConserved, OtherPackets, One, TypeOK
  <2>7. PoolConserved'
    <3>1. extracted' = DataPackets' + OtherPackets'
      BY <2>5, <2>1, <2>2, <2>3, <1>0 DEF PoolConserved
    <3>2. free' + extracted' = allocated'
      BY <2>3
    <3>. QED BY <2>6, <3>1, <3>2 DEF PoolConserved
  <2>8. PacketHasSpace' /\ GoneTogether'
    BY <2>1, <2>2, <2>3 DEF CommDrain, PacketHasSpace, GoneTogether, TypeOK
  <2>9. CommandsBounded'
    BY <1>0, SendQueueAssumption, <2>1, <2>2, <2>3 DEF CommDrain, CommandsBounded, One, TypeOK
  <2>10. DataMoves
    BY <1>0, <2>5, <2>1, <2>2, <2>3 DEF DataMoves, TypeOK
  <2>. QED BY <2>4, <2>7, <2>8, <2>9, <2>10
<1>16. CASE ChnlTake
  <2>. USE <1>16
  <2>1. TypeOK'
    BY DEF ChnlTake, TypeOK
  <2>2. DataPackets' = DataPackets /\ OtherPackets' = OtherPackets
    BY <1>0 DEF ChnlTake, DataPackets, OtherPackets, One, TypeOK
  <2>3. comm # "gone" /\ comm' # "gone"
    BY <1>0 DEF ChnlTake, GoneTogether, PoolConserved, OtherPackets, One, TypeOK
  <2>4. PoolConserved'
    BY <2>2, <2>3, <1>0 DEF ChnlTake, PoolConserved, TypeOK
  <2>5. PacketHasSpace' /\ GoneTogether'
    BY DEF ChnlTake, PacketHasSpace, GoneTogether, TypeOK
  <2>6. CommandsBounded'
    BY <1>0, SendQueueAssumption DEF ChnlTake, CommandsBounded, One, TypeOK
  <2>7. DataMoves
    BY <1>0, <2>2 DEF DataMoves, TypeOK
  <2>. QED BY <2>1, <2>4, <2>5, <2>6, <2>7
<1>17. CASE ChnlReturn
  <2>. USE <1>17
  <2>1. 1 \in Nat /\ 1 <= extracted
    BY <1>0 DEF ChnlReturn, TypeOK, PoolConserved, DataPackets, OtherPackets, One
  <2>2. /\ free' \in Nat /\ allocated' \in Nat /\ extracted' \in Nat
       /\ extracted' = extracted - (1)
       /\ free' + extracted' = allocated'
    BY <2>1, PushFacts DEF ChnlReturn, TypeOK, PoolConserved
  <2>3. TypeOK'
    BY <2>1, <2>2 DEF ChnlReturn, TypeOK
  <2>4. DataPackets' = DataPackets /\ OtherPackets' = OtherPackets - 1
    BY <2>1, <2>2, <1>0 DEF ChnlReturn, DataPackets, OtherPackets, One, TypeOK
  <2>5. comm # "gone" /\ comm' # "gone"
    BY <2>1, <2>2, <1>0 DEF ChnlReturn, GoneTogether, PoolConserved, OtherPackets, One, TypeOK
  <2>6. PoolConserved'
    <3>1. extracted' = DataPackets' + OtherPackets'
      BY <2>4, <2>1, <2>2, <1>0 DEF PoolConserved
    <3>2. free' + extracted' = allocated'
      BY <2>2
    <3>. QED BY <2>5, <3>1, <3>2 DEF PoolConserved
  <2>7. PacketHasSpace' /\ GoneTogether'
    BY <2>1, <2>2 DEF ChnlReturn, PacketHasSpace, GoneTogether, TypeOK
  <2>8. CommandsBounded'
    BY <1>0, SendQueueAssumption, <2>1, <2>2 DEF ChnlReturn, CommandsBounded, One, TypeOK
  <2>9. DataMoves
    BY <1>0, <2>4, <2>1, <2>2 DEF DataMoves, TypeOK
  <2>. QED BY <2>3, <2>6, <2>7, <2>8, <2>9
<1>18. CASE Destroy
  <2>. USE <1>18
  <2>. DEFINE n == Len(queueOut) + queueIn + window + One(recv)
  <2>1. n \in Nat /\ n = extracted
    BY <1>0 DEF Destroy, PoolConserved, DataPackets, OtherPackets, One, TypeOK
  <2>2. PushBuffers(n)
    BY DEF Destroy
  <2>. HIDE DEF n
  <2>3. /\ free' \in Nat /\ allocated' \in Nat
        /\ extracted' = 0 /\ free' + extracted' = allocated'
    BY <2>1, <2>2, PushFacts DEF TypeOK, PoolConserved
  <2>4. queueOut' = <<>> /\ queueOut' \in Seq(Seq(Nat)) /\ Len(queueOut') = 0
    BY DEF Destroy
  <2>5. TypeOK'
    BY <2>3, <2>4 DEF Destroy, TypeOK
  <2>6. One(recv') = 0 /\ One(chnl') = 0 /\ One(sender' \in {"fill", "putBack"}) = 0
    BY DEF Destroy, One
  <2>7. DataPackets' = 0 /\ OtherPackets' = 0
    BY <2>4, <2>6 DEF Destroy, DataPackets, OtherPackets
  <2>8. PoolConserved'
    <3>1. extracted' = DataPackets' + OtherPackets'
      BY <2>3, <2>7
    <3>2. free' + extracted' = allocated'
      BY <2>3
    <3>. QED BY <2>3, <3>1, <3>2 DEF PoolConserved
  <2>9. PacketHasSpace' /\ GoneTogether'
    BY DEF Destroy, PacketHasSpace, GoneTogether
  <2>10. CommandsBounded'
    BY <2>6, SendQueueAssumption DEF Destroy, CommandsBounded
  <2>. QED BY <1>0, <2>5, <2>7, <2>8, <2>9, <2>10 DEF DataMoves
<1>19. CASE UNCHANGED vars
  <2>1. TypeOK'
    BY <1>19 DEF vars, TypeOK
  <2>2. PoolConserved'
    BY <1>19 DEF vars, PoolConserved, DataPackets, OtherPackets
  <2>3. PacketHasSpace' /\ GoneTogether' /\ CommandsBounded'
    BY <1>19 DEF vars, PacketHasSpace, GoneTogether, CommandsBounded
  <2>4. DataPackets' = DataPackets
    BY <1>19 DEF vars, DataPackets
  <2>. QED BY <1>0, <2>1, <2>2, <2>3, <2>4 DEF DataMoves
<1>. QED BY <1>1, <1>2, <1>3, <1>4, <1>5, <1>6, <1>7, <1>8, <1>9, <1>10, <1>11, <1>12,
            <1>13, <1>14, <1>15, <1>16, <1>17, <1>18, <1>19
         DEF Next, Sent, Comm, Chnl

\* Whatever the threads do, no packet gets lost or is counted twice, a packet
\* to be filled has space, and the commands in hand are within their bound.
THEOREM CountedAlways == Spec => []Counted
<1>1. Init => Counted
  BY CountedInit
<1>2. Counted /\ [Next]_vars => Counted'
  BY CountedStep
<1>. QED BY <1>1, <1>2, PTL DEF Spec

\* Every packet of the pool is in its list or with exactly one owner and is
\* counted so, and a destroyed client has returned them all: however Sent, the
\* communication thread, the channel thread, resets and failures interleave.
THEOREM PacketsConserved == Spec => []PoolConserved
<1>1. Counted => PoolConserved
  BY DEF Counted
<1>. QED BY <1>1, CountedAlways, PTL

-----------------------------------------------------------------------------
(* Sent stays within its budget when few packets wait for the channel      *)
(* thread: the buffers that others have out never exceed the reserve.      *)

Sending == sender \in {"last", "putBack", "pull", "fill"}

\* What Sent has still to store fits into the packets that data may take, the
\* space in the packet it fills included.
Budget ==
  /\ DataLeavesReserve
  /\ Sending => left > 0
  /\ sender \in {"last", "putBack", "pull"} =>
       left + Cap * (DataPackets + Reserve) <= Cap * MaxCount
  /\ sender = "fill" =>
       left + Len(packet) + Cap * (DataPackets + Reserve) <= Cap * MaxCount + Cap

\* As long as no more packets are out than the pool may hold, Get_Free_Count
\* does not wrap around, and the test of Sent means what it says.
LEMMA GuardIsExact ==
  ASSUME NEW n \in Nat, extracted \in Nat, extracted <= MaxCount, EnoughFree(n)
  PROVE  n + Cap * (extracted + Reserve) <= Cap * MaxCount
<1>. DEFINE d == MaxCount - extracted
<1>1. Cap \in Nat \ {0} /\ MaxCount \in Nat /\ Word \in Nat /\ Reserve \in Nat /\ Cap * MaxCount < Word
  BY SendQueueAssumption
<1>2. d \in Nat /\ d <= MaxCount
  BY <1>1
<1>3. Cap * d \in Nat /\ d <= Cap * d /\ Cap * d <= Cap * MaxCount
  BY <1>1, <1>2
<1>4. Cap * d = Cap * MaxCount - Cap * extracted
  BY <1>1
<1>5. Cap * (extracted + Reserve) = Cap * extracted + Cap * Reserve
  BY <1>1
<1>. HIDE DEF d
<1>6. d < Word /\ Cap * d < Word
  BY <1>1, <1>2, <1>3
<1>7. FreeCount = d
  BY <1>1, <1>2, <1>6, SmallMod DEF FreeCount, d
<1>8. (Cap * FreeCount) % Word = Cap * d
  BY <1>1, <1>3, <1>6, <1>7, SmallMod
<1>9. n + Cap * Reserve <= Cap * d
  BY <1>8 DEF EnoughFree
<1>. QED BY <1>1, <1>3, <1>4, <1>5, <1>9

\* Under the assumption the others stay within the reserve.
LEMMA OthersFit ==
  ASSUME Counted, DataLeavesReserve, KeepsUp
  PROVE  /\ OtherPackets <= Reserve /\ extracted <= MaxCount
         /\ DataPackets <= extracted
         /\ ~recv => OtherPackets < Reserve
<1>1. /\ DataPackets \in Nat /\ OtherPackets \in Nat /\ extracted = DataPackets + OtherPackets
      /\ backlog \in Nat /\ backlog < Reserve /\ Reserve \in Nat /\ MaxCount \in Nat
  BY CountFacts, SendQueueAssumption DEF Counted, PoolConserved, CommandsBounded, KeepsUp
<1>2. OtherPackets <= 1 + backlog /\ (~recv => OtherPackets <= backlog)
  BY <1>1, CountFacts DEF Counted, CommandsBounded, OtherPackets, One, TypeOK
<1>. QED BY <1>1, <1>2 DEF DataLeavesReserve

\* At the start no message is being stored.
LEMMA BudgetInit == Init => Budget
<1>. SUFFICES ASSUME Init PROVE Budget
  OBVIOUS
<1>1. One(sender \in {"fill", "putBack"}) = 0 /\ Len(queueOut) = 0 /\ window = 0
  BY DEF Init, One
<1>2. DataPackets = 0
  BY <1>1 DEF DataPackets
<1>3. ~Sending
  BY DEF Init, Sending
<1>. QED BY <1>2, <1>3, SendQueueAssumption DEF Budget, DataLeavesReserve, Sending

\* No step leaves the budget.
LEMMA BudgetStep ==
  ASSUME KeepsUp, Counted, Budget, [Next]_vars
  PROVE  Budget'
<1>1. Counted' /\ DataMoves
  BY CountedStep
<1>2. Cap \in Nat /\ Cap > 0 /\ Reserve \in Nat /\ MaxCount \in Nat
  BY SendQueueAssumption
<1>3. DataPackets \in Nat /\ left \in Nat /\ Len(packet) \in Nat
  BY CountFacts DEF Counted, TypeOK
<1>4. DataPackets' \in Nat
  <2>1. Len(queueOut') \in Nat /\ window' \in Nat
    BY <1>1 DEF Counted, TypeOK
  <2>. QED BY <2>1 DEF DataPackets, One
<1>. DEFINE c == DataPackets
            d == DataPackets'
            a == c + Reserve
            b == d + Reserve
<1>5. c \in Nat /\ d \in Nat /\ (d <= c \/ (SentPull /\ d = c + 1))
  BY <1>1, <1>3, <1>4 DEF DataMoves
<1>. HIDE DEF c, d
<1>6. /\ a \in Nat /\ b \in Nat
      /\ b <= a \/ (SentPull /\ b = a + 1)
  BY <1>2, <1>5
<1>. USE DEF c, d
<1>7. a <= MaxCount
  BY DEF Budget, DataLeavesReserve
<1>8. b <= MaxCount => DataLeavesReserve'
  BY DEF DataLeavesReserve
<1>. DEFINE x == Cap * a
            y == Cap * b
            m == Cap * MaxCount
<1>9. /\ Sending => left > 0
      /\ sender \in {"last", "putBack", "pull"} => left + x <= m
      /\ sender = "fill" => left + Len(packet) + x <= m + Cap
  BY DEF Budget
<1>10. ASSUME /\ b <= MaxCount /\ (Sending' => left' > 0)
              /\ sender' \in {"last", "putBack", "pull"} => left' + y <= m
              /\ sender' = "fill" => left' + Len(packet') + y <= m + Cap
       PROVE  Budget'
  BY <1>8, <1>10 DEF Budget
<1>. HIDE DEF a, b, c, d
<1>11. x \in Nat /\ y \in Nat /\ m \in Nat
  BY <1>2, <1>6
<1>12. /\ b <= a => y <= x /\ b <= MaxCount
       /\ b = a + 1 => y = x + Cap
       /\ x < m => a < MaxCount
  BY <1>2, <1>6, <1>7, CapOrder
<1>. HIDE DEF x, y, m
<1>13. ASSUME NEW n \in Sizes, SentBegin(n)
       PROVE  Budget'
  <2>1. n \in Nat /\ n > 0
    BY SendQueueAssumption
  <2>2. sender' = "last" /\ left' = n /\ EnoughFree(n) /\ sender = "none"
    BY <1>13 DEF SentBegin
  <2>3. extracted <= MaxCount /\ DataPackets <= extracted /\ extracted \in Nat
    BY OthersFit DEF Budget, Counted, TypeOK
  <2>4. n + Cap * (extracted + Reserve) <= m
    BY <2>1, <2>2, <2>3, GuardIsExact DEF m
  <2>. DEFINE e == extracted + Reserve
  <2>5. e \in Nat /\ a <= e
    BY <1>2, <1>3, <2>3 DEF a, c
  <2>. HIDE DEF e
  <2>6. x <= Cap * e
    BY <1>2, <1>6, <2>5, CapOrder DEF x
  <2>7. Cap * e \in Nat /\ n + Cap * e <= m
    BY <1>2, <2>4, <2>5 DEF e
  <2>8. b <= a
    BY <1>6, <2>2 DEF SentPull
  <2>9. y <= x /\ b <= MaxCount
    BY <1>12, <2>8
  <2>10. n + y <= m
    BY <1>11, <2>1, <2>6, <2>7, <2>9
  <2>. QED BY <1>10, <2>1, <2>2, <2>9, <2>10
<1>14. CASE SentLast
  <2>1. sender = "last" /\ left' = left /\ sender' \in {"pull", "putBack", "fill"}
    BY <1>14 DEF SentLast
  <2>2. sender' = "fill" => Len(packet') < Cap
    BY <1>1, <2>1 DEF Counted, PacketHasSpace
  <2>3. Len(packet') \in Nat
    BY <1>1 DEF Counted, TypeOK
  <2>4. y <= x /\ b <= MaxCount
    BY <1>6, <1>12, <2>1 DEF SentPull
  <2>5. left > 0 /\ left + x <= m
    BY <1>9, <2>1 DEF Sending
  <2>6. left + y <= m
    BY <1>3, <1>11, <2>4, <2>5
  <2>7. sender' = "fill" => left + Len(packet') + y <= m + Cap
    BY <1>2, <1>3, <1>11, <2>2, <2>3, <2>6
  <2>. QED BY <1>10, <2>1, <2>4, <2>5, <2>6, <2>7
<1>15. CASE SentPutBack
  <2>1. sender = "putBack" /\ left' = left /\ sender' = "pull"
    BY <1>15 DEF SentPutBack
  <2>2. y <= x /\ b <= MaxCount
    BY <1>6, <1>12, <2>1 DEF SentPull
  <2>3. left > 0 /\ left + x <= m
    BY <1>9, <2>1 DEF Sending
  <2>4. left + y <= m
    BY <1>3, <1>11, <2>2, <2>3
  <2>. QED BY <1>10, <2>1, <2>2, <2>3, <2>4
<1>16. CASE SentPull
  <2>1. sender = "pull" /\ left' = left /\ sender' = "fill" /\ packet' = packet
    BY <1>16 DEF SentPull
  <2>2. Len(packet) = 0
    BY <2>1 DEF Counted, PacketHasSpace
  <2>3. left > 0 /\ left + x <= m
    BY <1>9, <2>1 DEF Sending
  <2>4. a < MaxCount
    BY <1>3, <1>11, <1>12, <2>3
  <2>5. b <= MaxCount
    BY <1>2, <1>6, <2>4
  <2>6. y <= x + Cap
    BY <1>2, <1>6, <1>11, <1>12
  <2>7. left + Len(packet) + y <= m + Cap
    BY <1>2, <1>3, <1>11, <2>2, <2>3, <2>6
  <2>. QED BY <1>10, <2>1, <2>3, <2>5, <2>7
<1>17. CASE SentPullFails
  <2>1. sender' = "none" /\ ~SentPull
    BY <1>17 DEF SentPullFails, SentPull, PullBuffer
  <2>. QED BY <1>6, <1>10, <1>12, <2>1 DEF Sending
<1>18. CASE SentFill
  <2>. DEFINE space == Cap - Len(packet)
              k == Min({space, left})
  <2>1. sender = "fill" /\ left' = left - k /\ sender' = IF left = k THEN "none" ELSE "pull"
    BY <1>18 DEF SentFill
  <2>2. space \in Int /\ left \in Int
    BY <1>2, <1>3
  <2>3. left + Len(packet) + x <= m + Cap
    BY <1>9, <2>1
  <2>4. left - space + x <= m
    BY <1>2, <1>3, <1>11, <2>3
  <2>. HIDE DEF space
  <2>5. k = IF space <= left THEN space ELSE left
    BY <2>2, MinOfTwo, Zenon
  <2>. HIDE DEF k
  <2>6. y <= x /\ b <= MaxCount
    BY <1>6, <1>12, <2>1 DEF SentPull
  <2>7. ASSUME left # k
        PROVE  left' > 0 /\ left' + y <= m
    <3>1. k = space /\ k < left
      BY <2>2, <2>5, <2>7
    <3>. QED BY <1>3, <1>11, <2>1, <2>2, <2>4, <2>6, <3>1
  <2>. QED BY <1>10, <2>1, <2>6, <2>7 DEF Sending
<1>19. ASSUME ~SentPull, UNCHANGED <<sender, left, packet>>
       PROVE  Budget'
  <2>1. y <= x /\ b <= MaxCount
    BY <1>6, <1>12, <1>19
  <2>2. Sending' => left' > 0
    BY <1>9, <1>19 DEF Sending
  <2>3. sender' \in {"last", "putBack", "pull"} => left' + y <= m
    BY <1>3, <1>9, <1>11, <1>19, <2>1
  <2>4. sender' = "fill" => left' + Len(packet') + y <= m + Cap
    BY <1>2, <1>3, <1>9, <1>11, <1>19, <2>1
  <2>. QED BY <1>10, <2>1, <2>2, <2>3, <2>4
<1>20. CASE Comm \/ Chnl
  <2>1. UNCHANGED <<sender, left, packet>>
    BY <1>20
    DEF Comm, CommPull, CommKeep, CommReturn, CommTake, CommFree, CommDisconnect, CommConnect,
        CommReset, CommDrain, Chnl, ChnlTake, ChnlReturn, sentVars
  <2>2. ~SentPull
    BY <2>1 DEF SentPull
  <2>. QED BY <1>19, <2>1, <2>2
<1>21. CASE Destroy
  <2>1. sender = "none" /\ sender' = "gone"
    BY <1>21 DEF Destroy
  <2>. QED BY <1>6, <1>10, <1>12, <2>1 DEF Sending, SentPull
<1>22. CASE UNCHANGED vars
  <2>1. UNCHANGED <<sender, left, packet>>
    BY <1>22 DEF vars, sentVars
  <2>2. ~SentPull
    BY <2>1 DEF SentPull
  <2>. QED BY <1>19, <2>1, <2>2
<1>. QED BY <1>13, <1>14, <1>15, <1>16, <1>17, <1>18, <1>20, <1>21, <1>22 DEF Next, Sent

\* How far the channel thread may lag behind is settled at the start.
LEMMA BacklogStays == [Next]_vars => backlog' = backlog
<1>. SUFFICES ASSUME [Next]_vars PROVE backlog' = backlog
  OBVIOUS
<1>. USE DEF inVars
<1>1. CASE Sent
  BY <1>1 DEF Sent, SentBegin, SentLast, SentPutBack, SentPull, SentPullFails, SentFill
<1>2. CASE Comm
  BY <1>2 DEF Comm, CommPull, CommKeep, CommReturn, CommTake, CommFree, CommDisconnect,
              CommConnect, CommReset, CommDrain
<1>3. CASE Chnl \/ Destroy \/ UNCHANGED vars
  BY <1>3 DEF Chnl, ChnlTake, ChnlReturn, Destroy, vars
<1>. QED BY <1>1, <1>2, <1>3 DEF Next

\* Where the environment leaves the channel thread less to do than the reserve
\* covers, the invariant holds in every state.
LEMMA BudgetAlways == Spec => [](Counted /\ (KeepsUp => Budget))
<1>1. Init => Counted /\ Budget
  BY CountedInit, BudgetInit
<1>2. Counted /\ [Next]_vars => Counted'
  BY CountedStep
<1>3. Counted /\ (KeepsUp => Budget) /\ [Next]_vars => (KeepsUp => Budget)'
  <2>. SUFFICES ASSUME Counted, KeepsUp => Budget, [Next]_vars, KeepsUp'
                PROVE  Budget'
    OBVIOUS
  <2>1. KeepsUp
    BY BacklogStays DEF KeepsUp
  <2>. QED BY <2>1, BudgetStep
<1>. QED BY <1>1, <1>2, <1>3, PTL DEF Spec

\* While data leaves the reserve, the pool always has a packet to give.
LEMMA NeverEmpty ==
  ASSUME Counted, Budget, KeepsUp,
         sender = "pull" \/ ~recv
  PROVE  CanPull
<1>1. /\ DataPackets \in Nat /\ OtherPackets \in Nat /\ Reserve \in Nat /\ MaxCount \in Nat
      /\ SizeLimit >= MaxCount /\ SizeLimit \in Nat
      /\ free \in Nat /\ allocated \in Nat
      /\ free + extracted = allocated /\ extracted = DataPackets + OtherPackets
  BY CountFacts, SendQueueAssumption DEF Counted, PoolConserved, TypeOK
<1>2. DataPackets + Reserve <= MaxCount
  BY DEF Budget, DataLeavesReserve
<1>3. OtherPackets <= Reserve /\ (~recv => OtherPackets < Reserve)
  BY <1>2, OthersFit DEF DataLeavesReserve
<1>4. ASSUME sender = "pull"
      PROVE  DataPackets + Reserve < MaxCount
  <2>. DEFINE a == DataPackets + Reserve
  <2>1. a \in Nat /\ left \in Nat /\ left > 0
    BY <1>1, <1>4 DEF Counted, TypeOK, Budget, Sending
  <2>2. left + Cap * a <= Cap * MaxCount
    BY <1>4 DEF Budget
  <2>. HIDE DEF a
  <2>3. Cap * a \in Int /\ Cap * MaxCount \in Int
    <3>1. Cap \in Int /\ MaxCount \in Int /\ a \in Int
      BY <2>1, SendQueueAssumption
    <3>. QED BY <3>1
  <2>4. Cap * a < Cap * MaxCount
    BY <2>1, <2>2, <2>3
  <2>5. a < MaxCount
    BY <1>1, <2>1, <2>4, CapOrder
  <2>. QED BY <2>5 DEF a
<1>5. DataPackets + OtherPackets < MaxCount
  BY <1>1, <1>2, <1>3, <1>4
<1>. QED BY <1>1, <1>5 DEF CanPull

\* Where fewer commands of the server wait for the channel thread than Sent
\* reserves packets, the data of the users always leaves the reserve to the
\* others: the intent of the comment at Client.cpp:1755, from the test at
\* Client.cpp:1757 and the packets Sent then takes one by one.
THEOREM ReserveIsLeft == Spec => []ReserveIsKept
<1>1. Counted /\ (KeepsUp => Budget) => ReserveIsKept
  BY DEF Budget, ReserveIsKept
<1>. QED BY <1>1, BudgetAlways, PTL

\* Under the same condition a message that Sent began to store is stored to
\* its end: Pull_Buffer at Client.cpp:1794 never fails half way through it.
THEOREM MessagesAreStored == Spec => []SentNeverFails
<1>1. Counted /\ (KeepsUp => Budget) => SentNeverFails
  BY NeverEmpty DEF SentNeverFails
<1>. QED BY <1>1, BudgetAlways, PTL

\* Under the same condition the communication thread always gets a packet to
\* receive the answers of the server into, whatever the users send.
THEOREM AnswersAreRead == Spec => []ReceiveNeverStarves
<1>1. Counted /\ (KeepsUp => Budget) => ReceiveNeverStarves
  BY NeverEmpty DEF ReceiveNeverStarves
<1>. QED BY <1>1, BudgetAlways, PTL

-----------------------------------------------------------------------------
(* Sequences put end to end.                                               *)

\* A nonempty set of naturals has a smallest element.
LEMMA LeastNat ==
  ASSUME NEW S \in SUBSET Nat, S # {}
  PROVE  \E n \in S : \A k \in S : n <= k
<1>. DEFINE Less == {ss \in Nat \X Nat : ss[1] < ss[2]}
<1>1. IsWellFoundedOn(Less, Nat)
  BY NatLessThanWellFounded DEF OpToRel
<1>2. PICK n \in S : \A k \in S : ~(<<k, n>> \in Less)
  BY <1>1, WFMin
<1>3. ASSUME NEW k \in S
      PROVE  n <= k
  <2>1. <<k, n>> \in Nat \X Nat
    OBVIOUS
  <2>2. ~(k < n)
    BY <1>2, <2>1
  <2>. QED BY <2>2
<1>. QED BY <1>3

\* Where two sequences are put together first does not matter.
LEMMA Associative ==
  ASSUME NEW T, NEW a \in Seq(T), NEW b \in Seq(T), NEW c \in Seq(T)
  PROVE  /\ (a \o b) \o c = a \o (b \o c)
         /\ a \o b \in Seq(T) /\ b \o c \in Seq(T)
         /\ a \o <<>> = a /\ <<>> \o a = a
OBVIOUS

\* A sequence is its front and its last element.
LEMMA FrontLast ==
  ASSUME NEW T, NEW s \in Seq(T), s # <<>>
  PROVE  /\ Front(s) \in Seq(T) /\ Len(Front(s)) = Len(s) - 1 /\ Last(s) \in T
         /\ s = Append(Front(s), Last(s))
<1>. DEFINE n == Len(s) - 1
<1>1. Len(s) \in Nat /\ Len(s) # 0 /\ n \in Nat
  BY EmptySeq
<1>2. Front(s) \in Seq(T) /\ Len(Front(s)) = n /\ Last(s) \in T /\ Last(s) = s[n + 1]
  BY <1>1, QueueFacts DEF Last
<1>3. \A i \in 1 .. n : Front(s)[i] = s[i]
  <2>1. Front(s) = SubSeq(s, 1, n)
    BY DEF Front
  <2>2. ASSUME NEW i \in 1 .. n
        PROVE  SubSeq(s, 1, n)[i] = s[i]
    BY <1>1
  <2>. QED BY <2>1, <2>2
<1>. DEFINE t == Append(Front(s), Last(s))
<1>4. t \in Seq(T) /\ Len(t) = Len(s) /\ \A i \in 1 .. Len(s) : t[i] = s[i]
  <2>1. t \in Seq(T) /\ Len(t) = n + 1 /\ t[n + 1] = s[n + 1] /\ \A i \in 1 .. n : t[i] = s[i]
    BY <1>1, <1>2, <1>3, AppendProperties
  <2>. HIDE DEF t
  <2>2. Len(s) = n + 1
    BY <1>1
  <2>3. \A i \in 1 .. Len(s) : i \in 1 .. n \/ i = n + 1
    BY <1>1
  <2>. QED BY <2>1, <2>2, <2>3
<1>. HIDE DEF t
<1>5. s = t
  BY <1>4, SeqEqual
<1>. QED BY <1>2, <1>5 DEF t

\* What FlattenSeq computes: f[i] is the first i sequences of s, put end to end.
Ends(s, f) == f = [i \in 1 .. Len(s) |-> IF i = 1 THEN s[i] ELSE f[i - 1] \o s[i]]

\* There is one such f.
LEMMA EndsUnique ==
  ASSUME NEW s, NEW f, NEW g, Len(s) \in Nat, Ends(s, f), Ends(s, g)
  PROVE  f = g
<1>. DEFINE Bad == {i \in 1 .. Len(s) : f[i] # g[i]}
<1>1. /\ f = [i \in 1 .. Len(s) |-> f[i]] /\ g = [i \in 1 .. Len(s) |-> g[i]]
      /\ \A i \in 1 .. Len(s) : /\ f[i] = IF i = 1 THEN s[i] ELSE f[i - 1] \o s[i]
                                /\ g[i] = IF i = 1 THEN s[i] ELSE g[i - 1] \o s[i]
  BY DEF Ends
<1>2. ASSUME Bad # {}
      PROVE  FALSE
  <2>0. Bad \in SUBSET Nat
    OBVIOUS
  <2>1. PICK n \in Bad : \A k \in Bad : n <= k
    BY <1>2, <2>0, LeastNat
  <2>2. n \in 1 .. Len(s) /\ f[n] # g[n]
    OBVIOUS
  <2>3. n # 1
    BY <1>1, <2>2
  <2>4. n - 1 \in 1 .. Len(s) /\ n - 1 \notin Bad
    BY <2>1, <2>2, <2>3
  <2>5. f[n - 1] = g[n - 1]
    BY <2>4
  <2>. QED BY <1>1, <2>2, <2>5
<1>3. \A i \in 1 .. Len(s) : f[i] = g[i]
  BY <1>2
<1>. QED BY <1>1, <1>3

\* It goes on with one more sequence.
LEMMA EndsAppend ==
  ASSUME NEW T, NEW s \in Seq(Seq(T)), NEW e \in Seq(T),
         NEW f \in [1 .. Len(s) -> Seq(T)], Ends(s, f)
  PROVE  \E g \in [1 .. Len(Append(s, e)) -> Seq(T)] :
           /\ Ends(Append(s, e), g)
           /\ g[Len(Append(s, e))] = IF s = <<>> THEN e ELSE f[Len(s)] \o e
<1>. DEFINE n == Len(s)
            x == IF s = <<>> THEN e ELSE f[n] \o e
            g == [i \in 1 .. (n + 1) |-> IF i = n + 1 THEN x ELSE f[i]]
            t == Append(s, e)
<1>1. n \in Nat /\ Len(t) = n + 1 /\ t[n + 1] = e /\ (\A i \in 1 .. n : t[i] = s[i]) /\ (s = <<>> <=> n = 0)
  BY AppendProperties, EmptySeq
<1>2. \A i \in 1 .. n : f[i] = IF i = 1 THEN s[i] ELSE f[i - 1] \o s[i]
  BY DEF Ends
<1>. HIDE DEF t, n
<1>3. x \in Seq(T)
  <2>1. CASE s = <<>>
    BY <2>1
  <2>2. CASE s # <<>>
    <3>1. n \in 1 .. n
      BY <1>1, <2>2
    <3>2. f[n] \in Seq(T)
      BY <3>1 DEF n
    <3>. QED BY <2>2, <3>2, ConcatProperties
  <2>. QED BY <2>1, <2>2
<1>4. ASSUME NEW i \in 1 .. (n + 1)
      PROVE  g[i] \in Seq(T) /\ g[i] = IF i = 1 THEN t[i] ELSE g[i - 1] \o t[i]
  <2>1. CASE i = n + 1
    <3>1. CASE n = 0
      BY <1>1, <1>3, <2>1, <3>1
    <3>2. CASE n # 0
      <4>1. i # 1 /\ i - 1 = n /\ n \in 1 .. (n + 1) /\ n # n + 1 /\ s # <<>>
        BY <1>1, <2>1, <3>2
      <4>2. g[i - 1] = f[n] /\ g[i] = f[n] \o e
        BY <2>1, <4>1
      <4>. QED BY <1>1, <1>3, <2>1, <4>1, <4>2
    <3>. QED BY <3>1, <3>2
  <2>2. CASE i # n + 1
    <3>1. i \in 1 .. n /\ g[i] = f[i] /\ t[i] = s[i]
      BY <1>1, <2>2
    <3>2. i # 1 => i - 1 \in 1 .. (n + 1) /\ i - 1 # n + 1
      BY <1>1, <2>2, <3>1
    <3>3. i # 1 => g[i - 1] = f[i - 1]
      BY <3>2
    <3>4. f[i] \in Seq(T)
      BY <3>1 DEF n
    <3>. QED BY <1>2, <3>1, <3>3, <3>4
  <2>. QED BY <2>1, <2>2
<1>. HIDE DEF x
<1>5. g \in [1 .. (n + 1) -> Seq(T)]
  BY <1>4
<1>6. g = [i \in 1 .. (n + 1) |-> IF i = 1 THEN t[i] ELSE g[i - 1] \o t[i]]
  <2>. HIDE DEF g
  <2>. QED BY <1>4, <1>5
<1>7. g[n + 1] = x
  BY <1>1
<1>. HIDE DEF g
<1>8. Ends(t, g)
  BY <1>1, <1>6 DEF Ends
<1>. QED BY <1>1, <1>5, <1>7, <1>8 DEF x, n, t

\* It exists.
LEMMA EndsExist ==
  ASSUME NEW T, NEW s \in Seq(Seq(T))
  PROVE  \E f \in [1 .. Len(s) -> Seq(T)] : Ends(s, f)
<1>. DEFINE Good(u) == \E f \in [1 .. Len(u) -> Seq(T)] : Ends(u, f)
            Bad == {n \in Nat : \E u \in Seq(Seq(T)) : Len(u) = n /\ ~Good(u)}
<1>1. ASSUME Bad # {}
      PROVE  FALSE
  <2>1. PICK n \in Bad : \A k \in Bad : n <= k
    BY <1>1, LeastNat
  <2>2. PICK u \in Seq(Seq(T)) : Len(u) = n /\ ~Good(u)
    OBVIOUS
  <2>3. CASE n = 0
    <3>. DEFINE f == [i \in 1 .. 0 |-> <<>>]
    <3>1. f \in [1 .. Len(u) -> Seq(T)]
      BY <2>2, <2>3
    <3>2. f = [i \in 1 .. Len(u) |-> IF i = 1 THEN u[i] ELSE f[i - 1] \o u[i]]
      BY <2>2, <2>3
    <3>. QED BY <2>2, <3>1, <3>2 DEF Ends
  <2>4. CASE n # 0
    <3>1. u # <<>>
      BY <2>2, <2>4, EmptySeq
    <3>2. /\ Front(u) \in Seq(Seq(T)) /\ Len(Front(u)) = n - 1 /\ Last(u) \in Seq(T)
          /\ u = Append(Front(u), Last(u))
      BY <2>2, <3>1, FrontLast
    <3>3. n - 1 \in Nat /\ n - 1 \notin Bad
      BY <2>1, <2>4
    <3>4. Good(Front(u))
      BY <3>2, <3>3
    <3>5. PICK f \in [1 .. Len(Front(u)) -> Seq(T)] : Ends(Front(u), f)
      BY <3>4
    <3>. DEFINE v == Front(u)
                e == Last(u)
    <3>6. v \in Seq(Seq(T)) /\ e \in Seq(T) /\ f \in [1 .. Len(v) -> Seq(T)] /\ Ends(v, f) /\ Append(v, e) = u
      BY <3>2, <3>5
    <3>. HIDE DEF v, e
    <3>7. PICK g \in [1 .. Len(Append(v, e)) -> Seq(T)] : Ends(Append(v, e), g)
      BY <3>6, EndsAppend
    <3>. QED BY <2>2, <3>6, <3>7
  <2>. QED BY <2>3, <2>4
<1>2. Len(s) \in Nat
  OBVIOUS
<1>. QED BY <1>1, <1>2

\* So FlattenSeq is the last of the partial results.
LEMMA FlattenIs ==
  ASSUME NEW T, NEW s \in Seq(Seq(T)), NEW f, Ends(s, f)
  PROVE  FlattenSeq(s) = IF Len(s) = 0 THEN s ELSE f[Len(s)]
<1>. DEFINE flat == CHOOSE h : h = [i \in 1 .. Len(s) |-> IF i = 1 THEN s[i] ELSE h[i - 1] \o s[i]]
<1>1. Ends(s, flat)
  BY DEF Ends
<1>2. FlattenSeq(s) = IF Len(s) = 0 THEN s ELSE flat[Len(s)]
  BY Zenon DEF FlattenSeq
<1>. HIDE DEF flat
<1>3. Len(s) \in Nat
  OBVIOUS
<1>4. flat = f
  BY <1>1, <1>3, EndsUnique
<1>. QED BY <1>2, <1>4

\* Nothing, put end to end.
LEMMA FlattenEmpty == FlattenSeq(<<>>) = <<>>
BY DEF FlattenSeq

\* One more sequence comes at the end.
LEMMA FlattenAppend ==
  ASSUME NEW T, NEW s \in Seq(Seq(T)), NEW e \in Seq(T)
  PROVE  FlattenSeq(s) \in Seq(T) /\ FlattenSeq(Append(s, e)) = FlattenSeq(s) \o e
<1>1. PICK f \in [1 .. Len(s) -> Seq(T)] : Ends(s, f)
  BY EndsExist
<1>2. PICK g \in [1 .. Len(Append(s, e)) -> Seq(T)] :
        /\ Ends(Append(s, e), g)
        /\ g[Len(Append(s, e))] = IF s = <<>> THEN e ELSE f[Len(s)] \o e
  BY <1>1, EndsAppend
<1>3. Append(s, e) \in Seq(Seq(T)) /\ Len(Append(s, e)) # 0 /\ Len(s) \in Nat
  BY AppendProperties
<1>4. FlattenSeq(Append(s, e)) = IF s = <<>> THEN e ELSE f[Len(s)] \o e
  BY <1>2, <1>3, FlattenIs
<1>5. CASE s = <<>>
  <2>1. FlattenSeq(s) = <<>> /\ <<>> \in Seq(T) /\ <<>> \o e = e
    BY <1>5, FlattenEmpty, ConcatEmptySeq
  <2>2. FlattenSeq(Append(s, e)) = e
    BY <1>4, <1>5
  <2>. QED BY <2>1, <2>2
<1>6. CASE s # <<>>
  <2>1. Len(s) # 0
    BY <1>6, EmptySeq
  <2>2. FlattenSeq(s) = f[Len(s)] /\ f[Len(s)] \in Seq(T)
    BY <1>1, <1>3, <2>1, FlattenIs
  <2>. QED BY <1>4, <1>6, <2>2
<1>. QED BY <1>5, <1>6

\* The first sequence comes at the start.
LEMMA FlattenHead ==
  ASSUME NEW T, NEW s \in Seq(Seq(T)), s # <<>>
  PROVE  FlattenSeq(s) = Head(s) \o FlattenSeq(Tail(s))
<1>. DEFINE Good(u) == FlattenSeq(u) = Head(u) \o FlattenSeq(Tail(u))
            Bad == {n \in Nat : \E u \in Seq(Seq(T)) : Len(u) = n /\ u # <<>> /\ ~Good(u)}
<1>0. ASSUME NEW a \in Seq(T), NEW b \in Seq(T), NEW c \in Seq(T)
      PROVE  (a \o b) \o c = a \o (b \o c)
  BY Associative
<1>1. ASSUME Bad # {}
      PROVE  FALSE
  <2>0. Bad \in SUBSET Nat
    OBVIOUS
  <2>1. PICK n \in Bad : \A k \in Bad : n <= k
    BY <1>1, <2>0, LeastNat
  <2>2. PICK u \in Seq(Seq(T)) : Len(u) = n /\ u # <<>> /\ ~Good(u)
    OBVIOUS
  <2>. DEFINE v == Front(u)
              e == Last(u)
  <2>3. v \in Seq(Seq(T)) /\ Len(v) = n - 1 /\ e \in Seq(T) /\ u = Append(v, e) /\ n \in Nat
    BY <2>2, FrontLast
  <2>. HIDE DEF v, e
  <2>4. FlattenSeq(u) = FlattenSeq(v) \o e
    BY <2>3, FlattenAppend
  <2>5. CASE v = <<>>
    <3>1. Head(u) = e /\ Tail(u) = <<>>
      BY <2>3, <2>5
    <3>2. FlattenSeq(u) = e
      BY <2>3, <2>4, <2>5, FlattenEmpty, ConcatEmptySeq
    <3>3. Head(u) \o FlattenSeq(Tail(u)) = e
      BY <2>3, <3>1, FlattenEmpty, ConcatEmptySeq
    <3>. QED BY <2>2, <3>2, <3>3
  <2>6. CASE v # <<>>
    <3>1. Head(v) \in Seq(T) /\ Tail(v) \in Seq(Seq(T))
      BY <2>3, <2>6, HeadTailProperties
    <3>2. Head(u) = Head(v) /\ Tail(u) = Append(Tail(v), e)
      BY <2>3, <2>6, HeadTailAppend
    <3>3. n - 1 \in Nat /\ n - 1 \notin Bad
      BY <2>1, <2>3
    <3>4. FlattenSeq(v) = Head(v) \o FlattenSeq(Tail(v))
      BY <2>3, <2>6, <3>3
    <3>5. FlattenSeq(Tail(v)) \in Seq(T) /\ FlattenSeq(Tail(u)) = FlattenSeq(Tail(v)) \o e
      BY <2>3, <3>1, <3>2, FlattenAppend
    <3>. DEFINE a == Head(v)
                b == FlattenSeq(Tail(v))
    <3>6. a \in Seq(T) /\ b \in Seq(T) /\ e \in Seq(T)
      BY <2>3, <3>1, <3>5
    <3>. HIDE DEF a, b
    <3>7. (a \o b) \o e = a \o (b \o e)
      BY <1>0, <3>6, Zenon
    <3>. USE DEF a, b
    <3>. QED BY <2>2, <2>4, <3>2, <3>4, <3>5, <3>7
  <2>. QED BY <2>5, <2>6
<1>2. Len(s) \in Nat
  OBVIOUS
<1>. QED BY <1>1, <1>2

-----------------------------------------------------------------------------
(* The bytes of a session.                                                 *)

\* Strings of bytes, kept abstract in what follows, and how they are put together
Str == Seq(Nat)
Cat(a, b) == a \o b

\* n bytes of message m, and the messages of a session byte by byte.
Bytes(n, m) == [i \in 1 .. n |-> m]
Blocks(msgs) == [m \in DOMAIN msgs |-> Bytes(msgs[m], m)]

\* What was taken, what is queued, what Sent has in its hands, and what it has
\* still to store.
Whole ==
  Cat(Cat(Cat(taken, FlattenSeq(queueOut)), packet), Bytes(left, Len(messages)))
    = FlattenSeq(Blocks(messages))

\* Nothing is left of a message that was stored.
Stored == sender = "none" => left = 0

WholeInv == Stored /\ (sender # "gone" => Whole)

\* Where strings are put together first does not matter.
LEMMA CatFacts ==
  /\ <<>> \in Str
  /\ \A a, b \in Str : Cat(a, b) \in Str
  /\ \A a \in Str : Cat(a, <<>>) = a /\ Cat(<<>>, a) = a
  /\ \A a, b, c \in Str : Cat(Cat(a, b), c) = Cat(a, Cat(b, c))
<1>1. ASSUME NEW a \in Str, NEW b \in Str, NEW c \in Str
      PROVE  /\ Cat(a, b) \in Str /\ Cat(a, <<>>) = a /\ Cat(<<>>, a) = a
             /\ Cat(Cat(a, b), c) = Cat(a, Cat(b, c))
  BY Associative DEF Str, Cat
<1>2. <<>> \in Str
  BY DEF Str
<1>3. \A a, b \in Str : Cat(a, b) \in Str /\ Cat(a, <<>>) = a /\ Cat(<<>>, a) = a
  BY <1>1
<1>4. \A a, b, c \in Str : Cat(Cat(a, b), c) = Cat(a, Cat(b, c))
  BY <1>1
<1>. QED BY <1>2, <1>3, <1>4

\* A queue of strings, put end to end.
LEMMA QueueStr ==
  ASSUME NEW q \in Seq(Str)
  PROVE  /\ FlattenSeq(q) \in Str
         /\ \A e \in Str : FlattenSeq(Append(q, e)) = Cat(FlattenSeq(q), e)
         /\ q # <<>> => /\ Front(q) \in Seq(Str) /\ Last(q) \in Str
                        /\ FlattenSeq(q) = Cat(FlattenSeq(Front(q)), Last(q))
                        /\ Head(q) \in Str /\ Tail(q) \in Seq(Str)
                        /\ FlattenSeq(q) = Cat(Head(q), FlattenSeq(Tail(q)))
<1>1. FlattenSeq(q) \in Str
  <2>1. <<>> \in Seq(Nat)
    OBVIOUS
  <2>. QED BY <2>1, FlattenAppend DEF Str
<1>2. ASSUME NEW e \in Str
      PROVE  FlattenSeq(Append(q, e)) = Cat(FlattenSeq(q), e)
  BY FlattenAppend DEF Str, Cat
<1>3. ASSUME q # <<>>
      PROVE  /\ Front(q) \in Seq(Str) /\ Last(q) \in Str
             /\ FlattenSeq(q) = Cat(FlattenSeq(Front(q)), Last(q))
  <2>1. Front(q) \in Seq(Str) /\ Last(q) \in Str /\ q = Append(Front(q), Last(q))
    BY <1>3, FrontLast
  <2>. DEFINE f == Front(q)
              l == Last(q)
  <2>. HIDE DEF f, l
  <2>2. f \in Seq(Str) /\ l \in Str /\ q = Append(f, l)
    BY <2>1 DEF f, l
  <2>3. FlattenSeq(Append(f, l)) = Cat(FlattenSeq(f), l)
    BY <2>2, FlattenAppend DEF Str, Cat
  <2>. QED BY <2>1, <2>2, <2>3 DEF f, l
<1>4. ASSUME q # <<>>
      PROVE  /\ Head(q) \in Str /\ Tail(q) \in Seq(Str)
             /\ FlattenSeq(q) = Cat(Head(q), FlattenSeq(Tail(q)))
  <2>1. Head(q) \in Str /\ Tail(q) \in Seq(Str)
    BY <1>4, HeadTailProperties
  <2>2. FlattenSeq(q) = Cat(Head(q), FlattenSeq(Tail(q)))
    BY <1>4, FlattenHead DEF Str, Cat
  <2>. QED BY <2>1, <2>2
<1>. QED BY <1>1, <1>2, <1>3, <1>4

\* The bytes of a message can be counted off in two parts.
LEMMA BytesFacts ==
  ASSUME NEW n \in Nat, NEW k \in Nat, k <= n, NEW m \in Nat
  PROVE  /\ Bytes(n, m) \in Seq(Nat) /\ Bytes(k, m) \in Seq(Nat) /\ Bytes(n - k, m) \in Seq(Nat)
         /\ Bytes(k, m) \o Bytes(n - k, m) = Bytes(n, m)
         /\ Bytes(0, m) = <<>>
<1>1. n - k \in Nat
  OBVIOUS
<1>2. \A j \in Nat : Bytes(j, m) \in Seq(Nat) /\ Len(Bytes(j, m)) = j /\ \A i \in 1 .. j : Bytes(j, m)[i] = m
  BY DEF Bytes
<1>. DEFINE b == Bytes(k, m)
            c == Bytes(n - k, m)
            d == Bytes(n, m)
<1>3. /\ b \in Seq(Nat) /\ c \in Seq(Nat) /\ d \in Seq(Nat)
      /\ Len(b) = k /\ Len(c) = n - k /\ Len(d) = n
      /\ \A i \in 1 .. k : b[i] = m
      /\ \A i \in 1 .. (n - k) : c[i] = m
      /\ \A i \in 1 .. n : d[i] = m
  BY <1>1, <1>2
<1>4. Bytes(0, m) \in Seq(Nat) /\ Len(Bytes(0, m)) = 0
  BY <1>2
<1>. HIDE DEF b, c, d
<1>5. b \o c \in Seq(Nat) /\ Len(b \o c) = n /\ \A i \in 1 .. n : (b \o c)[i] = m
  <2>1. b \o c \in Seq(Nat) /\ Len(b \o c) = Len(b) + Len(c)
        /\ \A i \in 1 .. Len(b) + Len(c) : (b \o c)[i] = IF i <= Len(b) THEN b[i] ELSE c[i - Len(b)]
    BY <1>3, ConcatProperties
  <2>2. \A i \in 1 .. n : IF i <= k THEN i \in 1 .. k ELSE i - k \in 1 .. (n - k)
    OBVIOUS
  <2>. QED BY <1>3, <2>1, <2>2
<1>6. b \o c = d
  BY <1>3, <1>5, SeqEqual
<1>. QED BY <1>3, <1>4, <1>6, EmptySeq DEF b, c, d

\* A session with one more message has its bytes at the end.
LEMMA BlocksAppend ==
  ASSUME NEW q \in Seq(Nat), NEW n \in Nat
  PROVE  /\ Blocks(q) \in Seq(Str)
         /\ Blocks(Append(q, n)) = Append(Blocks(q), Bytes(n, Len(q) + 1))
<1>. DEFINE l == Len(q)
            r == Append(q, n)
            s == Append(Blocks(q), Bytes(n, l + 1))
            t == Blocks(r)
<1>1. \A j \in Nat, m \in Nat : Bytes(j, m) \in Str
  BY BytesFacts DEF Str
<1>2. /\ l \in Nat /\ DOMAIN q = 1 .. l /\ (\A i \in 1 .. l : q[i] \in Nat)
      /\ DOMAIN r = 1 .. (l + 1) /\ (\A i \in 1 .. l : r[i] = q[i]) /\ r[l + 1] = n
      /\ r \in Seq(Nat) /\ \A i \in 1 .. (l + 1) : r[i] \in Nat
  BY AppendProperties
<1>. HIDE DEF l, r
<1>3. /\ Blocks(q) \in Seq(Str) /\ Len(Blocks(q)) = l
      /\ \A i \in 1 .. l : Blocks(q)[i] = Bytes(q[i], i)
  <2>1. \A i \in 1 .. l : Bytes(q[i], i) \in Str
    BY <1>1, <1>2
  <2>2. Blocks(q) = [i \in 1 .. l |-> Bytes(q[i], i)]
    BY <1>2 DEF Blocks
  <2>. HIDE DEF l
  <2>. QED BY <1>2, <2>1, <2>2
<1>4. /\ t \in Seq(Str) /\ Len(t) = l + 1
      /\ \A i \in 1 .. (l + 1) : t[i] = Bytes(r[i], i)
  <2>1. \A i \in 1 .. (l + 1) : Bytes(r[i], i) \in Str
    BY <1>1, <1>2
  <2>2. t = [i \in 1 .. (l + 1) |-> Bytes(r[i], i)] /\ l + 1 \in Nat
    BY <1>2 DEF Blocks
  <2>. HIDE DEF t
  <2>. QED BY <2>1, <2>2
<1>5. Bytes(n, l + 1) \in Str
  BY <1>1, <1>2
<1>6. /\ s \in Seq(Str) /\ Len(s) = l + 1 /\ s[l + 1] = Bytes(n, l + 1)
      /\ \A i \in 1 .. l : s[i] = Blocks(q)[i]
  BY <1>3, <1>5, AppendProperties
<1>. HIDE DEF s, t
<1>7. \A i \in 1 .. (l + 1) : t[i] = s[i]
  <2>1. \A i \in 1 .. (l + 1) : i \in 1 .. l \/ i = l + 1
    BY <1>2
  <2>. QED BY <1>2, <1>3, <1>4, <1>6, <2>1
<1>8. t = s
  BY <1>4, <1>6, <1>7, SeqEqual
<1>. QED BY <1>3, <1>8 DEF s, t, l, r

\* The session begins with nothing.
LEMMA WholeInit == Init => WholeInv
<1>. SUFFICES ASSUME Init PROVE WholeInv
  OBVIOUS
<1>1. taken = <<>> /\ queueOut = <<>> /\ packet = <<>> /\ left = 0 /\ messages = <<>>
  BY DEF Init
<1>2. Len(messages) \in Nat /\ Bytes(left, Len(messages)) = <<>>
  BY <1>1, BytesFacts
<1>3. Blocks(messages) = <<>>
  BY <1>1 DEF Blocks
<1>4. Cat(<<>>, <<>>) = <<>>
  BY CatFacts
<1>. QED BY <1>1, <1>2, <1>3, <1>4, FlattenEmpty DEF WholeInv, Whole, Stored

\* No step loses, repeats or mixes bytes.
LEMMA WholeStep ==
  ASSUME KeepsUp, Counted, Budget, WholeInv, [Next]_vars
  PROVE  WholeInv'
<1>. DEFINE flat == FlattenSeq(queueOut)
            rest == Bytes(left, Len(messages))
<1>0. /\ taken \in Str /\ queueOut \in Seq(Str) /\ packet \in Str
      /\ left \in Nat /\ messages \in Seq(Nat)
  BY DEF Counted, TypeOK, Str
<1>1. flat \in Str /\ Len(messages) \in Nat
  BY <1>0, QueueStr
<1>2. rest \in Str
  BY <1>0, <1>1, BytesFacts DEF Str
<1>3. sender \notin {"fill", "putBack"} => packet = <<>>
  BY DEF Counted, PacketHasSpace
<1>4. ASSUME UNCHANGED <<taken, queueOut, packet, left, messages, sender>>
      PROVE  WholeInv'
  <2>1. Whole' = Whole /\ Stored' = Stored
    BY <1>4 DEF Whole, Stored
  <2>. QED BY <1>4, <2>1 DEF WholeInv
<1>5. ASSUME NEW n \in Sizes, SentBegin(n)
      PROVE  WholeInv'
  <2>1. /\ sender = "none" /\ sender' = "last" /\ left' = n /\ messages' = Append(messages, n)
        /\ UNCHANGED <<taken, queueOut, packet>>
    BY <1>5 DEF SentBegin, commVars
  <2>2. n \in Nat /\ left = 0 /\ packet = <<>> /\ Whole
    BY <1>3, <2>1, SendQueueAssumption DEF WholeInv, Stored
  <2>3. Bytes(left, Len(messages)) = <<>> /\ Len(messages') = Len(messages) + 1
    BY <1>0, <1>1, <2>1, <2>2, BytesFacts, AppendProperties
  <2>. DEFINE b == Bytes(n, Len(messages) + 1)
              w == FlattenSeq(Blocks(messages))
  <2>4. b \in Str
    BY <1>1, <2>2, BytesFacts DEF Str
  <2>5. FlattenSeq(Blocks(messages')) = Cat(w, b)
    <3>1. Blocks(messages) \in Seq(Str) /\ Blocks(messages') = Append(Blocks(messages), b)
      BY <1>0, <2>1, <2>2, BlocksAppend
    <3>. HIDE DEF b
    <3>. QED BY <2>4, <3>1, QueueStr
  <2>6. Cat(Cat(Cat(taken, flat), <<>>), <<>>) = w
    BY <2>2, <2>3 DEF Whole
  <2>. HIDE DEF b, w, flat
  <2>7. Cat(Cat(Cat(taken, flat), <<>>), b) = Cat(w, b)
    <3>1. Cat(taken, flat) \in Str
      BY <1>0, <1>1, CatFacts
    <3>. QED BY <2>6, <3>1, CatFacts
  <2>. USE DEF flat
  <2>. QED BY <2>1, <2>2, <2>3, <2>5, <2>7 DEF WholeInv, Whole, Stored, b
<1>6. CASE SentLast
  <2>1. /\ sender = "last" /\ sender' \notin {"none", "gone"} /\ UNCHANGED <<left, messages, taken>>
    BY <1>6 DEF SentLast, commVars
  <2>2. packet = <<>> /\ Whole
    BY <1>3, <2>1 DEF WholeInv
  <2>3. Whole'
    <3>1. CASE queueOut = <<>>
      <4>1. UNCHANGED <<queueOut, packet>>
        BY <1>6, <3>1 DEF SentLast
      <4>. QED BY <2>1, <2>2, <4>1 DEF Whole
    <3>2. CASE queueOut # <<>>
      <4>1. packet' = Last(queueOut) /\ queueOut' = Front(queueOut)
        BY <1>6, <3>2 DEF SentLast
      <4>. DEFINE f == FlattenSeq(queueOut')
      <4>2. packet' \in Str /\ f \in Str /\ flat = Cat(f, packet')
        BY <1>0, <3>2, <4>1, QueueStr
      <4>. HIDE DEF flat, rest, f
      <4>3. Cat(Cat(Cat(taken, flat), <<>>), rest) = Cat(Cat(Cat(taken, f), packet'), rest)
        BY <1>0, <1>2, <4>2, CatFacts
      <4>. USE DEF flat, rest, f
      <4>. QED BY <2>1, <2>2, <4>3 DEF Whole
    <3>. QED BY <3>1, <3>2
  <2>. QED BY <2>1, <2>3 DEF WholeInv, Stored
<1>7. CASE SentPutBack
  <2>1. /\ sender = "putBack" /\ sender' = "pull" /\ UNCHANGED <<left, messages, taken>>
        /\ queueOut' = Append(queueOut, packet) /\ packet' = <<>>
    BY <1>7 DEF SentPutBack, commVars
  <2>. DEFINE f == FlattenSeq(queueOut')
  <2>2. f = Cat(flat, packet)
    BY <1>0, <2>1, QueueStr
  <2>3. Whole
    BY <2>1 DEF WholeInv
  <2>. HIDE DEF flat, rest, f
  <2>4. Cat(Cat(Cat(taken, f), <<>>), rest) = Cat(Cat(Cat(taken, flat), packet), rest)
    BY <1>0, <1>1, <1>2, <2>2, CatFacts
  <2>. USE DEF flat, rest, f
  <2>. QED BY <2>1, <2>3, <2>4 DEF WholeInv, Whole, Stored
<1>8. CASE SentPull
  <2>1. UNCHANGED <<taken, queueOut, packet, left, messages>> /\ sender = "pull" /\ sender' = "fill"
    BY <1>8 DEF SentPull, commVars
  <2>2. Whole' = Whole
    BY <2>1 DEF Whole
  <2>. QED BY <2>1, <2>2 DEF WholeInv, Stored
<1>9. CASE SentPullFails
  BY <1>9, NeverEmpty DEF SentPullFails
<1>10. CASE SentFill
  <2>. DEFINE k == Min({Cap - Len(packet), left})
              m == Len(messages)
  <2>1. /\ sender = "fill" /\ queueOut' = Append(queueOut, Cat(packet, Bytes(k, m)))
        /\ left' = left - k /\ sender' = (IF left = k THEN "none" ELSE "pull")
        /\ packet' = <<>> /\ UNCHANGED <<messages, taken>>
    BY <1>10 DEF SentFill, commVars, Bytes, Cat
  <2>2. Len(packet) < Cap /\ Len(packet) \in Nat /\ Cap \in Nat
    BY <1>0, <2>1, SendQueueAssumption DEF Counted, PacketHasSpace, Str
  <2>3. k = IF Cap - Len(packet) <= left THEN Cap - Len(packet) ELSE left
    <3>1. Cap - Len(packet) \in Int /\ left \in Int
      BY <1>0, <2>2
    <3>. QED BY <3>1, MinOfTwo, Zenon
  <2>. HIDE DEF k, m
  <2>4. k \in Nat /\ k <= left
    BY <1>0, <2>2, <2>3
  <2>. DEFINE b == Bytes(k, m)
              c == Bytes(left - k, m)
              f == FlattenSeq(queueOut')
  <2>5. b \in Str /\ c \in Str /\ Cat(b, c) = rest
    BY <1>0, <1>1, <2>4, BytesFacts DEF m, Str, Cat
  <2>6. Cat(packet, b) \in Str
    BY <1>0, <2>5, CatFacts
  <2>7. f = Cat(flat, Cat(packet, b))
    BY <1>0, <2>1, <2>6, QueueStr
  <2>. HIDE DEF b, c, f, flat, rest
  <2>8. Cat(Cat(Cat(taken, f), <<>>), c) = Cat(Cat(Cat(taken, flat), packet), rest)
    <3>1. Cat(taken, flat) \in Str /\ Cat(Cat(taken, flat), packet) \in Str
      BY <1>0, <1>1, CatFacts
    <3>2. Cat(taken, f) \in Str /\ Cat(taken, f) = Cat(Cat(taken, flat), Cat(packet, b))
      BY <1>0, <1>1, <2>6, <2>7, CatFacts
    <3>3. Cat(Cat(taken, flat), Cat(packet, b)) = Cat(Cat(Cat(taken, flat), packet), b)
      BY <1>0, <2>5, <3>1, CatFacts
    <3>4. Cat(Cat(taken, f), <<>>) = Cat(taken, f)
      BY <3>2, CatFacts
    <3>5. Cat(Cat(Cat(Cat(taken, flat), packet), b), c) = Cat(Cat(Cat(taken, flat), packet), rest)
      BY <2>5, <3>1, CatFacts
    <3>. QED BY <3>2, <3>3, <3>4, <3>5
  <2>. USE DEF flat, rest
  <2>9. Whole
    BY <2>1 DEF WholeInv
  <2>10. Whole'
    BY <2>1, <2>8, <2>9 DEF Whole, c, f, m
  <2>11. Stored'
    BY <1>0, <2>1, <2>4 DEF Stored
  <2>. QED BY <2>10, <2>11 DEF WholeInv
<1>11. CASE CommTake
  <2>1. /\ queueOut # <<>> /\ taken' = taken \o Head(queueOut) /\ queueOut' = Tail(queueOut)
        /\ UNCHANGED <<sender, packet, left, messages>>
    BY <1>11 DEF CommTake, sentVars
  <2>. DEFINE h == Head(queueOut)
              f == FlattenSeq(queueOut')
  <2>2. h \in Str /\ f \in Str /\ flat = Cat(h, f)
    BY <1>0, <2>1, QueueStr
  <2>. HIDE DEF flat, rest, h, f
  <2>3. Cat(taken, flat) = Cat(Cat(taken, h), f)
    BY <1>0, <2>2, CatFacts
  <2>4. Cat(Cat(Cat(Cat(taken, h), f), packet), rest) = Cat(Cat(Cat(taken, flat), packet), rest)
    BY <2>3
  <2>5. taken' = Cat(taken, h)
    BY <2>1 DEF h, Cat
  <2>. USE DEF flat, rest, f
  <2>6. Whole' = Whole
    BY <2>1, <2>4, <2>5 DEF Whole
  <2>. QED BY <2>1, <2>6 DEF WholeInv, Stored
<1>12. CASE CommDrain
  <2>1. /\ sender = "none" /\ queueOut' = <<>> /\ messages' = <<>> /\ taken' = <<>>
        /\ UNCHANGED <<sender, packet, left>>
    BY <1>12 DEF CommDrain
  <2>2. packet = <<>> /\ left = 0
    BY <1>3, <2>1 DEF WholeInv, Stored
  <2>3. Blocks(messages') = <<>>
    BY <2>1 DEF Blocks
  <2>4. Len(messages') \in Nat /\ Bytes(left', Len(messages')) = <<>>
    BY <2>1, <2>2, BytesFacts
  <2>5. Cat(<<>>, <<>>) = <<>>
    BY CatFacts
  <2>6. Whole'
    BY <2>1, <2>2, <2>3, <2>4, <2>5, FlattenEmpty DEF Whole
  <2>. QED BY <2>1, <2>2, <2>6 DEF WholeInv, Stored
<1>13. CASE CommPull \/ CommKeep \/ CommReturn \/ (\E k \in 1 .. window : CommFree(k))
            \/ CommDisconnect \/ CommConnect \/ CommReset \/ Chnl
  BY <1>13, <1>4
  DEF CommPull, CommKeep, CommReturn, CommFree, CommDisconnect, CommConnect, CommReset,
      Chnl, ChnlTake, ChnlReturn, sentVars, commVars
<1>14. CASE Destroy
  BY <1>14 DEF Destroy, WholeInv, Stored
<1>15. CASE UNCHANGED vars
  BY <1>4, <1>15 DEF vars, sentVars, commVars
<1>. QED BY <1>5, <1>6, <1>7, <1>8, <1>9, <1>10, <1>11, <1>12, <1>13, <1>14, <1>15
         DEF Next, Sent, Comm

\* While the channel thread keeps up, the bytes that were taken, that are queued
\* and that are still to be stored are those of the messages of the session,
\* whole and in order, however often a packet is cut off, put back or refilled
\* and wherever the communication thread takes or drops packets in between.
THEOREM MessagesStayWhole == Spec => []WholeMessages
<1>1. Init => WholeInv
  BY WholeInit
<1>2. Counted /\ (KeepsUp => Budget) /\ (KeepsUp => WholeInv) /\ [Next]_vars => (KeepsUp => WholeInv)'
  <2>. SUFFICES ASSUME Counted, KeepsUp => Budget, KeepsUp => WholeInv, [Next]_vars, KeepsUp'
                PROVE  WholeInv'
    OBVIOUS
  <2>1. KeepsUp
    BY BacklogStays DEF KeepsUp
  <2>. QED BY <2>1, WholeStep
<1>3. (KeepsUp => WholeInv) => WholeMessages
  BY DEF WholeInv, Whole, WholeMessages, Bytes, Blocks, Cat
<1>. QED BY <1>1, <1>2, <1>3, BudgetAlways, PTL DEF Spec
==============================================================================
