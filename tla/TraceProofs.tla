----------------------------- MODULE TraceProofs -----------------------------
(***************************************************************************)
(* Proofs about Trace and Format, for every value of their constants: what *)
(* threads that trace at the same time get, and that the server can tell   *)
(* every argument that they pass on.                                       *)
(***************************************************************************)
EXTENDS Trace, Format, SequenceTheorems, WellFoundedInduction, TLAPS

-----------------------------------------------------------------------------
(* What Sent gets in one call.                                             *)

Held == {"compare", "mark", "describe", "send"}

\* Concatenations of short sequences.
LEMMA ShortConcat ==
  ASSUME NEW a, NEW b, NEW c
  PROVE  /\ <<>> \o <<>> = <<>> /\ <<>> \o <<a>> = <<a>> /\ <<a>> \o <<>> = <<a>>
         /\ <<a>> \o <<b>> = <<a, b>> /\ <<a, b>> \o <<c>> = <<a, b, c>>
<1>. DEFINE S == {a, b, c}
<1>0. <<a>> \in Seq(S) /\ <<b>> \in Seq(S) /\ <<c>> \in Seq(S) /\ <<a, b>> \in Seq(S) /\ <<a, b, c>> \in Seq(S)
  OBVIOUS
<1>1. <<>> \o <<>> = <<>>
  OBVIOUS
<1>2. <<>> \o <<a>> = <<a>>
  OBVIOUS
<1>3. <<a>> \o <<>> = <<a>>
  OBVIOUS
<1>4. <<a>> \o <<b>> = <<a, b>>
  <2>. DEFINE s == <<a>> \o <<b>>
  <2>1. s \in Seq(S) /\ Len(s) = 2 /\ s[1] = a /\ s[2] = b
    BY <1>0, ConcatProperties
  <2>. HIDE DEF S, s
  <2>2. \A i \in 1 .. Len(s) : s[i] = <<a, b>>[i]
    BY <2>1
  <2>3. s = <<a, b>>
    BY <1>0, <2>1, <2>2, SeqEqual
  <2>. QED BY <2>3 DEF s
<1>5. <<a, b>> \o <<c>> = <<a, b, c>>
  <2>. DEFINE s == <<a, b>> \o <<c>>
  <2>1. s \in Seq(S) /\ Len(s) = 3 /\ s[1] = a /\ s[2] = b /\ s[3] = c
    BY <1>0, ConcatProperties
  <2>. HIDE DEF S, s
  <2>2. \A i \in 1 .. Len(s) : s[i] = <<a, b, c>>[i]
    BY <2>1
  <2>3. s = <<a, b, c>>
    BY <1>0, <2>1, <2>2, SeqEqual
  <2>. QED BY <2>3 DEF s
<1>. QED BY <1>1, <1>2, <1>3, <1>4, <1>5

\* The message ends with the trace; what the drops name comes before it.
LEMMA MessageFacts ==
  ASSUME TypeOK, NEW t \in Threads
  PROVE  LET m == Message(t)
         IN  /\ m \in Seq(Records) /\ Len(m) \in 1 .. 3
             /\ m[Len(m)] = Data(t, call.trace)
             /\ \A i \in 1 .. Len(m) - 1 : m[i].type # "data"
             /\ "channel" \in drops => Len(m) > 1 /\ m[1] = Info
             /\ "trace" \in drops => Len(m) > 1 /\ m[Len(m) - 1] = Desc(call.trace)
<1>. DEFINE d == Data(t, call.trace)
            c == Desc(call.trace)
<1>1. d \in Records /\ c \in Records /\ Info \in Records
  BY DEF TypeOK, Records, Data
<1>2. c.type = "desc" /\ Info.type = "info"
  BY DEF Desc, Info
<1>. HIDE DEF d, c
<1>3. CASE "channel" \in drops /\ "trace" \in drops
  <2>1. Message(t) = <<Info, c, d>>
    BY <1>3, ShortConcat DEF Message, d, c
  <2>. QED BY <1>1, <1>2, <2>1 DEF d, c
<1>4. CASE "channel" \in drops /\ "trace" \notin drops
  <2>1. Message(t) = <<Info, d>>
    BY <1>4, ShortConcat DEF Message, d
  <2>. QED BY <1>1, <1>2, <1>4, <2>1 DEF d
<1>5. CASE "channel" \notin drops /\ "trace" \in drops
  <2>1. Message(t) = <<c, d>>
    BY <1>5, ShortConcat DEF Message, d, c
  <2>. QED BY <1>1, <1>2, <1>5, <2>1 DEF d, c
<1>6. CASE "channel" \notin drops /\ "trace" \notin drops
  <2>1. Message(t) = <<d>>
    BY <1>6, ShortConcat DEF Message, d
  <2>. QED BY <1>1, <1>2, <1>6, <2>1 DEF d
<1>. QED BY <1>3, <1>4, <1>5, <1>6

-----------------------------------------------------------------------------
(* Types.                                                                  *)

\* At most one thread is inside the lock.
LEMMA OneHolder ==
  ASSUME TypeOK, NEW t \in Threads, NEW u \in Threads, pc[t] \in Held
  PROVE  /\ lock = t
         /\ pc[u] \in Held => u = t
BY TraceAssumption DEF TypeOK, Held

LEMMA TypeInit == Init => TypeOK
<1>. SUFFICES ASSUME Init PROVE TypeOK
  OBVIOUS
<1>1. <<>> \in Seq(Records)
  OBVIOUS
<1>2. call \in [trace : Traces, level : Levels]
  BY TraceAssumption DEF Init
<1>. QED BY <1>1, <1>2, TraceAssumption DEF Init, TypeOK, Undefined

\* The types are kept by every step.
LEMMA TypeStep == TypeOK /\ [Next]_vars => TypeOK'
<1>. SUFFICES ASSUME TypeOK, [Next]_vars PROVE TypeOK'
  OBVIOUS
<1>. USE TraceAssumption DEF TypeOK, clientVars, channelVars, callVars
<1>1. CASE Connect
  BY <1>1 DEF Connect
<1>2. CASE Disconnect
  BY <1>2 DEF Disconnect
<1>3. CASE Reset
  <2>1. <<>> \in Seq(Records)
    OBVIOUS
  <2>2. stream' \in Seq(Records)
    BY <1>3, <2>1 DEF Reset
  <2>3. resets' \in Nat /\ dirty' = FALSE
    BY <1>3 DEF Reset
  <2>4. UNCHANGED <<connected, status, mark, marks, sequence, verbosity, lock, pc, call, drops>>
    BY <1>3 DEF Reset
  <2>. QED BY <2>2, <2>3, <2>4
<1>4. ASSUME NEW t \in Threads, GetStatus(t)
      PROVE  TypeOK'
  BY <1>4 DEF GetStatus
<1>5. ASSUME NEW t \in Threads, TestConnected(t)
      PROVE  TypeOK'
  BY <1>5 DEF TestConnected
<1>6. ASSUME NEW t \in Threads, NEW d \in Traces, NEW l \in Levels,
             pc[t] = "enter", lock = NoThread,
             Quiet(t, d, l) \/ NoDescription(t, d, l) \/ Describe(t, d, l),
             UNCHANGED <<clientVars, stream, status, mark, verbosity>>
      PROVE  TypeOK'
  <2>1. CASE Quiet(t, d, l)
    BY <1>6, <2>1 DEF Quiet
  <2>2. CASE NoDescription(t, d, l)
    BY <1>6, <2>2 DEF NoDescription
  <2>3. CASE Describe(t, d, l)
    <3>1. DOMAIN marks' \subseteq Traces /\ marks' \in [DOMAIN marks' -> Nat \cup {Undefined}]
      BY <1>6, <2>3 DEF Describe
    <3>. QED BY <1>6, <2>3, <3>1 DEF Describe
  <2>. QED BY <1>6, <2>1, <2>2, <2>3
<1>7. ASSUME NEW t \in Threads, CompareChannel(t)
      PROVE  TypeOK'
  BY <1>7 DEF CompareChannel
<1>8. ASSUME NEW t \in Threads, MarkChannel(t)
      PROVE  TypeOK'
  BY <1>8 DEF MarkChannel
<1>9. ASSUME NEW t \in Threads, MarkDescription(t)
      PROVE  TypeOK'
  <2>1. DOMAIN marks' = DOMAIN marks /\ marks' \in [DOMAIN marks' -> Nat \cup {Undefined}]
    BY <1>9 DEF MarkDescription
  <2>. QED BY <1>9, <2>1 DEF MarkDescription
<1>10. ASSUME NEW t \in Threads, SendAccepted(t)
       PROVE  TypeOK'
  <2>1. stream' \in Seq(Records)
    BY <1>10, MessageFacts, ConcatProperties DEF SendAccepted
  <2>. QED BY <1>10, <2>1 DEF SendAccepted, Leave
<1>11. ASSUME NEW t \in Threads, SendRefused(t)
       PROVE  TypeOK'
  <2>1. DOMAIN marks' = DOMAIN marks /\ marks' \in [DOMAIN marks' -> Nat \cup {Undefined}]
    BY <1>11 DEF SendRefused
  <2>2. mark' \in Nat \cup {Undefined}
    BY <1>11 DEF SendRefused
  <2>. QED BY <1>11, <2>1, <2>2 DEF SendRefused, Leave
<1>12. ASSUME NEW l \in Levels, SetVerbosity(l)
       PROVE  TypeOK'
  BY <1>12 DEF SetVerbosity
<1>13. CASE Destroy
  <2>1. Close \in Records
    BY DEF Records
  <2>2. Append(stream, Close) \in Seq(Records)
    BY <2>1, AppendProperties
  <2>3. stream' \in Seq(Records)
    BY <1>13, <2>2 DEF Destroy
  <2>. QED BY <1>13, <2>3 DEF Destroy
<1>14. CASE UNCHANGED vars
  BY <1>14 DEF vars
<1>. QED BY <1>1, <1>2, <1>3, <1>4, <1>5, <1>6, <1>7, <1>8, <1>9, <1>10, <1>11, <1>12, <1>13, <1>14
         DEF Next, Client, TraceRaw, Enter

\* Every variable keeps its type, and exactly the call that is between
\* LOCK_ENTER and LOCK_EXIT holds the lock.
THEOREM TypeCorrect == Spec => []TypeOK
BY TypeInit, TypeStep, PTL DEF Spec

-----------------------------------------------------------------------------
(* Marks.                                                                  *)

\* The call that has noted to send r again, and has not sent it yet, holds the
\* lock; what is marked with the present counter is sent or about to be.
MarkInv ==
  /\ status.resets <= resets
  /\ mark <= resets
  /\ \A d \in DOMAIN marks : marks[d] <= resets
  /\ \A t \in Threads : pc[t] \in Held => call.trace \in DOMAIN marks
  /\ \A t \in Threads : pc[t] = "send" => marks[call.trace] = mark
  /\ mark = resets =>
       \/ Contains(stream, Info)
       \/ \E t \in Threads : pc[t] \in {"describe", "send"} /\ "channel" \in drops
  /\ \A d \in DOMAIN marks : marks[d] = resets =>
       \/ Contains(stream, Desc(d))
       \/ \E t \in Threads : pc[t] = "send" /\ "trace" \in drops /\ call.trace = d

Marked == TypeOK /\ MarkInv

LEMMA MarkedInit == Init => Marked
BY TypeInit DEF Init, Marked, MarkInv, Held, Undefined

\* What is in the stream stays there when a message is added at its end.
LEMMA StreamGrows ==
  ASSUME NEW t \in Threads, TypeOK, stream' = stream \o Message(t)
  PROVE  LET n == Len(stream)
             m == Message(t)
         IN  /\ DOMAIN stream = 1 .. n /\ DOMAIN stream' = 1 .. n + Len(m)
             /\ \A i \in 1 .. n : stream'[i] = stream[i]
             /\ \A i \in 1 .. Len(m) : stream'[n + i] = m[i]
<1>. DEFINE m == Message(t)
<1>1. m \in Seq(Records) /\ stream \in Seq(Records)
  BY MessageFacts DEF TypeOK
<1>. HIDE DEF m
<1>2. /\ stream \o m \in Seq(Records)
      /\ Len(stream \o m) = Len(stream) + Len(m)
      /\ \A i \in 1 .. Len(stream) + Len(m) :
           (stream \o m)[i] = IF i <= Len(stream) THEN stream[i] ELSE m[i - Len(stream)]
  BY <1>1, ConcatProperties
<1>3. Len(stream) \in Nat /\ Len(m) \in Nat
  BY <1>1
<1>4. stream' = stream \o m
  BY DEF m
<1>5. DOMAIN stream = 1 .. Len(stream) /\ DOMAIN stream' = 1 .. Len(stream) + Len(m)
  BY <1>1, <1>2, <1>4
<1>6. \A i \in 1 .. Len(stream) : stream'[i] = stream[i]
  BY <1>2, <1>3, <1>4
<1>7. \A i \in 1 .. Len(m) : stream'[Len(stream) + i] = m[i]
  BY <1>2, <1>3, <1>4
<1>. QED BY <1>5, <1>6, <1>7 DEF m

\* So is what the drops name.
LEMMA DropsAreSent ==
  ASSUME NEW t \in Threads, TypeOK, stream' = stream \o Message(t), NEW r
  PROVE  /\ Contains(stream, r) => Contains(stream', r)
         /\ "channel" \in drops /\ r = Info => Contains(stream', r)
         /\ "trace" \in drops /\ r = Desc(call.trace) => Contains(stream', r)
<1>. DEFINE m == Message(t)
            n == Len(stream)
            c == Desc(call.trace)
<1>1. /\ Len(m) \in 1 .. 3
      /\ "channel" \in drops => m[1] = Info
      /\ "trace" \in drops => Len(m) > 1 /\ m[Len(m) - 1] = c
  BY MessageFacts
<1>2. /\ DOMAIN stream = 1 .. n /\ DOMAIN stream' = 1 .. n + Len(m)
      /\ \A i \in 1 .. n : stream'[i] = stream[i]
      /\ \A i \in 1 .. Len(m) : stream'[n + i] = m[i]
  BY StreamGrows
<1>3. n \in Nat
  BY DEF TypeOK
<1>. HIDE DEF m, n, c
<1>4. Contains(stream, r) => Contains(stream', r)
  BY <1>1, <1>2, <1>3 DEF Contains
<1>5. ASSUME NEW k \in 1 .. Len(m), m[k] = r
      PROVE  Contains(stream', r)
  <2>1. n + k \in DOMAIN stream' /\ stream'[n + k] = r
    BY <1>1, <1>2, <1>3, <1>5
  <2>. QED BY <2>1 DEF Contains
<1>6. "channel" \in drops /\ r = Info => Contains(stream', r)
  BY <1>1, <1>5
<1>7. "trace" \in drops /\ r = c => Contains(stream', r)
  <2>1. "trace" \in drops => Len(m) - 1 \in 1 .. Len(m)
    BY <1>1
  <2>. QED BY <1>1, <1>5, <2>1
<1>. QED BY <1>4, <1>6, <1>7 DEF c

\* No step leaves a mark for what the client has not got.
LEMMA MarkedStep == Marked /\ [Next]_vars => Marked'
<1>. SUFFICES ASSUME Marked, [Next]_vars PROVE MarkInv'
  BY TypeStep DEF Marked
<1>. USE DEF Marked, clientVars, channelVars, callVars
<1>0. TypeOK'
  BY TypeStep
<1>1. CASE Connect
  BY <1>1 DEF Connect, MarkInv, TypeOK, Undefined
<1>2. CASE Disconnect
  BY <1>2 DEF Disconnect, MarkInv, Contains
<1>3. CASE Reset
  BY <1>3 DEF Reset, MarkInv, TypeOK, Undefined
<1>4. ASSUME NEW t \in Threads, GetStatus(t)
      PROVE  MarkInv'
  BY <1>4 DEF GetStatus, MarkInv, TypeOK, Contains, Held
<1>5. ASSUME NEW t \in Threads, TestConnected(t)
      PROVE  MarkInv'
  BY <1>5 DEF TestConnected, MarkInv, TypeOK, Contains, Held
<1>6. ASSUME NEW t \in Threads, NEW d \in Traces, NEW l \in Levels,
             pc[t] = "enter", lock = NoThread,
             Quiet(t, d, l) \/ NoDescription(t, d, l) \/ Describe(t, d, l),
             UNCHANGED <<clientVars, stream, status, mark, verbosity>>
      PROVE  MarkInv'
  <2>1. CASE Quiet(t, d, l)
    BY <1>6, <2>1 DEF Quiet, MarkInv, TypeOK, Contains, Held
  <2>2. CASE NoDescription(t, d, l)
    BY <1>6, <2>2 DEF NoDescription, MarkInv, TypeOK, Contains, Held
  <2>3. CASE Describe(t, d, l)
    <3>1. \A u \in Threads : pc[u] \notin Held
      BY <1>6, TraceAssumption DEF TypeOK, Held
    <3>. QED BY <1>6, <2>3, <3>1 DEF Describe, MarkInv, TypeOK, Contains, Held, Undefined
  <2>. QED BY <1>6, <2>1, <2>2, <2>3
<1>7. ASSUME NEW t \in Threads, CompareChannel(t)
      PROVE  MarkInv'
  <2>1. \A u \in Threads : u # t => pc[u] \notin Held
    BY <1>7, OneHolder DEF CompareChannel, Held
  <2>. QED BY <1>7, <2>1 DEF CompareChannel, MarkInv, TypeOK, Contains, Held
<1>8. ASSUME NEW t \in Threads, MarkChannel(t)
      PROVE  MarkInv'
  <2>1. \A u \in Threads : u # t => pc[u] \notin Held
    BY <1>8, OneHolder DEF MarkChannel, Held
  <2>. QED BY <1>8, <2>1 DEF MarkChannel, MarkInv, TypeOK, Contains, Held
<1>9. ASSUME NEW t \in Threads, MarkDescription(t)
      PROVE  MarkInv'
  <2>1. \A u \in Threads : u # t => pc[u] \notin Held
    BY <1>9, OneHolder DEF MarkDescription, Held
  <2>. QED BY <1>9, <2>1 DEF MarkDescription, MarkInv, TypeOK, Contains, Held
<1>10. ASSUME NEW t \in Threads, SendAccepted(t)
       PROVE  MarkInv'
  <2>1. \A u \in Threads : u # t => pc[u] \notin Held
    BY <1>10, OneHolder DEF SendAccepted, Held
  <2>2. \A r :
          /\ Contains(stream, r) => Contains(stream', r)
          /\ "channel" \in drops /\ r = Info => Contains(stream', r)
          /\ "trace" \in drops /\ r = Desc(call.trace) => Contains(stream', r)
    BY <1>10, DropsAreSent DEF SendAccepted
  <2>3. UNCHANGED <<connected, resets, status, mark, marks, call, drops>>
        /\ pc' = [pc EXCEPT ![t] = "idle"] /\ pc[t] = "send"
    BY <1>10 DEF SendAccepted, Leave
  <2>4. \A u \in Threads : pc'[u] \notin Held
    BY <2>1, <2>3 DEF TypeOK, Held
  <2>5. mark = resets => Contains(stream', Info)
    BY <2>2 DEF MarkInv
  <2>6. ASSUME NEW d \in DOMAIN marks, marks[d] = resets
        PROVE  Contains(stream', Desc(d))
    BY <2>2, <2>6 DEF MarkInv
  <2>. QED BY <2>3, <2>4, <2>5, <2>6 DEF MarkInv, Held
<1>11. ASSUME NEW t \in Threads, SendRefused(t)
       PROVE  MarkInv'
  <2>1. \A u \in Threads : u # t => pc[u] \notin Held
    BY <1>11, OneHolder DEF SendRefused, Held
  <2>2. UNCHANGED <<connected, resets, status, stream, call, drops>>
        /\ pc' = [pc EXCEPT ![t] = "idle"] /\ pc[t] = "send"
        /\ mark' = (IF "channel" \in drops THEN Undefined ELSE mark)
        /\ marks' = (IF "trace" \in drops THEN [marks EXCEPT ![call.trace] = Undefined] ELSE marks)
    BY <1>11 DEF SendRefused, Leave
  <2>3. \A u \in Threads : pc'[u] \notin Held
    BY <2>1, <2>2 DEF TypeOK, Held
  <2>4. \A r : Contains(stream', r) <=> Contains(stream, r)
    BY <2>2 DEF Contains
  <2>5. mark' <= resets' /\ (mark' = resets' => Contains(stream', Info))
    BY <2>2, <2>4 DEF MarkInv, Undefined, TypeOK
  <2>6. \A d \in DOMAIN marks' : marks'[d] <= resets' /\ (marks'[d] = resets' => Contains(stream', Desc(d)))
    BY <2>2, <2>4 DEF MarkInv, Undefined, TypeOK
  <2>. QED BY <2>2, <2>3, <2>5, <2>6 DEF MarkInv, Held
<1>12. ASSUME NEW l \in Levels, SetVerbosity(l)
       PROVE  MarkInv'
  BY <1>12 DEF SetVerbosity, MarkInv, Contains
<1>13. CASE Destroy
  <2>1. \A r : Contains(stream, r) => Contains(stream', r)
    <3>1. stream \in Seq(Records) /\ (stream' = stream \/ stream' = Append(stream, Close))
      BY <1>13 DEF Destroy, TypeOK
    <3>. QED BY <3>1 DEF Contains
  <2>2. \A t \in Threads : pc[t] \notin Held /\ pc'[t] \notin Held
    BY <1>13 DEF Destroy, Held
  <2>. QED BY <1>13, <2>1, <2>2 DEF Destroy, MarkInv, Held
<1>14. CASE UNCHANGED vars
  BY <1>14 DEF vars, MarkInv, Contains
<1>. QED BY <1>1, <1>2, <1>3, <1>4, <1>5, <1>6, <1>7, <1>8, <1>9, <1>10, <1>11, <1>12, <1>13, <1>14
         DEF Next, Client, TraceRaw, Enter

LEMMA MarkedAlways == Spec => []Marked
BY MarkedInit, MarkedStep, PTL DEF Spec

\* Whatever threads trace, fail to send or are overtaken by resets: what a
\* channel believes the server has got was accepted since the last reset.
THEOREM MarksTrue == Spec => []MarksAreTrue
<1>1. Marked => MarksAreTrue
  <2>. SUFFICES ASSUME Marked, lock = NoThread
                PROVE  /\ mark = resets => Contains(stream, Info)
                       /\ \A d \in DOMAIN marks : marks[d] = resets => Contains(stream, Desc(d))
    BY DEF MarksAreTrue
  <2>1. \A t \in Threads : pc[t] \notin Held
    BY TraceAssumption DEF Marked, TypeOK, Held
  <2>. QED BY <2>1 DEF Marked, MarkInv, Held
<1>. QED BY <1>1, MarkedAlways, PTL

-----------------------------------------------------------------------------
(* The order of the stream.                                                *)

\* What a stream says by itself, whatever the state of the channel is.
StreamInv ==
  /\ \A i, j \in DataAt : i < j /\ stream[i].thread = stream[j].thread => stream[j].fresh
  /\ FreshIsDescribed
  /\ SequenceOrdered

\* While the client has accepted traces its reset counter stands still, and a
\* thread that has sent one of them works with that counter from then on.
StaleInv ==
  /\ DataAt # {} => connected \/ dirty
  /\ \A i \in DataAt, t \in Threads :
       stream[i].thread = t /\ pc[t] \notin {"idle", "gone"} =>
         /\ status.resets = resets
         /\ pc[t] \in {"describe", "send"} => mark = resets

NumberInv ==
  /\ \A i \in DataAt : stream[i].sequence <= sequence
  /\ \A i \in DataAt, t \in Threads : pc[t] \in Held => stream[i].sequence < sequence

OrderInv == StreamInv /\ StaleInv /\ NumberInv

LEMMA OrderInit == Init => OrderInv
<1>. SUFFICES ASSUME Init PROVE OrderInv
  OBVIOUS
<1>1. DataAt = {}
  BY DEF Init, DataAt
<1>. QED BY <1>1 DEF OrderInv, StreamInv, StaleInv, NumberInv, FreshIsDescribed, SequenceOrdered

\* A message adds one trace to the stream, behind all the others.
LEMMA OneMore ==
  ASSUME NEW t \in Threads, TypeOK, stream' = stream \o Message(t)
  PROVE  LET k == Len(stream) + Len(Message(t))
         IN  /\ DataAt' = DataAt \cup {k}
             /\ stream'[k] = Data(t, call.trace)
             /\ \A i \in DataAt : i \in 1 .. Len(stream) /\ i < k /\ stream'[i] = stream[i]
<1>. DEFINE m == Message(t)
            n == Len(stream)
<1>1. /\ Len(m) \in 1 .. 3 /\ m[Len(m)] = Data(t, call.trace)
      /\ \A i \in 1 .. Len(m) - 1 : m[i].type # "data"
  BY MessageFacts
<1>2. /\ DOMAIN stream = 1 .. n /\ DOMAIN stream' = 1 .. n + Len(m)
      /\ \A i \in 1 .. n : stream'[i] = stream[i]
      /\ \A i \in 1 .. Len(m) : stream'[n + i] = m[i]
  BY StreamGrows
<1>3. n \in Nat
  BY DEF TypeOK
<1>. DEFINE d == Data(t, call.trace)
<1>4. d.type = "data"
  BY DEF Data
<1>. HIDE DEF m, n, d
<1>5. Len(m) \in Nat /\ Len(m) \in 1 .. Len(m) /\ stream'[n + Len(m)] = d
  <2>1. Len(m) \in Nat /\ Len(m) \in 1 .. Len(m)
    BY <1>1
  <2>2. stream'[n + Len(m)] = m[Len(m)]
    BY <1>2, <2>1
  <2>. QED BY <1>1, <2>1, <2>2 DEF d
<1>6. ASSUME NEW i \in 1 .. n + Len(m), i > n, i # n + Len(m)
      PROVE  stream'[i].type # "data"
  <2>. DEFINE k == i - n
  <2>1. k \in 1 .. Len(m) /\ k \in 1 .. Len(m) - 1 /\ i = n + k
    BY <1>1, <1>3, <1>6
  <2>2. stream'[i] = m[k]
    BY <1>2, <2>1
  <2>. QED BY <1>1, <2>1, <2>2
<1>7. DataAt' = DataAt \cup {n + Len(m)}
  <2>1. DataAt = {i \in 1 .. n : stream[i].type = "data"}
    BY <1>2 DEF DataAt
  <2>2. DataAt' = {i \in 1 .. n + Len(m) : stream'[i].type = "data"}
    BY <1>2 DEF DataAt
  <2>3. \A i \in 1 .. n + Len(m) : i <= n => stream'[i] = stream[i]
    BY <1>2, <1>3
  <2>4. \A i \in 1 .. n + Len(m) : i \in 1 .. n <=> i <= n
    BY <1>3
  <2>5. 1 .. n \subseteq 1 .. n + Len(m) /\ n + Len(m) \in 1 .. n + Len(m) /\ n + Len(m) > n
    BY <1>1, <1>3
  <2>. DEFINE k == n + Len(m)
  <2>6. k \in DataAt'
    BY <1>4, <1>5, <2>2, <2>5
  <2>7. \A i \in DataAt : i \in DataAt'
    BY <2>1, <2>2, <2>3, <2>4, <2>5
  <2>8. ASSUME NEW i \in DataAt', i # k
        PROVE  i \in DataAt
    <3>1. i \in 1 .. n + Len(m) /\ stream'[i].type = "data"
      BY <2>2
    <3>2. ~(i > n)
      BY <1>6, <2>8, <3>1
    <3>3. i <= n
      BY <1>3, <3>1, <3>2
    <3>. QED BY <2>1, <2>3, <2>4, <3>1, <3>3
  <2>. QED BY <2>6, <2>7, <2>8
<1>8. \A i \in DataAt : i \in 1 .. n /\ i < n + Len(m) /\ stream'[i] = stream[i]
  BY <1>1, <1>2, <1>3 DEF DataAt
<1>. QED BY <1>5, <1>7, <1>8 DEF m, n, d

\* The stream keeps its order when a call that holds the lock adds to it.
LEMMA SendKeepsOrder ==
  ASSUME Marked, OrderInv, NEW t \in Threads, SendAccepted(t)
  PROVE  OrderInv'
<1>. DEFINE k == Len(stream) + Len(Message(t))
            d == Data(t, call.trace)
<1>1. /\ DataAt' = DataAt \cup {k}
      /\ stream'[k] = d
      /\ \A i \in DataAt : i \in 1 .. Len(stream) /\ i < k /\ stream'[i] = stream[i]
  BY OneMore DEF SendAccepted, Marked
<1>2. d.thread = t /\ d.sequence = sequence /\ d.trace = call.trace /\ d.fresh = (mark = resets)
  BY DEF Data
<1>3. pc[t] = "send" /\ connected /\ pc' = [pc EXCEPT ![t] = "idle"]
      /\ UNCHANGED <<connected, dirty, resets, status, mark, sequence>>
  BY DEF SendAccepted, Leave, clientVars, channelVars
<1>4. \A u \in Threads : u # t => pc[u] \notin Held
  BY <1>3, OneHolder DEF Marked, Held
<1>5. \A u \in Threads : pc'[u] \notin Held /\ (u # t => pc'[u] = pc[u]) /\ pc'[t] = "idle"
  BY <1>3, <1>4 DEF Marked, TypeOK, Held
<1>6. k \notin DataAt /\ k \in Nat /\ \A i \in DataAt : i \in Nat
  BY <1>1, MessageFacts DEF Marked, TypeOK
<1>. HIDE DEF k, d
<1>7. StaleInv'
  <2>1. connected'
    BY <1>3
  <2>2. ASSUME NEW i \in DataAt', NEW u \in Threads,
               stream'[i].thread = u, pc'[u] \notin {"idle", "gone"}
        PROVE  /\ status'.resets = resets'
               /\ pc'[u] \in {"describe", "send"} => mark' = resets'
    <3>1. u # t
      BY <1>5, <2>2
    <3>2. i \in DataAt /\ stream[i].thread = u /\ pc[u] = pc'[u]
      BY <1>1, <1>2, <1>5, <2>2, <3>1
    <3>. QED BY <1>3, <2>2, <3>2 DEF OrderInv, StaleInv
  <2>. QED BY <2>1, <2>2 DEF StaleInv
<1>8. NumberInv'
  <2>1. sequence \in Nat
    BY DEF Marked, TypeOK
  <2>2. ASSUME NEW i \in DataAt'
        PROVE  stream'[i].sequence <= sequence'
    BY <1>1, <1>2, <1>3, <2>1, <2>2 DEF OrderInv, NumberInv
  <2>. QED BY <1>5, <2>2 DEF NumberInv
<1>9. SequenceOrdered'
  <2>1. ASSUME NEW i \in DataAt', NEW j \in DataAt', i < j
        PROVE  stream'[i].sequence < stream'[j].sequence
    <3>1. i \in DataAt
      BY <1>1, <1>6, <2>1
    <3>2. CASE j = k
      BY <1>1, <1>2, <1>3, <3>1, <3>2 DEF OrderInv, NumberInv, Held
    <3>3. CASE j \in DataAt
      BY <1>1, <2>1, <3>1, <3>3 DEF OrderInv, StreamInv, SequenceOrdered
    <3>. QED BY <1>1, <3>2, <3>3
  <2>. QED BY <2>1 DEF SequenceOrdered
<1>10. ASSUME NEW i \in DataAt', NEW j \in DataAt', i < j, stream'[i].thread = stream'[j].thread
       PROVE  stream'[j].fresh
  <2>1. i \in DataAt
    BY <1>1, <1>6, <1>10
  <2>2. CASE j = k
    <3>1. stream[i].thread = t
      BY <1>1, <1>2, <1>10, <2>1, <2>2
    <3>2. mark = resets
      BY <1>3, <2>1, <3>1 DEF OrderInv, StaleInv
    <3>. QED BY <1>1, <1>2, <2>2, <3>2
  <2>3. CASE j \in DataAt
    BY <1>1, <1>10, <2>1, <2>3 DEF OrderInv, StreamInv
  <2>. QED BY <1>1, <2>2, <2>3
<1>11. FreshIsDescribed'
  <2>1. ASSUME NEW i \in DataAt', stream'[i].fresh
        PROVE  /\ \E j \in 1 .. i - 1 : stream'[j] = Info
               /\ \E j \in 1 .. i - 1 : stream'[j] = Desc(stream'[i].trace)
    <3>1. CASE i = k
      <4>. DEFINE n == Len(stream)
                  m == Message(t)
                  c == Desc(call.trace)
      <4>1. n \in Nat /\ Len(m) \in 1 .. 3 /\ k = n + Len(m)
            /\ ("channel" \in drops => Len(m) > 1 /\ m[1] = Info)
            /\ ("trace" \in drops => Len(m) > 1 /\ m[Len(m) - 1] = c)
        BY MessageFacts DEF Marked, TypeOK, k
      <4>2. /\ \A j \in 1 .. n : stream'[j] = stream[j]
            /\ \A j \in 1 .. Len(m) : stream'[n + j] = m[j]
        BY StreamGrows DEF SendAccepted, Marked
      <4>3. mark = resets /\ stream'[i].trace = call.trace
        BY <1>1, <1>2, <2>1, <3>1
      <4>4. Contains(stream, Info) \/ "channel" \in drops
        BY <4>3 DEF Marked, MarkInv
      <4>5. Contains(stream, c) \/ "trace" \in drops
        BY <1>3, <4>3 DEF Marked, MarkInv, Held
      <4>. HIDE DEF n, m, c
      <4>6. ASSUME NEW r, \E j \in 1 .. n : stream[j] = r
            PROVE  \E j \in 1 .. i - 1 : stream'[j] = r
        <5>1. PICK j \in 1 .. n : stream[j] = r
          BY <4>6
        <5>2. i = n + Len(m) /\ Len(m) \in 1 .. 3
          BY <3>1, <4>1
        <5>3. j \in 1 .. i - 1
          BY <4>1, <5>2
        <5>4. stream'[j] = r
          BY <4>2, <5>1
        <5>. QED BY <5>3, <5>4
      <4>7. ASSUME NEW r, NEW j \in 1 .. Len(m) - 1, m[j] = r
            PROVE  \E l \in 1 .. i - 1 : stream'[l] = r
        <5>1. n + j \in 1 .. i - 1 /\ stream'[n + j] = r
          BY <3>1, <4>1, <4>2, <4>7
        <5>. QED BY <5>1
      <4>8. \E j \in 1 .. i - 1 : stream'[j] = Info
        <5>1. CASE Contains(stream, Info)
          BY <4>6, <5>1 DEF Contains, n
        <5>2. CASE "channel" \in drops
          <6>1. 1 \in 1 .. Len(m) - 1 /\ m[1] = Info
            BY <4>1, <5>2
          <6>. QED BY <4>7, <6>1
        <5>. QED BY <4>4, <5>1, <5>2
      <4>9. "trace" \in drops => Len(m) - 1 \in 1 .. Len(m) - 1
        BY <4>1
      <4>10. \E j \in 1 .. i - 1 : stream'[j] = c
        BY <4>1, <4>5, <4>6, <4>7, <4>9 DEF Contains, n
      <4>. QED BY <4>3, <4>8, <4>10 DEF c
    <3>2. CASE i \in DataAt
      <4>1. stream[i].fresh /\ stream'[i] = stream[i] /\ i \in 1 .. Len(stream)
        BY <1>1, <2>1, <3>2
      <4>2. Described(i)
        BY <3>2, <4>1 DEF OrderInv, StreamInv, FreshIsDescribed
      <4>3. \A j \in 1 .. Len(stream) : stream'[j] = stream[j]
        BY StreamGrows DEF SendAccepted, Marked
      <4>4. \A j \in 1 .. i - 1 : j \in 1 .. Len(stream)
        BY <4>1 DEF Marked, TypeOK
      <4>. QED BY <4>1, <4>2, <4>3, <4>4 DEF Described, SentBefore
    <3>. QED BY <1>1, <3>1, <3>2
  <2>. QED BY <2>1 DEF FreshIsDescribed, Described, SentBefore, Info, Desc
<1>. QED BY <1>7, <1>8, <1>9, <1>10, <1>11 DEF OrderInv, StreamInv

\* A step that adds no trace, and drops none, leaves what the stream says.
LEMMA StreamUnchanged ==
  ASSUME DataAt' = DataAt, \A i \in DataAt : stream'[i] = stream[i],
         \A i \in DataAt : \A j \in 1 .. i - 1 : stream'[j] = stream[j],
         StreamInv
  PROVE  StreamInv'
<1>1. /\ \A i, j \in DataAt' :
           i < j /\ stream'[i].thread = stream'[j].thread => stream'[j].fresh
      /\ SequenceOrdered'
  BY DEF StreamInv, SequenceOrdered
<1>2. FreshIsDescribed'
  BY DEF StreamInv, FreshIsDescribed, Described, SentBefore, Info, Desc
<1>. QED BY <1>1, <1>2 DEF StreamInv

LEMMA OrderStep == Marked /\ OrderInv /\ [Next]_vars => OrderInv'
<1>. SUFFICES ASSUME Marked, OrderInv, [Next]_vars PROVE OrderInv'
  OBVIOUS
<1>. USE DEF clientVars, channelVars, callVars
<1>0. TypeOK /\ MarkInv /\ StreamInv /\ StaleInv /\ NumberInv
  BY DEF Marked, OrderInv
<1>1. ASSUME UNCHANGED stream
      PROVE  DataAt' = DataAt /\ StreamInv'
  <2>1. DataAt' = DataAt
    BY <1>1 DEF DataAt
  <2>. QED BY <1>0, <1>1, <2>1, StreamUnchanged
<1>2. CASE Connect
  BY <1>0, <1>1, <1>2 DEF Connect, OrderInv, StaleInv, NumberInv
<1>3. CASE Disconnect
  BY <1>0, <1>1, <1>3 DEF Disconnect, OrderInv, StaleInv, NumberInv
<1>4. CASE Reset
  <2>1. DataAt' = {}
    BY <1>4 DEF Reset, DataAt
  <2>. QED BY <2>1 DEF OrderInv, StreamInv, StaleInv, NumberInv, FreshIsDescribed, SequenceOrdered
<1>5. ASSUME NEW t \in Threads, GetStatus(t)
      PROVE  OrderInv'
  <2>1. /\ UNCHANGED <<connected, dirty, resets, stream, mark, sequence>>
        /\ status'.resets = resets
        /\ pc' = [pc EXCEPT ![t] = "test"]
    BY <1>5 DEF GetStatus
  <2>2. \A u \in Threads : pc'[u] = IF u = t THEN "test" ELSE pc[u]
    BY <1>0, <2>1 DEF TypeOK
  <2>3. DataAt' = DataAt /\ StreamInv'
    BY <1>1, <2>1
  <2>4. StaleInv'
    BY <1>0, <2>1, <2>2, <2>3 DEF StaleInv
  <2>5. NumberInv'
    BY <1>0, <2>1, <2>2, <2>3 DEF NumberInv, Held
  <2>. QED BY <2>3, <2>4, <2>5 DEF OrderInv
<1>6. ASSUME NEW t \in Threads, TestConnected(t)
      PROVE  OrderInv'
  BY <1>0, <1>1, <1>6 DEF TestConnected, TypeOK, OrderInv, StaleInv, NumberInv, Held
<1>7. ASSUME NEW t \in Threads, NEW d \in Traces, NEW l \in Levels,
             pc[t] = "enter", lock = NoThread,
             Quiet(t, d, l) \/ NoDescription(t, d, l) \/ Describe(t, d, l),
             UNCHANGED <<clientVars, stream, status, mark, verbosity>>
      PROVE  OrderInv'
  <2>1. \A u \in Threads : pc[u] \notin Held
    BY <1>0, <1>7, TraceAssumption DEF TypeOK, Held
  <2>2. DataAt' = DataAt /\ StreamInv'
    BY <1>1, <1>7
  <2>3. /\ UNCHANGED <<connected, dirty, resets, stream, status, mark>>
        /\ \A u \in Threads : u # t => pc'[u] = pc[u]
        /\ \/ sequence' = sequence /\ pc'[t] = "idle"
           \/ sequence' = sequence + 1 /\ pc'[t] \in {"idle", "compare"}
    BY <1>0, <1>7 DEF Quiet, NoDescription, Describe, TypeOK
  <2>4. StaleInv'
    BY <1>0, <1>7, <2>2, <2>3 DEF StaleInv
  <2>5. \A i \in DataAt : stream[i].sequence \in Nat
    BY <1>0 DEF TypeOK, DataAt, Records, Info, Desc, Close
  <2>6. NumberInv'
    BY <1>0, <2>1, <2>2, <2>3, <2>5 DEF NumberInv, TypeOK, Held
  <2>. QED BY <2>2, <2>4, <2>6 DEF OrderInv
<1>8. ASSUME NEW t \in Threads, CompareChannel(t)
      PROVE  OrderInv'
  BY <1>0, <1>1, <1>8 DEF CompareChannel, TypeOK, OrderInv, StaleInv, NumberInv, Held
<1>9. ASSUME NEW t \in Threads, MarkChannel(t)
      PROVE  OrderInv'
  <2>1. \A u \in Threads : u # t => pc[u] \notin Held
    BY <1>0, <1>9, OneHolder DEF MarkChannel, Held
  <2>. QED BY <1>0, <1>1, <1>9, <2>1 DEF MarkChannel, TypeOK, OrderInv, StaleInv, NumberInv, Held
<1>10. ASSUME NEW t \in Threads, MarkDescription(t)
       PROVE  OrderInv'
  BY <1>0, <1>1, <1>10 DEF MarkDescription, TypeOK, OrderInv, StaleInv, NumberInv, Held
<1>11. ASSUME NEW t \in Threads, SendAccepted(t)
       PROVE  OrderInv'
  BY <1>11, SendKeepsOrder
<1>12. ASSUME NEW t \in Threads, SendRefused(t)
       PROVE  OrderInv'
  <2>1. \A u \in Threads : u # t => pc[u] \notin Held
    BY <1>0, <1>12, OneHolder DEF SendRefused, Held
  <2>2. UNCHANGED <<connected, dirty, resets, stream, status, sequence>>
        /\ pc' = [pc EXCEPT ![t] = "idle"]
    BY <1>12 DEF SendRefused, Leave
  <2>3. \A u \in Threads : pc'[u] \notin Held /\ pc'[u] = IF u = t THEN "idle" ELSE pc[u]
    BY <1>0, <2>1, <2>2 DEF TypeOK, Held
  <2>4. DataAt' = DataAt /\ StreamInv'
    BY <1>1, <2>2
  <2>5. StaleInv' /\ NumberInv'
    BY <1>0, <2>2, <2>3, <2>4 DEF StaleInv, NumberInv, Held
  <2>. QED BY <2>4, <2>5 DEF OrderInv
<1>13. ASSUME NEW l \in Levels, SetVerbosity(l)
       PROVE  OrderInv'
  BY <1>0, <1>1, <1>13 DEF SetVerbosity, OrderInv, StaleInv, NumberInv
<1>14. CASE Destroy
  <2>1. /\ UNCHANGED <<connected, dirty, resets, status, mark, sequence>>
        /\ \A t \in Threads : pc'[t] = "gone"
        /\ stream' = stream \/ (connected /\ stream' = Append(stream, Close))
    BY <1>14 DEF Destroy
  <2>2. stream \in Seq(Records) /\ Close.type # "data"
    BY <1>0 DEF TypeOK, Close
  <2>3. /\ DataAt' = DataAt
        /\ \A j \in 1 .. Len(stream) : stream'[j] = stream[j]
    BY <2>1, <2>2 DEF DataAt
  <2>4. \A i \in DataAt : i \in 1 .. Len(stream) /\ \A j \in 1 .. i - 1 : j \in 1 .. Len(stream)
    BY <2>2 DEF DataAt
  <2>5. StreamInv'
    BY <1>0, <2>3, <2>4, StreamUnchanged
  <2>6. StaleInv' /\ NumberInv'
    BY <1>0, <2>1, <2>3, <2>4 DEF StaleInv, NumberInv, Held
  <2>. QED BY <2>5, <2>6 DEF OrderInv
<1>15. CASE UNCHANGED vars
  BY <1>0, <1>1, <1>15 DEF vars, OrderInv, StaleInv, NumberInv
<1>. QED BY <1>2, <1>3, <1>4, <1>5, <1>6, <1>7, <1>8, <1>9, <1>10, <1>11, <1>12, <1>13, <1>14, <1>15
         DEF Next, Client, TraceRaw, Enter

LEMMA OrderAlways == Spec => [](Marked /\ OrderInv)
BY MarkedInit, MarkedStep, OrderInit, OrderStep, PTL DEF Spec

\* A trace that was accepted under the counter its marks were compared with
\* comes after the information of the channel and its own description.
THEOREM FreshDescribed == Spec => []FreshIsDescribed
<1>1. OrderInv => FreshIsDescribed
  BY DEF OrderInv, StreamInv
<1>. QED BY <1>1, OrderAlways, PTL

\* The race of Get_Status (Trace.cpp:973) with a reset costs every thread one
\* trace in a session at most: all its later ones are described.
THEOREM StaleOnce == Spec => []StaleOncePerThread
<1>1. OrderInv => StaleOncePerThread
  BY DEF OrderInv, StreamInv, FreshIsDescribed, StaleOncePerThread
<1>. QED BY <1>1, OrderAlways, PTL

\* The traces of all the threads reach the client in the order of their
\* sequence numbers, which the server counts losses with.
THEOREM NumbersInOrder == Spec => []SequenceOrdered
<1>1. OrderInv => SequenceOrdered
  BY DEF OrderInv, StreamInv
<1>. QED BY <1>1, OrderAlways, PTL

-----------------------------------------------------------------------------
(* Levels.                                                                 *)

\* The level of a call that holds the lock has passed the test against the
\* verbosity, which stands still until the call leaves.
LevelInv == \A t \in Threads : pc[t] \in Held => call.level >= verbosity

LEMMA LevelInit == Init => LevelInv
BY DEF Init, LevelInv, Held

LEMMA LevelStep == TypeOK /\ LevelInv /\ [Next]_vars => LevelInv'
<1>. SUFFICES ASSUME TypeOK, LevelInv, [Next]_vars PROVE LevelInv'
  OBVIOUS
<1>. USE DEF clientVars, channelVars, callVars
<1>1. ASSUME UNCHANGED <<call, verbosity>>,
             \A t \in Threads : pc'[t] \in Held => pc[t] \in Held
      PROVE  LevelInv'
  BY <1>1 DEF LevelInv
<1>2. CASE Client
  BY <1>1, <1>2 DEF Client, Connect, Disconnect, Reset
<1>3. ASSUME NEW t \in Threads,
             \/ GetStatus(t) \/ TestConnected(t) \/ CompareChannel(t) \/ MarkChannel(t)
             \/ MarkDescription(t) \/ SendAccepted(t) \/ SendRefused(t)
      PROVE  LevelInv'
  <2>1. UNCHANGED <<call, verbosity>>
    BY <1>3 DEF GetStatus, TestConnected, CompareChannel, MarkChannel, MarkDescription,
                SendAccepted, SendRefused
  <2>2. \E p \in {"idle", "test", "enter"} \cup Held :
          /\ pc' = [pc EXCEPT ![t] = p]
          /\ p \in Held => pc[t] \in Held
    BY <1>3 DEF GetStatus, TestConnected, CompareChannel, MarkChannel, MarkDescription,
                SendAccepted, SendRefused, Leave, Held
  <2>3. \A u \in Threads : pc'[u] \in Held => pc[u] \in Held
    BY <2>2 DEF TypeOK
  <2>. QED BY <1>1, <2>1, <2>3
<1>4. ASSUME NEW t \in Threads, Enter(t)
      PROVE  LevelInv'
  <2>1. PICK d \in Traces, l \in Levels : Quiet(t, d, l) \/ NoDescription(t, d, l) \/ Describe(t, d, l)
    BY <1>4 DEF Enter
  <2>2. verbosity' = verbosity
    BY <1>4 DEF Enter
  <2>3. CASE Quiet(t, d, l) \/ NoDescription(t, d, l)
    <3>1. call' = call /\ pc' = [pc EXCEPT ![t] = "idle"]
      BY <2>3 DEF Quiet, NoDescription
    <3>2. \A u \in Threads : pc'[u] \in Held => pc[u] \in Held
      BY <3>1 DEF TypeOK, Held
    <3>. QED BY <1>1, <2>2, <3>1, <3>2
  <2>4. CASE Describe(t, d, l)
    BY <2>2, <2>4 DEF Describe, LevelInv
  <2>. QED BY <2>1, <2>3, <2>4
<1>5. ASSUME NEW l \in Levels, SetVerbosity(l)
      PROVE  LevelInv'
  <2>1. \A t \in Threads : pc[t] \notin Held
    BY <1>5, TraceAssumption DEF SetVerbosity, TypeOK, Held
  <2>. QED BY <1>5, <2>1 DEF SetVerbosity, LevelInv
<1>6. CASE Destroy
  BY <1>1, <1>6 DEF Destroy, Held
<1>7. CASE UNCHANGED vars
  BY <1>1, <1>7 DEF vars
<1>. QED BY <1>2, <1>3, <1>4, <1>5, <1>6, <1>7 DEF Next, TraceRaw

\* Once Set_Verbosity has returned no trace below the level is accepted any more,
\* neither one that a thread began before nor one that waited for the lock.
THEOREM LevelObeyed == Spec => VerbosityObeyed
<1>1. LevelInv => \A t \in Threads : SendAccepted(t) => call.level >= verbosity
  BY DEF LevelInv, SendAccepted, Held
<1>. QED BY <1>1, TypeInit, TypeStep, LevelInit, LevelStep, PTL DEF Spec, VerbosityObeyed

-----------------------------------------------------------------------------
(* Format.  What its loops compute is stated as a function of the turns    *)
(* that have been made: where things end that lie one behind the other,    *)
(* sequences put end to end, the blocks of the arguments.                  *)

\* A set of numbers has a least one.
LEMMA LeastNat ==
  ASSUME NEW S \in SUBSET Nat, S # {}
  PROVE  \E n \in S : \A k \in S : n <= k
<1>. DEFINE Less == {ss \in Nat \X Nat : ss[1] < ss[2]}
<1>1. IsWellFoundedOn(Less, Nat)
  BY NatLessThanWellFounded DEF OpToRel
<1>2. PICK n \in S : \A k \in S : ~(<<k, n>> \in Less)
  BY <1>1, WFMin
<1>3. ASSUME NEW k \in S
      PROVE  n <= k
  <2>1. <<k, n>> \in Nat \X Nat
    OBVIOUS
  <2>2. ~(k < n)
    BY <1>2, <2>1
  <2>. QED BY <2>2
<1>. QED BY <1>3

\* What a loop of n steps has after each of them, when it begins with x
Stepwise(S, x, n, step, f) ==
  f \in [0 .. n -> S] /\ f[0] = x /\ \A k \in 1 .. n : f[k] = step[<<k, f[k - 1]>>]

\* It exists.
LEMMA StepsExist ==
  ASSUME NEW S, NEW x \in S, NEW n \in Nat, NEW step \in [(1 .. n) \X S -> S]
  PROVE  \E f : Stepwise(S, x, n, step, f)
<1>. DEFINE Good(m) == \E f \in [0 .. m -> S] :
                          f[0] = x /\ \A k \in 1 .. m : f[k] = step[<<k, f[k - 1]>>]
            Bad == {m \in 0 .. n : ~Good(m)}
<1>1. ASSUME Bad # {}
      PROVE  FALSE
  <2>0. Bad \in SUBSET Nat
    OBVIOUS
  <2>1. PICK m \in Bad : \A k \in Bad : m <= k
    BY <1>1, <2>0, LeastNat
  <2>2. m \in 0 .. n /\ ~Good(m)
    BY <2>1
  <2>3. CASE m = 0
    <3>. DEFINE f == [k \in 0 .. 0 |-> x]
    <3>1. f \in [0 .. m -> S] /\ f[0] = x /\ \A k \in 1 .. m : f[k] = step[<<k, f[k - 1]>>]
      BY <2>3
    <3>. QED BY <2>2, <3>1
  <2>4. CASE m # 0
    <3>0. m - 1 \in 0 .. n /\ m \in 1 .. n /\ m - 1 < m
      BY <2>2, <2>4
    <3>1. m - 1 \in 0 .. n /\ m - 1 \notin Bad /\ m \in 1 .. n
      BY <2>1, <3>0
    <3>2. PICK g \in [0 .. m - 1 -> S] :
            g[0] = x /\ \A k \in 1 .. m - 1 : g[k] = step[<<k, g[k - 1]>>]
      BY <3>1
    <3>. DEFINE y == step[<<m, g[m - 1]>>]
                f == [k \in 0 .. m |-> IF k = m THEN y ELSE g[k]]
    <3>3. m - 1 \in 0 .. m - 1 /\ g[m - 1] \in S
      BY <3>1, <3>2
    <3>4. y \in S
      BY <3>1, <3>3
    <3>. HIDE DEF y
    <3>5. ASSUME NEW k \in 0 .. m, k # m PROVE g[k] \in S /\ k \in 0 .. m - 1
      BY <3>1, <3>2, <3>5
    <3>6. f \in [0 .. m -> S]
      BY <3>4, <3>5
    <3>7. f[0] = x
      BY <2>4, <3>1, <3>2
    <3>8. ASSUME NEW k \in 1 .. m PROVE f[k] = step[<<k, f[k - 1]>>]
      <4>1. k - 1 \in 0 .. m /\ k - 1 # m /\ k \in 0 .. m
        BY <3>1
      <4>2. f[k - 1] = g[k - 1]
        BY <4>1
      <4>3. CASE k = m
        BY <4>1, <4>2, <4>3 DEF y
      <4>4. CASE k # m
        <5>1. k \in 1 .. m - 1 /\ f[k] = g[k]
          BY <3>1, <4>1, <4>4
        <5>. QED BY <3>2, <4>2, <5>1
      <4>. QED BY <4>3, <4>4
    <3>. HIDE DEF f
    <3>. QED BY <2>2, <3>6, <3>7, <3>8
  <2>. QED BY <2>3, <2>4
<1>2. n \in 0 .. n
  OBVIOUS
<1>3. Good(n)
  BY <1>1, <1>2
<1>. QED BY <1>3 DEF Stepwise

\* Where things end that lie one behind the other
Sized(sizes, e) ==
  /\ e \in [0 .. Len(sizes) -> Nat] /\ e[0] = 0
  /\ \A k \in 1 .. Len(sizes) : e[k] = e[k - 1] + sizes[k]

LEMMA EndsFacts ==
  ASSUME NEW sizes \in Seq(Nat)
  PROVE  Sized(sizes, EndsOf(sizes))
<1>. DEFINE n == Len(sizes)
            step == [a \in (1 .. n) \X Nat |-> a[2] + sizes[a[1]]]
            Is(e) == e = [k \in 0 .. n |-> IF k = 0 THEN 0 ELSE e[k - 1] + sizes[k]]
<1>1. n \in Nat /\ \A k \in 1 .. n : sizes[k] \in Nat
  OBVIOUS
<1>2. step \in [(1 .. n) \X Nat -> Nat] /\ 0 \in Nat
  BY <1>1
<1>3. ASSUME NEW k \in 1 .. n, NEW v \in Nat PROVE step[<<k, v>>] = v + sizes[k]
  <2>1. <<k, v>> \in (1 .. n) \X Nat
    OBVIOUS
  <2>. QED BY <2>1
<1>. HIDE DEF step, n
<1>4a. PICK f : Stepwise(Nat, 0, n, step, f)
  BY <1>1, <1>2, StepsExist
<1>4. f \in [0 .. n -> Nat] /\ f[0] = 0 /\ \A k \in 1 .. n : f[k] = step[<<k, f[k - 1]>>]
  BY <1>4a DEF Stepwise
<1>5. ASSUME NEW k \in 0 .. n PROVE f[k] = IF k = 0 THEN 0 ELSE f[k - 1] + sizes[k]
  <2>1. CASE k = 0
    BY <1>4, <2>1
  <2>2. CASE k # 0
    <3>1. k \in 1 .. n /\ k - 1 \in 0 .. n
      BY <1>1, <2>2
    <3>2. f[k - 1] \in Nat
      BY <1>4, <3>1
    <3>. QED BY <1>3, <1>4, <2>2, <3>1, <3>2
  <2>. QED BY <2>1, <2>2
<1>6. Is(f)
  <2>1. f = [k \in 0 .. n |-> f[k]]
    BY <1>4
  <2>. QED BY <1>5, <2>1
<1>. USE DEF n
<1>. DEFINE e == CHOOSE h : h = [k \in 0 .. n |-> IF k = 0 THEN 0 ELSE h[k - 1] + sizes[k]]
<1>7. Is(e)
  BY <1>6
<1>8. EndsOf(sizes) = e
  BY DEF EndsOf
<1>. HIDE DEF e, n
<1>9. ASSUME NEW k \in 0 .. n PROVE e[k] = IF k = 0 THEN 0 ELSE e[k - 1] + sizes[k]
  BY <1>7
<1>. DEFINE Bad == {k \in 0 .. n : e[k] \notin Nat}
<1>10. Bad = {}
  <2>1. SUFFICES ASSUME Bad # {} PROVE FALSE
    OBVIOUS
  <2>2. Bad \in SUBSET Nat
    BY <1>1
  <2>3. PICK k \in Bad : \A j \in Bad : k <= j
    BY <2>1, <2>2, LeastNat
  <2>4. k \in 0 .. n /\ e[k] \notin Nat
    OBVIOUS
  <2>5. k # 0
    BY <1>9, <2>4
  <2>6. k - 1 \in 0 .. n /\ k - 1 \notin Bad /\ k \in 1 .. n
    BY <1>1, <2>3, <2>4, <2>5
  <2>7. e[k - 1] \in Nat /\ sizes[k] \in Nat
    BY <1>1, <2>6
  <2>. QED BY <1>9, <2>4, <2>5, <2>7
<1>11. e \in [0 .. n -> Nat]
  <2>1. e = [k \in 0 .. n |-> e[k]]
    <3>. HIDE DEF Bad
    <3>. QED BY <1>7
  <2>2. \A k \in 0 .. n : e[k] \in Nat
    BY <1>10
  <2>. QED BY <2>1, <2>2
<1>12. e[0] = 0
  BY <1>1, <1>9
<1>13. ASSUME NEW k \in 1 .. n PROVE e[k] = e[k - 1] + sizes[k]
  <2>1. k \in 0 .. n /\ k # 0
    BY <1>1
  <2>. QED BY <1>9, <2>1
<1>. QED BY <1>8, <1>11, <1>12, <1>13 DEF Sized, n

\* Two sequences begin with the same m elements.
Alike(a, b, m) == m \in Nat /\ m <= Len(a) /\ m <= Len(b) /\ \A k \in 1 .. m : a[k] = b[k]

\* Where something ends depends on nothing that comes later.
LEMMA EndsAgree ==
  ASSUME NEW a \in Seq(Nat), NEW b \in Seq(Nat), NEW m, Alike(a, b, m),
         NEW e, Sized(a, e), NEW f, Sized(b, f)
  PROVE  \A k \in 0 .. m : e[k] = f[k]
<1>0. m \in Nat /\ m <= Len(a) /\ m <= Len(b) /\ \A k \in 1 .. m : a[k] = b[k]
  BY DEF Alike
<1>. DEFINE Bad == {k \in 0 .. m : e[k] # f[k]}
<1>1. ASSUME Bad # {}
      PROVE  FALSE
  <2>0. Bad \in SUBSET Nat
    BY <1>0
  <2>1. PICK k \in Bad : \A j \in Bad : k <= j
    BY <1>1, <2>0, LeastNat
  <2>2. k \in 0 .. m /\ e[k] # f[k]
    OBVIOUS
  <2>3. k # 0
    BY <1>0, <2>2 DEF Sized
  <2>4. k - 1 \in 0 .. m /\ k - 1 \notin Bad /\ k \in 1 .. m
    BY <1>0, <2>1, <2>2, <2>3
  <2>5. k \in 1 .. Len(a) /\ k \in 1 .. Len(b) /\ e[k - 1] = f[k - 1] /\ a[k] = b[k]
    BY <1>0, <2>4
  <2>6. e[k] = e[k - 1] + a[k] /\ f[k] = f[k - 1] + b[k]
    BY <2>5 DEF Sized
  <2>. QED BY <2>2, <2>5, <2>6
<1>. QED BY <1>1

\* The first n sequences of s, put end to end
Together(T, s, u) ==
  /\ u \in [0 .. Len(s) -> Seq(T)] /\ u[0] = <<>>
  /\ \A k \in 1 .. Len(s) : u[k] = u[k - 1] \o s[k]

LEMMA TogetherFacts ==
  ASSUME NEW T, NEW s \in Seq(Seq(T))
  PROVE  \E u : Together(T, s, u) /\ FlattenSeq(s) = u[Len(s)]
<1>. DEFINE n == Len(s)
            step == [a \in (1 .. n) \X Seq(T) |-> a[2] \o s[a[1]]]
            Is(h) == h = [i \in 1 .. n |-> IF i = 1 THEN s[i] ELSE h[i - 1] \o s[i]]
            g == CHOOSE h : h = [i \in 1 .. n |-> IF i = 1 THEN s[i] ELSE h[i - 1] \o s[i]]
<1>1. n \in Nat /\ \A k \in 1 .. n : s[k] \in Seq(T)
  OBVIOUS
<1>2. FlattenSeq(s) = IF n = 0 THEN s ELSE g[n]
  BY Zenon DEF FlattenSeq
<1>3. ASSUME NEW k \in 1 .. n, NEW v \in Seq(T)
      PROVE  step[<<k, v>>] = v \o s[k] /\ v \o s[k] \in Seq(T)
  <2>1. <<k, v>> \in (1 .. n) \X Seq(T)
    OBVIOUS
  <2>. QED BY <1>1, <2>1, ConcatProperties
<1>4. step \in [(1 .. n) \X Seq(T) -> Seq(T)]
  <2>1. ASSUME NEW a \in (1 .. n) \X Seq(T) PROVE a[2] \o s[a[1]] \in Seq(T)
    BY <1>1, ConcatProperties
  <2>. QED BY <2>1
<1>5. <<>> \in Seq(T)
  OBVIOUS
<1>. HIDE DEF step, n, g
<1>6. PICK f : Stepwise(Seq(T), <<>>, n, step, f)
  BY <1>1, <1>4, <1>5, StepsExist
<1>7. f \in [0 .. n -> Seq(T)] /\ f[0] = <<>> /\ \A k \in 1 .. n : f[k] = f[k - 1] \o s[k]
  <2>1. f \in [0 .. n -> Seq(T)] /\ f[0] = <<>> /\ \A k \in 1 .. n : f[k] = step[<<k, f[k - 1]>>]
    BY <1>6 DEF Stepwise
  <2>2. ASSUME NEW k \in 1 .. n PROVE f[k - 1] \in Seq(T)
    BY <1>1, <2>1
  <2>. QED BY <1>3, <2>1, <2>2
<1>. DEFINE h == [i \in 1 .. n |-> f[i]]
<1>8. ASSUME NEW i \in 1 .. n
      PROVE  h[i] = IF i = 1 THEN s[i] ELSE h[i - 1] \o s[i]
  <2>1. CASE i = 1
    <3>0. f[i] = f[i - 1] \o s[i]
      BY <1>7
    <3>1. i - 1 = 0
      BY <2>1
    <3>1a. f[1] = <<>> \o s[1]
      BY <1>7, <2>1, <3>0, <3>1
    <3>2. <<>> \o s[1] = s[1]
      BY <1>1, <2>1, ConcatEmptySeq
    <3>. QED BY <2>1, <3>1a, <3>2
  <2>2. CASE i # 1
    <3>1. i - 1 \in 1 .. n
      BY <1>1, <2>2
    <3>. QED BY <1>7, <2>2, <3>1
  <2>. QED BY <2>1, <2>2
<1>9. Is(h)
  <2>. HIDE DEF h
  <2>1. h = [i \in 1 .. n |-> h[i]]
    BY DEF h
  <2>. QED BY <1>8, <2>1
<1>10. Is(g)
  BY <1>9 DEF g
<1>11. ASSUME NEW i \in 1 .. n
       PROVE  g[i] = IF i = 1 THEN s[i] ELSE g[i - 1] \o s[i]
  BY <1>10
<1>. HIDE DEF h
<1>. DEFINE Bad == {i \in 1 .. n : g[i] \notin Seq(T)}
<1>12. Bad = {}
  <2>1. SUFFICES ASSUME Bad # {} PROVE FALSE
    OBVIOUS
  <2>2. Bad \in SUBSET Nat
    BY <1>1
  <2>3. PICK i \in Bad : \A j \in Bad : i <= j
    BY <2>1, <2>2, LeastNat
  <2>4. i \in 1 .. n /\ g[i] \notin Seq(T) /\ s[i] \in Seq(T)
    BY <1>1, <2>3
  <2>5. i # 1
    BY <1>11, <2>4
  <2>6. i - 1 \in 1 .. n /\ i - 1 < i
    BY <1>1, <2>4, <2>5
  <2>7. g[i - 1] \in Seq(T)
    BY <2>3, <2>6
  <2>8. g[i - 1] \o s[i] \in Seq(T)
    BY <2>4, <2>7, ConcatProperties
  <2>. QED BY <1>11, <2>4, <2>5, <2>8
<1>13. \A i \in 1 .. n : g[i] \in Seq(T)
  BY <1>12
<1>. HIDE DEF Bad
<1>. DEFINE u == [k \in 0 .. n |-> IF k = 0 THEN <<>> ELSE g[k]]
<1>14. u \in [0 .. n -> Seq(T)]
  BY <1>1, <1>5, <1>13
<1>15. u[0] = <<>>
  BY <1>1
<1>16. ASSUME NEW k \in 1 .. n PROVE u[k] = u[k - 1] \o s[k]
  <2>1. k \in 0 .. n /\ k - 1 \in 0 .. n /\ k # 0 /\ u[k] = g[k]
    BY <1>1
  <2>2. CASE k = 1
    <3>1. u[k - 1] = <<>> /\ g[k] = s[k]
      BY <1>11, <1>15, <2>2
    <3>2. <<>> \o s[k] = s[k]
      BY <1>1, ConcatEmptySeq
    <3>. QED BY <2>1, <3>1, <3>2
  <2>3. CASE k # 1
    <3>1. k - 1 # 0 /\ u[k - 1] = g[k - 1]
      BY <1>1, <2>1, <2>3
    <3>. QED BY <1>11, <2>1, <2>3, <3>1
  <2>. QED BY <2>2, <2>3
<1>17. FlattenSeq(s) = u[n]
  <2>1. CASE n = 0
    <3>1. s = <<>>
      BY <2>1, EmptySeq DEF n
    <3>. QED BY <1>2, <1>15, <2>1, <3>1
  <2>2. CASE n # 0
    BY <1>1, <1>2, <2>2
  <2>. QED BY <2>1, <2>2
<1>. HIDE DEF u
<1>18. Together(T, s, u)
  BY <1>14, <1>15, <1>16 DEF Together, n
<1>. QED BY <1>17, <1>18 DEF n

\* What has been put together begins all that will be.
LEMMA TogetherBegins ==
  ASSUME NEW T, NEW s \in Seq(Seq(T)), NEW u, Together(T, s, u), NEW n \in 0 .. Len(s)
  PROVE  /\ u[n] \in Seq(T) /\ u[Len(s)] \in Seq(T) /\ Len(u[n]) <= Len(u[Len(s)])
         /\ \A k \in 1 .. Len(u[n]) : u[Len(s)][k] = u[n][k]
<1>. DEFINE Good(m) == Len(u[n]) <= Len(u[m]) /\ \A k \in 1 .. Len(u[n]) : u[m][k] = u[n][k]
            Bad == {m \in n .. Len(s) : ~Good(m)}
<1>0. /\ \A m \in 0 .. Len(s) : u[m] \in Seq(T) /\ Len(u[m]) \in Nat
      /\ \A m \in 1 .. Len(s) : u[m] = u[m - 1] \o s[m] /\ s[m] \in Seq(T)
      /\ Len(s) \in Nat
  <2>1. Len(s) \in Nat /\ \A m \in 1 .. Len(s) : s[m] \in Seq(T)
    OBVIOUS
  <2>2. ASSUME NEW m \in 0 .. Len(s) PROVE u[m] \in Seq(T) /\ Len(u[m]) \in Nat
    <3>1. u[m] \in Seq(T)
      BY DEF Together
    <3>. QED BY <3>1, LenProperties
  <2>3. \A m \in 1 .. Len(s) : u[m] = u[m - 1] \o s[m]
    BY DEF Together
  <2>. QED BY <2>1, <2>2, <2>3
<1>1. ASSUME Bad # {}
      PROVE  FALSE
  <2>0. Bad \in SUBSET Nat
    BY <1>0
  <2>1. PICK m \in Bad : \A j \in Bad : m <= j
    BY <1>1, <2>0, LeastNat
  <2>2. m \in n .. Len(s) /\ ~Good(m) /\ m \in Nat
    BY <1>0, <2>1
  <2>3. m # n
    BY <1>0, <2>2
  <2>4. m - 1 \in n .. Len(s) /\ m - 1 < m /\ m - 1 \in 0 .. Len(s) /\ m \in 1 .. Len(s)
    BY <1>0, <2>2, <2>3
  <2>4a. m - 1 \notin Bad
    BY <2>1, <2>4
  <2>5. Good(m - 1)
    BY <2>4, <2>4a
  <2>. DEFINE a == u[m - 1]
              b == s[m]
  <2>6. a \in Seq(T) /\ b \in Seq(T) /\ u[m] = a \o b /\ Len(u[n]) \in Nat
        /\ Len(u[n]) <= Len(a) /\ \A k \in 1 .. Len(u[n]) : a[k] = u[n][k]
    BY <1>0, <2>4, <2>5
  <2>. HIDE DEF a, b
  <2>7. Len(a \o b) = Len(a) + Len(b) /\ Len(a) \in Nat /\ Len(b) \in Nat
        /\ \A k \in 1 .. Len(a) : (a \o b)[k] = a[k]
    BY <2>6, ConcatProperties
  <2>8. Len(u[n]) <= Len(u[m])
    BY <2>6, <2>7
  <2>9. ASSUME NEW k \in 1 .. Len(u[n]) PROVE u[m][k] = u[n][k]
    <3>1. k \in 1 .. Len(a)
      BY <2>6, <2>7
    <3>. QED BY <2>6, <2>7, <3>1
  <2>. QED BY <2>2, <2>8, <2>9
<1>2. Len(s) \in n .. Len(s)
  BY <1>0
<1>3. Good(Len(s))
  BY <1>1, <1>2
<1>. QED BY <1>0, <1>3

\* Where the one behind the first n is
Follows(s, u, n) ==
  /\ u[n + 1] = u[n] \o s[n + 1]
  /\ Len(u[n]) \in Nat /\ Len(u[n + 1]) = Len(u[n]) + Len(s[n + 1])
  /\ Len(u[n + 1]) <= Len(u[Len(s)])
  /\ \A k \in 1 .. Len(s[n + 1]) : u[Len(s)][Len(u[n]) + k] = s[n + 1][k]

LEMMA TogetherNext ==
  ASSUME NEW T, NEW s \in Seq(Seq(T)), NEW u, Together(T, s, u), NEW n \in 0 .. Len(s), n # Len(s)
  PROVE  Follows(s, u, n)
<1>1. n + 1 \in 1 .. Len(s) /\ n + 1 \in 0 .. Len(s) /\ (n + 1) - 1 = n /\ s[n + 1] \in Seq(T)
  OBVIOUS
<1>2. u[n] \in Seq(T) /\ u[n + 1] = u[n] \o s[n + 1]
  BY <1>1 DEF Together
<1>. DEFINE a == u[n]
            b == s[n + 1]
<1>3. a \in Seq(T) /\ b \in Seq(T)
  BY <1>1, <1>2
<1>. HIDE DEF a, b
<1>4. /\ Len(a) \in Nat /\ Len(b) \in Nat /\ Len(a \o b) = Len(a) + Len(b)
      /\ \A k \in 1 .. Len(b) : (a \o b)[Len(a) + k] = b[k]
  BY <1>3
<1>5. /\ Len(u[n + 1]) <= Len(u[Len(s)])
      /\ \A k \in 1 .. Len(u[n + 1]) : u[Len(s)][k] = u[n + 1][k]
  BY <1>1, TogetherBegins
<1>6. ASSUME NEW k \in 1 .. Len(b)
      PROVE  u[Len(s)][Len(a) + k] = b[k]
  <2>1. Len(a) + k \in 1 .. Len(a \o b)
    BY <1>4
  <2>. QED BY <1>2, <1>4, <1>5, <2>1 DEF a, b
<1>. QED BY <1>2, <1>4, <1>5, <1>6 DEF a, b, Follows

-----------------------------------------------------------------------------
(* The blocks and the chunks.                                              *)

Types == {"char", "wchar", "astr", "wstr", "int16", "int32", "int64", "double", "pvoid"}
Block == [kind : {"bytes", "astr", "wstr"}, size : Nat]
Sizes(bs) == [n \in DOMAIN bs |-> bs[n].size]
ArgSizes(types) == [n \in DOMAIN types |-> SizeOfArg(types[n])]

LEMMA SizesFacts ==
  ASSUME NEW bs \in Seq(Block)
  PROVE  /\ Sizes(bs) \in Seq(Nat) /\ Len(Sizes(bs)) = Len(bs)
         /\ \A n \in 1 .. Len(bs) : Sizes(bs)[n] = bs[n].size /\ bs[n] \in Block
<1>1. Len(bs) \in Nat /\ DOMAIN bs = 1 .. Len(bs) /\ \A n \in 1 .. Len(bs) : bs[n] \in Block
  OBVIOUS
<1>2. Sizes(bs) = [n \in 1 .. Len(bs) |-> bs[n].size]
  BY <1>1 DEF Sizes
<1>3. \A n \in 1 .. Len(bs) : bs[n].size \in Nat
  BY <1>1 DEF Block
<1>. QED BY <1>1, <1>2, <1>3

LEMMA ArgSizesFacts ==
  ASSUME NEW types \in Seq(Types)
  PROVE  /\ ArgSizes(types) \in Seq(Nat) /\ Len(ArgSizes(types)) = Len(types)
         /\ \A n \in 1 .. Len(types) : ArgSizes(types)[n] = SizeOfArg(types[n]) /\ types[n] \in Types
<1>1. Len(types) \in Nat /\ DOMAIN types = 1 .. Len(types) /\ \A n \in 1 .. Len(types) : types[n] \in Types
  OBVIOUS
<1>2. ArgSizes(types) = [n \in 1 .. Len(types) |-> SizeOfArg(types[n])]
  BY <1>1 DEF ArgSizes
<1>3. \A n \in 1 .. Len(types) : SizeOfArg(types[n]) \in Nat
  BY FormatAssumption DEF SizeOfArg, FormatAssumption
<1>. QED BY <1>1, <1>2, <1>3

\* An argument on the stack, from one place to another, in a block
Holds(b, from, to, t, start, end) ==
  /\ b.kind = IF IsString(t) THEN t ELSE "bytes"
  /\ from <= start /\ end <= to
  /\ IsString(t) => from = start /\ b.size = PointerSize

\* The blocks bs hold the first n arguments.
Cover(types, n, bs) ==
  LET e == EndsOf(Sizes(bs))
      a == EndsOf(ArgSizes(types))
  IN /\ bs \in Seq(Block) /\ e[Len(bs)] = a[n]
     /\ \A i \in 1 .. n : \E b \in 1 .. Len(bs) : Holds(bs[b], e[b - 1], e[b], types[i], a[i - 1], a[i])

\* One argument more.
LEMMA JoinedCovers ==
  ASSUME NEW types \in Seq(Types), NEW n \in 0 .. Len(types), n # Len(types),
         NEW bs, Cover(types, n, bs)
  PROVE  Cover(types, n + 1, Joined(bs, types[n + 1]))
<1>. DEFINE t == types[n + 1]
            z == SizeOfArg(t)
            k == Len(bs)
            cs == Joined(bs, t)
<1>1. PICK e, a, d : e = EndsOf(Sizes(bs)) /\ a = EndsOf(ArgSizes(types)) /\ d = EndsOf(Sizes(cs))
  OBVIOUS
<1>2. /\ bs \in Seq(Block) /\ e[k] = a[n]
      /\ \A i \in 1 .. n : \E b \in 1 .. k : Holds(bs[b], e[b - 1], e[b], types[i], a[i - 1], a[i])
  BY <1>1 DEF Cover
<1>3. t \in Types /\ z \in Nat /\ k \in Nat /\ n \in Nat /\ n + 1 \in 1 .. Len(types)
      /\ (IsString(t) => z = PointerSize)
  <2>1. n + 1 \in 1 .. Len(types)
    OBVIOUS
  <2>2. t \in Types
    BY <2>1
  <2>3. z \in Nat /\ (IsString(t) => z = PointerSize)
    BY FormatAssumption DEF SizeOfArg, FormatAssumption, IsString
  <2>. QED BY <1>2, <2>1, <2>2, <2>3
<1>4. /\ a \in [0 .. Len(types) -> Nat]
      /\ a[n + 1] = a[n] + z
  <2>1. Sized(ArgSizes(types), a) /\ Len(ArgSizes(types)) = Len(types)
        /\ ArgSizes(types)[n + 1] = z
    BY <1>1, <1>3, ArgSizesFacts, EndsFacts
  <2>2. (n + 1) - 1 = n
    BY <1>3
  <2>. QED BY <1>3, <2>1, <2>2 DEF Sized
<1>5. Sized(Sizes(bs), e) /\ Len(Sizes(bs)) = k /\ Sizes(bs) \in Seq(Nat)
  BY <1>1, <1>2, SizesFacts, EndsFacts
<1>5a. k = Len(bs)
  OBVIOUS
<1>. HIDE DEF t, z, k
<1>6. SUFFICES /\ cs \in Seq(Block) /\ Len(cs) \in Nat /\ d[Len(cs)] = a[n + 1]
               /\ \A i \in 1 .. n + 1 :
                    \E b \in 1 .. Len(cs) : Holds(cs[b], d[b - 1], d[b], types[i], a[i - 1], a[i])
  BY <1>1 DEF Cover, t
<1>7. CASE ~IsString(t) /\ bs # <<>> /\ Last(bs).kind = "bytes"
  <2>1. k # 0 /\ k \in 1 .. k /\ bs[k].kind = "bytes" /\ bs[k] \in Block
    BY <1>2, <1>3, <1>5a, <1>7, EmptySeq DEF Last
  <2>2. cs = [bs EXCEPT ![k].size = @ + z]
    BY <1>7 DEF Joined, k, z
  <2>. HIDE DEF cs
  <2>3. /\ cs \in Seq(Block) /\ Len(cs) = k /\ cs[k].kind = "bytes" /\ cs[k].size = bs[k].size + z
        /\ \A b \in 1 .. k : b # k => cs[b] = bs[b]
    <3>. DEFINE r == [kind |-> "bytes", size |-> bs[k].size + z]
    <3>1. bs[k].size \in Nat /\ r \in Block
      BY <1>3, <2>1 DEF Block
    <3>2. bs[k] = [kind |-> "bytes", size |-> bs[k].size]
      BY <2>1 DEF Block
    <3>3. [bs[k] EXCEPT !.size = bs[k].size + z] = r
      BY <3>2
    <3>4. cs = [bs EXCEPT ![k] = r]
      BY <2>2, <3>3
    <3>5. r.kind = "bytes" /\ r.size = bs[k].size + z
      OBVIOUS
    <3>. HIDE DEF r
    <3>6. bs \in Seq(Block) /\ k = Len(bs) /\ k \in 1 .. Len(bs)
      BY <1>2, <2>1 DEF k
    <3>7. cs \in Seq(Block) /\ Len(cs) = k /\ cs[k] = r /\ \A b \in 1 .. k : b # k => cs[b] = bs[b]
      BY <3>1, <3>4, <3>6
    <3>. QED BY <3>5, <3>7
  <2>4. Sized(Sizes(cs), d) /\ Len(Sizes(cs)) = k /\ Sizes(cs) \in Seq(Nat)
    BY <1>1, <2>3, SizesFacts, EndsFacts
  <2>5. k - 1 \in Nat /\ \A b \in 1 .. k - 1 : Sizes(bs)[b] = Sizes(cs)[b]
    <3>1. ASSUME NEW b \in 1 .. k - 1 PROVE Sizes(bs)[b] = Sizes(cs)[b]
      <4>1. b \in 1 .. k /\ b # k
        BY <1>3
      <4>2. Sizes(bs)[b] = bs[b].size
        BY <1>2, <1>5a, <4>1, SizesFacts
      <4>3. Sizes(cs)[b] = cs[b].size
        BY <2>3, <4>1, SizesFacts
      <4>. QED BY <2>3, <4>1, <4>2, <4>3
    <3>. QED BY <1>3, <2>1, <3>1
  <2>6. \A b \in 0 .. k - 1 : e[b] = d[b]
    <3>1. Alike(Sizes(bs), Sizes(cs), k - 1)
      BY <1>3, <1>5, <2>4, <2>5 DEF Alike
    <3>. QED BY <1>5, <2>4, <3>1, EndsAgree
  <2>7. d[k] = e[k] + z /\ e[k] \in Nat
    <3>0. k - 1 \in 0 .. k - 1 /\ k - 1 \in 0 .. k /\ k \in 0 .. k
      BY <1>3, <2>1
    <3>1. k - 1 \in 0 .. k - 1 /\ e[k - 1] \in Nat /\ e[k] \in Nat
      BY <1>5, <3>0 DEF Sized
    <3>2. e[k] = e[k - 1] + Sizes(bs)[k] /\ d[k] = d[k - 1] + Sizes(cs)[k]
      BY <1>5, <2>1, <2>4 DEF Sized
    <3>3. Sizes(bs)[k] = bs[k].size /\ Sizes(cs)[k] = cs[k].size /\ bs[k].size \in Nat
      <4>1. Sizes(bs)[k] = bs[k].size
        BY <1>2, <1>5a, <2>1, SizesFacts
      <4>2. Sizes(cs)[k] = cs[k].size
        BY <2>1, <2>3, SizesFacts
      <4>3. bs[k].size \in Nat
        BY <2>1 DEF Block
      <4>. QED BY <4>1, <4>2, <4>3
    <3>4. d[k - 1] = e[k - 1]
      BY <2>6, <3>1
    <3>5. d[k] = e[k - 1] + (bs[k].size + z) /\ e[k] = e[k - 1] + bs[k].size
      BY <2>3, <3>2, <3>3, <3>4
    <3>. QED BY <1>3, <3>1, <3>3, <3>5
  <2>8. ASSUME NEW i \in 1 .. n
        PROVE  \E b \in 1 .. k : Holds(cs[b], d[b - 1], d[b], types[i], a[i - 1], a[i])
    <3>1. PICK b \in 1 .. k : Holds(bs[b], e[b - 1], e[b], types[i], a[i - 1], a[i])
      BY <1>2
    <3>2. CASE b = k
      <4>1. ~IsString(types[i])
        BY <2>1, <3>1, <3>2 DEF Holds, IsString
      <4>2. d[k - 1] = e[k - 1] /\ k - 1 \in 0 .. k
        BY <1>3, <2>1, <2>6
      <4>3. i \in 0 .. Len(types) /\ a[i] \in Nat
        BY <1>3, <1>4
      <4>4. e[k - 1] <= a[i - 1] /\ a[i] <= e[k]
        BY <3>1, <3>2 DEF Holds
      <4>5. a[i] <= d[k]
        BY <1>3, <2>7, <4>3, <4>4
      <4>6. Holds(cs[k], d[k - 1], d[k], types[i], a[i - 1], a[i])
        BY <2>3, <4>1, <4>2, <4>4, <4>5 DEF Holds
      <4>. QED BY <2>1, <4>6
    <3>3. CASE b # k
      <4>1. b - 1 \in 0 .. k - 1 /\ b \in 0 .. k - 1
        BY <1>3, <3>3
      <4>2. d[b - 1] = e[b - 1] /\ d[b] = e[b] /\ cs[b] = bs[b]
        BY <2>3, <2>6, <3>3, <4>1
      <4>. QED BY <3>1, <4>2
    <3>. QED BY <3>2, <3>3
  <2>9. Holds(cs[k], d[k - 1], d[k], t, a[n], a[n + 1])
    <3>1. d[k - 1] <= a[n] /\ a[n] \in Nat
      <4>0. k - 1 \in 0 .. k - 1 /\ k - 1 \in 0 .. k
        BY <1>3, <2>1
      <4>1. k - 1 \in 0 .. k - 1 /\ e[k - 1] \in Nat /\ Sizes(bs)[k] \in Nat
            /\ e[k] = e[k - 1] + Sizes(bs)[k]
        BY <1>5, <2>1, <4>0 DEF Sized
      <4>2. n \in 0 .. Len(types)
        OBVIOUS
      <4>. QED BY <1>2, <1>4, <2>6, <4>1, <4>2
    <3>2. a[n + 1] <= d[k]
      BY <1>2, <1>3, <1>4, <2>7, <3>1
    <3>. QED BY <1>7, <2>3, <3>1, <3>2 DEF Holds
  <2>10. ASSUME NEW i \in 1 .. n + 1
         PROVE  \E b \in 1 .. k : Holds(cs[b], d[b - 1], d[b], types[i], a[i - 1], a[i])
    <3>1. CASE i = n + 1
      <4>1. i - 1 = n /\ types[i] = t
        BY <1>3, <3>1 DEF t
      <4>. QED BY <2>1, <2>9, <3>1, <4>1
    <3>2. CASE i # n + 1
      <4>1. i \in 1 .. n
        BY <1>3, <3>2
      <4>. QED BY <2>8, <4>1
    <3>. QED BY <3>1, <3>2
  <2>11. d[k] = a[n + 1]
    BY <1>2, <1>4, <2>7
  <2>. QED BY <1>3, <2>3, <2>10, <2>11
<1>8. CASE ~(~IsString(t) /\ bs # <<>> /\ Last(bs).kind = "bytes")
  <2>. DEFINE r == [kind |-> IF IsString(t) THEN t ELSE "bytes", size |-> z]
  <2>1. cs = Append(bs, r)
    BY <1>8 DEF Joined, z
  <2>2. r \in Block /\ r.kind = (IF IsString(t) THEN t ELSE "bytes") /\ r.size = z
    <3>1. (IF IsString(t) THEN t ELSE "bytes") \in {"bytes", "astr", "wstr"}
      BY DEF IsString
    <3>. QED BY <1>3, <3>1 DEF Block
  <2>. HIDE DEF cs, r
  <2>3. /\ cs \in Seq(Block) /\ Len(cs) = k + 1 /\ cs[k + 1] = r
        /\ \A b \in 1 .. k : cs[b] = bs[b]
    BY <1>2, <1>5a, <2>1, <2>2, AppendProperties
  <2>4. Sized(Sizes(cs), d) /\ Len(Sizes(cs)) = k + 1 /\ Sizes(cs) \in Seq(Nat)
    BY <1>1, <2>3, SizesFacts, EndsFacts
  <2>5. ASSUME NEW b \in 1 .. k PROVE Sizes(bs)[b] = Sizes(cs)[b]
    <3>1. b \in 1 .. k + 1
      BY <1>3
    <3>2. Sizes(bs)[b] = bs[b].size
      BY <1>2, <1>5a, SizesFacts
    <3>3. Sizes(cs)[b] = cs[b].size
      BY <2>3, <3>1, SizesFacts
    <3>. QED BY <2>3, <3>2, <3>3
  <2>6. \A b \in 0 .. k : e[b] = d[b]
    <3>1. Alike(Sizes(bs), Sizes(cs), k)
      BY <1>3, <1>5, <2>4, <2>5 DEF Alike
    <3>. QED BY <1>5, <2>4, <3>1, EndsAgree
  <2>7. d[k + 1] = e[k] + z
    <3>1. k + 1 \in 1 .. k + 1 /\ (k + 1) - 1 = k /\ k \in 0 .. k
      BY <1>3
    <3>2. d[k + 1] = d[k] + Sizes(cs)[k + 1]
      BY <2>4, <3>1 DEF Sized
    <3>3. Sizes(cs)[k + 1] = z
      BY <2>2, <2>3, <3>1, SizesFacts
    <3>. QED BY <2>6, <3>1, <3>2, <3>3
  <2>8. ASSUME NEW i \in 1 .. n
        PROVE  \E b \in 1 .. k + 1 : Holds(cs[b], d[b - 1], d[b], types[i], a[i - 1], a[i])
    <3>1. PICK b \in 1 .. k : Holds(bs[b], e[b - 1], e[b], types[i], a[i - 1], a[i])
      BY <1>2
    <3>2. b - 1 \in 0 .. k /\ b \in 0 .. k /\ b \in 1 .. k + 1
      BY <1>3
    <3>3. d[b - 1] = e[b - 1] /\ d[b] = e[b] /\ cs[b] = bs[b]
      BY <2>3, <2>6, <3>2
    <3>. QED BY <3>1, <3>2, <3>3
  <2>9. Holds(cs[k + 1], d[k], d[k + 1], t, a[n], a[n + 1])
    <3>1. d[k] = a[n] /\ d[k + 1] = a[n + 1] /\ a[n] \in Nat /\ a[n + 1] \in Nat
      <4>1. k \in 0 .. k /\ n \in 0 .. Len(types) /\ n + 1 \in 0 .. Len(types)
        BY <1>3
      <4>. QED BY <1>2, <1>4, <2>6, <2>7, <4>1
    <3>. QED BY <1>3, <2>2, <2>3, <3>1 DEF Holds
  <2>10. ASSUME NEW i \in 1 .. n + 1
         PROVE  \E b \in 1 .. k + 1 : Holds(cs[b], d[b - 1], d[b], types[i], a[i - 1], a[i])
    <3>1. CASE i = n + 1
      <4>1. i - 1 = n /\ types[i] = t /\ k + 1 \in 1 .. k + 1 /\ (k + 1) - 1 = k
        BY <1>3, <3>1 DEF t
      <4>. QED BY <2>9, <3>1, <4>1
    <3>2. CASE i # n + 1
      <4>1. i \in 1 .. n
        BY <1>3, <3>2
      <4>. QED BY <2>8, <4>1
    <3>. QED BY <3>1, <3>2
  <2>11. d[k + 1] = a[n + 1]
    BY <1>2, <1>4, <2>7
  <2>12. Len(cs) \in Nat
    BY <1>3, <2>3
  <2>. QED BY <2>3, <2>10, <2>11, <2>12
<1>. QED BY <1>7, <1>8

\* A list of blocks stays one.
LEMMA JoinedIsBlocks ==
  ASSUME NEW bs \in Seq(Block), NEW t \in Types
  PROVE  Joined(bs, t) \in Seq(Block)
<1>1. SizeOfArg(t) \in Nat
  BY FormatAssumption DEF SizeOfArg, FormatAssumption
<1>2. CASE ~IsString(t) /\ bs # <<>> /\ Last(bs).kind = "bytes"
  <2>. DEFINE k == Len(bs)
              r == [bs[k] EXCEPT !.size = @ + SizeOfArg(t)]
  <2>1. k \in 1 .. Len(bs) /\ bs[k] \in Block
    BY <1>2, EmptySeq
  <2>2. r \in Block
    BY <1>1, <2>1 DEF Block
  <2>3. Joined(bs, t) = [bs EXCEPT ![k] = r]
    BY <1>2 DEF Joined
  <2>. HIDE DEF k, r
  <2>. QED BY <2>1, <2>2, <2>3
<1>3. CASE ~(~IsString(t) /\ bs # <<>> /\ Last(bs).kind = "bytes")
  <2>. DEFINE r == [kind |-> IF IsString(t) THEN t ELSE "bytes", size |-> SizeOfArg(t)]
  <2>1. (IF IsString(t) THEN t ELSE "bytes") \in {"bytes", "astr", "wstr"}
    BY DEF IsString
  <2>2. r \in Block
    BY <1>1, <2>1 DEF Block
  <2>3. Joined(bs, t) = Append(bs, r)
    BY <1>3 DEF Joined
  <2>. HIDE DEF r
  <2>. QED BY <2>2, <2>3, AppendProperties
<1>. QED BY <1>2, <1>3

\* The blocks after each of the arguments
LEMMA GroupedFacts ==
  ASSUME NEW types \in Seq(Types)
  PROVE  \E g : /\ g \in [0 .. Len(types) -> Seq(Block)] /\ g[0] = <<>>
                /\ \A k \in 1 .. Len(types) : g[k] = Joined(g[k - 1], types[k])
                /\ Grouped(types) = g[Len(types)]
<1>. DEFINE n == Len(types)
            step == [a \in (1 .. n) \X Seq(Block) |-> Joined(a[2], types[a[1]])]
            Is(h) == h = [k \in 0 .. n |-> IF k = 0 THEN <<>> ELSE Joined(h[k - 1], types[k])]
            g == CHOOSE h : h = [k \in 0 .. n |-> IF k = 0 THEN <<>> ELSE Joined(h[k - 1], types[k])]
<1>1. n \in Nat /\ \A k \in 1 .. n : types[k] \in Types
  OBVIOUS
<1>2. Grouped(types) = g[n]
  BY Zenon DEF Grouped
<1>3. ASSUME NEW k \in 1 .. n, NEW v \in Seq(Block)
      PROVE  step[<<k, v>>] = Joined(v, types[k]) /\ Joined(v, types[k]) \in Seq(Block)
  <2>1. <<k, v>> \in (1 .. n) \X Seq(Block)
    OBVIOUS
  <2>. QED BY <1>1, <2>1, JoinedIsBlocks
<1>4. step \in [(1 .. n) \X Seq(Block) -> Seq(Block)]
  <2>1. ASSUME NEW a \in (1 .. n) \X Seq(Block) PROVE Joined(a[2], types[a[1]]) \in Seq(Block)
    BY <1>1, JoinedIsBlocks
  <2>. QED BY <2>1
<1>5. <<>> \in Seq(Block)
  OBVIOUS
<1>. HIDE DEF step, n, g
<1>6. PICK f : Stepwise(Seq(Block), <<>>, n, step, f)
  BY <1>1, <1>4, <1>5, StepsExist
<1>7. f \in [0 .. n -> Seq(Block)] /\ f[0] = <<>> /\ \A k \in 1 .. n : f[k] = Joined(f[k - 1], types[k])
  <2>1. f \in [0 .. n -> Seq(Block)] /\ f[0] = <<>> /\ \A k \in 1 .. n : f[k] = step[<<k, f[k - 1]>>]
    BY <1>6 DEF Stepwise
  <2>2. ASSUME NEW k \in 1 .. n PROVE f[k - 1] \in Seq(Block)
    BY <1>1, <2>1
  <2>. QED BY <1>3, <2>1, <2>2
<1>8. ASSUME NEW k \in 0 .. n
      PROVE  f[k] = IF k = 0 THEN <<>> ELSE Joined(f[k - 1], types[k])
  <2>1. k = 0 \/ k \in 1 .. n
    BY <1>1
  <2>. QED BY <1>7, <2>1
<1>9. Is(f)
  <2>1. f = [k \in 0 .. n |-> f[k]]
    BY <1>7
  <2>. QED BY <1>8, <2>1
<1>10. Is(g)
  BY <1>9 DEF g
<1>11. ASSUME NEW k \in 0 .. n
       PROVE  g[k] = IF k = 0 THEN <<>> ELSE Joined(g[k - 1], types[k])
  BY <1>10
<1>. DEFINE Bad == {k \in 0 .. n : g[k] \notin Seq(Block)}
<1>12. Bad = {}
  <2>1. SUFFICES ASSUME Bad # {} PROVE FALSE
    OBVIOUS
  <2>2. Bad \in SUBSET Nat
    BY <1>1
  <2>3. PICK k \in Bad : \A j \in Bad : k <= j
    BY <2>1, <2>2, LeastNat
  <2>4. k \in 0 .. n /\ g[k] \notin Seq(Block)
    BY <2>3
  <2>5. k # 0
    BY <1>5, <1>11, <2>4
  <2>6. k - 1 \in 0 .. n /\ k - 1 < k /\ k \in 1 .. n
    BY <1>1, <2>4, <2>5
  <2>7. g[k - 1] \in Seq(Block)
    BY <2>3, <2>6
  <2>8. Joined(g[k - 1], types[k]) \in Seq(Block)
    BY <1>1, <2>6, <2>7, JoinedIsBlocks
  <2>. QED BY <1>11, <2>4, <2>5, <2>8
<1>13. g \in [0 .. n -> Seq(Block)]
  <2>1. \A k \in 0 .. n : g[k] \in Seq(Block)
    BY <1>12
  <2>. HIDE DEF Bad
  <2>2. g = [k \in 0 .. n |-> g[k]]
    BY <1>10
  <2>. QED BY <2>1, <2>2
<1>14. g[0] = <<>> /\ \A k \in 1 .. n : g[k] = Joined(g[k - 1], types[k])
  <2>1. 0 \in 0 .. n /\ \A k \in 1 .. n : k \in 0 .. n /\ k # 0
    BY <1>1
  <2>. QED BY <1>11, <2>1
<1>. QED BY <1>2, <1>13, <1>14 DEF n

\* The blocks hold all the arguments.
LEMMA GroupedCovers ==
  ASSUME NEW types \in Seq(Types)
  PROVE  Cover(types, Len(types), Grouped(types))
<1>1. PICK g : /\ g \in [0 .. Len(types) -> Seq(Block)] /\ g[0] = <<>>
               /\ \A k \in 1 .. Len(types) : g[k] = Joined(g[k - 1], types[k])
               /\ Grouped(types) = g[Len(types)]
  BY GroupedFacts
<1>2. Len(types) \in Nat
  OBVIOUS
<1>. DEFINE Bad == {k \in 0 .. Len(types) : ~Cover(types, k, g[k])}
<1>3. ASSUME Bad # {}
      PROVE  FALSE
  <2>0. Bad \in SUBSET Nat
    OBVIOUS
  <2>1. PICK k \in Bad : \A j \in Bad : k <= j
    BY <1>3, <2>0, LeastNat
  <2>2. k \in 0 .. Len(types) /\ ~Cover(types, k, g[k])
    BY <2>1
  <2>3. CASE k = 0
    <3>1. <<>> \in Seq(Block) /\ Len(<<>>) = 0
      OBVIOUS
    <3>2. Sizes(<<>>) \in Seq(Nat) /\ ArgSizes(types) \in Seq(Nat)
      BY <3>1, SizesFacts, ArgSizesFacts
    <3>3. EndsOf(Sizes(<<>>))[0] = 0 /\ EndsOf(ArgSizes(types))[0] = 0
      BY <3>2, EndsFacts DEF Sized
    <3>4. Cover(types, 0, <<>>)
      BY <3>1, <3>3 DEF Cover
    <3>. QED BY <1>1, <2>2, <2>3, <3>4
  <2>4. CASE k # 0
    <3>1. k - 1 \in 0 .. Len(types) /\ k - 1 < k /\ k \in 1 .. Len(types) /\ (k - 1) + 1 = k
          /\ k - 1 # Len(types)
      BY <1>2, <2>2, <2>4
    <3>2. k - 1 \notin Bad
      BY <2>1, <3>1
    <3>3. Cover(types, k - 1, g[k - 1])
      BY <3>1, <3>2
    <3>. HIDE DEF Bad
    <3>4. Cover(types, (k - 1) + 1, Joined(g[k - 1], types[(k - 1) + 1]))
      BY <3>1, <3>3, JoinedCovers
    <3>5. g[k] = Joined(g[k - 1], types[k])
      BY <1>1, <3>1
    <3>. QED BY <2>2, <3>1, <3>4, <3>5
  <2>. QED BY <2>3, <2>4
<1>4. Len(types) \in 0 .. Len(types) /\ Len(types) \notin Bad
  BY <1>2, <1>3
<1>5. Cover(types, Len(types), g[Len(types)])
  BY <1>4
<1>. QED BY <1>1, <1>5

\* What the server is to find in the chunks, of the arguments of a trace
Arrived(types, cs) ==
  /\ EndsOf(Sizes(cs))[Len(cs)] = EndsOf(ArgSizes(types))[Len(types)]
  /\ \A i \in DOMAIN types : \E c \in ToSet(cs) :
       /\ c.kind = IF IsString(types[i]) THEN types[i] ELSE "bytes"
       /\ c.offset <= EndsOf(ArgSizes(types))[i - 1]
       /\ EndsOf(ArgSizes(types))[i] <= c.offset + c.size
       /\ IsString(types[i]) => c.offset = EndsOf(ArgSizes(types))[i - 1] /\ c.size = PointerSize

\* The chunks lie as the blocks do.
LEMMA ChunksArrive ==
  ASSUME NEW types \in Seq(Types)
  PROVE  /\ Len(Grouped(types)) \in Nat /\ Len(Chunked(Grouped(types))) = Len(Grouped(types))
         /\ Arrived(types, Chunked(Grouped(types)))
<1>. DEFINE bs == Grouped(types)
            cs == Chunked(bs)
            k == Len(bs)
<1>1. PICK e, a : e = EndsOf(Sizes(bs)) /\ a = EndsOf(ArgSizes(types))
  OBVIOUS
<1>2. /\ bs \in Seq(Block) /\ e[k] = a[Len(types)]
      /\ \A i \in 1 .. Len(types) : \E b \in 1 .. k : Holds(bs[b], e[b - 1], e[b], types[i], a[i - 1], a[i])
  BY <1>1, GroupedCovers DEF Cover
<1>3. k \in Nat /\ DOMAIN bs = 1 .. k /\ DOMAIN types = 1 .. Len(types)
  BY <1>2
<1>4. Sized(Sizes(bs), e) /\ Len(Sizes(bs)) = k
      /\ \A b \in 1 .. k : Sizes(bs)[b] = bs[b].size /\ bs[b].size \in Nat
  <2>1. Sized(Sizes(bs), e) /\ Len(Sizes(bs)) = k
        /\ \A b \in 1 .. k : Sizes(bs)[b] = bs[b].size /\ bs[b] \in Block
    BY <1>1, <1>2, SizesFacts, EndsFacts
  <2>. QED BY <2>1 DEF Block
<1>5. cs = [n \in 1 .. k |-> [kind |-> bs[n].kind, size |-> bs[n].size, offset |-> e[n - 1]]]
  BY <1>1, <1>3 DEF Chunked, Sizes
<1>. HIDE DEF bs, cs, k
<1>6. DOMAIN cs = 1 .. k /\ Len(cs) = k
      /\ \A b \in 1 .. k : cs[b].kind = bs[b].kind /\ cs[b].size = bs[b].size /\ cs[b].offset = e[b - 1]
  BY <1>3, <1>5
<1>7. Sizes(cs) = Sizes(bs)
  <2>1. Sizes(cs) = [n \in 1 .. k |-> cs[n].size]
    BY <1>6 DEF Sizes
  <2>2. Sizes(bs) = [n \in 1 .. k |-> bs[n].size]
    BY <1>3 DEF Sizes
  <2>. QED BY <1>6, <2>1, <2>2
<1>8. ASSUME NEW i \in DOMAIN types
      PROVE  \E c \in ToSet(cs) :
               /\ c.kind = IF IsString(types[i]) THEN types[i] ELSE "bytes"
               /\ c.offset <= a[i - 1] /\ a[i] <= c.offset + c.size
               /\ IsString(types[i]) => c.offset = a[i - 1] /\ c.size = PointerSize
  <2>1. PICK b \in 1 .. k : Holds(bs[b], e[b - 1], e[b], types[i], a[i - 1], a[i])
    BY <1>2, <1>3
  <2>2. e[b] = e[b - 1] + bs[b].size
    BY <1>4, <2>1 DEF Sized
  <2>3. cs[b] \in ToSet(cs)
    BY <1>6 DEF ToSet
  <2>4. /\ cs[b].kind = IF IsString(types[i]) THEN types[i] ELSE "bytes"
        /\ cs[b].offset <= a[i - 1] /\ a[i] <= cs[b].offset + cs[b].size
        /\ IsString(types[i]) => cs[b].offset = a[i - 1] /\ cs[b].size = PointerSize
    BY <1>6, <2>1, <2>2 DEF Holds
  <2>. QED BY <2>3, <2>4
<1>9. EndsOf(Sizes(cs))[Len(cs)] = EndsOf(ArgSizes(types))[Len(types)]
  BY <1>1, <1>2, <1>6, <1>7
<1>10. Arrived(types, cs)
  BY <1>1, <1>8, <1>9 DEF Arrived
<1>. QED BY <1>3, <1>6, <1>10 DEF bs, cs, k

-----------------------------------------------------------------------------
(* The pieces of a format.                                                 *)

Letters == {"I", "6", "4", "3", "2", "l", "h", "w"}

\* The characters, with those of the prefixes named (the provers take no literal for
\* a string)
Symbols == STRING \cup Letters

Modifiers == ToSet(Specifiers) \cup {<<>>}

LEMMA SpecifiersFacts ==
  /\ DOMAIN Specifiers = 1 .. 7
  /\ Specifiers[1] = <<"I", "6", "4">> /\ Specifiers[2] = <<"I", "3", "2">>
  /\ Specifiers[3] = <<"l", "l">> /\ Specifiers[4] = <<"l">> /\ Specifiers[5] = <<"h">>
  /\ Specifiers[6] = <<"I">> /\ Specifiers[7] = <<"w">>
BY DEF Specifiers

LEMMA ModifiersAreSymbols ==
  ASSUME NEW p \in Modifiers
  PROVE  /\ p \in Seq(Symbols) /\ Len(p) \in Nat
         /\ p # <<>> => /\ Len(p) \in Nat \ {0} /\ p[1] \in {"I", "l", "h", "w"}
                        /\ \E n \in 1 .. 7 : p = Specifiers[n]
<1>1. CASE p = <<>>
  BY <1>1
<1>2. CASE p # <<>>
  <2>1. PICK n \in 1 .. 7 : p = Specifiers[n]
    BY <1>2, SpecifiersFacts DEF Modifiers, ToSet
  <2>2. Letters \subseteq Symbols
    BY DEF Symbols
  <2>3. p \in Seq(Letters) /\ Len(p) \in Nat \ {0} /\ p[1] \in {"I", "l", "h", "w"}
    <3>1. CASE n = 1
      BY <2>1, <3>1, SpecifiersFacts DEF Letters
    <3>2. CASE n = 2
      BY <2>1, <3>2, SpecifiersFacts DEF Letters
    <3>3. CASE n = 3
      BY <2>1, <3>3, SpecifiersFacts DEF Letters
    <3>4. CASE n = 4
      BY <2>1, <3>4, SpecifiersFacts DEF Letters
    <3>5. CASE n = 5
      BY <2>1, <3>5, SpecifiersFacts DEF Letters
    <3>6. CASE n = 6
      BY <2>1, <3>6, SpecifiersFacts DEF Letters
    <3>7. CASE n = 7
      BY <2>1, <3>7, SpecifiersFacts DEF Letters
    <3>. QED BY <3>1, <3>2, <3>3, <3>4, <3>5, <3>6, <3>7
  <2>4. p \in Seq(Symbols)
    BY <2>2, <2>3, SeqMonotonic
  <2>. QED BY <2>1, <2>3, <2>4
<1>. QED BY <1>1, <1>2

\* What IsPrefix says of the elements
LEMMA PrefixFacts ==
  ASSUME NEW S, NEW a \in Seq(S), NEW b \in Seq(S)
  PROVE  IsPrefix(a, b) <=> Len(a) <= Len(b) /\ \A k \in 1 .. Len(a) : a[k] = b[k]
<1>1. Len(a) \in Nat /\ Len(b) \in Nat
  OBVIOUS
<1>2. SUFFICES ASSUME Len(a) <= Len(b)
               PROVE  SubSeq(a, 1, Len(a)) = SubSeq(b, 1, Len(a)) <=> \A k \in 1 .. Len(a) : a[k] = b[k]
  BY DEF IsPrefix
<1>3. SubSeq(a, 1, Len(a)) = [k \in 1 .. Len(a) |-> a[k]]
  BY <1>1
<1>4. SubSeq(b, 1, Len(a)) = [k \in 1 .. Len(a) |-> b[k]]
  BY <1>1, <1>2
<1>5. ASSUME [k \in 1 .. Len(a) |-> a[k]] = [k \in 1 .. Len(a) |-> b[k]], NEW k \in 1 .. Len(a)
      PROVE  a[k] = b[k]
  <2>. DEFINE v == [m \in 1 .. Len(a) |-> a[m]]
              w == [m \in 1 .. Len(a) |-> b[m]]
  <2>1. v[k] = a[k] /\ w[k] = b[k] /\ v = w
    BY <1>5
  <2>. QED BY <2>1
<1>. QED BY <1>3, <1>4, <1>5

\* Two sequences end to end
LEMMA ConcatFacts ==
  ASSUME NEW S, NEW a \in Seq(S), NEW b \in Seq(S)
  PROVE  /\ a \o b \in Seq(S) /\ Len(a) \in Nat /\ Len(b) \in Nat /\ Len(a \o b) = Len(a) + Len(b)
         /\ \A k \in 1 .. Len(a) : (a \o b)[k] = a[k]
         /\ \A k \in 1 .. Len(b) : (a \o b)[Len(a) + k] = b[k]
OBVIOUS

\* The text of a conversion: its flags, its prefix and its character
Composed(piece, f, p) ==
  /\ f \in Nat \ {0} /\ Len(p) \in Nat /\ Len(piece.text) = f + Len(p) + 1
  /\ piece.text[1] = "%"
  /\ \A k \in 2 .. f : piece.text[k] \notin Converting \cup {"%", "I", "l", "h", "w"}
  /\ \A k \in 1 .. Len(p) : piece.text[f + k] = p[k]
  /\ piece.text[f + Len(p) + 1] \in Converting
  /\ piece.takes = <<ArgType(piece.text[f + Len(p) + 1], p)>>

LEMMA ConversionFacts ==
  ASSUME NEW piece, piece.text \in Seq(STRING), NEW f \in DOMAIN piece.text, NEW p \in Modifiers,
         Conversion(piece, f, p)
  PROVE  Composed(piece, f, p)
<1>. DEFINE text == piece.text
            m == Len(text)
            a == SubSeq(text, 1, f)
            c == text[m]
            z == <<c>>
<1>1. /\ text = (a \o p) \o z /\ text[1] = "%"
      /\ \A k \in 2 .. f : text[k] \notin Converting \cup {"%", "I", "l", "h", "w"}
      /\ c \in Converting /\ piece.takes = <<ArgType(c, p)>>
  BY DEF Conversion, Last
<1>2. m \in Nat /\ f \in 1 .. m /\ text \in Seq(Symbols) /\ c \in Symbols
  <2>1. m \in Nat /\ f \in 1 .. m
    OBVIOUS
  <2>2. STRING \subseteq Symbols
    BY DEF Symbols
  <2>3. text \in Seq(Symbols)
    BY <2>2, SeqMonotonic
  <2>4. m \in 1 .. m
    BY <2>1
  <2>5. c \in Symbols
    BY <2>3, <2>4
  <2>. QED BY <2>1, <2>3, <2>5
<1>3. p \in Seq(Symbols) /\ Len(p) \in Nat
  BY ModifiersAreSymbols
<1>. HIDE DEF text, c
<1>4. a \in Seq(Symbols) /\ Len(a) = f
  BY <1>2, SubSeqProperties
<1>5. z \in Seq(Symbols) /\ Len(z) = 1
  BY <1>2
<1>. HIDE DEF a, z, m
<1>6. /\ a \o p \in Seq(Symbols) /\ Len(a \o p) = f + Len(p)
      /\ \A k \in 1 .. Len(p) : (a \o p)[f + k] = p[k]
  BY <1>2, <1>3, <1>4
<1>7. /\ Len((a \o p) \o z) = f + Len(p) + 1
      /\ \A k \in 1 .. f + Len(p) : ((a \o p) \o z)[k] = (a \o p)[k]
  <2>. DEFINE ap == a \o p
  <2>1. ap \in Seq(Symbols) /\ Len(ap) = f + Len(p)
    BY <1>6
  <2>. HIDE DEF ap
  <2>2a. ap \in Seq(Symbols) /\ z \in Seq(Symbols)
    BY <1>5, <2>1
  <2>2. Len(ap \o z) = Len(ap) + Len(z) /\ \A k \in 1 .. Len(ap) : (ap \o z)[k] = ap[k]
    BY <2>2a, ConcatFacts
  <2>. QED BY <1>5, <2>1, <2>2 DEF ap
<1>8. m = f + Len(p) + 1
  BY <1>1, <1>7 DEF m
<1>9. ASSUME NEW k \in 1 .. Len(p) PROVE text[f + k] = p[k]
  <2>1. f + k \in 1 .. f + Len(p)
    BY <1>2, <1>3
  <2>. QED BY <1>1, <1>6, <1>7, <2>1
<1>10. c = text[f + Len(p) + 1]
  BY <1>8 DEF c
<1>11. f \in Nat \ {0} /\ Len(text) = f + Len(p) + 1
  BY <1>2, <1>8 DEF m
<1>12. c \in Converting /\ piece.takes = <<ArgType(c, p)>>
  BY <1>1
<1>. QED BY <1>1, <1>3, <1>9, <1>10, <1>11, <1>12 DEF text, Composed

\* Get_Prefix finds the prefix that stands before a character that converts.
LEMMA FirstPrefix ==
  ASSUME NEW r \in Seq(Symbols), NEW p \in Modifiers, p # <<>>, Len(p) + 1 <= Len(r),
         \A k \in 1 .. Len(p) : r[k] = p[k], r[Len(p) + 1] \in Converting
  PROVE  LET fits == {n \in DOMAIN Specifiers : IsPrefix(Specifiers[n], r)}
         IN Specifiers[CHOOSE n \in fits : \A m \in fits : n <= m] = p
<1>. DEFINE fits == {n \in DOMAIN Specifiers : IsPrefix(Specifiers[n], r)}
<1>1. PICK j \in 1 .. 7 : p = Specifiers[j]
  BY ModifiersAreSymbols
<1>2. ASSUME NEW n \in 1 .. 7
      PROVE  /\ Specifiers[n] \in Seq(Symbols) /\ Specifiers[n] # <<>> /\ Len(Specifiers[n]) \in Nat
             /\ n \in fits <=> /\ Len(Specifiers[n]) <= Len(r)
                               /\ \A k \in 1 .. Len(Specifiers[n]) : Specifiers[n][k] = r[k]
  <2>1. Specifiers[n] \in Modifiers
    BY SpecifiersFacts DEF Modifiers, ToSet
  <2>2. Specifiers[n] \in Seq(Symbols)
    BY <2>1, ModifiersAreSymbols
  <2>3. Specifiers[n] # <<>>
    BY SpecifiersFacts
  <2>4. n \in fits <=> IsPrefix(Specifiers[n], r)
    BY SpecifiersFacts
  <2>. QED BY <2>2, <2>3, <2>4, PrefixFacts
<1>3. Len(r) \in Nat
  OBVIOUS
<1>4. j \in fits
  <2>1. Len(p) \in Nat
    BY <1>1, <1>2
  <2>2. Len(p) <= Len(r)
    BY <1>3, <2>1
  <2>. HIDE DEF fits
  <2>. QED BY <1>1, <1>2, <2>2
<1>5. ASSUME NEW m \in fits PROVE m \in 1 .. 7 /\ j <= m
  <2>1. m \in 1 .. 7
    BY SpecifiersFacts
  <2>2. \A k \in 1 .. Len(Specifiers[m]) : Specifiers[m][k] = r[k]
    BY <1>2, <2>1
  <2>. HIDE DEF fits
  <2>3. SUFFICES ASSUME m < j PROVE FALSE
    BY <2>1
  <2>4. CASE j = 1
    BY <2>1, <2>3, <2>4
  <2>5. CASE j = 2
    <3>1. m = 1
      BY <2>1, <2>3, <2>5
    <3>2. r[2] = "6"
      BY <2>2, <3>1, SpecifiersFacts
    <3>3. r[2] = "3"
      BY <1>1, <2>5, SpecifiersFacts
    <3>. QED BY <3>2, <3>3
  <2>6. CASE j = 3
    <3>1. m \in {1, 2}
      BY <2>1, <2>3, <2>6
    <3>2. r[1] = "I"
      BY <2>2, <3>1, SpecifiersFacts
    <3>3. r[1] = "l"
      BY <1>1, <2>6, SpecifiersFacts
    <3>. QED BY <3>2, <3>3
  <2>7. CASE j = 4
    <3>1. r[1] = "l" /\ r[2] \in Converting
      BY <1>1, <2>7, SpecifiersFacts
    <3>2. CASE m \in {1, 2}
      <4>1. r[1] = "I"
        BY <2>2, <3>2, SpecifiersFacts
      <4>. QED BY <3>1, <4>1
    <3>3. CASE m = 3
      <4>1. r[2] = "l"
        BY <2>2, <3>3, SpecifiersFacts
      <4>. QED BY <3>1, <4>1 DEF Converting
    <3>. QED BY <2>1, <2>3, <2>7, <3>2, <3>3
  <2>8. CASE j = 5
    <3>1. r[1] = "h"
      BY <1>1, <2>8, SpecifiersFacts
    <3>2. CASE m \in {1, 2}
      <4>1. r[1] = "I"
        BY <2>2, <3>2, SpecifiersFacts
      <4>. QED BY <3>1, <4>1
    <3>3. CASE m \in {3, 4}
      <4>1. r[1] = "l"
        BY <2>2, <3>3, SpecifiersFacts
      <4>. QED BY <3>1, <4>1
    <3>. QED BY <2>1, <2>3, <2>8, <3>2, <3>3
  <2>9. CASE j = 6
    <3>1. r[1] = "I" /\ r[2] \in Converting
      BY <1>1, <2>9, SpecifiersFacts
    <3>2. CASE m = 1
      <4>1. r[2] = "6"
        BY <2>2, <3>2, SpecifiersFacts
      <4>. QED BY <3>1, <4>1 DEF Converting
    <3>3. CASE m = 2
      <4>1. r[2] = "3"
        BY <2>2, <3>3, SpecifiersFacts
      <4>. QED BY <3>1, <4>1 DEF Converting
    <3>4. CASE m \in {3, 4}
      <4>1. r[1] = "l"
        BY <2>2, <3>4, SpecifiersFacts
      <4>. QED BY <3>1, <4>1
    <3>5. CASE m = 5
      <4>1. r[1] = "h"
        BY <2>2, <3>5, SpecifiersFacts
      <4>. QED BY <3>1, <4>1
    <3>. QED BY <2>1, <2>3, <2>9, <3>2, <3>3, <3>4, <3>5
  <2>10. CASE j = 7
    <3>1. r[1] = "w"
      BY <1>1, <2>10, SpecifiersFacts
    <3>2. CASE m \in {1, 2, 6}
      <4>1. r[1] = "I"
        BY <2>2, <3>2, SpecifiersFacts
      <4>. QED BY <3>1, <4>1
    <3>3. CASE m \in {3, 4}
      <4>1. r[1] = "l"
        BY <2>2, <3>3, SpecifiersFacts
      <4>. QED BY <3>1, <4>1
    <3>4. CASE m = 5
      <4>1. r[1] = "h"
        BY <2>2, <3>4, SpecifiersFacts
      <4>. QED BY <3>1, <4>1
    <3>. QED BY <2>1, <2>3, <2>10, <3>2, <3>3, <3>4
  <2>. QED BY <2>4, <2>5, <2>6, <2>7, <2>8, <2>9, <2>10
<1>. DEFINE first == CHOOSE n \in fits : \A m \in fits : n <= m
<1>. HIDE DEF fits
<1>6. first \in fits /\ \A m \in fits : first <= m
  BY <1>4, <1>5
<1>7. first = j
  <2>. HIDE DEF first
  <2>1. first <= j /\ j <= first /\ first \in 1 .. 7
    BY <1>4, <1>5, <1>6
  <2>. QED BY <2>1
<1>. QED BY <1>1, <1>7 DEF fits

-----------------------------------------------------------------------------
(* How far the constructor has come with the format.                       *)

Texts == [i \in DOMAIN pieces |-> pieces[i].text]
Takes == [i \in DOMAIN pieces |-> pieces[i].takes]

\* The texts of the first n pieces, end to end, and what they take
Read(u, w) ==
  /\ Together(STRING, Texts, u) /\ format = u[Len(pieces)]
  /\ Together(Types, Takes, w) /\ Taken = w[Len(pieces)]

\* The loop stands behind the first n pieces.
Between(u, w, n) == ~percent /\ iterator = Len(u[n]) + 1 /\ args = w[n]

\* The character k of a piece is the next one, and the prefix x is known.
Midway(piece, k, x) ==
  \/ Percents(piece) /\ k = 2
  \/ \E f \in DOMAIN piece.text, p \in Modifiers :
       /\ Conversion(piece, f, p)
       /\ \/ k \in 2 .. f + 1 /\ x = <<>>
          \/ k = f + Len(p) + 1 /\ x = p

\* The loop stands in the piece behind the first n ones.
Inside(u, w, n) ==
  /\ percent /\ n # Len(pieces) /\ args = w[n]
  /\ \E k \in Nat : iterator = Len(u[n]) + k /\ Midway(pieces[n + 1], k, prefix)

\* How far the constructor has come
Reading == \E u, w : /\ Read(u, w)
                     /\ \E n \in 0 .. Len(pieces) : Between(u, w, n) \/ Inside(u, w, n)

FormatIInv ==
  /\ pieces \in Seq(Pieces) /\ args \in Seq(Types)
  /\ argsMax \in Nat /\ (args # <<>> => Len(args) < argsMax)
  /\ chunksMax \in Nat \ {0, 1, 2}
  /\ phase = "parse" => Reading
  /\ phase # "parse" => args = Taken
  /\ phase = "trace" => blocks = Grouped(Taken)
  /\ phase = "sent" => chunks = Chunked(Grouped(Taken)) /\ Len(chunks) + 3 <= chunksMax

LEMMA ArgTypes ==
  ASSUME NEW c \in Converting, NEW p
  PROVE  ArgType(c, p) \in Types
<1>1. CASE c \in {"c", "C"}
  BY <1>1 DEF ArgType, CharType, Types
<1>2. CASE c \in {"s", "S"}
  BY <1>2 DEF ArgType, StringType, Types
<1>3. CASE c = "d"
  <2>1. IntType(p) \in {"int16", "int64", "int32"}
    BY DEF IntType
  <2>. QED BY <1>3, <2>1 DEF ArgType, Types
<1>4. CASE c = "f"
  BY <1>4 DEF ArgType, Types
<1>5. CASE c = "p"
  BY <1>5 DEF ArgType, Types
<1>. QED BY <1>1, <1>2, <1>3, <1>4, <1>5 DEF Converting

LEMMA PieceFacts ==
  ASSUME NEW piece \in Pieces
  PROVE  /\ piece.text \in Seq(STRING) /\ piece.takes \in Seq(Types) /\ Len(piece.text) \in Nat \ {0}
         /\ \/ Plain(piece) \/ Percents(piece)
            \/ \E f \in DOMAIN piece.text, p \in Modifiers : Conversion(piece, f, p)
<1>1. piece.text \in Seq(STRING)
  BY FormatAssumption DEF FormatAssumption
<1>2. \/ Plain(piece) \/ Percents(piece)
      \/ \E f \in DOMAIN piece.text, p \in Modifiers : Conversion(piece, f, p)
  BY PiecesAssumption DEF PiecesAssumption, Legible, Modifiers
<1>3. CASE Plain(piece)
  BY <1>1, <1>2, <1>3 DEF Plain
<1>4. CASE Percents(piece)
  BY <1>1, <1>2, <1>4 DEF Percents
<1>5. ASSUME NEW f \in DOMAIN piece.text, NEW p \in Modifiers, Conversion(piece, f, p)
      PROVE  piece.takes \in Seq(Types) /\ Len(piece.text) \in Nat \ {0}
  <2>1. /\ f \in Nat \ {0} /\ Len(p) \in Nat /\ Len(piece.text) = f + Len(p) + 1
        /\ piece.text[f + Len(p) + 1] \in Converting
        /\ piece.takes = <<ArgType(piece.text[f + Len(p) + 1], p)>>
    <3>1. piece.text \in Seq(STRING) /\ f \in DOMAIN piece.text /\ p \in Modifiers /\ Conversion(piece, f, p)
      BY <1>1, <1>5
    <3>2. Composed(piece, f, p)
      BY <3>1, ConversionFacts
    <3>. QED BY <3>2 DEF Composed
  <2>2. ArgType(piece.text[f + Len(p) + 1], p) \in Types
    BY <2>1, ArgTypes
  <2>3. piece.takes \in Seq(Types)
    <3>. DEFINE t == ArgType(piece.text[f + Len(p) + 1], p)
    <3>. HIDE DEF t
    <3>1. t \in Types /\ piece.takes = <<t>>
      BY <2>1, <2>2 DEF t
    <3>. QED BY <3>1
  <2>. QED BY <2>1, <2>3
<1>. QED BY <1>1, <1>2, <1>3, <1>4, <1>5

LEMMA PiecesFacts ==
  ASSUME pieces \in Seq(Pieces)
  PROVE  /\ Texts \in Seq(Seq(STRING)) /\ Len(Texts) = Len(pieces) /\ format = FlattenSeq(Texts)
         /\ Takes \in Seq(Seq(Types)) /\ Len(Takes) = Len(pieces) /\ Taken = FlattenSeq(Takes)
         /\ Len(pieces) \in Nat
         /\ \A i \in 1 .. Len(pieces) :
              pieces[i] \in Pieces /\ Texts[i] = pieces[i].text /\ Takes[i] = pieces[i].takes
<1>1. Len(pieces) \in Nat /\ DOMAIN pieces = 1 .. Len(pieces)
      /\ \A i \in 1 .. Len(pieces) : pieces[i] \in Pieces
  OBVIOUS
<1>2. \A i \in 1 .. Len(pieces) : pieces[i].text \in Seq(STRING) /\ pieces[i].takes \in Seq(Types)
  BY <1>1, PieceFacts
<1>3. Texts = [i \in 1 .. Len(pieces) |-> pieces[i].text]
  BY <1>1 DEF Texts
<1>4. Takes = [i \in 1 .. Len(pieces) |-> pieces[i].takes]
  BY <1>1 DEF Takes
<1>5. Texts \in Seq(Seq(STRING)) /\ Len(Texts) = Len(pieces)
  BY <1>1, <1>2, <1>3
<1>6. Takes \in Seq(Seq(Types)) /\ Len(Takes) = Len(pieces)
  BY <1>1, <1>2, <1>4
<1>7. format = FlattenSeq(Texts)
  BY Zenon DEF format, Texts
<1>8. Taken = FlattenSeq(Takes)
  BY Zenon DEF Taken, Takes
<1>. QED BY <1>1, <1>3, <1>4, <1>5, <1>6, <1>7, <1>8

\* The piece behind the first n ones
Ahead(u, w, n) ==
  /\ n + 1 \in 0 .. Len(pieces) /\ pieces[n + 1] \in Pieces
  /\ Len(u[n]) \in Nat /\ Len(u[n + 1]) = Len(u[n]) + Len(pieces[n + 1].text)
  /\ Len(u[n + 1]) <= Len(format) /\ format \in Seq(STRING)
  /\ \A k \in 1 .. Len(pieces[n + 1].text) : format[Len(u[n]) + k] = pieces[n + 1].text[k]
  /\ w[n] \in Seq(Types) /\ w[n + 1] = w[n] \o pieces[n + 1].takes

LEMMA NextPiece ==
  ASSUME pieces \in Seq(Pieces), NEW u, NEW w, Read(u, w),
         NEW n \in 0 .. Len(pieces), n # Len(pieces)
  PROVE  Ahead(u, w, n)
<1>1. /\ Texts \in Seq(Seq(STRING)) /\ Len(Texts) = Len(pieces)
      /\ Takes \in Seq(Seq(Types)) /\ Len(Takes) = Len(pieces) /\ Len(pieces) \in Nat
      /\ \A i \in 1 .. Len(pieces) :
           pieces[i] \in Pieces /\ Texts[i] = pieces[i].text /\ Takes[i] = pieces[i].takes
  BY PiecesFacts
<1>2. /\ Together(STRING, Texts, u) /\ format = u[Len(Texts)] /\ Together(Types, Takes, w)
  BY <1>1 DEF Read
<1>3. n \in 0 .. Len(Texts) /\ n # Len(Texts) /\ n \in 0 .. Len(Takes) /\ n # Len(Takes)
      /\ n + 1 \in 1 .. Len(pieces)
  BY <1>1
<1>4. /\ Len(u[n]) \in Nat /\ Len(u[n + 1]) = Len(u[n]) + Len(Texts[n + 1])
      /\ Len(u[n + 1]) <= Len(format)
      /\ \A k \in 1 .. Len(Texts[n + 1]) : format[Len(u[n]) + k] = Texts[n + 1][k]
  <2>1. Texts \in Seq(Seq(STRING)) /\ Together(STRING, Texts, u)
        /\ n \in 0 .. Len(Texts) /\ n # Len(Texts)
    BY <1>1, <1>2, <1>3
  <2>2. format = u[Len(Texts)]
    BY <1>2
  <2>3. Follows(Texts, u, n)
    BY <2>1, TogetherNext
  <2>. QED BY <2>2, <2>3 DEF Follows
<1>5. w[n + 1] = w[n] \o Takes[n + 1] /\ w[n] \in Seq(Types)
  <2>1. Takes \in Seq(Seq(Types)) /\ Together(Types, Takes, w)
        /\ n \in 0 .. Len(Takes) /\ n # Len(Takes)
    BY <1>1, <1>2, <1>3
  <2>2. w[n + 1] = w[n] \o Takes[n + 1]
    <3>1. Follows(Takes, w, n)
      BY <2>1, TogetherNext
    <3>. QED BY <3>1 DEF Follows
  <2>3. w[n] \in Seq(Types)
    BY <2>1, TogetherBegins
  <2>. QED BY <2>2, <2>3
<1>6. format \in Seq(STRING)
  <2>1. Texts \in Seq(Seq(STRING)) /\ Together(STRING, Texts, u) /\ n \in 0 .. Len(Texts)
    BY <1>1, <1>2, <1>3
  <2>2. u[Len(Texts)] \in Seq(STRING)
    BY <2>1, TogetherBegins
  <2>. QED BY <1>2, <2>2
<1>7. pieces[n + 1] \in Pieces /\ Texts[n + 1] = pieces[n + 1].text /\ Takes[n + 1] = pieces[n + 1].takes
      /\ n + 1 \in 0 .. Len(pieces)
  BY <1>1, <1>3
<1>. QED BY <1>4, <1>5, <1>6, <1>7 DEF Ahead

\* What one turn of the loop does
LEMMA Turns ==
  ASSUME Parse
  PROVE  LET c == format[iterator] IN
         /\ pieces' = pieces /\ iterator <= Len(format)
         /\ ~percent => /\ percent' = (c = "%") /\ iterator' = iterator + 1 /\ args' = args
                        /\ c = "%" => prefix' = <<>>
         /\ percent /\ c \in {"I", "l", "h", "w"} =>
              percent' /\ prefix' = GetPrefix(iterator) /\ iterator' = iterator + Len(prefix') /\ args' = args
         /\ percent /\ c \in Converting \cup {"%"} =>
              /\ ~percent' /\ prefix' = prefix /\ iterator' = iterator + 1
              /\ args' = IF c = "%" THEN args ELSE Append(args, ArgType(c, prefix))
         /\ percent /\ c \notin Converting \cup {"%", "I", "l", "h", "w"} =>
              percent' /\ prefix' = prefix /\ iterator' = iterator + 1 /\ args' = args
<1>. DEFINE c == format[iterator]
<1>1. pieces' = pieces /\ iterator <= Len(format)
  BY DEF Parse
<1>2. \/ /\ ~percent /\ percent' = (c = "%") /\ iterator' = iterator + 1 /\ args' = args
         /\ prefix' = IF c = "%" THEN <<>> ELSE prefix
      \/ /\ percent /\ c \in {"I", "l", "h", "w"} /\ percent' = percent
         /\ prefix' = GetPrefix(iterator) /\ iterator' = iterator + Len(prefix') /\ args' = args
      \/ /\ percent /\ c \in Converting \cup {"%"}
         /\ percent' = FALSE /\ prefix' = prefix /\ iterator' = iterator + 1
         /\ args' = IF c = "%" THEN args ELSE Append(args, ArgType(c, prefix))
      \/ /\ percent /\ c \notin Converting \cup {"%", "I", "l", "h", "w"}
         /\ percent' = percent /\ prefix' = prefix /\ iterator' = iterator + 1 /\ args' = args
  BY DEF Parse, AddArgument, NewPrefix
<1>. HIDE DEF c
<1>3. c \in {"I", "l", "h", "w"} => c \notin Converting \cup {"%"}
  BY DEF Converting
<1>. QED BY <1>1, <1>2, <1>3 DEF c

\* A piece begins.
LEMMA PieceBegins ==
  ASSUME Parse, pieces \in Seq(Pieces), NEW u, NEW w, Read(u, w),
         NEW n \in 0 .. Len(pieces), n # Len(pieces), Between(u, w, n)
  PROVE  \E m \in 0 .. Len(pieces) : Between(u, w, m)' \/ Inside(u, w, m)'
<1>. DEFINE piece == pieces[n + 1]
            b == Len(u[n])
            c == format[iterator]
<1>1. /\ n + 1 \in 0 .. Len(pieces) /\ piece \in Pieces
      /\ b \in Nat /\ Len(u[n + 1]) = b + Len(piece.text)
      /\ \A k \in 1 .. Len(piece.text) : format[b + k] = piece.text[k]
      /\ w[n] \in Seq(Types) /\ w[n + 1] = w[n] \o piece.takes
  <2>1. Ahead(u, w, n)
    BY NextPiece
  <2>. QED BY <2>1 DEF Ahead
<1>2. /\ pieces' = pieces /\ ~percent /\ iterator = b + 1 /\ args = w[n]
      /\ percent' = (c = "%") /\ iterator' = iterator + 1 /\ args' = args
      /\ c = "%" => prefix' = <<>>
  BY Turns DEF Between
<1>3. /\ piece.text \in Seq(STRING) /\ Len(piece.text) \in Nat \ {0}
      /\ \/ Plain(piece) \/ Percents(piece)
         \/ \E f \in DOMAIN piece.text, p \in Modifiers : Conversion(piece, f, p)
  BY <1>1, PieceFacts
<1>4. c = piece.text[1]
  <2>1. 1 \in 1 .. Len(piece.text)
    BY <1>3
  <2>. QED BY <1>1, <1>2, <2>1
<1>. HIDE DEF piece, b, c
<1>5. iterator' = b + 2 /\ b + 2 = (b + 1) + 1
  BY <1>1, <1>2
<1>6. CASE Plain(piece)
  <2>1. c # "%" /\ Len(piece.text) = 1 /\ piece.takes = <<>>
    BY <1>4, <1>6 DEF Plain
  <2>2. w[n + 1] = w[n]
    BY <1>1, <2>1, ConcatEmptySeq
  <2>3. ~percent' /\ iterator' = Len(u[n + 1]) + 1 /\ args' = w[n + 1]
    BY <1>1, <1>2, <1>5, <2>1, <2>2
  <2>4. Between(u, w, n + 1)'
    BY <2>3 DEF Between
  <2>. QED BY <1>1, <1>2, <2>4
<1>7. ASSUME c = "%", Midway(piece, 2, prefix')
      PROVE  Inside(u, w, n)'
  <2>1. percent' /\ n # Len(pieces') /\ args' = w[n]
    BY <1>2, <1>7
  <2>2. Midway(pieces'[n + 1], 2, prefix')
    BY <1>2, <1>7 DEF piece
  <2>3. iterator' = Len(u[n]) + 2 /\ 2 \in Nat
    BY <1>5 DEF b
  <2>. QED BY <2>1, <2>2, <2>3 DEF Inside
<1>8. CASE Percents(piece)
  <2>1. c = "%"
    BY <1>4, <1>8 DEF Percents
  <2>2. Midway(piece, 2, prefix')
    BY <1>8 DEF Midway
  <2>. QED BY <1>2, <1>7, <2>1, <2>2
<1>9. ASSUME NEW f \in DOMAIN piece.text, NEW p \in Modifiers, Conversion(piece, f, p)
      PROVE  \E m \in 0 .. Len(pieces) : Between(u, w, m)' \/ Inside(u, w, m)'
  <2>0. piece.text \in Seq(STRING) /\ f \in DOMAIN piece.text /\ p \in Modifiers /\ Conversion(piece, f, p)
    BY <1>3, <1>9
  <2>1. Composed(piece, f, p)
    BY <2>0, ConversionFacts
  <2>2. c = "%" /\ 2 \in 2 .. f + 1
    BY <1>4, <2>1 DEF Composed
  <2>3. prefix' = <<>>
    BY <1>2, <2>2
  <2>4. Midway(piece, 2, prefix')
    BY <1>9, <2>2, <2>3 DEF Midway
  <2>. QED BY <1>2, <1>7, <2>2, <2>4
<1>. QED BY <1>3, <1>6, <1>8, <1>9

\* A piece goes on or ends.
LEMMA PieceGoesOn ==
  ASSUME Parse, pieces \in Seq(Pieces), NEW u, NEW w, Read(u, w),
         NEW n \in 0 .. Len(pieces), Inside(u, w, n)
  PROVE  \E m \in 0 .. Len(pieces) : Between(u, w, m)' \/ Inside(u, w, m)'
<1>. DEFINE piece == pieces[n + 1]
            b == Len(u[n])
            c == format[iterator]
<1>1. PICK k \in Nat : iterator = b + k /\ Midway(piece, k, prefix)
  BY DEF Inside
<1>2. n # Len(pieces) /\ percent /\ args = w[n] /\ pieces' = pieces /\ iterator <= Len(format)
  BY Turns DEF Inside
<1>3. /\ n + 1 \in 0 .. Len(pieces) /\ piece \in Pieces /\ format \in Seq(STRING)
      /\ b \in Nat /\ Len(u[n + 1]) = b + Len(piece.text) /\ Len(u[n + 1]) <= Len(format)
      /\ \A i \in 1 .. Len(piece.text) : format[b + i] = piece.text[i]
      /\ w[n] \in Seq(Types) /\ w[n + 1] = w[n] \o piece.takes
  <2>1. Ahead(u, w, n)
    BY <1>2, NextPiece
  <2>. QED BY <2>1 DEF Ahead
<1>3a. b \in Nat /\ Len(format) \in Nat /\ b + Len(piece.text) <= Len(format)
  <2>1. b \in Nat
    BY <1>3
  <2>2. Len(format) \in Nat
    BY <1>3, LenProperties
  <2>3. b + Len(piece.text) <= Len(format)
    BY <1>3
  <2>. QED BY <2>1, <2>2, <2>3
<1>4. piece.text \in Seq(STRING)
  BY <1>3, PieceFacts
<1>5. ASSUME NEW m \in Nat, percent', iterator' = b + m, args' = args, Midway(piece, m, prefix')
      PROVE  Inside(u, w, n)'
  <2>1. percent' /\ n # Len(pieces') /\ args' = w[n]
    BY <1>2, <1>5
  <2>2. Midway(pieces'[n + 1], m, prefix')
    BY <1>2, <1>5
  <2>. QED BY <1>5, <2>1, <2>2 DEF Inside
<1>6. ASSUME ~percent', iterator' = b + Len(piece.text) + 1, args' = w[n + 1]
      PROVE  Between(u, w, n + 1)'
  BY <1>3, <1>6 DEF Between
<1>7. /\ c \in {"I", "l", "h", "w"} =>
           percent' /\ prefix' = GetPrefix(iterator) /\ iterator' = iterator + Len(prefix') /\ args' = args
      /\ c \in Converting \cup {"%"} =>
           /\ ~percent' /\ prefix' = prefix /\ iterator' = iterator + 1
           /\ args' = IF c = "%" THEN args ELSE Append(args, ArgType(c, prefix))
      /\ c \notin Converting \cup {"%", "I", "l", "h", "w"} =>
           percent' /\ prefix' = prefix /\ iterator' = iterator + 1 /\ args' = args
  BY <1>2, Turns
<1>. HIDE DEF piece, b, c
<1>8. ASSUME k \in 1 .. Len(piece.text) PROVE c = piece.text[k]
  BY <1>1, <1>3, <1>8 DEF c
<1>9. CASE Percents(piece) /\ k = 2
  <2>1. Len(piece.text) = 2 /\ piece.text[2] = "%" /\ piece.takes = <<>>
    BY <1>9 DEF Percents
  <2>2. c = "%"
    BY <1>8, <1>9, <2>1
  <2>3. ~percent' /\ iterator' = iterator + 1 /\ args' = args
    BY <1>7, <2>2
  <2>4. iterator' = b + Len(piece.text) + 1
    BY <1>1, <1>3, <1>9, <2>1, <2>3
  <2>5. w[n + 1] = w[n]
    BY <1>3, <2>1, ConcatEmptySeq
  <2>6. Between(u, w, n + 1)'
    BY <1>2, <1>6, <2>3, <2>4, <2>5
  <2>. QED BY <1>3, <2>6
<1>10. ASSUME NEW f \in DOMAIN piece.text, NEW p \in Modifiers, Conversion(piece, f, p),
              (k \in 2 .. f + 1 /\ prefix = <<>>) \/ (k = f + Len(p) + 1 /\ prefix = p)
       PROVE  \E m \in 0 .. Len(pieces) : Between(u, w, m)' \/ Inside(u, w, m)'
  <2>0. piece.text \in Seq(STRING) /\ f \in DOMAIN piece.text /\ p \in Modifiers /\ Conversion(piece, f, p)
    BY <1>4, <1>10
  <2>1. Composed(piece, f, p)
    BY <2>0, ConversionFacts
  <2>2. f \in Nat \ {0} /\ Len(p) \in Nat /\ Len(piece.text) = f + Len(p) + 1
    BY <2>1 DEF Composed
  <2>3. CASE k \in 2 .. f /\ prefix = <<>>
    <3>1. k \in 1 .. Len(piece.text) /\ k + 1 \in Nat /\ k + 1 \in 2 .. f + 1
      BY <2>2, <2>3
    <3>2. c \notin Converting \cup {"%", "I", "l", "h", "w"}
      BY <1>8, <2>1, <2>3, <3>1 DEF Composed
    <3>3. percent' /\ prefix' = <<>> /\ iterator' = iterator + 1 /\ args' = args
      BY <1>7, <2>3, <3>2
    <3>4. iterator' = b + (k + 1)
      BY <1>1, <1>3, <3>3
    <3>5. Midway(piece, k + 1, prefix')
      BY <1>10, <3>1, <3>3 DEF Midway
    <3>6. Inside(u, w, n)'
      BY <1>5, <3>1, <3>3, <3>4, <3>5
    <3>. QED BY <3>6
  <2>4. CASE k = f + 1 /\ prefix = <<>> /\ p # <<>>
    <3>1. k \in 1 .. Len(piece.text) /\ 1 \in 1 .. Len(p) /\ p[1] \in {"I", "l", "h", "w"}
          /\ p \in Seq(Symbols)
      <4>1. Len(p) # 0 /\ p[1] \in {"I", "l", "h", "w"} /\ p \in Seq(Symbols)
        BY <2>4, ModifiersAreSymbols
      <4>2. Len(p) \in Nat \ {0}
        BY <2>2, <4>1
      <4>3. k \in 1 .. Len(piece.text)
        BY <2>2, <2>4
      <4>. QED BY <4>1, <4>2, <4>3
    <3>2. c \in {"I", "l", "h", "w"}
      BY <1>8, <2>1, <2>4, <3>1 DEF Composed
    <3>. DEFINE r == SubSeq(format, iterator, Len(format))
    <3>3. iterator = b + f + 1 /\ iterator \in Nat \ {0} /\ Len(format) \in Nat
      <4>1. iterator = b + k /\ k = f + 1
        BY <1>1, <2>4
      <4>2. f \in Nat \ {0} /\ b \in Nat /\ Len(format) \in Nat
        BY <1>3a, <2>2
      <4>3. iterator = b + (f + 1)
        BY <4>1
      <4>4. b + (f + 1) = b + f + 1 /\ b + (f + 1) \in Nat
        BY <4>2
      <4>. QED BY <4>2, <4>3, <4>4
    <3>4. r \in Seq(STRING) /\ Len(r) = Len(format) - iterator + 1
          /\ \A i \in 1 .. Len(r) : r[i] = format[iterator + i - 1]
      <4>1. iterator \in 1 .. Len(format) + 1 /\ Len(format) \in iterator - 1 .. Len(format)
            /\ iterator <= Len(format)
        BY <1>2, <3>3
      <4>. QED BY <1>3, <3>3, <4>1, SubSeqProperties
    <3>. HIDE DEF r
    <3>5. Len(p) + 1 <= Len(r) /\ Len(r) \in Nat
      <4>. DEFINE z == Len(p)
                  m == Len(format)
                  q == Len(r)
      <4>1. q = m - iterator + 1 /\ iterator = b + f + 1 /\ b + (f + z + 1) <= m
        BY <1>3a, <2>2, <3>3, <3>4
      <4>2. b \in Nat /\ f \in Nat /\ z \in Nat /\ m \in Nat
        BY <1>3a, <2>2
      <4>. HIDE DEF z, m, q
      <4>3. q = m - (b + f + 1) + 1
        BY <4>1
      <4>4. z + 1 <= q /\ q \in Nat
        BY <4>1, <4>2, <4>3
      <4>. QED BY <4>4 DEF z, q
    <3>6. ASSUME NEW i \in 1 .. Len(p) + 1 PROVE r[i] = piece.text[f + i]
      <4>0. i \in 1 .. Len(p) + 1 /\ Len(p) \in Nat /\ f \in Nat /\ b \in Nat
        BY <1>3a, <2>2
      <4>1a. i \in 1 .. Len(r)
        BY <3>5, <4>0
      <4>1b. f + i \in 1 .. Len(piece.text)
        BY <2>2, <4>0
      <4>1c. iterator + i - 1 = b + (f + i)
        <5>1. iterator = b + f + 1
          BY <3>3
        <5>. QED BY <4>0, <5>1
      <4>1. i \in 1 .. Len(r) /\ f + i \in 1 .. Len(piece.text) /\ iterator + i - 1 = b + (f + i)
        BY <4>1a, <4>1b, <4>1c
      <4>. QED BY <1>3, <3>4, <4>1
    <3>7. /\ r \in Seq(Symbols) /\ \A i \in 1 .. Len(p) : r[i] = p[i]
          /\ r[Len(p) + 1] \in Converting
      <4>1. r \in Seq(Symbols)
        <5>1. STRING \subseteq Symbols
          BY DEF Symbols
        <5>. QED BY <3>4, <5>1, SeqMonotonic
      <4>2. ASSUME NEW i \in 1 .. Len(p) PROVE r[i] = p[i]
        <5>1. i \in 1 .. Len(p) + 1
          BY <2>2
        <5>. QED BY <2>1, <3>6, <5>1 DEF Composed
      <4>3. r[Len(p) + 1] \in Converting
        <5>1. Len(p) + 1 \in 1 .. Len(p) + 1 /\ f + (Len(p) + 1) = f + Len(p) + 1
          BY <2>2
        <5>. QED BY <2>1, <3>6, <5>1 DEF Composed
      <4>. QED BY <4>1, <4>2, <4>3
    <3>8. GetPrefix(iterator) = p
      BY <2>4, <3>5, <3>7, FirstPrefix DEF GetPrefix, r
    <3>9. percent' /\ prefix' = p /\ iterator' = iterator + Len(p) /\ args' = args
      BY <1>7, <3>2, <3>8
    <3>10. iterator' = b + (f + Len(p) + 1) /\ f + Len(p) + 1 \in Nat
      <4>1. b \in Nat /\ f \in Nat /\ Len(p) \in Nat
        BY <1>3a, <2>2
      <4>2. iterator = b + f + 1 /\ iterator' = iterator + Len(p)
        BY <3>3, <3>9
      <4>. QED BY <4>1, <4>2
    <3>11. Midway(piece, f + Len(p) + 1, prefix')
      BY <1>10, <3>9 DEF Midway
    <3>12. Inside(u, w, n)'
      BY <1>5, <3>9, <3>10, <3>11
    <3>. QED BY <3>12
  <2>5. CASE k = f + Len(p) + 1 /\ prefix = p
    <3>1. k \in 1 .. Len(piece.text)
      BY <2>2, <2>5
    <3>2. c \in Converting /\ piece.takes = <<ArgType(c, p)>>
      BY <1>8, <2>1, <2>5, <3>1 DEF Composed
    <3>3. c # "%"
      BY <3>2 DEF Converting
    <3>4. ~percent' /\ iterator' = iterator + 1 /\ args' = Append(args, ArgType(c, p))
      BY <1>7, <2>5, <3>2, <3>3
    <3>5. iterator' = b + Len(piece.text) + 1
      BY <1>1, <1>3, <2>2, <2>5, <3>4
    <3>6. args' = w[n + 1]
      <4>. DEFINE t == ArgType(c, p)
      <4>1. t \in Types
        BY <3>2, ArgTypes
      <4>. HIDE DEF t
      <4>2. Append(w[n], t) = w[n] \o <<t>>
        BY <1>3, <4>1, AppendIsConcat
      <4>. QED BY <1>2, <1>3, <3>2, <3>4, <4>2 DEF t
    <3>7. Between(u, w, n + 1)'
      BY <1>6, <3>4, <3>5, <3>6
    <3>. QED BY <1>3, <3>7
  <2>6. p = <<>> => Len(p) = 0
    OBVIOUS
  <2>7. k \in 2 .. f + 1 => k \in 2 .. f \/ k = f + 1
    BY <2>2
  <2>8. k = f + 1 /\ prefix = <<>> /\ p = <<>> => k = f + Len(p) + 1 /\ prefix = p
    BY <2>2, <2>6
  <2>. QED BY <1>10, <2>3, <2>4, <2>5, <2>7, <2>8
<1>11. \/ Percents(piece) /\ k = 2
       \/ \E f \in DOMAIN piece.text, p \in Modifiers :
            /\ Conversion(piece, f, p)
            /\ (k \in 2 .. f + 1 /\ prefix = <<>>) \/ (k = f + Len(p) + 1 /\ prefix = p)
  BY <1>1 DEF Midway
<1>. QED BY <1>9, <1>10, <1>11

\* The loop has come to the end of the format behind its last piece.
LEMMA EndReached ==
  ASSUME pieces \in Seq(Pieces), Reading, iterator > Len(format)
  PROVE  args = Taken
<1>1. PICK u, w : /\ Read(u, w)
                  /\ \E n \in 0 .. Len(pieces) : Between(u, w, n) \/ Inside(u, w, n)
  BY DEF Reading
<1>2. PICK n \in 0 .. Len(pieces) : Between(u, w, n) \/ Inside(u, w, n)
  BY <1>1
<1>3. ASSUME n # Len(pieces)
      PROVE  FALSE
  <2>0. Ahead(u, w, n)
    BY <1>1, <1>3, NextPiece
  <2>1. /\ pieces[n + 1] \in Pieces /\ Len(u[n]) \in Nat
        /\ Len(u[n]) + Len(pieces[n + 1].text) <= Len(format)
    BY <2>0 DEF Ahead
  <2>1a. Len(format) \in Nat
    BY <2>0, LenProperties DEF Ahead
  <2>. DEFINE piece == pieces[n + 1]
  <2>2. piece.text \in Seq(STRING) /\ Len(piece.text) \in Nat \ {0}
    BY <2>1, PieceFacts
  <2>. HIDE DEF piece
  <2>3. CASE Between(u, w, n)
    <3>. DEFINE a == Len(u[n])
                z == Len(piece.text)
                m == Len(format)
    <3>1. a \in Nat /\ z \in Nat \ {0} /\ m \in Nat /\ a + z <= m /\ iterator = a + 1 /\ iterator > m
      BY <2>1, <2>1a, <2>2, <2>3 DEF Between, piece
    <3>. HIDE DEF a, z, m
    <3>. QED BY <3>1
  <2>4. CASE Inside(u, w, n)
    <3>1. PICK k \in Nat : iterator = Len(u[n]) + k /\ Midway(piece, k, prefix)
      BY <2>4 DEF Inside, piece
    <3>2. k <= Len(piece.text)
      <4>1. CASE Percents(piece) /\ k = 2
        BY <4>1 DEF Percents
      <4>2. ASSUME NEW f \in DOMAIN piece.text, NEW p \in Modifiers, Conversion(piece, f, p),
                   (k \in 2 .. f + 1 /\ prefix = <<>>) \/ (k = f + Len(p) + 1 /\ prefix = p)
            PROVE  k <= Len(piece.text)
        <5>1. Composed(piece, f, p)
          BY <2>2, <4>2, ConversionFacts
        <5>2. f \in Nat /\ Len(p) \in Nat /\ Len(piece.text) = f + Len(p) + 1
          BY <5>1 DEF Composed
        <5>3. k <= f + Len(p) + 1
          <6>1. CASE k \in 2 .. f + 1
            BY <5>2, <6>1
          <6>2. CASE k = f + Len(p) + 1
            BY <5>2, <6>2
          <6>. QED BY <4>2, <6>1, <6>2
        <5>. QED BY <5>2, <5>3
      <4>3. \/ Percents(piece) /\ k = 2
            \/ \E f \in DOMAIN piece.text, p \in Modifiers :
                 /\ Conversion(piece, f, p)
                 /\ (k \in 2 .. f + 1 /\ prefix = <<>>) \/ (k = f + Len(p) + 1 /\ prefix = p)
        BY <3>1 DEF Midway
      <4>. QED BY <4>1, <4>2, <4>3
    <3>3. Len(u[n]) + Len(piece.text) <= Len(format) /\ Len(u[n]) \in Nat
      BY <2>1 DEF piece
    <3>. DEFINE a == Len(u[n])
                z == Len(piece.text)
                m == Len(format)
    <3>4. a \in Nat /\ z \in Nat /\ m \in Nat /\ a + z <= m /\ k <= z /\ iterator = a + k /\ iterator > m
      BY <2>1a, <2>2, <3>1, <3>2, <3>3
    <3>. HIDE DEF a, z, m
    <3>. QED BY <3>4
  <2>. QED BY <1>2, <2>3, <2>4
<1>4. ~Inside(u, w, Len(pieces))
  BY DEF Inside
<1>5. args = w[Len(pieces)]
  BY <1>2, <1>3, <1>4 DEF Between
<1>. QED BY <1>1, <1>5 DEF Read

\* One type more
LEMMA ArgumentAdded ==
  ASSUME NEW type \in Types, args \in Seq(Types), argsMax \in Nat, AddArgument(type)
  PROVE  args' \in Seq(Types) /\ argsMax' \in Nat /\ (args' # <<>> => Len(args') < argsMax')
<1>1. ArgsReserve \in Nat /\ ArgsReserve > 1
  BY FormatAssumption DEF FormatAssumption
<1>2. args' = Append(args, type) /\ Len(args) \in Nat
      /\ argsMax' = IF Len(args) + 1 >= argsMax THEN Len(args) + ArgsReserve ELSE argsMax
  BY DEF AddArgument
<1>3. args' \in Seq(Types) /\ Len(args') = Len(args) + 1
  BY <1>2
<1>. QED BY <1>1, <1>2, <1>3

LEMMA FormatInitially == FormatInit => FormatIInv
<1>1. SUFFICES ASSUME FormatInit PROVE FormatIInv
  OBVIOUS
<1>2. pieces \in Seq(Pieces)
  <2>1. PICK n \in 0 .. MaxPieces : pieces \in [1 .. n -> Pieces]
    BY <1>1 DEF FormatInit
  <2>2. n \in Nat
    BY FormatAssumption DEF FormatAssumption
  <2>. QED BY <2>1, <2>2
<1>3. /\ args \in Seq(Types) /\ argsMax \in Nat /\ args = <<>> /\ phase = "parse"
      /\ chunksMax \in Nat \ {0, 1, 2} /\ ~percent /\ iterator = 1
  <2>1. args = <<>> /\ argsMax = 0 /\ phase = "parse" /\ chunksMax = ChunksReserve /\ iterator = 1
    BY <1>1 DEF FormatInit
  <2>2. ~percent
    BY <1>1 DEF FormatInit
  <2>3. ChunksReserve \in Nat \ {0, 1, 2}
    BY FormatAssumption DEF FormatAssumption
  <2>. QED BY <2>1, <2>2, <2>3
<1>4. /\ Texts \in Seq(Seq(STRING)) /\ Len(Texts) = Len(pieces) /\ format = FlattenSeq(Texts)
      /\ Takes \in Seq(Seq(Types)) /\ Len(Takes) = Len(pieces) /\ Taken = FlattenSeq(Takes)
      /\ Len(pieces) \in Nat
  BY <1>2, PiecesFacts
<1>5. PICK u : Together(STRING, Texts, u) /\ FlattenSeq(Texts) = u[Len(Texts)]
  BY <1>4, TogetherFacts
<1>6. PICK w : Together(Types, Takes, w) /\ FlattenSeq(Takes) = w[Len(Takes)]
  BY <1>4, TogetherFacts
<1>7. Read(u, w)
  BY <1>4, <1>5, <1>6 DEF Read
<1>8. Between(u, w, 0)
  <2>1. u[0] = <<>> /\ w[0] = <<>>
    BY <1>5, <1>6 DEF Together
  <2>. QED BY <1>3, <2>1 DEF Between
<1>9. Reading
  BY <1>4, <1>7, <1>8 DEF Reading
<1>. QED BY <1>2, <1>3, <1>9 DEF FormatIInv

LEMMA FormatStepwise == FormatIInv /\ [FormatNext]_formatVars => FormatIInv'
<1>1. SUFFICES ASSUME FormatIInv, [FormatNext]_formatVars PROVE FormatIInv'
  OBVIOUS
<1>2. CASE Parse
  <2>1. /\ pieces' = pieces /\ phase = "parse" /\ phase' = phase /\ chunksMax' = chunksMax
    BY <1>2 DEF Parse
  <2>2. pieces \in Seq(Pieces) /\ args \in Seq(Types) /\ argsMax \in Nat /\ Reading
        /\ (args # <<>> => Len(args) < argsMax) /\ chunksMax \in Nat \ {0, 1, 2}
    BY <1>1, <2>1 DEF FormatIInv
  <2>3. args' \in Seq(Types) /\ argsMax' \in Nat /\ (args' # <<>> => Len(args') < argsMax')
    <3>1. UNCHANGED <<args, argsMax>> \/ \E c \in Converting : AddArgument(ArgType(c, prefix))
      BY <1>2 DEF Parse
    <3>2. CASE UNCHANGED <<args, argsMax>>
      BY <2>2, <3>2
    <3>3. ASSUME NEW c \in Converting, AddArgument(ArgType(c, prefix))
          PROVE  args' \in Seq(Types) /\ argsMax' \in Nat /\ (args' # <<>> => Len(args') < argsMax')
      <4>1. ArgType(c, prefix) \in Types
        BY <3>3, ArgTypes
      <4>. QED BY <2>2, <3>3, <4>1, ArgumentAdded
    <3>. QED BY <3>1, <3>2, <3>3
  <2>4. PICK u, w : /\ Read(u, w)
                    /\ \E n \in 0 .. Len(pieces) : Between(u, w, n) \/ Inside(u, w, n)
    BY <2>2 DEF Reading
  <2>5. PICK n \in 0 .. Len(pieces) : Between(u, w, n) \/ Inside(u, w, n)
    BY <2>4
  <2>6. \E m \in 0 .. Len(pieces) : Between(u, w, m)' \/ Inside(u, w, m)'
    <3>1. CASE Inside(u, w, n)
      BY <1>2, <2>2, <2>4, <3>1, PieceGoesOn
    <3>2. CASE Between(u, w, n) /\ n # Len(pieces)
      BY <1>2, <2>2, <2>4, <3>2, PieceBegins
    <3>3. ASSUME Between(u, w, n), n = Len(pieces)
          PROVE  FALSE
      <4>1. iterator = Len(format) + 1
        BY <2>4, <3>3 DEF Between, Read
      <4>2. iterator <= Len(format)
        BY <1>2 DEF Parse
      <4>3. format \in Seq(STRING)
        <5>1. Texts \in Seq(Seq(STRING)) /\ Len(Texts) = Len(pieces) /\ Len(pieces) \in Nat
          BY <2>2, PiecesFacts
        <5>2. Together(STRING, Texts, u) /\ Len(Texts) \in 0 .. Len(Texts)
          BY <2>4, <5>1 DEF Read
        <5>3. u[Len(Texts)] \in Seq(STRING)
          BY <5>1, <5>2, TogetherBegins
        <5>. QED BY <2>4, <5>1, <5>3 DEF Read
      <4>4. Len(format) \in Nat
        BY <4>3, LenProperties
      <4>. QED BY <4>1, <4>2, <4>4
    <3>. QED BY <2>5, <3>1, <3>2, <3>3
  <2>7. Read(u, w)'
    BY <2>1, <2>4 DEF Read, Texts, Takes, format, Taken
  <2>8. Reading'
    BY <2>1, <2>6, <2>7 DEF Reading
  <2>. QED BY <2>1, <2>2, <2>3, <2>8 DEF FormatIInv
<1>3. CASE MakeBlocks
  <2>1. args = Taken
    BY <1>1, <1>3, EndReached DEF FormatIInv, MakeBlocks
  <2>2. Taken' = Taken
    BY <1>3 DEF MakeBlocks, Taken
  <2>. QED BY <1>1, <1>3, <2>1, <2>2 DEF FormatIInv, MakeBlocks
<1>4. CASE MakeChunks
  <2>1. Taken' = Taken
    BY <1>4 DEF MakeChunks, Taken
  <2>2. args = Taken /\ blocks = Grouped(Taken) /\ args \in Seq(Types) /\ chunksMax \in Nat \ {0, 1, 2}
    BY <1>1, <1>4 DEF FormatIInv, MakeChunks
  <2>3. Len(blocks) \in Nat /\ Len(Chunked(blocks)) = Len(blocks)
    BY <2>2, ChunksArrive
  <2>4. chunksMax' = Room(Len(blocks)) /\ chunks' = Chunked(blocks)
    BY <1>4 DEF MakeChunks
  <2>5. chunksMax' \in Nat \ {0, 1, 2} /\ Len(blocks) + 3 <= chunksMax'
    BY <2>2, <2>3, <2>4 DEF Room
  <2>6. Len(chunks') + 3 <= chunksMax'
    BY <2>3, <2>4, <2>5
  <2>. QED BY <1>1, <1>4, <2>1, <2>2, <2>4, <2>5, <2>6 DEF FormatIInv, MakeChunks
<1>5. CASE UNCHANGED formatVars
  <2>1. /\ pieces' = pieces /\ iterator' = iterator /\ percent' = percent /\ prefix' = prefix
        /\ args' = args /\ argsMax' = argsMax /\ blocks' = blocks /\ chunksMax' = chunksMax
        /\ chunks' = chunks /\ phase' = phase
    BY <1>5 DEF formatVars
  <2>2. Taken' = Taken /\ Reading' = Reading
    BY <2>1 DEF Taken, Reading, Read, Between, Inside, Texts, Takes, format
  <2>. QED BY <1>1, <2>1, <2>2 DEF FormatIInv
<1>. QED BY <1>1, <1>2, <1>3, <1>4, <1>5 DEF FormatNext, Traced

LEMMA FormatEnsures == FormatIInv => ArgumentsArrive
<1>1. SUFFICES ASSUME FormatIInv PROVE ArgumentsArrive
  OBVIOUS
<1>2. CASE phase = "sent"
  <2>1. args = Taken /\ Taken \in Seq(Types) /\ chunks = Chunked(Grouped(Taken))
        /\ Len(chunks) + 3 <= chunksMax
    BY <1>1, <1>2 DEF FormatIInv
  <2>2. Arrived(Taken, chunks)
    BY <2>1, ChunksArrive
  <2>3. DOMAIN Taken = 1 .. Len(Taken) /\ Len(Taken) \in Nat
    BY <2>1
  <2>4. \A i \in 1 .. Len(Taken) + 1 : Offset(i) = EndsOf(ArgSizes(Taken))[i - 1]
    BY DEF Offset, ArgSizes
  <2>5. Offset(Len(Taken) + 1) = EndsOf(ArgSizes(Taken))[Len(Taken)]
    BY <2>3, <2>4
  <2>6. EndsOf([n \in DOMAIN chunks |-> chunks[n].size])[Len(chunks)] = Offset(Len(Taken) + 1)
    BY <2>2, <2>5 DEF Arrived, Sizes
  <2>7. ASSUME NEW i \in DOMAIN Taken
        PROVE  \E c \in ToSet(chunks) :
                 /\ c.kind = IF IsString(Taken[i]) THEN Taken[i] ELSE "bytes"
                 /\ c.offset <= Offset(i) /\ Offset(i + 1) <= c.offset + c.size
                 /\ IsString(Taken[i]) => c.offset = Offset(i) /\ c.size = PointerSize
    <3>1. Offset(i) = EndsOf(ArgSizes(Taken))[i - 1] /\ Offset(i + 1) = EndsOf(ArgSizes(Taken))[i]
      <4>1. i \in 1 .. Len(Taken) + 1 /\ i + 1 \in 1 .. Len(Taken) + 1 /\ (i + 1) - 1 = i
        BY <2>3
      <4>. QED BY <2>4, <4>1
    <3>. QED BY <2>2, <3>1 DEF Arrived
  <2>. QED BY <1>1, <1>2, <2>1, <2>6, <2>7 DEF FormatIInv, ArgumentsArrive
<1>3. CASE phase # "sent"
  BY <1>1, <1>3 DEF FormatIInv, ArgumentsArrive
<1>. QED BY <1>2, <1>3

\* However long the format and whatever pieces it consists of, as long as each is
\* legible, the description names the arguments that its conversions
\* take, and the chunks that Trace_Raw makes are these arguments, without a gap.
THEOREM ArgumentsAlwaysArrive == FormatSpec => []ArgumentsArrive
<1>1. FormatSpec => []FormatIInv
  BY FormatInitially, FormatStepwise, PTL DEF FormatSpec
<1>. QED BY <1>1, FormatEnsures, PTL
=============================================================================
