--------------------------- MODULE TelemetryProofs ---------------------------
(***************************************************************************)
(* Proofs about Telemetry, for every value of its constants.               *)
(***************************************************************************)
EXTENDS Telemetry, FiniteSetTheorems, SequenceTheorems, TLAPS

-----------------------------------------------------------------------------
(* What Sent gets in one call.                                             *)

\* The calls of Add that hold the lock
Adding == Inside \ {"create"}

\* The counters fill the array from its beginning.
LEMMA UsedFacts ==
  ASSUME TypeOK
  PROVE  /\ IsFiniteSet(Used) /\ Cardinality(Used) \in 0 .. MaxCounters
         /\ Used = 0 .. Cardinality(Used) - 1 /\ Used \subseteq Ids
<1>1. PICK n \in 0 .. MaxCounters : Used = 0 .. n - 1
  BY DEF TypeOK
<1>2. n \in Nat /\ MaxCounters \in Nat
  BY <1>1, TelemetryAssumption
<1>3. IsFiniteSet(0 .. n - 1) /\ Cardinality(0 .. n - 1) = n
  BY <1>2, FS_Interval
<1>. QED BY <1>1, <1>2, <1>3 DEF Ids

\* Two sequences of records, one after the other
LEMMA TwoParts ==
  ASSUME NEW a \in Seq(Records), NEW b \in Seq(Records)
  PROVE  /\ a \o b \in Seq(Records) /\ Len(a \o b) = Len(a) + Len(b)
         /\ \A i \in 1 .. Len(a) + Len(b) :
              (a \o b)[i] = IF i <= Len(a) THEN a[i] ELSE b[i - Len(a)]
BY ConcatProperties

\* Three of them
LEMMA ThreeParts ==
  ASSUME NEW a \in Seq(Records), NEW b \in Seq(Records), NEW c \in Seq(Records)
  PROVE  LET s == a \o b \o c
         IN  /\ s \in Seq(Records) /\ Len(s) = Len(a) + Len(b) + Len(c)
             /\ \A i \in 1 .. Len(a) : s[i] = a[i]
             /\ \A i \in 1 .. Len(b) : s[Len(a) + i] = b[i]
             /\ \A i \in 1 .. Len(c) : s[Len(a) + Len(b) + i] = c[i]
<1>. DEFINE d == a \o b
            s == d \o c
<1>1. Len(a) \in Nat /\ Len(b) \in Nat /\ Len(c) \in Nat
  OBVIOUS
<1>2. /\ d \in Seq(Records) /\ Len(d) = Len(a) + Len(b)
      /\ \A i \in 1 .. Len(a) + Len(b) : d[i] = IF i <= Len(a) THEN a[i] ELSE b[i - Len(a)]
  BY TwoParts
<1>. HIDE DEF d
<1>3. /\ s \in Seq(Records) /\ Len(s) = Len(d) + Len(c)
      /\ \A i \in 1 .. Len(d) + Len(c) : s[i] = IF i <= Len(d) THEN d[i] ELSE c[i - Len(d)]
  BY <1>2, TwoParts
<1>. HIDE DEF s
<1>4. ASSUME NEW i \in 1 .. Len(a)
      PROVE  s[i] = a[i]
  BY <1>1, <1>2, <1>3
<1>5. ASSUME NEW i \in 1 .. Len(b)
      PROVE  s[Len(a) + i] = b[i]
  <2>1. Len(a) + i \in 1 .. Len(d) /\ ~(Len(a) + i <= Len(a)) /\ Len(a) + i - Len(a) = i
    BY <1>1, <1>2
  <2>. QED BY <1>1, <1>2, <1>3, <2>1
<1>6. ASSUME NEW i \in 1 .. Len(c)
      PROVE  s[Len(a) + Len(b) + i] = c[i]
  <2>1. /\ Len(a) + Len(b) + i \in 1 .. Len(d) + Len(c) /\ ~(Len(a) + Len(b) + i <= Len(d))
        /\ Len(a) + Len(b) + i - Len(d) = i
    BY <1>1, <1>2
  <2>. QED BY <1>3, <2>1
<1>7. s \in Seq(Records) /\ Len(s) = Len(a) + Len(b) + Len(c)
  BY <1>2, <1>3
<1>. QED BY <1>4, <1>5, <1>6, <1>7 DEF s, d

\* The message ends with the value, if it has one; what the drops name comes
\* before it, the descriptions of all the counters there are.
LEMMA MessageFacts ==
  ASSUME TypeOK, NEW t \in Threads, call \in Used
  PROVE  LET m == Message(t)
         IN  /\ m \in Seq(Records)
             /\ "channel" \in drops => \E i \in 1 .. Len(m) : m[i] = Info
             /\ "counters" \in drops => \A c \in Used : \E i \in 1 .. Len(m) : m[i] = Desc(c)
             /\ \A i \in 1 .. Len(m) : m[i].type = "value" =>
                  /\ m[i] = Value(t, call)
                  /\ "channel" \in drops => \E j \in 1 .. i - 1 : m[j] = Info
                  /\ "counters" \in drops => \A c \in Used : \E j \in 1 .. i - 1 : m[j] = Desc(c)
<1>. DEFINE n == Cardinality(Used)
            m == Message(t)
            a == IF "channel" \in drops THEN <<Info>> ELSE <<>>
            b == IF "counters" \in drops THEN [i \in 1 .. n |-> Desc(i - 1)] ELSE <<>>
            v == Value(t, call)
            c == IF counters[call].on THEN <<v>> ELSE <<>>
<1>1. n \in Nat /\ Used = 0 .. n - 1 /\ Used \subseteq Ids
  BY UsedFacts
<1>. HIDE DEF n
<1>2. Info \in Records /\ v \in Records /\ v.type = "value" /\ Info.type = "info"
  BY <1>1 DEF TypeOK, Records, Value, Info
<1>3. \A d \in Used : Desc(d) \in Records /\ Desc(d).type = "counter"
  BY <1>1 DEF Records, Desc
<1>. HIDE DEF v
<1>4. /\ a \in Seq(Records)
      /\ \A i \in 1 .. Len(a) : a[i] = Info
      /\ "channel" \in drops => Len(a) = 1 /\ a[1] = Info
  BY <1>2
<1>5. /\ b \in Seq(Records)
      /\ \A i \in 1 .. Len(b) : \E d \in Used : b[i] = Desc(d)
      /\ "counters" \in drops => \A d \in Used : d + 1 \in 1 .. Len(b) /\ b[d + 1] = Desc(d)
  <2>1. CASE "counters" \in drops
    <3>1. \A i \in 1 .. n : i - 1 \in Used
      BY <1>1
    <3>2. b = [i \in 1 .. n |-> Desc(i - 1)]
      BY <2>1
    <3>3. b \in Seq(Records) /\ Len(b) = n /\ \A i \in 1 .. n : b[i] = Desc(i - 1)
      BY <1>1, <1>3, <3>1, <3>2
    <3>. HIDE DEF b
    <3>4. ASSUME NEW i \in 1 .. Len(b)
          PROVE  i - 1 \in Used /\ b[i] = Desc(i - 1)
      BY <3>1, <3>3
    <3>5. ASSUME NEW d \in Used
          PROVE  d + 1 \in 1 .. Len(b) /\ b[d + 1] = Desc(d)
      <4>1. d \in Nat /\ d + 1 \in 1 .. n
        BY <1>1
      <4>. DEFINE i == d + 1
      <4>2. i \in 1 .. n /\ i - 1 = d
        BY <4>1
      <4>. HIDE DEF i
      <4>3. i \in 1 .. Len(b) /\ b[i] = Desc(d)
        BY <3>3, <4>2
      <4>. QED BY <4>3 DEF i
    <3>. QED BY <3>3, <3>4, <3>5
  <2>2. CASE "counters" \notin drops
    BY <2>2
  <2>. QED BY <2>1, <2>2
<1>6. c \in Seq(Records) /\ Len(c) \in 0 .. 1 /\ \A i \in 1 .. Len(c) : c[i] = v
  BY <1>2
<1>7. m = a \o b \o c
  BY DEF Message, v, n
<1>. HIDE DEF a, b, c, m
<1>8. /\ m \in Seq(Records) /\ Len(m) = Len(a) + Len(b) + Len(c)
      /\ \A i \in 1 .. Len(a) : m[i] = a[i]
      /\ \A i \in 1 .. Len(b) : m[Len(a) + i] = b[i]
      /\ \A i \in 1 .. Len(c) : m[Len(a) + Len(b) + i] = c[i]
  BY <1>4, <1>5, <1>6, <1>7, ThreeParts
<1>9. Len(a) \in Nat /\ Len(b) \in Nat /\ Len(c) \in Nat
  BY <1>4, <1>5, <1>6
<1>10. ASSUME "channel" \in drops
       PROVE  1 \in 1 .. Len(a) + Len(b) /\ m[1] = Info
  <2>1. Len(a) = 1 /\ a[1] = Info
    BY <1>4, <1>10
  <2>2. 1 \in 1 .. Len(a) /\ 1 \in 1 .. Len(a) + Len(b)
    BY <1>9, <2>1
  <2>. QED BY <1>8, <2>1, <2>2
<1>11. ASSUME "counters" \in drops, NEW d \in Used
       PROVE  Len(a) + (d + 1) \in 1 .. Len(a) + Len(b) /\ m[Len(a) + (d + 1)] = Desc(d)
  <2>1. d + 1 \in 1 .. Len(b) /\ b[d + 1] = Desc(d)
    BY <1>5, <1>11
  <2>. QED BY <1>8, <1>9, <2>1
<1>12. ASSUME NEW i \in 1 .. Len(m), m[i].type = "value"
       PROVE  m[i] = v /\ i - 1 = Len(a) + Len(b)
  <2>1. CASE i <= Len(a)
    <3>1. i \in 1 .. Len(a)
      BY <1>9, <2>1
    <3>. QED BY <1>2, <1>4, <1>8, <1>12, <3>1
  <2>2. CASE ~(i <= Len(a)) /\ i <= Len(a) + Len(b)
    <3>. DEFINE k == i - Len(a)
    <3>1. k \in 1 .. Len(b) /\ i = Len(a) + k
      BY <1>9, <2>2
    <3>2. m[i] = b[k]
      BY <1>8, <3>1
    <3>3. b[k].type = "counter"
      BY <1>3, <1>5, <3>1
    <3>. QED BY <1>12, <3>2, <3>3
  <2>3. CASE ~(i <= Len(a) + Len(b))
    <3>. DEFINE k == i - (Len(a) + Len(b))
    <3>1. k \in 1 .. Len(c) /\ i = Len(a) + Len(b) + k
      BY <1>8, <1>9, <2>3
    <3>2. m[i] = c[k]
      BY <1>8, <3>1
    <3>. QED BY <1>6, <1>9, <3>1, <3>2
  <2>. QED BY <1>9, <2>1, <2>2, <2>3
<1>13. 1 .. Len(a) + Len(b) \subseteq 1 .. Len(m)
  BY <1>8, <1>9
<1>14. "channel" \in drops => \E i \in 1 .. Len(a) + Len(b) : m[i] = Info
  BY <1>10
<1>15. "counters" \in drops => \A d \in Used : \E i \in 1 .. Len(a) + Len(b) : m[i] = Desc(d)
  BY <1>11
<1>. QED BY <1>8, <1>12, <1>13, <1>14, <1>15 DEF m, v

-----------------------------------------------------------------------------
(* Types.                                                                  *)

\* What the call that holds the lock was called with: a counter there is, or the
\* name of a counter there is room for.
CallInv ==
  \A t \in Threads :
    /\ pc[t] \in Adding => call \in Used
    /\ pc[t] = "create" => call \in Names /\ Cardinality(Used) < MaxCounters

Typed == TypeOK /\ CallInv

\* At most one thread is inside the lock.
LEMMA OneHolder ==
  ASSUME TypeOK, NEW t \in Threads, NEW u \in Threads, pc[t] \in Inside, pc[u] \in Inside
  PROVE  u = t
BY TelemetryAssumption DEF TypeOK

\* Nobody is, while it is free.
LEMMA NobodyInside ==
  ASSUME TypeOK, lock = NoThread
  PROVE  \A t \in Threads : pc[t] \notin Inside
BY TelemetryAssumption DEF TypeOK

LEMMA TypedInit == Init => Typed
<1>. SUFFICES ASSUME Init PROVE Typed
  OBVIOUS
<1>1. <<>> \in Seq(Records)
  OBVIOUS
<1>2. Used = {} /\ 0 \in 0 .. MaxCounters /\ Used = 0 .. 0 - 1 /\ 0 \in Ids
  BY TelemetryAssumption DEF Init, Used, Ids
<1>3. \E n \in 0 .. MaxCounters : Used = 0 .. n - 1
  BY <1>2
<1>4. counters \in [Used -> [name : Names, on : BOOLEAN]]
  BY <1>2 DEF Init
<1>5. TypeOK
  BY <1>1, <1>2, <1>3, <1>4, TelemetryAssumption DEF Init, TypeOK, Undefined, Inside
<1>. QED BY <1>5 DEF Init, Typed, CallInv, Adding, Inside

\* A thread goes from one place outside the lock to another, or from one inside.
Moves(t, p) ==
  /\ pc' = [pc EXCEPT ![t] = p]
  /\ UNCHANGED lock
  /\ p \in {"idle", "test", "enter"} \cup Inside
  /\ pc[t] \in Inside <=> p \in Inside

LEMMA MoveKeepsTypes ==
  ASSUME TypeOK, NEW t \in Threads, NEW p, Moves(t, p)
  PROVE  /\ pc' \in [Threads -> {"idle", "test", "enter", "gone"} \cup Inside]
         /\ \A u \in Threads : lock' = u <=> pc'[u] \in Inside
         /\ \A u \in Threads : pc'[u] = IF u = t THEN p ELSE pc[u]
BY DEF TypeOK, Moves

\* A thread leaves the lock.
LEMMA LeaveFacts ==
  ASSUME TypeOK, NEW t \in Threads, pc[t] \in Inside, Leave(t)
  PROVE  /\ pc' \in [Threads -> {"idle", "test", "enter", "gone"} \cup Inside]
         /\ \A u \in Threads : lock' = u <=> pc'[u] \in Inside
         /\ \A u \in Threads : pc'[u] \notin Inside /\ lock' # u
<1>1. \A u \in Threads : u # t => pc[u] \notin Inside
  BY OneHolder
<1>2. "idle" \notin Inside
  BY DEF Inside
<1>. QED BY <1>1, <1>2, TelemetryAssumption DEF TypeOK, Leave

\* A new counter comes behind the others.
LEMMA AddFacts ==
  ASSUME TypeOK, call \in Names, Cardinality(Used) < MaxCounters, NEW on \in BOOLEAN, AddCounter(on)
  PROVE  /\ \E n \in 0 .. MaxCounters : Used' = 0 .. n - 1
         /\ counters' \in [Used' -> [name : Names, on : BOOLEAN]]
<1>. DEFINE n == Cardinality(Used)
<1>1. n \in 0 .. MaxCounters /\ Used = 0 .. n - 1 /\ MaxCounters \in Nat /\ n < MaxCounters
  BY UsedFacts, TelemetryAssumption
<1>. HIDE DEF n
<1>2. counters' = [i \in Used \cup {n} |-> IF i \in Used THEN counters[i] ELSE [name |-> call, on |-> on]]
  BY DEF AddCounter, n
<1>3. Used' = Used \cup {n}
  BY <1>2 DEF Used
<1>4. Used' = 0 .. (n + 1) - 1 /\ n + 1 \in 0 .. MaxCounters
  BY <1>1, <1>3
<1>5. counters' \in [Used' -> [name : Names, on : BOOLEAN]]
  BY <1>2, <1>3 DEF TypeOK
<1>. QED BY <1>4, <1>5

\* The types are kept by every step.
LEMMA TypedStep == Typed /\ [Next]_vars => Typed'
<1>. SUFFICES ASSUME TypeOK, CallInv, [Next]_vars PROVE TypeOK' /\ CallInv'
  BY DEF Typed
<1>. USE DEF clientVars, channelVars, callVars
<1>1. CASE Client
  <2>1. UNCHANGED <<status, mark, marks, counters, closed, lock, pc, call, drops, Used>>
    BY <1>1 DEF Client, Connect, Disconnect, Reset, Used
  <2>2. connected' \in BOOLEAN /\ dirty' \in BOOLEAN /\ resets' \in Nat
    <3>1. connected \in BOOLEAN /\ dirty \in BOOLEAN /\ resets \in Nat
      BY DEF TypeOK
    <3>2. CASE Connect     BY <3>1, <3>2 DEF Connect
    <3>3. CASE Disconnect  BY <3>1, <3>3 DEF Disconnect
    <3>4. CASE Reset
      <4>1. connected' = connected /\ dirty' = FALSE /\ resets' = resets + 1
        BY <3>4 DEF Reset
      <4>2. resets' \in Nat
        BY <3>1, <4>1
      <4>3. connected' \in BOOLEAN /\ dirty' \in BOOLEAN
        BY <3>1, <4>1, Zenon
      <4>. QED BY <4>2, <4>3
    <3>. QED BY <1>1, <3>2, <3>3, <3>4 DEF Client
  <2>3. stream' \in Seq(Records)
    <3>1. <<>> \in Seq(Records)
      OBVIOUS
    <3>. QED BY <1>1, <3>1 DEF Client, Connect, Disconnect, Reset, TypeOK
  <2>. QED BY <2>1, <2>2, <2>3 DEF TypeOK, CallInv
<1>2. ASSUME NEW t \in Threads, NEW p, Moves(t, p),
             UNCHANGED <<clientVars, stream, counters, closed, call>>,
             status' \in [connected : BOOLEAN, resets : Nat],
             mark' \in Nat \cup {Undefined}, marks' \in Nat \cup {Undefined},
             drops' \subseteq {"channel", "counters"},
             p \in Inside => p \in Adding /\ pc[t] \in Adding
      PROVE  TypeOK' /\ CallInv'
  <2>1. /\ pc' \in [Threads -> {"idle", "test", "enter", "gone"} \cup Inside]
        /\ \A u \in Threads : lock' = u <=> pc'[u] \in Inside
        /\ \A u \in Threads : pc'[u] = IF u = t THEN p ELSE pc[u]
    BY <1>2, MoveKeepsTypes
  <2>2. Used' = Used
    BY <1>2 DEF Used
  <2>3. TypeOK'
    BY <1>2, <2>1, <2>2 DEF TypeOK
  <2>4. CallInv'
    BY <1>2, <2>1, <2>2 DEF CallInv, Adding, Inside
  <2>. QED BY <2>3, <2>4
<1>3. ASSUME NEW t \in Threads, pc[t] \in Inside, Leave(t),
             UNCHANGED <<clientVars, status, call, drops>>,
             stream' \in Seq(Records),
             mark' \in Nat \cup {Undefined}, marks' \in Nat \cup {Undefined}, closed' \in BOOLEAN,
             \E n \in 0 .. MaxCounters : Used' = 0 .. n - 1,
             counters' \in [Used' -> [name : Names, on : BOOLEAN]]
      PROVE  TypeOK' /\ CallInv'
  <2>1. /\ pc' \in [Threads -> {"idle", "test", "enter", "gone"} \cup Inside]
        /\ \A u \in Threads : lock' = u <=> pc'[u] \in Inside
        /\ \A u \in Threads : pc'[u] \notin Inside /\ lock' # u
    BY <1>3, LeaveFacts
  <2>2. TypeOK'
    BY <1>3, <2>1 DEF TypeOK
  <2>3. CallInv'
    BY <2>1 DEF CallInv, Adding, Inside
  <2>. QED BY <2>2, <2>3
<1>4. ASSUME NEW t \in Threads, GetStatus(t) \/ TestConnected(t)
      PROVE  TypeOK' /\ CallInv'
  <2>1. \E p \in {"idle", "test", "enter"} : Moves(t, p)
    BY <1>4 DEF GetStatus, TestConnected, Moves, Inside
  <2>2. \A p \in {"idle", "test", "enter"} : p \notin Inside
    BY DEF Inside
  <2>3. status' \in [connected : BOOLEAN, resets : Nat]
    BY <1>4 DEF GetStatus, TestConnected, TypeOK
  <2>4. UNCHANGED <<clientVars, stream, channelVars, callVars>>
    BY <1>4 DEF GetStatus, TestConnected
  <2>. QED BY <1>2, <2>1, <2>2, <2>3, <2>4 DEF TypeOK
<1>5. ASSUME NEW t \in Threads, Enter(t)
      PROVE  TypeOK' /\ CallInv'
  <2>0. PICK id \in Ids :
          IF id \in Used
          THEN call' = id /\ drops' = {} /\ lock' = t /\ pc' = [pc EXCEPT ![t] = "compare"]
          ELSE pc' = [pc EXCEPT ![t] = "idle"] /\ UNCHANGED <<lock, callVars>>
    BY <1>5 DEF Enter
  <2>1. /\ UNCHANGED <<clientVars, stream, status, channelVars>> /\ lock = NoThread /\ pc[t] = "enter"
        /\ Used' = Used
    BY <1>5 DEF Enter, Used
  <2>2. CASE id \in Used
    <3>1. \A u \in Threads : pc[u] \notin Inside
      BY <2>1, NobodyInside
    <3>2. call' = id /\ drops' = {} /\ lock' = t /\ pc' = [pc EXCEPT ![t] = "compare"]
      BY <2>0, <2>2
    <3>3. \A u \in Threads : pc'[u] = IF u = t THEN "compare" ELSE pc[u]
      BY <3>2 DEF TypeOK
    <3>4. /\ pc' \in [Threads -> {"idle", "test", "enter", "gone"} \cup Inside]
          /\ \A u \in Threads : lock' = u <=> pc'[u] \in Inside
      BY <3>1, <3>2, <3>3 DEF TypeOK, Inside
    <3>5. TypeOK'
      BY <2>1, <3>2, <3>4 DEF TypeOK
    <3>6. CallInv'
      BY <2>1, <2>2, <3>1, <3>2, <3>3 DEF CallInv, Adding, Inside
    <3>. QED BY <3>5, <3>6
  <2>3. CASE id \notin Used
    <3>1. Moves(t, "idle") /\ "idle" \notin Inside /\ UNCHANGED callVars
      BY <2>0, <2>1, <2>3 DEF Moves, Inside
    <3>. QED BY <1>2, <2>1, <3>1 DEF TypeOK
  <2>. QED BY <2>2, <2>3
<1>6. ASSUME NEW t \in Threads,
             CompareChannel(t) \/ MarkChannel(t) \/ CompareCounters(t) \/ MarkCounters(t)
      PROVE  TypeOK' /\ CallInv'
  <2>1. \E p \in {"mark", "counters", "describe", "send"} :
          Moves(t, p) /\ p \in Adding /\ pc[t] \in Adding
    BY <1>6 DEF CompareChannel, MarkChannel, CompareCounters, MarkCounters, Moves, Inside, Adding
  <2>2. UNCHANGED <<clientVars, stream, status, counters, closed, call>>
    BY <1>6 DEF CompareChannel, MarkChannel, CompareCounters, MarkCounters
  <2>3. /\ mark' \in Nat \cup {Undefined} /\ marks' \in Nat \cup {Undefined}
        /\ drops' \subseteq {"channel", "counters"}
    BY <1>6 DEF CompareChannel, MarkChannel, CompareCounters, MarkCounters, TypeOK
  <2>. QED BY <1>2, <2>1, <2>2, <2>3 DEF TypeOK
<1>7. ASSUME NEW t \in Threads, NothingToSend(t) \/ SendAccepted(t) \/ SendRefused(t)
      PROVE  TypeOK' /\ CallInv'
  <2>1. /\ pc[t] = "send" /\ pc[t] \in Inside /\ Leave(t)
        /\ UNCHANGED <<clientVars, status, counters, closed, call, drops>>
    BY <1>7 DEF NothingToSend, SendAccepted, SendRefused, Inside
  <2>2. call \in Used
    BY <2>1 DEF CallInv, Adding, Inside
  <2>3. stream' \in Seq(Records)
    <3>1. stream' = stream \/ stream' = stream \o Message(t)
      BY <1>7 DEF NothingToSend, SendAccepted, SendRefused
    <3>2. Message(t) \in Seq(Records) /\ stream \in Seq(Records)
      BY <2>2, MessageFacts DEF TypeOK
    <3>. QED BY <3>1, <3>2, TwoParts
  <2>4. mark' \in Nat \cup {Undefined} /\ marks' \in Nat \cup {Undefined}
    BY <1>7 DEF NothingToSend, SendAccepted, SendRefused, TypeOK
  <2>5. Used' = Used
    BY <2>1 DEF Used
  <2>. QED BY <1>3, <2>1, <2>3, <2>4, <2>5 DEF TypeOK
<1>8. ASSUME NEW t \in Threads, CreateEnter(t)
      PROVE  TypeOK' /\ CallInv'
  <2>1. /\ lock = NoThread /\ lock' = t /\ pc' = [pc EXCEPT ![t] = "create"]
        /\ call' \in Names /\ Cardinality(Used) < MaxCounters /\ Used' = Used
        /\ UNCHANGED <<clientVars, stream, status, channelVars, drops>>
    BY <1>8 DEF CreateEnter, Used
  <2>2. \A u \in Threads : pc[u] \notin Inside
    BY <2>1, NobodyInside
  <2>3. \A u \in Threads : pc'[u] = IF u = t THEN "create" ELSE pc[u]
    BY <2>1 DEF TypeOK
  <2>4. /\ pc' \in [Threads -> {"idle", "test", "enter", "gone"} \cup Inside]
        /\ \A u \in Threads : lock' = u <=> pc'[u] \in Inside
    BY <2>1, <2>2, <2>3 DEF TypeOK, Inside
  <2>5. TypeOK'
    BY <2>1, <2>4 DEF TypeOK
  <2>6. CallInv'
    BY <2>1, <2>2, <2>3 DEF CallInv, Adding, Inside
  <2>. QED BY <2>5, <2>6
<1>9. ASSUME NEW t \in Threads, Create(t)
      PROVE  TypeOK' /\ CallInv'
  <2>1. PICK on \in BOOLEAN : AddCounter(on)
    BY <1>9 DEF Create
  <2>2. /\ pc[t] = "create" /\ pc[t] \in Inside /\ Leave(t) /\ marks' = Undefined
        /\ UNCHANGED <<clientVars, stream, status, mark, closed, call, drops>>
    BY <1>9 DEF Create, Inside
  <2>3. call \in Names /\ Cardinality(Used) < MaxCounters
    BY <2>2 DEF CallInv
  <2>4. /\ \E n \in 0 .. MaxCounters : Used' = 0 .. n - 1
        /\ counters' \in [Used' -> [name : Names, on : BOOLEAN]]
    BY <2>1, <2>3, AddFacts
  <2>. QED BY <1>3, <2>2, <2>4 DEF TypeOK
<1>10. ASSUME NEW id \in Ids, NEW on \in BOOLEAN, Enable(id, on)
       PROVE  TypeOK' /\ CallInv'
  <2>1. counters' = [counters EXCEPT ![id].on = on] /\ id \in Used
        /\ UNCHANGED <<clientVars, stream, status, mark, marks, closed, lock, pc, call, drops>>
    BY <1>10 DEF Enable
  <2>2. Used' = Used
    BY <2>1 DEF Used
  <2>3. counters' \in [Used -> [name : Names, on : BOOLEAN]]
    BY <2>1 DEF TypeOK
  <2>. QED BY <2>1, <2>2, <2>3 DEF TypeOK, CallInv
<1>11. CASE Destroy
  <2>1. Close \in Records
    BY DEF Records
  <2>2. Append(stream, Close) \in Seq(Records)
    BY <2>1, AppendProperties DEF TypeOK
  <2>3. stream' \in Seq(Records)
    BY <1>11, <2>2 DEF Destroy, TypeOK
  <2>4. /\ pc' = [t \in Threads |-> "gone"] /\ closed' \in BOOLEAN /\ Used' = Used
        /\ UNCHANGED <<clientVars, status, mark, marks, counters, lock, callVars>>
        /\ \A t \in Threads : pc[t] \notin Inside
    BY <1>11 DEF Destroy, Used, Inside
  <2>5. /\ pc' \in [Threads -> {"idle", "test", "enter", "gone"} \cup Inside]
        /\ \A u \in Threads : pc'[u] \notin Inside
    BY <2>4 DEF Inside
  <2>6. TypeOK'
    BY <2>3, <2>4, <2>5 DEF TypeOK
  <2>7. CallInv'
    BY <2>5 DEF CallInv, Adding, Inside
  <2>. QED BY <2>6, <2>7
<1>12. CASE UNCHANGED vars
  <2>1. Used' = Used
    BY <1>12 DEF vars, Used
  <2>. QED BY <1>12, <2>1 DEF vars, TypeOK, CallInv
<1>. QED BY <1>1, <1>4, <1>5, <1>6, <1>7, <1>8, <1>9, <1>10, <1>11, <1>12 DEF Next, Add

\* Every variable keeps its type, exactly the call between LOCK_ENTER and LOCK_EXIT
\* holds the lock, and the counters have no gaps.
THEOREM TypeCorrect == Spec => []TypeOK
<1>1. Typed => TypeOK
  BY DEF Typed
<1>. QED BY <1>1, TypedInit, TypedStep, PTL DEF Spec

-----------------------------------------------------------------------------
(* Marks.                                                                  *)

\* What is marked with the present value of the reset counter was sent, or is
\* about to be by the call that holds the lock.
InfoKnown ==
  mark = resets =>
    \/ Contains(stream, Info)
    \/ \E t \in Threads : pc[t] \in {"counters", "describe", "send"} /\ "channel" \in drops

CountersKnown ==
  marks = resets =>
    \/ \A c \in Used : Contains(stream, Desc(c))
    \/ \E t \in Threads : pc[t] = "send" /\ "counters" \in drops

\* No mark is ahead of the counter.
MarksLookBack == status.resets <= resets /\ mark <= resets /\ marks <= resets

MarkInv == MarksLookBack /\ InfoKnown /\ CountersKnown

Marked == Typed /\ MarkInv

LEMMA MarkedInit == Init => Marked
BY TypedInit DEF Init, Marked, MarkInv, MarksLookBack, InfoKnown, CountersKnown, Undefined

\* A message comes behind what is in the stream.
LEMMA StreamGrows ==
  ASSUME Typed, NEW t \in Threads, pc[t] \in Adding, stream' = stream \o Message(t)
  PROVE  LET n == Len(stream)
             m == Message(t)
         IN  /\ n \in Nat /\ Len(m) \in Nat
             /\ DOMAIN stream = 1 .. n /\ DOMAIN stream' = 1 .. n + Len(m)
             /\ \A i \in 1 .. n : stream'[i] = stream[i]
             /\ \A i \in 1 .. Len(m) : stream'[n + i] = m[i]
<1>. DEFINE m == Message(t)
            n == Len(stream)
<1>1. m \in Seq(Records) /\ stream \in Seq(Records)
  BY MessageFacts DEF Typed, TypeOK, CallInv
<1>2. stream' = stream \o m
  OBVIOUS
<1>. HIDE DEF m
<1>3. /\ stream' \in Seq(Records) /\ Len(stream') = n + Len(m)
      /\ \A i \in 1 .. n + Len(m) : stream'[i] = IF i <= n THEN stream[i] ELSE m[i - n]
  BY <1>1, <1>2, TwoParts
<1>4. n \in Nat /\ Len(m) \in Nat
  BY <1>1
<1>5. DOMAIN stream = 1 .. n /\ DOMAIN stream' = 1 .. n + Len(m)
  BY <1>1, <1>3
<1>. HIDE DEF n
<1>6. \A i \in 1 .. n : stream'[i] = stream[i]
  BY <1>3, <1>4
<1>7. ASSUME NEW i \in 1 .. Len(m)
      PROVE  stream'[n + i] = m[i]
  <2>. DEFINE k == n + i
  <2>1. k \in 1 .. n + Len(m) /\ ~(k <= n) /\ k - n = i
    BY <1>4
  <2>. HIDE DEF k
  <2>2. stream'[k] = m[i]
    BY <1>3, <2>1
  <2>. QED BY <2>2 DEF k
<1>. QED BY <1>4, <1>5, <1>6, <1>7 DEF m, n

\* What was in the stream and what the drops name are in it then.
LEMMA DropsAreSent ==
  ASSUME Typed, NEW t \in Threads, pc[t] \in Adding, stream' = stream \o Message(t)
  PROVE  /\ \A r : Contains(stream, r) => Contains(stream', r)
         /\ "channel" \in drops => Contains(stream', Info)
         /\ "counters" \in drops => \A c \in Used : Contains(stream', Desc(c))
<1>. DEFINE m == Message(t)
            n == Len(stream)
<1>1. /\ "channel" \in drops => \E i \in 1 .. Len(m) : m[i] = Info
      /\ "counters" \in drops => \A c \in Used : \E i \in 1 .. Len(m) : m[i] = Desc(c)
  BY MessageFacts DEF Typed, CallInv
<1>2. /\ n \in Nat /\ Len(m) \in Nat
      /\ DOMAIN stream = 1 .. n /\ DOMAIN stream' = 1 .. n + Len(m)
      /\ \A i \in 1 .. n : stream'[i] = stream[i]
      /\ \A i \in 1 .. Len(m) : stream'[n + i] = m[i]
  BY StreamGrows
<1>3. stream' \in Seq(Records) /\ Len(stream') = n + Len(m)
  <2>1. m \in Seq(Records) /\ stream \in Seq(Records)
    BY MessageFacts DEF Typed, TypeOK, CallInv
  <2>. HIDE DEF m
  <2>. QED BY <2>1, TwoParts DEF m
<1>. HIDE DEF m, n
<1>4. \A r : Contains(stream, r) <=> \E i \in 1 .. n : stream[i] = r
  BY DEF Contains, n
<1>5. \A r : Contains(stream', r) <=> \E i \in 1 .. n + Len(m) : stream'[i] = r
  BY <1>3 DEF Contains
<1>6. ASSUME NEW r, Contains(stream, r)
      PROVE  Contains(stream', r)
  <2>1. PICK i \in 1 .. n : stream[i] = r
    BY <1>4, <1>6
  <2>2. i \in 1 .. n + Len(m) /\ stream'[i] = r
    BY <1>2, <2>1
  <2>. QED BY <1>5, <2>2
<1>7. ASSUME NEW r, \E i \in 1 .. Len(m) : m[i] = r
      PROVE  Contains(stream', r)
  <2>1. PICK i \in 1 .. Len(m) : m[i] = r
    BY <1>7
  <2>2. n + i \in 1 .. n + Len(m) /\ stream'[n + i] = r
    BY <1>2, <2>1
  <2>. QED BY <1>5, <2>2
<1>. QED BY <1>1, <1>6, <1>7

\* A call that describes something has a message.
LEMMA DropsHaveMessage ==
  ASSUME Typed, NEW t \in Threads, pc[t] \in Adding, Message(t) = <<>>
  PROVE  drops = {}
<1>. DEFINE m == Message(t)
<1>1. call \in Used
  BY DEF Typed, CallInv
<1>2. /\ "channel" \in drops => \E i \in 1 .. Len(m) : m[i] = Info
      /\ "counters" \in drops => \A c \in Used : \E i \in 1 .. Len(m) : m[i] = Desc(c)
  BY <1>1, MessageFacts DEF Typed
<1>3. Len(m) = 0
  OBVIOUS
<1>. HIDE DEF m
<1>4. "channel" \notin drops /\ "counters" \notin drops
  BY <1>1, <1>2, <1>3
<1>. QED BY <1>4 DEF Typed, TypeOK

\* No step leaves a mark for what the client has not got.
LEMMA MarkedStep == Marked /\ [Next]_vars => Marked'
<1>. SUFFICES ASSUME Marked, [Next]_vars PROVE MarkInv'
  BY TypedStep DEF Marked
<1>. USE DEF clientVars, channelVars, callVars
<1>0. /\ Typed /\ TypeOK /\ Typed' /\ MarksLookBack /\ InfoKnown /\ CountersKnown
      /\ resets \in Nat /\ status.resets \in Nat
      /\ mark \in Nat \cup {Undefined} /\ marks \in Nat \cup {Undefined}
  BY TypedStep DEF Marked, MarkInv, Typed, TypeOK
<1>1. ASSUME UNCHANGED <<resets, stream, mark, marks, drops, Used>>, status'.resets <= resets,
             \A t \in Threads : pc[t] \in {"counters", "describe", "send"} =>
                                  pc'[t] \in {"counters", "describe", "send"},
             \A t \in Threads : pc[t] = "send" => pc'[t] = "send"
      PROVE  MarkInv'
  <2>1. MarksLookBack'
    BY <1>0, <1>1 DEF MarksLookBack
  <2>2. InfoKnown'
    BY <1>0, <1>1 DEF InfoKnown
  <2>3. CountersKnown'
    BY <1>0, <1>1 DEF CountersKnown
  <2>. QED BY <2>1, <2>2, <2>3 DEF MarkInv
<1>2. CASE Connect \/ Reset
  <2>1. resets' = resets + 1 /\ UNCHANGED <<status, mark, marks>>
    BY <1>2 DEF Connect, Reset
  <2>2. mark' # resets' /\ marks' # resets'
    BY <1>0, <2>1 DEF MarksLookBack, Undefined
  <2>3. MarksLookBack'
    BY <1>0, <2>1 DEF MarksLookBack, Undefined
  <2>. QED BY <2>2, <2>3 DEF MarkInv, InfoKnown, CountersKnown
<1>3. CASE Disconnect
  <2>1. UNCHANGED <<resets, stream, status, mark, marks, drops, Used, pc>>
    BY <1>3 DEF Disconnect, Used
  <2>. QED BY <1>0, <1>1, <2>1 DEF MarksLookBack
<1>4. ASSUME NEW t \in Threads, GetStatus(t) \/ TestConnected(t)
      PROVE  MarkInv'
  <2>1. /\ UNCHANGED <<resets, stream, mark, marks, drops, Used>>
        /\ pc[t] \in {"idle", "test"}
        /\ \E p : pc' = [pc EXCEPT ![t] = p]
    BY <1>4 DEF GetStatus, TestConnected, Used
  <2>2. status'.resets <= resets
    BY <1>0, <1>4 DEF GetStatus, TestConnected, MarksLookBack
  <2>3. \A u \in Threads : u # t => pc'[u] = pc[u]
    BY <1>0, <2>1 DEF TypeOK
  <2>. QED BY <1>1, <2>1, <2>2, <2>3
<1>5. ASSUME NEW t \in Threads, Enter(t)
      PROVE  MarkInv'
  <2>1. /\ UNCHANGED <<resets, stream, status, mark, marks, Used>> /\ lock = NoThread
        /\ \E p : pc' = [pc EXCEPT ![t] = p]
    BY <1>5 DEF Enter, Used
  <2>2. \A u \in Threads : pc[u] \notin Inside
    BY <1>0, <2>1, NobodyInside
  <2>3. \A u \in Threads : pc[u] \notin {"counters", "describe", "send"}
    BY <2>2 DEF Inside
  <2>4. (mark = resets => Contains(stream, Info))
        /\ (marks = resets => \A c \in Used : Contains(stream, Desc(c)))
    BY <1>0, <2>3 DEF InfoKnown, CountersKnown
  <2>. QED BY <1>0, <2>1, <2>4 DEF MarkInv, MarksLookBack, InfoKnown, CountersKnown
<1>6. ASSUME NEW t \in Threads, pc[t] \in Inside
      PROVE  \A u \in Threads : u # t => pc[u] \notin Inside
  BY <1>0, <1>6, OneHolder
<1>7. ASSUME NEW t \in Threads, CompareChannel(t) \/ CompareCounters(t)
      PROVE  MarkInv'
  <2>1. /\ UNCHANGED <<resets, stream, status, mark, marks, drops, Used>>
        /\ pc[t] \in {"compare", "counters"}
        /\ pc[t] = "counters" => pc' = [pc EXCEPT ![t] = "describe"] \/ pc' = [pc EXCEPT ![t] = "send"]
        /\ \E p : pc' = [pc EXCEPT ![t] = p]
    BY <1>7 DEF CompareChannel, CompareCounters, Used
  <2>2. \A u \in Threads : u # t => pc'[u] = pc[u]
    BY <1>0, <2>1 DEF TypeOK
  <2>3. pc[t] = "counters" => pc'[t] \in {"describe", "send"}
    BY <1>0, <2>1 DEF TypeOK
  <2>4. \A u \in Threads : pc[u] \in {"counters", "describe", "send"} =>
                             pc'[u] \in {"counters", "describe", "send"}
    BY <2>1, <2>2, <2>3
  <2>5. \A u \in Threads : pc[u] = "send" => pc'[u] = "send"
    BY <2>1, <2>2
  <2>. QED BY <1>0, <1>1, <2>1, <2>4, <2>5 DEF MarksLookBack
<1>8. ASSUME NEW t \in Threads, MarkChannel(t)
      PROVE  MarkInv'
  <2>1. /\ pc[t] = "mark" /\ mark' = status.resets /\ drops' = {"channel"}
        /\ pc' = [pc EXCEPT ![t] = "counters"] /\ UNCHANGED <<resets, stream, status, marks, Used>>
    BY <1>8 DEF MarkChannel, Used
  <2>2. pc'[t] = "counters"
    BY <1>0, <2>1 DEF TypeOK
  <2>3. MarksLookBack' /\ InfoKnown'
    BY <1>0, <2>1, <2>2 DEF MarksLookBack, InfoKnown
  <2>4. \A u \in Threads : pc[u] # "send"
    BY <1>6, <2>1 DEF Inside
  <2>5. CountersKnown'
    BY <1>0, <2>1, <2>4 DEF CountersKnown
  <2>. QED BY <2>3, <2>5 DEF MarkInv
<1>9. ASSUME NEW t \in Threads, MarkCounters(t)
      PROVE  MarkInv'
  <2>1. /\ pc[t] = "describe" /\ marks' = status.resets /\ drops' = drops \cup {"counters"}
        /\ pc' = [pc EXCEPT ![t] = "send"] /\ UNCHANGED <<resets, stream, status, mark, Used>>
    BY <1>9 DEF MarkCounters, Used
  <2>2. pc'[t] = "send"
    BY <1>0, <2>1 DEF TypeOK
  <2>3. MarksLookBack' /\ CountersKnown'
    BY <1>0, <2>1, <2>2 DEF MarksLookBack, CountersKnown
  <2>4. InfoKnown'
    BY <1>0, <2>1, <2>2 DEF InfoKnown
  <2>. QED BY <2>3, <2>4 DEF MarkInv
<1>10. ASSUME NEW t \in Threads, pc[t] = "send"
       PROVE  /\ pc[t] \in Adding /\ pc[t] \in Inside
              /\ mark = resets => Contains(stream, Info) \/ "channel" \in drops
              /\ marks = resets => (\A c \in Used : Contains(stream, Desc(c))) \/ "counters" \in drops
  BY <1>0, <1>10 DEF InfoKnown, CountersKnown, Adding, Inside
<1>11. ASSUME NEW t \in Threads, NothingToSend(t)
       PROVE  MarkInv'
  <2>1. /\ pc[t] = "send" /\ Message(t) = <<>>
        /\ UNCHANGED <<resets, stream, status, mark, marks, drops, Used>>
    BY <1>11 DEF NothingToSend, Used
  <2>2. drops = {}
    BY <1>0, <1>10, <2>1, DropsHaveMessage
  <2>. QED BY <1>0, <1>10, <2>1, <2>2 DEF MarkInv, MarksLookBack, InfoKnown, CountersKnown
<1>12. ASSUME NEW t \in Threads, SendAccepted(t)
       PROVE  MarkInv'
  <2>1. /\ pc[t] = "send" /\ stream' = stream \o Message(t)
        /\ UNCHANGED <<resets, status, mark, marks, drops, Used>>
    BY <1>12 DEF SendAccepted, Used
  <2>2. /\ \A r : Contains(stream, r) => Contains(stream', r)
        /\ "channel" \in drops => Contains(stream', Info)
        /\ "counters" \in drops => \A c \in Used : Contains(stream', Desc(c))
    BY <1>0, <1>10, <2>1, DropsAreSent
  <2>3. InfoKnown'
    BY <1>10, <2>1, <2>2 DEF InfoKnown, Info
  <2>4. CountersKnown'
    BY <1>10, <2>1, <2>2 DEF CountersKnown, Desc
  <2>. QED BY <1>0, <2>1, <2>3, <2>4 DEF MarkInv, MarksLookBack
<1>13. ASSUME NEW t \in Threads, SendRefused(t)
       PROVE  MarkInv'
  <2>1. /\ pc[t] = "send"
        /\ mark' = (IF "channel" \in drops THEN Undefined ELSE mark)
        /\ marks' = (IF "counters" \in drops THEN Undefined ELSE marks)
        /\ UNCHANGED <<resets, stream, status, Used>>
    BY <1>13 DEF SendRefused, Used
  <2>2. MarksLookBack'
    BY <1>0, <2>1 DEF MarksLookBack, Undefined
  <2>3. mark' = resets' => Contains(stream', Info)
    BY <1>0, <1>10, <2>1 DEF Undefined
  <2>4. marks' = resets' => \A c \in Used' : Contains(stream', Desc(c))
    BY <1>0, <1>10, <2>1 DEF Undefined
  <2>. QED BY <2>2, <2>3, <2>4 DEF MarkInv, InfoKnown, CountersKnown, Info, Desc
<1>14. ASSUME NEW t \in Threads, CreateEnter(t)
       PROVE  MarkInv'
  <2>1. /\ UNCHANGED <<resets, stream, status, mark, marks, drops, Used>> /\ lock = NoThread
        /\ pc' = [pc EXCEPT ![t] = "create"]
    BY <1>14 DEF CreateEnter, Used
  <2>2. \A u \in Threads : pc[u] \notin Inside
    BY <1>0, <2>1, NobodyInside
  <2>3. \A u \in Threads : pc[u] \notin {"counters", "describe", "send"} /\ pc[u] # "send"
    BY <2>2 DEF Inside
  <2>. QED BY <1>0, <1>1, <2>1, <2>3 DEF MarksLookBack
<1>15. ASSUME NEW t \in Threads, Create(t)
       PROVE  MarkInv'
  <2>1. /\ UNCHANGED <<resets, stream, status, mark>> /\ marks' = Undefined /\ pc[t] = "create"
    BY <1>15 DEF Create
  <2>2. \A u \in Threads : pc[u] \notin {"counters", "describe", "send"}
    BY <1>6, <2>1 DEF Inside
  <2>3. mark = resets => Contains(stream, Info)
    BY <1>0, <2>2 DEF InfoKnown
  <2>. QED BY <1>0, <2>1, <2>3 DEF MarkInv, MarksLookBack, InfoKnown, CountersKnown, Undefined
<1>16. ASSUME NEW id \in Ids, NEW on \in BOOLEAN, Enable(id, on)
       PROVE  MarkInv'
  <2>1. UNCHANGED <<resets, stream, status, mark, marks, drops, pc, Used>>
    BY <1>16 DEF Enable, Used
  <2>. QED BY <1>0, <1>1, <2>1 DEF MarksLookBack
<1>17. CASE Destroy
  <2>1. /\ UNCHANGED <<resets, status, mark, marks, Used>>
        /\ stream' = stream \/ stream' = Append(stream, Close)
        /\ \A t \in Threads : pc[t] \notin {"counters", "describe", "send"}
    BY <1>17 DEF Destroy, Used
  <2>2. stream \in Seq(Records) /\ stream' \in Seq(Records)
    BY <1>0 DEF Typed, TypeOK
  <2>3. ASSUME NEW r, Contains(stream, r)
        PROVE  Contains(stream', r)
    BY <2>1, <2>2, <2>3 DEF Contains
  <2>4. mark = resets => Contains(stream', Info)
    BY <1>0, <2>1, <2>3 DEF InfoKnown
  <2>5. marks = resets => \A c \in Used : Contains(stream', Desc(c))
    BY <1>0, <2>1, <2>3 DEF CountersKnown
  <2>. QED BY <1>0, <2>1, <2>4, <2>5 DEF MarkInv, MarksLookBack, InfoKnown, CountersKnown, Info, Desc
<1>18. CASE UNCHANGED vars
  <2>1. UNCHANGED <<resets, stream, status, mark, marks, drops, pc, Used>>
    BY <1>18 DEF vars, Used
  <2>. QED BY <1>0, <1>1, <2>1 DEF MarksLookBack
<1>. QED BY <1>2, <1>3, <1>4, <1>5, <1>7, <1>8, <1>9, <1>11, <1>12, <1>13, <1>14, <1>15, <1>16,
            <1>17, <1>18 DEF Next, Client, Add

LEMMA MarkedAlways == Spec => []Marked
BY MarkedInit, MarkedStep, PTL DEF Spec

\* Whatever threads add, create, fail to send or are overtaken by resets: what a
\* channel believes the server has got was accepted since the last reset, for
\* every counter there is.
THEOREM MarksTrue == Spec => []MarksAreTrue
<1>1. Marked => MarksAreTrue
  <2>. SUFFICES ASSUME Marked, lock = NoThread
                PROVE  /\ mark = resets => Contains(stream, Info)
                       /\ marks = resets => \A i \in Used : Contains(stream, Desc(i))
    BY DEF MarksAreTrue
  <2>1. \A t \in Threads : pc[t] \notin Inside
    BY NobodyInside DEF Marked, Typed
  <2>2. \A t \in Threads : pc[t] \notin {"counters", "describe", "send"}
    BY <2>1 DEF Inside
  <2>. QED BY <2>2 DEF Marked, MarkInv, InfoKnown, CountersKnown
<1>. QED BY <1>1, MarkedAlways, PTL

-----------------------------------------------------------------------------
(* Values.                                                                 *)

\* A value that is added behind descriptions that were sent before, or that come
\* with it, is described.
LEMMA AcceptedIsDescribed ==
  ASSUME Marked, FreshIsDescribed, NEW t \in Threads, SendAccepted(t)
  PROVE  FreshIsDescribed'
<1>. DEFINE m == Message(t)
            n == Len(stream)
<1>1. pc[t] = "send" /\ pc[t] \in Adding /\ stream' = stream \o m /\ call \in Used
  BY DEF SendAccepted, Adding, Inside, Marked, Typed, CallInv
<1>2. /\ n \in Nat /\ Len(m) \in Nat
      /\ DOMAIN stream = 1 .. n /\ DOMAIN stream' = 1 .. n + Len(m)
      /\ \A i \in 1 .. n : stream'[i] = stream[i]
      /\ \A i \in 1 .. Len(m) : stream'[n + i] = m[i]
  BY <1>1, StreamGrows DEF Marked
<1>3. \A i \in 1 .. Len(m) : m[i].type = "value" =>
        /\ m[i] = Value(t, call)
        /\ "channel" \in drops => \E j \in 1 .. i - 1 : m[j] = Info
        /\ "counters" \in drops => \A c \in Used : \E j \in 1 .. i - 1 : m[j] = Desc(c)
  BY <1>1, MessageFacts DEF Marked, Typed
<1>4. /\ mark = resets => Contains(stream, Info) \/ "channel" \in drops
      /\ marks = resets => (\A c \in Used : Contains(stream, Desc(c))) \/ "counters" \in drops
  BY <1>1 DEF Marked, MarkInv, InfoKnown, CountersKnown
<1>5. \A r : Contains(stream, r) <=> \E i \in 1 .. n : stream[i] = r
  BY DEF Contains
<1>. HIDE DEF m, n
<1>6. ASSUME NEW i \in 1 .. n, NEW r, \E j \in 1 .. i - 1 : stream[j] = r
      PROVE  \E j \in 1 .. i - 1 : stream'[j] = r
  <2>1. PICK j \in 1 .. i - 1 : stream[j] = r
    BY <1>6
  <2>2. stream'[j] = r
    BY <1>2, <2>1
  <2>. QED BY <2>2
<1>7. ASSUME NEW k \in 1 .. Len(m), NEW r, Contains(stream, r) \/ \E j \in 1 .. k - 1 : m[j] = r
      PROVE  \E j \in 1 .. n + k - 1 : stream'[j] = r
  <2>1. CASE Contains(stream, r)
    <3>1. PICK j \in 1 .. n : stream[j] = r
      BY <1>5, <2>1
    <3>2. j \in 1 .. n + k - 1 /\ stream'[j] = r
      BY <1>2, <3>1
    <3>. QED BY <3>2
  <2>2. CASE \E j \in 1 .. k - 1 : m[j] = r
    <3>1. PICK j \in 1 .. k - 1 : m[j] = r
      BY <2>2
    <3>2. n + j \in 1 .. n + k - 1 /\ stream'[n + j] = r
      BY <1>2, <3>1
    <3>. QED BY <3>2
  <2>. QED BY <1>7, <2>1, <2>2
<1>8. ASSUME NEW i \in ValueAt', stream'[i].fresh
      PROVE  /\ \E j \in 1 .. i - 1 : stream'[j] = Info
             /\ \E j \in 1 .. i - 1 : stream'[j] = Desc(stream'[i].id)
  <2>1. i \in 1 .. n + Len(m) /\ stream'[i].type = "value"
    BY <1>2 DEF ValueAt
  <2>2. CASE i <= n
    <3>1. i \in 1 .. n /\ stream'[i] = stream[i] /\ i \in ValueAt
      BY <1>2, <2>1, <2>2 DEF ValueAt
    <3>2. Described(i)
      BY <1>8, <3>1 DEF FreshIsDescribed
    <3>. QED BY <1>6, <3>1, <3>2 DEF Described, SentBefore
  <2>3. CASE ~(i <= n)
    <3>. DEFINE k == i - n
    <3>1. k \in 1 .. Len(m) /\ i = n + k
      BY <1>2, <2>1, <2>3
    <3>. HIDE DEF k
    <3>2. stream'[i] = m[k]
      BY <1>2, <3>1
    <3>3. /\ stream'[i] = Value(t, call)
          /\ "channel" \in drops => \E j \in 1 .. k - 1 : m[j] = Info
          /\ "counters" \in drops => \A c \in Used : \E j \in 1 .. k - 1 : m[j] = Desc(c)
      BY <1>3, <2>1, <3>1, <3>2
    <3>4. mark = resets /\ marks = resets /\ stream'[i].id = call
      <4>1. Value(t, call).fresh = (mark = resets /\ marks = resets) /\ Value(t, call).id = call
        BY Zenon DEF Value
      <4>. QED BY <1>8, <3>3, <4>1
    <3>5. Contains(stream, Info) \/ \E j \in 1 .. k - 1 : m[j] = Info
      BY <1>4, <3>3, <3>4
    <3>6. Contains(stream, Desc(call)) \/ \E j \in 1 .. k - 1 : m[j] = Desc(call)
      BY <1>1, <1>4, <3>3, <3>4
    <3>7. \E j \in 1 .. n + k - 1 : stream'[j] = Info
      BY <1>7, <3>1, <3>5
    <3>8. \E j \in 1 .. n + k - 1 : stream'[j] = Desc(call)
      BY <1>7, <3>1, <3>6
    <3>9. n + k - 1 = i - 1
      BY <1>2, <3>1
    <3>. QED BY <3>4, <3>7, <3>8, <3>9, Zenon
  <2>. QED BY <1>2, <2>1, <2>2, <2>3
<1>. QED BY <1>8 DEF FreshIsDescribed, Described, SentBefore, Info, Desc

LEMMA FreshStep == Marked /\ FreshIsDescribed /\ [Next]_vars => FreshIsDescribed'
<1>. SUFFICES ASSUME Marked, FreshIsDescribed, [Next]_vars PROVE FreshIsDescribed'
  OBVIOUS
<1>1. CASE UNCHANGED stream
  BY <1>1 DEF FreshIsDescribed, ValueAt, Described, SentBefore, Info, Desc
<1>2. CASE Reset
  <2>1. ValueAt' = {}
    BY <1>2 DEF Reset, ValueAt
  <2>. QED BY <2>1 DEF FreshIsDescribed
<1>3. ASSUME NEW t \in Threads, SendAccepted(t)
      PROVE  FreshIsDescribed'
  BY <1>3, AcceptedIsDescribed
<1>4. CASE Destroy /\ stream' = Append(stream, Close)
  <2>1. stream \in Seq(Records)
    BY DEF Marked, Typed, TypeOK
  <2>. DEFINE n == Len(stream)
  <2>2. /\ n \in Nat /\ DOMAIN stream = 1 .. n /\ DOMAIN stream' = 1 .. n + 1
        /\ stream'[n + 1] = Close /\ \A i \in 1 .. n : stream'[i] = stream[i]
    BY <1>4, <2>1
  <2>. HIDE DEF n
  <2>3. ASSUME NEW i \in ValueAt'
        PROVE  i \in 1 .. n /\ i \in ValueAt /\ stream'[i] = stream[i]
    <3>1. i \in 1 .. n + 1 /\ stream'[i].type = "value"
      BY <2>2 DEF ValueAt
    <3>2. Close.type # "value"
      BY DEF Close
    <3>3. i \in 1 .. n
      BY <2>2, <3>1, <3>2
    <3>. QED BY <2>2, <3>1, <3>3 DEF ValueAt
  <2>4. ASSUME NEW i \in ValueAt', stream'[i].fresh
        PROVE  /\ \E j \in 1 .. i - 1 : stream'[j] = Info
               /\ \E j \in 1 .. i - 1 : stream'[j] = Desc(stream'[i].id)
    <3>1. i \in 1 .. n /\ stream'[i] = stream[i] /\ Described(i)
      BY <2>3, <2>4 DEF FreshIsDescribed
    <3>2. \A j \in 1 .. i - 1 : j \in 1 .. n /\ stream'[j] = stream[j]
      BY <2>2, <3>1
    <3>. QED BY <3>1, <3>2 DEF Described, SentBefore
  <2>. QED BY <2>4 DEF FreshIsDescribed, Described, SentBefore, Info, Desc
<1>5. Reset \/ UNCHANGED stream \/ (\E t \in Threads : SendAccepted(t))
      \/ (Destroy /\ stream' = Append(stream, Close))
  BY DEF Next, Client, Add, vars, channelVars, callVars, Connect, Disconnect, GetStatus, TestConnected,
         Enter, CompareChannel, MarkChannel, CompareCounters, MarkCounters, NothingToSend,
         SendRefused, CreateEnter, Create, Enable, Destroy
<1>. QED BY <1>1, <1>2, <1>3, <1>4, <1>5

\* A value that was accepted under the counter its marks were compared with comes
\* after the information of the channel and the description of its counter.
THEOREM FreshDescribed == Spec => []FreshIsDescribed
<1>1. Init => FreshIsDescribed
  BY DEF Init, FreshIsDescribed, ValueAt
<1>. QED BY <1>1, MarkedInit, MarkedStep, FreshStep, PTL DEF Spec
=============================================================================
