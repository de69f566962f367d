----------------------------- MODULE PartsProofs -----------------------------
(***************************************************************************)
(* Proofs about the parts that the protocol is built from, for every value *)
(* of their constants.  Lifecycle: what a thread of the client uses is     *)
(* there while it runs, and nothing is left behind.  WindowReport: what is *)
(* read of a report was written into it.  Resolver: users wait as long as  *)
(* the slowest lookup has taken.  AList: the links of the list stay whole  *)
(* in both directions, and its users have a sequence.                      *)
(***************************************************************************)
EXTENDS Lifecycle, WindowReport, Resolver, AList, FiniteSetTheorems, SequenceTheorems,
        WellFoundedInduction, TLAPS

-----------------------------------------------------------------------------
(* The life of a client.                                                   *)

Runs(state) == state \notin {"none", "gone"}

\* The steps of the constructor before the channel thread is there
BeforeChnl    == {"base", "log", "winsock", "socket", "pool", "members", "comm event",
                  "comm thread", "chnl event", "chnl thread"}

\* The steps of the destructor after which something is released for good
AfterExits    == {"join comm", "join chnl", "return packets", "release socket",
                  "release pool", "release log", "gone"}
AfterComm     == AfterExits \ {"join comm"}
AfterChnl     == AfterComm \ {"join chnl"}
AfterPackets  == AfterChnl \ {"return packets"}
AfterSocket   == AfterPackets \ {"release socket"}
AfterPool     == AfterSocket \ {"release pool"}

Total(f) == f["pool"] + f["out"] + f["in"] + f["window"] + f["received"] + f["taken"]

\* Every packet is somewhere, and only a thread that runs holds one.
PacketsKept ==
  /\ packets \in [Places -> Nat]
  /\ Total(packets) = Packets
  /\ comm \in {"none", "gone"} => packets["received"] = 0
  /\ chnl # "dispatch" => packets["taken"] = 0
  /\ main \in AfterPackets \/ "pool" \notin made =>
       packets["out"] = 0 /\ packets["in"] = 0 /\ packets["window"] = 0
  /\ "pool" \notin made => packets["received"] = 0 /\ packets["taken"] = 0

\* What there is before each step of the constructor
Building ==
  /\ main \in {"base", "log"} => made = {}
  /\ main = "winsock" => made \subseteq {"log"}
  /\ main = "socket" => made \subseteq {"log", "winsock"} /\ "winsock" \in made
  /\ main = "pool" => made \subseteq {"log", "winsock", "socket"} /\ {"winsock", "socket"} \subseteq made
  /\ main = "members" => {"winsock", "socket", "pool"} \subseteq made
  /\ main = "comm event" => CommUses \ {"commEvent"} \subseteq made
  /\ main = "comm thread" => CommUses \subseteq made
  /\ main \in {"chnl event", "chnl thread"} => CommUses \cup {"commThread"} \subseteq made
  /\ main = "chnl thread" => "chnlEvent" \in made
  /\ main \in BeforeChnl => chnl = "none"
  /\ (main = "return" /\ status = "OK") \/ main = "application" =>
       CommUses \cup ChnlUses \cup {"commThread", "chnlThread"} \subseteq made

\* What is gone after each step of the destructor
Releasing ==
  /\ made \subseteq CommUses \cup ChnlUses \cup {"commThread", "chnlThread", "log", "shared"}
  /\ main \in AfterExits => "shared" \notin made
  /\ main \in AfterComm => "commThread" \notin made
  /\ main \in AfterChnl => "chnlThread" \notin made
  /\ main \in AfterPackets => made \cap Queues = {}
  /\ main \in AfterSocket => made \cap {"winsock", "socket"} = {}
  /\ main \in AfterPool => "pool" \notin made
  /\ main = "gone" => made = {}

\* A thread that runs has not been joined, and has what it uses.
Served ==
  /\ Runs(comm) => CommUses \cup {"commThread"} \subseteq made
  /\ Runs(chnl) => ChnlUses \cup {"chnlThread"} \subseteq made

\* The client, its socket and its pool hold the journal.
JournalKept ==
  journalRefs = IF "log" \notin made THEN 0
                ELSE 1 + (IF "socket" \in made THEN 1 ELSE 0)
                       + (IF "pool" \in made THEN 1 ELSE 0)

IInv == PacketsKept /\ Building /\ Releasing /\ Served /\ JournalKept

-----------------------------------------------------------------------------
(* Where packets go.                                                       *)

LEMMA Carrying ==
  ASSUME packets \in [Places -> Nat], NEW from \in Places, NEW to \in Places,
         from # to, packets[from] > 0
  PROVE  /\ Carried(from, to) \in [Places -> Nat]
         /\ Carried(from, to)[from] = packets[from] - 1
         /\ Carried(from, to)[to] = packets[to] + 1
         /\ \A p \in Places \ {from, to} : Carried(from, to)[p] = packets[p]
  BY DEF Carried

\* No packet is lost on the way, and none the channel thread has taken is touched.
LEMMA TotalStays ==
  ASSUME packets \in [Places -> Nat], packets' \in [Places -> Nat],
         \/ packets' = packets
         \/ \E from, to \in Places \ {"taken"} :
              from # to /\ packets[from] > 0 /\ packets' = Carried(from, to)
         \/ \E places \in SUBSET {"out", "window", "received"} : packets' = Returned(places)
  PROVE  Total(packets') = Total(packets) /\ packets'["taken"] = packets["taken"]
<1>1. \A p \in Places : packets[p] \in Nat /\ packets'[p] \in Nat
  OBVIOUS
<1>2. ASSUME NEW from \in Places \ {"taken"}, NEW to \in Places \ {"taken"}, from # to,
             packets[from] > 0, packets' = Carried(from, to)
      PROVE  Total(packets') = Total(packets) /\ packets'["taken"] = packets["taken"]
  <2>1. /\ packets'[from] = packets[from] - 1 /\ packets'[to] = packets[to] + 1
        /\ \A p \in Places \ {from, to} : packets'[p] = packets[p]
    BY <1>2, Carrying
  <2>. QED BY <1>1, <1>2, <2>1 DEF Total, Places, Queues
<1>3. ASSUME NEW places \in SUBSET {"out", "window", "received"}, packets' = Returned(places)
      PROVE  Total(packets') = Total(packets) /\ packets'["taken"] = packets["taken"]
  BY <1>1, <1>3 DEF Returned, Total, Places, Queues
<1>. QED BY <1>2, <1>3

LEMMA ReturnedType ==
  ASSUME packets \in [Places -> Nat], NEW places
  PROVE  Returned(places) \in [Places -> Nat]
  BY DEF Returned, Places, Queues

-----------------------------------------------------------------------------
(* The inductive invariant.                                                *)

LEMMA InvInit == LifecycleInit => IInv
  BY LifecycleAssumption
  DEF LifecycleInit, Total, IInv, PacketsKept, Building, Releasing, Served, JournalKept, Runs,
      Places, Queues, AfterExits, AfterComm, AfterChnl, AfterPackets, AfterSocket, AfterPool

\* A step of the constructor
LEMMA ConstructorStep == IInv /\ Constructor => IInv'
<1>. SUFFICES ASSUME IInv, Constructor PROVE IInv'
  OBVIOUS
<1>. USE DEF IInv, PacketsKept, Building, Releasing, Served, JournalKept, Runs,
      Queues, Members, CommUses, ChnlUses, Makes, Fails, Kept, signalVars, commVars,
      BeforeChnl, AfterExits, AfterComm, AfterChnl, AfterPackets, AfterSocket, AfterPool
<1>1. CASE InitBase       BY <1>1 DEF InitBase
<1>2. CASE InitLog
  <2>. USE <1>2 DEF InitLog
  <2>1. PacketsKept'  OBVIOUS
  <2>2. Building'     OBVIOUS
  <2>3. Releasing'    OBVIOUS
  <2>4. Served'       OBVIOUS
  <2>5. JournalKept'  OBVIOUS
  <2>. QED BY <2>1, <2>2, <2>3, <2>4, <2>5 DEF IInv
<1>3. CASE InitWinsock    BY <1>3 DEF InitWinsock
<1>4. CASE InitSocket
  <2>. USE <1>4 DEF InitSocket
  <2>1. PacketsKept'  OBVIOUS
  <2>2. Building'     OBVIOUS
  <2>3. Releasing'    OBVIOUS
  <2>4. Served'       OBVIOUS
  <2>5. JournalKept'  OBVIOUS
  <2>. QED BY <2>1, <2>2, <2>3, <2>4, <2>5 DEF IInv
<1>5. CASE InitPool       BY <1>5 DEF InitPool
<1>6. CASE InitMembers    BY <1>6 DEF InitMembers
<1>7. CASE InitCommEvent  BY <1>7 DEF InitCommEvent
<1>8. CASE StartComm      BY <1>8 DEF StartComm
<1>9. CASE InitChnlEvent  BY <1>9 DEF InitChnlEvent
<1>10. CASE StartChnl
  <2>. USE <1>10 DEF StartChnl
  <2>1. PacketsKept'  OBVIOUS
  <2>2. Building'     OBVIOUS
  <2>3. Releasing'    OBVIOUS
  <2>4. Served'       OBVIOUS
  <2>5. JournalKept'  OBVIOUS
  <2>. QED BY <2>1, <2>2, <2>3, <2>4, <2>5 DEF IInv
<1>11. CASE CreateReturns BY <1>11 DEF CreateReturns
<1>. QED
  BY <1>1, <1>2, <1>3, <1>4, <1>5, <1>6, <1>7, <1>8, <1>9, <1>10, <1>11 DEF Constructor

\* A step of the application
LEMMA ApplicationStep == IInv /\ Application => IInv'
<1>. SUFFICES ASSUME IInv, Application PROVE IInv'
  OBVIOUS
<1>. USE DEF IInv, Building, Releasing, Served, JournalKept, Runs, Queues, CommUses, ChnlUses,
      Makes, signalVars, commVars, ownerVars,
      BeforeChnl, AfterExits, AfterComm, AfterChnl, AfterPackets, AfterSocket, AfterPool
<1>1. CASE AddOwner      BY <1>1 DEF AddOwner, PacketsKept
<1>2. CASE ReleaseOwner  BY <1>2 DEF ReleaseOwner, PacketsKept
<1>3. CASE OwnerShares   BY <1>3 DEF OwnerShares, PacketsKept
<1>4. CASE OwnerSends
  <2>. USE <1>4 DEF OwnerSends
  <2>1. /\ packets' \in [Places -> Nat]
        /\ packets'["pool"] = packets["pool"] - 1
        /\ packets'["out"] = packets["out"] + 1
        /\ \A p \in Places \ {"pool", "out"} : packets'[p] = packets[p]
    BY Carrying, {"pool", "out"} \subseteq Places DEF PacketsKept, Places
  <2>2. PacketsKept'
    BY <2>1 DEF Total, PacketsKept, Places
  <2>. QED BY <2>2
<1>. QED BY <1>1, <1>2, <1>3, <1>4 DEF Application

\* The journal is let go with the socket and the pool, and last by the client.
LEMMA JournalReleased ==
  ASSUME IInv, ReleaseSocket \/ ReleasePool \/ ReleaseRest PROVE JournalKept'
<1>1. JournalKept
  BY DEF IInv
<1>2. CASE ReleaseSocket
  <2>1. journalRefs' = IF "socket" \in made /\ "log" \in made THEN journalRefs - 1 ELSE journalRefs
    BY <1>2 DEF ReleaseSocket, LetGo
  <2>2. /\ "log" \in made' <=> "log" \in made
        /\ "pool" \in made' <=> "pool" \in made
        /\ "socket" \notin made'
    BY <1>2 DEF ReleaseSocket
  <2>. QED BY <1>1, <2>1, <2>2 DEF JournalKept
<1>3. CASE ReleasePool
  <2>1. journalRefs' = IF "pool" \in made /\ "log" \in made THEN journalRefs - 1 ELSE journalRefs
    BY <1>3 DEF ReleasePool, LetGo
  <2>2. /\ "log" \in made' <=> "log" \in made
        /\ "pool" \notin made' /\ "socket" \notin made /\ "socket" \notin made'
    BY <1>3 DEF ReleasePool, IInv, Releasing, AfterSocket, AfterPackets, AfterChnl, AfterComm,
      AfterExits
  <2>. QED BY <1>1, <2>1, <2>2 DEF JournalKept
<1>4. CASE ReleaseRest
  <2>1. journalRefs' = IF "log" \in made THEN journalRefs - 1 ELSE journalRefs
    BY <1>4 DEF ReleaseRest, LetGo
  <2>2. "log" \notin made' /\ "pool" \notin made /\ "socket" \notin made
    BY <1>4 DEF ReleaseRest, IInv, Releasing, AfterPool, AfterSocket, AfterPackets, AfterChnl,
      AfterComm, AfterExits
  <2>. QED BY <1>1, <2>1, <2>2 DEF JournalKept
<1>. QED BY <1>2, <1>3, <1>4

\* All packets of the queues return to the pool.
LEMMA QueuesReturned ==
  ASSUME IInv, ReturnPackets
  PROVE  PacketsKept'
<1>. DEFINE f == Returned(Queues)
<1>1. packets \in [Places -> Nat]
  BY DEF IInv, PacketsKept
<1>2. f \in [Places -> Nat]
  BY <1>1 DEF Returned, Places, Queues
<1>3. f["pool"] = packets["pool"] + packets["out"] + packets["in"] + packets["window"]
  BY <1>1 DEF Returned, Places, Queues
<1>4. f["out"] = 0 /\ f["in"] = 0 /\ f["window"] = 0
  BY DEF Returned, Places, Queues
<1>5. f["received"] = packets["received"] /\ f["taken"] = packets["taken"]
  BY DEF Returned, Places, Queues
<1>6. packets' = f /\ comm' = comm /\ chnl' = chnl /\ ("pool" \notin made' => "pool" \notin made)
  BY DEF ReturnPackets, commVars, Queues
<1>7. /\ packets["pool"] + packets["out"] + packets["in"] + packets["window"]
           + packets["received"] + packets["taken"] = Packets
      /\ \A p \in Places : packets[p] \in Nat
  BY <1>1 DEF Total, IInv, PacketsKept
<1>. HIDE DEF f
<1>. QED BY <1>1, <1>2, <1>3, <1>4, <1>5, <1>6, <1>7 DEF Total, IInv, PacketsKept, Places, Queues

\* A step of the destructor
LEMMA DestructorStep == IInv /\ Destructor => IInv'
<1>. SUFFICES ASSUME IInv, Destructor PROVE IInv'
  OBVIOUS
<1>. USE DEF IInv, Building, Releasing, Served, JournalKept, Runs, Queues, Members,
      CommUses, ChnlUses, LetGo, signalVars, commVars,
      BeforeChnl, AfterExits, AfterComm, AfterChnl, AfterPackets, AfterSocket, AfterPool
<1>1. CASE SetExits       BY <1>1 DEF SetExits, PacketsKept
<1>2. CASE JoinComm       BY <1>2 DEF JoinComm, PacketsKept
<1>3. CASE JoinChnl       BY <1>3 DEF JoinChnl, PacketsKept
<1>4. CASE ReturnPackets
  <2>. USE <1>4 DEF ReturnPackets
  <2>1. Building' /\ Served' /\ JournalKept'
    OBVIOUS
  <2>2. Releasing'
    OBVIOUS
  <2>. QED BY <2>1, <2>2, QueuesReturned
<1>5. CASE ReleaseSocket
  <2>. USE <1>5 DEF ReleaseSocket
  <2>1. PacketsKept' /\ Building' /\ Served'
    BY DEF PacketsKept
  <2>2. Releasing'
    OBVIOUS
  <2>. QED BY <2>1, <2>2, JournalReleased
<1>6. CASE ReleasePool
  <2>. USE <1>6 DEF ReleasePool
  <2>1. ~Runs(comm) /\ ~Runs(chnl)
    OBVIOUS
  <2>2. PacketsKept'
    BY <2>1 DEF PacketsKept
  <2>3. Building' /\ Served'
    BY <2>1
  <2>4. Releasing'
    OBVIOUS
  <2>. QED BY <2>2, <2>3, <2>4, JournalReleased
<1>7. CASE ReleaseRest
  <2>. USE <1>7 DEF ReleaseRest
  <2>1. PacketsKept' /\ Building' /\ Served'
    BY DEF PacketsKept
  <2>2. Releasing'
    OBVIOUS
  <2>. QED BY <2>1, <2>2, JournalReleased
<1>. QED BY <1>1, <1>2, <1>3, <1>4, <1>5, <1>6, <1>7 DEF Destructor

\* A step of a thread, of the application that makes a client again, or of time moves
\* packets and changes nothing that was made: the rest of the invariant stays.
LEMMA RestStays ==
  ASSUME IInv, UNCHANGED ownerVars,
         chnl' = chnl \/ (Runs(chnl) /\ chnl' # "none"),
         comm' = comm \/ (Runs(comm) /\ comm' # "none")
  PROVE  Building' /\ Releasing' /\ Served' /\ JournalKept'
<1>. USE DEF IInv, ownerVars
<1>1. Building'
  BY DEF Building, Runs, BeforeChnl
<1>2. Releasing'
  BY DEF Releasing
<1>3. Served'
  BY DEF Served, Runs
<1>4. JournalKept'
  BY DEF JournalKept
<1>. QED BY <1>1, <1>2, <1>3, <1>4

\* A thread that holds packets has a pool they came from, and runs before the queues
\* are emptied.
LEMMA QueuesAreThere ==
  ASSUME IInv, Runs(comm) \/ Runs(chnl)
  PROVE  "pool" \in made /\ main \notin AfterPackets
  BY DEF IInv, Served, Releasing, CommUses, ChnlUses, Members, Queues, AfterPackets, AfterChnl,
     AfterComm, AfterExits

\* A step of the communication thread
LEMMA CommStep == IInv /\ CommRoutine => IInv'
<1>. SUFFICES ASSUME IInv, CommRoutine PROVE IInv'
  OBVIOUS
<1>1. Runs(comm) /\ UNCHANGED ownerVars /\ chnl' = chnl /\ comm' # "none"
  BY DEF CommRoutine, Runs, CommAwakes, CommPrepares, CommReceivesNothing, CommReceives,
     CommReceivesCommands, CommSends, CommDecides, CommLeaves, commVars
<1>2. "pool" \in made' /\ main' \notin AfterPackets
  BY <1>1, QueuesAreThere DEF ownerVars
<1>3. packets \in [Places -> Nat] /\ Total(packets) = Packets
  BY DEF IInv, PacketsKept
<1>4. /\ packets' \in [Places -> Nat]
      /\ Total(packets') = Total(packets) /\ packets'["taken"] = packets["taken"]
  <2>1. \/ packets' = packets
        \/ \E from, to \in Places \ {"taken"} :
             from # to /\ packets[from] > 0 /\ packets' = Carried(from, to)
        \/ \E places \in SUBSET {"out", "window", "received"} : packets' = Returned(places)
    <3>. USE DEF Places, Queues
    <3>1. CASE CommAwakes \/ CommReceivesNothing
      BY <3>1 DEF CommAwakes, CommReceivesNothing
    <3>2. CASE CommPrepares
      BY <3>2 DEF CommPrepares
    <3>3. CASE CommReceives
      BY <3>3 DEF CommReceives
    <3>4. CASE CommReceivesCommands
      BY <3>4 DEF CommReceivesCommands
    <3>5. CASE CommSends
      BY <3>5 DEF CommSends
    <3>6. CASE CommDecides
      BY <3>6 DEF CommDecides
    <3>7. CASE CommLeaves
      BY <3>7 DEF CommLeaves
    <3>. QED BY <3>1, <3>2, <3>3, <3>4, <3>5, <3>6, <3>7 DEF CommRoutine
  <2>2. packets' \in [Places -> Nat]
    BY <1>3, <2>1, Carrying, ReturnedType
  <2>. QED BY <1>3, <2>1, <2>2, TotalStays
<1>5. comm' = "gone" => packets'["received"] = 0
  <2>1. comm' = "gone" => CommLeaves
    BY <1>1 DEF CommRoutine, Runs, CommAwakes, CommPrepares, CommReceivesNothing, CommReceives,
       CommReceivesCommands, CommSends, CommDecides, commVars
  <2>. QED BY <2>1 DEF CommLeaves, Returned, Places, Queues
<1>6. chnl # "dispatch" => packets["taken"] = 0
  BY DEF IInv, PacketsKept
<1>7. PacketsKept'
  BY <1>1, <1>2, <1>3, <1>4, <1>5, <1>6 DEF PacketsKept, Runs
<1>. QED BY <1>1, <1>7, RestStays DEF IInv

\* A step of the channel thread
LEMMA ChnlStep == IInv /\ ChnlRoutine => IInv'
<1>. SUFFICES ASSUME IInv, ChnlRoutine PROVE IInv'
  OBVIOUS
<1>1. Runs(chnl) /\ UNCHANGED ownerVars /\ comm' = comm /\ chnl' # "none"
  BY DEF ChnlRoutine, Runs, ChnlAwakes, ChnlTakes, ChnlReturns, commVars
<1>2. "pool" \in made' /\ main' \notin AfterPackets
  BY <1>1, QueuesAreThere DEF ownerVars
<1>3. PacketsKept
  BY DEF IInv
<1>4. CASE ChnlAwakes
  <2>1. PacketsKept'
    BY <1>1, <1>2, <1>3, <1>4 DEF ChnlAwakes, PacketsKept
  <2>. QED BY <1>1, <2>1, RestStays DEF IInv
<1>5. CASE ChnlTakes
  <2>1. CASE packets["in"] = 0
    BY <1>1, <1>2, <1>3, <1>5, <2>1, RestStays DEF ChnlTakes, PacketsKept, IInv
  <2>2. CASE packets["in"] # 0
    <3>1. packets["in"] > 0 /\ packets' = Carried("in", "taken") /\ chnl' = "dispatch"
      BY <1>3, <1>5, <2>2 DEF ChnlTakes, PacketsKept, Places, Queues
    <3>2. /\ packets' \in [Places -> Nat]
          /\ packets'["in"] = packets["in"] - 1 /\ packets'["taken"] = packets["taken"] + 1
          /\ \A p \in Places \ {"in", "taken"} : packets'[p] = packets[p]
      BY <3>1, <1>3, Carrying DEF PacketsKept, Places, Queues
    <3>3. PacketsKept'
      BY <1>1, <1>2, <1>3, <3>1, <3>2 DEF Total, PacketsKept, Places, Queues
    <3>. QED BY <1>1, <3>3, RestStays DEF IInv
  <2>. QED BY <2>1, <2>2
<1>6. CASE ChnlReturns
  <2>1. /\ packets' \in [Places -> Nat]
        /\ packets'["pool"] = packets["pool"] + packets["taken"] /\ packets'["taken"] = 0
        /\ \A p \in Places \ {"pool", "taken"} : packets'[p] = packets[p]
    BY <1>3, <1>6 DEF ChnlReturns, Returned, PacketsKept, Places, Queues
  <2>2. PacketsKept'
    BY <1>1, <1>2, <1>3, <2>1 DEF Total, PacketsKept, Places, Queues
  <2>. QED BY <1>1, <2>2, RestStays DEF IInv
<1>. QED BY <1>4, <1>5, <1>6 DEF ChnlRoutine

\* The next client begins with a pool that has all of its packets.
LEMMA AgainStep == IInv /\ CreateAgain => IInv'
<1>. SUFFICES ASSUME IInv, CreateAgain PROVE IInv'
  OBVIOUS
<1>. USE DEF IInv, CreateAgain
<1>1. made = {} /\ made' = {}
  BY DEF Releasing
<1>2. PacketsKept'
  BY <1>1 DEF PacketsKept, AfterPackets, AfterChnl, AfterComm, AfterExits
<1>3. Building' /\ Releasing' /\ Served' /\ JournalKept'
  BY <1>1 DEF Building, Releasing, Served, JournalKept, Runs, BeforeChnl, AfterPool,
     AfterSocket, AfterPackets, AfterChnl, AfterComm, AfterExits
<1>. QED BY <1>2, <1>3

LEMMA InvStep == IInv /\ [LifecycleNext]_lifecycleVars => IInv'
<1>. SUFFICES ASSUME IInv, [LifecycleNext]_lifecycleVars PROVE IInv'
  OBVIOUS
<1>1. CASE Tick \/ UNCHANGED lifecycleVars
  <2>1. UNCHANGED <<ownerVars, comm, chnl, packets>>
    BY <1>1 DEF Tick, lifecycleVars, ownerVars, commVars
  <2>2. PacketsKept'
    BY <2>1 DEF IInv, PacketsKept, ownerVars
  <2>. QED BY <2>1, <2>2, RestStays DEF IInv
<1>. QED
  BY <1>1, ConstructorStep, ApplicationStep, DestructorStep, CommStep, ChnlStep, AgainStep
  DEF LifecycleNext

\* The invariant contains what the run checks.
LEMMA InvIsEnough == IInv => MadeWhileUsed
<1>. SUFFICES ASSUME IInv PROVE MadeWhileUsed
  OBVIOUS
<1>. USE DEF IInv
<1>1. Runs(comm) => CommUses \subseteq made
  BY DEF Served
<1>2. Runs(chnl) => ChnlUses \subseteq made
  BY DEF Served
<1>3. main = "application" =>
        CommUses \cup ChnlUses \cup {"commThread", "chnlThread"} \subseteq made
  BY DEF Building
<1>4. "pool" \notin made => packets["pool"] = Packets
  BY DEF Total, PacketsKept, Places, Queues
<1>5. main = "gone" => made = {} /\ journalRefs = 0
  BY DEF Releasing, JournalKept
<1>. QED BY <1>1, <1>2, <1>3, <1>4, <1>5 DEF MadeWhileUsed, Runs

\* Whichever step of the constructor fails and whenever the last owner lets go, for any
\* number of packets: a thread of the client finds what it uses, and the destructor
\* leaves nothing, no packet that is missing, no journal.
THEOREM NothingIsMissing == LifecycleSpec => []MadeWhileUsed
  BY InvInit, InvStep, InvIsEnough, PTL DEF LifecycleSpec

-----------------------------------------------------------------------------
(* The report on a window.                                                 *)

\* The bits of a report are those of the packets that are marked in it.
ReportInv ==
  /\ firstId \in PacketIds
  /\ bits \in [0 .. Bytes - 1 -> SUBSET (0 .. 7)]
  /\ \A id \in PacketIds : IsId(id) <=> id \in marked

\* Where a packet has its bit
BitOf(id) == IdDifference(firstId, id)

\* Two packets have two distances from the first one, all of them below the number
\* of IDs, and so they have two bits.
LEMMA DistanceFacts ==
  ASSUME NEW start \in PacketIds
  PROVE  /\ \A id \in PacketIds : IdDifference(start, id) \in 0 .. MaxReportId - 1
         /\ \A a, b \in PacketIds : IdDifference(start, a) = IdDifference(start, b) => a = b
BY WindowReportAssumption DEF PacketIds, IdDifference

LEMMA BitFacts ==
  ASSUME NEW a \in Nat, NEW b \in Nat
  PROVE  /\ a < Bytes * 8 => a \div 8 \in 0 .. Bytes - 1 /\ a % 8 \in 0 .. 7
         /\ a \div 8 = b \div 8 /\ a % 8 = b % 8 => a = b
BY WindowReportAssumption

\* In an empty report no bit is found for any distance.
LEMMA NoBitIsFound ==
  ASSUME NEW d \in Nat, d < Bytes * 8
  PROVE  d % 8 \notin NoBits[d \div 8]
BY BitFacts DEF NoBits

LEMMA ReportInvInit == ReportInit => ReportInv
<1>. SUFFICES ASSUME ReportInit PROVE ReportInv
  OBVIOUS
<1>1. \A id \in PacketIds : ~IsId(id)
  BY DistanceFacts, NoBitIsFound DEF ReportInit, IsId, Fits
<1>. QED BY <1>1 DEF ReportInit, ReportInv, NoBits

LEMMA ReportInvStep == ReportInv /\ [ReportNext]_reportVars => ReportInv'
<1>. SUFFICES ASSUME ReportInv, [ReportNext]_reportVars PROVE ReportInv'
  OBVIOUS
<1>1. CASE ClrIds
  <2>1. firstId' \in PacketIds /\ bits' = NoBits /\ marked' = {}
    BY <1>1 DEF ClrIds
  <2>2. \A id \in PacketIds : IdDifference(firstId', id) \in Nat
    BY <2>1, DistanceFacts
  <2>3. \A id \in PacketIds : ~IsId(id)'
    BY <2>1, <2>2, NoBitIsFound DEF IsId, Fits
  <2>. QED BY <2>1, <2>3 DEF ReportInv, NoBits
<1>2. ASSUME NEW new \in PacketIds, SetId(new)
      PROVE  ReportInv'
  <2>. DEFINE o == BitOf(new)
  <2>1. /\ firstId' = firstId /\ marked' = marked \cup {new}
        /\ o < Bytes * 8 /\ bits' = [bits EXCEPT ![o \div 8] = @ \cup {o % 8}]
    BY <1>2 DEF SetId, Fits, BitOf
  <2>2. o \in Nat /\ o \div 8 \in 0 .. Bytes - 1 /\ o % 8 \in 0 .. 7
    BY <2>1, DistanceFacts, BitFacts DEF ReportInv, BitOf
  <2>3. bits' \in [0 .. Bytes - 1 -> SUBSET (0 .. 7)]
    BY <2>1, <2>2 DEF ReportInv
  <2>4. ASSUME NEW id \in PacketIds
        PROVE  IsId(id)' <=> id \in marked'
    <3>. DEFINE d == BitOf(id)
    <3>1. d \in Nat /\ (d = o => id = new)
      BY DistanceFacts DEF ReportInv, BitOf
    <3>2. IsId(id) <=> d < Bytes * 8 /\ d % 8 \in bits[d \div 8]
      BY DEF IsId, Fits, BitOf
    <3>3. IsId(id)' <=> d < Bytes * 8 /\ d % 8 \in bits'[d \div 8]
      BY <2>1 DEF IsId, Fits, BitOf, IdDifference
    <3>4. IsId(id) <=> id \in marked
      BY DEF ReportInv
    <3>. HIDE DEF d, o
    <3>5. CASE d = o
      BY <2>1, <2>2, <3>1, <3>3, <3>5 DEF ReportInv
    <3>6. CASE d # o /\ d < Bytes * 8
      <4>1. d \div 8 \in 0 .. Bytes - 1 /\ ~(d \div 8 = o \div 8 /\ d % 8 = o % 8)
        BY <2>2, <3>1, <3>6, BitFacts
      <4>2. d % 8 \in bits'[d \div 8] <=> d % 8 \in bits[d \div 8]
        BY <2>1, <2>2, <4>1 DEF ReportInv
      <4>3. id # new
        BY <3>6 DEF d, o
      <4>. QED BY <2>1, <3>2, <3>3, <3>4, <4>2, <4>3
    <3>7. CASE ~(d < Bytes * 8)
      <4>1. id # new
        BY <2>1, <3>7 DEF d, o
      <4>. QED BY <2>1, <3>2, <3>3, <3>4, <3>7, <4>1
    <3>. QED BY <3>5, <3>6, <3>7
  <2>. QED BY <2>1, <2>3, <2>4 DEF ReportInv
<1>3. CASE UNCHANGED reportVars
  BY <1>3 DEF reportVars, ReportInv, IsId, Fits, IdDifference
<1>. QED BY <1>1, <1>2, <1>3 DEF ReportNext

\* The n-th packet from the first one is at the distance n.
LEMMA NthPacket ==
  ASSUME firstId \in PacketIds, NEW n \in 0 .. MaxReportId - 1
  PROVE  LET id == ((firstId - 1 + n) % MaxReportId) + 1
         IN  id \in PacketIds /\ BitOf(id) = n
<1>. DEFINE x == firstId - 1 + n
<1>1. MaxReportId \in Nat \ {0} /\ firstId \in 1 .. MaxReportId /\ x \in Nat
  BY WindowReportAssumption DEF PacketIds
<1>2. CASE x < MaxReportId
  <2>1. x % MaxReportId = x
    BY <1>1, <1>2
  <2>. QED BY <1>1, <1>2, <2>1 DEF PacketIds, BitOf, IdDifference
<1>3. CASE ~(x < MaxReportId)
  <2>. DEFINE y == x - MaxReportId
  <2>1. y \in 0 .. MaxReportId - 1 /\ x = MaxReportId + y
    BY <1>1, <1>3
  <2>2. (MaxReportId + y) % MaxReportId = y
    <3>. HIDE DEF y, x
    <3>. QED BY <1>1, <2>1
  <2>3. x % MaxReportId = y
    BY <2>1, <2>2
  <2>. QED BY <1>1, <1>3, <2>1, <2>3 DEF PacketIds, BitOf, IdDifference
<1>. QED BY <1>2, <1>3

\* What is read of a report is what was written into it, wherever the IDs start over
\* and however many bytes the report has.
THEOREM ReportsAreTrue == ReportSpec => []ReportIsTrue
<1>1. ReportInv => ReportIsTrue
  <2>. SUFFICES ASSUME ReportInv, NEW n \in 0 .. MaxReportId - 1
                PROVE  LET id == ((firstId - 1 + n) % MaxReportId) + 1
                       IN  /\ Fits(id) <=> n < Bytes * 8
                           /\ IsId(id) <=> id \in marked
    BY DEF ReportIsTrue
  <2>. QED BY NthPacket DEF ReportInv, Fits, BitOf
<1>. QED BY <1>1, ReportInvInit, ReportInvStep, PTL DEF ReportSpec

-----------------------------------------------------------------------------
(* The time-out of the resolver.                                           *)

TimesTypeOK ==
  /\ tick \in Nat /\ slowest \in Nat
  /\ waitMax \in TimeOutMin .. TimeOutMax \cup {-1}

\* The longest wait after a lookup that took so long
LongestAfter(t) == IF t > waitMax THEN Clamped(t) ELSE waitMax

\* The last lookup is part of what users wait for, or Adjust is going to make it so.
TimesInv ==
  /\ TimesTypeOK
  /\ tick <= slowest
  /\ waitMax >= 0 => timeOut = waitMax
  /\ LongestAfter(tick) \in Clamped(slowest - 1) .. Clamped(slowest)
  /\ thread # "adjust" =>
       IF waitMax >= 0 THEN waitMax \in Clamped(slowest - 1) .. Clamped(slowest) ELSE slowest = 0

\* The ticks between two readings of the counter: one is lost where it wraps.
LEMMA TicksLost ==
  ASSUME NEW start \in 0 .. TickModulus - 1, NEW d \in 0 .. TickModulus - 1
  PROVE  LET t == Difference((start + d) % TickModulus, start)
         IN  t \in Nat /\ t \in d - 1 .. d
<1>. DEFINE m == TickModulus
            x == start + d
<1>1. m \in Nat \ {0} /\ x \in Nat
  BY ResolverAssumption
<1>2. CASE x < m
  <2>1. x % m = x
    BY <1>1, <1>2
  <2>. QED BY <1>1, <2>1 DEF Difference
<1>3. CASE ~(x < m)
  <2>. DEFINE y == x - m
  <2>1. y \in 0 .. m - 1 /\ x = m + y /\ y < start
    BY <1>1, <1>3
  <2>2. (m + y) % m = y
    <3>. HIDE DEF m, y
    <3>. QED BY <1>1, <2>1
  <2>3. x % m = y
    BY <2>1, <2>2
  <2>4. (m - 1 - start) + y = d - 1 /\ d - 1 \in 0 .. m - 1
    BY <1>1, <2>1
  <2>5. (d - 1) % m = d - 1
    <3>. HIDE DEF m, y
    <3>. QED BY <1>1, <2>4
  <2>. QED BY <1>1, <2>1, <2>3, <2>4, <2>5 DEF Difference
<1>. QED BY <1>2, <1>3

\* Clamping keeps the order.
LEMMA ClampedFacts ==
  /\ \A t \in Int : Clamped(t) \in TimeOutMin .. TimeOutMax
  /\ \A t \in TimeOutMin .. TimeOutMax : Clamped(t) = t
  /\ \A s, t \in Int : s <= t => Clamped(s) <= Clamped(t)
BY ResolverAssumption DEF Clamped

\* The longest wait so far is kept, or the lookup that took longer takes its place.
LEMMA LookupFacts ==
  ASSUME TimesInv, thread # "adjust", NEW d \in Nat, NEW t \in Nat, t \in d - 1 .. d
  PROVE  LET s == Longer(slowest, d)
         IN  s \in Nat /\ t <= s /\ LongestAfter(t) \in Clamped(s - 1) .. Clamped(s)
<1>. DEFINE s == Longer(slowest, d)
<1>1. /\ s \in Nat /\ s >= d /\ s >= slowest /\ s \in {slowest, d} /\ t <= s
      /\ slowest \in Nat /\ waitMax \in TimeOutMin .. TimeOutMax \cup {-1}
      /\ IF waitMax >= 0 THEN waitMax \in Clamped(slowest - 1) .. Clamped(slowest) ELSE slowest = 0
  BY DEF TimesInv, TimesTypeOK, Longer
<1>. HIDE DEF s
<1>2. TimeOutMin \in Nat /\ TimeOutMax \in Nat /\ TimeOutMin <= TimeOutMax
  BY ResolverAssumption
<1>3. LongestAfter(t) \in Clamped(s - 1) .. Clamped(s)
  BY <1>1, <1>2 DEF LongestAfter, Clamped
<1>. QED BY <1>1, <1>3 DEF s

LEMMA TimesInit == ResolverInit => TimesInv
BY ResolverAssumption DEF ResolverInit, TimesInv, TimesTypeOK, LongestAfter, Clamped

LEMMA TimesStep == TimesInv /\ [ResolverNext]_resolverVars => TimesInv'
<1>. SUFFICES ASSUME TimesInv, [ResolverNext]_resolverVars PROVE TimesInv'
  OBVIOUS
<1>. USE DEF storeVars, userVars, threadVars
<1>1. ASSUME UNCHANGED <<tick, slowest, waitMax, timeOut>>,
             thread' = "adjust" \/ (thread # "adjust" /\ thread' # "adjust")
      PROVE  TimesInv'
  BY <1>1 DEF TimesInv, TimesTypeOK, LongestAfter
<1>2. CASE Lookup
  <2>1. PICK resolved \in BOOLEAN, start \in 0 .. TickModulus - 1, d \in Durations :
          /\ tick' = IF resolved THEN Difference((start + d) % TickModulus, start) ELSE 0
          /\ slowest' = IF resolved THEN Longer(slowest, d) ELSE slowest
    BY <1>2 DEF Lookup, ResolveSA
  <2>2. thread # "adjust" /\ thread' = "adjust" /\ waitMax' = waitMax /\ timeOut' = timeOut
    BY <1>2 DEF Lookup
  <2>3. d \in Nat /\ d \in 0 .. TickModulus - 1
    BY ResolverAssumption
  <2>4. /\ slowest' \in Nat /\ tick' \in Nat /\ tick' <= slowest'
        /\ LongestAfter(tick') \in Clamped(slowest' - 1) .. Clamped(slowest')
    <3>1. CASE resolved
      <4>1. tick' \in Nat /\ tick' \in d - 1 .. d /\ slowest' = Longer(slowest, d)
        BY <2>1, <2>3, <3>1, TicksLost
      <4>. QED BY <2>2, <2>3, <4>1, LookupFacts
    <3>2. CASE ~resolved
      <4>1. tick' = 0 /\ slowest' = slowest /\ Longer(slowest, 0) = slowest /\ 0 \in 0 - 1 .. 0
        BY <2>1, <3>2 DEF TimesInv, TimesTypeOK, Longer
      <4>. QED BY <2>2, <4>1, LookupFacts
    <3>. QED BY <3>1, <3>2
  <2>5. LongestAfter(tick)' = LongestAfter(tick')
    BY <2>2 DEF LongestAfter
  <2>. QED BY <2>2, <2>4, <2>5 DEF TimesInv, TimesTypeOK
<1>3. CASE Adjust
  <2>1. /\ UNCHANGED <<tick, slowest>>
        /\ waitMax' = LongestAfter(tick)
        /\ timeOut' = IF tick > waitMax THEN waitMax' ELSE timeOut
    BY <1>3 DEF Adjust, LongestAfter
  <2>2. waitMax' \in TimeOutMin .. TimeOutMax /\ waitMax' \in Nat
    BY <2>1, ClampedFacts, ResolverAssumption DEF TimesInv, TimesTypeOK, LongestAfter
  <2>3. waitMax' >= 0 => timeOut' = waitMax'
    BY <2>1 DEF TimesInv, TimesTypeOK, LongestAfter
  <2>4. LongestAfter(tick)' = waitMax'
    BY <2>1, <2>2, ClampedFacts, ResolverAssumption DEF TimesInv, TimesTypeOK, LongestAfter, Clamped
  <2>. QED BY <2>1, <2>2, <2>3, <2>4 DEF TimesInv, TimesTypeOK
<1>4. ASSUME NEW u \in Users, Queue(u) \/ Waited(u) \/ ReadName(u) \/ \E a \in Addresses : Ask(u, a)
      PROVE  TimesInv'
  <2>1. UNCHANGED <<thread, tick, slowest, waitMax, timeOut>>
    BY <1>4 DEF Queue, Waited, ReadName, Ask
  <2>. QED BY <1>1, <2>1
<1>5. CASE WakeExit \/ WakeRequest \/ WakeIdle \/ Take \/ Walk \/ Refresh
  <2>1. UNCHANGED <<tick, slowest, waitMax, timeOut>> /\ thread # "adjust"
    BY <1>5 DEF WakeExit, WakeRequest, WakeIdle, Take, Walk, Refresh
  <2>. QED BY <1>1, <2>1
<1>6. CASE ExitSignal \/ Destroy \/ UNCHANGED resolverVars
  <2>1. UNCHANGED <<thread, tick, slowest, waitMax, timeOut>>
    BY <1>6 DEF ExitSignal, Destroy, resolverVars
  <2>. QED BY <1>1, <2>1
<1>. QED BY <1>2, <1>3, <1>4, <1>5, <1>6 DEF ResolverNext, Routine

\* However long lookups take and wherever the counter of ticks wraps, users wait as
\* long as the slowest one that succeeded has taken, within the limits.
THEOREM TimeOutIsSlowest == ResolverSpec => []TimeOutTracksSlowest
<1>1. TimesInv => TimeOutTracksSlowest
  BY DEF TimesInv, TimeOutTracksSlowest
<1>. QED BY <1>1, TimesInit, TimesStep, PTL DEF ResolverSpec
-----------------------------------------------------------------------------
(* The linked list.  Its inductive invariant names the chain and the spare *)
(* cells as sequences; Follow, which reads them along the links, is shown  *)
(* to find exactly these.                                                  *)

\* A set of numbers that is not empty has a least one.
LEMMA LeastNat ==
  ASSUME NEW S \in SUBSET Nat, S # {}
  PROVE  \E n \in S : \A k \in S : n <= k
<1>. DEFINE Less == {ss \in Nat \X Nat : ss[1] < ss[2]}
<1>1. IsWellFoundedOn(Less, Nat)
  BY NatLessThanWellFounded DEF OpToRel
<1>2. PICK n \in S : \A k \in S : ~(<<k, n>> \in Less)
  BY <1>1, WFMin
<1>3. ASSUME NEW k \in S
      PROVE  n <= k
  <2>1. <<k, n>> \in Nat \X Nat
    OBVIOUS
  <2>2. ~(k < n)
    BY <1>2, <2>1
  <2>. QED BY <2>2
<1>. QED BY <1>3

\* What a link leads to
Targets == Cells \cup {Null}

\* One turn of the walk, by what the turns before it found
Turn(links, dir, walk, n) ==
  [x \in Targets |-> IF x = Null \/ n = 0 THEN <<>> ELSE <<x>> \o walk[n - 1][links[x][dir]]]

Walks(links, dir, most, walk) == walk = [n \in 0 .. most |-> Turn(links, dir, walk, n)]

\* The recursive function of Follow exists: there is a walk of every length.
LEMMA WalkExists ==
  ASSUME NEW links, NEW dir, NEW most \in Nat
  PROVE  \E walk : Walks(links, dir, most, walk)
<1>. DEFINE Bad == {n \in Nat : ~\E walk : Walks(links, dir, n, walk)}
<1>1. SUFFICES ASSUME Bad # {} PROVE FALSE
  OBVIOUS
<1>2. Bad \in SUBSET Nat
  OBVIOUS
<1>3. PICK n \in Bad : \A k \in Bad : n <= k
  BY <1>1, <1>2, LeastNat
<1>4. CASE n = 0
  <2>. DEFINE walk == [k \in 0 .. 0 |-> Turn(links, dir, <<>>, 0)]
  <2>1. \A k \in 0 .. 0 : Turn(links, dir, walk, k) = Turn(links, dir, <<>>, 0)
    BY DEF Turn
  <2>2. walk = [k \in 0 .. 0 |-> Turn(links, dir, walk, k)]
    BY <2>1
  <2>. QED BY <1>4, <2>2 DEF Walks
<1>5. CASE n # 0
  <2>1. n - 1 \in Nat /\ n - 1 \notin Bad
    BY <1>3, <1>5
  <2>2. PICK before : Walks(links, dir, n - 1, before)
    BY <2>1
  <2>. DEFINE walk == [k \in 0 .. n |-> Turn(links, dir, before, k)]
  <2>3. \A k \in 0 .. n - 1 : walk[k] = before[k]
    BY <2>1, <2>2 DEF Walks
  <2>. HIDE DEF walk
  <2>4. ASSUME NEW k \in 0 .. n
        PROVE  Turn(links, dir, before, k) = Turn(links, dir, walk, k)
    <3>1. k # 0 => k - 1 \in 0 .. n - 1
      BY <2>1
    <3>. QED BY <2>3, <3>1 DEF Turn
  <2>5. walk = [k \in 0 .. n |-> Turn(links, dir, walk, k)]
    BY <2>4 DEF walk
  <2>. QED BY <2>5 DEF Walks
<1>. QED BY <1>4, <1>5

\* The cells can be counted, and NULL is none of them.
LEMMA CellsFacts ==
  Cardinality(Cells) = CellSegment * MaxCellSegments /\ Cardinality(Cells) \in Nat /\ Null \notin Cells
<1>. DEFINE m == CellSegment * MaxCellSegments
<1>1. m \in Nat
  BY AListAssumption
<1>. HIDE DEF m
<1>2. Cardinality(1 .. m) = m
  BY <1>1, FS_Interval
<1>3. Null \notin 1 .. m
  BY <1>1, AListAssumption
<1>. QED BY <1>1, <1>2, <1>3 DEF m, Cells

\* What Follow reads is what the last turn of the walk found.
LEMMA FollowWalks ==
  ASSUME NEW links, NEW c, NEW dir
  PROVE  \E walk : /\ Walks(links, dir, Cardinality(Cells) + 1, walk)
                   /\ FollowIn(links, c, dir) = walk[Cardinality(Cells) + 1][c]
<1>. DEFINE most == Cardinality(Cells) + 1
            W == CHOOSE walk : Walks(links, dir, most, walk)
<1>1. Walks(links, dir, most, W)
  BY CellsFacts, WalkExists
<1>2. FollowIn(links, c, dir) = W[most][c]
  BY DEF FollowIn, Walks, Turn, Targets
<1>. QED BY <1>1, <1>2

\* s is the way from c along the links
Way(links, c, dir, s) ==
  /\ s \in Seq(Cells)
  /\ c = IF s = <<>> THEN Null ELSE s[1]
  /\ \A i \in 1 .. Len(s) : links[s[i]][dir] = IF i = Len(s) THEN Null ELSE s[i + 1]

\* The last k of a sequence
Rest(s, k) == [i \in 1 .. k |-> s[Len(s) - k + i]]

\* The last k cells are the one before them and the last k - 1.
LEMMA RestFacts ==
  ASSUME NEW s \in Seq(Cells)
  PROVE  /\ Rest(s, 0) = <<>> /\ Rest(s, Len(s)) = s
         /\ \A k \in 1 .. Len(s) : <<s[Len(s) - k + 1]>> \o Rest(s, k - 1) = Rest(s, k)
<1>1. Rest(s, 0) = <<>>
  BY DEF Rest
<1>2. Rest(s, Len(s)) = s
  BY DEF Rest
<1>3. ASSUME NEW k \in 1 .. Len(s)
      PROVE  <<s[Len(s) - k + 1]>> \o Rest(s, k - 1) = Rest(s, k)
  BY DEF Rest
<1>. QED BY <1>1, <1>2, <1>3

\* Follow reads the way along the links, whatever it is, if it is not too long.
LEMMA FollowIs ==
  ASSUME NEW links, NEW c, NEW dir, NEW s, Way(links, c, dir, s), Len(s) <= Cardinality(Cells)
  PROVE  FollowIn(links, c, dir) = s
<1>. DEFINE most == Cardinality(Cells) + 1
            len == Len(s)
            At(k) == IF k = 0 THEN Null ELSE s[len - k + 1]
<1>1. PICK walk : Walks(links, dir, most, walk) /\ FollowIn(links, c, dir) = walk[most][c]
  BY FollowWalks
<1>2. s \in Seq(Cells) /\ len \in Nat /\ Null \notin Cells /\ most \in Nat /\ len < most
  BY CellsFacts DEF Way
<1>3. \A k \in 1 .. len : s[len - k + 1] \in Cells
  BY <1>2
<1>4. ASSUME NEW n \in 0 .. most, NEW x \in Targets
      PROVE  walk[n][x] = IF x = Null \/ n = 0 THEN <<>> ELSE <<x>> \o walk[n - 1][links[x][dir]]
  <2>1. walk[n] = Turn(links, dir, walk, n)
    BY <1>1 DEF Walks
  <2>. QED BY <2>1 DEF Turn
<1>5. \A k \in 1 .. len : links[s[len - k + 1]][dir] = At(k - 1)
  BY <1>2 DEF Way
<1>. DEFINE Bad == {k \in 0 .. len : \E n \in k .. most : walk[n][At(k)] # Rest(s, k)}
<1>6. Bad = {}
  <2>. SUFFICES ASSUME Bad # {} PROVE FALSE
    OBVIOUS
  <2>1. Bad \in SUBSET Nat
    BY <1>2
  <2>2. PICK k \in Bad : \A j \in Bad : k <= j
    BY <2>1, LeastNat
  <2>3. PICK n \in k .. most : walk[n][At(k)] # Rest(s, k)
    BY <2>2
  <2>4. n \in 0 .. most /\ k \in 0 .. len
    BY <1>2, <2>2
  <2>5. CASE k = 0
    BY <1>4, <2>3, <2>4, <2>5, RestFacts, <1>2 DEF Targets
  <2>6. CASE k # 0
    <3>0. k \in Int /\ k - 1 \notin Bad
      <4>. HIDE DEF Bad
      <4>1. k \in Int /\ ~(k <= k - 1)
        BY <1>2, <2>4
      <4>. QED BY <2>2, <4>1
    <3>1. k \in 1 .. len /\ k - 1 \in 0 .. len /\ n # 0 /\ n - 1 \in k - 1 .. most
      BY <1>2, <2>3, <2>4, <2>6
    <3>. DEFINE x == s[len - k + 1]
    <3>2. x \in Cells /\ x # Null /\ At(k) = x /\ x \in Targets
      BY <1>2, <1>3, <3>1 DEF Targets
    <3>3. walk[n][x] = <<x>> \o walk[n - 1][At(k - 1)]
      BY <1>4, <1>5, <2>4, <3>1, <3>2
    <3>4. walk[n - 1][At(k - 1)] = Rest(s, k - 1)
      BY <3>0, <3>1
    <3>5. <<x>> \o Rest(s, k - 1) = Rest(s, k)
      BY <1>2, <3>1, RestFacts
    <3>. QED BY <2>3, <3>2, <3>3, <3>4, <3>5
  <2>. QED BY <2>5, <2>6
<1>7. At(len) = c
  BY <1>2 DEF Way
<1>8. len \in 0 .. len /\ most \in len .. most
  BY <1>2
<1>9. walk[most][At(len)] = Rest(s, len)
  BY <1>6, <1>8
<1>. QED BY <1>1, <1>2, <1>7, <1>9, RestFacts

\* The type of a cell
Cell == [data : Values \cup {Null}, next : Targets, prev : Targets]

Distinct(s) == \A i, j \in 1 .. Len(s) : s[i] = s[j] => i = j

\* The chain is linked in both directions, from a to z.
Chained(links, a, z, s) ==
  /\ s \in Seq(Cells)
  /\ Distinct(s)
  /\ Way(links, a, "next", s)
  /\ z = IF s = <<>> THEN Null ELSE s[Len(s)]
  /\ \A i \in 1 .. Len(s) : links[s[i]].prev = IF i = 1 THEN Null ELSE s[i - 1]

\* The cell e is none of s.
Apart(s, e) == \A i \in 1 .. Len(s) : s[i] # e

\* e after the k-th of s, and s without the k-th
With(s, k, e) == [i \in 1 .. Len(s) + 1 |-> IF i <= k THEN s[i] ELSE IF i = k + 1 THEN e ELSE s[i - 1]]
Without(s, k) == [i \in 1 .. Len(s) - 1 |-> IF i < k THEN s[i] ELSE s[i + 1]]

\* What a sequence with one more element is
LEMMA WithFacts ==
  ASSUME NEW S, NEW s \in Seq(S), NEW k \in 0 .. Len(s), NEW e \in S
  PROVE  /\ With(s, k, e) \in Seq(S) /\ Len(With(s, k, e)) = Len(s) + 1
         /\ \A i \in 1 .. Len(s) + 1 :
              With(s, k, e)[i] = IF i <= k THEN s[i] ELSE IF i = k + 1 THEN e ELSE s[i - 1]
<1>1. \A i \in 1 .. Len(s) + 1 : (IF i <= k THEN s[i] ELSE IF i = k + 1 THEN e ELSE s[i - 1]) \in S
  OBVIOUS
<1>. QED BY <1>1 DEF With

\* The same of cells
LEMMA WithCells ==
  ASSUME NEW s \in Seq(Cells), NEW k \in 0 .. Len(s), NEW e \in Cells
  PROVE  /\ With(s, k, e) \in Seq(Cells) /\ Len(With(s, k, e)) = Len(s) + 1
         /\ \A i \in 1 .. Len(s) + 1 :
              With(s, k, e)[i] = IF i <= k THEN s[i] ELSE IF i = k + 1 THEN e ELSE s[i - 1]
BY WithFacts

\* What a sequence with one element less is
LEMMA WithoutFacts ==
  ASSUME NEW S, NEW s \in Seq(S), NEW k \in 1 .. Len(s)
  PROVE  /\ Without(s, k) \in Seq(S) /\ Len(Without(s, k)) = Len(s) - 1
         /\ \A i \in 1 .. Len(s) - 1 : Without(s, k)[i] = IF i < k THEN s[i] ELSE s[i + 1]
<1>1. \A i \in 1 .. Len(s) - 1 : (IF i < k THEN s[i] ELSE s[i + 1]) \in S
  OBVIOUS
<1>2. Len(s) - 1 \in Nat
  OBVIOUS
<1>. QED BY <1>1, <1>2 DEF Without

\* What Put_After makes of the cells
Put(f, at, next, e) ==
  [c \in Cells |->
     CASE c = e -> [f[e] EXCEPT !.next = next, !.prev = IF at = Null THEN @ ELSE at]
       [] c = at -> [f[c] EXCEPT !.next = e]
       [] c = next -> [f[c] EXCEPT !.prev = e]
       [] OTHER -> f[c]]

\* Put_After changes the cell that is put and its two neighbours, their links only.
LEMMA PutFacts ==
  ASSUME NEW f \in [Cells -> Cell], NEW at \in Targets, NEW next \in Targets, NEW e \in Cells,
         at # e, next # e, at # next \/ at = Null, f[e].prev = Null
  PROVE  LET g == Put(f, at, next, e)
         IN  /\ g \in [Cells -> Cell]
             /\ g[e].next = next /\ g[e].prev = at
             /\ at \in Cells => g[at].next = e /\ g[at].prev = f[at].prev
             /\ next \in Cells => g[next].prev = e /\ g[next].next = f[next].next
             /\ \A c \in Cells : g[c].data = f[c].data
             /\ \A c \in Cells \ {e, at, next} : g[c] = f[c]
<1>. DEFINE g == Put(f, at, next, e)
<1>1. Null \notin Cells
  BY CellsFacts
<1>2. \A c \in Cells : f[c] \in Cell
  OBVIOUS
<1>3. g[e] = [f[e] EXCEPT !.next = next, !.prev = at]
  BY <1>1, <1>2 DEF Put, Cell
<1>4. at \in Cells => g[at] = [f[at] EXCEPT !.next = e]
  BY <1>1, <1>2 DEF Put
<1>5. next \in Cells => g[next] = [f[next] EXCEPT !.prev = e]
  BY <1>1, <1>2 DEF Put
<1>6. \A c \in Cells \ {e, at, next} : g[c] = f[c]
  BY <1>1 DEF Put
<1>7. DOMAIN g = Cells /\ g = [c \in Cells |-> g[c]]
  BY DEF Put
<1>. HIDE DEF g
<1>8. g[e] \in Cell /\ g[e].next = next /\ g[e].prev = at /\ g[e].data = f[e].data
  BY <1>2, <1>3 DEF Cell, Targets
<1>9. at \in Cells => g[at] \in Cell /\ g[at].next = e /\ g[at].prev = f[at].prev /\ g[at].data = f[at].data
  BY <1>2, <1>4 DEF Cell, Targets
<1>10. next \in Cells =>
         g[next] \in Cell /\ g[next].prev = e /\ g[next].next = f[next].next /\ g[next].data = f[next].data
  BY <1>2, <1>5 DEF Cell, Targets
<1>11. \A c \in Cells : g[c] \in Cell /\ g[c].data = f[c].data
  BY <1>2, <1>6, <1>8, <1>9, <1>10
<1>. QED BY <1>6, <1>7, <1>8, <1>9, <1>10, <1>11 DEF g

\* The place after the k-th of a chain
After(s, k) == IF k = Len(s) THEN Null ELSE s[k + 1]
Before(s, k) == IF k = 0 THEN Null ELSE s[k]

\* The cell is in the chain then, after the k-th, in both directions.
LEMMA PutChained ==
  ASSUME NEW f \in [Cells -> Cell], NEW a, NEW z, NEW s, Chained(f, a, z, s),
         NEW k \in 0 .. Len(s), NEW e \in Cells, Apart(s, e), f[e].prev = Null
  PROVE  LET at == Before(s, k)
             g  == Put(f, at, After(s, k), e)
         IN  /\ Chained(g, IF at = Null THEN e ELSE a, IF z = at THEN e ELSE z, With(s, k, e))
             /\ g \in [Cells -> Cell]
             /\ \A c \in Cells : g[c].data = f[c].data
             /\ \A c \in Cells : Apart(s, c) /\ c # e => g[c] = f[c]
<1>. DEFINE at == Before(s, k)
            next == After(s, k)
            g == Put(f, at, next, e)
            n == Len(s)
            t == With(s, k, e)
<1>1. s \in Seq(Cells) /\ n \in Nat /\ Null \notin Cells /\ k \in Nat /\ DOMAIN s = 1 .. n /\ k <= n
  BY CellsFacts DEF Chained
<1>2. \A i \in 1 .. n : s[i] \in Cells /\ s[i] # e /\ s[i] # Null
  BY <1>1 DEF Apart
<1>3. /\ t \in Seq(Cells) /\ Len(t) = n + 1
      /\ \A i \in 1 .. n + 1 : t[i] = IF i <= k THEN s[i] ELSE IF i = k + 1 THEN e ELSE s[i - 1]
  <2>1. s \in Seq(Cells)
    BY <1>1
  <2>. QED BY <2>1, WithCells
<1>4. \A i, j \in 1 .. n : s[i] = s[j] => i = j
  BY DEF Chained, Distinct
<1>5. \A i \in 1 .. n : /\ f[s[i]].next = IF i = n THEN Null ELSE s[i + 1]
                        /\ f[s[i]].prev = IF i = 1 THEN Null ELSE s[i - 1]
  BY DEF Chained, Way
<1>6. /\ a = IF s = <<>> THEN Null ELSE s[1]
      /\ z = IF s = <<>> THEN Null ELSE s[n]
  BY DEF Chained, Way
<1>7. s = <<>> <=> n = 0
  BY <1>1
<1>8. at \in Targets /\ next \in Targets /\ at # e /\ next # e /\ (at # next \/ at = Null)
  <2>1. at = (IF k = 0 THEN Null ELSE s[k]) /\ next = (IF k = n THEN Null ELSE s[k + 1])
    BY DEF Before, After
  <2>. HIDE DEF at, next, n
  <2>2. (k # 0 => k \in 1 .. n) /\ (k # n => k + 1 \in 1 .. n)
    BY <1>1
  <2>3. k # 0 /\ k # n => s[k] # s[k + 1]
    BY <1>1, <1>4, <2>2
  <2>. QED BY <1>1, <1>2, <2>1, <2>2, <2>3 DEF Targets
<1>9. /\ g \in [Cells -> Cell] /\ \A c \in Cells : g[c].data = f[c].data
      /\ g[e].next = next /\ g[e].prev = at
      /\ at \in Cells => g[at].next = e /\ g[at].prev = f[at].prev
      /\ next \in Cells => g[next].prev = e /\ g[next].next = f[next].next
      /\ \A c \in Cells \ {e, at, next} : g[c] = f[c]
  BY <1>8, PutFacts
<1>10. at = (IF k = 0 THEN Null ELSE s[k]) /\ next = (IF k = n THEN Null ELSE s[k + 1])
  BY DEF Before, After
<1>. HIDE DEF at, next, g, n, t
<1>11. ASSUME NEW i \in 1 .. n
       PROVE  /\ g[s[i]].next = IF i = k THEN e ELSE f[s[i]].next
              /\ g[s[i]].prev = IF i = k + 1 THEN e ELSE f[s[i]].prev
  <2>1. CASE i = k
    BY <1>1, <1>2, <1>9, <1>10, <2>1
  <2>2. CASE i = k + 1
    BY <1>1, <1>2, <1>9, <1>10, <2>2
  <2>3. CASE i # k /\ i # k + 1
    <3>1. s[i] # at /\ s[i] # next
      BY <1>1, <1>2, <1>4, <1>10, <2>3
    <3>. QED BY <1>2, <1>9, <2>3, <3>1
  <2>. QED BY <2>1, <2>2, <2>3
<1>12. ASSUME NEW i \in 1 .. n + 1
       PROVE  /\ g[t[i]].next = IF i = n + 1 THEN Null ELSE t[i + 1]
              /\ g[t[i]].prev = IF i = 1 THEN Null ELSE t[i - 1]
  <2>1. CASE i <= k
    <3>1. i \in 1 .. n /\ t[i] = s[i] /\ i # n + 1 /\ i + 1 \in 1 .. n + 1 /\ i # k + 1
      BY <1>1, <1>3, <2>1
    <3>2. t[i + 1] = IF i = k THEN e ELSE s[i + 1]
      BY <1>1, <1>3, <2>1, <3>1
    <3>3. i # 1 => t[i - 1] = s[i - 1]
      BY <1>1, <1>3, <2>1, <3>1
    <3>4. i # k => i # n
      BY <1>1, <2>1
    <3>. QED BY <1>5, <1>11, <3>1, <3>2, <3>3, <3>4
  <2>2. CASE i = k + 1
    <3>1. t[i] = e
      BY <1>1, <1>3, <2>2
    <3>2. i # n + 1 => t[i + 1] = s[k + 1]
      BY <1>1, <1>3, <2>2
    <3>3. i # 1 => t[i - 1] = s[k]
      BY <1>1, <1>3, <2>2
    <3>. QED BY <1>1, <1>9, <1>10, <2>2, <3>1, <3>2, <3>3
  <2>3. CASE i > k + 1
    <3>. DEFINE j == i - 1
    <3>1. j \in 1 .. n /\ j # k /\ i = j + 1 /\ (i = n + 1 <=> j = n) /\ j >= k + 1
      BY <1>1, <2>3
    <3>2. t[i] = s[j]
      BY <1>1, <1>3, <2>3
    <3>3. i # n + 1 => t[i + 1] = s[j + 1]
      BY <1>1, <1>3, <2>3
    <3>4. i # 1 /\ t[i - 1] = IF j = k + 1 THEN e ELSE s[j - 1]
      BY <1>1, <1>3, <2>3
    <3>. HIDE DEF j
    <3>. QED BY <1>1, <1>5, <1>11, <3>1, <3>2, <3>3, <3>4
  <2>. QED BY <1>1, <2>1, <2>2, <2>3
<1>13. \A i, j \in 1 .. n + 1 : t[i] = t[j] => i = j
  BY <1>1, <1>2, <1>3, <1>4
<1>14. t # <<>> /\ 1 \in 1 .. n + 1 /\ n + 1 \in 1 .. n + 1
  BY <1>1, <1>3
<1>15. (IF at = Null THEN e ELSE a) = t[1]
  BY <1>1, <1>2, <1>3, <1>6, <1>7, <1>10, <1>14
<1>16. (IF z = at THEN e ELSE z) = t[n + 1]
  <2>1. CASE k = n
    BY <1>1, <1>3, <1>6, <1>7, <1>10, <1>14, <2>1
  <2>2. CASE k # n
    <3>1. n \in 1 .. n /\ n # 0 /\ t[n + 1] = s[n]
      BY <1>1, <1>3, <1>14, <2>2
    <3>2. z = s[n] /\ z # at
      BY <1>1, <1>2, <1>4, <1>6, <1>7, <1>10, <2>2, <3>1
    <3>. QED BY <3>1, <3>2
  <2>. QED BY <2>1, <2>2
<1>17. Chained(g, IF at = Null THEN e ELSE a, IF z = at THEN e ELSE z, t)
  BY <1>3, <1>12, <1>13, <1>14, <1>15, <1>16 DEF Chained, Way, Distinct
<1>18. ASSUME NEW c \in Cells, Apart(s, c), c # e
       PROVE  g[c] = f[c]
  <2>1. c # Null /\ \A i \in 1 .. n : s[i] # c
    BY <1>1, <1>18 DEF Apart, n
  <2>2. (k # 0 => k \in 1 .. n) /\ (k # n => k + 1 \in 1 .. n)
    BY <1>1
  <2>3. c # at /\ c # next
    BY <1>10, <2>1, <2>2
  <2>. QED BY <1>9, <1>18, <2>3
<1>. QED BY <1>9, <1>17, <1>18 DEF at, g, t, next

\* What is left of some cells without one
LEMMA WithoutCells ==
  ASSUME NEW s \in Seq(Cells), NEW k \in 1 .. Len(s)
  PROVE  /\ Without(s, k) \in Seq(Cells) /\ Len(Without(s, k)) = Len(s) - 1
         /\ \A i \in 1 .. Len(s) - 1 : Without(s, k)[i] = IF i < k THEN s[i] ELSE s[i + 1]
BY WithoutFacts

\* What Cell_Release makes of the cells
Released(f, before, after, e, becomes) ==
  [x \in Cells |->
     CASE x = e      -> becomes
       [] x = before -> [f[x] EXCEPT !.next = after]
       [] x = after  -> [f[x] EXCEPT !.prev = before]
       [] OTHER      -> f[x]]

\* Cell_Release changes the cell that is released and the links of its two neighbours.
LEMMA ReleasedFacts ==
  ASSUME NEW f \in [Cells -> Cell], NEW before \in Targets, NEW after \in Targets, NEW e \in Cells,
         before # e, after # e, before # after \/ before = Null, NEW becomes \in Cell
  PROVE  LET g == Released(f, before, after, e, becomes)
         IN  /\ g \in [Cells -> Cell]
             /\ g[e] = becomes
             /\ before \in Cells => g[before].next = after /\ g[before].prev = f[before].prev
             /\ after \in Cells => g[after].prev = before /\ g[after].next = f[after].next
             /\ \A c \in Cells \ {e} : g[c].data = f[c].data
             /\ \A c \in Cells \ {e, before, after} : g[c] = f[c]
<1>. DEFINE g == Released(f, before, after, e, becomes)
<1>1. Null \notin Cells
  BY CellsFacts
<1>2. \A c \in Cells : f[c] \in Cell
  OBVIOUS
<1>3. g[e] = becomes
  BY DEF Released
<1>4. before \in Cells => g[before] = [f[before] EXCEPT !.next = after]
  BY <1>1 DEF Released
<1>5. after \in Cells => g[after] = [f[after] EXCEPT !.prev = before]
  BY <1>1 DEF Released
<1>6. \A c \in Cells \ {e, before, after} : g[c] = f[c]
  BY <1>1 DEF Released
<1>7. DOMAIN g = Cells /\ g = [c \in Cells |-> g[c]]
  BY DEF Released
<1>. HIDE DEF g
<1>9. before \in Cells =>
        /\ g[before] \in Cell /\ g[before].next = after
        /\ g[before].prev = f[before].prev /\ g[before].data = f[before].data
  BY <1>2, <1>4 DEF Cell, Targets
<1>10. after \in Cells =>
         /\ g[after] \in Cell /\ g[after].prev = before
         /\ g[after].next = f[after].next /\ g[after].data = f[after].data
  BY <1>2, <1>5 DEF Cell, Targets
<1>11. \A c \in Cells : g[c] \in Cell /\ (c # e => g[c].data = f[c].data)
  BY <1>2, <1>3, <1>6, <1>9, <1>10
<1>. QED BY <1>3, <1>6, <1>7, <1>9, <1>10, <1>11 DEF g

\* The chain is linked around the cell then, in both directions.
LEMMA ReleasedChained ==
  ASSUME NEW f \in [Cells -> Cell], NEW a, NEW z, NEW s, Chained(f, a, z, s),
         NEW k \in 1 .. Len(s), NEW becomes \in Cell
  PROVE  LET e == s[k]
             before == f[e].prev
             after  == f[e].next
             g == Released(f, before, after, e, becomes)
         IN  /\ Chained(g, IF e = a THEN after ELSE a, IF e = z THEN before ELSE z, Without(s, k))
             /\ g \in [Cells -> Cell] /\ g[e] = becomes
             /\ \A c \in Cells \ {e} : g[c].data = f[c].data
             /\ \A c \in Cells : Apart(s, c) => g[c] = f[c]
<1>. DEFINE e == s[k]
            before == f[e].prev
            after == f[e].next
            g == Released(f, before, after, e, becomes)
            n == Len(s)
            t == Without(s, k)
<1>1. s \in Seq(Cells) /\ n \in Nat /\ Null \notin Cells /\ k \in Nat /\ k >= 1 /\ k <= n
  BY CellsFacts DEF Chained
<1>2. \A i \in 1 .. n : s[i] \in Cells /\ s[i] # Null
  BY <1>1
<1>3. /\ t \in Seq(Cells) /\ Len(t) = n - 1
      /\ \A i \in 1 .. n - 1 : t[i] = IF i < k THEN s[i] ELSE s[i + 1]
  <2>1. s \in Seq(Cells)
    BY <1>1
  <2>. QED BY <2>1, WithoutCells
<1>4. \A i, j \in 1 .. n : s[i] = s[j] => i = j
  BY DEF Chained, Distinct
<1>5. \A i \in 1 .. n : /\ f[s[i]].next = IF i = n THEN Null ELSE s[i + 1]
                        /\ f[s[i]].prev = IF i = 1 THEN Null ELSE s[i - 1]
  BY DEF Chained, Way
<1>6. /\ a = IF s = <<>> THEN Null ELSE s[1]
      /\ z = IF s = <<>> THEN Null ELSE s[n]
  BY DEF Chained, Way
<1>7. s # <<>> /\ (t = <<>> <=> n = 1)
  BY <1>1, <1>3
<1>8. before = (IF k = 1 THEN Null ELSE s[k - 1]) /\ after = (IF k = n THEN Null ELSE s[k + 1])
  BY <1>5
<1>9. before \in Targets /\ after \in Targets /\ before # e /\ after # e /\ (before # after \/ before = Null)
  BY <1>1, <1>2, <1>4, <1>8 DEF Targets
<1>10. /\ g \in [Cells -> Cell] /\ g[e] = becomes
       /\ before \in Cells => g[before].next = after /\ g[before].prev = f[before].prev
       /\ after \in Cells => g[after].prev = before /\ g[after].next = f[after].next
       /\ \A c \in Cells \ {e} : g[c].data = f[c].data
       /\ \A c \in Cells \ {e, before, after} : g[c] = f[c]
  BY <1>2, <1>9, ReleasedFacts
<1>. HIDE DEF before, after, g, n, t
<1>11. ASSUME NEW i \in 1 .. n, i # k
       PROVE  /\ g[s[i]].next = IF i = k - 1 THEN after ELSE f[s[i]].next
              /\ g[s[i]].prev = IF i = k + 1 THEN before ELSE f[s[i]].prev
  <2>1. CASE i = k - 1
    BY <1>1, <1>2, <1>8, <1>10, <2>1
  <2>2. CASE i = k + 1
    BY <1>1, <1>2, <1>8, <1>10, <2>2
  <2>3. CASE i # k - 1 /\ i # k + 1
    <3>1. s[i] # before /\ s[i] # after /\ s[i] # e
      BY <1>1, <1>2, <1>4, <1>8, <1>11, <2>3
    <3>. QED BY <1>2, <1>10, <2>3, <3>1
  <2>. QED BY <2>1, <2>2, <2>3
<1>12. ASSUME NEW i \in 1 .. n - 1
       PROVE  /\ g[t[i]].next = IF i = n - 1 THEN Null ELSE t[i + 1]
              /\ g[t[i]].prev = IF i = 1 THEN Null ELSE t[i - 1]
  <2>1. CASE i < k
    <3>1. i \in 1 .. n /\ i # k /\ t[i] = s[i] /\ i # k + 1 /\ i # n
      BY <1>1, <1>3, <2>1
    <3>2. i # n - 1 => t[i + 1] = IF i = k - 1 THEN s[i + 2] ELSE s[i + 1]
      BY <1>1, <1>3, <2>1
    <3>3. i # 1 => t[i - 1] = s[i - 1]
      BY <1>1, <1>3, <2>1
    <3>4. i = k - 1 => after = IF i = n - 1 THEN Null ELSE s[i + 2]
      BY <1>1, <1>8, <2>1
    <3>5. i # k - 1 => i # n - 1
      BY <1>1, <2>1
    <3>. QED BY <1>5, <1>11, <3>1, <3>2, <3>3, <3>4, <3>5
  <2>2. CASE ~(i < k)
    <3>. DEFINE j == i + 1
    <3>1. j \in 1 .. n /\ j # k /\ j # k - 1 /\ j # 1 /\ (j = n <=> i = n - 1) /\ j - 1 = i
      BY <1>1, <2>2
    <3>2. t[i] = s[j]
      BY <1>1, <1>3, <2>2
    <3>3. i # n - 1 => t[i + 1] = s[j + 1]
      BY <1>1, <1>3, <2>2
    <3>4. i # 1 => t[i - 1] = IF i = k THEN s[k - 1] ELSE s[i]
      BY <1>1, <1>3, <2>2
    <3>5. j = k + 1 <=> i = k
      BY <1>1
    <3>6. i = k => before = IF i = 1 THEN Null ELSE s[k - 1]
      BY <1>8
    <3>7. i # k => i # 1
      BY <1>1, <2>2
    <3>. HIDE DEF j
    <3>. QED BY <1>5, <1>11, <3>1, <3>2, <3>3, <3>4, <3>5, <3>6, <3>7
  <2>. QED BY <2>1, <2>2
<1>13. \A i, j \in 1 .. n - 1 : t[i] = t[j] => i = j
  BY <1>1, <1>3, <1>4
<1>14. (IF e = a THEN after ELSE a) = IF t = <<>> THEN Null ELSE t[1]
  <2>1. e = a <=> k = 1
    BY <1>1, <1>4, <1>6, <1>7
  <2>2. CASE k = 1
    BY <1>1, <1>3, <1>7, <1>8, <2>1, <2>2
  <2>3. CASE k # 1
    BY <1>1, <1>3, <1>6, <1>7, <2>1, <2>3
  <2>. QED BY <2>2, <2>3
<1>15. (IF e = z THEN before ELSE z) = IF t = <<>> THEN Null ELSE t[n - 1]
  <2>1. e = z <=> k = n
    BY <1>1, <1>4, <1>6, <1>7
  <2>2. CASE k = n
    BY <1>1, <1>3, <1>7, <1>8, <2>1, <2>2
  <2>3. CASE k # n
    BY <1>1, <1>3, <1>6, <1>7, <2>1, <2>3
  <2>. QED BY <2>2, <2>3
<1>16. Chained(g, IF e = a THEN after ELSE a, IF e = z THEN before ELSE z, t)
  BY <1>3, <1>12, <1>13, <1>14, <1>15 DEF Chained, Way, Distinct
<1>17. ASSUME NEW c \in Cells, Apart(s, c)
       PROVE  g[c] = f[c]
  <2>1. c # e /\ c # before /\ c # after
    <3>1. c # Null /\ \A i \in 1 .. n : s[i] # c
      BY <1>1, <1>17 DEF Apart, n
    <3>2. k # 1 => k - 1 \in 1 .. n
      BY <1>1
    <3>3. k # n => k + 1 \in 1 .. n
      BY <1>1
    <3>4. k \in 1 .. n
      BY <1>1
    <3>. QED BY <1>8, <3>1, <3>2, <3>3, <3>4
  <2>. QED BY <1>10, <2>1
<1>. QED BY <1>10, <1>16, <1>17 DEF before, after, g, t

\* Apart says what it is meant to.
LEMMA ApartRan ==
  ASSUME NEW s \in Seq(Cells), NEW e
  PROVE  Apart(s, e) <=> e \notin Ran(s)
BY DEF Apart, Ran

\* The cells of a chain with one more
LEMMA WithRan ==
  ASSUME NEW s \in Seq(Cells), NEW k \in 0 .. Len(s), NEW e \in Cells
  PROVE  /\ Ran(With(s, k, e)) = Ran(s) \cup {e}
         /\ e \notin Ran(s) /\ Distinct(s) => Distinct(With(s, k, e))
<1>. DEFINE n == Len(s)
            t == With(s, k, e)
<1>1. /\ Len(t) = n + 1 /\ DOMAIN t = 1 .. n + 1 /\ DOMAIN s = 1 .. n /\ n \in Nat
      /\ \A i \in 1 .. n + 1 : t[i] = IF i <= k THEN s[i] ELSE IF i = k + 1 THEN e ELSE s[i - 1]
  BY WithCells
<1>. HIDE DEF n, t
<1>2. k \in 0 .. n
  BY DEF n
<1>3. \A i \in 1 .. n + 1 : t[i] \in Ran(s) \cup {e}
  BY <1>1, <1>2 DEF Ran
<1>4. ASSUME NEW i \in 1 .. n
      PROVE  s[i] \in Ran(t)
  <2>1. CASE i <= k
    BY <1>1, <1>2, <2>1 DEF Ran
  <2>2. CASE ~(i <= k)
    <3>1. i + 1 \in 1 .. n + 1 /\ t[i + 1] = s[i]
      BY <1>1, <1>2, <2>2
    <3>. QED BY <1>1, <3>1 DEF Ran
  <2>. QED BY <2>1, <2>2
<1>5. e \in Ran(t)
  <2>1. k + 1 \in 1 .. n + 1 /\ t[k + 1] = e
    BY <1>1, <1>2
  <2>. QED BY <1>1, <2>1 DEF Ran
<1>6. Ran(t) = Ran(s) \cup {e}
  BY <1>1, <1>3, <1>4, <1>5 DEF Ran
<1>7. ASSUME e \notin Ran(s), Distinct(s)
      PROVE  Distinct(t)
  <2>1. \A i \in 1 .. n : s[i] # e
    BY <1>1, <1>7 DEF Ran
  <2>2. \A i, j \in 1 .. n : s[i] = s[j] => i = j
    BY <1>7 DEF Distinct, n
  <2>. QED BY <1>1, <1>2, <2>1, <2>2 DEF Distinct
<1>. QED BY <1>6, <1>7 DEF t

\* The cells of a chain with one less
LEMMA WithoutRan ==
  ASSUME NEW s \in Seq(Cells), NEW k \in 1 .. Len(s), Distinct(s)
  PROVE  /\ Ran(Without(s, k)) = Ran(s) \ {s[k]}
         /\ Distinct(Without(s, k))
<1>. DEFINE n == Len(s)
            t == Without(s, k)
<1>1. /\ Len(t) = n - 1 /\ DOMAIN t = 1 .. n - 1 /\ DOMAIN s = 1 .. n /\ n \in Nat
      /\ \A i \in 1 .. n - 1 : t[i] = IF i < k THEN s[i] ELSE s[i + 1]
  BY WithoutCells
<1>. HIDE DEF n, t
<1>2. k \in 1 .. n
  BY DEF n
<1>3. \A i, j \in 1 .. n : s[i] = s[j] => i = j
  BY DEF Distinct, n
<1>4. \A i \in 1 .. n - 1 : t[i] \in Ran(s) \ {s[k]}
  BY <1>1, <1>2, <1>3 DEF Ran
<1>5. ASSUME NEW i \in 1 .. n, s[i] # s[k]
      PROVE  s[i] \in Ran(t)
  <2>1. CASE i < k
    BY <1>1, <1>2, <2>1 DEF Ran
  <2>2. CASE ~(i < k)
    <3>. DEFINE j == i - 1
    <3>1. j \in 1 .. n - 1 /\ ~(j < k) /\ j + 1 = i
      BY <1>1, <1>2, <1>5, <2>2
    <3>. HIDE DEF j
    <3>2. t[j] = s[i]
      BY <1>1, <3>1
    <3>. QED BY <1>1, <3>1, <3>2 DEF Ran
  <2>. QED BY <2>1, <2>2
<1>6. Ran(t) = Ran(s) \ {s[k]}
  BY <1>1, <1>4, <1>5 DEF Ran
<1>7. Distinct(t)
  BY <1>1, <1>2, <1>3 DEF Distinct
<1>. QED BY <1>6, <1>7 DEF t

\* The way along a pool of spare cells, when one is taken from it or put to it
LEMMA WayPop ==
  ASSUME NEW links, NEW s, Way(links, s[1], "next", s), s # <<>>
  PROVE  Way(links, links[s[1]].next, "next", Without(s, 1))
<1>. DEFINE n == Len(s)
            t == Without(s, 1)
<1>1. s \in Seq(Cells) /\ n \in Nat /\ n >= 1
  BY DEF Way
<1>2. \A i \in 1 .. n : links[s[i]].next = IF i = n THEN Null ELSE s[i + 1]
  BY DEF Way
<1>3. 1 \in 1 .. Len(s)
  BY <1>1
<1>4. /\ t \in Seq(Cells) /\ Len(t) = n - 1
      /\ \A i \in 1 .. n - 1 : t[i] = IF i < 1 THEN s[i] ELSE s[i + 1]
  <2>1. s \in Seq(Cells)
    BY <1>1
  <2>. QED BY <1>3, <2>1, WithoutCells
<1>. HIDE DEF n, t
<1>5. \A i \in 1 .. n - 1 : t[i] = s[i + 1]
  BY <1>1, <1>4
<1>6. links[s[1]].next = IF t = <<>> THEN Null ELSE t[1]
  BY <1>1, <1>2, <1>4, <1>5
<1>7. ASSUME NEW i \in 1 .. n - 1
      PROVE  links[t[i]].next = IF i = n - 1 THEN Null ELSE t[i + 1]
  <2>. DEFINE j == i + 1
  <2>1. j \in 1 .. n /\ t[i] = s[j] /\ (j = n <=> i = n - 1)
    BY <1>1, <1>5
  <2>2. i # n - 1 => t[i + 1] = s[j + 1]
    BY <1>1, <1>5
  <2>. HIDE DEF j
  <2>. QED BY <1>2, <2>1, <2>2
<1>. QED BY <1>4, <1>6, <1>7 DEF Way, t

\* The same when one is put to it
LEMMA WayPush ==
  ASSUME NEW links, NEW c, NEW s, Way(links, c, "next", s), NEW e \in Cells, links[e].next = c
  PROVE  Way(links, e, "next", With(s, 0, e))
<1>. DEFINE n == Len(s)
            t == With(s, 0, e)
<1>1. s \in Seq(Cells) /\ n \in Nat
  BY DEF Way
<1>2. \A i \in 1 .. n : links[s[i]].next = IF i = n THEN Null ELSE s[i + 1]
  BY DEF Way
<1>3. 0 \in 0 .. Len(s)
  BY <1>1
<1>4. /\ t \in Seq(Cells) /\ Len(t) = n + 1
      /\ \A i \in 1 .. n + 1 : t[i] = IF i <= 0 THEN s[i] ELSE IF i = 0 + 1 THEN e ELSE s[i - 1]
  <2>1. s \in Seq(Cells)
    BY <1>1
  <2>. QED BY <1>3, <2>1, WithCells
<1>5. c = IF s = <<>> THEN Null ELSE s[1]
  BY DEF Way
<1>6. s = <<>> <=> n = 0
  BY <1>1
<1>. HIDE DEF n, t
<1>7. \A i \in 1 .. n + 1 : t[i] = IF i = 1 THEN e ELSE s[i - 1]
  BY <1>1, <1>4
<1>8. t # <<>> /\ t[1] = e
  BY <1>1, <1>4, <1>7
<1>9. ASSUME NEW i \in 1 .. n + 1
      PROVE  links[t[i]].next = IF i = n + 1 THEN Null ELSE t[i + 1]
  <2>1. CASE i = 1
    <3>1. n # 0 => t[2] = s[1]
      BY <1>1, <1>7
    <3>. QED BY <1>1, <1>5, <1>6, <1>8, <2>1, <3>1
  <2>2. CASE i # 1
    <3>. DEFINE j == i - 1
    <3>1. j \in 1 .. n /\ t[i] = s[j] /\ (j = n <=> i = n + 1) /\ j + 1 = i
      BY <1>1, <1>7, <2>2
    <3>2. i # n + 1 => t[i + 1] = s[i]
      BY <1>1, <1>7
    <3>. HIDE DEF j
    <3>. QED BY <1>2, <3>1, <3>2
  <2>. QED BY <2>1, <2>2
<1>. QED BY <1>4, <1>8, <1>9 DEF Way, t

\* A way that no link of it changes
LEMMA WaySame ==
  ASSUME NEW f, NEW g, NEW c, NEW dir, NEW s, Way(f, c, dir, s), \A x \in Ran(s) : g[x] = f[x]
  PROVE  Way(g, c, dir, s)
<1>1. \A i \in 1 .. Len(s) : s[i] \in Ran(s)
  BY DEF Way, Ran
<1>. QED BY <1>1 DEF Way

\* A chain of which no cell changes
LEMMA ChainedSame ==
  ASSUME NEW f, NEW g, NEW a, NEW z, NEW s, Chained(f, a, z, s), \A x \in Ran(s) : g[x] = f[x]
  PROVE  Chained(g, a, z, s)
<1>1. \A i \in 1 .. Len(s) : s[i] \in Ran(s)
  BY DEF Chained, Ran
<1>. QED BY <1>1, WaySame DEF Chained

Made == 1 .. cellSegments * CellSegment

\* Every cell that was made is in the chain, spare or with the user, and nowhere else.
Divided(links, chain, spare, out, all) ==
  /\ links \in [Cells -> Cell]
  /\ spare \in Seq(Cells) /\ Distinct(spare)
  /\ Ran(chain) \cap Ran(spare) = {} /\ Ran(chain) \cap out = {} /\ Ran(spare) \cap out = {}
  /\ Ran(chain) \cup Ran(spare) \cup out = all /\ all \subseteq Cells
  /\ \A c \in Ran(chain) \cup out : links[c].data \in Values
  /\ \A c \in out : links[c].prev = Null
  /\ \A c \in Cells \ all : links[c] = Blank

ListShape(chain, spare) ==
  /\ Divided(cells, chain, spare, extracted, Made)
  /\ Chained(cells, first, last, chain)
  /\ Way(cells, spareCell, "next", spare)
  /\ count = Len(chain)
  /\ cellSegments \in 0 .. MaxCellSegments
  /\ indexCount \in Nat
  /\ ~broken => index = chain /\ count <= indexCount

ListInv == \E chain, spare : ListShape(chain, spare)

\* A product grows with its factor.
LEMMA TimesGrows ==
  ASSUME NEW x \in Nat, NEW y \in Nat, NEW z \in Nat, y <= z
  PROVE  y * x \in Nat /\ y * x <= x * z
OBVIOUS

\* The segments that were made are no more than there are cells for.
LEMMA SegmentsFit ==
  ASSUME NEW n \in 0 .. MaxCellSegments
  PROVE  n * CellSegment \in Nat /\ n * CellSegment <= CellSegment * MaxCellSegments
<1>1. n \in Nat /\ MaxCellSegments \in Nat /\ CellSegment \in Nat /\ n <= MaxCellSegments
  BY AListAssumption
<1>. QED BY <1>1, TimesGrows

\* Different cells are as many as they are.
LEMMA RanCount ==
  ASSUME NEW s \in Seq(Cells), Distinct(s)
  PROVE  IsFiniteSet(Ran(s)) /\ Cardinality(Ran(s)) = Len(s)
<1>1. s \in Bijection(1 .. Len(s), Ran(s))
  BY DEF Bijection, Injection, Surjection, IsInjective, Ran, Distinct
<1>2. ExistsBijection(1 .. Len(s), Ran(s))
  BY <1>1 DEF ExistsBijection
<1>3. IsFiniteSet(1 .. Len(s)) /\ Cardinality(1 .. Len(s)) = Len(s)
  <2>1. Len(s) \in Nat
    OBVIOUS
  <2>. QED BY <2>1, FS_Interval
<1>. QED BY <1>2, <1>3, FS_Bijection

\* There are finitely many cells.
LEMMA CellsFinite == IsFiniteSet(Cells)
<1>1. CellSegment * MaxCellSegments \in Int
  BY AListAssumption
<1>. QED BY <1>1, FS_Interval DEF Cells

\* So Follow looks far enough.
LEMMA ShortEnough ==
  ASSUME NEW s \in Seq(Cells), Distinct(s)
  PROVE  Len(s) <= Cardinality(Cells)
<1>1. Ran(s) \in SUBSET Cells
  BY DEF Ran
<1>2. Cardinality(Ran(s)) <= Cardinality(Cells)
  BY <1>1, CellsFinite, FS_Subset
<1>. QED BY <1>2, RanCount

\* What is read along the links
LEMMA ShapeFollows ==
  ASSUME NEW chain, NEW spare, ListShape(chain, spare)
  PROVE  Chain = chain /\ Follow(spareCell, "next") = spare
<1>1. /\ chain \in Seq(Cells) /\ Distinct(chain) /\ Way(cells, first, "next", chain)
      /\ spare \in Seq(Cells) /\ Distinct(spare) /\ Way(cells, spareCell, "next", spare)
  BY DEF ListShape, Chained, Divided
<1>2. Len(chain) <= Cardinality(Cells) /\ Len(spare) <= Cardinality(Cells)
  BY <1>1, ShortEnough
<1>. QED BY <1>1, <1>2, FollowIs DEF Chain, Follow

\* A chain from its end
Back(s) == [i \in 1 .. Len(s) |-> s[Len(s) + 1 - i]]

\* The links in the other direction show the chain from its end.
LEMMA BackFollows ==
  ASSUME NEW links, NEW a, NEW z, NEW s, Chained(links, a, z, s)
  PROVE  FollowIn(links, z, "prev") = Back(s)
<1>. DEFINE n == Len(s)
            b == Back(s)
<1>1. s \in Seq(Cells) /\ n \in Nat
  BY DEF Chained
<1>2. \A i \in 1 .. n : n + 1 - i \in 1 .. n
  BY <1>1
<1>3. b \in Seq(Cells) /\ Len(b) = n /\ \A i \in 1 .. n : b[i] = s[n + 1 - i]
  <2>1. b \in [1 .. n -> Cells]
    BY <1>1, <1>2 DEF Back
  <2>. QED BY <1>1, <2>1 DEF Back
<1>4. \A i \in 1 .. n : links[s[i]].prev = IF i = 1 THEN Null ELSE s[i - 1]
  BY DEF Chained
<1>5. z = IF s = <<>> THEN Null ELSE s[n]
  BY DEF Chained
<1>6. (s = <<>> <=> n = 0) /\ (b = <<>> <=> n = 0)
  BY <1>1, <1>3
<1>7. n <= Cardinality(Cells)
  <2>1. s \in Seq(Cells) /\ Distinct(s)
    BY DEF Chained
  <2>. QED BY <2>1, ShortEnough
<1>. HIDE DEF n, b
<1>8. z = IF b = <<>> THEN Null ELSE b[1]
  BY <1>1, <1>3, <1>5, <1>6
<1>9. ASSUME NEW i \in 1 .. n
      PROVE  links[b[i]].prev = IF i = n THEN Null ELSE b[i + 1]
  <2>. DEFINE j == n + 1 - i
  <2>1. j \in 1 .. n /\ b[i] = s[j] /\ (j = 1 <=> i = n)
    BY <1>1, <1>3
  <2>2. i # n => b[i + 1] = s[j - 1]
    <3>1. i # n => i + 1 \in 1 .. n /\ n + 1 - (i + 1) = j - 1
      BY <1>1
    <3>. QED BY <1>3, <3>1
  <2>. HIDE DEF j
  <2>. QED BY <1>4, <2>1, <2>2
<1>10. Way(links, z, "prev", b)
  BY <1>3, <1>8, <1>9 DEF Way
<1>. QED BY <1>3, <1>7, <1>10, FollowIs DEF b

\* The inductive invariant says more than ListIsSound.
LEMMA ShapeIsSound ==
  ASSUME ListInv
  PROVE  ListIsSound
<1>1. PICK chain, spare : ListShape(chain, spare)
  BY DEF ListInv
<1>2. Chain = chain /\ Follow(spareCell, "next") = spare
  BY <1>1, ShapeFollows
<1>3. Follow(last, "prev") = Back(chain)
  BY <1>1, BackFollows DEF Follow, ListShape
<1>4. /\ chain \in Seq(Cells) /\ Distinct(chain) /\ spare \in Seq(Cells) /\ Distinct(spare)
      /\ count = Len(chain) /\ count \in Nat
      /\ Ran(chain) \cap Ran(spare) = {} /\ Ran(chain) \cap extracted = {} /\ Ran(spare) \cap extracted = {}
      /\ Ran(chain) \cup Ran(spare) \cup extracted = Made /\ cellSegments \in 0 .. MaxCellSegments
      /\ ~broken => index = chain /\ count <= indexCount
  BY <1>1 DEF ListShape, Divided, Chained
<1>5. Len(Back(chain)) = count /\ \A i \in 1 .. count : Back(chain)[i] = chain[count + 1 - i]
  BY <1>4 DEF Back
<1>6. count + Len(spare) + Cardinality(extracted) = cellSegments * CellSegment
  <2>. DEFINE A == Ran(chain)
              B == Ran(spare)
              m == cellSegments * CellSegment
  <2>1. m \in Nat
    BY <1>4, SegmentsFit
  <2>2. IsFiniteSet(Made) /\ Cardinality(Made) = m
    <3>. HIDE DEF m
    <3>1. IsFiniteSet(1 .. m) /\ Cardinality(1 .. m) = m
      BY <2>1, FS_Interval
    <3>. QED BY <3>1 DEF Made, m
  <2>3. IsFiniteSet(A) /\ Cardinality(A) = Len(chain) /\ IsFiniteSet(B) /\ Cardinality(B) = Len(spare)
    BY <1>4, RanCount
  <2>4. extracted \in SUBSET Made
    BY <1>4
  <2>5. IsFiniteSet(extracted) /\ Cardinality(extracted) \in Nat
    BY <2>2, <2>4, FS_Subset, FS_CardinalityType
  <2>. HIDE DEF A, B
  <2>6. A \cap B = {} /\ (A \cup B) \cap extracted = {} /\ (A \cup B) \cup extracted = Made
    BY <1>4 DEF A, B
  <2>7. IsFiniteSet(A \cup B) /\ Cardinality(A \cup B) = Len(chain) + Len(spare)
    <3>1. Cardinality(A \cup B) = Cardinality(A) + Cardinality(B) - Cardinality({}) /\ IsFiniteSet(A \cup B)
      BY <2>3, <2>6, FS_Union
    <3>. QED BY <1>4, <2>3, <3>1, FS_EmptySet
  <2>8. Cardinality(Made) = Cardinality(A \cup B) + Cardinality(extracted) - Cardinality({})
    BY <2>5, <2>6, <2>7, FS_Union
  <2>. HIDE DEF m
  <2>9. m = count + Len(spare) + Cardinality(extracted)
    <3>1. Len(chain) \in Nat /\ Len(spare) \in Nat
      BY <1>4
    <3>. QED BY <1>4, <2>1, <2>2, <2>5, <2>7, <2>8, <3>1, FS_EmptySet
  <2>. QED BY <2>9 DEF m
<1>. QED BY <1>2, <1>3, <1>4, <1>5, <1>6 DEF ListIsSound, Made

\* An empty list is one.
LEMMA ListInitShape ==
  ASSUME ListInit
  PROVE  ListInv
<1>1. Null \notin Cells /\ 0 * CellSegment = 0 /\ 0 \in 0 .. MaxCellSegments
  BY CellsFacts, AListAssumption
<1>2. Made = {}
  BY <1>1 DEF ListInit, Made
<1>3. Ran(<<>>) = {} /\ <<>> \in Seq(Cells) /\ Len(<<>>) = 0
  BY DEF Ran
<1>4. cells \in [Cells -> Cell] /\ \A c \in Cells : cells[c] = Blank
  BY DEF ListInit, Blank, Cell, Targets
<1>5. Chained(cells, first, last, <<>>) /\ Way(cells, spareCell, "next", <<>>) /\ Distinct(<<>>)
  BY <1>3 DEF ListInit, Chained, Way, Distinct
<1>6. ListShape(<<>>, <<>>)
  BY <1>1, <1>2, <1>3, <1>4, <1>5 DEF ListShape, Divided, ListInit
<1>. QED BY <1>6 DEF ListInv

\* A position is after some cell, or before the first.
LEMMA AtPosition ==
  ASSUME NEW chain \in Seq(Cells), NEW at \in {Null} \cup Ran(chain)
  PROVE  \E k \in 0 .. Len(chain) : at = Before(chain, k)
<1>1. CASE at = Null
  BY <1>1 DEF Before
<1>2. CASE at # Null
  <2>1. PICK k \in 1 .. Len(chain) : chain[k] = at
    BY <1>2 DEF Ran
  <2>. QED BY <2>1 DEF Before
<1>. QED BY <1>1, <1>2

\* Put_After puts a cell that is in neither into the chain.
LEMMA PutStep ==
  ASSUME NEW f, NEW chain, NEW spare, NEW out, NEW all,
         Divided(f, chain, spare, out, all), Chained(f, first, last, chain),
         NEW k \in 0 .. Len(chain), NEW e \in all, Apart(chain, e), Apart(spare, e), f[e].prev = Null,
         f[e].data \in Values, PutAfter(f, Before(chain, k), e)
  PROVE  /\ Divided(cells', With(chain, k, e), spare, out \ {e}, all)
         /\ Chained(cells', first', last', With(chain, k, e))
         /\ \A c \in Ran(spare) : cells'[c] = f[c]
         /\ \A c \in Cells : cells'[c].data = f[c].data
         /\ count' = count + 1 /\ broken' /\ indexCount' = indexCount
<1>. DEFINE at == Before(chain, k)
            t == With(chain, k, e)
<1>1. /\ f \in [Cells -> Cell] /\ all \subseteq Cells /\ e \in Cells
      /\ chain \in Seq(Cells) /\ spare \in Seq(Cells) /\ Null \notin Cells
  BY CellsFacts DEF Divided, Chained
<1>2. (IF at = Null THEN first ELSE f[at].next) = After(chain, k)
  <2>1. Len(chain) \in Nat /\ k \in 0 .. Len(chain) /\ (chain = <<>> <=> Len(chain) = 0)
        /\ \A i \in 1 .. Len(chain) : chain[i] \in Cells
    BY <1>1
  <2>2. first = (IF chain = <<>> THEN Null ELSE chain[1])
        /\ \A i \in 1 .. Len(chain) : f[chain[i]].next = IF i = Len(chain) THEN Null ELSE chain[i + 1]
    BY DEF Chained, Way
  <2>3. CASE k = 0
    BY <2>1, <2>2, <2>3 DEF Before, After
  <2>4. CASE k # 0
    <3>1. k \in 1 .. Len(chain) /\ at = chain[k] /\ at # Null
      BY <1>1, <2>1, <2>4 DEF Before
    <3>. QED BY <2>2, <3>1 DEF After
  <2>. QED BY <2>3, <2>4
<1>3. cells' = Put(f, at, After(chain, k), e)
  <2>. DEFINE next == IF at = Null THEN first ELSE f[at].next
  <2>1. cells' = Put(f, at, next, e)
    BY DEF PutAfter, Put
  <2>. HIDE DEF next
  <2>2. next = After(chain, k)
    BY <1>2 DEF next
  <2>. QED BY <2>1, <2>2
<1>4. /\ count' = count + 1 /\ broken' /\ indexCount' = indexCount
      /\ first' = (IF at = Null THEN e ELSE first) /\ last' = (IF last = at THEN e ELSE last)
  BY DEF PutAfter
<1>5. /\ Chained(cells', first', last', t)
      /\ cells' \in [Cells -> Cell]
      /\ \A c \in Cells : cells'[c].data = f[c].data
      /\ \A c \in Cells : Apart(chain, c) /\ c # e => cells'[c] = f[c]
  BY <1>1, <1>3, <1>4, PutChained
<1>6. /\ Ran(t) = Ran(chain) \cup {e}
      /\ \A c : Apart(chain, c) <=> c \notin Ran(chain)
      /\ \A c : Apart(spare, c) <=> c \notin Ran(spare)
  BY <1>1, WithRan, ApartRan
<1>7. /\ Ran(chain) \cap Ran(spare) = {} /\ Ran(chain) \cap out = {} /\ Ran(spare) \cap out = {}
      /\ Ran(chain) \cup Ran(spare) \cup out = all
      /\ e \notin Ran(chain) /\ e \notin Ran(spare)
      /\ \A c \in Ran(chain) \cup out : f[c].data \in Values
      /\ \A c \in out : f[c].prev = Null
      /\ \A c \in Cells \ all : f[c] = Blank
      /\ Distinct(spare)
  BY <1>6 DEF Divided
<1>. HIDE DEF t, at
<1>8. \A c \in Ran(spare) : cells'[c] = f[c]
  BY <1>1, <1>5, <1>6, <1>7
<1>9. \A c \in Cells \ all : cells'[c] = Blank
  BY <1>1, <1>5, <1>6, <1>7
<1>10. \A c \in out \ {e} : cells'[c].prev = Null
  BY <1>1, <1>5, <1>6, <1>7
<1>11. \A c \in Ran(t) \cup (out \ {e}) : cells'[c].data \in Values
  BY <1>1, <1>5, <1>6, <1>7
<1>12. /\ Ran(t) \cap Ran(spare) = {} /\ Ran(t) \cap (out \ {e}) = {} /\ Ran(spare) \cap (out \ {e}) = {}
       /\ Ran(t) \cup Ran(spare) \cup (out \ {e}) = all
  BY <1>6, <1>7
<1>13. Divided(cells', t, spare, out \ {e}, all)
  BY <1>1, <1>5, <1>7, <1>9, <1>10, <1>11, <1>12 DEF Divided
<1>. QED BY <1>4, <1>5, <1>8, <1>13 DEF t

\* A cell is taken out of the chain, to be spare or the user's.
LEMMA ReleaseStep ==
  ASSUME NEW chain, NEW spare, NEW out, NEW all,
         Divided(cells, chain, spare, out, all), Chained(cells, first, last, chain),
         NEW k \in 1 .. Len(chain), NEW becomes \in Cell, CellRelease(chain[k], becomes)
  PROVE  LET t == Without(chain, k)
         IN  /\ Chained(cells', first', last', t)
             /\ cells' \in [Cells -> Cell] /\ cells'[chain[k]] = becomes
             /\ \A c \in Cells \ {chain[k]} : cells'[c].data = cells[c].data
             /\ \A c \in Ran(spare) \cup out \cup (Cells \ all) : cells'[c] = cells[c]
             /\ Ran(t) = Ran(chain) \ {chain[k]} /\ chain[k] \in Ran(chain)
             /\ count' = count - 1 /\ broken' /\ indexCount' = indexCount
<1>. DEFINE t == Without(chain, k)
            e == chain[k]
<1>1. /\ cells \in [Cells -> Cell] /\ all \subseteq Cells
      /\ chain \in Seq(Cells) /\ Distinct(chain) /\ spare \in Seq(Cells) /\ Null \notin Cells
  BY CellsFacts DEF Divided, Chained
<1>2. /\ cells' = Released(cells, cells[e].prev, cells[e].next, e, becomes)
      /\ count' = count - 1 /\ broken' /\ indexCount' = indexCount
      /\ first' = (IF e = first THEN cells[e].next ELSE first)
      /\ last' = (IF e = last THEN cells[e].prev ELSE last)
  BY DEF CellRelease, Released
<1>3. /\ Chained(cells', first', last', t)
      /\ cells' \in [Cells -> Cell] /\ cells'[e] = becomes
      /\ \A c \in Cells \ {e} : cells'[c].data = cells[c].data
      /\ \A c \in Cells : Apart(chain, c) => cells'[c] = cells[c]
  <2>. DEFINE before == cells[e].prev
              after == cells[e].next
              g == Released(cells, before, after, e, becomes)
  <2>1. cells \in [Cells -> Cell]
    BY <1>1
  <2>2. /\ Chained(g, IF e = first THEN after ELSE first, IF e = last THEN before ELSE last, t)
        /\ g \in [Cells -> Cell] /\ g[e] = becomes
        /\ \A c \in Cells \ {e} : g[c].data = cells[c].data
        /\ \A c \in Cells : Apart(chain, c) => g[c] = cells[c]
    BY <2>1, ReleasedChained
  <2>. QED BY <1>2, <2>2
<1>4. Ran(t) = Ran(chain) \ {e} /\ e \in Ran(chain)
  <2>1. e \in Ran(chain)
    BY <1>1 DEF Ran
  <2>. QED BY <1>1, <2>1, WithoutRan
<1>5. \A c : Apart(chain, c) <=> c \notin Ran(chain)
  BY <1>1, ApartRan
<1>6. /\ Ran(chain) \cap Ran(spare) = {} /\ Ran(chain) \cap out = {}
      /\ Ran(chain) \cup Ran(spare) \cup out = all
  BY DEF Divided
<1>7. \A c \in Ran(spare) \cup out \cup (Cells \ all) : c \in Cells /\ c \notin Ran(chain)
  BY <1>1, <1>6
<1>8. \A c \in Ran(spare) \cup out \cup (Cells \ all) : cells'[c] = cells[c]
  BY <1>3, <1>5, <1>7
<1>. QED BY <1>2, <1>3, <1>4, <1>8

\* A cell from the pool is nobody's, like one the user has.
Given(f, chain, c) ==
  /\ Chained(f, first, last, chain)
  /\ \E spare : /\ Divided(f, chain, spare, extracted \cup {c}, Made')
                /\ Way(f, spareCell', "next", spare)
                /\ Apart(spare, c)
  /\ c \in Made' /\ Apart(chain, c) /\ c \notin extracted
  /\ cellSegments' \in 0 .. MaxCellSegments

\* Cell_Allocate takes the first spare cell.
LEMMA SpareGiven ==
  ASSUME NEW chain, NEW spare, ListShape(chain, spare), NEW c \in Cells, NEW v \in Values,
         spareCell = c, spareCell' = cells[c].next, cellSegments' = cellSegments
  PROVE  Given([Linked EXCEPT ![c] = [Blank EXCEPT !.data = v]], chain, c)
<1>. DEFINE cell == [Blank EXCEPT !.data = v]
            f == [cells EXCEPT ![c] = cell]
            t == Without(spare, 1)
<1>1. Null \notin Cells /\ spareCell # Null
  BY CellsFacts
<1>2. Linked = cells
  BY <1>1 DEF Linked
<1>3. /\ Divided(cells, chain, spare, extracted, Made) /\ Chained(cells, first, last, chain)
      /\ Way(cells, c, "next", spare) /\ cellSegments \in 0 .. MaxCellSegments
  BY DEF ListShape
<1>4. /\ cells \in [Cells -> Cell] /\ spare \in Seq(Cells) /\ Distinct(spare) /\ chain \in Seq(Cells)
      /\ Ran(chain) \cap Ran(spare) = {} /\ Ran(chain) \cap extracted = {} /\ Ran(spare) \cap extracted = {}
      /\ Ran(chain) \cup Ran(spare) \cup extracted = Made /\ Made \subseteq Cells
      /\ \A e \in Ran(chain) \cup extracted : cells[e].data \in Values
      /\ \A e \in extracted : cells[e].prev = Null
      /\ \A e \in Cells \ Made : cells[e] = Blank
  BY <1>3 DEF Divided, Chained
<1>5. spare # <<>> /\ c = spare[1] /\ 1 \in 1 .. Len(spare)
  <2>1. c = IF spare = <<>> THEN Null ELSE spare[1]
    BY <1>3 DEF Way
  <2>. QED BY <1>1, <1>4, <2>1
<1>6. /\ t \in Seq(Cells) /\ Distinct(t) /\ Ran(t) = Ran(spare) \ {c} /\ c \in Ran(spare)
  <2>1. t \in Seq(Cells)
    BY <1>4, <1>5, WithoutCells
  <2>2. c \in Ran(spare)
    BY <1>4, <1>5 DEF Ran
  <2>. QED BY <1>4, <1>5, <2>1, <2>2, WithoutRan
<1>7. Way(cells, cells[c].next, "next", t)
  BY <1>3, <1>5, WayPop
<1>8. cell \in Cell /\ cell.prev = Null /\ cell.data = v
  BY DEF Cell, Blank, Targets
<1>. HIDE DEF cell
<1>9. f \in [Cells -> Cell] /\ f[c] = cell /\ \A x \in Cells \ {c} : f[x] = cells[x]
  BY <1>4, <1>8
<1>. HIDE DEF f, t
<1>10. c \notin Ran(chain) /\ c \notin extracted /\ c \notin Ran(t) /\ c \in Made /\ Ran(chain) \subseteq Cells
       /\ Ran(t) \subseteq Cells
  BY <1>4, <1>6
<1>11. Way(f, spareCell', "next", t)
  <2>1. \A x \in Ran(t) : f[x] = cells[x]
    BY <1>9, <1>10
  <2>. QED BY <1>7, <2>1, WaySame
<1>12. Chained(f, first, last, chain)
  <2>1. \A x \in Ran(chain) : f[x] = cells[x]
    BY <1>9, <1>10
  <2>. QED BY <1>3, <2>1, ChainedSame
<1>13. Divided(f, chain, t, extracted \cup {c}, Made)
  <2>1. \A e \in Ran(chain) \cup extracted \cup {c} : f[e].data \in Values
    BY <1>4, <1>8, <1>9, <1>10
  <2>2. \A e \in extracted \cup {c} : f[e].prev = Null
    BY <1>4, <1>8, <1>9, <1>10
  <2>3. \A e \in Cells \ Made : f[e] = Blank
    BY <1>4, <1>9, <1>10
  <2>4. Ran(chain) \cap Ran(t) = {} /\ Ran(chain) \cap (extracted \cup {c}) = {}
        /\ Ran(t) \cap (extracted \cup {c}) = {}
        /\ Ran(chain) \cup Ran(t) \cup (extracted \cup {c}) = Made
    BY <1>4, <1>6
  <2>. QED BY <1>4, <1>6, <1>9, <2>1, <2>2, <2>3, <2>4 DEF Divided
<1>14. Made' = Made
  BY DEF Made
<1>15. Apart(t, c) /\ Apart(chain, c)
  BY <1>4, <1>6, <1>10, ApartRan
<1>16. Given(f, chain, c)
  BY <1>3, <1>10, <1>11, <1>12, <1>13, <1>14, <1>15 DEF Given
<1>. QED BY <1>2, <1>16 DEF f, cell

\* Cell_Allocate makes a segment and takes its first cell.
LEMMA SegmentGiven ==
  ASSUME NEW chain, NEW spare, ListShape(chain, spare), NEW c \in Cells, NEW v \in Values,
         spareCell = Null, cellSegments < MaxCellSegments, c = cellSegments * CellSegment + 1,
         spareCell' = IF c + 1 \in NewSegment THEN c + 1 ELSE Null,
         cellSegments' = cellSegments + 1
  PROVE  Given([Linked EXCEPT ![c] = [Blank EXCEPT !.data = v]], chain, c)
<1>. DEFINE cell == [Blank EXCEPT !.data = v]
            f == [Linked EXCEPT ![c] = cell]
            n == CellSegment
            m == cellSegments * CellSegment
            t == [i \in 1 .. n - 1 |-> c + i]
<1>1. Null \notin Cells /\ n \in Nat /\ n >= 1
  BY CellsFacts, AListAssumption
<1>2. /\ Divided(cells, chain, spare, extracted, Made) /\ Chained(cells, first, last, chain)
      /\ Way(cells, spareCell, "next", spare) /\ cellSegments \in 0 .. MaxCellSegments
  BY DEF ListShape
<1>3. /\ cells \in [Cells -> Cell] /\ spare \in Seq(Cells) /\ chain \in Seq(Cells)
      /\ Ran(chain) \cap extracted = {}
      /\ Ran(chain) \cup Ran(spare) \cup extracted = Made /\ Made \subseteq Cells
      /\ \A e \in Ran(chain) \cup extracted : cells[e].data \in Values
      /\ \A e \in extracted : cells[e].prev = Null
      /\ \A e \in Cells \ Made : cells[e] = Blank
  BY <1>2 DEF Divided, Chained
<1>4. spare = <<>> /\ Ran(spare) = {}
  <2>1. spareCell = IF spare = <<>> THEN Null ELSE spare[1]
    BY <1>2 DEF Way
  <2>2. spare # <<>> => spare[1] \in Cells
    BY <1>3
  <2>3. spare = <<>>
    BY <1>1, <2>1, <2>2
  <2>. QED BY <2>3 DEF Ran
<1>5. m \in Nat /\ cellSegments \in Nat /\ cellSegments + 1 \in 0 .. MaxCellSegments
  BY <1>2, SegmentsFit, AListAssumption
<1>6. (cellSegments + 1) * CellSegment = m + n /\ m + n <= CellSegment * MaxCellSegments
  <2>1. (cellSegments + 1) * CellSegment = cellSegments * CellSegment + CellSegment
    <3>1. \A x, y \in Int : (x + 1) * y = x * y + y
      OBVIOUS
    <3>. QED BY <1>1, <1>5, <3>1
  <2>2. (cellSegments + 1) * CellSegment <= CellSegment * MaxCellSegments
    BY <1>5, SegmentsFit
  <2>. QED BY <2>1, <2>2
<1>7. NewSegment = m + 1 .. m + n /\ Made = 1 .. m /\ Made' = 1 .. m + n /\ c = m + 1
  BY <1>6 DEF NewSegment, Made
<1>8. Cells = 1 .. CellSegment * MaxCellSegments /\ CellSegment * MaxCellSegments \in Nat
  BY AListAssumption DEF Cells
<1>9. Made' \subseteq Cells
  <2>. DEFINE k == CellSegment * MaxCellSegments
  <2>1. k \in Nat /\ m + n <= k /\ Cells = 1 .. k
    BY <1>6, <1>8
  <2>. HIDE DEF k, m, n
  <2>. QED BY <1>1, <1>5, <1>7, <2>1
<1>10. cell \in Cell /\ cell.prev = Null /\ cell.data = v
  BY DEF Cell, Blank, Targets
<1>11. Linked = [x \in Cells |-> IF x \in NewSegment /\ x + 1 \in NewSegment
                                 THEN [Blank EXCEPT !.next = x + 1] ELSE cells[x]]
  BY DEF Linked
<1>. HIDE DEF cell, m, n
<1>12. NewSegment \subseteq Made' /\ Made' = Made \cup NewSegment /\ Made \cap NewSegment = {} /\ c \in NewSegment
  BY <1>1, <1>5, <1>7
<1>13. \A x \in NewSegment : x + 1 \in NewSegment => x + 1 \in Cells /\ [Blank EXCEPT !.next = x + 1] \in Cell
  <2>1. \A y \in Cells : [Blank EXCEPT !.next = y] \in Cell
    BY DEF Cell, Blank, Targets
  <2>. QED BY <1>9, <1>12, <2>1
<1>14. /\ Linked \in [Cells -> Cell]
       /\ \A x \in NewSegment : Linked[x].next = IF x + 1 \in NewSegment THEN x + 1 ELSE Null
       /\ \A x \in Cells \ NewSegment : Linked[x] = cells[x]
  <2>1. Linked \in [Cells -> Cell]
    BY <1>3, <1>11, <1>13
  <2>2. ASSUME NEW x \in NewSegment
        PROVE  Linked[x].next = IF x + 1 \in NewSegment THEN x + 1 ELSE Null
    <3>1. x \in Cells /\ cells[x] = Blank
      BY <1>3, <1>9, <1>12
    <3>. QED BY <1>11, <3>1 DEF Blank
  <2>3. \A x \in Cells \ NewSegment : Linked[x] = cells[x]
    BY <1>11
  <2>. QED BY <2>1, <2>2, <2>3
<1>15. /\ f \in [Cells -> Cell] /\ f[c] = cell
       /\ \A x \in Cells \ {c} : f[x] = Linked[x]
  BY <1>10, <1>14
<1>. HIDE DEF f
<1>16. /\ t \in Seq(Cells) /\ Len(t) = n - 1 /\ \A i \in 1 .. n - 1 : t[i] = c + i
       /\ Ran(t) = NewSegment \ {c} /\ Distinct(t)
  <2>1. \A i \in 1 .. n - 1 : c + i \in NewSegment /\ c + i # c
    BY <1>1, <1>5, <1>7
  <2>2. t \in [1 .. n - 1 -> Cells] /\ n - 1 \in Nat
    BY <1>1, <1>9, <1>12, <2>1
  <2>3. t \in Seq(Cells) /\ Len(t) = n - 1 /\ DOMAIN t = 1 .. n - 1
    BY <2>2
  <2>4. \A i \in 1 .. n - 1 : t[i] = c + i
    OBVIOUS
  <2>. HIDE DEF t
  <2>5. ASSUME NEW x \in NewSegment, x # c
        PROVE  x \in Ran(t)
    <3>. DEFINE i == x - c
    <3>1. i \in 1 .. n - 1 /\ c + i = x
      BY <1>1, <1>5, <1>7, <2>5
    <3>. QED BY <2>3, <2>4, <3>1 DEF Ran
  <2>6. Ran(t) = NewSegment \ {c}
    BY <2>1, <2>3, <2>4, <2>5 DEF Ran
  <2>7. Distinct(t)
    BY <1>5, <1>7, <2>3, <2>4 DEF Distinct
  <2>. QED BY <2>3, <2>4, <2>6, <2>7
<1>. HIDE DEF t
<1>17. Way(f, spareCell', "next", t)
  <2>1. \A x \in NewSegment : x + 1 \in NewSegment <=> x # m + n
    BY <1>1, <1>5, <1>7
  <2>2. t = <<>> <=> n = 1
    BY <1>1, <1>16
  <2>3. spareCell' = IF t = <<>> THEN Null ELSE t[1]
    BY <1>1, <1>5, <1>7, <1>12, <1>16, <2>1, <2>2
  <2>4. ASSUME NEW i \in 1 .. n - 1
        PROVE  f[t[i]].next = IF i = n - 1 THEN Null ELSE t[i + 1]
    <3>1. t[i] = c + i /\ c + i \in NewSegment /\ c + i # c /\ (c + i = m + n <=> i = n - 1)
      <4>1. t[i] = c + i
        BY <1>16
      <4>2. c + i \in m + 1 .. m + n /\ c + i # c /\ (c + i = m + n <=> i = n - 1)
        BY <1>1, <1>5, <1>7
      <4>. QED BY <1>7, <4>1, <4>2
    <3>2. f[t[i]] = Linked[c + i]
      BY <1>9, <1>12, <1>15, <3>1
    <3>3. f[t[i]].next = IF i = n - 1 THEN Null ELSE c + i + 1
      BY <1>14, <2>1, <3>1, <3>2
    <3>4. i # n - 1 => t[i + 1] = c + i + 1
      BY <1>1, <1>5, <1>7, <1>16
    <3>. QED BY <3>3, <3>4
  <2>. QED BY <1>16, <2>3, <2>4 DEF Way
<1>18. \A x \in Cells \ NewSegment : f[x] = cells[x]
  BY <1>12, <1>14, <1>15
<1>19. Made \subseteq Cells \ NewSegment /\ Ran(chain) \subseteq Made /\ extracted \subseteq Made
       /\ c \notin Ran(chain) /\ c \notin extracted /\ c \notin Ran(t) /\ c \in Made'
  BY <1>3, <1>12, <1>16
<1>20. Chained(f, first, last, chain)
  <2>1. \A x \in Ran(chain) : f[x] = cells[x]
    BY <1>18, <1>19
  <2>. QED BY <1>2, <2>1, ChainedSame
<1>21. Divided(f, chain, t, extracted \cup {c}, Made')
  <2>1. \A e \in Ran(chain) \cup (extracted \cup {c}) : f[e].data \in Values
    BY <1>3, <1>10, <1>15, <1>18, <1>19
  <2>2. \A e \in extracted \cup {c} : f[e].prev = Null
    BY <1>3, <1>10, <1>15, <1>18, <1>19
  <2>3. \A e \in Cells \ Made' : f[e] = Blank
    BY <1>3, <1>12, <1>18
  <2>4. Ran(chain) \cap Ran(t) = {} /\ Ran(chain) \cap (extracted \cup {c}) = {}
        /\ Ran(t) \cap (extracted \cup {c}) = {}
        /\ Ran(chain) \cup Ran(t) \cup (extracted \cup {c}) = Made'
    <3>. DEFINE A == Ran(chain)
                B == Ran(t)
    <3>1. A \cup extracted = Made /\ A \cap extracted = {} /\ B \cup {c} = NewSegment
          /\ B \cap Made = {} /\ c \notin A /\ c \notin B /\ c \notin extracted
      <4>1. A \cup extracted = Made
        BY <1>3, <1>4
      <4>2. A \cap extracted = {}
        BY <1>3
      <4>3. B \cup {c} = NewSegment
        BY <1>12, <1>16
      <4>4. B \cap Made = {}
        BY <1>12, <1>16
      <4>5. c \notin A /\ c \notin B /\ c \notin extracted
        BY <1>19
      <4>. QED BY <4>1, <4>2, <4>3, <4>4, <4>5
    <3>2. Made' = Made \cup NewSegment
      BY <1>12
    <3>. HIDE DEF A, B
    <3>3. A \cup B \cup (extracted \cup {c}) = (A \cup extracted) \cup (B \cup {c})
      OBVIOUS
    <3>4. A \cup B \cup (extracted \cup {c}) = Made'
      BY <3>1, <3>2, <3>3
    <3>5. A \cap B = {} /\ A \cap (extracted \cup {c}) = {} /\ B \cap (extracted \cup {c}) = {}
      BY <3>1
    <3>. QED BY <3>4, <3>5 DEF A, B
  <2>. QED BY <1>9, <1>15, <1>16, <2>1, <2>2, <2>3, <2>4 DEF Divided
<1>22. Apart(t, c) /\ Apart(chain, c)
  BY <1>3, <1>16, <1>19, ApartRan
<1>23. Given(f, chain, c)
  BY <1>5, <1>17, <1>19, <1>20, <1>21, <1>22 DEF Given
<1>. QED BY <1>23 DEF f, cell

\* What the users see of the chain s
Items(links, s) == [i \in 1 .. Len(s) |-> links[s[i]].data]

\* What a step makes of a sequence
Grown(s, t)   == \E k \in 0 .. Len(s), v \in Values : t = With(s, k, v)
Shrunk(s, t)  == \E k \in 1 .. Len(s) : t = Without(s, k)
Changed(s, t) == \E k \in 1 .. Len(s), v \in Values : t = [s EXCEPT ![k] = v]

\* The users see as much as there is in the chain.
LEMMA ItemsFacts ==
  ASSUME NEW f, NEW s \in Seq(Cells), \A c \in Ran(s) : f[c].data \in Values
  PROVE  /\ Items(f, s) \in Seq(Values) /\ Len(Items(f, s)) = Len(s)
         /\ \A i \in 1 .. Len(s) : Items(f, s)[i] = f[s[i]].data
<1>1. \A i \in 1 .. Len(s) : f[s[i]].data \in Values
  BY DEF Ran
<1>. QED BY <1>1 DEF Items

\* They see one more when a cell is put into it,
LEMMA ItemsGrow ==
  ASSUME NEW f, NEW g, NEW s \in Seq(Cells), NEW k \in 0 .. Len(s), NEW e \in Cells,
         \A c \in Ran(s) : g[c].data = f[c].data, g[e].data \in Values
  PROVE  Grown(Items(f, s), Items(g, With(s, k, e)))
<1>. DEFINE n == Len(s)
            t == With(s, k, e)
            a == Items(f, s)
            b == Items(g, t)
            v == g[e].data
<1>1. /\ Len(t) = n + 1 /\ n \in Nat
      /\ \A i \in 1 .. n + 1 : t[i] = IF i <= k THEN s[i] ELSE IF i = k + 1 THEN e ELSE s[i - 1]
  BY WithCells
<1>2. Len(a) = n /\ \A i \in 1 .. n : a[i] = f[s[i]].data
  BY DEF Items
<1>3. b = [i \in 1 .. n + 1 |-> g[t[i]].data]
  BY <1>1 DEF Items
<1>4. \A i \in 1 .. n : g[s[i]].data = f[s[i]].data
  BY DEF Ran
<1>5. k \in 0 .. n
  OBVIOUS
<1>. HIDE DEF n, t, a, v
<1>6. ASSUME NEW i \in 1 .. n + 1
      PROVE  g[t[i]].data = IF i <= k THEN a[i] ELSE IF i = k + 1 THEN v ELSE a[i - 1]
  <2>1. CASE i <= k
    <3>1. i \in 1 .. n /\ t[i] = s[i]
      BY <1>1, <1>5, <2>1
    <3>. QED BY <1>2, <1>4, <2>1, <3>1
  <2>2. CASE i = k + 1
    <3>1. ~(i <= k) /\ t[i] = e
      BY <1>1, <1>5, <2>2
    <3>. QED BY <2>2, <3>1 DEF v
  <2>3. CASE i > k + 1
    <3>1. i - 1 \in 1 .. n /\ t[i] = s[i - 1] /\ ~(i <= k) /\ i # k + 1
      BY <1>1, <1>5, <2>3
    <3>. QED BY <1>2, <1>4, <3>1
  <2>. QED BY <1>1, <1>5, <2>1, <2>2, <2>3
<1>7. b = With(a, k, v)
  BY <1>2, <1>3, <1>6 DEF With
<1>. QED BY <1>2, <1>5, <1>7 DEF Grown, a, t, v

\* and one less when a cell is taken out of it.
LEMMA ItemsShrink ==
  ASSUME NEW f, NEW g, NEW s \in Seq(Cells), Distinct(s), NEW k \in 1 .. Len(s),
         \A c \in Cells \ {s[k]} : g[c].data = f[c].data
  PROVE  Shrunk(Items(f, s), Items(g, Without(s, k)))
<1>. DEFINE n == Len(s)
            t == Without(s, k)
            a == Items(f, s)
            b == Items(g, t)
<1>1. /\ Len(t) = n - 1 /\ n \in Nat
      /\ \A i \in 1 .. n - 1 : t[i] = IF i < k THEN s[i] ELSE s[i + 1]
  BY WithoutCells
<1>2. Len(a) = n /\ \A i \in 1 .. n : a[i] = f[s[i]].data
  BY DEF Items
<1>3. b = [i \in 1 .. n - 1 |-> g[t[i]].data]
  BY <1>1 DEF Items
<1>4. k \in 1 .. n
  OBVIOUS
<1>5. \A i \in 1 .. n : i # k => g[s[i]].data = f[s[i]].data
  BY DEF Distinct
<1>. HIDE DEF n, t, a
<1>6. ASSUME NEW i \in 1 .. n - 1
      PROVE  g[t[i]].data = IF i < k THEN a[i] ELSE a[i + 1]
  <2>1. CASE i < k
    <3>1. i \in 1 .. n /\ i # k /\ t[i] = s[i]
      BY <1>1, <1>4, <2>1
    <3>. QED BY <1>2, <1>5, <2>1, <3>1
  <2>2. CASE ~(i < k)
    <3>1. i + 1 \in 1 .. n /\ i + 1 # k /\ t[i] = s[i + 1]
      BY <1>1, <1>4, <2>2
    <3>. QED BY <1>2, <1>5, <2>2, <3>1
  <2>. QED BY <2>1, <2>2
<1>7. b = Without(a, k)
  BY <1>2, <1>3, <1>6 DEF Without
<1>. QED BY <1>2, <1>4, <1>7 DEF Shrunk, a, t

\* A cell from the pool is put into the list.
LEMMA PutShape ==
  ASSUME NEW f, NEW chain, NEW c, Given(f, chain, c), count = Len(chain), indexCount \in Nat,
         f[c].prev = Null, f[c].data \in Values, \A e \in Ran(chain) : f[e].data = cells[e].data,
         NEW k \in 0 .. Len(chain), PutAfter(f, Before(chain, k), c),
         extracted' = extracted
  PROVE  \E spare : /\ ListShape(With(chain, k, c), spare)'
                    /\ Grown(Items(cells, chain), Items(cells', With(chain, k, c)))
<1>. DEFINE t == With(chain, k, c)
<1>1. PICK spare : /\ Divided(f, chain, spare, extracted \cup {c}, Made')
                   /\ Way(f, spareCell', "next", spare)
                   /\ Apart(spare, c)
  BY DEF Given
<1>2. /\ Chained(f, first, last, chain) /\ c \in Made' /\ Apart(chain, c) /\ c \notin extracted
      /\ cellSegments' \in 0 .. MaxCellSegments
  BY DEF Given
<1>3. /\ Divided(cells', t, spare, (extracted \cup {c}) \ {c}, Made')
      /\ Chained(cells', first', last', t)
      /\ \A e \in Ran(spare) : cells'[e] = f[e]
      /\ \A e \in Cells : cells'[e].data = f[e].data
      /\ count' = count + 1 /\ broken' /\ indexCount' = indexCount
  BY <1>1, <1>2, PutStep
<1>4. chain \in Seq(Cells) /\ c \in Cells
  BY <1>1, <1>2 DEF Chained, Divided
<1>5. (extracted \cup {c}) \ {c} = extracted'
  BY <1>2
<1>6. Way(cells', spareCell', "next", spare)
  BY <1>1, <1>3, WaySame
<1>7. count' = Len(t)
  BY <1>3, <1>4, WithCells
<1>8. Divided(cells', t, spare, extracted', Made')
  BY <1>3, <1>5
<1>. HIDE DEF t
<1>9. ListShape(t, spare)'
  BY <1>2, <1>3, <1>6, <1>7, <1>8 DEF ListShape
<1>10. cells'[c].data \in Values /\ \A e \in Ran(chain) : cells'[e].data = cells[e].data
  <2>1. Ran(chain) \subseteq Cells
    BY <1>4 DEF Ran
  <2>. QED BY <1>3, <1>4, <2>1
<1>11. Grown(Items(cells, chain), Items(cells', With(chain, k, c)))
  BY <1>4, <1>10, ItemsGrow
<1>. QED BY <1>9, <1>11 DEF t

\* Add_After adds one to the list, if there is memory for it.
LEMMA AddAfterStep ==
  ASSUME NEW chain, NEW spare, ListShape(chain, spare), NEW at \in Positions, NEW v \in Values,
         AddAfter(at, v)
  PROVE  \E t, u : /\ ListShape(t, u)'
                   /\ \/ Items(cells', t) = Items(cells, chain)
                      \/ Grown(Items(cells, chain), Items(cells', t))
<1>0. chain \in Seq(Cells) /\ count = Len(chain) /\ indexCount \in Nat /\ Null \notin Cells
  BY CellsFacts DEF ListShape, Chained
<1>1. PICK k \in 0 .. Len(chain) : at = Before(chain, k)
  <2>1. at \in {Null} \cup Ran(chain)
    BY ShapeFollows DEF Positions
  <2>. QED BY <1>0, <2>1, AtPosition
<1>2. CASE spareCell = Null /\ cellSegments = MaxCellSegments
           /\ UNCHANGED <<chainVars, indexVars, poolVars, extracted>>
  <2>1. ListShape(chain, spare)' /\ cells' = cells
    BY <1>2 DEF chainVars, indexVars, poolVars, ListShape, Made
  <2>. QED BY <2>1
<1>3. ASSUME NEW c \in Cells, CellAllocate(c),
             PutAfter([Linked EXCEPT ![c] = [Blank EXCEPT !.data = v]], at, c), UNCHANGED extracted
      PROVE  \E t, u : ListShape(t, u)' /\ Grown(Items(cells, chain), Items(cells', t))
  <2>. DEFINE f == [Linked EXCEPT ![c] = [Blank EXCEPT !.data = v]]
  <2>1. Given(f, chain, c)
    <3>1. CASE spareCell = c /\ spareCell' = cells[c].next /\ UNCHANGED cellSegments
      BY <3>1, SpareGiven
    <3>2. CASE /\ spareCell = Null /\ cellSegments < MaxCellSegments
               /\ c = cellSegments * CellSegment + 1
               /\ spareCell' = IF c + 1 \in NewSegment THEN c + 1 ELSE Null
               /\ cellSegments' = cellSegments + 1
      BY <3>2, SegmentGiven
    <3>. QED BY <1>3, <3>1, <3>2 DEF CellAllocate
  <2>2. f[c].prev = Null /\ f[c].data \in Values
    <3>1. DOMAIN Linked = Cells
      BY DEF Linked, ListShape, Divided
    <3>2. f[c] = [Blank EXCEPT !.data = v]
      BY <3>1
    <3>. QED BY <3>2 DEF Blank
  <2>3. \A e \in Ran(chain) : f[e].data = cells[e].data
    <3>1. Apart(chain, c)
      BY <2>1 DEF Given
    <3>2. \A e \in Ran(chain) : e # c /\ e \in Cells /\ e \in Made
      BY <1>0, <3>1 DEF Apart, Ran, ListShape, Divided
    <3>3. cellSegments * CellSegment \in Nat
      BY SegmentsFit DEF ListShape
    <3>4. \A e \in Made : e \notin NewSegment
      <4>. DEFINE m == cellSegments * CellSegment
                  m2 == (cellSegments + 1) * CellSegment
      <4>1. Made = 1 .. m /\ NewSegment = m + 1 .. m2
        BY DEF Made, NewSegment
      <4>. HIDE DEF m, m2
      <4>2. m \in Nat
        BY <3>3 DEF m
      <4>. QED BY <4>1, <4>2
    <3>5. ASSUME NEW e \in Ran(chain)
          PROVE  f[e] = cells[e]
      <4>1. e \in Cells /\ e # c /\ e \notin NewSegment
        BY <3>2, <3>4
      <4>2. Linked[e] = cells[e]
        BY <4>1 DEF Linked
      <4>3. f[e] = Linked[e]
        BY <4>1
      <4>. QED BY <4>2, <4>3
    <3>. QED BY <3>5
  <2>. HIDE DEF f
  <2>4. PutAfter(f, Before(chain, k), c)
    BY <1>1, <1>3 DEF f
  <2>5. extracted' = extracted
    BY <1>3
  <2>6. \E u : /\ ListShape(With(chain, k, c), u)'
               /\ Grown(Items(cells, chain), Items(cells', With(chain, k, c)))
    BY <1>0, <2>1, <2>2, <2>3, <2>4, <2>5, PutShape
  <2>. QED BY <2>6
<1>. QED BY <1>2, <1>3 DEF AddAfter

\* So does Put_After with a cell that was extracted.
LEMMA PutBackStep ==
  ASSUME NEW chain, NEW spare, ListShape(chain, spare), NEW at \in Positions, NEW e \in extracted,
         PutBack(at, e)
  PROVE  \E t, u : ListShape(t, u)' /\ Grown(Items(cells, chain), Items(cells', t))
<1>1. /\ Divided(cells, chain, spare, extracted, Made) /\ Chained(cells, first, last, chain)
      /\ Way(cells, spareCell, "next", spare) /\ count = Len(chain) /\ indexCount \in Nat
      /\ cellSegments \in 0 .. MaxCellSegments
  BY DEF ListShape
<1>2. /\ chain \in Seq(Cells) /\ spare \in Seq(Cells)
      /\ Ran(chain) \cap extracted = {} /\ Ran(spare) \cap extracted = {}
      /\ Ran(chain) \cup Ran(spare) \cup extracted = Made /\ Made \subseteq Cells
      /\ \A c \in Ran(chain) \cup extracted : cells[c].data \in Values
      /\ \A c \in extracted : cells[c].prev = Null
  BY <1>1 DEF Divided, Chained
<1>3. PICK k \in 0 .. Len(chain) : at = Before(chain, k)
  <2>1. at \in {Null} \cup Ran(chain)
    BY ShapeFollows DEF Positions
  <2>. QED BY <1>2, <2>1, AtPosition
<1>4. e \in Made /\ e \in Cells /\ Apart(chain, e) /\ Apart(spare, e) /\ Ran(chain) \subseteq Cells
      /\ cells[e].prev = Null /\ cells[e].data \in Values
  <2>1. e \notin Ran(chain) /\ e \notin Ran(spare)
    BY <1>2
  <2>. QED BY <1>2, <2>1, ApartRan
<1>5. /\ PutAfter(cells, Before(chain, k), e)
      /\ extracted' = extracted \ {e} /\ spareCell' = spareCell /\ cellSegments' = cellSegments
  BY <1>3 DEF PutBack, poolVars
<1>. DEFINE t == With(chain, k, e)
<1>6. /\ Divided(cells', t, spare, extracted \ {e}, Made)
      /\ Chained(cells', first', last', t)
      /\ \A c \in Ran(spare) : cells'[c] = cells[c]
      /\ \A c \in Cells : cells'[c].data = cells[c].data
      /\ count' = count + 1 /\ broken' /\ indexCount' = indexCount
  BY <1>1, <1>4, <1>5, PutStep
<1>7. Way(cells', spareCell', "next", spare)
  BY <1>1, <1>5, <1>6, WaySame
<1>8. count' = Len(t)
  BY <1>1, <1>2, <1>4, <1>6, WithCells
<1>9. Made' = Made
  BY <1>5 DEF Made
<1>. HIDE DEF t
<1>10. ListShape(t, spare)'
  BY <1>1, <1>5, <1>6, <1>7, <1>8, <1>9 DEF ListShape
<1>11. cells'[e].data \in Values /\ \A c \in Ran(chain) : cells'[c].data = cells[c].data
  BY <1>4, <1>6
<1>12. Grown(Items(cells, chain), Items(cells', t))
  BY <1>2, <1>4, <1>11, ItemsGrow DEF t
<1>. QED BY <1>10, <1>12

\* What Del and Extract have in common
LEMMA TakenOut ==
  ASSUME NEW chain, NEW spare, ListShape(chain, spare), NEW c, InList(c)
  PROVE  /\ \E k \in 1 .. Len(chain) : c = chain[k]
         /\ c \in Cells /\ c \in Ran(chain) /\ cells[c] \in Cell /\ cells[c].data \in Values
<1>1. chain \in Seq(Cells) /\ cells \in [Cells -> Cell] /\ \A x \in Ran(chain) : cells[x].data \in Values
  BY DEF ListShape, Chained, Divided
<1>2. c \in Ran(chain)
  BY ShapeFollows DEF InList
<1>. QED BY <1>1, <1>2 DEF Ran

\* Del takes a cell out, and it is the first spare one then.
LEMMA DelCellStep ==
  ASSUME NEW chain, NEW spare, ListShape(chain, spare), NEW c, DelCell(c)
  PROVE  \E t, u : ListShape(t, u)' /\ Shrunk(Items(cells, chain), Items(cells', t))
<1>1. /\ Divided(cells, chain, spare, extracted, Made) /\ Chained(cells, first, last, chain)
      /\ Way(cells, spareCell, "next", spare) /\ count = Len(chain) /\ indexCount \in Nat
      /\ cellSegments \in 0 .. MaxCellSegments
  BY DEF ListShape
<1>2. /\ chain \in Seq(Cells) /\ Distinct(chain) /\ spare \in Seq(Cells) /\ Distinct(spare)
      /\ Ran(chain) \cap Ran(spare) = {} /\ Ran(chain) \cap extracted = {} /\ Ran(spare) \cap extracted = {}
      /\ Ran(chain) \cup Ran(spare) \cup extracted = Made /\ Made \subseteq Cells
      /\ \A x \in Ran(chain) \cup extracted : cells[x].data \in Values
      /\ \A x \in extracted : cells[x].prev = Null
      /\ \A x \in Cells \ Made : cells[x] = Blank
  BY <1>1 DEF Divided, Chained
<1>3. InList(c) /\ CellRelease(c, FreedCell) /\ spareCell' = c /\ cellSegments' = cellSegments /\ extracted' = extracted
  BY DEF DelCell
<1>4. PICK k \in 1 .. Len(chain) : c = chain[k]
  BY <1>3, TakenOut
<1>5. c \in Cells /\ c \in Ran(chain)
  BY <1>3, TakenOut
<1>6. FreedCell \in Cell /\ FreedCell.next = spareCell
  <2>1. spareCell \in Targets
    BY <1>1, <1>2 DEF Way, Targets
  <2>. QED BY <2>1 DEF FreedCell, Blank, Cell, Targets
<1>. DEFINE t == Without(chain, k)
            u == With(spare, 0, c)
<1>7. /\ Chained(cells', first', last', t)
      /\ cells' \in [Cells -> Cell] /\ cells'[c] = FreedCell
      /\ \A x \in Cells \ {c} : cells'[x].data = cells[x].data
      /\ \A x \in Ran(spare) \cup extracted \cup (Cells \ Made) : cells'[x] = cells[x]
      /\ Ran(t) = Ran(chain) \ {c}
      /\ count' = count - 1 /\ broken' /\ indexCount' = indexCount
  BY <1>1, <1>3, <1>4, <1>6, ReleaseStep
<1>8. Way(cells', spareCell', "next", u)
  <2>1. Way(cells', spareCell, "next", spare)
    BY <1>1, <1>7, WaySame
  <2>. QED BY <1>3, <1>5, <1>6, <1>7, <2>1, WayPush
<1>9. u \in Seq(Cells) /\ Ran(u) = Ran(spare) \cup {c} /\ Distinct(u)
  <2>1. 0 \in 0 .. Len(spare) /\ c \notin Ran(spare)
    BY <1>2, <1>5
  <2>. QED BY <1>2, <1>5, <2>1, WithCells, WithRan
<1>10. count' = Len(t)
  BY <1>1, <1>2, <1>7, WithoutCells
<1>11. Shrunk(Items(cells, chain), Items(cells', t))
  BY <1>2, <1>4, <1>7, ItemsShrink
<1>12. Made' = Made
  BY <1>3 DEF Made
<1>. HIDE DEF t, u
<1>13. /\ Ran(t) \cap Ran(u) = {} /\ Ran(t) \cap extracted = {} /\ Ran(u) \cap extracted = {}
       /\ Ran(t) \cup Ran(u) \cup extracted = Made
  <2>1. Ran(t) \cap Ran(u) = {} /\ Ran(t) \cap extracted = {} /\ Ran(u) \cap extracted = {}
    BY <1>2, <1>5, <1>7, <1>9
  <2>2. Ran(t) \cup Ran(u) = Ran(chain) \cup Ran(spare)
    BY <1>5, <1>7, <1>9
  <2>. QED BY <1>2, <2>1, <2>2
<1>14. \A x \in Ran(t) \cup extracted : cells'[x].data \in Values
  <2>1. \A x \in Ran(t) \cup extracted : x \in Cells \ {c} /\ cells[x].data \in Values
    BY <1>2, <1>5, <1>7
  <2>. QED BY <1>7, <2>1
<1>15. Divided(cells', t, u, extracted', Made')
  <2>1. \A x \in extracted : cells'[x].prev = Null
    BY <1>2, <1>7
  <2>2. \A x \in Cells \ Made : cells'[x] = Blank
    BY <1>2, <1>7
  <2>. QED BY <1>2, <1>3, <1>7, <1>9, <1>12, <1>13, <1>14, <2>1, <2>2 DEF Divided
<1>16. ListShape(t, u)'
  BY <1>1, <1>3, <1>7, <1>8, <1>10, <1>15 DEF ListShape
<1>. QED BY <1>11, <1>16

\* Extract takes a cell out, and the user has it then.
LEMMA ExtractStep ==
  ASSUME NEW chain, NEW spare, ListShape(chain, spare), NEW c, Extract(c)
  PROVE  \E t, u : ListShape(t, u)' /\ Shrunk(Items(cells, chain), Items(cells', t))
<1>1. /\ Divided(cells, chain, spare, extracted, Made) /\ Chained(cells, first, last, chain)
      /\ Way(cells, spareCell, "next", spare) /\ count = Len(chain) /\ indexCount \in Nat
      /\ cellSegments \in 0 .. MaxCellSegments
  BY DEF ListShape
<1>2. /\ chain \in Seq(Cells) /\ Distinct(chain) /\ spare \in Seq(Cells) /\ Distinct(spare)
      /\ Ran(chain) \cap Ran(spare) = {} /\ Ran(chain) \cap extracted = {} /\ Ran(spare) \cap extracted = {}
      /\ Ran(chain) \cup Ran(spare) \cup extracted = Made /\ Made \subseteq Cells
      /\ \A x \in Ran(chain) \cup extracted : cells[x].data \in Values
      /\ \A x \in extracted : cells[x].prev = Null
      /\ \A x \in Cells \ Made : cells[x] = Blank
  BY <1>1 DEF Divided, Chained
<1>. DEFINE becomes == [cells[c] EXCEPT !.next = Null, !.prev = Null]
<1>3. /\ InList(c) /\ CellRelease(c, becomes)
      /\ spareCell' = spareCell /\ cellSegments' = cellSegments /\ extracted' = extracted \cup {c}
  BY DEF Extract, poolVars
<1>4. PICK k \in 1 .. Len(chain) : c = chain[k]
  BY <1>3, TakenOut
<1>5. c \in Cells /\ c \in Ran(chain) /\ cells[c] \in Cell /\ cells[c].data \in Values
  BY <1>3, TakenOut
<1>6. becomes \in Cell /\ becomes.prev = Null /\ becomes.data = cells[c].data
  BY <1>5 DEF Cell, Targets
<1>. HIDE DEF becomes
<1>. DEFINE t == Without(chain, k)
            out == extracted \cup {c}
<1>7. /\ Chained(cells', first', last', t)
      /\ cells' \in [Cells -> Cell] /\ cells'[c] = becomes
      /\ \A x \in Cells \ {c} : cells'[x].data = cells[x].data
      /\ \A x \in Ran(spare) \cup extracted \cup (Cells \ Made) : cells'[x] = cells[x]
      /\ Ran(t) = Ran(chain) \ {c}
      /\ count' = count - 1 /\ broken' /\ indexCount' = indexCount
  BY <1>1, <1>3, <1>4, <1>6, ReleaseStep
<1>8. Way(cells', spareCell', "next", spare)
  BY <1>1, <1>3, <1>7, WaySame
<1>10. count' = Len(t)
  BY <1>1, <1>2, <1>7, WithoutCells
<1>11. Shrunk(Items(cells, chain), Items(cells', t))
  BY <1>2, <1>4, <1>7, ItemsShrink
<1>12. Made' = Made
  BY <1>3 DEF Made
<1>. HIDE DEF t
<1>13. /\ Ran(t) \cap Ran(spare) = {} /\ Ran(t) \cap out = {} /\ Ran(spare) \cap out = {}
       /\ Ran(t) \cup Ran(spare) \cup out = Made
  <2>1. Ran(t) \cap Ran(spare) = {} /\ Ran(t) \cap out = {} /\ Ran(spare) \cap out = {}
    BY <1>2, <1>5, <1>7
  <2>2. Ran(t) \cup out = Ran(chain) \cup extracted
    BY <1>5, <1>7
  <2>. QED BY <1>2, <2>1, <2>2
<1>14. \A x \in Ran(t) \cup out : cells'[x].data \in Values
  <2>1. \A x \in Ran(t) \cup extracted : x \in Cells \ {c} /\ cells[x].data \in Values
    BY <1>2, <1>5, <1>7
  <2>. QED BY <1>5, <1>6, <1>7, <2>1
<1>15. Divided(cells', t, spare, extracted', Made')
  <2>1. \A x \in out : cells'[x].prev = Null
    BY <1>2, <1>6, <1>7
  <2>2. \A x \in Cells \ Made : cells'[x] = Blank
    BY <1>2, <1>7
  <2>. QED BY <1>2, <1>3, <1>7, <1>12, <1>13, <1>14, <2>1, <2>2 DEF Divided
<1>16. ListShape(t, spare)'
  BY <1>1, <1>3, <1>7, <1>8, <1>10, <1>15 DEF ListShape
<1>. QED BY <1>11, <1>16

\* Put_Data changes what the users see of one cell.
LEMMA PutDataStep ==
  ASSUME NEW chain, NEW spare, ListShape(chain, spare), NEW c, NEW v \in Values, PutData(c, v)
  PROVE  ListShape(chain, spare)' /\ Changed(Items(cells, chain), Items(cells', chain))
<1>1. /\ Divided(cells, chain, spare, extracted, Made) /\ Chained(cells, first, last, chain)
      /\ Way(cells, spareCell, "next", spare) /\ count = Len(chain)
  BY DEF ListShape
<1>2. /\ chain \in Seq(Cells) /\ Distinct(chain) /\ spare \in Seq(Cells) /\ cells \in [Cells -> Cell]
      /\ Ran(chain) \cap Ran(spare) = {} /\ Ran(chain) \cap extracted = {}
      /\ Ran(chain) \cup Ran(spare) \cup extracted = Made /\ Made \subseteq Cells
      /\ \A x \in Ran(chain) \cup extracted : cells[x].data \in Values
      /\ \A x \in extracted : cells[x].prev = Null
      /\ \A x \in Cells \ Made : cells[x] = Blank
  BY <1>1 DEF Divided, Chained
<1>3. /\ InList(c) /\ cells' = [cells EXCEPT ![c].data = v]
      /\ first' = first /\ last' = last /\ count' = count /\ index' = index /\ indexCount' = indexCount
      /\ broken' = broken /\ spareCell' = spareCell /\ cellSegments' = cellSegments /\ extracted' = extracted
  BY DEF PutData, indexVars, poolVars
<1>4. PICK k \in 1 .. Len(chain) : c = chain[k]
  BY <1>3, TakenOut
<1>5. c \in Cells /\ c \in Ran(chain) /\ cells[c] \in Cell
  BY <1>3, TakenOut
<1>6. /\ cells' \in [Cells -> Cell] /\ cells'[c] = [cells[c] EXCEPT !.data = v]
      /\ \A x \in Cells \ {c} : cells'[x] = cells[x]
  <2>1. [cells[c] EXCEPT !.data = v] \in Cell
    BY <1>5 DEF Cell
  <2>2. cells' = [cells EXCEPT ![c] = [cells[c] EXCEPT !.data = v]]
    BY <1>3
  <2>. QED BY <1>2, <1>5, <2>1, <2>2
<1>7. cells'[c].data = v /\ cells'[c].next = cells[c].next /\ cells'[c].prev = cells[c].prev
  BY <1>5, <1>6 DEF Cell
<1>8. \A x \in Cells : cells'[x].next = cells[x].next /\ cells'[x].prev = cells[x].prev
  BY <1>6, <1>7
<1>9. Way(cells', spareCell', "next", spare)
  <2>1. \A x \in Ran(spare) : cells'[x] = cells[x]
    BY <1>2, <1>5, <1>6
  <2>. QED BY <1>1, <1>3, <2>1, WaySame
<1>10. Chained(cells', first', last', chain)
  <2>1. \A i \in 1 .. Len(chain) : chain[i] \in Cells
    BY <1>2
  <2>. QED BY <1>1, <1>3, <1>8, <2>1 DEF Chained, Way
<1>11. Divided(cells', chain, spare, extracted', Made)
  <2>1. \A x \in Ran(chain) \cup extracted : cells'[x].data \in Values
    <3>1. \A x \in Ran(chain) \cup extracted : x \in Cells
      BY <1>2
    <3>. QED BY <1>2, <1>6, <1>7, <3>1
  <2>2. \A x \in extracted : cells'[x].prev = Null
    <3>1. \A x \in extracted : x \in Cells
      BY <1>2
    <3>. QED BY <1>2, <1>8, <3>1
  <2>3. \A x \in Cells \ Made : cells'[x] = Blank
    <3>1. c \in Made
      BY <1>2, <1>5
    <3>. QED BY <1>2, <1>6, <3>1
  <2>. QED BY <1>1, <1>3, <1>6, <2>1, <2>2, <2>3 DEF Divided
<1>12. ListShape(chain, spare)'
  BY <1>3, <1>9, <1>10, <1>11 DEF ListShape, Made
<1>13. Items(cells', chain) = [Items(cells, chain) EXCEPT ![k] = v]
  <2>1. \A i \in 1 .. Len(chain) : cells'[chain[i]].data = IF i = k THEN v ELSE cells[chain[i]].data
    <3>1. \A i \in 1 .. Len(chain) : chain[i] \in Cells /\ (chain[i] = c => i = k)
      BY <1>2, <1>4 DEF Distinct
    <3>. QED BY <1>4, <1>6, <1>7, <3>1
  <2>. QED BY <2>1 DEF Items
<1>14. Len(Items(cells, chain)) = Len(chain)
  BY <1>2 DEF Items
<1>. QED BY <1>4, <1>12, <1>13, <1>14 DEF Changed

\* Get_ByIndex answers from the chain, whether it has to build the index or not.
LEMMA GetByIndexStep ==
  ASSUME NEW chain, NEW spare, ListShape(chain, spare), NEW i \in 1 .. count + 1, GetByIndex(i)
  PROVE  /\ ListShape(chain, spare)' /\ cells' = cells
         /\ picked' = [at |-> i, value |-> IF i \in 1 .. Len(chain) THEN Items(cells, chain)[i] ELSE Null]
<1>1. /\ chain \in Seq(Cells) /\ count = Len(chain) /\ count \in Nat /\ indexCount \in Nat
      /\ ~broken => index = chain /\ count <= indexCount
  BY DEF ListShape, Chained
<1>2. /\ cells' = cells /\ first' = first /\ last' = last /\ count' = count
      /\ spareCell' = spareCell /\ cellSegments' = cellSegments /\ extracted' = extracted
  BY DEF GetByIndex, chainVars, poolVars
<1>3. index' = chain /\ indexCount' \in Nat /\ count <= indexCount'
  <2>1. CASE broken
    <3>1. index' = chain
      BY <2>1, ShapeFollows DEF GetByIndex, IndexBuild
    <3>2. indexCount' = IF index = Null \/ count > indexCount THEN count + IndexReserve ELSE indexCount
      BY <2>1 DEF GetByIndex, IndexBuild
    <3>3. IndexReserve \in Nat
      BY AListAssumption
    <3>. QED BY <1>1, <3>1, <3>2, <3>3
  <2>2. CASE ~broken
    BY <1>1, <2>2 DEF GetByIndex, indexVars
  <2>. QED BY <2>1, <2>2
<1>4. ListShape(chain, spare)'
  <2>1. Made' = Made
    BY <1>2 DEF Made
  <2>. QED BY <1>2, <1>3, <2>1 DEF ListShape
<1>5. picked' = [at |-> i, value |-> IF i <= count THEN cells[chain[i]].data ELSE Null]
  BY <1>3 DEF GetByIndex
<1>6. i <= count <=> i \in 1 .. Len(chain)
  BY <1>1
<1>7. i \in 1 .. Len(chain) => Items(cells, chain)[i] = cells[chain[i]].data
  BY DEF Items
<1>. QED BY <1>2, <1>4, <1>5, <1>6, <1>7

\* Cells from the end of a chain on, before the spare ones
LEMMA BackFacts ==
  ASSUME NEW s \in Seq(Cells), NEW r \in Seq(Cells), Distinct(s), Distinct(r), Ran(s) \cap Ran(r) = {}
  PROVE  LET b == Back(s) \o r
         IN  /\ b \in Seq(Cells) /\ Len(b) = Len(s) + Len(r)
             /\ \A i \in 1 .. Len(s) : b[i] = s[Len(s) + 1 - i]
             /\ \A i \in 1 .. Len(r) : b[Len(s) + i] = r[i]
             /\ Ran(b) = Ran(s) \cup Ran(r) /\ Distinct(b)
<1>. DEFINE n == Len(s)
            m == Len(r)
            a == Back(s)
            b == a \o r
<1>1. /\ n \in Nat /\ m \in Nat /\ a \in Seq(Cells) /\ Len(a) = n
      /\ \A i \in 1 .. n : a[i] = s[n + 1 - i]
  <2>1. \A i \in 1 .. n : n + 1 - i \in 1 .. n
    OBVIOUS
  <2>2. a \in [1 .. n -> Cells]
    BY <2>1 DEF Back
  <2>. QED BY <2>2 DEF Back
<1>. HIDE DEF a
<1>2. b \in Seq(Cells) /\ Len(b) = n + m /\ DOMAIN b = 1 .. n + m
  <2>1. b \in Seq(Cells) /\ Len(b) = Len(a) + Len(r)
    BY <1>1, ConcatProperties
  <2>. QED BY <1>1, <2>1
<1>3. \A i \in 1 .. n : b[i] = s[n + 1 - i]
  BY <1>1
<1>4. \A i \in 1 .. m : b[n + i] = r[i]
  BY <1>1
<1>5. /\ DOMAIN s = 1 .. n /\ DOMAIN r = 1 .. m
      /\ \A i, j \in 1 .. n : s[i] = s[j] => i = j
      /\ \A i, j \in 1 .. m : r[i] = r[j] => i = j
      /\ \A i \in 1 .. n, j \in 1 .. m : s[i] # r[j]
  <2>1. DOMAIN s = 1 .. n /\ DOMAIN r = 1 .. m
    OBVIOUS
  <2>2. ASSUME NEW i \in 1 .. n, NEW j \in 1 .. m
        PROVE  s[i] # r[j]
    <3>1. s[i] \in Ran(s) /\ r[j] \in Ran(r)
      BY <2>1 DEF Ran
    <3>. QED BY <3>1
  <2>3. /\ \A i, j \in 1 .. n : s[i] = s[j] => i = j
        /\ \A i, j \in 1 .. m : r[i] = r[j] => i = j
    BY DEF Distinct
  <2>. QED BY <2>1, <2>2, <2>3
<1>. HIDE DEF n, m, b
<1>6. ASSUME NEW i \in 1 .. n + m
      PROVE  \/ i \in 1 .. n /\ n + 1 - i \in 1 .. n /\ b[i] = s[n + 1 - i]
             \/ i - n \in 1 .. m /\ i \notin 1 .. n /\ b[i] = r[i - n]
  <2>1. CASE i <= n
    BY <1>1, <1>3, <2>1
  <2>2. CASE i > n
    <3>1. i - n \in 1 .. m /\ n + (i - n) = i
      BY <1>1, <2>2
    <3>. QED BY <1>1, <1>4, <2>2, <3>1
  <2>. QED BY <1>1, <2>1, <2>2
<1>7. Ran(b) \subseteq Ran(s) \cup Ran(r)
  BY <1>2, <1>5, <1>6 DEF Ran
<1>8. Ran(s) \subseteq Ran(b)
  <2>1. ASSUME NEW j \in 1 .. n
        PROVE  s[j] \in Ran(b)
    <3>1. n + 1 - j \in 1 .. n /\ n + 1 - (n + 1 - j) = j /\ n + 1 - j \in 1 .. n + m
      BY <1>1
    <3>2. b[n + 1 - j] = s[j]
      BY <1>3, <3>1
    <3>. QED BY <1>2, <3>1, <3>2 DEF Ran
  <2>. QED BY <1>5, <2>1 DEF Ran
<1>9. Ran(r) \subseteq Ran(b)
  <2>1. ASSUME NEW j \in 1 .. m
        PROVE  r[j] \in Ran(b)
    <3>1. n + j \in 1 .. n + m
      BY <1>1
    <3>. QED BY <1>2, <1>4, <3>1 DEF Ran
  <2>. QED BY <1>5, <2>1 DEF Ran
<1>10. ASSUME NEW i \in 1 .. n + m, NEW j \in 1 .. n + m, b[i] = b[j]
       PROVE  i = j
  <2>1. CASE i \in 1 .. n /\ j \in 1 .. n
    BY <1>1, <1>5, <1>6, <1>10, <2>1
  <2>2. CASE i \notin 1 .. n /\ j \notin 1 .. n
    <3>1. i - n \in 1 .. m /\ j - n \in 1 .. m /\ b[i] = r[i - n] /\ b[j] = r[j - n]
      BY <1>6, <2>2
    <3>2. i - n = j - n
      BY <1>5, <1>10, <3>1
    <3>. QED BY <1>1, <3>2
  <2>3. CASE i \in 1 .. n /\ j \notin 1 .. n
    BY <1>5, <1>6, <1>10, <2>3
  <2>4. CASE i \notin 1 .. n /\ j \in 1 .. n
    BY <1>5, <1>6, <1>10, <2>4
  <2>. QED BY <2>1, <2>2, <2>3, <2>4
<1>11. Distinct(b)
  BY <1>2, <1>10 DEF Distinct
<1>. QED BY <1>2, <1>3, <1>4, <1>7, <1>8, <1>9, <1>11 DEF n, m, b, a

\* Clear leaves an empty list, and all its cells are spare.
LEMMA ListClearStep ==
  ASSUME NEW chain, NEW spare, ListShape(chain, spare), ListClear
  PROVE  \E u : ListShape(<<>>, u)'
<1>1. /\ Divided(cells, chain, spare, extracted, Made) /\ Chained(cells, first, last, chain)
      /\ Way(cells, spareCell, "next", spare) /\ count = Len(chain) /\ indexCount \in Nat
      /\ cellSegments \in 0 .. MaxCellSegments /\ (~broken => index = chain /\ count <= indexCount)
  BY DEF ListShape
<1>2. /\ chain \in Seq(Cells) /\ Distinct(chain) /\ spare \in Seq(Cells) /\ Distinct(spare)
      /\ cells \in [Cells -> Cell]
      /\ Ran(chain) \cap Ran(spare) = {} /\ Ran(chain) \cap extracted = {} /\ Ran(spare) \cap extracted = {}
      /\ Ran(chain) \cup Ran(spare) \cup extracted = Made /\ Made \subseteq Cells
      /\ \A x \in Ran(chain) \cup extracted : cells[x].data \in Values
      /\ \A x \in extracted : cells[x].prev = Null
      /\ \A x \in Cells \ Made : cells[x] = Blank
  BY <1>1 DEF Divided, Chained
<1>. DEFINE n == Len(chain)
            m == Len(spare)
            nextSpare(i) == IF i = 1 THEN spareCell ELSE chain[i - 1]
<1>3. /\ cells' = [c \in Cells |->
              IF c \in Ran(chain)
              THEN [Blank EXCEPT !.next = nextSpare(CHOOSE i \in 1 .. n : chain[i] = c)]
              ELSE cells[c]]
      /\ spareCell' = IF n = 0 THEN spareCell ELSE chain[n]
      /\ broken' = (IF n = 0 THEN broken ELSE TRUE)
      /\ index' = IF n = 0 \/ index = Null THEN index ELSE <<>>
      /\ count' = count - n
  <2>. DEFINE Cleared(s) ==
                /\ cells' = [c \in Cells |->
                     IF c \in Ran(s)
                     THEN [Blank EXCEPT !.next =
                             LET i == CHOOSE i \in 1 .. Len(s) : s[i] = c
                             IN  IF i = 1 THEN spareCell ELSE s[i - 1]]
                     ELSE cells[c]]
                /\ spareCell' = IF Len(s) = 0 THEN spareCell ELSE s[Len(s)]
                /\ broken' = (IF Len(s) = 0 THEN broken ELSE TRUE)
                /\ index' = IF Len(s) = 0 \/ index = Null THEN index ELSE <<>>
                /\ count' = count - Len(s)
  <2>1. Cleared(Chain)
    BY DEF ListClear, InList
  <2>. HIDE DEF Cleared
  <2>2. Cleared(chain)
    BY <2>1, ShapeFollows
  <2>. QED BY <2>2 DEF Cleared
<1>4. /\ first' = Null /\ last' = Null /\ indexCount' = indexCount
      /\ cellSegments' = cellSegments /\ extracted' = extracted
  BY DEF ListClear
<1>5. Made' = Made
  BY <1>4 DEF Made
<1>6. n \in Nat /\ m \in Nat /\ count' = 0 /\ (n = 0 <=> chain = <<>>) /\ (m = 0 <=> spare = <<>>)
  BY <1>1, <1>2, <1>3
<1>7. Chained(cells', first', last', <<>>) /\ Ran(<<>>) = {} /\ Len(<<>>) = 0
  BY <1>4 DEF Chained, Way, Distinct, Ran
<1>8. ~broken' => index' = <<>> /\ count' <= indexCount'
  BY <1>1, <1>3, <1>4, <1>6
<1>9. \A c \in Cells : c \notin Ran(chain) => cells'[c] = cells[c]
  BY <1>3
<1>10. CASE n = 0
  <2>1. Ran(chain) = {}
    BY <1>6, <1>7, <1>10
  <2>2. cells' = cells
    BY <1>2, <1>3, <2>1
  <2>3. Divided(cells', <<>>, spare, extracted', Made') /\ Way(cells', spareCell', "next", spare)
    BY <1>1, <1>3, <1>4, <1>5, <1>6, <1>10, <2>2
  <2>4. ListShape(<<>>, spare)'
    BY <1>1, <1>4, <1>6, <1>7, <1>8, <2>3 DEF ListShape
  <2>. QED BY <2>4
<1>11. CASE n # 0
  <2>. DEFINE u == Back(chain) \o spare
  <2>1. /\ u \in Seq(Cells) /\ Len(u) = n + m
        /\ \A i \in 1 .. n : u[i] = chain[n + 1 - i]
        /\ \A i \in 1 .. m : u[n + i] = spare[i]
        /\ Ran(u) = Ran(chain) \cup Ran(spare) /\ Distinct(u)
    BY <1>2, BackFacts
  <2>2. /\ spareCell = IF spare = <<>> THEN Null ELSE spare[1]
        /\ \A i \in 1 .. m : cells[spare[i]].next = IF i = m THEN Null ELSE spare[i + 1]
    BY <1>1 DEF Way
  <2>. HIDE DEF u
  <2>3. /\ spareCell' = chain[n] /\ DOMAIN chain = 1 .. n /\ DOMAIN spare = 1 .. m
        /\ \A i \in 1 .. n : chain[i] \in Cells /\ chain[i] \in Ran(chain)
        /\ \A i \in 1 .. m : spare[i] \in Cells /\ spare[i] \in Ran(spare)
        /\ spareCell \in Targets
    <3>1. spareCell' = chain[n] /\ DOMAIN chain = 1 .. n /\ DOMAIN spare = 1 .. m
      BY <1>2, <1>3, <1>11
    <3>2. /\ \A i \in 1 .. n : chain[i] \in Cells /\ chain[i] \in Ran(chain)
          /\ \A i \in 1 .. m : spare[i] \in Cells /\ spare[i] \in Ran(spare)
      BY <1>2, <3>1 DEF Ran
    <3>3. spareCell \in Targets
      BY <1>2, <1>6, <2>2, <3>2 DEF Targets
    <3>. QED BY <3>1, <3>2, <3>3
  <2>4. ASSUME NEW i \in 1 .. n
        PROVE  cells'[chain[i]] = [Blank EXCEPT !.next = nextSpare(i)] /\ nextSpare(i) \in Targets
    <3>. DEFINE j == CHOOSE j \in 1 .. n : chain[j] = chain[i]
    <3>1. j \in 1 .. n /\ chain[j] = chain[i]
      OBVIOUS
    <3>2. j = i
      BY <1>2, <3>1 DEF Distinct
    <3>3. cells'[chain[i]] = [Blank EXCEPT !.next = nextSpare(j)]
      BY <1>3, <2>3
    <3>. HIDE DEF j
    <3>4. i # 1 => i - 1 \in 1 .. n
      BY <1>6
    <3>. QED BY <2>3, <3>2, <3>3, <3>4 DEF Targets
  <2>. HIDE DEF nextSpare
  <2>5. \A i \in 1 .. n : cells'[chain[i]] \in Cell /\ cells'[chain[i]].next = nextSpare(i)
    <3>1. \A x \in Targets : [Blank EXCEPT !.next = x] \in Cell /\ [Blank EXCEPT !.next = x].next = x
      BY DEF Blank, Cell, Targets
    <3>. QED BY <2>4, <3>1
  <2>6. cells' \in [Cells -> Cell]
    <3>1. \A c \in Cells : cells'[c] \in Cell
      <4>1. \A c \in Ran(chain) : \E i \in 1 .. n : c = chain[i]
        BY <2>3 DEF Ran
      <4>. QED BY <1>2, <1>9, <2>5, <4>1
    <3>2. cells' = [c \in Cells |-> cells'[c]]
      BY <1>3
    <3>. QED BY <3>1, <3>2
  <2>7. \A i \in 1 .. m : cells'[spare[i]] = cells[spare[i]]
    BY <1>2, <1>9, <2>3
  <2>8. ASSUME NEW i \in 1 .. n + m
        PROVE  cells'[u[i]].next = IF i = n + m THEN Null ELSE u[i + 1]
    <3>. HIDE DEF n, m
    <3>1. CASE i < n
      <4>. DEFINE j == n + 1 - i
      <4>1. j \in 1 .. n /\ j # 1 /\ i \in 1 .. n /\ i + 1 \in 1 .. n /\ n + 1 - (i + 1) = j - 1 /\ i # n + m
        BY <1>6, <3>1
      <4>2. u[i] = chain[j] /\ u[i + 1] = chain[j - 1]
        BY <2>1, <4>1
      <4>. HIDE DEF j
      <4>. QED BY <2>5, <4>1, <4>2 DEF nextSpare
    <3>2. CASE i = n
      <4>1. i \in 1 .. n /\ n + 1 - i = 1 /\ 1 \in 1 .. n
        BY <1>6, <1>11, <3>2
      <4>2. u[i] = chain[1]
        BY <2>1, <4>1
      <4>3. cells'[u[i]].next = spareCell
        BY <2>5, <4>1, <4>2 DEF nextSpare
      <4>4. m # 0 => u[i + 1] = spare[1]
        <5>1. m # 0 => 1 \in 1 .. m
          BY <1>6
        <5>. QED BY <2>1, <3>2, <5>1
      <4>5. i = n + m <=> m = 0
        BY <1>6, <3>2
      <4>. QED BY <1>6, <2>2, <4>3, <4>4, <4>5
    <3>3. CASE i > n
      <4>. DEFINE j == i - n
      <4>1. j \in 1 .. m /\ i = n + j /\ (i = n + m <=> j = m) /\ (j # m => j + 1 \in 1 .. m) /\ i + 1 = n + (j + 1)
        BY <1>6, <3>3
      <4>. HIDE DEF j
      <4>2. u[i] = spare[j] /\ (j # m => u[i + 1] = spare[j + 1])
        BY <2>1, <4>1
      <4>. QED BY <2>2, <2>7, <4>1, <4>2
    <3>. QED BY <1>6, <3>1, <3>2, <3>3
  <2>9. Way(cells', spareCell', "next", u)
    <3>1. u # <<>> /\ u[1] = chain[n]
      <4>1. 1 \in 1 .. n /\ n + 1 - 1 = n
        BY <1>6, <1>11
      <4>2. Len(u) # 0
        BY <1>6, <1>11, <2>1
      <4>. QED BY <2>1, <4>1, <4>2
    <3>. QED BY <2>1, <2>3, <2>8, <3>1 DEF Way
  <2>10. Divided(cells', <<>>, u, extracted, Made)
    <3>1. \A x \in extracted : cells'[x] = cells[x]
      BY <1>2, <1>9
    <3>2. \A x \in Cells \ Made : cells'[x] = cells[x]
      BY <1>2, <1>9
    <3>3. Ran(u) \cap extracted = {} /\ Ran(u) \cup extracted = Made
      BY <1>2, <2>1
    <3>4. /\ Ran(<<>>) \cap Ran(u) = {} /\ Ran(<<>>) \cap extracted = {}
          /\ Ran(<<>>) \cup Ran(u) \cup extracted = Made
      BY <1>7, <3>3
    <3>5. \A x \in Ran(<<>>) \cup extracted : cells'[x].data \in Values
      BY <1>2, <1>7, <3>1
    <3>. QED BY <1>2, <2>1, <2>6, <3>1, <3>2, <3>3, <3>4, <3>5 DEF Divided
  <2>11. ListShape(<<>>, u)'
    BY <1>1, <1>4, <1>5, <1>6, <1>7, <1>8, <2>9, <2>10 DEF ListShape
  <2>. QED BY <2>11
<1>. QED BY <1>10, <1>11

\* One more is what InsertAt of the abstract sequence makes,
LEMMA GrownInserts ==
  ASSUME NEW s \in Seq(Values), NEW t, Grown(s, t)
  PROVE  Len(t) = Len(s) + 1 /\ \E i \in 1 .. Len(s) + 1, v \in Values : t = AsSequence!InsertAt(s, i, v)
<1>1. PICK k \in 0 .. Len(s), v \in Values : t = With(s, k, v)
  BY DEF Grown
<1>. DEFINE n == Len(s)
            a == SubSeq(s, 1, k)
            b == SubSeq(s, k + 1, n)
            r == a \o <<v>> \o b
<1>2. n \in Nat /\ k \in 0 .. n /\ k \in Nat /\ k <= n /\ s \in Seq(Values)
  OBVIOUS
<1>3. /\ t = [i \in 1 .. n + 1 |-> IF i <= k THEN s[i] ELSE IF i = k + 1 THEN v ELSE s[i - 1]]
  BY <1>1 DEF With
<1>4. a \in Seq(Values) /\ Len(a) = k /\ \A i \in 1 .. k : a[i] = s[i]
  BY <1>2
<1>5. b \in Seq(Values) /\ Len(b) = n - k /\ \A i \in 1 .. n - k : b[i] = s[k + i]
  BY <1>2
<1>. HIDE DEF n, a, b
<1>6. /\ a \o <<v>> \in Seq(Values) /\ Len(a \o <<v>>) = k + 1
      /\ \A i \in 1 .. k : (a \o <<v>>)[i] = s[i]
      /\ (a \o <<v>>)[k + 1] = v
  BY <1>2, <1>4
<1>. DEFINE c == a \o <<v>>
<1>. HIDE DEF c
<1>7. c \in Seq(Values) /\ Len(c) = k + 1 /\ (\A i \in 1 .. k : c[i] = s[i]) /\ c[k + 1] = v
  BY <1>6 DEF c
<1>8. r = c \o b
  BY DEF c
<1>. HIDE DEF r
<1>9. r \in Seq(Values) /\ Len(r) = n + 1 /\ DOMAIN r = 1 .. n + 1
  <2>1. r \in Seq(Values) /\ Len(r) = Len(c) + Len(b)
    BY <1>5, <1>7, <1>8, ConcatProperties
  <2>2. Len(r) = n + 1
    BY <1>2, <1>5, <1>7, <2>1
  <2>. QED BY <2>1, <2>2
<1>10. \A i \in 1 .. n + 1 : r[i] = IF i <= k + 1 THEN c[i] ELSE b[i - (k + 1)]
  BY <1>2, <1>5, <1>7, <1>8
<1>11. ASSUME NEW i \in 1 .. n + 1
       PROVE  r[i] = IF i <= k THEN s[i] ELSE IF i = k + 1 THEN v ELSE s[i - 1]
  <2>1. CASE i <= k
    BY <1>2, <1>7, <1>10, <2>1
  <2>2. CASE i = k + 1
    BY <1>2, <1>7, <1>10, <2>2
  <2>3. CASE i > k + 1
    <3>1. i - (k + 1) \in 1 .. n - k /\ k + (i - (k + 1)) = i - 1 /\ ~(i <= k + 1)
      BY <1>2, <2>3
    <3>2. r[i] = s[i - 1]
      BY <1>5, <1>10, <3>1
    <3>. QED BY <1>2, <2>3, <3>2
  <2>. QED BY <1>2, <2>1, <2>2, <2>3
<1>12. t = r
  BY <1>3, <1>9, <1>11
<1>13. r = AsSequence!InsertAt(s, k + 1, v)
  <2>1. (k + 1) - 1 = k
    BY <1>2
  <2>. QED BY <2>1 DEF AsSequence!InsertAt, r, a, b, n
<1>14. k + 1 \in 1 .. n + 1
  BY <1>2
<1>. QED BY <1>9, <1>12, <1>13, <1>14 DEF n

\* and one less is what RemoveAt makes.
LEMMA ShrunkRemoves ==
  ASSUME NEW s \in Seq(Values), NEW t, Shrunk(s, t)
  PROVE  Len(t) = Len(s) - 1 /\ \E i \in DOMAIN s : t = AsSequence!RemoveAt(s, i)
<1>1. PICK k \in 1 .. Len(s) : t = Without(s, k)
  BY DEF Shrunk
<1>. DEFINE n == Len(s)
            a == SubSeq(s, 1, k - 1)
            b == SubSeq(s, k + 1, n)
            r == a \o b
<1>2. n \in Nat /\ k \in Nat /\ k >= 1 /\ k <= n /\ s \in Seq(Values)
  OBVIOUS
<1>3. /\ t = [i \in 1 .. n - 1 |-> IF i < k THEN s[i] ELSE s[i + 1]]
  BY <1>1 DEF Without
<1>4. a \in Seq(Values) /\ Len(a) = k - 1 /\ \A i \in 1 .. k - 1 : a[i] = s[i]
  BY <1>2
<1>5. b \in Seq(Values) /\ Len(b) = n - k /\ \A i \in 1 .. n - k : b[i] = s[k + i]
  BY <1>2
<1>. HIDE DEF n, a, b
<1>9. r \in Seq(Values) /\ Len(r) = n - 1 /\ DOMAIN r = 1 .. n - 1
  <2>1. r \in Seq(Values) /\ Len(r) = Len(a) + Len(b)
    BY <1>4, <1>5, ConcatProperties
  <2>2. Len(r) = n - 1
    BY <1>2, <1>4, <1>5, <2>1
  <2>. QED BY <2>1, <2>2
<1>10. \A i \in 1 .. n - 1 : r[i] = IF i <= k - 1 THEN a[i] ELSE b[i - (k - 1)]
  BY <1>2, <1>4, <1>5
<1>. HIDE DEF r
<1>11. ASSUME NEW i \in 1 .. n - 1
       PROVE  r[i] = IF i < k THEN s[i] ELSE s[i + 1]
  <2>1. CASE i < k
    BY <1>2, <1>4, <1>10, <2>1
  <2>2. CASE ~(i < k)
    <3>1. i - (k - 1) \in 1 .. n - k /\ k + (i - (k - 1)) = i + 1 /\ ~(i <= k - 1)
      BY <1>2, <2>2
    <3>. QED BY <1>5, <1>10, <2>2, <3>1
  <2>. QED BY <2>1, <2>2
<1>12. t = r
  BY <1>3, <1>9, <1>11
<1>13. r = AsSequence!RemoveAt(s, k)
  BY DEF AsSequence!RemoveAt, r, a, b, n
<1>14. k \in DOMAIN s
  BY <1>2
<1>. QED BY <1>9, <1>12, <1>13, <1>14 DEF n

\* Where every step leads, and what the users see of it
LEMMA ListStep ==
  ASSUME NEW chain, NEW spare, ListShape(chain, spare), ListNext
  PROVE  \E t, u :
           /\ ListShape(t, u)'
           /\ LET before == Items(cells, chain)
                  after  == Items(cells', t)
              IN  \/ /\ picked' = Null
                     /\ \/ after = before \/ after = <<>>
                        \/ Grown(before, after) \/ Shrunk(before, after) \/ Changed(before, after)
                  \/ /\ after = before
                     /\ \E i \in 1 .. Len(chain) + 1 :
                          picked' = [at |-> i, value |-> IF i \in 1 .. Len(chain) THEN before[i] ELSE Null]
<1>1. CASE \E at \in Positions, v \in Values : AddAfter(at, v)
  <2>1. PICK at \in Positions, v \in Values : AddAfter(at, v)
    BY <1>1
  <2>2. PICK t, u : ListShape(t, u)' /\ (Items(cells', t) = Items(cells, chain) \/ Grown(Items(cells, chain), Items(cells', t)))
    BY <2>1, AddAfterStep
  <2>3. picked' = Null
    BY <2>1 DEF AddAfter
  <2>. QED BY <2>2, <2>3
<1>2. CASE \E at \in Positions, e \in extracted : PutBack(at, e)
  <2>1. PICK at \in Positions, e \in extracted : PutBack(at, e)
    BY <1>2
  <2>2. PICK t, u : ListShape(t, u)' /\ Grown(Items(cells, chain), Items(cells', t))
    BY <2>1, PutBackStep
  <2>3. picked' = Null
    BY <2>1 DEF PutBack
  <2>. QED BY <2>2, <2>3
<1>3. CASE \E c \in Ran(Chain) : DelCell(c) \/ Extract(c) \/ \E v \in Values : PutData(c, v)
  <2>1. PICK c \in Ran(Chain) : DelCell(c) \/ Extract(c) \/ \E v \in Values : PutData(c, v)
    BY <1>3
  <2>2. CASE DelCell(c)
    <3>1. PICK t, u : ListShape(t, u)' /\ Shrunk(Items(cells, chain), Items(cells', t))
      BY <2>2, DelCellStep
    <3>2. picked' = Null
      BY <2>2 DEF DelCell
    <3>. QED BY <3>1, <3>2
  <2>3. CASE Extract(c)
    <3>1. PICK t, u : ListShape(t, u)' /\ Shrunk(Items(cells, chain), Items(cells', t))
      BY <2>3, ExtractStep
    <3>2. picked' = Null
      BY <2>3 DEF Extract
    <3>. QED BY <3>1, <3>2
  <2>4. ASSUME NEW v \in Values, PutData(c, v)
        PROVE  ListShape(chain, spare)' /\ Changed(Items(cells, chain), Items(cells', chain)) /\ picked' = Null
    BY <2>4, PutDataStep DEF PutData
  <2>. QED BY <2>1, <2>2, <2>3, <2>4
<1>4. CASE \E i \in 1 .. count + 1 : GetByIndex(i)
  <2>1. PICK i \in 1 .. count + 1 : GetByIndex(i)
    BY <1>4
  <2>2. /\ ListShape(chain, spare)' /\ cells' = cells
        /\ picked' = [at |-> i, value |-> IF i \in 1 .. Len(chain) THEN Items(cells, chain)[i] ELSE Null]
    BY <2>1, GetByIndexStep
  <2>3. i \in 1 .. Len(chain) + 1
    BY DEF ListShape
  <2>. QED BY <2>2, <2>3
<1>5. CASE ListClear
  <2>1. PICK u : ListShape(<<>>, u)'
    BY <1>5, ListClearStep
  <2>2. picked' = Null /\ Items(cells', <<>>) = <<>>
    BY <1>5 DEF ListClear, Items
  <2>. QED BY <2>1, <2>2
<1>. QED BY <1>1, <1>2, <1>3, <1>4, <1>5 DEF ListNext

\* Every step of the list keeps its shape.
LEMMA ListInductive ==
  ASSUME ListInv, [ListNext]_listVars
  PROVE  ListInv'
<1>1. PICK chain, spare : ListShape(chain, spare)
  BY DEF ListInv
<1>2. CASE ListNext
  BY <1>1, <1>2, ListStep DEF ListInv
<1>3. CASE UNCHANGED listVars
  BY <1>1, <1>3 DEF listVars, chainVars, indexVars, poolVars, ListInv, ListShape, Made
<1>. QED BY <1>2, <1>3

\* Whatever is added, put back, deleted, extracted, changed and asked for: both
\* directions show the same cells, every cell that was made is in the list, spare or
\* with the user and nowhere else, and an index that is not broken is the list.
THEOREM ListStandsSound == ListSpec => []ListIsSound
<1>1. ListInit => ListInv
  BY ListInitShape
<1>2. ListInv /\ [ListNext]_listVars => ListInv'
  BY ListInductive
<1>3. ListInv => ListIsSound
  BY ShapeIsSound
<1>. QED BY <1>1, <1>2, <1>3, PTL DEF ListSpec

\* The refinement mapping
Seen == LET chain == Chain IN [i \in 1 .. Len(chain) |-> cells[chain[i]].data]

\* Every step is one of the sequence or changes nothing of it.
LEMMA RefinesStep ==
  ASSUME ListInv, [ListNext]_listVars
  PROVE  [AsSequence!Next]_AsSequence!vars
<1>1. PICK chain, spare : ListShape(chain, spare)
  BY DEF ListInv
<1>2. Seen = Items(cells, chain)
  <2>1. Chain = chain
    BY <1>1, ShapeFollows
  <2>. QED BY <2>1 DEF Seen, Items
<1>3. /\ Items(cells, chain) \in Seq(Values) /\ Len(Items(cells, chain)) = Len(chain) /\ chain \in Seq(Cells)
  <2>1. chain \in Seq(Cells) /\ \A c \in Ran(chain) : cells[c].data \in Values
    BY <1>1 DEF ListShape, Chained, Divided
  <2>. QED BY <2>1, ItemsFacts
<1>4. CASE UNCHANGED listVars
  <2>1. Chain' = Chain /\ picked' = picked /\ cells' = cells
    BY <1>4 DEF Chain, Follow, listVars, chainVars
  <2>2. Seen' = Seen
    BY <2>1 DEF Seen
  <2>. QED BY <2>1, <2>2 DEF AsSequence!vars, Seen
<1>5. CASE ListNext
  <2>. DEFINE before == Items(cells, chain)
  <2>1. PICK t, u :
          /\ ListShape(t, u)'
          /\ \/ /\ picked' = Null
                /\ \/ Items(cells', t) = before \/ Items(cells', t) = <<>>
                   \/ Grown(before, Items(cells', t)) \/ Shrunk(before, Items(cells', t))
                   \/ Changed(before, Items(cells', t))
             \/ /\ Items(cells', t) = before
                /\ \E i \in 1 .. Len(chain) + 1 :
                     picked' = [at |-> i, value |-> IF i \in 1 .. Len(chain) THEN before[i] ELSE Null]
    BY <1>1, <1>5, ListStep
  <2>. DEFINE after == Items(cells', t)
  <2>2. Seen' = after
    <3>1. Chained(cells', first', last', t)
      BY <2>1 DEF ListShape
    <3>2. t \in Seq(Cells) /\ Distinct(t) /\ Way(cells', first', "next", t)
      BY <3>1 DEF Chained
    <3>3. FollowIn(cells', first', "next") = t
      BY <3>2, ShortEnough, FollowIs
    <3>4. Chain' = t
      BY <3>3 DEF Chain, Follow
    <3>. QED BY <3>4 DEF Seen, Items
  <2>3. before \in Seq(Values) /\ Len(before) = Len(chain) /\ DOMAIN before = 1 .. Len(chain)
    BY <1>3
  <2>. HIDE DEF before, after
  <2>4. Seen = before
    BY <1>2 DEF before
  <2>5. CASE picked' = Null /\ after = before
    <3>1. AsSequence!Refuse
      BY <2>2, <2>4, <2>5 DEF AsSequence!Refuse, Seen
    <3>. QED BY <3>1 DEF AsSequence!Next
  <2>6. CASE picked' = Null /\ after = <<>>
    <3>1. AsSequence!Clear
      BY <2>2, <2>4, <2>6 DEF AsSequence!Clear, Seen
    <3>. QED BY <3>1 DEF AsSequence!Next
  <2>7. CASE picked' = Null /\ Grown(before, after)
    <3>1. Len(after) = Len(before) + 1
          /\ \E i \in 1 .. Len(before) + 1, v \in Values : after = AsSequence!InsertAt(before, i, v)
      BY <2>3, <2>7, GrownInserts
    <3>2. /\ Len(Seen') = Len(Seen) + 1
          /\ \E i \in 1 .. Len(Seen) + 1, v \in Values : Seen' = AsSequence!InsertAt(Seen, i, v)
      BY <2>2, <2>4, <3>1
    <3>3. AsSequence!Insert
      BY <2>7, <3>2 DEF AsSequence!Insert, AsSequence!Longer, Seen
    <3>. QED BY <3>3 DEF AsSequence!Next
  <2>8. CASE picked' = Null /\ Shrunk(before, after)
    <3>1. Len(after) = Len(before) - 1 /\ \E i \in DOMAIN before : after = AsSequence!RemoveAt(before, i)
      BY <2>3, <2>8, ShrunkRemoves
    <3>2. /\ Len(Seen') = Len(Seen) + -1
          /\ \E i \in DOMAIN Seen : Seen' = AsSequence!RemoveAt(Seen, i)
      BY <2>2, <2>3, <2>4, <3>1
    <3>3. AsSequence!Delete
      BY <2>8, <3>2 DEF AsSequence!Delete, AsSequence!Longer, Seen
    <3>. QED BY <3>3 DEF AsSequence!Next
  <2>9. CASE picked' = Null /\ Changed(before, after)
    <3>1. \E i \in DOMAIN before, v \in Values : after = [before EXCEPT ![i] = v]
      BY <2>3, <2>9 DEF Changed
    <3>2. Len(after) = Len(before) + 0
      BY <2>3, <3>1
    <3>3. /\ Len(Seen') = Len(Seen) + 0
          /\ \E i \in DOMAIN Seen, v \in Values : Seen' = [Seen EXCEPT ![i] = v]
      BY <2>2, <2>4, <3>1, <3>2
    <3>4. AsSequence!Change
      BY <2>9, <3>3 DEF AsSequence!Change, AsSequence!Longer, Seen
    <3>. QED BY <3>4 DEF AsSequence!Next
  <2>10. ASSUME NEW i \in 1 .. Len(chain) + 1, after = before,
                picked' = [at |-> i, value |-> IF i \in 1 .. Len(chain) THEN before[i] ELSE Null]
         PROVE  AsSequence!Next
    <3>1. /\ Seen' = Seen /\ i \in 1 .. Len(Seen) + 1
          /\ picked' = [at |-> i, value |-> IF i \in DOMAIN Seen THEN Seen[i] ELSE Null]
      BY <2>2, <2>3, <2>4, <2>10
    <3>2. AsSequence!Get(i)
      BY <3>1 DEF AsSequence!Get, Seen
    <3>3. i \in 1 .. Len(Seen) + 1
      BY <3>1
    <3>. QED BY <3>2, <3>3 DEF AsSequence!Next, Seen
  <2>11. \/ /\ picked' = Null
            /\ \/ after = before \/ after = <<>>
               \/ Grown(before, after) \/ Shrunk(before, after) \/ Changed(before, after)
         \/ /\ after = before
            /\ \E i \in 1 .. Len(chain) + 1 :
                 picked' = [at |-> i, value |-> IF i \in 1 .. Len(chain) THEN before[i] ELSE Null]
    BY <2>1 DEF after
  <2>12. CASE /\ after = before
              /\ \E i \in 1 .. Len(chain) + 1 :
                   picked' = [at |-> i, value |-> IF i \in 1 .. Len(chain) THEN before[i] ELSE Null]
    BY <2>10, <2>12
  <2>. QED BY <2>5, <2>6, <2>7, <2>8, <2>9, <2>11, <2>12
<1>. QED BY <1>4, <1>5

\* The list is a sequence for its users, by index too.
THEOREM ListPromiseKept == ListSpec => ListIsSequence
<1>1. ListInit => ListInv
  BY ListInitShape
<1>2. ListInv /\ [ListNext]_listVars => ListInv'
  BY ListInductive
<1>3. ListInit => AsSequence!Init
  <2>. SUFFICES ASSUME ListInit PROVE AsSequence!Init
    OBVIOUS
  <2>1. FollowIn(cells, Null, "next") = <<>>
    <3>1. Way(cells, Null, "next", <<>>) /\ <<>> \in Seq(Cells) /\ Distinct(<<>>)
      BY DEF Way, Distinct
    <3>. QED BY <3>1, ShortEnough, FollowIs
  <2>2. Chain = <<>>
    BY <2>1 DEF Chain, Follow, ListInit
  <2>3. Seen = <<>> /\ picked = Null
    BY <2>2 DEF Seen, ListInit
  <2>. QED BY <2>3 DEF AsSequence!Init, Seen
<1>4. ListInv /\ [ListNext]_listVars => [AsSequence!Next]_AsSequence!vars
  BY RefinesStep
<1>. QED BY <1>1, <1>2, <1>3, <1>4, PTL DEF ListSpec, ListIsSequence, AsSequence!Spec
=============================================================================
