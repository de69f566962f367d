------------------------------ MODULE Lifecycle ------------------------------
(***************************************************************************)
(* A client from P7_Create_Client to the end of its destructor: what is    *)
(* made in which order, how a step that fails is undone, and what the two  *)
(* threads of the client hold and use while it is built up and taken down. *)
(* What the threads do with the packets is in Transport and in Channels;   *)
(* here a packet only is somewhere.                                        *)
(***************************************************************************)
EXTENDS Integers

CONSTANTS
  Packets,       \* packets of the pool
  ExitTimeout,   \* COMMUNICATION_THREAD_EXIT_TIMEOUT
  MaxOwners      \* bound: references to the client at a time

ASSUME LifecycleAssumption ==
  Packets \in Nat \ {0} /\ ExitTimeout \in Nat /\ MaxOwners \in Nat \ {0}

VARIABLES
  main,          \* the next step of the constructor or the destructor
  status,        \* m_eStatus
  made,          \* what has been made and not been released
  journalRefs,   \* references to the journal
  references,    \* m_lReference
  exitSet,       \* the events in which THREAD_EXIT_SIGNAL is set
  dataSet,       \* how often THREAD_DATA_SIGNAL is set in m_cChnl_Event
  comm, chnl,    \* the two threads
  exiting,       \* l_bExit_Signal
  waited,        \* the time since l_dwExit_Signal_Time
  connected,     \* m_bConnected
  packets        \* how many packets are where

signalVars    == <<exitSet, dataSet>>
commVars      == <<comm, exiting, waited, connected>>
ownerVars     == <<main, status, made, journalRefs, references>>
lifecycleVars == <<ownerVars, signalVars, commVars, chnl, packets>>

Queues  == {"out", "in", "window"}
Members == Queues \cup {"locks", "hello"}
Places  == Queues \cup {"pool", "received", "taken"}

-----------------------------------------------------------------------------
LifecycleInit ==
  /\ main = "base" /\ status = "OK"
  /\ made = {} /\ journalRefs = 0 /\ references = 1
  /\ exitSet = {} /\ dataSet = 0
  /\ comm = "none" /\ exiting = FALSE /\ waited = 0 /\ connected = TRUE
  /\ chnl = "none"
  /\ packets = [p \in Places |-> IF p = "pool" THEN Packets ELSE 0]

\* A packet goes from one place to another.
Carried(from, to) == [packets EXCEPT ![from] = @ - 1, ![to] = @ + 1]

\* All packets of these places go back to the pool.
Returned(places) ==
  LET In(p) == IF p \in places THEN packets[p] ELSE 0 IN
  [p \in Places |->
     IF p = "pool" THEN packets["pool"] + In("out") + In("in") + In("window")
                        + In("received") + In("taken")
     ELSE IF p \in places THEN 0 ELSE packets[p]]

\* Whoever is made with m_pLog, if there is one, keeps the journal, and lets it go.
Kept == IF "log" \in made THEN journalRefs + 1 ELSE journalRefs
LetGo(who) == IF {who, "log"} \subseteq made THEN journalRefs - 1 ELSE journalRefs

-----------------------------------------------------------------------------
(* The constructor.  What follows a step that failed is left out.          *)

Fails ==
  /\ status' = "INTERNAL_ERROR" /\ main' = "return"
  /\ UNCHANGED made

Makes(what, next) ==
  /\ made' = made \cup what /\ main' = next
  /\ UNCHANGED status

\* The client may be switched off by an argument.
InitBase ==
  /\ main = "base"
  /\ \/ status' = "OFF" /\ main' = "return"
     \/ UNCHANGED status /\ main' = "log"
  /\ UNCHANGED <<made, journalRefs, references, signalVars, commVars, chnl, packets>>

\* No journal is wanted, or it cannot be opened and is released again.
InitLog ==
  /\ main = "log"
  /\ \/ Makes({}, "winsock") /\ UNCHANGED journalRefs
     \/ Makes({"log"}, "winsock") /\ journalRefs' = 1
  /\ UNCHANGED <<references, signalVars, commVars, chnl, packets>>

InitWinsock ==
  /\ main = "winsock"
  /\ Makes({"winsock"}, "socket") \/ Fails
  /\ UNCHANGED <<journalRefs, references, signalVars, commVars, chnl, packets>>

\* The first socket that can be made for an address of the server: the others are
\* deleted again.
InitSocket ==
  /\ main = "socket"
  /\ \/ Makes({"socket"}, "pool") /\ journalRefs' = Kept
     \/ Fails /\ UNCHANGED journalRefs
  /\ UNCHANGED <<references, signalVars, commVars, chnl, packets>>

\* The constructor of the pool always succeeds (PacketsPool.h:85).
InitPool ==
  /\ main = "pool"
  /\ Makes({"pool"}, "members") /\ journalRefs' = Kept
  /\ UNCHANGED <<references, signalVars, commVars, chnl, packets>>

InitMembers ==
  /\ main = "members"
  /\ Makes(Members, "comm event")
  /\ UNCHANGED <<journalRefs, references, signalVars, commVars, chnl, packets>>

InitCommEvent ==
  /\ main = "comm event"
  /\ Makes({"commEvent"}, "comm thread") \/ Fails
  /\ UNCHANGED <<journalRefs, references, signalVars, commVars, chnl, packets>>

StartComm ==
  /\ main = "comm thread"
  /\ \/ Makes({"commThread"}, "chnl event") /\ comm' = "wait"
     \/ Fails /\ UNCHANGED comm
  /\ UNCHANGED <<journalRefs, references, signalVars, exiting, waited, connected, chnl, packets>>

InitChnlEvent ==
  /\ main = "chnl event"
  /\ Makes({"chnlEvent"}, "chnl thread") \/ Fails
  /\ UNCHANGED <<journalRefs, references, signalVars, commVars, chnl, packets>>

StartChnl ==
  /\ main = "chnl thread"
  /\ \/ Makes({"chnlThread"}, "return") /\ chnl' = "wait"
     \/ Fails /\ UNCHANGED chnl
  /\ UNCHANGED <<journalRefs, references, signalVars, commVars, packets>>

\* P7_Create_Client: a client that is not whole is released at once.
CreateReturns ==
  /\ main = "return"
  /\ IF status = "OK" THEN main' = "application" /\ UNCHANGED references
                      ELSE main' = "destroy" /\ references' = references - 1
  /\ UNCHANGED <<status, made, journalRefs, signalVars, commVars, chnl, packets>>

-----------------------------------------------------------------------------
(* The application.                                                        *)

AddOwner ==
  /\ main = "application" /\ references < MaxOwners
  /\ references' = references + 1
  /\ UNCHANGED <<main, status, made, journalRefs, signalVars, commVars, chnl, packets>>

ReleaseOwner ==
  /\ main = "application"
  /\ references' = references - 1
  /\ main' = IF references' <= 0 THEN "destroy" ELSE "application"
  /\ UNCHANGED <<status, made, journalRefs, signalVars, commVars, chnl, packets>>

OwnerShares ==
  /\ main = "application" /\ "shared" \notin made
  /\ Makes({"shared"}, "application")
  /\ UNCHANGED <<journalRefs, references, signalVars, commVars, chnl, packets>>

OwnerSends ==
  /\ main = "application" /\ connected /\ packets["pool"] > 0
  /\ packets' = Carried("pool", "out")
  /\ UNCHANGED <<ownerVars, signalVars, commVars, chnl>>

-----------------------------------------------------------------------------
(* The destructor.                                                         *)

\* The name is given back and the exit signalled; an event that is not there
\* refuses the signal.
SetExits ==
  /\ main = "destroy"
  /\ made' = made \ {"shared"}
  /\ exitSet' = made \cap {"commEvent", "chnlEvent"}
  /\ main' = "join comm"
  /\ UNCHANGED <<status, journalRefs, references, dataSet, commVars, chnl, packets>>

\* Mutant: the thread is waited for only if the constructor succeeded.
JoinCommOfWhole ==
  /\ main = "join comm"
  /\ status = "OK" => comm = "gone"
  /\ made' = made \ {"commThread"}
  /\ main' = "join chnl"
  /\ UNCHANGED <<status, journalRefs, references, signalVars, commVars, chnl, packets>>

\* pthread_join, which waits as long as it takes
JoinComm ==
  /\ main = "join comm"
  /\ "commThread" \in made => comm = "gone"
  /\ made' = made \ {"commThread"}
  /\ main' = "join chnl"
  /\ UNCHANGED <<status, journalRefs, references, signalVars, commVars, chnl, packets>>

JoinChnl ==
  /\ main = "join chnl"
  /\ "chnlThread" \in made => chnl = "gone"
  /\ made' = made \ {"chnlThread"}
  /\ main' = "return packets"
  /\ UNCHANGED <<status, journalRefs, references, signalVars, commVars, chnl, packets>>

ReturnPackets ==
  /\ main = "return packets"
  /\ packets' = Returned(Queues)
  /\ made' = made \ Queues
  /\ main' = "release socket"
  /\ UNCHANGED <<status, journalRefs, references, signalVars, commVars, chnl>>

ReleaseSocket ==
  /\ main = "release socket"
  /\ journalRefs' = LetGo("socket")
  /\ made' = made \ {"winsock", "socket"}
  /\ main' = "release pool"
  /\ UNCHANGED <<status, references, signalVars, commVars, chnl, packets>>

ReleasePool ==
  /\ main = "release pool"
  /\ journalRefs' = LetGo("pool")
  /\ made' = made \ {"pool"}
  /\ main' = "release log"
  /\ UNCHANGED <<status, references, signalVars, commVars, chnl, packets>>

\* The journal and the locks, and after the body of the destructor the members
ReleaseRest ==
  /\ main = "release log"
  /\ journalRefs' = LetGo("log")
  /\ made' = made \ {"log", "locks", "hello", "commEvent", "chnlEvent"}
  /\ main' = "gone"
  /\ UNCHANGED <<status, references, signalVars, commVars, chnl, packets>>

-----------------------------------------------------------------------------
(* The communication thread.                                               *)

IsReadyToExit == ~connected \/ packets["out"] + packets["window"] = 0

\* Mutant: the exit signal is never old enough.
NeverTimedOut(time) == FALSE

TimedOut(time) == time > ExitTimeout

\* The exit signal, or none: then the thread goes on to receive unless it leaves.
CommAwakes ==
  /\ comm = "wait"
  /\ LET signalled == "commEvent" \in exitSet IN
     /\ exitSet' = exitSet \ {"commEvent"}
     /\ exiting' = (exiting \/ signalled)
     /\ waited' = IF signalled THEN 0 ELSE waited
     /\ comm' = IF exiting' /\ (IsReadyToExit \/ TimedOut(waited')) THEN "leave"
                ELSE IF signalled THEN "wait" ELSE "receive"
  /\ UNCHANGED <<ownerVars, dataSet, connected, chnl, packets>>

\* A packet to receive into, unless there is one already or the pool is empty
CommPrepares ==
  /\ comm = "receive"
  /\ comm' = "process"
  /\ packets' = IF packets["received"] = 0 /\ packets["pool"] > 0
                THEN Carried("pool", "received") ELSE packets
  /\ UNCHANGED <<ownerVars, signalVars, exiting, waited, connected, chnl>>

CommReceivesNothing ==
  /\ comm = "process"
  /\ comm' = "send"
  /\ UNCHANGED <<ownerVars, signalVars, exiting, waited, connected, chnl, packets>>

\* An answer, which may acknowledge the whole window
CommReceives ==
  /\ comm = "process" /\ packets["received"] = 1
  /\ packets' \in {Returned({"received"}), Returned({"received", "window"})}
  /\ comm' = "send"
  /\ UNCHANGED <<ownerVars, signalVars, exiting, waited, connected, chnl>>

\* An answer with commands is kept, and the channel thread told, if its event is there.
CommReceivesCommands ==
  /\ comm = "process" /\ packets["received"] = 1
  /\ packets' = Carried("received", "in")
  /\ dataSet' = IF "chnlEvent" \in made THEN dataSet + 1 ELSE dataSet
  /\ comm' = "send"
  /\ UNCHANGED <<ownerVars, exitSet, exiting, waited, connected, chnl>>

CommSends ==
  /\ comm = "send" /\ packets["out"] > 0
  /\ packets' = Carried("out", "window")
  /\ UNCHANGED <<ownerVars, signalVars, commVars, chnl>>

\* Nothing more to send; the connection stays as it is, is found again or is lost, and
\* with it what was to be sent.
CommDecides ==
  /\ comm = "send"
  /\ comm' = "wait"
  /\ connected' \in BOOLEAN
  /\ packets' = IF connected /\ ~connected' THEN Returned({"out", "window"}) ELSE packets
  /\ UNCHANGED <<ownerVars, signalVars, exiting, waited, chnl>>

CommLeaves ==
  /\ comm = "leave"
  /\ packets' = Returned({"received"})
  /\ comm' = "gone"
  /\ UNCHANGED <<ownerVars, signalVars, exiting, waited, connected, chnl>>

\* Time passes, as far as it is measured.
Tick ==
  /\ exiting /\ comm # "gone" /\ waited <= ExitTimeout
  /\ waited' = waited + 1
  /\ UNCHANGED <<ownerVars, signalVars, comm, exiting, connected, chnl, packets>>

-----------------------------------------------------------------------------
(* The channel thread.                                                     *)

ChnlAwakes ==
  /\ chnl = "wait"
  /\ \/ "chnlEvent" \in exitSet /\ exitSet' = exitSet \ {"chnlEvent"}
        /\ chnl' = "gone" /\ UNCHANGED dataSet
     \/ dataSet > 0 /\ dataSet' = dataSet - 1
        /\ chnl' = "take" /\ UNCHANGED exitSet
  /\ UNCHANGED <<ownerVars, commVars, packets>>

ChnlTakes ==
  /\ chnl = "take"
  /\ IF packets["in"] = 0 THEN chnl' = "wait" /\ UNCHANGED packets
                          ELSE chnl' = "dispatch" /\ packets' = Carried("in", "taken")
  /\ UNCHANGED <<ownerVars, signalVars, commVars>>

ChnlReturns ==
  /\ chnl = "dispatch"
  /\ chnl' = "wait" /\ packets' = Returned({"taken"})
  /\ UNCHANGED <<ownerVars, signalVars, commVars>>

-----------------------------------------------------------------------------
\* The application makes a client again.
CreateAgain ==
  /\ main = "gone"
  /\ main' = "base" /\ status' = "OK" /\ references' = 1
  /\ exitSet' = {} /\ dataSet' = 0
  /\ comm' = "none" /\ exiting' = FALSE /\ waited' = 0 /\ connected' = TRUE
  /\ chnl' = "none"
  /\ UNCHANGED <<made, journalRefs, packets>>

Constructor ==
  \/ InitBase \/ InitLog \/ InitWinsock \/ InitSocket \/ InitPool \/ InitMembers
  \/ InitCommEvent \/ StartComm \/ InitChnlEvent \/ StartChnl \/ CreateReturns
Destructor ==
  \/ SetExits \/ JoinComm \/ JoinChnl \/ ReturnPackets
  \/ ReleaseSocket \/ ReleasePool \/ ReleaseRest
Application == AddOwner \/ ReleaseOwner \/ OwnerShares \/ OwnerSends
CommRoutine ==
  \/ CommAwakes \/ CommPrepares \/ CommReceivesNothing \/ CommReceives
  \/ CommReceivesCommands \/ CommSends \/ CommDecides \/ CommLeaves
ChnlRoutine == ChnlAwakes \/ ChnlTakes \/ ChnlReturns

LifecycleNext ==
  \/ Constructor \/ Application \/ Destructor \/ CreateAgain
  \/ CommRoutine \/ Tick \/ ChnlRoutine

LifecycleSpec == LifecycleInit /\ [][LifecycleNext]_lifecycleVars

-----------------------------------------------------------------------------
(* Properties.                                                             *)

CommUses == {"winsock", "socket", "pool", "commEvent"} \cup Members
ChnlUses == {"pool", "locks", "in", "chnlEvent"}

\* Whichever step of the constructor fails, and whenever the last owner lets go: what
\* a thread of the client uses is there as long as the thread runs; the application
\* has only a whole client; no packet is outside of the pool when the pool is deleted
\* ("%d buffers are missed", PacketsPool.h:95); at the end nothing is left, and the
\* journal is gone with its last reference.
MadeWhileUsed ==
  /\ comm \notin {"none", "gone"} => CommUses \subseteq made
  /\ chnl \notin {"none", "gone"} => ChnlUses \subseteq made
  /\ main = "application" =>
       CommUses \cup ChnlUses \cup {"commThread", "chnlThread"} \subseteq made
  /\ "pool" \notin made => packets["pool"] = Packets
  /\ main = "gone" => made = {} /\ journalRefs = 0

\* A client that is destroyed comes to its end, with a server or without one, whatever
\* waits to be sent or to be handled.
DestructionEnds == main = "destroy" ~> main = "gone"
=============================================================================
