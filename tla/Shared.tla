-------------------------------- MODULE Shared --------------------------------
(***************************************************************************)
(* How an object of P7 (a client, a trace or a telemetry channel) is       *)
(* shared under a name inside a process: Share, P7_Get_Shared, Release,    *)
(* and the Linux build of Shared_Create, Shared_Read and Shared_Close.     *)
(*                                                                         *)
(* A name stands for a named semaphore and a named memory.  Whatever makes *)
(* one of them makes it once, so a semaphore is known by the object or the *)
(* call that made it, and a memory by its object.  A semaphore that lost   *)
(* its name lives on for those who have opened it.                         *)
(*                                                                         *)
(* All of this is about a single name: others have other semaphores.       *)
(***************************************************************************)
EXTENDS Integers

CONSTANTS
  Objects,  \* objects that may be shared under the name
  Calls,    \* calls of P7_Get_Shared, each by a thread of its own
  None,     \* no object, no semaphore, NULL
  Interrupts, \* objects whose Shared_Close may be interrupted by a signal
  Garbage   \* initial values of a semaphore whose value is not passed

ASSUME SharedAssumption ==
  /\ Objects \cap Calls = {} /\ None \notin Objects \cup Calls
  /\ Garbage \subseteq Nat /\ Interrupts \subseteq Objects

VARIABLES
  objPC,    \* where an object is in Share, in its life, or in Shared_Close
  refs,     \* m_lReference: those whose reference it counts
  doomed,   \* has the destructor of the object begun?
  semName,  \* the semaphore that has the name
  semVal,   \* values of the semaphores
  memName,  \* the memory that has the name
  content,  \* what an object's memory holds
  callPC,   \* where a call is in Shared_Read and P7_Get_Shared
  sem,      \* l_hSem: the semaphore a call has opened
  mem,      \* l_iMFD: the memory a call has opened
  got       \* the pointer that a call has read

objVars  == <<objPC, refs, doomed>>
nameVars == <<semName, memName>>
callVars == <<callPC, sem, mem, got>>
vars     == <<objVars, nameVars, semVal, content, callVars>>

Sems == Objects \cup Calls

Init ==
  /\ objPC = [o \in Objects |-> "new"]
  /\ refs = [o \in Objects |-> {o}]      \* the creator's reference
  /\ doomed = [o \in Objects |-> FALSE]
  /\ semName = None /\ memName = None
  /\ semVal = [s \in Sems |-> 0]
  /\ content = [o \in Objects |-> "none"]
  /\ callPC = [c \in Calls |-> "idle"]
  /\ sem = [c \in Calls |-> None]
  /\ mem = [c \in Calls |-> None]
  /\ got = [c \in Calls |-> None]

-----------------------------------------------------------------------------
(* The semaphores.                                                         *)

Wait(s) == semVal[s] > 0 /\ semVal' = [semVal EXCEPT ![s] = @ - 1]
Post(s) == semVal' = [semVal EXCEPT ![s] = @ + 1]

-----------------------------------------------------------------------------
(* Share and Shared_Create.  When the name is taken, or the system makes   *)
(* no semaphore, Share returns FALSE and leaves everything as it was.      *)

MakeSemaphore(o, value) ==
  /\ semName' = o
  /\ semVal' = [semVal EXCEPT ![o] = value]
  /\ objPC' = [objPC EXCEPT ![o] = "owns"]
  /\ UNCHANGED <<refs, doomed, memName, content, callVars>>

\* Mutant: without O_EXCL.
ShareAnyway(o) ==
  /\ objPC[o] = "new" /\ o \in refs[o]
  /\ MakeSemaphore(o, 0)

ShareCreate(o) ==
  /\ objPC[o] = "new" /\ o \in refs[o]
  /\ semName = None
  /\ MakeSemaphore(o, 0)

\* The system gives no memory, does not size it or does not map it.
ShareFails(o) ==
  /\ objPC[o] \in {"owns", "linked", "sized"}
  /\ Post(o)
  /\ objPC' = [objPC EXCEPT ![o] = "undo"]
  /\ UNCHANGED <<refs, doomed, nameVars, content, callVars>>

ShareMemory(o) ==
  /\ objPC[o] = "owns"
  /\ memName = None
  /\ memName' = o
  /\ content' = [content EXCEPT ![o] = "empty"]
  /\ objPC' = [objPC EXCEPT ![o] = "linked"]
  /\ UNCHANGED <<refs, doomed, semName, semVal, callVars>>

ShareSize(o) ==
  /\ objPC[o] = "linked"
  /\ content' = [content EXCEPT ![o] = "zeros"]
  /\ objPC' = [objPC EXCEPT ![o] = "sized"]
  /\ UNCHANGED <<refs, doomed, nameVars, semVal, callVars>>

ShareWrite(o) ==
  /\ objPC[o] = "sized"
  /\ content' = [content EXCEPT ![o] = "pointer"]
  /\ Post(o)
  /\ objPC' = [objPC EXCEPT ![o] = "shared"]
  /\ UNCHANGED <<refs, doomed, nameVars, callVars>>

-----------------------------------------------------------------------------
(* Release and Shared_Close.  The last reference runs the destructor,      *)
(* which begins with Shared_Close if the object is shared.                 *)

Release(o, x) ==
  /\ x \in refs[o]
  /\ refs' = [refs EXCEPT ![o] = @ \ {x}]
  /\ IF refs'[o] # {}
     THEN UNCHANGED <<objPC, doomed>>
     ELSE /\ doomed' = [doomed EXCEPT ![o] = TRUE]
          /\ objPC' = [objPC EXCEPT ![o] = IF @ = "shared" THEN "close" ELSE "freed"]

CreatorReleases(o) ==
  /\ objPC[o] \in {"new", "failed", "shared"} /\ ~doomed[o]
  /\ Release(o, o)
  /\ UNCHANGED <<nameVars, semVal, content, callVars>>

\* Mutant: nobody is waited for.
CloseAtOnce(o) ==
  /\ objPC[o] \in {"undo", "close"}
  /\ objPC' = [objPC EXCEPT ![o] = "locked"]
  /\ UNCHANGED <<refs, doomed, nameVars, semVal, content, callVars>>

CloseWait(o) ==
  /\ objPC[o] \in {"undo", "close"}
  /\ Wait(o)
  /\ objPC' = [objPC EXCEPT ![o] = "locked"]
  /\ UNCHANGED <<refs, doomed, nameVars, content, callVars>>

\* A signal of the system ends a sem_wait that blocks; its result is not looked at.
CloseInterrupted(o) ==
  /\ o \in Interrupts
  /\ objPC[o] \in {"undo", "close"} /\ semVal[o] = 0
  /\ objPC' = [objPC EXCEPT ![o] = "locked"]
  /\ UNCHANGED <<refs, doomed, nameVars, semVal, content, callVars>>

\* Without a descriptor there is nothing to unlink.
CloseMemory(o) ==
  /\ objPC[o] = "locked"
  /\ memName' = IF content[o] = "none" THEN memName ELSE None
  /\ objPC' = [objPC EXCEPT ![o] = "unlinked"]
  /\ UNCHANGED <<refs, doomed, semName, semVal, content, callVars>>

CloseSemaphore(o) ==
  /\ objPC[o] = "unlinked"
  /\ semName' = None
  /\ objPC' = [objPC EXCEPT ![o] = IF doomed[o] THEN "freed" ELSE "failed"]
  /\ UNCHANGED <<refs, doomed, memName, semVal, content, callVars>>

-----------------------------------------------------------------------------
(* P7_Get_Shared and Shared_Read.  Both calls of sem_open with O_CREAT     *)
(* lack the mode and the value: a semaphore they make has any value, may   *)
(* not be opened by others, or is not made because the value is too large. *)

Goto(c, where) == callPC' = [callPC EXCEPT ![c] = where]

ProbeMakes(c) ==
  /\ callPC[c] = "idle" /\ semName = None
  /\ \E v \in Garbage : semVal' = [semVal EXCEPT ![c] = v]
  /\ semName' = c
  /\ Goto(c, "probed")
  /\ UNCHANGED <<objVars, memName, content, sem, mem, got>>

ProbeFails(c) ==
  /\ callPC[c] = "idle"
  /\ Goto(c, "open")
  /\ UNCHANGED <<objVars, nameVars, semVal, content, sem, mem, got>>

\* The name did not exist: sem_unlink takes it away again.
Unprobe(c) ==
  /\ callPC[c] = "probed"
  /\ semName' = None
  /\ Goto(c, "done")
  /\ UNCHANGED <<objVars, memName, semVal, content, sem, mem, got>>

OpenExisting(c) ==
  /\ callPC[c] = "open" /\ semName # None
  /\ sem' = [sem EXCEPT ![c] = semName]
  /\ Goto(c, "wait")
  /\ UNCHANGED <<objVars, nameVars, semVal, content, mem, got>>

OpenMakes(c) ==
  /\ callPC[c] = "open" /\ semName = None
  /\ \E v \in Garbage : semVal' = [semVal EXCEPT ![c] = v]
  /\ semName' = c /\ sem' = [sem EXCEPT ![c] = c]
  /\ Goto(c, "wait")
  /\ UNCHANGED <<objVars, memName, content, mem, got>>

\* The semaphore may not be opened, or it is not made.
OpenFails(c) ==
  /\ callPC[c] = "open"
  /\ Goto(c, "done")
  /\ UNCHANGED <<objVars, nameVars, semVal, content, sem, mem, got>>

TryWait(c) ==
  /\ callPC[c] = "wait"
  /\ Wait(sem[c])
  /\ Goto(c, "locked")
  /\ UNCHANGED <<objVars, nameVars, content, sem, mem, got>>

\* All the 25 attempts have failed.
TimedOut(c) ==
  /\ callPC[c] = "wait" /\ semVal[sem[c]] = 0
  /\ Goto(c, "done")
  /\ UNCHANGED <<objVars, nameVars, semVal, content, sem, mem, got>>

OpenMemory(c) ==
  /\ callPC[c] = "locked" /\ memName # None
  /\ mem' = [mem EXCEPT ![c] = memName]
  /\ Goto(c, "opened")
  /\ UNCHANGED <<objVars, nameVars, semVal, content, sem, got>>

\* Mutant: the semaphore is not posted.
ReadForgets(c) ==
  /\ callPC[c] \in {"locked", "opened"}
  /\ Goto(c, "done")
  /\ UNCHANGED <<objVars, nameVars, semVal, content, sem, mem, got>>

\* There is no memory, it is empty, or the system does not open or map it.
ReadFails(c) ==
  /\ callPC[c] \in {"locked", "opened"}
  /\ Post(sem[c])
  /\ Goto(c, "done")
  /\ UNCHANGED <<objVars, nameVars, content, sem, mem, got>>

Copy(c) ==
  /\ callPC[c] = "opened" /\ content[mem[c]] # "empty"
  /\ got' = [got EXCEPT ![c] = IF content[mem[c]] = "pointer" THEN mem[c] ELSE None]
  /\ Goto(c, "copied")
  /\ UNCHANGED <<objVars, nameVars, semVal, content, sem, mem>>

Return(c) ==
  /\ callPC[c] = "copied"
  /\ Post(sem[c])
  /\ Goto(c, IF got[c] = None THEN "done" ELSE "got")
  /\ UNCHANGED <<objVars, nameVars, content, sem, mem, got>>

\* What happens to freed memory is not followed.
AddRef(c) ==
  /\ callPC[c] = "got"
  /\ IF objPC[got[c]] = "freed"
     THEN Goto(c, "dangling") /\ UNCHANGED refs
     ELSE Goto(c, "holds") /\ refs' = [refs EXCEPT ![got[c]] = @ \cup {c}]
  /\ UNCHANGED <<objPC, doomed, nameVars, semVal, content, sem, mem, got>>

\* Nor is a second run of the destructor.
CallReleases(c) ==
  /\ callPC[c] = "holds"
  /\ IF doomed[got[c]]
     THEN Goto(c, "dangling") /\ UNCHANGED objVars
     ELSE Goto(c, "done") /\ Release(got[c], c)
  /\ UNCHANGED <<nameVars, semVal, content, sem, mem, got>>

-----------------------------------------------------------------------------
Close(o) == CloseWait(o) \/ CloseMemory(o) \/ CloseSemaphore(o)

Object(o) ==
  \/ ShareCreate(o) \/ ShareFails(o) \/ ShareMemory(o) \/ ShareSize(o)
  \/ ShareWrite(o) \/ CreatorReleases(o) \/ Close(o) \/ CloseInterrupted(o)

Read(c) ==
  \/ ProbeFails(c) \/ Unprobe(c) \/ OpenExisting(c) \/ OpenMakes(c) \/ OpenFails(c)
  \/ TryWait(c) \/ TimedOut(c) \/ OpenMemory(c) \/ ReadFails(c) \/ Copy(c) \/ Return(c)

GetShared(c) == ProbeMakes(c) \/ Read(c) \/ AddRef(c) \/ CallReleases(c)

Next == (\E o \in Objects : Object(o)) \/ (\E c \in Calls : GetShared(c))

Spec == Init /\ [][Next]_vars

\* A thread that is inside Shared_Read or Shared_Close goes on when it can.
FairSpec ==
  /\ Spec
  /\ \A o \in Objects : WF_vars(Close(o))
  /\ \A c \in Calls : WF_vars(callPC[c] # "idle" /\ Read(c))

-----------------------------------------------------------------------------
(* Properties.                                                             *)

\* Where an object owns its semaphore, and where its memory must have the name.
Named    == {"owns", "linked", "sized", "shared", "undo", "close", "locked", "unlinked"}
InMemory == {"linked", "sized", "shared"}

Quiet == Objects \ Interrupts

\* The variables have their types.  A semaphore that an object made is never
\* above one: sem_post is paired with the sem_wait or with the initial 0.
TypeOK ==
  /\ objPC \in [Objects -> Named \cup {"new", "failed", "freed"}]
  /\ refs \in [Objects -> SUBSET Sems]
  /\ doomed \in [Objects -> BOOLEAN]
  /\ semName \in Sems \cup {None} /\ memName \in Objects \cup {None}
  /\ semVal \in [Sems -> Nat]
  /\ \A o \in Quiet : semVal[o] <= 1
  /\ content \in [Objects -> {"none", "empty", "zeros", "pointer"}]
  /\ callPC \in [Calls -> {"idle", "probed", "open", "wait", "locked", "opened",
                           "copied", "got", "holds", "dangling", "done"}]
  /\ sem \in [Calls -> Sems \cup {None}]
  /\ mem \in [Calls -> Objects \cup {None}]
  /\ got \in [Calls -> Objects \cup {None}]

\* While an object is shared, from Shared_Create until Shared_Close is through,
\* the name is its own: no other object is shared under it, and no reader that
\* made and unlinked a semaphore of its own in between has taken it away.
NameIsKept ==
  \A o \in Objects :
    /\ objPC[o] \in Named => semName = o
    /\ objPC[o] \in InMemory => memName = o

\* Who reads under the semaphore of an object reads the memory of that object,
\* completely written if the pointer is not NULL, and before its destructor has
\* passed Shared_Close (PShared.h:56), unless a signal cuts the waiting short.
LockedReadIsTrue ==
  \A c \in Calls :
    (callPC[c] \in {"opened", "copied"} /\ sem[c] \in Quiet) =>
      /\ mem[c] = sem[c] /\ got[c] \in {None, sem[c]}
      /\ objPC[sem[c]] \in {"shared", "undo", "close"}

\* Shared_Close waits for the semaphore without a limit (PShared.h:56), inside
\* a destructor or a Share that failed: it comes back.
CloseEnds ==
  \A o \in Objects :
    objPC[o] \in {"undo", "close"} ~> objPC[o] \in {"failed", "freed"}

\* P7_Client.h:206 lets the caller of P7_Get_Shared use the instance until it
\* calls Release: its destructor has not begun.
GotIsAlive == \A c \in Calls : callPC[c] = "holds" => ~doomed[got[c]]

===============================================================================
