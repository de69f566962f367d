----------------------------- MODULE SharedProofs -----------------------------
(***************************************************************************)
(* Proofs about Shared, for any number of objects and of calls.            *)
(*                                                                         *)
(* What a name gives away is settled by the semaphore: it has the name     *)
(* from Shared_Create to the end of Shared_Close, and only one of the      *)
(* owner and the readers is inside.  The inductive invariant says this of  *)
(* the name, of the memory, of the value of the semaphore, of the          *)
(* references and of what a call has read.                                 *)
(***************************************************************************)
EXTENDS Shared, TLAPS

\* Where the semaphore of an object may be up, and taken by a reader.
Open == {"shared", "undo", "close"}

Reading(c) == callPC[c] \in {"locked", "opened", "copied"}

\* The semaphore has the name of the object that owns it, or of the reader that
\* has made it to test the name.
SemInv ==
  /\ \A o \in Objects : semName = o <=> objPC[o] \in Named
  /\ \A c \in Calls : callPC[c] = "probed" => semName = c

\* The memory has the name from ShareMemory to CloseMemory.
MemInv ==
  \A o \in Objects :
    /\ memName = o <=> (objPC[o] \in Named \ {"unlinked"} /\ content[o] # "none")
    /\ objPC[o] \in {"new", "owns"} => content[o] = "none"
    /\ objPC[o] = "linked" => content[o] = "empty"
    /\ objPC[o] = "sized" => content[o] = "zeros"
    /\ objPC[o] = "shared" => content[o] = "pointer"

\* One of the owner and the readers is inside, or the semaphore is up.
LockInv ==
  \A o \in Quiet :
    /\ objPC[o] \notin Open => semVal[o] = 0
    /\ \A c \in Calls : Reading(c) /\ sem[c] = o => objPC[o] \in Open /\ semVal[o] = 0
    /\ \A c, d \in Calls : Reading(c) /\ Reading(d) /\ sem[c] = o /\ sem[d] = o => c = d
    /\ objPC[o] = "new" => \A c \in Calls : sem[c] # o

\* The creator's reference keeps an object alive that was never shared.
RefInv ==
  \A o \in Objects :
    /\ content[o] = "pointer" => objPC[o] = "shared" \/ doomed[o]
    /\ content[o] # "pointer" => refs[o] \subseteq {o}
    /\ ~doomed[o] /\ objPC[o] # "shared" => o \in refs[o]
    /\ doomed[o] => objPC[o] \in {"close", "locked", "unlinked", "freed"}

\* What a call holds while it reads.
ReadInv ==
  \A c \in Calls :
    /\ callPC[c] \in {"wait", "locked", "opened", "copied"} => sem[c] \in Sems
    /\ callPC[c] \in {"opened", "copied"} => mem[c] \in Objects
    /\ callPC[c] \in {"opened", "copied"} /\ sem[c] \in Quiet => mem[c] = sem[c]
    /\ callPC[c] = "opened" => got[c] = None
    /\ callPC[c] = "copied" => got[c] \in {None, mem[c]}
    /\ callPC[c] \in {"idle", "probed", "open", "wait", "locked"} => got[c] = None
    /\ callPC[c] \in {"got", "holds"} => got[c] \in Objects
    /\ got[c] \in Objects => content[got[c]] = "pointer"

IInv == TypeOK /\ SemInv /\ MemInv /\ LockInv /\ RefInv /\ ReadInv

\* To set a flag leaves a function of flags.
LEMMA BooleanExcept ==
  ASSUME NEW S, NEW f \in [S -> BOOLEAN], NEW x
  PROVE  [f EXCEPT ![x] = TRUE] \in [S -> BOOLEAN]
  OBVIOUS

\* Every step keeps the types.
LEMMA TypeOKStep ==
  ASSUME IInv, [Next]_vars
  PROVE  TypeOK'
  <1> USE SharedAssumption DEF SharedAssumption, IInv, TypeOK, Named, ReadInv, LockInv, Reading, Open, Sems, Quiet, Goto
  <1>1. ASSUME NEW o \in Objects, ShareCreate(o)  PROVE TypeOK'
    BY <1>1 DEF ShareCreate, MakeSemaphore, objVars, nameVars, callVars
  <1>2. ASSUME NEW o \in Objects, ShareFails(o)  PROVE TypeOK'
    BY <1>2 DEF ShareFails, Post, objVars, nameVars, callVars
  <1>3. ASSUME NEW o \in Objects, ShareMemory(o)  PROVE TypeOK'
    BY <1>3 DEF ShareMemory, objVars, nameVars, callVars
  <1>4. ASSUME NEW o \in Objects, ShareSize(o)  PROVE TypeOK'
    BY <1>4 DEF ShareSize, objVars, nameVars, callVars
  <1>5. ASSUME NEW o \in Objects, ShareWrite(o)  PROVE TypeOK'
    <2>1. o \in Quiet => semVal[o] = 0  BY <1>5 DEF ShareWrite
    <2>2. semVal' \in [Objects \cup Calls -> Nat] /\ \A p \in Quiet : semVal'[p] <= 1
      BY <1>5, <2>1 DEF ShareWrite, Post
    <2>3. content' \in [Objects -> {"none", "empty", "zeros", "pointer"}]
      BY <1>5 DEF ShareWrite
    <2>4. objPC' \in [Objects -> Named \cup {"new", "failed", "freed"}]
      BY <1>5 DEF ShareWrite
    <2>5. QED
      BY <1>5, <2>2, <2>3, <2>4 DEF ShareWrite, nameVars, callVars
  <1>6. ASSUME NEW o \in Objects, CreatorReleases(o)  PROVE TypeOK'
    <2>1. doomed' \in [Objects -> BOOLEAN]
      <3>1. doomed \in [Objects -> BOOLEAN]  OBVIOUS
      <3>2. doomed' = doomed \/ doomed' = [doomed EXCEPT ![o] = TRUE]
        BY <1>6 DEF CreatorReleases, Release
      <3>3. QED  BY <3>1, <3>2, BooleanExcept
    <2>2. refs' \in [Objects -> SUBSET (Objects \cup Calls)]  BY <1>6 DEF CreatorReleases, Release
    <2>3. objPC' \in [Objects -> Named \cup {"new", "failed", "freed"}]
      BY <1>6 DEF CreatorReleases, Release
    <2>4. QED
      BY <1>6, <2>1, <2>2, <2>3 DEF CreatorReleases, nameVars, callVars
  <1>7. ASSUME NEW o \in Objects, CloseWait(o)  PROVE TypeOK'
    BY <1>7 DEF CloseWait, Wait, objVars, nameVars, callVars
  <1>8. ASSUME NEW o \in Objects, CloseMemory(o)  PROVE TypeOK'
    BY <1>8 DEF CloseMemory, objVars, nameVars, callVars
  <1>9. ASSUME NEW o \in Objects, CloseSemaphore(o)  PROVE TypeOK'
    BY <1>9 DEF CloseSemaphore, objVars, nameVars, callVars
  <1>10. ASSUME NEW o \in Objects, CloseInterrupted(o)  PROVE TypeOK'
    BY <1>10 DEF CloseInterrupted, objVars, nameVars, callVars
  <1>11. ASSUME NEW c \in Calls, ProbeMakes(c)  PROVE TypeOK'
    BY <1>11 DEF ProbeMakes, objVars, nameVars, callVars
  <1>12. ASSUME NEW c \in Calls, ProbeFails(c)  PROVE TypeOK'
    BY <1>12 DEF ProbeFails, objVars, nameVars, callVars
  <1>13. ASSUME NEW c \in Calls, Unprobe(c)  PROVE TypeOK'
    BY <1>13 DEF Unprobe, objVars, nameVars, callVars
  <1>14. ASSUME NEW c \in Calls, OpenExisting(c)  PROVE TypeOK'
    BY <1>14 DEF OpenExisting, objVars, nameVars, callVars
  <1>15. ASSUME NEW c \in Calls, OpenMakes(c)  PROVE TypeOK'
    BY <1>15 DEF OpenMakes, objVars, nameVars, callVars
  <1>16. ASSUME NEW c \in Calls, OpenFails(c)  PROVE TypeOK'
    BY <1>16 DEF OpenFails, objVars, nameVars, callVars
  <1>17. ASSUME NEW c \in Calls, TryWait(c)  PROVE TypeOK'
    BY <1>17 DEF TryWait, Wait, objVars, nameVars, callVars
  <1>18. ASSUME NEW c \in Calls, TimedOut(c)  PROVE TypeOK'
    BY <1>18 DEF TimedOut, objVars, nameVars, callVars
  <1>19. ASSUME NEW c \in Calls, OpenMemory(c)  PROVE TypeOK'
    BY <1>19 DEF OpenMemory, objVars, nameVars, callVars
  <1>20. ASSUME NEW c \in Calls, ReadFails(c)  PROVE TypeOK'
    BY <1>20 DEF ReadFails, Post, objVars, nameVars, callVars
  <1>21. ASSUME NEW c \in Calls, Copy(c)  PROVE TypeOK'
    BY <1>21 DEF Copy, objVars, nameVars, callVars
  <1>22. ASSUME NEW c \in Calls, Return(c)  PROVE TypeOK'
    BY <1>22 DEF Return, Post, objVars, nameVars, callVars
  <1>23. ASSUME NEW c \in Calls, AddRef(c)  PROVE TypeOK'
    BY <1>23 DEF AddRef, objVars, nameVars, callVars
  <1>24. ASSUME NEW c \in Calls, CallReleases(c)  PROVE TypeOK'
    <2>1. doomed' \in [Objects -> BOOLEAN]
      <3>1. doomed \in [Objects -> BOOLEAN]  OBVIOUS
      <3>2. doomed' = doomed \/ doomed' = [doomed EXCEPT ![got[c]] = TRUE]
        BY <1>24 DEF CallReleases, Release, objVars
      <3>3. QED  BY <3>1, <3>2, BooleanExcept
    <2>2. refs' \in [Objects -> SUBSET (Objects \cup Calls)]
      BY <1>24 DEF CallReleases, Release, objVars
    <2>3. objPC' \in [Objects -> Named \cup {"new", "failed", "freed"}]
      <3>1. CASE objPC' = objPC  BY <3>1
      <3>2. CASE objPC' = [objPC EXCEPT ![got[c]] = IF @ = "shared" THEN "close" ELSE "freed"]
        BY <3>2
      <3>3. QED  BY <1>24, <3>1, <3>2 DEF CallReleases, Release, objVars
    <2>4. callPC' \in [Calls -> {"idle", "probed", "open", "wait", "locked", "opened",
                                 "copied", "got", "holds", "dangling", "done"}]
      BY <1>24 DEF CallReleases
    <2>5. QED
      BY <1>24, <2>1, <2>2, <2>3, <2>4 DEF CallReleases, nameVars
  <1>25. CASE UNCHANGED vars
    BY <1>25 DEF vars, objVars, nameVars, callVars
  <1>26. QED
    BY <1>1, <1>2, <1>3, <1>4, <1>5, <1>6, <1>7, <1>8, <1>9, <1>10, <1>11, <1>12, <1>13, <1>14, <1>15, <1>16, <1>17, <1>18, <1>19, <1>20, <1>21, <1>22, <1>23, <1>24, <1>25 DEF Next, Object, Close, GetShared, Read

\* Only who has the name takes it away.
LEMMA SemInvStep ==
  ASSUME IInv, [Next]_vars
  PROVE  SemInv'
  <1> USE SharedAssumption DEF SharedAssumption, IInv, TypeOK, SemInv, MemInv, RefInv, ReadInv, Named, Sems, Quiet, Goto
  <1>1. ASSUME NEW o \in Objects, ShareCreate(o)  PROVE SemInv'
    BY <1>1 DEF ShareCreate, MakeSemaphore, objVars, nameVars, callVars
  <1>2. ASSUME NEW o \in Objects, ShareFails(o)  PROVE SemInv'
    BY <1>2 DEF ShareFails, Post, objVars, nameVars, callVars
  <1>3. ASSUME NEW o \in Objects, ShareMemory(o)  PROVE SemInv'
    BY <1>3 DEF ShareMemory, objVars, nameVars, callVars
  <1>4. ASSUME NEW o \in Objects, ShareSize(o)  PROVE SemInv'
    BY <1>4 DEF ShareSize, objVars, nameVars, callVars
  <1>5. ASSUME NEW o \in Objects, ShareWrite(o)  PROVE SemInv'
    BY <1>5 DEF ShareWrite, Post, objVars, nameVars, callVars
  <1>6. ASSUME NEW o \in Objects, CreatorReleases(o)  PROVE SemInv'
    BY <1>6 DEF CreatorReleases, Release, objVars, nameVars, callVars
  <1>7. ASSUME NEW o \in Objects, CloseWait(o)  PROVE SemInv'
    BY <1>7 DEF CloseWait, Wait, objVars, nameVars, callVars
  <1>8. ASSUME NEW o \in Objects, CloseMemory(o)  PROVE SemInv'
    BY <1>8 DEF CloseMemory, objVars, nameVars, callVars
  <1>9. ASSUME NEW o \in Objects, CloseSemaphore(o)  PROVE SemInv'
    BY <1>9 DEF CloseSemaphore, objVars, nameVars, callVars
  <1>10. ASSUME NEW o \in Objects, CloseInterrupted(o)  PROVE SemInv'
    BY <1>10 DEF CloseInterrupted, objVars, nameVars, callVars
  <1>11. ASSUME NEW c \in Calls, ProbeMakes(c)  PROVE SemInv'
    BY <1>11 DEF ProbeMakes, objVars, nameVars, callVars
  <1>12. ASSUME NEW c \in Calls, ProbeFails(c)  PROVE SemInv'
    BY <1>12 DEF ProbeFails, objVars, nameVars, callVars
  <1>13. ASSUME NEW c \in Calls, Unprobe(c)  PROVE SemInv'
    BY <1>13 DEF Unprobe, objVars, nameVars, callVars
  <1>14. ASSUME NEW c \in Calls, OpenExisting(c)  PROVE SemInv'
    BY <1>14 DEF OpenExisting, objVars, nameVars, callVars
  <1>15. ASSUME NEW c \in Calls, OpenMakes(c)  PROVE SemInv'
    BY <1>15 DEF OpenMakes, objVars, nameVars, callVars
  <1>16. ASSUME NEW c \in Calls, OpenFails(c)  PROVE SemInv'
    BY <1>16 DEF OpenFails, objVars, nameVars, callVars
  <1>17. ASSUME NEW c \in Calls, TryWait(c)  PROVE SemInv'
    BY <1>17 DEF TryWait, Wait, objVars, nameVars, callVars
  <1>18. ASSUME NEW c \in Calls, TimedOut(c)  PROVE SemInv'
    BY <1>18 DEF TimedOut, objVars, nameVars, callVars
  <1>19. ASSUME NEW c \in Calls, OpenMemory(c)  PROVE SemInv'
    BY <1>19 DEF OpenMemory, objVars, nameVars, callVars
  <1>20. ASSUME NEW c \in Calls, ReadFails(c)  PROVE SemInv'
    BY <1>20 DEF ReadFails, Post, objVars, nameVars, callVars
  <1>21. ASSUME NEW c \in Calls, Copy(c)  PROVE SemInv'
    BY <1>21 DEF Copy, objVars, nameVars, callVars
  <1>22. ASSUME NEW c \in Calls, Return(c)  PROVE SemInv'
    BY <1>22 DEF Return, Post, objVars, nameVars, callVars
  <1>23. ASSUME NEW c \in Calls, AddRef(c)  PROVE SemInv'
    BY <1>23 DEF AddRef, objVars, nameVars, callVars
  <1>24. ASSUME NEW c \in Calls, CallReleases(c)  PROVE SemInv'
    BY <1>24 DEF CallReleases, Release, objVars, nameVars, callVars
  <1>25. CASE UNCHANGED vars
    BY <1>25 DEF vars, objVars, nameVars, callVars
  <1>26. QED
    BY <1>1, <1>2, <1>3, <1>4, <1>5, <1>6, <1>7, <1>8, <1>9, <1>10, <1>11, <1>12, <1>13, <1>14, <1>15, <1>16, <1>17, <1>18, <1>19, <1>20, <1>21, <1>22, <1>23, <1>24, <1>25 DEF Next, Object, Close, GetShared, Read

\* The memory has its name while its owner may unlink it.
LEMMA MemInvStep ==
  ASSUME IInv, [Next]_vars
  PROVE  MemInv'
  <1> USE SharedAssumption DEF SharedAssumption, IInv, TypeOK, SemInv, MemInv, RefInv, ReadInv, Named, Sems, Quiet, Goto
  <1>1. ASSUME NEW o \in Objects, ShareCreate(o)  PROVE MemInv'
    BY <1>1 DEF ShareCreate, MakeSemaphore, objVars, nameVars, callVars
  <1>2. ASSUME NEW o \in Objects, ShareFails(o)  PROVE MemInv'
    BY <1>2 DEF ShareFails, Post, objVars, nameVars, callVars
  <1>3. ASSUME NEW o \in Objects, ShareMemory(o)  PROVE MemInv'
    BY <1>3 DEF ShareMemory, objVars, nameVars, callVars
  <1>4. ASSUME NEW o \in Objects, ShareSize(o)  PROVE MemInv'
    BY <1>4 DEF ShareSize, objVars, nameVars, callVars
  <1>5. ASSUME NEW o \in Objects, ShareWrite(o)  PROVE MemInv'
    BY <1>5 DEF ShareWrite, Post, objVars, nameVars, callVars
  <1>6. ASSUME NEW o \in Objects, CreatorReleases(o)  PROVE MemInv'
    BY <1>6 DEF CreatorReleases, Release, objVars, nameVars, callVars
  <1>7. ASSUME NEW o \in Objects, CloseWait(o)  PROVE MemInv'
    BY <1>7 DEF CloseWait, Wait, objVars, nameVars, callVars
  <1>8. ASSUME NEW o \in Objects, CloseMemory(o)  PROVE MemInv'
    BY <1>8 DEF CloseMemory, objVars, nameVars, callVars
  <1>9. ASSUME NEW o \in Objects, CloseSemaphore(o)  PROVE MemInv'
    BY <1>9 DEF CloseSemaphore, objVars, nameVars, callVars
  <1>10. ASSUME NEW o \in Objects, CloseInterrupted(o)  PROVE MemInv'
    BY <1>10 DEF CloseInterrupted, objVars, nameVars, callVars
  <1>11. ASSUME NEW c \in Calls, ProbeMakes(c)  PROVE MemInv'
    BY <1>11 DEF ProbeMakes, objVars, nameVars, callVars
  <1>12. ASSUME NEW c \in Calls, ProbeFails(c)  PROVE MemInv'
    BY <1>12 DEF ProbeFails, objVars, nameVars, callVars
  <1>13. ASSUME NEW c \in Calls, Unprobe(c)  PROVE MemInv'
    BY <1>13 DEF Unprobe, objVars, nameVars, callVars
  <1>14. ASSUME NEW c \in Calls, OpenExisting(c)  PROVE MemInv'
    BY <1>14 DEF OpenExisting, objVars, nameVars, callVars
  <1>15. ASSUME NEW c \in Calls, OpenMakes(c)  PROVE MemInv'
    BY <1>15 DEF OpenMakes, objVars, nameVars, callVars
  <1>16. ASSUME NEW c \in Calls, OpenFails(c)  PROVE MemInv'
    BY <1>16 DEF OpenFails, objVars, nameVars, callVars
  <1>17. ASSUME NEW c \in Calls, TryWait(c)  PROVE MemInv'
    BY <1>17 DEF TryWait, Wait, objVars, nameVars, callVars
  <1>18. ASSUME NEW c \in Calls, TimedOut(c)  PROVE MemInv'
    BY <1>18 DEF TimedOut, objVars, nameVars, callVars
  <1>19. ASSUME NEW c \in Calls, OpenMemory(c)  PROVE MemInv'
    BY <1>19 DEF OpenMemory, objVars, nameVars, callVars
  <1>20. ASSUME NEW c \in Calls, ReadFails(c)  PROVE MemInv'
    BY <1>20 DEF ReadFails, Post, objVars, nameVars, callVars
  <1>21. ASSUME NEW c \in Calls, Copy(c)  PROVE MemInv'
    BY <1>21 DEF Copy, objVars, nameVars, callVars
  <1>22. ASSUME NEW c \in Calls, Return(c)  PROVE MemInv'
    BY <1>22 DEF Return, Post, objVars, nameVars, callVars
  <1>23. ASSUME NEW c \in Calls, AddRef(c)  PROVE MemInv'
    BY <1>23 DEF AddRef, objVars, nameVars, callVars
  <1>24. ASSUME NEW c \in Calls, CallReleases(c)  PROVE MemInv'
    BY <1>24 DEF CallReleases, Release, objVars, nameVars, callVars
  <1>25. CASE UNCHANGED vars
    BY <1>25 DEF vars, objVars, nameVars, callVars
  <1>26. QED
    BY <1>1, <1>2, <1>3, <1>4, <1>5, <1>6, <1>7, <1>8, <1>9, <1>10, <1>11, <1>12, <1>13, <1>14, <1>15, <1>16, <1>17, <1>18, <1>19, <1>20, <1>21, <1>22, <1>23, <1>24, <1>25 DEF Next, Object, Close, GetShared, Read

\* A semaphore lets one in at a time.
LEMMA LockInvStep ==
  ASSUME IInv, [Next]_vars
  PROVE  LockInv'
  <1> USE SharedAssumption DEF SharedAssumption, IInv, TypeOK, SemInv, LockInv, RefInv, ReadInv, MemInv, Open, Named, Reading, Sems, Quiet, Goto
  <1>1. ASSUME NEW o \in Objects, ShareCreate(o)  PROVE LockInv'
    BY <1>1 DEF ShareCreate, MakeSemaphore, objVars, nameVars, callVars
  <1>2. ASSUME NEW o \in Objects, ShareFails(o)  PROVE LockInv'
    BY <1>2 DEF ShareFails, Post, objVars, nameVars, callVars
  <1>3. ASSUME NEW o \in Objects, ShareMemory(o)  PROVE LockInv'
    BY <1>3 DEF ShareMemory, objVars, nameVars, callVars
  <1>4. ASSUME NEW o \in Objects, ShareSize(o)  PROVE LockInv'
    BY <1>4 DEF ShareSize, objVars, nameVars, callVars
  <1>5. ASSUME NEW o \in Objects, ShareWrite(o)  PROVE LockInv'
    BY <1>5 DEF ShareWrite, Post, objVars, nameVars, callVars
  <1>6. ASSUME NEW o \in Objects, CreatorReleases(o)  PROVE LockInv'
    BY <1>6 DEF CreatorReleases, Release, objVars, nameVars, callVars
  <1>7. ASSUME NEW o \in Objects, CloseWait(o)  PROVE LockInv'
    BY <1>7 DEF CloseWait, Wait, objVars, nameVars, callVars
  <1>8. ASSUME NEW o \in Objects, CloseMemory(o)  PROVE LockInv'
    BY <1>8 DEF CloseMemory, objVars, nameVars, callVars
  <1>9. ASSUME NEW o \in Objects, CloseSemaphore(o)  PROVE LockInv'
    BY <1>9 DEF CloseSemaphore, objVars, nameVars, callVars
  <1>10. ASSUME NEW o \in Objects, CloseInterrupted(o)  PROVE LockInv'
    BY <1>10 DEF CloseInterrupted, objVars, nameVars, callVars
  <1>11. ASSUME NEW c \in Calls, ProbeMakes(c)  PROVE LockInv'
    BY <1>11 DEF ProbeMakes, objVars, nameVars, callVars
  <1>12. ASSUME NEW c \in Calls, ProbeFails(c)  PROVE LockInv'
    BY <1>12 DEF ProbeFails, objVars, nameVars, callVars
  <1>13. ASSUME NEW c \in Calls, Unprobe(c)  PROVE LockInv'
    BY <1>13 DEF Unprobe, objVars, nameVars, callVars
  <1>14. ASSUME NEW c \in Calls, OpenExisting(c)  PROVE LockInv'
    BY <1>14 DEF OpenExisting, objVars, nameVars, callVars
  <1>15. ASSUME NEW c \in Calls, OpenMakes(c)  PROVE LockInv'
    BY <1>15 DEF OpenMakes, objVars, nameVars, callVars
  <1>16. ASSUME NEW c \in Calls, OpenFails(c)  PROVE LockInv'
    BY <1>16 DEF OpenFails, objVars, nameVars, callVars
  <1>17. ASSUME NEW c \in Calls, TryWait(c)  PROVE LockInv'
    BY <1>17 DEF TryWait, Wait, objVars, nameVars, callVars
  <1>18. ASSUME NEW c \in Calls, TimedOut(c)  PROVE LockInv'
    BY <1>18 DEF TimedOut, objVars, nameVars, callVars
  <1>19. ASSUME NEW c \in Calls, OpenMemory(c)  PROVE LockInv'
    BY <1>19 DEF OpenMemory, objVars, nameVars, callVars
  <1>20. ASSUME NEW c \in Calls, ReadFails(c)  PROVE LockInv'
    BY <1>20 DEF ReadFails, Post, objVars, nameVars, callVars
  <1>21. ASSUME NEW c \in Calls, Copy(c)  PROVE LockInv'
    BY <1>21 DEF Copy, objVars, nameVars, callVars
  <1>22. ASSUME NEW c \in Calls, Return(c)  PROVE LockInv'
    BY <1>22 DEF Return, Post, objVars, nameVars, callVars
  <1>23. ASSUME NEW c \in Calls, AddRef(c)  PROVE LockInv'
    BY <1>23 DEF AddRef, objVars, nameVars, callVars
  <1>24. ASSUME NEW c \in Calls, CallReleases(c)  PROVE LockInv'
    <2>1. \A o \in Objects :
            objPC'[o] = objPC[o] \/ (objPC[o] = "shared" /\ objPC'[o] = "close")
      BY <1>24 DEF CallReleases, Release, objVars
    <2>2. \A d \in Calls : callPC'[d] = callPC[d] \/ callPC'[d] \in {"done", "dangling"}
      BY <1>24 DEF CallReleases
    <2>3. semVal' = semVal /\ sem' = sem  BY <1>24 DEF CallReleases
    <2>4. QED  BY <2>1, <2>2, <2>3
  <1>25. CASE UNCHANGED vars
    BY <1>25 DEF vars, objVars, nameVars, callVars
  <1>26. QED
    BY <1>1, <1>2, <1>3, <1>4, <1>5, <1>6, <1>7, <1>8, <1>9, <1>10, <1>11, <1>12, <1>13, <1>14, <1>15, <1>16, <1>17, <1>18, <1>19, <1>20, <1>21, <1>22, <1>23, <1>24, <1>25 DEF Next, Object, Close, GetShared, Read

\* Only an object that was shared is deleted by another than its creator.
LEMMA RefInvStep ==
  ASSUME IInv, [Next]_vars
  PROVE  RefInv'
  <1> USE SharedAssumption DEF SharedAssumption, IInv, TypeOK, MemInv, RefInv, ReadInv, Sems, Quiet, Goto
  <1>1. ASSUME NEW o \in Objects, ShareCreate(o)  PROVE RefInv'
    BY <1>1 DEF ShareCreate, MakeSemaphore, objVars, nameVars, callVars
  <1>2. ASSUME NEW o \in Objects, ShareFails(o)  PROVE RefInv'
    BY <1>2 DEF ShareFails, Post, objVars, nameVars, callVars
  <1>3. ASSUME NEW o \in Objects, ShareMemory(o)  PROVE RefInv'
    BY <1>3 DEF ShareMemory, objVars, nameVars, callVars
  <1>4. ASSUME NEW o \in Objects, ShareSize(o)  PROVE RefInv'
    BY <1>4 DEF ShareSize, objVars, nameVars, callVars
  <1>5. ASSUME NEW o \in Objects, ShareWrite(o)  PROVE RefInv'
    BY <1>5 DEF ShareWrite, Post, objVars, nameVars, callVars
  <1>6. ASSUME NEW o \in Objects, CreatorReleases(o)  PROVE RefInv'
    BY <1>6 DEF CreatorReleases, Release, objVars, nameVars, callVars
  <1>7. ASSUME NEW o \in Objects, CloseWait(o)  PROVE RefInv'
    BY <1>7 DEF CloseWait, Wait, objVars, nameVars, callVars
  <1>8. ASSUME NEW o \in Objects, CloseMemory(o)  PROVE RefInv'
    BY <1>8 DEF CloseMemory, objVars, nameVars, callVars
  <1>9. ASSUME NEW o \in Objects, CloseSemaphore(o)  PROVE RefInv'
    BY <1>9 DEF CloseSemaphore, objVars, nameVars, callVars
  <1>10. ASSUME NEW o \in Objects, CloseInterrupted(o)  PROVE RefInv'
    BY <1>10 DEF CloseInterrupted, objVars, nameVars, callVars
  <1>11. ASSUME NEW c \in Calls, ProbeMakes(c)  PROVE RefInv'
    BY <1>11 DEF ProbeMakes, objVars, nameVars, callVars
  <1>12. ASSUME NEW c \in Calls, ProbeFails(c)  PROVE RefInv'
    BY <1>12 DEF ProbeFails, objVars, nameVars, callVars
  <1>13. ASSUME NEW c \in Calls, Unprobe(c)  PROVE RefInv'
    BY <1>13 DEF Unprobe, objVars, nameVars, callVars
  <1>14. ASSUME NEW c \in Calls, OpenExisting(c)  PROVE RefInv'
    BY <1>14 DEF OpenExisting, objVars, nameVars, callVars
  <1>15. ASSUME NEW c \in Calls, OpenMakes(c)  PROVE RefInv'
    BY <1>15 DEF OpenMakes, objVars, nameVars, callVars
  <1>16. ASSUME NEW c \in Calls, OpenFails(c)  PROVE RefInv'
    BY <1>16 DEF OpenFails, objVars, nameVars, callVars
  <1>17. ASSUME NEW c \in Calls, TryWait(c)  PROVE RefInv'
    BY <1>17 DEF TryWait, Wait, objVars, nameVars, callVars
  <1>18. ASSUME NEW c \in Calls, TimedOut(c)  PROVE RefInv'
    BY <1>18 DEF TimedOut, objVars, nameVars, callVars
  <1>19. ASSUME NEW c \in Calls, OpenMemory(c)  PROVE RefInv'
    BY <1>19 DEF OpenMemory, objVars, nameVars, callVars
  <1>20. ASSUME NEW c \in Calls, ReadFails(c)  PROVE RefInv'
    BY <1>20 DEF ReadFails, Post, objVars, nameVars, callVars
  <1>21. ASSUME NEW c \in Calls, Copy(c)  PROVE RefInv'
    BY <1>21 DEF Copy, objVars, nameVars, callVars
  <1>22. ASSUME NEW c \in Calls, Return(c)  PROVE RefInv'
    BY <1>22 DEF Return, Post, objVars, nameVars, callVars
  <1>23. ASSUME NEW c \in Calls, AddRef(c)  PROVE RefInv'
    BY <1>23 DEF AddRef, objVars, nameVars, callVars
  <1>24. ASSUME NEW c \in Calls, CallReleases(c)  PROVE RefInv'
    BY <1>24 DEF CallReleases, Release, objVars, nameVars, callVars
  <1>25. CASE UNCHANGED vars
    BY <1>25 DEF vars, objVars, nameVars, callVars
  <1>26. QED
    BY <1>1, <1>2, <1>3, <1>4, <1>5, <1>6, <1>7, <1>8, <1>9, <1>10, <1>11, <1>12, <1>13, <1>14, <1>15, <1>16, <1>17, <1>18, <1>19, <1>20, <1>21, <1>22, <1>23, <1>24, <1>25 DEF Next, Object, Close, GetShared, Read

\* What a call has read stays true.
LEMMA ReadInvStep ==
  ASSUME IInv, [Next]_vars
  PROVE  ReadInv'
  <1> USE SharedAssumption DEF SharedAssumption, IInv, TypeOK, SemInv, MemInv, LockInv, ReadInv, Named, Open, Reading, Sems, Quiet, Goto
  <1>1. ASSUME NEW o \in Objects, ShareCreate(o)  PROVE ReadInv'
    BY <1>1 DEF ShareCreate, MakeSemaphore, objVars, nameVars, callVars
  <1>2. ASSUME NEW o \in Objects, ShareFails(o)  PROVE ReadInv'
    BY <1>2 DEF ShareFails, Post, objVars, nameVars, callVars
  <1>3. ASSUME NEW o \in Objects, ShareMemory(o)  PROVE ReadInv'
    BY <1>3 DEF ShareMemory, objVars, nameVars, callVars
  <1>4. ASSUME NEW o \in Objects, ShareSize(o)  PROVE ReadInv'
    BY <1>4 DEF ShareSize, objVars, nameVars, callVars
  <1>5. ASSUME NEW o \in Objects, ShareWrite(o)  PROVE ReadInv'
    BY <1>5 DEF ShareWrite, Post, objVars, nameVars, callVars
  <1>6. ASSUME NEW o \in Objects, CreatorReleases(o)  PROVE ReadInv'
    BY <1>6 DEF CreatorReleases, Release, objVars, nameVars, callVars
  <1>7. ASSUME NEW o \in Objects, CloseWait(o)  PROVE ReadInv'
    BY <1>7 DEF CloseWait, Wait, objVars, nameVars, callVars
  <1>8. ASSUME NEW o \in Objects, CloseMemory(o)  PROVE ReadInv'
    BY <1>8 DEF CloseMemory, objVars, nameVars, callVars
  <1>9. ASSUME NEW o \in Objects, CloseSemaphore(o)  PROVE ReadInv'
    BY <1>9 DEF CloseSemaphore, objVars, nameVars, callVars
  <1>10. ASSUME NEW o \in Objects, CloseInterrupted(o)  PROVE ReadInv'
    BY <1>10 DEF CloseInterrupted, objVars, nameVars, callVars
  <1>11. ASSUME NEW c \in Calls, ProbeMakes(c)  PROVE ReadInv'
    BY <1>11 DEF ProbeMakes, objVars, nameVars, callVars
  <1>12. ASSUME NEW c \in Calls, ProbeFails(c)  PROVE ReadInv'
    BY <1>12 DEF ProbeFails, objVars, nameVars, callVars
  <1>13. ASSUME NEW c \in Calls, Unprobe(c)  PROVE ReadInv'
    BY <1>13 DEF Unprobe, objVars, nameVars, callVars
  <1>14. ASSUME NEW c \in Calls, OpenExisting(c)  PROVE ReadInv'
    BY <1>14 DEF OpenExisting, objVars, nameVars, callVars
  <1>15. ASSUME NEW c \in Calls, OpenMakes(c)  PROVE ReadInv'
    BY <1>15 DEF OpenMakes, objVars, nameVars, callVars
  <1>16. ASSUME NEW c \in Calls, OpenFails(c)  PROVE ReadInv'
    BY <1>16 DEF OpenFails, objVars, nameVars, callVars
  <1>17. ASSUME NEW c \in Calls, TryWait(c)  PROVE ReadInv'
    BY <1>17 DEF TryWait, Wait, objVars, nameVars, callVars
  <1>18. ASSUME NEW c \in Calls, TimedOut(c)  PROVE ReadInv'
    BY <1>18 DEF TimedOut, objVars, nameVars, callVars
  <1>19. ASSUME NEW c \in Calls, OpenMemory(c)  PROVE ReadInv'
    BY <1>19 DEF OpenMemory, objVars, nameVars, callVars
  <1>20. ASSUME NEW c \in Calls, ReadFails(c)  PROVE ReadInv'
    BY <1>20 DEF ReadFails, Post, objVars, nameVars, callVars
  <1>21. ASSUME NEW c \in Calls, Copy(c)  PROVE ReadInv'
    BY <1>21 DEF Copy, objVars, nameVars, callVars
  <1>22. ASSUME NEW c \in Calls, Return(c)  PROVE ReadInv'
    BY <1>22 DEF Return, Post, objVars, nameVars, callVars
  <1>23. ASSUME NEW c \in Calls, AddRef(c)  PROVE ReadInv'
    BY <1>23 DEF AddRef, objVars, nameVars, callVars
  <1>24. ASSUME NEW c \in Calls, CallReleases(c)  PROVE ReadInv'
    BY <1>24 DEF CallReleases, Release, objVars, nameVars, callVars
  <1>25. CASE UNCHANGED vars
    BY <1>25 DEF vars, objVars, nameVars, callVars
  <1>26. QED
    BY <1>1, <1>2, <1>3, <1>4, <1>5, <1>6, <1>7, <1>8, <1>9, <1>10, <1>11, <1>12, <1>13, <1>14, <1>15, <1>16, <1>17, <1>18, <1>19, <1>20, <1>21, <1>22, <1>23, <1>24, <1>25 DEF Next, Object, Close, GetShared, Read

\* Nothing is shared at first.
LEMMA IInvInit == Init => IInv
  <1> SUFFICES ASSUME Init  PROVE IInv  OBVIOUS
  <1> USE SharedAssumption DEF SharedAssumption, Init, Sems, Quiet, Named
  <1>1. TypeOK  BY DEF TypeOK
  <1>2. SemInv /\ MemInv  BY DEF SemInv, MemInv
  <1>3. LockInv  BY DEF LockInv, Open, Reading
  <1>4. RefInv /\ ReadInv  BY DEF RefInv, ReadInv
  <1>5. QED  BY <1>1, <1>2, <1>3, <1>4 DEF IInv

\* The inductive invariant holds in every reachable state.
THEOREM Invariant == Spec => []IInv
  <1>1. IInv /\ [Next]_vars => IInv'
    BY TypeOKStep, SemInvStep, MemInvStep, LockInvStep, RefInvStep, ReadInvStep DEF IInv
  <1>2. QED  BY IInvInit, <1>1, PTL DEF Spec

\* Every variable keeps its type, and no semaphore of an object exceeds one.
THEOREM TypeCorrect == Spec => []TypeOK
  <1>1. IInv => TypeOK  BY DEF IInv
  <1>2. QED  BY Invariant, <1>1, PTL

\* The name stays with the object that is shared under it (Shared_Create,
\* Shared_Close), whatever readers do to names that exist or do not.
THEOREM NameStays == Spec => []NameIsKept
  <1>1. IInv => NameIsKept
    BY DEF IInv, SemInv, MemInv, NameIsKept, Named, InMemory
  <1>2. QED  BY Invariant, <1>1, PTL

\* A pointer that Shared_Read copies under the semaphore of an object is the
\* pointer to that object, whose destructor still waits in Shared_Close.
THEOREM LockedReads == Spec => []LockedReadIsTrue
  <1>1. IInv => LockedReadIsTrue
    <2> SUFFICES ASSUME IInv, NEW c \in Calls, callPC[c] \in {"opened", "copied"},
                        sem[c] \in Quiet
                 PROVE  /\ mem[c] = sem[c] /\ got[c] \in {None, sem[c]}
                        /\ objPC[sem[c]] \in {"shared", "undo", "close"}
      BY DEF LockedReadIsTrue
    <2>1. mem[c] = sem[c] /\ got[c] \in {None, sem[c]}  BY DEF IInv, ReadInv
    <2>2. objPC[sem[c]] \in Open  BY DEF IInv, LockInv, Reading
    <2>3. QED  BY <2>1, <2>2 DEF Open
  <1>2. QED  BY Invariant, <1>1, PTL

===============================================================================
