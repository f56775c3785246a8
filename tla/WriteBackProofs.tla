--------------------------- MODULE WriteBackProofs ---------------------------
(***************************************************************************)
(* Proofs about FileLock, for every number of callers, detached threads,   *)
(* lock objects and calls, and about WriteBack, which it is a part of, for *)
(* every number of users, background threads and failures: until a lock    *)
(* object is orphaned, callers exclude each other, and until then or an    *)
(* update mark is lost, dirty data is tracked, fsync is durable and no     *)
(* upload undoes another; at any time the write cache holds no more than   *)
(* what the checks let in.  And about FdUpload, for every number of        *)
(* handles, size and plan: whoever waits for its workers is woken.         *)
(***************************************************************************)
EXTENDS WriteBack, FdUpload, FiniteSetTheorems, TLAPS

------------------------------------------------------------------------------
(***************************************************************************)
(* Type correctness                                                        *)
(***************************************************************************)
\* The object make_shared returns is a lock object nobody refers to.
LEMMA FreshObject ==
    ASSUME Unused # {}
    PROVE  (CHOOSE l \in Unused : TRUE) \in Unused /\ (CHOOSE l \in Unused : TRUE) \in Locks
BY DEF Unused

\* A step of the protocol, whoever makes it and however calls are counted.
LockNext ==
    \/ \E t \in Threads, o \in OpNames : Call(t, o)
    \/ \E t \in Threads : Protocol(t) \/ Release(t)
    \/ \E r \in Releasers : Releaser(r)

LEMMA NextIsLockNext == TypeOK /\ [Next]_vars => [LockNext]_lockVars /\ calls' \in Nat
<1>1. Calls \subseteq OpNames  BY FileLockAssumption
<1> QED BY <1>1 DEF Next, LockNext, vars, TypeOK

LEMMA InitTypeOK == Init => TypeOK
<1> SUFFICES ASSUME Init PROVE TypeOK  OBVIOUS
<1>1. fileLock \in Locks \cup {NoLock} /\ value \in [Locks -> Int]  BY DEF Init
<1>2. lpc \in [Threads -> PCs] /\ op \in [Threads -> OpNames]  BY DEF Init, PCs, OpNames
<1>3. rpc \in [Releasers -> RPCs] /\ robj \in [Releasers -> Locks \cup {NoLock}]
  BY DEF Init, RPCs
<1>4. held \in [Threads -> Locks \cup {NoLock}] /\ calls \in Nat /\ orphaned \in BOOLEAN
  BY DEF Init
<1>5. /\ \A t \in Threads : lpc[t] = "idle"
      /\ \A r \in Releasers : rpc[r] = "none"
  BY DEF Init
<1> QED BY <1>1, <1>2, <1>3, <1>4, <1>5 DEF TypeOK

\* One step per action of FileLock.
LEMMA LockStepTypeOK == TypeOK /\ [LockNext]_lockVars /\ calls' \in Nat => TypeOK'
<1> SUFFICES ASSUME TypeOK, [LockNext]_lockVars, calls' \in Nat PROVE TypeOK'  OBVIOUS
<1> NoLock \notin Locks  BY FileLockAssumption
<1> USE DEF TypeOK, PCs, RPCs
<1>1. ASSUME NEW t \in Threads, NEW o \in OpNames, Call(t, o)
      PROVE  TypeOK'
  BY <1>1 DEF Call
<1>2. ASSUME NEW t \in Threads, Find(t) PROVE TypeOK'
  BY <1>2 DEF Find
<1>3. ASSUME NEW t \in Threads, Insert(t) PROVE TypeOK'
  <2>1. CASE fileLock # NoLock  BY <1>3, <2>1 DEF Insert
  <2>2. CASE fileLock = NoLock
    <3> DEFINE l == CHOOSE l \in Unused : TRUE
    <3>1. /\ lpc[t] = "insert" /\ fileLock' = l
          /\ value' = [value EXCEPT ![l] = 0]
          /\ held' = [held EXCEPT ![t] = l]
          /\ lpc' = [lpc EXCEPT ![t] = "spin"]
          /\ UNCHANGED <<op, rpc, robj, orphaned>>
          /\ l \in Locks
      BY <1>3, <2>2, FreshObject DEF Insert
    <3> HIDE DEF l
    <3> QED BY <3>1
  <2> QED BY <2>1, <2>2
<1>4. ASSUME NEW t \in Threads, Acquire(t) PROVE TypeOK'
  <2>1. CASE op[t] = "Put"  BY <1>4, <2>1 DEF Acquire
  <2>2. CASE op[t] # "Put"  BY <1>4, <2>2 DEF Acquire
  <2> QED BY <2>1, <2>2
<1>5. ASSUME NEW t \in Threads, ReleaseShared(t) PROVE TypeOK'
  BY <1>5 DEF ReleaseShared
<1>6. ASSUME NEW t \in Threads, ReleaseTruncate(t) PROVE TypeOK'
  BY <1>6 DEF ReleaseTruncate
<1>7. ASSUME NEW t \in Threads, ReleaseDelete(t) PROVE TypeOK'
  BY <1>7 DEF ReleaseDelete
<1>8. ASSUME NEW t \in Threads, EraseDelete(t) PROVE TypeOK'
  BY <1>8 DEF EraseDelete, Orphans
<1>9. ASSUME NEW t \in Threads, NEW r \in Releasers, HandOver(t, r)
      PROVE  TypeOK'
  BY <1>9 DEF HandOver
<1>10. ASSUME NEW r \in Releasers, ReleaserFind(r) PROVE TypeOK'
  BY <1>10 DEF ReleaserFind
<1>11. ASSUME NEW r \in Releasers, ReleaserStore(r) PROVE TypeOK'
  BY <1>11 DEF ReleaserStore
<1>12. ASSUME NEW r \in Releasers, ReleaserErase(r) PROVE TypeOK'
  BY <1>12 DEF ReleaserErase, Orphans
<1>13. CASE UNCHANGED lockVars  BY <1>13 DEF lockVars
<1> QED
  BY <1>1, <1>2, <1>3, <1>4, <1>5, <1>6, <1>7, <1>8, <1>9, <1>10, <1>11, <1>12, <1>13
     DEF LockNext, Protocol, Release, Releaser

LEMMA NextTypeOK == TypeOK /\ [Next]_vars => TypeOK'
BY NextIsLockNext, LockStepTypeOK

\* Whatever callers and detached threads do, whoever spins on, holds or frees a
\* lock object has one: no iterator that points nowhere is dereferenced.
THEOREM TypeCorrect == Spec => []TypeOK
BY InitTypeOK, NextTypeOK, PTL DEF Spec

------------------------------------------------------------------------------
(***************************************************************************)
(* Exclusion, as long as no object is orphaned                             *)
(***************************************************************************)
\* Who has an object has the one in the map, ...
HoldersAgree ==
    \A t \in Threads : IF lpc[t] \in {"spin", "in", "erase"}
                       THEN held[t] = fileLock /\ fileLock \in Locks
                       ELSE held[t] = NoLock

\* ... detached threads included, ...
ReleasersAgree ==
    \A r \in Releasers :
        /\ rpc[r] # "none" => fileLock \in Locks
        /\ rpc[r] \in {"store", "erase"} => robj[r] = fileLock

\* ... and the object counts who is inside.
Shared == Excluding = {} /\ Finishing = {} /\ value[fileLock] = Cardinality(Sharing)
Exclusive ==
    /\ value[fileLock] = -1 /\ Sharing = {}
    /\ \/ Finishing = {} /\ \E t \in Threads : Excluding = {t}
       \/ Excluding = {} /\ \E r \in Releasers : Finishing = {r}
ValueCounts == fileLock \in Locks => Shared \/ Exclusive

\* The inductive invariant.
LockInv == ~orphaned => HoldersAgree /\ ReleasersAgree /\ ValueCounts
LEMMA SharingFinite == IsFiniteSet(Sharing) /\ Cardinality(Sharing) \in Nat
<1>1. Sharing \subseteq Threads  BY DEF Sharing
<1>2. IsFiniteSet(Sharing)  BY <1>1, FileLockAssumption, FS_Subset
<1> QED BY <1>2, FS_CardinalityType

LEMMA InitLockInv == Init => LockInv
<1> SUFFICES ASSUME Init PROVE LockInv  OBVIOUS
<1>1. fileLock \notin Locks  BY FileLockAssumption DEF Init
<1>2. HoldersAgree  BY DEF Init, HoldersAgree
<1>3. ReleasersAgree  BY DEF Init, ReleasersAgree
<1> QED BY <1>1, <1>2, <1>3 DEF LockInv, ValueCounts

\* A caller inside for anything but a Put is the only one inside.
LEMMA ExclusiveCaller ==
    ASSUME TypeOK, LockInv, ~orphaned, NEW t \in Excluding
    PROVE  held[t] = fileLock /\ fileLock \in Locks /\ value[fileLock] = -1
           /\ Sharing = {} /\ Finishing = {} /\ Excluding = {t}
BY DEF LockInv, HoldersAgree, ValueCounts, Shared, Exclusive, Excluding

\* So is the detached thread that has not yet freed the lock of its Flush.
LEMMA ExclusiveReleaser ==
    ASSUME TypeOK, LockInv, ~orphaned, NEW r \in Finishing
    PROVE  fileLock \in Locks /\ value[fileLock] = -1
           /\ Sharing = {} /\ Excluding = {} /\ Finishing = {r}
BY DEF LockInv, ReleasersAgree, ValueCounts, Shared, Exclusive, Finishing

\* orphaned never becomes false again.
LEMMA OrphanedStays == [LockNext]_lockVars /\ orphaned => orphaned'
<1> SUFFICES ASSUME [LockNext]_lockVars, orphaned PROVE orphaned'  OBVIOUS
<1>1. CASE \E t \in Threads, o \in OpNames : Call(t, o)  BY <1>1 DEF Call
<1>2. CASE \E t \in Threads : Protocol(t)  BY <1>2 DEF Protocol, Find, Insert, Acquire
<1>3. CASE \E t \in Threads : Release(t)
  BY <1>3 DEF Release, ReleaseShared, ReleaseTruncate, ReleaseDelete, EraseDelete, HandOver
<1>4. CASE \E r \in Releasers : Releaser(r)
  BY <1>4 DEF Releaser, ReleaserFind, ReleaserStore, ReleaserErase
<1>5. CASE UNCHANGED lockVars  BY <1>5 DEF lockVars
<1> QED BY <1>1, <1>2, <1>3, <1>4, <1>5 DEF LockNext

\* One step per action.
LEMMA LockStepInv == TypeOK /\ LockInv /\ [LockNext]_lockVars => LockInv'
<1> SUFFICES ASSUME TypeOK, LockInv, [LockNext]_lockVars, ~orphaned'
             PROVE  HoldersAgree' /\ ReleasersAgree' /\ ValueCounts'
  BY DEF LockInv
<1>0. ~orphaned /\ HoldersAgree /\ ReleasersAgree /\ ValueCounts
  <2>1. orphaned => orphaned'  BY OrphanedStays
  <2> QED BY <2>1 DEF LockInv
<1> NoLock \notin Locks  BY FileLockAssumption
<1> USE DEF TypeOK, PCs, RPCs
<1>1. ASSUME NEW t \in Threads, NEW o \in OpNames, Call(t, o)
      PROVE  HoldersAgree' /\ ReleasersAgree' /\ ValueCounts'
  <2>1. HoldersAgree' /\ ReleasersAgree'
    BY <1>0, <1>1 DEF Call, HoldersAgree, ReleasersAgree
  <2>2. Sharing' = Sharing /\ Excluding' = Excluding /\ Finishing' = Finishing
    BY <1>1 DEF Call, Sharing, Excluding, Finishing
  <2>3. ValueCounts'
    BY <1>0, <1>1, <2>2 DEF Call, ValueCounts, Shared, Exclusive
  <2> QED BY <2>1, <2>3
<1>2. ASSUME NEW t \in Threads, Find(t)
      PROVE  HoldersAgree' /\ ReleasersAgree' /\ ValueCounts'
  <2>1. HoldersAgree' /\ ReleasersAgree'
    BY <1>0, <1>2 DEF Find, HoldersAgree, ReleasersAgree
  <2>2. Sharing' = Sharing /\ Excluding' = Excluding /\ Finishing' = Finishing
    BY <1>2 DEF Find, Sharing, Excluding, Finishing
  <2>3. ValueCounts'
    BY <1>0, <1>2, <2>2 DEF Find, ValueCounts, Shared, Exclusive
  <2> QED BY <2>1, <2>3
<1>3. ASSUME NEW t \in Threads, Insert(t)
      PROVE  HoldersAgree' /\ ReleasersAgree' /\ ValueCounts'
  <2>1. Sharing' = Sharing /\ Excluding' = Excluding /\ Finishing' = Finishing
    BY <1>3 DEF Insert, Sharing, Excluding, Finishing
  <2>2. CASE fileLock # NoLock
    <3>1. HoldersAgree' /\ ReleasersAgree'
      BY <1>0, <1>3, <2>2 DEF Insert, HoldersAgree, ReleasersAgree
    <3>2. ValueCounts'
      BY <1>0, <1>3, <2>1, <2>2 DEF Insert, ValueCounts, Shared, Exclusive
    <3> QED BY <3>1, <3>2
  <2>3. CASE fileLock = NoLock
    <3> DEFINE l == CHOOSE l \in Unused : TRUE
    <3>1. /\ lpc[t] = "insert" /\ fileLock' = l
          /\ value' = [value EXCEPT ![l] = 0]
          /\ held' = [held EXCEPT ![t] = l]
          /\ lpc' = [lpc EXCEPT ![t] = "spin"]
          /\ UNCHANGED <<op, rpc, robj>>
          /\ l \in Locks
      BY <1>3, <2>3, FreshObject DEF Insert
    <3> HIDE DEF l
    <3>2. HoldersAgree'  BY <1>0, <2>3, <3>1 DEF HoldersAgree
    <3>3. ReleasersAgree'  BY <1>0, <2>3, <3>1 DEF ReleasersAgree
    <3>4. Sharing = {} /\ Excluding = {} /\ Finishing = {}
      BY <1>0, <2>3 DEF HoldersAgree, ReleasersAgree, Sharing, Excluding, Finishing
    <3>5. Cardinality({}) = 0  BY FS_EmptySet
    <3>6. ValueCounts'  BY <2>1, <3>1, <3>4, <3>5 DEF ValueCounts, Shared
    <3> QED BY <3>2, <3>3, <3>6
  <2> QED BY <2>2, <2>3
<1>4. ASSUME NEW t \in Threads, Acquire(t)
      PROVE  HoldersAgree' /\ ReleasersAgree' /\ ValueCounts'
  <2>1. HoldersAgree' /\ ReleasersAgree'
    BY <1>0, <1>4 DEF Acquire, HoldersAgree, ReleasersAgree
  <2>2. held[t] = fileLock /\ fileLock \in Locks /\ fileLock' = fileLock
        /\ Finishing' = Finishing /\ t \notin Sharing /\ t \notin Excluding
    BY <1>0, <1>4 DEF Acquire, HoldersAgree, Finishing, Sharing, Excluding
  <2>3. CASE op[t] = "Put"
    <3>1. Sharing' = Sharing \cup {t} /\ Excluding' = Excluding
      BY <1>4, <2>3 DEF Acquire, Sharing, Excluding
    <3>2. value[fileLock] >= 0 /\ value'[fileLock] = value[fileLock] + 1
      BY <1>4, <2>2, <2>3 DEF Acquire
    <3>3. Shared  BY <1>0, <2>2, <3>2 DEF ValueCounts, Exclusive
    <3>4. Cardinality(Sharing \cup {t}) = Cardinality(Sharing) + 1
      BY <2>2, SharingFinite, FS_AddElement
    <3>5. Shared'  BY <2>2, <3>1, <3>2, <3>3, <3>4 DEF Shared
    <3> QED BY <2>1, <3>5 DEF ValueCounts
  <2>4. CASE op[t] # "Put"
    <3>1. Sharing' = Sharing /\ Excluding' = Excluding \cup {t}
      BY <1>4, <2>4 DEF Acquire, Sharing, Excluding
    <3>2. value[fileLock] = 0 /\ value'[fileLock] = -1
      BY <1>4, <2>2, <2>4 DEF Acquire
    <3>3. Shared  BY <1>0, <2>2, <3>2 DEF ValueCounts, Exclusive
    <3>4. Sharing = {}  BY <3>2, <3>3, SharingFinite, FS_EmptySet DEF Shared
    <3>5. Exclusive'  BY <2>2, <3>1, <3>2, <3>3, <3>4 DEF Shared, Exclusive
    <3> QED BY <2>1, <3>5 DEF ValueCounts
  <2> QED BY <2>3, <2>4
<1>5. ASSUME NEW t \in Threads, ReleaseShared(t)
      PROVE  HoldersAgree' /\ ReleasersAgree' /\ ValueCounts'
  <2>1. HoldersAgree' /\ ReleasersAgree'
    BY <1>0, <1>5 DEF ReleaseShared, HoldersAgree, ReleasersAgree
  <2>2. t \in Sharing /\ held[t] = fileLock /\ fileLock \in Locks /\ fileLock' = fileLock
    BY <1>0, <1>5 DEF ReleaseShared, HoldersAgree, Sharing
  <2>3. Sharing' = Sharing \ {t} /\ Excluding' = Excluding /\ Finishing' = Finishing
    BY <1>5 DEF ReleaseShared, Sharing, Excluding, Finishing
  <2>4. Shared  BY <1>0, <2>2 DEF ValueCounts, Exclusive
  <2>5. value'[fileLock] = value[fileLock] - 1  BY <1>5, <2>2 DEF ReleaseShared
  <2>6. Cardinality(Sharing \ {t}) = Cardinality(Sharing) - 1
    BY <2>2, SharingFinite, FS_RemoveElement
  <2>7. Shared'  BY <2>2, <2>3, <2>4, <2>5, <2>6 DEF Shared
  <2> QED BY <2>1, <2>7 DEF ValueCounts
<1>6. ASSUME NEW t \in Threads, ReleaseTruncate(t) \/ ReleaseDelete(t)
      PROVE  HoldersAgree' /\ ReleasersAgree' /\ ValueCounts'
  <2>1. HoldersAgree' /\ ReleasersAgree'
    BY <1>0, <1>6 DEF ReleaseTruncate, ReleaseDelete, HoldersAgree, ReleasersAgree
  <2>2. t \in Excluding  BY <1>6 DEF ReleaseTruncate, ReleaseDelete, Excluding
  <2>3. /\ Sharing = {} /\ Finishing = {} /\ Excluding = {t}
        /\ held[t] = fileLock /\ fileLock \in Locks
    BY <1>0, <2>2, ExclusiveCaller
  <2>4. Sharing' = Sharing /\ Excluding' = Excluding \ {t} /\ Finishing' = Finishing
    BY <1>6 DEF ReleaseTruncate, ReleaseDelete, Sharing, Excluding, Finishing
  <2>5. value'[fileLock] = 0 /\ fileLock' = fileLock
    BY <1>6, <2>3 DEF ReleaseTruncate, ReleaseDelete
  <2>6. Shared'  BY <2>3, <2>4, <2>5, FS_EmptySet DEF Shared
  <2> QED BY <2>1, <2>6 DEF ValueCounts
<1>7. ASSUME NEW t \in Threads, EraseDelete(t)
      PROVE  HoldersAgree' /\ ReleasersAgree' /\ ValueCounts'
  <2>1. /\ \A u \in Threads \ {t} : held[u] = NoLock
        /\ \A r \in Releasers : rpc[r] = "none"
    BY <1>7 DEF EraseDelete, Orphans
  <2>2. HoldersAgree'  BY <1>0, <1>7, <2>1 DEF EraseDelete, HoldersAgree
  <2>3. ReleasersAgree'  BY <1>7, <2>1 DEF EraseDelete, ReleasersAgree
  <2>4. ValueCounts'  BY <1>7 DEF EraseDelete, ValueCounts
  <2> QED BY <2>2, <2>3, <2>4
<1>8. ASSUME NEW t \in Threads, NEW r \in Releasers, HandOver(t, r)
      PROVE  HoldersAgree' /\ ReleasersAgree' /\ ValueCounts'
  <2>1. t \in Excluding  BY <1>8 DEF HandOver, Excluding
  <2>2. /\ Sharing = {} /\ Finishing = {} /\ Excluding = {t}
        /\ value[fileLock] = -1 /\ fileLock \in Locks
    BY <1>0, <2>1, ExclusiveCaller
  <2>3. HoldersAgree' /\ ReleasersAgree'
    BY <1>0, <1>8, <2>2 DEF HandOver, HoldersAgree, ReleasersAgree
  <2>4. Sharing' = Sharing /\ Excluding' = Excluding \ {t} /\ Finishing' = Finishing \cup {r}
    BY <1>8 DEF HandOver, Sharing, Excluding, Finishing
  <2>5. Exclusive'  BY <1>8, <2>2, <2>4 DEF HandOver, Exclusive
  <2> QED BY <2>3, <2>5 DEF ValueCounts
<1>9. ASSUME NEW r \in Releasers, ReleaserFind(r)
      PROVE  HoldersAgree' /\ ReleasersAgree' /\ ValueCounts'
  <2>1. fileLock \in Locks  BY <1>0, <1>9 DEF ReleaserFind, ReleasersAgree
  <2>2. HoldersAgree' /\ ReleasersAgree'
    BY <1>0, <1>9, <2>1 DEF ReleaserFind, HoldersAgree, ReleasersAgree
  <2>3. Sharing' = Sharing /\ Excluding' = Excluding /\ Finishing' = Finishing
    BY <1>9, <2>1 DEF ReleaserFind, Sharing, Excluding, Finishing
  <2>4. ValueCounts'
    BY <1>0, <1>9, <2>3 DEF ReleaserFind, ValueCounts, Shared, Exclusive
  <2> QED BY <2>2, <2>4
<1>10. ASSUME NEW r \in Releasers, ReleaserStore(r)
       PROVE  HoldersAgree' /\ ReleasersAgree' /\ ValueCounts'
  <2>1. r \in Finishing  BY <1>10 DEF ReleaserStore, Finishing
  <2>2. Sharing = {} /\ Excluding = {} /\ Finishing = {r} /\ fileLock \in Locks
    BY <1>0, <2>1, ExclusiveReleaser
  <2>3. robj[r] = fileLock  BY <1>0, <1>10 DEF ReleaserStore, ReleasersAgree
  <2>4. HoldersAgree' /\ ReleasersAgree'
    BY <1>0, <1>10, <2>3 DEF ReleaserStore, HoldersAgree, ReleasersAgree
  <2>5. Sharing' = Sharing /\ Excluding' = Excluding /\ Finishing' = Finishing \ {r}
    BY <1>10 DEF ReleaserStore, Sharing, Excluding, Finishing
  <2>6. value'[fileLock] = 0 /\ fileLock' = fileLock
    BY <1>10, <2>2, <2>3 DEF ReleaserStore
  <2>7. Shared'  BY <2>2, <2>5, <2>6, FS_EmptySet DEF Shared
  <2> QED BY <2>4, <2>7 DEF ValueCounts
<1>11. ASSUME NEW r \in Releasers, ReleaserErase(r)
       PROVE  HoldersAgree' /\ ReleasersAgree' /\ ValueCounts'
  <2>1. /\ \A u \in Threads : held[u] = NoLock
        /\ \A q \in Releasers \ {r} : rpc[q] = "none"
    BY <1>11 DEF ReleaserErase, Orphans
  <2>2. HoldersAgree'  BY <1>0, <1>11, <2>1 DEF ReleaserErase, HoldersAgree
  <2>3. ReleasersAgree'  BY <1>11, <2>1 DEF ReleaserErase, ReleasersAgree
  <2>4. ValueCounts'  BY <1>11 DEF ReleaserErase, ValueCounts
  <2> QED BY <2>2, <2>3, <2>4
<1>12. CASE UNCHANGED lockVars
  BY <1>0, <1>12 DEF lockVars, HoldersAgree, ReleasersAgree, ValueCounts, Shared,
                     Exclusive, Sharing, Excluding, Finishing
<1> QED
  BY <1>1, <1>2, <1>3, <1>4, <1>5, <1>6, <1>7, <1>8, <1>9, <1>10, <1>11, <1>12
     DEF LockNext, Protocol, Release, Releaser

LEMMA NextLockInv == TypeOK /\ LockInv /\ [Next]_vars => LockInv'
BY NextIsLockNext, LockStepInv

LEMMA LockInvExcludes == TypeOK /\ LockInv => ExclusionUntilOrphaned
<1> SUFFICES ASSUME TypeOK, LockInv, ~orphaned PROVE FileLockExclusion
  BY DEF ExclusionUntilOrphaned
<1>1. ASSUME NEW t \in Excluding, NEW u \in Excluding PROVE t = u
  BY <1>1, ExclusiveCaller
<1>2. ASSUME NEW r \in Finishing, NEW q \in Finishing PROVE r = q
  BY <1>2, ExclusiveReleaser
<1>3. Excluding = {} \/ Finishing = {}
  BY ExclusiveCaller
<1>4. (Excluding = {} /\ Finishing = {}) \/ Sharing = {}
  BY ExclusiveCaller, ExclusiveReleaser
<1> QED BY <1>1, <1>2, <1>3, <1>4 DEF FileLockExclusion

\* Put, Flush with its detached thread, Delete and Truncate of a file exclude
\* each other as rwlock readers and writers do until the erase of the lock's
\* map entry leaves the object to somebody: that erase is the only flaw.
THEOREM Exclusion == Spec => []ExclusionUntilOrphaned
<1>1. Spec => [](TypeOK /\ LockInv)
  BY InitTypeOK, NextTypeOK, InitLockInv, NextLockInv, PTL DEF Spec
<1> QED BY <1>1, LockInvExcludes, PTL

------------------------------------------------------------------------------
(***************************************************************************)
(* The operators                                                           *)
(***************************************************************************)
\* A set of pages that is not empty has a first one.
LEMMA FirstPage ==
    ASSUME NEW S, S \subseteq Pages, S # {}
    PROVE  Min(S) \in S
<1> NumPages \in 1 .. 9  BY WriteBackAssumption
<1>1. S \subseteq 0 .. 8  BY DEF Pages
<1> HIDE DEF Pages
<1> DEFINE From(k) == S \cap 0 .. (k - 1) = {}
           HasFirst == \E x \in S : \A y \in S : x <= y
<1>2. ASSUME NEW k \in 0 .. 8, From(k) PROVE HasFirst \/ From(k + 1)
  <2>1. k \in S => HasFirst  BY <1>1, <1>2
  <2> QED BY <1>1, <1>2, <2>1
<1>3. From(0)  OBVIOUS
<1> HIDE DEF From
<1>4. HasFirst \/ From(1)  BY <1>2, <1>3
<1>5. HasFirst \/ From(2)  BY <1>2, <1>4
<1>6. HasFirst \/ From(3)  BY <1>2, <1>5
<1>7. HasFirst \/ From(4)  BY <1>2, <1>6
<1>8. HasFirst \/ From(5)  BY <1>2, <1>7
<1>9. HasFirst \/ From(6)  BY <1>2, <1>8
<1>10. HasFirst \/ From(7)  BY <1>2, <1>9
<1>11. HasFirst \/ From(8)  BY <1>2, <1>10
<1>12. HasFirst \/ From(9)  BY <1>2, <1>11
<1>13. From(9) => S \cap 0 .. 8 = {}  BY DEF From
<1>14. HasFirst  BY <1>1, <1>12, <1>13
<1> QED BY <1>14 DEF Min

\* The walk over the pages of a file finds none: the name in a page's key is
\* not the file's name.
LEMMA WalkFindsNothing == ASSUME NEW i, wc \in [Pages -> Nat] PROVE Without(Walk(i)) = wc
<1>1. FileName \in Seq({"file", "_W"})  BY DEF FileName
<1>2. \A p : GetPageKey(FileName, p).name # FileName
  BY <1>1 DEF GetPageKey, FileName
<1>3. Walk(i) = {}  BY <1>2 DEF Walk
<1> QED BY <1>3 DEF Without

------------------------------------------------------------------------------
(***************************************************************************)
(* Types                                                                   *)
(***************************************************************************)
Places == {"top", "full", "lock", "write", "resize", "unlock", "cut", "wipe", "object",
           "size", "get", "handover", "flushed", "done"}
Jobs == [at : Places, from : Nat, to : 0 .. NumPages, todo : SUBSET Pages,
         buf : [Pages -> Nat], ok : BOOLEAN, close : BOOLEAN]

\* The variables of the data ...
DataTypeOK ==
    /\ wc \in [Pages -> Nat] /\ s3 \in [Pages -> Nat]
    /\ written \in [Pages -> Nat] /\ acked \in [Pages -> Nat]
    /\ need \in [Threads -> [Pages -> Nat]]
    /\ realsize \in 0 .. NumPages /\ s3len \in 0 .. NumPages
    /\ keys \in BOOLEAN /\ mark \in BOOLEAN
    /\ remarked \in BOOLEAN /\ markLost \in BOOLEAN

\* ... and of the threads.
JobTypeOK ==
    /\ job \in [Threads -> Jobs]
    /\ rres \in [Releasers -> {"success", "error", "done"}]
    /\ fds \subseteq Users /\ fdentLock \in Threads \cup {NoThread}

LEMMA Constants ==
    /\ Users \subseteq Threads /\ Background \subseteq Threads /\ NoThread \notin Threads
    /\ NumPages \in Nat /\ ObjectLen \in 0 .. NumPages /\ Lengths \subseteq Nat
    /\ Pages = 0 .. NumPages - 1
BY WriteBackAssumption DEF Users, Pages

LEMMA NoneType == None \in [Pages -> Nat] /\ \A p \in Pages : None[p] = 0
BY DEF None

LEMMA NoJobType == NoJob \in Jobs
BY NoneType, WriteBackAssumption DEF NoJob, Jobs, Places

\* A job with a field replaced is a job.
LEMMA JobFields ==
    ASSUME NEW r \in Jobs
    PROVE  /\ \A x \in Places : [r EXCEPT !.at = x] \in Jobs
           /\ \A x \in 0 .. NumPages : [r EXCEPT !.to = x] \in Jobs
           /\ \A x \in SUBSET Pages : [r EXCEPT !.todo = x] \in Jobs
           /\ \A x \in [Pages -> Nat] : [r EXCEPT !.buf = x] \in Jobs
           /\ \A x \in BOOLEAN : [r EXCEPT !.ok = x] \in Jobs
           /\ \A x \in BOOLEAN : [r EXCEPT !.close = x] \in Jobs
<1>1. \A x \in Places : [r EXCEPT !.at = x] \in Jobs  BY DEF Jobs
<1>2. \A x \in 0 .. NumPages : [r EXCEPT !.to = x] \in Jobs  BY DEF Jobs
<1>3. \A x \in SUBSET Pages : [r EXCEPT !.todo = x] \in Jobs  BY DEF Jobs
<1>4. \A x \in [Pages -> Nat] : [r EXCEPT !.buf = x] \in Jobs  BY DEF Jobs
<1>5. \A x \in BOOLEAN : [r EXCEPT !.ok = x] \in Jobs  BY Zenon DEF Jobs
<1>6. \A x \in BOOLEAN : [r EXCEPT !.close = x] \in Jobs  BY Zenon DEF Jobs
<1> QED BY <1>1, <1>2, <1>3, <1>4, <1>5, <1>6

\* The types of a job's parts.
LEMMA JobParts ==
    ASSUME NEW r \in Jobs
    PROVE  r.buf \in [Pages -> Nat] /\ r.to \in Nat /\ r.to \in 0 .. NumPages
           /\ r.todo \subseteq Pages /\ r.from \in Nat
BY Constants DEF Jobs

\* What Goto does to the jobs.
LEMMA GotoJob ==
    ASSUME job \in [Threads -> Jobs], NEW t \in Threads, NEW x \in Places, Goto(t, x)
    PROVE  /\ job' \in [Threads -> Jobs] /\ \A u \in Threads \ {t} : job'[u] = job[u]
           /\ job'[t].at = x /\ job'[t].from = job[t].from /\ job'[t].to = job[t].to
           /\ job'[t].todo = job[t].todo /\ job'[t].buf = job[t].buf
           /\ job'[t].ok = job[t].ok /\ job'[t].close = job[t].close
<1>1. job' = [job EXCEPT ![t].at = x]  BY DEF Goto
<1>2. job' \in [Threads -> Jobs]  BY <1>1 DEF Jobs
<1>3. \A u \in Threads \ {t} : job'[u] = job[u]  BY <1>1
<1> QED BY <1>1, <1>2, <1>3 DEF Jobs

\* What Return does to them.
LEMMA ReturnJob ==
    ASSUME job \in [Threads -> Jobs], NEW t \in Threads, Return(t)
    PROVE  /\ job' \in [Threads -> Jobs] /\ \A u \in Threads \ {t} : job'[u] = job[u]
           /\ job'[t] = NoJob
BY NoJobType DEF Return

\* What the actions that change more of a job do to it.
LEMMA StartPutJob ==
    ASSUME job \in [Threads -> Jobs], NEW t \in Threads, NEW from \in Pages,
           NEW len \in Lengths, StartPut(t, from, len)
    PROVE  /\ job' \in [Threads -> Jobs] /\ \A u \in Threads \ {t} : job'[u] = job[u]
           /\ job'[t].at = "full" /\ job'[t].from = from /\ job'[t].to = from + len
           /\ job'[t].todo = from .. from + len - 1 /\ job'[t].buf = None
<1> DEFINE to == from + len
           todo == from .. from + len - 1
           r1 == [job[t] EXCEPT !.at = "full", !.from = from]
           r2 == [r1 EXCEPT !.to = to, !.todo = todo]
           r3 == [r2 EXCEPT !.buf = None]
<1>1. to \in 0 .. NumPages /\ todo \subseteq Pages /\ from \in Nat
  BY Constants DEF StartPut
<1>2. job' = [job EXCEPT ![t].at = "full", ![t].from = from, ![t].to = to,
                         ![t].todo = todo, ![t].buf = None]
  BY DEF StartPut
<1> HIDE DEF to, todo
<1>3. job' = [job EXCEPT ![t] = r3]  BY <1>2, Zenon
<1>4. r1 \in Jobs /\ r1.at = "full" /\ r1.from = from  BY <1>1 DEF Jobs, Places
<1> HIDE DEF r1
<1>5. r2 \in Jobs /\ r2.at = "full" /\ r2.from = from /\ r2.to = to /\ r2.todo = todo
  BY <1>1, <1>4 DEF Jobs
<1> HIDE DEF r2
<1>6. r3 \in Jobs  BY <1>5, NoneType, JobFields
<1>7. /\ r3.at = "full" /\ r3.from = from /\ r3.to = to /\ r3.todo = todo
      /\ r3.buf = None
  BY <1>5 DEF Jobs
<1> HIDE DEF r3
<1> QED BY <1>3, <1>6, <1>7 DEF to, todo

LEMMA StartTruncateJob ==
    ASSUME job \in [Threads -> Jobs], NEW t \in Threads, NEW n \in 0 .. NumPages,
           StartTruncate(t, n)
    PROVE  /\ job' \in [Threads -> Jobs] /\ \A u \in Threads \ {t} : job'[u] = job[u]
           /\ job'[t].at = "lock" /\ job'[t].to = n
           /\ job'[t].todo = {} /\ job'[t].buf = None
<1> DEFINE r1 == [job[t] EXCEPT !.at = "lock", !.to = n]
           r2 == [r1 EXCEPT !.todo = {}, !.buf = None]
<1>1. job' = [job EXCEPT ![t] = r2]  BY Zenon DEF StartTruncate
<1>2. r1 \in Jobs /\ r1.at = "lock" /\ r1.to = n  BY DEF Jobs, Places
<1> HIDE DEF r1
<1>3. r2 \in Jobs  BY <1>2, NoneType DEF Jobs
<1>4. r2.at = "lock" /\ r2.to = n /\ r2.todo = {} /\ r2.buf = None  BY <1>2 DEF Jobs
<1> HIDE DEF r2
<1> QED BY <1>1, <1>3, <1>4

LEMMA RowFlushJob ==
    ASSUME job \in [Threads -> Jobs], NEW t \in Threads, NEW close \in BOOLEAN,
           RowFlush(t, close)
    PROVE  /\ job' \in [Threads -> Jobs] /\ \A u \in Threads \ {t} : job'[u] = job[u]
           /\ job'[t].at = (IF mark THEN "lock" ELSE "done") /\ (~mark => job'[t].ok)
<1> DEFINE at == IF mark THEN "lock" ELSE "done"
           r1 == [job[t] EXCEPT !.at = at]
           r2 == [r1 EXCEPT !.close = close]
           r3 == [r2 EXCEPT !.ok = TRUE]
<1>1. at \in Places  BY DEF Places
<1> HIDE DEF at
<1>2. r1 \in Jobs  BY <1>1, JobFields
<1>3. r1.at = at  BY DEF Jobs
<1> HIDE DEF r1
<1>4. r2 \in Jobs  BY <1>2, JobFields
<1>5. r2.at = at  BY <1>2, <1>3, Zenon DEF Jobs
<1> HIDE DEF r2
<1>6. r3 \in Jobs  BY <1>4, JobFields
<1>7. r3.at = at /\ r3.ok = TRUE  BY <1>4, <1>5, Zenon DEF Jobs
<1>8. CASE mark
  <2>1. job' = [job EXCEPT ![t] = r2]  BY <1>8, Zenon DEF RowFlush, at, r1, r2
  <2> HIDE DEF r3
  <2> QED BY <1>4, <1>5, <1>8, <2>1 DEF at
<1>9. CASE ~mark
  <2>1. job' = [job EXCEPT ![t] = r3]  BY <1>9, Zenon DEF RowFlush, at, r1, r2
  <2> HIDE DEF r3
  <2> QED BY <1>6, <1>7, <1>9, <2>1 DEF at
<1> QED BY <1>8, <1>9

LEMMA PutPageJob ==
    ASSUME job \in [Threads -> Jobs], written \in [Pages -> Nat], NEW t \in Threads, PutPage(t)
    PROVE  \E p \in job[t].todo :
           /\ job' \in [Threads -> Jobs] /\ \A u \in Threads \ {t} : job'[u] = job[u]
           /\ job'[t].at = job[t].at /\ job'[t].to = job[t].to
           /\ job'[t].todo = job[t].todo \ {p}
           /\ job'[t].buf = [job[t].buf EXCEPT ![p] = written[p] + 1]
           /\ wc' = [wc EXCEPT ![p] = written[p] + 1]
           /\ written' = [written EXCEPT ![p] = written[p] + 1]
<1> DEFINE p == Min(job[t].todo)
           n == written[p] + 1
<1>1. job[t].todo \subseteq Pages /\ job[t].todo # {}  BY DEF PutPage, Jobs
<1>2. p \in job[t].todo  BY <1>1, FirstPage
<1>3. job' = [job EXCEPT ![t].todo = @ \ {p}, ![t].buf[p] = n]  BY DEF PutPage
<1>4. wc' = [wc EXCEPT ![p] = n] /\ written' = [written EXCEPT ![p] = n]  BY DEF PutPage
<1>5. n \in Nat /\ p \in Pages  BY <1>1, <1>2
<1> HIDE DEF p, n
<1>6. job' \in [Threads -> Jobs]
  <2> DEFINE r1 == [job[t] EXCEPT !.todo = job[t].todo \ {p}]
             b == [job[t].buf EXCEPT ![p] = n]
             r2 == [r1 EXCEPT !.buf = b]
  <2>1. b \in [Pages -> Nat]  BY <1>5 DEF Jobs
  <2>2. job'[t] = r2  BY <1>3, <1>5 DEF Jobs
  <2> HIDE DEF b
  <2>3. r1 \in Jobs  BY <1>1, JobFields
  <2> HIDE DEF r1
  <2>4. r2 \in Jobs  BY <2>1, <2>3, JobFields
  <2> HIDE DEF r2
  <2>5. job' = [job EXCEPT ![t] = r2]  BY <1>3, <2>2
  <2> QED BY <2>4, <2>5
<1>7. \A u \in Threads \ {t} : job'[u] = job[u]  BY <1>3
<1>8. job'[t].at = job[t].at /\ job'[t].to = job[t].to /\ job'[t].todo = job[t].todo \ {p}
  BY <1>3, <1>5 DEF Jobs
<1>9. job'[t].buf = [job[t].buf EXCEPT ![p] = n]  BY <1>3, <1>5 DEF Jobs
<1> QED BY <1>2, <1>4, <1>6, <1>7, <1>8, <1>9 DEF n

LEMMA TruncateCacheJob ==
    ASSUME job \in [Threads -> Jobs], realsize \in 0 .. NumPages, wc \in [Pages -> Nat],
           NEW t \in Threads, TruncateCache(t)
    PROVE  /\ job' \in [Threads -> Jobs] /\ \A u \in Threads \ {t} : job'[u] = job[u]
           /\ job'[t].at = (IF job[t].to < realsize THEN "resize"
                            ELSE IF job[t].to > realsize THEN "write" ELSE "unlock")
           /\ job'[t].to = job[t].to /\ job'[t].buf = job[t].buf
           /\ job'[t].todo = realsize .. job[t].to - 1 /\ wc' = wc
<1> DEFINE todo == realsize .. job[t].to - 1
           at == IF job[t].to < realsize THEN "resize"
                 ELSE IF job[t].to > realsize THEN "write" ELSE "unlock"
           r1 == [job[t] EXCEPT !.todo = todo]
           r2 == [r1 EXCEPT !.at = at]
<1>1. todo \subseteq Pages /\ at \in Places  BY Constants DEF Jobs, Places
<1>2. job' = [job EXCEPT ![t].todo = todo, ![t].at = at]  BY DEF TruncateCache
<1>3. wc' = wc  BY WalkFindsNothing DEF TruncateCache
<1> HIDE DEF todo, at
<1>4. job' = [job EXCEPT ![t] = r2]  BY <1>2, Zenon
<1>5. r1 \in Jobs  BY <1>1, JobFields
<1>6. r1.todo = todo /\ r1.to = job[t].to /\ r1.buf = job[t].buf  BY DEF Jobs
<1> HIDE DEF r1
<1>7. r2 \in Jobs  BY <1>1, <1>5, JobFields
<1>8. r2.at = at /\ r2.todo = todo /\ r2.to = job[t].to /\ r2.buf = job[t].buf
  BY <1>5, <1>6 DEF Jobs
<1> HIDE DEF r2
<1> QED BY <1>3, <1>4, <1>7, <1>8 DEF todo, at

LEMMA FlushSizeJob ==
    ASSUME job \in [Threads -> Jobs], realsize \in 0 .. NumPages, NEW t \in Threads, FlushSize(t)
    PROVE  /\ job' \in [Threads -> Jobs] /\ \A u \in Threads \ {t} : job'[u] = job[u]
           /\ job'[t].at = (IF fds # {} THEN "get" ELSE "handover")
           /\ job'[t].ok = (fds # {}) /\ job'[t].to = realsize
           /\ job'[t].todo = 0 .. realsize - 1 /\ job'[t].buf = None
<1> DEFINE opened == fds # {}
           at == IF opened THEN "get" ELSE "handover"
           todo == 0 .. realsize - 1
           r1 == [job[t] EXCEPT !.ok = opened]
           r2 == [r1 EXCEPT !.at = at]
           r3 == [r2 EXCEPT !.to = realsize, !.todo = todo]
           r4 == [r3 EXCEPT !.buf = None]
<1>1. todo \subseteq Pages /\ at \in Places /\ opened \in BOOLEAN  BY Constants DEF Places
<1>2. job' = [job EXCEPT ![t].ok = opened, ![t].at = at, ![t].to = realsize, ![t].todo = todo,
                         ![t].buf = None]
  BY DEF FlushSize
<1> HIDE DEF todo, at, opened
<1>3. job' = [job EXCEPT ![t] = r4]  BY <1>2, Zenon
<1>4. r1 \in Jobs  BY <1>1, JobFields
<1>5. r1.ok = opened  BY Zenon DEF Jobs
<1> HIDE DEF r1
<1>6. r2 \in Jobs  BY <1>1, <1>4, JobFields
<1>7. r2.at = at  BY <1>4 DEF Jobs
<1>8. r2.ok = opened  BY <1>4, <1>5, Zenon DEF Jobs
<1> HIDE DEF r2
<1>9. r3 \in Jobs /\ r3.to = realsize /\ r3.todo = todo /\ r3.at = at
  BY <1>1, <1>6, <1>7 DEF Jobs
<1>10. r3.ok = opened  BY <1>6, <1>8, Zenon DEF Jobs
<1> HIDE DEF r3
<1>11. r4 \in Jobs  BY <1>9, NoneType, JobFields
<1>12. r4.at = at /\ r4.to = realsize /\ r4.todo = todo /\ r4.buf = None  BY <1>9 DEF Jobs
<1>13. r4.ok = opened  BY <1>9, <1>10, Zenon DEF Jobs
<1> HIDE DEF r4
<1> QED BY <1>3, <1>11, <1>12, <1>13 DEF opened, at, todo

\* A chunk of a Flush is read, or its download fails.
LEMMA FlushGetJob ==
    ASSUME job \in [Threads -> Jobs], wc \in [Pages -> Nat], s3 \in [Pages -> Nat],
           NEW t \in Threads, FlushGet(t)
    PROVE  \E p \in job[t].todo :
           /\ job' \in [Threads -> Jobs] /\ \A u \in Threads \ {t} : job'[u] = job[u]
           /\ job'[t].at = job[t].at /\ job'[t].to = job[t].to
           /\ job'[t].todo = job[t].todo \ {p}
           /\ \/ /\ job'[t].buf = [job[t].buf EXCEPT ![p] = IF wc[p] # 0 THEN wc[p] ELSE s3[p]]
                 /\ job'[t].ok = job[t].ok
              \/ job'[t].buf = job[t].buf /\ ~job'[t].ok
<1>1. PICK p \in job[t].todo :
        \/ job' = [job EXCEPT ![t].todo = @ \ {p},
                              ![t].buf[p] = IF p \in Cached THEN wc[p] ELSE s3[p]]
        \/ job' = [job EXCEPT ![t].todo = @ \ {p}, ![t].ok = FALSE]
  BY DEF FlushGet
<1>2. p \in Pages /\ job[t].todo \subseteq Pages  BY DEF Jobs
<1> DEFINE r1 == [job[t] EXCEPT !.todo = job[t].todo \ {p}]
<1>3. r1 \in Jobs  BY <1>2, JobFields
<1>4. /\ r1.at = job[t].at /\ r1.to = job[t].to /\ r1.todo = job[t].todo \ {p}
      /\ r1.buf = job[t].buf
  BY <1>2 DEF Jobs
<1>5. r1.ok = job[t].ok  BY Zenon DEF Jobs
<1>6. CASE job' = [job EXCEPT ![t].todo = @ \ {p},
                              ![t].buf[p] = IF p \in Cached THEN wc[p] ELSE s3[p]]
  <2> DEFINE n == IF wc[p] # 0 THEN wc[p] ELSE s3[p]
             b == [job[t].buf EXCEPT ![p] = n]
             r2 == [r1 EXCEPT !.buf = b]
  <2>1. n \in Nat /\ n = (IF p \in Cached THEN wc[p] ELSE s3[p])  BY <1>2 DEF Cached
  <2>2. job' = [job EXCEPT ![t].todo = @ \ {p}, ![t].buf[p] = n]  BY <1>6, <2>1
  <2> HIDE DEF n
  <2>3. b \in [Pages -> Nat]  BY <1>2, <2>1 DEF Jobs
  <2>4. job'[t] = r2  BY <1>2, <2>1, <2>2 DEF Jobs
  <2> HIDE DEF b, r1
  <2>5. r2 \in Jobs  BY <1>3, <2>3, JobFields
  <2>6. r2.at = r1.at /\ r2.to = r1.to /\ r2.todo = r1.todo /\ r2.buf = b  BY <1>3 DEF Jobs
  <2>7. r2.ok = r1.ok  BY <1>3, Zenon DEF Jobs
  <2> HIDE DEF r2
  <2>8. job' = [job EXCEPT ![t] = r2]  BY <2>2, <2>4
  <2>9. /\ job' \in [Threads -> Jobs] /\ \A u \in Threads \ {t} : job'[u] = job[u]
        /\ job'[t].at = job[t].at /\ job'[t].to = job[t].to
        /\ job'[t].todo = job[t].todo \ {p}
    BY <1>4, <2>5, <2>6, <2>8
  <2>10. job'[t].ok = job[t].ok  BY <1>5, <2>4, <2>7
  <2>11. job'[t].buf = b  BY <2>4, <2>6
  <2> QED BY <2>9, <2>10, <2>11 DEF b, n
<1>7. CASE job' = [job EXCEPT ![t].todo = @ \ {p}, ![t].ok = FALSE]
  <2> DEFINE r2 == [r1 EXCEPT !.ok = FALSE]
  <2>1. job' = [job EXCEPT ![t] = r2]  BY <1>7, Zenon
  <2> HIDE DEF r1
  <2>2. r2 \in Jobs  BY <1>3, JobFields
  <2>3. r2.at = r1.at /\ r2.to = r1.to /\ r2.todo = r1.todo /\ r2.buf = r1.buf
    BY <1>3, Zenon DEF Jobs
  <2>4. r2.ok = FALSE  BY <1>3, Zenon DEF Jobs
  <2> HIDE DEF r2
  <2> QED BY <1>4, <2>1, <2>2, <2>3, <2>4
<1> QED BY <1>1, <1>6, <1>7

LEMMA UploadFailsJob ==
    ASSUME job \in [Threads -> Jobs], NEW t \in Threads,
           job' = [job EXCEPT ![t].at = "handover", ![t].ok = FALSE]
    PROVE  /\ job' \in [Threads -> Jobs] /\ \A u \in Threads \ {t} : job'[u] = job[u]
           /\ job'[t].at = "handover" /\ ~job'[t].ok
<1> DEFINE r1 == [job[t] EXCEPT !.at = "handover"]
           r2 == [r1 EXCEPT !.ok = FALSE]
<1>1. job' = [job EXCEPT ![t] = r2]  BY Zenon
<1>2. r1 \in Jobs /\ r1.at = "handover"
  <2>1. r1 \in Jobs  BY JobFields DEF Places
  <2> QED BY <2>1 DEF Jobs
<1> HIDE DEF r1
<1>3. r2 \in Jobs  BY <1>2, JobFields
<1>4. r2.at = "handover" /\ r2.ok = FALSE  BY <1>2, Zenon DEF Jobs
<1> HIDE DEF r2
<1> QED BY <1>1, <1>3, <1>4

LEMMA FlushReturnJob ==
    ASSUME job \in [Threads -> Jobs], NEW t \in Threads, NEW r \in Releasers, FlushReturn(t, r)
    PROVE  /\ job' \in [Threads -> Jobs] /\ \A u \in Threads \ {t} : job'[u] = job[u]
           /\ t \in Background => job'[t] = NoJob
           /\ t \notin Background => job'[t].at = "flushed" /\ job'[t].ok = job[t].ok
<1>1. CASE t \in Background  BY <1>1, ReturnJob DEF FlushReturn
<1>2. CASE t \notin Background
  <2> DEFINE r1 == [job[t] EXCEPT !.at = "flushed"]
             r2 == [r1 EXCEPT !.buf = None]
  <2>1. job' = [job EXCEPT ![t] = r2]  BY <1>2, Zenon DEF FlushReturn
  <2>2. r1 \in Jobs /\ r1.at = "flushed"
    <3>1. r1 \in Jobs  BY JobFields DEF Places
    <3> QED BY <3>1 DEF Jobs
  <2>3. r1.ok = job[t].ok  BY Zenon DEF Jobs
  <2> HIDE DEF r1
  <2>4. r2 \in Jobs  BY <2>2, NoneType, JobFields
  <2>5. r2.at = "flushed"  BY <2>2 DEF Jobs
  <2>6. r2.ok = job[t].ok  BY <2>2, <2>3, Zenon DEF Jobs
  <2> HIDE DEF r2
  <2> QED BY <1>2, <2>1, <2>4, <2>5, <2>6
<1> QED BY <1>1, <1>2

\* Every step of the data is one of the file lock's protocol or leaves the lock
\* alone.
LEMMA StepIsLockStep == TypeOK /\ [WBNext]_wbVars => [LockNext]_lockVars /\ calls' \in Nat
<1> SUFFICES ASSUME TypeOK, [WBNext]_wbVars PROVE [LockNext]_lockVars /\ calls' \in Nat
  OBVIOUS
<1> USE DEF LockHeld, LockNext, Protocol, Release
<1>1. ASSUME NEW t \in Users, UserStart(t) PROVE [LockNext]_lockVars
  BY <1>1, Constants DEF UserStart, StartPut, RowFlush, Open, StartTruncate, StartDelete,
                         OpNames
<1>2. ASSUME NEW t \in Threads, Work(t) PROVE [LockNext]_lockVars
  <2>1. CASE SpinForLock(t) \/ EnterLock(t)  BY <2>1 DEF SpinForLock, EnterLock
  <2>2. CASE PutAdmitted(t) \/ BackFlush(t)  BY <2>2 DEF PutAdmitted, BackFlush, OpNames
  <2>3. CASE PutPage(t) \/ PutKeys(t) \/ PutSize(t)  BY <2>3 DEF PutPage, PutKeys, PutSize
  <2>4. CASE PutRelease(t) \/ TruncateRelease(t) \/ DeleteRelease(t)
    BY <2>4 DEF PutRelease, TruncateRelease, DeleteRelease
  <2>5. CASE TruncateCache(t) \/ TruncateSize(t) \/ DeleteCache(t) \/ DeleteObject(t)
    BY <2>5 DEF TruncateCache, TruncateSize, DeleteCache, DeleteObject
  <2>6. CASE FlushSize(t) \/ FlushGet(t) \/ FlushUpload(t)
    BY <2>6 DEF FlushSize, FlushGet, FlushUpload
  <2>7. CASE \E r \in Releasers : FlushReturn(t, r)  BY <2>7 DEF FlushReturn
  <2>8. CASE RowFlushEnd(t) \/ RowFlushReturn(t)  BY <2>8 DEF RowFlushEnd, RowFlushReturn
  <2> QED BY <1>2, <2>1, <2>2, <2>3, <2>4, <2>5, <2>6, <2>7, <2>8 DEF Work
<1>3. ASSUME NEW r \in Releasers, Detached(r) PROVE [LockNext]_lockVars
  BY <1>3 DEF Detached, DetachedDelete, DetachedRelease
<1>4. CASE UNCHANGED wbVars  BY <1>4 DEF wbVars, vars, TypeOK
<1>5. WBNext => calls' \in Nat  BY DEF WBNext, TypeOK
<1> QED BY <1>1, <1>2, <1>3, <1>4, <1>5 DEF WBNext

LEMMA StartTypes ==
    ASSUME JobTypeOK, DataTypeOK, NEW t \in Users, UserStart(t)
    PROVE  JobTypeOK' /\ DataTypeOK'
<1> t \in Threads /\ job \in [Threads -> Jobs]  BY Constants DEF JobTypeOK
<1> USE DEF cacheVars, objectVars, entVars, histVars, markHist
<1>1. ASSUME NEW from \in Pages, NEW len \in Lengths, StartPut(t, from, len)
      PROVE  JobTypeOK' /\ DataTypeOK'
  <2>1. job' \in [Threads -> Jobs]  BY <1>1, StartPutJob
  <2> QED BY <1>1, <2>1 DEF StartPut, JobTypeOK, DataTypeOK
<1>2. ASSUME NEW close \in BOOLEAN, RowFlush(t, close) PROVE JobTypeOK' /\ DataTypeOK'
  <2>1. job' \in [Threads -> Jobs]  BY <1>2, RowFlushJob
  <2> QED BY <1>2, <2>1 DEF RowFlush, JobTypeOK, DataTypeOK
<1>3. ASSUME Open(t) PROVE JobTypeOK' /\ DataTypeOK'
  BY <1>3 DEF Open, JobTypeOK, DataTypeOK
<1>4. ASSUME NEW n \in 0 .. NumPages, StartTruncate(t, n) PROVE JobTypeOK' /\ DataTypeOK'
  <2>1. job' \in [Threads -> Jobs]  BY <1>4, StartTruncateJob
  <2> QED BY <1>4, <2>1 DEF StartTruncate, JobTypeOK, DataTypeOK
<1>5. ASSUME StartDelete(t) PROVE JobTypeOK' /\ DataTypeOK'
  <2>1. job' \in [Threads -> Jobs]  BY <1>5, GotoJob DEF StartDelete, Places
  <2> QED BY <1>5, <2>1 DEF StartDelete, JobTypeOK, DataTypeOK
<1> QED BY <1>1, <1>2, <1>3, <1>4, <1>5 DEF UserStart

LEMMA MaxOfType ==
    ASSUME NEW f \in [Pages -> Nat], NEW g \in [Pages -> Nat]
    PROVE  MaxOf(f, g) \in [Pages -> Nat]
BY DEF MaxOf

LEMMA WorkTypes ==
    ASSUME JobTypeOK, DataTypeOK, op \in [Threads -> OpNames], NEW t \in Threads, Work(t)
    PROVE  JobTypeOK' /\ DataTypeOK'
<1> job \in [Threads -> Jobs] /\ wc \in [Pages -> Nat] /\ s3 \in [Pages -> Nat]
    /\ written \in [Pages -> Nat] /\ realsize \in 0 .. NumPages
  BY DEF JobTypeOK, DataTypeOK
<1> USE DEF cacheVars, objectVars, entVars, histVars, markHist
<1>1. CASE SpinForLock(t)  BY <1>1 DEF SpinForLock, JobTypeOK, DataTypeOK
<1>2. CASE EnterLock(t)
  <2>1. job' \in [Threads -> Jobs]
    <3>1. op[t] \in {"Put", "Truncate", "Delete", "Flush"}  BY DEF OpNames
    <3>2. \E x \in Places : Goto(t, x)
      <4>1. CASE op[t] = "Put"  BY <1>2, <4>1 DEF EnterLock, Places
      <4>2. CASE op[t] = "Truncate"  BY <1>2, <4>2 DEF EnterLock, Places
      <4>3. CASE op[t] = "Delete"  BY <1>2, <4>3 DEF EnterLock, Places
      <4>4. CASE op[t] = "Flush"  BY <1>2, <4>4 DEF EnterLock, Places
      <4> QED BY <3>1, <4>1, <4>2, <4>3, <4>4
    <3> QED BY <3>2, GotoJob
  <2> QED BY <1>2, <2>1 DEF EnterLock, JobTypeOK, DataTypeOK
<1>3. CASE PutAdmitted(t)
  <2>1. job' \in [Threads -> Jobs]  BY <1>3, GotoJob DEF PutAdmitted, Places
  <2> QED BY <1>3, <2>1 DEF PutAdmitted, JobTypeOK, DataTypeOK
<1>4. CASE PutPage(t)
  <2>1. job' \in [Threads -> Jobs] /\ wc' \in [Pages -> Nat] /\ written' \in [Pages -> Nat]
    <3>1. PICK p \in job[t].todo :
            /\ job' \in [Threads -> Jobs]
            /\ wc' = [wc EXCEPT ![p] = written[p] + 1]
            /\ written' = [written EXCEPT ![p] = written[p] + 1]
      BY <1>4, PutPageJob
    <3>2. p \in Pages  BY DEF Jobs
    <3> QED BY <3>1, <3>2
  <2> QED BY <1>4, <2>1 DEF PutPage, JobTypeOK, DataTypeOK
<1>5. CASE PutKeys(t)
  <2>1. job' \in [Threads -> Jobs]  BY <1>5, GotoJob DEF PutKeys, Places
  <2> QED BY <1>5, <2>1 DEF PutKeys, JobTypeOK, DataTypeOK
<1>6. CASE PutSize(t)
  <2>1. job' \in [Threads -> Jobs]  BY <1>6, GotoJob DEF PutSize, Places
  <2>2. realsize' \in 0 .. NumPages  BY <1>6 DEF PutSize, Jobs
  <2>3. mark' \in BOOLEAN /\ remarked' \in BOOLEAN /\ markLost' \in BOOLEAN
    BY <1>6 DEF PutSize, SetUpdateMark, DataTypeOK
  <2> QED BY <1>6, <2>1, <2>2, <2>3 DEF PutSize, JobTypeOK, DataTypeOK
<1>7. CASE PutRelease(t) \/ TruncateRelease(t)
  <2>1. job' \in [Threads -> Jobs]  BY <1>7, ReturnJob DEF PutRelease, TruncateRelease
  <2>2. acked' \in [Pages -> Nat]
    BY <1>7, MaxOfType DEF PutRelease, TruncateRelease, Jobs, DataTypeOK
  <2> QED BY <1>7, <2>1, <2>2 DEF PutRelease, TruncateRelease, JobTypeOK, DataTypeOK
<1>8. CASE TruncateCache(t)
  <2>1. job' \in [Threads -> Jobs] /\ wc' = wc  BY <1>8, TruncateCacheJob
  <2> QED BY <1>8, <2>1 DEF TruncateCache, JobTypeOK, DataTypeOK
<1>9. CASE TruncateSize(t)
  <2>1. job' \in [Threads -> Jobs]  BY <1>9, GotoJob DEF TruncateSize, Places
  <2>2. realsize' \in 0 .. NumPages  BY <1>9 DEF TruncateSize, Jobs
  <2>3. mark' \in BOOLEAN /\ remarked' \in BOOLEAN /\ markLost' \in BOOLEAN
    BY <1>9 DEF TruncateSize, SetUpdateMark, DataTypeOK
  <2>4. acked' \in [Pages -> Nat] /\ need' \in [Threads -> [Pages -> Nat]]
    BY <1>9 DEF TruncateSize, DataTypeOK
  <2> QED BY <1>9, <2>1, <2>2, <2>3, <2>4 DEF TruncateSize, JobTypeOK, DataTypeOK
<1>10. CASE DeleteCache(t)
  <2>1. job' \in [Threads -> Jobs]  BY <1>10, GotoJob DEF DeleteCache, Places
  <2>2. wc' = wc /\ keys' = FALSE  BY <1>10, WalkFindsNothing DEF DeleteCache, WriteCacheDelete
  <2>3. need' \in [Threads -> [Pages -> Nat]] /\ acked' \in [Pages -> Nat]
    BY <1>10, NoneType DEF DeleteCache
  <2> QED BY <1>10, <2>1, <2>2, <2>3 DEF DeleteCache, WriteCacheDelete, JobTypeOK, DataTypeOK
<1>11. CASE DeleteObject(t)
  <2>1. job' \in [Threads -> Jobs]  BY <1>11, GotoJob DEF DeleteObject, Places
  <2>2. s3' \in [Pages -> Nat] /\ s3len' \in 0 .. NumPages
    BY <1>11, NoneType, Constants DEF DeleteObject, DataTypeOK
  <2> QED BY <1>11, <2>1, <2>2 DEF DeleteObject, JobTypeOK, DataTypeOK
<1>12. CASE DeleteRelease(t)
  <2>1. job' \in [Threads -> Jobs]  BY <1>12, ReturnJob DEF DeleteRelease
  <2> QED BY <1>12, <2>1 DEF DeleteRelease, JobTypeOK, DataTypeOK
<1>13. CASE FlushSize(t)
  <2>1. job' \in [Threads -> Jobs]  BY <1>13, FlushSizeJob
  <2> QED BY <1>13, <2>1 DEF FlushSize, JobTypeOK, DataTypeOK
<1>14. CASE FlushGet(t)
  <2>1. job' \in [Threads -> Jobs]  BY <1>14, FlushGetJob
  <2> QED BY <1>14, <2>1 DEF FlushGet, JobTypeOK, DataTypeOK
<1>15. CASE FlushUpload(t)
  <2>1. job' \in [Threads -> Jobs]  BY <1>15, GotoJob, UploadFailsJob DEF FlushUpload, Places
  <2>2. s3' \in [Pages -> Nat] /\ s3len' \in 0 .. NumPages
    BY <1>15 DEF FlushUpload, DataTypeOK, Jobs
  <2> QED BY <1>15, <2>1, <2>2 DEF FlushUpload, JobTypeOK, DataTypeOK
<1>16. ASSUME NEW r \in Releasers, FlushReturn(t, r) PROVE JobTypeOK' /\ DataTypeOK'
  <2>1. job' \in [Threads -> Jobs]  BY <1>16, FlushReturnJob
  <2>2. rres' \in [Releasers -> {"success", "error", "done"}]
    BY <1>16 DEF FlushReturn, JobTypeOK
  <2> QED BY <1>16, <2>1, <2>2 DEF FlushReturn, JobTypeOK, DataTypeOK
<1>17. CASE RowFlushEnd(t)
  <2>1. job' \in [Threads -> Jobs]  BY <1>17, GotoJob DEF RowFlushEnd, Places
  <2>2. mark' \in BOOLEAN /\ remarked' \in BOOLEAN /\ markLost' \in BOOLEAN
    BY <1>17 DEF RowFlushEnd
  <2> QED BY <1>17, <2>1, <2>2 DEF RowFlushEnd, JobTypeOK, DataTypeOK
<1>18. CASE RowFlushReturn(t)
  <2>1. job' \in [Threads -> Jobs]  BY <1>18, ReturnJob DEF RowFlushReturn
  <2>2. acked' \in [Pages -> Nat]  BY <1>18 DEF RowFlushReturn, DataTypeOK
  <2>3. mark' \in BOOLEAN /\ realsize' \in 0 .. NumPages  BY <1>18, Constants DEF RowFlushReturn
  <2>4. fds' \subseteq Users  BY <1>18 DEF RowFlushReturn, JobTypeOK
  <2> QED BY <1>18, <2>1, <2>2, <2>3, <2>4 DEF RowFlushReturn, JobTypeOK, DataTypeOK
<1>19. CASE BackFlush(t)
  <2>1. job' \in [Threads -> Jobs]  BY <1>19, GotoJob DEF BackFlush, Places
  <2> QED BY <1>19, <2>1 DEF BackFlush, JobTypeOK, DataTypeOK
<1> QED
  BY <1>1, <1>2, <1>3, <1>4, <1>5, <1>6, <1>7, <1>8, <1>9, <1>10, <1>11, <1>12, <1>13,
     <1>14, <1>15, <1>16, <1>17, <1>18, <1>19 DEF Work

LEMMA DetachedTypes ==
    ASSUME JobTypeOK, DataTypeOK, NEW r \in Releasers, Detached(r)
    PROVE  JobTypeOK' /\ DataTypeOK'
<1> USE DEF cacheVars, objectVars, entVars, histVars, markHist
<1>1. CASE DetachedDelete(r)
  <2>1. wc' = wc /\ written' = written /\ keys' \in BOOLEAN
    BY <1>1, WalkFindsNothing DEF DetachedDelete, WriteCacheDelete, DataTypeOK
  <2> QED BY <1>1, <2>1 DEF DetachedDelete, JobTypeOK, DataTypeOK
<1>2. CASE DetachedRelease(r)  BY <1>2 DEF DetachedRelease, JobTypeOK, DataTypeOK
<1> QED BY <1>1, <1>2 DEF Detached

\* All types of WriteBack.
Types == TypeOK /\ DataTypeOK /\ JobTypeOK

LEMMA InitTypes == WBInit => Types
<1> SUFFICES ASSUME WBInit PROVE Types  OBVIOUS
<1>1. TypeOK  BY InitTypeOK DEF WBInit
<1>2. DataTypeOK  BY NoneType, Constants DEF WBInit, DataTypeOK
<1>3. JobTypeOK  BY NoJobType, Constants DEF WBInit, JobTypeOK
<1> QED BY <1>1, <1>2, <1>3 DEF Types

LEMMA NextTypes == Types /\ [WBNext]_wbVars => Types'
<1> SUFFICES ASSUME Types, [WBNext]_wbVars PROVE Types'  OBVIOUS
<1> USE DEF Types
<1>1. TypeOK'  BY StepIsLockStep, LockStepTypeOK
<1>2. JobTypeOK' /\ DataTypeOK'
  <2>1. op \in [Threads -> OpNames]  BY DEF TypeOK
  <2>2. CASE UNCHANGED wbVars
    BY <2>2 DEF wbVars, cacheVars, objectVars, entVars, histVars, markHist, JobTypeOK,
                DataTypeOK
  <2> QED BY <2>1, <2>2, StartTypes, WorkTypes, DetachedTypes DEF WBNext
<1> QED BY <1>1, <1>2

------------------------------------------------------------------------------
(***************************************************************************)
(* Where a thread is                                                       *)
(***************************************************************************)
\* A step of a thread leaves the other threads where they are.
LEMMA OthersStay ==
    ASSUME Types, NEW t \in Threads, UserStart(t) \/ Work(t)
    PROVE  \A u \in Threads \ {t} : job'[u] = job[u] /\ op'[u] = op[u] /\ lpc'[u] = lpc[u]
<1> /\ job \in [Threads -> Jobs] /\ wc \in [Pages -> Nat] /\ s3 \in [Pages -> Nat]
    /\ written \in [Pages -> Nat] /\ realsize \in 0 .. NumPages
    /\ op \in [Threads -> OpNames] /\ lpc \in [Threads -> PCs]
  BY DEF Types, JobTypeOK, DataTypeOK, TypeOK
<1> DEFINE Lock == \A u \in Threads \ {t} : op'[u] = op[u] /\ lpc'[u] = lpc[u]
           Jobs1 == \A u \in Threads \ {t} : job'[u] = job[u]
<1> USE DEF LockHeld, lockVars
<1>1. ASSUME NEW o, Call(t, o) PROVE Lock  BY <1>1 DEF Call
<1>2. ASSUME Find(t) \/ Insert(t) \/ Acquire(t) PROVE Lock
  BY <1>2 DEF Find, Insert, Acquire
<1>3. ASSUME Release(t) PROVE Lock
  BY <1>3 DEF Release, ReleaseShared, ReleaseTruncate, ReleaseDelete, EraseDelete, HandOver
<1> SUFFICES Lock /\ Jobs1  OBVIOUS
<1> HIDE DEF Lock, Jobs1
<1>4. LockHeld => Lock  BY DEF Lock
<1>5. CASE UserStart(t)
  <2>1. ASSUME NEW from \in Pages, NEW len \in Lengths, StartPut(t, from, len) PROVE Lock /\ Jobs1
    <3>1. Jobs1  BY <2>1, StartPutJob DEF Jobs1
    <3> QED BY <1>4, <2>1, <3>1 DEF StartPut
  <2>2. ASSUME NEW close \in BOOLEAN, RowFlush(t, close) PROVE Lock /\ Jobs1
    <3>1. Jobs1  BY <2>2, RowFlushJob DEF Jobs1
    <3> QED BY <1>1, <1>4, <2>2, <3>1 DEF RowFlush
  <2>3. CASE Open(t)  BY <1>4, <2>3 DEF Open, Jobs1
  <2>4. ASSUME NEW n \in 0 .. NumPages, StartTruncate(t, n) PROVE Lock /\ Jobs1
    <3>1. Jobs1  BY <2>4, StartTruncateJob DEF Jobs1
    <3> QED BY <1>1, <2>4, <3>1 DEF StartTruncate
  <2>5. CASE StartDelete(t)  BY <1>1, <2>5 DEF StartDelete, Goto, Jobs1
  <2> QED BY <1>5, <2>1, <2>2, <2>3, <2>4, <2>5 DEF UserStart
<1>6. CASE Work(t)
  <2>1. CASE SpinForLock(t)  BY <1>2, <2>1 DEF SpinForLock, Jobs1
  <2>2. CASE EnterLock(t)  BY <1>2, <2>2 DEF EnterLock, Goto, Jobs1
  <2>3. CASE PutAdmitted(t) \/ BackFlush(t)
    BY <1>1, <2>3 DEF PutAdmitted, BackFlush, Goto, Jobs1
  <2>4. CASE PutPage(t)
    <3>1. Jobs1  BY <2>4, PutPageJob DEF Jobs1
    <3> QED BY <1>4, <2>4, <3>1 DEF PutPage
  <2>5. CASE PutKeys(t) \/ PutSize(t)  BY <1>4, <2>5 DEF PutKeys, PutSize, Goto, Jobs1
  <2>6. CASE PutRelease(t) \/ TruncateRelease(t) \/ DeleteRelease(t)
    <3>1. Jobs1  BY <2>6 DEF PutRelease, TruncateRelease, DeleteRelease, Return, Jobs1
    <3> QED BY <1>3, <2>6, <3>1 DEF PutRelease, TruncateRelease, DeleteRelease, Release
  <2>7. CASE TruncateCache(t)
    <3>1. Jobs1  BY <2>7, TruncateCacheJob DEF Jobs1
    <3> QED BY <1>4, <2>7, <3>1 DEF TruncateCache
  <2>8. CASE TruncateSize(t) \/ DeleteCache(t) \/ DeleteObject(t)
    BY <1>4, <2>8 DEF TruncateSize, DeleteCache, DeleteObject, Goto, Jobs1
  <2>9. CASE FlushSize(t)
    <3>1. Jobs1  BY <2>9, FlushSizeJob DEF Jobs1
    <3> QED BY <1>4, <2>9, <3>1 DEF FlushSize
  <2>10. CASE FlushGet(t)
    <3>1. Jobs1  BY <2>10, FlushGetJob DEF Jobs1
    <3> QED BY <1>4, <2>10, <3>1 DEF FlushGet
  <2>11. CASE FlushUpload(t)
    <3>1. Jobs1  BY <2>11, UploadFailsJob DEF FlushUpload, Goto, Jobs1
    <3> QED BY <1>4, <2>11, <3>1 DEF FlushUpload
  <2>12. ASSUME NEW r \in Releasers, FlushReturn(t, r) PROVE Lock /\ Jobs1
    <3>1. Jobs1  BY <2>12, FlushReturnJob DEF Jobs1
    <3> QED BY <1>3, <2>12, <3>1 DEF FlushReturn, Release
  <2>13. CASE RowFlushEnd(t) \/ RowFlushReturn(t)
    BY <1>4, <2>13 DEF RowFlushEnd, RowFlushReturn, Goto, Return, Jobs1
  <2> QED
    BY <1>6, <2>1, <2>2, <2>3, <2>4, <2>5, <2>6, <2>7, <2>8, <2>9, <2>10, <2>11, <2>12, <2>13
       DEF Work
<1> QED BY <1>5, <1>6

\* Who writes pages, who is about to, and who is in RowFlush.
Writing(t)  == job[t].at \in {"write", "resize"} \/ (job[t].at = "unlock" /\ op[t] # "Delete")
Starting(t) == job[t].at \in {"full", "cut"}
               \/ (job[t].at = "lock" /\ op[t] \in {"Put", "Truncate"})
Flushing(t) == job[t].at \in {"flushed", "done"}
               \/ (job[t].at \in {"lock", "size", "get", "handover"} /\ op[t] = "Flush"
                   /\ t \in Users)

\* Where a thread is agrees with where the file lock has it, with who holds
\* fdent_lock and with who has the file open.
AtLock(t) ==
    /\ job[t].at \in {"top", "full", "flushed", "done"} => lpc[t] = "idle"
    /\ job[t].at = "lock" => lpc[t] \in {"find", "insert", "spin"}
    /\ job[t].at \in {"write", "resize"} => lpc[t] = "in" /\ op[t] \in {"Put", "Truncate"}
    /\ job[t].at = "cut" => lpc[t] = "in" /\ op[t] = "Truncate"
    /\ job[t].at \in {"wipe", "object"} => lpc[t] = "in" /\ op[t] = "Delete"
    /\ job[t].at \in {"size", "get", "handover"} => lpc[t] = "in" /\ op[t] = "Flush"
    /\ job[t].at = "unlock" =>
          op[t] # "Flush" /\ (lpc[t] = "in" \/ (lpc[t] = "erase" /\ op[t] = "Delete"))
AtFile(t) ==
    /\ Writing(t) \/ Starting(t) \/ Flushing(t) => t \in fds
    /\ Flushing(t) <=> fdentLock = t
Coupled(t) == AtLock(t) /\ AtFile(t)
ReleaserCoupled(r) == rres[r] # "done" => rpc[r] = "find"
Shape == (\A t \in Threads : Coupled(t)) /\ (\A r \in Releasers : ReleaserCoupled(r))

LEMMA InitShape == WBInit => Shape
<1> SUFFICES ASSUME WBInit PROVE Shape  OBVIOUS
<1>1. \A t \in Threads : job[t].at = "top" /\ lpc[t] = "idle"
  BY DEF WBInit, Init, NoJob
<1>2. fdentLock = NoThread  BY DEF WBInit
<1>3. \A t \in Threads : Coupled(t)
  BY <1>1, <1>2, Constants DEF Coupled, AtLock, AtFile, Writing, Starting, Flushing
<1>4. \A r \in Releasers : ReleaserCoupled(r)  BY DEF WBInit, ReleaserCoupled
<1> QED BY <1>3, <1>4 DEF Shape

\* A thread that stays where it is stays coupled.
LEMMA StaysCoupled ==
    ASSUME NEW u \in Threads, Coupled(u),
           job'[u] = job[u], op'[u] = op[u], lpc'[u] = lpc[u],
           u \in fds => u \in fds', (fdentLock' = u) <=> (fdentLock = u)
    PROVE  Coupled(u)'
BY DEF Coupled, AtLock, AtFile, Writing, Starting, Flushing

\* The others stay coupled in every step but, for fds and fdent_lock, those of
\* RowFlush, Open and RowFlushReturn.
LEMMA OthersCoupled ==
    ASSUME Types, Shape, NEW t \in Threads, UserStart(t) \/ Work(t),
           \/ UNCHANGED <<fds, fdentLock>>
           \/ fds' = fds \cup {t} /\ fdentLock' = fdentLock
           \/ fds' = fds /\ fdentLock = NoThread /\ fdentLock' = t
           \/ fds \ {t} \subseteq fds' /\ fdentLock = t /\ fdentLock' = NoThread
    PROVE  \A u \in Threads \ {t} : Coupled(u)'
<1> SUFFICES ASSUME NEW u \in Threads \ {t} PROVE Coupled(u)'  OBVIOUS
<1>1. job'[u] = job[u] /\ op'[u] = op[u] /\ lpc'[u] = lpc[u]  BY OthersStay
<1>2. Coupled(u)  BY DEF Shape
<1>3. u # NoThread  BY Constants
<1> QED BY <1>1, <1>2, <1>3, StaysCoupled

LEMMA StartShape ==
    ASSUME Types, Shape, NEW t \in Users, UserStart(t)
    PROVE  Shape'
<1> /\ t \in Threads /\ job \in [Threads -> Jobs] /\ op \in [Threads -> OpNames]
    /\ lpc \in [Threads -> PCs] /\ fds \subseteq Users
  BY Constants DEF Types, JobTypeOK, TypeOK
<1>1. \A r \in Releasers : ReleaserCoupled(r)'
  <2>1. UNCHANGED <<rres, rpc>>
    BY DEF UserStart, StartPut, RowFlush, Open, StartTruncate, StartDelete, LockHeld, lockVars,
           Call
  <2> QED BY <2>1 DEF Shape, ReleaserCoupled
<1> SUFFICES \A u \in Threads : Coupled(u)'  BY <1>1 DEF Shape
<1>2. Coupled(t)  BY DEF Shape
<1> USE DEF LockHeld, lockVars, entVars
<1>3. ASSUME NEW from \in Pages, NEW len \in Lengths, StartPut(t, from, len)
      PROVE  \A u \in Threads : Coupled(u)'
  <2>1. job'[t].at = "full"  BY <1>3, StartPutJob
  <2>2. job[t].at = "top" /\ t \in fds /\ UNCHANGED <<lpc, op, fds, fdentLock>>
    BY <1>3 DEF StartPut
  <2>3. Coupled(t)'
    BY <1>2, <2>1, <2>2 DEF Coupled, AtLock, AtFile, Writing, Starting, Flushing
  <2> QED BY <2>2, <2>3, OthersCoupled
<1>4. ASSUME NEW close \in BOOLEAN, RowFlush(t, close) PROVE \A u \in Threads : Coupled(u)'
  <2>1. job'[t].at = (IF mark THEN "lock" ELSE "done")  BY <1>4, RowFlushJob
  <2>2. job[t].at = "top" /\ t \in fds /\ fdentLock = NoThread /\ fdentLock' = t /\ fds' = fds
    BY <1>4 DEF RowFlush
  <2>3. Coupled(t)'
    <3>1. CASE mark
      <4>1. op'[t] = "Flush" /\ lpc'[t] = "find"  BY <1>4, <3>1 DEF RowFlush, Call
      <4> QED BY <2>1, <2>2, <3>1, <4>1 DEF Coupled, AtLock, AtFile, Writing, Starting, Flushing
    <3>2. CASE ~mark
      <4>1. op'[t] = op[t] /\ lpc'[t] = lpc[t]  BY <1>4, <3>2 DEF RowFlush
      <4> QED BY <1>2, <2>1, <2>2, <3>2, <4>1
              DEF Coupled, AtLock, AtFile, Writing, Starting, Flushing
    <3> QED BY <3>1, <3>2
  <2> QED BY <2>2, <2>3, OthersCoupled
<1>5. ASSUME Open(t) PROVE \A u \in Threads : Coupled(u)'
  <2>1. fds' = fds \cup {t} /\ fdentLock' = fdentLock /\ UNCHANGED <<job, lpc, op>>
    BY <1>5 DEF Open
  <2>2. Coupled(t)'  BY <1>2, <2>1, StaysCoupled
  <2> QED BY <2>1, <2>2, OthersCoupled
<1>6. ASSUME NEW n \in 0 .. NumPages, StartTruncate(t, n) PROVE \A u \in Threads : Coupled(u)'
  <2>1. job'[t].at = "lock"  BY <1>6, StartTruncateJob
  <2>2. /\ job[t].at = "top" /\ t \in fds /\ UNCHANGED <<fds, fdentLock>>
        /\ op'[t] = "Truncate" /\ lpc'[t] = "find"
    BY <1>6 DEF StartTruncate, Call
  <2>3. Coupled(t)'
    BY <1>2, <2>1, <2>2 DEF Coupled, AtLock, AtFile, Writing, Starting, Flushing
  <2> QED BY <2>2, <2>3, OthersCoupled
<1>7. ASSUME StartDelete(t) PROVE \A u \in Threads : Coupled(u)'
  <2>1. job'[t].at = "lock"  BY <1>7, GotoJob DEF StartDelete, Places
  <2>2. /\ job[t].at = "top" /\ UNCHANGED <<fds, fdentLock>>
        /\ op'[t] = "Delete" /\ lpc'[t] = "find"
    BY <1>7 DEF StartDelete, Call
  <2>3. Coupled(t)'
    BY <1>2, <2>1, <2>2 DEF Coupled, AtLock, AtFile, Writing, Starting, Flushing
  <2> QED BY <2>2, <2>3, OthersCoupled
<1> QED BY <1>3, <1>4, <1>5, <1>6, <1>7 DEF UserStart

\* Releasers: only Flush starts one, at "find".
LEMMA ReleasersShape ==
    ASSUME Types, Shape, [WBNext]_wbVars
    PROVE  \A r \in Releasers : ReleaserCoupled(r)'
<1> USE DEF Shape, ReleaserCoupled, LockHeld, lockVars
<1> rpc \in [Releasers -> RPCs] /\ rres \in [Releasers -> {"success", "error", "done"}]
  BY DEF Types, TypeOK, JobTypeOK
<1>1. ASSUME NEW t \in Users, UserStart(t) PROVE UNCHANGED <<rres, rpc>>
  BY <1>1 DEF UserStart, StartPut, RowFlush, Open, StartTruncate, StartDelete, Call
<1>2. ASSUME NEW t \in Threads, Work(t)
      PROVE  UNCHANGED <<rres, rpc>> \/ \E r \in Releasers : FlushReturn(t, r)
  <2>1. SpinForLock(t) \/ EnterLock(t) => UNCHANGED <<rres, rpc>>
    BY DEF SpinForLock, EnterLock, Find, Insert, Acquire
  <2>2. PutAdmitted(t) \/ BackFlush(t) => UNCHANGED <<rres, rpc>>
    BY DEF PutAdmitted, BackFlush, Call
  <2>3. PutPage(t) \/ PutKeys(t) \/ PutSize(t) => UNCHANGED <<rres, rpc>>
    BY DEF PutPage, PutKeys, PutSize
  <2>4. PutRelease(t) \/ TruncateRelease(t) \/ DeleteRelease(t) => UNCHANGED <<rres, rpc>>
    BY DEF PutRelease, TruncateRelease, DeleteRelease, ReleaseShared, ReleaseTruncate,
           ReleaseDelete, EraseDelete
  <2>5. TruncateCache(t) \/ TruncateSize(t) \/ DeleteCache(t) \/ DeleteObject(t)
          => UNCHANGED <<rres, rpc>>
    BY DEF TruncateCache, TruncateSize, DeleteCache, DeleteObject
  <2>6. FlushSize(t) \/ FlushGet(t) \/ FlushUpload(t) => UNCHANGED <<rres, rpc>>
    BY DEF FlushSize, FlushGet, FlushUpload
  <2>7. RowFlushEnd(t) \/ RowFlushReturn(t) => UNCHANGED <<rres, rpc>>
    BY DEF RowFlushEnd, RowFlushReturn
  <2> QED BY <1>2, <2>1, <2>2, <2>3, <2>4, <2>5, <2>6, <2>7 DEF Work
<1>3. ASSUME NEW t \in Threads, NEW r \in Releasers, FlushReturn(t, r)
      PROVE  \A q \in Releasers : ReleaserCoupled(q)'
  BY <1>3 DEF FlushReturn, HandOver
<1>4. ASSUME NEW r \in Releasers, Detached(r)
      PROVE  \A q \in Releasers : ReleaserCoupled(q)'
  <2>1. CASE DetachedDelete(r)  BY <2>1 DEF DetachedDelete
  <2>2. CASE DetachedRelease(r)
    BY <2>2 DEF DetachedRelease, Releaser, ReleaserFind, ReleaserStore, ReleaserErase
  <2> QED BY <1>4, <2>1, <2>2 DEF Detached
<1>5. CASE UNCHANGED wbVars  BY <1>5 DEF wbVars, vars
<1> QED BY <1>1, <1>2, <1>3, <1>4, <1>5 DEF WBNext

LEMMA WorkShape ==
    ASSUME Types, Shape, NEW t \in Threads, Work(t)
    PROVE  \A u \in Threads : Coupled(u)'
<1> /\ job \in [Threads -> Jobs] /\ op \in [Threads -> OpNames] /\ lpc \in [Threads -> PCs]
    /\ wc \in [Pages -> Nat] /\ s3 \in [Pages -> Nat] /\ written \in [Pages -> Nat]
    /\ realsize \in 0 .. NumPages /\ fds \subseteq Users
    /\ Users = Threads \ Background
  BY DEF Types, JobTypeOK, DataTypeOK, TypeOK, Users
<1>0. Coupled(t) /\ t # NoThread  BY Constants DEF Shape
<1> USE DEF LockHeld, lockVars, entVars
<1> SUFFICES /\ Coupled(t)'
             /\ \/ UNCHANGED <<fds, fdentLock>>
                \/ fds \ {t} \subseteq fds' /\ fdentLock = t /\ fdentLock' = NoThread
  BY OthersCoupled
<1> DEFINE Goal == /\ Coupled(t)'
                   /\ \/ UNCHANGED <<fds, fdentLock>>
                      \/ fds \ {t} \subseteq fds' /\ fdentLock = t /\ fdentLock' = NoThread
<1>1. CASE SpinForLock(t)
  <2>1. job[t].at = "lock" /\ UNCHANGED <<job, fds, fdentLock>>  BY <1>1 DEF SpinForLock
  <2>2. op'[t] = op[t] /\ lpc'[t] \in {"find", "insert", "spin"}
    BY <1>1 DEF SpinForLock, Find, Insert
  <2> QED BY <1>0, <2>1, <2>2 DEF Coupled, AtLock, AtFile, Writing, Starting, Flushing
<1>2. CASE EnterLock(t)
  <2>1. job[t].at = "lock" /\ UNCHANGED <<fds, fdentLock>>  BY <1>2 DEF EnterLock
  <2>2. op'[t] = op[t] /\ lpc'[t] = "in" /\ op[t] \in {"Put", "Truncate", "Delete", "Flush"}
    BY <1>2 DEF EnterLock, Acquire, OpNames
  <2>3. CASE op[t] = "Put"
    <3>1. job'[t].at = "write"  BY <1>2, <2>3, GotoJob DEF EnterLock, Places
    <3> QED BY <1>0, <2>1, <2>2, <2>3, <3>1
            DEF Coupled, AtLock, AtFile, Writing, Starting, Flushing
  <2>4. CASE op[t] = "Truncate"
    <3>1. job'[t].at = "cut"  BY <1>2, <2>4, GotoJob DEF EnterLock, Places
    <3> QED BY <1>0, <2>1, <2>2, <2>4, <3>1
            DEF Coupled, AtLock, AtFile, Writing, Starting, Flushing
  <2>5. CASE op[t] = "Delete"
    <3>1. job'[t].at = "wipe"  BY <1>2, <2>5, GotoJob DEF EnterLock, Places
    <3> QED BY <1>0, <2>1, <2>2, <2>5, <3>1
            DEF Coupled, AtLock, AtFile, Writing, Starting, Flushing
  <2>6. CASE op[t] = "Flush"
    <3>1. job'[t].at = "size"  BY <1>2, <2>6, GotoJob DEF EnterLock, Places
    <3> QED BY <1>0, <2>1, <2>2, <2>6, <3>1
            DEF Coupled, AtLock, AtFile, Writing, Starting, Flushing
  <2> QED BY <2>2, <2>3, <2>4, <2>5, <2>6
<1>3. CASE PutAdmitted(t) \/ BackFlush(t)
  <2>1. job'[t].at = "lock" /\ lpc'[t] = "find" /\ UNCHANGED <<fds, fdentLock>>
    BY <1>3, GotoJob DEF PutAdmitted, BackFlush, Call, Places
  <2>2. \/ job[t].at = "full" /\ op'[t] = "Put"
        \/ job[t].at = "top" /\ op'[t] = "Flush" /\ t \in Background
    BY <1>3 DEF PutAdmitted, BackFlush, Call
  <2> QED BY <1>0, <2>1, <2>2 DEF Coupled, AtLock, AtFile, Writing, Starting, Flushing
<1>4. CASE PutPage(t)
  <2>1. job'[t].at = job[t].at  BY <1>4, PutPageJob
  <2>2. UNCHANGED <<op, lpc, fds, fdentLock>>  BY <1>4 DEF PutPage
  <2> QED BY <1>0, <2>1, <2>2 DEF Coupled, AtLock, AtFile, Writing, Starting, Flushing
<1>5. CASE PutKeys(t) \/ PutSize(t)
  <2>1. \/ job[t].at = "write" /\ job'[t].at = "resize"
        \/ job[t].at = "resize" /\ op[t] = "Put" /\ job'[t].at = "unlock"
    BY <1>5, GotoJob DEF PutKeys, PutSize, Places
  <2>2. UNCHANGED <<op, lpc, fds, fdentLock>>  BY <1>5 DEF PutKeys, PutSize
  <2> QED BY <1>0, <2>1, <2>2 DEF Coupled, AtLock, AtFile, Writing, Starting, Flushing
<1>6. CASE PutRelease(t) \/ TruncateRelease(t)
  <2>1. job'[t].at = "top" /\ job[t].at = "unlock" /\ op[t] \in {"Put", "Truncate"}
    BY <1>6, ReturnJob DEF PutRelease, TruncateRelease, NoJob, ReleaseShared, ReleaseTruncate
  <2>2. lpc'[t] = "idle" /\ UNCHANGED <<op, fds, fdentLock>>
    BY <1>6 DEF PutRelease, TruncateRelease, ReleaseShared, ReleaseTruncate
  <2> QED BY <1>0, <2>1, <2>2 DEF Coupled, AtLock, AtFile, Writing, Starting, Flushing
<1>7. CASE TruncateCache(t)
  <2>1. job'[t].at \in {"resize", "write", "unlock"} /\ job[t].at = "cut"
    BY <1>7, TruncateCacheJob DEF TruncateCache
  <2>2. UNCHANGED <<op, lpc, fds, fdentLock>>  BY <1>7 DEF TruncateCache
  <2> QED BY <1>0, <2>1, <2>2 DEF Coupled, AtLock, AtFile, Writing, Starting, Flushing
<1>8. CASE TruncateSize(t)
  <2>1. job[t].at = "resize" /\ op[t] = "Truncate" /\ job'[t].at = "unlock"
    BY <1>8, GotoJob DEF TruncateSize, Places
  <2>2. UNCHANGED <<op, lpc, fds, fdentLock>>  BY <1>8 DEF TruncateSize
  <2> QED BY <1>0, <2>1, <2>2 DEF Coupled, AtLock, AtFile, Writing, Starting, Flushing
<1>9. CASE DeleteCache(t) \/ DeleteObject(t)
  <2>1. \/ job[t].at = "wipe" /\ job'[t].at = "object"
        \/ job[t].at = "object" /\ job'[t].at = "unlock"
    BY <1>9, GotoJob DEF DeleteCache, DeleteObject, Places
  <2>2. UNCHANGED <<op, lpc, fds, fdentLock>>  BY <1>9 DEF DeleteCache, DeleteObject
  <2> QED BY <1>0, <2>1, <2>2 DEF Coupled, AtLock, AtFile, Writing, Starting, Flushing
<1>10. CASE DeleteRelease(t)
  <2>1. UNCHANGED <<op, fds, fdentLock>> /\ job[t].at = "unlock" /\ op[t] = "Delete"
    BY <1>0, <1>10 DEF DeleteRelease, ReleaseDelete, EraseDelete, Coupled, AtLock
  <2>2. \/ job' = job /\ lpc'[t] = "erase"
        \/ job'[t].at = "top" /\ lpc'[t] = "idle"
    BY <1>10, ReturnJob DEF DeleteRelease, ReleaseDelete, EraseDelete, NoJob
  <2> QED BY <1>0, <2>1, <2>2 DEF Coupled, AtLock, AtFile, Writing, Starting, Flushing
<1>11. CASE FlushSize(t)
  <2>1. job'[t].at \in {"get", "handover"} /\ job[t].at = "size"
    BY <1>11, FlushSizeJob DEF FlushSize
  <2>2. UNCHANGED <<op, lpc, fds, fdentLock>>  BY <1>11 DEF FlushSize
  <2> QED BY <1>0, <2>1, <2>2 DEF Coupled, AtLock, AtFile, Writing, Starting, Flushing
<1>12. CASE FlushGet(t)
  <2>1. job'[t].at = job[t].at  BY <1>12, FlushGetJob
  <2>2. UNCHANGED <<op, lpc, fds, fdentLock>>  BY <1>12 DEF FlushGet
  <2> QED BY <1>0, <2>1, <2>2 DEF Coupled, AtLock, AtFile, Writing, Starting, Flushing
<1>13. CASE FlushUpload(t)
  <2>1. job'[t].at = "handover" /\ job[t].at = "get"
    BY <1>13, GotoJob, UploadFailsJob DEF FlushUpload, Places
  <2>2. UNCHANGED <<op, lpc, fds, fdentLock>>  BY <1>13 DEF FlushUpload
  <2> QED BY <1>0, <2>1, <2>2 DEF Coupled, AtLock, AtFile, Writing, Starting, Flushing
<1>14. ASSUME NEW r \in Releasers, FlushReturn(t, r) PROVE Goal
  <2>1. job[t].at = "handover" /\ UNCHANGED <<op, fds, fdentLock>> /\ lpc'[t] = "idle"
    BY <1>14 DEF FlushReturn, HandOver
  <2>2. IF t \in Background THEN job'[t].at = "top" ELSE job'[t].at = "flushed"
    BY <1>14, FlushReturnJob DEF NoJob
  <2> QED BY <1>0, <2>1, <2>2 DEF Coupled, AtLock, AtFile, Writing, Starting, Flushing
<1>15. CASE RowFlushEnd(t)
  <2>1. job'[t].at = "done" /\ job[t].at = "flushed"
    BY <1>15, GotoJob DEF RowFlushEnd, Places
  <2>2. UNCHANGED <<op, lpc, fds, fdentLock>>  BY <1>15 DEF RowFlushEnd
  <2> QED BY <1>0, <2>1, <2>2 DEF Coupled, AtLock, AtFile, Writing, Starting, Flushing
<1>16. CASE RowFlushReturn(t)
  <2>1. job'[t].at = "top" /\ job[t].at = "done"
    BY <1>16, ReturnJob DEF RowFlushReturn, NoJob
  <2>2. fdentLock' = NoThread /\ fds \ {t} \subseteq fds' /\ UNCHANGED <<op, lpc>>
    BY <1>16 DEF RowFlushReturn
  <2> QED BY <1>0, <2>1, <2>2 DEF Coupled, AtLock, AtFile, Writing, Starting, Flushing
<1> QED
  BY <1>1, <1>2, <1>3, <1>4, <1>5, <1>6, <1>7, <1>8, <1>9, <1>10, <1>11, <1>12, <1>13,
     <1>14, <1>15, <1>16 DEF Work

LEMMA NextShape == Types /\ Shape /\ [WBNext]_wbVars => Shape'
<1> SUFFICES ASSUME Types, Shape, [WBNext]_wbVars PROVE Shape'  OBVIOUS
<1>1. \A r \in Releasers : ReleaserCoupled(r)'  BY ReleasersShape
<1>2. ASSUME NEW t \in Users, UserStart(t) PROVE Shape'  BY <1>2, StartShape
<1>3. ASSUME NEW t \in Threads, Work(t) PROVE Shape'
  BY <1>1, <1>3, WorkShape DEF Shape
<1>4. ASSUME NEW r \in Releasers, Detached(r) PROVE Shape'
  <2>1. UNCHANGED <<job, op, lpc, fds, fdentLock>>
    BY <1>4 DEF Detached, DetachedDelete, DetachedRelease, Releaser, ReleaserFind,
                ReleaserStore, ReleaserErase, LockHeld, lockVars, entVars
  <2>2. \A u \in Threads : Coupled(u)'  BY <2>1, StaysCoupled DEF Shape
  <2> QED BY <1>1, <2>2 DEF Shape
<1>5. CASE UNCHANGED wbVars
  <2>1. UNCHANGED <<job, op, lpc, fds, fdentLock>>
    BY <1>5 DEF wbVars, vars, lockVars, entVars
  <2>2. \A u \in Threads : Coupled(u)'  BY <2>1, StaysCoupled DEF Shape
  <2> QED BY <1>1, <2>2 DEF Shape
<1> QED BY <1>2, <1>3, <1>4, <1>5 DEF WBNext

------------------------------------------------------------------------------
(***************************************************************************)
(* The data                                                                *)
(***************************************************************************)
\* Everything acknowledged is in the object.
Saved == \A p \in Pages : acked[p] <= s3[p]

\* What was acknowledged of a page is in the write cache or in the object, and
\* beyond the size there is nothing.
PagesOK ==
    \A p \in Pages :
        /\ acked[p] <= written[p] /\ wc[p] \in {0, written[p]}
        /\ wc[p] = 0 => acked[p] <= s3[p]
        /\ p >= s3len => s3[p] = 0
        /\ fds # {} /\ p >= realsize => acked[p] = 0

\* A file that is not dirty, or not marked, or closed is saved; so is one that
\* a detached thread is about to take from keys_.
CleanOK ==
    /\ ~keys \/ ~mark \/ fds = {} => Saved
    /\ \A r \in Releasers : rres[r] = "success" => Saved

\* A Put or Truncate that has not written yet.
StarterOK(t) ==
    Starting(t) => job[t].buf = None /\ job[t].todo \subseteq 0 .. job[t].to - 1

\* One that writes: its pages are cached and, step by step, entered in keys_,
\* below the size and marked, so that acknowledging them is safe.
WriterOK(t) ==
    Writing(t) =>
        /\ job[t].todo \subseteq 0 .. job[t].to - 1
        /\ \A p \in Pages : job[t].buf[p] # 0 =>
              /\ p < job[t].to /\ wc[p] # 0 /\ job[t].buf[p] <= written[p]
              /\ job[t].at \in {"resize", "unlock"} => keys
              /\ job[t].at = "unlock" =>
                    /\ p < realsize /\ mark
                    /\ \A u \in Threads : job[u].at = "flushed" => remarked

\* A Delete has dropped what was acknowledged; a Flush has read at least what
\* was acknowledged, and has uploaded it when it succeeds.
HolderOK(t) ==
    /\ job[t].at = "object" => \A p \in Pages : acked[p] = 0
    /\ job[t].at = "get" => \A p \in Pages :
          IF p < job[t].to
          THEN p \notin job[t].todo /\ job[t].ok => acked[p] <= job[t].buf[p]
          ELSE p \notin job[t].todo /\ acked[p] = 0 /\ job[t].buf[p] = 0
    /\ job[t].at = "handover" /\ job[t].ok => Saved

\* A RowFlush that succeeds has saved what was acknowledged when it began, and
\* everything if the mark was not set again; if it was, somebody else who has
\* the file open set it.
SyncerOK(t) ==
    /\ fdentLock = t => \A p \in Pages : need[t][p] <= acked[p]
    /\ job[t].at \in {"flushed", "done"} /\ job[t].ok => \A p \in Pages : need[t][p] <= s3[p]
    /\ job[t].at = "flushed" /\ job[t].ok /\ ~remarked => Saved
    /\ job[t].at = "done" /\ job[t].ok /\ mark => fds # {t}

ThreadOK(t) == StarterOK(t) /\ WriterOK(t) /\ HolderOK(t) /\ SyncerOK(t)
ThreadsOK == \A t \in Threads : ThreadOK(t)

\* The inductive invariant about the data.
Intact == PagesOK /\ CleanOK /\ ThreadsOK
DataInv == Undamaged => Intact

\* What holds in every state, undamaged or not.
Always == Types /\ Shape /\ LockInv

LEMMA InitDataInv == WBInit => DataInv
<1> SUFFICES ASSUME WBInit PROVE Intact  BY DEF DataInv
<1> USE Constants
<1>1. \A p \in Pages : acked[p] = s3[p] /\ written[p] = s3[p] /\ wc[p] = 0 /\ s3[p] \in Nat
  BY DEF WBInit, None
<1>2. \A p \in Pages : (p >= s3len => s3[p] = 0) /\ (p >= realsize => s3[p] = 0)
  BY DEF WBInit
<1>3. Saved  BY <1>1 DEF Saved
<1>4. PagesOK  BY <1>1, <1>2 DEF PagesOK
<1>5. CleanOK  BY <1>3 DEF CleanOK
<1>6. \A t \in Threads : job[t].at = "top" /\ fdentLock # t  BY DEF WBInit, NoJob
<1>7. ThreadsOK
  BY <1>6 DEF ThreadsOK, ThreadOK, StarterOK, WriterOK, HolderOK, SyncerOK, Starting, Writing
<1> QED BY <1>4, <1>5, <1>7 DEF Intact

\* Who holds the file lock exclusively is alone under it, ...
LEMMA CallerAlone ==
    ASSUME Always, ~orphaned, NEW t \in Threads, lpc[t] = "in", op[t] # "Put"
    PROVE  /\ \A u \in Threads \ {t} : lpc[u] # "in"
           /\ \A r \in Releasers : rres[r] = "done"
<1>1. TypeOK /\ LockInv /\ t \in Excluding  BY DEF Always, Types, Excluding
<1>2. Sharing = {} /\ Finishing = {} /\ Excluding = {t}  BY <1>1, ExclusiveCaller
<1>3. \A u \in Threads \ {t} : lpc[u] # "in"  BY <1>2 DEF Sharing, Excluding
<1>4. \A r \in Releasers : rres[r] = "done"
  BY <1>2 DEF Always, Shape, ReleaserCoupled, Finishing
<1> QED BY <1>3, <1>4

\* ... so is the detached thread of a Flush until it frees it, ...
LEMMA ReleaserAlone ==
    ASSUME Always, ~orphaned, NEW r \in Releasers, rres[r] # "done"
    PROVE  /\ \A u \in Threads : lpc[u] # "in"
           /\ \A q \in Releasers \ {r} : rres[q] = "done"
<1>1. TypeOK /\ LockInv /\ r \in Finishing
  BY DEF Always, Types, Shape, ReleaserCoupled, Finishing
<1>2. Sharing = {} /\ Excluding = {} /\ Finishing = {r}  BY <1>1, ExclusiveReleaser
<1>3. \A u \in Threads : lpc[u] # "in"  BY <1>2 DEF Sharing, Excluding
<1>4. \A q \in Releasers \ {r} : rres[q] = "done"
  BY <1>2 DEF Always, Shape, ReleaserCoupled, Finishing
<1> QED BY <1>3, <1>4

\* ... and while a Put holds it shared, only Puts do.
LEMMA PutsTogether ==
    ASSUME Always, ~orphaned, NEW t \in Threads, lpc[t] = "in"
    PROVE  /\ \A u \in Threads : lpc[u] = "in" /\ u # t => op[u] = "Put"
           /\ \A r \in Releasers : rres[r] = "done"
<1>1. \A u \in Threads : lpc[u] = "in" /\ u # t => op[u] = "Put"
  BY CallerAlone
<1>2. \A r \in Releasers : rres[r] = "done"  BY ReleaserAlone
<1> QED BY <1>1, <1>2

\* What the invariant says of a thread that is not touched and of data that is
\* not touched stays true.
LEMMA Untouched ==
    ASSUME NEW u \in Threads, ThreadOK(u),
           UNCHANGED <<acked, s3, wc, written, realsize, fds, keys, mark, remarked>>,
           job'[u] = job[u], op'[u] = op[u], need'[u] = need[u],
           (fdentLock' = u) => (fdentLock = u),
           \A v \in Threads : job'[v].at = "flushed" => job[v].at = "flushed"
    PROVE  ThreadOK(u)'
<1>1. StarterOK(u)'  BY DEF ThreadOK, StarterOK, Starting
<1>2. WriterOK(u)'  BY DEF ThreadOK, WriterOK, Writing
<1>3. HolderOK(u)'  BY DEF ThreadOK, HolderOK, Saved
<1>4. SyncerOK(u)'  BY DEF ThreadOK, SyncerOK, Saved
<1> QED BY <1>1, <1>2, <1>3, <1>4 DEF ThreadOK

\* The steps that change no data: the thread goes on to its next place.
LEMMA CalmDataStep ==
    ASSUME Always, Intact, Undamaged, NEW t \in Threads, ThreadOK(t)',
           UserStart(t) \/ Work(t),
           UNCHANGED <<acked, s3, s3len, wc, written, realsize, fds, keys, mark, remarked>>,
           \A r \in Releasers : rres'[r] = "success" => Saved,
           \A u \in Threads \ {t} : need'[u] = need[u] /\ (fdentLock' = u => fdentLock = u),
           \/ job'[t].at # "flushed"
           \/ \A u \in Threads \ {t} : lpc[u] # "in"
    PROVE  Intact'
<1> Types /\ Shape /\ NoThread \notin Threads  BY Constants DEF Always
<1>1. PagesOK'  BY DEF Intact, PagesOK
<1>2. CleanOK'  BY DEF Intact, CleanOK, Saved
<1>3. ASSUME NEW u \in Threads \ {t} PROVE ThreadOK(u)'
  <2>1. job'[u] = job[u] /\ op'[u] = op[u] /\ lpc'[u] = lpc[u]  BY OthersStay
  <2>2. ThreadOK(u)  BY DEF Intact, ThreadsOK
  <2>3. CASE job'[t].at # "flushed"
    <3>1. \A v \in Threads : job'[v].at = "flushed" => job[v].at = "flushed"
      BY <2>3, OthersStay
    <3> QED BY <2>1, <2>2, <3>1, Untouched
  <2>4. CASE lpc[u] # "in"
    <3>1. ~Writing(u)  BY <2>4 DEF Shape, Coupled, AtLock, Writing
    <3>2. StarterOK(u)'  BY <2>1, <2>2 DEF ThreadOK, StarterOK, Starting
    <3>3. WriterOK(u)'  BY <2>1, <3>1 DEF WriterOK, Writing
    <3>4. HolderOK(u)'  BY <2>1, <2>2 DEF ThreadOK, HolderOK, Saved
    <3>5. SyncerOK(u)'  BY <2>1, <2>2 DEF ThreadOK, SyncerOK, Saved
    <3> QED BY <3>2, <3>3, <3>4, <3>5 DEF ThreadOK
  <2> QED BY <2>3, <2>4
<1> QED BY <1>1, <1>2, <1>3 DEF Intact, ThreadsOK

LEMMA StartData ==
    ASSUME Always, Intact, Undamaged, NEW t \in Users, UserStart(t), ~Open(t)
    PROVE  Intact'
<1> /\ t \in Threads /\ job \in [Threads -> Jobs] /\ NoThread \notin Threads
    /\ need \in [Threads -> [Pages -> Nat]] /\ acked \in [Pages -> Nat]
  BY Constants DEF Always, Types, JobTypeOK, DataTypeOK
<1>0. ThreadOK(t) /\ Coupled(t)  BY DEF Intact, ThreadsOK, Always, Shape
<1> USE DEF LockHeld, cacheVars, objectVars, entVars, histVars, markHist
<1> DEFINE Same == UNCHANGED <<acked, s3, s3len, wc, written, realsize, fds, keys, mark,
                               remarked, rres>>
<1>1. \A r \in Releasers : rres[r] = "success" => Saved  BY DEF Intact, CleanOK
<1>2. ASSUME NEW from \in Pages, NEW len \in Lengths, StartPut(t, from, len) PROVE Intact'
  <2>1. job'[t].at = "full" /\ job'[t].to = from + len /\ job'[t].buf = None
        /\ job'[t].todo = from .. from + len - 1
    BY <1>2, StartPutJob
  <2>2. Same /\ UNCHANGED <<need, fdentLock>> /\ job[t].at = "top"  BY <1>2 DEF StartPut
  <2>3. from \in Nat /\ len \in Nat  BY Constants
  <2>4. fdentLock # t  BY <1>0, <2>2 DEF Coupled, AtFile, Flushing
  <2>5. ThreadOK(t)'
    BY <2>1, <2>2, <2>3, <2>4
       DEF ThreadOK, StarterOK, WriterOK, HolderOK, SyncerOK, Starting, Writing, None
  <2> QED BY <1>1, <2>1, <2>2, <2>5, CalmDataStep
<1>3. ASSUME NEW close \in BOOLEAN, RowFlush(t, close) PROVE Intact'
  <2>1. job'[t].at = (IF mark THEN "lock" ELSE "done") /\ (~mark => job'[t].ok)
    BY <1>3, RowFlushJob
  <2>2. Same /\ fdentLock' = t /\ need' = [need EXCEPT ![t] = acked]  BY <1>3 DEF RowFlush
  <2>3. need'[t] = acked  BY <2>2
  <2>4. \A u \in Threads \ {t} : need'[u] = need[u] /\ (fdentLock' = u => fdentLock = u)
    BY <2>2
  <2>5. ThreadOK(t)'
    <3>1. CASE mark
      <4>1. op'[t] = "Flush"  BY <1>3, <3>1 DEF RowFlush, Call, Always, Types, TypeOK
      <4> QED BY <2>1, <2>2, <2>3, <3>1, <4>1
              DEF ThreadOK, StarterOK, WriterOK, HolderOK, SyncerOK, Starting, Writing
    <3>2. CASE ~mark
      <4>1. Saved  BY <3>2 DEF Intact, CleanOK
      <4> QED BY <2>1, <2>2, <2>3, <3>2, <4>1
              DEF ThreadOK, StarterOK, WriterOK, HolderOK, SyncerOK, Starting, Writing, Saved
    <3> QED BY <3>1, <3>2
  <2>6. job'[t].at # "flushed"  BY <2>1
  <2> QED BY <1>1, <2>2, <2>4, <2>5, <2>6, CalmDataStep
<1>4. ASSUME NEW n \in 0 .. NumPages, StartTruncate(t, n) PROVE Intact'
  <2>1. job'[t].at = "lock" /\ job'[t].buf = None /\ job'[t].todo = {}
    BY <1>4, StartTruncateJob
  <2>2. Same /\ UNCHANGED <<need, fdentLock>> /\ job[t].at = "top"  BY <1>4 DEF StartTruncate
  <2>4. fdentLock # t  BY <1>0, <2>2 DEF Coupled, AtFile, Flushing
  <2>5. ThreadOK(t)'
    BY <2>1, <2>2, <2>4
       DEF ThreadOK, StarterOK, WriterOK, HolderOK, SyncerOK, Starting, Writing
  <2> QED BY <1>1, <2>1, <2>2, <2>5, CalmDataStep
<1>5. ASSUME StartDelete(t) PROVE Intact'
  <2>1. job'[t].at = "lock"  BY <1>5, GotoJob DEF StartDelete, Places
  <2>2. Same /\ UNCHANGED <<need, fdentLock>> /\ job[t].at = "top"  BY <1>5 DEF StartDelete
  <2>3. op'[t] = "Delete"  BY <1>5 DEF StartDelete, Call, Always, Types, TypeOK
  <2>4. fdentLock # t  BY <1>0, <2>2 DEF Coupled, AtFile, Flushing
  <2>5. ThreadOK(t)'
    BY <2>1, <2>2, <2>3, <2>4
       DEF ThreadOK, StarterOK, WriterOK, HolderOK, SyncerOK, Starting, Writing
  <2> QED BY <1>1, <2>1, <2>2, <2>5, CalmDataStep
<1> QED BY <1>2, <1>3, <1>4, <1>5 DEF UserStart

\* Waiting for the file lock, getting it, reading the size and the chunks, and
\* handing the lock over.
LEMMA CalmWork ==
    ASSUME Always, Intact, Undamaged, NEW t \in Threads,
           \/ SpinForLock(t) \/ EnterLock(t) \/ PutAdmitted(t) \/ BackFlush(t)
           \/ TruncateCache(t) \/ DeleteRelease(t) \/ FlushSize(t) \/ FlushGet(t)
           \/ \E r \in Releasers : FlushReturn(t, r)
    PROVE  Intact'
<1> /\ job \in [Threads -> Jobs] /\ op \in [Threads -> OpNames] /\ lpc \in [Threads -> PCs]
    /\ wc \in [Pages -> Nat] /\ s3 \in [Pages -> Nat] /\ written \in [Pages -> Nat]
    /\ acked \in [Pages -> Nat] /\ need \in [Threads -> [Pages -> Nat]]
    /\ realsize \in 0 .. NumPages /\ rres \in [Releasers -> {"success", "error", "done"}]
    /\ Pages = 0 .. NumPages - 1 /\ NumPages \in Nat
  BY Constants DEF Always, Types, JobTypeOK, DataTypeOK, TypeOK
<1>0. ThreadOK(t) /\ Coupled(t)  BY DEF Intact, ThreadsOK, Always, Shape
<1> USE DEF LockHeld, cacheVars, objectVars, entVars, histVars, markHist
<1> DEFINE Same == UNCHANGED <<acked, s3, s3len, wc, written, realsize, fds, keys, mark,
                               remarked, need, fdentLock>>
<1>1. Work(t)  BY DEF Work
<1>2. \A r \in Releasers : rres[r] = "success" => Saved  BY DEF Intact, CleanOK
<1>3. ASSUME Same, UNCHANGED rres, ThreadOK(t)', job'[t].at # "flushed" PROVE Intact'
  BY <1>1, <1>2, <1>3, CalmDataStep
<1>4. CASE SpinForLock(t)
  <2>1. Same /\ UNCHANGED <<job, op, rres>> /\ job[t].at = "lock"
    BY <1>4 DEF SpinForLock, Find, Insert
  <2>2. ThreadOK(t)'  BY <1>0, <2>1, Untouched
  <2> QED BY <1>3, <2>1, <2>2
<1>5. CASE EnterLock(t)
  <2>1. Same /\ UNCHANGED <<op, rres>> /\ job[t].at = "lock"  BY <1>5 DEF EnterLock, Acquire
  <2>2. op[t] \in {"Put", "Truncate", "Delete", "Flush"}  BY DEF OpNames
  <2>3. \E x \in {"write", "cut", "wipe", "size"} :
           Goto(t, x) /\ (x = "write" => op[t] = "Put") /\ (x = "cut" => op[t] = "Truncate")
    <3>1. CASE op[t] = "Put"  BY <1>5, <3>1 DEF EnterLock
    <3>2. CASE op[t] = "Truncate"  BY <1>5, <3>2 DEF EnterLock
    <3>3. CASE op[t] = "Delete"  BY <1>5, <3>3 DEF EnterLock
    <3>4. CASE op[t] = "Flush"  BY <1>5, <3>4 DEF EnterLock
    <3> QED BY <2>2, <3>1, <3>2, <3>3, <3>4
  <2>4. PICK x \in {"write", "cut", "wipe", "size"} :
           Goto(t, x) /\ (x = "write" => op[t] = "Put") /\ (x = "cut" => op[t] = "Truncate")
    BY <2>3
  <2>5. job'[t].at = x /\ job'[t].buf = job[t].buf /\ job'[t].todo = job[t].todo
        /\ job'[t].to = job[t].to
    BY <2>4, GotoJob DEF Places
  <2>6. StarterOK(t)'  BY <1>0, <2>1, <2>4, <2>5 DEF ThreadOK, StarterOK, Starting
  <2>7. WriterOK(t)'
    BY <1>0, <2>1, <2>4, <2>5, NoneType DEF ThreadOK, StarterOK, Starting, WriterOK, Writing
  <2>8. HolderOK(t)'  BY <2>4, <2>5 DEF HolderOK
  <2>9. SyncerOK(t)'  BY <1>0, <2>1, <2>4, <2>5 DEF ThreadOK, SyncerOK
  <2> QED BY <1>3, <2>1, <2>5, <2>6, <2>7, <2>8, <2>9 DEF ThreadOK
<1>6. CASE PutAdmitted(t) \/ BackFlush(t)
  <2>1. Same /\ UNCHANGED rres /\ job[t].at \in {"full", "top"}
    BY <1>6 DEF PutAdmitted, BackFlush
  <2>2. job'[t].at = "lock" /\ job'[t].buf = job[t].buf /\ job'[t].todo = job[t].todo
        /\ job'[t].to = job[t].to
    BY <1>6, GotoJob DEF PutAdmitted, BackFlush, Places
  <2>3. (job[t].at = "full" /\ op'[t] = "Put") \/ op'[t] = "Flush"
    BY <1>6 DEF PutAdmitted, BackFlush, Call
  <2>4. StarterOK(t)'  BY <1>0, <2>2, <2>3 DEF ThreadOK, StarterOK, Starting
  <2>5. WriterOK(t)' /\ HolderOK(t)'  BY <2>2 DEF WriterOK, Writing, HolderOK
  <2>6. SyncerOK(t)'  BY <1>0, <2>1, <2>2 DEF ThreadOK, SyncerOK
  <2> QED BY <1>3, <2>1, <2>2, <2>4, <2>5, <2>6 DEF ThreadOK
<1>7. CASE TruncateCache(t)
  <2>1. /\ wc' = wc /\ job'[t].at \in {"resize", "write", "unlock"}
        /\ job'[t].to = job[t].to /\ job'[t].buf = job[t].buf
        /\ job'[t].todo = realsize .. job[t].to - 1
    BY <1>7, TruncateCacheJob
  <2>2. Same /\ UNCHANGED <<op, rres>> /\ job[t].at = "cut"
    BY <1>7, <2>1 DEF TruncateCache, lockVars
  <2>3. job'[t].buf = None /\ job'[t].todo \subseteq 0 .. job'[t].to - 1
    BY <1>0, <2>1, <2>2 DEF ThreadOK, StarterOK, Starting, Jobs
  <2>4. StarterOK(t)' /\ HolderOK(t)'  BY <2>1 DEF StarterOK, Starting, HolderOK
  <2>5. WriterOK(t)'  BY <2>3, NoneType DEF WriterOK
  <2>6. SyncerOK(t)'  BY <1>0, <2>1, <2>2 DEF ThreadOK, SyncerOK
  <2> QED BY <1>3, <2>1, <2>2, <2>4, <2>5, <2>6 DEF ThreadOK
<1>8. CASE DeleteRelease(t)
  <2>1. Same /\ UNCHANGED <<op, rres>> /\ op[t] = "Delete" /\ job[t].at = "unlock"
    BY <1>0, <1>8 DEF DeleteRelease, ReleaseDelete, EraseDelete, Coupled, AtLock
  <2>2. job'[t].at \in {"unlock", "top"}
    BY <1>8, <2>1, ReturnJob DEF DeleteRelease, NoJob
  <2>3. StarterOK(t)' /\ WriterOK(t)' /\ HolderOK(t)'
    BY <2>1, <2>2 DEF StarterOK, Starting, WriterOK, Writing, HolderOK
  <2>4. SyncerOK(t)'  BY <1>0, <2>1, <2>2 DEF ThreadOK, SyncerOK
  <2> QED BY <1>3, <2>1, <2>2, <2>3, <2>4 DEF ThreadOK
<1>9. CASE FlushSize(t)
  <2>1. /\ job'[t].at = (IF fds # {} THEN "get" ELSE "handover")
        /\ job'[t].ok = (fds # {}) /\ job'[t].to = realsize
        /\ job'[t].todo = 0 .. realsize - 1 /\ job'[t].buf = None
    BY <1>9, FlushSizeJob
  <2>2. Same /\ UNCHANGED <<op, rres>>  BY <1>9 DEF FlushSize, lockVars
  <2>3. StarterOK(t)' /\ WriterOK(t)'  BY <2>1 DEF StarterOK, Starting, WriterOK, Writing
  <2>4. HolderOK(t)'
    <3>1. CASE fds = {}  BY <2>1, <3>1 DEF HolderOK
    <3>2. CASE fds # {}
      <4>1. \A p \in Pages : p >= realsize => acked[p] = 0  BY <3>2 DEF Intact, PagesOK
      <4>2. job'[t].at = "get" /\ UNCHANGED acked  BY <2>1, <2>2, <3>2
      <4>3. ASSUME NEW p \in Pages
            PROVE  IF p < job'[t].to
                   THEN p \in job'[t].todo
                   ELSE p \notin job'[t].todo /\ acked[p] = 0 /\ job'[t].buf[p] = 0
        <5>1. p \in Nat /\ realsize \in Nat  OBVIOUS
        <5>2. CASE p < realsize  BY <2>1, <5>1, <5>2
        <5>3. CASE ~(p < realsize)
          <6>1. acked[p] = 0  BY <4>1, <5>1, <5>3
          <6>2. job'[t].buf[p] = 0  BY <2>1, NoneType
          <6> QED BY <2>1, <5>1, <5>3, <6>1, <6>2
        <5> QED BY <5>2, <5>3
      <4> QED BY <4>2, <4>3 DEF HolderOK
    <3> QED BY <3>1, <3>2
  <2>5. SyncerOK(t)'  BY <1>0, <2>1, <2>2 DEF ThreadOK, SyncerOK
  <2> QED BY <1>3, <2>1, <2>2, <2>3, <2>4, <2>5 DEF ThreadOK
<1>10. CASE FlushGet(t)
  <2>1. PICK p \in job[t].todo :
           /\ job'[t].at = job[t].at /\ job'[t].to = job[t].to
           /\ job'[t].todo = job[t].todo \ {p}
           /\ \/ /\ job'[t].buf = [job[t].buf EXCEPT ![p] = IF wc[p] # 0 THEN wc[p] ELSE s3[p]]
                 /\ job'[t].ok = job[t].ok
              \/ job'[t].buf = job[t].buf /\ ~job'[t].ok
    BY <1>10, FlushGetJob
  <2>2. Same /\ UNCHANGED <<op, rres>> /\ job[t].at = "get"  BY <1>10 DEF FlushGet, lockVars
  <2>3. StarterOK(t)' /\ WriterOK(t)'
    BY <2>1, <2>2 DEF StarterOK, Starting, WriterOK, Writing
  <2>4. HolderOK(t)'
    <3>1. p \in Pages /\ p < job[t].to  BY <1>0, <2>2 DEF ThreadOK, HolderOK, Jobs
    <3>2. acked[p] <= (IF wc[p] # 0 THEN wc[p] ELSE s3[p])
      BY <3>1 DEF Intact, PagesOK
    <3>3. job[t].buf \in [Pages -> Nat]  BY DEF Jobs
    <3>4. ASSUME NEW q \in Pages
          PROVE  IF q < job'[t].to
                 THEN q \notin job'[t].todo /\ job'[t].ok => acked'[q] <= job'[t].buf[q]
                 ELSE q \notin job'[t].todo /\ acked'[q] = 0 /\ job'[t].buf[q] = 0
      <4>1. IF q < job[t].to
            THEN q \notin job[t].todo /\ job[t].ok => acked[q] <= job[t].buf[q]
            ELSE q \notin job[t].todo /\ acked[q] = 0 /\ job[t].buf[q] = 0
        BY <1>0, <2>2 DEF ThreadOK, HolderOK
      <4>2. CASE q = p  BY <2>1, <2>2, <3>1, <3>2, <3>3, <4>2
      <4>3. CASE q # p
        <5>1. job'[t].buf[q] = job[t].buf[q] /\ (q \in job'[t].todo <=> q \in job[t].todo)
          BY <2>1, <3>3, <4>3
        <5>2. job'[t].ok => job[t].ok  BY <2>1
        <5> QED BY <2>1, <2>2, <4>1, <5>1, <5>2
      <4> QED BY <4>2, <4>3
    <3> QED BY <2>1, <2>2, <3>4 DEF HolderOK
  <2>5. SyncerOK(t)'  BY <1>0, <2>1, <2>2 DEF ThreadOK, SyncerOK
  <2> QED BY <1>3, <2>1, <2>2, <2>3, <2>4, <2>5 DEF ThreadOK
<1>11. ASSUME NEW r \in Releasers, FlushReturn(t, r) PROVE Intact'
  <2>1. /\ Same /\ UNCHANGED op /\ job[t].at = "handover"
        /\ rres' = [rres EXCEPT ![r] = IF job[t].ok THEN "success" ELSE "error"]
    BY <1>11 DEF FlushReturn, HandOver
  <2>2. \A u \in Threads \ {t} : lpc[u] # "in"
    BY <1>0, <2>1, CallerAlone DEF Coupled, AtLock, Undamaged
  <2>3. job[t].ok => Saved  BY <1>0, <2>1 DEF ThreadOK, HolderOK
  <2>4. \A q \in Releasers : rres'[q] = "success" => Saved  BY <1>2, <2>1, <2>3
  <2>5. ThreadOK(t)'
    <3>1. CASE t \in Background
      <4>1. job'[t].at = "top"  BY <1>11, <3>1, FlushReturnJob DEF NoJob
      <4> QED BY <1>0, <2>1, <4>1
              DEF ThreadOK, StarterOK, Starting, WriterOK, Writing, HolderOK, SyncerOK
    <3>2. CASE t \notin Background
      <4>1. job'[t].at = "flushed" /\ job'[t].ok = job[t].ok  BY <1>11, <3>2, FlushReturnJob
      <4>2. StarterOK(t)' /\ WriterOK(t)' /\ HolderOK(t)'
        BY <4>1 DEF StarterOK, Starting, WriterOK, Writing, HolderOK
      <4>3. fdentLock = t
        BY <1>0, <2>1, <3>2 DEF Coupled, AtLock, AtFile, Flushing, Users
      <4>4. \A p \in Pages : need[t][p] <= acked[p]  BY <1>0, <4>3 DEF ThreadOK, SyncerOK
      <4>5. job[t].ok => \A p \in Pages : need[t][p] <= s3[p]  BY <2>3, <4>4 DEF Saved
      <4>6. Saved' <=> Saved  BY <2>1 DEF Saved
      <4>7. SyncerOK(t)'  BY <2>1, <2>3, <4>1, <4>4, <4>5, <4>6 DEF SyncerOK
      <4> QED BY <4>2, <4>7 DEF ThreadOK
    <3> QED BY <3>1, <3>2
  <2> QED BY <1>1, <2>1, <2>2, <2>4, <2>5, CalmDataStep
<1> QED BY <1>4, <1>5, <1>6, <1>7, <1>8, <1>9, <1>10, <1>11

\* What the invariant says of a thread stays true while others write pages,
\* enter the file in keys_, grow it and mark it.
LEMMA Growing ==
    ASSUME NEW u \in Threads, ThreadOK(u),
           UNCHANGED <<acked, s3, fds>>,
           \A p \in Pages : wc[p] # 0 => wc'[p] # 0,
           \A p \in Pages : \A n \in Nat : n <= written[p] => n <= written'[p],
           \A p \in Pages : p < realsize => p < realsize',
           keys => keys', mark => mark', remarked => remarked', mark' => mark \/ fds # {u},
           job'[u] = job[u], job[u] \in Jobs, op'[u] = op[u], need'[u] = need[u],
           (fdentLock' = u) => (fdentLock = u),
           \A v \in Threads : job'[v].at = "flushed" => job[v].at = "flushed" \/ remarked'
    PROVE  ThreadOK(u)'
<1>1. StarterOK(u)'  BY DEF ThreadOK, StarterOK, Starting
<1>2. WriterOK(u)'
  <2>1. SUFFICES ASSUME Writing(u) PROVE WriterOK(u)'  BY DEF WriterOK, Writing
  <2>2. job'[u].todo \subseteq 0 .. job'[u].to - 1  BY <2>1 DEF ThreadOK, WriterOK
  <2>3. ASSUME NEW p \in Pages, job'[u].buf[p] # 0
        PROVE  /\ p < job'[u].to /\ wc'[p] # 0 /\ job'[u].buf[p] <= written'[p]
               /\ job'[u].at \in {"resize", "unlock"} => keys'
               /\ job'[u].at = "unlock" =>
                    /\ p < realsize' /\ mark'
                    /\ \A v \in Threads : job'[v].at = "flushed" => remarked'
    <3>1. job[u].buf[p] # 0 /\ job[u].buf[p] \in Nat  BY <2>3 DEF Jobs
    <3> QED BY <2>1, <3>1 DEF ThreadOK, WriterOK
  <2> QED BY <2>2, <2>3 DEF WriterOK
<1>3. HolderOK(u)'  BY DEF ThreadOK, HolderOK, Saved
<1>4. SyncerOK(u)'  BY DEF ThreadOK, SyncerOK, Saved
<1> QED BY <1>1, <1>2, <1>3, <1>4 DEF ThreadOK

\* Writing the pages of a Put or Truncate, then the entry in keys_ and the size.
LEMMA WriterData ==
    ASSUME Always, Intact, Undamaged, NEW t \in Threads,
           PutPage(t) \/ PutKeys(t) \/ PutSize(t)
    PROVE  Intact'
<1> /\ job \in [Threads -> Jobs] /\ op \in [Threads -> OpNames]
    /\ wc \in [Pages -> Nat] /\ s3 \in [Pages -> Nat] /\ written \in [Pages -> Nat]
    /\ acked \in [Pages -> Nat] /\ realsize \in 0 .. NumPages
    /\ Pages = 0 .. NumPages - 1 /\ NumPages \in Nat
  BY Constants DEF Always, Types, JobTypeOK, DataTypeOK, TypeOK
<1>0. ThreadOK(t) /\ Coupled(t) /\ Writing(t)
  BY DEF Intact, ThreadsOK, Always, Shape, Writing, PutPage, PutKeys, PutSize
<1> USE DEF LockHeld, cacheVars, objectVars, entVars, histVars, markHist
<1>1. Work(t)  BY DEF Work
<1>2. Types /\ t \in fds  BY <1>0 DEF Always, Coupled, AtFile
<1>3. UNCHANGED <<acked, s3, s3len, fds, need, fdentLock, rres, op>>
  BY DEF PutPage, PutKeys, PutSize, lockVars
<1>4. \A u \in Threads \ {t} : job'[u] = job[u] /\ ThreadOK(u)
  BY <1>1, <1>2, OthersStay DEF Intact, ThreadsOK
<1>5. CASE PutPage(t)
  <2>1. PICK p \in job[t].todo :
           /\ job'[t].at = job[t].at /\ job'[t].to = job[t].to
           /\ job'[t].todo = job[t].todo \ {p}
           /\ job'[t].buf = [job[t].buf EXCEPT ![p] = written[p] + 1]
           /\ wc' = [wc EXCEPT ![p] = written[p] + 1]
           /\ written' = [written EXCEPT ![p] = written[p] + 1]
    BY <1>5, PutPageJob
  <2>2. UNCHANGED <<keys, realsize, mark, remarked>> /\ job[t].at = "write"
    BY <1>5 DEF PutPage
  <2>3. p \in Pages /\ p < job[t].to /\ job[t].todo \subseteq 0 .. job[t].to - 1
        /\ job[t].buf \in [Pages -> Nat] /\ job[t].to \in Nat
    <3>1. job[t].todo \subseteq 0 .. job[t].to - 1  BY <1>0 DEF ThreadOK, WriterOK
    <3>2. job[t] \in Jobs  OBVIOUS
    <3>3. job[t].buf \in [Pages -> Nat] /\ job[t].to \in Nat /\ job[t].todo \subseteq Pages
      BY <3>2, JobParts
    <3>4. \A q \in job[t].todo : q \in Pages /\ q < job[t].to  BY <3>1, <3>3
    <3> QED BY <3>1, <3>3, <3>4
  <2>4. /\ wc'[p] = written[p] + 1 /\ written'[p] = written[p] + 1
        /\ job'[t].buf[p] = written[p] + 1
        /\ \A q \in Pages \ {p} :
              wc'[q] = wc[q] /\ written'[q] = written[q] /\ job'[t].buf[q] = job[t].buf[q]
    BY <2>1, <2>3
  <2>5. /\ \A q \in Pages : wc[q] # 0 => wc'[q] # 0
        /\ \A q \in Pages : \A n \in Nat : n <= written[q] => n <= written'[q]
    <3>1. ASSUME NEW q \in Pages
          PROVE  /\ wc[q] # 0 => wc'[q] # 0
                 /\ \A n \in Nat : n <= written[q] => n <= written'[q]
      <4>1. written[q] \in Nat  OBVIOUS
      <4>2. CASE q = p  BY <2>4, <4>1, <4>2
      <4>3. CASE q # p  BY <2>4, <4>3
      <4> QED BY <4>2, <4>3
    <3> QED BY <3>1
  <2>6. PagesOK'
    <3>1. ASSUME NEW q \in Pages
          PROVE  /\ acked'[q] <= written'[q] /\ wc'[q] \in {0, written'[q]}
                 /\ wc'[q] = 0 => acked'[q] <= s3'[q]
      BY <1>3, <2>4 DEF Intact, PagesOK
    <3> QED BY <1>3, <2>2, <3>1 DEF Intact, PagesOK
  <2>7. CleanOK'  BY <1>3, <2>2 DEF Intact, CleanOK, Saved
  <2>8. ASSUME NEW u \in Threads \ {t} PROVE ThreadOK(u)'
    BY <1>3, <1>4, <2>1, <2>2, <2>5, Growing
  <2>9. ThreadOK(t)'
    <3>1. StarterOK(t)' /\ HolderOK(t)'  BY <2>1, <2>2 DEF StarterOK, Starting, HolderOK
    <3>2. SyncerOK(t)'  BY <1>0, <1>3, <2>1, <2>2 DEF ThreadOK, SyncerOK
    <3>3. ASSUME NEW q \in Pages, job'[t].buf[q] # 0
          PROVE  q < job'[t].to /\ wc'[q] # 0 /\ job'[t].buf[q] <= written'[q]
      <4>1. CASE q = p
        <5>1. written[p] \in Nat /\ job'[t].to = job[t].to  BY <2>1, <2>3
        <5>2. q < job'[t].to  BY <2>3, <4>1, <5>1
        <5>3. wc'[q] # 0  BY <2>4, <4>1, <5>1
        <5>4. job'[t].buf[q] = written'[q] /\ written'[q] \in Nat  BY <2>4, <4>1, <5>1
        <5> QED BY <5>2, <5>3, <5>4
      <4>2. CASE q # p  BY <1>0, <2>1, <2>4, <3>3, <4>2 DEF ThreadOK, WriterOK
      <4> QED BY <4>1, <4>2
    <3>4. WriterOK(t)'  BY <2>1, <2>2, <2>3, <3>3 DEF WriterOK
    <3> QED BY <3>1, <3>2, <3>4 DEF ThreadOK
  <2> QED BY <2>6, <2>7, <2>8, <2>9 DEF Intact, ThreadsOK
<1>6. CASE PutKeys(t)
  <2>1. /\ job'[t].at = "resize" /\ job'[t].to = job[t].to /\ job'[t].buf = job[t].buf
        /\ job'[t].todo = job[t].todo
    BY <1>6, GotoJob DEF PutKeys, Places
  <2>2. UNCHANGED <<wc, written, realsize, mark, remarked>> /\ job[t].at = "write" /\ keys'
    BY <1>6 DEF PutKeys
  <2>3. PagesOK' /\ CleanOK'  BY <1>3, <2>2 DEF Intact, PagesOK, CleanOK, Saved
  <2>4. ASSUME NEW u \in Threads \ {t} PROVE ThreadOK(u)'
    BY <1>3, <1>4, <2>1, <2>2, Growing
  <2>5. ThreadOK(t)'
    BY <1>0, <1>3, <2>1, <2>2
       DEF ThreadOK, StarterOK, Starting, HolderOK, SyncerOK, WriterOK
  <2> QED BY <2>3, <2>4, <2>5 DEF Intact, ThreadsOK
<1>7. CASE PutSize(t)
  <2>1. /\ job'[t].at = "unlock" /\ job'[t].to = job[t].to /\ job'[t].buf = job[t].buf
        /\ job'[t].todo = job[t].todo
    BY <1>7, GotoJob DEF PutSize, Places
  <2>2. /\ UNCHANGED <<wc, written, keys>> /\ job[t].at = "resize" /\ mark'
        /\ realsize' = (IF realsize >= job[t].to THEN realsize ELSE job[t].to)
        /\ remarked' = (remarked \/ \E u \in Threads : job[u].at = "flushed")
    BY <1>7 DEF PutSize, SetUpdateMark
  <2>3. \A p \in Pages : (p < realsize => p < realsize') /\ (p < job[t].to => p < realsize')
    BY <2>2 DEF Jobs
  <2>4. PagesOK'
    <3>1. \A p \in Pages : p >= realsize' => p >= realsize  BY <2>2 DEF Jobs
    <3> QED BY <1>3, <2>2, <3>1 DEF Intact, PagesOK
  <2>5. CleanOK'  BY <1>2, <1>3, <2>2 DEF Intact, CleanOK, Saved
  <2>6. \A v \in Threads : job'[v].at = "flushed" => remarked'
    BY <1>4, <2>1, <2>2
  <2>7. ASSUME NEW u \in Threads \ {t} PROVE ThreadOK(u)'
    BY <1>2, <1>3, <1>4, <2>1, <2>2, <2>3, <2>6, Growing
  <2>8. ThreadOK(t)'
    <3>1. StarterOK(t)' /\ HolderOK(t)'  BY <2>1 DEF StarterOK, Starting, HolderOK
    <3>2. SyncerOK(t)'  BY <1>0, <1>3, <2>1 DEF ThreadOK, SyncerOK
    <3>3. WriterOK(t)'  BY <1>0, <2>1, <2>2, <2>3, <2>6 DEF ThreadOK, WriterOK
    <3> QED BY <3>1, <3>2, <3>3 DEF ThreadOK
  <2> QED BY <2>4, <2>5, <2>7, <2>8 DEF Intact, ThreadsOK
<1> QED BY <1>5, <1>6, <1>7

\* A thread that is not under the file lock neither writes nor holds anything.
LEMMA Outside ==
    ASSUME Always, NEW u \in Threads, lpc[u] # "in"
    PROVE  ~Writing(u) /\ job[u].at \notin {"object", "get", "handover"}
BY DEF Always, Shape, Coupled, AtLock, Writing

\* Acknowledging a Put or a Truncate: what it wrote is cached, below the size,
\* in keys_ and marked.
LEMMA ReleaseData ==
    ASSUME Always, Intact, Undamaged, NEW t \in Threads, PutRelease(t) \/ TruncateRelease(t)
    PROVE  Intact'
<1> /\ job \in [Threads -> Jobs] /\ op \in [Threads -> OpNames]
    /\ wc \in [Pages -> Nat] /\ s3 \in [Pages -> Nat] /\ written \in [Pages -> Nat]
    /\ acked \in [Pages -> Nat] /\ realsize \in 0 .. NumPages
    /\ Pages = 0 .. NumPages - 1 /\ NumPages \in Nat
    /\ need \in [Threads -> [Pages -> Nat]]
  BY Constants DEF Always, Types, JobTypeOK, DataTypeOK, TypeOK
<1>0. ThreadOK(t) /\ Coupled(t)  BY DEF Intact, ThreadsOK, Always, Shape
<1> USE DEF LockHeld, cacheVars, objectVars, entVars, histVars, markHist
<1>1. Work(t)  BY DEF Work
<1>2. lpc[t] = "in" /\ op[t] \in {"Put", "Truncate"} /\ job[t].at = "unlock" /\ UNCHANGED op
  BY DEF PutRelease, TruncateRelease, ReleaseShared, ReleaseTruncate
<1>3. Types /\ t \in fds /\ fdentLock # t
  BY <1>0, <1>2 DEF Always, Coupled, AtFile, Writing, Flushing
<1>4. UNCHANGED <<s3, s3len, wc, written, realsize, fds, keys, mark, remarked, need,
                  fdentLock, rres>>
      /\ acked' = MaxOf(acked, job[t].buf)
  BY DEF PutRelease, TruncateRelease
<1>5. job'[t].at = "top"  BY ReturnJob DEF PutRelease, TruncateRelease, NoJob
<1>6. /\ \A u \in Threads : lpc[u] = "in" /\ u # t => op[u] = "Put"
      /\ \A r \in Releasers : rres[r] = "done"
  BY <1>2, PutsTogether DEF Undamaged
<1>7. ThreadOK(t)'
  BY <1>3, <1>4, <1>5
     DEF ThreadOK, StarterOK, Starting, WriterOK, Writing, HolderOK, SyncerOK
<1>8. job[t].buf \in [Pages -> Nat]  BY JobParts
<1>9. \A p \in Pages : acked'[p] = (IF acked[p] >= job[t].buf[p] THEN acked[p] ELSE job[t].buf[p])
  BY <1>4 DEF MaxOf
<1>10. CASE \A p \in Pages : job[t].buf[p] = 0
  <2>1. MaxOf(acked, job[t].buf) = [p \in Pages |-> acked[p]]  BY <1>8, <1>10 DEF MaxOf
  <2>2. acked' = acked  BY <1>4, <2>1
  <2>3. \A r \in Releasers : rres'[r] = "success" => Saved  BY <1>4 DEF Intact, CleanOK
  <2> QED BY <1>1, <1>4, <1>5, <1>7, <2>2, <2>3, CalmDataStep
<1>11. CASE \E p \in Pages : job[t].buf[p] # 0
  <2>1. WriterOK(t) /\ Writing(t)  BY <1>0, <1>2 DEF ThreadOK, Writing
  <2>2. keys /\ mark /\ \A u \in Threads : job[u].at = "flushed" => remarked
    BY <1>2, <1>11, <2>1 DEF WriterOK
  <2>3. \A p \in Pages : job[t].buf[p] # 0 =>
            wc[p] # 0 /\ job[t].buf[p] <= written[p] /\ p < realsize
    BY <1>2, <2>1 DEF WriterOK
  <2>4. PagesOK'
    <3>1. ASSUME NEW p \in Pages
          PROVE  /\ acked'[p] <= written'[p] /\ wc'[p] \in {0, written'[p]}
                 /\ wc'[p] = 0 => acked'[p] <= s3'[p]
                 /\ p >= s3len' => s3'[p] = 0
                 /\ fds' # {} /\ p >= realsize' => acked'[p] = 0
      <4>1. /\ acked[p] <= written[p] /\ wc[p] \in {0, written[p]}
            /\ wc[p] = 0 => acked[p] <= s3[p]
            /\ p >= s3len => s3[p] = 0
            /\ p >= realsize => acked[p] = 0
        BY <1>3 DEF Intact, PagesOK
      <4>2. CASE job[t].buf[p] = 0
        <5>1. acked'[p] = acked[p]  BY <1>9, <4>2
        <5> QED BY <1>4, <4>1, <5>1
      <4>3. CASE job[t].buf[p] # 0
        <5>1. acked'[p] <= written[p]  BY <1>9, <2>3, <4>1, <4>3
        <5>2. wc[p] # 0 /\ p < realsize  BY <2>3, <4>3
        <5>3. ~(p >= realsize)  BY <5>2
        <5> QED BY <1>4, <4>1, <5>1, <5>2, <5>3
      <4> QED BY <4>2, <4>3
    <3> QED BY <3>1 DEF PagesOK
  <2>5. CleanOK'  BY <1>3, <1>4, <1>6, <2>2 DEF CleanOK
  <2>6. ASSUME NEW u \in Threads \ {t} PROVE ThreadOK(u)'
    <3>1. job'[u] = job[u] /\ op'[u] = op[u]  BY <1>1, <1>3, OthersStay
    <3>2. ThreadOK(u)  BY DEF Intact, ThreadsOK
    <3>3. \A v \in Threads : job'[v].at = "flushed" => job[v].at = "flushed"
      BY <1>1, <1>3, <1>5, OthersStay
    <3>4. StarterOK(u)'  BY <3>1, <3>2 DEF ThreadOK, StarterOK, Starting
    <3>5. WriterOK(u)'  BY <1>4, <3>1, <3>2, <3>3 DEF ThreadOK, WriterOK, Writing
    <3>6. job[u].at \notin {"object", "get", "handover"}
      <4>1. CASE lpc[u] = "in"
        <5>1. op[u] = "Put"  BY <1>6, <4>1
        <5> QED BY <5>1 DEF Always, Shape, Coupled, AtLock
      <4>2. CASE lpc[u] # "in"  BY <4>2, Outside
      <4> QED BY <4>1, <4>2
    <3>7. HolderOK(u)'  BY <3>1, <3>6 DEF HolderOK
    <3>8. SyncerOK(u)'
      <4>1. ASSUME NEW p \in Pages, NEW n \in Nat, n <= acked[p] PROVE n <= acked'[p]
        <5>1. acked[p] \in Nat /\ job[t].buf[p] \in Nat  BY <1>8
        <5>2. CASE acked[p] >= job[t].buf[p]  BY <1>9, <4>1, <5>2
        <5>3. CASE ~(acked[p] >= job[t].buf[p])
          <6>1. acked'[p] = job[t].buf[p]  BY <1>9, <5>3
          <6> QED BY <4>1, <5>1, <5>3, <6>1
        <5> QED BY <5>2, <5>3
      <4>2. fdentLock' = u => \A p \in Pages : need'[u][p] <= acked'[p]
        BY <1>4, <3>2, <4>1 DEF ThreadOK, SyncerOK
      <4>3. job'[u].at = "flushed" => remarked'  BY <1>4, <2>2, <3>1
      <4> QED BY <1>4, <3>1, <3>2, <4>2, <4>3 DEF ThreadOK, SyncerOK
    <3> QED BY <3>4, <3>5, <3>7, <3>8 DEF ThreadOK
  <2> QED BY <1>7, <2>4, <2>5, <2>6 DEF Intact, ThreadsOK
<1> QED BY <1>10, <1>11

\* Truncate sets the size: what was acknowledged beyond it is gone.
LEMMA TruncateSizeData ==
    ASSUME Always, Intact, Undamaged, NEW t \in Threads, TruncateSize(t)
    PROVE  Intact'
<1> /\ job \in [Threads -> Jobs] /\ op \in [Threads -> OpNames]
    /\ wc \in [Pages -> Nat] /\ s3 \in [Pages -> Nat] /\ written \in [Pages -> Nat]
    /\ acked \in [Pages -> Nat] /\ realsize \in 0 .. NumPages
    /\ Pages = 0 .. NumPages - 1 /\ NumPages \in Nat
    /\ need \in [Threads -> [Pages -> Nat]]
  BY Constants DEF Always, Types, JobTypeOK, DataTypeOK, TypeOK
<1>0. ThreadOK(t) /\ Coupled(t)  BY DEF Intact, ThreadsOK, Always, Shape
<1> USE DEF LockHeld, cacheVars, objectVars, entVars, histVars, markHist
<1>1. Work(t)  BY DEF Work
<1>2. job[t].at = "resize" /\ op[t] = "Truncate" /\ Writing(t)  BY DEF TruncateSize, Writing
<1>3. Types /\ t \in fds /\ fdentLock # t /\ lpc[t] = "in"
  BY <1>0, <1>2 DEF Always, Coupled, AtFile, AtLock, Writing, Flushing
<1>4. /\ UNCHANGED <<s3, s3len, wc, written, fds, keys, fdentLock, rres, op>>
      /\ realsize' = job[t].to /\ mark'
      /\ remarked' = (remarked \/ \E u \in Threads : job[u].at = "flushed")
      /\ acked' = [p \in Pages |-> IF p < job[t].to THEN acked[p] ELSE 0]
      /\ need' = [u \in Threads |-> [p \in Pages |-> IF p < job[t].to THEN need[u][p] ELSE 0]]
  BY DEF TruncateSize, SetUpdateMark, lockVars
<1>5. /\ job'[t].at = "unlock" /\ job'[t].to = job[t].to /\ job'[t].buf = job[t].buf
      /\ job'[t].todo = job[t].todo
  BY GotoJob DEF TruncateSize, Places
<1>6. /\ \A u \in Threads \ {t} : lpc[u] # "in"
      /\ \A r \in Releasers : rres[r] = "done"
  BY <1>2, <1>3, CallerAlone DEF Undamaged
<1>7. \A p \in Pages : acked'[p] = (IF p < job[t].to THEN acked[p] ELSE 0)  BY <1>4
<1>8. \A u \in Threads, p \in Pages :
          need'[u][p] = (IF p < job[t].to THEN need[u][p] ELSE 0)
  BY <1>4
<1>9. job[t].to \in Nat  BY JobParts
<1>10. \A p \in Pages : acked[p] \in Nat  OBVIOUS
<1>11. ASSUME NEW p \in Pages, NEW n \in Nat, acked[p] <= n PROVE acked'[p] <= n
  <2>1. CASE p < job[t].to  BY <1>7, <1>11, <2>1
  <2>2. CASE ~(p < job[t].to)
    <3>1. acked'[p] = 0  BY <1>7, <2>2
    <3> QED BY <3>1
  <2> QED BY <2>1, <2>2
<1>12. \A v \in Threads : job'[v].at = "flushed" => remarked'
  BY <1>1, <1>3, <1>4, <1>5, OthersStay
<1>13. PagesOK'
  <2>1. ASSUME NEW p \in Pages
        PROVE  /\ acked'[p] <= written'[p] /\ wc'[p] \in {0, written'[p]}
               /\ wc'[p] = 0 => acked'[p] <= s3'[p]
               /\ p >= s3len' => s3'[p] = 0
               /\ fds' # {} /\ p >= realsize' => acked'[p] = 0
    <3>1. /\ acked[p] <= written[p] /\ wc[p] \in {0, written[p]}
          /\ wc[p] = 0 => acked[p] <= s3[p]
          /\ p >= s3len => s3[p] = 0
      BY DEF Intact, PagesOK
    <3>2. p >= realsize' => acked'[p] = 0  BY <1>4, <1>7, <1>9
    <3> QED BY <1>4, <1>11, <3>1, <3>2
  <2> QED BY <2>1 DEF PagesOK
<1>14. CleanOK'
  <2>1. Saved => Saved'  BY <1>4, <1>11 DEF Saved
  <2> QED BY <1>3, <1>4, <1>6, <2>1 DEF Intact, CleanOK
<1>15. ASSUME NEW u \in Threads \ {t} PROVE ThreadOK(u)'
  <2>1. job'[u] = job[u] /\ op'[u] = op[u]  BY <1>1, <1>3, OthersStay
  <2>2. ThreadOK(u)  BY DEF Intact, ThreadsOK
  <2>3. ~Writing(u) /\ job[u].at \notin {"object", "get", "handover"}  BY <1>6, Outside
  <2>4. StarterOK(u)'  BY <2>1, <2>2 DEF ThreadOK, StarterOK, Starting
  <2>5. WriterOK(u)' /\ HolderOK(u)'  BY <2>1, <2>3 DEF WriterOK, Writing, HolderOK
  <2>6. fdentLock' = u => \A p \in Pages : need'[u][p] <= acked'[p]
    BY <1>4, <1>7, <1>8, <2>2 DEF ThreadOK, SyncerOK
  <2>7. ASSUME \A p \in Pages : need[u][p] <= s3[p]
        PROVE  \A p \in Pages : need'[u][p] <= s3'[p]
    BY <1>4, <1>8, <2>7
  <2>8. fds' # {u}  BY <1>3, <1>4
  <2>9. SyncerOK(u)'
    BY <1>4, <1>12, <2>1, <2>2, <2>6, <2>7, <2>8 DEF ThreadOK, SyncerOK
  <2> QED BY <2>4, <2>5, <2>9 DEF ThreadOK
<1>16. ThreadOK(t)'
  <2>1. StarterOK(t)' /\ HolderOK(t)'  BY <1>5 DEF StarterOK, Starting, HolderOK
  <2>2. SyncerOK(t)'  BY <1>3, <1>4, <1>5 DEF SyncerOK
  <2>3. WriterOK(t)'  BY <1>0, <1>2, <1>4, <1>5, <1>12 DEF ThreadOK, WriterOK
  <2> QED BY <2>1, <2>2, <2>3 DEF ThreadOK
<1> QED BY <1>13, <1>14, <1>15, <1>16 DEF Intact, ThreadsOK

\* Delete drops the file's data, then the object.
LEMMA DeleteData ==
    ASSUME Always, Intact, Undamaged, NEW t \in Threads, DeleteCache(t) \/ DeleteObject(t)
    PROVE  Intact' /\ Saved'
<1> /\ job \in [Threads -> Jobs] /\ op \in [Threads -> OpNames]
    /\ wc \in [Pages -> Nat] /\ s3 \in [Pages -> Nat] /\ written \in [Pages -> Nat]
    /\ acked \in [Pages -> Nat] /\ need \in [Threads -> [Pages -> Nat]]
    /\ Pages = 0 .. NumPages - 1 /\ NumPages \in Nat
  BY Constants DEF Always, Types, JobTypeOK, DataTypeOK, TypeOK
<1>0. ThreadOK(t) /\ Coupled(t)  BY DEF Intact, ThreadsOK, Always, Shape
<1> USE DEF LockHeld, cacheVars, objectVars, entVars, histVars, markHist
<1>1. Work(t) /\ Types  BY DEF Work, Always
<1>2. lpc[t] = "in" /\ op[t] = "Delete" /\ job[t].at \in {"wipe", "object"} /\ UNCHANGED op
  BY <1>0 DEF DeleteCache, DeleteObject, Coupled, AtLock, lockVars
<1>3. UNCHANGED <<written, realsize, mark, fdentLock, fds, remarked, rres>>
      /\ \A u \in Threads \ {t} : lpc[u] # "in" /\ job'[u] = job[u] /\ op'[u] = op[u]
  BY <1>1, <1>2, CallerAlone, OthersStay
     DEF DeleteCache, DeleteObject, WriteCacheDelete, Undamaged
<1>4. job'[t].at \in {"object", "unlock"} /\ fdentLock # t
  BY <1>0, <1>2, GotoJob DEF DeleteCache, DeleteObject, Places, Coupled, AtFile, Flushing
<1>5. /\ \A p \in Pages : acked'[p] = 0
      /\ \A u \in Threads : fdentLock = u => \A p \in Pages : need'[u][p] = 0
      /\ UNCHANGED wc /\ s3' \in [Pages -> Nat]
      /\ \A p \in Pages : p >= s3len' => s3'[p] = 0
  <2>1. CASE DeleteCache(t)
    <3>1. wc' = wc  BY <2>1, WalkFindsNothing DEF DeleteCache, WriteCacheDelete
    <3> QED BY <2>1, <3>1, NoneType DEF DeleteCache, Intact, PagesOK
  <2>2. CASE DeleteObject(t)
    <3>1. \A p \in Pages : acked[p] = 0  BY <1>0, <2>2 DEF ThreadOK, HolderOK, DeleteObject
    <3>2. ASSUME NEW u \in Threads, fdentLock = u, NEW p \in Pages PROVE need[u][p] = 0
      <4>1. need[u][p] <= acked[p]  BY <3>2 DEF Intact, ThreadsOK, ThreadOK, SyncerOK
      <4>2. need[u][p] \in Nat  OBVIOUS
      <4> QED BY <3>1, <4>1, <4>2
    <3>3. s3' \in [Pages -> Nat] /\ \A p \in Pages : p >= s3len' => s3'[p] = 0
      BY <2>2, NoneType DEF DeleteObject, Intact, PagesOK
    <3> QED BY <2>2, <3>1, <3>2, <3>3 DEF DeleteObject
  <2> QED BY <2>1, <2>2
<1>6. Saved'
  <2>1. ASSUME NEW p \in Pages PROVE acked'[p] <= s3'[p]
    <3>1. s3'[p] \in Nat /\ acked'[p] = 0  BY <1>5
    <3> QED BY <3>1
  <2> QED BY <2>1 DEF Saved
<1>7. PagesOK'
  <2>1. ASSUME NEW p \in Pages PROVE acked'[p] <= written'[p] /\ wc'[p] \in {0, written'[p]}
    <3>1. written[p] \in Nat /\ acked'[p] = 0  BY <1>5
    <3>2. written'[p] = written[p] /\ wc'[p] = wc[p]  BY <1>3, <1>5
    <3>3. wc[p] \in {0, written[p]}  BY DEF Intact, PagesOK
    <3>4. acked'[p] <= written'[p]  BY <3>1, <3>2
    <3> QED BY <3>2, <3>3, <3>4
  <2> QED BY <1>5, <1>6, <2>1 DEF PagesOK, Saved
<1>8. CleanOK'  BY <1>6 DEF CleanOK
<1>9. ASSUME NEW u \in Threads \ {t} PROVE ThreadOK(u)'
  <2>1. ThreadOK(u) /\ AtFile(u)  BY DEF Intact, ThreadsOK, Always, Shape, Coupled
  <2>2. ~Writing(u) /\ job[u].at \notin {"object", "get", "handover"}  BY <1>3, Outside
  <2>3. StarterOK(u)'  BY <1>3, <2>1 DEF ThreadOK, StarterOK, Starting
  <2>4. WriterOK(u)' /\ HolderOK(u)'  BY <1>3, <2>2 DEF WriterOK, Writing, HolderOK
  <2>5. job[u].at \in {"flushed", "done"} => fdentLock = u  BY <2>1 DEF AtFile, Flushing
  <2>6. ASSUME fdentLock = u, NEW p \in Pages
        PROVE  need'[u][p] <= s3'[p] /\ need'[u][p] <= acked'[p]
    <3>1. s3'[p] \in Nat /\ need'[u][p] = 0 /\ acked'[p] = 0  BY <1>5, <2>6
    <3>2. \A x \in Nat : 0 <= x  OBVIOUS
    <3>3. 0 \in Nat  OBVIOUS
    <3> QED BY <3>1, <3>2, <3>3, Zenon
  <2>7. SyncerOK(u)'  BY <1>3, <1>6, <2>1, <2>5, <2>6 DEF ThreadOK, SyncerOK
  <2> QED BY <2>3, <2>4, <2>7 DEF ThreadOK
<1>10. ThreadOK(t)'
  <2>1. StarterOK(t)' /\ WriterOK(t)'
    BY <1>2, <1>4 DEF StarterOK, Starting, WriterOK, Writing
  <2>2. HolderOK(t)'  BY <1>4, <1>5 DEF HolderOK
  <2>3. SyncerOK(t)'  BY <1>3, <1>4 DEF SyncerOK
  <2> QED BY <2>1, <2>2, <2>3 DEF ThreadOK
<1> QED BY <1>6, <1>7, <1>8, <1>9, <1>10 DEF Intact, ThreadsOK

\* A Flush uploads at least what was acknowledged, or nothing.
LEMMA UploadData ==
    ASSUME Always, Intact, Undamaged, NEW t \in Threads, FlushUpload(t)
    PROVE  Intact' /\ (s3' # s3 => Saved')
<1> /\ job \in [Threads -> Jobs] /\ op \in [Threads -> OpNames]
    /\ wc \in [Pages -> Nat] /\ s3 \in [Pages -> Nat] /\ written \in [Pages -> Nat]
    /\ acked \in [Pages -> Nat] /\ need \in [Threads -> [Pages -> Nat]]
    /\ Pages = 0 .. NumPages - 1 /\ NumPages \in Nat
  BY Constants DEF Always, Types, JobTypeOK, DataTypeOK, TypeOK
<1>0. ThreadOK(t) /\ Coupled(t)  BY DEF Intact, ThreadsOK, Always, Shape
<1> USE DEF LockHeld, cacheVars, objectVars, entVars, histVars, markHist
<1>1. Work(t) /\ Types  BY DEF Work, Always
<1>2. lpc[t] = "in" /\ op[t] = "Flush" /\ job[t].at = "get" /\ job[t].todo = {}
  BY <1>0 DEF FlushUpload, Coupled, AtLock
<1>3. UNCHANGED <<acked, wc, written, realsize, fds, keys, mark, remarked, need, fdentLock,
                  rres, op>>
  BY DEF FlushUpload, lockVars
<1>4. \A u \in Threads \ {t} : lpc[u] # "in" /\ job'[u] = job[u]
  BY <1>1, <1>2, CallerAlone, OthersStay DEF Undamaged
<1>5. job'[t].at = "handover"  BY GotoJob, UploadFailsJob DEF FlushUpload, Places
<1>6. ASSUME UNCHANGED <<s3, s3len>>, ~job'[t].ok PROVE Intact'
  <2>1. ThreadOK(t)'
    <3>1. StarterOK(t)' /\ WriterOK(t)' /\ HolderOK(t)'
      BY <1>5, <1>6 DEF StarterOK, Starting, WriterOK, Writing, HolderOK
    <3>2. SyncerOK(t)'  BY <1>0, <1>3, <1>5 DEF ThreadOK, SyncerOK
    <3> QED BY <3>1, <3>2 DEF ThreadOK
  <2>2. \A r \in Releasers : rres'[r] = "success" => Saved  BY <1>3 DEF Intact, CleanOK
  <2> QED BY <1>1, <1>3, <1>5, <1>6, <2>1, <2>2, CalmDataStep
<1>7. CASE job[t].ok /\ s3' = job[t].buf /\ s3len' = job[t].to
  <2>1. \A p \in Pages : IF p < job[t].to THEN acked[p] <= job[t].buf[p]
                         ELSE acked[p] = 0 /\ job[t].buf[p] = 0
    BY <1>0, <1>2, <1>7 DEF ThreadOK, HolderOK
  <2>2. s3' \in [Pages -> Nat] /\ job[t].to \in Nat  BY <1>7, JobParts
  <2>3. \A p \in Pages : acked[p] <= s3'[p] /\ (p >= s3len' => s3'[p] = 0)
    BY <1>7, <2>1, <2>2
  <2>4. Saved'  BY <1>3, <2>3 DEF Saved
  <2>5. PagesOK'  BY <1>3, <2>3 DEF Intact, PagesOK
  <2>6. CleanOK'  BY <2>4 DEF CleanOK
  <2>7. ASSUME NEW u \in Threads PROVE SyncerOK(u)'
    <3>1. SyncerOK(u) /\ AtFile(u)
      BY DEF Intact, ThreadsOK, ThreadOK, Always, Shape, Coupled
    <3>2. fdentLock = u => \A p \in Pages : need[u][p] <= s3'[p]
      BY <2>2, <2>3, <3>1 DEF SyncerOK
    <3>3. job'[u].at \in {"flushed", "done"} => u # t /\ fdentLock = u
      BY <1>4, <1>5, <3>1 DEF AtFile, Flushing
    <3> QED BY <1>3, <1>4, <2>4, <3>1, <3>2, <3>3 DEF SyncerOK
  <2>8. ASSUME NEW u \in Threads \ {t} PROVE ThreadOK(u)'
    <3>1. ThreadOK(u)  BY DEF Intact, ThreadsOK
    <3>2. ~Writing(u) /\ job[u].at \notin {"object", "get", "handover"}  BY <1>4, Outside
    <3>3. StarterOK(u)'  BY <1>3, <1>4, <3>1 DEF ThreadOK, StarterOK, Starting
    <3>4. WriterOK(u)' /\ HolderOK(u)'  BY <1>3, <1>4, <3>2 DEF WriterOK, Writing, HolderOK
    <3> QED BY <2>7, <3>3, <3>4 DEF ThreadOK
  <2>9. ThreadOK(t)'
    BY <1>5, <2>4, <2>7 DEF ThreadOK, StarterOK, Starting, WriterOK, Writing, HolderOK
  <2> QED BY <2>4, <2>5, <2>6, <2>8, <2>9 DEF Intact, ThreadsOK
<1>8. CASE ~(job[t].ok /\ s3' = job[t].buf /\ s3len' = job[t].to)
  <2>1. UNCHANGED <<s3, s3len>>  BY <1>8 DEF FlushUpload
  <2>2. ~job'[t].ok
    <3>1. CASE job[t].ok
      <4>1. job' = [job EXCEPT ![t].at = "handover", ![t].ok = FALSE]
        BY <1>8, <3>1 DEF FlushUpload
      <4> QED BY <4>1, UploadFailsJob
    <3>2. CASE ~job[t].ok
      <4>1. Goto(t, "handover")  BY <3>2 DEF FlushUpload
      <4> QED BY <3>2, <4>1, GotoJob DEF Places
    <3> QED BY <3>1, <3>2
  <2> QED BY <1>6, <2>1, <2>2
<1> QED BY <1>7, <1>8

\* The detached thread of a Flush: what it takes from keys_ has been saved.
LEMMA DetachedData ==
    ASSUME Always, Intact, Undamaged, NEW r \in Releasers, Detached(r)
    PROVE  Intact'
<1> /\ rres \in [Releasers -> {"success", "error", "done"}] /\ wc \in [Pages -> Nat]
  BY DEF Always, Types, JobTypeOK, DataTypeOK
<1> USE DEF LockHeld, cacheVars, objectVars, entVars, histVars, markHist
<1>1. UNCHANGED <<acked, need, s3, s3len, realsize, fds, mark, remarked, fdentLock, job, op>>
  BY DEF Detached, DetachedDelete, DetachedRelease, Releaser, ReleaserFind, ReleaserStore,
         ReleaserErase, lockVars
<1>2. ASSUME NEW u \in Threads PROVE ThreadOK(u)  BY DEF Intact, ThreadsOK
<1>3. CASE UNCHANGED <<wc, written, keys>>
           /\ \A q \in Releasers : rres'[q] = "success" => rres[q] = "success"
  <2>1. PagesOK' /\ CleanOK'  BY <1>1, <1>3 DEF Intact, PagesOK, CleanOK, Saved
  <2>2. ASSUME NEW u \in Threads PROVE ThreadOK(u)'  BY <1>1, <1>2, <1>3, Untouched
  <2> QED BY <2>1, <2>2 DEF Intact, ThreadsOK
<1>4. CASE DetachedDelete(r) /\ rres[r] = "success"
  <2>1. wc' = wc /\ written' = written
    BY <1>4, WalkFindsNothing DEF DetachedDelete, WriteCacheDelete
  <2>2. Saved'  BY <1>1, <1>4 DEF Intact, CleanOK, Saved
  <2>3. PagesOK' /\ CleanOK'  BY <1>1, <2>1, <2>2 DEF Intact, PagesOK, CleanOK
  <2>4. ASSUME NEW u \in Threads PROVE ThreadOK(u)'
    <3>1. ~Writing(u)  BY <1>4, ReleaserAlone, Outside DEF Undamaged
    <3>2. StarterOK(u)'  BY <1>1, <1>2 DEF ThreadOK, StarterOK, Starting
    <3>3. WriterOK(u)'  BY <1>1, <3>1 DEF WriterOK, Writing
    <3>4. HolderOK(u)'  BY <1>1, <1>2 DEF ThreadOK, HolderOK, Saved
    <3>5. SyncerOK(u)'  BY <1>1, <1>2 DEF ThreadOK, SyncerOK, Saved
    <3> QED BY <3>2, <3>3, <3>4, <3>5 DEF ThreadOK
  <2> QED BY <2>3, <2>4 DEF Intact, ThreadsOK
<1>5. CASE DetachedDelete(r) /\ rres[r] # "success"  BY <1>3, <1>5 DEF DetachedDelete
<1>6. CASE DetachedRelease(r)  BY <1>3, <1>6 DEF DetachedRelease
<1> QED BY <1>4, <1>5, <1>6 DEF Detached

\* RowFlush clears the mark: the file is saved, or the mark is lost.
LEMMA RowFlushEndData ==
    ASSUME Always, Intact, Undamaged, Undamaged', NEW t \in Threads, RowFlushEnd(t)
    PROVE  Intact'
<1> job \in [Threads -> Jobs]  BY DEF Always, Types, JobTypeOK
<1>0. ThreadOK(t) /\ Coupled(t)  BY DEF Intact, ThreadsOK, Always, Shape
<1> USE DEF LockHeld, cacheVars, objectVars, entVars, histVars, markHist
<1>1. Work(t) /\ Types /\ Shape  BY DEF Work, Always
<1>2. UNCHANGED <<acked, need, s3, s3len, wc, written, keys, realsize, fds, fdentLock, op, rres>>
      /\ job[t].at = "flushed" /\ mark' = (mark /\ ~job[t].ok)
      /\ markLost' = (markLost \/ (job[t].ok /\ remarked))
  BY DEF RowFlushEnd, lockVars
<1>3. job'[t].at = "done" /\ job'[t].ok = job[t].ok  BY GotoJob DEF RowFlushEnd, Places
<1>4. fdentLock = t  BY <1>0, <1>2 DEF Coupled, AtFile, Flushing
<1>5. job[t].ok => ~remarked /\ Saved
  BY <1>0, <1>2 DEF Undamaged, ThreadOK, SyncerOK
<1>6. PagesOK'  BY <1>2 DEF Intact, PagesOK
<1>7. CleanOK'
  <2>1. ~mark' => Saved  BY <1>2, <1>5 DEF Intact, CleanOK
  <2> QED BY <1>2, <2>1 DEF Intact, CleanOK, Saved
<1>8. ASSUME NEW u \in Threads \ {t}
      PROVE job'[u] = job[u] /\ job[u].at \notin {"flushed", "done"}
  <2>1. job'[u] = job[u]  BY <1>1, OthersStay
  <2>2. ~Flushing(u)  BY <1>1, <1>4 DEF Shape, Coupled, AtFile
  <2> QED BY <2>1, <2>2 DEF Flushing
<1>9. \A u \in Threads : job'[u].at # "flushed"  BY <1>3, <1>8
<1>10. ASSUME NEW u \in Threads \ {t} PROVE ThreadOK(u)'
  <2>1. ThreadOK(u)  BY DEF Intact, ThreadsOK
  <2>2. StarterOK(u)'  BY <1>2, <1>8, <2>1 DEF ThreadOK, StarterOK, Starting
  <2>3. WriterOK(u)'
    <3>1. SUFFICES ASSUME Writing(u) PROVE WriterOK(u)'
      BY <1>2, <1>8 DEF WriterOK, Writing
    <3>2. ASSUME NEW p \in Pages, job[u].buf[p] # 0, job[u].at = "unlock" PROVE mark'
      <4>1. mark /\ remarked  BY <1>2, <2>1, <3>1, <3>2 DEF ThreadOK, WriterOK
      <4>2. ~job[t].ok  BY <1>5, <4>1
      <4> QED BY <1>2, <4>1, <4>2
    <3> QED BY <1>2, <1>8, <1>9, <2>1, <3>1, <3>2 DEF ThreadOK, WriterOK
  <2>4. HolderOK(u)'  BY <1>2, <1>8, <2>1 DEF ThreadOK, HolderOK, Saved
  <2>5. SyncerOK(u)'  BY <1>2, <1>8, <2>1 DEF ThreadOK, SyncerOK
  <2> QED BY <2>2, <2>3, <2>4, <2>5 DEF ThreadOK
<1>11. ThreadOK(t)'
  <2>1. StarterOK(t)' /\ WriterOK(t)' /\ HolderOK(t)'
    BY <1>3 DEF StarterOK, Starting, WriterOK, Writing, HolderOK
  <2>2. SyncerOK(t)'  BY <1>0, <1>2, <1>3 DEF ThreadOK, SyncerOK
  <2> QED BY <2>1, <2>2 DEF ThreadOK
<1> QED BY <1>6, <1>7, <1>10, <1>11 DEF Intact, ThreadsOK

\* Returning from RowFlush; the last release destroys the FdEntity.
LEMMA RowFlushReturnData ==
    ASSUME Always, Intact, Undamaged, NEW t \in Threads, RowFlushReturn(t)
    PROVE  Intact'
<1> /\ job \in [Threads -> Jobs] /\ acked \in [Pages -> Nat] /\ s3 \in [Pages -> Nat]
    /\ NoThread \notin Threads
  BY Constants DEF Always, Types, JobTypeOK, DataTypeOK
<1>0. ThreadOK(t) /\ Coupled(t)  BY DEF Intact, ThreadsOK, Always, Shape
<1> USE DEF LockHeld, cacheVars, objectVars, entVars, histVars, markHist
<1>1. Work(t) /\ Types /\ Shape  BY DEF Work, Always
<1>2. /\ UNCHANGED <<need, remarked, s3, s3len, wc, written, keys, op, rres>>
      /\ fdentLock' = NoThread /\ job[t].at = "done"
      /\ fds' = (IF job[t].close THEN fds \ {t} ELSE fds)
      /\ realsize' = (IF fds' = {} THEN 0 ELSE realsize)
      /\ mark' = (mark /\ fds' # {})
      /\ acked' = IF fds' = {} /\ ~job[t].ok
                  THEN [p \in Pages |-> IF acked[p] > s3[p] THEN s3[p] ELSE acked[p]]
                  ELSE acked
  BY DEF RowFlushReturn, lockVars
<1>3. job'[t].at = "top"  BY ReturnJob DEF RowFlushReturn, NoJob
<1>4. fdentLock = t /\ t \in fds  BY <1>0, <1>2 DEF Coupled, AtFile, Flushing
<1>5. ASSUME NEW u \in Threads \ {t}
      PROVE job'[u] = job[u] /\ job[u].at \notin {"flushed", "done"}
  <2>1. job'[u] = job[u]  BY <1>1, OthersStay
  <2>2. ~Flushing(u)  BY <1>1, <1>4 DEF Shape, Coupled, AtFile
  <2> QED BY <2>1, <2>2 DEF Flushing
<1>6. \A u \in Threads : job'[u].at # "flushed"  BY <1>3, <1>5
<1>7. ThreadOK(t)'
  BY <1>2, <1>3
     DEF ThreadOK, StarterOK, Starting, WriterOK, Writing, HolderOK, SyncerOK
<1>8. CASE fds' # {}
  <2>1. UNCHANGED <<realsize, acked>> /\ (mark' <=> mark)  BY <1>2, <1>8
  <2>2. PagesOK' /\ CleanOK'  BY <1>2, <1>4, <1>8, <2>1 DEF Intact, PagesOK, CleanOK, Saved
  <2>3. ASSUME NEW u \in Threads \ {t} PROVE ThreadOK(u)'
    <3>1. ThreadOK(u)  BY DEF Intact, ThreadsOK
    <3>2. StarterOK(u)'  BY <1>2, <1>5, <3>1 DEF ThreadOK, StarterOK, Starting
    <3>3. WriterOK(u)'  BY <1>2, <1>5, <1>6, <2>1, <3>1 DEF ThreadOK, WriterOK, Writing
    <3>4. HolderOK(u)'  BY <1>2, <1>5, <2>1, <3>1 DEF ThreadOK, HolderOK, Saved
    <3>5. SyncerOK(u)'  BY <1>2, <1>5 DEF SyncerOK
    <3> QED BY <3>2, <3>3, <3>4, <3>5 DEF ThreadOK
  <2> QED BY <1>7, <2>2, <2>3 DEF Intact, ThreadsOK
<1>9. CASE fds' = {}
  <2>1. fds = {t} /\ realsize' = 0 /\ ~mark'  BY <1>2, <1>4, <1>9
  <2>2. ASSUME NEW p \in Pages
        PROVE  /\ acked'[p] <= s3[p]
               /\ \A n \in Nat : acked[p] <= n => acked'[p] <= n
    <3>1. CASE job[t].ok
      <4>1. Saved  BY <1>0, <1>2, <2>1, <3>1 DEF ThreadOK, SyncerOK, Intact, CleanOK
      <4>2. acked' = acked  BY <1>2, <3>1
      <4> QED BY <4>1, <4>2 DEF Saved
    <3>2. CASE ~job[t].ok
      <4>1. acked'[p] = (IF acked[p] > s3[p] THEN s3[p] ELSE acked[p])  BY <1>2, <1>9, <3>2
      <4>2. acked[p] \in Nat /\ s3[p] \in Nat  OBVIOUS
      <4>3. CASE acked[p] > s3[p]
        <5>1. acked'[p] = s3[p]  BY <4>1, <4>3
        <5> QED BY <4>2, <4>3, <5>1
      <4>4. CASE ~(acked[p] > s3[p])
        <5>1. acked'[p] = acked[p]  BY <4>1, <4>4
        <5> QED BY <4>2, <4>4, <5>1
      <4> QED BY <4>3, <4>4
    <3> QED BY <3>1, <3>2
  <2>3. Saved'  BY <1>2, <2>2 DEF Saved
  <2>4. PagesOK'
    <3>1. ASSUME NEW p \in Pages PROVE acked'[p] <= written'[p]
      <4>1. acked[p] <= written[p] /\ written[p] \in Nat
        BY DEF Intact, PagesOK, Always, Types, DataTypeOK
      <4> QED BY <1>2, <2>2, <4>1
    <3> QED BY <1>2, <1>9, <2>2, <3>1 DEF Intact, PagesOK
  <2>5. CleanOK'  BY <2>3 DEF CleanOK
  <2>6. ASSUME NEW u \in Threads \ {t} PROVE ThreadOK(u)'
    <3>1. ThreadOK(u) /\ AtFile(u) /\ job[u] \in Jobs
      BY DEF Intact, ThreadsOK, Always, Shape, Coupled
    <3>2. ~Writing(u) /\ ~Starting(u)  BY <2>1, <3>1 DEF AtFile
    <3>3. StarterOK(u)' /\ WriterOK(u)'
      BY <1>2, <1>5, <3>2 DEF StarterOK, Starting, WriterOK, Writing
    <3>4. HolderOK(u)'
      <4>1. ASSUME NEW p \in Pages, acked[p] = 0 PROVE acked'[p] = 0
        <5>1. acked'[p] <= 0 /\ acked'[p] \in Nat  BY <1>2, <2>2, <4>1
        <5> QED BY <5>1
      <4>2. \A p \in Pages : job[u].buf[p] \in Nat  BY <3>1, JobParts
      <4>3. \A p \in Pages : acked[p] <= job[u].buf[p] => acked'[p] <= job[u].buf[p]
        BY <2>2, <4>2
      <4> QED BY <1>5, <2>3, <3>1, <4>1, <4>3 DEF ThreadOK, HolderOK
    <3>5. SyncerOK(u)'  BY <1>2, <1>5 DEF SyncerOK
    <3> QED BY <3>3, <3>4, <3>5 DEF ThreadOK
  <2> QED BY <1>7, <2>4, <2>5, <2>6 DEF Intact, ThreadsOK
<1> QED BY <1>8, <1>9

\* Opening: a new FdEntity has the object's size, and the file was saved.
LEMMA OpenData ==
    ASSUME Always, Intact, Undamaged, NEW t \in Users, Open(t)
    PROVE  Intact'
<1> /\ acked \in [Pages -> Nat] /\ s3 \in [Pages -> Nat] /\ t \in Threads
  BY Constants DEF Always, Types, DataTypeOK
<1> USE DEF LockHeld, cacheVars, objectVars, entVars, histVars, markHist
<1>1. UNCHANGED <<acked, need, remarked, s3, s3len, wc, written, keys, fdentLock, job, op, rres>>
      /\ t \notin fds /\ fds' = fds \cup {t} /\ mark' = (fds = {} \/ mark)
      /\ realsize' = IF fds = {} THEN s3len ELSE realsize
  BY DEF Open, lockVars
<1>2. PagesOK'
  <2>1. ASSUME NEW p \in Pages, p >= realsize' PROVE acked[p] = 0
    <3>1. CASE fds = {}
      <4>1. acked[p] <= s3[p]  BY <3>1 DEF Intact, CleanOK, Saved
      <4>2. s3[p] = 0  BY <1>1, <2>1, <3>1 DEF Intact, PagesOK
      <4>3. acked[p] \in Nat  OBVIOUS
      <4> QED BY <4>1, <4>2, <4>3
    <3>2. CASE fds # {}  BY <1>1, <2>1, <3>2 DEF Intact, PagesOK
    <3> QED BY <3>1, <3>2
  <2> QED BY <1>1, <2>1 DEF Intact, PagesOK
<1>3. CleanOK'
  <2>1. ~keys' \/ ~mark' \/ fds' = {} => Saved  BY <1>1 DEF Intact, CleanOK
  <2> QED BY <1>1, <2>1 DEF Intact, CleanOK, Saved
<1>4. ASSUME NEW u \in Threads PROVE ThreadOK(u)'
  <2>1. ThreadOK(u) /\ AtFile(u)  BY DEF Intact, ThreadsOK, Always, Shape, Coupled
  <2>2. StarterOK(u)'  BY <1>1, <2>1 DEF ThreadOK, StarterOK, Starting
  <2>3. WriterOK(u)'
    <3>1. CASE Writing(u)
      <4>1. realsize' = realsize /\ (mark' <=> mark)  BY <1>1, <2>1, <3>1 DEF AtFile
      <4> QED BY <1>1, <2>1, <4>1 DEF ThreadOK, WriterOK, Writing
    <3>2. CASE ~Writing(u)  BY <1>1, <3>2 DEF WriterOK, Writing
    <3> QED BY <3>1, <3>2
  <2>4. HolderOK(u)'  BY <1>1, <2>1 DEF ThreadOK, HolderOK, Saved
  <2>5. SyncerOK(u)'
    <3>1. job[u].at = "done" => u \in fds  BY <2>1 DEF AtFile, Flushing
    <3>2. job[u].at = "done" => fds' # {u}  BY <1>1, <3>1
    <3> QED BY <1>1, <2>1, <3>2 DEF ThreadOK, SyncerOK, Saved
  <2> QED BY <2>2, <2>3, <2>4, <2>5 DEF ThreadOK
<1> QED BY <1>2, <1>3, <1>4 DEF Intact, ThreadsOK

------------------------------------------------------------------------------
(***************************************************************************)
(* Every step                                                              *)
(***************************************************************************)
LEMMA WorkData ==
    ASSUME Always, Intact, Undamaged, Undamaged', NEW t \in Threads, Work(t)
    PROVE  Intact'
BY CalmWork, WriterData, ReleaseData, TruncateSizeData, DeleteData, UploadData,
   RowFlushEndData, RowFlushReturnData
   DEF Work

\* What damages the protocol is not undone.
LEMMA DamageStays == Types /\ [WBNext]_wbVars /\ Undamaged' => Undamaged
<1> SUFFICES ASSUME Types, [WBNext]_wbVars, ~Undamaged PROVE ~Undamaged'  OBVIOUS
<1> USE DEF histVars, markHist
<1>1. orphaned => orphaned'  BY StepIsLockStep, OrphanedStays DEF Types
<1>2. markLost => markLost'
  <2>1. ASSUME markLost, NEW t \in Users, UserStart(t) PROVE markLost'
    BY <2>1 DEF UserStart, StartPut, RowFlush, Open, StartTruncate, StartDelete
  <2>2. ASSUME markLost, NEW t \in Threads, Work(t) PROVE markLost'
    BY <2>2 DEF Work, SpinForLock, EnterLock, PutAdmitted, PutPage, PutKeys, PutSize,
                SetUpdateMark, PutRelease, TruncateCache, TruncateSize, TruncateRelease,
                DeleteCache, DeleteObject, DeleteRelease, FlushSize, FlushGet, FlushUpload,
                FlushReturn, RowFlushEnd, RowFlushReturn, BackFlush
  <2>3. ASSUME markLost, NEW r \in Releasers, Detached(r) PROVE markLost'
    BY <2>3 DEF Detached, DetachedDelete, DetachedRelease
  <2>4. CASE UNCHANGED wbVars  BY <2>4 DEF wbVars
  <2> QED BY <2>1, <2>2, <2>3, <2>4 DEF WBNext
<1> QED BY <1>1, <1>2 DEF Undamaged

LEMMA NextDataInv == Always /\ DataInv /\ [WBNext]_wbVars => DataInv'
<1> SUFFICES ASSUME Always, DataInv, [WBNext]_wbVars, Undamaged' PROVE Intact'
  BY DEF DataInv
<1>1. Undamaged  BY DamageStays DEF Always
<1>2. Intact  BY <1>1 DEF DataInv
<1>3. ASSUME NEW t \in Users, UserStart(t) PROVE Intact'
  BY <1>1, <1>2, <1>3, StartData, OpenData
<1>4. ASSUME NEW t \in Threads, Work(t) PROVE Intact'  BY <1>1, <1>2, <1>4, WorkData
<1>5. ASSUME NEW r \in Releasers, Detached(r) PROVE Intact'
  BY <1>1, <1>2, <1>5, DetachedData
<1>6. CASE UNCHANGED wbVars
  <2>1. UNCHANGED <<acked, need, s3, s3len, wc, written, keys, realsize, fds, mark, remarked,
                    fdentLock, job, op, rres>>
    BY <1>6 DEF wbVars, vars, lockVars, cacheVars, objectVars, entVars, histVars, markHist
  <2>2. PagesOK' /\ CleanOK'  BY <1>2, <2>1 DEF Intact, PagesOK, CleanOK, Saved
  <2>3. ASSUME NEW u \in Threads PROVE ThreadOK(u)'
    <3>1. ThreadOK(u)  BY <1>2 DEF Intact, ThreadsOK
    <3> QED BY <2>1, <3>1, Untouched
  <2> QED BY <2>2, <2>3 DEF Intact, ThreadsOK
<1> QED BY <1>3, <1>4, <1>5, <1>6 DEF WBNext

\* Only an upload and the removal of the object change it, and then everything
\* acknowledged is in it.
LEMMA ObjectStep ==
    ASSUME Always, Intact, Undamaged, [WBNext]_wbVars, s3' # s3
    PROVE  Saved'
<1> USE DEF objectVars
<1>1. ASSUME NEW t \in Threads, FlushUpload(t) \/ DeleteObject(t) PROVE Saved'
  BY <1>1, UploadData, DeleteData
<1>2. ASSUME NEW t \in Users, UserStart(t) PROVE s3' = s3
  BY <1>2 DEF UserStart, StartPut, RowFlush, Open, StartTruncate, StartDelete
<1>3. ASSUME NEW t \in Threads, Work(t) PROVE FlushUpload(t) \/ DeleteObject(t)
  BY <1>3 DEF Work, SpinForLock, EnterLock, PutAdmitted, PutPage, PutKeys, PutSize,
              PutRelease, TruncateCache, TruncateSize, TruncateRelease, DeleteCache,
              DeleteRelease, FlushSize, FlushGet, FlushReturn, RowFlushEnd,
              RowFlushReturn, BackFlush
<1>4. ASSUME NEW r \in Releasers, Detached(r) PROVE s3' = s3
  BY <1>4 DEF Detached, DetachedDelete, DetachedRelease
<1>5. ~ UNCHANGED wbVars  BY DEF wbVars
<1> QED BY <1>1, <1>2, <1>3, <1>4, <1>5 DEF WBNext

LEMMA InitAlways == WBInit => Always
BY InitTypes, InitShape, InitLockInv DEF WBInit, Always

LEMMA NextAlways == Always /\ [WBNext]_wbVars => Always'
BY NextTypes, NextShape, StepIsLockStep, LockStepInv DEF Always, Types

LEMMA WriteBackInv == WBSpec => [](Always /\ DataInv)
<1>1. WBInit => Always /\ DataInv  BY InitAlways, InitDataInv
<1>2. Always /\ DataInv /\ [WBNext]_wbVars => (Always /\ DataInv)'
  BY NextAlways, NextDataInv
<1> QED BY <1>1, <1>2, PTL DEF WBSpec

------------------------------------------------------------------------------
(***************************************************************************)
(* Theorems                                                                *)
(***************************************************************************)
\* The file lock excludes in the whole of the write back, not only among callers
\* that may ask for it at any time, until a lock object is orphaned.
THEOREM WriteBackExclusion == WBSpec => []ExclusionUntilOrphaned
<1>1. Always => ExclusionUntilOrphaned  BY LockInvExcludes DEF Always, Types
<1> QED BY <1>1, WriteBackInv, PTL

\* However Puts, Flushes, their detached Deletes, Truncates, Deletes and the
\* background flush interleave, dirty data belongs to a file that is in keys_.
THEOREM DirtyDataIsTracked == WBSpec => []DirtyTracked
<1>1. Always /\ DataInv => DirtyTracked
  <2> SUFFICES ASSUME Always, Intact, NEW p \in Pages, acked[p] > s3[p] PROVE keys
    BY DEF DataInv, DirtyTracked
  <2>1. acked[p] \in Nat /\ s3[p] \in Nat  BY DEF Always, Types, DataTypeOK
  <2>2. ~Saved  BY <2>1 DEF Saved
  <2> QED BY <2>2 DEF Intact, CleanOK
<1> QED BY <1>1, WriteBackInv, PTL

\* fsync and release do not return success before what was acknowledged when
\* they began is in the object, whatever the other users do meanwhile.
THEOREM FsyncIsDurable == WBSpec => []FsyncDurable
<1>1. Always /\ DataInv => FsyncDurable
  <2> SUFFICES ASSUME Always, Intact, NEW t \in Users, job[t].at = "done", job[t].ok,
                      NEW p \in Pages
               PROVE  s3[p] >= need[t][p]
    BY DEF DataInv, FsyncDurable
  <2>1. t \in Threads  BY Constants
  <2>2. need[t][p] \in Nat /\ s3[p] \in Nat  BY <2>1 DEF Always, Types, DataTypeOK
  <2>3. need[t][p] <= s3[p]  BY <2>1 DEF Intact, ThreadsOK, ThreadOK, SyncerOK
  <2> QED BY <2>2, <2>3
<1> QED BY <1>1, WriteBackInv, PTL

\* A Flush that is overtaken, retried or fails never puts an older version in
\* the object than one that was acknowledged and there.
THEOREM UploadsNeverRegress == WBSpec => NoRegress
<1> DEFINE Step == Undamaged' => \A p \in Pages : s3'[p] < s3[p] => s3'[p] >= acked'[p]
<1>1. Always /\ DataInv /\ (Always /\ DataInv)' /\ [WBNext]_wbVars => [Step]_wbVars
  <2> SUFFICES ASSUME Always, DataInv, Always', [WBNext]_wbVars, Undamaged',
                      NEW p \in Pages, s3'[p] < s3[p]
               PROVE  s3'[p] >= acked'[p]
    OBVIOUS
  <2>1. Undamaged  BY DamageStays DEF Always
  <2>2. s3[p] \in Nat /\ s3'[p] \in Nat /\ acked'[p] \in Nat
    BY DEF Always, Types, DataTypeOK
  <2>3. s3' # s3  BY <2>2
  <2>4. Saved'  BY <2>1, <2>3, ObjectStep DEF DataInv
  <2> QED BY <2>2, <2>4 DEF Saved
<1>2. WBSpec => [][Step]_wbVars  BY <1>1, WriteBackInv, PTL DEF WBSpec
<1> QED BY <1>2 DEF NoRegress

------------------------------------------------------------------------------
(***************************************************************************)
(* How full the write cache can get                                        *)
(***************************************************************************)
\* Something can be written: the limit is positive and Puts have a length.
CacheUsable == SafeSize > 0 /\ Lengths # {}

MaxLen == Max(Lengths)

LEMMA LongestPut ==
    ASSUME CacheUsable
    PROVE  MaxLen \in Nat \ {0} /\ \A len \in Lengths : len <= MaxLen
<1> DEFINE From(k) == Lengths \cap (k + 1) .. 9 = {}
           HasLast == \E x \in Lengths : \A y \in Lengths : x >= y
<1>1. Lengths \subseteq 1 .. 9  BY WriteBackAssumption
<1>2. ASSUME NEW k \in 1 .. 9, From(k) PROVE HasLast \/ From(k - 1)
  <2>1. k \in Lengths => HasLast  BY <1>1, <1>2
  <2> QED BY <1>1, <1>2, <2>1
<1>3. From(9)  OBVIOUS
<1> HIDE DEF From
<1>4. HasLast \/ From(8)  BY <1>2, <1>3
<1>5. HasLast \/ From(7)  BY <1>2, <1>4
<1>6. HasLast \/ From(6)  BY <1>2, <1>5
<1>7. HasLast \/ From(5)  BY <1>2, <1>6
<1>8. HasLast \/ From(4)  BY <1>2, <1>7
<1>9. HasLast \/ From(3)  BY <1>2, <1>8
<1>10. HasLast \/ From(2)  BY <1>2, <1>9
<1>11. HasLast \/ From(1)  BY <1>2, <1>10
<1>12. HasLast \/ From(0)  BY <1>2, <1>11
<1>13. From(0) => Lengths \cap 1 .. 9 = {}  BY DEF From
<1>14. HasLast  BY <1>1, <1>12, <1>13 DEF CacheUsable
<1>15. MaxLen \in Lengths /\ \A y \in Lengths : MaxLen >= y  BY <1>14 DEF MaxLen, Max
<1> QED BY <1>1, <1>15

\* A Put that passed the check of the size and has not written all its pages,
Putting(u) == op[u] = "Put" /\ job[u].at \in {"lock", "write"}

\* its pages, counted back from its end, for every user,
Coming == {x \in Users \X (0 .. MaxLen - 1) :
              Putting(x[1]) /\ job[x[1]].to - 1 - x[2] \in job[x[1]].todo}

\* and the cached pages that no Truncate brought.
Brought == Cached \ filled

\* A Put has no more pages to write than the longest; those a Truncate writes
\* are counted in filled.
PutShort(u) ==
    /\ Putting(u) \/ job[u].at = "full" =>
          job[u].todo \subseteq job[u].to - MaxLen .. job[u].to - 1
    /\ job[u].at = "full" => job[u].from <= job[u].to
FillCounted(u) ==
    op[u] = "Truncate" /\ job[u].at = "write" => job[u].todo \subseteq filled

Sizes == /\ filled \subseteq Pages
         /\ \A u \in Threads : PutShort(u) /\ FillCounted(u)
         /\ (Cardinality(Brought) + Cardinality(Coming)) * RealPageSize
               < SafeSize + Cardinality(Users) * MaxLen * RealPageSize

LEMMA Product ==
    ASSUME NEW a \in Nat, NEW b \in Nat, NEW c \in Nat, a <= b
    PROVE  a * c <= b * c /\ a * c \in Nat /\ b * c \in Nat
OBVIOUS

LEMMA SizesFinite ==
    ASSUME CacheUsable, filled \subseteq Pages
    PROVE  /\ IsFiniteSet(Pages) /\ IsFiniteSet(Users) /\ IsFiniteSet(Coming)
           /\ IsFiniteSet(Brought) /\ IsFiniteSet(Cached) /\ IsFiniteSet(filled)
           /\ Cardinality(Brought) \in Nat /\ Cardinality(filled) \in Nat
           /\ Cardinality(Cached) \in Nat /\ Cardinality(Brought) <= Cardinality(Cached)
           /\ Cardinality(Cached) <= Cardinality(Brought) + Cardinality(filled)
           /\ Cardinality(Users) \in Nat
           /\ Cardinality(Coming) \in Nat
           /\ Cardinality(Coming) <= Cardinality(Users) * MaxLen
           /\ RealPageSize \in Nat /\ SafeSize \in Nat
<1>1. IsFiniteSet(Pages)  BY Constants, FS_Interval
<1>2. IsFiniteSet(Users)  BY FileLockAssumption, FS_Subset DEF Users
<1>3. IsFiniteSet(Cached) /\ IsFiniteSet(filled)  BY <1>1, FS_Subset DEF Cached
<1>4. IsFiniteSet(Brought) /\ Cardinality(Brought) <= Cardinality(Cached)
  <2>1. Brought \in SUBSET Cached  BY DEF Brought
  <2> QED BY <1>3, <2>1, FS_Subset
<1>5. Cardinality(Cached) <= Cardinality(Brought) + Cardinality(filled)
  <2>1. Cached \in SUBSET (Brought \cup filled)  BY DEF Brought
  <2>2. IsFiniteSet(Brought \cup filled) /\ Cardinality(Brought \cup filled)
           = Cardinality(Brought) + Cardinality(filled) - Cardinality(Brought \cap filled)
    BY <1>3, <1>4, FS_Union
  <2>3. Brought \cap filled = {}  BY DEF Brought
  <2>4. Cardinality(Brought \cap filled) = 0  BY <2>3, FS_EmptySet
  <2>5. Cardinality(Cached) <= Cardinality(Brought \cup filled)  BY <2>1, <2>2, FS_Subset
  <2>6. Cardinality(Brought) \in Nat /\ Cardinality(filled) \in Nat
    BY <1>3, <1>4, FS_CardinalityType
  <2> QED BY <2>2, <2>4, <2>5, <2>6
<1>6. IsFiniteSet(Coming) /\ Cardinality(Coming) <= Cardinality(Users) * MaxLen
  <2>1. MaxLen \in Nat \ {0}  BY LongestPut
  <2>2. IsFiniteSet(0 .. MaxLen - 1) /\ Cardinality(0 .. MaxLen - 1) = MaxLen
    BY <2>1, FS_Interval
  <2>3. /\ IsFiniteSet(Users \X (0 .. MaxLen - 1))
        /\ Cardinality(Users \X (0 .. MaxLen - 1)) = Cardinality(Users) * MaxLen
    BY <1>2, <2>2, FS_Product
  <2>4. Coming \in SUBSET (Users \X (0 .. MaxLen - 1))  BY DEF Coming
  <2> QED BY <2>3, <2>4, FS_Subset
<1>7. /\ Cardinality(Brought) \in Nat /\ Cardinality(filled) \in Nat /\ Cardinality(Users) \in Nat
      /\ Cardinality(Cached) \in Nat /\ Cardinality(Coming) \in Nat
  BY <1>2, <1>3, <1>4, <1>6, FS_CardinalityType
<1>8. RealPageSize \in Nat /\ SafeSize \in Nat  BY WriteBackAssumption
<1> QED BY <1>1, <1>2, <1>3, <1>4, <1>5, <1>6, <1>7, <1>8

LEMMA InitSizes == ASSUME CacheUsable, WBInit PROVE Sizes
<1>1. \A u \in Threads : job[u].at = "top" /\ filled = {}  BY DEF WBInit, NoJob
<1>2. filled = {} /\ \A p \in Pages : wc[p] = 0  BY DEF WBInit, None
<1>3. Brought = {} /\ Coming = {}
  BY <1>1, <1>2, Constants DEF Brought, Cached, Coming, Putting
<1>4. Cardinality(Brought) = 0 /\ Cardinality(Coming) = 0  BY <1>3, FS_EmptySet
<1>5. /\ RealPageSize \in Nat /\ SafeSize \in Nat /\ Cardinality(Users) * MaxLen \in Nat
  BY <1>2, SizesFinite, LongestPut
<1>6. Cardinality(Users) * MaxLen * RealPageSize \in Nat  BY <1>5
<1>7. (Cardinality(Brought) + Cardinality(Coming)) * RealPageSize = 0  BY <1>4, <1>5
<1>8. SafeSize > 0  BY DEF CacheUsable
<1>9. (Cardinality(Brought) + Cardinality(Coming)) * RealPageSize
         < SafeSize + Cardinality(Users) * MaxLen * RealPageSize
  BY <1>5, <1>6, <1>7, <1>8
<1>10. \A u \in Threads : PutShort(u) /\ FillCounted(u)
  BY <1>1 DEF PutShort, FillCounted, Putting
<1> QED BY <1>2, <1>9, <1>10 DEF Sizes

\* Fewer pages, cached or to come, fit as well.
LEMMA FewerFit ==
    ASSUME CacheUsable, Sizes, NEW c \in Nat, c <= Cardinality(Brought) + Cardinality(Coming)
    PROVE  c * RealPageSize < SafeSize + Cardinality(Users) * MaxLen * RealPageSize
<1> DEFINE now == Cardinality(Brought) + Cardinality(Coming)
           limit == SafeSize + Cardinality(Users) * MaxLen * RealPageSize
<1>1. now \in Nat /\ RealPageSize \in Nat /\ SafeSize \in Nat /\ Cardinality(Users) \in Nat
  BY SizesFinite DEF Sizes
<1>2. MaxLen \in Nat  BY LongestPut
<1>3. Cardinality(Users) * MaxLen \in Nat  BY <1>1, <1>2
<1>4. limit \in Nat  BY <1>1, <1>3
<1>5. now * RealPageSize < limit  BY DEF Sizes
<1> HIDE DEF now, limit
<1>6. c * RealPageSize <= now * RealPageSize /\ c * RealPageSize \in Nat
      /\ now * RealPageSize \in Nat
  BY <1>1, Product DEF now
<1>7. c * RealPageSize < limit  BY <1>4, <1>5, <1>6
<1> QED BY <1>7 DEF limit

\* A step that caches nothing and admits nobody.
LEMMA QuietThread ==
    ASSUME CacheUsable, Always, Sizes, NEW t \in Threads,
           \A u \in Threads \ {t} : job'[u] = job[u] /\ op'[u] = op[u],
           wc' = wc, filled \subseteq filled', filled' \subseteq Pages,
           PutShort(t)', FillCounted(t)',
           Putting(t)' => Putting(t) /\ job'[t].to = job[t].to /\ job'[t].todo = job[t].todo
    PROVE  Sizes'
<1>1. ASSUME NEW u \in Threads PROVE (PutShort(u) /\ FillCounted(u))'
  <2>1. CASE u = t  BY <2>1
  <2>2. CASE u # t
    <3>1. job'[u] = job[u] /\ op'[u] = op[u] /\ PutShort(u) /\ FillCounted(u)
      BY <2>2 DEF Sizes
    <3> QED BY <3>1 DEF PutShort, FillCounted, Putting
  <2> QED BY <2>1, <2>2
<1>2. Brought' \in SUBSET Brought  BY DEF Brought, Cached
<1>3. Coming' \in SUBSET Coming
  <2> SUFFICES ASSUME NEW x \in Users \X (0 .. MaxLen - 1), Putting(x[1])',
                      job'[x[1]].to - 1 - x[2] \in job'[x[1]].todo
               PROVE  Putting(x[1]) /\ job[x[1]].to - 1 - x[2] \in job[x[1]].todo
    BY DEF Coming
  <2>1. x[1] \in Threads  BY Constants
  <2>2. CASE x[1] = t  BY <2>2
  <2>3. CASE x[1] # t  BY <2>1, <2>3 DEF Putting
  <2> QED BY <2>2, <2>3
<1>4. /\ Cardinality(Brought') <= Cardinality(Brought) /\ Cardinality(Brought') \in Nat
      /\ Cardinality(Coming') <= Cardinality(Coming) /\ Cardinality(Coming') \in Nat
      /\ Cardinality(Brought) \in Nat /\ Cardinality(Coming) \in Nat
  BY <1>2, <1>3, SizesFinite, FS_Subset, FS_CardinalityType DEF Sizes
<1> DEFINE c == Cardinality(Brought') + Cardinality(Coming')
<1>5. c \in Nat /\ c <= Cardinality(Brought) + Cardinality(Coming)  BY <1>4
<1> HIDE DEF c
<1>6. c * RealPageSize < SafeSize + Cardinality(Users) * MaxLen * RealPageSize
  BY <1>5, FewerFit
<1> QED BY <1>1, <1>6 DEF Sizes, c

\* A Put passes the check: the pages already cached fit, and it adds its own.
LEMMA AdmittedSizes ==
    ASSUME CacheUsable, Always, Sizes, NEW t \in Threads, PutAdmitted(t)
    PROVE  Sizes'
<1> Types /\ job \in [Threads -> Jobs] /\ op \in [Threads -> OpNames]
  BY DEF Always, Types, JobTypeOK, TypeOK
<1> USE DEF cacheVars, objectVars, entVars, histVars, markHist
<1>1. job'[t].at = "lock" /\ job'[t].to = job[t].to /\ job'[t].todo = job[t].todo
  BY GotoJob DEF PutAdmitted, Places
<1>2. UNCHANGED <<wc, filled>> /\ job[t].at = "full"  BY DEF PutAdmitted
<1>3. \A u \in Threads \ {t} : job'[u] = job[u] /\ op'[u] = op[u]
  BY OthersStay DEF Work
<1>4. ASSUME NEW u \in Threads PROVE (PutShort(u) /\ FillCounted(u))'
  <2>1. PutShort(u) /\ FillCounted(u)  BY DEF Sizes
  <2>2. CASE u = t  BY <1>1, <1>2, <2>1, <2>2 DEF PutShort, FillCounted
  <2>3. CASE u # t
    <3>1. job'[u] = job[u] /\ op'[u] = op[u]  BY <1>3, <2>3
    <3> QED BY <1>2, <2>1, <3>1 DEF PutShort, FillCounted, Putting
  <2> QED BY <2>2, <2>3
<1> DEFINE R == RealPageSize
           B == Cardinality(Brought)
           K == Cardinality(Coming')
           room == Cardinality(Users) * MaxLen
<1>5. /\ R \in Nat /\ SafeSize \in Nat /\ B \in Nat /\ Cardinality(Cached) \in Nat
      /\ B <= Cardinality(Cached) /\ Cardinality(Users) \in Nat
  BY SizesFinite DEF Sizes
<1>6. MaxLen \in Nat  BY LongestPut
<1>7. room \in Nat  BY <1>5, <1>6
<1>8. K \in Nat /\ K <= room
  <2>1. IsFiniteSet(0 .. MaxLen - 1) /\ Cardinality(0 .. MaxLen - 1) = MaxLen
    BY <1>6, FS_Interval
  <2>2. /\ IsFiniteSet(Users \X (0 .. MaxLen - 1))
        /\ Cardinality(Users \X (0 .. MaxLen - 1)) = room
    BY <2>1, SizesFinite, FS_Product DEF Sizes
  <2>3. Coming' \in SUBSET (Users \X (0 .. MaxLen - 1))  BY DEF Coming
  <2> QED BY <2>2, <2>3, FS_Subset, FS_CardinalityType
<1>9. Cardinality(Cached) * R < SafeSize
  <2>1. job[t].to \in Nat /\ job[t].from \in Nat /\ Cardinality(Cached) * R \in Nat
    BY <1>5, Product, JobParts
  <2>2. job[t].from <= job[t].to  BY <1>2 DEF Sizes, PutShort
  <2>3. ~(Cardinality(Cached) * R + (job[t].to - job[t].from) >= SafeSize)
    BY DEF PutAdmitted, IsWriteCacheFull, GetCacheSize
  <2> HIDE DEF R
  <2> QED BY <1>5, <2>1, <2>2, <2>3
<1>10. Brought' = Brought /\ filled' \subseteq Pages  BY <1>2 DEF Brought, Cached, Sizes
<1> HIDE DEF R, B, K, room
<1>11. B * R <= Cardinality(Cached) * R /\ B * R \in Nat /\ Cardinality(Cached) * R \in Nat
  BY <1>5, Product
<1>12. K * R <= room * R /\ K * R \in Nat /\ room * R \in Nat  BY <1>5, <1>7, <1>8, Product
<1>13. (B + K) * R = B * R + K * R  BY <1>5, <1>8
<1>14. (B + K) * R < SafeSize + room * R  BY <1>5, <1>9, <1>11, <1>12, <1>13
<1>15. (Cardinality(Brought') + Cardinality(Coming')) * RealPageSize
          < SafeSize + Cardinality(Users) * MaxLen * RealPageSize
  BY <1>10, <1>14 DEF B, K, R, room
<1> QED BY <1>4, <1>10, <1>15 DEF Sizes

\* A step after which the thread is not in a Put, nor about to write pages.
LEMMA AwaySizes ==
    ASSUME CacheUsable, Always, Sizes, NEW t \in Threads, UserStart(t) \/ Work(t),
           wc' = wc, filled' = filled,
           job'[t].at \notin {"full", "lock", "write"}
           \/ (job'[t].at = "lock" /\ op'[t] # "Put")
    PROVE  Sizes'
<1>1. \A u \in Threads \ {t} : job'[u] = job[u] /\ op'[u] = op[u]
  BY OthersStay DEF Always
<1>2. PutShort(t)' /\ FillCounted(t)' /\ ~Putting(t)'
  BY DEF PutShort, FillCounted, Putting
<1>3. filled' \subseteq Pages  BY DEF Sizes
<1> QED BY <1>1, <1>2, <1>3, QuietThread

\* A step that changes no job, no page and no operation.
LEMMA StillSizes ==
    ASSUME Sizes, job' = job, op' = op, wc' = wc, filled' = filled
    PROVE  Sizes'
<1>1. Brought' = Brought /\ Coming' = Coming /\ filled' \subseteq Pages
  BY DEF Brought, Cached, Coming, Putting, Sizes
<1>2. ASSUME NEW u \in Threads PROVE (PutShort(u) /\ FillCounted(u))'
  <2>1. PutShort(u) /\ FillCounted(u)  BY DEF Sizes
  <2> QED BY <2>1 DEF PutShort, FillCounted, Putting
<1>3. (Cardinality(Brought') + Cardinality(Coming')) * RealPageSize
         < SafeSize + Cardinality(Users) * MaxLen * RealPageSize
  BY <1>1 DEF Sizes
<1> QED BY <1>1, <1>2, <1>3 DEF Sizes

LEMMA StartSizes ==
    ASSUME CacheUsable, Always, Sizes, NEW t \in Users, UserStart(t)
    PROVE  Sizes'
<1> /\ t \in Threads /\ job \in [Threads -> Jobs] /\ op \in [Threads -> OpNames]
  BY Constants DEF Always, Types, JobTypeOK, TypeOK
<1> USE DEF cacheVars, histVars, markHist
<1>1. ASSUME NEW from \in Pages, NEW len \in Lengths, StartPut(t, from, len) PROVE Sizes'
  <2>1. /\ job'[t].at = "full" /\ job'[t].from = from /\ job'[t].to = from + len
        /\ job'[t].todo = from .. from + len - 1
    BY <1>1, StartPutJob
  <2>2. from \in Nat /\ len \in Nat /\ MaxLen \in Nat /\ len <= MaxLen
    BY Constants, LongestPut
  <2>3. from .. from + len - 1 \subseteq from + len - MaxLen .. from + len - 1
    BY <2>2
  <2>4. PutShort(t)' /\ FillCounted(t)' /\ ~Putting(t)'
    BY <2>1, <2>2, <2>3 DEF PutShort, FillCounted, Putting
  <2>5. \A u \in Threads \ {t} : job'[u] = job[u] /\ op'[u] = op[u]
    BY OthersStay DEF Always
  <2>6. UNCHANGED <<wc, filled>> /\ filled' \subseteq Pages  BY <1>1 DEF StartPut, Sizes
  <2> QED BY <2>4, <2>5, <2>6, QuietThread
<1>2. ASSUME NEW close \in BOOLEAN, RowFlush(t, close) PROVE Sizes'
  <2>1. job'[t].at = (IF mark THEN "lock" ELSE "done")  BY <1>2, RowFlushJob
  <2>2. mark => op'[t] = "Flush"  BY <1>2 DEF RowFlush, Call
  <2>3. UNCHANGED <<wc, filled>>  BY <1>2 DEF RowFlush
  <2> QED BY <2>1, <2>2, <2>3, AwaySizes
<1>3. CASE Open(t)
  <2>1. UNCHANGED <<job, op, wc, filled>>  BY <1>3 DEF Open, LockHeld, lockVars
  <2> QED BY <2>1, StillSizes
<1>4. ASSUME NEW n \in 0 .. NumPages, StartTruncate(t, n) PROVE Sizes'
  <2>1. job'[t].at = "lock"  BY <1>4, StartTruncateJob
  <2>2. op'[t] = "Truncate"  BY <1>4 DEF StartTruncate, Call
  <2>3. UNCHANGED <<wc, filled>>  BY <1>4 DEF StartTruncate
  <2> QED BY <2>1, <2>2, <2>3, AwaySizes
<1>5. CASE StartDelete(t)
  <2>1. job'[t].at = "lock"  BY <1>5, GotoJob DEF StartDelete, Places
  <2>2. op'[t] = "Delete"  BY <1>5 DEF StartDelete, Call
  <2>3. UNCHANGED <<wc, filled>>  BY <1>5 DEF StartDelete
  <2> QED BY <2>1, <2>2, <2>3, AwaySizes
<1> QED BY <1>1, <1>2, <1>3, <1>4, <1>5 DEF UserStart

\* A page is written: by a Put it was to come, by a Truncate it is in filled.
LEMMA PageSizes ==
    ASSUME CacheUsable, Always, Sizes, NEW t \in Threads, PutPage(t)
    PROVE  Sizes'
<1> /\ Types /\ job \in [Threads -> Jobs] /\ written \in [Pages -> Nat]
    /\ wc \in [Pages -> Nat]
  BY DEF Always, Types, JobTypeOK, DataTypeOK
<1>1. PICK p \in job[t].todo :
        /\ job'[t].at = job[t].at /\ job'[t].to = job[t].to
        /\ job'[t].todo = job[t].todo \ {p}
        /\ wc' = [wc EXCEPT ![p] = written[p] + 1]
  BY PutPageJob
<1>2. job[t].at = "write" /\ filled' = filled /\ op' = op /\ job[t].todo \subseteq Pages
  BY JobParts DEF PutPage, LockHeld, lockVars, histVars
<1>3. \A u \in Threads \ {t} : job'[u] = job[u] /\ op'[u] = op[u]
  BY OthersStay DEF Work
<1>4. ASSUME NEW u \in Threads PROVE (PutShort(u) /\ FillCounted(u))'
  <2>1. PutShort(u) /\ FillCounted(u)  BY DEF Sizes
  <2>2. CASE u = t  BY <1>1, <1>2, <2>1, <2>2 DEF PutShort, FillCounted, Putting
  <2>3. CASE u # t
    <3>1. job'[u] = job[u] /\ op'[u] = op[u]  BY <1>3, <2>3
    <3> QED BY <1>2, <2>1, <3>1 DEF PutShort, FillCounted, Putting
  <2> QED BY <2>2, <2>3
<1>5. op[t] \in {"Put", "Truncate"} /\ t \in Users
  BY <1>2 DEF Always, Shape, Coupled, AtLock, AtFile, Writing, JobTypeOK, Types
<1>6. filled \subseteq Pages  BY DEF Sizes
<1>7. Brought' \in SUBSET (Brought \cup {p})  BY <1>1, <1>2 DEF Brought, Cached
<1>8. Coming' \in SUBSET Coming
  <2> SUFFICES ASSUME NEW x \in Users \X (0 .. MaxLen - 1), Putting(x[1])',
                      job'[x[1]].to - 1 - x[2] \in job'[x[1]].todo
               PROVE  Putting(x[1]) /\ job[x[1]].to - 1 - x[2] \in job[x[1]].todo
    BY DEF Coming
  <2>1. x[1] \in Threads  BY Constants
  <2>2. CASE x[1] = t  BY <1>1, <1>2, <2>2 DEF Putting
  <2>3. CASE x[1] # t  BY <1>3, <2>1, <2>3 DEF Putting
  <2> QED BY <2>2, <2>3
<1>9. Cardinality(Brought) \in Nat /\ Cardinality(Coming) \in Nat
      /\ IsFiniteSet(Brought) /\ IsFiniteSet(Coming)
  BY <1>6, SizesFinite
<1>10. IsFiniteSet(Brought') /\ Cardinality(Brought') \in Nat
       /\ Cardinality(Coming') \in Nat /\ IsFiniteSet(Coming')
  <2>1. IsFiniteSet(Brought \cup {p})  BY <1>9, FS_AddElement
  <2> QED BY <1>7, <1>8, <1>9, <2>1, FS_Subset, FS_CardinalityType
<1> DEFINE c == Cardinality(Brought') + Cardinality(Coming')
<1>11. c \in Nat  BY <1>10
<1>12. c <= Cardinality(Brought) + Cardinality(Coming)
  <2>1. CASE op[t] = "Put"
    <3> DEFINE k == job[t].to - 1 - p
               x == <<t, k>>
    <3>1. job[t].todo \subseteq job[t].to - MaxLen .. job[t].to - 1
      BY <1>2, <2>1 DEF Sizes, PutShort, Putting
    <3>2. MaxLen \in Nat /\ job[t].to \in Nat  BY LongestPut, JobParts
    <3>3. k \in 0 .. MaxLen - 1 /\ job[t].to - 1 - k = p  BY <3>1, <3>2
    <3>4. job'[t].to - 1 - k \notin job'[t].todo  BY <1>1, <3>3
    <3> HIDE DEF k
    <3>5. x \in Coming  BY <1>2, <1>5, <2>1, <3>3 DEF Coming, Putting
    <3>6. x \notin Coming'  BY <3>4 DEF Coming
    <3> HIDE DEF x
    <3>7. Coming' \in SUBSET (Coming \ {x})  BY <1>8, <3>6
    <3>8. IsFiniteSet(Coming \ {x}) /\ Cardinality(Coming \ {x}) = Cardinality(Coming) - 1
      BY <1>9, <3>5, FS_RemoveElement
    <3>9. Cardinality(Coming') <= Cardinality(Coming) - 1  BY <3>7, <3>8, FS_Subset
    <3>10. IsFiniteSet(Brought \cup {p})
           /\ Cardinality(Brought \cup {p}) <= Cardinality(Brought) + 1
           /\ Cardinality(Brought \cup {p}) \in Nat
      <4>1. /\ IsFiniteSet(Brought \cup {p})
            /\ \/ Cardinality(Brought \cup {p}) = Cardinality(Brought)
               \/ Cardinality(Brought \cup {p}) = Cardinality(Brought) + 1
        BY <1>9, FS_AddElement, Zenon
      <4> QED BY <1>9, <4>1
    <3>11. Cardinality(Brought') <= Cardinality(Brought \cup {p})
      BY <1>7, <3>10, FS_Subset
    <3> QED BY <1>9, <1>10, <3>9, <3>10, <3>11
  <2>2. CASE op[t] = "Truncate"
    <3>1. p \in filled  BY <1>2, <2>2 DEF Sizes, FillCounted
    <3>2. Brought' \in SUBSET Brought  BY <1>2, <1>7, <3>1 DEF Brought
    <3>3. Cardinality(Brought') <= Cardinality(Brought)  BY <1>9, <3>2, FS_Subset
    <3>4. Cardinality(Coming') <= Cardinality(Coming)  BY <1>8, <1>9, FS_Subset
    <3> QED BY <1>9, <1>10, <3>3, <3>4
  <2> QED BY <1>5, <2>1, <2>2
<1> HIDE DEF c
<1>13. c * RealPageSize < SafeSize + Cardinality(Users) * MaxLen * RealPageSize
  BY <1>11, <1>12, FewerFit
<1> QED BY <1>2, <1>4, <1>6, <1>13 DEF Sizes, c

LEMMA WorkSizes ==
    ASSUME CacheUsable, Always, Sizes, NEW t \in Threads, Work(t)
    PROVE  Sizes'
<1> /\ Types /\ job \in [Threads -> Jobs] /\ op \in [Threads -> OpNames]
    /\ wc \in [Pages -> Nat] /\ s3 \in [Pages -> Nat] /\ written \in [Pages -> Nat]
    /\ realsize \in 0 .. NumPages
  BY DEF Always, Types, JobTypeOK, DataTypeOK, TypeOK
<1> USE DEF cacheVars, histVars, LockHeld, lockVars
<1>1. \A u \in Threads \ {t} : job'[u] = job[u] /\ op'[u] = op[u]  BY OthersStay
<1>2. filled \subseteq Pages /\ PutShort(t) /\ FillCounted(t)  BY DEF Sizes
<1>3. AtLock(t)  BY DEF Always, Shape, Coupled
<1>4. CASE SpinForLock(t)
  <2>1. UNCHANGED <<job, op, wc, filled>>  BY <1>4 DEF SpinForLock, Find, Insert
  <2> QED BY <2>1, StillSizes
<1>5. CASE EnterLock(t)
  <2> DEFINE place == CASE op[t] = "Put" -> "write" [] op[t] = "Flush" -> "size"
                        [] op[t] = "Truncate" -> "cut" [] op[t] = "Delete" -> "wipe"
  <2>1. place \in {"write", "size", "cut", "wipe"} /\ (place = "write" => op[t] = "Put")
    BY DEF OpNames
  <2>2. Goto(t, place)  BY <1>5 DEF EnterLock
  <2> HIDE DEF place
  <2>3. job'[t].at = place /\ job'[t].to = job[t].to /\ job'[t].todo = job[t].todo
    BY <2>1, <2>2, GotoJob DEF Places
  <2>4. UNCHANGED <<op, wc, filled>> /\ job[t].at = "lock"  BY <1>5 DEF EnterLock, Acquire
  <2>5. PutShort(t)' /\ FillCounted(t)' /\ (Putting(t)' => Putting(t))
    BY <1>2, <2>1, <2>3, <2>4 DEF PutShort, FillCounted, Putting
  <2> QED BY <1>1, <1>2, <2>3, <2>4, <2>5, QuietThread
<1>6. CASE PutAdmitted(t)  BY <1>6, AdmittedSizes
<1>7. CASE BackFlush(t)
  <2>1. job'[t].at = "lock"  BY <1>7, GotoJob DEF BackFlush, Places
  <2>2. op'[t] = "Flush" /\ UNCHANGED <<wc, filled>>  BY <1>7 DEF BackFlush, Call
  <2> QED BY <2>1, <2>2, AwaySizes
<1>8. CASE PutPage(t)  BY <1>8, PageSizes
<1>9. CASE PutKeys(t) \/ PutSize(t)
  <2>1. job'[t].at \in {"resize", "unlock"}  BY <1>9, GotoJob DEF PutKeys, PutSize, Places
  <2>2. UNCHANGED <<wc, filled>>  BY <1>9 DEF PutKeys, PutSize
  <2> QED BY <2>1, <2>2, AwaySizes
<1>10. CASE PutRelease(t) \/ TruncateRelease(t)
  <2>1. job'[t].at = "top"
    BY <1>10, ReturnJob DEF PutRelease, TruncateRelease, NoJob
  <2>2. UNCHANGED <<wc, filled>>  BY <1>10 DEF PutRelease, TruncateRelease
  <2> QED BY <2>1, <2>2, AwaySizes
<1>11. CASE TruncateCache(t)
  <2>1. /\ job'[t].at \in {"resize", "write", "unlock"}
        /\ job'[t].todo = realsize .. job[t].to - 1 /\ wc' = wc
    BY <1>11, TruncateCacheJob
  <2>2. op' = op /\ op[t] = "Truncate" /\ filled' = filled \cup (realsize .. job[t].to - 1)
    BY <1>3, <1>11 DEF TruncateCache, AtLock
  <2>3. realsize .. job[t].to - 1 \subseteq Pages
    <3>1. job[t].to \in 0 .. NumPages /\ realsize \in Nat /\ NumPages \in Nat
          /\ Pages = 0 .. NumPages - 1
      BY Constants, JobParts
    <3> SUFFICES ASSUME NEW p \in realsize .. job[t].to - 1 PROVE p \in 0 .. NumPages - 1
      BY <3>1
    <3> QED BY <3>1
  <2>4. PutShort(t)' /\ FillCounted(t)' /\ ~Putting(t)'
    BY <2>1, <2>2 DEF PutShort, FillCounted, Putting
  <2> QED BY <1>1, <1>2, <2>1, <2>2, <2>3, <2>4, QuietThread
<1>12. CASE TruncateSize(t) \/ DeleteObject(t)
  <2>1. job'[t].at = "unlock"  BY <1>12, GotoJob DEF TruncateSize, DeleteObject, Places
  <2>2. UNCHANGED <<wc, filled>>  BY <1>12 DEF TruncateSize, DeleteObject
  <2> QED BY <2>1, <2>2, AwaySizes
<1>13. CASE DeleteCache(t)
  <2>1. job'[t].at = "object"  BY <1>13, GotoJob DEF DeleteCache, Places
  <2>2. UNCHANGED <<wc, filled>>
    BY <1>13, WalkFindsNothing DEF DeleteCache, WriteCacheDelete
  <2> QED BY <2>1, <2>2, AwaySizes
<1>14. CASE DeleteRelease(t)
  <2>1. UNCHANGED <<wc, filled>>  BY <1>14 DEF DeleteRelease
  <2>2. CASE Return(t)
    <3>1. job'[t].at = "top"  BY <2>2, ReturnJob DEF NoJob
    <3> QED BY <2>1, <3>1, AwaySizes
  <2>3. CASE ReleaseDelete(t) /\ UNCHANGED job
    <3>1. op' = op  BY <2>3 DEF ReleaseDelete
    <3> QED BY <2>1, <2>3, <3>1, StillSizes
  <2> QED BY <1>14, <2>2, <2>3 DEF DeleteRelease
<1>15. CASE FlushSize(t)
  <2>1. job'[t].at \in {"get", "handover"}  BY <1>15, FlushSizeJob
  <2>2. UNCHANGED <<wc, filled>>  BY <1>15 DEF FlushSize
  <2> QED BY <2>1, <2>2, AwaySizes
<1>16. CASE FlushGet(t)
  <2>1. job'[t].at = "get"  BY <1>16, FlushGetJob DEF FlushGet
  <2>2. UNCHANGED <<wc, filled>>  BY <1>16 DEF FlushGet
  <2> QED BY <2>1, <2>2, AwaySizes
<1>17. CASE FlushUpload(t)
  <2>1. job'[t].at = "handover"  BY <1>17, GotoJob, UploadFailsJob DEF FlushUpload, Places
  <2>2. UNCHANGED <<wc, filled>>  BY <1>17 DEF FlushUpload
  <2> QED BY <2>1, <2>2, AwaySizes
<1>18. ASSUME NEW r \in Releasers, FlushReturn(t, r) PROVE Sizes'
  <2>1. job'[t].at \in {"top", "flushed"}  BY <1>18, FlushReturnJob DEF NoJob
  <2>2. UNCHANGED <<wc, filled>>  BY <1>18 DEF FlushReturn
  <2> QED BY <2>1, <2>2, AwaySizes
<1>19. CASE RowFlushEnd(t) \/ RowFlushReturn(t)
  <2>1. job'[t].at \in {"done", "top"}
    BY <1>19, GotoJob, ReturnJob DEF RowFlushEnd, RowFlushReturn, NoJob, Places
  <2>2. UNCHANGED <<wc, filled>>  BY <1>19 DEF RowFlushEnd, RowFlushReturn
  <2> QED BY <2>1, <2>2, AwaySizes
<1> QED
  BY <1>4, <1>5, <1>6, <1>7, <1>8, <1>9, <1>10, <1>11, <1>12, <1>13, <1>14, <1>15, <1>16,
     <1>17, <1>18, <1>19
     DEF Work

LEMMA NextSizes == CacheUsable /\ Always /\ Sizes /\ [WBNext]_wbVars => Sizes'
<1> SUFFICES ASSUME CacheUsable, Always, Sizes, [WBNext]_wbVars PROVE Sizes'  OBVIOUS
<1>1. ASSUME NEW r \in Releasers, Detached(r) PROVE Sizes'
  <2>1. wc \in [Pages -> Nat]  BY DEF Always, Types, DataTypeOK
  <2>2. wc' = wc
    BY <1>1, <2>1, WalkFindsNothing
       DEF Detached, DetachedDelete, DetachedRelease, WriteCacheDelete, cacheVars
  <2>3. UNCHANGED <<job, op, filled>>
    BY <1>1 DEF Detached, DetachedDelete, DetachedRelease, LockHeld, lockVars, histVars,
                Releaser, ReleaserFind, ReleaserStore, ReleaserErase
  <2> QED BY <2>2, <2>3, StillSizes
<1>2. CASE UNCHANGED wbVars
  <2>1. UNCHANGED <<job, op, wc, filled>>
    BY <1>2 DEF wbVars, vars, lockVars, cacheVars, histVars
  <2> QED BY <2>1, StillSizes
<1> QED BY <1>1, <1>2, StartSizes, WorkSizes DEF WBNext

\* The write cache outgrows the safe size only by what the Puts that passed the
\* check before any of them wrote add, and by the pages that growing a file
\* puts there without asking: whatever the number of users and the sizes.
THEOREM WriteCacheIsBounded == ASSUME CacheUsable PROVE WBSpec => []WriteCacheBounded
<1>1. Sizes => WriteCacheBounded
  <2> SUFFICES ASSUME Sizes PROVE WriteCacheBounded  OBVIOUS
  <2> DEFINE R == RealPageSize
             room == Cardinality(Users) * MaxLen
             B == Cardinality(Brought)
             F == Cardinality(filled)
             C == Cardinality(Cached)
             K == Cardinality(Coming)
  <2>1. /\ R \in Nat /\ SafeSize \in Nat /\ Cardinality(Users) \in Nat /\ B \in Nat
        /\ F \in Nat /\ C \in Nat /\ C <= B + F /\ K \in Nat
    BY SizesFinite DEF Sizes
  <2>2. room \in Nat  BY <2>1, LongestPut
  <2>3. (B + K) * R < SafeSize + room * R  BY DEF Sizes
  <2> HIDE DEF R, room, B, F, C, K
  <2>4. C * R <= (B + F) * R /\ C * R \in Nat /\ (B + F) * R \in Nat
    BY <2>1, Product
  <2>5. B * R <= (B + K) * R /\ B * R \in Nat /\ (B + K) * R \in Nat  BY <2>1, Product
  <2>6. (B + F) * R = B * R + F * R  BY <2>1
  <2>7. (room + F) * R = room * R + F * R /\ room * R \in Nat /\ F * R \in Nat
    BY <2>1, <2>2
  <2>8. C * R < SafeSize + (room + F) * R
    BY <2>1, <2>3, <2>4, <2>5, <2>6, <2>7
  <2> QED BY <2>8 DEF WriteCacheBounded, GetCacheSize, R, room, F, C, MaxLen
<1>2. WBInit => Always /\ Sizes  BY InitAlways, InitSizes
<1>3. Always /\ Sizes /\ [WBNext]_wbVars => (Always /\ Sizes)'  BY NextAlways, NextSizes
<1> QED BY <1>1, <1>2, <1>3, PTL DEF WBSpec

------------------------------------------------------------------------------
(* The workers of an open file (FdUpload): what its counts say of the pool. *)
Counts(i) ==
    /\ DOMAIN i = DOMAIN NoUpload
    /\ i.instruct \in Nat /\ i.completed \in Nat /\ i.sem \in Nat /\ i.made \in Nat

Unfinished(T, f) == {t \in T : t.fd = f /\ t.at # "done"}
Finished(T, f) == {t \in T : t.fd = f /\ t.at = "done"}

\* Parts as the plans make them, with no tag yet.
IsNew(P) == IsFiniteSet(P) /\ \A p \in P : p = part(p.start, p.size, p.num, <<>>)

\* Instructions that are counted are in the pool; a completion that is counted is
\* posted or will be.  No two instructions of a handle are for one part.
Counted(T, F, f) ==
    /\ F[f].instruct <= Cardinality(Unfinished(T, f))
    /\ F[f].completed <= F[f].sem + Cardinality(Finished(T, f))

Known(T, F) ==
    /\ IsFiniteSet(T)
    /\ \A t \in T : /\ DOMAIN t = {"fd", "id", "part", "copy", "at"} /\ t.fd \in Fds
                    /\ t.part.tag \in Nat /\ t.part.tag <= F[t.fd].made
    /\ \A t, u \in T : t.fd = u.fd /\ t.part = u.part => t = u

PoolInv(T, F) ==
    /\ DOMAIN F = Fds /\ \A f \in Fds : Counts(F[f]) /\ Counted(T, F, f)
    /\ Known(T, F)

\* A flush that is about to wait has something to wait for.
FlushInv ==
    flush # NoFlush =>
        /\ DOMAIN flush = {"fd", "at", "then", "up", "copy"} /\ flush.fd \in Fds
        /\ IsNew(flush.up) /\ IsNew(flush.copy)
        /\ flush.at = "sem" => ~NoneLeft(fdi[flush.fd])

FdInv == mode \in Modes /\ PoolInv(tasks, fdi) /\ FlushInv

------------------------------------------------------------------------------
(* What the operations on a world leave of the counts.                      *)
Kept(j, i) ==
    /\ DOMAIN j = DOMAIN NoUpload /\ j.sem = i.sem /\ j.made = i.made
    /\ j.instruct \in {i.instruct, 0} /\ j.completed \in {i.completed, 0}

World0(w) ==
    DOMAIN w = {"e", "i", "obj", "parts", "odd", "fail", "res"} /\ DOMAIN w.i = DOMAIN NoUpload

Goes(v, w) == World0(w) => World0(v) /\ Kept(v.i, w.i)

\* Goes is reflexive and transitive.
LEMMA GoesAlong ==
    /\ \A w : Goes(w, w)
    /\ \A u, v, w : Goes(v, w) /\ Goes(u, v) => Goes(u, w)
<1>1. \A w : Goes(w, w)  BY DEF Goes, Kept, World0
<1>2. \A u, v, w : Goes(v, w) /\ Goes(u, v) => Goes(u, w)  BY DEF Goes, Kept
<1> QED BY <1>1, <1>2

\* An operation that leaves the handle alone.
LEMMA SameHandle ==
    ASSUME NEW w, NEW v, World0(w) => DOMAIN v = DOMAIN w /\ v.i = w.i
    PROVE  Goes(v, w)
BY DEF Goes, Kept, World0

LEMMA EIOGoes == \A w : Goes(EIO(w), w)
BY SameHandle DEF EIO, World0

LEMMA LoadGoes ==
    \A w, start, size, modified : Goes(Load(w, start, size, modified), w)
<1>1. ASSUME NEW w, NEW v PROVE Goes(Loaded(w, v), w)  BY SameHandle DEF Loaded, World0
<1> QED BY <1>1 DEF Load

LEMMA LoadedGoes == \A w, v : Goes(Loaded(w, v), w)
BY SameHandle DEF Loaded, World0

LEMMA ReserveGoes == \A w : Goes(ReserveDiskSpace(w), w)
BY SameHandle DEF ReserveDiskSpace, World0

\* Forgetting an upload, and a new upload id.
LEMMA ResetKeeps ==
    ASSUME NEW i, DOMAIN i = DOMAIN NoUpload
    PROVE  Kept(ResetUploadInfo(i), i) /\ Kept(InitialUploadInfo(i), i)
BY DEF Kept, ResetUploadInfo, InitialUploadInfo, NoUpload

\* An operation that changes the list of parts.
LEMMA NewList ==
    ASSUME NEW w, NEW v, NEW x, World0(w) => DOMAIN v = DOMAIN w /\ v.i = [w.i EXCEPT !.list = x]
    PROVE  Goes(v, w)
BY DEF Goes, Kept, World0, NoUpload

LEMMA ResetGoes ==
    ASSUME NEW w, NEW v,
           World0(w) => DOMAIN v = DOMAIN w /\ v.i \in {ResetUploadInfo(w.i), InitialUploadInfo(w.i)}
    PROVE  Goes(v, w)
BY ResetKeeps DEF Goes, Kept, World0

\* The first request of an upload without a cache.
LEMMA NoCachePreGoes == \A w : Goes(NoCachePreMultipartPost(w), w)
<1> TAKE w
<1> DEFINE reset == [w EXCEPT !.i = ResetUploadInfo(@)]
           v == NoCachePreMultipartPost(w)
<1>1. Goes(reset, w)
  <2>1. World0(w) => DOMAIN reset = DOMAIN w /\ reset.i = ResetUploadInfo(w.i)  BY DEF World0
  <2> QED BY <2>1, ResetGoes
<1>2. Goes(v, reset)
  <2>1. CASE w.fail = "pre"
    <3>1. v = EIO(reset)  BY <2>1 DEF NoCachePreMultipartPost
    <3> QED BY <3>1, EIOGoes
  <2>2. CASE w.fail # "pre"
    <3>1. World0(reset) => DOMAIN v = DOMAIN reset /\ v.i = InitialUploadInfo(reset.i)
      BY <2>2 DEF NoCachePreMultipartPost, World0
    <3> QED BY <3>1, ResetGoes
  <2> QED BY <2>1, <2>2
<1> QED BY <1>1, <1>2, GoesAlong

\* A part posted without a cache.
LEMMA NoCachePostGoes ==
    \A w, data, start, size : Goes(NoCacheMultipartPost(w, data, start, size), w)
<1> TAKE w, data, start, size
<1> DEFINE v == NoCacheMultipartPost(w, data, start, size)
<1>1. v = w \/ v = EIO(w) \/ \E x : World0(w) => DOMAIN v = DOMAIN w /\ v.i = [w.i EXCEPT !.list = x]
  BY DEF NoCacheMultipartPost, World0
<1> HIDE DEF v
<1>2. ASSUME NEW x, World0(w) => DOMAIN v = DOMAIN w /\ v.i = [w.i EXCEPT !.list = x]
      PROVE  Goes(v, w)
  BY <1>2, NewList
<1>3. Goes(v, w)  BY <1>1, <1>2, EIOGoes, GoesAlong
<1> QED BY <1>3 DEF v

LEMMA NoCacheLoadAndPostGoes == \A w, size : Goes(NoCacheLoadAndPost(w, size), w)
<1>1. ASSUME NEW w, NEW size PROVE Goes(NoCacheLoaded(w, size), w)
  BY SameHandle DEF NoCacheLoaded, World0
<1>2. ASSUME NEW w, NEW size PROVE Goes(NoCacheLoadAndPost(w, size), w)
  <2> DEFINE a == PostPages(w, size)
             v == [w EXCEPT !.i.list = a.i.list, !.parts = a.parts, !.res = a.res]
  <2>1. World0(w) => DOMAIN v = DOMAIN w /\ v.i = [w.i EXCEPT !.list = a.i.list]  BY DEF World0
  <2>2. Goes(v, w)  BY <2>1, NewList
  <2>3. NoCacheLoadAndPost(w, size) = NoCacheLoaded(v, size)  BY DEF NoCacheLoadAndPost
  <2> QED BY <1>1, <2>2, <2>3, GoesAlong
<1> QED BY <1>2

LEMMA NoCacheCompleteGoes == \A w : Goes(NoCacheCompleteMultipartPost(w), w)
<1> TAKE w
<1> DEFINE v == NoCacheCompleteMultipartPost(w)
<1>1. v = w \/ v = EIO(w) \/ (World0(w) => DOMAIN v = DOMAIN w /\ v.i = ResetUploadInfo(w.i))
  BY DEF NoCacheCompleteMultipartPost, World0
<1> QED BY <1>1, ResetGoes, EIOGoes, GoesAlong

LEMMA PendingGoes == \A w : Goes(UploadPending(w), w)
<1> TAKE w
<1>1. \/ UploadPending(w) = w \/ UploadPending(w) = EIO(w)
      \/ World0(w) => DOMAIN UploadPending(w) = DOMAIN w /\ UploadPending(w).i = w.i
  BY DEF UploadPending, World0
<1> QED BY <1>1, SameHandle, EIOGoes, GoesAlong

LEMMA PostLastGoes == \A w, min_size, x : Goes(PostLastUntreated(w, min_size, x), w)
<1>1. ASSUME NEW w, NEW a, NEW x PROVE Goes(Posted(w, a, x), w)
  <2>1. World0(w) => DOMAIN Posted(w, a, x) = DOMAIN w /\ Posted(w, a, x).i = w.i
    BY DEF Posted, World0
  <2> QED BY <2>1, SameHandle
<1>2. ASSUME NEW w, NEW a, NEW x PROVE Goes(PostArea(w, a, x), w)
  BY <1>1, NoCachePostGoes, GoesAlong DEF PostArea
<1> QED BY <1>2, GoesAlong DEF PostLastUntreated

------------------------------------------------------------------------------
(* Write.                                                                   *)
LEMMA GrowGoes == \A w, start : Goes(Grow(w, start), w)
<1> TAKE w, start
<1>1. World0(w) => DOMAIN Grow(w, start) = DOMAIN w /\ Grow(w, start).i = w.i  BY DEF Grow, World0
<1> QED BY <1>1, SameHandle

LEMMA WriteDataGoes == \A w, start, size, v : Goes(WriteData(w, start, size, v), w)
<1> TAKE w, start, size, v
<1>1. World0(w) => /\ DOMAIN WriteData(w, start, size, v) = DOMAIN w
                   /\ WriteData(w, start, size, v).i = w.i
  BY DEF WriteData, World0
<1> QED BY <1>1, SameHandle

LEMMA LoadsGo ==
    /\ \A w, pos : Goes(LoadBehind(w, pos), w)
    /\ \A w, pos : Goes(LoadBefore(w, pos), w)
    /\ \A w : Goes(LoadAll(w), w)
BY LoadGoes, GoesAlong DEF LoadBehind, LoadBefore, LoadAll

LEMMA StartNoCacheGoes == \A w, size : Goes(StartNoCache(w, size), w)
<1>1. ASSUME NEW w PROVE Goes(AllTreated(w), w)
  <2>1. World0(w) => DOMAIN AllTreated(w) = DOMAIN w /\ AllTreated(w).i = w.i
    BY DEF AllTreated, ClearAllUntreated, World0
  <2> QED BY <2>1, SameHandle
<1> QED BY <1>1, NoCacheLoadAndPostGoes, GoesAlong DEF StartNoCache

\* After an error of the disk, with the result cleared.
LEMMA TryNoCacheGoes == \A w : Goes(NoCachePreMultipartPost([w EXCEPT !.res = 0]), w)
<1> TAKE w
<1>1. Goes([w EXCEPT !.res = 0], w)  BY SameHandle DEF World0
<1> QED BY <1>1, NoCachePreGoes, GoesAlong

LEMMA SwitchGoes == \A w, start, size : Goes(SwitchToNoCache(w, start, size), w)
BY TryNoCacheGoes, StartNoCacheGoes, GoesAlong DEF SwitchToNoCache

LEMMA WriteHereGoes ==
    ASSUME mode \in ModeNames \ Streams
    PROVE  \A w, start, size, v : Goes(WriteHere(w, start, size, v), w)
<1> TAKE w, start, size, v
<1>1. Goes(WriteNoMultipart(w, start, size, v), w)
  BY EIOGoes, ReserveGoes, LoadsGo, WriteDataGoes, GoesAlong DEF WriteNoMultipart
<1>2. \A u : Goes(PostWritten(u), u)  BY PostLastGoes, GoesAlong DEF PostWritten
<1>3. Goes(WriteMultipart(w, start, size, v), w)
  <2>1. \A u : Goes(ReadyMultipart(u, start, size), u)
    BY LoadsGo, SwitchGoes DEF ReadyMultipart
  <2> DEFINE u == IF IsUploading(w.i) THEN w ELSE ReadyMultipart(ReserveDiskSpace(w), start, size)
  <2>2. Goes(u, w)  BY <2>1, ReserveGoes, GoesAlong
  <2>3. WriteMultipart(w, start, size, v) = PostWritten(LoadBehind(WriteData(u, start, size, v), start + size))
    BY DEF WriteMultipart
  <2> HIDE DEF u
  <2> QED BY <1>2, <2>2, <2>3, LoadsGo, WriteDataGoes, GoesAlong
<1>4. Goes(WriteMixMultipart(w, start, size, v), w)
  <2>1. \A u : Goes(ReadyMix(u, start, size), u)
    BY SwitchGoes, GoesAlong DEF ReadyMix
  <2> DEFINE u == IF IsUploading(w.i) THEN w ELSE ReadyMix(ReserveDiskSpace(w), start, size)
  <2>2. Goes(u, w)  BY <2>1, ReserveGoes, GoesAlong
  <2>3. WriteMixMultipart(w, start, size, v) = PostWritten(WriteData(u, start, size, v))
    BY DEF WriteMixMultipart
  <2> HIDE DEF u
  <2> QED BY <1>2, <2>2, <2>3, WriteDataGoes, GoesAlong
<1> QED BY <1>1, <1>3, <1>4 DEF WriteHere, ModeNames, Streams

------------------------------------------------------------------------------
(* RowFlush.                                                                *)
LEMMA PutGoes == \A w, size : Goes(PutWhole(w, size), w)
<1>1. ASSUME NEW w PROVE Goes(PutRequest(w), w)
  BY EIOGoes, SameHandle DEF PutRequest, World0
<1>2. ASSUME NEW w, NEW size PROVE Goes(ResetSize(w, size), w)
  BY SameHandle DEF ResetSize, ClearAllUntreated, World0
<1> QED BY <1>1, <1>2, GoesAlong DEF PutWhole

LEMMA DoneGoes ==
    /\ \A w : Goes(FlushDone(w), w)
    /\ \A w : Goes(MetaDone(w), w)
BY SameHandle, GoesAlong DEF FlushDone, MetaDone, Uploaded, World0

LEMMA MixGoes == \A w, plan : Goes(FlushMixPlan(w, plan), w)
<1>1. ASSUME NEW w, NEW list PROVE Goes(CompleteMix(w, list), w)
  BY EIOGoes, SameHandle DEF CompleteMix, World0
<1>2. ASSUME NEW w, NEW pages PROVE Goes(ParallelMixMultipartUploadRequest(w, pages), w)
  BY <1>1, EIOGoes DEF ParallelMixMultipartUploadRequest
<1>3. ASSUME NEW w, NEW size PROVE Goes(ResetSize(w, size), w)
  BY SameHandle DEF ResetSize, ClearAllUntreated, World0
<1>4. ASSUME NEW w, NEW pages, NEW size PROVE Goes(PutParts(w, pages, size), w)
  BY <1>2, <1>3, GoesAlong DEF PutParts
<1> QED BY <1>4, LoadedGoes, GoesAlong DEF FlushMixPlan

LEMMA RowFlushGoes ==
    ASSUME mode \in ModeNames
    PROVE  \A w, force_sync : Goes(FdRowFlush(w, force_sync), w)
<1>0. \A w, x : Goes(IF x THEN ReserveDiskSpace(w) ELSE w, w)  BY ReserveGoes, GoesAlong
<1>1. ASSUME NEW w PROVE Goes(RowFlushNoMultipart(w), w)
  BY <1>0, EIOGoes, LoadsGo, PutGoes, DoneGoes, GoesAlong DEF RowFlushNoMultipart
<1>2. ASSUME NEW w PROVE Goes(FlushNoCache(w), w)
  BY PostLastGoes, NoCacheCompleteGoes, PendingGoes, GoesAlong DEF FlushNoCache
<1>3. ASSUME NEW w PROVE Goes(FlushLocal(w), w)
  <2>1. Goes(NoRoom(w), w)  BY TryNoCacheGoes, StartNoCacheGoes, GoesAlong DEF NoRoom
  <2>2. Goes(PutWhole(LoadAll(w), Len(w.e.phys)), w)  BY LoadsGo, PutGoes, GoesAlong
  <2> QED BY <2>1, <2>2, MixGoes DEF FlushLocal
<1>4. ASSUME NEW w PROVE Goes(RowFlushMultipart(w), w)
  BY <1>0, <1>2, <1>3, DoneGoes, GoesAlong DEF RowFlushMultipart
<1>5. ASSUME NEW w PROVE Goes(RowFlushStreamSmall(w), w)
  <2> DEFINE u == [w EXCEPT !.odd = IF \E f \in Fds : IsUploading(fdi[f]) THEN @ \cup {"stale_parts"} ELSE @]
  <2>1. Goes(u, w)
    <3>1. World0(w) => DOMAIN u = DOMAIN w /\ u.i = w.i  BY DEF World0
    <3> QED BY <3>1, SameHandle
  <2>2. RowFlushStreamSmall(w) = FlushDone(PutWhole(LoadAll(u), Len(w.e.phys)))
    BY DEF RowFlushStreamSmall
  <2> HIDE DEF u
  <2> QED BY <2>1, <2>2, LoadsGo, PutGoes, DoneGoes, GoesAlong
<1> QED BY <1>1, <1>4, <1>5, PendingGoes DEF FdRowFlush

LEMMA PreGoes == \A w : Goes(PreMultipartPost(w), w)
<1> TAKE w
<1> DEFINE v == PreMultipartPost(w)
<1>1. v = w \/ v = EIO(w) \/ (World0(w) => DOMAIN v = DOMAIN w /\ v.i = InitialUploadInfo(w.i))
  BY DEF PreMultipartPost, World0
<1> QED BY <1>1, ResetGoes, EIOGoes, GoesAlong

LEMMA DownloadGoes == \A w, down : Goes(Download(w, down), w)
BY LoadedGoes DEF Download

LEMMA CompletedGoes == \A w, sent : Goes(Completed(w, sent), w)
<1> TAKE w, sent
<1> DEFINE u == [w EXCEPT !.odd = IF w.e.size_orgmeta < Len(w.obj) THEN @ \cup {"size_orgmeta"} ELSE @]
<1>1. Goes(u, w)
  <2>1. World0(w) => DOMAIN u = DOMAIN w /\ u.i = w.i  BY DEF World0
  <2> QED BY <2>1, SameHandle
<1>2. Completed(w, sent) \in {EIO(w), FlushDone(UploadPending(u))}  BY DEF Completed
<1> HIDE DEF u
<1> QED BY <1>1, <1>2, EIOGoes, PendingGoes, DoneGoes, GoesAlong

------------------------------------------------------------------------------
(* What an operation leaves of a handle, and the parts it hands over.       *)

\* The state after an operation, and the handle the parts are tagged for.
Handed(r, i) ==
    /\ IsNew(r.up) /\ Kept(r.from, i)
    /\ r.w.i = ParallelMultipartUpload(r.from, r.up) \/ (r.up = {} /\ Kept(r.w.i, i))

\* A part for each element of a finite set.
LEMMA NewParts ==
    ASSUME NEW S, IsFiniteSet(S), NEW m,
           \A k \in S : m[k] = part(m[k].start, m[k].size, m[k].num, <<>>)
    PROVE  IsNew({m[k] : k \in S})
<1> DEFINE P == {m[k] : k \in S}
           g == [k \in S |-> m[k]]
<1>1. IsFiniteSet(P)
  <2>1. g \in Surjection(S, P)  BY DEF Surjection
  <2> QED BY <2>1, FS_Surjection
<1> QED BY <1>1 DEF IsNew

LEMMA NoParts == IsNew({})
BY FS_EmptySet DEF IsNew

LEMMA HandOverOk ==
    ASSUME mode \in Modes, NEW w, World0(w)
    PROVE  Handed(UploadBoundaryLastUntreatedArea(w), w.i)
<1>1. \A u : Goes(u, w) => Handed([w |-> u, from |-> u.i, up |-> {}], w.i)
  BY NoParts DEF Handed, Goes
<1>2. Handed([w |-> w, from |-> w.i, up |-> {}], w.i)  BY <1>1, GoesAlong
<1>3. ASSUME NEW a PROVE Handed(UploadArea(w, a), w.i)
  <2> DEFINE aligned == ((a.start + MultipartSize - 1) \div MultipartSize) * MultipartSize
             size == ((stop(a) - aligned) \div MultipartSize) * MultipartSize
             plan == ExtractUploadPartsFromUntreatedArea(w.i, aligned, size)
             v == PreMultipartPost([w EXCEPT !.i.list = plan.keep])
             r == HandToPool(v, a, aligned, size, plan.up)
  <2>1. UploadArea(w, a) \in {[w |-> w, from |-> w.i, up |-> {}], r}  BY DEF UploadArea
  <2>2. IsNew(plan.up)
    <3> DEFINE end == Max({aligned + size} \cup {p.start + p.size : p \in {q \in w.i.list : InArea(q, aligned, size)}})
               whole == {k \in 1 .. MaxSize[mode] : aligned + k * MultipartSize <= end}
    <3>1. plan.up = {part(aligned + (k - 1) * MultipartSize, MultipartSize, PartNum(aligned) + k - 1, <<>>) : k \in whole}
      BY DEF ExtractUploadPartsFromUntreatedArea
    <3>2. IsFiniteSet(whole)
      <4>1. MaxSize[mode] \in Nat  BY FdUploadAssumption
      <4>2. IsFiniteSet(1 .. MaxSize[mode])  BY <4>1, FS_Interval
      <4> QED BY <4>2, FS_Subset
    <3> HIDE DEF whole
    <3> DEFINE m == [k \in whole |-> part(aligned + (k - 1) * MultipartSize, MultipartSize, PartNum(aligned) + k - 1, <<>>)]
    <3>3. plan.up = {m[k] : k \in whole}  BY <3>1
    <3>4. \A k \in whole : m[k] = part(m[k].start, m[k].size, m[k].num, <<>>)  BY DEF part
    <3> HIDE DEF m
    <3> QED BY <3>2, <3>3, <3>4, NewParts
  <2>3. Goes(v, w)
    <3> DEFINE u == [w EXCEPT !.i.list = plan.keep]
    <3>1. World0(w) => DOMAIN u = DOMAIN w /\ u.i = [w.i EXCEPT !.list = plan.keep]
      BY DEF World0
    <3>2. Goes(u, w)
      <4> HIDE DEF u, plan
      <4> QED BY <3>1, NewList
    <3> HIDE DEF u
    <3> QED BY <3>2, PreGoes, GoesAlong DEF u
  <2> HIDE DEF v, plan, size, aligned
  <2>4. Handed(r, w.i)
    <3>1. CASE ~ok(v)
      <4>1. r = [w |-> v, from |-> v.i, up |-> {}]  BY <3>1 DEF HandToPool
      <4> QED BY <1>1, <2>3, <4>1
    <3>2. CASE ok(v)
      <4>1. /\ r.from = v.i /\ r.up = plan.up
            /\ World0(v) => r.w.i = ParallelMultipartUpload(v.i, plan.up)
        BY <3>2 DEF HandToPool, World0
      <4> QED BY <2>2, <2>3, <4>1 DEF Handed, Goes
    <3> QED BY <3>1, <3>2
  <2> HIDE DEF r
  <2> QED BY <1>2, <2>1, <2>4
<1> QED BY <1>2, <1>3 DEF UploadBoundaryLastUntreatedArea

LEMMA WriteOk ==
    ASSUME mode \in Modes, NEW w, World0(w), NEW start, NEW size, NEW v
    PROVE  Handed(DoWrite(w, start, size, v), w.i)
<1>0. mode \in ModeNames  BY FdUploadAssumption
<1>1. CASE mode \in Streams
  <2> DEFINE u == WriteData(w, start, size, v)
  <2>1. World0(u) /\ Kept(u.i, w.i)  BY WriteDataGoes DEF Goes
  <2>2. DoWrite(w, start, size, v) = UploadBoundaryLastUntreatedArea(u)
    BY <1>1 DEF DoWrite, WriteStreamUpload
  <2> HIDE DEF u
  <2> DEFINE r == UploadBoundaryLastUntreatedArea(u)
  <2>3. Handed(r, u.i)  BY <2>1, HandOverOk
  <2> HIDE DEF r
  <2>4. Handed(r, w.i)  BY <2>1, <2>3 DEF Handed, Kept
  <2> QED BY <2>2, <2>4 DEF r
<1>2. CASE mode \notin Streams
  <2> DEFINE u == WriteHere(w, start, size, v)
  <2>1. Goes(u, w)  BY <1>0, <1>2, WriteHereGoes
  <2>2. DoWrite(w, start, size, v) = [w |-> u, from |-> u.i, up |-> {}]
    BY <1>2 DEF DoWrite, Alone
  <2> QED BY <2>1, <2>2, NoParts DEF Handed, Goes
<1> QED BY <1>1, <1>2

\* The plan of a stream flush.
LEMMA PlanOk ==
    ASSUME mode \in Modes, NEW w
    PROVE  LET plan == ExtractUploadPartsFromAllArea(w) IN IsNew(plan.up) /\ IsNew(plan.copy)
<1> DEFINE plan == ExtractUploadPartsFromAllArea(w)
           areas == Areas(w)
           again == {k \in areas : Written(w, k) /\ Sent(w, k)}
           new == {k \in areas : ~Sent(w, k) /\ ~Copied(w, k)}
           copied == {j \in areas : Copied(w, j)}
<1>1. IsFiniteSet(areas)
  <2>1. MaxSize[mode] \in Nat  BY FdUploadAssumption
  <2>2. IsFiniteSet(1 .. MaxSize[mode]) /\ areas \subseteq 1 .. MaxSize[mode]
    BY <2>1, FS_Interval DEF Areas
  <2> QED BY <2>2, FS_Subset
<1>2. IsFiniteSet(again \cup new) /\ IsFiniteSet(copied)
  <2>1. again \cup new \subseteq areas /\ copied \subseteq areas  OBVIOUS
  <2> HIDE DEF areas, again, new, copied
  <2> QED BY <1>1, <2>1, FS_Subset
<1>3. /\ plan.up = {part(AreaStart(k) + Joining(w, k), AreaSize(w, k) - Joining(w, k), k, <<>>) : k \in again \cup new}
      /\ plan.copy = {part(AreaStart(k), AreaSize(w, k) + Joining(w, k + 1), k, <<>>) : k \in copied}
  BY DEF ExtractUploadPartsFromAllArea
<1> HIDE DEF plan, again, new, copied
<1> DEFINE S == again \cup new
           m == [k \in S |-> part(AreaStart(k) + Joining(w, k), AreaSize(w, k) - Joining(w, k), k, <<>>)]
           c == [k \in copied |-> part(AreaStart(k), AreaSize(w, k) + Joining(w, k + 1), k, <<>>)]
<1>4. IsNew(plan.up)
  <2>1. plan.up = {m[k] : k \in S}  BY <1>3
  <2>2. \A k \in S : m[k] = part(m[k].start, m[k].size, m[k].num, <<>>)  BY DEF part
  <2> HIDE DEF m, S
  <2> QED BY <1>2, <2>1, <2>2, NewParts DEF S
<1>5. IsNew(plan.copy)
  <2>1. plan.copy = {c[k] : k \in copied}  BY <1>3
  <2>2. \A k \in copied : c[k] = part(c[k].start, c[k].size, c[k].num, <<>>)  BY DEF part
  <2> HIDE DEF c
  <2> QED BY <1>2, <2>1, <2>2, NewParts
<1> QED BY <1>4, <1>5 DEF plan

------------------------------------------------------------------------------
(* The pool.                                                                *)

\* A finite set and its parts by handle.
LEMMA PoolSets ==
    ASSUME NEW T, IsFiniteSet(T), NEW f
    PROVE  /\ IsFiniteSet(Unfinished(T, f)) /\ Cardinality(Unfinished(T, f)) \in Nat
           /\ IsFiniteSet(Finished(T, f)) /\ Cardinality(Finished(T, f)) \in Nat
<1>1. Unfinished(T, f) \subseteq T /\ Finished(T, f) \subseteq T  BY DEF Unfinished, Finished
<1> QED BY <1>1, FS_Subset, FS_CardinalityType

\* An operation that starts no worker.
LEMMA PoolKept ==
    ASSUME NEW T, NEW F, PoolInv(T, F), NEW f \in Fds, NEW j, Kept(j, F[f])
    PROVE  PoolInv(T, [F EXCEPT ![f] = j])
<1> DEFINE G == [F EXCEPT ![f] = j]
<1>1. DOMAIN G = Fds /\ G[f] = j /\ \A g \in Fds : g # f => G[g] = F[g]  BY DEF PoolInv
<1>2. \A g \in Fds : Counts(F[g]) /\ Counted(T, F, g)  BY DEF PoolInv
<1>3. \A g \in Fds : G[g].made = F[g].made  BY <1>1 DEF Kept
<1>4. Known(T, F)  BY DEF PoolInv
<1> HIDE DEF G
<1>5. Counts(j)
  <2>1. Counts(F[f])  BY <1>2
  <2> QED BY <2>1 DEF Counts, Kept
<1>6. Counted(T, G, f)
  <2>1. Counts(F[f]) /\ Counted(T, F, f)  BY <1>2
  <2>2. Cardinality(Unfinished(T, f)) \in Nat /\ Cardinality(Finished(T, f)) \in Nat
    BY <1>4, PoolSets DEF Known
  <2> QED BY <1>1, <2>1, <2>2 DEF Counted, Counts, Kept
<1>7. \A g \in Fds : Counts(G[g]) /\ Counted(T, G, g)
  BY <1>1, <1>2, <1>5, <1>6 DEF Counted
<1>8. Known(T, G)  BY <1>3, <1>4 DEF Known
<1> QED BY <1>1, <1>7, <1>8 DEF PoolInv, G

\* Instructions for new parts are new, and as many as the parts.
LEMMA NewInstructions ==
    ASSUME NEW P, IsNew(P), NEW f, NEW i, i.made \in Nat, NEW copy
    PROVE  LET N == Instructions(f, i, P, copy)
           IN  /\ IsFiniteSet(N) /\ Cardinality(N) = Cardinality(P)
               /\ \A t \in N : /\ DOMAIN t = {"fd", "id", "part", "copy", "at"} /\ t.fd = f
                               /\ t.part.tag = i.made + 1 /\ t.at = "queued"
               /\ \A t, u \in N : t.part = u.part => t = u
<1> DEFINE N == Instructions(f, i, P, copy)
           ins(p) == [fd |-> f, id |-> i.id, part |-> [p EXCEPT !.tag = i.made + 1], copy |-> copy, at |-> "queued"]
           m == [p \in P |-> ins(p)]
<1>1. N = {ins(p) : p \in P}  BY DEF Instructions, Tagged
<1>2. \A p, q \in P : ins(p) = ins(q) => p = q
  <2> TAKE p, q \in P
  <2>1. p = part(p.start, p.size, p.num, <<>>) /\ q = part(q.start, q.size, q.num, <<>>)  BY DEF IsNew
  <2> HAVE ins(p) = ins(q)
  <2>2. [p EXCEPT !.tag = i.made + 1] = [q EXCEPT !.tag = i.made + 1]  OBVIOUS
  <2>3. p.start = q.start /\ p.size = q.size /\ p.num = q.num  BY <2>1, <2>2 DEF part
  <2> QED BY <2>1, <2>3
<1>3. m \in Bijection(P, N)
  <2>1. m \in [P -> N] /\ \A t \in N : \E p \in P : m[p] = t  BY <1>1
  <2>2. \A p, q \in P : m[p] = m[q] => p = q  BY <1>2
  <2> HIDE DEF m, N
  <2> QED BY <2>1, <2>2 DEF Bijection, Injection, Surjection, IsInjective
<1>4. IsFiniteSet(N) /\ Cardinality(N) = Cardinality(P)
  <2> HIDE DEF m, N
  <2> QED BY <1>3, FS_Bijection, FS_SameCardinalityBij, FS_Surjection DEF IsNew, ExistsBijection, Bijection
<1>5. \A t \in N : /\ DOMAIN t = {"fd", "id", "part", "copy", "at"} /\ t.fd = f
                   /\ t.part.tag = i.made + 1 /\ t.at = "queued"
  <2> TAKE t \in N
  <2>1. PICK p \in P : t = ins(p)  BY <1>1
  <2>2. p = part(p.start, p.size, p.num, <<>>)  BY DEF IsNew
  <2>3. [p EXCEPT !.tag = i.made + 1].tag = i.made + 1  BY <2>2 DEF part
  <2> QED BY <2>1, <2>3
<1>6. \A t, u \in N : t.part = u.part => t = u  BY <1>1
<1> QED BY <1>4, <1>5, <1>6

\* Parts are listed and given to the pool.
LEMMA PoolGrows ==
    ASSUME NEW T, NEW F, PoolInv(T, F), NEW f \in Fds, NEW i, Kept(i, F[f]),
           NEW P, IsNew(P), NEW copy
    PROVE  PoolInv(T \cup Instructions(f, i, P, copy),
                   [F EXCEPT ![f] = ParallelMultipartUpload(i, P)])
<1> DEFINE N == Instructions(f, i, P, copy)
           U == T \cup N
           j == ParallelMultipartUpload(i, P)
           G == [F EXCEPT ![f] = j]
<1>1. DOMAIN G = Fds /\ G[f] = j /\ \A g \in Fds : g # f => G[g] = F[g]  BY DEF PoolInv
<1>2. \A g \in Fds : Counts(F[g]) /\ Counted(T, F, g)  BY DEF PoolInv
<1>3. Known(T, F)  BY DEF PoolInv
<1>4. Cardinality(P) \in Nat  BY FS_CardinalityType DEF IsNew
<1>5. /\ i.instruct \in Nat /\ i.completed \in Nat /\ i.sem = F[f].sem /\ i.made = F[f].made
      /\ i.instruct <= F[f].instruct /\ i.completed <= F[f].completed /\ i.made \in Nat /\ i.sem \in Nat
      /\ DOMAIN i = DOMAIN NoUpload
  <2>1. Counts(F[f])  BY <1>2
  <2> QED BY <2>1 DEF Counts, Kept
<1>6. /\ j.instruct = i.instruct + Cardinality(P) /\ j.completed = i.completed
      /\ j.sem = i.sem /\ j.made = i.made + 1 /\ DOMAIN j = DOMAIN NoUpload
  BY <1>5 DEF ParallelMultipartUpload, NoUpload
<1>7. Counts(j)  BY <1>4, <1>5, <1>6 DEF Counts
<1>8. /\ IsFiniteSet(N) /\ Cardinality(N) = Cardinality(P)
      /\ \A t \in N : /\ DOMAIN t = {"fd", "id", "part", "copy", "at"} /\ t.fd = f
                      /\ t.part.tag = i.made + 1 /\ t.at = "queued"
      /\ \A t, u \in N : t.part = u.part => t = u
  BY <1>5, NewInstructions
<1> HIDE DEF N, j, G
<1>9. \A t \in N : t \notin T /\ \A u \in T : u.fd = f => u.part # t.part
  <2>1. \A t \in N : t.fd = f /\ t.part.tag = F[f].made + 1  BY <1>5, <1>8
  <2>2. \A u \in T : u.fd = f => u.part.tag \in Nat /\ u.part.tag <= F[f].made  BY <1>3 DEF Known
  <2>3. F[f].made \in Nat  BY <1>5
  <2> QED BY <2>1, <2>2, <2>3
<1>10. Counted(U, G, f)
  <2>1. Unfinished(U, f) = Unfinished(T, f) \cup N /\ Finished(U, f) = Finished(T, f)
    BY <1>8 DEF Unfinished, Finished
  <2>2. Unfinished(T, f) \cap N = {}  BY <1>9 DEF Unfinished
  <2>3. /\ IsFiniteSet(Unfinished(T, f)) /\ Cardinality(Unfinished(T, f)) \in Nat
        /\ Cardinality(Finished(T, f)) \in Nat
    BY <1>3, PoolSets DEF Known
  <2>4. Cardinality(Unfinished(U, f)) = Cardinality(Unfinished(T, f)) + Cardinality(N)
    <3>1. Cardinality({}) = 0  BY FS_EmptySet
    <3>2. Cardinality(Unfinished(T, f) \cup N) = Cardinality(Unfinished(T, f)) + Cardinality(N) - Cardinality({})
      BY <1>8, <2>2, <2>3, FS_Union
    <3>3. Cardinality(N) \in Nat  BY <1>4, <1>8
    <3>4. \A a, b : a \in Nat /\ b \in Nat => a + b - 0 = a + b  OBVIOUS
    <3>5. Cardinality(Unfinished(T, f) \cup N) = Cardinality(Unfinished(T, f)) + Cardinality(N)
      BY <2>3, <3>1, <3>2, <3>3, <3>4
    <3> HIDE DEF U
    <3> QED BY <2>1, <3>5
  <2>5. Counted(T, F, f) /\ Counts(F[f])  BY <1>2
  <2> QED BY <1>1, <1>4, <1>5, <1>6, <1>8, <2>1, <2>3, <2>4, <2>5 DEF Counted, Counts
<1>11. ASSUME NEW g \in Fds, g # f PROVE Counts(G[g]) /\ Counted(U, G, g)
  <2>1. Unfinished(U, g) = Unfinished(T, g) /\ Finished(U, g) = Finished(T, g)
    BY <1>8, <1>11 DEF Unfinished, Finished
  <2> QED BY <1>1, <1>2, <1>11, <2>1 DEF Counted
<1>12. Known(U, G)
  <2>1. IsFiniteSet(U)  BY <1>3, <1>8, FS_Union DEF Known
  <2>2. ASSUME NEW t \in U
        PROVE  /\ DOMAIN t = {"fd", "id", "part", "copy", "at"} /\ t.fd \in Fds
               /\ t.part.tag \in Nat /\ t.part.tag <= G[t.fd].made
    <3>1. CASE t \in N  BY <1>1, <1>5, <1>6, <1>8, <3>1
    <3>2. CASE t \in T
      <4>1. /\ DOMAIN t = {"fd", "id", "part", "copy", "at"} /\ t.fd \in Fds
            /\ t.part.tag \in Nat /\ t.part.tag <= F[t.fd].made
        BY <1>3, <3>2 DEF Known
      <4>2. t.fd = f => F[t.fd].made \in Nat /\ G[t.fd].made = F[t.fd].made + 1
        BY <1>1, <1>5, <1>6
      <4> QED BY <1>1, <4>1, <4>2
    <3> QED BY <2>2, <3>1, <3>2
  <2>3. \A t, u \in U : t.fd = u.fd /\ t.part = u.part => t = u
    BY <1>3, <1>8, <1>9 DEF Known
  <2> QED BY <2>1, <2>2, <2>3 DEF Known
<1> QED BY <1>1, <1>7, <1>10, <1>11, <1>12 DEF PoolInv, G, N, j

\* A step that changes the counts and the instructions of one handle only.
LEMMA PoolOfOne ==
    ASSUME NEW T, NEW F, PoolInv(T, F), NEW f \in Fds, NEW j, Counts(j), j.made = F[f].made,
           NEW U, Known(U, F),
           \A g \in Fds \ {f} : Unfinished(U, g) = Unfinished(T, g) /\ Finished(U, g) = Finished(T, g),
           j.instruct <= Cardinality(Unfinished(U, f)),
           j.completed <= j.sem + Cardinality(Finished(U, f))
    PROVE  PoolInv(U, [F EXCEPT ![f] = j])
<1> DEFINE G == [F EXCEPT ![f] = j]
<1>1. DOMAIN G = Fds /\ G[f] = j /\ \A g \in Fds : g # f => G[g] = F[g]  BY DEF PoolInv
<1> HIDE DEF G
<1>2. \A g \in Fds : G[g].made = F[g].made  BY <1>1
<1>3. Known(U, G)  BY <1>2 DEF Known
<1>4. Counts(G[f]) /\ Counted(U, G, f)  BY <1>1 DEF Counted
<1>5. ASSUME NEW g \in Fds \ {f} PROVE Counts(G[g]) /\ Counted(U, G, g)
  <2>1. Counts(F[g]) /\ Counted(T, F, g)  BY DEF PoolInv
  <2> QED BY <1>1, <2>1 DEF Counted
<1> QED BY <1>1, <1>3, <1>4, <1>5 DEF PoolInv, G

\* An instruction that moves on is the same instruction.
Moved(n, t, at) == n = [t EXCEPT !.at = at]

LEMMA KnownMoves ==
    ASSUME NEW T, NEW F, Known(T, F), NEW t \in T, NEW at, NEW n, Moved(n, t, at)
    PROVE  /\ n.fd = t.fd /\ n.part = t.part /\ n.at = at
           /\ n \in T => n = t
           /\ Known((T \ {t}) \cup {n}, F) /\ Known(T \ {t}, F)
<1> DEFINE U == (T \ {t}) \cup {n}
<1>1. DOMAIN t = {"fd", "id", "part", "copy", "at"}  BY DEF Known
<1>2. n.fd = t.fd /\ n.part = t.part /\ n.at = at /\ DOMAIN n = {"fd", "id", "part", "copy", "at"}
  BY <1>1 DEF Moved
<1>3. n \in T => n = t  BY <1>2 DEF Known
<1>4. IsFiniteSet(T \ {t}) /\ IsFiniteSet(U)
  <2>1. IsFiniteSet(T \ {t})  BY FS_RemoveElement DEF Known
  <2> QED BY <2>1, FS_AddElement
<1>5. \A u \in U : /\ DOMAIN u = {"fd", "id", "part", "copy", "at"} /\ u.fd \in Fds
                   /\ u.part.tag \in Nat /\ u.part.tag <= F[u.fd].made
  BY <1>2 DEF Known
<1>6. \A u, v \in U : u.fd = v.fd /\ u.part = v.part => u = v
  BY <1>2 DEF Known
<1>7. Known(U, F)  BY <1>4, <1>5, <1>6 DEF Known
<1>8. Known(T \ {t}, F)  BY <1>4 DEF Known
<1> QED BY <1>2, <1>3, <1>7, <1>8

\* A worker takes an instruction.
LEMMA PoolTakes ==
    ASSUME NEW T, NEW F, PoolInv(T, F), NEW t \in T, t.at = "queued"
    PROVE  PoolInv((T \ {t}) \cup {[t EXCEPT !.at = "sending"]}, F)
<1> DEFINE n == [t EXCEPT !.at = "sending"]
           U == (T \ {t}) \cup {n}
           f == t.fd
<1>1. Known(T, F) /\ f \in Fds  BY DEF PoolInv, Known
<1>at. PICK at : at = "sending"  OBVIOUS
<1>0. Moved(n, t, at)  BY <1>at DEF Moved
<1>fields. n.fd = t.fd /\ n.part = t.part /\ n.at = "sending"  BY <1>1 DEF Known
<1> HIDE DEF n
<1>known. Known(U, F)  BY <1>0, <1>1, KnownMoves
<1>same. n \in T => n = t  BY <1>1, <1>fields DEF Known
<1>2. n.fd = f /\ n.at = "sending" /\ Known(U, F) /\ (n \in T => n = t)  BY <1>fields, <1>known, <1>same
<1>3. \A g \in Fds \ {f} : Unfinished(U, g) = Unfinished(T, g) /\ Finished(U, g) = Finished(T, g)
  BY <1>2 DEF Unfinished, Finished
<1>4. Finished(U, f) = Finished(T, f)  BY <1>2 DEF Finished
<1>5. Unfinished(U, f) = (Unfinished(T, f) \ {t}) \cup {n}  BY <1>2 DEF Unfinished
<1>6. Cardinality(Unfinished(U, f)) = Cardinality(Unfinished(T, f))
  <2>1. IsFiniteSet(Unfinished(T, f)) /\ Cardinality(Unfinished(T, f)) \in Nat
    BY <1>1, PoolSets DEF Known
  <2>2. t \in Unfinished(T, f)  BY DEF Unfinished
  <2>3. n \notin Unfinished(T, f) \ {t}  BY <1>2 DEF Unfinished
  <2> DEFINE R == Unfinished(T, f) \ {t}
  <2>4. IsFiniteSet(R) /\ Cardinality(R) = Cardinality(Unfinished(T, f)) - 1
    BY <2>1, <2>2, FS_RemoveElement
  <2>5. Cardinality(R \cup {n}) = Cardinality(R) + 1  BY <2>3, <2>4, FS_AddElement
  <2>6. Unfinished(U, f) = R \cup {n}  BY <1>5
  <2> HIDE DEF R, U, f
  <2> QED BY <2>1, <2>4, <2>5, <2>6
<1>7. \A g \in Fds : Counts(F[g]) /\ Counted(T, F, g)  BY DEF PoolInv
<1>8. \A g \in Fds : Counted(U, F, g)  BY <1>3, <1>4, <1>6, <1>7 DEF Counted
<1> QED BY <1>2, <1>7, <1>8 DEF PoolInv, n

\* A worker is done with an instruction: it is counted, unless the upload was
\* forgotten.
LEMMA PoolDone ==
    ASSUME NEW T, NEW F, PoolInv(T, F), NEW t \in T, t.at # "done",
           NEW j, DOMAIN j = DOMAIN NoUpload, j.sem = F[t.fd].sem, j.made = F[t.fd].made,
           IF F[t.fd].instruct = 0
           THEN j.instruct = 0 /\ j.completed = F[t.fd].completed
           ELSE j.instruct = F[t.fd].instruct - 1 /\ j.completed = F[t.fd].completed + 1
    PROVE  PoolInv((T \ {t}) \cup {[t EXCEPT !.at = "done"]}, [F EXCEPT ![t.fd] = j])
<1> DEFINE n == [t EXCEPT !.at = "done"]
           U == (T \ {t}) \cup {n}
           f == t.fd
<1>1. Known(T, F) /\ f \in Fds  BY DEF PoolInv, Known
<1>at. PICK at : at = "done"  OBVIOUS
<1>0. Moved(n, t, at)  BY <1>at DEF Moved
<1>fields. n.fd = t.fd /\ n.part = t.part /\ n.at = "done"  BY <1>1 DEF Known
<1> HIDE DEF n
<1>known. Known(U, F)  BY <1>0, <1>1, KnownMoves
<1>same. n \in T => n = t  BY <1>1, <1>fields DEF Known
<1>2. n.fd = f /\ n.at = "done" /\ Known(U, F) /\ (n \in T => n = t)  BY <1>fields, <1>known, <1>same
<1>3. \A g \in Fds \ {f} : Unfinished(U, g) = Unfinished(T, g) /\ Finished(U, g) = Finished(T, g)
  BY <1>2 DEF Unfinished, Finished
<1>4. /\ IsFiniteSet(Unfinished(T, f)) /\ Cardinality(Unfinished(T, f)) \in Nat
      /\ IsFiniteSet(Finished(T, f)) /\ Cardinality(Finished(T, f)) \in Nat
  BY <1>1, PoolSets DEF Known
<1>5. Cardinality(Unfinished(U, f)) = Cardinality(Unfinished(T, f)) - 1
  <2>1. Unfinished(U, f) = Unfinished(T, f) \ {t}  BY <1>2 DEF Unfinished
  <2>2. t \in Unfinished(T, f)  BY DEF Unfinished
  <2> QED BY <1>4, <2>1, <2>2, FS_RemoveElement
<1>6. Cardinality(Finished(U, f)) = Cardinality(Finished(T, f)) + 1
  <2>1. Finished(U, f) = Finished(T, f) \cup {n}  BY <1>2 DEF Finished
  <2>2. n \notin Finished(T, f)  BY <1>2 DEF Finished
  <2> QED BY <1>4, <2>1, <2>2, FS_AddElement
<1>7. Counts(F[f]) /\ Counted(T, F, f)  BY <1>1 DEF PoolInv
<1> HIDE DEF U, f
<1>8. /\ F[f].instruct \in Nat /\ F[f].completed \in Nat /\ F[f].sem \in Nat /\ F[f].made \in Nat
      /\ F[f].instruct <= Cardinality(Unfinished(T, f))
      /\ F[f].completed <= F[f].sem + Cardinality(Finished(T, f))
  BY <1>7 DEF Counts, Counted
<1>9. /\ Counts(j) /\ j.made = F[f].made
      /\ j.instruct <= Cardinality(Unfinished(U, f))
      /\ j.completed <= j.sem + Cardinality(Finished(U, f))
  <2>1. CASE F[f].instruct = 0
    <3>1. j.instruct = 0 /\ j.completed = F[f].completed  BY <2>1 DEF f
    <3>2. Cardinality(Unfinished(U, f)) \in Nat  BY <1>2, PoolSets DEF Known
    <3> QED BY <1>4, <1>6, <1>8, <3>1, <3>2 DEF Counts, f
  <2>2. CASE F[f].instruct # 0
    <3>1. j.instruct = F[f].instruct - 1 /\ j.completed = F[f].completed + 1  BY <2>2 DEF f
    <3> QED BY <1>4, <1>5, <1>6, <1>8, <2>2, <3>1 DEF Counts, f
  <2> QED BY <2>1, <2>2
<1>10. PoolInv(U, [F EXCEPT ![f] = j])  BY <1>1, <1>2, <1>3, <1>9, PoolOfOne
<1> QED BY <1>10 DEF U, n, f

\* A worker posts the semaphore.
LEMMA PoolPosts ==
    ASSUME NEW T, NEW F, PoolInv(T, F), NEW t \in T, t.at = "done"
    PROVE  PoolInv(T \ {t}, [F EXCEPT ![t.fd].sem = @ + 1])
<1> DEFINE U == T \ {t}
           f == t.fd
           j == [F[f] EXCEPT !.sem = @ + 1]
<1>1. Known(T, F) /\ f \in Fds  BY DEF PoolInv, Known
<1>2. Known(U, F)  BY <1>1, FS_RemoveElement DEF Known
<1>3. \A g \in Fds \ {f} : Unfinished(U, g) = Unfinished(T, g) /\ Finished(U, g) = Finished(T, g)
  BY DEF Unfinished, Finished
<1>4. /\ IsFiniteSet(Unfinished(T, f)) /\ Cardinality(Unfinished(T, f)) \in Nat
      /\ IsFiniteSet(Finished(T, f)) /\ Cardinality(Finished(T, f)) \in Nat
  BY <1>1, PoolSets DEF Known
<1>5. Unfinished(U, f) = Unfinished(T, f)  BY DEF Unfinished
<1>6. Cardinality(Finished(U, f)) = Cardinality(Finished(T, f)) - 1
  <2>1. Finished(U, f) = Finished(T, f) \ {t} /\ t \in Finished(T, f)  BY DEF Finished
  <2> QED BY <1>4, <2>1, FS_RemoveElement
<1>7. Counts(F[f]) /\ Counted(T, F, f)  BY <1>1 DEF PoolInv
<1>8. /\ DOMAIN j = DOMAIN NoUpload /\ j.instruct = F[f].instruct /\ j.completed = F[f].completed
      /\ j.sem = F[f].sem + 1 /\ j.made = F[f].made
  BY <1>7 DEF Counts, NoUpload
<1>9. [F EXCEPT ![t.fd].sem = @ + 1] = [F EXCEPT ![f] = j]  OBVIOUS
<1> HIDE DEF U, f, j
<1>10. /\ Counts(j) /\ j.instruct <= Cardinality(Unfinished(U, f))
       /\ j.completed <= j.sem + Cardinality(Finished(U, f))
  BY <1>4, <1>5, <1>6, <1>7, <1>8 DEF Counts, Counted
<1>11. PoolInv(U, [F EXCEPT ![f] = j])  BY <1>1, <1>2, <1>3, <1>8, <1>10, PoolOfOne
<1> QED BY <1>9, <1>11 DEF U

\* The larger of two.
LEMMA MaxOfTwo ==
    ASSUME NEW n \in Int
    PROVE  Max({0, n}) = IF n > 0 THEN n ELSE 0
<1> DEFINE m == IF n > 0 THEN n ELSE 0
<1>1. m \in {0, n} /\ \A y \in {0, n} : m >= y  OBVIOUS
<1>2. \A x \in {0, n} : (\A y \in {0, n} : x >= y) => x = m  OBVIOUS
<1> QED BY <1>1, <1>2 DEF Max

\* Whoever waits takes the semaphore.
Taken(j, i) == j = [i EXCEPT !.sem = @ - 1, !.completed = Max({0, @ - 1})]

LEMMA PoolWaits ==
    ASSUME NEW T, NEW F, PoolInv(T, F), NEW f \in Fds, F[f].sem > 0, NEW j, Taken(j, F[f])
    PROVE  PoolInv(T, [F EXCEPT ![f] = j])
<1>1. Known(T, F)  BY DEF PoolInv
<1>2. Cardinality(Unfinished(T, f)) \in Nat /\ Cardinality(Finished(T, f)) \in Nat
  BY <1>1, PoolSets DEF Known
<1>3. Counts(F[f]) /\ Counted(T, F, f)  BY DEF PoolInv
<1>4. /\ DOMAIN j = DOMAIN NoUpload /\ j.instruct = F[f].instruct /\ j.sem = F[f].sem - 1
      /\ j.completed = Max({0, F[f].completed - 1}) /\ j.made = F[f].made
  BY <1>3 DEF Counts, NoUpload, Taken
<1>5. j.completed = IF F[f].completed - 1 > 0 THEN F[f].completed - 1 ELSE 0
  BY <1>3, <1>4, MaxOfTwo DEF Counts
<1>6. /\ Counts(j) /\ j.instruct <= Cardinality(Unfinished(T, f))
      /\ j.completed <= j.sem + Cardinality(Finished(T, f))
  BY <1>2, <1>3, <1>4, <1>5 DEF Counts, Counted
<1>7. PoolInv(T, [F EXCEPT ![f] = j])  BY <1>1, <1>4, <1>6, PoolOfOne
<1> QED BY <1>7

\* A handle goes, and with it its instructions.
LEMMA PoolCloses ==
    ASSUME NEW T, NEW F, PoolInv(T, F), NEW f \in Fds, NEW j, Kept(j, F[f]),
           j.instruct = 0, j.completed = 0
    PROVE  PoolInv({t \in T : t.fd # f}, [F EXCEPT ![f] = j])
<1> DEFINE U == {t \in T : t.fd # f}
<1>1. Known(T, F)  BY DEF PoolInv
<1>2. Known(U, F)
  <2>1. IsFiniteSet(U)  BY <1>1, FS_Subset DEF Known
  <2> QED BY <1>1, <2>1 DEF Known
<1>3. Cardinality(Unfinished(U, f)) \in Nat /\ Cardinality(Finished(U, f)) \in Nat
  BY <1>2, PoolSets DEF Known
<1>4. Counts(F[f])  BY DEF PoolInv
<1>5. \A g \in Fds \ {f} : Unfinished(U, g) = Unfinished(T, g) /\ Finished(U, g) = Finished(T, g)
  BY DEF Unfinished, Finished
<1> HIDE DEF U
<1>6. /\ Counts(j) /\ j.made = F[f].made /\ j.instruct <= Cardinality(Unfinished(U, f))
      /\ j.completed <= j.sem + Cardinality(Finished(U, f))
  BY <1>3, <1>4 DEF Counts, Kept
<1>7. PoolInv(U, [F EXCEPT ![f] = j])  BY <1>2, <1>5, <1>6, PoolOfOne
<1> QED BY <1>7 DEF U

\* What a completion leaves of the counts.
LEMMA CompleteOk ==
    ASSUME NEW i, Counts(i), NEW result
    PROVE  LET j == CompleteInstruction(i, result)
           IN  /\ DOMAIN j = DOMAIN NoUpload /\ j.sem = i.sem /\ j.made = i.made
               /\ IF i.instruct = 0
                  THEN j.instruct = 0 /\ j.completed = i.completed
                  ELSE j.instruct = i.instruct - 1 /\ j.completed = i.completed + 1
               /\ NoneLeft(j) => NoneLeft(i)
<1> DEFINE k == IF result = 0 THEN i ELSE [i EXCEPT !.last = result]
           j == CompleteInstruction(i, result)
<1>1. /\ DOMAIN k = DOMAIN NoUpload /\ k.sem = i.sem /\ k.made = i.made
      /\ k.instruct = i.instruct /\ k.completed = i.completed
  BY DEF Counts, NoUpload
<1>2. j = IF k.instruct = 0 THEN k ELSE [k EXCEPT !.instruct = @ - 1, !.completed = @ + 1]
  BY DEF CompleteInstruction
<1> HIDE DEF k, j
<1>3. i.instruct \in Nat /\ i.completed \in Nat  BY DEF Counts
<1>4. CASE i.instruct = 0
  <2>1. j = k  BY <1>1, <1>2, <1>4
  <2> QED BY <1>1, <1>4, <2>1 DEF NoneLeft, j
<1>5. CASE i.instruct # 0
  <2>1. j = [k EXCEPT !.instruct = @ - 1, !.completed = @ + 1]  BY <1>1, <1>2, <1>5
  <2>2. /\ DOMAIN j = DOMAIN NoUpload /\ j.sem = i.sem /\ j.made = i.made
        /\ j.instruct = i.instruct - 1 /\ j.completed = i.completed + 1
    BY <1>1, <2>1 DEF NoUpload
  <2>3. j.completed # 0  BY <1>3, <2>2
  <2> QED BY <1>5, <2>2, <2>3 DEF NoneLeft, j
<1> QED BY <1>4, <1>5

------------------------------------------------------------------------------
(* The steps.                                                               *)

\* An operation starts from the counts of its handle.
LEMMA WorldKept ==
    ASSUME FdInv, NEW f \in Fds, NEW fail, NEW w, Goes(w, World(f, fail))
    PROVE  World0(w) /\ Kept(w.i, fdi[f])
<1>1. Counts(fdi[f])  BY DEF FdInv, PoolInv
<1>2. World(f, fail).i = fdi[f] /\ World0(World(f, fail))  BY <1>1 DEF World, World0, Counts
<1> QED BY <1>2 DEF Goes

LEMMA FlushedKeeps ==
    ASSUME FdInv, NEW f \in Fds, NEW w, Kept(w.i, fdi[f]), Flushed(f, w)
    PROVE  FdInv'
<1>1. mode' = mode /\ tasks' = tasks /\ flush' = NoFlush /\ fdi' = [fdi EXCEPT ![f] = w.i]
  BY DEF Flushed, Take, ok
<1>2. PoolInv(tasks, [fdi EXCEPT ![f] = w.i])  BY PoolKept DEF FdInv
<1> QED BY <1>1, <1>2 DEF FdInv, FlushInv

LEMMA WriteStep ==
    ASSUME FdInv, NEW f \in Fds, Write(f)
    PROVE  FdInv'
<1>1. PICK start \in 0 .. MaxSize[mode] - 1, size \in 1 .. MaxWriteSize,
           fail \in Fails({"load", "pre", "post", "full", "drop"}) :
        /\ Idle(f) /\ UNCHANGED <<mode, flush, exact>>
        /\ Wrote(f, DoWrite(Grow(World(f, fail), start), start, size, count.writes + 1))
  BY DEF Write
<1> DEFINE g == Grow(World(f, fail), start)
           r == DoWrite(g, start, size, count.writes + 1)
<1>2. World0(g) /\ Kept(g.i, fdi[f])  BY GrowGoes, WorldKept
<1>3. Handed(r, g.i)  BY <1>2, WriteOk DEF FdInv
<1>4. Wrote(f, r)  BY <1>1
<1> HIDE DEF g, r
<1>5. Kept(r.from, fdi[f]) /\ IsNew(r.up)  BY <1>2, <1>3 DEF Handed, Kept
<1>6. /\ fdi' = [fdi EXCEPT ![f] = r.w.i]
      /\ tasks' = tasks \cup Instructions(f, r.from, r.up, FALSE)
  BY <1>4 DEF Wrote, Take, ok
<1>7. CASE r.w.i = ParallelMultipartUpload(r.from, r.up)
  <2>1. PoolInv(tasks \cup Instructions(f, r.from, r.up, FALSE),
                [fdi EXCEPT ![f] = ParallelMultipartUpload(r.from, r.up)])
    BY <1>5, PoolGrows DEF FdInv
  <2> QED BY <1>1, <1>6, <1>7, <2>1 DEF FdInv, FlushInv, Idle
<1>8. CASE r.up = {} /\ Kept(r.w.i, g.i)
  <2>1. Kept(r.w.i, fdi[f])  BY <1>2, <1>8 DEF Kept
  <2>2. PoolInv(tasks, [fdi EXCEPT ![f] = r.w.i])  BY <2>1, PoolKept DEF FdInv
  <2>3. tasks' = tasks
    <3>1. Instructions(f, r.from, r.up, FALSE) = {}  BY <1>8 DEF Instructions, Tagged
    <3> QED BY <1>6, <3>1
  <2> QED BY <1>1, <1>6, <2>2, <2>3 DEF FdInv, FlushInv, Idle
<1> QED BY <1>3, <1>7, <1>8 DEF Handed

LEMMA RowFlushStep ==
    ASSUME FdInv, NEW f \in Fds, NEW force_sync, RowFlushHere(f, force_sync)
    PROVE  FdInv'
<1>1. PICK fail : Flushed(f, FdRowFlush(World(f, fail), force_sync))  BY DEF RowFlushHere
<1>2. mode \in ModeNames  BY FdUploadAssumption DEF FdInv
<1>3. Goes(FdRowFlush(World(f, fail), force_sync), World(f, fail))  BY <1>2, RowFlushGoes
<1>4. Kept(FdRowFlush(World(f, fail), force_sync).i, fdi[f])  BY <1>3, WorldKept
<1> QED BY <1>1, <1>4, FlushedKeeps

LEMMA StreamStep ==
    ASSUME FdInv, NEW f \in Fds, RowFlushStream(f)
    PROVE  FdInv'
<1>1. PICK fail :
        LET w == [World(f, fail) EXCEPT !.odd = IF \E g \in Fds \ {f} : fdi[g].list # {}
                                                THEN @ \cup {"two_uploads"} ELSE @]
        IN StreamPlan(f, w, ExtractUploadPartsFromAllArea(w))
  BY DEF RowFlushStream
<1> DEFINE w == [World(f, fail) EXCEPT !.odd = IF \E g \in Fds \ {f} : fdi[g].list # {}
                                                THEN @ \cup {"two_uploads"} ELSE @]
           plan == ExtractUploadPartsFromAllArea(w)
           u == [w EXCEPT !.i.list = plan.list]
           v == PreMultipartPost(Download(u, plan.down))
<1>2. StartStream(f, v, plan)  BY <1>1 DEF StreamPlan
<1>3. Goes(w, World(f, fail))
  <2>1. World0(World(f, fail)) => DOMAIN w = DOMAIN World(f, fail) /\ w.i = World(f, fail).i
    BY DEF World0
  <2> QED BY <2>1, SameHandle
<1> HIDE DEF w
<1>4. IsNew(plan.up) /\ IsNew(plan.copy)  BY PlanOk DEF FdInv
<1> HIDE DEF plan
<1>5. Goes(u, w)
  <2>1. World0(w) => DOMAIN u = DOMAIN w /\ u.i = [w.i EXCEPT !.list = plan.list]  BY DEF World0
  <2> HIDE DEF u
  <2> QED BY <2>1, NewList
<1> HIDE DEF u
<1>6. Goes(v, World(f, fail))  BY <1>3, <1>5, PreGoes, DownloadGoes, GoesAlong
<1> HIDE DEF v
<1>7. Kept(v.i, fdi[f])  BY <1>6, WorldKept
<1>8. CASE ~ok(v)
  <2>1. Flushed(f, v)  BY <1>2, <1>8 DEF StartStream
  <2> QED BY <1>7, <2>1, FlushedKeeps
<1>9. CASE ok(v)
  <2>1. /\ fdi' = [fdi EXCEPT ![f] = v.i] /\ mode' = mode /\ tasks' = tasks
        /\ flush' = [fd |-> f, at |-> IF plan.wait THEN "check" ELSE "go",
                     then |-> IF plan.wait THEN "reupload" ELSE "upload",
                     up |-> plan.up, copy |-> plan.copy]
    BY <1>2, <1>9 DEF StartStream, Take
  <2>2. PoolInv(tasks, [fdi EXCEPT ![f] = v.i])  BY <1>7, PoolKept DEF FdInv
  <2>3. FlushInv'  BY <1>4, <2>1 DEF FlushInv
  <2> QED BY <2>1, <2>2, <2>3 DEF FdInv
<1> QED BY <1>8, <1>9

\* The count is looked at, and the semaphore taken.
LEMMA WaitStep ==
    ASSUME FdInv, NEW f \in Fds, WaitCheck(f) \/ WaitSem(f)
    PROVE  FdInv'
<1>1. CASE WaitCheck(f)
  <2>1. /\ flush # NoFlush /\ flush.fd = f
        /\ flush' = [flush EXCEPT !.at = IF NoneLeft(fdi[f]) THEN "go" ELSE "sem"]
        /\ UNCHANGED <<mode, fdi, tasks>>
    BY <1>1 DEF WaitCheck, At
  <2>2. FlushInv'  BY <2>1 DEF FdInv, FlushInv, NoneLeft
  <2> QED BY <2>1, <2>2 DEF FdInv
<1>2. CASE WaitSem(f)
  <2> DEFINE i == [fdi[f] EXCEPT !.sem = @ - 1, !.completed = Max({0, @ - 1})]
  <2>1. /\ flush # NoFlush /\ flush.fd = f /\ fdi[f].sem > 0
        /\ fdi' = [fdi EXCEPT ![f] = i]
        /\ flush' = [flush EXCEPT !.at = IF NoneLeft(i) THEN "go" ELSE "sem"]
        /\ UNCHANGED <<mode, tasks>>
    BY <1>2 DEF WaitSem, At
  <2>0. Taken(i, fdi[f])  BY DEF Taken
  <2> HIDE DEF i
  <2>2. PoolInv(tasks, [fdi EXCEPT ![f] = i])  BY <2>0, <2>1, PoolWaits DEF FdInv
  <2>3. fdi'[f] = i  BY <2>1 DEF FdInv, PoolInv
  <2>4. FlushInv'  BY <2>1, <2>3 DEF FdInv, FlushInv
  <2> QED BY <2>1, <2>2, <2>4 DEF FdInv
<1> QED BY <1>1, <1>2

\* The parts of a flush are handed to the pool.
LEMMA UploadStep ==
    ASSUME FdInv, NEW f \in Fds, UploadAll(f)
    PROVE  FdInv'
<1> DEFINE i1 == ParallelMultipartUpload(fdi[f], flush.up)
           i2 == ParallelMultipartUpload(i1, flush.copy)
           T1 == tasks \cup Instructions(f, fdi[f], flush.up, FALSE)
           T2 == T1 \cup Instructions(f, i1, flush.copy, TRUE)
           F1 == [fdi EXCEPT ![f] = i1]
<1>1. flush # NoFlush /\ flush.fd = f  BY DEF UploadAll, At
<1>2. /\ IsNew(flush.up) /\ IsNew(flush.copy)
      /\ DOMAIN flush = {"fd", "at", "then", "up", "copy"}
  BY <1>1 DEF FdInv, FlushInv
<1>3. CASE flush.then = "reupload" /\ fdi[f].last # 0
  <2>1. Flushed(f, EIO(World(f, "no")))  BY <1>3 DEF UploadAll
  <2>2. Kept(EIO(World(f, "no")).i, fdi[f])  BY EIOGoes, WorldKept
  <2> QED BY <2>1, <2>2, FlushedKeeps
<1>4. CASE ~(flush.then = "reupload" /\ fdi[f].last # 0)
  <2>1. /\ fdi' = [fdi EXCEPT ![f] = i2] /\ tasks' = T2 /\ mode' = mode
        /\ flush' = [flush EXCEPT !.at = "check", !.then = "complete"]
    BY <1>4 DEF UploadAll
  <2>2. Kept(fdi[f], fdi[f])  BY DEF FdInv, PoolInv, Counts, Kept
  <2>3. PoolInv(T1, F1)  BY <1>2, <2>2, PoolGrows DEF FdInv
  <2>4. F1[f] = i1 /\ DOMAIN F1 = Fds  BY DEF FdInv, PoolInv
  <2> HIDE DEF F1, T1, i1
  <2>5. Kept(i1, F1[f])  BY <2>3, <2>4 DEF PoolInv, Counts, Kept
  <2>6. PoolInv(T2, [F1 EXCEPT ![f] = i2])  BY <1>2, <2>3, <2>5, PoolGrows
  <2>7. [F1 EXCEPT ![f] = i2] = [fdi EXCEPT ![f] = i2]  BY DEF F1
  <2> HIDE DEF T2, i2
  <2>8. PoolInv(tasks', fdi')  BY <2>1, <2>6, <2>7
  <2>9. FlushInv'  BY <1>1, <1>2, <2>1 DEF FlushInv
  <2> QED BY <2>1, <2>8, <2>9 DEF FdInv
<1> QED BY <1>3, <1>4

LEMMA CompleteStep ==
    ASSUME FdInv, NEW f \in Fds, FlushComplete(f)
    PROVE  FdInv'
<1>1. ASSUME NEW fail, NEW sent PROVE Kept(Completed(CompleteRequest(World(f, fail), sent), sent).i, fdi[f])
  <2> DEFINE w == CompleteRequest(World(f, fail), sent)
  <2>1. Goes(w, World(f, fail))
    <3>1. World0(World(f, fail)) => DOMAIN w = DOMAIN World(f, fail) /\ w.i = ResetUploadInfo(World(f, fail).i)
      BY DEF World0, CompleteRequest
    <3> HIDE DEF w
    <3> QED BY <3>1, ResetGoes
  <2> HIDE DEF w
  <2>2. Goes(Completed(w, sent), World(f, fail))  BY <2>1, CompletedGoes, GoesAlong
  <2> QED BY <2>2, WorldKept DEF w
<1>2. PICK fail \in Fails({"complete", "put"}) :
        LET i    == fdi[f]
            sent == i.last = 0 /\ fail # "complete" /\ Completes(i.list, mpu[f])
        IN  Flushed(f, Completed(CompleteRequest(World(f, fail), sent), sent))
  BY DEF FlushComplete
<1> DEFINE sent == fdi[f].last = 0 /\ fail # "complete" /\ Completes(fdi[f].list, mpu[f])
           v == Completed(CompleteRequest(World(f, fail), sent), sent)
<1>3. Flushed(f, v)  BY <1>2
<1> HIDE DEF sent
<1>4. Kept(v.i, fdi[f])  BY <1>1
<1> HIDE DEF v
<1> QED BY <1>3, <1>4, FlushedKeeps

\* A handle is closed: at once, or once its workers are done.
LEMMA CloseStep ==
    ASSUME FdInv, NEW f \in Fds, Close(f) \/ CloseEnds(f)
    PROVE  FdInv'
<1> DEFINE j == [ResetUploadInfo(fdi[f]) EXCEPT !.open = FALSE]
           k == [fdi[f] EXCEPT !.last = 1]
<1>1. Counts(fdi[f])  BY DEF FdInv, PoolInv
<1>2. Kept(j, fdi[f]) /\ j.instruct = 0 /\ j.completed = 0
  BY <1>1 DEF Counts, Kept, ResetUploadInfo, NoUpload
<1>3. Kept(k, fdi[f])  BY <1>1 DEF Counts, Kept, NoUpload
<1>4. CASE CloseEnds(f)
  <2>1. /\ fdi' = [fdi EXCEPT ![f] = j] /\ flush' = NoFlush /\ UNCHANGED <<mode, tasks>>
    BY <1>4 DEF CloseEnds
  <2> HIDE DEF j
  <2>2. PoolInv(tasks, [fdi EXCEPT ![f] = j])  BY <1>2, PoolKept DEF FdInv
  <2> QED BY <2>1, <2>2 DEF FdInv, FlushInv
<1>5. CASE Close(f) /\ fdi[f].instruct > 0 /\ fdi[f].completed > 0
  <2>1. /\ fdi' = [fdi EXCEPT ![f] = k] /\ UNCHANGED <<mode, tasks>>
        /\ flush' = [fd |-> f, at |-> "check", then |-> "close", up |-> {}, copy |-> {}]
    BY <1>5 DEF Close
  <2> HIDE DEF k
  <2>2. PoolInv(tasks, [fdi EXCEPT ![f] = k])  BY <1>3, PoolKept DEF FdInv
  <2>3. FlushInv'  BY <2>1, NoParts DEF FlushInv
  <2> QED BY <2>1, <2>2, <2>3 DEF FdInv
<1>6. CASE Close(f) /\ ~(fdi[f].instruct > 0 /\ fdi[f].completed > 0)
  <2>1. /\ fdi' = [fdi EXCEPT ![f] = j] /\ tasks' = {t \in tasks : t.fd # f}
        /\ flush = NoFlush /\ UNCHANGED <<mode, flush>>
    BY <1>6 DEF Close, Idle
  <2> HIDE DEF j
  <2>2. PoolInv({t \in tasks : t.fd # f}, [fdi EXCEPT ![f] = j])  BY <1>2, PoolCloses DEF FdInv
  <2> QED BY <2>1, <2>2 DEF FdInv, FlushInv
<1> QED BY <1>4, <1>5, <1>6

\* A waiter still has something to wait for while workers work.
LEMMA FlushKept ==
    ASSUME FdInv, NEW f \in Fds, NEW j, NoneLeft(j) => NoneLeft(fdi[f]),
           fdi' = [fdi EXCEPT ![f] = j], flush' = flush
    PROVE  FlushInv'
<1>1. DOMAIN fdi = Fds  BY DEF FdInv, PoolInv
<1>2. \A g \in Fds : NoneLeft(fdi'[g]) => NoneLeft(fdi[g])  BY <1>1
<1> QED BY <1>2 DEF FdInv, FlushInv

LEMMA WorkerStep ==
    ASSUME FdInv, NEW t \in tasks, WorkerTakes(t) \/ WorkerSends(t) \/ WorkerPosts(t)
    PROVE  FdInv'
<1> DEFINE f == t.fd
<1>1. f \in Fds /\ DOMAIN fdi = Fds /\ Counts(fdi[f])  BY DEF FdInv, PoolInv, Known
<1>2. ASSUME NEW i, NEW result, DOMAIN i = DOMAIN fdi[f], i.sem = fdi[f].sem, i.made = fdi[f].made,
             i.instruct = fdi[f].instruct, i.completed = fdi[f].completed,
             t.at # "done", Moves(t, "done"), fdi' = [fdi EXCEPT ![f] = CompleteInstruction(i, result)],
             UNCHANGED <<mode, flush>>
      PROVE  FdInv'
  <2> DEFINE j == CompleteInstruction(i, result)
  <2>1. Counts(i)  BY <1>1, <1>2 DEF Counts
  <2>2. /\ DOMAIN j = DOMAIN NoUpload /\ j.sem = fdi[f].sem /\ j.made = fdi[f].made
        /\ IF fdi[f].instruct = 0
           THEN j.instruct = 0 /\ j.completed = fdi[f].completed
           ELSE j.instruct = fdi[f].instruct - 1 /\ j.completed = fdi[f].completed + 1
        /\ NoneLeft(j) => NoneLeft(i)
    BY <1>2, <2>1, CompleteOk
  <2>3. fdi' = [fdi EXCEPT ![f] = j]  BY <1>2
  <2> HIDE DEF j
  <2>4. NoneLeft(j) => NoneLeft(fdi[f])  BY <1>2, <2>2 DEF NoneLeft
  <2>5. FlushInv'  BY <1>1, <1>2, <2>3, <2>4, FlushKept
  <2>6. PoolInv((tasks \ {t}) \cup {[t EXCEPT !.at = "done"]}, [fdi EXCEPT ![f] = j])
    BY <1>2, <2>2, PoolDone DEF FdInv
  <2> QED BY <1>2, <2>3, <2>5, <2>6 DEF FdInv, Moves
<1>3. CASE WorkerTakes(t) /\ fdi[f].last # 0
  <2>1. /\ fdi' = [fdi EXCEPT ![f] = CompleteInstruction(fdi[f], fdi[f].last)]
        /\ t.at # "done" /\ Moves(t, "done") /\ UNCHANGED <<mode, flush>>
    BY <1>3 DEF WorkerTakes
  <2> QED BY <1>2, <2>1
<1>4. CASE WorkerTakes(t) /\ ~(fdi[f].last # 0)
  <2>1. t.at = "queued" /\ Moves(t, "sending") /\ UNCHANGED <<mode, flush, fdi>>
    BY <1>4 DEF WorkerTakes
  <2>2. PoolInv((tasks \ {t}) \cup {[t EXCEPT !.at = "sending"]}, fdi)  BY <2>1, PoolTakes DEF FdInv
  <2> QED BY <2>1, <2>2 DEF FdInv, FlushInv, Moves, NoneLeft
<1>5. CASE WorkerSends(t)
  <2>1. PICK fail \in Fails({"post"}) :
          LET p    == t.part
              from == IF t.copy THEN obj ELSE ent.phys
              sent == fail = "no" /\ p.start + p.size <= Len(from)
              data == Data(from, p.start, p.size)
          IN  /\ fdi' = [fdi EXCEPT ![f] = IF sent THEN CompleteInstruction(Etagged(@, p, data), 0)
                                           ELSE CompleteInstruction(@, 1)]
              /\ t.at = "sending" /\ Moves(t, "done") /\ UNCHANGED <<mode, flush>>
    BY <1>5 DEF WorkerSends
  <2> DEFINE data == Data(IF t.copy THEN obj ELSE ent.phys, t.part.start, t.part.size)
             i == Etagged(fdi[f], t.part, data)
  <2> HIDE DEF data
  <2>2. /\ DOMAIN i = DOMAIN fdi[f] /\ i.sem = fdi[f].sem /\ i.made = fdi[f].made
        /\ i.instruct = fdi[f].instruct /\ i.completed = fdi[f].completed
    BY <1>1 DEF Counts, NoUpload, Etagged
  <2>3. \/ fdi' = [fdi EXCEPT ![f] = CompleteInstruction(i, 0)]
        \/ fdi' = [fdi EXCEPT ![f] = CompleteInstruction(fdi[f], 1)]
    BY <2>1 DEF data
  <2>4. t.at # "done" /\ Moves(t, "done") /\ UNCHANGED <<mode, flush>>  BY <2>1
  <2> HIDE DEF i
  <2> QED BY <1>2, <2>2, <2>3, <2>4
<1>6. CASE WorkerPosts(t)
  <2> DEFINE j == [fdi[f] EXCEPT !.sem = @ + 1]
  <2>1. /\ t.at = "done" /\ tasks' = tasks \ {t} /\ fdi' = [fdi EXCEPT ![t.fd].sem = @ + 1]
        /\ UNCHANGED <<mode, flush>>
    BY <1>6 DEF WorkerPosts
  <2>2. PoolInv(tasks \ {t}, [fdi EXCEPT ![t.fd].sem = @ + 1])  BY <2>1, PoolPosts DEF FdInv
  <2>3. fdi' = [fdi EXCEPT ![f] = j]  BY <2>1
  <2>4. NoneLeft(j) => NoneLeft(fdi[f])  BY <1>1 DEF NoneLeft, Counts, NoUpload
  <2> HIDE DEF j
  <2>5. FlushInv'  BY <1>1, <2>1, <2>3, <2>4, FlushKept
  <2> QED BY <2>1, <2>2, <2>5 DEF FdInv
<1> QED BY <1>3, <1>4, <1>5, <1>6

\* Reads and loads touch neither the pool nor the counts.
LEMMA ReadStep ==
    ASSUME FdInv, NEW f \in Fds, Read(f)
    PROVE  FdInv'
<1>1. PICK start, size, fail :
        /\ Take(f, Prefetch(ReserveDiskSpace(World(f, fail)), start, size))
        /\ Idle(f) /\ UNCHANGED <<mode, tasks, flush>>
  BY DEF Read
<1> DEFINE v == Prefetch(ReserveDiskSpace(World(f, fail)), start, size)
<1>2. Goes(v, World(f, fail))  BY ReserveGoes, LoadGoes, GoesAlong DEF Prefetch
<1>3. fdi' = [fdi EXCEPT ![f] = v.i]  BY <1>1 DEF Take
<1> HIDE DEF v
<1>4. Kept(v.i, fdi[f])  BY <1>2, WorldKept
<1>5. PoolInv(tasks, [fdi EXCEPT ![f] = v.i])  BY <1>4, PoolKept DEF FdInv
<1> QED BY <1>1, <1>3, <1>5 DEF FdInv, FlushInv, Idle

LEMMA FdStarts == FdInit => FdInv
<1> SUFFICES ASSUME FdInit PROVE FdInv  OBVIOUS
<1>1. mode \in Modes /\ fdi = [f \in Fds |-> NoUpload] /\ tasks = {} /\ flush = NoFlush  BY DEF FdInit
<1>2. \A f : Unfinished({}, f) = {} /\ Finished({}, f) = {}  BY DEF Unfinished, Finished
<1>3. IsFiniteSet({}) /\ Cardinality({}) = 0  BY FS_EmptySet
<1>4. Counts(NoUpload)  BY DEF Counts, NoUpload
<1>5. NoUpload.instruct = 0 /\ NoUpload.completed = 0 /\ NoUpload.sem = 0  BY DEF NoUpload
<1>6. \A f \in Fds : fdi[f] = NoUpload  BY <1>1
<1>7. \A f \in Fds : Counted({}, fdi, f)  BY <1>2, <1>3, <1>5, <1>6 DEF Counted
<1>8. Known({}, fdi)  BY <1>3 DEF Known
<1>9. DOMAIN fdi = Fds  BY <1>1
<1>10. PoolInv({}, fdi)  BY <1>4, <1>6, <1>7, <1>8, <1>9 DEF PoolInv
<1> QED BY <1>1, <1>10 DEF FdInv, FlushInv

LEMMA FdKeeps == FdInv /\ [FdNext]_fdVars => FdInv'
<1> SUFFICES ASSUME FdInv, [FdNext]_fdVars PROVE FdInv'  OBVIOUS
<1>1. ASSUME NEW f \in Fds, Flush(f) PROVE FdInv'
  <2>1. RowFlushHere(f, dirty[f] = "flush") \/ RowFlushStream(f)  BY <1>1 DEF Flush
  <2>2. CASE RowFlushHere(f, dirty[f] = "flush")
    <3>1. PICK force_sync : RowFlushHere(f, force_sync)  BY <2>2
    <3> QED BY <3>1, RowFlushStep
  <2> QED BY <2>1, <2>2, StreamStep
<1>2. ASSUME NEW f \in Fds, PunchHole(f) PROVE UNCHANGED <<mode, fdi, tasks, flush>>
  BY <1>2 DEF PunchHole
<1>3. ASSUME Truncate PROVE UNCHANGED <<mode, fdi, tasks, flush>>  BY <1>3 DEF Truncate
<1>4. ASSUME UNCHANGED <<mode, fdi, tasks, flush>> PROVE FdInv'
  BY <1>4 DEF FdInv, FlushInv
<1>5. ASSUME NEW f \in Fds, Waiter(f) PROVE FdInv'
  BY <1>5, WaitStep, UploadStep, CompleteStep, CloseStep DEF Waiter
<1>6. ASSUME Worker PROVE FdInv'  BY <1>6, WorkerStep DEF Worker
<1>7. ASSUME UNCHANGED fdVars PROVE FdInv'  BY <1>4, <1>7 DEF fdVars
<1> QED BY <1>1, <1>2, <1>3, <1>4, <1>5, <1>6, <1>7, WriteStep, ReadStep, CloseStep DEF FdNext

\* Whoever waits for its workers is woken: what it waits for is an instruction
\* in the pool, whose worker posts.
LEMMA InvWakes == FdInv => WaiterWakes
<1> SUFFICES ASSUME FdInv, NEW f \in Fds, At(f, "sem"), fdi[f].sem = 0
             PROVE  \E t \in tasks : t.fd = f
  BY DEF WaiterWakes
<1>1. ~NoneLeft(fdi[f])  BY DEF At, FdInv, FlushInv
<1>2. Counts(fdi[f]) /\ Counted(tasks, fdi, f) /\ Known(tasks, fdi)  BY DEF FdInv, PoolInv
<1>3. Cardinality(Unfinished(tasks, f)) \in Nat /\ Cardinality(Finished(tasks, f)) \in Nat
  BY <1>2, PoolSets DEF Known
<1>4. Cardinality(Unfinished(tasks, f)) # 0 \/ Cardinality(Finished(tasks, f)) # 0
  BY <1>1, <1>2, <1>3 DEF NoneLeft, Counts, Counted
<1>5. Unfinished(tasks, f) # {} \/ Finished(tasks, f) # {}  BY <1>4, FS_EmptySet
<1> QED BY <1>5 DEF Unfinished, Finished

(* Whoever waits for the semaphore of its workers is woken (PseudoFdInfo:   *)
(* WaitAllThreadsExit, CompleteInstruction and the worker's sem.Post).      *)
THEOREM WaitersWake == FdSpec => []WaiterWakes
<1>1. FdSpec => []FdInv  BY FdStarts, FdKeeps, PTL DEF FdSpec
<1> QED BY <1>1, InvWakes, PTL
=============================================================================
