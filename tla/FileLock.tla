------------------------------- MODULE FileLock -------------------------------
(***************************************************************************)
(* The per-file lock of HybridCacheAccessor4S3fs: fileLock_, a concurrent  *)
(* map from a file to a shared atomic<int>, 0 free, n > 0 held shared by n *)
(* Puts, -1 held by one of Flush, Delete and Truncate.  Files do not       *)
(* influence each other here, so this is the lock of one file.             *)
(*                                                                         *)
(* A caller first gets the lock object the map has for the file (creating  *)
(* it if there is none) and then spins on that object.  Truncate leaves    *)
(* the object in the map; Delete and Flush erase it, and Flush does so     *)
(* from a detached thread (a releaser) that looks the object up again.     *)
(* ConcurrentHashMap::erase(iterator) erases by key.                       *)
(***************************************************************************)
EXTENDS Integers, FiniteSets

CONSTANTS
    Threads,    \* callers
    Releasers,  \* bound: detached threads of Flush that can exist at a time
    Locks,      \* lock objects that can exist at a time
    Calls,      \* the operations callers use: a subset of OpNames
    MaxCalls,   \* bound: number of calls in a behaviour
    NoLock

OpNames == {"Put", "Truncate", "Delete", "Flush"}

ASSUME FileLockAssumption ==
    /\ IsFiniteSet(Threads)
    /\ Calls \subseteq OpNames
    /\ MaxCalls \in Nat
    /\ NoLock \notin Locks

VARIABLES
    fileLock,   \* the object in the map, or NoLock
    value,      \* the atomic<int> of every object
    lpc,        \* where a caller is in the protocol
    op,         \* what it was called for
    held,       \* the object its iterator points to
    rpc,        \* where a releaser is
    robj,       \* the object it found
    calls,      \* calls so far
    orphaned    \* history: the object in use was once erased from the map

lockVars == <<fileLock, value, lpc, op, held, rpc, robj, orphaned>>
vars == <<lockVars, calls>>

Init ==
    /\ fileLock = NoLock
    /\ value = [l \in Locks |-> 0]
    /\ lpc = [t \in Threads |-> "idle"]
    /\ op = [t \in Threads |-> "Put"]
    /\ held = [t \in Threads |-> NoLock]
    /\ rpc = [r \in Releasers |-> "none"]
    /\ robj = [r \in Releasers |-> NoLock]
    /\ calls = 0 /\ orphaned = FALSE

------------------------------------------------------------------------------
\* Objects nobody can reach any more; make_shared takes one of these, no
\* matter which.
Unused ==
    {l \in Locks : /\ l # fileLock
                   /\ \A t \in Threads : held[t] # l
                   /\ \A r \in Releasers : robj[r] # l}

Call(t, o) ==
    /\ lpc[t] = "idle"
    /\ op' = [op EXCEPT ![t] = o]
    /\ lpc' = [lpc EXCEPT ![t] = "find"]
    /\ UNCHANGED <<fileLock, value, held, rpc, robj, orphaned>>

\* Mutant of Find: does not look whether the file has an object.
FindUnchecked(t) ==
    /\ lpc[t] = "find"
    /\ held' = [held EXCEPT ![t] = fileLock]
    /\ lpc' = [lpc EXCEPT ![t] = "spin"]
    /\ UNCHANGED <<fileLock, value, op, rpc, robj, orphaned>>

\* fileLock_.find(key)
Find(t) ==
    /\ lpc[t] = "find"
    /\ held' = [held EXCEPT ![t] = fileLock]
    /\ lpc' = [lpc EXCEPT ![t] = IF fileLock = NoLock THEN "insert" ELSE "spin"]
    /\ UNCHANGED <<fileLock, value, op, rpc, robj, orphaned>>

\* fileLock_.insert(key, 0) succeeds only if the file has no object by now.
Insert(t) ==
    /\ lpc[t] = "insert"
    /\ \/ /\ fileLock # NoLock
          /\ lpc' = [lpc EXCEPT ![t] = "find"]
          /\ UNCHANGED <<fileLock, value, held>>
       \/ /\ fileLock = NoLock
          /\ Unused # {}
          /\ LET l == CHOOSE l \in Unused : TRUE IN
                /\ fileLock' = l
                /\ value' = [value EXCEPT ![l] = 0]
                /\ held' = [held EXCEPT ![t] = l]
          /\ lpc' = [lpc EXCEPT ![t] = "spin"]
    /\ UNCHANGED <<op, rpc, robj, orphaned>>

\* Mutant of Acquire: a writer does not see the exclusive holder.
AcquireBlind(t) ==
    /\ lpc[t] = "spin"
    /\ op[t] # "Put" => value[held[t]] = 0
    /\ value' = [value EXCEPT ![held[t]] = IF op[t] = "Put" THEN @ + 1 ELSE -1]
    /\ lpc' = [lpc EXCEPT ![t] = "in"]
    /\ UNCHANGED <<fileLock, op, held, rpc, robj, orphaned>>

\* Mutant of Acquire: the exclusive callers do not exclude each other.
AcquireTwice(t) ==
    /\ lpc[t] = "spin"
    /\ IF op[t] = "Put"
       THEN value[held[t]] >= 0 /\ value' = [value EXCEPT ![held[t]] = @ + 1]
       ELSE value[held[t]] <= 0 /\ value' = [value EXCEPT ![held[t]] = -1]
    /\ lpc' = [lpc EXCEPT ![t] = "in"]
    /\ UNCHANGED <<fileLock, op, held, rpc, robj, orphaned>>

\* The compare-and-swap that ends the spinning: shared for Put, else exclusive.
Acquire(t) ==
    /\ lpc[t] = "spin"
    /\ IF op[t] = "Put"
       THEN value[held[t]] >= 0 /\ value' = [value EXCEPT ![held[t]] = @ + 1]
       ELSE value[held[t]] = 0 /\ value' = [value EXCEPT ![held[t]] = -1]
    /\ lpc' = [lpc EXCEPT ![t] = "in"]
    /\ UNCHANGED <<fileLock, op, held, rpc, robj, orphaned>>

\* Mutant of ReleaseShared: returns early without giving the lock back.
ReleaseSharedLeaky(t) ==
    /\ lpc[t] = "in" /\ op[t] = "Put"
    /\ lpc' = [lpc EXCEPT ![t] = "idle"]
    /\ held' = [held EXCEPT ![t] = NoLock]
    /\ UNCHANGED <<fileLock, value, op, rpc, robj, orphaned>>

\* Put: fetch_sub(1).
ReleaseShared(t) ==
    /\ lpc[t] = "in" /\ op[t] = "Put"
    /\ value' = [value EXCEPT ![held[t]] = @ - 1]
    /\ lpc' = [lpc EXCEPT ![t] = "idle"]
    /\ held' = [held EXCEPT ![t] = NoLock]
    /\ UNCHANGED <<fileLock, op, rpc, robj, orphaned>>

\* Truncate: store(0) on its object, which stays in the map.
ReleaseTruncate(t) ==
    /\ lpc[t] = "in" /\ op[t] = "Truncate"
    /\ value' = [value EXCEPT ![held[t]] = 0]
    /\ lpc' = [lpc EXCEPT ![t] = "idle"]
    /\ held' = [held EXCEPT ![t] = NoLock]
    /\ UNCHANGED <<fileLock, op, rpc, robj, orphaned>>

\* Delete: store(0) on its object, then erase the file from the map.
ReleaseDelete(t) ==
    /\ lpc[t] = "in" /\ op[t] = "Delete"
    /\ value' = [value EXCEPT ![held[t]] = 0]
    /\ lpc' = [lpc EXCEPT ![t] = "erase"]
    /\ UNCHANGED <<fileLock, op, held, rpc, robj, orphaned>>

\* The file leaves the map while someone else uses or waits for the object,
\* or has yet to release it.
Orphans(users, releasers) ==
    \/ \E u \in users : held[u] # NoLock
    \/ \E r \in releasers : rpc[r] # "none"

EraseDelete(t) ==
    /\ lpc[t] = "erase"
    /\ fileLock' = NoLock
    /\ lpc' = [lpc EXCEPT ![t] = "idle"]
    /\ held' = [held EXCEPT ![t] = NoLock]
    /\ orphaned' = (orphaned \/ Orphans(Threads \ {t}, Releasers))
    /\ UNCHANGED <<value, op, rpc, robj>>

\* Flush returns and leaves the release to a detached thread ...
HandOver(t, r) ==
    /\ lpc[t] = "in" /\ op[t] = "Flush" /\ rpc[r] = "none"
    /\ rpc' = [rpc EXCEPT ![r] = "find"]
    /\ lpc' = [lpc EXCEPT ![t] = "idle"]
    /\ held' = [held EXCEPT ![t] = NoLock]
    /\ UNCHANGED <<fileLock, value, op, robj, orphaned>>

\* ... which looks the file's object up again, ...
ReleaserFind(r) ==
    /\ rpc[r] = "find"
    /\ robj' = [robj EXCEPT ![r] = fileLock]
    /\ rpc' = [rpc EXCEPT ![r] = IF fileLock = NoLock THEN "none" ELSE "store"]
    /\ UNCHANGED <<fileLock, value, lpc, op, held, orphaned>>

\* ... frees it, ...
ReleaserStore(r) ==
    /\ rpc[r] = "store"
    /\ value' = [value EXCEPT ![robj[r]] = 0]
    /\ rpc' = [rpc EXCEPT ![r] = "erase"]
    /\ UNCHANGED <<fileLock, lpc, op, held, robj, orphaned>>

\* ... and erases the file from the map.
ReleaserErase(r) ==
    /\ rpc[r] = "erase"
    /\ fileLock' = NoLock
    /\ robj' = [robj EXCEPT ![r] = NoLock]
    /\ rpc' = [rpc EXCEPT ![r] = "none"]
    /\ orphaned' = (orphaned \/ Orphans(Threads, Releasers \ {r}))
    /\ UNCHANGED <<value, lpc, op, held>>

------------------------------------------------------------------------------
Protocol(t) == Find(t) \/ Insert(t) \/ Acquire(t)

Release(t) ==
    \/ ReleaseShared(t) \/ ReleaseTruncate(t) \/ ReleaseDelete(t) \/ EraseDelete(t)
    \/ \E r \in Releasers : HandOver(t, r)

Releaser(r) == ReleaserFind(r) \/ ReleaserStore(r) \/ ReleaserErase(r)

Next ==
    \/ \E t \in Threads, o \in Calls : calls < MaxCalls /\ calls' = calls + 1 /\ Call(t, o)
    \/ /\ \/ \E t \in Threads : Protocol(t) \/ Release(t)
          \/ \E r \in Releasers : Releaser(r)
       /\ UNCHANGED calls

Spec == Init /\ [][Next]_vars

\* Threads run, operations end and detached threads run.  Nothing in the code
\* keeps a stream of Puts from starving an exclusive caller: that callers get
\* in is checked for finitely many calls (MaxCalls), with weak fairness.
FairSpec ==
    /\ Spec
    /\ \A t \in Threads :
        /\ WF_vars(Protocol(t) /\ UNCHANGED calls)
        /\ WF_vars(Release(t) /\ UNCHANGED calls)
    /\ \A r \in Releasers : WF_vars(Releaser(r) /\ UNCHANGED calls)

------------------------------------------------------------------------------
(***************************************************************************)
(* Properties                                                              *)
(***************************************************************************)
PCs  == {"idle", "find", "insert", "spin", "in", "erase"}
RPCs == {"none", "find", "store", "erase"}

\* Every variable has its type, and whoever spins on, holds or frees a lock
\* object has one.
TypeOK ==
    /\ fileLock \in Locks \cup {NoLock}
    /\ value \in [Locks -> Int]
    /\ lpc \in [Threads -> PCs] /\ op \in [Threads -> OpNames]
    /\ held \in [Threads -> Locks \cup {NoLock}]
    /\ rpc \in [Releasers -> RPCs] /\ robj \in [Releasers -> Locks \cup {NoLock}]
    /\ calls \in Nat /\ orphaned \in BOOLEAN
    /\ \A t \in Threads : lpc[t] \in {"spin", "in"} => held[t] \in Locks
    /\ \A r \in Releasers : rpc[r] = "store" => robj[r] \in Locks

\* Who is inside the part of an operation that the file lock protects: callers,
\* and releasers, which work under the lock of the Flush that started them.
Excluding == {t \in Threads : lpc[t] = "in" /\ op[t] # "Put"}
Sharing   == {t \in Threads : lpc[t] = "in" /\ op[t] = "Put"}
Finishing == {r \in Releasers : rpc[r] \in {"find", "store"}}

\* Flush, Delete and Truncate of a file exclude each other and every Put: "File
\* flush. Need to handle flush/write concurrency." (accessor.h:28).
FileLockExclusion ==
    /\ \A t \in Excluding, u \in Excluding : t = u
    /\ \A r \in Finishing, q \in Finishing : r = q
    /\ Excluding = {} \/ Finishing = {}
    /\ (Excluding = {} /\ Finishing = {}) \/ Sharing = {}

\* The lock works until an erase leaves its object to somebody: the erase is
\* the only thing wrong with it.
ExclusionUntilOrphaned == ~orphaned => FileLockExclusion

\* Every caller gets the lock it waits for unless an object is orphaned.
GetInUnlessOrphaned ==
    \A t \in Threads : (lpc[t] = "spin") ~> (lpc[t] = "in" \/ orphaned)
==============================================================================
