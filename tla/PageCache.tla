------------------------------ MODULE PageCache ------------------------------
(***************************************************************************)
(* PageCacheImpl of local_cache: pages of a file kept in a CacheLib pool.  *)
(*                                                                         *)
(* A page is a piece of cache memory: a lock byte, two version bytes, a    *)
(* "whole page valid" flag, a bitmap of valid positions and the body.      *)
(* Writers and partial deleters lock the page, bump NEWVER, change it, and *)
(* copy NEWVER to LASTVER; readers take no lock and keep what they copied  *)
(* only if both versions agreed before and NEWVER did not move meanwhile.  *)
(* The whole-page Delete takes no page lock at all.  Threads hold handles: *)
(* a page that was removed from the index lives on until the last handle   *)
(* is dropped.  Every shared access of the code is a step of its own.      *)
(*                                                                         *)
(* The version bytes are modelled as counters that never wrap; the code    *)
(* sees them modulo VerMod (256).  pageNum is the unsigned counter         *)
(* pageNum_; a negative value stands for its wrapped one.  EnableCAS is    *)
(* true, as in test/hybridcache.conf, and the weak compare-and-swap on the *)
(* lock byte fails only when the byte is set, as it does on x86.           *)
(***************************************************************************)
EXTENDS Integers, FiniteSets

CONSTANTS
    Threads,         \* threads that call into the page cache
    Keys,            \* page keys
    Pages,           \* pieces of memory CacheLib can hand out
    Pos,             \* positions of a page body
    Ranges,          \* the ranges callers write, read or delete
    Values,          \* bytes
    Ops,             \* the operations callers use: a subset of OpNames
    VerMod,          \* a version byte has this many values
    SafeMode,        \* cfg_.SafeMode
    EnableNvmCache,  \* cfg_.CacheLibCfg.EnableNvmCache
    FileLocked,      \* callers hold the accessor's per-file lock
    MaxOps,          \* bound: number of calls in a behaviour
    NoPage, NoVal

OpNames == {"Write", "Read", "DeletePart", "Delete"}

ASSUME PageCacheAssumption ==
    /\ IsFiniteSet(Threads) /\ IsFiniteSet(Keys)
    /\ Ranges \subseteq SUBSET Pos
    /\ Ops \subseteq OpNames
    /\ Keys # {} /\ Ranges # {} /\ Values # {}
    /\ VerMod \in Nat \ {0} /\ MaxOps \in Nat
    /\ SafeMode \in BOOLEAN /\ EnableNvmCache \in BOOLEAN /\ FileLocked \in BOOLEAN
    /\ NoPage \notin Pages /\ NoVal \notin Values

VARIABLES
    index,      \* CacheLib's hash table: the page stored under each key
    pageNum,    \* pageNum_
    pagesList,  \* pagesList_
    rwLock,     \* lock_: number of allocators, or -1 for a remover
    lock, lastVer, newVer, fast, bits, body,   \* the memory of each page
    pc, arg, handle, ver, todo, mask, buf,     \* locals of each thread
    snap,       \* history: what a reader's page held when the versions agreed
    accepted,   \* history: NEWVER when the reader accepted its copy
    evicted,    \* history: pages CacheLib dropped to make room
    ops         \* calls so far

memory == <<lock, lastVer, newVer, fast, bits, body>>
global == <<index, pageNum, pagesList, rwLock>>
ghosts == <<snap, accepted, evicted, ops>>
locals == <<arg, handle, ver, todo, mask, buf>>
vars   == <<global, memory, pc, locals, ghosts>>

Args == [op : OpNames, key : Keys, rng : Ranges, val : Values]

Blank == [x \in Pos |-> NoVal]

Init ==
    /\ index = [k \in Keys |-> NoPage]
    /\ pageNum = 0 /\ pagesList = {} /\ rwLock = 0
    /\ lock = [p \in Pages |-> FALSE]
    /\ lastVer = [p \in Pages |-> 0] /\ newVer = [p \in Pages |-> 0]
    /\ fast = [p \in Pages |-> FALSE] /\ bits = [p \in Pages |-> {}]
    /\ body = [p \in Pages |-> Blank]
    /\ pc = [t \in Threads |-> "idle"]
    /\ arg = [t \in Threads |-> CHOOSE a \in Args : TRUE]
    /\ handle = [t \in Threads |-> NoPage]
    /\ ver = [t \in Threads |-> 0]
    /\ todo = [t \in Threads |-> {}] /\ mask = [t \in Threads |-> {}]
    /\ buf = [t \in Threads |-> Blank]
    /\ snap = [t \in Threads |-> Blank] /\ accepted = [t \in Threads |-> 0]
    /\ evicted = 0 /\ ops = 0

------------------------------------------------------------------------------
\* The page of thread t, and the control of its call.
P(t) == handle[t]
K(t) == arg[t].key
R(t) == arg[t].rng

Goto(t, from, to) ==
    /\ pc[t] = from
    /\ pc' = [pc EXCEPT ![t] = to]

\* A version byte as the code compares it.
SameByte(a, b) == a % VerMod = b % VerMod

\* Memory CacheLib can give to an allocation.
Unreferenced(p) == \A t \in Threads : handle[t] # p
Free == {p \in Pages : Unreferenced(p) /\ \A k \in Keys : index[k] # p}

\* The valid bytes of page p in a range.
Content(p, rng) == [x \in Pos |-> IF x \in rng \cap bits[p] THEN body[p][x] ELSE NoVal]

------------------------------------------------------------------------------
(***************************************************************************)
(* Calls.  With FileLocked the caller is the accessor, whose Put holds the *)
(* file's lock shared and whose Truncate, Flush and Delete hold it         *)
(* exclusively; Get holds nothing.                                         *)
(***************************************************************************)
\* Mutant of Compatible: deleting a file does not wait for its writers.
CompatibleAlways(o1, o2) == o1 \in OpNames /\ o2 \in OpNames

Compatible(o1, o2) == {o1, o2} = {"Write"} \/ "Read" \in {o1, o2}

Entry == [o \in OpNames |->
    CASE o = "Write" -> "w_find" [] o = "Read" -> "r_find"
      [] o = "DeletePart" -> "d_find" [] o = "Delete" -> "x_excl"]

Call(t) ==
    /\ ops < MaxOps
    /\ \E a \in Args :
        /\ a.op \in Ops
        /\ FileLocked => \A u \in Threads :
                pc[u] = "idle" \/ arg[u].key # a.key \/ Compatible(a.op, arg[u].op)
        /\ a.op = "Write" \/ a.val = CHOOSE v \in Values : TRUE  \* only Write has data
        /\ a.op # "Delete" \/ a.rng = CHOOSE r \in Ranges : TRUE  \* Delete has no range
        /\ arg' = [arg EXCEPT ![t] = a]
        /\ Goto(t, "idle", Entry[a.op])
    /\ ops' = ops + 1
    /\ UNCHANGED <<global, memory, handle, ver, todo, mask, buf, snap, accepted, evicted>>

\* The caller takes the result; the thread's handles go out of scope.
Return(t) ==
    /\ Goto(t, "done", "idle")
    /\ handle' = [handle EXCEPT ![t] = NoPage]
    /\ ver' = [ver EXCEPT ![t] = 0]
    /\ mask' = [mask EXCEPT ![t] = {}]
    /\ buf' = [buf EXCEPT ![t] = Blank]
    /\ snap' = [snap EXCEPT ![t] = Blank]
    /\ accepted' = [accepted EXCEPT ![t] = 0]
    /\ UNCHANGED <<global, memory, arg, todo, evicted, ops>>

------------------------------------------------------------------------------
(***************************************************************************)
(* FindOrCreateWriteHandle                                                 *)
(***************************************************************************)
WFind(t) ==
    /\ \/ /\ Goto(t, "w_find", "w_lock")
          /\ index[K(t)] # NoPage
          /\ handle' = [handle EXCEPT ![t] = index[K(t)]]
       \/ /\ Goto(t, "w_find", "w_shared")
          /\ index[K(t)] = NoPage
          /\ handle' = [handle EXCEPT ![t] = NoPage]
    /\ UNCHANGED <<global, memory, arg, ver, todo, mask, buf, ghosts>>

\* SafeMode: wait until no remover is active, count one more allocator.
WShared(t) ==
    /\ SafeMode => rwLock >= 0
    /\ rwLock' = IF SafeMode THEN rwLock + 1 ELSE rwLock
    /\ Goto(t, "w_shared", "w_alloc")
    /\ UNCHANGED <<index, pageNum, pagesList, memory, locals, ghosts>>

\* allocate: free memory, or else the memory of an evicted page nobody uses
\* (which leaves pageNum_ and pagesList_ as they are), or else no handle.
WAlloc(t) ==
    /\ \/ /\ Goto(t, "w_alloc", "w_init")
          /\ \E p \in Free : handle' = [handle EXCEPT ![t] = p]
          /\ UNCHANGED <<index, evicted>>
       \/ /\ Goto(t, "w_alloc", "w_init")
          /\ Free = {}
          /\ \E k \in Keys :
                /\ index[k] # NoPage /\ Unreferenced(index[k])
                /\ handle' = [handle EXCEPT ![t] = index[k]]
                /\ index' = [index EXCEPT ![k] = NoPage]
                /\ evicted' = evicted + 1
       \/ /\ Goto(t, "w_alloc", "null")
          /\ Free = {}
          /\ \A k \in Keys : index[k] # NoPage => ~Unreferenced(index[k])
          /\ UNCHANGED <<index, handle, evicted>>
    /\ UNCHANGED <<pageNum, pagesList, rwLock, memory, arg, ver, todo, mask, buf,
                   snap, accepted, ops>>

\* Release the shared lock, then clear the metadata and the bitmap.
WInit(t) ==
    /\ Goto(t, "w_init", "w_insert")
    /\ rwLock' = IF SafeMode THEN rwLock - 1 ELSE rwLock
    /\ lock' = [lock EXCEPT ![P(t)] = FALSE]
    /\ lastVer' = [lastVer EXCEPT ![P(t)] = 0]
    /\ newVer' = [newVer EXCEPT ![P(t)] = 0]
    /\ fast' = [fast EXCEPT ![P(t)] = FALSE]
    /\ bits' = [bits EXCEPT ![P(t)] = {}]
    /\ UNCHANGED <<index, pageNum, pagesList, body, locals, ghosts>>

\* insert fails when the key is there already; insertOrReplace does not.
WInsert(t) ==
    /\ \/ /\ Goto(t, "w_insert", "w_count")
          /\ index[K(t)] = NoPage
          /\ index' = [index EXCEPT ![K(t)] = P(t)]
          /\ UNCHANGED handle
       \/ /\ Goto(t, "w_insert", "w_lock")
          /\ index[K(t)] # NoPage /\ EnableNvmCache
          /\ index' = [index EXCEPT ![K(t)] = P(t)]
          /\ UNCHANGED handle
       \/ /\ Goto(t, "w_insert", "w_refind")
          /\ index[K(t)] # NoPage /\ ~EnableNvmCache
          /\ handle' = [handle EXCEPT ![t] = NoPage]
          /\ UNCHANGED index
    /\ UNCHANGED <<pageNum, pagesList, rwLock, memory, arg, ver, todo, mask, buf, ghosts>>

\* findToWrite after the failed insert; nobody checks whether it found one.
WRefind(t) ==
    /\ \/ /\ Goto(t, "w_refind", "w_lock")
          /\ index[K(t)] # NoPage
          /\ handle' = [handle EXCEPT ![t] = index[K(t)]]
       \/ /\ Goto(t, "w_refind", "null")
          /\ index[K(t)] = NoPage
          /\ UNCHANGED handle
    /\ UNCHANGED <<global, memory, arg, ver, todo, mask, buf, ghosts>>

WCount(t) ==
    /\ Goto(t, "w_count", "w_list")
    /\ pageNum' = pageNum + 1
    /\ UNCHANGED <<index, pagesList, rwLock, memory, locals, ghosts>>

WList(t) ==
    /\ Goto(t, "w_list", "w_lock")
    /\ pagesList' = pagesList \cup {K(t)}
    /\ UNCHANGED <<index, pageNum, rwLock, memory, locals, ghosts>>

------------------------------------------------------------------------------
(***************************************************************************)
(* Write, once it has a handle.                                            *)
(***************************************************************************)
\* Mutant of TryLock: a test and a set that do not notice the owner.
TryLockBlind(t, from, held, retry) ==
    /\ Goto(t, from, held)
    /\ lock' = [lock EXCEPT ![P(t)] = TRUE]
    /\ retry \in STRING
    /\ UNCHANGED <<global, lastVer, newVer, fast, bits, body, locals, ghosts>>

\* One compare-and-swap on the lock byte; a loser looks the page up again.
TryLock(t, from, held, retry) ==
    /\ \/ /\ Goto(t, from, held)
          /\ ~lock[P(t)]
          /\ lock' = [lock EXCEPT ![P(t)] = TRUE]
       \/ /\ Goto(t, from, retry)
          /\ lock[P(t)]
          /\ UNCHANGED lock
    /\ UNCHANGED <<global, lastVer, newVer, fast, bits, body, locals, ghosts>>

\* Mutant of WLock: spins on the page it has instead of looking it up again.
WLockSpinning(t) == TryLock(t, "w_lock", "w_ver", "w_lock")

WLock(t) == TryLock(t, "w_lock", "w_ver", "w_find")

\* AddNewVer: readers of the page start to retry.
AddNewVer(t, from, to) ==
    /\ Goto(t, from, to)
    /\ newVer' = [newVer EXCEPT ![P(t)] = @ + 1]
    /\ ver' = [ver EXCEPT ![t] = newVer[P(t)] + 1]
    /\ todo' = [todo EXCEPT ![t] = IF arg[t].op = "Write" THEN R(t) ELSE {}]
    /\ UNCHANGED <<global, lock, lastVer, fast, bits, body, arg, handle, mask, buf, ghosts>>

WVer(t) == AddNewVer(t, "w_ver", "w_copy")

\* memcpy into the page body, byte by byte, in no promised order.
WCopy(t) ==
    /\ \/ /\ Goto(t, "w_copy", "w_copy")
          /\ \E x \in todo[t] :
                /\ body' = [body EXCEPT ![P(t)] = [@ EXCEPT ![x] = arg[t].val]]
                /\ todo' = [todo EXCEPT ![t] = @ \ {x}]
       \/ /\ Goto(t, "w_copy", "w_fast")
          /\ todo[t] = {}
          /\ UNCHANGED <<body, todo>>
    /\ UNCHANGED <<global, lock, lastVer, newVer, fast, bits, arg, handle, ver, mask, buf, ghosts>>

\* SetBitMap, first the whole-page flag ...
SetFastBitmap(t, valid, from, to) ==
    /\ Goto(t, from, to)
    /\ fast' = [fast EXCEPT ![P(t)] = IF valid THEN @ \/ R(t) = Pos ELSE FALSE]
    /\ UNCHANGED <<global, lock, lastVer, newVer, bits, body, locals, ghosts>>

\* ... then the bits of the range.
SetBitMap(t, valid, from, to) ==
    /\ Goto(t, from, to)
    /\ bits' = [bits EXCEPT ![P(t)] = IF valid THEN @ \cup R(t) ELSE @ \ R(t)]
    /\ UNCHANGED <<global, lock, lastVer, newVer, fast, body, locals, ghosts>>

WFast(t) == SetFastBitmap(t, TRUE, "w_fast", "w_bits")
WBits(t) == SetBitMap(t, TRUE, "w_bits", "last")

\* SetLastVer, then UnLock, of Write and of DeletePart.
SetLastVer(t) ==
    /\ Goto(t, "last", "unlock")
    /\ lastVer' = [lastVer EXCEPT ![P(t)] = ver[t]]
    /\ UNCHANGED <<global, lock, newVer, fast, bits, body, locals, ghosts>>

UnLock(t) ==
    /\ Goto(t, "unlock", "done")
    /\ lock' = [lock EXCEPT ![P(t)] = FALSE]
    /\ UNCHANGED <<global, lastVer, newVer, fast, bits, body, locals, ghosts>>

------------------------------------------------------------------------------
(***************************************************************************)
(* DeletePart: clear a range; remove the page when nothing valid is left.  *)
(***************************************************************************)
\* Mutant of DFind: does not look whether it found a page.
DFindUnchecked(t) ==
    /\ Goto(t, "d_find", "d_lock")
    /\ handle' = [handle EXCEPT ![t] = index[K(t)]]
    /\ UNCHANGED <<global, memory, arg, ver, todo, mask, buf, ghosts>>

DFind(t) ==
    /\ Goto(t, "d_find", IF index[K(t)] = NoPage THEN "done" ELSE "d_lock")
    /\ handle' = [handle EXCEPT ![t] = index[K(t)]]
    /\ UNCHANGED <<global, memory, arg, ver, todo, mask, buf, ghosts>>

DLock(t) == TryLock(t, "d_lock", "d_ver", "d_find")
DVer(t)  == AddNewVer(t, "d_ver", "d_fast")
DFast(t) == SetFastBitmap(t, FALSE, "d_fast", "d_bits")
DBits(t) == SetBitMap(t, FALSE, "d_bits", "d_empty")

DEmpty(t) ==
    /\ Goto(t, "d_empty", IF bits[P(t)] = {} THEN "d_excl" ELSE "last")
    /\ UNCHANGED <<global, memory, locals, ghosts>>

\* Mutant of Exclusive: takes lock_ while allocators hold it shared.
ExclusiveOverShared(t, from, to) ==
    /\ SafeMode => rwLock >= 0
    /\ rwLock' = IF SafeMode THEN -1 ELSE rwLock
    /\ Goto(t, from, to)
    /\ UNCHANGED <<index, pageNum, pagesList, memory, locals, ghosts>>

\* SafeMode: wait until there is neither an allocator nor a remover.
Exclusive(t, from, to) ==
    /\ SafeMode => rwLock = 0
    /\ rwLock' = IF SafeMode THEN -1 ELSE rwLock
    /\ Goto(t, from, to)
    /\ UNCHANGED <<index, pageNum, pagesList, memory, locals, ghosts>>

DExcl(t) == Exclusive(t, "d_excl", "d_remove")

\* remove(handle) takes the page out of the index if it is still in it.
DRemove(t) ==
    /\ \/ /\ Goto(t, "d_remove", "removed")
          /\ index[K(t)] = P(t)
          /\ index' = [index EXCEPT ![K(t)] = NoPage]
       \/ /\ Goto(t, "d_remove", "d_fail")
          /\ index[K(t)] # P(t)
          /\ UNCHANGED index
    /\ UNCHANGED <<pageNum, pagesList, rwLock, memory, locals, ghosts>>

Release(t, from, to) ==
    /\ Goto(t, from, to)
    /\ rwLock' = IF SafeMode THEN 0 ELSE rwLock
    /\ UNCHANGED <<index, pageNum, pagesList, memory, locals, ghosts>>

\* PAGE_DEL_FAIL: the page is given back, with nothing valid in it.
DFail(t) == Release(t, "d_fail", "last")

------------------------------------------------------------------------------
(***************************************************************************)
(* Delete: the page leaves the index whatever its lock byte says.          *)
(***************************************************************************)
XExcl(t) == Exclusive(t, "x_excl", "x_remove")

\* Mutant of XRemove: counts a page that was not there as removed.
XRemoveUnchecked(t) ==
    /\ Goto(t, "x_remove", "removed")
    /\ index' = [index EXCEPT ![K(t)] = NoPage]
    /\ UNCHANGED <<pageNum, pagesList, rwLock, memory, locals, ghosts>>

XRemove(t) ==
    /\ \/ /\ Goto(t, "x_remove", "removed")
          /\ index[K(t)] # NoPage
          /\ index' = [index EXCEPT ![K(t)] = NoPage]
       \/ /\ Goto(t, "x_remove", "x_absent")
          /\ index[K(t)] = NoPage
          /\ UNCHANGED index
    /\ UNCHANGED <<pageNum, pagesList, rwLock, memory, locals, ghosts>>

XAbsent(t) == Release(t, "x_absent", "done")

\* After a removal, of both deletes.  DeletePart leaves the dead page locked
\* with NEWVER ahead of LASTVER, so whoever still holds it looks it up again.
Removed(t) == Release(t, "removed", "dec")

Dec(t) ==
    /\ Goto(t, "dec", "erase")
    /\ pageNum' = pageNum - 1
    /\ UNCHANGED <<index, pagesList, rwLock, memory, locals, ghosts>>

Erase(t) ==
    /\ Goto(t, "erase", "done")
    /\ pagesList' = pagesList \ {K(t)}
    /\ UNCHANGED <<index, pageNum, rwLock, memory, locals, ghosts>>

------------------------------------------------------------------------------
(***************************************************************************)
(* Read                                                                    *)
(***************************************************************************)
RFind(t) ==
    /\ Goto(t, "r_find", IF index[K(t)] = NoPage THEN "done" ELSE "r_last")
    /\ handle' = [handle EXCEPT ![t] = index[K(t)]]
    /\ UNCHANGED <<global, memory, arg, ver, todo, mask, buf, ghosts>>

RLast(t) ==
    /\ Goto(t, "r_last", "r_new")
    /\ ver' = [ver EXCEPT ![t] = lastVer[P(t)]]
    /\ UNCHANGED <<global, memory, arg, handle, todo, mask, buf, ghosts>>

\* lastVer != newVer: a write is under way, look the page up again.
RNew(t) ==
    /\ Goto(t, "r_new", IF SameByte(ver[t], newVer[P(t)]) THEN "r_fast" ELSE "r_find")
    /\ snap' = [snap EXCEPT ![t] = Content(P(t), R(t))]
    /\ UNCHANGED <<global, memory, locals, accepted, evicted, ops>>

\* The flag saves the scan of the bitmap.
RFast(t) ==
    /\ \/ /\ Goto(t, "r_fast", "r_copy")
          /\ fast[P(t)]
          /\ mask' = [mask EXCEPT ![t] = R(t)]
          /\ todo' = [todo EXCEPT ![t] = R(t)]
       \/ /\ Goto(t, "r_fast", "r_scan")
          /\ ~fast[P(t)]
          /\ mask' = [mask EXCEPT ![t] = {}]
          /\ todo' = [todo EXCEPT ![t] = R(t)]
    /\ buf' = [buf EXCEPT ![t] = Blank]
    /\ UNCHANGED <<global, memory, arg, handle, ver, ghosts>>

\* Look at the valid bits of the range ...
RScan(t) ==
    /\ \/ /\ Goto(t, "r_scan", "r_scan")
          /\ \E x \in todo[t] :
                /\ mask' = [mask EXCEPT ![t] = IF x \in bits[P(t)] THEN @ \cup {x} ELSE @]
                /\ todo' = [todo EXCEPT ![t] = @ \ {x}]
       \/ /\ Goto(t, "r_scan", "r_copy")
          /\ todo[t] = {}
          /\ todo' = [todo EXCEPT ![t] = mask[t]]
          /\ UNCHANGED mask
    /\ UNCHANGED <<global, memory, arg, handle, ver, buf, ghosts>>

\* ... and copy the valid bytes.
RCopy(t) ==
    /\ \/ /\ Goto(t, "r_copy", "r_copy")
          /\ \E x \in todo[t] :
                /\ buf' = [buf EXCEPT ![t] = [@ EXCEPT ![x] = body[P(t)][x]]]
                /\ todo' = [todo EXCEPT ![t] = @ \ {x}]
       \/ /\ Goto(t, "r_copy", "r_check")
          /\ todo[t] = {}
          /\ UNCHANGED <<buf, todo>>
    /\ UNCHANGED <<global, memory, arg, handle, ver, mask, ghosts>>

\* Mutant of RCheck: trusts the comparison made before the copy.
RCheckTrusting(t) ==
    /\ Goto(t, "r_check", "done")
    /\ accepted' = [accepted EXCEPT ![t] = newVer[P(t)]]
    /\ UNCHANGED <<global, memory, locals, snap, evicted, ops>>

\* Keep the copy only if NEWVER still is the version read first.
RCheck(t) ==
    /\ Goto(t, "r_check", IF SameByte(ver[t], newVer[P(t)]) THEN "done" ELSE "r_find")
    /\ accepted' = [accepted EXCEPT ![t] = newVer[P(t)]]
    /\ UNCHANGED <<global, memory, locals, snap, evicted, ops>>

------------------------------------------------------------------------------
WriteStep(t) ==
    \/ WFind(t) \/ WShared(t) \/ WAlloc(t) \/ WInit(t) \/ WInsert(t) \/ WRefind(t)
    \/ WCount(t) \/ WList(t) \/ WLock(t) \/ WVer(t) \/ WCopy(t) \/ WFast(t) \/ WBits(t)
    \/ SetLastVer(t) \/ UnLock(t)

DeleteStep(t) ==
    \/ DFind(t) \/ DLock(t) \/ DVer(t) \/ DFast(t) \/ DBits(t) \/ DEmpty(t) \/ DExcl(t)
    \/ DRemove(t) \/ DFail(t) \/ XExcl(t) \/ XRemove(t) \/ XAbsent(t)
    \/ Removed(t) \/ Dec(t) \/ Erase(t)

ReadStep(t) ==
    \/ RFind(t) \/ RLast(t) \/ RNew(t) \/ RFast(t) \/ RScan(t) \/ RCopy(t) \/ RCheck(t)

Step(t) == WriteStep(t) \/ DeleteStep(t) \/ ReadStep(t) \/ Return(t)

Next == \E t \in Threads : Call(t) \/ Step(t)

Spec == Init /\ [][Next]_vars

------------------------------------------------------------------------------
(***************************************************************************)
(* Properties                                                              *)
(***************************************************************************)
WriteCS  == {"w_ver", "w_copy", "w_fast", "w_bits"}
DeleteCS == {"d_ver", "d_fast", "d_bits", "d_empty", "d_excl", "d_remove", "d_fail"}
ExitCS   == {"last", "unlock"}
\* A removed page is never unlocked by the DeletePart that removed it.
DeadCS   == {"removed", "dec", "erase"}

\* Thread t owns the lock byte of its page.
Owns(t) ==
    \/ pc[t] \in WriteCS \cup DeleteCS \cup ExitCS
    \/ pc[t] \in DeadCS /\ arg[t].op = "DeletePart"

PCs == {"idle", "done", "null", "w_find", "w_shared", "w_alloc", "w_init", "w_insert",
        "w_refind", "w_count", "w_list", "w_lock", "d_find", "d_lock", "x_excl",
        "x_remove", "x_absent", "r_find", "r_last", "r_new", "r_fast", "r_scan",
        "r_copy", "r_check"} \cup WriteCS \cup DeleteCS \cup ExitCS \cup DeadCS

\* Where the code dereferences its handle.
NeedsHandle == {"w_init", "w_insert", "w_count", "w_list", "w_lock", "d_lock", "r_last",
                "r_new", "r_fast", "r_scan", "r_copy", "r_check"}
               \cup WriteCS \cup DeleteCS \cup ExitCS

Data == [Pos -> Values \cup {NoVal}]

\* Every variable has the type its C++ counterpart has, and wherever the code
\* dereferences a handle the handle is not null.  The version bytes are
\* counters, and pageNum_ may be below zero (wrapped) for a moment.
TypeOK ==
    /\ index \in [Keys -> Pages \cup {NoPage}]
    /\ pageNum \in Int /\ pagesList \subseteq Keys /\ rwLock \in Int
    /\ lock \in [Pages -> BOOLEAN] /\ fast \in [Pages -> BOOLEAN]
    /\ lastVer \in [Pages -> Nat] /\ newVer \in [Pages -> Nat]
    /\ bits \in [Pages -> SUBSET Pos] /\ body \in [Pages -> Data]
    /\ pc \in [Threads -> PCs] /\ arg \in [Threads -> Args]
    /\ handle \in [Threads -> Pages \cup {NoPage}]
    /\ \A t \in Threads : pc[t] \in NeedsHandle => handle[t] \in Pages
    /\ ver \in [Threads -> Nat]
    /\ todo \in [Threads -> SUBSET Pos] /\ mask \in [Threads -> SUBSET Pos]
    /\ buf \in [Threads -> Data] /\ snap \in [Threads -> Data]
    /\ accepted \in [Threads -> Nat] /\ evicted \in Nat /\ ops \in Nat

\* The lock byte of a page has at most one owner: no two threads change the
\* same page at once (Lock/UnLock of Write and DeletePart), even when the page
\* was removed, evicted or replaced in the meantime.
PageLockExclusion ==
    \A t, u \in Threads : t # u /\ Owns(t) /\ Owns(u) => P(t) # P(u)

\* A Read that returns data returns what the page held at one instant of the
\* call: never half of a Write, never a byte whose validity changed under it.
\* The version byte vouches for that only while fewer than VerMod writes fall
\* into one read.
SnapshotRead ==
    \A t \in Threads :
        /\ pc[t] = "done" /\ arg[t].op = "Read" /\ P(t) # NoPage
        /\ accepted[t] - ver[t] < VerMod
        => buf[t] = snap[t]

\* pageNum_, from which GetCacheSize is computed, counts the pages of the index
\* plus the ones CacheLib evicted behind its back, up to the calls that are
\* between their change of the index and their change of the counter.
CountAccurate ==
    LET adding   == {t \in Threads : pc[t] = "w_count"}
        removing == {t \in Threads : pc[t] \in {"removed", "dec"}}
        cached   == {k \in Keys : index[k] # NoPage}
    IN  pageNum + Cardinality(adding) - Cardinality(removing)
            = Cardinality(cached) + evicted

\* SafeMode: while a page is taken out of the index nobody allocates, and only
\* one thread takes pages out.
SafeModeExclusion ==
    SafeMode => \A t, u \in Threads :
        t # u /\ pc[t] \in {"d_remove", "d_fail", "x_remove", "x_absent", "removed"}
        => pc[u] \notin {"d_remove", "d_fail", "x_remove", "x_absent", "removed",
                         "w_alloc", "w_init"}

\* Under the accessor's file lock, Write always gets a handle as long as CacheLib
\* evicts nothing: the page it lost the race to insert cannot be deleted before it
\* is found again.  (An eviction in that window does leave it with no handle.)
NoNullHandle == FileLocked /\ evicted = 0 => \A t \in Threads : pc[t] # "null"

\* Under the accessor's file lock, whenever no call that changes a key is under
\* way pagesList_ (which Delete and Truncate of a file walk) has the key exactly
\* if the page is cached, provided CacheLib evicted nothing.
ListAccurate ==
    FileLocked /\ evicted = 0 =>
        \A k \in Keys :
            (\A t \in Threads : pc[t] \notin {"idle", "done"} => arg[t].key # k \/ arg[t].op = "Read")
            => (k \in pagesList <=> index[k] # NoPage)

\* Every call returns (or dies of the null handle): the loops around the lock
\* byte, the version bytes and lock_ end once the other calls do, even on a page
\* that DeletePart removed and left locked for ever.
CallsReturn == \A t \in Threads : (pc[t] # "idle") ~> (pc[t] \in {"idle", "null"})

------------------------------------------------------------------------------
\* The operating system runs every thread; a call, once made, takes its steps.
FairSpec == Spec /\ \A t \in Threads : WF_vars(Step(t))
==============================================================================
