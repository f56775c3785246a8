--------------------------- MODULE PageCacheProofs ---------------------------
(***************************************************************************)
(* Proofs about PageCache for every number of threads, keys, pages,        *)
(* positions and values, and every bound on the calls, and about the       *)
(* bitmap of a page (PageBitmap) for every width of a byte, of a word and  *)
(* of a page, and every bitmap and range.  Four parts: the types and the   *)
(* page lock; snapshots; the index, its counter, its list and the lock of  *)
(* SafeMode; the bitmap.                                                   *)
(***************************************************************************)
EXTENDS PageCache, PageBitmap, FiniteSetTheorems, TLAPS

\* A caller always has arguments to pass.
LEMMA ArgsExist == \E a \in Args : TRUE
<1>1. PICK k \in Keys : TRUE  BY PageCacheAssumption
<1>2. PICK r \in Ranges : TRUE  BY PageCacheAssumption
<1>3. PICK v \in Values : TRUE  BY PageCacheAssumption
<1>4. [op |-> "Write", key |-> k, rng |-> r, val |-> v] \in Args
  BY DEF Args, OpNames
<1> QED BY <1>4

\* The key and the range of a call have their types.
LEMMA ArgType ==
    ASSUME TypeOK, NEW t \in Threads
    PROVE  K(t) \in Keys /\ R(t) \subseteq Pos /\ R(t) \in Ranges /\ arg[t].val \in Values
BY PageCacheAssumption DEF TypeOK, Args, K, R

LEMMA InitTypeOK == Init => TypeOK
<1> SUFFICES ASSUME Init PROVE TypeOK  OBVIOUS
<1>1. (CHOOSE a \in Args : TRUE) \in Args  BY ArgsExist
<1>2. Blank \in Data  BY DEF Blank, Data
<1> QED BY <1>1, <1>2 DEF Init, TypeOK, PCs, NeedsHandle, WriteCS, DeleteCS, ExitCS

\* Types are preserved by every step of a thread.
LEMMA NextTypeOK == TypeOK /\ [Next]_vars => TypeOK'
<1> SUFFICES ASSUME TypeOK, [Next]_vars PROVE TypeOK'  OBVIOUS
<1> USE DEF TypeOK, PCs, NeedsHandle, WriteCS, DeleteCS, ExitCS, DeadCS, P, Goto,
            global, memory, locals, ghosts
<1>1. ASSUME NEW t \in Threads, Call(t) PROVE TypeOK'
  BY <1>1 DEF Call, Entry, OpNames, Args
<1>2. ASSUME NEW t \in Threads, WriteStep(t) PROVE TypeOK'
  <2> K(t) \in Keys /\ R(t) \subseteq Pos /\ arg[t].val \in Values  BY ArgType
  <2>1. CASE WFind(t)
    <3>1. CASE index[K(t)] # NoPage  BY <2>1, <3>1 DEF WFind
    <3>2. CASE index[K(t)] = NoPage  BY <2>1, <3>2 DEF WFind
    <3> QED BY <3>1, <3>2
  <2>2. CASE WShared(t)  BY <2>2 DEF WShared
  <2>3. CASE WAlloc(t)  BY <2>3 DEF WAlloc, Free
  <2>4. CASE WInit(t)  BY <2>4 DEF WInit
  <2>5. CASE WInsert(t)
    <3>1. CASE index[K(t)] # NoPage /\ ~EnableNvmCache  BY <2>5, <3>1 DEF WInsert
    <3>2. CASE index[K(t)] # NoPage /\ EnableNvmCache  BY <2>5, <3>2 DEF WInsert
    <3>3. CASE index[K(t)] = NoPage  BY <2>5, <3>3 DEF WInsert
    <3> QED BY <3>1, <3>2, <3>3
  <2>6. CASE WRefind(t)
    <3>1. CASE index[K(t)] # NoPage  BY <2>6, <3>1 DEF WRefind
    <3>2. CASE index[K(t)] = NoPage  BY <2>6, <3>2 DEF WRefind
    <3> QED BY <3>1, <3>2
  <2>7. CASE WCount(t)  BY <2>7 DEF WCount
  <2>8. CASE WList(t)  BY <2>8 DEF WList
  <2>9. CASE WLock(t)  BY <2>9 DEF WLock, TryLock
  <2>10. CASE WVer(t)  BY <2>10 DEF WVer, AddNewVer
  <2>11. CASE WCopy(t)
    <3>1. CASE todo[t] = {}  BY <2>11, <3>1 DEF WCopy
    <3>2. ASSUME NEW x \in todo[t], todo[t] # {},
                 body' = [body EXCEPT ![P(t)] = [@ EXCEPT ![x] = arg[t].val]]
          PROVE  body' \in [Pages -> Data]
      BY <2>11, <3>2 DEF WCopy, Data
    <3>3. CASE todo[t] # {}  BY <2>11, <3>2, <3>3 DEF WCopy
    <3> QED BY <3>1, <3>3
  <2>12. CASE WFast(t)  BY <2>12 DEF WFast, SetFastBitmap
  <2>13. CASE WBits(t)  BY <2>13 DEF WBits, SetBitMap
  <2>14. CASE SetLastVer(t)  BY <2>14 DEF SetLastVer
  <2>15. CASE UnLock(t)  BY <2>15 DEF UnLock
  <2> QED BY <1>2, <2>1, <2>2, <2>3, <2>4, <2>5, <2>6, <2>7, <2>8, <2>9, <2>10,
             <2>11, <2>12, <2>13, <2>14, <2>15 DEF WriteStep
<1>3. ASSUME NEW t \in Threads, DeleteStep(t) PROVE TypeOK'
  <2>1. CASE DFind(t)  BY <2>1, ArgType DEF DFind
  <2>2. CASE DLock(t)  BY <2>2 DEF DLock, TryLock
  <2>3. CASE DVer(t)  BY <2>3, ArgType DEF DVer, AddNewVer
  <2>4. CASE DFast(t)  BY <2>4 DEF DFast, SetFastBitmap
  <2>5. CASE DBits(t)  BY <2>5, ArgType DEF DBits, SetBitMap
  <2>6. CASE DEmpty(t)  BY <2>6 DEF DEmpty
  <2>7. CASE DExcl(t) \/ XExcl(t)  BY <2>7 DEF DExcl, XExcl, Exclusive
  <2>8. CASE DRemove(t)  BY <2>8, ArgType DEF DRemove
  <2>9. CASE DFail(t) \/ XAbsent(t) \/ Removed(t)
    BY <2>9 DEF DFail, XAbsent, Removed, Release
  <2>10. CASE XRemove(t)
    <3>1. CASE index[K(t)] # NoPage  BY <2>10, <3>1, ArgType DEF XRemove
    <3>2. CASE index[K(t)] = NoPage  BY <2>10, <3>2 DEF XRemove
    <3> QED BY <3>1, <3>2
  <2>11. CASE Dec(t)  BY <2>11 DEF Dec
  <2>12. CASE Erase(t)  BY <2>12 DEF Erase
  <2> QED BY <1>3, <2>1, <2>2, <2>3, <2>4, <2>5, <2>6, <2>7, <2>8, <2>9, <2>10,
             <2>11, <2>12 DEF DeleteStep
<1>4. ASSUME NEW t \in Threads, ReadStep(t) PROVE TypeOK'
  <2>1. CASE RFind(t)  BY <2>1, ArgType DEF RFind
  <2>2. CASE RLast(t)  BY <2>2 DEF RLast
  <2>3. CASE RNew(t)
    <3>1. Content(P(t), R(t)) \in Data
      BY <2>3 DEF Content, Data, RNew
    <3> QED BY <2>3, <3>1 DEF RNew
  <2>4. CASE RFast(t)
    <3>1. Blank \in Data /\ R(t) \subseteq Pos  BY ArgType DEF Blank, Data
    <3>2. CASE fast[P(t)]  BY <2>4, <3>1, <3>2 DEF RFast
    <3>3. CASE ~fast[P(t)]  BY <2>4, <3>1, <3>3 DEF RFast
    <3> QED BY <3>2, <3>3
  <2>5. CASE RScan(t)  BY <2>5 DEF RScan
  <2>6. CASE RCopy(t)
    <3>1. CASE todo[t] = {}  BY <2>6, <3>1 DEF RCopy
    <3>2. ASSUME NEW x \in todo[t], pc[t] = "r_copy",
                 buf' = [buf EXCEPT ![t] = [@ EXCEPT ![x] = body[P(t)][x]]]
          PROVE  buf' \in [Threads -> Data]
      BY <3>2 DEF Data
    <3>3. CASE todo[t] # {}  BY <2>6, <3>2, <3>3 DEF RCopy
    <3> QED BY <3>1, <3>3
  <2>7. CASE RCheck(t)  BY <2>7 DEF RCheck
  <2> QED BY <1>4, <2>1, <2>2, <2>3, <2>4, <2>5, <2>6, <2>7 DEF ReadStep
<1>5. ASSUME NEW t \in Threads, Return(t) PROVE TypeOK'
  BY <1>5 DEF Return, Blank, Data
<1>6. CASE UNCHANGED vars  BY <1>6 DEF vars
<1> QED BY <1>1, <1>2, <1>3, <1>4, <1>5, <1>6 DEF Next, Step

\* Spec => []TypeOK: every variable keeps its type and no null handle is
\* dereferenced after a lookup that was checked.
THEOREM TypeCorrect == Spec => []TypeOK
BY InitTypeOK, NextTypeOK, PTL DEF Spec

------------------------------------------------------------------------------
(***************************************************************************)
(* The page lock                                                           *)
(***************************************************************************)
\* A page that was just allocated and is not in the index yet.
Fresh(t) == pc[t] \in {"w_init", "w_insert"}

\* Where Delete, which locks no page, is before it removes one.
XCS == {"x_excl", "x_remove", "x_absent"}

\* An owner's page has its lock byte set, ...
OwnersLocked == \A t \in Threads : Owns(t) => P(t) \in Pages /\ lock[P(t)]

\* ... a fresh page is known to the thread that allocated it only, ...
FreshPrivate ==
    \A t \in Threads : Fresh(t) =>
        /\ \A u \in Threads : u # t => P(u) # P(t)
        /\ \A k \in Keys : index[k] # P(t)

\* ... and a page is stored under one key.
IndexInjective ==
    \A j, k \in Keys : index[j] = index[k] /\ index[j] # NoPage => j = k

DeleteCalled == \A t \in Threads : pc[t] \in XCS => arg[t].op = "Delete"

\* The inductive invariant.
LockInv ==
    /\ OwnersLocked /\ PageLockExclusion /\ FreshPrivate /\ IndexInjective /\ DeleteCalled

LEMMA InitLockInv == Init => LockInv
BY DEF Init, LockInv, OwnersLocked, PageLockExclusion, FreshPrivate, IndexInjective,
       DeleteCalled, Owns, Fresh, XCS, WriteCS, DeleteCS, ExitCS, DeadCS

\* What most steps do: nothing to the locks, the handles and the index, and
\* the thread neither becomes an owner nor has a fresh page nor starts a Delete.
LEMMA QuietStep ==
    ASSUME TypeOK, LockInv, NEW t \in Threads,
           UNCHANGED <<index, lock, handle, arg>>,
           \A u \in Threads : u # t => pc'[u] = pc[u],
           Owns(t)' => Owns(t), Fresh(t)' => Fresh(t), pc'[t] \in XCS => pc[t] \in XCS
    PROVE  LockInv'
<1>1. \A u \in Threads : (Owns(u)' => Owns(u)) /\ P(u)' = P(u)
  BY DEF Owns, P
<1>2. \A u \in Threads : Fresh(u)' => Fresh(u)
  BY DEF Fresh
<1>3. OwnersLocked'  BY <1>1 DEF LockInv, OwnersLocked
<1>4. PageLockExclusion'  BY <1>1 DEF LockInv, PageLockExclusion
<1>5. FreshPrivate'  BY <1>1, <1>2 DEF LockInv, FreshPrivate
<1>6. IndexInjective' /\ DeleteCalled'  BY DEF LockInv, IndexInjective, DeleteCalled
<1> QED BY <1>3, <1>4, <1>5, <1>6 DEF LockInv

\* Looking a page up: the thread owns nothing afterwards and its handle is NoPage
\* or a page of the index.
LEMMA LookupStep ==
    ASSUME TypeOK, LockInv, NEW t \in Threads, NEW p,
           p = NoPage \/ \E k \in Keys : p = index[k],
           handle' = [handle EXCEPT ![t] = p],
           UNCHANGED <<index, lock, arg>>,
           \A u \in Threads : u # t => pc'[u] = pc[u],
           ~Owns(t)', ~Fresh(t)', pc'[t] \notin XCS
    PROVE  LockInv'
<1>1. \A u \in Threads : u # t => Owns(u)' = Owns(u) /\ P(u)' = P(u) /\ Fresh(u)' = Fresh(u)
  BY DEF Owns, P, Fresh, TypeOK
<1>2. P(t)' = p  BY DEF P, TypeOK
<1>3. \A u \in Threads : Fresh(u) => P(u) # p
  BY PageCacheAssumption DEF LockInv, FreshPrivate, TypeOK, Fresh, P, NeedsHandle
<1>4. OwnersLocked'  BY <1>1 DEF LockInv, OwnersLocked
<1>5. PageLockExclusion'  BY <1>1 DEF LockInv, PageLockExclusion
<1>6. FreshPrivate'  BY <1>1, <1>2, <1>3 DEF LockInv, FreshPrivate
<1>7. IndexInjective' /\ DeleteCalled'  BY DEF LockInv, IndexInjective, DeleteCalled
<1> QED BY <1>4, <1>5, <1>6, <1>7 DEF LockInv
\* Taking a page out of the index.
LEMMA RemovalStep ==
    ASSUME TypeOK, LockInv, NEW t \in Threads, NEW k \in Keys,
           index' = [index EXCEPT ![k] = NoPage],
           UNCHANGED <<lock, handle, arg>>,
           \A u \in Threads : u # t => pc'[u] = pc[u],
           Owns(t)' => Owns(t), Fresh(t)' => Fresh(t), pc'[t] \in XCS => pc[t] \in XCS
    PROVE  LockInv'
<1>1. \A u \in Threads : (Owns(u)' => Owns(u)) /\ P(u)' = P(u) /\ (Fresh(u)' => Fresh(u))
  BY DEF Owns, P, Fresh
<1>2. OwnersLocked' /\ PageLockExclusion'
  BY <1>1 DEF LockInv, OwnersLocked, PageLockExclusion
<1>3. FreshPrivate'
  <2> SUFFICES ASSUME NEW u \in Threads, Fresh(u)'
               PROVE  /\ \A w \in Threads : w # u => P(w)' # P(u)'
                      /\ \A j \in Keys : index'[j] # P(u)'
    BY DEF FreshPrivate
  <2>1. P(u) \in Pages  BY <1>1 DEF TypeOK, Fresh, NeedsHandle, P
  <2> QED BY <1>1, <2>1, PageCacheAssumption DEF LockInv, FreshPrivate, TypeOK
<1>4. IndexInjective'  BY DEF LockInv, IndexInjective, TypeOK
<1>5. DeleteCalled'  BY DEF LockInv, DeleteCalled
<1> QED BY <1>2, <1>3, <1>4, <1>5 DEF LockInv

\* A compare-and-swap on the lock byte.
LEMMA TryLockStep ==
    ASSUME TypeOK, LockInv, NEW t \in Threads, NEW from, NEW held, NEW retry,
           TryLock(t, from, held, retry), from \in {"w_lock", "d_lock"},
           held \in {"w_ver", "d_ver"}, retry \in {"w_find", "d_find"}
    PROVE  LockInv'
<1> USE DEF TryLock, Goto, global, locals
<1>1. CASE lock[P(t)]
  <2>1. UNCHANGED <<index, lock, handle, arg>> /\ pc' = [pc EXCEPT ![t] = retry]
    BY <1>1
  <2>2. ~Owns(t)' /\ ~Fresh(t)' /\ pc'[t] \notin XCS
    BY <2>1 DEF TypeOK, Owns, Fresh, XCS, WriteCS, DeleteCS, ExitCS, DeadCS
  <2>3. \A u \in Threads : u # t => pc'[u] = pc[u]  BY <2>1 DEF TypeOK
  <2> QED BY <2>1, <2>2, <2>3, QuietStep
<1>2. CASE ~lock[P(t)]
  <2>1. /\ UNCHANGED <<index, handle, arg>> /\ pc' = [pc EXCEPT ![t] = held]
        /\ lock' = [lock EXCEPT ![P(t)] = TRUE]
        /\ pc[t] = from
    BY <1>2
  <2>2. P(t) \in Pages  BY <2>1 DEF TypeOK, NeedsHandle, P
  <2>3. \A u \in Threads : P(u)' = P(u)  BY <2>1 DEF P
  <2>4. \A u \in Threads : u # t => Owns(u)' = Owns(u) /\ Fresh(u)' = Fresh(u)
    BY <2>1 DEF Owns, Fresh, TypeOK
  <2>5. ~Fresh(t)' /\ pc'[t] \notin XCS  BY <2>1 DEF TypeOK, Fresh, XCS
  <2>6. \A u \in Threads : u # t /\ Owns(u) => P(u) # P(t)
    BY <1>2 DEF LockInv, OwnersLocked
  <2>7. OwnersLocked'
    <3>1. lock'[P(t)] /\ \A p \in Pages : lock[p] => lock'[p]  BY <2>1, <2>2 DEF TypeOK
    <3> QED BY <2>2, <2>3, <2>4, <3>1 DEF LockInv, OwnersLocked
  <2>8. PageLockExclusion'  BY <2>3, <2>4, <2>6 DEF LockInv, PageLockExclusion
  <2>9. FreshPrivate'  BY <2>1, <2>3, <2>4, <2>5 DEF LockInv, FreshPrivate
  <2>10. IndexInjective'  BY <2>1 DEF LockInv, IndexInjective
  <2>11. DeleteCalled'  BY <2>1, <2>5 DEF LockInv, DeleteCalled, TypeOK
  <2> QED BY <2>7, <2>8, <2>9, <2>10, <2>11 DEF LockInv
<1> QED BY <1>1, <1>2

\* Clearing the lock byte of a page that no other thread owns.
LEMMA ClearStep ==
    ASSUME TypeOK, LockInv, NEW t \in Threads,
           P(t) \in Pages, \A u \in Threads : u # t /\ Owns(u) => P(u) # P(t),
           lock' = [lock EXCEPT ![P(t)] = FALSE],
           UNCHANGED <<index, handle, arg>>,
           \A u \in Threads : u # t => pc'[u] = pc[u],
           ~Owns(t)', Fresh(t)' => Fresh(t), pc'[t] \notin XCS
    PROVE  LockInv'
<1>1. \A u \in Threads : P(u)' = P(u) /\ (Fresh(u)' => Fresh(u)) /\ (Owns(u)' => Owns(u) /\ u # t)
  BY DEF P, Fresh, Owns
<1>2. OwnersLocked'
  <2> SUFFICES ASSUME NEW u \in Threads, Owns(u)' PROVE P(u)' \in Pages /\ lock'[P(u)']
    BY DEF OwnersLocked
  <2>1. Owns(u) /\ P(u) # P(t) /\ P(u)' = P(u)  BY <1>1
  <2> QED BY <2>1 DEF LockInv, OwnersLocked, TypeOK
<1>3. PageLockExclusion'  BY <1>1 DEF LockInv, PageLockExclusion
<1>4. FreshPrivate'  BY <1>1 DEF LockInv, FreshPrivate
<1>5. IndexInjective' /\ DeleteCalled'  BY DEF LockInv, IndexInjective, DeleteCalled
<1> QED BY <1>2, <1>3, <1>4, <1>5 DEF LockInv

\* allocate
LEMMA AllocStep ==
    ASSUME TypeOK, LockInv, NEW t \in Threads, WAlloc(t)
    PROVE  LockInv'
<1> USE DEF WAlloc, Goto
<1>0. /\ UNCHANGED <<lock, arg>>
      /\ \A u \in Threads : u # t => pc'[u] = pc[u]
      /\ pc[t] = "w_alloc" /\ pc'[t] \in {"w_init", "null"}
  BY DEF TypeOK, memory
<1>1. ~Owns(t)' /\ pc'[t] \notin XCS /\ ~Owns(t)
  BY <1>0 DEF Owns, XCS, WriteCS, DeleteCS, ExitCS, DeadCS
<1>2. CASE UNCHANGED <<index, handle>> /\ pc'[t] = "null"
  BY <1>0, <1>1, <1>2, QuietStep DEF Fresh
<1>3. ASSUME NEW p \in Pages, handle' = [handle EXCEPT ![t] = p], Unreferenced(p),
             \A k \in Keys : index'[k] # p,
             \A k \in Keys : index'[k] = index[k] \/ index'[k] = NoPage
      PROVE  LockInv'
  <2>1. \A u \in Threads : u # t => Owns(u)' = Owns(u) /\ P(u)' = P(u) /\ Fresh(u)' = Fresh(u)
    BY <1>0, <1>3 DEF Owns, P, Fresh, TypeOK
  <2>2. P(t)' = p /\ \A u \in Threads : P(u) # p
    BY <1>3 DEF P, TypeOK, Unreferenced
  <2>3. OwnersLocked'  BY <1>0, <1>1, <2>1 DEF LockInv, OwnersLocked
  <2>4. PageLockExclusion'  BY <1>1, <2>1 DEF LockInv, PageLockExclusion
  <2>5. FreshPrivate'
    <3> SUFFICES ASSUME NEW u \in Threads, Fresh(u)'
                 PROVE  /\ \A w \in Threads : w # u => P(w)' # P(u)'
                        /\ \A k \in Keys : index'[k] # P(u)'
      BY DEF FreshPrivate
    <3>1. CASE u = t  BY <1>3, <2>1, <2>2, <3>1
    <3>2. CASE u # t
      <4>1. Fresh(u) /\ P(u)' = P(u)  BY <2>1, <3>2
      <4>2. P(u) \in Pages /\ P(u) # NoPage
        BY <4>1, PageCacheAssumption DEF TypeOK, Fresh, NeedsHandle, P
      <4>3. /\ \A w \in Threads : w # u => P(w) # P(u)
            /\ \A k \in Keys : index[k] # P(u)
        BY <4>1 DEF LockInv, FreshPrivate
      <4> QED BY <1>3, <2>1, <2>2, <4>1, <4>2, <4>3
    <3> QED BY <3>1, <3>2
  <2>6. IndexInjective'  BY <1>3 DEF LockInv, IndexInjective
  <2>7. DeleteCalled'  BY <1>0, <1>1 DEF LockInv, DeleteCalled
  <2> QED BY <2>3, <2>4, <2>5, <2>6, <2>7 DEF LockInv
<1>4. CASE UNCHANGED index /\ \E p \in Free : handle' = [handle EXCEPT ![t] = p]
  <2>1. PICK p \in Free : handle' = [handle EXCEPT ![t] = p]  BY <1>4
  <2> QED BY <1>3, <1>4, <2>1 DEF Free
<1>5. ASSUME NEW k \in Keys, index[k] # NoPage, Unreferenced(index[k]),
             handle' = [handle EXCEPT ![t] = index[k]],
             index' = [index EXCEPT ![k] = NoPage]
      PROVE  LockInv'
  <2>1. index[k] \in Pages  BY <1>5 DEF TypeOK
  <2>2. \A j \in Keys : index'[j] # index[k]
    BY <1>5 DEF LockInv, IndexInjective, TypeOK
  <2>3. \A j \in Keys : index'[j] = index[j] \/ index'[j] = NoPage  BY <1>5 DEF TypeOK
  <2> QED BY <1>3, <1>5, <2>1, <2>2, <2>3
<1> QED BY <1>2, <1>4, <1>5 DEF TypeOK
\* insert or insertOrReplace
LEMMA InsertStep ==
    ASSUME TypeOK, LockInv, NEW t \in Threads, WInsert(t)
    PROVE  LockInv'
<1> USE DEF WInsert, Goto
<1>0. /\ UNCHANGED <<lock, arg>>
      /\ \A u \in Threads : u # t => pc'[u] = pc[u]
      /\ pc[t] = "w_insert" /\ pc'[t] \in {"w_count", "w_lock", "w_refind"}
      /\ K(t) \in Keys
  BY ArgType DEF TypeOK, memory
<1>1. ~Owns(t)' /\ ~Fresh(t)' /\ pc'[t] \notin XCS /\ Fresh(t)
  BY <1>0 DEF Owns, Fresh, XCS, WriteCS, DeleteCS, ExitCS, DeadCS
<1>2. CASE UNCHANGED index /\ handle' = [handle EXCEPT ![t] = NoPage]
  BY <1>0, <1>1, <1>2, LookupStep
<1>3. CASE UNCHANGED handle /\ index' = [index EXCEPT ![K(t)] = P(t)]
  <2>1. \A u \in Threads : P(u)' = P(u)  BY <1>3 DEF P
  <2>2. \A u \in Threads : u # t => Owns(u)' = Owns(u) /\ Fresh(u)' = Fresh(u)
    BY <1>0 DEF Owns, Fresh
  <2>3. /\ \A u \in Threads : u # t => P(u) # P(t)
        /\ \A k \in Keys : index[k] # P(t)
    BY <1>1 DEF LockInv, FreshPrivate
  <2>4. \A k \in Keys : index'[k] = IF k = K(t) THEN P(t) ELSE index[k]
    BY <1>3 DEF TypeOK
  <2>5. OwnersLocked'  BY <1>0, <1>1, <2>1, <2>2 DEF LockInv, OwnersLocked
  <2>6. PageLockExclusion'  BY <1>1, <2>1, <2>2 DEF LockInv, PageLockExclusion
  <2>7. FreshPrivate'  BY <1>1, <2>1, <2>2, <2>3, <2>4 DEF LockInv, FreshPrivate
  <2>8. IndexInjective'  BY <2>3, <2>4 DEF LockInv, IndexInjective
  <2>9. DeleteCalled'  BY <1>0, <1>1 DEF LockInv, DeleteCalled
  <2> QED BY <2>5, <2>6, <2>7, <2>8, <2>9 DEF LockInv
<1> QED BY <1>2, <1>3

\* Every step keeps the lock invariant: the steps that change a lock byte, a
\* handle or the index one by one, the others as quiet steps.
LEMMA NextLockInv == TypeOK /\ LockInv /\ [Next]_vars => LockInv'
<1> SUFFICES ASSUME TypeOK, LockInv, [Next]_vars PROVE LockInv'  OBVIOUS
<1> USE DEF Goto, global, memory, locals, ghosts
<1>1. ASSUME NEW t \in Threads, Call(t) PROVE LockInv'
  <2>1. PICK a \in Args : arg' = [arg EXCEPT ![t] = a] /\ pc[t] = "idle"
                          /\ pc' = [pc EXCEPT ![t] = Entry[a.op]]
    BY <1>1 DEF Call
  <2>2. a.op \in OpNames  BY DEF Args
  <2>3. UNCHANGED <<index, lock, handle>>  BY <1>1 DEF Call
  <2>4. pc'[t] \in {"w_find", "r_find", "d_find", "x_excl"} /\ (pc'[t] = "x_excl" => a.op = "Delete")
    BY <2>1, <2>2 DEF TypeOK, Entry, OpNames
  <2>5. \A u \in Threads : u # t => pc'[u] = pc[u] /\ arg'[u] = arg[u]
    BY <2>1 DEF TypeOK
  <2>6. arg'[t] = a  BY <2>1 DEF TypeOK
  <2>7. ~Owns(t)' /\ ~Fresh(t)'
    BY <2>4 DEF Owns, Fresh, WriteCS, DeleteCS, ExitCS, DeadCS
  <2>8. \A u \in Threads : P(u)' = P(u) /\ (u # t => Owns(u)' = Owns(u) /\ Fresh(u)' = Fresh(u))
    BY <2>3, <2>5 DEF P, Owns, Fresh
  <2>9. OwnersLocked' /\ PageLockExclusion'
    BY <2>3, <2>7, <2>8 DEF LockInv, OwnersLocked, PageLockExclusion
  <2>10. FreshPrivate'  BY <2>3, <2>7, <2>8 DEF LockInv, FreshPrivate
  <2>11. IndexInjective'  BY <2>3 DEF LockInv, IndexInjective
  <2>12. DeleteCalled'  BY <2>4, <2>5, <2>6 DEF LockInv, DeleteCalled, XCS
  <2> QED BY <2>9, <2>10, <2>11, <2>12 DEF LockInv
<1>2. ASSUME NEW t \in Threads,
             WShared(t) \/ WCount(t) \/ WList(t) \/ WVer(t) \/ WCopy(t) \/ WFast(t)
             \/ WBits(t) \/ SetLastVer(t) \/ DVer(t) \/ DFast(t) \/ DBits(t) \/ DEmpty(t)
             \/ DExcl(t) \/ DFail(t) \/ XExcl(t) \/ XAbsent(t) \/ Removed(t) \/ Dec(t) \/ Erase(t)
             \/ RLast(t) \/ RNew(t) \/ RFast(t) \/ RScan(t) \/ RCopy(t) \/ RCheck(t)
      PROVE  LockInv'
  <2>1. UNCHANGED <<index, lock, handle, arg>>
    BY <1>2 DEF WShared, WCount, WList, WVer, AddNewVer, WCopy, WFast, WBits, SetFastBitmap,
                SetBitMap, SetLastVer, DVer, DFast, DBits, DEmpty, DExcl, Exclusive, DFail,
                Release, XExcl, XAbsent, Removed, Dec, Erase, RLast, RNew, RFast, RScan,
                RCopy, RCheck
  <2>2. \A u \in Threads : u # t => pc'[u] = pc[u]
    BY <1>2 DEF TypeOK, WShared, WCount, WList, WVer, AddNewVer, WCopy, WFast, WBits,
                SetFastBitmap, SetBitMap, SetLastVer, DVer, DFast, DBits, DEmpty, DExcl,
                Exclusive, DFail, Release, XExcl, XAbsent, Removed, Dec, Erase, RLast, RNew,
                RFast, RScan, RCopy, RCheck
  <2>3. (Owns(t)' => Owns(t)) /\ (Fresh(t)' => Fresh(t)) /\ (pc'[t] \in XCS => pc[t] \in XCS)
    <3> USE <2>1 DEF TypeOK, Owns, Fresh, XCS, WriteCS, DeleteCS, ExitCS, DeadCS
    <3>1. CASE WShared(t) \/ WCount(t) \/ WList(t) \/ WVer(t) \/ WCopy(t) \/ WFast(t)
               \/ WBits(t) \/ SetLastVer(t)
      BY <3>1 DEF WShared, WCount, WList, WVer, AddNewVer, WCopy, WFast, WBits,
                  SetFastBitmap, SetBitMap, SetLastVer
    <3>2. CASE DVer(t) \/ DFast(t) \/ DBits(t) \/ DEmpty(t) \/ DExcl(t) \/ DFail(t)
      BY <3>2 DEF DVer, AddNewVer, DFast, SetFastBitmap, DBits, SetBitMap, DEmpty, DExcl,
                  Exclusive, DFail, Release
    <3>3. CASE XExcl(t) \/ XAbsent(t) \/ Removed(t) \/ Dec(t) \/ Erase(t)
      BY <3>3 DEF XExcl, Exclusive, XAbsent, Removed, Release, Dec, Erase
    <3>4. CASE RLast(t) \/ RNew(t) \/ RFast(t) \/ RScan(t) \/ RCopy(t) \/ RCheck(t)
      BY <3>4 DEF RLast, RNew, RFast, RScan, RCopy, RCheck
    <3> QED BY <1>2, <3>1, <3>2, <3>3, <3>4
  <2> QED BY <2>1, <2>2, <2>3, QuietStep
<1>3. ASSUME NEW t \in Threads, WFind(t) \/ WRefind(t) \/ DFind(t) \/ RFind(t) \/ Return(t)
      PROVE  LockInv'
  <2> USE DEF WFind, WRefind, DFind, RFind, Return
  <2>1. PICK p \in {index[K(t)], NoPage, handle[t]} :
            /\ handle' = [handle EXCEPT ![t] = p]
            /\ p = handle[t] => UNCHANGED handle
            /\ WRefind(t) \/ p # handle[t] \/ p \in {index[K(t)], NoPage}
    BY <1>3 DEF TypeOK
  <2>2. UNCHANGED <<index, lock, arg>> /\ \A u \in Threads : u # t => pc'[u] = pc[u]
    BY <1>3 DEF TypeOK
  <2>3. ~Owns(t)' /\ ~Fresh(t)' /\ pc'[t] \notin XCS
    BY <1>3 DEF TypeOK, Owns, Fresh, XCS, WriteCS, DeleteCS, ExitCS, DeadCS
  <2>4. K(t) \in Keys  BY ArgType
  <2>5. CASE UNCHANGED handle  BY <2>2, <2>3, <2>5, QuietStep
  <2>6. CASE p \in {index[K(t)], NoPage}  BY <2>1, <2>2, <2>3, <2>4, <2>6, LookupStep
  <2> QED BY <2>1, <2>5, <2>6
<1>4. ASSUME NEW t \in Threads, WLock(t) \/ DLock(t) PROVE LockInv'
  BY <1>4, TryLockStep DEF WLock, DLock
<1>5. ASSUME NEW t \in Threads, UnLock(t) PROVE LockInv'
  <2>1. Owns(t) /\ P(t) \in Pages
    BY <1>5 DEF UnLock, Owns, ExitCS, TypeOK, NeedsHandle, P
  <2>2. \A u \in Threads : u # t /\ Owns(u) => P(u) # P(t)
    BY <2>1 DEF LockInv, PageLockExclusion
  <2>3. /\ lock' = [lock EXCEPT ![P(t)] = FALSE] /\ UNCHANGED <<index, handle, arg>>
        /\ \A u \in Threads : u # t => pc'[u] = pc[u]
        /\ pc'[t] = "done"
    BY <1>5 DEF UnLock, TypeOK
  <2>4. ~Owns(t)' /\ ~Fresh(t)' /\ pc'[t] \notin XCS
    BY <2>3 DEF Owns, Fresh, XCS, WriteCS, DeleteCS, ExitCS, DeadCS
  <2> QED BY <2>1, <2>2, <2>3, <2>4, ClearStep
<1>6. ASSUME NEW t \in Threads, WInit(t) PROVE LockInv'
  <2>1. Fresh(t) /\ P(t) \in Pages  BY <1>6 DEF WInit, Fresh, TypeOK, NeedsHandle, P
  <2>2. \A u \in Threads : u # t /\ Owns(u) => P(u) # P(t)
    BY <2>1 DEF LockInv, FreshPrivate
  <2>3. /\ lock' = [lock EXCEPT ![P(t)] = FALSE] /\ UNCHANGED <<index, handle, arg>>
        /\ \A u \in Threads : u # t => pc'[u] = pc[u]
        /\ pc'[t] = "w_insert"
    BY <1>6 DEF WInit, TypeOK
  <2>4. ~Owns(t)' /\ pc'[t] \notin XCS
    BY <2>3 DEF Owns, XCS, WriteCS, DeleteCS, ExitCS, DeadCS
  <2> QED BY <2>1, <2>2, <2>3, <2>4, ClearStep
<1>7. ASSUME NEW t \in Threads, DRemove(t) \/ XRemove(t) PROVE LockInv'
  <2>1. /\ UNCHANGED <<lock, handle, arg>>
        /\ \A u \in Threads : u # t => pc'[u] = pc[u]
        /\ UNCHANGED index \/ index' = [index EXCEPT ![K(t)] = NoPage]
    BY <1>7 DEF DRemove, XRemove, TypeOK
  <2>2. (Owns(t)' => Owns(t)) /\ (Fresh(t)' => Fresh(t)) /\ (pc'[t] \in XCS => pc[t] \in XCS)
    <3>1. CASE DRemove(t)
      BY <3>1 DEF DRemove, Owns, Fresh, XCS, WriteCS, DeleteCS, ExitCS, DeadCS, TypeOK
    <3>2. CASE XRemove(t)
      <4>1. arg[t].op = "Delete" /\ arg'[t] = arg[t]
        BY <2>1, <3>2 DEF LockInv, DeleteCalled, XRemove, XCS
      <4> QED BY <3>2, <4>1
           DEF XRemove, Owns, Fresh, XCS, WriteCS, DeleteCS, ExitCS, DeadCS, TypeOK
    <3> QED BY <1>7, <3>1, <3>2
  <2>3. K(t) \in Keys  BY ArgType
  <2>4. CASE UNCHANGED index  BY <2>1, <2>2, <2>4, QuietStep
  <2>5. CASE index' = [index EXCEPT ![K(t)] = NoPage]
    BY <2>1, <2>2, <2>3, <2>5, RemovalStep
  <2> QED BY <2>1, <2>4, <2>5
<1>8. CASE UNCHANGED vars
  BY <1>8 DEF vars, LockInv, OwnersLocked, PageLockExclusion, FreshPrivate, IndexInjective,
              DeleteCalled, Owns, Fresh, P
<1> QED
  BY <1>1, <1>2, <1>3, <1>4, <1>5, <1>6, <1>7, <1>8, AllocStep, InsertStep
     DEF Next, Step, WriteStep, DeleteStep, ReadStep

\* The lock byte of a page has one owner at a time, whatever is removed from,
\* evicted from or replaced in the index meanwhile.
THEOREM PageLockExcludes == Spec => []PageLockExclusion
<1>1. Spec => [](TypeOK /\ LockInv)
  BY InitTypeOK, NextTypeOK, InitLockInv, NextLockInv, PTL DEF Spec
<1>2. LockInv => PageLockExclusion  BY DEF LockInv
<1> QED BY <1>1, <1>2, PTL

------------------------------------------------------------------------------
(***************************************************************************)
(* A Read that keeps its copy copied one state of the page, for every      *)
(* number of threads, keys, pages, positions and values, every size of the *)
(* version byte and every interleaving of the accesses to a page.          *)
(*                                                                         *)
(* The argument has two layers.  VersionInv says what the lock byte and    *)
(* the two versions promise: the versions of an unlocked page agree, and   *)
(* whoever changes a page has first put NEWVER ahead of LASTVER.  ReaderInv*)
(* says what a reader has copied as long as NEWVER is still the version it *)
(* started from.  Between the two stands MemoryStep: no step of any thread *)
(* moves a version of a page in use back, or changes its content while the *)
(* versions agree.                                                         *)
(***************************************************************************)
\* The owner has announced its change and not yet finished it.
Announced == {"w_copy", "w_fast", "w_bits", "d_fast", "d_bits", "d_empty", "d_excl",
              "d_remove", "d_fail", "last"}

\* Where Read is, from its lookup on.
ReadPCs == {"r_find", "r_last", "r_new", "r_fast", "r_scan", "r_copy", "r_check"}

\* A page: LASTVER never passes NEWVER, they agree when the page is unlocked, and
\* while they agree the whole-page flag tells the truth.
PageOK(p) ==
    /\ lastVer[p] <= newVer[p]
    /\ ~lock[p] => lastVer[p] = newVer[p]
    /\ lastVer[p] = newVer[p] /\ fast[p] => bits[p] = Pos

\* A thread: what it owns has the versions and the flag its program counter
\* promises, and it is in the code of Read exactly if its call is a Read.
ThreadOK(t) ==
    /\ pc[t] \in Announced => ver[t] = newVer[P(t)] /\ lastVer[P(t)] < newVer[P(t)]
    /\ pc[t] \in {"w_ver", "d_ver", "unlock"} => lastVer[P(t)] = newVer[P(t)]
    /\ pc[t] \in {"w_copy", "w_fast", "last"} /\ fast[P(t)] => bits[P(t)] = Pos
    /\ pc[t] = "w_bits" /\ fast[P(t)] => bits[P(t)] \cup R(t) = Pos
    /\ pc[t] \in {"d_bits", "d_empty", "d_excl", "d_remove", "d_fail"} => ~fast[P(t)]
    /\ pc[t] \notin {"idle", "done"} => (arg[t].op = "Read" <=> pc[t] \in ReadPCs)

\* The invariant of the versions.
VersionInv ==
    /\ \A p \in Pages : PageOK(p)
    /\ \A t \in Threads : ThreadOK(t)

\* What reader t has gathered so far is what its page held when it started.
Gathered(t) ==
    /\ snap[t] = Content(P(t), R(t))
    /\ pc[t] = "r_scan" =>
          /\ buf[t] = Blank /\ todo[t] \subseteq R(t)
          /\ mask[t] \subseteq R(t) \cap bits[P(t)]
          /\ R(t) \cap bits[P(t)] \subseteq mask[t] \cup todo[t]
    /\ pc[t] \in {"r_copy", "r_check"} =>
          /\ mask[t] = R(t) \cap bits[P(t)] /\ todo[t] \subseteq mask[t]
          /\ \A x \in Pos : buf[t][x] = IF x \in mask[t] \ todo[t] THEN body[P(t)][x] ELSE NoVal
    /\ pc[t] = "r_check" => todo[t] = {}

Copying == {"r_fast", "r_scan", "r_copy", "r_check"}

\* A reader started from a version LASTVER has reached; while NEWVER has not
\* moved past it the copy is good, and an accepted copy has the version it
\* started from or one that looks like it.
ReaderOK(t) ==
    /\ pc[t] \in Copying \cup {"r_new"} => ver[t] <= lastVer[P(t)]
    /\ pc[t] \in Copying /\ newVer[P(t)] = ver[t] => Gathered(t)
    /\ pc[t] = "done" /\ arg[t].op = "Read" /\ P(t) # NoPage =>
          /\ ver[t] <= accepted[t] /\ SameByte(ver[t], accepted[t])
          /\ accepted[t] = ver[t] => buf[t] = snap[t]

ReaderInv == \A t \in Threads : ReaderOK(t)

------------------------------------------------------------------------------
(***************************************************************************)
(* The versions                                                            *)
(***************************************************************************)
LEMMA InitVersionInv == Init => VersionInv
BY DEF Init, VersionInv, PageOK, ThreadOK, Announced, P

\* A step that leaves the pages' versions, flags and bitmaps alone.
LEMMA CalmStep ==
    ASSUME TypeOK, VersionInv, NEW t \in Threads,
           UNCHANGED <<lastVer, newVer, fast, bits>>,
           \A p \in Pages : lock'[p] = lock[p] \/ lock'[p] \/ lastVer[p] = newVer[p],
           \A u \in Threads : u # t => pc'[u] = pc[u] /\ arg'[u] = arg[u]
                                       /\ handle'[u] = handle[u] /\ ver'[u] = ver[u],
           ThreadOK(t)'
    PROVE  VersionInv'
<1>1. \A p \in Pages : PageOK(p)'  BY DEF VersionInv, PageOK
<1>2. \A u \in Threads : u # t => ThreadOK(u)'  BY DEF VersionInv, ThreadOK, P, R
<1> QED BY <1>1, <1>2 DEF VersionInv

\* A step of an owner, or of the thread that has a fresh page, on its page.
LEMMA OwnerStep ==
    ASSUME TypeOK, LockInv, VersionInv, NEW t \in Threads,
           Owns(t) \/ Fresh(t),
           UNCHANGED <<arg, handle>>,
           \A u \in Threads : u # t => pc'[u] = pc[u] /\ ver'[u] = ver[u],
           \A p \in Pages : p # P(t) =>
               /\ lastVer'[p] = lastVer[p] /\ newVer'[p] = newVer[p] /\ lock'[p] = lock[p]
               /\ fast'[p] = fast[p] /\ bits'[p] = bits[p],
           PageOK(P(t))', ThreadOK(t)'
    PROVE  VersionInv'
<1>1. \A p \in Pages : PageOK(p)'
  <2>1. P(t)' = P(t)  BY DEF P
  <2> QED BY <2>1 DEF VersionInv, PageOK
<1>2. ASSUME NEW u \in Threads, u # t PROVE ThreadOK(u)'
  <2>1. CASE Owns(u)
    <3>1. P(u) # P(t) /\ P(u) \in Pages
      BY <1>2, <2>1 DEF LockInv, PageLockExclusion, OwnersLocked, FreshPrivate
    <3>2. P(u)' = P(u) /\ R(u)' = R(u)  BY DEF P, R
    <3> QED BY <1>2, <3>1, <3>2 DEF VersionInv, ThreadOK
  <2>2. CASE ~Owns(u)
    BY <1>2, <2>2 DEF VersionInv, ThreadOK, Owns, Announced, WriteCS, DeleteCS, ExitCS
  <2> QED BY <2>1, <2>2
<1> QED BY <1>1, <1>2 DEF VersionInv

\* The steps of a call that leave the memory of the pages alone, the copying of
\* a Write included, which no version invariant mentions.
LEMMA CalmSteps ==
    ASSUME TypeOK, LockInv, VersionInv, NEW t \in Threads,
           \/ WFind(t) \/ WShared(t) \/ WAlloc(t) \/ WInsert(t) \/ WRefind(t)
           \/ WCount(t) \/ WList(t) \/ WCopy(t)
           \/ DFind(t) \/ DEmpty(t) \/ DExcl(t) \/ DRemove(t) \/ DFail(t)
           \/ XExcl(t) \/ XRemove(t) \/ XAbsent(t) \/ Removed(t) \/ Dec(t) \/ Erase(t)
           \/ ReadStep(t) \/ Return(t)
    PROVE  VersionInv'
<1> USE DEF Goto, global, memory, locals, ghosts
<1>1. UNCHANGED <<lastVer, newVer, fast, bits, lock>>
  BY DEF WFind, WShared, WAlloc, WInsert, WRefind, WCount, WList, WCopy, DFind, DEmpty,
         DExcl, Exclusive, DRemove, DFail, Release, XExcl, XRemove, XAbsent, Removed, Dec,
         Erase, ReadStep, RFind, RLast, RNew, RFast, RScan, RCopy, RCheck, Return
<1>2. UNCHANGED arg /\ \A u \in Threads : u # t => pc'[u] = pc[u] /\ handle'[u] = handle[u]
                                                   /\ ver'[u] = ver[u]
  BY DEF TypeOK, WFind, WShared, WAlloc, WInsert, WRefind, WCount, WList, WCopy, DFind, DEmpty,
         DExcl, Exclusive, DRemove, DFail, Release, XExcl, XRemove, XAbsent, Removed, Dec,
         Erase, ReadStep, RFind, RLast, RNew, RFast, RScan, RCopy, RCheck, Return
<1>3. ThreadOK(t)'
  <2> ThreadOK(t)  BY DEF VersionInv
  <2> USE <1>1, <1>2 DEF ThreadOK, TypeOK, Announced, ReadPCs, P, R
  <2>1. CASE WFind(t) \/ WShared(t) \/ WInsert(t) \/ WRefind(t) \/ WCount(t) \/ WList(t)
    BY <2>1 DEF WFind, WShared, WInsert, WRefind, WCount, WList
  <2>2. CASE WAlloc(t)  BY <2>2 DEF WAlloc
  <2>3. CASE WCopy(t)  BY <2>3 DEF WCopy
  <2>4. CASE DFind(t) \/ DEmpty(t) \/ DExcl(t) \/ DRemove(t) \/ DFail(t)
    BY <2>4 DEF DFind, DEmpty, DExcl, Exclusive, DRemove, DFail, Release
  <2>5. CASE XExcl(t) \/ XRemove(t) \/ XAbsent(t) \/ Removed(t) \/ Dec(t) \/ Erase(t)
    BY <2>5 DEF XExcl, Exclusive, XRemove, XAbsent, Release, Removed, Dec, Erase
  <2>6. CASE RFind(t) \/ RLast(t) \/ RNew(t) \/ RCheck(t)
    BY <2>6 DEF RFind, RLast, RNew, RCheck
  <2>7. CASE RFast(t) \/ RScan(t) \/ RCopy(t)  BY <2>7 DEF RFast, RScan, RCopy
  <2>8. CASE Return(t)  BY <2>8 DEF Return
  <2> QED BY <2>1, <2>2, <2>3, <2>4, <2>5, <2>6, <2>7, <2>8 DEF ReadStep
<1> QED BY <1>1, <1>2, <1>3, CalmStep

\* Locking and unlocking: a page is locked, and unlocked, with versions that agree.
LEMMA LockSteps ==
    ASSUME TypeOK, VersionInv, NEW t \in Threads, WLock(t) \/ DLock(t) \/ UnLock(t)
    PROVE  VersionInv'
<1> USE DEF Goto, global, locals, ghosts, WLock, DLock, TryLock, UnLock
<1>1. /\ UNCHANGED <<lastVer, newVer, fast, bits, arg, handle, ver>>
      /\ \A u \in Threads : u # t => pc'[u] = pc[u]
      /\ P(t) \in Pages
  BY DEF TypeOK, NeedsHandle, ExitCS, P
<1>2. ThreadOK(t) /\ PageOK(P(t))  BY <1>1 DEF VersionInv
<1>3. ThreadOK(t)'
  BY <1>1, <1>2 DEF ThreadOK, PageOK, TypeOK, Announced, ReadPCs, P
<1>4. \A p \in Pages : lock'[p] = lock[p] \/ lock'[p] \/ lastVer[p] = newVer[p]
  BY <1>1, <1>2 DEF ThreadOK, TypeOK
<1> QED BY <1>1, <1>3, <1>4, CalmStep

\* The steps that change the version, the flag or the bitmap of the thread's page.
LEMMA ChangeSteps ==
    ASSUME TypeOK, LockInv, VersionInv, NEW t \in Threads,
           WInit(t) \/ WVer(t) \/ DVer(t) \/ WFast(t) \/ DFast(t) \/ WBits(t) \/ DBits(t)
           \/ SetLastVer(t)
    PROVE  VersionInv'
<1> USE DEF Goto, global, locals, ghosts, WInit, WVer, DVer, AddNewVer, WFast, DFast,
            SetFastBitmap, WBits, DBits, SetBitMap, SetLastVer
<1>1. (Owns(t) \/ Fresh(t)) /\ P(t) \in Pages
  BY DEF Owns, Fresh, WriteCS, DeleteCS, ExitCS, TypeOK, NeedsHandle, P
<1>2. /\ UNCHANGED <<arg, handle>>
      /\ \A u \in Threads : u # t => pc'[u] = pc[u] /\ ver'[u] = ver[u]
  BY DEF TypeOK
<1>3. \A p \in Pages : p # P(t) =>
          /\ lastVer'[p] = lastVer[p] /\ newVer'[p] = newVer[p] /\ lock'[p] = lock[p]
          /\ fast'[p] = fast[p] /\ bits'[p] = bits[p]
  BY DEF TypeOK
<1>4. ThreadOK(t) /\ PageOK(P(t)) /\ R(t) \subseteq Pos  BY <1>1, ArgType DEF VersionInv
<1>5. bits[P(t)] \subseteq Pos /\ P(t)' = P(t) /\ R(t)' = R(t)
  BY <1>1, <1>2 DEF TypeOK, P, R
<1>6. PageOK(P(t))' /\ ThreadOK(t)'
  <2> USE <1>1, <1>2, <1>4, <1>5 DEF PageOK, ThreadOK, TypeOK, Announced, ReadPCs
  <2>1. CASE WInit(t)  BY <2>1
  <2>2. CASE WVer(t) \/ DVer(t)
    <3>1. lock[P(t)]  BY <2>2 DEF LockInv, OwnersLocked, Owns, WriteCS, DeleteCS
    <3> QED BY <2>2, <3>1
  <2>3. CASE WFast(t)
    <3>1. /\ fast'[P(t)] => fast[P(t)] \/ R(t) = Pos
          /\ pc[t] = "w_fast" /\ pc'[t] = "w_bits"
          /\ UNCHANGED <<bits, lastVer, newVer, lock, ver>>
      BY <2>3
    <3> QED BY <3>1
  <2>4. CASE DFast(t)  BY <2>4
  <2>5. CASE WBits(t)  BY <2>5
  <2>6. CASE DBits(t)  BY <2>6
  <2>7. CASE SetLastVer(t)  BY <2>7
  <2> QED BY <2>1, <2>2, <2>3, <2>4, <2>5, <2>6, <2>7
<1> QED BY <1>1, <1>2, <1>3, <1>5, <1>6, OwnerStep

LEMMA NextVersionInv == TypeOK /\ LockInv /\ VersionInv /\ [Next]_vars => VersionInv'
<1> SUFFICES ASSUME TypeOK, LockInv, VersionInv, [Next]_vars PROVE VersionInv'  OBVIOUS
<1>1. ASSUME NEW t \in Threads, Call(t) PROVE VersionInv'
  <2> USE DEF Goto, memory
  <2>1. PICK a \in Args : arg' = [arg EXCEPT ![t] = a] /\ pc[t] = "idle"
                          /\ pc' = [pc EXCEPT ![t] = Entry[a.op]]
    BY <1>1 DEF Call
  <2>2. UNCHANGED <<lastVer, newVer, fast, bits, lock, handle, ver>>  BY <1>1 DEF Call
  <2>3. \A u \in Threads : u # t => pc'[u] = pc[u] /\ arg'[u] = arg[u]  BY <2>1 DEF TypeOK
  <2>4. arg'[t] = a /\ pc'[t] = Entry[a.op] /\ a.op \in OpNames  BY <2>1 DEF TypeOK, Args
  <2>5. ThreadOK(t)'  BY <2>4 DEF ThreadOK, Entry, OpNames, Announced, ReadPCs
  <2> QED BY <2>2, <2>3, <2>5, CalmStep
<1>2. CASE UNCHANGED vars
  <2>1. \A p \in Pages : PageOK(p)'  BY <1>2 DEF VersionInv, PageOK, vars, memory
  <2>2. \A u \in Threads : ThreadOK(u)'
    BY <1>2 DEF VersionInv, ThreadOK, P, R, vars, memory, locals
  <2> QED BY <2>1, <2>2 DEF VersionInv
<1> QED
  BY <1>1, <1>2, CalmSteps, LockSteps, ChangeSteps DEF Next, Step, WriteStep, DeleteStep

------------------------------------------------------------------------------
(***************************************************************************)
(* The readers                                                             *)
(***************************************************************************)
\* Page p goes through a step without losing a version, and with its content as
\* it was if NEWVER still is the LASTVER of before.
Kept(p) ==
    /\ lastVer[p] <= lastVer'[p] /\ newVer[p] <= newVer'[p]
    /\ newVer'[p] = lastVer[p] =>
          fast'[p] = fast[p] /\ bits'[p] = bits[p] /\ body'[p] = body[p]

\* Every step keeps every page, except that allocation starts a page afresh.
LEMMA MemoryStep ==
    ASSUME TypeOK, LockInv, VersionInv, NEW t \in Threads, Call(t) \/ Step(t),
           NEW p \in Pages
    PROVE  Kept(p) \/ (pc[t] = "w_init" /\ p = P(t))
<1> USE DEF Goto, global, memory, locals, ghosts
<1>0. lastVer[p] \in Nat /\ newVer[p] \in Nat /\ PageOK(p) /\ ThreadOK(t)
  BY DEF TypeOK, VersionInv
<1>1. CASE UNCHANGED <<lastVer, newVer, fast, bits, body>>  BY <1>0, <1>1 DEF Kept
<1>2. CASE WInit(t)
  <2>1. p # P(t) => /\ lastVer'[p] = lastVer[p] /\ newVer'[p] = newVer[p]
                    /\ fast'[p] = fast[p] /\ bits'[p] = bits[p] /\ body'[p] = body[p]
    BY <1>2 DEF WInit, TypeOK
  <2>2. CASE p = P(t)  BY <1>2, <2>2 DEF WInit
  <2>3. CASE p # P(t)  BY <1>0, <2>1, <2>3 DEF Kept
  <2> QED BY <2>2, <2>3
<1>3. CASE WVer(t) \/ DVer(t)
  <2>1. UNCHANGED <<lastVer, fast, bits, body>> /\ P(t) \in Pages
        /\ newVer' = [newVer EXCEPT ![P(t)] = @ + 1]
    BY <1>3 DEF WVer, DVer, AddNewVer, TypeOK, NeedsHandle, WriteCS, DeleteCS, P
  <2>2. newVer[p] <= newVer'[p]  BY <1>0, <2>1 DEF TypeOK
  <2> QED BY <1>0, <2>1, <2>2 DEF Kept, TypeOK
<1>4. CASE WCopy(t) \/ WFast(t) \/ DFast(t) \/ WBits(t) \/ DBits(t)
  <2> USE DEF WCopy, WFast, DFast, SetFastBitmap, WBits, DBits, SetBitMap
  <2>1. UNCHANGED <<lastVer, newVer>> /\ lastVer[P(t)] < newVer[P(t)]
    BY <1>0, <1>4 DEF ThreadOK, Announced
  <2>2. P(t) \in Pages /\ lastVer[P(t)] \in Nat /\ newVer[P(t)] \in Nat
    BY <1>4 DEF TypeOK, NeedsHandle, WriteCS, DeleteCS, P
  <2>3. p # P(t) => fast'[p] = fast[p] /\ bits'[p] = bits[p] /\ body'[p] = body[p]
    BY <1>4 DEF TypeOK
  <2> QED BY <1>0, <2>1, <2>2, <2>3 DEF Kept
<1>5. CASE SetLastVer(t)
  <2>1. UNCHANGED <<newVer, fast, bits, body>> /\ ver[t] = newVer[P(t)]
        /\ P(t) \in Pages /\ lastVer' = [lastVer EXCEPT ![P(t)] = ver[t]]
        /\ lastVer[P(t)] < newVer[P(t)]
    BY <1>0, <1>5 DEF SetLastVer, ThreadOK, Announced, TypeOK, NeedsHandle, ExitCS, P
  <2>2. lastVer[p] <= lastVer'[p]  BY <1>0, <2>1 DEF TypeOK
  <2> QED BY <1>0, <2>1, <2>2 DEF Kept
<1>6. CASE Call(t) \/ WFind(t) \/ WShared(t) \/ WAlloc(t) \/ WInsert(t) \/ WRefind(t)
           \/ WCount(t) \/ WList(t) \/ WLock(t) \/ UnLock(t)
           \/ DFind(t) \/ DLock(t) \/ DEmpty(t) \/ DExcl(t) \/ DRemove(t) \/ DFail(t)
           \/ XExcl(t) \/ XRemove(t) \/ XAbsent(t) \/ Removed(t) \/ Dec(t) \/ Erase(t)
           \/ ReadStep(t) \/ Return(t)
  BY <1>1, <1>6 DEF Call, WFind, WShared, WAlloc, WInsert, WRefind, WCount, WList, WLock, DLock,
         TryLock, UnLock, DFind, DEmpty, DExcl, Exclusive, DRemove, DFail, Release, XExcl,
         XRemove, XAbsent, Removed, Dec, Erase, ReadStep, RFind, RLast, RNew, RFast, RScan,
         RCopy, RCheck, Return
<1> QED BY <1>2, <1>3, <1>4, <1>5, <1>6 DEF Step, WriteStep, DeleteStep

\* A reader is not disturbed by a step that keeps its page and leaves the
\* reader's own state alone.
LEMMA Undisturbed ==
    ASSUME TypeOK, TypeOK', VersionInv, VersionInv', NEW u \in Threads, ReaderOK(u),
           pc'[u] = pc[u], arg'[u] = arg[u], handle'[u] = handle[u], ver'[u] = ver[u],
           todo'[u] = todo[u], mask'[u] = mask[u], buf'[u] = buf[u], snap'[u] = snap[u],
           accepted'[u] = accepted[u],
           pc[u] \in Copying \cup {"r_new"} => Kept(P(u))
    PROVE  ReaderOK(u)'
<1>1. P(u)' = P(u) /\ R(u)' = R(u)  BY DEF P, R
<1>2. pc[u] \in Copying \cup {"r_new"} => P(u) \in Pages
  BY DEF TypeOK, Copying, NeedsHandle, P
<1>3. pc[u] \in Copying \cup {"r_new"} => ver[u] <= lastVer'[P(u)]
  BY <1>2 DEF ReaderOK, Kept, TypeOK
<1>4. ASSUME pc[u] \in Copying, newVer'[P(u)] = ver[u] PROVE Gathered(u)'
  <2>1. /\ P(u) \in Pages /\ Kept(P(u)) /\ PageOK(P(u)) /\ ver[u] <= lastVer[P(u)]
        /\ lastVer[P(u)] \in Nat /\ newVer[P(u)] \in Nat /\ newVer'[P(u)] \in Nat
    BY <1>2, <1>4 DEF VersionInv, ReaderOK, TypeOK
  <2>2. newVer[P(u)] = ver[u] /\ newVer'[P(u)] = lastVer[P(u)]
    BY <1>4, <2>1 DEF Kept, PageOK
  <2>3. Gathered(u)  BY <1>4, <2>2 DEF ReaderOK
  <2>4. bits'[P(u)] = bits[P(u)] /\ body'[P(u)] = body[P(u)]  BY <2>1, <2>2 DEF Kept
  <2>5. Content(P(u), R(u))' = Content(P(u), R(u))  BY <1>1, <2>4 DEF Content
  <2> QED BY <1>1, <2>3, <2>4, <2>5 DEF Gathered
<1> QED BY <1>1, <1>3, <1>4 DEF ReaderOK, SameByte

LEMMA InitReaderInv == Init => ReaderInv
BY DEF Init, ReaderInv, ReaderOK, Copying

\* A reader's own steps: from the lookup to the acceptance of the copy.
LEMMA ReadSteps ==
    ASSUME TypeOK, TypeOK', VersionInv, NEW t \in Threads, ReaderOK(t), ReadStep(t)
    PROVE  ReaderOK(t)'
<1> USE DEF Goto, global, memory, locals, ghosts
<1>0. /\ UNCHANGED <<lastVer, newVer, fast, bits, body, arg>> /\ R(t)' = R(t)
      /\ R(t) \subseteq Pos
      /\ ThreadOK(t)
  BY ArgType DEF ReadStep, RFind, RLast, RNew, RFast, RScan, RCopy, RCheck, R, VersionInv
<1>1. CASE RFind(t)
  <2>1. pc'[t] = "r_last" \/ (pc'[t] = "done" /\ P(t)' = NoPage)
    BY <1>1 DEF RFind, TypeOK, P
  <2> QED BY <2>1 DEF ReaderOK, Copying
<1>2. CASE RLast(t)
  <2>1. pc'[t] = "r_new" /\ ver'[t] = lastVer'[P(t)'] /\ P(t)' \in Pages
    BY <1>0, <1>2 DEF RLast, TypeOK, NeedsHandle, P
  <2>2. lastVer'[P(t)'] \in Nat  BY <2>1 DEF TypeOK
  <2> QED BY <2>1, <2>2 DEF ReaderOK, Copying
<1>3. ASSUME pc[t] \in Copying \cup {"r_new"}, UNCHANGED handle
      PROVE  /\ P(t) \in Pages /\ PageOK(P(t)) /\ lastVer[P(t)] \in Nat /\ newVer[P(t)] \in Nat
             /\ ver[t] \in Nat /\ ver[t] <= lastVer[P(t)] /\ P(t)' = P(t)
             /\ Content(P(t), R(t))' = Content(P(t), R(t))
  <2>1. P(t) \in Pages  BY <1>3 DEF TypeOK, Copying, NeedsHandle, P
  <2> QED BY <1>0, <1>3, <2>1 DEF VersionInv, TypeOK, ReaderOK, P, Content
<1>4. CASE RNew(t)
  <2>1. /\ pc[t] = "r_new" /\ pc'[t] \in {"r_fast", "r_find"} /\ UNCHANGED <<handle, ver>>
        /\ snap'[t] = Content(P(t), R(t))
    BY <1>4 DEF RNew, TypeOK
  <2>2. Gathered(t)'  BY <1>0, <1>3, <2>1 DEF Gathered, P, Content
  <2> QED BY <1>0, <1>3, <2>1, <2>2 DEF ReaderOK, Copying
<1>5. CASE RFast(t)
  <2>1. /\ pc[t] = "r_fast" /\ pc'[t] \in {"r_scan", "r_copy"}
        /\ UNCHANGED <<handle, ver, snap>>
        /\ buf'[t] = Blank /\ todo'[t] = R(t)
        /\ pc'[t] = "r_copy" => fast[P(t)] /\ mask'[t] = R(t)
        /\ pc'[t] = "r_scan" => mask'[t] = {}
    BY <1>5 DEF RFast, TypeOK
  <2>2. ASSUME newVer[P(t)] = ver[t] PROVE Gathered(t)'
    <3>1. snap[t] = Content(P(t), R(t))  BY <2>1, <2>2 DEF ReaderOK, Gathered, Copying
    <3>2. pc'[t] = "r_copy" => bits[P(t)] = Pos
      BY <1>3, <2>1, <2>2 DEF PageOK, Copying
    <3> QED BY <1>0, <1>3, <2>1, <3>1, <3>2 DEF Gathered, Blank, Copying
  <2> QED BY <1>0, <1>3, <2>1, <2>2 DEF ReaderOK, Copying
<1>6. CASE RScan(t)
  <2>1. /\ pc[t] = "r_scan" /\ pc'[t] \in {"r_scan", "r_copy"}
        /\ UNCHANGED <<handle, ver, snap, buf>>
    BY <1>6 DEF RScan, TypeOK
  <2>2. ASSUME newVer[P(t)] = ver[t] PROVE Gathered(t)'
    <3>1. Gathered(t)  BY <2>1, <2>2 DEF ReaderOK, Copying
    <3>2. CASE pc'[t] = "r_scan"
      <4>1. PICK x \in todo[t] :
                /\ mask'[t] = IF x \in bits[P(t)] THEN mask[t] \cup {x} ELSE mask[t]
                /\ todo'[t] = todo[t] \ {x}
        BY <1>6, <3>2 DEF RScan, TypeOK
      <4> QED BY <1>0, <1>3, <2>1, <3>1, <3>2, <4>1 DEF Gathered, Copying
    <3>3. CASE pc'[t] = "r_copy"
      <4>1. todo[t] = {} /\ todo'[t] = mask[t] /\ mask'[t] = mask[t]
        BY <1>6, <2>1, <3>3 DEF RScan, TypeOK
      <4> QED BY <1>0, <1>3, <2>1, <3>1, <3>3, <4>1 DEF Gathered, Blank, Copying
    <3> QED BY <2>1, <3>2, <3>3
  <2> QED BY <1>0, <1>3, <2>1, <2>2 DEF ReaderOK, Copying
<1>7. CASE RCopy(t)
  <2>1. /\ pc[t] = "r_copy" /\ pc'[t] \in {"r_copy", "r_check"}
        /\ UNCHANGED <<handle, ver, snap, mask>>
    BY <1>7 DEF RCopy, TypeOK
  <2>2. ASSUME newVer[P(t)] = ver[t] PROVE Gathered(t)'
    <3>1. Gathered(t)  BY <2>1, <2>2 DEF ReaderOK, Copying
    <3>2. CASE pc'[t] = "r_copy"
      <4>1. PICK x \in todo[t] :
                /\ buf' = [buf EXCEPT ![t] = [@ EXCEPT ![x] = body[P(t)][x]]]
                /\ todo'[t] = todo[t] \ {x}
        BY <1>7, <3>2 DEF RCopy, TypeOK
      <4>2. \A y \in Pos : buf'[t][y] = IF y = x THEN body[P(t)][x] ELSE buf[t][y]
        BY <4>1 DEF TypeOK, Data
      <4> QED BY <1>0, <1>3, <2>1, <3>1, <3>2, <4>1, <4>2 DEF Gathered, Copying
    <3>3. CASE pc'[t] = "r_check"
      <4>1. todo[t] = {} /\ todo' = todo /\ buf' = buf
        BY <1>7, <2>1, <3>3 DEF RCopy, TypeOK
      <4> QED BY <1>0, <1>3, <2>1, <3>1, <3>3, <4>1 DEF Gathered, Copying
    <3> QED BY <2>1, <3>2, <3>3
  <2> QED BY <1>0, <1>3, <2>1, <2>2 DEF ReaderOK, Copying
<1>8. CASE RCheck(t)
  <2>1. /\ pc[t] = "r_check" /\ pc'[t] \in {"done", "r_find"}
        /\ UNCHANGED <<handle, ver, snap, buf>>
        /\ accepted'[t] = newVer[P(t)]
        /\ pc'[t] = "done" => SameByte(ver[t], newVer[P(t)])
    BY <1>8 DEF RCheck, TypeOK
  <2>2. ASSUME newVer[P(t)] = ver[t] PROVE buf[t] = snap[t]
    <3>1. Gathered(t)  BY <2>1, <2>2 DEF ReaderOK, Copying
    <3>2. \A x \in Pos : buf[t][x] = snap[t][x]
      BY <2>1, <3>1 DEF Gathered, Content
    <3>3. buf[t] \in Data /\ snap[t] \in Data  BY DEF TypeOK
    <3> QED BY <3>2, <3>3 DEF Data
  <2>3. ver[t] <= newVer[P(t)]  BY <1>3, <2>1 DEF PageOK, Copying
  <2> QED BY <2>1, <2>2, <2>3 DEF ReaderOK, Copying, SameByte
<1> QED BY <1>1, <1>2, <1>4, <1>5, <1>6, <1>7, <1>8 DEF ReadStep

LEMMA NextReaderInv ==
    ASSUME TypeOK, TypeOK', LockInv, VersionInv, VersionInv', ReaderInv, [Next]_vars
    PROVE  ReaderInv'
<1> USE DEF Goto, global, memory, locals, ghosts
<1>1. ASSUME NEW t \in Threads, Call(t) \/ Step(t), NEW u \in Threads, u # t
      PROVE  ReaderOK(u)'
  <2>1. /\ pc'[u] = pc[u] /\ arg'[u] = arg[u] /\ handle'[u] = handle[u] /\ ver'[u] = ver[u]
        /\ todo'[u] = todo[u] /\ mask'[u] = mask[u] /\ buf'[u] = buf[u] /\ snap'[u] = snap[u]
        /\ accepted'[u] = accepted[u]
    <3> USE DEF TypeOK
    <3>1. CASE Call(t)  BY <1>1, <3>1 DEF Call
    <3>2. CASE WriteStep(t)
      BY <1>1, <3>2 DEF WriteStep, WFind, WShared, WAlloc, WInit, WInsert, WRefind, WCount, WList,
         WLock, TryLock, WVer, AddNewVer, WCopy, WFast, SetFastBitmap, WBits, SetBitMap,
         SetLastVer, UnLock
    <3>3. CASE DeleteStep(t)
      BY <1>1, <3>3 DEF DeleteStep, DFind, DLock, TryLock, DVer, AddNewVer, DFast, SetFastBitmap,
         DBits, SetBitMap, DEmpty, DExcl, Exclusive, DRemove, DFail, Release, XExcl, XRemove,
         XAbsent, Removed, Dec, Erase
    <3>4. CASE ReadStep(t)
      BY <1>1, <3>4 DEF ReadStep, RFind, RLast, RNew, RFast, RScan, RCopy, RCheck
    <3>5. CASE Return(t)  BY <1>1, <3>5 DEF Return
    <3> QED BY <1>1, <3>1, <3>2, <3>3, <3>4, <3>5 DEF Step
  <2>2. pc[u] \in Copying \cup {"r_new"} => Kept(P(u))
    <3>1. pc[u] \in Copying \cup {"r_new"} => P(u) \in Pages
      BY DEF TypeOK, Copying, NeedsHandle, P
    <3>2. pc[t] = "w_init" => P(u) # P(t)  BY <1>1 DEF LockInv, FreshPrivate, Fresh
    <3> QED BY <1>1, <3>1, <3>2, MemoryStep
  <2> QED BY <2>1, <2>2, Undisturbed DEF ReaderInv
<1>2. ASSUME NEW t \in Threads, Call(t) \/ WriteStep(t) \/ DeleteStep(t) \/ Return(t)
      PROVE  ReaderOK(t)'
  <2>1. ThreadOK(t)  BY DEF VersionInv
  <2>2. CASE Call(t)
    <3>1. PICK a \in Args : pc' = [pc EXCEPT ![t] = Entry[a.op]]  BY <2>2 DEF Call
    <3>2. pc'[t] \in {"w_find", "r_find", "d_find", "x_excl"}
      BY <3>1 DEF TypeOK, Entry, OpNames, Args
    <3> QED BY <3>2 DEF ReaderOK, Copying
  <2>3. CASE Return(t)  BY <2>3 DEF Return, ReaderOK, Copying, TypeOK
  <2>4. CASE WriteStep(t) \/ DeleteStep(t)
    <3>1. pc[t] \notin ReadPCs \cup {"idle", "done"} /\ pc'[t] \notin Copying \cup {"r_new"}
          /\ UNCHANGED arg
      <4> USE DEF TypeOK, ReadPCs, Copying
      <4>1. CASE WriteStep(t)
        BY <4>1 DEF WriteStep, WFind, WShared, WAlloc, WInit, WInsert, WRefind, WCount, WList,
           WLock, TryLock, WVer, AddNewVer, WCopy, WFast, SetFastBitmap, WBits, SetBitMap,
           SetLastVer, UnLock
      <4>2. CASE DeleteStep(t)
        BY <4>2 DEF DeleteStep, DFind, DLock, TryLock, DVer, AddNewVer, DFast, SetFastBitmap,
           DBits, SetBitMap, DEmpty, DExcl, Exclusive, DRemove, DFail, Release, XExcl, XRemove,
           XAbsent, Removed, Dec, Erase
      <4> QED BY <2>4, <4>1, <4>2
    <3>2. arg'[t].op # "Read"  BY <2>1, <3>1 DEF ThreadOK
    <3> QED BY <3>1, <3>2 DEF ReaderOK
  <2> QED BY <1>2, <2>2, <2>3, <2>4
<1>3. ASSUME NEW t \in Threads, ReadStep(t) PROVE ReaderOK(t)'
  BY <1>3, ReadSteps DEF ReaderInv
<1>4. CASE UNCHANGED vars
  <2>1. ASSUME NEW u \in Threads PROVE ReaderOK(u)'
    <3>1. pc[u] \in Copying \cup {"r_new"} => P(u) \in Pages
      BY DEF TypeOK, Copying, NeedsHandle, P
    <3>2. pc[u] \in Copying \cup {"r_new"} => Kept(P(u))
      BY <1>4, <3>1 DEF Kept, vars, TypeOK
    <3> QED BY <1>4, <3>2, Undisturbed DEF ReaderInv, vars
  <2> QED BY <2>1 DEF ReaderInv
<1>5. ASSUME NEW t \in Threads, Call(t) \/ Step(t) PROVE ReaderInv'
  BY <1>1, <1>2, <1>3, <1>5 DEF Step, ReaderInv
<1> QED BY <1>4, <1>5 DEF Next

\* A version byte that shows the same value less than VerMod versions later is
\* the same version.
LEMMA ByteExact ==
    ASSUME NEW a \in Nat, NEW b \in Nat, a <= b, b - a < VerMod, SameByte(a, b)
    PROVE  a = b
<1>1. VerMod \in Nat \ {0}  BY PageCacheAssumption
<1>2. a % VerMod = a - VerMod * (a \div VerMod)  BY <1>1
<1>3. b % VerMod = b - VerMod * (b \div VerMod)  BY <1>1
<1>4. a \div VerMod \in Int /\ b \div VerMod \in Int  BY <1>1
<1> DEFINE i == a \div VerMod
           j == b \div VerMod
<1>5. a - VerMod * i = b - VerMod * j /\ i \in Int /\ j \in Int
  BY <1>2, <1>3, <1>4 DEF SameByte
<1> HIDE DEF i, j
<1>6. b - a = VerMod * (j - i)  BY <1>1, <1>5
<1>7. j - i < 1  BY <1>1, <1>5, <1>6
<1>8. j - i >= 0  BY <1>1, <1>5, <1>6
<1> QED BY <1>1, <1>5, <1>7, <1>8

LEMMA SnapshotFromReaders == TypeOK /\ ReaderInv => SnapshotRead
<1> SUFFICES ASSUME TypeOK, ReaderInv, NEW t \in Threads,
                    pc[t] = "done", arg[t].op = "Read", P(t) # NoPage,
                    accepted[t] - ver[t] < VerMod
             PROVE  buf[t] = snap[t]
  BY DEF SnapshotRead
<1>1. ReaderOK(t)  BY DEF ReaderInv
<1>2. accepted[t] \in Nat /\ ver[t] \in Nat  BY DEF TypeOK
<1>3. ver[t] <= accepted[t] /\ SameByte(ver[t], accepted[t])  BY <1>1 DEF ReaderOK
<1>4. ver[t] = accepted[t]  BY <1>2, <1>3, ByteExact
<1> QED BY <1>1, <1>4 DEF ReaderOK

\* A Read that returns data returns what its page held at one instant of the
\* call, whatever other threads write to, cut from, remove from or evict from
\* the cache meanwhile, as long as fewer than VerMod changes of the page fall
\* into one pass of the Read.
THEOREM ReadsAreSnapshots == Spec => []SnapshotRead
<1> DEFINE Inv == TypeOK /\ LockInv /\ VersionInv /\ ReaderInv
<1>1. Init => Inv  BY InitTypeOK, InitLockInv, InitVersionInv, InitReaderInv
<1>2. Inv /\ [Next]_vars => Inv'  BY NextTypeOK, NextLockInv, NextVersionInv, NextReaderInv
<1>3. Inv => SnapshotRead  BY SnapshotFromReaders
<1> QED BY <1>1, <1>2, <1>3, PTL DEF Spec

------------------------------------------------------------------------------
(***************************************************************************)
(* What PageCache promises of the index, the counter pageNum_, the list    *)
(* pagesList_ and the lock lock_ of SafeMode, for every number of threads, *)
(* keys and pages.                                                         *)
(***************************************************************************)
\* The threads whose program counter is in S, and the keys in the index.
At(S) == {t \in Threads : pc[t] \in S}
Cached == {k \in Keys : index[k] # NoPage}

\* How a step of one thread changes the number of threads in S.
LEMMA AtStep ==
    ASSUME NEW S, NEW t \in Threads, \A u \in Threads : u # t => pc'[u] = pc[u]
    PROVE  /\ Cardinality(At(S)) \in Nat /\ Cardinality(At(S)') \in Nat
           /\ (pc[t] \in S <=> pc'[t] \in S) =>
                  At(S)' = At(S) /\ Cardinality(At(S)') = Cardinality(At(S))
           /\ pc[t] \notin S /\ pc'[t] \in S =>
                  At(S)' = At(S) \cup {t} /\ Cardinality(At(S)') = Cardinality(At(S)) + 1
           /\ pc[t] \in S /\ pc'[t] \notin S =>
                  At(S)' = At(S) \ {t} /\ Cardinality(At(S)') = Cardinality(At(S)) - 1
<1>1. IsFiniteSet(At(S)) /\ IsFiniteSet(At(S)')
  BY PageCacheAssumption, FS_Subset DEF At
<1>2. Cardinality(At(S)) \in Nat /\ Cardinality(At(S)') \in Nat  BY <1>1, FS_CardinalityType
<1>3. CASE pc[t] \in S <=> pc'[t] \in S
  <2>1. At(S)' = At(S)  BY <1>3 DEF At
  <2> QED BY <1>2, <1>3, <2>1
<1>4. CASE pc[t] \notin S /\ pc'[t] \in S
  <2>1. At(S)' = At(S) \cup {t} /\ t \notin At(S)  BY <1>4 DEF At
  <2> QED BY <1>1, <1>2, <1>4, <2>1, FS_AddElement
<1>5. CASE pc[t] \in S /\ pc'[t] \notin S
  <2>1. At(S)' = At(S) \ {t} /\ t \in At(S)  BY <1>5 DEF At
  <2> QED BY <1>1, <1>2, <1>5, <2>1, FS_RemoveElement
<1> QED BY <1>3, <1>4, <1>5

\* How a change of one entry of the index changes the number of cached keys.
LEMMA CachedStep ==
    ASSUME TypeOK, NEW k \in Keys, NEW p, index' = [index EXCEPT ![k] = p]
    PROVE  /\ Cardinality(Cached) \in Nat /\ Cardinality(Cached') \in Nat
           /\ (p = NoPage <=> index[k] = NoPage) => Cardinality(Cached') = Cardinality(Cached)
           /\ p # NoPage /\ index[k] = NoPage => Cardinality(Cached') = Cardinality(Cached) + 1
           /\ p = NoPage /\ index[k] # NoPage => Cardinality(Cached') = Cardinality(Cached) - 1
<1>1. IsFiniteSet(Cached) /\ IsFiniteSet(Cached')
  BY PageCacheAssumption, FS_Subset DEF Cached
<1>2. Cardinality(Cached) \in Nat /\ Cardinality(Cached') \in Nat  BY <1>1, FS_CardinalityType
<1>3. CASE p = NoPage <=> index[k] = NoPage
  <2>1. Cached' = Cached  BY <1>3 DEF Cached, TypeOK
  <2> QED BY <1>2, <1>3, <2>1
<1>4. CASE p # NoPage /\ index[k] = NoPage
  <2>1. Cached' = Cached \cup {k} /\ k \notin Cached  BY <1>4 DEF Cached, TypeOK
  <2> QED BY <1>1, <1>2, <1>4, <2>1, FS_AddElement
<1>5. CASE p = NoPage /\ index[k] # NoPage
  <2>1. Cached' = Cached \ {k} /\ k \in Cached  BY <1>5 DEF Cached, TypeOK
  <2> QED BY <1>1, <1>2, <1>5, <2>1, FS_RemoveElement
<1> QED BY <1>3, <1>4, <1>5

\* A step of thread t moves the program counter of t only.
LEMMA OwnPcStep ==
    ASSUME TypeOK, NEW t \in Threads, Call(t) \/ Step(t)
    PROVE  \A u \in Threads : u # t => pc'[u] = pc[u]
<1> USE DEF TypeOK, Goto
<1>1. CASE Call(t)  BY <1>1 DEF Call
<1>2. CASE WriteStep(t)
  BY <1>2 DEF WriteStep, WFind, WShared, WAlloc, WInit, WInsert, WRefind, WCount, WList, WLock,
     TryLock, WVer, AddNewVer, WCopy, WFast, SetFastBitmap, WBits, SetBitMap, SetLastVer, UnLock
<1>3. CASE DeleteStep(t)
  BY <1>3 DEF DeleteStep, DFind, DLock, TryLock, DVer, AddNewVer, DFast, SetFastBitmap, DBits,
     SetBitMap, DEmpty, DExcl, Exclusive, DRemove, DFail, Release, XExcl, XRemove, XAbsent,
     Removed, Dec, Erase
<1>4. CASE ReadStep(t)
  BY <1>4 DEF ReadStep, RFind, RLast, RNew, RFast, RScan, RCopy, RCheck
<1>5. CASE Return(t)  BY <1>5 DEF Return
<1> QED BY <1>1, <1>2, <1>3, <1>4, <1>5 DEF Step

------------------------------------------------------------------------------
(***************************************************************************)
(* lock_ of SafeMode and pageNum_                                          *)
(***************************************************************************)
RemoveCS == {"d_remove", "d_fail", "x_remove", "x_absent", "removed"}
AllocCS  == {"w_alloc", "w_init"}

\* lock_ is -1 with one remover and no allocator, or there is no remover and it
\* counts at least the allocators.  (A thread that got no memory keeps its count.)
RWInv ==
    SafeMode =>
        \/ At(RemoveCS) = {} /\ rwLock >= Cardinality(At(AllocCS))
        \/ /\ At(AllocCS) = {} /\ rwLock = -1
           /\ \E t \in Threads : At(RemoveCS) = {t}

\* The steps on which neither the index nor lock_ nor pageNum_ depends.
LEMMA UninvolvedStep ==
    ASSUME TypeOK, NEW t \in Threads,
           Call(t) \/ WFind(t) \/ WRefind(t) \/ WList(t) \/ WLock(t) \/ WVer(t) \/ WCopy(t)
           \/ WFast(t) \/ WBits(t) \/ SetLastVer(t) \/ UnLock(t)
           \/ DFind(t) \/ DLock(t) \/ DVer(t) \/ DFast(t) \/ DBits(t) \/ DEmpty(t) \/ Erase(t)
           \/ ReadStep(t) \/ Return(t)
    PROVE  /\ UNCHANGED <<index, pageNum, rwLock, evicted>>
           /\ pc[t] \notin RemoveCS \cup AllocCS \cup {"w_count", "dec"}
           /\ pc'[t] \notin RemoveCS \cup AllocCS \cup {"w_count", "dec"}
<1> USE DEF TypeOK, Goto, global, memory, locals, ghosts, RemoveCS, AllocCS
<1>1. CASE Call(t)
  <2>1. PICK a \in Args : pc[t] = "idle" /\ pc' = [pc EXCEPT ![t] = Entry[a.op]]
    BY <1>1 DEF Call
  <2>2. pc'[t] \in {"w_find", "r_find", "d_find", "x_excl"}
    BY <2>1 DEF Entry, OpNames, Args
  <2> QED BY <1>1, <2>1, <2>2 DEF Call
<1>2. CASE WFind(t) \/ WRefind(t) \/ WList(t) \/ WLock(t) \/ WVer(t) \/ WCopy(t)
           \/ WFast(t) \/ WBits(t) \/ SetLastVer(t) \/ UnLock(t)
  BY <1>2 DEF WFind, WRefind, WList, WLock, TryLock, WVer, AddNewVer, WCopy, WFast,
              SetFastBitmap, WBits, SetBitMap, SetLastVer, UnLock
<1>3. CASE DFind(t) \/ DLock(t) \/ DVer(t) \/ DFast(t) \/ DBits(t) \/ DEmpty(t) \/ Erase(t)
  BY <1>3 DEF DFind, DLock, TryLock, DVer, AddNewVer, DFast, SetFastBitmap, DBits, SetBitMap,
              DEmpty, Erase
<1>4. CASE ReadStep(t)
  BY <1>4 DEF ReadStep, RFind, RLast, RNew, RFast, RScan, RCopy, RCheck
<1>5. CASE Return(t)  BY <1>5 DEF Return
<1> QED BY <1>1, <1>2, <1>3, <1>4, <1>5

\* No thread is anywhere but in idle at the start.
LEMMA InitAt ==
    ASSUME Init, NEW S, "idle" \notin S
    PROVE  At(S) = {} /\ Cardinality(At(S)) = 0
<1>1. At(S) = {}  BY DEF Init, At
<1> QED BY <1>1, FS_EmptySet

LEMMA InitRWInv == Init => RWInv
BY InitAt DEF Init, RWInv, RemoveCS, AllocCS

LEMMA NextRWInv == TypeOK /\ RWInv /\ [Next]_vars => RWInv'
<1> SUFFICES ASSUME TypeOK, RWInv, [Next]_vars, SafeMode PROVE RWInv'
  BY DEF RWInv
<1> USE DEF Goto, global, memory, locals, ghosts
<1>1. ASSUME NEW t \in Threads, Call(t) \/ Step(t) PROVE RWInv'
  <2>0. \A u \in Threads : u # t => pc'[u] = pc[u]  BY <1>1, OwnPcStep
  <2>1. rwLock \in Int  BY DEF TypeOK
  <2>2. At(RemoveCS) = {} \/ (At(AllocCS) = {} /\ Cardinality(At(AllocCS)) = 0)
    BY FS_EmptySet DEF RWInv
  <2>3. ASSUME UNCHANGED rwLock, pc[t] \in RemoveCS <=> pc'[t] \in RemoveCS,
               pc[t] \in AllocCS <=> pc'[t] \in AllocCS
        PROVE  RWInv'
    <3>1. At(RemoveCS)' = At(RemoveCS) /\ At(AllocCS)' = At(AllocCS)
      BY <2>0, <2>3, AtStep
    <3> QED BY <2>3, <3>1 DEF RWInv
  <2>4. CASE WShared(t)
    <3>1. /\ rwLock >= 0 /\ rwLock' = rwLock + 1
          /\ pc[t] = "w_shared" /\ pc'[t] = "w_alloc"
      BY <2>4 DEF WShared, TypeOK
    <3>2. At(RemoveCS)' = At(RemoveCS)
      BY <2>0, <3>1, AtStep DEF RemoveCS
    <3>3. Cardinality(At(AllocCS)') = Cardinality(At(AllocCS)) + 1 /\ Cardinality(At(AllocCS)) \in Nat
      BY <2>0, <3>1, AtStep DEF AllocCS
    <3> QED BY <2>1, <3>1, <3>2, <3>3 DEF RWInv
  <2>5. CASE WAlloc(t) \/ WInit(t)
    <3>1. /\ pc[t] \in AllocCS /\ pc'[t] \notin RemoveCS /\ pc[t] \notin RemoveCS
          /\ \/ rwLock' = rwLock
             \/ rwLock' = rwLock - 1 /\ pc'[t] \notin AllocCS
      BY <2>5 DEF WAlloc, WInit, TypeOK, AllocCS, RemoveCS
    <3>2. At(RemoveCS)' = At(RemoveCS)  BY <2>0, <3>1, AtStep
    <3>3. /\ Cardinality(At(AllocCS)') \in Nat /\ Cardinality(At(AllocCS)) \in Nat
          /\ pc'[t] \notin AllocCS => Cardinality(At(AllocCS)') = Cardinality(At(AllocCS)) - 1
          /\ pc'[t] \in AllocCS => Cardinality(At(AllocCS)') = Cardinality(At(AllocCS))
      BY <2>0, <3>1, AtStep
    <3>4. At(AllocCS) # {}  BY <3>1 DEF At
    <3> QED BY <2>1, <3>1, <3>2, <3>3, <3>4 DEF RWInv
  <2>6. CASE DExcl(t) \/ XExcl(t)
    <3>1. /\ rwLock = 0 /\ rwLock' = -1
          /\ pc[t] \notin RemoveCS \cup AllocCS /\ pc'[t] \in RemoveCS /\ pc'[t] \notin AllocCS
      BY <2>6 DEF DExcl, XExcl, Exclusive, TypeOK, RemoveCS, AllocCS
    <3>2. At(RemoveCS)' = At(RemoveCS) \cup {t} /\ At(AllocCS)' = At(AllocCS)
          /\ Cardinality(At(AllocCS)) \in Nat
      BY <2>0, <3>1, AtStep
    <3>3. At(RemoveCS) = {} /\ Cardinality(At(AllocCS)) = 0
      BY <3>1, <3>2 DEF RWInv
    <3>4. At(AllocCS) = {}
      BY <3>3, PageCacheAssumption, FS_Subset, FS_EmptySet DEF At
    <3> QED BY <3>1, <3>2, <3>3, <3>4 DEF RWInv
  <2>7. CASE DFail(t) \/ XAbsent(t) \/ Removed(t)
    <3>1. /\ rwLock' = 0
          /\ pc[t] \in RemoveCS /\ pc'[t] \notin RemoveCS \cup AllocCS /\ pc[t] \notin AllocCS
      BY <2>7 DEF DFail, XAbsent, Removed, Release, TypeOK, RemoveCS, AllocCS
    <3>2. At(RemoveCS)' = At(RemoveCS) \ {t} /\ At(AllocCS)' = At(AllocCS)
      BY <2>0, <3>1, AtStep
    <3>3. t \in At(RemoveCS)  BY <3>1 DEF At
    <3>4. At(RemoveCS)' = {} /\ Cardinality(At(AllocCS)') = 0
      BY <2>2, <3>2, <3>3 DEF RWInv
    <3> QED BY <3>1, <3>4 DEF RWInv
  <2>8. CASE WInsert(t) \/ WCount(t) \/ DRemove(t) \/ XRemove(t) \/ Dec(t)
    <3>1. /\ UNCHANGED rwLock
          /\ pc[t] \in RemoveCS <=> pc'[t] \in RemoveCS
          /\ pc[t] \in AllocCS <=> pc'[t] \in AllocCS
      BY <2>8 DEF WInsert, WCount, DRemove, XRemove, Dec, TypeOK, RemoveCS, AllocCS
    <3> QED BY <2>3, <3>1
  <2>9. ASSUME UNCHANGED <<index, pageNum, rwLock, evicted>>,
               pc[t] \notin RemoveCS \cup AllocCS \cup {"w_count", "dec"},
               pc'[t] \notin RemoveCS \cup AllocCS \cup {"w_count", "dec"}
        PROVE  RWInv'
    BY <2>3, <2>9
  <2> QED
    BY <1>1, <2>4, <2>5, <2>6, <2>7, <2>8, <2>9, UninvolvedStep DEF Step, WriteStep, DeleteStep
<1>2. CASE UNCHANGED vars  BY <1>2 DEF RWInv, At, vars
<1> QED BY <1>1, <1>2 DEF Next

LEMMA SafeModeFromRW == RWInv => SafeModeExclusion
<1> SUFFICES ASSUME RWInv, SafeMode, NEW t \in Threads, NEW u \in Threads, t # u,
                    pc[t] \in RemoveCS
             PROVE  pc[u] \notin RemoveCS \cup AllocCS
  BY DEF SafeModeExclusion, RemoveCS, AllocCS
<1>1. t \in At(RemoveCS)  BY DEF At
<1>2. At(AllocCS) = {} /\ At(RemoveCS) = {t}  BY <1>1 DEF RWInv
<1> QED BY <1>2 DEF At

\* In SafeMode, while a thread takes a page out of the index no other thread
\* takes one out and none allocates.
THEOREM SafeModeExcludes == Spec => []SafeModeExclusion
<1>1. Spec => [](TypeOK /\ RWInv)
  BY InitTypeOK, NextTypeOK, InitRWInv, NextRWInv, PTL DEF Spec
<1> QED BY <1>1, SafeModeFromRW, PTL

------------------------------------------------------------------------------
\* pageNum_ and the sets it counts, as CountAccurate has them.
LEMMA CountStated ==
    CountAccurate <=> pageNum + Cardinality(At({"w_count"})) - Cardinality(At({"removed", "dec"}))
                      = Cardinality(Cached) + evicted
<1>1. At({"w_count"}) = {t \in Threads : pc[t] = "w_count"}  BY DEF At
<1> QED BY <1>1 DEF CountAccurate, At, Cached

LEMMA InitCount == Init => CountAccurate
<1> SUFFICES ASSUME Init PROVE CountAccurate  OBVIOUS
<1>1. Cached = {}  BY DEF Init, Cached
<1>2. Cardinality(Cached) = 0  BY <1>1, FS_EmptySet
<1>3. Cardinality(At({"w_count"})) = 0 /\ Cardinality(At({"removed", "dec"})) = 0  BY InitAt
<1>4. pageNum = 0 /\ evicted = 0  BY DEF Init
<1> QED BY <1>2, <1>3, <1>4, CountStated

LEMMA NextCount == TypeOK /\ CountAccurate /\ [Next]_vars => CountAccurate'
<1> SUFFICES ASSUME TypeOK, CountAccurate, [Next]_vars PROVE CountAccurate'  OBVIOUS
<1> USE DEF Goto, global, memory, locals, ghosts
<1> DEFINE A == At({"w_count"})
           D == At({"removed", "dec"})
<1>1. CountAccurate' <=> pageNum' + Cardinality(A') - Cardinality(D') = Cardinality(Cached') + evicted'
  <2>1. A' = {t \in Threads : pc'[t] = "w_count"}  BY DEF At
  <2> QED BY <2>1 DEF CountAccurate, At, Cached
<1>2. pageNum + Cardinality(A) - Cardinality(D) = Cardinality(Cached) + evicted  BY CountStated
<1>3. pageNum \in Int /\ evicted \in Int  BY DEF TypeOK
<1>4. ASSUME NEW t \in Threads, Call(t) \/ Step(t) PROVE CountAccurate'
  <2>0. \A u \in Threads : u # t => pc'[u] = pc[u]  BY <1>4, OwnPcStep
  <2>1. /\ Cardinality(A) \in Nat /\ Cardinality(A') \in Nat
        /\ (pc[t] # "w_count" /\ pc'[t] # "w_count") => Cardinality(A') = Cardinality(A)
        /\ pc[t] # "w_count" /\ pc'[t] = "w_count" => Cardinality(A') = Cardinality(A) + 1
        /\ pc[t] = "w_count" /\ pc'[t] # "w_count" => Cardinality(A') = Cardinality(A) - 1
    BY <2>0, AtStep
  <2>2. /\ Cardinality(D) \in Nat /\ Cardinality(D') \in Nat
        /\ (pc[t] \in {"removed", "dec"} <=> pc'[t] \in {"removed", "dec"})
              => Cardinality(D') = Cardinality(D)
        /\ pc[t] \notin {"removed", "dec"} /\ pc'[t] \in {"removed", "dec"}
              => Cardinality(D') = Cardinality(D) + 1
        /\ pc[t] \in {"removed", "dec"} /\ pc'[t] \notin {"removed", "dec"}
              => Cardinality(D') = Cardinality(D) - 1
    BY <2>0, AtStep
  <2>3. K(t) \in Keys  BY ArgType
  <2>4. Cardinality(Cached) \in Nat
    BY PageCacheAssumption, FS_Subset, FS_CardinalityType DEF Cached
  <2>5. UNCHANGED index => Cardinality(Cached') = Cardinality(Cached)  BY DEF Cached
  <2> HIDE DEF A, D
  <2>6. CASE WShared(t) \/ WInit(t) \/ DExcl(t) \/ XExcl(t) \/ DFail(t) \/ XAbsent(t) \/ Removed(t)
    <3>1. /\ UNCHANGED <<index, pageNum, evicted>> /\ pc[t] # "w_count" /\ pc'[t] # "w_count"
          /\ pc[t] \in {"removed", "dec"} <=> pc'[t] \in {"removed", "dec"}
      BY <2>6 DEF WShared, WInit, DExcl, XExcl, Exclusive, DFail, XAbsent, Removed, Release, TypeOK
    <3> QED BY <1>1, <1>2, <2>1, <2>2, <2>5, <3>1
  <2>7. CASE WAlloc(t)
    <3>1. /\ UNCHANGED pageNum /\ pc[t] = "w_alloc" /\ pc'[t] \in {"w_init", "null"}
          /\ \/ UNCHANGED <<index, evicted>>
             \/ /\ evicted' = evicted + 1
                /\ \E k \in Keys : index[k] # NoPage /\ index' = [index EXCEPT ![k] = NoPage]
      BY <2>7 DEF WAlloc, TypeOK
    <3>2. CASE UNCHANGED <<index, evicted>>
      BY <1>1, <1>2, <2>1, <2>2, <2>5, <3>1, <3>2
    <3>3. ASSUME NEW k \in Keys, index[k] # NoPage, index' = [index EXCEPT ![k] = NoPage],
                 evicted' = evicted + 1
          PROVE  CountAccurate'
      <4>1. Cardinality(Cached') = Cardinality(Cached) - 1  BY <3>3, CachedStep
      <4> QED BY <1>1, <1>2, <1>3, <2>1, <2>2, <2>4, <3>1, <3>3, <4>1
    <3> QED BY <3>1, <3>2, <3>3
  <2>8. CASE WInsert(t)
    <3>1. P(t) \in Pages /\ P(t) # NoPage /\ pc[t] = "w_insert" /\ UNCHANGED <<pageNum, evicted>>
      BY <2>8, PageCacheAssumption DEF WInsert, TypeOK, NeedsHandle, P
    <3>2. CASE pc'[t] = "w_count"
      <4>1. index[K(t)] = NoPage /\ index' = [index EXCEPT ![K(t)] = P(t)]
        BY <2>8, <3>2 DEF WInsert, TypeOK
      <4>2. Cardinality(Cached') = Cardinality(Cached) + 1  BY <2>3, <3>1, <4>1, CachedStep
      <4> QED BY <1>1, <1>2, <1>3, <2>1, <2>2, <2>4, <3>1, <3>2, <4>2
    <3>3. CASE pc'[t] # "w_count"
      <4>1. /\ pc'[t] \in {"w_lock", "w_refind"}
            /\ \/ UNCHANGED index
               \/ index[K(t)] # NoPage /\ index' = [index EXCEPT ![K(t)] = P(t)]
        BY <2>8, <3>3 DEF WInsert, TypeOK
      <4>2. Cardinality(Cached') = Cardinality(Cached)  BY <2>3, <2>5, <3>1, <4>1, CachedStep
      <4> QED BY <1>1, <1>2, <2>1, <2>2, <3>1, <4>1, <4>2
    <3> QED BY <3>2, <3>3
  <2>9. CASE WCount(t)
    <3>1. /\ pageNum' = pageNum + 1 /\ pc[t] = "w_count" /\ pc'[t] = "w_list"
          /\ UNCHANGED <<index, evicted>>
      BY <2>9 DEF WCount, TypeOK
    <3> QED BY <1>1, <1>2, <1>3, <2>1, <2>2, <2>4, <2>5, <3>1
  <2>10. CASE DRemove(t) \/ XRemove(t)
    <3>1. /\ UNCHANGED <<pageNum, evicted>>
          /\ pc[t] \in {"d_remove", "x_remove"} /\ pc'[t] \in {"removed", "d_fail", "x_absent"}
          /\ pc'[t] # "removed" => UNCHANGED index
          /\ pc'[t] = "removed" => /\ index' = [index EXCEPT ![K(t)] = NoPage]
                                   /\ index[K(t)] # NoPage \/ index[K(t)] = P(t)
          /\ pc[t] = "x_remove" /\ pc'[t] = "removed" => index[K(t)] # NoPage
          /\ pc[t] = "d_remove" => P(t) \in Pages
      BY <2>10 DEF DRemove, XRemove, TypeOK, NeedsHandle, DeleteCS, P
    <3>2. pc'[t] = "removed" => index[K(t)] # NoPage  BY <3>1, PageCacheAssumption
    <3>3. pc'[t] = "removed" => Cardinality(Cached') = Cardinality(Cached) - 1
      BY <2>3, <3>1, <3>2, CachedStep
    <3>4. CASE pc'[t] = "removed"
      BY <1>1, <1>2, <1>3, <2>1, <2>2, <2>4, <3>1, <3>3, <3>4
    <3>5. CASE pc'[t] # "removed"
      BY <1>1, <1>2, <1>3, <2>1, <2>2, <2>5, <3>1, <3>5
    <3> QED BY <3>4, <3>5
  <2>11. CASE Dec(t)
    <3>1. /\ pageNum' = pageNum - 1 /\ pc[t] = "dec" /\ pc'[t] = "erase"
          /\ UNCHANGED <<index, evicted>>
      BY <2>11 DEF Dec, TypeOK
    <3> QED BY <1>1, <1>2, <1>3, <2>1, <2>2, <2>4, <2>5, <3>1
  <2>12. ASSUME UNCHANGED <<index, pageNum, rwLock, evicted>>,
                pc[t] \notin RemoveCS \cup AllocCS \cup {"w_count", "dec"},
                pc'[t] \notin RemoveCS \cup AllocCS \cup {"w_count", "dec"}
         PROVE  CountAccurate'
    BY <1>1, <1>2, <2>1, <2>2, <2>5, <2>12 DEF RemoveCS
  <2> QED
    BY <1>4, <2>6, <2>7, <2>8, <2>9, <2>10, <2>11, <2>12, UninvolvedStep
       DEF Step, WriteStep, DeleteStep
<1>5. CASE UNCHANGED vars  BY <1>5 DEF CountAccurate, vars
<1> QED BY <1>4, <1>5 DEF Next

\* pageNum_ counts the pages of the index and the evicted ones, up to the calls
\* that are between their change of the index and their change of the counter.
THEOREM PageNumCounts == Spec => []CountAccurate
<1>1. Spec => [](TypeOK /\ CountAccurate)
  BY InitTypeOK, NextTypeOK, InitCount, NextCount, PTL DEF Spec
<1> QED BY <1>1, PTL

------------------------------------------------------------------------------
(***************************************************************************)
(* pagesList_ and the handles, under the accessor's file lock              *)
(***************************************************************************)
WritePCs  == {"w_find", "w_shared", "w_alloc", "w_init", "w_insert", "w_refind", "w_count",
              "w_list", "w_lock", "null"} \cup WriteCS
DeletePCs == {"d_find", "d_lock"} \cup DeleteCS \cup XCS \cup DeadCS

\* Threads run the code of the operation they were called for ...
OpInv ==
    \A t \in Threads :
        /\ pc[t] \in WritePCs => arg[t].op = "Write"
        /\ pc[t] \in DeletePCs => arg[t].op \in {"DeletePart", "Delete"}

\* ... and the file lock lets two calls on a key overlap only if both write or
\* one of them reads.
FileLockInv ==
    FileLocked => \A t, u \in Threads :
        t # u /\ pc[t] # "idle" /\ pc[u] # "idle" /\ K(t) = K(u)
        => Compatible(arg[t].op, arg[u].op)

Inserted == {"w_count", "w_list"}

\* The list is behind the index by the calls that have changed the index and not
\* yet the list, and a page another writer inserted stays until it is found.
ListInv ==
    FileLocked /\ evicted = 0 =>
        /\ \A t \in Threads : pc[t] \in Inserted \cup {"w_refind"} => index[K(t)] # NoPage
        /\ \A t \in Threads : pc[t] \in DeadCS => index[K(t)] = NoPage
        /\ \A k \in pagesList : index[k] # NoPage \/ \E t \in Threads : pc[t] \in DeadCS /\ K(t) = k
        /\ \A k \in Keys : index[k] # NoPage =>
              k \in pagesList \/ \E t \in Threads : pc[t] \in Inserted /\ K(t) = k

\* No thread has got a null handle, and one that asks for memory holds no page.
NullInv ==
    FileLocked /\ evicted = 0 =>
        \A t \in Threads : /\ pc[t] # "null"
                           /\ pc[t] \in {"w_shared", "w_alloc"} => handle[t] = NoPage

\* A step of a call keeps its arguments, stays in the code of its operation and
\* never starts from idle.
LEMMA StepInOperation ==
    ASSUME TypeOK, NEW t \in Threads, Step(t)
    PROVE  /\ UNCHANGED arg /\ pc[t] # "idle"
           /\ pc'[t] \in WritePCs => pc[t] \in WritePCs
           /\ pc'[t] \in DeletePCs => pc[t] \in DeletePCs
<1> USE DEF TypeOK, Goto, locals, WritePCs, DeletePCs, WriteCS, DeleteCS, XCS, DeadCS
<1>1. CASE WriteStep(t)
  BY <1>1 DEF WriteStep, WFind, WShared, WAlloc, WInit, WInsert, WRefind, WCount, WList, WLock,
     TryLock, WVer, AddNewVer, WCopy, WFast, SetFastBitmap, WBits, SetBitMap, SetLastVer, UnLock
<1>2. CASE DeleteStep(t)
  BY <1>2 DEF DeleteStep, DFind, DLock, TryLock, DVer, AddNewVer, DFast, SetFastBitmap, DBits,
     SetBitMap, DEmpty, DExcl, Exclusive, DRemove, DFail, Release, XExcl, XRemove, XAbsent,
     Removed, Dec, Erase
<1>3. CASE ReadStep(t)
  BY <1>3 DEF ReadStep, RFind, RLast, RNew, RFast, RScan, RCopy, RCheck
<1>4. CASE Return(t)  BY <1>4 DEF Return
<1> QED BY <1>1, <1>2, <1>3, <1>4 DEF Step

\* A call starts at the entry of its operation, compatible with the calls under
\* way if the caller holds the file lock.
LEMMA CallStep ==
    ASSUME TypeOK, NEW t \in Threads, Call(t)
    PROVE  /\ UNCHANGED <<index, pagesList, evicted, handle>>
           /\ \A u \in Threads : u # t => arg'[u] = arg[u]
           /\ \/ pc'[t] = "w_find" /\ arg'[t].op = "Write"
              \/ pc'[t] = "r_find" /\ arg'[t].op = "Read"
              \/ pc'[t] = "d_find" /\ arg'[t].op = "DeletePart"
              \/ pc'[t] = "x_excl" /\ arg'[t].op = "Delete"
           /\ FileLocked => \A u \in Threads :
                pc[u] = "idle" \/ arg[u].key # arg'[t].key \/ Compatible(arg'[t].op, arg[u].op)
           /\ pc[t] = "idle"
<1> USE DEF Goto, global
<1>1. PICK a \in Args :
          /\ FileLocked => \A u \in Threads :
                pc[u] = "idle" \/ arg[u].key # a.key \/ Compatible(a.op, arg[u].op)
          /\ arg' = [arg EXCEPT ![t] = a]
          /\ pc[t] = "idle" /\ pc' = [pc EXCEPT ![t] = Entry[a.op]]
  BY DEF Call
<1>2. a.op \in OpNames /\ arg'[t] = a /\ pc'[t] = Entry[a.op]  BY <1>1 DEF TypeOK, Args
<1>3. \/ pc'[t] = "w_find" /\ a.op = "Write"
      \/ pc'[t] = "r_find" /\ a.op = "Read"
      \/ pc'[t] = "d_find" /\ a.op = "DeletePart"
      \/ pc'[t] = "x_excl" /\ a.op = "Delete"
  BY <1>2 DEF Entry, OpNames
<1>4. UNCHANGED <<index, pagesList, evicted, handle>>  BY DEF Call
<1>5. \A u \in Threads : u # t => arg'[u] = arg[u]  BY <1>1 DEF TypeOK
<1> QED BY <1>1, <1>2, <1>3, <1>4, <1>5

LEMMA InitOpInv == Init => OpInv /\ FileLockInv
BY DEF Init, OpInv, FileLockInv, WritePCs, DeletePCs, WriteCS, DeleteCS, XCS, DeadCS

LEMMA NextOpInv == TypeOK /\ OpInv /\ FileLockInv /\ [Next]_vars => OpInv' /\ FileLockInv'
<1> SUFFICES ASSUME TypeOK, OpInv, FileLockInv, [Next]_vars PROVE OpInv' /\ FileLockInv'
  OBVIOUS
<1>1. ASSUME NEW t \in Threads, Step(t) PROVE OpInv' /\ FileLockInv'
  <2>1. \A u \in Threads : u # t => pc'[u] = pc[u]  BY <1>1, OwnPcStep
  <2>2. /\ UNCHANGED arg /\ pc[t] # "idle"
        /\ pc'[t] \in WritePCs => pc[t] \in WritePCs
        /\ pc'[t] \in DeletePCs => pc[t] \in DeletePCs
    BY <1>1, StepInOperation
  <2>3. OpInv'  BY <2>1, <2>2 DEF OpInv
  <2>4. FileLockInv'  BY <2>1, <2>2 DEF FileLockInv, K
  <2> QED BY <2>3, <2>4
<1>2. ASSUME NEW t \in Threads, Call(t) PROVE OpInv' /\ FileLockInv'
  <2>1. \A u \in Threads : u # t => pc'[u] = pc[u]  BY <1>2, OwnPcStep
  <2>2. /\ \A u \in Threads : u # t => arg'[u] = arg[u]
        /\ \/ pc'[t] = "w_find" /\ arg'[t].op = "Write"
           \/ pc'[t] = "r_find" /\ arg'[t].op = "Read"
           \/ pc'[t] = "d_find" /\ arg'[t].op = "DeletePart"
           \/ pc'[t] = "x_excl" /\ arg'[t].op = "Delete"
        /\ FileLocked => \A u \in Threads :
              pc[u] = "idle" \/ arg[u].key # arg'[t].key \/ Compatible(arg'[t].op, arg[u].op)
    BY <1>2, CallStep
  <2>3. OpInv'
    BY <2>1, <2>2 DEF OpInv, WritePCs, DeletePCs, WriteCS, DeleteCS, XCS, DeadCS
  <2>4. \A u, w \in Threads : Compatible(arg'[u].op, arg'[w].op) = Compatible(arg'[w].op, arg'[u].op)
    BY DEF Compatible
  <2>5. FileLockInv'  BY <2>1, <2>2, <2>4 DEF FileLockInv, K
  <2> QED BY <2>3, <2>5
<1>3. CASE UNCHANGED vars
  BY <1>3 DEF vars, locals, OpInv, FileLockInv, K
<1> QED BY <1>1, <1>2, <1>3 DEF Next

\* Under the file lock, a thread that writes a key and one that deletes from it
\* do not meet, and neither do two that delete.
LEMMA DeleterAlone ==
    ASSUME OpInv, FileLockInv, FileLocked, NEW t \in Threads, NEW u \in Threads, t # u,
           pc[t] \in DeletePCs, pc[u] \in WritePCs \cup DeletePCs
    PROVE  K(t) # K(u)
<1>1. arg[t].op \in {"DeletePart", "Delete"} /\ arg[u].op \in {"Write", "DeletePart", "Delete"}
  BY DEF OpInv
<1>2. pc[t] # "idle" /\ pc[u] # "idle"
  BY DEF WritePCs, DeletePCs, WriteCS, DeleteCS, XCS, DeadCS
<1>3. ~Compatible(arg[t].op, arg[u].op)  BY <1>1 DEF Compatible
<1> QED BY <1>2, <1>3 DEF FileLockInv

LEMMA InitListInv == Init => ListInv
BY DEF Init, ListInv, Inserted, DeadCS

\* A step that changes neither the index nor the list, and moves no thread into
\* or out of the code between a change of one and a change of the other.
LEMMA ListCalmStep ==
    ASSUME ListInv, NEW t \in Threads, UNCHANGED <<index, pagesList>>,
           evicted' = 0 => evicted = 0,
           \A u \in Threads : u # t => pc'[u] = pc[u] /\ arg'[u] = arg[u],
           pc[t] \in Inserted <=> pc'[t] \in Inserted,
           pc[t] \in DeadCS <=> pc'[t] \in DeadCS,
           pc'[t] = "w_refind" => pc[t] = "w_refind",
           arg'[t] = arg[t] \/ pc'[t] \notin Inserted \cup {"w_refind"} \cup DeadCS
    PROVE  ListInv'
<1> SUFFICES ASSUME FileLocked, evicted' = 0 PROVE ListInv'  BY DEF ListInv
<1>1. \A u \in Threads : pc'[u] \in Inserted \cup {"w_refind"} \cup DeadCS => K(u)' = K(u)
  BY DEF K
<1>2. \A u \in Threads : /\ pc'[u] \in Inserted <=> pc[u] \in Inserted
                         /\ pc'[u] \in DeadCS <=> pc[u] \in DeadCS
                         /\ pc'[u] = "w_refind" => pc[u] = "w_refind"
  OBVIOUS
<1> QED BY <1>1, <1>2 DEF ListInv

LEMMA NextListInv ==
    ASSUME TypeOK, OpInv, FileLockInv, ListInv, [Next]_vars
    PROVE  ListInv'
<1> USE DEF Goto, global, memory, locals, ghosts
<1>1. ASSUME NEW t \in Threads, Call(t) PROVE ListInv'
  <2>1. \A u \in Threads : u # t => pc'[u] = pc[u]  BY <1>1, OwnPcStep
  <2>2. /\ UNCHANGED <<index, pagesList, evicted>>
        /\ \A u \in Threads : u # t => arg'[u] = arg[u]
        /\ pc'[t] \in {"w_find", "r_find", "d_find", "x_excl"} /\ pc[t] = "idle"
    BY <1>1, CallStep
  <2> QED BY <2>1, <2>2, ListCalmStep DEF Inserted, DeadCS
<1>2. ASSUME NEW t \in Threads, Step(t), FileLocked, evicted' = 0 PROVE ListInv'
  <2>1. \A u \in Threads : u # t => pc'[u] = pc[u]  BY <1>2, OwnPcStep
  <2>2. UNCHANGED arg /\ \A u \in Threads : K(u)' = K(u)  BY <1>2, StepInOperation DEF K
  <2>3. K(t) \in Keys  BY ArgType
  <2>4. evicted = 0
    BY <1>2, UninvolvedStep DEF TypeOK, Step, WriteStep, DeleteStep, WShared, WAlloc, WInit,
       WInsert, WCount, DExcl, XExcl, Exclusive, DRemove, XRemove, DFail, XAbsent, Removed,
       Release, Dec
  <2> USE <1>2, <2>4
  <2>5. CASE \/ UNCHANGED <<index, pagesList>>
             /\ (pc[t] \in Inserted <=> pc'[t] \in Inserted)
             /\ (pc[t] \in DeadCS <=> pc'[t] \in DeadCS)
             /\ (pc'[t] = "w_refind" => pc[t] = "w_refind")
    BY <2>1, <2>2, <2>5, ListCalmStep
  <2>6. CASE WFind(t) \/ WShared(t) \/ WInit(t) \/ WCount(t) \/ WRefind(t)
             \/ WLock(t) \/ WVer(t) \/ WCopy(t) \/ WFast(t) \/ WBits(t) \/ SetLastVer(t) \/ UnLock(t)
    BY <2>5, <2>6 DEF TypeOK, WFind, WShared, WInit, WCount, WRefind, WLock, TryLock, WVer,
       AddNewVer, WCopy, WFast, SetFastBitmap, WBits, SetBitMap, SetLastVer, UnLock, Inserted, DeadCS
  <2>7. CASE DFind(t) \/ DLock(t) \/ DVer(t) \/ DFast(t) \/ DBits(t) \/ DEmpty(t) \/ DExcl(t)
             \/ DFail(t) \/ XExcl(t) \/ XAbsent(t) \/ Removed(t) \/ Dec(t)
    BY <2>5, <2>7 DEF TypeOK, DFind, DLock, TryLock, DVer, AddNewVer, DFast, SetFastBitmap, DBits,
       SetBitMap, DEmpty, DExcl, XExcl, Exclusive, DFail, XAbsent, Removed, Release, Dec,
       Inserted, DeadCS
  <2>8. CASE ReadStep(t) \/ Return(t)
    BY <2>5, <2>8 DEF TypeOK, ReadStep, RFind, RLast, RNew, RFast, RScan, RCopy, RCheck, Return,
       Inserted, DeadCS
  <2>9. CASE WAlloc(t)
    <3>1. UNCHANGED <<index, pagesList>> /\ pc[t] = "w_alloc" /\ pc'[t] \in {"w_init", "null"}
      BY <2>9 DEF WAlloc, TypeOK
    <3> QED BY <2>5, <3>1 DEF Inserted, DeadCS
  <2>10. CASE WInsert(t)
    <3>1. /\ pc[t] = "w_insert" /\ UNCHANGED pagesList
          /\ \/ pc'[t] = "w_count" /\ index' = [index EXCEPT ![K(t)] = P(t)]
             \/ /\ pc'[t] \in {"w_lock", "w_refind"} /\ index[K(t)] # NoPage
                /\ UNCHANGED index \/ index' = [index EXCEPT ![K(t)] = P(t)]
          /\ pc'[t] = "w_lock" => index[K(t)] # NoPage
      BY <2>10 DEF WInsert, TypeOK
    <3>2. P(t) # NoPage  BY <3>1, PageCacheAssumption DEF TypeOK, NeedsHandle, P
    <3>3. index'[K(t)] # NoPage /\ \A k \in Keys : k # K(t) => index'[k] = index[k]
      BY <2>3, <3>1, <3>2 DEF TypeOK
    <3>4. \A u \in Threads : pc[u] \in DeadCS => K(u) # K(t)
      <4>1. \A u \in Threads : pc[u] \in DeadCS => pc[u] \in DeletePCs /\ u # t
        BY <3>1 DEF DeletePCs, DeadCS
      <4>2. pc[t] \in WritePCs  BY <3>1 DEF WritePCs
      <4> QED BY <4>1, <4>2, DeleterAlone
    <3>5. pc[t] \notin DeadCS \cup Inserted /\ pc'[t] \notin DeadCS  BY <3>1 DEF DeadCS, Inserted
    <3>6. \A u \in Threads : K(u) \in Keys  BY ArgType
    <3>7. \A u \in Threads : pc'[u] \in Inserted \cup {"w_refind"} => index'[K(u)] # NoPage
      BY <2>1, <3>3, <3>6 DEF ListInv
    <3>8. \A u \in Threads : pc'[u] \in DeadCS => index'[K(u)] = NoPage
      BY <2>1, <3>3, <3>4, <3>5, <3>6 DEF ListInv
    <3>9. \A k \in pagesList : index'[k] # NoPage \/ \E u \in Threads : pc'[u] \in DeadCS /\ K(u) = k
      BY <2>1, <3>3, <3>5 DEF ListInv, TypeOK
    <3>10. \A k \in Keys : index'[k] # NoPage =>
              k \in pagesList \/ \E u \in Threads : pc'[u] \in Inserted /\ K(u) = k
      <4>1. CASE pc'[t] = "w_count"  BY <2>1, <3>3, <3>5, <4>1 DEF ListInv, Inserted
      <4>2. CASE pc'[t] # "w_count"
        <5>1. index[K(t)] # NoPage  BY <3>1, <4>2
        <5> QED BY <2>1, <3>3, <3>5, <5>1 DEF ListInv
      <4> QED BY <4>1, <4>2
    <3> QED BY <2>2, <3>1, <3>7, <3>8, <3>9, <3>10 DEF ListInv
  <2>11. CASE WList(t)
    <3>1. /\ pc[t] = "w_list" /\ pc'[t] = "w_lock" /\ UNCHANGED index
          /\ pagesList' = pagesList \cup {K(t)}
      BY <2>11 DEF WList, TypeOK
    <3>2. index[K(t)] # NoPage  BY <3>1 DEF ListInv, Inserted
    <3>3. \A u \in Threads : /\ pc'[u] \in Inserted <=> pc[u] \in Inserted /\ u # t
                             /\ pc'[u] = "w_refind" <=> pc[u] = "w_refind"
                             /\ pc'[u] \in DeadCS <=> pc[u] \in DeadCS
      BY <2>1, <3>1 DEF Inserted, DeadCS
    <3> QED BY <2>2, <3>1, <3>2, <3>3 DEF ListInv
  <2>12. CASE DRemove(t) \/ XRemove(t)
    <3>1. /\ pc[t] \in {"d_remove", "x_remove"} /\ UNCHANGED pagesList
          /\ \/ pc'[t] \in {"d_fail", "x_absent"} /\ UNCHANGED index
             \/ pc'[t] = "removed" /\ index' = [index EXCEPT ![K(t)] = NoPage]
      BY <2>12 DEF DRemove, XRemove, TypeOK
    <3>2. CASE UNCHANGED index /\ pc'[t] # "removed"
      BY <2>5, <3>1, <3>2 DEF Inserted, DeadCS
    <3>3. CASE pc'[t] = "removed" /\ index' = [index EXCEPT ![K(t)] = NoPage]
      <4>1. index'[K(t)] = NoPage /\ \A k \in Keys : k # K(t) => index'[k] = index[k]
        BY <2>3, <3>3 DEF TypeOK
      <4>2. \A u \in Threads : u # t /\ pc[u] \in Inserted \cup {"w_refind"} => K(u) # K(t)
        <5>1. \A u \in Threads : pc[u] \in Inserted \cup {"w_refind"} => pc[u] \in WritePCs
          BY DEF WritePCs, Inserted
        <5>2. pc[t] \in DeletePCs  BY <3>1 DEF DeletePCs, DeleteCS, XCS
        <5> QED BY <5>1, <5>2, DeleterAlone
      <4>3. pc[t] \notin Inserted \cup {"w_refind"} \cup DeadCS /\ pc'[t] \in DeadCS
            /\ pc'[t] \notin Inserted \cup {"w_refind"}
        BY <3>1, <3>3 DEF Inserted, DeadCS
      <4>4. \A u \in Threads : K(u) \in Keys  BY ArgType
      <4>5. \A u \in Threads : pc'[u] \in Inserted \cup {"w_refind"} => index'[K(u)] # NoPage
        BY <2>1, <4>1, <4>2, <4>3, <4>4 DEF ListInv
      <4>6. \A u \in Threads : pc'[u] \in DeadCS => index'[K(u)] = NoPage
        BY <2>1, <4>1, <4>4 DEF ListInv
      <4>7. \A k \in pagesList : index'[k] # NoPage \/ \E u \in Threads : pc'[u] \in DeadCS /\ K(u) = k
        BY <2>1, <4>1, <4>3 DEF ListInv, TypeOK
      <4>8. \A k \in Keys : index'[k] # NoPage =>
                k \in pagesList \/ \E u \in Threads : pc'[u] \in Inserted /\ K(u) = k
        BY <2>1, <4>1, <4>3 DEF ListInv
      <4> QED BY <2>2, <3>1, <4>5, <4>6, <4>7, <4>8 DEF ListInv
    <3> QED BY <3>1, <3>2, <3>3
  <2>13. CASE Erase(t)
    <3>1. /\ pc[t] = "erase" /\ pc'[t] = "done" /\ UNCHANGED index
          /\ pagesList' = pagesList \ {K(t)}
      BY <2>13 DEF Erase, TypeOK
    <3>2. index[K(t)] = NoPage  BY <3>1 DEF ListInv, DeadCS
    <3>3. \A u \in Threads : /\ pc'[u] \in Inserted <=> pc[u] \in Inserted
                             /\ pc'[u] = "w_refind" <=> pc[u] = "w_refind"
                             /\ pc'[u] \in DeadCS <=> pc[u] \in DeadCS /\ u # t
      BY <2>1, <3>1 DEF Inserted, DeadCS
    <3> QED BY <2>2, <3>1, <3>2, <3>3 DEF ListInv
  <2> QED BY <2>6, <2>7, <2>8, <2>9, <2>10, <2>11, <2>12, <2>13 DEF Step, WriteStep, DeleteStep
<1>3. CASE UNCHANGED vars  BY <1>3 DEF ListInv, K, vars
<1>4. ~(FileLocked /\ evicted' = 0) => ListInv'  BY DEF ListInv
<1> QED BY <1>1, <1>2, <1>3, <1>4 DEF Next

\* Under the accessor's file lock pagesList_ has a key exactly if its page is
\* cached, whenever no call that changes the key is under way and CacheLib has
\* evicted nothing.
THEOREM ListFollowsIndex == Spec => []ListAccurate
<1>1. Spec => [](TypeOK /\ OpInv /\ FileLockInv /\ ListInv)
  BY InitTypeOK, NextTypeOK, InitOpInv, NextOpInv, InitListInv, NextListInv, PTL DEF Spec
<1>2. OpInv /\ ListInv => ListAccurate
  <2> SUFFICES ASSUME OpInv, ListInv, FileLocked, evicted = 0, NEW k \in Keys,
                      \A t \in Threads : pc[t] \notin {"idle", "done"} =>
                                            arg[t].key # k \/ arg[t].op = "Read"
               PROVE  k \in pagesList <=> index[k] # NoPage
    BY DEF ListAccurate
  <2>1. ASSUME NEW t \in Threads, pc[t] \in Inserted \cup DeadCS PROVE K(t) # k
    BY <2>1 DEF OpInv, Inserted, WritePCs, DeletePCs, DeadCS, K
  <2> QED BY <2>1 DEF ListInv
<1> QED BY <1>1, <1>2, PTL

\* CacheLib has memory for every thread: what a pool of pages, far larger than the
\* executor's number of threads, provides.
PoolLargeEnough == IsFiniteSet(Pages) /\ Cardinality(Pages) >= Cardinality(Threads)

\* With such a pool an allocation by a thread that holds no page finds a page that
\* is free, or can be evicted.
LEMMA AllocationSucceeds ==
    ASSUME TypeOK, PoolLargeEnough, NEW t \in Threads, handle[t] = NoPage
    PROVE  Free # {} \/ \E k \in Keys : index[k] # NoPage /\ Unreferenced(index[k])
<1> SUFFICES ASSUME Free = {}, \A k \in Keys : index[k] # NoPage => ~Unreferenced(index[k])
             PROVE  FALSE
  OBVIOUS
<1> DEFINE T == Threads \ {t}
           f == [p \in Pages |-> CHOOSE u \in T : handle[u] = p]
<1>1. ASSUME NEW p \in Pages PROVE \E u \in T : handle[u] = p
  <2>1. p # NoPage  BY PageCacheAssumption
  <2>2. ~Unreferenced(p)  BY <2>1 DEF Free
  <2> QED BY <2>1, <2>2 DEF Unreferenced
<1>2. f \in [Pages -> T] /\ \A p \in Pages : handle[f[p]] = p  BY <1>1
<1>3. /\ IsFiniteSet(T) /\ Cardinality(T) = Cardinality(Threads) - 1
      /\ Cardinality(Threads) \in Nat /\ Cardinality(Pages) \in Nat
  BY PageCacheAssumption, FS_RemoveElement, FS_CardinalityType DEF PoolLargeEnough
<1>4. Cardinality(T) < Cardinality(Pages)  BY <1>3 DEF PoolLargeEnough
<1> HIDE DEF T, f
<1>5. \E p, q \in Pages : p # q /\ f[p] = f[q]
  BY <1>2, <1>3, <1>4, FS_PigeonHole DEF PoolLargeEnough
<1> QED BY <1>2, <1>5

LEMMA InitNullInv == Init => NullInv
BY DEF Init, NullInv

LEMMA NextNullInv ==
    ASSUME PoolLargeEnough, TypeOK, ListInv, NullInv, [Next]_vars
    PROVE  NullInv'
<1> USE DEF Goto, global, memory, locals, ghosts
<1> DEFINE Bare(t) == pc[t] \in {"w_shared", "w_alloc"} => handle[t] = NoPage
<1>1. ASSUME NEW t \in Threads, Call(t) \/ Step(t), FileLocked, evicted' = 0 PROVE NullInv'
  <2>1. \A u \in Threads : u # t => pc'[u] = pc[u]  BY <1>1, OwnPcStep
  <2>2. evicted = 0 /\ \A u \in Threads : u # t => handle'[u] = handle[u]
    <3> USE DEF TypeOK
    <3>1. CASE Call(t)  BY <1>1, <3>1 DEF Call
    <3>2. CASE WriteStep(t)
      BY <1>1, <3>2 DEF WriteStep, WFind, WShared, WAlloc, WInit, WInsert, WRefind, WCount, WList,
         WLock, TryLock, WVer, AddNewVer, WCopy, WFast, SetFastBitmap, WBits, SetBitMap,
         SetLastVer, UnLock
    <3>3. CASE DeleteStep(t)
      BY <1>1, <3>3 DEF DeleteStep, DFind, DLock, TryLock, DVer, AddNewVer, DFast, SetFastBitmap,
         DBits, SetBitMap, DEmpty, DExcl, Exclusive, DRemove, DFail, Release, XExcl, XRemove,
         XAbsent, Removed, Dec, Erase
    <3>4. CASE ReadStep(t)
      BY <1>1, <3>4 DEF ReadStep, RFind, RLast, RNew, RFast, RScan, RCopy, RCheck
    <3>5. CASE Return(t)  BY <1>1, <3>5 DEF Return
    <3> QED BY <1>1, <3>1, <3>2, <3>3, <3>4, <3>5 DEF Step
  <2>3. Bare(t) /\ (pc[t] = "w_refind" => index[K(t)] # NoPage)
    BY <1>1, <2>2 DEF NullInv, ListInv
  <2>4. pc'[t] # "null" /\ Bare(t)'
    <3>1. CASE Call(t)
      BY <3>1, CallStep
    <3>2. CASE WFind(t) \/ WShared(t) \/ WRefind(t)
      BY <2>3, <3>2 DEF TypeOK, WFind, WShared, WRefind
    <3>3. CASE WAlloc(t)
      <4>1. pc[t] = "w_alloc" /\ handle[t] = NoPage  BY <2>3, <3>3 DEF WAlloc
      <4>2. Free # {} \/ \E k \in Keys : index[k] # NoPage /\ Unreferenced(index[k])
        BY <4>1, AllocationSucceeds
      <4>3. pc' = [pc EXCEPT ![t] = "w_init"]  BY <3>3, <4>2 DEF WAlloc
      <4> QED BY <4>3 DEF TypeOK
    <3>4. CASE WInit(t) \/ WInsert(t) \/ WCount(t) \/ WList(t) \/ WLock(t) \/ WVer(t) \/ WCopy(t)
               \/ WFast(t) \/ WBits(t) \/ SetLastVer(t) \/ UnLock(t)
      BY <3>4 DEF TypeOK, WInit, WInsert, WCount, WList, WLock, TryLock, WVer, AddNewVer, WCopy,
         WFast, SetFastBitmap, WBits, SetBitMap, SetLastVer, UnLock
    <3>5. CASE DeleteStep(t)
      BY <3>5 DEF TypeOK, DeleteStep, DFind, DLock, TryLock, DVer, AddNewVer, DFast,
         SetFastBitmap, DBits, SetBitMap, DEmpty, DExcl, Exclusive, DRemove, DFail, Release,
         XExcl, XRemove, XAbsent, Removed, Dec, Erase
    <3>6. CASE ReadStep(t) \/ Return(t)
      BY <3>6 DEF TypeOK, ReadStep, RFind, RLast, RNew, RFast, RScan, RCopy, RCheck, Return
    <3> QED BY <1>1, <3>1, <3>2, <3>3, <3>4, <3>5, <3>6 DEF Step, WriteStep
  <2> QED BY <1>1, <2>1, <2>2, <2>4 DEF NullInv
<1>2. CASE UNCHANGED vars  BY <1>2 DEF NullInv, vars
<1>3. ~(FileLocked /\ evicted' = 0) => NullInv'  BY DEF NullInv
<1> QED BY <1>1, <1>2, <1>3 DEF Next

\* Under the accessor's file lock, as long as CacheLib evicts nothing and has a
\* page for every thread, no Write is left with a null handle: neither by an
\* allocation nor by the lookup after an insert that lost.
THEOREM WritesGetHandles ==
    ASSUME PoolLargeEnough
    PROVE  Spec => []NoNullHandle
<1>1. Init => NullInv  BY InitNullInv
<1>2. TypeOK /\ ListInv /\ NullInv /\ [Next]_vars => NullInv'  BY NextNullInv
<1>3. Spec => [](TypeOK /\ OpInv /\ FileLockInv /\ ListInv /\ NullInv)
  BY <1>1, <1>2, InitTypeOK, NextTypeOK, InitOpInv, NextOpInv, InitListInv, NextListInv, PTL DEF Spec
<1>4. NullInv => NoNullHandle  BY DEF NullInv, NoNullHandle
<1> QED BY <1>3, <1>4, PTL

------------------------------------------------------------------------------
(***************************************************************************)
(* Bytes                                                                   *)
(***************************************************************************)
\* A position is in its byte.
LEMMA InByte ==
    ASSUME NEW p \in Nat
    PROVE  /\ p \div BYTE_LEN \in Nat /\ p % BYTE_LEN \in 0 .. BYTE_LEN - 1
           /\ p = (p \div BYTE_LEN) * BYTE_LEN + (p % BYTE_LEN)
BY PageBitmapAssumption

\* Consecutive whole bytes are an interval of positions.
LEMMA WholeBytes ==
    ASSUME NEW s \in Nat, NEW n \in Nat
    PROVE  UNION {Byte(b) : b \in s .. s + n - 1} = s * BYTE_LEN .. s * BYTE_LEN + n * BYTE_LEN - 1
<1> DEFINE B == BYTE_LEN
<1>1. B \in Nat \ {0}  BY PageBitmapAssumption
<1>2. ASSUME NEW b \in s .. s + n - 1, NEW x \in Byte(b)
      PROVE  x \in s * B .. s * B + n * B - 1
  <2>1. b - s \in Nat /\ n - 1 - (b - s) \in Nat  OBVIOUS
  <2>2. (b - s) * B \in Nat /\ (n - 1 - (b - s)) * B \in Nat  BY <1>1, <2>1
  <2>3. b * B = s * B + (b - s) * B  BY <1>1
  <2>4. b * B + B + (n - 1 - (b - s)) * B = s * B + n * B  BY <1>1
  <2>5. x \in b * B .. b * B + B - 1  BY DEF Byte
  <2> QED BY <1>1, <2>2, <2>3, <2>4, <2>5
<1>3. ASSUME NEW x \in s * B .. s * B + n * B - 1
      PROVE  \E b \in s .. s + n - 1 : x \in Byte(b)
  <2> DEFINE b == x \div BYTE_LEN
  <2>1. x \in Nat  BY <1>1
  <2>2. b \in Nat /\ x \in b * B .. b * B + B - 1  BY <1>1, <2>1, InByte
  <2> HIDE DEF b
  <2>3. b >= s
    <3> SUFFICES ASSUME b + 1 <= s PROVE FALSE  BY <2>2
    <3>1. (s - (b + 1)) * B \in Nat  BY <1>1, <2>2
    <3>2. s * B = b * B + B + (s - (b + 1)) * B  BY <1>1, <2>2
    <3> QED BY <1>1, <2>2, <3>1, <3>2
  <2>4. b <= s + n - 1
    <3> SUFFICES ASSUME b >= s + n PROVE FALSE  BY <2>2
    <3>1. (b - (s + n)) * B \in Nat  BY <1>1, <2>2
    <3>2. b * B = s * B + n * B + (b - (s + n)) * B  BY <1>1, <2>2
    <3> QED BY <1>1, <2>2, <3>1, <3>2
  <2> QED BY <2>2, <2>3, <2>4 DEF Byte
<1> QED BY <1>2, <1>3, Zenon

------------------------------------------------------------------------------
(***************************************************************************)
(* SetBitMap                                                               *)
(***************************************************************************)
\* What is left of the range, once the head is done.
Rest == startByte * BYTE_LEN .. startByte * BYTE_LEN + len - 1

SetTypeOK ==
    /\ bitmap \subseteq Positions /\ wanted \subseteq Positions
    /\ pos \in Nat /\ len \in Nat /\ startByte \in Nat
    /\ valid \in BOOLEAN /\ fastBitmap \in BOOLEAN

\* The bits that are still to be changed would give the bitmap that is wanted, which
\* has every bit if the flag is set.
SetInv ==
    /\ SetTypeOK
    /\ fastBitmap => wanted = Positions
    /\ step = "head" => wanted = SetBits(pos .. pos + len - 1, valid) /\ startByte = pos \div BYTE_LEN
    /\ step \in {"mid", "tail"} => wanted = SetBits(Rest, valid)
    /\ step \notin {"head", "mid", "tail"} => wanted = bitmap

\* Some of a range and then the rest of it.
LEMMA SetTwice ==
    ASSUME NEW S, NEW T, NEW v, bitmap' = SetBits(S, v)
    PROVE  SetBits(T, v)' = SetBits(S \cup T, v)
BY DEF SetBits

LEMMA SetStartInv == ASSUME SetInv, SetStart PROVE SetInv'
<1>1. PICK p \in Positions : \E l \in 1 .. PageBodySize - p : \E v \in BOOLEAN :
        /\ pos' = p /\ len' = l /\ valid' = v /\ startByte' = p \div BYTE_LEN
        /\ fastBitmap' = IF v THEN fastBitmap \/ l = PageBodySize ELSE FALSE
        /\ wanted' = IF v THEN bitmap \cup (p .. p + l - 1) ELSE bitmap \ (p .. p + l - 1)
  BY DEF SetStart
<1>2. PICK l \in 1 .. PageBodySize - p : \E v \in BOOLEAN :
        /\ pos' = p /\ len' = l /\ valid' = v /\ startByte' = p \div BYTE_LEN
        /\ fastBitmap' = IF v THEN fastBitmap \/ l = PageBodySize ELSE FALSE
        /\ wanted' = IF v THEN bitmap \cup (p .. p + l - 1) ELSE bitmap \ (p .. p + l - 1)
  BY <1>1
<1>3. PICK v \in BOOLEAN :
        /\ pos' = p /\ len' = l /\ valid' = v /\ startByte' = p \div BYTE_LEN
        /\ fastBitmap' = IF v THEN fastBitmap \/ l = PageBodySize ELSE FALSE
        /\ wanted' = IF v THEN bitmap \cup (p .. p + l - 1) ELSE bitmap \ (p .. p + l - 1)
  BY <1>2
<1>4. step = "idle" /\ step' = "head" /\ bitmap' = bitmap /\ wanted = bitmap
      /\ bitmap \subseteq Positions
  BY DEF SetStart, SetInv, SetTypeOK
<1>5. PageBodySize \in Nat /\ p \in Nat /\ l \in Nat /\ p .. p + l - 1 \subseteq Positions
  BY PageBitmapAssumption DEF Positions
<1>6. p \div BYTE_LEN \in Nat  BY <1>5, InByte
<1>7. wanted' \subseteq Positions  BY <1>3, <1>4, <1>5
<1>8. fastBitmap' \in BOOLEAN  BY <1>3 DEF SetInv, SetTypeOK
<1>9. ASSUME fastBitmap' PROVE wanted' = Positions
  <2>1. v /\ (fastBitmap \/ l = PageBodySize)  BY <1>3, <1>9
  <2>2. CASE fastBitmap
    <3>1. bitmap = Positions  BY <1>4, <2>2 DEF SetInv
    <3> QED BY <1>3, <1>5, <2>1, <3>1
  <2>3. CASE l = PageBodySize
    <3>1. p = 0 /\ p .. p + l - 1 = Positions  BY <1>5, <2>3 DEF Positions
    <3> QED BY <1>3, <1>4, <2>1, <3>1
  <2> QED BY <2>1, <2>2, <2>3
<1>10. wanted' = SetBits(pos .. pos + len - 1, valid)'  BY <1>3, <1>4 DEF SetBits
<1>11. SetTypeOK'  BY <1>3, <1>4, <1>5, <1>6, <1>7, <1>8 DEF SetTypeOK
<1> QED BY <1>3, <1>4, <1>9, <1>10, <1>11 DEF SetInv

\* A step that changes bits of the range to what is wanted.
LEMMA SetPartInv ==
    ASSUME SetInv, UNCHANGED <<fastBitmap, pos, valid, wanted>>, NEW S,
           bitmap' = SetBits(S, valid) \/ (bitmap' = bitmap /\ S = {}),
           wanted = SetBits(S \cup Rest', valid),
           len' \in Nat, startByte' \in Nat, step' \in {"mid", "tail"}
    PROVE  SetInv'
<1>1. wanted' = SetBits(Rest, valid)'
  BY SetTwice DEF SetBits
<1>2. bitmap' \subseteq Positions
  <2>1. CASE valid
    <3>1. bitmap' \subseteq wanted  BY <2>1 DEF SetBits, SetInv, SetTypeOK
    <3> QED BY <3>1 DEF SetInv, SetTypeOK
  <2>2. CASE ~valid
    <3>1. bitmap' \subseteq bitmap  BY <2>2 DEF SetBits
    <3> QED BY <3>1 DEF SetInv, SetTypeOK
  <2> QED BY <2>1, <2>2
<1>3. SetTypeOK'  BY <1>2 DEF SetInv, SetTypeOK
<1> QED BY <1>1, <1>3 DEF SetInv

LEMMA SetHeadInv == ASSUME SetInv, SetHead PROVE SetInv'
<1> DEFINE B == BYTE_LEN
           room == B - (pos % B)
           h == IF room > len THEN len ELSE room
           s == pos \div B
<1>1. B \in Nat \ {0} /\ pos \in Nat /\ len \in Nat /\ s \in Nat /\ pos % B \in 0 .. B - 1
      /\ pos = s * B + (pos % B)
  BY PageBitmapAssumption, InByte DEF SetInv, SetTypeOK
<1>2. /\ step = "head" /\ step' = "mid" /\ UNCHANGED <<fastBitmap, pos, valid, wanted>>
      /\ startByte = s /\ wanted = SetBits(pos .. pos + len - 1, valid)
  BY DEF SetHead, SetInv
<1>3. CASE pos % B > 0
  <2>1. /\ bitmap' = SetBits(pos .. pos + h - 1, valid) /\ len' = len - h
        /\ startByte' = s + 1
    BY <1>2, <1>3 DEF SetHead
  <2>2. room \in Nat /\ h \in Nat /\ h <= len /\ h <= room /\ (h = len \/ h = room)  BY <1>1
  <2>3. (s + 1) * B = s * B + B  BY <1>1
  <2>4. s * B + B = pos + room  BY <1>1
  <2>5. pos .. pos + len - 1 = (pos .. pos + h - 1) \cup Rest'
    <3> HIDE DEF room, h, s
    <3>1. Rest' = pos + room .. pos + room + (len - h) - 1
      BY <2>1, <2>3, <2>4 DEF Rest
    <3> QED BY <1>1, <2>2, <3>1
  <2>6. len' \in Nat /\ startByte' \in Nat  BY <1>1, <2>1, <2>2
  <2> QED BY <1>2, <2>1, <2>5, <2>6, SetPartInv
<1>4. CASE ~(pos % B > 0)
  <2>1. UNCHANGED <<bitmap, len, startByte>>  BY <1>4 DEF SetHead
  <2>2. pos = s * B  BY <1>1, <1>4
  <2>3. wanted = SetBits({} \cup Rest', valid)  BY <1>1, <1>2, <2>1, <2>2 DEF Rest
  <2> QED BY <1>1, <1>2, <2>1, <2>3, SetPartInv
<1> QED BY <1>3, <1>4

LEMMA SetMidInv == ASSUME SetInv, SetMid PROVE SetInv'
<1> DEFINE B == BYTE_LEN
           m == len \div B
           whole == UNION {Byte(b) : b \in startByte .. startByte + m - 1}
<1>1. B \in Nat \ {0} /\ len \in Nat /\ startByte \in Nat /\ m \in Nat
      /\ len = m * B + (len % B) /\ len % B \in 0 .. B - 1
  BY PageBitmapAssumption, InByte DEF SetInv, SetTypeOK
<1>2. /\ step = "mid" /\ step' = "tail" /\ UNCHANGED <<fastBitmap, pos, valid, wanted>>
      /\ wanted = SetBits(Rest, valid) /\ bitmap' = SetBits(whole, valid)
      /\ len' = len - B * m /\ startByte' = startByte + m
  BY DEF SetMid, SetInv
<1>3. whole = startByte * B .. startByte * B + m * B - 1  BY <1>1, WholeBytes
<1>4. B * m = m * B /\ (startByte + m) * B = startByte * B + m * B
      /\ m * B \in Nat /\ startByte * B \in Nat /\ len - m * B \in Nat
  BY <1>1
<1> HIDE DEF B, m, whole
<1>5. Rest = whole \cup Rest'
  <2>1. Rest' = startByte * B + m * B .. startByte * B + m * B + (len - m * B) - 1
    BY <1>2, <1>4 DEF Rest, B
  <2>2. Rest = startByte * B .. startByte * B + len - 1  BY DEF Rest, B
  <2> QED BY <1>1, <1>3, <1>4, <2>1, <2>2
<1>6. len' \in Nat /\ startByte' \in Nat  BY <1>1, <1>2, <1>4
<1> QED BY <1>2, <1>5, <1>6, SetPartInv

LEMMA SetTailInv == ASSUME SetInv, SetTail PROVE SetInv'
<1>1. /\ step = "tail" /\ step' = "set" /\ UNCHANGED <<fastBitmap, pos, valid, startByte, wanted>>
      /\ wanted = SetBits(Rest, valid) /\ bitmap' = SetBits(Rest, valid) /\ len' = 0
  BY DEF SetTail, SetInv, Rest
<1> QED BY <1>1 DEF SetInv, SetTypeOK

LEMMA NextSetInv == SetInv /\ [BitmapNext]_bitmapVars => SetInv'
<1> SUFFICES ASSUME SetInv, [BitmapNext]_bitmapVars PROVE SetInv'  OBVIOUS
<1>1. CASE SetReturn  BY <1>1 DEF SetReturn, SetInv, SetTypeOK
<1>2. ASSUME UNCHANGED <<bitmap, fastBitmap, pos, len, valid, startByte, wanted>>,
             step' = step \/ (step \notin {"head", "mid", "tail"} /\ step' \notin {"head", "mid", "tail"})
      PROVE  SetInv'
  BY <1>2 DEF SetInv, SetTypeOK, Rest, SetBits
<1>3. CASE ReadStart \/ GetAllCacheStart
  BY <1>2, <1>3 DEF ReadStart, GetAllCacheStart, ScanStart, setVars
<1>4. CASE ScanWord \/ ScanBit \/ ScanTurn \/ ScanEnd \/ ScanReturn
  BY <1>2, <1>4 DEF ScanWord, ScanBit, ScanTurn, ScanEnd, ScanReturn, setVars
<1>5. CASE UNCHANGED bitmapVars  BY <1>2, <1>5 DEF bitmapVars, setVars
<1> QED BY <1>1, <1>3, <1>4, <1>5, SetStartInv, SetHeadInv, SetMidInv, SetTailInv DEF BitmapNext

LEMMA InitSetInv == BitmapInit => SetInv
<1> SUFFICES ASSUME BitmapInit PROVE SetInv  OBVIOUS
<1>1. fastBitmap \in BOOLEAN /\ (fastBitmap => bitmap = Positions)  BY Zenon DEF BitmapInit
<1>2. bitmap \subseteq Positions /\ wanted = bitmap /\ step = "idle"  BY DEF BitmapInit
<1>3. SetTypeOK  BY <1>1, <1>2 DEF BitmapInit, SetTypeOK
<1> QED BY <1>1, <1>2, <1>3 DEF SetInv

\* SetBitMap changes exactly the bits of its range, whatever the width of a byte
\* and of the page and wherever the range starts and ends, and the flag of a page
\* stays true to its bitmap.
THEOREM SetBitMapIsExact == BitmapSpec => []SetBitMapExact
<1>1. SetInv => SetBitMapExact  BY DEF SetInv, SetBitMapExact
<1> QED BY <1>1, InitSetInv, NextSetInv, PTL DEF BitmapSpec

------------------------------------------------------------------------------
(***************************************************************************)
(* The scan                                                                *)
(***************************************************************************)
Segments == Seq(Nat \X Nat)
Begin(db, i) == pagePos + db[i][1]
End(db, i) == Begin(db, i) + db[i][2]

\* Where the current run starts, and the end of the range.
RunStart == cur - continuousLen
RangeEnd == pagePos + length

ScanTypeOK ==
    /\ pagePos \in Nat /\ length \in Nat /\ cur \in Nat /\ continuousLen \in Nat
    /\ continuousDataValid \in BOOLEAN /\ dataBoundary \in Segments

\* The segments db are what is valid of the range before e, each at least one
\* position long, with a gap between one and the next, ...
Covered(db, e) ==
    \A x \in Nat : (\E i \in DOMAIN db : Begin(db, i) <= x /\ x < End(db, i))
                       <=> x \in bitmap /\ pagePos <= x /\ x < e
Gaps(db, e) ==
    /\ \A i \in DOMAIN db : db[i][2] > 0 /\ End(db, i) <= e
    /\ \A i \in DOMAIN db : i + 1 \in DOMAIN db => End(db, i) < Begin(db, i + 1)

\* ... and one between the last and e.
Apart(db, e) == \A i \in DOMAIN db : End(db, i) < e

\* The positions of the current run are all valid or all not.
RunUniform ==
    \A x \in Nat : RunStart <= x /\ x < cur => (x \in bitmap <=> continuousDataValid)

Scanning ==
    /\ pagePos <= RunStart /\ cur <= RangeEnd /\ RunUniform
    /\ continuousDataValid => continuousLen > 0 /\ Apart(dataBoundary, RunStart)
    /\ continuousLen = 0 /\ cur < RangeEnd => dataBoundary = <<>>
    /\ Covered(dataBoundary, RunStart) /\ Gaps(dataBoundary, RunStart)

ScanInv ==
    /\ ScanTypeOK
    /\ step = "scan" => Scanning
    /\ step = "scanned" => Covered(dataBoundary, RangeEnd) /\ Gaps(dataBoundary, RangeEnd)

LEMMA SegmentTypes ==
    ASSUME NEW db \in Segments, NEW i \in DOMAIN db, pagePos \in Nat
    PROVE  /\ db[i][1] \in Nat /\ db[i][2] \in Nat
           /\ Begin(db, i) \in Nat /\ End(db, i) \in Nat
BY DEF Segments, Begin, End

LEMMA EmptySegments == <<>> \in Segments
BY DEF Segments

LEMMA NoSegments ==
    ASSUME pagePos \in Nat
    PROVE  Covered(<<>>, pagePos) /\ \A e : Gaps(<<>>, e) /\ Apart(<<>>, e)
BY DEF Covered, Gaps, Apart

\* The run that ends at cur becomes a segment if it is valid.
LEMMA PushRun ==
    ASSUME ScanTypeOK, Scanning
    PROVE  /\ Push \in Segments /\ Covered(Push, cur) /\ Gaps(Push, cur)
           /\ ~continuousDataValid /\ continuousLen > 0 => Apart(Push, cur)
<1> DEFINE db == dataBoundary
           n == Len(db)
           s == <<RunStart - pagePos, continuousLen>>
<1>1. /\ db \in Segments /\ n \in Nat /\ DOMAIN db = 1 .. n
      /\ pagePos \in Nat /\ cur \in Nat /\ continuousLen \in Nat
      /\ RunStart \in Nat /\ pagePos <= RunStart /\ RunStart + continuousLen = cur
  BY DEF ScanTypeOK, Scanning, Segments, RunStart
<1>2. Covered(db, RunStart) /\ Gaps(db, RunStart) /\ RunUniform  BY DEF Scanning
<1>3. \A i \in DOMAIN db : Begin(db, i) \in Nat /\ End(db, i) \in Nat
  BY <1>1, SegmentTypes
<1>4. CASE ~continuousDataValid
  <2>1. Push = db  BY <1>4 DEF Push
  <2> HIDE DEF db, n
  <2>2. Covered(db, cur)
    <3> SUFFICES ASSUME NEW x \in Nat, x \in bitmap, pagePos <= x, x < cur
                 PROVE  x < RunStart
      BY <1>1, <1>2 DEF Covered
    <3> QED BY <1>1, <1>2, <1>4 DEF RunUniform
  <2>3. Gaps(db, cur)  BY <1>1, <1>2, <1>3 DEF Gaps
  <2>4. continuousLen > 0 => Apart(db, cur)  BY <1>1, <1>2, <1>3 DEF Gaps, Apart
  <2> QED BY <1>1, <2>1, <2>2, <2>3, <2>4
<1>5. CASE continuousDataValid
  <2> DEFINE new == Append(db, s)
  <2>1. Push = new  BY <1>5 DEF Push, RunStart
  <2>2. RunStart - pagePos \in Nat /\ continuousLen > 0 /\ Apart(db, RunStart)
    BY <1>1, <1>5 DEF Scanning
  <2>3. s \in Nat \X Nat /\ s[1] = RunStart - pagePos /\ s[2] = continuousLen
    BY <1>1, <2>2
  <2> HIDE DEF db, s
  <2>4. /\ new \in Segments /\ DOMAIN new = 1 .. n + 1 /\ new[n + 1] = s
        /\ \A i \in 1 .. n : new[i] = db[i]
    BY <1>1, <2>3 DEF Segments, n
  <2> HIDE DEF new, n
  <2>5. Begin(new, n + 1) = RunStart /\ End(new, n + 1) = cur
    BY <1>1, <2>3, <2>4 DEF Begin, End
  <2>6. \A i \in 1 .. n : Begin(new, i) = Begin(db, i) /\ End(new, i) = End(db, i)
    BY <2>4 DEF Begin, End
  <2>7. Covered(new, cur)
    <3> SUFFICES ASSUME NEW x \in Nat
                 PROVE  (\E i \in DOMAIN new : Begin(new, i) <= x /\ x < End(new, i))
                            <=> x \in bitmap /\ pagePos <= x /\ x < cur
      BY DEF Covered
    <3>1. (\E i \in DOMAIN new : Begin(new, i) <= x /\ x < End(new, i))
             <=> \/ \E i \in 1 .. n : Begin(db, i) <= x /\ x < End(db, i)
                 \/ RunStart <= x /\ x < cur
      <4>1. 1 .. n + 1 = 1 .. n \cup {n + 1}  BY <1>1
      <4> QED BY <2>4, <2>5, <2>6, <4>1
    <3>2. (\E i \in 1 .. n : Begin(db, i) <= x /\ x < End(db, i))
             <=> x \in bitmap /\ pagePos <= x /\ x < RunStart
      BY <1>1, <1>2 DEF Covered
    <3>3. RunStart <= x /\ x < cur => x \in bitmap  BY <1>2, <1>5 DEF RunUniform
    <3> QED BY <1>1, <3>1, <3>2, <3>3
  <2>8. Gaps(new, cur)
    <3>1. ASSUME NEW i \in 1 .. n + 1 PROVE new[i][2] > 0 /\ End(new, i) <= cur
      <4>1. CASE i = n + 1  BY <1>1, <2>2, <2>3, <2>4, <2>5, <4>1
      <4>2. CASE i # n + 1
        <5>1. i \in 1 .. n  BY <1>1, <4>2
        <5>2. db[i][2] > 0 /\ End(db, i) <= RunStart /\ End(db, i) \in Nat
          BY <1>1, <1>2, <1>3, <5>1 DEF Gaps
        <5> QED BY <1>1, <2>4, <2>6, <5>1, <5>2
      <4> QED BY <4>1, <4>2
    <3>2. ASSUME NEW i \in 1 .. n + 1, i + 1 \in 1 .. n + 1
          PROVE  End(new, i) < Begin(new, i + 1)
      <4>1. i \in 1 .. n  BY <1>1, <3>2
      <4>2. CASE i = n  BY <1>1, <2>2, <2>5, <2>6, <4>1, <4>2 DEF Apart
      <4>3. CASE i # n
        <5>1. i + 1 \in 1 .. n  BY <1>1, <4>1, <4>3
        <5> QED BY <1>1, <1>2, <2>6, <4>1, <5>1 DEF Gaps
      <4> QED BY <4>2, <4>3
    <3> QED BY <2>4, <3>1, <3>2 DEF Gaps
  <2> QED BY <1>5, <2>1, <2>4, <2>7, <2>8
<1> QED BY <1>4, <1>5

\* The run goes on over n positions that are all valid or all not.
LEMMA Advance ==
    ASSUME ScanInv, step = "scan", NEW n \in Nat \ {0}, NEW v \in BOOLEAN,
           Continues(v), cur + n <= RangeEnd,
           \A x \in Nat : cur <= x /\ x < cur + n => (x \in bitmap <=> v),
           continuousDataValid' = v, continuousLen' = continuousLen + n, cur' = cur + n,
           UNCHANGED <<bitmap, step, pagePos, length, dataBoundary>>
    PROVE  ScanInv'
<1>1. /\ pagePos \in Nat /\ length \in Nat /\ cur \in Nat /\ continuousLen \in Nat
      /\ RunStart \in Nat /\ RangeEnd \in Nat /\ pagePos <= RunStart /\ cur <= RangeEnd
      /\ RunStart' = RunStart /\ RangeEnd' = RangeEnd
  BY DEF ScanInv, ScanTypeOK, Scanning, RunStart, RangeEnd
<1>2. Scanning /\ ScanTypeOK  BY DEF ScanInv
<1>3. ScanTypeOK'  BY <1>2 DEF ScanTypeOK
<1>4. Covered(dataBoundary, RunStart)' /\ Gaps(dataBoundary, RunStart)'
  BY <1>1, <1>2 DEF Scanning, Covered, Gaps, Begin, End
<1>5. RunUniform'
  <2> SUFFICES ASSUME NEW x \in Nat, RunStart <= x, x < cur + n PROVE x \in bitmap <=> v
    BY <1>1 DEF RunUniform
  <2>1. CASE cur <= x  BY <2>1
  <2>2. CASE x < cur
    <3>1. continuousLen # 0  BY <1>1, <2>2 DEF RunStart
    <3>2. continuousDataValid = v  BY <3>1 DEF Continues
    <3>3. x \in bitmap <=> continuousDataValid  BY <1>2, <2>2 DEF Scanning, RunUniform
    <3> QED BY <3>2, <3>3
  <2> QED BY <1>1, <2>1, <2>2
<1>6. v => Apart(dataBoundary, RunStart)'
  <2>1. v => Apart(dataBoundary, RunStart)
    <3>1. CASE continuousLen = 0
      <4>1. dataBoundary = <<>>  BY <1>1, <1>2, <3>1 DEF Scanning
      <4> QED BY <1>1, <4>1, NoSegments
    <3>2. CASE continuousLen # 0  BY <1>2, <3>2 DEF Continues, Scanning
    <3> QED BY <3>1, <3>2
  <2> QED BY <1>1, <2>1 DEF Apart, Begin, End
<1>7. continuousLen' \in Nat /\ continuousLen' > 0 /\ cur' <= RangeEnd'  BY <1>1
<1>8. Scanning'  BY <1>1, <1>4, <1>5, <1>6, <1>7 DEF Scanning
<1> QED BY <1>3, <1>8 DEF ScanInv

LEMMA ScanWordInv == ASSUME ScanInv, ScanWord PROVE ScanInv'
<1> DEFINE v == Word \subseteq bitmap
<1>1. BatLen \in Nat \ {0}  BY PageBitmapAssumption
<1>2. cur \in Nat /\ pagePos \in Nat /\ length \in Nat  BY DEF ScanInv, ScanTypeOK
<1>3. cur + BatLen <= RangeEnd  BY <1>1, <1>2 DEF ScanWord, ByWord, UniformWord, RangeEnd
<1>4. \A x \in Nat : cur <= x /\ x < cur + BatLen => (x \in bitmap <=> v)
  <2> SUFFICES ASSUME NEW x \in Nat, cur <= x, x < cur + BatLen PROVE x \in bitmap <=> v
    OBVIOUS
  <2>1. x \in Word  BY <1>1, <1>2 DEF Word
  <2>2. v \/ Word \cap bitmap = {}  BY DEF ScanWord, ByWord, UniformWord
  <2> QED BY <2>1, <2>2
<1>5. /\ step = "scan" /\ Continues(v) /\ continuousDataValid' = v
      /\ continuousLen' = continuousLen + BatLen /\ cur' = cur + BatLen
      /\ UNCHANGED <<bitmap, step, pagePos, length, dataBoundary>>
  BY DEF ScanWord, ByWord
<1>6. v \in BOOLEAN  OBVIOUS
<1> HIDE DEF v
<1> QED BY <1>1, <1>3, <1>4, <1>5, <1>6, Advance

LEMMA ScanBitInv == ASSUME ScanInv, ScanBit PROVE ScanInv'
<1> DEFINE v == cur \in bitmap
<1>1. cur \in Nat /\ RangeEnd \in Nat /\ cur < RangeEnd
  BY DEF ScanInv, ScanTypeOK, ScanBit, RangeEnd
<1>2. \A x \in Nat : cur <= x /\ x < cur + 1 => (x \in bitmap <=> v)
  <2> SUFFICES ASSUME NEW x \in Nat, cur <= x, x < cur + 1 PROVE x \in bitmap <=> v
    OBVIOUS
  <2>1. x = cur  BY <1>1
  <2> QED BY <2>1
<1>3. /\ step = "scan" /\ Continues(v) /\ continuousDataValid' = v
      /\ continuousLen' = continuousLen + 1 /\ cur' = cur + 1
      /\ UNCHANGED <<bitmap, step, pagePos, length, dataBoundary>>
  BY DEF ScanBit
<1>4. v \in BOOLEAN /\ 1 \in Nat \ {0} /\ cur + 1 <= RangeEnd  BY <1>1
<1> HIDE DEF v
<1> QED BY <1>2, <1>3, <1>4, Advance

LEMMA ScanTurnInv == ASSUME ScanInv, ScanTurn PROVE ScanInv'
<1> DEFINE v == cur \in bitmap
<1>1. /\ step = "scan" /\ cur < RangeEnd /\ ~Continues(v) /\ dataBoundary' = Push
      /\ continuousDataValid' = v /\ continuousLen' = 1 /\ cur' = cur + 1
      /\ UNCHANGED <<bitmap, step, pagePos, length>>
  BY DEF ScanTurn, RangeEnd
<1>2. v \in BOOLEAN  OBVIOUS
<1>3. ScanTypeOK /\ Scanning  BY <1>1 DEF ScanInv
<1>4. /\ pagePos \in Nat /\ length \in Nat /\ cur \in Nat /\ RangeEnd \in Nat
      /\ RunStart' = cur /\ RangeEnd' = RangeEnd /\ pagePos <= cur /\ continuousLen \in Nat
  BY <1>1, <1>3 DEF ScanTypeOK, Scanning, RunStart, RangeEnd
<1>5. /\ Push \in Segments /\ Covered(Push, cur) /\ Gaps(Push, cur)
      /\ ~continuousDataValid /\ continuousLen > 0 => Apart(Push, cur)
  BY <1>3, PushRun
<1>6. RunUniform'
  <2> SUFFICES ASSUME NEW x \in Nat, cur <= x, x < cur + 1 PROVE x \in bitmap <=> v
    BY <1>1, <1>4 DEF RunUniform
  <2>1. x = cur  BY <1>4
  <2> QED BY <2>1
<1>7. continuousLen > 0 /\ (v => ~continuousDataValid)
  <2>1. continuousLen > 0  BY <1>1, <1>4 DEF Continues
  <2>2. continuousDataValid \in BOOLEAN /\ continuousDataValid # v
    BY <1>1, <1>3, Zenon DEF Continues, ScanTypeOK
  <2>3. v => ~continuousDataValid  BY <1>2, <2>2, Zenon
  <2> QED BY <2>1, <2>3
<1> HIDE DEF v
<1>8. ScanTypeOK'  BY <1>1, <1>2, <1>4, <1>5 DEF ScanTypeOK
<1>9. Covered(dataBoundary, RunStart)' /\ Gaps(dataBoundary, RunStart)'
  BY <1>1, <1>4, <1>5 DEF Covered, Gaps, Begin, End
<1>10. v => Apart(dataBoundary, RunStart)'
  BY <1>1, <1>4, <1>5, <1>7 DEF Apart, Begin, End
<1>11. Scanning'  BY <1>1, <1>4, <1>6, <1>9, <1>10 DEF Scanning
<1> QED BY <1>1, <1>8, <1>11 DEF ScanInv

LEMMA ScanEndInv == ASSUME ScanInv, ScanEnd PROVE ScanInv'
<1>1. /\ step = "scan" /\ cur >= RangeEnd /\ dataBoundary' = Push /\ step' = "scanned"
      /\ UNCHANGED <<bitmap, pagePos, length, cur, continuousDataValid, continuousLen>>
  BY DEF ScanEnd, RangeEnd
<1>2. ScanTypeOK /\ Scanning  BY <1>1 DEF ScanInv
<1>3. cur = RangeEnd /\ RangeEnd' = cur
  BY <1>1, <1>2 DEF ScanTypeOK, Scanning, RangeEnd
<1>4. Push \in Segments /\ Covered(Push, cur) /\ Gaps(Push, cur)  BY <1>2, PushRun
<1>5. ScanTypeOK'  BY <1>1, <1>2, <1>4 DEF ScanTypeOK
<1>6. Covered(dataBoundary, RangeEnd)' /\ Gaps(dataBoundary, RangeEnd)'
  BY <1>1, <1>3, <1>4 DEF Covered, Gaps, Begin, End
<1> QED BY <1>1, <1>5, <1>6 DEF ScanInv

LEMMA ScanStartInv ==
    ASSUME SetInv, ScanInv, NEW p \in Positions, NEW l \in 1 .. PageBodySize - p, ScanStart(p, l)
    PROVE  ScanInv'
<1>1. /\ step = "idle" /\ step' = "scan" /\ pagePos' = p /\ length' = l /\ bitmap' = bitmap
      /\ continuousDataValid' = FALSE /\ continuousLen' = 0
      /\ cur' = IF fastBitmap THEN p + l ELSE p
      /\ dataBoundary' = IF fastBitmap THEN <<<<0, l>>>> ELSE <<>>
  BY DEF ScanStart
<1>2. PageBodySize \in Nat /\ p \in Nat /\ l \in Nat \ {0} /\ p + l <= PageBodySize
  BY PageBitmapAssumption DEF Positions
<1>3. cur' \in Nat /\ RunStart' = cur' /\ RangeEnd' = p + l /\ RunUniform'
  BY <1>1, <1>2 DEF RunStart, RangeEnd, RunUniform
<1>4. CASE fastBitmap
  <2> DEFINE db == <<<<0, l>>>>
  <2>1. bitmap = Positions  BY <1>1, <1>4 DEF SetInv
  <2>2. DOMAIN db = {1} /\ db \in Segments /\ db[1][1] = 0 /\ db[1][2] = l
    BY <1>2 DEF Segments
  <2>3. dataBoundary' = db /\ cur' = p + l  BY <1>1, <1>4
  <2> HIDE DEF db
  <2>4. Covered(dataBoundary, RunStart)'
    <3> SUFFICES ASSUME NEW x \in Nat, p <= x, x < p + l PROVE x \in bitmap
      BY <1>1, <1>2, <1>3, <2>2, <2>3 DEF Covered, Begin, End
    <3> QED BY <1>2, <2>1 DEF Positions
  <2>5. Gaps(dataBoundary, RunStart)'
    BY <1>1, <1>2, <1>3, <2>2, <2>3 DEF Gaps, Begin, End
  <2>6. ScanTypeOK'  BY <1>1, <1>2, <1>3, <2>2, <2>3 DEF ScanTypeOK
  <2>7. Scanning'  BY <1>1, <1>2, <1>3, <2>3, <2>4, <2>5 DEF Scanning
  <2> QED BY <1>1, <2>6, <2>7 DEF ScanInv
<1>5. CASE ~fastBitmap
  <2>1. dataBoundary' = <<>> /\ cur' = p  BY <1>1, <1>5
  <2>2. Covered(dataBoundary, RunStart)' /\ Gaps(dataBoundary, RunStart)'
    BY <1>1, <1>2, <1>3, <2>1 DEF Covered, Gaps, Begin, End
  <2>3. ScanTypeOK'  BY <1>1, <1>2, <1>3, <2>1, EmptySegments DEF ScanTypeOK
  <2>4. Scanning'  BY <1>1, <1>2, <1>3, <2>1, <2>2 DEF Scanning
  <2> QED BY <1>1, <2>3, <2>4 DEF ScanInv
<1> QED BY <1>4, <1>5

LEMMA NextScanInv == SetInv /\ ScanInv /\ [BitmapNext]_bitmapVars => ScanInv'
<1> SUFFICES ASSUME SetInv, ScanInv, [BitmapNext]_bitmapVars PROVE ScanInv'  OBVIOUS
<1>1. CASE SetStart \/ SetHead \/ SetMid \/ SetTail \/ SetReturn
  <2>1. step' \notin {"scan", "scanned"}
        /\ UNCHANGED <<pagePos, length, cur, continuousDataValid, continuousLen, dataBoundary>>
    BY <1>1 DEF SetStart, SetHead, SetMid, SetTail, SetReturn, scanVars
  <2> QED BY <2>1 DEF ScanInv, ScanTypeOK
<1>2. CASE ReadStart  BY <1>2, ScanStartInv DEF ReadStart
<1>3. CASE GetAllCacheStart
  <2>1. 0 \in Positions /\ PageBodySize \in 1 .. PageBodySize - 0
    BY PageBitmapAssumption DEF Positions
  <2> QED BY <1>3, <2>1, ScanStartInv DEF GetAllCacheStart
<1>4. CASE ScanReturn
  <2>1. /\ step' = "idle" /\ pagePos' = 0 /\ length' = 0 /\ cur' = 0 /\ continuousLen' = 0
        /\ continuousDataValid' = FALSE /\ dataBoundary' = <<>>
    BY <1>4 DEF ScanReturn
  <2> QED BY <2>1, EmptySegments DEF ScanInv, ScanTypeOK
<1>5. CASE UNCHANGED bitmapVars
  <2>1. UNCHANGED <<bitmap, step, pagePos, length, cur, continuousDataValid, continuousLen,
                    dataBoundary>>
    BY <1>5 DEF bitmapVars, scanVars
  <2> QED BY <2>1 DEF ScanInv, ScanTypeOK, Scanning, RunUniform, RunStart, RangeEnd, Covered,
                      Gaps, Apart, Begin, End
<1> QED BY <1>1, <1>2, <1>3, <1>4, <1>5, ScanWordInv, ScanBitInv, ScanTurnInv, ScanEndInv
        DEF BitmapNext

LEMMA InitScanInv == BitmapInit => ScanInv
<1> SUFFICES ASSUME BitmapInit PROVE ScanInv  OBVIOUS
<1>1. pagePos = 0 /\ length = 0 /\ cur = 0 /\ continuousLen = 0 /\ dataBoundary = <<>>
  BY DEF BitmapInit
<1>2. continuousDataValid \in BOOLEAN  BY Zenon DEF BitmapInit
<1>3. ScanTypeOK  BY <1>1, <1>2, EmptySegments DEF ScanTypeOK
<1> QED BY <1>3 DEF BitmapInit, ScanInv

\* The segments of a scan are the maximal runs of valid positions of its range, for
\* every bitmap, every range and every width of the words it looks at at a time.
THEOREM SegmentsAreExact == BitmapSpec => []SegmentsExact
<1>1. SetInv /\ ScanInv => SegmentsExact
  <2> SUFFICES ASSUME SetInv, ScanTypeOK, Covered(dataBoundary, RangeEnd),
                      Gaps(dataBoundary, RangeEnd)
               PROVE  SegmentsExact
    BY DEF ScanInv, SegmentsExact
  <2> DEFINE db == dataBoundary
             n == Len(db)
             seg(i) == pagePos + db[i][1] .. pagePos + db[i][1] + db[i][2] - 1
             range == pagePos .. pagePos + length - 1
  <2>1. /\ db \in Segments /\ n \in Nat /\ DOMAIN db = 1 .. n
        /\ pagePos \in Nat /\ length \in Nat /\ RangeEnd = pagePos + length
        /\ bitmap \subseteq Nat
    BY DEF ScanTypeOK, Segments, RangeEnd, SetInv, SetTypeOK, Positions
  <2>2. \A i \in 1 .. n : /\ db[i][1] \in Nat /\ db[i][2] \in Nat
                          /\ Begin(db, i) = pagePos + db[i][1]
                          /\ End(db, i) = pagePos + db[i][1] + db[i][2]
    BY <2>1, SegmentTypes DEF Begin, End
  <2> HIDE DEF db, n
  <2>3. UNION {seg(i) : i \in 1 .. n} = bitmap \cap range
    <3>1. ASSUME NEW x PROVE x \in bitmap \cap range <=> \E i \in 1 .. n : x \in seg(i)
      <4>1. CASE x \in Nat
        <5>1. \A i \in 1 .. n : x \in seg(i) <=> Begin(db, i) <= x /\ x < End(db, i)
          BY <2>1, <2>2, <4>1
        <5>2. (\E i \in 1 .. n : Begin(db, i) <= x /\ x < End(db, i))
                 <=> x \in bitmap /\ pagePos <= x /\ x < RangeEnd
          BY <2>1, <4>1 DEF Covered, db
        <5>3. x \in range <=> pagePos <= x /\ x < RangeEnd  BY <2>1, <4>1
        <5> QED BY <5>1, <5>2, <5>3
      <4>2. CASE x \notin Nat
        <5>1. \A i \in 1 .. n : x \notin seg(i)  BY <2>1, <2>2, <4>2
        <5> QED BY <2>1, <4>2, <5>1
      <4> QED BY <4>1, <4>2
    <3> HIDE DEF seg, range
    <3> QED BY <3>1
  <2>4. \A i \in 1 .. n : db[i][2] > 0  BY <2>1 DEF Gaps, db
  <2>5. ASSUME NEW i \in 1 .. n - 1 PROVE db[i][1] + db[i][2] < db[i + 1][1]
    <3>1. i \in 1 .. n /\ i + 1 \in 1 .. n  BY <2>1
    <3>2. End(db, i) < Begin(db, i + 1)  BY <2>1, <3>1 DEF Gaps, db
    <3> QED BY <2>1, <2>2, <3>1, <3>2
  <2> QED BY <2>3, <2>4, <2>5 DEF SegmentsExact, db, n
<1>2. BitmapInit => SetInv /\ ScanInv  BY InitSetInv, InitScanInv
<1>3. SetInv /\ ScanInv /\ [BitmapNext]_bitmapVars => (SetInv /\ ScanInv)'  BY NextSetInv, NextScanInv
<1> QED BY <1>1, <1>2, <1>3, PTL DEF BitmapSpec
==============================================================================
