------------------------------ MODULE WriteBack ------------------------------
(***************************************************************************)
(* The life of one file's dirty data: HybridCacheAccessor4S3fs::Put,       *)
(* Flush, Delete and Truncate under the file lock of FileLock, the write   *)
(* cache's pages and its set keys_ of dirty files, FdEntity's realsize,    *)
(* update_mark and fdent_lock, RowFlush behind fsync and release, opening  *)
(* and closing, and the background flush.                                  *)
(*                                                                         *)
(* A page holds one unit of data and its content is the number of the      *)
(* write that made it (0: not there).  PageCache shows that writing and    *)
(* reading a page is atomic, TieredGet that a Get takes a byte from the    *)
(* write cache if it is there; here each is one step.  The global cache is *)
(* off, the read cache is transparent and CacheLib evicts no write page.   *)
(***************************************************************************)
EXTENDS FileLock, Sequences, FiniteSetsExt

CONSTANTS
    Background,     \* the background flush thread, one of Threads
    NumPages,       \* bound: pages of the file
    Lengths,        \* bound: lengths of a Put, in pages
    UserOps,        \* what users do: a subset of UserOpNames
    ObjectLen,      \* length of the object when the file is first opened
    RealPageSize,   \* GetRealPageSize(), in units of a page's body
    SafeSize,       \* GetCacheMaxSize() * CacheSafeRatio / 100
    BackFlushSize,  \* GetCacheMaxSize() * BackFlushCacheRatio / 100
    MaxFails,       \* bound: failing requests to S3
    NoThread

UserOpNames == {"Put", "Sync", "Open", "Close", "Truncate", "Delete"}
Users == Threads \ Background
Pages == 0 .. NumPages - 1

ASSUME WriteBackAssumption ==
    /\ Background \subseteq Threads /\ NoThread \notin Threads
    /\ NumPages \in 1 .. 9      \* page keys are ordered as strings
    /\ ObjectLen \in 0 .. NumPages
    /\ Lengths \subseteq 1 .. NumPages
    /\ UserOps \subseteq UserOpNames
    /\ {RealPageSize, SafeSize, BackFlushSize, MaxFails} \subseteq Nat

VARIABLES
    wc,         \* the write cache's pages of the file
    keys,       \* the file is in keys_
    s3,         \* the object's content ...
    s3len,      \* ... and length
    realsize,   \* FdEntity::realsize
    mark,       \* FdEntity::update_mark
    fdentLock,  \* who holds FdEntity::fdent_lock
    fds,        \* users with the file open: the FdEntity exists while there are
    job,        \* what a thread is doing
    rres,       \* a releaser's captured result; "done" once it used it
    fails,      \* failed requests so far
    written,    \* number of writes each page has had
    acked,      \* history: the write of each page last acknowledged to a user
    need,       \* history: acked when the user's fsync or release began
    filled,     \* history: pages that growing the file put in the write cache
    remarked,   \* history: the mark was set since the Flush of RowFlush returned
    markLost    \* history: RowFlush cleared such a mark

cacheVars  == <<wc, keys, written>>
objectVars == <<s3, s3len, fails>>
entVars    == <<realsize, mark, fdentLock, fds>>
markHist   == <<remarked, markLost>>
histVars   == <<acked, need, filled, markHist>>
wbVars == <<vars, cacheVars, objectVars, entVars, histVars, job, rres>>

None == [p \in Pages |-> 0]
NoJob == [at |-> "top", from |-> 0, to |-> 0, todo |-> {}, buf |-> None,
          ok |-> TRUE, close |-> FALSE]
MaxOf(f, g) == [p \in Pages |-> IF f[p] >= g[p] THEN f[p] ELSE g[p]]

WBInit ==
    /\ Init
    /\ wc = None /\ keys = FALSE
    /\ s3 = [p \in Pages |-> IF p < ObjectLen THEN 1 ELSE 0] /\ s3len = ObjectLen
    /\ realsize = ObjectLen /\ mark = TRUE  \* FdManager::Open: UpdateRealsize
    /\ fdentLock = NoThread /\ fds = Users
    /\ job = [t \in Threads |-> NoJob]
    /\ rres = [r \in Releasers |-> "done"]
    /\ fails = 0 /\ written = s3 /\ acked = s3
    /\ need = [t \in Threads |-> None] /\ filled = {}
    /\ remarked = FALSE /\ markLost = FALSE

------------------------------------------------------------------------------
(***************************************************************************)
(* The write cache                                                         *)
(***************************************************************************)
Cached == {p \in Pages : wc[p] # 0}
GetCacheSize == Cardinality(Cached) * RealPageSize

\* Mutant of IsWriteCacheFull: the length of the request is not counted and
\* the limit is the whole cache.
NeverFull(len) == GetCacheSize > NumPages * RealPageSize

IsWriteCacheFull(len) == GetCacheSize + len >= SafeSize

\* Key of a page: the file's name with "_W" appended, a separator, the index.
\* split gives back the part before the separator.
FileName == <<"file">>
GetPageKey(key, i) == [name |-> Append(key, "_W"), index |-> i]

\* The pages that Delete and Truncate visit: from the page of index i on, as
\* long as the first token of the page's key is the file's name.
Walk(i) == {p \in Cached : p >= i /\ GetPageKey(FileName, p).name = FileName}
Without(pages) == [p \in Pages |-> IF p \in pages THEN 0 ELSE wc[p]]

\* Mutant of WriteCacheDelete: the file stays in keys_.
WriteCacheDeleteKeepsKey ==
    /\ keys' = keys
    /\ wc' = Without(Walk(0))
    /\ UNCHANGED written

WriteCacheDelete ==
    /\ keys' = FALSE
    /\ wc' = Without(Walk(0))
    /\ UNCHANGED written

------------------------------------------------------------------------------
(***************************************************************************)
(* Taking the file lock, for every operation                               *)
(***************************************************************************)
Goto(t, pc) == job' = [job EXCEPT ![t].at = pc]
Return(t) == job' = [job EXCEPT ![t] = NoJob]
LockHeld == UNCHANGED lockVars

SpinForLock(t) ==
    /\ job[t].at = "lock"
    /\ Find(t) \/ Insert(t)
    /\ UNCHANGED <<cacheVars, objectVars, entVars, histVars, job, rres>>

EnterLock(t) ==
    /\ job[t].at = "lock"
    /\ Acquire(t)
    /\ Goto(t, CASE op[t] = "Put"      -> "write"
                 [] op[t] = "Flush"    -> "size"
                 [] op[t] = "Truncate" -> "cut"
                 [] op[t] = "Delete"   -> "wipe")
    /\ UNCHANGED <<cacheVars, objectVars, entVars, histVars, rres>>

------------------------------------------------------------------------------
(***************************************************************************)
(* Put                                                                     *)
(***************************************************************************)
StartPut(t, from, len) ==
    /\ job[t].at = "top" /\ t \in fds
    /\ from + len <= NumPages
    /\ job' = [job EXCEPT ![t].at = "full", ![t].from = from, ![t].to = from + len,
                          ![t].todo = from .. from + len - 1, ![t].buf = None]
    /\ LockHeld
    /\ UNCHANGED <<cacheVars, objectVars, entVars, histVars, rres>>

\* Blocks while the write cache is full.
PutAdmitted(t) ==
    /\ job[t].at = "full"
    /\ ~IsWriteCacheFull(job[t].to - job[t].from)
    /\ Call(t, "Put")
    /\ Goto(t, "lock")
    /\ UNCHANGED <<cacheVars, objectVars, entVars, histVars, rres>>

\* WriteCache::Put writes the pages in order, ...
PutPage(t) ==
    /\ job[t].at = "write" /\ job[t].todo # {}
    /\ LET p == Min(job[t].todo)
           n == written[p] + 1
       IN  /\ wc' = [wc EXCEPT ![p] = n]
           /\ written' = [written EXCEPT ![p] = n]
           /\ job' = [job EXCEPT ![t].todo = @ \ {p}, ![t].buf[p] = n]
    /\ LockHeld
    /\ UNCHANGED <<keys, objectVars, entVars, histVars, rres>>

\* Mutant of PutKeys: forgets to enter the file.
PutKeysForgotten(t) ==
    /\ job[t].at = "write" /\ job[t].todo = {}
    /\ Goto(t, "resize")
    /\ LockHeld
    /\ UNCHANGED <<cacheVars, objectVars, entVars, histVars, rres>>

\* ... then enters the file in keys_.
PutKeys(t) ==
    /\ job[t].at = "write" /\ job[t].todo = {}
    /\ keys' = TRUE
    /\ Goto(t, "resize")
    /\ LockHeld
    /\ UNCHANGED <<wc, written, objectVars, entVars, histVars, rres>>

\* SetUpdateMark(true), of which a RowFlush whose Flush has returned but that
\* has not yet cleared the mark knows nothing.
SetUpdateMark ==
    /\ mark' = TRUE
    /\ remarked' = (remarked \/ \E u \in Threads : job[u].at = "flushed")
    /\ UNCHANGED markLost

\* UpdateRealsize.  The size is read only under the exclusive lock and the mark
\* is set after it, so one step does both.
PutSize(t) ==
    /\ job[t].at = "resize" /\ op[t] = "Put"
    /\ realsize' = IF realsize >= job[t].to THEN realsize ELSE job[t].to
    /\ SetUpdateMark
    /\ Goto(t, "unlock")
    /\ LockHeld
    /\ UNCHANGED <<acked, need, filled, fdentLock, fds, cacheVars, objectVars, rres>>

PutRelease(t) ==
    /\ job[t].at = "unlock"
    /\ ReleaseShared(t)
    /\ acked' = MaxOf(acked, job[t].buf)
    /\ Return(t)
    /\ UNCHANGED <<need, filled, markHist, cacheVars, objectVars, entVars, rres>>

------------------------------------------------------------------------------
(***************************************************************************)
(* Truncate and Delete                                                     *)
(***************************************************************************)
StartTruncate(t, n) ==
    /\ job[t].at = "top" /\ t \in fds
    /\ Call(t, "Truncate")
    /\ job' = [job EXCEPT ![t].at = "lock", ![t].to = n, ![t].todo = {}, ![t].buf = None]
    /\ UNCHANGED <<cacheVars, objectVars, entVars, histVars, rres>>

\* A smaller size cuts the write cache, a larger one fills it, without regard
\* to whether it is full, the same size does nothing.
TruncateCache(t) ==
    /\ job[t].at = "cut"
    /\ wc' = IF job[t].to < realsize THEN Without(Walk(job[t].to)) ELSE wc
    /\ job' = [job EXCEPT ![t].todo = realsize .. job[t].to - 1,
                          ![t].at = IF job[t].to < realsize THEN "resize"
                                    ELSE IF job[t].to > realsize THEN "write"
                                    ELSE "unlock"]
    /\ filled' = filled \cup (realsize .. job[t].to - 1)
    /\ LockHeld
    /\ UNCHANGED <<keys, written, objectVars, entVars, acked, need, markHist, rres>>

\* TruncateRealsize
TruncateSize(t) ==
    /\ job[t].at = "resize" /\ op[t] = "Truncate"
    /\ realsize' = job[t].to
    /\ SetUpdateMark
    /\ acked' = [p \in Pages |-> IF p < job[t].to THEN acked[p] ELSE 0]
    /\ need' = [u \in Threads |-> [p \in Pages |-> IF p < job[t].to THEN need[u][p] ELSE 0]]
    /\ Goto(t, "unlock")
    /\ LockHeld
    /\ UNCHANGED <<filled, fdentLock, fds, cacheVars, objectVars, rres>>

TruncateRelease(t) ==
    /\ job[t].at = "unlock"
    /\ ReleaseTruncate(t)
    /\ acked' = MaxOf(acked, job[t].buf)
    /\ Return(t)
    /\ UNCHANGED <<need, filled, markHist, cacheVars, objectVars, entVars, rres>>

StartDelete(t) ==
    /\ job[t].at = "top"
    /\ Call(t, "Delete")
    /\ Goto(t, "lock")
    /\ UNCHANGED <<cacheVars, objectVars, entVars, histVars, rres>>

DeleteCache(t) ==
    /\ job[t].at = "wipe"
    /\ WriteCacheDelete
    /\ acked' = None
    /\ need' = [u \in Threads |-> None]
    /\ Goto(t, "object")
    /\ LockHeld
    /\ UNCHANGED <<filled, markHist, objectVars, entVars, rres>>

\* A request to S3 succeeds or, at most MaxFails times, fails.
Request == UNCHANGED fails
FailedRequest == fails < MaxFails /\ fails' = fails + 1

DeleteObject(t) ==
    /\ job[t].at = "object"
    /\ \/ Request /\ s3' = None /\ s3len' = 0
       \/ FailedRequest /\ UNCHANGED <<s3, s3len>>
    /\ Goto(t, "unlock")
    /\ LockHeld
    /\ UNCHANGED <<cacheVars, entVars, histVars, rres>>

DeleteRelease(t) ==
    /\ job[t].at = "unlock"
    /\ \/ ReleaseDelete(t) /\ UNCHANGED job
       \/ EraseDelete(t) /\ Return(t)
    /\ UNCHANGED <<cacheVars, objectVars, entVars, histVars, rres>>

------------------------------------------------------------------------------
(***************************************************************************)
(* Flush                                                                   *)
(***************************************************************************)
\* GetFdEntity finds nothing when the file is closed; else the size is read.
FlushSize(t) ==
    /\ job[t].at = "size"
    /\ job' = [job EXCEPT
                ![t].ok = fds # {},
                ![t].at = IF fds # {} THEN "get" ELSE "handover",
                ![t].to = realsize, ![t].todo = 0 .. realsize - 1, ![t].buf = None]
    /\ LockHeld
    /\ UNCHANGED <<cacheVars, objectVars, entVars, histVars, rres>>

\* The Gets of the chunks run on the executor, in any order: a page comes from
\* the write cache or is downloaded; all of them end before Flush looks.
FlushGet(t) ==
    /\ job[t].at = "get"
    /\ \E p \in job[t].todo :
        \/ /\ Request
           /\ job' = [job EXCEPT ![t].todo = @ \ {p},
                                 ![t].buf[p] = IF p \in Cached THEN wc[p] ELSE s3[p]]
        \/ /\ p \notin Cached /\ FailedRequest
           /\ job' = [job EXCEPT ![t].todo = @ \ {p}, ![t].ok = FALSE]
    /\ LockHeld
    /\ UNCHANGED <<s3, s3len, cacheVars, entVars, histVars, rres>>

FlushUpload(t) ==
    /\ job[t].at = "get" /\ job[t].todo = {}
    /\ \/ /\ job[t].ok /\ Request
          /\ s3' = job[t].buf /\ s3len' = job[t].to
          /\ Goto(t, "handover")
       \/ /\ job[t].ok /\ FailedRequest
          /\ job' = [job EXCEPT ![t].at = "handover", ![t].ok = FALSE]
          /\ UNCHANGED <<s3, s3len>>
       \/ /\ ~job[t].ok
          /\ Goto(t, "handover")
          /\ UNCHANGED objectVars
    /\ LockHeld
    /\ UNCHANGED <<cacheVars, entVars, histVars, rres>>

\* Starts the detached thread with the result and returns, to RowFlush or to
\* FsSync.
FlushReturn(t, r) ==
    /\ job[t].at = "handover"
    /\ HandOver(t, r)
    /\ rres' = [rres EXCEPT ![r] = IF job[t].ok THEN "success" ELSE "error"]
    /\ IF t \in Background THEN Return(t)
       ELSE job' = [job EXCEPT ![t].at = "flushed", ![t].buf = None]
    /\ UNCHANGED <<cacheVars, objectVars, entVars, histVars>>

\* Mutant of DetachedDelete: drops the dirty file whatever came of the upload.
DetachedDeleteAlways(r) ==
    /\ rpc[r] = "find" /\ rres[r] # "done"
    /\ WriteCacheDelete
    /\ rres' = [rres EXCEPT ![r] = "done"]
    /\ LockHeld
    /\ UNCHANGED <<objectVars, entVars, histVars, job>>

DetachedDelete(r) ==
    /\ rpc[r] = "find" /\ rres[r] # "done"
    /\ IF rres[r] = "success" THEN WriteCacheDelete ELSE UNCHANGED cacheVars
    /\ rres' = [rres EXCEPT ![r] = "done"]
    /\ LockHeld
    /\ UNCHANGED <<objectVars, entVars, histVars, job>>

DetachedRelease(r) ==
    /\ rres[r] = "done"
    /\ Releaser(r)
    /\ UNCHANGED <<cacheVars, objectVars, entVars, histVars, job, rres>>

BackFlushDue == keys /\ GetCacheSize >= BackFlushSize

\* BackGroundFlush: FsSync flushes the files in keys_ when the ratio is reached.
BackFlush(t) ==
    /\ job[t].at = "top" /\ t \in Background
    /\ BackFlushDue
    /\ Call(t, "Flush")
    /\ Goto(t, "lock")
    /\ UNCHANGED <<cacheVars, objectVars, entVars, histVars, rres>>

------------------------------------------------------------------------------
(***************************************************************************)
(* Opening and closing, fsync                                              *)
(***************************************************************************)
\* RowFlush under fdent_lock, for fsync and, if IsModified, for release.
RowFlush(t, close) ==
    /\ job[t].at = "top" /\ t \in fds /\ fdentLock = NoThread
    /\ fdentLock' = t
    /\ need' = [need EXCEPT ![t] = acked]
    /\ \/ /\ mark
          /\ Call(t, "Flush")
          /\ job' = [job EXCEPT ![t].at = "lock", ![t].close = close]
       \/ /\ ~mark         \* "Nothing to update"
          /\ LockHeld
          /\ job' = [job EXCEPT ![t].at = "done", ![t].close = close, ![t].ok = TRUE]
    /\ UNCHANGED <<acked, filled, markHist, realsize, mark, fds, cacheVars, objectVars, rres>>

\* Mutant of RowFlushEnd: the mark goes although the upload failed.
RowFlushEndCareless(t) ==
    /\ job[t].at = "flushed"
    /\ mark' = FALSE
    /\ markLost' = (markLost \/ (job[t].ok /\ remarked)) /\ remarked' = FALSE
    /\ Goto(t, "done")
    /\ LockHeld
    /\ UNCHANGED <<acked, need, filled, realsize, fdentLock, fds, cacheVars, objectVars, rres>>

\* Clears the mark if the Flush succeeded, whoever set it.  Write does not take
\* fdent_lock: a Put that got the file lock after the Flush may have set it.
RowFlushEnd(t) ==
    /\ job[t].at = "flushed"
    /\ mark' = (mark /\ ~job[t].ok)
    /\ markLost' = (markLost \/ (job[t].ok /\ remarked)) /\ remarked' = FALSE
    /\ Goto(t, "done")
    /\ LockHeld
    /\ UNCHANGED <<acked, need, filled, realsize, fdentLock, fds, cacheVars, objectVars, rres>>

\* fsync returns; release closes the file even if the flush failed, and the
\* last one destroys the FdEntity.  A user told of a failing last release
\* knows that only what the object has is safe.
RowFlushReturn(t) ==
    /\ job[t].at = "done"
    /\ fdentLock' = NoThread
    /\ fds' = IF job[t].close THEN fds \ {t} ELSE fds
    /\ realsize' = IF fds' = {} THEN 0 ELSE realsize
    /\ mark' = (mark /\ fds' # {})
    /\ acked' = IF fds' = {} /\ ~job[t].ok
                THEN [p \in Pages |-> IF acked[p] > s3[p] THEN s3[p] ELSE acked[p]]
                ELSE acked
    /\ Return(t)
    /\ LockHeld
    /\ UNCHANGED <<need, filled, markHist, cacheVars, objectVars, rres>>

\* FdManager::Open: a new FdEntity gets the object's size.
Open(t) ==
    /\ job[t].at = "top" /\ t \in Users \ fds
    /\ fds' = fds \cup {t}
    /\ realsize' = IF fds = {} THEN s3len ELSE realsize
    /\ mark' = (fds = {} \/ mark)
    /\ LockHeld
    /\ UNCHANGED <<fdentLock, cacheVars, objectVars, histVars, job, rres>>

------------------------------------------------------------------------------
UserStart(t) ==
    \/ "Put" \in UserOps /\ \E from \in Pages, len \in Lengths : StartPut(t, from, len)
    \/ "Sync" \in UserOps /\ RowFlush(t, FALSE)
    \/ "Close" \in UserOps /\ RowFlush(t, TRUE)
    \/ "Open" \in UserOps /\ Open(t)
    \/ "Truncate" \in UserOps /\ \E n \in 0 .. NumPages : StartTruncate(t, n)
    \/ "Delete" \in UserOps /\ StartDelete(t)

Work(t) ==
    \/ SpinForLock(t) \/ EnterLock(t)
    \/ PutAdmitted(t) \/ PutPage(t) \/ PutKeys(t) \/ PutSize(t) \/ PutRelease(t)
    \/ TruncateCache(t) \/ TruncateSize(t) \/ TruncateRelease(t)
    \/ DeleteCache(t) \/ DeleteObject(t) \/ DeleteRelease(t)
    \/ FlushSize(t) \/ FlushGet(t) \/ FlushUpload(t) \/ \E r \in Releasers : FlushReturn(t, r)
    \/ RowFlushEnd(t) \/ RowFlushReturn(t)
    \/ BackFlush(t)

Detached(r) == DetachedDelete(r) \/ DetachedRelease(r)

WBNext ==
    \/ \E t \in Users : calls < MaxCalls /\ calls' = calls + 1 /\ UserStart(t)
    \/ /\ \/ \E t \in Threads : Work(t)
          \/ \E r \in Releasers : Detached(r)
       /\ UNCHANGED calls

WBSpec == WBInit /\ [][WBNext]_wbVars

\* Threads run and requests to S3 end.
WBFairSpec ==
    /\ WBSpec
    /\ \A t \in Threads : WF_wbVars(Work(t) /\ UNCHANGED calls)
    /\ \A r \in Releasers : WF_wbVars(Detached(r) /\ UNCHANGED calls)

------------------------------------------------------------------------------
(***************************************************************************)
(* Properties                                                              *)
(***************************************************************************)
\* Two things are wrong with the protocol: the erase that takes the lock object
\* away from somebody, and RowFlush clearing a mark that was set after its Flush.
\* The properties say what holds until one of them happens.
Undamaged == ~orphaned /\ ~markLost

\* Data a user was told is written and that is not in the object yet belongs to
\* a file the background flush can find in keys_: nothing that interleaves with
\* a Put or with a Flush and its detached Delete makes the file clean too early.
DirtyTracked ==
    Undamaged => \A p \in Pages : (p < realsize /\ acked[p] > s3[p]) => keys

\* When fsync or release returns success, everything acknowledged before it
\* began is in the object (fdcache_entity.cpp RowFlush, update_mark).
FsyncDurable ==
    Undamaged => \A t \in Users : (job[t].at = "done" /\ job[t].ok) =>
        \A p \in Pages : p < realsize => s3[p] >= need[t][p]

\* An upload never puts an older version in the object than one that was both
\* there and acknowledged: a Flush that is overtaken does not undo the other.
NoRegress ==
    [][Undamaged' => \A p \in Pages : s3'[p] < s3[p] => s3'[p] >= acked'[p]]_wbVars

\* The write cache outgrows the safe size only by what the Puts that passed the
\* check together add, the check and the write not being atomic, and by what
\* Truncate to a larger size adds without asking.
WriteCacheBounded ==
    GetCacheSize < SafeSize
        + (Cardinality(Users) * Max(Lengths) + Cardinality(filled)) * RealPageSize

\* A dirty file is flushed in the background once the write cache is filled to
\* the ratio, unless the file lock breaks.  A file that was closed after its
\* last flush failed has no FdEntity and is never drained.
BackgroundDrains == BackFlushDue ~> (~keys \/ fds = {} \/ orphaned)
==============================================================================
