----------------------------- MODULE GlobalCache -----------------------------
(***************************************************************************)
(* The global cache, for one object: GlobalDataAdaptor on every client     *)
(* node (with its metadata cache), the read and write caches of the cache  *)
(* servers, the etcd record that says whether the object lives in the      *)
(* write cache, the S3 object below it, and the garbage collector.  A step *)
(* is one remote call and the continuation that runs on its answer.        *)
(*                                                                         *)
(* Contents are versions: chunk c of version v holds v.  A read chunk and  *)
(* a write chunk are the same size, and one UpLoadPart is one chunk.       *)
(* Objects share nothing but the object ids of a server, so one object is  *)
(* enough.                                                                 *)
(***************************************************************************)
EXTENDS Integers, Sequences, FiniteSets, TLC

CONSTANTS
    Tasks,          \* threads that call an adaptor
    Nodes,          \* client processes, each with an adaptor of its own
    NS,             \* number of cache servers
    R, RR,          \* write_replication_factor, read_replication_factor
    Seed,           \* hash of the key
    MaxVer,         \* bound: versions written
    SizeOf,         \* SizeOf[v]: chunks of version v
    Cap,            \* chunks the disk of a server holds
    Policies,       \* write_cache_type: of "replication" and "nocache"
    UseMetaCache,   \* use_meta_cache
    OpNames,        \* operations the tasks call
    MaxOps,         \* bound: calls
    MaxFaults       \* bound: failures

ASSUME GlobalCacheAssumption ==
    /\ IsFiniteSet(Tasks)
    /\ NS \in Nat \ {0} /\ R \in 1 .. NS /\ RR \in Nat \ {0} /\ Seed \in Nat
    /\ MaxVer \in Nat \ {0} /\ Cap \in Nat /\ MaxOps \in Nat /\ MaxFaults \in Nat
    /\ SizeOf \in [1 .. MaxVer -> Nat \ {0}]
    /\ Policies \subseteq {"replication", "nocache"} /\ UseMetaCache \in BOOLEAN

Servers == 0 .. NS - 1
Chunks == UNION {1 .. SizeOf[v] : v \in 1 .. MaxVer}
None == 0
Broken == -1        \* the write cache lacks chunks that the record names

VARIABLES
    task,      \* locals of the call a task is in
    nodeOf,    \* the node a task runs on
    policy,    \* the write cache type of the configuration
    etcd,      \* the JSON record of the object, or NoRoot
    s3,        \* version of the S3 object, or None
    wc,        \* write cache of a server: internal key -> version
    nextId,    \* next_object_id_ of a server
    rc,        \* read cache of a server: chunk -> version
    up,        \* servers that answer
    meta,      \* MetaCacheEntry of a node; gen counts the entries it erased
    vers, ops, faults,
    hist,      \* history, see below
    seen,      \* history: versions the object had during a task's call
    answer     \* the answer given in this step, or NoAnswer

fixed == <<nodeOf, policy>>
stores == <<etcd, s3, wc, nextId, rc>>
vars == <<task, nodeOf, policy, etcd, s3, wc, nextId, rc, up, meta, vers, ops, faults,
          hist, seen, answer>>

NoRoot == [ver |-> None, size |-> 0, path |-> <<>>]
NoAnswer == [op |-> "none"]
NoMeta(g) == [gen |-> g, present |-> FALSE, existed |-> FALSE, wcached |-> FALSE, size |-> 0,
              root |-> NoRoot]
Idle == [op |-> "none", pc |-> "idle", ver |-> None, chunk |-> 0, todo |-> {},
         inv |-> {}, retried |-> {}, path |-> <<>>, root |-> NoRoot, gen |-> 0,
         dl |-> None, ts |-> [s \in Servers |-> -1], after |-> "none", res |-> "OK",
         why |-> {}, gcHit |-> FALSE]

\* GetReplica of the write cache client, and of the read cache client, which
\* hashes the chunk's key and never takes more servers than there are.
GetReplica == [i \in 1 .. R |-> (Seed + i - 1) % NS]
ReadReplicas(c) == {(Seed + c + i) % NS : i \in 0 .. RR - 1}

\* The internal keys a record names, and the server each of them is on.
KeysOn(root, s) ==
    {root.path[i] : i \in {j \in 1 .. Len(root.path) :
                             GetReplica[((j - 1) % R) + 1] = s}}

Intact(root) ==
    \A s \in Servers : \A ik \in KeysOn(root, s) :
        ik \in DOMAIN wc[s] /\ wc[s][ik] = root.ver

\* What the object is: the record decides where to look.
Current == IF etcd = NoRoot THEN s3
           ELSE IF Intact(etcd) THEN etcd.ver ELSE Broken

\* An entry of the metadata cache that no longer says what etcd and S3 say.
MetaStale(n) ==
    LET m == meta[n]
    IN  /\ m.present
        /\ ~(m.existed /\ m.wcached /\ m.root = etcd)
        /\ ~(/\ ~m.wcached /\ etcd = NoRoot /\ (m.existed <=> s3 # None)
             /\ (s3 # None => m.size = SizeOf[s3]))

------------------------------------------------------------------------------
Goto(t, r) == task' = [task EXCEPT ![t] = r] /\ answer' = NoAnswer

Finish(t, status, v) ==
    /\ task' = [task EXCEPT ![t] = Idle]
    /\ answer' = [op |-> task[t].op, status |-> status, ver |-> v,
                  fresh |-> v \in seen[t], why |-> task[t].why]

Start(t, op) ==
    /\ op \in OpNames /\ task[t].pc = "idle" /\ ops < MaxOps
    /\ ops' = ops + 1

At(t, pc) == task[t].pc = pc
Fault == faults < MaxFaults /\ faults' = faults + 1

\* The accessor calls UpLoadPart, Completed and Delete under its file lock.
FileFree(t) == \A u \in Tasks \ {t} :
    nodeOf[u] = nodeOf[t] => task[u].op \notin {"flush", "upload", "delete"}

Assign(entry, fields) ==
    [f \in DOMAIN entry |-> IF f \in DOMAIN fields THEN fields[f] ELSE entry[f]]

\* GetMetaCacheEntry and assignments through the pointer it returned: they
\* reach the cache only while the entry has not been erased from it.
SetMeta(t, fields) ==
    LET n == nodeOf[t]
    IN  meta' = IF UseMetaCache /\ task[t].gen = meta[n].gen
                THEN [meta EXCEPT ![n] = Assign(@, fields)]
                ELSE meta

InvalidateMetaCacheEntry(t) ==
    meta' = [meta EXCEPT ![nodeOf[t]] = NoMeta(@.gen + 1)]

\* DeleteEntryFromReadCache on one server: a server that does not answer keeps
\* its chunks.
DeleteEntryFromReadCache(s, top) ==
    IF up[s] THEN [c \in {x \in DOMAIN rc[s] : x > top} |-> rc[s][c]] ELSE rc[s]

\* Mutant: the last chunk below the new size keeps its old copy.
InvalidateShort(top) ==
    /\ rc' = [s \in Servers |->
                 IF up[s] THEN [c \in {x \in DOMAIN rc[s] : x >= top} |-> rc[s][c]]
                 ELSE rc[s]]
    /\ hist' = [hist EXCEPT !.rcStale =
                  @ \/ \E s \in Servers : ~up[s] /\ \E c \in DOMAIN rc[s] : c <= top]

\* ReadCacheClient::Invalidate: chunks below the new size, on every server that
\* answers; what the others say is ignored.
Invalidate(top) ==
    /\ rc' = [s \in Servers |-> DeleteEntryFromReadCache(s, top)]
    /\ hist' = [hist EXCEPT !.rcStale =
                  @ \/ \E s \in Servers : ~up[s] /\ \E c \in DOMAIN rc[s] : c <= top]

------------------------------------------------------------------------------
(* The stores below: each request succeeds or fails as a whole, except that *)
(* a change of the etcd record that reports failure may have been made.    *)
Holds(v, c) == IF v = None THEN FALSE ELSE c <= SizeOf[v]

\* The version the chunk was read from, or None.
BaseDownLoad(c, v) ==
    \/ v = (IF Holds(s3, c) THEN s3 ELSE None) /\ UNCHANGED faults
    \/ v = None /\ Fault

BaseUpLoad(v, ok) ==
    \/ ok /\ s3' = v /\ UNCHANGED faults
    \/ ~ok /\ Fault /\ UNCHANGED s3

BaseDelete(ok) ==
    \/ ok /\ s3' = None /\ UNCHANGED faults
    \/ ~ok /\ Fault /\ UNCHANGED s3

BaseHead(ok) == (ok /\ UNCHANGED faults) \/ (~ok /\ Fault)

EtcdGet(ok) == (ok /\ UNCHANGED faults) \/ (~ok /\ Fault)

EtcdDelete(ok) ==
    \/ ok /\ etcd' = NoRoot /\ UNCHANGED faults
    \/ ~ok /\ Fault /\ etcd' \in {etcd, NoRoot}

------------------------------------------------------------------------------
(* Put: every chunk to every replica.  A server takes an id first, then    *)
(* looks at its disk.                                                      *)
IdsFor(C, s) == {<<c, nextId[s] + Cardinality({x \in C : x < c})>> : c \in C}

Full(C, s) == Cardinality(DOMAIN wc[s]) + Cardinality(C) > Cap

PutEntry(C, s) == IF ~up[s] THEN "RPC_FAILED"
                  ELSE IF Full(C, s) THEN "NO_ENOUGH_DISKSPACE" ELSE "OK"

\* The first failure among the replicas is the status of the whole Put.
PutStatus(C) ==
    LET bad == {i \in 1 .. R : PutEntry(C, GetReplica[i]) # "OK"}
        i == CHOOSE x \in bad : \A y \in bad : x <= y
    IN  IF bad = {} THEN "OK" ELSE PutEntry(C, GetReplica[i])

ReplicaServers == {GetReplica[i] : i \in 1 .. R}

PutChunks(C, v) ==
    LET takes(s) == s \in ReplicaServers /\ up[s]
        stores_(s) == takes(s) /\ PutEntry(C, s) = "OK"
    IN  /\ nextId' = [s \in Servers |->
                         IF takes(s) THEN nextId[s] + Cardinality(C) ELSE nextId[s]]
        /\ wc' = [s \in Servers |->
                     IF stores_(s)
                     THEN [ik \in DOMAIN wc[s] \cup IdsFor(C, s) |->
                              IF ik \in IdsFor(C, s) THEN v ELSE wc[s][ik]]
                     ELSE wc[s]]
        \* history: an id handed out again after a restart overwrites a chunk
        /\ hist' = [hist EXCEPT !.exposed = @ \/ \E s \in Servers :
                       stores_(s) /\ IdsFor(C, s) \cap DOMAIN wc[s] # {}]

\* The path array of the record: for each chunk, one internal key per replica.
PathOf(c) ==
    [i \in 1 .. R |-> CHOOSE ik \in IdsFor({c}, GetReplica[i]) : TRUE]

------------------------------------------------------------------------------
(* UpLoadPart and Completed, as the accessor's Flush calls them.           *)
StartFlush(t) ==
    /\ Start(t, "flush") /\ FileFree(t) /\ vers < MaxVer
    /\ vers' = vers + 1
    /\ Goto(t, [Idle EXCEPT !.op = "flush", !.pc = "part", !.ver = vers + 1,
                            !.todo = 1 .. SizeOf[vers + 1],
                            !.path = [c \in 1 .. SizeOf[vers + 1] |-> <<>>]])
    /\ hist' = [hist EXCEPT !.open = @ \cup {vers + 1}]
    /\ UNCHANGED <<fixed, stores, up, meta, faults>>

PartInvalidate(t, c) ==
    /\ At(t, "part") /\ c \in task[t].todo \ task[t].inv
    /\ Invalidate(c)
    /\ Goto(t, [task[t] EXCEPT !.inv = @ \cup {c}])
    /\ UNCHANGED <<fixed, etcd, s3, wc, nextId, up, meta, vers, ops, faults>>

\* DoUpLoadPart after the invalidation; a full disk starts the collector once.
PartPut(t, c) ==
    LET k == task[t]
        st == IF policy = "replication" THEN PutStatus({c}) ELSE "UNSUPPORTED_TYPE"
        failed == [k EXCEPT !.todo = @ \ {c}, !.res = st]
    IN  /\ At(t, "part") /\ c \in k.todo \cap k.inv
        /\ IF policy = "replication" THEN PutChunks({c}, k.ver)
           ELSE UNCHANGED <<wc, nextId, hist>>
        /\ \/ /\ st = "OK"
              /\ Goto(t, [k EXCEPT !.todo = @ \ {c}, !.path[c] = PathOf(c)])
              /\ UNCHANGED faults
           \/ /\ st = "OK" /\ Fault           \* the reply is lost
              /\ Goto(t, [k EXCEPT !.todo = @ \ {c}, !.res = "RPC_FAILED"])
           \/ /\ st = "NO_ENOUGH_DISKSPACE" /\ c \notin k.retried
              /\ Goto(t, [k EXCEPT !.pc = "gcts", !.after = "part", !.chunk = c])
              /\ UNCHANGED faults
           \/ /\ st # "OK"
              /\ st = "NO_ENOUGH_DISKSPACE" => c \in k.retried
              /\ Goto(t, failed) /\ UNCHANGED faults
        /\ UNCHANGED <<fixed, etcd, s3, rc, up, meta, vers, ops>>

\* Mutant: a flush with a failed part writes no record and answers OK.
CompleteFlushSwallows(t) ==
    LET k == task[t]
    IN  /\ At(t, "part") /\ k.todo = {}
        /\ IF k.res = "OK"
           THEN /\ meta' = [meta EXCEPT ![nodeOf[t]].present = FALSE]
                /\ Goto(t, [k EXCEPT !.pc = "json"]) /\ UNCHANGED hist
           ELSE /\ hist' = [hist EXCEPT !.open = @ \ {k.ver}, !.acked = @ \cup {k.ver}]
                /\ Finish(t, "OK", None) /\ UNCHANGED meta
        /\ UNCHANGED <<fixed, stores, up, vers, ops, faults>>

\* All parts are in: Completed forgets the metadata entry before it writes the
\* record, a failed part ends the flush.
CompleteFlush(t) ==
    LET k == task[t]
    IN  /\ At(t, "part") /\ k.todo = {}
        /\ IF k.res = "OK"
           THEN /\ meta' = [meta EXCEPT ![nodeOf[t]].present = FALSE]
                /\ Goto(t, [k EXCEPT !.pc = "json"]) /\ UNCHANGED hist
           ELSE /\ hist' = [hist EXCEPT !.open = @ \ {k.ver}]
                /\ Finish(t, k.res, None) /\ UNCHANGED meta
        /\ UNCHANGED <<fixed, stores, up, vers, ops, faults>>

\* The record of the upload: json_path concatenates the parts in order.
RootOf(k) ==
    [ver |-> k.ver, size |-> SizeOf[k.ver],
     path |-> [i \in 1 .. SizeOf[k.ver] * R |->
                  k.path[((i - 1) \div R) + 1][((i - 1) % R) + 1]]]

DeepFlushing(u) == task[u].pc \in {"dfdown", "dfup", "dfdel"}
\* A collector that may delete a chunk of root: one put before it asked for ts.
Collecting(u, root) ==
    /\ task[u].pc \in {"gclist", "dfjson", "dfdown", "dfup", "dfdel", "gclist2", "gcdel"}
    /\ \E s \in Servers : \E ik \in KeysOn(root, s) : ik[2] < task[u].ts[s]

\* History of a record written for k: it is in danger when a deep flush or a
\* collection was under way that does not know of it.
Committed(k) ==
    [hist EXCEPT !.intent = k.ver, !.open = @ \ {k.ver}, !.effective = @ \cup {k.ver},
                 !.exposed = @ \/ k.gcHit \/ \E u \in Tasks :
                                   DeepFlushing(u) \/ Collecting(u, RootOf(k))]

\* EtcdClient::PutJson, by Completed and by UpLoad; a failed call may have
\* reached etcd.
PutJson(t) ==
    LET k == task[t]
        ack(h, st) == [h EXCEPT !.open = @ \ {k.ver}, !.effective = @ \ {k.ver},
                           !.acked = IF st = "OK" THEN @ \cup {k.ver} ELSE @]
    IN  /\ At(t, "json")
        /\ \/ /\ etcd' = RootOf(k) /\ UNCHANGED faults
              /\ IF k.op = "flush"
                 THEN hist' = ack(Committed(k), "OK") /\ Finish(t, "OK", None)
                 ELSE hist' = Committed(k) /\ Goto(t, [k EXCEPT !.pc = "upmeta"])
           \/ /\ Fault /\ etcd' \in {etcd, RootOf(k)}
              /\ hist' = ack(IF etcd' = etcd THEN hist ELSE Committed(k), "METADATA_ERROR")
              /\ Finish(t, "METADATA_ERROR", None)
        /\ UNCHANGED <<fixed, s3, wc, nextId, rc, up, meta, vers, ops>>

------------------------------------------------------------------------------
(* UpLoad: the whole object in one call.                                   *)
StartUpload(t) ==
    /\ Start(t, "upload") /\ FileFree(t) /\ vers < MaxVer
    /\ vers' = vers + 1
    /\ Goto(t, [Idle EXCEPT !.op = "upload", !.pc = "upinv", !.ver = vers + 1,
                            !.gen = meta[nodeOf[t]].gen])
    /\ meta' = [meta EXCEPT ![nodeOf[t]].present = FALSE, ![nodeOf[t]].existed = TRUE,
                            ![nodeOf[t]].size = SizeOf[vers + 1]]
    /\ hist' = [hist EXCEPT !.open = @ \cup {vers + 1}]
    /\ UNCHANGED <<fixed, stores, up, faults>>

UpInvalidate(t) ==
    /\ At(t, "upinv")
    /\ Invalidate(SizeOf[task[t].ver])
    /\ Goto(t, [task[t] EXCEPT !.pc = "upput"])
    /\ UNCHANGED <<fixed, etcd, s3, wc, nextId, up, meta, vers, ops, faults>>

UpPut(t) ==
    LET k == task[t]
        C == 1 .. SizeOf[k.ver]
        st == PutStatus(C)
        path == [c \in C |-> [i \in 1 .. R |->
                    CHOOSE ik \in IdsFor(C, GetReplica[i]) : ik[1] = c]]
    IN  /\ At(t, "upput") /\ policy = "replication"
        /\ PutChunks(C, k.ver)
        /\ \/ st = "OK" /\ Goto(t, [k EXCEPT !.pc = "json", !.path = path])
           \/ /\ st = "NO_ENOUGH_DISKSPACE" /\ k.retried = {}
              /\ Goto(t, [k EXCEPT !.pc = "gcts", !.after = "upload"])
           \/ /\ st = "RPC_FAILED" \/ (st = "NO_ENOUGH_DISKSPACE" /\ k.retried # {})
              /\ Goto(t, [k EXCEPT !.pc = "fail", !.res = st])
        /\ UNCHANGED <<fixed, etcd, s3, rc, up, meta, vers, ops, faults>>

\* Without a write cache the object goes to the base adaptor.
UpBase(t) ==
    LET k == task[t]
    IN  /\ At(t, "upput") /\ policy = "nocache"
        /\ \/ /\ BaseUpLoad(k.ver, TRUE)
              /\ hist' = [hist EXCEPT !.intent = k.ver, !.open = @ \ {k.ver},
                                      !.effective = @ \cup {k.ver}]
              /\ Goto(t, [k EXCEPT !.pc = "upmeta"])
           \/ /\ BaseUpLoad(k.ver, FALSE) /\ UNCHANGED hist
              /\ Goto(t, [k EXCEPT !.pc = "fail", !.res = "S3_INTERNAL_ERROR"])
        /\ UNCHANGED <<fixed, etcd, wc, nextId, rc, up, meta, vers, ops>>

UpMeta(t) ==
    LET k == task[t]
    IN  /\ At(t, "upmeta")
        /\ SetMeta(t, [present |-> TRUE, wcached |-> policy = "replication",
                       root |-> IF policy = "replication" THEN RootOf(k)
                                ELSE meta[nodeOf[t]].root])
        /\ hist' = [hist EXCEPT !.effective = @ \ {k.ver}, !.acked = @ \cup {k.ver}]
        /\ Finish(t, "OK", None)
        /\ UNCHANGED <<fixed, stores, up, vers, ops, faults>>

UpFail(t) ==
    /\ At(t, "fail")
    /\ hist' = [hist EXCEPT !.open = @ \ {task[t].ver}]
    /\ Finish(t, task[t].res, None)
    /\ UNCHANGED <<fixed, stores, up, meta, vers, ops, faults>>

------------------------------------------------------------------------------
(* DownLoad of one chunk.                                                  *)
WhereToRead(t) ==
    LET m == meta[nodeOf[t]]
    IN  IF policy = "nocache" THEN "rcget"
        ELSE IF ~m.present THEN "rjson"
        ELSE IF m.wcached THEN "wcget" ELSE "rcget"

StartRead(t, c) ==
    LET m == meta[nodeOf[t]]
        k == [Idle EXCEPT !.op = "read", !.chunk = c, !.gen = m.gen, !.root = m.root,
                          !.why = IF MetaStale(nodeOf[t]) THEN {"meta"} ELSE {}]
    IN  /\ Start(t, "read") /\ Current \notin {None, Broken} /\ c <= SizeOf[Current]
        /\ Goto(t, [k EXCEPT !.pc = IF m.present /\ ~m.existed THEN "notfound"
                                    ELSE IF m.present /\ c > m.size THEN "eof"
                                    ELSE WhereToRead(t)])
        /\ UNCHANGED <<fixed, stores, up, meta, vers, faults, hist>>

\* A status other than OK ends the call, RPC_FAILED goes to the base adaptor.
End(t, status) ==
    IF status = "RPC_FAILED"
    THEN Goto(t, [task[t] EXCEPT !.pc = "s3get",
                     !.why = IF etcd # NoRoot THEN @ \cup {"fallback"} ELSE @])
    ELSE Finish(t, status, None)

ReadNothing(t) ==
    /\ task[t].pc \in {"notfound", "eof"}
    /\ Finish(t, task[t].pc, None)
    /\ UNCHANGED <<fixed, stores, up, meta, vers, ops, faults, hist>>

ReadJson(t) ==
    /\ At(t, "rjson")
    /\ \/ EtcdGet(FALSE) /\ Finish(t, "METADATA_ERROR", None)
       \/ /\ EtcdGet(TRUE)
          /\ Goto(t, [task[t] EXCEPT !.root = etcd,
                         !.pc = IF etcd # NoRoot THEN "rmeta"
                                ELSE IF UseMetaCache THEN "rhead" ELSE "rcget"])
    /\ UNCHANGED <<fixed, stores, up, meta, vers, ops, hist>>

ReadMeta(t) ==
    /\ At(t, "rmeta")
    /\ SetMeta(t, [present |-> TRUE, existed |-> TRUE, wcached |-> TRUE,
                   size |-> task[t].root.size, root |-> task[t].root])
    /\ Goto(t, [task[t] EXCEPT !.pc = "wcget"])
    /\ UNCHANGED <<fixed, stores, up, vers, ops, faults, hist>>

\* base_adaptor_->Head, then the assignments to the entry.
ReadHead(t) ==
    /\ At(t, "rhead")
    /\ \/ BaseHead(FALSE) /\ Finish(t, "S3_INTERNAL_ERROR", None)
       \/ BaseHead(TRUE) /\ Goto(t, [task[t] EXCEPT !.pc = "rhset", !.ver = s3])
    /\ UNCHANGED <<fixed, stores, up, meta, vers, ops, hist>>

ReadHeadSet(t) ==
    LET v == task[t].ver
    IN  /\ At(t, "rhset")
        /\ SetMeta(t, [present |-> TRUE, existed |-> v # None, wcached |-> FALSE,
                       size |-> IF v = None THEN 0 ELSE SizeOf[v]])
        /\ IF v = None THEN Finish(t, "notfound", None)
           ELSE Goto(t, [task[t] EXCEPT !.pc = "rcget"])
        /\ UNCHANGED <<fixed, stores, up, vers, ops, faults, hist>>

\* ReplicationWriteCacheClient::Get for one chunk: a primary at random; when it
\* does not answer, the other replicas in turn, whose internal key is looked up
\* by server id instead of by the place of the server among the replicas.
Lookup(s, ik) == IF ik \in DOMAIN wc[s] THEN <<"OK", wc[s][ik]>> ELSE <<"NOT_FOUND", None>>

GetEntry(s, ik) == IF up[s] THEN Lookup(s, ik) ELSE <<"RPC_FAILED", None>>

\* The replicas that answer when replica i does not; the first of them is asked.
Others(i) == {j \in 1 .. R : j # i /\ up[GetReplica[j]]}
SecondaryOf(i) == CHOOSE x \in Others(i) : \A y \in Others(i) : x <= y

Secondary(root, c, i) ==
    LET j == SecondaryOf(i)
        index == (c - 1) * R + GetReplica[j] + 1
    IN  IF Others(i) = {} THEN <<"RPC_FAILED", None>>
        ELSE IF index > Len(root.path) THEN <<"wild", None>>
        ELSE GetEntry(GetReplica[j], root.path[index])

\* The secondary is asked for a key that another server gave.
WrongKey(i) == /\ ~up[GetReplica[i]] /\ Others(i) # {}
               /\ GetReplica[SecondaryOf(i)] # SecondaryOf(i) - 1

WriteCacheGetAt(root, c, i) ==
    LET primary == GetEntry(GetReplica[i], root.path[(c - 1) * R + i])
    IN  IF c > root.size THEN <<"wild", None>>
        ELSE IF primary[1] = "RPC_FAILED" THEN Secondary(root, c, i) ELSE primary

WriteCacheGet(root, c) == {WriteCacheGetAt(root, c, i) : i \in 1 .. R}

\* An index past the end of internal_keys is undefined behaviour: any answer.
ReadWriteCache(t) ==
    LET k == task[t]
        got(i) == WriteCacheGetAt(k.root, k.chunk, i)
        why(i) == k.why \cup (IF WrongKey(i) THEN {"index"} ELSE {})
    IN  /\ At(t, "wcget")
        /\ \E i \in 1 .. R :
              \/ /\ got(i)[1] = "OK"
                 /\ task' = [task EXCEPT ![t] = Idle]
                 /\ answer' = [op |-> "read", status |-> "OK", ver |-> got(i)[2],
                               fresh |-> got(i)[2] \in seen[t], why |-> why(i)]
              \/ got(i)[1] = "wild" /\ Goto(t, [k EXCEPT !.pc = "wild", !.why = @ \cup {"wild"}])
              \/ got(i)[1] \notin {"OK", "wild"} /\ End(t, got(i)[1])
        /\ UNCHANGED <<fixed, stores, up, meta, vers, ops, faults, hist>>

ReadWild(t) ==
    /\ At(t, "wild")
    /\ \E v \in 1 .. vers : Finish(t, "OK", v)
    /\ UNCHANGED <<fixed, stores, up, meta, vers, ops, faults, hist>>

\* ReadCacheClient::Get: any replica that answers; a miss fetches the chunk.
ReadReadCache(t) ==
    LET c == task[t].chunk
        live == {s \in ReadReplicas(c) : up[s]}
    IN  /\ At(t, "rcget")
        /\ \/ /\ live = {} /\ End(t, "RPC_FAILED")
           \/ \E s \in live :
                 IF c \in DOMAIN rc[s]
                 THEN /\ task' = [task EXCEPT ![t] = Idle]
                      /\ answer' = [op |-> "read", status |-> "OK", ver |-> rc[s][c],
                            fresh |-> rc[s][c] \in seen[t],
                            why |-> task[t].why \cup (IF hist.rcStale THEN {"chunk"} ELSE {})]
                 ELSE Goto(t, [task[t] EXCEPT !.pc = "fillhead"])
        /\ UNCHANGED <<fixed, stores, up, meta, vers, ops, faults, hist>>

\* GetChunkFromGlobalCache asks Head for the size ...
FillHead(t) ==
    LET m == meta[nodeOf[t]]
        size == IF m.present THEN IF m.existed THEN m.size ELSE 0
                ELSE IF etcd # NoRoot THEN etcd.size
                ELSE IF s3 = None THEN 0 ELSE SizeOf[s3]
    IN  /\ At(t, "fillhead")
        /\ IF size = 0 THEN Finish(t, "notfound", None)
           ELSE IF task[t].chunk > size THEN Finish(t, "eof", None)
           ELSE Goto(t, [task[t] EXCEPT !.pc = "fillget"])
        /\ IF m.present \/ ~UseMetaCache THEN UNCHANGED meta
           ELSE meta' = [meta EXCEPT ![nodeOf[t]] =
                   [gen |-> m.gen, present |-> TRUE, existed |-> size > 0,
                    wcached |-> etcd # NoRoot, size |-> size, root |-> etcd]]
        /\ UNCHANGED <<fixed, stores, up, vers, ops, faults, hist>>

\* ... downloads the chunk from the base adaptor ...
FillGet(t) ==
    /\ At(t, "fillget")
    /\ \E v \in 0 .. MaxVer :
          /\ BaseDownLoad(task[t].chunk, v)
          /\ IF v = None THEN Finish(t, "S3_INTERNAL_ERROR", None)
             ELSE Goto(t, [task[t] EXCEPT !.pc = "fillput", !.ver = v])
    /\ UNCHANGED <<fixed, stores, up, meta, vers, ops, hist>>

\* ... and puts it on every replica, whatever happened to the object meanwhile.
FillPut(t) ==
    LET c == task[t].chunk
        v == task[t].ver
        to == ReadReplicas(c)
    IN  /\ At(t, "fillput")
        /\ rc' = [s \in Servers |->
                     IF s \in to /\ up[s]
                     THEN [x \in DOMAIN rc[s] \cup {c} |-> IF x = c THEN v ELSE rc[s][x]]
                     ELSE rc[s]]
        /\ hist' = [hist EXCEPT !.rcStale =
                      @ \/ v # Current \/ hist.open # {}]
        /\ IF \A s \in to : up[s] THEN Finish(t, "OK", v) ELSE End(t, "RPC_FAILED")
        /\ UNCHANGED <<fixed, etcd, s3, wc, nextId, up, meta, vers, ops, faults>>

\* The fallback of DownLoad.
ReadBase(t) ==
    /\ At(t, "s3get")
    /\ \E v \in 0 .. MaxVer :
          /\ BaseDownLoad(task[t].chunk, v)
          /\ Finish(t, IF v = None THEN "S3_INTERNAL_ERROR" ELSE "OK", v)
    /\ UNCHANGED <<fixed, stores, up, meta, vers, ops, hist>>

------------------------------------------------------------------------------
(* Head.                                                                   *)
StartHead(t) ==
    LET m == meta[nodeOf[t]]
    IN  /\ Start(t, "head")
        /\ Goto(t, [Idle EXCEPT !.op = "head", !.gen = m.gen,
                       !.pc = IF m.present THEN "hmeta"
                              ELSE IF policy = "replication" THEN "hjson" ELSE "hbase",
                       !.why = IF MetaStale(nodeOf[t]) THEN {"meta"} ELSE {},
                       !.ver = IF ~m.present \/ ~m.existed THEN None
                               ELSE IF m.wcached THEN m.root.ver ELSE s3])
        /\ UNCHANGED <<fixed, stores, up, meta, vers, faults, hist>>

HeadAnswer(t, v) == Finish(t, IF v = None THEN "notfound" ELSE "OK", v)

HeadMeta(t) ==
    /\ At(t, "hmeta")
    /\ HeadAnswer(t, task[t].ver)
    /\ UNCHANGED <<fixed, stores, up, meta, vers, ops, faults, hist>>

HeadJson(t) ==
    /\ At(t, "hjson")
    /\ \/ EtcdGet(FALSE) /\ Finish(t, "METADATA_ERROR", None)
       \/ /\ EtcdGet(TRUE)
          /\ Goto(t, [task[t] EXCEPT !.root = etcd, !.ver = etcd.ver,
                         !.pc = IF etcd = NoRoot THEN "hbase" ELSE "hset"])
    /\ UNCHANGED <<fixed, stores, up, meta, vers, ops, hist>>

HeadBase(t) ==
    /\ At(t, "hbase")
    /\ \/ BaseHead(FALSE) /\ Finish(t, "S3_INTERNAL_ERROR", None)
       \/ BaseHead(TRUE) /\ Goto(t, [task[t] EXCEPT !.pc = "hset", !.ver = s3])
    /\ UNCHANGED <<fixed, stores, up, meta, vers, ops, hist>>

HeadSet(t) ==
    LET k == task[t]
    IN  /\ At(t, "hset")
        /\ SetMeta(t, [present |-> TRUE, existed |-> k.ver # None,
                       wcached |-> k.root # NoRoot,
                       size |-> IF k.ver = None THEN 0 ELSE SizeOf[k.ver],
                       root |-> IF k.root = NoRoot THEN meta[nodeOf[t]].root ELSE k.root])
        /\ HeadAnswer(t, k.ver)
        /\ UNCHANGED <<fixed, stores, up, vers, ops, faults, hist>>

------------------------------------------------------------------------------
(* Delete.  Only a call that found no metadata entry looks at etcd, and    *)
(* only such a call removes the record.                                    *)
StartDelete(t) ==
    LET m == meta[nodeOf[t]]
        k == [Idle EXCEPT !.op = "delete", !.pc = "dels3", !.chunk = m.size]
        size == IF etcd # NoRoot THEN etcd.size ELSE IF s3 = None THEN 0 ELSE SizeOf[s3]
        found == policy = "nocache" \/ m.present \/ size > 0
    IN  /\ Start(t, "delete") /\ FileFree(t) /\ found
        /\ hist' = [hist EXCEPT !.removing = @ + 1]
        /\ Goto(t, IF policy = "nocache" \/ m.present
                   THEN [k EXCEPT !.why = IF m.present THEN {"meta"} ELSE {}]
                   ELSE [k EXCEPT !.chunk = size, !.root = etcd])
        /\ InvalidateMetaCacheEntry(t)
        /\ UNCHANGED <<fixed, stores, up, vers, faults>>

\* base_adaptor_->Delete.  With a write cache the continuation drops its status;
\* without one it is the answer, and the read cache is not invalidated.
DeleteBase(t) ==
    LET k == task[t]
        goon(st) == IF policy = "nocache" THEN Finish(t, st, None)
                    ELSE Goto(t, [k EXCEPT !.pc = "delinv",
                                           !.why = IF st = "OK" THEN @ ELSE @ \cup {"base"}])
    IN  /\ At(t, "dels3")
        /\ \/ BaseDelete(TRUE) /\ goon("OK")
           \/ BaseDelete(FALSE) /\ goon("S3_INTERNAL_ERROR")
        /\ hist' = [hist EXCEPT
               !.exposed = @ \/ \E u \in Tasks : DeepFlushing(u),
               !.intent = IF etcd = NoRoot /\ s3' = None THEN None ELSE @,
               !.removing = IF policy = "nocache" THEN @ - 1 ELSE @]
        /\ UNCHANGED <<fixed, etcd, wc, nextId, rc, up, meta, vers, ops>>

DeleteInvalidate(t) ==
    LET k == task[t]
    IN  /\ At(t, "delinv")
        /\ rc' = [s \in Servers |-> DeleteEntryFromReadCache(s, k.chunk)]
        /\ hist' = [hist EXCEPT !.removing = IF k.root = NoRoot THEN @ - 1 ELSE @]
        /\ IF k.root # NoRoot THEN Goto(t, [k EXCEPT !.pc = "deljson"])
           ELSE Finish(t, IF \A s \in Servers : up[s] THEN "OK" ELSE "RPC_FAILED", None)
        /\ UNCHANGED <<fixed, etcd, s3, wc, nextId, up, meta, vers, ops, faults>>

DeleteJson(t) ==
    /\ At(t, "deljson")
    /\ \/ EtcdDelete(TRUE) /\ Finish(t, "OK", None)
       \/ EtcdDelete(FALSE) /\ Finish(t, "METADATA_ERROR", None)
    /\ hist' = [hist EXCEPT !.removing = @ - 1,
                   !.intent = IF etcd' = NoRoot THEN None ELSE @,
                   !.exposed = @ \/ ("base" \in task[t].why /\ s3 # None)
                                 \/ \E u \in Tasks : DeepFlushing(u)]
    /\ UNCHANGED <<fixed, s3, wc, nextId, rc, up, meta, vers, ops>>

------------------------------------------------------------------------------
(* DeepFlush, called by fsync and by the collector.                        *)
StartDeepFlush(t) ==
    /\ Start(t, "deep") /\ policy = "replication"
    /\ Goto(t, [Idle EXCEPT !.op = "deep", !.pc = "dfjson"])
    /\ UNCHANGED <<fixed, stores, up, meta, vers, faults, hist>>

\* A deep flush of the collector is logged and the collection goes on.
DeepDone(t, status) ==
    IF task[t].after = "none" THEN Finish(t, status, None)
    ELSE Goto(t, [task[t] EXCEPT !.pc = "gclist2"])

DeepJson(t) ==
    /\ At(t, "dfjson")
    /\ \/ EtcdGet(FALSE) /\ DeepDone(t, "METADATA_ERROR")
       \/ /\ EtcdGet(TRUE)
          /\ IF etcd = NoRoot THEN DeepDone(t, "notfound")
             ELSE Goto(t, [task[t] EXCEPT !.pc = "dfdown", !.root = etcd,
                                          !.gen = meta[nodeOf[t]].gen])
    /\ UNCHANGED <<fixed, stores, up, meta, vers, ops, hist>>

\* DownLoad of the whole object: the record is the one the metadata cache has,
\* or else the one etcd has now; the fallback to S3 is the one of every DownLoad.
DeepDownLoad(t) ==
    LET k == task[t]
        m == meta[nodeOf[t]]
        root == IF m.present THEN m.root ELSE etcd
        inWc == IF m.present THEN m.wcached ELSE etcd # NoRoot
        base == IF s3 # None /\ SizeOf[s3] >= k.root.size THEN s3 ELSE None
        got(v, bad) == IF v = None THEN DeepDone(t, "failed") /\ UNCHANGED hist
                       ELSE /\ Goto(t, [k EXCEPT !.pc = "dfup", !.dl = v])
                            /\ hist' = [hist EXCEPT !.exposed = @ \/ bad]
    IN  /\ At(t, "dfdown")
        /\ IF m.present /\ (~m.existed \/ k.root.size > m.size)
           THEN DeepDone(t, "failed") /\ UNCHANGED hist
           ELSE IF inWc
           THEN \E f \in [1 .. k.root.size -> UNION {WriteCacheGet(root, c) : c \in 1 .. k.root.size}] :
                   /\ \A c \in DOMAIN f : f[c] \in WriteCacheGet(root, c)
                   /\ IF \A c \in DOMAIN f : f[c][1] = "OK"
                      THEN got(f[1][2], \/ MetaStale(nodeOf[t])
                                          \/ \E c \in DOMAIN f : f[c][2] # root.ver)
                      ELSE IF \E c \in DOMAIN f : f[c][1] = "RPC_FAILED"
                      THEN got(base, TRUE)
                      ELSE DeepDone(t, "failed") /\ UNCHANGED hist
           ELSE got(base, MetaStale(nodeOf[t]) \/ etcd = NoRoot)
        /\ IF m.present \/ ~inWc \/ ~UseMetaCache THEN UNCHANGED meta
           ELSE meta' = [meta EXCEPT ![nodeOf[t]] =
                   [gen |-> m.gen, present |-> TRUE, existed |-> TRUE,
                    wcached |-> TRUE, size |-> etcd.size, root |-> etcd]]
        /\ UNCHANGED <<fixed, stores, up, vers, ops, faults>>

DeepUpLoad(t) ==
    /\ At(t, "dfup")
    /\ \/ /\ BaseUpLoad(task[t].dl, TRUE)
          /\ Goto(t, [task[t] EXCEPT !.pc = "dfdel", !.dl = None])
          /\ hist' = [hist EXCEPT !.exposed = @ \/ hist.removing > 0]
       \/ /\ BaseUpLoad(task[t].dl, FALSE) /\ UNCHANGED hist
          /\ DeepDone(t, "S3_INTERNAL_ERROR")
    /\ UNCHANGED <<fixed, etcd, wc, nextId, rc, up, meta, vers, ops>>

\* The record is removed whatever it says by now.
DeepDelete(t) ==
    /\ At(t, "dfdel")
    /\ InvalidateMetaCacheEntry(t)
    /\ \/ EtcdDelete(TRUE) /\ DeepDone(t, "OK")
       \/ EtcdDelete(FALSE) /\ DeepDone(t, "METADATA_ERROR")
    /\ UNCHANGED <<fixed, s3, wc, nextId, rc, up, vers, ops, hist>>

------------------------------------------------------------------------------
(* PerformGarbageCollection, by the tool or by an upload that met a full   *)
(* disk.                                                                   *)
StartGC(t) ==
    /\ Start(t, "gc")
    /\ Goto(t, [Idle EXCEPT !.op = "gc", !.pc = "gcts", !.after = "gc"])
    /\ UNCHANGED <<fixed, stores, up, meta, vers, faults, hist>>

\* What the caller of the collector does with its status.
GCDone(t, status) ==
    LET k == task[t]
        back == [k EXCEPT !.after = "none", !.ts = Idle.ts, !.dl = None, !.root = NoRoot]
    IN  CASE k.after = "gc" -> Finish(t, status, None)
          [] k.after = "part" /\ status = "OK" ->
                 Goto(t, [back EXCEPT !.pc = "part", !.inv = @ \ {k.chunk},
                                      !.retried = @ \cup {k.chunk}])
          [] k.after = "part" /\ status # "OK" ->
                 Goto(t, [back EXCEPT !.pc = "part", !.todo = @ \ {k.chunk}, !.res = status])
          [] k.after = "upload" /\ status = "OK" ->
                 Goto(t, [back EXCEPT !.pc = "upinv", !.retried = {1}])
          [] k.after = "upload" /\ status # "OK" ->
                 Goto(t, [back EXCEPT !.pc = "fail", !.res = status])

QueryTs(s) == IF up[s] THEN nextId[s] ELSE -1

\* Ids handed out from now on are safe; servers that do not answer are skipped.
GCQueryTs(t) ==
    /\ At(t, "gcts")
    /\ IF \A s \in Servers : QueryTs(s) = -1 THEN GCDone(t, "RPC_FAILED")
       ELSE Goto(t, [task[t] EXCEPT !.pc = "gclist",
                        !.ts = [s \in Servers |-> QueryTs(s)]])
    /\ UNCHANGED <<fixed, stores, up, meta, vers, ops, faults, hist>>

\* No record at all is an error of ListJson, and of the collection.
GCList(t) ==
    /\ At(t, "gclist")
    /\ IF etcd = NoRoot THEN GCDone(t, "notfound")
       ELSE Goto(t, [task[t] EXCEPT !.pc = "dfjson"])
    /\ UNCHANGED <<fixed, stores, up, meta, vers, ops, faults, hist>>

GCRecheck(t) ==
    /\ At(t, "gclist2")
    /\ \/ EtcdGet(FALSE) /\ GCDone(t, "METADATA_ERROR")
       \/ EtcdGet(TRUE) /\ Goto(t, [task[t] EXCEPT !.pc = "gcdel", !.root = etcd])
    /\ UNCHANGED <<fixed, stores, up, meta, vers, ops, hist>>

\* Mutant: chunks put after the collector asked for ts go too.
CollectableAnyAge(t, s) ==
    {ik \in DOMAIN wc[s] : ik \notin KeysOn(task[t].root, s)}

\* WriteCache::Delete keeps what the record names and what is not older than ts.
Collectable(t, s) ==
    {ik \in DOMAIN wc[s] : ik[2] < task[t].ts[s] /\ ik \notin KeysOn(task[t].root, s)}

\* A server that does not answer, now or when it was asked for ts, keeps all.
DeleteEntryFromWriteCache(t, s) ==
    IF up[s] THEN [ik \in DOMAIN wc[s] \ Collectable(t, s) |-> wc[s][ik]] ELSE wc[s]

\* history: chunks of an upload under way that were put before ts are lost to it.
GCDelete(t) ==
    LET hit(u) == /\ task[u].op \in {"flush", "upload"}
                  /\ \E c \in DOMAIN task[u].path : \E i \in DOMAIN task[u].path[c] :
                        task[u].path[c][i][2] < task[t].ts[GetReplica[i]]
    IN  /\ At(t, "gcdel")
        /\ wc' = [s \in Servers |-> DeleteEntryFromWriteCache(t, s)]
        /\ task' = [u \in Tasks |->
                       [task[u] EXCEPT !.gcHit = @ \/ hit(u),
                                       !.pc = IF u = t THEN "gcend" ELSE @]]
        /\ answer' = NoAnswer
        /\ UNCHANGED <<fixed, etcd, s3, nextId, rc, up, meta, vers, ops, faults, hist>>

GCEnd(t) ==
    /\ At(t, "gcend") /\ GCDone(t, "OK")
    /\ UNCHANGED <<fixed, stores, up, meta, vers, ops, faults, hist>>

------------------------------------------------------------------------------
(* Faults: a server stops answering, answers again, or restarts, which     *)
(* empties its read cache, keeps its disk and starts its ids from zero.    *)
Quiet == answer' = NoAnswer /\ UNCHANGED <<task, fixed, etcd, s3, wc, meta, vers, ops>>

ServerDown(s) ==
    /\ up[s] /\ Fault
    /\ up' = [up EXCEPT ![s] = FALSE]
    /\ Quiet /\ UNCHANGED <<nextId, rc, hist>>

ServerUp(s) ==
    /\ ~up[s]
    /\ up' = [up EXCEPT ![s] = TRUE]
    /\ Quiet /\ UNCHANGED <<nextId, rc, faults, hist>>

ServerRestart(s) ==
    /\ Fault
    /\ up' = [up EXCEPT ![s] = TRUE]
    /\ nextId' = [nextId EXCEPT ![s] = 0]
    /\ rc' = [rc EXCEPT ![s] = <<>>]
    /\ hist' = [hist EXCEPT !.idReset = @ \/ nextId[s] > 0]
    /\ Quiet

\* The adaptor forgets an entry: meta_cache_ is a bounded map, and a node restarts.
MetaEvict(n) ==
    /\ meta[n].present /\ Fault
    /\ meta' = [meta EXCEPT ![n] = NoMeta(@.gen + 1)]
    /\ answer' = NoAnswer
    /\ UNCHANGED <<task, fixed, stores, up, vers, ops, hist>>

------------------------------------------------------------------------------
Init ==
    /\ task = [t \in Tasks |-> Idle]
    /\ nodeOf \in [Tasks -> Nodes] /\ policy \in Policies
    /\ vers \in {0, 1} /\ s3 = vers      \* the bucket may hold the object
    /\ etcd = NoRoot
    /\ wc = [s \in Servers |-> <<>>] /\ rc = [s \in Servers |-> <<>>]
    /\ nextId = [s \in Servers |-> 0] /\ up = [s \in Servers |-> TRUE]
    /\ meta = [n \in Nodes |-> NoMeta(0)]
    /\ ops = 0 /\ faults = 0
    /\ hist = [intent |-> s3, exposed |-> FALSE, rcStale |-> FALSE, open |-> {},
               effective |-> {}, acked |-> {}, removing |-> 0, idReset |-> FALSE]
    /\ seen = [t \in Tasks |-> {}]
    /\ answer = NoAnswer

\* history: a version the object has while a call is under way; a removal under
\* way may be seen before the record is gone
Track == seen' = [t \in Tasks |-> IF task'[t].op \notin {"read", "head"} THEN {}
                                  ELSE seen[t] \cup {Current'}
                                       \cup (IF hist'.removing > 0 THEN {None} ELSE {})]

Flush(t) ==
    \/ StartFlush(t)
    \/ \E c \in task[t].todo : PartInvalidate(t, c) \/ PartPut(t, c)
    \/ CompleteFlush(t) \/ PutJson(t)

Upload(t) ==
    \/ StartUpload(t) \/ UpInvalidate(t) \/ UpPut(t) \/ UpBase(t) \/ UpMeta(t) \/ UpFail(t)

Read(t) ==
    \/ \E c \in Chunks : StartRead(t, c)
    \/ ReadNothing(t) \/ ReadJson(t) \/ ReadMeta(t) \/ ReadHead(t) \/ ReadHeadSet(t)
    \/ ReadWriteCache(t) \/ ReadWild(t) \/ ReadReadCache(t)
    \/ FillHead(t) \/ FillGet(t) \/ FillPut(t) \/ ReadBase(t)

Head_(t) == StartHead(t) \/ HeadMeta(t) \/ HeadJson(t) \/ HeadBase(t) \/ HeadSet(t)

Delete(t) == StartDelete(t) \/ DeleteBase(t) \/ DeleteInvalidate(t) \/ DeleteJson(t)

DeepFlush(t) ==
    StartDeepFlush(t) \/ DeepJson(t) \/ DeepDownLoad(t) \/ DeepUpLoad(t) \/ DeepDelete(t)

GarbageCollect(t) ==
    \/ StartGC(t) \/ GCQueryTs(t) \/ GCList(t) \/ GCRecheck(t) \/ GCDelete(t) \/ GCEnd(t)

Step ==
    \/ \E t \in Tasks : Flush(t) \/ Upload(t) \/ Read(t) \/ Head_(t) \/ Delete(t)
                         \/ DeepFlush(t) \/ GarbageCollect(t)
    \/ \E s \in Servers : ServerDown(s) \/ ServerUp(s) \/ ServerRestart(s)
    \/ \E n \in Nodes : MetaEvict(n)

Next == Step /\ Track

Spec == Init /\ [][Next]_vars

------------------------------------------------------------------------------
\* Unless the record was in danger, the object is what the last write or delete
\* that took effect made it: no collection, deep flush, server failure, restart,
\* or failed upload changes or loses it.
Durable == ~hist.exposed => Current = hist.intent

\* A read or a Head answers with a version the object had during the call, unless
\* its node's metadata was stale, a server did not answer and S3 was asked
\* instead, a stale chunk had got into the read cache, a secondary replica was asked
\* for a key that another server gave or that is past the end, or a restarted server
\* may have given its chunk's key to another chunk.
ReadFresh ==
    /\ answer.op \in {"read", "head"}
    /\ answer.status = "OK" \/ (answer.op = "head" /\ answer.status = "notfound")
    => answer.fresh \/ answer.why # {} \/ hist.exposed \/ hist.idReset

Cell == INSTANCE ObjectStore WITH
    Versions <- 1 .. MaxVer,
    store <- IF hist.exposed THEN hist.intent ELSE Current,
    open <- hist.open, effective <- hist.effective, acked <- hist.acked,
    removing <- hist.removing

\* The global cache implements the atomic cell.
ImplementsCell == Cell!Spec
==============================================================================
