-------------------------- MODULE GlobalCacheProofs --------------------------
(***************************************************************************)
(* Proofs about GlobalCache for any number of tasks, nodes, servers,       *)
(* replicas, versions, calls and failures: the object is never lost, the   *)
(* whole implements the atomic cell of ObjectStore, and reads are fresh.   *)
(***************************************************************************)
EXTENDS GlobalCache, FiniteSetTheorems, TLAPS

------------------------------------------------------------------------------
(***************************************************************************)
(* Constants and operators                                                 *)
(***************************************************************************)
\* A set of numbers that is not empty and lies below a bound has a least element:
\* otherwise the numbers below all of it would be closed under successor, an injection
\* of a finite set into less than itself.
LEMMA LeastElement ==
    ASSUME NEW S, S \subseteq Nat, S # {}
    PROVE  \E x \in S : \A y \in S : x <= y
<1> SUFFICES ASSUME \A x \in S : \E y \in S : y < x PROVE FALSE  OBVIOUS
<1> PICK m \in S : TRUE  OBVIOUS
<1> DEFINE D == {x \in 0 .. m : \A y \in S : x < y}
           f == [x \in D |-> x + 1]
<1>1. IsFiniteSet(D) /\ Cardinality(D) \in Nat
  <2>1. IsFiniteSet(0 .. m)  BY FS_Interval
  <2> QED BY <2>1, FS_Subset, FS_CardinalityType
<1>2. 0 \in D
  <2>1. \A y \in S : 0 < y  OBVIOUS
  <2> QED BY <2>1
<1>3. IsFiniteSet(D \ {0}) /\ Cardinality(D \ {0}) = Cardinality(D) - 1
  BY <1>1, <1>2, FS_RemoveElement
<1>4. ASSUME NEW x \in D PROVE x + 1 \in D \ {0}
  <2>1. \A y \in S : x + 1 <= y  OBVIOUS
  <2>2. x + 1 \notin S  BY <2>1
  <2> QED BY <2>1, <2>2
<1>5. f \in [D -> D \ {0}]  BY <1>4
<1>6. Cardinality(D \ {0}) < Cardinality(D)  BY <1>1, <1>3
<1> HIDE DEF f, D
<1>7. \E x, y \in D : x # y /\ f[x] = f[y]
  BY <1>1, <1>3, <1>5, <1>6, FS_PigeonHole, Zenon
<1> QED BY <1>7 DEF f, D

LEMMA Constants ==
    /\ NS \in Nat \ {0} /\ R \in 1 .. NS /\ MaxVer \in Nat \ {0} /\ IsFiniteSet(Tasks)
    /\ SizeOf \in [1 .. MaxVer -> Nat \ {0}]
    /\ GetReplica \in [1 .. R -> Servers]
<1>1. \A i \in 1 .. R : (Seed + i - 1) % NS \in 0 .. NS - 1  BY GlobalCacheAssumption
<1> QED BY <1>1, GlobalCacheAssumption DEF GetReplica, Servers

\* A Put that reports success has reached every replica.
LEMMA PutStatusOK ==
    ASSUME NEW C, PutStatus(C) = "OK", NEW i \in 1 .. R
    PROVE  PutEntry(C, GetReplica[i]) = "OK"
<1> DEFINE bad == {j \in 1 .. R : PutEntry(C, GetReplica[j]) # "OK"}
<1> SUFFICES ASSUME bad # {} PROVE FALSE  OBVIOUS
<1> DEFINE first == CHOOSE x \in bad : \A y \in bad : x <= y
<1>1. \E x \in bad : \A y \in bad : x <= y
  <2>1. bad \subseteq Nat  BY Constants
  <2> HIDE DEF bad
  <2> QED BY <2>1, LeastElement
<1>2. first \in bad  BY <1>1
<1>3. PutStatus(C) = PutEntry(C, GetReplica[first])  BY DEF PutStatus
<1> QED BY <1>2, <1>3

LEMMA DivMod ==
    ASSUME NEW a \in Nat
    PROVE  a \div R \in Nat /\ a % R \in 0 .. R - 1 /\ a = (a \div R) * R + (a % R)
BY GlobalCacheAssumption

\* The record of an upload names the keys of its parts, each on the server it is for.
LEMMA KeysOfRoot ==
    ASSUME NEW k, k.ver \in 1 .. MaxVer, NEW s \in Servers, NEW ik \in KeysOn(RootOf(k), s)
    PROVE  \E c \in 1 .. SizeOf[k.ver], j \in 1 .. R : ik = k.path[c][j] /\ GetReplica[j] = s
<1> DEFINE n == SizeOf[k.ver]
<1>1. n \in Nat \ {0} /\ R \in Nat \ {0}  BY Constants
<1> HIDE DEF n
<1> DEFINE root == RootOf(k)
<1>2. /\ DOMAIN root.path = 1 .. n * R
      /\ \A i \in 1 .. n * R : root.path[i] = k.path[((i - 1) \div R) + 1][((i - 1) % R) + 1]
  BY DEF RootOf, n
<1>3. Len(root.path) = n * R
  <2>1. n * R \in Nat  BY <1>1
  <2>2. root.path = [i \in 1 .. n * R |->
                        k.path[((i - 1) \div R) + 1][((i - 1) % R) + 1]]
    BY DEF RootOf, n
  <2> QED BY <2>1, <2>2
<1> HIDE DEF root
<1>4. PICK i \in 1 .. n * R : ik = root.path[i] /\ GetReplica[((i - 1) % R) + 1] = s
  BY <1>3 DEF KeysOn, root
<1>5. i \in Nat /\ i - 1 \in Nat /\ i - 1 < n * R  BY <1>1
<1>6. /\ (i - 1) \div R \in Nat /\ (i - 1) % R \in 0 .. R - 1
      /\ i - 1 = ((i - 1) \div R) * R + ((i - 1) % R)
  BY <1>1, <1>5, DivMod
<1>7. (i - 1) \div R < n
  <2> DEFINE q == (i - 1) \div R
  <2> HIDE DEF q
  <2> SUFFICES ASSUME q >= n PROVE FALSE  BY <1>1, <1>6 DEF q
  <2>1. q \in Nat /\ i - 1 >= q * R  BY <1>1, <1>6 DEF q
  <2>2. (q - n) * R \in Nat /\ q * R = n * R + (q - n) * R  BY <1>1, <2>1
  <2> QED BY <1>1, <1>5, <2>1, <2>2
<1> DEFINE c == (i - 1) \div R + 1
           j == ((i - 1) % R) + 1
<1>8. c \in 1 .. n /\ j \in 1 .. R  BY <1>1, <1>6, <1>7
<1>9. ik = k.path[c][j] /\ GetReplica[j] = s  BY <1>2, <1>4
<1> QED BY <1>8, <1>9 DEF n

\* A Put that exposes nothing keeps what a server has ...
LEMMA PutKeeps ==
    ASSUME NEW C, NEW v, PutChunks(C, v), hist.exposed \in BOOLEAN, "exposed" \in DOMAIN hist,
           ~hist'.exposed, NEW s \in Servers, NEW ik \in DOMAIN wc[s]
    PROVE  ik \in DOMAIN wc'[s] /\ wc'[s][ik] = wc[s][ik]
BY DEF PutChunks

\* ... and adds the chunks on the servers that answered with success.
LEMMA PutAdds ==
    ASSUME NEW C, NEW v, PutChunks(C, v), NEW i \in 1 .. R, PutEntry(C, GetReplica[i]) = "OK",
           NEW ik \in IdsFor(C, GetReplica[i])
    PROVE  ik \in DOMAIN wc'[GetReplica[i]] /\ wc'[GetReplica[i]][ik] = v
<1>1. GetReplica[i] \in Servers /\ GetReplica[i] \in ReplicaServers /\ up[GetReplica[i]]
  BY Constants DEF ReplicaServers, PutEntry
<1> QED BY <1>1 DEF PutChunks

\* The keys of a part, and of the parts of a whole upload.
LEMMA PathOfPart ==
    ASSUME NEW c
    PROVE  DOMAIN PathOf(c) = 1 .. R /\ \A i \in 1 .. R : PathOf(c)[i] \in IdsFor({c}, GetReplica[i])
<1>1. \A s : IdsFor({c}, s) # {}  BY DEF IdsFor
<1> QED BY <1>1 DEF PathOf

LEMMA PathOfUpload ==
    ASSUME NEW C, NEW c \in C, NEW s
    PROVE  (CHOOSE ik \in IdsFor(C, s) : ik[1] = c) \in IdsFor(C, s)
<1> DEFINE key == <<c, nextId[s] + Cardinality({x \in C : x < c})>>
<1>1. key \in IdsFor(C, s) /\ key[1] = c  BY DEF IdsFor
<1> QED BY <1>1

------------------------------------------------------------------------------
(***************************************************************************)
(* The invariant                                                           *)
(***************************************************************************)
Fields == DOMAIN Idle

Histories == [intent : 0 .. MaxVer, exposed : BOOLEAN, rcStale : BOOLEAN,
              open : SUBSET (1 .. MaxVer), effective : SUBSET (1 .. MaxVer),
              acked : SUBSET (1 .. MaxVer), removing : Nat, idReset : BOOLEAN]

TypeOK ==
    /\ task = [t \in Tasks |-> task[t]]
    /\ \A t \in Tasks : DOMAIN task[t] = Fields /\ task[t].gcHit \in BOOLEAN
    /\ hist \in Histories /\ vers \in 0 .. MaxVer
    /\ etcd # NoRoot => etcd.size \in Nat \ {0}

\* Where a task is in the code of its operation.
Cleaning == {"gcts", "gclist", "gclist2", "gcdel", "gcend", "dfjson", "dfdown", "dfup", "dfdel"}
Looking == {"idle", "notfound", "eof", "rjson", "rmeta", "rhead", "rhset", "wcget", "wild",
            "rcget", "fillhead", "fillget", "fillput", "s3get", "hmeta", "hjson", "hbase", "hset"}
Writer(k) == k.op \in {"flush", "upload"}
PlaceOK(k) ==
    \/ k.op = "flush" /\ k.pc \in {"part", "json"}
    \/ k.op = "upload" /\ k.pc \in {"upinv", "upput", "json", "upmeta", "fail"}
    \/ k.op = "flush" /\ k.after = "part" /\ k.pc \in Cleaning
    \/ k.op = "upload" /\ k.after = "upload" /\ k.pc \in Cleaning
    \/ k.op = "gc" /\ k.after = "gc" /\ k.pc \in Cleaning
    \/ k.op = "deep" /\ k.after = "none" /\ k.pc \in {"dfjson", "dfdown", "dfup", "dfdel"}
    \/ k.op = "delete" /\ k.pc \in {"dels3", "delinv", "deljson"}
    \/ k.op \in {"none", "read", "head"} /\ k.pc \in Looking

\* A write that has not ended is in the books, ...
Booked(k) ==
    Writer(k) => /\ k.ver \in 1 .. vers
                 /\ IF k.pc = "upmeta" THEN k.ver \in hist.effective ELSE k.ver \in hist.open

\* ... knows the keys of the parts it has put, all of them when it writes the record, ...
Whole(k) == DOMAIN k.path = 1 .. SizeOf[k.ver] /\ \A c \in DOMAIN k.path : DOMAIN k.path[c] = 1 .. R
Gathered(k) ==
    Writer(k) =>
        /\ \A c \in DOMAIN k.path : DOMAIN k.path[c] \in {{}, 1 .. R}
        /\ k.op = "flush" =>
              /\ k.todo \subseteq 1 .. SizeOf[k.ver] /\ DOMAIN k.path = 1 .. SizeOf[k.ver]
              /\ k.res = "OK" => \A c \in DOMAIN k.path \ k.todo : DOMAIN k.path[c] = 1 .. R
              /\ k.pc \in Cleaning => k.chunk \in k.todo
        /\ k.pc = "json" \/ (k.pc = "upmeta" /\ policy # "nocache") => Whole(k)

\* ... and finds them where it put them, unless a collection took them.
Kept(k) ==
    Writer(k) /\ ~k.gcHit /\ ~hist.exposed =>
        \A c \in DOMAIN k.path : \A i \in DOMAIN k.path[c] :
            /\ k.path[c][i] \in DOMAIN wc[GetReplica[i]]
            /\ wc[GetReplica[i]][k.path[c][i]] = k.ver

\* Without a write cache there is no record and nothing that works on one.
NoCacheOK(k) ==
    policy = "nocache" =>
        /\ k.pc \notin {"json", "dfjson", "dfdown", "dfup", "dfdel", "gclist2", "gcdel", "gcend",
                        "delinv", "deljson"}
        /\ k.op = "flush" => k.todo = 1 .. SizeOf[k.ver] \/ k.res # "OK"

\* A deep flush carries the object, and removes the record when S3 has it.
DeepOK(k) ==
    /\ k.pc = "dfdown" => k.root.size \in Nat \ {0}
    /\ k.pc = "dfup" /\ ~hist.exposed => k.dl = hist.intent
    /\ k.pc = "dfdel" /\ ~hist.exposed => s3 = hist.intent

\* A removal that deleted the S3 object finds it deleted when the record goes.
DeleteOK(k) ==
    k.pc \in {"delinv", "deljson"} /\ "base" \notin k.why /\ ~hist.exposed => s3 = None

\* A collection spares the chunks of the record.
CollectOK(k) ==
    k.pc = "gcdel" /\ ~hist.exposed =>
        \A s \in Servers : \A ik \in KeysOn(etcd, s) :
            ik \in KeysOn(k.root, s) \/ ~(ik[2] < k.ts[s])

TaskOK(k) ==
    /\ PlaceOK(k) /\ Booked(k) /\ Gathered(k) /\ Kept(k)
    /\ NoCacheOK(k) /\ DeepOK(k) /\ DeleteOK(k) /\ CollectOK(k)

\* The writes and removals under way are those of the books.
Removers == {t \in Tasks : task[t].op = "delete"}
AccountOK ==
    /\ hist.open \cup hist.effective \cup hist.acked \subseteq 1 .. vers
    /\ hist.open \cap hist.effective = {} /\ hist.open \cap hist.acked = {}
    /\ hist.effective \cap hist.acked = {}
    /\ \A t, u \in Tasks : t # u /\ Writer(task[t]) /\ Writer(task[u])
                              => task[t].ver # task[u].ver
    /\ hist.removing = Cardinality(Removers)

RecordOK == policy = "nocache" => etcd = NoRoot
TasksOK == \A t \in Tasks : TaskOK(task[t])
CacheInv == TypeOK /\ RecordOK /\ TasksOK /\ AccountOK /\ Durable

\* A task that another one's step leaves alone stays as it should be if the step
\* keeps the books of its write, the chunks it put and what it knows of the stores.
LEMMA OthersOK ==
    ASSUME TypeOK, TypeOK', NEW u \in Tasks, TaskOK(task[u]), task'[u] = task[u], policy' = policy,
           vers <= vers', hist.exposed => hist'.exposed,
           Writer(task[u]) => /\ task[u].ver \in hist.open => task[u].ver \in hist'.open
                              /\ task[u].ver \in hist.effective => task[u].ver \in hist'.effective,
           ~hist'.exposed =>
               /\ \A s \in Servers : \A ik \in DOMAIN wc[s] :
                     ik \in DOMAIN wc'[s] /\ wc'[s][ik] = wc[s][ik]
               /\ task[u].pc = "dfup" => hist'.intent = hist.intent
               /\ task[u].pc = "dfdel" /\ s3 = hist.intent => s3' = hist'.intent
               /\ task[u].pc \in {"delinv", "deljson"} => s3' \in {s3, None}
               /\ task[u].pc = "gcdel" =>
                     \A s \in Servers : \A ik \in KeysOn(etcd', s) :
                         ik \in KeysOn(etcd, s) \/ ~(ik[2] < task[u].ts[s])
    PROVE  TaskOK(task[u])'
<1> DEFINE k == task[u]
<1>1. PlaceOK(k)' /\ Gathered(k)' /\ NoCacheOK(k)'
  BY DEF TaskOK, PlaceOK, Gathered, Whole, NoCacheOK, Writer
<1>2. Booked(k)'
  <2>1. vers \in Nat /\ vers' \in Nat  BY Constants DEF TypeOK
  <2> QED BY <2>1 DEF TaskOK, Booked, Writer
<1>3. Kept(k)'
  <2> SUFFICES ASSUME Writer(k), ~k.gcHit, ~hist'.exposed,
                      NEW c \in DOMAIN k.path, NEW i \in DOMAIN k.path[c]
               PROVE  /\ k.path[c][i] \in DOMAIN wc'[GetReplica[i]]
                      /\ wc'[GetReplica[i]][k.path[c][i]] = k.ver
    BY DEF Kept, Writer
  <2>1. i \in 1 .. R  BY DEF TaskOK, Gathered
  <2>2. GetReplica[i] \in Servers  BY <2>1, Constants
  <2>3. /\ k.path[c][i] \in DOMAIN wc[GetReplica[i]]
        /\ wc[GetReplica[i]][k.path[c][i]] = k.ver
    BY DEF TaskOK, Kept
  <2> QED BY <2>2, <2>3
<1>4. DeepOK(k)' /\ DeleteOK(k)'  BY DEF TaskOK, DeepOK, DeleteOK
<1>5. CollectOK(k)'
  <2> SUFFICES ASSUME k.pc = "gcdel", ~hist'.exposed, NEW s \in Servers, NEW ik \in KeysOn(etcd', s)
               PROVE  ik \in KeysOn(k.root, s) \/ ~(ik[2] < k.ts[s])
    BY DEF CollectOK, KeysOn
  <2> QED BY DEF TaskOK, CollectOK
<1> QED BY <1>1, <1>2, <1>3, <1>4, <1>5 DEF TaskOK

------------------------------------------------------------------------------
(***************************************************************************)
(* Kinds of steps                                                          *)
(***************************************************************************)
\* Task t moves, and no other.
Moves(t) ==
    /\ task' = [u \in Tasks |-> task'[u]] /\ \A u \in Tasks \ {t} : task'[u] = task[u]
    /\ DOMAIN task'[t] = Fields /\ task'[t].gcHit \in BOOLEAN

LEMMA MovesTo ==
    ASSUME TypeOK, NEW t \in Tasks, NEW r, task' = [task EXCEPT ![t] = r],
           DOMAIN r = Fields, r.gcHit \in BOOLEAN
    PROVE  Moves(t) /\ task'[t] = r
BY DEF TypeOK, Moves

LEMMA IdleFields == DOMAIN Idle = Fields /\ Idle.gcHit = FALSE /\ Idle.op = "none" /\ Idle.pc = "idle"
BY DEF Idle, Fields

\* The number of removers when one task moves.
LEMMA RemoversStep ==
    ASSUME NEW t \in Tasks, Moves(t)
    PROVE  /\ Cardinality(Removers) \in Nat /\ Cardinality(Removers') \in Nat
           /\ (task[t].op = "delete" <=> task'[t].op = "delete")
                 => Cardinality(Removers') = Cardinality(Removers)
           /\ task[t].op # "delete" /\ task'[t].op = "delete"
                 => Cardinality(Removers') = Cardinality(Removers) + 1
           /\ task[t].op = "delete" /\ task'[t].op # "delete"
                 => Cardinality(Removers') = Cardinality(Removers) - 1
           /\ task[t].op = "delete" => Cardinality(Removers) > 0
<1> DEFINE S == Removers \ {t}
<1>1. IsFiniteSet(S) /\ t \notin S
  BY Constants, FS_Subset DEF Removers
<1>2. Removers = IF task[t].op = "delete" THEN S \cup {t} ELSE S  BY DEF Removers
<1>3. Removers' = IF task'[t].op = "delete" THEN S \cup {t} ELSE S
  BY DEF Removers, Moves
<1>4. Cardinality(S) \in Nat /\ Cardinality(S \cup {t}) = Cardinality(S) + 1
  BY <1>1, FS_CardinalityType, FS_AddElement
<1> HIDE DEF S
<1> QED BY <1>2, <1>3, <1>4

\* A step that changes at most what is not in the books and may expose the object.
LEMMA QuietStep ==
    ASSUME CacheInv, NEW t \in Tasks, Moves(t), UNCHANGED <<policy, etcd, s3, wc, vers>>,
           hist' \in Histories, hist.exposed => hist'.exposed,
           hist'.intent = hist.intent, hist'.open = hist.open, hist'.effective = hist.effective,
           hist'.acked = hist.acked, hist'.removing = hist.removing,
           task[t].op = "delete" <=> task'[t].op = "delete",
           Writer(task'[t]) => Writer(task[t]) /\ task'[t].ver = task[t].ver,
           TaskOK(task[t])'
    PROVE  CacheInv'
<1> USE DEF CacheInv
<1>1. TypeOK'
  <2>1. \A u \in Tasks : DOMAIN task'[u] = Fields /\ task'[u].gcHit \in BOOLEAN
    BY DEF TypeOK, Moves
  <2> QED BY <2>1 DEF TypeOK, Moves
<1>2. ASSUME NEW u \in Tasks \ {t} PROVE TaskOK(task[u])'
  <2>1. vers <= vers'  BY Constants DEF TypeOK
  <2>2. TaskOK(task[u]) /\ task'[u] = task[u]  BY DEF TasksOK, Moves
  <2> QED BY <1>1, <2>1, <2>2, OthersOK
<1>3. TasksOK'  BY <1>2 DEF TasksOK
<1>4. AccountOK'
  <2>1. hist'.removing = Cardinality(Removers')  BY RemoversStep DEF AccountOK
  <2>2. ASSUME NEW u \in Tasks, NEW w \in Tasks, u # w, Writer(task'[u]), Writer(task'[w])
        PROVE  task'[u].ver # task'[w].ver
    <3>1. \A x \in {u, w} : Writer(task[x]) /\ task'[x].ver = task[x].ver
      BY <2>2 DEF Moves
    <3> QED BY <2>2, <3>1 DEF AccountOK
  <2> QED BY <2>1, <2>2 DEF AccountOK, Writer
<1>5. Durable'  BY DEF Durable, Current, Intact, KeysOn
<1> QED BY <1>1, <1>3, <1>4, <1>5 DEF RecordOK

\* A task that only looks.
LEMMA LookerOK ==
    ASSUME NEW t \in Tasks, task'[t].op \in {"none", "read", "head"}, task'[t].pc \in Looking
    PROVE  TaskOK(task[t])'
BY DEF TaskOK, PlaceOK, Booked, Gathered, Kept, NoCacheOK, DeepOK, DeleteOK, CollectOK, Looking,
       Writer

LEMMA LookStep ==
    ASSUME CacheInv, NEW t \in Tasks, Moves(t), UNCHANGED <<policy, etcd, s3, wc, vers>>,
           hist' \in Histories, hist.exposed => hist'.exposed,
           hist'.intent = hist.intent, hist'.open = hist.open, hist'.effective = hist.effective,
           hist'.acked = hist.acked, hist'.removing = hist.removing,
           task[t].op # "delete",
           task'[t].op \in {"none", "read", "head"}, task'[t].pc \in Looking
    PROVE  CacheInv'
BY LookerOK, QuietStep DEF Writer

------------------------------------------------------------------------------
(***************************************************************************)
(* Reading                                                                 *)
(***************************************************************************)
\* The answer of a call.
LEMMA FinishMoves ==
    ASSUME TypeOK, NEW t \in Tasks, NEW status, NEW v, Finish(t, status, v)
    PROVE  Moves(t) /\ task'[t].op = "none" /\ task'[t].pc = "idle"
BY IdleFields, MovesTo DEF Finish

LEMMA EndMoves ==
    ASSUME TypeOK, NEW t \in Tasks, NEW status, End(t, status)
    PROVE  /\ Moves(t)
           /\ \/ task'[t].op = "none" /\ task'[t].pc = "idle"
              \/ task'[t].op = task[t].op /\ task'[t].pc = "s3get"
<1>1. CASE status = "RPC_FAILED"
  <2> DEFINE r == [task[t] EXCEPT !.pc = "s3get",
                     !.why = IF etcd # NoRoot THEN @ \cup {"fallback"} ELSE @]
  <2>1. task' = [task EXCEPT ![t] = r]  BY <1>1 DEF End, Goto
  <2>2. DOMAIN task[t] = Fields /\ task[t].gcHit \in BOOLEAN  BY DEF TypeOK
  <2>3. DOMAIN r = Fields /\ r.gcHit \in BOOLEAN /\ r.op = task[t].op /\ r.pc = "s3get"
    BY <2>2 DEF Fields, Idle
  <2> HIDE DEF r
  <2> QED BY <2>1, <2>3, MovesTo
<1>2. CASE status # "RPC_FAILED"  BY <1>2, FinishMoves DEF End
<1> QED BY <1>1, <1>2

\* A step from one place of the operation to another.
LEMMA GotoMoves ==
    ASSUME TypeOK, NEW t \in Tasks, NEW r, Goto(t, r), DOMAIN r = Fields, r.gcHit \in BOOLEAN
    PROVE  Moves(t) /\ task'[t] = r
BY MovesTo DEF Goto

LEMMA FieldNames == {"op", "pc", "ver", "chunk", "todo", "inv", "retried", "path", "root", "gen", "dl",
                     "ts", "after", "res", "why", "gcHit"} = Fields
BY DEF Fields, Idle

\* The steps of a read or a Head, which change nothing that is in the books.
Looks(t) ==
    /\ Moves(t) /\ UNCHANGED <<policy, etcd, s3, wc, vers>>
    /\ hist' \in Histories /\ hist'.exposed = hist.exposed
    /\ hist'.intent = hist.intent /\ hist'.open = hist.open /\ hist'.effective = hist.effective
    /\ hist'.acked = hist.acked /\ hist'.removing = hist.removing
    /\ task[t].op # "delete"
    /\ task'[t].op \in {"none", "read", "head"} /\ task'[t].pc \in Looking

LEMMA LooksInv == ASSUME CacheInv, NEW t \in Tasks, Looks(t) PROVE CacheInv'
BY LookStep DEF Looks

LEMMA LookingOps ==
    ASSUME NEW k, PlaceOK(k), k.pc \in Looking
    PROVE  k.op \in {"none", "read", "head"} /\ k.op # "delete"
BY DEF PlaceOK, Looking, Cleaning

LEMMA ReadLooks == ASSUME CacheInv, NEW t \in Tasks, Read(t) PROVE Looks(t)
<1> USE DEF fixed, stores
<1> DEFINE k == task[t]
<1>1. TypeOK /\ hist \in Histories /\ PlaceOK(k)  BY DEF CacheInv, TypeOK, TasksOK, TaskOK
<1>2. DOMAIN k = Fields /\ k.gcHit \in BOOLEAN  BY <1>1 DEF TypeOK
<1>3. ASSUME k.pc \in Looking, UNCHANGED <<policy, etcd, s3, wc, vers, hist>>,
             Moves(t), task'[t].op \in {"none", k.op}, task'[t].pc \in Looking
      PROVE  Looks(t)
  BY <1>1, <1>3, LookingOps DEF Looks, Histories
<1>4. ASSUME NEW c \in Chunks, StartRead(t, c) PROVE Looks(t)
  <2> DEFINE m == meta[nodeOf[t]]
             r == [Idle EXCEPT !.op = "read", !.chunk = c, !.gen = m.gen, !.root = m.root,
                               !.why = IF MetaStale(nodeOf[t]) THEN {"meta"} ELSE {},
                               !.pc = IF m.present /\ ~m.existed THEN "notfound"
                                      ELSE IF m.present /\ c > m.size THEN "eof"
                                      ELSE WhereToRead(t)]
  <2>1. Goto(t, r) /\ k.pc = "idle" /\ UNCHANGED <<policy, etcd, s3, wc, vers, hist>>
    BY <1>4 DEF StartRead, Start
  <2>2. DOMAIN r = Fields /\ r.gcHit = FALSE /\ r.op = "read"  BY FieldNames DEF Idle
  <2>3. r.pc \in Looking  BY DEF Idle, Looking, WhereToRead
  <2> HIDE DEF r
  <2>4. Moves(t) /\ task'[t] = r  BY <1>1, <2>1, <2>2, GotoMoves
  <2> QED BY <1>1, <2>1, <2>2, <2>3, <2>4, LookingOps DEF Looks, Looking, Histories
<1>5. ASSUME NEW r, Goto(t, r), r.op = k.op, r.pc \in Looking, DOMAIN r = Fields,
             r.gcHit = k.gcHit, k.pc \in Looking, UNCHANGED <<policy, etcd, s3, wc, vers, hist>>
      PROVE  Looks(t)
  BY <1>1, <1>2, <1>3, <1>5, GotoMoves
<1>6. ASSUME NEW status, NEW v, Finish(t, status, v), k.pc \in Looking,
             UNCHANGED <<policy, etcd, s3, wc, vers, hist>>
      PROVE  Looks(t)
  BY <1>1, <1>3, <1>6, FinishMoves DEF Looking
<1>7. ASSUME NEW status, End(t, status), k.pc \in Looking,
             UNCHANGED <<policy, etcd, s3, wc, vers, hist>>
      PROVE  Looks(t)
  BY <1>1, <1>3, <1>7, EndMoves DEF Looking
<1>8. CASE ReadNothing(t)  BY <1>6, <1>8 DEF ReadNothing, Looking
<1>9. CASE ReadJson(t)
  BY <1>2, <1>5, <1>6, <1>9, FieldNames DEF ReadJson, At, Looking
<1>10. CASE ReadMeta(t)
  BY <1>2, <1>5, <1>10, FieldNames DEF ReadMeta, At, Looking
<1>11. CASE ReadHead(t)
  BY <1>2, <1>5, <1>6, <1>11, FieldNames DEF ReadHead, At, Looking
<1>12. CASE ReadHeadSet(t)
  BY <1>2, <1>5, <1>6, <1>12, FieldNames DEF ReadHeadSet, At, Looking
<1>13. CASE ReadWriteCache(t)
  <2>1. ASSUME task' = [task EXCEPT ![t] = Idle] PROVE Looks(t)
    <3>1. Moves(t) /\ task'[t] = Idle  BY <1>1, <2>1, IdleFields, MovesTo
    <3> QED BY <1>3, <1>13, <3>1, IdleFields DEF ReadWriteCache, At, Looking
  <2>2. ASSUME Goto(t, [k EXCEPT !.pc = "wild", !.why = @ \cup {"wild"}]) PROVE Looks(t)
    BY <1>2, <1>5, <1>13, <2>2, FieldNames DEF ReadWriteCache, At, Looking
  <2>3. ASSUME NEW status, End(t, status) PROVE Looks(t)
    BY <1>7, <1>13, <2>3 DEF ReadWriteCache, At, Looking
  <2> QED BY <1>13, <2>1, <2>2, <2>3 DEF ReadWriteCache
<1>14. CASE ReadWild(t)  BY <1>6, <1>14 DEF ReadWild, At, Looking
<1>15. CASE ReadReadCache(t)
  <2>1. ASSUME task' = [task EXCEPT ![t] = Idle] PROVE Looks(t)
    <3>1. Moves(t) /\ task'[t] = Idle  BY <1>1, <2>1, IdleFields, MovesTo
    <3> QED BY <1>3, <1>15, <3>1, IdleFields DEF ReadReadCache, At, Looking
  <2> QED BY <1>2, <1>5, <1>7, <1>15, <2>1, FieldNames DEF ReadReadCache, At, Looking
<1>16. CASE FillHead(t)
  BY <1>2, <1>5, <1>6, <1>16, FieldNames DEF FillHead, At, Looking
<1>17. CASE FillGet(t)
  BY <1>2, <1>5, <1>6, <1>17, FieldNames DEF FillGet, At, Looking
<1>18. CASE FillPut(t)
  <2>1. /\ k.pc = "fillput" /\ UNCHANGED <<policy, etcd, s3, wc, vers>>
        /\ \/ Finish(t, "OK", k.ver)
           \/ End(t, "RPC_FAILED")
    BY <1>18 DEF FillPut, At
  <2>2. Moves(t) /\ task'[t].op \in {"none", k.op} /\ task'[t].pc \in Looking
    BY <1>1, <2>1, FinishMoves, EndMoves DEF Looking
  <2>3. /\ hist' \in Histories /\ hist'.exposed = hist.exposed
        /\ hist'.intent = hist.intent /\ hist'.open = hist.open
        /\ hist'.effective = hist.effective
        /\ hist'.acked = hist.acked /\ hist'.removing = hist.removing
    BY <1>1, <1>18 DEF FillPut, Histories
  <2> QED BY <1>1, <2>1, <2>2, <2>3, LookingOps DEF Looks, Looking
<1>19. CASE ReadBase(t)  BY <1>6, <1>19 DEF ReadBase, At, Looking
<1> QED BY <1>4, <1>8, <1>9, <1>10, <1>11, <1>12, <1>13, <1>14, <1>15, <1>16, <1>17, <1>18,
           <1>19 DEF Read

LEMMA HeadLooks == ASSUME CacheInv, NEW t \in Tasks, Head_(t) PROVE Looks(t)
<1> USE DEF fixed, stores
<1> DEFINE k == task[t]
<1>1. TypeOK /\ hist \in Histories /\ PlaceOK(k)  BY DEF CacheInv, TypeOK, TasksOK, TaskOK
<1>2. DOMAIN k = Fields /\ k.gcHit \in BOOLEAN  BY <1>1 DEF TypeOK
<1>3. ASSUME NEW r, Goto(t, r), r.op \in {"head", k.op}, r.pc \in Looking, DOMAIN r = Fields,
             r.gcHit \in BOOLEAN, k.pc \in Looking, UNCHANGED <<policy, etcd, s3, wc, vers, hist>>
      PROVE  Looks(t)
  <2>1. Moves(t) /\ task'[t] = r  BY <1>1, <1>3, GotoMoves
  <2> QED BY <1>1, <1>3, <2>1, LookingOps DEF Looks, Histories
<1>4. ASSUME NEW status, NEW v, Finish(t, status, v), k.pc \in Looking,
             UNCHANGED <<policy, etcd, s3, wc, vers, hist>>
      PROVE  Looks(t)
  <2>1. Moves(t) /\ task'[t].op = "none" /\ task'[t].pc = "idle"  BY <1>1, <1>4, FinishMoves
  <2> QED BY <1>1, <1>4, <2>1, LookingOps DEF Looks, Histories, Looking
<1>5. CASE StartHead(t)
  BY <1>3, <1>5, FieldNames DEF StartHead, Start, Looking, Idle
<1>6. CASE HeadMeta(t)  BY <1>4, <1>6 DEF HeadMeta, HeadAnswer, At, Looking
<1>7. CASE HeadJson(t)
  BY <1>2, <1>3, <1>4, <1>7, FieldNames DEF HeadJson, At, Looking
<1>8. CASE HeadBase(t)
  BY <1>2, <1>3, <1>4, <1>8, FieldNames DEF HeadBase, At, Looking
<1>9. CASE HeadSet(t)  BY <1>4, <1>9 DEF HeadSet, HeadAnswer, At, Looking
<1> QED BY <1>5, <1>6, <1>7, <1>8, <1>9 DEF Head_

------------------------------------------------------------------------------
(***************************************************************************)
(* The steps of a deep flush or a collection that change no store          *)
(***************************************************************************)
\* The books may only learn that the object is exposed.
SameBooks ==
    /\ hist' \in Histories /\ (hist.exposed => hist'.exposed)
    /\ hist'.intent = hist.intent /\ hist'.open = hist.open /\ hist'.effective = hist.effective
    /\ hist'.acked = hist.acked /\ hist'.removing = hist.removing

SameWorld == UNCHANGED <<policy, etcd, s3, wc, vers>> /\ SameBooks

LEMMA BooksKept == ASSUME TypeOK, UNCHANGED <<policy, etcd, s3, wc, vers, hist>> PROVE SameWorld
BY DEF TypeOK, SameWorld, SameBooks

LEMMA BooksExposed ==
    ASSUME TypeOK, UNCHANGED <<policy, etcd, s3, wc, vers>>, NEW b \in BOOLEAN,
           hist' = [hist EXCEPT !.exposed = @ \/ b]
    PROVE  SameWorld /\ (hist'.exposed <=> hist.exposed \/ b)
<1>1. hist \in Histories  BY DEF TypeOK
<1> QED BY <1>1 DEF SameWorld, SameBooks, Histories

\* What a task keeps of its write while it cleans.
SameWrite(k, r) ==
    /\ DOMAIN r = Fields /\ r.gcHit = k.gcHit /\ r.op = k.op /\ r.ver = k.ver /\ r.path = k.path

LEMMA CleaningOps ==
    ASSUME NEW k, PlaceOK(k), k.pc \in Cleaning
    PROVE  /\ k.op \in {"flush", "upload", "gc", "deep"}
           /\ k.op = "flush" => k.after = "part"
           /\ k.op = "upload" => k.after = "upload"
           /\ k.op = "gc" => k.after = "gc"
           /\ k.op = "deep" => k.after = "none" /\ k.pc \in {"dfjson", "dfdown", "dfup", "dfdel"}
BY DEF PlaceOK, Cleaning, Looking

\* The write of a task is as it was.
LEMMA WriteKept ==
    ASSUME TypeOK, NEW t \in Tasks, TaskOK(task[t]), SameWrite(task[t], task'[t]),
           task[t].pc # "upmeta", task'[t].pc # "upmeta", UNCHANGED <<wc, vers>>,
           hist.exposed => hist'.exposed, hist'.open = hist.open, hist'.effective = hist.effective
    PROVE  Booked(task[t])' /\ Kept(task[t])'
BY DEF TaskOK, Booked, Kept, SameWrite, Writer

\* From one place of the cleaning to another.
LEMMA CleanOK ==
    ASSUME TypeOK, NEW t \in Tasks, TaskOK(task[t]), task[t].pc \in Cleaning,
           SameWrite(task[t], task'[t]), task'[t].after = task[t].after,
           task'[t].todo = task[t].todo, task'[t].res = task[t].res,
           task'[t].chunk = task[t].chunk,
           task'[t].pc \in Cleaning,
           task[t].op = "deep" => task'[t].pc \in {"dfjson", "dfdown", "dfup", "dfdel"},
           policy = "nocache" => task'[t].pc \in {"gcts", "gclist"},
           policy' = policy, Booked(task[t])', Kept(task[t])', DeepOK(task[t])', CollectOK(task[t])'
    PROVE  TaskOK(task[t])'
<1>1. PlaceOK(task[t])'
  BY CleaningOps DEF TaskOK, SameWrite, PlaceOK, Cleaning
<1>2. Gathered(task[t])'
  <2>1. Gathered(task[t])  BY DEF TaskOK
  <2> QED BY <2>1 DEF SameWrite, Gathered, Writer, Cleaning
<1>3. NoCacheOK(task[t])'
  <2>1. NoCacheOK(task[t])  BY DEF TaskOK
  <2> QED BY <2>1 DEF SameWrite, NoCacheOK
<1>4. DeleteOK(task[t])'  BY DEF DeleteOK, Cleaning
<1> QED BY <1>1, <1>2, <1>3, <1>4 DEF TaskOK

LEMMA CleanStep ==
    ASSUME CacheInv, NEW t \in Tasks, task[t].pc \in Cleaning, SameWorld, Moves(t),
           SameWrite(task[t], task'[t]), task'[t].after = task[t].after,
           task'[t].todo = task[t].todo, task'[t].res = task[t].res,
           task'[t].chunk = task[t].chunk,
           task'[t].pc \in Cleaning,
           task[t].op = "deep" => task'[t].pc \in {"dfjson", "dfdown", "dfup", "dfdel"},
           policy = "nocache" => task'[t].pc \in {"gcts", "gclist"},
           DeepOK(task[t])', CollectOK(task[t])'
    PROVE  CacheInv'
<1>1. TypeOK /\ TaskOK(task[t])  BY DEF CacheInv, TasksOK
<1>2. Booked(task[t])' /\ Kept(task[t])'
  BY <1>1, WriteKept DEF SameWorld, SameBooks, Cleaning
<1>3. TaskOK(task[t])'  BY <1>1, <1>2, CleanOK DEF SameWorld
<1> QED BY <1>3, QuietStep DEF SameWorld, SameBooks, SameWrite, Writer

\* The collector is done: its caller goes on, or answers.
LEMMA GCDoneStep ==
    ASSUME CacheInv, NEW t \in Tasks, task[t].pc \in {"gcts", "gclist", "gclist2", "gcend"},
           NEW status, GCDone(t, status), status = "OK" => task[t].pc = "gcend", SameWorld
    PROVE  CacheInv'
<1> DEFINE k == task[t]
           back == [k EXCEPT !.after = "none", !.ts = Idle.ts, !.dl = None, !.root = NoRoot]
<1>1. TypeOK /\ TaskOK(k) /\ PlaceOK(k) /\ k.pc \in Cleaning
  BY DEF CacheInv, TasksOK, TaskOK, Cleaning
<1>2. DOMAIN k = Fields /\ k.gcHit \in BOOLEAN  BY <1>1 DEF TypeOK
<1>3. k.op \in {"flush", "upload", "gc"} /\ k.after \in {"part", "upload", "gc"}
      /\ (k.op = "flush" <=> k.after = "part") /\ (k.op = "upload" <=> k.after = "upload")
  BY <1>1, CleaningOps
<1>4. CASE k.after = "gc"
  <2>1. Moves(t) /\ task'[t].op = "none" /\ task'[t].pc = "idle"
    BY <1>1, <1>4, FinishMoves DEF GCDone
  <2> QED BY <1>3, <2>1, LookStep DEF SameWorld, SameBooks, Looking
<1>5. ASSUME NEW r, Goto(t, r), SameWrite(k, r), Writer(k),
             \/ r.op = "flush" /\ r.pc = "part" /\ r.todo = k.todo /\ r.res = k.res
                /\ k.pc = "gcend"
             \/ r.op = "flush" /\ r.pc = "part" /\ r.todo = k.todo \ {k.chunk} /\ r.res # "OK"
             \/ r.op = "upload" /\ r.pc \in {"upinv", "fail"}
      PROVE  CacheInv'
  <2>1. Moves(t) /\ task'[t] = r  BY <1>1, <1>2, <1>5, GotoMoves DEF SameWrite
  <2>2. Booked(task[t])' /\ Kept(task[t])'
    BY <1>1, <1>5, <2>1, WriteKept DEF SameWorld, SameBooks, Cleaning
  <2>3. Gathered(task[t])'
    <3>1. Gathered(k)  BY <1>1 DEF TaskOK
    <3> QED BY <1>5, <2>1, <3>1 DEF SameWrite, Gathered, Writer, Cleaning
  <2>4. NoCacheOK(task[t])'
    <3>1. NoCacheOK(k) /\ policy' = policy  BY <1>1 DEF TaskOK, SameWorld
    <3> QED BY <1>5, <2>1, <3>1 DEF NoCacheOK
  <2>5. PlaceOK(task[t])' /\ DeepOK(task[t])' /\ DeleteOK(task[t])' /\ CollectOK(task[t])'
    BY <1>5, <2>1 DEF PlaceOK, DeepOK, DeleteOK, CollectOK
  <2>6. TaskOK(task[t])'  BY <2>2, <2>3, <2>4, <2>5 DEF TaskOK
  <2> QED BY <1>5, <2>1, <2>6, QuietStep DEF SameWorld, SameBooks, SameWrite, Writer
<1>6. DOMAIN back = Fields /\ SameWrite(k, back) /\ back.todo = k.todo /\ back.res = k.res
  BY <1>2, FieldNames DEF SameWrite
<1> HIDE DEF back
<1>7. CASE k.after = "part" /\ status = "OK"
  <2> DEFINE r == [back EXCEPT !.pc = "part", !.inv = @ \ {k.chunk},
                               !.retried = @ \cup {k.chunk}]
  <2>1. Goto(t, r)  BY <1>7 DEF GCDone, back
  <2>2. /\ SameWrite(k, r) /\ r.op = "flush" /\ r.pc = "part" /\ r.todo = k.todo /\ r.res = k.res
        /\ k.pc = "gcend" /\ Writer(k)
    BY <1>3, <1>6, <1>7, FieldNames DEF SameWrite, Writer
  <2> QED BY <1>5, <2>1, <2>2
<1>8. CASE k.after = "part" /\ status # "OK"
  <2> DEFINE r == [back EXCEPT !.pc = "part", !.todo = @ \ {k.chunk}, !.res = status]
  <2>1. Goto(t, r)  BY <1>8 DEF GCDone, back
  <2>2. /\ SameWrite(k, r) /\ r.op = "flush" /\ r.pc = "part" /\ r.todo = k.todo \ {k.chunk}
        /\ r.res # "OK" /\ Writer(k)
    BY <1>3, <1>6, <1>8, FieldNames DEF SameWrite, Writer
  <2> QED BY <1>5, <2>1, <2>2
<1>9. CASE k.after = "upload" /\ status = "OK"
  <2> DEFINE r == [back EXCEPT !.pc = "upinv", !.retried = {1}]
  <2>1. Goto(t, r)  BY <1>9 DEF GCDone, back
  <2>2. SameWrite(k, r) /\ r.op = "upload" /\ r.pc = "upinv" /\ Writer(k)
    BY <1>3, <1>6, <1>9, FieldNames DEF SameWrite, Writer
  <2> QED BY <1>5, <2>1, <2>2
<1>10. CASE k.after = "upload" /\ status # "OK"
  <2> DEFINE r == [back EXCEPT !.pc = "fail", !.res = status]
  <2>1. Goto(t, r)  BY <1>10 DEF GCDone, back
  <2>2. SameWrite(k, r) /\ r.op = "upload" /\ r.pc = "fail" /\ Writer(k)
    BY <1>3, <1>6, <1>10, FieldNames DEF SameWrite, Writer
  <2> QED BY <1>5, <2>1, <2>2
<1> QED BY <1>3, <1>4, <1>7, <1>8, <1>9, <1>10

\* A deep flush is done: the collector that asked for it goes on.
LEMMA DeepDoneMoves ==
    ASSUME TypeOK, RecordOK, NEW t \in Tasks, TaskOK(task[t]),
           task[t].pc \in {"dfjson", "dfdown", "dfup", "dfdel"},
           NEW status, DeepDone(t, status), UNCHANGED <<policy, wc, vers>>,
           hist.exposed => hist'.exposed, hist'.open = hist.open, hist'.effective = hist.effective
    PROVE  /\ Moves(t) /\ TaskOK(task[t])' /\ task'[t].pc \in {"idle", "gclist2"}
           /\ task[t].op # "delete" /\ task'[t].op # "delete"
           /\ Writer(task'[t]) => Writer(task[t]) /\ task'[t].ver = task[t].ver
<1> DEFINE k == task[t]
<1>1. DOMAIN k = Fields /\ k.gcHit \in BOOLEAN  BY DEF TypeOK
<1>2. PlaceOK(k) /\ k.pc \in Cleaning /\ policy # "nocache"
  BY DEF TaskOK, NoCacheOK, Cleaning
<1>3. CASE k.after = "none"
  <2>1. Moves(t) /\ task'[t].op = "none" /\ task'[t].pc = "idle"
    BY <1>3, FinishMoves DEF DeepDone
  <2> QED BY <1>2, <2>1, LookerOK, CleaningOps DEF Looking, Writer
<1>4. CASE k.after # "none"
  <2> DEFINE r == [k EXCEPT !.pc = "gclist2"]
  <2>1. Goto(t, r)  BY <1>4 DEF DeepDone
  <2>2. /\ SameWrite(k, r) /\ r.pc = "gclist2" /\ r.after = k.after /\ r.todo = k.todo
        /\ r.res = k.res /\ r.chunk = k.chunk
    BY <1>1, FieldNames DEF SameWrite
  <2> HIDE DEF r
  <2>3. Moves(t) /\ task'[t] = r  BY <1>1, <2>1, <2>2, GotoMoves DEF SameWrite
  <2>4. Booked(task[t])' /\ Kept(task[t])'  BY <1>2, <2>2, <2>3, WriteKept DEF Cleaning
  <2>5. DeepOK(task[t])' /\ CollectOK(task[t])'  BY <2>2, <2>3 DEF DeepOK, CollectOK
  <2>6. TaskOK(task[t])'
    <3>1. k.op # "deep"  BY <1>2, <1>4, CleaningOps
    <3> QED BY <1>2, <2>2, <2>3, <2>4, <2>5, <3>1, CleanOK DEF Cleaning
  <2> QED BY <1>2, <2>2, <2>3, <2>6, CleaningOps DEF SameWrite, Writer
<1> QED BY <1>3, <1>4

LEMMA DeepDoneStep ==
    ASSUME CacheInv, NEW t \in Tasks, task[t].pc \in {"dfjson", "dfdown", "dfup", "dfdel"},
           NEW status, DeepDone(t, status), SameWorld
    PROVE  CacheInv'
<1>1. TypeOK /\ RecordOK /\ TaskOK(task[t])  BY DEF CacheInv, TasksOK
<1>2. /\ Moves(t) /\ TaskOK(task[t])'
      /\ task[t].op # "delete" /\ task'[t].op # "delete"
      /\ Writer(task'[t]) => Writer(task[t]) /\ task'[t].ver = task[t].ver
  BY <1>1, DeepDoneMoves DEF SameWorld, SameBooks
<1> QED BY <1>2, QuietStep DEF SameWorld, SameBooks

LEMMA CleanGoto ==
    ASSUME CacheInv, NEW t \in Tasks, task[t].pc \in Cleaning, SameWorld,
           NEW r, Goto(t, r), SameWrite(task[t], r), r.after = task[t].after,
           r.todo = task[t].todo, r.res = task[t].res, r.chunk = task[t].chunk,
           r.pc \in Cleaning,
           task[t].op = "deep" => r.pc \in {"dfjson", "dfdown", "dfup", "dfdel"},
           policy = "nocache" => r.pc \in {"gcts", "gclist"},
           r.pc = "dfdown" => r.root.size \in Nat \ {0},
           r.pc = "dfup" /\ ~hist'.exposed => r.dl = hist'.intent,
           r.pc # "dfdel", r.pc = "gcdel" => r.root = etcd
    PROVE  CacheInv'
<1>1. TypeOK /\ task[t].gcHit \in BOOLEAN  BY DEF CacheInv, TypeOK
<1>2. Moves(t) /\ task'[t] = r  BY <1>1, GotoMoves DEF SameWrite
<1>3. DeepOK(task[t])'  BY <1>2 DEF DeepOK
<1>4. CollectOK(task[t])'  BY <1>2 DEF CollectOK, KeysOn, SameWorld
<1> QED BY <1>2, <1>3, <1>4, CleanStep

LEMMA DeepJsonInv == ASSUME CacheInv, NEW t \in Tasks, DeepJson(t) PROVE CacheInv'
<1> DEFINE k == task[t]
<1>1. TypeOK /\ TaskOK(k) /\ DOMAIN k = Fields  BY DEF CacheInv, TasksOK, TypeOK
<1>2. SameWorld /\ k.pc = "dfjson" /\ policy # "nocache"
  BY <1>1, BooksKept DEF DeepJson, At, TaskOK, NoCacheOK, fixed, stores
<1>3. ASSUME NEW status, DeepDone(t, status) PROVE CacheInv'
  BY <1>2, <1>3, DeepDoneStep
<1>4. CASE /\ etcd # NoRoot
           /\ Goto(t, [k EXCEPT !.pc = "dfdown", !.root = etcd, !.gen = meta[nodeOf[t]].gen])
  <2> DEFINE r == [k EXCEPT !.pc = "dfdown", !.root = etcd, !.gen = meta[nodeOf[t]].gen]
  <2>1. /\ SameWrite(k, r) /\ r.after = k.after /\ r.todo = k.todo /\ r.res = k.res
        /\ r.chunk = k.chunk /\ r.pc = "dfdown" /\ r.root = etcd
    BY <1>1, FieldNames DEF SameWrite
  <2>2. etcd.size \in Nat \ {0}  BY <1>1, <1>4 DEF TypeOK
  <2> HIDE DEF r
  <2> QED BY <1>2, <1>4, <2>1, <2>2, CleanGoto DEF r, Cleaning
<1> QED BY <1>3, <1>4 DEF DeepJson

\* What the deep flush downloads is the object, or else it is exposed.
LEMMA DeepDownLoadInv == ASSUME CacheInv, NEW t \in Tasks, DeepDownLoad(t) PROVE CacheInv'
<1> DEFINE k == task[t]
           m == meta[nodeOf[t]]
           root == IF m.present THEN m.root ELSE etcd
           inWc == IF m.present THEN m.wcached ELSE etcd # NoRoot
           base == IF s3 # None /\ SizeOf[s3] >= k.root.size THEN s3 ELSE None
<1>1. TypeOK /\ TaskOK(k) /\ DOMAIN k = Fields  BY DEF CacheInv, TasksOK, TypeOK
<1>2. /\ k.pc = "dfdown" /\ policy # "nocache" /\ UNCHANGED <<policy, etcd, s3, wc, vers>>
      /\ k.root.size \in Nat \ {0}
  BY <1>1 DEF DeepDownLoad, At, TaskOK, NoCacheOK, DeepOK, fixed, stores
<1>3. ASSUME NEW status, DeepDone(t, status), UNCHANGED hist PROVE CacheInv'
  BY <1>1, <1>2, <1>3, BooksKept, DeepDoneStep
<1>4. ASSUME NEW v, NEW bad \in BOOLEAN, Goto(t, [k EXCEPT !.pc = "dfup", !.dl = v]),
             hist' = [hist EXCEPT !.exposed = @ \/ bad],
             ~hist.exposed /\ ~bad => v = hist.intent
      PROVE  CacheInv'
  <2> DEFINE r == [k EXCEPT !.pc = "dfup", !.dl = v]
  <2>1. /\ SameWrite(k, r) /\ r.after = k.after /\ r.todo = k.todo /\ r.res = k.res
        /\ r.chunk = k.chunk /\ r.pc = "dfup" /\ r.dl = v
    BY <1>1, FieldNames DEF SameWrite
  <2>2. SameWorld /\ (hist'.exposed <=> hist.exposed \/ bad)
    BY <1>1, <1>2, <1>4, BooksExposed
  <2>3. ~hist'.exposed => v = hist'.intent  BY <1>4, <2>2 DEF SameWorld, SameBooks
  <2> HIDE DEF r
  <2> QED BY <1>2, <1>4, <2>1, <2>2, <2>3, CleanGoto DEF r, Cleaning
<1>5. Durable /\ hist.intent \in 0 .. MaxVer  BY <1>1 DEF CacheInv, TypeOK, Histories
\* A record that is not there has no first chunk to read.
<1>6. ASSUME ~hist.exposed, ~MetaStale(nodeOf[t]), inWc, NEW o \in WriteCacheGet(root, 1), o[1] = "OK"
      PROVE  root.ver = hist.intent
  <2>1. root = etcd  BY <1>6 DEF MetaStale
  <2>2. etcd # NoRoot
    <3>1. SUFFICES ASSUME etcd = NoRoot PROVE FALSE  OBVIOUS
    <3>2. root.size = 0  BY <2>1, <3>1 DEF NoRoot
    <3>3. o = <<"wild", None>>
      <4>1. PICK i \in 1 .. R : o = WriteCacheGetAt(root, 1, i)  BY <1>6 DEF WriteCacheGet
      <4>2. 1 > root.size  BY <3>2
      <4> HIDE DEF root
      <4>3. WriteCacheGetAt(root, 1, i) = <<"wild", None>>  BY ONLY <4>2 DEF WriteCacheGetAt
      <4> QED BY ONLY <4>1, <4>3
    <3> QED BY <1>6, <3>3
  <2> QED BY <1>5, <1>6, <2>1, <2>2 DEF Durable, Current, Broken
<1>7. ASSUME NEW v, NEW bad \in BOOLEAN, ~hist.exposed /\ ~bad => v = hist.intent,
             IF v = None THEN DeepDone(t, "failed") /\ UNCHANGED hist
             ELSE /\ Goto(t, [k EXCEPT !.pc = "dfup", !.dl = v])
                  /\ hist' = [hist EXCEPT !.exposed = @ \/ bad]
      PROVE  CacheInv'
  BY <1>3, <1>4, <1>7
<1>8. CASE inWc /\ ~(m.present /\ (~m.existed \/ k.root.size > m.size))
  <2>1. PICK f \in [1 .. k.root.size -> UNION {WriteCacheGet(root, c) : c \in 1 .. k.root.size}] :
           /\ \A c \in DOMAIN f : f[c] \in WriteCacheGet(root, c)
           /\ IF \A c \in DOMAIN f : f[c][1] = "OK"
              THEN IF f[1][2] = None THEN DeepDone(t, "failed") /\ UNCHANGED hist
                   ELSE /\ Goto(t, [k EXCEPT !.pc = "dfup", !.dl = f[1][2]])
                        /\ hist' = [hist EXCEPT !.exposed =
                              @ \/ (\/ MetaStale(nodeOf[t])
                                    \/ \E c \in DOMAIN f : f[c][2] # root.ver)]
              ELSE IF \E c \in DOMAIN f : f[c][1] = "RPC_FAILED"
              THEN IF base = None THEN DeepDone(t, "failed") /\ UNCHANGED hist
                   ELSE /\ Goto(t, [k EXCEPT !.pc = "dfup", !.dl = base])
                        /\ hist' = [hist EXCEPT !.exposed = @ \/ TRUE]
              ELSE DeepDone(t, "failed") /\ UNCHANGED hist
    BY <1>8, Zenon DEF DeepDownLoad
  <2>2. CASE \A c \in DOMAIN f : f[c][1] = "OK"
    <3> DEFINE bad == MetaStale(nodeOf[t]) \/ \E c \in DOMAIN f : f[c][2] # root.ver
    <3>1. bad \in BOOLEAN  OBVIOUS
    <3>2. 1 \in DOMAIN f  BY <1>2
    <3>3. ~hist.exposed /\ ~bad => f[1][2] = hist.intent
      BY <1>6, <1>8, <2>1, <2>2, <3>2
    <3>4. IF f[1][2] = None THEN DeepDone(t, "failed") /\ UNCHANGED hist
          ELSE /\ Goto(t, [k EXCEPT !.pc = "dfup", !.dl = f[1][2]])
               /\ hist' = [hist EXCEPT !.exposed = @ \/ bad]
      BY <2>1, <2>2
    <3> HIDE DEF bad
    <3> QED BY <1>7, <3>1, <3>3, <3>4
  <2>3. CASE \E c \in DOMAIN f : f[c][1] = "RPC_FAILED"
    <3>1. ~\A c \in DOMAIN f : f[c][1] = "OK"  BY <2>3
    <3> HIDE DEF base
    <3> QED BY <1>7, <2>1, <2>3, <3>1
  <2>4. CASE ~(\A c \in DOMAIN f : f[c][1] = "OK") /\ ~\E c \in DOMAIN f : f[c][1] = "RPC_FAILED"
    BY <1>3, <2>1, <2>4
  <2> QED BY <2>2, <2>3, <2>4
<1>9. CASE ~inWc /\ ~(m.present /\ (~m.existed \/ k.root.size > m.size))
  <2> DEFINE bad == MetaStale(nodeOf[t]) \/ etcd = NoRoot
  <2>1. IF base = None THEN DeepDone(t, "failed") /\ UNCHANGED hist
        ELSE /\ Goto(t, [k EXCEPT !.pc = "dfup", !.dl = base])
             /\ hist' = [hist EXCEPT !.exposed = @ \/ bad]
    BY <1>9, Zenon DEF DeepDownLoad
  <2>2. bad \in BOOLEAN /\ bad  BY <1>9 DEF MetaStale
  <2> HIDE DEF bad, base
  <2> QED BY <1>7, <2>1, <2>2
<1>10. CASE m.present /\ (~m.existed \/ k.root.size > m.size)
  BY <1>3, <1>10 DEF DeepDownLoad
<1> QED BY <1>8, <1>9, <1>10

LEMMA GCListing ==
    ASSUME CacheInv, NEW t \in Tasks, GCQueryTs(t) \/ GCList(t) \/ GCRecheck(t) \/ GCEnd(t)
    PROVE  CacheInv'
<1> DEFINE k == task[t]
<1>1. TypeOK /\ TaskOK(k) /\ PlaceOK(k) /\ NoCacheOK(k) /\ RecordOK /\ DOMAIN k = Fields
  BY DEF CacheInv, TasksOK, TaskOK, TypeOK
<1>2. SameWorld /\ k.pc \in {"gcts", "gclist", "gclist2", "gcend"} /\ k.pc \in Cleaning
  BY <1>1, BooksKept DEF GCQueryTs, GCList, GCRecheck, GCEnd, At, Cleaning, fixed, stores
<1>3. ASSUME NEW status, GCDone(t, status), status # "OK" \/ GCEnd(t) PROVE CacheInv'
  BY <1>2, <1>3, GCDoneStep DEF GCEnd, At
<1>4. ASSUME NEW r, Goto(t, r), SameWrite(k, r), r.after = k.after, r.todo = k.todo,
             r.res = k.res, r.chunk = k.chunk,
             r.pc \in {"gclist", "dfjson", "gcdel"}, r.pc = "gcdel" => r.root = etcd,
             policy = "nocache" => r.pc = "gclist"
      PROVE  CacheInv'
  <2>1. k.op # "deep"  BY <1>1, <1>2, CleaningOps
  <2> QED BY <1>2, <1>4, <2>1, CleanGoto DEF Cleaning
<1>5. CASE GCQueryTs(t)
  <2>1. CASE GCDone(t, "RPC_FAILED")  BY <1>3, <2>1
  <2>2. CASE Goto(t, [k EXCEPT !.pc = "gclist", !.ts = [s \in Servers |-> QueryTs(s)]])
    <3> DEFINE r == [k EXCEPT !.pc = "gclist", !.ts = [s \in Servers |-> QueryTs(s)]]
    <3>1. /\ SameWrite(k, r) /\ r.after = k.after /\ r.todo = k.todo /\ r.res = k.res
          /\ r.chunk = k.chunk /\ r.pc = "gclist"
      BY <1>1, FieldNames DEF SameWrite
    <3>2. Goto(t, r)  BY <2>2
    <3> QED BY <1>4, <3>1, <3>2
  <2> QED BY <1>5, <2>1, <2>2 DEF GCQueryTs
<1>6. CASE GCList(t)
  <2>1. CASE GCDone(t, "notfound")  BY <1>3, <2>1
  <2>2. CASE etcd # NoRoot /\ Goto(t, [k EXCEPT !.pc = "dfjson"])
    <3>1. policy # "nocache"  BY <1>1, <2>2 DEF RecordOK
    <3> DEFINE r == [k EXCEPT !.pc = "dfjson"]
    <3>2. /\ SameWrite(k, r) /\ r.after = k.after /\ r.todo = k.todo /\ r.res = k.res
          /\ r.chunk = k.chunk /\ r.pc = "dfjson"
      BY <1>1, FieldNames DEF SameWrite
    <3>3. Goto(t, r)  BY <2>2
    <3> QED BY <1>4, <3>1, <3>2, <3>3
  <2> QED BY <1>6, <2>1, <2>2 DEF GCList
<1>7. CASE GCRecheck(t)
  <2>1. policy # "nocache"  BY <1>1, <1>7 DEF GCRecheck, At, NoCacheOK
  <2>2. CASE GCDone(t, "METADATA_ERROR")  BY <1>3, <2>2
  <2>3. CASE Goto(t, [k EXCEPT !.pc = "gcdel", !.root = etcd])
    BY <1>1, <1>4, <2>1, <2>3, FieldNames DEF SameWrite
  <2> QED BY <1>7, <2>2, <2>3 DEF GCRecheck
<1>8. CASE GCEnd(t)  BY <1>3, <1>8 DEF GCEnd
<1> QED BY <1>5, <1>6, <1>7, <1>8

\* A call begins with a task that has none.
LEMMA Starts ==
    ASSUME TypeOK, NEW t \in Tasks, TaskOK(task[t]), NEW op, Start(t, op)
    PROVE  task[t].op \in {"none", "read", "head"} /\ task[t].op # "delete" /\ ~Writer(task[t])
BY LookingOps DEF TaskOK, Start, Looking, Writer

LEMMA CleanStarts == ASSUME CacheInv, NEW t \in Tasks, StartDeepFlush(t) \/ StartGC(t) PROVE CacheInv'
<1>1. TypeOK /\ TaskOK(task[t])  BY DEF CacheInv, TasksOK
<1>2. SameWorld  BY <1>1, BooksKept DEF StartDeepFlush, StartGC, fixed, stores
<1>3. task[t].op # "delete"  BY <1>1, Starts DEF StartDeepFlush, StartGC
<1>4. PICK r : /\ Goto(t, r) /\ DOMAIN r = Fields /\ r.gcHit = FALSE
               /\ \/ r.op = "deep" /\ r.pc = "dfjson" /\ r.after = "none" /\ policy # "nocache"
                  \/ r.op = "gc" /\ r.pc = "gcts" /\ r.after = "gc"
  <2>1. CASE StartDeepFlush(t)
    <3> DEFINE r == [Idle EXCEPT !.op = "deep", !.pc = "dfjson"]
    <3>1. Goto(t, r) /\ policy # "nocache"  BY <2>1 DEF StartDeepFlush
    <3>2. DOMAIN r = Fields /\ r.gcHit = FALSE /\ r.op = "deep" /\ r.pc = "dfjson" /\ r.after = "none"
      BY FieldNames DEF Idle
    <3> QED BY <3>1, <3>2
  <2>2. CASE StartGC(t)
    <3> DEFINE r == [Idle EXCEPT !.op = "gc", !.pc = "gcts", !.after = "gc"]
    <3>1. Goto(t, r)  BY <2>2 DEF StartGC
    <3>2. DOMAIN r = Fields /\ r.gcHit = FALSE /\ r.op = "gc" /\ r.pc = "gcts" /\ r.after = "gc"
      BY FieldNames DEF Idle
    <3> QED BY <3>1, <3>2
  <2> QED BY <2>1, <2>2
<1>5. Moves(t) /\ task'[t] = r  BY <1>1, <1>4, GotoMoves
<1>6. TaskOK(task[t])'
  BY <1>2, <1>4, <1>5 DEF TaskOK, PlaceOK, Booked, Gathered, Kept, NoCacheOK, DeepOK, DeleteOK,
     CollectOK, Cleaning, Writer, SameWorld
<1> QED BY <1>2, <1>3, <1>4, <1>5, <1>6, QuietStep DEF SameWorld, SameBooks, Writer

------------------------------------------------------------------------------
(***************************************************************************)
(* Steps that change a store or the books                                  *)
(***************************************************************************)
\* What Durable says of an object that is not exposed.
LEMMA Object ==
    ASSUME TypeOK, Durable, ~hist.exposed
    PROVE  IF etcd = NoRoot THEN s3 = hist.intent ELSE Intact(etcd) /\ etcd.ver = hist.intent
<1>1. hist.intent \in Nat  BY Constants DEF TypeOK, Histories
<1> QED BY <1>1 DEF Durable, Current, Broken

\* The chunks of the record stay where they are while the servers keep what they have.
LEMMA IntactKept ==
    ASSUME TypeOK, Durable, ~hist.exposed, etcd' = etcd, hist'.intent = hist.intent,
           etcd = NoRoot => s3' = s3,
           etcd # NoRoot =>
               \A s \in Servers : \A ik \in KeysOn(etcd, s) :
                  ik \in DOMAIN wc[s] => ik \in DOMAIN wc'[s] /\ wc'[s][ik] = wc[s][ik]
    PROVE  Durable'
<1>1. CASE etcd = NoRoot  BY <1>1, Object DEF Durable, Current
<1>2. CASE etcd # NoRoot
  <2>1. Intact(etcd) /\ etcd.ver = hist.intent  BY <1>2, Object
  <2>2. Intact(etcd)'  BY <1>2, <2>1 DEF Intact, KeysOn
  <2> QED BY <1>2, <2>1, <2>2 DEF Durable, Current
<1> QED BY <1>1, <1>2

\* What a step of one task must keep for the others.
KeepsOthers(t) ==
    \A u \in Tasks \ {t} :
        /\ Writer(task[u]) =>
              /\ task[u].ver \in hist.open => task[u].ver \in hist'.open
              /\ task[u].ver \in hist.effective => task[u].ver \in hist'.effective
        /\ ~hist'.exposed =>
              /\ \A s \in Servers : \A ik \in DOMAIN wc[s] :
                    ik \in DOMAIN wc'[s] /\ wc'[s][ik] = wc[s][ik]
              /\ task[u].pc = "dfup" => hist'.intent = hist.intent
              /\ task[u].pc = "dfdel" /\ s3 = hist.intent => s3' = hist'.intent
              /\ task[u].pc \in {"delinv", "deljson"} => s3' \in {s3, None}
              /\ task[u].pc = "gcdel" =>
                    \A s \in Servers : \A ik \in KeysOn(etcd', s) :
                        ik \in KeysOn(etcd, s) \/ ~(ik[2] < task[u].ts[s])

\* The books after the step: the write of the task is the one it had, or a new one.
Accounts(t) ==
    /\ hist'.open \cup hist'.effective \cup hist'.acked \subseteq 1 .. vers'
    /\ hist'.open \cap hist'.effective = {} /\ hist'.open \cap hist'.acked = {}
    /\ hist'.effective \cap hist'.acked = {}
    /\ Writer(task'[t]) => \/ Writer(task[t]) /\ task'[t].ver = task[t].ver
                           \/ task'[t].ver \notin 1 .. vers
    /\ task[t].op = "delete" /\ task'[t].op # "delete" => hist'.removing = hist.removing - 1
    /\ task[t].op # "delete" /\ task'[t].op = "delete" => hist'.removing = hist.removing + 1
    /\ (task[t].op = "delete" <=> task'[t].op = "delete") => hist'.removing = hist.removing

LEMMA AccountStep ==
    ASSUME TasksOK, AccountOK, NEW t \in Tasks, Moves(t), Accounts(t)
    PROVE  AccountOK'
<1>1. hist'.removing = Cardinality(Removers')  BY RemoversStep DEF AccountOK, Accounts
<1>2. ASSUME NEW u \in Tasks, NEW w \in Tasks, u # w, Writer(task'[u]), Writer(task'[w])
      PROVE  task'[u].ver # task'[w].ver
  <2>1. ASSUME NEW x \in Tasks \ {t}, Writer(task'[x]), Writer(task'[t])
        PROVE  task'[x].ver # task'[t].ver
    <3>1. task'[x] = task[x] /\ task[x].ver \in 1 .. vers
      BY <2>1 DEF Moves, TasksOK, TaskOK, Booked
    <3> QED BY <2>1, <3>1 DEF Accounts, AccountOK
  <2>2. CASE u = t \/ w = t  BY <1>2, <2>1, <2>2
  <2>3. CASE u # t /\ w # t  BY <1>2, <2>3 DEF Moves, AccountOK
  <2> QED BY <2>2, <2>3
<1> QED BY <1>1, <1>2 DEF AccountOK, Accounts, Writer

LEMMA BigStep ==
    ASSUME CacheInv, NEW t \in Tasks, Moves(t), policy' = policy,
           hist' \in Histories, hist.exposed => hist'.exposed, vers' \in 0 .. MaxVer, vers <= vers',
           etcd' # NoRoot => etcd'.size \in Nat \ {0} /\ policy # "nocache",
           TaskOK(task[t])', KeepsOthers(t), Accounts(t), Durable'
    PROVE  CacheInv'
<1>1. TypeOK /\ TasksOK /\ AccountOK  BY DEF CacheInv
<1>2. TypeOK'
  <2>1. \A u \in Tasks : DOMAIN task'[u] = Fields /\ task'[u].gcHit \in BOOLEAN
    BY <1>1 DEF TypeOK, Moves
  <2> QED BY <2>1 DEF TypeOK, Moves
<1>3. ASSUME NEW u \in Tasks \ {t} PROVE TaskOK(task[u])'
  <2>1. TaskOK(task[u]) /\ task'[u] = task[u]  BY <1>1 DEF TasksOK, Moves
  <2> QED BY <1>1, <1>2, <2>1, OthersOK DEF KeepsOthers
<1>4. TasksOK'  BY <1>3 DEF TasksOK
<1>5. AccountOK'  BY <1>1, AccountStep
<1> QED BY <1>2, <1>4, <1>5 DEF CacheInv, RecordOK

\* The others have writes of their own.
LEMMA OtherWrites ==
    ASSUME CacheInv, NEW t \in Tasks, Writer(task[t]), NEW u \in Tasks \ {t}, Writer(task[u])
    PROVE  task[u].ver # task[t].ver
BY DEF CacheInv, AccountOK

------------------------------------------------------------------------------
(***************************************************************************)
(* Writing                                                                 *)
(***************************************************************************)
LEMMA WriterPlaces ==
    ASSUME NEW k, PlaceOK(k), k.pc \in {"part", "upinv", "upput", "json", "upmeta", "fail"}
    PROVE  /\ Writer(k) /\ k.op # "delete"
           /\ k.pc = "part" => k.op = "flush"
           /\ k.pc \in {"upinv", "upput", "upmeta", "fail"} => k.op = "upload"
BY DEF PlaceOK, Writer, Cleaning, Looking

LEMMA WriterFacts ==
    ASSUME CacheInv, NEW t \in Tasks,
           task[t].pc \in {"part", "upinv", "upput", "json", "upmeta", "fail"}
    PROVE  /\ TypeOK /\ hist \in Histories /\ TaskOK(task[t]) /\ Durable /\ TasksOK /\ AccountOK
           /\ DOMAIN task[t] = Fields /\ task[t].gcHit \in BOOLEAN
           /\ Writer(task[t]) /\ task[t].op # "delete" /\ task[t].ver \in 1 .. vers
           /\ 1 .. vers \subseteq 1 .. MaxVer /\ vers \in 0 .. MaxVer
           /\ SizeOf[task[t].ver] \in Nat \ {0}
           /\ etcd # NoRoot => etcd.size \in Nat \ {0} /\ policy # "nocache"
<1>1. TypeOK /\ TasksOK /\ RecordOK /\ AccountOK /\ Durable  BY DEF CacheInv
<1>2. TaskOK(task[t]) /\ hist \in Histories  BY <1>1 DEF TasksOK, TypeOK
<1>3. vers \in 0 .. MaxVer /\ 1 .. vers \subseteq 1 .. MaxVer  BY <1>1, Constants DEF TypeOK
<1>4. Writer(task[t]) /\ task[t].op # "delete"  BY <1>2, WriterPlaces DEF TaskOK
<1>5. task[t].ver \in 1 .. vers  BY <1>2, <1>4 DEF TaskOK, Booked
<1>6. SizeOf[task[t].ver] \in Nat \ {0}  BY <1>3, <1>5, Constants
<1> QED BY <1>1, <1>2, <1>3, <1>4, <1>5, <1>6 DEF TypeOK, RecordOK

\* A step of a writer that changes nothing outside but hist.rcStale.
LEMMA InvalidateBooks ==
    ASSUME TypeOK, NEW top, Invalidate(top), UNCHANGED <<policy, etcd, s3, wc, vers>>
    PROVE  SameWorld /\ hist'.exposed = hist.exposed
<1>1. hist \in Histories  BY DEF TypeOK
<1> QED BY <1>1 DEF Invalidate, SameWorld, SameBooks, Histories

LEMMA StartFlushInv == ASSUME CacheInv, NEW t \in Tasks, StartFlush(t) PROVE CacheInv'
<1> DEFINE v == vers + 1
           r == [Idle EXCEPT !.op = "flush", !.pc = "part", !.ver = v, !.todo = 1 .. SizeOf[v],
                             !.path = [c \in 1 .. SizeOf[v] |-> <<>>]]
<1>1. TypeOK /\ TasksOK /\ RecordOK /\ AccountOK /\ Durable /\ TaskOK(task[t])
  BY DEF CacheInv, TasksOK
<1>2. hist \in Histories /\ vers \in 0 .. MaxVer /\ vers < MaxVer /\ v \in 1 .. MaxVer
      /\ 1 .. v = (1 .. vers) \cup {v} /\ v \notin 1 .. vers
  BY <1>1, Constants DEF TypeOK, StartFlush
<1>3. /\ UNCHANGED <<policy, etcd, s3, wc>> /\ vers' = v
      /\ hist' = [hist EXCEPT !.open = @ \cup {v}] /\ Goto(t, r)
  BY DEF StartFlush, fixed, stores
<1>4. /\ DOMAIN r = Fields /\ r.gcHit = FALSE /\ r.op = "flush" /\ r.pc = "part" /\ r.ver = v
      /\ r.todo = 1 .. SizeOf[v] /\ r.path = [c \in 1 .. SizeOf[v] |-> <<>>]
  BY FieldNames DEF Idle
<1> HIDE DEF r
<1>5. Moves(t) /\ task'[t] = r  BY <1>1, <1>3, <1>4, GotoMoves
<1>6. /\ hist' \in Histories /\ hist'.exposed = hist.exposed /\ hist'.intent = hist.intent
      /\ hist'.open = hist.open \cup {v} /\ hist'.effective = hist.effective
      /\ hist'.acked = hist.acked /\ hist'.removing = hist.removing
  BY <1>2, <1>3 DEF Histories
<1>7. TaskOK(task[t])'
  <2>1. DOMAIN <<>> = {}  OBVIOUS
  <2> QED BY <1>2, <1>3, <1>4, <1>5, <1>6, <2>1
          DEF TaskOK, PlaceOK, Booked, Gathered, Kept, NoCacheOK, DeepOK, DeleteOK, CollectOK,
              Cleaning, Writer
<1>8. KeepsOthers(t)  BY <1>3, <1>6 DEF KeepsOthers, KeysOn
<1>9. Accounts(t)
  <2>1. task[t].op # "delete"  BY <1>1, Starts DEF StartFlush
  <2> QED BY <1>1, <1>2, <1>3, <1>4, <1>5, <1>6, <2>1 DEF Accounts, AccountOK
<1>10. Durable'
  <2>1. ~hist.exposed => Durable'  BY <1>1, <1>3, <1>6, IntactKept
  <2> QED BY <1>6, <2>1 DEF Durable
<1>11. vers' \in 0 .. MaxVer /\ vers <= vers'  BY <1>2, <1>3, Constants
<1>12. etcd' # NoRoot => etcd'.size \in Nat \ {0} /\ policy # "nocache"
  BY <1>1, <1>3 DEF TypeOK, RecordOK
<1>13. policy' = policy /\ (hist.exposed => hist'.exposed)  BY <1>3, <1>6
<1> QED BY <1>5, <1>6, <1>7, <1>8, <1>9, <1>10, <1>11, <1>12, <1>13, BigStep

LEMMA StartUploadInv == ASSUME CacheInv, NEW t \in Tasks, StartUpload(t) PROVE CacheInv'
<1> DEFINE v == vers + 1
           r == [Idle EXCEPT !.op = "upload", !.pc = "upinv", !.ver = v,
                             !.gen = meta[nodeOf[t]].gen]
<1>1. TypeOK /\ TasksOK /\ RecordOK /\ AccountOK /\ Durable /\ TaskOK(task[t])
  BY DEF CacheInv, TasksOK
<1>2. hist \in Histories /\ vers \in 0 .. MaxVer /\ vers < MaxVer /\ v \in 1 .. MaxVer
      /\ 1 .. v = (1 .. vers) \cup {v} /\ v \notin 1 .. vers
  BY <1>1, Constants DEF TypeOK, StartUpload
<1>3. /\ UNCHANGED <<policy, etcd, s3, wc>> /\ vers' = v
      /\ hist' = [hist EXCEPT !.open = @ \cup {v}] /\ Goto(t, r)
  BY DEF StartUpload, fixed, stores
<1>4. /\ DOMAIN r = Fields /\ r.gcHit = FALSE /\ r.op = "upload" /\ r.pc = "upinv" /\ r.ver = v
      /\ r.path = <<>>
  BY FieldNames DEF Idle
<1> HIDE DEF r
<1>5. Moves(t) /\ task'[t] = r  BY <1>1, <1>3, <1>4, GotoMoves
<1>6. /\ hist' \in Histories /\ hist'.exposed = hist.exposed /\ hist'.intent = hist.intent
      /\ hist'.open = hist.open \cup {v} /\ hist'.effective = hist.effective
      /\ hist'.acked = hist.acked /\ hist'.removing = hist.removing
  BY <1>2, <1>3 DEF Histories
<1>7. TaskOK(task[t])'
  <2>1. DOMAIN <<>> = {}  OBVIOUS
  <2> QED BY <1>2, <1>3, <1>4, <1>5, <1>6, <2>1
          DEF TaskOK, PlaceOK, Booked, Gathered, Kept, NoCacheOK, DeepOK, DeleteOK, CollectOK,
              Cleaning, Writer
<1>8. KeepsOthers(t)  BY <1>3, <1>6 DEF KeepsOthers, KeysOn
<1>9. Accounts(t)
  <2>1. task[t].op # "delete"  BY <1>1, Starts DEF StartUpload
  <2> QED BY <1>1, <1>2, <1>3, <1>4, <1>5, <1>6, <2>1 DEF Accounts, AccountOK
<1>10. Durable'
  <2>1. ~hist.exposed => Durable'  BY <1>1, <1>3, <1>6, IntactKept
  <2> QED BY <1>6, <2>1 DEF Durable
<1>11. vers' \in 0 .. MaxVer /\ vers <= vers'  BY <1>2, <1>3, Constants
<1>12. etcd' # NoRoot => etcd'.size \in Nat \ {0} /\ policy # "nocache"
  BY <1>1, <1>3 DEF TypeOK, RecordOK
<1>13. policy' = policy /\ (hist.exposed => hist'.exposed)  BY <1>3, <1>6
<1> QED BY <1>5, <1>6, <1>7, <1>8, <1>9, <1>10, <1>11, <1>12, <1>13, BigStep

LEMMA InvalidateInv ==
    ASSUME CacheInv, NEW t \in Tasks,
           UpInvalidate(t) \/ \E c \in task[t].todo : PartInvalidate(t, c)
    PROVE  CacheInv'
<1> DEFINE k == task[t]
<1>1. k.pc \in {"upinv", "part"}  BY DEF UpInvalidate, PartInvalidate, At
<1>2. TypeOK /\ TaskOK(k) /\ Writer(k) /\ DOMAIN k = Fields /\ k.gcHit \in BOOLEAN
      /\ k.op # "delete"
  BY <1>1, WriterFacts
<1>3. UNCHANGED <<policy, etcd, s3, wc, vers>>
  BY DEF UpInvalidate, PartInvalidate, fixed
<1>4. PICK top : Invalidate(top)  BY DEF UpInvalidate, PartInvalidate
<1>5. SameWorld /\ hist'.exposed = hist.exposed  BY <1>2, <1>3, <1>4, InvalidateBooks
<1>6. PICK r : /\ Goto(t, r) /\ SameWrite(k, r) /\ r.todo = k.todo /\ r.res = k.res
               /\ r.chunk = k.chunk
               /\ \/ k.pc = "upinv" /\ r.pc = "upput"
                  \/ k.pc = "part" /\ r.pc = "part"
  <2>1. CASE UpInvalidate(t)
    <3> DEFINE r == [k EXCEPT !.pc = "upput"]
    <3>1. Goto(t, r) /\ k.pc = "upinv"  BY <2>1 DEF UpInvalidate, At
    <3>2. /\ SameWrite(k, r) /\ r.todo = k.todo /\ r.res = k.res /\ r.chunk = k.chunk
          /\ r.pc = "upput"
      BY <1>2, FieldNames DEF SameWrite
    <3> HIDE DEF r
    <3> QED BY <3>1, <3>2
  <2>2. CASE \E c \in k.todo : PartInvalidate(t, c)
    <3> PICK c \in k.todo : PartInvalidate(t, c)  BY <2>2
    <3> DEFINE r == [k EXCEPT !.inv = @ \cup {c}]
    <3>1. Goto(t, r) /\ k.pc = "part"  BY DEF PartInvalidate, At
    <3>2. /\ SameWrite(k, r) /\ r.todo = k.todo /\ r.res = k.res /\ r.chunk = k.chunk
          /\ r.pc = k.pc
      BY <1>2, FieldNames DEF SameWrite
    <3> HIDE DEF r
    <3> QED BY <3>1, <3>2
  <2> QED BY <2>1, <2>2
<1>7. Moves(t) /\ task'[t] = r  BY <1>2, <1>6, GotoMoves DEF SameWrite
<1>8. Booked(task[t])' /\ Kept(task[t])'
  BY <1>2, <1>5, <1>6, <1>7, WriteKept DEF SameWorld, SameBooks
<1>9. Gathered(task[t])' /\ NoCacheOK(task[t])' /\ PlaceOK(task[t])'
  <2>1. Gathered(k) /\ NoCacheOK(k) /\ PlaceOK(k)  BY <1>2 DEF TaskOK
  <2>2. policy' = policy  BY <1>3
  <2>3. Gathered(task[t])'
    BY <1>6, <1>7, <2>1 DEF Gathered, SameWrite, Writer, Cleaning
  <2>4. NoCacheOK(task[t])'  BY <1>6, <1>7, <2>1, <2>2 DEF NoCacheOK, SameWrite
  <2>5. PlaceOK(task[t])'
    BY <1>2, <1>6, <1>7, WriterPlaces DEF PlaceOK, SameWrite, TaskOK
  <2> QED BY <2>3, <2>4, <2>5
<1>10. DeepOK(task[t])' /\ DeleteOK(task[t])' /\ CollectOK(task[t])'
  BY <1>6, <1>7 DEF DeepOK, DeleteOK, CollectOK
<1>11. TaskOK(task[t])'  BY <1>8, <1>9, <1>10 DEF TaskOK
<1> QED BY <1>2, <1>5, <1>6, <1>7, <1>11, QuietStep DEF SameWorld, SameBooks, SameWrite, Writer

\* A Put, or none, in the books.
Puts(C, v) == PutChunks(C, v) \/ UNCHANGED <<wc, nextId, hist>>

LEMMA PutBooks ==
    ASSUME TypeOK, NEW C, NEW v, Puts(C, v)
    PROVE  /\ SameBooks
           /\ ~hist'.exposed => \A s \in Servers : \A ik \in DOMAIN wc[s] :
                                   ik \in DOMAIN wc'[s] /\ wc'[s][ik] = wc[s][ik]
<1>1. hist \in Histories /\ hist.exposed \in BOOLEAN /\ "exposed" \in DOMAIN hist
  BY DEF TypeOK, Histories
<1>2. CASE PutChunks(C, v)
  <2>1. SameBooks  BY <1>1, <1>2 DEF PutChunks, SameBooks, Histories
  <2> QED BY <1>1, <1>2, <2>1, PutKeeps
<1>3. CASE UNCHANGED <<wc, nextId, hist>>  BY <1>1, <1>3 DEF SameBooks
<1> QED BY <1>2, <1>3 DEF Puts

LEMMA PutStep ==
    ASSUME CacheInv, NEW t \in Tasks, task[t].pc \in {"part", "upput"}, Moves(t),
           NEW C, NEW v, Puts(C, v), UNCHANGED <<policy, etcd, s3, vers>>,
           task'[t].op = task[t].op, task'[t].ver = task[t].ver, TaskOK(task[t])'
    PROVE  CacheInv'
<1> DEFINE k == task[t]
<1>1. /\ TypeOK /\ TaskOK(k) /\ Writer(k) /\ k.op # "delete" /\ Durable /\ AccountOK
      /\ vers \in 0 .. MaxVer
      /\ etcd # NoRoot => etcd.size \in Nat \ {0} /\ policy # "nocache"
  BY WriterFacts
<1>2. /\ SameBooks
      /\ ~hist'.exposed => \A s \in Servers : \A ik \in DOMAIN wc[s] :
                              ik \in DOMAIN wc'[s] /\ wc'[s][ik] = wc[s][ik]
  BY <1>1, PutBooks
<1>3. KeepsOthers(t)  BY <1>2 DEF KeepsOthers, SameBooks, KeysOn
<1>4. Accounts(t)  BY <1>1, <1>2 DEF Accounts, AccountOK, SameBooks, Writer
<1>5. Durable'
  <2>1. ~hist'.exposed => Durable'  BY <1>1, <1>2, IntactKept DEF SameBooks
  <2> QED BY <2>1 DEF Durable
<1>6. vers' \in 0 .. MaxVer /\ vers <= vers'  BY <1>1, Constants
<1> QED BY <1>1, <1>2, <1>3, <1>4, <1>5, <1>6, BigStep DEF SameBooks

\* The chunks put before are still where they were.
LEMMA PathKept ==
    ASSUME NEW k, Kept(k), Writer(k), Gathered(k), ~k.gcHit, hist.exposed => hist'.exposed,
           ~hist'.exposed,
           \A s \in Servers : \A ik \in DOMAIN wc[s] :
              ik \in DOMAIN wc'[s] /\ wc'[s][ik] = wc[s][ik],
           NEW c \in DOMAIN k.path, NEW i \in DOMAIN k.path[c]
    PROVE  /\ k.path[c][i] \in DOMAIN wc'[GetReplica[i]]
           /\ wc'[GetReplica[i]][k.path[c][i]] = k.ver
<1>1. i \in 1 .. R  BY DEF Gathered
<1>2. GetReplica[i] \in Servers  BY <1>1, Constants
<1>3. k.path[c][i] \in DOMAIN wc[GetReplica[i]] /\ wc[GetReplica[i]][k.path[c][i]] = k.ver
  BY DEF Kept
<1> QED BY <1>2, <1>3

LEMMA PartPutInv == ASSUME CacheInv, NEW t \in Tasks, NEW c, PartPut(t, c) PROVE CacheInv'
<1> DEFINE k == task[t]
           st == IF policy = "replication" THEN PutStatus({c}) ELSE "UNSUPPORTED_TYPE"
<1>1. k.pc = "part" /\ c \in k.todo /\ UNCHANGED <<policy, etcd, s3, vers>>
  BY DEF PartPut, At, fixed
<1>2. /\ TypeOK /\ TaskOK(k) /\ Writer(k) /\ DOMAIN k = Fields /\ k.gcHit \in BOOLEAN
      /\ SizeOf[k.ver] \in Nat \ {0}
  BY <1>1, WriterFacts
<1>3. k.op = "flush" /\ Booked(k) /\ Gathered(k) /\ Kept(k) /\ NoCacheOK(k)
  BY <1>1, <1>2, WriterPlaces DEF TaskOK
<1>4. Puts({c}, k.ver)  BY DEF PartPut, Puts
<1>5. /\ SameBooks
      /\ ~hist'.exposed => \A s \in Servers : \A ik \in DOMAIN wc[s] :
                              ik \in DOMAIN wc'[s] /\ wc'[s][ik] = wc[s][ik]
  BY <1>2, <1>4, PutBooks
<1>6. \/ st = "OK" /\ Goto(t, [k EXCEPT !.todo = @ \ {c}, !.path[c] = PathOf(c)])
      \/ Goto(t, [k EXCEPT !.todo = @ \ {c}, !.res = "RPC_FAILED"])
      \/ st = "NO_ENOUGH_DISKSPACE" /\ Goto(t, [k EXCEPT !.pc = "gcts", !.after = "part", !.chunk = c])
      \/ st # "OK" /\ Goto(t, [k EXCEPT !.todo = @ \ {c}, !.res = st])
  BY DEF PartPut
\* The part is not in, or the collector is called.
<1>7. ASSUME NEW r, Goto(t, r), SameWrite(k, r),
             \/ r.pc = "part" /\ r.todo = k.todo \ {c} /\ r.res # "OK"
             \/ /\ r.pc = "gcts" /\ r.after = "part" /\ r.todo = k.todo /\ r.res = k.res
                /\ r.chunk = c
      PROVE  CacheInv'
  <2>1. Moves(t) /\ task'[t] = r  BY <1>2, <1>7, GotoMoves DEF SameWrite
  <2>2. Booked(task[t])'
    BY <1>1, <1>3, <1>5, <1>7, <2>1 DEF Booked, SameWrite, SameBooks, Writer
  <2>3. Kept(task[t])'
    <3> SUFFICES ASSUME ~k.gcHit, ~hist'.exposed,
                        NEW d \in DOMAIN k.path, NEW i \in DOMAIN k.path[d]
                 PROVE  /\ k.path[d][i] \in DOMAIN wc'[GetReplica[i]]
                        /\ wc'[GetReplica[i]][k.path[d][i]] = k.ver
      BY <1>7, <2>1 DEF Kept, SameWrite
    <3> QED BY <1>2, <1>3, <1>5, PathKept DEF SameBooks
  <2>4. Gathered(task[t])'
    BY <1>1, <1>3, <1>7, <2>1 DEF Gathered, SameWrite, Writer, Cleaning
  <2>5. NoCacheOK(task[t])'
    BY <1>1, <1>3, <1>7, <2>1 DEF NoCacheOK, SameWrite
  <2>6. PlaceOK(task[t])' /\ DeepOK(task[t])' /\ DeleteOK(task[t])' /\ CollectOK(task[t])'
    BY <1>3, <1>7, <2>1 DEF PlaceOK, DeepOK, DeleteOK, CollectOK, SameWrite, Cleaning
  <2>7. TaskOK(task[t])'  BY <2>2, <2>3, <2>4, <2>5, <2>6 DEF TaskOK
  <2> QED BY <1>1, <1>4, <1>7, <2>1, <2>7, PutStep DEF SameWrite
\* The part is in.
<1>8. CASE st = "OK" /\ Goto(t, [k EXCEPT !.todo = @ \ {c}, !.path[c] = PathOf(c)])
  <2> DEFINE r == [k EXCEPT !.todo = @ \ {c}, !.path[c] = PathOf(c)]
  <2>1. Goto(t, r)  BY <1>8
  <2>2. /\ DOMAIN r = Fields /\ r.gcHit = k.gcHit /\ r.op = "flush" /\ r.pc = "part"
        /\ r.ver = k.ver /\ r.res = k.res
        /\ r.todo = k.todo \ {c} /\ r.path = [k.path EXCEPT ![c] = PathOf(c)]
    BY <1>1, <1>2, <1>3, FieldNames
  <2> HIDE DEF r
  <2>3. Moves(t) /\ task'[t] = r  BY <1>2, <2>1, <2>2, GotoMoves
  <2>4. policy = "replication" /\ PutStatus({c}) = "OK"  BY <1>8
  <2>5. PutChunks({c}, k.ver)  BY <2>4 DEF PartPut
  <2>6. /\ c \in DOMAIN k.path /\ DOMAIN r.path = DOMAIN k.path /\ r.path[c] = PathOf(c)
        /\ \A d \in DOMAIN k.path \ {c} : r.path[d] = k.path[d]
        /\ DOMAIN PathOf(c) = 1 .. R
        /\ \A i \in 1 .. R : PathOf(c)[i] \in IdsFor({c}, GetReplica[i])
    BY <1>1, <1>3, <2>2, PathOfPart DEF Gathered, Writer
  <2>7. Booked(task[t])'
    BY <1>1, <1>3, <1>5, <2>2, <2>3 DEF Booked, SameBooks, Writer
  <2>8. Kept(task[t])'
    <3> SUFFICES ASSUME ~k.gcHit, ~hist'.exposed,
                        NEW d \in DOMAIN r.path, NEW i \in DOMAIN r.path[d]
                 PROVE  /\ r.path[d][i] \in DOMAIN wc'[GetReplica[i]]
                        /\ wc'[GetReplica[i]][r.path[d][i]] = k.ver
      BY <2>2, <2>3 DEF Kept
    <3>1. CASE d = c
      <4>1. i \in 1 .. R /\ PutEntry({c}, GetReplica[i]) = "OK"  BY <2>4, <2>6, <3>1, PutStatusOK
      <4>2. r.path[d][i] \in IdsFor({c}, GetReplica[i])  BY <2>6, <3>1, <4>1
      <4> HIDE DEF k
      <4> QED BY <2>5, <4>1, <4>2, PutAdds
    <3>2. CASE d # c
      <4>1. d \in DOMAIN k.path /\ r.path[d] = k.path[d]  BY <2>6, <3>2
      <4> QED BY <1>2, <1>3, <1>5, <4>1, PathKept DEF SameBooks
    <3> QED BY <3>1, <3>2
  <2>9. Gathered(task[t])'
    BY <1>1, <1>3, <2>2, <2>3, <2>6 DEF Gathered, Writer, Cleaning
  <2>10. NoCacheOK(task[t])'  BY <1>1, <2>4 DEF NoCacheOK
  <2>11. PlaceOK(task[t])' /\ DeepOK(task[t])' /\ DeleteOK(task[t])' /\ CollectOK(task[t])'
    BY <2>2, <2>3 DEF PlaceOK, DeepOK, DeleteOK, CollectOK
  <2>12. TaskOK(task[t])'  BY <2>7, <2>8, <2>9, <2>10, <2>11 DEF TaskOK
  <2> QED BY <1>1, <1>3, <1>4, <2>2, <2>3, <2>12, PutStep
<1>9. CASE Goto(t, [k EXCEPT !.todo = @ \ {c}, !.res = "RPC_FAILED"])
  <2> DEFINE r == [k EXCEPT !.todo = @ \ {c}, !.res = "RPC_FAILED"]
  <2>1. SameWrite(k, r) /\ r.pc = "part" /\ r.todo = k.todo \ {c} /\ r.res # "OK"
    BY <1>1, <1>2, FieldNames DEF SameWrite
  <2> QED BY <1>7, <1>9, <2>1
<1>10. CASE st # "OK" /\ Goto(t, [k EXCEPT !.todo = @ \ {c}, !.res = st])
  <2> DEFINE r == [k EXCEPT !.todo = @ \ {c}, !.res = st]
  <2> HIDE DEF st
  <2>1. SameWrite(k, r) /\ r.pc = "part" /\ r.todo = k.todo \ {c} /\ r.res # "OK"
    BY <1>1, <1>2, <1>10, FieldNames DEF SameWrite
  <2> QED BY <1>7, <1>10, <2>1
<1>11. CASE Goto(t, [k EXCEPT !.pc = "gcts", !.after = "part", !.chunk = c])
  <2> DEFINE r == [k EXCEPT !.pc = "gcts", !.after = "part", !.chunk = c]
  <2>1. SameWrite(k, r) /\ r.pc = "gcts" /\ r.after = "part" /\ r.todo = k.todo /\ r.res = k.res
        /\ r.chunk = c
    BY <1>1, <1>2, FieldNames DEF SameWrite
  <2> QED BY <1>7, <1>11, <2>1
<1> QED BY <1>6, <1>8, <1>9, <1>10, <1>11

LEMMA UpPutInv == ASSUME CacheInv, NEW t \in Tasks, UpPut(t) PROVE CacheInv'
<1> DEFINE k == task[t]
           C == 1 .. SizeOf[k.ver]
           st == PutStatus(C)
           path == [c \in C |-> [i \in 1 .. R |->
                       CHOOSE ik \in IdsFor(C, GetReplica[i]) : ik[1] = c]]
<1>1. k.pc = "upput" /\ policy = "replication" /\ UNCHANGED <<policy, etcd, s3, vers>>
      /\ PutChunks(C, k.ver)
  BY DEF UpPut, At, fixed
<1>2. /\ TypeOK /\ TaskOK(k) /\ Writer(k) /\ DOMAIN k = Fields /\ k.gcHit \in BOOLEAN
      /\ SizeOf[k.ver] \in Nat \ {0}
  BY <1>1, WriterFacts
<1>3. k.op = "upload" /\ Booked(k) /\ Gathered(k) /\ Kept(k)
  BY <1>1, <1>2, WriterPlaces DEF TaskOK
<1>4. Puts(C, k.ver)  BY <1>1 DEF Puts
<1>5. /\ SameBooks
      /\ ~hist'.exposed => \A s \in Servers : \A ik \in DOMAIN wc[s] :
                              ik \in DOMAIN wc'[s] /\ wc'[s][ik] = wc[s][ik]
  BY <1>2, <1>4, PutBooks
<1>6. \/ st = "OK" /\ Goto(t, [k EXCEPT !.pc = "json", !.path = path])
      \/ Goto(t, [k EXCEPT !.pc = "gcts", !.after = "upload"])
      \/ Goto(t, [k EXCEPT !.pc = "fail", !.res = st])
  BY DEF UpPut
<1> HIDE DEF path
<1>7. ASSUME NEW r, Goto(t, r), SameWrite(k, r),
             r.pc = "fail" \/ (r.pc = "gcts" /\ r.after = "upload")
      PROVE  CacheInv'
  <2>1. Moves(t) /\ task'[t] = r  BY <1>2, <1>7, GotoMoves DEF SameWrite
  <2>2. Booked(task[t])'
    BY <1>1, <1>3, <1>5, <1>7, <2>1 DEF Booked, SameWrite, SameBooks, Writer
  <2>3. Kept(task[t])'
    <3> SUFFICES ASSUME ~k.gcHit, ~hist'.exposed,
                        NEW d \in DOMAIN k.path, NEW i \in DOMAIN k.path[d]
                 PROVE  /\ k.path[d][i] \in DOMAIN wc'[GetReplica[i]]
                        /\ wc'[GetReplica[i]][k.path[d][i]] = k.ver
      BY <1>7, <2>1 DEF Kept, SameWrite
    <3> QED BY <1>2, <1>3, <1>5, PathKept DEF SameBooks
  <2>4. Gathered(task[t])'  BY <1>3, <1>7, <2>1 DEF Gathered, SameWrite, Writer
  <2>5. NoCacheOK(task[t])'  BY <1>1, <2>1 DEF NoCacheOK
  <2>6. PlaceOK(task[t])' /\ DeepOK(task[t])' /\ DeleteOK(task[t])' /\ CollectOK(task[t])'
    BY <1>3, <1>7, <2>1 DEF PlaceOK, DeepOK, DeleteOK, CollectOK, SameWrite, Cleaning
  <2>7. TaskOK(task[t])'  BY <2>2, <2>3, <2>4, <2>5, <2>6 DEF TaskOK
  <2> QED BY <1>1, <1>4, <1>7, <2>1, <2>7, PutStep DEF SameWrite
<1>8. CASE st = "OK" /\ Goto(t, [k EXCEPT !.pc = "json", !.path = path])
  <2> DEFINE r == [k EXCEPT !.pc = "json", !.path = path]
  <2>1. Goto(t, r)  BY <1>8
  <2>2. /\ DOMAIN r = Fields /\ r.gcHit = k.gcHit /\ r.op = "upload" /\ r.pc = "json"
        /\ r.ver = k.ver /\ r.path = path
    BY <1>1, <1>2, <1>3, FieldNames
  <2> HIDE DEF r
  <2>3. Moves(t) /\ task'[t] = r  BY <1>2, <2>1, <2>2, GotoMoves
  <2>4. /\ DOMAIN path = C /\ \A c \in C : DOMAIN path[c] = 1 .. R
        /\ \A c \in C : \A i \in 1 .. R : path[c][i] \in IdsFor(C, GetReplica[i])
    BY PathOfUpload DEF path
  <2>5. Booked(task[t])'
    BY <1>1, <1>3, <1>5, <2>2, <2>3 DEF Booked, SameBooks, Writer
  <2>6. Kept(task[t])'
    <3> SUFFICES ASSUME NEW c \in C, NEW i \in 1 .. R
                 PROVE  /\ path[c][i] \in DOMAIN wc'[GetReplica[i]]
                        /\ wc'[GetReplica[i]][path[c][i]] = k.ver
      BY <2>2, <2>3, <2>4 DEF Kept
    <3>1. PutEntry(C, GetReplica[i]) = "OK"  BY <1>8, PutStatusOK
    <3>2. path[c][i] \in IdsFor(C, GetReplica[i])  BY <2>4
    <3> HIDE DEF k, C
    <3> QED BY <1>1, <3>1, <3>2, PutAdds
  <2>7. Gathered(task[t])'  BY <2>2, <2>3, <2>4 DEF Gathered, Writer, Whole
  <2>8. NoCacheOK(task[t])'  BY <1>1 DEF NoCacheOK
  <2>9. PlaceOK(task[t])' /\ DeepOK(task[t])' /\ DeleteOK(task[t])' /\ CollectOK(task[t])'
    BY <2>2, <2>3 DEF PlaceOK, DeepOK, DeleteOK, CollectOK
  <2>10. TaskOK(task[t])'  BY <2>5, <2>6, <2>7, <2>8, <2>9 DEF TaskOK
  <2> QED BY <1>1, <1>3, <1>4, <2>2, <2>3, <2>10, PutStep
<1>9. CASE Goto(t, [k EXCEPT !.pc = "gcts", !.after = "upload"])
  <2> DEFINE r == [k EXCEPT !.pc = "gcts", !.after = "upload"]
  <2>1. SameWrite(k, r) /\ r.pc = "gcts" /\ r.after = "upload"
    BY <1>2, FieldNames DEF SameWrite
  <2> QED BY <1>7, <1>9, <2>1
<1>10. CASE Goto(t, [k EXCEPT !.pc = "fail", !.res = st])
  <2> DEFINE r == [k EXCEPT !.pc = "fail", !.res = st]
  <2> HIDE DEF st
  <2>1. SameWrite(k, r) /\ r.pc = "fail"  BY <1>2, FieldNames DEF SameWrite
  <2> QED BY <1>7, <1>10, <2>1
<1> QED BY <1>6, <1>8, <1>9, <1>10

\* Without a write cache the object is in S3 at once.
LEMMA UpBaseInv == ASSUME CacheInv, NEW t \in Tasks, UpBase(t) PROVE CacheInv'
<1> DEFINE k == task[t]
<1>1. k.pc = "upput" /\ policy = "nocache" /\ UNCHANGED <<policy, etcd, wc, vers>>
  BY DEF UpBase, At, fixed
<1>2. /\ TypeOK /\ TaskOK(k) /\ Writer(k) /\ DOMAIN k = Fields /\ k.gcHit \in BOOLEAN
      /\ k.op # "delete" /\ k.ver \in 1 .. vers /\ k.ver \in 1 .. MaxVer /\ AccountOK /\ TasksOK
      /\ hist \in Histories /\ vers \in 0 .. MaxVer /\ Durable
  BY <1>1, WriterFacts
<1>3. /\ k.op = "upload" /\ Booked(k) /\ Gathered(k) /\ Kept(k) /\ k.ver \in hist.open
      /\ etcd = NoRoot
  BY <1>1, <1>2, WriterPlaces DEF TaskOK, Booked, CacheInv, RecordOK
<1>4. ASSUME NEW r, Goto(t, r), SameWrite(k, r),
             \/ /\ r.pc = "upmeta" /\ s3' = k.ver
                /\ hist' = [hist EXCEPT !.intent = k.ver, !.open = @ \ {k.ver},
                                        !.effective = @ \cup {k.ver}]
             \/ r.pc = "fail" /\ s3' = s3 /\ hist' = hist
      PROVE  CacheInv'
  <2>1. Moves(t) /\ task'[t] = r  BY <1>2, <1>4, GotoMoves DEF SameWrite
  <2>2. /\ hist' \in Histories /\ hist'.exposed = hist.exposed
        /\ hist'.acked = hist.acked /\ hist'.removing = hist.removing
        /\ \/ /\ r.pc = "upmeta" /\ s3' = k.ver /\ hist'.intent = k.ver
              /\ hist'.open = hist.open \ {k.ver} /\ hist'.effective = hist.effective \cup {k.ver}
           \/ /\ r.pc = "fail" /\ s3' = s3 /\ hist'.intent = hist.intent
              /\ hist'.open = hist.open /\ hist'.effective = hist.effective
    <3>1. CASE /\ r.pc = "upmeta" /\ s3' = k.ver
               /\ hist' = [hist EXCEPT !.intent = k.ver, !.open = @ \ {k.ver},
                                       !.effective = @ \cup {k.ver}]
      <4> DEFINE v == k.ver
      <4>1. v \in 1 .. MaxVer /\ v \in 0 .. MaxVer  BY <1>2, Constants
      <4>2. hist' = [hist EXCEPT !.intent = v, !.open = @ \ {v}, !.effective = @ \cup {v}]
        BY <3>1
      <4> HIDE DEF v
      <4>3. /\ hist' \in Histories /\ hist'.exposed = hist.exposed
            /\ hist'.acked = hist.acked /\ hist'.removing = hist.removing
            /\ hist'.intent = v /\ hist'.open = hist.open \ {v}
            /\ hist'.effective = hist.effective \cup {v}
        BY <1>2, <4>1, <4>2 DEF Histories
      <4> QED BY <3>1, <4>3 DEF v
    <3>2. CASE r.pc = "fail" /\ s3' = s3 /\ hist' = hist  BY <1>2, <3>2
    <3> QED BY <1>4, <3>1, <3>2
  <2>3. TaskOK(task[t])'
    <3>1. Booked(task[t])'
      BY <1>1, <1>2, <1>3, <1>4, <2>1, <2>2 DEF Booked, SameWrite, Writer
    <3>2. Kept(task[t])'
      BY <1>1, <1>3, <1>4, <2>1, <2>2 DEF Kept, SameWrite, Writer
    <3>3. Gathered(task[t])'  BY <1>1, <1>3, <1>4, <2>1 DEF Gathered, SameWrite, Writer
    <3>4. NoCacheOK(task[t])'  BY <1>3, <1>4, <2>1 DEF NoCacheOK, SameWrite
    <3>5. PlaceOK(task[t])' /\ DeepOK(task[t])' /\ DeleteOK(task[t])' /\ CollectOK(task[t])'
      BY <1>3, <1>4, <2>1 DEF PlaceOK, DeepOK, DeleteOK, CollectOK, SameWrite
    <3> QED BY <3>1, <3>2, <3>3, <3>4, <3>5 DEF TaskOK
  <2>4. KeepsOthers(t)
    <3>1. ASSUME NEW u \in Tasks \ {t}
          PROVE  task[u].pc \notin {"dfup", "dfdel", "delinv", "deljson", "gcdel"}
      BY <1>1, <1>2 DEF TasksOK, TaskOK, NoCacheOK
    <3>2. ASSUME NEW u \in Tasks \ {t}, Writer(task[u]) PROVE task[u].ver # k.ver
      BY <1>2, <3>2, OtherWrites
    <3>3. ASSUME NEW u \in Tasks \ {t}, Writer(task[u])
          PROVE  /\ task[u].ver \in hist.open => task[u].ver \in hist'.open
                 /\ task[u].ver \in hist.effective => task[u].ver \in hist'.effective
      BY <2>2, <3>2, <3>3
    <3> QED BY <1>1, <3>1, <3>3 DEF KeepsOthers
  <2>5. Accounts(t)
    BY <1>1, <1>2, <1>3, <1>4, <2>1, <2>2 DEF Accounts, AccountOK, SameWrite, Writer
  <2>6. Durable'
    <3>1. ~hist.exposed => s3' = hist'.intent  BY <1>2, <1>3, <2>2, Object
    <3> QED BY <1>1, <1>3, <2>2, <3>1 DEF Durable, Current
  <2> QED BY <1>1, <1>2, <1>3, <2>1, <2>2, <2>3, <2>4, <2>5, <2>6, BigStep, Constants
<1>5. CASE /\ s3' = k.ver /\ Goto(t, [k EXCEPT !.pc = "upmeta"])
           /\ hist' = [hist EXCEPT !.intent = k.ver, !.open = @ \ {k.ver},
                                   !.effective = @ \cup {k.ver}]
  <2> DEFINE r == [k EXCEPT !.pc = "upmeta"]
  <2>1. SameWrite(k, r) /\ r.pc = "upmeta"  BY <1>2, FieldNames DEF SameWrite
  <2> QED BY <1>4, <1>5, <2>1
<1>6. CASE s3' = s3 /\ hist' = hist /\ Goto(t, [k EXCEPT !.pc = "fail", !.res = "S3_INTERNAL_ERROR"])
  <2> DEFINE r == [k EXCEPT !.pc = "fail", !.res = "S3_INTERNAL_ERROR"]
  <2>1. SameWrite(k, r) /\ r.pc = "fail"  BY <1>2, FieldNames DEF SameWrite
  <2> QED BY <1>4, <1>6, <2>1
<1> QED BY <1>5, <1>6 DEF UpBase, BaseUpLoad

\* A write ends: only its version moves in the books.
LEMMA WriteEnds ==
    ASSUME CacheInv, NEW t \in Tasks, task[t].pc \in {"part", "json", "upmeta", "fail"},
           Moves(t), task'[t].op = "none", task'[t].pc = "idle",
           UNCHANGED <<policy, etcd, s3, wc, vers>>,
           hist' \in Histories, hist'.exposed = hist.exposed, hist'.intent = hist.intent,
           hist'.removing = hist.removing, hist'.open = hist.open \ {task[t].ver},
           hist'.effective = hist.effective \ {task[t].ver},
           hist'.acked \in {hist.acked, hist.acked \cup {task[t].ver}}
    PROVE  CacheInv'
<1> DEFINE k == task[t]
<1>1. /\ TypeOK /\ TaskOK(k) /\ Writer(k) /\ k.op # "delete" /\ k.ver \in 1 .. vers
      /\ AccountOK /\ vers \in 0 .. MaxVer /\ Durable
      /\ etcd # NoRoot => etcd.size \in Nat \ {0} /\ policy # "nocache"
  BY WriterFacts
<1>2. TaskOK(task[t])'  BY LookerOK DEF Looking
<1>3. KeepsOthers(t)
  <2>1. ASSUME NEW u \in Tasks \ {t}, Writer(task[u])
        PROVE  /\ task[u].ver \in hist.open => task[u].ver \in hist'.open
               /\ task[u].ver \in hist.effective => task[u].ver \in hist'.effective
    <3>1. task[u].ver # k.ver  BY <1>1, <2>1, OtherWrites
    <3> QED BY <3>1
  <2> QED BY <2>1 DEF KeepsOthers, KeysOn
<1>4. Accounts(t)
  <2>1. /\ hist'.open \cup hist'.effective \cup hist'.acked \subseteq 1 .. vers'
        /\ hist'.open \cap hist'.effective = {} /\ hist'.open \cap hist'.acked = {}
        /\ hist'.effective \cap hist'.acked = {}
    BY <1>1 DEF AccountOK
  <2> QED BY <1>1, <2>1 DEF Accounts, Writer
<1>5. Durable'
  <2>1. ~hist.exposed => Durable'  BY <1>1, IntactKept
  <2> QED BY <2>1 DEF Durable
<1>6. vers' \in 0 .. MaxVer /\ vers <= vers'  BY <1>1, Constants
<1> QED BY <1>1, <1>2, <1>3, <1>4, <1>5, <1>6, BigStep

LEMMA CompleteFlushInv == ASSUME CacheInv, NEW t \in Tasks, CompleteFlush(t) PROVE CacheInv'
<1> DEFINE k == task[t]
<1>1. k.pc = "part" /\ k.todo = {} /\ UNCHANGED <<policy, etcd, s3, wc, vers>>
  BY DEF CompleteFlush, At, fixed, stores
<1>2. /\ TypeOK /\ TaskOK(k) /\ Writer(k) /\ DOMAIN k = Fields /\ k.gcHit \in BOOLEAN
      /\ hist \in Histories /\ SizeOf[k.ver] \in Nat \ {0} /\ k.op # "delete" /\ AccountOK
  BY <1>1, WriterFacts
<1>3. k.op = "flush" /\ Gathered(k) /\ NoCacheOK(k) /\ Booked(k)
  BY <1>1, <1>2, WriterPlaces DEF TaskOK
<1>4. CASE k.res = "OK"
  <2> DEFINE r == [k EXCEPT !.pc = "json"]
  <2>1. Goto(t, r) /\ hist' = hist  BY <1>4 DEF CompleteFlush
  <2>2. SameWrite(k, r) /\ r.pc = "json" /\ r.todo = k.todo  BY <1>2, FieldNames DEF SameWrite
  <2> HIDE DEF r
  <2>3. Moves(t) /\ task'[t] = r  BY <1>2, <2>1, <2>2, GotoMoves DEF SameWrite
  <2>4. SameWorld  BY <1>1, <1>2, <2>1, BooksKept
  <2>5. Booked(task[t])' /\ Kept(task[t])'
    BY <1>1, <1>2, <2>2, <2>3, <2>4, WriteKept DEF SameWorld, SameBooks
  <2>6. Gathered(task[t])'
    BY <1>1, <1>3, <1>4, <2>2, <2>3 DEF Gathered, SameWrite, Writer, Whole, Cleaning
  <2>7. NoCacheOK(task[t])'
    <3>1. 1 \in 1 .. SizeOf[k.ver]  BY <1>2
    <3>2. policy # "nocache"  BY <1>1, <1>3, <1>4, <3>1 DEF NoCacheOK
    <3> QED BY <1>1, <3>2 DEF NoCacheOK
  <2>8. PlaceOK(task[t])' /\ DeepOK(task[t])' /\ DeleteOK(task[t])' /\ CollectOK(task[t])'
    BY <1>3, <2>2, <2>3 DEF PlaceOK, DeepOK, DeleteOK, CollectOK, SameWrite
  <2>9. TaskOK(task[t])'  BY <2>5, <2>6, <2>7, <2>8 DEF TaskOK
  <2> QED BY <1>2, <2>2, <2>3, <2>4, <2>9, QuietStep DEF SameWorld, SameBooks, SameWrite, Writer
<1>5. CASE k.res # "OK"
  <2>1. hist' = [hist EXCEPT !.open = @ \ {k.ver}] /\ Finish(t, k.res, None)
    BY <1>5 DEF CompleteFlush
  <2>2. Moves(t) /\ task'[t].op = "none" /\ task'[t].pc = "idle"  BY <1>2, <2>1, FinishMoves
  <2>3. hist.effective \ {k.ver} = hist.effective  BY <1>1, <1>2, <1>3 DEF AccountOK, Booked
  <2>4. /\ hist' \in Histories /\ hist'.exposed = hist.exposed /\ hist'.intent = hist.intent
        /\ hist'.removing = hist.removing /\ hist'.open = hist.open \ {k.ver}
        /\ hist'.effective = hist.effective /\ hist'.acked = hist.acked
    BY <1>2, <2>1 DEF Histories
  <2> QED BY <1>1, <2>2, <2>3, <2>4, WriteEnds
<1> QED BY <1>4, <1>5

LEMMA UpEndInv == ASSUME CacheInv, NEW t \in Tasks, UpMeta(t) \/ UpFail(t) PROVE CacheInv'
<1> DEFINE k == task[t]
           v == k.ver
<1>1. k.pc \in {"upmeta", "fail"} /\ UNCHANGED <<policy, etcd, s3, wc, vers>>
  BY DEF UpMeta, UpFail, At, fixed, stores
<1>2. /\ TypeOK /\ TaskOK(k) /\ Writer(k) /\ hist \in Histories /\ AccountOK
      /\ v \in 1 .. MaxVer
  BY <1>1, WriterFacts
<1>3. IF k.pc = "upmeta" THEN v \in hist.effective ELSE v \in hist.open
  BY <1>2 DEF TaskOK, Booked
<1>4. \E status : Finish(t, status, None)  BY DEF UpMeta, UpFail
<1>5. Moves(t) /\ task'[t].op = "none" /\ task'[t].pc = "idle"  BY <1>2, <1>4, FinishMoves
<1> HIDE DEF v
<1>6. CASE UpMeta(t)
  <2>1. hist' = [hist EXCEPT !.effective = @ \ {v}, !.acked = @ \cup {v}]
    BY <1>6 DEF UpMeta, v
  <2>2. hist.open \ {v} = hist.open  BY <1>2, <1>3, <1>6 DEF AccountOK, UpMeta, At
  <2>3. /\ hist' \in Histories /\ hist'.exposed = hist.exposed /\ hist'.intent = hist.intent
        /\ hist'.removing = hist.removing /\ hist'.open = hist.open
        /\ hist'.effective = hist.effective \ {v} /\ hist'.acked = hist.acked \cup {v}
    BY <1>2, <2>1 DEF Histories
  <2> QED BY <1>1, <1>5, <2>2, <2>3, WriteEnds DEF v
<1>7. CASE UpFail(t)
  <2>1. hist' = [hist EXCEPT !.open = @ \ {v}]  BY <1>7 DEF UpFail, v
  <2>2. hist.effective \ {v} = hist.effective
    BY <1>2, <1>3, <1>7 DEF AccountOK, UpFail, At
  <2>3. /\ hist' \in Histories /\ hist'.exposed = hist.exposed /\ hist'.intent = hist.intent
        /\ hist'.removing = hist.removing /\ hist'.open = hist.open \ {v}
        /\ hist'.effective = hist.effective /\ hist'.acked = hist.acked
    BY <1>2, <2>1 DEF Histories
  <2> QED BY <1>1, <1>5, <2>2, <2>3, WriteEnds DEF v
<1> QED BY <1>6, <1>7

\* The record is written: its chunks are where it says, or the object is exposed.
LEMMA RecordIntact ==
    ASSUME CacheInv, NEW t \in Tasks, task[t].pc = "json", ~hist.exposed, ~task[t].gcHit
    PROVE  Intact(RootOf(task[t]))
<1> DEFINE k == task[t]
<1>1. /\ Writer(k) /\ TaskOK(k) /\ k.ver \in 1 .. MaxVer  BY WriterFacts
<1>2. Kept(k) /\ Whole(k)  BY <1>1 DEF TaskOK, Gathered
<1> SUFFICES ASSUME NEW s \in Servers, NEW ik \in KeysOn(RootOf(k), s)
             PROVE  ik \in DOMAIN wc[s] /\ wc[s][ik] = k.ver
  BY DEF Intact, RootOf
<1>3. PICK c \in 1 .. SizeOf[k.ver], j \in 1 .. R : ik = k.path[c][j] /\ GetReplica[j] = s
  BY <1>1, KeysOfRoot
<1>4. c \in DOMAIN k.path /\ j \in DOMAIN k.path[c]  BY <1>2 DEF Whole
<1> QED BY <1>1, <1>2, <1>3, <1>4 DEF Kept

Commits(t) ==
    /\ etcd' = RootOf(task[t]) /\ UNCHANGED <<policy, s3, wc, vers>>
    /\ hist' \in Histories /\ hist'.intent = task[t].ver /\ hist'.removing = hist.removing
    /\ hist'.exposed <=> \/ hist.exposed \/ task[t].gcHit
                         \/ \E u \in Tasks : DeepFlushing(u) \/ Collecting(u, RootOf(task[t]))
    /\ hist'.open = hist.open \ {task[t].ver}

LEMMA CommitStep ==
    ASSUME CacheInv, NEW t \in Tasks, task[t].pc = "json", Moves(t), Commits(t),
           \/ hist'.effective = hist.effective /\ hist'.acked \in {hist.acked, hist.acked \cup {task[t].ver}}
           \/ hist'.effective = hist.effective \cup {task[t].ver} /\ hist'.acked = hist.acked,
           task'[t].op # "delete", Writer(task'[t]) => task'[t].ver = task[t].ver,
           TaskOK(task[t])'
    PROVE  CacheInv'
<1> DEFINE k == task[t]
           v == k.ver
           root == RootOf(k)
<1>1. /\ TypeOK /\ TaskOK(k) /\ Writer(k) /\ k.op # "delete" /\ v \in 1 .. vers
      /\ AccountOK /\ vers \in 0 .. MaxVer /\ SizeOf[v] \in Nat \ {0} /\ 1 .. vers \subseteq 1 .. MaxVer
  BY WriterFacts
<1>2. /\ policy # "nocache" /\ v \in hist.open /\ etcd' = root /\ s3' = s3 /\ wc' = wc
      /\ hist.exposed \in BOOLEAN
  BY <1>1 DEF TaskOK, NoCacheOK, Booked, Commits, TypeOK, Histories
<1>3. root.ver = v /\ root.size = SizeOf[v] /\ root # NoRoot
  <2>1. root.ver = v /\ root.size = SizeOf[v]  BY DEF RootOf
  <2> QED BY <1>1, <2>1 DEF NoRoot, None
<1>4. KeepsOthers(t)
  <2>1. ASSUME NEW u \in Tasks \ {t}, Writer(task[u])
        PROVE  /\ task[u].ver \in hist.open => task[u].ver \in hist'.open
               /\ task[u].ver \in hist.effective => task[u].ver \in hist'.effective
    <3>1. task[u].ver # v  BY <1>1, <2>1, OtherWrites
    <3> QED BY <3>1 DEF Commits
  <2>2. ASSUME ~hist'.exposed, NEW u \in Tasks
        PROVE  /\ task[u].pc \notin {"dfup", "dfdel"}
               /\ task[u].pc = "gcdel" =>
                    \A s \in Servers : \A ik \in KeysOn(root, s) : ~(ik[2] < task[u].ts[s])
    <3>1. ~DeepFlushing(u) /\ ~Collecting(u, root)  BY <2>2 DEF Commits
    <3> QED BY <3>1 DEF DeepFlushing, Collecting
  <2>3. \A s \in Servers : KeysOn(etcd', s) = KeysOn(root, s)  BY <1>2
  <2> HIDE DEF root, k, v
  <2> QED BY <1>2, <2>1, <2>2, <2>3 DEF KeepsOthers
<1>5. Accounts(t)
  <2>1. /\ hist'.open \cup hist'.effective \cup hist'.acked \subseteq 1 .. vers'
        /\ hist'.open \cap hist'.effective = {} /\ hist'.open \cap hist'.acked = {}
        /\ hist'.effective \cap hist'.acked = {}
    BY <1>1, <1>2 DEF AccountOK, Commits
  <2> QED BY <1>1, <2>1 DEF Accounts, Commits, Writer
<1>6. Durable'
  <2> SUFFICES ASSUME ~hist'.exposed PROVE Current' = v  BY DEF Durable, Commits
  <2>1. Intact(root)  BY <1>2, RecordIntact DEF Commits
  <2>2. Intact(etcd)'
    <3>1. ASSUME NEW s \in Servers, NEW ik \in KeysOn(root, s)
          PROVE  ik \in DOMAIN wc'[s] /\ wc'[s][ik] = root.ver
      BY <1>2, <2>1 DEF Intact
    <3> HIDE DEF root
    <3> QED BY <1>2, <3>1 DEF Intact, KeysOn
  <2> HIDE DEF root
  <2> QED BY <1>2, <1>3, <2>2 DEF Current
<1>7. etcd' # NoRoot => etcd'.size \in Nat \ {0} /\ policy # "nocache"  BY <1>1, <1>2, <1>3
<1>8. vers' \in 0 .. MaxVer /\ vers <= vers'  BY <1>1, Constants DEF Commits
<1>9. hist' \in Histories /\ (hist.exposed => hist'.exposed) /\ policy' = policy  BY DEF Commits
<1> QED BY <1>4, <1>5, <1>6, <1>7, <1>8, <1>9, BigStep

LEMMA CommittedBooks ==
    ASSUME TypeOK, NEW k, k.ver \in 1 .. MaxVer, k.gcHit \in BOOLEAN
    PROVE  LET h == Committed(k)
           IN  /\ h \in Histories /\ h.intent = k.ver /\ h.removing = hist.removing
               /\ h.exposed <=> \/ hist.exposed \/ k.gcHit
                                \/ \E u \in Tasks : DeepFlushing(u) \/ Collecting(u, RootOf(k))
               /\ h.open = hist.open \ {k.ver} /\ h.effective = hist.effective \cup {k.ver}
               /\ h.acked = hist.acked
<1> DEFINE v == k.ver
           danger == k.gcHit \/ \E u \in Tasks : DeepFlushing(u) \/ Collecting(u, RootOf(k))
<1>1. Committed(k) = [hist EXCEPT !.intent = v, !.open = @ \ {v}, !.effective = @ \cup {v},
                                  !.exposed = @ \/ danger]
  BY DEF Committed
<1>2. hist \in Histories /\ v \in 1 .. MaxVer /\ v \in 0 .. MaxVer /\ danger \in BOOLEAN
  BY Constants DEF TypeOK
<1> HIDE DEF v, danger
<1> DEFINE h == [hist EXCEPT !.intent = v, !.open = @ \ {v}, !.effective = @ \cup {v},
                             !.exposed = @ \/ danger]
<1>3. h \in Histories  BY <1>2 DEF Histories
<1>4. /\ h.intent = v /\ h.removing = hist.removing
      /\ h.exposed <=> hist.exposed \/ danger
      /\ h.open = hist.open \ {v} /\ h.effective = hist.effective \cup {v}
      /\ h.acked = hist.acked
  BY <1>2 DEF Histories
<1>5. Committed(k) = h  BY <1>1
<1> HIDE DEF h
<1> QED BY <1>3, <1>4, <1>5 DEF v, danger

LEMMA PutJsonInv == ASSUME CacheInv, NEW t \in Tasks, PutJson(t) PROVE CacheInv'
<1> DEFINE k == task[t]
           v == k.ver
           ack(h, st) == [h EXCEPT !.open = @ \ {v}, !.effective = @ \ {v},
                            !.acked = IF st = "OK" THEN @ \cup {v} ELSE @]
<1>1. k.pc = "json" /\ UNCHANGED <<policy, s3, wc, vers>>  BY DEF PutJson, At, fixed
<1>2. /\ TypeOK /\ TaskOK(k) /\ Writer(k) /\ DOMAIN k = Fields /\ k.gcHit \in BOOLEAN
      /\ hist \in Histories /\ AccountOK /\ k.op # "delete" /\ v \in 1 .. MaxVer
  BY <1>1, WriterFacts
<1>3. v \in hist.open /\ v \notin hist.effective /\ v \notin hist.acked
  BY <1>1, <1>2 DEF TaskOK, Booked, AccountOK
<1> HIDE DEF v
<1>4. ASSUME NEW h \in Histories, NEW st
      PROVE  /\ ack(h, st) \in Histories /\ ack(h, st).intent = h.intent
             /\ ack(h, st).exposed = h.exposed /\ ack(h, st).removing = h.removing
             /\ ack(h, st).open = h.open \ {v} /\ ack(h, st).effective = h.effective \ {v}
             /\ ack(h, st).acked \in {h.acked, h.acked \cup {v}}
  BY <1>2, <1>4 DEF Histories
<1>5. \/ /\ etcd' = RootOf(k)
         /\ \/ hist' = ack(Committed(k), "OK") /\ Finish(t, "OK", None)
            \/ k.op = "upload" /\ hist' = Committed(k) /\ Goto(t, [k EXCEPT !.pc = "upmeta"])
      \/ /\ etcd' \in {etcd, RootOf(k)} /\ Finish(t, "METADATA_ERROR", None)
         /\ hist' = ack(IF etcd' = etcd THEN hist ELSE Committed(k), "METADATA_ERROR")
  BY <1>2 DEF PutJson, Writer, v
<1> HIDE DEF ack
<1> DEFINE h == Committed(k)
<1>6. /\ h \in Histories /\ h.intent = v /\ h.removing = hist.removing
      /\ h.exposed <=> \/ hist.exposed \/ k.gcHit
                       \/ \E u \in Tasks : DeepFlushing(u) \/ Collecting(u, RootOf(k))
      /\ h.open = hist.open \ {v} /\ h.effective = hist.effective \cup {v}
      /\ h.acked = hist.acked
  BY <1>2, CommittedBooks DEF v
<1> HIDE DEF h
<1>7. ASSUME NEW st, NEW status, etcd' = RootOf(k), hist' = ack(h, st), Finish(t, status, None)
      PROVE  CacheInv'
  <2>1. Moves(t) /\ task'[t].op = "none" /\ task'[t].pc = "idle"  BY <1>2, <1>7, FinishMoves
  <2>2. TaskOK(task[t])'  BY <2>1, LookerOK DEF Looking
  <2>3. Commits(t)  BY <1>1, <1>4, <1>6, <1>7 DEF Commits, v
  <2>4. hist'.effective = hist.effective /\ hist'.acked \in {hist.acked, hist.acked \cup {v}}
    <3>1. /\ hist'.effective = h.effective \ {v}
          /\ hist'.acked = h.acked \/ hist'.acked = h.acked \cup {v}
      BY <1>4, <1>6, <1>7
    <3>2. (hist.effective \cup {v}) \ {v} = hist.effective  BY <1>3
    <3> QED BY <1>6, <3>1, <3>2
  <2> QED BY <1>1, <2>1, <2>2, <2>3, <2>4, CommitStep DEF Writer, v
<1>8. ASSUME etcd' = RootOf(k), k.op = "upload", hist' = h, Goto(t, [k EXCEPT !.pc = "upmeta"])
      PROVE  CacheInv'
  <2> DEFINE r == [k EXCEPT !.pc = "upmeta"]
  <2>1. SameWrite(k, r) /\ r.pc = "upmeta"  BY <1>2, FieldNames DEF SameWrite
  <2>2. Goto(t, r)  BY <1>8
  <2> HIDE DEF r
  <2>3. Moves(t) /\ task'[t] = r  BY <1>2, <2>1, <2>2, GotoMoves DEF SameWrite
  <2>4. Commits(t)  BY <1>1, <1>6, <1>8 DEF Commits, v
  <2>5. TaskOK(task[t])'
    <3>1. Booked(k) /\ Gathered(k) /\ Kept(k)  BY <1>2 DEF TaskOK
    <3>2. Booked(task[t])'
      BY <1>1, <1>2, <1>6, <1>8, <2>1, <2>3, <3>1 DEF Booked, SameWrite, Writer, v
    <3>3. Kept(task[t])'
      BY <1>1, <1>2, <1>6, <1>8, <2>1, <2>3, <3>1 DEF Kept, SameWrite, Writer
    <3>4. Gathered(task[t])'
      BY <1>1, <1>8, <2>1, <2>3, <3>1 DEF Gathered, SameWrite, Writer, Whole
    <3>5. NoCacheOK(task[t])'  BY <1>1, <1>2 DEF TaskOK, NoCacheOK
    <3>6. PlaceOK(task[t])' /\ DeepOK(task[t])' /\ DeleteOK(task[t])' /\ CollectOK(task[t])'
      BY <1>8, <2>1, <2>3 DEF PlaceOK, DeepOK, DeleteOK, CollectOK, SameWrite
    <3> QED BY <3>2, <3>3, <3>4, <3>5, <3>6 DEF TaskOK
  <2>6. hist'.effective = hist.effective \cup {v} /\ hist'.acked = hist.acked  BY <1>6, <1>8
  <2> QED BY <1>1, <1>8, <2>1, <2>3, <2>4, <2>5, <2>6, CommitStep DEF SameWrite, v
<1>9. ASSUME etcd' = etcd, hist' = ack(hist, "METADATA_ERROR"), Finish(t, "METADATA_ERROR", None)
      PROVE  CacheInv'
  <2>1. Moves(t) /\ task'[t].op = "none" /\ task'[t].pc = "idle"  BY <1>2, <1>9, FinishMoves
  <2>2. /\ hist' \in Histories /\ hist'.intent = hist.intent
        /\ hist'.exposed = hist.exposed /\ hist'.removing = hist.removing
        /\ hist'.open = hist.open \ {v} /\ hist'.effective = hist.effective \ {v}
        /\ hist'.acked \in {hist.acked, hist.acked \cup {v}}
    BY <1>2, <1>4, <1>9
  <2> QED BY <1>1, <1>9, <2>1, <2>2, WriteEnds DEF v
<1> QED BY <1>5, <1>7, <1>8, <1>9 DEF h

------------------------------------------------------------------------------
(***************************************************************************)
(* Deleting                                                                *)
(***************************************************************************)
LEMMA DeletePlaces ==
    ASSUME NEW k, PlaceOK(k), k.pc \in {"dels3", "delinv", "deljson"}
    PROVE  k.op = "delete" /\ ~Writer(k)
BY DEF PlaceOK, Writer, Cleaning, Looking

LEMMA DeleterFacts ==
    ASSUME CacheInv, NEW t \in Tasks, task[t].pc \in {"dels3", "delinv", "deljson"}
    PROVE  /\ TypeOK /\ hist \in Histories /\ TaskOK(task[t]) /\ Durable /\ TasksOK /\ AccountOK
           /\ DOMAIN task[t] = Fields /\ task[t].gcHit \in BOOLEAN
           /\ task[t].op = "delete" /\ ~Writer(task[t])
           /\ hist.removing \in Nat /\ hist.removing - 1 \in Nat
           /\ vers \in 0 .. MaxVer /\ vers <= vers
           /\ etcd # NoRoot => etcd.size \in Nat \ {0} /\ policy # "nocache"
<1>1. TypeOK /\ TasksOK /\ RecordOK /\ AccountOK /\ Durable  BY DEF CacheInv
<1>2. TaskOK(task[t]) /\ hist \in Histories /\ vers \in 0 .. MaxVer  BY <1>1 DEF TasksOK, TypeOK
<1>3. task[t].op = "delete" /\ ~Writer(task[t])  BY <1>2, DeletePlaces DEF TaskOK
<1>4. hist.removing \in Nat /\ hist.removing > 0
  <2>1. IsFiniteSet(Removers) /\ t \in Removers
    BY <1>3, Constants, FS_Subset DEF Removers
  <2>2. Cardinality(Removers) \in Nat /\ Cardinality(Removers) # 0
    BY <2>1, FS_CardinalityType, FS_EmptySet
  <2> QED BY <1>1, <2>2 DEF AccountOK
<1> QED BY <1>1, <1>2, <1>3, <1>4, Constants DEF TypeOK, RecordOK

\* A removal's task is always in order but for what it knows of S3.
LEMMA DeleterOK ==
    ASSUME NEW t \in Tasks,
           \/ task'[t].op = "delete" /\ task'[t].pc \in {"dels3", "delinv", "deljson"}
           \/ task'[t].op = "none" /\ task'[t].pc = "idle",
           task'[t].pc \in {"delinv", "deljson"} => policy' # "nocache",
           DeleteOK(task[t])'
    PROVE  TaskOK(task[t])'
BY DEF TaskOK, PlaceOK, Booked, Gathered, Kept, NoCacheOK, DeepOK, CollectOK, Cleaning, Looking,
       Writer

\* A step of a removal: only the count of the removals moves in the books.
LEMMA DeleteStep ==
    ASSUME CacheInv, NEW t \in Tasks, Moves(t), ~Writer(task[t]), UNCHANGED <<policy, wc, vers>>,
           hist' \in Histories, hist.exposed => hist'.exposed,
           hist'.open = hist.open, hist'.effective = hist.effective, hist'.acked = hist.acked,
           s3' \in {s3, None}, etcd' \in {etcd, NoRoot},
           ~hist'.exposed /\ (s3' # s3 \/ hist'.intent # hist.intent) =>
               \A u \in Tasks : ~DeepFlushing(u),
           task'[t].op \in {"delete", "none"}, TaskOK(task[t])', Durable',
           hist'.removing = hist.removing + (IF task'[t].op = "delete" THEN 1 ELSE 0)
                                          - (IF task[t].op = "delete" THEN 1 ELSE 0)
    PROVE  CacheInv'
<1>1. TypeOK /\ TasksOK /\ RecordOK /\ AccountOK /\ vers \in 0 .. MaxVer /\ hist.removing \in Nat
  BY DEF CacheInv, TypeOK, Histories
<1>2. KeepsOthers(t)
  <2>1. ASSUME NEW s PROVE KeysOn(NoRoot, s) = {}  BY DEF KeysOn, NoRoot
  <2>2. ASSUME NEW s, NEW ik \in KeysOn(etcd', s) PROVE ik \in KeysOn(etcd, s)
    BY <2>1, <2>2
  <2>3. ASSUME ~hist'.exposed, NEW u \in Tasks
        PROVE  /\ task[u].pc = "dfup" => hist'.intent = hist.intent
               /\ task[u].pc = "dfdel" /\ s3 = hist.intent => s3' = hist'.intent
    BY <2>3 DEF DeepFlushing
  <2> QED BY <2>2, <2>3 DEF KeepsOthers
<1>3. Accounts(t)  BY <1>1 DEF Accounts, AccountOK, Writer
<1>4. etcd' # NoRoot => etcd'.size \in Nat \ {0} /\ policy # "nocache"
  BY <1>1 DEF TypeOK, RecordOK
<1>5. vers' \in 0 .. MaxVer /\ vers <= vers'  BY <1>1, Constants
<1> QED BY <1>2, <1>3, <1>4, <1>5, BigStep

LEMMA StartDeleteInv == ASSUME CacheInv, NEW t \in Tasks, StartDelete(t) PROVE CacheInv'
<1> DEFINE m == meta[nodeOf[t]]
           k == [Idle EXCEPT !.op = "delete", !.pc = "dels3", !.chunk = m.size]
           size == IF etcd # NoRoot THEN etcd.size ELSE IF s3 = None THEN 0 ELSE SizeOf[s3]
           r == IF policy = "nocache" \/ m.present
                THEN [k EXCEPT !.why = IF m.present THEN {"meta"} ELSE {}]
                ELSE [k EXCEPT !.chunk = size, !.root = etcd]
<1>1. TypeOK /\ Durable /\ TaskOK(task[t]) /\ hist \in Histories
  BY DEF CacheInv, TypeOK, TasksOK
<1>2. /\ Goto(t, r) /\ hist' = [hist EXCEPT !.removing = @ + 1]
      /\ UNCHANGED <<policy, etcd, s3, wc, vers>> /\ Start(t, "delete")
  BY DEF StartDelete, fixed, stores
<1>3. DOMAIN r = Fields /\ r.gcHit = FALSE /\ r.op = "delete" /\ r.pc = "dels3"
  BY FieldNames DEF Idle
<1> HIDE DEF r
<1>4. Moves(t) /\ task'[t] = r  BY <1>1, <1>2, <1>3, GotoMoves
<1>5. task[t].op # "delete" /\ ~Writer(task[t])  BY <1>1, <1>2, Starts
<1>6. /\ hist' \in Histories /\ hist'.exposed = hist.exposed /\ hist'.intent = hist.intent
      /\ hist'.open = hist.open /\ hist'.effective = hist.effective
      /\ hist'.acked = hist.acked /\ hist'.removing = hist.removing + 1
      /\ hist.removing \in Nat
  BY <1>1, <1>2 DEF Histories
<1>7. TaskOK(task[t])'  BY <1>3, <1>4, DeleterOK DEF DeleteOK
<1>8. Durable'
  <2>1. ~hist.exposed => Durable'  BY <1>1, <1>2, <1>6, IntactKept
  <2> QED BY <1>6, <2>1 DEF Durable
<1> QED BY <1>2, <1>3, <1>4, <1>5, <1>6, <1>7, <1>8, DeleteStep

LEMMA DeleteBaseInv == ASSUME CacheInv, NEW t \in Tasks, DeleteBase(t) PROVE CacheInv'
<1> DEFINE k == task[t]
           r(st) == [k EXCEPT !.pc = "delinv", !.why = IF st = "OK" THEN @ ELSE @ \cup {"base"}]
<1>1. k.pc = "dels3" /\ UNCHANGED <<policy, etcd, wc, vers>>  BY DEF DeleteBase, At, fixed
<1>2. /\ TypeOK /\ Durable /\ DOMAIN k = Fields /\ k.gcHit \in BOOLEAN /\ k.op = "delete"
      /\ ~Writer(k) /\ hist \in Histories /\ hist.removing \in Nat /\ hist.removing - 1 \in Nat
  BY <1>1, DeleterFacts
<1>3. PICK st : /\ s3' = None \/ (s3' = s3 /\ st # "OK")
                /\ IF policy = "nocache" THEN Finish(t, st, None) ELSE Goto(t, r(st))
  BY DEF DeleteBase, BaseDelete
<1>4. PICK b \in BOOLEAN :
         /\ b <=> \E u \in Tasks : DeepFlushing(u)
         /\ hist' = [hist EXCEPT
                 !.exposed = @ \/ b,
                 !.intent = IF etcd = NoRoot /\ s3' = None THEN None ELSE @,
                 !.removing = IF policy = "nocache" THEN @ - 1 ELSE @]
  BY DEF DeleteBase
<1>5. /\ hist' \in Histories
      /\ hist'.exposed <=> hist.exposed \/ b
      /\ hist'.intent = IF etcd = NoRoot /\ s3' = None THEN None ELSE hist.intent
      /\ hist'.open = hist.open /\ hist'.effective = hist.effective
      /\ hist'.acked = hist.acked
      /\ hist'.removing = IF policy = "nocache" THEN hist.removing - 1 ELSE hist.removing
  <2>1. None \in 0 .. MaxVer  BY Constants DEF None
  <2> QED BY <1>2, <1>4, <2>1 DEF Histories
<1>6. /\ Moves(t)
      /\ \/ policy = "nocache" /\ task'[t].op = "none" /\ task'[t].pc = "idle"
         \/ policy # "nocache" /\ task'[t].op = "delete" /\ task'[t] = r(st) /\ task'[t].pc = "delinv"
  <2>1. CASE policy = "nocache"  BY <1>2, <1>3, <2>1, FinishMoves
  <2>2. CASE policy # "nocache"
    <3>1. DOMAIN r(st) = Fields /\ r(st).gcHit = k.gcHit /\ r(st).op = "delete" /\ r(st).pc = "delinv"
      BY <1>2, FieldNames
    <3>2. Goto(t, r(st))  BY <1>3, <2>2
    <3> HIDE DEF r
    <3> QED BY <1>2, <2>2, <3>1, <3>2, GotoMoves
  <2> QED BY <2>1, <2>2
<1>7. TaskOK(task[t])'
  <2>1. DeleteOK(task[t])'
    <3> SUFFICES ASSUME policy # "nocache", "base" \notin r(st).why PROVE s3' = None
      BY <1>6 DEF DeleteOK
    <3>1. r(st).why = IF st = "OK" THEN k.why ELSE k.why \cup {"base"}  BY <1>2, FieldNames
    <3> QED BY <1>3, <3>1
  <2> QED BY <1>1, <1>6, <2>1, DeleterOK
<1>8. Durable'
  <2> SUFFICES ASSUME ~hist'.exposed PROVE Current' = hist'.intent  BY DEF Durable
  <2>1. ~hist.exposed  BY <1>5
  <2>2. CASE etcd = NoRoot /\ s3' = None  BY <1>1, <1>5, <2>2 DEF Current
  <2>3. CASE ~(etcd = NoRoot /\ s3' = None)
    <3>1. etcd = NoRoot => s3' = s3  BY <1>3, <2>3
    <3>2. Durable'  BY <1>1, <1>2, <1>5, <2>1, <2>3, <3>1, IntactKept
    <3> QED BY <3>2 DEF Durable
  <2> QED BY <2>2, <2>3
<1>9. ~hist'.exposed => \A u \in Tasks : ~DeepFlushing(u)  BY <1>4, <1>5
<1>10. hist'.removing = hist.removing + (IF task'[t].op = "delete" THEN 1 ELSE 0)
                                      - (IF task[t].op = "delete" THEN 1 ELSE 0)
  BY <1>2, <1>5, <1>6
<1>11. s3' \in {s3, None} /\ etcd' \in {etcd, NoRoot} /\ task'[t].op \in {"delete", "none"}
  BY <1>1, <1>3, <1>6
<1>12. /\ hist' \in Histories /\ (hist.exposed => hist'.exposed) /\ hist'.open = hist.open
       /\ hist'.effective = hist.effective /\ hist'.acked = hist.acked
  BY <1>5
<1> QED BY <1>1, <1>2, <1>6, <1>7, <1>8, <1>9, <1>10, <1>11, <1>12, DeleteStep

LEMMA DeleteInvalidateInv == ASSUME CacheInv, NEW t \in Tasks, DeleteInvalidate(t) PROVE CacheInv'
<1> DEFINE k == task[t]
           r == [k EXCEPT !.pc = "deljson"]
<1>1. k.pc = "delinv" /\ UNCHANGED <<policy, etcd, s3, wc, vers>>
  BY DEF DeleteInvalidate, At, fixed
<1>2. /\ TypeOK /\ Durable /\ DOMAIN k = Fields /\ k.gcHit \in BOOLEAN /\ k.op = "delete"
      /\ ~Writer(k) /\ hist \in Histories /\ hist.removing \in Nat /\ hist.removing - 1 \in Nat
      /\ TaskOK(k)
  BY <1>1, DeleterFacts
<1>3. \/ k.root # NoRoot /\ Goto(t, r)
      \/ k.root = NoRoot /\ \E st : Finish(t, st, None)
  BY DEF DeleteInvalidate
<1>4. hist' = [hist EXCEPT !.removing = IF k.root = NoRoot THEN @ - 1 ELSE @]
  BY DEF DeleteInvalidate
<1>5. /\ hist' \in Histories /\ hist'.exposed = hist.exposed /\ hist'.intent = hist.intent
      /\ hist'.open = hist.open /\ hist'.effective = hist.effective
      /\ hist'.acked = hist.acked
      /\ hist'.removing = IF k.root = NoRoot THEN hist.removing - 1 ELSE hist.removing
  BY <1>2, <1>4 DEF Histories
<1>6. /\ Moves(t)
      /\ \/ k.root = NoRoot /\ task'[t].op = "none" /\ task'[t].pc = "idle"
         \/ /\ k.root # NoRoot /\ task'[t].op = "delete" /\ task'[t].pc = "deljson"
            /\ task'[t].why = k.why
  <2>1. CASE k.root = NoRoot  BY <1>2, <1>3, <2>1, FinishMoves
  <2>2. CASE k.root # NoRoot
    <3>1. DOMAIN r = Fields /\ r.gcHit = k.gcHit /\ r.op = "delete" /\ r.pc = "deljson" /\ r.why = k.why
      BY <1>2, FieldNames
    <3>2. Goto(t, r)  BY <1>3, <2>2
    <3> HIDE DEF r
    <3> QED BY <1>2, <2>2, <3>1, <3>2, GotoMoves
  <2> QED BY <2>1, <2>2
<1>7. TaskOK(task[t])'
  <2>1. DeleteOK(task[t])'  BY <1>1, <1>2, <1>5, <1>6 DEF DeleteOK, TaskOK
  <2>2. policy' # "nocache"  BY <1>1, <1>2 DEF TaskOK, NoCacheOK
  <2> QED BY <1>6, <2>1, <2>2, DeleterOK
<1>8. Durable'
  <2>1. ~hist.exposed => Durable'  BY <1>1, <1>2, <1>5, IntactKept
  <2> QED BY <1>5, <2>1 DEF Durable
<1> QED BY <1>1, <1>2, <1>5, <1>6, <1>7, <1>8, DeleteStep

LEMMA DeleteJsonInv == ASSUME CacheInv, NEW t \in Tasks, DeleteJson(t) PROVE CacheInv'
<1> DEFINE k == task[t]
<1>1. k.pc = "deljson" /\ UNCHANGED <<policy, s3, wc, vers>> /\ etcd' \in {etcd, NoRoot}
  BY DEF DeleteJson, At, EtcdDelete, fixed
<1>2. /\ TypeOK /\ Durable /\ DOMAIN k = Fields /\ k.gcHit \in BOOLEAN /\ k.op = "delete"
      /\ ~Writer(k) /\ hist \in Histories /\ hist.removing \in Nat /\ hist.removing - 1 \in Nat
      /\ TaskOK(k)
  BY <1>1, DeleterFacts
<1>3. PICK st : Finish(t, st, None)  BY DEF DeleteJson
<1>4. Moves(t) /\ task'[t].op = "none" /\ task'[t].pc = "idle"  BY <1>2, <1>3, FinishMoves
<1>5. PICK b \in BOOLEAN :
         /\ b <=> ("base" \in k.why /\ s3 # None) \/ \E u \in Tasks : DeepFlushing(u)
         /\ hist' = [hist EXCEPT !.removing = @ - 1,
                        !.intent = IF etcd' = NoRoot THEN None ELSE @, !.exposed = @ \/ b]
  BY DEF DeleteJson
<1>6. /\ hist' \in Histories
      /\ hist'.exposed <=> hist.exposed \/ b
      /\ hist'.intent = IF etcd' = NoRoot THEN None ELSE hist.intent
      /\ hist'.open = hist.open /\ hist'.effective = hist.effective
      /\ hist'.acked = hist.acked /\ hist'.removing = hist.removing - 1
  <2>1. None \in 0 .. MaxVer  BY Constants DEF None
  <2> QED BY <1>2, <1>5, <2>1 DEF Histories
<1>7. TaskOK(task[t])'  BY <1>4, LookerOK DEF Looking
<1>8. Durable'
  <2> SUFFICES ASSUME ~hist'.exposed PROVE Current' = hist'.intent  BY DEF Durable
  <2>1. ~hist.exposed /\ ("base" \in k.why => s3 = None)  BY <1>5, <1>6
  <2>2. CASE etcd' = NoRoot
    <3>1. s3 = None  BY <1>1, <1>2, <2>1 DEF TaskOK, DeleteOK
    <3> QED BY <1>1, <1>6, <2>2, <3>1 DEF Current
  <2>3. CASE etcd' # NoRoot
    <3>1. Durable'  BY <1>1, <1>2, <1>6, <2>1, <2>3, IntactKept
    <3> QED BY <3>1 DEF Durable
  <2> QED BY <2>2, <2>3
<1>9. ~hist'.exposed => \A u \in Tasks : ~DeepFlushing(u)  BY <1>5, <1>6
<1>10. hist'.removing = hist.removing + (IF task'[t].op = "delete" THEN 1 ELSE 0)
                                      - (IF task[t].op = "delete" THEN 1 ELSE 0)
  BY <1>2, <1>4, <1>6
<1>11. s3' \in {s3, None} /\ etcd' \in {etcd, NoRoot} /\ task'[t].op \in {"delete", "none"}
  BY <1>1, <1>4
<1>12. /\ hist' \in Histories /\ (hist.exposed => hist'.exposed) /\ hist'.open = hist.open
       /\ hist'.effective = hist.effective /\ hist'.acked = hist.acked
  BY <1>6
<1> QED BY <1>1, <1>2, <1>4, <1>7, <1>8, <1>9, <1>10, <1>11, <1>12, DeleteStep

------------------------------------------------------------------------------
(***************************************************************************)
(* The deep flush and the collection change the stores                     *)
(***************************************************************************)
LEMMA CleanerFacts ==
    ASSUME CacheInv, NEW t \in Tasks, task[t].pc \in {"dfup", "dfdel", "gcdel"}
    PROVE  /\ TypeOK /\ hist \in Histories /\ TaskOK(task[t]) /\ Durable /\ TasksOK /\ AccountOK
           /\ RecordOK /\ PlaceOK(task[t]) /\ policy # "nocache"
           /\ DOMAIN task[t] = Fields /\ task[t].gcHit \in BOOLEAN /\ task[t].op # "delete"
           /\ vers \in 0 .. MaxVer /\ vers <= vers
           /\ etcd # NoRoot => etcd.size \in Nat \ {0} /\ policy # "nocache"
<1>1. TypeOK /\ TasksOK /\ RecordOK /\ AccountOK /\ Durable  BY DEF CacheInv
<1>2. TaskOK(task[t]) /\ hist \in Histories /\ vers \in 0 .. MaxVer  BY <1>1 DEF TasksOK, TypeOK
<1>3. task[t].op # "delete" /\ PlaceOK(task[t]) /\ policy # "nocache"
  BY <1>2, CleaningOps DEF TaskOK, NoCacheOK, Cleaning
<1> QED BY <1>1, <1>2, <1>3, Constants DEF TypeOK, RecordOK

\* S3 gets the object: a removal under way would be undone, so there is none.
LEMMA DeepUpLoadInv == ASSUME CacheInv, NEW t \in Tasks, DeepUpLoad(t) PROVE CacheInv'
<1> DEFINE k == task[t]
           r == [k EXCEPT !.pc = "dfdel", !.dl = None]
<1>1. k.pc = "dfup" /\ UNCHANGED <<policy, etcd, wc, vers>>  BY DEF DeepUpLoad, At, fixed
<1>2. /\ TypeOK /\ Durable /\ TaskOK(k) /\ PlaceOK(k) /\ AccountOK /\ TasksOK /\ policy # "nocache"
      /\ DOMAIN k = Fields /\ k.gcHit \in BOOLEAN /\ hist \in Histories /\ k.op # "delete"
      /\ vers \in 0 .. MaxVer /\ vers <= vers
      /\ etcd # NoRoot => etcd.size \in Nat \ {0} /\ policy # "nocache"
  BY <1>1, CleanerFacts
<1>3. CASE s3' = k.dl /\ Goto(t, r) /\ hist' = [hist EXCEPT !.exposed = @ \/ hist.removing > 0]
  <2>1. /\ SameBooks /\ (hist'.exposed <=> hist.exposed \/ hist.removing > 0)
    <3>1. hist' \in Histories  BY <1>2, <1>3 DEF Histories
    <3> QED BY <1>2, <1>3, <3>1 DEF Histories, SameBooks
  <2>2. SameWrite(k, r) /\ r.pc = "dfdel" /\ r.after = k.after /\ r.todo = k.todo
        /\ r.res = k.res /\ r.chunk = k.chunk
    BY <1>2, FieldNames DEF SameWrite
  <2>3. Goto(t, r)  BY <1>3
  <2> HIDE DEF r
  <2>4. Moves(t) /\ task'[t] = r  BY <1>2, <2>2, <2>3, GotoMoves DEF SameWrite
  <2>5. ~hist'.exposed => s3' = hist'.intent
    BY <1>1, <1>2, <1>3, <2>1 DEF TaskOK, DeepOK, SameBooks
  <2>6. TaskOK(task[t])'
    <3>1. Booked(task[t])' /\ Kept(task[t])'
      BY <1>1, <1>2, <2>1, <2>2, <2>4, WriteKept DEF SameBooks
    <3>2. DeepOK(task[t])' /\ CollectOK(task[t])'  BY <2>2, <2>4, <2>5 DEF DeepOK, CollectOK
    <3> QED BY <1>1, <1>2, <2>2, <2>4, <3>1, <3>2, CleanOK DEF Cleaning
  <2>7. ASSUME ~hist'.exposed, NEW u \in Tasks PROVE task[u].pc \notin {"delinv", "deljson"}
    <3> SUFFICES ASSUME task[u].pc \in {"delinv", "deljson"} PROVE FALSE  OBVIOUS
    <3>1. hist.removing \in Nat /\ hist.removing - 1 \in Nat  BY DeleterFacts
    <3>2. ~(hist.removing > 0)  BY <2>1, <2>7
    <3> QED BY <3>1, <3>2
  <2>8. KeepsOthers(t)
    <3>1. ASSUME NEW u \in Tasks \ {t}, ~hist'.exposed
          PROVE  /\ task[u].pc = "dfup" => hist'.intent = hist.intent
                 /\ task[u].pc = "dfdel" /\ s3 = hist.intent => s3' = hist'.intent
                 /\ task[u].pc \in {"delinv", "deljson"} => s3' \in {s3, None}
      BY <2>1, <2>5, <2>7, <3>1 DEF SameBooks
    <3> QED BY <1>1, <2>1, <3>1 DEF KeepsOthers, SameBooks
  <2>9. Accounts(t)
    BY <1>1, <1>2, <2>1, <2>2, <2>4 DEF Accounts, AccountOK, SameBooks, SameWrite, Writer
  <2>10. Durable'
    <3> SUFFICES ASSUME ~hist'.exposed PROVE Durable'  BY DEF Durable
    <3>1. CASE etcd = NoRoot  BY <1>1, <2>5, <3>1 DEF Durable, Current
    <3>2. CASE etcd # NoRoot
      BY <1>1, <1>2, <2>1, <3>2, IntactKept DEF SameBooks
    <3> QED BY <3>1, <3>2
  <2> QED BY <1>1, <1>2, <2>1, <2>4, <2>6, <2>8, <2>9, <2>10, BigStep DEF SameBooks
<1>4. CASE s3' = s3 /\ UNCHANGED hist /\ DeepDone(t, "S3_INTERNAL_ERROR")
  <2>1. SameWorld  BY <1>1, <1>2, <1>4, BooksKept
  <2> QED BY <1>1, <1>4, <2>1, DeepDoneStep
<1> QED BY <1>3, <1>4 DEF DeepUpLoad, BaseUpLoad

\* The record goes, and the object stays what it is: S3 has it.
LEMMA DeepDeleteInv == ASSUME CacheInv, NEW t \in Tasks, DeepDelete(t) PROVE CacheInv'
<1> DEFINE k == task[t]
<1>1. k.pc = "dfdel" /\ UNCHANGED <<policy, s3, wc, vers, hist>> /\ etcd' \in {etcd, NoRoot}
  BY DEF DeepDelete, At, EtcdDelete, fixed
<1>2. /\ TypeOK /\ Durable /\ TaskOK(k) /\ PlaceOK(k) /\ AccountOK /\ RecordOK
      /\ hist \in Histories /\ k.op # "delete" /\ vers \in 0 .. MaxVer /\ vers <= vers
      /\ etcd # NoRoot => etcd.size \in Nat \ {0} /\ policy # "nocache"
  BY <1>1, CleanerFacts
<1>3. PICK status : DeepDone(t, status)  BY DEF DeepDelete
<1>4. /\ Moves(t) /\ TaskOK(task[t])' /\ task'[t].op # "delete"
      /\ Writer(task'[t]) => Writer(task[t]) /\ task'[t].ver = task[t].ver
  BY <1>1, <1>2, <1>3, DeepDoneMoves
<1>5. KeepsOthers(t)
  <2>1. ASSUME NEW s PROVE KeysOn(NoRoot, s) = {}  BY DEF KeysOn, NoRoot
  <2>2. ASSUME NEW s, NEW ik \in KeysOn(etcd', s) PROVE ik \in KeysOn(etcd, s)
    BY <1>1, <2>1, <2>2
  <2> QED BY <1>1, <2>2 DEF KeepsOthers
<1>6. Accounts(t)  BY <1>1, <1>2, <1>4 DEF Accounts, AccountOK
<1>7. Durable'
  <2> SUFFICES ASSUME ~hist'.exposed PROVE Durable'  BY DEF Durable
  <2>1. CASE etcd' = NoRoot
    <3>1. s3 = hist.intent  BY <1>1, <1>2 DEF TaskOK, DeepOK
    <3> QED BY <1>1, <2>1, <3>1 DEF Durable, Current
  <2>2. CASE etcd' = etcd  BY <1>1, <1>2, <2>2, IntactKept
  <2> QED BY <1>1, <2>1, <2>2
<1> QED BY <1>1, <1>2, <1>4, <1>5, <1>6, <1>7, BigStep

\* What a collection takes is neither in the record nor part of a write that goes on.
LEMMA GCDeleteInv == ASSUME CacheInv, NEW t \in Tasks, GCDelete(t) PROVE CacheInv'
<1> DEFINE hit(u) == /\ task[u].op \in {"flush", "upload"}
                     /\ \E c \in DOMAIN task[u].path : \E i \in DOMAIN task[u].path[c] :
                           task[u].path[c][i][2] < task[t].ts[GetReplica[i]]
<1>1. /\ task[t].pc = "gcdel" /\ UNCHANGED <<policy, etcd, s3, vers, hist>>
      /\ wc' = [s \in Servers |-> DeleteEntryFromWriteCache(t, s)]
      /\ task' = [u \in Tasks |->
                     [task[u] EXCEPT !.gcHit = @ \/ hit(u), !.pc = IF u = t THEN "gcend" ELSE @]]
  BY DEF GCDelete, At, fixed
<1>2. /\ TypeOK /\ Durable /\ TaskOK(task[t]) /\ PlaceOK(task[t]) /\ AccountOK /\ TasksOK
      /\ RecordOK /\ policy # "nocache" /\ hist \in Histories
  BY <1>1, CleanerFacts
\* A chunk that was there and is old enough to stay, or named by the record, is there.
<1>3. ASSUME NEW s \in Servers, NEW ik \in DOMAIN wc[s],
             ~(ik[2] < task[t].ts[s]) \/ ik \in KeysOn(task[t].root, s)
      PROVE  ik \in DOMAIN wc'[s] /\ wc'[s][ik] = wc[s][ik]
  BY <1>1, <1>3 DEF DeleteEntryFromWriteCache, Collectable
<1>4. ASSUME NEW u \in Tasks
      PROVE  /\ DOMAIN task'[u] = Fields /\ task'[u].gcHit \in BOOLEAN
             /\ task'[u].gcHit <=> task[u].gcHit \/ hit(u)
             /\ task'[u].pc = IF u = t THEN "gcend" ELSE task[u].pc
             /\ \A f \in Fields \ {"gcHit", "pc"} : task'[u][f] = task[u][f]
  <2>1. DOMAIN task[u] = Fields /\ task[u].gcHit \in BOOLEAN  BY <1>2 DEF TypeOK
  <2> HIDE DEF hit
  <2> QED BY <1>1, <2>1, FieldNames
<1> HIDE DEF hit
<1>5. ASSUME NEW u \in Tasks
      PROVE  /\ task'[u].op = task[u].op /\ task'[u].ver = task[u].ver /\ task'[u].todo = task[u].todo
             /\ task'[u].path = task[u].path /\ task'[u].root = task[u].root
             /\ task'[u].dl = task[u].dl /\ task'[u].ts = task[u].ts
             /\ task'[u].after = task[u].after /\ task'[u].res = task[u].res
             /\ task'[u].why = task[u].why /\ task'[u].chunk = task[u].chunk
  <2>1. {"op", "ver", "todo", "path", "root", "dl", "ts", "after", "res", "why", "chunk"}
           \subseteq Fields \ {"gcHit", "pc"}
    BY FieldNames
  <2> QED BY <1>4, <2>1
<1>6. TypeOK'  BY <1>1, <1>2, <1>4 DEF TypeOK
<1>7. ASSUME NEW u \in Tasks PROVE TaskOK(task[u])'
  <2> DEFINE k == task[u]
             j == task'[u]
  <2>1. TaskOK(k)  BY <1>2 DEF TasksOK
  <2>4. /\ j.op = k.op /\ j.ver = k.ver /\ j.todo = k.todo /\ j.path = k.path /\ j.root = k.root
        /\ j.dl = k.dl /\ j.ts = k.ts /\ j.after = k.after /\ j.res = k.res /\ j.why = k.why
        /\ j.chunk = k.chunk /\ (j.gcHit <=> k.gcHit \/ hit(u))
    BY <1>4, <1>5
  <2>5. u # t => j.pc = k.pc  BY <1>4
  <2>6. UNCHANGED <<policy, etcd, s3, vers, hist>>  BY <1>1
  <2>2. CASE u # t
    <3>1. PlaceOK(k)'  BY <2>1, <2>2, <2>4, <2>5 DEF TaskOK, PlaceOK
    <3>2. Booked(k)'  BY <2>1, <2>2, <2>4, <2>5, <2>6 DEF TaskOK, Booked, Writer
    <3>3. Gathered(k)'
      BY <2>1, <2>2, <2>4, <2>5, <2>6 DEF TaskOK, Gathered, Writer, Whole
    <3>4. NoCacheOK(k)' /\ DeepOK(k)' /\ DeleteOK(k)'
      BY <2>1, <2>2, <2>4, <2>5, <2>6 DEF TaskOK, NoCacheOK, DeepOK, DeleteOK
    <3>5. CollectOK(k)'
      BY <2>1, <2>2, <2>4, <2>5, <2>6 DEF TaskOK, CollectOK, KeysOn
    <3>6. Kept(k)'
      <4> SUFFICES ASSUME Writer(k), ~k.gcHit, ~hit(u), ~hist.exposed,
                          NEW c \in DOMAIN k.path, NEW i \in DOMAIN k.path[c]
                   PROVE  /\ k.path[c][i] \in DOMAIN wc'[GetReplica[i]]
                          /\ wc'[GetReplica[i]][k.path[c][i]] = k.ver
        BY <2>4, <2>6 DEF Kept, Writer
      <4>1. /\ k.path[c][i] \in DOMAIN wc[GetReplica[i]]
            /\ wc[GetReplica[i]][k.path[c][i]] = k.ver
        BY <2>1 DEF TaskOK, Kept
      <4>2. GetReplica[i] \in Servers  BY <2>1, Constants DEF TaskOK, Gathered
      <4>3. ~(k.path[c][i][2] < task[t].ts[GetReplica[i]])  BY DEF hit, Writer
      <4> QED BY <1>3, <4>1, <4>2, <4>3
    <3> QED BY <3>1, <3>2, <3>3, <3>4, <3>5, <3>6 DEF TaskOK
  <2>3. CASE u = t
    <3>1. k.pc = "gcdel" /\ task'[u].pc = "gcend"  BY <1>1, <1>4, <2>3
    <3>2. PlaceOK(k)'
      BY <2>1, <2>4, <3>1, CleaningOps DEF TaskOK, PlaceOK, Cleaning
    <3>3. Booked(k)'  BY <2>1, <2>4, <2>6, <3>1 DEF TaskOK, Booked, Writer
    <3>4. Gathered(k)'
      BY <2>1, <2>4, <3>1 DEF TaskOK, Gathered, Writer, Whole, Cleaning
    <3>5. NoCacheOK(k)' /\ DeepOK(k)' /\ DeleteOK(k)' /\ CollectOK(k)'
      BY <1>2, <2>6, <3>1 DEF NoCacheOK, DeepOK, DeleteOK, CollectOK
    <3>6. Kept(k)'
      <4> SUFFICES ASSUME Writer(k), ~k.gcHit, ~hit(u), ~hist.exposed,
                          NEW c \in DOMAIN k.path, NEW i \in DOMAIN k.path[c]
                   PROVE  /\ k.path[c][i] \in DOMAIN wc'[GetReplica[i]]
                          /\ wc'[GetReplica[i]][k.path[c][i]] = k.ver
        BY <2>4, <2>6 DEF Kept, Writer
      <4>1. /\ k.path[c][i] \in DOMAIN wc[GetReplica[i]]
            /\ wc[GetReplica[i]][k.path[c][i]] = k.ver
        BY <2>1 DEF TaskOK, Kept
      <4>2. GetReplica[i] \in Servers  BY <2>1, Constants DEF TaskOK, Gathered
      <4>3. ~(k.path[c][i][2] < task[t].ts[GetReplica[i]])  BY DEF hit, Writer
      <4> QED BY <1>3, <4>1, <4>2, <4>3
    <3> QED BY <3>2, <3>3, <3>4, <3>5, <3>6 DEF TaskOK
  <2> QED BY <2>2, <2>3
<1>8. AccountOK'
  <2>1. Removers' = Removers  BY <1>5 DEF Removers
  <2>2. UNCHANGED <<vers, hist>>  BY <1>1
  <2>3. ASSUME NEW u \in Tasks, NEW w \in Tasks, u # w, Writer(task'[u]), Writer(task'[w])
        PROVE  task'[u].ver # task'[w].ver
    BY <1>2, <1>5, <2>3 DEF AccountOK, Writer
  <2> QED BY <1>2, <2>1, <2>2, <2>3 DEF AccountOK, Writer
<1>9. Durable'
  <2> SUFFICES ASSUME ~hist.exposed PROVE Durable'  BY <1>1 DEF Durable
  <2>1. ASSUME NEW s \in Servers, NEW ik \in KeysOn(etcd, s), ik \in DOMAIN wc[s]
        PROVE  ik \in DOMAIN wc'[s] /\ wc'[s][ik] = wc[s][ik]
    BY <1>1, <1>2, <1>3, <2>1 DEF TaskOK, CollectOK
  <2> QED BY <1>1, <1>2, <2>1, IntactKept
<1> QED BY <1>1, <1>2, <1>6, <1>7, <1>8, <1>9 DEF CacheInv, TasksOK, RecordOK

------------------------------------------------------------------------------
(***************************************************************************)
(* Faults, and the whole                                                   *)
(***************************************************************************)
\* A step of no task.
LEMMA StillStep ==
    ASSUME CacheInv, SameWorld, UNCHANGED task PROVE CacheInv'
<1>1. TypeOK'  BY DEF CacheInv, TypeOK, SameWorld, SameBooks
<1>2. TasksOK'
  <2> SUFFICES ASSUME NEW u \in Tasks PROVE TaskOK(task[u])'  BY DEF TasksOK
  <2>1. TaskOK(task[u]) /\ vers <= vers /\ TypeOK  BY Constants DEF CacheInv, TasksOK, TypeOK
  <2> QED BY <1>1, <2>1, OthersOK DEF SameWorld, SameBooks
<1>3. AccountOK'  BY DEF CacheInv, AccountOK, SameWorld, SameBooks, Removers, Writer
<1>4. Durable'
  <2>1. ~hist.exposed => Durable'  BY IntactKept DEF CacheInv, SameWorld, SameBooks
  <2> QED BY <2>1 DEF Durable, SameWorld, SameBooks
<1> QED BY <1>1, <1>2, <1>3, <1>4 DEF CacheInv, RecordOK, SameWorld

LEMMA FaultInv ==
    ASSUME CacheInv,
           \/ \E s \in Servers : ServerDown(s) \/ ServerUp(s) \/ ServerRestart(s)
           \/ \E n \in Nodes : MetaEvict(n)
    PROVE  CacheInv'
<1>1. UNCHANGED <<task, policy, etcd, s3, wc, vers>>
  BY DEF ServerDown, ServerUp, ServerRestart, MetaEvict, Quiet, fixed, stores
<1>2. TypeOK /\ hist \in Histories  BY DEF CacheInv, TypeOK
<1>3. SameBooks
  <2>1. CASE hist' = hist  BY <1>2, <2>1 DEF SameBooks
  <2>2. CASE \E s \in Servers : hist' = [hist EXCEPT !.idReset = @ \/ nextId[s] > 0]
    BY <1>2, <2>2 DEF SameBooks, Histories
  <2> QED BY <2>1, <2>2 DEF ServerDown, ServerUp, ServerRestart, MetaEvict
<1> QED BY <1>1, <1>3, StillStep DEF SameWorld

LEMMA InitCacheInv == Init => CacheInv
<1> SUFFICES ASSUME Init PROVE CacheInv  OBVIOUS
<1> DEFINE h == [intent |-> s3, exposed |-> FALSE, rcStale |-> FALSE, open |-> {},
                 effective |-> {}, acked |-> {}, removing |-> 0, idReset |-> FALSE]
<1>1. /\ task = [t \in Tasks |-> Idle] /\ vers \in {0, 1} /\ s3 = vers /\ etcd = NoRoot
      /\ hist = h
  BY DEF Init
<1>2. vers \in 0 .. MaxVer /\ 0 <= MaxVer  BY <1>1, Constants
<1>3. TypeOK
  <2>1. h \in Histories  BY <1>1, <1>2 DEF Histories
  <2> QED BY <1>1, <1>2, <2>1, IdleFields DEF TypeOK
<1>4. TasksOK
  <2> SUFFICES ASSUME NEW t \in Tasks PROVE TaskOK(task[t])  BY DEF TasksOK
  <2>1. task[t].op = "none" /\ task[t].pc = "idle"  BY <1>1, IdleFields
  <2> QED BY <2>1 DEF TaskOK, PlaceOK, Booked, Gathered, Kept, NoCacheOK, DeepOK, DeleteOK,
                      CollectOK, Looking, Writer
<1>5. AccountOK
  <2>1. Removers = {}  BY <1>1, IdleFields DEF Removers
  <2>2. ASSUME NEW t \in Tasks PROVE ~Writer(task[t])  BY <1>1, IdleFields DEF Writer
  <2> QED BY <1>1, <2>1, <2>2, FS_EmptySet DEF AccountOK
<1>6. Durable  BY <1>1 DEF Durable, Current
<1> QED BY <1>1, <1>3, <1>4, <1>5, <1>6 DEF CacheInv, RecordOK

LEMMA StepCacheInv == CacheInv /\ [Next]_vars => CacheInv'
<1> SUFFICES ASSUME CacheInv, [Next]_vars PROVE CacheInv'  OBVIOUS
<1>1. CASE UNCHANGED vars
  <2>1. UNCHANGED <<policy, etcd, s3, wc, vers, hist, task>>  BY <1>1 DEF vars, fixed, stores
  <2>2. SameWorld  BY <2>1, BooksKept DEF CacheInv
  <2> QED BY <2>1, <2>2, StillStep
<1>2. ASSUME NEW t \in Tasks, Flush(t) PROVE CacheInv'
  BY <1>2, StartFlushInv, InvalidateInv, PartPutInv, CompleteFlushInv, PutJsonInv DEF Flush
<1>3. ASSUME NEW t \in Tasks, Upload(t) PROVE CacheInv'
  BY <1>3, StartUploadInv, InvalidateInv, UpPutInv, UpBaseInv, UpEndInv DEF Upload
<1>4. ASSUME NEW t \in Tasks, Read(t) \/ Head_(t) PROVE CacheInv'
  BY <1>4, ReadLooks, HeadLooks, LooksInv
<1>5. ASSUME NEW t \in Tasks, Delete(t) PROVE CacheInv'
  BY <1>5, StartDeleteInv, DeleteBaseInv, DeleteInvalidateInv, DeleteJsonInv DEF Delete
<1>6. ASSUME NEW t \in Tasks, DeepFlush(t) PROVE CacheInv'
  BY <1>6, CleanStarts, DeepJsonInv, DeepDownLoadInv, DeepUpLoadInv, DeepDeleteInv DEF DeepFlush
<1>7. ASSUME NEW t \in Tasks, GarbageCollect(t) PROVE CacheInv'
  BY <1>7, CleanStarts, GCListing, GCDeleteInv DEF GarbageCollect
<1> QED BY <1>1, <1>2, <1>3, <1>4, <1>5, <1>6, <1>7, FaultInv DEF Next, Step

LEMMA CacheInvAlways == Spec => []CacheInv
BY InitCacheInv, StepCacheInv, PTL DEF Spec

\* Unless the record was in danger, the object is what the last write or delete that took
\* effect made it, whatever the collector, the deep flush, failing servers, restarts and
\* failed uploads do (global_data_adaptor.cpp, write_cache_client.cpp,
\* garbage_collector_main.cpp).
THEOREM ObjectIsDurable == Spec => []Durable
BY CacheInvAlways, PTL DEF CacheInv

------------------------------------------------------------------------------
(***************************************************************************)
(* The atomic cell                                                         *)
(***************************************************************************)
\* The cell as the books have it.
Book == INSTANCE ObjectStore WITH
    Versions <- 1 .. MaxVer, store <- hist.intent,
    open <- hist.open, effective <- hist.effective, acked <- hist.acked,
    removing <- hist.removing

\* While the invariant holds, that is the cell the specification promises.
LEMMA BookIsCell ==
    ASSUME CacheInv, CacheInv', [Book!Next]_(Book!vars)
    PROVE  [Cell!Next]_(Cell!vars)
<1>1. (IF hist.exposed THEN hist.intent ELSE Current) = hist.intent  BY DEF CacheInv, Durable
<1>2. (IF hist.exposed THEN hist.intent ELSE Current)' = hist'.intent  BY DEF CacheInv, Durable
<1>3. CASE UNCHANGED Book!vars  BY <1>1, <1>2, <1>3 DEF Book!vars, Cell!vars
<1>4. CASE Book!Next
  BY <1>1, <1>2, <1>4
     DEF Book!Next, Book!Begin, Book!Take, Book!TakeAndAck, Book!Ack, Book!Fail,
         Book!TakeAndFail, Book!BeginRemove, Book!Remove,
         Cell!Next, Cell!Begin, Cell!Take, Cell!TakeAndAck, Cell!Ack, Cell!Fail,
         Cell!TakeAndFail, Cell!BeginRemove, Cell!Remove
<1> QED BY <1>3, <1>4

LEMMA SameBooksStutter == ASSUME SameBooks PROVE UNCHANGED Book!vars
BY DEF SameBooks, Book!vars

BookStep == [Book!Next]_(Book!vars)

LEMMA Unbooked == ASSUME UNCHANGED hist PROVE BookStep
BY DEF BookStep, Book!vars

\* A write in the books.
LEMMA BooksOf ==
    ASSUME NEW v \in 1 .. MaxVer, hist'.removing = hist.removing,
           \/ /\ v \notin hist.open \cup hist.effective \cup hist.acked
              /\ hist'.open = hist.open \cup {v} /\ hist'.intent = hist.intent
              /\ hist'.effective = hist.effective /\ hist'.acked = hist.acked
           \/ /\ v \in hist.open /\ hist'.open = hist.open \ {v} /\ hist'.intent = v
              /\ \/ hist'.effective = hist.effective \cup {v} /\ hist'.acked = hist.acked
                 \/ hist'.effective = hist.effective /\ hist'.acked = hist.acked \cup {v}
                 \/ hist'.effective = hist.effective /\ hist'.acked = hist.acked
           \/ /\ v \in hist.effective /\ hist'.open = hist.open /\ hist'.intent = hist.intent
              /\ hist'.effective = hist.effective \ {v} /\ hist'.acked = hist.acked \cup {v}
           \/ /\ v \in hist.open /\ hist'.open = hist.open \ {v} /\ hist'.intent = hist.intent
              /\ hist'.effective = hist.effective \ {v} /\ hist'.acked = hist.acked
    PROVE  BookStep
BY DEF BookStep, Book!Next, Book!Begin, Book!Take, Book!TakeAndAck, Book!Ack, Book!Fail,
       Book!TakeAndFail

LEMMA StartBooks ==
    ASSUME CacheInv, NEW t \in Tasks, StartFlush(t) \/ StartUpload(t) PROVE BookStep
<1> DEFINE v == vers + 1
<1>1. hist \in Histories /\ AccountOK /\ vers \in 0 .. MaxVer  BY DEF CacheInv, TypeOK
<1>2. vers < MaxVer /\ hist' = [hist EXCEPT !.open = @ \cup {v}]  BY DEF StartFlush, StartUpload
<1>3. v \in 1 .. MaxVer /\ v \notin hist.open \cup hist.effective \cup hist.acked
  <2>1. v \in 1 .. MaxVer /\ v \notin 1 .. vers  BY <1>1, <1>2, Constants
  <2> QED BY <1>1, <2>1 DEF AccountOK
<1> HIDE DEF v
<1>4. /\ hist'.open = hist.open \cup {v} /\ hist'.intent = hist.intent
      /\ hist'.effective = hist.effective /\ hist'.acked = hist.acked
      /\ hist'.removing = hist.removing
  BY <1>1, <1>2 DEF Histories
<1> QED BY <1>3, <1>4, BooksOf

LEMMA WriteBooks ==
    ASSUME CacheInv, NEW t \in Tasks,
           CompleteFlush(t) \/ PutJson(t) \/ UpBase(t) \/ UpMeta(t) \/ UpFail(t)
    PROVE  BookStep
<1> DEFINE k == task[t]
           v == k.ver
<1>1. k.pc \in {"part", "upput", "json", "upmeta", "fail"}
  BY DEF CompleteFlush, PutJson, UpBase, UpMeta, UpFail, At
<1>2. /\ TypeOK /\ TaskOK(k) /\ Writer(k) /\ hist \in Histories /\ AccountOK /\ v \in 1 .. MaxVer
      /\ k.gcHit \in BOOLEAN
  BY <1>1, WriterFacts
<1>3. /\ k.pc = "upmeta" => v \in hist.effective
      /\ k.pc # "upmeta" => v \in hist.open /\ hist.effective \ {v} = hist.effective
      /\ (hist.effective \cup {v}) \ {v} = hist.effective \ {v}
      /\ (hist.open \ {v}) \ {v} = hist.open \ {v}
  BY <1>2 DEF TaskOK, Booked, AccountOK
<1> HIDE DEF v
<1>4. CASE CompleteFlush(t) \/ UpFail(t)
  <2>1. CASE UNCHANGED hist  BY <2>1, Unbooked
  <2>2. CASE hist' = [hist EXCEPT !.open = @ \ {v}]
    <3>1. /\ hist'.open = hist.open \ {v} /\ hist'.intent = hist.intent
          /\ hist'.effective = hist.effective /\ hist'.acked = hist.acked
          /\ hist'.removing = hist.removing
      BY <1>2, <2>2 DEF Histories
    <3>2. k.pc # "upmeta"  BY <1>4 DEF CompleteFlush, UpFail, At
    <3> QED BY <1>2, <1>3, <3>1, <3>2, BooksOf
  <2> QED BY <1>4, <2>1, <2>2 DEF CompleteFlush, UpFail, v
<1>5. CASE UpMeta(t)
  <2>1. hist' = [hist EXCEPT !.effective = @ \ {v}, !.acked = @ \cup {v}] /\ k.pc = "upmeta"
    BY <1>5 DEF UpMeta, At, v
  <2>2. /\ hist'.open = hist.open /\ hist'.intent = hist.intent
        /\ hist'.effective = hist.effective \ {v} /\ hist'.acked = hist.acked \cup {v}
        /\ hist'.removing = hist.removing
    BY <1>2, <2>1 DEF Histories
  <2> QED BY <1>2, <1>3, <2>1, <2>2, BooksOf
<1>6. CASE UpBase(t)
  <2>1. CASE UNCHANGED hist  BY <2>1, Unbooked
  <2>2. CASE hist' = [hist EXCEPT !.intent = v, !.open = @ \ {v}, !.effective = @ \cup {v}]
    <3>1. /\ hist'.open = hist.open \ {v} /\ hist'.intent = v
          /\ hist'.effective = hist.effective \cup {v} /\ hist'.acked = hist.acked
          /\ hist'.removing = hist.removing
      BY <1>2, <2>2 DEF Histories
    <3>2. k.pc # "upmeta"  BY <1>6 DEF UpBase, At
    <3> QED BY <1>2, <1>3, <3>1, <3>2, BooksOf
  <2> QED BY <1>6, <2>1, <2>2 DEF UpBase, v
<1>7. CASE PutJson(t)
  <2> DEFINE ack(h, st) == [h EXCEPT !.open = @ \ {v}, !.effective = @ \ {v},
                              !.acked = IF st = "OK" THEN @ \cup {v} ELSE @]
  <2>1. ASSUME NEW h \in Histories, NEW st
        PROVE  /\ ack(h, st).intent = h.intent /\ ack(h, st).removing = h.removing
               /\ ack(h, st).open = h.open \ {v} /\ ack(h, st).effective = h.effective \ {v}
               /\ ack(h, st).acked = IF st = "OK" THEN h.acked \cup {v} ELSE h.acked
    BY <2>1 DEF Histories
  <2>2. \/ hist' = ack(Committed(k), "OK")
        \/ hist' = Committed(k)
        \/ hist' = ack(hist, "METADATA_ERROR")
        \/ hist' = ack(Committed(k), "METADATA_ERROR")
    BY <1>7 DEF PutJson, v
  <2> HIDE DEF ack
  <2>3. k.pc # "upmeta"  BY <1>7 DEF PutJson, At
  <2> DEFINE h == Committed(k)
  <2>4. /\ h \in Histories /\ h.intent = v /\ h.removing = hist.removing
        /\ h.open = hist.open \ {v} /\ h.effective = hist.effective \cup {v}
        /\ h.acked = hist.acked
    BY <1>2, CommittedBooks DEF v
  <2> HIDE DEF h
  <2>5. CASE hist' = h  BY <1>2, <1>3, <2>3, <2>4, <2>5, BooksOf
  <2>6. CASE hist' = ack(h, "OK")
    <3>1. /\ hist'.open = hist.open \ {v} /\ hist'.intent = v
          /\ hist'.effective = hist.effective /\ hist'.acked = hist.acked \cup {v}
          /\ hist'.removing = hist.removing
      <4>1. /\ hist'.open = h.open \ {v} /\ hist'.effective = h.effective \ {v}
            /\ hist'.intent = h.intent /\ hist'.removing = h.removing
            /\ hist'.acked = h.acked \cup {v}
        BY <2>1, <2>4, <2>6
      <4> QED BY <1>3, <2>3, <2>4, <4>1
    <3> QED BY <1>2, <1>3, <2>3, <3>1, BooksOf
  <2>7. CASE hist' = ack(h, "METADATA_ERROR")
    <3>1. /\ hist'.open = hist.open \ {v} /\ hist'.intent = v
          /\ hist'.effective = hist.effective /\ hist'.acked = hist.acked
          /\ hist'.removing = hist.removing
      <4>1. /\ hist'.open = h.open \ {v} /\ hist'.effective = h.effective \ {v}
            /\ hist'.intent = h.intent /\ hist'.removing = h.removing
            /\ hist'.acked = h.acked
        BY <2>1, <2>4, <2>7
      <4> QED BY <1>3, <2>3, <2>4, <4>1
    <3> QED BY <1>2, <1>3, <2>3, <3>1, BooksOf
  <2>8. CASE hist' = ack(hist, "METADATA_ERROR")
    <3>1. /\ hist'.open = hist.open \ {v} /\ hist'.intent = hist.intent
          /\ hist'.effective = hist.effective \ {v} /\ hist'.acked = hist.acked
          /\ hist'.removing = hist.removing
      BY <1>2, <2>1, <2>8
    <3> QED BY <1>2, <1>3, <2>3, <3>1, BooksOf
  <2> QED BY <2>2, <2>5, <2>6, <2>7, <2>8 DEF h
<1> QED BY <1>4, <1>5, <1>6, <1>7

LEMMA DeleteBooks == ASSUME CacheInv, NEW t \in Tasks, Delete(t) PROVE BookStep
<1>1. hist \in Histories  BY DEF CacheInv, TypeOK
<1>2. CASE StartDelete(t)
  <2>1. hist' = [hist EXCEPT !.removing = @ + 1]  BY <1>2 DEF StartDelete
  <2>2. /\ hist'.intent = hist.intent
        /\ hist'.open = hist.open /\ hist'.effective = hist.effective
        /\ hist'.acked = hist.acked /\ hist'.removing = hist.removing + 1
    BY <1>1, <2>1 DEF Histories
  <2> QED BY <2>2 DEF BookStep, Book!Next, Book!BeginRemove
\* Only a removal under way removes.
<1>3. ASSUME task[t].pc \in {"dels3", "delinv", "deljson"},
             hist'.intent \in {None, hist.intent},
             hist'.removing \in {hist.removing, hist.removing - 1},
             hist'.open = hist.open, hist'.effective = hist.effective, hist'.acked = hist.acked
      PROVE  BookStep
  <2>1. hist.removing \in Nat /\ hist.removing - 1 \in Nat  BY <1>3, DeleterFacts
  <2>2. hist.removing > 0  BY <2>1
  <2> QED BY <1>3, <2>2 DEF BookStep, Book!Next, Book!Remove
<1>4. CASE DeleteBase(t)
  BY <1>1, <1>3, <1>4 DEF DeleteBase, At, Histories
<1>5. CASE DeleteInvalidate(t)
  BY <1>1, <1>3, <1>5 DEF DeleteInvalidate, At, Histories
<1>6. CASE DeleteJson(t)
  BY <1>1, <1>3, <1>6 DEF DeleteJson, At, Histories
<1> QED BY <1>2, <1>4, <1>5, <1>6 DEF Delete

\* Every other step leaves the books alone, but for what it exposes.
LEMMA OtherBooks ==
    ASSUME CacheInv, NEW t \in Tasks,
           \/ UpInvalidate(t) \/ UpPut(t)
           \/ \E c \in task[t].todo : PartInvalidate(t, c) \/ PartPut(t, c)
           \/ Read(t) \/ Head_(t) \/ DeepFlush(t) \/ GarbageCollect(t)
    PROVE  BookStep
<1>1. TypeOK /\ hist \in Histories  BY DEF CacheInv, TypeOK
<1>2. ASSUME SameBooks PROVE BookStep  BY <1>2, SameBooksStutter DEF BookStep
<1>3. CASE UpInvalidate(t) \/ \E c \in task[t].todo : PartInvalidate(t, c)
  <2>1. PICK top : Invalidate(top)  BY <1>3 DEF UpInvalidate, PartInvalidate
  <2>2. UNCHANGED <<policy, etcd, s3, wc, vers>>
    BY <1>3 DEF UpInvalidate, PartInvalidate, fixed
  <2> QED BY <1>1, <1>2, <2>1, <2>2, InvalidateBooks DEF SameWorld
<1>4. CASE UpPut(t) \/ \E c \in task[t].todo : PartPut(t, c)
  <2>1. \E C, v : Puts(C, v)  BY <1>4 DEF UpPut, PartPut, Puts
  <2> QED BY <1>1, <1>2, <2>1, PutBooks
<1>5. CASE Read(t) \/ Head_(t)
  <2>1. Looks(t)  BY <1>5, ReadLooks, HeadLooks
  <2> QED BY <1>2, <2>1 DEF Looks, SameBooks
<1>6. CASE DeepFlush(t)
  <2>1. ASSUME NEW b, hist' = [hist EXCEPT !.exposed = b] PROVE BookStep
    BY <1>1, <2>1 DEF BookStep, Book!vars, Histories
  <2>2. CASE DeepDownLoad(t)
    <3>1. hist' = hist \/ \E b : hist' = [hist EXCEPT !.exposed = b]
      BY <2>2 DEF DeepDownLoad
    <3> QED BY <2>1, <3>1, Unbooked
  <2>3. CASE DeepUpLoad(t)  BY <2>1, <2>3, Unbooked DEF DeepUpLoad
  <2>4. CASE StartDeepFlush(t) \/ DeepJson(t) \/ DeepDelete(t)
    BY <2>4, Unbooked DEF StartDeepFlush, DeepJson, DeepDelete
  <2> QED BY <1>6, <2>2, <2>3, <2>4 DEF DeepFlush
<1>7. CASE GarbageCollect(t)
  BY <1>7, Unbooked DEF GarbageCollect, StartGC, GCQueryTs, GCList, GCRecheck, GCDelete, GCEnd
<1> QED BY <1>3, <1>4, <1>5, <1>6, <1>7

LEMMA FaultBooks ==
    ASSUME CacheInv,
           \/ \E s \in Servers : ServerDown(s) \/ ServerUp(s) \/ ServerRestart(s)
           \/ \E n \in Nodes : MetaEvict(n)
    PROVE  BookStep
<1>1. hist \in Histories  BY DEF CacheInv, TypeOK
<1>2. ASSUME NEW b, hist' = [hist EXCEPT !.idReset = b] PROVE BookStep
  BY <1>1, <1>2 DEF BookStep, Book!vars, Histories
<1>3. hist' = hist \/ \E b : hist' = [hist EXCEPT !.idReset = b]
  BY DEF ServerDown, ServerUp, ServerRestart, MetaEvict
<1> QED BY <1>2, <1>3, Unbooked

LEMMA CellStep == ASSUME CacheInv, [Next]_vars PROVE [Cell!Next]_(Cell!vars)
<1>1. CacheInv'  BY StepCacheInv
<1>2. BookStep
  <2>1. CASE UNCHANGED vars  BY <2>1, Unbooked DEF vars
  <2>2. CASE Next
    <3>1. ASSUME NEW t \in Tasks, Flush(t) \/ Upload(t) PROVE BookStep
      BY <3>1, StartBooks, WriteBooks, OtherBooks DEF Flush, Upload
    <3>2. ASSUME NEW t \in Tasks, Read(t) \/ Head_(t) \/ DeepFlush(t) \/ GarbageCollect(t)
          PROVE  BookStep
      BY <3>2, OtherBooks
    <3> QED BY <2>2, <3>1, <3>2, DeleteBooks, FaultBooks DEF Next, Step
  <2> QED BY <2>1, <2>2
<1> QED BY <1>1, <1>2, BookIsCell DEF BookStep

LEMMA CellInit == Init => Cell!Init
<1> SUFFICES ASSUME Init PROVE Cell!Init  OBVIOUS
<1>1. /\ hist = [intent |-> s3, exposed |-> FALSE, rcStale |-> FALSE, open |-> {},
                 effective |-> {}, acked |-> {}, removing |-> 0, idReset |-> FALSE]
      /\ vers \in {0, 1} /\ s3 = vers /\ etcd = NoRoot
  BY DEF Init
<1>2. s3 \in (1 .. MaxVer) \cup {None}  BY <1>1, Constants DEF None
<1> QED BY <1>1, <1>2 DEF Cell!Init, Current

\* The global cache implements the atomic cell: a write takes effect once, between its
\* start and its acknowledgement, nothing but a write or a removal somebody asked for
\* changes the object, and no write is acknowledged before it took effect.
THEOREM ImplementsAtomicCell == Spec => ImplementsCell
BY CellInit, CellStep, CacheInvAlways, PTL DEF Spec, ImplementsCell, Cell!Spec

------------------------------------------------------------------------------
(***************************************************************************)
(* Reads are fresh: the invariant                                          *)
(***************************************************************************)
Undisturbed == ~hist.exposed /\ ~hist.idReset

\* An internal key that a record or a write names has been handed out, and what a
\* server has under it is the version that it was handed out for.
KeyIn(ik, v, chunks, next) ==
    /\ ik[2] \in Nat /\ ik[2] < next
    /\ ik \in DOMAIN chunks => chunks[ik] = v

RootIn(root, w, ids) ==
    /\ root.size \in Nat /\ Len(root.path) = root.size * R
    /\ \A s \in Servers : \A ik \in KeysOn(root, s) : KeyIn(ik, root.ver, w[s], ids[s])

PathIn(k, w, ids) ==
    Writer(k) => \A c \in DOMAIN k.path : \A i \in DOMAIN k.path[c] :
                    KeyIn(k.path[c][i], k.ver, w[GetReplica[i]], ids[GetReplica[i]])

MetaIn(m, w, ids) == RootIn(m.root, w, ids) /\ (m.wcached => m.root # NoRoot)

\* Every record that is, or was, about: in etcd, in a metadata cache, in a call.
RootsOK ==
    /\ RootIn(etcd, wc, nextId)
    /\ \A n \in Nodes : MetaIn(meta[n], wc, nextId)
    /\ \A t \in Tasks : RootIn(task[t].root, wc, nextId) /\ PathIn(task[t], wc, nextId)

\* The chunks that a write has taken out of the read caches.
Invalidated(k) ==
    IF Writer(k) /\ k.pc \in {"upput", "json"} THEN 1 .. SizeOf[k.ver]
    ELSE IF k.op = "flush" /\ k.res = "OK" THEN (1 .. SizeOf[k.ver]) \ (k.todo \ k.inv) ELSE {}

\* A chunk in a read cache is the object's, or lies beyond its end.
ChunksOK ==
    ~hist.rcStale =>
       \A s \in Servers : \A c \in DOMAIN rc[s] :
          /\ hist.intent # None /\ c <= SizeOf[hist.intent] => rc[s][c] = hist.intent
          /\ \A t \in Tasks : c \notin Invalidated(task[t])

\* What a read or a Head has found so far is something the object was since it began.
Found(k, base, S) ==
    /\ k.pc = "rmeta" => k.root # NoRoot
    /\ k.pc = "wild" => k.why # {}
    /\ k.why = {} =>
          /\ k.pc \in {"rmeta", "wcget"} => k.root = NoRoot \/ k.root.ver \in S
          /\ k.pc \in {"rhead", "rhset", "rcget", "fillhead", "fillget", "s3get", "hbase"}
                => base \in S
          /\ k.pc \in {"fillput", "hmeta", "hset"} => k.ver \in S

Looker(k) == k.op \in {"read", "head"}
ChunkSeen(t) ==
    task[t].op = "read" /\ ~hist.rcStale =>
       \A s \in Servers : task[t].chunk \in DOMAIN rc[s] => rc[s][task[t].chunk] \in seen[t]
LookOK(t) ==
    Looker(task[t]) =>
       /\ hist.intent \in seen[t] /\ (hist.removing > 0 => None \in seen[t])
       /\ ChunkSeen(t) /\ Found(task[t], s3, seen[t])

MetaFields == {"gen", "present", "existed", "wcached", "size", "root"}
MetaTypes == meta = [n \in Nodes |-> meta[n]] /\ \A n \in Nodes : DOMAIN meta[n] = MetaFields
ReadPlaces == {"notfound", "eof", "rjson", "rmeta", "rhead", "rhset", "wcget", "wild", "rcget",
               "fillhead", "fillget", "fillput", "s3get"}
HeadPlaces == {"hmeta", "hjson", "hbase", "hset"}
CallOK(k) ==
    /\ k.op = "read" => k.chunk \in Nat \ {0}
    /\ (k.pc \in ReadPlaces => k.op = "read") /\ (k.pc \in HeadPlaces => k.op = "head")
LookTypes ==
    /\ nodeOf \in [Tasks -> Nodes] /\ policy \in {"replication", "nocache"}
    /\ nextId \in [Servers -> Nat]
    /\ rc = [s \in Servers |-> rc[s]] /\ \A s \in Servers : DOMAIN rc[s] \subseteq Nat \ {0}
    /\ MetaTypes /\ \A t \in Tasks : CallOK(task[t])

FreshInv ==
    /\ LookTypes /\ ReadFresh
    /\ Undisturbed => RootsOK /\ ChunksOK /\ \A t \in Tasks : LookOK(t)

------------------------------------------------------------------------------
(***************************************************************************)
(* Keys                                                                    *)
(***************************************************************************)
\* A place in the path of a record belongs to one part and one replica.
LEMMA PlaceOfKey ==
    ASSUME NEW c \in Nat \ {0}, NEW i \in 1 .. R
    PROVE  LET p == (c - 1) * R + i IN p \in Nat \ {0} /\ ((p - 1) % R) + 1 = i
<1> DEFINE a == (c - 1) * R + (i - 1)
           q == a \div R
           r == a % R
<1>1. R \in Nat \ {0} /\ i \in Nat /\ i <= R /\ c - 1 \in Nat  BY Constants
<1>2. (c - 1) * R \in Nat  BY <1>1
<1>3. a \in Nat  BY <1>1, <1>2
<1> HIDE DEF a
<1>4. q \in Nat /\ r \in 0 .. R - 1 /\ a = q * R + r  BY <1>3, DivMod
<1> HIDE DEF q, r
<1>5. q = c - 1
  <2>1. CASE q > c - 1
    <3> DEFINE d == q - c
    <3>1. d \in Nat /\ d * R \in Nat /\ q * R = (c - 1) * R + R + d * R  BY <1>1, <1>4, <2>1
    <3> HIDE DEF d
    <3> QED BY <1>1, <1>2, <1>4, <3>1 DEF a
  <2>2. CASE q < c - 1
    <3> DEFINE d == c - 2 - q
    <3>1. d \in Nat /\ d * R \in Nat /\ (c - 1) * R = q * R + R + d * R  BY <1>1, <1>4, <2>2
    <3>2. q * R \in Nat  BY <1>1, <1>4
    <3> HIDE DEF d
    <3> QED BY <1>1, <1>2, <1>4, <3>1, <3>2 DEF a
  <2> QED BY <1>1, <1>4, <2>1, <2>2
<1>6. r = i - 1  BY <1>1, <1>2, <1>4, <1>5 DEF a
<1>7. (c - 1) * R + i - 1 = a  BY <1>1, <1>2 DEF a
<1> QED BY <1>1, <1>2, <1>6, <1>7 DEF r

LEMMA KeyOfPart ==
    ASSUME NEW root, root.size \in Nat, Len(root.path) = root.size * R,
           NEW c \in 1 .. root.size, NEW i \in 1 .. R
    PROVE  /\ (c - 1) * R + i \in 1 .. Len(root.path)
           /\ root.path[(c - 1) * R + i] \in KeysOn(root, GetReplica[i])
<1> DEFINE p == (c - 1) * R + i
<1>1. R \in Nat \ {0} /\ i \in Nat /\ i <= R /\ c \in Nat \ {0}  BY Constants
<1>2. p \in Nat \ {0} /\ ((p - 1) % R) + 1 = i  BY <1>1, PlaceOfKey
<1>3. p <= root.size * R
  <2>1. root.size - c \in Nat /\ (root.size - c) * R \in Nat  BY <1>1
  <2>2. root.size * R = (c - 1) * R + R + (root.size - c) * R  BY <1>1
  <2>3. (c - 1) * R \in Nat  BY <1>1
  <2> QED BY <1>1, <2>1, <2>2, <2>3
<1>4. p \in 1 .. Len(root.path)
  <2>1. root.size * R \in Nat  BY <1>1
  <2> HIDE DEF p
  <2> QED BY <1>2, <1>3, <2>1
<1> HIDE DEF p
<1>5. root.path[p] \in KeysOn(root, GetReplica[i])  BY <1>2, <1>4 DEF KeysOn
<1> QED BY <1>4, <1>5 DEF p

\* ReplicationWriteCacheClient::Get by the index of the replica it asks finds the version
\* of the record or nothing.
LEMMA GetsRoot ==
    ASSUME NEW root, RootIn(root, wc, nextId), NEW c \in Nat \ {0}, NEW i \in 1 .. R,
           ~WrongKey(i), WriteCacheGetAt(root, c, i)[1] = "OK"
    PROVE  WriteCacheGetAt(root, c, i)[2] = root.ver /\ root # NoRoot
<1>1. root.size \in Nat /\ Len(root.path) = root.size * R  BY DEF RootIn
<1>2. c \in 1 .. root.size  BY <1>1 DEF WriteCacheGetAt
<1>3. ASSUME NEW j \in 1 .. R, GetEntry(GetReplica[j], root.path[(c - 1) * R + j])[1] = "OK"
      PROVE  GetEntry(GetReplica[j], root.path[(c - 1) * R + j])[2] = root.ver
  <2>1. GetReplica[j] \in Servers  BY Constants
  <2>2. root.path[(c - 1) * R + j] \in KeysOn(root, GetReplica[j])  BY <1>1, <1>2, KeyOfPart
  <2>3. KeyIn(root.path[(c - 1) * R + j], root.ver, wc[GetReplica[j]], nextId[GetReplica[j]])
    BY <2>1, <2>2 DEF RootIn
  <2> QED BY <1>3, <2>3 DEF KeyIn, GetEntry, Lookup
<1> DEFINE primary == GetEntry(GetReplica[i], root.path[(c - 1) * R + i])
<1>4. root # NoRoot  BY <1>1, <1>2 DEF NoRoot
<1>5. CASE primary[1] # "RPC_FAILED"
  BY <1>1, <1>2, <1>3, <1>4, <1>5 DEF WriteCacheGetAt
<1>6. CASE primary[1] = "RPC_FAILED"
  <2>1. ~up[GetReplica[i]]  BY <1>6 DEF GetEntry, Lookup
  <2>2. WriteCacheGetAt(root, c, i) = Secondary(root, c, i)  BY <1>1, <1>2, <1>6 DEF WriteCacheGetAt
  <2>3. Others(i) # {}  BY <2>2 DEF Secondary
  <2>4. SecondaryOf(i) \in 1 .. R
    <3>1. Others(i) \subseteq 1 .. R /\ Others(i) \subseteq Nat  BY Constants DEF Others
    <3>2. \E x \in Others(i) : \A y \in Others(i) : x <= y  BY <2>3, <3>1, LeastElement
    <3>3. SecondaryOf(i) \in Others(i)  BY <3>2 DEF SecondaryOf
    <3> QED BY <3>1, <3>3
  <2>5. GetReplica[SecondaryOf(i)] = SecondaryOf(i) - 1  BY <2>1, <2>3 DEF WrongKey
  <2> DEFINE j == SecondaryOf(i)
  <2>6. (c - 1) * R + GetReplica[j] + 1 = (c - 1) * R + j
    <3>1. (c - 1) * R \in Int  BY Constants
    <3> HIDE DEF j
    <3> QED BY <2>4, <2>5, <3>1, Constants DEF j
  <2>7. WriteCacheGetAt(root, c, i) = GetEntry(GetReplica[j], root.path[(c - 1) * R + j])
    BY <2>2, <2>3, <2>6 DEF Secondary
  <2> HIDE DEF j
  <2> QED BY <1>3, <1>4, <2>4, <2>7 DEF j
<1> QED BY <1>5, <1>6

\* The servers keep or drop what they have, and hand out new ids for what they get.
KeysKept(w, ids, w2, ids2) ==
    \A s \in Servers :
        /\ ids[s] \in Nat /\ ids2[s] \in Nat /\ ids[s] <= ids2[s]
        /\ \A ik \in DOMAIN w2[s] :
              ik[2] \in Nat /\ ik[2] < ids[s] => ik \in DOMAIN w[s] /\ w2[s][ik] = w[s][ik]

LEMMA KeyKept ==
    ASSUME NEW w, NEW ids, NEW w2, NEW ids2, KeysKept(w, ids, w2, ids2), NEW s \in Servers,
           NEW ik, NEW v, KeyIn(ik, v, w[s], ids[s])
    PROVE  KeyIn(ik, v, w2[s], ids2[s])
BY DEF KeysKept, KeyIn

LEMMA RootKept ==
    ASSUME NEW w, NEW ids, NEW w2, NEW ids2, KeysKept(w, ids, w2, ids2), NEW root, RootIn(root, w, ids)
    PROVE  RootIn(root, w2, ids2)
BY KeyKept DEF RootIn

\* The replicas of the parts that a write has put are servers.
LEMMA PathInKept ==
    ASSUME NEW w, NEW ids, NEW w2, NEW ids2, KeysKept(w, ids, w2, ids2), NEW k, Gathered(k),
           PathIn(k, w, ids)
    PROVE  PathIn(k, w2, ids2)
<1> SUFFICES ASSUME Writer(k), NEW c \in DOMAIN k.path, NEW i \in DOMAIN k.path[c]
             PROVE  KeyIn(k.path[c][i], k.ver, w2[GetReplica[i]], ids2[GetReplica[i]])
  BY DEF PathIn
<1>1. i \in 1 .. R  BY DEF Gathered
<1>2. GetReplica[i] \in Servers  BY <1>1, Constants
<1>3. KeyIn(k.path[c][i], k.ver, w[GetReplica[i]], ids[GetReplica[i]])  BY DEF PathIn
<1> QED BY <1>2, <1>3, KeyKept

LEMMA SameKeys ==
    ASSUME LookTypes, UNCHANGED <<wc, nextId>>
    PROVE  KeysKept(wc, nextId, wc', nextId')
<1>1. \A s \in Servers : nextId[s] \in Nat  BY DEF LookTypes
<1> QED BY <1>1 DEF KeysKept

LEMMA NoRootIn == ASSUME NEW w, NEW ids PROVE RootIn(NoRoot, w, ids)
<1>1. NoRoot.size = 0 /\ Len(NoRoot.path) = 0 /\ R \in Nat  BY Constants DEF NoRoot
<1>2. 1 .. Len(NoRoot.path) = {}  BY <1>1
<1>3. \A s : KeysOn(NoRoot, s) = {}  BY <1>2 DEF KeysOn
<1> QED BY <1>1, <1>3 DEF RootIn

\* The record of a write names the keys of its parts.
LEMMA RecordIn ==
    ASSUME NEW k, NEW w, NEW ids, k.ver \in 1 .. MaxVer, Writer(k), PathIn(k, w, ids), Whole(k)
    PROVE  RootIn(RootOf(k), w, ids) /\ RootOf(k) # NoRoot /\ RootOf(k).ver = k.ver
<1> DEFINE root == RootOf(k)
<1>1. SizeOf[k.ver] \in Nat \ {0} /\ R \in Nat \ {0}  BY Constants
<1>2. root.size = SizeOf[k.ver] /\ root.ver = k.ver
  BY DEF RootOf
<1>3. Len(root.path) = SizeOf[k.ver] * R
  <2>1. SizeOf[k.ver] * R \in Nat  BY <1>1
  <2>2. root.path = [i \in 1 .. SizeOf[k.ver] * R |->
                        k.path[((i - 1) \div R) + 1][((i - 1) % R) + 1]]
    BY DEF RootOf
  <2> QED BY <2>1, <2>2
<1>4. ASSUME NEW s \in Servers, NEW ik \in KeysOn(root, s) PROVE KeyIn(ik, k.ver, w[s], ids[s])
  <2>1. PICK c \in 1 .. SizeOf[k.ver], j \in 1 .. R : ik = k.path[c][j] /\ GetReplica[j] = s
    BY <1>4, KeysOfRoot
  <2>2. c \in DOMAIN k.path /\ j \in DOMAIN k.path[c]  BY <2>1 DEF Whole
  <2> QED BY <2>1, <2>2 DEF PathIn
<1>5. root # NoRoot  BY <1>1, <1>2 DEF NoRoot
<1> HIDE DEF root
<1> QED BY <1>1, <1>2, <1>3, <1>4, <1>5 DEF RootIn, root

\* A Put hands out new ids, and the keys of what it has put are good.
LEMMA PutKeys ==
    ASSUME LookTypes, NEW C, IsFiniteSet(C), C \subseteq Nat, NEW v, PutChunks(C, v)
    PROVE  /\ KeysKept(wc, nextId, wc', nextId') /\ nextId' \in [Servers -> Nat]
           /\ \A i \in 1 .. R : PutEntry(C, GetReplica[i]) = "OK" =>
                 \A ik \in IdsFor(C, GetReplica[i]) :
                    KeyIn(ik, v, wc'[GetReplica[i]], nextId'[GetReplica[i]])
<1>1. \A s \in Servers : nextId[s] \in Nat  BY DEF LookTypes
<1>2. Cardinality(C) \in Nat  BY FS_CardinalityType
<1>3. nextId' \in [Servers -> Nat]  BY <1>1, <1>2 DEF PutChunks
<1>4. ASSUME NEW s \in Servers, NEW ik \in IdsFor(C, s)
      PROVE  ik[2] \in Nat /\ nextId[s] <= ik[2] /\ ik[2] < nextId[s] + Cardinality(C)
  <2>1. PICK c \in C : ik = <<c, nextId[s] + Cardinality({x \in C : x < c})>>  BY <1>4 DEF IdsFor
  <2> DEFINE D == {x \in C : x < c}
  <2>2. IsFiniteSet(D) /\ Cardinality(D) \in Nat /\ Cardinality(D) < Cardinality(C)
    <3>1. D \subseteq C /\ c \in C /\ c \notin D  OBVIOUS
    <3> HIDE DEF D
    <3>2. IsFiniteSet(D) /\ Cardinality(D) \in Nat  BY <3>1, FS_Subset, FS_CardinalityType
    <3>3. Cardinality(D) <= Cardinality(C) /\ (Cardinality(D) = Cardinality(C) => D = C)
      BY <3>1, FS_Subset
    <3> QED BY <1>2, <3>1, <3>2, <3>3
  <2>3. nextId[s] \in Nat /\ ik[2] = nextId[s] + Cardinality(D)  BY <1>1, <2>1
  <2> HIDE DEF D
  <2> QED BY <1>2, <2>2, <2>3
<1>5. ASSUME NEW s \in Servers
      PROVE  /\ nextId'[s] \in {nextId[s], nextId[s] + Cardinality(C)}
             /\ \A ik \in DOMAIN wc'[s] :
                   ik \notin IdsFor(C, s) => ik \in DOMAIN wc[s] /\ wc'[s][ik] = wc[s][ik]
  BY DEF PutChunks
<1>6. KeysKept(wc, nextId, wc', nextId')
  <2> SUFFICES ASSUME NEW s \in Servers
               PROVE  /\ nextId[s] \in Nat /\ nextId'[s] \in Nat /\ nextId[s] <= nextId'[s]
                      /\ \A ik \in DOMAIN wc'[s] : ik[2] \in Nat /\ ik[2] < nextId[s]
                            => ik \in DOMAIN wc[s] /\ wc'[s][ik] = wc[s][ik]
    BY DEF KeysKept
  <2>1. nextId[s] \in Nat /\ nextId'[s] \in Nat /\ nextId[s] <= nextId'[s]
    BY <1>1, <1>2, <1>5
  <2>2. ASSUME NEW ik \in DOMAIN wc'[s], ik[2] \in Nat, ik[2] < nextId[s]
        PROVE  ik \notin IdsFor(C, s)
    BY <1>1, <1>4, <2>2
  <2> QED BY <1>5, <2>1, <2>2
<1>7. ASSUME NEW i \in 1 .. R, PutEntry(C, GetReplica[i]) = "OK", NEW ik \in IdsFor(C, GetReplica[i])
      PROVE  KeyIn(ik, v, wc'[GetReplica[i]], nextId'[GetReplica[i]])
  <2>1. GetReplica[i] \in Servers /\ GetReplica[i] \in ReplicaServers /\ up[GetReplica[i]]
    BY <1>7, Constants DEF ReplicaServers, PutEntry
  <2>2. nextId'[GetReplica[i]] = nextId[GetReplica[i]] + Cardinality(C)
    BY <2>1 DEF PutChunks
  <2>3. ik \in DOMAIN wc'[GetReplica[i]] /\ wc'[GetReplica[i]][ik] = v  BY <1>7, PutAdds
  <2> QED BY <1>4, <2>1, <2>2, <2>3 DEF KeyIn
<1> QED BY <1>3, <1>6, <1>7

------------------------------------------------------------------------------
(***************************************************************************)
(* Reads are fresh: kinds of steps                                         *)
(***************************************************************************)
\* Of the calls of the others a step may only tell the collector's hits.
SameCall(k, r) ==
    /\ r.op = k.op /\ r.pc = k.pc /\ r.ver = k.ver /\ r.chunk = k.chunk /\ r.todo = k.todo
    /\ r.inv = k.inv /\ r.path = k.path /\ r.root = k.root /\ r.res = k.res /\ r.why = k.why
OthersKeep(t) == \A u \in Tasks \ {t} : SameCall(task[u], task'[u])

MetaKept ==
    \A n \in Nodes : \/ meta'[n].root = meta[n].root /\ (meta'[n].wcached => meta[n].wcached)
                     \/ MetaIn(meta'[n], wc', nextId')
S3Kept == s3' \in {s3, hist'.intent} \/ (s3' = None /\ hist'.removing > 0)
RcKept ==
    ~hist'.rcStale =>
       /\ ~hist.rcStale
       /\ \A s \in Servers : \A c \in DOMAIN rc'[s] :
             \/ c \in DOMAIN rc[s] /\ rc'[s][c] = rc[s][c]
             \/ rc'[s][c] = hist'.intent
RcShrinks ==
    ~hist'.rcStale =>
       /\ ~hist.rcStale
       /\ \A s \in Servers : \A c \in DOMAIN rc'[s] : c \in DOMAIN rc[s] /\ rc'[s][c] = rc[s][c]
\* The operators that follow are about a call alone.
LEMMA SameCallKeeps ==
    ASSUME NEW k, NEW r, SameCall(k, r)
    PROVE  /\ Invalidated(r) = Invalidated(k) /\ Looker(r) = Looker(k) /\ Writer(r) = Writer(k)
           /\ \A w, ids : PathIn(r, w, ids) <=> PathIn(k, w, ids)
           /\ \A base, S : Found(r, base, S) <=> Found(k, base, S)
<1>1. Invalidated(r) = Invalidated(k)  BY DEF SameCall, Invalidated, Writer
<1>2. Looker(r) = Looker(k) /\ Writer(r) = Writer(k)  BY DEF SameCall, Looker, Writer
<1>3. \A w, ids : PathIn(r, w, ids) <=> PathIn(k, w, ids)  BY <1>2 DEF SameCall, PathIn
<1>4. \A base, S : Found(r, base, S) <=> Found(k, base, S)  BY DEF SameCall, Found
<1> QED BY <1>1, <1>2, <1>3, <1>4

LEMMA RootsStep ==
    ASSUME RootsOK, TasksOK, NEW t \in Tasks, OthersKeep(t), KeysKept(wc, nextId, wc', nextId'),
           etcd' = etcd \/ RootIn(etcd', wc', nextId'), MetaKept,
           RootIn(task'[t].root, wc', nextId'), PathIn(task'[t], wc', nextId')
    PROVE  RootsOK'
<1>1. RootIn(etcd, wc', nextId')  BY RootKept DEF RootsOK
<1>2. RootIn(etcd', wc', nextId')  BY <1>1
<1>3. ASSUME NEW n \in Nodes PROVE MetaIn(meta'[n], wc', nextId')
  <2>1. MetaIn(meta[n], wc, nextId)  BY DEF RootsOK
  <2>2. RootIn(meta[n].root, wc', nextId')  BY <2>1, RootKept DEF MetaIn
  <2> QED BY <2>1, <2>2 DEF MetaKept, MetaIn
<1>4. ASSUME NEW u \in Tasks \ {t}
      PROVE  RootIn(task'[u].root, wc', nextId') /\ PathIn(task'[u], wc', nextId')
  <2>1. RootIn(task[u].root, wc, nextId) /\ PathIn(task[u], wc, nextId) /\ Gathered(task[u])
    BY DEF RootsOK, TasksOK, TaskOK
  <2>2. RootIn(task[u].root, wc', nextId') /\ PathIn(task[u], wc', nextId')
    BY <2>1, RootKept, PathInKept
  <2>3. SameCall(task[u], task'[u])  BY DEF OthersKeep
  <2> QED BY <2>2, <2>3, SameCallKeeps DEF SameCall
<1> QED BY <1>2, <1>3, <1>4 DEF RootsOK

\* The step of a write that takes chunks out, or leaves them, keeps the rest in order.
LEMMA ChunksKept ==
    ASSUME ChunksOK, NEW t \in Tasks, OthersKeep(t), RcShrinks, hist'.intent \in {hist.intent, None},
           Invalidated(task'[t]) \subseteq Invalidated(task[t])
    PROVE  ChunksOK'
<1>1. ASSUME NEW u \in Tasks PROVE Invalidated(task'[u]) \subseteq Invalidated(task[u])
  <2>1. CASE u = t  BY <2>1
  <2>2. CASE u # t  BY <2>2, SameCallKeeps DEF OthersKeep
  <2> QED BY <2>1, <2>2
<1> QED BY <1>1 DEF ChunksOK, RcShrinks

\* What Track adds to what the callers have seen.
LEMMA Tracks ==
    ASSUME Track, Durable', ~hist'.exposed, NEW u \in Tasks, Looker(task'[u])
    PROVE  /\ seen[u] \subseteq seen'[u] /\ hist'.intent \in seen'[u]
           /\ hist'.removing > 0 => None \in seen'[u]
<1>1. Current' = hist'.intent  BY DEF Durable
<1>2. seen'[u] = seen[u] \cup {Current'} \cup (IF hist'.removing > 0 THEN {None} ELSE {})
  BY DEF Track, Looker
<1> QED BY <1>1, <1>2

LEMMA FoundGrows ==
    ASSUME NEW k, NEW base, NEW S, NEW base2, NEW S2, Found(k, base, S), S \subseteq S2,
           base2 = base \/ base2 \in S2
    PROVE  Found(k, base2, S2)
BY DEF Found

LEMMA OthersLook ==
    ASSUME Track, Durable', ~hist'.exposed, S3Kept, RcKept, NEW u \in Tasks, LookOK(u),
           SameCall(task[u], task'[u])
    PROVE  LookOK(u)'
<1> SUFFICES ASSUME Looker(task'[u])
             PROVE  /\ hist'.intent \in seen'[u] /\ (hist'.removing > 0 => None \in seen'[u])
                    /\ ChunkSeen(u)' /\ Found(task'[u], s3', seen'[u])
  BY DEF LookOK
<1>1. /\ seen[u] \subseteq seen'[u] /\ hist'.intent \in seen'[u]
      /\ hist'.removing > 0 => None \in seen'[u]
  BY Tracks
<1>2. Looker(task[u])  BY SameCallKeeps
<1>3. ChunkSeen(u)'
  BY <1>1, <1>2 DEF LookOK, ChunkSeen, RcKept, SameCall
<1>4. Found(task'[u], s3', seen'[u])
  <2>1. s3' = s3 \/ s3' \in seen'[u]  BY <1>1 DEF S3Kept
  <2>2. Found(task[u], s3, seen[u])  BY <1>2 DEF LookOK
  <2>3. Found(task[u], s3', seen'[u])  BY <1>1, <2>1, <2>2, FoundGrows
  <2> QED BY <2>3, SameCallKeeps
<1> QED BY <1>1, <1>3, <1>4

LEMMA FreshStep ==
    ASSUME CacheInv, CacheInv', FreshInv, Track, NEW t \in Tasks, OthersKeep(t), LookTypes',
           ReadFresh', Undisturbed' => Undisturbed,
           Undisturbed' =>
              /\ KeysKept(wc, nextId, wc', nextId')
              /\ etcd' = etcd \/ RootIn(etcd', wc', nextId')
              /\ MetaKept
              /\ RootIn(task'[t].root, wc', nextId') /\ PathIn(task'[t], wc', nextId')
              /\ S3Kept /\ RcKept /\ ChunksOK'
              /\ Looker(task'[t]) => ChunkSeen(t)' /\ Found(task'[t], s3', seen'[t])
    PROVE  FreshInv'
<1> SUFFICES ASSUME Undisturbed'
             PROVE  RootsOK' /\ ChunksOK' /\ \A u \in Tasks : LookOK(u)'
  BY DEF FreshInv
<1>1. RootsOK /\ ChunksOK /\ \A u \in Tasks : LookOK(u)  BY DEF FreshInv
<1>2. TasksOK /\ Durable' /\ ~hist'.exposed  BY DEF CacheInv, Undisturbed
<1>3. RootsOK'  BY <1>1, <1>2, RootsStep
<1>4. LookOK(t)'  BY <1>2, Tracks DEF LookOK
<1>5. ASSUME NEW u \in Tasks \ {t} PROVE LookOK(u)'
  BY <1>1, <1>2, OthersLook DEF OthersKeep
<1> QED BY <1>3, <1>4, <1>5

\* Types: the step changes no server's books and at most the entry of one node.
LEMMA TypesKept ==
    ASSUME LookTypes, NEW t \in Tasks, OthersKeep(t), UNCHANGED <<nodeOf, policy, nextId, rc>>,
           MetaTypes', CallOK(task'[t])
    PROVE  LookTypes'
BY DEF LookTypes, OthersKeep, SameCall, CallOK

LEMMA MovesKeep == ASSUME NEW t \in Tasks, Moves(t) PROVE OthersKeep(t)
BY DEF Moves, OthersKeep, SameCall

LEMMA SameMeta ==
    ASSUME LookTypes, UNCHANGED meta
    PROVE  MetaTypes' /\ MetaKept
BY DEF LookTypes, MetaTypes, MetaKept

LEMMA MetaOne ==
    ASSUME LookTypes, NEW n \in Nodes, NEW m, DOMAIN m = MetaFields, meta' = [meta EXCEPT ![n] = m]
    PROVE  /\ MetaTypes'
           /\ \/ m.root = meta[n].root /\ (m.wcached => meta[n].wcached)
              \/ MetaIn(m, wc', nextId')
              => MetaKept
BY DEF LookTypes, MetaTypes, MetaKept

\* The assignments through a pointer into the metadata cache.
LEMMA MetaSet ==
    ASSUME LookTypes, NEW t \in Tasks, NEW fields, DOMAIN fields \subseteq MetaFields,
           SetMeta(t, fields)
    PROVE  /\ MetaTypes'
           /\ LET n == nodeOf[t]
                  m == Assign(meta[n], fields)
              IN \/ m.root = meta[n].root /\ (m.wcached => meta[n].wcached)
                 \/ MetaIn(m, wc', nextId')
                 => MetaKept
<1> DEFINE n == nodeOf[t]
           m == Assign(meta[n], fields)
<1>1. n \in Nodes /\ DOMAIN meta[n] = MetaFields  BY DEF LookTypes, MetaTypes
<1>2. DOMAIN m = MetaFields  BY <1>1 DEF Assign
<1>3. CASE meta' = meta  BY <1>3, SameMeta
<1>4. CASE meta' = [meta EXCEPT ![n] = m]
  <2> HIDE DEF m, n
  <2> QED BY <1>1, <1>2, <1>4, MetaOne DEF m, n
<1>5. meta' = meta \/ meta' = [meta EXCEPT ![n] = m]  BY DEF SetMeta
<1> QED BY <1>3, <1>4, <1>5

------------------------------------------------------------------------------
(***************************************************************************)
(* Reads are fresh: reads and Heads                                        *)
(***************************************************************************)
\* What a read or a Head can rely on.
LEMMA LookerFacts ==
    ASSUME CacheInv, FreshInv, Undisturbed, NEW t \in Tasks, Looker(task[t])
    PROVE  /\ RootIn(etcd, wc, nextId) /\ RootIn(task[t].root, wc, nextId)
           /\ Found(task[t], s3, seen[t]) /\ ChunkSeen(t)
           /\ IF etcd = NoRoot THEN s3 \in seen[t] ELSE etcd.ver \in seen[t]
<1>1. RootsOK /\ LookOK(t)  BY DEF FreshInv
<1>2. hist.intent \in seen[t]  BY <1>1 DEF LookOK
<1>3. IF etcd = NoRoot THEN s3 = hist.intent ELSE etcd.ver = hist.intent
  BY Object DEF CacheInv, Undisturbed
<1> QED BY <1>1, <1>2, <1>3 DEF RootsOK, LookOK

\* A step of a read or a Head that changes no store.
LEMMA LookFresh ==
    ASSUME CacheInv, CacheInv', FreshInv, Track, NEW t \in Tasks, Moves(t),
           task[t].op \in {"none", "read", "head"}, task'[t].op \in {"none", "read", "head"},
           UNCHANGED <<nodeOf, policy, etcd, s3, wc, nextId, rc, hist>>,
           MetaTypes', CallOK(task'[t]), ReadFresh',
           Undisturbed =>
              /\ MetaKept /\ RootIn(task'[t].root, wc, nextId)
              /\ Looker(task'[t]) => ChunkSeen(t)' /\ Found(task'[t], s3, seen'[t])
    PROVE  FreshInv'
<1>1. LookTypes /\ (Undisturbed => ChunksOK)  BY DEF FreshInv
<1>2. OthersKeep(t)  BY MovesKeep
<1>3. LookTypes'  BY <1>1, <1>2, TypesKept
<1>4. Undisturbed' => Undisturbed  BY DEF Undisturbed
<1>5. KeysKept(wc, nextId, wc', nextId')  BY <1>1, SameKeys
<1>6. PathIn(task'[t], wc', nextId')  BY DEF PathIn, Writer
<1>7. S3Kept /\ RcKept /\ RcShrinks  BY DEF S3Kept, RcKept, RcShrinks
<1>8. Undisturbed => ChunksOK'
  <2>1. Invalidated(task'[t]) = {}  BY DEF Invalidated, Writer
  <2> QED BY <1>1, <1>2, <1>7, <2>1, ChunksKept
<1> QED BY <1>2, <1>3, <1>4, <1>5, <1>6, <1>7, <1>8, FreshStep

\* From one place of the call to another ...
LEMMA GoesOn ==
    ASSUME CacheInv, CacheInv', FreshInv, Track, NEW t \in Tasks, Looker(task[t]),
           NEW r, Goto(t, r), DOMAIN r = Fields, r.gcHit \in BOOLEAN, r.op = task[t].op,
           r.chunk = task[t].chunk, CallOK(r), r.root \in {task[t].root, etcd},
           UNCHANGED <<nodeOf, policy, etcd, s3, wc, nextId, rc, hist>>,
           MetaTypes', Undisturbed => MetaKept /\ Found(r, s3, seen[t])
    PROVE  FreshInv'
<1>1. TypeOK  BY DEF CacheInv
<1>2. Moves(t) /\ task'[t] = r  BY <1>1, GotoMoves
<1>3. ReadFresh'  BY DEF Goto, ReadFresh, NoAnswer
<1>4. ASSUME Undisturbed
      PROVE  /\ RootIn(r.root, wc, nextId)
             /\ ChunkSeen(t)' /\ Found(r, s3, seen'[t])
  <2>1. RootIn(etcd, wc, nextId) /\ RootIn(task[t].root, wc, nextId) /\ ChunkSeen(t)
    BY <1>4, LookerFacts
  <2>2. seen[t] \subseteq seen'[t]
    <3>1. Durable' /\ ~hist'.exposed /\ Looker(task'[t])
      BY <1>2, <1>4 DEF CacheInv, Undisturbed, Looker
    <3> QED BY <3>1, Tracks
  <2>3. ChunkSeen(t)'  BY <1>2, <2>1, <2>2 DEF ChunkSeen
  <2>4. Found(r, s3, seen'[t])  BY <1>4, <2>2, FoundGrows
  <2> QED BY <2>1, <2>3, <2>4
<1> QED BY <1>2, <1>3, <1>4, LookFresh DEF Looker

\* ... or its answer.
LEMMA Answers ==
    ASSUME CacheInv, CacheInv', FreshInv, Track, NEW t \in Tasks, Looker(task[t]),
           task' = [task EXCEPT ![t] = Idle],
           UNCHANGED <<nodeOf, policy, etcd, s3, wc, nextId, rc, hist>>,
           MetaTypes', Undisturbed => MetaKept, ReadFresh'
    PROVE  FreshInv'
<1>1. TypeOK  BY DEF CacheInv
<1>2. Moves(t) /\ task'[t] = Idle  BY <1>1, IdleFields, MovesTo
<1>3. CallOK(task'[t]) /\ ~Looker(task'[t])  BY <1>2, IdleFields DEF CallOK, Looker, ReadPlaces, HeadPlaces
<1>4. RootIn(task'[t].root, wc, nextId)  BY <1>2, NoRootIn DEF Idle
<1> QED BY <1>2, <1>3, <1>4, IdleFields, LookFresh DEF Looker

LEMMA FinishFresh ==
    ASSUME CacheInv, CacheInv', FreshInv, Track, NEW t \in Tasks, Looker(task[t]),
           NEW status, NEW v, Finish(t, status, v),
           Undisturbed /\ task[t].why = {}
             /\ (status = "OK" \/ (status = "notfound" /\ task[t].op = "head")) => v \in seen[t],
           UNCHANGED <<nodeOf, policy, etcd, s3, wc, nextId, rc, hist>>,
           MetaTypes', Undisturbed => MetaKept
    PROVE  FreshInv'
<1>1. ReadFresh'  BY DEF Finish, ReadFresh, Undisturbed
<1> QED BY <1>1, Answers DEF Finish

\* The fallback to S3, marked unless the object is there.
LEMMA EndFresh ==
    ASSUME CacheInv, CacheInv', FreshInv, Track, NEW t \in Tasks, task[t].op = "read",
           NEW status, End(t, status), status # "OK",
           UNCHANGED <<nodeOf, policy, etcd, s3, wc, nextId, rc, hist, meta>>
    PROVE  FreshInv'
<1>1. TypeOK /\ LookTypes /\ Looker(task[t])  BY DEF CacheInv, FreshInv, Looker
<1>2. MetaTypes' /\ MetaKept  BY <1>1, SameMeta
<1>3. CASE status = "RPC_FAILED"
  <2> DEFINE k == task[t]
             r == [k EXCEPT !.pc = "s3get",
                     !.why = IF etcd # NoRoot THEN @ \cup {"fallback"} ELSE @]
  <2>1. Goto(t, r)  BY <1>3 DEF End
  <2>2. /\ DOMAIN r = Fields /\ r.gcHit \in BOOLEAN /\ r.op = k.op /\ r.chunk = k.chunk
        /\ r.root = k.root /\ r.pc = "s3get"
        /\ r.why = IF etcd # NoRoot THEN k.why \cup {"fallback"} ELSE k.why
    BY <1>1, FieldNames DEF TypeOK
  <2> HIDE DEF r
  <2>3. CallOK(r)  BY <1>1, <2>2 DEF LookTypes, CallOK, HeadPlaces
  <2>4. Undisturbed => Found(r, s3, seen[t])
    BY <1>1, <2>2, LookerFacts DEF Found
  <2> QED BY <1>1, <1>2, <2>1, <2>2, <2>3, <2>4, GoesOn
<1>4. CASE status # "RPC_FAILED"
  BY <1>1, <1>2, <1>4, FinishFresh DEF End
<1> QED BY <1>3, <1>4

\* Steps of a read that only move on, with what has been found so far.
LEMMA ReadGoes ==
    ASSUME CacheInv, CacheInv', FreshInv, Track, NEW t \in Tasks, task[t].op = "read",
           NEW r, Goto(t, r), DOMAIN r = Fields, r.gcHit = task[t].gcHit, r.op = "read",
           r.chunk = task[t].chunk, r.pc \in ReadPlaces, r.root \in {task[t].root, etcd},
           UNCHANGED <<nodeOf, policy, etcd, s3, wc, nextId, rc, hist>>,
           MetaTypes', Undisturbed => MetaKept /\ Found(r, s3, seen[t])
    PROVE  FreshInv'
<1>1. LookTypes /\ Looker(task[t]) /\ r.gcHit \in BOOLEAN
  BY DEF FreshInv, Looker, CacheInv, TypeOK
<1>2. CallOK(r)  BY <1>1 DEF LookTypes, CallOK, ReadPlaces, HeadPlaces
<1> QED BY <1>1, <1>2, GoesOn

LEMMA ReadRecordFresh ==
    ASSUME CacheInv, CacheInv', FreshInv, Track, NEW t \in Tasks,
           ReadNothing(t) \/ ReadJson(t) \/ ReadMeta(t) \/ ReadWild(t)
    PROVE  FreshInv'
<1> USE DEF fixed, stores
<1> DEFINE k == task[t]
<1>1. TypeOK /\ LookTypes /\ DOMAIN k = Fields  BY DEF CacheInv, FreshInv, TypeOK
<1>2. k.op = "read" /\ Looker(k)
  BY <1>1 DEF ReadNothing, ReadJson, ReadMeta, ReadWild, At, LookTypes, CallOK, ReadPlaces, Looker
<1>3. Undisturbed => /\ RootIn(etcd, wc, nextId) /\ RootIn(k.root, wc, nextId) /\ Found(k, s3, seen[t])
                     /\ IF etcd = NoRoot THEN s3 \in seen[t] ELSE etcd.ver \in seen[t]
  BY <1>2, LookerFacts
<1>4. UNCHANGED meta => MetaTypes' /\ MetaKept  BY <1>1, SameMeta
<1>5. ASSUME NEW status, NEW v, Finish(t, status, v), status # "OK", UNCHANGED meta,
             UNCHANGED <<nodeOf, policy, etcd, s3, wc, nextId, rc, hist>>
      PROVE  FreshInv'
  BY <1>2, <1>4, <1>5, FinishFresh
<1>6. CASE ReadNothing(t)  BY <1>5, <1>6 DEF ReadNothing
<1>7. CASE ReadJson(t)
  <2>1. CASE Finish(t, "METADATA_ERROR", None)  BY <1>5, <1>7, <2>1 DEF ReadJson
  <2> DEFINE r == [k EXCEPT !.root = etcd,
                            !.pc = IF etcd # NoRoot THEN "rmeta"
                                   ELSE IF UseMetaCache THEN "rhead" ELSE "rcget"]
  <2>2. CASE Goto(t, r)
    <3>1. /\ DOMAIN r = Fields /\ r.gcHit = k.gcHit /\ r.op = "read" /\ r.chunk = k.chunk
          /\ r.root = etcd /\ r.why = k.why
          /\ r.pc = IF etcd # NoRoot THEN "rmeta" ELSE IF UseMetaCache THEN "rhead" ELSE "rcget"
      BY <1>1, <1>2, FieldNames
    <3> HIDE DEF r
    <3>2. Undisturbed => Found(r, s3, seen[t])  BY <1>3, <3>1 DEF Found
    <3>3. r.pc \in ReadPlaces  BY <3>1 DEF ReadPlaces
    <3> QED BY <1>2, <1>4, <1>7, <2>2, <3>1, <3>2, <3>3, ReadGoes DEF ReadJson
  <2> QED BY <1>7, <2>1, <2>2 DEF ReadJson
<1>8. CASE ReadMeta(t)
  <2> DEFINE r == [k EXCEPT !.pc = "wcget"]
             fields == [present |-> TRUE, existed |-> TRUE, wcached |-> TRUE,
                        size |-> k.root.size, root |-> k.root]
             m == Assign(meta[nodeOf[t]], fields)
  <2>1. /\ DOMAIN r = Fields /\ r.gcHit = k.gcHit /\ r.op = "read" /\ r.chunk = k.chunk
        /\ r.root = k.root /\ r.why = k.why /\ r.pc = "wcget"
    BY <1>1, <1>2, FieldNames
  <2>2. SetMeta(t, fields) /\ k.pc = "rmeta"  BY <1>8 DEF ReadMeta, At
  <2>3. m.root = k.root
    <3>1. DOMAIN meta[nodeOf[t]] = MetaFields  BY <1>1 DEF LookTypes, MetaTypes
    <3> QED BY <3>1 DEF Assign, MetaFields
  <2>4. DOMAIN fields \subseteq MetaFields  BY DEF MetaFields
  <2> HIDE DEF r, m, fields
  <2>5. Undisturbed => MetaIn(m, wc', nextId')
    BY <1>3, <1>8, <2>2, <2>3 DEF ReadMeta, MetaIn, Found, RootIn, KeysOn
  <2>6. MetaTypes' /\ (MetaIn(m, wc', nextId') => MetaKept)
    BY <1>1, <2>2, <2>4, MetaSet DEF m
  <2>7. Undisturbed => Found(r, s3, seen[t])  BY <1>3, <2>1, <2>2 DEF Found
  <2>8. r.pc \in ReadPlaces  BY <2>1 DEF ReadPlaces
  <2> QED BY <1>2, <1>8, <2>1, <2>5, <2>6, <2>7, <2>8, ReadGoes DEF ReadMeta, r
<1>9. CASE ReadWild(t)
  <2>1. PICK v : Finish(t, "OK", v)  BY <1>9 DEF ReadWild
  <2>2. Undisturbed => k.why # {}  BY <1>3, <1>9 DEF ReadWild, At, Found
  <2> QED BY <1>2, <1>4, <1>9, <2>1, <2>2, FinishFresh DEF ReadWild
<1> QED BY <1>6, <1>7, <1>8, <1>9

LEMMA ReadHeadFresh ==
    ASSUME CacheInv, CacheInv', FreshInv, Track, NEW t \in Tasks,
           ReadHead(t) \/ ReadHeadSet(t) \/ FillHead(t)
    PROVE  FreshInv'
<1> USE DEF fixed, stores
<1> DEFINE k == task[t]
           n == nodeOf[t]
<1>1. TypeOK /\ LookTypes /\ DOMAIN k = Fields  BY DEF CacheInv, FreshInv, TypeOK
<1>2. k.op = "read" /\ Looker(k)
  BY <1>1 DEF ReadHead, ReadHeadSet, FillHead, At, LookTypes, CallOK, ReadPlaces, Looker
<1>3. Undisturbed => RootIn(etcd, wc, nextId) /\ Found(k, s3, seen[t])
  BY <1>2, LookerFacts
<1>4. UNCHANGED meta => MetaTypes' /\ MetaKept  BY <1>1, SameMeta
<1>5. ASSUME NEW status, NEW v, Finish(t, status, v), status # "OK", MetaTypes',
             Undisturbed => MetaKept, UNCHANGED <<nodeOf, policy, etcd, s3, wc, nextId, rc, hist>>
      PROVE  FreshInv'
  BY <1>2, <1>5, FinishFresh
<1>6. ASSUME NEW r, Goto(t, r), DOMAIN r = Fields, r.gcHit = k.gcHit, r.op = "read",
             r.chunk = k.chunk, r.root = k.root, r.why = k.why,
             r.pc \in {"rhset", "rcget", "fillget"}, k.pc \in {"rhead", "rhset", "fillhead"},
             MetaTypes', Undisturbed => MetaKept,
             UNCHANGED <<nodeOf, policy, etcd, s3, wc, nextId, rc, hist>>
      PROVE  FreshInv'
  <2>1. Undisturbed => Found(r, s3, seen[t])  BY <1>3, <1>6 DEF Found
  <2>2. r.pc \in ReadPlaces  BY <1>6 DEF ReadPlaces
  <2> QED BY <1>2, <1>6, <2>1, <2>2, ReadGoes
<1>7. CASE ReadHead(t)
  <2>1. CASE Finish(t, "S3_INTERNAL_ERROR", None)  BY <1>4, <1>5, <1>7, <2>1 DEF ReadHead
  <2>2. CASE Goto(t, [k EXCEPT !.pc = "rhset", !.ver = s3])
    BY <1>1, <1>2, <1>4, <1>6, <1>7, <2>2, FieldNames DEF ReadHead, At
  <2> QED BY <1>7, <2>1, <2>2 DEF ReadHead
<1>8. CASE ReadHeadSet(t)
  <2> DEFINE v == k.ver
             fields == [present |-> TRUE, existed |-> v # None, wcached |-> FALSE,
                        size |-> IF v = None THEN 0 ELSE SizeOf[v]]
             m == Assign(meta[n], fields)
  <2>1. SetMeta(t, fields)  BY <1>8 DEF ReadHeadSet
  <2>2. m.root = meta[n].root /\ m.wcached = FALSE
    <3>1. DOMAIN meta[n] = MetaFields  BY <1>1 DEF LookTypes, MetaTypes
    <3> QED BY <3>1 DEF Assign, MetaFields
  <2>3. DOMAIN fields \subseteq MetaFields  BY DEF MetaFields
  <2> HIDE DEF m, fields
  <2>4. MetaTypes' /\ MetaKept  BY <1>1, <2>1, <2>2, <2>3, MetaSet DEF m
  <2>5. CASE Finish(t, "notfound", None)  BY <1>5, <1>8, <2>4, <2>5 DEF ReadHeadSet
  <2>6. CASE Goto(t, [k EXCEPT !.pc = "rcget"])
    BY <1>1, <1>2, <1>6, <1>8, <2>4, <2>6, FieldNames DEF ReadHeadSet, At
  <2> QED BY <1>8, <2>5, <2>6 DEF ReadHeadSet
<1>9. CASE FillHead(t)
  <2> DEFINE m == meta[n]
             size == IF m.present THEN IF m.existed THEN m.size ELSE 0
                     ELSE IF etcd # NoRoot THEN etcd.size
                     ELSE IF s3 = None THEN 0 ELSE SizeOf[s3]
             entry == [gen |-> m.gen, present |-> TRUE, existed |-> size > 0,
                       wcached |-> etcd # NoRoot, size |-> size, root |-> etcd]
  <2>1. n \in Nodes  BY <1>1 DEF LookTypes
  <2>2. meta' = meta \/ meta' = [meta EXCEPT ![n] = entry]  BY <1>9 DEF FillHead
  <2>3. DOMAIN entry = MetaFields /\ entry.root = etcd /\ (entry.wcached => etcd # NoRoot)
    BY DEF MetaFields
  <2>4. \/ Finish(t, "notfound", None)
        \/ Finish(t, "eof", None)
        \/ Goto(t, [k EXCEPT !.pc = "fillget"])
    BY <1>9 DEF FillHead
  <2> HIDE DEF entry
  <2>5. Undisturbed => MetaIn(entry, wc', nextId')
    BY <1>3, <1>9, <2>3 DEF FillHead, MetaIn, RootIn, KeysOn
  <2>6. MetaTypes' /\ (Undisturbed => MetaKept)
    <3>1. CASE meta' = meta  BY <1>4, <3>1
    <3>2. CASE meta' = [meta EXCEPT ![n] = entry]  BY <1>1, <2>1, <2>3, <2>5, <3>2, MetaOne
    <3> QED BY <2>2, <3>1, <3>2
  <2>7. CASE Finish(t, "notfound", None) \/ Finish(t, "eof", None)
    BY <1>5, <1>9, <2>6, <2>7 DEF FillHead
  <2>8. CASE Goto(t, [k EXCEPT !.pc = "fillget"])
    BY <1>1, <1>2, <1>6, <1>9, <2>6, <2>8, FieldNames DEF FillHead, At
  <2> QED BY <2>4, <2>7, <2>8
<1> QED BY <1>7, <1>8, <1>9

LEMMA ReadReplicasAre == ASSUME NEW c \in Nat PROVE ReadReplicas(c) \subseteq Servers
BY GlobalCacheAssumption DEF ReadReplicas, Servers

LEMMA ReadChunkFresh ==
    ASSUME CacheInv, CacheInv', FreshInv, Track, NEW t \in Tasks,
           ReadWriteCache(t) \/ ReadReadCache(t) \/ FillGet(t) \/ ReadBase(t)
    PROVE  FreshInv'
<1> USE DEF fixed, stores
<1> DEFINE k == task[t]
<1>1. TypeOK /\ LookTypes /\ DOMAIN k = Fields  BY DEF CacheInv, FreshInv, TypeOK
<1>2. k.op = "read" /\ Looker(k) /\ k.chunk \in Nat \ {0}
  BY <1>1 DEF ReadWriteCache, ReadReadCache, FillGet, ReadBase, At, LookTypes, CallOK, ReadPlaces,
     Looker
<1>3. Undisturbed => RootIn(k.root, wc, nextId) /\ Found(k, s3, seen[t]) /\ ChunkSeen(t)
  BY <1>2, LookerFacts
<1>4. /\ MetaTypes' /\ MetaKept
      /\ UNCHANGED <<nodeOf, policy, etcd, s3, wc, nextId, rc, hist, meta>>
  <2>1. UNCHANGED <<nodeOf, policy, etcd, s3, wc, nextId, rc, hist, meta>>
    BY DEF ReadWriteCache, ReadReadCache, FillGet, ReadBase
  <2> QED BY <1>1, <2>1, SameMeta
<1>5. ASSUME NEW r, Goto(t, r), DOMAIN r = Fields, r.gcHit = k.gcHit, r.op = "read",
             r.chunk = k.chunk, r.root = k.root, r.pc \in ReadPlaces,
             Undisturbed => Found(r, s3, seen[t])
      PROVE  FreshInv'
  BY <1>2, <1>4, <1>5, ReadGoes
<1>6. CASE ReadWriteCache(t)
  <2> DEFINE got(i) == WriteCacheGetAt(k.root, k.chunk, i)
             why(i) == k.why \cup (IF WrongKey(i) THEN {"index"} ELSE {})
  <2>1. PICK i \in 1 .. R :
              \/ /\ got(i)[1] = "OK"
                 /\ task' = [task EXCEPT ![t] = Idle]
                 /\ answer' = [op |-> "read", status |-> "OK", ver |-> got(i)[2],
                               fresh |-> got(i)[2] \in seen[t], why |-> why(i)]
              \/ got(i)[1] = "wild" /\ Goto(t, [k EXCEPT !.pc = "wild", !.why = @ \cup {"wild"}])
              \/ got(i)[1] \notin {"OK", "wild"} /\ End(t, got(i)[1])
    BY <1>6 DEF ReadWriteCache
  <2>2. CASE got(i)[1] = "OK"
    <3> DEFINE a == [op |-> "read", status |-> "OK", ver |-> got(i)[2],
                     fresh |-> got(i)[2] \in seen[t], why |-> why(i)]
    <3>1. task' = [task EXCEPT ![t] = Idle] /\ answer' = a  BY <2>1, <2>2
    <3>2. Undisturbed /\ why(i) = {} => got(i)[2] \in seen[t]
      <4> SUFFICES ASSUME Undisturbed, why(i) = {} PROVE got(i)[2] \in seen[t]  OBVIOUS
      <4>1. ~WrongKey(i) /\ k.why = {}  OBVIOUS
      <4>2. got(i)[2] = k.root.ver /\ k.root # NoRoot  BY <1>2, <1>3, <2>2, <4>1, GetsRoot
      <4> QED BY <1>3, <1>6, <4>1, <4>2 DEF Found, ReadWriteCache, At
    <3>3. a.fresh = (got(i)[2] \in seen[t]) /\ a.why = why(i)  OBVIOUS
    <3> HIDE DEF a, got, why
    <3>4. ReadFresh'  BY <1>4, <3>1, <3>2, <3>3 DEF ReadFresh, Undisturbed
    <3> QED BY <1>2, <1>4, <3>1, <3>4, Answers
  <2>3. CASE Goto(t, [k EXCEPT !.pc = "wild", !.why = @ \cup {"wild"}])
    <3> DEFINE r == [k EXCEPT !.pc = "wild", !.why = @ \cup {"wild"}]
    <3>1. /\ DOMAIN r = Fields /\ r.gcHit = k.gcHit /\ r.op = "read" /\ r.chunk = k.chunk
          /\ r.root = k.root /\ r.pc = "wild" /\ r.why # {}
      BY <1>1, <1>2, FieldNames
    <3>2. Goto(t, r)  BY <2>3
    <3> HIDE DEF r
    <3> QED BY <1>5, <3>1, <3>2 DEF Found, ReadPlaces
  <2>4. CASE got(i)[1] \notin {"OK", "wild"} /\ End(t, got(i)[1])
    BY <1>2, <1>4, <2>4, EndFresh
  <2> QED BY <2>1, <2>2, <2>3, <2>4
<1>7. CASE ReadReadCache(t)
  <2> DEFINE c == k.chunk
             live == {s \in ReadReplicas(c) : up[s]}
  <2>1. CASE End(t, "RPC_FAILED")  BY <1>2, <1>4, <2>1, EndFresh
  <2>2. ASSUME NEW s \in live, c \in DOMAIN rc[s], task' = [task EXCEPT ![t] = Idle],
               answer' = [op |-> "read", status |-> "OK", ver |-> rc[s][c],
                          fresh |-> rc[s][c] \in seen[t],
                          why |-> k.why \cup (IF hist.rcStale THEN {"chunk"} ELSE {})]
        PROVE  FreshInv'
    <3>1. s \in Servers  BY <1>2, ReadReplicasAre
    <3>2. Undisturbed /\ ~hist.rcStale => rc[s][c] \in seen[t]
      BY <1>2, <1>3, <2>2, <3>1 DEF ChunkSeen
    <3>3. ReadFresh'  BY <1>4, <2>2, <3>2 DEF ReadFresh, Undisturbed
    <3> QED BY <1>2, <1>4, <2>2, <3>3, Answers
  <2>3. CASE Goto(t, [k EXCEPT !.pc = "fillhead"])
    <3> DEFINE r == [k EXCEPT !.pc = "fillhead"]
    <3>1. /\ DOMAIN r = Fields /\ r.gcHit = k.gcHit /\ r.op = "read" /\ r.chunk = k.chunk
          /\ r.root = k.root /\ r.pc = "fillhead" /\ r.why = k.why
      BY <1>1, <1>2, FieldNames
    <3>2. Goto(t, r)  BY <2>3
    <3> HIDE DEF r
    <3>3. Undisturbed => Found(r, s3, seen[t])
      BY <1>3, <1>7, <3>1 DEF Found, ReadReadCache, At
    <3> QED BY <1>5, <3>1, <3>2, <3>3 DEF ReadPlaces
  <2> QED BY <1>7, <2>1, <2>2, <2>3 DEF ReadReadCache
<1>8. CASE FillGet(t)
  <2>1. PICK v \in 0 .. MaxVer :
          /\ BaseDownLoad(k.chunk, v)
          /\ IF v = None THEN Finish(t, "S3_INTERNAL_ERROR", None)
             ELSE Goto(t, [k EXCEPT !.pc = "fillput", !.ver = v])
    BY <1>8 DEF FillGet
  <2>2. CASE v = None  BY <1>2, <1>4, <2>1, <2>2, FinishFresh
  <2>3. CASE v # None
    <3> DEFINE r == [k EXCEPT !.pc = "fillput", !.ver = v]
    <3>1. /\ DOMAIN r = Fields /\ r.gcHit = k.gcHit /\ r.op = "read" /\ r.chunk = k.chunk
          /\ r.root = k.root /\ r.pc = "fillput" /\ r.why = k.why /\ r.ver = v
      BY <1>1, <1>2, FieldNames
    <3>2. Goto(t, r) /\ v = s3  BY <2>1, <2>3 DEF BaseDownLoad, None
    <3> HIDE DEF r
    <3>3. Undisturbed => Found(r, s3, seen[t])
      BY <1>3, <1>8, <3>1, <3>2 DEF Found, FillGet, At
    <3> QED BY <1>5, <3>1, <3>2, <3>3 DEF ReadPlaces
  <2> QED BY <2>2, <2>3
<1>9. CASE ReadBase(t)
  <2>1. PICK v \in 0 .. MaxVer :
          /\ BaseDownLoad(k.chunk, v)
          /\ Finish(t, IF v = None THEN "S3_INTERNAL_ERROR" ELSE "OK", v)
    BY <1>9 DEF ReadBase
  <2>2. v # None => v = s3  BY <2>1 DEF BaseDownLoad, None
  <2>3. Undisturbed /\ k.why = {} => s3 \in seen[t]  BY <1>3, <1>9 DEF Found, ReadBase, At
  <2> QED BY <1>2, <1>4, <2>1, <2>2, <2>3, FinishFresh
<1> QED BY <1>6, <1>7, <1>8, <1>9

\* A call that starts knows what the object is now, unless its node's entry is stale.
LEMMA StartLooks ==
    ASSUME CacheInv, CacheInv', FreshInv, Track, NEW t \in Tasks,
           task[t].op \in {"none", "read", "head"},
           NEW r, Goto(t, r), DOMAIN r = Fields, r.gcHit = FALSE, Looker(r), CallOK(r),
           UNCHANGED <<nodeOf, policy, etcd, s3, wc, nextId, rc, hist, meta>>,
           r.root \in {NoRoot, meta[nodeOf[t]].root},
           Undisturbed /\ r.op = "read" => hist.intent # None /\ r.chunk <= SizeOf[hist.intent],
           \A S : hist.intent \in S /\ Undisturbed => Found(r, s3, S)
    PROVE  FreshInv'
<1>1. TypeOK /\ LookTypes  BY DEF CacheInv, FreshInv
<1>2. Moves(t) /\ task'[t] = r  BY <1>1, GotoMoves
<1>3. MetaTypes' /\ MetaKept  BY <1>1, SameMeta
<1>4. ReadFresh'  BY DEF Goto, ReadFresh, NoAnswer
<1>5. ASSUME Undisturbed
      PROVE  RootIn(r.root, wc, nextId) /\ ChunkSeen(t)' /\ Found(r, s3, seen'[t])
  <2>1. RootsOK /\ ChunksOK  BY <1>5 DEF FreshInv
  <2>2. RootIn(r.root, wc, nextId)
    <3>1. nodeOf[t] \in Nodes  BY <1>1 DEF LookTypes
    <3> QED BY <2>1, <3>1, NoRootIn DEF RootsOK, MetaIn
  <2>3. hist.intent \in seen'[t]
    <3>1. Durable' /\ ~hist'.exposed /\ Looker(task'[t])  BY <1>2, <1>5 DEF CacheInv, Undisturbed
    <3> QED BY <3>1, Tracks
  <2>4. ChunkSeen(t)'  BY <1>2, <1>5, <2>1, <2>3 DEF ChunkSeen, ChunksOK
  <2> QED BY <1>5, <2>2, <2>3, <2>4
<1> QED BY <1>2, <1>3, <1>4, <1>5, LookFresh DEF Looker

LEMMA StartReadFresh ==
    ASSUME CacheInv, CacheInv', FreshInv, Track, NEW t \in Tasks, NEW c \in Chunks, StartRead(t, c)
    PROVE  FreshInv'
<1> USE DEF fixed, stores
<1> DEFINE m == meta[nodeOf[t]]
           r == [Idle EXCEPT !.op = "read", !.chunk = c, !.gen = m.gen, !.root = m.root,
                             !.why = IF MetaStale(nodeOf[t]) THEN {"meta"} ELSE {},
                             !.pc = IF m.present /\ ~m.existed THEN "notfound"
                                    ELSE IF m.present /\ c > m.size THEN "eof"
                                    ELSE WhereToRead(t)]
<1>1. TypeOK /\ LookTypes /\ RecordOK /\ TaskOK(task[t])  BY DEF CacheInv, FreshInv, TasksOK
<1>2. task[t].op \in {"none", "read", "head"}  BY <1>1, Starts DEF StartRead
<1>3. Goto(t, r)  BY DEF StartRead
<1>4. /\ DOMAIN r = Fields /\ r.gcHit = FALSE /\ r.op = "read" /\ r.chunk = c /\ r.root = m.root
      /\ r.why = IF MetaStale(nodeOf[t]) THEN {"meta"} ELSE {}
      /\ r.pc = IF m.present /\ ~m.existed THEN "notfound"
                ELSE IF m.present /\ c > m.size THEN "eof" ELSE WhereToRead(t)
  BY FieldNames DEF Idle
<1> HIDE DEF r
<1>5. c \in Nat \ {0}  BY Constants DEF Chunks
<1>6. CallOK(r)  BY <1>4, <1>5 DEF CallOK, ReadPlaces, HeadPlaces, WhereToRead
<1>7. ASSUME Undisturbed
      PROVE  /\ hist.intent # None /\ c <= SizeOf[hist.intent]
             /\ IF etcd = NoRoot THEN s3 = hist.intent ELSE etcd.ver = hist.intent
  <2>1. Current = hist.intent  BY <1>7 DEF CacheInv, Durable, Undisturbed
  <2> QED BY <1>1, <1>7, <2>1, Object DEF CacheInv, Undisturbed, StartRead
<1>8. ASSUME NEW S, hist.intent \in S, Undisturbed PROVE Found(r, s3, S)
  <2>1. r.pc = "rcget" /\ r.why = {} => etcd = NoRoot
    BY <1>1, <1>4 DEF WhereToRead, MetaStale, RecordOK
  <2>2. r.pc = "wcget" /\ r.why = {} => r.root = etcd
    BY <1>4 DEF WhereToRead, MetaStale
  <2>3. r.pc \in {"notfound", "eof", "rcget", "rjson", "wcget"}  BY <1>4 DEF WhereToRead
  <2> QED BY <1>7, <1>8, <2>1, <2>2, <2>3 DEF Found
<1>9. UNCHANGED <<nodeOf, policy, etcd, s3, wc, nextId, rc, hist, meta>>  BY DEF StartRead
<1> QED BY <1>2, <1>3, <1>4, <1>6, <1>7, <1>8, <1>9, StartLooks DEF Looker

LEMMA StartHeadFresh ==
    ASSUME CacheInv, CacheInv', FreshInv, Track, NEW t \in Tasks, StartHead(t)
    PROVE  FreshInv'
<1> USE DEF fixed, stores
<1> DEFINE m == meta[nodeOf[t]]
           r == [Idle EXCEPT !.op = "head", !.gen = m.gen,
                       !.pc = IF m.present THEN "hmeta"
                              ELSE IF policy = "replication" THEN "hjson" ELSE "hbase",
                       !.why = IF MetaStale(nodeOf[t]) THEN {"meta"} ELSE {},
                       !.ver = IF ~m.present \/ ~m.existed THEN None
                               ELSE IF m.wcached THEN m.root.ver ELSE s3]
<1>1. TypeOK /\ LookTypes /\ RecordOK /\ TaskOK(task[t])  BY DEF CacheInv, FreshInv, TasksOK
<1>2. task[t].op \in {"none", "read", "head"}  BY <1>1, Starts DEF StartHead
<1>3. Goto(t, r)  BY DEF StartHead
<1>4. /\ DOMAIN r = Fields /\ r.gcHit = FALSE /\ r.op = "head" /\ r.root = NoRoot
      /\ r.why = IF MetaStale(nodeOf[t]) THEN {"meta"} ELSE {}
      /\ r.pc = IF m.present THEN "hmeta" ELSE IF policy = "replication" THEN "hjson" ELSE "hbase"
      /\ r.ver = IF ~m.present \/ ~m.existed THEN None ELSE IF m.wcached THEN m.root.ver ELSE s3
  BY FieldNames DEF Idle
<1> HIDE DEF r
<1>5. CallOK(r)  BY <1>4 DEF CallOK, ReadPlaces, HeadPlaces
<1>6. ASSUME Undisturbed
      PROVE  /\ IF etcd = NoRoot THEN s3 = hist.intent ELSE etcd.ver = hist.intent
             /\ m.wcached => m.root # NoRoot
  <2>1. nodeOf[t] \in Nodes  BY <1>1 DEF LookTypes
  <2> QED BY <1>1, <1>6, <2>1, Object DEF CacheInv, FreshInv, RootsOK, MetaIn, Undisturbed
<1>7. ASSUME NEW S, hist.intent \in S, Undisturbed PROVE Found(r, s3, S)
  <2>1. r.pc = "hbase" => etcd = NoRoot  BY <1>1, <1>4 DEF LookTypes, RecordOK
  <2>2. r.pc = "hmeta" /\ r.why = {} => r.ver = hist.intent
    BY <1>4, <1>6, <1>7 DEF MetaStale
  <2>3. r.pc \in {"hmeta", "hjson", "hbase"}  BY <1>4
  <2> QED BY <1>6, <1>7, <2>1, <2>2, <2>3 DEF Found
<1>8. UNCHANGED <<nodeOf, policy, etcd, s3, wc, nextId, rc, hist, meta>>  BY DEF StartHead
<1> QED BY <1>2, <1>3, <1>4, <1>5, <1>7, <1>8, StartLooks DEF Looker

LEMMA HeadFresh ==
    ASSUME CacheInv, CacheInv', FreshInv, Track, NEW t \in Tasks,
           HeadMeta(t) \/ HeadJson(t) \/ HeadBase(t) \/ HeadSet(t)
    PROVE  FreshInv'
<1> USE DEF fixed, stores
<1> DEFINE k == task[t]
           n == nodeOf[t]
<1>1. TypeOK /\ LookTypes /\ DOMAIN k = Fields /\ k.gcHit \in BOOLEAN
  BY DEF CacheInv, FreshInv, TypeOK
<1>2. k.op = "head" /\ Looker(k)
  BY <1>1 DEF HeadMeta, HeadJson, HeadBase, HeadSet, At, LookTypes, CallOK, HeadPlaces, Looker
<1>3. Undisturbed => /\ RootIn(k.root, wc, nextId) /\ Found(k, s3, seen[t])
                     /\ IF etcd = NoRoot THEN s3 \in seen[t] ELSE etcd.ver \in seen[t]
  BY <1>2, LookerFacts
<1>4. UNCHANGED meta => MetaTypes' /\ MetaKept  BY <1>1, SameMeta
<1>5. ASSUME NEW r, Goto(t, r), DOMAIN r = Fields, r.gcHit = k.gcHit, r.op = "head",
             r.chunk = k.chunk, r.root \in {k.root, etcd}, r.pc \in {"hbase", "hset"},
             Undisturbed => Found(r, s3, seen[t]),
             UNCHANGED <<nodeOf, policy, etcd, s3, wc, nextId, rc, hist, meta>>
      PROVE  FreshInv'
  <2>1. CallOK(r)  BY <1>5 DEF CallOK, ReadPlaces, HeadPlaces
  <2> QED BY <1>1, <1>2, <1>4, <1>5, <2>1, GoesOn
<1>6. ASSUME NEW status, NEW v, Finish(t, status, v), status \notin {"OK", "notfound"},
             UNCHANGED <<nodeOf, policy, etcd, s3, wc, nextId, rc, hist, meta>>
      PROVE  FreshInv'
  BY <1>2, <1>4, <1>6, FinishFresh
<1>7. CASE HeadMeta(t)
  <2>1. Undisturbed /\ k.why = {} => k.ver \in seen[t]  BY <1>3, <1>7 DEF Found, HeadMeta, At
  <2> QED BY <1>2, <1>4, <1>7, <2>1, FinishFresh DEF HeadMeta, HeadAnswer
<1>8. CASE HeadJson(t)
  <2>1. CASE Finish(t, "METADATA_ERROR", None)  BY <1>6, <1>8, <2>1 DEF HeadJson
  <2> DEFINE r == [k EXCEPT !.root = etcd, !.ver = etcd.ver,
                            !.pc = IF etcd = NoRoot THEN "hbase" ELSE "hset"]
  <2>2. CASE Goto(t, r)
    <3>1. /\ DOMAIN r = Fields /\ r.gcHit = k.gcHit /\ r.op = "head" /\ r.chunk = k.chunk
          /\ r.root = etcd /\ r.why = k.why /\ r.ver = etcd.ver
          /\ r.pc = IF etcd = NoRoot THEN "hbase" ELSE "hset"
      BY <1>1, <1>2, FieldNames
    <3> HIDE DEF r
    <3>2. Undisturbed => Found(r, s3, seen[t])  BY <1>3, <3>1 DEF Found
    <3> QED BY <1>5, <1>8, <2>2, <3>1, <3>2 DEF HeadJson
  <2> QED BY <1>8, <2>1, <2>2 DEF HeadJson
<1>9. CASE HeadBase(t)
  <2>1. CASE Finish(t, "S3_INTERNAL_ERROR", None)  BY <1>6, <1>9, <2>1 DEF HeadBase
  <2> DEFINE r == [k EXCEPT !.pc = "hset", !.ver = s3]
  <2>2. CASE Goto(t, r)
    <3>1. /\ DOMAIN r = Fields /\ r.gcHit = k.gcHit /\ r.op = "head" /\ r.chunk = k.chunk
          /\ r.root = k.root /\ r.why = k.why /\ r.ver = s3 /\ r.pc = "hset"
      BY <1>1, <1>2, FieldNames
    <3> HIDE DEF r
    <3>2. Undisturbed => Found(r, s3, seen[t])  BY <1>3, <1>9, <3>1 DEF Found, HeadBase, At
    <3> QED BY <1>5, <1>9, <2>2, <3>1, <3>2 DEF HeadBase
  <2> QED BY <1>9, <2>1, <2>2 DEF HeadBase
<1>10. CASE HeadSet(t)
  <2> DEFINE fields == [present |-> TRUE, existed |-> k.ver # None,
                        wcached |-> k.root # NoRoot,
                        size |-> IF k.ver = None THEN 0 ELSE SizeOf[k.ver],
                        root |-> IF k.root = NoRoot THEN meta[n].root ELSE k.root]
             m == Assign(meta[n], fields)
  <2>1. SetMeta(t, fields)  BY <1>10 DEF HeadSet
  <2>2. /\ m.root = IF k.root = NoRoot THEN meta[n].root ELSE k.root
        /\ m.wcached = (k.root # NoRoot)
    <3>1. DOMAIN meta[n] = MetaFields  BY <1>1 DEF LookTypes, MetaTypes
    <3> QED BY <3>1 DEF Assign, MetaFields
  <2>3. DOMAIN fields \subseteq MetaFields  BY DEF MetaFields
  <2> HIDE DEF m, fields
  <2>4. Undisturbed => \/ m.root = meta[n].root /\ (m.wcached => meta[n].wcached)
                       \/ MetaIn(m, wc', nextId')
    BY <1>3, <1>10, <2>2 DEF HeadSet, MetaIn, RootIn, KeysOn
  <2>5. MetaTypes' /\ (Undisturbed => MetaKept)  BY <1>1, <2>1, <2>3, <2>4, MetaSet DEF m
  <2>6. Undisturbed /\ k.why = {} => k.ver \in seen[t]  BY <1>3, <1>10 DEF Found, HeadSet, At
  <2> QED BY <1>2, <1>10, <2>5, <2>6, FinishFresh DEF HeadSet, HeadAnswer
<1> QED BY <1>7, <1>8, <1>9, <1>10

\* While no write is under way, none has taken chunks out.
LEMMA NoneInvalidated ==
    ASSUME TasksOK, hist.open = {}, NEW u \in Tasks
    PROVE  Invalidated(task[u]) = {}
BY DEF TasksOK, TaskOK, PlaceOK, Booked, Invalidated, Writer, Cleaning

\* A read that puts what it fetched puts the object, or says so.
LEMMA FillPutFresh ==
    ASSUME CacheInv, CacheInv', FreshInv, Track, NEW t \in Tasks, FillPut(t)
    PROVE  FreshInv'
<1> USE DEF fixed, stores
<1> DEFINE k == task[t]
           c == k.chunk
           v == k.ver
           to == ReadReplicas(c)
           r == [k EXCEPT !.pc = "s3get",
                     !.why = IF etcd # NoRoot THEN @ \cup {"fallback"} ELSE @]
<1>1. TypeOK /\ LookTypes /\ DOMAIN k = Fields /\ k.gcHit \in BOOLEAN /\ TasksOK
      /\ hist \in Histories
  BY DEF CacheInv, FreshInv, TypeOK
<1>2. k.pc = "fillput" /\ k.op = "read" /\ Looker(k) /\ c \in Nat \ {0}
  BY <1>1 DEF FillPut, At, LookTypes, CallOK, ReadPlaces, Looker
<1>3. Undisturbed => RootIn(k.root, wc, nextId) /\ Found(k, s3, seen[t]) /\ ChunkSeen(t)
                     /\ ChunksOK /\ (etcd = NoRoot => s3 \in seen[t])
  BY <1>2, LookerFacts DEF FreshInv
<1>4. UNCHANGED <<nodeOf, policy, etcd, s3, wc, nextId, meta>>  BY DEF FillPut
<1>5. /\ hist'.exposed = hist.exposed /\ hist'.idReset = hist.idReset
      /\ hist'.intent = hist.intent /\ hist'.open = hist.open /\ hist'.removing = hist.removing
      /\ ~hist'.rcStale => ~hist.rcStale /\ v = Current /\ hist.open = {}
  BY <1>1 DEF FillPut, Histories
<1>6. rc' = [s \in Servers |->
                IF s \in to /\ up[s]
                THEN [x \in DOMAIN rc[s] \cup {c} |-> IF x = c THEN v ELSE rc[s][x]]
                ELSE rc[s]]
  BY DEF FillPut
<1>7. /\ DOMAIN r = Fields /\ r.gcHit = k.gcHit /\ r.op = "read" /\ r.chunk = c
      /\ r.root = k.root /\ r.pc = "s3get"
      /\ r.why = IF etcd # NoRoot THEN k.why \cup {"fallback"} ELSE k.why
  BY <1>1, <1>2, FieldNames
<1>8. Finish(t, "OK", v) \/ Goto(t, r)  BY DEF FillPut, End
<1> HIDE DEF r
<1>9. /\ OthersKeep(t)
      /\ \/ task'[t].op = "none" /\ task'[t].pc = "idle" /\ task'[t] = Idle
         \/ task'[t] = r
  <2>1. CASE Finish(t, "OK", v)
    <3>1. Moves(t) /\ task'[t] = Idle  BY <1>1, <2>1, IdleFields, MovesTo DEF Finish
    <3> QED BY <3>1, IdleFields, MovesKeep
  <2>2. CASE Goto(t, r)  BY <1>1, <1>7, <2>2, GotoMoves, MovesKeep
  <2> QED BY <1>8, <2>1, <2>2
<1>10. LookTypes'
  <2>1. CallOK(task'[t])  BY <1>2, <1>7, <1>9 DEF CallOK, ReadPlaces, HeadPlaces
  <2>2. \A u \in Tasks : CallOK(task'[u])
    BY <1>1, <1>9, <2>1 DEF LookTypes, OthersKeep, SameCall, CallOK
  <2>3. /\ rc' = [s \in Servers |-> rc'[s]]
        /\ \A s \in Servers : DOMAIN rc'[s] \subseteq Nat \ {0}
    BY <1>1, <1>2, <1>6 DEF LookTypes
  <2> QED BY <1>1, <1>4, <2>2, <2>3 DEF LookTypes, MetaTypes
<1>11. ReadFresh'
  <2>1. CASE Finish(t, "OK", v)
    <3>1. Undisturbed /\ k.why = {} => v \in seen[t]  BY <1>2, <1>3 DEF Found
    <3> QED BY <1>5, <2>1, <3>1 DEF ReadFresh, Finish, Undisturbed
  <2>2. CASE Goto(t, r)  BY <2>2 DEF Goto, ReadFresh, NoAnswer
  <2> QED BY <1>8, <2>1, <2>2
<1>12. Undisturbed' => Undisturbed  BY <1>5 DEF Undisturbed
<1>13. ASSUME Undisturbed
       PROVE  /\ KeysKept(wc, nextId, wc', nextId') /\ MetaKept /\ S3Kept
              /\ RootIn(task'[t].root, wc', nextId') /\ PathIn(task'[t], wc', nextId')
  <2>1. KeysKept(wc, nextId, wc', nextId')  BY <1>1, <1>4, SameKeys
  <2>2. MetaKept  BY <1>1, <1>4, SameMeta
  <2>3. RootIn(task'[t].root, wc', nextId')
    <3>1. task'[t].root \in {k.root, NoRoot}  BY <1>7, <1>9 DEF Idle
    <3>2. RootIn(k.root, wc', nextId')  BY <1>3, <1>13, <2>1, RootKept
    <3> QED BY <3>1, <3>2, NoRootIn
  <2>4. PathIn(task'[t], wc', nextId')  BY <1>7, <1>9 DEF PathIn, Writer
  <2> QED BY <1>4, <2>1, <2>2, <2>3, <2>4 DEF S3Kept
<1>14. ASSUME Undisturbed PROVE RcKept /\ ChunksOK'
  <2> SUFFICES ASSUME ~hist'.rcStale
               PROVE  /\ \A s \in Servers : \A x \in DOMAIN rc'[s] :
                            \/ x \in DOMAIN rc[s] /\ rc'[s][x] = rc[s][x]
                            \/ rc'[s][x] = hist'.intent
                      /\ ChunksOK'
    BY <1>5 DEF RcKept, ChunksOK
  <2>1. v = hist.intent /\ ~hist.rcStale /\ hist.open = {}
    BY <1>5, <1>14 DEF CacheInv, Durable, Undisturbed
  <2>2. ASSUME NEW s \in Servers, NEW x \in DOMAIN rc'[s]
        PROVE  \/ x \in DOMAIN rc[s] /\ rc'[s][x] = rc[s][x]
               \/ rc'[s][x] = hist.intent
    BY <1>6, <2>1
  <2>3. \A u \in Tasks : Invalidated(task'[u]) = {}
    <3>1. Invalidated(task'[t]) = {}  BY <1>7, <1>9 DEF Invalidated, Writer
    <3>2. \A u \in Tasks \ {t} : Invalidated(task'[u]) = {}
      BY <1>1, <1>9, <2>1, NoneInvalidated, SameCallKeeps DEF OthersKeep
    <3> QED BY <3>1, <3>2
  <2>4. ChunksOK'  BY <1>3, <1>5, <1>14, <2>1, <2>2, <2>3 DEF ChunksOK
  <2> QED BY <1>5, <2>2, <2>4
<1>15. ASSUME Undisturbed, Looker(task'[t]) PROVE ChunkSeen(t)' /\ Found(task'[t], s3', seen'[t])
  <2>1. task'[t] = r  BY <1>9, <1>15 DEF Looker
  <2>2. seen[t] \subseteq seen'[t] /\ hist'.intent \in seen'[t]
    BY <1>5, <1>15, Tracks DEF CacheInv, Undisturbed
  <2>3. ChunkSeen(t)'
    BY <1>2, <1>3, <1>7, <1>14, <1>15, <2>1, <2>2 DEF ChunkSeen, RcKept
  <2>4. Found(task'[t], s3', seen'[t])
    BY <1>3, <1>4, <1>7, <1>15, <2>1, <2>2 DEF Found
  <2> QED BY <2>3, <2>4
<1>16. etcd' = etcd  BY <1>4
<1> HIDE DEF to, c, v, k
<1> QED BY <1>9, <1>10, <1>11, <1>12, <1>13, <1>14, <1>15, <1>16, FreshStep

LEMMA LooksFresh ==
    ASSUME CacheInv, CacheInv', FreshInv, Track, NEW t \in Tasks, Read(t) \/ Head_(t)
    PROVE  FreshInv'
BY StartReadFresh, ReadRecordFresh, ReadHeadFresh, ReadChunkFresh, FillPutFresh, StartHeadFresh,
   HeadFresh DEF Read, Head_

------------------------------------------------------------------------------
(***************************************************************************)
(* Reads are fresh: the steps of the other operations                      *)
(***************************************************************************)
\* A step of a task that does not read: it moves on, or gives its answer.
Works(t) ==
    /\ OthersKeep(t) /\ answer'.op \notin {"read", "head"}
    /\ ~Looker(task'[t]) /\ (task'[t].op = "none" => task'[t] = Idle)

\* What the call knows after the step it knew before.
Knows(k, r) ==
    /\ r.root \in {NoRoot, k.root, etcd}
    /\ Writer(r) => \/ Writer(k) /\ r.path = k.path /\ r.ver = k.ver
                    \/ \A c \in DOMAIN r.path : DOMAIN r.path[c] = {}

\* ... and it has taken out no other chunks.
Follows(k, r) == Knows(k, r) /\ Invalidated(r) \subseteq Invalidated(k)

LEMMA FinishWorks ==
    ASSUME TypeOK, NEW t \in Tasks, ~Looker(task[t]), NEW status, NEW v, Finish(t, status, v)
    PROVE  Works(t) /\ Follows(task[t], task'[t]) /\ task'[t] = Idle
<1>1. Moves(t) /\ task'[t] = Idle  BY IdleFields, MovesTo DEF Finish
<1>2. OthersKeep(t)  BY <1>1, MovesKeep
<1>3. answer'.op = task[t].op  BY DEF Finish
<1>4. ~Looker(Idle) /\ ~Writer(Idle) /\ Idle.root = NoRoot /\ Invalidated(Idle) = {}
  BY IdleFields DEF Looker, Invalidated, Writer, Idle
<1> QED BY <1>1, <1>2, <1>3, <1>4 DEF Works, Follows, Knows, Looker

LEMMA GotoWorks ==
    ASSUME TypeOK, NEW t \in Tasks, NEW r, Goto(t, r), DOMAIN r = Fields, r.gcHit \in BOOLEAN,
           r.op \notin {"none", "read", "head"}
    PROVE  Works(t) /\ task'[t] = r
<1>1. Moves(t) /\ task'[t] = r  BY GotoMoves
<1>2. answer'.op = "none"  BY DEF Goto, NoAnswer
<1> QED BY <1>1, <1>2, MovesKeep DEF Works, Looker

LEMMA WorkFresh ==
    ASSUME CacheInv, CacheInv', FreshInv, Track, NEW t \in Tasks, Works(t),
           UNCHANGED <<nodeOf, policy>>, MetaTypes', nextId' \in [Servers -> Nat],
           rc' = [s \in Servers |-> rc'[s]], \A s \in Servers : DOMAIN rc'[s] \subseteq DOMAIN rc[s],
           Undisturbed' => Undisturbed,
           Undisturbed' =>
              /\ KeysKept(wc, nextId, wc', nextId')
              /\ etcd' = etcd \/ RootIn(etcd', wc', nextId')
              /\ MetaKept
              /\ RootIn(task'[t].root, wc', nextId') /\ PathIn(task'[t], wc', nextId')
              /\ S3Kept /\ RcKept /\ ChunksOK'
    PROVE  FreshInv'
<1>1. LookTypes  BY DEF FreshInv
<1>2. PlaceOK(task'[t])  BY DEF CacheInv, TasksOK, TaskOK, PlaceOK
<1>3. CallOK(task'[t])
  <2>1. CASE task'[t].op = "none"  BY <2>1, IdleFields DEF Works, CallOK, ReadPlaces, HeadPlaces
  <2>2. CASE task'[t].op # "none"
    BY <1>2, <2>2 DEF Works, Looker, CallOK, PlaceOK, ReadPlaces, HeadPlaces, Cleaning
  <2> QED BY <2>1, <2>2
<1>4. \A u \in Tasks : CallOK(task'[u])
  BY <1>1, <1>3 DEF LookTypes, Works, OthersKeep, SameCall, CallOK
<1>5. LookTypes'  BY <1>1, <1>4 DEF LookTypes
<1>6. ReadFresh'  BY DEF Works, ReadFresh
<1>7. OthersKeep(t) /\ ~Looker(task'[t])  BY DEF Works
<1> QED BY <1>5, <1>6, <1>7, FreshStep

\* The books change, and perhaps what a node's cache says, but no store does.
LEMMA QuietFresh ==
    ASSUME CacheInv, CacheInv', FreshInv, Track, NEW t \in Tasks, Works(t), Follows(task[t], task'[t]),
           UNCHANGED <<nodeOf, policy, etcd, s3, wc, nextId, rc>>,
           MetaTypes', Undisturbed' => MetaKept,
           hist'.intent = hist.intent, hist'.rcStale = hist.rcStale, hist'.idReset = hist.idReset,
           hist.exposed => hist'.exposed
    PROVE  FreshInv'
<1>1. TasksOK /\ LookTypes  BY DEF CacheInv, FreshInv
<1>2. Undisturbed' => Undisturbed  BY DEF Undisturbed
<1>3. ASSUME Undisturbed
      PROVE  /\ KeysKept(wc, nextId, wc', nextId')
             /\ RootIn(task'[t].root, wc', nextId') /\ PathIn(task'[t], wc', nextId')
             /\ S3Kept /\ RcKept /\ ChunksOK'
  <2>1. RootsOK /\ ChunksOK  BY <1>3 DEF FreshInv
  <2>2. KeysKept(wc, nextId, wc', nextId')  BY <1>1, SameKeys
  <2>3. RootIn(task'[t].root, wc', nextId')
    <3>1. RootIn(task'[t].root, wc, nextId)  BY <2>1, NoRootIn DEF RootsOK, Follows, Knows
    <3> QED BY <2>2, <3>1, RootKept
  <2>4. PathIn(task'[t], wc', nextId')
    <3>1. PathIn(task[t], wc, nextId) /\ Gathered(task[t])
      BY <1>1, <2>1 DEF RootsOK, TasksOK, TaskOK
    <3>2. PathIn(task[t], wc', nextId')  BY <2>2, <3>1, PathInKept
    <3> QED BY <3>2 DEF Follows, Knows, PathIn
  <2>5. S3Kept /\ RcKept /\ RcShrinks  BY DEF S3Kept, RcKept, RcShrinks
  <2>6. ChunksOK'  BY <2>1, <2>5, ChunksKept DEF Works, Follows, Knows
  <2> QED BY <2>2, <2>3, <2>4, <2>5, <2>6
<1>4. rc' = [s \in Servers |-> rc'[s]] /\ nextId' \in [Servers -> Nat]  BY <1>1 DEF LookTypes
<1>5. etcd' = etcd /\ \A s \in Servers : DOMAIN rc'[s] \subseteq DOMAIN rc[s]  OBVIOUS
<1> QED BY <1>2, <1>3, <1>4, <1>5, WorkFresh

\* The adaptor forgets what it knew.
LEMMA MetaForgotten ==
    ASSUME LookTypes, NEW n \in Nodes, NEW g, meta' = [meta EXCEPT ![n] = NoMeta(g)]
    PROVE  MetaTypes' /\ MetaKept
<1>1. DOMAIN NoMeta(g) = MetaFields /\ NoMeta(g).root = NoRoot /\ NoMeta(g).wcached = FALSE
  BY DEF NoMeta, MetaFields
<1>2. MetaIn(NoMeta(g), wc', nextId')  BY <1>1, NoRootIn DEF MetaIn
<1> HIDE DEF NoMeta
<1> QED BY <1>1, <1>2, MetaOne

LEMMA MetaMarked ==
    ASSUME LookTypes, NEW n \in Nodes, NEW m, DOMAIN m = MetaFields, m.root = meta[n].root,
           m.wcached = meta[n].wcached, meta' = [meta EXCEPT ![n] = m]
    PROVE  MetaTypes' /\ MetaKept
BY MetaOne

\* The collector is done, or the deep flush.
LEMMA GCDoneWorks ==
    ASSUME CacheInv, NEW t \in Tasks, task[t].pc \in {"gcts", "gclist", "gclist2", "gcend"},
           NEW status, GCDone(t, status)
    PROVE  Works(t) /\ Follows(task[t], task'[t])
<1> DEFINE k == task[t]
           back == [k EXCEPT !.after = "none", !.ts = Idle.ts, !.dl = None, !.root = NoRoot]
<1>1. TypeOK /\ PlaceOK(k) /\ k.pc \in Cleaning /\ DOMAIN k = Fields /\ k.gcHit \in BOOLEAN
  BY DEF CacheInv, TasksOK, TaskOK, TypeOK, Cleaning
<1>2. /\ k.op \in {"flush", "upload", "gc"} /\ k.after \in {"part", "upload", "gc"} /\ ~Looker(k)
      /\ (k.op = "flush" <=> k.after = "part") /\ (k.op = "upload" <=> k.after = "upload")
  BY <1>1, CleaningOps DEF Looker
<1>3. CASE k.after = "gc"  BY <1>1, <1>2, <1>3, FinishWorks DEF GCDone
<1>4. /\ DOMAIN back = Fields /\ back.gcHit = k.gcHit /\ back.op = k.op /\ back.path = k.path
      /\ back.ver = k.ver /\ back.root = NoRoot /\ back.todo = k.todo /\ back.inv = k.inv
      /\ back.res = k.res /\ back.chunk = k.chunk
  BY <1>1, FieldNames
<1> HIDE DEF back
<1>5. ASSUME NEW r, Goto(t, r), DOMAIN r = Fields, r.gcHit = k.gcHit, r.op = k.op, Writer(k),
             r.path = k.path, r.ver = k.ver, r.root = NoRoot,
             r.pc \in {"part", "upinv", "fail"},
             \/ r.op = "flush" /\ r.todo = k.todo /\ r.inv \subseteq k.inv /\ r.res = k.res
             \/ r.op = "flush" /\ r.res # "OK"
             \/ r.op = "upload" /\ r.pc \in {"upinv", "fail"}
      PROVE  Works(t) /\ Follows(k, task'[t])
  <2>1. Works(t) /\ task'[t] = r  BY <1>1, <1>5, GotoWorks DEF Writer
  <2>2. Invalidated(r) \subseteq Invalidated(k)  BY <1>5 DEF Invalidated, Writer
  <2> QED BY <1>5, <2>1, <2>2 DEF Follows, Knows
<1>6. CASE k.after = "part" /\ status = "OK"
  <2> DEFINE r == [back EXCEPT !.pc = "part", !.inv = @ \ {k.chunk},
                               !.retried = @ \cup {k.chunk}]
  <2>1. Goto(t, r)  BY <1>6 DEF GCDone, back
  <2>2. /\ DOMAIN r = Fields /\ r.gcHit = k.gcHit /\ r.op = k.op /\ r.path = k.path /\ r.ver = k.ver
        /\ r.root = NoRoot /\ r.todo = k.todo /\ r.inv \subseteq k.inv /\ r.res = k.res
        /\ r.pc = "part"
    BY <1>4, FieldNames
  <2> HIDE DEF r
  <2> QED BY <1>2, <1>5, <1>6, <2>1, <2>2 DEF Writer
<1>7. CASE k.after = "part" /\ status # "OK"
  <2> DEFINE r == [back EXCEPT !.pc = "part", !.todo = @ \ {k.chunk}, !.res = status]
  <2>1. Goto(t, r)  BY <1>7 DEF GCDone, back
  <2>2. /\ DOMAIN r = Fields /\ r.gcHit = k.gcHit /\ r.op = k.op /\ r.path = k.path /\ r.ver = k.ver
        /\ r.root = NoRoot /\ r.res # "OK" /\ r.pc = "part"
    BY <1>4, <1>7, FieldNames
  <2> HIDE DEF r
  <2> QED BY <1>2, <1>5, <1>7, <2>1, <2>2 DEF Writer
<1>8. CASE k.after = "upload"
  <2> DEFINE r == IF status = "OK" THEN [back EXCEPT !.pc = "upinv", !.retried = {1}]
                  ELSE [back EXCEPT !.pc = "fail", !.res = status]
  <2>1. Goto(t, r)  BY <1>8 DEF GCDone, back
  <2>2. /\ DOMAIN r = Fields /\ r.gcHit = k.gcHit /\ r.op = k.op /\ r.path = k.path /\ r.ver = k.ver
        /\ r.root = NoRoot /\ r.pc \in {"upinv", "fail"}
    BY <1>4, FieldNames
  <2> HIDE DEF r
  <2> QED BY <1>2, <1>5, <1>8, <2>1, <2>2 DEF Writer
<1> QED BY <1>2, <1>3, <1>6, <1>7, <1>8

LEMMA DeepDoneWorks ==
    ASSUME CacheInv, NEW t \in Tasks, task[t].pc \in {"dfjson", "dfdown", "dfup", "dfdel"},
           NEW status, DeepDone(t, status)
    PROVE  Works(t) /\ Follows(task[t], task'[t])
<1> DEFINE k == task[t]
           r == [k EXCEPT !.pc = "gclist2"]
<1>1. TypeOK /\ PlaceOK(k) /\ k.pc \in Cleaning /\ DOMAIN k = Fields /\ k.gcHit \in BOOLEAN
  BY DEF CacheInv, TasksOK, TaskOK, TypeOK, Cleaning
<1>2. k.op \in {"flush", "upload", "gc", "deep"} /\ ~Looker(k)  BY <1>1, CleaningOps DEF Looker
<1>3. CASE k.after = "none"  BY <1>1, <1>2, <1>3, FinishWorks DEF DeepDone
<1>4. CASE k.after # "none"
  <2>1. Goto(t, r)  BY <1>4 DEF DeepDone
  <2>2. /\ DOMAIN r = Fields /\ r.gcHit = k.gcHit /\ r.op = k.op /\ r.path = k.path /\ r.ver = k.ver
        /\ r.root = k.root /\ r.todo = k.todo /\ r.inv = k.inv /\ r.res = k.res /\ r.pc = "gclist2"
    BY <1>1, FieldNames
  <2> HIDE DEF r
  <2>3. Works(t) /\ task'[t] = r  BY <1>1, <1>2, <2>1, <2>2, GotoWorks
  <2>4. Invalidated(r) \subseteq Invalidated(k)  BY <1>1, <2>2 DEF Invalidated, Writer, Cleaning
  <2> QED BY <2>2, <2>3, <2>4 DEF Follows, Knows, Writer
<1> QED BY <1>3, <1>4

LEMMA StartWriteFresh ==
    ASSUME CacheInv, CacheInv', FreshInv, Track, NEW t \in Tasks, StartFlush(t) \/ StartUpload(t)
    PROVE  FreshInv'
<1> USE DEF fixed, stores
<1> DEFINE v == vers + 1
           n == nodeOf[t]
<1>1. TypeOK /\ LookTypes /\ hist \in Histories /\ n \in Nodes
  BY DEF CacheInv, FreshInv, TypeOK, LookTypes
<1>2. /\ UNCHANGED <<nodeOf, policy, etcd, s3, wc, nextId, rc>>
      /\ hist' = [hist EXCEPT !.open = @ \cup {v}]
  BY DEF StartFlush, StartUpload
<1>3. /\ hist'.intent = hist.intent /\ hist'.rcStale = hist.rcStale
      /\ hist'.idReset = hist.idReset /\ hist'.exposed = hist.exposed
  BY <1>1, <1>2 DEF Histories
<1>4. MetaTypes' /\ MetaKept
  <2>1. CASE StartFlush(t)  BY <1>1, <2>1, SameMeta DEF StartFlush
  <2>2. CASE StartUpload(t)
    <3> DEFINE m == [meta[n] EXCEPT !.present = FALSE, !.existed = TRUE, !.size = SizeOf[v]]
    <3>1. meta' = [meta EXCEPT ![n] = m]
      <4>1. meta' = [meta EXCEPT ![n].present = FALSE, ![n].existed = TRUE, ![n].size = SizeOf[v]]
        BY <2>2 DEF StartUpload
      <4> QED BY <1>1, <4>1 DEF LookTypes, MetaTypes
    <3>2. DOMAIN m = MetaFields /\ m.root = meta[n].root /\ m.wcached = meta[n].wcached
      BY <1>1 DEF LookTypes, MetaTypes, MetaFields
    <3> HIDE DEF m, n
    <3> QED BY <1>1, <3>1, <3>2, MetaMarked
  <2> QED BY <2>1, <2>2
<1>5. PICK r : /\ Goto(t, r) /\ DOMAIN r = Fields /\ r.gcHit = FALSE /\ Writer(r) /\ r.root = NoRoot
               /\ Invalidated(r) = {} /\ \A c \in DOMAIN r.path : r.path[c] = <<>>
  <2>1. CASE StartFlush(t)
    <3> DEFINE r == [Idle EXCEPT !.op = "flush", !.pc = "part", !.ver = v,
                       !.todo = 1 .. SizeOf[v], !.path = [c \in 1 .. SizeOf[v] |-> <<>>]]
    <3>1. Goto(t, r)  BY <2>1 DEF StartFlush
    <3>2. /\ DOMAIN r = Fields /\ r.gcHit = FALSE /\ r.op = "flush" /\ r.ver = v /\ r.root = NoRoot
          /\ r.pc = "part" /\ r.todo = 1 .. SizeOf[v] /\ r.inv = {} /\ r.path = [c \in 1 .. SizeOf[v] |-> <<>>]
      BY FieldNames DEF Idle
    <3> HIDE DEF r
    <3>3. Invalidated(r) = {}  BY <3>2 DEF Invalidated, Writer
    <3> QED BY <3>1, <3>2, <3>3 DEF Writer
  <2>2. CASE StartUpload(t)
    <3> DEFINE r == [Idle EXCEPT !.op = "upload", !.pc = "upinv", !.ver = v, !.gen = meta[n].gen]
    <3>1. Goto(t, r)  BY <2>2 DEF StartUpload
    <3>2. /\ DOMAIN r = Fields /\ r.gcHit = FALSE /\ r.op = "upload" /\ r.pc = "upinv"
          /\ r.root = NoRoot /\ r.path = <<>>
      BY FieldNames DEF Idle
    <3> HIDE DEF r
    <3>3. Invalidated(r) = {} /\ DOMAIN <<>> = {}  BY <3>2 DEF Invalidated, Writer
    <3> QED BY <3>1, <3>2, <3>3 DEF Writer
  <2> QED BY <2>1, <2>2
<1>6. Works(t) /\ task'[t] = r  BY <1>1, <1>5, GotoWorks DEF Writer
<1>7. Follows(task[t], r)
  <2>1. \A c \in DOMAIN r.path : DOMAIN r.path[c] = {}  BY <1>5
  <2> QED BY <1>5, <2>1 DEF Follows, Knows
<1> QED BY <1>2, <1>3, <1>4, <1>6, <1>7, QuietFresh

LEMMA EndWriteFresh ==
    ASSUME CacheInv, CacheInv', FreshInv, Track, NEW t \in Tasks,
           CompleteFlush(t) \/ UpMeta(t) \/ UpFail(t)
    PROVE  FreshInv'
<1> USE DEF fixed, stores
<1> DEFINE k == task[t]
           n == nodeOf[t]
<1>1. k.pc \in {"part", "upmeta", "fail"}  BY DEF CompleteFlush, UpMeta, UpFail, At
<1>2. /\ TypeOK /\ hist \in Histories /\ TaskOK(k) /\ Writer(k) /\ DOMAIN k = Fields
      /\ k.gcHit \in BOOLEAN /\ k.ver \in 1 .. MaxVer
  BY <1>1, WriterFacts
<1>3. LookTypes /\ n \in Nodes /\ ~Looker(k)  BY <1>2 DEF FreshInv, LookTypes, Looker, Writer
<1>4. UNCHANGED <<nodeOf, policy, etcd, s3, wc, nextId, rc>>  BY DEF CompleteFlush, UpMeta, UpFail
<1>5. /\ hist'.intent = hist.intent /\ hist'.rcStale = hist.rcStale
      /\ hist'.idReset = hist.idReset /\ hist'.exposed = hist.exposed
  BY <1>2 DEF CompleteFlush, UpMeta, UpFail, Histories
<1>6. ASSUME NEW status, NEW v, Finish(t, status, v), MetaTypes', Undisturbed => MetaKept
      PROVE  FreshInv'
  <2>1. Works(t) /\ Follows(k, task'[t])  BY <1>2, <1>3, <1>6, FinishWorks
  <2> QED BY <1>4, <1>5, <1>6, <2>1, QuietFresh DEF Undisturbed
<1>7. UNCHANGED meta => MetaTypes' /\ MetaKept  BY <1>3, SameMeta
<1>8. CASE CompleteFlush(t) /\ k.res = "OK"
  <2> DEFINE r == [k EXCEPT !.pc = "json"]
             m == [meta[n] EXCEPT !.present = FALSE]
  <2>1. /\ Goto(t, r) /\ meta' = [meta EXCEPT ![n].present = FALSE]
        /\ k.op = "flush" /\ k.pc = "part" /\ k.todo = {}
    BY <1>2, <1>8, WriterPlaces DEF CompleteFlush, At, TaskOK
  <2>2. /\ DOMAIN r = Fields /\ r.gcHit = k.gcHit /\ r.op = "flush" /\ r.path = k.path
        /\ r.ver = k.ver /\ r.root = k.root /\ r.pc = "json"
    BY <1>2, <2>1, FieldNames
  <2> HIDE DEF r
  <2>3. Works(t) /\ task'[t] = r  BY <1>2, <2>1, <2>2, GotoWorks
  <2>4. Follows(k, r)  BY <1>2, <1>8, <2>1, <2>2 DEF Follows, Knows, Invalidated, Writer
  <2>5. MetaTypes' /\ MetaKept
    <3>1. DOMAIN m = MetaFields /\ m.root = meta[n].root /\ m.wcached = meta[n].wcached
      BY <1>3 DEF LookTypes, MetaTypes, MetaFields
    <3>2. meta' = [meta EXCEPT ![n] = m]  BY <1>3, <2>1 DEF LookTypes, MetaTypes
    <3> HIDE DEF m, n
    <3> QED BY <1>3, <3>1, <3>2, MetaMarked
  <2> QED BY <1>4, <1>5, <2>3, <2>4, <2>5, QuietFresh
<1>9. CASE CompleteFlush(t) /\ k.res # "OK"
  BY <1>6, <1>7, <1>9 DEF CompleteFlush
<1>10. CASE UpFail(t)  BY <1>6, <1>7, <1>10 DEF UpFail
<1>11. CASE UpMeta(t)
  <2> DEFINE fields == [present |-> TRUE, wcached |-> policy = "replication",
                        root |-> IF policy = "replication" THEN RootOf(k) ELSE meta[n].root]
             m == Assign(meta[n], fields)
  <2>1. SetMeta(t, fields) /\ Finish(t, "OK", None) /\ k.pc = "upmeta"
    BY <1>11 DEF UpMeta, At
  <2>2. /\ m.root = IF policy = "replication" THEN RootOf(k) ELSE meta[n].root
        /\ m.wcached = (policy = "replication")
    <3>1. DOMAIN meta[n] = MetaFields  BY <1>3 DEF LookTypes, MetaTypes
    <3> QED BY <3>1 DEF Assign, MetaFields
  <2>3. DOMAIN fields \subseteq MetaFields  BY DEF MetaFields
  <2> HIDE DEF m, fields
  <2>4. Undisturbed => \/ m.root = meta[n].root /\ (m.wcached => meta[n].wcached)
                       \/ MetaIn(m, wc', nextId')
    <3> SUFFICES ASSUME Undisturbed, policy = "replication" PROVE MetaIn(m, wc', nextId')
      BY <1>3, <2>2 DEF LookTypes
    <3>1. PathIn(k, wc, nextId)  BY DEF FreshInv, RootsOK
    <3>2. Whole(k)  BY <1>2, <2>1 DEF TaskOK, Gathered
    <3>3. RootIn(RootOf(k), wc, nextId) /\ RootOf(k) # NoRoot  BY <1>2, <3>1, <3>2, RecordIn
    <3>4. RootIn(RootOf(k), wc', nextId')
      <4>1. KeysKept(wc, nextId, wc', nextId')  BY <1>3, <1>4, SameKeys
      <4> QED BY <3>3, <4>1, RootKept
    <3> QED BY <2>2, <3>3, <3>4 DEF MetaIn
  <2>5. MetaTypes' /\ (Undisturbed => MetaKept)  BY <1>3, <2>1, <2>3, <2>4, MetaSet DEF m
  <2> QED BY <1>6, <2>1, <2>5
<1> QED BY <1>8, <1>9, <1>10, <1>11 DEF CompleteFlush

LEMMA StartDeleteFresh ==
    ASSUME CacheInv, CacheInv', FreshInv, Track, NEW t \in Tasks, StartDelete(t)
    PROVE  FreshInv'
<1> USE DEF fixed, stores
<1> DEFINE n == nodeOf[t]
           m == meta[n]
           k == [Idle EXCEPT !.op = "delete", !.pc = "dels3", !.chunk = m.size]
           size == IF etcd # NoRoot THEN etcd.size ELSE IF s3 = None THEN 0 ELSE SizeOf[s3]
           r == IF policy = "nocache" \/ m.present
                THEN [k EXCEPT !.why = IF m.present THEN {"meta"} ELSE {}]
                ELSE [k EXCEPT !.chunk = size, !.root = etcd]
<1>1. TypeOK /\ LookTypes /\ hist \in Histories /\ n \in Nodes
  BY DEF CacheInv, FreshInv, TypeOK, LookTypes
<1>2. /\ UNCHANGED <<nodeOf, policy, etcd, s3, wc, nextId, rc>> /\ Goto(t, r)
      /\ hist' = [hist EXCEPT !.removing = @ + 1]
      /\ meta' = [meta EXCEPT ![n] = NoMeta(@.gen + 1)]
  BY DEF StartDelete, InvalidateMetaCacheEntry
<1>3. /\ DOMAIN r = Fields /\ r.gcHit = FALSE /\ r.op = "delete" /\ r.root \in {NoRoot, etcd}
  <2>1. /\ DOMAIN k = Fields /\ k.gcHit = FALSE /\ k.op = "delete" /\ k.root = NoRoot
    BY FieldNames DEF Idle
  <2> HIDE DEF k, size
  <2> QED BY <2>1, FieldNames
<1> HIDE DEF r
<1>4. Works(t) /\ task'[t] = r  BY <1>1, <1>2, <1>3, GotoWorks
<1>5. Follows(task[t], r)  BY <1>3 DEF Follows, Knows, Invalidated, Writer
<1>6. MetaTypes' /\ MetaKept
  <2>1. meta' = [meta EXCEPT ![n] = NoMeta(meta[n].gen + 1)]  BY <1>1, <1>2 DEF LookTypes, MetaTypes
  <2> HIDE DEF n
  <2> QED BY <1>1, <2>1, MetaForgotten
<1>7. /\ hist'.intent = hist.intent /\ hist'.rcStale = hist.rcStale
      /\ hist'.idReset = hist.idReset /\ hist'.exposed = hist.exposed
  BY <1>1, <1>2 DEF Histories
<1> QED BY <1>2, <1>4, <1>5, <1>6, <1>7, QuietFresh

LEMMA CleanStartsFresh ==
    ASSUME CacheInv, CacheInv', FreshInv, Track, NEW t \in Tasks, StartDeepFlush(t) \/ StartGC(t)
    PROVE  FreshInv'
<1>1. TypeOK /\ LookTypes  BY DEF CacheInv, FreshInv
<1>2. UNCHANGED <<nodeOf, policy, etcd, s3, wc, nextId, rc, meta, hist>>
  BY DEF StartDeepFlush, StartGC, fixed, stores
<1>3. PICK r : /\ Goto(t, r) /\ DOMAIN r = Fields /\ r.gcHit = FALSE /\ r.op \in {"deep", "gc"}
               /\ r.root = NoRoot
  <2>1. CASE StartDeepFlush(t)
    <3> DEFINE r == [Idle EXCEPT !.op = "deep", !.pc = "dfjson"]
    <3>1. Goto(t, r)  BY <2>1 DEF StartDeepFlush
    <3>2. DOMAIN r = Fields /\ r.gcHit = FALSE /\ r.op = "deep" /\ r.root = NoRoot
      BY FieldNames DEF Idle
    <3> QED BY <3>1, <3>2
  <2>2. CASE StartGC(t)
    <3> DEFINE r == [Idle EXCEPT !.op = "gc", !.pc = "gcts", !.after = "gc"]
    <3>1. Goto(t, r)  BY <2>2 DEF StartGC
    <3>2. DOMAIN r = Fields /\ r.gcHit = FALSE /\ r.op = "gc" /\ r.root = NoRoot
      BY FieldNames DEF Idle
    <3> QED BY <3>1, <3>2
  <2> QED BY <2>1, <2>2
<1>4. Works(t) /\ task'[t] = r  BY <1>1, <1>3, GotoWorks
<1>5. Follows(task[t], r)  BY <1>3 DEF Follows, Knows, Invalidated, Writer
<1> QED BY <1>1, <1>2, <1>4, <1>5, SameMeta, QuietFresh

\* From one place of the cleaning to another.
LEMMA CleanGoes ==
    ASSUME CacheInv, CacheInv', FreshInv, Track, NEW t \in Tasks, task[t].pc \in Cleaning,
           NEW r, Goto(t, r), DOMAIN r = Fields, r.gcHit = task[t].gcHit, r.op = task[t].op,
           r.path = task[t].path, r.ver = task[t].ver, r.todo = task[t].todo,
           r.inv = task[t].inv, r.res = task[t].res, r.pc \in Cleaning,
           r.root \in {task[t].root, etcd},
           UNCHANGED <<nodeOf, policy, etcd, s3, wc, nextId, rc>>,
           MetaTypes', Undisturbed' => MetaKept,
           hist'.intent = hist.intent, hist'.rcStale = hist.rcStale, hist'.idReset = hist.idReset,
           hist.exposed => hist'.exposed
    PROVE  FreshInv'
<1> DEFINE k == task[t]
<1>1. TypeOK /\ PlaceOK(k) /\ k.gcHit \in BOOLEAN  BY DEF CacheInv, TasksOK, TaskOK, TypeOK
<1>2. k.op \in {"flush", "upload", "gc", "deep"}  BY <1>1, CleaningOps
<1>3. Works(t) /\ task'[t] = r  BY <1>1, <1>2, GotoWorks
<1>4. Follows(k, r)  BY DEF Follows, Knows, Invalidated, Writer, Cleaning
<1> QED BY <1>3, <1>4, QuietFresh

LEMMA CleaningFresh ==
    ASSUME CacheInv, CacheInv', FreshInv, Track, NEW t \in Tasks,
           GCQueryTs(t) \/ GCList(t) \/ GCRecheck(t) \/ GCEnd(t) \/ DeepJson(t)
    PROVE  FreshInv'
<1> DEFINE k == task[t]
<1>1. TypeOK /\ LookTypes /\ DOMAIN k = Fields  BY DEF CacheInv, FreshInv, TypeOK
<1>2. UNCHANGED <<nodeOf, policy, etcd, s3, wc, nextId, rc, meta, hist>>
  BY DEF GCQueryTs, GCList, GCRecheck, GCEnd, DeepJson, fixed, stores
<1>3. MetaTypes' /\ MetaKept  BY <1>1, <1>2, SameMeta
<1>4. ASSUME Works(t), Follows(k, task'[t]) PROVE FreshInv'  BY <1>2, <1>3, <1>4, QuietFresh
<1>5. ASSUME NEW r, Goto(t, r), DOMAIN r = Fields, r.gcHit = k.gcHit, r.op = k.op,
             r.path = k.path, r.ver = k.ver, r.todo = k.todo, r.inv = k.inv, r.res = k.res,
             r.pc \in {"gclist", "dfjson", "dfdown", "gcdel"},
             k.pc \in {"gcts", "gclist", "gclist2", "dfjson"}, r.root \in {k.root, etcd}
      PROVE  FreshInv'
  BY <1>2, <1>3, <1>5, CleanGoes DEF Cleaning
<1>6. CASE GCQueryTs(t)
  <2>1. CASE GCDone(t, "RPC_FAILED")  BY <1>4, <1>6, <2>1, GCDoneWorks DEF GCQueryTs, At
  <2>2. CASE Goto(t, [k EXCEPT !.pc = "gclist", !.ts = [s \in Servers |-> QueryTs(s)]])
    <3> DEFINE r == [k EXCEPT !.pc = "gclist", !.ts = [s \in Servers |-> QueryTs(s)]]
    <3>1. /\ DOMAIN r = Fields /\ r.gcHit = k.gcHit /\ r.op = k.op /\ r.path = k.path
          /\ r.ver = k.ver /\ r.todo = k.todo /\ r.inv = k.inv /\ r.res = k.res
          /\ r.pc = "gclist" /\ r.root = k.root
      BY <1>1, FieldNames
    <3>2. Goto(t, r) /\ k.pc = "gcts"  BY <1>6, <2>2 DEF GCQueryTs, At
    <3> HIDE DEF r
    <3> QED BY <1>5, <3>1, <3>2
  <2> QED BY <1>6, <2>1, <2>2 DEF GCQueryTs
<1>7. CASE GCList(t)
  <2>1. CASE GCDone(t, "notfound")  BY <1>4, <1>7, <2>1, GCDoneWorks DEF GCList, At
  <2>2. CASE Goto(t, [k EXCEPT !.pc = "dfjson"])
    BY <1>1, <1>5, <1>7, <2>2, FieldNames DEF GCList, At
  <2> QED BY <1>7, <2>1, <2>2 DEF GCList
<1>8. CASE GCRecheck(t)
  <2>1. CASE GCDone(t, "METADATA_ERROR")  BY <1>4, <1>8, <2>1, GCDoneWorks DEF GCRecheck, At
  <2>2. CASE Goto(t, [k EXCEPT !.pc = "gcdel", !.root = etcd])
    BY <1>1, <1>5, <1>8, <2>2, FieldNames DEF GCRecheck, At
  <2> QED BY <1>8, <2>1, <2>2 DEF GCRecheck
<1>9. CASE GCEnd(t)  BY <1>4, <1>9, GCDoneWorks DEF GCEnd, At
<1>10. CASE DeepJson(t)
  <2>1. ASSUME NEW status, DeepDone(t, status) PROVE FreshInv'
    BY <1>4, <1>10, <2>1, DeepDoneWorks DEF DeepJson, At
  <2>2. CASE Goto(t, [k EXCEPT !.pc = "dfdown", !.root = etcd, !.gen = meta[nodeOf[t]].gen])
    <3> DEFINE r == [k EXCEPT !.pc = "dfdown", !.root = etcd, !.gen = meta[nodeOf[t]].gen]
    <3>1. /\ DOMAIN r = Fields /\ r.gcHit = k.gcHit /\ r.op = k.op /\ r.path = k.path
          /\ r.ver = k.ver /\ r.todo = k.todo /\ r.inv = k.inv /\ r.res = k.res
          /\ r.pc = "dfdown" /\ r.root = etcd
      BY <1>1, FieldNames
    <3>2. Goto(t, r) /\ k.pc = "dfjson"  BY <1>10, <2>2 DEF DeepJson, At
    <3> HIDE DEF r
    <3> QED BY <1>5, <3>1, <3>2
  <2> QED BY <1>10, <2>1, <2>2 DEF DeepJson
<1> QED BY <1>6, <1>7, <1>8, <1>9, <1>10

LEMMA DeepDownLoadFresh ==
    ASSUME CacheInv, CacheInv', FreshInv, Track, NEW t \in Tasks, DeepDownLoad(t)
    PROVE  FreshInv'
<1> USE DEF fixed, stores
<1> DEFINE k == task[t]
           n == nodeOf[t]
           m == meta[n]
           entry == [gen |-> m.gen, present |-> TRUE, existed |-> TRUE,
                     wcached |-> TRUE, size |-> etcd.size, root |-> etcd]
<1>1. TypeOK /\ LookTypes /\ DOMAIN k = Fields /\ n \in Nodes /\ hist \in Histories
  BY DEF CacheInv, FreshInv, TypeOK, LookTypes
<1>2. k.pc = "dfdown" /\ UNCHANGED <<nodeOf, policy, etcd, s3, wc, nextId, rc>>
  BY DEF DeepDownLoad, At
<1>3. \/ meta' = meta
      \/ etcd # NoRoot /\ meta' = [meta EXCEPT ![n] = entry]
  BY DEF DeepDownLoad
<1>4. MetaTypes' /\ (Undisturbed => MetaKept)
  <2>1. DOMAIN entry = MetaFields /\ entry.root = etcd  BY DEF MetaFields
  <2> HIDE DEF entry, n
  <2>2. Undisturbed /\ etcd # NoRoot => MetaIn(entry, wc', nextId')
    BY <1>2, <2>1 DEF FreshInv, RootsOK, MetaIn, RootIn, KeysOn
  <2>3. CASE meta' = meta  BY <1>1, <2>3, SameMeta
  <2>4. CASE etcd # NoRoot /\ meta' = [meta EXCEPT ![n] = entry]
    BY <1>1, <2>1, <2>2, <2>4, MetaOne
  <2> QED BY <1>3, <2>3, <2>4
<1>5. ASSUME NEW status, DeepDone(t, status), hist' = hist PROVE FreshInv'
  <2>1. Works(t) /\ Follows(k, task'[t])  BY <1>2, <1>5, DeepDoneWorks
  <2> QED BY <1>2, <1>4, <1>5, <2>1, QuietFresh DEF Undisturbed
<1>6. ASSUME NEW v, NEW bad, Goto(t, [k EXCEPT !.pc = "dfup", !.dl = v]),
             hist' = [hist EXCEPT !.exposed = @ \/ bad]
      PROVE  FreshInv'
  <2> DEFINE r == [k EXCEPT !.pc = "dfup", !.dl = v]
  <2>1. /\ DOMAIN r = Fields /\ r.gcHit = k.gcHit /\ r.op = k.op /\ r.path = k.path
        /\ r.ver = k.ver /\ r.todo = k.todo /\ r.inv = k.inv /\ r.res = k.res
        /\ r.pc = "dfup" /\ r.root = k.root
    BY <1>1, FieldNames
  <2>2. /\ hist'.intent = hist.intent /\ hist'.rcStale = hist.rcStale
        /\ hist'.idReset = hist.idReset /\ (hist.exposed => hist'.exposed)
    BY <1>1, <1>6 DEF Histories
  <2>3. Goto(t, r)  BY <1>6
  <2> HIDE DEF r
  <2>4. Undisturbed' => MetaKept  BY <1>4, <2>2 DEF Undisturbed
  <2> QED BY <1>2, <1>4, <2>1, <2>2, <2>3, <2>4, CleanGoes DEF Cleaning
<1>7. \/ \E status : DeepDone(t, status) /\ hist' = hist
      \/ \E v, bad : /\ Goto(t, [k EXCEPT !.pc = "dfup", !.dl = v])
                     /\ hist' = [hist EXCEPT !.exposed = @ \/ bad]
  <2> DEFINE root == IF m.present THEN m.root ELSE etcd
             inWc == IF m.present THEN m.wcached ELSE etcd # NoRoot
             base == IF s3 # None /\ SizeOf[s3] >= k.root.size THEN s3 ELSE None
             got(v, bad) == IF v = None THEN DeepDone(t, "failed") /\ UNCHANGED hist
                            ELSE /\ Goto(t, [k EXCEPT !.pc = "dfup", !.dl = v])
                                 /\ hist' = [hist EXCEPT !.exposed = @ \/ bad]
  <2>1. \/ DeepDone(t, "failed") /\ UNCHANGED hist
        \/ \E v, bad : got(v, bad)
    <3>1. CASE inWc /\ ~(m.present /\ (~m.existed \/ k.root.size > m.size))
      <4>1. PICK f \in [1 .. k.root.size ->
                           UNION {WriteCacheGet(root, c) : c \in 1 .. k.root.size}] :
               IF \A c \in DOMAIN f : f[c][1] = "OK"
               THEN got(f[1][2], \/ MetaStale(n)
                                 \/ \E c \in DOMAIN f : f[c][2] # root.ver)
               ELSE IF \E c \in DOMAIN f : f[c][1] = "RPC_FAILED"
               THEN got(base, TRUE)
               ELSE DeepDone(t, "failed") /\ UNCHANGED hist
        BY <3>1, Zenon DEF DeepDownLoad
      <4> HIDE DEF got, base
      <4> QED BY <4>1
    <3>2. CASE ~inWc /\ ~(m.present /\ (~m.existed \/ k.root.size > m.size))
      <4>1. got(base, MetaStale(n) \/ etcd = NoRoot)  BY <3>2, Zenon DEF DeepDownLoad
      <4> HIDE DEF got, base
      <4> QED BY <4>1
    <3>3. CASE m.present /\ (~m.existed \/ k.root.size > m.size)
      BY <3>3 DEF DeepDownLoad
    <3> QED BY <3>1, <3>2, <3>3
  <2>2. CASE \E v, bad : got(v, bad)
    <3>1. PICK v, bad : got(v, bad)  BY <2>2
    <3> QED BY <3>1
  <2> QED BY <2>1, <2>2
<1> QED BY <1>5, <1>6, <1>7

------------------------------------------------------------------------------
(***************************************************************************)
(* Reads are fresh: the steps that change a store                          *)
(***************************************************************************)
LEMMA KnowsIn ==
    ASSUME RootsOK, TasksOK, NEW t \in Tasks, Knows(task[t], task'[t]),
           KeysKept(wc, nextId, wc', nextId')
    PROVE  RootIn(task'[t].root, wc', nextId') /\ PathIn(task'[t], wc', nextId')
<1>1. RootIn(task'[t].root, wc', nextId')
  <2>1. RootIn(task'[t].root, wc, nextId)  BY NoRootIn DEF RootsOK, Knows
  <2> QED BY <2>1, RootKept
<1>2. PathIn(task'[t], wc', nextId')
  <2>1. PathIn(task[t], wc, nextId) /\ Gathered(task[t])  BY DEF RootsOK, TasksOK, TaskOK
  <2>2. PathIn(task[t], wc', nextId')  BY <2>1, PathInKept
  <2> QED BY <2>2 DEF Knows, PathIn
<1> QED BY <1>1, <1>2

\* Chunks leave the read caches of the servers that answer.
LEMMA DropFresh ==
    ASSUME CacheInv, CacheInv', FreshInv, Track, NEW t \in Tasks, Works(t), Knows(task[t], task'[t]),
           UNCHANGED <<nodeOf, policy, etcd, s3, wc, nextId, meta>>,
           NEW top, rc' = [s \in Servers |-> DeleteEntryFromReadCache(s, top)],
           hist'.intent = hist.intent, hist.rcStale => hist'.rcStale,
           hist'.idReset = hist.idReset, hist.exposed => hist'.exposed,
           \A c \in Nat \ {0} : c \in Invalidated(task'[t]) \ Invalidated(task[t]) /\ ~hist'.rcStale
              => \A s \in Servers : c \notin DOMAIN rc'[s]
    PROVE  FreshInv'
<1>1. TasksOK /\ LookTypes  BY DEF CacheInv, FreshInv
<1>2. ASSUME NEW s \in Servers
      PROVE  /\ DOMAIN rc'[s] \subseteq DOMAIN rc[s] /\ DOMAIN rc'[s] \subseteq Nat \ {0}
             /\ \A c \in DOMAIN rc'[s] : rc'[s][c] = rc[s][c]
  BY <1>1 DEF LookTypes, DeleteEntryFromReadCache
<1>3. rc' = [s \in Servers |-> rc'[s]] /\ nextId' \in [Servers -> Nat]  BY <1>1 DEF LookTypes
<1>4. Undisturbed' => Undisturbed  BY DEF Undisturbed
<1>5. MetaTypes' /\ MetaKept  BY <1>1, SameMeta
<1>6. ASSUME Undisturbed
      PROVE  /\ KeysKept(wc, nextId, wc', nextId')
             /\ RootIn(task'[t].root, wc', nextId') /\ PathIn(task'[t], wc', nextId')
             /\ S3Kept /\ RcKept /\ ChunksOK'
  <2>1. RootsOK /\ ChunksOK  BY <1>6 DEF FreshInv
  <2>2. KeysKept(wc, nextId, wc', nextId')  BY <1>1, SameKeys
  <2>3. RootIn(task'[t].root, wc', nextId') /\ PathIn(task'[t], wc', nextId')
    BY <1>1, <2>1, <2>2, KnowsIn
  <2>4. S3Kept /\ RcKept  BY <1>2 DEF S3Kept, RcKept
  <2>5. ChunksOK'
    <3> SUFFICES ASSUME ~hist'.rcStale, NEW s \in Servers, NEW c \in DOMAIN rc'[s]
                 PROVE  /\ hist.intent # None /\ c <= SizeOf[hist.intent] => rc'[s][c] = hist.intent
                        /\ \A u \in Tasks : c \notin Invalidated(task'[u])
      BY DEF ChunksOK
    <3>1. c \in DOMAIN rc[s] /\ rc'[s][c] = rc[s][c] /\ c \in Nat \ {0}  BY <1>2
    <3>2. \A u \in Tasks : c \notin Invalidated(task[u])  BY <2>1, <3>1 DEF ChunksOK
    <3>3. c \notin Invalidated(task'[t])  BY <3>1, <3>2
    <3>4. ASSUME NEW u \in Tasks \ {t} PROVE c \notin Invalidated(task'[u])
      BY <3>2, SameCallKeeps DEF Works, OthersKeep
    <3> QED BY <2>1, <3>1, <3>3, <3>4 DEF ChunksOK
  <2> QED BY <2>2, <2>3, <2>4, <2>5
<1>7. etcd' = etcd  OBVIOUS
<1> QED BY <1>2, <1>3, <1>4, <1>5, <1>6, <1>7, WorkFresh

LEMMA InvalidateFresh ==
    ASSUME CacheInv, CacheInv', FreshInv, Track, NEW t \in Tasks,
           UpInvalidate(t) \/ \E c \in task[t].todo : PartInvalidate(t, c)
    PROVE  FreshInv'
<1> DEFINE k == task[t]
<1>1. k.pc \in {"upinv", "part"}  BY DEF UpInvalidate, PartInvalidate, At
<1>2. TypeOK /\ TaskOK(k) /\ Gathered(k) /\ Writer(k) /\ DOMAIN k = Fields /\ k.gcHit \in BOOLEAN
      /\ SizeOf[k.ver] \in Nat \ {0} /\ hist \in Histories
  BY <1>1, WriterFacts DEF TaskOK
<1>3. UNCHANGED <<nodeOf, policy, etcd, s3, wc, nextId, meta>>
  BY DEF UpInvalidate, PartInvalidate, fixed
<1>4. LookTypes  BY DEF FreshInv
<1>5. ASSUME NEW top \in Nat, Invalidate(top)
      PROVE  /\ rc' = [s \in Servers |-> DeleteEntryFromReadCache(s, top)]
             /\ hist'.intent = hist.intent /\ (hist.rcStale => hist'.rcStale)
             /\ hist'.idReset = hist.idReset /\ hist'.exposed = hist.exposed
             /\ \A c \in 1 .. top : ~hist'.rcStale => \A s \in Servers : c \notin DOMAIN rc'[s]
  <2>1. /\ rc' = [s \in Servers |-> DeleteEntryFromReadCache(s, top)]
        /\ hist' = [hist EXCEPT !.rcStale =
                      @ \/ \E s \in Servers : ~up[s] /\ \E c \in DOMAIN rc[s] : c <= top]
    BY <1>5 DEF Invalidate
  <2>2. /\ hist'.intent = hist.intent /\ (hist.rcStale => hist'.rcStale)
        /\ hist'.idReset = hist.idReset /\ hist'.exposed = hist.exposed
        /\ ~hist'.rcStale => \A s \in Servers : up[s] \/ \A c \in DOMAIN rc[s] : ~(c <= top)
    BY <1>2, <2>1 DEF Histories
  <2>3. ASSUME NEW c \in 1 .. top, ~hist'.rcStale, NEW s \in Servers PROVE c \notin DOMAIN rc'[s]
    <3>1. ~(c > top)  OBVIOUS
    <3> QED BY <2>1, <2>2, <2>3, <3>1 DEF DeleteEntryFromReadCache
  <2> QED BY <2>1, <2>2, <2>3
<1>6. CASE UpInvalidate(t)
  <2> DEFINE r == [k EXCEPT !.pc = "upput"]
             top == SizeOf[k.ver]
  <2>1. Goto(t, r) /\ Invalidate(top)  BY <1>6 DEF UpInvalidate
  <2>2. /\ DOMAIN r = Fields /\ r.gcHit = k.gcHit /\ r.op = k.op /\ r.path = k.path
        /\ r.ver = k.ver /\ r.root = k.root /\ r.pc = "upput"
    BY <1>2, FieldNames
  <2> HIDE DEF r
  <2>3. Works(t) /\ task'[t] = r  BY <1>2, <2>1, <2>2, GotoWorks DEF Writer
  <2>4. Knows(k, r)  BY <1>2, <2>2 DEF Knows
  <2>5. Invalidated(r) = 1 .. top  BY <1>2, <2>2 DEF Invalidated, Writer
  <2>6. top \in Nat  BY <1>2
  <2> HIDE DEF top
  <2> QED BY <1>3, <1>5, <2>1, <2>3, <2>4, <2>5, <2>6, DropFresh
<1>7. ASSUME NEW c \in k.todo, PartInvalidate(t, c) PROVE FreshInv'
  <2> DEFINE r == [k EXCEPT !.inv = @ \cup {c}]
  <2>1. Goto(t, r) /\ Invalidate(c) /\ k.pc = "part" /\ k.op = "flush"
    BY <1>2, <1>7, WriterPlaces DEF PartInvalidate, At, TaskOK
  <2>2. /\ DOMAIN r = Fields /\ r.gcHit = k.gcHit /\ r.op = k.op /\ r.path = k.path
        /\ r.ver = k.ver /\ r.root = k.root /\ r.pc = k.pc /\ r.todo = k.todo /\ r.res = k.res
        /\ r.inv = k.inv \cup {c}
    BY <1>2, FieldNames
  <2> HIDE DEF r
  <2>3. Works(t) /\ task'[t] = r  BY <1>2, <2>1, <2>2, GotoWorks DEF Writer
  <2>4. Knows(k, r)  BY <1>2, <2>2 DEF Knows
  <2>5. Invalidated(r) \subseteq Invalidated(k) \cup {c}
    BY <1>2, <2>1, <2>2 DEF Invalidated, Writer
  <2>6. c \in Nat /\ c \in 1 .. c  BY <1>2, <2>1 DEF Gathered
  <2> QED BY <1>3, <1>5, <2>1, <2>3, <2>4, <2>5, <2>6, DropFresh
<1> QED BY <1>6, <1>7

LEMMA DeleteInvalidateFresh ==
    ASSUME CacheInv, CacheInv', FreshInv, Track, NEW t \in Tasks, DeleteInvalidate(t)
    PROVE  FreshInv'
<1> DEFINE k == task[t]
           top == k.chunk
<1>1. k.pc = "delinv" /\ UNCHANGED <<nodeOf, policy, etcd, s3, wc, nextId, meta>>
      /\ rc' = [s \in Servers |-> DeleteEntryFromReadCache(s, top)]
      /\ hist' = [hist EXCEPT !.removing = IF k.root = NoRoot THEN @ - 1 ELSE @]
  BY DEF DeleteInvalidate, At, fixed
<1>2. /\ TypeOK /\ hist \in Histories /\ DOMAIN k = Fields /\ k.gcHit \in BOOLEAN
      /\ k.op = "delete" /\ ~Looker(k)
  BY <1>1, DeleterFacts DEF Looker
<1>3. /\ hist'.intent = hist.intent /\ hist'.rcStale = hist.rcStale
      /\ hist'.idReset = hist.idReset /\ hist'.exposed = hist.exposed
  BY <1>1, <1>2 DEF Histories
<1>4. Works(t) /\ Knows(k, task'[t]) /\ Invalidated(task'[t]) \subseteq Invalidated(k)
  <2>1. CASE k.root # NoRoot
    <3> DEFINE r == [k EXCEPT !.pc = "deljson"]
    <3>1. Goto(t, r)  BY <2>1 DEF DeleteInvalidate
    <3>2. /\ DOMAIN r = Fields /\ r.gcHit = k.gcHit /\ r.op = "delete" /\ r.root = k.root
      BY <1>2, FieldNames
    <3> HIDE DEF r
    <3>3. Works(t) /\ task'[t] = r  BY <1>2, <3>1, <3>2, GotoWorks
    <3>4. Invalidated(r) = {}  BY <3>2 DEF Invalidated, Writer
    <3> QED BY <3>2, <3>3, <3>4 DEF Knows, Writer
  <2>2. CASE k.root = NoRoot
    <3>1. PICK status : Finish(t, status, None)  BY <2>2 DEF DeleteInvalidate
    <3> QED BY <1>2, <3>1, FinishWorks DEF Follows
  <2> QED BY <2>1, <2>2
<1> HIDE DEF top
<1> QED BY <1>1, <1>3, <1>4, DropFresh

\* Chunks go to the write caches.
LEMMA PutFresh ==
    ASSUME CacheInv, CacheInv', FreshInv, Track, NEW t \in Tasks, Works(t),
           UNCHANGED <<nodeOf, policy, etcd, s3, rc, meta>>,
           NEW C, IsFiniteSet(C), C \subseteq Nat, NEW v, PutChunks(C, v),
           task'[t].root = task[t].root, Undisturbed => PathIn(task'[t], wc', nextId'),
           Invalidated(task'[t]) \subseteq Invalidated(task[t])
    PROVE  FreshInv'
<1>1. TasksOK /\ LookTypes /\ hist \in Histories  BY DEF CacheInv, FreshInv, TypeOK
<1>2. /\ hist'.intent = hist.intent /\ hist'.rcStale = hist.rcStale
      /\ hist'.idReset = hist.idReset /\ (hist.exposed => hist'.exposed)
  <2>1. PICK b \in BOOLEAN : hist' = [hist EXCEPT !.exposed = @ \/ b]
    BY Zenon DEF PutChunks
  <2> QED BY <1>1, <2>1 DEF Histories
<1>3. Undisturbed' => Undisturbed  BY <1>2 DEF Undisturbed
<1>4. KeysKept(wc, nextId, wc', nextId') /\ nextId' \in [Servers -> Nat]  BY <1>1, PutKeys
<1>5. MetaTypes' /\ MetaKept  BY <1>1, SameMeta
<1>6. ASSUME Undisturbed
      PROVE  /\ RootIn(task'[t].root, wc', nextId') /\ PathIn(task'[t], wc', nextId')
             /\ S3Kept /\ RcKept /\ ChunksOK'
  <2>1. RootsOK /\ ChunksOK  BY <1>6 DEF FreshInv
  <2>2. RootIn(task'[t].root, wc', nextId')
    <3>1. RootIn(task[t].root, wc, nextId)  BY <2>1 DEF RootsOK
    <3> QED BY <1>4, <3>1, RootKept
  <2>3. S3Kept /\ RcKept /\ RcShrinks  BY <1>2 DEF S3Kept, RcKept, RcShrinks
  <2>4. ChunksOK'  BY <1>2, <2>1, <2>3, ChunksKept DEF Works
  <2> QED BY <1>6, <2>2, <2>3, <2>4
<1>7. rc' = [s \in Servers |-> rc'[s]] /\ \A s \in Servers : DOMAIN rc'[s] \subseteq DOMAIN rc[s]
  BY <1>1 DEF LookTypes
<1> QED BY <1>3, <1>4, <1>5, <1>6, <1>7, WorkFresh

\* The write knows no key that it did not know before.
LEMMA PutOnFresh ==
    ASSUME CacheInv, CacheInv', FreshInv, Track, NEW t \in Tasks, Works(t),
           UNCHANGED <<nodeOf, policy, etcd, s3, rc, meta>>,
           NEW C, IsFiniteSet(C), C \subseteq Nat, NEW v, PutChunks(C, v),
           SameWrite(task[t], task'[t]), task'[t].root = task[t].root,
           Invalidated(task'[t]) \subseteq Invalidated(task[t])
    PROVE  FreshInv'
<1>1. TasksOK /\ LookTypes  BY DEF CacheInv, FreshInv
<1>2. KeysKept(wc, nextId, wc', nextId')  BY <1>1, PutKeys
<1>3. Undisturbed => PathIn(task'[t], wc', nextId')
  <2> SUFFICES ASSUME Undisturbed PROVE PathIn(task'[t], wc', nextId')  OBVIOUS
  <2>1. PathIn(task[t], wc, nextId) /\ Gathered(task[t])
    BY <1>1 DEF FreshInv, RootsOK, TasksOK, TaskOK
  <2>2. PathIn(task[t], wc', nextId')  BY <1>2, <2>1, PathInKept
  <2> QED BY <2>2 DEF SameWrite, PathIn, Writer
<1> QED BY <1>3, PutFresh

LEMMA PartPutFresh ==
    ASSUME CacheInv, CacheInv', FreshInv, Track, NEW t \in Tasks, NEW c \in task[t].todo,
           PartPut(t, c)
    PROVE  FreshInv'
<1> DEFINE k == task[t]
           st == IF policy = "replication" THEN PutStatus({c}) ELSE "UNSUPPORTED_TYPE"
<1>1. /\ k.pc = "part" /\ c \in k.todo /\ c \in k.inv
      /\ UNCHANGED <<nodeOf, policy, etcd, s3, rc, meta>>
  BY DEF PartPut, At, fixed
<1>2. /\ TypeOK /\ TaskOK(k) /\ Writer(k) /\ DOMAIN k = Fields /\ k.gcHit \in BOOLEAN
      /\ SizeOf[k.ver] \in Nat \ {0} /\ hist \in Histories
  BY <1>1, WriterFacts
<1>3. k.op = "flush" /\ Gathered(k)  BY <1>1, <1>2, WriterPlaces DEF TaskOK
<1>4. c \in Nat /\ {c} \subseteq Nat /\ IsFiniteSet({c}) /\ c \in DOMAIN k.path
  <2>1. k.todo \subseteq 1 .. SizeOf[k.ver] /\ DOMAIN k.path = 1 .. SizeOf[k.ver]
    BY <1>2, <1>3 DEF Gathered
  <2>2. IsFiniteSet({c})  BY FS_Singleton
  <2> QED BY <1>1, <1>2, <2>1, <2>2
<1>5. LookTypes  BY DEF FreshInv
<1>6. \/ /\ st = "OK" /\ policy = "replication" /\ PutStatus({c}) = "OK"
         /\ Goto(t, [k EXCEPT !.todo = @ \ {c}, !.path[c] = PathOf(c)])
      \/ Goto(t, [k EXCEPT !.todo = @ \ {c}, !.res = "RPC_FAILED"])
      \/ Goto(t, [k EXCEPT !.pc = "gcts", !.after = "part", !.chunk = c])
      \/ st # "OK" /\ Goto(t, [k EXCEPT !.todo = @ \ {c}, !.res = st])
  BY DEF PartPut
<1> HIDE DEF st
\* The part is not in, or the collector is called.
<1>7. ASSUME NEW r, Goto(t, r), SameWrite(k, r), DOMAIN r = Fields, r.root = k.root,
             \/ r.res # "OK" /\ r.pc = "part"
             \/ r.todo = k.todo /\ r.inv = k.inv /\ r.res = k.res /\ r.pc = "gcts"
      PROVE  FreshInv'
  <2>1. Works(t) /\ task'[t] = r  BY <1>2, <1>3, <1>7, GotoWorks DEF SameWrite
  <2>2. Invalidated(r) \subseteq Invalidated(k)
    BY <1>1, <1>3, <1>7 DEF Invalidated, SameWrite, Writer
  <2>3. CASE PutChunks({c}, k.ver)  BY <1>1, <1>4, <1>7, <2>1, <2>2, <2>3, PutOnFresh
  <2>4. CASE UNCHANGED <<wc, nextId, hist>>
    <3>1. Follows(k, r)  BY <1>7, <2>2 DEF Follows, Knows, SameWrite, Writer
    <3>2. MetaTypes' /\ MetaKept  BY <1>1, <1>5, SameMeta
    <3> QED BY <1>1, <2>1, <2>4, <3>1, <3>2, QuietFresh
  <2> QED BY <2>3, <2>4 DEF PartPut
\* The part is in.
<1>8. CASE /\ policy = "replication" /\ PutStatus({c}) = "OK"
           /\ Goto(t, [k EXCEPT !.todo = @ \ {c}, !.path[c] = PathOf(c)])
  <2> DEFINE r == [k EXCEPT !.todo = @ \ {c}, !.path[c] = PathOf(c)]
             v == k.ver
  <2>1. Goto(t, r) /\ PutChunks({c}, v)  BY <1>8 DEF PartPut
  <2>2. /\ DOMAIN r = Fields /\ r.gcHit = k.gcHit /\ r.op = "flush" /\ r.pc = "part"
        /\ r.ver = v /\ r.res = k.res /\ r.root = k.root /\ r.inv = k.inv
        /\ r.todo = k.todo \ {c} /\ r.path = [k.path EXCEPT ![c] = PathOf(c)]
    BY <1>1, <1>2, <1>3, FieldNames
  <2> HIDE DEF r
  <2>3. Works(t) /\ task'[t] = r  BY <1>2, <2>1, <2>2, GotoWorks
  <2>4. Invalidated(r) = Invalidated(k)
    BY <1>1, <1>3, <2>2 DEF Invalidated, Writer
  <2>5. /\ DOMAIN r.path = DOMAIN k.path /\ r.path[c] = PathOf(c)
        /\ \A d \in DOMAIN k.path \ {c} : r.path[d] = k.path[d]
        /\ DOMAIN PathOf(c) = 1 .. R
        /\ \A i \in 1 .. R : PathOf(c)[i] \in IdsFor({c}, GetReplica[i])
    BY <1>4, <2>2, PathOfPart
  <2> HIDE DEF v
  <2>6. /\ KeysKept(wc, nextId, wc', nextId')
        /\ \A i \in 1 .. R : PutEntry({c}, GetReplica[i]) = "OK" =>
              \A ik \in IdsFor({c}, GetReplica[i]) :
                 KeyIn(ik, v, wc'[GetReplica[i]], nextId'[GetReplica[i]])
    BY <1>4, <1>5, <2>1, PutKeys
  <2>7. ASSUME Undisturbed PROVE PathIn(r, wc', nextId')
    <3> SUFFICES ASSUME NEW d \in DOMAIN r.path, NEW i \in DOMAIN r.path[d]
                 PROVE  KeyIn(r.path[d][i], v, wc'[GetReplica[i]], nextId'[GetReplica[i]])
      BY <2>2 DEF PathIn
    <3>1. CASE d = c
      <4>1. i \in 1 .. R /\ r.path[d][i] \in IdsFor({c}, GetReplica[i])  BY <2>5, <3>1
      <4>2. PutEntry({c}, GetReplica[i]) = "OK"  BY <1>8, <4>1, PutStatusOK
      <4> QED BY <2>6, <4>1, <4>2
    <3>2. CASE d # c
      <4>1. PathIn(k, wc, nextId)  BY <2>7 DEF FreshInv, RootsOK
      <4>2. PathIn(k, wc', nextId')  BY <1>3, <2>6, <4>1, PathInKept
      <4>3. d \in DOMAIN k.path /\ r.path[d] = k.path[d]  BY <2>5, <3>2
      <4> QED BY <1>2, <4>2, <4>3 DEF PathIn, v
    <3> QED BY <3>1, <3>2
  <2> QED BY <1>1, <1>4, <2>1, <2>2, <2>3, <2>4, <2>7, PutFresh
<1>9. CASE Goto(t, [k EXCEPT !.todo = @ \ {c}, !.res = "RPC_FAILED"])
  <2> DEFINE r == [k EXCEPT !.todo = @ \ {c}, !.res = "RPC_FAILED"]
  <2>1. SameWrite(k, r) /\ DOMAIN r = Fields /\ r.root = k.root /\ r.res # "OK" /\ r.pc = "part"
    BY <1>1, <1>2, FieldNames DEF SameWrite
  <2> QED BY <1>7, <1>9, <2>1
<1>10. CASE st # "OK" /\ Goto(t, [k EXCEPT !.todo = @ \ {c}, !.res = st])
  <2> DEFINE r == [k EXCEPT !.todo = @ \ {c}, !.res = st]
  <2>1. SameWrite(k, r) /\ DOMAIN r = Fields /\ r.root = k.root /\ r.res # "OK" /\ r.pc = "part"
    BY <1>1, <1>2, <1>10, FieldNames DEF SameWrite
  <2> QED BY <1>7, <1>10, <2>1
<1>11. CASE Goto(t, [k EXCEPT !.pc = "gcts", !.after = "part", !.chunk = c])
  <2> DEFINE r == [k EXCEPT !.pc = "gcts", !.after = "part", !.chunk = c]
  <2>1. /\ SameWrite(k, r) /\ DOMAIN r = Fields /\ r.root = k.root /\ r.pc = "gcts"
        /\ r.todo = k.todo /\ r.inv = k.inv /\ r.res = k.res
    BY <1>2, FieldNames DEF SameWrite
  <2> QED BY <1>7, <1>11, <2>1
<1> QED BY <1>6, <1>8, <1>9, <1>10, <1>11

LEMMA UpPutFresh ==
    ASSUME CacheInv, CacheInv', FreshInv, Track, NEW t \in Tasks, UpPut(t)
    PROVE  FreshInv'
<1> DEFINE k == task[t]
           v == k.ver
           C == 1 .. SizeOf[v]
           st == PutStatus(C)
           path == [c \in C |-> [i \in 1 .. R |->
                       CHOOSE ik \in IdsFor(C, GetReplica[i]) : ik[1] = c]]
<1>1. /\ k.pc = "upput" /\ UNCHANGED <<nodeOf, policy, etcd, s3, rc, meta>>
      /\ PutChunks(C, v)
  BY DEF UpPut, At, fixed
<1>2. /\ TypeOK /\ TaskOK(k) /\ Writer(k) /\ DOMAIN k = Fields /\ k.gcHit \in BOOLEAN
      /\ SizeOf[v] \in Nat \ {0}
  BY <1>1, WriterFacts
<1>3. k.op = "upload"  BY <1>1, <1>2, WriterPlaces DEF TaskOK
<1>4. C \subseteq Nat /\ IsFiniteSet(C)
  <2>1. SizeOf[v] \in Int  BY <1>2
  <2> QED BY <2>1, FS_Interval
<1>5. LookTypes  BY DEF FreshInv
<1>6. \/ st = "OK" /\ Goto(t, [k EXCEPT !.pc = "json", !.path = path])
      \/ Goto(t, [k EXCEPT !.pc = "gcts", !.after = "upload"])
      \/ Goto(t, [k EXCEPT !.pc = "fail", !.res = st])
  BY DEF UpPut
<1> HIDE DEF path
<1>7. ASSUME NEW r, Goto(t, r), SameWrite(k, r), DOMAIN r = Fields, r.root = k.root,
             r.pc \in {"gcts", "fail"}
      PROVE  FreshInv'
  <2>1. Works(t) /\ task'[t] = r  BY <1>2, <1>3, <1>7, GotoWorks DEF SameWrite
  <2>2. Invalidated(r) = {}  BY <1>3, <1>7 DEF Invalidated, SameWrite
  <2> HIDE DEF C
  <2> QED BY <1>1, <1>4, <1>7, <2>1, <2>2, PutOnFresh
<1>8. CASE st = "OK" /\ Goto(t, [k EXCEPT !.pc = "json", !.path = path])
  <2> DEFINE r == [k EXCEPT !.pc = "json", !.path = path]
  <2>1. Goto(t, r)  BY <1>8
  <2>2. /\ DOMAIN r = Fields /\ r.gcHit = k.gcHit /\ r.op = "upload" /\ r.pc = "json"
        /\ r.ver = v /\ r.path = path /\ r.root = k.root
    BY <1>1, <1>2, <1>3, FieldNames
  <2> HIDE DEF r
  <2>3. Works(t) /\ task'[t] = r  BY <1>2, <2>1, <2>2, GotoWorks
  <2>4. Invalidated(r) = Invalidated(k)  BY <1>1, <1>2, <2>2 DEF Invalidated, Writer
  <2>5. /\ DOMAIN path = C /\ \A c \in C : DOMAIN path[c] = 1 .. R
        /\ \A c \in C : \A i \in 1 .. R : path[c][i] \in IdsFor(C, GetReplica[i])
    BY PathOfUpload DEF path
  <2>6. \A i \in 1 .. R : PutEntry(C, GetReplica[i]) = "OK"  BY <1>8, PutStatusOK
  <2> HIDE DEF C, v
  <2>7. \A i \in 1 .. R : PutEntry(C, GetReplica[i]) = "OK" =>
              \A ik \in IdsFor(C, GetReplica[i]) :
                 KeyIn(ik, v, wc'[GetReplica[i]], nextId'[GetReplica[i]])
    BY <1>1, <1>4, <1>5, PutKeys
  <2>8. PathIn(r, wc', nextId')  BY <2>2, <2>5, <2>6, <2>7 DEF PathIn
  <2> QED BY <1>1, <1>4, <2>2, <2>3, <2>4, <2>8, PutFresh
<1>9. CASE Goto(t, [k EXCEPT !.pc = "gcts", !.after = "upload"])
  <2> DEFINE r == [k EXCEPT !.pc = "gcts", !.after = "upload"]
  <2>1. SameWrite(k, r) /\ DOMAIN r = Fields /\ r.root = k.root /\ r.pc = "gcts"
    BY <1>2, FieldNames DEF SameWrite
  <2> QED BY <1>7, <1>9, <2>1
<1>10. CASE Goto(t, [k EXCEPT !.pc = "fail", !.res = st])
  <2> DEFINE r == [k EXCEPT !.pc = "fail", !.res = st]
  <2> HIDE DEF st
  <2>1. SameWrite(k, r) /\ DOMAIN r = Fields /\ r.root = k.root /\ r.pc = "fail"
    BY <1>2, FieldNames DEF SameWrite
  <2> QED BY <1>7, <1>10, <2>1
<1> QED BY <1>6, <1>8, <1>9, <1>10

\* The object changes place, or is another one.
LEMMA StoreFresh ==
    ASSUME CacheInv, CacheInv', FreshInv, Track, NEW t \in Tasks, Works(t), Knows(task[t], task'[t]),
           UNCHANGED <<nodeOf, policy, wc, nextId, rc>>, MetaTypes', Undisturbed' => MetaKept,
           hist'.rcStale = hist.rcStale, hist'.idReset = hist.idReset,
           hist.exposed => hist'.exposed,
           Undisturbed' => /\ etcd' \in {etcd, NoRoot} \/ RootIn(etcd', wc, nextId)
                           /\ S3Kept,
           \/ /\ hist'.intent \in {hist.intent, None}
              /\ Invalidated(task'[t]) \subseteq Invalidated(task[t])
           \/ /\ Invalidated(task[t]) = 1 .. SizeOf[hist'.intent]
              /\ SizeOf[hist'.intent] \in Nat /\ Invalidated(task'[t]) = {}
    PROVE  FreshInv'
<1>1. TasksOK /\ LookTypes  BY DEF CacheInv, FreshInv
<1>2. Undisturbed' => Undisturbed  BY DEF Undisturbed
<1>3. ASSUME Undisturbed'
      PROVE  /\ KeysKept(wc, nextId, wc', nextId')
             /\ etcd' = etcd \/ RootIn(etcd', wc', nextId')
             /\ RootIn(task'[t].root, wc', nextId') /\ PathIn(task'[t], wc', nextId')
             /\ RcKept /\ ChunksOK'
  <2>1. RootsOK /\ ChunksOK  BY <1>2, <1>3 DEF FreshInv
  <2>2. KeysKept(wc, nextId, wc', nextId')  BY <1>1, SameKeys
  <2>3. RootIn(task'[t].root, wc', nextId') /\ PathIn(task'[t], wc', nextId')
    BY <1>1, <2>1, <2>2, KnowsIn
  <2>4. etcd' = etcd \/ RootIn(etcd', wc', nextId')
    <3>1. RootIn(etcd', wc, nextId) => RootIn(etcd', wc', nextId')  BY <2>2, RootKept
    <3>2. RootIn(NoRoot, wc', nextId')  BY NoRootIn
    <3> QED BY <1>3, <3>1, <3>2
  <2>5. RcKept /\ RcShrinks  BY DEF RcKept, RcShrinks
  <2>6. ChunksOK'
    <3>1. CASE /\ hist'.intent \in {hist.intent, None}
               /\ Invalidated(task'[t]) \subseteq Invalidated(task[t])
      BY <2>1, <2>5, <3>1, ChunksKept DEF Works
    <3>2. CASE /\ Invalidated(task[t]) = 1 .. SizeOf[hist'.intent]
               /\ SizeOf[hist'.intent] \in Nat /\ Invalidated(task'[t]) = {}
      <4> SUFFICES ASSUME ~hist.rcStale, NEW s \in Servers, NEW c \in DOMAIN rc[s]
                   PROVE  /\ ~(c <= SizeOf[hist'.intent])
                          /\ \A u \in Tasks : c \notin Invalidated(task'[u])
        BY DEF ChunksOK
      <4>1. c \in Nat \ {0}  BY <1>1 DEF LookTypes
      <4>2. \A u \in Tasks : c \notin Invalidated(task[u])  BY <2>1 DEF ChunksOK
      <4>3. ASSUME NEW u \in Tasks PROVE c \notin Invalidated(task'[u])
        <5>1. CASE u = t  BY <3>2, <5>1
        <5>2. CASE u # t  BY <4>2, <5>2, SameCallKeeps DEF Works, OthersKeep
        <5> QED BY <5>1, <5>2
      <4>4. c \notin 1 .. SizeOf[hist'.intent]  BY <3>2, <4>2
      <4> QED BY <3>2, <4>1, <4>3, <4>4
    <3> QED BY <3>1, <3>2
  <2> QED BY <2>2, <2>3, <2>4, <2>5, <2>6
<1>4. /\ rc' = [s \in Servers |-> rc'[s]] /\ nextId' \in [Servers -> Nat]
      /\ \A s \in Servers : DOMAIN rc'[s] \subseteq DOMAIN rc[s]
  BY <1>1 DEF LookTypes
<1> QED BY <1>2, <1>3, <1>4, WorkFresh

LEMMA UpBaseFresh ==
    ASSUME CacheInv, CacheInv', FreshInv, Track, NEW t \in Tasks, UpBase(t)
    PROVE  FreshInv'
<1> DEFINE k == task[t]
           v == k.ver
<1>1. k.pc = "upput" /\ UNCHANGED <<nodeOf, policy, etcd, wc, nextId, rc, meta>>
  BY DEF UpBase, At, fixed
<1>2. /\ TypeOK /\ TaskOK(k) /\ Writer(k) /\ DOMAIN k = Fields /\ k.gcHit \in BOOLEAN
      /\ SizeOf[v] \in Nat \ {0} /\ hist \in Histories
  BY <1>1, WriterFacts
<1>3. k.op = "upload"  BY <1>1, <1>2, WriterPlaces DEF TaskOK
<1>4. LookTypes /\ MetaTypes' /\ MetaKept
  <2>1. LookTypes  BY DEF FreshInv
  <2> QED BY <1>1, <2>1, SameMeta
<1>5. Invalidated(k) = 1 .. SizeOf[v]  BY <1>1, <1>2 DEF Invalidated
<1>6. CASE /\ s3' = v /\ Goto(t, [k EXCEPT !.pc = "upmeta"])
           /\ hist' = [hist EXCEPT !.intent = v, !.open = @ \ {v}, !.effective = @ \cup {v}]
  <2> DEFINE r == [k EXCEPT !.pc = "upmeta"]
  <2>1. /\ DOMAIN r = Fields /\ r.gcHit = k.gcHit /\ r.op = "upload" /\ r.pc = "upmeta"
        /\ r.ver = v /\ r.path = k.path /\ r.root = k.root
    BY <1>2, <1>3, FieldNames
  <2>2. Goto(t, r)  BY <1>6
  <2> HIDE DEF r
  <2>3. Works(t) /\ task'[t] = r  BY <1>2, <2>1, <2>2, GotoWorks
  <2>4. Knows(k, r) /\ Invalidated(r) = {}
    BY <1>2, <2>1 DEF Knows, Invalidated, Writer
  <2> HIDE DEF v
  <2>5. /\ hist'.intent = v /\ hist'.rcStale = hist.rcStale
        /\ hist'.idReset = hist.idReset /\ hist'.exposed = hist.exposed
    BY <1>2, <1>6 DEF Histories
  <2>6. S3Kept  BY <1>6, <2>5 DEF S3Kept
  <2> QED BY <1>1, <1>2, <1>4, <1>5, <2>3, <2>4, <2>5, <2>6, StoreFresh
<1>7. CASE s3' = s3 /\ hist' = hist /\ Goto(t, [k EXCEPT !.pc = "fail", !.res = "S3_INTERNAL_ERROR"])
  <2> DEFINE r == [k EXCEPT !.pc = "fail", !.res = "S3_INTERNAL_ERROR"]
  <2>1. /\ DOMAIN r = Fields /\ r.gcHit = k.gcHit /\ r.op = "upload" /\ r.pc = "fail"
        /\ r.ver = v /\ r.path = k.path /\ r.root = k.root
    BY <1>2, <1>3, FieldNames
  <2>2. Goto(t, r)  BY <1>7
  <2> HIDE DEF r
  <2>3. Works(t) /\ task'[t] = r  BY <1>2, <2>1, <2>2, GotoWorks
  <2>4. Follows(k, r)
    BY <1>2, <2>1 DEF Follows, Knows, Invalidated, Writer
  <2> QED BY <1>1, <1>4, <1>7, <2>3, <2>4, QuietFresh
<1> QED BY <1>6, <1>7 DEF UpBase, BaseUpLoad

LEMMA PutJsonFresh ==
    ASSUME CacheInv, CacheInv', FreshInv, Track, NEW t \in Tasks, PutJson(t)
    PROVE  FreshInv'
<1> DEFINE k == task[t]
           v == k.ver
           ack(h, st) == [h EXCEPT !.open = @ \ {v}, !.effective = @ \ {v},
                            !.acked = IF st = "OK" THEN @ \cup {v} ELSE @]
           h == Committed(k)
<1>1. k.pc = "json" /\ UNCHANGED <<nodeOf, policy, s3, wc, nextId, rc, meta>>
  BY DEF PutJson, At, fixed
<1>2. /\ TypeOK /\ TaskOK(k) /\ Writer(k) /\ DOMAIN k = Fields /\ k.gcHit \in BOOLEAN
      /\ SizeOf[v] \in Nat \ {0} /\ hist \in Histories /\ v \in 1 .. MaxVer /\ ~Looker(k)
  BY <1>1, WriterFacts DEF Writer, Looker
<1>3. LookTypes /\ MetaTypes' /\ MetaKept
  <2>1. LookTypes  BY DEF FreshInv
  <2> QED BY <1>1, <2>1, SameMeta
<1>4. Invalidated(k) = 1 .. SizeOf[v]  BY <1>1, <1>2 DEF Invalidated
<1>5. Undisturbed => RootIn(RootOf(k), wc, nextId)
  <2>1. Whole(k)  BY <1>1, <1>2 DEF TaskOK, Gathered
  <2>2. Undisturbed => PathIn(k, wc, nextId)  BY DEF FreshInv, RootsOK
  <2> QED BY <1>2, <2>1, <2>2, RecordIn
<1>6. \/ /\ etcd' = RootOf(k)
         /\ \/ hist' = ack(h, "OK") /\ Finish(t, "OK", None)
            \/ k.op = "upload" /\ hist' = h /\ Goto(t, [k EXCEPT !.pc = "upmeta"])
      \/ /\ etcd' \in {etcd, RootOf(k)} /\ Finish(t, "METADATA_ERROR", None)
         /\ hist' = ack(IF etcd' = etcd THEN hist ELSE h, "METADATA_ERROR")
  BY <1>2 DEF PutJson, Writer
<1> HIDE DEF v
<1>7. ASSUME NEW g \in Histories, NEW st
      PROVE  /\ ack(g, st).intent = g.intent /\ ack(g, st).exposed = g.exposed
             /\ ack(g, st).rcStale = g.rcStale /\ ack(g, st).idReset = g.idReset
  BY <1>7 DEF Histories
<1>8. /\ h \in Histories /\ h.intent = v /\ h.rcStale = hist.rcStale
      /\ h.idReset = hist.idReset /\ (hist.exposed => h.exposed)
  <2> DEFINE danger == k.gcHit \/ \E u \in Tasks : DeepFlushing(u) \/ Collecting(u, RootOf(k))
  <2>1. h = [hist EXCEPT !.intent = v, !.open = @ \ {v}, !.effective = @ \cup {v},
                         !.exposed = @ \/ danger]
    BY DEF Committed, v
  <2>2. danger \in BOOLEAN  BY <1>2
  <2> HIDE DEF danger, h
  <2>3. /\ h.rcStale = hist.rcStale /\ h.idReset = hist.idReset /\ (hist.exposed => h.exposed)
    BY <1>2, <2>1, <2>2 DEF Histories
  <2>4. h \in Histories /\ h.intent = v  BY <1>2, CommittedBooks DEF h, v
  <2> QED BY <2>3, <2>4
<1> HIDE DEF h, ack
<1>9. ASSUME etcd' = RootOf(k), hist'.intent = v, hist'.rcStale = hist.rcStale,
             hist'.idReset = hist.idReset, hist.exposed => hist'.exposed,
             Works(t), Knows(k, task'[t]), Invalidated(task'[t]) = {}
      PROVE  FreshInv'
  <2>1. S3Kept  BY <1>1 DEF S3Kept
  <2>2. Undisturbed' => Undisturbed  BY <1>9 DEF Undisturbed
  <2>3. Undisturbed' => RootIn(etcd', wc, nextId)  BY <1>5, <1>9, <2>2
  <2> QED BY <1>1, <1>2, <1>3, <1>4, <1>9, <2>1, <2>3, StoreFresh
<1>10. ASSUME NEW st, NEW status, etcd' = RootOf(k), hist' = ack(h, st), Finish(t, status, None)
       PROVE  FreshInv'
  <2>1. Works(t) /\ Knows(k, task'[t]) /\ task'[t] = Idle
    BY <1>2, <1>10, FinishWorks DEF Follows
  <2>2. Invalidated(Idle) = {}  BY IdleFields DEF Invalidated, Writer
  <2>3. /\ hist'.intent = v /\ hist'.rcStale = hist.rcStale
        /\ hist'.idReset = hist.idReset /\ (hist.exposed => hist'.exposed)
    BY <1>7, <1>8, <1>10
  <2> QED BY <1>9, <1>10, <2>1, <2>2, <2>3
<1>11. ASSUME etcd' = RootOf(k), k.op = "upload", hist' = h, Goto(t, [k EXCEPT !.pc = "upmeta"])
       PROVE  FreshInv'
  <2> DEFINE r == [k EXCEPT !.pc = "upmeta"]
  <2>1. /\ DOMAIN r = Fields /\ r.gcHit = k.gcHit /\ r.op = "upload" /\ r.pc = "upmeta"
        /\ r.ver = k.ver /\ r.path = k.path /\ r.root = k.root
    BY <1>2, <1>11, FieldNames
  <2>2. Goto(t, r)  BY <1>11
  <2> HIDE DEF r
  <2>3. Works(t) /\ task'[t] = r  BY <1>2, <2>1, <2>2, GotoWorks
  <2>4. Knows(k, r) /\ Invalidated(r) = {}
    BY <1>2, <2>1 DEF Knows, Invalidated, Writer
  <2> QED BY <1>8, <1>9, <1>11, <2>3, <2>4
<1>12. ASSUME NEW st, etcd' = etcd, hist' = ack(hist, st), NEW status, Finish(t, status, None)
       PROVE  FreshInv'
  <2>1. Works(t) /\ Follows(k, task'[t])  BY <1>2, <1>12, FinishWorks
  <2>2. /\ hist'.intent = hist.intent /\ hist'.rcStale = hist.rcStale
        /\ hist'.idReset = hist.idReset /\ hist'.exposed = hist.exposed
    BY <1>2, <1>7, <1>12
  <2> QED BY <1>1, <1>3, <1>12, <2>1, <2>2, QuietFresh
<1> QED BY <1>6, <1>10, <1>11, <1>12

LEMMA DeleteBaseFresh ==
    ASSUME CacheInv, CacheInv', FreshInv, Track, NEW t \in Tasks, DeleteBase(t)
    PROVE  FreshInv'
<1> DEFINE k == task[t]
           r(st) == [k EXCEPT !.pc = "delinv", !.why = IF st = "OK" THEN @ ELSE @ \cup {"base"}]
<1>1. k.pc = "dels3" /\ UNCHANGED <<nodeOf, policy, etcd, wc, nextId, rc, meta>>
  BY DEF DeleteBase, At, fixed
<1>2. /\ TypeOK /\ DOMAIN k = Fields /\ k.gcHit \in BOOLEAN /\ k.op = "delete" /\ ~Looker(k)
      /\ hist \in Histories /\ hist.removing \in Nat /\ hist.removing - 1 \in Nat
      /\ policy = "nocache" => etcd = NoRoot
  BY <1>1, DeleterFacts DEF Looker
<1>3. LookTypes /\ MetaTypes' /\ MetaKept
  <2>1. LookTypes  BY DEF FreshInv
  <2> QED BY <1>1, <2>1, SameMeta
<1>4. PICK st : /\ s3' = None \/ s3' = s3
                /\ IF policy = "nocache" THEN Finish(t, st, None) ELSE Goto(t, r(st))
  BY DEF DeleteBase, BaseDelete
<1>5. PICK b \in BOOLEAN :
         hist' = [hist EXCEPT
                 !.exposed = @ \/ b,
                 !.intent = IF etcd = NoRoot /\ s3' = None THEN None ELSE @,
                 !.removing = IF policy = "nocache" THEN @ - 1 ELSE @]
  BY DEF DeleteBase
<1>6. /\ hist'.rcStale = hist.rcStale /\ hist'.idReset = hist.idReset
      /\ hist.exposed => hist'.exposed
      /\ hist'.intent = IF etcd = NoRoot /\ s3' = None THEN None ELSE hist.intent
      /\ hist'.removing = IF policy = "nocache" THEN hist.removing - 1 ELSE hist.removing
  BY <1>2, <1>5 DEF Histories
<1>7. Works(t) /\ Knows(k, task'[t]) /\ Invalidated(task'[t]) = {}
  <2>1. CASE policy = "nocache"
    <3>1. Works(t) /\ Knows(k, task'[t]) /\ task'[t] = Idle
      BY <1>2, <1>4, <2>1, FinishWorks DEF Follows
    <3> QED BY <3>1, IdleFields DEF Invalidated, Writer
  <2>2. CASE policy # "nocache"
    <3>1. /\ DOMAIN r(st) = Fields /\ r(st).gcHit = k.gcHit /\ r(st).op = "delete"
          /\ r(st).root = k.root
      BY <1>2, FieldNames
    <3>2. Goto(t, r(st))  BY <1>4, <2>2
    <3> HIDE DEF r
    <3>3. Works(t) /\ task'[t] = r(st)  BY <1>2, <3>1, <3>2, GotoWorks
    <3> QED BY <3>1, <3>3 DEF Knows, Invalidated, Writer
  <2> QED BY <2>1, <2>2
<1>8. S3Kept
  <2>1. CASE s3' = s3  BY <2>1 DEF S3Kept
  <2>2. CASE s3' = None /\ policy = "nocache"  BY <1>2, <1>6, <2>2 DEF S3Kept
  <2>3. CASE s3' = None /\ policy # "nocache"
    <3>1. hist'.removing > 0  BY <1>2, <1>6, <2>3
    <3> QED BY <2>3, <3>1 DEF S3Kept
  <2> QED BY <1>4, <2>1, <2>2, <2>3
<1> QED BY <1>1, <1>3, <1>6, <1>7, <1>8, StoreFresh

LEMMA DeleteJsonFresh ==
    ASSUME CacheInv, CacheInv', FreshInv, Track, NEW t \in Tasks, DeleteJson(t)
    PROVE  FreshInv'
<1> DEFINE k == task[t]
<1>1. /\ k.pc = "deljson" /\ UNCHANGED <<nodeOf, policy, s3, wc, nextId, rc, meta>>
      /\ etcd' \in {etcd, NoRoot}
  BY DEF DeleteJson, At, EtcdDelete, fixed
<1>2. TypeOK /\ k.op = "delete" /\ ~Looker(k) /\ hist \in Histories
  BY <1>1, DeleterFacts DEF Looker
<1>3. LookTypes /\ MetaTypes' /\ MetaKept
  <2>1. LookTypes  BY DEF FreshInv
  <2> QED BY <1>1, <2>1, SameMeta
<1>4. PICK st : Finish(t, st, None)  BY DEF DeleteJson
<1>5. Works(t) /\ Knows(k, task'[t]) /\ Invalidated(task'[t]) \subseteq Invalidated(k)
  BY <1>2, <1>4, FinishWorks DEF Follows
<1>6. PICK b \in BOOLEAN :
         hist' = [hist EXCEPT !.removing = @ - 1,
                        !.intent = IF etcd' = NoRoot THEN None ELSE @, !.exposed = @ \/ b]
  BY DEF DeleteJson
<1>7. /\ hist'.rcStale = hist.rcStale /\ hist'.idReset = hist.idReset
      /\ hist.exposed => hist'.exposed
      /\ hist'.intent \in {hist.intent, None}
  BY <1>2, <1>6 DEF Histories
<1>8. S3Kept  BY <1>1 DEF S3Kept
<1> QED BY <1>1, <1>3, <1>5, <1>7, <1>8, StoreFresh

LEMMA DeepUpLoadFresh ==
    ASSUME CacheInv, CacheInv', FreshInv, Track, NEW t \in Tasks, DeepUpLoad(t)
    PROVE  FreshInv'
<1> DEFINE k == task[t]
           r == [k EXCEPT !.pc = "dfdel", !.dl = None]
<1>1. k.pc = "dfup" /\ UNCHANGED <<nodeOf, policy, etcd, wc, nextId, rc, meta>>
  BY DEF DeepUpLoad, At, fixed
<1>2. /\ TypeOK /\ TaskOK(k) /\ PlaceOK(k) /\ DOMAIN k = Fields /\ k.gcHit \in BOOLEAN
      /\ hist \in Histories
  BY <1>1, CleanerFacts
<1>3. LookTypes /\ MetaTypes' /\ MetaKept
  <2>1. LookTypes  BY DEF FreshInv
  <2> QED BY <1>1, <2>1, SameMeta
<1>4. CASE s3' = k.dl /\ Goto(t, r) /\ hist' = [hist EXCEPT !.exposed = @ \/ hist.removing > 0]
  <2>1. /\ hist'.intent = hist.intent /\ hist'.rcStale = hist.rcStale
        /\ hist'.idReset = hist.idReset /\ (hist.exposed => hist'.exposed)
    BY <1>2, <1>4 DEF Histories
  <2>2. /\ DOMAIN r = Fields /\ r.gcHit = k.gcHit /\ r.op = k.op /\ r.path = k.path
        /\ r.ver = k.ver /\ r.root = k.root /\ r.todo = k.todo /\ r.inv = k.inv
        /\ r.res = k.res /\ r.pc = "dfdel"
    BY <1>2, FieldNames
  <2>3. Goto(t, r)  BY <1>4
  <2> HIDE DEF r
  <2>4. k.op \in {"flush", "upload", "gc", "deep"}  BY <1>1, <1>2, CleaningOps DEF Cleaning
  <2>5. Works(t) /\ task'[t] = r  BY <1>2, <2>2, <2>3, <2>4, GotoWorks
  <2>6. Knows(k, r) /\ Invalidated(r) \subseteq Invalidated(k)
    BY <1>1, <2>2 DEF Knows, Invalidated, Writer
  <2>7. Undisturbed' => S3Kept
    <3>1. ~hist.exposed => k.dl = hist.intent  BY <1>1, <1>2 DEF TaskOK, DeepOK
    <3> QED BY <1>4, <2>1, <3>1 DEF S3Kept, Undisturbed
  <2> QED BY <1>1, <1>3, <2>1, <2>5, <2>6, <2>7, StoreFresh
<1>5. CASE s3' = s3 /\ UNCHANGED hist /\ DeepDone(t, "S3_INTERNAL_ERROR")
  <2>1. Works(t) /\ Follows(k, task'[t])  BY <1>1, <1>5, DeepDoneWorks
  <2> QED BY <1>1, <1>3, <1>5, <2>1, QuietFresh
<1> QED BY <1>4, <1>5 DEF DeepUpLoad, BaseUpLoad

LEMMA DeepDeleteFresh ==
    ASSUME CacheInv, CacheInv', FreshInv, Track, NEW t \in Tasks, DeepDelete(t)
    PROVE  FreshInv'
<1> DEFINE k == task[t]
           n == nodeOf[t]
<1>1. /\ k.pc = "dfdel" /\ UNCHANGED <<nodeOf, policy, s3, wc, nextId, rc, hist>>
      /\ etcd' \in {etcd, NoRoot}
  BY DEF DeepDelete, At, EtcdDelete, fixed
<1>2. LookTypes /\ n \in Nodes  BY DEF FreshInv, LookTypes
<1>3. MetaTypes' /\ MetaKept
  <2>1. meta' = [meta EXCEPT ![n] = NoMeta(@.gen + 1)]
    BY DEF DeepDelete, InvalidateMetaCacheEntry
  <2> DEFINE g == meta[n].gen + 1
  <2>2. meta' = [meta EXCEPT ![n] = NoMeta(g)]  BY <2>1
  <2> HIDE DEF g, n
  <2> QED BY <1>2, <2>2, MetaForgotten
<1>4. PICK status : DeepDone(t, status)  BY DEF DeepDelete
<1>5. Works(t) /\ Knows(k, task'[t]) /\ Invalidated(task'[t]) \subseteq Invalidated(k)
  BY <1>1, <1>4, DeepDoneWorks DEF Follows
<1>6. S3Kept  BY <1>1 DEF S3Kept
<1> QED BY <1>1, <1>3, <1>5, <1>6, StoreFresh

LEMMA GCDeleteFresh ==
    ASSUME CacheInv, CacheInv', FreshInv, Track, NEW t \in Tasks, GCDelete(t)
    PROVE  FreshInv'
<1> DEFINE hit(u) == /\ task[u].op \in {"flush", "upload"}
                     /\ \E c \in DOMAIN task[u].path : \E i \in DOMAIN task[u].path[c] :
                           task[u].path[c][i][2] < task[t].ts[GetReplica[i]]
           k == task[t]
<1>1. /\ k.pc = "gcdel" /\ answer' = NoAnswer
      /\ UNCHANGED <<nodeOf, policy, etcd, s3, nextId, rc, meta, hist>>
      /\ wc' = [s \in Servers |-> DeleteEntryFromWriteCache(t, s)]
      /\ task' = [u \in Tasks |->
                     [task[u] EXCEPT !.gcHit = @ \/ hit(u), !.pc = IF u = t THEN "gcend" ELSE @]]
  BY DEF GCDelete, At, fixed
<1>2. TypeOK /\ TaskOK(k) /\ PlaceOK(k) /\ hist \in Histories  BY <1>1, CleanerFacts
<1>3. LookTypes /\ MetaTypes' /\ MetaKept
  <2>1. LookTypes  BY DEF FreshInv
  <2> QED BY <1>1, <2>1, SameMeta
<1>4. ASSUME NEW u \in Tasks
      PROVE  /\ task'[u].pc = IF u = t THEN "gcend" ELSE task[u].pc
             /\ \A f \in Fields \ {"gcHit", "pc"} : task'[u][f] = task[u][f]
  <2>1. DOMAIN task[u] = Fields  BY <1>2 DEF TypeOK
  <2> HIDE DEF hit
  <2> QED BY <1>1, <2>1, FieldNames
<1> HIDE DEF hit
<1>5. ASSUME NEW u \in Tasks
      PROVE  /\ task'[u].op = task[u].op /\ task'[u].ver = task[u].ver
             /\ task'[u].chunk = task[u].chunk /\ task'[u].todo = task[u].todo
             /\ task'[u].inv = task[u].inv /\ task'[u].path = task[u].path
             /\ task'[u].root = task[u].root /\ task'[u].res = task[u].res
             /\ task'[u].why = task[u].why
  <2>1. {"op", "ver", "chunk", "todo", "inv", "path", "root", "res", "why"}
           \subseteq Fields \ {"gcHit", "pc"}
    BY FieldNames
  <2> QED BY <1>4, <2>1
<1>6. k.op \in {"flush", "upload", "gc", "deep"}  BY <1>1, <1>2, CleaningOps DEF Cleaning
<1>7. Works(t)
  <2>1. OthersKeep(t)  BY <1>4, <1>5 DEF OthersKeep, SameCall
  <2> QED BY <1>1, <1>5, <1>6, <2>1 DEF Works, Looker, NoAnswer
<1>8. Knows(k, task'[t]) /\ Invalidated(task'[t]) \subseteq Invalidated(k)
  <2> DEFINE r == task'[t]
  <2>1. /\ k.pc = "gcdel" /\ r.pc = "gcend" /\ r.op = k.op /\ r.ver = k.ver /\ r.todo = k.todo
        /\ r.inv = k.inv /\ r.path = k.path /\ r.root = k.root /\ r.res = k.res
    BY <1>1, <1>4, <1>5
  <2> HIDE DEF r, k
  <2> QED BY <2>1 DEF Knows, Invalidated, Writer, r
<1>9. KeysKept(wc, nextId, wc', nextId')
  <2>1. \A s \in Servers : nextId[s] \in Nat  BY <1>3 DEF LookTypes
  <2>2. ASSUME NEW s \in Servers, NEW ik \in DOMAIN wc'[s]
        PROVE  ik \in DOMAIN wc[s] /\ wc'[s][ik] = wc[s][ik]
    BY <1>1 DEF DeleteEntryFromWriteCache
  <2>3. nextId' = nextId  BY <1>1
  <2> QED BY <2>1, <2>2, <2>3 DEF KeysKept
<1>10. ASSUME Undisturbed
       PROVE  /\ RootIn(task'[t].root, wc', nextId') /\ PathIn(task'[t], wc', nextId')
              /\ S3Kept /\ RcKept /\ ChunksOK'
  <2>1. RootsOK /\ ChunksOK /\ TasksOK  BY <1>10 DEF FreshInv, CacheInv
  <2>2. RootIn(task'[t].root, wc', nextId') /\ PathIn(task'[t], wc', nextId')
    BY <1>8, <1>9, <2>1, KnowsIn
  <2>3. S3Kept /\ RcKept /\ RcShrinks  BY <1>1 DEF S3Kept, RcKept, RcShrinks
  <2>4. OthersKeep(t) /\ hist'.intent = hist.intent  BY <1>1, <1>7 DEF Works
  <2>5. ChunksOK'  BY <1>8, <2>1, <2>3, <2>4, ChunksKept
  <2> QED BY <2>2, <2>3, <2>5
<1>11. /\ rc' = [s \in Servers |-> rc'[s]] /\ nextId' \in [Servers -> Nat]
       /\ \A s \in Servers : DOMAIN rc'[s] \subseteq DOMAIN rc[s]
  BY <1>1, <1>3 DEF LookTypes
<1>12. Undisturbed' => Undisturbed  BY <1>1 DEF Undisturbed
<1> QED BY <1>1, <1>3, <1>7, <1>9, <1>10, <1>11, <1>12, WorkFresh

------------------------------------------------------------------------------
(***************************************************************************)
(* Reads are fresh: faults, and the whole                                  *)
(***************************************************************************)
\* A step of no task.
LEMMA StillFresh ==
    ASSUME CacheInv, CacheInv', FreshInv, Track, answer'.op \notin {"read", "head"},
           UNCHANGED <<task, nodeOf, policy, etcd, s3, wc>>, MetaTypes',
           nextId' \in [Servers -> Nat],
           rc' = [s \in Servers |-> rc'[s]], \A s \in Servers : DOMAIN rc'[s] \subseteq DOMAIN rc[s],
           hist'.intent = hist.intent, Undisturbed' => Undisturbed,
           Undisturbed' => KeysKept(wc, nextId, wc', nextId') /\ MetaKept /\ RcShrinks
    PROVE  FreshInv'
<1>1. TasksOK /\ LookTypes  BY DEF CacheInv, FreshInv
<1>2. LookTypes'  BY <1>1 DEF LookTypes, CallOK
<1>3. ReadFresh'  BY DEF ReadFresh
<1>4. ASSUME Undisturbed' PROVE RootsOK' /\ ChunksOK' /\ \A u \in Tasks : LookOK(u)'
  <2>1. /\ RootsOK /\ ChunksOK /\ (\A u \in Tasks : LookOK(u)) /\ Durable' /\ ~hist'.exposed
        /\ KeysKept(wc, nextId, wc', nextId') /\ MetaKept /\ RcShrinks
    BY <1>4 DEF FreshInv, CacheInv, Undisturbed
  <2>2. RootsOK'
    <3>1. RootIn(etcd', wc', nextId')  BY <2>1, RootKept DEF RootsOK
    <3>2. ASSUME NEW n \in Nodes PROVE MetaIn(meta'[n], wc', nextId')
      <4>1. MetaIn(meta[n], wc, nextId)  BY <2>1 DEF RootsOK
      <4>2. RootIn(meta[n].root, wc', nextId')  BY <2>1, <4>1, RootKept DEF MetaIn
      <4> QED BY <2>1, <4>1, <4>2 DEF MetaKept, MetaIn
    <3>3. ASSUME NEW u \in Tasks
          PROVE  RootIn(task'[u].root, wc', nextId') /\ PathIn(task'[u], wc', nextId')
      <4>1. RootIn(task[u].root, wc, nextId) /\ PathIn(task[u], wc, nextId) /\ Gathered(task[u])
        BY <1>1, <2>1 DEF RootsOK, TasksOK, TaskOK
      <4> QED BY <2>1, <4>1, RootKept, PathInKept
    <3> QED BY <3>1, <3>2, <3>3 DEF RootsOK
  <2>3. ChunksOK'  BY <2>1 DEF ChunksOK, RcShrinks
  <2>4. S3Kept /\ RcKept  BY <2>1 DEF S3Kept, RcKept, RcShrinks
  <2>5. ASSUME NEW u \in Tasks PROVE LookOK(u)'
    <3>1. SameCall(task[u], task'[u])  BY DEF SameCall
    <3> QED BY <2>1, <2>4, <3>1, OthersLook
  <2> QED BY <2>2, <2>3, <2>5
<1> QED BY <1>2, <1>3, <1>4 DEF FreshInv

LEMMA FaultFresh ==
    ASSUME CacheInv, CacheInv', FreshInv, Track,
           \/ \E s \in Servers : ServerDown(s) \/ ServerUp(s) \/ ServerRestart(s)
           \/ \E n \in Nodes : MetaEvict(n)
    PROVE  FreshInv'
<1> USE DEF Quiet, fixed, stores
<1>1. LookTypes /\ hist \in Histories  BY DEF CacheInv, FreshInv, TypeOK
<1>2. /\ UNCHANGED <<task, nodeOf, policy, etcd, s3, wc>> /\ answer' = NoAnswer
  BY DEF ServerDown, ServerUp, ServerRestart, MetaEvict
<1>3. answer'.op \notin {"read", "head"}  BY <1>2 DEF NoAnswer
<1>4. CASE UNCHANGED <<nextId, rc, meta, hist>>
  <2>1. MetaTypes' /\ MetaKept /\ RcShrinks  BY <1>1, <1>4, SameMeta DEF RcShrinks
  <2>2. KeysKept(wc, nextId, wc', nextId')  BY <1>1, <1>2, <1>4, SameKeys
  <2>3. Undisturbed' => Undisturbed  BY <1>4 DEF Undisturbed
  <2> QED BY <1>1, <1>2, <1>3, <1>4, <2>1, <2>2, <2>3, StillFresh DEF LookTypes
<1>5. ASSUME NEW s \in Servers, ServerRestart(s) PROVE FreshInv'
  <2>1. /\ nextId' = [nextId EXCEPT ![s] = 0] /\ rc' = [rc EXCEPT ![s] = <<>>]
        /\ hist' = [hist EXCEPT !.idReset = @ \/ nextId[s] > 0] /\ UNCHANGED meta
    BY <1>5 DEF ServerRestart
  <2>2. /\ hist'.intent = hist.intent /\ hist'.rcStale = hist.rcStale
        /\ hist'.exposed = hist.exposed
        /\ ~hist'.idReset => ~hist.idReset /\ ~(nextId[s] > 0)
    BY <1>1, <2>1 DEF Histories
  <2>3. nextId \in [Servers -> Nat] /\ nextId' \in [Servers -> Nat]  BY <1>1, <2>1 DEF LookTypes
  <2>4. /\ rc' = [q \in Servers |-> rc'[q]]
        /\ \A q \in Servers : /\ DOMAIN rc'[q] \subseteq DOMAIN rc[q]
                              /\ \A c \in DOMAIN rc'[q] : rc'[q][c] = rc[q][c]
    <3>1. rc = [q \in Servers |-> rc[q]]  BY <1>1 DEF LookTypes
    <3>2. rc' = [q \in Servers |-> IF q = s THEN <<>> ELSE rc[q]]  BY <2>1, <3>1
    <3>3. DOMAIN <<>> = {}  OBVIOUS
    <3>4. ASSUME NEW q \in Servers
          PROVE  DOMAIN rc'[q] \subseteq DOMAIN rc[q] /\ \A c \in DOMAIN rc'[q] : rc'[q][c] = rc[q][c]
      <4>1. CASE q = s  BY <3>2, <3>3, <4>1
      <4>2. CASE q # s  BY <3>2, <4>2
      <4> QED BY <4>1, <4>2
    <3> QED BY <3>2, <3>4
  <2>5. MetaTypes' /\ MetaKept  BY <1>1, <2>1, SameMeta
  <2>6. RcShrinks  BY <2>2, <2>4 DEF RcShrinks
  <2>7. Undisturbed' => KeysKept(wc, nextId, wc', nextId')
    <3> SUFFICES ASSUME ~hist'.idReset PROVE KeysKept(wc, nextId, wc', nextId')
      BY DEF Undisturbed
    <3>1. nextId[s] \in Nat /\ ~(nextId[s] > 0)  BY <2>2, <2>3
    <3>2. nextId' = nextId  BY <2>1, <2>3, <3>1
    <3> QED BY <1>1, <1>2, <3>2, SameKeys
  <2>8. Undisturbed' => Undisturbed  BY <2>2 DEF Undisturbed
  <2> QED BY <1>2, <1>3, <2>2, <2>3, <2>4, <2>5, <2>6, <2>7, <2>8, StillFresh
<1>6. ASSUME NEW n \in Nodes, MetaEvict(n) PROVE FreshInv'
  <2> DEFINE g == meta[n].gen + 1
  <2>1. meta' = [meta EXCEPT ![n] = NoMeta(g)] /\ UNCHANGED <<nextId, rc, hist>>
    BY <1>6 DEF MetaEvict
  <2> HIDE DEF g
  <2>2. MetaTypes' /\ MetaKept /\ RcShrinks  BY <1>1, <2>1, MetaForgotten DEF RcShrinks
  <2>3. KeysKept(wc, nextId, wc', nextId')  BY <1>1, <1>2, <2>1, SameKeys
  <2>4. Undisturbed' => Undisturbed  BY <2>1 DEF Undisturbed
  <2> QED BY <1>1, <1>2, <1>3, <2>1, <2>2, <2>3, <2>4, StillFresh DEF LookTypes
<1>7. ASSUME NEW s \in Servers, ServerDown(s) \/ ServerUp(s) PROVE FreshInv'
  BY <1>4, <1>7 DEF ServerDown, ServerUp
<1> QED BY <1>5, <1>6, <1>7

LEMMA InitFresh == Init => FreshInv
<1> SUFFICES ASSUME Init PROVE FreshInv  OBVIOUS
<1>1. /\ task = [t \in Tasks |-> Idle] /\ nodeOf \in [Tasks -> Nodes] /\ policy \in Policies
      /\ etcd = NoRoot /\ rc = [s \in Servers |-> <<>>] /\ nextId = [s \in Servers |-> 0]
      /\ meta = [n \in Nodes |-> NoMeta(0)] /\ answer = NoAnswer
  BY DEF Init
<1>2. DOMAIN <<>> = {} /\ \A s \in Servers : rc[s] = <<>>  BY <1>1
<1>3. LookTypes
  <2>1. MetaTypes  BY <1>1 DEF MetaTypes, MetaFields, NoMeta
  <2>2. CallOK(Idle)  BY IdleFields DEF CallOK, ReadPlaces, HeadPlaces
  <2>3. policy \in {"replication", "nocache"}  BY <1>1, GlobalCacheAssumption
  <2> QED BY <1>1, <1>2, <2>1, <2>2, <2>3 DEF LookTypes
<1>4. ReadFresh  BY <1>1 DEF ReadFresh, NoAnswer
<1>5. RootsOK
  <2>1. Idle.root = NoRoot /\ ~Writer(Idle)  BY IdleFields DEF Idle, Writer
  <2>2. NoMeta(0).root = NoRoot /\ NoMeta(0).wcached = FALSE  BY DEF NoMeta
  <2> HIDE DEF Idle, NoMeta
  <2> QED BY <1>1, <2>1, <2>2, NoRootIn DEF RootsOK, MetaIn, PathIn
<1>6. ChunksOK  BY <1>2 DEF ChunksOK
<1>7. ASSUME NEW t \in Tasks PROVE LookOK(t)  BY <1>1, IdleFields DEF LookOK, Looker
<1> QED BY <1>3, <1>4, <1>5, <1>6, <1>7 DEF FreshInv

LEMMA StepFresh == CacheInv /\ CacheInv' /\ FreshInv /\ [Next]_vars => FreshInv'
<1> SUFFICES ASSUME CacheInv, CacheInv', FreshInv, [Next]_vars PROVE FreshInv'  OBVIOUS
<1>1. CASE UNCHANGED vars
  <2> USE <1>1 DEF vars, fixed, stores
  <2>1. LookTypes' /\ ReadFresh'  BY DEF FreshInv, LookTypes, MetaTypes, CallOK, ReadFresh
  <2>2. Undisturbed' = Undisturbed  BY DEF Undisturbed
  <2>3. RootsOK' = RootsOK  BY DEF RootsOK, RootIn, PathIn, MetaIn, KeyIn
  <2>4. ChunksOK' = ChunksOK  BY DEF ChunksOK
  <2>5. \A t \in Tasks : LookOK(t)' = LookOK(t)  BY DEF LookOK, ChunkSeen, Found
  <2> QED BY <2>1, <2>2, <2>3, <2>4, <2>5 DEF FreshInv
<1>2. CASE Next
  <2>1. Track /\ Step  BY <1>2 DEF Next
  <2>2. ASSUME NEW t \in Tasks, Flush(t) PROVE FreshInv'
    BY <2>1, <2>2, StartWriteFresh, InvalidateFresh, PartPutFresh, EndWriteFresh, PutJsonFresh
       DEF Flush
  <2>3. ASSUME NEW t \in Tasks, Upload(t) PROVE FreshInv'
    BY <2>1, <2>3, StartWriteFresh, InvalidateFresh, UpPutFresh, UpBaseFresh, EndWriteFresh
       DEF Upload
  <2>4. ASSUME NEW t \in Tasks, Read(t) \/ Head_(t) PROVE FreshInv'  BY <2>1, <2>4, LooksFresh
  <2>5. ASSUME NEW t \in Tasks, Delete(t) PROVE FreshInv'
    BY <2>1, <2>5, StartDeleteFresh, DeleteBaseFresh, DeleteInvalidateFresh, DeleteJsonFresh
       DEF Delete
  <2>6. ASSUME NEW t \in Tasks, DeepFlush(t) PROVE FreshInv'
    BY <2>1, <2>6, CleanStartsFresh, CleaningFresh, DeepDownLoadFresh, DeepUpLoadFresh,
       DeepDeleteFresh DEF DeepFlush
  <2>7. ASSUME NEW t \in Tasks, GarbageCollect(t) PROVE FreshInv'
    BY <2>1, <2>7, CleanStartsFresh, CleaningFresh, GCDeleteFresh DEF GarbageCollect
  <2> QED BY <2>1, <2>2, <2>3, <2>4, <2>5, <2>6, <2>7, FaultFresh DEF Step
<1> QED BY <1>1, <1>2

\* A read or a Head through any node (GlobalDataAdaptor::DownLoad and Head, with the metadata
\* cache, the write cache's replicas and the read cache in between) answers with a version
\* that the object had during the call, whatever writes, removals, deep flushes, collections
\* and failures go on, but for the cases that ReadFresh names.
THEOREM ReadsAreFresh == Spec => []ReadFresh
<1>1. Init /\ CacheInv => CacheInv /\ FreshInv  BY InitFresh
<1>2. CacheInv /\ CacheInv' /\ FreshInv /\ [Next]_vars => FreshInv'  BY StepFresh
<1>3. FreshInv => ReadFresh  BY DEF FreshInv
<1> QED BY <1>1, <1>2, <1>3, CacheInvAlways, PTL DEF Spec
==============================================================================
