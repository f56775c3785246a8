---------------------------- MODULE RequestProofs ----------------------------
(***************************************************************************)
(* Proofs about the requests to S3: every curl handle has one owner, an    *)
(* absent object is never reported for one that is there, a download that  *)
(* answers 0 is exact, and an upload leaves the object as it was or as the *)
(* call wants it, with no multipart upload left open.                      *)
(*                                                                         *)
(* The parts of the file: handles; absence; where a request stands between *)
(* two tries; downloads and the chunks they are made of; which multipart   *)
(* uploads may be open; pieces of data put together; the data of an        *)
(* upload; the theorems.                                                   *)
(***************************************************************************)
EXTENDS Request, TLAPS, FiniteSetTheorems, SequenceTheorems, WellFoundedInduction,
        NaturalsInduction

-----------------------------------------------------------------------------
(* The invariants.                                                         *)
ReqFields == {"type", "part", "startpos", "size", "at", "b_start", "b_size", "b_buf",
              "retry", "tries", "code", "curl", "st", "handle", "res", "again", "errbody"}

CallFields == {"op", "pc", "start", "size", "todo", "key", "res", "was", "want"}

Handles == Nat \ {0}

\* A request holds a handle as long as a thread carries it out.
ReqOk(q) ==
    /\ DOMAIN q = ReqFields
    /\ q.st \in {"new", "run", "ended"} /\ q.handle \in Nat
    /\ q.st = "new" => q.handle = 0
    /\ q.st = "run" => q.handle # 0

\* A request that no thread has taken up yet.
Fresh(q) == DOMAIN q = ReqFields /\ q.st = "new" /\ q.handle = 0

FreshGets == [type : {"GET"}, part : Nat, startpos : Int, size : Int, at : Int,
                     b_start : Int, b_size : Int, b_buf : Int, retry : {0}, tries : {0},
                     code : {NotSet}, curl : {"OK"}, st : {"new"}, handle : {0},
                     res : {"0"}, again : {FALSE}, errbody : {FALSE}]

\* The shape of the call: what its phase says of its requests.
CallOk ==
    /\ DOMAIN call = CallFields
    /\ call.pc \in {"idle", "one", "multi", "spin"}
    /\ \A k \in DOMAIN call.todo : Fresh(call.todo[k])
    /\ call.op = "download" => call.todo \in Seq(FreshGets)
    /\ \A i \in DOMAIN req : ReqOk(req[i])
    /\ call.pc = "idle" => DOMAIN req = {}
    /\ call.pc = "one" => DOMAIN req = {1} /\ req[1].st # "new" /\ req[1].handle # 0
    /\ call.pc = "multi" => \A i \in DOMAIN req : req[i].st = "ended" => req[i].handle = 0

\* The pool holds different handles, none of which a request owns.
PoolOk ==
    /\ pool \in Seq(Handles) /\ Len(pool) <= PoolSize
    /\ \A i, j \in 1 .. Len(pool) : i # j => pool[i] # pool[j]
    /\ \A i \in 1 .. Len(pool) : pool[i] \notin timed

\* A handle has one request and a timer.
OwnedOk ==
    /\ timed = Owned /\ IsFiniteSet(timed)
    /\ \A i, j \in DOMAIN req : i # j /\ req[i].handle # 0 => req[i].handle # req[j].handle

HandleInv == CallOk /\ PoolOk /\ OwnedOk

\* What a call that looks for the object finds: it is not there, or its range is not.
Absent == ~obj.exists \/ (call.op = "download" /\ call.start >= Len(obj.data))

\* The single request of such a call asks for the call's range, and ENOENT is its
\* answer only for what is absent.
Asking(q) ==
    /\ call.op = "head" => q.type = "HEAD"
    /\ call.op = "download" => q.type = "GET" /\ q.b_start = call.start
                               /\ (q.st = "run" => q.startpos = call.start)
    /\ call.op \in {"head", "download"} /\ q.st = "ended" /\ q.res = "ENOENT" => Absent

AbsentInv ==
    /\ AbsentTruth
    /\ call.pc = "one" => Asking(req[1])
    /\ call.pc \in {"multi", "spin"} => call.op # "head"

-----------------------------------------------------------------------------
(* The pool.                                                               *)

\* GetHandler finds a handle that nobody owns: a new one has the first free number.
LEMMA TakenIsFree ==
    ASSUME PoolOk, IsFiniteSet(timed), timed \subseteq Handles
    PROVE  Taken \in Handles /\ Taken \notin timed
<1>1. CASE pool # <<>>
    <2>1. Len(pool) \in 1 .. Len(pool)
        BY <1>1 DEF PoolOk
    <2> QED BY <1>1, <2>1 DEF PoolOk, Taken
<1>2. CASE pool = <<>>
    <2>1. PICK n \in Nat : n = Cardinality(timed)
        BY FS_CardinalityType
    <2>2. IsFiniteSet(1 .. n + 1) /\ Cardinality(1 .. n + 1) = n + 1
        <3>1. n + 1 \in Int /\ 1 \in Int /\ 1 <= n + 1
            BY <2>1
        <3>2. (IF 1 <= n + 1 THEN (n + 1) - 1 + 1 ELSE 0) = n + 1
            BY <3>1
        <3>3. IsFiniteSet(1 .. n + 1) /\ Cardinality(1 .. n + 1) = (IF 1 <= n + 1 THEN (n + 1) - 1 + 1 ELSE 0)
            BY <3>1, FS_Interval
        <3> QED BY <3>2, <3>3
    <2>3. \E h \in 1 .. n + 1 : h \notin timed
        <3>1. SUFFICES ASSUME 1 .. n + 1 \subseteq timed PROVE FALSE
            BY Zenon
        <3>2. Cardinality(1 .. n + 1) <= Cardinality(timed)
            BY <3>1, FS_Subset, Zenon
        <3> QED BY <2>1, <2>2, <3>2
    <2>4. Taken = CHOOSE h \in 1 .. n + 1 : h \notin timed
        BY <1>2, <2>1 DEF Taken
    <2>5. Taken \in 1 .. n + 1 /\ Taken \notin timed
        BY <2>3, <2>4, Zenon
    <2> QED BY <2>1, <2>5 DEF Handles
<1> QED BY <1>1, <1>2

\* A handle that is taken leaves the pool.
LEMMA PoolTaken ==
    ASSUME PoolOk, IsFiniteSet(timed), timed \subseteq Handles, CreateCurlHandle
    PROVE  PoolOk' /\ IsFiniteSet(timed') /\ timed' \subseteq Handles
<1>1. Taken \in Handles
    BY TakenIsFree
<1>2. timed' = timed \cup {Taken}
    BY DEF CreateCurlHandle
<1>3. IsFiniteSet(timed')
    BY <1>2, FS_AddElement, Zenon
<1>6. timed' \subseteq Handles
    BY <1>1, <1>2
<1>7. SUFFICES PoolOk'
    BY <1>3, <1>6, Zenon
<1>4. CASE pool = <<>>
    <2>1. pool' = pool
        BY <1>4 DEF CreateCurlHandle
    <2>2. \A i \in 1 .. Len(pool) : FALSE
        BY <1>4
    <2> QED BY <2>1, <2>2 DEF PoolOk
<1>5. CASE pool # <<>>
    <2>1. PICK n \in Nat : n + 1 = Len(pool)
        <3>1. Len(pool) \in Nat /\ Len(pool) # 0
            BY <1>5 DEF PoolOk
        <3>2. Len(pool) - 1 \in Nat /\ (Len(pool) - 1) + 1 = Len(pool)
            BY <3>1
        <3> QED BY <3>2
    <2>2. pool' = SubSeq(pool, 1, n) /\ Taken = pool[n + 1]
        BY <1>5, <2>1 DEF PoolOk, CreateCurlHandle, Taken
    <2>3. /\ pool' \in Seq(Handles) /\ Len(pool') = n
          /\ \A i \in 1 .. n : pool'[i] = pool[i]
        BY <2>1, <2>2 DEF PoolOk
    <2>4. PoolSize \in Nat
        BY RequestAssumption
    <2>5. n <= PoolSize
        BY <2>1, <2>4 DEF PoolOk
    <2>6. \A i \in 1 .. n : i \in 1 .. Len(pool) /\ i # n + 1 /\ n + 1 \in 1 .. Len(pool)
        BY <2>1
    <2>7. \A i \in 1 .. n : pool'[i] # Taken /\ pool'[i] \notin timed
        BY <2>2, <2>3, <2>6 DEF PoolOk
    <2>8. \A i, j \in 1 .. n : i # j => pool'[i] # pool'[j]
        BY <2>3, <2>6 DEF PoolOk
    <2> QED BY <1>2, <2>3, <2>5, <2>7, <2>8 DEF PoolOk
<1> QED BY <1>4, <1>5

\* A handle that goes back goes to the end of the pool, from which the first ones
\* may have to leave.
LEMMA PoolReturned ==
    ASSUME PoolOk, NEW h \in Handles, h \in timed, DestroyCurlHandle(h)
    PROVE  PoolOk'
<1>1. h # 0
    BY DEF Handles
<1>2. pool' = Returned(pool, <<h>>) /\ timed' = timed \ {h}
    BY <1>1 DEF DestroyCurlHandle
<1>3. PICK n \in Nat : n = Len(pool)
    BY DEF PoolOk
<1> DEFINE q == pool \o <<h>>
<1>4. /\ q \in Seq(Handles) /\ Len(q) = n + 1 /\ q[n + 1] = h
      /\ \A i \in 1 .. n : q[i] = pool[i]
    BY <1>3 DEF PoolOk
<1>5. /\ \A i, j \in 1 .. n + 1 : i # j => q[i] # q[j]
      /\ \A i \in 1 .. n + 1 : q[i] \notin timed \ {h}
    BY <1>3, <1>4 DEF PoolOk
<1>6. PoolSize \in Nat
    BY RequestAssumption
<1>7. pool' = IF n + 1 > PoolSize THEN SubSeq(q, (n + 1) - PoolSize + 1, n + 1) ELSE q
    BY <1>2, <1>4 DEF Returned
<1> HIDE DEF q
<1>8. CASE n + 1 <= PoolSize
    <2>1. pool' = q
        BY <1>3, <1>6, <1>7, <1>8
    <2> QED BY <1>2, <1>4, <1>5, <1>8, <2>1 DEF PoolOk
<1>9. CASE n + 1 > PoolSize
    <2>1. PICK d \in Nat : d = (n + 1) - PoolSize
        BY <1>3, <1>6, <1>9
    <2>2. pool' = SubSeq(q, d + 1, n + 1) /\ d + PoolSize = n + 1
        BY <1>3, <1>6, <1>7, <1>9, <2>1
    <2>3. /\ pool' \in Seq(Handles) /\ Len(pool') = PoolSize
          /\ \A i \in 1 .. PoolSize : pool'[i] = q[i + d]
        BY <1>3, <1>4, <1>6, <2>1, <2>2
    <2>4. \A i \in 1 .. PoolSize : i + d \in 1 .. n + 1
        BY <1>3, <1>6, <2>1, <2>2
    <2>5. \A i, j \in 1 .. PoolSize : i # j => i + d # j + d
        BY <1>6, <2>1
    <2> HIDE DEF Handles
    <2>6. \A i, j \in 1 .. PoolSize : i # j => pool'[i] # pool'[j]
        BY <1>5, <2>3, <2>4, <2>5
    <2>7. \A i \in 1 .. PoolSize : pool'[i] \notin timed'
        BY <1>2, <1>5, <2>3, <2>4
    <2> QED BY <1>6, <2>3, <2>6, <2>7 DEF PoolOk
<1> QED BY <1>3, <1>6, <1>8, <1>9

-----------------------------------------------------------------------------
(* What the steps share.                                                   *)

\* The handles of the requests are what the timers say, one by one.
LEMMA OwnedHandles ==
    ASSUME OwnedOk
    PROVE  /\ \A i \in DOMAIN req : req[i].handle # 0 => req[i].handle \in timed
           /\ \A h \in timed : h # 0 /\ \E i \in DOMAIN req : h = req[i].handle
BY DEF OwnedOk, Owned

LEMMA TimedAreHandles ==
    ASSUME HandleInv
    PROVE  IsFiniteSet(timed) /\ timed \subseteq Handles
BY DEF HandleInv, CallOk, OwnedOk, Owned, ReqOk, Handles

LEMMA IdleShape ==
    /\ DOMAIN Idle = CallFields
    /\ Idle.op = "none" /\ Idle.pc = "idle"
    /\ DOMAIN Idle.todo = {}
BY DEF Idle, CallFields

LEMMA AskedShape ==
    ASSUME NEW op, NEW start, NEW size, NEW want
    PROVE  /\ DOMAIN Asked(op, start, size, want) = CallFields
           /\ Asked(op, start, size, want).op = op
           /\ Asked(op, start, size, want).start = start
           /\ Asked(op, start, size, want).todo = <<>>
BY DEF Asked, Idle, CallFields

LEMMA NewReqShape ==
    ASSUME NEW type, NEW part, NEW start, NEW size, NEW at
    PROVE  /\ Fresh(NewReq(type, part, start, size, at))
           /\ NewReq(type, part, start, size, at).type = type
           /\ NewReq(type, part, start, size, at).startpos = start
           /\ NewReq(type, part, start, size, at).b_start = start
BY DEF NewReq, Fresh, ReqFields

\* A call that has no handle any more, at its end.
LEMMA NothingLeft ==
    ASSUME PoolOk', timed' = {}, call' = Idle, req' = <<>>
    PROVE  HandleInv'
<1>1. DOMAIN req' = {}
    OBVIOUS
<1>2. CallOk'
    BY <1>1, IdleShape DEF CallOk
<1>3. OwnedOk'
    BY <1>1, FS_EmptySet DEF OwnedOk, Owned
<1> QED BY <1>2, <1>3 DEF HandleInv

\* A batch starts without a handle.
LEMMA BatchStarts ==
    ASSUME NEW c, NEW qs, Batch(c, qs), PoolOk', timed' = {},
           DOMAIN c = CallFields, \A k \in DOMAIN c.todo : Fresh(c.todo[k]),
           c.op = "download" => c.todo \in Seq(FreshGets),
           \A k \in DOMAIN qs : Fresh(qs[k])
    PROVE  HandleInv'
<1>1. /\ call' = [c EXCEPT !.pc = "multi"]
      /\ req' = qs
    BY DEF Batch
<1>2. /\ DOMAIN call' = CallFields
      /\ call'.pc = "multi" /\ call'.todo = c.todo /\ call'.op = c.op
    BY <1>1 DEF CallFields
<1>3. CallOk'
    BY <1>1, <1>2 DEF CallOk, ReqOk, Fresh
<1>4. \A i \in DOMAIN req' : req'[i].handle = 0
    BY <1>1 DEF Fresh
<1>5. OwnedOk'
    BY <1>4, FS_EmptySet DEF OwnedOk, Owned
<1> QED BY <1>3, <1>5 DEF HandleInv

\* A single request takes a handle when no other request holds one.
LEMMA SingleTakes ==
    ASSUME NEW c, NEW q, Single(c, q), PoolOk, timed = {},
           DOMAIN c = CallFields, \A k \in DOMAIN c.todo : Fresh(c.todo[k]),
           c.op = "download" => c.todo \in Seq(FreshGets),
           Fresh(q)
    PROVE  HandleInv'
<1>1. /\ CreateCurlHandle
      /\ call' = [c EXCEPT !.pc = "one"]
      /\ req' = <<[q EXCEPT !.st = "run", !.handle = Taken]>>
    BY DEF Single
<1>2. IsFiniteSet(timed) /\ timed \subseteq Handles
    BY FS_EmptySet
<1>3. Taken \in Handles
    BY <1>2, TakenIsFree
<1>4. PoolOk' /\ IsFiniteSet(timed')
    BY <1>1, <1>2, PoolTaken
<1>5. timed' = {Taken}
    BY <1>1 DEF CreateCurlHandle
<1>6. /\ DOMAIN call' = CallFields
      /\ call'.pc = "one" /\ call'.todo = c.todo /\ call'.op = c.op
    BY <1>1 DEF CallFields
<1>7. PICK h \in Handles : h = Taken
    BY <1>3
<1>8. /\ DOMAIN req' = {1}
      /\ req'[1] = [q EXCEPT !.st = "run", !.handle = h]
    BY <1>1, <1>7
<1>9. /\ DOMAIN req'[1] = ReqFields
      /\ req'[1].st = "run" /\ req'[1].handle = h
    BY <1>8 DEF Fresh, ReqFields
<1>10. CallOk'
    BY <1>6, <1>8, <1>9 DEF CallOk, ReqOk, Handles
<1>11. OwnedOk'
    <2>1. Owned' = {h}
        <3>1. h # 0
            BY DEF Handles
        <3> QED BY <1>8, <1>9, <3>1 DEF Owned
    <2> QED BY <1>4, <1>5, <1>7, <1>8, <2>1 DEF OwnedOk
<1> QED BY <1>4, <1>10, <1>11 DEF HandleInv

\* The single request gives its handle back.
LEMMA SingleGivesBack ==
    ASSUME HandleInv, call.pc = "one", DestroyCurlHandle(req[1].handle)
    PROVE  PoolOk' /\ timed' = {}
<1>1. DOMAIN req = {1} /\ req[1].handle # 0 /\ req[1].handle \in Nat
    BY DEF HandleInv, CallOk, ReqOk
<1>2. timed = {req[1].handle}
    BY <1>1 DEF HandleInv, OwnedOk, Owned
<1>3. PICK h \in Handles : h = req[1].handle
    BY <1>1 DEF Handles
<1>4. PoolOk'
    BY <1>2, <1>3, PoolReturned DEF HandleInv
<1>5. timed' = {}
    BY <1>2 DEF DestroyCurlHandle
<1> QED BY <1>4, <1>5

\* A batch that has ended, and a caller that waits for a call, hold no handle.
LEMMA BatchHoldsNone ==
    ASSUME HandleInv, BatchEnded \/ call.pc = "idle"
    PROVE  timed = {}
BY DEF HandleInv, CallOk, OwnedOk, Owned, BatchEnded

-----------------------------------------------------------------------------
(* One try of a request.                                                   *)
LEMMA TransferredShape ==
    ASSUME NEW q, NEW n, DOMAIN q = ReqFields
    PROVE  /\ DOMAIN Transferred(q, n) = ReqFields
           /\ Transferred(q, n).handle = q.handle
           /\ Transferred(q, n).st = q.st
           /\ Transferred(q, n).type = q.type
           /\ Transferred(q, n).b_start = q.b_start
BY DEF Transferred, ReqFields

LEMMA RemakeShape ==
    ASSUME NEW q, DOMAIN q = ReqFields
    PROVE  /\ DOMAIN RemakeHandle(q) = ReqFields
           /\ RemakeHandle(q).handle = q.handle
           /\ RemakeHandle(q).st = q.st
           /\ RemakeHandle(q).type = q.type
           /\ RemakeHandle(q).b_start = q.b_start
           /\ RemakeHandle(q).startpos = q.b_start
BY DEF RemakeHandle, SetOptions, ReqFields

LEMMA EndedShape ==
    ASSUME NEW q, DOMAIN q = ReqFields, NEW code, NEW curl, NEW res
    PROVE  /\ DOMAIN Ended(q, code, curl, res) = ReqFields
           /\ Ended(q, code, curl, res).handle = q.handle
           /\ Ended(q, code, curl, res).st = "ended"
           /\ Ended(q, code, curl, res).type = q.type
           /\ Ended(q, code, curl, res).b_start = q.b_start
           /\ Ended(q, code, curl, res).res = res
BY DEF Ended, ReqFields

\* A request keeps its handle through a try; it runs on from its start, or it has
\* ended with the result of the try, or with EIO.
LEMMA AfterTryShape ==
    ASSUME NEW q, NEW o, NEW res, DOMAIN q = ReqFields, q.st = "run"
    PROVE  /\ DOMAIN AfterTry(q, o, res) = ReqFields
           /\ AfterTry(q, o, res).handle = q.handle
           /\ AfterTry(q, o, res).type = q.type
           /\ AfterTry(q, o, res).b_start = q.b_start
           /\ \/ AfterTry(q, o, res).st = "run" /\ AfterTry(q, o, res).startpos = q.b_start
              \/ /\ AfterTry(q, o, res).st = "ended"
                 /\ AfterTry(q, o, res).res \in {res, "EIO"}
<1>1. CASE res # "retry"
    <2>1. AfterTry(q, o, res) = [Ended(q, o.code, o.curl, res) EXCEPT !.errbody = o.errbody]
        BY <1>1 DEF AfterTry
    <2> QED BY <2>1, EndedShape DEF ReqFields
<1>2. CASE res = "retry" /\ q.tries + 1 < Retries
    <2>1. AfterTry(q, o, res) = [RemakeHandle(q) EXCEPT !.tries = @ + 1]
        BY <1>2 DEF AfterTry
    <2> QED BY <2>1, RemakeShape DEF ReqFields
<1>3. CASE res = "retry" /\ ~(q.tries + 1 < Retries)
    <2>1. AfterTry(q, o, res) = Ended(RemakeHandle(q), o.code, o.curl, "EIO")
        BY <1>3 DEF AfterTry
    <2> QED BY <2>1, RemakeShape, EndedShape
<1> QED BY <1>1, <1>2, <1>3

\* The request after a try of TryWith.
Tried(r, o, res) ==
    LET q == [AfterTry(Transferred(req[r], o.n), o, res) EXCEPT !.part = req[r].part]
    IN  IF q.st = "ended" /\ call.pc = "multi" THEN [q EXCEPT !.handle = 0] ELSE q

LEMMA TriedShape ==
    ASSUME NEW r, NEW o, NEW res, DOMAIN req[r] = ReqFields, req[r].st = "run"
    PROVE  /\ DOMAIN Tried(r, o, res) = ReqFields
           /\ Tried(r, o, res).type = req[r].type
           /\ Tried(r, o, res).b_start = req[r].b_start
           /\ Tried(r, o, res).handle =
                  IF Tried(r, o, res).st = "ended" /\ call.pc = "multi" THEN 0 ELSE req[r].handle
           /\ \/ Tried(r, o, res).st = "run" /\ Tried(r, o, res).startpos = req[r].b_start
              \/ /\ Tried(r, o, res).st = "ended"
                 /\ Tried(r, o, res).res \in {res, "EIO"}
<1> DEFINE t == Transferred(req[r], o.n)
           a == AfterTry(t, o, res)
           q == [a EXCEPT !.part = req[r].part]
<1>1. /\ DOMAIN t = ReqFields /\ t.st = "run" /\ t.handle = req[r].handle
      /\ t.type = req[r].type /\ t.b_start = req[r].b_start
    BY TransferredShape
<1> HIDE DEF t
<1>2. /\ DOMAIN a = ReqFields /\ a.handle = req[r].handle
      /\ a.type = req[r].type /\ a.b_start = req[r].b_start
      /\ \/ a.st = "run" /\ a.startpos = req[r].b_start
         \/ a.st = "ended" /\ a.res \in {res, "EIO"}
    BY <1>1, AfterTryShape
<1> HIDE DEF a
<1>3. /\ DOMAIN q = ReqFields /\ q.handle = req[r].handle
      /\ q.type = req[r].type /\ q.b_start = req[r].b_start
      /\ \/ q.st = "run" /\ q.startpos = req[r].b_start
         \/ q.st = "ended" /\ q.res \in {res, "EIO"}
    BY <1>2 DEF ReqFields
<1>4. Tried(r, o, res) = IF q.st = "ended" /\ call.pc = "multi" THEN [q EXCEPT !.handle = 0] ELSE q
    BY DEF Tried, a, t
<1> HIDE DEF q
<1> QED BY <1>3, <1>4 DEF ReqFields

LEMMA TryWithTried ==
    ASSUME NEW r, NEW o, NEW res, TryWith(r, o, res),
           DOMAIN req[r] = ReqFields, req[r].st = "run"
    PROVE  /\ req' = [req EXCEPT ![r] = Tried(r, o, res)]
           /\ IF Tried(r, o, res).st = "ended" /\ call.pc = "multi"
              THEN DestroyCurlHandle(req[r].handle) ELSE UNCHANGED <<pool, timed>>
           /\ UNCHANGED <<cfg, call, etags, calls, out>>
<1> DEFINE q == [AfterTry(Transferred(req[r], o.n), o, res) EXCEPT !.part = req[r].part]
<1>1. DOMAIN q = ReqFields /\ q.handle = req[r].handle /\ q.st \in {"run", "ended"}
    <2> DEFINE t == Transferred(req[r], o.n)
               a == AfterTry(t, o, res)
    <2>1. DOMAIN t = ReqFields /\ t.st = "run" /\ t.handle = req[r].handle
        BY TransferredShape
    <2> HIDE DEF t
    <2>2. DOMAIN a = ReqFields /\ a.handle = req[r].handle /\ a.st \in {"run", "ended"}
        BY <2>1, AfterTryShape
    <2> HIDE DEF a
    <2>3. q = [a EXCEPT !.part = req[r].part]
        BY DEF a, t
    <2> QED BY <2>2, <2>3 DEF ReqFields
<1>2. /\ req' = [req EXCEPT ![r] = IF q.st = "ended" /\ call.pc = "multi"
                                   THEN [q EXCEPT !.handle = 0] ELSE q]
      /\ IF q.st = "ended" /\ call.pc = "multi"
         THEN DestroyCurlHandle(q.handle) ELSE UNCHANGED <<pool, timed>>
      /\ UNCHANGED <<cfg, call, etags, calls, out>>
    BY DEF TryWith
<1>3. Tried(r, o, res) = IF q.st = "ended" /\ call.pc = "multi" THEN [q EXCEPT !.handle = 0] ELSE q
    BY DEF Tried
<1> HIDE DEF q
<1>4. Tried(r, o, res).st = q.st
    BY <1>1, <1>3 DEF ReqFields
<1> QED BY <1>1, <1>2, <1>3, <1>4

-----------------------------------------------------------------------------
(* The steps of a batch and of a single request keep the handles whole.    *)
LEMMA TryKeepsHandles ==
    ASSUME HandleInv, NEW r \in DOMAIN req, req[r].st = "run", NEW o, NEW res,
           TryWith(r, o, res)
    PROVE  HandleInv'
<1>1. ReqOk(req[r])
    BY DEF HandleInv, CallOk
<1>2. PICK h \in Handles : h = req[r].handle
    BY <1>1 DEF ReqOk, Handles
<1>3. DOMAIN req[r] = ReqFields
    BY <1>1 DEF ReqOk
<1>4. PICK q : q = Tried(r, o, res)
    OBVIOUS
<1>5. /\ DOMAIN q = ReqFields
      /\ q.st \in {"run", "ended"}
      /\ q.handle = IF q.st = "ended" /\ call.pc = "multi" THEN 0 ELSE h
    BY <1>2, <1>3, <1>4, TriedShape
<1>6. /\ req' = [req EXCEPT ![r] = q]
      /\ IF q.st = "ended" /\ call.pc = "multi"
         THEN DestroyCurlHandle(h) ELSE UNCHANGED <<pool, timed>>
      /\ call' = call
    BY <1>2, <1>3, <1>4, TryWithTried
<1>7. /\ DOMAIN req' = DOMAIN req /\ req'[r] = q
      /\ \A i \in DOMAIN req : i # r => req'[i] = req[i]
    BY <1>6
<1>8. h # 0 /\ h \in Nat /\ h \in timed
    BY <1>2 DEF Handles, HandleInv, OwnedOk, Owned
<1>9. CallOk'
    <2>1. ReqOk(q)
        BY <1>5, <1>8 DEF ReqOk
    <2>2. \A i \in DOMAIN req' : ReqOk(req'[i])
        BY <1>7, <2>1 DEF HandleInv, CallOk
    <2>3. call.pc = "one" => DOMAIN req' = {1} /\ req'[1].st # "new" /\ req'[1].handle # 0
        BY <1>5, <1>7, <1>8 DEF HandleInv, CallOk
    <2>4. call.pc = "multi" => \A i \in DOMAIN req' : req'[i].st = "ended" => req'[i].handle = 0
        BY <1>5, <1>7 DEF HandleInv, CallOk
    <2>5. call.pc = "idle" => DOMAIN req' = {}
        BY <1>7 DEF HandleInv, CallOk
    <2> QED BY <1>6, <2>2, <2>3, <2>4, <2>5 DEF HandleInv, CallOk
<1>10. CASE q.st = "ended" /\ call.pc = "multi"
    <2>1. DestroyCurlHandle(h) /\ q.handle = 0
        BY <1>5, <1>6, <1>10
    <2>2. PoolOk'
        BY <1>2, <1>8, <2>1, PoolReturned DEF HandleInv
    <2>3. timed' = timed \ {h}
        BY <2>1 DEF DestroyCurlHandle
    <2>4. IsFiniteSet(timed')
        BY <2>3, FS_RemoveElement, Zenon DEF HandleInv, OwnedOk
    <2>5. \A i \in DOMAIN req : i # r => req[i].handle # h
        BY <1>2, <1>8 DEF HandleInv, OwnedOk
    <2>6. Owned' = Owned \ {h}
        BY <1>2, <1>7, <1>8, <2>1, <2>5 DEF Owned
    <2>7. OwnedOk'
        BY <1>7, <2>1, <2>3, <2>4, <2>6 DEF HandleInv, OwnedOk
    <2> QED BY <1>9, <2>2, <2>7 DEF HandleInv
<1>11. CASE ~(q.st = "ended" /\ call.pc = "multi")
    <2>1. pool' = pool /\ timed' = timed /\ q.handle = h
        BY <1>5, <1>6, <1>11
    <2>2. \A i \in DOMAIN req : req'[i].handle = req[i].handle
        BY <1>2, <1>7, <2>1
    <2>3. Owned' = Owned
        BY <1>7, <2>2 DEF Owned
    <2>4. OwnedOk'
        BY <1>7, <2>1, <2>2, <2>3 DEF HandleInv, OwnedOk
    <2>5. PoolOk'
        BY <2>1 DEF HandleInv, PoolOk
    <2> QED BY <1>9, <2>4, <2>5 DEF HandleInv
<1> QED BY <1>10, <1>11

LEMMA LaunchKeepsHandles ==
    ASSUME HandleInv, NEW r \in DOMAIN req, Launch(r)
    PROVE  HandleInv'
<1>1. /\ call.pc = "multi" /\ req[r].st = "new"
      /\ CreateCurlHandle /\ call' = call
      /\ req' = [req EXCEPT ![r].st = "run", ![r].handle = Taken]
    BY DEF Launch, IsNext
<1>2. ReqOk(req[r]) /\ req[r].handle = 0
    BY <1>1 DEF HandleInv, CallOk, ReqOk
<1>3. IsFiniteSet(timed) /\ timed \subseteq Handles
    BY TimedAreHandles
<1>4. PICK h \in Handles : h = Taken /\ h \notin timed
    BY <1>3, TakenIsFree DEF HandleInv
<1>5. PoolOk' /\ IsFiniteSet(timed')
    BY <1>1, <1>3, PoolTaken DEF HandleInv
<1>6. timed' = timed \cup {h}
    BY <1>1, <1>4 DEF CreateCurlHandle
<1>7. /\ DOMAIN req' = DOMAIN req
      /\ DOMAIN req'[r] = ReqFields /\ req'[r].st = "run" /\ req'[r].handle = h
      /\ \A i \in DOMAIN req : i # r => req'[i] = req[i]
    BY <1>1, <1>2, <1>4 DEF ReqOk, ReqFields
<1>8. h # 0 /\ h \in Nat
    BY DEF Handles
<1>9. CallOk'
    BY <1>1, <1>7, <1>8 DEF HandleInv, CallOk, ReqOk
<1>10. Owned' = Owned \cup {h}
    BY <1>2, <1>7, <1>8 DEF Owned
<1>11. \A i \in DOMAIN req : i # r => req'[i].handle # h
    BY <1>4, <1>7, <1>8, OwnedHandles DEF HandleInv
<1>12. OwnedOk'
    BY <1>5, <1>6, <1>7, <1>10, <1>11 DEF HandleInv, OwnedOk
<1> QED BY <1>5, <1>9, <1>12 DEF HandleInv

LEMMA LazySetupKeepsHandles ==
    ASSUME HandleInv, NEW r \in DOMAIN req, LazySetupFails(r)
    PROVE  HandleInv'
<1>1. /\ call.pc = "multi" /\ req[r].st = "new"
      /\ UNCHANGED <<call, pool, timed>>
      /\ req' = [req EXCEPT ![r].st = "ended"]
    BY DEF LazySetupFails, IsNext
<1>2. ReqOk(req[r]) /\ req[r].handle = 0
    BY <1>1 DEF HandleInv, CallOk, ReqOk
<1>3. /\ DOMAIN req' = DOMAIN req
      /\ DOMAIN req'[r] = ReqFields /\ req'[r].st = "ended" /\ req'[r].handle = 0
      /\ \A i \in DOMAIN req : i # r => req'[i] = req[i]
    BY <1>1, <1>2 DEF ReqOk, ReqFields
<1>4. \A i \in DOMAIN req : req'[i].handle = req[i].handle
    BY <1>2, <1>3
<1>5. Owned' = Owned
    BY <1>3, <1>4 DEF Owned
<1>6. CallOk'
    BY <1>1, <1>3 DEF HandleInv, CallOk, ReqOk
<1>7. OwnedOk' /\ PoolOk'
    BY <1>1, <1>3, <1>4, <1>5 DEF HandleInv, OwnedOk, PoolOk
<1> QED BY <1>6, <1>7 DEF HandleInv

-----------------------------------------------------------------------------
(* The requests that the calls make.                                       *)
LEMMA ChunksAreSeq ==
    ASSUME NEW n \in Nat, NEW chunk \in Nat \ {0}
    PROVE  /\ Chunks(n, chunk) \in Seq([start : Int, size : Int])
           /\ DOMAIN Chunks(n, chunk) = 1 .. Len(Chunks(n, chunk))
<1>1. (n + chunk - 1) \div chunk \in Nat
    OBVIOUS
<1>2. PICK m \in Nat : m = (n + chunk - 1) \div chunk
    BY <1>1
<1>3. Chunks(n, chunk) = [k \in 1 .. m |->
            [start |-> (k - 1) * chunk, size |-> Min2(chunk, n - (k - 1) * chunk)]]
    BY <1>2 DEF Chunks
<1>4. ASSUME NEW k \in 1 .. m
      PROVE  Chunks(n, chunk)[k] \in [start : Int, size : Int]
    <2>1. PICK a \in Int : a = (k - 1) * chunk
        BY <1>2
    <2>2. PICK d \in Int : d = n - a
        BY <2>1
    <2>3. PICK b \in Int : b = Min2(chunk, d)
        BY <2>2 DEF Min2
    <2>4. Chunks(n, chunk)[k] = [start |-> a, size |-> b]
        BY <1>3, <2>1, <2>2, <2>3
    <2> QED BY <2>1, <2>3, <2>4
<1> DEFINE CS == [start : Int, size : Int]
<1>5. \A k \in 1 .. m : Chunks(n, chunk)[k] \in CS
    BY <1>4
<1> HIDE DEF CS
<1>6. PICK f : f = Chunks(n, chunk)
    OBVIOUS
<1>7. f = [k \in 1 .. m |-> f[k]] /\ \A k \in 1 .. m : f[k] \in CS
    BY <1>3, <1>5, <1>6
<1>8. f \in Seq(CS) /\ DOMAIN f = 1 .. Len(f)
    <2>1. f \in [1 .. m -> CS]
        BY <1>7, Zenon
    <2>2. f \in Seq(CS)
        BY <2>1
    <2>3. DOMAIN f = 1 .. Len(f)
        BY <2>2
    <2> QED BY <2>2, <2>3
<1> QED BY <1>6, <1>8 DEF CS

LEMMA UploadPartsAreFresh ==
    ASSUME NEW cs
    PROVE  /\ \A k \in DOMAIN UploadParts(cs) : Fresh(UploadParts(cs)[k])
           /\ \A k \in DOMAIN CopyParts(cs) : Fresh(CopyParts(cs)[k])
BY NewReqShape DEF UploadParts, CopyParts, UploadMultipartPostSetup, CopyMultipartPostSetup

\* The parts of a mixed upload: the copies, and the rest from the file.
LEMMA MixShape ==
    ASSUME NEW copied \in Nat, NEW size
    PROVE  LET cs == Joined(Chunks(copied, MultipartCopySize))
               ps == MixParts(copied, size)
           IN  /\ cs \in Seq([start : Int, size : Int])
               /\ DOMAIN cs = 1 .. Len(cs) /\ DOMAIN ps = 1 .. Len(cs) + 1 /\ Len(cs) \in Nat
               /\ \A k \in 1 .. Len(cs) : ps[k] = CopyMultipartPostSetup(k, cs[k])
               /\ ps[Len(cs) + 1] = UploadMultipartPostSetup(Len(cs) + 1, [start |-> copied, size |-> size - copied])
<1> DEFINE ch == Chunks(copied, MultipartCopySize)
           cs == Joined(ch)
           last == UploadMultipartPostSetup(Len(cs) + 1, [start |-> copied, size |-> size - copied])
           CS == [start : Int, size : Int]
<1>1. ch \in Seq(CS)
    BY ChunksAreSeq, RequestAssumption
<1> HIDE DEF ch, CS
<1>2. cs \in Seq(CS)
    <2>1. CASE cs = ch
        BY <1>1, <2>1
    <2>2. CASE cs # ch
        <3>1. Len(ch) > 1
            BY <2>2 DEF Joined
        <3>2. PICK n \in Nat : n + 1 = Len(ch) /\ n \in 1 .. n
            <4>1. Len(ch) \in Nat /\ Len(ch) > 1
                BY <1>1, <3>1
            <4>2. Len(ch) - 1 \in Nat /\ (Len(ch) - 1) + 1 = Len(ch) /\ Len(ch) - 1 \in 1 .. (Len(ch) - 1)
                BY <4>1
            <4> DEFINE n == Len(ch) - 1
            <4>3. n \in Nat /\ n + 1 = Len(ch) /\ n \in 1 .. n
                BY <4>2
            <4> HIDE DEF n
            <4> QED BY <4>3
        <3>3. PICK s : s = SubSeq(ch, 1, n)
            <4> HIDE DEF cs
            <4> QED OBVIOUS
        <3>4. s \in Seq(CS) /\ Len(s) = n
            BY <1>1, <3>2, <3>3
        <3>5. cs = [s EXCEPT ![n].size = s[n].size + ch[n + 1].size]
            <4>1. PICK m : m = Len(ch)
                OBVIOUS
            <4>2. PICK k : k = m - 1
                OBVIOUS
            <4>3. k = n /\ m = n + 1
                BY <3>2, <4>1, <4>2
            <4>4. cs = [SubSeq(ch, 1, m - 1) EXCEPT ![m - 1].size = @ + ch[m].size]
                BY <2>2, <4>1 DEF Joined
            <4>5. cs = [SubSeq(ch, 1, k) EXCEPT ![k].size = @ + ch[m].size]
                BY <4>2, <4>4
            <4>6. cs = [s EXCEPT ![n].size = @ + ch[n + 1].size]
                <5> HIDE DEF cs
                <5> QED BY <3>3, <4>3, <4>5
            <4> HIDE DEF cs
            <4> QED BY <4>6
        <3>6. s[n] \in CS /\ ch[n + 1] \in CS
            BY <1>1, <3>2, <3>4
        <3>7. PICK z \in Int : z = s[n].size + ch[n + 1].size
            BY <3>6 DEF CS
        <3>8. PICK x \in CS : x = [s[n] EXCEPT !.size = z]
            BY <3>6 DEF CS
        <3>9. cs = [s EXCEPT ![n] = x]
            BY <3>5, <3>7, <3>8
        <3> QED BY <3>2, <3>4, <3>9
    <2> QED BY <2>1, <2>2
<1> HIDE DEF cs
<1>4. PICK n \in Nat : n = Len(cs) /\ DOMAIN cs = 1 .. n
    BY <1>2
<1> HIDE DEF last
<1>5. PICK ps : ps = CopyParts(cs)
    OBVIOUS
<1>6. ps = [k \in 1 .. n |-> CopyMultipartPostSetup(k, cs[k])]
    BY <1>4, <1>5 DEF CopyParts
<1>8. MixParts(copied, size) = Append(ps, last)
    BY <1>5 DEF MixParts, cs, ch, last
<1>9. ps \in Seq({ps[k] : k \in 1 .. n})
    BY <1>6
<1>10. /\ DOMAIN Append(ps, last) = 1 .. n + 1
       /\ \A k \in 1 .. n : Append(ps, last)[k] = ps[k]
       /\ Append(ps, last)[n + 1] = last
    <2>1. Len(ps) = n
        BY <1>6
    <2> QED BY <1>9, <2>1
<1>11. \A k \in 1 .. n : MixParts(copied, size)[k] = CopyMultipartPostSetup(k, cs[k])
    BY <1>6, <1>8, <1>10
<1> QED BY <1>2, <1>4, <1>8, <1>10, <1>11 DEF CS, cs, ch, last

LEMMA MixPartsAreFresh ==
    ASSUME NEW copied \in Nat, NEW size
    PROVE  \A k \in DOMAIN MixParts(copied, size) : Fresh(MixParts(copied, size)[k])
<1>1. PICK n, cs : /\ n \in Nat /\ DOMAIN MixParts(copied, size) = 1 .. n + 1
                   /\ \A k \in 1 .. n : MixParts(copied, size)[k] = CopyMultipartPostSetup(k, cs[k])
                   /\ MixParts(copied, size)[n + 1] =
                         UploadMultipartPostSetup(n + 1, [start |-> copied, size |-> size - copied])
    BY MixShape
<1>2. ASSUME NEW k \in 1 .. n + 1 PROVE Fresh(MixParts(copied, size)[k])
    <2>1. CASE k \in 1 .. n
        BY <1>1, <2>1, NewReqShape DEF CopyMultipartPostSetup
    <2>2. CASE k = n + 1
        BY <1>1, <2>2, NewReqShape DEF UploadMultipartPostSetup
    <2> QED BY <1>1, <2>1, <2>2
<1> QED BY <1>1, <1>2

LEMMA GetPartsAreFresh ==
    ASSUME NEW start \in Nat, NEW size \in Nat
    PROVE  ParallelGetParts(start, size) \in Seq(FreshGets)
<1>1. PICK cs : cs = Chunks(size, MultipartSize)
    OBVIOUS
<1>2. cs \in Seq([start : Int, size : Int])
    BY <1>1, ChunksAreSeq, RequestAssumption
<1>3. PICK m \in Nat : m = Len(cs) /\ DOMAIN cs = 1 .. m
    BY <1>2
<1>4. ParallelGetParts(start, size) =
          [k \in 1 .. m |-> PreGetObjectRequest(k, start + cs[k].start, cs[k].size)]
    BY <1>1, <1>3 DEF ParallelGetParts
<1>5. ASSUME NEW k \in 1 .. m
      PROVE  PreGetObjectRequest(k, start + cs[k].start, cs[k].size) \in FreshGets
    <2>0. cs[k].start \in Int /\ cs[k].size \in Int
        <3> DEFINE CS == [start : Int, size : Int]
        <3>1. cs \in Seq(CS)
            BY <1>2
        <3> HIDE DEF CS
        <3>2. cs[k] \in CS
            BY <1>3, <3>1
        <3> QED BY <3>2 DEF CS
    <2>1. PICK a \in Int : a = start + cs[k].start
        BY <2>0
    <2>2. PICK b \in Int : b = cs[k].size
        BY <2>0
    <2>3. k \in Nat
        BY <1>3
    <2> QED BY <2>1, <2>2, <2>3 DEF PreGetObjectRequest, NewReq, FreshGets
<1> QED BY <1>4, <1>5

LEMMA FreshGetsAreFresh ==
    ASSUME NEW q \in FreshGets
    PROVE  Fresh(q)
BY DEF FreshGets, Fresh, ReqFields

-----------------------------------------------------------------------------
(* The calls start without a handle and take at most one.                  *)
LEMMA SingleOfCall ==
    ASSUME HandleInv, NEW op, Called(op), NEW start, NEW size, NEW want, NEW q, Fresh(q),
           Single(Asked(op, start, size, want), q)
    PROVE  HandleInv'
<1>1. timed = {} /\ PoolOk
    BY BatchHoldsNone DEF Called, HandleInv
<1>2. PICK c : c = Asked(op, start, size, want)
    OBVIOUS
<1>3. DOMAIN c = CallFields /\ c.todo = <<>>
    BY <1>2, AskedShape
<1>4. c.todo \in Seq(FreshGets) /\ DOMAIN c.todo = {}
    BY <1>3
<1> QED BY <1>1, <1>2, <1>3, <1>4, SingleTakes

LEMMA MultipartOfCall ==
    ASSUME HandleInv, NEW op, Called(op), op # "download",
           NEW start, NEW size, NEW want, NEW parts,
           \A k \in DOMAIN parts : Fresh(parts[k]),
           PreMultipartPostRequest(Asked(op, start, size, want), parts)
    PROVE  HandleInv'
<1>1. timed = {} /\ PoolOk
    BY BatchHoldsNone DEF Called, HandleInv
<1>2. PICK c : c = [Asked(op, start, size, want) EXCEPT !.todo = parts]
    OBVIOUS
<1>3. DOMAIN c = CallFields /\ c.todo = parts /\ c.op = op
    BY <1>2, AskedShape DEF CallFields
<1>4. Fresh(Plain("PREMULTIPOST"))
    BY NewReqShape DEF Plain
<1>5. Single(c, Plain("PREMULTIPOST"))
    BY <1>2 DEF PreMultipartPostRequest
<1> QED BY <1>1, <1>3, <1>4, <1>5, SingleTakes

LEMMA UploadsKeepHandles ==
    ASSUME HandleInv, NEW n \in Nat, UpLoad(n) \/ (\E m \in 1 .. n : Mix(m, n)) \/ Copy
    PROVE  HandleInv'
<1>1. CASE UpLoad(n)
    <2>1. Called("upload")
        BY <1>1 DEF UpLoad
    <2>2. PICK want : \/ PutRequest(Asked("upload", 0, n, want))
                      \/ PreMultipartPostRequest(Asked("upload", 0, n, want),
                                                 UploadParts(Chunks(n, MultipartSize)))
        BY <1>1 DEF UpLoad
    <2>3. CASE PutRequest(Asked("upload", 0, n, want))
        <3>1. PICK z : Single(Asked("upload", 0, n, want), NewReq("PUT", 0, 0, z, 0))
            BY <2>3 DEF PutRequest
        <3>2. Fresh(NewReq("PUT", 0, 0, z, 0))
            BY NewReqShape
        <3> QED BY <2>1, <3>1, <3>2, SingleOfCall
    <2>4. CASE PreMultipartPostRequest(Asked("upload", 0, n, want),
                                       UploadParts(Chunks(n, MultipartSize)))
        BY <2>1, <2>4, UploadPartsAreFresh, MultipartOfCall
    <2> QED BY <2>2, <2>3, <2>4
<1>2. CASE \E m \in 1 .. n : Mix(m, n)
    <2>1. PICK m \in 1 .. n : Mix(m, n)
        BY <1>2
    <2>2. m \in Nat
        BY RequestAssumption
    <2>3. Called("mix")
        BY <2>1 DEF Mix
    <2>4. PICK want : PreMultipartPostRequest(Asked("mix", 0, n, want), MixParts(m, n))
        BY <2>1 DEF Mix
    <2> QED BY <2>2, <2>3, <2>4, MixPartsAreFresh, MultipartOfCall
<1>3. CASE Copy
    <2>1. Called("copy")
        BY <1>3 DEF Copy
    <2>2. PICK len, want : PreMultipartPostRequest(Asked("copy", 0, len, want),
                                                   CopyParts(Chunks(len, MultipartCopySize)))
        BY <1>3 DEF Copy
    <2> QED BY <2>1, <2>2, UploadPartsAreFresh, MultipartOfCall
<1> QED BY <1>1, <1>2, <1>3

LEMMA SubSeqOfGets ==
    ASSUME NEW parts \in Seq(FreshGets), NEW n \in Nat, n <= Len(parts)
    PROVE  /\ SubSeq(parts, n + 1, Len(parts)) \in Seq(FreshGets)
           /\ SubSeq(parts, 1, n) \in Seq(FreshGets)
           /\ Len(SubSeq(parts, 1, n)) = n
           /\ Len(SubSeq(parts, n + 1, Len(parts))) = Len(parts) - n
           /\ \A k \in 1 .. Len(parts) - n : SubSeq(parts, n + 1, Len(parts))[k] = parts[n + k]
           /\ \A k \in 1 .. n : SubSeq(parts, 1, n)[k] = parts[k]
OBVIOUS

LEMMA GetsAreFresh ==
    ASSUME NEW s \in Seq(FreshGets)
    PROVE  \A k \in DOMAIN s : Fresh(s[k])
<1>1. ASSUME NEW k \in DOMAIN s PROVE s[k] \in FreshGets
    OBVIOUS
<1> QED BY <1>1, FreshGetsAreFresh

LEMMA MaxParallelTakes ==
    ASSUME NEW len \in Nat
    PROVE  Min2(MaxParallel, len) \in Nat /\ Min2(MaxParallel, len) <= len
BY RequestAssumption DEF Min2

LEMMA DownLoadKeepsHandles ==
    ASSUME HandleInv, NEW s \in Nat, NEW n \in Nat, DownLoad(s, n)
    PROVE  HandleInv'
<1> DEFINE parts == ParallelGetParts(s, n)
           now == SubSeq(parts, 1, Min2(MaxParallel, Len(parts)))
           rest == SubSeq(parts, Len(now) + 1, Len(parts))
           c == [Asked("download", s, n, <<>>) EXCEPT !.todo = rest]
<1>1. Called("download")
    BY DEF DownLoad
<1>2. timed = {} /\ PoolOk
    BY <1>1, BatchHoldsNone DEF Called, HandleInv
<1>3. \/ Single([c EXCEPT !.todo = <<>>], PreGetObjectRequest(0, s, n))
      \/ Batch(c, now) /\ UNCHANGED <<pool, timed>>
    BY DEF DownLoad
<1>4. DOMAIN c = CallFields /\ c.op = "download" /\ c.todo = rest
    <2> HIDE DEF rest
    <2>1. PICK a : a = Asked("download", s, n, <<>>)
        OBVIOUS
    <2>2. DOMAIN a = CallFields /\ a.op = "download"
        BY <2>1, AskedShape
    <2>3. c = [a EXCEPT !.todo = rest]
        BY <2>1
    <2> HIDE DEF c
    <2> QED BY <2>2, <2>3 DEF CallFields
<1>5. CASE Single([c EXCEPT !.todo = <<>>], PreGetObjectRequest(0, s, n))
    <2>1. PICK d : d = [c EXCEPT !.todo = <<>>]
        OBVIOUS
    <2> HIDE DEF c
    <2>2. DOMAIN d = CallFields /\ d.todo = <<>>
        BY <1>4, <2>1 DEF CallFields
    <2>3. d.todo \in Seq(FreshGets) /\ DOMAIN d.todo = {}
        BY <2>2
    <2>4. Fresh(PreGetObjectRequest(0, s, n))
        BY NewReqShape DEF PreGetObjectRequest
    <2> QED BY <1>2, <1>5, <2>1, <2>2, <2>3, <2>4, SingleTakes
<1>6. CASE Batch(c, now) /\ UNCHANGED <<pool, timed>>
    <2> HIDE DEF c
    <2>1. parts \in Seq(FreshGets)
        BY GetPartsAreFresh
    <2> HIDE DEF parts
    <2>2. PICK m \in Nat : m = Min2(MaxParallel, Len(parts)) /\ m <= Len(parts)
        BY <2>1, MaxParallelTakes
    <2>3. now \in Seq(FreshGets) /\ Len(now) = m
        BY <2>1, <2>2, SubSeqOfGets
    <2>4. rest \in Seq(FreshGets)
        BY <2>1, <2>2, <2>3, SubSeqOfGets
    <2> HIDE DEF now, rest
    <2>5. \A k \in DOMAIN now : Fresh(now[k])
        BY <2>3, GetsAreFresh
    <2>6. \A k \in DOMAIN c.todo : Fresh(c.todo[k])
        BY <1>4, <2>4, GetsAreFresh
    <2>7. PoolOk' /\ timed' = {}
        BY <1>2, <1>6 DEF PoolOk
    <2> QED BY <1>4, <1>6, <2>4, <2>5, <2>6, <2>7, BatchStarts
<1> QED BY <1>3, <1>5, <1>6

LEMMA OneRequestKeepsHandles ==
    ASSUME HandleInv, HeadRequest \/ DeleteRequest \/ ListBucketRequest \/ PutHeadRequest
    PROVE  HandleInv'
<1>1. PICK op, type : Called(op) /\ Single(Asked(op, 0, 0, <<>>), Plain(type))
    BY Zenon DEF HeadRequest, DeleteRequest, ListBucketRequest, PutHeadRequest
<1>2. Fresh(Plain(type))
    BY NewReqShape DEF Plain
<1> QED BY <1>1, <1>2, SingleOfCall

-----------------------------------------------------------------------------
(* The rest of the calls.                                                  *)
LEMMA HandlesStand ==
    ASSUME HandleInv, UNCHANGED <<call, req, pool, timed>>
    PROVE  HandleInv'
BY DEF HandleInv, CallOk, PoolOk, OwnedOk, Owned

LEMMA HeadKeepsHandles ==
    ASSUME HandleInv, HeadNextKey
    PROVE  HandleInv'
<1>1. /\ call.pc = "one" /\ call' = [call EXCEPT !.key = @ + 1]
      /\ req' = <<[Plain("HEAD") EXCEPT !.st = "run", !.handle = req[1].handle]>>
      /\ UNCHANGED <<pool, timed>>
    BY DEF HeadNextKey, OneEnded
<1>2. PICK h \in Handles : h = req[1].handle /\ h # 0 /\ DOMAIN req = {1}
    BY <1>1 DEF HandleInv, CallOk, ReqOk, Handles
<1>3. PICK q : q = Plain("HEAD") /\ Fresh(q)
    BY NewReqShape DEF Plain
<1>4. /\ DOMAIN req' = {1} /\ DOMAIN req'[1] = ReqFields
      /\ req'[1].st = "run" /\ req'[1].handle = h
    <2>1. PICK z : z = [q EXCEPT !.st = "run", !.handle = h]
        OBVIOUS
    <2>2. req' = <<z>>
        BY <1>1, <1>2, <1>3, <2>1
    <2>3. DOMAIN z = ReqFields /\ z.st = "run" /\ z.handle = h
        BY <1>3, <2>1 DEF Fresh, ReqFields
    <2> QED BY <2>2, <2>3
<1>5. /\ DOMAIN call' = CallFields /\ call'.pc = "one"
      /\ call'.todo = call.todo /\ call'.op = call.op
    BY <1>1 DEF HandleInv, CallOk, CallFields
<1>6. CallOk'
    BY <1>1, <1>2, <1>4, <1>5 DEF HandleInv, CallOk, ReqOk, Handles
<1>7. Owned' = Owned
    BY <1>2, <1>4 DEF Owned
<1>8. OwnedOk' /\ PoolOk'
    BY <1>1, <1>4, <1>7 DEF HandleInv, OwnedOk, PoolOk
<1> QED BY <1>6, <1>8 DEF HandleInv

LEMMA DoneKeepsHandles ==
    ASSUME HandleInv, SingleDone \/ PreMultipartDone \/ MultipartDone
    PROVE  HandleInv'
<1>1. call.pc = "one" /\ DestroyCurlHandle(req[1].handle)
    BY DEF SingleDone, PreMultipartDone, MultipartDone, OneEnded
<1>2. PoolOk' /\ timed' = {}
    BY <1>1, SingleGivesBack
<1>3. \/ call' = Idle /\ req' = <<>>
      \/ PreMultipartDone /\ Batch([call EXCEPT !.todo = <<>>], call.todo)
    BY DEF SingleDone, PreMultipartDone, MultipartDone, Answered
<1>4. CASE call' = Idle /\ req' = <<>>
    BY <1>2, <1>4, NothingLeft
<1>5. CASE Batch([call EXCEPT !.todo = <<>>], call.todo)
    <2>1. PICK c : c = [call EXCEPT !.todo = <<>>]
        OBVIOUS
    <2>2. DOMAIN c = CallFields /\ c.todo = <<>>
        BY <2>1 DEF HandleInv, CallOk, CallFields
    <2>3. c.todo \in Seq(FreshGets) /\ DOMAIN c.todo = {}
        BY <2>2
    <2>4. \A k \in DOMAIN call.todo : Fresh(call.todo[k])
        BY DEF HandleInv, CallOk
    <2> QED BY <1>2, <1>5, <2>1, <2>2, <2>3, <2>4, BatchStarts
<1> QED BY <1>3, <1>4, <1>5

LEMMA SpinKeepsHandles ==
    ASSUME HandleInv, MultiReadSpins
    PROVE  HandleInv'
<1>1. call' = [call EXCEPT !.pc = "spin"] /\ UNCHANGED <<req, pool, timed>>
    BY DEF MultiReadSpins
<1>2. /\ DOMAIN call' = CallFields /\ call'.pc = "spin"
      /\ call'.todo = call.todo /\ call'.op = call.op
    BY <1>1 DEF HandleInv, CallOk, CallFields
<1> QED BY <1>1, <1>2 DEF HandleInv, CallOk, PoolOk, OwnedOk, Owned

LEMMA RetriedIsFresh ==
    ASSUME NEW q
    PROVE  Fresh(RetryCallback(q))
<1>1. PICK t, p, s, n, a : RetryCallback(q) = [NewReq(t, p, s, n, a) EXCEPT !.retry = q.retry + 1]
    BY DEF RetryCallback, ParallelGetObjectRetryCallback, UploadMultipartPostRetryCallback,
           CopyMultipartPostRetryCallback
<1> QED BY <1>1, NewReqShape DEF Fresh, ReqFields

LEMMA RetryKeepsHandles ==
    ASSUME HandleInv, MultiRetry
    PROVE  HandleInv'
<1>1. /\ BatchEnded /\ UNCHANGED <<call, pool, timed>>
      /\ req' = [i \in {j \in DOMAIN req : Failed(req[j])} |-> RetryCallback(req[i])]
    BY DEF MultiRetry, Read
<1>2. \A i \in DOMAIN req' : Fresh(req'[i])
    BY <1>1, RetriedIsFresh
<1>3. timed = {} /\ call.pc = "multi"
    BY <1>1, BatchHoldsNone DEF BatchEnded
<1>4. CallOk'
    BY <1>1, <1>2, <1>3 DEF HandleInv, CallOk, ReqOk, Fresh
<1>5. Owned' = {}
    BY <1>2 DEF Owned, Fresh
<1>6. OwnedOk'
    BY <1>1, <1>2, <1>3, <1>5, FS_EmptySet DEF OwnedOk, Fresh
<1>7. PoolOk'
    BY <1>1 DEF HandleInv, PoolOk
<1> QED BY <1>4, <1>6, <1>7 DEF HandleInv

LEMMA NextPartsKeepHandles ==
    ASSUME HandleInv, DownLoadNext
    PROVE  HandleInv'
<1> DEFINE n == Min2(MaxParallel, Len(call.todo))
           rest == SubSeq(call.todo, n + 1, Len(call.todo))
<1>1. BatchEnded /\ call.op = "download" /\ UNCHANGED <<pool, timed>>
    BY DEF DownLoadNext, Read
<1>2. timed' = {} /\ PoolOk'
    BY <1>1, BatchHoldsNone DEF HandleInv, PoolOk
<1>3. \/ call' = Idle /\ req' = <<>>
      \/ Batch([call EXCEPT !.todo = rest], SubSeq(call.todo, 1, n))
    BY DEF DownLoadNext, Answered
<1>4. CASE call' = Idle /\ req' = <<>>
    BY <1>2, <1>4, NothingLeft
<1>5. CASE Batch([call EXCEPT !.todo = rest], SubSeq(call.todo, 1, n))
    <2>1. call.todo \in Seq(FreshGets)
        BY <1>1 DEF HandleInv, CallOk
    <2>2. n \in Nat /\ n <= Len(call.todo)
        BY <2>1, MaxParallelTakes
    <2> HIDE DEF n
    <2>3. rest \in Seq(FreshGets) /\ SubSeq(call.todo, 1, n) \in Seq(FreshGets)
        BY <2>1, <2>2, SubSeqOfGets
    <2> HIDE DEF rest
    <2>4. PICK c : c = [call EXCEPT !.todo = rest]
        OBVIOUS
    <2>5. DOMAIN c = CallFields /\ c.todo = rest
        BY <2>4 DEF HandleInv, CallOk, CallFields
    <2>6. \A k \in DOMAIN rest : Fresh(rest[k])
        BY <2>3, GetsAreFresh
    <2>7. PICK s : s = SubSeq(call.todo, 1, n)
        OBVIOUS
    <2>8. \A k \in DOMAIN s : Fresh(s[k])
        BY <2>3, <2>7, GetsAreFresh
    <2> QED BY <1>2, <1>5, <2>3, <2>4, <2>5, <2>6, <2>7, <2>8, BatchStarts
<1> QED BY <1>3, <1>4, <1>5

LEMMA LastRequestKeepsHandles ==
    ASSUME HandleInv, AbortUpload \/ CompleteUpload(Etags)
    PROVE  HandleInv'
<1>1. BatchEnded /\ call.op # "download"
    BY DEF AbortUpload, CompleteUpload, Read
<1>2. timed = {} /\ PoolOk
    BY <1>1, BatchHoldsNone DEF HandleInv
<1>3. \/ Single([call EXCEPT !.res = "EIO"], Plain("ABORTMULTIUPLOAD"))
      \/ Single(call, Plain("COMPLETEMULTIPOST"))
      \/ call' = Idle /\ req' = <<>> /\ UNCHANGED <<pool, timed>>
    BY DEF AbortUpload, CompleteUpload, Answered
<1>4. CASE call' = Idle /\ req' = <<>> /\ UNCHANGED <<pool, timed>>
    <2>1. timed' = {} /\ PoolOk'
        BY <1>2, <1>4 DEF PoolOk
    <2> QED BY <1>4, <2>1, NothingLeft
<1>5. ASSUME NEW c, NEW type, Single(c, Plain(type)),
             c = call \/ c = [call EXCEPT !.res = "EIO"]
      PROVE  HandleInv'
    <2>1. DOMAIN c = CallFields /\ c.todo = call.todo /\ c.op = call.op
        BY <1>5 DEF HandleInv, CallOk, CallFields
    <2>2. \A k \in DOMAIN c.todo : Fresh(c.todo[k])
        BY <2>1 DEF HandleInv, CallOk
    <2>3. Fresh(Plain(type))
        BY NewReqShape DEF Plain
    <2> QED BY <1>1, <1>2, <1>5, <2>1, <2>2, <2>3, SingleTakes
<1> QED BY <1>3, <1>4, <1>5

-----------------------------------------------------------------------------
(* What is answered for an object that is not there.                       *)

\* What may come of one try.
Outcomes(q) == {Natural(q)} \cup HttpFaults(q) \cup ErrorBodies(q) \cup CurlFaults(q)

\* Only the server's own answer of 404, or of 416 for a range, becomes ENOENT.
LEMMA AbsentAnswer ==
    ASSUME NEW q, q.type \in {"HEAD", "GET"},
           NEW o \in Outcomes(q),
           PerformResult(q, o) = "ENOENT"
    PROVE  ~obj.exists \/ (q.type = "GET" /\ q.startpos >= Len(obj.data))
<1>1. o \notin HttpFaults(q)
    <2>1. SUFFICES ASSUME NEW c \in {403, 500}, o.code = c, o.curl = "OK" PROVE FALSE
        BY DEF HttpFaults
    <2>2. PerformResult(q, o) = HttpResult(q, c)
        BY <2>1 DEF PerformResult
    <2>3. CASE c = 403
        BY <2>2, <2>3 DEF HttpResult
    <2>4. CASE c = 500
        BY <2>2, <2>4 DEF HttpResult
    <2> QED BY <2>1, <2>3, <2>4
<1>2. o \notin ErrorBodies(q)
    BY DEF ErrorBodies
<1>3. o \notin CurlFaults(q)
    <2>1. SUFFICES ASSUME o.curl \in {"PARTIAL", "FATAL"} PROVE FALSE
        BY DEF CurlFaults
    <2> QED BY <2>1 DEF PerformResult, CurlResult
<1>4. o.code = ServerCode(q) /\ o.curl = "OK"
    BY <1>1, <1>2, <1>3 DEF Natural, Outcomes
<1>5. HttpResult(q, ServerCode(q)) = "ENOENT"
    BY <1>4 DEF PerformResult
<1>6. CASE q.type = "HEAD"
    <2>1. ServerCode(q) = IF ~obj.exists THEN 404 ELSE IF call.key # cfg.key THEN 400 ELSE 200
        BY <1>6 DEF ServerCode
    <2>2. HttpResult(q, 200) # "ENOENT" /\ HttpResult(q, 400) # "ENOENT"
        BY <1>6 DEF HttpResult
    <2> QED BY <1>5, <2>1, <2>2
<1>7. CASE q.type = "GET"
    <2>1. ServerCode(q) = IF ~obj.exists THEN 404
                          ELSE IF q.startpos >= Len(obj.data) THEN 416 ELSE 206
        BY <1>7 DEF ServerCode
    <2>2. HttpResult(q, 206) # "ENOENT"
        BY DEF HttpResult
    <2> QED BY <1>5, <1>7, <2>1, <2>2
<1> QED BY <1>6, <1>7

LEMMA TryAnswersAbsent ==
    ASSUME HandleInv, AbsentInv, NEW r \in DOMAIN req, Try(r)
    PROVE  AbsentInv'
<1>1. PICK o \in Outcomes(req[r]) : TryWith(r, o, PerformResult(req[r], o))
    BY Zenon DEF Try, Outcomes
<1>2. req[r].st = "run" /\ DOMAIN req[r] = ReqFields
    BY DEF Try, HandleInv, CallOk, ReqOk
<1>3. PICK res : res = PerformResult(req[r], o)
    OBVIOUS
<1>4. PICK q : q = Tried(r, o, res)
    OBVIOUS
<1>5. req' = [req EXCEPT ![r] = q] /\ UNCHANGED <<call, out>>
    BY <1>1, <1>2, <1>3, <1>4, TryWithTried
<1>6. /\ q.type = req[r].type /\ q.b_start = req[r].b_start
      /\ \/ q.st = "run" /\ q.startpos = req[r].b_start
         \/ q.st = "ended" /\ q.res \in {res, "EIO"}
    BY <1>2, <1>4, TriedShape
<1>7. call.pc # "idle"
    BY DEF HandleInv, CallOk
<1>8. ASSUME call.pc = "one"
      PROVE  Asking(req[1])'
    <2>1. r = 1 /\ req'[1] = q /\ Asking(req[1])
        BY <1>5, <1>8 DEF HandleInv, CallOk, AbsentInv
    <2>2. CASE call.op \notin {"head", "download"}
        BY <1>5, <2>2 DEF Asking
    <2>3. CASE call.op \in {"head", "download"}
        <3>1. req[r].type \in {"HEAD", "GET"}
            BY <2>1, <2>3 DEF Asking
        <3>2. UNCHANGED obj
            <4>1. o.applied => Carried(req[r])
                BY <1>1 DEF TryWith
            <4>2. Carried(req[r]) => UNCHANGED server
                BY <3>1 DEF Carried
            <4>3. ~o.applied => UNCHANGED server
                BY <1>1 DEF TryWith
            <4> QED BY <4>1, <4>2, <4>3 DEF server
        <3>3. res = "ENOENT" => Absent
            <4>1. SUFFICES ASSUME res = "ENOENT" PROVE Absent
                OBVIOUS
            <4>2. ~obj.exists \/ (req[r].type = "GET" /\ req[r].startpos >= Len(obj.data))
                <5>1. PICK x : x = req[r]
                    OBVIOUS
                <5>2. /\ x.type \in {"HEAD", "GET"} /\ o \in Outcomes(x)
                      /\ PerformResult(x, o) = "ENOENT"
                    BY <1>3, <3>1, <4>1, <5>1
                <5> QED BY <5>1, <5>2, AbsentAnswer
            <4> QED BY <1>2, <2>1, <2>3, <4>2 DEF Asking, Absent
        <3>4. Absent' <=> Absent
            BY <1>5, <3>2 DEF Absent
        <3>5. /\ call.op = "head" => q.type = "HEAD"
              /\ call.op = "download" => q.type = "GET" /\ q.b_start = call.start
                                         /\ (q.st = "run" => q.startpos = call.start)
            BY <1>6, <2>1 DEF Asking
        <3>6. q.st = "ended" /\ q.res = "ENOENT" => Absent
            BY <1>6, <3>3
        <3> QED BY <1>5, <2>1, <3>4, <3>5, <3>6 DEF Asking
    <2> QED BY <2>2, <2>3
<1> QED BY <1>5, <1>7, <1>8 DEF AbsentInv, AbsentTruth

\* The steps that answer nothing and leave the object alone.
LEMMA SilentKeepsAbsent ==
    ASSUME AbsentInv, call.pc \in {"one", "multi", "spin"}, call'.pc \in {"multi", "spin"},
           call'.op = call.op, call.op = "head" => call.pc \in {"multi", "spin"}
    PROVE  AbsentInv'
BY DEF AbsentInv, AbsentTruth

\* A call that starts, or goes on, with a single request of another kind.
LEMMA OtherKeepsAbsent ==
    ASSUME NEW c, NEW q, Single(c, q), DOMAIN c = CallFields,
           c.op \notin {"head", "download"}
    PROVE  AbsentInv'
<1>1. DOMAIN call' = CallFields /\ call'.pc = "one" /\ call'.op = c.op
    BY DEF Single, CallFields
<1> QED BY <1>1 DEF AbsentInv, AbsentTruth, Asking

LEMMA CallsKeepAbsent ==
    ASSUME HandleInv, AbsentInv, NEW n \in Nat, NEW s \in 0 .. ObjectSize,
           \/ UpLoad(n) \/ (\E m \in 1 .. n : Mix(m, n)) \/ Copy
           \/ DownLoad(s, n)
           \/ HeadRequest \/ DeleteRequest \/ ListBucketRequest \/ PutHeadRequest
    PROVE  AbsentInv'
<1>1. CASE DeleteRequest \/ ListBucketRequest \/ PutHeadRequest
    <2>1. PICK op \in {"delete", "list", "puthead"}, type \in {"DELETE", "LISTBUCKET", "PUTHEAD"} :
             Single(Asked(op, 0, 0, <<>>), Plain(type))
        BY <1>1 DEF DeleteRequest, ListBucketRequest, PutHeadRequest
    <2> QED BY <2>1, AskedShape, OtherKeepsAbsent
<1>2. CASE UpLoad(n) \/ (\E m \in 1 .. n : Mix(m, n)) \/ Copy
    <2>1. PICK op, len, want :
             /\ op \in {"upload", "mix", "copy"}
             /\ \/ PutRequest(Asked(op, 0, len, want))
                \/ \E parts : PreMultipartPostRequest(Asked(op, 0, len, want), parts)
        <3>1. CASE UpLoad(n)
            BY <3>1 DEF UpLoad
        <3>2. CASE \E m \in 1 .. n : Mix(m, n)
            BY <3>2 DEF Mix
        <3>3. CASE Copy
            BY <3>3 DEF Copy
        <3> QED BY <1>2, <3>1, <3>2, <3>3
    <2>2. PICK c : c = Asked(op, 0, len, want) /\ DOMAIN c = CallFields /\ c.op = op
        BY AskedShape
    <2>3. CASE PutRequest(c)
        BY <2>1, <2>2, <2>3, OtherKeepsAbsent DEF PutRequest
    <2>4. CASE \E parts : PreMultipartPostRequest(c, parts)
        <3>1. PICK parts : Single([c EXCEPT !.todo = parts], Plain("PREMULTIPOST"))
            BY <2>4 DEF PreMultipartPostRequest
        <3>2. PICK d : d = [c EXCEPT !.todo = parts]
            OBVIOUS
        <3>3. DOMAIN d = CallFields /\ d.op \notin {"head", "download"}
            BY <2>1, <2>2, <3>2 DEF CallFields
        <3> QED BY <3>1, <3>2, <3>3, OtherKeepsAbsent
    <2> QED BY <2>1, <2>2, <2>3, <2>4
<1>3. CASE HeadRequest
    <2>1. PICK c : c = Asked("head", 0, 0, <<>>) /\ DOMAIN c = CallFields /\ c.op = "head"
        BY AskedShape
    <2>2. PICK q : q = Plain("HEAD") /\ q.type = "HEAD" /\ Fresh(q)
        BY NewReqShape DEF Plain
    <2>3. Single(c, q)
        BY <1>3, <2>1, <2>2 DEF HeadRequest
    <2>4. /\ call'.pc = "one" /\ call'.op = "head"
          /\ req'[1].st = "run" /\ req'[1].type = "HEAD"
        <3>1. PICK z : z = [q EXCEPT !.st = "run", !.handle = Taken]
            OBVIOUS
        <3>2. req' = <<z>> /\ call' = [c EXCEPT !.pc = "one"]
            BY <2>3, <3>1 DEF Single
        <3> QED BY <2>1, <2>2, <3>1, <3>2 DEF Fresh, ReqFields, CallFields
    <2> QED BY <2>4 DEF AbsentInv, AbsentTruth, Asking
<1>4. CASE DownLoad(s, n)
    <2>1. PICK rest, now : LET c == [Asked("download", s, n, <<>>) EXCEPT !.todo = rest]
                           IN  \/ Single([c EXCEPT !.todo = <<>>], PreGetObjectRequest(0, s, n))
                               \/ Batch(c, now)
        BY <1>4 DEF DownLoad
    <2>2. PICK c : c = [Asked("download", s, n, <<>>) EXCEPT !.todo = rest]
        OBVIOUS
    <2>3. DOMAIN c = CallFields /\ c.op = "download" /\ c.start = s
        <3>1. PICK a : a = Asked("download", s, n, <<>>) /\ DOMAIN a = CallFields
                       /\ a.op = "download" /\ a.start = s
            BY AskedShape
        <3>2. c = [a EXCEPT !.todo = rest]
            BY <2>2, <3>1
        <3> QED BY <3>1, <3>2 DEF CallFields
    <2>4. CASE Batch(c, now)
        <3>1. call'.pc = "multi" /\ call'.op = "download"
            BY <2>3, <2>4 DEF Batch, CallFields
        <3> QED BY <3>1 DEF AbsentInv, AbsentTruth
    <2>5. CASE Single([c EXCEPT !.todo = <<>>], PreGetObjectRequest(0, s, n))
        <3>1. PICK d : d = [c EXCEPT !.todo = <<>>]
            OBVIOUS
        <3>2. DOMAIN d = CallFields /\ d.op = "download" /\ d.start = s
            BY <2>3, <3>1 DEF CallFields
        <3>3. PICK q : q = PreGetObjectRequest(0, s, n) /\ Fresh(q) /\ q.type = "GET"
                       /\ q.startpos = s /\ q.b_start = s
            BY NewReqShape DEF PreGetObjectRequest
        <3>4. PICK z : z = [q EXCEPT !.st = "run", !.handle = Taken]
            OBVIOUS
        <3>5. req' = <<z>> /\ call' = [d EXCEPT !.pc = "one"]
            BY <2>5, <3>1, <3>3, <3>4 DEF Single
        <3>6. /\ call'.pc = "one" /\ call'.op = "download" /\ call'.start = s
              /\ req'[1] = z
              /\ z.st = "run" /\ z.type = "GET" /\ z.startpos = s /\ z.b_start = s
            BY <3>2, <3>3, <3>4, <3>5 DEF Fresh, ReqFields, CallFields
        <3> QED BY <3>6 DEF AbsentInv, AbsentTruth, Asking
    <2> QED BY <2>1, <2>2, <2>4, <2>5
<1> QED BY <1>1, <1>2, <1>3, <1>4

LEMMA AnsweredIsIdle ==
    ASSUME NEW c, NEW res, Answered(c, res)
    PROVE  call' = Idle /\ out'.op = c.op /\ out'.res = res /\ out'.start = c.start
BY DEF Answered

LEMMA RestKeepsAbsent ==
    ASSUME HandleInv, AbsentInv,
           \/ HeadNextKey \/ SingleDone \/ PreMultipartDone \/ MultipartDone
           \/ MultiReadSpins \/ MultiRetry \/ DownLoadNext \/ AbortUpload
           \/ CompleteUpload(Etags)
    PROVE  AbsentInv'
<1>0. DOMAIN call = CallFields
    BY DEF HandleInv, CallOk
<1>1. CASE HeadNextKey
    <2>1. /\ call.pc = "one" /\ req[1].type = "HEAD" /\ call' = [call EXCEPT !.key = @ + 1]
          /\ req' = <<[Plain("HEAD") EXCEPT !.st = "run", !.handle = req[1].handle]>>
        BY <1>1 DEF HeadNextKey, OneEnded
    <2>2. call'.pc = "one" /\ call'.op = call.op
        BY <1>0, <2>1 DEF CallFields
    <2>3. PICK q : q = Plain("HEAD") /\ q.type = "HEAD" /\ Fresh(q)
        BY NewReqShape DEF Plain
    <2>4. PICK z : z = [q EXCEPT !.st = "run", !.handle = req[1].handle]
        OBVIOUS
    <2>5. req' = <<z>>
        BY <2>1, <2>3, <2>4
    <2>6. req'[1] = z /\ z.type = "HEAD" /\ z.st = "run"
        BY <2>3, <2>4, <2>5 DEF Fresh, ReqFields
    <2>7. call.op # "download"
        BY <2>1 DEF AbsentInv, Asking
    <2> QED BY <2>2, <2>6, <2>7 DEF AbsentInv, AbsentTruth, Asking
<1>2. CASE SingleDone
    <2>1. /\ call.pc = "one" /\ req[1].st = "ended" /\ call' = Idle /\ UNCHANGED obj
          /\ out'.op = call.op /\ out'.start = call.start
          /\ out'.res \in {"EIO", req[1].res}
        BY <1>2 DEF SingleDone, OneEnded, Answered, MapPutErrorResponse, server
    <2>2. out'.op \in {"head", "download"} /\ out'.res = "ENOENT" => Absent
        BY <2>1 DEF AbsentInv, Asking
    <2>3. call'.pc = "idle"
        BY <2>1 DEF Idle
    <2> QED BY <2>1, <2>2, <2>3 DEF AbsentInv, AbsentTruth, Absent
<1>3. CASE PreMultipartDone \/ MultipartDone
    <2>1. call.pc = "one" /\ req[1].type \notin {"HEAD", "GET"}
        BY <1>3 DEF PreMultipartDone, MultipartDone, OneEnded
    <2>2. call.op \notin {"head", "download"}
        BY <2>1 DEF AbsentInv, Asking
    <2>3. \/ call' = Idle /\ out'.op = call.op
          \/ call' = [[call EXCEPT !.todo = <<>>] EXCEPT !.pc = "multi"]
        <3>1. CASE PreMultipartDone
            <4>1. \/ \E res : Answered(call, res)
                  \/ Batch([call EXCEPT !.todo = <<>>], call.todo)
                BY <3>1, Zenon DEF PreMultipartDone
            <4> QED BY <4>1, AnsweredIsIdle DEF Batch
        <3>2. CASE MultipartDone
            <4>1. \E res : Answered(call, res)
                BY <3>2, Zenon DEF MultipartDone
            <4> QED BY <4>1, AnsweredIsIdle
        <3> QED BY <1>3, <3>1, <3>2
    <2>4. CASE call' = Idle /\ out'.op = call.op
        BY <2>2, <2>4 DEF AbsentInv, AbsentTruth, Idle
    <2>5. CASE call' = [[call EXCEPT !.todo = <<>>] EXCEPT !.pc = "multi"]
        <3>1. call'.pc = "multi" /\ call'.op = call.op
            BY <1>0, <2>5 DEF CallFields
        <3> QED BY <2>2, <3>1 DEF AbsentInv, AbsentTruth
    <2> QED BY <2>3, <2>4, <2>5
<1>4. CASE MultiReadSpins \/ MultiRetry
    <2>1. call.pc = "multi" /\ call' \in {call, [call EXCEPT !.pc = "spin"]}
        BY <1>4 DEF MultiReadSpins, MultiRetry, Read, BatchEnded
    <2>2. call'.pc \in {"multi", "spin"} /\ call'.op = call.op
        BY <1>0, <2>1 DEF CallFields
    <2> QED BY <2>1, <2>2, SilentKeepsAbsent
<1>5. CASE DownLoadNext
    <2>1. /\ call.pc = "multi"
          /\ \/ call' = Idle /\ out'.res \in {"EIO", "0"}
             \/ \E rest : call' = [[call EXCEPT !.todo = rest] EXCEPT !.pc = "multi"]
        <3>1. call.pc = "multi"
            BY <1>5 DEF DownLoadNext, Read, BatchEnded
        <3>2. \/ Answered(call, "EIO")
              \/ Answered(call, "0")
              \/ \E rest, now : Batch([call EXCEPT !.todo = rest], now)
            BY <1>5, Zenon DEF DownLoadNext
        <3> QED BY <3>1, <3>2, AnsweredIsIdle DEF Batch
    <2>2. CASE call' = Idle /\ out'.res \in {"EIO", "0"}
        BY <2>2 DEF AbsentInv, AbsentTruth, Idle
    <2>3. CASE \E rest : call' = [[call EXCEPT !.todo = rest] EXCEPT !.pc = "multi"]
        <3>1. call'.pc = "multi" /\ call'.op = call.op
            BY <1>0, <2>3 DEF CallFields
        <3> QED BY <2>1, <3>1, SilentKeepsAbsent
    <2> QED BY <2>1, <2>2, <2>3
<1>6. CASE AbortUpload \/ CompleteUpload(Etags)
    <2>1. call.pc = "multi" /\ call.op # "download"
        BY <1>6 DEF AbortUpload, CompleteUpload, Read, BatchEnded
    <2>2. call.op \notin {"head", "download"}
        BY <2>1 DEF AbsentInv
    <2>3. \/ Single([call EXCEPT !.res = "EIO"], Plain("ABORTMULTIUPLOAD"))
          \/ Single(call, Plain("COMPLETEMULTIPOST"))
          \/ call' = Idle /\ out'.op = call.op
        <3>1. \/ Single([call EXCEPT !.res = "EIO"], Plain("ABORTMULTIUPLOAD"))
              \/ Single(call, Plain("COMPLETEMULTIPOST"))
              \/ Answered(call, "EIO")
            BY <1>6 DEF AbortUpload, CompleteUpload
        <3> QED BY <3>1, AnsweredIsIdle
    <2>4. CASE call' = Idle /\ out'.op = call.op
        BY <2>2, <2>4 DEF AbsentInv, AbsentTruth, Idle
    <2>5. PICK c : c = [call EXCEPT !.res = "EIO"]
        OBVIOUS
    <2>6. DOMAIN c = CallFields /\ c.op = call.op
        BY <1>0, <2>5 DEF CallFields
    <2> QED BY <1>0, <2>2, <2>3, <2>4, <2>5, <2>6, OtherKeepsAbsent
<1> QED BY <1>1, <1>2, <1>3, <1>4, <1>5, <1>6

LEMMA SetupKeepsAbsent ==
    ASSUME HandleInv, AbsentInv, NEW op \in Ops, SetupFails(op)
    PROVE  AbsentInv'
<1>1. call.pc = "idle" /\ call' = call /\ out' = [NoOut EXCEPT !.op = op, !.res = "EIO"]
    BY DEF SetupFails
<1>2. out'.res = "EIO"
    BY <1>1 DEF NoOut
<1> QED BY <1>1, <1>2 DEF AbsentInv, AbsentTruth

LEMMA BatchStepsKeepAbsent ==
    ASSUME HandleInv, AbsentInv, NEW r \in DOMAIN req, Launch(r) \/ LazySetupFails(r)
    PROVE  AbsentInv'
<1>1. call.pc = "multi" /\ call' = call
    BY DEF Launch, LazySetupFails
<1> QED BY <1>1, SilentKeepsAbsent

-----------------------------------------------------------------------------
(* Both together.                                                          *)
RequestInv == HandleInv /\ AbsentInv

LEMMA InitHolds == Init => RequestInv
<1> SUFFICES ASSUME Init PROVE RequestInv
    OBVIOUS
<1>1. /\ call = Idle /\ req = <<>> /\ pool = <<>> /\ timed = {} /\ out = NoOut
    BY DEF Init
<1>2. CallOk
    BY <1>1, IdleShape DEF CallOk
<1>3. PoolOk
    <2>1. PoolSize \in Nat
        BY RequestAssumption
    <2>2. pool \in Seq(Handles) /\ Len(pool) = 0 /\ 1 .. Len(pool) = {}
        BY <1>1
    <2> QED BY <2>1, <2>2 DEF PoolOk
<1>4. OwnedOk
    <2>1. DOMAIN req = {}
        BY <1>1
    <2> QED BY <1>1, <2>1, FS_EmptySet DEF OwnedOk, Owned
<1>5. AbsentInv
    BY <1>1 DEF AbsentInv, AbsentTruth, Idle, NoOut
<1> QED BY <1>2, <1>3, <1>4, <1>5 DEF RequestInv, HandleInv

LEMMA StepHolds == RequestInv /\ [Next]_vars => RequestInv'
<1> SUFFICES ASSUME HandleInv, AbsentInv, [Next]_vars PROVE HandleInv' /\ AbsentInv'
    BY DEF RequestInv
<1>1. ASSUME NEW n \in Nat, UpLoad(n) \/ (\E m \in 1 .. n : Mix(m, n)) \/ Copy
      PROVE  HandleInv' /\ AbsentInv'
    <2>1. 0 \in 0 .. ObjectSize
        BY RequestAssumption
    <2> QED BY <1>1, <2>1, UploadsKeepHandles, CallsKeepAbsent
<1>2. CASE \E n \in Sizes : UpLoad(n) \/ \E m \in 1 .. n : Mix(m, n)
    <2>1. PICK n \in Sizes : UpLoad(n) \/ \E m \in 1 .. n : Mix(m, n)
        BY <1>2, Zenon
    <2>2. n \in Nat
        BY RequestAssumption
    <2> QED BY <1>1, <2>1, <2>2, Zenon
<1>3. CASE Copy
    BY <1>1, <1>3, 0 \in Nat, Zenon
<1>4. CASE \E s \in 0 .. ObjectSize, n \in Sizes : DownLoad(s, n)
    <2>1. PICK s \in 0 .. ObjectSize, n \in Sizes : DownLoad(s, n)
        BY <1>4, Zenon
    <2>2. n \in Nat /\ s \in Nat
        BY RequestAssumption
    <2> QED BY <2>1, <2>2, DownLoadKeepsHandles, CallsKeepAbsent
<1>5. CASE HeadRequest \/ DeleteRequest \/ ListBucketRequest \/ PutHeadRequest
    <2>1. 0 \in Nat /\ 0 \in 0 .. ObjectSize
        BY RequestAssumption
    <2> QED BY <1>5, <2>1, OneRequestKeepsHandles, CallsKeepAbsent
<1>6. CASE \E op \in Ops : SetupFails(op)
    <2>1. PICK op \in Ops : SetupFails(op)
        BY <1>6, Zenon
    <2>2. UNCHANGED <<call, req, pool, timed>>
        BY <2>1 DEF SetupFails
    <2> QED BY <2>1, <2>2, HandlesStand, SetupKeepsAbsent
<1>7. CASE \E r \in DOMAIN req : Try(r) \/ Launch(r) \/ LazySetupFails(r)
    <2>1. PICK r \in DOMAIN req : Try(r) \/ Launch(r) \/ LazySetupFails(r)
        BY <1>7, Zenon
    <2>2. CASE Try(r)
        <3>1. req[r].st = "run" /\ \E o : TryWith(r, o, PerformResult(req[r], o))
            BY <2>2, Zenon DEF Try
        <3>2. PICK o, res : TryWith(r, o, res)
            BY <3>1, Zenon
        <3> QED BY <2>2, <3>1, <3>2, TryKeepsHandles, TryAnswersAbsent
    <2> QED BY <2>1, <2>2, LaunchKeepsHandles, LazySetupKeepsHandles, BatchStepsKeepAbsent
<1>8. CASE \/ HeadNextKey \/ SingleDone \/ PreMultipartDone \/ MultipartDone
            \/ MultiReadSpins \/ MultiRetry \/ DownLoadNext \/ AbortUpload
            \/ CompleteUpload(Etags)
    BY <1>8, HeadKeepsHandles, DoneKeepsHandles, SpinKeepsHandles, RetryKeepsHandles,
       NextPartsKeepHandles, LastRequestKeepsHandles, RestKeepsAbsent
<1>9. CASE UNCHANGED vars
    <2>1. UNCHANGED <<call, req, pool, timed, obj, out>>
        BY <1>9 DEF vars, server
    <2>2. HandleInv'
        BY <2>1, HandlesStand
    <2> QED BY <2>1, <2>2 DEF AbsentInv, AbsentTruth, Asking, Absent
<1> QED BY <1>2, <1>3, <1>4, <1>5, <1>6, <1>7, <1>8, <1>9, Zenon DEF Next, Steps

-----------------------------------------------------------------------------
(* What a request asks for, and where it stands.                           *)

\* The units a request is for.
Span(q) == q.b_start + 1 .. q.b_start + q.b_size

\* Before each try a request is back at its start, and so is its buffer (cached: the
\* new cache is used).
Rewound(q, cached) ==
    /\ q.b_start \in Nat /\ q.b_size \in Nat \ {0} /\ q.b_buf = q.b_start
    /\ q.startpos \in Nat /\ q.size \in Int /\ q.at \in Nat
    /\ q.st # "ended" \/ q.curl = "PARTIAL" => q.startpos = q.b_start /\ q.size = q.b_size
    /\ q.st # "ended" \/ ~cached => q.at = q.b_buf

\* What moves startpos and size as it is carried out.
Moves(q) == q.type \in {"UPLOADMULTIPOST", "GET"}

LEMMA TransferredFields ==
    ASSUME NEW q, NEW n \in Nat, DOMAIN q = ReqFields,
           q.at \in Int, q.startpos \in Int, q.size \in Int
    PROVE  LET t == Transferred(q, n)
           IN  /\ DOMAIN t = ReqFields
               /\ t.part = q.part /\ t.b_size = q.b_size /\ t.b_buf = q.b_buf
               /\ t.tries = q.tries /\ t.errbody = q.errbody
               /\ t.type = q.type /\ t.b_start = q.b_start
               /\ Moves(q) /\ cfg.newcache => t.at = q.at + n
               /\ ~(Moves(q) /\ cfg.newcache) => t.at = q.at
               /\ Moves(q) => t.startpos = q.startpos + n
               /\ ~Moves(q) => t.startpos = q.startpos
               /\ Moves(q) => t.size = q.size - n
               /\ ~Moves(q) => t.size = q.size
BY DEF Transferred, ReqFields, Moves

LEMMA EndedFields ==
    ASSUME NEW q, NEW code, NEW curl, NEW res, DOMAIN q = ReqFields
    PROVE  LET t == Ended(q, code, curl, res)
           IN  /\ DOMAIN t = ReqFields
               /\ t.part = q.part /\ t.b_size = q.b_size /\ t.b_buf = q.b_buf
               /\ t.errbody = q.errbody
               /\ t.type = q.type /\ t.b_start = q.b_start
               /\ t.at = q.at /\ t.startpos = q.startpos /\ t.size = q.size
               /\ t.st = "ended" /\ t.curl = curl /\ t.res = res
               /\ t.code = IF code = NotSet THEN Fatal ELSE code
BY DEF Ended, ReqFields

LEMMA RemadeFields ==
    ASSUME NEW q, DOMAIN q = ReqFields
    PROVE  LET t == RemakeHandle(q)
           IN  /\ DOMAIN t = ReqFields
               /\ t.part = q.part /\ t.b_size = q.b_size /\ t.b_buf = q.b_buf
               /\ t.errbody = q.errbody /\ t.st = q.st
               /\ t.type = q.type /\ t.b_start = q.b_start
               /\ t.at = q.at /\ t.startpos = q.b_start /\ t.size = q.b_size
               /\ t.tries = q.tries
<1>1. PICK u : u = [q EXCEPT !.startpos = q.b_start, !.size = q.b_size, !.retry = @ + 1,
                         !.code = NotSet]
    OBVIOUS
<1>2. /\ DOMAIN u = ReqFields
      /\ u.part = q.part /\ u.b_size = q.b_size /\ u.b_buf = q.b_buf
      /\ u.errbody = q.errbody /\ u.st = q.st
      /\ u.type = q.type /\ u.b_start = q.b_start
      /\ u.at = q.at /\ u.startpos = q.b_start /\ u.size = q.b_size
      /\ u.tries = q.tries
    BY <1>1 DEF ReqFields
<1>3. RemakeHandle(q) = [u EXCEPT !.again = TRUE]
    BY <1>1 DEF RemakeHandle, SetOptions
<1> QED BY <1>2, <1>3 DEF ReqFields

\* A try keeps what the request is for.  It ends with the result of the try, goes on
\* from the start, or has been tried often enough.
LEMMA TriedFields ==
    ASSUME NEW r, NEW o, NEW res, NEW q, NEW t, q = req[r], t = Tried(r, o, res),
           DOMAIN q = ReqFields, q.st = "run", o.n \in Nat,
           q.at \in Int, q.startpos \in Int, q.size \in Int
    PROVE  /\ DOMAIN t = ReqFields
           /\ t.type = q.type /\ t.part = q.part
           /\ t.b_start = q.b_start /\ t.b_size = q.b_size /\ t.b_buf = q.b_buf
           /\ Moves(q) /\ cfg.newcache => t.at = q.at + o.n
           /\ ~(Moves(q) /\ cfg.newcache) => t.at = q.at
           /\ \/ /\ res # "retry" /\ t.st = "ended" /\ t.res = res
                 /\ Moves(q) => t.startpos = q.startpos + o.n
                 /\ ~Moves(q) => t.startpos = q.startpos
                 /\ Moves(q) => t.size = q.size - o.n
                 /\ ~Moves(q) => t.size = q.size
                 /\ t.errbody = o.errbody
              \/ /\ res = "retry" /\ t.st \in {"run", "ended"}
                 /\ t.startpos = q.b_start /\ t.size = q.b_size
                 /\ t.errbody = q.errbody /\ (t.st = "ended" => t.res = "EIO")
           /\ t.st = "ended" => t.curl = o.curl
                        /\ t.code = IF o.code = NotSet THEN Fatal ELSE o.code
<1>3. PICK u : u = Transferred(q, o.n)  OBVIOUS
<1>4. /\ DOMAIN u = ReqFields /\ u.st = "run"
      /\ u.part = q.part /\ u.b_size = q.b_size /\ u.b_buf = q.b_buf
      /\ u.errbody = q.errbody
      /\ u.type = q.type /\ u.b_start = q.b_start
      /\ Moves(q) /\ cfg.newcache => u.at = q.at + o.n
      /\ ~(Moves(q) /\ cfg.newcache) => u.at = q.at
      /\ Moves(q) => u.startpos = q.startpos + o.n
      /\ ~Moves(q) => u.startpos = q.startpos
      /\ Moves(q) => u.size = q.size - o.n
      /\ ~Moves(q) => u.size = q.size
    BY <1>3, TransferredFields, TransferredShape
<1>5. PICK a : a = AfterTry(u, o, res)  OBVIOUS
<1>6. /\ DOMAIN a = ReqFields
      /\ a.type = q.type
      /\ a.b_start = q.b_start /\ a.b_size = q.b_size /\ a.b_buf = q.b_buf
      /\ a.at = u.at
      /\ \/ /\ res # "retry" /\ a.st = "ended" /\ a.res = res
            /\ a.startpos = u.startpos /\ a.size = u.size
            /\ a.errbody = o.errbody
         \/ /\ res = "retry" /\ a.st \in {"run", "ended"}
            /\ a.startpos = q.b_start /\ a.size = q.b_size
            /\ a.errbody = q.errbody /\ (a.st = "ended" => a.res = "EIO")
      /\ a.st = "ended" => a.curl = o.curl
                           /\ a.code = IF o.code = NotSet THEN Fatal ELSE o.code
    <2>1. CASE res # "retry"
        <3>1. PICK e : e = Ended(u, o.code, o.curl, res)  OBVIOUS
        <3>2. a = [e EXCEPT !.errbody = o.errbody]  BY <1>5, <2>1, <3>1 DEF AfterTry
        <3> QED BY <1>4, <2>1, <3>1, <3>2, EndedFields DEF ReqFields
    <2>2. PICK m : m = RemakeHandle(u)  OBVIOUS
    <2>3. /\ DOMAIN m = ReqFields
          /\ m.b_size = q.b_size /\ m.b_buf = q.b_buf
          /\ m.errbody = q.errbody /\ m.st = "run"
          /\ m.type = q.type /\ m.b_start = q.b_start
          /\ m.at = u.at /\ m.startpos = q.b_start /\ m.size = q.b_size
        BY <1>4, <2>2, RemadeFields
    <2>4. CASE res = "retry" /\ u.tries + 1 < Retries
        <3>1. a = [m EXCEPT !.tries = @ + 1]  BY <1>5, <2>2, <2>4 DEF AfterTry
        <3> QED BY <2>3, <2>4, <3>1 DEF ReqFields
    <2>5. CASE res = "retry" /\ ~(u.tries + 1 < Retries)
        <3>1. a = Ended(m, o.code, o.curl, "EIO")  BY <1>5, <2>2, <2>5 DEF AfterTry
        <3> QED BY <2>3, <2>5, <3>1, EndedFields
    <2> QED BY <2>1, <2>4, <2>5
<1>7. PICK b : b = [a EXCEPT !.part = q.part]  OBVIOUS
<1>8. t = IF b.st = "ended" /\ call.pc = "multi" THEN [b EXCEPT !.handle = 0] ELSE b
    BY <1>3, <1>5, <1>7 DEF Tried
<1>9. /\ DOMAIN b = ReqFields /\ b.part = q.part
      /\ \A f \in ReqFields \ {"part"} : b[f] = a[f]
    BY <1>6, <1>7 DEF ReqFields
<1>11. /\ DOMAIN t = ReqFields /\ t.part = q.part
       /\ \A f \in ReqFields \ {"part", "handle"} : t[f] = a[f]
    BY <1>8, <1>9 DEF ReqFields
<1>12. /\ t.type = a.type /\ t.b_start = a.b_start /\ t.b_size = a.b_size /\ t.b_buf = a.b_buf
       /\ t.at = a.at /\ t.startpos = a.startpos /\ t.size = a.size /\ t.again = a.again
       /\ t.errbody = a.errbody /\ t.st = a.st /\ t.res = a.res /\ t.curl = a.curl
       /\ t.code = a.code
    BY <1>11 DEF ReqFields
<1> QED BY <1>4, <1>6, <1>11, <1>12


\* What goes through the callbacks.
LEMMA UnitsAreNat ==
    ASSUME NEW q, q.size \in Nat
    PROVE  /\ Units(q) \in Nat
           /\ q.type = "GET" => Units(q) = q.size
           /\ q.type \notin Uploads \cup {"GET"} => Units(q) = 0
<1>1. ASSUME NEW pos, NEW n \in Nat PROVE Len(From(pos, n)) = n
    BY DEF From
<1>2. Len(<<>>) = 0  OBVIOUS
<1>3. Len(Body(q)) \in Nat  BY <1>1, <1>2 DEF Body, PutBody, PartBody
<1> QED BY <1>3 DEF Units, Uploads

LEMMA NaturalFields ==
    ASSUME NEW q, q.size \in Nat
    PROVE  /\ Natural(q).code = ServerCode(q) /\ Natural(q).curl = "OK"
           /\ Natural(q).applied = (ServerCode(q) < 300) /\ Natural(q).errbody = FALSE
           /\ Natural(q).n = IF q.type = "GET" /\ ~(ServerCode(q) < 300) THEN Min2(1, q.size)
                             ELSE Units(q)
           /\ Natural(q).n \in Nat
<1>1. /\ Natural(q).code = ServerCode(q) /\ Natural(q).curl = "OK"
      /\ Natural(q).applied = (ServerCode(q) < 300) /\ Natural(q).errbody = FALSE
      /\ Natural(q).n = IF q.type = "GET" /\ ~(ServerCode(q) < 300) THEN Min2(1, q.size)
                        ELSE Units(q)
    BY DEF Natural
<1>2. Natural(q).n \in Nat  BY <1>1, UnitsAreNat DEF Min2
<1> QED BY <1>1, <1>2

LEMMA CodesAreNumbers ==
    ASSUME NEW q
    PROVE  ServerCode(q) \in {200, 206, 400, 404, 416}
BY DEF ServerCode

\* The ways a try can come out.
LEMMA OutcomeKinds ==
    ASSUME NEW q, q.size \in Nat, NEW o \in Outcomes(q)
    PROVE  /\ o.n \in Nat
           /\ q.type = "GET" => o.n <= Units(q) \/ o.n = Min2(1, q.size)
           /\ q.type \notin Uploads \cup {"GET"} => o.n = 0
           /\ \/ o = Natural(q)
              \/ o.curl = "OK" /\ o.code \in {403, 500} /\ ~o.applied /\ ~o.errbody
              \/ o.curl = "OK" /\ o.code = 200 /\ ~o.applied /\ o.errbody /\ q.type # "GET"
              \/ o.curl \in {"PARTIAL", "FATAL"} /\ o.code = NotSet /\ ~o.errbody
                 /\ (o.applied => ServerCode(q) < 300)
<1>1. Units(q) \in Nat /\ (q.type = "GET" => Units(q) = q.size)
      /\ (q.type \notin Uploads \cup {"GET"} => Units(q) = 0)
    BY UnitsAreNat
<1>2. PICK n : n = Natural(q).n  OBVIOUS
<1>3. n = (IF q.type = "GET" /\ ~(ServerCode(q) < 300) THEN Min2(1, q.size) ELSE Units(q)) /\ n \in Nat
    BY <1>2, NaturalFields
<1>4. CASE o = Natural(q)
    <2>1. o.n = n  BY <1>2, <1>4
    <2>2. q.type = "GET" => n <= Units(q) \/ n = Min2(1, q.size)
        <3>1. n = Min2(1, q.size) \/ n = Units(q)  BY ONLY <1>3
        <3> QED BY <1>1, <3>1
    <2> QED BY <1>1, <1>3, <1>4, <2>1, <2>2
<1>5. CASE o \in HttpFaults(q)
    <2>1. PICK c \in {403, 500}, m \in IF q.type = "GET" THEN {Min2(1, q.size)} ELSE {0, Units(q)} :
             o = [code |-> c, curl |-> "OK", applied |-> FALSE, errbody |-> FALSE, n |-> m]
        BY <1>5 DEF HttpFaults
    <2>2. o.n = m /\ o.code = c /\ o.curl = "OK" /\ o.applied = FALSE /\ o.errbody = FALSE
        BY <2>1
    <2>3. Min2(1, q.size) \in Nat  BY DEF Min2
    <2> QED BY <1>1, <2>1, <2>2, <2>3
<1>6. CASE o \in ErrorBodies(q)
    <2>1. /\ q.type \in {"PUT", "PUTHEAD", "COPYMULTIPOST", "COMPLETEMULTIPOST"}
          /\ o = [code |-> 200, curl |-> "OK", applied |-> FALSE, errbody |-> TRUE, n |-> Units(q)]
        BY <1>6 DEF ErrorBodies
    <2> QED BY <1>1, <2>1
<1>7. CASE o \in CurlFaults(q)
    <2>1. PICK e \in {"PARTIAL", "FATAL"}, a \in BOOLEAN, m \in 0 .. n :
             /\ o = [code |-> NotSet, curl |-> e, applied |-> a, errbody |-> FALSE, n |-> m]
             /\ a => ServerCode(q) < 300
        <3>1. \/ \E e \in {"PARTIAL", "FATAL"}, a \in {FALSE}, m \in 0 .. n :
                    o = [code |-> NotSet, curl |-> e, applied |-> a, errbody |-> FALSE, n |-> m]
              \/ \E e \in {"PARTIAL", "FATAL"} :
                    o = [code |-> NotSet, curl |-> e, applied |-> ServerCode(q) < 300, errbody |-> FALSE,
                         n |-> n]
            BY <1>2, <1>7 DEF CurlFaults
        <3>2. n \in 0 .. n  BY <1>3
        <3>3. (ServerCode(q) < 300) \in BOOLEAN  OBVIOUS
        <3> QED BY <3>1, <3>2, <3>3
    <2>2. o.n = m /\ o.code = NotSet /\ o.curl = e /\ o.applied = a /\ o.errbody = FALSE
        BY <2>1
    <2>3. m \in Nat /\ m <= n  BY <1>3, <2>1
    <2>4. Min2(1, q.size) = 1 \/ Min2(1, q.size) = q.size  BY DEF Min2
    <2>5. q.type = "GET" => m <= Units(q) \/ m = Min2(1, q.size)
        BY <1>1, <1>3, <2>3 DEF Min2
    <2> QED BY <1>1, <1>3, <2>1, <2>2, <2>3, <2>5
<1> QED BY <1>4, <1>5, <1>6, <1>7 DEF Outcomes

\* A curl error of the kind that is tried again has no other result.
LEMMA PartialRetries ==
    ASSUME NEW q, NEW o, o.curl = "PARTIAL"
    PROVE  PerformResult(q, o) = "retry"
BY DEF PerformResult, CurlResult

\* A try leaves the buffer where it was read to and is not the last one.
BufferKept(q, o, res) == res = "retry" => Transferred(q, o.n).at = q.b_buf

LEMMA BufferIsKept ==
    ASSUME NEW r, NEW o, NEW res, TryWith(r, o, res), "buffer not rewound" \notin odd'
    PROVE  BufferKept(req[r], o, res)
<1>1. Deviations(req[r], o, res) \subseteq odd'  BY DEF TryWith
<1>2. SUFFICES ASSUME res = "retry", Transferred(req[r], o.n).at # req[r].b_buf PROVE FALSE
    BY DEF BufferKept
<1>3. "buffer not rewound" \in Deviations(req[r], o, res)  BY <1>2 DEF Deviations
<1> QED BY <1>1, <1>3

\* After a try that did not leave the buffer where it was read to, a request is ready
\* for the next one.
LEMMA TryRewinds ==
    ASSUME NEW r, NEW o, NEW q, NEW res, NEW t,
           q = req[r], o \in Outcomes(q), res = PerformResult(q, o), t = Tried(r, o, res),
           DOMAIN q = ReqFields, q.st = "run", Rewound(q, cfg.newcache), BufferKept(q, o, res)
    PROVE  Rewound(t, cfg.newcache)
<1>1. q.size \in Nat /\ q.startpos \in Nat /\ q.at \in Nat  BY DEF Rewound
<1>2. o.n \in Nat  BY <1>1, OutcomeKinds
<1>3. /\ t.b_start = q.b_start /\ t.b_size = q.b_size /\ t.b_buf = q.b_buf
      /\ Moves(q) /\ cfg.newcache => t.at = q.at + o.n
      /\ ~(Moves(q) /\ cfg.newcache) => t.at = q.at
      /\ \/ /\ res # "retry" /\ t.st = "ended"
            /\ Moves(q) => t.startpos = q.startpos + o.n
            /\ ~Moves(q) => t.startpos = q.startpos
            /\ Moves(q) => t.size = q.size - o.n
            /\ ~Moves(q) => t.size = q.size
         \/ res = "retry" /\ t.startpos = q.b_start /\ t.size = q.b_size
      /\ t.st = "ended" => t.curl = o.curl
    BY <1>1, <1>2, TriedFields
<1>4. t.st = "ended" /\ t.curl = "PARTIAL" => res = "retry"
    BY <1>3, PartialRetries
<1>5. res = "retry" => t.at = q.b_buf
    <2>1. Transferred(q, o.n).at = t.at  BY <1>1, <1>2, <1>3, TransferredFields
    <2> QED BY <2>1 DEF BufferKept
<1>6. q.b_start \in Nat /\ q.b_size \in Nat \ {0} /\ q.b_buf = q.b_start
       /\ (~cfg.newcache => q.at = q.b_buf)
    BY DEF Rewound
<1>7. t.startpos \in Nat /\ t.size \in Int /\ t.at \in Nat
    <2>1. CASE Moves(q)  BY <1>1, <1>2, <1>3, <1>6, <2>1
    <2>2. CASE ~Moves(q)  BY <1>1, <1>2, <1>3, <1>6, <2>2
    <2> QED BY <2>1, <2>2
<1>8. t.st # "ended" \/ t.curl = "PARTIAL" => res = "retry"  BY <1>3, <1>4
<1>9. t.st # "ended" \/ ~cfg.newcache => t.at = t.b_buf
    BY <1>3, <1>5, <1>6, <1>8
<1>10. t.st # "ended" \/ t.curl = "PARTIAL" => t.startpos = t.b_start /\ t.size = t.b_size
    BY <1>3, <1>8
<1> QED BY <1>3, <1>6, <1>7, <1>9, <1>10 DEF Rewound

-----------------------------------------------------------------------------
(* A download.                                                             *)

\* The deviations after which a download need not be exact.
GetClean == odd \cap {"buffer not rewound", "404 ignored"} = {}

\* The units a call c asks for, and what of them is where it belongs in memory b.
Wanted(c) == c.start + 1 .. c.start + c.size

Right(x, b, data) == x \in DOMAIN b /\ b[x] = data[x]

\* A request with its units in memory.
Fetched(q) == q.st = "ended" /\ Good(q) /\ q.code # NotSet

GetPart(q, c, cached) ==
    /\ DOMAIN q = ReqFields /\ q.type = "GET" /\ Rewound(q, cached) /\ Span(q) \subseteq Wanted(c)
    /\ q.st = "new" => q.code = NotSet
    /\ q.st = "ended" => q.code \in Int

Apart(f, g) == \A i \in DOMAIN f, j \in DOMAIN g : Span(f[i]) \cap Span(g[j]) = {}

AllApart(f) == \A i, j \in DOMAIN f : i # j => Span(f[i]) \cap Span(f[j]) = {}

\* The requests rs of a download and those to come are for different units of it.
GetReqs(rs, c, cached) ==
    /\ c.start \in Nat /\ c.size \in Nat
    /\ \A i \in DOMAIN rs : GetPart(rs[i], c, cached)
    /\ \A k \in DOMAIN c.todo : GetPart(c.todo[k], c, cached)
    /\ AllApart(rs) /\ AllApart(c.todo) /\ Apart(rs, c.todo)

\* A unit that a request has still to bring.
Awaited(x, rs, c) ==
    \/ \E i \in DOMAIN rs : ~Fetched(rs[i]) /\ x \in Span(rs[i])
    \/ \E k \in DOMAIN c.todo : x \in Span(c.todo[k])

GetData(rs, c, b, data) ==
    /\ DOMAIN b \subseteq Wanted(c)
    /\ \A x \in Wanted(c) : Right(x, b, data) \/ Awaited(x, rs, c)

\* A download by a single request.
GetOne(rs, c) ==
    c.pc = "one" => /\ DOMAIN c.todo = {}
                    /\ rs[1].st = "ended" /\ rs[1].res = "0" => Fetched(rs[1])

Downloading(c) == c.op = "download" /\ c.pc \in {"one", "multi"}

GetInv ==
    /\ GetExact
    /\ Downloading(call) /\ GetClean =>
          GetReqs(req, call, cfg.newcache) /\ GetData(req, call, buf, obj.data) /\ GetOne(req, call)

-----------------------------------------------------------------------------
\* The answer that brings every unit of a range.
LEMMA FetchedFromServer ==
    ASSUME NEW r, NEW o, NEW q, NEW res, NEW t,
           q = req[r], o \in Outcomes(q), t = Tried(r, o, res),
           DOMAIN q = ReqFields, q.st = "run", Rewound(q, cfg.newcache), q.type = "GET", Fetched(t)
    PROVE  ServerCode(q) = 206 /\ o.code = 206 /\ o.n = q.b_size
<1>1. q.size \in Nat /\ q.startpos \in Nat /\ q.at \in Nat /\ q.size = q.b_size  BY DEF Rewound
<1>2. o.n \in Nat  BY <1>1, OutcomeKinds
<1>3. t.st = "ended" => t.curl = o.curl /\ t.code = IF o.code = NotSet THEN Fatal ELSE o.code
    BY <1>1, <1>2, TriedFields
<1>4. o.curl = "OK" /\ (o.code = NotSet \/ o.code < 400) /\ t.code < 400
    BY <1>3 DEF Fetched, Good
<1>5. o.code # NotSet
    <2>1. SUFFICES ASSUME o.code = NotSet PROVE FALSE  OBVIOUS
    <2>2. t.code = 599  BY <1>3, <2>1 DEF Fetched, Fatal
    <2> QED BY <1>4, <2>2
<1>6. o = Natural(q)
    <2>1. \/ o = Natural(q)
          \/ o.curl = "OK" /\ o.code \in {403, 500}
          \/ o.code = 200 /\ q.type # "GET"
          \/ o.curl \in {"PARTIAL", "FATAL"}
        BY <1>1, OutcomeKinds
    <2> QED BY <1>4, <1>5, <2>1 DEF NotSet
<1>7. o.code = ServerCode(q)  BY <1>1, <1>6, NaturalFields
<1>8. ServerCode(q) \in {404, 416, 206}  BY DEF ServerCode
<1>9. ServerCode(q) = 206  BY <1>4, <1>5, <1>7, <1>8
<1>10. Natural(q).n = Units(q)
    <2>1. Natural(q).n = IF q.type = "GET" /\ ~(ServerCode(q) < 300) THEN Min2(1, q.size)
                         ELSE Units(q)
        BY <1>1, NaturalFields, Zenon
    <2> QED BY <1>9, <2>1
<1>11. Units(q) = q.size  BY <1>1, UnitsAreNat
<1> QED BY <1>1, <1>6, <1>7, <1>9, <1>10, <1>11

\* A single GET that answers 0 has brought its range.
LEMMA SingleGetFetched ==
    ASSUME NEW r, NEW o, NEW q, NEW res, NEW t,
           q = req[r], o \in Outcomes(q), res = PerformResult(q, o), t = Tried(r, o, res),
           DOMAIN q = ReqFields, q.st = "run", Rewound(q, cfg.newcache), q.type = "GET",
           t.st = "ended", t.res = "0"
    PROVE  Fetched(t)
<1>1. q.size \in Nat /\ q.startpos \in Nat /\ q.at \in Nat  BY DEF Rewound
<1>2. o.n \in Nat  BY <1>1, OutcomeKinds
<1>3. /\ t.curl = o.curl /\ t.code = IF o.code = NotSet THEN Fatal ELSE o.code
      /\ (res # "retry" /\ t.res = res) \/ t.res = "EIO"
    BY <1>1, <1>2, TriedFields
<1>4. PerformResult(q, o) = "0"  BY <1>3
<1>5. o.curl = "OK" /\ HttpResult(q, o.code) = "0"
    BY <1>4 DEF PerformResult, CurlResult
<1>6. o.code \in 200 .. 299  BY <1>5 DEF HttpResult
<1>7. t.code = o.code  BY <1>3, <1>6 DEF NotSet
<1> QED BY <1>3, <1>5, <1>6, <1>7 DEF Fetched, Good, NotSet

\* The code that a request ends with.
LEMMA TriedCode ==
    ASSUME NEW r, NEW o, NEW q, NEW res, NEW t,
           q = req[r], o \in Outcomes(q), t = Tried(r, o, res),
           DOMAIN q = ReqFields, q.st = "run", Rewound(q, cfg.newcache), t.st = "ended"
    PROVE  t.code \in Int
<1>1. q.size \in Nat /\ q.startpos \in Nat /\ q.at \in Nat  BY DEF Rewound
<1>2. o.n \in Nat  BY <1>1, OutcomeKinds
<1>3. t.code = IF o.code = NotSet THEN Fatal ELSE o.code
    BY <1>1, <1>2, TriedFields
<1>4. o = Natural(q) \/ o.code \in {403, 500, 200, NotSet}
    BY <1>1, OutcomeKinds
<1>5. o.code \in Int
    <2>1. CASE o = Natural(q)
        <3>1. o.code = ServerCode(q)  BY <1>1, <2>1, NaturalFields
        <3> QED BY <3>1, CodesAreNumbers
    <2>2. CASE o.code \in {403, 500, 200, NotSet}  BY <2>2 DEF NotSet
    <2> QED BY <1>4, <2>1, <2>2
<1> QED BY <1>3, <1>5 DEF Fatal

\* A try writes to the units of its request only, and an answer of the server that
\* brings them all puts each at its place.
LEMMA LandsInSpan ==
    ASSUME NEW q, NEW o, o \in Outcomes(q), DOMAIN q = ReqFields, q.st = "run",
           Rewound(q, cfg.newcache), q.type = "GET"
    PROVE  LET b == Landed(q, o)
           IN  /\ DOMAIN b \subseteq DOMAIN buf \cup Span(q)
               /\ \A x \in DOMAIN buf : x \notin Span(q) => x \in DOMAIN b /\ b[x] = buf[x]
               /\ ServerCode(q) = 206 /\ o.code = 206 /\ o.n = q.b_size =>
                     \A x \in Span(q) : Right(x, b, obj.data)
<1>1. /\ q.b_size \in Nat \ {0} /\ q.size = q.b_size /\ q.b_start \in Nat
      /\ q.startpos = q.b_start /\ q.at = q.b_start
    BY DEF Rewound
<1>2. PICK s \in Nat : s = q.b_start  BY <1>1
<1>3. PICK n : n = o.n  OBVIOUS
<1>4. n \in Nat /\ n <= q.b_size
    <2>1. n \in Nat /\ (n <= Units(q) \/ n = Min2(1, q.size)) /\ Units(q) = q.size
        BY <1>1, <1>3, OutcomeKinds, UnitsAreNat
    <2> QED BY <1>1, <2>1 DEF Min2
<1>5. PICK b : b = Landed(q, o)  OBVIOUS
<1>6. b = [i \in DOMAIN buf \cup (s + 1 .. s + n) |->
            IF i \notin s + 1 .. s + n THEN buf[i]
            ELSE IF o.code >= 300 \/ ServerCode(q) >= 300 THEN Junk
            ELSE obj.data[s + i - s]]
    BY <1>1, <1>2, <1>3, <1>5 DEF Landed
<1>7. Span(q) = s + 1 .. s + q.b_size  BY <1>2 DEF Span
<1>8. s + 1 .. s + n \subseteq Span(q)  BY <1>1, <1>4, <1>7
<1>9. DOMAIN b = DOMAIN buf \cup (s + 1 .. s + n)  BY <1>6
<1>10. \A x \in DOMAIN buf : x \notin Span(q) => b[x] = buf[x]  BY <1>6, <1>8
<1>11. ASSUME ServerCode(q) = 206, o.code = 206, o.n = q.b_size, NEW x \in Span(q)
       PROVE  Right(x, b, obj.data)
    <2>1. x \in s + 1 .. s + n /\ x \in Int  BY <1>3, <1>7, <1>11
    <2>2. s + x - s = x  BY <2>1
    <2>3. b[x] = obj.data[s + x - s]  BY <1>6, <1>11, <2>1
    <2> QED BY <1>9, <2>1, <2>2, <2>3 DEF Right
<1> QED BY <1>5, <1>8, <1>9, <1>10, <1>11

\* One request of a batch changes and is still for the same units.
LEMMA OneReqChanges ==
    ASSUME NEW rs, NEW c, NEW cached, GetReqs(rs, c, cached), NEW r \in DOMAIN rs,
           NEW t, GetPart(t, c, cached), Span(t) = Span(rs[r])
    PROVE  GetReqs([rs EXCEPT ![r] = t], c, cached)
<1>1. PICK rt : rt = [rs EXCEPT ![r] = t]  OBVIOUS
<1>2. DOMAIN rt = DOMAIN rs /\ rt[r] = t /\ \A i \in DOMAIN rs : i # r => rt[i] = rs[i]
    BY <1>1
<1>3. \A i \in DOMAIN rs : Span(rt[i]) = Span(rs[i]) /\ GetPart(rt[i], c, cached)
    BY <1>2 DEF GetReqs
<1>4. AllApart(rt) /\ Apart(rt, c.todo)
    BY <1>2, <1>3 DEF GetReqs, AllApart, Apart
<1> QED BY <1>1, <1>2, <1>3, <1>4 DEF GetReqs

\* The data of the range, when one request changes and writes to its units only.
LEMMA OneReqWrites ==
    ASSUME NEW rs, NEW c, NEW cached, NEW b, NEW data, GetReqs(rs, c, cached), GetData(rs, c, b, data),
           NEW r \in DOMAIN rs, NEW t, NEW w, Span(t) = Span(rs[r]), ~Fetched(rs[r]),
           DOMAIN w \subseteq DOMAIN b \cup Span(t),
           \A x \in DOMAIN b : x \notin Span(t) => x \in DOMAIN w /\ w[x] = b[x],
           Fetched(t) => \A x \in Span(t) : Right(x, w, data)
    PROVE  GetData([rs EXCEPT ![r] = t], c, w, data)
<1>1. PICK rt : rt = [rs EXCEPT ![r] = t]  OBVIOUS
<1>2. DOMAIN rt = DOMAIN rs /\ rt[r] = t /\ \A i \in DOMAIN rs : i # r => rt[i] = rs[i]
    BY <1>1
<1>3. DOMAIN w \subseteq Wanted(c)
    BY DEF GetData, GetReqs, GetPart
<1>4. ASSUME NEW x \in Wanted(c) PROVE Right(x, w, data) \/ Awaited(x, rt, c)
    <2>1. CASE x \in Span(t)
        <3>1. CASE Fetched(t)  BY <2>1, <3>1
        <3>2. CASE ~Fetched(t)  BY <1>2, <2>1, <3>2 DEF Awaited
        <3> QED BY <3>1, <3>2
    <2>2. CASE x \notin Span(t)
        <3>1. CASE Right(x, b, data)  BY <2>2, <3>1 DEF Right
        <3>2. CASE Awaited(x, rs, c)
            <4>1. CASE \E k \in DOMAIN c.todo : x \in Span(c.todo[k])  BY <4>1 DEF Awaited
            <4>2. CASE \E i \in DOMAIN rs : ~Fetched(rs[i]) /\ x \in Span(rs[i])
                <5>1. PICK i \in DOMAIN rs : ~Fetched(rs[i]) /\ x \in Span(rs[i])  BY <4>2
                <5>2. i # r  BY <2>2, <5>1
                <5> QED BY <1>2, <5>1, <5>2 DEF Awaited
            <4> QED BY <3>2, <4>1, <4>2 DEF Awaited
        <3> QED BY <3>1, <3>2 DEF GetData
    <2> QED BY <2>1, <2>2
<1> QED BY <1>1, <1>3, <1>4 DEF GetData

\* A GET leaves the server alone.
LEMMA GetsReadOnly ==
    ASSUME NEW r, NEW o, NEW res, TryWith(r, o, res), req[r].type = "GET"
    PROVE  UNCHANGED server
<1>1. o.applied => Carried(req[r])  BY DEF TryWith
<1>2. ~o.applied => UNCHANGED server  BY DEF TryWith
<1>3. Carried(req[r]) => UNCHANGED server  BY DEF Carried
<1> QED BY <1>1, <1>2, <1>3

\* What was known of the deviations stays known.
LEMMA CleanBefore ==
    ASSUME NEW d, odd' = odd \cup d, GetClean'
    PROVE  GetClean
BY DEF GetClean

LEMMA TryKeepsGets ==
    ASSUME HandleInv, GetInv, NEW r \in DOMAIN req, Try(r)
    PROVE  GetInv'
<1>1. PICK o \in Outcomes(req[r]) : TryWith(r, o, PerformResult(req[r], o))
    BY Zenon DEF Try, Outcomes
<1>2. PICK q : q = req[r]  OBVIOUS
<1>3. PICK res : res = PerformResult(q, o)  OBVIOUS
<1>4. PICK t : t = Tried(r, o, res)  OBVIOUS
<1>5. q.st = "run" /\ DOMAIN q = ReqFields
    BY <1>2 DEF Try, HandleInv, CallOk, ReqOk
<1>6. TryWith(r, o, res)  BY <1>1, <1>2, <1>3
<1>7. req' = [req EXCEPT ![r] = t] /\ UNCHANGED <<call, out>>
    BY <1>2, <1>4, <1>5, <1>6, TryWithTried
<1>8. call.pc # "idle" /\ UNCHANGED cfg
    BY <1>6 DEF HandleInv, CallOk, TryWith
<1>9. GetExact'  BY <1>7, <1>8 DEF GetExact
<1>10. SUFFICES ASSUME Downloading(call)', GetClean'
                PROVE  /\ GetReqs(req', call, cfg.newcache)
                       /\ GetData(req', call, buf', obj'.data) /\ GetOne(req', call)
    BY <1>7, <1>8, <1>9 DEF GetInv
<1>11. GetClean
    <2>1. odd' = odd \cup Deviations(req[r], o, res)  BY <1>6 DEF TryWith
    <2> QED BY <1>10, <2>1, CleanBefore
<1>12. /\ GetReqs(req, call, cfg.newcache) /\ GetData(req, call, buf, obj.data)
       /\ GetOne(req, call) /\ Downloading(call)
    BY <1>7, <1>10, <1>11 DEF GetInv, Downloading
<1>13. GetPart(q, call, cfg.newcache)  BY <1>2, <1>12 DEF GetReqs
<1>14. Rewound(q, cfg.newcache) /\ q.type = "GET" /\ Span(q) \subseteq Wanted(call)
    BY <1>13 DEF GetPart
<1>15. BufferKept(q, o, res)
    <2>1. "buffer not rewound" \notin odd'  BY <1>10 DEF GetClean
    <2> QED BY <1>2, <1>6, <2>1, BufferIsKept
<1>16. Rewound(t, cfg.newcache)  BY <1>2, <1>3, <1>4, <1>5, <1>14, <1>15, TryRewinds
<1>17. q.size \in Int /\ q.startpos \in Int /\ q.at \in Int /\ q.size \in Nat  BY <1>5, <1>14 DEF Rewound
<1>18. o.n \in Nat  BY <1>2, <1>17, OutcomeKinds
<1>19. /\ DOMAIN t = ReqFields /\ t.type = q.type /\ t.b_start = q.b_start /\ t.b_size = q.b_size
       /\ t.st \in {"run", "ended"}
    BY <1>2, <1>4, <1>5, <1>17, <1>18, TriedFields
<1>20. Span(t) = Span(q)  BY <1>19 DEF Span
<1>21. GetPart(t, call, cfg.newcache)
    <2>1. t.st = "ended" => t.code \in Int  BY <1>2, <1>4, <1>5, <1>14, TriedCode
    <2> QED BY <1>14, <1>16, <1>19, <1>20, <2>1 DEF GetPart
<1>22. GetReqs(req', call, cfg.newcache)  BY <1>2, <1>7, <1>12, <1>20, <1>21, OneReqChanges
<1>23. PICK w : w = Landed(q, o)  OBVIOUS
<1>24. buf' = w /\ obj' = obj
    <2>1. buf' = w  BY <1>2, <1>6, <1>14, <1>23 DEF TryWith
    <2>2. UNCHANGED server  BY <1>2, <1>6, <1>14, GetsReadOnly
    <2> QED BY <2>1, <2>2 DEF server
<1>25. GetData(req', call, w, obj.data)
    <2>1. /\ DOMAIN w \subseteq DOMAIN buf \cup Span(q)
          /\ \A x \in DOMAIN buf : x \notin Span(q) => x \in DOMAIN w /\ w[x] = buf[x]
          /\ ServerCode(q) = 206 /\ o.code = 206 /\ o.n = q.b_size =>
                \A x \in Span(q) : Right(x, w, obj.data)
        BY <1>2, <1>5, <1>14, <1>23, LandsInSpan
    <2>2. Fetched(t) => \A x \in Span(q) : Right(x, w, obj.data)
        BY <1>2, <1>4, <1>5, <1>14, <2>1, FetchedFromServer
    <2>3. ~Fetched(q)  BY <1>5 DEF Fetched
    <2> QED BY <1>2, <1>7, <1>12, <1>20, <2>1, <2>2, <2>3, OneReqWrites
<1>26. GetOne(req', call)
    <2>1. SUFFICES ASSUME call.pc = "one" PROVE GetOne(req', call)  BY DEF GetOne
    <2>2. r = 1 /\ req'[1] = t  BY <1>7, <2>1 DEF HandleInv, CallOk
    <2>3. t.st = "ended" /\ t.res = "0" => Fetched(t)
        BY <1>2, <1>3, <1>4, <1>5, <1>14, SingleGetFetched
    <2> QED BY <1>12, <2>2, <2>3 DEF GetOne
<1> QED BY <1>22, <1>24, <1>25, <1>26

LEMMA NotSetIsInt == NotSet \in Int
BY DEF NotSet

\* A thread takes up a request, or fails to: nothing has been fetched.
LEMMA TakenUpIsUnfetched ==
    ASSUME NEW q, NEW t, NEW c, NEW cached, GetPart(q, c, cached), q.st = "new",
           \/ \E h : t = [q EXCEPT !.st = "run", !.handle = h]
           \/ t = [q EXCEPT !.st = "ended"]
    PROVE  GetPart(t, c, cached) /\ Span(t) = Span(q) /\ ~Fetched(t)
<1>1. DOMAIN q = ReqFields /\ q.type = "GET" /\ Rewound(q, cached) /\ q.code = NotSet
    BY DEF GetPart
<1>2. /\ DOMAIN t = ReqFields /\ t.type = q.type /\ t.code = q.code /\ t.curl = q.curl
      /\ t.b_start = q.b_start /\ t.b_size = q.b_size /\ t.b_buf = q.b_buf
      /\ t.startpos = q.startpos /\ t.size = q.size /\ t.at = q.at
      /\ t.st \in {"run", "ended"}
    BY <1>1 DEF ReqFields
<1>3. Span(t) = Span(q)  BY <1>2 DEF Span
<1>4. Rewound(t, cached)  BY <1>1, <1>2 DEF Rewound
<1>5. ~Fetched(t)  BY <1>1, <1>2 DEF Fetched
<1>6. t.code \in Int
    BY <1>1, <1>2, NotSetIsInt
<1>7. t.st # "new"  BY <1>2
<1>8. Span(t) \subseteq Wanted(c)  BY <1>3 DEF GetPart
<1> QED BY <1>1, <1>2, <1>3, <1>4, <1>5, <1>6, <1>7, <1>8 DEF GetPart

LEMMA BatchStepsKeepGets ==
    ASSUME HandleInv, GetInv, NEW r \in DOMAIN req, Launch(r) \/ LazySetupFails(r)
    PROVE  GetInv'
<1>1. /\ call.pc = "multi" /\ req[r].st = "new" /\ UNCHANGED <<cfg, call, server, buf, out, odd>>
    BY DEF Launch, LazySetupFails, IsNext
<1>2. PICK q : q = req[r]  OBVIOUS
<1>3. PICK t : req' = [req EXCEPT ![r] = t] /\ \/ \E h : t = [q EXCEPT !.st = "run", !.handle = h]
                                               \/ t = [q EXCEPT !.st = "ended"]
    <2>1. CASE Launch(r)
        <3>1. PICK h : h = Taken  OBVIOUS
        <3>2. PICK t : t = [q EXCEPT !.st = "run", !.handle = h]  OBVIOUS
        <3>3. req' = [req EXCEPT ![r] = t]  BY <1>2, <2>1, <3>1, <3>2 DEF Launch
        <3> QED BY <3>2, <3>3
    <2>2. CASE LazySetupFails(r)
        BY <1>2, <2>2 DEF LazySetupFails
    <2> QED BY <2>1, <2>2
<1>4. GetExact'  BY <1>1 DEF GetExact
<1>5. obj' = obj  BY <1>1 DEF server
<1>6. SUFFICES ASSUME Downloading(call), GetClean
               PROVE  /\ GetReqs(req', call, cfg.newcache)
                      /\ GetData(req', call, buf, obj.data) /\ GetOne(req', call)
    BY <1>1, <1>4, <1>5 DEF GetInv, GetClean
<1>7. /\ GetReqs(req, call, cfg.newcache) /\ GetData(req, call, buf, obj.data)
    BY <1>6 DEF GetInv
<1>8. GetPart(q, call, cfg.newcache)  BY <1>2, <1>7 DEF GetReqs
<1>9. GetPart(t, call, cfg.newcache) /\ Span(t) = Span(q) /\ ~Fetched(t)
    BY <1>1, <1>2, <1>3, <1>8, TakenUpIsUnfetched
<1>10. GetReqs(req', call, cfg.newcache)  BY <1>2, <1>3, <1>7, <1>9, OneReqChanges
<1>11. ~Fetched(q)  BY <1>1, <1>2 DEF Fetched
<1>12. GetData(req', call, buf, obj.data)
    BY <1>2, <1>3, <1>7, <1>9, <1>11, OneReqWrites
<1>13. GetOne(req', call)  BY <1>1 DEF GetOne
<1> QED BY <1>10, <1>12, <1>13

\* Fields of a new request.
LEMMA NewReqFields ==
    ASSUME NEW type, NEW part, NEW start, NEW size, NEW at
    PROVE  LET t == NewReq(type, part, start, size, at)
           IN  /\ DOMAIN t = ReqFields /\ t.type = type /\ t.part = part
               /\ t.startpos = start /\ t.size = size /\ t.at = at
               /\ t.b_start = start /\ t.b_size = size /\ t.b_buf = at
               /\ t.st = "new" /\ t.code = NotSet /\ t.curl = "OK"
BY DEF NewReq, ReqFields

\* A failed GET whose buffer is where it was is asked for again from its start.
LEMMA RetriedGet ==
    ASSUME NEW q, NEW c, NEW cached, GetPart(q, c, cached), Failed(q), q.st = "ended",
           q.at = q.b_buf
    PROVE  LET t == RetryCallback(q)
           IN  GetPart(t, c, cached) /\ Span(t) = Span(q) /\ ~Fetched(t)
<1>1. q.type = "GET" /\ Rewound(q, cached) /\ Span(q) \subseteq Wanted(c)  BY DEF GetPart
<1>2. ParallelGetObjectRetryCallback(q) = NewReq("GET", q.part, q.b_start, q.b_size, q.b_buf)
    BY <1>1 DEF ParallelGetObjectRetryCallback, Rewound
<1>3. PICK n : n = NewReq("GET", q.part, q.b_start, q.b_size, q.b_buf)  OBVIOUS
<1>4. /\ DOMAIN n = ReqFields /\ n.type = "GET"
      /\ n.startpos = q.b_start /\ n.size = q.b_size /\ n.at = q.b_buf
      /\ n.b_start = q.b_start /\ n.b_size = q.b_size /\ n.b_buf = q.b_buf
      /\ n.st = "new" /\ n.code = NotSet
    BY <1>3, NewReqFields
<1>5. PICK t : t = RetryCallback(q)  OBVIOUS
<1>6. t = [n EXCEPT !.retry = q.retry + 1]
    BY <1>1, <1>2, <1>3, <1>5 DEF RetryCallback
<1>7. /\ DOMAIN t = ReqFields /\ t.type = "GET"
      /\ t.startpos = q.b_start /\ t.size = q.b_size /\ t.at = q.b_buf
      /\ t.b_start = q.b_start /\ t.b_size = q.b_size /\ t.b_buf = q.b_buf
      /\ t.st = "new" /\ t.code = NotSet
    BY <1>4, <1>6 DEF ReqFields
<1>8. Rewound(t, cached)  BY <1>1, <1>7 DEF Rewound
<1>9. Span(t) = Span(q)  BY <1>7 DEF Span
<1> QED BY <1>1, <1>5, <1>7, <1>8, <1>9 DEF GetPart, Fetched

LEMMA UnfailedCode ==
    ASSUME NEW q, q.code \in Int, ~Failed(q)
    PROVE  q.curl = "OK" /\ (q.code < 400 \/ q.code = 404)
BY DEF Failed

\* What has an answer and is not tried again has been fetched.
LEMMA AnsweredIsFetched ==
    ASSUME NEW i \in DOMAIN req, Read, req[i].type = "GET", ~Failed(req[i]),
           "404 ignored" \notin MultiReadDeviations(req), req[i].code \in Int
    PROVE  Fetched(req[i])
<1>1. PICK q : q = req[i]  OBVIOUS
<1>2. q.st = "ended" /\ q.code # NotSet  BY <1>1 DEF Read, BatchEnded
<1>3. q.curl = "OK" /\ (q.code < 400 \/ q.code = 404)
    BY <1>1, UnfailedCode
<1>4. q.code # 404  BY <1>1, <1>3 DEF MultiReadDeviations
<1> QED BY <1>1, <1>2, <1>3, <1>4 DEF Fetched, Good

\* MultiRead has found no deviation.
LEMMA ReadClean ==
    ASSUME odd' = odd \cup MultiReadDeviations(req), GetClean'
    PROVE  /\ GetClean /\ "404 ignored" \notin MultiReadDeviations(req)
           /\ \A i \in DOMAIN req : req[i].type = "GET" /\ Failed(req[i]) => req[i].at = req[i].b_buf
<1>1. GetClean  BY CleanBefore
<1>2. "404 ignored" \notin MultiReadDeviations(req) /\ "buffer not rewound" \notin MultiReadDeviations(req)
    BY DEF GetClean
<1>3. ASSUME NEW i \in DOMAIN req, req[i].type = "GET", Failed(req[i])
      PROVE  req[i].at = req[i].b_buf
    <2>1. SUFFICES ASSUME req[i].at # req[i].b_buf PROVE "buffer not rewound" \in MultiReadDeviations(req)
        BY <1>2
    <2> QED BY <1>3, <2>1 DEF MultiReadDeviations
<1> QED BY <1>1, <1>2, <1>3

LEMMA RetryKeepsGets ==
    ASSUME HandleInv, GetInv, MultiRetry
    PROVE  GetInv'
<1>1. /\ Read /\ call.pc = "multi" /\ UNCHANGED <<cfg, call, server, buf, out>>
      /\ req' = [i \in {j \in DOMAIN req : Failed(req[j])} |-> RetryCallback(req[i])]
      /\ odd' = odd \cup MultiReadDeviations(req)
    BY DEF MultiRetry, Read, BatchEnded
<1>2. GetExact'  BY <1>1 DEF GetExact
<1>3. obj' = obj  BY <1>1 DEF server
<1>4. SUFFICES ASSUME Downloading(call), GetClean'
               PROVE  /\ GetReqs(req', call, cfg.newcache)
                      /\ GetData(req', call, buf, obj.data) /\ GetOne(req', call)
    BY <1>1, <1>2, <1>3 DEF GetInv
<1>5. /\ GetClean /\ "404 ignored" \notin MultiReadDeviations(req)
      /\ \A i \in DOMAIN req : req[i].type = "GET" /\ Failed(req[i]) => req[i].at = req[i].b_buf
    BY <1>1, <1>4, ReadClean
<1>6. GetReqs(req, call, cfg.newcache) /\ GetData(req, call, buf, obj.data)
    BY <1>4, <1>5 DEF GetInv
<1>7. PICK rs : rs = req'  OBVIOUS
<1>8. DOMAIN rs = {j \in DOMAIN req : Failed(req[j])} /\ \A i \in DOMAIN rs : rs[i] = RetryCallback(req[i])
    BY <1>1, <1>7
<1>9. ASSUME NEW i \in DOMAIN req
      PROVE  GetPart(req[i], call, cfg.newcache) /\ req[i].type = "GET" /\ req[i].st = "ended"
    BY <1>1, <1>6 DEF GetReqs, GetPart, Read, BatchEnded
<1>10. ASSUME NEW i \in DOMAIN rs
       PROVE  GetPart(rs[i], call, cfg.newcache) /\ Span(rs[i]) = Span(req[i]) /\ ~Fetched(rs[i])
    <2>1. i \in DOMAIN req /\ Failed(req[i])  BY <1>8
    <2>2. PICK q : q = req[i]  OBVIOUS
    <2>3. GetPart(q, call, cfg.newcache) /\ Failed(q) /\ q.st = "ended" /\ q.at = q.b_buf
        BY <1>5, <1>9, <2>1, <2>2
    <2>4. rs[i] = RetryCallback(q)  BY <1>8, <2>2
    <2> QED BY <2>2, <2>3, <2>4, RetriedGet
<1>11. AllApart(rs) /\ Apart(rs, call.todo)
    BY <1>6, <1>8, <1>10 DEF GetReqs, AllApart, Apart
<1>12. GetReqs(rs, call, cfg.newcache)  BY <1>6, <1>10, <1>11 DEF GetReqs
<1>13. ASSUME NEW x \in Wanted(call), Awaited(x, req, call) PROVE Awaited(x, rs, call)
    <2>1. CASE \E k \in DOMAIN call.todo : x \in Span(call.todo[k])  BY <2>1 DEF Awaited
    <2>2. CASE \E i \in DOMAIN req : ~Fetched(req[i]) /\ x \in Span(req[i])
        <3>1. PICK i \in DOMAIN req : ~Fetched(req[i]) /\ x \in Span(req[i])  BY <2>2
        <3>2. Failed(req[i])
            <4>1. req[i].code \in Int  BY <1>9 DEF GetPart
            <4> QED BY <1>1, <1>5, <1>9, <3>1, <4>1, AnsweredIsFetched
        <3>3. i \in DOMAIN rs  BY <1>8, <3>2
        <3> QED BY <1>10, <3>1, <3>3 DEF Awaited
    <2> QED BY <1>13, <2>1, <2>2 DEF Awaited
<1>14. GetData(rs, call, buf, obj.data)  BY <1>6, <1>13 DEF GetData
<1> QED BY <1>1, <1>7, <1>12, <1>14 DEF GetOne

\* The next parts of a download.
LEMMA PartsSplit ==
    ASSUME NEW parts \in Seq(FreshGets), NEW n \in Nat, n <= Len(parts), NEW c, NEW cached,
           c.start \in Nat, c.size \in Nat, c.todo = SubSeq(parts, n + 1, Len(parts)),
           \A k \in DOMAIN parts : GetPart(parts[k], c, cached), AllApart(parts)
    PROVE  LET now == SubSeq(parts, 1, n)
           IN  /\ GetReqs(now, c, cached)
               /\ \A x : (\E k \in DOMAIN parts : x \in Span(parts[k])) => Awaited(x, now, c)
<1>1. PICK now : now = SubSeq(parts, 1, n)  OBVIOUS
<1>2. PICK rest : rest = SubSeq(parts, n + 1, Len(parts))  OBVIOUS
<1>3. PICK m \in Nat : m = Len(parts)  OBVIOUS
<1>4. /\ DOMAIN now = 1 .. n /\ DOMAIN rest = 1 .. m - n /\ DOMAIN parts = 1 .. m /\ n <= m
      /\ \A k \in 1 .. m - n : rest[k] = parts[n + k]
      /\ \A k \in 1 .. n : now[k] = parts[k]
    <2>1. /\ now \in Seq(FreshGets) /\ rest \in Seq(FreshGets) /\ Len(now) = n /\ Len(rest) = m - n
          /\ \A k \in 1 .. m - n : rest[k] = parts[n + k]
          /\ \A k \in 1 .. n : now[k] = parts[k]
        BY <1>1, <1>2, <1>3, SubSeqOfGets
    <2>2. DOMAIN now = 1 .. n /\ DOMAIN rest = 1 .. m - n  BY <2>1
    <2> QED BY <1>3, <2>1, <2>2
<1>5. \A k \in 1 .. m : GetPart(parts[k], c, cached) /\ parts[k].st = "new"
    <2>1. \A k \in 1 .. m : parts[k] \in FreshGets  BY <1>3
    <2>2. \A g \in FreshGets : g.st = "new"  BY DEF FreshGets
    <2> QED BY <1>4, <2>1, <2>2
<1>6. \A k \in 1 .. m - n : n + k \in 1 .. m  BY <1>4
<1>7. \A k \in DOMAIN now : GetPart(now[k], c, cached) /\ ~Fetched(now[k])
    BY <1>4, <1>5 DEF Fetched
<1>8. \A k \in DOMAIN rest : GetPart(rest[k], c, cached)  BY <1>4, <1>5, <1>6
<1>9. AllApart(now)  BY <1>4 DEF AllApart
<1>10. AllApart(rest)
    <2>1. SUFFICES ASSUME NEW i \in 1 .. m - n, NEW j \in 1 .. m - n, i # j
                   PROVE  Span(rest[i]) \cap Span(rest[j]) = {}
        BY <1>4 DEF AllApart
    <2>2. n + i \in DOMAIN parts /\ n + j \in DOMAIN parts /\ n + i # n + j  BY <1>4, <1>6, <2>1
    <2>3. Span(parts[n + i]) \cap Span(parts[n + j]) = {}  BY <2>2 DEF AllApart
    <2> QED BY <1>4, <2>3
<1>11. Apart(now, rest)
    <2>1. SUFFICES ASSUME NEW i \in 1 .. n, NEW j \in 1 .. m - n
                   PROVE  Span(now[i]) \cap Span(rest[j]) = {}
        BY <1>4 DEF Apart
    <2>2. i \in DOMAIN parts /\ n + j \in DOMAIN parts /\ i # n + j  BY <1>4, <1>6, <2>1
    <2>3. Span(parts[i]) \cap Span(parts[n + j]) = {}  BY <2>2 DEF AllApart
    <2> QED BY <1>4, <2>3
<1>12. ASSUME NEW x, NEW k \in DOMAIN parts, x \in Span(parts[k]) PROVE Awaited(x, now, c)
    <2>1. CASE k <= n
        <3>1. k \in DOMAIN now /\ now[k] = parts[k]  BY <1>4, <2>1
        <3> QED BY <1>7, <1>12, <3>1 DEF Awaited
    <2>2. CASE ~(k <= n)
        <3>1. k - n \in 1 .. m - n /\ n + (k - n) = k  BY <1>4, <2>2
        <3>2. k - n \in DOMAIN c.todo /\ c.todo[k - n] = parts[k]  BY <1>2, <1>4, <3>1
        <3> QED BY <1>12, <3>2 DEF Awaited
    <2> QED BY <2>1, <2>2
<1> QED BY <1>1, <1>2, <1>7, <1>8, <1>9, <1>10, <1>11, <1>12 DEF GetReqs

\* A download with nothing to come.
LEMMA AllFetched ==
    ASSUME NEW rs, NEW c, NEW b, NEW data, GetData(rs, c, b, data),
           \A i \in DOMAIN rs : Fetched(rs[i]), DOMAIN c.todo = {}
    PROVE  DOMAIN b = Wanted(c) /\ \A x \in DOMAIN b : b[x] = data[x]
<1>1. \A x \in Wanted(c) : Right(x, b, data)  BY DEF GetData, Awaited
<1> QED BY <1>1 DEF GetData, Right

\* An answer that is not a download's, or not 0, or is exact.
LEMMA AnswerIsExact ==
    ASSUME NEW c, NEW res, Answered(c, res), UNCHANGED <<obj, buf>>,
           c.op = "download" /\ res = "0" /\ GetClean' =>
               DOMAIN buf = Wanted(c) /\ \A x \in DOMAIN buf : buf[x] = obj.data[x]
    PROVE  GetInv'
<1>1. /\ out'.op = c.op /\ out'.res = res /\ out'.start = c.start /\ out'.size = c.size
      /\ call'.pc = "idle"
    BY DEF Answered, Idle
<1>2. GetExact'  BY <1>1 DEF GetExact, GetClean, Wanted
<1>3. ~Downloading(call)'  BY <1>1 DEF Downloading
<1> QED BY <1>2, <1>3 DEF GetInv

LEMMA NextPartsKeepGets ==
    ASSUME HandleInv, GetInv, DownLoadNext
    PROVE  GetInv'
<1>1. /\ Read /\ call.op = "download" /\ call.pc = "multi" /\ UNCHANGED <<cfg, obj, buf>>
      /\ odd' = odd \cup MultiReadDeviations(req)
    BY DEF DownLoadNext, Read, BatchEnded, server
<1>2. CASE Answered(call, "EIO")  BY <1>1, <1>2, AnswerIsExact
<1>3. ASSUME GetClean', ~(\E i \in DOMAIN req : Failed(req[i]))
      PROVE  /\ GetReqs(req, call, cfg.newcache) /\ GetData(req, call, buf, obj.data)
             /\ \A i \in DOMAIN req : Fetched(req[i])
    <2>1. GetClean /\ "404 ignored" \notin MultiReadDeviations(req)  BY <1>1, <1>3, ReadClean
    <2>2. GetReqs(req, call, cfg.newcache) /\ GetData(req, call, buf, obj.data)
        BY <1>1, <2>1 DEF GetInv, Downloading
    <2>3. ASSUME NEW i \in DOMAIN req PROVE Fetched(req[i])
        <3>1. GetPart(req[i], call, cfg.newcache) /\ req[i].st = "ended"
            BY <1>1, <2>2 DEF GetReqs, Read, BatchEnded
        <3>2. req[i].type = "GET" /\ req[i].code \in Int  BY <3>1 DEF GetPart
        <3> QED BY <1>1, <1>3, <2>1, <3>2, AnsweredIsFetched
    <2> QED BY <2>2, <2>3
<1>4. CASE ~(\E i \in DOMAIN req : Failed(req[i])) /\ call.todo = <<>> /\ Answered(call, "0")
    <2>1. DOMAIN call.todo = {}  BY <1>4
    <2>2. GetClean' => DOMAIN buf = Wanted(call) /\ \A x \in DOMAIN buf : buf[x] = obj.data[x]
        BY <1>3, <1>4, <2>1, AllFetched
    <2> QED BY <1>1, <1>4, <2>2, AnswerIsExact
<1>5. CASE /\ ~(\E i \in DOMAIN req : Failed(req[i])) /\ UNCHANGED out
           /\ LET n == Min2(MaxParallel, Len(call.todo))
              IN  Batch([call EXCEPT !.todo = SubSeq(@, n + 1, Len(@))], SubSeq(call.todo, 1, n))
    <2>1. PICK parts : parts = call.todo  OBVIOUS
    <2>2. parts \in Seq(FreshGets) /\ DOMAIN call = CallFields
        BY <1>1, <2>1 DEF HandleInv, CallOk
    <2>3. PICK n \in Nat : n = Min2(MaxParallel, Len(parts)) /\ n <= Len(parts)
        BY <2>2, MaxParallelTakes
    <2>4. PICK rest : rest = SubSeq(parts, n + 1, Len(parts))  OBVIOUS
    <2>5. PICK now : now = SubSeq(parts, 1, n)  OBVIOUS
    <2>6. PICK d : d = [call EXCEPT !.todo = rest]  OBVIOUS
    <2>7. PICK c : c = [d EXCEPT !.pc = "multi"]  OBVIOUS
    <2>8. call' = c /\ req' = now
        BY <1>5, <2>1, <2>3, <2>4, <2>5, <2>6, <2>7 DEF Batch
    <2>9. /\ c.start = call.start /\ c.size = call.size /\ c.todo = rest /\ c.pc = "multi"
        BY <2>2, <2>6, <2>7 DEF CallFields
    <2>10. GetExact'  BY <2>8, <2>9 DEF GetExact
    <2>11. SUFFICES ASSUME GetClean'
                    PROVE  GetReqs(now, c, cfg.newcache) /\ GetData(now, c, buf, obj.data) /\ GetOne(now, c)
        BY <1>1, <2>8, <2>10 DEF GetInv
    <2>12. /\ GetReqs(req, call, cfg.newcache) /\ GetData(req, call, buf, obj.data)
           /\ \A i \in DOMAIN req : Fetched(req[i])
        BY <1>3, <1>5, <2>11
    <2>13. Wanted(c) = Wanted(call)  BY <2>9 DEF Wanted
    <2>14. /\ c.start \in Nat /\ c.size \in Nat /\ AllApart(parts)
           /\ \A k \in DOMAIN parts : GetPart(parts[k], c, cfg.newcache)
        BY <2>1, <2>9, <2>12, <2>13 DEF GetReqs, GetPart
    <2>15. /\ GetReqs(now, c, cfg.newcache)
           /\ \A x : (\E k \in DOMAIN parts : x \in Span(parts[k])) => Awaited(x, now, c)
        BY <2>2, <2>3, <2>4, <2>5, <2>9, <2>14, PartsSplit
    <2>16. \A x \in Wanted(call) : Right(x, buf, obj.data) \/ Awaited(x, now, c)
        BY <2>1, <2>12, <2>15 DEF GetData, Awaited
    <2>17. GetData(now, c, buf, obj.data)
        BY <2>12, <2>13, <2>16 DEF GetData
    <2> QED BY <2>9, <2>15, <2>17 DEF GetOne
<1> QED BY <1>2, <1>4, <1>5 DEF DownLoadNext

-----------------------------------------------------------------------------
(* The chunks of a range.                                                  *)

\* The number of chunks of n units.
LEMMA ChunkCount ==
    ASSUME NEW n \in Nat, NEW chunk \in Nat \ {0}
    PROVE  LET m == (n + chunk - 1) \div chunk
           IN  m \in Nat /\ n <= m * chunk /\ m * chunk < n + chunk
<1>1. PICK a \in Nat : a = n + chunk - 1  OBVIOUS
<1>2. a \div chunk \in Nat /\ a % chunk \in 0 .. chunk - 1 /\ a = (a \div chunk) * chunk + (a % chunk)
    OBVIOUS
<1>3. PICK p \in Int : p = (a \div chunk) * chunk  BY <1>2
<1>4. p <= a /\ a < p + chunk  BY <1>2, <1>3
<1>5. n <= p /\ p < n + chunk  BY <1>1, <1>4
<1> QED BY <1>1, <1>2, <1>3, <1>5

LEMMA Multiples ==
    ASSUME NEW i \in Int, NEW j \in Int, NEW c \in Nat
    PROVE  /\ i <= j => i * c <= j * c
           /\ (i + 1) * c = i * c + c /\ (i - 1) * c = i * c - c
           /\ i * c \in Int /\ j * c \in Int
<1>1. i * c \in Int /\ j * c \in Int  OBVIOUS
<1>2. (i + 1) * c = i * c + c /\ (i - 1) * c = i * c - c  OBVIOUS
<1>3. ASSUME i <= j PROVE i * c <= j * c
    <2>1. j - i \in Nat  BY <1>3
    <2>2. (j - i) * c \in Nat  BY <2>1
    <2>3. j * c = i * c + (j - i) * c  OBVIOUS
    <2> QED BY <1>1, <2>2, <2>3
<1> QED BY <1>1, <1>2, <1>3

\* The chunks of a range follow each other, and none is empty.
LEMMA ChunksFollow ==
    ASSUME NEW n \in Nat, NEW chunk \in Nat \ {0}
    PROVE  LET cs == Chunks(n, chunk)
           IN  \E m \in Nat :
                 /\ DOMAIN cs = 1 .. m /\ n <= m * chunk
                 /\ \A k \in 1 .. m : /\ cs[k].start = (k - 1) * chunk /\ cs[k].start \in Nat
                                      /\ cs[k].size \in Nat \ {0} /\ cs[k].size <= chunk
                                      /\ cs[k].start + cs[k].size = Min2(k * chunk, n)
                                      /\ cs[k].start + cs[k].size \in Nat
                                      /\ k < m => k * chunk < n
<1>1. PICK m \in Nat : m = (n + chunk - 1) \div chunk /\ n <= m * chunk /\ m * chunk < n + chunk
    BY ChunkCount
<1>2. PICK cs : cs = Chunks(n, chunk)  OBVIOUS
<1>3. cs = [k \in 1 .. m |-> [start |-> (k - 1) * chunk, size |-> Min2(chunk, n - (k - 1) * chunk)]]
    BY <1>1, <1>2 DEF Chunks
<1>4. ASSUME NEW k \in 1 .. m
      PROVE  /\ cs[k].start = (k - 1) * chunk /\ cs[k].start \in Nat
             /\ cs[k].size \in Nat \ {0} /\ cs[k].size <= chunk
             /\ cs[k].start + cs[k].size = Min2(k * chunk, n)
             /\ cs[k].start + cs[k].size \in Nat
             /\ k < m => k * chunk < n
    <2>1. k \in Nat /\ k - 1 \in Nat /\ k <= m  BY <1>1
    <2>2. PICK p \in Nat : p = (k - 1) * chunk  BY <2>1
    <2>3. k * chunk = p + chunk
        <3>1. (k - 1) * chunk = k * chunk - chunk /\ k * chunk \in Int  BY <2>1, Multiples
        <3> QED BY <2>2, <3>1
    <2>4. k * chunk <= m * chunk /\ m * chunk \in Int  BY <2>1, Multiples
    <2>5. p < n  BY <1>1, <2>3, <2>4
    <2>6. k < m => k * chunk < n
        <3>1. SUFFICES ASSUME k + 1 <= m PROVE k * chunk < n  BY <2>1
        <3>2. (k + 1) * chunk <= m * chunk  BY <2>1, <3>1, Multiples
        <3>3. (k + 1) * chunk = k * chunk + chunk /\ k * chunk \in Int  BY <2>1, Multiples
        <3> QED BY <1>1, <2>4, <3>2, <3>3
    <2>7. cs[k].start = p /\ cs[k].size = Min2(chunk, n - p)  BY <1>3, <2>2
    <2>8. PICK z \in Nat \ {0} : z = Min2(chunk, n - p) /\ z <= chunk /\ p + z = Min2(p + chunk, n)
        BY <2>5 DEF Min2
    <2>9. p + z \in Nat  OBVIOUS
    <2> QED BY <2>2, <2>3, <2>6, <2>7, <2>8, <2>9
<1>5. DOMAIN cs = 1 .. m  BY <1>3
<1> QED BY <1>1, <1>2, <1>4, <1>5

\* Every unit of the range is in one of its chunks.
LEMMA ChunksCover ==
    ASSUME NEW n \in Nat, NEW chunk \in Nat \ {0}, NEW x \in 1 .. n
    PROVE  LET cs == Chunks(n, chunk)
           IN  \E k \in DOMAIN cs : cs[k].start + 1 <= x /\ x <= cs[k].start + cs[k].size
<1>1. PICK cs : cs = Chunks(n, chunk)  OBVIOUS
<1>2. PICK m \in Nat : /\ DOMAIN cs = 1 .. m /\ n <= m * chunk
                       /\ \A k \in 1 .. m : /\ cs[k].start = (k - 1) * chunk
                                            /\ cs[k].start + cs[k].size = Min2(k * chunk, n)
    BY <1>1, ChunksFollow
<1>3. PICK j \in Nat, e \in Nat : e < chunk /\ x - 1 = j * chunk + e
    <2>1. x - 1 \in Nat  OBVIOUS
    <2>2. PICK a \in Nat : a = x - 1  BY <2>1
    <2>3. a \div chunk \in Nat /\ a % chunk \in 0 .. chunk - 1 /\ a = (a \div chunk) * chunk + (a % chunk)
        OBVIOUS
    <2>4. a % chunk \in Nat /\ a % chunk < chunk  BY <2>3
    <2>5. PICK d \in Nat, e \in Nat : d = a \div chunk /\ e = a % chunk /\ e < chunk  BY <2>3, <2>4
    <2>6. x - 1 = d * chunk + e  BY <2>2, <2>3, <2>5
    <2> QED BY <2>5, <2>6
<1>4. j * chunk \in Int /\ m * chunk \in Int /\ (j + 1) * chunk = j * chunk + chunk  BY Multiples
<1>5. j * chunk <= x - 1 /\ x <= (j + 1) * chunk  BY <1>3, <1>4
<1>6. j + 1 <= m
    <2>1. SUFFICES ASSUME m <= j PROVE FALSE  OBVIOUS
    <2>2. PICK p \in Int, q \in Int : p = j * chunk /\ q = m * chunk  BY <1>4
    <2>3. q <= p  BY <2>1, <2>2, Multiples
    <2>4. p <= x - 1 /\ n <= q  BY <1>2, <1>5, <2>2
    <2>5. x <= n /\ x \in Int  OBVIOUS
    <2> QED BY <2>2, <2>3, <2>4, <2>5
<1>7. j + 1 \in 1 .. m /\ (j + 1) - 1 = j  BY <1>6
<1>8. cs[j + 1].start = j * chunk /\ cs[j + 1].start + cs[j + 1].size = Min2((j + 1) * chunk, n)
    BY <1>2, <1>7
<1>9. cs[j + 1].start + 1 <= x  BY <1>4, <1>5, <1>8
<1>10. x <= cs[j + 1].start + cs[j + 1].size  BY <1>4, <1>5, <1>8 DEF Min2
<1> QED BY <1>1, <1>2, <1>7, <1>9, <1>10

LEMMA ChunksApart ==
    ASSUME NEW n \in Nat, NEW chunk \in Nat \ {0},
           NEW i \in DOMAIN Chunks(n, chunk), NEW j \in DOMAIN Chunks(n, chunk), i < j
    PROVE  LET cs == Chunks(n, chunk)
           IN  cs[i].start + cs[i].size <= cs[j].start
<1>1. PICK cs : cs = Chunks(n, chunk)  OBVIOUS
<1>2. PICK m \in Nat : /\ DOMAIN cs = 1 .. m
                       /\ \A k \in 1 .. m : /\ cs[k].start = (k - 1) * chunk
                                            /\ cs[k].start + cs[k].size = Min2(k * chunk, n)
    BY <1>1, ChunksFollow
<1>3. i \in Int /\ j \in Int /\ i \in 1 .. m /\ j \in 1 .. m  BY <1>1, <1>2
<1>4. i * chunk <= (j - 1) * chunk /\ i * chunk \in Int /\ (j - 1) * chunk \in Int
    <2>1. i <= j - 1 /\ j - 1 \in Int  BY <1>3
    <2> QED BY <1>3, <2>1, Multiples
<1>5. cs[i].start + cs[i].size <= i * chunk
    <2>1. Min2(i * chunk, n) <= i * chunk  BY <1>4 DEF Min2
    <2> QED BY <1>2, <1>3, <2>1
<1>6. cs[j].start = (j - 1) * chunk  BY <1>2, <1>3
<1>7. cs[i].start + cs[i].size \in Int
    <2>1. Min2(i * chunk, n) \in Int  BY <1>4 DEF Min2
    <2> QED BY <1>2, <1>3, <2>1
<1> QED BY <1>1, <1>4, <1>5, <1>6, <1>7

\* The parts of a download are for different units and for all of them.
LEMMA PartsOfDownload ==
    ASSUME NEW start \in Nat, NEW size \in Nat, NEW c, c.start = start, c.size = size, NEW cached
    PROVE  LET P == ParallelGetParts(start, size)
           IN  /\ \A k \in DOMAIN P : GetPart(P[k], c, cached)
               /\ AllApart(P)
               /\ \A x \in Wanted(c) : \E k \in DOMAIN P : x \in Span(P[k])
<1>1. PICK cs : cs = Chunks(size, MultipartSize)  OBVIOUS
<1>2. MultipartSize \in Nat \ {0}  BY RequestAssumption
<1>3. PICK m \in Nat : /\ DOMAIN cs = 1 .. m
                       /\ \A k \in 1 .. m : /\ cs[k].start \in Nat /\ cs[k].size \in Nat \ {0}
                                            /\ cs[k].start + cs[k].size = Min2(k * MultipartSize, size)
    BY <1>1, <1>2, ChunksFollow
<1>4. PICK P : P = ParallelGetParts(start, size)  OBVIOUS
<1>5. P = [k \in 1 .. m |-> PreGetObjectRequest(k, start + cs[k].start, cs[k].size)]
    BY <1>1, <1>3, <1>4 DEF ParallelGetParts
<1>6. DOMAIN P = 1 .. m  BY <1>5
<1>7. ASSUME NEW k \in 1 .. m
      PROVE  /\ cs[k].start + cs[k].size <= size
             /\ GetPart(P[k], c, cached)
             /\ Span(P[k]) = start + cs[k].start + 1 .. start + cs[k].start + cs[k].size
    <2>1. cs[k].start \in Nat /\ cs[k].size \in Nat \ {0}  BY <1>3
    <2>2. PICK a \in Nat, n \in Nat \ {0} : a = cs[k].start /\ n = cs[k].size  BY <2>1
    <2>3. a + n <= size
        <3>1. k * MultipartSize \in Int  BY <1>2, Multiples
        <3>2. Min2(k * MultipartSize, size) <= size  BY <3>1 DEF Min2
        <3> QED BY <1>3, <2>2, <3>2
    <2>4. PICK q : q = P[k]  OBVIOUS
    <2>5. q = NewReq("GET", k, start + a, n, start + a)
        BY <1>5, <2>2, <2>4 DEF PreGetObjectRequest
    <2>6. /\ DOMAIN q = ReqFields /\ q.type = "GET"
          /\ q.startpos = start + a /\ q.size = n /\ q.at = start + a
          /\ q.b_start = start + a /\ q.b_size = n /\ q.b_buf = start + a
          /\ q.st = "new" /\ q.code = NotSet
        BY <2>5, NewReqFields
    <2>7. Rewound(q, cached)  BY <2>6 DEF Rewound
    <2>8. Span(q) = start + a + 1 .. start + a + n  BY <2>6 DEF Span
    <2>9. Span(q) \subseteq Wanted(c)  BY <2>3, <2>8 DEF Wanted
    <2> QED BY <2>2, <2>3, <2>4, <2>6, <2>7, <2>8, <2>9 DEF GetPart
<1>8. AllApart(P)
    <2>1. ASSUME NEW i \in 1 .. m, NEW j \in 1 .. m, i < j PROVE Span(P[i]) \cap Span(P[j]) = {}
        <3>1. cs[i].start + cs[i].size <= cs[j].start
            BY <1>1, <1>2, <1>3, <2>1, ChunksApart
        <3>2. cs[i].start \in Nat /\ cs[i].size \in Nat /\ cs[j].start \in Nat /\ cs[j].size \in Nat  BY <1>3
        <3>3. PICK a \in Nat, n \in Nat, b \in Nat, l \in Nat :
                 a = cs[i].start /\ n = cs[i].size /\ b = cs[j].start /\ l = cs[j].size
            BY <3>2
        <3>4. Span(P[i]) = start + a + 1 .. start + a + n /\ Span(P[j]) = start + b + 1 .. start + b + l
            BY <1>7, <3>3
        <3>5. a + n <= b  BY <3>1, <3>3
        <3>6. ASSUME NEW x \in start + a + 1 .. start + a + n, x \in start + b + 1 .. start + b + l
              PROVE  FALSE
            BY <3>5, <3>6
        <3> QED BY <3>4, <3>6
    <2>2. \A i, j \in 1 .. m : i # j => i < j \/ j < i  OBVIOUS
    <2> QED BY <1>6, <2>1, <2>2 DEF AllApart
<1>9. ASSUME NEW x \in Wanted(c) PROVE \E k \in DOMAIN P : x \in Span(P[k])
    <2>1. x \in start + 1 .. start + size  BY DEF Wanted
    <2>2. PICK y \in 1 .. size : x = start + y
        <3>1. x - start \in 1 .. size /\ x = start + (x - start)  BY <2>1
        <3> QED BY <3>1
    <2>3. PICK k \in DOMAIN cs : cs[k].start + 1 <= y /\ y <= cs[k].start + cs[k].size
        BY <1>1, <1>2, <2>2, ChunksCover
    <2>4. k \in 1 .. m /\ cs[k].start \in Nat /\ cs[k].size \in Nat  BY <1>3, <2>3
    <2>5. x \in start + cs[k].start + 1 .. start + cs[k].start + cs[k].size
        BY <2>2, <2>3, <2>4
    <2> QED BY <1>6, <1>7, <2>4, <2>5
<1> QED BY <1>4, <1>6, <1>7, <1>8, <1>9

-----------------------------------------------------------------------------
(* The calls that start a download, and the others.                        *)
LEMMA DownLoadKeepsGets ==
    ASSUME HandleInv, NEW s \in Nat, NEW n \in Nat \ {0}, DownLoad(s, n)
    PROVE  GetInv'
<1>1. PICK parts : parts = ParallelGetParts(s, n) /\ parts \in Seq(FreshGets)
    BY GetPartsAreFresh
<1>2. PICK m \in Nat : m = Min2(MaxParallel, Len(parts)) /\ m <= Len(parts)
    BY <1>1, MaxParallelTakes
<1>3. PICK now : now = SubSeq(parts, 1, m) /\ Len(now) = m
    BY <1>1, <1>2, SubSeqOfGets
<1>4. PICK rest : rest = SubSeq(parts, m + 1, Len(parts))  OBVIOUS
<1>5. PICK a : a = Asked("download", s, n, <<>>) /\ DOMAIN a = CallFields
               /\ a.op = "download" /\ a.start = s /\ a.size = n
    <2>1. Asked("download", s, n, <<>>).size = n  BY DEF Asked, Idle
    <2> QED BY <2>1, AskedShape
<1>6. PICK c : c = [a EXCEPT !.todo = rest]  OBVIOUS
<1>7. DOMAIN c = CallFields /\ c.op = "download" /\ c.start = s /\ c.size = n /\ c.todo = rest
    BY <1>5, <1>6 DEF CallFields
<1>8. /\ Called("download")
      /\ \/ Single([c EXCEPT !.todo = <<>>], PreGetObjectRequest(0, s, n))
         \/ Batch(c, now)
    BY <1>1, <1>2, <1>3, <1>4, <1>5, <1>6 DEF DownLoad
<1>9. buf' = <<>> /\ UNCHANGED <<cfg, obj>>  BY <1>8 DEF Called, server
<1>10. PICK b : b = buf' /\ DOMAIN b = {}  BY <1>9
<1>11. CASE Single([c EXCEPT !.todo = <<>>], PreGetObjectRequest(0, s, n))
    <2>1. PICK d : d = [c EXCEPT !.todo = <<>>]  OBVIOUS
    <2>2. PICK e : e = [d EXCEPT !.pc = "one"]  OBVIOUS
    <2>3. PICK p : p = NewReq("GET", 0, s, n, s)  OBVIOUS
    <2>4. PICK h : h = Taken  OBVIOUS
    <2>5. PICK q : q = [p EXCEPT !.st = "run", !.handle = h]  OBVIOUS
    <2>6. call' = e /\ req' = <<q>>
        BY <1>11, <2>1, <2>2, <2>3, <2>4, <2>5 DEF Single, PreGetObjectRequest
    <2>7. e.start = s /\ e.size = n /\ e.todo = <<>> /\ e.pc = "one"
        BY <1>7, <2>1, <2>2 DEF CallFields
    <2>8. /\ DOMAIN q = ReqFields /\ q.type = "GET" /\ q.st = "run"
          /\ q.startpos = s /\ q.size = n /\ q.at = s
          /\ q.b_start = s /\ q.b_size = n /\ q.b_buf = s
        BY <2>3, <2>5, NewReqFields DEF ReqFields
    <2>9. Span(q) = Wanted(e)  BY <2>7, <2>8 DEF Span, Wanted
    <2>10. Rewound(q, cfg.newcache)  BY <2>8 DEF Rewound
    <2>11. GetPart(q, e, cfg.newcache)  BY <2>8, <2>9, <2>10 DEF GetPart
    <2>12. PICK rs : rs = <<q>>  OBVIOUS
    <2>13. DOMAIN rs = {1} /\ rs[1] = q  BY <2>12
    <2>14. DOMAIN e.todo = {}  BY <2>7
    <2>15. GetReqs(rs, e, cfg.newcache)
        BY <2>7, <2>11, <2>13, <2>14 DEF GetReqs, AllApart, Apart
    <2>16. GetData(rs, e, b, obj.data)
        BY <1>10, <2>8, <2>9, <2>13 DEF GetData, Awaited, Fetched
    <2>17. GetOne(rs, e)  BY <2>8, <2>13, <2>14 DEF GetOne
    <2>18. GetExact'  BY <2>6, <2>7 DEF GetExact
    <2> QED BY <1>9, <1>10, <2>6, <2>12, <2>15, <2>16, <2>17, <2>18 DEF GetInv
<1>12. CASE Batch(c, now)
    <2>1. PICK e : e = [c EXCEPT !.pc = "multi"]  OBVIOUS
    <2>2. call' = e /\ req' = now  BY <1>12, <2>1 DEF Batch
    <2>3. e.start = s /\ e.size = n /\ e.todo = rest /\ e.pc = "multi"
        BY <1>7, <2>1 DEF CallFields
    <2>4. /\ \A k \in DOMAIN parts : GetPart(parts[k], e, cfg.newcache)
          /\ AllApart(parts)
          /\ \A x \in Wanted(e) : \E k \in DOMAIN parts : x \in Span(parts[k])
        BY <1>1, <2>3, PartsOfDownload
    <2>5. /\ GetReqs(now, e, cfg.newcache)
          /\ \A x : (\E k \in DOMAIN parts : x \in Span(parts[k])) => Awaited(x, now, e)
        BY <1>1, <1>2, <1>3, <1>4, <2>3, <2>4, PartsSplit
    <2>6. GetData(now, e, b, obj.data)
        BY <1>10, <2>4, <2>5 DEF GetData
    <2>7. GetOne(now, e)  BY <2>3 DEF GetOne
    <2>8. GetExact'  BY <2>2, <2>3 DEF GetExact
    <2> QED BY <1>9, <1>10, <2>2, <2>5, <2>6, <2>7, <2>8 DEF GetInv
<1> QED BY <1>8, <1>11, <1>12

\* A call that is no download.
LEMMA OtherKeepsGets ==
    ASSUME NEW c, NEW q, Single(c, q), DOMAIN c = CallFields, c.op # "download"
    PROVE  GetInv'
<1>1. call'.pc = "one" /\ call'.op = c.op
    BY DEF Single, CallFields
<1> QED BY <1>1 DEF GetInv, GetExact, Downloading

LEMMA CallsAreSingle ==
    ASSUME NEW n \in Nat,
           \/ UpLoad(n) \/ (\E m \in 1 .. n : Mix(m, n)) \/ Copy
           \/ DeleteRequest \/ ListBucketRequest \/ PutHeadRequest
    PROVE  \E c, q : Single(c, q) /\ DOMAIN c = CallFields /\ c.op \notin {"head", "download"}
<1>1. CASE DeleteRequest \/ ListBucketRequest \/ PutHeadRequest
    <2>1. PICK op \in {"delete", "list", "puthead"}, type \in {"DELETE", "LISTBUCKET", "PUTHEAD"} :
             Single(Asked(op, 0, 0, <<>>), Plain(type))
        BY <1>1 DEF DeleteRequest, ListBucketRequest, PutHeadRequest
    <2> QED BY <2>1, AskedShape
<1>2. CASE UpLoad(n) \/ (\E m \in 1 .. n : Mix(m, n)) \/ Copy
    <2>1. PICK op, len, want :
             /\ op \in {"upload", "mix", "copy"}
             /\ \/ PutRequest(Asked(op, 0, len, want))
                \/ \E parts : PreMultipartPostRequest(Asked(op, 0, len, want), parts)
        <3>1. CASE UpLoad(n)
            BY <3>1 DEF UpLoad
        <3>2. CASE \E m \in 1 .. n : Mix(m, n)
            BY <3>2 DEF Mix
        <3>3. CASE Copy
            BY <3>3 DEF Copy
        <3> QED BY <1>2, <3>1, <3>2, <3>3
    <2>2. PICK c : c = Asked(op, 0, len, want) /\ DOMAIN c = CallFields /\ c.op = op
        BY AskedShape
    <2>3. CASE PutRequest(c)
        BY <2>1, <2>2, <2>3 DEF PutRequest
    <2>4. CASE \E parts : PreMultipartPostRequest(c, parts)
        <3>1. PICK parts : Single([c EXCEPT !.todo = parts], Plain("PREMULTIPOST"))
            BY <2>4 DEF PreMultipartPostRequest
        <3>2. PICK d : d = [c EXCEPT !.todo = parts]
            OBVIOUS
        <3>3. DOMAIN d = CallFields /\ d.op \notin {"head", "download"}
            BY <2>1, <2>2, <3>2 DEF CallFields
        <3> QED BY <3>1, <3>2, <3>3
    <2> QED BY <2>1, <2>2, <2>3, <2>4
<1> QED BY <1>1, <1>2

LEMMA HeadIsSingle ==
    ASSUME HeadRequest
    PROVE  \E c, q : Single(c, q) /\ DOMAIN c = CallFields /\ c.op = "head"
<1>1. Single(Asked("head", 0, 0, <<>>), Plain("HEAD"))  BY DEF HeadRequest
<1> QED BY <1>1, AskedShape

LEMMA RestKeepsGets ==
    ASSUME HandleInv, GetInv,
           \/ HeadNextKey \/ SingleDone \/ PreMultipartDone \/ MultipartDone
           \/ MultiReadSpins \/ AbortUpload \/ CompleteUpload(Etags)
    PROVE  GetInv'
<1>1. DOMAIN call = CallFields  BY DEF HandleInv, CallOk
<1>2. ASSUME NEW types, OneEnded(types), "GET" \notin types, odd \subseteq odd', GetClean'
      PROVE  call.op # "download"
    <2>1. GetClean  BY <1>2 DEF GetClean
    <2>2. SUFFICES ASSUME call.op = "download" PROVE FALSE  OBVIOUS
    <2>3. call.pc = "one" /\ req[1].type \in types /\ DOMAIN req = {1}
        BY <1>2 DEF OneEnded, HandleInv, CallOk
    <2>4. GetPart(req[1], call, cfg.newcache)
        BY <2>1, <2>2, <2>3 DEF GetInv, Downloading, GetReqs
    <2> QED BY <1>2, <2>3, <2>4 DEF GetPart
<1>3. ASSUME ~GetClean' PROVE GetInv'
    BY <1>3 DEF GetInv, GetExact, GetClean
<1>4. CASE HeadNextKey
    <2>1. OneEnded({"HEAD"}) /\ odd' = odd /\ call' = [call EXCEPT !.key = @ + 1]
        BY <1>4 DEF HeadNextKey
    <2>2. call'.op = call.op /\ call'.pc = "one"  BY <1>1, <2>1 DEF OneEnded, CallFields
    <2>3. GetClean' => call.op # "download"  BY <1>2, <2>1
    <2> QED BY <1>3, <2>2, <2>3 DEF GetInv, GetExact, Downloading
<1>5. CASE SingleDone
    <2>1. /\ call.pc = "one" /\ req[1].st = "ended" /\ UNCHANGED <<obj, buf, odd>>
          /\ Answered(call, MapPutErrorResponse(req[1])) /\ DOMAIN req = {1}
        BY <1>5 DEF SingleDone, OneEnded, server, HandleInv, CallOk
    <2>2. PICK res : res = MapPutErrorResponse(req[1])  OBVIOUS
    <2>3. ASSUME call.op = "download", res = "0", GetClean'
          PROVE  DOMAIN buf = Wanted(call) /\ \A x \in DOMAIN buf : buf[x] = obj.data[x]
        <3>1. GetReqs(req, call, cfg.newcache) /\ GetData(req, call, buf, obj.data) /\ GetOne(req, call)
            BY <2>1, <2>3 DEF GetInv, GetClean, Downloading
        <3>2. req[1].type = "GET"  BY <2>1, <3>1 DEF GetReqs, GetPart
        <3>3. req[1].res = "0"  BY <2>2, <2>3, <3>2 DEF MapPutErrorResponse
        <3>4. DOMAIN call.todo = {} /\ Fetched(req[1])  BY <2>1, <3>1, <3>3 DEF GetOne
        <3> QED BY <2>1, <3>1, <3>4, AllFetched
    <2> QED BY <2>1, <2>2, <2>3, AnswerIsExact
<1>6. CASE PreMultipartDone
    <2>1. OneEnded({"PREMULTIPOST"}) /\ UNCHANGED <<odd, obj, buf>>
        BY <1>6 DEF PreMultipartDone, server
    <2>2. GetClean' => call.op # "download"  BY <1>2, <2>1
    <2>3. CASE Answered(call, req[1].res)  BY <2>1, <2>2, <2>3, AnswerIsExact
    <2>4. CASE Batch([call EXCEPT !.todo = <<>>], call.todo)
        <3>1. call' = [[call EXCEPT !.todo = <<>>] EXCEPT !.pc = "multi"]  BY <2>4 DEF Batch
        <3>2. call'.op = call.op /\ call'.pc = "multi"  BY <1>1, <3>1 DEF CallFields
        <3> QED BY <1>3, <2>2, <3>2 DEF GetInv, GetExact, Downloading
    <2> QED BY <1>6, <2>3, <2>4 DEF PreMultipartDone
<1>7. CASE MultipartDone
    <2>1. /\ OneEnded({"COMPLETEMULTIPOST", "ABORTMULTIUPLOAD"}) /\ UNCHANGED <<obj, buf>> /\ odd \subseteq odd'
        BY <1>7 DEF MultipartDone, server
    <2>2. GetClean' => call.op # "download"  BY <1>2, <2>1
    <2>3. PICK res : Answered(call, res)  BY <1>7 DEF MultipartDone
    <2> QED BY <2>1, <2>2, <2>3, AnswerIsExact
<1>8. CASE MultiReadSpins
    <2>1. call' = [call EXCEPT !.pc = "spin"]  BY <1>8 DEF MultiReadSpins
    <2>2. call'.pc = "spin"  BY <1>1, <2>1 DEF CallFields
    <2> QED BY <2>2 DEF GetInv, GetExact, Downloading
<1>9. CASE AbortUpload \/ CompleteUpload(Etags)
    <2>1. call.op # "download"  BY <1>9 DEF AbortUpload, CompleteUpload
    <2>2. \/ Single([call EXCEPT !.res = "EIO"], Plain("ABORTMULTIUPLOAD"))
          \/ Single(call, Plain("COMPLETEMULTIPOST"))
          \/ Answered(call, "EIO") /\ UNCHANGED <<obj, buf>>
        BY <1>9 DEF AbortUpload, CompleteUpload, server
    <2>3. PICK c : c = [call EXCEPT !.res = "EIO"]  OBVIOUS
    <2>4. DOMAIN c = CallFields /\ c.op = call.op  BY <1>1, <2>3 DEF CallFields
    <2>5. CASE Answered(call, "EIO") /\ UNCHANGED <<obj, buf>>  BY <2>1, <2>5, AnswerIsExact
    <2> QED BY <1>1, <2>1, <2>2, <2>3, <2>4, <2>5, OtherKeepsGets
<1> QED BY <1>4, <1>5, <1>6, <1>7, <1>8, <1>9

LEMMA GetsInit == Init => GetInv
<1> SUFFICES ASSUME Init PROVE GetInv  OBVIOUS
<1>1. call = Idle /\ out = NoOut  BY DEF Init
<1> QED BY <1>1 DEF GetInv, GetExact, Downloading, Idle, NoOut

LEMMA GetsStep == RequestInv /\ GetInv /\ [Next]_vars => GetInv'
<1> SUFFICES ASSUME HandleInv, GetInv, [Next]_vars PROVE GetInv'
    BY DEF RequestInv
<1>1. CASE \/ \E n \in Sizes : UpLoad(n) \/ \E m \in 1 .. n : Mix(m, n)
           \/ Copy \/ HeadRequest \/ DeleteRequest \/ ListBucketRequest \/ PutHeadRequest
    <2>1. \E c, q : Single(c, q) /\ DOMAIN c = CallFields /\ c.op # "download"
        <3>1. CASE \E n \in Sizes : UpLoad(n) \/ \E m \in 1 .. n : Mix(m, n)
            <4>1. PICK n \in Sizes : UpLoad(n) \/ \E m \in 1 .. n : Mix(m, n)
                BY <3>1, Zenon
            <4>2. n \in Nat
                BY RequestAssumption
            <4>3. \E c, q : Single(c, q) /\ DOMAIN c = CallFields /\ c.op \notin {"head", "download"}
                BY <4>1, <4>2, CallsAreSingle, Zenon
            <4> QED BY <4>3
        <3>2. CASE Copy \/ DeleteRequest \/ ListBucketRequest \/ PutHeadRequest
            <4>1. \E c, q : Single(c, q) /\ DOMAIN c = CallFields /\ c.op \notin {"head", "download"}
                BY <3>2, 0 \in Nat, CallsAreSingle, Zenon
            <4> QED BY <4>1
        <3>3. CASE HeadRequest
            <4>1. \E c, q : Single(c, q) /\ DOMAIN c = CallFields /\ c.op = "head"
                BY <3>3, HeadIsSingle
            <4> QED BY <4>1
        <3> QED BY <1>1, <3>1, <3>2, <3>3
    <2> QED BY <2>1, OtherKeepsGets
<1>2. CASE \E s \in 0 .. ObjectSize, n \in Sizes : DownLoad(s, n)
    <2>1. PICK s \in 0 .. ObjectSize, n \in Sizes : DownLoad(s, n)
        BY <1>2, Zenon
    <2>2. n \in Nat \ {0} /\ s \in Nat
        BY RequestAssumption
    <2> QED BY <2>1, <2>2, DownLoadKeepsGets
<1>3. CASE \E op \in Ops : SetupFails(op)
    <2>1. PICK op \in Ops : SetupFails(op)
        BY <1>3, Zenon
    <2>2. call.pc = "idle" /\ call' = call /\ out' = [NoOut EXCEPT !.op = op, !.res = "EIO"]
        BY <2>1 DEF SetupFails
    <2>3. out'.res = "EIO"
        BY <2>2 DEF NoOut
    <2> QED BY <2>2, <2>3 DEF GetInv, GetExact, Downloading
<1>4. CASE \E r \in DOMAIN req : Try(r) \/ Launch(r) \/ LazySetupFails(r)
    <2>1. PICK r \in DOMAIN req : Try(r) \/ Launch(r) \/ LazySetupFails(r)
        BY <1>4, Zenon
    <2> QED BY <2>1, TryKeepsGets, BatchStepsKeepGets
<1>5. CASE \/ HeadNextKey \/ SingleDone \/ PreMultipartDone \/ MultipartDone
           \/ MultiReadSpins \/ MultiRetry \/ DownLoadNext \/ AbortUpload
           \/ CompleteUpload(Etags)
    BY <1>5, RestKeepsGets, RetryKeepsGets, NextPartsKeepGets
<1>6. CASE UNCHANGED vars
    <2>1. UNCHANGED <<cfg, call, req, buf, obj, out, odd>>
        BY <1>6 DEF vars, server
    <2>2. GetExact'  BY <2>1 DEF GetInv, GetExact
    <2>3. GetClean' <=> GetClean  BY <2>1 DEF GetClean
    <2> QED BY <2>1, <2>2, <2>3 DEF GetInv
<1> QED BY <1>1, <1>2, <1>3, <1>4, <1>5, <1>6, Zenon DEF Next, Steps

-----------------------------------------------------------------------------
(* An upload.                                                              *)
Ups == {"upload", "mix", "copy"}
PartTypes == {"UPLOADMULTIPOST", "COPYMULTIPOST"}
EndTypes == {"COMPLETEMULTIPOST", "ABORTMULTIUPLOAD"}
UpSingles == {"PUT", "PREMULTIPOST"} \cup EndTypes

\* The requests rs that a call c makes.
TypesOk(rs, c) ==
    /\ c.pc = "idle" => c.op = "none"
    /\ c.pc = "one" => (c.op \in Ups <=> rs[1].type \in UpSingles)
    /\ c.pc = "one" => rs[1].type \notin PartTypes
    /\ c.pc \in {"multi", "spin"} => c.op \in Ups \cup {"download"}
    /\ c.pc \in {"multi", "spin"} /\ c.op = "download" => \A i \in DOMAIN rs : rs[i].type = "GET"
    /\ c.pc \in {"multi", "spin"} /\ c.op \in Ups => \A i \in DOMAIN rs : rs[i].type \in PartTypes
    /\ c.op \in Ups => \A k \in DOMAIN c.todo : c.todo[k].type \in PartTypes

\* What leaves a multipart upload open.
OpenMarks == {"id lost", "part missing", "end failed", "answer not read"}

Succeeded(q) == q.st = "ended" /\ q.res = "0"

\* The calls that may have one open.
MayBeOpen(rs, c) ==
    /\ c.op \in Ups
    /\ c.pc = "one" => rs[1].type # "PUT"
    /\ c.pc = "one" /\ rs[1].type = "PREMULTIPOST" => Succeeded(rs[1])
    /\ c.pc = "one" /\ rs[1].type \in EndTypes => ~Succeeded(rs[1])

OpenInv ==
    /\ TypesOk(req, call)
    /\ DOMAIN mpu = {"open", "parts"}
    /\ odd \cap OpenMarks = {} => (mpu.open => MayBeOpen(req, call))

-----------------------------------------------------------------------------
\* An answer of success: the server has done what it was asked, or its document is an
\* error.
LEMMA SuccessKinds ==
    ASSUME NEW q, NEW o \in Outcomes(q), PerformResult(q, o) = "0"
    PROVE  \/ o.applied /\ ServerCode(q) < 300 /\ ~o.errbody
           \/ ~o.applied /\ o.errbody /\ q.type \in {"PUT", "PUTHEAD", "COPYMULTIPOST", "COMPLETEMULTIPOST"}
<1>1. o.curl = "OK" /\ HttpResult(q, o.code) = "0"
    BY DEF PerformResult, CurlResult
<1>2. o.code \in 200 .. 299
    BY <1>1 DEF HttpResult
<1>3. CASE o = Natural(q)
    <2>1. o.code = ServerCode(q) /\ o.applied = (ServerCode(q) < 300) /\ o.errbody = FALSE
        BY <1>3 DEF Natural
    <2>2. ServerCode(q) < 300
        BY <1>2, <2>1
    <2> QED BY <2>1, <2>2
<1>4. CASE o \in HttpFaults(q)
    <2>1. o.code \in {403, 500}
        BY <1>4 DEF HttpFaults
    <2> QED BY <1>2, <2>1
<1>5. CASE o \in ErrorBodies(q)
    <2>1. /\ o = [code |-> 200, curl |-> "OK", applied |-> FALSE, errbody |-> TRUE, n |-> Units(q)]
          /\ q.type \in {"PUT", "PUTHEAD", "COPYMULTIPOST", "COMPLETEMULTIPOST"}
        BY <1>5 DEF ErrorBodies
    <2> QED BY <2>1
<1>6. CASE o \in CurlFaults(q)
    <2>1. o.curl \in {"PARTIAL", "FATAL"}
        BY <1>6 DEF CurlFaults
    <2> QED BY <1>1, <2>1
<1> QED BY <1>3, <1>4, <1>5, <1>6 DEF Outcomes

\* The server does what it answers well.
LEMMA AppliedCode ==
    ASSUME NEW q, NEW o \in Outcomes(q), o.applied
    PROVE  ServerCode(q) < 300
<1>1. CASE o = Natural(q)
    BY <1>1 DEF Natural
<1>2. CASE o \in HttpFaults(q)
    BY <1>2 DEF HttpFaults
<1>3. CASE o \in ErrorBodies(q)
    BY <1>3 DEF ErrorBodies
<1>4. CASE o \in CurlFaults(q)
    <2>1. \/ \E e, n : o = [code |-> NotSet, curl |-> e, applied |-> FALSE, errbody |-> FALSE, n |-> n]
          \/ \E e, n : o = [code |-> NotSet, curl |-> e, applied |-> ServerCode(q) < 300,
                           errbody |-> FALSE, n |-> n]
        BY <1>4 DEF CurlFaults
    <2>2. CASE \E e, n : o = [code |-> NotSet, curl |-> e, applied |-> FALSE, errbody |-> FALSE, n |-> n]
        BY <2>2
    <2>3. CASE \E e, n : o = [code |-> NotSet, curl |-> e, applied |-> ServerCode(q) < 300,
                             errbody |-> FALSE, n |-> n]
        <3>1. PICK e, n : o = [code |-> NotSet, curl |-> e, applied |-> ServerCode(q) < 300,
                               errbody |-> FALSE, n |-> n]
            BY <2>3
        <3>2. o.applied = (ServerCode(q) < 300)
            BY <3>1
        <3> QED BY <3>2
    <2> QED BY <2>1, <2>2, <2>3
<1> QED BY <1>1, <1>2, <1>3, <1>4 DEF Outcomes

\* A try that succeeds is the last one.
LEMMA TriedSuccess ==
    ASSUME NEW r, NEW o, DOMAIN req[r] = ReqFields, req[r].st = "run"
    PROVE  LET t == Tried(r, o, "0")
           IN  t.st = "ended" /\ t.res = "0"
<1>1. PICK u : u = Transferred(req[r], o.n) /\ DOMAIN u = ReqFields
    BY TransferredShape
<1>2. PICK e : e = Ended(u, o.code, o.curl, "0") /\ DOMAIN e = ReqFields /\ e.st = "ended" /\ e.res = "0"
    BY <1>1, EndedShape
<1>3. PICK a : a = [e EXCEPT !.errbody = o.errbody]
    OBVIOUS
<1>4. AfterTry(u, o, "0") = a
    BY <1>2, <1>3 DEF AfterTry
<1>5. DOMAIN a = ReqFields /\ a.st = "ended" /\ a.res = "0"
    BY <1>2, <1>3 DEF ReqFields
<1>6. PICK b : b = [a EXCEPT !.part = req[r].part]
    OBVIOUS
<1>7. DOMAIN b = ReqFields /\ b.st = "ended" /\ b.res = "0"
    BY <1>5, <1>6 DEF ReqFields
<1>8. PICK t : t = Tried(r, o, "0")
    OBVIOUS
<1>9. t = IF b.st = "ended" /\ call.pc = "multi" THEN [b EXCEPT !.handle = 0] ELSE b
    BY <1>1, <1>4, <1>6, <1>8 DEF Tried
<1>10. t.st = "ended" /\ t.res = "0"
    BY <1>7, <1>9 DEF ReqFields
<1> QED BY <1>8, <1>10

\* What a try that comes out as o, with the result res, makes of the request r.
TryStep(r, o, res, t) ==
    /\ o \in Outcomes(req[r]) /\ res = PerformResult(req[r], o) /\ t = Tried(r, o, res)
    /\ TryWith(r, o, res)
    /\ req[r].st = "run" /\ DOMAIN req[r] = ReqFields
    /\ req' = [req EXCEPT ![r] = t] /\ UNCHANGED <<cfg, call, etags, out>>
    /\ t.type = req[r].type /\ DOMAIN t = ReqFields
    /\ Succeeded(t) => res = "0"
    /\ odd' = odd \cup Deviations(req[r], o, res)
    /\ o.applied => Carried(req[r])
    /\ ~o.applied => UNCHANGED server
    /\ call.pc \in {"one", "multi", "spin"}
    /\ call.pc = "one" => r = 1 /\ req'[1] = t

LEMMA TryChanges ==
    ASSUME HandleInv, NEW r \in DOMAIN req, Try(r)
    PROVE  \E o, res, t : TryStep(r, o, res, t)
<1>1. PICK o \in Outcomes(req[r]) : TryWith(r, o, PerformResult(req[r], o))
    BY Zenon DEF Try, Outcomes
<1>2. PICK res : res = PerformResult(req[r], o)
    OBVIOUS
<1>3. PICK t : t = Tried(r, o, res)
    OBVIOUS
<1>4. req[r].st = "run" /\ DOMAIN req[r] = ReqFields
    BY DEF Try, HandleInv, CallOk, ReqOk
<1>5. TryWith(r, o, res)
    BY <1>1, <1>2
<1>6. req' = [req EXCEPT ![r] = t] /\ UNCHANGED <<cfg, call, etags, out>>
    BY <1>3, <1>4, <1>5, TryWithTried
<1>7. /\ DOMAIN t = ReqFields /\ t.type = req[r].type
      /\ t.st = "run" \/ (t.st = "ended" /\ t.res \in {res, "EIO"})
    BY <1>3, <1>4, TriedShape
<1>8. Succeeded(t) => res = "0"
    BY <1>7 DEF Succeeded
<1>9. odd' = odd \cup Deviations(req[r], o, res)
    BY <1>5 DEF TryWith
<1>10. (o.applied => Carried(req[r])) /\ (~o.applied => UNCHANGED server)
    BY <1>5 DEF TryWith
<1>11. call.pc \in {"one", "multi", "spin"}
    BY DEF HandleInv, CallOk
<1>12. call.pc = "one" => r = 1 /\ req'[1] = t
    BY <1>6 DEF HandleInv, CallOk
<1> QED BY <1>2, <1>3, <1>4, <1>5, <1>6, <1>7, <1>8, <1>9, <1>10, <1>11, <1>12 DEF TryStep

\* What a request that is carried out does to the multipart upload.
LEMMA CarriedUpload ==
    ASSUME NEW q, Carried(q), DOMAIN mpu = {"open", "parts"}
    PROVE  /\ DOMAIN mpu' = {"open", "parts"}
           /\ mpu'.open => mpu.open \/ q.type = "PREMULTIPOST"
           /\ mpu'.open => q.type \notin EndTypes
<1>1. CASE q.type \in PartTypes
    <2>1. \E p, d : mpu' = PutPart(p, d)
        BY <1>1 DEF Carried, PartTypes
    <2>2. PICK p, d : mpu' = PutPart(p, d)
        BY <2>1
    <2>3. PICK f : mpu' = [mpu EXCEPT !.parts = f]
        BY <2>2 DEF PutPart
    <2> QED BY <1>1, <2>3 DEF PartTypes, EndTypes
<1>2. CASE q.type \in EndTypes
    BY <1>2 DEF Carried, EndTypes
<1>3. CASE q.type = "PREMULTIPOST"
    BY <1>3 DEF Carried, EndTypes
<1>4. CASE q.type \notin PartTypes \cup EndTypes \cup {"PREMULTIPOST"}
    BY <1>4 DEF Carried, PartTypes, EndTypes, server
<1> QED BY <1>1, <1>2, <1>3, <1>4

LEMMA OpenTry ==
    ASSUME HandleInv, OpenInv, NEW r \in DOMAIN req, Try(r)
    PROVE  OpenInv'
<1>1. PICK o, res, t : TryStep(r, o, res, t)
    BY TryChanges
<1>2. /\ req[r].st = "run" /\ req' = [req EXCEPT ![r] = t] /\ call' = call
      /\ t.type = req[r].type
      /\ Succeeded(t) => res = "0"
      /\ odd' = odd \cup Deviations(req[r], o, res)
      /\ o.applied => Carried(req[r])
      /\ ~o.applied => UNCHANGED server
      /\ call.pc \in {"one", "multi", "spin"}
      /\ call.pc = "one" => r = 1 /\ req'[1] = t
    BY <1>1 DEF TryStep
<1>3. PICK q : q = req[r]
    OBVIOUS
<1>4. o \in Outcomes(q) /\ res = PerformResult(q, o) /\ t = Tried(r, o, res) /\ DOMAIN q = ReqFields
    BY <1>1, <1>3 DEF TryStep
<1>5. TypesOk(req, call)'
    <2>1. TypesOk(req, call)
        BY DEF OpenInv
    <2>2. DOMAIN req' = DOMAIN req /\ \A i \in DOMAIN req : req'[i].type = req[i].type
        BY <1>2
    <2>3. call.pc = "one" => req'[1].type = req[1].type
        BY <1>2
    <2> QED BY <1>2, <2>1, <2>2, <2>3 DEF TypesOk
<1>6. DOMAIN mpu' = {"open", "parts"}
    <2>1. CASE o.applied
        BY <1>2, <2>1, CarriedUpload DEF OpenInv
    <2>2. CASE ~o.applied
        BY <1>2, <2>2 DEF OpenInv, server
    <2> QED BY <2>1, <2>2
<1>7. ASSUME odd' \cap OpenMarks = {}, mpu'.open PROVE MayBeOpen(req, call)'
    <2>1. odd \cap OpenMarks = {}
        BY <1>2, <1>7
    <2>2. Deviations(q, o, res) \cap OpenMarks = {}
        BY <1>2, <1>3, <1>4, <1>7
    <2>3. mpu.open => MayBeOpen(req, call)
        BY <2>1 DEF OpenInv
    <2>4. mpu.open \/ (o.applied /\ q.type = "PREMULTIPOST")
        <3>1. CASE o.applied
            <4>1. mpu'.open => mpu.open \/ q.type = "PREMULTIPOST"
                BY <1>2, <1>3, <3>1, CarriedUpload DEF OpenInv
            <4> QED BY <1>7, <3>1, <4>1
        <3>2. CASE ~o.applied
            BY <1>2, <1>7, <3>2 DEF server
        <3> QED BY <3>1, <3>2
    <2>5. o.applied => q.type \notin EndTypes
        BY <1>2, <1>3, <1>7, CarriedUpload DEF OpenInv
    <2>6. ~Succeeded(q)
        BY <1>2, <1>3 DEF Succeeded
    <2>7. CASE call.pc # "one"
        <3>1. call.op \in Ups
            <4>1. CASE mpu.open
                BY <2>3, <4>1 DEF MayBeOpen
            <4>2. CASE q.type = "PREMULTIPOST"
                <5>1. call.pc \in {"multi", "spin"} /\ q.type \notin PartTypes /\ q.type # "GET"
                    BY <1>2, <2>7, <4>2 DEF PartTypes
                <5> QED BY <1>3, <5>1 DEF OpenInv, TypesOk
            <4> QED BY <2>4, <4>1, <4>2
        <3> QED BY <1>2, <2>7, <3>1 DEF MayBeOpen
    <2>8. CASE call.pc = "one"
        <3>1. q = req[1] /\ req'[1] = t /\ t.type = q.type
            BY <1>2, <1>3, <2>8
        <3>2. CASE q.type = "PREMULTIPOST"
            <4>1. call.op \in Ups
                BY <2>8, <3>1, <3>2 DEF OpenInv, TypesOk, UpSingles
            <4>2. ~mpu.open
                <5>1. SUFFICES ASSUME mpu.open PROVE FALSE
                    OBVIOUS
                <5> QED BY <2>3, <2>6, <2>8, <3>1, <3>2, <5>1 DEF MayBeOpen
            <4>3. o.applied
                BY <2>4, <4>2
            <4>4. res = "0"
                <5>1. SUFFICES ASSUME res # "0" PROVE "id lost" \in Deviations(q, o, res)
                    BY <2>2 DEF OpenMarks
                <5> QED BY <3>2, <4>3, <5>1 DEF Deviations
            <4>5. t.st = "ended" /\ t.res = res
                BY <1>2, <1>3, <1>4, <4>4, TriedSuccess
            <4> QED BY <1>2, <2>8, <3>1, <3>2, <4>1, <4>4, <4>5 DEF MayBeOpen, Succeeded, EndTypes
        <3>3. CASE q.type # "PREMULTIPOST"
            <4>1. MayBeOpen(req, call)
                BY <2>3, <2>4, <3>3
            <4>2. call.op \in Ups /\ q.type # "PUT" /\ q.type \in UpSingles
                BY <2>8, <3>1, <4>1 DEF MayBeOpen, OpenInv, TypesOk
            <4>3. q.type \in EndTypes
                BY <3>3, <4>2 DEF UpSingles
            <4>4. ~Succeeded(t)
                <5>1. SUFFICES ASSUME Succeeded(t) PROVE FALSE
                    OBVIOUS
                <5>2. res = "0" /\ o \in Outcomes(q)
                    BY <1>2, <1>3, <1>4, <5>1
                <5>3. o.errbody /\ q.type = "COMPLETEMULTIPOST"
                    BY <1>4, <2>5, <4>3, <5>2, SuccessKinds DEF EndTypes
                <5>4. "answer not read" \in Deviations(q, o, res)
                    BY <5>3 DEF Deviations
                <5> QED BY <2>2, <5>4 DEF OpenMarks
            <4> QED BY <1>2, <2>8, <3>1, <3>3, <4>2, <4>4 DEF MayBeOpen
        <3> QED BY <3>2, <3>3
    <2> QED BY <2>7, <2>8
<1> QED BY <1>5, <1>6, <1>7 DEF OpenInv

\* A single request starts as the call c says.
LEMMA SingleStarts ==
    ASSUME NEW c, NEW q, Single(c, q), DOMAIN c = CallFields, DOMAIN q = ReqFields
    PROVE  /\ DOMAIN call' = CallFields /\ call'.pc = "one"
           /\ call'.op = c.op /\ call'.todo = c.todo /\ call'.res = c.res
           /\ call'.was = c.was /\ call'.want = c.want /\ call'.size = c.size
           /\ DOMAIN req' = {1} /\ DOMAIN req'[1] = ReqFields /\ req'[1].st = "run"
           /\ req'[1].type = q.type /\ req'[1].startpos = q.startpos /\ req'[1].size = q.size
           /\ req'[1].b_start = q.b_start /\ req'[1].b_size = q.b_size /\ req'[1].at = q.at
           /\ req'[1].again = q.again
<1>1. PICK d : d = [c EXCEPT !.pc = "one"]
    OBVIOUS
<1>2. PICK h : h = Taken
    OBVIOUS
<1>3. PICK z : z = [q EXCEPT !.st = "run", !.handle = h]
    OBVIOUS
<1>4. call' = d /\ req' = <<z>>
    BY <1>1, <1>2, <1>3 DEF Single
<1>5. /\ DOMAIN d = CallFields /\ d.pc = "one"
      /\ d.op = c.op /\ d.todo = c.todo /\ d.res = c.res
      /\ d.was = c.was /\ d.want = c.want /\ d.size = c.size
    BY <1>1 DEF CallFields
<1>6. /\ DOMAIN z = ReqFields /\ z.st = "run"
      /\ z.type = q.type /\ z.startpos = q.startpos /\ z.size = q.size
      /\ z.b_start = q.b_start /\ z.b_size = q.b_size /\ z.at = q.at /\ z.again = q.again
    BY <1>3 DEF ReqFields
<1>7. PICK rs : rs = <<z>>
    OBVIOUS
<1>8. DOMAIN rs = {1} /\ rs[1] = z
    BY <1>7
<1> QED BY <1>4, <1>5, <1>6, <1>7, <1>8

\* The types of the parts.
LEMMA PartsAreTyped ==
    ASSUME NEW cs, NEW copied \in Nat, NEW size
    PROVE  /\ \A k \in DOMAIN UploadParts(cs) : UploadParts(cs)[k].type \in PartTypes
           /\ \A k \in DOMAIN CopyParts(cs) : CopyParts(cs)[k].type \in PartTypes
BY NewReqFields DEF UploadParts, CopyParts, UploadMultipartPostSetup, CopyMultipartPostSetup, PartTypes

\* A call starts when no upload is open.
LEMMA SingleOpens ==
    ASSUME OpenInv, NEW c, NEW q, Single(c, q), DOMAIN c = CallFields, DOMAIN q = ReqFields,
           UNCHANGED <<mpu, odd>>,
           c.op \in Ups <=> q.type \in UpSingles, q.type \notin PartTypes,
           c.op \in Ups => \A k \in DOMAIN c.todo : c.todo[k].type \in PartTypes,
           call.pc = "idle" \/ (call.op \in Ups /\ c.op \in Ups /\ q.type \in EndTypes)
    PROVE  OpenInv'
<1>1. /\ call'.pc = "one" /\ call'.op = c.op /\ call'.todo = c.todo
      /\ req'[1].type = q.type /\ req'[1].st = "run"
    BY SingleStarts
<1>2. TypesOk(req', call')
    BY <1>1 DEF TypesOk
<1>3. ASSUME odd \cap OpenMarks = {}, mpu.open PROVE MayBeOpen(req', call')
    <2>1. MayBeOpen(req, call)
        BY <1>3 DEF OpenInv
    <2>2. call.pc # "idle"
        BY <2>1 DEF MayBeOpen, OpenInv, TypesOk, Ups
    <2>3. c.op \in Ups /\ q.type \in EndTypes
        BY <2>2
    <2> QED BY <1>1, <2>3 DEF MayBeOpen, Succeeded, EndTypes
<1> QED BY <1>2, <1>3 DEF OpenInv

\* A call ends; it leaves no upload open that it could have closed.
LEMMA AnsweredCloses ==
    ASSUME OpenInv, NEW c, NEW res, Answered(c, res), mpu' = mpu, odd \subseteq odd',
           odd' \cap OpenMarks = {} => ~(mpu.open /\ MayBeOpen(req, call))
    PROVE  OpenInv'
<1>1. call' = Idle /\ req' = <<>>
    BY DEF Answered
<1>2. TypesOk(req', call')
    BY <1>1 DEF TypesOk, Idle, Ups
<1>3. ASSUME odd' \cap OpenMarks = {}, mpu.open PROVE FALSE
    BY <1>3 DEF OpenInv
<1> QED BY <1>2, <1>3 DEF OpenInv

\* A batch goes on, or starts.
LEMMA BatchOpens ==
    ASSUME OpenInv, UNCHANGED mpu, odd \subseteq odd',
           call'.pc \in {"multi", "spin"}, call'.op = call.op, call.op \in Ups \cup {"download"},
           call.op = "download" => \A i \in DOMAIN req' : req'[i].type = "GET",
           call.op \in Ups => \A i \in DOMAIN req' : req'[i].type \in PartTypes,
           call.op \in Ups => \A k \in DOMAIN call'.todo : call'.todo[k].type \in PartTypes
    PROVE  OpenInv'
<1>1. TypesOk(req', call')
    BY DEF TypesOk, Ups
<1>2. ASSUME odd' \cap OpenMarks = {}, mpu.open PROVE MayBeOpen(req', call')
    <2>1. MayBeOpen(req, call)
        BY <1>2 DEF OpenInv
    <2> QED BY <2>1 DEF MayBeOpen
<1> QED BY <1>1, <1>2 DEF OpenInv

LEMMA RetriedType ==
    ASSUME NEW q, q.type \in PartTypes \cup {"GET"}
    PROVE  RetryCallback(q).type = q.type
<1>1. PICK n : DOMAIN n = ReqFields /\ n.type = q.type /\ RetryCallback(q) = [n EXCEPT !.retry = q.retry + 1]
    <2>1. CASE q.type = "GET"
        <3>1. PICK n : n = ParallelGetObjectRetryCallback(q) /\ DOMAIN n = ReqFields /\ n.type = "GET"
            BY NewReqFields DEF ParallelGetObjectRetryCallback
        <3> QED BY <2>1, <3>1 DEF RetryCallback
    <2>2. CASE q.type = "UPLOADMULTIPOST"
        <3>1. PICK n : n = UploadMultipartPostRetryCallback(q) /\ DOMAIN n = ReqFields /\ n.type = q.type
            BY <2>2, NewReqFields DEF UploadMultipartPostRetryCallback
        <3> QED BY <2>2, <3>1 DEF RetryCallback
    <2>3. CASE q.type = "COPYMULTIPOST"
        <3>1. PICK n : n = CopyMultipartPostRetryCallback(q) /\ DOMAIN n = ReqFields /\ n.type = q.type
            BY <2>3, NewReqFields DEF CopyMultipartPostRetryCallback
        <3> QED BY <2>3, <3>1 DEF RetryCallback
    <2> QED BY <2>1, <2>2, <2>3 DEF PartTypes
<1> QED BY <1>1 DEF ReqFields

LEMMA OpenBatch ==
    ASSUME HandleInv, OpenInv,
           \/ \E r \in DOMAIN req : Launch(r) \/ LazySetupFails(r)
           \/ MultiReadSpins \/ MultiRetry
    PROVE  OpenInv'
<1>1. /\ call.pc = "multi" /\ mpu' = mpu /\ odd \subseteq odd' /\ DOMAIN call = CallFields
      /\ call' = call \/ call' = [call EXCEPT !.pc = "spin"]
    BY DEF Launch, LazySetupFails, MultiReadSpins, MultiRetry, Read, BatchEnded, server, HandleInv, CallOk
<1>2. call'.pc \in {"multi", "spin"} /\ call'.op = call.op /\ call'.todo = call.todo
    BY <1>1 DEF CallFields
<1>3. TypesOk(req, call)
    BY DEF OpenInv
<1>4. /\ call.op \in Ups \cup {"download"}
      /\ \A i \in DOMAIN req : req[i].type \in PartTypes \cup {"GET"} /\ DOMAIN req[i] = ReqFields
      /\ call.op = "download" => \A i \in DOMAIN req : req[i].type = "GET"
      /\ call.op \in Ups => \A i \in DOMAIN req : req[i].type \in PartTypes
      /\ call.op \in Ups => \A k \in DOMAIN call.todo : call.todo[k].type \in PartTypes
    BY <1>1, <1>3 DEF TypesOk, HandleInv, CallOk, ReqOk
<1>5. \A i \in DOMAIN req' : i \in DOMAIN req /\ req'[i].type = req[i].type
    <2>1. CASE \E r \in DOMAIN req : Launch(r) \/ LazySetupFails(r)
        <3>1. PICK r \in DOMAIN req : Launch(r) \/ LazySetupFails(r)
            BY <2>1
        <3>2. PICK h : h = Taken
            OBVIOUS
        <3>3. PICK t : t = [req[r] EXCEPT !.st = "run", !.handle = h] \/ t = [req[r] EXCEPT !.st = "ended"]
            OBVIOUS
        <3>4. \E z : /\ z = [req[r] EXCEPT !.st = "run", !.handle = h] \/ z = [req[r] EXCEPT !.st = "ended"]
                     /\ req' = [req EXCEPT ![r] = z]
            BY <3>1, <3>2 DEF Launch, LazySetupFails
        <3>5. PICK z : /\ z = [req[r] EXCEPT !.st = "run", !.handle = h] \/ z = [req[r] EXCEPT !.st = "ended"]
                       /\ req' = [req EXCEPT ![r] = z]
            BY <3>4
        <3>6. z.type = req[r].type
            BY <1>4, <3>5 DEF ReqFields
        <3> QED BY <3>5, <3>6
    <2>2. CASE MultiReadSpins
        BY <2>2 DEF MultiReadSpins
    <2>3. CASE MultiRetry
        <3>1. req' = [i \in {j \in DOMAIN req : Failed(req[j])} |-> RetryCallback(req[i])]
            BY <2>3 DEF MultiRetry
        <3>2. \A i \in DOMAIN req' : i \in DOMAIN req /\ req'[i] = RetryCallback(req[i])
            BY <3>1
        <3> QED BY <1>4, <3>2, RetriedType
    <2> QED BY <2>1, <2>2, <2>3
<1>6. /\ call.op = "download" => \A i \in DOMAIN req' : req'[i].type = "GET"
      /\ call.op \in Ups => \A i \in DOMAIN req' : req'[i].type \in PartTypes
    BY <1>4, <1>5
<1> QED BY <1>1, <1>2, <1>4, <1>6, BatchOpens

LEMMA PlainShape ==
    ASSUME NEW type
    PROVE  DOMAIN Plain(type) = ReqFields /\ Plain(type).type = type
BY NewReqFields DEF Plain

LEMMA OpenDone ==
    ASSUME HandleInv, OpenInv, HeadNextKey \/ SingleDone \/ PreMultipartDone \/ MultipartDone
    PROVE  OpenInv'
<1>1. /\ call.pc = "one" /\ req[1].st = "ended" /\ mpu' = mpu /\ odd \subseteq odd'
      /\ DOMAIN call = CallFields
    BY DEF HeadNextKey, SingleDone, PreMultipartDone, MultipartDone, OneEnded, server, HandleInv, CallOk
<1>2. call.op \in Ups <=> req[1].type \in UpSingles
    BY <1>1 DEF OpenInv, TypesOk
<1>3. CASE HeadNextKey
    <2>1. /\ req[1].type = "HEAD" /\ call' = [call EXCEPT !.key = @ + 1] /\ odd' = odd
          /\ req' = <<[Plain("HEAD") EXCEPT !.st = "run", !.handle = req[1].handle]>>
        BY <1>3 DEF HeadNextKey, OneEnded
    <2>2. call'.pc = "one" /\ call'.op = call.op
        BY <1>1, <2>1 DEF CallFields
    <2>3. call.op \notin Ups
        BY <1>2, <2>1 DEF UpSingles, EndTypes
    <2>4. PICK p : p = Plain("HEAD") /\ DOMAIN p = ReqFields /\ p.type = "HEAD"
        BY PlainShape
    <2>5. PICK z : z = [p EXCEPT !.st = "run", !.handle = req[1].handle]
        OBVIOUS
    <2>6. req' = <<z>> /\ z.type = "HEAD"
        BY <2>1, <2>4, <2>5 DEF ReqFields
    <2>7. req'[1].type = "HEAD"
        BY <2>6
    <2>8. TypesOk(req', call')
        BY <2>2, <2>3, <2>7 DEF TypesOk, UpSingles, EndTypes, PartTypes
    <2>9. odd \cap OpenMarks = {} => ~mpu.open
        BY <2>3 DEF OpenInv, MayBeOpen
    <2> QED BY <1>1, <2>1, <2>8, <2>9 DEF OpenInv
<1>4. CASE SingleDone
    <2>1. /\ req[1].type \in {"HEAD", "PUT", "PUTHEAD", "GET", "DELETE", "LISTBUCKET"}
          /\ Answered(call, MapPutErrorResponse(req[1]))
        BY <1>4 DEF SingleDone, OneEnded
    <2>2. ~MayBeOpen(req, call)
        BY <1>1, <1>2, <2>1 DEF MayBeOpen, UpSingles, EndTypes
    <2> QED BY <1>1, <2>1, <2>2, AnsweredCloses
<1>5. CASE PreMultipartDone
    <2>1. /\ req[1].type = "PREMULTIPOST" /\ odd' = odd
          /\ IF req[1].res # "0" THEN Answered(call, req[1].res)
             ELSE Batch([call EXCEPT !.todo = <<>>], call.todo)
        BY <1>5 DEF PreMultipartDone, OneEnded
    <2>2. CASE req[1].res # "0"
        <3>1. ~MayBeOpen(req, call)
            BY <1>1, <2>1, <2>2 DEF MayBeOpen, Succeeded
        <3> QED BY <1>1, <2>1, <2>2, <3>1, AnsweredCloses
    <2>3. CASE req[1].res = "0"
        <3>1. call' = [[call EXCEPT !.todo = <<>>] EXCEPT !.pc = "multi"] /\ req' = call.todo
            BY <2>1, <2>3 DEF Batch
        <3>2. call'.pc = "multi" /\ call'.op = call.op /\ call'.todo = <<>>
            BY <1>1, <3>1 DEF CallFields
        <3>3. call.op \in Ups
            BY <1>2, <2>1 DEF UpSingles
        <3>4. \A k \in DOMAIN call.todo : call.todo[k].type \in PartTypes
            BY <3>3 DEF OpenInv, TypesOk
        <3>5. DOMAIN call'.todo = {}
            BY <3>2
        <3> QED BY <1>1, <3>1, <3>2, <3>3, <3>4, <3>5, BatchOpens DEF Ups
    <2> QED BY <2>2, <2>3
<1>6. CASE MultipartDone
    <2>1. /\ req[1].type \in EndTypes /\ odd' = odd \cup IF req[1].res # "0" THEN {"end failed"} ELSE {}
          /\ \E res : Answered(call, res)
        BY <1>6 DEF MultipartDone, OneEnded, EndTypes
    <2>2. ASSUME odd' \cap OpenMarks = {}, mpu.open, MayBeOpen(req, call) PROVE FALSE
        <3>1. "end failed" \notin odd'
            BY <2>2 DEF OpenMarks
        <3>2. req[1].res = "0"
            BY <2>1, <3>1
        <3> QED BY <1>1, <2>1, <2>2, <3>2 DEF MayBeOpen, Succeeded
    <2> QED BY <1>1, <2>1, <2>2, AnsweredCloses
<1> QED BY <1>3, <1>4, <1>5, <1>6

LEMMA OpenRest ==
    ASSUME HandleInv, OpenInv, DownLoadNext \/ AbortUpload \/ CompleteUpload(Etags)
    PROVE  OpenInv'
<1>1. /\ call.pc = "multi" /\ mpu' = mpu /\ odd \subseteq odd' /\ DOMAIN call = CallFields
    BY DEF DownLoadNext, AbortUpload, CompleteUpload, Read, BatchEnded, server, HandleInv, CallOk
<1>2. call.op \in Ups \cup {"download"}
    BY <1>1 DEF OpenInv, TypesOk
<1>3. CASE DownLoadNext
    <2>1. call.op = "download" /\ call.op \notin Ups
        BY <1>3 DEF DownLoadNext, Ups
    <2>2. ~MayBeOpen(req, call)
        BY <2>1 DEF MayBeOpen
    <2>3. CASE \E res : Answered(call, res)
        BY <1>1, <2>2, <2>3, AnsweredCloses
    <2>4. CASE call.todo # <<>> /\ \E rest : Batch([call EXCEPT !.todo = rest],
                                         SubSeq(call.todo, 1, Min2(MaxParallel, Len(call.todo))))
        <3>1. PICK rest : /\ call' = [[call EXCEPT !.todo = rest] EXCEPT !.pc = "multi"]
                          /\ req' = SubSeq(call.todo, 1, Min2(MaxParallel, Len(call.todo)))
            BY <2>4 DEF Batch
        <3>2. call'.pc = "multi" /\ call'.op = call.op
            BY <1>1, <3>1 DEF CallFields
        <3>3. call.todo \in Seq(FreshGets)
            BY <2>1 DEF HandleInv, CallOk
        <3>4. PICK n \in Nat : n = Min2(MaxParallel, Len(call.todo)) /\ n <= Len(call.todo)
            <4>1. Len(call.todo) \in Nat
                BY <3>3
            <4> QED BY <4>1, MaxParallelTakes
        <3>5. req' \in Seq(FreshGets)
            BY <3>1, <3>3, <3>4, SubSeqOfGets
        <3>6. \A i \in DOMAIN req' : req'[i].type = "GET"
            <4>1. PICK s : s = req' /\ s \in Seq(FreshGets)
                BY <3>5
            <4>2. \A i \in DOMAIN s : s[i] \in FreshGets
                BY <4>1
            <4> QED BY <4>1, <4>2 DEF FreshGets
        <3> QED BY <1>1, <1>2, <2>1, <3>2, <3>6, BatchOpens
    <2> QED BY <1>3, <2>3, <2>4 DEF DownLoadNext
<1>4. CASE AbortUpload
    <2>1. call.op \in Ups /\ odd' = odd
        BY <1>2, <1>4 DEF AbortUpload
    <2>2. PICK c : c = [call EXCEPT !.res = "EIO"]
        OBVIOUS
    <2>3. DOMAIN c = CallFields /\ c.op = call.op /\ c.todo = call.todo
        BY <1>1, <2>2 DEF CallFields
    <2>4. PICK q : q = Plain("ABORTMULTIUPLOAD") /\ DOMAIN q = ReqFields /\ q.type = "ABORTMULTIUPLOAD"
        BY PlainShape
    <2>5. Single(c, q)
        BY <1>4, <2>2, <2>4 DEF AbortUpload
    <2>6. \A k \in DOMAIN c.todo : c.todo[k].type \in PartTypes
        BY <2>1, <2>3 DEF OpenInv, TypesOk
    <2>7. q.type \in EndTypes /\ q.type \in UpSingles /\ q.type \notin PartTypes
        BY <2>4 DEF EndTypes, UpSingles, PartTypes
    <2> QED BY <1>1, <2>1, <2>3, <2>4, <2>5, <2>6, <2>7, SingleOpens
<1>5. CASE CompleteUpload(Etags)
    <2>1. call.op \in Ups
        BY <1>2, <1>5 DEF CompleteUpload
    <2>2. CASE Single(call, Plain("COMPLETEMULTIPOST")) /\ odd' = odd
        <3>1. PICK q : q = Plain("COMPLETEMULTIPOST") /\ DOMAIN q = ReqFields /\ q.type = "COMPLETEMULTIPOST"
            BY PlainShape
        <3>2. \A k \in DOMAIN call.todo : call.todo[k].type \in PartTypes
            BY <2>1 DEF OpenInv, TypesOk
        <3>3. q.type \in EndTypes /\ q.type \in UpSingles /\ q.type \notin PartTypes
            BY <3>1 DEF EndTypes, UpSingles, PartTypes
        <3> QED BY <1>1, <2>1, <2>2, <3>1, <3>2, <3>3, SingleOpens
    <2>3. CASE Answered(call, "EIO") /\ odd' = odd \cup {"part missing"}
        <3>1. odd' \cap OpenMarks # {}
            BY <2>3 DEF OpenMarks
        <3> QED BY <1>1, <2>3, <3>1, AnsweredCloses
    <2> QED BY <1>5, <2>2, <2>3 DEF CompleteUpload
<1> QED BY <1>3, <1>4, <1>5

LEMMA MixPartsAreTyped ==
    ASSUME NEW m \in Nat, NEW size
    PROVE  \A k \in DOMAIN MixParts(m, size) : MixParts(m, size)[k].type \in PartTypes
<1>1. PICK n, cs : /\ n \in Nat /\ DOMAIN MixParts(m, size) = 1 .. n + 1
                   /\ \A k \in 1 .. n : MixParts(m, size)[k] = CopyMultipartPostSetup(k, cs[k])
                   /\ MixParts(m, size)[n + 1] =
                         UploadMultipartPostSetup(n + 1, [start |-> m, size |-> size - m])
    BY MixShape
<1>2. ASSUME NEW k \in 1 .. n + 1 PROVE MixParts(m, size)[k].type \in PartTypes
    <2>1. CASE k \in 1 .. n
        BY <1>1, <2>1, NewReqFields DEF CopyMultipartPostSetup, PartTypes
    <2>2. CASE k = n + 1
        BY <1>1, <2>2, NewReqFields DEF UploadMultipartPostSetup, PartTypes
    <2> QED BY <1>1, <2>1, <2>2
<1> QED BY <1>1, <1>2

\* The calls that make an upload start with a request of one.
LEMMA UploadsStart ==
    ASSUME NEW n \in Nat, UpLoad(n) \/ (\E m \in 1 .. n : Mix(m, n)) \/ Copy
    PROVE  \E c, q : /\ Single(c, q) /\ DOMAIN c = CallFields /\ DOMAIN q = ReqFields
                     /\ c.op \in Ups /\ q.type \in {"PUT", "PREMULTIPOST"}
                     /\ \A k \in DOMAIN c.todo : c.todo[k].type \in PartTypes
<1>1. PICK op, len, want :
      /\ op \in Ups
      /\ \/ PutRequest(Asked(op, 0, len, want))
         \/ \E parts : /\ PreMultipartPostRequest(Asked(op, 0, len, want), parts)
                       /\ \A k \in DOMAIN parts : parts[k].type \in PartTypes
    <2>1. CASE UpLoad(n)
        <3>1. PICK want : \/ PutRequest(Asked("upload", 0, n, want))
                          \/ PreMultipartPostRequest(Asked("upload", 0, n, want),
                                                     UploadParts(Chunks(n, MultipartSize)))
            BY <2>1 DEF UpLoad
        <3>2. \A k \in DOMAIN UploadParts(Chunks(n, MultipartSize)) :
                 UploadParts(Chunks(n, MultipartSize))[k].type \in PartTypes
            BY PartsAreTyped
        <3> QED BY <3>1, <3>2 DEF Ups
    <2>2. CASE \E m \in 1 .. n : Mix(m, n)
        <3>1. PICK m \in 1 .. n : Mix(m, n)
            BY <2>2
        <3>2. PICK want : PreMultipartPostRequest(Asked("mix", 0, n, want), MixParts(m, n))
            BY <3>1 DEF Mix
        <3>3. \A k \in DOMAIN MixParts(m, n) : MixParts(m, n)[k].type \in PartTypes
            BY MixPartsAreTyped
        <3> QED BY <3>2, <3>3 DEF Ups
    <2>3. CASE Copy
        <3>1. PICK len, want : PreMultipartPostRequest(Asked("copy", 0, len, want),
                                                       CopyParts(Chunks(len, MultipartCopySize)))
            BY <2>3 DEF Copy
        <3>2. \A k \in DOMAIN CopyParts(Chunks(len, MultipartCopySize)) :
                 CopyParts(Chunks(len, MultipartCopySize))[k].type \in PartTypes
            BY PartsAreTyped
        <3> QED BY <3>1, <3>2 DEF Ups
    <2> QED BY <2>1, <2>2, <2>3
<1>2. PICK c : c = Asked(op, 0, len, want) /\ DOMAIN c = CallFields /\ c.op \in Ups /\ c.todo = <<>>
    BY <1>1, AskedShape
<1>3. CASE PutRequest(c)
    <2>1. PICK q : q = NewReq("PUT", 0, 0, c.size, 0) /\ DOMAIN q = ReqFields /\ q.type = "PUT"
        BY NewReqFields
    <2>2. DOMAIN c.todo = {}
        BY <1>2
    <2> QED BY <1>2, <1>3, <2>1, <2>2 DEF PutRequest
<1>4. CASE \E parts : PreMultipartPostRequest(c, parts) /\ \A k \in DOMAIN parts : parts[k].type \in PartTypes
    <2>1. PICK parts : PreMultipartPostRequest(c, parts) /\ \A k \in DOMAIN parts : parts[k].type \in PartTypes
        BY <1>4
    <2>2. PICK d : d = [c EXCEPT !.todo = parts]
        OBVIOUS
    <2>3. DOMAIN d = CallFields /\ d.op \in Ups /\ d.todo = parts
        BY <1>2, <2>2 DEF CallFields
    <2>4. PICK q : q = Plain("PREMULTIPOST") /\ DOMAIN q = ReqFields /\ q.type = "PREMULTIPOST"
        BY PlainShape
    <2>5. Single(d, q)
        BY <2>1, <2>2, <2>4 DEF PreMultipartPostRequest
    <2> QED BY <2>1, <2>3, <2>4, <2>5
<1> QED BY <1>1, <1>2, <1>3, <1>4

\* The other calls start with a request that is none of an upload.
LEMMA OthersStart ==
    ASSUME DeleteRequest \/ ListBucketRequest \/ PutHeadRequest \/ HeadRequest
    PROVE  \E c, q : /\ Single(c, q) /\ DOMAIN c = CallFields /\ DOMAIN q = ReqFields
                     /\ c.op \in {"delete", "list", "puthead", "head"}
                     /\ q.type \in {"DELETE", "LISTBUCKET", "PUTHEAD", "HEAD"}
<1>1. PICK op, type : /\ Single(Asked(op, 0, 0, <<>>), Plain(type))
                      /\ op \in {"delete", "list", "puthead", "head"}
                      /\ type \in {"DELETE", "LISTBUCKET", "PUTHEAD", "HEAD"}
    BY DEF DeleteRequest, ListBucketRequest, PutHeadRequest, HeadRequest
<1>2. PICK c : c = Asked(op, 0, 0, <<>>) /\ DOMAIN c = CallFields /\ c.op = op
    BY AskedShape
<1>3. PICK q : q = Plain(type) /\ DOMAIN q = ReqFields /\ q.type = type
    BY PlainShape
<1> QED BY <1>1, <1>2, <1>3

\* A download starts with one GET, or with some.
LEMMA DownLoadStarts ==
    ASSUME NEW s \in Nat, NEW n \in Nat, DownLoad(s, n)
    PROVE  \/ \E c, q : /\ Single(c, q) /\ DOMAIN c = CallFields /\ DOMAIN q = ReqFields
                        /\ c.op = "download" /\ q.type = "GET"
           \/ /\ call'.pc = "multi" /\ call'.op = "download"
              /\ \A i \in DOMAIN req' : req'[i].type = "GET"
<1>1. PICK parts : parts = ParallelGetParts(s, n) /\ parts \in Seq(FreshGets)
    BY GetPartsAreFresh
<1>2. PICK m \in Nat : m = Min2(MaxParallel, Len(parts)) /\ m <= Len(parts)
    BY <1>1, MaxParallelTakes
<1>3. PICK now : now = SubSeq(parts, 1, m) /\ now \in Seq(FreshGets)
    BY <1>1, <1>2, SubSeqOfGets
<1>4. PICK rest : rest = SubSeq(parts, Len(now) + 1, Len(parts))
    OBVIOUS
<1>5. PICK a : a = Asked("download", s, n, <<>>) /\ DOMAIN a = CallFields /\ a.op = "download"
    BY AskedShape
<1>6. PICK c : c = [a EXCEPT !.todo = rest] /\ DOMAIN c = CallFields /\ c.op = "download"
    <2>1. PICK c : c = [a EXCEPT !.todo = rest]
        OBVIOUS
    <2>2. DOMAIN c = CallFields /\ c.op = "download"
        BY <1>5, <2>1 DEF CallFields
    <2> QED BY <2>1, <2>2
<1>7. PICK d : d = [c EXCEPT !.todo = <<>>] /\ DOMAIN d = CallFields /\ d.op = "download"
    BY <1>6 DEF CallFields
<1>8. PICK q : q = PreGetObjectRequest(0, s, n) /\ DOMAIN q = ReqFields /\ q.type = "GET"
    BY NewReqFields DEF PreGetObjectRequest
<1>9. Single(d, q) \/ Batch(c, now)
    BY <1>1, <1>2, <1>3, <1>4, <1>5, <1>6, <1>7, <1>8 DEF DownLoad
<1>10. CASE Batch(c, now)
    <2>1. call'.pc = "multi" /\ call'.op = "download"
        BY <1>6, <1>10 DEF Batch, CallFields
    <2>2. req' = now
        BY <1>10 DEF Batch
    <2>3. \A i \in DOMAIN now : now[i] \in FreshGets
        BY <1>3
    <2>4. \A i \in DOMAIN now : now[i].type = "GET"
        BY <2>3 DEF FreshGets
    <2> QED BY <2>1, <2>2, <2>4
<1> QED BY <1>7, <1>8, <1>9, <1>10

LEMMA OpenInit == Init => OpenInv
<1> SUFFICES ASSUME Init PROVE OpenInv
    OBVIOUS
<1>1. call = Idle /\ mpu = [open |-> FALSE, parts |-> <<>>]
    BY DEF Init
<1>2. TypesOk(req, call)
    BY <1>1 DEF TypesOk, Idle, Ups
<1> QED BY <1>1, <1>2 DEF OpenInv

LEMMA OpenCalls ==
    ASSUME OpenInv, NEW n \in Nat, NEW s \in Nat,
           \/ UpLoad(n) \/ (\E m \in 1 .. n : Mix(m, n)) \/ Copy
           \/ DeleteRequest \/ ListBucketRequest \/ PutHeadRequest \/ HeadRequest
           \/ DownLoad(s, n)
    PROVE  OpenInv'
<1>1. call.pc = "idle" /\ UNCHANGED <<mpu, odd>>
    BY DEF UpLoad, Mix, Copy, DownLoad, HeadRequest, DeleteRequest, ListBucketRequest, PutHeadRequest,
           Called, server
<1>2. CASE UpLoad(n) \/ (\E m \in 1 .. n : Mix(m, n)) \/ Copy
    <2>1. PICK c, q : /\ Single(c, q) /\ DOMAIN c = CallFields /\ DOMAIN q = ReqFields
                      /\ c.op \in Ups /\ q.type \in {"PUT", "PREMULTIPOST"}
                      /\ \A k \in DOMAIN c.todo : c.todo[k].type \in PartTypes
        BY <1>2, UploadsStart
    <2>2. q.type \in UpSingles /\ q.type \notin PartTypes
        BY <2>1 DEF UpSingles, PartTypes
    <2> QED BY <1>1, <2>1, <2>2, SingleOpens
<1>3. ASSUME NEW c, NEW q, Single(c, q), DOMAIN c = CallFields, DOMAIN q = ReqFields,
             c.op \in {"delete", "list", "puthead", "head", "download"},
             q.type \in {"DELETE", "LISTBUCKET", "PUTHEAD", "HEAD", "GET"}
      PROVE  OpenInv'
    <2>1. c.op \notin Ups /\ q.type \notin UpSingles /\ q.type \notin PartTypes
        BY <1>3 DEF Ups, UpSingles, EndTypes, PartTypes
    <2> QED BY <1>1, <1>3, <2>1, SingleOpens
<1>4. CASE DeleteRequest \/ ListBucketRequest \/ PutHeadRequest \/ HeadRequest
    BY <1>3, <1>4, OthersStart
<1>5. CASE DownLoad(s, n)
    <2>1. CASE /\ call'.pc = "multi" /\ call'.op = "download"
               /\ \A i \in DOMAIN req' : req'[i].type = "GET"
        <3>1. TypesOk(req', call')
            BY <2>1 DEF TypesOk, Ups
        <3>2. odd \cap OpenMarks = {} => ~mpu.open
            BY <1>1 DEF OpenInv, MayBeOpen, TypesOk, Ups
        <3> QED BY <1>1, <3>1, <3>2 DEF OpenInv
    <2> QED BY <1>3, <1>5, <2>1, DownLoadStarts
<1> QED BY <1>2, <1>4, <1>5

LEMMA OpenStep == HandleInv /\ OpenInv /\ [Next]_vars => OpenInv'
<1> SUFFICES ASSUME HandleInv, OpenInv, [Next]_vars PROVE OpenInv'
    OBVIOUS
<1>1. 0 \in Nat
    OBVIOUS
<1>2. CASE \E n \in Sizes : UpLoad(n) \/ \E m \in 1 .. n : Mix(m, n)
    <2>1. PICK n \in Sizes : UpLoad(n) \/ \E m \in 1 .. n : Mix(m, n)
        BY <1>2, Zenon
    <2>2. n \in Nat
        BY RequestAssumption
    <2> QED BY <1>1, <2>1, <2>2, OpenCalls, Zenon
<1>3. CASE Copy \/ DeleteRequest \/ ListBucketRequest \/ PutHeadRequest \/ HeadRequest
    BY <1>1, <1>3, OpenCalls, Zenon
<1>4. CASE \E s \in 0 .. ObjectSize, n \in Sizes : DownLoad(s, n)
    <2>1. PICK s \in 0 .. ObjectSize, n \in Sizes : DownLoad(s, n)
        BY <1>4, Zenon
    <2>2. n \in Nat /\ s \in Nat
        BY RequestAssumption
    <2> QED BY <2>1, <2>2, OpenCalls, Zenon
<1>5. CASE \E op \in Ops : SetupFails(op)
    <2>1. UNCHANGED <<call, req, mpu, odd>>
        BY <1>5 DEF SetupFails, server
    <2> QED BY <2>1 DEF OpenInv
<1>6. CASE \E r \in DOMAIN req : Try(r) \/ Launch(r) \/ LazySetupFails(r)
    <2>1. PICK r \in DOMAIN req : Try(r) \/ Launch(r) \/ LazySetupFails(r)
        BY <1>6, Zenon
    <2> QED BY <2>1, OpenTry, OpenBatch
<1>7. CASE \/ HeadNextKey \/ SingleDone \/ PreMultipartDone \/ MultipartDone
           \/ MultiReadSpins \/ MultiRetry \/ DownLoadNext \/ AbortUpload
           \/ CompleteUpload(Etags)
    BY <1>7, OpenDone, OpenRest, OpenBatch
<1>8. CASE UNCHANGED vars
    <2>1. UNCHANGED <<call, req, mpu, odd>>
        BY <1>8 DEF vars, server
    <2> QED BY <2>1 DEF OpenInv
<1> QED BY <1>2, <1>3, <1>4, <1>5, <1>6, <1>7, <1>8, Zenon DEF Next, Steps

LEMMA OpenIsEnded == OpenInv => UploadEnded
BY DEF OpenInv, UploadEnded, OpenMarks, MayBeOpen, TypesOk, Ups

-----------------------------------------------------------------------------
(* Pieces of data put together.                                            *)

LEMMA LeastElement ==
    ASSUME NEW S, S \subseteq Nat, S # {}
    PROVE  \E x \in S : \A y \in S : x <= y
<1>1. PICK x \in S : \A y \in S : ~ (<<y, x>> \in OpToRel(<, Nat))
    BY NatLessThanWellFounded, WFMin
<1>2. ASSUME NEW y \in S, y < x PROVE <<y, x>> \in OpToRel(<, Nat)
    BY <1>2 DEF OpToRel
<1>3. \A y \in S : ~(y < x)
    BY <1>1, <1>2
<1> QED BY <1>3

Data == Seq(Int)

\* The pieces of some data w between the ends e.
CutAt(segs, w, e, m) ==
    /\ m \in Nat \ {0} /\ segs \in Seq(Data) /\ Len(segs) = m /\ w \in Data
    /\ e \in [0 .. m -> 0 .. Len(w)] /\ e[0] = 0 /\ e[m] = Len(w)
    /\ \A k \in 1 .. m : e[k - 1] <= e[k] /\ segs[k] = SubSeq(w, e[k - 1] + 1, e[k])

\* What FlattenSeq has put together when it is at a piece.
Put(segs, f) ==
    f = [i \in 1 .. Len(segs) |-> IF i = 1 THEN segs[i] ELSE f[i - 1] \o segs[i]]

LEMMA PutIsPrefix ==
    ASSUME NEW segs, NEW w, NEW e, NEW m, CutAt(segs, w, e, m)
    PROVE  Put(segs, [i \in 1 .. m |-> SubSeq(w, 1, e[i])])
<1>1. PICK g : g = [i \in 1 .. m |-> SubSeq(w, 1, e[i])]
    OBVIOUS
<1>2. ASSUME NEW i \in 1 .. m
      PROVE  g[i] = IF i = 1 THEN segs[i] ELSE g[i - 1] \o segs[i]
    <2>1. segs[i] = SubSeq(w, e[i - 1] + 1, e[i]) /\ e[i - 1] <= e[i]
        BY DEF CutAt
    <2>2. CASE i = 1
        <3>1. e[i - 1] + 1 = 1
            BY <2>2 DEF CutAt
        <3> QED BY <1>1, <2>1, <2>2, <3>1
    <2>3. CASE i # 1
        <3>1. i - 1 \in 1 .. m /\ i - 1 \in 0 .. m /\ i \in 0 .. m
            BY <2>3 DEF CutAt
        <3>2. PICK a \in 0 .. Len(w), b \in 0 .. Len(w) : a = e[i - 1] /\ b = e[i] /\ a <= b
            BY <2>1, <3>1 DEF CutAt
        <3>3. w \in Seq(Int) /\ Len(w) \in Nat
            BY DEF CutAt, Data
        <3>4. /\ 1 \in 1 .. Len(w) + 1 /\ a \in 1 - 1 .. Len(w) /\ b \in a .. Len(w)
            BY <3>2, <3>3
        <3>5. SubSeq(w, 1, a) \o SubSeq(w, a + 1, b) = SubSeq(w, 1, b)
            BY <3>3, <3>4, ConcatAdjacentSubSeq
        <3>6. g[i - 1] = SubSeq(w, 1, a) /\ g[i] = SubSeq(w, 1, b) /\ segs[i] = SubSeq(w, a + 1, b)
            BY <1>1, <2>1, <3>1, <3>2
        <3> QED BY <2>3, <3>5, <3>6
    <2> QED BY <2>2, <2>3
<1>3. Len(segs) = m
    BY DEF CutAt
<1>4. PICK h : h = [i \in 1 .. m |-> IF i = 1 THEN segs[i] ELSE g[i - 1] \o segs[i]]
    OBVIOUS
<1>5. g = h
    BY <1>1, <1>2, <1>4
<1>6. Put(segs, g)
    BY <1>3, <1>4, <1>5 DEF Put
<1> QED BY <1>1, <1>6

\* Two ways to put the pieces together are one.
LEMMA PutOnce ==
    ASSUME NEW segs, NEW f, NEW g, Put(segs, f), Put(segs, g), Len(segs) \in Nat,
           NEW i \in 1 .. Len(segs)
    PROVE  f[i] = g[i]
<1> DEFINE D == {k \in 1 .. Len(segs) : f[k] # g[k]}
<1> SUFFICES ASSUME D # {} PROVE FALSE
    OBVIOUS
<1>1. D \subseteq Nat
    OBVIOUS
<1>2. PICK x \in D : \A y \in D : x <= y
    <2> HIDE DEF D
    <2> QED BY <1>1, LeastElement
<1>3. x \in 1 .. Len(segs) /\ f[x] # g[x]
    OBVIOUS
<1>4. /\ f[x] = IF x = 1 THEN segs[x] ELSE f[x - 1] \o segs[x]
      /\ g[x] = IF x = 1 THEN segs[x] ELSE g[x - 1] \o segs[x]
    <2>1. PICK p : p = [k \in 1 .. Len(segs) |-> IF k = 1 THEN segs[k] ELSE f[k - 1] \o segs[k]]
        OBVIOUS
    <2>2. PICK q : q = [k \in 1 .. Len(segs) |-> IF k = 1 THEN segs[k] ELSE g[k - 1] \o segs[k]]
        OBVIOUS
    <2>3. f = p /\ g = q
        BY <2>1, <2>2 DEF Put
    <2>4. p[x] = IF x = 1 THEN segs[x] ELSE f[x - 1] \o segs[x]
        BY <1>3, <2>1
    <2>5. q[x] = IF x = 1 THEN segs[x] ELSE g[x - 1] \o segs[x]
        BY <1>3, <2>2
    <2> QED BY <2>3, <2>4, <2>5
<1>5. x # 1
    BY <1>3, <1>4
<1>6. x - 1 \in 1 .. Len(segs) /\ ~(x <= x - 1)
    BY <1>3, <1>5
<1>7. x - 1 \notin D
    BY <1>2, <1>6
<1>8. f[x - 1] = g[x - 1]
    BY <1>6, <1>7
<1> QED BY <1>3, <1>4, <1>5, <1>8

\* Pieces that follow each other from the start to the end make the whole.
LEMMA FlattenOfCut ==
    ASSUME NEW segs, NEW w, NEW e, NEW m, CutAt(segs, w, e, m)
    PROVE  FlattenSeq(segs) = w
<1>1. Len(segs) = m /\ m \in Nat /\ m # 0 /\ m \in 1 .. Len(segs) /\ m \in 0 .. m
    BY DEF CutAt
<1>2. PICK f : f = CHOOSE h : Put(segs, h)
    OBVIOUS
<1>3. PICK g : g = [i \in 1 .. m |-> SubSeq(w, 1, e[i])]
    OBVIOUS
<1>4. Put(segs, g)
    BY <1>3, PutIsPrefix
<1>5. Put(segs, f)
    BY <1>2, <1>4
<1>6. f[m] = g[m]
    BY <1>1, <1>4, <1>5, PutOnce
<1>7. g[m] = w
    <2>1. e[m] = Len(w) /\ w \in Seq(Int)
        BY DEF CutAt, Data
    <2>2. g[m] = SubSeq(w, 1, Len(w))
        BY <1>1, <1>3, <2>1
    <2> QED BY <2>1, <2>2, SubSeqFull
<1>8. FlattenSeq(segs) = f[m]
    BY <1>1, <1>2 DEF FlattenSeq, Put
<1> QED BY <1>6, <1>7, <1>8

-----------------------------------------------------------------------------
(* The data of an upload.                                                  *)

\* The deviations after which the data of an object is not vouched for.
UpClean == odd \cap Corrupting = {}

\* The data that the part q of a call c is for.
Piece(q, c) ==
    [k \in 1 .. q.b_size |->
        IF q.type = "COPYMULTIPOST" THEN c.was[q.b_start + k]
        ELSE IF q.b_start + k <= c.size THEN q.b_start + k ELSE Wild]

\* A request for one of the pieces segs.
PartFor(q, c, segs, cached) ==
    /\ DOMAIN q = ReqFields /\ q.type \in PartTypes /\ Rewound(q, cached)
    /\ q.part \in DOMAIN segs /\ Piece(q, c) = segs[q.part]

\* The parts in S3 are pieces of the data.
PartsOk(parts, segs) ==
    /\ parts \in [DOMAIN parts -> Data] /\ DOMAIN parts \subseteq DOMAIN segs
    /\ \A p \in DOMAIN parts : parts[p] = segs[p]

\* The pieces make the data that the call wants.
Whole(segs, c) == segs \in Seq(Data) /\ FlattenSeq(segs) = c.want

\* A small file goes in one request.  One that is tried again from memory has no body
\* any more, and is refused for its signature.
PutPhase(q, c, data, conf) ==
    /\ q.startpos = 0 /\ q.size = c.size /\ q.b_start = 0 /\ q.b_size = c.size /\ q.at = 0
    /\ c.size \in Nat \ {0} /\ c.want = [i \in 1 .. c.size |-> i]
    /\ q.st = "run" /\ conf.newcache /\ q.again => conf.signed
    /\ Succeeded(q) /\ ~q.errbody => data = c.want

\* The upload is asked for, its parts wait.
PrePhase(q, c, data, parts, segs, cached) ==
    /\ data = c.was /\ Whole(segs, c)
    /\ DOMAIN c.todo = DOMAIN segs
    /\ \A k \in DOMAIN c.todo : PartFor(c.todo[k], c, segs, cached)
    /\ Succeeded(q) => parts = <<>>

\* Its parts are sent and copied.
PartPhase(rs, c, data, parts, known, segs, cached) ==
    /\ data = c.was /\ Whole(segs, c)
    /\ \A i \in DOMAIN rs : PartFor(rs[i], c, segs, cached)
    /\ DOMAIN known = DOMAIN segs /\ PartsOk(parts, segs)

\* It is put together.
CompletePhase(q, c, data, parts, known, segs) ==
    /\ Whole(segs, c) /\ DOMAIN known = DOMAIN segs /\ PartsOk(parts, segs)
    /\ Succeeded(q) => data = c.want

UpOk(rs, c, data, parts, known, conf) ==
    /\ c.was \in Data /\ c.want \in Data /\ data \in {c.was, c.want}
    /\ c.pc = "one" /\ rs[1].type = "PUT" => PutPhase(rs[1], c, data, conf)
    /\ c.pc = "one" /\ rs[1].type = "PREMULTIPOST" =>
          \E segs : PrePhase(rs[1], c, data, parts, segs, conf.newcache)
    /\ c.pc \in {"multi", "spin"} =>
          \E segs : PartPhase(rs, c, data, parts, known, segs, conf.newcache)
    /\ c.pc = "one" /\ rs[1].type = "COMPLETEMULTIPOST" =>
          \E segs : CompletePhase(rs[1], c, data, parts, known, segs)
    /\ c.pc = "one" /\ rs[1].type = "ABORTMULTIUPLOAD" => c.res # "0"

UpDone == out.op \in Ups /\ out.res = "0" /\ call.pc = "idle" => obj.data = out.want

UpInv ==
    UpClean =>
       /\ obj.data \in Data /\ UpDone
       /\ call.op \in Ups => UpOk(req, call, obj.data, mpu.parts, etags, cfg)

-----------------------------------------------------------------------------
\* What the deviations of a try are not, when the data is still vouched for.
LEMMA CleanTry ==
    ASSUME NEW r, NEW o, NEW res, NEW t, TryStep(r, o, res, t), UpClean'
    PROVE  /\ UpClean
           /\ res = "retry" => Transferred(req[r], o.n).at = req[r].b_buf
           /\ res = "retry" /\ req[r].type = "PUT" /\ cfg.newcache => cfg.signed
           /\ req[r].type = "COMPLETEMULTIPOST" => ~o.errbody
<1>1. odd' = odd \cup Deviations(req[r], o, res)
    BY DEF TryStep
<1>2. UpClean /\ Deviations(req[r], o, res) \cap Corrupting = {}
    BY <1>1 DEF UpClean
<1>3. /\ "buffer not rewound" \notin Deviations(req[r], o, res)
      /\ "no body" \notin Deviations(req[r], o, res)
      /\ "answer not read" \notin Deviations(req[r], o, res)
    BY <1>2 DEF Corrupting
<1>4. res = "retry" => Transferred(req[r], o.n).at = req[r].b_buf
    BY <1>3 DEF Deviations
<1>5. res = "retry" /\ req[r].type = "PUT" /\ cfg.newcache => cfg.signed
    BY <1>3 DEF Deviations
<1>6. req[r].type = "COMPLETEMULTIPOST" => ~o.errbody
    BY <1>3 DEF Deviations
<1> QED BY <1>2, <1>4, <1>5, <1>6

\* A request that the server has carried out, with success.
LEMMA SuccessApplied ==
    ASSUME NEW r, NEW o, NEW res, NEW t, TryStep(r, o, res, t), Succeeded(t)
    PROVE  /\ o.applied \/ (o.errbody /\ req[r].type \in {"PUT", "PUTHEAD", "COPYMULTIPOST", "COMPLETEMULTIPOST"})
           /\ o.errbody \/ o.applied
<1>1. res = "0" /\ o \in Outcomes(req[r]) /\ res = PerformResult(req[r], o)
    BY DEF TryStep
<1> QED BY <1>1, SuccessKinds

\* The body of a PUT that the server takes.
LEMMA PutBodyWhole ==
    ASSUME NEW q, q.type = "PUT", q.st = "run", NEW data, PutPhase(q, call, data, cfg), ServerCode(q) < 300
    PROVE  Body(q) = call.want
<1>1. q.startpos = 0 /\ q.size = call.size /\ call.size \in Nat \ {0} /\ call.want = [i \in 1 .. call.size |-> i]
    BY DEF PutPhase
<1>2. ~Rejected(q)
    BY DEF ServerCode
<1>3. ~(cfg.newcache /\ q.again)
    <2>1. SUFFICES ASSUME cfg.newcache /\ q.again PROVE FALSE
        OBVIOUS
    <2>2. cfg.signed
        BY <2>1 DEF PutPhase
    <2>3. Body(q) = <<>>
        BY <2>1 DEF Body, PutBody
    <2>4. Len(Body(q)) # q.size
        BY <1>1, <2>3
    <2> QED BY <1>2, <2>2, <2>4 DEF Rejected
<1>4. Body(q) = From(0, call.size)
    BY <1>1, <1>3 DEF Body, PutBody
<1>5. From(0, call.size) = [i \in 1 .. call.size |-> i]
    BY <1>1 DEF From
<1> QED BY <1>1, <1>4, <1>5

LEMMA PutTry ==
    ASSUME NEW r, NEW o, NEW res, NEW t, TryStep(r, o, res, t), UpClean',
           req[r].type = "PUT", PutPhase(req[r], call, obj.data, cfg)
    PROVE  /\ PutPhase(t, call, obj'.data, cfg)
           /\ obj'.data \in {obj.data, call.want}
<1>1. PICK q : q = req[r]
    OBVIOUS
<1>2. /\ q.startpos = 0 /\ q.size = call.size /\ q.b_start = 0 /\ q.b_size = call.size /\ q.at = 0
      /\ call.size \in Nat \ {0} /\ call.want = [i \in 1 .. call.size |-> i]
    BY <1>1 DEF PutPhase
<1>3. o \in Outcomes(q) /\ t = Tried(r, o, res) /\ q.st = "run" /\ DOMAIN q = ReqFields
    BY <1>1 DEF TryStep
<1>4. o.n \in Nat /\ ~Moves(q)
    BY <1>1, <1>2, <1>3, OutcomeKinds DEF Moves
<1>5. /\ t.at = 0 /\ t.b_start = 0 /\ t.b_size = call.size
      /\ \/ res # "retry" /\ t.st = "ended" /\ t.startpos = 0 /\ t.size = call.size /\ t.errbody = o.errbody
         \/ res = "retry" /\ t.startpos = 0 /\ t.size = call.size
    <2>1. q.at \in Int /\ q.startpos \in Int /\ q.size \in Int
        BY <1>2
    <2> QED BY <1>1, <1>2, <1>3, <1>4, <2>1, TriedFields
<1>6. t.st = "run" /\ cfg.newcache => cfg.signed
    BY <1>1, <1>5, CleanTry
<1>7. o.applied => obj'.data = call.want
    <2>1. SUFFICES ASSUME o.applied PROVE obj'.data = call.want
        OBVIOUS
    <2>2. Carried(q)
        BY <1>1, <2>1 DEF TryStep
    <2>3. obj' = [exists |-> TRUE, data |-> Body(q)]
        BY <1>1, <2>2 DEF Carried
    <2>4. ServerCode(q) < 300
        BY <1>3, <2>1, AppliedCode
    <2>5. Body(q) = call.want
        BY <1>1, <1>3, <2>4, PutBodyWhole
    <2> QED BY <2>3, <2>5
<1>8. ~o.applied => obj' = obj
    BY DEF TryStep, server
<1>9. Succeeded(t) /\ ~t.errbody => obj'.data = call.want
    <2>1. SUFFICES ASSUME Succeeded(t), ~t.errbody PROVE o.applied
        BY <1>7
    <2>2. res = "0"
        BY <2>1 DEF TryStep
    <2>3. ~o.errbody
        BY <1>5, <2>1, <2>2
    <2> QED BY <2>1, <2>3, SuccessApplied
<1>10. PutPhase(t, call, obj'.data, cfg)
    BY <1>2, <1>5, <1>6, <1>9 DEF PutPhase
<1> QED BY <1>7, <1>8, <1>10

LEMMA PreTry ==
    ASSUME NEW r, NEW o, NEW res, NEW t, TryStep(r, o, res, t), NEW segs, NEW cached,
           req[r].type = "PREMULTIPOST", PrePhase(req[r], call, obj.data, mpu.parts, segs, cached)
    PROVE  PrePhase(t, call, obj'.data, mpu'.parts, segs, cached) /\ obj' = obj
<1>1. o.applied => obj' = obj /\ mpu'.parts = <<>>
    <2>1. SUFFICES ASSUME o.applied PROVE obj' = obj /\ mpu'.parts = <<>>
        OBVIOUS
    <2>2. Carried(req[r])
        BY <2>1 DEF TryStep
    <2> QED BY <2>2 DEF Carried
<1>2. ~o.applied => obj' = obj
    BY DEF TryStep, server
<1>3. Succeeded(t) => mpu'.parts = <<>>
    BY <1>1, SuccessApplied
<1> QED BY <1>1, <1>2, <1>3 DEF PrePhase

\* What a part that is ready sends, or has copied, is its piece.
LEMMA PartSends ==
    ASSUME NEW q, NEW segs, PartFor(q, call, segs, cfg.newcache), q.st = "run", call.was = obj.data
    PROVE  /\ q.type = "UPLOADMULTIPOST" => Body(q) = segs[q.part]
           /\ q.type = "COPYMULTIPOST" => CopyRange(q) = segs[q.part]
<1>1. /\ q.startpos = q.b_start /\ q.size = q.b_size /\ q.at = q.b_start
      /\ Piece(q, call) = segs[q.part]
    BY DEF PartFor, Rewound
<1>2. CASE q.type = "UPLOADMULTIPOST"
    <2>1. Body(q) = From(q.b_start, q.b_size)
        BY <1>1, <1>2 DEF Body, PartBody
    <2>2. From(q.b_start, q.b_size) = Piece(q, call)
        BY <1>2 DEF From, Piece
    <2> QED BY <1>1, <1>2, <2>1, <2>2
<1>3. CASE q.type = "COPYMULTIPOST"
    <2>1. CopyRange(q) = Piece(q, call)
        BY <1>3 DEF CopyRange, Piece
    <2> QED BY <1>1, <1>3, <2>1
<1> QED BY <1>2, <1>3

LEMMA PutPartKeeps ==
    ASSUME NEW parts, NEW segs, PartsOk(parts, segs), segs \in Seq(Data), NEW p \in DOMAIN segs
    PROVE  PartsOk([x \in DOMAIN parts \cup {p} |-> IF x = p THEN segs[p] ELSE parts[x]], segs)
<1>1. segs[p] \in Data
    OBVIOUS
<1> QED BY <1>1 DEF PartsOk

LEMMA PartTry ==
    ASSUME NEW r \in DOMAIN req, NEW o, NEW res, NEW t, TryStep(r, o, res, t), UpClean', NEW segs,
           DOMAIN mpu = {"open", "parts"},
           PartPhase(req, call, obj.data, mpu.parts, etags, segs, cfg.newcache)
    PROVE  /\ PartPhase(req', call, obj'.data, mpu'.parts, etags, segs, cfg.newcache)
           /\ obj' = obj
<1>1. PICK q : q = req[r]
    OBVIOUS
<1>2. /\ PartFor(q, call, segs, cfg.newcache) /\ obj.data = call.was /\ segs \in Seq(Data)
      /\ PartsOk(mpu.parts, segs)
    BY <1>1 DEF PartPhase, Whole
<1>3. /\ DOMAIN q = ReqFields /\ q.type \in PartTypes /\ Rewound(q, cfg.newcache)
      /\ q.part \in DOMAIN segs
    BY <1>2 DEF PartFor
<1>4. o \in Outcomes(q) /\ res = PerformResult(q, o) /\ t = Tried(r, o, res) /\ q.st = "run"
    BY <1>1 DEF TryStep
<1>5. BufferKept(q, o, res)
    BY <1>1, CleanTry DEF BufferKept
<1>6. Rewound(t, cfg.newcache)
    BY <1>1, <1>3, <1>4, <1>5, TryRewinds
<1>7. DOMAIN t = ReqFields /\ t.type = q.type /\ t.part = q.part /\ t.b_start = q.b_start /\ t.b_size = q.b_size
    <2>1. q.at \in Int /\ q.startpos \in Int /\ q.size \in Int /\ q.size \in Nat
        BY <1>3, <1>4 DEF Rewound
    <2>2. o.n \in Nat
        BY <1>4, <2>1, OutcomeKinds
    <2> QED BY <1>1, <1>3, <1>4, <2>1, <2>2, TriedFields
<1>8. Piece(t, call) = Piece(q, call)
    BY <1>7 DEF Piece
<1>9. PartFor(t, call, segs, cfg.newcache)
    BY <1>2, <1>6, <1>7, <1>8 DEF PartFor
<1>10. req' = [req EXCEPT ![r] = t]
    BY DEF TryStep
<1>11. \A i \in DOMAIN req' : PartFor(req'[i], call, segs, cfg.newcache)
    BY <1>9, <1>10 DEF PartPhase
<1>12. obj' = obj /\ PartsOk(mpu'.parts, segs)
    <2>1. CASE ~o.applied
        BY <1>2, <2>1 DEF TryStep, server
    <2>2. CASE o.applied
        <3>1. Carried(q)
            BY <1>1, <2>2 DEF TryStep
        <3>2. obj' = obj /\ mpu' = PutPart(q.part, segs[q.part])
            <4>1. /\ q.type = "UPLOADMULTIPOST" => Body(q) = segs[q.part]
                  /\ q.type = "COPYMULTIPOST" => CopyRange(q) = segs[q.part]
                BY <1>2, <1>4, PartSends
            <4>2. CASE q.type = "UPLOADMULTIPOST"
                BY <3>1, <4>1, <4>2 DEF Carried
            <4>3. CASE q.type = "COPYMULTIPOST"
                BY <3>1, <4>1, <4>3 DEF Carried
            <4> QED BY <1>3, <4>2, <4>3 DEF PartTypes
        <3>3. PICK p, d : p = q.part /\ d = segs[q.part]
            OBVIOUS
        <3>4. mpu'.parts = [x \in DOMAIN mpu.parts \cup {p} |-> IF x = p THEN d ELSE mpu.parts[x]]
            BY <3>2, <3>3 DEF PutPart
        <3>5. p \in DOMAIN segs /\ d = segs[p]
            BY <1>3, <3>3
        <3>6. PICK f : f = [x \in DOMAIN mpu.parts \cup {p} |-> IF x = p THEN segs[p] ELSE mpu.parts[x]]
            OBVIOUS
        <3>7. PartsOk(f, segs)
            BY <1>2, <3>5, <3>6, PutPartKeeps
        <3>8. mpu'.parts = f
            BY <3>4, <3>5, <3>6
        <3> QED BY <3>2, <3>7, <3>8
    <2> QED BY <2>1, <2>2
<1> QED BY <1>11, <1>12 DEF PartPhase

\* All the pieces put together are the data.
LEMMA AllParts ==
    ASSUME NEW parts, NEW segs, NEW c, Whole(segs, c), PartsOk(parts, segs), DOMAIN parts = DOMAIN segs
    PROVE  FlattenSeq(parts) = c.want
<1>1. parts = segs
    BY DEF Whole, PartsOk
<1> QED BY <1>1 DEF Whole

LEMMA NoParts ==
    ASSUME NEW segs
    PROVE  PartsOk(<<>>, segs)
BY DEF PartsOk

LEMMA CompleteTry ==
    ASSUME NEW r, NEW o, NEW res, NEW t, TryStep(r, o, res, t), UpClean', NEW segs,
           req[r].type = "COMPLETEMULTIPOST",
           CompletePhase(req[r], call, obj.data, mpu.parts, etags, segs)
    PROVE  /\ CompletePhase(t, call, obj'.data, mpu'.parts, etags, segs)
           /\ obj'.data \in {obj.data, call.want}
<1>1. PICK q : q = req[r]
    OBVIOUS
<1>2. /\ Whole(segs, call) /\ DOMAIN etags = DOMAIN segs /\ PartsOk(mpu.parts, segs)
    BY DEF CompletePhase
<1>3. CASE ~o.applied
    <2>1. UNCHANGED <<obj, mpu>>
        BY <1>3 DEF TryStep, server
    <2>2. ~Succeeded(t)
        <3>1. ~o.errbody
            BY CleanTry
        <3> QED BY <1>3, <3>1, SuccessApplied
    <2> QED BY <1>2, <2>1, <2>2 DEF CompletePhase
<1>4. CASE o.applied
    <2>1. Carried(q) /\ o \in Outcomes(q)
        BY <1>1, <1>4 DEF TryStep
    <2>2. obj' = [exists |-> TRUE, data |-> FlattenSeq(mpu.parts)] /\ mpu' = [open |-> FALSE, parts |-> <<>>]
        BY <1>1, <2>1 DEF Carried
    <2>3. ServerCode(q) < 300
        BY <1>4, <2>1, AppliedCode
    <2>4. PartsThere
        <3>1. ServerCode(q) = IF mpu.open /\ PartsThere THEN 200 ELSE 404
            BY <1>1 DEF ServerCode
        <3> QED BY <2>3, <3>1
    <2>5. DOMAIN mpu.parts = DOMAIN segs
        BY <1>2, <2>4 DEF PartsThere
    <2>6. FlattenSeq(mpu.parts) = call.want
        BY <1>2, <2>5, AllParts
    <2>7. obj'.data = call.want /\ mpu'.parts = <<>>
        BY <2>2, <2>6
    <2> QED BY <1>2, <2>7, NoParts DEF CompletePhase
<1> QED BY <1>3, <1>4

\* A request that changes the data of the object.
LEMMA OthersKeepData ==
    ASSUME NEW r, NEW o, NEW res, NEW t, TryStep(r, o, res, t), obj.data \in Data
    PROVE  /\ req[r].type \notin {"PUT", "COMPLETEMULTIPOST"} => obj'.data \in Data
           /\ req[r].type \notin {"PUT", "COMPLETEMULTIPOST", "DELETE"} => obj' = obj
<1>1. CASE ~o.applied
    BY <1>1 DEF TryStep, server
<1>2. CASE o.applied
    <2>1. Carried(req[r])
        BY <1>2 DEF TryStep
    <2>2. req[r].type = "DELETE" => obj'.data \in Data
        <3>1. req[r].type = "DELETE" => obj'.data = <<>>
            BY <2>1 DEF Carried
        <3>2. <<>> \in Seq(Int)
            OBVIOUS
        <3> QED BY <3>1, <3>2 DEF Data
    <2>3. req[r].type \notin {"PUT", "COMPLETEMULTIPOST", "DELETE"} => obj' = obj
        BY <2>1 DEF Carried, server
    <2> QED BY <2>2, <2>3
<1> QED BY <1>1, <1>2

LEMMA UpTry ==
    ASSUME HandleInv, OpenInv, UpInv, NEW r \in DOMAIN req, Try(r)
    PROVE  UpInv'
<1>1. PICK o, res, t : TryStep(r, o, res, t)
    BY TryChanges
<1>2. /\ call.pc \in {"one", "multi", "spin"}
      /\ call.pc = "one" => r = 1 /\ req'[1] = t
      /\ UNCHANGED <<cfg, call, etags, out>> /\ t.type = req[r].type
    BY <1>1 DEF TryStep
<1>3. SUFFICES ASSUME UpClean' PROVE /\ obj'.data \in Data
                                     /\ call.op \in Ups => UpOk(req', call, obj'.data, mpu'.parts, etags, cfg)
    <2>1. UpDone'
        BY <1>2 DEF UpDone
    <2>2. /\ call' = call /\ cfg' = cfg /\ etags' = etags
        BY <1>2
    <2> QED BY <2>1, <2>2 DEF UpInv
<1>4. UpClean
    BY <1>1, <1>3, CleanTry
<1>5. obj.data \in Data /\ (call.op \in Ups => UpOk(req, call, obj.data, mpu.parts, etags, cfg))
    BY <1>4 DEF UpInv
<1>6. CASE call.op \notin Ups
    <2>1. req[r].type \notin {"PUT", "COMPLETEMULTIPOST"}
        <3>1. CASE call.pc = "one"
            BY <1>2, <1>6, <3>1 DEF OpenInv, TypesOk, UpSingles, EndTypes
        <3>2. CASE call.pc # "one"
            <4>1. call.pc \in {"multi", "spin"} /\ TypesOk(req, call)
                BY <1>2, <3>2 DEF OpenInv
            <4>2. call.op = "download"
                BY <1>6, <4>1 DEF TypesOk
            <4>3. req[r].type = "GET"
                BY <4>1, <4>2 DEF TypesOk
            <4> QED BY <4>3
        <3> QED BY <3>1, <3>2
    <2> QED BY <1>1, <1>5, <1>6, <2>1, OthersKeepData
<1>7. CASE call.op \in Ups /\ call.pc = "one"
    <2>1. /\ call.was \in Data /\ call.want \in Data /\ obj.data \in {call.was, call.want}
          /\ r = 1 /\ req'[1] = t /\ t.type = req[1].type
          /\ req[1].type \in UpSingles
        BY <1>2, <1>5, <1>7 DEF UpOk, OpenInv, TypesOk
    <2>2. CASE req[1].type = "PUT"
        <3>1. PutPhase(req[1], call, obj.data, cfg)
            BY <1>5, <1>7, <2>2 DEF UpOk
        <3>2. PutPhase(t, call, obj'.data, cfg) /\ obj'.data \in {obj.data, call.want}
            BY <1>1, <1>3, <2>1, <2>2, <3>1, PutTry
        <3> QED BY <1>7, <2>1, <2>2, <3>2 DEF UpOk
    <2>3. CASE req[1].type = "PREMULTIPOST"
        <3>1. PICK segs : PrePhase(req[1], call, obj.data, mpu.parts, segs, cfg.newcache)
            BY <1>5, <1>7, <2>3 DEF UpOk
        <3>2. PrePhase(t, call, obj'.data, mpu'.parts, segs, cfg.newcache) /\ obj' = obj
            BY <1>1, <2>1, <2>3, <3>1, PreTry
        <3> QED BY <1>7, <2>1, <2>3, <3>2 DEF UpOk
    <2>4. CASE req[1].type = "COMPLETEMULTIPOST"
        <3>1. PICK segs : CompletePhase(req[1], call, obj.data, mpu.parts, etags, segs)
            BY <1>5, <1>7, <2>4 DEF UpOk
        <3>2. /\ CompletePhase(t, call, obj'.data, mpu'.parts, etags, segs)
              /\ obj'.data \in {obj.data, call.want}
            BY <1>1, <1>3, <2>1, <2>4, <3>1, CompleteTry
        <3> QED BY <1>7, <2>1, <2>4, <3>2 DEF UpOk
    <2>5. CASE req[1].type = "ABORTMULTIUPLOAD"
        <3>1. call.res # "0"
            BY <1>5, <1>7, <2>5 DEF UpOk
        <3>2. obj' = obj
            BY <1>1, <1>5, <2>1, <2>5, OthersKeepData
        <3> QED BY <1>5, <1>7, <2>1, <2>5, <3>1, <3>2 DEF UpOk
    <2> QED BY <2>1, <2>2, <2>3, <2>4, <2>5 DEF UpSingles, EndTypes
<1>8. CASE call.op \in Ups /\ call.pc # "one"
    <2>0. UpOk(req, call, obj.data, mpu.parts, etags, cfg) /\ call.pc \in {"multi", "spin"}
        BY <1>2, <1>5, <1>8
    <2>1. /\ call.was \in Data /\ call.want \in Data /\ obj.data \in {call.was, call.want}
          /\ call.pc \in {"multi", "spin"}
        BY <2>0 DEF UpOk
    <2>2. PICK segs : PartPhase(req, call, obj.data, mpu.parts, etags, segs, cfg.newcache)
        BY <2>0 DEF UpOk
    <2>3. /\ PartPhase(req', call, obj'.data, mpu'.parts, etags, segs, cfg.newcache)
          /\ obj' = obj
        BY <1>1, <1>3, <2>2, PartTry DEF OpenInv
    <2> QED BY <1>5, <1>8, <2>1, <2>3 DEF UpOk
<1> QED BY <1>6, <1>7, <1>8

\* A thread takes up a part, or fails to.
LEMMA PartTakenUp ==
    ASSUME NEW q, NEW c, NEW segs, NEW cached, PartFor(q, c, segs, cached), q.st = "new", NEW t,
           \/ \E h : t = [q EXCEPT !.st = "run", !.handle = h]
           \/ t = [q EXCEPT !.st = "ended"]
    PROVE  PartFor(t, c, segs, cached)
<1>1. DOMAIN q = ReqFields /\ Rewound(q, cached)
    BY DEF PartFor
<1>2. /\ DOMAIN t = ReqFields /\ t.type = q.type /\ t.curl = q.curl /\ t.part = q.part
      /\ t.b_start = q.b_start /\ t.b_size = q.b_size /\ t.b_buf = q.b_buf
      /\ t.startpos = q.startpos /\ t.size = q.size /\ t.at = q.at
    BY <1>1 DEF ReqFields
<1>3. Rewound(t, cached)
    BY <1>1, <1>2 DEF Rewound
<1>4. Piece(t, c) = Piece(q, c)
    BY <1>2 DEF Piece
<1> QED BY <1>2, <1>3, <1>4 DEF PartFor

\* A part is sent again from its backups.
LEMMA PartRetried ==
    ASSUME NEW q, NEW c, NEW segs, NEW cached, PartFor(q, c, segs, cached)
    PROVE  PartFor(RetryCallback(q), c, segs, cached)
<1>1. q.type \in PartTypes /\ Rewound(q, cached)
    BY DEF PartFor
<1>2. PICK n : n = NewReq(q.type, q.part, q.b_start, q.b_size, q.b_buf)
    OBVIOUS
<1>3. PICK t : t = [n EXCEPT !.retry = q.retry + 1]
    OBVIOUS
<1>4. RetryCallback(q) = t
    <2>1. CASE q.type = "UPLOADMULTIPOST"
        BY <1>2, <1>3, <2>1 DEF RetryCallback, UploadMultipartPostRetryCallback
    <2>2. CASE q.type = "COPYMULTIPOST"
        BY <1>2, <1>3, <2>2 DEF RetryCallback, CopyMultipartPostRetryCallback
    <2> QED BY <1>1, <2>1, <2>2 DEF PartTypes
<1>5. /\ DOMAIN n = ReqFields /\ n.type = q.type /\ n.part = q.part
      /\ n.startpos = q.b_start /\ n.size = q.b_size /\ n.at = q.b_buf
      /\ n.b_start = q.b_start /\ n.b_size = q.b_size /\ n.b_buf = q.b_buf /\ n.st = "new"
    BY <1>2, NewReqFields
<1>6. /\ DOMAIN t = ReqFields /\ t.type = q.type /\ t.part = q.part
      /\ t.startpos = q.b_start /\ t.size = q.b_size /\ t.at = q.b_buf
      /\ t.b_start = q.b_start /\ t.b_size = q.b_size /\ t.b_buf = q.b_buf /\ t.st = "new"
    BY <1>3, <1>5 DEF ReqFields
<1>7. Rewound(t, cached)
    BY <1>1, <1>6 DEF Rewound
<1>8. Piece(t, c) = Piece(q, c)
    BY <1>6 DEF Piece
<1> QED BY <1>4, <1>6, <1>7, <1>8 DEF PartFor

LEMMA UpBatch ==
    ASSUME HandleInv, OpenInv, UpInv,
           \/ \E r \in DOMAIN req : Launch(r) \/ LazySetupFails(r)
           \/ MultiReadSpins \/ MultiRetry
    PROVE  UpInv'
<1>1. /\ call.pc = "multi" /\ UNCHANGED <<cfg, obj, mpu, out>> /\ odd \subseteq odd' /\ DOMAIN call = CallFields
      /\ call' = call \/ call' = [call EXCEPT !.pc = "spin"]
    BY DEF Launch, LazySetupFails, MultiReadSpins, MultiRetry, Read, BatchEnded, server, HandleInv, CallOk
<1>2. /\ call'.pc \in {"multi", "spin"} /\ call'.op = call.op /\ call'.size = call.size
      /\ call'.was = call.was /\ call'.want = call.want
    BY <1>1 DEF CallFields
<1>3. UpDone'
    BY <1>2 DEF UpDone
<1>4. SUFFICES ASSUME UpClean'
               PROVE  obj.data \in Data /\ (call.op \in Ups => UpOk(req', call', obj.data, mpu.parts, etags', cfg))
    BY <1>1, <1>2, <1>3 DEF UpInv
<1>5. UpClean
    BY <1>1, <1>4 DEF UpClean
<1>6. obj.data \in Data /\ (call.op \in Ups => UpOk(req, call, obj.data, mpu.parts, etags, cfg))
    BY <1>5 DEF UpInv
<1>7. SUFFICES ASSUME call.op \in Ups PROVE UpOk(req', call', obj.data, mpu.parts, etags', cfg)
    BY <1>6
<1>8. PICK segs : PartPhase(req, call, obj.data, mpu.parts, etags, segs, cfg.newcache)
    BY <1>1, <1>6, <1>7 DEF UpOk
<1>9. ASSUME NEW q, PartFor(q, call, segs, cfg.newcache)
      PROVE  PartFor(q, call', segs, cfg.newcache)
    <2>1. Piece(q, call') = Piece(q, call)
        BY <1>2 DEF Piece
    <2> QED BY <1>9, <2>1 DEF PartFor
<1>10. /\ \A i \in DOMAIN req' : PartFor(req'[i], call, segs, cfg.newcache)
       /\ DOMAIN etags' = DOMAIN etags
    <2>1. \A i \in DOMAIN req : PartFor(req[i], call, segs, cfg.newcache)
        BY <1>8 DEF PartPhase
    <2>2. CASE \E r \in DOMAIN req : Launch(r) \/ LazySetupFails(r)
        <3>1. PICK r \in DOMAIN req : Launch(r) \/ LazySetupFails(r)
            BY <2>2
        <3>2. PICK h : h = Taken
            OBVIOUS
        <3>3. req[r].st = "new" /\ etags' = etags
            BY <3>1 DEF Launch, LazySetupFails, IsNext
        <3>4. \E z : /\ z = [req[r] EXCEPT !.st = "run", !.handle = h] \/ z = [req[r] EXCEPT !.st = "ended"]
                     /\ req' = [req EXCEPT ![r] = z]
            BY <3>1, <3>2 DEF Launch, LazySetupFails
        <3>5. PICK z : /\ z = [req[r] EXCEPT !.st = "run", !.handle = h] \/ z = [req[r] EXCEPT !.st = "ended"]
                       /\ req' = [req EXCEPT ![r] = z]
            BY <3>4
        <3>6. PartFor(z, call, segs, cfg.newcache)
            BY <2>1, <3>3, <3>5, PartTakenUp
        <3> QED BY <2>1, <3>3, <3>5, <3>6
    <2>3. CASE MultiReadSpins
        BY <2>1, <2>3 DEF MultiReadSpins
    <2>4. CASE MultiRetry
        <3>1. req' = [i \in {j \in DOMAIN req : Failed(req[j])} |-> RetryCallback(req[i])] /\ etags' = Etags
            BY <2>4 DEF MultiRetry
        <3>2. \A i \in DOMAIN req' : i \in DOMAIN req /\ req'[i] = RetryCallback(req[i])
            BY <3>1
        <3>3. \A i \in DOMAIN req' : PartFor(req'[i], call, segs, cfg.newcache)
            BY <2>1, <3>2, PartRetried
        <3>4. DOMAIN etags' = DOMAIN etags
            BY <3>1 DEF Etags
        <3> QED BY <3>3, <3>4
    <2> QED BY <2>2, <2>3, <2>4
<1>11. PartPhase(req', call', obj.data, mpu.parts, etags', segs, cfg.newcache)
    BY <1>2, <1>8, <1>9, <1>10 DEF PartPhase, Whole
<1> QED BY <1>2, <1>6, <1>7, <1>11 DEF UpOk

\* A call that ends with an error, or has put the data there.
LEMMA UpAnswered ==
    ASSUME UpInv, NEW res, Answered(call, res), UNCHANGED <<cfg, obj, mpu>>, odd \subseteq odd',
           UpClean /\ call.op \in Ups /\ res = "0" => obj.data = call.want
    PROVE  UpInv'
<1>1. call' = Idle /\ out'.op = call.op /\ out'.res = res /\ out'.want = call.want
    BY DEF Answered
<1>2. call'.op \notin Ups
    BY <1>1 DEF Idle, Ups
<1>3. UpClean' => UpClean
    BY DEF UpClean
<1>4. UpClean => UpDone'
    BY <1>1 DEF UpDone
<1> QED BY <1>2, <1>3, <1>4 DEF UpInv

LEMMA UpDones ==
    ASSUME HandleInv, OpenInv, UpInv, HeadNextKey \/ SingleDone \/ PreMultipartDone \/ MultipartDone
    PROVE  UpInv'
<1>1. /\ call.pc = "one" /\ req[1].st = "ended" /\ UNCHANGED <<cfg, obj, mpu>> /\ odd \subseteq odd'
      /\ DOMAIN call = CallFields
    BY DEF HeadNextKey, SingleDone, PreMultipartDone, MultipartDone, OneEnded, server, HandleInv, CallOk
<1>2. call.op \in Ups <=> req[1].type \in UpSingles
    BY <1>1 DEF OpenInv, TypesOk
<1>3. UpClean /\ call.op \in Ups => UpOk(req, call, obj.data, mpu.parts, etags, cfg)
    BY DEF UpInv
<1>4. CASE HeadNextKey
    <2>1. /\ req[1].type = "HEAD" /\ call' = [call EXCEPT !.key = @ + 1] /\ odd' = odd /\ out' = out
        BY <1>4 DEF HeadNextKey, OneEnded
    <2>2. call'.pc = "one" /\ call'.op = call.op
        BY <1>1, <2>1 DEF CallFields
    <2>3. call'.op \notin Ups
        BY <1>2, <2>1, <2>2 DEF UpSingles, EndTypes
    <2>4. UpDone'
        BY <2>2 DEF UpDone
    <2>5. UpClean' => UpClean
        BY <2>1 DEF UpClean
    <2> QED BY <1>1, <2>3, <2>4, <2>5 DEF UpInv
<1>5. CASE SingleDone
    <2>1. /\ req[1].type \in {"HEAD", "PUT", "PUTHEAD", "GET", "DELETE", "LISTBUCKET"}
          /\ Answered(call, MapPutErrorResponse(req[1]))
        BY <1>5 DEF SingleDone, OneEnded
    <2>2. ASSUME UpClean, call.op \in Ups, MapPutErrorResponse(req[1]) = "0" PROVE obj.data = call.want
        <3>1. req[1].type = "PUT"
            BY <1>2, <2>1, <2>2 DEF UpSingles, EndTypes
        <3>2. PutPhase(req[1], call, obj.data, cfg)
            BY <1>1, <1>3, <2>2, <3>1 DEF UpOk
        <3>3. ~req[1].errbody /\ req[1].res = "0"
            BY <2>2, <3>1 DEF MapPutErrorResponse
        <3> QED BY <1>1, <3>2, <3>3 DEF PutPhase, Succeeded
    <2> QED BY <1>1, <2>1, <2>2, UpAnswered
<1>6. CASE PreMultipartDone
    <2>1. /\ req[1].type = "PREMULTIPOST" /\ odd' = odd
          /\ req[1].res # "0" => Answered(call, req[1].res)
          /\ req[1].res = "0" => /\ Batch([call EXCEPT !.todo = <<>>], call.todo)
                                 /\ etags' = [k \in DOMAIN call.todo |-> FALSE] /\ out' = out
        BY <1>6 DEF PreMultipartDone, OneEnded
    <2>2. CASE req[1].res # "0"
        BY <1>1, <2>1, <2>2, UpAnswered
    <2>3. CASE req[1].res = "0"
        <3>1. call' = [[call EXCEPT !.todo = <<>>] EXCEPT !.pc = "multi"] /\ req' = call.todo
            BY <2>1, <2>3 DEF Batch
        <3>2. /\ call'.pc = "multi" /\ call'.op = call.op /\ call'.size = call.size
              /\ call'.was = call.was /\ call'.want = call.want
            BY <1>1, <3>1 DEF CallFields
        <3>3. UpDone'
            BY <3>2 DEF UpDone
        <3>4. SUFFICES ASSUME UpClean'
                       PROVE  /\ obj.data \in Data
                              /\ call.op \in Ups => UpOk(req', call', obj.data, mpu.parts, etags', cfg)
            BY <1>1, <3>2, <3>3 DEF UpInv
        <3>5. UpClean /\ obj.data \in Data
            BY <2>1, <3>4 DEF UpClean, UpInv
        <3>6. SUFFICES ASSUME call.op \in Ups PROVE UpOk(req', call', obj.data, mpu.parts, etags', cfg)
            BY <3>5
        <3>7. PICK segs : PrePhase(req[1], call, obj.data, mpu.parts, segs, cfg.newcache)
            BY <1>1, <1>3, <2>1, <3>5, <3>6 DEF UpOk
        <3>8. ASSUME NEW q, PartFor(q, call, segs, cfg.newcache)
              PROVE  PartFor(q, call', segs, cfg.newcache)
            <4>1. Piece(q, call') = Piece(q, call)
                BY <3>2 DEF Piece
            <4> QED BY <3>8, <4>1 DEF PartFor
        <3>9. mpu.parts = <<>>
            BY <1>1, <2>3, <3>7 DEF PrePhase, Succeeded
        <3>10. DOMAIN etags' = DOMAIN segs
            BY <2>1, <2>3, <3>7 DEF PrePhase
        <3>11. PartPhase(req', call', obj.data, mpu.parts, etags', segs, cfg.newcache)
            BY <3>1, <3>2, <3>7, <3>8, <3>9, <3>10, NoParts DEF PartPhase, PrePhase, Whole
        <3>12. call.was \in Data /\ call.want \in Data /\ obj.data \in {call.was, call.want}
            BY <1>3, <3>5, <3>6 DEF UpOk
        <3> QED BY <3>2, <3>11, <3>12 DEF UpOk
    <2> QED BY <2>2, <2>3
<1>7. CASE MultipartDone
    <2>1. /\ req[1].type \in EndTypes
          /\ Answered(call, IF req[1].type = "COMPLETEMULTIPOST" THEN req[1].res ELSE call.res)
        BY <1>7 DEF MultipartDone, OneEnded, EndTypes
    <2>2. PICK res : res = IF req[1].type = "COMPLETEMULTIPOST" THEN req[1].res ELSE call.res
        OBVIOUS
    <2>3. ASSUME UpClean, call.op \in Ups, res = "0" PROVE obj.data = call.want
        <3>1. UpOk(req, call, obj.data, mpu.parts, etags, cfg)
            BY <1>3, <2>3
        <3>2. req[1].type = "COMPLETEMULTIPOST"
            BY <1>1, <2>1, <2>2, <2>3, <3>1 DEF UpOk, EndTypes
        <3>3. PICK segs : CompletePhase(req[1], call, obj.data, mpu.parts, etags, segs)
            BY <1>1, <3>1, <3>2 DEF UpOk
        <3> QED BY <1>1, <2>2, <2>3, <3>2, <3>3 DEF CompletePhase, Succeeded
    <2> QED BY <1>1, <2>1, <2>2, <2>3, UpAnswered
<1> QED BY <1>4, <1>5, <1>6, <1>7

LEMMA UpRest ==
    ASSUME HandleInv, OpenInv, UpInv, DownLoadNext \/ AbortUpload \/ CompleteUpload(Etags)
    PROVE  UpInv'
<1>1. /\ call.pc = "multi" /\ UNCHANGED <<cfg, obj, mpu>> /\ odd \subseteq odd' /\ DOMAIN call = CallFields
    BY DEF DownLoadNext, AbortUpload, CompleteUpload, Read, BatchEnded, server, HandleInv, CallOk
<1>2. UpClean' => UpClean
    BY <1>1 DEF UpClean
<1>3. UpClean => obj.data \in Data /\ (call.op \in Ups => UpOk(req, call, obj.data, mpu.parts, etags, cfg))
    BY DEF UpInv
<1>4. call.op \in Ups \cup {"download"}
    BY <1>1 DEF OpenInv, TypesOk
<1>5. CASE DownLoadNext
    <2>1. call.op = "download" /\ call.op \notin Ups
        BY <1>5 DEF DownLoadNext, Ups
    <2>2. CASE \E res : Answered(call, res)
        BY <1>1, <2>1, <2>2, UpAnswered
    <2>3. CASE out' = out /\ \E rest, now : Batch([call EXCEPT !.todo = rest], now)
        <3>1. PICK rest : call' = [[call EXCEPT !.todo = rest] EXCEPT !.pc = "multi"]
            BY <2>3 DEF Batch
        <3>2. call'.pc = "multi" /\ call'.op = call.op
            BY <1>1, <3>1 DEF CallFields
        <3>3. UpDone'
            BY <3>2 DEF UpDone
        <3> QED BY <1>1, <1>2, <1>3, <2>1, <3>2, <3>3 DEF UpInv
    <2> QED BY <1>5, <2>2, <2>3 DEF DownLoadNext
<1>6. CASE AbortUpload
    <2>1. PICK c : c = [call EXCEPT !.res = "EIO"]
        OBVIOUS
    <2>2. /\ DOMAIN c = CallFields /\ c.op = call.op /\ c.res = "EIO"
          /\ c.was = call.was /\ c.want = call.want
        BY <1>1, <2>1 DEF CallFields
    <2>3. PICK q : q = Plain("ABORTMULTIUPLOAD") /\ DOMAIN q = ReqFields /\ q.type = "ABORTMULTIUPLOAD"
        BY PlainShape
    <2>4. Single(c, q) /\ call.op \in Ups
        BY <1>4, <1>6, <2>1, <2>3 DEF AbortUpload
    <2>5. /\ call'.pc = "one" /\ call'.op = call.op /\ call'.res = "EIO"
          /\ call'.was = call.was /\ call'.want = call.want /\ req'[1].type = "ABORTMULTIUPLOAD"
        BY <2>2, <2>3, <2>4, SingleStarts
    <2>6. UpDone'
        BY <2>5 DEF UpDone
    <2>7. ASSUME UpClean PROVE UpOk(req', call', obj.data, mpu.parts, etags', cfg)
        BY <1>3, <2>4, <2>5, <2>7 DEF UpOk
    <2> QED BY <1>1, <1>2, <1>3, <2>4, <2>5, <2>6, <2>7 DEF UpInv
<1>7. CASE CompleteUpload(Etags)
    <2>1. call.op \in Ups /\ etags' = Etags
        BY <1>4, <1>7 DEF CompleteUpload
    <2>2. CASE Single(call, Plain("COMPLETEMULTIPOST"))
        <3>1. PICK q : q = Plain("COMPLETEMULTIPOST") /\ DOMAIN q = ReqFields /\ q.type = "COMPLETEMULTIPOST"
            BY PlainShape
        <3>2. /\ call'.pc = "one" /\ call'.op = call.op /\ call'.was = call.was /\ call'.want = call.want
              /\ req'[1].type = "COMPLETEMULTIPOST" /\ req'[1].st = "run"
            BY <1>1, <2>2, <3>1, SingleStarts
        <3>3. UpDone'
            BY <3>2 DEF UpDone
        <3>4. ASSUME UpClean PROVE UpOk(req', call', obj.data, mpu.parts, etags', cfg)
            <4>1. UpOk(req, call, obj.data, mpu.parts, etags, cfg)
                BY <1>3, <2>1, <3>4
            <4>2. PICK segs : PartPhase(req, call, obj.data, mpu.parts, etags, segs, cfg.newcache)
                BY <1>1, <4>1 DEF UpOk
            <4>3. DOMAIN etags' = DOMAIN segs
                BY <2>1, <4>2 DEF PartPhase, Etags
            <4>4. CompletePhase(req'[1], call', obj.data, mpu.parts, etags', segs)
                BY <3>2, <4>2, <4>3 DEF PartPhase, CompletePhase, Whole, Succeeded
            <4>5. call.was \in Data /\ call.want \in Data /\ obj.data \in {call.was, call.want}
                BY <4>1 DEF UpOk
            <4> QED BY <3>2, <4>4, <4>5 DEF UpOk
        <3> QED BY <1>1, <1>2, <1>3, <2>1, <3>2, <3>3, <3>4 DEF UpInv
    <2>3. CASE Answered(call, "EIO")
        BY <1>1, <2>3, UpAnswered
    <2> QED BY <1>7, <2>2, <2>3 DEF CompleteUpload
<1> QED BY <1>5, <1>6, <1>7

-----------------------------------------------------------------------------
(* The parts of an upload follow each other from its start to its end.     *)

\* The chunks cs of n units, m of them, between the ends e.
Cut(cs, e, m, n) ==
    /\ m \in Nat \ {0} /\ n \in Nat /\ DOMAIN cs = 1 .. m
    /\ e \in [0 .. m -> 0 .. n] /\ e[0] = 0 /\ e[m] = n
    /\ \A k \in 1 .. m : cs[k].start = e[k - 1] /\ cs[k].size = e[k] - e[k - 1] /\ e[k - 1] < e[k]

LEMMA ChunksCut ==
    ASSUME NEW n \in Nat \ {0}, NEW chunk \in Nat \ {0}
    PROVE  \E e, m : Cut(Chunks(n, chunk), e, m, n)
<1>1. PICK cs : cs = Chunks(n, chunk)
    OBVIOUS
<1>2. PICK m \in Nat : /\ DOMAIN cs = 1 .. m /\ n <= m * chunk
                       /\ \A k \in 1 .. m : /\ cs[k].start = (k - 1) * chunk
                                            /\ cs[k].size \in Nat \ {0}
                                            /\ cs[k].start + cs[k].size = Min2(k * chunk, n)
                                            /\ k < m => k * chunk < n
    BY <1>1, ChunksFollow
<1>3. m # 0
    <2>1. 0 * chunk = 0
        OBVIOUS
    <2> QED BY <1>2, <2>1
<1>4. PICK e : e = [k \in 0 .. m |-> Min2(k * chunk, n)]
    OBVIOUS
<1>5. ASSUME NEW k \in 0 .. m PROVE e[k] \in 0 .. n
    <2>1. PICK p \in Int : p = k * chunk /\ p >= 0
        <3>1. k * chunk \in Nat
            BY <1>2
        <3> QED BY <3>1
    <2> QED BY <1>4, <2>1 DEF Min2
<1>6. e \in [0 .. m -> 0 .. n]
    BY <1>4, <1>5
<1>7. e[0] = 0 /\ e[m] = n
    <2>1. 0 * chunk = 0 /\ 0 \in 0 .. m /\ m \in 0 .. m
        BY <1>2
    <2>2. PICK p \in Int : p = m * chunk
        BY <1>2
    <2> QED BY <1>2, <1>4, <2>1, <2>2 DEF Min2
<1>8. ASSUME NEW k \in 1 .. m
      PROVE  cs[k].start = e[k - 1] /\ cs[k].size = e[k] - e[k - 1] /\ e[k - 1] < e[k]
    <2>1. k \in 0 .. m /\ k - 1 \in 0 .. m
        OBVIOUS
    <2>2. PICK p \in Int : p = (k - 1) * chunk
        BY <1>2
    <2>3. p = e[k - 1]
        <3>1. CASE k = 1
            BY <1>7, <2>2, <3>1
        <3>2. CASE k # 1
            <4>1. k - 1 \in 1 .. m /\ k - 1 < m
                BY <3>2
            <4>2. p < n
                BY <1>2, <2>2, <4>1
            <4> QED BY <1>4, <2>1, <2>2, <4>2 DEF Min2
        <3> QED BY <3>1, <3>2
    <2>4. e[k] = Min2(k * chunk, n)
        BY <1>4, <2>1
    <2>5. cs[k].start = p /\ cs[k].size \in Nat \ {0} /\ cs[k].start + cs[k].size = e[k]
        BY <1>2, <2>2, <2>4
    <2>6. e[k] \in Int
        BY <1>5, <2>1
    <2> QED BY <2>3, <2>5, <2>6
<1>9. Cut(cs, e, m, n)
    BY <1>2, <1>3, <1>6, <1>7, <1>8 DEF Cut
<1> QED BY <1>1, <1>9

\* A last chunk that is joined to the one before it.
LEMMA JoinedCut ==
    ASSUME NEW n \in Nat \ {0}, NEW chunk \in Nat \ {0}
    PROVE  \E e, m : Cut(Joined(Chunks(n, chunk)), e, m, n)
<1>1. PICK cs : cs = Chunks(n, chunk) /\ cs \in Seq([start : Int, size : Int])
    BY ChunksAreSeq
<1>2. PICK e, m : Cut(cs, e, m, n)
    BY <1>1, ChunksCut
<1>3. m \in Nat \ {0} /\ DOMAIN cs = 1 .. m /\ Len(cs) = m
    BY <1>1, <1>2 DEF Cut
<1>4. CASE Joined(cs) = cs
    BY <1>1, <1>2, <1>4
<1>5. CASE Joined(cs) # cs
    <2>1. m > 1
        BY <1>3, <1>5 DEF Joined
    <2>2. PICK j \in Nat \ {0} : j + 1 = m /\ j = m - 1
        BY <1>3, <2>1
    <2>3. PICK s : s = SubSeq(cs, 1, j)
        OBVIOUS
    <2>4. DOMAIN s = 1 .. j /\ \A k \in 1 .. j : s[k] = cs[k]
        <3>1. PICK CS : cs \in Seq(CS)
            BY <1>1
        <3>2. Len(cs) = j + 1
            BY <1>3, <2>2
        <3>3. Len(s) = j /\ s \in Seq(CS)
            BY <2>3, <3>1, <3>2
        <3>4. \A k \in 1 .. j : s[k] = cs[k]
            BY <2>3, <3>1, <3>2
        <3> QED BY <3>3, <3>4
    <2>5. PICK ds : ds = [s EXCEPT ![j].size = s[j].size + cs[j + 1].size]
        OBVIOUS
    <2>6. Joined(cs) = ds
        BY <1>3, <1>5, <2>2, <2>3, <2>5 DEF Joined
    <2>7. PICK g : g = [k \in 0 .. j |-> IF k = j THEN n ELSE e[k]]
        OBVIOUS
    <2>8. e \in [0 .. m -> 0 .. n] /\ e[0] = 0 /\ e[m] = n
        BY <1>2 DEF Cut
    <2>9. g \in [0 .. j -> 0 .. n] /\ g[0] = 0 /\ g[j] = n
        BY <2>2, <2>7, <2>8
    <2>10. ASSUME NEW k \in 1 .. j
           PROVE  ds[k].start = g[k - 1] /\ ds[k].size = g[k] - g[k - 1] /\ g[k - 1] < g[k]
        <3>1. k \in 1 .. m /\ k - 1 \in 0 .. j /\ k \in 0 .. j /\ k - 1 # j /\ j + 1 \in 1 .. m
            BY <2>2
        <3>2. /\ cs[k].start = e[k - 1] /\ cs[k].size = e[k] - e[k - 1] /\ e[k - 1] < e[k]
              /\ cs[j + 1].size = e[j + 1] - e[j] /\ e[j] < e[j + 1]
            BY <1>2, <2>2, <3>1 DEF Cut
        <3>3. e[k - 1] \in Int /\ e[k] \in Int /\ e[j] \in Int /\ e[j + 1] = n
            BY <2>2, <2>8, <3>1
        <3>4. g[k - 1] = e[k - 1]
            BY <2>7, <3>1
        <3>5. CASE k = j
            <4>1. ds[k].start = s[k].start /\ ds[k].size = s[j].size + cs[j + 1].size
                BY <2>4, <2>5, <3>5
            <4>2. s[j].size = e[j] - e[j - 1] /\ s[k] = cs[k]
                BY <2>4, <3>2, <3>5
            <4>3. ds[k].size = n - e[k - 1]
                BY <3>2, <3>3, <3>5, <4>1, <4>2
            <4>4. g[k] = n
                BY <2>7, <3>1, <3>5
            <4> QED BY <3>2, <3>3, <3>4, <3>5, <4>1, <4>2, <4>3, <4>4
        <3>6. CASE k # j
            <4>1. ds[k] = cs[k] /\ g[k] = e[k]
                BY <2>4, <2>5, <2>7, <3>1, <3>6
            <4> QED BY <3>2, <3>4, <4>1
        <3> QED BY <3>5, <3>6
    <2>11. DOMAIN ds = 1 .. j
        BY <2>4, <2>5
    <2>12. Cut(ds, g, j, n)
        BY <2>9, <2>10, <2>11 DEF Cut
    <2> QED BY <1>1, <2>6, <2>12
<1> QED BY <1>4, <1>5

\* The new requests ps for the parts of n units.
PartCut(ps, e, m, n) ==
    /\ m \in Nat \ {0} /\ n \in Nat /\ DOMAIN ps = 1 .. m
    /\ e \in [0 .. m -> 0 .. n] /\ e[0] = 0 /\ e[m] = n
    /\ \A k \in 1 .. m :
          /\ e[k - 1] < e[k]
          /\ \E type \in PartTypes : ps[k] = NewReq(type, k, e[k - 1], e[k] - e[k - 1], e[k - 1])

\* A part has the units of the data w.
PartOfData(q, c, w) ==
    \A x \in q.b_start + 1 .. q.b_start + q.b_size :
        IF q.type = "COPYMULTIPOST" THEN c.was[x] = w[x] ELSE w[x] = x

LEMMA PartsMakeData ==
    ASSUME NEW ps, NEW e, NEW m, NEW c, NEW w \in Data, PartCut(ps, e, m, Len(w)), NEW cached,
           c.want = w, c.size = Len(w), \A k \in DOMAIN ps : PartOfData(ps[k], c, w)
    PROVE  \E segs : /\ Whole(segs, c) /\ DOMAIN ps = DOMAIN segs
                     /\ \A k \in DOMAIN ps : PartFor(ps[k], c, segs, cached)
<1>1. /\ m \in Nat \ {0} /\ Len(w) \in Nat /\ DOMAIN ps = 1 .. m
      /\ e \in [0 .. m -> 0 .. Len(w)] /\ e[0] = 0 /\ e[m] = Len(w)
    BY DEF PartCut
<1>2. PICK segs : segs = [k \in 1 .. m |-> SubSeq(w, e[k - 1] + 1, e[k])]
    OBVIOUS
<1>3. ASSUME NEW k \in 1 .. m
      PROVE  /\ e[k - 1] \in 0 .. Len(w) /\ e[k] \in 0 .. Len(w) /\ e[k - 1] < e[k]
             /\ segs[k] = SubSeq(w, e[k - 1] + 1, e[k]) /\ segs[k] \in Data
    <2>1. k - 1 \in 0 .. m /\ k \in 0 .. m
        BY <1>1
    <2>2. e[k - 1] \in 0 .. Len(w) /\ e[k] \in 0 .. Len(w) /\ e[k - 1] < e[k]
        BY <1>1, <2>1 DEF PartCut
    <2>3. PICK a \in 0 .. Len(w), b \in 0 .. Len(w) : a = e[k - 1] /\ b = e[k]
        BY <2>2
    <2>4. SubSeq(w, a + 1, b) \in Seq(Int)
        BY <2>3 DEF Data
    <2> QED BY <1>2, <2>2, <2>3, <2>4 DEF Data
<1>4. segs \in Seq(Data) /\ Len(segs) = m /\ DOMAIN segs = 1 .. m
    BY <1>1, <1>2, <1>3
<1>5. CutAt(segs, w, e, m)
    <2>1. ASSUME NEW k \in 1 .. m
          PROVE  e[k - 1] <= e[k] /\ segs[k] = SubSeq(w, e[k - 1] + 1, e[k])
        <3>1. PICK n \in Nat : n = Len(w)
            BY <1>1
        <3>2. PICK a \in 0 .. n, b \in 0 .. n : a = e[k - 1] /\ b = e[k] /\ a < b
            BY <1>3, <3>1
        <3>3. a <= b
            BY <3>1, <3>2
        <3> QED BY <1>3, <3>2, <3>3
    <2> QED BY <1>1, <1>4, <2>1 DEF CutAt
<1>6. Whole(segs, c)
    BY <1>4, <1>5, FlattenOfCut DEF Whole
<1>7. ASSUME NEW k \in 1 .. m PROVE PartFor(ps[k], c, segs, cached)
    <2>1. PICK type \in PartTypes : ps[k] = NewReq(type, k, e[k - 1], e[k] - e[k - 1], e[k - 1])
        BY <1>7 DEF PartCut
    <2>2. PICK a \in 0 .. Len(w), b \in 0 .. Len(w) : a = e[k - 1] /\ b = e[k] /\ a < b
        BY <1>3
    <2>3. PICK z \in Nat \ {0} : z = b - a
        BY <1>1, <2>2
    <2>4. PICK q : q = NewReq(type, k, a, z, a)
        OBVIOUS
    <2>41. q = ps[k]
        BY <2>1, <2>2, <2>3, <2>4
    <2>5. /\ DOMAIN q = ReqFields /\ q.type = type /\ q.part = k
          /\ q.startpos = a /\ q.size = z /\ q.at = a
          /\ q.b_start = a /\ q.b_size = z /\ q.b_buf = a /\ q.st = "new"
        BY <2>4, NewReqFields
    <2>6. Rewound(q, cached)
        <3>1. a \in Nat /\ z \in Int
            BY <1>1, <2>2, <2>3
        <3> QED BY <2>3, <2>5, <3>1 DEF Rewound
    <2>7. Piece(q, c) = segs[k]
        <3>1. segs[k] = SubSeq(w, a + 1, b)
            BY <1>3, <2>2
        <3>2. SubSeq(w, a + 1, b) = [i \in 1 .. z |-> w[a + i]]
            <4>1. a \in Int /\ b \in Int /\ z \in Int /\ z = b - a
                BY <1>1, <2>2, <2>3
            <4>2. PICK s : s = SubSeq(w, a + 1, b)
                OBVIOUS
            <4>3. a + 1 \in 1 .. Len(w) + 1 /\ b \in (a + 1) - 1 .. Len(w)
                BY <1>1, <2>2
            <4>4. /\ s \in Seq(Int) /\ Len(s) = b - (a + 1) + 1
                  /\ \A i \in 1 .. b - (a + 1) + 1 : s[i] = w[(a + 1) + i - 1]
                BY <4>2, <4>3, SubSeqProperties DEF Data
            <4>5. b - (a + 1) + 1 = z /\ \A i \in 1 .. z : (a + 1) + i - 1 = a + i
                BY <4>1
            <4>6. Len(s) = z /\ \A i \in 1 .. z : s[i] = w[a + i]
                BY <4>4, <4>5
            <4>7. s = [i \in 1 .. z |-> s[i]]
                BY <4>4, <4>6
            <4> QED BY <4>2, <4>6, <4>7
        <3>3. PartOfData(q, c, w)
            BY <1>1, <2>41
        <3>4. ASSUME NEW i \in 1 .. z
              PROVE  w[a + i] = IF q.type = "COPYMULTIPOST" THEN c.was[q.b_start + i]
                                ELSE IF q.b_start + i <= c.size THEN q.b_start + i ELSE Wild
            <4>1. a + i \in q.b_start + 1 .. q.b_start + q.b_size /\ a + i <= c.size
                <5>1. PICK n \in Nat : n = Len(w)
                    BY <1>1
                <5>2. a \in 0 .. n /\ b \in 0 .. n
                    BY <2>2, <5>1
                <5>3. a + i \in a + 1 .. a + z /\ a + i <= n
                    BY <2>3, <5>2
                <5> QED BY <2>5, <5>1, <5>3
            <4>2. IF q.type = "COPYMULTIPOST" THEN c.was[a + i] = w[a + i] ELSE w[a + i] = a + i
                BY <3>3, <4>1 DEF PartOfData
            <4> QED BY <2>5, <4>1, <4>2
        <3> QED BY <2>5, <3>1, <3>2, <3>4 DEF Piece
    <2> QED BY <1>4, <2>41, <2>5, <2>6, <2>7 DEF PartFor
<1> QED BY <1>1, <1>4, <1>6, <1>7

-----------------------------------------------------------------------------
(* The calls.                                                              *)

\* The parts of an upload of n units, and of a copy.
LEMMA UploadPartsCut ==
    ASSUME NEW n \in Nat \ {0}, NEW chunk \in Nat \ {0}
    PROVE  LET us == UploadParts(Chunks(n, chunk))
               ps == CopyParts(Chunks(n, chunk))
           IN  /\ \E e, m : PartCut(us, e, m, n)
               /\ \A k \in DOMAIN us : us[k].type = "UPLOADMULTIPOST"
               /\ \E e, m : PartCut(ps, e, m, n)
               /\ \A k \in DOMAIN ps : ps[k].type = "COPYMULTIPOST"
<1>1. PICK cs : cs = Chunks(n, chunk)
    OBVIOUS
<1>2. PICK e, m : Cut(cs, e, m, n)
    BY <1>1, ChunksCut
<1>3. PICK us, ps : us = UploadParts(cs) /\ ps = CopyParts(cs)
    OBVIOUS
<1>4. ASSUME NEW k \in 1 .. m
      PROVE  /\ us[k] = NewReq("UPLOADMULTIPOST", k, e[k - 1], e[k] - e[k - 1], e[k - 1])
             /\ ps[k] = NewReq("COPYMULTIPOST", k, e[k - 1], e[k] - e[k - 1], e[k - 1])
    <2>1. cs[k].start = e[k - 1] /\ cs[k].size = e[k] - e[k - 1] /\ k \in DOMAIN cs
        BY <1>2 DEF Cut
    <2> QED BY <1>3, <2>1 DEF UploadParts, CopyParts, UploadMultipartPostSetup, CopyMultipartPostSetup
<1>5. DOMAIN us = 1 .. m /\ DOMAIN ps = 1 .. m
    BY <1>2, <1>3 DEF Cut, UploadParts, CopyParts
<1>6. PartCut(us, e, m, n) /\ PartCut(ps, e, m, n)
    BY <1>2, <1>4, <1>5 DEF Cut, PartCut, PartTypes
<1>7. \A k \in 1 .. m : us[k].type = "UPLOADMULTIPOST" /\ ps[k].type = "COPYMULTIPOST"
    BY <1>4, NewReqFields
<1> QED BY <1>1, <1>3, <1>5, <1>6, <1>7

\* The parts of a mixed upload: the copies are of its first units.
LEMMA MixPartsCut ==
    ASSUME NEW copied \in Nat \ {0}, NEW n \in Nat, copied < n
    PROVE  LET ps == MixParts(copied, n)
           IN  /\ \E e, m : PartCut(ps, e, m, n)
               /\ \A k \in DOMAIN ps :
                     IF ps[k].type = "COPYMULTIPOST" THEN ps[k].b_start + ps[k].b_size <= copied
                     ELSE ps[k].b_start = copied
<1>1. PICK cs : cs = Joined(Chunks(copied, MultipartCopySize))
    OBVIOUS
<1>2. PICK e, m : Cut(cs, e, m, copied)
    BY <1>1, JoinedCut, RequestAssumption
<1>3. PICK ps : ps = MixParts(copied, n)
    OBVIOUS
<1>4. /\ DOMAIN cs = 1 .. Len(cs) /\ DOMAIN ps = 1 .. Len(cs) + 1 /\ Len(cs) \in Nat
      /\ \A k \in 1 .. Len(cs) : ps[k] = CopyMultipartPostSetup(k, cs[k])
      /\ ps[Len(cs) + 1] = UploadMultipartPostSetup(Len(cs) + 1, [start |-> copied, size |-> n - copied])
    BY <1>1, <1>3, MixShape
<1>5. /\ m \in Nat \ {0} /\ DOMAIN cs = 1 .. m /\ e \in [0 .. m -> 0 .. copied]
      /\ e[0] = 0 /\ e[m] = copied
    BY <1>2 DEF Cut
<1>6. Len(cs) = m
    <2>1. PICK l \in Nat : l = Len(cs) /\ 1 .. l = 1 .. m
        BY <1>4, <1>5
    <2>2. m \in 1 .. l
        BY <1>5, <2>1
    <2>3. l \in 1 .. m
        BY <2>1, <2>2
    <2>4. l = m
        BY <1>5, <2>2, <2>3
    <2> QED BY <2>1, <2>4
<1>7. PICK j \in Nat \ {0} : j = m + 1
    BY <1>5
<1>8. PICK g : g = [k \in 0 .. j |-> IF k = j THEN n ELSE e[k]]
    OBVIOUS
<1>9. g \in [0 .. j -> 0 .. n] /\ g[0] = 0 /\ g[j] = n /\ g[m] = copied
    BY <1>5, <1>7, <1>8
<1>10. ASSUME NEW k \in 1 .. m
       PROVE  /\ g[k - 1] < g[k]
              /\ ps[k] = NewReq("COPYMULTIPOST", k, g[k - 1], g[k] - g[k - 1], g[k - 1])
              /\ g[k - 1] \in Nat /\ g[k] \in Nat /\ g[k] <= copied
    <2>1. k - 1 \in 0 .. m /\ k \in 0 .. m /\ k - 1 \in 0 .. j /\ k \in 0 .. j /\ k # j /\ k - 1 # j
        BY <1>5, <1>7
    <2>2. g[k] = e[k] /\ g[k - 1] = e[k - 1]
        BY <1>8, <2>1
    <2>3. cs[k].start = e[k - 1] /\ cs[k].size = e[k] - e[k - 1] /\ e[k - 1] < e[k]
        BY <1>2 DEF Cut
    <2>4. ps[k] = CopyMultipartPostSetup(k, cs[k])
        BY <1>4, <1>6
    <2>5. e[k - 1] \in Nat /\ e[k] \in Nat /\ e[k] <= copied
        BY <1>5, <2>1
    <2> QED BY <2>2, <2>3, <2>4, <2>5 DEF CopyMultipartPostSetup
<1>11. ps[j] = NewReq("UPLOADMULTIPOST", j, g[j - 1], g[j] - g[j - 1], g[j - 1]) /\ g[j - 1] < g[j]
    <2>1. g[j - 1] = copied /\ g[j] = n
        BY <1>5, <1>7, <1>9
    <2>2. ps[j] = UploadMultipartPostSetup(j, [start |-> copied, size |-> n - copied])
        BY <1>4, <1>6, <1>7
    <2> QED BY <2>1, <2>2 DEF UploadMultipartPostSetup
<1>12. DOMAIN ps = 1 .. j
    BY <1>4, <1>6, <1>7
<1>13. ASSUME NEW k \in 1 .. j
       PROVE  /\ g[k - 1] < g[k]
              /\ \E type \in PartTypes : ps[k] = NewReq(type, k, g[k - 1], g[k] - g[k - 1], g[k - 1])
              /\ IF ps[k].type = "COPYMULTIPOST" THEN ps[k].b_start + ps[k].b_size <= copied
                 ELSE ps[k].b_start = copied
    <2>1. CASE k = j
        <3>1. ps[j].type = "UPLOADMULTIPOST" /\ ps[j].b_start = g[j - 1]
            BY <1>11, NewReqFields
        <3>2. g[j - 1] = copied
            BY <1>5, <1>7, <1>9
        <3> QED BY <1>11, <2>1, <3>1, <3>2 DEF PartTypes
    <2>2. CASE k # j
        <3>1. k \in 1 .. m
            BY <1>5, <1>7, <2>2
        <3>2. ps[k].type = "COPYMULTIPOST" /\ ps[k].b_start = g[k - 1] /\ ps[k].b_size = g[k] - g[k - 1]
            BY <1>10, <3>1, NewReqFields
        <3>3. ps[k].b_start + ps[k].b_size <= copied
            <4>1. PICK a \in Nat, b \in Nat : a = g[k - 1] /\ b = g[k] /\ b <= copied
                BY <1>10, <3>1
            <4>2. a + (b - a) <= copied
                BY <4>1
            <4> QED BY <3>2, <4>1, <4>2
        <3> QED BY <1>10, <3>1, <3>2, <3>3 DEF PartTypes
    <2> QED BY <2>1, <2>2
<1>14. PartCut(ps, g, j, n)
    BY <1>9, <1>12, <1>13 DEF PartCut
<1> QED BY <1>3, <1>12, <1>13, <1>14

\* A part lies in the data.
LEMMA PartInside ==
    ASSUME NEW ps, NEW e, NEW m, NEW n, PartCut(ps, e, m, n), NEW k \in DOMAIN ps
    PROVE  /\ ps[k].b_start \in Nat /\ ps[k].b_size \in Nat
           /\ \A x \in ps[k].b_start + 1 .. ps[k].b_start + ps[k].b_size : x \in 1 .. n
<1>1. m \in Nat \ {0} /\ n \in Nat /\ k \in 1 .. m /\ e \in [0 .. m -> 0 .. n]
    BY DEF PartCut
<1>2. PICK type : ps[k] = NewReq(type, k, e[k - 1], e[k] - e[k - 1], e[k - 1]) /\ e[k - 1] < e[k]
    BY <1>1 DEF PartCut
<1>3. k - 1 \in 0 .. m /\ k \in 0 .. m
    BY <1>1
<1>4. PICK a \in 0 .. n, b \in 0 .. n : a = e[k - 1] /\ b = e[k] /\ a < b
    BY <1>1, <1>2, <1>3
<1>5. ps[k].b_start = a /\ ps[k].b_size = b - a
    BY <1>2, <1>4, NewReqFields
<1>6. a \in Nat /\ b - a \in Nat /\ \A x \in a + 1 .. a + (b - a) : x \in 1 .. n
    BY <1>1, <1>4
<1> QED BY <1>5, <1>6

\* What an upload starts with.
Begins(c, q) ==
    /\ c.was = obj.data /\ c.want \in Data /\ c.op \in Ups
    /\ \/ /\ q = NewReq("PUT", 0, 0, c.size, 0)
          /\ c.size \in Nat \ {0} /\ c.want = [i \in 1 .. c.size |-> i]
       \/ /\ q = Plain("PREMULTIPOST")
          /\ \E segs : /\ Whole(segs, c) /\ DOMAIN c.todo = DOMAIN segs
                       /\ \A k \in DOMAIN c.todo : PartFor(c.todo[k], c, segs, cfg.newcache)

\* The parts are set, and do not change what the call wants.
LEMMA PreBegins ==
    ASSUME NEW op \in Ups, NEW w \in Data, NEW parts, NEW e, NEW m,
           PreMultipartPostRequest(Asked(op, 0, Len(w), w), parts),
           PartCut(parts, e, m, Len(w)),
           \A k \in DOMAIN parts : \A x \in parts[k].b_start + 1 .. parts[k].b_start + parts[k].b_size :
              IF parts[k].type = "COPYMULTIPOST" THEN obj.data[x] = w[x] ELSE w[x] = x
    PROVE  \E c, q : Single(c, q) /\ DOMAIN c = CallFields /\ DOMAIN q = ReqFields /\ Begins(c, q)
<1>1. PICK a : a = Asked(op, 0, Len(w), w)
    OBVIOUS
<1>2. DOMAIN a = CallFields /\ a.op = op /\ a.size = Len(w) /\ a.was = obj.data /\ a.want = w
    BY <1>1 DEF Asked, Idle, CallFields
<1>3. PICK c : c = [a EXCEPT !.todo = parts]
    OBVIOUS
<1>4. /\ DOMAIN c = CallFields /\ c.op = op /\ c.size = Len(w) /\ c.was = obj.data
      /\ c.want = w /\ c.todo = parts
    BY <1>2, <1>3 DEF CallFields
<1>5. PICK q : q = Plain("PREMULTIPOST") /\ DOMAIN q = ReqFields
    BY PlainShape
<1>6. Single(c, q)
    BY <1>1, <1>3, <1>5 DEF PreMultipartPostRequest
<1>7. \A k \in DOMAIN parts : PartOfData(parts[k], c, w)
    BY <1>4 DEF PartOfData
<1>8. \E segs : /\ Whole(segs, c) /\ DOMAIN parts = DOMAIN segs
                /\ \A k \in DOMAIN parts : PartFor(parts[k], c, segs, cfg.newcache)
    BY <1>4, <1>7, PartsMakeData
<1> QED BY <1>4, <1>5, <1>6, <1>8 DEF Begins

LEMMA UploadsBegin ==
    ASSUME NEW n \in Nat \ {0}, obj.data \in Data,
           UpLoad(n) \/ (\E m \in 1 .. n : Mix(m, n)) \/ Copy
    PROVE  \E c, q : Single(c, q) /\ DOMAIN c = CallFields /\ DOMAIN q = ReqFields /\ Begins(c, q)
<1>1. CASE UpLoad(n)
    <2>1. PICK w : w = [i \in 1 .. n |-> i]
        OBVIOUS
    <2>2. w \in Seq(Int) /\ Len(w) = n /\ \A x \in 1 .. n : w[x] = x
        BY <2>1
    <2>3. CASE PutRequest(Asked("upload", 0, n, w))
        <3>1. PICK c : c = Asked("upload", 0, n, w)
            OBVIOUS
        <3>2. DOMAIN c = CallFields /\ c.op = "upload" /\ c.size = n /\ c.was = obj.data /\ c.want = w
            BY <3>1 DEF Asked, Idle, CallFields
        <3>3. PICK q : q = NewReq("PUT", 0, 0, c.size, 0) /\ DOMAIN q = ReqFields
            BY NewReqFields
        <3>4. Single(c, q)
            BY <2>3, <3>1, <3>3 DEF PutRequest
        <3>5. Begins(c, q)
            BY <2>1, <2>2, <3>2, <3>3 DEF Begins, Ups, Data
        <3> QED BY <3>2, <3>3, <3>4, <3>5
    <2>4. CASE PreMultipartPostRequest(Asked("upload", 0, n, w), UploadParts(Chunks(n, MultipartSize)))
        <3>1. PICK ps : ps = UploadParts(Chunks(n, MultipartSize))
            OBVIOUS
        <3>2. (\E e, m : PartCut(ps, e, m, n)) /\ \A k \in DOMAIN ps : ps[k].type = "UPLOADMULTIPOST"
            BY <3>1, UploadPartsCut, RequestAssumption
        <3>3. PICK e, m : PartCut(ps, e, m, n)
            BY <3>2
        <3>4. ASSUME NEW k \in DOMAIN ps, NEW x \in ps[k].b_start + 1 .. ps[k].b_start + ps[k].b_size
              PROVE  w[x] = x
            BY <2>2, <3>3, <3>4, PartInside
        <3>5. PreMultipartPostRequest(Asked("upload", 0, Len(w), w), ps) /\ PartCut(ps, e, m, Len(w))
            BY <2>2, <2>4, <3>1, <3>3
        <3> QED BY <2>2, <3>2, <3>4, <3>5, PreBegins DEF Ups, Data
    <2> QED BY <1>1, <2>1, <2>3, <2>4 DEF UpLoad
<1>2. CASE \E m \in 1 .. n : Mix(m, n)
    <2>1. PICK copied \in 1 .. n : Mix(copied, n)
        BY <1>2
    <2>2. PICK w : w = [i \in 1 .. n |-> IF i <= copied THEN obj.data[i] ELSE i]
        OBVIOUS
    <2>3. copied < n /\ copied <= Len(obj.data) /\ copied \in Nat \ {0}
        BY <2>1 DEF Mix
    <2>4. w \in Seq(Int) /\ Len(w) = n
        <3>1. \A i \in 1 .. n : w[i] \in Int
            BY <2>2, <2>3 DEF Data
        <3> QED BY <2>2, <3>1
    <2>5. PICK ps : ps = MixParts(copied, n)
        OBVIOUS
    <2>6. /\ \E e, m : PartCut(ps, e, m, n)
          /\ \A k \in DOMAIN ps :
                IF ps[k].type = "COPYMULTIPOST" THEN ps[k].b_start + ps[k].b_size <= copied
                ELSE ps[k].b_start = copied
        BY <2>3, <2>5, MixPartsCut
    <2>7. PICK e, m : PartCut(ps, e, m, n)
        BY <2>6
    <2>8. ASSUME NEW k \in DOMAIN ps, NEW x \in ps[k].b_start + 1 .. ps[k].b_start + ps[k].b_size
          PROVE  IF ps[k].type = "COPYMULTIPOST" THEN obj.data[x] = w[x] ELSE w[x] = x
        <3>1. x \in 1 .. n /\ ps[k].b_start \in Nat /\ ps[k].b_size \in Nat
            BY <2>7, <2>8, PartInside
        <3>2. CASE ps[k].type = "COPYMULTIPOST"
            <4>1. x <= copied
                BY <2>3, <2>6, <3>1, <3>2
            <4> QED BY <2>2, <3>1, <3>2, <4>1
        <3>3. CASE ps[k].type # "COPYMULTIPOST"
            <4>1. ~(x <= copied)
                BY <2>3, <2>6, <3>1, <3>3
            <4> QED BY <2>2, <3>1, <3>3, <4>1
        <3> QED BY <3>2, <3>3
    <2>9. PreMultipartPostRequest(Asked("mix", 0, Len(w), w), ps) /\ PartCut(ps, e, m, Len(w))
        BY <2>1, <2>2, <2>4, <2>5, <2>7 DEF Mix
    <2> QED BY <2>4, <2>8, <2>9, PreBegins DEF Ups, Data
<1>3. CASE Copy
    <2>1. PICK w : w = obj.data
        OBVIOUS
    <2>2. w \in Data /\ Len(w) \in Nat \ {0}
        <3>1. w \in Seq(Int) /\ w # <<>>
            BY <1>3, <2>1 DEF Copy, Data
        <3> QED BY <3>1 DEF Data
    <2>3. PICK ps : ps = CopyParts(Chunks(Len(w), MultipartCopySize))
        OBVIOUS
    <2>4. (\E e, m : PartCut(ps, e, m, Len(w))) /\ \A k \in DOMAIN ps : ps[k].type = "COPYMULTIPOST"
        BY <2>2, <2>3, UploadPartsCut, RequestAssumption
    <2>5. PICK e, m : PartCut(ps, e, m, Len(w))
        BY <2>4
    <2>6. PreMultipartPostRequest(Asked("copy", 0, Len(w), w), ps)
        BY <1>3, <2>1, <2>3 DEF Copy
    <2> QED BY <2>1, <2>2, <2>4, <2>5, <2>6, PreBegins DEF Ups
<1> QED BY <1>1, <1>2, <1>3

LEMMA UpInit == Init => UpInv
<1> SUFFICES ASSUME Init PROVE UpInv
    OBVIOUS
<1>1. call = Idle /\ out = NoOut /\ obj.data \in {Old, <<>>}
    BY DEF Init
<1>2. Old \in Seq(Int) /\ <<>> \in Seq(Int)
    <2>1. ObjectSize \in Nat
        BY RequestAssumption
    <2> QED BY <2>1 DEF Old
<1>3. obj.data \in Data
    BY <1>1, <1>2 DEF Data
<1>4. call.op \notin Ups /\ UpDone
    BY <1>1 DEF Idle, NoOut, Ups, UpDone
<1> QED BY <1>3, <1>4 DEF UpInv

LEMMA UpStarts ==
    ASSUME UpInv, UNCHANGED <<cfg, obj, mpu, odd>>,
           UpClean => \E c, q : /\ Single(c, q) /\ DOMAIN c = CallFields /\ DOMAIN q = ReqFields
                                /\ c.op \notin Ups \/ Begins(c, q)
    PROVE  UpInv'
<1>1. SUFFICES ASSUME UpClean' PROVE obj.data \in Data /\ UpDone' /\ (call'.op \in Ups => UpOk(req', call', obj.data, mpu.parts, etags', cfg))
    BY DEF UpInv
<1>2. UpClean /\ obj.data \in Data
    BY <1>1 DEF UpClean, UpInv
<1>3. PICK c, q : /\ Single(c, q) /\ DOMAIN c = CallFields /\ DOMAIN q = ReqFields
                  /\ c.op \notin Ups \/ Begins(c, q)
    BY <1>2
<1>4. /\ DOMAIN call' = CallFields /\ call'.pc = "one"
      /\ call'.op = c.op /\ call'.todo = c.todo /\ call'.res = c.res
      /\ call'.was = c.was /\ call'.want = c.want /\ call'.size = c.size
      /\ DOMAIN req'[1] = ReqFields /\ req'[1].st = "run"
      /\ req'[1].type = q.type /\ req'[1].startpos = q.startpos /\ req'[1].size = q.size
      /\ req'[1].b_start = q.b_start /\ req'[1].b_size = q.b_size /\ req'[1].at = q.at
      /\ req'[1].again = q.again
    BY <1>3, SingleStarts
<1>5. UpDone'
    BY <1>4 DEF UpDone
<1>6. SUFFICES ASSUME call'.op \in Ups PROVE UpOk(req', call', obj.data, mpu.parts, etags', cfg)
    BY <1>2, <1>5
<1>7. Begins(c, q)
    BY <1>3, <1>4, <1>6
<1>8. call'.was \in Data /\ call'.want \in Data /\ obj.data = call'.was
    BY <1>2, <1>4, <1>7 DEF Begins
<1>9. CASE /\ q = NewReq("PUT", 0, 0, c.size, 0)
           /\ c.size \in Nat \ {0} /\ c.want = [i \in 1 .. c.size |-> i]
    <2>1. /\ q.type = "PUT" /\ q.startpos = 0 /\ q.size = c.size /\ q.b_start = 0 /\ q.b_size = c.size
          /\ q.at = 0 /\ ~q.again
        <3>1. ~q.again
            BY <1>9 DEF NewReq
        <3> QED BY <1>9, <3>1, NewReqFields
    <2>2. PutPhase(req'[1], call', obj.data, cfg)
        BY <1>4, <1>9, <2>1 DEF PutPhase, Succeeded
    <2> QED BY <1>4, <1>8, <2>1, <2>2 DEF UpOk
<1>10. CASE /\ q = Plain("PREMULTIPOST")
            /\ \E segs : /\ Whole(segs, c) /\ DOMAIN c.todo = DOMAIN segs
                         /\ \A k \in DOMAIN c.todo : PartFor(c.todo[k], c, segs, cfg.newcache)
    <2>1. q.type = "PREMULTIPOST"
        BY <1>10, PlainShape
    <2>2. PICK segs : /\ Whole(segs, c) /\ DOMAIN c.todo = DOMAIN segs
                      /\ \A k \in DOMAIN c.todo : PartFor(c.todo[k], c, segs, cfg.newcache)
        BY <1>10
    <2>3. ASSUME NEW p, PartFor(p, c, segs, cfg.newcache)
          PROVE  PartFor(p, call', segs, cfg.newcache)
        <3>1. Piece(p, call') = Piece(p, c)
            BY <1>4 DEF Piece
        <3> QED BY <2>3, <3>1 DEF PartFor
    <2>4. PrePhase(req'[1], call', obj.data, mpu.parts, segs, cfg.newcache)
        BY <1>4, <1>8, <2>2, <2>3 DEF PrePhase, Whole, Succeeded
    <2> QED BY <1>4, <1>8, <2>1, <2>4 DEF UpOk
<1> QED BY <1>7, <1>9, <1>10 DEF Begins

LEMMA UpCalls ==
    ASSUME HandleInv, OpenInv, UpInv, NEW n \in Nat \ {0}, NEW s \in Nat,
           \/ UpLoad(n) \/ (\E m \in 1 .. n : Mix(m, n)) \/ Copy
           \/ DeleteRequest \/ ListBucketRequest \/ PutHeadRequest \/ HeadRequest
           \/ DownLoad(s, n)
    PROVE  UpInv'
<1>1. UNCHANGED <<cfg, obj, mpu, odd>>
    BY DEF UpLoad, Mix, Copy, DownLoad, HeadRequest, DeleteRequest, ListBucketRequest, PutHeadRequest,
           Called, server
<1>2. UpClean => obj.data \in Data
    BY DEF UpInv
<1>3. CASE UpLoad(n) \/ (\E m \in 1 .. n : Mix(m, n)) \/ Copy
    BY <1>1, <1>2, <1>3, UploadsBegin, UpStarts
<1>4. CASE DeleteRequest \/ ListBucketRequest \/ PutHeadRequest \/ HeadRequest
    <2>1. PICK c, q : /\ Single(c, q) /\ DOMAIN c = CallFields /\ DOMAIN q = ReqFields
                      /\ c.op \in {"delete", "list", "puthead", "head"}
        BY <1>4, OthersStart
    <2>2. c.op \notin Ups
        BY <2>1 DEF Ups
    <2> QED BY <1>1, <2>1, <2>2, UpStarts
<1>5. CASE DownLoad(s, n)
    <2>1. CASE call'.pc = "multi" /\ call'.op = "download"
        <3>1. call'.op \notin Ups /\ UpDone'
            BY <2>1 DEF Ups, UpDone
        <3>2. UpClean' => UpClean
            BY <1>1 DEF UpClean
        <3> QED BY <1>1, <1>2, <3>1, <3>2 DEF UpInv
    <2>2. CASE \E c, q : /\ Single(c, q) /\ DOMAIN c = CallFields /\ DOMAIN q = ReqFields
                         /\ c.op = "download" /\ q.type = "GET"
        <3>1. PICK c, q : /\ Single(c, q) /\ DOMAIN c = CallFields /\ DOMAIN q = ReqFields
                          /\ c.op = "download"
            BY <2>2
        <3>2. c.op \notin Ups
            BY <3>1 DEF Ups
        <3> QED BY <1>1, <3>1, <3>2, UpStarts
    <2> QED BY <1>5, <2>1, <2>2, DownLoadStarts
<1> QED BY <1>3, <1>4, <1>5

LEMMA UpStep == HandleInv /\ OpenInv /\ UpInv /\ [Next]_vars => UpInv'
<1> SUFFICES ASSUME HandleInv, OpenInv, UpInv, [Next]_vars PROVE UpInv'
    OBVIOUS
<1>1. 0 \in Nat /\ 1 \in Nat \ {0}
    OBVIOUS
<1>2. CASE \E n \in Sizes : UpLoad(n) \/ \E m \in 1 .. n : Mix(m, n)
    <2>1. PICK n \in Sizes : UpLoad(n) \/ \E m \in 1 .. n : Mix(m, n)
        BY <1>2, Zenon
    <2>2. n \in Nat \ {0}
        BY RequestAssumption
    <2> QED BY <1>1, <2>1, <2>2, UpCalls, Zenon
<1>3. CASE Copy \/ DeleteRequest \/ ListBucketRequest \/ PutHeadRequest \/ HeadRequest
    BY <1>1, <1>3, UpCalls, Zenon
<1>4. CASE \E s \in 0 .. ObjectSize, n \in Sizes : DownLoad(s, n)
    <2>1. PICK s \in 0 .. ObjectSize, n \in Sizes : DownLoad(s, n)
        BY <1>4, Zenon
    <2>2. n \in Nat \ {0} /\ s \in Nat
        BY RequestAssumption
    <2> QED BY <2>1, <2>2, UpCalls, Zenon
<1>5. CASE \E op \in Ops : SetupFails(op)
    <2>1. UNCHANGED <<cfg, call, req, etags, obj, mpu, odd>> /\ out'.res = "EIO"
        BY <1>5 DEF SetupFails, server, NoOut
    <2>2. UpDone'
        BY <2>1 DEF UpDone
    <2> QED BY <2>1, <2>2 DEF UpInv, UpClean
<1>6. CASE \E r \in DOMAIN req : Try(r) \/ Launch(r) \/ LazySetupFails(r)
    <2>1. PICK r \in DOMAIN req : Try(r) \/ Launch(r) \/ LazySetupFails(r)
        BY <1>6, Zenon
    <2> QED BY <2>1, UpTry, UpBatch
<1>7. CASE \/ HeadNextKey \/ SingleDone \/ PreMultipartDone \/ MultipartDone
           \/ MultiReadSpins \/ MultiRetry \/ DownLoadNext \/ AbortUpload
           \/ CompleteUpload(Etags)
    BY <1>7, UpDones, UpRest, UpBatch
<1>8. CASE UNCHANGED vars
    <2>1. UNCHANGED <<cfg, call, req, etags, obj, mpu, odd, out>>
        BY <1>8 DEF vars, server
    <2> QED BY <2>1 DEF UpInv, UpClean, UpDone
<1> QED BY <1>2, <1>3, <1>4, <1>5, <1>6, <1>7, <1>8, Zenon DEF Next, Steps

\* The data of an upload is as it was or as it was wanted.
LEMMA UpIsAtomic == OpenInv /\ UpInv => UploadAtomic
BY OpenIsEnded DEF UpInv, UpOk, UpDone, UpClean, UploadAtomic, Ups

-----------------------------------------------------------------------------
(* The theorems.                                                           *)
\* The invariant of the requests, for every number of parts, of parallel requests and
\* of retries and every size of the pool.
THEOREM RequestsInvariant == Spec => []RequestInv
<1>1. Init => RequestInv
    BY InitHolds
<1>2. RequestInv /\ [Next]_vars => RequestInv'
    BY StepHolds
<1> QED BY <1>1, <1>2, PTL DEF Spec

\* CurlHandlerPool and DestroyCurlHandle: whatever fails and is retried, a handle is
\* lent to one request at a time, the pool keeps no handle that is lent and never more
\* than it may, and the timers are those of the handles that are lent.
THEOREM HandlesAreWhole == Spec => []HandlesWhole
<1>1. RequestInv => HandlesWhole
    <2> SUFFICES ASSUME PoolOk, OwnedOk PROVE HandlesWhole
        BY DEF RequestInv, HandleInv
    <2>1. ToSet(pool) \cap Owned = {}
        BY DEF PoolOk, OwnedOk, ToSet
    <2> QED BY <2>1 DEF PoolOk, OwnedOk, HandlesWhole
<1>2. Spec => []RequestInv
    BY RequestsInvariant
<1> QED BY <1>1, <1>2, PTL

\* RequestPerform, HeadRequest and GetObjectRequest: ENOENT is answered only when the
\* object, or the start of the range, is not there; an error of the server or of curl
\* never reads as a missing object.
THEOREM AbsenceIsTrue == Spec => []AbsentTruth
<1>1. RequestInv => AbsentTruth
    BY DEF RequestInv, AbsentInv
<1>2. Spec => []RequestInv
    BY RequestsInvariant
<1> QED BY <1>1, <1>2, PTL

\* S3DataAdaptor::DownLoad, ParallelGetObjectRequest and GetObjectRequest: whatever
\* fails and is retried, a download that answers 0 has put every unit of the range at
\* its place and nothing anywhere else, except after the known deviations (a try that
\* moved the buffer, an ignored 404).
THEOREM DownloadsAreExact == Spec => []GetExact
<1>1. Init => GetInv
    BY GetsInit
<1>2. RequestInv /\ GetInv /\ [Next]_vars => GetInv'
    BY GetsStep
<1>3. Spec => []RequestInv
    BY RequestsInvariant
<1>4. GetInv => GetExact
    BY DEF GetInv
<1> QED BY <1>1, <1>2, <1>3, <1>4, PTL DEF Spec

\* PutRequest, the multipart uploads and the copies: whatever fails and is retried, the
\* object is as it was or as the call wants it, a call that answers 0 leaves it as it
\* wants it, and no multipart upload stays open, except after the known deviations (a
\* try that moved the buffer, a PUT sent again without its body, an answer that was not
\* read; a lost id, a copied part without an etag, a failed request to end the upload).
THEOREM UploadsAreAtomic == Spec => []UploadAtomic
<1>1. Init => OpenInv /\ UpInv
    BY OpenInit, UpInit
<1>2. RequestInv /\ OpenInv /\ UpInv /\ [Next]_vars => (OpenInv /\ UpInv)'
    BY OpenStep, UpStep DEF RequestInv
<1>3. OpenInv /\ UpInv => UploadAtomic
    BY UpIsAtomic
<1> QED BY RequestsInvariant, <1>1, <1>2, <1>3, PTL DEF Spec
==============================================================================
