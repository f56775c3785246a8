------------------------------- MODULE Request -------------------------------
(***************************************************************************)
(* Requests to S3: one S3fsCurl object per request with its retries in     *)
(* place (RequestPerform, RemakeHandle), batches of requests on threads    *)
(* with retries by a new object (S3fsMultiCurl), the pool of curl handles, *)
(* and the calls made of them: single requests, multipart uploads from     *)
(* memory, from a file, mixed with copies, copies of large objects, and    *)
(* parallel downloads.  S3 is one object and one multipart upload.         *)
(*                                                                         *)
(* Unit i of the data to upload is i and of the object is -i, so a unit    *)
(* says where it was read from.                                            *)
(***************************************************************************)
EXTENDS Integers, FiniteSets, SequencesExt

CONSTANTS Ops,             \* calls that are made
          Sizes,           \* sizes of the data uploaded, in units
          ObjectSize,      \* size of the object at the start; 0: there is none
          MultipartSize, MultipartCopySize, MIN_MULTIPART_SIZE,
          MaxParallel,     \* max_parallel_cnt
          PoolSize,        \* mMaxHandlers
          Retries,         \* S3fsCurl::retries
          SseKeys,         \* sseckeys.size()
          Caches,          \* use_newcache, subset of BOOLEAN
          Signings,        \* TRUE: V4 with a signed payload
          MaxCalls, MaxFaults

ASSUME RequestAssumption ==
    /\ Sizes \subseteq Nat \ {0} /\ ObjectSize \in Nat /\ Retries \in Nat \ {0}
    /\ MultipartSize \in Nat \ {0} /\ MultipartCopySize \in Nat \ {0}
    /\ MaxParallel \in Nat \ {0} /\ PoolSize \in Nat /\ SseKeys \in Nat
    /\ Caches \subseteq BOOLEAN /\ Signings \subseteq BOOLEAN

VARIABLES cfg,      \* [newcache, signed, key]: key is the SSE-C key of the object
          call,     \* the call under way
          req,      \* its requests, by their place in clist_req (a batch keeps those
                    \* places when only some of it is tried again)
          etags,    \* parts whose etag is known
          obj,      \* [exists, data]
          mpu,      \* [open, parts]: the multipart upload in S3
          buf,      \* the caller's memory after a download: position -> unit
          pool,     \* mPool
          timed,    \* handles with an entry in curl_times and curl_progress
          calls, faults,
          out,      \* what the last call answered
          odd       \* ghost: known deviations that have happened

server == <<obj, mpu>>
vars == <<cfg, call, req, etags, obj, mpu, buf, pool, timed, calls, faults, out, odd>>

Wild == 99          \* a unit read from outside the caller's buffer
Junk == 98          \* a unit of an error document
NotSet == -1        \* S3FSCURL_RESPONSECODE_NOTSET
Fatal == 599        \* S3FSCURL_RESPONSECODE_FATAL_ERROR

Idle == [op |-> "none", pc |-> "idle", start |-> 0, size |-> 0, todo |-> <<>>,
         key |-> 0, res |-> "0", was |-> <<>>, want |-> <<>>]

NoOut == [op |-> "none", res |-> "0", want |-> <<>>]

Min2(a, b) == IF a < b THEN a ELSE b
Old == [i \in 1 .. ObjectSize |-> -i]
Fault == faults < MaxFaults /\ faults' = faults + 1

-----------------------------------------------------------------------------
(* The pool and the handles.  A handle is a number, 0 is nullptr.          *)
Owned == {req[i].handle : i \in DOMAIN req} \ {0}

\* GetHandler: the last one of the pool, or a new one.
Taken == IF pool # <<>> THEN pool[Len(pool)]
         ELSE CHOOSE h \in 1 .. Cardinality(timed) + 1 : h \notin timed

\* ReturnHandler: the oldest ones are destroyed when the pool is full.
Returned(p, hs) ==
    LET q == p \o hs
    IN  IF Len(q) > PoolSize THEN SubSeq(q, Len(q) - PoolSize + 1, Len(q)) ELSE q

\* CreateCurlHandle with ResetHandle, which starts the timer of the handle.
CreateCurlHandle ==
    /\ pool' = IF pool # <<>> THEN SubSeq(pool, 1, Len(pool) - 1) ELSE pool
    /\ timed' = timed \cup {Taken}

\* Mutant: the timer of a handle outlives it.
DestroyCurlHandleTimed(h) ==
    /\ pool' = IF h = 0 THEN pool ELSE Returned(pool, <<h>>)
    /\ timed' = timed

\* DestroyCurlHandle of one request.
DestroyCurlHandle(h) ==
    /\ pool' = IF h = 0 THEN pool ELSE Returned(pool, <<h>>)
    /\ timed' = timed \ {h}

-----------------------------------------------------------------------------
(* A request object.  startpos and size are partdata's, at is partdata.buf *)
(* as a position of the caller's memory, b_start, b_size and b_buf are the *)
(* backups, which CreateParallelS3fsCurl, the setup functions and          *)
(* PreGetObjectRequest fill.                                               *)
NewReq(type, part, start, size, at) ==
    [type |-> type, part |-> part, startpos |-> start, size |-> size, at |-> at,
     b_start |-> start, b_size |-> size, b_buf |-> at, retry |-> 0, tries |-> 0,
     code |-> NotSet, curl |-> "OK", st |-> "new", handle |-> 0, res |-> "0",
     again |-> FALSE, errbody |-> FALSE]

Plain(type) == NewReq(type, 0, 0, 0, 0)

Uploads == {"PUT", "UPLOADMULTIPOST"}

\* What a request sends: the caller's units from a position on.
From(pos, n) == [k \in 1 .. n |-> IF pos + k <= call.size THEN pos + k ELSE Wild]

\* UploadReadCallback reads a part from memory at buf or from the file at startpos.
PartBody(q) == From(IF cfg.newcache THEN q.at ELSE q.startpos, q.size)

\* UploadReadCallbackByMemory, and the FILE of a PUT; a PUT from memory that
\* RemakeHandle has reset has no body any more.
PutBody(q) == IF cfg.newcache /\ q.again THEN <<>> ELSE From(q.startpos, q.size)

Body(q) == IF q.type = "PUT" THEN PutBody(q) ELSE PartBody(q)

\* A PUT is signed with the hash of the data it was made for, a part with the
\* hash of what it sends now.
Rejected(q) == q.type = "PUT" /\ cfg.signed /\ Len(Body(q)) # q.size

\* The answer of a server that works.
PartsThere == DOMAIN mpu.parts = DOMAIN etags

ServerCode(q) ==
    CASE q.type = "HEAD" -> IF ~obj.exists THEN 404
                            ELSE IF call.key # cfg.key THEN 400 ELSE 200
      [] q.type = "GET" -> IF ~obj.exists THEN 404
                           ELSE IF q.startpos >= Len(obj.data) THEN 416 ELSE 206
      [] q.type \in {"UPLOADMULTIPOST", "ABORTMULTIUPLOAD"} -> IF mpu.open THEN 200 ELSE 404
      [] q.type = "COPYMULTIPOST" -> IF mpu.open /\ obj.exists THEN 200 ELSE 404
      [] q.type = "COMPLETEMULTIPOST" -> IF mpu.open /\ PartsThere THEN 200 ELSE 404
      [] q.type = "PUT" -> IF Rejected(q) THEN 400 ELSE 200
      [] OTHER -> 200         \* DELETE, LISTBUCKET, PUTHEAD, PREMULTIPOST

Units(q) == IF q.type \in Uploads THEN Len(Body(q)) ELSE IF q.type = "GET" THEN q.size ELSE 0

\* What may come of one curl_easy_perform: n units went through the callbacks, the
\* server did (applied) what it was asked, and errbody marks a 200 whose document
\* is an error.  A GET with an error writes the document where the data would go.
Natural(q) ==
    LET ok == ServerCode(q) < 300
    IN  [code |-> ServerCode(q), curl |-> "OK", applied |-> ok, errbody |-> FALSE,
         n |-> IF q.type = "GET" /\ ~ok THEN Min2(1, q.size) ELSE Units(q)]

HttpFaults(q) ==
    {[code |-> c, curl |-> "OK", applied |-> FALSE, errbody |-> FALSE, n |-> n] :
        c \in {403, 500}, n \in IF q.type = "GET" THEN {Min2(1, q.size)} ELSE {0, Units(q)}}

ErrorBodies(q) ==
    IF q.type \notin {"PUT", "PUTHEAD", "COPYMULTIPOST", "COMPLETEMULTIPOST"} THEN {}
    ELSE {[code |-> 200, curl |-> "OK", applied |-> FALSE, errbody |-> TRUE, n |-> Units(q)]}

\* Errors of curl, a timeout found by CurlProgress among them; the request may have
\* been carried out and the answer lost.
CurlFaults(q) ==
    {[code |-> NotSet, curl |-> e, applied |-> a, errbody |-> FALSE, n |-> n] :
        e \in {"PARTIAL", "FATAL"}, a \in {FALSE}, n \in 0 .. Natural(q).n}
    \cup {[code |-> NotSet, curl |-> e, applied |-> ServerCode(q) < 300, errbody |-> FALSE,
           n |-> Natural(q).n] : e \in {"PARTIAL", "FATAL"}}

-----------------------------------------------------------------------------
\* Mutant: an internal error of the server reads as a missing object.
HttpResultAbsent(q, code) ==
    IF code = 500 THEN "ENOENT"
    ELSE IF code \in 200 .. 299 THEN "0"
    ELSE IF code = 404 THEN "ENOENT" ELSE "EIO"

(* What RequestPerform makes of an answer: a result, or another try.       *)
HttpResult(q, code) ==
    CASE code \in 200 .. 299 -> "0"
      [] code = 400 -> IF q.type = "HEAD" THEN "EPERM" ELSE "EIO"
      [] code = 403 -> "EPERM"
      [] code = 404 -> "ENOENT"
      [] code = 416 -> IF cfg.newcache THEN "ENOENT" ELSE "EIO"
      [] code = 501 -> "ENOTSUP"
      [] code \in {500, 503} -> "retry"
      [] OTHER -> "EIO"

CurlResult(curl) == IF curl = "PARTIAL" THEN "retry" ELSE "EIO"

PerformResult(q, o) ==
    IF o.curl = "OK" THEN HttpResult(q, o.code) ELSE CurlResult(o.curl)

\* The callbacks move startpos, size and, with the new cache, buf.
Transferred(q, n) ==
    IF q.type \notin {"UPLOADMULTIPOST", "GET"} THEN q
    ELSE [q EXCEPT !.startpos = @ + n, !.size = @ - n,
                   !.at = IF cfg.newcache THEN @ + n ELSE @]

\* Mutant: the position of the last try is kept.
RemakeHandleInPlace(q) == [q EXCEPT !.retry = @ + 1, !.again = TRUE, !.code = NotSet]

\* The options RemakeHandle sets again for the type of the request; what a PUT
\* from memory reads is not among them.
SetOptions(q) == [q EXCEPT !.again = TRUE]

\* RemakeHandle: startpos and size come back, buf does not.
RemakeHandle(q) ==
    SetOptions([q EXCEPT !.startpos = q.b_start, !.size = q.b_size, !.retry = @ + 1,
                         !.code = NotSet])

\* The end of RequestPerform.
Ended(q, code, curl, res) ==
    [q EXCEPT !.st = "ended", !.code = IF code = NotSet THEN Fatal ELSE code,
              !.curl = curl, !.res = res]

AfterTry(q, o, res) ==
    IF res # "retry" THEN [Ended(q, o.code, o.curl, res) EXCEPT !.errbody = o.errbody]
    ELSE IF q.tries + 1 < Retries THEN [RemakeHandle(q) EXCEPT !.tries = @ + 1]
    ELSE Ended(RemakeHandle(q), o.code, o.curl, "EIO")

\* The downloaded units, or the error document, land where at or startpos says.
Landed(q, o) ==
    LET to == IF cfg.newcache THEN q.at ELSE q.startpos
    IN  [i \in DOMAIN buf \cup (to + 1 .. to + o.n) |->
            IF i \notin to + 1 .. to + o.n THEN buf[i]
            ELSE IF o.code >= 300 \/ ServerCode(q) >= 300 THEN Junk
            ELSE obj.data[q.startpos + i - to]]

\* What the server does with a request it carries out.
CopyRange(q) == [k \in 1 .. q.b_size |-> obj.data[q.b_start + k]]

PutPart(p, data) == [mpu EXCEPT !.parts = [x \in DOMAIN @ \cup {p} |-> IF x = p THEN data ELSE @[x]]]

Carried(q) ==
    CASE q.type = "PUT" -> obj' = [exists |-> TRUE, data |-> Body(q)] /\ UNCHANGED mpu
      [] q.type = "DELETE" -> obj' = [exists |-> FALSE, data |-> <<>>] /\ UNCHANGED mpu
      [] q.type = "PREMULTIPOST" -> mpu' = [open |-> TRUE, parts |-> <<>>] /\ UNCHANGED obj
      [] q.type = "UPLOADMULTIPOST" -> mpu' = PutPart(q.part, Body(q)) /\ UNCHANGED obj
      [] q.type = "COPYMULTIPOST" -> mpu' = PutPart(q.part, CopyRange(q)) /\ UNCHANGED obj
      [] q.type = "COMPLETEMULTIPOST" ->
             /\ obj' = [exists |-> TRUE, data |-> FlattenSeq(mpu.parts)]
             /\ mpu' = [open |-> FALSE, parts |-> <<>>]
      [] q.type = "ABORTMULTIUPLOAD" -> mpu' = [open |-> FALSE, parts |-> <<>>] /\ UNCHANGED obj
      [] OTHER -> UNCHANGED server

-----------------------------------------------------------------------------
(* One iteration of RequestPerform.  A thread of a batch gives the handle  *)
(* back when the request has ended.                                        *)
Deviations(q, o, res) ==
    (IF res = "retry" /\ Transferred(q, o.n).at # q.b_buf THEN {"buffer not rewound"} ELSE {})
    \cup (IF res = "retry" /\ q.type = "PUT" /\ cfg.newcache /\ ~cfg.signed
          THEN {"no body"} ELSE {})
    \cup (IF q.type = "PREMULTIPOST" /\ o.applied /\ res # "0" THEN {"id lost"} ELSE {})
    \cup (IF q.type = "COMPLETEMULTIPOST" /\ o.errbody THEN {"answer not read"} ELSE {})

TryWith(r, o, res) ==
    LET q == [AfterTry(Transferred(req[r], o.n), o, res) EXCEPT !.part = req[r].part]
        ends == q.st = "ended" /\ call.pc = "multi"
    IN  /\ req' = [req EXCEPT ![r] = IF ends THEN [q EXCEPT !.handle = 0] ELSE q]
        /\ IF ends THEN DestroyCurlHandle(q.handle) ELSE UNCHANGED <<pool, timed>>
        /\ buf' = IF req[r].type = "GET" THEN Landed(req[r], o) ELSE buf
        /\ IF o.applied THEN Carried(req[r]) ELSE UNCHANGED server
        /\ odd' = odd \cup Deviations(req[r], o, res)
        /\ UNCHANGED <<cfg, call, etags, calls, out>>

Try(r) ==
    /\ req[r].st = "run"
    /\ \/ /\ TryWith(r, Natural(req[r]), PerformResult(req[r], Natural(req[r])))
          /\ UNCHANGED faults
       \/ \E o \in HttpFaults(req[r]) \cup ErrorBodies(req[r]) \cup CurlFaults(req[r]) :
             Fault /\ TryWith(r, o, PerformResult(req[r], o))

-----------------------------------------------------------------------------
(* The parts of an upload, of a copy and of a download.                    *)
Chunks(n, chunk) ==
    [k \in 1 .. (n + chunk - 1) \div chunk |->
        [start |-> (k - 1) * chunk, size |-> Min2(chunk, n - (k - 1) * chunk)]]

\* A last copy below the minimum is joined to the one before it.
Joined(cs) ==
    LET n == Len(cs)
    IN  IF n > 1 /\ cs[n].size < MIN_MULTIPART_SIZE
        THEN [SubSeq(cs, 1, n - 1) EXCEPT ![n - 1].size = @ + cs[n].size]
        ELSE cs

\* UploadMultipartPostSetup, CopyMultipartPostSetup and PreGetObjectRequest.
UploadMultipartPostSetup(part, c) == NewReq("UPLOADMULTIPOST", part, c.start, c.size, c.start)

CopyMultipartPostSetup(part, c) == NewReq("COPYMULTIPOST", part, c.start, c.size, c.start)

PreGetObjectRequest(part, start, size) == NewReq("GET", part, start, size, start)

UploadParts(cs) == [k \in DOMAIN cs |-> UploadMultipartPostSetup(k, cs[k])]

CopyParts(cs) == [k \in DOMAIN cs |-> CopyMultipartPostSetup(k, cs[k])]

MixParts(copied, size) ==
    LET cs == Joined(Chunks(copied, MultipartCopySize))
    IN  Append(CopyParts(cs),
               UploadMultipartPostSetup(Len(cs) + 1, [start |-> copied, size |-> size - copied]))

\* A single request on the caller's thread, which takes a handle first.
Single(c, q) ==
    /\ CreateCurlHandle
    /\ call' = [c EXCEPT !.pc = "one"]
    /\ req' = <<[q EXCEPT !.st = "run", !.handle = Taken]>>

Answered(c, res) ==
    /\ call' = Idle /\ req' = <<>>
    /\ out' = [op |-> c.op, res |-> res, want |-> c.want, was |-> c.was,
               start |-> c.start, size |-> c.size]

\* A batch of S3fsMultiCurl::Request.
Batch(c, qs) ==
    /\ call' = [c EXCEPT !.pc = "multi"]
    /\ req' = qs

\* PutRequest, and PreMultipartPostRequest for the parts that follow it.
PutRequest(c) == Single(c, NewReq("PUT", 0, 0, c.size, 0))

PreMultipartPostRequest(c, parts) == Single([c EXCEPT !.todo = parts], Plain("PREMULTIPOST"))

------------------------------------------------------------------------------
(* The calls.                                                              *)
Called(op) ==
    /\ op \in Ops /\ call.pc = "idle" /\ calls < MaxCalls
    /\ calls' = calls + 1
    /\ buf' = <<>> /\ etags' = <<>>
    /\ UNCHANGED <<cfg, server, faults, odd, out>>

Asked(op, start, size, want) ==
    [Idle EXCEPT !.op = op, !.start = start, !.size = size, !.was = obj.data, !.want = want]

\* S3DataAdaptor::UpLoad, and the flush of a local file: one PUT for a small file.
UpLoad(size) ==
    LET c == Asked("upload", 0, size, [i \in 1 .. size |-> i])
    IN  /\ Called("upload")
        /\ IF size < MultipartSize THEN PutRequest(c)
           ELSE PreMultipartPostRequest(c, UploadParts(Chunks(size, MultipartSize)))

\* ParallelMixMultipartUploadRequest: the first units are copied from the object.
Mix(copied, size) ==
    /\ Called("mix") /\ ~cfg.newcache /\ obj.exists
    /\ copied < size /\ copied <= Len(obj.data) /\ copied >= MIN_MULTIPART_SIZE
    /\ PreMultipartPostRequest(Asked("mix", 0, size, [i \in 1 .. size |->
                                                        IF i <= copied THEN obj.data[i] ELSE i]),
                               MixParts(copied, size))

\* MultipartHeadRequest and MultipartRenameRequest.
Copy ==
    /\ Called("copy") /\ obj.exists /\ obj.data # <<>>
    /\ PreMultipartPostRequest(Asked("copy", 0, Len(obj.data), obj.data),
                               CopyParts(Chunks(Len(obj.data), MultipartCopySize)))

\* S3DataAdaptor::DownLoad and FdEntity::Load: GetObjectRequest, or batches of
\* ParallelGetObjectRequest.  A range lies in the object or beyond its end.
ParallelGetParts(start, size) ==
    LET cs == Chunks(size, MultipartSize)
    IN  [k \in DOMAIN cs |-> PreGetObjectRequest(k, start + cs[k].start, cs[k].size)]

DownLoad(start, size) ==
    LET parts == ParallelGetParts(start, size)
        now == SubSeq(parts, 1, Min2(MaxParallel, Len(parts)))
        c == [Asked("download", start, size, <<>>) EXCEPT
                 !.todo = SubSeq(parts, Len(now) + 1, Len(parts))]
    IN  /\ Called("download")
        /\ obj.exists => start >= Len(obj.data) \/ start + size <= Len(obj.data)
        /\ IF size < MultipartSize THEN Single([c EXCEPT !.todo = <<>>], PreGetObjectRequest(0, start, size))
           ELSE Batch(c, now) /\ UNCHANGED <<pool, timed>>

HeadRequest == Called("head") /\ Single(Asked("head", 0, 0, <<>>), Plain("HEAD"))

DeleteRequest == Called("delete") /\ Single(Asked("delete", 0, 0, <<>>), Plain("DELETE"))

ListBucketRequest == Called("list") /\ Single(Asked("list", 0, 0, <<>>), Plain("LISTBUCKET"))

PutHeadRequest == Called("puthead") /\ Single(Asked("puthead", 0, 0, <<>>), Plain("PUTHEAD"))

\* A handle that cannot be made or set up ends a single request at once.
SetupFails(op) ==
    /\ op \in Ops /\ call.pc = "idle" /\ calls < MaxCalls /\ Fault
    /\ calls' = calls + 1
    /\ out' = [NoOut EXCEPT !.op = op, !.res = "EIO"]
    /\ UNCHANGED <<cfg, call, req, etags, server, buf, pool, timed, odd>>

-----------------------------------------------------------------------------
(* The rest of a call made of single requests.                             *)
OneEnded(types) == call.pc = "one" /\ req[1].st = "ended" /\ req[1].type \in types

\* HeadRequest tries the SSE-C keys one after the other.  The handle goes back
\* to the pool and is taken again.
HeadNextKey ==
    /\ OneEnded({"HEAD"}) /\ req[1].res # "0" /\ call.key < SseKeys
    /\ call' = [call EXCEPT !.key = @ + 1]
    /\ req' = <<[Plain("HEAD") EXCEPT !.st = "run", !.handle = req[1].handle]>>
    /\ UNCHANGED <<cfg, etags, server, buf, pool, timed, calls, faults, out, odd>>

\* MapPutErrorResponse
MapPutErrorResponse(q) == IF q.type \in {"PUT", "PUTHEAD"} /\ q.errbody THEN "EIO" ELSE q.res

SingleDone ==
    /\ OneEnded({"HEAD", "PUT", "PUTHEAD", "GET", "DELETE", "LISTBUCKET"})
    /\ req[1].type = "HEAD" => req[1].res = "0" \/ call.key = SseKeys
    /\ DestroyCurlHandle(req[1].handle)
    /\ Answered(call, MapPutErrorResponse(req[1]))
    /\ UNCHANGED <<cfg, etags, server, buf, calls, faults, odd>>

\* PreMultipartPostRequest has ended: the parts of the upload follow.
PreMultipartDone ==
    /\ OneEnded({"PREMULTIPOST"})
    /\ DestroyCurlHandle(req[1].handle)
    /\ IF req[1].res # "0" THEN Answered(call, req[1].res) /\ UNCHANGED etags
       ELSE /\ Batch([call EXCEPT !.todo = <<>>], call.todo)
            /\ etags' = [k \in DOMAIN call.todo |-> FALSE]
            /\ UNCHANGED out
    /\ UNCHANGED <<cfg, server, buf, calls, faults, odd>>

\* CompleteMultipartPostRequest, or AbortMultipartUpload after an error, has ended.
MultipartDone ==
    /\ OneEnded({"COMPLETEMULTIPOST", "ABORTMULTIUPLOAD"})
    /\ DestroyCurlHandle(req[1].handle)
    /\ Answered(call, IF req[1].type = "COMPLETEMULTIPOST" THEN req[1].res ELSE call.res)
    /\ odd' = odd \cup IF req[1].res # "0" THEN {"end failed"} ELSE {}
    /\ UNCHANGED <<cfg, etags, server, buf, calls, faults>>

-----------------------------------------------------------------------------
(* S3fsMultiCurl: the threads of a batch, at most MaxParallel at once.     *)
Running == {i \in DOMAIN req : req[i].st = "run"}

IsNext(r) == req[r].st = "new" /\ \A i \in DOMAIN req : i < r => req[i].st # "new"

\* MultiPerform and RequestPerformWrapper: the next request gets its thread,
\* which sets the request up.
Launch(r) ==
    /\ call.pc = "multi" /\ IsNext(r) /\ Cardinality(Running) < MaxParallel
    /\ CreateCurlHandle
    /\ req' = [req EXCEPT ![r].st = "run", ![r].handle = Taken]
    /\ UNCHANGED <<cfg, call, etags, server, buf, calls, faults, out, odd>>

\* The lazy setup fails: the thread ends without an answer to read.
LazySetupFails(r) ==
    /\ call.pc = "multi" /\ IsNext(r) /\ Cardinality(Running) < MaxParallel /\ Fault
    /\ req' = [req EXCEPT ![r].st = "ended"]
    /\ UNCHANGED <<cfg, call, etags, server, buf, pool, timed, calls, out, odd>>

BatchEnded == call.pc = "multi" /\ \A i \in DOMAIN req : req[i].st = "ended"

\* MultiRead puts a request without an answer at the end of the list and reads it
\* again, for ever.
MultiReadSpins ==
    /\ BatchEnded /\ \E i \in DOMAIN req : req[i].code = NotSet
    /\ call' = [call EXCEPT !.pc = "spin"]
    /\ UNCHANGED <<cfg, req, etags, server, buf, pool, timed, calls, faults, out, odd>>

\* isRetry; the answer 404 is none.
Failed(q) == q.curl # "OK" \/ (q.code >= 400 /\ q.code # 404)
Good(q) == q.curl = "OK" /\ q.code < 400

\* Mutant: a part is sent again from where its last try stopped.
RetryCallbackResumes(q) ==
    [(IF q.type = "UPLOADMULTIPOST" THEN NewReq(q.type, q.part, q.startpos, q.size, q.at)
      ELSE NewReq(q.type, q.part, q.b_start, q.b_size, q.b_buf)) EXCEPT !.retry = q.retry + 1]

\* Mutant: the count of retries starts again.
RetryCallbackForgets(q) == NewReq(q.type, q.part, q.b_start, q.b_size, q.b_buf)

\* ParallelGetObjectRetryCallback: from where ResetOffset has put startpos and size,
\* and from buf as it is.
ParallelGetObjectRetryCallback(q) ==
    IF q.curl = "PARTIAL" THEN NewReq("GET", q.part, q.startpos, q.size, q.at)
    ELSE NewReq("GET", q.part, q.b_start, q.b_size, q.at)

\* UploadMultipartPostRetryCallback: a new object from the backups.
UploadMultipartPostRetryCallback(q) == NewReq("UPLOADMULTIPOST", q.part, q.b_start, q.b_size, q.b_buf)

CopyMultipartPostRetryCallback(q) == NewReq("COPYMULTIPOST", q.part, q.b_start, q.b_size, q.b_buf)

\* The retry callback of the batch; every one counts the retry.
RetryCallback(q) ==
    [(CASE q.type = "GET" -> ParallelGetObjectRetryCallback(q)
        [] q.type = "UPLOADMULTIPOST" -> UploadMultipartPostRetryCallback(q)
        [] OTHER -> CopyMultipartPostRetryCallback(q)) EXCEPT !.retry = q.retry + 1]

Read == BatchEnded /\ \A i \in DOMAIN req : req[i].code # NotSet
GaveUp == \E i \in DOMAIN req : Failed(req[i]) /\ req[i].retry >= Retries

\* MixMultipartPostComplete: a part has its etag unless a copy answers an error
\* document.
HasEtag(q) == IF q.type = "COPYMULTIPOST" THEN ~q.errbody ELSE TRUE

\* The success callbacks.
Etags == [p \in DOMAIN etags |->
             etags[p] \/ \E i \in DOMAIN req : req[i].part = p /\ Good(req[i]) /\ HasEtag(req[i])]

MultiReadDeviations(qs) ==
    {d \in {"buffer not rewound", "404 ignored"} :
        \E i \in DOMAIN qs : qs[i].type = "GET" /\
            IF d = "404 ignored" THEN qs[i].code = 404 /\ qs[i].curl = "OK"
            ELSE Failed(qs[i]) /\ qs[i].at # qs[i].b_buf}

\* MultiRead, and the next round of Request.
MultiRetry ==
    /\ Read /\ ~GaveUp /\ \E i \in DOMAIN req : Failed(req[i])
    /\ req' = [i \in {j \in DOMAIN req : Failed(req[j])} |-> RetryCallback(req[i])]
    /\ etags' = Etags
    /\ odd' = odd \cup MultiReadDeviations(req)
    /\ UNCHANGED <<cfg, call, server, buf, pool, timed, calls, faults, out>>

\* A download: the next MaxParallel parts, or the answer.
DownLoadNext ==
    /\ Read /\ call.op = "download"
    /\ odd' = odd \cup MultiReadDeviations(req)
    /\ \/ /\ GaveUp /\ Answered(call, "EIO")
       \/ /\ ~GaveUp /\ ~(\E i \in DOMAIN req : Failed(req[i])) /\ call.todo = <<>>
          /\ Answered(call, "0")
       \/ /\ ~GaveUp /\ ~(\E i \in DOMAIN req : Failed(req[i])) /\ call.todo # <<>>
          /\ LET n == Min2(MaxParallel, Len(call.todo))
             IN  Batch([call EXCEPT !.todo = SubSeq(@, n + 1, Len(@))], SubSeq(call.todo, 1, n))
          /\ UNCHANGED out
    /\ UNCHANGED <<cfg, etags, server, buf, pool, timed, calls, faults>>

\* The parts of an upload: the upload is aborted after an error.
AbortUpload ==
    /\ Read /\ call.op # "download" /\ GaveUp
    /\ Single([call EXCEPT !.res = "EIO"], Plain("ABORTMULTIUPLOAD"))
    /\ UNCHANGED <<cfg, etags, server, buf, calls, faults, out, odd>>

\* CompleteMultipartPostRequest: a part without an etag is an error, and the
\* upload stays.
CompleteUpload(known) ==
    /\ Read /\ call.op # "download" /\ ~GaveUp /\ ~(\E i \in DOMAIN req : Failed(req[i]))
    /\ etags' = known
    /\ IF \A p \in DOMAIN known : known[p]
       THEN Single(call, Plain("COMPLETEMULTIPOST")) /\ UNCHANGED <<out, odd>>
       ELSE /\ Answered(call, "EIO")
            /\ odd' = odd \cup {"part missing"}
            /\ UNCHANGED <<pool, timed>>
    /\ UNCHANGED <<cfg, server, buf, calls, faults>>

-----------------------------------------------------------------------------
Init ==
    /\ cfg \in [newcache : Caches, signed : Signings, key : 0 .. SseKeys]
    /\ obj \in {[exists |-> TRUE, data |-> Old], [exists |-> FALSE, data |-> <<>>]}
    /\ call = Idle /\ req = <<>> /\ etags = <<>>
    /\ mpu = [open |-> FALSE, parts |-> <<>>]
    /\ buf = <<>> /\ pool = <<>> /\ timed = {}
    /\ calls = 0 /\ faults = 0 /\ out = NoOut /\ odd = {}

Steps ==
    \/ \E r \in DOMAIN req : Try(r) \/ Launch(r) \/ LazySetupFails(r)
    \/ HeadNextKey \/ SingleDone \/ PreMultipartDone \/ MultipartDone
    \/ MultiReadSpins \/ MultiRetry \/ DownLoadNext \/ AbortUpload
    \/ CompleteUpload(Etags)

Next ==
    \/ \E n \in Sizes : UpLoad(n) \/ \E m \in 1 .. n : Mix(m, n)
    \/ Copy
    \/ \E s \in 0 .. ObjectSize, n \in Sizes : DownLoad(s, n)
    \/ HeadRequest \/ DeleteRequest \/ ListBucketRequest \/ PutHeadRequest
    \/ \E op \in Ops : SetupFails(op)
    \/ Steps

Spec == Init /\ [][Next]_vars

\* Threads are scheduled and curl ends every transfer (CurlProgress stops one
\* that does not move).
FairSpec == Spec /\ WF_vars(Steps)

-----------------------------------------------------------------------------
Corrupting == {"buffer not rewound", "no body", "answer not read"}

\* A multipart upload is left open in S3 only when its id was lost, a copied part has
\* no etag, or the request that ends it failed or its error document was not read.
UploadEnded ==
    mpu.open /\ call.pc = "idle" => odd \cap {"id lost", "part missing", "end failed", "answer not read"} # {}

\* UploadAtomic: whatever fails and is retried, the object is as it was or as the
\* call wants it, a call that answers 0 leaves it as it wants it, and no upload is
\* left behind half done.
UploadAtomic ==
    /\ UploadEnded
    /\ odd \cap Corrupting = {} =>
       /\ call.op \in {"upload", "mix", "copy"} => obj.data \in {call.was, call.want}
       /\ out.op \in {"upload", "mix", "copy"} /\ out.res = "0" /\ call.pc = "idle" => obj.data = out.want

\* GetExact: a download that answers 0 has put every unit of the range at its place
\* and nothing anywhere else.
GetExact ==
    out.op = "download" /\ out.res = "0" /\ call.pc = "idle"
    /\ odd \cap {"buffer not rewound", "404 ignored"} = {} =>
       /\ DOMAIN buf = out.start + 1 .. out.start + out.size
       /\ \A i \in DOMAIN buf : buf[i] = obj.data[i]

\* AbsentTruth: ENOENT is answered only for an object, or a range of it, that is
\* not there.
AbsentTruth ==
    out.op \in {"head", "download"} /\ out.res = "ENOENT" /\ call.pc = "idle" =>
       ~obj.exists \/ (out.op = "download" /\ out.start >= Len(obj.data))

\* HandlesWhole: a curl handle belongs to one request or to the pool, and its
\* timer lives as long as the request that owns it.
HandlesWhole ==
    /\ \A i, j \in DOMAIN req : i # j /\ req[i].handle # 0 => req[i].handle # req[j].handle
    /\ ToSet(pool) \cap Owned = {} /\ Len(pool) <= PoolSize
    /\ timed = Owned

\* CallsReturn: every call answers, unless the setup of a request of a batch has
\* failed (MultiReadSpins).
CallsReturn == (call.pc \in {"one", "multi"}) ~> (call.pc \in {"idle", "spin"})

=============================================================================
