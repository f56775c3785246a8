------------------------------ MODULE FdUpload ------------------------------
(***************************************************************************)
(* An open file and the uploads of its data when the hybrid cache is off   *)
(* (or the temporary file is forced): FdEntity with its page list and      *)
(* untreated areas, the handles opened on it (PseudoFdInfo), the thread    *)
(* pool that sends the parts of a stream upload, and what S3 holds.        *)
(*                                                                         *)
(* Every operation holds fdent_lock and fdent_data_lock from its first     *)
(* access to its last, so it is one step, except that a stream flush waits *)
(* for workers in between, and that write unlocks between the write, the   *)
(* flush of max_dirty_data and PunchHole.                                  *)
(*                                                                         *)
(* A unit of the file holds 0 (zero bytes), -k (what the object had at     *)
(* unit k) or the number of the write it came from.                        *)
(***************************************************************************)
EXTENDS PageList, UntreatedParts

CONSTANTS Fds,            \* handles open on the file
          Modes,          \* subset of ModeNames: how s3fs was started
          ObjectSizes,    \* per mode, sizes the object may have at the start; 0: a new file
          MaxSize,        \* per mode, bound on the size of the file
          MaxWriteSize,   \* bound on the size of one write
          MaxWrites, MaxFlushes,
          MaxUpsets,      \* bound on the truncations and failed requests together
          MaxDirtyData    \* max_dirty_data; 0: the check is off

Streams == {"stream", "streammix"}

ModeNames == {"nomultipart", "multipart", "mix"} \cup Streams

ASSUME FdUploadAssumption == /\ Modes \subseteq ModeNames /\ IsFiniteSet(Fds)
                             /\ MaxSize \in [Modes -> Nat]
                             /\ \A m \in Modes : ObjectSizes[m] \subseteq 0 .. MaxSize[m]

VARIABLES
    mode,     \* nomultipart, FdEntity::streamupload, FdEntity::mixmultipart
    ent,      \* the FdEntity: [phys, pl, untreated, size_orgmeta, pending]
    fdi,      \* PseudoFdInfo of each handle
    obj,      \* the object in S3
    mpu,      \* per handle, the parts S3 has of its current multipart upload
    tasks,    \* instructions in the thread pool
    flush,    \* the call that waits for workers with the locks held, or NoFlush
    dirty,    \* per handle, what its s3fs_write still has to do
    want,     \* ghost: the file as its writers see it
    exact,    \* ghost: the last flush that returned 0 left the object equal to want
    odd,      \* ghost: the known deviations that have happened
    count     \* operations so far, for the bounds

fdVars == <<mode, ent, fdi, obj, mpu, tasks, flush, dirty, want, exact, odd, count>>

NoFlush == [at |-> "none"]

-----------------------------------------------------------------------------
Range0(start, size) == start + 1 .. start + size

Data(file, start, size) ==
    [i \in 1 .. size |-> IF start + i \in DOMAIN file THEN file[start + i] ELSE 0]

ftruncate(file, size) == Data(file, 0, size)

pwrite(file, start, size, v) ==
    [i \in 1 .. Max({Len(file), start + size}) |->
        IF i \in Range0(start, size) THEN v
        ELSE IF i <= Len(file) THEN file[i] ELSE 0]

NoUpload == [id |-> 0, list |-> {}, instruct |-> 0, completed |-> 0, sem |-> 0, last |-> 0,
             open |-> TRUE, uploads |-> 0, made |-> 0]

IsUploading(i) == i.id # 0

(* ResetUploadInfo: the semaphore is not reset.                            *)
ResetUploadInfo(i) ==
    [i EXCEPT !.id = 0, !.list = {}, !.instruct = 0, !.completed = 0, !.last = 0]

(* A new upload id, after PreMultipartPostRequest.                         *)
InitialUploadInfo(i) ==
    [ResetUploadInfo(i) EXCEPT !.id = i.uploads + 1, !.uploads = @ + 1]

-----------------------------------------------------------------------------
(* An operation works on a record w of everything it may touch; w.fail     *)
(* names the kind of request that fails in it, w.res is its result.        *)
World(f, fail) ==
    [e |-> ent, i |-> fdi[f], obj |-> obj, parts |-> mpu[f], odd |-> odd, fail |-> fail, res |-> 0]

EIO(w) == [w EXCEPT !.res = 1]

ok(w) == w.res = 0

IsDirtyMetadata(e) == e.pending # "no"

ClearAllUntreated(w) == [w EXCEPT !.e.untreated = <<>>]

(* One page of Load: the bytes the object has come from S3, the rest stays *)
(* as it is in the file.                                                   *)
LoadPage(w, p, modified) ==
    LET need == IF p.offset < w.e.size_orgmeta
                THEN Min({p.bytes, w.e.size_orgmeta - p.offset}) ELSE 0
    IN IF ~ok(w) THEN w
       ELSE IF w.fail = "load" /\ need > 0 THEN EIO(w)
       ELSE [w EXCEPT !.e.phys = [k \in DOMAIN @ |->
                                    IF k \in Range0(p.offset, need) /\ k <= Len(w.obj) THEN w.obj[k] ELSE @[k]],
                      !.e.pl   = SetPageLoadedStatus(@, p.offset, p.bytes, TRUE, modified)]

LoadPages(w, pages, modified) == FoldLeft(LAMBDA v, p : LoadPage(v, p, modified), w, pages)

(* What downloads change.                                                  *)
Loaded(w, v) == [w EXCEPT !.e = v.e, !.res = v.res]

Load(w, start, size, modified) ==
    Loaded(w, LoadPages(w, GetUnloadedPages(w.e.pl, start, size), modified))

\* Mutant of ReserveDiskSpace: a modified file is dropped too.
ReserveDiskSpaceAnyway(w) ==
    [w EXCEPT !.e = IF w.fail \in {"full", "drop"}
                    THEN [@ EXCEPT !.pl = InitList(Size(@), FALSE, FALSE), !.phys = Data(<<>>, 0, Size(w.e.pl))]
                    ELSE @,
              !.res = IF w.fail = "full" THEN 2 ELSE 0]

(* ReserveDiskSpace: without room the cached data of an unmodified file is *)
(* dropped and the room asked for again ("drop": now there is some).       *)
ReserveDiskSpace(w) ==
    LET size == Size(w.e.pl)
    IN [w EXCEPT !.e = IF w.fail \in {"full", "drop"} /\ ~IsModified(w.e.pl)
                       THEN [@ EXCEPT !.pl = InitList(size, FALSE, FALSE), !.phys = Data(<<>>, 0, size)]
                       ELSE @,
                 !.res = IF w.fail = "full" THEN 2 ELSE 0]

-----------------------------------------------------------------------------
(* Multipart uploads one part at a time, for want of disk space.           *)

NoCachePreMultipartPost(w) ==
    LET reset == [w EXCEPT !.i = ResetUploadInfo(@)]
    IN IF w.fail = "pre" THEN EIO(reset)
       ELSE [reset EXCEPT !.i = InitialUploadInfo(@), !.e.pending = "no", !.parts = <<>>,
                          !.odd = @ \cup {"nocache"}]

(* AppendUploadPart accepts only the area that follows the last part.      *)
NextUploadPos(i) == Max({0} \cup {p.start + p.size : p \in i.list})

(* A filepart.  A list of them is a set, as the code sorts it by number;   *)
(* tag tells two entries for the same number apart (the code compares      *)
(* pointers to etagpair).                                                  *)
part(start, size, num, etag) ==
    [start |-> start, size |-> size, num |-> num, etag |-> etag, tag |-> 0]

NoCacheMultipartPost(w, data, start, size) ==
    LET num  == Cardinality(w.i.list) + 1
        sent == w.fail # "post"
    IN IF ~ok(w) THEN w
       ELSE IF ~IsUploading(w.i) \/ start # NextUploadPos(w.i) THEN EIO(w)
       ELSE [w EXCEPT !.i.list = @ \cup {part(start, size, num, IF sent THEN data ELSE <<>>)},
                      !.parts  = IF sent THEN Append(@, data) ELSE @,
                      !.res    = IF sent THEN 0 ELSE 1]

PostPiece(w, p, k, pieces) ==
    LET start == p.offset + (k - 1) * MultipartSize
        size  == IF k = pieces THEN next(p) - start ELSE MultipartSize
        s3    == [j \in 1 .. size |->
                    IF start + j <= Min({w.e.size_orgmeta, Len(w.obj)}) THEN w.obj[start + j] ELSE 0]
    IN IF ~p.loaded /\ w.fail = "load" /\ start < w.e.size_orgmeta THEN EIO(w)
       ELSE NoCacheMultipartPost(w, IF p.loaded THEN Data(w.e.phys, start, size) ELSE s3, start, size)

(* A whole page is posted, piece by piece; the last piece takes what would *)
(* be too short for a part of its own.                                     *)
PostPage(w, p) ==
    LET pieces == IF p.bytes < MIN_MULTIPART_SIZE THEN 1
                  ELSE (p.bytes - MIN_MULTIPART_SIZE) \div MultipartSize + 1
    IN FoldLeft(LAMBDA v, k : IF ok(v) THEN PostPiece(v, p, k, pieces) ELSE v, w,
                [k \in 1 .. IF p.bytes = 0 THEN 0 ELSE pieces |-> k])

(* NoCacheLoadAndPost from the start of the file up to size (0: all of     *)
(* it).  The page that size falls into is split by an insert that          *)
(* invalidates the loop's iterator: what follows is undefined.             *)
Before(p, size) == size = 0 \/ p.offset < size

AllLoaded(list, size) ==
    [i \in DOMAIN list |-> IF ~list[i].loaded /\ Before(list[i], size)
                           THEN [list[i] EXCEPT !.loaded = TRUE, !.modified = FALSE] ELSE list[i]]

Splits(p, size) == ~p.loaded /\ size # 0 /\ p.offset < size /\ size < next(p)

NoCacheLoaded(w, size) ==
    IF ~ok(w) THEN w
    ELSE LET split == \E p \in Range(w.e.pl.pages) : Splits(p, size)
         IN [w EXCEPT !.e.pl.pages = FoldLeft(AddCompressed, <<>>,
                                        AllLoaded(IF split THEN Parse(@, size) ELSE @, size)),
                      !.e.phys     = <<>>,
                      !.odd        = IF split THEN @ \cup {"iterator"} ELSE @]

PostPages(w, size) ==
    FoldLeft(LAMBDA v, p : IF ok(v) THEN PostPage(v, p) ELSE v, w,
             SelectSeq(w.e.pl.pages, LAMBDA p : Before(p, size)))

NoCacheLoadAndPost(w, size) ==
    LET v == PostPages(w, size)
    IN NoCacheLoaded([w EXCEPT !.i.list = v.i.list, !.parts = v.parts, !.res = v.res], size)

(* What S3 says to CompleteMultipartPostRequest: every listed part must be *)
(* the one it has, under a number of its own, and long enough unless it is *)
(* the last.                                                               *)
Completes(list, parts) ==
    /\ list # {}
    /\ \A p \in list : p.etag # <<>> /\ p.num \in DOMAIN parts /\ parts[p.num] = p.etag
    /\ \A p, q \in list : /\ p.num = q.num => p = q
                          /\ p.num < q.num => Len(p.etag) >= MIN_MULTIPART_SIZE

Joined(list) ==
    FoldLeft(LAMBDA file, p : file \o p.etag, <<>>, SetToSortSeq(list, LAMBDA a, b : a.num < b.num))

NoCacheCompleteMultipartPost(w) ==
    IF ~ok(w) THEN w
    ELSE IF w.fail = "complete" \/ ~Completes(w.i.list, w.parts) THEN EIO(w)
    ELSE [w EXCEPT !.obj = Joined(w.i.list), !.e.untreated = <<>>, !.e.phys = <<>>,
                   !.i = ResetUploadInfo(@)]

(* UploadPending(-1): a new file cannot be created without its handle.     *)
UploadPending(w) ==
    IF ~ok(w) THEN w
    ELSE IF w.e.pending = "create" \/ (w.e.pending = "meta" /\ w.fail = "put") THEN EIO(w)
    ELSE [w EXCEPT !.e.pending = "no"]

Posted(w, a, file_size) ==
    IF ok(w) THEN [w EXCEPT !.e.untreated = ClearParts(@, a.start, a.size),
                            !.e.phys = IF file_size = "cut" THEN Data(<<>>, 0, a.start + a.size) ELSE @]
    ELSE w

(* Post the area written last; "cut" gives up the local file behind it.    *)
PostArea(w, a, file_size) ==
    IF a.size = 0 THEN w
    ELSE Posted(NoCacheMultipartPost(w, Data(w.e.phys, a.start, a.size), a.start, a.size), a, file_size)

PostLastUntreated(w, min_size, file_size) ==
    IF ~ok(w) THEN w
    ELSE PostArea(w, GetLastUpdatedPart(w.e.untreated, MultipartSize, min_size), file_size)

-----------------------------------------------------------------------------
(* Write.                                                                  *)

(* A write behind the end first grows the file by a hole.                  *)
Grow(w, start) ==
    LET size == Size(w.e.pl)
    IN IF size >= start THEN w
       ELSE [w EXCEPT !.e = [@ EXCEPT !.phys      = ftruncate(@, start),
                                      !.untreated = AddPart(@, size, start - size),
                                      !.pl        = SetPageLoadedStatus(@, size, start - size, FALSE, TRUE)]]

WriteData(w, start, size, v) ==
    IF ~ok(w) THEN w
    ELSE [w EXCEPT !.e = [@ EXCEPT !.phys      = pwrite(@, start, size, v),
                                   !.pl        = SetPageLoadedStatus(@, start, size, TRUE, TRUE),
                                   !.untreated = AddPart(@, start, size)]]

LoadBehind(w, stop_pos) ==
    IF ok(w) /\ Size(w.e.pl) > stop_pos THEN Load(w, stop_pos, Size(w.e.pl), FALSE) ELSE w

LoadBefore(w, start) == IF ok(w) /\ start > 0 THEN Load(w, 0, start, FALSE) ELSE w

WriteNoMultipart(w, start, size, v) ==
    IF IsUploading(w.i) THEN EIO(w)
    ELSE LoadBehind(WriteData(LoadBefore(ReserveDiskSpace(w), start), start, size, v), start + size)

(* No room before an upload has started: start one, if the file will be    *)
(* long enough, and post what is in front of the write.                    *)
AllTreated(w) == IF ok(w) THEN ClearAllUntreated(w) ELSE w

StartNoCache(w, size) == IF ok(w) THEN AllTreated(NoCacheLoadAndPost(w, size)) ELSE w

SwitchToNoCache(w, start, size) ==
    IF start + size <= MultipartSize THEN w
    ELSE StartNoCache(NoCachePreMultipartPost([w EXCEPT !.res = 0]), start)

(* A part of the file is posted once it is long enough, and the local file *)
(* given up.                                                               *)
PostWritten(w) ==
    IF IsUploading(w.i) THEN PostLastUntreated(w, MIN_MULTIPART_SIZE, "cut") ELSE w

ReadyMultipart(w, start, size) ==
    IF ok(w) THEN LoadBefore(w, start) ELSE SwitchToNoCache(w, start, size)

WriteMultipart(w, start, size, v) ==
    PostWritten(LoadBehind(WriteData(IF IsUploading(w.i) THEN w
                                     ELSE ReadyMultipart(ReserveDiskSpace(w), start, size),
                                     start, size, v), start + size))

ReadyMix(w, start, size) == IF ok(w) THEN w ELSE SwitchToNoCache(w, start, size)

WriteMixMultipart(w, start, size, v) ==
    PostWritten(WriteData(IF IsUploading(w.i) THEN w
                          ELSE ReadyMix(ReserveDiskSpace(w), start, size), start, size, v))

(* Stream upload.  The area written last is cut at part boundaries; whole  *)
(* parts are handed to the thread pool, parts sent before for the same     *)
(* area are taken off the list.                                            *)
InArea(p, start, size) == p.start < start + size /\ start < p.start + p.size

PartNum(start) == start \div MultipartSize + 1

ExtractUploadPartsFromUntreatedArea(i, start, size) ==
    LET hit   == {p \in i.list : InArea(p, start, size)}
        end   == Max({start + size} \cup {p.start + p.size : p \in hit})
        whole == {k \in 1 .. MaxSize[mode] : start + k * MultipartSize <= end}
    IN [keep |-> i.list \ hit,
        up   |-> {part(start + (k - 1) * MultipartSize, MultipartSize, PartNum(start) + k - 1, <<>>) : k \in whole}]

Tagged(i, parts) == {[p EXCEPT !.tag = i.made + 1] : p \in parts}

(* ParallelMultipartUpload: the parts are listed and become instructions.  *)
ParallelMultipartUpload(i, parts) ==
    [i EXCEPT !.list     = @ \cup Tagged(i, parts),
              !.instruct = @ + Cardinality(parts),
              !.made     = @ + 1]

Instructions(f, i, parts, copy) ==
    {[fd |-> f, id |-> i.id, part |-> p, copy |-> copy, at |-> "queued"] : p \in Tagged(i, parts)}

(* An upload id, unless the handle has one.                                *)
PreMultipartPost(w) ==
    IF ~ok(w) \/ IsUploading(w.i) THEN w
    ELSE IF w.fail = "pre" THEN EIO(w)
    ELSE [w EXCEPT !.i = InitialUploadInfo(@), !.parts = <<>>, !.e.pending = "no"]

HandToPool(w, a, aligned, size, up) ==
    IF ~ok(w) THEN [w |-> w, from |-> w.i, up |-> {}]
    ELSE [from |-> w.i, up |-> up,
          w    |-> [w EXCEPT !.i = ParallelMultipartUpload(@, up),
                             !.e.untreated = ReplaceLastUpdateUntreatedPart(@, a.start, aligned - a.start,
                                                aligned + size, stop(a) - (aligned + size))]]

UploadArea(w, a) ==
    LET aligned == ((a.start + MultipartSize - 1) \div MultipartSize) * MultipartSize
        size    == ((stop(a) - aligned) \div MultipartSize) * MultipartSize
        plan    == ExtractUploadPartsFromUntreatedArea(w.i, aligned, size)
    IN IF stop(a) <= aligned \/ size = 0 THEN [w |-> w, from |-> w.i, up |-> {}]
       ELSE HandToPool(PreMultipartPost([w EXCEPT !.i.list = plan.keep]), a, aligned, size, plan.up)

UploadBoundaryLastUntreatedArea(w) ==
    IF LastIndex(w.e.untreated) = 0 THEN [w |-> w, from |-> w.i, up |-> {}]
    ELSE UploadArea(w, w.e.untreated[LastIndex(w.e.untreated)])

WriteStreamUpload(w, start, size, v) ==
    UploadBoundaryLastUntreatedArea(WriteData(w, start, size, v))

WriteHere(w, start, size, v) ==
    CASE mode = "nomultipart" -> WriteNoMultipart(w, start, size, v)
      [] mode = "multipart"   -> WriteMultipart(w, start, size, v)
      [] mode = "mix"         -> WriteMixMultipart(w, start, size, v)

Alone(w) == [w |-> w, from |-> w.i, up |-> {}]

(* FdEntity::Write: the state after it, and the parts for the workers.     *)
DoWrite(w, start, size, v) ==
    IF mode \in Streams THEN WriteStreamUpload(w, start, size, v)
    ELSE Alone(WriteHere(w, start, size, v))

-----------------------------------------------------------------------------
(* RowFlush.                                                               *)

Uploaded(w) == [w EXCEPT !.e.pl = ClearAllModified(@)]

(* A single PUT, or the parallel upload of every part, of the whole file.  *)
PutRequest(w) == IF w.fail = "put" THEN EIO(w) ELSE [w EXCEPT !.obj = w.e.phys]

ResetSize(w, size) == ClearAllUntreated([w EXCEPT !.e.size_orgmeta = size])

LoadAll(w) == IF ok(w) THEN Load(w, 0, 0, FALSE) ELSE w

(* After the PUT the size and the untreated areas are reset, whatever its  *)
(* result.                                                                 *)
PutWhole(w, size) == IF ok(w) THEN ResetSize(PutRequest(w), size) ELSE w

FlushDone(w) == IF ok(w) THEN Uploaded(w) ELSE w

RowFlushNoMultipart(w) ==
    IF IsUploading(w.i) THEN EIO(w)
    ELSE FlushDone(PutWhole(LoadAll(IF GetTotalUnloadedPageSize(w.e.pl, 0, 0, 0) > 0
                                    THEN ReserveDiskSpace(w) ELSE w), Len(w.e.phys)))

(* The parts of a mixed upload: modified pages from the file, the others   *)
(* copied from the object.                                                 *)
MixParts(w, pages) ==
    [k \in DOMAIN pages |->
        part(pages[k].offset, pages[k].bytes, k,
             Data(IF pages[k].modified THEN w.e.phys ELSE w.obj, pages[k].offset, pages[k].bytes))]

CompleteMix(w, list) ==
    IF w.fail = "put" \/ ~Completes(Range(list), [k \in DOMAIN list |-> list[k].etag])
    THEN EIO(w) ELSE [w EXCEPT !.obj = Joined(Range(list))]

ParallelMixMultipartUploadRequest(w, mixuppages) ==
    IF \E p \in Range(mixuppages) : ~p.modified /\ next(p) > Len(w.obj) THEN EIO(w)
    ELSE CompleteMix(w, MixParts(w, mixuppages))

PutParts(w, mixuppages, size) ==
    IF ok(w) THEN ResetSize(ParallelMixMultipartUploadRequest(w, mixuppages), size) ELSE w

LoadPlanned(w, dlpages) ==
    FoldLeft(LAMBDA v, p : Load(v, p.offset, p.bytes, TRUE), w, dlpages)

FlushMixPlan(w, plan) ==
    PutParts(Loaded(w, LoadPlanned(w, plan.dlpages)), plan.mixuppages, Len(w.e.phys))

(* An upload has begun part by part: post what is left and complete it.    *)
FlushNoCache(w) ==
    UploadPending(NoCacheCompleteMultipartPost(PostLastUntreated(w, 0, "keep")))

NoRoom(w) == StartNoCache(NoCachePreMultipartPost([w EXCEPT !.res = 0]), 0)

FlushLocal(w) ==
    IF ~ok(w) THEN NoRoom(w)
    ELSE IF mode = "mix" /\ Size(w.e.pl) >= MultipartSize
    THEN FlushMixPlan(w, GetPageListsForMultipartUpload(w.e.pl))
    ELSE PutWhole(LoadAll(w), Len(w.e.phys))

MetaDone(w) == IF ok(w) THEN [w EXCEPT !.e.pending = "no"] ELSE w

RowFlushMultipart(w) ==
    LET limit == IF mode = "mix" THEN MIN_MULTIPART_SIZE ELSE 0
    IN MetaDone(FlushDone(
         IF IsUploading(w.i) THEN FlushNoCache(w)
         ELSE FlushLocal(IF GetTotalUnloadedPageSize(w.e.pl, 0, 0, limit) > 0
                         THEN ReserveDiskSpace(w) ELSE w)))

(* A stream upload of a file of at most one part is a single PUT.          *)
RowFlushStreamSmall(w) ==
    FlushDone(PutWhole(LoadAll([w EXCEPT !.odd = IF \E f \in Fds : IsUploading(fdi[f])
                                                 THEN @ \cup {"stale_parts"} ELSE @]),
                       Len(w.e.phys)))

(* The pieces of an area that its untreated parts leave out.               *)
Gaps(un, start, size) ==
    LET begin(k) == IF k = 0 THEN start ELSE Min({stop(un[k]), start + size})
        end(k)   == IF k > Len(un) THEN start + size ELSE Max({un[k].start, start})
    IN [k \in 1 .. Len(un) + 1 |-> [start |-> begin(k - 1), size |-> end(k) - begin(k - 1)]]

(* The file in areas of one part each, as ExtractUploadPartsFromAllArea    *)
(* goes through it.                                                        *)
AreaStart(k) == (k - 1) * MultipartSize

AreaSize(w, k) == Min({MultipartSize, Size(w.e.pl) - AreaStart(k)})

Areas(w) == {k \in 1 .. MaxSize[mode] : AreaStart(k) < Size(w.e.pl)}

UntreatedIn(w, k) == SelectSeq(w.e.untreated, LAMBDA p : InArea(p, AreaStart(k), AreaSize(w, k)))

Written(w, k) == UntreatedIn(w, k) # <<>>

Sent(w, k) == \E p \in w.i.list : InArea(p, AreaStart(k), AreaSize(w, k))

Copied(w, k) == mode = "streammix" /\ ~Written(w, k) /\ ~Sent(w, k)

GapsIn(w, k) == Gaps(UntreatedIn(w, k), AreaStart(k), AreaSize(w, k))

(* The gap an area begins with may join the copied part in front of it.    *)
Joining(w, k) ==
    IF /\ k - 1 \in Areas(w) /\ Copied(w, k - 1)
       /\ k \in Areas(w) /\ Written(w, k) /\ ~Sent(w, k)
       /\ AreaSize(w, k) - GapsIn(w, k)[1].size >= MIN_MULTIPART_SIZE
    THEN GapsIn(w, k)[1].size ELSE 0

Missing(w, k) ==
    IF Sent(w, k) \/ Copied(w, k) THEN <<>>
    ELSE SelectSeq(GapsIn(w, k), LAMBDA g : g.size > 0 /\ g.start >= AreaStart(k) + Joining(w, k))

(* For each area, whether it is uploaded already, must be sent (again), or *)
(* can be copied, and what of it must be downloaded first.                 *)
ExtractUploadPartsFromAllArea(w) ==
    LET areas == Areas(w)
        again == {k \in areas : Written(w, k) /\ Sent(w, k)}
        new   == {k \in areas : ~Sent(w, k) /\ ~Copied(w, k)}
    IN [list |-> {p \in w.i.list : \A k \in again : ~InArea(p, AreaStart(k), AreaSize(w, k))},
        up   |-> {part(AreaStart(k) + Joining(w, k), AreaSize(w, k) - Joining(w, k), k, <<>>) : k \in again \cup new},
        copy |-> {part(AreaStart(k), AreaSize(w, k) + Joining(w, k + 1), k, <<>>)
                     : k \in {j \in areas : Copied(w, j)}},
        down |-> FlattenSeq([k \in 1 .. Cardinality(areas) |-> Missing(w, k)]),
        wait |-> again # {}]

-----------------------------------------------------------------------------
(* Actions.                                                                *)

(* The failures an operation may meet while the budget lasts.              *)
Fails(S) == {"no"} \cup IF count.upsets < MaxUpsets THEN S ELSE {}

Upset(fail) == IF fail = "no" THEN 0 ELSE 1

Bounded(what, max, fail) ==
    /\ count[what] < max
    /\ count' = [count EXCEPT ![what] = @ + 1, !.upsets = @ + Upset(fail)]

Take(f, w) ==
    /\ ent' = w.e
    /\ fdi' = [fdi EXCEPT ![f] = w.i]
    /\ obj' = w.obj
    /\ mpu' = [mpu EXCEPT ![f] = w.parts]

Idle(f) == flush = NoFlush /\ fdi[f].open /\ dirty[f] = "no"

FdInit ==
    /\ mode \in Modes
    /\ \E size \in ObjectSizes[mode] :
        /\ obj = [k \in 1 .. size |-> -k]
        /\ want = obj
        /\ ent = [phys |-> Data(<<>>, 0, size),
                  pl |-> InitList(size, FALSE, size = 0),
                  untreated |-> <<>>, size_orgmeta |-> size,
                  pending |-> IF size = 0 THEN "create" ELSE "no"]
    /\ fdi = [f \in Fds |-> NoUpload]
    /\ mpu = [f \in Fds |-> <<>>]
    /\ tasks = {} /\ flush = NoFlush /\ dirty = [f \in Fds |-> "no"] /\ exact = TRUE /\ odd = {}
    /\ count = [writes |-> 0, flushes |-> 0, upsets |-> 0]

(* s3fs_write up to the check of max_dirty_data.  After a write that       *)
(* reported an error nothing is said of the file's contents.               *)
Wrote(f, r) ==
    /\ Take(f, r.w)
    /\ tasks' = tasks \cup Instructions(f, r.from, r.up, FALSE)
    /\ odd' = r.w.odd \cup (IF ok(r.w) THEN {} ELSE {"write_failed"})
                      \cup (IF \E g \in Fds \ {f} : IsUploading(r.w.i) /\ IsUploading(fdi[g])
                            THEN {"two_uploads"} ELSE {})
    /\ dirty' = IF MaxDirtyData > 0 /\ BytesModified(r.w.e.pl) >= MaxDirtyData
                THEN [dirty EXCEPT ![f] = "flush"] ELSE dirty

Write(f) ==
    \E start \in 0 .. MaxSize[mode] - 1, size \in 1 .. MaxWriteSize,
       fail \in Fails({"load", "pre", "post", "full", "drop"}) :
        LET v == count.writes + 1
        IN /\ Idle(f) /\ start + size <= MaxSize[mode]
           /\ Bounded("writes", MaxWrites, fail)
           /\ Wrote(f, DoWrite(Grow(World(f, fail), start), start, size, v))
           /\ want' = pwrite(want, start, size, v)
           /\ UNCHANGED <<mode, flush, exact>>

(* A flush ends.  The one s3fs_write asked for is followed by PunchHole.   *)
Flushed(f, w) ==
    /\ Take(f, w)
    /\ exact' = IF ok(w) THEN w.obj = want ELSE exact
    /\ dirty' = [dirty EXCEPT ![f] = IF @ = "flush" /\ ok(w) THEN "punch" ELSE "no"]
    /\ odd' = w.odd \cup IF ok(w) THEN {} ELSE {"flush_failed"}
    /\ flush' = NoFlush
    /\ UNCHANGED <<mode, tasks, want>>

FdRowFlush(w, force_sync) ==
    CASE mode = "nomultipart" -> IF ~force_sync /\ ~IsModified(ent.pl) THEN UploadPending(w)
                                 ELSE RowFlushNoMultipart(w)
      [] mode \in Streams     -> RowFlushStreamSmall(w)
      [] OTHER                -> RowFlushMultipart(w)

(* RowFlush where all of it is one step.                                   *)
RowFlushHere(f, force_sync) ==
    \E fail \in Fails({"load", "pre", "post", "put", "complete", "full", "drop"}) :
        /\ mode \in Streams => Size(ent.pl) <= MultipartSize
        /\ Bounded("flushes", MaxFlushes, fail)
        /\ Flushed(f, FdRowFlush(World(f, fail), force_sync))

(* RowFlushStreamMultipart up to its first wait: the plan, the downloads   *)
(* and the upload id.                                                      *)
LoadAreas(w, areas) ==
    FoldLeft(LAMBDA v, d : IF ok(v) THEN Load(v, d.start, d.size, FALSE) ELSE v, w, areas)

Download(w, down) ==
    Loaded(w, LoadAreas(IF down = <<>> THEN w ELSE ReserveDiskSpace(w), down))

StartStream(f, w, plan) ==
    IF ~ok(w) THEN Flushed(f, w)
    ELSE /\ Take(f, w)
         /\ flush' = [fd |-> f, at |-> IF plan.wait THEN "check" ELSE "go",
                      then |-> IF plan.wait THEN "reupload" ELSE "upload",
                      up |-> plan.up, copy |-> plan.copy]
         /\ odd' = w.odd
         /\ UNCHANGED <<mode, tasks, want, dirty, exact>>

StreamPlan(f, w, plan) ==
    StartStream(f, PreMultipartPost(Download([w EXCEPT !.i.list = plan.list], plan.down)), plan)

RowFlushStream(f) ==
    \E fail \in Fails({"load", "pre", "full", "drop"}) :
        LET w == [World(f, fail) EXCEPT !.odd = IF \E g \in Fds \ {f} : fdi[g].list # {}
                                                THEN @ \cup {"two_uploads"} ELSE @]
        IN /\ mode \in Streams /\ Size(ent.pl) > MultipartSize
           /\ Bounded("flushes", MaxFlushes, fail)
           /\ StreamPlan(f, w, ExtractUploadPartsFromAllArea(w))

(* s3fs_flush and fsync (nothing to do when nothing changed), and the      *)
(* flush of s3fs_write under max_dirty_data.                               *)
Flush(f) ==
    /\ flush = NoFlush /\ fdi[f].open
    /\ \/ dirty[f] = "no" /\ (IsModified(ent.pl) \/ IsDirtyMetadata(ent))
       \/ dirty[f] = "flush"
    /\ RowFlushHere(f, dirty[f] = "flush") \/ RowFlushStream(f)

(* WaitAllThreadsExit first looks at the counts, then takes the semaphore  *)
(* until both are 0.                                                       *)
At(f, at) == flush # NoFlush /\ flush.fd = f /\ flush.at = at

NoneLeft(i) == i.instruct = 0 /\ i.completed = 0

WaitCheck(f) ==
    /\ At(f, "check")
    /\ flush' = [flush EXCEPT !.at = IF NoneLeft(fdi[f]) THEN "go" ELSE "sem"]
    /\ UNCHANGED <<mode, ent, fdi, obj, mpu, tasks, dirty, want, exact, odd, count>>

WaitSem(f) ==
    LET i == [fdi[f] EXCEPT !.sem = @ - 1, !.completed = Max({0, @ - 1})]
    IN /\ At(f, "sem") /\ fdi[f].sem > 0
       /\ fdi' = [fdi EXCEPT ![f] = i]
       /\ flush' = [flush EXCEPT !.at = IF NoneLeft(i) THEN "go" ELSE "sem"]
       /\ UNCHANGED <<mode, ent, obj, mpu, tasks, dirty, want, exact, odd, count>>

(* ParallelMultipartUploadAll up to its wait.                              *)
UploadAll(f) ==
    LET i1 == ParallelMultipartUpload(fdi[f], flush.up)
    IN /\ At(f, "go") /\ flush.then \in {"upload", "reupload"}
       /\ IF flush.then = "reupload" /\ fdi[f].last # 0 THEN Flushed(f, EIO(World(f, "no"))) /\ UNCHANGED count
          ELSE /\ fdi' = [fdi EXCEPT ![f] = ParallelMultipartUpload(i1, flush.copy)]
               /\ tasks' = tasks \cup Instructions(f, fdi[f], flush.up, FALSE)
                                \cup Instructions(f, i1, flush.copy, TRUE)
               /\ flush' = [flush EXCEPT !.at = "check", !.then = "complete"]
               /\ UNCHANGED <<mode, ent, obj, mpu, dirty, want, exact, odd, count>>

(* All parts are there: complete the upload.  On any error the untreated   *)
(* areas and the upload are forgotten.                                     *)
Completed(w, sent) ==
    IF ~sent THEN EIO(w)
    ELSE FlushDone(UploadPending([w EXCEPT !.odd = IF w.e.size_orgmeta < Len(w.obj)
                                                   THEN @ \cup {"size_orgmeta"} ELSE @]))

CompleteRequest(w, sent) ==
    [w EXCEPT !.i = ResetUploadInfo(@), !.e.untreated = <<>>,
              !.obj = IF sent THEN Joined(w.i.list) ELSE @]

FlushComplete(f) ==
    \E fail \in Fails({"complete", "put"}) :
        LET i    == fdi[f]
            sent == i.last = 0 /\ fail # "complete" /\ Completes(i.list, mpu[f])
        IN /\ At(f, "go") /\ flush.then = "complete"
           /\ count' = [count EXCEPT !.upsets = @ + Upset(fail)]
           /\ Flushed(f, Completed(CompleteRequest(World(f, fail), sent), sent))

(* ThreadPoolMan::Worker takes an instruction; nothing is sent after a     *)
(* part has failed.                                                        *)
\* Mutant of CompleteInstruction: a failed instruction is not counted.
CompleteInstructionLost(i, result) ==
    IF result # 0 THEN [i EXCEPT !.last = result]
    ELSE [i EXCEPT !.instruct = @ - 1, !.completed = @ + 1]

CompleteInstruction(i, result) ==
    LET j == IF result = 0 THEN i ELSE [i EXCEPT !.last = result]
    IN IF j.instruct = 0 THEN j
       ELSE [j EXCEPT !.instruct = @ - 1, !.completed = @ + 1]

Moves(t, at) == tasks' = (tasks \ {t}) \cup {[t EXCEPT !.at = at]}

WorkerTakes(t) ==
    /\ t.at = "queued"
    /\ IF fdi[t.fd].last # 0
       THEN /\ fdi' = [fdi EXCEPT ![t.fd] = CompleteInstruction(@, fdi[t.fd].last)]
            /\ Moves(t, "done")
       ELSE Moves(t, "sending") /\ UNCHANGED fdi
    /\ UNCHANGED <<mode, ent, obj, mpu, flush, dirty, want, exact, odd, count>>

(* The part is read from the file (or copied from the object) and its etag *)
(* set in the entry it was listed for.                                     *)
Etagged(i, p, data) ==
    [i EXCEPT !.list = {IF q.num = p.num /\ q.tag = p.tag THEN [q EXCEPT !.etag = data] ELSE q : q \in @}]

WorkerSends(t) ==
    \E fail \in Fails({"post"}) :
        LET f    == t.fd
            p    == t.part
            from == IF t.copy THEN obj ELSE ent.phys
            sent == fail = "no" /\ p.start + p.size <= Len(from)
            data == Data(from, p.start, p.size)
        IN /\ t.at = "sending"
           /\ fdi' = [fdi EXCEPT ![f] = IF sent THEN CompleteInstruction(Etagged(@, p, data), 0)
                                        ELSE CompleteInstruction(@, 1)]
           /\ mpu' = IF sent /\ t.id = fdi[f].id
                     THEN [mpu EXCEPT ![f] = [n \in DOMAIN @ \cup {p.num} |-> IF n = p.num THEN data ELSE @[n]]]
                     ELSE mpu
           /\ Moves(t, "done")
           /\ count' = [count EXCEPT !.upsets = @ + Upset(fail)]
           /\ UNCHANGED <<mode, ent, obj, flush, dirty, want, exact, odd>>

WorkerPosts(t) ==
    /\ t.at = "done"
    /\ tasks' = tasks \ {t}
    /\ fdi' = [fdi EXCEPT ![t.fd].sem = @ + 1]
    /\ UNCHANGED <<mode, ent, obj, mpu, flush, dirty, want, exact, odd, count>>

(* FdEntity::PunchHole after the flush of s3fs_write.  A hole in what is   *)
(* not in S3 yet loses it.                                                 *)
PunchHole(f) ==
    LET holes == GetNoDataPageLists(ent.pl)
        punched(k) == \E i \in DOMAIN holes : k \in Range0(holes[i].offset, holes[i].bytes)
    IN /\ dirty[f] = "punch" /\ flush = NoFlush
       /\ dirty' = [dirty EXCEPT ![f] = "no"]
       /\ ent' = [ent EXCEPT !.phys = [k \in DOMAIN @ |-> IF punched(k) THEN 0 ELSE @[k]],
                             !.pl   = FoldLeft(LAMBDA pl, p : SetPageLoadedStatus(pl, p.offset, p.bytes, FALSE, FALSE),
                                               Compress(@), holes)]
       /\ odd' = odd \cup IF \E k \in DOMAIN ent.pl.pages : /\ ent.pl.pages[k].modified
                                                             /\ ent.pl.pages[k].bytes > 0
                                                             /\ punched(next(ent.pl.pages[k]))
                          THEN {"punched"} ELSE {}
       /\ UNCHANGED <<mode, fdi, obj, mpu, tasks, flush, want, exact, count>>

(* s3fs_truncate of the open file: FdEntity::Open with a new size.  While  *)
(* the file is modified and open more than once, FdManager::Open ignores a *)
(* size that is not larger.                                                *)
Truncate ==
    \E size \in 0 .. MaxSize[mode] :
        LET e       == ent
            ignored == /\ IsModified(e.pl) /\ size <= Size(e.pl)
                       /\ Cardinality({f \in Fds : fdi[f].open}) > 1
            resized == IF Size(e.pl) = size THEN e
                       ELSE [e EXCEPT !.phys = ftruncate(@, size), !.pl = Resize(@, size, FALSE, TRUE)]
            grown   == [resized EXCEPT
                          !.untreated    = IF e.size_orgmeta < size
                                           THEN AddPart(@, e.size_orgmeta, size - e.size_orgmeta) ELSE @,
                          !.size_orgmeta = Min({Len(obj), size})]
        IN /\ flush = NoFlush /\ \E f \in Fds : fdi[f].open
           /\ count.upsets < MaxUpsets
           /\ count' = [count EXCEPT !.upsets = @ + 1]
           /\ ent' = IF ignored THEN [e EXCEPT !.size_orgmeta = Min({Len(obj), e.size_orgmeta})] ELSE grown
           /\ want' = IF ignored THEN want ELSE ftruncate(want, size)
           /\ odd' = odd \cup IF /\ mode \in Streams /\ ~ignored
                                 /\ \E p \in UNION {fdi[f].list : f \in Fds} \cup Range(e.untreated) :
                                        p.start + p.size > size
                              THEN {"parts_beyond_the_end"} ELSE {}
           /\ UNCHANGED <<mode, fdi, obj, mpu, tasks, flush, dirty, exact>>

(* FdEntity::Read, with its prefetch up to the end of the file.            *)
Prefetch(w, start, size) == IF ok(w) THEN Load(w, start, size, FALSE) ELSE w

Read(f) ==
    \E start \in 0 .. MaxSize[mode] - 1, size \in 1 .. MaxSize[mode], fail \in Fails({"load", "full", "drop"}) :
        /\ Idle(f)
        /\ GetTotalUnloadedPageSize(ent.pl, start, size, 0) > 0
        /\ Take(f, Prefetch(ReserveDiskSpace(World(f, fail)), start, Max({size, Size(ent.pl) - start})))
        /\ count' = [count EXCEPT !.upsets = @ + Upset(fail)]
        /\ UNCHANGED <<mode, tasks, flush, dirty, want, exact, odd>>

(* FdEntity::Close destroys the handle's PseudoFdInfo.  CancelAllThreads   *)
(* waits only when some worker has finished already.  close(2) has flushed *)
(* the handle before.                                                      *)
Close(f) ==
    LET i == fdi[f]
    IN /\ Idle(f)
       /\ IF IsModified(ent.pl) \/ IsDirtyMetadata(ent) THEN "flush_failed" \in odd ELSE TRUE
       /\ IF i.instruct > 0 /\ i.completed > 0
          THEN /\ fdi' = [fdi EXCEPT ![f].last = 1]
               /\ flush' = [fd |-> f, at |-> "check", then |-> "close", up |-> {}, copy |-> {}]
               /\ UNCHANGED <<tasks, odd>>
          ELSE /\ fdi' = [fdi EXCEPT ![f] = [ResetUploadInfo(@) EXCEPT !.open = FALSE]]
               /\ tasks' = {t \in tasks : t.fd # f}
               /\ odd' = IF \E t \in tasks : t.fd = f THEN odd \cup {"worker_of_a_dead_handle"} ELSE odd
               /\ UNCHANGED flush
       /\ UNCHANGED <<mode, ent, obj, mpu, dirty, want, exact, count>>

CloseEnds(f) ==
    /\ At(f, "go") /\ flush.then = "close"
    /\ fdi' = [fdi EXCEPT ![f] = [ResetUploadInfo(@) EXCEPT !.open = FALSE]]
    /\ flush' = NoFlush
    /\ UNCHANGED <<mode, ent, obj, mpu, tasks, dirty, want, exact, odd, count>>

Worker == \E t \in tasks : WorkerTakes(t) \/ WorkerSends(t) \/ WorkerPosts(t)

Waiter(f) == WaitCheck(f) \/ WaitSem(f) \/ UploadAll(f) \/ FlushComplete(f) \/ CloseEnds(f)

FdNext ==
    \/ \E f \in Fds : Write(f) \/ Flush(f) \/ PunchHole(f) \/ Read(f) \/ Close(f) \/ Waiter(f)
    \/ Truncate
    \/ Worker

(* The pool's threads and the thread that waits for them keep running.     *)
FdSpec == FdInit /\ [][FdNext]_fdVars /\ WF_fdVars(Worker) /\ \A f \in Fds : WF_fdVars(Waiter(f))

-----------------------------------------------------------------------------
(* No deviation has happened.  A failed flush is one in the stream modes   *)
(* only, where it clears the untreated parts the next one would need.      *)
Sound == odd \subseteq IF mode \in Streams THEN {} ELSE {"flush_failed"}

(* A flush that returned 0 (RowFlush, or the complete request of a stream  *)
(* upload) left in S3 exactly what the writers had written, whichever of   *)
(* the areas were loaded, modified, posted or copied, and whatever was     *)
(* retried; unless one of the deviations in odd has happened.              *)
FlushExact == Sound => exact

(* The page list has no gaps or overlaps, is as long as the file, and its  *)
(* stat file (PageList::Serialize) reads back page for page.               *)
PagesWhole ==
    LET p == ent.pl.pages
    IN /\ p # <<>> => p[1].offset = 0
       /\ \A k \in 1 .. Len(p) - 1 : next(p[k]) = p[k + 1].offset
       /\ Sound => Size(ent.pl) = Len(want)
       /\ Deserialize(Serialize(ent.pl)).pages = p

(* Whoever loads and reads the whole file gets what was written: the page  *)
(* list is whole, and no load, PunchHole, truncation or dropped cache      *)
(* covers newer data by older.                                             *)
ReadExact ==
    /\ PagesWhole
    /\ Sound /\ flush = NoFlush =>
         \A f \in Fds : ftruncate(Load(World(f, "no"), 0, 0, FALSE).e.phys, Size(ent.pl)) = want

(* Whoever waits for the semaphore of its workers is woken: a worker that  *)
(* will post it is left, however many posts and counts earlier uploads     *)
(* left behind.                                                            *)
WaiterWakes ==
    \A f \in Fds : At(f, "sem") /\ fdi[f].sem = 0 => \E t \in tasks : t.fd = f
=============================================================================
