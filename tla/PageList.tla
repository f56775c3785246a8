------------------------------ MODULE PageList ------------------------------
(***************************************************************************)
(* The page list of an open file (PageList, s3fs/fdcache_page.cpp): which  *)
(* parts of the local file hold data (loaded) and which differ from the    *)
(* object (modified).  A list is [pages, is_shrink], pages a sequence of   *)
(* fdpage records.  Sizes and offsets are counted in units, a unit being   *)
(* the largest size that divides every size of interest.                   *)
(***************************************************************************)
EXTENDS Integers, Sequences, SequencesExt, FiniteSetsExt

CONSTANTS MIN_MULTIPART_SIZE,   \* 5 MiB in the code
          MultipartSize         \* S3fsCurl::GetMultipartSize(), 10 MiB by default

ASSUME SizesAssumption == /\ MIN_MULTIPART_SIZE \in Nat \ {0}
                          /\ MultipartSize \in Nat
                          /\ MultipartSize >= MIN_MULTIPART_SIZE

-----------------------------------------------------------------------------
fdpage(offset, bytes, loaded, modified) ==
    [offset |-> offset, bytes |-> bytes, loaded |-> loaded, modified |-> modified]

next(p) == p.offset + p.bytes

Size(pl) == IF pl.pages = <<>> THEN 0 ELSE next(Last(pl.pages))

InitList(size, loaded, modified) ==
    [pages |-> <<fdpage(0, size, loaded, modified)>>, is_shrink |-> FALSE]

(* One turn of the loops of Compress and raw_compress_fdpage_list: a gap   *)
(* before p becomes an unloaded page (or part of one), and p is joined to  *)
(* the last page when their flags agree.                                   *)
FillGap(list, p) ==
    LET last == list[Len(list)]
    IN IF next(last) = p.offset THEN list
       ELSE IF last.loaded \/ last.modified
       THEN Append(list, fdpage(next(last), p.offset - next(last), FALSE, FALSE))
       ELSE [list EXCEPT ![Len(list)].bytes = p.offset - last.offset]

JoinPage(list, p) ==
    IF list[Len(list)].loaded = p.loaded /\ list[Len(list)].modified = p.modified
    THEN [list EXCEPT ![Len(list)].bytes = @ + p.bytes]
    ELSE Append(list, p)

AddCompressed(list, p) == IF list = <<>> THEN <<p>> ELSE JoinPage(FillGap(list, p), p)

Compress(pl) == [pl EXCEPT !.pages = FoldLeft(AddCompressed, <<>>, @)]

HasBytes(p) == p.bytes > 0

IgnoreLoad(p) == [p EXCEPT !.loaded = FALSE]

IgnoreModify(p) == [p EXCEPT !.modified = FALSE]

(* raw_compress_fdpage_list on a list whose ignored flags are cleared.     *)
raw_compress_fdpage_list(list) ==
    FoldLeft(AddCompressed, <<>>, SelectSeq(list, HasBytes))

(* Split the page that new_pos falls inside.                               *)
SplitPage(p, pos) ==
    IF p.offset < pos /\ pos < next(p)
    THEN <<[p EXCEPT !.bytes = pos - p.offset], [p EXCEPT !.offset = pos, !.bytes = next(p) - pos]>>
    ELSE <<p>>

Parse(list, new_pos) == FoldLeft(LAMBDA pages, p : pages \o SplitPage(p, new_pos), <<>>, list)

CutAt(list, size) ==
    [i \in 1 .. Cardinality({j \in DOMAIN list : list[j].offset < size \/ next(list[j]) <= size}) |->
        IF next(list[i]) <= size THEN list[i] ELSE [list[i] EXCEPT !.bytes = size - list[i].offset]]

Resize(pl, size, loaded, modified) ==
    LET total == Size(pl)
        sized == IF total = 0
                 THEN [InitList(size, loaded, modified) EXCEPT !.is_shrink = pl.is_shrink]
                 ELSE IF total < size
                 THEN [pl EXCEPT !.pages = Append(@, fdpage(total, size - total, loaded, modified))]
                 ELSE IF size < total
                 THEN [pages     |-> CutAt(pl.pages, size),
                       is_shrink |-> pl.is_shrink \/ modified]
                 ELSE pl
    IN Compress(sized)

(* Pages cut at start and stop get the new status in between.              *)
SetInside(list, start, stop_pos, loaded, modified) ==
    [i \in DOMAIN list |->
        IF next(list[i]) > start /\ list[i].offset < stop_pos
        THEN [list[i] EXCEPT !.loaded = loaded, !.modified = modified] ELSE list[i]]

SetPageLoadedStatus(pl, start, size, loaded, modified) ==
    LET now == Size(pl)
    IN Compress(IF now <= start + size
                THEN Resize(IF now = start THEN pl
                            ELSE Resize(pl, start, FALSE, now < start /\ modified),
                            start + size, loaded, modified)
                ELSE [pl EXCEPT !.pages = SetInside(Parse(Parse(@, start), start + size),
                                                    start, start + size, loaded, modified)])

-----------------------------------------------------------------------------
(* Queries.  A size of 0 means up to the end of the list.                  *)
NextOf(pl, start, size) ==
    IF size = 0 /\ start < Size(pl) THEN Size(pl) ELSE start + size

NoData(p) == ~p.loaded /\ ~p.modified

Overlap(p, start, stop) == Min({next(p), stop}) - Max({p.offset, start})

Unloaded(pl, start, stop) ==
    SelectSeq(pl.pages, LAMBDA p : NoData(p) /\ next(p) > start /\ p.offset < stop)

GetTotalUnloadedPageSize(pl, start, size, limit_size) ==
    LET stop == NextOf(pl, start, size)
    IN FoldLeft(LAMBDA sum, p : LET n == Overlap(p, start, stop)
                                IN IF limit_size = 0 \/ n < limit_size THEN sum + n ELSE sum,
                0, Unloaded(pl, start, stop))

GetUnloadedPages(pl, start, size) ==
    LET stop == NextOf(pl, start, size)
    IN FoldLeft(LAMBDA list, p :
                    LET from == Max({p.offset, start})
                    IN IF list # <<>> /\ next(Last(list)) = from
                       THEN [list EXCEPT ![Len(list)].bytes = @ + Overlap(p, start, stop)]
                       ELSE Append(list, fdpage(from, Overlap(p, start, stop), FALSE, FALSE)),
                <<>>, Unloaded(pl, start, stop))

BytesModified(pl) == FoldLeft(LAMBDA n, p : IF p.modified THEN n + p.bytes ELSE n, 0, pl.pages)

IsModified(pl) == pl.is_shrink \/ \E i \in DOMAIN pl.pages : pl.pages[i].modified

ClearAllModified(pl) ==
    Compress([pages |-> [i \in DOMAIN pl.pages |-> IgnoreModify(pl.pages[i])], is_shrink |-> FALSE])

(* Areas PunchHole may take away: everything that is not modified.         *)
GetNoDataPageLists(pl) ==
    raw_compress_fdpage_list(SelectSeq(Compress(pl).pages, LAMBDA p : ~p.modified))

-----------------------------------------------------------------------------
(* The plan of a mixed multipart upload: the areas to download first and   *)
(* the parts, uploaded (modified) or copied.                               *)

(* A modified page longer than two parts is cut into parts.                *)
parse_partsize(p) ==
    LET cuts == IF p.bytes <= 2 * MultipartSize THEN 0
                ELSE (p.bytes - MultipartSize - 1) \div MultipartSize
        at(i) == p.offset + (i - 1) * MultipartSize
    IN IF ~p.modified THEN <<p>>
       ELSE [i \in 1 .. cuts + 1 |->
                [p EXCEPT !.offset = at(i),
                          !.bytes  = IF i <= cuts THEN MultipartSize ELSE next(p) - at(i)]]

parse_partsize_fdpage_list(list) ==
    FoldLeft(LAMBDA parts, p : parts \o parse_partsize(p), <<>>, list)

(* One turn of the loop: prev is the area that is still open.              *)
PlanPage(plan, p) ==
    LET prev    == plan.prev
        short   == prev.bytes < MIN_MULTIPART_SIZE
        missing == MIN_MULTIPART_SIZE - prev.bytes
        joined  == [plan EXCEPT !.prev.bytes = @ + p.bytes]
    IN IF p.modified = prev.modified THEN joined
       ELSE IF p.modified
       THEN [prev |-> p,
             dl   |-> IF short THEN Append(plan.dl, prev) ELSE plan.dl,
             mix  |-> Append(plan.mix, [prev EXCEPT !.modified = short])]
       ELSE IF ~short
       THEN [plan EXCEPT !.prev = p, !.mix = Append(@, prev)]
       ELSE IF missing + MIN_MULTIPART_SIZE < p.bytes
       THEN [prev |-> [p EXCEPT !.offset = @ + missing, !.bytes = @ - missing],
             dl   |-> Append(plan.dl, fdpage(p.offset, missing, FALSE, FALSE)),
             mix  |-> Append(plan.mix, [prev EXCEPT !.bytes = MIN_MULTIPART_SIZE])]
       ELSE [joined EXCEPT !.dl = Append(@, p)]

\* Mutant of PlanLists: nothing is downloaded first.
PlanListsNoDownload(plan) ==
    [dlpages |-> <<>>,
     mixuppages |-> parse_partsize_fdpage_list(raw_compress_fdpage_list(
                        IF plan.prev.bytes > 0 THEN Append(plan.mix, plan.prev) ELSE plan.mix))]

PlanLists(plan) ==
    LET parts(list) == parse_partsize_fdpage_list(raw_compress_fdpage_list(list))
    IN [dlpages    |-> parts([i \in DOMAIN plan.dl |-> IgnoreModify(plan.dl[i])]),
        mixuppages |-> parts(IF plan.prev.bytes > 0 THEN Append(plan.mix, plan.prev) ELSE plan.mix)]

GetPageListsForMultipartUpload(pl) ==
    PlanLists(FoldLeft(PlanPage, [prev |-> fdpage(0, 0, FALSE, FALSE), dl |-> <<>>, mix |-> <<>>],
                       raw_compress_fdpage_list([i \in DOMAIN pl.pages |-> IgnoreLoad(pl.pages[i])])))

-----------------------------------------------------------------------------
(* The cache stat file: the size and the pages, read back page by page.    *)
Serialize(pl) == [size |-> Size(pl), pages |-> pl.pages]

Deserialize(file) ==
    FoldLeft(LAMBDA pl, p : SetPageLoadedStatus(pl, p.offset, p.bytes, p.loaded, p.modified),
             [pages |-> <<>>, is_shrink |-> FALSE], file.pages)
=============================================================================
