------------------------------ MODULE TieredGet ------------------------------
(***************************************************************************)
(* How one Get of the accessor is served: WriteCache::Get walks the pages  *)
(* of the range and reports the valid segments, the accessor asks the read *)
(* cache for the gaps between them, ReadCache::Get does the same one tier  *)
(* below, downloads the gaps that are left and puts them in the read       *)
(* cache.  The loops of the two tiers are the same code over frames of     *)
(* their own; offsets, lengths and cursors are the ones of the source.     *)
(* One Get, one thread: what a page holds does not change under it except  *)
(* by its own ReadCache::Put.  A byte is represented by where it came from.*)
(***************************************************************************)
EXTENDS Integers, Sequences

CONSTANTS
    PageBodySize,   \* pageSize
    FileSize,       \* positions that can be read
    EnableLogging   \* ReadCache::Get looks at downRes only when this is set

ASSUME TieredGetAssumption ==
    /\ PageBodySize \in Nat \ {0} /\ FileSize \in Nat \ {0}
    /\ EnableLogging \in BOOLEAN

VARIABLES
    writeCache,   \* positions valid in the write cache
    readCache,    \* what the read cache holds: position -> "R", "J" or "none"
    exists,       \* the remote store has the object
    frame,        \* the locals of WriteCache::Get + accessor Get, ReadCache::Get
    pc, buf, res,
    put,          \* the locals of ReadCache::Put
    first         \* history: the read cache when Get was called

vars == <<writeCache, readCache, exists, frame, pc, buf, res, put, first>>

Positions == 0 .. FileSize - 1
Tiers == {"w", "r"}

\* Locals of one tier for a call with (start, len): page cursor first, then the
\* cursor of the loops over the segments.
Frame(start, len) ==
    [start |-> start, len |-> len, index |-> start \div PageBodySize,
     pagePos |-> start % PageBodySize, bufOffset |-> 0, remainLen |-> len,
     stepDataBoundary |-> {}, realReadLen |-> 0,
     dataBoundary |-> <<>>, it |-> 1, stepStart |-> 0, res |-> "SUCCESS"]

Init ==
    /\ writeCache \in SUBSET Positions
    /\ readCache \in [Positions -> {"R", "none"}]
    /\ exists \in BOOLEAN
    /\ \E s \in Positions : \E l \in 1 .. FileSize - s :
           frame = [w |-> Frame(s, l), r |-> Frame(0, 0)]
    /\ pc = "w_pages" /\ res = "SUCCESS"
    /\ buf = [x \in Positions |-> "none"]
    /\ put = [index |-> 0, pagePos |-> 0, remainLen |-> 0, byte |-> "none"]
    /\ first = readCache

------------------------------------------------------------------------------
\* The part of a page that one turn of a page loop handles.
StepLen(f) == IF f.pagePos + f.remainLen > PageBodySize
              THEN PageBodySize - f.pagePos ELSE f.remainLen

\* The cursor after that turn.
Advance(f) ==
    [f EXCEPT !.remainLen = @ - StepLen(f), !.index = @ + 1,
              !.pagePos = (@ + StepLen(f)) % PageBodySize]

\* pageCache_->Read: the maximal runs of valid positions among n from p on, as
\* <<offset, length>> (module PageBitmap).
PageRead(valid, p, n) ==
    {s \in (0 .. n - 1) \X (1 .. n) :
        /\ s[1] + s[2] <= n
        /\ \A x \in 0 .. n - 1 : s[1] <= x /\ x < s[1] + s[2] => p + x \in valid
        /\ s[1] > 0 => p + s[1] - 1 \notin valid
        /\ s[1] + s[2] < n => p + s[1] + s[2] \notin valid}

\* One turn of the page loop of a tier: copy the valid bytes of a page.  The runs
\* wait in stepDataBoundary, as offsets of the buffer.
PageStep(tier, content) ==
    LET f == frame[tier]
        valid == {x \in Positions : content[x] # "none"}
        p == f.index * PageBodySize + f.pagePos
    IN  /\ f.remainLen > 0 /\ f.stepDataBoundary = {}
        /\ frame' = [frame EXCEPT ![tier] =
                [Advance(f) EXCEPT !.bufOffset = @ + StepLen(f),
                     !.stepDataBoundary = {<<s[1] + f.bufOffset, s[2]>> :
                                              s \in PageRead(valid, p, StepLen(f))}]]
        /\ buf' = [x \in Positions |->
                IF x \in valid \cap (p .. p + StepLen(f) - 1) THEN content[x] ELSE buf[x]]

\* The first of the runs that wait.
IsFirst(s, segs) == s \in segs /\ \A o \in segs : s[1] <= o[1]

\* What WriteCache::Get appends: a segment that starts where the last one ends
\* prolongs it.
Join(boundary, seg) ==
    LET n == Len(boundary)
    IN  IF n > 0 /\ boundary[n][1] + boundary[n][2] = seg[1]
        THEN [boundary EXCEPT ![n] = <<@[1], @[2] + seg[2]>>]
        ELSE Append(boundary, seg)

\* One turn of the loop over the runs of a page.
WriteReport ==
    /\ pc = "w_pages"
    /\ \E s \in frame["w"].stepDataBoundary :
          /\ IsFirst(s, frame["w"].stepDataBoundary)
          /\ frame' = [frame EXCEPT !["w"].stepDataBoundary = @ \ {s},
                                    !["w"].dataBoundary = Join(@, s)]
    /\ UNCHANGED <<writeCache, readCache, exists, pc, buf, res, put, first>>

\* ReadCache::Get just appends, and adds up as it goes.
ReadReport ==
    /\ pc = "r_pages"
    /\ \E s \in frame["r"].stepDataBoundary :
          /\ IsFirst(s, frame["r"].stepDataBoundary)
          /\ frame' = [frame EXCEPT !["r"].stepDataBoundary = @ \ {s},
                                    !["r"].dataBoundary = Append(@, s),
                                    !["r"].realReadLen = @ + s[2]]
    /\ UNCHANGED <<writeCache, readCache, exists, pc, buf, res, put, first>>

PagesRead(f) == f.remainLen = 0 /\ f.stepDataBoundary = {}

WritePage ==
    /\ pc = "w_pages"
    /\ PageStep("w", [x \in Positions |-> IF x \in writeCache THEN "W" ELSE "none"])
    /\ UNCHANGED <<writeCache, readCache, exists, pc, res, put, first>>

\* The accessor takes the lengths of the segments off the length of the call.
WritePagesDone ==
    /\ pc = "w_pages" /\ PagesRead(frame["w"])
    /\ frame' = [frame EXCEPT !["w"].remainLen = frame["w"].len]
    /\ pc' = "w_sum"
    /\ UNCHANGED <<writeCache, readCache, exists, buf, res, put, first>>

WriteSum ==
    LET f == frame["w"]
    IN  /\ pc = "w_sum" /\ f.it <= Len(f.dataBoundary)
        /\ frame' = [frame EXCEPT !["w"].remainLen = @ - f.dataBoundary[f.it][2],
                                  !["w"].it = @ + 1]
        /\ UNCHANGED <<writeCache, readCache, exists, pc, buf, res, put, first>>

WriteSumDone ==
    /\ pc = "w_sum" /\ frame["w"].it > Len(frame["w"].dataBoundary)
    /\ frame' = [frame EXCEPT !["w"].it = 1]
    /\ pc' = "w_gaps"
    /\ UNCHANGED <<writeCache, readCache, exists, buf, res, put, first>>

ReadPage ==
    /\ pc = "r_pages"
    /\ PageStep("r", readCache)
    /\ UNCHANGED <<writeCache, readCache, exists, pc, res, put, first>>

ReadPagesDone ==
    /\ pc = "r_pages" /\ PagesRead(frame["r"])
    /\ frame' = [frame EXCEPT !["r"].remainLen = frame["r"].len - frame["r"].realReadLen]
    /\ pc' = "r_gaps"
    /\ UNCHANGED <<writeCache, readCache, exists, buf, res, put, first>>

------------------------------------------------------------------------------
(***************************************************************************)
(* The loop over the gaps ("handle cache misses"), the same in both tiers. *)
(***************************************************************************)
Cursor(f) == f.it <= Len(f.dataBoundary)
GapLen(f) == IF Cursor(f) THEN f.dataBoundary[f.it][1] - f.stepStart ELSE f.remainLen

\* Mutant of Skip: the cursor stops at the segment's start.
SkipShort(f) ==
    IF Cursor(f)
    THEN [f EXCEPT !.stepStart = f.dataBoundary[f.it][1], !.it = @ + 1]
    ELSE f

\* Past the next segment.
Skip(f) ==
    IF Cursor(f)
    THEN [f EXCEPT !.stepStart = f.dataBoundary[f.it][1] + f.dataBoundary[f.it][2],
                   !.it = @ + 1]
    ELSE f

\* "if (!readLen)": the segment starts where the cursor is.
NoGap(tier) ==
    /\ frame[tier].remainLen > 0 /\ Cursor(frame[tier]) /\ GapLen(frame[tier]) = 0
    /\ frame' = [frame EXCEPT ![tier] = Skip(@)]
    /\ UNCHANGED <<writeCache, readCache, exists, pc, buf, res, put, first>>

IsGap(f) == f.remainLen > 0 /\ (Cursor(f) => GapLen(f) # 0)
PastGap(f) == [Skip(f) EXCEPT !.remainLen = @ - GapLen(f)]

WriteNoGap == pc = "w_gaps" /\ NoGap("w")
ReadNoGap  == pc = "r_gaps" /\ NoGap("r")

\* Mutant of WriteGap: asks for the gap after the cursor has moved past it.
WriteGapLate ==
    LET f == frame["w"]
        s == Skip(f).stepStart - GapLen(f)
    IN  /\ pc = "w_gaps" /\ IsGap(f)
        /\ frame' = [w |-> PastGap(f),
                     r |-> Frame(f.start + (IF s < 0 THEN 0 ELSE s), GapLen(f))]
        /\ pc' = "r_pages"
        /\ UNCHANGED <<writeCache, readCache, exists, buf, res, put, first>>

\* readCache_->Get(key, start + stepStart, readLen)
WriteGap ==
    LET f == frame["w"]
    IN  /\ pc = "w_gaps" /\ IsGap(f)
        /\ frame' = [w |-> PastGap(f), r |-> Frame(f.start + f.stepStart, GapLen(f))]
        /\ pc' = "r_pages"
        /\ UNCHANGED <<writeCache, readCache, exists, buf, res, put, first>>

\* Mutant of Kept: the result of a download is never looked at.
KeptAlways(downRes) == downRes \in STRING

\* Whether ReadCache::Get goes on to Put: an error stops it only when logging.
Kept(downRes) == ~(EnableLogging /\ downRes # "SUCCESS")

\* Download one gap, then ReadCache::Put the buffer, whatever it holds.
ReadGap ==
    LET f == frame["r"]
        s == f.start + f.stepStart
    IN  /\ pc = "r_gaps" /\ IsGap(f)
        /\ \E downRes \in IF exists THEN {"SUCCESS", "EIO"} ELSE {"ENOENT", "EIO"} :
              /\ buf' = [x \in Positions |->
                    IF x \in s .. s + GapLen(f) - 1
                    THEN IF downRes = "SUCCESS" THEN "D" ELSE "J" ELSE buf[x]]
              /\ frame' = [frame EXCEPT !.r =
                    [PastGap(f) EXCEPT !.res = IF Kept(downRes) THEN @ ELSE downRes]]
              /\ put' = [index |-> s \div PageBodySize, pagePos |-> s % PageBodySize,
                         remainLen |-> IF Kept(downRes) THEN GapLen(f) ELSE 0,
                         byte |-> IF downRes = "SUCCESS" THEN "R" ELSE "J"]
        /\ pc' = "put"
        /\ UNCHANGED <<writeCache, readCache, exists, res, first>>

\* One page of ReadCache::Put.
PutPage ==
    LET p == put.index * PageBodySize + put.pagePos
    IN  /\ pc = "put" /\ put.remainLen > 0
        /\ readCache' = [x \in Positions |->
              IF x \in p .. p + StepLen(put) - 1 THEN put.byte ELSE readCache[x]]
        /\ put' = Advance(put)
        /\ UNCHANGED <<writeCache, exists, frame, pc, buf, res, first>>

PutDone ==
    /\ pc = "put" /\ put.remainLen = 0
    /\ pc' = "r_gaps"
    /\ UNCHANGED <<writeCache, readCache, exists, frame, buf, res, put, first>>

\* The result of a ReadCache::Get; the accessor takes -ENOENT for success.
ReadDone ==
    /\ pc = "r_gaps" /\ frame["r"].remainLen = 0
    /\ res' = IF frame["r"].res \in {"SUCCESS", "ENOENT"} THEN res ELSE frame["r"].res
    /\ pc' = "w_gaps"
    /\ UNCHANGED <<writeCache, readCache, exists, frame, buf, put, first>>

WriteDone ==
    /\ pc = "w_gaps" /\ frame["w"].remainLen = 0
    /\ pc' = "done"
    /\ UNCHANGED <<writeCache, readCache, exists, frame, buf, res, put, first>>

Next ==
    \/ WritePage \/ WriteReport \/ WritePagesDone \/ WriteSum \/ WriteSumDone
    \/ WriteNoGap \/ WriteGap \/ WriteDone
    \/ ReadPage \/ ReadReport \/ ReadPagesDone \/ ReadNoGap \/ ReadGap \/ ReadDone
    \/ PutPage \/ PutDone

Spec == Init /\ [][Next]_vars

------------------------------------------------------------------------------
(***************************************************************************)
(* Properties                                                              *)
(***************************************************************************)
Asked == frame["w"].start .. frame["w"].start + frame["w"].len - 1

\* The unsigned remainLen and bufOffset never wrap, and the cursor of a gap loop
\* never passes the next segment (it->first - stepStart is unsigned too).
NoUnderflow ==
    \A tier \in Tiers :
        /\ frame[tier].remainLen \in 0 .. frame[tier].len
        /\ frame[tier].stepStart \in 0 .. frame[tier].len
        /\ pc = "w_gaps" => GapLen(frame["w"]) >= 0
        /\ pc = "r_gaps" => GapLen(frame["r"]) >= 0

\* A Get that succeeds has filled every byte of the range from the freshest tier
\* that has it: the write cache, else the read cache, else a download (which has
\* nothing to give when the object does not exist).
ServedFreshest ==
    pc = "done" /\ res = "SUCCESS" =>
        \A x \in Asked :
            buf[x] = IF x \in writeCache THEN "W"
                     ELSE IF first[x] # "none" THEN first[x]
                     ELSE IF exists THEN "D" ELSE "J"

\* The read cache has only bytes that were downloaded.
ReadCachePure == \A x \in Positions : readCache[x] # "J"
==============================================================================
