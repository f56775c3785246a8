------------------------------ MODULE PageBitmap ------------------------------
(***************************************************************************)
(* The bitmap of a cache page (local_cache/page_cache.cpp): SetBitMap      *)
(* marks a range valid or invalid, head bits, whole bytes, then tail bits; *)
(* Read and GetAllCache walk a range and return its valid segments, bit by *)
(* bit or a 64-bit word at a time.  One page, one thread: what the two     *)
(* loops compute, against sets of positions.                               *)
(***************************************************************************)
EXTENDS Integers, Sequences

CONSTANTS
    BYTE_LEN,      \* bits of a byte
    BatLen,        \* batLen: bits of a word, a multiple of BYTE_LEN
    PageBodySize   \* positions of a page, a multiple of BYTE_LEN

ASSUME PageBitmapAssumption ==
    /\ BYTE_LEN \in Nat \ {0} /\ BatLen \in Nat \ {0} /\ PageBodySize \in Nat \ {0}
    /\ BatLen % BYTE_LEN = 0 /\ PageBodySize % BYTE_LEN = 0

VARIABLES
    bitmap,        \* positions whose bit is set
    fastBitmap,    \* the FAST_BITMAP byte
    step,          \* where the thread is
    pos, len, valid, startByte,                     \* SetBitMap
    pagePos, length, cur, continuousDataValid, continuousLen,
    dataBoundary,                                   \* Read and GetAllCache
    wanted         \* history: the bitmap SetBitMap has to produce

setVars  == <<pos, len, valid, startByte, wanted>>
scanVars == <<pagePos, length, cur, continuousDataValid, continuousLen, dataBoundary>>
bitmapVars == <<bitmap, fastBitmap, step, setVars, scanVars>>

Positions == 0 .. PageBodySize - 1

BitmapInit ==
    /\ bitmap \in SUBSET Positions
    /\ fastBitmap \in {f \in BOOLEAN : f => bitmap = Positions}
    /\ step = "idle"
    /\ pos = 0 /\ len = 0 /\ valid = FALSE /\ startByte = 0 /\ wanted = bitmap
    /\ pagePos = 0 /\ length = 0 /\ cur = 0
    /\ continuousDataValid = FALSE /\ continuousLen = 0 /\ dataBoundary = <<>>

------------------------------------------------------------------------------
(***************************************************************************)
(* SetBitMap(pos, len, valid)                                              *)
(***************************************************************************)
SetBits(S, v) == IF v THEN bitmap \cup S ELSE bitmap \ S

\* The flag, set by a whole valid page and cleared by any invalid range.
SetStart ==
    /\ step = "idle"
    /\ \E p \in Positions : \E l \in 1 .. PageBodySize - p : \E v \in BOOLEAN :
        /\ pos' = p /\ len' = l /\ valid' = v
        /\ startByte' = p \div BYTE_LEN
        /\ fastBitmap' = IF v THEN fastBitmap \/ l = PageBodySize ELSE FALSE
        /\ wanted' = IF v THEN bitmap \cup (p .. p + l - 1) ELSE bitmap \ (p .. p + l - 1)
    /\ step' = "head"
    /\ UNCHANGED <<bitmap, scanVars>>

Byte(b) == b * BYTE_LEN .. b * BYTE_LEN + BYTE_LEN - 1

\* Mutant of SetHead: forgets that the range may end inside its first byte.
SetHeadWhole ==
    /\ step = "head"
    /\ IF pos % BYTE_LEN > 0
       THEN LET headByteSetLen == BYTE_LEN - (pos % BYTE_LEN)
            IN  /\ bitmap' = SetBits(pos .. pos + headByteSetLen - 1, valid)
                /\ len' = len - headByteSetLen
                /\ startByte' = startByte + 1
       ELSE UNCHANGED <<bitmap, len, startByte>>
    /\ step' = "mid"
    /\ UNCHANGED <<fastBitmap, pos, valid, wanted, scanVars>>

\* Bits up to the end of the first byte, if the range starts inside it.
SetHead ==
    /\ step = "head"
    /\ IF pos % BYTE_LEN > 0
       THEN LET room == BYTE_LEN - (pos % BYTE_LEN)
                headByteSetLen == IF room > len THEN len ELSE room
            IN  /\ bitmap' = SetBits(pos .. pos + headByteSetLen - 1, valid)
                /\ len' = len - headByteSetLen
                /\ startByte' = startByte + 1
       ELSE UNCHANGED <<bitmap, len, startByte>>
    /\ step' = "mid"
    /\ UNCHANGED <<fastBitmap, pos, valid, wanted, scanVars>>

\* Whole bytes by memset.
SetMid ==
    /\ step = "mid"
    /\ LET midLen == len \div BYTE_LEN
       IN  /\ bitmap' = SetBits(UNION {Byte(b) : b \in startByte .. startByte + midLen - 1}, valid)
           /\ len' = len - BYTE_LEN * midLen
           /\ startByte' = startByte + midLen
    /\ step' = "tail"
    /\ UNCHANGED <<fastBitmap, pos, valid, wanted, scanVars>>

\* The first bits of the last byte.
SetTail ==
    /\ step = "tail"
    /\ LET b == startByte * BYTE_LEN IN bitmap' = SetBits(b .. b + len - 1, valid)
    /\ len' = 0
    /\ step' = "set"
    /\ UNCHANGED <<fastBitmap, pos, valid, startByte, wanted, scanVars>>

SetReturn ==
    /\ step = "set" /\ step' = "idle"
    /\ pos' = 0 /\ valid' = FALSE /\ startByte' = 0 /\ wanted' = bitmap
    /\ UNCHANGED <<bitmap, fastBitmap, len, scanVars>>

------------------------------------------------------------------------------
(***************************************************************************)
(* The scan of Read over [pagePos, pagePos + length) and of GetAllCache    *)
(* over the page.                                                          *)
(***************************************************************************)
ScanStart(p, l) ==
    /\ step = "idle"
    /\ pagePos' = p /\ length' = l
    /\ cur' = IF fastBitmap THEN p + l ELSE p
    /\ dataBoundary' = IF fastBitmap THEN <<<<0, l>>>> ELSE <<>>
    /\ continuousDataValid' = FALSE /\ continuousLen' = 0
    /\ step' = "scan"
    /\ UNCHANGED <<bitmap, fastBitmap, setVars>>

ReadStart == \E p \in Positions : \E l \in 1 .. PageBodySize - p : ScanStart(p, l)

GetAllCacheStart == ScanStart(0, PageBodySize)

Word == cur .. cur + BatLen - 1

\* isBatFuncValid: an aligned word inside the range, all set or all clear.
UniformWord ==
    /\ cur % BatLen = 0 /\ pagePos + length - cur >= BatLen
    /\ Word \subseteq bitmap \/ Word \cap bitmap = {}

\* The bits looked at continue the current run.
Continues(v) == continuousLen = 0 \/ continuousDataValid = v

ByWord == UniformWord /\ Continues(Word \subseteq bitmap)

ScanWord ==
    /\ step = "scan" /\ cur < pagePos + length
    /\ ByWord
    /\ continuousDataValid' = (Word \subseteq bitmap)
    /\ continuousLen' = continuousLen + BatLen
    /\ cur' = cur + BatLen
    /\ UNCHANGED <<bitmap, fastBitmap, step, setVars, pagePos, length, dataBoundary>>

ScanBit ==
    /\ step = "scan" /\ cur < pagePos + length
    /\ ~ByWord /\ Continues(cur \in bitmap)
    /\ continuousDataValid' = (cur \in bitmap)
    /\ continuousLen' = continuousLen + 1
    /\ cur' = cur + 1
    /\ UNCHANGED <<bitmap, fastBitmap, step, setVars, pagePos, length, dataBoundary>>

\* Mutant of Push: offsets counted from the page, not from the caller's buffer.
PushFromPage ==
    IF continuousDataValid
    THEN Append(dataBoundary, <<cur - continuousLen, continuousLen>>)
    ELSE dataBoundary

\* A valid run becomes a segment, at its offset in the caller's buffer.
Push ==
    IF continuousDataValid
    THEN Append(dataBoundary, <<cur - continuousLen - pagePos, continuousLen>>)
    ELSE dataBoundary

ScanTurn ==
    /\ step = "scan" /\ cur < pagePos + length
    /\ ~ByWord /\ ~Continues(cur \in bitmap)
    /\ dataBoundary' = Push
    /\ continuousDataValid' = (cur \in bitmap)
    /\ continuousLen' = 1
    /\ cur' = cur + 1
    /\ UNCHANGED <<bitmap, fastBitmap, step, setVars, pagePos, length>>

ScanEnd ==
    /\ step = "scan" /\ cur >= pagePos + length
    /\ dataBoundary' = Push
    /\ step' = "scanned"
    /\ UNCHANGED <<bitmap, fastBitmap, setVars, pagePos, length, cur,
                   continuousDataValid, continuousLen>>

ScanReturn ==
    /\ step = "scanned" /\ step' = "idle"
    /\ pagePos' = 0 /\ length' = 0 /\ cur' = 0
    /\ continuousDataValid' = FALSE /\ continuousLen' = 0 /\ dataBoundary' = <<>>
    /\ UNCHANGED <<bitmap, fastBitmap, setVars>>

BitmapNext ==
    \/ SetStart \/ SetHead \/ SetMid \/ SetTail \/ SetReturn
    \/ ReadStart \/ GetAllCacheStart \/ ScanWord \/ ScanBit \/ ScanTurn \/ ScanEnd \/ ScanReturn

BitmapSpec == BitmapInit /\ [][BitmapNext]_bitmapVars

------------------------------------------------------------------------------
(***************************************************************************)
(* Properties                                                              *)
(***************************************************************************)
\* SetBitMap changes exactly the bits of its range, wherever in a byte the range
\* starts and ends, and the flag never promises more than the bitmap has.
SetBitMapExact ==
    step \in {"idle", "set"} => bitmap = wanted /\ (fastBitmap => bitmap = Positions)

\* The segments Read returns are the maximal runs of valid positions of the
\* range, in ascending order: every valid position is in one, none of the others
\* is, and two segments never touch.
SegmentsExact ==
    step = "scanned" =>
        LET seg(i) == pagePos + dataBoundary[i][1] ..
                      pagePos + dataBoundary[i][1] + dataBoundary[i][2] - 1
            n == Len(dataBoundary)
        IN  /\ UNION {seg(i) : i \in 1 .. n} = bitmap \cap (pagePos .. pagePos + length - 1)
            /\ \A i \in 1 .. n : dataBoundary[i][2] > 0
            /\ \A i \in 1 .. n - 1 :
                   dataBoundary[i][1] + dataBoundary[i][2] < dataBoundary[i + 1][1]
==============================================================================
