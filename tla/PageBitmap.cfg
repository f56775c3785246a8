SPECIFICATION BitmapSpec
CONSTANTS
    BYTE_LEN = 3
    BatLen = 6
    PageBodySize = 9
INVARIANTS SetBitMapExact SegmentsExact
