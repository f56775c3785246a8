----------------------------- MODULE MCPageBitmap -----------------------------
\* PageBitmap with bytes of three bits, words of two bytes and pages of nine
\* positions: every bitmap, every range.
EXTENDS PageBitmap
==============================================================================
