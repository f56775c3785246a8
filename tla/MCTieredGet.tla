----------------------------- MODULE MCTieredGet -----------------------------
\* TieredGet for every content of the caches and every range of a small file.
EXTENDS TieredGet
==============================================================================
