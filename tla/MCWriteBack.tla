----------------------------- MODULE MCWriteBack -----------------------------
\* Small instances of WriteBack.
EXTENDS WriteBack, TLC

OnePage == {1}
PutSync == {"Put", "Sync"}
\* Releasers, and users, are interchangeable.
Interchangeable == Permutations(Releasers) \cup Permutations(Users)

\* The safety properties say nothing once a lock object is orphaned.
LockSound == ~orphaned
==============================================================================
