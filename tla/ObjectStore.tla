----------------------------- MODULE ObjectStore -----------------------------
(***************************************************************************)
(* What the global cache promises for one object: an atomic cell.  A write *)
(* takes effect once, at some moment between its start and its             *)
(* acknowledgement, nothing else ever changes the object except a removal  *)
(* somebody asked for, and no write is acknowledged before it took effect. *)
(***************************************************************************)
EXTENDS Naturals

CONSTANTS Versions, None

VARIABLES
    store,      \* the object's version, or None
    open,       \* writes that have started and not taken effect
    effective,  \* writes that have taken effect and are not acknowledged
    acked,      \* writes acknowledged with success
    removing    \* removals that have started and not ended

vars == <<store, open, effective, acked, removing>>

Init ==
    /\ store \in Versions \cup {None}
    /\ open = {} /\ effective = {} /\ acked = {} /\ removing = 0

Begin(v) ==
    /\ v \notin open \cup effective \cup acked
    /\ open' = open \cup {v}
    /\ UNCHANGED <<store, effective, acked, removing>>

Take(v) ==
    /\ v \in open
    /\ store' = v
    /\ open' = open \ {v} /\ effective' = effective \cup {v}
    /\ UNCHANGED <<acked, removing>>

\* A write that takes effect and is acknowledged in one step.
TakeAndAck(v) ==
    /\ v \in open
    /\ store' = v
    /\ open' = open \ {v} /\ acked' = acked \cup {v}
    /\ UNCHANGED <<effective, removing>>

Ack(v) ==
    /\ v \in effective
    /\ effective' = effective \ {v} /\ acked' = acked \cup {v}
    /\ UNCHANGED <<store, open, removing>>

\* A write that reports failure may or may not have taken effect.
Fail(v) ==
    /\ v \in open \cup effective
    /\ open' = open \ {v} /\ effective' = effective \ {v}
    /\ UNCHANGED <<store, acked, removing>>

TakeAndFail(v) ==
    /\ v \in open
    /\ store' = v /\ open' = open \ {v}
    /\ UNCHANGED <<effective, acked, removing>>

BeginRemove ==
    /\ removing' = removing + 1
    /\ UNCHANGED <<store, open, effective, acked>>

\* The removal takes effect, and perhaps ends.
Remove ==
    /\ removing > 0
    /\ store' \in {None, store}
    /\ removing' \in {removing, removing - 1}
    /\ UNCHANGED <<open, effective, acked>>

Next ==
    \/ \E v \in Versions : Begin(v) \/ Take(v) \/ TakeAndAck(v) \/ Ack(v)
                           \/ Fail(v) \/ TakeAndFail(v)
    \/ BeginRemove \/ Remove

Spec == Init /\ [][Next]_vars
==============================================================================
