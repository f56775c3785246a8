--------------------------- MODULE UntreatedParts ---------------------------
(***************************************************************************)
(* The areas of an open file that were written and not yet uploaded        *)
(* (UntreatedParts, s3fs/fdcache_untreated.cpp), a sorted sequence of      *)
(* [start, size, last].  The code numbers every change with a tag and only *)
(* ever compares a part's tag with the newest one; here a part says        *)
(* whether it carries the newest tag.                                      *)
(***************************************************************************)
EXTENDS Integers, Sequences, SequencesExt, FiniteSetsExt

untreatedpart(start, size, last) ==
    IF size <= 0 THEN [start |-> 0, size |-> 0, last |-> FALSE]
    ELSE [start |-> start, size |-> size, last |-> last]

stop(p) == p.start + p.size

(* Adjacent areas overlap too.                                             *)
check_overlap(p, start, size) ==
    /\ size > 0 /\ p.size > 0
    /\ start + size >= p.start
    /\ stop(p) >= start

stretch(p, start, size) ==
    LET from == Min({p.start, start})
    IN [start |-> from, size |-> Max({stop(p), start + size}) - from, last |-> TRUE]

AddPart(list, start, size) ==
    LET old   == [i \in DOMAIN list |-> [list[i] EXCEPT !.last = FALSE]]
        new   == untreatedpart(start, size, TRUE)
        hit(i) == check_overlap(old[i], start, size)
        at    == {i \in DOMAIN old : hit(i) \/ start + size < old[i].start}
        i     == Min(at)
        merge == FoldLeft(LAMBDA acc, p :
                             IF acc.rest = <<>> /\ check_overlap(acc.part, p.start, p.size)
                             THEN [acc EXCEPT !.part = stretch(@, p.start, p.size)]
                             ELSE [acc EXCEPT !.rest = Append(@, p)],
                          [part |-> stretch(old[i], start, size), rest |-> <<>>],
                          SubSeq(old, i + 1, Len(old)))
    IN IF at = {} THEN Append(old, new)
       ELSE IF hit(i) THEN SubSeq(old, 1, i - 1) \o <<merge.part>> \o merge.rest
       ELSE InsertAt(old, i, new)

LastIndex(list) == SelectInSeq(list, LAMBDA p : p.last)

(* The part written last, cut to max_size; an empty area when it is        *)
(* shorter than min_size.                                                  *)
GetLastUpdatedPart(list, max_size, min_size) ==
    LET i == LastIndex(list)
    IN IF i = 0 \/ list[i].size < min_size THEN [start |-> 0, size |-> 0]
       ELSE [start |-> list[i].start, size |-> Min({list[i].size, max_size})]

(* ClearParts on an area that starts where a part starts, as all of its    *)
(* callers do: what is left of the parts it covers.                        *)
ClearParts(list, start, size) ==
    SelectSeq([i \in DOMAIN list |->
                  IF start <= list[i].start /\ list[i].start < start + size
                  THEN [list[i] EXCEPT !.start = start + size,
                                       !.size  = Max({0, stop(list[i]) - (start + size)})]
                  ELSE list[i]],
              LAMBDA p : p.size > 0)

(* What is left of the part written last in front of an uploaded area, and *)
(* what is left behind it.                                                 *)
ReplaceLastUpdateUntreatedPart(list, front_start, front_size, behind_start, behind_size) ==
    LET i     == LastIndex(list)
        front == IF front_size > 0
                 THEN [list EXCEPT ![i].start = front_start, ![i].size = front_size]
                 ELSE RemoveAt(list, i)
    IN IF behind_size > 0 THEN AddPart(front, behind_start, behind_size) ELSE front
=============================================================================
