--------------------------- MODULE TieredGetProofs ---------------------------
(***************************************************************************)
(* Proofs about TieredGet for every size of pages and files, every content *)
(* of the caches, every range and every outcome of the downloads.          *)
(***************************************************************************)
EXTENDS TieredGet, FiniteSetTheorems, WellFoundedInduction, TLAPS

------------------------------------------------------------------------------
(***************************************************************************)
(* Numbers and sets of numbers                                             *)
(***************************************************************************)
\* A set of numbers that is not empty has a least element.
LEMMA LeastElement ==
    ASSUME NEW S, S \subseteq Nat, S # {}
    PROVE  \E x \in S : \A y \in S : x <= y
<1>1. PICK x \in S : \A y \in S : ~ (<<y, x>> \in OpToRel(<, Nat))
  BY NatLessThanWellFounded, WFMin
<1>2. ASSUME NEW y \in S, y < x PROVE <<y, x>> \in OpToRel(<, Nat)  BY <1>2 DEF OpToRel
<1>3. \A y \in S : ~(y < x)  BY <1>1, <1>2
<1> QED BY <1>3

\* ... and a greatest one if it is bounded.
LEMMA GreatestElement ==
    ASSUME NEW S, NEW n \in Nat, S \subseteq 0 .. n, S # {}
    PROVE  \E x \in S : \A y \in S : y <= x
<1> DEFINE D == {n - x : x \in S}
<1>1. D \subseteq Nat /\ D # {}
  <2>1. \A x \in S : n - x \in Nat  OBVIOUS
  <2> QED BY <2>1
<1>2. PICK d \in D : \A e \in D : d <= e
  <2> HIDE DEF D
  <2> QED BY <1>1, LeastElement
<1>3. PICK x \in S : d = n - x  BY <1>2
<1>4. ASSUME NEW y \in S PROVE y <= x
  <2>1. n - y \in D  OBVIOUS
  <2>2. d <= n - y  BY <2>1, <1>2
  <2> QED BY <2>2, <1>3
<1> QED BY <1>4

\* The page of a position and its place there.
LEMMA PagePosition ==
    ASSUME NEW a \in Nat
    PROVE  /\ a \div PageBodySize \in Nat /\ a % PageBodySize \in 0 .. PageBodySize - 1
           /\ (a \div PageBodySize) * PageBodySize + (a % PageBodySize) = a
BY TieredGetAssumption

\* A turn of a page loop stays in its page, and the next one starts the next page.
LEMMA NextPage ==
    ASSUME NEW i \in Nat, NEW p \in 0 .. PageBodySize - 1, NEW k \in Nat, p + k <= PageBodySize
    PROVE  /\ (p + k) % PageBodySize \in 0 .. PageBodySize - 1
           /\ p + k = PageBodySize =>
                  (i + 1) * PageBodySize + ((p + k) % PageBodySize) = i * PageBodySize + p + k
<1>1. PageBodySize \in Nat \ {0}  BY TieredGetAssumption
<1>2. (p + k) % PageBodySize \in 0 .. PageBodySize - 1  BY <1>1
<1>3. ASSUME p + k = PageBodySize
      PROVE  (i + 1) * PageBodySize + ((p + k) % PageBodySize) = i * PageBodySize + p + k
  <2>1. (p + k) % PageBodySize = 0  BY <1>3, <1>1
  <2>2. (i + 1) * PageBodySize = i * PageBodySize + PageBodySize  BY <1>1
  <2> QED BY <1>3, <2>1, <2>2, <1>1
<1> QED BY <1>2, <1>3

------------------------------------------------------------------------------
(***************************************************************************)
(* The invariant                                                           *)
(***************************************************************************)
Segments == Nat \X Nat
Frames ==
    [start : Nat, len : Nat, index : Nat, pagePos : 0 .. PageBodySize - 1, bufOffset : Nat,
     remainLen : Nat, stepDataBoundary : SUBSET Segments, realReadLen : Nat,
     dataBoundary : Seq(Segments), it : Nat \ {0}, stepStart : Nat,
     res : {"SUCCESS", "EIO", "ENOENT"}]

TypeOK ==
    /\ writeCache \subseteq Positions
    /\ readCache \in [Positions -> {"R", "J", "none"}] /\ first \in [Positions -> {"R", "none"}]
    /\ frame \in [w : Frames, r : Frames]
    /\ buf \in [Positions -> {"W", "R", "D", "J", "none"}]
    /\ put \in [index : Nat, pagePos : 0 .. PageBodySize - 1, remainLen : Nat,
                byte : {"R", "J", "none"}]
    /\ res \in {"SUCCESS", "EIO"}
    /\ \A tier \in Tiers : /\ frame[tier].start + frame[tier].len <= FileSize
                           /\ frame[tier].remainLen <= frame[tier].len
                           /\ frame[tier].stepStart <= frame[tier].len

\* Offsets of the buffer in a segment, and in one of the first k - 1 of a call.
End(s) == s[1] + s[2]
Within(s, o) == s[1] <= o /\ o < End(s)
Covers(f, o) == \E i \in DOMAIN f.dataBoundary : Within(f.dataBoundary[i], o)
CoveredBelow(f, k) ==
    {o \in 0 .. f.len - 1 : \E i \in DOMAIN f.dataBoundary : i < k /\ Within(f.dataBoundary[i], o)}

\* The segments of a call are not empty, lie below n and follow each other.
BoundaryOK(f, n) ==
    /\ \A i \in DOMAIN f.dataBoundary : f.dataBoundary[i][2] >= 1 /\ End(f.dataBoundary[i]) <= n
    /\ \A i, j \in DOMAIN f.dataBoundary : i < j => End(f.dataBoundary[i]) <= f.dataBoundary[j][1]

\* The page loop: the cursor is at bufOffset, and the segments found and the runs
\* of the last page that wait are what is valid below.
PagesOK(f, V) ==
    /\ f.bufOffset + f.remainLen = f.len
    /\ f.remainLen > 0 => f.index * PageBodySize + f.pagePos = f.start + f.bufOffset
    /\ f.it = 1 /\ f.stepStart = 0
    /\ BoundaryOK(f, f.bufOffset)
    /\ \A s \in f.stepDataBoundary :
          /\ s[2] >= 1 /\ End(s) <= f.bufOffset
          /\ \A i \in DOMAIN f.dataBoundary : End(f.dataBoundary[i]) <= s[1]
    /\ \A s, u \in f.stepDataBoundary : s # u => End(s) <= u[1] \/ End(u) <= s[1]
    /\ \A o \in 0 .. f.bufOffset - 1 :
          (f.start + o \in V) <=> (Covers(f, o) \/ \E s \in f.stepDataBoundary : Within(s, o))

\* What ReadCache::Get has added up.
CountOK(f) == f.realReadLen = Cardinality(CoveredBelow(f, Len(f.dataBoundary) + 1))

\* After it the segments are what is valid.
Exact(f, V) ==
    /\ BoundaryOK(f, f.len)
    /\ \A o \in 0 .. f.len - 1 : (f.start + o \in V) <=> Covers(f, o)

\* The sum of the accessor.
SumOK(f, V) ==
    /\ Exact(f, V) /\ f.stepStart = 0 /\ f.it <= Len(f.dataBoundary) + 1
    /\ f.remainLen = f.len - Cardinality(CoveredBelow(f, f.it))

\* The loop over the gaps: remainLen is the number of offsets that are still to come.
Uncovered(f) == {o \in f.stepStart .. f.len - 1 : ~Covers(f, o)}
Missing(f) == IF f.remainLen = 0 THEN {} ELSE Uncovered(f)
GapsOK(f, V) ==
    /\ Exact(f, V) /\ f.it <= Len(f.dataBoundary) + 1
    /\ f.stepStart = IF f.it = 1 THEN 0 ELSE End(f.dataBoundary[f.it - 1])
    /\ f.remainLen = Cardinality(Missing(f))

\* The same of the two tiers.  What the read cache has for a ReadCache::Get is what
\* it had when the accessor's Get began.
W == frame["w"]
R == frame["r"]
Held == {x \in Positions : first[x] # "none"}
Span(f) == f.start .. f.start + f.len - 1
Rest(f) == {f.start + o : o \in Missing(f)}
Reading == {"r_pages", "r_gaps", "put"}

FramesOK ==
    /\ pc \in {"w_pages", "w_sum", "w_gaps", "done"} \cup Reading
    /\ pc = "w_pages" => PagesOK(W, writeCache)
    /\ pc = "w_sum" => SumOK(W, writeCache)
    /\ pc \in {"w_gaps", "done"} \cup Reading => GapsOK(W, writeCache)
    /\ pc = "r_pages" => PagesOK(R, Held) /\ CountOK(R)
    /\ pc \in {"r_gaps", "put"} => GapsOK(R, Held)
    /\ pc \in Reading => /\ Span(R) \subseteq Asked \ writeCache
                         /\ Span(R) \cap Rest(W) = {}
    /\ pc = "done" => W.remainLen = 0

\* The read cache changes only where the write cache and it had nothing, and not
\* where it is still to be asked.
ReadCacheOK ==
    \A x \in Positions : readCache[x] # first[x] =>
        /\ pc \notin {"w_pages", "w_sum"}
        /\ first[x] = "none" /\ x \notin Rest(W)
        /\ pc = "r_pages" => x \notin Span(R)

\* ReadCache::Put writes to a gap.
PutOK ==
    pc = "put" /\ put.remainLen > 0 =>
        \A x \in put.index * PageBodySize + put.pagePos ..
                 put.index * PageBodySize + put.pagePos + put.remainLen - 1 :
            x \in Span(R) /\ first[x] = "none"

\* Only what was downloaded gets into it.
PureOK ==
    /\ \A x \in Positions : readCache[x] # "J"
    /\ pc = "put" /\ put.remainLen > 0 => put.byte = "R"

\* Offsets whose bytes the Get has still to find.
Pending ==
    CASE pc = "w_pages" -> {x \in Asked : x \notin writeCache \/ x >= W.start + W.bufOffset}
      [] pc = "w_sum" -> Asked \ writeCache
      [] pc = "r_pages" -> Rest(W) \cup {x \in Span(R) : x \notin Held \/ x >= R.start + R.bufOffset}
      [] pc \in {"r_gaps", "put"} -> Rest(W) \cup Rest(R)
      [] OTHER -> Rest(W)

\* The others are in the buffer, unless a download of what is there has failed.
Freshest(x) == IF x \in writeCache THEN "W"
               ELSE IF first[x] # "none" THEN first[x] ELSE IF exists THEN "D" ELSE "J"
Failed == exists /\ (res # "SUCCESS" \/ (pc \in Reading /\ R.res # "SUCCESS"))
ServedOK ==
    /\ exists => R.res # "ENOENT"
    /\ ~Failed => \A x \in Asked \ Pending : buf[x] = Freshest(x)

LoggedOK == EnableLogging => PureOK /\ ServedOK
GetInv == TypeOK /\ FramesOK /\ ReadCacheOK /\ PutOK /\ LoggedOK

------------------------------------------------------------------------------
(***************************************************************************)
(* The page loops                                                          *)
(***************************************************************************)
\* The runs that a page reports are apart and have all that is valid.
LEMMA PageReadRuns ==
    ASSUME NEW V, NEW p \in Nat, NEW n \in Nat \ {0}
    PROVE  /\ \A s \in PageRead(V, p, n) : s \in Segments /\ s[2] >= 1 /\ End(s) <= n
           /\ \A s, u \in PageRead(V, p, n) : s # u => End(s) <= u[1] \/ End(u) <= s[1]
           /\ \A o \in 0 .. n - 1 : (p + o \in V) <=> \E s \in PageRead(V, p, n) : Within(s, o)
<1>1. \A s \in PageRead(V, p, n) : s \in Segments /\ s[2] >= 1 /\ End(s) <= n
  BY DEF PageRead, Segments, End
<1>2. ASSUME NEW s \in PageRead(V, p, n), NEW u \in PageRead(V, p, n),
             s[1] < End(u), u[1] < End(s)
      PROVE  s = u
  <2>1. s[1] \in 0 .. n - 1 /\ u[1] \in 0 .. n - 1 /\ s[2] \in 1 .. n /\ u[2] \in 1 .. n
        /\ End(s) <= n /\ End(u) <= n /\ s = <<s[1], s[2]>> /\ u = <<u[1], u[2]>>
    BY DEF PageRead, End
  <2>2. /\ \A x \in 0 .. n - 1 : s[1] <= x /\ x < End(s) => p + x \in V
        /\ \A x \in 0 .. n - 1 : u[1] <= x /\ x < End(u) => p + x \in V
        /\ s[1] > 0 => p + (s[1] - 1) \notin V
        /\ u[1] > 0 => p + (u[1] - 1) \notin V
        /\ End(s) < n => p + End(s) \notin V
        /\ End(u) < n => p + End(u) \notin V
    <3>1. p + (s[1] - 1) = p + s[1] - 1 /\ p + (u[1] - 1) = p + u[1] - 1
          /\ p + s[1] + s[2] = p + End(s) /\ p + u[1] + u[2] = p + End(u)
      BY <2>1 DEF End
    <3> QED BY <3>1 DEF PageRead, End
  <2>3. ~(s[1] < u[1])
    <3> SUFFICES ASSUME s[1] < u[1] PROVE FALSE  OBVIOUS
    <3>1. u[1] - 1 \in 0 .. n - 1 /\ s[1] <= u[1] - 1 /\ u[1] - 1 < End(s) /\ u[1] > 0
      BY <1>2, <2>1 DEF End
    <3> QED BY <3>1, <2>2
  <2>4. ~(u[1] < s[1])
    <3> SUFFICES ASSUME u[1] < s[1] PROVE FALSE  OBVIOUS
    <3>1. s[1] - 1 \in 0 .. n - 1 /\ u[1] <= s[1] - 1 /\ s[1] - 1 < End(u) /\ s[1] > 0
      BY <1>2, <2>1 DEF End
    <3> QED BY <3>1, <2>2
  <2>5. ~(End(s) < End(u))
    <3> SUFFICES ASSUME End(s) < End(u) PROVE FALSE  OBVIOUS
    <3>1. End(s) \in 0 .. n - 1 /\ u[1] <= End(s)  BY <1>2, <2>1 DEF End
    <3> QED BY <3>1, <2>2
  <2>6. ~(End(u) < End(s))
    <3> SUFFICES ASSUME End(u) < End(s) PROVE FALSE  OBVIOUS
    <3>1. End(u) \in 0 .. n - 1 /\ s[1] <= End(u)  BY <1>2, <2>1 DEF End
    <3> QED BY <3>1, <2>2
  <2>7. s[1] = u[1] /\ s[2] = u[2]  BY <2>1, <2>3, <2>4, <2>5, <2>6 DEF End
  <2> QED BY <2>1, <2>7
<1>3. ASSUME NEW o \in 0 .. n - 1, p + o \in V
      PROVE  \E s \in PageRead(V, p, n) : Within(s, o)
  <2> DEFINE A == {q \in 0 .. o : \A x \in 0 .. n - 1 : q <= x /\ x <= o => p + x \in V}
             B == {q \in o .. n - 1 : \A x \in 0 .. n - 1 : o <= x /\ x <= q => p + x \in V}
  <2>1. PICK a \in A : \A q \in A : a <= q
    <3>1. o \in A  BY <1>3
    <3>2. \A q \in A : q \in Nat  OBVIOUS
    <3>3. A \subseteq Nat /\ A # {}  BY <3>1, <3>2
    <3> HIDE DEF A
    <3> QED BY <3>3, LeastElement
  <2>2. PICK b \in B : \A q \in B : q <= b
    <3>1. o \in B  BY <1>3
    <3>2. B \subseteq 0 .. n - 1 /\ B # {} /\ n - 1 \in Nat  BY <3>1
    <3> HIDE DEF B
    <3> QED BY <3>2, GreatestElement
  <2>3. \A x \in 0 .. n - 1 : a <= x /\ x <= b => p + x \in V  BY <2>1, <2>2
  <2>4. a > 0 => p + (a - 1) \notin V
    <3> SUFFICES ASSUME a > 0, p + (a - 1) \in V PROVE FALSE  OBVIOUS
    <3>1. a - 1 \in A  BY <2>1
    <3> QED BY <3>1, <2>1
  <2>5. b + 1 < n => p + (b + 1) \notin V
    <3> SUFFICES ASSUME b + 1 < n, p + (b + 1) \in V PROVE FALSE  OBVIOUS
    <3>1. b + 1 \in B  BY <2>2
    <3> QED BY <3>1, <2>2
  <2>6. a \in 0 .. o /\ b \in o .. n - 1  OBVIOUS
  <2> DEFINE s == <<a, b - a + 1>>
  <2>7. s \in (0 .. n - 1) \X (1 .. n) /\ s[1] = a /\ s[2] = b - a + 1  BY <2>6
  <2> HIDE DEF s, A, B
  <2>8. s[1] + s[2] = b + 1 /\ p + s[1] + s[2] = p + (b + 1) /\ p + s[1] - 1 = p + (a - 1)
    BY <2>6, <2>7
  <2>9. s \in PageRead(V, p, n)
    <3>1. s[1] + s[2] <= n  BY <2>6, <2>8
    <3>2. \A x \in 0 .. n - 1 : s[1] <= x /\ x < s[1] + s[2] => p + x \in V
      BY <2>3, <2>6, <2>7, <2>8
    <3> QED BY <3>1, <3>2, <2>4, <2>5, <2>7, <2>8 DEF PageRead
  <2>10. Within(s, o)  BY <2>6, <2>7, <2>8 DEF Within, End
  <2> QED BY <2>9, <2>10
<1>4. ASSUME NEW o \in 0 .. n - 1, NEW s \in PageRead(V, p, n), Within(s, o)
      PROVE  p + o \in V
  BY <1>4 DEF PageRead, Within, End
<1>5. \A s, u \in PageRead(V, p, n) : s # u => End(s) <= u[1] \/ End(u) <= s[1]
  <2> SUFFICES ASSUME NEW s \in PageRead(V, p, n), NEW u \in PageRead(V, p, n), s # u,
                      ~(End(s) <= u[1]), ~(End(u) <= s[1])
               PROVE FALSE
    OBVIOUS
  <2>1. s[1] \in Nat /\ u[1] \in Nat /\ End(s) \in Nat /\ End(u) \in Nat
    BY <1>1 DEF Segments, End
  <2> QED BY <2>1, <1>2
<1> QED BY <1>1, <1>3, <1>4, <1>5

\* The frame after a turn.
Turned(f, U) ==
    [Advance(f) EXCEPT !.bufOffset = @ + StepLen(f),
         !.stepDataBoundary = {<<s[1] + f.bufOffset, s[2]>> :
              s \in PageRead(U, f.index * PageBodySize + f.pagePos, StepLen(f))}]

\* f and g are frames of one call with the same segments.
SameCall(f, g) == f.start = g.start /\ f.len = g.len
SameSegments(f, g) == SameCall(f, g) /\ f.dataBoundary = g.dataBoundary

LEMMA PageTurn ==
    ASSUME NEW f \in Frames, NEW V, PagesOK(f, V), f.remainLen > 0, f.stepDataBoundary = {},
           NEW U, \A x \in f.start + f.bufOffset .. f.start + f.bufOffset + StepLen(f) - 1 :
                     (x \in U) <=> (x \in V)
    PROVE  /\ StepLen(f) \in 1 .. f.remainLen
           /\ f.index * PageBodySize + f.pagePos = f.start + f.bufOffset
           /\ Turned(f, U) \in Frames /\ PagesOK(Turned(f, U), V)
           /\ SameSegments(f, Turned(f, U))
           /\ Turned(f, U).remainLen = f.remainLen - StepLen(f)
           /\ Turned(f, U).bufOffset = f.bufOffset + StepLen(f)
           /\ Turned(f, U).stepStart = f.stepStart /\ Turned(f, U).res = f.res
           /\ Turned(f, U).realReadLen = f.realReadLen
<1> DEFINE g == Turned(f, U)
<1>0. PICK k, p : k = StepLen(f) /\ p = f.index * PageBodySize + f.pagePos  OBVIOUS
<1>1. /\ k \in 1 .. f.remainLen /\ (f.pagePos + k) % PageBodySize \in 0 .. PageBodySize - 1
      /\ k < f.remainLen =>
            (f.index + 1) * PageBodySize + ((f.pagePos + k) % PageBodySize) = p + k
  <2>1. f.index \in Nat /\ f.pagePos \in 0 .. PageBodySize - 1 /\ f.remainLen \in Nat \ {0}
    BY DEF Frames
  <2>2. k \in 1 .. f.remainLen /\ f.pagePos + k <= PageBodySize /\ k \in Nat
        /\ (k < f.remainLen => f.pagePos + k = PageBodySize)
    BY <1>0, <2>1, TieredGetAssumption DEF StepLen
  <2>3. /\ (f.pagePos + k) % PageBodySize \in 0 .. PageBodySize - 1
        /\ f.pagePos + k = PageBodySize =>
               (f.index + 1) * PageBodySize + ((f.pagePos + k) % PageBodySize)
                   = f.index * PageBodySize + f.pagePos + k
    BY <2>1, <2>2, NextPage
  <2> QED BY <2>2, <2>3, <1>0
<1>2. p = f.start + f.bufOffset /\ p \in Nat /\ f.bufOffset \in Nat /\ f.len \in Nat
      /\ f.remainLen \in Nat /\ f.start \in Nat
  BY <1>0 DEF PagesOK, Frames
<1>3. PageRead(U, p, k) = PageRead(V, p, k)
  <2>1. \A x \in 0 .. k - 1 : (p + x \in U) <=> (p + x \in V)  BY <1>0, <1>1, <1>2
  <2>2. ASSUME NEW s \in (0 .. k - 1) \X (1 .. k), s[1] + s[2] <= k
        PROVE  /\ (\A x \in 0 .. k - 1 : s[1] <= x /\ x < s[1] + s[2] => p + x \in U)
                  <=> (\A x \in 0 .. k - 1 : s[1] <= x /\ x < s[1] + s[2] => p + x \in V)
               /\ (s[1] > 0 => p + s[1] - 1 \notin U) <=> (s[1] > 0 => p + s[1] - 1 \notin V)
               /\ (s[1] + s[2] < k => p + s[1] + s[2] \notin U)
                  <=> (s[1] + s[2] < k => p + s[1] + s[2] \notin V)
    <3>1. s[1] > 0 => s[1] - 1 \in 0 .. k - 1 /\ p + s[1] - 1 = p + (s[1] - 1)
      BY <1>1, <1>2, <2>2
    <3>2. s[1] + s[2] < k => s[1] + s[2] \in 0 .. k - 1 /\ p + s[1] + s[2] = p + (s[1] + s[2])
      BY <1>1, <1>2, <2>2
    <3> QED BY <2>1, <3>1, <3>2
  <2> QED BY <2>2 DEF PageRead
<1> DEFINE runs == {<<s[1] + f.bufOffset, s[2]>> : s \in PageRead(V, p, k)}
<1>4. /\ g.start = f.start /\ g.len = f.len /\ g.index = f.index + 1
      /\ g.pagePos = (f.pagePos + k) % PageBodySize /\ g.bufOffset = f.bufOffset + k
      /\ g.remainLen = f.remainLen - k /\ g.stepDataBoundary = runs
      /\ g.realReadLen = f.realReadLen /\ g.dataBoundary = f.dataBoundary /\ g.it = f.it
      /\ g.stepStart = f.stepStart /\ g.res = f.res
  BY <1>0, <1>3 DEF Turned, Advance, Frames
<1>5. /\ \A s \in PageRead(V, p, k) : s \in Segments /\ s[2] >= 1 /\ End(s) <= k
      /\ \A s, u \in PageRead(V, p, k) : s # u => End(s) <= u[1] \/ End(u) <= s[1]
      /\ \A o \in 0 .. k - 1 : (p + o \in V) <=> \E s \in PageRead(V, p, k) : Within(s, o)
  <2>1. k \in Nat \ {0} /\ p \in Nat  BY <1>1, <1>2
  <2> QED BY <2>1, PageReadRuns
<1>6. ASSUME NEW s \in PageRead(V, p, k)
      PROVE  LET r == <<s[1] + f.bufOffset, s[2]>>
             IN  r \in Segments /\ r[1] >= f.bufOffset /\ r[2] >= 1 /\ End(r) = End(s) + f.bufOffset
                 /\ End(r) <= f.bufOffset + k
  BY <1>1, <1>2, <1>5 DEF Segments, End
<1>7. g \in Frames
  <2>1. runs \in SUBSET Segments  BY <1>6
  <2>2. f.index + 1 \in Nat /\ f.bufOffset + k \in Nat /\ f.remainLen - k \in Nat
    <3>1. f.index \in Nat  BY DEF Frames
    <3> QED BY <3>1, <1>1, <1>2
  <2>3. g = [[f EXCEPT !.remainLen = f.remainLen - k, !.index = f.index + 1,
                       !.pagePos = (f.pagePos + k) % PageBodySize]
               EXCEPT !.bufOffset = f.bufOffset + k, !.stepDataBoundary = runs]
    BY <1>0, <1>3, Zenon DEF Turned, Advance
  <2> HIDE DEF g, runs
  <2> QED BY <1>1, <2>1, <2>2, <2>3 DEF Frames
<1> HIDE DEF g
<1>8. PagesOK(g, V)
  <2>1. g.bufOffset + g.remainLen = g.len  BY <1>1, <1>2, <1>4 DEF PagesOK
  <2>2. g.remainLen > 0 => g.index * PageBodySize + g.pagePos = g.start + g.bufOffset
    BY <1>1, <1>2, <1>4
  <2>3. BoundaryOK(g, f.bufOffset)  BY <1>4 DEF PagesOK, BoundaryOK
  <2>4. f.dataBoundary \in Seq(Segments)  BY DEF Frames
  <2>5. \A i \in DOMAIN f.dataBoundary : End(f.dataBoundary[i]) \in Nat
    BY <2>4 DEF Segments, End
  <2>6. BoundaryOK(g, g.bufOffset)
    <3>1. \A i \in DOMAIN f.dataBoundary : End(f.dataBoundary[i]) <= f.bufOffset
      BY <1>4, <2>3 DEF BoundaryOK
    <3>2. \A i \in DOMAIN f.dataBoundary : End(f.dataBoundary[i]) <= f.bufOffset + k
      BY <1>1, <1>2, <2>5, <3>1
    <3> QED BY <1>4, <2>3, <3>2 DEF BoundaryOK
  <2>7. ASSUME NEW r \in g.stepDataBoundary
        PROVE  /\ r[2] >= 1 /\ End(r) <= g.bufOffset
               /\ \A i \in DOMAIN g.dataBoundary : End(g.dataBoundary[i]) <= r[1]
    <3>1. PICK s \in PageRead(V, p, k) : r = <<s[1] + f.bufOffset, s[2]>>  BY <1>4
    <3>2. r \in Segments /\ r[1] >= f.bufOffset /\ r[2] >= 1 /\ End(r) <= f.bufOffset + k
      BY <3>1, <1>6
    <3>3. ASSUME NEW i \in DOMAIN g.dataBoundary PROVE End(g.dataBoundary[i]) <= r[1]
      <4>1. End(g.dataBoundary[i]) <= f.bufOffset /\ End(g.dataBoundary[i]) \in Nat
        BY <1>4, <2>3, <2>5 DEF BoundaryOK
      <4> QED BY <4>1, <3>2, <1>2 DEF Segments
    <3> QED BY <3>2, <3>3, <1>4
  <2>8. ASSUME NEW r \in g.stepDataBoundary, NEW t \in g.stepDataBoundary, r # t
        PROVE  End(r) <= t[1] \/ End(t) <= r[1]
    <3>1. PICK s \in PageRead(V, p, k) : r = <<s[1] + f.bufOffset, s[2]>>  BY <1>4
    <3>2. PICK u \in PageRead(V, p, k) : t = <<u[1] + f.bufOffset, u[2]>>  BY <1>4
    <3>3. s # u  BY <2>8, <3>1, <3>2
    <3>4. End(s) <= u[1] \/ End(u) <= s[1]  BY <3>3, <1>5
    <3>5. /\ End(r) = End(s) + f.bufOffset /\ End(t) = End(u) + f.bufOffset
          /\ r[1] = s[1] + f.bufOffset /\ t[1] = u[1] + f.bufOffset
          /\ s[1] \in Nat /\ u[1] \in Nat /\ End(s) \in Nat /\ End(u) \in Nat
      BY <3>1, <3>2, <1>5, <1>6 DEF Segments, End
    <3> QED BY <3>4, <3>5, <1>2
  <2>9. ASSUME NEW o \in 0 .. g.bufOffset - 1
        PROVE  (g.start + o \in V) <=>
                   (Covers(g, o) \/ \E r \in g.stepDataBoundary : Within(r, o))
    <3>1. CASE o < f.bufOffset
      <4>1. (f.start + o \in V) <=> Covers(f, o)
        BY <3>1, <1>2 DEF PagesOK
      <4>2. ~(\E r \in g.stepDataBoundary : Within(r, o))
        <5> SUFFICES ASSUME NEW r \in g.stepDataBoundary, Within(r, o) PROVE FALSE  OBVIOUS
        <5>1. PICK s \in PageRead(V, p, k) : r = <<s[1] + f.bufOffset, s[2]>>  BY <1>4
        <5>2. r[1] >= f.bufOffset /\ r \in Segments  BY <5>1, <1>6
        <5> QED BY <5>2, <3>1, <1>2 DEF Within, Segments
      <4>3. Covers(g, o) <=> Covers(f, o)  BY <1>4 DEF Covers
      <4> QED BY <4>1, <4>2, <4>3, <1>4
    <3>2. CASE o >= f.bufOffset
      <4>1. ~Covers(g, o)
        <5> SUFFICES ASSUME NEW i \in DOMAIN f.dataBoundary, Within(f.dataBoundary[i], o) PROVE FALSE
          BY <1>4 DEF Covers
        <5>1. End(f.dataBoundary[i]) <= f.bufOffset /\ End(f.dataBoundary[i]) \in Nat
          BY <1>4, <2>3, <2>5 DEF BoundaryOK
        <5> QED BY <5>1, <3>2, <1>2 DEF Within
      <4> DEFINE q == o - f.bufOffset
      <4>2. q \in 0 .. k - 1 /\ g.start + o = p + q  BY <1>1, <1>2, <1>4, <3>2
      <4>3. (p + q \in V) <=> \E s \in PageRead(V, p, k) : Within(s, q)
        <5> HIDE DEF q
        <5> QED BY <4>2, <1>5
      <4>4. ASSUME NEW s \in PageRead(V, p, k)
            PROVE  Within(s, q) <=> Within(<<s[1] + f.bufOffset, s[2]>>, o)
        <5>1. s[1] \in Nat /\ s[2] \in Nat  BY <1>5 DEF Segments
        <5> QED BY <5>1, <1>2, <3>2 DEF Within, End
      <4>5. (\E s \in PageRead(V, p, k) : Within(s, q)) <=> \E r \in runs : Within(r, o)
        <5> HIDE DEF q
        <5> QED BY <4>4
      <4> HIDE DEF q, runs
      <4> QED BY <4>1, <4>2, <4>3, <4>5, <1>4
    <3> QED BY <3>1, <3>2, <1>2
  <2>10. g.it = 1 /\ g.stepStart = 0  BY <1>4 DEF PagesOK
  <2> QED BY <2>1, <2>2, <2>6, <2>7, <2>8, <2>9, <2>10 DEF PagesOK
<1> QED BY <1>0, <1>1, <1>2, <1>4, <1>7, <1>8 DEF g, SameSegments, SameCall

\* Appending a segment behind the others covers what it covers; so does joining it
\* to the last one when it starts where that ends.
Extends(f, g, s) ==
    /\ SameCall(f, g) /\ g.dataBoundary \in Seq(Segments)
    /\ \A n \in Nat : BoundaryOK(f, n) /\ End(s) <= n => BoundaryOK(g, n)
    /\ \A o \in Nat : Covers(g, o) <=> (Covers(f, o) \/ Within(s, o))
    /\ \A i \in DOMAIN g.dataBoundary : End(g.dataBoundary[i]) <= End(s)

LEMMA AppendExtends ==
    ASSUME NEW f \in Frames, NEW g, NEW s \in Segments, s[2] >= 1, SameCall(f, g),
           g.dataBoundary = Append(f.dataBoundary, s),
           \A i \in DOMAIN f.dataBoundary : End(f.dataBoundary[i]) <= s[1]
    PROVE  Extends(f, g, s)
<1> DEFINE b == f.dataBoundary
           n == Len(b)
<1>1. b \in Seq(Segments) /\ n \in Nat /\ DOMAIN b = 1 .. n  BY DEF Frames
<1>2. g.dataBoundary \in Seq(Segments) /\ DOMAIN g.dataBoundary = 1 .. n + 1
      /\ (\A i \in 1 .. n : g.dataBoundary[i] = b[i]) /\ g.dataBoundary[n + 1] = s
  BY <1>1
<1>3. \A i \in 1 .. n : b[i] \in Segments /\ End(b[i]) \in Nat /\ b[i][1] \in Nat /\ b[i][2] \in Nat
  <2>1. \A i \in 1 .. n : b[i] \in Segments  BY <1>1
  <2> HIDE DEF b, n
  <2> QED BY <2>1 DEF Segments, End
<1>4. s[1] \in Nat /\ s[2] \in Nat /\ End(s) \in Nat /\ s[1] <= End(s)  BY DEF Segments, End
<1> HIDE DEF b, n
<1>5. ASSUME NEW m \in Nat, BoundaryOK(f, m), End(s) <= m PROVE BoundaryOK(g, m)
  <2>1. \A i \in 1 .. n : b[i][2] >= 1 /\ End(b[i]) <= m  BY <1>1, <1>5 DEF BoundaryOK, b
  <2>2. \A i, j \in 1 .. n : i < j => End(b[i]) <= b[j][1]  BY <1>1, <1>5 DEF BoundaryOK, b
  <2>3. ASSUME NEW i \in 1 .. n + 1
        PROVE  g.dataBoundary[i][2] >= 1 /\ End(g.dataBoundary[i]) <= m
    <3>1. i \in 1 .. n \/ i = n + 1  BY <1>1
    <3> QED BY <3>1, <2>1, <1>2, <1>5
  <2>4. ASSUME NEW i \in 1 .. n + 1, NEW j \in 1 .. n + 1, i < j
        PROVE  End(g.dataBoundary[i]) <= g.dataBoundary[j][1]
    <3>1. i \in 1 .. n /\ (j \in 1 .. n \/ j = n + 1)  BY <1>1, <2>4
    <3>2. \A x \in 1 .. n : End(b[x]) <= s[1]  BY <1>1 DEF b
    <3> QED BY <3>1, <3>2, <2>2, <2>4, <1>2
  <2> QED BY <1>2, <2>3, <2>4 DEF BoundaryOK
<1>6. ASSUME NEW o \in Nat PROVE Covers(g, o) <=> (Covers(f, o) \/ Within(s, o))
  <2>1. \A i \in 1 .. n + 1 : i \in 1 .. n \/ i = n + 1  BY <1>1
  <2>2. \A i \in 1 .. n : i \in 1 .. n + 1  BY <1>1
  <2>3. n + 1 \in 1 .. n + 1  BY <1>1
  <2>4. DOMAIN f.dataBoundary = 1 .. n /\ \A i \in 1 .. n : f.dataBoundary[i] = b[i]  BY <1>1 DEF b
  <2> QED BY <1>2, <2>1, <2>2, <2>3, <2>4 DEF Covers
<1>7. ASSUME NEW i \in DOMAIN g.dataBoundary PROVE End(g.dataBoundary[i]) <= End(s)
  <2>1. i \in 1 .. n \/ i = n + 1  BY <1>1, <1>2
  <2>2. CASE i \in 1 .. n
    <3>1. End(b[i]) <= s[1] /\ End(b[i]) \in Nat  BY <1>1, <1>3, <2>2 DEF b
    <3>2. g.dataBoundary[i] = b[i]  BY <1>2, <2>2
    <3> QED BY <3>1, <3>2, <1>4
  <2>3. CASE i = n + 1
    <3>1. g.dataBoundary[i] = s  BY <1>2, <2>3
    <3> QED BY <3>1, <1>4
  <2> QED BY <2>1, <2>2, <2>3
<1> QED BY <1>2, <1>5, <1>6, <1>7 DEF Extends

LEMMA JoinExtends ==
    ASSUME NEW f \in Frames, NEW g, NEW s \in Segments, s[2] >= 1, SameCall(f, g),
           g.dataBoundary = Join(f.dataBoundary, s),
           \A i \in DOMAIN f.dataBoundary : f.dataBoundary[i][2] >= 1 /\ End(f.dataBoundary[i]) <= s[1],
           \A i, j \in DOMAIN f.dataBoundary : i < j => End(f.dataBoundary[i]) <= f.dataBoundary[j][1]
    PROVE  Extends(f, g, s)
<1> DEFINE b == f.dataBoundary
           n == Len(b)
<1>1. b \in Seq(Segments) /\ n \in Nat /\ DOMAIN b = 1 .. n  BY DEF Frames
<1>2. CASE ~(n > 0 /\ b[n][1] + b[n][2] = s[1])
  <2>1. g.dataBoundary = Append(b, s)  BY <1>2 DEF Join
  <2> QED BY <2>1, AppendExtends
<1>3. CASE n > 0 /\ b[n][1] + b[n][2] = s[1]
  <2> DEFINE c == <<b[n][1], b[n][2] + s[2]>>
  <2>1. \A i \in 1 .. n : b[i] \in Segments /\ End(b[i]) \in Nat /\ b[i][1] \in Nat /\ b[i][2] \in Nat
                          /\ b[i][2] >= 1 /\ End(b[i]) <= s[1]
    <3>1. \A i \in 1 .. n : b[i] \in Segments  BY <1>1
    <3>2. \A i \in 1 .. n : b[i][2] >= 1 /\ End(b[i]) <= s[1]  BY <1>1
    <3> HIDE DEF b, n
    <3> QED BY <3>1, <3>2 DEF Segments, End
  <2>2. s[1] \in Nat /\ s[2] \in Nat /\ End(s) \in Nat /\ s[1] <= End(s)  BY DEF Segments, End
  <2>3. \A i, j \in 1 .. n : i < j => End(b[i]) <= b[j][1]  BY <1>1
  <2>4. n \in 1 .. n /\ End(b[n]) = s[1]  BY <1>1, <1>3 DEF End
  <2>5. c \in Segments /\ c[1] = b[n][1] /\ c[2] = b[n][2] + s[2] /\ End(c) = End(s) /\ c[2] >= 1
    BY <2>1, <2>2, <2>4 DEF Segments, End
  <2>6. g.dataBoundary = [b EXCEPT ![n] = c]  BY <1>3 DEF Join
  <2> HIDE DEF b, n, c
  <2>7. g.dataBoundary \in Seq(Segments) /\ DOMAIN g.dataBoundary = 1 .. n
        /\ (\A i \in 1 .. n : i # n => g.dataBoundary[i] = b[i]) /\ g.dataBoundary[n] = c
    BY <1>1, <2>4, <2>5, <2>6
  <2>8. ASSUME NEW m \in Nat, End(s) <= m, BoundaryOK(f, m) PROVE BoundaryOK(g, m)
    <3>1. ASSUME NEW i \in 1 .. n
          PROVE  g.dataBoundary[i][2] >= 1 /\ End(g.dataBoundary[i]) <= m
      <4>1. CASE i = n  BY <4>1, <2>5, <2>7, <2>8
      <4>2. CASE i # n
        <5>1. End(b[i]) <= m  BY <2>1, <2>2, <2>8
        <5> QED BY <5>1, <4>2, <2>1, <2>7
      <4> QED BY <4>1, <4>2
    <3>2. ASSUME NEW i \in 1 .. n, NEW j \in 1 .. n, i < j
          PROVE  End(g.dataBoundary[i]) <= g.dataBoundary[j][1]
      <4>1. i # n  BY <1>1, <3>2
      <4>2. g.dataBoundary[j][1] = b[j][1]  BY <2>5, <2>7
      <4> QED BY <4>1, <4>2, <2>3, <2>7, <3>2
    <3> QED BY <2>7, <3>1, <3>2 DEF BoundaryOK
  <2>9. ASSUME NEW o \in Nat PROVE Covers(g, o) <=> (Covers(f, o) \/ Within(s, o))
    <3>1. Within(c, o) <=> (Within(b[n], o) \/ Within(s, o))
      BY <2>1, <2>2, <2>4, <2>5 DEF Within, End
    <3>2. DOMAIN f.dataBoundary = 1 .. n /\ \A i \in 1 .. n : f.dataBoundary[i] = b[i]
      BY <1>1 DEF b
    <3> QED BY <3>1, <3>2, <2>4, <2>7 DEF Covers
  <2>10. ASSUME NEW i \in DOMAIN g.dataBoundary PROVE End(g.dataBoundary[i]) <= End(s)
    <3>1. CASE i = n  BY <3>1, <2>2, <2>5, <2>7
    <3>2. CASE i # n  BY <3>2, <2>1, <2>2, <2>7
    <3> QED BY <3>1, <3>2
  <2> QED BY <2>7, <2>8, <2>9, <2>10 DEF Extends
<1> QED BY <1>2, <1>3

\* A turn of the loop over the runs of a page.
LEMMA ReportTurn ==
    ASSUME NEW f \in Frames, NEW g \in Frames, NEW V, PagesOK(f, V),
           NEW s \in f.stepDataBoundary, IsFirst(s, f.stepDataBoundary), Extends(f, g, s),
           g.stepDataBoundary = f.stepDataBoundary \ {s},
           g.index = f.index, g.pagePos = f.pagePos, g.bufOffset = f.bufOffset,
           g.remainLen = f.remainLen, g.it = f.it, g.stepStart = f.stepStart
    PROVE  PagesOK(g, V)
<1>1. f.bufOffset \in Nat /\ f.stepDataBoundary \subseteq Segments  BY DEF Frames
<1>2. /\ g.bufOffset + g.remainLen = g.len
      /\ g.remainLen > 0 => g.index * PageBodySize + g.pagePos = g.start + g.bufOffset
      /\ g.it = 1 /\ g.stepStart = 0
  BY DEF PagesOK, Extends, SameCall
<1>3. End(s) <= f.bufOffset /\ s[2] >= 1 /\ s \in Segments  BY <1>1 DEF PagesOK
<1>4. BoundaryOK(g, g.bufOffset)  BY <1>1, <1>3 DEF PagesOK, Extends
<1>5. ASSUME NEW u \in g.stepDataBoundary PROVE End(s) <= u[1]
  <2>1. u \in f.stepDataBoundary /\ u # s  OBVIOUS
  <2>2. End(s) <= u[1] \/ End(u) <= s[1]  BY <2>1 DEF PagesOK
  <2>3. s[1] <= u[1] /\ u[2] >= 1 /\ u[1] \in Nat /\ u[2] \in Nat /\ s[1] \in Nat
    BY <1>1, <1>3, <2>1 DEF IsFirst, PagesOK, Segments
  <2> QED BY <2>2, <2>3 DEF End
<1>6. ASSUME NEW u \in g.stepDataBoundary
      PROVE  /\ u[2] >= 1 /\ End(u) <= g.bufOffset
             /\ \A i \in DOMAIN g.dataBoundary : End(g.dataBoundary[i]) <= u[1]
  <2>1. u \in f.stepDataBoundary /\ u \in Segments  BY <1>1
  <2>2. u[2] >= 1 /\ End(u) <= f.bufOffset  BY <2>1 DEF PagesOK
  <2>3. ASSUME NEW i \in DOMAIN g.dataBoundary PROVE End(g.dataBoundary[i]) <= u[1]
    <3>1. End(g.dataBoundary[i]) <= End(s) /\ g.dataBoundary[i] \in Segments  BY DEF Extends
    <3> QED BY <3>1, <1>3, <1>5, <2>1 DEF Segments, End
  <2> QED BY <2>2, <2>3
<1>7. \A u, v \in g.stepDataBoundary : u # v => End(u) <= v[1] \/ End(v) <= u[1]
  BY DEF PagesOK
<1>8. ASSUME NEW o \in 0 .. g.bufOffset - 1
      PROVE  (g.start + o \in V) <=>
                 (Covers(g, o) \/ \E u \in g.stepDataBoundary : Within(u, o))
  <2>1. (f.start + o \in V) <=> (Covers(f, o) \/ \E u \in f.stepDataBoundary : Within(u, o))
    BY DEF PagesOK
  <2>2. Covers(g, o) <=> (Covers(f, o) \/ Within(s, o))  BY <1>1 DEF Extends
  <2>3. f.start = g.start  BY DEF Extends, SameCall
  <2>4. (\E u \in f.stepDataBoundary : Within(u, o))
           <=> (Within(s, o) \/ \E u \in g.stepDataBoundary : Within(u, o))
    OBVIOUS
  <2> QED BY <2>1, <2>2, <2>3, <2>4
<1> QED BY <1>2, <1>4, <1>6, <1>7, <1>8 DEF PagesOK

\* Counting what a segment behind the others adds.
LEMMA CoveredFinite ==
    ASSUME NEW f \in Frames, NEW k
    PROVE  /\ IsFiniteSet(CoveredBelow(f, k)) /\ Cardinality(CoveredBelow(f, k)) \in 0 .. f.len
<1>1. f.len \in Nat  BY DEF Frames
<1>2. IsFiniteSet(0 .. f.len - 1) /\ Cardinality(0 .. f.len - 1) = f.len
  <2>1. 0 \in Int /\ f.len - 1 \in Int /\ (IF 0 > f.len - 1 THEN 0 ELSE f.len - 1 - 0 + 1) = f.len
    BY <1>1
  <2> QED BY <2>1, FS_Interval
<1>3. CoveredBelow(f, k) \in SUBSET (0 .. f.len - 1)  BY DEF CoveredBelow
<1> QED BY <1>1, <1>2, <1>3, FS_Subset, FS_CardinalityType

LEMMA CountSegment ==
    ASSUME NEW C, NEW D, NEW n \in Nat, C \subseteq 0 .. n - 1, NEW s \in Segments, End(s) <= n,
           \A o \in C : o < s[1], D = C \cup (s[1] .. End(s) - 1)
    PROVE  /\ Cardinality(C) \in Nat /\ Cardinality(D) = Cardinality(C) + s[2]
           /\ Cardinality(D) <= n
<1>1. s[1] \in Nat /\ s[2] \in Nat /\ End(s) = s[1] + s[2]  BY DEF Segments, End
<1>2. IsFiniteSet(0 .. n - 1) /\ Cardinality(0 .. n - 1) = n  BY FS_Interval
<1>3. IsFiniteSet(C) /\ Cardinality(C) \in Nat  BY <1>2, FS_Subset, FS_CardinalityType
<1>4. IsFiniteSet(s[1] .. End(s) - 1) /\ Cardinality(s[1] .. End(s) - 1) = s[2]
  <2>1. s[1] \in Int /\ End(s) - 1 \in Int
        /\ (IF s[1] > End(s) - 1 THEN 0 ELSE End(s) - 1 - s[1] + 1) = s[2]
    BY <1>1
  <2> QED BY <2>1, FS_Interval
<1>5. C \cap (s[1] .. End(s) - 1) = {}
  <2> SUFFICES ASSUME NEW o \in C, o \in s[1] .. End(s) - 1 PROVE FALSE  OBVIOUS
  <2>1. o < s[1] /\ o \in Nat  OBVIOUS
  <2> QED BY <2>1, <1>1
<1>6. Cardinality(D) = Cardinality(C) + s[2] - 0
  <2>1. Cardinality(C \cap (s[1] .. End(s) - 1)) = 0  BY <1>5, FS_EmptySet
  <2>2. Cardinality(D) = Cardinality(C) + Cardinality(s[1] .. End(s) - 1)
                            - Cardinality(C \cap (s[1] .. End(s) - 1))
    BY <1>3, <1>4, FS_Union, Zenon
  <2> QED BY <1>4, <2>1, <2>2
<1>7. D \in SUBSET (0 .. n - 1)
  <2>1. s[1] .. End(s) - 1 \subseteq 0 .. n - 1
    <3> SUFFICES ASSUME NEW o \in s[1] .. End(s) - 1 PROVE o \in 0 .. n - 1  OBVIOUS
    <3> QED BY <1>1
  <2> QED BY <2>1
<1>8. Cardinality(D) <= n  BY <1>2, <1>7, FS_Subset
<1> QED BY <1>1, <1>3, <1>6, <1>8

\* What ReadCache::Get adds up when it appends a run.
LEMMA CountTurn ==
    ASSUME NEW f \in Frames, NEW g \in Frames, NEW s \in Segments, s[2] >= 1, CountOK(f),
           BoundaryOK(f, f.len), End(s) <= f.len, SameCall(f, g),
           g.dataBoundary = Append(f.dataBoundary, s), g.realReadLen = f.realReadLen + s[2],
           \A i \in DOMAIN f.dataBoundary : End(f.dataBoundary[i]) <= s[1]
    PROVE  CountOK(g)
<1> DEFINE n == Len(f.dataBoundary)
           C == CoveredBelow(f, n + 1)
           D == CoveredBelow(g, Len(g.dataBoundary) + 1)
<1>1. f.dataBoundary \in Seq(Segments) /\ n \in Nat /\ DOMAIN f.dataBoundary = 1 .. n /\ f.len \in Nat
      /\ s[1] \in Nat /\ s[2] \in Nat
  BY DEF Frames, Segments
<1>2. DOMAIN g.dataBoundary = 1 .. n + 1 /\ Len(g.dataBoundary) = n + 1
      /\ (\A i \in 1 .. n : g.dataBoundary[i] = f.dataBoundary[i]) /\ g.dataBoundary[n + 1] = s
  BY <1>1
<1>3. g.len = f.len  BY DEF SameCall
<1> HIDE DEF n
<1>4. D = C \cup (s[1] .. End(s) - 1)
  <2>1. ASSUME NEW o \in 0 .. f.len - 1
        PROVE  (\E i \in 1 .. n + 1 : i < n + 2 /\ Within(g.dataBoundary[i], o))
                  <=> (Within(s, o) \/ \E i \in 1 .. n : i < n + 1 /\ Within(f.dataBoundary[i], o))
    <3>1. \A i \in 1 .. n + 1 : (i \in 1 .. n \/ i = n + 1) /\ i < n + 2  BY <1>1
    <3>2. \A i \in 1 .. n : i \in 1 .. n + 1 /\ i < n + 1  BY <1>1
    <3>3. n + 1 \in 1 .. n + 1  BY <1>1
    <3> QED BY <3>1, <3>2, <3>3, <1>2
  <2>2. \A o \in 0 .. f.len - 1 : Within(s, o) <=> o \in s[1] .. End(s) - 1
    BY <1>1 DEF Within, End
  <2>3. s[1] .. End(s) - 1 \subseteq 0 .. f.len - 1  BY <1>1 DEF End
  <2>4. n + 1 + 1 = n + 2  BY <1>1
  <2>5. D = {o \in 0 .. f.len - 1 : \E i \in 1 .. n + 1 : i < n + 2 /\ Within(g.dataBoundary[i], o)}
    BY <1>2, <1>3, <2>4 DEF CoveredBelow
  <2>6. C = {o \in 0 .. f.len - 1 : \E i \in 1 .. n : i < n + 1 /\ Within(f.dataBoundary[i], o)}
    BY <1>1 DEF CoveredBelow, n
  <2> HIDE DEF C, D
  <2> QED BY <2>1, <2>2, <2>3, <2>5, <2>6
<1>5. \A o \in C : o < s[1]
  <2> SUFFICES ASSUME NEW o \in 0 .. f.len - 1, NEW i \in DOMAIN f.dataBoundary,
                      Within(f.dataBoundary[i], o)
               PROVE  o < s[1]
    BY DEF CoveredBelow
  <2>1. f.dataBoundary[i] \in Segments /\ End(f.dataBoundary[i]) <= s[1]  BY <1>1
  <2>2. End(f.dataBoundary[i]) \in Nat /\ o < End(f.dataBoundary[i])
    BY <2>1 DEF Within, End, Segments
  <2> QED BY <2>1, <2>2, <1>1
<1>6. C \subseteq 0 .. f.len - 1  BY DEF CoveredBelow
<1>7. Cardinality(C) \in Nat /\ Cardinality(D) = Cardinality(C) + s[2]
  <2> HIDE DEF C, D
  <2> QED BY <1>1, <1>4, <1>5, <1>6, CountSegment
<1>8. f.realReadLen = Cardinality(C)  BY DEF CountOK, n
<1> QED BY <1>7, <1>8 DEF CountOK

\* What the accessor takes off for a segment.
LEMMA SumTurn ==
    ASSUME NEW f \in Frames, NEW V, SumOK(f, V), f.it <= Len(f.dataBoundary),
           NEW g, SameSegments(f, g), g.it = f.it + 1, g.stepStart = f.stepStart,
           g.remainLen = f.remainLen - f.dataBoundary[f.it][2]
    PROVE  SumOK(g, V) /\ f.remainLen - f.dataBoundary[f.it][2] \in 0 .. f.len
<1> DEFINE b == f.dataBoundary
           n == Len(b)
           i == f.it
           C == CoveredBelow(f, i)
           D == CoveredBelow(f, i + 1)
<1>1. b \in Seq(Segments) /\ n \in Nat /\ DOMAIN b = 1 .. n /\ f.len \in Nat /\ i \in 1 .. n
  <2>1. b \in Seq(Segments) /\ f.len \in Nat /\ i \in Nat \ {0}  BY DEF Frames
  <2>2. n \in Nat /\ DOMAIN b = 1 .. n  BY <2>1
  <2>3. i <= n  OBVIOUS
  <2> HIDE DEF b, n, i
  <2> QED BY <2>1, <2>2, <2>3
<1>2. b[i] \in Segments /\ End(b[i]) <= f.len
      /\ \A j \in 1 .. n : j < i => End(b[j]) <= b[i][1] /\ b[j] \in Segments
  BY <1>1 DEF SumOK, Exact, BoundaryOK
<1>3. D = C \cup (b[i][1] .. End(b[i]) - 1)
  <2>1. \A o \in 0 .. f.len - 1 : Within(b[i], o) <=> o \in b[i][1] .. End(b[i]) - 1
    <3> HIDE DEF b, i, n
    <3> QED BY <1>1, <1>2 DEF Within, End, Segments
  <2>2. b[i][1] .. End(b[i]) - 1 \subseteq 0 .. f.len - 1
    <3> HIDE DEF b, i, n
    <3> SUFFICES ASSUME NEW o \in b[i][1] .. End(b[i]) - 1 PROVE o \in 0 .. f.len - 1  OBVIOUS
    <3> QED BY <1>1, <1>2 DEF End, Segments
  <2>3. \A j \in 1 .. n : j < i + 1 <=> (j < i \/ j = i)  BY <1>1
  <2>4. D = {o \in 0 .. f.len - 1 : \E j \in 1 .. n : j < i + 1 /\ Within(b[j], o)}
    BY <1>1 DEF CoveredBelow
  <2>5. C = {o \in 0 .. f.len - 1 : \E j \in 1 .. n : j < i /\ Within(b[j], o)}
    BY <1>1 DEF CoveredBelow
  <2> HIDE DEF C, D, b, n, i
  <2> QED BY <2>1, <2>2, <2>3, <2>4, <2>5, <1>1
<1>4. \A o \in C : o < b[i][1]
  <2> SUFFICES ASSUME NEW o \in 0 .. f.len - 1, NEW j \in 1 .. n, j < i, Within(b[j], o)
               PROVE  o < b[i][1]
    BY <1>1 DEF CoveredBelow
  <2>1. End(b[j]) <= b[i][1] /\ b[j] \in Segments /\ b[i] \in Segments  BY <1>2
  <2> HIDE DEF b, n, i
  <2> QED BY <2>1 DEF Within, End, Segments
<1>5. C \subseteq 0 .. f.len - 1  BY DEF CoveredBelow
<1>6. Cardinality(C) \in Nat /\ Cardinality(D) = Cardinality(C) + b[i][2] /\ Cardinality(D) <= f.len
  <2> HIDE DEF C, D, b, i, n
  <2> QED BY <1>1, <1>2, <1>3, <1>4, <1>5, CountSegment
<1>7. f.remainLen = f.len - Cardinality(C) /\ b[i][2] \in Nat  BY <1>2 DEF SumOK, Segments
<1>8. f.remainLen - b[i][2] = f.len - Cardinality(D) /\ f.remainLen - b[i][2] \in 0 .. f.len
  <2> HIDE DEF C, D, b, i, n
  <2> QED BY <1>1, <1>6, <1>7
<1>9. CoveredBelow(g, g.it) = D  BY DEF CoveredBelow, SameSegments, SameCall
<1>10. Exact(g, V)
  BY DEF SumOK, Exact, BoundaryOK, Covers, SameSegments, SameCall
<1>11. g.it <= Len(g.dataBoundary) + 1  BY <1>1 DEF SameSegments
<1> QED BY <1>8, <1>9, <1>10, <1>11 DEF SumOK, SameSegments, SameCall

------------------------------------------------------------------------------
(***************************************************************************)
(* The loops over the gaps                                                 *)
(***************************************************************************)
\* When the pages are read, the segments are what is valid.
LEMMA PagesExact ==
    ASSUME NEW f \in Frames, NEW V, PagesOK(f, V), PagesRead(f)
    PROVE  Exact(f, V) /\ f.bufOffset = f.len
<1>1. f.bufOffset = f.len  BY DEF Frames, PagesOK, PagesRead
<1>2. BoundaryOK(f, f.len)  BY <1>1 DEF PagesOK
<1>3. \A o \in 0 .. f.len - 1 : (f.start + o \in V) <=> Covers(f, o)
  BY <1>1 DEF PagesOK, PagesRead
<1> QED BY <1>1, <1>2, <1>3 DEF Exact

\* No segment is below the first one, and all are below the end.
LEMMA CoveredBounds ==
    ASSUME NEW f \in Frames
    PROVE  /\ CoveredBelow(f, 1) = {} /\ Cardinality(CoveredBelow(f, 1)) = 0
           /\ CoveredBelow(f, Len(f.dataBoundary) + 1) = {o \in 0 .. f.len - 1 : Covers(f, o)}
<1>1. f.dataBoundary \in Seq(Segments)  BY DEF Frames
<1>2. DOMAIN f.dataBoundary = 1 .. Len(f.dataBoundary) /\ Len(f.dataBoundary) \in Nat  BY <1>1
<1>3. CoveredBelow(f, 1) = {}  BY <1>2 DEF CoveredBelow
<1>4. \A i \in DOMAIN f.dataBoundary : i < Len(f.dataBoundary) + 1  BY <1>2
<1> QED BY <1>3, <1>4, FS_EmptySet DEF CoveredBelow, Covers

\* The loop over the gaps begins with the number of bytes that are missing.
LEMMA GapsStart ==
    ASSUME NEW f \in Frames, NEW V, Exact(f, V), NEW g \in Frames, SameSegments(f, g),
           g.it = 1, g.stepStart = 0,
           g.remainLen = f.len - Cardinality(CoveredBelow(f, Len(f.dataBoundary) + 1))
    PROVE  /\ GapsOK(g, V) /\ g.remainLen \in 0 .. f.len
           /\ Missing(g) = {o \in 0 .. f.len - 1 : f.start + o \notin V}
<1> DEFINE A == 0 .. f.len - 1
           C == {o \in 0 .. f.len - 1 : Covers(f, o)}
<1>1. f.len \in Nat /\ f.dataBoundary \in Seq(Segments)  BY DEF Frames
<1>2. IsFiniteSet(A) /\ Cardinality(A) = f.len
  <2>1. 0 \in Int /\ f.len - 1 \in Int /\ (IF 0 > f.len - 1 THEN 0 ELSE f.len - 1 - 0 + 1) = f.len
    BY <1>1
  <2> QED BY <2>1, FS_Interval
<1>3. g.remainLen = f.len - Cardinality(C)  BY CoveredBounds
<1>4. A \cap C = C  OBVIOUS
<1>5. IsFiniteSet(C) /\ Cardinality(C) \in 0 .. f.len
  BY <1>1, <1>2, <1>4, FS_Subset, FS_CardinalityType
<1>6. IsFiniteSet(A \ C) /\ Cardinality(A \ C) = Cardinality(A) - Cardinality(A \cap C)
  <2> HIDE DEF A, C
  <2> QED BY <1>2, FS_Difference, Zenon
<1>7. Cardinality(A \ C) = g.remainLen  BY <1>2, <1>3, <1>4, <1>6
<1>8. Uncovered(g) = A \ C  BY DEF Uncovered, Covers, SameSegments, SameCall
<1>9. A \ C = {o \in 0 .. f.len - 1 : f.start + o \notin V}  BY DEF Exact
<1>10. Missing(g) = A \ C
  <2>1. CASE g.remainLen = 0
    <3>1. A \ C = {}  BY <1>6, <1>7, <2>1, FS_EmptySet
    <3> QED BY <2>1, <3>1 DEF Missing
  <2>2. CASE g.remainLen # 0  BY <2>2, <1>8 DEF Missing
  <2> QED BY <2>1, <2>2
<1>11. Exact(g, V)  BY DEF Exact, BoundaryOK, Covers, SameSegments, SameCall
<1>12. g.it <= Len(g.dataBoundary) + 1  BY <1>1 DEF SameSegments
<1>13. g.remainLen \in 0 .. f.len
  <2> HIDE DEF C
  <2> QED BY <1>1, <1>3, <1>5
<1> QED BY <1>7, <1>9, <1>10, <1>11, <1>12, <1>13 DEF GapsOK

\* Between the cursor and the next segment nothing is covered.
LEMMA SegmentAhead ==
    ASSUME NEW f \in Frames, NEW V, GapsOK(f, V), Cursor(f)
    PROVE  /\ f.it \in DOMAIN f.dataBoundary /\ f.dataBoundary[f.it] \in Segments
           /\ End(f.dataBoundary[f.it]) <= f.len
           /\ f.stepStart <= f.dataBoundary[f.it][1]
           /\ \A o \in f.stepStart .. f.dataBoundary[f.it][1] - 1 : ~Covers(f, o)
           /\ \A o \in f.dataBoundary[f.it][1] .. End(f.dataBoundary[f.it]) - 1 : Covers(f, o)
<1>1. PICK b, n, k : b = f.dataBoundary /\ n = Len(b) /\ k = f.it  OBVIOUS
<1>2. b \in Seq(Segments) /\ n \in Nat /\ DOMAIN b = 1 .. n /\ f.len \in Nat /\ k \in Nat \ {0}
      /\ f.stepStart \in Nat
  BY <1>1 DEF Frames
<1>3. k \in 1 .. n  BY <1>1, <1>2 DEF Cursor
<1>4. \A i \in 1 .. n : /\ b[i] \in Segments /\ b[i][1] \in Nat /\ b[i][2] \in Nat
                        /\ End(b[i]) \in Nat /\ b[i][1] <= End(b[i])
  BY <1>2 DEF Segments, End
<1>5. /\ \A i \in 1 .. n : End(b[i]) <= f.len
      /\ \A i, j \in 1 .. n : i < j => End(b[i]) <= b[j][1]
  BY <1>1, <1>2 DEF GapsOK, Exact, BoundaryOK
<1>6. f.stepStart = IF k = 1 THEN 0 ELSE End(b[k - 1])  BY <1>1 DEF GapsOK
<1>7. f.stepStart <= b[k][1]
  <2>1. CASE k = 1  BY <2>1, <1>3, <1>4, <1>6
  <2>2. CASE k # 1
    <3>1. k - 1 \in 1 .. n /\ k - 1 < k  BY <2>2, <1>2, <1>3
    <3> QED BY <3>1, <2>2, <1>3, <1>5, <1>6
  <2> QED BY <2>1, <2>2
<1>8. ASSUME NEW i \in 1 .. n, i < k PROVE End(b[i]) <= f.stepStart
  <2>1. k # 1 /\ k - 1 \in 1 .. n  BY <1>8, <1>2, <1>3
  <2>2. CASE i = k - 1  BY <2>1, <2>2, <1>4, <1>6
  <2>3. CASE i # k - 1
    <3>1. i < k - 1  BY <1>8, <2>3, <1>2
    <3>2. End(b[i]) <= b[k - 1][1]  BY <3>1, <2>1, <1>5
    <3> QED BY <3>2, <2>1, <1>4, <1>6
  <2> QED BY <2>2, <2>3
<1>9. ASSUME NEW o \in f.stepStart .. b[k][1] - 1, NEW i \in 1 .. n, Within(b[i], o) PROVE FALSE
  <2>1. b[i][1] <= o /\ o < End(b[i])  BY <1>9 DEF Within
  <2>2. o \in Nat /\ f.stepStart <= o /\ o < b[k][1]  BY <1>2, <1>3, <1>4
  <2>3. CASE i < k  BY <2>3, <2>1, <2>2, <1>2, <1>4, <1>8
  <2>4. CASE i = k  BY <2>4, <2>1, <2>2, <1>3, <1>4
  <2>5. CASE i > k
    <3>1. End(b[k]) <= b[i][1]  BY <2>5, <1>3, <1>5
    <3> QED BY <3>1, <2>1, <2>2, <1>3, <1>4
  <2> QED BY <2>3, <2>4, <2>5, <1>3
<1>10. \A o \in b[k][1] .. End(b[k]) - 1 : Within(b[k], o)
  <2> SUFFICES ASSUME NEW o \in b[k][1] .. End(b[k]) - 1 PROVE Within(b[k], o)  OBVIOUS
  <2> QED BY <1>3, <1>4 DEF Within
<1> QED BY <1>1, <1>2, <1>3, <1>4, <1>5, <1>7, <1>9, <1>10 DEF Covers

\* Behind the last segment nothing is covered.
LEMMA NoSegmentAhead ==
    ASSUME NEW f \in Frames, NEW V, GapsOK(f, V), ~Cursor(f)
    PROVE  /\ f.stepStart <= f.len
           /\ \A o \in f.stepStart .. f.len - 1 : ~Covers(f, o)
<1>1. PICK b, n : b = f.dataBoundary /\ n = Len(b)  OBVIOUS
<1>2. b \in Seq(Segments) /\ n \in Nat /\ DOMAIN b = 1 .. n /\ f.len \in Nat /\ f.it \in Nat \ {0}
      /\ f.stepStart \in Nat
  BY <1>1 DEF Frames
<1>3. f.it = n + 1  BY <1>1, <1>2 DEF Cursor, GapsOK
<1>4. \A i \in 1 .. n : b[i] \in Segments /\ b[i][1] \in Nat /\ End(b[i]) \in Nat /\ b[i][1] <= End(b[i])
  BY <1>2 DEF Segments, End
<1>5. /\ \A i \in 1 .. n : End(b[i]) <= f.len
      /\ \A i, j \in 1 .. n : i < j => End(b[i]) <= b[j][1]
  BY <1>1, <1>2 DEF GapsOK, Exact, BoundaryOK
<1>6. f.stepStart = IF n = 0 THEN 0 ELSE End(b[n])
  <2>1. f.stepStart = IF f.it = 1 THEN 0 ELSE End(b[f.it - 1])  BY <1>1 DEF GapsOK
  <2>2. (f.it = 1 <=> n = 0) /\ f.it - 1 = n  BY <1>2, <1>3
  <2> QED BY <2>1, <2>2
<1>7. f.stepStart <= f.len
  <2>1. CASE n = 0  BY <2>1, <1>2, <1>6
  <2>2. CASE n # 0
    <3>1. n \in 1 .. n  BY <2>2, <1>2
    <3> QED BY <3>1, <2>2, <1>5, <1>6
  <2> QED BY <2>1, <2>2
<1>8. ASSUME NEW o \in f.stepStart .. f.len - 1, NEW i \in 1 .. n, Within(b[i], o) PROVE FALSE
  <2>1. o < End(b[i]) /\ f.stepStart <= o /\ o \in Nat  BY <1>2, <1>8 DEF Within
  <2>2. n \in 1 .. n /\ n # 0  BY <1>2
  <2>3. CASE i = n  BY <2>1, <2>2, <2>3, <1>4, <1>6
  <2>4. CASE i # n
    <3>1. i < n  BY <2>4, <1>2
    <3>2. End(b[i]) <= b[n][1]  BY <3>1, <2>2, <1>5
    <3> QED BY <3>2, <2>1, <2>2, <1>4, <1>6
  <2> QED BY <2>3, <2>4
<1> QED BY <1>1, <1>2, <1>7, <1>8 DEF Covers

\* A turn of the loop over the gaps: it hands out offsets that are missing, and
\* the others stay to come.
Gap(f) == f.stepStart .. f.stepStart + GapLen(f) - 1

LEMMA GapTurn ==
    ASSUME NEW f \in Frames, NEW V, GapsOK(f, V), f.remainLen > 0
    PROVE  /\ GapLen(f) \in 0 .. f.remainLen /\ f.stepStart + GapLen(f) <= f.len
           /\ Gap(f) \subseteq Missing(f)
           /\ PastGap(f) \in Frames /\ SameSegments(f, PastGap(f)) /\ GapsOK(PastGap(f), V)
           /\ Missing(PastGap(f)) = Missing(f) \ Gap(f)
           /\ PastGap(f).remainLen = f.remainLen - GapLen(f)
           /\ PastGap(f).stepStart <= f.len /\ PastGap(f).res = f.res
<1>1. PICK g, b, n : g = PastGap(f) /\ b = f.dataBoundary /\ n = Len(b)  OBVIOUS
<1>2. PICK k, m, a, L : k = f.it /\ m = f.len /\ a = f.stepStart /\ L = f.remainLen  OBVIOUS
<1>3. PICK d : d = GapLen(f)  OBVIOUS
<1>4. b \in Seq(Segments) /\ n \in Nat /\ DOMAIN b = 1 .. n /\ m \in Nat /\ k \in Nat \ {0}
      /\ a \in Nat /\ L \in Nat /\ L > 0
  BY <1>1, <1>2 DEF Frames
<1>5. Missing(f) = Uncovered(f) /\ L = Cardinality(Missing(f))
  BY <1>2, <1>4 DEF Missing, GapsOK
<1>6. Uncovered(f) = {o \in a .. m - 1 : ~Covers(f, o)}  BY <1>2 DEF Uncovered
<1>7. IsFiniteSet(Missing(f))
  <2>1. IsFiniteSet(a .. m - 1)
    <3>1. a \in Int /\ m - 1 \in Int  BY <1>4
    <3> QED BY <3>1, FS_Interval
  <2>2. Missing(f) \in SUBSET (a .. m - 1)  BY <1>5, <1>6
  <2> QED BY <2>1, <2>2, FS_Subset
<1>8. d \in Int /\ d >= 0 /\ a + d <= m /\ a .. a + d - 1 \subseteq Missing(f)
  <2>1. CASE Cursor(f)
    <3>1. b[k] \in Segments /\ End(b[k]) <= m /\ a <= b[k][1]
          /\ \A o \in a .. b[k][1] - 1 : ~Covers(f, o)
      BY <2>1, <1>1, <1>2, SegmentAhead
    <3>2. d = b[k][1] - a  BY <2>1, <1>1, <1>2, <1>3 DEF GapLen
    <3>3. b[k][1] \in Nat /\ b[k][1] <= m  BY <3>1, <1>4 DEF Segments, End
    <3>4. a + d = b[k][1] /\ d \in Nat  BY <3>1, <3>2, <3>3, <1>4
    <3>5. \A o \in a .. b[k][1] - 1 : o \in a .. m - 1  BY <3>3, <1>4
    <3>6. a .. a + d - 1 = a .. b[k][1] - 1
      <4>1. a + d - 1 = b[k][1] - 1  BY <3>3, <3>4, <1>4
      <4> QED BY <4>1
    <3>7. a .. b[k][1] - 1 \subseteq Missing(f)
      <4> SUFFICES ASSUME NEW o \in a .. b[k][1] - 1 PROVE o \in Missing(f)  OBVIOUS
      <4> QED BY <3>1, <3>5, <1>5, <1>6
    <3>8. d \in Int /\ d >= 0 /\ a + d <= m  BY <3>3, <3>4
    <3> QED BY <3>6, <3>7, <3>8
  <2>2. CASE ~Cursor(f)
    <3>1. a <= m /\ \A o \in a .. m - 1 : ~Covers(f, o)  BY <2>2, <1>2, NoSegmentAhead
    <3>2. Missing(f) = a .. m - 1  BY <3>1, <1>5, <1>6
    <3>3. Cardinality(a .. m - 1) = m - a
      <4>1. a \in Int /\ m - 1 \in Int /\ (IF a > m - 1 THEN 0 ELSE m - 1 - a + 1) = m - a
        BY <3>1, <1>4
      <4> QED BY <4>1, FS_Interval
    <3>4. d = m - a  BY <2>2, <3>2, <3>3, <1>2, <1>3, <1>5 DEF GapLen
    <3>5. a + d = m /\ d \in Nat  BY <3>1, <3>4, <1>4
    <3>6. a .. a + d - 1 = a .. m - 1
      <4>1. a + d - 1 = m - 1  BY <3>5, <1>4
      <4> QED BY <4>1
    <3>7. d \in Int /\ d >= 0 /\ a + d <= m  BY <3>5, <1>4
    <3> QED BY <3>2, <3>6, <3>7
  <2> QED BY <2>1, <2>2
<1>9. Gap(f) = a .. a + d - 1  BY <1>2, <1>3 DEF Gap
<1>10. Cardinality(Gap(f)) = d /\ IsFiniteSet(Gap(f))
  <2>1. PICK z \in Int : z = a + d - 1  BY <1>4, <1>8
  <2>2. a \in Int /\ (IF a > z THEN 0 ELSE z - a + 1) = d  BY <2>1, <1>4, <1>8
  <2>3. IsFiniteSet(a .. z) /\ Cardinality(a .. z) = d  BY <2>2, FS_Interval
  <2> QED BY <2>1, <2>3, <1>9
<1>11. Gap(f) \in SUBSET Missing(f)  BY <1>8, <1>9
<1>12. d \in 0 .. L  BY <1>4, <1>5, <1>7, <1>8, <1>10, <1>11, FS_Subset
<1>13. Cardinality(Missing(f) \ Gap(f)) = L - d /\ IsFiniteSet(Missing(f) \ Gap(f))
  <2>1. Missing(f) \cap Gap(f) = Gap(f)  BY <1>11
  <2>2. /\ IsFiniteSet(Missing(f) \ Gap(f))
        /\ Cardinality(Missing(f) \ Gap(f)) = Cardinality(Missing(f)) - Cardinality(Missing(f) \cap Gap(f))
    BY <1>7, FS_Difference, Zenon
  <2> QED BY <2>1, <2>2, <1>5, <1>10
<1>14. SameSegments(f, g) /\ g.remainLen = L - d /\ g.res = f.res
  BY <1>1, <1>2, <1>3 DEF PastGap, Skip, Frames, SameSegments, SameCall
<1>15. IF Cursor(f) THEN g.it = k + 1 /\ g.stepStart = End(b[k])
                    ELSE g.it = k /\ g.stepStart = a
  BY <1>1, <1>2 DEF PastGap, Skip, Frames, End
<1>16. g \in Frames /\ g.stepStart <= m
  <2>1. L - d \in Nat  BY <1>4, <1>12
  <2>2. CASE Cursor(f)
    <3>1. b[k] \in Segments /\ End(b[k]) <= m  BY <2>2, <1>1, <1>2, SegmentAhead
    <3>2. End(b[k]) \in Nat /\ k + 1 \in Nat \ {0}  BY <3>1, <1>4 DEF End, Segments
    <3>3. g = [f EXCEPT !.stepStart = End(b[k]), !.it = k + 1, !.remainLen = L - d]
      BY <2>2, <1>1, <1>2, <1>3 DEF PastGap, Skip, Frames, End
    <3> QED BY <3>1, <3>2, <3>3, <2>1 DEF Frames
  <2>3. CASE ~Cursor(f)
    <3>1. g = [f EXCEPT !.remainLen = L - d]  BY <2>3, <1>1, <1>2, <1>3 DEF PastGap, Skip, Frames
    <3>2. g.stepStart = a /\ a <= m  BY <2>3, <1>2, <1>15, NoSegmentAhead
    <3> QED BY <3>1, <3>2, <2>1 DEF Frames
  <2> QED BY <2>2, <2>3
<1>17. \A o : Covers(g, o) <=> Covers(f, o)  BY <1>14 DEF SameSegments, Covers
<1>18. Missing(g) = Missing(f) \ Gap(f)
  <2>1. CASE L - d = 0
    <3>1. Missing(f) \ Gap(f) = {}  BY <2>1, <1>13, FS_EmptySet
    <3> QED BY <2>1, <3>1, <1>14 DEF Missing
  <2>2. CASE L - d # 0
    <3>1. Cursor(f)
      <4> SUFFICES ASSUME ~Cursor(f) PROVE FALSE  OBVIOUS
      <4>1. d = L  BY <1>2, <1>3 DEF GapLen
      <4> QED BY <4>1, <2>2, <1>4
    <3>2. b[k] \in Segments /\ End(b[k]) <= m /\ a <= b[k][1]
          /\ \A o \in b[k][1] .. End(b[k]) - 1 : Covers(f, o)
      BY <3>1, <1>1, <1>2, SegmentAhead
    <3>3. a + d = b[k][1] /\ b[k][1] \in Nat /\ End(b[k]) \in Nat /\ b[k][1] <= End(b[k])
      <4>1. d = b[k][1] - a  BY <3>1, <1>1, <1>2, <1>3 DEF GapLen
      <4>2. b[k][1] \in Nat /\ b[k][2] \in Nat  BY <3>2 DEF Segments
      <4>3. End(b[k]) = b[k][1] + b[k][2]  BY DEF End
      <4>4. a + d = b[k][1]
        <5>1. PICK q \in Nat : q = b[k][1]  BY <4>2
        <5> QED BY <5>1, <4>1, <1>4
      <4>5. End(b[k]) \in Nat /\ b[k][1] <= End(b[k])
        <5>1. PICK q \in Nat, h \in Nat : q = b[k][1] /\ h = b[k][2]  BY <4>2
        <5> QED BY <5>1, <4>3
      <4> QED BY <4>2, <4>4, <4>5
    <3>4. g.stepStart = End(b[k]) /\ g.len = m
      BY <3>1, <1>2, <1>14, <1>15 DEF SameSegments, SameCall
    <3>5. Missing(g) = {o \in End(b[k]) .. m - 1 : ~Covers(f, o)}
      BY <2>2, <3>4, <1>14, <1>17 DEF Missing, Uncovered
    <3>6. ASSUME NEW o \in a .. m - 1, ~Covers(f, o), ~(o \in a .. a + d - 1)
          PROVE  o \in End(b[k]) .. m - 1
      <4>1. o \in Int /\ ~(o < a + d)  BY <3>6, <1>4, <1>8
      <4>2. ~(o < End(b[k]))
        <5> SUFFICES ASSUME o < End(b[k]) PROVE FALSE  OBVIOUS
        <5>1. o \in b[k][1] .. End(b[k]) - 1  BY <4>1, <3>3
        <5> QED BY <5>1, <3>2, <3>6
      <4> QED BY <4>1, <4>2, <3>3, <1>4
    <3>7. ASSUME NEW o \in End(b[k]) .. m - 1
          PROVE  o \in a .. m - 1 /\ o \notin a .. a + d - 1
      <4>1. o \in Int /\ End(b[k]) <= o /\ o <= m - 1  BY <3>3, <1>4
      <4> QED BY <4>1, <3>2, <3>3, <1>4, <1>8
    <3> QED BY <3>5, <3>6, <3>7, <1>5, <1>6, <1>9
  <2> QED BY <2>1, <2>2
<1>19. GapsOK(g, V)
  <2>1. Exact(g, V)
    BY <1>14 DEF GapsOK, Exact, BoundaryOK, Covers, SameSegments, SameCall
  <2>2. g.it <= Len(g.dataBoundary) + 1
    <3>1. CASE Cursor(f)  BY <3>1, <1>1, <1>2, <1>4, <1>14, <1>15 DEF Cursor, SameSegments
    <3>2. CASE ~Cursor(f)  BY <3>2, <1>2, <1>14, <1>15 DEF GapsOK, SameSegments
    <3> QED BY <3>1, <3>2
  <2>3. g.stepStart = IF g.it = 1 THEN 0 ELSE End(g.dataBoundary[g.it - 1])
    <3>1. CASE Cursor(f)
      <4>1. g.it # 1 /\ g.it - 1 = k  BY <3>1, <1>4, <1>15
      <4> QED BY <3>1, <4>1, <1>1, <1>14, <1>15 DEF SameSegments
    <3>2. CASE ~Cursor(f)  BY <3>2, <1>2, <1>14, <1>15 DEF GapsOK, SameSegments
    <3> QED BY <3>1, <3>2
  <2> QED BY <2>1, <2>2, <2>3, <1>13, <1>14, <1>18 DEF GapsOK
<1> QED BY <1>1, <1>2, <1>3, <1>8, <1>11, <1>12, <1>14, <1>16, <1>18, <1>19

\* A call starts with nothing read.
LEMMA FrameStart ==
    ASSUME NEW start \in Nat, NEW len \in Nat, NEW V
    PROVE  LET f == Frame(start, len)
           IN  /\ f \in Frames /\ PagesOK(f, V) /\ CountOK(f)
               /\ f.start = start /\ f.len = len /\ f.remainLen = len /\ f.stepStart = 0
               /\ f.bufOffset = 0 /\ f.res = "SUCCESS" /\ f.stepDataBoundary = {}
<1> DEFINE f == Frame(start, len)
<1>1. /\ start \div PageBodySize \in Nat /\ start % PageBodySize \in 0 .. PageBodySize - 1
      /\ (start \div PageBodySize) * PageBodySize + (start % PageBodySize) = start
  BY PagePosition
<1>2. <<>> \in Seq(Segments) /\ DOMAIN <<>> = {} /\ Len(<<>>) = 0  OBVIOUS
<1>3. f \in Frames  BY <1>1, <1>2 DEF Frame, Frames
<1>4. /\ f.start = start /\ f.len = len /\ f.remainLen = len /\ f.stepStart = 0
      /\ f.bufOffset = 0 /\ f.res = "SUCCESS" /\ f.stepDataBoundary = {} /\ f.it = 1
      /\ f.realReadLen = 0 /\ f.dataBoundary = <<>>
      /\ f.index = start \div PageBodySize /\ f.pagePos = start % PageBodySize
  BY DEF Frame
<1> HIDE DEF f
<1>5. CountOK(f)  BY <1>3, <1>2, <1>4, CoveredBounds DEF CountOK
<1>6. PagesOK(f, V)
  <2>1. BoundaryOK(f, f.bufOffset)  BY <1>2, <1>4 DEF BoundaryOK
  <2> QED BY <1>1, <1>4, <2>1 DEF PagesOK
<1> QED BY <1>3, <1>4, <1>5, <1>6 DEF f

------------------------------------------------------------------------------
(***************************************************************************)
(* Every action keeps the invariant                                        *)
(***************************************************************************)
\* A step of one tier that changes only its frame.
LEMMA FrameStep ==
    ASSUME TypeOK, NEW tier \in Tiers, NEW g \in Frames, SameCall(frame[tier], g),
           g.remainLen <= g.len, g.stepStart <= g.len, frame' = [frame EXCEPT ![tier] = g]
    PROVE  /\ frame' \in [w : Frames, r : Frames] /\ frame'[tier] = g
           /\ \A t \in Tiers : t # tier => frame'[t] = frame[t]
           /\ \A t \in Tiers : /\ frame'[t].start + frame'[t].len <= FileSize
                               /\ frame'[t].remainLen <= frame'[t].len
                               /\ frame'[t].stepStart <= frame'[t].len
<1>1. frame \in [w : Frames, r : Frames]  BY DEF TypeOK
<1>2. frame' \in [w : Frames, r : Frames] /\ frame'[tier] = g
      /\ \A t \in Tiers : t # tier => frame'[t] = frame[t]
  BY <1>1 DEF Tiers
<1>3. ASSUME NEW t \in Tiers
      PROVE  /\ frame'[t].start + frame'[t].len <= FileSize
             /\ frame'[t].remainLen <= frame'[t].len /\ frame'[t].stepStart <= frame'[t].len
  <2>1. CASE t = tier  BY <2>1, <1>2 DEF TypeOK, SameCall
  <2>2. CASE t # tier  BY <2>2, <1>2 DEF TypeOK
  <2> QED BY <2>1, <2>2
<1> QED BY <1>2, <1>3

LEMMA PageStepIs ==
    ASSUME NEW tier \in Tiers, NEW content, PageStep(tier, content),
           NEW U, U = {x \in Positions : content[x] # "none"}, NEW f, f = frame[tier],
           NEW p, p = f.index * PageBodySize + f.pagePos
    PROVE  /\ frame' = [frame EXCEPT ![tier] = Turned(f, U)]
           /\ buf' = [x \in Positions |->
                  IF x \in U \cap (p .. p + StepLen(f) - 1) THEN content[x] ELSE buf[x]]
BY DEF PageStep, Turned

LEMMA Typed ==
    ASSUME TypeOK
    PROVE  /\ W \in Frames /\ R \in Frames /\ frame["w"] = W /\ frame["r"] = R
           /\ W.start \in Nat /\ W.len \in Nat /\ W.remainLen \in Nat /\ W.stepStart \in Nat
           /\ R.start \in Nat /\ R.len \in Nat /\ R.remainLen \in Nat /\ R.stepStart \in Nat
           /\ W.bufOffset \in Nat /\ R.bufOffset \in Nat
           /\ W.remainLen <= W.len /\ W.stepStart <= W.len
           /\ R.remainLen <= R.len /\ R.stepStart <= R.len
           /\ W.start + W.len <= FileSize /\ R.start + R.len <= FileSize
           /\ "w" \in Tiers /\ "r" \in Tiers
BY DEF TypeOK, W, R, Tiers, Frames

LEMMA InitInv == Init => GetInv
<1> SUFFICES ASSUME Init PROVE GetInv  OBVIOUS
<1>1. PICK s \in Positions :
          \E l \in 1 .. FileSize - s : frame = [w |-> Frame(s, l), r |-> Frame(0, 0)]
  BY DEF Init
<1> PICK l \in 1 .. FileSize - s : frame = [w |-> Frame(s, l), r |-> Frame(0, 0)]
  BY <1>1
<1>2. s \in Nat /\ l \in Nat /\ s + l <= FileSize  BY TieredGetAssumption DEF Positions
<1>3. /\ W \in Frames /\ PagesOK(W, writeCache)
      /\ W.start = s /\ W.len = l /\ W.remainLen = l /\ W.stepStart = 0 /\ W.bufOffset = 0
  BY <1>1, <1>2, FrameStart DEF W
<1>4. /\ R \in Frames /\ R.start = 0 /\ R.len = 0 /\ R.remainLen = 0 /\ R.stepStart = 0
      /\ R.res = "SUCCESS"
  BY <1>1, FrameStart DEF R
<1>5. TypeOK
  <2>1. frame \in [w : Frames, r : Frames]  BY <1>1, <1>3, <1>4 DEF W, R
  <2>2. \A tier \in Tiers : /\ frame[tier].start + frame[tier].len <= FileSize
                            /\ frame[tier].remainLen <= frame[tier].len
                            /\ frame[tier].stepStart <= frame[tier].len
    BY <1>2, <1>3, <1>4, TieredGetAssumption DEF Tiers, W, R
  <2>3. put \in [index : Nat, pagePos : 0 .. PageBodySize - 1, remainLen : Nat,
                 byte : {"R", "J", "none"}]
    BY TieredGetAssumption DEF Init
  <2> QED BY <2>1, <2>2, <2>3 DEF TypeOK, Init
<1>6. FramesOK  BY <1>3 DEF FramesOK, Init, Reading
<1>7. ReadCacheOK /\ PutOK  BY DEF ReadCacheOK, PutOK, Init
<1>8. PureOK  BY DEF PureOK, Init
<1>9. ServedOK
  <2>1. Asked \ Pending = {}
    <3>1. Pending = {x \in Asked : x \notin writeCache \/ x >= s}
      BY <1>2, <1>3 DEF Pending, Init
    <3>2. Asked = s .. s + l - 1  BY <1>3 DEF Asked, W
    <3> QED BY <3>1, <3>2, <1>2
  <2> QED BY <2>1, <1>4 DEF ServedOK
<1> QED BY <1>5, <1>6, <1>7, <1>8, <1>9 DEF GetInv, LoggedOK

LEMMA WritePageInv == ASSUME GetInv, WritePage PROVE GetInv'
<1>0. TypeOK /\ FramesOK /\ ReadCacheOK /\ PutOK /\ LoggedOK  BY DEF GetInv
<1>1. PICK f : f = W  OBVIOUS
<1>2. PICK k, p : k = StepLen(f) /\ p = f.index * PageBodySize + f.pagePos  OBVIOUS
<1>3. /\ pc = "w_pages" /\ f.remainLen > 0 /\ f.stepDataBoundary = {} /\ PagesOK(f, writeCache)
      /\ f \in Frames /\ f.start \in Nat /\ f.bufOffset \in Nat /\ f.len \in Nat
  BY <1>0, <1>1, Typed DEF WritePage, PageStep, FramesOK, W
<1>4. PICK g : g = Turned(f, writeCache)  OBVIOUS
<1>5. /\ k \in 1 .. f.remainLen /\ p = f.start + f.bufOffset /\ g \in Frames
      /\ PagesOK(g, writeCache) /\ SameCall(f, g) /\ g.remainLen = f.remainLen - k
      /\ g.bufOffset = f.bufOffset + k /\ g.stepStart = f.stepStart
  BY <1>2, <1>3, <1>4, PageTurn DEF SameSegments
<1>6. {x \in Positions : (IF x \in writeCache THEN "W" ELSE "none") # "none"} = writeCache
  BY <1>0 DEF TypeOK
<1>7. /\ frame' = [frame EXCEPT !["w"] = g]
      /\ buf' = [x \in Positions |->
             IF x \in writeCache \cap (p .. p + k - 1) THEN "W" ELSE buf[x]]
  <2>1. PICK content : content = [x \in Positions |-> IF x \in writeCache THEN "W" ELSE "none"]
    OBVIOUS
  <2>2. {x \in Positions : content[x] # "none"} = writeCache  BY <2>1, <1>6
  <2>3. \A x \in Positions : x \in writeCache => content[x] = "W"  BY <2>1
  <2>4. PageStep("w", content)  BY <2>1 DEF WritePage
  <2>5. /\ frame' = [frame EXCEPT !["w"] = Turned(f, writeCache)]
        /\ buf' = [x \in Positions |->
               IF x \in writeCache \cap (p .. p + k - 1) THEN content[x] ELSE buf[x]]
    <3>1. "w" \in Tiers /\ f = frame["w"]  BY <1>1 DEF Tiers, W
    <3> QED BY <2>2, <2>4, <3>1, <1>2, PageStepIs
  <2> QED BY <2>3, <2>5, <1>4
<1>8. UNCHANGED <<writeCache, readCache, exists, pc, res, put, first>>  BY DEF WritePage
<1>9. /\ frame' \in [w : Frames, r : Frames] /\ W' = g /\ R' = R
      /\ \A t \in Tiers : /\ frame'[t].start + frame'[t].len <= FileSize
                          /\ frame'[t].remainLen <= frame'[t].len
                          /\ frame'[t].stepStart <= frame'[t].len
  <2>1. g.remainLen <= g.len /\ g.stepStart <= g.len
    <3>1. f.remainLen \in Nat /\ f.remainLen <= f.len /\ f.stepStart <= f.len /\ g.len = f.len
      BY <1>0, <1>1, <1>5, Typed DEF SameCall
    <3> QED BY <3>1, <1>3, <1>5
  <2> QED BY <2>1, <1>0, <1>1, <1>5, <1>7, Typed, FrameStep DEF W, R
<1>10. TypeOK'  BY <1>0, <1>7, <1>8, <1>9 DEF TypeOK
<1>11. FramesOK'  BY <1>0, <1>3, <1>5, <1>8, <1>9 DEF FramesOK, Reading
<1>12. ReadCacheOK' /\ PutOK'  BY <1>0, <1>3, <1>8 DEF ReadCacheOK, PutOK
<1>13. PureOK => PureOK'  BY <1>8 DEF PureOK
<1>14. ServedOK => ServedOK'
  <2> SUFFICES ASSUME ServedOK, ~Failed' PROVE \A x \in (Asked \ Pending)' : buf'[x] = Freshest(x)'
    BY <1>8, <1>9 DEF ServedOK
  <2>1. Asked = f.start .. f.start + f.len - 1 /\ Asked' = Asked
    BY <1>1, <1>5, <1>9 DEF Asked, SameCall, W
  <2>2. ~Failed  BY <1>8, <1>9 DEF Failed
  <2>3. Pending = {x \in Asked : x \notin writeCache \/ x >= p}  BY <1>1, <1>3, <1>5 DEF Pending
  <2>4. Pending' = {x \in Asked : x \notin writeCache \/ x >= f.start + (f.bufOffset + k)}
    BY <1>3, <1>5, <1>8, <1>9, <2>1 DEF Pending, SameCall
  <2>5. ASSUME NEW x \in Asked, x \notin Pending' PROVE buf'[x] = Freshest(x)'
    <3>1. x \in writeCache /\ x \in Positions /\ x \in Int /\ x < f.start + (f.bufOffset + k)
      BY <2>1, <2>4, <2>5, <1>0, <1>3, <1>5 DEF TypeOK
    <3>2. Freshest(x)' = "W" /\ Freshest(x) = "W"  BY <3>1, <1>8 DEF Freshest
    <3>3. CASE x >= p
      <4>1. x \in p .. p + k - 1  BY <3>1, <3>3, <1>3, <1>5
      <4> QED BY <4>1, <3>1, <3>2, <1>7
    <3>4. CASE ~(x >= p)
      <4>1. buf[x] = "W"  BY <3>1, <3>2, <3>4, <2>2, <2>3, <2>5 DEF ServedOK
      <4> QED BY <4>1, <3>1, <3>2, <1>7
    <3> QED BY <3>3, <3>4
  <2> QED BY <2>1, <2>5
<1> QED BY <1>0, <1>10, <1>11, <1>12, <1>13, <1>14 DEF GetInv, LoggedOK

\* A step that serves nothing and asks for no less.
LEMMA ServedStep ==
    ASSUME ServedOK, Asked' = Asked, Pending \cap Asked \subseteq Pending', ~Failed' => ~Failed,
           buf' = buf, writeCache' = writeCache, exists' = exists, first' = first,
           exists' => R'.res # "ENOENT"
    PROVE  ServedOK'
<1>1. ASSUME ~Failed', NEW x \in Asked, x \notin Pending' PROVE buf'[x] = Freshest(x)'
  <2>1. buf[x] = Freshest(x)  BY <1>1 DEF ServedOK
  <2>2. Freshest(x)' = Freshest(x)  BY DEF Freshest
  <2> QED BY <2>1, <2>2
<1> QED BY <1>1 DEF ServedOK

LEMMA WriteReportInv == ASSUME GetInv, WriteReport PROVE GetInv'
<1>0. TypeOK /\ FramesOK /\ ReadCacheOK /\ PutOK /\ LoggedOK  BY DEF GetInv
<1>1. PICK f : f = W  OBVIOUS
<1>2. PICK s \in f.stepDataBoundary :
          /\ IsFirst(s, f.stepDataBoundary)
          /\ frame' = [frame EXCEPT !["w"].stepDataBoundary = @ \ {s},
                                    !["w"].dataBoundary = Join(@, s)]
  BY <1>1 DEF WriteReport, W
<1>3. PICK g : g = [f EXCEPT !.stepDataBoundary = @ \ {s}, !.dataBoundary = Join(@, s)]  OBVIOUS
<1>4. /\ pc = "w_pages" /\ PagesOK(f, writeCache) /\ f \in Frames /\ s \in Segments /\ s[2] >= 1
      /\ f.stepDataBoundary \subseteq Segments /\ f.remainLen <= f.len /\ f.stepStart <= f.len
  BY <1>0, <1>1, Typed DEF WriteReport, FramesOK, PagesOK, Frames
<1>5. SameCall(f, g) /\ g.dataBoundary = Join(f.dataBoundary, s)
      /\ g.stepDataBoundary = f.stepDataBoundary \ {s} /\ g.index = f.index /\ g.pagePos = f.pagePos
      /\ g.bufOffset = f.bufOffset /\ g.remainLen = f.remainLen /\ g.it = f.it
      /\ g.stepStart = f.stepStart /\ g.len = f.len
  BY <1>3, <1>4 DEF Frames, SameCall
<1>6. Extends(f, g, s)
  BY <1>4, <1>5, JoinExtends DEF PagesOK, BoundaryOK
<1>7. g \in Frames
  <2>1. g.dataBoundary \in Seq(Segments)  BY <1>6 DEF Extends
  <2> QED BY <2>1, <1>3, <1>4, <1>5 DEF Frames
<1>8. PagesOK(g, writeCache)  BY <1>2, <1>4, <1>5, <1>6, <1>7, ReportTurn
<1>9. /\ frame' \in [w : Frames, r : Frames] /\ W' = g /\ R' = R
      /\ \A t \in Tiers : /\ frame'[t].start + frame'[t].len <= FileSize
                          /\ frame'[t].remainLen <= frame'[t].len
                          /\ frame'[t].stepStart <= frame'[t].len
  <2>1. frame' = [frame EXCEPT !["w"] = g]  BY <1>0, <1>1, <1>2, <1>3, Typed
  <2> QED BY <2>1, <1>0, <1>1, <1>4, <1>5, <1>7, Typed, FrameStep DEF W, R
<1>10. UNCHANGED <<writeCache, readCache, exists, pc, buf, res, put, first>>  BY DEF WriteReport
<1>11. TypeOK'  BY <1>0, <1>9, <1>10 DEF TypeOK
<1>12. FramesOK'  BY <1>4, <1>8, <1>9, <1>10 DEF FramesOK, Reading
<1>13. ReadCacheOK' /\ PutOK' /\ (PureOK => PureOK')
  BY <1>0, <1>4, <1>10 DEF ReadCacheOK, PutOK, PureOK
<1>14. ASSUME ServedOK PROVE ServedOK'
  <2>1. Asked' = Asked  BY <1>1, <1>5, <1>9 DEF Asked, SameCall, W
  <2>2. Pending' = Pending
    BY <1>1, <1>4, <1>5, <1>9, <1>10, <2>1 DEF Pending, SameCall
  <2> QED BY <1>14, <2>1, <2>2, <1>9, <1>10, ServedStep DEF Failed, ServedOK
<1> QED BY <1>0, <1>11, <1>12, <1>13, <1>14 DEF GetInv, LoggedOK

LEMMA WritePagesDoneInv == ASSUME GetInv, WritePagesDone PROVE GetInv'
<1>0. TypeOK /\ FramesOK /\ ReadCacheOK /\ PutOK /\ LoggedOK  BY DEF GetInv
<1>1. PICK f : f = W  OBVIOUS
<1>2. PICK g : g = [f EXCEPT !.remainLen = f.len]  OBVIOUS
<1>3. /\ pc = "w_pages" /\ PagesOK(f, writeCache) /\ PagesRead(f) /\ f \in Frames
      /\ f.start \in Nat /\ f.len \in Nat /\ f.stepStart <= f.len /\ f.remainLen <= f.len
  BY <1>0, <1>1, Typed DEF WritePagesDone, FramesOK, W
<1>4. Exact(f, writeCache) /\ f.bufOffset = f.len  BY <1>3, PagesExact
<1>5. g \in Frames /\ SameSegments(f, g) /\ SameCall(f, g) /\ g.len = f.len
      /\ g.it = f.it /\ g.stepStart = f.stepStart /\ g.remainLen = f.len
  BY <1>2, <1>3 DEF Frames, SameSegments, SameCall
<1>6. SumOK(g, writeCache)
  <2>1. Exact(g, writeCache)
    BY <1>4, <1>5 DEF Exact, BoundaryOK, Covers, SameSegments, SameCall
  <2>2. g.it = 1 /\ g.stepStart = 0  BY <1>3, <1>5 DEF PagesOK
  <2>3. Len(g.dataBoundary) \in Nat  BY <1>5 DEF Frames
  <2>4. Cardinality(CoveredBelow(g, 1)) = 0  BY <1>5, CoveredBounds
  <2> QED BY <2>1, <2>2, <2>3, <2>4, <1>3, <1>5 DEF SumOK
<1>7. /\ frame' \in [w : Frames, r : Frames] /\ W' = g /\ R' = R
      /\ \A t \in Tiers : /\ frame'[t].start + frame'[t].len <= FileSize
                          /\ frame'[t].remainLen <= frame'[t].len
                          /\ frame'[t].stepStart <= frame'[t].len
  <2>1. frame' = [frame EXCEPT !["w"] = g]
    BY <1>0, <1>1, <1>2, Typed DEF WritePagesDone
  <2>2. g.remainLen <= g.len /\ g.stepStart <= g.len  BY <1>3, <1>5
  <2> QED BY <2>1, <2>2, <1>0, <1>1, <1>5, Typed, FrameStep DEF W, R
<1>8. UNCHANGED <<writeCache, readCache, exists, buf, res, put, first>> /\ pc' = "w_sum"
  BY DEF WritePagesDone
<1>9. TypeOK'  BY <1>0, <1>7, <1>8 DEF TypeOK
<1>10. FramesOK'  BY <1>6, <1>7, <1>8 DEF FramesOK, Reading
<1>11. ReadCacheOK' /\ PutOK' /\ (PureOK => PureOK')
  BY <1>0, <1>3, <1>8 DEF ReadCacheOK, PutOK, PureOK
<1>12. ASSUME ServedOK PROVE ServedOK'
  <2>1. Asked' = Asked  BY <1>1, <1>5, <1>7 DEF Asked, SameCall, W
  <2>2. Asked = f.start .. f.start + f.len - 1  BY <1>1 DEF Asked, W
  <2>3. Pending = {x \in Asked : x \notin writeCache \/ x >= f.start + f.len}
    BY <1>1, <1>3, <1>4 DEF Pending
  <2>4. Pending' = Asked \ writeCache  BY <2>1, <1>8 DEF Pending
  <2>5. Pending \subseteq Pending'
    <3>1. \A x \in Asked : ~(x >= f.start + f.len)  BY <2>2, <1>3
    <3> QED BY <3>1, <2>3, <2>4
  <2>6. ~Failed' => ~Failed  BY <1>3, <1>7, <1>8 DEF Failed, Reading
  <2> QED BY <1>12, <2>1, <2>5, <2>6, <1>7, <1>8, ServedStep DEF ServedOK
<1> QED BY <1>0, <1>9, <1>10, <1>11, <1>12 DEF GetInv, LoggedOK

LEMMA WriteSumInv == ASSUME GetInv, WriteSum PROVE GetInv'
<1>0. TypeOK /\ FramesOK /\ ReadCacheOK /\ PutOK /\ LoggedOK  BY DEF GetInv
<1>1. PICK f : f = W  OBVIOUS
<1>2. PICK m : m = f.remainLen - f.dataBoundary[f.it][2]  OBVIOUS
<1>3. PICK g : g = [f EXCEPT !.remainLen = m, !.it = @ + 1]  OBVIOUS
<1>4. /\ pc = "w_sum" /\ SumOK(f, writeCache) /\ f.it <= Len(f.dataBoundary) /\ f \in Frames
      /\ f.stepStart <= f.len /\ f.len \in Nat
  BY <1>0, <1>1, Typed DEF WriteSum, FramesOK, W
<1>5. SameSegments(f, g) /\ SameCall(f, g) /\ g.len = f.len
      /\ g.it = f.it + 1 /\ g.stepStart = f.stepStart /\ g.remainLen = m
  BY <1>3, <1>4 DEF Frames, SameSegments, SameCall
<1>6. m \in 0 .. f.len /\ SumOK(g, writeCache)  BY <1>2, <1>4, <1>5, SumTurn
<1>7. g \in Frames
  <2>1. m \in Nat  BY <1>4, <1>6
  <2>2. f.it + 1 \in Nat \ {0}  BY <1>4 DEF Frames
  <2>3. g = [f EXCEPT !.remainLen = m, !.it = f.it + 1]  BY <1>3
  <2> QED BY <2>1, <2>2, <2>3, <1>4 DEF Frames
<1>8. /\ frame' \in [w : Frames, r : Frames] /\ W' = g /\ R' = R
      /\ \A t \in Tiers : /\ frame'[t].start + frame'[t].len <= FileSize
                          /\ frame'[t].remainLen <= frame'[t].len
                          /\ frame'[t].stepStart <= frame'[t].len
  <2>1. frame' = [frame EXCEPT !["w"] = g]
    BY <1>0, <1>1, <1>2, <1>3, Typed DEF WriteSum
  <2>2. g.remainLen <= g.len /\ g.stepStart <= g.len  BY <1>4, <1>5, <1>6
  <2> QED BY <2>1, <2>2, <1>0, <1>1, <1>5, <1>7, Typed, FrameStep DEF W, R
<1>9. UNCHANGED <<writeCache, readCache, exists, pc, buf, res, put, first>>  BY DEF WriteSum
<1>10. TypeOK'  BY <1>0, <1>8, <1>9 DEF TypeOK
<1>11. FramesOK'  BY <1>4, <1>6, <1>8, <1>9 DEF FramesOK, Reading
<1>12. ReadCacheOK' /\ PutOK' /\ (PureOK => PureOK')
  BY <1>0, <1>4, <1>9 DEF ReadCacheOK, PutOK, PureOK
<1>13. ASSUME ServedOK PROVE ServedOK'
  <2>1. Asked' = Asked  BY <1>1, <1>5, <1>8 DEF Asked, SameCall, W
  <2>2. Pending' = Pending  BY <1>4, <1>9, <2>1 DEF Pending
  <2> QED BY <1>13, <2>1, <2>2, <1>8, <1>9, ServedStep DEF Failed, ServedOK
<1> QED BY <1>0, <1>10, <1>11, <1>12, <1>13 DEF GetInv, LoggedOK

\* The positions that are missing are asked and not valid.
LEMMA RestBounds ==
    ASSUME NEW f \in Frames, NEW V, GapsOK(f, V)
    PROVE  /\ Rest(f) \subseteq Span(f) \ V
           /\ f.remainLen = 0 => Rest(f) = {}
<1>1. f.len \in Nat /\ f.start \in Nat /\ f.stepStart \in Nat  BY DEF Frames
<1>2. ASSUME NEW o \in Missing(f) PROVE f.start + o \in Span(f) \ V
  <2>1. o \in f.stepStart .. f.len - 1 /\ ~Covers(f, o)  BY DEF Missing, Uncovered
  <2>2. o \in 0 .. f.len - 1  BY <2>1, <1>1
  <2>3. f.start + o \notin V  BY <2>1, <2>2 DEF GapsOK, Exact
  <2>4. f.start + o \in Span(f)  BY <2>2, <1>1 DEF Span
  <2> QED BY <2>3, <2>4
<1>3. f.remainLen = 0 => Rest(f) = {}  BY DEF Rest, Missing
<1> QED BY <1>2, <1>3 DEF Rest

\* The positions of a gap are missing, and the others stay so.
GapSpan(f) == f.start + f.stepStart .. f.start + f.stepStart + GapLen(f) - 1

LEMMA GapServes ==
    ASSUME NEW f \in Frames, NEW V, GapsOK(f, V), f.remainLen > 0
    PROVE  /\ GapSpan(f) \subseteq Rest(f) /\ Rest(PastGap(f)) = Rest(f) \ GapSpan(f)
           /\ GapLen(f) \in Nat /\ f.start + f.stepStart + GapLen(f) <= f.start + f.len
           /\ f.start + f.stepStart \in Nat
<1>1. PICK a, c, d : a = f.start /\ c = f.stepStart /\ d = GapLen(f)  OBVIOUS
<1>2. /\ a \in Nat /\ c \in Nat /\ d \in Nat /\ f.len \in Nat /\ c + d <= f.len
      /\ Gap(f) \subseteq Missing(f) /\ Missing(PastGap(f)) = Missing(f) \ Gap(f)
      /\ PastGap(f).start = a
  <2>1. a \in Nat /\ c \in Nat /\ f.len \in Nat /\ f.remainLen \in Nat  BY <1>1 DEF Frames
  <2>2. /\ d \in 0 .. f.remainLen /\ c + d <= f.len /\ SameSegments(f, PastGap(f))
        /\ Gap(f) \subseteq Missing(f) /\ Missing(PastGap(f)) = Missing(f) \ Gap(f)
    BY <1>1, GapTurn
  <2>3. d \in Nat  BY <2>1, <2>2
  <2>4. PastGap(f).start = a  BY <1>1, <2>2 DEF SameSegments, SameCall
  <2> QED BY <2>1, <2>2, <2>3, <2>4
<1>3. Gap(f) = c .. c + d - 1 /\ GapSpan(f) = a + c .. a + c + d - 1  BY <1>1 DEF Gap, GapSpan
<1>4. \A o \in Missing(f) : o \in Nat  BY <1>1, <1>2 DEF Missing, Uncovered
<1>5. \A o \in Nat : o \in Gap(f) <=> a + o \in GapSpan(f)  BY <1>2, <1>3
<1>6. \A x \in GapSpan(f) : x - a \in Nat /\ a + (x - a) = x  BY <1>2, <1>3
<1>7. GapSpan(f) \subseteq Rest(f)
  <2> SUFFICES ASSUME NEW x \in GapSpan(f) PROVE x \in Rest(f)  OBVIOUS
  <2>1. x - a \in Missing(f)  BY <1>2, <1>5, <1>6
  <2> QED BY <2>1, <1>1, <1>6 DEF Rest
<1>8. Rest(PastGap(f)) = {a + o : o \in Missing(f) \ Gap(f)}  BY <1>1, <1>2 DEF Rest
<1>9. Rest(f) = {a + o : o \in Missing(f)}  BY <1>1 DEF Rest
<1>10. \A o \in Missing(f) : o \in Gap(f) <=> a + o \in GapSpan(f)  BY <1>4, <1>5
<1>11. Rest(PastGap(f)) = Rest(f) \ GapSpan(f)  BY <1>8, <1>9, <1>10
<1>12. a + c + d <= a + f.len /\ a + c \in Nat  BY <1>2
<1> QED BY <1>1, <1>2, <1>7, <1>11, <1>12

\* "if (!readLen)" is a gap of no bytes.
LEMMA NoGapIsGap ==
    ASSUME NEW f \in Frames, GapLen(f) = 0
    PROVE  Skip(f) = PastGap(f) /\ GapSpan(f) = {}
<1>1. PICK g : g = Skip(f)  OBVIOUS
<1>2. g.remainLen = f.remainLen /\ f.remainLen \in Nat /\ g = [g EXCEPT !.remainLen = g.remainLen]
  BY <1>1 DEF Skip, Frames
<1>3. PastGap(f) = [g EXCEPT !.remainLen = g.remainLen - 0]  BY <1>1 DEF PastGap
<1>4. f.start \in Nat /\ f.stepStart \in Nat  BY DEF Frames
<1> QED BY <1>1, <1>2, <1>3, <1>4 DEF GapSpan

LEMMA WriteSumDoneInv == ASSUME GetInv, WriteSumDone PROVE GetInv'
<1>0. TypeOK /\ FramesOK /\ ReadCacheOK /\ PutOK /\ LoggedOK  BY DEF GetInv
<1>1. PICK f : f = W  OBVIOUS
<1>2. PICK g : g = [f EXCEPT !.it = 1]  OBVIOUS
<1>3. /\ pc = "w_sum" /\ SumOK(f, writeCache) /\ f.it > Len(f.dataBoundary) /\ f \in Frames
      /\ f.stepStart <= f.len /\ f.len \in Nat /\ f.start \in Nat
  BY <1>0, <1>1, Typed DEF WriteSumDone, FramesOK, W
<1>4. g \in Frames /\ SameSegments(f, g) /\ SameCall(f, g) /\ g.len = f.len /\ g.start = f.start
      /\ g.it = 1 /\ g.stepStart = 0 /\ g.remainLen = f.remainLen
  BY <1>2, <1>3 DEF Frames, SameSegments, SameCall, SumOK
<1>5. f.it = Len(f.dataBoundary) + 1
  <2>1. Len(f.dataBoundary) \in Nat /\ f.it \in Nat  BY <1>3 DEF Frames
  <2> QED BY <2>1, <1>3 DEF SumOK
<1>6. GapsOK(g, writeCache) /\ g.remainLen \in 0 .. f.len
      /\ Missing(g) = {o \in 0 .. f.len - 1 : f.start + o \notin writeCache}
  BY <1>3, <1>4, <1>5, GapsStart DEF SumOK
<1>7. /\ frame' \in [w : Frames, r : Frames] /\ W' = g /\ R' = R
      /\ \A t \in Tiers : /\ frame'[t].start + frame'[t].len <= FileSize
                          /\ frame'[t].remainLen <= frame'[t].len
                          /\ frame'[t].stepStart <= frame'[t].len
  <2>1. frame' = [frame EXCEPT !["w"] = g]
    BY <1>0, <1>1, <1>2, Typed DEF WriteSumDone
  <2>2. g.remainLen <= g.len /\ g.stepStart <= g.len  BY <1>3, <1>4, <1>6
  <2> QED BY <2>1, <2>2, <1>0, <1>1, <1>4, Typed, FrameStep DEF W, R
<1>8. UNCHANGED <<writeCache, readCache, exists, buf, res, put, first>> /\ pc' = "w_gaps"
  BY DEF WriteSumDone
<1>9. TypeOK'  BY <1>0, <1>7, <1>8 DEF TypeOK
<1>10. FramesOK'  BY <1>6, <1>7, <1>8 DEF FramesOK, Reading
<1>11. ReadCacheOK' /\ PutOK' /\ (PureOK => PureOK')
  BY <1>0, <1>3, <1>8 DEF ReadCacheOK, PutOK, PureOK
<1>12. ASSUME ServedOK PROVE ServedOK'
  <2>1. Asked' = Asked  BY <1>1, <1>4, <1>7 DEF Asked, W
  <2>2. Pending = Asked \ writeCache  BY <1>3 DEF Pending
  <2>3. Pending' = Rest(g)  BY <1>7, <1>8 DEF Pending
  <2>4. ASSUME NEW x \in Asked \ writeCache PROVE x \in Rest(g)
    <3>1. Asked = f.start .. f.start + f.len - 1  BY <1>1 DEF Asked, W
    <3>2. x - f.start \in 0 .. f.len - 1 /\ f.start + (x - f.start) = x  BY <3>1, <1>3
    <3>3. x - f.start \in Missing(g)  BY <3>2, <1>6
    <3> QED BY <3>2, <3>3, <1>4 DEF Rest
  <2>5. ~Failed' => ~Failed  BY <1>3, <1>7, <1>8 DEF Failed, Reading
  <2> QED BY <1>12, <2>1, <2>2, <2>3, <2>4, <2>5, <1>7, <1>8, ServedStep DEF ServedOK
<1> QED BY <1>0, <1>9, <1>10, <1>11, <1>12 DEF GetInv, LoggedOK

LEMMA WriteNoGapInv == ASSUME GetInv, WriteNoGap PROVE GetInv'
<1>0. TypeOK /\ FramesOK /\ ReadCacheOK /\ PutOK /\ LoggedOK  BY DEF GetInv
<1>1. PICK f, g : f = W /\ g = PastGap(f)  OBVIOUS
<1>2. /\ pc = "w_gaps" /\ GapsOK(f, writeCache) /\ f.remainLen > 0 /\ GapLen(f) = 0 /\ f \in Frames
      /\ f.remainLen <= f.len /\ f.remainLen \in Nat /\ f.len \in Nat
  BY <1>0, <1>1, Typed DEF WriteNoGap, NoGap, FramesOK, W
<1>3. /\ g \in Frames /\ SameCall(f, g) /\ GapsOK(g, writeCache) /\ g.stepStart <= g.len
      /\ g.remainLen <= g.len /\ g.len = f.len
  <2>1. /\ g \in Frames /\ SameCall(f, g) /\ GapsOK(g, writeCache) /\ g.stepStart <= f.len
        /\ g.remainLen = f.remainLen - GapLen(f)
    BY <1>1, <1>2, GapTurn DEF SameSegments
  <2> QED BY <2>1, <1>2 DEF SameCall
<1>4. Rest(g) = Rest(f)  BY <1>1, <1>2, GapServes, NoGapIsGap
<1>5. /\ frame' \in [w : Frames, r : Frames] /\ W' = g /\ R' = R
      /\ \A t \in Tiers : /\ frame'[t].start + frame'[t].len <= FileSize
                          /\ frame'[t].remainLen <= frame'[t].len
                          /\ frame'[t].stepStart <= frame'[t].len
  <2>1. frame' = [frame EXCEPT !["w"] = g]
    BY <1>0, <1>1, <1>2, Typed, NoGapIsGap DEF WriteNoGap, NoGap
  <2> QED BY <2>1, <1>0, <1>1, <1>3, Typed, FrameStep DEF W, R
<1>6. UNCHANGED <<writeCache, readCache, exists, pc, buf, res, put, first>>
  BY DEF WriteNoGap, NoGap
<1>7. TypeOK'  BY <1>0, <1>5, <1>6 DEF TypeOK
<1>8. FramesOK'  BY <1>2, <1>3, <1>5, <1>6 DEF FramesOK, Reading
<1>9. ReadCacheOK' /\ PutOK' /\ (PureOK => PureOK')
  BY <1>0, <1>1, <1>2, <1>4, <1>5, <1>6 DEF ReadCacheOK, PutOK, PureOK
<1>10. ASSUME ServedOK PROVE ServedOK'
  <2>1. Asked' = Asked  BY <1>1, <1>3, <1>5 DEF Asked, SameCall, W
  <2>2. Pending' = Pending  BY <1>1, <1>2, <1>4, <1>5, <1>6 DEF Pending
  <2> QED BY <1>10, <2>1, <2>2, <1>5, <1>6, ServedStep DEF Failed, ServedOK
<1> QED BY <1>0, <1>7, <1>8, <1>9, <1>10 DEF GetInv, LoggedOK

LEMMA WriteGapInv == ASSUME GetInv, WriteGap PROVE GetInv'
<1>0. TypeOK /\ FramesOK /\ ReadCacheOK /\ PutOK /\ LoggedOK  BY DEF GetInv
<1>1. PICK f, g : f = W /\ g = PastGap(f)  OBVIOUS
<1>2. PICK h : h = Frame(f.start + f.stepStart, GapLen(f))  OBVIOUS
<1>3. /\ pc = "w_gaps" /\ GapsOK(f, writeCache) /\ f.remainLen > 0 /\ f \in Frames
      /\ f.remainLen <= f.len /\ f.remainLen \in Nat /\ f.len \in Nat /\ f.start \in Nat
      /\ f.start + f.len <= FileSize
  BY <1>0, <1>1, Typed DEF WriteGap, IsGap, FramesOK, W
<1>4. /\ g \in Frames /\ SameCall(f, g) /\ GapsOK(g, writeCache) /\ g.stepStart <= g.len
      /\ g.remainLen <= g.len /\ g.len = f.len /\ g.start = f.start
  <2>1. /\ g \in Frames /\ SameCall(f, g) /\ GapsOK(g, writeCache) /\ g.stepStart <= f.len
        /\ g.remainLen = f.remainLen - GapLen(f) /\ GapLen(f) \in 0 .. f.remainLen
    BY <1>1, <1>3, GapTurn DEF SameSegments
  <2> QED BY <2>1, <1>3 DEF SameCall
<1>5. /\ GapSpan(f) \subseteq Rest(f) /\ Rest(g) = Rest(f) \ GapSpan(f) /\ GapLen(f) \in Nat
      /\ f.start + f.stepStart + GapLen(f) <= f.start + f.len /\ f.start + f.stepStart \in Nat
  BY <1>1, <1>3, GapServes
<1>6. /\ h \in Frames /\ PagesOK(h, Held) /\ CountOK(h) /\ h.start = f.start + f.stepStart
      /\ h.len = GapLen(f) /\ h.remainLen = h.len /\ h.stepStart = 0 /\ h.bufOffset = 0
      /\ h.res = "SUCCESS"
  <2> HIDE DEF Held
  <2>1. PICK a \in Nat, d \in Nat : a = f.start + f.stepStart /\ d = GapLen(f)  BY <1>5
  <2>2. h = Frame(a, d)  BY <2>1, <1>2
  <2> QED BY <2>1, <2>2, FrameStart
<1>7. Span(h) = GapSpan(f)  BY <1>6 DEF Span, GapSpan
<1>8. frame' = [w |-> g, r |-> h] /\ W' = g /\ R' = h
  BY <1>1, <1>2 DEF WriteGap, W, R
<1>9. UNCHANGED <<writeCache, readCache, exists, buf, res, put, first>> /\ pc' = "r_pages"
  BY DEF WriteGap
<1>10. TypeOK'
  <2>1. frame' \in [w : Frames, r : Frames]  BY <1>4, <1>6, <1>8
  <2>2. /\ g.start + g.len <= FileSize /\ g.remainLen <= g.len /\ g.stepStart <= g.len
        /\ h.start + h.len <= FileSize /\ h.remainLen <= h.len /\ h.stepStart <= h.len
    <3>1. FileSize \in Nat  BY TieredGetAssumption
    <3> QED BY <3>1, <1>3, <1>4, <1>5, <1>6
  <2>3. \A t \in Tiers : /\ frame'[t].start + frame'[t].len <= FileSize
                         /\ frame'[t].remainLen <= frame'[t].len
                         /\ frame'[t].stepStart <= frame'[t].len
    BY <2>2, <1>8 DEF Tiers
  <2> QED BY <2>1, <2>3, <1>0, <1>9 DEF TypeOK
<1>11. Asked' = Asked /\ Asked = Span(f)  BY <1>1, <1>4, <1>8 DEF Asked, Span, W
<1>12. FramesOK'
  <2>1. Span(h) \subseteq Asked \ writeCache
    BY <1>3, <1>5, <1>7, <1>11, RestBounds
  <2>2. Span(h) \cap Rest(g) = {}  BY <1>5, <1>7
  <2> QED BY <2>1, <2>2, <1>4, <1>6, <1>8, <1>9, <1>11 DEF FramesOK, Reading, Held
<1>13. ReadCacheOK' /\ PutOK' /\ (PureOK => PureOK')
  BY <1>0, <1>1, <1>3, <1>5, <1>7, <1>8, <1>9 DEF ReadCacheOK, PutOK, PureOK
<1>14. ASSUME ServedOK PROVE ServedOK'
  <2>1. Pending = Rest(f)  BY <1>1, <1>3 DEF Pending
  <2>2. Pending' = Rest(g) \cup {x \in Span(h) : x \notin Held \/ x >= h.start + 0}
    BY <1>6, <1>8, <1>9 DEF Pending, Held
  <2>3. \A x \in Span(h) : x >= h.start + 0  BY <1>5, <1>6 DEF Span
  <2>4. Pending \subseteq Pending'  BY <2>1, <2>2, <2>3, <1>5, <1>7
  <2>5. ~Failed' => ~Failed  BY <1>3, <1>9 DEF Failed, Reading
  <2> QED BY <1>14, <2>4, <2>5, <1>6, <1>8, <1>9, <1>11, ServedStep
<1> QED BY <1>0, <1>10, <1>12, <1>13, <1>14 DEF GetInv, LoggedOK

\* While the read cache is asked, all of it is in the file.
LEMMA AskedPositions ==
    ASSUME TypeOK
    PROVE  Asked \subseteq Positions /\ Asked = Span(W)
<1>1. W.start \in Nat /\ W.len \in Nat /\ W.start + W.len <= FileSize  BY Typed
<1>2. FileSize \in Nat  BY TieredGetAssumption
<1>3. Asked = W.start .. W.start + W.len - 1  BY DEF Asked, W
<1> QED BY <1>1, <1>2, <1>3 DEF Positions, Span

LEMMA ReadPageInv == ASSUME GetInv, ReadPage PROVE GetInv'
<1>0. TypeOK /\ FramesOK /\ ReadCacheOK /\ PutOK /\ LoggedOK  BY DEF GetInv
<1>1. PICK f : f = R  OBVIOUS
<1>2. PICK k, p : k = StepLen(f) /\ p = f.index * PageBodySize + f.pagePos  OBVIOUS
<1>3. PICK U : U = {x \in Positions : readCache[x] # "none"}  OBVIOUS
<1>4. PICK g : g = Turned(f, U)  OBVIOUS
<1>5. /\ pc = "r_pages" /\ f.remainLen > 0 /\ f.stepDataBoundary = {} /\ PagesOK(f, Held)
      /\ f \in Frames /\ f.start \in Nat /\ f.bufOffset \in Nat /\ f.len \in Nat /\ CountOK(f)
      /\ Span(f) \subseteq Asked \ writeCache /\ Span(f) \cap Rest(W) = {}
      /\ f.remainLen \in Nat /\ f.remainLen <= f.len /\ f.stepStart <= f.len
  BY <1>0, <1>1, Typed DEF ReadPage, PageStep, FramesOK, R, Reading
<1>6. k \in 1 .. f.remainLen /\ f.bufOffset + f.remainLen = f.len
  <2>1. f.pagePos \in 0 .. PageBodySize - 1 /\ PageBodySize \in Nat \ {0}
    BY <1>5, TieredGetAssumption DEF Frames
  <2>2. k = IF f.pagePos + f.remainLen > PageBodySize
            THEN PageBodySize - f.pagePos ELSE f.remainLen
    BY <1>2 DEF StepLen
  <2>3. f.bufOffset + f.remainLen = f.len  BY <1>5 DEF PagesOK
  <2> QED BY <2>1, <2>2, <2>3, <1>5
<1>7. Span(f) = f.start .. f.start + f.len - 1 /\ Span(f) \subseteq Positions
  BY <1>0, <1>5, AskedPositions DEF Span
<1>8. \A x \in Span(f) : readCache[x] = first[x] /\ (x \in U <=> x \in Held)
  BY <1>0, <1>1, <1>3, <1>5, <1>7 DEF ReadCacheOK, Held
<1>9. \A x \in f.start + f.bufOffset .. f.start + f.bufOffset + k - 1 : x \in Span(f)
  <2>1. PICK a \in Nat, b \in Nat, l \in Nat, n \in Nat :
            a = f.start /\ b = f.bufOffset /\ l = f.len /\ n = f.remainLen
    BY <1>5
  <2>2. k \in 1 .. n /\ b + n = l /\ Span(f) = a .. a + l - 1  BY <2>1, <1>6, <1>7
  <2>3. ASSUME NEW x \in a + b .. a + b + k - 1 PROVE x \in a .. a + l - 1
    <3>1. k \in Int /\ k <= n /\ b + n = l  BY <2>2
    <3>2. x \in Int /\ a + b <= x /\ x <= a + b + k - 1  BY <3>1
    <3> QED BY <3>1, <3>2
  <2> QED BY <2>1, <2>2, <2>3
<1>10. /\ p = f.start + f.bufOffset /\ g \in Frames
       /\ PagesOK(g, Held) /\ SameSegments(f, g) /\ g.remainLen = f.remainLen - k
       /\ g.bufOffset = f.bufOffset + k /\ g.stepStart = f.stepStart /\ g.res = f.res
       /\ g.realReadLen = f.realReadLen
  <2> HIDE DEF Held
  <2>1. \A x \in f.start + f.bufOffset .. f.start + f.bufOffset + StepLen(f) - 1 :
            (x \in U) <=> (x \in Held)
    BY <1>2, <1>8, <1>9
  <2> QED BY <2>1, <1>2, <1>4, <1>5, PageTurn
<1>11. SameCall(f, g) /\ Span(g) = Span(f) /\ CountOK(g) /\ g.len = f.len /\ g.start = f.start
  BY <1>5, <1>10 DEF SameSegments, SameCall, Span, CountOK, CoveredBelow
<1>12. /\ frame' = [frame EXCEPT !["r"] = g]
       /\ buf' = [x \in Positions |->
              IF x \in U \cap (p .. p + k - 1) THEN readCache[x] ELSE buf[x]]
  <2>1. "r" \in Tiers /\ f = frame["r"]  BY <1>1 DEF Tiers, R
  <2>2. PageStep("r", readCache)  BY DEF ReadPage
  <2> QED BY <2>1, <2>2, <1>2, <1>3, <1>4, PageStepIs
<1>13. UNCHANGED <<writeCache, readCache, exists, pc, res, put, first>>  BY DEF ReadPage
<1>14. /\ frame' \in [w : Frames, r : Frames] /\ W' = W /\ R' = g
       /\ \A t \in Tiers : /\ frame'[t].start + frame'[t].len <= FileSize
                           /\ frame'[t].remainLen <= frame'[t].len
                           /\ frame'[t].stepStart <= frame'[t].len
  <2>1. g.remainLen <= g.len /\ g.stepStart <= g.len  BY <1>5, <1>6, <1>10, <1>11
  <2> QED BY <2>1, <1>0, <1>1, <1>10, <1>11, <1>12, Typed, FrameStep DEF W, R
<1>15. TypeOK'
  <2>1. buf' \in [Positions -> {"W", "R", "D", "J", "none"}]  BY <1>0, <1>12 DEF TypeOK
  <2> QED BY <2>1, <1>0, <1>13, <1>14 DEF TypeOK
<1>16. Asked' = Asked  BY <1>14 DEF Asked, W
<1>17. FramesOK'
  BY <1>0, <1>5, <1>10, <1>11, <1>13, <1>14, <1>16 DEF FramesOK, Reading, Held
<1>18. ReadCacheOK' /\ PutOK' /\ (PureOK => PureOK')
  BY <1>0, <1>1, <1>5, <1>11, <1>13, <1>14 DEF ReadCacheOK, PutOK, PureOK
<1>19. ASSUME ServedOK PROVE ServedOK'
  <2> SUFFICES ASSUME ~Failed', NEW x \in Asked, x \notin Pending' PROVE buf'[x] = Freshest(x)'
    BY <1>1, <1>10, <1>13, <1>14, <1>16, <1>19 DEF ServedOK
  <2>1. ~Failed  BY <1>1, <1>10, <1>13, <1>14 DEF Failed
  <2>2. Pending' = Rest(W) \cup {y \in Span(f) : y \notin Held \/ y >= f.start + (f.bufOffset + k)}
    BY <1>5, <1>10, <1>11, <1>13, <1>14 DEF Pending, Held
  <2>3. Pending = Rest(W) \cup {y \in Span(f) : y \notin Held \/ y >= f.start + f.bufOffset}
    BY <1>1, <1>5 DEF Pending
  <2>4. Freshest(x)' = Freshest(x)  BY <1>13 DEF Freshest
  <2>5. x \in Positions  BY <1>0, AskedPositions
  <2>6. CASE x \in p .. p + k - 1
    <3>1. x \in Span(f)  BY <2>6, <1>9, <1>10
    <3>2. ~(x >= f.start + (f.bufOffset + k))  BY <2>6, <1>5, <1>6, <1>10
    <3>3. x \in Held  BY <3>1, <3>2, <2>2
    <3>4. Freshest(x) = first[x]  BY <3>1, <3>3, <1>5 DEF Freshest, Held
    <3> QED BY <3>1, <3>3, <3>4, <2>4, <2>5, <2>6, <1>8, <1>12
  <2>7. CASE x \notin p .. p + k - 1
    <3>1. x \notin Pending
      <4> SUFFICES ASSUME x \in Span(f), x >= f.start + f.bufOffset,
                          ~(x >= f.start + (f.bufOffset + k))
                   PROVE FALSE
        BY <2>2, <2>3
      <4>1. x \in Int  BY <1>5, <1>7
      <4> QED BY <4>1, <2>7, <1>5, <1>6, <1>10
    <3>2. buf[x] = Freshest(x)  BY <3>1, <2>1, <1>19 DEF ServedOK
    <3> QED BY <3>2, <2>4, <2>5, <2>7, <1>12
  <2> QED BY <2>6, <2>7
<1> QED BY <1>0, <1>15, <1>17, <1>18, <1>19 DEF GetInv, LoggedOK

LEMMA ReadReportInv == ASSUME GetInv, ReadReport PROVE GetInv'
<1>0. TypeOK /\ FramesOK /\ ReadCacheOK /\ PutOK /\ LoggedOK  BY DEF GetInv
<1>1. PICK f : f = R  OBVIOUS
<1>2. PICK s \in f.stepDataBoundary :
          /\ IsFirst(s, f.stepDataBoundary)
          /\ frame' = [frame EXCEPT !["r"].stepDataBoundary = @ \ {s},
                                    !["r"].dataBoundary = Append(@, s),
                                    !["r"].realReadLen = @ + s[2]]
  BY <1>1 DEF ReadReport, R
<1>3. PICK g : g = [f EXCEPT !.stepDataBoundary = @ \ {s}, !.dataBoundary = Append(@, s),
                             !.realReadLen = @ + s[2]]
  OBVIOUS
<1>4. /\ pc = "r_pages" /\ PagesOK(f, Held) /\ CountOK(f) /\ f \in Frames /\ s \in Segments
      /\ s[2] >= 1 /\ f.stepDataBoundary \subseteq Segments /\ f.remainLen <= f.len
      /\ f.stepStart <= f.len /\ Span(f) \subseteq Asked \ writeCache /\ Span(f) \cap Rest(W) = {}
      /\ f.len \in Nat /\ f.bufOffset \in Nat /\ f.remainLen \in Nat
  BY <1>0, <1>1, Typed DEF ReadReport, FramesOK, PagesOK, Frames, Reading
<1>5. SameCall(f, g) /\ g.dataBoundary = Append(f.dataBoundary, s)
      /\ g.stepDataBoundary = f.stepDataBoundary \ {s} /\ g.index = f.index /\ g.pagePos = f.pagePos
      /\ g.bufOffset = f.bufOffset /\ g.remainLen = f.remainLen /\ g.it = f.it
      /\ g.stepStart = f.stepStart /\ g.len = f.len /\ g.realReadLen = f.realReadLen + s[2]
      /\ g.res = f.res /\ Span(g) = Span(f)
  BY <1>3, <1>4 DEF Frames, SameCall, Span
<1>6. \A i \in DOMAIN f.dataBoundary : End(f.dataBoundary[i]) <= s[1]
  BY <1>4 DEF PagesOK
<1>7. Extends(f, g, s)  BY <1>4, <1>5, <1>6, AppendExtends
<1>8. g \in Frames
  <2>1. g.dataBoundary \in Seq(Segments)  BY <1>7 DEF Extends
  <2>2. f.realReadLen + s[2] \in Nat  BY <1>4 DEF Frames, Segments
  <2> QED BY <2>1, <2>2, <1>3, <1>4, <1>5 DEF Frames
<1>9. PagesOK(g, Held)
  <2> HIDE DEF Held
  <2> QED BY <1>2, <1>4, <1>5, <1>7, <1>8, ReportTurn
<1>10. CountOK(g)
  <2>1. f.bufOffset <= f.len /\ End(s) <= f.bufOffset /\ End(s) \in Nat
        /\ BoundaryOK(f, f.bufOffset)
    BY <1>4 DEF PagesOK, Segments, End
  <2>2. \A i \in DOMAIN f.dataBoundary : End(f.dataBoundary[i]) \in Nat
    <3>1. f.dataBoundary \in Seq(Segments)  BY <1>4 DEF Frames
    <3>2. \A i \in DOMAIN f.dataBoundary : f.dataBoundary[i] \in Segments  BY <3>1
    <3> QED BY <3>2 DEF Segments, End
  <2>3. BoundaryOK(f, f.len)
    <3>1. \A i \in DOMAIN f.dataBoundary : End(f.dataBoundary[i]) <= f.bufOffset
      BY <2>1 DEF BoundaryOK
    <3>2. \A i \in DOMAIN f.dataBoundary : End(f.dataBoundary[i]) <= f.len
      BY <3>1, <2>1, <2>2, <1>4
    <3> QED BY <3>2, <2>1 DEF BoundaryOK
  <2>4. End(s) <= f.len  BY <2>1, <1>4
  <2> QED BY <2>3, <2>4, <1>4, <1>5, <1>6, <1>8, CountTurn
<1>11. /\ frame' \in [w : Frames, r : Frames] /\ W' = W /\ R' = g
       /\ \A t \in Tiers : /\ frame'[t].start + frame'[t].len <= FileSize
                           /\ frame'[t].remainLen <= frame'[t].len
                           /\ frame'[t].stepStart <= frame'[t].len
  <2>1. frame' = [frame EXCEPT !["r"] = g]  BY <1>0, <1>1, <1>2, <1>3, Typed
  <2> QED BY <2>1, <1>0, <1>1, <1>4, <1>5, <1>8, Typed, FrameStep DEF W, R
<1>12. UNCHANGED <<writeCache, readCache, exists, pc, buf, res, put, first>>  BY DEF ReadReport
<1>13. TypeOK'  BY <1>0, <1>11, <1>12 DEF TypeOK
<1>14. Asked' = Asked  BY <1>11 DEF Asked, W
<1>15. FramesOK'
  BY <1>0, <1>4, <1>5, <1>9, <1>10, <1>11, <1>12, <1>14 DEF FramesOK, Reading, Held
<1>16. ReadCacheOK' /\ PutOK' /\ (PureOK => PureOK')
  BY <1>0, <1>1, <1>4, <1>5, <1>11, <1>12 DEF ReadCacheOK, PutOK, PureOK
<1>17. ASSUME ServedOK PROVE ServedOK'
  <2>1. Pending' = Pending
    BY <1>1, <1>4, <1>5, <1>11, <1>12 DEF Pending, SameCall, Held
  <2>2. ~Failed' => ~Failed  BY <1>1, <1>5, <1>11, <1>12 DEF Failed
  <2>3. exists' => R'.res # "ENOENT"  BY <1>1, <1>5, <1>11, <1>12, <1>17 DEF ServedOK
  <2> QED BY <1>17, <2>1, <2>2, <2>3, <1>12, <1>14, ServedStep
<1> QED BY <1>0, <1>13, <1>15, <1>16, <1>17 DEF GetInv, LoggedOK

LEMMA ReadPagesDoneInv == ASSUME GetInv, ReadPagesDone PROVE GetInv'
<1>0. TypeOK /\ FramesOK /\ ReadCacheOK /\ PutOK /\ LoggedOK  BY DEF GetInv
<1>1. PICK f : f = R  OBVIOUS
<1>2. PICK m : m = f.len - f.realReadLen  OBVIOUS
<1>3. PICK g : g = [f EXCEPT !.remainLen = m]  OBVIOUS
<1>4. /\ pc = "r_pages" /\ PagesOK(f, Held) /\ CountOK(f) /\ PagesRead(f) /\ f \in Frames
      /\ f.start \in Nat /\ f.len \in Nat /\ f.stepStart <= f.len
      /\ Span(f) \subseteq Asked \ writeCache /\ Span(f) \cap Rest(W) = {}
  BY <1>0, <1>1, Typed DEF ReadPagesDone, FramesOK, R, Reading
<1>5. Exact(f, Held) /\ f.bufOffset = f.len
  <2> HIDE DEF Held
  <2> QED BY <1>4, PagesExact
<1>6. SameSegments(f, g) /\ SameCall(f, g) /\ g.len = f.len /\ g.start = f.start
      /\ g.it = f.it /\ g.stepStart = f.stepStart /\ g.remainLen = m /\ Span(g) = Span(f)
      /\ g.res = f.res
  BY <1>3, <1>4 DEF Frames, SameSegments, SameCall, Span
<1>7. m = f.len - Cardinality(CoveredBelow(f, Len(f.dataBoundary) + 1)) /\ m \in 0 .. f.len
  BY <1>2, <1>4, CoveredFinite DEF CountOK
<1>8. g \in Frames
  <2>1. m \in Nat  BY <1>4, <1>7
  <2> QED BY <2>1, <1>3, <1>4 DEF Frames
<1>9. GapsOK(g, Held) /\ Missing(g) = {o \in 0 .. f.len - 1 : f.start + o \notin Held}
  <2>1. g.it = 1 /\ g.stepStart = 0  BY <1>4, <1>6 DEF PagesOK
  <2> HIDE DEF Held
  <2> QED BY <2>1, <1>4, <1>5, <1>6, <1>7, <1>8, GapsStart
<1>10. /\ frame' \in [w : Frames, r : Frames] /\ W' = W /\ R' = g
       /\ \A t \in Tiers : /\ frame'[t].start + frame'[t].len <= FileSize
                           /\ frame'[t].remainLen <= frame'[t].len
                           /\ frame'[t].stepStart <= frame'[t].len
  <2>1. frame' = [frame EXCEPT !["r"] = g]
    BY <1>0, <1>1, <1>2, <1>3, Typed DEF ReadPagesDone
  <2>2. g.remainLen <= g.len /\ g.stepStart <= g.len  BY <1>4, <1>6, <1>7
  <2> QED BY <2>1, <2>2, <1>0, <1>1, <1>6, <1>8, Typed, FrameStep DEF W, R
<1>11. UNCHANGED <<writeCache, readCache, exists, buf, res, put, first>> /\ pc' = "r_gaps"
  BY DEF ReadPagesDone
<1>12. TypeOK'  BY <1>0, <1>10, <1>11 DEF TypeOK
<1>13. Asked' = Asked  BY <1>10 DEF Asked, W
<1>14. FramesOK'
  BY <1>0, <1>4, <1>6, <1>9, <1>10, <1>11, <1>13 DEF FramesOK, Reading, Held
<1>15. ReadCacheOK' /\ PutOK' /\ (PureOK => PureOK')
  BY <1>0, <1>4, <1>10, <1>11 DEF ReadCacheOK, PutOK, PureOK
<1>16. ASSUME ServedOK PROVE ServedOK'
  <2>1. Pending = Rest(W) \cup {x \in Span(f) : x \notin Held \/ x >= f.start + f.len}
    BY <1>1, <1>4, <1>5 DEF Pending
  <2>2. Pending' = Rest(W) \cup Rest(g)  BY <1>10, <1>11 DEF Pending
  <2>3. ASSUME NEW x \in Span(f), x \notin Held \/ x >= f.start + f.len PROVE x \in Rest(g)
    <3>1. x \in f.start .. f.start + f.len - 1  BY DEF Span
    <3>2. x - f.start \in 0 .. f.len - 1 /\ f.start + (x - f.start) = x
          /\ ~(x >= f.start + f.len)
      BY <3>1, <1>4
    <3>3. x - f.start \in Missing(g)  BY <3>2, <2>3, <1>9
    <3> QED BY <3>2, <3>3, <1>6 DEF Rest
  <2>4. Pending \subseteq Pending'  BY <2>1, <2>2, <2>3
  <2>5. ~Failed' => ~Failed  BY <1>1, <1>4, <1>6, <1>10, <1>11 DEF Failed, Reading
  <2>6. exists' => R'.res # "ENOENT"  BY <1>1, <1>6, <1>10, <1>11, <1>16 DEF ServedOK
  <2> QED BY <1>16, <2>4, <2>5, <2>6, <1>11, <1>13, ServedStep
<1> QED BY <1>0, <1>12, <1>14, <1>15, <1>16 DEF GetInv, LoggedOK

LEMMA ReadNoGapInv == ASSUME GetInv, ReadNoGap PROVE GetInv'
<1>0. TypeOK /\ FramesOK /\ ReadCacheOK /\ PutOK /\ LoggedOK  BY DEF GetInv
<1>1. PICK f, g : f = R /\ g = PastGap(f)  OBVIOUS
<1>2. /\ pc = "r_gaps" /\ GapsOK(f, Held) /\ f.remainLen > 0 /\ GapLen(f) = 0 /\ f \in Frames
      /\ f.remainLen <= f.len /\ f.remainLen \in Nat /\ f.len \in Nat
      /\ Span(f) \subseteq Asked \ writeCache /\ Span(f) \cap Rest(W) = {}
  BY <1>0, <1>1, Typed DEF ReadNoGap, NoGap, FramesOK, R, Reading
<1>3. /\ g \in Frames /\ SameCall(f, g) /\ GapsOK(g, Held) /\ g.stepStart <= g.len
      /\ g.remainLen <= g.len /\ g.len = f.len /\ g.res = f.res /\ Span(g) = Span(f)
  <2> HIDE DEF Held
  <2>1. /\ g \in Frames /\ SameCall(f, g) /\ GapsOK(g, Held) /\ g.stepStart <= f.len
        /\ g.remainLen = f.remainLen - GapLen(f) /\ g.res = f.res
    BY <1>1, <1>2, GapTurn DEF SameSegments
  <2> QED BY <2>1, <1>2 DEF SameCall, Span
<1>4. Rest(g) = Rest(f)
  <2> HIDE DEF Held
  <2> QED BY <1>1, <1>2, GapServes, NoGapIsGap
<1>5. /\ frame' \in [w : Frames, r : Frames] /\ W' = W /\ R' = g
      /\ \A t \in Tiers : /\ frame'[t].start + frame'[t].len <= FileSize
                          /\ frame'[t].remainLen <= frame'[t].len
                          /\ frame'[t].stepStart <= frame'[t].len
  <2>1. frame' = [frame EXCEPT !["r"] = g]
    BY <1>0, <1>1, <1>2, Typed, NoGapIsGap DEF ReadNoGap, NoGap
  <2> QED BY <2>1, <1>0, <1>1, <1>3, Typed, FrameStep DEF W, R
<1>6. UNCHANGED <<writeCache, readCache, exists, pc, buf, res, put, first>>
  BY DEF ReadNoGap, NoGap
<1>7. TypeOK'  BY <1>0, <1>5, <1>6 DEF TypeOK
<1>8. Asked' = Asked  BY <1>5 DEF Asked, W
<1>9. FramesOK'  BY <1>0, <1>2, <1>3, <1>5, <1>6, <1>8 DEF FramesOK, Reading, Held
<1>10. ReadCacheOK' /\ PutOK' /\ (PureOK => PureOK')
  BY <1>0, <1>2, <1>5, <1>6 DEF ReadCacheOK, PutOK, PureOK
<1>11. ASSUME ServedOK PROVE ServedOK'
  <2>1. Pending' = Pending  BY <1>1, <1>2, <1>4, <1>5, <1>6 DEF Pending
  <2>2. ~Failed' => ~Failed  BY <1>1, <1>3, <1>5, <1>6 DEF Failed
  <2>3. exists' => R'.res # "ENOENT"  BY <1>1, <1>3, <1>5, <1>6, <1>11 DEF ServedOK
  <2> QED BY <1>11, <2>1, <2>2, <2>3, <1>6, <1>8, ServedStep
<1> QED BY <1>0, <1>7, <1>9, <1>10, <1>11 DEF GetInv, LoggedOK

LEMMA ReadGapInv == ASSUME GetInv, ReadGap PROVE GetInv'
<1>0. TypeOK /\ FramesOK /\ ReadCacheOK /\ PutOK /\ LoggedOK  BY DEF GetInv
<1>1. PICK f, g, s, n : f = R /\ g = PastGap(f) /\ s = f.start + f.stepStart /\ n = GapLen(f)
  OBVIOUS
<1>2. PICK downRes \in (IF exists THEN {"SUCCESS", "EIO"} ELSE {"ENOENT", "EIO"}) :
          /\ buf' = [x \in Positions |->
                IF x \in s .. s + n - 1
                THEN IF downRes = "SUCCESS" THEN "D" ELSE "J" ELSE buf[x]]
          /\ frame' = [frame EXCEPT !.r =
                [g EXCEPT !.res = IF Kept(downRes) THEN @ ELSE downRes]]
          /\ put' = [index |-> s \div PageBodySize, pagePos |-> s % PageBodySize,
                     remainLen |-> IF Kept(downRes) THEN n ELSE 0,
                     byte |-> IF downRes = "SUCCESS" THEN "R" ELSE "J"]
  BY <1>1 DEF ReadGap, R
<1>3. PICK h : h = [g EXCEPT !.res = IF Kept(downRes) THEN f.res ELSE downRes]  OBVIOUS
<1>4. /\ pc = "r_gaps" /\ GapsOK(f, Held) /\ f.remainLen > 0 /\ f \in Frames
      /\ f.remainLen <= f.len /\ f.remainLen \in Nat /\ f.len \in Nat /\ f.start \in Nat
      /\ Span(f) \subseteq Asked \ writeCache /\ Span(f) \cap Rest(W) = {}
      /\ f.res \in {"SUCCESS", "EIO", "ENOENT"}
  BY <1>0, <1>1, Typed DEF ReadGap, IsGap, FramesOK, R, Reading, Frames
<1>5. /\ g \in Frames /\ SameCall(f, g) /\ GapsOK(g, Held) /\ g.stepStart <= g.len
      /\ g.remainLen <= g.len /\ g.len = f.len /\ g.res = f.res
  <2> HIDE DEF Held
  <2>1. /\ g \in Frames /\ SameCall(f, g) /\ GapsOK(g, Held) /\ g.stepStart <= f.len
        /\ g.remainLen = f.remainLen - GapLen(f) /\ g.res = f.res /\ GapLen(f) \in 0 .. f.remainLen
    BY <1>1, <1>4, GapTurn DEF SameSegments
  <2> QED BY <2>1, <1>4 DEF SameCall
<1>6. /\ GapSpan(f) \subseteq Rest(f) /\ Rest(g) = Rest(f) \ GapSpan(f) /\ n \in Nat /\ s \in Nat
      /\ GapSpan(f) = s .. s + n - 1 /\ Rest(f) \subseteq Span(f) \ Held
  <2> HIDE DEF Held
  <2> QED BY <1>1, <1>4, GapServes, RestBounds DEF GapSpan
<1>7. /\ h.start = g.start /\ h.len = g.len /\ h.remainLen = g.remainLen /\ h.it = g.it
      /\ h.stepStart = g.stepStart /\ h.dataBoundary = g.dataBoundary
      /\ h.res = IF Kept(downRes) THEN f.res ELSE downRes
  BY <1>3, <1>5 DEF Frames
<1>8. h \in Frames
  <2>1. (IF Kept(downRes) THEN f.res ELSE downRes) \in {"SUCCESS", "EIO", "ENOENT"}  BY <1>2, <1>4
  <2> QED BY <2>1, <1>3, <1>5 DEF Frames
<1>9. GapsOK(h, Held) /\ Missing(h) = Missing(g)
  BY <1>5, <1>7 DEF GapsOK, Exact, BoundaryOK, Missing, Uncovered, Covers
<1>10. Rest(h) = Rest(f) \ GapSpan(f) /\ Span(h) = Span(f) /\ SameCall(f, h)
  BY <1>5, <1>6, <1>7, <1>9 DEF Rest, Span, SameCall
<1>11. /\ frame' \in [w : Frames, r : Frames] /\ W' = W /\ R' = h
       /\ \A t \in Tiers : /\ frame'[t].start + frame'[t].len <= FileSize
                           /\ frame'[t].remainLen <= frame'[t].len
                           /\ frame'[t].stepStart <= frame'[t].len
  <2>1. frame' = [frame EXCEPT !["r"] = h]  BY <1>2, <1>3, <1>5
  <2>2. h.remainLen <= h.len /\ h.stepStart <= h.len  BY <1>5, <1>7
  <2> QED BY <2>1, <2>2, <1>0, <1>1, <1>8, <1>10, Typed, FrameStep DEF W, R
<1>12. UNCHANGED <<writeCache, readCache, exists, res, first>> /\ pc' = "put"  BY DEF ReadGap
<1>13. /\ s \div PageBodySize \in Nat /\ s % PageBodySize \in 0 .. PageBodySize - 1
       /\ (s \div PageBodySize) * PageBodySize + (s % PageBodySize) = s
  BY <1>6, PagePosition
<1>14. TypeOK'
  <2>1. buf' \in [Positions -> {"W", "R", "D", "J", "none"}]  BY <1>0, <1>2 DEF TypeOK
  <2>2. put' \in [index : Nat, pagePos : 0 .. PageBodySize - 1, remainLen : Nat,
                  byte : {"R", "J", "none"}]
    BY <1>2, <1>6, <1>13
  <2> QED BY <2>1, <2>2, <1>0, <1>11, <1>12 DEF TypeOK
<1>15. Asked' = Asked  BY <1>11 DEF Asked, W
<1>16. FramesOK'
  BY <1>0, <1>4, <1>9, <1>10, <1>11, <1>12, <1>15 DEF FramesOK, Reading, Held
<1>17. ReadCacheOK'  BY <1>0, <1>4, <1>11, <1>12 DEF ReadCacheOK
<1>18. PutOK'
  <2>1. ASSUME NEW x \in s .. s + n - 1 PROVE x \in Span(f) /\ first[x] = "none"
    <3>1. x \in Span(f) \ Held  BY <1>6
    <3>2. x \in Positions  BY <3>1, <1>0, <1>4, AskedPositions
    <3> QED BY <3>1, <3>2 DEF Held
  <2>2. put'.remainLen > 0 =>
            put'.index * PageBodySize + put'.pagePos = s /\ put'.remainLen = n
    BY <1>2, <1>6, <1>13
  <2> QED BY <2>1, <2>2, <1>10, <1>11, <1>12 DEF PutOK
<1>19. EnableLogging => (Kept(downRes) <=> downRes = "SUCCESS")  BY DEF Kept
<1>20. ASSUME EnableLogging, PureOK PROVE PureOK'
  BY <1>2, <1>12, <1>19, <1>20 DEF PureOK
<1>21. ASSUME EnableLogging, ServedOK PROVE ServedOK'
  <2>1. exists' => R'.res # "ENOENT"
    BY <1>1, <1>2, <1>7, <1>11, <1>12, <1>21 DEF ServedOK
  <2>2. Pending = Rest(W) \cup Rest(f)  BY <1>1, <1>4 DEF Pending
  <2>3. Pending' = Rest(W) \cup (Rest(f) \ GapSpan(f))  BY <1>10, <1>11, <1>12 DEF Pending
  <2>4. ASSUME ~Failed', NEW x \in Asked, x \notin Pending' PROVE buf'[x] = Freshest(x)'
    <3>1. exists => downRes = "SUCCESS" /\ f.res = "SUCCESS" /\ res = "SUCCESS"
      BY <2>4, <1>7, <1>11, <1>12, <1>19, <1>21 DEF Failed, Reading
    <3>2. ~Failed  BY <3>1, <1>1 DEF Failed
    <3>3. Freshest(x)' = Freshest(x)  BY <1>12 DEF Freshest
    <3>4. x \in Positions  BY <1>0, AskedPositions
    <3>5. CASE x \in GapSpan(f)
      <4>1. x \notin writeCache /\ first[x] = "none"  BY <3>4, <3>5, <1>4, <1>6 DEF Held
      <4>2. Freshest(x) = IF exists THEN "D" ELSE "J"  BY <4>1 DEF Freshest
      <4>3. buf'[x] = IF downRes = "SUCCESS" THEN "D" ELSE "J"  BY <3>4, <3>5, <1>2, <1>6
      <4> QED BY <4>2, <4>3, <3>1, <3>3, <1>2
    <3>6. CASE x \notin GapSpan(f)
      <4>1. buf[x] = Freshest(x)  BY <3>2, <3>6, <2>2, <2>3, <2>4, <1>21 DEF ServedOK
      <4>2. buf'[x] = buf[x]  BY <3>4, <3>6, <1>2, <1>6
      <4> QED BY <4>1, <4>2, <3>3
    <3> QED BY <3>5, <3>6
  <2> QED BY <2>1, <2>4, <1>15 DEF ServedOK
<1> QED BY <1>0, <1>14, <1>16, <1>17, <1>18, <1>20, <1>21 DEF GetInv, LoggedOK

LEMMA PutPageInv == ASSUME GetInv, PutPage PROVE GetInv'
<1>0. TypeOK /\ FramesOK /\ ReadCacheOK /\ PutOK /\ LoggedOK  BY DEF GetInv
<1>1. PICK i, q, n, k, p : /\ i = put.index /\ q = put.pagePos /\ n = put.remainLen
                           /\ k = StepLen(put) /\ p = i * PageBodySize + q
  OBVIOUS
<1>2. /\ pc = "put" /\ n > 0 /\ n \in Nat /\ i \in Nat /\ q \in 0 .. PageBodySize - 1
      /\ put.byte \in {"R", "J", "none"}
  BY <1>0, <1>1 DEF PutPage, TypeOK
<1>3. PageBodySize \in Nat \ {0} /\ p \in Nat
  <2>1. PageBodySize \in Nat \ {0}  BY TieredGetAssumption
  <2>2. i * PageBodySize \in Nat  BY <2>1, <1>2
  <2> QED BY <2>1, <2>2, <1>1, <1>2
<1>4. k \in 1 .. n /\ q + k <= PageBodySize /\ (k < n => q + k = PageBodySize)
  BY <1>1, <1>2, <1>3 DEF StepLen
<1>5. /\ (q + k) % PageBodySize \in 0 .. PageBodySize - 1
      /\ k < n => (i + 1) * PageBodySize + ((q + k) % PageBodySize) = p + k
  <2>1. k \in Nat  BY <1>2, <1>4
  <2>2. /\ (q + k) % PageBodySize \in 0 .. PageBodySize - 1
        /\ q + k = PageBodySize =>
               (i + 1) * PageBodySize + ((q + k) % PageBodySize) = i * PageBodySize + q + k
    BY <2>1, <1>2, <1>4, NextPage
  <2> QED BY <2>2, <1>1, <1>4
<1>6. /\ put'.index = i + 1 /\ put'.pagePos = (q + k) % PageBodySize /\ put'.remainLen = n - k
      /\ put'.byte = put.byte
      /\ put' = [put EXCEPT !.remainLen = n - k, !.index = i + 1,
                            !.pagePos = (q + k) % PageBodySize]
  BY <1>0, <1>1 DEF PutPage, Advance, TypeOK
<1>7. readCache' = [x \in Positions |-> IF x \in p .. p + k - 1 THEN put.byte ELSE readCache[x]]
  BY <1>1 DEF PutPage
<1>8. UNCHANGED <<writeCache, exists, frame, pc, buf, res, first>> /\ W' = W /\ R' = R
  BY DEF PutPage, W, R
<1>9. \A x \in p .. p + n - 1 : x \in Span(R) /\ first[x] = "none"
  BY <1>0, <1>1, <1>2 DEF PutOK
<1>10. \A x \in p .. p + k - 1 : x \in p .. p + n - 1  BY <1>2, <1>3, <1>4
<1>11. TypeOK'
  <2>1. n - k \in Nat /\ i + 1 \in Nat  BY <1>2, <1>4
  <2>2. put' \in [index : Nat, pagePos : 0 .. PageBodySize - 1, remainLen : Nat,
                  byte : {"R", "J", "none"}]
    BY <2>1, <1>0, <1>5, <1>6 DEF TypeOK
  <2>3. readCache' \in [Positions -> {"R", "J", "none"}]  BY <1>0, <1>2, <1>7 DEF TypeOK
  <2> QED BY <2>2, <2>3, <1>0, <1>8 DEF TypeOK
<1>12. Asked' = Asked  BY <1>8 DEF Asked
<1>13. FramesOK'  BY <1>0, <1>8, <1>12 DEF FramesOK, Held
<1>14. ReadCacheOK'
  <2> SUFFICES ASSUME NEW x \in Positions, readCache'[x] # first[x]
               PROVE  first[x] = "none" /\ x \notin Rest(W)
    BY <1>2, <1>8 DEF ReadCacheOK
  <2>1. CASE x \in p .. p + k - 1
    <3>1. x \in Span(R) /\ first[x] = "none"  BY <2>1, <1>9, <1>10
    <3>2. Span(R) \cap Rest(W) = {}  BY <1>0, <1>2 DEF FramesOK, Reading
    <3> QED BY <3>1, <3>2
  <2>2. CASE x \notin p .. p + k - 1
    <3>1. readCache[x] # first[x]  BY <2>2, <1>7
    <3> QED BY <3>1, <1>0 DEF ReadCacheOK
  <2> QED BY <2>1, <2>2
<1>15. PutOK'
  <2> SUFFICES ASSUME n - k > 0,
                      NEW x \in put'.index * PageBodySize + put'.pagePos ..
                                put'.index * PageBodySize + put'.pagePos + put'.remainLen - 1
               PROVE  x \in Span(R) /\ first[x] = "none"
    BY <1>6, <1>8 DEF PutOK
  <2>1. put'.index * PageBodySize + put'.pagePos = p + k  BY <1>2, <1>4, <1>5, <1>6
  <2>2. x \in p + k .. p + k + (n - k) - 1  BY <2>1, <1>6
  <2>3. x \in p .. p + n - 1  BY <2>2, <1>2, <1>3, <1>4
  <2> QED BY <2>3, <1>9
<1>16. ASSUME PureOK PROVE PureOK'
  <2>1. put.byte = "R"  BY <1>1, <1>2, <1>16 DEF PureOK
  <2> QED BY <2>1, <1>6, <1>7, <1>16 DEF PureOK
<1>17. ASSUME ServedOK PROVE ServedOK'
  <2>1. Pending' = Pending  BY <1>2, <1>8 DEF Pending
  <2> QED BY <1>17, <2>1, <1>8, <1>12, ServedStep DEF Failed, ServedOK
<1> QED BY <1>0, <1>11, <1>13, <1>14, <1>15, <1>16, <1>17 DEF GetInv, LoggedOK

LEMMA PutDoneInv == ASSUME GetInv, PutDone PROVE GetInv'
<1>0. TypeOK /\ FramesOK /\ ReadCacheOK /\ PutOK /\ LoggedOK  BY DEF GetInv
<1>1. UNCHANGED <<writeCache, readCache, exists, frame, buf, res, put, first>>
      /\ pc = "put" /\ pc' = "r_gaps" /\ W' = W /\ R' = R /\ Asked' = Asked
  BY DEF PutDone, W, R, Asked
<1>2. TypeOK'  BY <1>0, <1>1 DEF TypeOK
<1>3. FramesOK'  BY <1>0, <1>1 DEF FramesOK, Reading, Held
<1>4. ReadCacheOK' /\ PutOK' /\ (PureOK => PureOK')
  BY <1>0, <1>1 DEF ReadCacheOK, PutOK, PureOK
<1>5. ASSUME ServedOK PROVE ServedOK'
  <2>1. Pending' = Pending  BY <1>1 DEF Pending
  <2>2. ~Failed' => ~Failed  BY <1>1 DEF Failed, Reading
  <2> QED BY <1>5, <2>1, <2>2, <1>1, ServedStep DEF ServedOK
<1> QED BY <1>0, <1>2, <1>3, <1>4, <1>5 DEF GetInv, LoggedOK

LEMMA ReadDoneInv == ASSUME GetInv, ReadDone PROVE GetInv'
<1>0. TypeOK /\ FramesOK /\ ReadCacheOK /\ PutOK /\ LoggedOK  BY DEF GetInv
<1>1. UNCHANGED <<writeCache, readCache, exists, frame, buf, put, first>>
      /\ pc = "r_gaps" /\ pc' = "w_gaps" /\ W' = W /\ R' = R /\ Asked' = Asked
      /\ R.remainLen = 0
      /\ res' = IF R.res \in {"SUCCESS", "ENOENT"} THEN res ELSE R.res
  BY DEF ReadDone, W, R, Asked
<1>2. TypeOK'
  <2>1. R.res \in {"SUCCESS", "EIO", "ENOENT"}  BY <1>0, Typed DEF Frames
  <2>2. res' \in {"SUCCESS", "EIO"}  BY <2>1, <1>0, <1>1 DEF TypeOK
  <2> QED BY <2>2, <1>0, <1>1 DEF TypeOK
<1>3. FramesOK'  BY <1>0, <1>1 DEF FramesOK, Reading, Held
<1>4. ReadCacheOK' /\ PutOK' /\ (PureOK => PureOK')
  BY <1>0, <1>1 DEF ReadCacheOK, PutOK, PureOK
<1>5. ASSUME ServedOK PROVE ServedOK'
  <2>1. Rest(R) = {}  BY <1>1 DEF Rest, Missing
  <2>2. Pending \subseteq Pending'  BY <2>1, <1>1 DEF Pending
  <2>3. ASSUME ~Failed', exists PROVE res = "SUCCESS" /\ R.res = "SUCCESS"
    <3>1. res' = "SUCCESS"  BY <2>3, <1>1 DEF Failed
    <3>2. R.res # "ENOENT"  BY <2>3, <1>5 DEF ServedOK
    <3> QED BY <3>1, <3>2, <1>1
  <2>4. ~Failed' => ~Failed  BY <2>3 DEF Failed
  <2>5. exists' => R'.res # "ENOENT"  BY <1>1, <1>5 DEF ServedOK
  <2> QED BY <1>5, <2>2, <2>4, <2>5, <1>1, ServedStep
<1> QED BY <1>0, <1>2, <1>3, <1>4, <1>5 DEF GetInv, LoggedOK

LEMMA WriteDoneInv == ASSUME GetInv, WriteDone PROVE GetInv'
<1>0. TypeOK /\ FramesOK /\ ReadCacheOK /\ PutOK /\ LoggedOK  BY DEF GetInv
<1>1. UNCHANGED <<writeCache, readCache, exists, frame, buf, res, put, first>>
      /\ pc = "w_gaps" /\ pc' = "done" /\ W' = W /\ R' = R /\ Asked' = Asked
      /\ W.remainLen = 0
  BY DEF WriteDone, W, R, Asked
<1>2. TypeOK'  BY <1>0, <1>1 DEF TypeOK
<1>3. FramesOK'  BY <1>0, <1>1 DEF FramesOK, Reading
<1>4. ReadCacheOK' /\ PutOK' /\ (PureOK => PureOK')
  BY <1>0, <1>1 DEF ReadCacheOK, PutOK, PureOK
<1>5. ASSUME ServedOK PROVE ServedOK'
  <2>1. Pending' = Pending  BY <1>1 DEF Pending
  <2>2. ~Failed' => ~Failed  BY <1>1 DEF Failed, Reading
  <2> QED BY <1>5, <2>1, <2>2, <1>1, ServedStep DEF ServedOK
<1> QED BY <1>0, <1>2, <1>3, <1>4, <1>5 DEF GetInv, LoggedOK

LEMMA NextInv == ASSUME GetInv, [Next]_vars PROVE GetInv'
<1>1. CASE UNCHANGED vars
  BY <1>1 DEF vars, GetInv, TypeOK, FramesOK, ReadCacheOK, PutOK, LoggedOK, PureOK, ServedOK,
              W, R, Asked, Held, Pending, Freshest, Failed
<1>2. CASE Next
  BY <1>2, WritePageInv, WriteReportInv, WritePagesDoneInv, WriteSumInv, WriteSumDoneInv,
     WriteNoGapInv, WriteGapInv, WriteDoneInv, ReadPageInv, ReadReportInv, ReadPagesDoneInv,
     ReadNoGapInv, ReadGapInv, ReadDoneInv, PutPageInv, PutDoneInv
     DEF Next
<1> QED BY <1>1, <1>2

\* The frames, the read cache and the buffer of a Get, in every state of it.
THEOREM GetInvariant == Spec => []GetInv
BY InitInv, NextInv, PTL DEF Spec

------------------------------------------------------------------------------
\* No unsigned length of the two tiers ever wraps, and the cursor of a loop over the
\* gaps never passes the segment it heads for.
THEOREM LengthsNeverWrap == Spec => []NoUnderflow
<1>1. ASSUME GetInv PROVE NoUnderflow
  <2>1. TypeOK /\ FramesOK  BY <1>1 DEF GetInv
  <2>2. ASSUME NEW f \in Frames, NEW V, GapsOK(f, V) PROVE GapLen(f) >= 0
    <3>1. CASE f.remainLen > 0
      <4>1. GapLen(f) \in 0 .. f.remainLen  BY <3>1, <2>2, GapTurn
      <4> QED BY <4>1
    <3>2. CASE ~(f.remainLen > 0)
      <4>1. f.remainLen = 0 /\ f.stepStart \in Nat  BY <3>2, <2>2 DEF Frames
      <4>2. CASE Cursor(f)
        <5>1. f.dataBoundary[f.it] \in Segments /\ f.stepStart <= f.dataBoundary[f.it][1]
          BY <4>2, <2>2, SegmentAhead
        <5>2. GapLen(f) = f.dataBoundary[f.it][1] - f.stepStart  BY <4>2 DEF GapLen
        <5>3. f.dataBoundary[f.it][1] \in Nat  BY <5>1 DEF Segments
        <5> QED BY <4>1, <5>1, <5>2, <5>3
      <4>3. CASE ~Cursor(f)  BY <4>1, <4>3 DEF GapLen
      <4> QED BY <4>2, <4>3
    <3> QED BY <3>1, <3>2
  <2>3. pc = "w_gaps" => GapLen(frame["w"]) >= 0
    BY <2>1, <2>2, Typed DEF FramesOK
  <2>4. pc = "r_gaps" => GapLen(frame["r"]) >= 0
    BY <2>1, <2>2, Typed DEF FramesOK
  <2>5. \A tier \in Tiers : /\ frame[tier].remainLen \in 0 .. frame[tier].len
                            /\ frame[tier].stepStart \in 0 .. frame[tier].len
    BY <2>1, Typed DEF Tiers
  <2> QED BY <2>3, <2>4, <2>5 DEF NoUnderflow
<1> QED BY <1>1, GetInvariant, PTL

\* A Get that succeeds has served every byte from the freshest tier that has it.
THEOREM GetServesFreshest == ASSUME EnableLogging PROVE Spec => []ServedFreshest
<1>1. ASSUME GetInv PROVE ServedFreshest
  <2> SUFFICES ASSUME pc = "done", res = "SUCCESS", NEW x \in Asked
               PROVE  buf[x] = IF x \in writeCache THEN "W"
                               ELSE IF first[x] # "none" THEN first[x]
                               ELSE IF exists THEN "D" ELSE "J"
    BY DEF ServedFreshest
  <2>1. ServedOK /\ W.remainLen = 0  BY <1>1 DEF GetInv, LoggedOK, FramesOK
  <2>2. Pending = {}  BY <2>1 DEF Pending, Rest, Missing
  <2>3. ~Failed  BY DEF Failed, Reading
  <2> QED BY <2>1, <2>2, <2>3 DEF ServedOK, Freshest
<1> QED BY <1>1, GetInvariant, PTL

\* What a failed download left in the buffer never gets into the read cache.
THEOREM ReadCacheStaysPure == ASSUME EnableLogging PROVE Spec => []ReadCachePure
<1>1. ASSUME GetInv PROVE ReadCachePure  BY <1>1 DEF GetInv, LoggedOK, PureOK, ReadCachePure
<1> QED BY <1>1, GetInvariant, PTL
==============================================================================
