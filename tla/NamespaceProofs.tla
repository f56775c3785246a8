--------------------------- MODULE NamespaceProofs ---------------------------
(***************************************************************************)
(* Proofs about the module Namespace: a rename keeps the content of files. *)
(*                                                                         *)
(* The steps a call has still to take are a list that the handlers build   *)
(* out of lists; a few of them rely on one before them.  The delete of a   *)
(* rename relies on the copy; the copy, the branch on the kind of a path   *)
(* and MergeOrgMeta rely on the answer of get_object_attribute.  The proof *)
(* follows these two through the interpreter: Given, Unbroken, Exposed.    *)
(***************************************************************************)
EXTENDS Namespace, FiniteSetTheorems, SequenceTheorems, WellFoundedInduction, TLAPS

------------------------------------------------------------------------------
(* Sequences whose elements are of many shapes.                            *)
IsSeq(s) == s \in Seq({s[i] : i \in DOMAIN s})

\* A sequence over any set is one.
LEMMA SeqIs ==
    ASSUME NEW S, NEW s \in Seq(S)
    PROVE  IsSeq(s) /\ Len(s) \in Nat /\ DOMAIN s = 1 .. Len(s)
BY DEF IsSeq

\* Its length and its domain.
LEMMA SeqFacts ==
    ASSUME NEW s, IsSeq(s)
    PROVE  /\ Len(s) \in Nat /\ DOMAIN s = 1 .. Len(s)
           /\ s = <<>> <=> Len(s) = 0
BY DEF IsSeq

\* Two sequences are sequences over a common set.
LEMMA SeqBoth ==
    ASSUME NEW s, NEW u, IsSeq(s), IsSeq(u)
    PROVE  LET A == {s[i] : i \in DOMAIN s} \cup {u[i] : i \in DOMAIN u}
           IN  s \in Seq(A) /\ u \in Seq(A)
<1> DEFINE A == {s[i] : i \in DOMAIN s} \cup {u[i] : i \in DOMAIN u}
<1>1. s \in Seq(A)
  <2>1. s \in [1 .. Len(s) -> {s[i] : i \in DOMAIN s}] /\ Len(s) \in Nat  BY DEF IsSeq
  <2>2. s \in [1 .. Len(s) -> A]  BY <2>1
  <2> QED BY <2>1, <2>2
<1>2. u \in Seq(A)
  <2>1. u \in [1 .. Len(u) -> {u[i] : i \in DOMAIN u}] /\ Len(u) \in Nat  BY DEF IsSeq
  <2>2. u \in [1 .. Len(u) -> A]  BY <2>1
  <2> QED BY <2>1, <2>2
<1> QED BY <1>1, <1>2

\* The concatenation of two sequences, element by element.
LEMMA ConcatFacts ==
    ASSUME NEW s, NEW u, IsSeq(s), IsSeq(u)
    PROVE  /\ IsSeq(s \o u) /\ Len(s \o u) = Len(s) + Len(u)
           /\ \A i \in 1 .. Len(s) : (s \o u)[i] = s[i]
           /\ \A i \in Len(s) + 1 .. Len(s) + Len(u) : (s \o u)[i] = u[i - Len(s)]
<1>1. PICK A : s \in Seq(A) /\ u \in Seq(A)  BY SeqBoth
<1>2. s \o u \in Seq(A)  BY <1>1
<1>3. IsSeq(s \o u)  BY <1>2, SeqIs
<1> QED BY <1>1, <1>3

\* Concatenation is associative.
LEMMA SeqAssoc ==
    ASSUME NEW a, NEW h, NEW x, IsSeq(a), IsSeq(h), IsSeq(x)
    PROVE  (a \o h) \o x = a \o (h \o x)
<1> DEFINE A(z) == {z[i] : i \in DOMAIN z}
           S == (A(a) \cup A(h)) \cup A(x)
<1>1. a \in Seq(S) /\ h \in Seq(S) /\ x \in Seq(S)
  <2>1. ASSUME NEW z, IsSeq(z), A(z) \subseteq S PROVE z \in Seq(S)
    <3>1. z \in Seq(A(z))  BY <2>1 DEF IsSeq
    <3> HIDE DEF A, S
    <3>2. Len(z) \in Nat /\ z \in [1 .. Len(z) -> A(z)]  BY <3>1
    <3>3. z \in [1 .. Len(z) -> S]  BY <2>1, <3>2
    <3> QED BY <3>2, <3>3
  <2>2. A(a) \subseteq S /\ A(h) \subseteq S /\ A(x) \subseteq S
    <3> HIDE DEF A
    <3> QED OBVIOUS
  <2> HIDE DEF A, S
  <2> QED BY <2>1, <2>2
<1> HIDE DEF S
<1> QED BY <1>1, ConcatAssociative

\* What is left after the first element.
LEMMA TailFacts ==
    ASSUME NEW s, IsSeq(s), s # <<>>
    PROVE  /\ IsSeq(Tail(s)) /\ Len(s) >= 1 /\ Len(Tail(s)) = Len(s) - 1 /\ Head(s) = s[1]
           /\ \A i \in 1 .. Len(s) - 1 : Tail(s)[i] = s[i + 1]
<1>1. PICK A : s \in Seq(A)  BY DEF IsSeq
<1>2. Tail(s) \in Seq(A)  BY <1>1
<1>3. IsSeq(Tail(s))  BY <1>2, SeqIs
<1> QED BY <1>1, <1>3

\* What is left from the element m on.
LEMMA FromFacts ==
    ASSUME NEW s, IsSeq(s), NEW m \in 1 .. Len(s)
    PROVE  LET u == SubSeq(s, m, Len(s))
           IN  /\ IsSeq(u) /\ Len(u) = Len(s) - m + 1
               /\ \A i \in 1 .. Len(u) : u[i] = s[m + i - 1]
<1>1. PICK A : s \in Seq(A)  BY DEF IsSeq
<1>2. Len(s) \in Nat /\ m \in Int /\ \A i \in m .. Len(s) : s[i] \in A  BY <1>1
<1>3. SubSeq(s, m, Len(s)) \in Seq(A)  BY <1>1, <1>2
<1>4. IsSeq(SubSeq(s, m, Len(s)))  BY <1>3, SeqIs
<1> QED BY <1>1, <1>2, <1>4

\* Short sequences.
LEMMA TupleFacts ==
    /\ IsSeq(<<>>) /\ Len(<<>>) = 0
    /\ \A a : IsSeq(<<a>>) /\ Len(<<a>>) = 1 /\ <<a>>[1] = a
    /\ \A a, b : IsSeq(<<a, b>>) /\ Len(<<a, b>>) = 2 /\ <<a, b>>[1] = a /\ <<a, b>>[2] = b
<1>1. IsSeq(<<>>)  BY DEF IsSeq
<1>2. ASSUME NEW a PROVE IsSeq(<<a>>)
  <2>1. <<a>> \in Seq({a})  OBVIOUS
  <2> QED BY <2>1, SeqIs
<1>3. ASSUME NEW a, NEW b PROVE IsSeq(<<a, b>>)
  <2>1. <<a, b>> \in Seq({a, b})  OBVIOUS
  <2> QED BY <2>1, SeqIs
<1> QED BY <1>1, <1>2, <1>3

------------------------------------------------------------------------------
(* What relies on what.                                                    *)
Sorts == {"got", "del"}

Blocks == {"try", "ifdir", "iftype", "ifnew", "ifolddir", "mvgo", "mvlist", "mvlook", "mvfiles",
           "barrier", "mark"}

\* A step that relies on the answer for c, or on the copy of c ("del"); p is the
\* path of the call.
Asks(s, k, c, p) ==
    \/ k = "del" /\ s[1] = "delete" /\ s[2] = c
    \/ k = "del" /\ s[1] = "try" /\ \E i \in DOMAIN s[2] : s[2][i] = <<"delete", c>>
    \/ k = "got" /\ s[1] \in {"copy", "merge"} /\ s[2] = c
    \/ k = "got" /\ s[1] = "ifdir" /\ c = p

Gives(s, k, c) ==
    \/ k = "del" /\ s[1] = "copy" /\ s[2] = c
    \/ k = "got" /\ s[1] \in {"attr", "fill"} /\ s[2] = c /\ s[5] = "must"

\* A step after which nothing given before counts any more.
Breaks(s, k) ==
    \/ s[1] \in Blocks
    \/ k = "got" /\ s[1] \in {"attr", "fill"}
    \/ k = "del" /\ s[1] \in {"flushopen", "rowflush", "upload", "bgflush", "pending"}

Given(seq, i, k, c) ==
    \E j \in 1 .. i - 1 : Gives(seq[j], k, c) /\ \A m \in j + 1 .. i - 1 : ~Breaks(seq[m], k)

Unbroken(seq, i, k) == \A j \in 1 .. i - 1 : ~Breaks(seq[j], k)

\* Whatever a step of seq relies on is given by one before it; or at least
\* nothing before it takes away what was given before seq began (Exposed).
Strong(seq, p) ==
    \A i \in 1 .. Len(seq), k \in Sorts, c \in Paths :
        Asks(seq[i], k, c, p) => Given(seq, i, k, c)

Weak(seq, p) ==
    \A i \in 1 .. Len(seq), k \in Sorts, c \in Paths :
        Asks(seq[i], k, c, p) => Given(seq, i, k, c) \/ Unbroken(seq, i, k)

Exposed(seq, p, k) ==
    {c \in Paths : \E i \in 1 .. Len(seq) :
        Asks(seq[i], k, c, p) /\ Unbroken(seq, i, k) /\ ~Given(seq, i, k, c)}

\* A list that is Strong leaves nothing exposed.
LEMMA StrongIsWeak ==
    ASSUME NEW s, NEW p, Strong(s, p)
    PROVE  Weak(s, p) /\ \A k \in Sorts : Exposed(s, p, k) = {}
BY DEF Strong, Weak, Exposed

\* What is given in the first part of a concatenation, or in the second.
LEMMA GivenConcat ==
    ASSUME NEW a, NEW b, IsSeq(a), IsSeq(b), NEW k, NEW c
    PROVE  /\ \A i \in 1 .. Len(a) : /\ Given(a \o b, i, k, c) <=> Given(a, i, k, c)
                                     /\ Unbroken(a \o b, i, k) <=> Unbroken(a, i, k)
           /\ \A i \in 1 .. Len(b) : Given(b, i, k, c) => Given(a \o b, Len(a) + i, k, c)
           /\ \A i \in 1 .. Len(b) : Unbroken(a \o b, Len(a) + i, k) => Unbroken(b, i, k)
<1> DEFINE s == a \o b
<1>1. /\ Len(a) \in Nat /\ Len(b) \in Nat /\ \A i \in 1 .. Len(a) : s[i] = a[i]
      /\ \A i \in Len(a) + 1 .. Len(a) + Len(b) : s[i] = b[i - Len(a)]
  BY ConcatFacts, SeqFacts
<1>2. \A i \in 1 .. Len(b) : s[Len(a) + i] = b[i]
  <2> TAKE i \in 1 .. Len(b)
  <2>1. Len(a) + i \in Len(a) + 1 .. Len(a) + Len(b) /\ (Len(a) + i) - Len(a) = i  BY <1>1
  <2> QED BY <1>1, <2>1
<1> HIDE DEF s
<1>3. \A i \in 1 .. Len(a) : /\ Given(s, i, k, c) <=> Given(a, i, k, c)
                             /\ Unbroken(s, i, k) <=> Unbroken(a, i, k)
  <2> TAKE i \in 1 .. Len(a)
  <2>1. \A j \in 1 .. i - 1 : s[j] = a[j]  BY <1>1
  <2>2. \A j \in 1 .. i - 1 : \A m \in j + 1 .. i - 1 : s[m] = a[m]  BY <1>1
  <2> QED BY <2>1, <2>2 DEF Given, Unbroken
<1>4. ASSUME NEW i \in 1 .. Len(b), Given(b, i, k, c) PROVE Given(s, Len(a) + i, k, c)
  <2>1. PICK j \in 1 .. i - 1 : Gives(b[j], k, c) /\ \A m \in j + 1 .. i - 1 : ~Breaks(b[m], k)
    BY <1>4 DEF Given
  <2>2. Len(a) + j \in 1 .. (Len(a) + i) - 1 /\ Gives(s[Len(a) + j], k, c)  BY <1>1, <1>2, <2>1
  <2>3. ASSUME NEW m \in Len(a) + j + 1 .. (Len(a) + i) - 1 PROVE ~Breaks(s[m], k)
    <3>1. m - Len(a) \in j + 1 .. i - 1 /\ m - Len(a) \in 1 .. Len(b) /\ Len(a) + (m - Len(a)) = m  BY <1>1
    <3>2. s[m] = b[m - Len(a)]  BY <1>2, <3>1
    <3> QED BY <2>1, <3>1, <3>2
  <2> QED BY <2>2, <2>3 DEF Given
<1>5. ASSUME NEW i \in 1 .. Len(b), Unbroken(s, Len(a) + i, k) PROVE Unbroken(b, i, k)
  <2>1. ASSUME NEW j \in 1 .. i - 1 PROVE ~Breaks(b[j], k)
    <3>1. Len(a) + j \in 1 .. (Len(a) + i) - 1 /\ j \in 1 .. Len(b)  BY <1>1
    <3>2. s[Len(a) + j] = b[j]  BY <1>2, <3>1
    <3> QED BY <1>5, <3>1, <3>2 DEF Unbroken
  <2> QED BY <2>1 DEF Unbroken
<1> QED BY <1>3, <1>4, <1>5 DEF s

\* The elements of a concatenation.
LEMMA ConcatCases ==
    ASSUME NEW a, NEW b, IsSeq(a), IsSeq(b)
    PROVE  \A i \in 1 .. Len(a \o b) :
             \/ i \in 1 .. Len(a) /\ (a \o b)[i] = a[i]
             \/ \E j \in 1 .. Len(b) : i = Len(a) + j /\ (a \o b)[i] = b[j]
<1> TAKE i \in 1 .. Len(a \o b)
<1>1. /\ Len(a) \in Nat /\ Len(b) \in Nat /\ Len(a \o b) = Len(a) + Len(b)
      /\ \A n \in 1 .. Len(a) : (a \o b)[n] = a[n]
      /\ \A n \in Len(a) + 1 .. Len(a) + Len(b) : (a \o b)[n] = b[n - Len(a)]
  BY ConcatFacts, SeqFacts
<1>2. CASE i \in 1 .. Len(a)  BY <1>1, <1>2
<1>3. CASE i \in Len(a) + 1 .. Len(a) + Len(b)
  <2>1. i - Len(a) \in 1 .. Len(b) /\ i = Len(a) + (i - Len(a)) /\ (a \o b)[i] = b[i - Len(a)]
    BY <1>1, <1>3
  <2> QED BY <2>1
<1> QED BY <1>1, <1>2, <1>3

\* Appending a list that relies on nothing outside it.
LEMMA WeakConcat ==
    ASSUME NEW a, NEW b, IsSeq(a), IsSeq(b), NEW p, Strong(b, p)
    PROVE  /\ Strong(a, p) => Strong(a \o b, p)
           /\ Weak(a, p) => /\ Weak(a \o b, p)
                            /\ \A k \in Sorts : Exposed(a \o b, p, k) \subseteq Exposed(a, p, k)
<1> DEFINE s == a \o b
<1>0. \A i \in 1 .. Len(s) : \/ i \in 1 .. Len(a) /\ s[i] = a[i]
                           \/ \E j \in 1 .. Len(b) : i = Len(a) + j /\ s[i] = b[j]
  BY ConcatCases
<1>1. ASSUME NEW i \in 1 .. Len(s), NEW k \in Sorts, NEW c \in Paths, Asks(s[i], k, c, p)
      PROVE  \/ i \in 1 .. Len(a) /\ Asks(a[i], k, c, p)
             \/ Given(s, i, k, c)
  <2>1. CASE i \in 1 .. Len(a) /\ s[i] = a[i]  BY <1>1, <2>1
  <2>2. ASSUME NEW j \in 1 .. Len(b), i = Len(a) + j, s[i] = b[j] PROVE Given(s, i, k, c)
    <3>1. Given(b, j, k, c)  BY <1>1, <2>2 DEF Strong
    <3> QED BY <2>2, <3>1, GivenConcat
  <2> QED BY <1>0, <2>1, <2>2
<1>2. \A i \in 1 .. Len(a), k \in Sorts, c \in Paths :
          /\ Given(s, i, k, c) <=> Given(a, i, k, c)
          /\ Unbroken(s, i, k) <=> Unbroken(a, i, k)
  BY GivenConcat
<1> HIDE DEF s
<1>3. Strong(a, p) => Strong(s, p)  BY <1>1, <1>2 DEF Strong
<1>4. Weak(a, p) => Weak(s, p)  BY <1>1, <1>2 DEF Weak
<1>5. \A k \in Sorts : Exposed(s, p, k) \subseteq Exposed(a, p, k)  BY <1>1, <1>2 DEF Exposed
<1> QED BY <1>3, <1>4, <1>5 DEF s

\* Taking the first step: what it gave may now be exposed, and of the sorts that
\* it breaks only that.
LEMMA WeakTail ==
    ASSUME NEW s, IsSeq(s), s # <<>>, NEW p, Weak(s, p)
    PROVE  /\ Weak(Tail(s), p)
           /\ \A k \in Sorts : \A c \in Exposed(Tail(s), p, k) :
                  Gives(s[1], k, c) \/ (c \in Exposed(s, p, k) /\ ~Breaks(s[1], k))
<1> DEFINE u == Tail(s)
<1>1. /\ Len(s) \in Nat /\ Len(s) >= 1 /\ Len(u) = Len(s) - 1
      /\ \A i \in 1 .. Len(u) : u[i] = s[i + 1] /\ i + 1 \in 1 .. Len(s)
  BY TailFacts, SeqFacts
<1> HIDE DEF u
<1>2. ASSUME NEW i \in 1 .. Len(u), NEW k, NEW c, Given(s, i + 1, k, c)
      PROVE  Given(u, i, k, c) \/ (Gives(s[1], k, c) /\ Unbroken(u, i, k))
  <2>1. PICK j \in 1 .. (i + 1) - 1 :
            Gives(s[j], k, c) /\ \A m \in j + 1 .. (i + 1) - 1 : ~Breaks(s[m], k)
    BY <1>2 DEF Given
  <2>2. ASSUME NEW m \in j .. i - 1, m >= 1 PROVE ~Breaks(u[m], k)
    <3>1. m + 1 \in j + 1 .. (i + 1) - 1 /\ m \in 1 .. Len(u)  BY <1>1, <2>2
    <3> QED BY <1>1, <2>1, <3>1
  <2>3. CASE j = 1
    <3>1. \A m \in 1 .. i - 1 : ~Breaks(u[m], k)  BY <2>2, <2>3
    <3> QED BY <2>1, <2>3, <3>1 DEF Unbroken
  <2>4. CASE j # 1
    <3>1. j - 1 \in 1 .. i - 1 /\ j - 1 \in 1 .. Len(u) /\ (j - 1) + 1 = j  BY <1>1, <2>4
    <3>2. Gives(u[j - 1], k, c)  BY <1>1, <2>1, <3>1
    <3>3. \A m \in (j - 1) + 1 .. i - 1 : ~Breaks(u[m], k)  BY <2>2, <3>1
    <3> QED BY <3>1, <3>2, <3>3 DEF Given
  <2> QED BY <2>3, <2>4
<1>3. ASSUME NEW i \in 1 .. Len(u), NEW k, Unbroken(s, i + 1, k)
      PROVE  Unbroken(u, i, k) /\ ~Breaks(s[1], k)
  <2>1. 1 \in 1 .. (i + 1) - 1  BY <1>1
  <2>2. ASSUME NEW j \in 1 .. i - 1 PROVE ~Breaks(u[j], k)
    <3>1. j + 1 \in 1 .. (i + 1) - 1 /\ j \in 1 .. Len(u)  BY <1>1
    <3> QED BY <1>1, <1>3, <3>1 DEF Unbroken
  <2> QED BY <1>3, <2>1, <2>2 DEF Unbroken
<1>4. ASSUME NEW i \in 1 .. Len(u), NEW k \in Sorts, NEW c \in Paths, Asks(u[i], k, c, p)
      PROVE  \/ Given(s, i + 1, k, c)
             \/ Unbroken(s, i + 1, k) /\ ~Given(s, i + 1, k, c) /\ c \in Exposed(s, p, k)
  <2>1. Asks(s[i + 1], k, c, p) /\ i + 1 \in 1 .. Len(s)  BY <1>1, <1>4
  <2> QED BY <2>1 DEF Weak, Exposed
<1>5. Weak(u, p)  BY <1>2, <1>3, <1>4 DEF Weak
<1>6. ASSUME NEW k \in Sorts, NEW c \in Exposed(u, p, k)
      PROVE  Gives(s[1], k, c) \/ (c \in Exposed(s, p, k) /\ ~Breaks(s[1], k))
  <2>1. PICK i \in 1 .. Len(u) : Asks(u[i], k, c, p) /\ Unbroken(u, i, k) /\ ~Given(u, i, k, c) /\ c \in Paths
    BY <1>6 DEF Exposed
  <2> QED BY <1>2, <1>3, <1>4, <2>1
<1> QED BY <1>5, <1>6 DEF u

\* A step that breaks everything leaves a list behind it that is Strong.
LEMMA StrongTail ==
    ASSUME NEW s, IsSeq(s), s # <<>>, NEW p, Weak(s, p), s[1][1] \in Blocks
    PROVE  Strong(Tail(s), p)
<1>1. Weak(Tail(s), p) /\ \A k \in Sorts : Exposed(Tail(s), p, k) = {}
  <2>1. \A k \in Sorts, c \in Paths : Breaks(s[1], k) /\ ~Gives(s[1], k, c)
    BY DEF Breaks, Gives, Blocks
  <2>2. \A k \in Sorts : Exposed(Tail(s), p, k) \subseteq Paths  BY DEF Exposed
  <2> QED BY <2>1, <2>2, WeakTail
<1> QED BY <1>1 DEF Strong, Weak, Exposed

\* Steps put in the place of the first one, when they rely on nothing and break
\* no more than it did.
LEMMA WeakPush ==
    ASSUME NEW s, IsSeq(s), s # <<>>, NEW p, Weak(s, p), NEW a, IsSeq(a),
           \A i \in 1 .. Len(a) : \A k, c : ~Asks(a[i], k, c, p),
           \A i \in 1 .. Len(a) : \A k : Breaks(a[i], k) => Breaks(s[1], k),
           \A k, c : ~Gives(s[1], k, c)
    PROVE  /\ Weak(a \o Tail(s), p)
           /\ \A k \in Sorts : Exposed(a \o Tail(s), p, k) \subseteq Exposed(s, p, k)
<1> DEFINE b == Tail(s)
           u == a \o b
<1>1. IsSeq(b) /\ Weak(b, p)  BY TailFacts, WeakTail
<1>2. \A k \in Sorts : \A c \in Exposed(b, p, k) : c \in Exposed(s, p, k) /\ ~Breaks(s[1], k)
  BY WeakTail
<1> HIDE DEF b
<1>3. /\ Len(a) \in Nat /\ Len(b) \in Nat
      /\ \A i \in 1 .. Len(u) : \/ i \in 1 .. Len(a) /\ u[i] = a[i]
                                \/ \E j \in 1 .. Len(b) : i = Len(a) + j /\ u[i] = b[j]
  <2>1. Len(a) \in Nat /\ Len(b) \in Nat  BY <1>1, SeqFacts
  <2>2. \A i \in 1 .. Len(u) : \/ i \in 1 .. Len(a) /\ u[i] = a[i]
                               \/ \E j \in 1 .. Len(b) : i = Len(a) + j /\ u[i] = b[j]
    BY <1>1, ConcatCases
  <2> QED BY <2>1, <2>2
<1>4. \A k, c : \A i \in 1 .. Len(b) : Given(b, i, k, c) => Given(u, Len(a) + i, k, c)
  BY <1>1, GivenConcat
<1>5. Len(u) = Len(a) + Len(b)  BY <1>1, ConcatFacts
<1> HIDE DEF u
<1>6. ASSUME NEW j \in 1 .. Len(b), NEW k, Unbroken(b, j, k), ~Breaks(s[1], k)
      PROVE  Unbroken(u, Len(a) + j, k)
  <2>1. ASSUME NEW m \in 1 .. (Len(a) + j) - 1 PROVE ~Breaks(u[m], k)
    <3>1. m \in 1 .. Len(u)  BY <1>3, <1>5
    <3>2. CASE m \in 1 .. Len(a) /\ u[m] = a[m]  BY <1>6, <3>2
    <3>3. ASSUME NEW n \in 1 .. Len(b), m = Len(a) + n, u[m] = b[n] PROVE ~Breaks(u[m], k)
      <4>1. n \in 1 .. j - 1  BY <1>3, <3>3
      <4> QED BY <1>6, <3>3, <4>1 DEF Unbroken
    <3> QED BY <1>3, <3>1, <3>2, <3>3
  <2> QED BY <2>1 DEF Unbroken
<1>7. ASSUME NEW i \in 1 .. Len(u), NEW k \in Sorts, NEW c \in Paths, Asks(u[i], k, c, p)
      PROVE  Given(u, i, k, c) \/ (Unbroken(u, i, k) /\ c \in Exposed(s, p, k))
  <2>1. PICK j \in 1 .. Len(b) : i = Len(a) + j /\ u[i] = b[j]  BY <1>3, <1>7
  <2>2. CASE Given(b, j, k, c)  BY <1>4, <2>1, <2>2
  <2>3. CASE ~Given(b, j, k, c)
    <3>1. Unbroken(b, j, k)  BY <1>1, <1>7, <2>1, <2>3 DEF Weak
    <3>2. c \in Exposed(b, p, k)  BY <1>7, <2>1, <2>3, <3>1 DEF Exposed
    <3>3. c \in Exposed(s, p, k) /\ ~Breaks(s[1], k)  BY <1>2, <3>2
    <3> QED BY <1>6, <2>1, <3>1, <3>3
  <2> QED BY <2>2, <2>3
<1>8. Weak(u, p)  BY <1>7 DEF Weak
<1>9. \A k \in Sorts : Exposed(u, p, k) \subseteq Exposed(s, p, k)  BY <1>7 DEF Exposed
<1> QED BY <1>8, <1>9 DEF u, b

\* One step in the place of another that gives and breaks the same.
LEMMA WeakReplace ==
    ASSUME NEW s, IsSeq(s), s # <<>>, NEW p, Weak(s, p), NEW x,
           \A k, c : ~Asks(x, k, c, p),
           \A k : Breaks(x, k) <=> Breaks(s[1], k),
           \A k, c : Gives(x, k, c) <=> Gives(s[1], k, c)
    PROVE  /\ Weak(<<x>> \o Tail(s), p)
           /\ \A k \in Sorts : Exposed(<<x>> \o Tail(s), p, k) \subseteq Exposed(s, p, k)
<1> DEFINE u == <<x>> \o Tail(s)
<1>1. /\ IsSeq(<<x>>) /\ Len(<<x>>) = 1 /\ <<x>>[1] = x  BY TupleFacts
<1>2. /\ IsSeq(Tail(s)) /\ Len(s) \in Nat /\ Len(s) >= 1 /\ Len(Tail(s)) = Len(s) - 1
      /\ \A i \in 1 .. Len(s) - 1 : Tail(s)[i] = s[i + 1]
  BY TailFacts, SeqFacts
<1>3. /\ Len(u) = Len(s) /\ u[1] = x
      /\ \A i \in 2 .. Len(s) : u[i] = s[i]
  <2>1. /\ Len(u) = Len(<<x>>) + Len(Tail(s))
        /\ \A i \in 1 .. Len(<<x>>) : u[i] = <<x>>[i]
        /\ \A i \in Len(<<x>>) + 1 .. Len(<<x>>) + Len(Tail(s)) : u[i] = Tail(s)[i - Len(<<x>>)]
    BY <1>1, <1>2, ConcatFacts
  <2>2. ASSUME NEW i \in 2 .. Len(s) PROVE u[i] = s[i]
    <3>1. i \in Len(<<x>>) + 1 .. Len(<<x>>) + Len(Tail(s)) /\ i - 1 \in 1 .. Len(s) - 1  BY <1>1, <1>2
    <3>2. u[i] = Tail(s)[i - 1] /\ Tail(s)[i - 1] = s[(i - 1) + 1] /\ (i - 1) + 1 = i
      BY <1>1, <1>2, <2>1, <3>1
    <3> QED BY <3>2
  <2> QED BY <1>1, <1>2, <2>1, <2>2
<1> HIDE DEF u
<1>4. \A i \in 1 .. Len(s) : /\ \A k : Breaks(u[i], k) <=> Breaks(s[i], k)
                             /\ \A k, c : Gives(u[i], k, c) <=> Gives(s[i], k, c)
                             /\ \A k, c : Asks(u[i], k, c, p) => Asks(s[i], k, c, p)
  <2> TAKE i \in 1 .. Len(s)
  <2>1. CASE i = 1  BY <1>3, <2>1
  <2>2. CASE i \in 2 .. Len(s)  BY <1>3, <2>2
  <2> QED BY <1>2, <2>1, <2>2
<1>5. \A i \in 1 .. Len(s) : \A k, c : /\ Given(u, i, k, c) <=> Given(s, i, k, c)
                                       /\ Unbroken(u, i, k) <=> Unbroken(s, i, k)
  <2> TAKE i \in 1 .. Len(s)
  <2>1. \A j \in 1 .. i - 1 : j \in 1 .. Len(s)  BY <1>2
  <2>2. \A j \in 1 .. i - 1 : \A m \in j + 1 .. i - 1 : m \in 1 .. Len(s)  BY <1>2
  <2> QED BY <1>4, <2>1, <2>2 DEF Given, Unbroken
<1>6. Weak(u, p)  BY <1>3, <1>4, <1>5 DEF Weak
<1>7. \A k \in Sorts : Exposed(u, p, k) \subseteq Exposed(s, p, k)  BY <1>3, <1>4, <1>5 DEF Exposed
<1> QED BY <1>6, <1>7 DEF u

\* What is left from the end of a block on relies on nothing before it.
LEMMA StrongFrom ==
    ASSUME NEW s, IsSeq(s), NEW p, Weak(s, p), NEW m \in 1 .. Len(s), s[m][1] = "mark"
    PROVE  Strong(SubSeq(s, m, Len(s)), p)
<1> DEFINE u == SubSeq(s, m, Len(s))
<1>1. /\ Len(s) \in Nat /\ Len(u) = Len(s) - m + 1
      /\ \A i \in 1 .. Len(u) : u[i] = s[m + i - 1]
  BY FromFacts, SeqFacts
<1> HIDE DEF u
<1>2. \A k, c : Breaks(s[m], k) /\ ~Gives(s[m], k, c) /\ ~Asks(s[m], k, c, p)
  BY DEF Breaks, Gives, Asks, Blocks
<1>3. ASSUME NEW i \in 1 .. Len(u), NEW k \in Sorts, NEW c \in Paths, Asks(u[i], k, c, p)
      PROVE  Given(u, i, k, c)
  <2>1. m + i - 1 \in 1 .. Len(s) /\ Asks(s[m + i - 1], k, c, p)  BY <1>1, <1>3
  <2>2. i # 1  BY <1>2, <2>1
  <2>3. m \in 1 .. (m + i - 1) - 1  BY <1>1, <2>2
  <2>4. Given(s, m + i - 1, k, c)  BY <1>2, <2>1, <2>3 DEF Weak, Unbroken
  <2>5. PICK j \in 1 .. (m + i - 1) - 1 :
            Gives(s[j], k, c) /\ \A n \in j + 1 .. (m + i - 1) - 1 : ~Breaks(s[n], k)
    BY <2>4 DEF Given
  <2>6. j > m
    <3>1. j # m  BY <1>2, <2>5
    <3>2. m \notin j + 1 .. (m + i - 1) - 1  BY <1>2, <2>5
    <3>3. m \in Nat /\ i \in Nat /\ j \in Nat  BY <1>1, <2>5
    <3> QED BY <2>3, <3>1, <3>2, <3>3
  <2>7. j - m + 1 \in 1 .. i - 1 /\ j - m + 1 \in 1 .. Len(u) /\ m + (j - m + 1) - 1 = j
    <3>1. m \in Nat /\ i \in Nat /\ j \in Nat /\ i <= Len(u) /\ j <= m + i - 2 /\ Len(u) \in Nat
      BY <1>1, <2>5
    <3> QED BY <2>6, <3>1
  <2>8. Gives(u[j - m + 1], k, c)  BY <1>1, <2>5, <2>7
  <2>9. ASSUME NEW n \in (j - m + 1) + 1 .. i - 1 PROVE ~Breaks(u[n], k)
    <3>1. m + n - 1 \in j + 1 .. (m + i - 1) - 1 /\ n \in 1 .. Len(u)  BY <1>1, <2>7
    <3> QED BY <1>1, <2>5, <3>1
  <2> QED BY <2>7, <2>8, <2>9 DEF Given
<1>4. Strong(u, p)  BY <1>3 DEF Strong
<1> QED BY <1>4 DEF u

------------------------------------------------------------------------------
(* The steps there are.  r says which call it is: op, p, q and v.          *)
FileSteps == {"upload", "rowflush", "bgflush", "pending", "close", "write", "create",
              "markmeta", "clearpend"}

Plain(s, r) ==
    /\ s[1] \in {"attr", "fill"} => /\ s[5] \in {"open", "kid"} => s[2] \in Files
                                    /\ s[5] = "kid" => Under(r.p, s[2])
                                    /\ s[3] \in Forms
                                    /\ s[5] \in {"must", "may", "absent", "open", "kid",
                                                "type", "typemay"}
    /\ s[1] = "fill" => (s[2] \in Files => s[6].obj.kind # "dir")
    /\ s[1] = "copy" => /\ r.op = "rename" /\ Under(r.p, s[2]) /\ Under(r.q, s[3])
                        /\ s[2] \in Paths /\ s[3] \in Paths
                        /\ (s[2] \in Dirs <=> s[3] \in Dirs)
    /\ s[1] = "fdrename" => /\ s[2] \in Paths /\ s[3] \in Paths
                            /\ (s[2] \in Dirs <=> s[3] \in Dirs)
    /\ s[1] = "delete" => /\ s[2] \in Paths
                          /\ r.op = "unlink" \/ (r.op = "rename" /\ Under(r.p, s[2]))
    /\ s[1] = "del" => s[2] \in Dirs
    /\ s[1] = "putfile" => /\ r.op \in {"mknod", "symlink"} /\ s[2] = r.p /\ r.p \in Files
                           /\ s[3] \in {"file", "link"}
    /\ s[1] = "putdir" => s[2] \notin Files
    /\ s[1] \in FileSteps => s[2] \in Files
    /\ s[1] \in {"flushopen", "ifnew"} => s[2] \in Paths
    /\ s[1] = "merge" => s[2] = r.p /\ r.p \in Paths
    /\ s[1] \in {"mvlist", "mvgo", "mvfiles"} =>
           r.op = "rename" /\ s[2] = r.p /\ s[3] = r.q /\ r.p \in Dirs
    /\ s[1] = "mvlook" => r.op = "rename" /\ s[2] = r.p /\ \A c \in s[3] : c \in Files /\ Under(r.p, c)
    /\ s[1] = "ifolddir" => s[2] \in Dirs
    /\ s[1] \in {"list", "names", "heads"} => r.op # "rename"
    /\ s[1] = "names" => \A c \in DOMAIN s[3] : c \in Paths /\ s[3][c][1] \in Forms
    /\ s[1] = "heads" => /\ s[3] \subseteq Keys
                         /\ \A a \in s[4] : a[1][1] \in Files => a[2].kind # "dir"
    /\ s[1] \notin {"try", "ifdir", "iftype"}

\* Lists of steps without a branch in them.
Quiet(seq, r) ==
    /\ IsSeq(seq)
    /\ \A i \in 1 .. Len(seq) : Plain(seq[i], r) /\ seq[i][1] \notin {"copy", "delete", "merge"}

TypeBlock(s, r) == s[1] = "iftype" /\ Quiet(s[2], r) /\ Quiet(s[3], r)

UpdateBody(d) ==
    chk_dir_object_type(d, "type") \o <<Attr(d, "must")>> \o
        <<<<"iftype", remove_old_type_dir(d, 0), put_headers(d, "/", 0) \o <<<<"delstat", d>>>>>>>>

StepOk(s, r) ==
    \/ Plain(s, r)
    \/ TypeBlock(s, r)
    \/ \E x \in Paths : s = <<"try", UpdateBody(Parent(x)), "drop">>
    \/ s[1] = "try" /\ Quiet(s[2], r)
    \/ r.op = "rename" /\ \E c \in Paths : Under(r.p, c) /\ s = <<"try", s3fs_unlink(c), "keep">>
    \/ r.op = "rename" /\ s = <<"try", rename_object(r.p, r.q), "keep">>
    \/ r.op = "rename" /\ r.p \in Dirs /\ s = <<"try", rename_directory(r.p, r.q), "keep">>
    \/ /\ r.op = "rename"
       /\ s = <<"ifdir", Try(rename_directory(r.p, r.q), "keep"), Try(rename_object(r.p, r.q), "keep")>>
    \/ /\ r.op \in HeaderOps
       /\ \E b : /\ s = <<"ifdir", chk_dir_object_type(r.p, "type") \o <<b>>,
                          <<Attr(r.p, "must"), <<"merge", r.p, r.v>>>>>>
                 /\ r.p \in Dirs => TypeBlock(b, r)

Steps(seq, r) == IsSeq(seq) /\ \A i \in 1 .. Len(seq) : StepOk(seq[i], r)

\* Lists whose steps rely on nothing.
Calm(seq, r) ==
    Steps(seq, r) /\ \A i \in 1 .. Len(seq) : \A k, c : ~Asks(seq[i], k, c, r.p)

\* A name is never below a file.
LEMMA ParentIsDir ==
    ASSUME NEW x \in Paths
    PROVE  Parent(x) \notin Files
<1> DEFINE N == UNION {Range(p) : p \in Paths}
<1>1. x \in Seq(N) /\ x # <<>>  BY NamespaceAssumption DEF Root
<1> HIDE DEF N
<1>2. Len(x) \in Nat /\ Len(x) >= 1  BY <1>1
<1>3. 1 \in Int /\ Len(x) - 1 \in Int /\ \A i \in 1 .. Len(x) - 1 : x[i] \in N  BY <1>1, <1>2
<1>4. Len(Parent(x)) = Len(x) - 1
  <2> DEFINE n == Len(x) - 1
  <2>1. Len(SubSeq(x, 1, n)) = IF 1 <= n THEN n - 1 + 1 ELSE 0
    BY <1>1, <1>3, SubSeqProperties
  <2>2. Len(Parent(x)) = IF 1 <= n THEN n - 1 + 1 ELSE 0  BY <2>1 DEF Parent
  <2>3. n \in Nat  BY <1>2
  <2> HIDE DEF n
  <2>4. Len(Parent(x)) = n  BY <2>2, <2>3
  <2> QED BY <2>4 DEF n
<1>5. Parent(x) # x  BY <1>2, <1>4
<1>6. SUFFICES ASSUME Parent(x) \in Files PROVE FALSE  OBVIOUS
<1>7. x \in Children(Parent(x))  BY <1>5 DEF Children
<1> QED BY <1>6, <1>7, NamespaceAssumption

\* A step without a branch relies on nothing, but for three kinds.
LEMMA PlainAsks ==
    ASSUME NEW s, NEW r, Plain(s, r), s[1] \notin {"copy", "delete", "merge"}
    PROVE  \A k, c : ~Asks(s, k, c, r.p)
BY DEF Plain, Asks

\* Steps without a branch that rely on nothing are calm.
LEMMA QuietIsCalm ==
    ASSUME NEW s, NEW r, Quiet(s, r)
    PROVE  Calm(s, r)
BY PlainAsks DEF Quiet, Calm, Steps, StepOk

\* A list that relies on nothing is Strong.
LEMMA CalmIsStrong ==
    ASSUME NEW s, NEW r, Calm(s, r)
    PROVE  Steps(s, r) /\ Strong(s, r.p)
BY DEF Calm, Strong

\* Handlers are concatenations: the steps of both parts are steps of the call.
LEMMA StepsConcat ==
    ASSUME NEW a, NEW b, NEW r, Steps(a, r), Steps(b, r)
    PROVE  Steps(a \o b, r)
<1>1. IsSeq(a) /\ IsSeq(b) /\ IsSeq(a \o b)  BY ConcatFacts DEF Steps
<1>2. \A i \in 1 .. Len(a \o b) : \/ i \in 1 .. Len(a) /\ (a \o b)[i] = a[i]
                                  \/ \E j \in 1 .. Len(b) : i = Len(a) + j /\ (a \o b)[i] = b[j]
  BY <1>1, ConcatCases
<1> QED BY <1>1, <1>2 DEF Steps

\* Two lists that rely on nothing make one.
LEMMA CalmConcat ==
    ASSUME NEW a, NEW b, NEW r, Calm(a, r), Calm(b, r)
    PROVE  Calm(a \o b, r)
<1>1. IsSeq(a) /\ IsSeq(b) /\ Steps(a \o b, r)  BY StepsConcat DEF Calm, Steps
<1>2. \A i \in 1 .. Len(a \o b) : \/ i \in 1 .. Len(a) /\ (a \o b)[i] = a[i]
                                  \/ \E j \in 1 .. Len(b) : i = Len(a) + j /\ (a \o b)[i] = b[j]
  BY <1>1, ConcatCases
<1> QED BY <1>1, <1>2 DEF Calm

\* The same for lists without a branch.
LEMMA QuietConcat ==
    ASSUME NEW a, NEW b, NEW r, Quiet(a, r), Quiet(b, r)
    PROVE  Quiet(a \o b, r)
<1>1. IsSeq(a) /\ IsSeq(b) /\ IsSeq(a \o b)  BY ConcatFacts DEF Quiet
<1>2. \A i \in 1 .. Len(a \o b) : \/ i \in 1 .. Len(a) /\ (a \o b)[i] = a[i]
                                  \/ \E j \in 1 .. Len(b) : i = Len(a) + j /\ (a \o b)[i] = b[j]
  BY <1>1, ConcatCases
<1> QED BY <1>1, <1>2 DEF Quiet

\* The steps after the first, and the first itself.
LEMMA StepsTail ==
    ASSUME NEW s, NEW r, Steps(s, r), s # <<>>
    PROVE  Steps(Tail(s), r) /\ StepOk(s[1], r) /\ Head(s) = s[1]
<1>1. /\ IsSeq(Tail(s)) /\ Len(s) >= 1 /\ Len(Tail(s)) = Len(s) - 1 /\ Head(s) = s[1] /\ Len(s) \in Nat
      /\ \A i \in 1 .. Len(s) - 1 : Tail(s)[i] = s[i + 1]
  BY TailFacts, SeqFacts DEF Steps
<1>2. \A i \in 1 .. Len(s) - 1 : i + 1 \in 1 .. Len(s)  BY <1>1
<1> QED BY <1>1, <1>2 DEF Steps

\* The steps from any one on, as Strip and Failed leave them.
LEMMA StepsFrom ==
    ASSUME NEW s, NEW r, Steps(s, r), NEW m \in 1 .. Len(s)
    PROVE  Steps(SubSeq(s, m, Len(s)), r)
<1>1. LET u == SubSeq(s, m, Len(s))
      IN  IsSeq(u) /\ Len(u) = Len(s) - m + 1 /\ \A i \in 1 .. Len(u) : u[i] = s[m + i - 1]
  BY FromFacts DEF Steps
<1>2. Len(s) \in Nat  BY SeqFacts DEF Steps
<1>3. \A i \in 1 .. Len(s) - m + 1 : m + i - 1 \in 1 .. Len(s)  BY <1>2
<1> QED BY <1>1, <1>3 DEF Steps

\* Lists of one, two, three steps.
LEMMA Lists ==
    ASSUME NEW r
    PROVE  /\ Quiet(<<>>, r)
           /\ \A a : /\ Plain(a, r) /\ a[1] \notin {"copy", "delete", "merge"} => Quiet(<<a>>, r)
                     /\ StepOk(a, r) => Steps(<<a>>, r)
                     /\ StepOk(a, r) /\ (\A k, c : ~Asks(a, k, c, r.p)) => Calm(<<a>>, r)
           /\ \A a, b : StepOk(a, r) /\ StepOk(b, r) => Steps(<<a, b>>, r)
<1>1. Quiet(<<>>, r)  BY TupleFacts DEF Quiet
<1>2. ASSUME NEW a
      PROVE  /\ Plain(a, r) /\ a[1] \notin {"copy", "delete", "merge"} => Quiet(<<a>>, r)
             /\ StepOk(a, r) => Steps(<<a>>, r)
             /\ StepOk(a, r) /\ (\A k, c : ~Asks(a, k, c, r.p)) => Calm(<<a>>, r)
  <2>1. IsSeq(<<a>>) /\ Len(<<a>>) = 1 /\ <<a>>[1] = a  BY TupleFacts
  <2>2. \A i \in 1 .. Len(<<a>>) : i = 1 /\ <<a>>[i] = a  BY <2>1
  <2> QED BY <2>1, <2>2 DEF Quiet, Steps, Calm
<1>3. ASSUME NEW a, NEW b, StepOk(a, r), StepOk(b, r) PROVE Steps(<<a, b>>, r)
  <2>1. IsSeq(<<a, b>>) /\ Len(<<a, b>>) = 2 /\ <<a, b>>[1] = a /\ <<a, b>>[2] = b  BY TupleFacts
  <2>2. \A i \in 1 .. Len(<<a, b>>) : <<a, b>>[i] \in {a, b}  BY <2>1
  <2> QED BY <1>3, <2>1, <2>2 DEF Steps
<1> QED BY <1>1, <1>2, <1>3

------------------------------------------------------------------------------
(* The lists that the handlers are made of.                                *)

\* Lists that are written out as tuples.
LEMMA LongerTuples ==
    /\ \A a, b, c : LET s == <<a, b, c>> IN
          IsSeq(s) /\ Len(s) = 3 /\ \A i \in 1 .. 3 : s[i] \in {a, b, c}
    /\ \A a, b, c, d : LET s == <<a, b, c, d>> IN
          IsSeq(s) /\ Len(s) = 4 /\ \A i \in 1 .. 4 : s[i] \in {a, b, c, d}
    /\ \A a, b, c, d, e : LET s == <<a, b, c, d, e>> IN
          IsSeq(s) /\ Len(s) = 5 /\ \A i \in 1 .. 5 : s[i] \in {a, b, c, d, e}
<1>1. ASSUME NEW a, NEW b, NEW c
      PROVE  LET s == <<a, b, c>> IN IsSeq(s) /\ Len(s) = 3 /\ \A i \in 1 .. 3 : s[i] \in {a, b, c}
  <2>1. <<a, b, c>> \in Seq({a, b, c})  OBVIOUS
  <2>2. IsSeq(<<a, b, c>>)  BY <2>1, SeqIs
  <2> QED BY <2>2
<1>2. ASSUME NEW a, NEW b, NEW c, NEW d
      PROVE  LET s == <<a, b, c, d>> IN IsSeq(s) /\ Len(s) = 4 /\ \A i \in 1 .. 4 : s[i] \in {a, b, c, d}
  <2>1. <<a, b, c, d>> \in Seq({a, b, c, d})  OBVIOUS
  <2>2. IsSeq(<<a, b, c, d>>)  BY <2>1, SeqIs
  <2> QED BY <2>2
<1>3. ASSUME NEW a, NEW b, NEW c, NEW d, NEW e
      PROVE  LET s == <<a, b, c, d, e>>
             IN  IsSeq(s) /\ Len(s) = 5 /\ \A i \in 1 .. 5 : s[i] \in {a, b, c, d, e}
  <2>1. <<a, b, c, d, e>> \in Seq({a, b, c, d, e})  OBVIOUS
  <2>2. IsSeq(<<a, b, c, d, e>>)  BY <2>1, SeqIs
  <2> QED BY <2>2
<1> QED BY <1>1, <1>2, <1>3

\* Steps that are no branch and rely on nothing.
Easy(s, r) == Plain(s, r) /\ s[1] \notin {"copy", "delete", "merge"}

\* The lists that the handlers write out, of up to five easy steps.
LEMMA QuietLists ==
    ASSUME NEW r
    PROVE  /\ Quiet(<<>>, r)
           /\ \A a : Easy(a, r) => Quiet(<<a>>, r)
           /\ \A a, b : Easy(a, r) /\ Easy(b, r) => Quiet(<<a, b>>, r)
           /\ \A a, b, c : Easy(a, r) /\ Easy(b, r) /\ Easy(c, r) => Quiet(<<a, b, c>>, r)
           /\ \A a, b, c, d : Easy(a, r) /\ Easy(b, r) /\ Easy(c, r) /\ Easy(d, r)
                  => Quiet(<<a, b, c, d>>, r)
           /\ \A a, b, c, d, e : Easy(a, r) /\ Easy(b, r) /\ Easy(c, r) /\ Easy(d, r) /\ Easy(e, r)
                  => Quiet(<<a, b, c, d, e>>, r)
<1>1. \A a : Easy(a, r) => Quiet(<<a>>, r)  BY Lists DEF Easy
<1>2. ASSUME NEW a, NEW b, Easy(a, r), Easy(b, r) PROVE Quiet(<<a, b>>, r)
  <2>1. IsSeq(<<a, b>>) /\ Len(<<a, b>>) = 2 /\ <<a, b>>[1] = a /\ <<a, b>>[2] = b  BY TupleFacts
  <2>2. \A i \in 1 .. Len(<<a, b>>) : <<a, b>>[i] \in {a, b}  BY <2>1
  <2> QED BY <1>2, <2>1, <2>2 DEF Quiet, Easy
<1>3. ASSUME NEW a, NEW b, NEW c, Easy(a, r), Easy(b, r), Easy(c, r) PROVE Quiet(<<a, b, c>>, r)
  <2>1. LET s == <<a, b, c>> IN IsSeq(s) /\ Len(s) = 3 /\ \A i \in 1 .. 3 : s[i] \in {a, b, c}
    BY LongerTuples
  <2> QED BY <1>3, <2>1 DEF Quiet, Easy
<1>4. ASSUME NEW a, NEW b, NEW c, NEW d, Easy(a, r), Easy(b, r), Easy(c, r), Easy(d, r)
      PROVE  Quiet(<<a, b, c, d>>, r)
  <2>1. LET s == <<a, b, c, d>> IN IsSeq(s) /\ Len(s) = 4 /\ \A i \in 1 .. 4 : s[i] \in {a, b, c, d}
    BY LongerTuples
  <2> QED BY <1>4, <2>1 DEF Quiet, Easy
<1>5. ASSUME NEW a, NEW b, NEW c, NEW d, NEW e,
             Easy(a, r), Easy(b, r), Easy(c, r), Easy(d, r), Easy(e, r)
      PROVE  Quiet(<<a, b, c, d, e>>, r)
  <2>1. LET s == <<a, b, c, d, e>>
        IN  IsSeq(s) /\ Len(s) = 5 /\ \A i \in 1 .. 5 : s[i] \in {a, b, c, d, e}
    BY LongerTuples
  <2> QED BY <1>5, <2>1 DEF Quiet, Easy
<1> QED BY <1>1, <1>2, <1>3, <1>4, <1>5, Lists

\* The steps of the handlers that rely on nothing, for the right kind of path.
LEMMA EasySteps ==
    ASSUME NEW r, NEW p
    PROVE  /\ \A how \in {"must", "may", "absent", "type", "typemay"} :
                Easy(Attr(p, how), r) /\ Easy(<<"attr", p, "/", FALSE, how>>, r)
                    /\ Easy(<<"attr", p, "", FALSE, how>>, r)
           /\ \A k \in {"delstat", "openstat", "delsym", "addsym", "readlink", "getsym", "read",
                         "empty"} : Easy(<<k, p>>, r)
           /\ \A f, m : Easy(<<"puthead", p, f, m>>, r)
           /\ p \notin Files => \A m, soft : Easy(<<"putdir", p, m, soft>>, r)
           /\ p \in Files => /\ \A k \in FileSteps : Easy(<<k, p>>, r)
                             /\ \A how : Easy(<<"rowflush", p, how>>, r)
                             /\ Easy(<<"attr", p, "", TRUE, "open">>, r)
           /\ p \in Paths => Easy(<<"flushopen", p>>, r) /\ Easy(<<"ifnew", p>>, r)
           /\ p \in Dirs => /\ \A f : Easy(<<"del", p, f>>, r)
                            /\ Easy(<<"ifolddir", p>>, r)
BY DEF Easy, Plain, Attr, FileSteps, Forms

\* The helpers that most handlers begin with (check_parent_object_access and the
\* like) rely on nothing.
LEMMA Pieces ==
    ASSUME NEW r, NEW p
    PROVE  /\ Quiet(check_parent_object_access(p), r)
           /\ \A how \in {"must", "may", "absent"} : Quiet(check_object_access(p, how), r)
           /\ Quiet(check_object_owner(p), r)
           /\ \A how \in {"type", "typemay"} : Quiet(chk_dir_object_type(p, how), r)
           /\ Quiet(<<<<"delstat", p>>>>, r) /\ Quiet(<<Attr(p, "must")>>, r)
           /\ \A f, m : Quiet(put_headers(p, f, m), r)
           /\ p \notin Files => \A m, soft : /\ Quiet(create_directory_object(p, m, soft), r)
                                             /\ Quiet(remove_old_type_dir(p, m), r)
<1>1. Quiet(check_parent_object_access(p), r)  BY QuietLists, EasySteps DEF check_parent_object_access
<1>2. \A how \in {"must", "may", "absent"} : Quiet(check_object_access(p, how), r)
  BY QuietLists, EasySteps DEF check_object_access
<1>3. Quiet(check_object_owner(p), r)  BY QuietLists, EasySteps DEF check_object_owner
<1>4. \A how \in {"type", "typemay"} : Quiet(chk_dir_object_type(p, how), r)
  BY QuietLists, EasySteps DEF chk_dir_object_type
<1>5. Quiet(<<<<"delstat", p>>>>, r) /\ Quiet(<<Attr(p, "must")>>, r)  BY QuietLists, EasySteps
<1>6. \A f, m : Quiet(put_headers(p, f, m), r)  BY QuietLists, EasySteps DEF put_headers
<1>7. p \notin Files => \A m, soft : Quiet(create_directory_object(p, m, soft), r)
  BY QuietLists, EasySteps DEF create_directory_object
<1>8. p \notin Files => \A m : Quiet(remove_old_type_dir(p, m), r)
  BY <1>5, <1>7, QuietConcat DEF remove_old_type_dir
<1> QED BY <1>1, <1>2, <1>3, <1>4, <1>5, <1>6, <1>7, <1>8

\* The update of the parent's times.
LEMMA UpdateBodyOk ==
    ASSUME NEW r, NEW d, d \notin Files
    PROVE  Calm(UpdateBody(d), r)
<1> DEFINE b == <<"iftype", remove_old_type_dir(d, 0), put_headers(d, "/", 0) \o <<<<"delstat", d>>>>>>
<1>1. Quiet(remove_old_type_dir(d, 0), r)  BY Pieces
<1>2. Quiet(put_headers(d, "/", 0) \o <<<<"delstat", d>>>>, r)  BY Pieces, QuietConcat
<1>3. StepOk(b, r)  BY <1>1, <1>2 DEF StepOk, TypeBlock
<1>4. \A k, c : ~Asks(b, k, c, r.p)  BY DEF Asks
<1> HIDE DEF b
<1>5. Calm(<<b>>, r)  BY <1>3, <1>4, Lists
<1>6. Calm(chk_dir_object_type(d, "type") \o <<Attr(d, "must")>>, r)
  <2>1. Quiet(chk_dir_object_type(d, "type"), r) /\ Quiet(<<Attr(d, "must")>>, r)  BY Pieces
  <2> QED BY <2>1, QuietConcat, QuietIsCalm
<1>7. Calm((chk_dir_object_type(d, "type") \o <<Attr(d, "must")>>) \o <<b>>, r)
  BY <1>5, <1>6, CalmConcat
<1> QED BY <1>7 DEF UpdateBody, b

\* update_mctime_parent_directory, which most handlers end with, relies on nothing.
LEMMA UpdateOk ==
    ASSUME NEW r, NEW p \in Paths
    PROVE  Calm(update_mctime_parent_directory(p), r)
<1> DEFINE d == Parent(p)
           b == <<"try", UpdateBody(d), "drop">>
<1>1. Calm(UpdateBody(d), r)  BY ParentIsDir, UpdateBodyOk
<1>2. StepOk(b, r)  BY DEF StepOk
<1>3. \A k, c : ~Asks(b, k, c, r.p)
  <2>1. \A i \in DOMAIN UpdateBody(d) : \A c : UpdateBody(d)[i] # <<"delete", c>>
    <3>1. DOMAIN UpdateBody(d) = 1 .. Len(UpdateBody(d))  BY <1>1, SeqFacts DEF Calm, Steps
    <3>2. \A c : Asks(<<"delete", c>>, "del", c, r.p)  BY DEF Asks
    <3> QED BY <1>1, <3>1, <3>2 DEF Calm
  <2> QED BY <2>1 DEF Asks
<1> HIDE DEF d
<1>4. Calm(<<b>>, r)
  <2> HIDE DEF b
  <2> QED BY <1>2, <1>3, Lists
<1>5. Calm(<<>>, r)  BY Lists, QuietIsCalm
<1>6. \/ update_mctime_parent_directory(p) = <<>>
      \/ update_mctime_parent_directory(p) = <<b>>
  BY DEF update_mctime_parent_directory, Try, UpdateBody, b, d
<1> QED BY <1>4, <1>5, <1>6

\* A list in which nothing breaks what was given before it.
LEMMA WeakOpen ==
    ASSUME NEW s, NEW p, \A i \in 1 .. Len(s) : ~Breaks(s[i], "del"),
           \A i \in 1 .. Len(s) : \A c : ~Asks(s[i], "got", c, p),
           IsSeq(s)
    PROVE  /\ Weak(s, p) /\ Exposed(s, p, "got") = {}
           /\ \A c \in Exposed(s, p, "del") : \E i \in 1 .. Len(s) : Asks(s[i], "del", c, p)
<1>1. Len(s) \in Nat  BY SeqFacts
<1>2. \A i \in 1 .. Len(s) : Unbroken(s, i, "del")  BY <1>1 DEF Unbroken
<1> QED BY <1>2 DEF Weak, Exposed, Sorts

\* s3fs_unlink relies on nothing but, within a rename, on the copy of its path.
LEMMA UnlinkOk ==
    ASSUME NEW r, NEW p \in Paths, r.op = "unlink" \/ (r.op = "rename" /\ Under(r.p, p))
    PROVE  /\ Steps(s3fs_unlink(p), r) /\ Weak(s3fs_unlink(p), r.p)
           /\ Exposed(s3fs_unlink(p), r.p, "got") = {}
           /\ Exposed(s3fs_unlink(p), r.p, "del") \subseteq {p}
           /\ \A i \in DOMAIN s3fs_unlink(p) : \A c : s3fs_unlink(p)[i] = <<"delete", c>> => c = p
           /\ \E i \in DOMAIN s3fs_unlink(p) : s3fs_unlink(p)[i] = <<"delete", p>>
<1> DEFINE a == check_parent_object_access(p)
           d == <<<<"delete", p>>, <<"delstat", p>>, <<"delsym", p>>>>
           u == update_mctime_parent_directory(p)
           m == a \o d
           s == m \o u
<1>1. s3fs_unlink(p) = s  BY DEF s3fs_unlink
<1>2. Quiet(a, r) /\ \A i \in 1 .. Len(a) : ~Breaks(a[i], "del")
  <2>1. Quiet(a, r)  BY Pieces
  <2>2. a = <<>> \/ a = <<Attr(Parent(p), "must")>>  BY DEF check_parent_object_access
  <2>3. ~Breaks(Attr(Parent(p), "must"), "del")  BY DEF Breaks, Attr, Blocks
  <2> QED BY <2>1, <2>2, <2>3, TupleFacts
<1>3. /\ IsSeq(d) /\ Len(d) = 3 /\ d[1] = <<"delete", p>>
      /\ \A i \in 1 .. 3 : d[i] \in {<<"delete", p>>, <<"delstat", p>>, <<"delsym", p>>}
  BY LongerTuples
<1>4. /\ \A i \in 1 .. Len(d) : StepOk(d[i], r) /\ ~Breaks(d[i], "del")
      /\ \A i \in 1 .. Len(d) : \A c : ~Asks(d[i], "got", c, r.p) /\ (Asks(d[i], "del", c, r.p) => c = p)
      /\ \A i \in 1 .. Len(d) : \A c : d[i] = <<"delete", c>> => c = p
  <2>1. /\ StepOk(<<"delete", p>>, r) /\ StepOk(<<"delstat", p>>, r) /\ StepOk(<<"delsym", p>>, r)
    BY DEF StepOk, Plain, FileSteps
  <2>2. \A k \in {"delete", "delstat", "delsym"} : /\ ~Breaks(<<k, p>>, "del")
                                                  /\ \A c : ~Asks(<<k, p>>, "got", c, r.p)
                                                  /\ \A x : Asks(<<k, p>>, "del", x, r.p) => x = p
                                                  /\ \A y : <<k, p>> = <<"delete", y>> => y = p
    BY DEF Breaks, Asks, Blocks
  <2> QED BY <1>3, <2>1, <2>2
<1>5. Calm(u, r)  BY UpdateOk
<1>6. Calm(a, r)  BY <1>2, QuietIsCalm
<1>7. Steps(d, r)  BY <1>3, <1>4 DEF Steps
<1> HIDE DEF a, d, u
<1>8. Steps(m, r) /\ Steps(s, r)  BY <1>5, <1>6, <1>7, StepsConcat DEF Calm
<1>9. /\ IsSeq(a) /\ IsSeq(d) /\ IsSeq(u) /\ IsSeq(m) /\ IsSeq(s)
      /\ DOMAIN s = 1 .. Len(s)
  BY <1>5, <1>6, <1>7, <1>8, SeqFacts DEF Calm, Steps
<1>10. \A i \in 1 .. Len(m) : \/ i \in 1 .. Len(a) /\ m[i] = a[i]
                              \/ \E j \in 1 .. Len(d) : i = Len(a) + j /\ m[i] = d[j]
  BY <1>9, ConcatCases
<1>11. /\ \A i \in 1 .. Len(m) : ~Breaks(m[i], "del")
       /\ \A i \in 1 .. Len(m) : \A c : ~Asks(m[i], "got", c, r.p)
       /\ \A i \in 1 .. Len(m) : \A c : Asks(m[i], "del", c, r.p) => c = p
       /\ \A i \in 1 .. Len(a) : \A c : a[i] # <<"delete", c>>
  <2>1. \A c : Asks(<<"delete", c>>, "del", c, r.p)  BY DEF Asks
  <2>2. \A i \in 1 .. Len(a) : \A k, c : ~Asks(a[i], k, c, r.p)  BY <1>6 DEF Calm
  <2> QED BY <1>2, <1>4, <1>10, <2>1, <2>2
<1>12. /\ Weak(m, r.p) /\ Exposed(m, r.p, "got") = {}
       /\ \A c \in Exposed(m, r.p, "del") : c = p
  <2> HIDE DEF m
  <2> QED BY <1>9, <1>11, WeakOpen
<1>13. Strong(u, r.p)  BY <1>5, CalmIsStrong
<1>14. /\ Weak(s, r.p) /\ \A k \in Sorts : Exposed(s, r.p, k) \subseteq Exposed(m, r.p, k)
  BY <1>9, <1>12, <1>13, WeakConcat
<1>15. \A i \in 1 .. Len(s) : \/ i \in 1 .. Len(m) /\ s[i] = m[i]
                              \/ \E j \in 1 .. Len(u) : i = Len(m) + j /\ s[i] = u[j]
  <2> HIDE DEF m
  <2> QED BY <1>9, ConcatCases
<1>16. \A i \in 1 .. Len(s) : \A c : s[i] = <<"delete", c>> => c = p
  <2>1. \A c : Asks(<<"delete", c>>, "del", c, r.p)  BY DEF Asks
  <2>2. \A i \in 1 .. Len(u) : \A c : u[i] # <<"delete", c>>  BY <1>5, <2>1 DEF Calm
  <2> HIDE DEF m, s
  <2>3. ASSUME NEW i \in 1 .. Len(s), NEW c, s[i] = <<"delete", c>> PROVE c = p
    <3>1. Asks(s[i], "del", c, r.p)  BY <2>1, <2>3
    <3>2. CASE i \in 1 .. Len(m) /\ s[i] = m[i]  BY <1>11, <3>1, <3>2
    <3>3. CASE \E j \in 1 .. Len(u) : i = Len(m) + j /\ s[i] = u[j]  BY <2>2, <2>3, <3>3
    <3> QED BY <1>15, <3>2, <3>3
  <2> QED BY <2>3
<1>17. \E i \in 1 .. Len(s) : s[i] = <<"delete", p>>
  <2>1. /\ Len(m) = Len(a) + Len(d) /\ Len(s) = Len(m) + Len(u)
        /\ \A i \in Len(a) + 1 .. Len(a) + Len(d) : m[i] = d[i - Len(a)]
        /\ \A i \in 1 .. Len(m) : s[i] = m[i]
        /\ Len(a) \in Nat /\ Len(u) \in Nat
    BY <1>9, ConcatFacts, SeqFacts
  <2>2. Len(a) + 1 \in Len(a) + 1 .. Len(a) + Len(d) /\ (Len(a) + 1) - Len(a) = 1
        /\ Len(a) + 1 \in 1 .. Len(m) /\ Len(a) + 1 \in 1 .. Len(s)
    BY <1>3, <2>1
  <2> QED BY <1>3, <2>1, <2>2
<1> QED BY <1>1, <1>8, <1>9, <1>12, <1>14, <1>16, <1>17 DEF Sorts

\* s3fs_rmdir relies on nothing.
LEMMA RmdirOk ==
    ASSUME NEW r, NEW p \in Dirs
    PROVE  Calm(s3fs_rmdir(p), r)
<1> DEFINE d == <<<<"empty", p>>, <<"del", p, "/">>, <<"delstat", p>>,
                  <<"attr", p, "", FALSE, "may">>, <<"ifolddir", p>>>>
<1>1. Quiet(d, r)
  <2>1. Easy(<<"empty", p>>, r) /\ Easy(<<"del", p, "/">>, r) /\ Easy(<<"delstat", p>>, r)
        /\ Easy(<<"attr", p, "", FALSE, "may">>, r) /\ Easy(<<"ifolddir", p>>, r)
    BY EasySteps
  <2> QED BY <2>1, QuietLists
<1>2. Calm(update_mctime_parent_directory(p), r)  BY UpdateOk DEF Paths
<1>3. Quiet(check_parent_object_access(p), r)  BY Pieces
<1> HIDE DEF d
<1>4. Calm((check_parent_object_access(p) \o d) \o update_mctime_parent_directory(p), r)
  BY <1>1, <1>2, <1>3, QuietConcat, QuietIsCalm, CalmConcat
<1> QED BY <1>4 DEF s3fs_rmdir, d

\* clone_directory_object relies on nothing.
LEMMA CloneOk ==
    ASSUME NEW r, NEW p, NEW q, q \notin Files
    PROVE  Calm(clone_directory_object(p, q), r)
<1>1. Quiet(<<Attr(p, "must")>>, r) /\ Quiet(create_directory_object(q, 0, FALSE), r)
      /\ Quiet(<<<<"delstat", q>>>>, r)
  BY Pieces
<1>2. Quiet((<<Attr(p, "must")>> \o create_directory_object(q, 0, FALSE)) \o <<<<"delstat", q>>>>, r)
  BY <1>1, QuietConcat
<1> QED BY <1>2, QuietIsCalm DEF clone_directory_object

\* rename_directory relies on nothing: what its loops rely on they give themselves.
LEMMA RenameDirectoryOk ==
    ASSUME NEW r, r.op = "rename", r.p \in Dirs
    PROVE  Calm(rename_directory(r.p, r.q), r)
<1>1. Easy(<<"mvlist", r.p, r.q>>, r) /\ Easy(<<"mvgo", r.p, r.q>>, r)  BY DEF Easy, Plain, FileSteps
<1>2. Quiet(<<<<"mvlist", r.p, r.q>>, <<"mvgo", r.p, r.q>>>>, r)  BY <1>1, QuietLists
<1>3. Quiet(chk_dir_object_type(r.p, "typemay"), r)  BY Pieces
<1> QED BY <1>2, <1>3, QuietConcat, QuietIsCalm DEF rename_directory

\* No element deletes.
NoDelete(s) == \A i \in 1 .. Len(s) : \A c : s[i] # <<"delete", c>>

\* A list that relies on nothing deletes no object of a file.
LEMMA CalmNoDelete ==
    ASSUME NEW s, NEW r, Calm(s, r)
    PROVE  NoDelete(s)
<1>1. \A c : Asks(<<"delete", c>>, "del", c, r.p)  BY DEF Asks
<1> QED BY <1>1 DEF Calm, NoDelete

\* Two lists that delete no object of a file make one.
LEMMA NoDeleteConcat ==
    ASSUME NEW a, NEW b, IsSeq(a), IsSeq(b), NoDelete(a), NoDelete(b)
    PROVE  NoDelete(a \o b)
<1>1. \A i \in 1 .. Len(a \o b) : \/ i \in 1 .. Len(a) /\ (a \o b)[i] = a[i]
                                  \/ \E j \in 1 .. Len(b) : i = Len(a) + j /\ (a \o b)[i] = b[j]
  BY ConcatCases
<1> QED BY <1>1 DEF NoDelete

\* A path that may be renamed from p to q within the call r.
Moves(r, p, q) ==
    /\ r.op = "rename" /\ p \in Paths /\ q \in Paths /\ (p \in Dirs <=> q \in Dirs)
    /\ Under(r.p, p) /\ Under(r.q, q)

\* Four steps of which the second relies on the first, and the fourth on the second.
LEMMA RenameObjectOk ==
    ASSUME NEW r, NEW p, NEW q, Moves(r, p, q)
    PROVE  /\ Steps(rename_object(p, q), r) /\ Strong(rename_object(p, q), r.p)
           /\ NoDelete(rename_object(p, q))
<1> DEFINE x == <<"try", s3fs_unlink(p), "keep">>
           h == <<Attr(p, "must"), <<"copy", p, q>>, <<"fdrename", p, q>>>>
           m == h \o <<x>>
           a == check_parent_object_access(q) \o check_parent_object_access(p)
           e == <<<<"delstat", q>>>>
<1>1. Steps(s3fs_unlink(p), r)
      /\ \A i \in DOMAIN s3fs_unlink(p) : \A c : s3fs_unlink(p)[i] = <<"delete", c>> => c = p
  BY UnlinkOk DEF Moves
<1>2. StepOk(x, r)  BY DEF StepOk, Moves
<1>3. \A k, c : Asks(x, k, c, r.p) => k = "del" /\ c = p
  BY <1>1 DEF Asks
<1> HIDE DEF x
<1>4. /\ IsSeq(h) /\ Len(h) = 3 /\ h[1] = Attr(p, "must") /\ h[2] = <<"copy", p, q>>
      /\ h[3] = <<"fdrename", p, q>> /\ \A i \in 1 .. 3 : h[i] \in {h[1], h[2], h[3]}
  BY LongerTuples
<1> HIDE DEF h
<1>5. /\ IsSeq(m) /\ Len(m) = 4 /\ m[1] = Attr(p, "must") /\ m[2] = <<"copy", p, q>>
      /\ m[3] = <<"fdrename", p, q>> /\ m[4] = x
  <2>1. IsSeq(<<x>>) /\ Len(<<x>>) = 1 /\ <<x>>[1] = x  BY TupleFacts
  <2>2. /\ IsSeq(m) /\ Len(m) = Len(h) + Len(<<x>>)
        /\ \A i \in 1 .. Len(h) : m[i] = h[i]
        /\ \A i \in Len(h) + 1 .. Len(h) + Len(<<x>>) : m[i] = <<x>>[i - Len(h)]
    BY <1>4, <2>1, ConcatFacts
  <2> QED BY <1>4, <2>1, <2>2
<1> HIDE DEF m
<1>6. StepOk(m[1], r) /\ StepOk(m[2], r) /\ StepOk(m[3], r) /\ StepOk(m[4], r)
  <2>1. Plain(Attr(p, "must"), r)  BY EasySteps DEF Easy
  <2>2. Plain(<<"copy", p, q>>, r) /\ Plain(<<"fdrename", p, q>>, r)  BY DEF Plain, Moves, FileSteps
  <2> QED BY <1>2, <1>5, <2>1, <2>2 DEF StepOk
<1>7. /\ Gives(m[1], "got", p) /\ Gives(m[2], "del", p) /\ ~Breaks(m[3], "del")
      /\ \A k, c : ~Asks(m[1], k, c, r.p) /\ ~Asks(m[3], k, c, r.p)
      /\ \A k, c : Asks(m[2], k, c, r.p) => k = "got" /\ c = p
      /\ \A k, c : Asks(m[4], k, c, r.p) => k = "del" /\ c = p
  <2>1. /\ Gives(Attr(p, "must"), "got", p) /\ Gives(<<"copy", p, q>>, "del", p)
        /\ ~Breaks(<<"fdrename", p, q>>, "del")
    BY DEF Gives, Breaks, Attr, Blocks
  <2>2. \A k, c : /\ ~Asks(Attr(p, "must"), k, c, r.p) /\ ~Asks(<<"fdrename", p, q>>, k, c, r.p)
                  /\ Asks(<<"copy", p, q>>, k, c, r.p) => k = "got" /\ c = p
    BY DEF Asks, Attr
  <2> QED BY <1>3, <1>5, <2>1, <2>2
<1>8. Given(m, 2, "got", p) /\ Given(m, 4, "del", p)  BY <1>7 DEF Given
<1>9. Strong(m, r.p)
  <2>1. \A i \in 1 .. Len(m) : i \in {1, 2, 3, 4}  BY <1>5
  <2> QED BY <1>7, <1>8, <2>1 DEF Strong
<1>10. Steps(m, r)
  <2>1. \A i \in 1 .. Len(m) : i \in {1, 2, 3, 4}  BY <1>5
  <2> QED BY <1>5, <1>6, <2>1 DEF Steps
<1>11. Steps(a, r) /\ Strong(a, r.p) /\ Calm(a, r)
  <2>1. Quiet(check_parent_object_access(q), r) /\ Quiet(check_parent_object_access(p), r)  BY Pieces
  <2>2. Quiet(a, r)  BY <2>1, QuietConcat
  <2> QED BY <2>2, QuietIsCalm, CalmIsStrong
<1>12. Steps(e, r) /\ Strong(e, r.p) /\ Calm(e, r)
  <2>1. Quiet(e, r)  BY Pieces
  <2> QED BY <2>1, QuietIsCalm, CalmIsStrong
<1> HIDE DEF a, e
<1>13. Steps(a \o m, r) /\ Strong(a \o m, r.p)
  BY <1>9, <1>10, <1>11, StepsConcat, WeakConcat DEF Steps
<1>14. Steps((a \o m) \o e, r) /\ Strong((a \o m) \o e, r.p)
  BY <1>12, <1>13, StepsConcat, WeakConcat DEF Steps
<1>15. rename_object(p, q) = ((a \o h) \o <<x>>) \o e
  BY DEF rename_object, Try, a, h, x, e
<1>16. (a \o h) \o <<x>> = a \o (h \o <<x>>)
  <2> DEFINE z == <<x>>
  <2>1. IsSeq(z)  BY TupleFacts
  <2> HIDE DEF z
  <2>2. IsSeq(a) /\ IsSeq(h)  BY <1>4, <1>11 DEF Steps
  <2>3. (a \o h) \o z = a \o (h \o z)  BY <2>1, <2>2, SeqAssoc
  <2> QED BY <2>3 DEF z
<1>17. NoDelete((a \o m) \o e)
  <2>1. NoDelete(a) /\ NoDelete(e)  BY <1>11, <1>12, CalmNoDelete
  <2>2. NoDelete(m)
    <3>1. \A c : Attr(p, "must") # <<"delete", c>> /\ <<"copy", p, q>> # <<"delete", c>>
                /\ <<"fdrename", p, q>> # <<"delete", c>> /\ <<"try", s3fs_unlink(p), "keep">> # <<"delete", c>>
      BY DEF Attr
    <3>2. \A i \in 1 .. Len(m) : i \in {1, 2, 3, 4}  BY <1>5
    <3> QED BY <1>5, <3>1, <3>2 DEF NoDelete, x
  <2>3. IsSeq(a) /\ IsSeq(m) /\ IsSeq(e) /\ IsSeq(a \o m)  BY <1>5, <1>11, <1>12, <1>13 DEF Steps
  <2>4. NoDelete(a \o m)  BY <2>1, <2>2, <2>3, NoDeleteConcat
  <2> QED BY <2>1, <2>3, <2>4, NoDeleteConcat
<1> QED BY <1>14, <1>15, <1>16, <1>17 DEF m

\* The arguments the kernel calls a handler with.
Args(op, p, q) ==
    /\ p \in Paths /\ q \in Paths
    /\ op \in {"create", "mknod", "symlink", "unlink", "open", "readlink", "bgflush"} \cup HandleOps
           => p \in Files
    /\ op \in {"mkdir", "rmdir", "opendir", "readdir"} => p \in Dirs
    /\ op = "rename" => /\ ~Under(p, q) /\ ~Under(q, p)
                        /\ \A K \in {Dirs, Files} : \A x \in K : Under(p, x) => MoveTo(x, p, q) \in K

\* The handlers that only look.
LEMMA LookHandlers ==
    ASSUME NEW r, NEW p
    PROVE  /\ Calm(s3fs_getattr(p), r) /\ Calm(s3fs_getxattr(p), r) /\ Calm(s3fs_listxattr(p), r)
           /\ Calm(s3fs_access(p), r) /\ Calm(s3fs_opendir(p), r) /\ Calm(s3fs_readlink(p), r)
           /\ Calm(s3fs_read(p), r) /\ (r.op # "rename" => Calm(s3fs_readdir(p), r))
<1>1. /\ Quiet(check_parent_object_access(p), r) /\ Quiet(check_object_access(p, "must"), r)
      /\ Quiet(<<Attr(p, "must")>>, r)
  BY Pieces
<1>2. Quiet(<<<<"getsym", p>>, Attr(p, "must"), <<"readlink", p>>>>, r)
  <2>1. Easy(<<"getsym", p>>, r) /\ Easy(Attr(p, "must"), r) /\ Easy(<<"readlink", p>>, r)
    BY EasySteps
  <2> QED BY <2>1, QuietLists
<1>3. Quiet(<<<<"read", p>>>>, r) /\ (r.op # "rename" => Quiet(<<<<"list", p>>>>, r))
  <2>1. r.op # "rename" => Easy(<<"list", p>>, r)  BY DEF Easy, Plain, FileSteps
  <2> QED BY <2>1, EasySteps, QuietLists
<1>4. Quiet(s3fs_getattr(p), r)  BY <1>1, QuietConcat DEF s3fs_getattr
<1>5. Quiet(s3fs_getxattr(p), r)  BY <1>1, QuietConcat DEF s3fs_getxattr
<1>6. Quiet(s3fs_listxattr(p), r)  BY <1>1, QuietConcat DEF s3fs_listxattr
<1>7. Quiet(s3fs_opendir(p), r)  BY <1>1, QuietConcat DEF s3fs_opendir
<1>8. r.op # "rename" => Quiet(s3fs_readdir(p), r)  BY <1>1, <1>3, QuietConcat DEF s3fs_readdir
<1>9. Quiet(s3fs_access(p), r) /\ Quiet(s3fs_readlink(p), r) /\ Quiet(s3fs_read(p), r)
  BY <1>1, <1>2, <1>3 DEF s3fs_access, s3fs_readlink, s3fs_read
<1> QED BY <1>4, <1>5, <1>6, <1>7, <1>8, <1>9, QuietIsCalm

\* The handlers that make a name.
LEMMA AddHandlers ==
    ASSUME NEW r, NEW p
    PROVE  /\ r.op \in {"mknod", "symlink"} /\ r.p = p /\ p \in Files =>
                Calm(s3fs_mknod(p), r) /\ Calm(s3fs_symlink(p), r)
           /\ p \in Files => Calm(s3fs_create(p), r)
           /\ p \in Dirs => Calm(s3fs_mkdir(p), r)
<1>1. /\ Quiet(check_parent_object_access(p), r) /\ Quiet(check_object_access(p, "may"), r)
      /\ Quiet(check_object_access(p, "absent"), r) /\ Quiet(<<<<"delstat", p>>>>, r)
  BY Pieces
<1>2. p \in Paths => Calm(update_mctime_parent_directory(p), r)  BY UpdateOk
<1>3. ASSUME r.op \in {"mknod", "symlink"}, r.p = p, p \in Files
      PROVE  Calm(s3fs_mknod(p), r) /\ Calm(s3fs_symlink(p), r)
  <2>1. \A kind \in {"file", "link"} : \A soft : Easy(<<"putfile", p, kind, soft>>, r)
    BY <1>3 DEF Easy, Plain, FileSteps
  <2>2. \A kind \in {"file", "link"} : \A soft : Quiet(create_file_object(p, kind, soft), r)
    BY <2>1, QuietLists DEF create_file_object
  <2>3. Calm(create_file_object(p, "file", FALSE) \o <<<<"delstat", p>>>>, r)
    BY <1>1, <2>2, QuietConcat, QuietIsCalm
  <2>4. Quiet(check_parent_object_access(p) \o check_object_access(p, "absent"), r)
    BY <1>1, QuietConcat
  <2>5. Quiet((check_parent_object_access(p) \o check_object_access(p, "absent")) \o
              create_file_object(p, "link", TRUE), r)
    BY <2>2, <2>4, QuietConcat
  <2>6. Quiet(<<<<"delstat", p>>, <<"addsym", p>>>>, r)  BY EasySteps, QuietLists
  <2>7. Calm(((check_parent_object_access(p) \o check_object_access(p, "absent")) \o
              create_file_object(p, "link", TRUE)) \o <<<<"delstat", p>>, <<"addsym", p>>>>, r)
    BY <2>5, <2>6, QuietConcat, QuietIsCalm
  <2>8. Calm(update_mctime_parent_directory(p), r)  BY <1>2, <1>3 DEF Paths
  <2> QED BY <2>3, <2>7, <2>8, CalmConcat DEF s3fs_mknod, s3fs_symlink
<1>4. ASSUME p \in Files PROVE Calm(s3fs_create(p), r)
  <2>1. Quiet(<<<<"create", p>>>>, r)  BY <1>4, EasySteps, QuietLists DEF FileSteps
  <2>2. Quiet(check_parent_object_access(p) \o check_object_access(p, "may"), r)  BY <1>1, QuietConcat
  <2> QED BY <2>1, <2>2, QuietConcat, QuietIsCalm DEF s3fs_create
<1>5. ASSUME p \in Dirs PROVE Calm(s3fs_mkdir(p), r)
  <2>1. p \notin Files /\ p \in Paths  BY <1>5, NamespaceAssumption DEF Paths
  <2>2. Quiet(create_directory_object(p, 0, TRUE), r)  BY <2>1, Pieces
  <2>3. Quiet(check_parent_object_access(p) \o check_object_access(p, "absent"), r)  BY <1>1, QuietConcat
  <2>4. Quiet((check_parent_object_access(p) \o check_object_access(p, "absent")) \o
              create_directory_object(p, 0, TRUE), r)
    BY <2>2, <2>3, QuietConcat
  <2>5. Calm(((check_parent_object_access(p) \o check_object_access(p, "absent")) \o
              create_directory_object(p, 0, TRUE)) \o <<<<"delstat", p>>>>, r)
    BY <1>1, <2>4, QuietConcat, QuietIsCalm
  <2> QED BY <1>2, <2>1, <2>5, CalmConcat DEF s3fs_mkdir
<1> QED BY <1>3, <1>4, <1>5

\* A block of steps that rely on nothing.
LEMMA TryOk ==
    ASSUME NEW r, NEW s, NEW how, Quiet(s, r)
    PROVE  Calm(Try(s, how), r)
<1>1. StepOk(<<"try", s, how>>, r)  BY DEF StepOk
<1>2. \A k, c : ~Asks(<<"try", s, how>>, k, c, r.p)
  <2>1. \A i \in DOMAIN s : i \in 1 .. Len(s)  BY SeqFacts DEF Quiet
  <2>2. \A i \in DOMAIN s : \A c : s[i] # <<"delete", c>>  BY <2>1 DEF Quiet
  <2> QED BY <2>2 DEF Asks
<1> QED BY <1>1, <1>2, Lists DEF Try

\* The handlers of an open file.
LEMMA FileHandlers ==
    ASSUME NEW r, NEW p \in Files
    PROVE  /\ Calm(s3fs_truncate(p), r) /\ Calm(s3fs_open(p), r) /\ Calm(s3fs_write(p), r)
           /\ Calm(s3fs_flush(p), r) /\ Calm(s3fs_fsync(p, FALSE), r) /\ Calm(s3fs_fsync(p, TRUE), r)
           /\ Calm(s3fs_release(p), r) /\ Calm(BackgroundFlush(p), r)
<1>1. /\ Quiet(check_parent_object_access(p), r) /\ Quiet(check_object_access(p, "may"), r)
      /\ Quiet(check_object_access(p, "must"), r) /\ Quiet(<<<<"delstat", p>>>>, r)
  BY Pieces
<1>2. /\ \A k \in FileSteps : Easy(<<k, p>>, r)
      /\ \A how : Easy(<<"rowflush", p, how>>, r)
      /\ Easy(<<"attr", p, "", TRUE, "open">>, r)
      /\ Easy(<<"delstat", p>>, r) /\ Easy(<<"openstat", p>>, r) /\ Easy(<<"ifnew", p>>, r)
  BY EasySteps DEF Paths
<1>3. /\ Quiet(<<<<"write", p>>>>, r) /\ Quiet(<<<<"bgflush", p>>>>, r) /\ Quiet(<<<<"close", p>>>>, r)
      /\ Quiet(<<<<"markmeta", p>>>>, r) /\ Quiet(<<<<"openstat", p>>>>, r)
      /\ Quiet(<<<<"attr", p, "", TRUE, "open">>>>, r)
      /\ Quiet(<<<<"rowflush", p, "changed">>>>, r)
      /\ Quiet(<<<<"delstat", p>>, <<"ifnew", p>>>>, r) /\ Quiet(<<<<"ifnew", p>>, <<"delstat", p>>>>, r)
  BY <1>2, QuietLists DEF FileSteps
<1>4. Quiet(<<<<"rowflush", p, "modified">>, <<"delstat", p>>, <<"pending", p>>, <<"ifnew", p>>>>, r)
  <2>1. Easy(<<"rowflush", p, "modified">>, r) /\ Easy(<<"pending", p>>, r)  BY <1>2 DEF FileSteps
  <2> QED BY <1>2, <2>1, QuietLists
<1>5. Quiet(check_parent_object_access(p) \o check_object_access(p, "must"), r)
      /\ Quiet(check_parent_object_access(p) \o check_object_access(p, "may"), r)
      /\ Quiet(<<<<"openstat", p>>>> \o check_parent_object_access(p), r)
  BY <1>1, <1>3, QuietConcat
<1>6. Calm(s3fs_truncate(p), r)  BY <1>3, <1>5, QuietConcat, QuietIsCalm DEF s3fs_truncate
<1>7. Calm(s3fs_open(p), r)
  <2>1. Quiet((<<<<"openstat", p>>>> \o check_parent_object_access(p)) \o check_object_access(p, "may"), r)
    BY <1>1, <1>5, QuietConcat
  <2> QED BY <1>3, <2>1, QuietConcat, QuietIsCalm DEF s3fs_open
<1>8. Calm(Try(<<<<"rowflush", p, "changed">>>>, "keep"), r)  BY <1>3, TryOk
<1>9. Calm(s3fs_flush(p), r)
  <2>1. Calm(check_parent_object_access(p) \o check_object_access(p, "may"), r)  BY <1>5, QuietIsCalm
  <2>2. Calm((check_parent_object_access(p) \o check_object_access(p, "may")) \o
             Try(<<<<"rowflush", p, "changed">>>>, "keep"), r)
    BY <1>8, <2>1, CalmConcat
  <2>3. Calm(<<<<"delstat", p>>, <<"ifnew", p>>>>, r)  BY <1>3, QuietIsCalm
  <2> QED BY <2>2, <2>3, CalmConcat DEF s3fs_flush
<1>10. \A b \in BOOLEAN : Calm(s3fs_fsync(p, b), r)
  <2> TAKE b \in BOOLEAN
  <2> DEFINE m == IF b THEN <<<<"markmeta", p>>>> ELSE <<>>
  <2>1. Calm(m, r)  BY <1>3, QuietLists, QuietIsCalm
  <2> HIDE DEF m
  <2>2. Calm(<<<<"ifnew", p>>, <<"delstat", p>>>>, r)  BY <1>3, QuietIsCalm
  <2>3. Calm(Try(<<<<"rowflush", p, "changed">>>>, "keep") \o m, r)  BY <1>8, <2>1, CalmConcat
  <2>4. Calm((Try(<<<<"rowflush", p, "changed">>>>, "keep") \o m) \o <<<<"ifnew", p>>, <<"delstat", p>>>>, r)
    BY <2>2, <2>3, CalmConcat
  <2>5. Calm(Try(<<<<"rowflush", p, "changed">>>>, "keep") \o (m \o <<<<"ifnew", p>>, <<"delstat", p>>>>), r)
    BY <1>8, <2>1, <2>2, CalmConcat
  <2> QED BY <2>4, <2>5 DEF s3fs_fsync, m
<1>11. Calm(s3fs_release(p), r)
  <2>1. Calm(Try(<<<<"rowflush", p, "modified">>, <<"delstat", p>>, <<"pending", p>>,
                   <<"ifnew", p>>>>, "keep"), r)
    BY <1>4, TryOk
  <2>2. Calm(<<<<"close", p>>>>, r)  BY <1>3, QuietIsCalm
  <2> QED BY <2>1, <2>2, CalmConcat DEF s3fs_release
<1> QED BY <1>3, <1>6, <1>7, <1>9, <1>10, <1>11, QuietIsCalm DEF s3fs_write, BackgroundFlush

\* Two steps of which the second relies on the first.
LEMMA PairOk ==
    ASSUME NEW r, NEW x, NEW y, StepOk(x, r), StepOk(y, r),
           \A k, c : ~Asks(x, k, c, r.p),
           \A k, c : Asks(y, k, c, r.p) => Gives(x, k, c)
    PROVE  Steps(<<x>> \o <<y>>, r) /\ Strong(<<x>> \o <<y>>, r.p)
<1> DEFINE m == <<x>> \o <<y>>
<1>1. IsSeq(<<x>>) /\ Len(<<x>>) = 1 /\ <<x>>[1] = x /\ IsSeq(<<y>>) /\ Len(<<y>>) = 1 /\ <<y>>[1] = y
  BY TupleFacts
<1>2. Steps(m, r)
  <2>1. Steps(<<x>>, r) /\ Steps(<<y>>, r)  BY Lists
  <2> QED BY <2>1, StepsConcat
<1>3. Len(m) = 2 /\ m[1] = x /\ m[2] = y
  <2>1. /\ Len(m) = Len(<<x>>) + Len(<<y>>)
        /\ \A i \in 1 .. Len(<<x>>) : m[i] = <<x>>[i]
        /\ \A i \in Len(<<x>>) + 1 .. Len(<<x>>) + Len(<<y>>) : m[i] = <<y>>[i - Len(<<x>>)]
    BY <1>1, ConcatFacts
  <2> QED BY <1>1, <2>1
<1> HIDE DEF m
<1>4. ASSUME NEW i \in 1 .. Len(m), NEW k, NEW c, Asks(m[i], k, c, r.p) PROVE Given(m, i, k, c)
  <2>1. i = 2 /\ Gives(m[1], k, c)  BY <1>3, <1>4
  <2> QED BY <2>1 DEF Given
<1>5. Strong(m, r.p)  BY <1>4 DEF Strong
<1> QED BY <1>2, <1>5 DEF m

\* The handlers that set headers.
LEMMA SetHeadersOk ==
    ASSUME NEW r, NEW d, r.op \in HeaderOps, r.p \in Paths, r.p \in Dirs => Quiet(d, r)
    PROVE  Steps(SetHeaders(r.p, r.v, d), r) /\ Strong(SetHeaders(r.p, r.v, d), r.p)
<1> DEFINE p == r.p
           v == r.v
           e == put_headers(p, "/", v) \o <<<<"delstat", p>>>>
           b == <<"iftype", d, e>>
           x == Attr(p, "must")
           y == <<"ifdir", chk_dir_object_type(p, "type") \o <<b>>, <<Attr(p, "must"), <<"merge", p, v>>>>>>
           a == check_parent_object_access(p)
<1>1. Quiet(e, r)  BY Pieces, QuietConcat
<1>2. p \in Dirs => TypeBlock(b, r)  BY <1>1 DEF TypeBlock
<1> HIDE DEF b
<1>3. StepOk(y, r)  BY <1>2 DEF StepOk
<1>4. StepOk(x, r) /\ \A k, c : ~Asks(x, k, c, r.p)
  <2>1. Plain(x, r)  BY EasySteps DEF Easy
  <2> QED BY <2>1 DEF StepOk, Asks, Attr
<1>5. \A k, c : Asks(y, k, c, r.p) => Gives(x, k, c)  BY DEF Asks, Gives, Attr
<1>6. Quiet(a, r)  BY Pieces
<1>7. a \o (<<x>> \o <<y>>) = SetHeaders(r.p, r.v, d)
  <2>1. (a \o <<x>>) \o <<y>> = SetHeaders(r.p, r.v, d)  BY DEF SetHeaders, check_object_owner, b
  <2> DEFINE X == <<x>>
             Y == <<y>>
  <2>2. IsSeq(a) /\ IsSeq(X) /\ IsSeq(Y)  BY <1>6, TupleFacts DEF Quiet
  <2> HIDE DEF X, Y, a
  <2>3. (a \o X) \o Y = a \o (X \o Y)  BY <2>2, SeqAssoc
  <2> QED BY <2>1, <2>3 DEF X, Y, a
<1> HIDE DEF a, x, y
<1>8. Steps(<<x>> \o <<y>>, r) /\ Strong(<<x>> \o <<y>>, r.p)  BY <1>3, <1>4, <1>5, PairOk
<1>9. Steps(a, r) /\ Strong(a, r.p)  BY <1>6, QuietIsCalm, CalmIsStrong
<1>10. IsSeq(a) /\ IsSeq(<<x>> \o <<y>>)  BY <1>8, <1>9 DEF Steps
<1>11. Steps(a \o (<<x>> \o <<y>>), r)  BY <1>8, <1>9, StepsConcat
<1>12. Strong(a \o (<<x>> \o <<y>>), r.p)  BY <1>8, <1>9, <1>10, WeakConcat
<1> QED BY <1>7, <1>11, <1>12

\* chmod, chown, utimens, setxattr and removexattr merge into what they have read.
LEMMA HeaderHandlers ==
    ASSUME NEW r, r.op \in HeaderOps, r.p \in Paths
    PROVE  /\ \A h \in {s3fs_chmod(r.p, r.v), s3fs_chown(r.p, r.v), s3fs_utimens(r.p, r.v),
                        s3fs_setxattr(r.p, r.v), s3fs_removexattr(r.p, r.v)} :
                 Steps(h, r) /\ Strong(h, r.p)
<1>1. r.p \in Dirs => Quiet(remove_old_type_dir(r.p, r.v), r)
  BY Pieces, NamespaceAssumption
<1>2. r.p \in Dirs => Quiet(remove_old_type_dir(r.p, 0) \o put_headers(r.p, "/", r.v) \o
                            <<<<"delstat", r.p>>>>, r)
  <2>1. ASSUME r.p \in Dirs
        PROVE  /\ Quiet(remove_old_type_dir(r.p, 0), r) /\ Quiet(put_headers(r.p, "/", r.v), r)
               /\ Quiet(<<<<"delstat", r.p>>>>, r)
    BY <2>1, Pieces, NamespaceAssumption
  <2>2. r.p \in Dirs => Quiet(remove_old_type_dir(r.p, 0) \o put_headers(r.p, "/", r.v), r)
    BY <2>1, QuietConcat
  <2> QED BY <2>1, <2>2, QuietConcat
<1>3. /\ Steps(s3fs_chmod(r.p, r.v), r) /\ Strong(s3fs_chmod(r.p, r.v), r.p)
      /\ Steps(s3fs_chown(r.p, r.v), r) /\ Strong(s3fs_chown(r.p, r.v), r.p)
      /\ Steps(s3fs_utimens(r.p, r.v), r) /\ Strong(s3fs_utimens(r.p, r.v), r.p)
  BY <1>1, SetHeadersOk DEF s3fs_chmod, s3fs_chown, s3fs_utimens
<1>4. Steps(s3fs_setxattr(r.p, r.v), r) /\ Strong(s3fs_setxattr(r.p, r.v), r.p)
  BY <1>2, SetHeadersOk DEF s3fs_setxattr
<1> QED BY <1>3, <1>4 DEF s3fs_removexattr

\* s3fs_rename: the branch on the kind relies on get_object_attribute.
LEMMA RenameOk ==
    ASSUME NEW r, r.op = "rename", r.p \in Paths, r.q \in Paths
    PROVE  Steps(s3fs_rename(r.p, r.q), r) /\ Strong(s3fs_rename(r.p, r.q), r.p)
<1> DEFINE p == r.p
           q == r.q
           y == <<"ifdir", Try(rename_directory(p, q), "keep"), Try(rename_object(p, q), "keep")>>
           m == <<Attr(p, "must"), <<"empty", q>>, <<"flushopen", p>>, y>>
           a == check_parent_object_access(q) \o check_parent_object_access(p)
           u == update_mctime_parent_directory(q)
<1>1. StepOk(y, r)  BY DEF StepOk
<1>2. \A k, c : Asks(y, k, c, r.p) => k = "got" /\ c = p  BY DEF Asks
<1>3. s3fs_rename(p, q) = (a \o m) \o u  BY DEF s3fs_rename
<1> HIDE DEF y
<1>4. /\ IsSeq(m) /\ Len(m) = 4 /\ m[1] = Attr(p, "must") /\ m[2] = <<"empty", q>>
      /\ m[3] = <<"flushopen", p>> /\ m[4] = y
  BY LongerTuples
<1> HIDE DEF m
<1>5. Easy(m[1], r) /\ Easy(m[2], r) /\ Easy(m[3], r)  BY <1>4, EasySteps
<1>6. StepOk(m[1], r) /\ StepOk(m[2], r) /\ StepOk(m[3], r) /\ StepOk(m[4], r)
  BY <1>1, <1>4, <1>5 DEF Easy, StepOk
<1>7. /\ Gives(m[1], "got", p) /\ ~Breaks(m[2], "got") /\ ~Breaks(m[3], "got")
      /\ \A k, c : ~Asks(m[1], k, c, r.p) /\ ~Asks(m[2], k, c, r.p) /\ ~Asks(m[3], k, c, r.p)
  <2>1. /\ Gives(Attr(p, "must"), "got", p) /\ ~Breaks(<<"empty", q>>, "got")
        /\ ~Breaks(<<"flushopen", p>>, "got")
    BY DEF Gives, Breaks, Attr, Blocks
  <2>2. \A k, c : ~Asks(m[1], k, c, r.p) /\ ~Asks(m[2], k, c, r.p) /\ ~Asks(m[3], k, c, r.p)
    BY <1>5, PlainAsks DEF Easy
  <2> QED BY <1>4, <2>1, <2>2
<1>8. \A i \in 1 .. Len(m) : i \in {1, 2, 3, 4}  BY <1>4
<1>9. Given(m, 4, "got", p)
  <2>1. 1 \in 1 .. 4 - 1 /\ \A i \in 1 + 1 .. 4 - 1 : i \in {2, 3}  OBVIOUS
  <2> QED BY <1>7, <2>1 DEF Given
<1>10. Strong(m, r.p)  BY <1>2, <1>4, <1>7, <1>8, <1>9 DEF Strong
<1>11. Steps(m, r)  BY <1>4, <1>6, <1>8 DEF Steps
<1>12. Steps(a, r) /\ Strong(a, r.p)
  <2>1. Quiet(check_parent_object_access(q), r) /\ Quiet(check_parent_object_access(p), r)  BY Pieces
  <2>2. Quiet(a, r)  BY <2>1, QuietConcat
  <2> QED BY <2>2, QuietIsCalm, CalmIsStrong
<1>13. Steps(u, r) /\ Strong(u, r.p)  BY UpdateOk, CalmIsStrong
<1> HIDE DEF a, u
<1>14. Steps(a \o m, r) /\ Strong(a \o m, r.p)
  BY <1>10, <1>11, <1>12, StepsConcat, WeakConcat DEF Steps
<1>15. Steps((a \o m) \o u, r) /\ Strong((a \o m) \o u, r.p)
  BY <1>13, <1>14, StepsConcat, WeakConcat DEF Steps
<1> QED BY <1>3, <1>15

------------------------------------------------------------------------------
(* Paths.                                                                  *)
Names == UNION {Range(p) : p \in Paths}

\* A path is a sequence of names, and none of them is the mount point.
LEMMA PathFacts ==
    /\ Paths \subseteq Seq(Names) \ {<<>>}
    /\ \A p \in Paths : Len(p) \in Nat
BY NamespaceAssumption DEF Names, Root

\* One path is below another if it begins with the same names.
LEMMA UnderPoints ==
    ASSUME NEW S, NEW p \in Seq(S), NEW x \in Seq(S)
    PROVE  Under(p, x) <=> Len(p) <= Len(x) /\ \A i \in 1 .. Len(p) : x[i] = p[i]
<1>1. Len(p) \in Nat /\ Len(x) \in Nat  OBVIOUS
<1>2. SUFFICES ASSUME Len(p) <= Len(x)
               PROVE  SubSeq(x, 1, Len(p)) = p <=> \A i \in 1 .. Len(p) : x[i] = p[i]
  BY DEF Under
<1> DEFINE n == Len(p)
           u == SubSeq(x, 1, n)
<1>3. 1 \in Int /\ n \in Int /\ \A i \in 1 .. n : x[i] \in S  BY <1>1, <1>2
<1>4. /\ u \in Seq(S) /\ Len(u) = IF 1 <= n THEN n - 1 + 1 ELSE 0
      /\ \A i \in 1 .. n - 1 + 1 : u[i] = x[1 + i - 1]
  BY <1>3, SubSeqProperties
<1>5. Len(u) = n /\ \A i \in 1 .. n : u[i] = x[i]
  <2> HIDE DEF u
  <2>1. n \in Nat  BY <1>1
  <2> HIDE DEF n
  <2> QED BY <1>4, <2>1
<1> HIDE DEF u
<1>6. u = p <=> \A i \in 1 .. n : u[i] = p[i]
  <2>1. u \in Seq(S) /\ Len(u) = Len(p)  BY <1>4, <1>5
  <2> QED BY <2>1, SeqEqual
<1> QED BY <1>5, <1>6 DEF u

\* Below is reflexive and transitive, and what is above one path is a chain.
LEMMA UnderFacts ==
    ASSUME NEW p \in Paths, NEW q \in Paths, NEW x \in Paths
    PROVE  /\ Under(p, p)
           /\ Under(p, q) /\ Under(q, x) => Under(p, x)
           /\ Under(p, x) /\ Under(q, x) => Under(p, q) \/ Under(q, p)
<1>1. /\ p \in Seq(Names) /\ q \in Seq(Names) /\ x \in Seq(Names)
      /\ Len(p) \in Nat /\ Len(q) \in Nat /\ Len(x) \in Nat
  BY PathFacts
<1>2. Under(p, p)  BY <1>1, UnderPoints
<1>3. ASSUME Under(p, q), Under(q, x) PROVE Under(p, x)
  <2>1. Len(p) <= Len(q) /\ \A i \in 1 .. Len(p) : q[i] = p[i]  BY <1>1, <1>3, UnderPoints
  <2>2. Len(q) <= Len(x) /\ \A i \in 1 .. Len(q) : x[i] = q[i]  BY <1>1, <1>3, UnderPoints
  <2>3. Len(p) <= Len(x) /\ \A i \in 1 .. Len(p) : x[i] = p[i]  BY <1>1, <2>1, <2>2
  <2> QED BY <1>1, <2>3, UnderPoints
<1>4. ASSUME Under(p, x), Under(q, x) PROVE Under(p, q) \/ Under(q, p)
  <2>1. Len(p) <= Len(x) /\ \A i \in 1 .. Len(p) : x[i] = p[i]  BY <1>1, <1>4, UnderPoints
  <2>2. Len(q) <= Len(x) /\ \A i \in 1 .. Len(q) : x[i] = q[i]  BY <1>1, <1>4, UnderPoints
  <2>3. CASE Len(p) <= Len(q)
    <3>1. \A i \in 1 .. Len(p) : q[i] = p[i]  BY <1>1, <2>1, <2>2, <2>3
    <3> QED BY <1>1, <2>3, <3>1, UnderPoints
  <2>4. CASE Len(q) <= Len(p)
    <3>1. \A i \in 1 .. Len(q) : p[i] = q[i]  BY <1>1, <2>1, <2>2, <2>4
    <3> QED BY <1>1, <2>4, <3>1, UnderPoints
  <2> QED BY <1>1, <2>3, <2>4
<1> QED BY <1>2, <1>3, <1>4

\* Where what is below p goes.
LEMMA MoveFacts ==
    ASSUME NEW p \in Paths, NEW q \in Paths, NEW x \in Paths, Under(p, x)
    PROVE  MoveTo(p, p, q) = q /\ Under(q, MoveTo(x, p, q))
<1>1. /\ p \in Seq(Names) /\ q \in Seq(Names) /\ x \in Seq(Names)
      /\ Len(p) \in Nat /\ Len(q) \in Nat /\ Len(x) \in Nat /\ Len(p) <= Len(x)
  BY PathFacts DEF Under
<1>2. ASSUME NEW y \in Seq(Names), Len(y) \in Nat, Len(p) <= Len(y)
      PROVE  SubSeq(y, Len(p) + 1, Len(y)) \in Seq(Names)
             /\ (Len(p) = Len(y) => SubSeq(y, Len(p) + 1, Len(y)) = <<>>)
  <2> DEFINE m == Len(p) + 1
             n == Len(y)
  <2>1. m \in Int /\ n \in Int /\ \A i \in m .. n : y[i] \in Names  BY <1>1, <1>2
  <2>2. SubSeq(y, m, n) \in Seq(Names) /\ Len(SubSeq(y, m, n)) = IF m <= n THEN n - m + 1 ELSE 0
    BY <2>1, SubSeqProperties
  <2>3. Len(p) = Len(y) => ~(m <= n)  BY <1>1
  <2> DEFINE u == SubSeq(y, m, n)
  <2>4. u \in Seq(Names) /\ (Len(p) = Len(y) => Len(u) = 0)  BY <2>2, <2>3
  <2> HIDE DEF u
  <2>5. Len(p) = Len(y) => u = <<>>  BY <2>4
  <2> QED BY <2>4, <2>5 DEF u
<1>3. MoveTo(p, p, q) = q
  <2>1. SubSeq(p, Len(p) + 1, Len(p)) = <<>>  BY <1>1, <1>2
  <2> QED BY <1>1, <2>1 DEF MoveTo
<1> DEFINE u == SubSeq(x, Len(p) + 1, Len(x))
<1>4. u \in Seq(Names)  BY <1>1, <1>2
<1> HIDE DEF u
<1>5. Under(q, q \o u)
  <2>1. q \o u \in Seq(Names) /\ Len(q \o u) = Len(q) + Len(u) /\ Len(u) \in Nat
        /\ \A i \in 1 .. Len(q) : (q \o u)[i] = q[i]
    BY <1>1, <1>4
  <2>2. Len(q) <= Len(q \o u)  BY <1>1, <2>1
  <2> DEFINE w == q \o u
  <2>3. w \in Seq(Names) /\ Len(q) <= Len(w) /\ \A i \in 1 .. Len(q) : w[i] = q[i]  BY <2>1, <2>2
  <2> HIDE DEF w
  <2>4. Under(q, w)  BY <1>1, <2>3, UnderPoints
  <2> QED BY <2>4 DEF w
<1> QED BY <1>3, <1>5 DEF MoveTo, u

------------------------------------------------------------------------------
(* A call begins, and a rename moves a directory.                          *)
LEMMA HandlerIs ==
    ASSUME NEW p, NEW q, NEW v
    PROVE  /\ Handler("getattr", p, q, v) = s3fs_getattr(p)
           /\ Handler("access", p, q, v) = s3fs_access(p)
           /\ Handler("opendir", p, q, v) = s3fs_opendir(p)
           /\ Handler("readdir", p, q, v) = s3fs_readdir(p)
           /\ Handler("readlink", p, q, v) = s3fs_readlink(p)
           /\ Handler("getxattr", p, q, v) = s3fs_getxattr(p)
           /\ Handler("listxattr", p, q, v) = s3fs_listxattr(p)
           /\ Handler("read", p, q, v) = s3fs_read(p)
           /\ Handler("symlink", p, q, v) = s3fs_symlink(p)
           /\ Handler("mknod", p, q, v) = s3fs_mknod(p)
           /\ Handler("create", p, q, v) = s3fs_create(p)
           /\ Handler("mkdir", p, q, v) = s3fs_mkdir(p)
           /\ Handler("rmdir", p, q, v) = s3fs_rmdir(p)
           /\ Handler("unlink", p, q, v) = s3fs_unlink(p)
           /\ Handler("rename", p, q, v) = s3fs_rename(p, q)
           /\ Handler("chmod", p, q, v) = s3fs_chmod(p, v)
           /\ Handler("chown", p, q, v) = s3fs_chown(p, v)
           /\ Handler("utimens", p, q, v) = s3fs_utimens(p, v)
           /\ Handler("setxattr", p, q, v) = s3fs_setxattr(p, v)
           /\ Handler("removexattr", p, q, v) = s3fs_removexattr(p, v)
           /\ Handler("truncate", p, q, v) = s3fs_truncate(p)
           /\ Handler("open", p, q, v) = s3fs_open(p)
           /\ Handler("write", p, q, v) = s3fs_write(p)
           /\ Handler("flush", p, q, v) = s3fs_flush(p)
           /\ Handler("fsync", p, q, v) = s3fs_fsync(p, FALSE)
           /\ Handler("fdatasync", p, q, v) = s3fs_fsync(p, TRUE)
           /\ Handler("release", p, q, v) = s3fs_release(p)
           /\ Handler("bgflush", p, q, v) = BackgroundFlush(p)
BY DEF Handler

\* What the handlers' lists of steps rely on.
LEMMA HandlerOk ==
    ASSUME NEW r, r.op \in Ops, Args(r.op, r.p, r.q)
    PROVE  LET h == Handler(r.op, r.p, r.q, r.v)
           IN  /\ Steps(h, r) /\ Weak(h, r.p) /\ Exposed(h, r.p, "got") = {}
               /\ r.op = "rename" => Exposed(h, r.p, "del") = {}
<1> DEFINE h == Handler(r.op, r.p, r.q, r.v)
<1>0. /\ r.op = "getattr" => h = s3fs_getattr(r.p)
      /\ r.op = "access" => h = s3fs_access(r.p)
      /\ r.op = "opendir" => h = s3fs_opendir(r.p)
      /\ r.op = "readdir" => h = s3fs_readdir(r.p)
      /\ r.op = "readlink" => h = s3fs_readlink(r.p)
      /\ r.op = "getxattr" => h = s3fs_getxattr(r.p)
      /\ r.op = "listxattr" => h = s3fs_listxattr(r.p)
      /\ r.op = "read" => h = s3fs_read(r.p)
      /\ r.op = "symlink" => h = s3fs_symlink(r.p)
      /\ r.op = "mknod" => h = s3fs_mknod(r.p)
      /\ r.op = "create" => h = s3fs_create(r.p)
      /\ r.op = "mkdir" => h = s3fs_mkdir(r.p)
      /\ r.op = "rmdir" => h = s3fs_rmdir(r.p)
      /\ r.op = "unlink" => h = s3fs_unlink(r.p)
      /\ r.op = "rename" => h = s3fs_rename(r.p, r.q)
      /\ r.op = "chmod" => h = s3fs_chmod(r.p, r.v)
      /\ r.op = "chown" => h = s3fs_chown(r.p, r.v)
      /\ r.op = "utimens" => h = s3fs_utimens(r.p, r.v)
      /\ r.op = "setxattr" => h = s3fs_setxattr(r.p, r.v)
      /\ r.op = "removexattr" => h = s3fs_removexattr(r.p, r.v)
      /\ r.op = "truncate" => h = s3fs_truncate(r.p)
      /\ r.op = "open" => h = s3fs_open(r.p)
      /\ r.op = "write" => h = s3fs_write(r.p)
      /\ r.op = "flush" => h = s3fs_flush(r.p)
      /\ r.op = "fsync" => h = s3fs_fsync(r.p, FALSE)
      /\ r.op = "fdatasync" => h = s3fs_fsync(r.p, TRUE)
      /\ r.op = "release" => h = s3fs_release(r.p)
      /\ r.op = "bgflush" => h = BackgroundFlush(r.p)
  <2>1. /\ Handler("getattr", r.p, r.q, r.v) = s3fs_getattr(r.p)
        /\ Handler("access", r.p, r.q, r.v) = s3fs_access(r.p)
        /\ Handler("opendir", r.p, r.q, r.v) = s3fs_opendir(r.p)
        /\ Handler("readdir", r.p, r.q, r.v) = s3fs_readdir(r.p)
        /\ Handler("readlink", r.p, r.q, r.v) = s3fs_readlink(r.p)
        /\ Handler("getxattr", r.p, r.q, r.v) = s3fs_getxattr(r.p)
        /\ Handler("listxattr", r.p, r.q, r.v) = s3fs_listxattr(r.p)
        /\ Handler("read", r.p, r.q, r.v) = s3fs_read(r.p)
        /\ Handler("symlink", r.p, r.q, r.v) = s3fs_symlink(r.p)
        /\ Handler("mknod", r.p, r.q, r.v) = s3fs_mknod(r.p)
        /\ Handler("create", r.p, r.q, r.v) = s3fs_create(r.p)
        /\ Handler("mkdir", r.p, r.q, r.v) = s3fs_mkdir(r.p)
        /\ Handler("rmdir", r.p, r.q, r.v) = s3fs_rmdir(r.p)
        /\ Handler("unlink", r.p, r.q, r.v) = s3fs_unlink(r.p)
        /\ Handler("rename", r.p, r.q, r.v) = s3fs_rename(r.p, r.q)
        /\ Handler("chmod", r.p, r.q, r.v) = s3fs_chmod(r.p, r.v)
        /\ Handler("chown", r.p, r.q, r.v) = s3fs_chown(r.p, r.v)
        /\ Handler("utimens", r.p, r.q, r.v) = s3fs_utimens(r.p, r.v)
        /\ Handler("setxattr", r.p, r.q, r.v) = s3fs_setxattr(r.p, r.v)
        /\ Handler("removexattr", r.p, r.q, r.v) = s3fs_removexattr(r.p, r.v)
        /\ Handler("truncate", r.p, r.q, r.v) = s3fs_truncate(r.p)
        /\ Handler("open", r.p, r.q, r.v) = s3fs_open(r.p)
        /\ Handler("write", r.p, r.q, r.v) = s3fs_write(r.p)
        /\ Handler("flush", r.p, r.q, r.v) = s3fs_flush(r.p)
        /\ Handler("fsync", r.p, r.q, r.v) = s3fs_fsync(r.p, FALSE)
        /\ Handler("fdatasync", r.p, r.q, r.v) = s3fs_fsync(r.p, TRUE)
        /\ Handler("release", r.p, r.q, r.v) = s3fs_release(r.p)
        /\ Handler("bgflush", r.p, r.q, r.v) = BackgroundFlush(r.p)
    BY HandlerIs
  <2> QED BY <2>1
<1> HIDE DEF h
<1>1. r.p \in Paths /\ r.q \in Paths  BY DEF Args
<1>2. r.op = "unlink" \/ (Steps(h, r) /\ Strong(h, r.p))
  <2>1. r.op \in {"getattr", "access", "opendir", "readdir", "readlink", "getxattr", "listxattr", "read"}
          => Calm(h, r)
    BY <1>0, LookHandlers
  <2>2. r.op \in {"symlink", "mknod", "create", "mkdir", "rmdir"} => Calm(h, r)
    <3>1. ASSUME r.op \in {"symlink", "mknod"} PROVE Calm(h, r)
      <4>1. r.p \in Files  BY <3>1 DEF Args
      <4>2. Calm(s3fs_mknod(r.p), r) /\ Calm(s3fs_symlink(r.p), r)  BY <3>1, <4>1, AddHandlers
      <4> QED BY <3>1, <4>2, <1>0
    <3>2. ASSUME r.op = "create" PROVE Calm(h, r)
      <4>1. r.p \in Files  BY <3>2 DEF Args
      <4> QED BY <3>2, <4>1, AddHandlers, <1>0
    <3>3. ASSUME r.op \in {"mkdir", "rmdir"} PROVE Calm(h, r)
      <4>1. r.p \in Dirs  BY <3>3 DEF Args
      <4>2. Calm(s3fs_mkdir(r.p), r) /\ Calm(s3fs_rmdir(r.p), r)  BY <4>1, AddHandlers, RmdirOk
      <4> QED BY <3>3, <4>2, <1>0
    <3> QED BY <3>1, <3>2, <3>3
  <2>3. ASSUME r.op \in {"open", "bgflush", "truncate", "write", "flush", "fsync", "fdatasync", "release"}
        PROVE  Calm(h, r)
    <3>1. r.p \in Files  BY <2>3 DEF Args, HandleOps
    <3>2. /\ Calm(s3fs_truncate(r.p), r) /\ Calm(s3fs_open(r.p), r) /\ Calm(s3fs_write(r.p), r)
          /\ Calm(s3fs_flush(r.p), r) /\ Calm(s3fs_fsync(r.p, FALSE), r)
          /\ Calm(s3fs_fsync(r.p, TRUE), r) /\ Calm(s3fs_release(r.p), r)
          /\ Calm(BackgroundFlush(r.p), r)
      BY <3>1, FileHandlers
    <3> QED BY <2>3, <3>2, <1>0
  <2>4. ASSUME r.op \in HeaderOps PROVE Steps(h, r) /\ Strong(h, r.p)
    <3>1. h \in {s3fs_chmod(r.p, r.v), s3fs_chown(r.p, r.v), s3fs_utimens(r.p, r.v),
                 s3fs_setxattr(r.p, r.v), s3fs_removexattr(r.p, r.v)}
      BY <2>4, <1>0 DEF HeaderOps
    <3> QED BY <1>1, <2>4, <3>1, HeaderHandlers
  <2>5. ASSUME r.op = "rename" PROVE Steps(h, r) /\ Strong(h, r.p)
    BY <1>1, <2>5, <1>0, RenameOk
  <2>6. r.op \in NameOps \cup HeaderOps \cup HandleOps \cup LookOps \cup
                 {"opendir", "readdir", "readlink", "open", "bgflush"}
    BY OpsAssumption
  <2>7. Calm(h, r) => Steps(h, r) /\ Strong(h, r.p)  BY CalmIsStrong
  <2> QED BY <2>1, <2>2, <2>3, <2>4, <2>5, <2>6, <2>7 DEF NameOps, HandleOps, LookOps
<1>3. r.op = "unlink" => Steps(h, r) /\ Weak(h, r.p) /\ Exposed(h, r.p, "got") = {}
  <2>1. ASSUME r.op = "unlink"
        PROVE  Steps(s3fs_unlink(r.p), r) /\ Weak(s3fs_unlink(r.p), r.p)
               /\ Exposed(s3fs_unlink(r.p), r.p, "got") = {}
    BY <1>1, <2>1, UnlinkOk
  <2> QED BY <1>0, <2>1
<1>4. Strong(h, r.p) => Weak(h, r.p) /\ Exposed(h, r.p, "got") = {} /\ Exposed(h, r.p, "del") = {}
  BY StrongIsWeak DEF Sorts
<1> QED BY <1>2, <1>3, <1>4 DEF h

\* The paths of a rename.
LEMMA RenameMoves ==
    ASSUME NEW r, r.op = "rename", Args(r.op, r.p, r.q), NEW x \in Paths, Under(r.p, x)
    PROVE  Moves(r, x, MoveTo(x, r.p, r.q)) /\ Moves(r, r.p, r.q)
<1>1. r.p \in Paths /\ r.q \in Paths /\ Paths = Dirs \cup Files /\ Dirs \cap Files = {}
  BY NamespaceAssumption DEF Args, Paths
<1>2. \A y \in Paths : Under(r.p, y) => MoveTo(y, r.p, r.q) \in Paths
                                        /\ (y \in Dirs <=> MoveTo(y, r.p, r.q) \in Dirs)
  BY <1>1 DEF Args
<1>3. Under(r.p, r.p) /\ MoveTo(r.p, r.p, r.q) = r.q /\ Under(r.q, r.q)
      /\ Under(r.q, MoveTo(x, r.p, r.q))
  BY <1>1, UnderFacts, MoveFacts
<1> QED BY <1>1, <1>2, <1>3 DEF Moves

\* The last part of rename_directory.
LEMMA MoveAllOk ==
    ASSUME NEW r, r.op = "rename", Args(r.op, r.p, r.q), r.p \in Dirs
    PROVE  Calm(MoveAll(r, r.p, r.q), r)
<1> DEFINE a == IF r.typ = "UNKNOWN" THEN <<>> ELSE clone_directory_object(r.p, r.q)
           b == <<<<"mvfiles", r.p, r.q>>>>
           c == CASE r.typ = "UNKNOWN" -> <<>>
                  [] r.typ = "NOOBJ" -> <<<<"delstat", r.p>>>>
                  [] OTHER -> s3fs_rmdir(r.p)
<1>1. r.q \in Dirs /\ r.q \notin Files
  <2>1. r.p \in Paths  BY DEF Args
  <2> QED BY <2>1, UnderFacts, RenameMoves, NamespaceAssumption DEF Moves
<1>2. Calm(<<>>, r) /\ Calm(clone_directory_object(r.p, r.q), r)
  BY <1>1, CloneOk, QuietLists, QuietIsCalm
<1>3. Calm(<<<<"delstat", r.p>>>>, r) /\ Calm(s3fs_rmdir(r.p), r)
  <2>1. Quiet(<<<<"delstat", r.p>>>>, r)  BY Pieces
  <2> QED BY <2>1, RmdirOk, QuietIsCalm
<1>4. Calm(b, r)
  <2>1. Easy(<<"mvfiles", r.p, r.q>>, r)  BY DEF Easy, Plain, FileSteps
  <2> QED BY <2>1, QuietLists, QuietIsCalm
<1>5. Calm(a, r)  BY <1>2
<1>6. Calm(c, r)  BY <1>2, <1>3
<1>7. MoveAll(r, r.p, r.q) = (a \o b) \o c  BY DEF MoveAll
<1> HIDE DEF a, b, c
<1> QED BY <1>4, <1>5, <1>6, <1>7, CalmConcat

------------------------------------------------------------------------------
(* The interpreter.                                                        *)

\* A set of natural numbers has a least one.
LEMMA Least ==
    ASSUME NEW J, J \subseteq Nat, J # {}
    PROVE  \E i \in J : \A j \in J : i <= j
<1>1. PICK i \in J : \A j \in J : ~ (<<j, i>> \in OpToRel(<, Nat))
  BY NatLessThanWellFounded, WFMin
<1>2. ASSUME NEW j \in J PROVE i <= j
  <2>1. i \in Nat /\ j \in Nat  OBVIOUS
  <2>2. ~(j < i)  BY <1>1, <2>1 DEF OpToRel
  <2> QED BY <2>1, <2>2
<1> QED BY <1>2

\* What is left from the first element of a kind on.
LEMMA FirstFacts ==
    ASSUME NEW s, IsSeq(s), NEW J, J \subseteq 1 .. Len(s), J # {}
    PROVE  LET j == CHOOSE i \in J : \A k \in J : i <= k
           IN  j \in J /\ j \in 1 .. Len(s) /\ \A i \in 1 .. j - 1 : i \notin J
<1> DEFINE j == CHOOSE i \in J : \A k \in J : i <= k
<1>1. Len(s) \in Nat  BY SeqFacts
<1>2. J \subseteq Nat  BY <1>1
<1>3. j \in J /\ \A k \in J : j <= k  BY <1>2, Least
<1> HIDE DEF j
<1>4. \A i \in 1 .. j - 1 : i \notin J  BY <1>1, <1>3
<1> QED BY <1>3, <1>4 DEF j

\* A list from its first step on is the list.
LEMMA FromOne ==
    ASSUME NEW s, IsSeq(s), s # <<>>
    PROVE  SubSeq(s, 1, Len(s)) = s
<1>1. PICK A : s \in Seq(A)  BY DEF IsSeq
<1>2. Len(s) \in Nat /\ Len(s) >= 1  BY SeqFacts
<1>3. 1 \in 1 .. Len(s)  BY <1>2
<1> DEFINE u == SubSeq(s, 1, Len(s))
<1>4. IsSeq(u) /\ Len(u) = Len(s) - 1 + 1 /\ \A i \in 1 .. Len(u) : u[i] = s[1 + i - 1]
  BY <1>3, FromFacts
<1> HIDE DEF u
<1>5. Len(u) = Len(s) /\ \A i \in 1 .. Len(s) : u[i] = s[i]  BY <1>2, <1>4
<1>6. u \in Seq({u[i] : i \in DOMAIN u} \cup {s[i] : i \in DOMAIN s})
      /\ s \in Seq({u[i] : i \in DOMAIN u} \cup {s[i] : i \in DOMAIN s})
  BY <1>4, SeqBoth
<1>7. u = s  BY <1>5, <1>6, SeqEqual
<1> QED BY <1>7 DEF u

\* A list from a later step on is the tail of the list from the step before it.
LEMMA FromTail ==
    ASSUME NEW s, IsSeq(s), NEW m \in 2 .. Len(s)
    PROVE  SubSeq(s, m, Len(s)) = Tail(SubSeq(s, m - 1, Len(s)))
           /\ SubSeq(s, m - 1, Len(s)) # <<>>
           /\ SubSeq(s, m - 1, Len(s))[1] = s[m - 1]
<1>1. PICK A : s \in Seq(A)  BY DEF IsSeq
<1>2. Len(s) \in Nat  BY SeqFacts
<1>3. m - 1 \in 1 .. Len(s) /\ Len(s) \in m - 1 .. Len(s) /\ (m - 1) + 1 = m  BY <1>2
<1> DEFINE n == m - 1
           u == SubSeq(s, n, Len(s))
<1> HIDE DEF n
<1>4. n \in 1 .. Len(s) /\ Len(s) \in n .. Len(s) /\ n + 1 = m  BY <1>3 DEF n
<1>5. Tail(u) = SubSeq(s, n + 1, Len(s))  BY <1>1, <1>4, HeadTailOfSubSeq
<1>6. IsSeq(u) /\ Len(u) = Len(s) - n + 1 /\ \A i \in 1 .. Len(u) : u[i] = s[n + i - 1]
  BY <1>4, FromFacts
<1> HIDE DEF u
<1>7. 1 \in 1 .. Len(u) /\ n + 1 - 1 = n  BY <1>2, <1>4, <1>6
<1>8. u # <<>> /\ u[1] = s[n]  BY <1>6, <1>7, SeqFacts
<1> QED BY <1>4, <1>5, <1>8 DEF u, n

\* The ends of blocks are passed over.
LEMMA StripOk ==
    ASSUME NEW r, NEW s, Steps(s, r), Weak(s, r.p)
    PROVE  /\ Steps(Strip(s), r) /\ Weak(Strip(s), r.p)
           /\ \A k \in Sorts : Exposed(Strip(s), r.p, k) \subseteq Exposed(s, r.p, k)
<1> DEFINE J == {i \in 1 .. Len(s) : s[i][1] # "mark"}
           m == CHOOSE i \in J : \A j \in J : i <= j
<1>1. IsSeq(s) /\ Len(s) \in Nat  BY SeqFacts DEF Steps
<1>2. CASE J = {}
  <2>1. Strip(s) = <<>>  BY <1>2 DEF Strip
  <2>2. Calm(<<>>, r)  BY Lists, QuietIsCalm
  <2> QED BY <2>1, <2>2, CalmIsStrong, StrongIsWeak
<1>3. CASE J # {}
  <2>1. Strip(s) = SubSeq(s, m, Len(s))  BY <1>3 DEF Strip
  <2>2. m \in J /\ m \in 1 .. Len(s) /\ \A i \in 1 .. m - 1 : i \notin J
    BY <1>1, <1>3, FirstFacts
  <2> HIDE DEF m
  <2>3. Steps(SubSeq(s, m, Len(s)), r)  BY <2>2, StepsFrom
  <2>4. CASE m = 1
    <3>1. s # <<>>  BY <1>1, <2>2, SeqFacts
    <3>2. SubSeq(s, m, Len(s)) = s  BY <1>1, <2>4, <3>1, FromOne
    <3> QED BY <2>1, <3>2
  <2>5. CASE m # 1
    <3>1. m \in 2 .. Len(s) /\ m - 1 \in 1 .. Len(s) /\ m - 1 \in 1 .. m - 1  BY <1>1, <2>2, <2>5
    <3>2. s[m - 1][1] = "mark"  BY <2>2, <3>1
    <3> DEFINE n == m - 1
               u == SubSeq(s, n, Len(s))
    <3>3. SubSeq(s, m, Len(s)) = Tail(u) /\ u # <<>> /\ u[1] = s[n]  BY <1>1, <3>1, FromTail
    <3> HIDE DEF n
    <3>4. n \in 1 .. Len(s) /\ s[n][1] = "mark"  BY <3>1, <3>2 DEF n
    <3>5. Strong(u, r.p) /\ Steps(u, r)  BY <1>1, <3>4, StrongFrom, StepsFrom
    <3> HIDE DEF u
    <3>6. IsSeq(u) /\ Weak(u, r.p) /\ u[1][1] \in Blocks  BY <3>3, <3>4, <3>5, StrongIsWeak DEF Steps, Blocks
    <3>7. Strong(Tail(u), r.p)  BY <3>3, <3>6, StrongTail
    <3>8. Weak(Tail(u), r.p) /\ \A k \in Sorts : Exposed(Tail(u), r.p, k) = {}  BY <3>7, StrongIsWeak
    <3> QED BY <2>1, <2>3, <3>3, <3>8
  <2> QED BY <2>4, <2>5
<1> QED BY <1>2, <1>3

\* A block in the place of the first step, which was a block or a branch.
LEMMA BlockPush ==
    ASSUME NEW r, NEW s, Steps(s, r), s # <<>>, Weak(s, r.p), s[1][1] \in Blocks,
           NEW a, Steps(a, r), Weak(a, r.p), Exposed(a, r.p, "got") = {},
           Exposed(a, r.p, "del") \subseteq Exposed(s, r.p, "del")
    PROVE  LET u == a \o Tail(s)
           IN  /\ Steps(u, r) /\ Weak(u, r.p) /\ Exposed(u, r.p, "got") = {}
               /\ Exposed(u, r.p, "del") \subseteq Exposed(s, r.p, "del")
<1> DEFINE b == Tail(s)
<1>1. IsSeq(s) /\ IsSeq(a)  BY DEF Steps
<1>2. Steps(b, r) /\ Strong(b, r.p)  BY <1>1, StepsTail, StrongTail
<1> HIDE DEF b
<1>3. Steps(a \o b, r)  BY <1>2, StepsConcat
<1>4. IsSeq(b)  BY <1>2 DEF Steps
<1>5. Weak(a \o b, r.p) /\ \A k \in Sorts : Exposed(a \o b, r.p, k) \subseteq Exposed(a, r.p, k)
  BY <1>1, <1>2, <1>4, WeakConcat
<1> QED BY <1>3, <1>5 DEF b, Sorts

\* Which call it is does not change while it runs.
Same(n, r) == n.op = r.op /\ n.p = r.p /\ n.q = r.q /\ n.v = r.v

\* What a call may do depends only on its arguments.
LEMMA SameSteps ==
    ASSUME NEW n, NEW r, Same(n, r)
    PROVE  \A s : Steps(s, r) => Steps(s, n)
<1>1. \A x : Plain(x, r) => Plain(x, n)  BY DEF Plain, Same
<1>2. \A s : Quiet(s, r) => Quiet(s, n)  BY <1>1 DEF Quiet
<1>3. \A x : TypeBlock(x, r) => TypeBlock(x, n)  BY <1>2 DEF TypeBlock
<1>4. ASSUME NEW x, StepOk(x, r) PROVE StepOk(x, n)
  <2>1. CASE Plain(x, r)  BY <1>1, <2>1 DEF StepOk
  <2>2. CASE TypeBlock(x, r)  BY <1>3, <2>2 DEF StepOk
  <2>3. CASE \E y \in Paths : x = <<"try", UpdateBody(Parent(y)), "drop">>  BY <2>3 DEF StepOk
  <2>4. CASE x[1] = "try" /\ Quiet(x[2], r)  BY <1>2, <2>4 DEF StepOk
  <2>5. CASE r.op = "rename" /\ \E c \in Paths : Under(r.p, c) /\ x = <<"try", s3fs_unlink(c), "keep">>
    BY <2>5 DEF StepOk, Same
  <2>6. CASE r.op = "rename" /\ x = <<"try", rename_object(r.p, r.q), "keep">>
    BY <2>6 DEF StepOk, Same
  <2>7. CASE r.op = "rename" /\ r.p \in Dirs /\ x = <<"try", rename_directory(r.p, r.q), "keep">>
    BY <2>7 DEF StepOk, Same
  <2>8. CASE /\ r.op = "rename"
             /\ x = <<"ifdir", Try(rename_directory(r.p, r.q), "keep"), Try(rename_object(r.p, r.q), "keep")>>
    BY <2>8 DEF StepOk, Same
  <2>9. CASE /\ r.op \in HeaderOps
             /\ \E b : /\ x = <<"ifdir", chk_dir_object_type(r.p, "type") \o <<b>>,
                                <<Attr(r.p, "must"), <<"merge", r.p, r.v>>>>>>
                       /\ r.p \in Dirs => TypeBlock(b, r)
    BY <1>3, <2>9 DEF StepOk, Same
  <2> QED BY <1>4, <2>1, <2>2, <2>3, <2>4, <2>5, <2>6, <2>7, <2>8, <2>9 DEF StepOk
<1> QED BY <1>4 DEF Steps

\* Of the steps of a block only those of s3fs_unlink rely on something.
LEMMA TryBlock ==
    ASSUME NEW r, NEW s, StepOk(s, r), s[1] = "try", Args(r.op, r.p, r.q)
    PROVE  /\ Steps(s[2], r) /\ Weak(s[2], r.p) /\ Exposed(s[2], r.p, "got") = {}
           /\ \A c \in Exposed(s[2], r.p, "del") : Asks(s, "del", c, r.p)
<1>1. ASSUME Steps(s[2], r), Strong(s[2], r.p)
      PROVE  /\ Steps(s[2], r) /\ Weak(s[2], r.p) /\ Exposed(s[2], r.p, "got") = {}
             /\ \A c \in Exposed(s[2], r.p, "del") : Asks(s, "del", c, r.p)
  BY <1>1, StrongIsWeak DEF Sorts
<1>2. ASSUME NEW x \in Paths, s = <<"try", UpdateBody(Parent(x)), "drop">>
      PROVE  Steps(s[2], r) /\ Strong(s[2], r.p)
  <2>1. Calm(UpdateBody(Parent(x)), r)  BY ParentIsDir, UpdateBodyOk
  <2>2. s[2] = UpdateBody(Parent(x))  BY <1>2
  <2> QED BY <2>1, <2>2, CalmIsStrong
<1>3. ASSUME Quiet(s[2], r) PROVE Steps(s[2], r) /\ Strong(s[2], r.p)
  BY <1>3, QuietIsCalm, CalmIsStrong
<1>4. ASSUME NEW c \in Paths, r.op = "rename", Under(r.p, c), s = <<"try", s3fs_unlink(c), "keep">>
      PROVE  /\ Steps(s[2], r) /\ Weak(s[2], r.p) /\ Exposed(s[2], r.p, "got") = {}
             /\ \A d \in Exposed(s[2], r.p, "del") : Asks(s, "del", d, r.p)
  <2>1. s[2] = s3fs_unlink(c)  BY <1>4
  <2>2. /\ Steps(s3fs_unlink(c), r) /\ Weak(s3fs_unlink(c), r.p)
        /\ Exposed(s3fs_unlink(c), r.p, "got") = {}
        /\ Exposed(s3fs_unlink(c), r.p, "del") \subseteq {c}
        /\ \E i \in DOMAIN s3fs_unlink(c) : s3fs_unlink(c)[i] = <<"delete", c>>
    BY <1>4, UnlinkOk
  <2>3. Asks(s, "del", c, r.p)
    <3>1. s[1] = "try" /\ \E i \in DOMAIN s[2] : s[2][i] = <<"delete", c>>  BY <1>4, <2>1, <2>2
    <3> QED BY <3>1 DEF Asks
  <2> QED BY <2>1, <2>2, <2>3
<1>5. ASSUME r.op = "rename", s = <<"try", rename_object(r.p, r.q), "keep">>
      PROVE  Steps(s[2], r) /\ Strong(s[2], r.p)
  <2>1. s[2] = rename_object(r.p, r.q)  BY <1>5
  <2>2. r.p \in Paths /\ Under(r.p, r.p)  BY UnderFacts DEF Args
  <2>3. Moves(r, r.p, r.q)  BY <1>5, <2>2, RenameMoves
  <2> QED BY <2>1, <2>3, RenameObjectOk
<1>6. ASSUME r.op = "rename", r.p \in Dirs, s = <<"try", rename_directory(r.p, r.q), "keep">>
      PROVE  Steps(s[2], r) /\ Strong(s[2], r.p)
  <2>1. s[2] = rename_directory(r.p, r.q)  BY <1>6
  <2> QED BY <1>6, <2>1, RenameDirectoryOk, CalmIsStrong
<1>7. ~Plain(s, r)  BY DEF Plain
<1>8. s[1] # "iftype" /\ \A a, b : s # <<"ifdir", a, b>>
  <2>1. \A a, b : <<"ifdir", a, b>>[1] = "ifdir"  OBVIOUS
  <2> QED BY <2>1
<1>9. \/ \E x \in Paths : s = <<"try", UpdateBody(Parent(x)), "drop">>
      \/ Quiet(s[2], r)
      \/ r.op = "rename" /\ \E c \in Paths : Under(r.p, c) /\ s = <<"try", s3fs_unlink(c), "keep">>
      \/ r.op = "rename" /\ s = <<"try", rename_object(r.p, r.q), "keep">>
      \/ r.op = "rename" /\ r.p \in Dirs /\ s = <<"try", rename_directory(r.p, r.q), "keep">>
  BY <1>7, <1>8 DEF StepOk, TypeBlock
<1> QED BY <1>1, <1>2, <1>3, <1>4, <1>5, <1>6, <1>9

\* The branches on the kind of the path of the call.
LEMMA DirBlock ==
    ASSUME NEW r, NEW s, StepOk(s, r), s[1] = "ifdir", Args(r.op, r.p, r.q)
    PROVE  /\ r.p \in Dirs => Steps(s[2], r) /\ Strong(s[2], r.p)
           /\ Steps(s[3], r) /\ Strong(s[3], r.p)
<1>1. ASSUME r.op = "rename",
             s = <<"ifdir", Try(rename_directory(r.p, r.q), "keep"), Try(rename_object(r.p, r.q), "keep")>>
      PROVE  /\ r.p \in Dirs => Steps(s[2], r) /\ Strong(s[2], r.p)
             /\ Steps(s[3], r) /\ Strong(s[3], r.p)
  <2>1. s[2] = Try(rename_directory(r.p, r.q), "keep") /\ s[3] = Try(rename_object(r.p, r.q), "keep")
    BY <1>1
  <2>2. ASSUME NEW b, NoDelete(b), IsSeq(b), StepOk(<<"try", b, "keep">>, r)
        PROVE  Calm(Try(b, "keep"), r)
    <3>1. \A i \in DOMAIN b : i \in 1 .. Len(b)  BY <2>2, SeqFacts
    <3>2. \A k, c : ~Asks(<<"try", b, "keep">>, k, c, r.p)  BY <2>2, <3>1 DEF Asks, NoDelete
    <3> QED BY <2>2, <3>2, Lists DEF Try
  <2>3. ASSUME r.p \in Dirs PROVE Calm(s[2], r)
    <3>1. Calm(rename_directory(r.p, r.q), r)  BY <1>1, <2>3, RenameDirectoryOk
    <3>2. NoDelete(rename_directory(r.p, r.q)) /\ IsSeq(rename_directory(r.p, r.q))
      BY <3>1, CalmNoDelete DEF Calm, Steps
    <3>3. StepOk(<<"try", rename_directory(r.p, r.q), "keep">>, r)  BY <1>1, <2>3 DEF StepOk
    <3> QED BY <2>1, <2>2, <3>2, <3>3
  <2>4. Calm(s[3], r)
    <3>1. r.p \in Paths /\ Under(r.p, r.p)  BY UnderFacts DEF Args
    <3>2. Moves(r, r.p, r.q)  BY <1>1, <3>1, RenameMoves
    <3>3. NoDelete(rename_object(r.p, r.q)) /\ IsSeq(rename_object(r.p, r.q))
      BY <3>2, RenameObjectOk DEF Steps
    <3>4. StepOk(<<"try", rename_object(r.p, r.q), "keep">>, r)  BY <1>1 DEF StepOk
    <3> QED BY <2>1, <2>2, <3>3, <3>4
  <2> QED BY <2>3, <2>4, CalmIsStrong
<1>2. ASSUME r.op \in HeaderOps, NEW b, r.p \in Dirs => TypeBlock(b, r),
             s = <<"ifdir", chk_dir_object_type(r.p, "type") \o <<b>>,
                   <<Attr(r.p, "must"), <<"merge", r.p, r.v>>>>>>
      PROVE  /\ r.p \in Dirs => Steps(s[2], r) /\ Strong(s[2], r.p)
             /\ Steps(s[3], r) /\ Strong(s[3], r.p)
  <2>1. s[2] = chk_dir_object_type(r.p, "type") \o <<b>>
        /\ s[3] = <<Attr(r.p, "must"), <<"merge", r.p, r.v>>>>
    BY <1>2
  <2>2. ASSUME r.p \in Dirs PROVE Calm(s[2], r)
    <3>1. StepOk(b, r)  BY <1>2, <2>2 DEF StepOk
    <3>2. \A k, c : ~Asks(b, k, c, r.p)  BY <1>2, <2>2 DEF TypeBlock, Asks
    <3>3. Calm(<<b>>, r)  BY <3>1, <3>2, Lists
    <3>4. Quiet(chk_dir_object_type(r.p, "type"), r)  BY Pieces
    <3>5. Calm(chk_dir_object_type(r.p, "type"), r)  BY <3>4, QuietIsCalm
    <3> QED BY <2>1, <3>3, <3>5, CalmConcat
  <2> DEFINE x == Attr(r.p, "must")
             y == <<"merge", r.p, r.v>>
  <2>3. StepOk(x, r) /\ \A k, c : ~Asks(x, k, c, r.p)
    <3>1. Plain(x, r)  BY EasySteps DEF Easy
    <3> QED BY <3>1 DEF StepOk, Asks, Attr
  <2>4. StepOk(y, r) /\ \A k, c : Asks(y, k, c, r.p) => Gives(x, k, c)
    <3>1. Plain(y, r)  BY DEF Plain, FileSteps, Args
    <3> QED BY <3>1 DEF StepOk, Asks, Gives, Attr
  <2> HIDE DEF x, y
  <2>5. Steps(<<x, y>>, r)  BY <2>3, <2>4, Lists
  <2>6. Len(<<x, y>>) = 2 /\ <<x, y>>[1] = x /\ <<x, y>>[2] = y  BY TupleFacts
  <2> DEFINE m == <<x, y>>
  <2>7. Len(m) = 2 /\ m[1] = x /\ m[2] = y  BY <2>6
  <2> HIDE DEF m
  <2>8. ASSUME NEW i \in 1 .. Len(m), NEW k, NEW c, Asks(m[i], k, c, r.p) PROVE Given(m, i, k, c)
    <3>1. i = 2 /\ Gives(m[1], k, c)  BY <2>3, <2>4, <2>7, <2>8
    <3> QED BY <3>1 DEF Given
  <2>9. Strong(m, r.p)  BY <2>8 DEF Strong
  <2>10. s[3] = m  BY <2>1 DEF m, x, y
  <2>11. Steps(m, r)  BY <2>5 DEF m
  <2> QED BY <2>2, <2>9, <2>10, <2>11, CalmIsStrong
<1>3. ~Plain(s, r)  BY DEF Plain
<1>4. s[1] # "iftype" /\ s[1] # "try" /\ \A a, b : s # <<"try", a, b>>
  <2>1. \A a, b : <<"try", a, b>>[1] = "try"  OBVIOUS
  <2> QED BY <2>1
<1>5. \/ /\ r.op = "rename"
         /\ s = <<"ifdir", Try(rename_directory(r.p, r.q), "keep"), Try(rename_object(r.p, r.q), "keep")>>
      \/ /\ r.op \in HeaderOps
         /\ \E b : /\ s = <<"ifdir", chk_dir_object_type(r.p, "type") \o <<b>>,
                            <<Attr(r.p, "must"), <<"merge", r.p, r.v>>>>>>
                   /\ r.p \in Dirs => TypeBlock(b, r)
  BY <1>3, <1>4 DEF StepOk, TypeBlock
<1> QED BY <1>1, <1>2, <1>5

Shape(r) == DOMAIN r = {"op", "p", "q", "v", "todo", "got", "typ", "res", "isnew", "up", "list"}

\* What is said of a call in progress: got holds what the next steps rely on.
ListOk(r) == r.op = "rename" => \A c \in r.list : c \in Files /\ Under(r.p, c)
GotOk(r) == \A c \in Exposed(r.todo, r.p, "got") : c \in Files => r.got.kind # "dir"

Ready(r) ==
    /\ Shape(r) /\ Args(r.op, r.p, r.q) /\ ListOk(r)
    /\ Steps(r.todo, r) /\ Weak(r.todo, r.p) /\ GotOk(r)

\* r goes on as n.
Goes(n, r) ==
    /\ Ready(n) /\ Same(n, r)
    /\ Exposed(n.todo, n.p, "del") \subseteq Exposed(r.todo, r.p, "del")

\* What is to be shown when a call goes on.
LEMMA GoesOn ==
    ASSUME NEW r, Ready(r), NEW n, Shape(n), Same(n, r), ListOk(n),
           Steps(n.todo, r), Weak(n.todo, r.p), GotOk(n),
           Exposed(n.todo, r.p, "del") \subseteq Exposed(r.todo, r.p, "del")
    PROVE  Goes(n, r)
<1>1. Steps(n.todo, n)  BY SameSteps
<1>2. Args(n.op, n.p, n.q) /\ n.p = r.p  BY DEF Ready, Same
<1> QED BY <1>1, <1>2 DEF Goes, Ready

\* The record of a call with another todo.
LEMMA SetTodo ==
    ASSUME NEW r, Shape(r), NEW x
    PROVE  LET n == [r EXCEPT !.todo = x]
           IN  /\ Shape(n) /\ n.todo = x /\ n.got = r.got /\ n.list = r.list /\ n.typ = r.typ
               /\ n.op = r.op /\ n.p = r.p /\ n.q = r.q /\ n.v = r.v /\ n.res = r.res
BY DEF Shape

\* A step that fails leaves the steps after its block, or none; none of them
\* is about to delete.
LEMMA FailedOk ==
    ASSUME NEW r, Ready(r), NEW err
    PROVE  Goes(Failed(r, err), r) /\ Exposed(Failed(r, err).todo, r.p, "del") = {}
<1> DEFINE n == Failed(r, err)
           J == {i \in 1 .. Len(r.todo) : r.todo[i][1] = "mark"}
           j == CHOOSE i \in J : \A k \in J : i <= k
           x == IF J = {} THEN <<>> ELSE SubSeq(r.todo, j, Len(r.todo))
<1>1. Shape(n) /\ Same(n, r) /\ n.list = r.list /\ n.todo = x
  BY DEF Failed, Shape, Ready, Same
<1>2. Steps(x, r) /\ Strong(x, r.p)
  <2>1. CASE J = {}
    <3>1. Calm(<<>>, r)  BY Lists, QuietIsCalm
    <3> QED BY <2>1, <3>1, CalmIsStrong
  <2>2. CASE J # {}
    <3>1. IsSeq(r.todo) /\ Steps(r.todo, r) /\ Weak(r.todo, r.p)  BY DEF Ready, Steps
    <3>2. j \in J /\ j \in 1 .. Len(r.todo)
      <4>1. J \subseteq 1 .. Len(r.todo)  OBVIOUS
      <4> HIDE DEF J
      <4> QED BY <2>2, <3>1, <4>1, FirstFacts
    <3> HIDE DEF j
    <3>3. r.todo[j][1] = "mark"  BY <3>2
    <3>4. Steps(SubSeq(r.todo, j, Len(r.todo)), r) /\ Strong(SubSeq(r.todo, j, Len(r.todo)), r.p)
      BY <3>1, <3>2, <3>3, StepsFrom, StrongFrom
    <3> QED BY <2>2, <3>4
  <2> QED BY <2>1, <2>2
<1> HIDE DEF n, x
<1>3. Weak(x, r.p) /\ Exposed(x, r.p, "got") = {} /\ Exposed(x, r.p, "del") = {}
  BY <1>2, StrongIsWeak DEF Sorts
<1>4. GotOk(n)  BY <1>1, <1>3 DEF GotOk, Same
<1>5. ListOk(n)  BY <1>1 DEF ListOk, Ready, Same
<1>6. Goes(n, r)  BY <1>1, <1>2, <1>3, <1>4, <1>5, GoesOn
<1> QED BY <1>1, <1>3, <1>6 DEF n

\* The cases of Unfold.
Put(r, todo, steps) == [r EXCEPT !.todo = steps \o Tail(todo)]
One(S) == CHOOSE c \in S : TRUE

\* The cases of Branch: the steps it puts in the place of the branch.
LEMMA BranchCases ==
    ASSUME NEW r, NEW todo, NEW s
    PROVE  \/ s[1] = "try" /\ Branch(r, todo, s) = Put(r, todo, s[2] \o <<<<"mark", s[3]>>>>)
           \/ s[1] = "ifdir" /\ r.got.kind = "dir" /\ Branch(r, todo, s) = Put(r, todo, s[2])
           \/ s[1] = "ifdir" /\ Branch(r, todo, s) = Put(r, todo, s[3])
           \/ s[1] = "iftype" /\ Branch(r, todo, s) = Put(r, todo, s[2])
           \/ s[1] = "iftype" /\ Branch(r, todo, s) = Put(r, todo, s[3])
           \/ s[1] = "ifolddir" /\ Branch(r, todo, s) =
                Put(r, todo, <<<<"del", s[2], "">>, <<"delstat", s[2]>>>>)
           \/ s[1] \in Blocks /\ Branch(r, todo, s) = Put(r, todo, <<>>)
           \/ s[1] = "ifnew" /\ Branch(r, todo, s) = Put(r, todo, update_mctime_parent_directory(s[2]))
           \/ s[1] = "mvlook" /\ s[3] # {} /\ Branch(r, todo, s) =
                Put(r, todo, <<Attr(One(s[3]), "kid"), <<"mvlook", s[2], s[3] \ {One(s[3])}>>>>)
           \/ s[1] = "mvgo" /\ Branch(r, todo, s) = Put(r, todo, MoveAll(r, s[2], s[3]))
           \/ s[1] = "mvfiles" /\ r.list # {} /\ Branch(r, todo, s) =
                [Put(r, todo, rename_object(One(r.list), MoveTo(One(r.list), s[2], s[3])) \o
                              <<<<"barrier">>, s>>) EXCEPT !.list = @ \ {One(r.list)}]
           \/ Branch(r, todo, s) = Failed(r, r.res)
           \/ Branch(r, todo, s) = [r EXCEPT !.todo = todo]
<1> DEFINE n == Branch(r, todo, s)
<1>1. s[1] = "try" => n = Put(r, todo, s[2] \o <<<<"mark", s[3]>>>>)
  BY DEF Branch, Put
<1>2. s[1] = "ifdir" => \/ r.got.kind = "dir" /\ n = Put(r, todo, s[2])
                        \/ n = Put(r, todo, s[3])
  BY DEF Branch, Put
<1>3. s[1] = "iftype" => n = Put(r, todo, s[2]) \/ n = Put(r, todo, s[3])
  BY DEF Branch, Put
<1>4. s[1] = "ifolddir" => \/ n = Put(r, todo, <<<<"del", s[2], "">>, <<"delstat", s[2]>>>>)
                           \/ n = Put(r, todo, <<>>)
  BY DEF Branch, Put
<1>5. s[1] = "ifnew" => \/ n = Put(r, todo, update_mctime_parent_directory(s[2]))
                        \/ n = Put(r, todo, <<>>)
  BY DEF Branch, Put
<1>6. s[1] = "mvlook" =>
        \/ s[3] # {} /\ n = Put(r, todo, <<Attr(One(s[3]), "kid"), <<"mvlook", s[2], s[3] \ {One(s[3])}>>>>)
        \/ n = Put(r, todo, <<>>)
  BY DEF Branch, Put, One
<1>7. s[1] = "mvgo" => n = Put(r, todo, MoveAll(r, s[2], s[3]))
  BY DEF Branch, Put
<1>8. s[1] = "mvfiles" =>
        \/ r.list # {} /\ n = [Put(r, todo, rename_object(One(r.list), MoveTo(One(r.list), s[2], s[3])) \o
                                            <<<<"barrier">>, s>>) EXCEPT !.list = @ \ {One(r.list)}]
        \/ n = Put(r, todo, <<>>)
  BY DEF Branch, Put, One
<1>9. s[1] = "barrier" => n = Put(r, todo, <<>>) \/ n = Failed(r, r.res)
  BY DEF Branch, Put
<1>10. s[1] \notin {"try", "ifdir", "iftype", "ifolddir", "ifnew", "mvlook", "mvgo", "mvfiles", "barrier"}
         => n = [r EXCEPT !.todo = todo]
  BY DEF Branch
<1> HIDE DEF n
<1> QED BY <1>1, <1>2, <1>3, <1>4, <1>5, <1>6, <1>7, <1>8, <1>9, <1>10 DEF Blocks, n

\* The record of a call in which steps take the place of the first one.
LEMMA PutFacts ==
    ASSUME NEW r, Shape(r), NEW s, NEW a
    PROVE  /\ Shape(Put(r, s, a)) /\ Same(Put(r, s, a), r) /\ Put(r, s, a).todo = a \o Tail(s)
           /\ Put(r, s, a).list = r.list /\ Put(r, s, a).got = r.got
<1> DEFINE x == a \o Tail(s)
<1> HIDE DEF x
<1>1. LET n == [r EXCEPT !.todo = x]
      IN  Shape(n) /\ Same(n, r) /\ n.todo = x /\ n.list = r.list /\ n.got = r.got
  BY SetTodo DEF Same
<1> QED BY <1>1 DEF Put, x

\* A block in the place of the first step of a call.
LEMMA PutOk ==
    ASSUME NEW r, Ready(r), NEW s, Steps(s, r), Weak(s, r.p), s # <<>>, s[1][1] \in Blocks,
           \A k \in Sorts : Exposed(s, r.p, k) \subseteq Exposed(r.todo, r.p, k),
           NEW a, Steps(a, r), Weak(a, r.p), Exposed(a, r.p, "got") = {},
           Exposed(a, r.p, "del") \subseteq Exposed(s, r.p, "del"),
           NEW n, Shape(n), Same(n, r), ListOk(n), n.todo = a \o Tail(s)
    PROVE  Goes(n, r)
<1>1. /\ Steps(a \o Tail(s), r) /\ Weak(a \o Tail(s), r.p) /\ Exposed(a \o Tail(s), r.p, "got") = {}
      /\ Exposed(a \o Tail(s), r.p, "del") \subseteq Exposed(s, r.p, "del")
  BY BlockPush
<1>2. /\ Steps(n.todo, r) /\ Weak(n.todo, r.p) /\ Exposed(n.todo, r.p, "got") = {}
      /\ Exposed(n.todo, r.p, "del") \subseteq Exposed(r.todo, r.p, "del")
  BY <1>1 DEF Sorts
<1>3. GotOk(n)  BY <1>2 DEF GotOk, Same
<1> QED BY <1>2, <1>3, GoesOn

\* ... that relies on nothing.
LEMMA PutStrong ==
    ASSUME NEW r, Ready(r), NEW s, Steps(s, r), Weak(s, r.p), s # <<>>, s[1][1] \in Blocks,
           \A k \in Sorts : Exposed(s, r.p, k) \subseteq Exposed(r.todo, r.p, k),
           NEW a, Steps(a, r), Strong(a, r.p)
    PROVE  Goes(Put(r, s, a), r)
<1> DEFINE n == Put(r, s, a)
<1>1. Shape(n) /\ Same(n, r) /\ n.todo = a \o Tail(s) /\ n.list = r.list
  BY PutFacts DEF Ready
<1>2. ListOk(n)  BY <1>1 DEF ListOk, Ready, Same
<1>3. Weak(a, r.p) /\ Exposed(a, r.p, "got") = {} /\ Exposed(a, r.p, "del") = {}
  BY StrongIsWeak DEF Sorts
<1> HIDE DEF n
<1>4. Goes(n, r)  BY <1>1, <1>2, <1>3, PutOk
<1> QED BY <1>4 DEF n

\* One step of the interpreter.
LEMMA UnfoldOk ==
    ASSUME NEW r, Ready(r)
    PROVE  Goes(Unfold(r), r)
<1> DEFINE todo == Strip(r.todo)
           s == Head(todo)
<1>1. /\ Steps(todo, r) /\ Weak(todo, r.p)
      /\ \A k \in Sorts : Exposed(todo, r.p, k) \subseteq Exposed(r.todo, r.p, k)
      /\ Args(r.op, r.p, r.q)
  BY StripOk DEF Ready
<1> DEFINE n == Unfold(r)
<1>0. /\ todo = <<>> => n = [r EXCEPT !.todo = <<>>]
      /\ todo # <<>> => n = Branch(r, todo, s)
  BY DEF Unfold
<1> HIDE DEF n
<1>3. todo # <<>> => s = todo[1] /\ StepOk(s, r)  BY <1>1, StepsTail
<1> HIDE DEF todo, s
<1>2. todo # <<>> =>
      \/ s[1] = "try" /\ n = Put(r, todo, s[2] \o <<<<"mark", s[3]>>>>)
      \/ s[1] = "ifdir" /\ r.got.kind = "dir" /\ n = Put(r, todo, s[2])
      \/ s[1] = "ifdir" /\ n = Put(r, todo, s[3])
      \/ s[1] = "iftype" /\ n = Put(r, todo, s[2])
      \/ s[1] = "iftype" /\ n = Put(r, todo, s[3])
      \/ s[1] = "ifolddir" /\ n =
           Put(r, todo, <<<<"del", s[2], "">>, <<"delstat", s[2]>>>>)
      \/ s[1] \in Blocks /\ n = Put(r, todo, <<>>)
      \/ s[1] = "ifnew" /\ n = Put(r, todo, update_mctime_parent_directory(s[2]))
      \/ s[1] = "mvlook" /\ s[3] # {} /\ n =
           Put(r, todo, <<Attr(One(s[3]), "kid"), <<"mvlook", s[2], s[3] \ {One(s[3])}>>>>)
      \/ s[1] = "mvgo" /\ n = Put(r, todo, MoveAll(r, s[2], s[3]))
      \/ s[1] = "mvfiles" /\ r.list # {} /\ n =
           [Put(r, todo, rename_object(One(r.list), MoveTo(One(r.list), s[2], s[3])) \o
                         <<<<"barrier">>, s>>) EXCEPT !.list = @ \ {One(r.list)}]
      \/ n = Failed(r, r.res)
      \/ n = [r EXCEPT !.todo = todo]
  <2> DEFINE m == Branch(r, todo, s)
  <2>1. todo # <<>> => n = m  BY <1>0
  <2>2. \/ s[1] = "try" /\ m = Put(r, todo, s[2] \o <<<<"mark", s[3]>>>>)
        \/ s[1] = "ifdir" /\ r.got.kind = "dir" /\ m = Put(r, todo, s[2])
        \/ s[1] = "ifdir" /\ m = Put(r, todo, s[3])
        \/ s[1] = "iftype" /\ m = Put(r, todo, s[2])
        \/ s[1] = "iftype" /\ m = Put(r, todo, s[3])
        \/ s[1] = "ifolddir" /\ m =
             Put(r, todo, <<<<"del", s[2], "">>, <<"delstat", s[2]>>>>)
        \/ s[1] \in Blocks /\ m = Put(r, todo, <<>>)
        \/ s[1] = "ifnew" /\ m = Put(r, todo, update_mctime_parent_directory(s[2]))
        \/ s[1] = "mvlook" /\ s[3] # {} /\ m =
             Put(r, todo, <<Attr(One(s[3]), "kid"), <<"mvlook", s[2], s[3] \ {One(s[3])}>>>>)
        \/ s[1] = "mvgo" /\ m = Put(r, todo, MoveAll(r, s[2], s[3]))
        \/ s[1] = "mvfiles" /\ r.list # {} /\ m =
             [Put(r, todo, rename_object(One(r.list), MoveTo(One(r.list), s[2], s[3])) \o
                           <<<<"barrier">>, s>>) EXCEPT !.list = @ \ {One(r.list)}]
        \/ m = Failed(r, r.res)
        \/ m = [r EXCEPT !.todo = todo]
    BY BranchCases
  <2> HIDE DEF m
  <2> QED BY <2>1, <2>2
<1>4. ASSUME NEW x, Steps(x, r), Weak(x, r.p),
             \A k \in Sorts : Exposed(x, r.p, k) \subseteq Exposed(r.todo, r.p, k)
      PROVE  Goes([r EXCEPT !.todo = x], r)
  <2> DEFINE y == [r EXCEPT !.todo = x]
  <2>1. Shape(y) /\ Same(y, r) /\ y.todo = x /\ y.list = r.list /\ y.got = r.got
    BY SetTodo DEF Ready, Same
  <2> HIDE DEF y
  <2>2. ListOk(y) /\ GotOk(y)  BY <1>4, <2>1 DEF ListOk, GotOk, Ready, Same, Sorts
  <2>3. Goes(y, r)  BY <1>4, <2>1, <2>2, GoesOn DEF Sorts
  <2> QED BY <2>3 DEF y
<1>5. Steps(<<>>, r) /\ Strong(<<>>, r.p)
  <2>1. Calm(<<>>, r)  BY Lists, QuietIsCalm
  <2> QED BY <2>1, CalmIsStrong
<1>6. Goes([r EXCEPT !.todo = <<>>], r)
  <2>1. Weak(<<>>, r.p) /\ \A k \in Sorts : Exposed(<<>>, r.p, k) = {}  BY <1>5, StrongIsWeak
  <2> QED BY <1>4, <1>5, <2>1
<1>7. Goes([r EXCEPT !.todo = todo], r)  BY <1>1, <1>4
<1>8. Goes(Failed(r, r.res), r)  BY FailedOk
<1>9. ASSUME todo # <<>>, s[1] \in Blocks, NEW a, Steps(a, r), Strong(a, r.p)
      PROVE  Goes(Put(r, todo, a), r)
  BY <1>1, <1>3, <1>9, PutStrong
<1>10. ASSUME todo # <<>>, s[1] = "try", n = Put(r, todo, s[2] \o <<<<"mark", s[3]>>>>)
       PROVE  Goes(n, r)
  <2> DEFINE b == <<<<"mark", s[3]>>>>
             a == s[2] \o b
  <2>1. /\ Steps(s[2], r) /\ Weak(s[2], r.p) /\ Exposed(s[2], r.p, "got") = {}
        /\ \A c \in Exposed(s[2], r.p, "del") : Asks(s, "del", c, r.p)
    BY <1>1, <1>3, <1>10, TryBlock
  <2>2. Steps(b, r) /\ Strong(b, r.p)
    <3>1. Easy(<<"mark", s[3]>>, r)  BY DEF Easy, Plain, FileSteps
    <3> QED BY <3>1, QuietLists, QuietIsCalm, CalmIsStrong
  <2> HIDE DEF b
  <2>3. IsSeq(s[2]) /\ IsSeq(b)  BY <2>1, <2>2 DEF Steps
  <2>4. Steps(a, r) /\ Weak(a, r.p) /\ Exposed(a, r.p, "got") = {}
        /\ Exposed(a, r.p, "del") \subseteq Exposed(s[2], r.p, "del")
    BY <2>1, <2>2, <2>3, StepsConcat, WeakConcat DEF Sorts
  <2>5. Exposed(s[2], r.p, "del") \subseteq Exposed(todo, r.p, "del")
    <3>1. ASSUME NEW c \in Exposed(s[2], r.p, "del") PROVE c \in Exposed(todo, r.p, "del")
      <4>1. c \in Paths /\ Asks(todo[1], "del", c, r.p)  BY <1>3, <1>10, <2>1, <3>1 DEF Exposed
      <4>2. 1 \in 1 .. Len(todo)
        <5>1. IsSeq(todo)  BY <1>1 DEF Steps
        <5> QED BY <1>10, <5>1, SeqFacts
      <4>3. Unbroken(todo, 1, "del") /\ ~Given(todo, 1, "del", c)
        <5>1. 1 .. 1 - 1 = {}  OBVIOUS
        <5> QED BY <5>1 DEF Unbroken, Given
      <4> QED BY <4>1, <4>2, <4>3 DEF Exposed
    <3> QED BY <3>1
  <2>6. Shape(n) /\ Same(n, r) /\ n.todo = a \o Tail(todo) /\ n.list = r.list
    <3>1. n = Put(r, todo, a)  BY <1>10 DEF b
    <3> HIDE DEF a
    <3> QED BY <3>1, PutFacts DEF Ready
  <2> HIDE DEF a
  <2>7. ListOk(n)  BY <2>6 DEF ListOk, Ready, Same
  <2>8. todo[1][1] \in Blocks  BY <1>3, <1>10 DEF Blocks
  <2>9. Exposed(a, r.p, "del") \subseteq Exposed(todo, r.p, "del")  BY <2>4, <2>5
  <2>10. Goes(n, r)  BY <1>1, <1>10, <2>4, <2>6, <2>7, <2>8, <2>9, PutOk
  <2> QED BY <2>10
<1>11. ASSUME todo # <<>>, s[1] = "ifdir"
       PROVE  /\ Goes(Put(r, todo, s[3]), r)
              /\ r.got.kind = "dir" => Goes(Put(r, todo, s[2]), r)
  <2>1. /\ r.p \in Dirs => Steps(s[2], r) /\ Strong(s[2], r.p)
        /\ Steps(s[3], r) /\ Strong(s[3], r.p)
    BY <1>1, <1>3, <1>11, DirBlock
  <2>2. s[1] \in Blocks  BY <1>11 DEF Blocks
  <2>3. ASSUME r.got.kind = "dir" PROVE r.p \in Dirs
    <3>1. r.p \in Paths /\ Asks(todo[1], "got", r.p, r.p)  BY <1>1, <1>3, <1>11 DEF Asks, Args
    <3>2. 1 \in 1 .. Len(todo)
      <4>1. IsSeq(todo)  BY <1>1 DEF Steps
      <4> QED BY <1>11, <4>1, SeqFacts
    <3>3. Unbroken(todo, 1, "got") /\ ~Given(todo, 1, "got", r.p)
      <4>1. 1 .. 1 - 1 = {}  OBVIOUS
      <4> QED BY <4>1 DEF Unbroken, Given
    <3>4. r.p \in Exposed(todo, r.p, "got")  BY <3>1, <3>2, <3>3 DEF Exposed
    <3>5. r.p \in Exposed(r.todo, r.p, "got")  BY <1>1, <3>4 DEF Sorts
    <3> QED BY <2>3, <3>1, <3>5 DEF Ready, GotOk, Paths
  <2> QED BY <1>9, <1>11, <2>1, <2>2, <2>3
<1>12. ASSUME todo # <<>>, s[1] = "iftype"
       PROVE  Goes(Put(r, todo, s[2]), r) /\ Goes(Put(r, todo, s[3]), r)
  <2>1. Quiet(s[2], r) /\ Quiet(s[3], r)
    <3>1. ~Plain(s, r)  BY <1>12 DEF Plain
    <3>2. \A a, b : s # <<"try", a, b>> /\ s # <<"ifdir", a, b>>
      <4>1. \A a, b : <<"try", a, b>>[1] = "try" /\ <<"ifdir", a, b>>[1] = "ifdir"  OBVIOUS
      <4> QED BY <1>12, <4>1
    <3>3. TypeBlock(s, r)  BY <1>3, <1>12, <3>1, <3>2 DEF StepOk
    <3> QED BY <3>3 DEF TypeBlock
  <2>2. Steps(s[2], r) /\ Strong(s[2], r.p) /\ Steps(s[3], r) /\ Strong(s[3], r.p)
    BY <2>1, QuietIsCalm, CalmIsStrong
  <2> QED BY <1>9, <1>12, <2>2 DEF Blocks
<1>13. ASSUME todo # <<>>, s[1] \in {"ifolddir", "ifnew", "mvlook", "mvgo", "mvfiles"} PROVE Plain(s, r)
  <2>1. \A a, b : s # <<"try", a, b>> /\ s # <<"ifdir", a, b>>
    <3>1. \A a, b : <<"try", a, b>>[1] = "try" /\ <<"ifdir", a, b>>[1] = "ifdir"  OBVIOUS
    <3> QED BY <1>13, <3>1
  <2> QED BY <1>3, <1>13, <2>1 DEF StepOk, TypeBlock
<1>14. ASSUME todo # <<>>, s[1] = "ifolddir"
       PROVE  Goes(Put(r, todo, <<<<"del", s[2], "">>, <<"delstat", s[2]>>>>), r)
  <2>1. s[2] \in Dirs  BY <1>13, <1>14 DEF Plain
  <2>2. Easy(<<"del", s[2], "">>, r) /\ Easy(<<"delstat", s[2]>>, r)  BY <2>1, EasySteps
  <2> DEFINE a == <<<<"del", s[2], "">>, <<"delstat", s[2]>>>>
  <2>3. Quiet(a, r)  BY <2>2, QuietLists
  <2> HIDE DEF a
  <2>4. Steps(a, r) /\ Strong(a, r.p)  BY <2>3, QuietIsCalm, CalmIsStrong
  <2>5. Goes(Put(r, todo, a), r)  BY <1>9, <1>14, <2>4 DEF Blocks
  <2> QED BY <2>5 DEF a
<1>15. ASSUME todo # <<>>, s[1] = "ifnew"
       PROVE  Goes(Put(r, todo, update_mctime_parent_directory(s[2])), r)
  <2>1. s[2] \in Paths  BY <1>13, <1>15 DEF Plain
  <2>2. Calm(update_mctime_parent_directory(s[2]), r)  BY <2>1, UpdateOk
  <2> QED BY <1>9, <1>15, <2>2, CalmIsStrong DEF Blocks
<1>16. ASSUME todo # <<>>, s[1] = "mvlook", s[3] # {}
       PROVE  Goes(Put(r, todo, <<Attr(One(s[3]), "kid"), <<"mvlook", s[2], s[3] \ {One(s[3])}>>>>), r)
  <2> DEFINE c == One(s[3])
             a == <<Attr(c, "kid"), <<"mvlook", s[2], s[3] \ {c}>>>>
  <2>1. c \in s[3]  BY <1>16 DEF One
  <2>2. r.op = "rename" /\ s[2] = r.p /\ \A d \in s[3] : d \in Files /\ Under(r.p, d)
    BY <1>13, <1>16 DEF Plain
  <2> HIDE DEF c
  <2>3. Easy(Attr(c, "kid"), r)  BY <2>1, <2>2 DEF Easy, Plain, Attr, FileSteps, Forms
  <2>4. Easy(<<"mvlook", s[2], s[3] \ {c}>>, r)  BY <2>1, <2>2 DEF Easy, Plain, FileSteps
  <2>5. Quiet(a, r)  BY <2>3, <2>4, QuietLists
  <2> HIDE DEF a
  <2>6. Steps(a, r) /\ Strong(a, r.p)  BY <2>5, QuietIsCalm, CalmIsStrong
  <2>7. Goes(Put(r, todo, a), r)  BY <1>9, <1>16, <2>6 DEF Blocks
  <2> QED BY <2>7 DEF a, c
<1>17. ASSUME todo # <<>>, s[1] = "mvgo"
       PROVE  Goes(Put(r, todo, MoveAll(r, s[2], s[3])), r)
  <2>1. r.op = "rename" /\ s[2] = r.p /\ s[3] = r.q /\ r.p \in Dirs  BY <1>13, <1>17 DEF Plain
  <2>2. Calm(MoveAll(r, s[2], s[3]), r)  BY <1>1, <2>1, MoveAllOk
  <2> QED BY <1>9, <1>17, <2>2, CalmIsStrong DEF Blocks
<1>18. ASSUME todo # <<>>, s[1] = "mvfiles", r.list # {},
              n = [Put(r, todo, rename_object(One(r.list), MoveTo(One(r.list), s[2], s[3])) \o
                                        <<<<"barrier">>, s>>) EXCEPT !.list = @ \ {One(r.list)}]
       PROVE  Goes(n, r)
  <2> DEFINE c == One(r.list)
             b == <<<<"barrier">>, s>>
             a == rename_object(c, MoveTo(c, s[2], s[3])) \o b
  <2>1. c \in r.list  BY <1>18 DEF One
  <2>2. r.op = "rename" /\ s[2] = r.p /\ s[3] = r.q /\ Plain(s, r)  BY <1>13, <1>18 DEF Plain
  <2>3. c \in Paths /\ Under(r.p, c)  BY <2>1, <2>2 DEF Ready, ListOk, Paths
  <2>4. Shape(n) /\ Same(n, r) /\ n.todo = a \o Tail(todo) /\ n.list \subseteq r.list
    <3> DEFINE m == Put(r, todo, a)
    <3>1. Shape(m) /\ Same(m, r) /\ m.todo = a \o Tail(todo) /\ m.list = r.list
      <4> HIDE DEF a
      <4> QED BY PutFacts DEF Ready
    <3>2. n = [m EXCEPT !.list = @ \ {c}]  BY <1>18
    <3> HIDE DEF m
    <3> QED BY <3>1, <3>2 DEF Shape, Same
  <2> HIDE DEF c
  <2>5. Moves(r, c, MoveTo(c, s[2], s[3]))  BY <1>1, <2>2, <2>3, RenameMoves
  <2>6. Steps(rename_object(c, MoveTo(c, s[2], s[3])), r) /\ Strong(rename_object(c, MoveTo(c, s[2], s[3])), r.p)
    BY <2>5, RenameObjectOk
  <2>7. Steps(b, r) /\ Strong(b, r.p)
    <3>1. Easy(<<"barrier">>, r) /\ Easy(s, r)  BY <1>18, <2>2 DEF Easy, Plain, FileSteps
    <3> QED BY <3>1, QuietLists, QuietIsCalm, CalmIsStrong
  <2> HIDE DEF b
  <2>8. Steps(a, r) /\ Strong(a, r.p)  BY <2>6, <2>7, StepsConcat, WeakConcat DEF Steps
  <2> HIDE DEF a
  <2>9. Weak(a, r.p) /\ Exposed(a, r.p, "got") = {} /\ Exposed(a, r.p, "del") = {}
    BY <2>8, StrongIsWeak DEF Sorts
  <2>10. ListOk(n)  BY <2>4 DEF ListOk, Ready, Same
  <2>11. todo[1][1] \in Blocks  BY <1>3, <1>18 DEF Blocks
  <2>12. Goes(n, r)  BY <1>1, <1>18, <2>4, <2>8, <2>9, <2>10, <2>11, PutOk
  <2> QED BY <2>12
<1>19. ASSUME todo # <<>>, s[1] \in Blocks PROVE Goes(Put(r, todo, <<>>), r)
  BY <1>5, <1>9, <1>19
<1>20. Goes(n, r)
  BY <1>0, <1>2, <1>6, <1>7, <1>8, <1>10, <1>11, <1>12, <1>14, <1>15, <1>16, <1>17, <1>18, <1>19
<1> QED BY <1>20 DEF n

------------------------------------------------------------------------------
(* The next step of a call.                                                *)
LEMMA GoesThrough ==
    ASSUME NEW r, NEW m, NEW n, Goes(m, r), Goes(n, m)
    PROVE  Goes(n, r)
BY DEF Goes, Same

\* Goto runs through the branches before the next step.
LEMMA GotoOk ==
    ASSUME NEW t, NEW r, Ready(r), Goto(t, r)
    PROVE  \E n : task' = [task EXCEPT ![t] = n] /\ Goes(n, r)
<1> DEFINE a == Unfold(r)
           b == Unfold(a)
           c == Unfold(b)
           d == Unfold(c)
<1>1. Goes(a, r)  BY UnfoldOk
<1> HIDE DEF a
<1>2. Goes(b, a)  BY <1>1, UnfoldOk DEF Goes
<1> HIDE DEF b
<1>3. Goes(c, b)  BY <1>2, UnfoldOk DEF Goes
<1> HIDE DEF c
<1>4. Goes(d, c)  BY <1>3, UnfoldOk DEF Goes
<1> HIDE DEF d
<1>5. Goes(b, r)  BY <1>1, <1>2, GoesThrough
<1>6. Goes(c, r)  BY <1>3, <1>5, GoesThrough
<1>7. Goes(d, r)  BY <1>4, <1>6, GoesThrough
<1>8. task' = [task EXCEPT ![t] = d]  BY DEF Goto, a, b, c, d
<1> QED BY <1>7, <1>8

\* The record n differs from r in what nothing here relies on, and in todo.
Like(n, r) == Shape(n) /\ Same(n, r) /\ n.got = r.got /\ ListOk(n)

\* The first step is done.
LEMMA PopOk ==
    ASSUME NEW r, Ready(r), r.todo # <<>>, r.todo[1][1] \notin {"attr", "fill"},
           NEW n, Like(n, r), n.todo = Tail(r.todo)
    PROVE  /\ Ready(n) /\ Same(n, r)
           /\ \A c \in Exposed(n.todo, r.p, "del") :
                  \/ Gives(r.todo[1], "del", c)
                  \/ c \in Exposed(r.todo, r.p, "del") /\ ~Breaks(r.todo[1], "del")
<1> DEFINE s == r.todo
           u == Tail(s)
<1>1. Steps(s, r) /\ Weak(s, r.p) /\ IsSeq(s) /\ s # <<>>  BY DEF Ready, Steps
<1>2. Steps(u, r)  BY <1>1, StepsTail
<1>3. /\ Weak(u, r.p)
      /\ \A k \in Sorts : \A c \in Exposed(u, r.p, k) :
             Gives(s[1], k, c) \/ (c \in Exposed(s, r.p, k) /\ ~Breaks(s[1], k))
  BY <1>1, WeakTail
<1>4. \A c : ~Gives(s[1], "got", c)  BY DEF Gives
<1>5. n.todo = u  OBVIOUS
<1> HIDE DEF u
<1>6. GotOk(n)
  <2>1. \A c \in Exposed(u, r.p, "got") : c \in Exposed(s, r.p, "got")  BY <1>3, <1>4 DEF Sorts
  <2> QED BY <1>5, <2>1 DEF GotOk, Like, Same, Ready
<1>7. Args(n.op, n.p, n.q) /\ n.p = r.p /\ Same(n, r)  BY DEF Ready, Same, Like
<1>8. Steps(n.todo, n)  BY <1>2, <1>5, <1>7, SameSteps
<1>9. Ready(n)  BY <1>3, <1>5, <1>6, <1>7, <1>8 DEF Ready, Like
<1>10. \A c \in Exposed(u, r.p, "del") :
             Gives(s[1], "del", c) \/ (c \in Exposed(s, r.p, "del") /\ ~Breaks(s[1], "del"))
  BY <1>3 DEF Sorts
<1> QED BY <1>5, <1>7, <1>9, <1>10

\* ... when it gave nothing.
LEMMA PopGoes ==
    ASSUME NEW r, Ready(r), r.todo # <<>>, r.todo[1][1] \notin {"attr", "fill", "copy"},
           NEW n, Like(n, r), n.todo = Tail(r.todo)
    PROVE  Goes(n, r)
<1>1. /\ Ready(n) /\ Same(n, r)
      /\ \A c \in Exposed(n.todo, r.p, "del") :
                  \/ Gives(r.todo[1], "del", c)
                  \/ c \in Exposed(r.todo, r.p, "del") /\ ~Breaks(r.todo[1], "del")
  BY PopOk
<1>2. \A c : ~Gives(r.todo[1], "del", c)  BY DEF Gives
<1> QED BY <1>1, <1>2 DEF Goes, Same

\* The answer to get_object_attribute.
LEMMA AnswerOk ==
    ASSUME NEW r, Ready(r), r.todo # <<>>, r.todo[1][1] \in {"attr", "fill"},
           NEW n, Shape(n), Same(n, r), ListOk(n), n.todo = Tail(r.todo),
           r.todo[1][2] \in Files => n.got.kind # "dir"
    PROVE  Goes(n, r)
<1> DEFINE s == r.todo
           u == Tail(s)
<1>1. Steps(s, r) /\ Weak(s, r.p) /\ IsSeq(s) /\ s # <<>>  BY DEF Ready, Steps
<1>2. Steps(u, r)  BY <1>1, StepsTail
<1>3. /\ Weak(u, r.p)
      /\ \A k \in Sorts : \A c \in Exposed(u, r.p, k) :
             Gives(s[1], k, c) \/ (c \in Exposed(s, r.p, k) /\ ~Breaks(s[1], k))
  BY <1>1, WeakTail
<1>4. /\ Breaks(s[1], "got") /\ \A c : Gives(s[1], "got", c) => c = s[1][2]
      /\ \A c : ~Gives(s[1], "del", c)
  BY DEF Gives, Breaks
<1>5. n.todo = u  OBVIOUS
<1> HIDE DEF u
<1>6. GotOk(n)
  <2>1. \A c \in Exposed(u, r.p, "got") : c = s[1][2]  BY <1>3, <1>4 DEF Sorts
  <2> QED BY <1>5, <2>1 DEF GotOk, Same
<1>7. Args(n.op, n.p, n.q) /\ n.p = r.p  BY DEF Ready, Same
<1>8. Steps(n.todo, n)  BY <1>2, <1>5, SameSteps
<1>9. Ready(n)  BY <1>3, <1>5, <1>6, <1>7, <1>8 DEF Ready
<1>10. \A c \in Exposed(u, r.p, "del") : c \in Exposed(s, r.p, "del")  BY <1>3, <1>4 DEF Sorts
<1> QED BY <1>5, <1>7, <1>9, <1>10 DEF Goes

\* Steps in the place of the first one.
LEMMA PushOk ==
    ASSUME NEW r, Ready(r), r.todo # <<>>, NEW a, Steps(a, r),
           \A i \in 1 .. Len(a) : \A k, c : ~Asks(a[i], k, c, r.p),
           \A i \in 1 .. Len(a) : \A k : Breaks(a[i], k) => Breaks(r.todo[1], k),
           \A k, c : ~Gives(r.todo[1], k, c),
           NEW n, Like(n, r), n.todo = a \o Tail(r.todo)
    PROVE  Goes(n, r)
<1> DEFINE s == r.todo
           u == a \o Tail(s)
<1>1. Steps(s, r) /\ Weak(s, r.p) /\ IsSeq(s) /\ s # <<>> /\ IsSeq(a)  BY DEF Ready, Steps
<1>2. Steps(u, r)
  <2> DEFINE b == Tail(s)
  <2>1. Steps(b, r)  BY <1>1, StepsTail
  <2> HIDE DEF b
  <2>2. Steps(a \o b, r)  BY <2>1, StepsConcat
  <2> QED BY <2>2 DEF b
<1>3. Weak(u, r.p) /\ \A k \in Sorts : Exposed(u, r.p, k) \subseteq Exposed(s, r.p, k)
  BY <1>1, WeakPush
<1>5. n.todo = u  OBVIOUS
<1> HIDE DEF u
<1>6. GotOk(n)  BY <1>3, <1>5 DEF GotOk, Like, Same, Ready, Sorts
<1> QED BY <1>2, <1>3, <1>5, <1>6, GoesOn DEF Like, Sorts

\* The step that is tried again with the answer of S3.
LEMMA FillOk ==
    ASSUME NEW r, Ready(r), r.todo # <<>>, NEW x, Plain(x, r),
           r.todo[1][1] = "attr", x[1] = "fill", x[2] = r.todo[1][2], x[5] = r.todo[1][5],
           NEW n, Like(n, r), n.todo = <<x>> \o Tail(r.todo)
    PROVE  Goes(n, r)
<1> DEFINE s == r.todo
           u == <<x>> \o Tail(s)
<1>1. Steps(s, r) /\ Weak(s, r.p) /\ IsSeq(s) /\ s # <<>>  BY DEF Ready, Steps
<1>2. Steps(u, r)
  <2> DEFINE b == Tail(s)
             a == <<x>>
  <2>1. Steps(b, r)  BY <1>1, StepsTail
  <2>2. Steps(a, r)
    <3>1. StepOk(x, r)  BY DEF StepOk
    <3> QED BY <3>1, Lists
  <2> HIDE DEF a, b
  <2>3. Steps(a \o b, r)  BY <2>1, <2>2, StepsConcat
  <2> QED BY <2>3 DEF a, b
<1>3. /\ \A k, c : ~Asks(x, k, c, r.p)
      /\ \A k : Breaks(x, k) <=> Breaks(s[1], k)
      /\ \A k, c : Gives(x, k, c) <=> Gives(s[1], k, c)
  BY DEF Asks, Breaks, Gives, Blocks
<1>4. Weak(u, r.p) /\ \A k \in Sorts : Exposed(u, r.p, k) \subseteq Exposed(s, r.p, k)
  BY <1>1, <1>3, WeakReplace
<1>5. n.todo = u  OBVIOUS
<1> HIDE DEF u
<1>6. GotOk(n)  BY <1>4, <1>5 DEF GotOk, Like, Same, Ready, Sorts
<1> QED BY <1>2, <1>4, <1>5, <1>6, GoesOn DEF Like, Sorts

------------------------------------------------------------------------------
(* The invariant.                                                          *)
Shapes == DOMAIN s3 = Keys /\ DOMAIN ent = Paths /\ DOMAIN wc = Paths

\* Only files have content, handles and dirty data, and no file is a directory.
Kinds ==
    /\ \A p \in Paths : s3[<<p, "/">>].data = Nothing
    /\ \A d \in Dirs : s3[<<d, "">>].data = Nothing /\ ent[d].fds = 0 /\ wc[d] = Clean
    /\ \A f \in Files : \A x \in Forms : s3[<<f, x>>].kind # "dir"
    /\ \A k \in DOMAIN stat : k[1] \in Files => stat[k].obj.kind # "dir"

Calls ==
    /\ DOMAIN task = Tasks
    /\ \A t \in Tasks : /\ Shape(task[t])
                        /\ task[t].op = "idle" => task[t].todo = <<>>
                        /\ task[t].op # "idle" => Ready(task[t])

\* A rename has its trees for itself, but for the background flush.
Apart ==
    \A t, u \in Tasks :
        (t # u /\ task[t].op = "rename" /\ task[u].op \notin {"idle", "bgflush"}) =>
            \A x \in {task[t].p, task[t].q} : ~Under(x, task[u].p) /\ ~Under(x, task[u].q)

\* The objects that a rename has copied and is about to delete.
MovedBy(t, k) ==
    task[t].op = "rename" /\ k[2] = "" /\ k[1] \in Exposed(task[t].todo, task[t].p, "del")
Moving(k) == \E t \in Tasks : MovedBy(t, k)

\* The content of a file is there, and not only where it is about to be deleted.
Kept == \A x \in live : x # Nothing /\ \E k \in Keys : s3[k].data = x /\ ~Moving(k)

IInv == Shapes /\ Kinds /\ Calls /\ Apart /\ Kept

------------------------------------------------------------------------------
(* The step a call is at.                                                  *)
LEMMA Current ==
    ASSUME Calls, NEW t \in Tasks, NEW kind, At(t, kind)
    PROVE  /\ task[t].op # "idle" /\ Ready(task[t]) /\ Shape(task[t])
           /\ task[t].todo # <<>> /\ Step(t) = task[t].todo[1] /\ Step(t)[1] = kind
           /\ kind \notin {"try", "ifdir", "iftype"} => Plain(Step(t), task[t])
<1>1. task[t].op # "idle" /\ Ready(task[t]) /\ Shape(task[t]) /\ task[t].todo # <<>>
      /\ Step(t)[1] = kind
  BY DEF Calls, At
<1>2. IsSeq(task[t].todo)  BY <1>1 DEF Ready, Steps
<1> DEFINE s == Step(t)
<1>3. s = task[t].todo[1] /\ 1 \in 1 .. Len(task[t].todo)
  BY <1>1, <1>2, TailFacts, SeqFacts DEF Step
<1>4. StepOk(s, task[t])  BY <1>1, <1>3 DEF Ready, Steps
<1> HIDE DEF s
<1>5. s[1] = kind  BY <1>1 DEF s
<1>6. kind \notin {"try", "ifdir", "iftype"} => Plain(s, task[t])
  <2>1. \A a, b : <<"try", a, b>>[1] = "try" /\ <<"ifdir", a, b>>[1] = "ifdir"  OBVIOUS
  <2>2. kind \notin {"try", "ifdir"} => \A a, b : s # <<"try", a, b>> /\ s # <<"ifdir", a, b>>
    BY <1>5, <2>1
  <2> QED BY <1>4, <1>5, <2>2 DEF StepOk, TypeBlock
<1> QED BY <1>1, <1>3, <1>6 DEF s

\* What a rename is about to delete is below its path.
LEMMA ExposedUnder ==
    ASSUME NEW r, Ready(r), r.op = "rename", NEW c \in Exposed(r.todo, r.p, "del")
    PROVE  c \in Paths /\ Under(r.p, c)
<1>1. PICK i \in 1 .. Len(r.todo) : Asks(r.todo[i], "del", c, r.p)  BY DEF Exposed
<1>2. c \in Paths  BY DEF Exposed
<1> DEFINE s == r.todo[i]
<1>3. StepOk(s, r) /\ Asks(s, "del", c, r.p) /\ Args(r.op, r.p, r.q)  BY <1>1 DEF Ready, Steps
<1> HIDE DEF s
<1>4. CASE s[1] = "delete" /\ s[2] = c
  <2>1. \A a, b : s # <<"try", a, b>> /\ s # <<"ifdir", a, b>>
    <3>1. \A a, b : <<"try", a, b>>[1] = "try" /\ <<"ifdir", a, b>>[1] = "ifdir"  OBVIOUS
    <3> QED BY <1>4, <3>1
  <2>2. Plain(s, r)  BY <1>3, <1>4, <2>1 DEF StepOk, TypeBlock
  <2> QED BY <1>2, <1>4, <2>2 DEF Plain
<1>5. ASSUME s[1] = "try", NEW j \in DOMAIN s[2], s[2][j] = <<"delete", c>> PROVE Under(r.p, c)
  <2>1. IsSeq(s[2]) => ~Quiet(s[2], r) /\ ~NoDelete(s[2])
    <3>1. SUFFICES ASSUME IsSeq(s[2]) PROVE ~Quiet(s[2], r) /\ ~NoDelete(s[2])
      OBVIOUS
    <3>2. j \in 1 .. Len(s[2])  BY <1>5, <3>1, SeqFacts
    <3>3. ~NoDelete(s[2])  BY <1>5, <3>2 DEF NoDelete
    <3>4. <<"delete", c>>[1] = "delete"  OBVIOUS
    <3> QED BY <1>5, <3>2, <3>3, <3>4 DEF Quiet
  <2>2. ASSUME Steps(s[2], r), NoDelete(s[2]) PROVE FALSE  BY <2>1, <2>2 DEF Steps
  <2>3. ASSUME NEW x \in Paths, s = <<"try", UpdateBody(Parent(x)), "drop">> PROVE FALSE
    <3>1. Calm(UpdateBody(Parent(x)), r)  BY ParentIsDir, UpdateBodyOk
    <3>2. s[2] = UpdateBody(Parent(x))  BY <2>3
    <3> QED BY <2>2, <3>1, <3>2, CalmNoDelete DEF Calm
  <2>4. ASSUME Quiet(s[2], r) PROVE FALSE  BY <2>1, <2>4 DEF Quiet
  <2>5. ASSUME NEW x \in Paths, Under(r.p, x), s = <<"try", s3fs_unlink(x), "keep">> PROVE Under(r.p, c)
    <3>1. s[2] = s3fs_unlink(x)  BY <2>5
    <3>2. \A i2 \in DOMAIN s3fs_unlink(x) : \A c2 : s3fs_unlink(x)[i2] = <<"delete", c2>> => c2 = x
      BY <2>5, UnlinkOk
    <3>3. c = x  BY <1>5, <3>1, <3>2
    <3> QED BY <2>5, <3>3
  <2>6. ASSUME s = <<"try", rename_object(r.p, r.q), "keep">> PROVE FALSE
    <3>1. s[2] = rename_object(r.p, r.q)  BY <2>6
    <3>2. r.p \in Paths /\ Under(r.p, r.p)  BY <1>3, UnderFacts DEF Args
    <3>3. Moves(r, r.p, r.q)  BY <1>3, <3>2, RenameMoves
    <3> QED BY <2>2, <3>1, <3>3, RenameObjectOk
  <2>7. ASSUME r.p \in Dirs, s = <<"try", rename_directory(r.p, r.q), "keep">> PROVE FALSE
    <3>1. s[2] = rename_directory(r.p, r.q)  BY <2>7
    <3>2. Calm(rename_directory(r.p, r.q), r)  BY <2>7, RenameDirectoryOk
    <3> QED BY <2>2, <3>1, <3>2, CalmNoDelete DEF Calm
  <2>8. ~Plain(s, r) /\ s[1] # "iftype" /\ \A a, b : s # <<"ifdir", a, b>>
    <3>1. \A a, b : <<"ifdir", a, b>>[1] = "ifdir"  OBVIOUS
    <3> QED BY <1>5, <3>1 DEF Plain
  <2>9. \/ \E x \in Paths : s = <<"try", UpdateBody(Parent(x)), "drop">>
        \/ Quiet(s[2], r)
        \/ \E x \in Paths : Under(r.p, x) /\ s = <<"try", s3fs_unlink(x), "keep">>
        \/ s = <<"try", rename_object(r.p, r.q), "keep">>
        \/ r.p \in Dirs /\ s = <<"try", rename_directory(r.p, r.q), "keep">>
    BY <1>3, <2>8 DEF StepOk, TypeBlock
  <2> QED BY <2>3, <2>4, <2>5, <2>6, <2>7, <2>9
<1> QED BY <1>2, <1>3, <1>4, <1>5 DEF Asks

\* A call goes on as r: what holds of the calls, and what is about to be deleted.
LEMMA Turn ==
    ASSUME Calls, Apart, NEW t \in Tasks, task[t].op # "idle",
           NEW r, Ready(r), Same(r, task[t]),
           NEW n, task' = [task EXCEPT ![t] = n], Goes(n, r)
    PROVE  /\ Calls' /\ Apart'
           /\ \A k : Moving(k)' => \/ \E u \in Tasks \ {t} : MovedBy(u, k)
                                   \/ /\ task[t].op = "rename" /\ k[2] = ""
                                      /\ k[1] \in Exposed(r.todo, r.p, "del")
<1>1. /\ DOMAIN task' = Tasks /\ task'[t] = n
      /\ \A u \in Tasks \ {t} : task'[u] = task[u]
  BY DEF Calls
<1>2. Ready(n) /\ Same(n, task[t]) /\ Shape(n)  BY DEF Goes, Same, Ready
<1>3. Calls'
  <2>1. DOMAIN task' = Tasks  BY <1>1
  <2>2. ASSUME NEW u \in Tasks
        PROVE  /\ Shape(task'[u])
               /\ task'[u].op = "idle" => task'[u].todo = <<>>
               /\ task'[u].op # "idle" => Ready(task'[u])
    <3>1. CASE u = t  BY <1>1, <1>2, <3>1 DEF Same
    <3>2. CASE u # t  BY <1>1, <3>2 DEF Calls
    <3> QED BY <3>1, <3>2
  <2> QED BY <2>1, <2>2 DEF Calls
<1>4. \A u \in Tasks : task'[u].op = task[u].op /\ task'[u].p = task[u].p /\ task'[u].q = task[u].q
  BY <1>1, <1>2 DEF Same
<1>5. Apart'  BY <1>4 DEF Apart
<1>6. ASSUME NEW k, Moving(k)'
      PROVE  \/ \E u \in Tasks \ {t} : MovedBy(u, k)
             \/ /\ task[t].op = "rename" /\ k[2] = ""
                /\ k[1] \in Exposed(r.todo, r.p, "del")
  <2>1. PICK u \in Tasks : /\ task'[u].op = "rename" /\ k[2] = ""
                           /\ k[1] \in Exposed(task'[u].todo, task'[u].p, "del")
    BY <1>6 DEF Moving, MovedBy
  <2>2. CASE u = t
    <3>1. n.op = "rename" /\ k[1] \in Exposed(n.todo, n.p, "del")  BY <1>1, <2>1, <2>2
    <3>2. k[1] \in Exposed(r.todo, r.p, "del")  BY <3>1 DEF Goes
    <3> QED BY <1>2, <2>1, <3>1, <3>2 DEF Same
  <2>3. CASE u # t
    <3>1. task'[u] = task[u]  BY <1>1, <2>3
    <3>2. MovedBy(u, k)  BY <2>1, <3>1 DEF MovedBy
    <3> QED BY <2>3, <3>2
  <2> QED BY <2>2, <2>3
<1> QED BY <1>3, <1>5, <1>6

\* A step that leaves the bucket alone.
LEMMA Quietly ==
    ASSUME Calls, Apart, Kept, NEW t \in Tasks, task[t].op # "idle",
           NEW r, Goes(r, task[t]), Goto(t, r), UNCHANGED <<s3, live>>
    PROVE  Calls' /\ Apart' /\ Kept'
<1>1. Ready(r) /\ Same(r, task[t])  BY DEF Goes
<1>2. PICK n : task' = [task EXCEPT ![t] = n] /\ Goes(n, r)  BY <1>1, GotoOk
<1>3. /\ Calls' /\ Apart'
      /\ \A k : Moving(k)' => \/ \E u \in Tasks \ {t} : MovedBy(u, k)
                              \/ /\ task[t].op = "rename" /\ k[2] = ""
                                 /\ k[1] \in Exposed(r.todo, r.p, "del")
  BY <1>1, <1>2, Turn
<1>4. \A k : Moving(k)' => Moving(k)
  <2>1. \A c : c \in Exposed(r.todo, r.p, "del") => c \in Exposed(task[t].todo, task[t].p, "del")
    BY DEF Goes, Same
  <2> QED BY <1>3, <2>1 DEF Moving, MovedBy
<1>5. Kept'
  <2>1. s3' = s3 /\ live' = live  OBVIOUS
  <2>2. \A x \in live' : x # Nothing /\ \E k \in Keys : s3'[k].data = x /\ ~Moving(k)'
    BY <1>4, <2>1 DEF Kept
  <2> QED BY <2>2 DEF Kept
<1> QED BY <1>3, <1>5

------------------------------------------------------------------------------
(* The caches of headers.                                                  *)
StatOk(f) == \A k \in DOMAIN f : k[1] \in Files => f[k].obj.kind # "dir"

\* Entries that go, and one that comes, leave no directory at the path of a file.
LEMMA StatFacts ==
    ASSUME NEW f, StatOk(f)
    PROVE  /\ \A K : StatOk(Without(f, K))
           /\ \A p, x, e : (p \in Files => e.obj.kind # "dir") => StatOk(With(f, <<p, x>>, e))
<1>1. \A K : StatOk(Without(f, K))  BY DEF StatOk, Without
<1>2. ASSUME NEW p, NEW x, NEW e, p \in Files => e.obj.kind # "dir"
      PROVE  StatOk(With(f, <<p, x>>, e))
  <2> DEFINE y == <<p, x>>
             g == With(f, y, e)
  <2>1. y[1] = p  OBVIOUS
  <2> HIDE DEF y
  <2>2. DOMAIN g = DOMAIN f \cup {y} /\ \A k \in DOMAIN g : g[k] = IF k = y THEN e ELSE f[k]
    BY DEF With
  <2> HIDE DEF g
  <2>3. StatOk(g)  BY <1>2, <2>1, <2>2 DEF StatOk
  <2> QED BY <2>3 DEF g, y
<1> QED BY <1>1, <1>2

\* AddStat stores no directory at the path of a file.
LEMMA AddStatOk ==
    ASSUME StatOk(stat), NEW p, NEW f, NEW e, p \in Files => e.obj.kind # "dir", AddStat(p, f, e)
    PROVE  StatOk(stat')
<1> DEFINE g == IF <<p, f>> \in DOMAIN stat THEN Without(stat, {<<p, "">>, <<p, "/">>}) ELSE stat
<1>1. stat' = With(g, <<p, f>>, e)  BY DEF AddStat
<1>2. StatOk(g)  BY StatFacts
<1> HIDE DEF g
<1> QED BY <1>1, <1>2, StatFacts

\* The entry that is found is one of the path.
LEMMA CacheKeyOf ==
    ASSUME NEW p, NEW f, NEW over
    PROVE  CacheKey(p, f, over)[1] = p
BY DEF CacheKey

------------------------------------------------------------------------------
(* The steps that leave the bucket alone.                                  *)
LEMMA PopFacts ==
    ASSUME NEW t, Shape(task[t])
    PROVE  /\ Shape(Pop(t)) /\ Same(Pop(t), task[t]) /\ Pop(t).todo = Tail(task[t].todo)
           /\ Pop(t).got = task[t].got /\ Pop(t).list = task[t].list
BY DEF Pop, Shape, Same

\* The same for a call with new steps.
LEMMA PushFacts ==
    ASSUME NEW t, Shape(task[t]), NEW a
    PROVE  /\ Shape(Push(t, a)) /\ Same(Push(t, a), task[t]) /\ Push(t, a).todo = a \o Tail(task[t].todo)
           /\ Push(t, a).got = task[t].got /\ Push(t, a).list = task[t].list
BY DEF Push, Shape, Same

\* The same answer and the same list.
LEMMA LikeOk ==
    ASSUME NEW r, Ready(r), NEW n, Shape(n), Same(n, r), n.got = r.got, n.list = r.list
    PROVE  Like(n, r)
BY DEF Like, Ready, ListOk, Same

\* A step that is done and has changed neither the bucket nor its own call.
LEMMA PopStep ==
    ASSUME IInv, NEW t \in Tasks, NEW kind, At(t, kind),
           kind \notin {"attr", "fill", "copy"},
           NEW n, Shape(n), Same(n, task[t]), n.got = task[t].got, n.list = task[t].list,
           n.todo = Tail(task[t].todo), Goto(t, n), UNCHANGED <<s3, live>>
    PROVE  Calls' /\ Apart' /\ Kept'
<1>1. /\ task[t].op # "idle" /\ Ready(task[t]) /\ task[t].todo # <<>>
      /\ task[t].todo[1][1] = kind
  BY Current DEF IInv
<1>2. Like(n, task[t])  BY <1>1, LikeOk
<1>3. Goes(n, task[t])  BY <1>1, <1>2, PopGoes
<1> QED BY <1>1, <1>3, Quietly DEF IInv

\* A step that is merely done.
LEMMA PopStays ==
    ASSUME IInv, NEW t \in Tasks, NEW kind, At(t, kind),
           kind \notin {"attr", "fill", "copy"}, Goto(t, Pop(t)), UNCHANGED <<s3, live>>
    PROVE  Calls' /\ Apart' /\ Kept'
<1>1. Shape(task[t])  BY DEF IInv, Calls
<1> QED BY <1>1, PopFacts, PopStep

\* A step that has failed.
LEMMA FailStays ==
    ASSUME IInv, NEW t \in Tasks, NEW kind, At(t, kind),
           NEW err, Goto(t, Failed(task[t], err)), UNCHANGED <<s3, live>>
    PROVE  Calls' /\ Apart' /\ Kept'
<1>1. task[t].op # "idle" /\ Ready(task[t])  BY Current DEF IInv
<1>2. Goes(Failed(task[t], err), task[t])  BY <1>1, FailedOk
<1> QED BY <1>1, <1>2, Quietly DEF IInv

\* Steps that rely on nothing in the place of one that gives nothing.
LEMMA PushStep ==
    ASSUME IInv, NEW t \in Tasks, NEW kind, At(t, kind), kind \notin {"attr", "fill", "copy"},
           NEW a, Quiet(a, task[t]),
           \A i \in 1 .. Len(a) : \A k : Breaks(a[i], k) => Breaks(Step(t), k),
           NEW n, Shape(n), Same(n, task[t]), n.got = task[t].got, ListOk(n),
           n.todo = a \o Tail(task[t].todo), Goto(t, n), UNCHANGED <<s3, live>>
    PROVE  Calls' /\ Apart' /\ Kept'
<1>1. /\ task[t].op # "idle" /\ Ready(task[t]) /\ task[t].todo # <<>>
      /\ task[t].todo[1][1] = kind /\ Step(t) = task[t].todo[1]
  BY Current DEF IInv
<1>2. Like(n, task[t])  BY <1>1 DEF Like
<1>3. Steps(a, task[t]) /\ \A i \in 1 .. Len(a) : \A k, c : ~Asks(a[i], k, c, task[t].p)
  BY QuietIsCalm DEF Calm
<1>4. \A k, c : ~Gives(task[t].todo[1], k, c)  BY <1>1 DEF Gives
<1>5. \A i \in 1 .. Len(a) : \A k : Breaks(a[i], k) => Breaks(task[t].todo[1], k)  BY <1>1
<1>6. Goes(n, task[t])  BY <1>1, <1>2, <1>3, <1>4, <1>5, PushOk
<1> QED BY <1>1, <1>6, Quietly DEF IInv

\* What is left of the invariant when the bucket and the entities stay.
LEMMA RestStays ==
    ASSUME IInv, Calls', Apart', Kept', UNCHANGED <<s3, ent, wc>>, StatOk(stat')
    PROVE  IInv'
BY DEF IInv, Shapes, Kinds, StatOk

\* The steps of the stat cache and of the symbolic link cache.
LEMMA StatStepOk ==
    ASSUME IInv, NEW t \in Tasks, StatStep(t)
    PROVE  IInv'
<1>1. StatOk(stat)  BY DEF IInv, Kinds, StatOk
<1>2. StatOk(stat')  BY <1>1, StatFacts DEF StatStep, DelStat
<1>3. Calls' /\ Apart' /\ Kept'
  <2>1. PICK kind \in {"delstat", "openstat", "delsym", "addsym", "readlink"} : At(t, kind)
    BY DEF StatStep
  <2>2. Goto(t, Pop(t)) /\ UNCHANGED <<s3, live>>  BY DEF StatStep, store
  <2> QED BY <2>1, <2>2, PopStays
<1> QED BY <1>2, <1>3, RestStays DEF StatStep, store

\* readlink from the cache.
LEMMA GetSymlinkOk ==
    ASSUME IInv, NEW t \in Tasks, GetSymlink(t)
    PROVE  IInv'
<1>1. StatOk(stat')  BY DEF IInv, Kinds, StatOk, GetSymlink
<1>2. At(t, "getsym") /\ UNCHANGED <<s3, live>>  BY DEF GetSymlink, store, history
<1>3. Calls' /\ Apart' /\ Kept'
  <2>1. CASE Goto(t, Pop(t))  BY <1>2, <2>1, PopStays
  <2>2. CASE Goto(t, [Pop(t) EXCEPT !.todo = <<>>])
    <3> DEFINE n == [Pop(t) EXCEPT !.todo = <<>>]
    <3>1. task[t].op # "idle" /\ Ready(task[t])  BY <1>2, Current DEF IInv
    <3>2. Shape(n) /\ Same(n, task[t]) /\ n.todo = <<>> /\ n.list = task[t].list
      BY <3>1 DEF Pop, Shape, Same, Ready
    <3> HIDE DEF n
    <3>3. ListOk(n)  BY <3>1, <3>2 DEF ListOk, Ready, Same
    <3>4. Steps(<<>>, task[t]) /\ Weak(<<>>, task[t].p)
          /\ \A k \in Sorts : Exposed(<<>>, task[t].p, k) = {}
      <4>1. Calm(<<>>, task[t])  BY Lists, QuietIsCalm
      <4> QED BY <4>1, CalmIsStrong, StrongIsWeak
    <3>5. GotOk(n)  BY <3>2, <3>4 DEF GotOk, Same, Sorts
    <3>6. Goes(n, task[t])  BY <3>1, <3>2, <3>3, <3>4, <3>5, GoesOn DEF Sorts
    <3> QED BY <1>2, <2>2, <3>1, <3>6, Quietly DEF IInv, n
  <2> QED BY <2>1, <2>2 DEF GetSymlink
<1> QED BY <1>1, <1>3, RestStays DEF GetSymlink, store

\* accessor->Get.
LEMMA ReadCacheGetOk ==
    ASSUME IInv, NEW t \in Tasks, ReadCacheGet(t)
    PROVE  IInv'
<1>1. StatOk(stat')  BY DEF IInv, Kinds, StatOk, ReadCacheGet, caches
<1>2. Calls' /\ Apart' /\ Kept'
  <2>1. At(t, "read") /\ Goto(t, Pop(t)) /\ UNCHANGED <<s3, live>>  BY DEF ReadCacheGet, history
  <2> QED BY <2>1, PopStays
<1> QED BY <1>1, <1>2, RestStays DEF ReadCacheGet

\* The end of a readdir.
LEMMA ListShownOk ==
    ASSUME IInv, NEW t \in Tasks, ListShown(t)
    PROVE  IInv'
<1>1. StatOk(stat')  BY DEF IInv, Kinds, StatOk, ListShown, caches
<1>2. Calls' /\ Apart' /\ Kept'
  <2>1. At(t, "listed") /\ Goto(t, Pop(t)) /\ UNCHANGED <<s3, live>>  BY DEF ListShown, store, history
  <2> QED BY <2>1, PopStays
<1> QED BY <1>1, <1>2, RestStays DEF ListShown, store

\* ... when only the bucket stays.
LEMMA RestIsOk ==
    ASSUME IInv, Calls', Apart', Kept', UNCHANGED s3, StatOk(stat'),
           DOMAIN ent' = Paths, DOMAIN wc' = Paths,
           \A d \in Dirs : ent'[d].fds = 0 /\ wc'[d] = Clean
    PROVE  IInv'
BY DEF IInv, Shapes, Kinds, StatOk

\* No path is both a file and a directory.
LEMMA FilesAreNotDirs == \A f \in Files : f \notin Dirs /\ f \in Paths
BY NamespaceAssumption DEF Paths

\* The entity and the entry of a new file.
LEMMA CreateOk ==
    ASSUME IInv, NEW t \in Tasks, Create(t)
    PROVE  IInv'
<1> DEFINE p == Step(t)[2]
           o == Obj("file", Nothing, 0)
           e == Entry(o, FALSE, 1)
           x == [fds |-> ent[p].fds + 1, pend |-> "create", mark |-> TRUE, mode |-> 0]
<1>1. At(t, "create") /\ UNCHANGED <<s3, live, wc>> /\ Goto(t, Pop(t)) /\ AddStat(p, "", e)
      /\ ent' = [ent EXCEPT ![p] = x]
  BY DEF Create, store, history
<1>2. Calls' /\ Apart' /\ Kept'  BY <1>1, PopStays
<1>3. p \in Files
  <2>0. At(t, "create")  BY DEF Create
  <2>1. Plain(Step(t), task[t]) /\ Step(t)[1] = "create"  BY <2>0, Current DEF IInv
  <2> QED BY <2>1 DEF Plain, FileSteps
<1>4. StatOk(stat')
  <2>1. e.obj.kind # "dir"  BY DEF Entry, Obj
  <2>2. StatOk(stat)  BY DEF IInv, Kinds, StatOk
  <2> HIDE DEF e, p
  <2> QED BY <1>1, <2>1, <2>2, AddStatOk
<1> HIDE DEF x, p
<1>5. DOMAIN ent' = Paths /\ \A d \in Dirs : ent'[d] = ent[d]
  BY <1>1, <1>3, FilesAreNotDirs DEF IInv, Shapes, Paths
<1>6. \A d \in Dirs : ent[d].fds = 0 /\ wc[d] = Clean  BY DEF IInv, Kinds
<1>7. DOMAIN wc' = Paths /\ wc' = wc  BY <1>1 DEF IInv, Shapes
<1> QED BY <1>1, <1>2, <1>4, <1>5, <1>6, <1>7, RestIsOk

\* accessor->Put.
LEMMA WriteCachePutOk ==
    ASSUME IInv, NEW t \in Tasks, WriteCachePut(t)
    PROVE  IInv'
<1> DEFINE p == Step(t)[2]
           x == <<p, task[t].v>>
           y == [ent[p] EXCEPT !.mark = TRUE]
<1>1. At(t, "write") /\ UNCHANGED <<s3, live, stat>> /\ Goto(t, Pop(t))
      /\ wc' = [wc EXCEPT ![p] = x] /\ ent' = [ent EXCEPT ![p] = y]
  BY DEF WriteCachePut, caches, history
<1>2. Calls' /\ Apart' /\ Kept'  BY <1>1, PopStays
<1>3. p \in Files
  <2>1. Plain(Step(t), task[t]) /\ Step(t)[1] = "write"  BY <1>1, Current DEF IInv
  <2> QED BY <2>1 DEF Plain, FileSteps
<1>4. StatOk(stat')  BY <1>1 DEF IInv, Kinds, StatOk
<1> HIDE DEF x, y, p
<1>5. DOMAIN ent' = Paths /\ DOMAIN wc' = Paths /\ \A d \in Dirs : ent'[d] = ent[d] /\ wc'[d] = wc[d]
  BY <1>1, <1>3, FilesAreNotDirs DEF IInv, Shapes, Paths
<1>6. \A d \in Dirs : ent[d].fds = 0 /\ wc[d] = Clean  BY DEF IInv, Kinds
<1> QED BY <1>1, <1>2, <1>4, <1>5, <1>6, RestIsOk

\* The steps of the open files; a rename moves an entity only from file to file.
LEMMA EntityStepOk ==
    ASSUME IInv, NEW t \in Tasks, EntityStep(t)
    PROVE  IInv'
<1> DEFINE p == Step(t)[2]
<1>1. UNCHANGED <<s3, live, stat, wc>>  BY DEF EntityStep, store, caches, history
<1>2. StatOk(stat')  BY <1>1 DEF IInv, Kinds, StatOk
<1>3. DOMAIN ent = Paths /\ DOMAIN wc' = Paths /\ \A d \in Dirs : ent[d].fds = 0 /\ wc'[d] = Clean
  BY <1>1 DEF IInv, Shapes, Kinds
<1>4. ASSUME NEW kind \in FileSteps, At(t, kind), Goto(t, Pop(t)),
             NEW x, ent' = [ent EXCEPT ![p] = x]
      PROVE  IInv'
  <2>1. kind \notin {"attr", "fill", "copy", "try", "ifdir", "iftype"}  BY DEF FileSteps
  <2>2. Calls' /\ Apart' /\ Kept'  BY <1>1, <1>4, <2>1, PopStays
  <2>3. p \in Files
    <3>1. Plain(Step(t), task[t]) /\ Step(t)[1] = kind  BY <1>4, <2>1, Current DEF IInv
    <3> QED BY <1>4, <3>1 DEF Plain
  <2> HIDE DEF p
  <2>4. DOMAIN ent' = Paths /\ \A d \in Dirs : ent'[d] = ent[d]
    BY <1>3, <1>4, <2>3, FilesAreNotDirs DEF Paths
  <2> QED BY <1>1, <1>2, <1>3, <2>2, <2>4, RestIsOk
<1>5. ASSUME At(t, "fdrename"), Goto(t, Pop(t)),
             ent' = [ent EXCEPT ![Step(t)[3]] = IF ent[p].fds > 0 THEN ent[p] ELSE @, ![p] = NoEnt]
      PROVE  IInv'
  <2>1. Calls' /\ Apart' /\ Kept'  BY <1>1, <1>5, PopStays
  <2> DEFINE q == Step(t)[3]
  <2>2. p \in Paths /\ q \in Paths /\ (p \in Dirs <=> q \in Dirs)
    <3>1. Plain(Step(t), task[t]) /\ Step(t)[1] = "fdrename"  BY <1>5, Current DEF IInv
    <3> QED BY <3>1 DEF Plain
  <2> HIDE DEF p, q
  <2>3. /\ DOMAIN ent' = Paths
        /\ \A d \in Paths : ent'[d] = IF d = p THEN NoEnt
                                     ELSE IF d = q THEN IF ent[p].fds > 0 THEN ent[p] ELSE ent[q]
                                     ELSE ent[d]
    BY <1>3, <1>5, <2>2 DEF q
  <2>4. NoEnt.fds = 0 /\ ~(0 > 0)  BY DEF NoEnt
  <2>5. \A d \in Dirs : ent'[d].fds = 0  BY <1>3, <2>2, <2>3, <2>4 DEF Paths
  <2> QED BY <1>1, <1>2, <1>3, <2>1, <2>3, <2>5, RestIsOk
<1>6. ASSUME At(t, "flushopen"), UNCHANGED ent,
             Goto(t, IF ent[p].fds > 0 THEN Push(t, <<<<"rowflush", p, "forced">>, <<"delstat", p>>>>)
                     ELSE Pop(t))
      PROVE  IInv'
  <2> DEFINE x == <<"rowflush", p, "forced">>
             y == <<"delstat", p>>
             a == <<x, y>>
  <2>0. p \in Paths /\ Step(t)[1] = "flushopen" /\ Shape(task[t]) /\ Ready(task[t])
    <3>1. Plain(Step(t), task[t]) /\ Step(t)[1] = "flushopen" /\ Shape(task[t]) /\ Ready(task[t])
      BY <1>6, Current DEF IInv
    <3> QED BY <3>1 DEF Plain
  <2>1. CASE ent[p].fds > 0
    <3>1. p \in Files
      <4>1. ~(0 > 0)  OBVIOUS
      <4>2. p \notin Dirs  BY <1>3, <2>1, <4>1
      <4> QED BY <2>0, <4>2 DEF Paths
    <3>2. Easy(x, task[t]) /\ Easy(y, task[t])  BY <3>1 DEF Easy, Plain, FileSteps
    <3>3. Len(a) = 2 /\ a[1] = x /\ a[2] = y  BY TupleFacts
    <3>4. Quiet(a, task[t])  BY <3>2, QuietLists
    <3>5. \A k : (Breaks(x, k) => Breaks(Step(t), k)) /\ ~Breaks(y, k)
      BY <2>0 DEF Breaks, Blocks
    <3> HIDE DEF x, y
    <3>6. \A i \in 1 .. Len(a) : \A k : Breaks(a[i], k) => Breaks(Step(t), k)
      BY <3>3, <3>5
    <3>7. Goto(t, Push(t, a))  BY <1>6, <2>1 DEF x, y
    <3> HIDE DEF a
    <3>8. /\ Shape(Push(t, a)) /\ Same(Push(t, a), task[t])
          /\ Push(t, a).todo = a \o Tail(task[t].todo)
          /\ Push(t, a).got = task[t].got /\ Push(t, a).list = task[t].list
      BY <2>0, PushFacts
    <3>9. ListOk(Push(t, a))  BY <2>0, <3>8 DEF ListOk, Ready, Same
    <3>10. Calls' /\ Apart' /\ Kept'  BY <1>1, <1>6, <3>4, <3>6, <3>7, <3>8, <3>9, PushStep
    <3> QED BY <1>1, <1>2, <1>6, <3>10, RestStays
  <2>2. CASE ~(ent[p].fds > 0)
    <3>1. Calls' /\ Apart' /\ Kept'  BY <1>1, <1>6, <2>2, PopStays
    <3> QED BY <1>1, <1>2, <1>6, <3>1, RestStays
  <2> QED BY <2>1, <2>2
<1>7. \/ /\ At(t, "fdrename") /\ Goto(t, Pop(t))
         /\ ent' = [ent EXCEPT ![Step(t)[3]] = IF ent[p].fds > 0 THEN ent[p] ELSE @, ![p] = NoEnt]
      \/ \E x : /\ At(t, "markmeta") /\ Goto(t, Pop(t)) /\ ent' = [ent EXCEPT ![p] = x]
      \/ \E x : /\ At(t, "clearpend") /\ Goto(t, Pop(t)) /\ ent' = [ent EXCEPT ![p] = x]
      \/ \E x : /\ At(t, "close") /\ Goto(t, Pop(t)) /\ ent' = [ent EXCEPT ![p] = x]
      \/ /\ At(t, "flushopen") /\ UNCHANGED ent
         /\ Goto(t, IF ent[p].fds > 0 THEN Push(t, <<<<"rowflush", p, "forced">>, <<"delstat", p>>>>)
                    ELSE Pop(t))
  BY DEF EntityStep
<1>8. {"markmeta", "clearpend", "close"} \subseteq FileSteps  BY DEF FileSteps
<1> QED BY <1>4, <1>5, <1>6, <1>7, <1>8

\* RowFlush pushes the upload.
LEMMA RowFlushOk ==
    ASSUME IInv, NEW t \in Tasks, RowFlush(t)
    PROVE  IInv'
<1> DEFINE p == Step(t)[2]
<1>1. At(t, "rowflush") /\ UNCHANGED <<s3, live, stat, wc, ent>>
  BY DEF RowFlush, store, caches, history
<1>2. StatOk(stat')  BY <1>1 DEF IInv, Kinds, StatOk
<1>3. Plain(Step(t), task[t]) /\ Step(t)[1] = "rowflush" /\ Shape(task[t]) /\ Ready(task[t])
  BY <1>1, Current DEF IInv
<1>4. p \in Files  BY <1>3 DEF Plain, FileSteps
<1> DEFINE x == <<"upload", p>>
           a == <<x>>
<1>5. \/ \E b : Goto(t, [Pop(t) EXCEPT !.isnew = b])
      \/ \E b, c : Goto(t, [Push(t, a) EXCEPT !.up = c, !.isnew = b])
  BY DEF RowFlush
<1>6. ASSUME NEW b, Goto(t, [Pop(t) EXCEPT !.isnew = b]) PROVE Calls' /\ Apart' /\ Kept'
  <2> DEFINE n == [Pop(t) EXCEPT !.isnew = b]
  <2>1. Shape(n) /\ Same(n, task[t]) /\ n.todo = Tail(task[t].todo) /\ n.list = task[t].list /\ n.got = task[t].got
    BY <1>3 DEF Pop, Shape, Same
  <2> HIDE DEF n
  <2> QED BY <1>1, <1>6, <2>1, PopStep DEF n
<1>7. ASSUME NEW b, NEW c, Goto(t, [Push(t, a) EXCEPT !.up = c, !.isnew = b]) PROVE Calls' /\ Apart' /\ Kept'
  <2> DEFINE n == [Push(t, a) EXCEPT !.up = c, !.isnew = b]
  <2>1. Easy(x, task[t])  BY <1>4 DEF Easy, Plain, FileSteps
  <2>2. Len(a) = 1 /\ a[1] = x  BY TupleFacts
  <2>3. Quiet(a, task[t])  BY <2>1, QuietLists
  <2>4. \A k : Breaks(x, k) => Breaks(Step(t), k)  BY <1>3 DEF Breaks, Blocks
  <2> HIDE DEF x
  <2>5. \A i \in 1 .. Len(a) : \A k : Breaks(a[i], k) => Breaks(Step(t), k)  BY <2>2, <2>4
  <2> HIDE DEF a
  <2>6. Shape(n) /\ Same(n, task[t]) /\ n.todo = a \o Tail(task[t].todo) /\ n.list = task[t].list /\ n.got = task[t].got
    BY <1>3 DEF Push, Shape, Same
  <2> HIDE DEF n
  <2>7. ListOk(n)  BY <1>3, <2>6 DEF ListOk, Ready, Same
  <2>8. Goto(t, n)  BY <1>7 DEF n
  <2> QED BY <1>1, <2>3, <2>5, <2>6, <2>7, <2>8, PushStep
<1> HIDE DEF a
<1> QED BY <1>1, <1>2, <1>5, <1>6, <1>7, RestStays

\* The background flush pushes the upload.
LEMMA FlushDirtyOk ==
    ASSUME IInv, NEW t \in Tasks, FlushDirty(t)
    PROVE  IInv'
<1> DEFINE p == Step(t)[2]
<1>1. At(t, "bgflush") /\ UNCHANGED <<s3, live, stat, wc, ent>>
  BY DEF FlushDirty, store, caches, history
<1>2. StatOk(stat')  BY <1>1 DEF IInv, Kinds, StatOk
<1>3. Plain(Step(t), task[t]) /\ Step(t)[1] = "bgflush" /\ Shape(task[t]) /\ Ready(task[t])
  BY <1>1, Current DEF IInv
<1>4. p \in Files  BY <1>3 DEF Plain, FileSteps
<1> DEFINE x == <<"upload", p>>
           a == <<x>>
<1>5. \/ Goto(t, Failed(task[t], "EIO"))
      \/ \E c : Goto(t, [Push(t, a) EXCEPT !.up = c])
  BY DEF FlushDirty
<1>6. ASSUME Goto(t, Failed(task[t], "EIO")) PROVE Calls' /\ Apart' /\ Kept'
  BY <1>1, <1>6, FailStays
<1>7. ASSUME NEW c, Goto(t, [Push(t, a) EXCEPT !.up = c]) PROVE Calls' /\ Apart' /\ Kept'
  <2> DEFINE n == [Push(t, a) EXCEPT !.up = c]
  <2>1. Easy(x, task[t])  BY <1>4 DEF Easy, Plain, FileSteps
  <2>2. Len(a) = 1 /\ a[1] = x  BY TupleFacts
  <2>3. Quiet(a, task[t])  BY <2>1, QuietLists
  <2>4. \A k : Breaks(x, k) => Breaks(Step(t), k)  BY <1>3 DEF Breaks, Blocks
  <2> HIDE DEF x
  <2>5. \A i \in 1 .. Len(a) : \A k : Breaks(a[i], k) => Breaks(Step(t), k)  BY <2>2, <2>4
  <2> HIDE DEF a
  <2>6. Shape(n) /\ Same(n, task[t]) /\ n.todo = a \o Tail(task[t].todo) /\ n.list = task[t].list /\ n.got = task[t].got
    BY <1>3 DEF Push, Shape, Same
  <2> HIDE DEF n
  <2>7. ListOk(n)  BY <1>3, <2>6 DEF ListOk, Ready, Same
  <2>8. Goto(t, n)  BY <1>7 DEF n
  <2> QED BY <1>1, <2>3, <2>5, <2>6, <2>7, <2>8, PushStep
<1> HIDE DEF a
<1> QED BY <1>1, <1>2, <1>5, <1>6, <1>7, RestStays

\* Steps that break nothing.
NoBreak(s) == \A i \in 1 .. Len(s) : \A k : ~Breaks(s[i], k)

\* Two lists that break nothing make one.
LEMMA NoBreakConcat ==
    ASSUME NEW a, NEW b, IsSeq(a), IsSeq(b), NoBreak(a), NoBreak(b)
    PROVE  NoBreak(a \o b)
<1>1. \A i \in 1 .. Len(a \o b) : \/ i \in 1 .. Len(a) /\ (a \o b)[i] = a[i]
                                  \/ \E j \in 1 .. Len(b) : i = Len(a) + j /\ (a \o b)[i] = b[j]
  BY ConcatCases
<1> QED BY <1>1 DEF NoBreak

\* A list of two such steps.
LEMMA QuietPair ==
    ASSUME NEW r, NEW y, NEW z, Easy(y, r), Easy(z, r), \A k : ~Breaks(y, k) /\ ~Breaks(z, k)
    PROVE  Quiet(<<y>> \o <<z>>, r) /\ NoBreak(<<y>> \o <<z>>)
<1> DEFINE a == <<y>>
           b == <<z>>
<1>1. IsSeq(a) /\ IsSeq(b)  BY TupleFacts
<1>2. Len(a) = 1 /\ a[1] = y /\ Len(b) = 1 /\ b[1] = z  BY TupleFacts
<1>3. Quiet(a, r) /\ Quiet(b, r)  BY QuietLists
<1> HIDE DEF a, b
<1>4. Quiet(a \o b, r)  BY <1>3, QuietConcat
<1>5. NoBreak(a) /\ NoBreak(b)  BY <1>2 DEF NoBreak
<1>6. NoBreak(a \o b)  BY <1>1, <1>5, NoBreakConcat
<1> QED BY <1>4, <1>6 DEF a, b

\* UploadPending pushes a flush or a put of the headers.
LEMMA UploadPendingOk ==
    ASSUME IInv, NEW t \in Tasks, UploadPending(t)
    PROVE  IInv'
<1> DEFINE p == Step(t)[2]
           x == <<"rowflush", p, "forced">>
           a == <<x>>
           y == <<"puthead", p, "", ent[p].mode>>
           z == <<"clearpend", p>>
           c == <<y>> \o <<z>>
<1>0. At(t, "pending")  BY DEF UploadPending
<1>1. UNCHANGED <<s3, live, stat, wc, ent>>  BY DEF UploadPending, store, caches, history
<1>2. StatOk(stat')  BY <1>1 DEF IInv, Kinds, StatOk
<1>3. Plain(Step(t), task[t]) /\ Step(t)[1] = "pending" /\ Shape(task[t]) /\ Ready(task[t])
  BY <1>0, Current DEF IInv
<1>4. p \in Files  BY <1>3 DEF Plain, FileSteps
<1>5. \/ \E b : Goto(t, [Push(t, a) EXCEPT !.isnew = b])
      \/ \E b : Goto(t, [Push(t, c) EXCEPT !.isnew = b])
      \/ \E b : Goto(t, [Pop(t) EXCEPT !.isnew = b])
  BY DEF UploadPending, put_headers
<1>6. /\ Easy(x, task[t]) /\ Easy(y, task[t]) /\ Easy(z, task[t])
      /\ \A k : (Breaks(x, k) => Breaks(Step(t), k)) /\ ~Breaks(y, k) /\ ~Breaks(z, k)
  <2>1. Easy(x, task[t]) /\ Easy(y, task[t]) /\ Easy(z, task[t])
    BY <1>4 DEF Easy, Plain, FileSteps
  <2>2. \A k : (Breaks(x, k) => Breaks(Step(t), k)) /\ ~Breaks(y, k) /\ ~Breaks(z, k)
    BY <1>3 DEF Breaks, Blocks
  <2> QED BY <2>1, <2>2
<1> HIDE DEF x, y, z
<1>7. Quiet(a, task[t]) /\ \A i \in 1 .. Len(a) : \A k : Breaks(a[i], k) => Breaks(Step(t), k)
  <2>1. Len(a) = 1 /\ a[1] = x  BY TupleFacts
  <2>2. Quiet(a, task[t])  BY <1>6, QuietLists
  <2> HIDE DEF a
  <2> QED BY <1>6, <2>1, <2>2
<1>8. Quiet(c, task[t]) /\ \A i \in 1 .. Len(c) : \A k : Breaks(c[i], k) => Breaks(Step(t), k)
  BY <1>6, QuietPair DEF NoBreak
<1> HIDE DEF a, c
<1>9. ASSUME NEW b, Goto(t, [Pop(t) EXCEPT !.isnew = b]) PROVE Calls' /\ Apart' /\ Kept'
  <2> DEFINE n == [Pop(t) EXCEPT !.isnew = b]
  <2>1. Shape(n) /\ Same(n, task[t]) /\ n.todo = Tail(task[t].todo) /\ n.list = task[t].list /\ n.got = task[t].got
    BY <1>3 DEF Pop, Shape, Same
  <2> HIDE DEF n
  <2>2. Goto(t, n)  BY <1>9 DEF n
  <2> QED BY <1>0, <1>1, <2>1, <2>2, PopStep
<1>10. ASSUME NEW b, NEW d \in {a, c}, Goto(t, [Push(t, d) EXCEPT !.isnew = b]) PROVE Calls' /\ Apart' /\ Kept'
  <2> DEFINE n == [Push(t, d) EXCEPT !.isnew = b]
  <2>1. Shape(n) /\ Same(n, task[t]) /\ n.todo = d \o Tail(task[t].todo) /\ n.list = task[t].list /\ n.got = task[t].got
    BY <1>3 DEF Push, Shape, Same
  <2> HIDE DEF n
  <2>2. ListOk(n)  BY <1>3, <2>1 DEF ListOk, Ready, Same
  <2>3. Goto(t, n)  BY <1>10 DEF n
  <2>4. Quiet(d, task[t]) /\ \A i \in 1 .. Len(d) : \A k : Breaks(d[i], k) => Breaks(Step(t), k)
    BY <1>7, <1>8
  <2> QED BY <1>0, <1>1, <2>1, <2>2, <2>3, <2>4, PushStep
<1> QED BY <1>1, <1>2, <1>5, <1>9, <1>10, RestStays

\* MergeOrgMeta uses the kind that the answer before it gave.
LEMMA MergeOrgMetaOk ==
    ASSUME IInv, NEW t \in Tasks, MergeOrgMeta(t)
    PROVE  IInv'
<1> DEFINE p == Step(t)[2]
           v == Step(t)[3]
           o == Obj(task[t].got.kind, task[t].got.data, v)
           e == Entry(o, FALSE, 1)
           y == <<"puthead", p, "", v>>
           z == <<"delstat", p>>
           c == <<y>> \o <<z>>
<1>0. At(t, "merge")  BY DEF MergeOrgMeta
<1>1. /\ UNCHANGED <<s3, live, wc>>
      /\ ent' = IF ent[p].fds > 0 THEN [ent EXCEPT ![p].mode = v] ELSE ent
      /\ \/ AddStat(p, "", e) /\ Goto(t, Pop(t))
         \/ UNCHANGED caches /\ Goto(t, Push(t, c))
  BY DEF MergeOrgMeta, store, history, put_headers
<1>2. /\ Plain(Step(t), task[t]) /\ Step(t)[1] = "merge" /\ Shape(task[t]) /\ Ready(task[t])
      /\ task[t].todo # <<>> /\ Step(t) = task[t].todo[1]
  BY <1>0, Current DEF IInv
<1>3. p = task[t].p /\ p \in Paths  BY <1>2 DEF Plain
<1>4. p \in Files => e.obj.kind # "dir"
  <2>1. ASSUME p \in Files PROVE task[t].got.kind # "dir"
    <3>1. Asks(task[t].todo[1], "got", p, task[t].p)  BY <1>2 DEF Asks
    <3>2. 1 \in 1 .. Len(task[t].todo)
      <4>1. IsSeq(task[t].todo)  BY <1>2 DEF Ready, Steps
      <4> QED BY <1>2, <4>1, SeqFacts
    <3>3. Unbroken(task[t].todo, 1, "got") /\ ~Given(task[t].todo, 1, "got", p)
      <4>1. 1 .. 1 - 1 = {}  OBVIOUS
      <4> QED BY <4>1 DEF Unbroken, Given
    <3>4. p \in Exposed(task[t].todo, task[t].p, "got")  BY <1>3, <3>1, <3>2, <3>3 DEF Exposed
    <3> QED BY <1>2, <2>1, <3>4 DEF Ready, GotOk
  <2>2. e.obj.kind = task[t].got.kind  BY DEF Entry, Obj
  <2> QED BY <2>1, <2>2
<1>5. StatOk(stat')
  <2>1. StatOk(stat)  BY DEF IInv, Kinds, StatOk
  <2> HIDE DEF e, p
  <2>2. CASE AddStat(p, "", e)  BY <1>4, <2>1, <2>2, AddStatOk
  <2>3. CASE UNCHANGED caches  BY <2>1, <2>3 DEF caches
  <2> QED BY <1>1, <2>2, <2>3
<1>6. DOMAIN ent = Paths /\ DOMAIN wc' = Paths /\ \A d \in Dirs : ent[d].fds = 0 /\ wc'[d] = Clean
  BY <1>1 DEF IInv, Shapes, Kinds
<1>7. DOMAIN ent' = Paths /\ \A d \in Dirs : ent'[d] = ent[d]
  <2>1. CASE ent[p].fds > 0
    <3> DEFINE w == [ent[p] EXCEPT !.mode = v]
    <3>1. ent' = [ent EXCEPT ![p] = w]  BY <1>1, <2>1
    <3> HIDE DEF w
    <3>2. p \notin Dirs
      <4>1. ~(0 > 0)  OBVIOUS
      <4> QED BY <1>6, <2>1, <4>1
    <3> HIDE DEF p
    <3> QED BY <1>6, <3>1, <3>2 DEF Paths
  <2>2. CASE ~(ent[p].fds > 0)  BY <1>1, <1>6, <2>2
  <2> QED BY <2>1, <2>2
<1>8. Quiet(c, task[t]) /\ \A i \in 1 .. Len(c) : \A k : Breaks(c[i], k) => Breaks(Step(t), k)
  <2>0. Easy(y, task[t]) /\ Easy(z, task[t]) /\ \A k : ~Breaks(y, k) /\ ~Breaks(z, k)
    BY DEF Easy, Plain, FileSteps, Breaks, Blocks
  <2> HIDE DEF y, z
  <2> QED BY <2>0, QuietPair DEF NoBreak
<1> HIDE DEF c
<1>9. Calls' /\ Apart' /\ Kept'
  <2>1. CASE Goto(t, Pop(t))  BY <1>0, <1>1, <2>1, PopStays
  <2>2. CASE Goto(t, Push(t, c))
    <3>1. /\ Shape(Push(t, c)) /\ Same(Push(t, c), task[t])
          /\ Push(t, c).todo = c \o Tail(task[t].todo)
          /\ Push(t, c).got = task[t].got /\ Push(t, c).list = task[t].list
      BY <1>2, PushFacts
    <3>2. ListOk(Push(t, c))  BY <1>2, <3>1 DEF ListOk, Ready, Same
    <3> QED BY <1>0, <1>1, <1>8, <2>2, <3>1, <3>2, PushStep
  <2> QED BY <1>1, <2>1, <2>2
<1>10. \A d \in Dirs : ent'[d].fds = 0  BY <1>6, <1>7
<1> QED BY <1>1, <1>5, <1>6, <1>7, <1>9, <1>10, RestIsOk

------------------------------------------------------------------------------
(* get_object_attribute.                                                   *)
LEMMA AnswerStep ==
    ASSUME IInv, NEW t \in Tasks, NEW kind \in {"attr", "fill"}, At(t, kind),
           NEW o, Step(t)[2] \in Files => o.kind # "dir", NEW force, NEW wrong,
           Answer(t, Step(t)[5], Step(t)[2], o, force, wrong), UNCHANGED <<s3, live>>
    PROVE  /\ Calls' /\ Apart' /\ Kept'
           /\ DOMAIN ent' = Paths /\ \A d \in Dirs : ent'[d].fds = 0
<1> DEFINE p == Step(t)[2]
           how == Step(t)[5]
           m == [Pop(t) EXCEPT !.got = o]
<1>1. /\ Plain(Step(t), task[t]) /\ Step(t)[1] = kind /\ Shape(task[t]) /\ Ready(task[t])
      /\ task[t].todo # <<>> /\ Step(t) = task[t].todo[1] /\ task[t].op # "idle"
  BY Current DEF IInv
<1>2. /\ how \in {"must", "may", "absent", "open", "kid", "type", "typemay"}
      /\ how \in {"open", "kid"} => p \in Files
      /\ how = "kid" => Under(task[t].p, p)
  BY <1>1 DEF Plain
<1>3. /\ Shape(m) /\ Same(m, task[t]) /\ m.todo = Tail(task[t].todo) /\ m.list = task[t].list
      /\ m.got = o
  BY <1>1 DEF Pop, Shape, Same
<1>4. \/ Goto(t, Failed(task[t], "ENOENT"))
      \/ Goto(t, Failed(task[t], "EEXIST"))
      \/ Goto(t, m)
      \/ how = "kid" /\ Goto(t, [m EXCEPT !.list = @ \cup {p}])
      \/ \E x : Goto(t, [m EXCEPT !.typ = x])
  <2>1. CASE how \in {"must", "open"}  BY <2>1 DEF Answer
  <2>2. CASE how = "may"  BY <2>2 DEF Answer
  <2>3. CASE how = "absent"  BY <2>3 DEF Answer
  <2>4. CASE how = "kid"  BY <2>4 DEF Answer
  <2>5. CASE how \in {"type", "typemay"}  BY <2>5 DEF Answer
  <2> QED BY <1>2, <2>1, <2>2, <2>3, <2>4, <2>5
<1>5. ASSUME NEW n, Goto(t, n), Shape(n), Same(n, task[t]), n.todo = Tail(task[t].todo), n.got = o,
             ListOk(n)
      PROVE  Calls' /\ Apart' /\ Kept'
  <2>1. Goes(n, task[t])  BY <1>1, <1>5, AnswerOk
  <2> QED BY <1>1, <1>5, <2>1, Quietly DEF IInv
<1>6. ListOk(m)  BY <1>1, <1>3 DEF ListOk, Ready, Same
<1>7. Calls' /\ Apart' /\ Kept'
  <2>1. CASE Goto(t, Failed(task[t], "ENOENT"))  BY <2>1, FailStays
  <2>2. CASE Goto(t, Failed(task[t], "EEXIST"))  BY <2>2, FailStays
  <2>3. CASE Goto(t, m)  BY <1>3, <1>5, <1>6, <2>3
  <2>4. ASSUME how = "kid", Goto(t, [m EXCEPT !.list = @ \cup {p}]) PROVE Calls' /\ Apart' /\ Kept'
    <3> DEFINE n == [m EXCEPT !.list = @ \cup {p}]
    <3> HIDE DEF m
    <3>1. /\ Shape(n) /\ Same(n, task[t]) /\ n.todo = Tail(task[t].todo) /\ n.got = o
          /\ n.list = m.list \cup {p}
      BY <1>3 DEF Shape, Same
    <3> HIDE DEF n
    <3>2. ListOk(n)  BY <1>2, <1>3, <1>6, <2>4, <3>1 DEF ListOk, Same
    <3>3. Goto(t, n)  BY <2>4 DEF n
    <3> QED BY <1>5, <3>1, <3>2, <3>3
  <2>5. ASSUME NEW x, Goto(t, [m EXCEPT !.typ = x]) PROVE Calls' /\ Apart' /\ Kept'
    <3> DEFINE n == [m EXCEPT !.typ = x]
    <3> HIDE DEF m
    <3>1. /\ Shape(n) /\ Same(n, task[t]) /\ n.todo = Tail(task[t].todo) /\ n.got = o
          /\ n.list = m.list
      BY <1>3 DEF Shape, Same
    <3> HIDE DEF n
    <3>2. ListOk(n)  BY <1>3, <1>6, <3>1 DEF ListOk, Same
    <3>3. Goto(t, n)  BY <2>5 DEF n
    <3> QED BY <1>5, <3>1, <3>2, <3>3
  <2> QED BY <1>4, <2>1, <2>2, <2>3, <2>4, <2>5
<1>8. DOMAIN ent = Paths /\ \A d \in Dirs : ent[d].fds = 0
  BY DEF IInv, Shapes, Kinds
<1>9. DOMAIN ent' = Paths /\ \A d \in Dirs : ent'[d].fds = 0
  <2>1. \/ how = "open" /\ \E x : ent' = [ent EXCEPT ![p] = x]
        \/ ent' = ent
    BY DEF Answer, Open
  <2> HIDE DEF p, how
  <2>2. ASSUME how = "open", NEW x, ent' = [ent EXCEPT ![p] = x]
        PROVE  DOMAIN ent' = Paths /\ \A d \in Dirs : ent'[d].fds = 0
    <3>1. p \in Files  BY <1>2, <2>2
    <3>2. \A d \in Dirs : d # p /\ d \in Paths  BY <3>1, FilesAreNotDirs DEF Paths
    <3> QED BY <1>8, <2>2, <3>2
  <2> QED BY <1>8, <2>1, <2>2
<1> QED BY <1>7, <1>9

\* get_object_attribute answered by the stat cache.
LEMMA GetStatOk ==
    ASSUME IInv, NEW t \in Tasks, GetStat(t)
    PROVE  IInv'
<1> DEFINE s == Step(t)
           k == CacheKey(s[2], s[3], s[4])
           o == stat[k].obj
           f == stat[k].force
<1>1. /\ At(t, "attr") /\ k \in DOMAIN stat /\ Answer(t, s[5], s[2], o, f, FALSE)
      /\ UNCHANGED <<s3, live, stat, wc>>
  BY DEF GetStat, store, caches
<1>2. k[1] = s[2]  BY CacheKeyOf
<1>3. s[2] \in Files => o.kind # "dir"  BY <1>1, <1>2 DEF IInv, Kinds
<1> HIDE DEF s, k, o, f
<1>4. /\ Calls' /\ Apart' /\ Kept'
      /\ DOMAIN ent' = Paths /\ \A d \in Dirs : ent'[d].fds = 0
  BY <1>1, <1>3, AnswerStep DEF s
<1>5. StatOk(stat') /\ DOMAIN wc' = Paths /\ \A d \in Dirs : wc'[d] = Clean
  BY <1>1 DEF IInv, Shapes, Kinds, StatOk
<1> QED BY <1>1, <1>4, <1>5, RestIsOk

\* What S3 answers for a file is no directory.
LEMMA HeadChainOk ==
    ASSUME IInv, NEW p \in Files, NEW f \in Forms, NEW over, NEW fails
    PROVE  HeadChain(p, f, over, fails).obj.kind # "dir"
<1>1. directory_empty(p)
  BY NamespaceAssumption DEF directory_empty, Listed
<1>2. \A x \in Forms : s3[<<p, x>>].kind # "dir"  BY DEF IInv, Kinds
<1>3. "/" \in Forms /\ None.kind # "dir"  BY DEF Forms, None
<1> DEFINE h == HeadChain(p, f, over, fails)
<1>4. \/ h = [obj |-> s3[<<p, f>>], form |-> f, force |-> FALSE]
      \/ h = [obj |-> s3[<<p, "/">>], form |-> "/", force |-> FALSE]
      \/ h = [obj |-> None, form |-> f, force |-> FALSE]
  BY <1>1 DEF HeadChain
<1> HIDE DEF h
<1>5. \/ h.obj = s3[<<p, f>>] \/ h.obj = s3[<<p, "/">>] \/ h.obj = None
  BY <1>4
<1> QED BY <1>2, <1>3, <1>5 DEF h

\* A step to n that leaves the bucket alone.
LEMMA QuietTurn ==
    ASSUME IInv, NEW t \in Tasks, task[t].op # "idle",
           NEW n, task' = [task EXCEPT ![t] = n], Goes(n, task[t]), UNCHANGED <<s3, live>>
    PROVE  Calls' /\ Apart' /\ Kept'
<1>1. Ready(task[t]) /\ Same(task[t], task[t])  BY DEF IInv, Calls, Same
<1>2. Calls /\ Apart /\ Kept  BY DEF IInv
<1>3. /\ Calls' /\ Apart'
      /\ \A k : Moving(k)' => \/ \E u \in Tasks \ {t} : MovedBy(u, k)
                              \/ /\ task[t].op = "rename" /\ k[2] = ""
                                 /\ k[1] \in Exposed(task[t].todo, task[t].p, "del")
  BY <1>1, <1>2, Turn
<1>4. \A k : Moving(k)' => Moving(k)  BY <1>3 DEF Moving, MovedBy
<1>5. Kept'
  <2>1. s3' = s3 /\ live' = live  OBVIOUS
  <2>2. \A x \in live' : x # Nothing /\ \E k \in Keys : s3'[k].data = x /\ ~Moving(k)'
    BY <1>2, <1>4, <2>1 DEF Kept
  <2> QED BY <2>2 DEF Kept
<1> QED BY <1>3, <1>5

\* The requests of get_object_attribute.
LEMMA HeadRequestOk ==
    ASSUME IInv, NEW t \in Tasks, HeadRequest(t)
    PROVE  IInv'
<1> DEFINE s == Step(t)
           k == CacheKey(s[2], s[3], s[4])
<1>0. At(t, "attr")  BY DEF HeadRequest
<1>1. UNCHANGED <<s3, live, wc, ent>> /\ stat' = Without(stat, {k})
  BY DEF HeadRequest, store, history
<1>2. PICK fails \in BOOLEAN :
          task' = [task EXCEPT ![t] = Push(t, <<<<"fill", s[2], s[3], s[4], s[5],
                                                  HeadChain(s[2], s[3], s[4], fails)>>>>)]
  BY DEF HeadRequest
<1> DEFINE h == HeadChain(s[2], s[3], s[4], fails)
           x == <<"fill", s[2], s[3], s[4], s[5], h>>
           a == <<x>>
           n == Push(t, a)
<1>3. /\ Plain(s, task[t]) /\ s[1] = "attr" /\ Shape(task[t]) /\ Ready(task[t])
      /\ task[t].todo # <<>> /\ s = task[t].todo[1] /\ task[t].op # "idle"
  BY <1>0, Current DEF IInv
<1>4. s[2] \in Files => h.obj.kind # "dir"
  <2>1. s[3] \in Forms  BY <1>3 DEF Plain
  <2> HIDE DEF s
  <2> QED BY <2>1, HeadChainOk
<1>5. x[1] = "fill" /\ x[2] = s[2] /\ x[3] = s[3] /\ x[5] = s[5] /\ x[6] = h
  OBVIOUS
<1> HIDE DEF x, h, s
<1>6. Plain(x, task[t])  BY <1>3, <1>4, <1>5 DEF Plain, FileSteps
<1>7. /\ Shape(n) /\ Same(n, task[t]) /\ n.todo = a \o Tail(task[t].todo)
      /\ n.got = task[t].got /\ n.list = task[t].list
  BY <1>3, PushFacts
<1>8. task' = [task EXCEPT ![t] = n]  BY <1>2 DEF x, h, s
<1> HIDE DEF n
<1>9. Like(n, task[t])  BY <1>3, <1>7, LikeOk
<1>10. Goes(n, task[t])  BY <1>3, <1>5, <1>6, <1>7, <1>9, FillOk
<1>11. Calls' /\ Apart' /\ Kept'  BY <1>1, <1>3, <1>8, <1>10, QuietTurn
<1>12. StatOk(stat')
  <2>1. StatOk(stat)  BY DEF IInv, Kinds, StatOk
  <2> QED BY <1>1, <2>1, StatFacts
<1> QED BY <1>1, <1>11, <1>12, RestStays

\* get_object_attribute stores the answer and gives it to the caller.
LEMMA AttributeOk ==
    ASSUME IInv, NEW t \in Tasks, get_object_attribute(t)
    PROVE  IInv'
<1> DEFINE s == Step(t)
           a == s[6]
           p == s[2]
           typing == s[5] \in {"type", "typemay"}
           obj == IF typing /\ a.force THEN Obj("file", Nothing, 0) ELSE a.obj
           force == a.force /\ ~typing
           wrong == \/ a # HeadChain(p, s[3], s[4], FALSE) \/ obj # a.obj
                    \/ ent[p].pend = "create"
           nt == IF s[5] = "open" THEN 1 ELSE 0
           f == IF obj = None THEN s[3] ELSE a.form
           e == Entry(obj, force, nt)
<1>0. At(t, "fill")  BY DEF get_object_attribute
<1>1. UNCHANGED <<s3, live, wc>>  BY DEF get_object_attribute, store
<1>2. AddStat(p, f, e) /\ Answer(t, s[5], p, obj, force, wrong)
  BY DEF get_object_attribute
<1>3. Plain(s, task[t]) /\ s[1] = "fill"  BY <1>0, Current DEF IInv
<1>4. p \in Files => obj.kind # "dir"
  <2>1. p \in Files => a.obj.kind # "dir"  BY <1>3 DEF Plain
  <2>2. Obj("file", Nothing, 0).kind # "dir"  BY DEF Obj
  <2> HIDE DEF a, p, typing
  <2> QED BY <2>1, <2>2
<1>5. e.obj = obj  BY DEF Entry
<1> HIDE DEF a, typing, obj, force, wrong, nt, f, e
<1>6. StatOk(stat')
  <2>1. StatOk(stat)  BY DEF IInv, Kinds, StatOk
  <2> HIDE DEF p
  <2> QED BY <1>2, <1>4, <1>5, <2>1, AddStatOk
<1>7. /\ Calls' /\ Apart' /\ Kept'
      /\ DOMAIN ent' = Paths /\ \A d \in Dirs : ent'[d].fds = 0
  BY <1>0, <1>1, <1>2, <1>4, AnswerStep
<1>8. DOMAIN wc' = Paths /\ \A d \in Dirs : wc'[d] = Clean
  BY <1>1 DEF IInv, Shapes, Kinds
<1> QED BY <1>1, <1>6, <1>7, <1>8, RestIsOk

------------------------------------------------------------------------------
(* Listings.                                                               *)
LEMMA ChildUnder ==
    ASSUME NEW p \in Paths, NEW c \in Children(p)
    PROVE  c \in Paths /\ Under(p, c)
<1>1. c \in Paths /\ Parent(c) = p  BY DEF Children
<1>2. c \in Seq(Names) /\ Len(c) \in Nat /\ p \in Seq(Names) /\ Len(p) \in Nat /\ c # <<>> /\ p # <<>>
  BY <1>1, PathFacts
<1> DEFINE n == Len(c) - 1
           u == SubSeq(c, 1, n)
<1>3. Len(c) >= 1  BY <1>2
<1>4. 1 \in Int /\ n \in Int /\ \A i \in 1 .. n : c[i] \in Names  BY <1>2, <1>3
<1>5. /\ Len(u) = IF 1 <= n THEN n - 1 + 1 ELSE 0
      /\ \A i \in 1 .. n - 1 + 1 : u[i] = c[1 + i - 1]
  BY <1>4, SubSeqProperties
<1>6. u = p  BY <1>1 DEF Parent
<1> HIDE DEF u
<1>7. n \in Nat  BY <1>2, <1>3
<1>8. Len(p) = n /\ \A i \in 1 .. n : p[i] = c[i]
  <2> HIDE DEF n
  <2> QED BY <1>5, <1>6, <1>7
<1>9. Len(p) <= Len(c) /\ \A i \in 1 .. Len(p) : c[i] = p[i]  BY <1>2, <1>8
<1> QED BY <1>1, <1>2, <1>9, UnderPoints

\* The listing that rmdir and rename begin with.
LEMMA ListBucketOk ==
    ASSUME IInv, NEW t \in Tasks, ListBucket(t)
    PROVE  IInv'
<1> DEFINE p == Step(t)[2]
           kids == (Listed(p) \cup GetNotruncateCache(p)) \cap Files
           x == <<"mvlook", p, kids>>
           a == <<x>>
<1>1. UNCHANGED <<s3, live, wc, ent, stat>>  BY DEF ListBucket, store, caches, history
<1>2. StatOk(stat')  BY <1>1 DEF IInv, Kinds, StatOk
<1>3. \/ At(t, "empty") /\ Goto(t, Pop(t))
      \/ At(t, "empty") /\ Goto(t, Failed(task[t], "ENOTEMPTY"))
      \/ At(t, "mvlist") /\ Goto(t, Push(t, a))
      \/ At(t, "mvlist") /\ Goto(t, Failed(task[t], "EIO"))
      \/ At(t, "list") /\ Goto(t, Failed(task[t], "EIO"))
  BY DEF ListBucket
<1>4. ASSUME At(t, "mvlist"), Goto(t, Push(t, a)) PROVE Calls' /\ Apart' /\ Kept'
  <2>1. Plain(Step(t), task[t]) /\ Step(t)[1] = "mvlist" /\ Shape(task[t]) /\ Ready(task[t])
    BY <1>4, Current DEF IInv
  <2>2. task[t].op = "rename" /\ p = task[t].p  BY <2>1 DEF Plain
  <2>3. p \in Paths  BY <2>1, <2>2 DEF Ready, Args
  <2>4. \A c \in kids : c \in Files /\ Under(p, c)
    <3>1. Listed(p) \subseteq Children(p) /\ GetNotruncateCache(p) \subseteq Children(p)
      BY DEF Listed, GetNotruncateCache
    <3> QED BY <2>3, <3>1, ChildUnder
  <2> HIDE DEF kids
  <2>5. Easy(x, task[t])  BY <2>2, <2>4 DEF Easy, Plain, FileSteps
  <2>6. Len(a) = 1 /\ a[1] = x  BY TupleFacts
  <2>7. Quiet(a, task[t])  BY <2>5, QuietLists
  <2>8. \A k : Breaks(Step(t), k)  BY <2>1 DEF Breaks, Blocks
  <2> HIDE DEF a
  <2>9. /\ Shape(Push(t, a)) /\ Same(Push(t, a), task[t]) /\ Push(t, a).todo = a \o Tail(task[t].todo)
        /\ Push(t, a).got = task[t].got /\ Push(t, a).list = task[t].list
    BY <2>1, PushFacts
  <2>10. ListOk(Push(t, a))  BY <2>1, <2>9 DEF ListOk, Ready, Same
  <2> QED BY <1>1, <1>4, <2>7, <2>8, <2>9, <2>10, PushStep
<1> HIDE DEF a
<1>5. Calls' /\ Apart' /\ Kept'
  <2>1. CASE At(t, "empty") /\ Goto(t, Pop(t))  BY <1>1, <2>1, PopStays
  <2>2. CASE At(t, "empty") /\ Goto(t, Failed(task[t], "ENOTEMPTY"))  BY <1>1, <2>2, FailStays
  <2>3. CASE At(t, "mvlist") /\ Goto(t, Failed(task[t], "EIO"))  BY <1>1, <2>3, FailStays
  <2>4. CASE At(t, "list") /\ Goto(t, Failed(task[t], "EIO"))  BY <1>1, <2>4, FailStays
  <2> QED BY <1>3, <1>4, <2>1, <2>2, <2>3, <2>4
<1> QED BY <1>1, <1>2, <1>5, RestStays

\* The list of the requests of a readdir.
LEMMA HeadsOk ==
    ASSUME NEW r, r.op # "rename", NEW p, NEW waiting, waiting \subseteq Keys,
           NEW heard, \A a \in heard : a[1][1] \in Files => a[2].kind # "dir", NEW missed
    PROVE  Quiet(Heads(p, waiting, heard, missed), r) /\ NoBreak(Heads(p, waiting, heard, missed))
<1> DEFINE x == <<"listed", p, missed>>
           y == <<"heads", p, waiting, heard, missed>>
           x1 == <<x>>
           y1 == <<y>>
<1>1. Easy(x, r) /\ Easy(y, r) /\ \A k : ~Breaks(x, k) /\ ~Breaks(y, k)
  <2>1. Easy(x, r)  BY DEF Easy, Plain, FileSteps
  <2>2. Easy(y, r)  BY DEF Easy, Plain, FileSteps
  <2>3. \A k : ~Breaks(x, k) /\ ~Breaks(y, k)  BY DEF Breaks, Blocks
  <2> QED BY <2>1, <2>2, <2>3
<1>2. Heads(p, waiting, heard, missed) = x1 \/ Heads(p, waiting, heard, missed) = y1
  BY DEF Heads
<1> HIDE DEF x, y
<1>3. Len(x1) = 1 /\ x1[1] = x /\ Len(y1) = 1 /\ y1[1] = y  BY TupleFacts
<1>4. Quiet(x1, r) /\ Quiet(y1, r)  BY <1>1, QuietLists
<1> HIDE DEF x1, y1
<1>5. NoBreak(x1) /\ NoBreak(y1)  BY <1>1, <1>3 DEF NoBreak
<1> QED BY <1>2, <1>4, <1>5

\* A step of a readdir, which may change the list.
LEMMA ReaddirStep ==
    ASSUME IInv, NEW t \in Tasks, NEW kind \in {"list", "names", "heads"}, At(t, kind),
           NEW a, Quiet(a, task[t]), NoBreak(a),
           NEW n, Goto(t, n), UNCHANGED <<s3, live>>,
           n = Push(t, a) \/ \E x : n = [Push(t, a) EXCEPT !.list = x]
    PROVE  Calls' /\ Apart' /\ Kept'
<1>1. Plain(Step(t), task[t]) /\ Step(t)[1] = kind /\ Shape(task[t]) /\ Ready(task[t])
  BY Current DEF IInv
<1>2. task[t].op # "rename"  BY <1>1 DEF Plain
<1>3. Shape(n) /\ Same(n, task[t]) /\ n.todo = a \o Tail(task[t].todo) /\ n.got = task[t].got
  <2> DEFINE m == Push(t, a)
  <2>1. Shape(m) /\ Same(m, task[t]) /\ m.todo = a \o Tail(task[t].todo) /\ m.got = task[t].got
    BY <1>1, PushFacts
  <2>2. n = m \/ \E x : n = [m EXCEPT !.list = x]  OBVIOUS
  <2> HIDE DEF m
  <2>3. ASSUME NEW x, n = [m EXCEPT !.list = x]
        PROVE  Shape(n) /\ Same(n, task[t]) /\ n.todo = a \o Tail(task[t].todo) /\ n.got = task[t].got
    BY <2>1, <2>3 DEF Shape, Same
  <2> QED BY <2>1, <2>2, <2>3
<1>4. ListOk(n)  BY <1>2, <1>3 DEF ListOk, Same
<1>5. \A i \in 1 .. Len(a) : \A k : Breaks(a[i], k) => Breaks(Step(t), k)  BY DEF NoBreak
<1> QED BY <1>3, <1>4, <1>5, PushStep

\* What the list holds: names and the form of their objects.
LEMMA ListNamesOk ==
    ASSUME IInv, NEW t \in Tasks, ListNames(t)
    PROVE  IInv'
<1> DEFINE p == Step(t)[2]
           form(c) == IF s3[<<c, "/">>] # None \/ ~directory_empty(c) THEN "/" ELSE ""
           found == [c \in Listed(p) |-> <<form(c), s3[<<c, form(c)>>].data>>]
           x == <<"names", p, found>>
           x1 == <<x>>
<1>1. UNCHANGED <<s3, live, wc, ent, stat>> /\ At(t, "list")
  BY DEF ListNames, store, caches, history
<1>2. StatOk(stat')  BY <1>1 DEF IInv, Kinds, StatOk
<1>3. Plain(Step(t), task[t]) /\ Step(t)[1] = "list"  BY <1>1, Current DEF IInv
<1>4. task[t].op # "rename"  BY <1>3 DEF Plain
<1>5. \/ Goto(t, Push(t, Heads(p, {}, {}, {})))
      \/ Goto(t, Push(t, x1))
  BY DEF ListNames
<1>6. DOMAIN found = Listed(p) /\ \A c \in Listed(p) : c \in Paths /\ found[c][1] \in Forms
  <2>1. Listed(p) \subseteq Paths  BY DEF Listed, Children
  <2>2. \A c : form(c) \in Forms  BY DEF Forms
  <2> HIDE DEF form, p
  <2>3. \A c \in Listed(p) : found[c] = <<form(c), s3[<<c, form(c)>>].data>>  OBVIOUS
  <2> QED BY <2>1, <2>2, <2>3
<1> HIDE DEF found, form
<1>7. Quiet(x1, task[t]) /\ NoBreak(x1)
  <2>1. Easy(x, task[t]) /\ \A k : ~Breaks(x, k)
    <3>1. x[1] = "names" /\ x[3] = found  OBVIOUS
    <3> HIDE DEF x
    <3>2. Easy(x, task[t])  BY <1>4, <1>6, <3>1 DEF Easy, Plain, FileSteps
    <3> QED BY <3>1, <3>2 DEF Breaks, Blocks
  <2> HIDE DEF x
  <2>2. Len(x1) = 1 /\ x1[1] = x  BY TupleFacts
  <2>3. Quiet(x1, task[t])  BY <2>1, QuietLists
  <2> HIDE DEF x1
  <2> QED BY <2>1, <2>2, <2>3 DEF NoBreak
<1> HIDE DEF x1
<1> DEFINE y1 == Heads(p, {}, {}, {})
<1>8. Quiet(y1, task[t]) /\ NoBreak(y1)  BY <1>4, HeadsOk
<1> HIDE DEF y1
<1>9. ASSUME NEW a \in {x1, y1}, Goto(t, Push(t, a)) PROVE Calls' /\ Apart' /\ Kept'
  <2> DEFINE n == Push(t, a)
  <2>1. Quiet(a, task[t]) /\ NoBreak(a)  BY <1>7, <1>8
  <2>2. Goto(t, n) /\ n = Push(t, a)  BY <1>9
  <2> HIDE DEF n
  <2> QED BY <1>1, <2>1, <2>2, ReaddirStep
<1>10. Calls' /\ Apart' /\ Kept'  BY <1>5, <1>9 DEF y1
<1> QED BY <1>1, <1>2, <1>10, RestStays

\* readdir looks the names up in the stat cache.
LEMMA ReaddirOk ==
    ASSUME IInv, NEW t \in Tasks, Readdir(t)
    PROVE  IInv'
<1> DEFINE p == Step(t)[2]
           found == Step(t)[3]
           names == DOMAIN found \cup GetNotruncateCache(p)
           form(c) == IF c \in DOMAIN found THEN found[c][1] ELSE ""
           waiting(hits) == {<<c, form(c)>> : c \in names \ hits}
           a(hits) == Heads(p, waiting(hits), {}, Listed(p) \ names)
<1>1. UNCHANGED <<s3, live, wc, ent>> /\ At(t, "names")
  BY DEF Readdir, store, history
<1>2. \E hits : /\ \E K : stat' = Without(stat, K)
                /\ \E z : Goto(t, [Push(t, a(hits)) EXCEPT !.list = z])
  BY DEF Readdir
<1>3. Plain(Step(t), task[t]) /\ Step(t)[1] = "names"  BY <1>1, Current DEF IInv
<1>4. task[t].op # "rename" /\ \A c \in DOMAIN found : c \in Paths /\ found[c][1] \in Forms
  BY <1>3 DEF Plain
<1>5. \A c \in names : c \in Paths /\ form(c) \in Forms
  <2>1. GetNotruncateCache(p) \subseteq Paths  BY DEF GetNotruncateCache, Children
  <2>2. "" \in Forms  BY DEF Forms
  <2> HIDE DEF found
  <2> QED BY <1>4, <2>1, <2>2
<1> HIDE DEF names, form, found
<1>6. \A hits : waiting(hits) \subseteq Keys  BY <1>5 DEF Keys
<1> HIDE DEF waiting
<1>7. \A hits : Quiet(a(hits), task[t]) /\ NoBreak(a(hits))  BY <1>4, <1>6, HeadsOk
<1> HIDE DEF a
<1>8. PICK hits : /\ \E K : stat' = Without(stat, K)
                  /\ \E z : Goto(t, [Push(t, a(hits)) EXCEPT !.list = z])
  BY <1>2
<1>9. StatOk(stat')
  <2>1. StatOk(stat)  BY DEF IInv, Kinds, StatOk
  <2> QED BY <1>8, <2>1, StatFacts
<1>10. PICK z : Goto(t, [Push(t, a(hits)) EXCEPT !.list = z])  BY <1>8
<1> DEFINE b == a(hits)
           n == [Push(t, b) EXCEPT !.list = z]
<1>11. Quiet(b, task[t]) /\ NoBreak(b)  BY <1>7
<1>12. Goto(t, n) /\ \E z1 : n = [Push(t, b) EXCEPT !.list = z1]  BY <1>10
<1> HIDE DEF n, b
<1>13. Calls' /\ Apart' /\ Kept'  BY <1>1, <1>11, <1>12, ReaddirStep
<1> QED BY <1>1, <1>9, <1>13, RestStays

\* A request of readdir for one name.
LEMMA MultiHeadOk ==
    ASSUME IInv, NEW t \in Tasks, MultiHead(t)
    PROVE  IInv'
<1> DEFINE s == Step(t)
           heard(k, ok) == IF ok /\ s3[k] # None THEN s[4] \cup {<<k, s3[k]>>} ELSE s[4]
           a(k, ok) == Heads(s[2], s[3] \ {k}, heard(k, ok), IF ok THEN s[5] ELSE s[5] \cup {k[1]})
<1>1. UNCHANGED <<s3, live, wc, ent, stat>> /\ At(t, "heads")
  BY DEF MultiHead, store, caches, history
<1>2. StatOk(stat')  BY <1>1 DEF IInv, Kinds, StatOk
<1>3. \E k \in s[3], ok \in BOOLEAN : Goto(t, Push(t, a(k, ok)))  BY DEF MultiHead
<1>4. Plain(s, task[t]) /\ s[1] = "heads"  BY <1>1, Current DEF IInv
<1>5. /\ task[t].op # "rename" /\ s[3] \subseteq Keys
      /\ \A b \in s[4] : b[1][1] \in Files => b[2].kind # "dir"
  BY <1>4 DEF Plain
<1> HIDE DEF s
<1>6. ASSUME NEW k \in s[3], NEW ok \in BOOLEAN
      PROVE  \A b \in heard(k, ok) : b[1][1] \in Files => b[2].kind # "dir"
  <2>1. k = <<k[1], k[2]>> /\ k[2] \in Forms  BY <1>5 DEF Keys
  <2>2. k[1] \in Files => s3[k].kind # "dir"  BY <2>1 DEF IInv, Kinds
  <2>3. <<k, s3[k]>>[1] = k /\ <<k, s3[k]>>[2] = s3[k]  OBVIOUS
  <2> QED BY <1>5, <2>2, <2>3
<1> HIDE DEF heard
<1>7. \A k \in s[3], ok \in BOOLEAN : Quiet(a(k, ok), task[t]) /\ NoBreak(a(k, ok))
  <2> TAKE k \in s[3], ok \in BOOLEAN
  <2>1. s[3] \ {k} \subseteq Keys  BY <1>5
  <2> QED BY <1>5, <1>6, <2>1, HeadsOk
<1> HIDE DEF a
<1>8. PICK k \in s[3], ok \in BOOLEAN : Goto(t, Push(t, a(k, ok)))  BY <1>3
<1> DEFINE b == a(k, ok)
           n == Push(t, b)
<1>9. Quiet(b, task[t]) /\ NoBreak(b)  BY <1>7
<1>10. Goto(t, n) /\ n = Push(t, b)  BY <1>8
<1> HIDE DEF n, b
<1>11. Calls' /\ Apart' /\ Kept'  BY <1>1, <1>9, <1>10, ReaddirStep
<1> QED BY <1>1, <1>2, <1>11, RestStays

\* The answer to it.
LEMMA MultiHeadCallbackOk ==
    ASSUME IInv, NEW t \in Tasks, multi_head_callback(t)
    PROVE  IInv'
<1> DEFINE s == Step(t)
           a(x) == Heads(s[2], s[3], s[4] \ {x}, s[5])
<1>1. UNCHANGED <<s3, live, wc, ent>> /\ At(t, "heads")
  BY DEF multi_head_callback, store
<1>2. \E x \in s[4] : /\ AddStat(x[1][1], x[1][2], Entry(x[2], FALSE, 0))
                      /\ \E z : Goto(t, [Push(t, a(x)) EXCEPT !.list = z])
  BY DEF multi_head_callback
<1>3. Plain(s, task[t]) /\ s[1] = "heads"  BY <1>1, Current DEF IInv
<1>4. /\ task[t].op # "rename" /\ s[3] \subseteq Keys
      /\ \A b \in s[4] : b[1][1] \in Files => b[2].kind # "dir"
  BY <1>3 DEF Plain
<1> HIDE DEF s
<1>5. PICK x \in s[4] : /\ AddStat(x[1][1], x[1][2], Entry(x[2], FALSE, 0))
                        /\ \E z : Goto(t, [Push(t, a(x)) EXCEPT !.list = z])
  BY <1>2
<1>6. PICK z : Goto(t, [Push(t, a(x)) EXCEPT !.list = z])  BY <1>5
<1>7. StatOk(stat')
  <2>1. StatOk(stat)  BY DEF IInv, Kinds, StatOk
  <2> DEFINE e == Entry(x[2], FALSE, 0)
             q == x[1][1]
             f == x[1][2]
  <2>2. AddStat(q, f, e)  BY <1>5
  <2>3. q \in Files => e.obj.kind # "dir"  BY <1>4 DEF Entry
  <2> HIDE DEF e, q, f
  <2> QED BY <2>1, <2>2, <2>3, AddStatOk
<1> DEFINE b == a(x)
           n == [Push(t, b) EXCEPT !.list = z]
<1>8. Quiet(b, task[t]) /\ NoBreak(b)
  <2> DEFINE h == s[4] \ {x}
  <2>1. \A c \in h : c[1][1] \in Files => c[2].kind # "dir"  BY <1>4
  <2> HIDE DEF h
  <2>2. Quiet(Heads(s[2], s[3], h, s[5]), task[t]) /\ NoBreak(Heads(s[2], s[3], h, s[5]))
    BY <1>4, <2>1, HeadsOk
  <2> QED BY <2>2 DEF h
<1>9. Goto(t, n) /\ \E z1 : n = [Push(t, b) EXCEPT !.list = z1]  BY <1>6
<1> HIDE DEF n, b
<1>10. Calls' /\ Apart' /\ Kept'  BY <1>1, <1>8, <1>9, ReaddirStep
<1> QED BY <1>1, <1>7, <1>10, RestStays

------------------------------------------------------------------------------
(* The steps that change the bucket.                                       *)
Done(new, dead, born) == s3' = new /\ live' = ((live \ dead) \cup born) \ {Nothing}

\* A request: the call goes on after it, or fails.  Only a copy that was carried
\* out adds to what a rename is about to delete.
LEMMA RequestOk ==
    ASSUME IInv, NEW t \in Tasks, NEW kind, At(t, kind), kind \notin {"attr", "fill"},
           NEW new, NEW dead, NEW born, NEW soft, kind = "copy" => ~soft,
           Request(t, new, dead, born, soft)
    PROVE  /\ Calls' /\ Apart'
           /\ Done(new, dead, born) \/ UNCHANGED <<s3, live>>
           /\ \A k : Moving(k)' =>
                  \/ \E u \in Tasks \ {t} : MovedBy(u, k)
                  \/ MovedBy(t, k) /\ ~Breaks(Step(t), "del")
                  \/ /\ kind = "copy" /\ k[1] = Step(t)[2] /\ k[2] = ""
                     /\ Done(new, dead, born)
<1>1. /\ task[t].op # "idle" /\ Ready(task[t]) /\ Shape(task[t]) /\ task[t].todo # <<>>
      /\ Step(t) = task[t].todo[1] /\ Step(t)[1] = kind
  BY Current DEF IInv
<1>2. Calls /\ Apart  BY DEF IInv
<1>3. \/ Done(new, dead, born) /\ \E x : Goto(t, [Pop(t) EXCEPT !.res = x])
      \/ /\ kind # "copy" /\ (Done(new, dead, born) \/ UNCHANGED <<s3, live>>)
         /\ \E x : Goto(t, [Pop(t) EXCEPT !.res = x])
      \/ /\ Done(new, dead, born) \/ UNCHANGED <<s3, live>>
         /\ Goto(t, Failed(task[t], "EIO"))
  BY DEF Request, Done
<1>4. ASSUME NEW r, Ready(r), Same(r, task[t]), Goto(t, r)
      PROVE  /\ Calls' /\ Apart'
             /\ \A k : Moving(k)' => \/ \E u \in Tasks \ {t} : MovedBy(u, k)
                                     \/ /\ task[t].op = "rename" /\ k[2] = ""
                                        /\ k[1] \in Exposed(r.todo, r.p, "del")
  <2>1. PICK n : task' = [task EXCEPT ![t] = n] /\ Goes(n, r)  BY <1>4, GotoOk
  <2> QED BY <1>1, <1>2, <1>4, <2>1, Turn
<1>5. ASSUME Goto(t, Failed(task[t], "EIO"))
      PROVE  Calls' /\ Apart' /\ \A k : Moving(k)' => \E u \in Tasks \ {t} : MovedBy(u, k)
  <2> DEFINE r == Failed(task[t], "EIO")
  <2>1. Goes(r, task[t]) /\ Exposed(r.todo, task[t].p, "del") = {}  BY <1>1, FailedOk
  <2>2. Ready(r) /\ Same(r, task[t]) /\ r.p = task[t].p /\ Goto(t, r)  BY <1>5, <2>1 DEF Goes, Same
  <2> HIDE DEF r
  <2> QED BY <1>4, <2>1, <2>2
<1>6. ASSUME NEW x, Goto(t, [Pop(t) EXCEPT !.res = x])
      PROVE  /\ Calls' /\ Apart'
             /\ \A k : Moving(k)' => \/ \E u \in Tasks \ {t} : MovedBy(u, k)
                                     \/ MovedBy(t, k) /\ ~Breaks(Step(t), "del")
                                     \/ kind = "copy" /\ k[1] = Step(t)[2] /\ k[2] = ""
  <2> DEFINE r == [Pop(t) EXCEPT !.res = x]
  <2>1. /\ Shape(r) /\ Same(r, task[t]) /\ r.todo = Tail(task[t].todo)
        /\ r.list = task[t].list /\ r.got = task[t].got
    BY <1>1 DEF Pop, Shape, Same
  <2>2. Goto(t, r)  BY <1>6
  <2> HIDE DEF r
  <2>3. Like(r, task[t])  BY <1>1, <2>1, LikeOk
  <2>4. /\ Ready(r) /\ Same(r, task[t])
        /\ \A c \in Exposed(r.todo, task[t].p, "del") :
              \/ Gives(task[t].todo[1], "del", c)
              \/ c \in Exposed(task[t].todo, task[t].p, "del") /\ ~Breaks(task[t].todo[1], "del")
    BY <1>1, <2>1, <2>3, PopOk
  <2>5. /\ Calls' /\ Apart'
        /\ \A k : Moving(k)' => \/ \E u \in Tasks \ {t} : MovedBy(u, k)
                                \/ /\ task[t].op = "rename" /\ k[2] = ""
                                   /\ k[1] \in Exposed(r.todo, r.p, "del")
    BY <1>4, <2>2, <2>4
  <2>6. r.p = task[t].p /\ \A c : Gives(Step(t), "del", c) => kind = "copy" /\ c = Step(t)[2]
    BY <1>1, <2>1 DEF Same, Gives
  <2>7. \A c \in Exposed(r.todo, r.p, "del") :
            \/ kind = "copy" /\ c = Step(t)[2]
            \/ c \in Exposed(task[t].todo, task[t].p, "del") /\ ~Breaks(Step(t), "del")
    BY <1>1, <2>4, <2>6
  <2> QED BY <2>5, <2>7 DEF MovedBy
<1>7. CASE Done(new, dead, born) /\ \E x : Goto(t, [Pop(t) EXCEPT !.res = x])
  BY <1>6, <1>7
<1>8. CASE /\ kind # "copy" /\ (Done(new, dead, born) \/ UNCHANGED <<s3, live>>)
           /\ \E x : Goto(t, [Pop(t) EXCEPT !.res = x])
  BY <1>6, <1>8
<1>9. CASE /\ Done(new, dead, born) \/ UNCHANGED <<s3, live>>
           /\ Goto(t, Failed(task[t], "EIO"))
  BY <1>5, <1>9
<1> QED BY <1>3, <1>7, <1>8, <1>9

\* The part of Kinds that is about the bucket.
BucketOk(b) ==
    /\ DOMAIN b = Keys
    /\ \A p \in Paths : b[<<p, "/">>].data = Nothing
    /\ \A d \in Dirs : b[<<d, "">>].data = Nothing
    /\ \A f \in Files : \A x \in Forms : b[<<f, x>>].kind # "dir"

\* Storing an object of the right kind.
LEMMA StoreOk ==
    ASSUME BucketOk(s3), NEW p, NEW f, NEW o,
           p \in Paths /\ (f = "/" \/ p \in Dirs) => o.data = Nothing,
           p \in Files => o.kind # "dir"
    PROVE  BucketOk([s3 EXCEPT ![<<p, f>>] = o])
<1> DEFINE b == [s3 EXCEPT ![<<p, f>>] = o]
<1>1. DOMAIN b = Keys /\ \A k \in Keys : b[k] = IF k = <<p, f>> THEN o ELSE s3[k]
  BY DEF BucketOk
<1>2. \A c \in Paths, x \in Forms : <<c, x>> \in Keys  BY DEF Keys
<1>3. "" \in Forms /\ "/" \in Forms /\ Dirs \subseteq Paths /\ Files \subseteq Paths
  BY DEF Forms, Paths
<1> HIDE DEF b
<1>4. \A c \in Paths, x \in Forms : b[<<c, x>>] = IF c = p /\ x = f THEN o ELSE s3[<<c, x>>]
  BY <1>1, <1>2
<1>5. \A c \in Paths : b[<<c, "/">>].data = Nothing  BY <1>3, <1>4 DEF BucketOk
<1>6. \A d \in Dirs : b[<<d, "">>].data = Nothing  BY <1>3, <1>4 DEF BucketOk
<1>7. \A g \in Files : \A x \in Forms : b[<<g, x>>].kind # "dir"  BY <1>3, <1>4 DEF BucketOk
<1> QED BY <1>1, <1>5, <1>6, <1>7 DEF BucketOk, b

\* The rest of the invariant after a step that changes the bucket.
LEMMA BucketStep ==
    ASSUME IInv, Calls', Apart', Kept', BucketOk(s3'), UNCHANGED stat,
           DOMAIN ent' = Paths, DOMAIN wc' = Paths,
           \A d \in Dirs : ent'[d].fds = 0 /\ wc'[d] = Clean
    PROVE  IInv'
BY DEF IInv, Shapes, Kinds, BucketOk

\* That part, of the bucket as it is.
LEMMA BucketNow ==
    ASSUME IInv
    PROVE  BucketOk(s3)
BY DEF IInv, Shapes, Kinds, BucketOk

\* A request that changes no content.
LEMMA SameContent ==
    ASSUME IInv, NEW t \in Tasks, NEW kind, At(t, kind), kind \notin {"attr", "fill", "copy"},
           NEW new, NEW soft, Request(t, new, {}, {}, soft), BucketOk(new),
           \A k \in Keys : new[k].data = s3[k].data, UNCHANGED <<wc, ent, stat>>
    PROVE  IInv'
<1>1. /\ Calls' /\ Apart'
      /\ Done(new, {}, {}) \/ UNCHANGED <<s3, live>>
      /\ \A k : Moving(k)' =>
            \/ \E u \in Tasks \ {t} : MovedBy(u, k)
            \/ MovedBy(t, k) /\ ~Breaks(Step(t), "del")
            \/ kind = "copy" /\ k[1] = Step(t)[2] /\ k[2] = "" /\ Done(new, {}, {})
  BY RequestOk
<1>2. \A k : Moving(k)' => Moving(k)  BY <1>1 DEF Moving
<1>3. BucketOk(s3') /\ live' \subseteq live /\ \A k \in Keys : s3'[k].data = s3[k].data
  BY <1>1, BucketNow DEF Done
<1>4. Kept'
  <2>1. \A x \in live' : x # Nothing /\ \E k \in Keys : s3'[k].data = x /\ ~Moving(k)'
    BY <1>2, <1>3 DEF IInv, Kept
  <2> QED BY <2>1 DEF Kept
<1>5. /\ DOMAIN ent' = Paths /\ DOMAIN wc' = Paths
      /\ \A d \in Dirs : ent'[d].fds = 0 /\ wc'[d] = Clean
  BY DEF IInv, Shapes, Kinds
<1> QED BY <1>1, <1>3, <1>4, <1>5, BucketStep

\* What the bucket holds after a step that stores o.
LEMMA StoredContent ==
    ASSUME IInv, NEW p, NEW f, NEW o, <<p, f>> \in Keys => o.data = s3[<<p, f>>].data
    PROVE  \A k \in Keys : [s3 EXCEPT ![<<p, f>>] = o][k].data = s3[k].data
BY DEF IInv, Shapes

\* The put of a directory object.
LEMMA PutDirectoryOk ==
    ASSUME IInv, NEW t \in Tasks, PutDirectory(t)
    PROVE  IInv'
<1> DEFINE p == Step(t)[2]
           m == IF Step(t)[3] = 0 THEN task[t].got.mode ELSE Step(t)[3]
           o == Obj("dir", Nothing, m)
           new == [s3 EXCEPT ![<<p, "/">>] = o]
<1>1. /\ At(t, "putdir") /\ Request(t, new, {}, {}, Step(t)[4])
      /\ UNCHANGED <<wc, ent, stat>>
  BY DEF PutDirectory, caches
<1>2. Plain(Step(t), task[t]) /\ Step(t)[1] = "putdir"  BY <1>1, Current DEF IInv
<1>3. p \notin Files  BY <1>2 DEF Plain
<1>4. o.data = Nothing  BY DEF Obj
<1> HIDE DEF p, o
<1>5. BucketOk(new)  BY <1>3, <1>4, BucketNow, StoreOk
<1>6. \A k \in Keys : new[k].data = s3[k].data
  <2>1. <<p, "/">> \in Keys => s3[<<p, "/">>].data = Nothing  BY DEF IInv, Kinds, Keys
  <2> QED BY <1>4, <2>1, StoredContent
<1> HIDE DEF new
<1> QED BY <1>1, <1>5, <1>6, SameContent

\* The copy of an object onto itself keeps its content.
LEMMA PutHeadRequestOk ==
    ASSUME IInv, NEW t \in Tasks, PutHeadRequest(t)
    PROVE  IInv'
<1> DEFINE s == Step(t)
           p == s[2]
           f == s[3]
           k == <<p, f>>
           m == IF s[4] = 0 THEN task[t].got.mode ELSE s[4]
           o == Obj(s3[k].kind, s3[k].data, m)
           new == [s3 EXCEPT ![k] = o]
<1>1. At(t, "puthead") /\ UNCHANGED <<wc, ent, stat>>  BY DEF PutHeadRequest, caches
<1>2. \/ Goto(t, Failed(task[t], "ENOENT")) /\ UNCHANGED <<s3, live>>
      \/ Request(t, new, {}, {}, FALSE)
  BY DEF PutHeadRequest
<1>3. o.data = s3[k].data /\ o.kind = s3[k].kind  BY DEF Obj
<1> HIDE DEF p, f, o
<1>4. BucketOk(s3)  BY BucketNow
<1>5. ASSUME Request(t, new, {}, {}, FALSE) PROVE IInv'
  <2>1. CASE k \in Keys
    <3>1. p \in Paths /\ f \in Forms  BY <2>1 DEF Keys
    <3>2. /\ f = "/" \/ p \in Dirs => o.data = Nothing
          /\ p \in Files => o.kind # "dir"
      BY <1>3, <1>4, <3>1 DEF BucketOk, Forms
    <3>3. BucketOk(new)  BY <1>4, <3>2, StoreOk
    <3>4. \A x \in Keys : new[x].data = s3[x].data  BY <1>3, StoredContent
    <3> HIDE DEF new
    <3> QED BY <1>1, <1>5, <3>3, <3>4, SameContent
  <2>2. CASE k \notin Keys
    <3>1. DOMAIN new = Keys /\ \A x \in Keys : new[x] = s3[x]  BY <1>4, <2>2 DEF BucketOk
    <3> HIDE DEF new
    <3>2. BucketOk(new)
      <4>1. \A c \in Paths, x \in Forms : <<c, x>> \in Keys  BY DEF Keys
      <4>2. "" \in Forms /\ "/" \in Forms /\ Dirs \subseteq Paths /\ Files \subseteq Paths
        BY DEF Forms, Paths
      <4> QED BY <1>4, <3>1, <4>1, <4>2 DEF BucketOk
    <3>3. \A x \in Keys : new[x].data = s3[x].data  BY <3>1
    <3> QED BY <1>1, <1>5, <3>2, <3>3, SameContent DEF new
  <2> QED BY <2>1, <2>2
<1>6. ASSUME Goto(t, Failed(task[t], "ENOENT")), UNCHANGED <<s3, live>> PROVE IInv'
  <2>1. Calls' /\ Apart' /\ Kept'  BY <1>1, <1>6, FailStays
  <2>2. StatOk(stat')  BY <1>1 DEF IInv, Kinds, StatOk
  <2> QED BY <1>1, <1>6, <2>1, <2>2, RestStays
<1> QED BY <1>2, <1>5, <1>6

\* The delete of a directory object.
LEMMA DeleteRequestOk ==
    ASSUME IInv, NEW t \in Tasks, DeleteRequest(t)
    PROVE  IInv'
<1> DEFINE p == Step(t)[2]
           f == Step(t)[3]
           new == [s3 EXCEPT ![<<p, f>>] = None]
<1>1. At(t, "del") /\ Request(t, new, {}, {}, TRUE) /\ UNCHANGED <<wc, ent, stat>>
  BY DEF DeleteRequest, caches
<1>2. Plain(Step(t), task[t]) /\ Step(t)[1] = "del"  BY <1>1, Current DEF IInv
<1>3. p \in Dirs  BY <1>2 DEF Plain
<1>4. None.data = Nothing /\ None.kind # "dir"  BY DEF None
<1> HIDE DEF p, f
<1>5. BucketOk(new)  BY <1>3, <1>4, BucketNow, StoreOk
<1>6. \A k \in Keys : new[k].data = s3[k].data
  <2>1. <<p, f>> \in Keys => s3[<<p, f>>].data = Nothing
    BY <1>3, BucketNow DEF BucketOk, Keys, Forms, Paths
  <2> QED BY <1>4, <2>1, StoredContent
<1> HIDE DEF new
<1> QED BY <1>1, <1>5, <1>6, SameContent

\* What was stored is kept when all of it has an object that a rename is not
\* about to delete.
LEMMA StillKept ==
    ASSUME \A y \in live' : y # Nothing /\ \E k \in Keys : s3'[k].data = y /\ ~Moving(k)'
    PROVE  Kept'
BY DEF Kept

\* No rename of another call is about to delete a path of this one.
LEMMA NotMoved ==
    ASSUME IInv, NEW t \in Tasks, task[t].op \notin {"idle", "bgflush"},
           NEW u \in Tasks \ {t}, NEW k, MovedBy(u, k)
    PROVE  k[1] # task[t].p
<1>1. /\ task[u].op = "rename" /\ task[u].p \in {task[u].p, task[u].q}
      /\ k[1] \in Exposed(task[u].todo, task[u].p, "del")
  BY DEF MovedBy
<1>2. Ready(task[u])  BY <1>1 DEF IInv, Calls
<1>3. Under(task[u].p, k[1])  BY <1>1, <1>2, ExposedUnder
<1>4. ~Under(task[u].p, task[t].p)  BY <1>1 DEF IInv, Apart
<1> QED BY <1>3, <1>4

\* A request that copies nothing.
LEMMA RequestPlain ==
    ASSUME IInv, NEW t \in Tasks, NEW kind, At(t, kind), kind \notin {"attr", "fill", "copy"},
           NEW new, NEW dead, NEW born, NEW soft, Request(t, new, dead, born, soft)
    PROVE  /\ Calls' /\ Apart'
           /\ Done(new, dead, born) \/ UNCHANGED <<s3, live>>
           /\ \A k : Moving(k)' => \/ \E u \in Tasks \ {t} : MovedBy(u, k)
                                   \/ MovedBy(t, k) /\ ~Breaks(Step(t), "del")
<1>1. kind \notin {"attr", "fill"} /\ kind # "copy"  OBVIOUS
<1>2. /\ Calls' /\ Apart'
      /\ Done(new, dead, born) \/ UNCHANGED <<s3, live>>
      /\ \A k : Moving(k)' =>
             \/ \E u \in Tasks \ {t} : MovedBy(u, k)
             \/ MovedBy(t, k) /\ ~Breaks(Step(t), "del")
             \/ kind = "copy" /\ k[1] = Step(t)[2] /\ k[2] = "" /\ Done(new, dead, born)
  BY <1>1, RequestOk
<1> QED BY <1>1, <1>2

\* mknod and symlink store an object at a path that no rename holds.
LEMMA PutFileOk ==
    ASSUME IInv, NEW t \in Tasks, PutFile(t)
    PROVE  IInv'
<1>p. PICK p : p = Step(t)[2]  OBVIOUS
<1>x. PICK x : x = IF Step(t)[3] = "link" THEN <<p, task[t].v>> ELSE Nothing  OBVIOUS
<1> DEFINE o == Obj(Step(t)[3], x, 0)
           new == [s3 EXCEPT ![<<p, "">>] = o]
           old == s3[<<p, "">>].data
           dead == {old}
           born == {x}
<1>0. At(t, "putfile") /\ UNCHANGED <<wc, ent, stat>>  BY DEF PutFile, caches
<1>s. PICK soft : soft = Step(t)[4]  OBVIOUS
<1>1. Request(t, new, dead, born, soft)  BY <1>p, <1>x, <1>s DEF PutFile
<1>2. Plain(Step(t), task[t]) /\ Step(t)[1] = "putfile"  BY <1>0, Current DEF IInv
<1>3. /\ task[t].op \in {"mknod", "symlink"} /\ p = task[t].p /\ p \in Files /\ p \notin Dirs
      /\ Step(t)[3] \in {"file", "link"}
  BY <1>2, <1>p, FilesAreNotDirs DEF Plain
<1>4. o.data = x /\ o.kind # "dir"  BY <1>3 DEF Obj
<1> HIDE DEF o
<1>5. BucketOk(new)  BY <1>3, <1>4, BucketNow, StoreOk
<1>6. /\ <<p, "">> \in Keys /\ DOMAIN s3 = Keys
      /\ \A k \in Keys : new[k] = IF k = <<p, "">> THEN o ELSE s3[k]
  <2>1. <<p, "">> \in Keys  BY <1>3 DEF Keys, Forms, Paths
  <2> QED BY <2>1 DEF IInv, Shapes
<1> HIDE DEF new, dead, born
<1>7. /\ Calls' /\ Apart'
      /\ Done(new, dead, born) \/ UNCHANGED <<s3, live>>
      /\ \A k : Moving(k)' =>
            \/ \E u \in Tasks \ {t} : MovedBy(u, k)
            \/ MovedBy(t, k) /\ ~Breaks(Step(t), "del")
  <2>1. At(t, "putfile")  BY <1>0
  <2>2. "putfile" \notin {"attr", "fill", "copy"}  OBVIOUS
  <2> QED BY <1>1, <2>1, <2>2, RequestPlain
<1>8. \A k : Moving(k)' => Moving(k) /\ k # <<p, "">>
  <2>1. SUFFICES ASSUME NEW k, Moving(k)' PROVE Moving(k) /\ k # <<p, "">>
    OBVIOUS
  <2>2. ~MovedBy(t, k)  BY <1>3 DEF MovedBy
  <2>3. PICK u \in Tasks \ {t} : MovedBy(u, k)  BY <1>7, <2>1, <2>2
  <2>4. k[1] # p  BY <1>3, <2>3, NotMoved
  <2>5. <<p, "">>[1] = p  OBVIOUS
  <2> QED BY <2>3, <2>4, <2>5 DEF Moving
<1>9. BucketOk(s3')  BY <1>5, <1>7, BucketNow DEF Done
<1>10. Kept'
  <2>1. CASE UNCHANGED <<s3, live>>
    <3>1. \A y \in live' : y # Nothing /\ \E k \in Keys : s3'[k].data = y /\ ~Moving(k)'
      BY <1>8, <2>1 DEF IInv, Kept
    <3> QED BY <3>1, StillKept
  <2>2. CASE Done(new, dead, born)
    <3>1. SUFFICES ASSUME NEW y \in live'
                   PROVE  y # Nothing /\ \E k \in Keys : s3'[k].data = y /\ ~Moving(k)'
      BY StillKept
    <3>2. y # Nothing /\ ((y \in live /\ y # old) \/ y = x)  BY <2>2, <3>1 DEF Done, dead, born
    <3>3. CASE y \in live /\ y # old
      <4>1. PICK k \in Keys : s3[k].data = y /\ ~Moving(k)  BY <3>3 DEF IInv, Kept
      <4>2. k # <<p, "">>  BY <3>3, <4>1
      <4>3. s3'[k].data = y /\ ~Moving(k)'  BY <1>6, <1>8, <2>2, <4>1, <4>2 DEF Done
      <4> QED BY <3>2, <4>3
    <3>4. CASE y = x
      <4>1. s3'[<<p, "">>].data = y /\ ~Moving(<<p, "">>)'  BY <1>4, <1>6, <1>8, <2>2, <3>4 DEF Done
      <4> QED BY <1>6, <3>2, <4>1
    <3> QED BY <3>2, <3>3, <3>4
  <2> QED BY <1>7, <2>1, <2>2
<1>11. /\ DOMAIN ent' = Paths /\ DOMAIN wc' = Paths
       /\ \A d \in Dirs : ent'[d].fds = 0 /\ wc'[d] = Clean
  BY <1>0 DEF IInv, Shapes, Kinds
<1> QED BY <1>0, <1>7, <1>9, <1>10, <1>11, BucketStep

\* No rename is about to delete the target of another, or its own.
LEMMA TargetStays ==
    ASSUME IInv, NEW t \in Tasks, task[t].op = "rename",
           NEW q \in Paths, Under(task[t].q, q)
    PROVE  /\ \A u \in Tasks : ~MovedBy(u, <<q, "">>)
           /\ ~Under(task[t].p, q)
<1>1. /\ Ready(task[t]) /\ task[t].p \in Paths /\ task[t].q \in Paths
      /\ ~Under(task[t].p, task[t].q) /\ ~Under(task[t].q, task[t].p)
  BY DEF IInv, Calls, Ready, Args
<1>2. ~Under(task[t].p, q)  BY <1>1, UnderFacts
<1>3. ASSUME NEW u \in Tasks, MovedBy(u, <<q, "">>) PROVE FALSE
  <2>1. task[u].op = "rename" /\ q \in Exposed(task[u].todo, task[u].p, "del")
    BY <1>3 DEF MovedBy
  <2>2. Ready(task[u]) /\ task[u].p \in Paths  BY <2>1 DEF IInv, Calls, Ready, Args
  <2>3. Under(task[u].p, q)  BY <2>1, <2>2, ExposedUnder
  <2>4. u # t  BY <1>2, <2>3
  <2>5. Under(task[u].p, task[t].q) \/ Under(task[t].q, task[u].p)
    BY <1>1, <2>2, <2>3, UnderFacts
  <2>6. ~Under(task[u].p, task[t].q) /\ ~Under(task[t].q, task[u].p)
    BY <2>1, <2>4 DEF IInv, Apart
  <2> QED BY <2>5, <2>6
<1> QED BY <1>2, <1>3

\* The copy of a rename: its source may go from now on, since its target has the
\* content and no rename is about to delete that.
LEMMA CopyObjectOk ==
    ASSUME IInv, NEW t \in Tasks, CopyObject(t)
    PROVE  IInv'
<1>p. PICK p, q : p = Step(t)[2] /\ q = Step(t)[3]  OBVIOUS
<1>x. PICK x : x = s3[<<p, "">>].data  OBVIOUS
<1> DEFINE o == Obj(task[t].got.kind, x, task[t].got.mode)
           new == [s3 EXCEPT ![<<q, "">>] = o]
           dead == {s3[<<q, "">>].data}
           none == {}
<1>1. At(t, "copy") /\ UNCHANGED <<wc, ent, stat>>  BY DEF CopyObject, caches
<1>2. \/ Goto(t, Failed(task[t], "ENOENT")) /\ UNCHANGED <<s3, live>>
      \/ Request(t, new, dead, none, FALSE)
  BY <1>p, <1>x DEF CopyObject
<1>3. /\ Plain(Step(t), task[t]) /\ Step(t)[1] = "copy" /\ Ready(task[t])
      /\ task[t].todo # <<>> /\ Step(t) = task[t].todo[1]
  BY <1>1, Current DEF IInv
<1>4. /\ task[t].op = "rename" /\ Under(task[t].p, p) /\ Under(task[t].q, q)
      /\ p \in Paths /\ q \in Paths /\ (p \in Dirs <=> q \in Dirs)
  BY <1>3, <1>p DEF Plain
<1>5. p \in Files => task[t].got.kind # "dir"
  <2>1. Asks(Step(t), "got", p, task[t].p)  BY <1>3, <1>p DEF Asks
  <2>2. 1 \in 1 .. Len(task[t].todo)
    <3>1. IsSeq(task[t].todo)  BY <1>3 DEF Ready, Steps
    <3> QED BY <1>3, <3>1, SeqFacts
  <2>3. Unbroken(task[t].todo, 1, "got") /\ ~Given(task[t].todo, 1, "got", p)
    <3>1. 1 .. 1 - 1 = {}  OBVIOUS
    <3> QED BY <3>1 DEF Unbroken, Given
  <2>4. p \in Exposed(task[t].todo, task[t].p, "got")
    BY <1>3, <1>4, <2>1, <2>2, <2>3 DEF Exposed
  <2> QED BY <1>3, <2>4 DEF Ready, GotOk
<1>6. o.data = x /\ (q \in Files => o.kind # "dir") /\ (q \in Dirs => x = Nothing)
  <2>1. q \in Files => p \in Files  BY <1>4, FilesAreNotDirs DEF Paths
  <2>2. q \in Dirs => x = Nothing  BY <1>4, <1>x, BucketNow DEF BucketOk
  <2> QED BY <1>5, <2>1, <2>2 DEF Obj
<1> HIDE DEF o, none
<1>7. BucketOk(new)  BY <1>6, BucketNow, StoreOk
<1>8. /\ <<q, "">> \in Keys /\ DOMAIN s3 = Keys
      /\ \A k \in Keys : new[k] = IF k = <<q, "">> THEN o ELSE s3[k]
  <2>1. <<q, "">> \in Keys  BY <1>4 DEF Keys, Forms
  <2> QED BY <2>1 DEF IInv, Shapes
<1> HIDE DEF new, dead
<1>9. ASSUME Goto(t, Failed(task[t], "ENOENT")), UNCHANGED <<s3, live>> PROVE IInv'
  <2>1. Calls' /\ Apart' /\ Kept'  BY <1>1, <1>9, FailStays
  <2>2. StatOk(stat')  BY <1>1 DEF IInv, Kinds, StatOk
  <2> QED BY <1>1, <1>9, <2>1, <2>2, RestStays
<1>10. ASSUME Request(t, new, dead, none, FALSE) PROVE IInv'
  <2>1. /\ Calls' /\ Apart'
        /\ Done(new, dead, none) \/ UNCHANGED <<s3, live>>
        /\ \A k : Moving(k)' =>
              \/ \E u \in Tasks \ {t} : MovedBy(u, k)
              \/ MovedBy(t, k) /\ ~Breaks(Step(t), "del")
              \/ "copy" = "copy" /\ k[1] = Step(t)[2] /\ k[2] = "" /\ Done(new, dead, none)
    BY <1>1, <1>10, RequestOk
  <2>2. \A k : Moving(k)' => Moving(k) \/ (k[1] = p /\ k[2] = "" /\ Done(new, dead, none))
    BY <2>1, <1>p DEF Moving
  <2>3. BucketOk(s3')  BY <1>7, <2>1, BucketNow DEF Done
  <2>4. ~Moving(<<q, "">>)'
    <3>1. (\A u \in Tasks : ~MovedBy(u, <<q, "">>)) /\ ~Under(task[t].p, q)  BY <1>4, TargetStays
    <3>2. <<q, "">>[1] = q /\ p # q  BY <1>4, <3>1
    <3> QED BY <2>2, <3>1, <3>2 DEF Moving
  <2>5. ASSUME NEW y \in live'
        PROVE  y # Nothing /\ \E k \in Keys : s3'[k].data = y /\ ~Moving(k)'
    <3>1. CASE ~Done(new, dead, none)
      BY <2>1, <2>2, <2>5, <3>1 DEF IInv, Kept
    <3>2. CASE Done(new, dead, none)
      <4>1. y # Nothing /\ y \in live /\ y # s3[<<q, "">>].data  BY <2>5, <3>2 DEF Done, none, dead
      <4>2. PICK k \in Keys : s3[k].data = y /\ ~Moving(k)  BY <4>1 DEF IInv, Kept
      <4>3. k # <<q, "">> /\ s3'[k] = s3[k]  BY <1>8, <3>2, <4>1, <4>2 DEF Done
      <4>4. CASE ~Moving(k)'  BY <4>1, <4>2, <4>3, <4>4
      <4>5. CASE Moving(k)'
        <5>1. k[1] = p /\ k[2] = ""  BY <2>2, <4>2, <4>5
        <5>0. k = <<k[1], k[2]>>  BY <4>2 DEF Keys
        <5>2. k = <<p, "">>  BY <5>0, <5>1
        <5>3. s3'[<<q, "">>].data = y  BY <1>6, <1>8, <1>x, <3>2, <4>2, <5>2 DEF Done
        <5> QED BY <1>8, <2>4, <4>1, <5>3
      <4> QED BY <4>4, <4>5
    <3> QED BY <3>1, <3>2
  <2>6. Kept'  BY <2>5, StillKept
  <2>7. /\ DOMAIN ent' = Paths /\ DOMAIN wc' = Paths
        /\ \A d \in Dirs : ent'[d].fds = 0 /\ wc'[d] = Clean
    BY <1>1 DEF IInv, Shapes, Kinds
  <2> QED BY <1>1, <2>1, <2>3, <2>6, <2>7, BucketStep
<1> QED BY <1>2, <1>9, <1>10

\* The delete of a rename is one its first step was about to do, so what it
\* deletes has another object; that of an unlink ends the content.
LEMMA DeleteOk ==
    ASSUME IInv, NEW t \in Tasks, Delete(t)
    PROVE  IInv'
<1>p. PICK p : p = Step(t)[2]  OBVIOUS
<1>x. PICK old : old = s3[<<p, "">>].data  OBVIOUS
<1>d. PICK dead : dead = IF task[t].op = "unlink" THEN {old} ELSE {}  OBVIOUS
<1> DEFINE new == [s3 EXCEPT ![<<p, "">>] = None]
           none == {}
<1>1. At(t, "delete") /\ wc' = [wc EXCEPT ![p] = Clean] /\ UNCHANGED <<ent, stat>>
  BY <1>p DEF Delete, caches
<1>2. Request(t, new, dead, none, TRUE)  BY <1>p, <1>x, <1>d DEF Delete
<1>3. /\ Plain(Step(t), task[t]) /\ Step(t)[1] = "delete" /\ Ready(task[t])
      /\ task[t].todo # <<>> /\ Step(t) = task[t].todo[1]
  BY <1>1, Current DEF IInv
<1>4. p \in Paths /\ task[t].op \in {"unlink", "rename"}  BY <1>3, <1>p DEF Plain
<1>5. task[t].op = "rename" => MovedBy(t, <<p, "">>)
  <2>1. Asks(Step(t), "del", p, task[t].p)  BY <1>3, <1>p DEF Asks
  <2>2. 1 \in 1 .. Len(task[t].todo)
    <3>1. IsSeq(task[t].todo)  BY <1>3 DEF Ready, Steps
    <3> QED BY <1>3, <3>1, SeqFacts
  <2>3. Unbroken(task[t].todo, 1, "del") /\ ~Given(task[t].todo, 1, "del", p)
    <3>1. 1 .. 1 - 1 = {}  OBVIOUS
    <3> QED BY <3>1 DEF Unbroken, Given
  <2>4. p \in Exposed(task[t].todo, task[t].p, "del")
    BY <1>3, <1>4, <2>1, <2>2, <2>3 DEF Exposed
  <2>5. <<p, "">>[1] = p /\ <<p, "">>[2] = ""  OBVIOUS
  <2> QED BY <2>4, <2>5 DEF MovedBy
<1>6. BucketOk(new)
  <2>1. None.data = Nothing /\ None.kind # "dir"  BY DEF None
  <2> QED BY <2>1, BucketNow, StoreOk
<1>7. \A k \in Keys : k # <<p, "">> => new[k] = s3[k]  BY DEF IInv, Shapes
<1> HIDE DEF new, none
<1>8. /\ Calls' /\ Apart'
      /\ Done(new, dead, none) \/ UNCHANGED <<s3, live>>
      /\ \A k : Moving(k)' =>
            \/ \E u \in Tasks \ {t} : MovedBy(u, k)
            \/ MovedBy(t, k) /\ ~Breaks(Step(t), "del")
  <2>1. At(t, "delete")  BY <1>1
  <2>2. "delete" \notin {"attr", "fill", "copy"}  OBVIOUS
  <2> QED BY <1>2, <2>1, <2>2, RequestPlain
<1>9. \A k : Moving(k)' => Moving(k)  BY <1>8 DEF Moving
<1>10. BucketOk(s3')  BY <1>6, <1>8, BucketNow DEF Done
<1>11. Kept'
  <2>1. SUFFICES ASSUME NEW y \in live'
                 PROVE  y # Nothing /\ \E k \in Keys : s3'[k].data = y /\ ~Moving(k)'
    BY StillKept
  <2>2. CASE UNCHANGED <<s3, live>>  BY <1>9, <2>1, <2>2 DEF IInv, Kept
  <2>3. CASE Done(new, dead, none)
    <3>1. y # Nothing /\ y \in live /\ y \notin dead  BY <2>1, <2>3 DEF Done, none
    <3>2. PICK k \in Keys : s3[k].data = y /\ ~Moving(k)  BY <3>1 DEF IInv, Kept
    <3>3. k # <<p, "">>
      <4>1. CASE task[t].op = "unlink"
        <5>1. y # old  BY <1>d, <3>1, <4>1
        <5> QED BY <1>x, <3>2, <5>1
      <4>2. CASE task[t].op = "rename"  BY <1>5, <3>2, <4>2 DEF Moving
      <4> QED BY <1>4, <4>1, <4>2
    <3>4. s3'[k].data = y /\ ~Moving(k)'  BY <1>7, <1>9, <2>3, <3>2, <3>3 DEF Done
    <3> QED BY <3>1, <3>4
  <2> QED BY <1>8, <2>2, <2>3
<1>12. /\ DOMAIN ent' = Paths /\ DOMAIN wc' = Paths
       /\ \A d \in Dirs : ent'[d].fds = 0 /\ wc'[d] = Clean
  <2>1. DOMAIN ent' = Paths /\ DOMAIN wc' = Paths  BY <1>1 DEF IInv, Shapes
  <2>2. ASSUME NEW d \in Dirs PROVE ent'[d].fds = 0 /\ wc'[d] = Clean
    <3>1. d \in Paths /\ ent[d].fds = 0 /\ wc[d] = Clean  BY DEF IInv, Kinds, Paths
    <3> QED BY <1>1, <3>1 DEF IInv, Shapes
  <2> QED BY <2>1, <2>2
<1> QED BY <1>1, <1>8, <1>10, <1>11, <1>12, BucketStep

\* An upload below a running rename stores nothing that is counted on; any
\* other leaves what it stores where no rename is about to delete it.
LEMMA UpLoadOk ==
    ASSUME IInv, NEW t \in Tasks, UpLoad(t)
    PROVE  IInv'
<1>p. PICK p : p = Step(t)[2]  OBVIOUS
<1>x. PICK x : x = Data(p)  OBVIOUS
<1>o. PICK old : old = s3[<<p, "">>].data  OBVIOUS
<1>m. PICK born : born = IF \E u \in Tasks \ {t} : task[u].op = "rename" /\ Under(task[u].p, p)
                         THEN {} ELSE {x}
  OBVIOUS
<1>d. PICK dead : dead = {old} \ {x}  OBVIOUS
<1> DEFINE o == Obj("file", x, task[t].up)
           new == [s3 EXCEPT ![<<p, "">>] = o]
<1>0. /\ At(t, "upload") /\ UNCHANGED stat
      /\ wc' = wc \/ wc' = [wc EXCEPT ![p] = Clean]
      /\ ent' = ent \/ ent' = [ent EXCEPT ![p].mark = FALSE, ![p].pend = "no"]
  BY <1>p DEF UpLoad, caches
<1>1. Request(t, new, dead, born, FALSE)
  BY <1>p, <1>x, <1>o, <1>m, <1>d DEF UpLoad
<1>2. Plain(Step(t), task[t]) /\ Step(t)[1] = "upload"  BY <1>0, Current DEF IInv
<1>3. p \in Files /\ p \notin Dirs /\ p \in Paths
  BY <1>2, <1>p, FilesAreNotDirs DEF Plain, FileSteps
<1>4. o.data = x /\ o.kind # "dir"  BY DEF Obj
<1> HIDE DEF o
<1>5. BucketOk(new)  BY <1>3, <1>4, BucketNow, StoreOk
<1>6. /\ <<p, "">> \in Keys /\ DOMAIN s3 = Keys
      /\ \A k \in Keys : new[k] = IF k = <<p, "">> THEN o ELSE s3[k]
  <2>1. <<p, "">> \in Keys  BY <1>3 DEF Keys, Forms
  <2> QED BY <2>1 DEF IInv, Shapes
<1> HIDE DEF new
<1>7. /\ Calls' /\ Apart'
      /\ Done(new, dead, born) \/ UNCHANGED <<s3, live>>
      /\ \A k : Moving(k)' =>
            \/ \E u \in Tasks \ {t} : MovedBy(u, k)
            \/ MovedBy(t, k) /\ ~Breaks(Step(t), "del")
  <2>1. At(t, "upload")  BY <1>0
  <2>2. "upload" \notin {"attr", "fill", "copy"}  OBVIOUS
  <2> QED BY <1>1, <2>1, <2>2, RequestPlain
<1>8. \A k : Moving(k)' => \E u \in Tasks \ {t} : MovedBy(u, k)
  <2>1. Breaks(Step(t), "del")  BY <1>2 DEF Breaks
  <2> QED BY <1>7, <2>1
<1>9. \A k : Moving(k)' => Moving(k)  BY <1>8 DEF Moving
<1>10. born # {} => ~Moving(<<p, "">>)'
  <2>1. SUFFICES ASSUME Moving(<<p, "">>)' PROVE born = {}  OBVIOUS
  <2>2. PICK u \in Tasks \ {t} : MovedBy(u, <<p, "">>)  BY <1>8, <2>1
  <2>3. task[u].op = "rename" /\ p \in Exposed(task[u].todo, task[u].p, "del")
    BY <2>2 DEF MovedBy
  <2>4. Ready(task[u])  BY <2>3 DEF IInv, Calls
  <2>5. Under(task[u].p, p)  BY <2>3, <2>4, ExposedUnder
  <2> QED BY <1>m, <2>3, <2>5
<1>11. BucketOk(s3')  BY <1>5, <1>7, BucketNow DEF Done
<1>12. Kept'
  <2>1. SUFFICES ASSUME NEW y \in live'
                 PROVE  y # Nothing /\ \E k \in Keys : s3'[k].data = y /\ ~Moving(k)'
    BY StillKept
  <2>2. CASE UNCHANGED <<s3, live>>  BY <1>9, <2>1, <2>2 DEF IInv, Kept
  <2>3. CASE Done(new, dead, born)
    <3>1. y # Nothing /\ ((y \in live /\ y \notin dead) \/ y \in born)  BY <2>1, <2>3 DEF Done
    <3>2. CASE y \in born
      <4>1. y = x /\ ~Moving(<<p, "">>)'  BY <1>m, <1>10, <3>2
      <4>2. s3'[<<p, "">>].data = y  BY <1>4, <1>6, <2>3, <4>1 DEF Done
      <4> QED BY <1>6, <3>1, <4>1, <4>2
    <3>3. CASE y \in live /\ y \notin dead
      <4>1. PICK k \in Keys : s3[k].data = y /\ ~Moving(k)  BY <3>3 DEF IInv, Kept
      <4>2. ~Moving(k)'  BY <1>9, <4>1
      <4>3. s3'[k].data = y
        <5>1. CASE k = <<p, "">>
          <6>1. y = x  BY <1>o, <1>d, <3>3, <4>1, <5>1
          <6> QED BY <1>4, <1>6, <2>3, <5>1, <6>1 DEF Done
        <5>2. CASE k # <<p, "">>  BY <1>6, <2>3, <4>1, <5>2 DEF Done
        <5> QED BY <5>1, <5>2
      <4> QED BY <3>1, <4>2, <4>3
    <3> QED BY <3>1, <3>2, <3>3
  <2> QED BY <1>7, <2>2, <2>3
<1>13. /\ DOMAIN ent' = Paths /\ DOMAIN wc' = Paths
       /\ \A d \in Dirs : ent'[d].fds = 0 /\ wc'[d] = Clean
  <2>1. DOMAIN ent' = Paths /\ DOMAIN wc' = Paths  BY <1>0 DEF IInv, Shapes
  <2>2. ASSUME NEW d \in Dirs PROVE ent'[d].fds = 0 /\ wc'[d] = Clean
    <3>1. d \in Paths /\ d # p /\ ent[d].fds = 0 /\ wc[d] = Clean
      BY <1>3 DEF IInv, Kinds, Paths
    <3> QED BY <1>0, <3>1 DEF IInv, Shapes
  <2> QED BY <2>1, <2>2
<1> QED BY <1>0, <1>7, <1>11, <1>12, <1>13, BucketStep

------------------------------------------------------------------------------
(* The calls, and the theorem.                                             *)

\* What the kernel has found out before it calls.
LEMMA CallableArgs ==
    ASSUME Kinds, NEW op, NEW p \in Paths, NEW q \in Paths, Callable(op, p, q)
    PROVE  Args(op, p, q)
<1>1. p \in Dirs \/ p \in Files  BY DEF Paths
<1>2. op \in {"create", "mknod", "symlink", "unlink", "open", "readlink"} => p \in Files
  BY DEF Callable
<1>3. op = "bgflush" => p \in Files  BY <1>1 DEF Callable, Dirty, Kinds
<1>4. op \in HandleOps => p \in Files
  <2> DEFINE S == {u \in Tasks : /\ task[u].p = p
                                 /\ task[u].op \in {"open", "create"}
                                 /\ task[u].todo = <<>>}
  <2>1. Cardinality(S) \in Nat
    <3>1. IsFiniteSet(S)  BY NamespaceAssumption, FS_Subset
    <3> HIDE DEF S
    <3> QED BY <3>1, FS_CardinalityType
  <2>2. op \in HandleOps => ent[p].fds > Cardinality(S)  BY DEF Callable
  <2> HIDE DEF S
  <2>3. p \in Dirs => ~(0 > Cardinality(S))  BY <2>1
  <2>4. p \in Dirs => ent[p].fds = 0  BY DEF Kinds
  <2> QED BY <1>1, <2>2, <2>3, <2>4
<1>5. op \in {"mkdir", "rmdir", "opendir", "readdir"} => p \in Dirs  BY DEF Callable
<1>6. op = "rename" =>
         /\ ~Under(p, q) /\ ~Under(q, p)
         /\ \A K \in {Dirs, Files} : \A x \in K : Under(p, x) => MoveTo(x, p, q) \in K
  BY DEF Callable
<1> QED BY <1>2, <1>3, <1>4, <1>5, <1>6 DEF Args

\* The trees of a rename exclude every other call in them.
LEMMA ExcludedTrees ==
    ASSUME NEW op, NEW p, NEW q, NEW u, ~Excluded(op, p, q, u),
           op # "bgflush", u.op \notin {"idle", "bgflush"}
    PROVE  /\ op = "rename" => \A x \in {p, q} : ~Under(x, u.p) /\ ~Under(x, u.q)
           /\ u.op = "rename" => \A x \in {u.p, u.q} : ~Under(x, p) /\ ~Under(x, q)
BY DEF Excluded

\* A call begins: it relies on nothing yet, and the trees of a rename exclude the
\* other calls.
LEMMA BeginOk ==
    ASSUME IInv, NEW t \in Tasks, Begin(t)
    PROVE  IInv'
<1>1. /\ task[t].op = "idle" /\ UNCHANGED <<s3, ent, wc, stat, live>>
  BY DEF Begin, store, caches, history
<1>2. PICK op \in Ops, p \in Paths, q \in Paths :
         /\ Callable(op, p, q)
         /\ \A u \in Tasks \ {t} : ~Excluded(op, p, q, task[u])
         /\ Goto(t, [Idle EXCEPT !.op = op, !.p = p, !.q = q, !.v = ops',
                                 !.todo = Handler(op, p, q, ops')])
  BY DEF Begin
<1>3. PICK v : v = ops'  OBVIOUS
<1> DEFINE r == [Idle EXCEPT !.op = op, !.p = p, !.q = q, !.v = v, !.todo = Handler(op, p, q, v)]
<1>4. Goto(t, r)  BY <1>2, <1>3
<1>5. /\ Shape(r) /\ r.op = op /\ r.p = p /\ r.q = q /\ r.v = v /\ r.list = {}
      /\ r.todo = Handler(op, p, q, v)
  BY DEF Shape, Idle
<1> HIDE DEF r
<1>6. Args(r.op, r.p, r.q)  BY <1>2, <1>5, CallableArgs DEF IInv
<1>7. /\ Steps(r.todo, r) /\ Weak(r.todo, r.p) /\ Exposed(r.todo, r.p, "got") = {}
      /\ r.op = "rename" => Exposed(r.todo, r.p, "del") = {}
  <2>1. r.todo = Handler(r.op, r.p, r.q, r.v) /\ r.op \in Ops  BY <1>5
  <2>2. /\ Steps(Handler(r.op, r.p, r.q, r.v), r) /\ Weak(Handler(r.op, r.p, r.q, r.v), r.p)
        /\ Exposed(Handler(r.op, r.p, r.q, r.v), r.p, "got") = {}
        /\ r.op = "rename" => Exposed(Handler(r.op, r.p, r.q, r.v), r.p, "del") = {}
    BY <1>6, <2>1, HandlerOk
  <2> QED BY <2>1, <2>2
<1>8. Ready(r)  BY <1>5, <1>6, <1>7 DEF Ready, ListOk, GotOk
<1>9. PICK n : task' = [task EXCEPT ![t] = n] /\ Goes(n, r)  BY <1>4, <1>8, GotoOk
<1>10. /\ Ready(n) /\ n.op = op /\ n.p = p /\ n.q = q
       /\ op = "rename" => Exposed(n.todo, n.p, "del") = {}
  BY <1>5, <1>7, <1>9 DEF Goes, Same
<1>11. op # "idle"
  BY OpsAssumption DEF NameOps, HeaderOps, HandleOps, LookOps
<1>12. /\ DOMAIN task' = Tasks /\ task'[t] = n
       /\ \A u \in Tasks \ {t} : task'[u] = task[u]
  BY <1>9 DEF IInv, Calls
<1>13. Calls'
  <2>1. ASSUME NEW u \in Tasks
        PROVE  /\ Shape(task'[u])
               /\ task'[u].op = "idle" => task'[u].todo = <<>>
               /\ task'[u].op # "idle" => Ready(task'[u])
    <3>1. CASE u = t  BY <1>10, <1>11, <1>12, <3>1 DEF Ready
    <3>2. CASE u # t  BY <1>12, <3>2 DEF IInv, Calls
    <3> QED BY <3>1, <3>2
  <2> QED BY <1>12, <2>1 DEF Calls
<1>14. Apart'
  <2>1. ASSUME NEW a \in Tasks, NEW b \in Tasks, a # b, task'[a].op = "rename",
               task'[b].op \notin {"idle", "bgflush"},
               NEW x \in {task'[a].p, task'[a].q}
        PROVE  ~Under(x, task'[b].p) /\ ~Under(x, task'[b].q)
    <3>1. CASE a = t
      <4>1. task'[b] = task[b] /\ ~Excluded(op, p, q, task[b])  BY <1>2, <1>12, <2>1, <3>1
      <4>2. op = "rename" /\ x \in {p, q}  BY <1>10, <1>12, <2>1, <3>1
      <4>3. task[b].op \notin {"idle", "bgflush"} /\ op # "bgflush"  BY <2>1, <4>1, <4>2
      <4>4. ~Under(x, task[b].p) /\ ~Under(x, task[b].q)  BY <4>1, <4>2, <4>3, ExcludedTrees
      <4> QED BY <4>1, <4>4
    <3>2. CASE b = t
      <4>1. task'[a] = task[a] /\ ~Excluded(op, p, q, task[a])  BY <1>2, <1>12, <2>1, <3>2
      <4>2. task[a].op = "rename" /\ x \in {task[a].p, task[a].q}  BY <2>1, <4>1
      <4>3. task[a].op \notin {"idle", "bgflush"} /\ op # "bgflush"
        BY <1>10, <1>12, <2>1, <3>2, <4>2
      <4>4. ~Under(x, p) /\ ~Under(x, q)  BY <4>1, <4>2, <4>3, ExcludedTrees
      <4> QED BY <1>10, <1>12, <3>2, <4>4
    <3>3. CASE a # t /\ b # t
      <4>1. task'[a] = task[a] /\ task'[b] = task[b]  BY <1>12, <3>3
      <4> QED BY <2>1, <4>1 DEF IInv, Apart
    <3> QED BY <3>1, <3>2, <3>3
  <2> QED BY <2>1 DEF Apart
<1>15. \A k : Moving(k)' => Moving(k)
  <2>1. ASSUME NEW k, NEW u \in Tasks, task'[u].op = "rename", k[2] = "",
               k[1] \in Exposed(task'[u].todo, task'[u].p, "del")
        PROVE  MovedBy(u, k)
    <3>1. u # t  BY <1>10, <1>12, <2>1
    <3>2. task'[u] = task[u]  BY <1>12, <3>1
    <3> QED BY <2>1, <3>2 DEF MovedBy
  <2> QED BY <2>1 DEF Moving, MovedBy
<1>16. Kept'
  <2>1. \A x \in live' : x # Nothing /\ \E k \in Keys : s3'[k].data = x /\ ~Moving(k)'
    BY <1>1, <1>15 DEF IInv, Kept
  <2> QED BY <2>1, StillKept
<1>17. StatOk(stat')  BY <1>1 DEF IInv, Kinds, StatOk
<1> QED BY <1>1, <1>13, <1>14, <1>16, <1>17, RestStays

\* A call that returns is about to delete nothing.
LEMMA ReturnOk ==
    ASSUME IInv, NEW t \in Tasks, Return(t)
    PROVE  IInv'
<1>1. /\ task' = [task EXCEPT ![t] = Idle] /\ UNCHANGED <<s3, ent, wc, stat, live>>
  BY DEF Return, store, caches
<1>2. Shape(Idle) /\ Idle.op = "idle" /\ Idle.todo = <<>>  BY DEF Shape, Idle
<1>3. /\ DOMAIN task' = Tasks /\ task'[t] = Idle
      /\ \A u \in Tasks \ {t} : task'[u] = task[u]
  BY <1>1 DEF IInv, Calls
<1>4. Calls'
  <2>1. ASSUME NEW u \in Tasks
        PROVE  /\ Shape(task'[u])
               /\ task'[u].op = "idle" => task'[u].todo = <<>>
               /\ task'[u].op # "idle" => Ready(task'[u])
    <3>1. CASE u = t  BY <1>2, <1>3, <3>1
    <3>2. CASE u # t  BY <1>3, <3>2 DEF IInv, Calls
    <3> QED BY <3>1, <3>2
  <2> QED BY <1>3, <2>1 DEF Calls
<1>5. Apart'
  <2>1. ASSUME NEW a \in Tasks, NEW b \in Tasks, a # b, task'[a].op = "rename",
               task'[b].op \notin {"idle", "bgflush"},
               NEW x \in {task'[a].p, task'[a].q}
        PROVE  ~Under(x, task'[b].p) /\ ~Under(x, task'[b].q)
    <3>1. a # t /\ b # t  BY <1>2, <1>3, <2>1
    <3>2. task'[a] = task[a] /\ task'[b] = task[b]  BY <1>3, <3>1
    <3> QED BY <2>1, <3>2 DEF IInv, Apart
  <2> QED BY <2>1 DEF Apart
<1>6. \A k : Moving(k)' => Moving(k)
  <2>1. ASSUME NEW k, NEW u \in Tasks, task'[u].op = "rename", k[2] = "",
               k[1] \in Exposed(task'[u].todo, task'[u].p, "del")
        PROVE  MovedBy(u, k)
    <3>1. u # t  BY <1>2, <1>3, <2>1
    <3>2. task'[u] = task[u]  BY <1>3, <3>1
    <3> QED BY <2>1, <3>2 DEF MovedBy
  <2> QED BY <2>1 DEF Moving, MovedBy
<1>7. Kept'
  <2>1. \A x \in live' : x # Nothing /\ \E k \in Keys : s3'[k].data = x /\ ~Moving(k)'
    BY <1>1, <1>6 DEF IInv, Kept
  <2> QED BY <2>1, StillKept
<1>8. StatOk(stat')  BY <1>1 DEF IInv, Kinds, StatOk
<1> QED BY <1>1, <1>4, <1>5, <1>7, <1>8, RestStays

\* Before the first call: every path is in one of its situations.
LEMMA InitOk ==
    ASSUME Init
    PROVE  IInv
<1> DEFINE there(fs, c) == fs[c] \in {"closed", "dirty", "cached"}
           opened(fs, c) == fs[c] \in {"new", "dirty"}
           old(c) == Obj("file", <<c, 0>>, 0)
<1>1. PICK fs \in Starts :
         /\ s3 = [k \in Keys |->
                    IF k[1] \in Dirs THEN IF fs[k[1]] = k[2] THEN Implicit ELSE None
                    ELSE IF k[2] = "" /\ there(fs, k[1]) THEN old(k[1]) ELSE None]
         /\ wc = [p \in Paths |-> IF p \in Files /\ fs[p] = "dirty" THEN <<p, -2>> ELSE Clean]
         /\ ent = [p \in Paths |->
                     IF p \in Files /\ opened(fs, p)
                     THEN [fds |-> 1, mark |-> TRUE, mode |-> 0,
                           pend |-> IF fs[p] = "new" THEN "create" ELSE "no"]
                     ELSE NoEnt]
         /\ stat = [k \in {<<c, "">> : c \in {x \in Files : opened(fs, x)}} |->
                      Entry(IF fs[k[1]] = "new" THEN Obj("file", Nothing, 0) ELSE old(k[1]),
                            FALSE, 1)]
         /\ live = {<<c, 0>> : c \in {x \in Files : there(fs, x)}}
         /\ task = [t \in Tasks |-> Idle]
  BY DEF Init
<1>2. /\ \A c \in Paths, f \in Forms : <<c, f>> \in Keys
      /\ "" \in Forms /\ "/" \in Forms /\ Dirs \subseteq Paths /\ Files \subseteq Paths
  BY DEF Keys, Forms, Paths
<1>3. /\ \A c : old(c).data = <<c, 0>> /\ old(c).kind = "file"
      /\ None.data = Nothing /\ None.kind # "dir" /\ Implicit.data = Nothing
  BY DEF Obj, None, Implicit
<1> HIDE DEF old
<1>4. Shapes  BY <1>1 DEF Shapes
<1>5. \A d \in Dirs, f \in Forms : s3[<<d, f>>].data = Nothing
  BY <1>1, <1>2, <1>3
<1>6. \A c \in Files, f \in Forms :
          s3[<<c, f>>] = IF f = "" /\ there(fs, c) THEN old(c) ELSE None
  <2> TAKE c \in Files, f \in Forms
  <2>1. <<c, f>> \in Keys /\ <<c, f>>[1] = c /\ <<c, f>>[2] = f /\ c \notin Dirs
    BY <1>2, FilesAreNotDirs
  <2> QED BY <1>1, <2>1
<1>7. Kinds
  <2>1. ASSUME NEW p \in Paths PROVE s3[<<p, "/">>].data = Nothing
    <3>1. CASE p \in Dirs  BY <1>2, <1>5, <3>1
    <3>2. CASE p \in Files
      <4>1. s3[<<p, "/">>] = None  BY <1>2, <1>6, <3>2
      <4> QED BY <1>3, <4>1
    <3> QED BY <3>1, <3>2 DEF Paths
  <2>2. ASSUME NEW d \in Dirs
        PROVE  s3[<<d, "">>].data = Nothing /\ ent[d].fds = 0 /\ wc[d] = Clean
    <3>1. d \in Paths /\ d \notin Files  BY <1>2, FilesAreNotDirs
    <3>2. ent[d] = NoEnt /\ wc[d] = Clean  BY <1>1, <3>1
    <3>3. NoEnt.fds = 0  BY DEF NoEnt
    <3>4. s3[<<d, "">>].data = Nothing  BY <1>2, <1>5
    <3> QED BY <3>2, <3>3, <3>4
  <2>3. \A f \in Files : \A x \in Forms : s3[<<f, x>>].kind # "dir"  BY <1>3, <1>6
  <2>4. ASSUME NEW k \in DOMAIN stat PROVE stat[k].obj.kind # "dir"
    <3>1. \E o : stat[k] = Entry(o, FALSE, 1) /\ o.kind = "file"
      <4>1. CASE fs[k[1]] = "new"
        <5>1. stat[k] = Entry(Obj("file", Nothing, 0), FALSE, 1)  BY <1>1, <2>4, <4>1
        <5>2. Obj("file", Nothing, 0).kind = "file"  BY DEF Obj
        <5> QED BY <5>1, <5>2
      <4>2. CASE fs[k[1]] # "new"
        <5>1. stat[k] = Entry(old(k[1]), FALSE, 1)  BY <1>1, <2>4, <4>2
        <5> QED BY <1>3, <5>1
      <4> QED BY <4>1, <4>2
    <3> QED BY <3>1 DEF Entry
  <2> QED BY <2>1, <2>2, <2>3, <2>4 DEF Kinds
<1>8. Calls
  <2>1. Shape(Idle) /\ Idle.op = "idle" /\ Idle.todo = <<>>  BY DEF Shape, Idle
  <2> QED BY <1>1, <2>1 DEF Calls
<1>9. \A t \in Tasks : task[t].op = "idle"  BY <1>1 DEF Idle
<1>10. Apart  BY <1>9 DEF Apart
<1>11. Kept
  <2>1. SUFFICES ASSUME NEW y \in live
                 PROVE  y # Nothing /\ \E k \in Keys : s3[k].data = y /\ ~Moving(k)
    BY DEF Kept
  <2>2. PICK c \in Files : there(fs, c) /\ y = <<c, 0>>  BY <1>1, <2>1
  <2>3. y # Nothing
    <3>1. c # Root  BY <1>2, NamespaceAssumption
    <3> QED BY <2>2, <3>1 DEF Nothing
  <2>4. <<c, "">> \in Keys /\ s3[<<c, "">>] = old(c)  BY <1>2, <1>6, <2>2
  <2>5. ~Moving(<<c, "">>)  BY <1>9 DEF Moving, MovedBy
  <2> QED BY <1>3, <2>2, <2>3, <2>4, <2>5
<1> QED BY <1>4, <1>7, <1>8, <1>10, <1>11 DEF IInv

\* A step that changes nothing.
LEMMA Stuttering ==
    ASSUME IInv, UNCHANGED vars
    PROVE  IInv'
<1>1. UNCHANGED <<task, s3, wc, ent, stat, live>>  BY DEF vars
<1>2. Calls' /\ Apart'  BY <1>1 DEF IInv, Calls, Apart
<1>3. \A k : Moving(k)' => Moving(k)  BY <1>1 DEF Moving, MovedBy
<1>4. Kept'
  <2>1. \A x \in live' : x # Nothing /\ \E k \in Keys : s3'[k].data = x /\ ~Moving(k)'
    BY <1>1, <1>3 DEF IInv, Kept
  <2> QED BY <2>1, StillKept
<1>5. StatOk(stat')  BY <1>1 DEF IInv, Kinds, StatOk
<1> QED BY <1>1, <1>2, <1>4, <1>5, RestStays

\* Every step of every handler keeps the invariant.
LEMMA NextOk ==
    ASSUME IInv, Next
    PROVE  IInv'
<1>1. PICK t \in Tasks :
         \/ Begin(t) \/ Return(t) \/ GetStat(t) \/ HeadRequest(t) \/ get_object_attribute(t)
         \/ PutDirectory(t) \/ PutFile(t) \/ PutHeadRequest(t) \/ CopyObject(t)
         \/ DeleteRequest(t) \/ Delete(t) \/ ListBucket(t)
         \/ ListNames(t) \/ Readdir(t) \/ MultiHead(t) \/ multi_head_callback(t)
         \/ RowFlush(t) \/ FlushDirty(t) \/ UpLoad(t) \/ UploadPending(t) \/ MergeOrgMeta(t)
         \/ StatStep(t) \/ GetSymlink(t) \/ Create(t) \/ EntityStep(t)
         \/ WriteCachePut(t) \/ ReadCacheGet(t) \/ ListShown(t)
  BY DEF Next
<1>2. CASE Begin(t)  BY <1>2, BeginOk
<1>3. CASE Return(t)  BY <1>3, ReturnOk
<1>4. CASE GetStat(t)  BY <1>4, GetStatOk
<1>5. CASE HeadRequest(t)  BY <1>5, HeadRequestOk
<1>6. CASE get_object_attribute(t)  BY <1>6, AttributeOk
<1>7. CASE PutDirectory(t)  BY <1>7, PutDirectoryOk
<1>8. CASE PutFile(t)  BY <1>8, PutFileOk
<1>9. CASE PutHeadRequest(t)  BY <1>9, PutHeadRequestOk
<1>10. CASE CopyObject(t)  BY <1>10, CopyObjectOk
<1>11. CASE DeleteRequest(t)  BY <1>11, DeleteRequestOk
<1>12. CASE Delete(t)  BY <1>12, DeleteOk
<1>13. CASE ListBucket(t)  BY <1>13, ListBucketOk
<1>14. CASE ListNames(t)  BY <1>14, ListNamesOk
<1>15. CASE Readdir(t)  BY <1>15, ReaddirOk
<1>16. CASE MultiHead(t)  BY <1>16, MultiHeadOk
<1>17. CASE multi_head_callback(t)  BY <1>17, MultiHeadCallbackOk
<1>18. CASE RowFlush(t)  BY <1>18, RowFlushOk
<1>19. CASE FlushDirty(t)  BY <1>19, FlushDirtyOk
<1>20. CASE UpLoad(t)  BY <1>20, UpLoadOk
<1>21. CASE UploadPending(t)  BY <1>21, UploadPendingOk
<1>22. CASE MergeOrgMeta(t)  BY <1>22, MergeOrgMetaOk
<1>23. CASE StatStep(t)  BY <1>23, StatStepOk
<1>24. CASE GetSymlink(t)  BY <1>24, GetSymlinkOk
<1>25. CASE Create(t)  BY <1>25, CreateOk
<1>26. CASE EntityStep(t)  BY <1>26, EntityStepOk
<1>27. CASE WriteCachePut(t)  BY <1>27, WriteCachePutOk
<1>28. CASE ReadCacheGet(t)  BY <1>28, ReadCacheGetOk
<1>29. CASE ListShown(t)  BY <1>29, ListShownOk
<1> QED BY <1>1, <1>2, <1>3, <1>4, <1>5, <1>6, <1>7, <1>8, <1>9, <1>10, <1>11, <1>12, <1>13,
           <1>14, <1>15, <1>16, <1>17, <1>18, <1>19, <1>20, <1>21, <1>22, <1>23, <1>24, <1>25,
           <1>26, <1>27, <1>28, <1>29

\* No interleaving of the handlers, with requests that fail or go unanswered
\* and the background flush of the accessor, loses the content of a file: it
\* is in S3 under some name until a call that removes or replaces it.  The
\* copy of a rename is complete before the original goes, for every tree that
\* is moved (s3fs.cpp, rename_object and rename_directory).
THEOREM FilesAreKept == Spec => []FilesKept
<1>1. Init => IInv  BY InitOk
<1>2. IInv /\ [Next]_vars => IInv'  BY NextOk, Stuttering
<1>3. IInv => FilesKept  BY DEF IInv, Kept, FilesKept
<1> QED BY <1>1, <1>2, <1>3, PTL DEF Spec
==============================================================================
