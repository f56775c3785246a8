-------------------------- MODULE InterceptProofs --------------------------
(***************************************************************************)
(* Theorems about Intercept: the answers are those of POSIX (AnswersRight) *)
(* and a descriptor is in both tables (FdKnown).  One inductive invariant, *)
(* InterceptInv.                                                           *)
(***************************************************************************)
EXTENDS Intercept, FiniteSetTheorems, SequenceTheorems, WellFoundedInduction,
        NaturalsInduction, TLAPS

OpenOps == {"open", "opendir"}
OffsetOps == {"read", "write", "lseek"}
IoOps == {"read", "write"}

Bytes == {"old", "hole"} \cup Threads

\* What op is answered.
IsAnswer(op, a) == a = [ret |-> a.ret, data |-> a.data] /\ (op = "read" => a.data \in Seq(Bytes))

(* The wire: a thread has one call under way at the most.                  *)
CallOk(c) ==
  /\ DOMAIN c = {"op", "path", "fd", "n", "flag"}
  /\ c.op = "opendir" => c.path = Dir
  /\ c.op \in {"open", "stat", "unlink"} => c.path \in Names
  /\ c.op \in OpenOps => c.fd = 0
  /\ c.op \in OffsetOps \cup {"close"} => c.fd \in Fds
  /\ c.op \in IoOps => c.n \in Nat

\* A message, or a handler, of the call of w.
ForCall(th, m, w) ==
  /\ m.by = w /\ CallOk(m.req)
  /\ th.st = "taking" => m.req = th.call /\ m.seq = th.expect

WireOk(th, rq, rs, wk, w) ==
  /\ DOMAIN th = {"st", "call", "expect", "own", "lost"} /\ th.own
  /\ th.st \in {"new", "waiting", "idle", "taking", "gone"}
  /\ DOMAIN wk = {"req", "by", "seq", "at", "off", "got"}
  /\ wk.at = "idle" => wk = Idle
  /\ th.st \in {"waiting", "taking"} => CallOk(th.call)
  /\ th.st \notin {"waiting", "taking"} => th.call = None
  /\ th.st = "waiting" => Initialises(th.call)
  /\ th.st \in {"new", "waiting", "idle"} => rq = <<>> /\ rs = <<>> /\ wk = Idle
  /\ rq # <<>> => /\ rq = <<rq[1]>> /\ DOMAIN rq[1] = {"req", "by", "seq"} /\ ForCall(th, rq[1], w)
                  /\ rs = <<>> /\ wk = Idle
  /\ rs # <<>> => /\ rs = <<rs[1]>> /\ DOMAIN rs[1] = {"req", "by", "seq", "ans"} /\ ForCall(th, rs[1], w)
                  /\ IsAnswer(rs[1].req.op, rs[1].ans) /\ wk = Idle
  /\ wk # Idle => ForCall(th, wk, w)

Wire == 
  /\ DOMAIN thread = Threads /\ DOMAIN requests = Threads /\ DOMAIN responses = Threads /\ DOMAIN work = Threads
  /\ \A w \in Threads : WireOk(thread[w], requests[w], responses[w], work[w], w)

\* A thread that is gone in the middle of a call went with its process.
Process ==
  (\E w \in Threads : thread[w].st = "gone" /\ (requests[w] # <<>> \/ responses[w] # <<>> \/ work[w] # Idle))
     => \A u \in Threads : thread[u].st = "gone"

(* Descriptors. *)
\* w has one that the application does not hold yet, or does not any more.
Holds(rq, rs, fd) ==
  \/ rq # <<>> /\ rq[1].req.op = "close" /\ fd = rq[1].req.fd
  \/ rs # <<>> /\ rs[1].req.op \in OpenOps /\ fd = rs[1].ans.ret /\ fd \in Fds

Tokens ==
  /\ \A w \in Threads, fd \in Fds : Holds(requests[w], responses[w], fd) => fd \in DOMAIN pseudo \ mine
  /\ \A w, v \in Threads, fd \in Fds :
        w # v => ~(Holds(requests[w], responses[w], fd) /\ Holds(requests[v], responses[v], fd))

Granted ==
  \A w \in Threads :
    responses[w] # <<>> /\ responses[w][1].req.op \in OpenOps /\ responses[w][1].ans.ret \in Fds
       => pseudo[responses[w][1].ans.ret].path = responses[w][1].req.path

\* A call on a descriptor finds it open.
UseOk(c, held, table) ==
  c.op # "close" /\ c.fd # 0 =>
     c.fd \in held /\ (c.op \in OffsetOps => table[c.fd].path \in Names)

Uses ==
  \A w \in Threads :
    /\ thread[w].st \in {"waiting", "taking"} => UseOk(thread[w].call, mine, pseudo)
    /\ requests[w] # <<>> => UseOk(requests[w][1].req, mine, pseudo)
    /\ work[w] # Idle => UseOk(work[w].req, mine, pseudo)

Marked(fd) == OddFd(fd) \in odd

Tables ==
  /\ mine \subseteq DOMAIN pseudo /\ DOMAIN pseudo \subseteq Fds
  /\ \A fd \in DOMAIN pseudo : /\ DOMAIN pseudo[fd] = {"path", "pos"}
                               /\ pseudo[fd].path \in Names \cup {Dir} /\ pseudo[fd].pos \in Nat
  /\ \A fd \in DOMAIN fdtofile : DOMAIN fdtofile[fd] = {"path", "off"} /\ fdtofile[fd].off \in Nat
  /\ \A fd \in DOMAIN g_fdtofile : DOMAIN g_fdtofile[fd] = {"type", "off"}
  /\ \A fd \in DOMAIN pseudo : Marked(fd) \/ Known(fd)
  /\ \A fd \in mine : Marked(fd) \/ fd \in DOMAIN g_fdtofile
  /\ \A fd \in mine : fd \in DOMAIN g_fdtofile => (g_fdtofile[fd].type = "dir" <=> pseudo[fd].path = Dir)

\* There is a number for each open that is asked for.
Opening(w) ==
  \/ thread[w].st = "waiting" /\ thread[w].call.op \in OpenOps
  \/ requests[w] # <<>> /\ requests[w][1].req.op \in OpenOps
Slots == Cardinality(DOMAIN pseudo) + Cardinality({w \in Threads : Opening(w)}) <= Cardinality(Fds)

(* Data. *)
Files ==
  /\ DOMAIN file = Names
  /\ \A p \in Names :
       /\ DOMAIN file[p] = {"bytes", "stored", "cached", "dirty"}
       /\ file[p].bytes \in Seq(Bytes)
       /\ \/ OddPath(p) \in odd \/ IsOpen(p) \/ file[p].stored \/ file[p].bytes = <<>>
       /\ \/ OddPath(p) \in odd \/ file[p].stored \/ file[p].cached \/ file[p].dirty \/ file[p].bytes = <<>>

Excused(fd, table, marks) == OddFd(fd) \in marks \/ OddPath(table[fd].path) \in marks

Offsets == \A fd \in DOMAIN pseudo : Excused(fd, pseudo, odd) \/ fdtofile[fd].off = pseudo[fd].pos

\* What a read of n bytes finds in a file.
Slice(bytes, off, n) == SubSeq(bytes, off + 1, AtMost(off + n, Len(bytes)))

\* What the part i of a split call r of w has done.
PartDone(r, w, i, g, pos, bytes) ==
  /\ r.op = "read" =>
        g = Data(Slice(bytes, pos + PartStart(i, r.n), PartLen(i, r.n)))
  /\ r.op = "write" =>
        /\ g = Ret(PartLen(i, r.n))
        /\ \A k \in PartStart(i, r.n) + 1 .. PartStart(i, r.n) + PartLen(i, r.n) :
              pos + k \in DOMAIN bytes /\ bytes[pos + k] = w

IoOk(wk, w, table, data, marks) ==
  /\ wk.at \in {"idle", "io", "parts", "erase"}
  /\ wk.at \in {"io", "parts"} => wk.req.op \in IoOps
  /\ wk.at = "erase" => wk.req.op = "close"
  /\ wk.at = "io" => wk.off \in Nat /\ (Excused(wk.req.fd, table, marks) \/ wk.off = table[wk.req.fd].pos)
  /\ wk.at = "parts" =>
       /\ wk.req.n >= BlockSize
       /\ DOMAIN wk.got \subseteq 1..Parts
       /\ \A i \in DOMAIN wk.got : wk.got[i].ret \in Int /\ wk.got[i].data \in Seq(Bytes)
       /\ \/ Excused(wk.req.fd, table, marks)
          \/ \A i \in DOMAIN wk.got :
                PartDone(wk.req, w, i, wk.got[i], table[wk.req.fd].pos, data[table[wk.req.fd].path].bytes)
Handlers == \A w \in Threads : IoOk(work[w], w, pseudo, file, odd)

InIo(w) == work[w].at \in {"io", "parts"}
Conflicts ==
  \A v, w \in Threads :
    v # w /\ InIo(v) /\ InIo(w) =>
      \/ Marked(work[v].req.fd) /\ Marked(work[w].req.fd)
      \/ /\ work[v].req.fd # work[w].req.fd
         /\ pseudo[work[v].req.fd].path = pseudo[work[w].req.fd].path =>
               \/ "write" \notin {work[v].req.op, work[w].req.op}
               \/ work[v].req.n < BlockSize /\ work[w].req.n < BlockSize

FdsInv == Tokens /\ Granted /\ Uses /\ Slots
DataInv == Tables /\ Files /\ Offsets /\ Conflicts /\ Handlers

InterceptInv == Wire /\ Process /\ FdsInv /\ DataInv /\ wrong = {}
-----------------------------------------------------------------------------
(* Records and sequences of the wire.                                      *)
LEMMA IdleIs ==
    /\ Idle.at = "idle" /\ Idle.req = None /\ Idle.by = "" /\ Idle.seq = 0
    /\ DOMAIN Idle = {"req", "by", "seq", "at", "off", "got"}
<1>1. PICK i : i = Idle
    OBVIOUS
<1>2. /\ i.at = "idle" /\ i.req = None /\ i.by = "" /\ i.seq = 0
      /\ DOMAIN i = {"req", "by", "seq", "at", "off", "got"}
    BY <1>1 DEF Idle
<1> QED BY <1>1, <1>2

LEMMA NoneIs ==
    /\ None.op = "none" /\ None.path = Dir /\ None.fd = 0 /\ None.n = 0 /\ None.flag = ""
    /\ DOMAIN None = {"op", "path", "fd", "n", "flag"}
<1>1. PICK i : i = None
    OBVIOUS
<1>2. /\ i.op = "none" /\ i.path = Dir /\ i.fd = 0 /\ i.n = 0 /\ i.flag = ""
      /\ DOMAIN i = {"op", "path", "fd", "n", "flag"}
    BY <1>1 DEF None
<1> QED BY <1>1, <1>2

LEMMA AcceptedIs ==
    ASSUME NEW m
    PROVE  /\ Accepted(m).req = m.req /\ Accepted(m).by = m.by /\ Accepted(m).seq = m.seq
           /\ DOMAIN Accepted(m) = DOMAIN Idle
<1>1. PICK i : i = Idle
    OBVIOUS
<1>2. DOMAIN i = {"req", "by", "seq", "at", "off", "got"}
    BY <1>1, IdleIs
<1>3. PICK a : a = [i EXCEPT !.req = m.req, !.by = m.by, !.seq = m.seq]
    OBVIOUS
<1>4. a.req = m.req /\ a.by = m.by /\ a.seq = m.seq /\ DOMAIN a = DOMAIN i
    BY <1>2, <1>3
<1> QED BY <1>1, <1>3, <1>4 DEF Accepted

LEMMA OneMessage ==
    ASSUME NEW s, NEW m, s = <<m>>
    PROVE  Head(s) = m /\ Tail(s) = <<>> /\ s[1] = m /\ s # <<>>
OBVIOUS

LEMMA FirstMessage ==
    ASSUME NEW m
    PROVE  Append(<<>>, m) = <<m>>
OBVIOUS

LEMMA AnswersAre ==
    ASSUME NEW n, NEW s
    PROVE  /\ \A op : IsAnswer(op, Ret(n))
           /\ Ret(n).ret = n /\ Ret(n).data = <<>>
           /\ Data(s).ret = Len(s) /\ Data(s).data = s
           /\ \A op : (op = "read" => s \in Seq(Bytes)) => IsAnswer(op, Data(s))
<1>1. PICK r, d : r = Ret(n) /\ d = Data(s)
    OBVIOUS
<1>2. r = [ret |-> n, data |-> <<>>] /\ r.ret = n /\ r.data = <<>>
    BY <1>1 DEF Ret
<1>3. d = [ret |-> Len(s), data |-> s] /\ d.ret = Len(s) /\ d.data = s
    BY <1>1 DEF Data
<1>4. r.data \in Seq(Bytes)
    BY <1>2
<1>5. /\ \A op : IsAnswer(op, r)
      /\ \A op : (op = "read" => s \in Seq(Bytes)) => IsAnswer(op, d)
    BY <1>2, <1>3, <1>4 DEF IsAnswer
<1> QED BY <1>1, <1>2, <1>3, <1>5
-----------------------------------------------------------------------------
(* A handler and its call.                                                 *)
\* The call that is queued at w or in progress there.
InFlight(rq, wk, m) == (rq # <<>> /\ m = Accepted(rq[1])) \/ (wk # Idle /\ m = wk)

LEMMA Underway ==
    ASSUME Wire, NEW w \in Threads, requests[w] # <<>> \/ work[w].at # "idle"
    PROVE  /\ InFlight(requests[w], work[w], Taken(w)) /\ ForCall(thread[w], Taken(w), w)
           /\ Req(w) = Taken(w).req /\ CallOk(Req(w)) /\ responses[w] = <<>>
           /\ DOMAIN Taken(w) = DOMAIN Idle
           /\ requests[w] # <<>> => work[w] = Idle /\ Tail(requests[w]) = <<>> /\ Req(w) = requests[w][1].req
           /\ work[w].at # "idle" => requests[w] = <<>> /\ Taken(w) = work[w] /\ work[w] # Idle
<1>1. WireOk(thread[w], requests[w], responses[w], work[w], w)
    BY DEF Wire
<1>2. Req(w) = Taken(w).req
    BY DEF Req
<1>3. CASE requests[w] # <<>>
    <2>1. PICK m : m = requests[w][1]
        OBVIOUS
    <2>2. /\ requests[w] = <<m>> /\ ForCall(thread[w], m, w) /\ responses[w] = <<>> /\ work[w] = Idle
        BY <1>1, <1>3, <2>1, Zenon DEF WireOk
    <2>3. Head(requests[w]) = m /\ Tail(requests[w]) = <<>>
        BY <2>2, OneMessage
    <2>4. Taken(w) = Accepted(m)
        BY <2>2, <2>3, IdleIs DEF Taken
    <2>5. ForCall(thread[w], Accepted(m), w) /\ Accepted(m).req = m.req /\ CallOk(m.req)
        BY <2>2, AcceptedIs DEF ForCall
    <2>6. ~(work[w].at # "idle")
        BY <2>2, IdleIs
    <2> QED BY <1>2, <1>3, <2>1, <2>2, <2>3, <2>4, <2>5, <2>6, AcceptedIs DEF InFlight
<1>4. CASE work[w].at # "idle"
    <2>1. work[w] # Idle
        BY <1>4, IdleIs
    <2>2. requests[w] = <<>> /\ responses[w] = <<>> /\ ForCall(thread[w], work[w], w)
          /\ DOMAIN work[w] = DOMAIN Idle
        BY <1>1, <2>1, IdleIs DEF WireOk
    <2>3. Taken(w) = work[w]
        BY <1>4 DEF Taken
    <2>4. CallOk(work[w].req)
        BY <2>2 DEF ForCall
    <2> QED BY <1>2, <1>4, <2>1, <2>2, <2>3, <2>4 DEF InFlight
<1> QED BY <1>3, <1>4

\* The end of a handler, and what it leaves of the wire.
Updated(f, g, w, x) == DOMAIN f = DOMAIN g /\ f[w] = x /\ \A v \in DOMAIN g \ {w} : f[v] = g[v]

Answering(w, r, s, a) ==
    /\ Updated(requests', requests, w, <<>>)
    /\ Updated(work', work, w, Idle)
    /\ Updated(responses', responses, w, <<[req |-> r, by |-> w, seq |-> s, ans |-> a]>>)

LEMMA UpdatedExcept ==
    ASSUME NEW g, NEW w \in DOMAIN g, NEW x
    PROVE  Updated([g EXCEPT ![w] = x], g, w, x)
BY DEF Updated

LEMMA SentAnswers ==
    ASSUME Wire, NEW w \in Threads, requests[w] # <<>> \/ work[w].at # "idle",
           NEW a, Sent(w, a)
    PROVE  Answering(w, Req(w), Taken(w).seq, a)
<1>1. /\ ForCall(thread[w], Taken(w), w) /\ responses[w] = <<>>
      /\ requests[w] # <<>> => work[w] = Idle /\ Tail(requests[w]) = <<>>
      /\ work[w].at # "idle" => requests[w] = <<>>
    BY Underway
<1>2. PICK m : m = [req |-> Req(w), by |-> Taken(w).by, seq |-> Taken(w).seq, ans |-> a]
    OBVIOUS
<1>3. Taken(w).by = w
    BY <1>1 DEF ForCall
<1>4. w \in DOMAIN requests /\ w \in DOMAIN responses /\ w \in DOMAIN work
    BY DEF Wire
<1>5. responses' = [responses EXCEPT ![w] = <<m>>]
    BY <1>1, <1>2, <1>4, FirstMessage DEF Sent
<1>6. Updated(requests', requests, w, <<>>)
    <2>1. CASE requests[w] # <<>>
        <3>1. requests' = [requests EXCEPT ![w] = <<>>]
            BY <1>1, <1>4, <2>1, IdleIs DEF Sent
        <3> QED BY <1>4, <3>1 DEF Updated
    <2>2. CASE requests[w] = <<>>
        BY <2>2 DEF Sent, Updated
    <2> QED BY <2>1, <2>2
<1>7. Updated(work', work, w, Idle)
    BY <1>4 DEF Sent, Updated
<1>8. Updated(responses', responses, w, <<m>>)
    BY <1>4, <1>5 DEF Updated
<1> QED BY <1>2, <1>3, <1>6, <1>7, <1>8 DEF Answering

\* What it leaves is sound.
LEMMA AnsweredWire ==
    ASSUME Wire, Process, NEW w \in Threads, requests[w] # <<>> \/ work[w].at # "idle",
           NEW a, IsAnswer(Req(w).op, a), Answering(w, Req(w), Taken(w).seq, a),
           UNCHANGED thread
    PROVE  Wire' /\ Process'
<1>1. /\ InFlight(requests[w], work[w], Taken(w)) /\ ForCall(thread[w], Taken(w), w)
      /\ Req(w) = Taken(w).req
    BY Underway
<1>2. PICK m : m = [req |-> Req(w), by |-> w, seq |-> Taken(w).seq, ans |-> a]
    OBVIOUS
<1>3. DOMAIN m = {"req", "by", "seq", "ans"} /\ m.req = Req(w) /\ m.by = w
      /\ m.seq = Taken(w).seq /\ m.ans = a
    BY <1>2
<1>4. PICK rs : rs = <<m>>
    OBVIOUS
<1>5. rs # <<>> /\ rs[1] = m /\ rs = <<rs[1]>>
    BY <1>4
<1>6. ForCall(thread[w], m, w)
    BY <1>1, <1>3 DEF ForCall
<1>7. WireOk(thread[w], requests[w], responses[w], work[w], w)
    BY DEF Wire
<1>8. thread[w].st \notin {"new", "waiting", "idle"}
    BY <1>1, <1>7, Zenon DEF WireOk, InFlight
<1>9. WireOk(thread[w], <<>>, rs, Idle, w)
    BY <1>3, <1>5, <1>6, <1>7, <1>8, IdleIs DEF WireOk
<1>10. requests'[w] = <<>> /\ responses'[w] = rs /\ work'[w] = Idle
    BY <1>2, <1>4 DEF Answering, Updated
<1>11. ASSUME NEW v \in Threads, v # w
       PROVE  requests'[v] = requests[v] /\ responses'[v] = responses[v] /\ work'[v] = work[v]
    BY <1>11 DEF Answering, Updated, Wire
<1>12. DOMAIN requests' = Threads /\ DOMAIN responses' = Threads /\ DOMAIN work' = Threads
    BY DEF Answering, Updated, Wire
<1>13. Wire'
    <2>1. ASSUME NEW v \in Threads
          PROVE  WireOk(thread[v], requests'[v], responses'[v], work'[v], v)
        BY <1>9, <1>10, <1>11, Zenon DEF Wire
    <2> QED BY <1>12, <2>1 DEF Wire
<1>14. Process'
    <2>1. ASSUME NEW v \in Threads, requests'[v] # <<>> \/ responses'[v] # <<>> \/ work'[v] # Idle
          PROVE  requests[v] # <<>> \/ responses[v] # <<>> \/ work[v] # Idle
        BY <1>1, <1>11, <2>1, Zenon DEF InFlight
    <2> QED BY <2>1, Zenon DEF Process
<1> QED BY <1>13, <1>14
\* A handler that goes on.
LEMMA WorkingWire ==
    ASSUME Wire, Process, NEW w \in Threads, requests[w] # <<>> \/ work[w].at # "idle",
           NEW h, DOMAIN h = DOMAIN Idle, h.at # "idle",
           h.req = Taken(w).req, h.by = Taken(w).by, h.seq = Taken(w).seq,
           Updated(requests', requests, w, <<>>), Updated(work', work, w, h),
           UNCHANGED <<thread, responses>>
    PROVE  Wire' /\ Process'
<1>1. /\ InFlight(requests[w], work[w], Taken(w)) /\ ForCall(thread[w], Taken(w), w)
      /\ responses[w] = <<>>
    BY Underway
<1>2. ForCall(thread[w], h, w)
    BY <1>1 DEF ForCall
<1>3. h # Idle
    BY IdleIs
<1>4. WireOk(thread[w], requests[w], responses[w], work[w], w)
    BY DEF Wire
<1>5. thread[w].st \notin {"new", "waiting", "idle"}
    BY <1>1, <1>4, Zenon DEF WireOk, InFlight
<1>6. WireOk(thread[w], <<>>, <<>>, h, w)
    BY <1>2, <1>3, <1>4, <1>5, IdleIs DEF WireOk
<1>7. requests'[w] = <<>> /\ responses'[w] = <<>> /\ work'[w] = h
    BY <1>1 DEF Updated
<1>8. ASSUME NEW v \in Threads, v # w
      PROVE  requests'[v] = requests[v] /\ responses'[v] = responses[v] /\ work'[v] = work[v]
    BY <1>8 DEF Updated, Wire
<1>9. DOMAIN requests' = Threads /\ DOMAIN responses' = Threads /\ DOMAIN work' = Threads
    BY DEF Updated, Wire
<1>10. Wire'
    <2>1. ASSUME NEW v \in Threads
          PROVE  WireOk(thread[v], requests'[v], responses'[v], work'[v], v)
        BY <1>6, <1>7, <1>8, Zenon DEF Wire
    <2> QED BY <1>9, <2>1 DEF Wire
<1>11. Process'
    <2>1. ASSUME NEW v \in Threads, requests'[v] # <<>> \/ responses'[v] # <<>> \/ work'[v] # Idle
          PROVE  requests[v] # <<>> \/ responses[v] # <<>> \/ work[v] # Idle
        BY <1>1, <1>8, <2>1, Zenon DEF InFlight
    <2> QED BY <2>1, Zenon DEF Process
<1> QED BY <1>10, <1>11

\* Requests and handlers that vanish; a thread may be lost.
Alike(th, u) ==
    DOMAIN th = DOMAIN u /\ th.st = u.st /\ th.call = u.call /\ th.expect = u.expect /\ th.own = u.own

LEMMA VanishedWire ==
    ASSUME Wire, Process, UNCHANGED responses,
           DOMAIN thread' = Threads, DOMAIN requests' = Threads, DOMAIN work' = Threads,
           \A v \in Threads : /\ Alike(thread'[v], thread[v])
                              /\ requests'[v] \in {requests[v], <<>>}
                              /\ work'[v] \in {work[v], Idle}
    PROVE  Wire' /\ Process'
<1>1. ASSUME NEW v \in Threads
      PROVE  WireOk(thread'[v], requests'[v], responses[v], work'[v], v)
    <2>1. WireOk(thread[v], requests[v], responses[v], work[v], v)
        BY DEF Wire
    <2>2. WireOk(thread'[v], requests[v], responses[v], work[v], v)
        <3>1. PICK th : th = thread'[v]
            OBVIOUS
        <3>2. Alike(th, thread[v])
            BY <3>1
        <3>3. WireOk(th, requests[v], responses[v], work[v], v)
            BY <2>1, <3>2, Zenon DEF WireOk, Alike, ForCall
        <3> QED BY <3>1, <3>3
    <2>3. WireOk(thread'[v], <<>>, responses[v], work[v], v)
        BY <2>2, Zenon DEF WireOk
    <2>4. WireOk(thread'[v], <<>>, responses[v], Idle, v)
        BY <2>3, IdleIs, Zenon DEF WireOk
    <2>5. WireOk(thread'[v], requests[v], responses[v], Idle, v)
        BY <2>2, IdleIs, Zenon DEF WireOk
    <2> QED BY <2>2, <2>3, <2>4, <2>5
<1>2. Wire'
    BY <1>1 DEF Wire
<1>3. Process'
    BY Zenon DEF Process, Alike
<1> QED BY <1>2, <1>3

\* A call is sent, or gets lost on its way.
LEMMA SendWire ==
    ASSUME Wire, Process, NEW t \in Threads, thread[t].st \in {"waiting", "idle"},
           NEW c, CallOk(c), Send(t, t, c), UNCHANGED <<responses, work>>
    PROVE  /\ Wire' /\ Process'
           /\ DOMAIN thread' = Threads
           /\ \A u \in Threads \ {t} : thread'[u] = thread[u] /\ requests'[u] = requests[u]
           /\ thread'[t].st = "taking" /\ thread'[t].call = c
           /\ requests'[t] # <<>> => requests'[t][1].req = c
           /\ requests[t] = <<>> /\ responses[t] = <<>> /\ work[t] = Idle
<1>1. WireOk(thread[t], requests[t], responses[t], work[t], t)
    BY DEF Wire
<1>2. requests[t] = <<>> /\ responses[t] = <<>> /\ work[t] = Idle
    BY <1>1 DEF WireOk
<1>3. PICK old : old = thread[t]
    OBVIOUS
<1>4. DOMAIN old = {"st", "call", "expect", "own", "lost"} /\ old.own
    BY <1>1, <1>3 DEF WireOk
<1>5. PICK th : th = [old EXCEPT !.st = "taking", !.call = c, !.expect = sequence[t],
                                 !.lost = server[t] # "running"]
    OBVIOUS
<1>6. /\ DOMAIN th = {"st", "call", "expect", "own", "lost"} /\ th.st = "taking" /\ th.call = c
      /\ th.expect = sequence[t] /\ th.own
    BY <1>4, <1>5
<1>7. /\ DOMAIN thread' = Threads /\ thread'[t] = th
      /\ \A u \in Threads \ {t} : thread'[u] = thread[u]
    BY <1>3, <1>5 DEF Send, Wire
<1>8. PICK m : m = [req |-> c, by |-> t, seq |-> sequence[t]]
    OBVIOUS
<1>9. DOMAIN m = {"req", "by", "seq"} /\ m.req = c /\ m.by = t /\ m.seq = sequence[t]
    BY <1>8
<1>10. PICK rq : rq = <<m>>
    OBVIOUS
<1>11. rq # <<>> /\ rq[1] = m /\ rq = <<rq[1]>>
    BY <1>10
<1>12. /\ DOMAIN requests' = Threads /\ requests'[t] \in {<<>>, rq}
       /\ \A u \in Threads \ {t} : requests'[u] = requests[u]
    <2>1. Append(requests[t], m) = rq
        BY <1>2, <1>10, FirstMessage
    <2>2. requests' = [requests EXCEPT ![t] = rq] \/ requests' = requests
        BY <1>8, <2>1 DEF Send, Wire
    <2> QED BY <1>2, <2>2 DEF Wire
<1>13. WireOk(th, <<>>, <<>>, Idle, t)
    BY <1>6, IdleIs DEF WireOk
<1>14. WireOk(th, rq, <<>>, Idle, t)
    <2>1. ForCall(th, m, t)
        BY <1>6, <1>9 DEF ForCall
    <2> QED BY <1>6, <1>9, <1>11, <2>1, IdleIs DEF WireOk
<1>15. Wire'
    <2>1. ASSUME NEW u \in Threads
          PROVE  WireOk(thread'[u], requests'[u], responses[u], work[u], u)
        <3>1. CASE u = t
            BY <1>2, <1>7, <1>12, <1>13, <1>14, <3>1
        <3>2. CASE u # t
            BY <1>7, <1>12, <3>2 DEF Wire
        <3> QED BY <3>1, <3>2
    <2> QED BY <1>7, <1>12, <2>1 DEF Wire
<1>16. Process'
    <2> SUFFICES ASSUME NEW v \in Threads, thread'[v].st = "gone",
                        requests'[v] # <<>> \/ responses[v] # <<>> \/ work[v] # Idle
                 PROVE  FALSE
        BY Zenon DEF Process
    <2>1. v # t
        BY <1>6, <1>7
    <2>2. thread[v].st = "gone" /\ (requests[v] # <<>> \/ responses[v] # <<>> \/ work[v] # Idle)
        BY <1>7, <1>12, <2>1
    <2>3. thread[t].st = "gone"
        BY <2>2, Zenon DEF Process
    <2> QED BY <2>3
<1> QED BY <1>2, <1>6, <1>7, <1>9, <1>11, <1>12, <1>15, <1>16
-----------------------------------------------------------------------------
(* Data cut in parts and joined again.                                     *)
LEMMA LeastElement ==
    ASSUME NEW S, S \subseteq Nat, S # {}
    PROVE  \E x \in S : \A y \in S : x <= y
<1>1. PICK x \in S : \A y \in S : ~ (<<y, x>> \in OpToRel(<, Nat))
    BY NatLessThanWellFounded, WFMin
<1>2. ASSUME NEW y \in S, y < x PROVE <<y, x>> \in OpToRel(<, Nat)
    BY <1>2 DEF OpToRel
<1>3. \A y \in S : ~(y < x)
    BY <1>1, <1>2
<1> QED BY <1>3

\* Where the part i ends.
Cut(i, n) == IF i = Parts THEN n ELSE i * (n \div Parts)

LEMMA CutIs ==
    ASSUME NEW n \in Nat, NEW i \in 1..Parts
    PROVE  /\ Cut(i - 1, n) \in Nat /\ Cut(i, n) \in Nat /\ Cut(0, n) = 0 /\ Cut(Parts, n) = n
           /\ PartStart(i, n) = Cut(i - 1, n) /\ PartLen(i, n) \in Nat
           /\ PartStart(i, n) + PartLen(i, n) = Cut(i, n) /\ Cut(i, n) <= n
<1>1. PICK q, m : q = n \div Parts /\ m = n % Parts
    OBVIOUS
<1>2. Parts \in Nat /\ Parts > 0
    BY InterceptAssumption
<1>3. q \in Nat /\ m \in Nat /\ n = Parts * q + m
    BY <1>1, <1>2
<1>4. i \in Nat /\ i - 1 \in Nat /\ i - 1 # Parts /\ i >= 1 /\ i <= Parts
    BY <1>2
<1>5. PICK a : a = (i - 1) * q
    OBVIOUS
<1>6. a \in Nat /\ a + q = i * q
    BY <1>3, <1>4, <1>5
<1>7. Cut(i - 1, n) = a /\ PartStart(i, n) = a
    BY <1>1, <1>4, <1>5 DEF Cut, PartStart
<1>8. Cut(0, n) = 0 /\ Cut(Parts, n) = n
    <2>1. 0 * q = 0
        BY <1>3
    <2> QED BY <1>1, <1>2, <2>1 DEF Cut
<1>9. CASE i = Parts
    <2>1. Cut(i, n) = n /\ PartLen(i, n) = q + m
        BY <1>1, <1>9 DEF Cut, PartLen
    <2>2. n = a + (q + m)
        BY <1>3, <1>6, <1>9
    <2> QED BY <1>3, <1>6, <1>7, <1>8, <2>1, <2>2
<1>10. CASE i # Parts
    <2>1. Cut(i, n) = i * q /\ PartLen(i, n) = q
        BY <1>1, <1>10 DEF Cut, PartLen
    <2>2. PICK d \in Nat : d = Parts - i
        BY <1>2, <1>4
    <2>3. d * q \in Nat /\ Parts * q = i * q + d * q
        BY <1>2, <1>3, <1>4, <2>2
    <2>4. i * q <= n /\ i * q \in Nat
        BY <1>3, <1>6, <2>3
    <2> QED BY <1>3, <1>6, <1>7, <1>8, <2>1, <2>4
<1> QED BY <1>9, <1>10

\* The pieces of some data w between the ends e.
CutAt(S, segs, w, e, m) ==
    /\ m \in Nat \ {0} /\ segs \in Seq(Seq(S)) /\ Len(segs) = m /\ w \in Seq(S)
    /\ e \in [0 .. m -> 0 .. Len(w)] /\ e[0] = 0 /\ e[m] = Len(w)
    /\ \A k \in 1 .. m : e[k - 1] <= e[k] /\ segs[k] = SubSeq(w, e[k - 1] + 1, e[k])

\* What FlattenSeq has put together when it is at a piece.
Put(segs, f) ==
    f = [i \in 1 .. Len(segs) |-> IF i = 1 THEN segs[i] ELSE f[i - 1] \o segs[i]]

LEMMA PutIsPrefix ==
    ASSUME NEW S, NEW segs, NEW w, NEW e, NEW m, CutAt(S, segs, w, e, m)
    PROVE  Put(segs, [i \in 1 .. m |-> SubSeq(w, 1, e[i])])
<1>1. PICK g : g = [i \in 1 .. m |-> SubSeq(w, 1, e[i])]
    OBVIOUS
<1>2. ASSUME NEW i \in 1 .. m
      PROVE  g[i] = IF i = 1 THEN segs[i] ELSE g[i - 1] \o segs[i]
    <2>1. segs[i] = SubSeq(w, e[i - 1] + 1, e[i]) /\ e[i - 1] <= e[i]
        BY DEF CutAt
    <2>2. CASE i = 1
        <3>1. e[i - 1] + 1 = 1
            BY <2>2 DEF CutAt
        <3> QED BY <1>1, <2>1, <2>2, <3>1
    <2>3. CASE i # 1
        <3>1. i - 1 \in 1 .. m /\ i - 1 \in 0 .. m /\ i \in 0 .. m
            BY <2>3 DEF CutAt
        <3>2. PICK a \in 0 .. Len(w), b \in 0 .. Len(w) : a = e[i - 1] /\ b = e[i] /\ a <= b
            BY <2>1, <3>1 DEF CutAt
        <3>3. w \in Seq(S) /\ Len(w) \in Nat
            BY DEF CutAt
        <3>4. /\ 1 \in 1 .. Len(w) + 1 /\ a \in 1 - 1 .. Len(w) /\ b \in a .. Len(w)
            BY <3>2, <3>3
        <3>5. SubSeq(w, 1, a) \o SubSeq(w, a + 1, b) = SubSeq(w, 1, b)
            BY <3>3, <3>4, ConcatAdjacentSubSeq
        <3>6. g[i - 1] = SubSeq(w, 1, a) /\ g[i] = SubSeq(w, 1, b) /\ segs[i] = SubSeq(w, a + 1, b)
            BY <1>1, <2>1, <3>1, <3>2
        <3> QED BY <2>3, <3>5, <3>6
    <2> QED BY <2>2, <2>3
<1>3. Len(segs) = m
    BY DEF CutAt
<1>4. PICK h : h = [i \in 1 .. m |-> IF i = 1 THEN segs[i] ELSE g[i - 1] \o segs[i]]
    OBVIOUS
<1>5. g = h
    BY <1>1, <1>2, <1>4
<1>6. Put(segs, g)
    BY <1>3, <1>4, <1>5 DEF Put
<1> QED BY <1>1, <1>6

\* Two ways to put the pieces together are one.
LEMMA PutOnce ==
    ASSUME NEW segs, NEW f, NEW g, Put(segs, f), Put(segs, g), Len(segs) \in Nat,
           NEW i \in 1 .. Len(segs)
    PROVE  f[i] = g[i]
<1> DEFINE D == {k \in 1 .. Len(segs) : f[k] # g[k]}
<1> SUFFICES ASSUME D # {} PROVE FALSE
    OBVIOUS
<1>1. D \subseteq Nat
    OBVIOUS
<1>2. PICK x \in D : \A y \in D : x <= y
    <2> HIDE DEF D
    <2> QED BY <1>1, LeastElement
<1>3. x \in 1 .. Len(segs) /\ f[x] # g[x]
    OBVIOUS
<1>4. /\ f[x] = IF x = 1 THEN segs[x] ELSE f[x - 1] \o segs[x]
      /\ g[x] = IF x = 1 THEN segs[x] ELSE g[x - 1] \o segs[x]
    <2>1. PICK p : p = [k \in 1 .. Len(segs) |-> IF k = 1 THEN segs[k] ELSE f[k - 1] \o segs[k]]
        OBVIOUS
    <2>2. PICK q : q = [k \in 1 .. Len(segs) |-> IF k = 1 THEN segs[k] ELSE g[k - 1] \o segs[k]]
        OBVIOUS
    <2>3. f = p /\ g = q
        BY <2>1, <2>2 DEF Put
    <2>4. p[x] = IF x = 1 THEN segs[x] ELSE f[x - 1] \o segs[x]
        BY <1>3, <2>1
    <2>5. q[x] = IF x = 1 THEN segs[x] ELSE g[x - 1] \o segs[x]
        BY <1>3, <2>2
    <2> QED BY <2>3, <2>4, <2>5
<1>5. x # 1
    BY <1>3, <1>4
<1>6. x - 1 \in 1 .. Len(segs) /\ ~(x <= x - 1)
    BY <1>3, <1>5
<1>7. x - 1 \notin D
    BY <1>2, <1>6
<1>8. f[x - 1] = g[x - 1]
    BY <1>6, <1>7
<1> QED BY <1>3, <1>4, <1>5, <1>8

\* Pieces that follow each other from the start to the end make the whole.
LEMMA FlattenOfCut ==
    ASSUME NEW S, NEW segs, NEW w, NEW e, NEW m, CutAt(S, segs, w, e, m)
    PROVE  FlattenSeq(segs) = w
<1>1. Len(segs) = m /\ m \in Nat /\ m # 0 /\ m \in 1 .. Len(segs) /\ m \in 0 .. m
    BY DEF CutAt
<1>2. PICK f : f = CHOOSE h : Put(segs, h)
    OBVIOUS
<1>3. PICK g : g = [i \in 1 .. m |-> SubSeq(w, 1, e[i])]
    OBVIOUS
<1>4. Put(segs, g)
    BY <1>3, PutIsPrefix
<1>5. Put(segs, f)
    BY <1>2, <1>4
<1>6. f[m] = g[m]
    BY <1>1, <1>4, <1>5, PutOnce
<1>7. g[m] = w
    <2>1. e[m] = Len(w) /\ w \in Seq(S)
        BY DEF CutAt
    <2>2. g[m] = SubSeq(w, 1, Len(w))
        BY <1>1, <1>3, <2>1
    <2> QED BY <2>1, <2>2, SubSeqFull
<1>8. FlattenSeq(segs) = f[m]
    BY <1>1, <1>2 DEF FlattenSeq, Put
<1> QED BY <1>6, <1>7, <1>8

(***************************************************************************)
(* What opThreadnum threads copy is the buffer.                            *)
(***************************************************************************)
LEMMA CopyIs ==
    ASSUME NEW s \in Seq(Bytes)
    PROVE  SetResponseMultithreads(s) = s
<1>1. Parts \in Nat /\ Parts # 0 /\ 0 \in 0..Parts /\ Parts \in 0..Parts
    BY InterceptAssumption
<1>2. PICK n \in Nat : n = Len(s)
    OBVIOUS
<1>3. PICK segs : segs = [i \in 1..Parts |-> Part(s, i)]
    OBVIOUS
<1>4. PICK e : e = [i \in 0..Parts |-> Cut(i, n)]
    OBVIOUS
<1>5. ASSUME NEW i \in 1..Parts
      PROVE  /\ segs[i] = SubSeq(s, e[i - 1] + 1, e[i]) /\ segs[i] \in Seq(Bytes)
             /\ e[i - 1] <= e[i] /\ e[i] \in 0..n
    <2>1. PICK a \in Nat, b \in Nat, d \in Nat :
             a = Cut(i - 1, n) /\ b = Cut(i, n) /\ d = PartLen(i, n) /\ PartStart(i, n) = a /\ a + d = b /\ b <= n
        <3>1. PICK x, y, z : x = Cut(i - 1, n) /\ y = Cut(i, n) /\ z = PartLen(i, n)
            OBVIOUS
        <3>2. /\ x \in Nat /\ y \in Nat /\ z \in Nat /\ y <= n
              /\ PartStart(i, n) = x /\ PartStart(i, n) + z = y
            BY <3>1, CutIs
        <3>3. x + z = y
            BY <3>2
        <3> QED BY <3>1, <3>2, <3>3
    <2>2. i - 1 \in 0..Parts /\ i \in 0..Parts
        BY <1>1
    <2>3. e[i - 1] = a /\ e[i] = b
        BY <1>4, <2>1, <2>2
    <2>4. segs[i] = SubSeq(s, a + 1, b)
        BY <1>2, <1>3, <2>1 DEF Part
    <2>5. \A k \in a + 1 .. b : s[k] \in Bytes
        BY <1>2, <2>1
    <2>6. SubSeq(s, a + 1, b) \in Seq(Bytes)
        <3>1. a + 1 \in Int /\ b \in Int
            OBVIOUS
        <3> QED BY <2>5, <3>1, SubSeqProperties
    <2>7. a <= b /\ b \in 0..n
        BY <2>1
    <2> QED BY <2>3, <2>4, <2>6, <2>7
<1>6. e[0] = 0 /\ e[Parts] = n
    <2>1. 1 \in 1..Parts
        BY <1>1
    <2>2. Cut(0, n) = 0 /\ Cut(Parts, n) = n
        BY <2>1, CutIs
    <2> QED BY <1>1, <1>4, <2>2
<1>7. e \in [0..Parts -> 0..n]
    <2>1. \A i \in 0..Parts : e[i] \in 0..n
        <3> SUFFICES ASSUME NEW i \in 0..Parts PROVE e[i] \in 0..n
            OBVIOUS
        <3>1. CASE i = 0
            BY <1>6, <3>1
        <3>2. CASE i # 0
            <4>1. i \in 1..Parts
                BY <1>1, <3>2
            <4> QED BY <1>5, <4>1
        <3> QED BY <3>1, <3>2
    <2> QED BY <1>4, <2>1
<1>8. segs \in Seq(Seq(Bytes)) /\ Len(segs) = Parts
    <2>1. segs \in [1..Parts -> Seq(Bytes)]
        BY <1>3, <1>5
    <2> QED BY <1>1, <2>1
<1>9. CutAt(Bytes, segs, s, e, Parts)
    BY <1>1, <1>2, <1>5, <1>6, <1>7, <1>8 DEF CutAt
<1>10. FlattenSeq(segs) = s
    BY <1>9, FlattenOfCut
<1> QED BY <1>3, <1>10 DEF SetResponseMultithreads

\* What a read returns is what the daemon has answered.
LEMMA ResponseIs ==
    ASSUME NEW a, IsAnswer("read", a)
    PROVE  SetResponse(a) = a
<1>1. PICK n, d : n = a.ret /\ d = a.data
    OBVIOUS
<1>2. a = [ret |-> n, data |-> d] /\ d \in Seq(Bytes)
    BY <1>1 DEF IsAnswer
<1>3. PICK b : b = IF Len(d) >= BlockSize THEN SetResponseMultithreads(d) ELSE d
    OBVIOUS
<1>4. b = d
    BY <1>2, <1>3, CopyIs
<1>5. SetResponse(a) = [a EXCEPT !.data = b]
    BY <1>1, <1>3 DEF SetResponse
<1> QED BY <1>2, <1>4, <1>5

\* The answer that a thread takes is that of its call.
LEMMA TakeIs ==
    ASSUME Wire, NEW t \in Threads, Take(t, t)
    PROVE  /\ thread[t].st = "taking" /\ responses[t] # <<>> /\ requests[t] = <<>> /\ work[t] = Idle
           /\ responses[t][1].req = thread[t].call /\ CallOk(thread[t].call)
           /\ Updated(responses', responses, t, <<>>)
           /\ \E a : a.ret = responses[t][1].ans.ret /\ g_fdtofile' = Recorded(thread[t].call, a)
                     /\ mine' = IF thread[t].call.op \in OpenOps /\ a.ret \in Fds THEN mine \cup {a.ret} ELSE mine
           /\ DOMAIN thread' = Threads
           /\ \A u \in Threads \ {t} : thread'[u] = thread[u]
           /\ thread'[t].st = (IF thread[t].call.op = "terminal" THEN "gone" ELSE "idle")
           /\ thread'[t].call = None /\ thread'[t].own
           /\ DOMAIN thread'[t] = {"st", "call", "expect", "own", "lost"}
<1>1. thread[t].st = "taking" /\ responses[t] # <<>>
    BY DEF Take
<1>2. WireOk(thread[t], requests[t], responses[t], work[t], t)
    BY DEF Wire
<1>3. PICK r : r = responses[t][1]
    OBVIOUS
<1>4. /\ responses[t] = <<r>> /\ ForCall(thread[t], r, t) /\ requests[t] = <<>> /\ work[t] = Idle
      /\ IsAnswer(r.req.op, r.ans)
    BY <1>1, <1>2, <1>3, Zenon DEF WireOk
<1>5. Head(responses[t]) = r /\ Tail(responses[t]) = <<>>
    BY <1>4, OneMessage
<1>6. r.req = thread[t].call /\ r.seq = thread[t].expect /\ r.by = t /\ CallOk(r.req)
    BY <1>1, <1>4 DEF ForCall
<1>7. PICK a : a = r.ans
    OBVIOUS
<1>8. thread[t].call.op = "read" => SetResponse(r.ans) = r.ans
    BY <1>4, <1>6, ResponseIs
<1>9. /\ g_fdtofile' = Recorded(thread[t].call, a)
      /\ mine' = IF thread[t].call.op \in OpenOps /\ a.ret \in Fds THEN mine \cup {a.ret} ELSE mine
    BY <1>5, <1>6, <1>7, <1>8 DEF Take, OpenOps
<1>10. PICK old : old = thread[t]
    OBVIOUS
<1>11. DOMAIN old = {"st", "call", "expect", "own", "lost"}
    BY <1>2, <1>10 DEF WireOk
<1>12. PICK th : th = [old EXCEPT !.st = IF old.call.op = "terminal" THEN "gone" ELSE "idle", !.call = None,
                                  !.expect = 0, !.lost = FALSE, !.own = TRUE]
    OBVIOUS
<1>13. /\ DOMAIN th = {"st", "call", "expect", "own", "lost"}
       /\ th.st = (IF old.call.op = "terminal" THEN "gone" ELSE "idle") /\ th.call = None /\ th.own
    BY <1>11, <1>12
<1>14. thread' = [thread EXCEPT ![t] = th]
    <2>1. PICK o : o = IF r.seq # thread[t].expect THEN Unset
                       ELSE IF thread[t].call.op = "read" THEN SetResponse(r.ans) ELSE r.ans
        OBVIOUS
    <2>2. o = r.ans
        BY <1>6, <1>8, <2>1
    <2>3. (<<r.by, r.req, o>> = <<t, old.call, r.ans>>) = TRUE
        BY <1>6, <1>10, <2>2
    <2>4. thread' = [thread EXCEPT ![t].st = IF thread[t].call.op = "terminal" THEN "gone" ELSE "idle", ![t].call = None,
                              ![t].expect = 0, ![t].lost = FALSE,
                              ![t].own = (<<r.by, r.req, o>> = <<t, thread[t].call, r.ans>>)]
        BY <1>5, <2>1, Zenon DEF Take
    <2> QED BY <1>10, <1>12, <2>3, <2>4
<1>15. /\ DOMAIN thread' = Threads /\ thread'[t] = th
       /\ \A u \in Threads \ {t} : thread'[u] = thread[u]
    BY <1>14 DEF Wire
<1>16. Updated(responses', responses, t, <<>>)
    BY <1>5 DEF Take, Updated, Wire
<1> QED BY <1>1, <1>3, <1>4, <1>6, <1>7, <1>9, <1>10, <1>13, <1>15, <1>16

LEMMA TakeWire ==
    ASSUME Wire, Process, NEW t \in Threads, Take(t, t)
    PROVE  Wire' /\ Process'
<1>1. /\ thread[t].st = "taking" /\ requests[t] = <<>> /\ work[t] = Idle
      /\ Updated(responses', responses, t, <<>>)
      /\ DOMAIN thread' = Threads /\ \A u \in Threads \ {t} : thread'[u] = thread[u]
      /\ thread'[t].st \in {"gone", "idle"} /\ thread'[t].call = None /\ thread'[t].own
      /\ DOMAIN thread'[t] = {"st", "call", "expect", "own", "lost"}
    BY TakeIs
<1>2. UNCHANGED <<requests, work>>
    BY DEF Take
<1>3. PICK th : th = thread'[t]
    OBVIOUS
<1>4. WireOk(th, <<>>, <<>>, Idle, t)
    BY <1>1, <1>3, IdleIs DEF WireOk
<1>5. /\ DOMAIN responses' = Threads /\ responses'[t] = <<>>
      /\ \A u \in Threads \ {t} : responses'[u] = responses[u]
    BY <1>1 DEF Updated, Wire
<1>6. Wire'
    <2>1. ASSUME NEW u \in Threads
          PROVE  WireOk(thread'[u], requests[u], responses'[u], work[u], u)
        <3>1. CASE u = t
            BY <1>1, <1>3, <1>4, <1>5, <3>1
        <3>2. CASE u # t
            BY <1>1, <1>5, <3>2 DEF Wire
        <3> QED BY <3>1, <3>2
    <2> QED BY <1>1, <1>2, <1>5, <2>1 DEF Wire
<1>7. Process'
    <2> SUFFICES ASSUME NEW v \in Threads, thread'[v].st = "gone",
                        requests[v] # <<>> \/ responses'[v] # <<>> \/ work[v] # Idle
                 PROVE  FALSE
        BY <1>2, Zenon DEF Process
    <2>1. v # t
        BY <1>1, <1>5
    <2>2. thread[v].st = "gone" /\ (requests[v] # <<>> \/ responses[v] # <<>> \/ work[v] # Idle)
        BY <1>1, <1>5, <2>1
    <2>3. thread[t].st = "gone"
        BY <2>2, Zenon DEF Process
    <2> QED BY <1>1, <2>3
<1> QED BY <1>6, <1>7

\* What an application asks for.
LEMMA WantedIsOk ==
    ASSUME NEW c \in PathCalls \cup FileCalls \cup DirCalls, mine \subseteq Fds
    PROVE  CallOk(c)
<1>1. PICK e : e = None
    OBVIOUS
<1>2. /\ e.op = "none" /\ e.path = Dir /\ e.fd = 0 /\ e.n = 0 /\ e.flag = ""
      /\ DOMAIN e = {"op", "path", "fd", "n", "flag"}
    BY <1>1, NoneIs
<1>3. CASE c \in PathCalls
    <2>1. \/ c \in [op : {"stat", "unlink"}, path : Names, fd : {0}, n : {0}, flag : {""}]
          \/ c \in [op : {"open"}, path : Names, fd : {0}, n : {0}, flag : {"creat", "trunc"}]
          \/ c \in [op : {"opendir"}, path : {Dir}, fd : {0}, n : {0}, flag : {""}]
        BY <1>3 DEF PathCalls
    <2> QED BY <2>1 DEF CallOk, OpenOps, OffsetOps, IoOps
<1>4. CASE c \in FileCalls
    <2>1. \/ c \in [op : {"read", "write"}, path : {Dir}, fd : mine, n : 1..BlockSize, flag : {""}]
          \/ c \in [op : {"lseek"}, path : {Dir}, fd : mine, n : {0}, flag : {"set", "end"}]
          \/ c \in [op : {"fsync", "close"}, path : {Dir}, fd : mine, n : {0}, flag : {""}]
        BY <1>4 DEF FileCalls
    <2>2. CASE c \in [op : {"read", "write"}, path : {Dir}, fd : mine, n : 1..BlockSize, flag : {""}]
        <3>1. /\ DOMAIN c = {"op", "path", "fd", "n", "flag"} /\ c.op \in {"read", "write"}
              /\ c.fd \in mine /\ c.n \in 1..BlockSize
            BY <2>2
        <3>2. c.n \in Nat
            BY <3>1, InterceptAssumption
        <3> QED BY <3>1, <3>2 DEF CallOk, OpenOps, OffsetOps, IoOps
    <2>3. CASE \/ c \in [op : {"lseek"}, path : {Dir}, fd : mine, n : {0}, flag : {"set", "end"}]
               \/ c \in [op : {"fsync", "close"}, path : {Dir}, fd : mine, n : {0}, flag : {""}]
        BY <2>3 DEF CallOk, OpenOps, OffsetOps, IoOps
    <2> QED BY <2>1, <2>2, <2>3
<1>5. CASE c \in DirCalls
    <2>1. CASE c \in {[None EXCEPT !.op = "getdents", !.fd = fd, !.n = g_fdtofile[fd].off] : fd \in mine \cap DOMAIN g_fdtofile}
        <3>1. PICK fd \in mine : c = [None EXCEPT !.op = "getdents", !.fd = fd, !.n = g_fdtofile[fd].off]
            BY <2>1, Zenon
        <3>2. c = [e EXCEPT !.op = "getdents", !.fd = fd, !.n = g_fdtofile[fd].off]
            BY <1>1, <3>1
        <3>3. DOMAIN c = DOMAIN e /\ c.op = "getdents" /\ c.fd = fd
            BY <1>2, <3>2
        <3> QED BY <1>2, <3>3 DEF CallOk, OpenOps, OffsetOps, IoOps
    <2>2. CASE c \in {[None EXCEPT !.op = "close", !.fd = fd] : fd \in mine}
        <3>1. PICK fd \in mine : c = [None EXCEPT !.op = "close", !.fd = fd]
            BY <2>2, Zenon
        <3>2. c = [e EXCEPT !.op = "close", !.fd = fd]
            BY <1>1, <3>1
        <3>3. DOMAIN c = DOMAIN e /\ c.op = "close" /\ c.fd = fd
            BY <1>2, <3>2
        <3> QED BY <1>2, <3>3 DEF CallOk, OpenOps, OffsetOps, IoOps
    <2> QED BY <1>5, <2>1, <2>2, Zenon DEF DirCalls
<1> QED BY <1>3, <1>4, <1>5
-----------------------------------------------------------------------------
(* Descriptors, where no number is given out or back.                      *)
SamePaths ==
    /\ DOMAIN pseudo' = DOMAIN pseudo
    /\ \A fd \in DOMAIN pseudo : pseudo'[fd].path = pseudo[fd].path

LEMMA FdsFinite == IsFiniteSet(Fds)
<1>1. 2 \in Int /\ MaxFd \in Int
    BY InterceptAssumption
<1> QED BY <1>1, FS_Interval DEF Fds

LEMMA FewerOpenings ==
    ASSUME NEW S, NEW T, NEW n \in Nat, S \subseteq T, T \subseteq Threads,
           n + Cardinality(T) <= Cardinality(Fds)
    PROVE  n + Cardinality(S) <= Cardinality(Fds)
<1>1. IsFiniteSet(T)
    BY InterceptAssumption, FS_Subset
<1>2. IsFiniteSet(S) /\ Cardinality(S) <= Cardinality(T)
    BY <1>1, FS_Subset
<1>3. Cardinality(S) \in Nat /\ Cardinality(T) \in Nat /\ Cardinality(Fds) \in Nat
    BY <1>1, <1>2, FdsFinite, FS_CardinalityType
<1> QED BY <1>2, <1>3

LEMMA QuietFds ==
    ASSUME FdsInv, Tables, mine' = mine, SamePaths,
           \A v \in Threads :
              /\ thread'[v].st = thread[v].st /\ thread'[v].call = thread[v].call
              /\ requests'[v] \in {requests[v], <<>>}
              /\ \/ responses'[v] \in {responses[v], <<>>}
                 \/ responses'[v][1].req.op \in OpenOps => responses'[v][1].ans.ret \notin Fds
              /\ \/ work'[v] \in {work[v], Idle}
                 \/ requests[v] # <<>> /\ work'[v].req = requests[v][1].req
                 \/ work[v] # Idle /\ work'[v].req = work[v].req
    PROVE  FdsInv'
<1>1. ASSUME NEW v \in Threads, NEW fd, Holds(requests'[v], responses'[v], fd)
      PROVE  Holds(requests[v], responses[v], fd)
    BY <1>1 DEF Holds
<1>2. Tokens'
    BY <1>1 DEF FdsInv, Tokens, SamePaths
<1>3. Granted'
    <2> SUFFICES ASSUME NEW v \in Threads, responses'[v] # <<>>, responses'[v][1].req.op \in OpenOps,
                        responses'[v][1].ans.ret \in Fds
                 PROVE  pseudo'[responses'[v][1].ans.ret].path = responses'[v][1].req.path
        BY DEF Granted
    <2>1. responses'[v] = responses[v]
        OBVIOUS
    <2>2. PICK fd : fd = responses[v][1].ans.ret
        OBVIOUS
    <2>3. pseudo[fd].path = responses[v][1].req.path
        BY <2>1, <2>2 DEF FdsInv, Granted
    <2>4. fd \in DOMAIN pseudo
        BY <2>1, <2>2 DEF FdsInv, Tokens, Holds
    <2> QED BY <2>1, <2>2, <2>3, <2>4 DEF SamePaths
<1>4. Uses'
    <2>1. ASSUME NEW c, UseOk(c, mine, pseudo) PROVE UseOk(c, mine', pseudo')
        BY <2>1 DEF UseOk, Tables, SamePaths
    <2>2. ASSUME NEW v \in Threads, thread'[v].st \in {"waiting", "taking"}
          PROVE  UseOk(thread'[v].call, mine', pseudo')
        <3>1. UseOk(thread[v].call, mine, pseudo)
            BY <2>2 DEF FdsInv, Uses
        <3> QED BY <2>1, <3>1
    <2>3. ASSUME NEW v \in Threads, requests'[v] # <<>>
          PROVE  UseOk(requests'[v][1].req, mine', pseudo')
        <3>1. UseOk(requests[v][1].req, mine, pseudo) /\ requests'[v] = requests[v]
            BY <2>3 DEF FdsInv, Uses
        <3> QED BY <2>1, <3>1
    <2>4. ASSUME NEW v \in Threads, work'[v] # Idle
          PROVE  UseOk(work'[v].req, mine', pseudo')
        <3>1. UseOk(work'[v].req, mine, pseudo)
            <4>1. \/ work'[v] = work[v] /\ work[v] # Idle
                  \/ requests[v] # <<>> /\ work'[v].req = requests[v][1].req
                  \/ work[v] # Idle /\ work'[v].req = work[v].req
                BY <2>4
            <4> QED BY <4>1 DEF FdsInv, Uses
        <3> QED BY <2>1, <3>1
    <2> QED BY <2>2, <2>3, <2>4 DEF Uses
<1>5. Slots'
    <2>1. PICK S, T : S = {w \in Threads : Opening(w)'} /\ T = {w \in Threads : Opening(w)}
        OBVIOUS
    <2>2. S \subseteq T /\ T \subseteq Threads
        BY <2>1 DEF Opening
    <2>3. PICK n : n = Cardinality(DOMAIN pseudo)
        OBVIOUS
    <2>4. n \in Nat
        BY <2>3, FdsFinite, FS_Subset, FS_CardinalityType DEF Tables
    <2>5. n + Cardinality(T) <= Cardinality(Fds)
        BY <2>1, <2>3 DEF FdsInv, Slots
    <2>6. n + Cardinality(S) <= Cardinality(Fds)
        BY <2>2, <2>4, <2>5, FewerOpenings
    <2>7. Slots' <=> Cardinality(DOMAIN pseudo') + Cardinality(S) <= Cardinality(Fds)
        BY <2>1 DEF Slots
    <2> QED BY <2>3, <2>6, <2>7 DEF SamePaths
<1> QED BY <1>2, <1>3, <1>4, <1>5 DEF FdsInv
-----------------------------------------------------------------------------
(* A number is given out.                                                  *)
LEMMA UnusedFd ==
    ASSUME Tables, Slots, NEW w \in Threads, Opening(w)
    PROVE  GetUnusedMinPseudoFd \in Fds \ DOMAIN pseudo
<1>1. PICK T : T = {v \in Threads : Opening(v)}
    OBVIOUS
<1>2. IsFiniteSet(T) /\ T # {}
    BY <1>1, InterceptAssumption, FS_Subset
<1>3. Cardinality(T) \in Nat /\ Cardinality(T) # 0
    BY <1>2, FS_CardinalityType, FS_EmptySet
<1>4. Cardinality(DOMAIN pseudo) \in Nat /\ Cardinality(Fds) \in Nat
    BY FdsFinite, FS_Subset, FS_CardinalityType DEF Tables
<1>5. Cardinality(DOMAIN pseudo) + Cardinality(T) <= Cardinality(Fds)
    BY <1>1 DEF Slots
<1>6. DOMAIN pseudo # Fds
    BY <1>3, <1>4, <1>5
<1>7. PICK F : F = Fds \ DOMAIN pseudo
    OBVIOUS
<1>8. F # {} /\ F \subseteq Nat
    <2>1. Fds \subseteq Nat
        <3>1. MaxFd \in Int
            BY InterceptAssumption
        <3> QED BY <3>1 DEF Fds
    <2>2. DOMAIN pseudo \subseteq Fds
        BY DEF Tables
    <2> QED BY <1>6, <1>7, <2>1, <2>2
<1>9. PICK x \in F : \A y \in F : x <= y
    BY <1>8, LeastElement
<1>10. x \in Fds /\ x \notin DOMAIN pseudo /\ x \in Nat
    BY <1>7, <1>8
<1>11. ASSUME NEW g \in 2..(x - 1), g \notin DOMAIN pseudo
       PROVE  FALSE
    <2>1. MaxFd \in Int
        BY InterceptAssumption
    <2>2. x <= MaxFd /\ g \in Int /\ 2 <= g /\ g < x
        BY <1>10, <2>1 DEF Fds
    <2>3. g \in F
        BY <1>7, <1>10, <1>11, <2>1, <2>2 DEF Fds
    <2> QED BY <1>9, <1>10, <2>2, <2>3
<1>12. \A g \in 2..(x - 1) : g \in DOMAIN pseudo
    BY <1>11
<1> QED BY <1>10, <1>12 DEF GetUnusedMinPseudoFd

LEMMA WithIs ==
    ASSUME NEW f, NEW x, NEW v
    PROVE  /\ DOMAIN With(f, x, v) = DOMAIN f \cup {x} /\ With(f, x, v)[x] = v
           /\ \A y \in DOMAIN f : y # x => With(f, x, v)[y] = f[y]
BY DEF With

LEMMA WithoutIs ==
    ASSUME NEW f, NEW x
    PROVE  /\ DOMAIN Without(f, x) = DOMAIN f \ {x}
           /\ \A y \in DOMAIN f \ {x} : Without(f, x)[y] = f[y]
BY DEF Without

LEMMA OpenFds ==
    ASSUME FdsInv, Tables, mine' = mine, UNCHANGED thread,
           NEW w \in Threads, NEW r, NEW s, NEW fd \in Fds \ DOMAIN pseudo,
           requests[w] # <<>>, requests[w][1].req = r, r.op \in OpenOps, thread[w].st # "waiting",
           Answering(w, r, s, Ret(fd)), pseudo' = With(pseudo, fd, [path |-> r.path, pos |-> 0]),
           DOMAIN requests = Threads, DOMAIN responses = Threads, DOMAIN work = Threads
    PROVE  FdsInv'
<1>1. PICK m : m = [req |-> r, by |-> w, seq |-> s, ans |-> Ret(fd)]
    OBVIOUS
<1>2. m.req = r /\ m.ans.ret = fd
    BY <1>1, AnswersAre
<1>3. /\ requests'[w] = <<>> /\ work'[w] = Idle /\ responses'[w] = <<m>>
      /\ \A v \in Threads \ {w} : /\ requests'[v] = requests[v] /\ work'[v] = work[v]
                                  /\ responses'[v] = responses[v]
    BY <1>1 DEF Answering, Updated
<1>4. <<m>> # <<>> /\ <<m>>[1] = m
    OBVIOUS
<1>5. responses'[w] # <<>> /\ responses'[w][1] = m
    BY <1>3, <1>4
<1>6. PICK e : e = [path |-> r.path, pos |-> 0]
    OBVIOUS
<1>7. e.path = r.path
    BY <1>6
<1>8. /\ DOMAIN pseudo' = DOMAIN pseudo \cup {fd} /\ pseudo'[fd] = e
      /\ \A g \in DOMAIN pseudo : pseudo'[g] = pseudo[g]
    <2>1. pseudo' = With(pseudo, fd, e)
        BY <1>6
    <2>2. /\ DOMAIN With(pseudo, fd, e) = DOMAIN pseudo \cup {fd} /\ With(pseudo, fd, e)[fd] = e
          /\ \A g \in DOMAIN pseudo : g # fd => With(pseudo, fd, e)[g] = pseudo[g]
        BY DEF With
    <2> QED BY <2>1, <2>2
<1>9. \A g : Holds(requests'[w], responses'[w], g) <=> g = fd
    BY <1>2, <1>3, <1>5 DEF Holds
<1>10. \A v \in Threads \ {w} : \A g : Holds(requests'[v], responses'[v], g) <=> Holds(requests[v], responses[v], g)
    BY <1>3 DEF Holds
<1>11. Tokens'
    <2>1. fd \notin mine
        BY DEF Tables
    <2> QED BY <1>8, <1>9, <1>10, <2>1 DEF FdsInv, Tokens
<1>12. Granted'
    <2> SUFFICES ASSUME NEW v \in Threads, responses'[v] # <<>>, responses'[v][1].req.op \in OpenOps,
                        responses'[v][1].ans.ret \in Fds
                 PROVE  pseudo'[responses'[v][1].ans.ret].path = responses'[v][1].req.path
        BY DEF Granted
    <2>1. CASE v = w
        BY <1>2, <1>5, <1>7, <1>8, <2>1
    <2>2. CASE v # w
        <3>1. responses'[v] = responses[v]
            BY <1>3, <2>2
        <3>2. PICK g : g = responses[v][1].ans.ret
            OBVIOUS
        <3>3. pseudo[g].path = responses[v][1].req.path
            BY <3>1, <3>2 DEF FdsInv, Granted
        <3>4. g \in DOMAIN pseudo
            BY <3>1, <3>2 DEF FdsInv, Tokens, Holds
        <3> QED BY <1>8, <3>1, <3>2, <3>3, <3>4
    <2> QED BY <2>1, <2>2
<1>13. Uses'
    <2>1. ASSUME NEW c, UseOk(c, mine, pseudo) PROVE UseOk(c, mine', pseudo')
        BY <1>8, <2>1 DEF UseOk, Tables
    <2>2. ASSUME NEW v \in Threads
          PROVE  /\ thread'[v] = thread[v] /\ requests'[v] \in {requests[v], <<>>}
                 /\ work'[v] \in {work[v], Idle}
        BY <1>3
    <2>3. ASSUME NEW v \in Threads, requests'[v] # <<>>
          PROVE  UseOk(requests'[v][1].req, mine', pseudo')
        BY <2>1, <2>2, <2>3 DEF FdsInv, Uses
    <2>4. ASSUME NEW v \in Threads, work'[v] # Idle
          PROVE  UseOk(work'[v].req, mine', pseudo')
        BY <2>1, <2>2, <2>4 DEF FdsInv, Uses
    <2>5. ASSUME NEW v \in Threads, thread'[v].st \in {"waiting", "taking"}
          PROVE  UseOk(thread'[v].call, mine', pseudo')
        BY <2>1, <2>2, <2>5 DEF FdsInv, Uses
    <2> QED BY <2>3, <2>4, <2>5 DEF Uses
<1>14. Slots'
    <2>1. PICK S, T : S = {v \in Threads : Opening(v)'} /\ T = {v \in Threads : Opening(v)}
        OBVIOUS
    <2>2. w \in T
        BY <2>1 DEF Opening
    <2>3. PICK n : n = Cardinality(DOMAIN pseudo)
        OBVIOUS
    <2>4. n \in Nat /\ IsFiniteSet(DOMAIN pseudo)
        BY <2>3, FdsFinite, FS_Subset, FS_CardinalityType DEF Tables
    <2>5. n + Cardinality(T) <= Cardinality(Fds)
        BY <2>1, <2>3 DEF FdsInv, Slots
    <2>6. S \subseteq Threads
        BY <2>1
    <2>7. IsFiniteSet(T) /\ IsFiniteSet(S) /\ T \subseteq Threads
        BY <2>1, <2>6, InterceptAssumption, FS_Subset
    <2>8. CASE w \notin S
        <3>1. S \subseteq T \ {w}
            <4> SUFFICES ASSUME NEW v \in Threads, v # w, Opening(v)' PROVE Opening(v)
                BY <2>1, <2>8
            <4> QED BY <1>3 DEF Opening
        <3>2. Cardinality(T \ {w}) = Cardinality(T) - 1 /\ IsFiniteSet(T \ {w})
            BY <2>2, <2>7, FS_RemoveElement
        <3>3. Cardinality(S) <= Cardinality(T) - 1
            BY <3>1, <3>2, FS_Subset
        <3>4. Cardinality(DOMAIN pseudo') = n + 1
            BY <1>8, <2>3, <2>4, FS_AddElement
        <3>5. Cardinality(S) \in Nat /\ Cardinality(T) \in Nat /\ Cardinality(Fds) \in Nat
            BY <2>7, FdsFinite, FS_CardinalityType
        <3>6. (n + 1) + Cardinality(S) <= Cardinality(Fds)
            BY <2>4, <2>5, <3>3, <3>5
        <3>7. Slots' <=> Cardinality(DOMAIN pseudo') + Cardinality(S) <= Cardinality(Fds)
            BY <2>1 DEF Slots
        <3> QED BY <3>4, <3>6, <3>7
    <2>9. w \notin S
        <3>1. ~Opening(w)'
            <4>1. requests'[w] = <<>>
                BY <1>3
            <4>2. ~(thread[w].st = "waiting")
                OBVIOUS
            <4> QED BY <4>1, <4>2 DEF Opening
        <3> QED BY <2>1, <3>1
    <2> QED BY <2>8, <2>9
<1> QED BY <1>11, <1>12, <1>13, <1>14 DEF FdsInv
-----------------------------------------------------------------------------
(* A number is given back.                                                 *)
LEMMA CloseFds ==
    ASSUME FdsInv, Tables, mine' = mine, UNCHANGED thread,
           NEW w \in Threads, NEW fd \in Fds, requests[w] # <<>>,
           requests[w][1].req.op = "close", requests[w][1].req.fd = fd,
           pseudo' = Without(pseudo, fd),
           requests'[w] = <<>>, responses'[w] = <<>> \/ responses'[w][1].req.op = "close",
           work'[w] = Idle \/ work'[w].req = requests[w][1].req,
           \A v \in Threads \ {w} : /\ requests'[v] = requests[v] /\ work'[v] = work[v]
                                    /\ responses'[v] = responses[v]
    PROVE  FdsInv'
<1>1. Holds(requests[w], responses[w], fd)
    BY DEF Holds
<1>2. fd \in DOMAIN pseudo \ mine
    BY <1>1 DEF FdsInv, Tokens
<1>3. /\ DOMAIN pseudo' = DOMAIN pseudo \ {fd}
      /\ \A g \in DOMAIN pseudo \ {fd} : pseudo'[g] = pseudo[g]
    BY DEF Without
<1>4. \A g : ~Holds(requests'[w], responses'[w], g)
    BY DEF Holds, OpenOps
<1>5. \A v \in Threads \ {w} : \A g : Holds(requests'[v], responses'[v], g) <=> Holds(requests[v], responses[v], g)
    BY DEF Holds
<1>6. \A v \in Threads \ {w} : ~Holds(requests[v], responses[v], fd)
    BY <1>1 DEF FdsInv, Tokens
<1>7. Tokens'
    BY <1>3, <1>4, <1>5, <1>6 DEF FdsInv, Tokens
<1>8. Granted'
    <2> SUFFICES ASSUME NEW v \in Threads, responses'[v] # <<>>, responses'[v][1].req.op \in OpenOps,
                        responses'[v][1].ans.ret \in Fds
                 PROVE  pseudo'[responses'[v][1].ans.ret].path = responses'[v][1].req.path
        BY DEF Granted
    <2>1. v # w
        BY DEF OpenOps
    <2>2. responses'[v] = responses[v]
        BY <2>1
    <2>3. PICK g : g = responses[v][1].ans.ret
        OBVIOUS
    <2>4. pseudo[g].path = responses[v][1].req.path
        BY <2>2, <2>3 DEF FdsInv, Granted
    <2>5. Holds(requests[v], responses[v], g) /\ g \in Fds
        BY <2>2, <2>3 DEF Holds
    <2>6. g \in DOMAIN pseudo \ {fd}
        BY <1>6, <2>1, <2>5 DEF FdsInv, Tokens
    <2> QED BY <1>3, <2>2, <2>3, <2>4, <2>6
<1>9. Uses'
    <2>1. ASSUME NEW c, UseOk(c, mine, pseudo) PROVE UseOk(c, mine', pseudo')
        BY <1>2, <1>3, <2>1 DEF UseOk, Tables
    <2>2. ASSUME NEW v \in Threads
          PROVE  /\ thread'[v] = thread[v] /\ requests'[v] \in {requests[v], <<>>}
        OBVIOUS
    <2>3. ASSUME NEW v \in Threads, requests'[v] # <<>>
          PROVE  UseOk(requests'[v][1].req, mine', pseudo')
        BY <2>1, <2>2, <2>3 DEF FdsInv, Uses
    <2>4. ASSUME NEW v \in Threads, work'[v] # Idle
          PROVE  UseOk(work'[v].req, mine', pseudo')
        BY <2>1, <2>4 DEF FdsInv, Uses
    <2>5. ASSUME NEW v \in Threads, thread'[v].st \in {"waiting", "taking"}
          PROVE  UseOk(thread'[v].call, mine', pseudo')
        BY <2>1, <2>2, <2>5 DEF FdsInv, Uses
    <2> QED BY <2>3, <2>4, <2>5 DEF Uses
<1>10. Slots'
    <2>1. PICK S, T : S = {v \in Threads : Opening(v)'} /\ T = {v \in Threads : Opening(v)}
        OBVIOUS
    <2>2. S \subseteq T /\ T \subseteq Threads
        <3>1. ASSUME NEW v \in Threads, Opening(v)' PROVE Opening(v)
            BY <3>1 DEF Opening
        <3> QED BY <2>1, <3>1
    <2>3. PICK n, k : n = Cardinality(DOMAIN pseudo) /\ k = Cardinality(DOMAIN pseudo')
        OBVIOUS
    <2>4. n \in Nat /\ k \in Nat /\ k <= n
        <3>1. IsFiniteSet(DOMAIN pseudo)
            BY FdsFinite, FS_Subset DEF Tables
        <3>2. IsFiniteSet(DOMAIN pseudo') /\ Cardinality(DOMAIN pseudo') <= Cardinality(DOMAIN pseudo)
            BY <1>3, <3>1, FS_Subset
        <3> QED BY <2>3, <3>1, <3>2, FS_CardinalityType
    <2>5. n + Cardinality(T) <= Cardinality(Fds)
        BY <2>1, <2>3 DEF FdsInv, Slots
    <2>6. n + Cardinality(S) <= Cardinality(Fds)
        BY <2>2, <2>4, <2>5, FewerOpenings
    <2>7. Cardinality(S) \in Nat /\ Cardinality(Fds) \in Nat
        BY <2>2, FdsFinite, InterceptAssumption, FS_Subset, FS_CardinalityType
    <2>8. k + Cardinality(S) <= Cardinality(Fds)
        BY <2>4, <2>6, <2>7
    <2>9. Slots' <=> Cardinality(DOMAIN pseudo') + Cardinality(S) <= Cardinality(Fds)
        BY <2>1 DEF Slots
    <2> QED BY <2>3, <2>8, <2>9
<1> QED BY <1>7, <1>8, <1>9, <1>10 DEF FdsInv

-----------------------------------------------------------------------------
(* The application: a call under way is that of its thread.                *)
LEMMA InCallIs ==
    ASSUME Wire, Process, NEW t \in Threads, thread[t].st # "gone", NEW u \in Threads
    PROVE  /\ requests[u] # <<>> => thread[u].st = "taking" /\ requests[u][1].req = thread[u].call
           /\ work[u] # Idle => thread[u].st = "taking" /\ work[u].req = thread[u].call
<1>1. WireOk(thread[u], requests[u], responses[u], work[u], u)
    BY DEF Wire
<1>2. requests[u] # <<>> \/ work[u] # Idle => thread[u].st # "gone"
    BY Zenon DEF Process
<1>3. requests[u] # <<>> \/ work[u] # Idle => thread[u].st = "taking"
    BY <1>1, <1>2 DEF WireOk
<1>4. requests[u] # <<>> => ForCall(thread[u], requests[u][1], u)
    BY <1>1, Zenon DEF WireOk
<1>5. work[u] # Idle => ForCall(thread[u], work[u], u)
    BY <1>1, Zenon DEF WireOk
<1> QED BY <1>3, <1>4, <1>5 DEF ForCall

\* A thread t makes a call c.
Calling(t, c) ==
    /\ pseudo' = pseudo /\ responses' = responses /\ work' = work
    /\ requests[t] = <<>> /\ responses[t] = <<>> /\ work[t] = Idle
    /\ \A u \in Threads :
          /\ \/ thread'[u] = thread[u]
             \/ thread'[u].st \notin {"waiting", "taking"}
             \/ u = t /\ thread'[u].call = c
          /\ requests'[u] = requests[u] \/ (u = t /\ (requests'[u] # <<>> => requests'[u][1].req = c))
    /\ mine' = mine \/ (c.op = "close" /\ mine' = mine \ {c.fd})
    /\ c.op = "close" /\ requests'[t] # <<>> => c.fd \in mine \ mine'

LEMMA CallFds ==
    ASSUME FdsInv, Tables, Wire, Process, NEW t \in Threads, NEW c, Calling(t, c), thread[t].st # "gone",
           UseOk(c, mine, pseudo),
           c.op = "close" => \A u \in Threads : thread[u].call.fd # c.fd,
           c.op \in OpenOps =>
              \/ Opening(t)
              \/ Cardinality(DOMAIN pseudo) + Cardinality({u \in Threads : thread[u].call.op \in OpenOps}) < Cardinality(Fds)
    PROVE  FdsInv'
<1>1. ASSUME NEW u \in Threads, u # t, NEW fd
      PROVE  Holds(requests'[u], responses'[u], fd) <=> Holds(requests[u], responses[u], fd)
    BY <1>1 DEF Calling, Holds
<1>2. ASSUME NEW fd, Holds(requests'[t], responses'[t], fd)
      PROVE  fd \in mine \ mine'
    BY <1>2 DEF Calling, Holds
<1>3. mine' \subseteq mine
    BY DEF Calling
<1>4. Tokens'
    <2>1. ASSUME NEW u \in Threads, NEW fd \in Fds, Holds(requests'[u], responses'[u], fd)
          PROVE  fd \in DOMAIN pseudo' \ mine'
        <3>1. CASE u = t
            BY <1>2, <2>1, <3>1 DEF Tables, Calling
        <3>2. CASE u # t
            <4>1. Holds(requests[u], responses[u], fd)
                BY <1>1, <2>1, <3>2
            <4> QED BY <1>3, <4>1 DEF FdsInv, Tokens, Calling
        <3> QED BY <3>1, <3>2
    <2>2. ASSUME NEW u \in Threads, NEW v \in Threads, NEW fd \in Fds, u # v,
                 Holds(requests'[u], responses'[u], fd), Holds(requests'[v], responses'[v], fd)
          PROVE  FALSE
        <3>1. CASE u = t
            <4>1. fd \in mine /\ Holds(requests[v], responses[v], fd)
                BY <1>1, <1>2, <2>2, <3>1
            <4> QED BY <4>1 DEF FdsInv, Tokens
        <3>2. CASE v = t
            <4>1. fd \in mine /\ Holds(requests[u], responses[u], fd)
                BY <1>1, <1>2, <2>2, <3>2
            <4> QED BY <4>1 DEF FdsInv, Tokens
        <3>3. CASE u # t /\ v # t
            <4>1. Holds(requests[u], responses[u], fd) /\ Holds(requests[v], responses[v], fd)
                BY <1>1, <2>2, <3>3
            <4> QED BY <2>2, <4>1 DEF FdsInv, Tokens
        <3> QED BY <3>1, <3>2, <3>3
    <2> QED BY <2>1, <2>2 DEF Tokens
<1>5. Granted'
    BY DEF FdsInv, Granted, Calling
<1>6. Uses'
    <2>1. ASSUME NEW b, UseOk(b, mine, pseudo), b.fd # c.fd \/ c.op # "close"
          PROVE  UseOk(b, mine', pseudo')
        BY <2>1 DEF UseOk, Calling
    <2>2. UseOk(c, mine', pseudo')
        BY DEF UseOk, Calling
    <2>3. ASSUME NEW u \in Threads, requests'[u] # <<>>
          PROVE  UseOk(requests'[u][1].req, mine', pseudo')
        <3>1. CASE requests'[u] = requests[u]
            <4>1. requests[u][1].req = thread[u].call
                BY <2>3, <3>1, InCallIs
            <4>2. UseOk(requests[u][1].req, mine, pseudo)
                BY <2>3, <3>1 DEF FdsInv, Uses
            <4> QED BY <2>1, <3>1, <4>1, <4>2
        <3>2. CASE requests'[u] # requests[u]
            BY <2>2, <2>3, <3>2 DEF Calling
        <3> QED BY <3>1, <3>2
    <2>4. ASSUME NEW u \in Threads, work'[u] # Idle
          PROVE  UseOk(work'[u].req, mine', pseudo')
        <3>1. work'[u] = work[u]
            BY DEF Calling
        <3>2. work[u].req = thread[u].call
            BY <2>4, <3>1, InCallIs
        <3>3. UseOk(work[u].req, mine, pseudo)
            BY <2>4, <3>1 DEF FdsInv, Uses
        <3> QED BY <2>1, <3>1, <3>2, <3>3
    <2>5. ASSUME NEW u \in Threads, thread'[u].st \in {"waiting", "taking"}
          PROVE  UseOk(thread'[u].call, mine', pseudo')
        <3>1. CASE thread'[u] = thread[u]
            <4>1. UseOk(thread[u].call, mine, pseudo)
                BY <2>5, <3>1 DEF FdsInv, Uses
            <4> QED BY <2>1, <3>1, <4>1
        <3>2. CASE thread'[u] # thread[u]
            BY <2>2, <2>5, <3>2 DEF Calling
        <3> QED BY <3>1, <3>2
    <2> QED BY <2>3, <2>4, <2>5 DEF Uses
<1>7. Slots'
    <2>1. PICK S, T, Q : /\ S = {v \in Threads : Opening(v)'} /\ T = {v \in Threads : Opening(v)}
                         /\ Q = {u \in Threads : thread[u].call.op \in OpenOps}
        OBVIOUS
    <2>2. \A u \in Threads \ {t} : Opening(u)' => Opening(u)
        BY DEF Opening, Calling
    <2>3. Opening(t)' => c.op \in OpenOps \/ Opening(t)
        BY DEF Opening, Calling
    <2>4. PICK n : n = Cardinality(DOMAIN pseudo)
        OBVIOUS
    <2>5. n \in Nat
        BY <2>4, FdsFinite, FS_Subset, FS_CardinalityType DEF Tables
    <2>6. n + Cardinality(T) <= Cardinality(Fds)
        BY <2>1, <2>4 DEF FdsInv, Slots
    <2>7. Slots' <=> n + Cardinality(S) <= Cardinality(Fds)
        BY <2>1, <2>4 DEF Slots, Calling
    <2>8. CASE Opening(t)' => Opening(t)
        <3>1. S \subseteq T /\ T \subseteq Threads
            BY <2>1, <2>2, <2>8
        <3> QED BY <2>5, <2>6, <2>7, <3>1, FewerOpenings
    <2>9. CASE Opening(t)' /\ ~Opening(t)
        <3>1. n + Cardinality(Q) < Cardinality(Fds)
            BY <2>1, <2>3, <2>4, <2>9
        <3>2. T \subseteq Q
            <4> SUFFICES ASSUME NEW u \in Threads, Opening(u) PROVE thread[u].call.op \in OpenOps
                BY <2>1
            <4> QED BY InCallIs DEF Opening
        <3>3. S \subseteq Q \cup {t}
            BY <2>1, <2>2, <3>2
        <3>4. Q \subseteq Threads /\ Q \cup {t} \subseteq Threads
            BY <2>1
        <3>5. IsFiniteSet(Q) /\ IsFiniteSet(Q \cup {t})
            BY <3>4, InterceptAssumption, FS_Subset
        <3>6. Cardinality(Q \cup {t}) <= Cardinality(Q) + 1
            <4>1. Cardinality(Q) \in Nat
                BY <3>5, FS_CardinalityType
            <4>2. Cardinality(Q \cup {t}) = Cardinality(Q) \/ Cardinality(Q \cup {t}) = Cardinality(Q) + 1
                BY <3>5, FS_AddElement
            <4> QED BY <4>1, <4>2
        <3>7. IsFiniteSet(S) /\ Cardinality(S) <= Cardinality(Q \cup {t})
            BY <3>3, <3>5, FS_Subset
        <3>8. /\ Cardinality(Q) \in Nat /\ Cardinality(S) \in Nat /\ Cardinality(Fds) \in Nat
              /\ Cardinality(Q \cup {t}) \in Nat
            BY <3>5, <3>7, FdsFinite, FS_CardinalityType
        <3> QED BY <2>5, <2>7, <3>1, <3>6, <3>7, <3>8
    <2> QED BY <2>8, <2>9
<1> QED BY <1>4, <1>5, <1>6, <1>7 DEF FdsInv

\* A thread takes the answer of an open.
LEMMA TakeFds ==
    ASSUME FdsInv, Tables, Wire, NEW t \in Threads, Take(t, t)
    PROVE  FdsInv'
<1>1. /\ thread[t].st = "taking" /\ requests[t] = <<>> /\ work[t] = Idle /\ responses[t] # <<>>
      /\ responses[t][1].req = thread[t].call
      /\ Updated(responses', responses, t, <<>>)
      /\ \A u \in Threads \ {t} : thread'[u] = thread[u]
      /\ thread'[t].st \in {"gone", "idle"}
      /\ \E a : a.ret = responses[t][1].ans.ret
                /\ mine' = IF thread[t].call.op \in OpenOps /\ a.ret \in Fds THEN mine \cup {a.ret} ELSE mine
    BY TakeIs
<1>2. UNCHANGED <<requests, work, pseudo>>
    BY DEF Take, lib
<1>3. PICK fd : fd = responses[t][1].ans.ret
    OBVIOUS
<1>4. \/ mine' = mine
      \/ mine' = mine \cup {fd} /\ fd \in Fds /\ Holds(requests[t], responses[t], fd)
    BY <1>1, <1>3 DEF Holds
<1>5. responses'[t] = <<>> /\ \A u \in Threads \ {t} : responses'[u] = responses[u]
    BY <1>1 DEF Updated, Wire
<1>6. ASSUME NEW u \in Threads, NEW g \in Fds, Holds(requests'[u], responses'[u], g)
      PROVE  Holds(requests[u], responses[u], g) /\ g \notin mine'
    <2>1. u # t
        BY <1>1, <1>2, <1>5, <1>6 DEF Holds
    <2>2. Holds(requests[u], responses[u], g)
        BY <1>2, <1>5, <1>6, <2>1
    <2>3. g \notin mine
        BY <2>2 DEF FdsInv, Tokens
    <2>4. g = fd => mine' = mine
        BY <1>4, <2>1, <2>2 DEF FdsInv, Tokens
    <2> QED BY <1>4, <2>2, <2>3, <2>4
<1>7. Tokens'
    BY <1>2, <1>6 DEF FdsInv, Tokens
<1>8. Granted'
    BY <1>2, <1>5 DEF FdsInv, Granted
<1>9. Uses'
    <2>1. mine \subseteq mine'
        BY <1>4
    <2>2. ASSUME NEW b, UseOk(b, mine, pseudo)
          PROVE  UseOk(b, mine', pseudo')
        BY <1>2, <2>1, <2>2 DEF UseOk
    <2>3. \A u \in Threads : thread'[u].st \in {"waiting", "taking"} => thread'[u] = thread[u]
        BY <1>1
    <2> QED BY <1>2, <2>2, <2>3 DEF FdsInv, Uses
<1>10. Slots'
    <2>1. PICK S, T : S = {v \in Threads : Opening(v)'} /\ T = {v \in Threads : Opening(v)}
        OBVIOUS
    <2>2. S \subseteq T /\ T \subseteq Threads
        <3>1. ASSUME NEW v \in Threads, Opening(v)' PROVE Opening(v)
            BY <1>1, <1>2, <3>1 DEF Opening
        <3> QED BY <2>1, <3>1
    <2>3. PICK n : n = Cardinality(DOMAIN pseudo)
        OBVIOUS
    <2>4. n \in Nat
        BY <2>3, FdsFinite, FS_Subset, FS_CardinalityType DEF Tables
    <2>5. n + Cardinality(T) <= Cardinality(Fds)
        BY <2>1, <2>3 DEF FdsInv, Slots
    <2>6. n + Cardinality(S) <= Cardinality(Fds)
        BY <2>2, <2>4, <2>5, FewerOpenings
    <2> QED BY <1>2, <2>1, <2>3, <2>6 DEF Slots
<1> QED BY <1>7, <1>8, <1>9, <1>10 DEF FdsInv
-----------------------------------------------------------------------------
(* Data: what a step leaves alone.                                         *)
LEMMA OddsDiffer ==
    ASSUME NEW a, NEW b, NEW p
    PROVE  (OddFd(a) = OddFd(b) => a = b) /\ OddFd(a) # OddPath(p)
BY DEF OddFd, OddPath

\* A call that uses an offset, queued or in progress, has an open file.
LEMMA OffsetCall ==
    ASSUME Wire, Uses, Tables, NEW w \in Threads, requests[w] # <<>> \/ work[w].at # "idle",
           Req(w).op \in OffsetOps
    PROVE  /\ Req(w).fd \in mine /\ Req(w).fd \in DOMAIN pseudo /\ Req(w).fd \in Fds
           /\ pseudo[Req(w).fd].path \in Names
           /\ Req(w).op \in IoOps => Req(w).n \in Nat
<1>1. CallOk(Req(w)) /\ InFlight(requests[w], work[w], Taken(w)) /\ Req(w) = Taken(w).req
    BY Underway
<1>2. UseOk(Req(w), mine, pseudo)
    <2>1. CASE requests[w] # <<>> /\ Taken(w) = Accepted(requests[w][1])
        BY <1>1, <2>1, AcceptedIs DEF Uses
    <2>2. CASE work[w] # Idle /\ Taken(w) = work[w]
        BY <1>1, <2>2 DEF Uses
    <2> QED BY <1>1, <2>1, <2>2 DEF InFlight
<1>3. Req(w).fd \in Fds /\ Req(w).fd # 0 /\ Req(w).op # "close"
    <2>1. Req(w).fd \in Fds /\ Req(w).op # "close"
        BY <1>1 DEF CallOk, OffsetOps
    <2>2. 0 \notin Fds
        BY InterceptAssumption DEF Fds
    <2> QED BY <2>1, <2>2
<1>4. Req(w).fd \in mine /\ pseudo[Req(w).fd].path \in Names
    BY <1>2, <1>3 DEF UseOk
<1> QED BY <1>1, <1>3, <1>4 DEF Tables, CallOk

LEMMA IoCall ==
    ASSUME Wire, Uses, Tables, Handlers, NEW w \in Threads, InIo(w)
    PROVE  /\ work[w].req.fd \in mine /\ work[w].req.fd \in DOMAIN pseudo /\ work[w].req.fd \in Fds
           /\ pseudo[work[w].req.fd].path \in Names
           /\ work[w].req.op \in IoOps /\ work[w].req.n \in Nat
           /\ Req(w) = work[w].req /\ Taken(w) = work[w] /\ work[w].by = w /\ work[w] # Idle
<1>1. work[w].at # "idle" /\ work[w].at \in {"io", "parts"}
    BY DEF InIo
<1>2. work[w].req.op \in IoOps
    BY <1>1 DEF Handlers, IoOk
<1>3. Taken(w) = work[w] /\ work[w] # Idle /\ ForCall(thread[w], work[w], w) /\ Req(w) = work[w].req
    BY <1>1, Underway
<1>4. work[w].by = w
    BY <1>3 DEF ForCall
<1> QED BY <1>1, <1>2, <1>3, <1>4, OffsetCall DEF OffsetOps, IoOps

\* What the deviations excuse and the file of a descriptor that is held stay.
Steady ==
    /\ \A fd \in mine : /\ fd \in DOMAIN pseudo' /\ pseudo'[fd].path = pseudo[fd].path
                        /\ OddFd(fd) \in odd => OddFd(fd) \in odd'
    /\ \A p : OddPath(p) \in odd => OddPath(p) \in odd'

LEMMA ConflictsKept ==
    ASSUME Wire, Uses, Tables, Handlers, Conflicts, Steady,
           \A v \in Threads : InIo(v)' => InIo(v) /\ work'[v].req = work[v].req
    PROVE  Conflicts'
<1> SUFFICES ASSUME NEW v \in Threads, NEW w \in Threads, v # w, InIo(v)', InIo(w)'
             PROVE  \/ OddFd(work[v].req.fd) \in odd' /\ OddFd(work[w].req.fd) \in odd'
                    \/ /\ work[v].req.fd # work[w].req.fd
                       /\ pseudo'[work[v].req.fd].path = pseudo'[work[w].req.fd].path =>
                             \/ "write" \notin {work[v].req.op, work[w].req.op}
                             \/ work[v].req.n < BlockSize /\ work[w].req.n < BlockSize
    BY DEF Conflicts, Marked
<1>1. InIo(v) /\ InIo(w)
    OBVIOUS
<1>2. work[v].req.fd \in mine /\ work[w].req.fd \in mine
    BY <1>1, IoCall
<1>3. /\ pseudo'[work[v].req.fd].path = pseudo[work[v].req.fd].path
      /\ pseudo'[work[w].req.fd].path = pseudo[work[w].req.fd].path
      /\ OddFd(work[v].req.fd) \in odd => OddFd(work[v].req.fd) \in odd'
      /\ OddFd(work[w].req.fd) \in odd => OddFd(work[w].req.fd) \in odd'
    BY <1>2 DEF Steady
<1> QED BY <1>1, <1>3 DEF Conflicts, Marked

LEMMA IdleOk == \A w, table, data, marks : IoOk(Idle, w, table, data, marks)
BY IdleIs DEF IoOk

LEMMA IoOkKept ==
    ASSUME NEW wk, NEW w, NEW ps, NEW fs, NEW od, IoOk(wk, w, ps, fs, od),
           NEW ps2, NEW fs2, NEW od2,
           wk.at \in {"io", "parts"} =>
              /\ Excused(wk.req.fd, ps, od) => Excused(wk.req.fd, ps2, od2)
              /\ \/ Excused(wk.req.fd, ps2, od2)
                 \/ /\ ps2[wk.req.fd].pos = ps[wk.req.fd].pos
                    /\ wk.at = "parts" => fs2[ps2[wk.req.fd].path].bytes = fs[ps[wk.req.fd].path].bytes
    PROVE  IoOk(wk, w, ps2, fs2, od2)
BY DEF IoOk

LEMMA HandlersKept ==
    ASSUME Wire, Uses, Tables, Handlers, Steady,
           \A v \in Threads :
              \/ work'[v] = Idle
              \/ IoOk(work'[v], v, pseudo', file', odd')
              \/ /\ work'[v] = work[v]
                 /\ InIo(v) =>
                       \/ Excused(work[v].req.fd, pseudo', odd')
                       \/ /\ pseudo'[work[v].req.fd].pos = pseudo[work[v].req.fd].pos
                          /\ work[v].at = "parts" =>
                                file'[pseudo[work[v].req.fd].path].bytes = file[pseudo[work[v].req.fd].path].bytes
    PROVE  Handlers'
<1> SUFFICES ASSUME NEW v \in Threads
             PROVE  IoOk(work'[v], v, pseudo', file', odd')
    BY DEF Handlers
<1>1. CASE work'[v] = Idle
    BY <1>1, IdleOk
<1>2. CASE work'[v] = work[v] /\ ~InIo(v)
    BY <1>2, IoOkKept DEF Handlers, InIo
<1>3. CASE /\ work'[v] = work[v] /\ InIo(v)
           /\ \/ Excused(work[v].req.fd, pseudo', odd')
              \/ /\ pseudo'[work[v].req.fd].pos = pseudo[work[v].req.fd].pos
                 /\ work[v].at = "parts" =>
                       file'[pseudo[work[v].req.fd].path].bytes = file[pseudo[work[v].req.fd].path].bytes
    <2>1. PICK fd : fd = work[v].req.fd
        OBVIOUS
    <2>2. fd \in mine
        BY <1>3, <2>1, IoCall
    <2>3. pseudo'[fd].path = pseudo[fd].path
        BY <2>2 DEF Steady
    <2>4. Excused(fd, pseudo, odd) => Excused(fd, pseudo', odd')
        BY <2>2, <2>3 DEF Steady, Excused
    <2>5. IoOk(work[v], v, pseudo, file, odd)
        BY DEF Handlers
    <2>6. \/ Excused(fd, pseudo', odd')
          \/ /\ pseudo'[fd].pos = pseudo[fd].pos
             /\ work[v].at = "parts" => file'[pseudo'[fd].path].bytes = file[pseudo[fd].path].bytes
        BY <1>3, <2>1, <2>3
    <2>7. PICK ps2, fs2, od2 : ps2 = pseudo' /\ fs2 = file' /\ od2 = odd'
        OBVIOUS
    <2>8. PICK wk : wk = work[v]
        OBVIOUS
    <2>9. IoOk(wk, v, ps2, fs2, od2)
        <3>1. wk.req.fd = fd /\ IoOk(wk, v, pseudo, file, odd)
            BY <2>1, <2>5, <2>8
        <3>2. Excused(fd, pseudo, odd) => Excused(fd, ps2, od2)
            BY <2>4, <2>7
        <3>3. \/ Excused(fd, ps2, od2)
              \/ /\ ps2[fd].pos = pseudo[fd].pos
                 /\ wk.at = "parts" => fs2[ps2[fd].path].bytes = file[pseudo[fd].path].bytes
            BY <2>6, <2>7, <2>8
        <3>4. PICK ps, fs, od : ps = pseudo /\ fs = file /\ od = odd
            OBVIOUS
        <3> QED BY <3>1, <3>2, <3>3, <3>4, IoOkKept
    <2> QED BY <1>3, <2>7, <2>8, <2>9
<1> QED BY <1>1, <1>2, <1>3
LEMMA QuietRest ==
    ASSUME Wire, Uses, DataInv, UNCHANGED <<fdtofile, pseudo, file>>, odd \subseteq odd',
           \A v \in Threads : work'[v] \in {work[v], Idle}
    PROVE  Files' /\ Offsets' /\ Conflicts' /\ Handlers'
<1>1. Files'
    <2>1. \A p : IsOpen(p)' <=> IsOpen(p)
        BY DEF IsOpen
    <2> QED BY <2>1 DEF DataInv, Files
<1>2. Offsets'
    BY DEF DataInv, Offsets, Excused
<1>3. Steady
    BY DEF Steady, DataInv, Tables
<1>4. Conflicts'
    <2>1. \A v \in Threads : InIo(v)' => InIo(v) /\ work'[v].req = work[v].req
        BY IdleIs DEF InIo
    <2> QED BY <1>3, <2>1, ConflictsKept DEF DataInv
<1>5. Handlers'
    BY <1>3, HandlersKept DEF DataInv
<1> QED BY <1>1, <1>2, <1>4, <1>5

LEMMA QuietData ==
    ASSUME Wire, Uses, DataInv, UNCHANGED <<fdtofile, pseudo, file, g_fdtofile>>,
           mine' \subseteq mine, odd \subseteq odd',
           \A v \in Threads : work'[v] \in {work[v], Idle}
    PROVE  DataInv'
<1>1. Tables'
    <2>1. \A fd : Known(fd)' <=> Known(fd)
        BY DEF Known
    <2> QED BY <2>1 DEF DataInv, Tables, Marked
<1> QED BY <1>1, QuietRest DEF DataInv

-----------------------------------------------------------------------------
(* Data: the offset of a descriptor moves.                                 *)
Moved(fd, off, pos) ==
    /\ DOMAIN fdtofile' = DOMAIN fdtofile /\ DOMAIN pseudo' = DOMAIN pseudo
    /\ \A g \in DOMAIN fdtofile \ {fd} : fdtofile'[g] = fdtofile[g]
    /\ \A g \in DOMAIN pseudo \ {fd} : pseudo'[g] = pseudo[g]
    /\ DOMAIN fdtofile'[fd] = {"path", "off"} /\ fdtofile'[fd].path = fdtofile[fd].path
    /\ DOMAIN pseudo'[fd] = {"path", "pos"} /\ pseudo'[fd].path = pseudo[fd].path
    /\ fdtofile'[fd].off = off /\ pseudo'[fd].pos = pos

LEMMA MovedIs ==
    ASSUME Tables, NEW fd \in DOMAIN pseudo, Known(fd), NEW off, NEW pos,
           fdtofile' = [fdtofile EXCEPT ![fd].off = off],
           pseudo' = [pseudo EXCEPT ![fd].pos = pos]
    PROVE  Moved(fd, off, pos)
<1>1. PICK a, b : a = fdtofile[fd] /\ b = pseudo[fd]
    OBVIOUS
<1>2. DOMAIN a = {"path", "off"} /\ DOMAIN b = {"path", "pos"} /\ fd \in DOMAIN fdtofile
    BY <1>1 DEF Tables, Known
<1>3. PICK c, d : c = [a EXCEPT !.off = off] /\ d = [b EXCEPT !.pos = pos]
    OBVIOUS
<1>4. /\ DOMAIN c = {"path", "off"} /\ c.path = a.path /\ c.off = off
      /\ DOMAIN d = {"path", "pos"} /\ d.path = b.path /\ d.pos = pos
    BY <1>2, <1>3
<1>5. fdtofile' = [fdtofile EXCEPT ![fd] = c] /\ pseudo' = [pseudo EXCEPT ![fd] = d]
    BY <1>1, <1>3
<1> QED BY <1>1, <1>2, <1>4, <1>5 DEF Moved

LEMMA MovedTables ==
    ASSUME Wire, Uses, DataInv, NEW fd \in DOMAIN pseudo, Known(fd), NEW off \in Nat, NEW pos \in Nat,
           Moved(fd, off, pos), UNCHANGED <<g_fdtofile, mine>>, odd \subseteq odd',
           Excused(fd, pseudo, odd') \/ off = pos
    PROVE  Tables' /\ Offsets' /\ Steady /\ SamePaths
<1>1. fd \in DOMAIN fdtofile
    BY DEF Known
<1>2. SamePaths
    BY DEF SamePaths, Moved
<1>3. \A g : Known(g)' <=> Known(g)
    BY <1>1 DEF Known, Moved
<1>4. Tables'
    <2>1. mine' \subseteq DOMAIN pseudo' /\ DOMAIN pseudo' \subseteq Fds
        BY DEF DataInv, Tables, Moved
    <2>2. ASSUME NEW g \in DOMAIN pseudo'
          PROVE  /\ DOMAIN pseudo'[g] = {"path", "pos"}
                 /\ pseudo'[g].path \in Names \cup {Dir} /\ pseudo'[g].pos \in Nat
                 /\ OddFd(g) \in odd' \/ Known(g)'
        BY <1>3 DEF DataInv, Tables, Moved, Marked
    <2>3. ASSUME NEW g \in DOMAIN fdtofile'
          PROVE  DOMAIN fdtofile'[g] = {"path", "off"} /\ fdtofile'[g].off \in Nat
        BY DEF DataInv, Tables, Moved
    <2>4. /\ \A g \in DOMAIN g_fdtofile' : DOMAIN g_fdtofile'[g] = {"type", "off"}
          /\ \A g \in mine' : OddFd(g) \in odd' \/ g \in DOMAIN g_fdtofile'
        BY DEF DataInv, Tables, Marked
    <2>5. \A g \in mine' : g \in DOMAIN g_fdtofile' => (g_fdtofile'[g].type = "dir" <=> pseudo'[g].path = Dir)
        BY <1>2 DEF DataInv, Tables, SamePaths
    <2> QED BY <2>1, <2>2, <2>3, <2>4, <2>5 DEF Tables, Marked
<1>5. Offsets'
    <2> SUFFICES ASSUME NEW g \in DOMAIN pseudo'
                 PROVE  Excused(g, pseudo', odd') \/ fdtofile'[g].off = pseudo'[g].pos
        BY DEF Offsets
    <2>1. g \in DOMAIN pseudo /\ pseudo'[g].path = pseudo[g].path
        BY <1>2 DEF SamePaths
    <2>2. Excused(g, pseudo, odd') => Excused(g, pseudo', odd')
        BY <2>1 DEF Excused
    <2>3. CASE g = fd
        BY <2>2, <2>3 DEF Moved
    <2>4. CASE g # fd
        <3>1. Excused(g, pseudo, odd) \/ fdtofile[g].off = pseudo[g].pos
            BY <2>1 DEF DataInv, Offsets
        <3>2. Excused(g, pseudo, odd) => Excused(g, pseudo, odd')
            BY DEF Excused
        <3>3. Excused(g, pseudo, odd') \/ Known(g)
            BY <2>1 DEF DataInv, Tables, Marked, Excused
        <3>4. CASE Known(g)
            BY <2>2, <2>4, <3>1, <3>2, <3>4 DEF Moved, Known
        <3> QED BY <2>2, <3>3, <3>4
    <2> QED BY <2>3, <2>4
<1>6. Steady
    BY <1>2 DEF Steady, SamePaths, DataInv, Tables
<1> QED BY <1>2, <1>4, <1>5, <1>6

LEMMA IsOpenKept ==
    ASSUME SamePaths
    PROVE  \A p : IsOpen(p)' <=> IsOpen(p)
BY DEF SamePaths, IsOpen

-----------------------------------------------------------------------------
(* Data: what a file holds.                                                *)
LEMMA SliceIs ==
    ASSUME NEW b \in Seq(Bytes), NEW off \in Nat, NEW n \in Nat
    PROVE  /\ Slice(b, off, n) \in Seq(Bytes) /\ Len(Slice(b, off, n)) \in Nat
           /\ \A i \in 1..Len(Slice(b, off, n)) : Slice(b, off, n)[i] = b[off + i]
           /\ off + n <= Len(b) => Len(Slice(b, off, n)) = n
           /\ off + n > Len(b) /\ off <= Len(b) => Len(Slice(b, off, n)) = Len(b) - off
           /\ off > Len(b) => Len(Slice(b, off, n)) = 0
<1>0. PICK s : s = Slice(b, off, n)
    OBVIOUS
<1>1. PICK l \in Nat : l = Len(b)
    OBVIOUS
<1>2. PICK m : m = AtMost(off + n, l)
    OBVIOUS
<1>3. m \in Nat /\ m <= l /\ m <= off + n /\ (m = l \/ m = off + n)
    <2>1. CASE off + n < l
        <3>1. m = off + n
            BY <1>2, <2>1 DEF AtMost
        <3> QED BY <2>1, <3>1
    <2>2. CASE ~(off + n < l)
        <3>1. m = l
            BY <1>2, <2>2 DEF AtMost
        <3> QED BY <2>2, <3>1
    <2> QED BY <2>1, <2>2
<1>4. PICK k \in Int : k = off + 1
    OBVIOUS
<1>5. s = SubSeq(b, k, m) /\ m \in Int
    BY <1>0, <1>1, <1>2, <1>3, <1>4 DEF Slice
<1>6. \A i \in k..m : b[i] \in Bytes
    <2>1. \A i \in 1..l : b[i] \in Bytes
        BY <1>1
    <2> QED BY <1>3, <1>4, <2>1
<1>7. /\ s \in Seq(Bytes)
      /\ Len(s) = IF k <= m THEN m - k + 1 ELSE 0
      /\ \A i \in 1 .. m - k + 1 : s[i] = b[k + i - 1]
    <2>1. /\ SubSeq(b, k, m) \in Seq(Bytes)
          /\ Len(SubSeq(b, k, m)) = IF k <= m THEN m - k + 1 ELSE 0
          /\ \A i \in 1 .. m - k + 1 : SubSeq(b, k, m)[i] = b[k + i - 1]
        BY <1>5, <1>6, SubSeqProperties
    <2> QED BY <1>5, <2>1
<1>8. PICK x \in Nat : x = Len(s)
    BY <1>7
<1>9. x = IF off + 1 <= m THEN m - off ELSE 0
    BY <1>3, <1>4, <1>7, <1>8
<1>10. ASSUME NEW i \in 1..x PROVE s[i] = b[off + i]
    <2>1. i \in 1 .. m - k + 1 /\ k + i - 1 = off + i
        BY <1>3, <1>4, <1>9
    <2> QED BY <1>7, <2>1
<1>11. /\ off + n <= l => x = n
       /\ off + n > l /\ off <= l => x = l - off
       /\ off > l => x = 0
    BY <1>3, <1>9
<1> QED BY <1>0, <1>1, <1>7, <1>8, <1>10, <1>11

\* What is written: nothing else changes, the file grows as far as it has to.
Wrote(old, new, p, off, n, by) ==
    /\ DOMAIN new = Names /\ \A q \in Names \ {p} : new[q] = old[q]
    /\ DOMAIN new[p] = DOMAIN old[p] /\ new[p].dirty
    /\ new[p].bytes \in Seq(Bytes) /\ Len(new[p].bytes) \in Nat
    /\ Len(old[p].bytes) <= Len(new[p].bytes) /\ off + n <= Len(new[p].bytes)
    /\ \A i \in 1..Len(new[p].bytes) : i > off /\ i <= off + n => new[p].bytes[i] = by
    /\ \A i \in 1..Len(old[p].bytes) : ~(i > off /\ i <= off + n) => new[p].bytes[i] = old[p].bytes[i]

LEMMA WrittenIs ==
    ASSUME Files, NEW p \in Names, NEW off \in Nat, NEW n \in Nat, NEW by \in Threads,
           NEW new, new = WrittenAt(p, off, n, by)
    PROVE  Wrote(file, new, p, off, n, by)
<1>1. PICK b : b = file[p].bytes
    OBVIOUS
<1>2. b \in Seq(Bytes)
    BY <1>1 DEF Files
<1>3. PICK l \in Nat : l = Len(b)
    BY <1>2
<1>4. PICK len : len = IF off + n > l THEN off + n ELSE l
    OBVIOUS
<1>5. len \in Nat /\ l <= len /\ off + n <= len /\ (len = l \/ len = off + n)
    <2>1. CASE off + n > l
        <3>1. len = off + n
            BY <1>4, <2>1
        <3> QED BY <2>1, <3>1
    <2>2. CASE ~(off + n > l)
        <3>1. len = l
            BY <1>4, <2>2
        <3> QED BY <2>2, <3>1
    <2> QED BY <2>1, <2>2
<1>6. PICK c : c = [i \in 1..len |-> IF i > off /\ i <= off + n THEN by
                                      ELSE IF i <= l THEN b[i] ELSE "hole"]
    OBVIOUS
<1>7. \A i \in 1..l : b[i] \in Bytes
    BY <1>2, <1>3
<1>8. c \in [1..len -> Bytes]
    BY <1>6, <1>7 DEF Bytes
<1>9. c \in Seq(Bytes) /\ Len(c) = len
    BY <1>5, <1>8
<1>10. /\ \A i \in 1..len : i > off /\ i <= off + n => c[i] = by
       /\ \A i \in 1..l : ~(i > off /\ i <= off + n) => c[i] = b[i]
    BY <1>5, <1>6
<1>11. PICK f : f = file[p]
    OBVIOUS
<1>12. DOMAIN f = {"bytes", "stored", "cached", "dirty"}
    BY <1>11 DEF Files
<1>13. PICK g : g = [f EXCEPT !.dirty = TRUE, !.bytes = c]
    OBVIOUS
<1>14. DOMAIN g = DOMAIN f /\ g.stored = f.stored /\ g.cached = f.cached /\ g.dirty /\ g.bytes = c
    BY <1>12, <1>13
<1>15. new = [file EXCEPT ![p].dirty = TRUE, ![p].bytes = c]
    BY <1>1, <1>3, <1>4, <1>6 DEF WrittenAt
<1>16. new = [file EXCEPT ![p] = g]
    BY <1>11, <1>13, <1>15
<1>17. DOMAIN new = Names /\ new[p] = g /\ \A q \in Names \ {p} : new[q] = file[q]
    BY <1>16 DEF Files
<1> QED BY <1>1, <1>3, <1>5, <1>9, <1>10, <1>11, <1>14, <1>17 DEF Wrote

-----------------------------------------------------------------------------
(* The parts of a split call.                                              *)
\* The parts are all of it.
LEMMA PartOf ==
    ASSUME NEW n \in Nat, NEW k \in 1..n
    PROVE  \E i \in 1..Parts : k \in PartStart(i, n) + 1 .. PartStart(i, n) + PartLen(i, n)
<1>1. PICK S : S = {i \in 1..Parts : k <= Cut(i, n)}
    OBVIOUS
<1>2. Parts \in Nat /\ Parts > 0
    BY InterceptAssumption
<1>3. Parts \in S /\ S \subseteq Nat
    BY <1>1, <1>2, CutIs
<1>4. PICK i \in S : \A j \in S : i <= j
    BY <1>3, LeastElement
<1>5. i \in 1..Parts /\ k <= Cut(i, n) /\ i \in Nat
    BY <1>1, <1>3
<1>6. Cut(i - 1, n) \in Nat /\ Cut(0, n) = 0
    BY <1>5, CutIs
<1>7. k > Cut(i - 1, n)
    <2>1. CASE i = 1
        BY <1>6, <2>1
    <2>2. CASE i # 1
        <3>1. i - 1 \in 1..Parts /\ ~(i <= i - 1)
            BY <1>2, <1>5, <2>2
        <3>2. ~(k <= Cut(i - 1, n))
            BY <1>1, <1>4, <3>1
        <3> QED BY <1>6, <3>2
    <2> QED BY <2>1, <2>2
<1>8. /\ PartStart(i, n) = Cut(i - 1, n) /\ PartStart(i, n) + PartLen(i, n) = Cut(i, n)
      /\ Cut(i, n) \in Nat
    BY <1>5, CutIs
<1>9. k \in Cut(i - 1, n) + 1 .. Cut(i, n)
    BY <1>5, <1>6, <1>7, <1>8
<1> QED BY <1>5, <1>8, <1>9

-----------------------------------------------------------------------------
(* Their counts are added.                                                 *)
Sums(g, m, f) == f = [i \in 0..m |-> IF i = 0 THEN 0 ELSE f[i - 1] + g[i].ret]

LEMMA TotalIs ==
    ASSUME NEW got, NEW e \in [0..Parts -> Int], e[0] = 0,
           \A i \in 1..Parts : e[i] = e[i - 1] + got[i].ret
    PROVE  Total(got) = e[Parts]
<1>1. Parts \in Nat
    BY InterceptAssumption
<1>2. Sums(got, Parts, e)
    <2>1. PICK h : h = [i \in 0..Parts |-> IF i = 0 THEN 0 ELSE e[i - 1] + got[i].ret]
        OBVIOUS
    <2>2. \A i \in 0..Parts : e[i] = h[i]
        BY <1>1, <2>1
    <2>3. e = [i \in 0..Parts |-> e[i]] /\ h = [i \in 0..Parts |-> h[i]]
        BY <2>1
    <2>4. e = h
        BY <2>2, <2>3
    <2> QED BY <2>1, <2>4 DEF Sums
<1>3. PICK f : f = CHOOSE s : Sums(got, Parts, s)
    OBVIOUS
<1>4. Sums(got, Parts, f)
    BY <1>2, <1>3
<1>5. Total(got) = f[Parts]
    BY <1>3 DEF Total, Sums
<1>6. PICK D : D = {k \in 0..Parts : f[k] # e[k]}
    OBVIOUS
<1>7. CASE D = {}
    BY <1>1, <1>5, <1>6, <1>7
<1>8. CASE D # {}
    <2>1. D \subseteq Nat
        BY <1>6
    <2>2. PICK x \in D : \A y \in D : x <= y
        BY <1>8, <2>1, LeastElement
    <2>3. x \in 0..Parts /\ f[x] # e[x]
        BY <1>6
    <2>4. f[x] = IF x = 0 THEN 0 ELSE f[x - 1] + got[x].ret
        <3>1. PICK h : h = [i \in 0..Parts |-> IF i = 0 THEN 0 ELSE f[i - 1] + got[i].ret]
            OBVIOUS
        <3>2. f = h
            BY <1>4, <3>1 DEF Sums
        <3>3. h[x] = IF x = 0 THEN 0 ELSE f[x - 1] + got[x].ret
            BY <2>3, <3>1
        <3> QED BY <3>2, <3>3
    <2>5. x # 0
        BY <2>3, <2>4
    <2>6. x - 1 \in 0..Parts /\ ~(x <= x - 1) /\ x \in 1..Parts
        BY <1>1, <2>3, <2>5
    <2>7. f[x - 1] = e[x - 1]
        BY <1>6, <2>2, <2>6
    <2>8. e[x] = e[x - 1] + got[x].ret
        BY <2>6
    <2> QED BY <2>3, <2>4, <2>5, <2>7, <2>8
<1> QED BY <1>7, <1>8

\* There is a sum of any counts.
LEMMA SumExists ==
    ASSUME NEW got, NEW m \in Nat, \A i \in 1..m : got[i].ret \in Int
    PROVE  \E e \in [0..m -> Int] : e[0] = 0 /\ \A i \in 1..m : e[i] = e[i - 1] + got[i].ret
<1> DEFINE Good(k) == \E e \in [0..k -> Int] : e[0] = 0 /\ \A i \in 1..k : e[i] = e[i - 1] + got[i].ret
<1>1. Good(0)
    <2>1. PICK e : e = [i \in 0..0 |-> 0]
        OBVIOUS
    <2>2. e \in [0..0 -> Int] /\ e[0] = 0
        BY <2>1
    <2> QED BY <2>2
<1>2. ASSUME NEW k \in 1..m, Good(k - 1) PROVE Good(k)
    <2>1. PICK e \in [0..k - 1 -> Int] : e[0] = 0 /\ \A i \in 1..k - 1 : e[i] = e[i - 1] + got[i].ret
        BY <1>2
    <2>2. PICK s : s = e[k - 1] + got[k].ret
        OBVIOUS
    <2>3. k \in Nat /\ k >= 1 /\ k - 1 \in 0..k - 1
        OBVIOUS
    <2>4. s \in Int
        BY <2>1, <2>2, <2>3
    <2>5. PICK h : h = [i \in 0..k |-> IF i = k THEN s ELSE e[i]]
        OBVIOUS
    <2>6. \A i \in 0..k : i # k => i \in 0..k - 1
        BY <2>3
    <2>7. h \in [0..k -> Int]
        BY <2>1, <2>4, <2>5, <2>6
    <2>8. h[0] = 0
        BY <2>1, <2>3, <2>5
    <2>9. ASSUME NEW i \in 1..k PROVE h[i] = h[i - 1] + got[i].ret
        <3>1. i \in 0..k /\ i - 1 \in 0..k /\ i - 1 # k
            BY <2>3
        <3>2. h[i - 1] = e[i - 1]
            BY <2>5, <3>1
        <3>3. CASE i = k
            BY <2>2, <2>5, <3>1, <3>2, <3>3
        <3>4. CASE i # k
            <4>1. i \in 1..k - 1
                BY <2>3, <3>4
            <4>2. h[i] = e[i]
                BY <2>5, <3>1, <3>4
            <4> QED BY <2>1, <3>2, <4>1, <4>2
        <3> QED BY <3>3, <3>4
    <2> QED BY <2>7, <2>8, <2>9
<1> HIDE DEF Good
<1>3. PICK D : D = {k \in 0..m : ~Good(k)}
    OBVIOUS
<1>4. D = {}
    <2> SUFFICES ASSUME D # {} PROVE FALSE
        OBVIOUS
    <2>1. D \subseteq Nat
        BY <1>3
    <2>2. PICK x \in D : \A y \in D : x <= y
        BY <2>1, LeastElement
    <2>3. x \in 0..m /\ ~Good(x)
        BY <1>3
    <2>4. x # 0
        BY <1>1, <2>3
    <2>5. x \in 1..m /\ x - 1 \in 0..m /\ ~(x <= x - 1)
        BY <2>3, <2>4
    <2>6. Good(x - 1)
        BY <1>3, <2>2, <2>5
    <2> QED BY <1>2, <2>3, <2>5, <2>6
<1>5. m \in 0..m
    OBVIOUS
<1>6. Good(m)
    BY <1>3, <1>4, <1>5
<1> QED BY <1>6 DEF Good

LEMMA TotalInt ==
    ASSUME NEW got, \A i \in 1..Parts : got[i].ret \in Int
    PROVE  Total(got) \in Int
<1>1. Parts \in Nat
    BY InterceptAssumption
<1>2. PICK e \in [0..Parts -> Int] : e[0] = 0 /\ \A i \in 1..Parts : e[i] = e[i - 1] + got[i].ret
    BY <1>1, SumExists
<1>3. Total(got) = e[Parts]
    BY <1>2, TotalIs
<1>4. Parts \in 0..Parts
    BY <1>1
<1> QED BY <1>2, <1>3, <1>4
-----------------------------------------------------------------------------
(* Their data is joined.                                                   *)
\* The parts of a read have their bytes; those of a write are there.
PartsRead(got, b, pos, n) ==
  \A i \in 1..Parts : got[i] = Data(Slice(b, pos + PartStart(i, n), PartLen(i, n)))
PartsWrote(b, pos, n, w) ==
  \A i \in 1..Parts : \A k \in PartStart(i, n) + 1 .. PartStart(i, n) + PartLen(i, n) :
     pos + k \in DOMAIN b /\ b[pos + k] = w

LEMMA JoinedIs ==
    ASSUME NEW b \in Seq(Bytes), NEW pos \in Nat, NEW n \in Nat, NEW got,
           PartsRead(got, b, pos, n)
    PROVE  Joined(got) = Slice(b, pos, n)
<1>0. \A i \in 1..Parts : got[i] = Data(Slice(b, pos + PartStart(i, n), PartLen(i, n)))
    BY DEF PartsRead
<1>1. Parts \in Nat \ {0}
    BY InterceptAssumption
<1>2. PICK l \in Nat : l = Len(b)
    OBVIOUS
<1>3. PICK w : w = Slice(b, pos, n)
    OBVIOUS
<1>4. w \in Seq(Bytes) /\ Len(w) \in Nat /\ \A i \in 1..Len(w) : w[i] = b[pos + i]
    BY <1>3, SliceIs
<1>5. PICK x \in Nat : x = Len(w)
    BY <1>4
<1>6. /\ pos + n <= l => x = n
      /\ pos + n > l /\ pos <= l => x = l - pos
      /\ pos > l => x = 0
    BY <1>2, <1>3, <1>5, SliceIs
<1>7. PICK e : e = [i \in 0..Parts |-> IF Cut(i, n) < x THEN Cut(i, n) ELSE x]
    OBVIOUS
<1>8. ASSUME NEW i \in 0..Parts
      PROVE  Cut(i, n) \in Nat /\ e[i] \in Nat /\ e[i] <= x /\ (Cut(i, n) < x => e[i] = Cut(i, n))
             /\ (~(Cut(i, n) < x) => e[i] = x)
    <2>1. Cut(i, n) \in Nat
        <3>1. CASE i = 0
            <4>1. 1 \in 1..Parts
                BY <1>1
            <4> QED BY <3>1, <4>1, CutIs
        <3>2. CASE i # 0
            <4>1. i \in 1..Parts
                BY <3>2
            <4> QED BY <4>1, CutIs
        <3> QED BY <3>1, <3>2
    <2> QED BY <1>7, <2>1
<1>9. e \in [0..Parts -> 0..x]
    <2>1. \A i \in 0..Parts : e[i] \in 0..x
        BY <1>8
    <2> QED BY <1>7, <2>1
<1>10. e[0] = 0 /\ e[Parts] = x
    <2>1. Cut(0, n) = 0 /\ Cut(Parts, n) = n
        <3>1. 1 \in 1..Parts
            BY <1>1
        <3> QED BY <3>1, CutIs
    <2>2. x <= n
        BY <1>6
    <2>3. 0 \in 0..Parts /\ Parts \in 0..Parts
        BY <1>1
    <2> QED BY <1>8, <2>1, <2>2, <2>3
<1>11. PICK segs : segs = [i \in 1..Parts |-> got[i].data]
    OBVIOUS
<1>12. ASSUME NEW i \in 1..Parts
       PROVE  segs[i] \in Seq(Bytes) /\ e[i - 1] <= e[i] /\ segs[i] = SubSeq(w, e[i - 1] + 1, e[i])
    <2>1. PICK c \in Nat, d \in Nat : c = Cut(i - 1, n) /\ d = PartLen(i, n)
        BY CutIs
    <2>2. PartStart(i, n) = c /\ Cut(i, n) = c + d
        BY <2>1, CutIs
    <2>3. PICK o \in Nat : o = pos + c
        OBVIOUS
    <2>4. PICK s : s = Slice(b, o, d)
        OBVIOUS
    <2>4a. o \in Nat /\ d \in Nat
        OBVIOUS
    <2>5. got[i] = Data(s)
        BY <1>0, <2>1, <2>2, <2>3, <2>4
    <2>6. segs[i] = s
        BY <1>11, <2>5, AnswersAre
    <2>7. s \in Seq(Bytes) /\ Len(s) \in Nat /\ \A j \in 1..Len(s) : s[j] = b[o + j]
        <3>1. /\ Slice(b, o, d) \in Seq(Bytes) /\ Len(Slice(b, o, d)) \in Nat
              /\ \A j \in 1..Len(Slice(b, o, d)) : Slice(b, o, d)[j] = b[o + j]
            BY <2>4a, SliceIs
        <3> QED BY <2>4, <3>1
    <2>8. PICK y \in Nat : y = Len(s)
        BY <2>7
    <2>9. /\ o + d <= l => y = d
          /\ o + d > l /\ o <= l => y = l - o
          /\ o > l => y = 0
        BY <1>2, <2>4, <2>4a, <2>8, SliceIs
    <2>10. i - 1 \in 0..Parts /\ i \in 0..Parts
        BY <1>1
    <2>11. PICK p \in Nat, q \in Nat : p = e[i - 1] /\ q = e[i]
        BY <1>8, <2>10
    <2>12. /\ p <= x /\ q <= x /\ (c < x => p = c) /\ (~(c < x) => p = x)
           /\ (c + d < x => q = c + d) /\ (~(c + d < x) => q = x)
        BY <1>8, <2>1, <2>2, <2>10, <2>11
    <2>13. c + d <= n
        BY <2>2, CutIs
    <2>14. p <= q /\ y = q - p /\ (y > 0 => p = c)
        BY <1>6, <2>3, <2>9, <2>12, <2>13
    <2>15. PICK t : t = SubSeq(w, p + 1, q)
        OBVIOUS
    <2>16. \A j \in p + 1 .. q : w[j] \in Bytes
        <3>1. \A j \in 1..x : w[j] \in Bytes
            BY <1>4, <1>5
        <3> QED BY <2>12, <3>1
    <2>17. /\ t \in Seq(Bytes) /\ Len(t) = (IF p + 1 <= q THEN q - (p + 1) + 1 ELSE 0)
           /\ \A j \in 1 .. q - (p + 1) + 1 : t[j] = w[p + 1 + j - 1]
        <3>1. p + 1 \in Int /\ q \in Int
            OBVIOUS
        <3>2. /\ SubSeq(w, p + 1, q) \in Seq(Bytes)
              /\ Len(SubSeq(w, p + 1, q)) = (IF p + 1 <= q THEN q - (p + 1) + 1 ELSE 0)
              /\ \A j \in 1 .. q - (p + 1) + 1 : SubSeq(w, p + 1, q)[j] = w[p + 1 + j - 1]
            BY <2>16, <3>1, SubSeqProperties
        <3> QED BY <2>15, <3>2
    <2>18. Len(t) = y
        BY <2>14, <2>17
    <2>19. ASSUME NEW j \in 1..y PROVE s[j] = t[j]
        <3>1. p = c /\ j \in 1 .. q - (p + 1) + 1 /\ p + 1 + j - 1 = c + j
            BY <2>14
        <3>2. t[j] = w[c + j]
            BY <2>17, <3>1
        <3>3. c + j \in 1..x
            BY <2>12, <2>14
        <3>4. w[c + j] = b[pos + (c + j)]
            BY <1>4, <1>5, <3>3
        <3>5. pos + (c + j) = o + j
            BY <2>3
        <3> QED BY <2>7, <2>8, <3>2, <3>4, <3>5
    <2>20. s = t
        BY <2>7, <2>8, <2>17, <2>18, <2>19, SeqEqual
    <2> QED BY <2>6, <2>7, <2>11, <2>14, <2>15, <2>20
<1>13. segs \in Seq(Seq(Bytes)) /\ Len(segs) = Parts
    <2>1. segs \in [1..Parts -> Seq(Bytes)]
        BY <1>11, <1>12
    <2> QED BY <1>1, <2>1
<1>14. CutAt(Bytes, segs, w, e, Parts)
    BY <1>1, <1>4, <1>5, <1>9, <1>10, <1>12, <1>13 DEF CutAt
<1>15. FlattenSeq(segs) = w
    BY <1>14, FlattenOfCut
<1> QED BY <1>3, <1>11, <1>15 DEF Joined

\* The counts of a read are its length.
LEMMA ReadTotal ==
    ASSUME NEW b \in Seq(Bytes), NEW pos \in Nat, NEW n \in Nat, NEW got,
           PartsRead(got, b, pos, n)
    PROVE  Total(got) = Len(Slice(b, pos, n))
<1>0. \A i \in 1..Parts : got[i] = Data(Slice(b, pos + PartStart(i, n), PartLen(i, n)))
    BY DEF PartsRead
<1>1. Parts \in Nat \ {0}
    BY InterceptAssumption
<1>2. PICK l \in Nat : l = Len(b)
    OBVIOUS
<1>3. PICK w : w = Slice(b, pos, n)
    OBVIOUS
<1>4. PICK x \in Nat : x = Len(w)
    BY <1>3, SliceIs
<1>5. /\ pos + n <= l => x = n
      /\ pos + n > l /\ pos <= l => x = l - pos
      /\ pos > l => x = 0
    BY <1>2, <1>3, <1>4, SliceIs
<1>6. PICK e : e = [i \in 0..Parts |-> IF Cut(i, n) < x THEN Cut(i, n) ELSE x]
    OBVIOUS
<1>7. Cut(0, n) = 0 /\ Cut(Parts, n) = n
    <2>1. 1 \in 1..Parts
        BY <1>1
    <2> QED BY <2>1, CutIs
<1>8. ASSUME NEW i \in 0..Parts PROVE Cut(i, n) \in Nat
    <2>1. CASE i = 0
        BY <1>7, <2>1
    <2>2. CASE i # 0
        <3>1. i \in 1..Parts
            BY <2>2
        <3> QED BY <3>1, CutIs
    <2> QED BY <2>1, <2>2
<1>9. e \in [0..Parts -> Int]
    BY <1>6, <1>8
<1>10. e[0] = 0 /\ e[Parts] = x
    <2>1. 0 \in 0..Parts /\ Parts \in 0..Parts /\ x <= n
        BY <1>1, <1>5
    <2>2. e[0] = (IF Cut(0, n) < x THEN Cut(0, n) ELSE x) /\ e[Parts] = (IF Cut(Parts, n) < x THEN Cut(Parts, n) ELSE x)
        BY <1>6, <2>1
    <2> QED BY <1>7, <2>1, <2>2
<1>11. ASSUME NEW i \in 1..Parts PROVE e[i] = e[i - 1] + got[i].ret
    <2>1. PICK c \in Nat, d \in Nat : c = Cut(i - 1, n) /\ d = PartLen(i, n)
        BY CutIs
    <2>2. PartStart(i, n) = c /\ Cut(i, n) = c + d
        BY <2>1, CutIs
    <2>3. PICK o \in Nat : o = pos + c
        OBVIOUS
    <2>4. PICK s : s = Slice(b, o, d)
        OBVIOUS
    <2>4a. o \in Nat /\ d \in Nat
        OBVIOUS
    <2>5. got[i] = Data(s)
        BY <1>0, <2>1, <2>2, <2>3, <2>4
    <2>6. PICK y \in Nat : y = Len(s)
        <3>1. /\ Slice(b, o, d) \in Seq(Bytes) /\ Len(Slice(b, o, d)) \in Nat
              /\ \A j \in 1..Len(Slice(b, o, d)) : Slice(b, o, d)[j] = b[o + j]
            BY <2>4a, SliceIs
        <3> QED BY <2>4, <3>1
    <2>7. got[i].ret = y
        BY <2>5, <2>6, AnswersAre
    <2>8. /\ o + d <= l => y = d
          /\ o + d > l /\ o <= l => y = l - o
          /\ o > l => y = 0
        BY <1>2, <2>4, <2>4a, <2>6, SliceIs
    <2>9. i - 1 \in 0..Parts /\ i \in 0..Parts
        BY <1>1
    <2>10. PICK p \in Int, q \in Int : p = e[i - 1] /\ q = e[i]
        BY <1>9, <2>9
    <2>11. /\ (c < x => p = c) /\ (~(c < x) => p = x)
           /\ (c + d < x => q = c + d) /\ (~(c + d < x) => q = x)
        BY <1>6, <2>1, <2>2, <2>9, <2>10
    <2>12. c + d <= n
        BY <2>2, CutIs
    <2>13. q = p + y
        BY <1>5, <2>3, <2>8, <2>11, <2>12
    <2> QED BY <2>7, <2>10, <2>13
<1>12. Total(got) = e[Parts]
    BY <1>9, <1>10, <1>11, TotalIs
<1> QED BY <1>3, <1>4, <1>10, <1>12

\* The counts of a write, and what the file holds after it.
LEMMA WriteTotal ==
    ASSUME NEW n \in Nat, NEW got, \A i \in 1..Parts : got[i] = Ret(PartLen(i, n))
    PROVE  Total(got) = n
<1>1. Parts \in Nat \ {0}
    BY InterceptAssumption
<1>2. PICK e : e = [i \in 0..Parts |-> Cut(i, n)]
    OBVIOUS
<1>3. Cut(0, n) = 0 /\ Cut(Parts, n) = n
    <2>1. 1 \in 1..Parts
        BY <1>1
    <2> QED BY <2>1, CutIs
<1>4. ASSUME NEW i \in 0..Parts PROVE Cut(i, n) \in Nat
    <2>1. CASE i = 0
        BY <1>3, <2>1
    <2>2. CASE i # 0
        <3>1. i \in 1..Parts
            BY <2>2
        <3> QED BY <3>1, CutIs
    <2> QED BY <2>1, <2>2
<1>5. e \in [0..Parts -> Int]
    BY <1>2, <1>4
<1>6. 0 \in 0..Parts /\ Parts \in 0..Parts
    BY <1>1
<1>7. e[0] = 0 /\ e[Parts] = n
    BY <1>2, <1>3, <1>6
<1>8. ASSUME NEW i \in 1..Parts PROVE e[i] = e[i - 1] + got[i].ret
    <2>1. i - 1 \in 0..Parts /\ i \in 0..Parts
        BY <1>1
    <2>2. e[i] = Cut(i, n) /\ e[i - 1] = Cut(i - 1, n)
        BY <1>2, <2>1
    <2>3. got[i].ret = PartLen(i, n)
        BY AnswersAre
    <2> QED BY <2>2, <2>3, CutIs
<1> QED BY <1>5, <1>7, <1>8, TotalIs

LEMMA WrittenParts ==
    ASSUME NEW b \in Seq(Bytes), NEW pos \in Nat, NEW n \in Nat, n > 0, NEW w \in Threads,
           PartsWrote(b, pos, n, w)
    PROVE  Slice(b, pos, n) = [i \in 1..n |-> w]
<1>0. \A i \in 1..Parts : \A k \in PartStart(i, n) + 1 .. PartStart(i, n) + PartLen(i, n) :
        pos + k \in DOMAIN b /\ b[pos + k] = w
    BY DEF PartsWrote
<1>1. \A k \in 1..n : pos + k \in DOMAIN b /\ b[pos + k] = w
    BY <1>0, PartOf
<1>2. PICK l \in Nat : l = Len(b)
    OBVIOUS
<1>3. pos + n <= l
    <2>1. n \in 1..n
        OBVIOUS
    <2>2. pos + n \in 1..l
        BY <1>1, <1>2, <2>1
    <2> QED BY <2>2
<1>4. PICK s : s = Slice(b, pos, n)
    OBVIOUS
<1>5. Len(s) = n
    BY <1>2, <1>3, <1>4, SliceIs
<1>6. s \in Seq(Bytes) /\ \A i \in 1..Len(s) : s[i] = b[pos + i]
    BY <1>4, SliceIs
<1>7. PICK t : t = [i \in 1..n |-> w]
    OBVIOUS
<1>8. t \in Seq(Bytes) /\ Len(t) = n
    <2>1. w \in Bytes
        BY DEF Bytes
    <2> QED BY <1>7, <2>1
<1>9. \A i \in 1..n : s[i] = t[i]
    BY <1>1, <1>5, <1>6, <1>7
<1>10. s = t
    BY <1>5, <1>6, <1>8, <1>9, SeqEqual
<1> QED BY <1>4, <1>7, <1>10
-----------------------------------------------------------------------------
(* Steps that leave the tables and the files alone.                        *)
LibSame == UNCHANGED <<fdtofile, pseudo, file, g_fdtofile>>

LEMMA VanishedStep ==
    ASSUME InterceptInv, LibSame, UNCHANGED <<responses, mine, wrong>>, odd \subseteq odd',
           DOMAIN thread' = Threads, DOMAIN requests' = Threads, DOMAIN work' = Threads,
           \A v \in Threads : /\ Alike(thread'[v], thread[v])
                              /\ requests'[v] \in {requests[v], <<>>}
                              /\ work'[v] \in {work[v], Idle}
    PROVE  InterceptInv'
<1>1. Wire' /\ Process'
    BY VanishedWire DEF InterceptInv
<1>2. FdsInv'
    <2>1. SamePaths
        BY DEF SamePaths, LibSame
    <2>2. \A v \in Threads : thread'[v].st = thread[v].st /\ thread'[v].call = thread[v].call
        BY DEF Alike
    <2> QED BY <2>1, <2>2, QuietFds DEF InterceptInv, DataInv
<1>3. DataInv'
    BY QuietData DEF InterceptInv, FdsInv, LibSame
<1> QED BY <1>1, <1>2, <1>3 DEF InterceptInv

LEMMA Stuttered ==
    ASSUME InterceptInv, UNCHANGED <<thread, requests, responses, work, lib, ghost, g_fdtofile, mine>>
    PROVE  InterceptInv'
<1>1. LibSame
    BY DEF LibSame, lib
<1>2. DOMAIN thread = Threads /\ DOMAIN requests = Threads /\ DOMAIN work = Threads
    BY DEF InterceptInv, Wire
<1>3. \A v \in Threads : Alike(thread[v], thread[v])
    BY DEF Alike
<1> QED BY <1>1, <1>2, <1>3, VanishedStep DEF ghost

LEMMA CreateServersStep ==
    ASSUME InterceptInv, CreateServers
    PROVE  InterceptInv'
BY Stuttered DEF CreateServers, client, wire

LEMMA ServerThreadStep ==
    ASSUME InterceptInv, NEW w \in Threads, ServerThread(w)
    PROVE  InterceptInv'
BY Stuttered DEF ServerThread, client, wire

LEMMA IdleExitStep ==
    ASSUME InterceptInv, NEW w \in Threads, IdleExit(w)
    PROVE  InterceptInv'
BY Stuttered DEF IdleExit, client, wire

LEMMA LoanFailsStep ==
    ASSUME InterceptInv, NEW w \in Threads, LoanFails(w)
    PROVE  InterceptInv'
<1>1. Wire
    BY DEF InterceptInv
<1>2. requests[w] # <<>> /\ work[w].at = "idle"
    BY DEF LoanFails
<1>3. PICK m : m = requests[w][1]
    OBVIOUS
<1>4. requests[w] = <<m>> /\ m.by = w
    BY <1>1, <1>2, <1>3, Zenon DEF Wire, WireOk, ForCall
<1>5. Head(requests[w]) = m /\ Tail(requests[w]) = <<>>
    BY <1>4, OneMessage
<1>6. requests' = [requests EXCEPT ![w] = <<>>]
    BY <1>5 DEF LoanFails
<1>7. DOMAIN requests' = Threads /\ \A v \in Threads : requests'[v] \in {requests[v], <<>>}
    BY <1>1, <1>6 DEF Wire
<1>8. DOMAIN thread' = Threads /\ \A v \in Threads : Alike(thread'[v], thread[v])
    <2>1. CASE thread' = thread
        BY <1>1, <2>1 DEF Wire, Alike
    <2>2. CASE thread' # thread
        <3>1. thread' = [thread EXCEPT ![w].lost = TRUE]
            BY <1>4, <1>5, <2>2 DEF LoanFails
        <3>2. PICK a : a = thread[w]
            OBVIOUS
        <3>3. DOMAIN a = {"st", "call", "expect", "own", "lost"}
            BY <1>1, <3>2 DEF Wire, WireOk
        <3>4. PICK b : b = [a EXCEPT !.lost = TRUE]
            OBVIOUS
        <3>5. Alike(b, a)
            BY <3>3, <3>4 DEF Alike
        <3>6. thread' = [thread EXCEPT ![w] = b]
            BY <3>1, <3>2, <3>4
        <3>7. \A v \in Threads : Alike(thread[v], thread[v])
            BY DEF Alike
        <3> QED BY <1>1, <3>2, <3>5, <3>6, <3>7 DEF Wire
    <2> QED BY <2>1, <2>2
<1>9. LibSame
    BY DEF LoanFails, LibSame, lib
<1>10. UNCHANGED <<responses, work, mine, odd, wrong>>
    BY DEF LoanFails, ghost
<1>11. DOMAIN work' = Threads
    BY <1>1, <1>10 DEF Wire
<1> QED BY <1>7, <1>8, <1>9, <1>10, <1>11, VanishedStep

\* A handler ends with an answer.
LEMMA AnsweredFds ==
    ASSUME InterceptInv, NEW w \in Threads, requests[w] # <<>> \/ work[w].at # "idle",
           NEW a, IsAnswer(Req(w).op, a), Req(w).op \in OpenOps => a.ret \notin Fds, Sent(w, a),
           UNCHANGED <<thread, mine>>, SamePaths
    PROVE  /\ Wire' /\ Process' /\ FdsInv' /\ DOMAIN work' = Threads
           /\ work'[w] = Idle /\ \A v \in Threads \ {w} : work'[v] = work[v]
<1>1. Wire /\ Process /\ FdsInv /\ Tables
    BY DEF InterceptInv, DataInv
<1>2. Answering(w, Req(w), Taken(w).seq, a)
    BY <1>1, SentAnswers
<1>3. Wire' /\ Process'
    BY <1>1, <1>2, AnsweredWire
<1>4. PICK m : m = [req |-> Req(w), by |-> w, seq |-> Taken(w).seq, ans |-> a]
    OBVIOUS
<1>5. m.req = Req(w) /\ m.ans = a
    BY <1>4
<1>6. PICK rs : rs = <<m>>
    OBVIOUS
<1>7. rs[1] = m
    BY <1>6
<1>8. /\ requests'[w] = <<>> /\ responses'[w] = rs /\ work'[w] = Idle
      /\ \A v \in Threads \ {w} : /\ requests'[v] = requests[v] /\ responses'[v] = responses[v]
                                  /\ work'[v] = work[v]
      /\ DOMAIN work' = Threads
    BY <1>1, <1>2, <1>4, <1>6 DEF Answering, Updated, Wire
<1>9. ASSUME NEW v \in Threads
      PROVE  /\ thread'[v].st = thread[v].st /\ thread'[v].call = thread[v].call
             /\ requests'[v] \in {requests[v], <<>>}
             /\ \/ responses'[v] \in {responses[v], <<>>}
                \/ responses'[v][1].req.op \in OpenOps => responses'[v][1].ans.ret \notin Fds
             /\ work'[v] \in {work[v], Idle}
    <2>1. CASE v = w
        BY <1>5, <1>7, <1>8, <2>1
    <2>2. CASE v # w
        BY <1>8, <2>2
    <2> QED BY <2>1, <2>2
<1>10. FdsInv'
    BY <1>1, <1>9, QuietFds
<1> QED BY <1>3, <1>8, <1>10

LEMMA AnsweredStep ==
    ASSUME InterceptInv, NEW w \in Threads, requests[w] # <<>> \/ work[w].at # "idle",
           NEW a, IsAnswer(Req(w).op, a), Req(w).op \in OpenOps => a.ret \notin Fds, Sent(w, a),
           UNCHANGED <<thread, mine>>, LibSame, odd \subseteq odd', wrong' = {}
    PROVE  InterceptInv'
<1>1. SamePaths
    BY DEF SamePaths, LibSame
<1>2. /\ Wire' /\ Process' /\ FdsInv'
      /\ work'[w] = Idle /\ \A v \in Threads \ {w} : work'[v] = work[v]
    BY <1>1, AnsweredFds
<1>3. DataInv'
    <2>1. \A v \in Threads : work'[v] \in {work[v], Idle}
        BY <1>2
    <2> QED BY <2>1, QuietData DEF InterceptInv, FdsInv, LibSame
<1> QED BY <1>2, <1>3 DEF InterceptInv

LEMMA SmallNumbers == -5 \notin Fds /\ -2 \notin Fds /\ 0 \notin Fds /\ NoFd \notin Fds
<1>1. MaxFd \in Int
    BY InterceptAssumption
<1> QED BY <1>1 DEF Fds, NoFd

LEMMA HandleUnreadyStep ==
    ASSUME InterceptInv, NEW w \in Threads, HandleUnready(w)
    PROVE  InterceptInv'
<1>1. requests[w] # <<>>
    BY DEF HandleUnready
<1>2. LibSame /\ UNCHANGED <<thread, mine, odd, wrong>>
    BY DEF HandleUnready, LibSame, lib, client, ghost
<1>3. wrong' = {}
    BY <1>2 DEF InterceptInv
<1>4. CASE Respond(w, Ret(-5))
    <2>1. Sent(w, Ret(-5))
        BY <1>4 DEF Respond
    <2>2. IsAnswer(Req(w).op, Ret(-5)) /\ Ret(-5).ret = -5
        BY AnswersAre
    <2>3. Ret(-5).ret \notin Fds
        BY <2>2, SmallNumbers
    <2> QED BY <1>1, <1>2, <1>3, <2>1, <2>2, <2>3, AnsweredStep
<1>5. CASE /\ work' = [v \in Threads |-> Idle]
           /\ requests' = [v \in Threads |-> <<>>]
           /\ UNCHANGED responses
    <2>1. DOMAIN requests' = Threads /\ DOMAIN work' = Threads
          /\ \A v \in Threads : requests'[v] = <<>> /\ work'[v] = Idle
        BY <1>5
    <2>2. DOMAIN thread' = Threads
        BY <1>2 DEF InterceptInv, Wire
    <2>3. \A v \in Threads : Alike(thread'[v], thread[v])
        BY <1>2 DEF Alike
    <2> QED BY <1>2, <1>5, <2>1, <2>2, <2>3, VanishedStep
<1> QED BY <1>4, <1>5 DEF HandleUnready

LEMMA NothingStep ==
    ASSUME InterceptInv, NEW w \in Threads, HandleNothing(w) \/ HandleTerminalRequest(w)
    PROVE  InterceptInv'
<1>1. requests[w] # <<>> /\ Req(w).op \notin OpenOps /\ Sent(w, Ret(0))
    BY DEF HandleNothing, HandleTerminalRequest, Begin, OpenOps, Respond
<1>2. LibSame /\ UNCHANGED <<thread, mine, odd, wrong>>
    BY DEF HandleNothing, HandleTerminalRequest, LibSame, lib, rest, client, ghost
<1>3. wrong' = {}
    BY <1>2 DEF InterceptInv
<1>4. IsAnswer(Req(w).op, Ret(0))
    BY AnswersAre
<1> QED BY <1>1, <1>2, <1>3, <1>4, AnsweredStep

LEMMA HandleStatStep ==
    ASSUME InterceptInv, NEW w \in Threads, HandleStatRequest(w)
    PROVE  InterceptInv'
<1>1. requests[w] # <<>> /\ Req(w).op = "stat"
    BY DEF HandleStatRequest, Begin
<1>2. LibSame /\ UNCHANGED <<thread, mine, odd>>
    BY DEF HandleStatRequest, LibSame, lib, rest, client
<1>3. PICK n : Sent(w, Ret(n))
    BY DEF HandleStatRequest, Respond
<1>4. PICK p : p = Req(w).path
    OBVIOUS
<1>5. p \in Names
    <2>1. CallOk(Req(w))
        BY <1>1, Underway DEF InterceptInv
    <2> QED BY <1>1, <1>4, <2>1 DEF CallOk
<1>6. StatSize(p) = Len(file[p].bytes) \/ OddPath(p) \in odd
    <2>1. OddPath(p) \in odd \/ IsOpen(p) \/ file[p].stored \/ file[p].bytes = <<>>
        BY <1>5 DEF InterceptInv, DataInv, Files
    <2>2. Len(<<>>) = 0
        OBVIOUS
    <2> QED BY <2>1, <2>2 DEF StatSize
<1>7. wrong = {}
    BY DEF InterceptInv
<1>8. wrong' = {}
    <2>1. CASE Judge(w, StatSize(p) = Len(file[p].bytes), {OddPath(p)})
        BY <1>6, <1>7, <2>1 DEF Judge
    <2>2. CASE UNCHANGED wrong
        BY <1>7, <2>2
    <2> QED BY <1>4, <2>1, <2>2 DEF HandleStatRequest
<1>9. IsAnswer(Req(w).op, Ret(n)) /\ Req(w).op \notin OpenOps
    BY <1>1, AnswersAre DEF OpenOps
<1> QED BY <1>1, <1>2, <1>3, <1>8, <1>9, AnsweredStep
-----------------------------------------------------------------------------
(* The application's steps.                                                *)
LEMMA ThreadOf ==
    ASSUME Wire, NEW t \in Threads
    PROVE  /\ DOMAIN thread[t] = {"st", "call", "expect", "own", "lost"} /\ thread[t].own
           /\ thread[t].st \in {"new", "waiting", "idle"} =>
                 requests[t] = <<>> /\ responses[t] = <<>> /\ work[t] = Idle
           /\ thread[t].st = "waiting" => CallOk(thread[t].call) /\ Initialises(thread[t].call)
<1>1. WireOk(thread[t], requests[t], responses[t], work[t], t)
    BY DEF Wire
<1> QED BY <1>1 DEF WireOk

\* A thread makes a call, the tables and the files stay.
LEMMA CalledStep ==
    ASSUME InterceptInv, NEW t \in Threads, NEW c, Wire', Process', Calling(t, c), thread[t].st # "gone",
           UseOk(c, mine, pseudo),
           c.op = "close" => \A u \in Threads : thread[u].call.fd # c.fd,
           c.op \in OpenOps =>
              \/ Opening(t)
              \/ Cardinality(DOMAIN pseudo) + Cardinality({u \in Threads : thread[u].call.op \in OpenOps}) < Cardinality(Fds),
           LibSame, odd' = odd, wrong' = {}
    PROVE  InterceptInv'
<1>1. FdsInv'
    BY CallFds DEF InterceptInv, DataInv
<1>2. DataInv'
    <2>1. mine' \subseteq mine /\ \A v \in Threads : work'[v] \in {work[v], Idle}
        BY DEF Calling
    <2> QED BY <2>1, QuietData DEF InterceptInv, FdsInv, LibSame
<1> QED BY <1>1, <1>2 DEF InterceptInv

LEMMA SendStep ==
    ASSUME InterceptInv, NEW t \in Threads, thread[t].st \in {"waiting", "idle"}, NEW c, CallOk(c),
           Send(t, t, c), UNCHANGED <<responses, work, odd>>, LibSame, wrong' = {},
           UseOk(c, mine, pseudo),
           mine' = IF c.op = "close" THEN mine \ {c.fd} ELSE mine,
           c.op = "close" => c.fd \in mine /\ \A u \in Threads : thread[u].call.fd # c.fd,
           c.op \in OpenOps =>
              \/ Opening(t)
              \/ Cardinality(DOMAIN pseudo) + Cardinality({u \in Threads : thread[u].call.op \in OpenOps}) < Cardinality(Fds)
    PROVE  InterceptInv'
<1>1. /\ Wire' /\ Process'
      /\ \A u \in Threads \ {t} : thread'[u] = thread[u] /\ requests'[u] = requests[u]
      /\ thread'[t].st = "taking" /\ thread'[t].call = c
      /\ requests'[t] # <<>> => requests'[t][1].req = c
      /\ requests[t] = <<>> /\ responses[t] = <<>> /\ work[t] = Idle
    BY SendWire DEF InterceptInv
<1>2. Calling(t, c)
    BY <1>1 DEF Calling, LibSame
<1> QED BY <1>1, <1>2, CalledStep

LEMMA StopClientStep ==
    ASSUME InterceptInv, NEW t \in Threads, StopClient(t)
    PROVE  InterceptInv'
<1>1. PICK e, c : e = None /\ c = [None EXCEPT !.op = "terminal"]
    OBVIOUS
<1>2. c = [e EXCEPT !.op = "terminal"] /\ e.fd = 0 /\ DOMAIN e = {"op", "path", "fd", "n", "flag"}
    BY <1>1, NoneIs
<1>3. c.op = "terminal" /\ c.fd = 0 /\ DOMAIN c = {"op", "path", "fd", "n", "flag"}
    BY <1>2
<1>4. CallOk(c) /\ UseOk(c, mine, pseudo) /\ c.op \notin OpenOps
    BY <1>3 DEF CallOk, UseOk, OpenOps, OffsetOps, IoOps
<1>5. Send(t, t, c) /\ thread[t].st = "idle"
    BY <1>1 DEF StopClient, Wrapper
<1>6. LibSame /\ UNCHANGED <<responses, work, odd, mine>> /\ wrong' = {}
    BY DEF StopClient, LibSame, lib, ghost, InterceptInv
<1> QED BY <1>3, <1>4, <1>5, <1>6, SendStep

LEMMA ThreadInitStep ==
    ASSUME InterceptInv, NEW t \in Threads, ThreadInit(t)
    PROVE  InterceptInv'
<1>1. PICK c : c = thread[t].call
    OBVIOUS
<1>2. thread[t].st = "waiting" /\ Send(t, t, c)
    BY <1>1 DEF ThreadInit, Wrapper
<1>3. CallOk(c) /\ Initialises(c)
    BY <1>1, <1>2, ThreadOf DEF InterceptInv
<1>4. c.op # "close"
    BY <1>3 DEF Initialises
<1>5. UseOk(c, mine, pseudo)
    BY <1>1, <1>2 DEF InterceptInv, FdsInv, Uses
<1>6. c.op \in OpenOps => Opening(t)
    BY <1>1, <1>2 DEF Opening
<1>7. LibSame /\ UNCHANGED <<responses, work, odd, mine>> /\ wrong' = {}
    BY DEF ThreadInit, LibSame, lib, ghost, InterceptInv
<1> QED BY <1>2, <1>3, <1>4, <1>5, <1>6, <1>7, SendStep

\* What the application asks for can be served.
LEMMA WantedUse ==
    ASSUME Tables, NEW c \in PathCalls \cup FileCalls \cup DirCalls, Wanted(c), IsValidPath(c)
    PROVE  UseOk(c, mine, pseudo)
<1> SUFFICES ASSUME c.op # "close", c.fd # 0
             PROVE  c.fd \in mine /\ (c.op \in OffsetOps => pseudo[c.fd].path \in Names)
    BY DEF UseOk
<1>1. c.fd \in mine /\ c.fd \in DOMAIN g_fdtofile /\ c.fd \in DOMAIN pseudo
    BY DEF Wanted, IsValidPath, Tables
<1>2. c \in DirCalls => c.op \notin OffsetOps
    <2> SUFFICES ASSUME c \in DirCalls PROVE c.op \notin OffsetOps
        OBVIOUS
    <2>1. PICK e : e = None
        OBVIOUS
    <2>2. DOMAIN e = {"op", "path", "fd", "n", "flag"}
        BY <2>1, NoneIs
    <2>3. CASE c \in {[None EXCEPT !.op = "getdents", !.fd = fd, !.n = g_fdtofile[fd].off] : fd \in mine \cap DOMAIN g_fdtofile}
        <3>1. PICK fd \in mine : c = [None EXCEPT !.op = "getdents", !.fd = fd, !.n = g_fdtofile[fd].off]
            BY <2>3, Zenon
        <3>2. c = [e EXCEPT !.op = "getdents", !.fd = fd, !.n = g_fdtofile[fd].off]
            BY <2>1, <3>1
        <3>3. c.op = "getdents"
            BY <2>2, <3>2
        <3> QED BY <3>3 DEF OffsetOps
    <2>4. CASE c \in {[None EXCEPT !.op = "close", !.fd = fd] : fd \in mine}
        <3>1. PICK fd \in mine : c = [None EXCEPT !.op = "close", !.fd = fd]
            BY <2>4, Zenon
        <3>2. c = [e EXCEPT !.op = "close", !.fd = fd]
            BY <2>1, <3>1
        <3>3. c.op = "close"
            BY <2>2, <3>2
        <3> QED BY <3>3 DEF OffsetOps
    <2> QED BY <2>3, <2>4, Zenon DEF DirCalls
<1>3. c.op \in OffsetOps => g_fdtofile[c.fd].type # "dir"
    BY <1>1, <1>2 DEF Wanted
<1>4. c.op \in OffsetOps => pseudo[c.fd].path # Dir
    BY <1>1, <1>3 DEF Tables
<1> QED BY <1>1, <1>4 DEF Tables

\* A thread that waits for its client.
LEMMA WaitWire ==
    ASSUME Wire, Process, NEW t \in Threads, thread[t].st = "new", NEW c, CallOk(c), Initialises(c),
           thread' = [thread EXCEPT ![t].st = "waiting", ![t].call = c],
           UNCHANGED <<requests, responses, work>>
    PROVE  /\ Wire' /\ Process' /\ \A u \in Threads \ {t} : thread'[u] = thread[u]
           /\ thread'[t].st = "waiting" /\ thread'[t].call = c
<1>1. /\ DOMAIN thread[t] = {"st", "call", "expect", "own", "lost"} /\ thread[t].own
      /\ requests[t] = <<>> /\ responses[t] = <<>> /\ work[t] = Idle
    BY ThreadOf
<1>2. PICK a : a = thread[t]
    OBVIOUS
<1>3. PICK b : b = [a EXCEPT !.st = "waiting", !.call = c]
    OBVIOUS
<1>4. DOMAIN b = {"st", "call", "expect", "own", "lost"} /\ b.own /\ b.st = "waiting" /\ b.call = c
    BY <1>1, <1>2, <1>3
<1>5. thread' = [thread EXCEPT ![t] = b]
    BY <1>2, <1>3
<1>6. DOMAIN thread' = Threads /\ thread'[t] = b /\ \A u \in Threads \ {t} : thread'[u] = thread[u]
    BY <1>5 DEF Wire
<1>7. WireOk(b, <<>>, <<>>, Idle, t)
    BY <1>4, IdleIs DEF WireOk
<1>8. Wire'
    <2>1. ASSUME NEW u \in Threads
          PROVE  WireOk(thread'[u], requests[u], responses[u], work[u], u)
        <3>1. CASE u = t
            BY <1>1, <1>6, <1>7, <3>1
        <3>2. CASE u # t
            BY <1>6, <3>2 DEF Wire
        <3> QED BY <3>1, <3>2
    <2> QED BY <1>6, <2>1 DEF Wire
<1>9. Process'
    <2> SUFFICES ASSUME NEW v \in Threads, thread'[v].st = "gone",
                        requests[v] # <<>> \/ responses[v] # <<>> \/ work[v] # Idle
                 PROVE  FALSE
        BY Zenon DEF Process
    <2>1. v # t
        BY <1>1
    <2>2. thread[v].st = "gone"
        BY <1>6, <2>1
    <2>3. thread[t].st = "gone"
        BY <2>2, Zenon DEF Process
    <2> QED BY <2>3
<1> QED BY <1>4, <1>6, <1>8, <1>9

\* The process ends: its threads go, what it has sent stays.
LEMMA GoneWire ==
    ASSUME Wire,
           thread' = [u \in Threads |-> [thread[u] EXCEPT !.st = "gone", !.call = None]],
           UNCHANGED <<requests, responses, work>>
    PROVE  Wire' /\ Process' /\ \A u \in Threads : thread'[u].st = "gone"
<1>1. ASSUME NEW u \in Threads
      PROVE  WireOk(thread'[u], requests[u], responses[u], work[u], u) /\ thread'[u].st = "gone"
    <2>1. WireOk(thread[u], requests[u], responses[u], work[u], u)
        BY DEF Wire
    <2>2. PICK a : a = thread[u]
        OBVIOUS
    <2>3. DOMAIN a = {"st", "call", "expect", "own", "lost"} /\ a.own
        BY <2>1, <2>2 DEF WireOk
    <2>4. PICK b : b = [a EXCEPT !.st = "gone", !.call = None]
        OBVIOUS
    <2>5. DOMAIN b = {"st", "call", "expect", "own", "lost"} /\ b.own /\ b.st = "gone" /\ b.call = None
        BY <2>3, <2>4
    <2>6. WireOk(b, requests[u], responses[u], work[u], u)
        BY <2>1, <2>5, Zenon DEF WireOk, ForCall
    <2> QED BY <2>2, <2>4, <2>5, <2>6
<1>2. DOMAIN thread' = Threads
    OBVIOUS
<1>3. Wire'
    BY <1>1, <1>2 DEF Wire
<1>4. Process'
    BY <1>1, Zenon DEF Process
<1> QED BY <1>1, <1>3, <1>4

LEMMA HookStep ==
    ASSUME InterceptInv, NEW t \in Threads, Hook(t)
    PROVE  InterceptInv'
<1>1. Wire /\ Process /\ FdsInv /\ Tables /\ wrong = {} /\ DataInv /\ Uses
    BY DEF InterceptInv, DataInv, FdsInv
<1>2. thread[t].st \in {"new", "idle"}
    BY DEF Hook
<1>3. LibSame /\ UNCHANGED <<responses, work, odd, pseudo>>
    BY DEF Hook, LibSame, lib
<1>4. requests[t] = <<>> /\ responses[t] = <<>> /\ work[t] = Idle
    BY <1>1, <1>2, ThreadOf
<1>5. PICK c \in PathCalls \cup FileCalls \cup DirCalls :
        /\ Wanted(c)
        /\ mine' = IF c.op = "close" THEN mine \ {c.fd} ELSE mine
        /\ \/ /\ ~IsValidPath(c)
              /\ wrong' = IF OddFd(c.fd) \in odd THEN wrong ELSE wrong \cup {c.op}
              /\ UNCHANGED <<thread, dummies, requests, sequence, chunks>>
           \/ /\ IsValidPath(c) /\ thread[t].st = "idle"
              /\ Send(t, Wrapper(t), c)
              /\ UNCHANGED <<dummies, wrong>>
           \/ /\ IsValidPath(c) /\ thread[t].st = "new" /\ Initialises(c)
              /\ thread' = [thread EXCEPT ![t].st = "waiting", ![t].call = c]
              /\ dummies' = dummies \cup {t}
              /\ UNCHANGED <<wrong, requests, sequence, chunks>>
           \/ /\ IsValidPath(c) /\ thread[t].st = "new" /\ ~Initialises(c)
              /\ thread' = [u \in Threads |-> [thread[u] EXCEPT !.st = "gone", !.call = None]]
              /\ dummies' = {}
              /\ UNCHANGED <<wrong, requests, sequence, chunks>>
    BY Zenon DEF Hook
<1>6. CallOk(c)
    <2>1. mine \subseteq Fds
        BY <1>1 DEF Tables
    <2> QED BY <2>1, WantedIsOk
<1>7. c.op = "close" => c.fd \in mine /\ \A u \in Threads : thread[u].call.fd # c.fd
    <2> HAVE c.op = "close"
    <2>1. c.fd \in Fds
        BY <1>6 DEF CallOk
    <2>2. c.fd # 0
        BY <2>1, SmallNumbers
    <2> QED BY <1>5, <2>2 DEF Wanted
<1>8. c.op \in OpenOps =>
        Cardinality(DOMAIN pseudo) + Cardinality({u \in Threads : thread[u].call.op \in OpenOps}) < Cardinality(Fds)
    BY <1>5 DEF Wanted, OpenOps
<1>9. IsValidPath(c) => UseOk(c, mine, pseudo)
    BY <1>1, <1>5, WantedUse
<1>10. CASE /\ ~IsValidPath(c)
            /\ wrong' = IF OddFd(c.fd) \in odd THEN wrong ELSE wrong \cup {c.op}
            /\ UNCHANGED <<thread, dummies, requests, sequence, chunks>>
    <2>1. c.fd \in mine /\ c.fd \notin DOMAIN g_fdtofile
        BY <1>5, <1>10 DEF Wanted, IsValidPath
    <2>2. OddFd(c.fd) \in odd
        BY <1>1, <2>1 DEF Tables, Marked
    <2>3. wrong' = {}
        BY <1>1, <1>10, <2>2
    <2>4. Wire' /\ Process'
        BY <1>1, <1>3, <1>10 DEF Wire, Process
    <2>5. CASE c.op = "close"
        <3>1. Calling(t, c)
            BY <1>3, <1>4, <1>5, <1>10, <2>5 DEF Calling
        <3>2. UseOk(c, mine, pseudo) /\ c.op \notin OpenOps
            BY <2>5 DEF UseOk, OpenOps
        <3> QED BY <1>2, <1>3, <1>7, <2>3, <2>4, <3>1, <3>2, CalledStep
    <2>6. CASE c.op # "close"
        <3>1. mine' = mine
            BY <1>5, <2>6
        <3>2. UNCHANGED <<thread, requests, responses, work, lib, ghost, g_fdtofile, mine>>
            BY <1>1, <1>3, <1>10, <2>3, <3>1 DEF LibSame, lib, ghost
        <3> QED BY <3>2, Stuttered
    <2> QED BY <2>5, <2>6
<1>11. CASE /\ IsValidPath(c) /\ thread[t].st = "idle"
            /\ Send(t, Wrapper(t), c)
            /\ UNCHANGED <<dummies, wrong>>
    <2>1. Send(t, t, c) /\ wrong' = {}
        BY <1>1, <1>11 DEF Wrapper
    <2> QED BY <1>3, <1>5, <1>6, <1>7, <1>8, <1>9, <1>11, <2>1, SendStep
<1>12. CASE /\ IsValidPath(c) /\ thread[t].st = "new" /\ Initialises(c)
            /\ thread' = [thread EXCEPT ![t].st = "waiting", ![t].call = c]
            /\ dummies' = dummies \cup {t}
            /\ UNCHANGED <<wrong, requests, sequence, chunks>>
    <2>1. /\ Wire' /\ Process' /\ \A u \in Threads \ {t} : thread'[u] = thread[u]
          /\ thread'[t].st = "waiting" /\ thread'[t].call = c
        BY <1>1, <1>3, <1>6, <1>12, WaitWire
    <2>2. c.op # "close" /\ mine' = mine
        BY <1>5, <1>12 DEF Initialises
    <2>3. Calling(t, c)
        BY <1>3, <1>4, <1>12, <2>1, <2>2 DEF Calling
    <2>4. wrong' = {}
        BY <1>1, <1>12
    <2> QED BY <1>2, <1>3, <1>8, <1>9, <1>12, <2>1, <2>2, <2>3, <2>4, CalledStep
<1>13. CASE /\ IsValidPath(c) /\ thread[t].st = "new" /\ ~Initialises(c)
            /\ thread' = [u \in Threads |-> [thread[u] EXCEPT !.st = "gone", !.call = None]]
            /\ dummies' = {}
            /\ UNCHANGED <<wrong, requests, sequence, chunks>>
    <2>1. Wire' /\ Process' /\ \A u \in Threads : thread'[u].st = "gone"
        BY <1>1, <1>3, <1>13, GoneWire
    <2>2. Calling(t, c)
        BY <1>3, <1>4, <1>5, <1>7, <1>13, <2>1 DEF Calling
    <2>3. wrong' = {}
        BY <1>1, <1>13
    <2> QED BY <1>2, <1>3, <1>7, <1>8, <1>9, <1>13, <2>1, <2>2, <2>3, CalledStep
<1> QED BY <1>5, <1>10, <1>11, <1>12, <1>13

LEMMA TakeStep ==
    ASSUME InterceptInv, NEW t \in Threads, Take(t, t)
    PROVE  InterceptInv'
<1>1. Wire /\ Process /\ FdsInv /\ Tables /\ wrong = {} /\ DataInv /\ Uses /\ Granted /\ Tokens
    BY DEF InterceptInv, DataInv, FdsInv
<1>2. Wire' /\ Process' /\ FdsInv'
    BY <1>1, TakeWire, TakeFds
<1>3. UNCHANGED <<work, fdtofile, pseudo, file, wrong>>
    BY DEF Take, lib
<1>4. PICK c : c = thread[t].call
    OBVIOUS
<1>5. PICK a : /\ a.ret = responses[t][1].ans.ret /\ g_fdtofile' = Recorded(c, a)
               /\ mine' = IF c.op \in OpenOps /\ a.ret \in Fds THEN mine \cup {a.ret} ELSE mine
    BY <1>1, <1>4, TakeIs
<1>6. CallOk(c) /\ responses[t] # <<>> /\ responses[t][1].req = c
    BY <1>1, <1>4, TakeIs
<1>7. odd' = IF c.op = "close" /\ c.fd \in mine THEN odd \cup {OddFd(c.fd)} ELSE odd
    BY <1>4 DEF Take
<1>8. odd \subseteq odd'
    BY <1>7
<1>9. Files' /\ Offsets' /\ Conflicts' /\ Handlers'
    BY <1>1, <1>3, <1>8, QuietRest
<1>10. PICK d : d = a.ret
    OBVIOUS
<1>11. c.op \in OpenOps /\ d \in Fds => d \in DOMAIN pseudo /\ pseudo[d].path = c.path
    <2> HAVE c.op \in OpenOps /\ d \in Fds
    <2>1. Holds(requests[t], responses[t], d)
        BY <1>5, <1>6, <1>10 DEF Holds
    <2>2. d \in DOMAIN pseudo
        BY <1>1, <2>1 DEF Tokens
    <2>3. pseudo[d].path = c.path
        BY <1>1, <1>5, <1>6, <1>10 DEF Granted
    <2> QED BY <2>2, <2>3
<1>12. Dir \notin Names
    BY InterceptAssumption DEF Dir, Names
<1>13. mine' \subseteq DOMAIN pseudo
    BY <1>1, <1>5, <1>10, <1>11 DEF Tables
<1>14. /\ \A fd \in DOMAIN g_fdtofile' : DOMAIN g_fdtofile'[fd] = {"type", "off"}
       /\ \A fd \in mine' : OddFd(fd) \in odd' \/ fd \in DOMAIN g_fdtofile'
       /\ \A fd \in mine' : fd \in DOMAIN g_fdtofile' => (g_fdtofile'[fd].type = "dir" <=> pseudo[fd].path = Dir)
    <2>1. CASE c.op \in OpenOps
        <3>1. PICK e : e = [type |-> IF c.op = "open" THEN "file" ELSE "dir", off |-> 0]
            OBVIOUS
        <3>2. DOMAIN e = {"type", "off"} /\ e.type = (IF c.op = "open" THEN "file" ELSE "dir")
            BY <3>1
        <3>3. g_fdtofile' = With(g_fdtofile, d, e)
            <4>1. CASE c.op = "open"
                BY <1>5, <1>10, <3>1, <4>1 DEF Recorded
            <4>2. CASE c.op = "opendir"
                BY <1>5, <1>10, <3>1, <4>2 DEF Recorded
            <4> QED BY <2>1, <4>1, <4>2 DEF OpenOps
        <3>4. /\ DOMAIN g_fdtofile' = DOMAIN g_fdtofile \cup {d} /\ g_fdtofile'[d] = e
              /\ \A fd \in DOMAIN g_fdtofile : fd # d => g_fdtofile'[fd] = g_fdtofile[fd]
            BY <3>3 DEF With
        <3>5. d \in mine' => d \in Fds
            BY <1>1, <1>13 DEF Tables
        <3>6. d \in mine' => (e.type = "dir" <=> pseudo[d].path = Dir)
            <4>1. c.op = "open" => c.path # Dir
                BY <1>6, <1>12 DEF CallOk
            <4>2. c.op = "opendir" => c.path = Dir
                BY <1>6 DEF CallOk
            <4> QED BY <1>11, <2>1, <3>2, <3>5, <4>1, <4>2 DEF OpenOps
        <3>7. \A fd \in mine' \ {d} : fd \in mine
            BY <1>5, <1>10
        <3> QED BY <1>1, <1>8, <3>2, <3>4, <3>6, <3>7 DEF Tables, Marked
    <2>2. CASE c.op = "getdents" /\ c.fd \in DOMAIN g_fdtofile
        <3>1. PICK o : o = g_fdtofile[c.fd]
            OBVIOUS
        <3>2. DOMAIN o = {"type", "off"}
            BY <1>1, <2>2, <3>1 DEF Tables
        <3>3. PICK e : e = [o EXCEPT !.off = @ + d]
            OBVIOUS
        <3>4. DOMAIN e = {"type", "off"} /\ e.type = o.type
            BY <3>2, <3>3
        <3>5. g_fdtofile' = [g_fdtofile EXCEPT ![c.fd].off = @ + d]
            BY <1>5, <1>10, <2>2 DEF Recorded
        <3>6. g_fdtofile' = [g_fdtofile EXCEPT ![c.fd] = e]
            BY <3>1, <3>3, <3>5
        <3>7. mine' = mine
            BY <1>5, <2>2 DEF OpenOps
        <3>8. /\ DOMAIN g_fdtofile' = DOMAIN g_fdtofile /\ g_fdtofile'[c.fd] = e
              /\ \A fd \in DOMAIN g_fdtofile \ {c.fd} : g_fdtofile'[fd] = g_fdtofile[fd]
            BY <2>2, <3>6
        <3> QED BY <1>1, <1>8, <3>1, <3>4, <3>7, <3>8 DEF Tables, Marked
    <2>3. CASE c.op = "close"
        <3>1. g_fdtofile' = Without(g_fdtofile, c.fd)
            BY <1>5, <2>3 DEF Recorded
        <3>2. /\ DOMAIN g_fdtofile' = DOMAIN g_fdtofile \ {c.fd}
              /\ \A fd \in DOMAIN g_fdtofile \ {c.fd} : g_fdtofile'[fd] = g_fdtofile[fd]
            BY <3>1, WithoutIs
        <3>3. mine' = mine
            BY <1>5, <2>3 DEF OpenOps
        <3>4. c.fd \in mine => OddFd(c.fd) \in odd'
            BY <1>7, <2>3
        <3> QED BY <1>1, <1>8, <3>2, <3>3, <3>4 DEF Tables, Marked
    <2>4. CASE c.op \notin OpenOps \cup {"close"} /\ ~(c.op = "getdents" /\ c.fd \in DOMAIN g_fdtofile)
        <3>1. g_fdtofile' = g_fdtofile /\ mine' = mine
            BY <1>5, <2>4 DEF Recorded, OpenOps
        <3> QED BY <1>1, <1>8, <3>1 DEF Tables, Marked
    <2> QED BY <2>1, <2>2, <2>3, <2>4
<1>15. Tables'
    <2>1. \A fd : Known(fd)' <=> Known(fd)
        BY <1>3 DEF Known
    <2> QED BY <1>1, <1>3, <1>8, <1>13, <1>14, <2>1 DEF Tables, Marked
<1> QED BY <1>1, <1>2, <1>3, <1>9, <1>15 DEF InterceptInv, DataInv

-----------------------------------------------------------------------------
(* A listing.                                                              *)
LEMMA RangeConcat ==
    ASSUME NEW S, NEW s \in Seq(S), NEW u \in Seq(S)
    PROVE  s \o u \in Seq(S) /\ Range(s \o u) = Range(s) \cup Range(u)
BY ConcatProperties, RangeConcatenation

LEMMA InOrderIs ==
    ASSUME NEW names
    PROVE  InOrder(names) \in Seq(STRING) /\ Range(InOrder(names)) = names \cap Names
<1>1. Paths \in Seq(STRING)
    BY InterceptAssumption
<1>2. PICK n \in Nat : n = Len(Paths)
    BY <1>1
<1>3. DOMAIN Paths = 1..n /\ \A i \in 1..n : Paths[i] \in STRING
    BY <1>1, <1>2
<1>4. PICK segs : segs = [i \in DOMAIN Paths |-> IF Paths[i] \in names THEN <<Paths[i]>> ELSE <<>>]
    OBVIOUS
<1>5. ASSUME NEW i \in 1..n
      PROVE  segs[i] \in Seq(STRING) /\ Range(segs[i]) = {Paths[i]} \cap names
    <2>1. PICK p : p = Paths[i]
        OBVIOUS
    <2>2. p \in STRING
        BY <1>3, <2>1
    <2>3. <<p>> \in Seq(STRING) /\ Range(<<p>>) = {p}
        BY <2>2 DEF Range
    <2>4. <<>> \in Seq(STRING) /\ Range(<<>>) = {}
        BY DEF Range
    <2>5. segs[i] = IF p \in names THEN <<p>> ELSE <<>>
        BY <1>3, <1>4, <2>1
    <2> QED BY <2>1, <2>3, <2>4, <2>5
<1>6. segs \in Seq(Seq(STRING)) /\ Len(segs) = n
    <2>1. segs \in [1..n -> Seq(STRING)]
        BY <1>3, <1>4, <1>5
    <2> QED BY <2>1
<1>7. InOrder(names) = FlattenSeq(segs)
    BY <1>4 DEF InOrder
<1>8. Names = {Paths[i] : i \in 1..n}
    BY <1>3 DEF Names, Range
<1>9. CASE n = 0
    <2>1. segs = <<>>
        BY <1>6, <1>9
    <2>2. FlattenSeq(segs) = <<>>
        BY <1>6, <1>9, <2>1 DEF FlattenSeq
    <2>3. Range(<<>>) = {} /\ <<>> \in Seq(STRING)
        BY DEF Range
    <2>4. Names = {}
        BY <1>8, <1>9
    <2> QED BY <1>7, <2>2, <2>3, <2>4
<1>10. CASE n # 0
    <2> DEFINE First(k) == {Paths[i] : i \in 1..k} \cap names
               Good(k) == \E f \in [1..k -> Seq(STRING)] :
                            \A i \in 1..k : /\ f[i] = IF i = 1 THEN segs[i] ELSE f[i - 1] \o segs[i]
                                            /\ Range(f[i]) = First(i)
    <2>1. Good(1)
        <3>1. PICK f : f = [i \in 1..1 |-> segs[i]]
            OBVIOUS
        <3>2. 1 \in 1..n
            BY <1>10
        <3>3. f \in [1..1 -> Seq(STRING)]
            BY <1>5, <3>1, <3>2
        <3>4. ASSUME NEW i \in 1..1
              PROVE  f[i] = (IF i = 1 THEN segs[i] ELSE f[i - 1] \o segs[i]) /\ Range(f[i]) = First(i)
            <4>1. i = 1 /\ f[1] = segs[1]
                BY <3>1
            <4>2. First(1) = {Paths[1]} \cap names
                OBVIOUS
            <4> QED BY <1>5, <3>2, <4>1, <4>2
        <3> QED BY <3>3, <3>4
    <2>2. ASSUME NEW k \in 1..n, k # 1, Good(k - 1) PROVE Good(k)
        <3>1. PICK f \in [1..k - 1 -> Seq(STRING)] :
                 \A i \in 1..k - 1 : /\ f[i] = IF i = 1 THEN segs[i] ELSE f[i - 1] \o segs[i]
                                     /\ Range(f[i]) = First(i)
            BY <2>2
        <3>2. k \in Nat /\ k > 1 /\ k - 1 \in 1..k - 1
            BY <2>2
        <3>3. PICK s : s = f[k - 1] \o segs[k]
            OBVIOUS
        <3>4. f[k - 1] \in Seq(STRING) /\ Range(f[k - 1]) = First(k - 1)
            BY <3>1, <3>2
        <3>5. s \in Seq(STRING) /\ Range(s) = First(k - 1) \cup ({Paths[k]} \cap names)
            BY <1>5, <3>3, <3>4, RangeConcat
        <3>6. First(k) = First(k - 1) \cup ({Paths[k]} \cap names)
            <4>1. 1..k = (1..k - 1) \cup {k}
                BY <3>2
            <4> QED BY <4>1
        <3>7. PICK h : h = [i \in 1..k |-> IF i = k THEN s ELSE f[i]]
            OBVIOUS
        <3>8. \A i \in 1..k : i # k => i \in 1..k - 1
            BY <3>2
        <3>9. h \in [1..k -> Seq(STRING)]
            BY <3>1, <3>5, <3>7, <3>8
        <3>10. ASSUME NEW i \in 1..k
               PROVE  h[i] = (IF i = 1 THEN segs[i] ELSE h[i - 1] \o segs[i]) /\ Range(h[i]) = First(i)
            <4>1. CASE i = k
                <5>1. i # 1 /\ k - 1 \in 1..k /\ k - 1 # k
                    BY <3>2, <4>1
                <5>2. h[k] = s /\ h[k - 1] = f[k - 1]
                    BY <3>7, <5>1
                <5>3. h[k] = h[k - 1] \o segs[k]
                    BY <3>3, <5>2
                <5>4. Range(h[k]) = First(k)
                    BY <3>5, <3>6, <5>2
                <5> HIDE DEF First
                <5> QED BY <4>1, <5>1, <5>3, <5>4
            <4>2. CASE i # k
                <5>1. i \in 1..k - 1 /\ h[i] = f[i]
                    BY <3>7, <3>8, <4>2
                <5>2. i # 1 => h[i - 1] = f[i - 1]
                    <6> HAVE i # 1
                    <6>1. i - 1 \in 1..k /\ i - 1 # k
                        BY <3>2, <5>1
                    <6> QED BY <3>7, <6>1
                <5> QED BY <3>1, <5>1, <5>2
            <4> QED BY <4>1, <4>2
        <3> QED BY <3>9, <3>10
    <2> HIDE DEF Good
    <2>3. PICK D : D = {k \in 1..n : ~Good(k)}
        OBVIOUS
    <2>4. D = {}
        <3> SUFFICES ASSUME D # {} PROVE FALSE
            OBVIOUS
        <3>1. D \subseteq Nat
            BY <2>3
        <3>2. PICK x \in D : \A y \in D : x <= y
            BY <3>1, LeastElement
        <3>3. x \in 1..n /\ ~Good(x)
            BY <2>3
        <3>4. x # 1
            BY <2>1, <3>3
        <3>5. x - 1 \in 1..n /\ ~(x <= x - 1)
            BY <3>3, <3>4
        <3>6. Good(x - 1)
            BY <2>3, <3>2, <3>5
        <3> QED BY <2>2, <3>3, <3>4, <3>6
    <2>5. n \in 1..n
        BY <1>10
    <2>6. Good(n)
        BY <2>3, <2>4, <2>5
    <2>7. PICK f \in [1..n -> Seq(STRING)] :
             \A i \in 1..n : /\ f[i] = IF i = 1 THEN segs[i] ELSE f[i - 1] \o segs[i]
                             /\ Range(f[i]) = First(i)
        BY <2>6 DEF Good
    <2>8. Put(segs, f)
        <3>1. PICK h : h = [i \in 1..n |-> IF i = 1 THEN segs[i] ELSE f[i - 1] \o segs[i]]
            OBVIOUS
        <3>2. \A i \in 1..n : f[i] = h[i]
            BY <2>7, <3>1
        <3>3. f = [i \in 1..n |-> f[i]] /\ h = [i \in 1..n |-> h[i]]
            BY <3>1
        <3>4. f = h
            BY <3>2, <3>3
        <3> QED BY <1>6, <3>1, <3>4 DEF Put
    <2>9. PICK g : g = CHOOSE h : Put(segs, h)
        OBVIOUS
    <2>10. Put(segs, g)
        BY <2>8, <2>9
    <2>11. g[n] = f[n]
        <3>1. Len(segs) \in Nat /\ n \in 1..Len(segs)
            BY <1>6, <2>5
        <3> QED BY <2>8, <2>10, <3>1, PutOnce
    <2>12. FlattenSeq(segs) = g[n]
        BY <1>6, <1>10, <2>9 DEF FlattenSeq, Put
    <2>13. f[n] \in Seq(STRING) /\ Range(f[n]) = First(n)
        BY <2>5, <2>7
    <2>14. First(n) = names \cap Names
        BY <1>8
    <2> QED BY <1>7, <2>11, <2>12, <2>13, <2>14
<1> QED BY <1>9, <1>10

\* A listing from the start has the files that exist.
LEMMA ListingIs ==
    ASSUME TRUE
    PROVE  /\ Listing \in Seq(STRING)
           /\ Range(Listing) = {p \in Names : Exists(p)}
<1>1. PICK A, B : A = {p \in Names : file[p].stored} /\ B = {p \in Names : file[p].cached /\ ~file[p].stored}
    OBVIOUS
<1>2. PICK s, u : s = InOrder(A) /\ u = InOrder(B)
    OBVIOUS
<1>3. s \in Seq(STRING) /\ u \in Seq(STRING) /\ Range(s) = A /\ Range(u) = B
    BY <1>1, <1>2, InOrderIs
<1>4. Listing = s \o u
    BY <1>1, <1>2 DEF Listing, Stored
<1>5. s \o u \in Seq(STRING) /\ Range(s \o u) = A \cup B
    BY <1>3, RangeConcat
<1>6. A \cup B = {p \in Names : Exists(p)}
    BY <1>1 DEF Exists
<1> QED BY <1>4, <1>5, <1>6

LEMMA HandleGetdentsStep ==
    ASSUME InterceptInv, NEW w \in Threads, HandleGetdentsRequest(w)
    PROVE  InterceptInv'
<1>1. requests[w] # <<>> /\ Req(w).op = "getdents"
    BY DEF HandleGetdentsRequest, Begin
<1>2. LibSame /\ UNCHANGED <<thread, mine>>
    BY DEF HandleGetdentsRequest, LibSame, lib, rest, client
<1>3. wrong = {}
    BY DEF InterceptInv
<1>4. PICK r, names : r = Req(w) /\ names = SubSeq(Listing, r.n + 1, Len(Listing))
    OBVIOUS
<1>5. Req(w).op \notin OpenOps
    BY <1>1 DEF OpenOps
<1>6. CASE /\ Respond(w, Data(names))
           /\ Judge(w, r.n = 0 => Range(names) = {p \in Names : Exists(p)}, {OddFd(r.fd)})
           /\ UNCHANGED odd
    <2>1. r.n = 0 => Range(names) = {p \in Names : Exists(p)}
        <3> HAVE r.n = 0
        <3>1. PICK l : l = Listing
            OBVIOUS
        <3>2. l \in Seq(STRING) /\ Range(l) = {p \in Names : Exists(p)}
            BY <3>1, ListingIs
        <3>3. names = SubSeq(l, 1, Len(l))
            <4>1. r.n + 1 = 1
                OBVIOUS
            <4> QED BY <1>4, <3>1, <4>1
        <3>4. names = l
            BY <3>2, <3>3, SubSeqFull
        <3> QED BY <3>2, <3>4
    <2>2. wrong' = {}
        BY <1>3, <1>6, <2>1 DEF Judge
    <2>3. Sent(w, Data(names)) /\ IsAnswer(Req(w).op, Data(names))
        <3>1. Req(w).op # "read"
            BY <1>1
        <3> QED BY <1>6, <3>1, AnswersAre DEF Respond
    <2> QED BY <1>1, <1>2, <1>5, <1>6, <2>2, <2>3, AnsweredStep
<1>7. CASE Respond(w, Ret(0)) /\ odd' = odd \cup {OddFd(r.fd)} /\ UNCHANGED wrong
    <2>1. Sent(w, Ret(0)) /\ IsAnswer(Req(w).op, Ret(0))
        BY <1>7, AnswersAre DEF Respond
    <2>2. odd \subseteq odd' /\ wrong' = {}
        BY <1>3, <1>7
    <2> QED BY <1>1, <1>2, <1>5, <2>1, <2>2, AnsweredStep
<1> QED BY <1>4, <1>6, <1>7 DEF HandleGetdentsRequest

-----------------------------------------------------------------------------
(* A call on a descriptor.                                                 *)
LEMMA RefusedStep ==
    ASSUME InterceptInv, NEW w \in Threads, requests[w] # <<>> \/ work[w].at # "idle",
           Req(w).fd \in DOMAIN pseudo, ~Known(Req(w).fd), Req(w).op \notin OpenOps,
           NEW a, IsAnswer(Req(w).op, a), Sent(w, a), Judge(w, FALSE, Oddities(Req(w).fd)),
           UNCHANGED <<thread, mine>>, LibSame, odd \subseteq odd'
    PROVE  InterceptInv'
<1>1. OddFd(Req(w).fd) \in odd
    BY DEF InterceptInv, DataInv, Tables, Marked
<1>2. wrong' = {}
    BY <1>1 DEF Judge, Oddities, InterceptInv
<1> QED BY <1>2, AnsweredStep

\* What is excused is not judged.
LEMMA ExcusedOdd ==
    ASSUME NEW fd \in DOMAIN pseudo, Excused(fd, pseudo, odd)
    PROVE  Oddities(fd) \cap odd # {}
BY DEF Excused, Oddities

\* Another handler in the way of w has met a deviation.
LEMMA OthersExcused ==
    ASSUME Wire, Uses, Tables, Handlers, Conflicts, NEW w \in Threads, InIo(w),
           NEW v \in Threads, v # w, InIo(v)
    PROVE  /\ work[v].req.fd = work[w].req.fd => Excused(work[v].req.fd, pseudo, odd)
           /\ (/\ pseudo[work[v].req.fd].path = pseudo[work[w].req.fd].path
               /\ work[w].req.op = "write" /\ work[v].at = "parts")
                 => Excused(work[v].req.fd, pseudo, odd)
<1>1. \/ Marked(work[v].req.fd) /\ Marked(work[w].req.fd)
      \/ /\ work[v].req.fd # work[w].req.fd
         /\ pseudo[work[v].req.fd].path = pseudo[work[w].req.fd].path =>
               \/ "write" \notin {work[v].req.op, work[w].req.op}
               \/ work[v].req.n < BlockSize /\ work[w].req.n < BlockSize
    BY DEF Conflicts
<1>2. work[v].at = "parts" => ~(work[v].req.n < BlockSize)
    <2> HAVE work[v].at = "parts"
    <2>1. work[v].req.n >= BlockSize
        BY DEF Handlers, IoOk
    <2>2. work[v].req.n \in Int /\ BlockSize \in Int
        BY IoCall, InterceptAssumption
    <2> QED BY <2>1, <2>2
<1>3. Marked(work[v].req.fd) => Excused(work[v].req.fd, pseudo, odd)
    BY DEF Marked, Excused
<1> QED BY <1>1, <1>2, <1>3

\* The offset of the descriptor of w moves, and its file is written if it writes.
LEMMA ActedHandlers ==
    ASSUME Wire, Uses, Tables, Handlers, Conflicts, NEW w \in Threads, InIo(w), Steady,
           odd' = odd, SamePaths,
           work'[w] = Idle \/ IoOk(work'[w], w, pseudo', file', odd'),
           \A v \in Threads \ {w} : work'[v] = work[v],
           \A g \in DOMAIN pseudo : g # work[w].req.fd => pseudo'[g].pos = pseudo[g].pos,
           \A q \in Names : \/ file'[q].bytes = file[q].bytes
                            \/ work[w].req.op = "write" /\ q = pseudo[work[w].req.fd].path
    PROVE  Handlers'
<1> SUFFICES ASSUME NEW v \in Threads, v # w, InIo(v)
             PROVE  \/ Excused(work[v].req.fd, pseudo', odd')
                    \/ /\ pseudo'[work[v].req.fd].pos = pseudo[work[v].req.fd].pos
                       /\ work[v].at = "parts" =>
                             file'[pseudo[work[v].req.fd].path].bytes = file[pseudo[work[v].req.fd].path].bytes
    BY HandlersKept
<1>1. PICK fd, p : fd = work[v].req.fd /\ p = pseudo[fd].path
    OBVIOUS
<1>2. fd \in DOMAIN pseudo /\ p \in Names
    BY <1>1, IoCall
<1>3. Excused(fd, pseudo, odd) => Excused(fd, pseudo', odd')
    BY <1>2 DEF Excused, SamePaths
<1>4. CASE Excused(fd, pseudo, odd)
    BY <1>1, <1>3, <1>4
<1>5. CASE ~Excused(fd, pseudo, odd)
    <2>1. fd # work[w].req.fd
        BY <1>1, <1>5, OthersExcused
    <2>2. work[v].at = "parts" => ~(p = pseudo[work[w].req.fd].path /\ work[w].req.op = "write")
        BY <1>1, <1>5, OthersExcused
    <2> QED BY <1>1, <1>2, <2>1, <2>2
<1> QED BY <1>4, <1>5

\* A file that is open and dirty is sound.
LEMMA WrittenFiles ==
    ASSUME DataInv, NEW p \in Names, IsOpen(p), SamePaths, odd' = odd,
           DOMAIN file' = Names, \A q \in Names \ {p} : file'[q] = file[q],
           DOMAIN file'[p] = DOMAIN file[p], file'[p].bytes \in Seq(Bytes), file'[p].dirty
    PROVE  Files'
<1>1. \A q : IsOpen(q)' <=> IsOpen(q)
    BY IsOpenKept
<1>2. DOMAIN file[p] = {"bytes", "stored", "cached", "dirty"}
    BY DEF DataInv, Files
<1> QED BY <1>1, <1>2 DEF DataInv, Files

LEMMA SameFiles ==
    ASSUME DataInv, SamePaths, odd \subseteq odd', UNCHANGED file
    PROVE  Files'
<1>1. \A q : IsOpen(q)' <=> IsOpen(q)
    BY IsOpenKept
<1> QED BY <1>1 DEF DataInv, Files

LEMMA IoBeginStep ==
    ASSUME InterceptInv, NEW w \in Threads, IoBegin(w)
    PROVE  InterceptInv'
<1>1. Wire /\ Process /\ FdsInv /\ Tables /\ wrong = {} /\ DataInv /\ Uses /\ Handlers /\ Conflicts /\ Offsets
    BY DEF InterceptInv, DataInv, FdsInv
<1>2. PICK r : r = Req(w)
    OBVIOUS
<1>3. requests[w] # <<>> /\ r.op \in IoOps /\ work[w].at = "idle"
    BY <1>2 DEF IoBegin, Begin, IoOps
<1>4. PICK fd : fd = r.fd
    OBVIOUS
<1>5. /\ fd \in mine /\ fd \in DOMAIN pseudo /\ pseudo[fd].path \in Names
      /\ r.n \in Nat
    BY <1>1, <1>2, <1>3, <1>4, OffsetCall DEF OffsetOps, IoOps
<1>6. LibSame /\ UNCHANGED <<thread, mine>>
    BY DEF IoBegin, LibSame, lib, rest, client
<1>7. CASE /\ ~Known(r.fd)
           /\ Respond(w, Ret(-5))
           /\ Judge(w, FALSE, Oddities(r.fd))
           /\ UNCHANGED odd
    <2>1. IsAnswer(Req(w).op, Ret(-5)) /\ Sent(w, Ret(-5)) /\ Req(w).op \notin OpenOps
        BY <1>2, <1>3, <1>7, AnswersAre DEF Respond, IoOps, OpenOps
    <2> QED BY <1>2, <1>3, <1>4, <1>5, <1>6, <1>7, <2>1, RefusedStep
<1>8. CASE /\ Known(r.fd)
           /\ Continue(w, [Taken(w) EXCEPT !.at = IF r.n >= BlockSize THEN "parts" ELSE "io",
                                           !.off = fdtofile[r.fd].off])
           /\ odd' = odd \cup {OddFd(Req(v).fd) : v \in Overlap(w)}
                         \cup (IF Overlap(w) # {} THEN {OddFd(r.fd)} ELSE {})
           /\ UNCHANGED <<responses, wrong>>
    <2>1. PICK k : k = Taken(w)
        OBVIOUS
    <2>2. /\ DOMAIN k = {"req", "by", "seq", "at", "off", "got"} /\ k.req = r
          /\ Tail(requests[w]) = <<>> /\ r = requests[w][1].req /\ work[w] = Idle
        BY <1>1, <1>2, <1>3, <2>1, Underway, IdleIs
    <2>3. k.got = <<>>
        <3>1. PICK m : m = Head(requests[w])
            OBVIOUS
        <3>2. PICK i : i = Idle
            OBVIOUS
        <3>3. i.got = <<>> /\ DOMAIN i = {"req", "by", "seq", "at", "off", "got"}
            BY <3>2, IdleIs DEF Idle
        <3>4. k = [i EXCEPT !.req = m.req, !.by = m.by, !.seq = m.seq]
            BY <1>3, <2>1, <3>1, <3>2 DEF Taken, Accepted
        <3> QED BY <3>3, <3>4
    <2>4. PICK at, off : at = (IF r.n >= BlockSize THEN "parts" ELSE "io") /\ off = fdtofile[fd].off
        OBVIOUS
    <2>5. PICK h : h = [k EXCEPT !.at = at, !.off = off]
        OBVIOUS
    <2>6. /\ DOMAIN h = DOMAIN k /\ h.at = at /\ h.off = off /\ h.req = r /\ h.by = k.by /\ h.seq = k.seq
          /\ h.got = <<>>
        BY <2>2, <2>3, <2>5
    <2>7. work' = [work EXCEPT ![w] = h] /\ requests' = [requests EXCEPT ![w] = <<>>]
        BY <1>4, <1>8, <2>1, <2>2, <2>4, <2>5 DEF Continue
    <2>8. Updated(requests', requests, w, <<>>) /\ Updated(work', work, w, h)
        BY <1>1, <2>7 DEF Updated, Wire
    <2>9. at \in {"io", "parts"}
        BY <2>4
    <2>10. Wire' /\ Process'
        <3>1. h.at # "idle" /\ DOMAIN h = DOMAIN Idle
            BY <2>2, <2>6, <2>9, IdleIs
        <3>2. h.req = Taken(w).req /\ h.by = Taken(w).by /\ h.seq = Taken(w).seq
            BY <2>1, <2>2, <2>6
        <3> QED BY <1>1, <1>3, <1>6, <1>8, <2>8, <3>1, <3>2, WorkingWire
    <2>11. SamePaths /\ odd \subseteq odd' /\ wrong' = {}
        BY <1>1, <1>6, <1>8 DEF SamePaths, LibSame
    <2>12. work'[w] = h /\ \A v \in Threads \ {w} : work'[v] = work[v] /\ requests'[v] = requests[v]
        BY <1>1, <2>8 DEF Updated, Wire
    <2>13. FdsInv'
        <3>1. \A v \in Threads :
                 /\ thread'[v].st = thread[v].st /\ thread'[v].call = thread[v].call
                 /\ requests'[v] \in {requests[v], <<>>}
                 /\ responses'[v] \in {responses[v], <<>>}
                 /\ \/ work'[v] \in {work[v], Idle}
                    \/ requests[v] # <<>> /\ work'[v].req = requests[v][1].req
            BY <1>3, <1>6, <1>8, <2>2, <2>6, <2>8, <2>12 DEF Updated
        <3> QED BY <1>1, <1>6, <2>11, <3>1, QuietFds
    <2>14. Tables'
        <3>1. \A g : Known(g)' <=> Known(g)
            BY <1>6 DEF Known, LibSame
        <3> QED BY <1>1, <1>6, <2>11, <3>1 DEF Tables, Marked, LibSame
    <2>15. Files'
        BY <1>1, <1>6, <2>11, SameFiles DEF LibSame
    <2>16. Offsets'
        BY <1>1, <1>6, <2>11 DEF Offsets, Excused, LibSame
    <2>17. Steady
        BY <1>1, <1>6, <2>11 DEF Steady, LibSame, Tables
    <2>18. Handlers'
        <3>1. IoOk(h, w, pseudo', file', odd')
            <4>1. off \in Nat /\ (Excused(fd, pseudo, odd') \/ off = pseudo[fd].pos)
                <5>1. fd \in DOMAIN fdtofile
                    BY <1>4, <1>8 DEF Known
                <5>2. Excused(fd, pseudo, odd) \/ fdtofile[fd].off = pseudo[fd].pos
                    BY <1>1, <1>5 DEF Offsets
                <5>3. Excused(fd, pseudo, odd) => Excused(fd, pseudo, odd')
                    BY <2>11 DEF Excused
                <5> QED BY <1>1, <2>4, <5>1, <5>2, <5>3 DEF Tables
            <4>2. DOMAIN h.got = {}
                BY <2>6
            <4>3. at = "parts" => r.n >= BlockSize
                BY <2>4
            <4>4. h.req.fd = fd
                BY <1>4, <2>6
            <4>5. pseudo' = pseudo
                BY <1>6 DEF LibSame
            <4> QED BY <1>3, <2>6, <2>9, <4>1, <4>2, <4>3, <4>4, <4>5 DEF IoOk
        <3>2. \A v \in Threads : v # w => work'[v] = work[v] /\ pseudo' = pseudo /\ file' = file
            BY <1>6, <2>12 DEF LibSame
        <3> QED BY <1>1, <2>12, <2>17, <3>1, <3>2, HandlersKept
    <2>19. Conflicts'
        <3>1. ASSUME NEW v \in Threads, v # w, InIo(v)
              PROVE  \/ OddFd(work[v].req.fd) \in odd' /\ OddFd(fd) \in odd'
                     \/ /\ work[v].req.fd # fd
                        /\ pseudo[work[v].req.fd].path = pseudo[fd].path =>
                              \/ "write" \notin {work[v].req.op, r.op}
                              \/ work[v].req.n < BlockSize /\ r.n < BlockSize
            <4>1. Req(v) = work[v].req /\ work[v].req.fd \in DOMAIN pseudo /\ work[v].req.n \in Nat
                BY <1>1, <3>1, IoCall
            <4>2. CASE v \in Overlap(w)
                <5>1. OddFd(Req(v).fd) \in odd'
                    BY <1>8, <4>2
                <5>2. OddFd(fd) \in odd'
                    BY <1>4, <1>8, <4>2
                <5> QED BY <4>1, <5>1, <5>2
            <4>3. CASE v \notin Overlap(w)
                <5>1. ~(\/ Req(v).fd = Req(w).fd
                        \/ /\ pseudo[Req(v).fd].path = pseudo[Req(w).fd].path
                           /\ "write" \in {Req(v).op, Req(w).op}
                           /\ Req(v).n >= BlockSize \/ Req(w).n >= BlockSize)
                    BY <3>1, <4>1, <4>3 DEF Overlap, InIo
                <5>2. BlockSize \in Int /\ r.n \in Int /\ work[v].req.n \in Int
                    BY <1>5, <4>1, InterceptAssumption
                <5> QED BY <1>2, <1>4, <4>1, <5>1, <5>2
            <4> QED BY <4>2, <4>3
        <3> SUFFICES ASSUME NEW v \in Threads, NEW u \in Threads, v # u, InIo(v)', InIo(u)'
                     PROVE  \/ OddFd(work'[v].req.fd) \in odd' /\ OddFd(work'[u].req.fd) \in odd'
                            \/ /\ work'[v].req.fd # work'[u].req.fd
                               /\ pseudo'[work'[v].req.fd].path = pseudo'[work'[u].req.fd].path =>
                                     \/ "write" \notin {work'[v].req.op, work'[u].req.op}
                                     \/ work'[v].req.n < BlockSize /\ work'[u].req.n < BlockSize
            BY DEF Conflicts, Marked
        <3>2. work'[w].req = r /\ r.fd = fd /\ pseudo' = pseudo
            BY <1>4, <1>6, <2>6, <2>12 DEF LibSame
        <3>3. CASE u = w
            <4>1. v # w /\ work'[v] = work[v] /\ InIo(v)
                BY <2>12, <3>3 DEF InIo
            <4> QED BY <3>1, <3>2, <3>3, <4>1
        <3>4. CASE v = w
            <4>1. u # w /\ work'[u] = work[u] /\ InIo(u)
                BY <2>12, <3>4 DEF InIo
            <4> QED BY <3>1, <3>2, <3>4, <4>1
        <3>5. CASE u # w /\ v # w
            <4>1. work'[u] = work[u] /\ work'[v] = work[v] /\ InIo(u) /\ InIo(v)
                BY <2>12, <3>5 DEF InIo
            <4>2. \/ Marked(work[v].req.fd) /\ Marked(work[u].req.fd)
                  \/ /\ work[v].req.fd # work[u].req.fd
                     /\ pseudo[work[v].req.fd].path = pseudo[work[u].req.fd].path =>
                           \/ "write" \notin {work[v].req.op, work[u].req.op}
                           \/ work[v].req.n < BlockSize /\ work[u].req.n < BlockSize
                BY <1>1, <4>1 DEF Conflicts
            <4> QED BY <2>11, <3>2, <4>1, <4>2 DEF Marked
        <3> QED BY <3>3, <3>4, <3>5
    <2> QED BY <2>10, <2>11, <2>13, <2>14, <2>15, <2>16, <2>18, <2>19 DEF InterceptInv, DataInv
<1> QED BY <1>2, <1>7, <1>8 DEF IoBegin

-----------------------------------------------------------------------------
(* The handler of a read or a write.                                       *)
LEMMA ReadIs ==
    ASSUME Files, NEW p \in Names, NEW off \in Nat, NEW n \in Nat
    PROVE  /\ ReadAt(p, off, n) = Slice(file[p].bytes, off, n) /\ Len(ReadAt(p, off, n)) \in Nat
           /\ ReadAt(p, off, n) \in Seq(Bytes)
<1>1. file[p].bytes \in Seq(Bytes)
    BY DEF Files
<1>2. ReadAt(p, off, n) = Slice(file[p].bytes, off, n)
    BY DEF ReadAt, Slice
<1> QED BY <1>1, <1>2, SliceIs

LEMMA IoStep ==
    ASSUME InterceptInv, NEW w \in Threads, Io(w)
    PROVE  InterceptInv'
<1>1. /\ Wire /\ Process /\ FdsInv /\ Tables /\ wrong = {} /\ DataInv /\ Uses /\ Handlers /\ Conflicts
      /\ Offsets /\ Files
    BY DEF InterceptInv, DataInv, FdsInv
<1>2. PICK r, fd, p, pos : r = Req(w) /\ fd = r.fd /\ p = pseudo[fd].path /\ pos = pseudo[fd].pos
    OBVIOUS
<1>3. work[w].at = "io" /\ InIo(w) /\ work[w].at # "idle"
    BY DEF Io, InIo
<1>4. /\ fd \in mine /\ fd \in DOMAIN pseudo /\ p \in Names /\ r.op \in IoOps /\ r.n \in Nat
      /\ r = work[w].req /\ work[w].by = w
    BY <1>1, <1>2, <1>3, IoCall
<1>5. UNCHANGED <<thread, mine, g_fdtofile, odd>>
    BY DEF Io, rest, client
<1>6. r.op \notin OpenOps
    BY <1>4 DEF IoOps, OpenOps
<1>7. PICK off : off = work[w].off
    OBVIOUS
<1>8. off \in Nat /\ (Excused(fd, pseudo, odd) \/ off = pos)
    BY <1>1, <1>2, <1>3, <1>4, <1>7 DEF Handlers, IoOk
<1>9. pos \in Nat
    BY <1>1, <1>2, <1>4 DEF Tables
<1>10. Excused(fd, pseudo, odd) => Oddities(fd) \cap odd # {}
    BY <1>4, ExcusedOdd
<1>11. CASE ~Known(fd)
    <2>1. Respond(w, Ret(-5)) /\ Judge(w, FALSE, Oddities(fd)) /\ UNCHANGED lib
        BY <1>2, <1>11 DEF Io
    <2>2. IsAnswer(Req(w).op, Ret(-5)) /\ Sent(w, Ret(-5)) /\ LibSame
        BY <1>5, <2>1, AnswersAre DEF Respond, LibSame, lib
    <2> QED BY <1>2, <1>3, <1>4, <1>5, <1>6, <1>11, <2>1, <2>2, RefusedStep
<1>12. CASE Known(fd)
    <2>1. PICK now : now = fdtofile[fd].off
        OBVIOUS
    <2>2. now \in Nat /\ (Excused(fd, pseudo, odd) \/ now = pos)
        BY <1>1, <1>2, <1>4, <1>12, <2>1 DEF Tables, Offsets, Known
    \* Both kinds move the offset by what they did.
    <2>3. ASSUME NEW a \in Nat, NEW b \in Nat, Excused(fd, pseudo, odd) \/ a = b,
                 fdtofile' = [fdtofile EXCEPT ![fd].off = now + a],
                 pseudo' = [pseudo EXCEPT ![fd].pos = pos + b],
                 NEW ans, IsAnswer(Req(w).op, ans), Sent(w, ans), wrong' = {},
                 \/ UNCHANGED file
                 \/ r.op = "write" /\ file' = WrittenAt(p, off, r.n, w)
          PROVE  InterceptInv'
        <3>1. PICK x, y : x = now + a /\ y = pos + b
            OBVIOUS
        <3>2. x \in Nat /\ y \in Nat /\ (Excused(fd, pseudo, odd) \/ x = y)
            BY <1>9, <2>2, <2>3, <3>1
        <3>3. Moved(fd, x, y)
            <4>1. fdtofile' = [fdtofile EXCEPT ![fd].off = x] /\ pseudo' = [pseudo EXCEPT ![fd].pos = y]
                BY <2>3, <3>1
            <4> QED BY <1>1, <1>4, <1>12, <4>1, MovedIs
        <3>4. Tables' /\ Offsets' /\ Steady /\ SamePaths
            BY <1>1, <1>4, <1>5, <1>12, <3>2, <3>3, MovedTables
        <3>5. /\ Wire' /\ Process' /\ FdsInv'
              /\ work'[w] = Idle /\ \A v \in Threads \ {w} : work'[v] = work[v]
            BY <1>2, <1>3, <1>5, <1>6, <2>3, <3>4, AnsweredFds
        <3>6. Conflicts'
            <4>1. \A v \in Threads : InIo(v)' => InIo(v) /\ work'[v].req = work[v].req
                BY <3>5, IdleIs DEF InIo
            <4> QED BY <1>1, <3>4, <4>1, ConflictsKept
        <3>7. Files' /\ \A q \in Names : \/ file'[q].bytes = file[q].bytes
                                         \/ work[w].req.op = "write" /\ q = pseudo[work[w].req.fd].path
            <4>1. CASE UNCHANGED file
                BY <1>1, <1>5, <3>4, <4>1, SameFiles
            <4>2. CASE r.op = "write" /\ file' = WrittenAt(p, off, r.n, w)
                <5>1. /\ DOMAIN file' = Names /\ \A q \in Names \ {p} : file'[q] = file[q]
                      /\ DOMAIN file'[p] = DOMAIN file[p] /\ file'[p].bytes \in Seq(Bytes) /\ file'[p].dirty
                    <6>1. Wrote(file, file', p, off, r.n, w)
                        BY <1>1, <1>4, <1>8, <4>2, WrittenIs
                    <6> QED BY <6>1 DEF Wrote
                <5>2. IsOpen(p)
                    BY <1>2, <1>4 DEF IsOpen
                <5>3. Files'
                    BY <1>1, <1>4, <1>5, <3>4, <5>1, <5>2, WrittenFiles
                <5>4. work[w].req.op = "write" /\ p = pseudo[work[w].req.fd].path
                    BY <1>2, <1>4, <4>2
                <5>5. \A q \in Names \ {p} : file'[q].bytes = file[q].bytes
                    BY <5>1
                <5> QED BY <5>3, <5>4, <5>5
            <4> QED BY <2>3, <4>1, <4>2
        <3>8. Handlers'
            <4>1. \A g \in DOMAIN pseudo : g # work[w].req.fd => pseudo'[g].pos = pseudo[g].pos
                BY <1>2, <1>4, <3>3 DEF Moved
            <4> QED BY <1>1, <1>3, <1>5, <3>4, <3>5, <3>7, <4>1, ActedHandlers
        <3> QED BY <2>3, <3>4, <3>5, <3>6, <3>7, <3>8 DEF InterceptInv, DataInv
    <2>4. CASE r.op = "read"
        <3>1. PICK a, b : a = Len(ReadAt(p, off, r.n)) /\ b = Len(ReadAt(p, pos, r.n))
            OBVIOUS
        <3>2. a \in Nat /\ b \in Nat /\ (Excused(fd, pseudo, odd) \/ a = b)
            BY <1>1, <1>4, <1>8, <1>9, <3>1, ReadIs
        <3>3. /\ fdtofile' = MoveOffset(fd, a)
              /\ pseudo' = [pseudo EXCEPT ![fd].pos = @ + Len(ReadAt(p, @, r.n))]
              /\ Respond(w, Data(ReadAt(p, off, r.n)))
              /\ Judge(w, ReadAt(p, off, r.n) = ReadAt(p, pos, r.n), Oddities(fd))
              /\ UNCHANGED file
            BY <1>2, <1>7, <1>12, <2>4, <3>1 DEF Io
        <3>4. fdtofile' = [fdtofile EXCEPT ![fd].off = now + a]
            BY <2>1, <3>3 DEF MoveOffset
        <3>5. pseudo' = [pseudo EXCEPT ![fd].pos = pos + b]
            BY <1>2, <3>1, <3>3
        <3>6. wrong' = {}
            BY <1>1, <1>8, <1>10, <3>3 DEF Judge
        <3>7. PICK ans : ans = Data(ReadAt(p, off, r.n))
            OBVIOUS
        <3>8. IsAnswer(Req(w).op, ans) /\ Sent(w, ans)
            <4>1. ReadAt(p, off, r.n) \in Seq(Bytes)
                BY <1>1, <1>4, <1>8, ReadIs
            <4> QED BY <3>3, <3>7, <4>1, AnswersAre DEF Respond
        <3> QED BY <2>3, <3>2, <3>3, <3>4, <3>5, <3>6, <3>8
    <2>5. CASE r.op = "write"
        <3>1. /\ file' = WrittenAt(p, off, r.n, w)
              /\ fdtofile' = MoveOffset(fd, r.n)
              /\ pseudo' = [pseudo EXCEPT ![fd].pos = @ + r.n]
              /\ Respond(w, Ret(r.n))
              /\ Judge(w, off = pos, Oddities(fd))
            BY <1>2, <1>4, <1>7, <1>12, <2>5 DEF Io
        <3>2. fdtofile' = [fdtofile EXCEPT ![fd].off = now + r.n]
            BY <2>1, <3>1 DEF MoveOffset
        <3>3. pseudo' = [pseudo EXCEPT ![fd].pos = pos + r.n]
            BY <1>2, <3>1
        <3>4. wrong' = {}
            BY <1>1, <1>8, <1>10, <3>1 DEF Judge
        <3>5. PICK ans : ans = Ret(r.n)
            OBVIOUS
        <3>6. IsAnswer(Req(w).op, ans) /\ Sent(w, ans)
            BY <3>1, <3>5, AnswersAre DEF Respond
        <3> QED BY <1>4, <2>3, <2>5, <3>1, <3>2, <3>3, <3>4, <3>6
    <2> QED BY <1>4, <2>4, <2>5 DEF IoOps
<1> QED BY <1>11, <1>12

-----------------------------------------------------------------------------
(* A part of a split call.                                                 *)
LEMMA IoPartStep ==
    ASSUME InterceptInv, NEW w \in Threads, NEW i \in 1..Parts, IoPart(w, i)
    PROVE  InterceptInv'
<1>1. /\ Wire /\ Process /\ FdsInv /\ Tables /\ wrong = {} /\ DataInv /\ Uses /\ Handlers /\ Conflicts
      /\ Offsets /\ Files
    BY DEF InterceptInv, DataInv, FdsInv
<1>2. PICK r, fd, p, pos : r = Req(w) /\ fd = r.fd /\ p = pseudo[fd].path /\ pos = pseudo[fd].pos
    OBVIOUS
<1>3. work[w].at = "parts" /\ InIo(w) /\ work[w].at # "idle" /\ i \notin DOMAIN work[w].got
    BY DEF IoPart, InIo
<1>4. /\ fd \in mine /\ fd \in DOMAIN pseudo /\ p \in Names /\ r.op \in IoOps /\ r.n \in Nat
      /\ r = work[w].req /\ work[w].by = w /\ Taken(w) = work[w]
    BY <1>1, <1>2, <1>3, IoCall
<1>5. UNCHANGED <<thread, mine, g_fdtofile, odd, requests, responses, fdtofile, pseudo, wrong>>
    BY DEF IoPart, rest, client, ghost
<1>6. PICK s, l : s = PartStart(i, r.n) /\ l = PartLen(i, r.n)
    OBVIOUS
<1>7. s \in Nat /\ l \in Nat
    BY <1>4, <1>6, CutIs
<1>8. pos \in Nat
    BY <1>1, <1>2, <1>4 DEF Tables
<1>9. SamePaths
    BY <1>5 DEF SamePaths
<1>10. Steady
    BY <1>1, <1>5, <1>9 DEF Steady, SamePaths, Tables
<1>11. PICK k, got : k = work[w] /\ got = work[w].got
    OBVIOUS
<1>12. /\ k.req = r /\ k.at = "parts" /\ k.got = got /\ DOMAIN k = {"req", "by", "seq", "at", "off", "got"}
       /\ requests[w] = <<>> /\ k # Idle
    BY <1>1, <1>3, <1>4, <1>11, Underway, IdleIs
<1>13. IoOk(k, w, pseudo, file, odd)
    BY <1>1, <1>11 DEF Handlers
\* Every kind records what the part did.
<1>14. ASSUME NEW g, g.ret \in Int, g.data \in Seq(Bytes), work' = [work EXCEPT ![w].got = With(@, i, g)],
              \/ Excused(fd, pseudo, odd)
              \/ PartDone(r, w, i, g, pos, file'[p].bytes),
              \/ UNCHANGED file
              \/ /\ r.op = "write"
                 /\ \E at \in Nat : /\ file' = WrittenAt(p, at, l, w)
                                    /\ Excused(fd, pseudo, odd) \/ at = pos + s
       PROVE  InterceptInv'
    <2>1. PICK new : new = With(got, i, g)
        OBVIOUS
    <2>2. DOMAIN new = DOMAIN got \cup {i} /\ new[i] = g /\ \A j \in DOMAIN got : new[j] = got[j]
        BY <1>3, <1>11, <2>1 DEF With
    <2>3. PICK h : h = [k EXCEPT !.got = new]
        OBVIOUS
    <2>4. /\ DOMAIN h = DOMAIN k /\ h.got = new /\ h.req = r /\ h.at = "parts"
          /\ h.by = k.by /\ h.seq = k.seq
        BY <1>12, <2>3
    <2>5. work' = [work EXCEPT ![w] = h]
        BY <1>11, <1>14, <2>1, <2>3
    <2>6. Updated(work', work, w, h) /\ Updated(requests', requests, w, <<>>)
        BY <1>1, <1>5, <1>12, <2>5 DEF Updated, Wire
    <2>7. work'[w] = h /\ \A v \in Threads \ {w} : work'[v] = work[v]
        BY <1>1, <2>6 DEF Updated, Wire
    <2>8. Wire' /\ Process'
        <3>1. DOMAIN h = DOMAIN Idle /\ h.at # "idle"
            BY <1>12, <2>4, IdleIs
        <3>2. h.req = Taken(w).req /\ h.by = Taken(w).by /\ h.seq = Taken(w).seq
            BY <1>4, <1>11, <1>12, <2>4
        <3> QED BY <1>1, <1>3, <1>5, <2>6, <3>1, <3>2, WorkingWire
    <2>9. FdsInv'
        <3>1. \A v \in Threads :
                 /\ thread'[v].st = thread[v].st /\ thread'[v].call = thread[v].call
                 /\ requests'[v] \in {requests[v], <<>>}
                 /\ responses'[v] \in {responses[v], <<>>}
                 /\ \/ work'[v] \in {work[v], Idle}
                    \/ work[v] # Idle /\ work'[v].req = work[v].req
            BY <1>5, <1>11, <1>12, <2>4, <2>7
        <3> QED BY <1>1, <1>5, <1>9, <3>1, QuietFds
    <2>10. Tables' /\ Offsets'
        <3>1. \A x : Known(x)' <=> Known(x)
            BY <1>5 DEF Known
        <3> QED BY <1>1, <1>5, <3>1 DEF Tables, Marked, Offsets, Excused
    <2>11. Conflicts'
        <3>1. \A v \in Threads : InIo(v)' => InIo(v) /\ work'[v].req = work[v].req
            BY <1>3, <1>11, <1>12, <2>4, <2>7 DEF InIo
        <3> QED BY <1>1, <1>10, <3>1, ConflictsKept
    <2>12. /\ Files' /\ \A q \in Names : \/ file'[q].bytes = file[q].bytes
                                         \/ work[w].req.op = "write" /\ q = pseudo[work[w].req.fd].path
           /\ \A x \in Nat : x \in DOMAIN file[p].bytes => x \in DOMAIN file'[p].bytes
           /\ \/ Excused(fd, pseudo, odd)
              \/ r.op = "read" => file'[p].bytes = file[p].bytes
           /\ \/ Excused(fd, pseudo, odd)
              \/ \A x \in DOMAIN file[p].bytes : file'[p].bytes[x] \in {file[p].bytes[x], w}
        <3>1. CASE UNCHANGED file
            <4>1. Files'
                BY <1>1, <1>5, <1>9, <3>1, SameFiles
            <4> QED BY <3>1, <4>1
        <3>2. CASE r.op = "write" /\ \E at \in Nat : file' = WrittenAt(p, at, l, w)
            <4>1. PICK at \in Nat : file' = WrittenAt(p, at, l, w)
                BY <3>2
            <4>2. /\ DOMAIN file' = Names /\ \A q \in Names \ {p} : file'[q] = file[q]
                  /\ DOMAIN file'[p] = DOMAIN file[p] /\ file'[p].dirty
                  /\ file'[p].bytes \in Seq(Bytes) /\ Len(file'[p].bytes) \in Nat
                  /\ Len(file[p].bytes) <= Len(file'[p].bytes)
                  /\ \A x \in 1..Len(file'[p].bytes) : x > at /\ x <= at + l => file'[p].bytes[x] = w
                  /\ \A x \in 1..Len(file[p].bytes) : ~(x > at /\ x <= at + l) => file'[p].bytes[x] = file[p].bytes[x]
                <5>1. Wrote(file, file', p, at, l, w)
                    BY <1>1, <1>4, <1>7, <4>1, WrittenIs
                <5> QED BY <5>1 DEF Wrote
            <4>3. IsOpen(p)
                BY <1>2, <1>4 DEF IsOpen
            <4>4. Files'
                BY <1>1, <1>4, <1>5, <1>9, <4>2, <4>3, WrittenFiles
            <4>5. PICK b, c : b = file[p].bytes /\ c = file'[p].bytes
                OBVIOUS
            <4>6. b \in Seq(Bytes) /\ c \in Seq(Bytes)
                BY <1>1, <1>4, <4>2, <4>5 DEF Files
            <4>7. PICK m \in Nat, n \in Nat : m = Len(b) /\ n = Len(c)
                BY <4>6
            <4>8. DOMAIN b = 1..m /\ DOMAIN c = 1..n /\ m <= n
                BY <4>2, <4>5, <4>6, <4>7
            <4>9. \A x \in 1..m : c[x] \in {b[x], w}
                <5> TAKE x \in 1..m
                <5>1. x \in 1..n
                    BY <4>8
                <5> QED BY <4>2, <4>5, <4>7, <5>1
            <4>10. \A x \in Nat : x \in 1..m => x \in 1..n
                BY <4>8
            <4>11. \A q \in Names : \/ file'[q].bytes = file[q].bytes
                                    \/ work[w].req.op = "write" /\ q = pseudo[work[w].req.fd].path
                <5>1. p = pseudo[work[w].req.fd].path /\ work[w].req.op = "write"
                    BY <1>2, <1>4, <3>2
                <5>2. \A q \in Names \ {p} : file'[q].bytes = file[q].bytes
                    BY <4>2
                <5> QED BY <5>1, <5>2
            <4>12. \A x \in Nat : x \in DOMAIN file[p].bytes => x \in DOMAIN file'[p].bytes
                BY <4>5, <4>8, <4>10
            <4>13. \A x \in DOMAIN file[p].bytes : file'[p].bytes[x] \in {file[p].bytes[x], w}
                BY <4>5, <4>8, <4>9
            <4>14. ~(r.op = "read")
                BY <3>2
            <4> QED BY <4>4, <4>11, <4>12, <4>13, <4>14
        <3> QED BY <1>14, <3>1, <3>2
    <2>13. IoOk(h, w, pseudo', file', odd')
        <3>1. /\ r.n >= BlockSize /\ DOMAIN got \subseteq 1..Parts
              /\ \A j \in DOMAIN got : got[j].ret \in Int /\ got[j].data \in Seq(Bytes)
            BY <1>12, <1>13 DEF IoOk
        <3>2. /\ DOMAIN new \subseteq 1..Parts
              /\ \A j \in DOMAIN new : new[j].ret \in Int /\ new[j].data \in Seq(Bytes)
            BY <1>14, <2>2, <3>1
        <3>3. \/ Excused(fd, pseudo, odd)
              \/ \A j \in DOMAIN new : PartDone(r, w, j, new[j], pos, file'[p].bytes)
            <4> SUFFICES ASSUME ~Excused(fd, pseudo, odd), NEW j \in DOMAIN new
                         PROVE  PartDone(r, w, j, new[j], pos, file'[p].bytes)
                OBVIOUS
            <4>1. CASE j = i
                BY <1>14, <2>2, <4>1
            <4>2. CASE j # i
                <5>1. j \in DOMAIN got /\ new[j] = got[j]
                    BY <2>2, <4>2
                <5>2. PartDone(r, w, j, got[j], pos, file[p].bytes)
                    BY <1>2, <1>12, <1>13, <5>1 DEF IoOk
                <5>3. CASE r.op = "read"
                    BY <2>12, <5>1, <5>2, <5>3
                <5>4. CASE r.op = "write"
                    <6>1. /\ got[j] = Ret(PartLen(j, r.n))
                          /\ \A x \in PartStart(j, r.n) + 1 .. PartStart(j, r.n) + PartLen(j, r.n) :
                                pos + x \in DOMAIN file[p].bytes /\ file[p].bytes[pos + x] = w
                        BY <5>2, <5>4 DEF PartDone
                    <6>2. ASSUME NEW x \in PartStart(j, r.n) + 1 .. PartStart(j, r.n) + PartLen(j, r.n)
                          PROVE  pos + x \in DOMAIN file'[p].bytes /\ file'[p].bytes[pos + x] = w
                        <7>1. PartStart(j, r.n) \in Nat /\ PartLen(j, r.n) \in Nat
                            BY <1>4, <3>2, CutIs
                        <7>2. pos + x \in Nat
                            BY <1>8, <7>1
                        <7> QED BY <2>12, <6>1, <7>2
                    <6> QED BY <5>1, <5>4, <6>1, <6>2 DEF PartDone
                <5> QED BY <1>4, <5>3, <5>4 DEF IoOps
            <4> QED BY <4>1, <4>2
        <3> QED BY <1>2, <1>4, <1>5, <2>4, <3>1, <3>2, <3>3 DEF IoOk
    <2>14. Handlers'
        <3>1. \A x \in DOMAIN pseudo : x # work[w].req.fd => pseudo'[x].pos = pseudo[x].pos
            BY <1>5
        <3> QED BY <1>1, <1>3, <1>5, <1>9, <1>10, <2>7, <2>12, <2>13, <3>1, ActedHandlers
    <2> QED BY <1>1, <1>5, <2>8, <2>9, <2>10, <2>11, <2>12, <2>14 DEF InterceptInv, DataInv
<1>15. CASE ~Known(fd)
    <2>1. work' = [work EXCEPT ![w].got = With(@, i, Ret(-5))] /\ UNCHANGED file
        BY <1>2, <1>15 DEF IoPart
    <2>2. OddFd(fd) \in odd
        BY <1>1, <1>4, <1>15 DEF Tables, Marked
    <2>3. Excused(fd, pseudo, odd)
        BY <2>2 DEF Excused
    <2>4. PICK g : g = Ret(-5)
        OBVIOUS
    <2>5. g.ret \in Int /\ g.data \in Seq(Bytes)
        <3>1. g.ret = -5 /\ g.data = <<>>
            BY <2>4, AnswersAre
        <3> QED BY <3>1
    <2> QED BY <1>14, <2>1, <2>3, <2>4, <2>5
<1>16. CASE Known(fd)
    <2>1. PICK at : at = fdtofile[fd].off + s
        OBVIOUS
    <2>2. at \in Nat /\ (Excused(fd, pseudo, odd) \/ at = pos + s) /\ fdtofile[fd].path = p
        <3>1. fd \in DOMAIN fdtofile /\ p = fdtofile[fd].path
            BY <1>2, <1>16 DEF Known
        <3>2. fdtofile[fd].off \in Nat /\ (Excused(fd, pseudo, odd) \/ fdtofile[fd].off = pos)
            BY <1>1, <1>2, <1>4, <3>1 DEF Tables, Offsets
        <3> QED BY <1>7, <2>1, <3>1, <3>2
    <2>3. CASE r.op = "read"
        <3>1. PICK g : g = Data(ReadAt(p, at, l))
            OBVIOUS
        <3>2. work' = [work EXCEPT ![w].got = With(@, i, g)] /\ UNCHANGED file
            BY <1>2, <1>6, <1>16, <2>1, <2>2, <2>3, <3>1 DEF IoPart
        <3>3. /\ ReadAt(p, at, l) = Slice(file[p].bytes, at, l) /\ Len(ReadAt(p, at, l)) \in Nat
              /\ ReadAt(p, at, l) \in Seq(Bytes)
            BY <1>1, <1>4, <1>7, <2>2, ReadIs
        <3>4. g.ret \in Int /\ g.data \in Seq(Bytes)
            BY <3>1, <3>3, AnswersAre
        <3>5. \/ Excused(fd, pseudo, odd)
              \/ PartDone(r, w, i, g, pos, file'[p].bytes)
            BY <1>6, <2>2, <2>3, <3>1, <3>2, <3>3 DEF PartDone
        <3> QED BY <1>14, <3>2, <3>4, <3>5
    <2>4. CASE r.op = "write"
        <3>1. PICK g : g = Ret(l)
            OBVIOUS
        <3>2. work' = [work EXCEPT ![w].got = With(@, i, g)] /\ file' = WrittenAt(p, at, l, w)
            BY <1>2, <1>4, <1>6, <1>16, <2>1, <2>2, <2>4, <3>1 DEF IoPart
        <3>3. g.ret \in Int /\ g.data \in Seq(Bytes)
            <4>1. g.ret = l /\ g.data = <<>>
                BY <3>1, AnswersAre
            <4> QED BY <1>7, <4>1
        <3>4. \/ Excused(fd, pseudo, odd)
              \/ PartDone(r, w, i, g, pos, file'[p].bytes)
            <4> SUFFICES ASSUME at = pos + s
                         PROVE  PartDone(r, w, i, g, pos, file'[p].bytes)
                BY <2>2
            <4>1. /\ file'[p].bytes \in Seq(Bytes) /\ Len(file'[p].bytes) \in Nat
                  /\ at + l <= Len(file'[p].bytes)
                  /\ \A x \in 1..Len(file'[p].bytes) : x > at /\ x <= at + l => file'[p].bytes[x] = w
                <5>1. Wrote(file, file', p, at, l, w)
                    BY <1>1, <1>4, <1>7, <2>2, <3>2, WrittenIs
                <5> QED BY <5>1 DEF Wrote
            <4>2. PICK c : c = file'[p].bytes
                OBVIOUS
            <4>3. PICK n \in Nat : n = Len(c)
                BY <4>1, <4>2
            <4>4. DOMAIN c = 1..n /\ at + l <= n /\ \A x \in 1..n : x > at /\ x <= at + l => c[x] = w
                BY <4>1, <4>2, <4>3
            <4>5. ASSUME NEW x \in s + 1 .. s + l
                  PROVE  pos + x \in DOMAIN c /\ c[pos + x] = w
                <5>1. pos + x \in 1..n /\ pos + x > at /\ pos + x <= at + l
                    BY <1>7, <1>8, <2>2, <4>4
                <5> QED BY <4>4, <5>1
            <4> QED BY <1>6, <2>4, <3>1, <4>2, <4>5 DEF PartDone
        <3> QED BY <1>14, <2>2, <2>4, <3>2, <3>3, <3>4
    <2> QED BY <1>4, <2>3, <2>4 DEF IoOps
<1> QED BY <1>15, <1>16

-----------------------------------------------------------------------------
(* The end of a split call.                                                *)
\* What the parts have done together.
LEMMA PartsDone ==
    ASSUME Files, Handlers, NEW w \in Threads, work[w].at = "parts", DOMAIN work[w].got = 1..Parts,
           NEW r, r = work[w].req, r.n \in Nat, NEW p \in Names, NEW pos \in Nat,
           p = pseudo[r.fd].path, pos = pseudo[r.fd].pos, ~Excused(r.fd, pseudo, odd)
    PROVE  /\ r.op = "read" => /\ Joined(work[w].got) = ReadAt(p, pos, r.n)
                               /\ Total(work[w].got) = Len(ReadAt(p, pos, r.n))
           /\ r.op = "write" => /\ ReadAt(p, pos, r.n) = [i \in 1..r.n |-> w]
                                /\ Total(work[w].got) = r.n
<1>1. PICK k, got, b, n : k = work[w] /\ got = k.got /\ b = file[p].bytes /\ n = r.n
    OBVIOUS
<1>2. b \in Seq(Bytes) /\ n \in Nat
    BY <1>1 DEF Files
<1>3. IoOk(k, w, pseudo, file, odd)
    BY <1>1 DEF Handlers
<1>4. n >= BlockSize /\ \A i \in 1..Parts : PartDone(r, w, i, got[i], pos, b)
    BY <1>1, <1>3 DEF IoOk
<1>5. ReadAt(p, pos, n) = Slice(b, pos, n)
    BY <1>1, <1>2, ReadIs
<1>6. r.op = "read" => Joined(got) = Slice(b, pos, n) /\ Total(got) = Len(Slice(b, pos, n))
    <2> HAVE r.op = "read"
    <2>1. PartsRead(got, b, pos, n)
        BY <1>1, <1>4 DEF PartDone, PartsRead
    <2> QED BY <1>2, <2>1, JoinedIs, ReadTotal
<1>7. r.op = "write" => Slice(b, pos, n) = [i \in 1..n |-> w] /\ Total(got) = n
    <2> HAVE r.op = "write"
    <2>1. (\A i \in 1..Parts : got[i] = Ret(PartLen(i, n))) /\ PartsWrote(b, pos, n, w)
        BY <1>1, <1>4 DEF PartDone, PartsWrote
    <2>2. n > 0
        BY <1>2, <1>4, InterceptAssumption
    <2>3. Total(got) = n
        BY <1>2, <2>1, WriteTotal
    <2>4. Slice(b, pos, n) = [i \in 1..n |-> w]
        BY <1>2, <2>1, <2>2, WrittenParts
    <2> QED BY <2>3, <2>4
<1> QED BY <1>1, <1>5, <1>6, <1>7

\* What is joined are bytes.
LEMMA JoinedBytes ==
    ASSUME NEW got, \A i \in 1..Parts : got[i].data \in Seq(Bytes)
    PROVE  Joined(got) \in Seq(Bytes)
<1>1. Parts \in Nat /\ Parts # 0 /\ 1 \in 1..Parts /\ Parts \in 1..Parts
    BY InterceptAssumption
<1>2. PICK segs : segs = [i \in 1..Parts |-> got[i].data]
    OBVIOUS
<1>3. \A i \in 1..Parts : segs[i] \in Seq(Bytes)
    BY <1>2
<1>4. segs \in Seq(Seq(Bytes)) /\ Len(segs) = Parts
    <2>1. segs \in [1..Parts -> Seq(Bytes)]
        BY <1>2, <1>3
    <2> QED BY <1>1, <2>1
<1> DEFINE Good(k) == \E f \in [1..k -> Seq(Bytes)] :
                        \A i \in 1..k : f[i] = IF i = 1 THEN segs[i] ELSE f[i - 1] \o segs[i]
<1>5. Good(1)
    <2>1. PICK f : f = [i \in 1..1 |-> segs[i]]
        OBVIOUS
    <2>2. f \in [1..1 -> Seq(Bytes)] /\ \A i \in 1..1 : i = 1 /\ f[i] = segs[i]
        BY <1>1, <1>3, <2>1
    <2> QED BY <2>2
<1>6. ASSUME NEW k \in 1..Parts, k # 1, Good(k - 1) PROVE Good(k)
    <2>1. PICK f \in [1..k - 1 -> Seq(Bytes)] :
             \A i \in 1..k - 1 : f[i] = IF i = 1 THEN segs[i] ELSE f[i - 1] \o segs[i]
        BY <1>6
    <2>2. k \in Nat /\ k > 1 /\ k - 1 \in 1..k - 1
        BY <1>6
    <2>3. PICK s : s = f[k - 1] \o segs[k]
        OBVIOUS
    <2>4. s \in Seq(Bytes)
        <3>1. f[k - 1] \in Seq(Bytes) /\ segs[k] \in Seq(Bytes)
            BY <1>3, <2>1, <2>2
        <3> QED BY <2>3, <3>1, ConcatProperties
    <2>5. PICK h : h = [i \in 1..k |-> IF i = k THEN s ELSE f[i]]
        OBVIOUS
    <2>6. \A i \in 1..k : i # k => i \in 1..k - 1
        BY <2>2
    <2>7. h \in [1..k -> Seq(Bytes)]
        BY <2>1, <2>4, <2>5, <2>6
    <2>8. ASSUME NEW i \in 1..k
          PROVE  h[i] = IF i = 1 THEN segs[i] ELSE h[i - 1] \o segs[i]
        <3>1. CASE i = k
            <4>1. i # 1 /\ k - 1 \in 1..k /\ k - 1 # k
                BY <2>2, <3>1
            <4>2. h[k] = s /\ h[k - 1] = f[k - 1]
                BY <2>5, <4>1
            <4> QED BY <2>3, <3>1, <4>1, <4>2
        <3>2. CASE i # k
            <4>1. i \in 1..k - 1 /\ h[i] = f[i]
                BY <2>5, <2>6, <3>2
            <4>2. i # 1 => h[i - 1] = f[i - 1]
                <5> HAVE i # 1
                <5>1. i - 1 \in 1..k /\ i - 1 # k
                    BY <2>2, <4>1
                <5> QED BY <2>5, <5>1
            <4> QED BY <2>1, <4>1, <4>2
        <3> QED BY <3>1, <3>2
    <2> QED BY <2>7, <2>8
<1> HIDE DEF Good
<1>7. PICK D : D = {k \in 1..Parts : ~Good(k)}
    OBVIOUS
<1>8. D = {}
    <2> SUFFICES ASSUME D # {} PROVE FALSE
        OBVIOUS
    <2>1. D \subseteq Nat
        BY <1>7
    <2>2. PICK x \in D : \A y \in D : x <= y
        BY <2>1, LeastElement
    <2>3. x \in 1..Parts /\ ~Good(x)
        BY <1>7
    <2>4. x # 1
        BY <1>5, <2>3
    <2>5. x - 1 \in 1..Parts /\ ~(x <= x - 1)
        BY <1>1, <2>3, <2>4
    <2>6. Good(x - 1)
        BY <1>7, <2>2, <2>5
    <2> QED BY <1>6, <2>3, <2>4, <2>6
<1>9. Good(Parts)
    BY <1>1, <1>7, <1>8
<1>10. PICK f \in [1..Parts -> Seq(Bytes)] :
          \A i \in 1..Parts : f[i] = IF i = 1 THEN segs[i] ELSE f[i - 1] \o segs[i]
    BY <1>9 DEF Good
<1>11. Put(segs, f)
    <2>1. PICK h : h = [i \in 1..Parts |-> IF i = 1 THEN segs[i] ELSE f[i - 1] \o segs[i]]
        OBVIOUS
    <2>2. \A i \in 1..Parts : f[i] = h[i]
        BY <1>10, <2>1
    <2>3. f = [i \in 1..Parts |-> f[i]] /\ h = [i \in 1..Parts |-> h[i]]
        BY <2>1
    <2>4. f = h
        BY <2>2, <2>3
    <2> QED BY <1>4, <2>1, <2>4 DEF Put
<1>12. PICK g : g = CHOOSE h : Put(segs, h)
    OBVIOUS
<1>13. Put(segs, g)
    BY <1>11, <1>12
<1>14. g[Parts] = f[Parts]
    <2>1. Len(segs) \in Nat /\ Parts \in 1..Len(segs)
        BY <1>1, <1>4
    <2> QED BY <1>11, <1>13, <2>1, PutOnce
<1>15. FlattenSeq(segs) = g[Parts]
    BY <1>1, <1>4, <1>12 DEF FlattenSeq, Put
<1>16. f[Parts] \in Seq(Bytes)
    BY <1>1, <1>10
<1> QED BY <1>2, <1>14, <1>15, <1>16 DEF Joined

LEMMA IoEndStep ==
    ASSUME InterceptInv, NEW w \in Threads, IoEnd(w)
    PROVE  InterceptInv'
<1>1. /\ Wire /\ Process /\ FdsInv /\ Tables /\ wrong = {} /\ DataInv /\ Uses /\ Handlers /\ Conflicts
      /\ Offsets /\ Files
    BY DEF InterceptInv, DataInv, FdsInv
<1>2. PICK r, fd, p, pos, got : /\ r = Req(w) /\ fd = r.fd /\ p = pseudo[fd].path /\ pos = pseudo[fd].pos
                                /\ got = work[w].got
    OBVIOUS
<1>3. work[w].at = "parts" /\ InIo(w) /\ work[w].at # "idle" /\ DOMAIN got = 1..Parts
    BY <1>2 DEF IoEnd, InIo
<1>4. /\ fd \in mine /\ fd \in DOMAIN pseudo /\ p \in Names /\ r.op \in IoOps /\ r.n \in Nat
      /\ r = work[w].req /\ work[w].by = w
    BY <1>1, <1>2, <1>3, IoCall
<1>5. UNCHANGED <<thread, mine, g_fdtofile, odd>>
    BY DEF IoEnd, rest, client
<1>6. r.op \notin OpenOps
    BY <1>4 DEF IoOps, OpenOps
<1>7. pos \in Nat
    BY <1>1, <1>2, <1>4 DEF Tables
<1>8. PICK tot : tot = Total(got)
    OBVIOUS
<1>9. tot \in Int
    <2>1. \A i \in 1..Parts : got[i].ret \in Int
        BY <1>1, <1>2, <1>3 DEF Handlers, IoOk
    <2> QED BY <1>8, <2>1, TotalInt
<1>10. PICK ans : ans = [ret |-> tot, data |-> Joined(got)]
    OBVIOUS
<1>11. IsAnswer(Req(w).op, ans) /\ Sent(w, ans)
    <2>1. Sent(w, ans)
        BY <1>2, <1>8, <1>10 DEF IoEnd, Respond
    <2>2. PICK j : j = Joined(got)
        OBVIOUS
    <2>3. j \in Seq(Bytes)
        <3>1. \A i \in 1..Parts : got[i].data \in Seq(Bytes)
            BY <1>1, <1>2, <1>3 DEF Handlers, IoOk
        <3> QED BY <2>2, <3>1, JoinedBytes
    <2>4. ans = [ret |-> tot, data |-> j] /\ ans.ret = tot /\ ans.data = j
        BY <1>10, <2>2
    <2> QED BY <2>1, <2>3, <2>4 DEF IsAnswer
<1>12. CASE ~Known(fd)
    <2>1. Judge(w, FALSE, Oddities(fd)) /\ UNCHANGED lib
        BY <1>2, <1>12 DEF IoEnd
    <2>2. LibSame
        BY <1>5, <2>1 DEF LibSame, lib
    <2> QED BY <1>2, <1>3, <1>4, <1>5, <1>6, <1>11, <1>12, <2>1, <2>2, RefusedStep
<1>13. CASE Known(fd)
    <2>1. PICK now, a : now = fdtofile[fd].off /\ a = (IF r.op = "read" THEN Len(ReadAt(p, pos, r.n)) ELSE r.n)
        OBVIOUS
    <2>2. now \in Nat /\ (Excused(fd, pseudo, odd) \/ now = pos)
        BY <1>1, <1>2, <1>4, <1>13, <2>1 DEF Tables, Offsets, Known
    <2>3. a \in Nat
        BY <1>1, <1>4, <1>7, <2>1, ReadIs
    <2>4. /\ fdtofile' = SeekBy(fd, tot)
          /\ pseudo' = [pseudo EXCEPT ![fd].pos = @ + (IF r.op = "read" THEN Len(ReadAt(p, @, r.n)) ELSE r.n)]
          /\ Judge(w, IF r.op = "read" THEN Joined(got) = ReadAt(p, pos, r.n)
                      ELSE ReadAt(p, pos, r.n) = [i \in 1..r.n |-> w], Oddities(fd))
          /\ UNCHANGED file
        BY <1>2, <1>4, <1>8, <1>13 DEF IoEnd, MultiEnd
    <2>5. /\ Excused(fd, pseudo, odd) \/ tot = a
          /\ wrong' = {}
        <3>1. CASE Excused(fd, pseudo, odd)
            <4>1. Oddities(fd) \cap odd # {}
                BY <1>4, <3>1, ExcusedOdd
            <4>2. wrong' = {}
                BY <1>1, <2>4, <4>1 DEF Judge
            <4> QED BY <3>1, <4>2
        <3>2. CASE ~Excused(fd, pseudo, odd)
            <4>1. /\ r.op = "read" => /\ Joined(got) = ReadAt(p, pos, r.n)
                                      /\ tot = Len(ReadAt(p, pos, r.n))
                  /\ r.op = "write" => /\ ReadAt(p, pos, r.n) = [i \in 1..r.n |-> w]
                                       /\ tot = r.n
                BY <1>1, <1>2, <1>3, <1>4, <1>7, <1>8, <3>2, PartsDone
            <4>2. r.op \in {"read", "write"}
                BY <1>4 DEF IoOps
            <4>3. tot = a
                BY <2>1, <4>1, <4>2
            <4>4. wrong' = {}
                BY <1>1, <2>4, <4>1, <4>2 DEF Judge
            <4> QED BY <4>3, <4>4
        <3> QED BY <3>1, <3>2
    <2>6. PICK x, y : x = (IF now + tot < 0 THEN now ELSE now + tot) /\ y = pos + a
        OBVIOUS
    <2>7. x \in Nat /\ y \in Nat /\ (Excused(fd, pseudo, odd) \/ x = y)
        BY <1>7, <1>9, <2>2, <2>3, <2>5, <2>6
    <2>8. Moved(fd, x, y)
        <3>1. pseudo' = [pseudo EXCEPT ![fd].pos = y]
            BY <1>2, <2>1, <2>4, <2>6
        <3>2. CASE now + tot < 0
            <4>1. fdtofile' = fdtofile /\ x = now
                BY <2>1, <2>4, <2>6, <3>2 DEF SeekBy
            <4>2. /\ DOMAIN pseudo[fd] = {"path", "pos"} /\ fd \in DOMAIN fdtofile
                  /\ DOMAIN fdtofile[fd] = {"path", "off"}
                BY <1>1, <1>4, <1>13 DEF Tables, Known
            <4>3. /\ DOMAIN pseudo' = DOMAIN pseudo /\ \A g \in DOMAIN pseudo \ {fd} : pseudo'[g] = pseudo[g]
                  /\ DOMAIN pseudo'[fd] = {"path", "pos"} /\ pseudo'[fd].path = pseudo[fd].path
                  /\ pseudo'[fd].pos = y
                BY <1>4, <3>1, <4>2
            <4> QED BY <2>1, <4>1, <4>2, <4>3 DEF Moved
        <3>3. CASE ~(now + tot < 0)
            <4>1. fdtofile' = [fdtofile EXCEPT ![fd].off = x]
                BY <2>1, <2>4, <2>6, <3>3 DEF SeekBy, MoveOffset
            <4> QED BY <1>1, <1>4, <1>13, <3>1, <4>1, MovedIs
        <3> QED BY <3>2, <3>3
    <2>9. Tables' /\ Offsets' /\ Steady /\ SamePaths
        BY <1>1, <1>4, <1>5, <1>13, <2>7, <2>8, MovedTables
    <2>10. /\ Wire' /\ Process' /\ FdsInv'
           /\ work'[w] = Idle /\ \A v \in Threads \ {w} : work'[v] = work[v]
        BY <1>2, <1>3, <1>5, <1>6, <1>11, <2>9, AnsweredFds
    <2>11. Conflicts'
        <3>1. \A v \in Threads : InIo(v)' => InIo(v) /\ work'[v].req = work[v].req
            BY <2>10, IdleIs DEF InIo
        <3> QED BY <1>1, <2>9, <3>1, ConflictsKept
    <2>12. Files'
        BY <1>1, <1>5, <2>4, <2>9, SameFiles
    <2>13. Handlers'
        <3>1. \A g \in DOMAIN pseudo : g # work[w].req.fd => pseudo'[g].pos = pseudo[g].pos
            BY <1>2, <1>4, <2>8 DEF Moved
        <3> QED BY <1>1, <1>3, <1>5, <2>4, <2>9, <2>10, <3>1, ActedHandlers
    <2> QED BY <2>5, <2>9, <2>10, <2>11, <2>12, <2>13 DEF InterceptInv, DataInv
<1> QED BY <1>12, <1>13

-----------------------------------------------------------------------------
(* lseek.                                                                  *)
LEMMA LseekStep ==
    ASSUME InterceptInv, NEW w \in Threads, HandleLseekRequest(w)
    PROVE  InterceptInv'
<1>1. /\ Wire /\ Process /\ FdsInv /\ Tables /\ wrong = {} /\ DataInv /\ Uses /\ Handlers /\ Conflicts
      /\ Offsets /\ Files
    BY DEF InterceptInv, DataInv, FdsInv
<1>2. PICK r, fd, p : r = Req(w) /\ fd = r.fd /\ p = pseudo[fd].path
    OBVIOUS
<1>3. requests[w] # <<>> /\ r.op = "lseek" /\ work[w].at = "idle"
    BY <1>2 DEF HandleLseekRequest, Begin
<1>4. fd \in mine /\ fd \in DOMAIN pseudo /\ p \in Names
    BY <1>1, <1>2, <1>3, OffsetCall DEF OffsetOps
<1>5. UNCHANGED <<thread, mine, g_fdtofile>>
    BY DEF HandleLseekRequest, rest, client
<1>6. Req(w).op \notin OpenOps
    BY <1>2, <1>3 DEF OpenOps
<1>7. odd' = IF Overlap(w) # {} THEN odd \cup {OddFd(fd)} ELSE odd
    BY <1>2 DEF HandleLseekRequest
<1>8. odd \subseteq odd'
    BY <1>7
<1>9. CASE ~Known(fd)
    <2>1. Respond(w, Ret(-5)) /\ Judge(w, FALSE, Oddities(fd)) /\ UNCHANGED lib
        BY <1>2, <1>9 DEF HandleLseekRequest
    <2>2. IsAnswer(Req(w).op, Ret(-5)) /\ Sent(w, Ret(-5)) /\ LibSame
        BY <1>5, <2>1, AnswersAre DEF Respond, LibSame, lib
    <2> QED BY <1>2, <1>3, <1>4, <1>5, <1>6, <1>8, <1>9, <2>1, <2>2, RefusedStep
<1>10. CASE Known(fd)
    <2>1. PICK to : to = IF r.flag = "set" THEN 0 ELSE Len(file[p].bytes)
        OBVIOUS
    <2>2. to \in Nat
        <3>1. file[p].bytes \in Seq(Bytes)
            BY <1>1, <1>4 DEF Files
        <3>2. Len(file[p].bytes) \in Nat
            BY <3>1
        <3> QED BY <2>1, <3>2
    <2>3. /\ fdtofile' = [fdtofile EXCEPT ![fd].off = to]
          /\ pseudo' = [pseudo EXCEPT ![fd].pos = to]
          /\ Respond(w, Ret(to))
          /\ UNCHANGED <<file, wrong>>
        BY <1>2, <1>10, <2>1 DEF HandleLseekRequest
    <2>4. Moved(fd, to, to)
        BY <1>1, <1>4, <1>10, <2>3, MovedIs
    <2>5. Tables' /\ Offsets' /\ Steady /\ SamePaths
        BY <1>1, <1>4, <1>5, <1>8, <1>10, <2>2, <2>4, MovedTables
    <2>6. PICK ans : ans = Ret(to)
        OBVIOUS
    <2>7. IsAnswer(Req(w).op, ans) /\ Sent(w, ans)
        BY <2>3, <2>6, AnswersAre DEF Respond
    <2>8. /\ Wire' /\ Process' /\ FdsInv'
          /\ work'[w] = Idle /\ \A v \in Threads \ {w} : work'[v] = work[v]
        BY <1>3, <1>5, <1>6, <2>5, <2>7, AnsweredFds
    <2>9. Conflicts'
        <3>1. \A v \in Threads : InIo(v)' => InIo(v) /\ work'[v].req = work[v].req
            BY <2>8, IdleIs DEF InIo
        <3> QED BY <1>1, <2>5, <3>1, ConflictsKept
    <2>10. Files'
        BY <1>1, <1>8, <2>3, <2>5, SameFiles
    <2>11. Handlers'
        <3>1. ASSUME NEW v \in Threads, v # w, InIo(v)
              PROVE  \/ Excused(work[v].req.fd, pseudo', odd')
                     \/ pseudo'[work[v].req.fd].pos = pseudo[work[v].req.fd].pos
            <4>1. Req(v) = work[v].req /\ work[v].req.fd \in DOMAIN pseudo
                BY <1>1, <3>1, IoCall
            <4>2. CASE work[v].req.fd = fd
                <5>1. v \in Overlap(w)
                    BY <1>2, <3>1, <4>1, <4>2 DEF Overlap, InIo
                <5>2. OddFd(fd) \in odd'
                    BY <1>7, <5>1
                <5> QED BY <4>2, <5>2 DEF Excused
            <4>3. CASE work[v].req.fd # fd
                BY <2>4, <4>1, <4>3 DEF Moved
            <4> QED BY <4>2, <4>3
        <3> QED BY <1>1, <2>3, <2>5, <2>8, <3>1, HandlersKept
    <2> QED BY <1>1, <2>3, <2>5, <2>8, <2>9, <2>10, <2>11 DEF InterceptInv, DataInv
<1> QED BY <1>9, <1>10

-----------------------------------------------------------------------------
(* The first half of close: the pseudo fd is given back.                   *)
LEMMA CloseCall ==
    ASSUME Wire, FdsInv, Tables, NEW w \in Threads, requests[w] # <<>>, Req(w).op = "close"
    PROVE  /\ Req(w).fd \in Fds /\ Req(w).fd \in DOMAIN pseudo /\ Req(w).fd \notin mine
           /\ requests[w][1].req = Req(w) /\ responses[w] = <<>>
           /\ Tail(requests[w]) = <<>> /\ work[w] = Idle
<1>1. /\ CallOk(Req(w)) /\ requests[w][1].req = Req(w) /\ responses[w] = <<>>
      /\ Tail(requests[w]) = <<>> /\ work[w] = Idle
    BY Underway
<1>2. Req(w).fd \in Fds
    BY <1>1 DEF CallOk
<1>3. Holds(requests[w], responses[w], Req(w).fd)
    BY <1>1 DEF Holds
<1> QED BY <1>1, <1>2, <1>3 DEF FdsInv, Tokens

LEMMA ReleasedData ==
    ASSUME Wire, Uses, DataInv, NEW w \in Threads, NEW fd \in DOMAIN pseudo, fd \notin mine,
           NEW p, p = pseudo[fd].path,
           pseudo' = Without(pseudo, fd), UNCHANGED <<fdtofile, g_fdtofile, mine>>, odd \subseteq odd',
           DOMAIN file' = Names,
           \A q \in Names :
              /\ DOMAIN file'[q] = DOMAIN file[q] /\ file'[q].bytes = file[q].bytes
              /\ file'[q] = file[q] \/ file'[q].stored
              /\ q = p => \/ OddPath(q) \in odd' \/ file'[q].stored
                          \/ ~file[q].cached /\ ~file[q].dirty,
           work'[w] = Idle \/ (work'[w].at = "erase" /\ work'[w].req.op = "close"),
           \A v \in Threads \ {w} : work'[v] = work[v]
    PROVE  DataInv'
<1>1. Tables /\ Handlers /\ Conflicts /\ Offsets /\ Files
    BY DEF DataInv
<1>2. DOMAIN pseudo' = DOMAIN pseudo \ {fd} /\ \A g \in DOMAIN pseudo \ {fd} : pseudo'[g] = pseudo[g]
    <2>1. PICK new : new = Without(pseudo, fd)
        OBVIOUS
    <2>2. DOMAIN new = DOMAIN pseudo \ {fd} /\ \A g \in DOMAIN pseudo \ {fd} : new[g] = pseudo[g]
        BY <2>1 DEF Without
    <2> QED BY <2>1, <2>2
<1>3. \A g \in DOMAIN pseudo \ {fd} : Known(g)' <=> Known(g)
    BY <1>2 DEF Known
<1>4. mine \subseteq DOMAIN pseudo'
    BY <1>1, <1>2 DEF Tables
<1>5. Tables'
    BY <1>1, <1>2, <1>3, <1>4 DEF Tables, Marked
<1>6. Offsets'
    BY <1>1, <1>2 DEF Offsets, Excused
<1>7. Steady
    BY <1>2, <1>4 DEF Steady
<1>8. \A v \in Threads : InIo(v)' => v # w /\ InIo(v) /\ work'[v] = work[v]
    BY IdleIs DEF InIo
<1>9. Conflicts'
    <2>1. \A v \in Threads : InIo(v)' => InIo(v) /\ work'[v].req = work[v].req
        BY <1>8
    <2> QED BY <1>1, <1>7, <2>1, ConflictsKept
<1>10. Handlers'
    <2>1. work'[w] = Idle \/ IoOk(work'[w], w, pseudo', file', odd')
        BY DEF IoOk
    <2>2. ASSUME NEW v \in Threads, InIo(v)
          PROVE  /\ pseudo'[work[v].req.fd].pos = pseudo[work[v].req.fd].pos
                 /\ file'[pseudo[work[v].req.fd].path].bytes = file[pseudo[work[v].req.fd].path].bytes
        <3>1. /\ work[v].req.fd \in mine /\ work[v].req.fd \in DOMAIN pseudo
              /\ pseudo[work[v].req.fd].path \in Names
            BY <1>1, <2>2, IoCall
        <3>2. work[v].req.fd # fd
            BY <3>1
        <3> QED BY <1>2, <3>1, <3>2
    <2> QED BY <1>1, <1>7, <2>1, <2>2, HandlersKept
<1>11. Files'
    <2> SUFFICES ASSUME NEW q \in Names
                 PROVE  /\ DOMAIN file'[q] = {"bytes", "stored", "cached", "dirty"}
                        /\ file'[q].bytes \in Seq(Bytes)
                        /\ \/ OddPath(q) \in odd' \/ IsOpen(q)' \/ file'[q].stored \/ file'[q].bytes = <<>>
                        /\ \/ OddPath(q) \in odd' \/ file'[q].stored \/ file'[q].cached \/ file'[q].dirty
                           \/ file'[q].bytes = <<>>
        BY DEF Files
    <2>1. /\ DOMAIN file[q] = {"bytes", "stored", "cached", "dirty"} /\ file[q].bytes \in Seq(Bytes)
          /\ \/ OddPath(q) \in odd \/ IsOpen(q) \/ file[q].stored \/ file[q].bytes = <<>>
          /\ \/ OddPath(q) \in odd \/ file[q].stored \/ file[q].cached \/ file[q].dirty \/ file[q].bytes = <<>>
        BY <1>1 DEF Files
    <2>2. IsOpen(q) => q = p \/ IsOpen(q)'
        <3> HAVE IsOpen(q)
        <3>1. PICK g \in DOMAIN pseudo : pseudo[g].path = q
            BY DEF IsOpen
        <3>2. CASE g = fd
            BY <3>1, <3>2
        <3>3. CASE g # fd
            BY <1>2, <3>1, <3>3 DEF IsOpen
        <3> QED BY <3>2, <3>3
    <2>3. OddPath(q) \in odd => OddPath(q) \in odd'
        OBVIOUS
    <2> QED BY <2>1, <2>2, <2>3
<1> QED BY <1>5, <1>6, <1>9, <1>10, <1>11 DEF DataInv

LEMMA CloseReleaseStep ==
    ASSUME InterceptInv, NEW w \in Threads, CloseRelease(w)
    PROVE  InterceptInv'
<1>1. /\ Wire /\ Process /\ FdsInv /\ Tables /\ wrong = {} /\ DataInv /\ Uses /\ Files
    BY DEF InterceptInv, DataInv, FdsInv
<1>2. PICK r, fd, p : r = Req(w) /\ fd = r.fd /\ p = pseudo[fd].path
    OBVIOUS
<1>3. requests[w] # <<>> /\ r.op = "close" /\ work[w].at = "idle"
    BY <1>2 DEF CloseRelease, Begin
<1>4. /\ fd \in Fds /\ fd \in DOMAIN pseudo /\ fd \notin mine
      /\ requests[w][1].req = r /\ responses[w] = <<>> /\ Tail(requests[w]) = <<>> /\ work[w] = Idle
    BY <1>1, <1>2, <1>3, CloseCall
<1>5. UNCHANGED <<thread, mine, g_fdtofile>>
    BY DEF CloseRelease, rest, client
<1>6. r.op \notin OpenOps
    BY <1>3 DEF OpenOps
<1>7. p \in Names \cup {Dir}
    BY <1>1, <1>2, <1>4 DEF Tables
<1>8. PICK flushes : flushes <=> p # Dir /\ (file[p].dirty \/ file[p].cached)
    <2>1. \E f : f <=> p # Dir /\ (file[p].dirty \/ file[p].cached)
        OBVIOUS
    <2> QED BY <2>1
<1>9. CASE ~Known(fd) /\ Respond(w, Ret(-5)) /\ Judge(w, FALSE, Oddities(fd))
           /\ UNCHANGED <<lib, odd, faults>>
    <2>1. IsAnswer(Req(w).op, Ret(-5)) /\ Sent(w, Ret(-5)) /\ LibSame
        BY <1>5, <1>9, AnswersAre DEF Respond, LibSame, lib
    <2> QED BY <1>2, <1>3, <1>4, <1>5, <1>6, <1>9, <2>1, RefusedStep
<1>10. CASE /\ Known(fd)
            /\ pseudo' = Without(pseudo, fd)
            /\ \/ flushes /\ file' = [file EXCEPT ![p].stored = TRUE, ![p].cached = FALSE, ![p].dirty = FALSE]
               \/ ~flushes /\ file' = file
            /\ Continue(w, [Taken(w) EXCEPT !.at = "erase"])
            /\ UNCHANGED <<responses, fdtofile, ghost, faults>>
    <2>1. PICK k, h : k = Taken(w) /\ h = [k EXCEPT !.at = "erase"]
        OBVIOUS
    <2>2. DOMAIN k = {"req", "by", "seq", "at", "off", "got"} /\ k.req = r
        BY <1>1, <1>2, <1>3, <2>1, Underway, IdleIs
    <2>3. DOMAIN h = DOMAIN k /\ h.at = "erase" /\ h.req = r /\ h.by = k.by /\ h.seq = k.seq
        BY <2>1, <2>2
    <2>4. work' = [work EXCEPT ![w] = h] /\ requests' = [requests EXCEPT ![w] = <<>>]
        BY <1>4, <1>10, <2>1 DEF Continue
    <2>5. Updated(requests', requests, w, <<>>) /\ Updated(work', work, w, h)
        BY <1>1, <2>4 DEF Updated, Wire
    <2>6. Wire' /\ Process'
        <3>1. h.at # "idle" /\ DOMAIN h = DOMAIN Idle
            BY <2>2, <2>3, IdleIs
        <3>2. h.req = Taken(w).req /\ h.by = Taken(w).by /\ h.seq = Taken(w).seq
            BY <2>1, <2>2, <2>3
        <3> QED BY <1>1, <1>3, <1>5, <1>10, <2>5, <3>1, <3>2, WorkingWire
    <2>7. /\ work'[w] = h /\ requests'[w] = <<>>
          /\ \A v \in Threads \ {w} : work'[v] = work[v] /\ requests'[v] = requests[v]
        BY <1>1, <2>5 DEF Updated, Wire
    <2>8. FdsInv'
        BY <1>1, <1>3, <1>4, <1>5, <1>10, <1>2, <2>3, <2>7, CloseFds
    <2>9. /\ DOMAIN file' = Names
          /\ \A q \in Names :
                /\ DOMAIN file'[q] = DOMAIN file[q] /\ file'[q].bytes = file[q].bytes
                /\ file'[q] = file[q] \/ file'[q].stored
                /\ q = p => \/ file'[q].stored
                            \/ ~file[q].cached /\ ~file[q].dirty
        <3>1. DOMAIN file = Names /\ \A q \in Names : DOMAIN file[q] = {"bytes", "stored", "cached", "dirty"}
            BY <1>1 DEF Files
        <3>2. \A q \in Names : q # Dir
            BY InterceptAssumption DEF Names, Dir
        <3>3. CASE flushes /\ file' = [file EXCEPT ![p].stored = TRUE, ![p].cached = FALSE, ![p].dirty = FALSE]
            <4>1. p \in Names
                BY <1>7, <1>8, <3>3
            <4> QED BY <3>1, <3>3, <4>1
        <3>4. CASE ~flushes /\ file' = file
            BY <1>8, <3>1, <3>2, <3>4
        <3> QED BY <1>10, <3>3, <3>4
    <2>10. odd' = odd /\ wrong' = {}
        BY <1>1, <1>10 DEF ghost
    <2>11. DataInv'
        BY <1>1, <1>2, <1>3, <1>4, <1>5, <1>10, <2>3, <2>7, <2>9, <2>10, ReleasedData
    <2> QED BY <2>6, <2>8, <2>10, <2>11 DEF InterceptInv
<1>11. CASE /\ Known(fd) /\ flushes
            /\ pseudo' = Without(pseudo, fd)
            /\ odd' = odd \cup {OddPath(p)}
            /\ Respond(w, Ret(-5))
            /\ UNCHANGED <<fdtofile, file, wrong>>
    <2>1. PICK a : a = Ret(-5)
        OBVIOUS
    <2>2. IsAnswer(Req(w).op, a) /\ Sent(w, a)
        BY <1>11, <2>1, AnswersAre DEF Respond
    <2>3. Answering(w, Req(w), Taken(w).seq, a)
        BY <1>1, <1>3, <2>2, SentAnswers
    <2>4. Wire' /\ Process'
        BY <1>1, <1>3, <1>5, <2>2, <2>3, AnsweredWire
    <2>5. /\ work'[w] = Idle /\ requests'[w] = <<>>
          /\ responses'[w][1].req = r
          /\ \A v \in Threads \ {w} : /\ work'[v] = work[v] /\ requests'[v] = requests[v]
                                      /\ responses'[v] = responses[v]
        BY <1>1, <1>2, <2>3 DEF Answering, Updated, Wire
    <2>6. FdsInv'
        BY <1>1, <1>2, <1>3, <1>4, <1>5, <1>11, <2>5, CloseFds
    <2>7. /\ DOMAIN file' = Names
          /\ \A q \in Names : /\ DOMAIN file'[q] = DOMAIN file[q] /\ file'[q].bytes = file[q].bytes
                              /\ file'[q] = file[q] /\ (q = p => OddPath(q) \in odd')
        BY <1>1, <1>11 DEF Files
    <2>8. odd \subseteq odd' /\ wrong' = {}
        BY <1>1, <1>11
    <2>9. DataInv'
        BY <1>1, <1>2, <1>4, <1>5, <1>11, <2>5, <2>7, <2>8, ReleasedData
    <2> QED BY <2>4, <2>6, <2>8, <2>9 DEF InterceptInv
<1> QED BY <1>2, <1>8, <1>9, <1>10, <1>11 DEF CloseRelease

-----------------------------------------------------------------------------
(* The second half of close, and unlink.                                   *)
LEMMA CloseEraseStep ==
    ASSUME InterceptInv, NEW w \in Threads, CloseErase(w)
    PROVE  InterceptInv'
<1>1. /\ Wire /\ Process /\ FdsInv /\ Tables /\ wrong = {} /\ DataInv /\ Uses /\ Files
      /\ Handlers /\ Conflicts /\ Offsets
    BY DEF InterceptInv, DataInv, FdsInv
<1>2. PICK fd : fd = Req(w).fd
    OBVIOUS
<1>3. work[w].at = "erase" /\ work[w].at # "idle"
    BY DEF CloseErase
<1>4. Req(w).op \notin OpenOps
    <2>1. Req(w) = work[w].req
        BY <1>3 DEF Req, Taken
    <2> QED BY <1>1, <1>3, <2>1 DEF Handlers, IoOk, OpenOps
<1>5. /\ UNCHANGED <<thread, mine, g_fdtofile, pseudo, file, wrong>>
      /\ fdtofile' = Without(fdtofile, fd)
      /\ odd' = IF fd \in DOMAIN pseudo THEN odd \cup {OddFd(fd)} ELSE odd
      /\ Sent(w, Ret(0))
    BY <1>2 DEF CloseErase, rest, client, Respond
<1>6. SamePaths /\ odd \subseteq odd' /\ (fd \in DOMAIN pseudo => OddFd(fd) \in odd')
    BY <1>5 DEF SamePaths
<1>7. PICK a : a = Ret(0)
    OBVIOUS
<1>8. IsAnswer(Req(w).op, a) /\ Sent(w, a)
    BY <1>5, <1>7, AnswersAre
<1>9. /\ Wire' /\ Process' /\ FdsInv'
      /\ work'[w] = Idle /\ \A v \in Threads \ {w} : work'[v] = work[v]
    BY <1>3, <1>4, <1>5, <1>6, <1>8, AnsweredFds
<1>10. DOMAIN fdtofile' = DOMAIN fdtofile \ {fd} /\ \A g \in DOMAIN fdtofile \ {fd} : fdtofile'[g] = fdtofile[g]
    BY <1>5, WithoutIs
<1>11. \A g : g # fd => (Known(g)' <=> Known(g))
    BY <1>5, <1>10 DEF Known
<1>12. Tables'
    <2>1. \A g \in DOMAIN pseudo : OddFd(g) \in odd' \/ Known(g)'
        BY <1>1, <1>6, <1>11 DEF Tables, Marked
    <2>2. \A g \in DOMAIN fdtofile' : DOMAIN fdtofile'[g] = {"path", "off"} /\ fdtofile'[g].off \in Nat
        BY <1>1, <1>10 DEF Tables
    <2>3. \A g \in mine : OddFd(g) \in odd' \/ g \in DOMAIN g_fdtofile
        BY <1>1, <1>6 DEF Tables, Marked
    <2> QED BY <1>1, <1>5, <2>1, <2>2, <2>3 DEF Tables, Marked
<1>13. Offsets'
    <2> SUFFICES ASSUME NEW g \in DOMAIN pseudo
                 PROVE  Excused(g, pseudo, odd') \/ fdtofile'[g].off = pseudo[g].pos
        BY <1>5 DEF Offsets
    <2>1. Excused(g, pseudo, odd) => Excused(g, pseudo, odd')
        BY <1>6 DEF Excused
    <2>2. g = fd => Excused(g, pseudo, odd')
        BY <1>6 DEF Excused
    <2>3. g \in DOMAIN fdtofile \/ Excused(g, pseudo, odd)
        BY <1>1 DEF Tables, Marked, Excused, Known
    <2> QED BY <1>1, <1>10, <2>1, <2>2, <2>3 DEF Offsets
<1>14. Steady
    BY <1>1, <1>5, <1>6 DEF Steady, Tables
<1>15. Conflicts'
    <2>1. \A v \in Threads : InIo(v)' => InIo(v) /\ work'[v].req = work[v].req
        BY <1>9, IdleIs DEF InIo
    <2> QED BY <1>1, <1>14, <2>1, ConflictsKept
<1>16. Files'
    BY <1>1, <1>5, <1>6, SameFiles
<1>17. Handlers'
    BY <1>1, <1>5, <1>9, <1>14, HandlersKept
<1> QED BY <1>1, <1>5, <1>9, <1>12, <1>13, <1>15, <1>16, <1>17 DEF InterceptInv, DataInv

LEMMA HandleUnlinkStep ==
    ASSUME InterceptInv, NEW w \in Threads, HandleUnlinkRequest(w)
    PROVE  InterceptInv'
<1>1. /\ Wire /\ Process /\ FdsInv /\ Tables /\ wrong = {} /\ DataInv /\ Uses /\ Files
      /\ Handlers /\ Conflicts /\ Offsets
    BY DEF InterceptInv, DataInv, FdsInv
<1>2. PICK r, p : r = Req(w) /\ p = r.path
    OBVIOUS
<1>3. requests[w] # <<>> /\ r.op = "unlink" /\ work[w].at = "idle"
    BY <1>2 DEF HandleUnlinkRequest, Begin
<1>4. p \in Names
    <2>1. CallOk(r)
        BY <1>1, <1>2, <1>3, Underway
    <2> QED BY <1>2, <1>3, <2>1 DEF CallOk
<1>5. /\ UNCHANGED <<thread, mine, g_fdtofile, pseudo, fdtofile, wrong>>
      /\ file' = [file EXCEPT ![p] = [bytes |-> <<>>, stored |-> FALSE, cached |-> FALSE, dirty |-> @.dirty]]
      /\ odd' = IF IsOpen(p) THEN odd \cup {OddPath(p)} ELSE odd
      /\ Sent(w, Ret(0))
    BY <1>2 DEF HandleUnlinkRequest, rest, client, Respond
<1>6. SamePaths /\ odd \subseteq odd' /\ (IsOpen(p) => OddPath(p) \in odd')
    BY <1>5 DEF SamePaths
<1>7. PICK a : a = Ret(0)
    OBVIOUS
<1>8. IsAnswer(Req(w).op, a) /\ Sent(w, a)
    BY <1>5, <1>7, AnswersAre
<1>9. r.op \notin OpenOps
    BY <1>3 DEF OpenOps
<1>10. /\ Wire' /\ Process' /\ FdsInv'
       /\ work'[w] = Idle /\ \A v \in Threads \ {w} : work'[v] = work[v]
    BY <1>2, <1>3, <1>5, <1>6, <1>8, <1>9, AnsweredFds
<1>11. Tables' /\ Offsets'
    <2>1. \A g : Known(g)' <=> Known(g)
        BY <1>5 DEF Known
    <2> QED BY <1>1, <1>5, <1>6, <2>1 DEF Tables, Marked, Offsets, Excused
<1>12. Steady
    BY <1>1, <1>5, <1>6 DEF Steady, Tables
<1>13. Conflicts'
    <2>1. \A v \in Threads : InIo(v)' => InIo(v) /\ work'[v].req = work[v].req
        BY <1>10, IdleIs DEF InIo
    <2> QED BY <1>1, <1>12, <2>1, ConflictsKept
<1>14. /\ DOMAIN file' = Names /\ \A q \in Names \ {p} : file'[q] = file[q]
       /\ DOMAIN file'[p] = {"bytes", "stored", "cached", "dirty"} /\ file'[p].bytes = <<>>
    BY <1>1, <1>4, <1>5 DEF Files
<1>15. Files'
    <2>1. \A q : IsOpen(q)' <=> IsOpen(q)
        BY <1>6, IsOpenKept
    <2>2. <<>> \in Seq(Bytes)
        OBVIOUS
    <2> QED BY <1>1, <1>6, <1>14, <2>1, <2>2 DEF Files
<1>16. Handlers'
    <2>1. ASSUME NEW v \in Threads, InIo(v)
          PROVE  \/ Excused(work[v].req.fd, pseudo', odd')
                 \/ file'[pseudo[work[v].req.fd].path].bytes = file[pseudo[work[v].req.fd].path].bytes
        <3>1. work[v].req.fd \in DOMAIN pseudo /\ pseudo[work[v].req.fd].path \in Names
            BY <1>1, <2>1, IoCall
        <3>2. CASE pseudo[work[v].req.fd].path = p
            <4>1. IsOpen(p)
                BY <3>1, <3>2 DEF IsOpen
            <4> QED BY <1>5, <1>6, <3>2, <4>1 DEF Excused
        <3>3. CASE pseudo[work[v].req.fd].path # p
            BY <1>14, <3>1, <3>3
        <3> QED BY <3>2, <3>3
    <2> QED BY <1>1, <1>5, <1>10, <1>12, <2>1, HandlersKept
<1> QED BY <1>1, <1>5, <1>10, <1>11, <1>13, <1>15, <1>16 DEF InterceptInv, DataInv

-----------------------------------------------------------------------------
(* open and opendir.                                                       *)
\* What posix_s3fs_open does to the files.
LEMMA OpenFiles ==
    ASSUME Files, NEW p, NEW flag, NEW new, new = posix_s3fs_open(p, flag)
    PROVE  /\ DOMAIN new = Names /\ \A q \in Names \ {p} : new[q] = file[q]
           /\ p \in Names =>
                 \/ new[p] = file[p]
                 \/ /\ DOMAIN new[p] = DOMAIN file[p] /\ new[p].bytes = file[p].bytes
                    /\ new[p].cached
                 \/ /\ DOMAIN new[p] = DOMAIN file[p] /\ new[p].bytes = <<>>
                    /\ ~IsOpen(p)
<1>1. \/ new = file
      \/ new = [file EXCEPT ![p] = Created(p)]
      \/ ~IsOpen(p) /\ new = [file EXCEPT ![p] = Truncated(p)]
    BY DEF posix_s3fs_open
<1>2. DOMAIN file = Names /\ \A q \in Names : DOMAIN file[q] = {"bytes", "stored", "cached", "dirty"}
    BY DEF Files
<1>3. CASE new = file
    BY <1>2, <1>3
<1>4. CASE new = [file EXCEPT ![p] = Created(p)]
    <2>1. PICK f, c : f = file[p] /\ c = Created(p)
        OBVIOUS
    <2>2. p \in Names => DOMAIN c = DOMAIN f /\ c.bytes = f.bytes /\ c.cached
        BY <1>2, <2>1 DEF Created
    <2> QED BY <1>2, <1>4, <2>1, <2>2
<1>5. CASE ~IsOpen(p) /\ new = [file EXCEPT ![p] = Truncated(p)]
    <2>1. PICK f, c : f = file[p] /\ c = Truncated(p)
        OBVIOUS
    <2>2. p \in Names => DOMAIN c = DOMAIN f /\ c.bytes = <<>>
        BY <1>2, <2>1 DEF Truncated
    <2> QED BY <1>2, <1>5, <2>1, <2>2
<1> QED BY <1>1, <1>3, <1>4, <1>5

LEMMA HandleOpenStep ==
    ASSUME InterceptInv, NEW w \in Threads, HandleOpenRequest(w)
    PROVE  InterceptInv'
<1>1. /\ Wire /\ Process /\ FdsInv /\ Tables /\ wrong = {} /\ DataInv /\ Uses /\ Files
      /\ Handlers /\ Conflicts /\ Offsets /\ Slots
    BY DEF InterceptInv, DataInv, FdsInv
<1>2. PICK r, p, flag, fd : r = Req(w) /\ p = r.path /\ flag = r.flag /\ fd = GetUnusedMinPseudoFd
    OBVIOUS
<1>3. requests[w] # <<>> /\ r.op \in OpenOps /\ work[w].at = "idle"
    BY <1>2 DEF HandleOpenRequest, Begin, OpenOps
<1>4. CallOk(r) /\ requests[w][1].req = r
    BY <1>1, <1>2, <1>3, Underway
<1>5. p \in Names \cup {Dir}
    BY <1>2, <1>3, <1>4 DEF CallOk, OpenOps
<1>6. UNCHANGED <<thread, mine, g_fdtofile, wrong>>
    BY DEF HandleOpenRequest, rest, client
<1>7. CASE Respond(w, Ret(NoFd)) /\ UNCHANGED <<lib, odd>>
    <2>1. PICK a : a = Ret(NoFd)
        OBVIOUS
    <2>2. IsAnswer(Req(w).op, a) /\ Sent(w, a) /\ a.ret \notin Fds
        BY <1>7, <2>1, AnswersAre, SmallNumbers DEF Respond
    <2>3. LibSame /\ wrong' = {}
        BY <1>1, <1>6, <1>7 DEF LibSame, lib
    <2> QED BY <1>3, <1>6, <1>7, <2>2, <2>3, AnsweredStep
<1>8. CASE /\ file' = posix_s3fs_open(p, flag)
           /\ pseudo' = With(pseudo, fd, [path |-> p, pos |-> 0])
           /\ fdtofile' = RecordFd(fd, p)
           /\ odd' = (odd \ {OddFd(fd)}) \cup
                       (IF flag = "trunc" /\ file'[p].bytes # <<>> THEN {OddPath(p)} ELSE {})
           /\ Respond(w, Ret(fd))
    <2>1. fd \in Fds /\ fd \notin DOMAIN pseudo
        <3>1. Opening(w)
            BY <1>3, <1>4 DEF Opening
        <3> QED BY <1>1, <1>2, <3>1, UnusedFd
    <2>2. PICK a : a = Ret(fd)
        OBVIOUS
    <2>3. IsAnswer(Req(w).op, a) /\ Sent(w, a)
        BY <1>8, <2>2, AnswersAre DEF Respond
    <2>4. Answering(w, Req(w), Taken(w).seq, a)
        BY <1>1, <1>3, <2>3, SentAnswers
    <2>5. Wire' /\ Process'
        BY <1>1, <1>3, <1>6, <2>3, <2>4, AnsweredWire
    <2>6. work'[w] = Idle /\ \A v \in Threads \ {w} : work'[v] = work[v]
        BY <1>1, <2>4 DEF Answering, Updated, Wire
    <2>7. FdsInv'
        <3>1. thread[w].st # "waiting"
            BY <1>1, <1>3, ThreadOf
        <3>2. DOMAIN requests = Threads /\ DOMAIN responses = Threads /\ DOMAIN work = Threads
            BY <1>1 DEF Wire
        <3>3. Answering(w, r, Taken(w).seq, Ret(fd)) /\ pseudo' = With(pseudo, fd, [path |-> r.path, pos |-> 0])
            BY <1>2, <1>8, <2>2, <2>4
        <3> QED BY <1>1, <1>3, <1>4, <1>6, <2>1, <3>1, <3>2, <3>3, OpenFds
    <2>8. PICK e, f : e = [path |-> p, pos |-> 0] /\ f = [path |-> p, off |-> 0]
        OBVIOUS
    <2>9. /\ DOMAIN e = {"path", "pos"} /\ e.path = p /\ e.pos = 0
          /\ DOMAIN f = {"path", "off"} /\ f.path = p /\ f.off = 0
        BY <2>8
    <2>10. /\ DOMAIN pseudo' = DOMAIN pseudo \cup {fd} /\ pseudo'[fd] = e
           /\ \A g \in DOMAIN pseudo : g # fd /\ pseudo'[g] = pseudo[g]
        <3>1. PICK new : new = With(pseudo, fd, e)
            OBVIOUS
        <3>2. /\ DOMAIN new = DOMAIN pseudo \cup {fd} /\ new[fd] = e
              /\ \A g \in DOMAIN pseudo : g # fd => new[g] = pseudo[g]
            BY <3>1 DEF With
        <3>3. pseudo' = new
            BY <1>8, <2>8, <3>1
        <3> QED BY <2>1, <3>2, <3>3
    <2>11. /\ DOMAIN fdtofile' = DOMAIN fdtofile \cup {fd} /\ fdtofile'[fd] = f
           /\ \A g \in DOMAIN fdtofile : g # fd => fdtofile'[g] = fdtofile[g]
        <3>1. fd > 0
            BY <2>1 DEF Fds
        <3>2. fdtofile' = With(fdtofile, fd, f)
            BY <1>8, <2>8, <3>1 DEF RecordFd
        <3>3. PICK new : new = With(fdtofile, fd, f)
            OBVIOUS
        <3>4. /\ DOMAIN new = DOMAIN fdtofile \cup {fd} /\ new[fd] = f
              /\ \A g \in DOMAIN fdtofile : g # fd => new[g] = fdtofile[g]
            BY <3>3 DEF With
        <3> QED BY <3>2, <3>3, <3>4
    <2>12. /\ \A g : g # fd => (OddFd(g) \in odd => OddFd(g) \in odd')
           /\ \A q : OddPath(q) \in odd => OddPath(q) \in odd'
        <3>1. /\ \A g : g # fd => OddFd(g) # OddFd(fd)
              /\ \A q : OddPath(q) # OddFd(fd)
            BY OddsDiffer
        <3> QED BY <1>8, <3>1
    <2>13. \A g \in mine : g \in DOMAIN pseudo /\ g # fd
        BY <1>1, <2>1 DEF Tables
    <2>14. Known(fd)' /\ \A g \in DOMAIN pseudo : Known(g) => Known(g)'
        BY <2>9, <2>10, <2>11 DEF Known
    <2>15. Tables'
        <3>1. \A g \in DOMAIN pseudo' : OddFd(g) \in odd' \/ Known(g)'
            BY <1>1, <2>10, <2>12, <2>14 DEF Tables, Marked
        <3>2. \A g \in DOMAIN fdtofile' : DOMAIN fdtofile'[g] = {"path", "off"} /\ fdtofile'[g].off \in Nat
            BY <1>1, <2>9, <2>11 DEF Tables
        <3>3. \A g \in mine : OddFd(g) \in odd' \/ g \in DOMAIN g_fdtofile
            BY <1>1, <2>12, <2>13 DEF Tables, Marked
        <3>4. /\ mine \subseteq DOMAIN pseudo' /\ DOMAIN pseudo' \subseteq Fds
              /\ \A g \in DOMAIN pseudo' : /\ DOMAIN pseudo'[g] = {"path", "pos"}
                                           /\ pseudo'[g].path \in Names \cup {Dir} /\ pseudo'[g].pos \in Nat
            BY <1>1, <1>5, <2>1, <2>9, <2>10 DEF Tables
        <3>5. \A g \in mine : g \in DOMAIN g_fdtofile => (g_fdtofile[g].type = "dir" <=> pseudo'[g].path = Dir)
            BY <1>1, <2>10, <2>13 DEF Tables
        <3> QED BY <1>1, <1>6, <3>1, <3>2, <3>3, <3>4, <3>5 DEF Tables, Marked
    <2>16. Offsets'
        <3> SUFFICES ASSUME NEW g \in DOMAIN pseudo'
                     PROVE  Excused(g, pseudo', odd') \/ fdtofile'[g].off = pseudo'[g].pos
            BY DEF Offsets
        <3>1. CASE g = fd
            BY <2>9, <2>10, <2>11, <3>1
        <3>2. CASE g # fd
            <4>1. g \in DOMAIN pseudo /\ pseudo'[g] = pseudo[g]
                BY <2>10, <3>2
            <4>2. Excused(g, pseudo, odd) => Excused(g, pseudo', odd')
                BY <2>12, <3>2, <4>1 DEF Excused
            <4>3. g \in DOMAIN fdtofile \/ Excused(g, pseudo, odd)
                BY <1>1, <4>1 DEF Tables, Marked, Excused, Known
            <4> QED BY <1>1, <2>11, <3>2, <4>1, <4>2, <4>3 DEF Offsets
        <3> QED BY <3>1, <3>2
    <2>17. Steady
        BY <2>10, <2>12, <2>13 DEF Steady
    <2>18. Conflicts'
        <3>1. \A v \in Threads : InIo(v)' => InIo(v) /\ work'[v].req = work[v].req
            BY <2>6, IdleIs DEF InIo
        <3> QED BY <1>1, <2>17, <3>1, ConflictsKept
    <2>19. /\ DOMAIN file' = Names /\ \A q \in Names \ {p} : file'[q] = file[q]
           /\ p \in Names =>
                 \/ file'[p] = file[p]
                 \/ /\ DOMAIN file'[p] = DOMAIN file[p] /\ file'[p].bytes = file[p].bytes
                    /\ file'[p].cached
                 \/ /\ DOMAIN file'[p] = DOMAIN file[p] /\ file'[p].bytes = <<>>
                    /\ ~IsOpen(p)
        BY <1>1, <1>8, OpenFiles
    <2>20. IsOpen(p)' /\ \A q : IsOpen(q) => IsOpen(q)'
        BY <2>9, <2>10 DEF IsOpen
    <2>21. Files'
        <3>1. <<>> \in Seq(Bytes)
            OBVIOUS
        <3> SUFFICES ASSUME NEW q \in Names
                     PROVE  /\ DOMAIN file'[q] = {"bytes", "stored", "cached", "dirty"}
                            /\ file'[q].bytes \in Seq(Bytes)
                            /\ \/ OddPath(q) \in odd' \/ IsOpen(q)' \/ file'[q].stored \/ file'[q].bytes = <<>>
                            /\ \/ OddPath(q) \in odd' \/ file'[q].stored \/ file'[q].cached \/ file'[q].dirty
                               \/ file'[q].bytes = <<>>
            BY <2>19 DEF Files
        <3>2. /\ DOMAIN file[q] = {"bytes", "stored", "cached", "dirty"} /\ file[q].bytes \in Seq(Bytes)
              /\ \/ OddPath(q) \in odd \/ IsOpen(q) \/ file[q].stored \/ file[q].bytes = <<>>
              /\ \/ OddPath(q) \in odd \/ file[q].stored \/ file[q].cached \/ file[q].dirty \/ file[q].bytes = <<>>
            BY <1>1 DEF Files
        <3>3. CASE file'[q] = file[q]
            BY <2>12, <2>20, <3>2, <3>3
        <3>4. CASE q = p
            BY <2>12, <2>19, <2>20, <3>1, <3>2, <3>4
        <3> QED BY <2>19, <3>3, <3>4
    <2>22. Handlers'
        <3>1. ASSUME NEW v \in Threads, InIo(v)
              PROVE  /\ pseudo'[work[v].req.fd].pos = pseudo[work[v].req.fd].pos
                     /\ file'[pseudo[work[v].req.fd].path].bytes = file[pseudo[work[v].req.fd].path].bytes
            <4>1. work[v].req.fd \in DOMAIN pseudo /\ pseudo[work[v].req.fd].path \in Names
                BY <1>1, <3>1, IoCall
            <4>2. IsOpen(pseudo[work[v].req.fd].path)
                BY <4>1 DEF IsOpen
            <4> QED BY <2>10, <2>19, <4>1, <4>2
        <3> QED BY <1>1, <2>6, <2>17, <3>1, HandlersKept
    <2> QED BY <1>1, <1>6, <2>5, <2>7, <2>15, <2>16, <2>18, <2>21, <2>22 DEF InterceptInv, DataInv
<1> QED BY <1>2, <1>7, <1>8 DEF HandleOpenRequest

-----------------------------------------------------------------------------
LEMMA InitHolds == Init => InterceptInv
<1> SUFFICES ASSUME Init PROVE InterceptInv
    OBVIOUS
<1>1. /\ \A w \in Threads : requests[w] = <<>> /\ responses[w] = <<>> /\ work[w] = Idle
      /\ DOMAIN requests = Threads /\ DOMAIN responses = Threads /\ DOMAIN work = Threads
    BY DEF Init
<1>2. /\ DOMAIN thread = Threads
      /\ \A w \in Threads : /\ DOMAIN thread[w] = {"st", "call", "expect", "own", "lost"}
                            /\ thread[w].st = "new" /\ thread[w].call = None /\ thread[w].own
    BY DEF Init
<1>3. /\ DOMAIN pseudo = {} /\ DOMAIN fdtofile = {} /\ DOMAIN g_fdtofile = {} /\ mine = {} /\ wrong = {}
    BY DEF Init
<1>4. Wire
    <2> SUFFICES ASSUME NEW w \in Threads
                 PROVE  WireOk(thread[w], requests[w], responses[w], work[w], w)
        BY <1>1, <1>2 DEF Wire
    <2> QED BY <1>1, <1>2, IdleIs DEF WireOk
<1>5. Process
    BY <1>2 DEF Process
<1>6. FdsInv
    <2>1. Tokens /\ Granted
        BY <1>1 DEF Tokens, Granted, Holds
    <2>2. Uses
        BY <1>1, <1>2 DEF Uses
    <2>3. Slots
        <3>1. \A w \in Threads : ~Opening(w)
            BY <1>1, <1>2 DEF Opening
        <3>2. {w \in Threads : Opening(w)} = {} /\ DOMAIN pseudo = {}
            BY <1>3, <3>1
        <3>3. Cardinality({}) = 0 /\ Cardinality(Fds) \in Nat
            BY FdsFinite, FS_EmptySet, FS_CardinalityType
        <3>4. Cardinality(DOMAIN pseudo) = 0 /\ Cardinality({w \in Threads : Opening(w)}) = 0
            BY <3>2, <3>3
        <3> QED BY <3>3, <3>4 DEF Slots
    <2> QED BY <2>1, <2>2, <2>3 DEF FdsInv
<1>7. DataInv
    <2>1. Tables /\ Offsets
        BY <1>3 DEF Tables, Offsets
    <2>2. Conflicts /\ Handlers
        <3>1. \A w \in Threads : ~InIo(w)
            BY <1>1, IdleIs DEF InIo
        <3> QED BY <1>1, <3>1, IdleOk DEF Conflicts, Handlers
    <2>3. Files
        <3>1. PICK a, b : /\ a = [bytes |-> <<"old">>, stored |-> TRUE, cached |-> FALSE, dirty |-> FALSE]
                          /\ b = [bytes |-> <<>>, stored |-> FALSE, cached |-> FALSE, dirty |-> FALSE]
            OBVIOUS
        <3>2. /\ DOMAIN a = {"bytes", "stored", "cached", "dirty"} /\ a.bytes = <<"old">> /\ a.stored
              /\ DOMAIN b = {"bytes", "stored", "cached", "dirty"} /\ b.bytes = <<>>
            BY <3>1
        <3>3. DOMAIN file = Names /\ \A p \in Names : file[p] = a \/ file[p] = b
            <4>1. DOMAIN file = Names
                BY DEF Init
            <4>2. ASSUME NEW p \in Names PROVE file[p] = a \/ file[p] = b
                <5>1. file[p] = [bytes |-> IF p = Paths[1] THEN <<"old">> ELSE <<>>,
                                 stored |-> p = Paths[1], cached |-> FALSE, dirty |-> FALSE]
                    BY DEF Init
                <5>2. CASE p = Paths[1]
                    BY <3>1, <5>1, <5>2
                <5>3. CASE p # Paths[1]
                    BY <3>1, <5>1, <5>3
                <5> QED BY <5>2, <5>3
            <4> QED BY <4>1, <4>2
        <3>4. <<"old">> \in Seq(Bytes) /\ <<>> \in Seq(Bytes)
            BY DEF Bytes
        <3> QED BY <3>2, <3>3, <3>4 DEF Files
    <2> QED BY <2>1, <2>2, <2>3 DEF DataInv
<1> QED BY <1>3, <1>4, <1>5, <1>6, <1>7 DEF InterceptInv

LEMMA StepHolds == InterceptInv /\ [Next]_vars => InterceptInv'
<1> SUFFICES ASSUME InterceptInv, Next \/ UNCHANGED vars PROVE InterceptInv'
    OBVIOUS
<1>1. ASSUME NEW t \in Threads, Handle(t) PROVE InterceptInv'
    <2>1. \/ LoanFails(t) \/ HandleUnready(t) \/ HandleOpenRequest(t) \/ IoBegin(t) \/ Io(t)
          \/ \E i \in 1..Parts : IoPart(t, i)
          \/ IoEnd(t) \/ HandleLseekRequest(t) \/ HandleStatRequest(t) \/ CloseRelease(t)
          \/ CloseErase(t) \/ HandleUnlinkRequest(t) \/ HandleGetdentsRequest(t)
          \/ HandleNothing(t) \/ HandleTerminalRequest(t)
        BY <1>1 DEF Handle
    <2>2. CASE \E i \in 1..Parts : IoPart(t, i)
        BY <2>2, IoPartStep
    <2> QED BY <2>1, <2>2, LoanFailsStep, HandleUnreadyStep, HandleOpenStep, IoBeginStep, IoStep, IoEndStep,
               LseekStep, HandleStatStep, CloseReleaseStep, CloseEraseStep, HandleUnlinkStep,
               HandleGetdentsStep, NothingStep
<1>2. ASSUME NEW t \in Threads, Hook(t) \/ ThreadInit(t) \/ StopClient(t) \/ Take(t, Wrapper(t))
                                  \/ ServerThread(t) \/ IdleExit(t)
      PROVE InterceptInv'
    <2>1. Wrapper(t) = t
        BY DEF Wrapper
    <2> QED BY <1>2, <2>1, HookStep, ThreadInitStep, StopClientStep, TakeStep, ServerThreadStep, IdleExitStep
<1>3. CASE UNCHANGED vars
    BY <1>3, Stuttered DEF vars, client, wire
<1>4. CASE CreateServers
    BY <1>4, CreateServersStep
<1> QED BY <1>1, <1>2, <1>3, <1>4 DEF Next

LEMMA Invariant == Spec => []InterceptInv
<1>1. Init => InterceptInv
    BY InitHolds
<1>2. InterceptInv /\ [Next]_vars => InterceptInv'
    BY StepHolds
<1> QED BY <1>1, <1>2, PTL DEF Spec

-----------------------------------------------------------------------------
(* A descriptor the application has got from open or opendir and has not   *)
(* closed is in the tables of both sides (g_fdtofile of posix_op.cpp,      *)
(* fdtofile of s3fs_lib.cpp), and names the file that FdManager has open   *)
(* under that number: no close of a reused number, no open that fails and  *)
(* no answer of another thread can break the pair, except on a descriptor  *)
(* that a late erase (posix_s3fs_close, PosixOpClose) has met.             *)
THEOREM DescriptorsAreKnown == Spec => []FdKnown
<1>1. InterceptInv => FdKnown
    BY DEF InterceptInv, DataInv, Tables, FdKnown, Marked
<1>2. Spec => []InterceptInv
    BY Invariant
<1> QED BY <1>1, <1>2, PTL

(* Every call gets its own answer, and the answer is that of POSIX: the    *)
(* bytes of a read, split into the parts of MultiRead or not, are those at *)
(* the position of the descriptor; the bytes of a MultiWrite are in the    *)
(* file when it returns; a write starts where the last one ended; stat     *)
(* tells the size, a listing has every file, and no call on an open        *)
(* descriptor is refused.  Excepted are the descriptors and files that one *)
(* of the known deviations has met.  For any number of threads, paths and  *)
(* parts, any block size, and chunks enough for two per thread.            *)
THEOREM AnswersArePosix == Spec => []AnswersRight
<1>1. InterceptInv => AnswersRight
    <2> SUFFICES ASSUME InterceptInv PROVE AnswersRight
        OBVIOUS
    <2>1. \A t \in Threads : thread[t].own
        BY ThreadOf DEF InterceptInv
    <2> QED BY <2>1 DEF InterceptInv, AnswersRight
<1>2. Spec => []InterceptInv
    BY Invariant
<1> QED BY <1>1, <1>2, PTL
=============================================================================
