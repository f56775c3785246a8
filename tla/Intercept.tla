----------------------------- MODULE Intercept -----------------------------
(***************************************************************************)
(* System call interception (src/intercept) with the POSIX library of s3fs *)
(* (src/s3fs/s3fs_lib.cpp) behind it.                                      *)
(*                                                                         *)
(* Every thread of the application owns an iceoryx client, found by an     *)
(* event name of its own: ThreadInit offers a dummy server under that      *)
(* event, the daemon scans for dummy servers once a second and starts one  *)
(* server thread for each, and five seconds later the thread opens its     *)
(* client on the same event.  A call is one request chunk and one response *)
(* chunk.  The server threads share one S3fsFileSystem, whose table        *)
(* fdtofile (descriptor to path and offset) has no lock, as g_fdtofile of  *)
(* the application has none.                                               *)
(*                                                                         *)
(* A descriptor keeps its server number (the code adds BEGIN_COUNTER, so a *)
(* failed open is a number below BEGIN_COUNTER: NoFd).  A byte of a file   *)
(* is the thread that wrote it.  The lookups of s3fs_lib are those of      *)
(* Namespace; here a path exists or not.  New cache mode.                  *)
(***************************************************************************)
EXTENDS Integers, Sequences, FiniteSets, SequencesExt, TLC

CONSTANTS
  Threads,    \* threads of the application; also the events and wrappers
  Paths,      \* files under the mount path, in the order of a listing
  Parts,      \* opThreadnum: threads of a MultiRead or MultiWrite
  BlockSize,  \* blocksize: calls of at least so many bytes are split
  Chunks,     \* chunks of the shared memory pool
  MaxFd,      \* bound: descriptors 2..MaxFd
  MaxSize,    \* bound: bytes of a file
  MaxCalls,   \* bound: calls and exits of the threads, and faults
  MaxFaults   \* bound: faults (idle server, late scan, failed flush or loan)

ASSUME InterceptAssumption ==
  /\ IsFiniteSet(Threads) /\ Paths \in Seq(STRING) /\ "dir" \notin Range(Paths)
  /\ Parts \in Nat \ {0} /\ BlockSize \in Nat \ {0}
  /\ Chunks \in Nat /\ Chunks >= 2 * Cardinality(Threads) /\ MaxFd \in Nat /\ MaxSize \in Nat /\ MaxCalls \in Nat
  /\ MaxFaults \in Nat

VARIABLES
  thread,      \* the call in progress of each thread and where it is
  dummies,     \* events of the dummy servers on offer
  server,      \* where the server thread of each event is
  serverMap,   \* serverMap_: the events that have had a server
  fileSystem,  \* fileSystem_: "none", "building" (reset, in Init), "ready"
  requests,    \* requests queued at the server of an event
  responses,   \* responses queued at the client of an event
  sequence,    \* requestSequenceId_ of each client
  chunks,      \* free chunks
  work,        \* the handler in progress at each server
  g_fdtofile,  \* the application's table: type, and offset in a directory
  fdtofile,    \* the library's table: path and offset
  pseudo,      \* FdManager: path of a pseudo fd; pos is where POSIX stands
  file,        \* bytes; stored in S3; cached as a new file; dirty
  mine,        \* descriptors the application got and has not closed
  odd,         \* descriptors and paths met by a known deviation
  wrong,       \* operations that answered what POSIX does not allow
  calls, faults

client == <<thread, dummies, g_fdtofile, mine, calls>>
daemon == <<server, serverMap, fileSystem>>
wire == <<requests, responses, sequence, chunks>>
lib == <<fdtofile, pseudo, file>>
ghost == <<odd, wrong>>
vars == <<client, daemon, wire, work, lib, ghost, faults>>

Names == Range(Paths)
Dir == "dir"
NoFd == 1
Fds == 2..MaxFd
None == [op |-> "none", path |-> Dir, fd |-> 0, n |-> 0, flag |-> ""]
Unset == [ret |-> -99, data |-> <<>>]
Ret(n) == [ret |-> n, data |-> <<>>]
Data(s) == [ret |-> Len(s), data |-> s]
Idle == [req |-> None, by |-> "", seq |-> 0, at |-> "idle", off |-> 0, got |-> <<>>]
OddFd(fd) == <<"fd", fd>>
OddPath(p) == <<"path", p>>
Without(f, x) == [y \in DOMAIN f \ {x} |-> f[y]]
With(f, x, v) == [y \in DOMAIN f \cup {x} |-> IF y = x THEN v ELSE f[y]]
Exists(p) == file[p].stored \/ file[p].cached

(* The calls of an application. *)
PathCalls ==
  [op : {"stat", "unlink"}, path : Names, fd : {0}, n : {0}, flag : {""}]
    \cup [op : {"open"}, path : Names, fd : {0}, n : {0}, flag : {"creat", "trunc"}]
    \cup [op : {"opendir"}, path : {Dir}, fd : {0}, n : {0}, flag : {""}]
FileCalls ==
  [op : {"read", "write"}, path : {Dir}, fd : mine, n : 1..BlockSize, flag : {""}]
    \cup [op : {"lseek"}, path : {Dir}, fd : mine, n : {0}, flag : {"set", "end"}]
    \cup [op : {"fsync", "close"}, path : {Dir}, fd : mine, n : {0}, flag : {""}]
DirCalls ==
  {[None EXCEPT !.op = "getdents", !.fd = fd, !.n = g_fdtofile[fd].off] : fd \in mine \cap DOMAIN g_fdtofile}
    \cup {[None EXCEPT !.op = "close", !.fd = fd] : fd \in mine}

Init ==
  /\ thread = [t \in Threads |-> [st |-> "new", call |-> None, expect |-> 0, own |-> TRUE, lost |-> FALSE]]
  /\ dummies = {}
  /\ server = [w \in Threads |-> "none"]
  /\ serverMap = {}
  /\ fileSystem = "none"
  /\ requests = [w \in Threads |-> <<>>]
  /\ responses = [w \in Threads |-> <<>>]
  /\ sequence = [w \in Threads |-> 0]
  /\ chunks = Chunks
  /\ work = [w \in Threads |-> Idle]
  /\ g_fdtofile = <<>>
  /\ fdtofile = <<>>
  /\ pseudo = <<>>
  /\ file = [p \in Names |-> [bytes |-> IF p = Paths[1] THEN <<"old">> ELSE <<>>,
                              stored |-> p = Paths[1], cached |-> FALSE, dirty |-> FALSE]]
  /\ mine = {}
  /\ odd = {}
  /\ wrong = {}
  /\ calls = 0
  /\ faults = 0

Budget == calls + faults < MaxCalls
Fault == Budget /\ faults < MaxFaults /\ faults' = faults + 1

(***************************************************************************)
(* The application side: posix_op.cpp and the client half of               *)
(* iceoryx_wrapper.cpp.                                                    *)
(***************************************************************************)
(* The wrapper a thread uses: g_wrapper is thread_local. *)
Wrapper(t) == t

(* OnRequest, first half: loan a chunk and send it.  Without a chunk, or   *)
(* without a server on the event, nothing is sent and the thread waits.    *)
Send(t, w, c) ==
  /\ thread' = [thread EXCEPT ![t].st = "taking", ![t].call = c, ![t].expect = sequence[w],
                              ![t].lost = server[w] # "running"]
  /\ sequence' = IF chunks = 0 THEN sequence ELSE [sequence EXCEPT ![w] = @ + 1]
  /\ IF chunks # 0 /\ server[w] = "running"
     THEN /\ requests' = [requests EXCEPT ![w] = Append(@, [req |-> c, by |-> t, seq |-> sequence[w]])]
          /\ chunks' = chunks - 1
     ELSE UNCHANGED <<requests, chunks>>

(* IsValidPath: a descriptor is intercepted when g_fdtofile has it. *)
IsValidPath(c) == c.fd = 0 \/ c.fd \in DOMAIN g_fdtofile

(* What an application does: it uses the descriptors it has, a directory's *)
(* as a directory, and closes none that another of its threads is using.   *)
Wanted(c) ==
  /\ c.fd # 0 => c.fd \in mine
  /\ c.op = "close" => \A u \in Threads : thread[u].call.fd # c.fd
  /\ c.fd \in DOMAIN g_fdtofile => c \in (IF g_fdtofile[c.fd].type = "dir" THEN DirCalls ELSE FileCalls)
  /\ c.op = "write" => c.fd \in DOMAIN pseudo /\ pseudo[c.fd].pos + c.n <= MaxSize
  /\ c.op \in {"open", "opendir"} => Cardinality(DOMAIN pseudo) + Cardinality({u \in Threads :
                                        thread[u].call.op \in {"open", "opendir"}}) < Cardinality(Fds)

(* These operations call ThreadInit; the others dereference the null       *)
(* g_wrapper of a thread that has made no call before.                     *)
Initialises(c) == c.op \notin {"close", "unlink", "getdents"}

(* The hook, up to OnRequest.  A call on a descriptor that g_fdtofile has  *)
(* lost goes to the kernel, which never heard of it.                       *)
Hook(t) ==
  /\ thread[t].st \in {"new", "idle"} /\ Budget /\ calls' = calls + 1
  /\ \E c \in PathCalls \cup FileCalls \cup DirCalls :
       /\ Wanted(c)
       /\ mine' = IF c.op = "close" THEN mine \ {c.fd} ELSE mine
       /\ \/ /\ ~IsValidPath(c)
             /\ wrong' = IF OddFd(c.fd) \in odd THEN wrong ELSE wrong \cup {c.op}
             /\ UNCHANGED <<thread, dummies, requests, sequence, chunks>>
          \/ /\ IsValidPath(c) /\ thread[t].st = "idle"
             /\ Send(t, Wrapper(t), c)
             /\ UNCHANGED <<dummies, wrong>>
          \/ /\ IsValidPath(c) /\ thread[t].st = "new" /\ Initialises(c)
             /\ thread' = [thread EXCEPT ![t].st = "waiting", ![t].call = c]
             /\ dummies' = dummies \cup {t}
             /\ UNCHANGED <<wrong, requests, sequence, chunks>>
          \/ /\ IsValidPath(c) /\ thread[t].st = "new" /\ ~Initialises(c)  \* the process is gone
             /\ thread' = [u \in Threads |-> [thread[u] EXCEPT !.st = "gone", !.call = None]]
             /\ dummies' = {}
             /\ UNCHANGED <<wrong, requests, sequence, chunks>>
  /\ UNCHANGED <<g_fdtofile, daemon, responses, work, lib, odd, faults>>

(* The end of ThreadInit: the five seconds are over, the client is open and *)
(* the dummy server goes.  Five seconds cover a scan, unless it is late.    *)
ThreadInit(t) ==
  /\ thread[t].st = "waiting"
  /\ \/ server[t] \notin {"none", "thread", "building"} /\ UNCHANGED faults
     \/ server[t] \in {"none", "thread", "building"} /\ Fault
  /\ dummies' = dummies \ {t}
  /\ Send(t, Wrapper(t), thread[t].call)
  /\ UNCHANGED <<g_fdtofile, mine, calls, daemon, responses, work, lib, ghost>>

(* A thread that ends destroys its wrapper: StopClient sends TERMINAL. *)
StopClient(t) ==
  /\ thread[t].st = "idle" /\ Budget /\ calls' = calls + 1
  /\ Send(t, Wrapper(t), [None EXCEPT !.op = "terminal"])
  /\ UNCHANGED <<dummies, g_fdtofile, mine, daemon, responses, work, lib, ghost, faults>>

(* The copy of a buffer by opThreadnum threads: the last takes the rest. *)
PartStart(i, n) == (i - 1) * (n \div Parts)
PartLen(i, n) == IF i = Parts THEN (n \div Parts) + (n % Parts) ELSE n \div Parts
Part(s, i) == SubSeq(s, PartStart(i, Len(s)) + 1, PartStart(i, Len(s)) + PartLen(i, Len(s)))
SetResponseMultithreads(s) == FlattenSeq([i \in 1..Parts |-> Part(s, i)])
SetResponse(r) == [r EXCEPT !.data = IF Len(@) >= BlockSize THEN SetResponseMultithreads(@) ELSE @]

(* The end of PosixOpOpen, PosixOpClose and PosixOpGetdents64.  Close      *)
(* erases the entry after the answer: by then the number may be another    *)
(* thread's.                                                               *)
Recorded(c, a) ==
  CASE c.op = "open"    -> With(g_fdtofile, a.ret, [type |-> "file", off |-> 0])
    [] c.op = "opendir" -> With(g_fdtofile, a.ret, [type |-> "dir", off |-> 0])
    [] c.op = "getdents" /\ c.fd \in DOMAIN g_fdtofile -> [g_fdtofile EXCEPT ![c.fd].off = @ + a.ret]
    [] c.op = "close"   -> Without(g_fdtofile, c.fd)
    [] OTHER            -> g_fdtofile

(* OnRequest, second half: spin until a response comes.  One with another  *)
(* sequence number ends the wait all the same, with nothing set, and its   *)
(* chunk is not released.  Then the end of the operation.                  *)
Take(t, w) ==
  LET r == Head(responses[w])
      c == thread[t].call
      own == r.seq = thread[t].expect
      a == IF ~own THEN Unset ELSE IF c.op = "read" THEN SetResponse(r.ans) ELSE r.ans IN
  /\ thread[t].st = "taking" /\ responses[w] # <<>>
  /\ responses' = [responses EXCEPT ![w] = Tail(@)]
  /\ chunks' = IF own THEN chunks + 1 ELSE chunks
  /\ thread' = [thread EXCEPT ![t].st = IF c.op = "terminal" THEN "gone" ELSE "idle", ![t].call = None,
                              ![t].expect = 0, ![t].lost = FALSE,
                              ![t].own = (<<r.by, r.req, a>> = <<t, c, r.ans>>)]
  /\ g_fdtofile' = Recorded(c, a)
  /\ mine' = IF c.op \in {"open", "opendir"} /\ a.ret \in Fds THEN mine \cup {a.ret} ELSE mine
  /\ odd' = IF c.op = "close" /\ c.fd \in mine THEN odd \cup {OddFd(c.fd)} ELSE odd
  /\ UNCHANGED <<dummies, calls, requests, sequence, daemon, work, lib, wrong, faults>>

(***************************************************************************)
(* The daemon: client_server_registry.cpp and the server half of           *)
(* iceoryx_wrapper.cpp.                                                    *)
(***************************************************************************)
(* One round of MonitorServers: a server thread for every dummy server     *)
(* whose event serverMap_ does not have.  DestroyServers does nothing.     *)
CreateServers ==
  /\ \E w \in dummies : w \notin serverMap /\ server[w] = "none"
  /\ server' = [w \in Threads |-> IF w \in dummies /\ w \notin serverMap /\ server[w] = "none"
                                  THEN "thread" ELSE server[w]]
  /\ UNCHANGED <<client, serverMap, fileSystem, wire, work, lib, ghost, faults>>

(* The server thread: it enters itself in serverMap_, builds the file       *)
(* system when there is none (a second thread does not wait for its Init),  *)
(* offers the event and serves.                                             *)
ServerThread(w) ==
  /\ \/ /\ server[w] = "thread"
        /\ serverMap' = serverMap \cup {w}
        /\ server' = [server EXCEPT ![w] = IF fileSystem = "none" THEN "building" ELSE "running"]
        /\ fileSystem' = IF fileSystem = "none" THEN "building" ELSE fileSystem
     \/ /\ server[w] = "building"
        /\ fileSystem' = "ready"
        /\ server' = [server EXCEPT ![w] = "running"]
        /\ UNCHANGED serverMap
  /\ UNCHANGED <<client, wire, work, lib, ghost, faults>>

(* OnResponse gives up after waitRequestMaxSeconds without a request. *)
IdleExit(w) ==
  /\ server[w] = "running" /\ work[w].at = "idle" /\ requests[w] = <<>> /\ Fault
  /\ server' = [server EXCEPT ![w] = "ended"]
  /\ UNCHANGED <<client, serverMap, fileSystem, wire, work, lib, ghost>>

(***************************************************************************)
(* The handlers, and under them S3fsFileSystem and posix_s3fs_*.           *)
(***************************************************************************)
(* OnResponse takes a request when the last one is done; the handler loans *)
(* the response first.                                                     *)
Accepted(m) == [Idle EXCEPT !.req = m.req, !.by = m.by, !.seq = m.seq]
Taken(w) == IF work[w].at = "idle" THEN Accepted(Head(requests[w])) ELSE work[w]
Req(w) == Taken(w).req
Begin(w, ops) ==
  /\ server[w] = "running" /\ work[w].at = "idle" /\ requests[w] # <<>> /\ chunks # 0
  /\ fileSystem = "ready" /\ Req(w).op \in ops

(* A handler that takes several steps: its response is loaned. *)
Continue(w, h) ==
  /\ work' = [work EXCEPT ![w] = h]
  /\ requests' = [requests EXCEPT ![w] = Tail(@)]
  /\ chunks' = chunks - 1

(* The end of a handler: send the response, release the request. *)
Sent(w, a) ==
  /\ responses' = [responses EXCEPT ![w] = Append(@, [req |-> Req(w), by |-> Taken(w).by,
                                                      seq |-> Taken(w).seq, ans |-> a])]
  /\ requests' = IF work[w].at = "idle" THEN [requests EXCEPT ![w] = Tail(@)] ELSE requests
  /\ work' = [work EXCEPT ![w] = Idle]
RespondKeeps(w, a) == Sent(w, a) /\ chunks' = IF work[w].at = "idle" THEN chunks - 1 ELSE chunks
Respond(w, a) == Sent(w, a) /\ chunks' = IF work[w].at = "idle" THEN chunks ELSE chunks + 1

(* Without a chunk for the response the request is released and nothing    *)
(* is answered.  The pool is shared: other processes may have it empty.    *)
LoanFails(w) ==
  /\ server[w] = "running" /\ work[w].at = "idle" /\ requests[w] # <<>>
  /\ IF chunks = 0 THEN UNCHANGED <<faults, thread>>
     ELSE Fault /\ thread' = [thread EXCEPT ![Head(requests[w]).by].lost = TRUE]
  /\ requests' = [requests EXCEPT ![w] = Tail(@)]
  /\ chunks' = chunks + 1
  /\ UNCHANGED <<dummies, g_fdtofile, mine, calls, daemon, responses, sequence, work, lib, ghost>>

(* An answer POSIX does not allow, of a call no known deviation has met. *)
Judge(w, right, oddities) ==
  wrong' = IF right \/ oddities \cap odd # {} THEN wrong ELSE wrong \cup {Req(w).op}

rest == <<client, serverMap, fileSystem, sequence>>

(* A server that started while another was still in Init of the file       *)
(* system: its calls fail, or the daemon dies.                             *)
HandleUnready(w) ==
  /\ server[w] = "running" /\ requests[w] # <<>> /\ chunks # 0 /\ fileSystem # "ready"
  /\ \/ Respond(w, Ret(-5)) /\ UNCHANGED server
     \/ /\ server' = [v \in Threads |-> "ended"]
        /\ work' = [v \in Threads |-> Idle]
        /\ requests' = [v \in Threads |-> <<>>]
        /\ chunks' = Chunks - Cardinality({v \in Threads : responses[v] # <<>>})
        /\ UNCHANGED responses
  /\ UNCHANGED <<client, serverMap, fileSystem, sequence, lib, ghost, faults>>

(* FdManager: the smallest pseudo fd that is free. *)
GetUnusedMinPseudoFd == CHOOSE fd \in Fds : fd \notin DOMAIN pseudo /\ \A g \in 2..(fd - 1) : g \in DOMAIN pseudo
IsOpen(p) == \E fd \in DOMAIN pseudo : pseudo[fd].path = p

(* posix_s3fs_create and posix_s3fs_open.  O_CREAT of a file that looks    *)
(* empty makes it anew; O_TRUNC of a file that is open elsewhere does not  *)
(* reach its size.                                                         *)
Created(p) == [file[p] EXCEPT !.cached = TRUE]
Truncated(p) == [file[p] EXCEPT !.bytes = <<>>, !.stored = TRUE, !.cached = FALSE, !.dirty = FALSE]
posix_s3fs_open(p, flag) ==
  CASE p = Dir -> file
    [] flag = "creat" /\ (file[p].bytes = <<>> \/ ~file[p].stored) -> [file EXCEPT ![p] = Created(p)]
    [] flag = "trunc" /\ file[p].bytes # <<>> /\ ~IsOpen(p) -> [file EXCEPT ![p] = Truncated(p)]
    [] OTHER -> file
Found(p, flag) == IF p = Dir \/ flag = "creat" THEN TRUE ELSE Exists(p)

RecordFdSkips(fd, p) == IF fd > 2 THEN With(fdtofile, fd, [path |-> p, off |-> 0]) ELSE fdtofile
RecordFd(fd, p) == IF fd > 0 THEN With(fdtofile, fd, [path |-> p, off |-> 0]) ELSE fdtofile

HandleOpenRequest(w) ==
  LET p == Req(w).path
      flag == Req(w).flag
      fd == GetUnusedMinPseudoFd IN
  /\ Begin(w, {"open", "opendir"})
  /\ \/ /\ Found(p, flag)
        /\ file' = posix_s3fs_open(p, flag)
        /\ pseudo' = With(pseudo, fd, [path |-> p, pos |-> 0])
        /\ fdtofile' = RecordFd(fd, p)
        /\ odd' = (odd \ {OddFd(fd)}) \cup
                    (IF flag = "trunc" /\ file'[p].bytes # <<>> THEN {OddPath(p)} ELSE {})
        /\ Respond(w, Ret(fd))
     \/ ~Found(p, flag) /\ Respond(w, Ret(NoFd)) /\ UNCHANGED <<lib, odd>>
  /\ UNCHANGED <<rest, server, wrong, faults>>

(* GetExistFdEntity of the path the table has for a descriptor. *)
Known(fd) == fd \in DOMAIN fdtofile /\ fd \in DOMAIN pseudo /\ pseudo[fd].path = fdtofile[fd].path
Oddities(fd) == {OddFd(fd)} \cup (IF fd \in DOMAIN pseudo THEN {OddPath(pseudo[fd].path)} ELSE {})

(* Where a handler stands that uses the same descriptor, or the same file  *)
(* while one of the two is split and one writes.                           *)
Overlap(w) ==
  {v \in Threads \ {w} :
     /\ work[v].at \in {"io", "parts"} /\ Req(v).fd \in DOMAIN pseudo
     /\ \/ Req(v).fd = Req(w).fd
        \/ /\ pseudo[Req(v).fd].path = pseudo[Req(w).fd].path
           /\ "write" \in {Req(v).op, Req(w).op}
           /\ Req(v).n >= BlockSize \/ Req(w).n >= BlockSize}

(* HandleReadRequest and HandleWriteRequest, to where the offset has been  *)
(* read from the table.                                                    *)
IoBegin(w) ==
  LET r == Req(w) IN
  /\ Begin(w, {"read", "write"})
  /\ \/ /\ ~Known(r.fd)
        /\ Respond(w, Ret(-5))
        /\ Judge(w, FALSE, Oddities(r.fd))
        /\ UNCHANGED odd
     \/ /\ Known(r.fd)
        /\ Continue(w, [Taken(w) EXCEPT !.at = IF r.n >= BlockSize THEN "parts" ELSE "io",
                                        !.off = fdtofile[r.fd].off])
        /\ odd' = odd \cup {OddFd(Req(v).fd) : v \in Overlap(w)}
                      \cup (IF Overlap(w) # {} THEN {OddFd(r.fd)} ELSE {})
        /\ UNCHANGED <<responses, wrong>>
  /\ UNCHANGED <<rest, server, lib, faults>>

AtMost(a, b) == IF a < b THEN a ELSE b
ReadAt(p, off, n) == SubSeq(file[p].bytes, off + 1, AtMost(off + n, Len(file[p].bytes)))
WrittenAt(p, off, n, by) ==
  LET len == IF off + n > Len(file[p].bytes) THEN off + n ELSE Len(file[p].bytes) IN
  [file EXCEPT ![p].dirty = TRUE,
               ![p].bytes = [i \in 1..len |-> IF i > off /\ i <= off + n THEN by
                                              ELSE IF i <= Len(file[p].bytes) THEN file[p].bytes[i]
                                              ELSE "hole"]]

(* posix_s3fs_read and posix_s3fs_write: act at the offset read before,    *)
(* then add to the offset the table has now.                               *)
MoveOffset(fd, n) == [fdtofile EXCEPT ![fd].off = @ + n]
Io(w) ==
  LET r == Req(w)
      p == pseudo[r.fd].path
      pos == pseudo[r.fd].pos IN
  /\ work[w].at = "io"
  /\ \/ /\ ~Known(r.fd)       \* the entry is gone under the handler
        /\ Respond(w, Ret(-5)) /\ Judge(w, FALSE, Oddities(r.fd)) /\ UNCHANGED lib
     \/ /\ Known(r.fd) /\ r.op = "read"
        /\ fdtofile' = MoveOffset(r.fd, Len(ReadAt(p, work[w].off, r.n)))
        /\ pseudo' = [pseudo EXCEPT ![r.fd].pos = @ + Len(ReadAt(p, @, r.n))]
        /\ Respond(w, Data(ReadAt(p, work[w].off, r.n)))
        /\ Judge(w, ReadAt(p, work[w].off, r.n) = ReadAt(p, pos, r.n), Oddities(r.fd))
        /\ UNCHANGED file
     \/ /\ Known(r.fd) /\ r.op = "write"
        /\ file' = WrittenAt(p, work[w].off, r.n, work[w].by)
        /\ fdtofile' = MoveOffset(r.fd, r.n)
        /\ pseudo' = [pseudo EXCEPT ![r.fd].pos = @ + r.n]
        /\ Respond(w, Ret(r.n))
        /\ Judge(w, work[w].off = pos, Oddities(r.fd))
  /\ UNCHANGED <<rest, server, odd, faults>>

(* One thread of MultiRead or MultiWrite: its part, at the offset the      *)
(* table has when it runs.                                                 *)
IoPart(w, i) ==
  LET r == Req(w)
      at == fdtofile[r.fd].off + PartStart(i, r.n) IN
  /\ work[w].at = "parts" /\ i \notin DOMAIN work[w].got
  /\ \/ /\ ~Known(r.fd)
        /\ work' = [work EXCEPT ![w].got = With(@, i, Ret(-5))]
        /\ UNCHANGED file
     \/ /\ Known(r.fd) /\ r.op = "read"
        /\ work' = [work EXCEPT ![w].got = With(@, i, Data(ReadAt(fdtofile[r.fd].path, at, PartLen(i, r.n))))]
        /\ UNCHANGED file
     \/ /\ Known(r.fd) /\ r.op = "write"
        /\ file' = WrittenAt(fdtofile[r.fd].path, at, PartLen(i, r.n), work[w].by)
        /\ work' = [work EXCEPT ![w].got = With(@, i, Ret(PartLen(i, r.n)))]
  /\ UNCHANGED <<rest, server, requests, responses, chunks, fdtofile, pseudo, ghost, faults>>

(* The end of MultiRead and MultiWrite: the counts are added in the order  *)
(* of the parts, errors too, and posix_s3fs_lseek moves the offset by the  *)
(* sum.                                                                    *)
Total(got) == LET sum[i \in 0..Parts] == IF i = 0 THEN 0 ELSE sum[i - 1] + got[i].ret IN sum[Parts]
Joined(got) == FlattenSeq([i \in 1..Parts |-> got[i].data])
SeekBy(fd, n) == IF fdtofile[fd].off + n < 0 THEN fdtofile ELSE MoveOffset(fd, n)
MultiEndUnmoved(w) == fdtofile
MultiEnd(w) == SeekBy(Req(w).fd, Total(work[w].got))
IoEnd(w) ==
  LET r == Req(w)
      got == work[w].got
      p == pseudo[r.fd].path
      pos == pseudo[r.fd].pos IN
  /\ work[w].at = "parts" /\ DOMAIN got = 1..Parts
  /\ Respond(w, [ret |-> Total(got), data |-> Joined(got)])
  /\ \/ /\ ~Known(r.fd)
        /\ Judge(w, FALSE, Oddities(r.fd)) /\ UNCHANGED lib
     \/ /\ Known(r.fd)
        /\ fdtofile' = MultiEnd(w)
        /\ pseudo' = [pseudo EXCEPT ![r.fd].pos = @ + (IF r.op = "read" THEN Len(ReadAt(p, @, r.n)) ELSE r.n)]
        /\ Judge(w, IF r.op = "read" THEN Joined(got) = ReadAt(p, pos, r.n)
                    ELSE ReadAt(p, pos, r.n) = [i \in 1..r.n |-> work[w].by], Oddities(r.fd))
        /\ UNCHANGED file
  /\ UNCHANGED <<rest, server, odd, faults>>

(* posix_s3fs_lseek: SEEK_SET to the start, SEEK_END to the size of the    *)
(* open file.                                                              *)
HandleLseekRequest(w) ==
  LET r == Req(w)
      to == IF r.flag = "set" THEN 0 ELSE Len(file[pseudo[r.fd].path].bytes) IN
  /\ Begin(w, {"lseek"})
  /\ \/ /\ ~Known(r.fd)
        /\ Respond(w, Ret(-5)) /\ Judge(w, FALSE, Oddities(r.fd)) /\ UNCHANGED lib
     \/ /\ Known(r.fd)
        /\ fdtofile' = [fdtofile EXCEPT ![r.fd].off = to]
        /\ pseudo' = [pseudo EXCEPT ![r.fd].pos = to]
        /\ Respond(w, Ret(to))
        /\ UNCHANGED <<file, wrong>>
  /\ odd' = IF Overlap(w) # {} THEN odd \cup {OddFd(r.fd)} ELSE odd
  /\ UNCHANGED <<rest, server, faults>>

(* posix_s3fs_stat: the size is that of the open file when there is one,   *)
(* else that of the object; a new file that is not open has size 0 in the  *)
(* stat cache.                                                             *)
StatSize(p) == IF IsOpen(p) \/ file[p].stored THEN Len(file[p].bytes) ELSE 0
HandleStatRequest(w) ==
  LET p == Req(w).path IN
  /\ Begin(w, {"stat"})
  /\ \/ /\ Exists(p)
        /\ Respond(w, Ret(StatSize(p)))
        /\ Judge(w, StatSize(p) = Len(file[p].bytes), {OddPath(p)})
     \/ /\ ~Exists(p)
        /\ Respond(w, Ret(-2))
        /\ UNCHANGED wrong
  /\ UNCHANGED <<rest, server, lib, odd, faults>>

(* posix_s3fs_close, to the end of the scope of its AutoFdEntity: flush,    *)
(* upload a new file, give the pseudo fd back.  A failed flush gives it     *)
(* back too, and leaves the entry of fdtofile.                              *)
CloseRelease(w) ==
  LET fd == Req(w).fd
      p == pseudo[fd].path
      flushes == p # Dir /\ (file[p].dirty \/ file[p].cached) IN
  /\ Begin(w, {"close"})
  /\ \/ /\ ~Known(fd)
        /\ Respond(w, Ret(-5)) /\ Judge(w, FALSE, Oddities(fd))
        /\ UNCHANGED <<lib, odd, faults>>
     \/ /\ Known(fd)
        /\ pseudo' = Without(pseudo, fd)
        /\ file' = IF flushes THEN [file EXCEPT ![p].stored = TRUE, ![p].cached = FALSE, ![p].dirty = FALSE]
                   ELSE file
        /\ Continue(w, [Taken(w) EXCEPT !.at = "erase"])
        /\ UNCHANGED <<responses, fdtofile, ghost, faults>>
     \/ /\ Known(fd) /\ flushes /\ Fault
        /\ pseudo' = Without(pseudo, fd)
        /\ odd' = odd \cup {OddPath(p)}
        /\ Respond(w, Ret(-5))
        /\ UNCHANGED <<fdtofile, file, wrong>>
  /\ UNCHANGED <<rest, server>>

(* The last statement of posix_s3fs_close, after the number is free. *)
CloseErase(w) ==
  LET fd == Req(w).fd IN
  /\ work[w].at = "erase"
  /\ fdtofile' = Without(fdtofile, fd)
  /\ odd' = IF fd \in DOMAIN pseudo THEN odd \cup {OddFd(fd)} ELSE odd
  /\ Respond(w, Ret(0))
  /\ UNCHANGED <<rest, server, pseudo, file, wrong, faults>>

(* posix_s3fs_unlink: no lookup first, so an absent file is unlinked too;  *)
(* an open file loses its data.                                            *)
HandleUnlinkRequest(w) ==
  LET p == Req(w).path IN
  /\ Begin(w, {"unlink"})
  /\ file' = [file EXCEPT ![p] = [bytes |-> <<>>, stored |-> FALSE, cached |-> FALSE, dirty |-> @.dirty]]
  /\ odd' = IF IsOpen(p) THEN odd \cup {OddPath(p)} ELSE odd
  /\ Respond(w, Ret(0))
  /\ UNCHANGED <<rest, server, fdtofile, pseudo, wrong, faults>>

(* posix_s3fs_getdents: what S3 lists and then the new files, all of it    *)
(* from the offset on.  With nothing in S3 the number of bytes is not set, *)
(* and an offset past the end (files have gone since) is past the list.    *)
InOrder(names) == FlattenSeq([i \in DOMAIN Paths |-> IF Paths[i] \in names THEN <<Paths[i]>> ELSE <<>>])
Stored == InOrder({p \in Names : file[p].stored})
Listing == Stored \o InOrder({p \in Names : file[p].cached /\ ~file[p].stored})
HandleGetdentsRequest(w) ==
  LET r == Req(w)
      defined == r.fd \in DOMAIN fdtofile /\ Stored # <<>> /\ r.n <= Len(Listing)
      names == SubSeq(Listing, r.n + 1, Len(Listing)) IN
  /\ Begin(w, {"getdents"})
  /\ \/ /\ defined
        /\ Respond(w, Data(names))
        /\ Judge(w, r.n = 0 => Range(names) = {p \in Names : Exists(p)}, {OddFd(r.fd)})
        /\ UNCHANGED odd
     \/ /\ ~defined
        /\ Respond(w, Ret(0))
        /\ odd' = odd \cup {OddFd(r.fd)}
        /\ UNCHANGED wrong
  /\ UNCHANGED <<rest, server, lib, faults>>

(* Fsync of S3fsFileSystem does nothing and answers 0, as Ftruncate,        *)
(* Truncate and Rename do.                                                  *)
HandleNothing(w) ==
  /\ Begin(w, {"fsync"})
  /\ Respond(w, Ret(0))
  /\ UNCHANGED <<rest, server, lib, ghost, faults>>

HandleTerminalRequest(w) ==
  /\ Begin(w, {"terminal"})
  /\ server' = [server EXCEPT ![w] = "ended"]
  /\ Respond(w, Ret(0))
  /\ UNCHANGED <<rest, lib, ghost, faults>>

Handle(w) ==
  \/ LoanFails(w) \/ HandleUnready(w) \/ HandleOpenRequest(w) \/ IoBegin(w) \/ Io(w)
  \/ \E i \in 1..Parts : IoPart(w, i)
  \/ IoEnd(w) \/ HandleLseekRequest(w) \/ HandleStatRequest(w) \/ CloseRelease(w)
  \/ CloseErase(w) \/ HandleUnlinkRequest(w) \/ HandleGetdentsRequest(w)
  \/ HandleNothing(w) \/ HandleTerminalRequest(w)

Next ==
  \/ CreateServers
  \/ \E t \in Threads :
       \/ Hook(t) \/ ThreadInit(t) \/ StopClient(t) \/ Take(t, Wrapper(t))
       \/ ServerThread(t) \/ IdleExit(t) \/ Handle(t)

Spec == Init /\ [][Next]_vars

(* The threads run, the daemon scans every second, and a server that spins *)
(* takes the request that is queued.  No call and no fault has to happen.  *)
FairSpec ==
  /\ Spec /\ WF_vars(CreateServers)
  /\ \A t \in Threads :
       /\ WF_vars(ThreadInit(t)) /\ WF_vars(Take(t, Wrapper(t)))
       /\ WF_vars(ServerThread(t)) /\ WF_vars(Handle(t))

-----------------------------------------------------------------------------
(* Every read returns the bytes at the place POSIX gives the descriptor,   *)
(* every write lands there, stat tells the size, a listing from the start  *)
(* has every file, and no call on an open descriptor is refused: through   *)
(* the two tables, split reads and writes, and the offset moved after the  *)
(* data.  Except on descriptors and files a known deviation has met.  And  *)
(* what a call returns is all of the answer to its own request: OnRequest  *)
(* takes any response for the end of its wait and relies on there being no *)
(* other, and a long read is copied out of the response in parts.          *)
AnswersRight == wrong = {} /\ \A t \in Threads : thread[t].own

(* A descriptor the application holds is in its own table and in the       *)
(* library's ("record the opened fd", posix_op.cpp:303), and the library's  *)
(* entry names the file of that pseudo fd                                  *)
(* (except where a late erase of a close has met the new owner).           *)
FdKnown ==
  \A fd \in mine : OddFd(fd) \in odd \/ (fd \in DOMAIN g_fdtofile /\ Known(fd))

(* A call comes back unless its server has gone (idle for too long, or     *)
(* dead), was not there yet when the request was sent, or found the pool   *)
(* of other processes empty: no chunk is lost, no request unanswered.      *)
Stranded(t) == thread[t].lost \/ server[t] = "ended"
InCall(t) == thread[t].st \in {"waiting", "taking"}
CallsReturn == \A t \in Threads : InCall(t) ~> (~InCall(t) \/ Stranded(t))
=============================================================================
