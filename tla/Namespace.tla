----------------------------- MODULE Namespace ------------------------------
(***************************************************************************)
(* The FUSE handlers of s3fs.cpp over one S3 bucket, with the stat cache   *)
(* and the symbolic link cache (cache.cpp), the open files (FdEntity) and  *)
(* the local write and read caches, for the local configuration            *)
(* (UseGlobalCache = 0; nocopyapi, norenameapi and compat_dir off).        *)
(*                                                                         *)
(* A handler is a sequence of steps.  A step is one S3 request with the    *)
(* work on its answer, or one critical section of a cache.  The calls that *)
(* the kernel and libfuse never run together (Excluded) do not overlap;    *)
(* every other interleaving does, and the background flush of the          *)
(* accessor, which knows nothing of either, overlaps with everything.      *)
(*                                                                         *)
(* The caller is root, so that the permission checks come down to whether  *)
(* the object exists.  The content of a file is the call that wrote it     *)
(* (<<path, n>>), its headers are one number, and a directory is an object *)
(* "dir/", or only the prefix of other objects.                            *)
(***************************************************************************)
EXTENDS Integers, Sequences, FiniteSets, Functions

CONSTANTS
    Tasks,          \* threads of the FUSE loop
    Dirs, Files,    \* paths, as sequences of names; the mount point is <<>>
    Ops,            \* the handlers that are called
    UpdateParent,   \* update_parent_dir_stat
    Starts,         \* initial states: functions that give every path a situation, see Init
    MaxOps,         \* bound: calls
    MaxFaults       \* bound: failed S3 requests

Root == <<>>
Paths == Dirs \cup Files
Parent(p) == SubSeq(p, 1, Len(p) - 1)
Under(p, x) == Len(p) <= Len(x) /\ SubSeq(x, 1, Len(p)) = p
Children(p) == {c \in Paths : c # p /\ Parent(c) = p}

ASSUME NamespaceAssumption ==
    /\ UpdateParent \in BOOLEAN
    /\ MaxOps \in Nat /\ MaxFaults \in Nat
    /\ IsFiniteSet(Tasks) /\ IsFiniteSet(Paths)
    /\ Paths \subseteq Seq(UNION {Range(p) : p \in Paths}) \ {Root}
    /\ Dirs \cap Files = {} /\ \A p \in Files : Children(p) = {}

MoveTo(x, p, q) == q \o SubSeq(x, Len(p) + 1, Len(x))

Forms == {"", "/"}
Keys == Paths \X Forms
Nothing == <<Root, 0>>                        \* the content of a directory
None == [kind |-> "none", data |-> Nothing, mode |-> 0]
Obj(k, x, m) == [kind |-> k, data |-> x, mode |-> m]
Implicit == Obj("dir", Nothing, 0)            \* a directory that has no object
Clean == <<Root, -1>>                         \* nothing dirty, nothing cached
NoEnt == [fds |-> 0, pend |-> "no", mark |-> FALSE, mode |-> 0]

VARIABLES
    task,     \* a call in progress: the steps it has still to take
    s3,       \* key -> object
    wc, rc,   \* path -> content in the write cache, in the read cache
    ent,      \* path -> FdEntity: handles, pending_status, update_mark, orgmeta
    lock,     \* path -> the flush that holds the file lock of the accessor
    stat,     \* StatCache: key -> entry
    sym,      \* symlink_cache: path -> link
    ops, faults,
    want,     \* history: path -> what a caller may find there
    odd,      \* history: paths where the code is known to deviate
    live      \* history: contents that were stored, not under a running rename,
              \*          and that nobody removed or replaced

store == <<s3, wc, rc>>
caches == <<stat, sym>>
history == <<want, odd, live>>
vars == <<task, s3, wc, rc, ent, lock, stat, sym, ops, faults, want, odd, live>>

Idle == [op |-> "idle", p |-> Root, q |-> Root, v |-> 0, todo |-> <<>>, got |-> None,
         typ |-> "NEW", res |-> "OK", isnew |-> FALSE, up |-> 0, list |-> {}]

------------------------------------------------------------------------------
(* The stat cache.                                                         *)
Without(f, K) == [k \in DOMAIN f \ K |-> f[k]]
With(f, k, x) == [y \in DOMAIN f \cup {k} |-> IF y = k THEN x ELSE f[y]]
DelStat(p) == stat' = Without(stat, {<<p, "">>, <<p, "/">>})

Entry(o, force, nt) == [obj |-> o, force |-> force, nt |-> nt]
AddStat(p, f, e) ==
    /\ stat' = With(IF <<p, f>> \in DOMAIN stat
                    THEN Without(stat, {<<p, "">>, <<p, "/">>}) ELSE stat, <<p, f>>, e)
    /\ sym' = IF e.obj.kind = "link" \/ f = "/" THEN sym ELSE Without(sym, {p})

\* An entry expires after 15 minutes and TruncateCache drops the oldest, but
\* not those of open files: such an entry may be gone when it is looked up.
TruncateCache(k) == IF k \in DOMAIN stat THEN stat[k].nt = 0 ELSE TRUE

\* GetStat and IsNoObjectCache: "path/" first, then "path".
CacheKey(p, f, over) ==
    IF over /\ <<p, "/">> \in DOMAIN stat THEN <<p, "/">> ELSE <<p, f>>

\* Mutant: new files are not looked for.
GetNotruncateCacheNone(p) == {}

GetNotruncateCache(p) ==
    {c \in Children(p) : p # Root /\ <<c, "">> \in DOMAIN stat /\ stat[<<c, "">>].nt > 0}

------------------------------------------------------------------------------
(* What S3 answers.                                                        *)
HasObject(p) == \E f \in Forms : s3[<<p, f>>].kind # "none"
Listed(p) == {c \in Children(p) : \E x \in Paths : Under(c, x) /\ HasObject(x)}
directory_empty(p) == Listed(p) = {}

\* The HEAD requests of get_object_attribute, in their order.  A request that
\* fails for any reason is taken for "not found".
HeadChain(p, f, over, plainFails) ==
    LET o(x) == s3[<<p, x>>]
        ok(x) == o(x).kind # "none" /\ ~(plainFails /\ x = f)
    IN  CASE ok(f) -> [obj |-> o(f), form |-> f, force |-> FALSE]
          [] ~ok(f) /\ over /\ ok("/") -> [obj |-> o("/"), form |-> "/", force |-> FALSE]
          [] OTHER -> IF directory_empty(p) THEN [obj |-> None, form |-> f, force |-> FALSE]
                      ELSE [obj |-> Implicit, form |-> "/", force |-> TRUE]

------------------------------------------------------------------------------
(* The language of the handlers: a step is <<kind, ...>>.  A block         *)
(* <<"try", steps, how>> ends early at the first step in it that fails;    *)
(* "keep" makes its error the result of the call, "drop" forgets it.       *)
Attr(p, how) == <<"attr", p, "", TRUE, how>>
Try(steps, how) == <<<<"try", steps, how>>>>

\* The ancestors of a path, without the mount point, which is always found.
check_parent_object_access(p) ==
    IF Len(p) <= 1 THEN <<>> ELSE <<Attr(Parent(p), "must")>>
check_object_access(p, how) == IF p = Root THEN <<>> ELSE <<Attr(p, how)>>
check_object_owner(p) == <<Attr(p, "must")>>

\* chk_dir_object_type asks for "dir/" only.
chk_dir_object_type(p, how) == <<<<"attr", p, "/", FALSE, how>>>>
create_directory_object(p, m, soft) == <<<<"putdir", p, m, soft>>>>
create_file_object(p, kind, soft) == <<<<"putfile", p, kind, soft>>>>

\* m = 0 keeps the headers just read (and only the times change).
put_headers(p, f, m) == <<<<"puthead", p, f, m>>>>

\* A directory that has no object gets one; there is nothing for
\* remove_old_type_dir to remove.
remove_old_type_dir(p, m) ==
    <<<<"delstat", p>>>> \o create_directory_object(p, m, FALSE)

update_mctime_parent_directory(p) ==
    IF ~UpdateParent \/ Parent(p) = Root THEN <<>>
    ELSE LET d == Parent(p)
         IN  Try(chk_dir_object_type(d, "type") \o <<Attr(d, "must")>> \o
                 <<<<"iftype", remove_old_type_dir(d, 0),
                     put_headers(d, "/", 0) \o <<<<"delstat", d>>>>>>>>, "drop")

s3fs_getattr(p) == check_parent_object_access(p) \o check_object_access(p, "must")
s3fs_getxattr(p) == check_parent_object_access(p) \o <<Attr(p, "must")>>
s3fs_listxattr(p) == check_parent_object_access(p) \o <<Attr(p, "must")>>
s3fs_access(p) == check_object_access(p, "must")
s3fs_opendir(p) == check_object_access(p, "must") \o check_parent_object_access(p)
s3fs_readlink(p) == <<<<"getsym", p>>, Attr(p, "must"), <<"readlink", p>>>>

s3fs_mknod(p) ==
    create_file_object(p, "file", FALSE) \o <<<<"delstat", p>>>> \o
    update_mctime_parent_directory(p)

s3fs_create(p) ==
    check_parent_object_access(p) \o check_object_access(p, "may") \o
    <<<<"create", p>>>>

s3fs_mkdir(p) ==
    check_parent_object_access(p) \o check_object_access(p, "absent") \o
    create_directory_object(p, 0, TRUE) \o <<<<"delstat", p>>>> \o
    update_mctime_parent_directory(p)

\* Mutant: the entry of the removed file stays in the stat cache.
s3fs_unlinkNoDelStat(p) ==
    check_parent_object_access(p) \o
    <<<<"delete", p>>, <<"delsym", p>>>> \o update_mctime_parent_directory(p)

s3fs_unlink(p) ==
    check_parent_object_access(p) \o
    <<<<"delete", p>>, <<"delstat", p>>, <<"delsym", p>>>> \o
    update_mctime_parent_directory(p)

\* The result is that of the last delete that was tried.
s3fs_rmdir(p) ==
    check_parent_object_access(p) \o
    <<<<"empty", p>>, <<"del", p, "/">>, <<"delstat", p>>,
      <<"attr", p, "", FALSE, "may">>, <<"ifolddir", p>>>> \o
    update_mctime_parent_directory(p)

s3fs_symlink(p) ==
    check_parent_object_access(p) \o check_object_access(p, "absent") \o
    create_file_object(p, "link", TRUE) \o <<<<"delstat", p>>, <<"addsym", p>>>> \o
    update_mctime_parent_directory(p)

\* Mutant: the original is removed although the copy failed.
rename_objectUnchecked(p, q) ==
    check_parent_object_access(q) \o check_parent_object_access(p) \o
    <<Attr(p, "must")>> \o Try(<<<<"copy", p, q>>>>, "keep") \o <<<<"fdrename", p, q>>>> \o
    Try(s3fs_unlink(p), "keep") \o <<<<"delstat", q>>>>

\* rename_large_object copies in parts and is otherwise the same.
rename_object(p, q) ==
    check_parent_object_access(q) \o check_parent_object_access(p) \o
    <<Attr(p, "must"), <<"copy", p, q>>, <<"fdrename", p, q>>>> \o
    Try(s3fs_unlink(p), "keep") \o <<<<"delstat", q>>>>

clone_directory_object(p, q) ==
    <<Attr(p, "must")>> \o create_directory_object(q, 0, FALSE) \o <<<<"delstat", q>>>>

\* The entries are looked up first; one that is not found is passed over.  Then
\* the directory is made, the files are moved one by one, and the old directory
\* goes.  "mvlist" and its loop "mvlook" are the first part, "mvgo" with its loop
\* "mvfiles" the second.
rename_directory(p, q) ==
    chk_dir_object_type(p, "typemay") \o <<<<"mvlist", p, q>>, <<"mvgo", p, q>>>>

s3fs_rename(p, q) ==
    check_parent_object_access(q) \o check_parent_object_access(p) \o
    <<Attr(p, "must"), <<"empty", q>>, <<"flushopen", p>>,
      <<"ifdir", Try(rename_directory(p, q), "keep"), Try(rename_object(p, q), "keep")>>>> \o
    update_mctime_parent_directory(q)

\* chmod, chown, utimens, setxattr and removexattr: the headers are replaced
\* by a copy of the object onto itself, or kept in the entity of a file whose
\* upload is pending.
SetHeaders(p, v, dirSteps) ==
    check_parent_object_access(p) \o check_object_owner(p) \o
    <<<<"ifdir", chk_dir_object_type(p, "type") \o
          <<<<"iftype", dirSteps, put_headers(p, "/", v) \o <<<<"delstat", p>>>>>>>>,
        <<Attr(p, "must"), <<"merge", p, v>>>>>>>>

s3fs_chmod(p, v) == SetHeaders(p, v, remove_old_type_dir(p, v))
s3fs_chown(p, v) == SetHeaders(p, v, remove_old_type_dir(p, v))
s3fs_utimens(p, v) == SetHeaders(p, v, remove_old_type_dir(p, v))
s3fs_setxattr(p, v) ==
    SetHeaders(p, v, remove_old_type_dir(p, 0) \o put_headers(p, "/", v) \o <<<<"delstat", p>>>>)
s3fs_removexattr(p, v) == s3fs_setxattr(p, v)

s3fs_truncate(p) ==
    check_parent_object_access(p) \o check_object_access(p, "must") \o <<<<"write", p>>>>
s3fs_open(p) ==
    <<<<"openstat", p>>>> \o check_parent_object_access(p) \o
    check_object_access(p, "may") \o <<<<"attr", p, "", TRUE, "open">>>>
s3fs_write(p) == <<<<"write", p>>>>
s3fs_read(p) == <<<<"read", p>>>>

s3fs_flush(p) ==
    check_parent_object_access(p) \o check_object_access(p, "may") \o
    Try(<<<<"rowflush", p, "changed">>>>, "keep") \o <<<<"delstat", p>>, <<"ifnew", p>>>>
s3fs_fsync(p, datasync) ==
    Try(<<<<"rowflush", p, "changed">>>>, "keep") \o
    (IF datasync THEN <<<<"markmeta", p>>>> ELSE <<>>) \o <<<<"ifnew", p>>, <<"delstat", p>>>>

\* The handle is closed whatever happens before.
s3fs_release(p) ==
    Try(<<<<"rowflush", p, "modified">>, <<"delstat", p>>, <<"pending", p>>,
          <<"ifnew", p>>>>, "keep") \o <<<<"close", p>>>>

s3fs_readdir(p) == check_object_access(p, "must") \o <<<<"list", p>>>>

\* The accessor flushes a dirty file on its own.
BackgroundFlush(p) == <<<<"bgflush", p>>>>

------------------------------------------------------------------------------
(* The interpreter.                                                        *)
Strip(todo) ==
    LET J == {i \in 1 .. Len(todo) : todo[i][1] # "mark"}
    IN  IF J = {} THEN <<>> ELSE SubSeq(todo, CHOOSE i \in J : \A j \in J : i <= j, Len(todo))

\* A step that fails ends the innermost block, or the call.
Failed(r, err) ==
    LET J == {i \in 1 .. Len(r.todo) : r.todo[i][1] = "mark"}
        j == CHOOSE i \in J : \A k \in J : i <= k
    IN  IF J = {} THEN [r EXCEPT !.todo = <<>>, !.res = err]
        ELSE [r EXCEPT !.todo = SubSeq(@, j, Len(@)),
                       !.res = IF r.todo[j][2] = "keep" THEN err ELSE @]

MoveAll(r, p, q) ==
    (IF r.typ = "UNKNOWN" THEN <<>> ELSE clone_directory_object(p, q)) \o
    <<<<"mvfiles", p, q>>>> \o
    (CASE r.typ = "UNKNOWN" -> <<>>
       [] r.typ = "NOOBJ" -> <<<<"delstat", p>>>>
       [] OTHER -> s3fs_rmdir(p))

\* The branches of a handler that look at nothing but its own variables.
Branch(r, todo, s) ==
    LET then(steps) == [r EXCEPT !.todo = steps \o Tail(todo)]
        pick(b) == then(IF b THEN s[2] ELSE s[3])
        one(S) == CHOOSE c \in S : TRUE
    IN  CASE s[1] = "try" -> then(s[2] \o <<<<"mark", s[3]>>>>)
          [] s[1] = "ifdir" -> pick(r.got.kind = "dir")
          [] s[1] = "iftype" -> pick(r.typ # "NEW")
          [] s[1] = "ifolddir" ->
               then(IF r.got.kind = "dir" THEN <<<<"del", s[2], "">>, <<"delstat", s[2]>>>> ELSE <<>>)
          [] s[1] = "ifnew" ->
               then(IF r.isnew THEN update_mctime_parent_directory(s[2]) ELSE <<>>)
          [] s[1] = "mvlook" ->
               then(IF s[3] = {} THEN <<>> ELSE <<Attr(one(s[3]), "kid"),
                                                  <<"mvlook", s[2], s[3] \ {one(s[3])}>>>>)
          [] s[1] = "mvgo" -> then(MoveAll(r, s[2], s[3]))
          [] s[1] = "mvfiles" ->
               IF r.list = {} THEN then(<<>>)
               ELSE [then(rename_object(one(r.list), MoveTo(one(r.list), s[2], s[3])) \o
                          <<<<"barrier">>, s>>) EXCEPT !.list = @ \ {one(r.list)}]
          [] s[1] = "barrier" -> IF r.res = "OK" THEN then(<<>>) ELSE Failed(r, r.res)
          [] OTHER -> [r EXCEPT !.todo = todo]

Unfold(r) ==
    LET todo == Strip(r.todo)
    IN  IF todo = <<>> THEN [r EXCEPT !.todo = <<>>] ELSE Branch(r, todo, Head(todo))

Goto(t, r) == task' = [task EXCEPT ![t] = Unfold(Unfold(Unfold(Unfold(r))))]
Pop(t) == [task[t] EXCEPT !.todo = Tail(@)]
Push(t, steps) == [task[t] EXCEPT !.todo = steps \o Tail(@)]
Step(t) == Head(task[t].todo)
At(t, kind) == task[t].todo # <<>> /\ Step(t)[1] = kind

\* An S3 request: it may fail, and a request that failed may have been carried
\* out all the same.  new is the bucket it makes, dead the contents it replaces
\* on behalf of its caller.  A soft failure only sets the result.
Request(t, new, dead, born, soft) ==
    \E out \in {"ok", "failed", "unheard"} :
        /\ faults' = IF out = "ok" THEN faults ELSE faults + 1
        /\ faults' <= MaxFaults
        /\ IF out = "failed" THEN UNCHANGED <<s3, live>>
           ELSE s3' = new /\ live' = ((live \ dead) \cup born) \ {Nothing}
        /\ Goto(t, IF out = "ok" THEN [Pop(t) EXCEPT !.res = IF soft THEN "OK" ELSE @]
                   ELSE IF soft THEN [Pop(t) EXCEPT !.res = "EIO"]
                   ELSE Failed(task[t], "EIO"))

------------------------------------------------------------------------------
(* get_object_attribute: the cache, then S3, then the cache again.         *)
Dirty(p) == wc[p] # Clean
Data(p) == IF Dirty(p) THEN wc[p] ELSE IF rc[p] # Clean THEN rc[p] ELSE s3[<<p, "">>].data

\* The FdEntity of a first open takes the headers that were just read.
Open(p, o) ==
    /\ ent' = [ent EXCEPT ![p] = IF @.fds > 0 THEN [@ EXCEPT !.fds = @ + 1]
                                 ELSE [NoEnt EXCEPT !.fds = 1, !.mark = TRUE, !.mode = o.mode]]

\* What a caller does with the answer: an object, or None.
Answer(t, how, p, o, force, wrong) ==
    LET r == [Pop(t) EXCEPT !.got = o]
        typed(b) == [r EXCEPT !.typ = b]
    IN  /\ CASE how \in {"must", "open"} ->
                  Goto(t, IF o = None THEN Failed(task[t], "ENOENT") ELSE r)
             [] how = "may" -> Goto(t, r)
             [] how = "absent" -> Goto(t, IF o = None THEN r ELSE Failed(task[t], "EEXIST"))
             [] how = "kid" ->
                  Goto(t, IF o = None THEN r ELSE [r EXCEPT !.list = @ \cup {p}])
             [] how \in {"type", "typemay"} ->
                  Goto(t, CASE o # None -> typed(IF force THEN "NOOBJ" ELSE "NEW")
                            [] o = None /\ how = "type" -> Failed(task[t], "ENOENT")
                            [] OTHER -> typed("UNKNOWN"))
        /\ IF how = "open" /\ o # None THEN Open(p, o) ELSE UNCHANGED ent
        /\ odd' = odd \cup
             {x \in Paths : \/ how = "open" /\ x = p /\ ent[p].fds = 0 /\ s3[<<p, "">>].mode # o.mode
                            \/ /\ wrong \/ (how \in {"kid", "typemay"} /\ o = None)
                               /\ \E y \in {p, task[t].p, task[t].q} : Under(y, x)}

GetStat(t) ==
    /\ At(t, "attr")
    /\ LET s == Step(t)
           k == CacheKey(s[2], s[3], s[4])
       IN  /\ k \in DOMAIN stat
           /\ Answer(t, s[5], s[2], stat[k].obj, stat[k].force, FALSE)
    /\ UNCHANGED <<store, lock, caches, ops, faults, want, live>>

HeadRequest(t) ==
    /\ At(t, "attr")
    /\ LET s == Step(t)
           k == CacheKey(s[2], s[3], s[4])
       IN  /\ TruncateCache(k) /\ stat' = Without(stat, {k})
           /\ \E fails \in BOOLEAN :
                /\ faults' = faults + (IF fails THEN 1 ELSE 0) /\ faults' <= MaxFaults
                /\ task' = [task EXCEPT ![t] =
                     Push(t, <<<<"fill", s[2], s[3], s[4], s[5],
                                 HeadChain(s[2], s[3], s[4], fails)>>>>)]
    /\ UNCHANGED <<store, ent, lock, sym, ops, history>>

\* A caller that asks whether the directory is implicit (chk_dir_object_type)
\* takes the flag that AddStat would store: the entry is not forced, and
\* without headers it is taken for a file.
get_object_attribute(t) ==
    /\ At(t, "fill")
    /\ LET s == Step(t)
           a == s[6]
           p == s[2]
           typing == s[5] \in {"type", "typemay"}
           obj == IF typing /\ a.force THEN Obj("file", Nothing, 0) ELSE a.obj
           force == a.force /\ ~typing
           wrong == \/ a # HeadChain(p, s[3], s[4], FALSE) \/ obj # a.obj
                    \/ ent[p].pend = "create"
           nt == IF s[5] = "open" THEN 1 ELSE 0
       IN  /\ AddStat(p, IF obj = None THEN s[3] ELSE a.form, Entry(obj, force, nt))
           /\ Answer(t, s[5], p, obj, force, wrong)
    /\ UNCHANGED <<store, lock, ops, faults, want, live>>

------------------------------------------------------------------------------
(* The requests that change the bucket.                                    *)
PutDirectory(t) ==
    /\ At(t, "putdir")
    /\ LET p == Step(t)[2]
           m == IF Step(t)[3] = 0 THEN task[t].got.mode ELSE Step(t)[3]
           old == s3[<<p, "/">>]
       IN  /\ Request(t, [s3 EXCEPT ![<<p, "/">>] = Obj("dir", Nothing, m)], {}, {}, Step(t)[4])
           /\ odd' = odd \cup {x \in {p} : \/ Step(t)[3] = 0 /\ old # None /\ old.mode # m
                                           \/ Step(t)[3] # 0 /\ CacheKey(p, "", TRUE) \in DOMAIN stat
                                           \/ p = task[t].p /\ task[t].op = "rename"}
    /\ UNCHANGED <<wc, rc, ent, lock, caches, ops, want>>

PutFile(t) ==
    /\ At(t, "putfile")
    /\ LET p == Step(t)[2]
           x == IF Step(t)[3] = "link" THEN <<p, task[t].v>> ELSE Nothing
       IN  Request(t, [s3 EXCEPT ![<<p, "">>] = Obj(Step(t)[3], x, 0)],
                   {s3[<<p, "">>].data}, {x}, Step(t)[4])
    /\ UNCHANGED <<wc, rc, ent, lock, caches, ops, want, odd>>

\* A copy of the object onto itself, with headers that were read before.
PutHeadRequest(t) ==
    /\ At(t, "puthead")
    /\ LET s == Step(t)
           k == <<s[2], s[3]>>
           m == IF s[4] = 0 THEN task[t].got.mode ELSE s[4]
       IN  IF s3[k] = None
           THEN Goto(t, Failed(task[t], "ENOENT")) /\ UNCHANGED <<s3, live, faults, odd>>
           ELSE /\ Request(t, [s3 EXCEPT ![k] = Obj(@.kind, @.data, m)], {}, {}, FALSE)
                /\ odd' = odd \cup {x \in {s[2]} : s[4] = 0 /\ s3[k].mode # m}
    /\ UNCHANGED <<wc, rc, ent, lock, caches, ops, want>>

\* The copy of a rename.  The caches of the target are not touched.
CopyObject(t) ==
    /\ At(t, "copy")
    /\ LET p == Step(t)[2]
           q == Step(t)[3]
           src == s3[<<p, "">>]
           got == task[t].got
       IN  IF src = None
           THEN Goto(t, Failed(task[t], "ENOENT")) /\ UNCHANGED <<s3, live, faults, odd>>
           ELSE /\ Request(t, [s3 EXCEPT ![<<q, "">>] = Obj(got.kind, src.data, got.mode)],
                           {s3[<<q, "">>].data}, {}, FALSE)
                /\ odd' = odd \cup {x \in {q} : Dirty(p) \/ Dirty(q) \/ rc[q] # Clean
                                               \/ q \in DOMAIN sym \/ src.mode # got.mode
                                               \/ p \in odd}
    /\ UNCHANGED <<wc, rc, ent, lock, caches, ops, want>>

DeleteRequest(t) ==
    /\ At(t, "del")
    /\ Request(t, [s3 EXCEPT ![<<Step(t)[2], Step(t)[3]>>] = None], {}, {}, TRUE)
    /\ UNCHANGED <<wc, rc, ent, lock, caches, ops, want, odd>>

\* accessor->Delete, under the file lock: both caches, then S3.
Delete(t) ==
    /\ At(t, "delete")
    /\ LET p == Step(t)[2]
           x == s3[<<p, "">>].data
           gone == {y \in {x, wc[p]} : /\ task[t].op = "rename" /\ y \notin {Clean, Nothing}
                                       /\ \A k \in Keys \ {<<p, "">>} : s3[k].data # y}
       IN  /\ lock[p] = ""
           /\ wc' = [wc EXCEPT ![p] = Clean] /\ rc' = [rc EXCEPT ![p] = Clean]
           /\ Request(t, [s3 EXCEPT ![<<p, "">>] = None],
                      IF task[t].op = "unlink" THEN {x} ELSE {}, {}, TRUE)
           /\ odd' = IF gone # {} \/ (Dirty(p) /\ task[t].op = "rename")
                     THEN odd \cup {p, MoveTo(p, task[t].p, task[t].q)} ELSE odd
    /\ UNCHANGED <<ent, lock, caches, ops, want>>

ListBucket(t) ==
    /\ \E ok \in BOOLEAN :
         /\ faults' = faults + (IF ok THEN 0 ELSE 1) /\ faults' <= MaxFaults
         /\ \/ /\ At(t, "empty")
               /\ Goto(t, IF ok /\ directory_empty(Step(t)[2]) THEN Pop(t)
                          ELSE Failed(task[t], "ENOTEMPTY"))
            \/ /\ At(t, "mvlist")
               /\ LET p == Step(t)[2]
                      kids == (Listed(p) \cup GetNotruncateCache(p)) \cap Files
                  IN  Goto(t, IF ok THEN Push(t, <<<<"mvlook", p, kids>>>>)
                              ELSE Failed(task[t], "EIO"))
            \/ /\ At(t, "list") /\ ~ok
               /\ Goto(t, Failed(task[t], "EIO"))
    /\ UNCHANGED <<store, ent, lock, caches, ops, history>>

------------------------------------------------------------------------------
(* readdir.  Its steps keep the names it may miss for a reason that is not *)
(* in its hands (missed): see ReaddirComplete.                             *)
Heads(p, waiting, heard, missed) ==
    IF waiting \cup heard = {} THEN <<<<"listed", p, missed>>>>
    ELSE <<<<"heads", p, waiting, heard, missed>>>>

\* The answer of S3: the keys, directories with "/", and their ETags.  An empty
\* one ends the call.
ListNames(t) ==
    /\ At(t, "list")
    /\ LET p == Step(t)[2]
           form(c) == IF s3[<<c, "/">>] # None \/ ~directory_empty(c) THEN "/" ELSE ""
           found == [c \in Listed(p) |-> <<form(c), s3[<<c, form(c)>>].data>>]
       IN  Goto(t, Push(t, IF Listed(p) = {} THEN Heads(p, {}, {}, {})
                           ELSE <<<<"names", p, found>>>>))
    /\ UNCHANGED <<store, ent, lock, caches, ops, faults, history>>

\* HasStat for every name and for the new files.  An entry whose ETag is not the
\* listed one is dropped; that of a new file has none, nor has its name.
\* A directory is shown in any case (SufficiencyFill).
Readdir(t) ==
    /\ At(t, "names")
    /\ LET p == Step(t)[2]
           found == Step(t)[3]
           names == DOMAIN found \cup GetNotruncateCache(p)
           form(c) == IF c \in DOMAIN found THEN found[c][1] ELSE ""
           key(c) == CacheKey(c, form(c), TRUE)
           known == {c \in names : key(c) \in DOMAIN stat /\ stat[key(c)].obj # None}
           same(c) == c \in DOMAIN found => stat[key(c)].obj.data = found[c][2]
           sure == {c \in known : same(c) /\ ~TruncateCache(key(c))}
           may == {c \in known : same(c) \/ stat[key(c)].obj.data = Nothing}
       IN  \E hits \in SUBSET may :
             /\ sure \subseteq hits
             /\ stat' = Without(stat, (known \ hits) \X Forms)
             /\ Goto(t, [Push(t, Heads(p, {<<c, form(c)>> : c \in names \ hits}, {},
                                       Listed(p) \ names))
                         EXCEPT !.list = hits \cup {c \in names : form(c) = "/"}])
    /\ UNCHANGED <<store, ent, lock, sym, ops, faults, history>>

\* The requests for the other names run together; one that fails is passed over.
MultiHead(t) ==
    /\ At(t, "heads")
    /\ LET s == Step(t)
       IN  \E k \in s[3], ok \in BOOLEAN :
             /\ faults' = faults + (IF ok THEN 0 ELSE 1) /\ faults' <= MaxFaults
             /\ Goto(t, Push(t, Heads(s[2], s[3] \ {k},
                                      IF ok /\ s3[k] # None THEN s[4] \cup {<<k, s3[k]>>} ELSE s[4],
                                      IF ok THEN s[5] ELSE s[5] \cup {k[1]})))
    /\ UNCHANGED <<store, ent, lock, caches, ops, history>>

\* The answer goes to the stat cache without the mark of an open file.
multi_head_callback(t) ==
    /\ At(t, "heads")
    /\ LET s == Step(t)
       IN  \E a \in s[4] :
             LET k == a[1]
             IN  /\ AddStat(k[1], k[2], Entry(a[2], FALSE, 0))
                 /\ odd' = odd \cup {c \in {k[1]} : s3[k] # a[2]}
                 /\ Goto(t, [Push(t, Heads(s[2], s[3], s[4] \ {a}, s[5]))
                             EXCEPT !.list = @ \cup {k[1]}])
    /\ UNCHANGED <<store, ent, lock, ops, faults, want, live>>

------------------------------------------------------------------------------
(* Flushing: RowFlush holds the lock of the entity and accessor->Flush the *)
(* file lock; the background flush holds only the latter.                  *)
RowFlush(t) ==
    /\ At(t, "rowflush")
    /\ LET p == Step(t)[2]
           cond == Step(t)[3]
           e == ent[p]
           need == /\ e.fds > 0
                   /\ \/ cond = "forced" \/ e.mark
                      \/ cond = "changed" /\ e.pend = "meta"
           new == IF task[t].op = "release" THEN task[t].isnew ELSE e.pend = "create"
       IN  \/ /\ ~need /\ Goto(t, [Pop(t) EXCEPT !.isnew = new])
              /\ UNCHANGED lock
           \/ /\ need /\ lock[p] = ""
              /\ lock' = [lock EXCEPT ![p] = "row"]
              /\ Goto(t, [Push(t, <<<<"upload", p>>>>) EXCEPT !.up = e.mode, !.isnew = new])
    /\ UNCHANGED <<store, ent, caches, ops, faults, history>>

FlushDirty(t) ==
    /\ At(t, "bgflush")
    /\ LET p == Step(t)[2]
       IN  /\ lock[p] = ""
           /\ IF ent[p].fds = 0 THEN Goto(t, Failed(task[t], "EIO")) /\ UNCHANGED lock
              ELSE /\ lock' = [lock EXCEPT ![p] = "bg"]
                   /\ Goto(t, [Push(t, <<<<"upload", p>>>>) EXCEPT !.up = ent[p].mode])
    /\ UNCHANGED <<store, ent, caches, ops, faults, history>>

\* The write cache is emptied and the read cache filled once S3 has the data.
UpLoad(t) ==
    /\ At(t, "upload")
    /\ LET p == Step(t)[2]
           x == Data(p)
           ok == faults' = faults
           moving == \E u \in Tasks \ {t} : task[u].op = "rename" /\ Under(task[u].p, p)
       IN  /\ Request(t, [s3 EXCEPT ![<<p, "">>] = Obj("file", x, task[t].up)],
                      {s3[<<p, "">>].data} \ {x}, IF moving THEN {} ELSE {x}, FALSE)
           /\ lock' = [lock EXCEPT ![p] = ""]
           /\ wc' = IF ok THEN [wc EXCEPT ![p] = Clean] ELSE wc
           /\ rc' = IF ok THEN [rc EXCEPT ![p] = x] ELSE rc
           /\ ent' = IF ok /\ lock[p] = "row"
                     THEN [ent EXCEPT ![p].mark = FALSE, ![p].pend = "no"] ELSE ent
           /\ odd' = odd \cup {y \in {p} : ent[p].mode # task[t].up}
    /\ UNCHANGED <<caches, ops, want>>

\* UploadPending: a new file is flushed, changed headers are put.
UploadPending(t) ==
    /\ At(t, "pending")
    /\ LET p == Step(t)[2]
           e == ent[p]
       IN  /\ Goto(t, [(CASE e.pend = "create" -> Push(t, <<<<"rowflush", p, "forced">>>>)
                           [] e.pend = "meta" -> Push(t, put_headers(p, "", e.mode) \o <<<<"clearpend", p>>>>)
                           [] OTHER -> Pop(t)) EXCEPT !.isnew = e.pend = "create"])
    /\ UNCHANGED <<store, ent, lock, caches, ops, faults, history>>

\* MergeOrgMeta: the headers wait for the upload of a new file, else they are put.
MergeOrgMeta(t) ==
    /\ At(t, "merge")
    /\ LET p == Step(t)[2]
           v == Step(t)[3]
           o == Obj(task[t].got.kind, task[t].got.data, v)
       IN  /\ lock[p] # "row"
           /\ ent' = IF ent[p].fds > 0 THEN [ent EXCEPT ![p].mode = v] ELSE ent
           /\ IF ent[p].fds > 0 /\ ent[p].pend # "no"
              THEN AddStat(p, "", Entry(o, FALSE, 1)) /\ Goto(t, Pop(t))
              ELSE /\ UNCHANGED caches
                   /\ Goto(t, Push(t, put_headers(p, "", v) \o <<<<"delstat", p>>>>))
    /\ UNCHANGED <<store, lock, ops, faults, history>>

------------------------------------------------------------------------------
(* The steps that touch no remote state.                                   *)
\* A flush that failed drops the entry too, the only record of a new file, and
\* fdatasync that of headers which only the entity has.
StatStep(t) ==
    /\ \/ At(t, "delstat") /\ DelStat(Step(t)[2]) /\ UNCHANGED sym
       \/ At(t, "openstat") /\ UNCHANGED sym
            /\ IF ent[Step(t)[2]].fds = 0 THEN DelStat(Step(t)[2]) ELSE UNCHANGED stat
       \/ At(t, "delsym") /\ sym' = Without(sym, {Step(t)[2]}) /\ UNCHANGED stat
       \/ At(t, "addsym") /\ sym' = With(sym, Step(t)[2], <<Step(t)[2], task[t].v>>)
            /\ UNCHANGED stat
       \/ At(t, "readlink") /\ sym' = With(sym, Step(t)[2], Data(Step(t)[2]))
            /\ UNCHANGED stat
    /\ odd' = odd \cup {p \in {Step(t)[2]} : /\ At(t, "delstat") /\ ent[p].pend # "no"
                                            /\ \/ s3[<<p, "">>] = None
                                               \/ s3[<<p, "">>].mode # ent[p].mode}
    /\ Goto(t, Pop(t))
    /\ UNCHANGED <<store, ent, lock, ops, faults, want, live>>

\* A link may be gone as well (TruncateSymlink).
GetSymlink(t) ==
    /\ At(t, "getsym")
    /\ \/ Goto(t, Pop(t)) /\ sym' = Without(sym, {Step(t)[2]})
       \/ /\ Step(t)[2] \in DOMAIN sym
          /\ Goto(t, [Pop(t) EXCEPT !.todo = <<>>]) /\ UNCHANGED sym
    /\ UNCHANGED <<store, ent, lock, stat, ops, faults, history>>

\* The entry of a new file stays in the stat cache until the file is uploaded.
Create(t) ==
    /\ At(t, "create")
    /\ LET p == Step(t)[2]
       IN  /\ AddStat(p, "", Entry(Obj("file", Nothing, 0), FALSE, 1))
           /\ ent' = [ent EXCEPT ![p] = [fds |-> @.fds + 1, pend |-> "create",
                                         mark |-> TRUE, mode |-> 0]]
    /\ Goto(t, Pop(t))
    /\ UNCHANGED <<store, lock, ops, faults, history>>

EntityStep(t) ==
    /\ LET p == Step(t)[2]
       IN  \/ /\ At(t, "fdrename")
              /\ ent' = [ent EXCEPT ![Step(t)[3]] = IF ent[p].fds > 0 THEN ent[p] ELSE @,
                                    ![p] = NoEnt]
              /\ Goto(t, Pop(t))
           \/ /\ At(t, "markmeta")
              /\ ent' = [ent EXCEPT ![p].pend = IF @ = "no" THEN "meta" ELSE @]
              /\ Goto(t, Pop(t))
           \/ /\ At(t, "clearpend")
              /\ ent' = [ent EXCEPT ![p].pend = "no"]
              /\ Goto(t, Pop(t))
           \/ /\ At(t, "close")
              /\ ent' = [ent EXCEPT ![p] = IF @.fds = 1 THEN NoEnt ELSE [@ EXCEPT !.fds = @ - 1]]
              /\ Goto(t, Pop(t))
           \/ /\ At(t, "flushopen")
              /\ Goto(t, IF ent[p].fds > 0
                         THEN Push(t, <<<<"rowflush", p, "forced">>, <<"delstat", p>>>>)
                         ELSE Pop(t))
              /\ UNCHANGED ent
    /\ UNCHANGED <<store, lock, caches, ops, faults, history>>

\* accessor->Put and accessor->Get, once no flush holds the file.
WriteCachePut(t) ==
    /\ At(t, "write") /\ lock[Step(t)[2]] = ""
    /\ wc' = [wc EXCEPT ![Step(t)[2]] = <<Step(t)[2], task[t].v>>]
    /\ ent' = [ent EXCEPT ![Step(t)[2]].mark = TRUE]
    /\ Goto(t, Pop(t))
    /\ UNCHANGED <<s3, rc, lock, caches, ops, faults, history>>

ReadCacheGet(t) ==
    /\ At(t, "read")
    /\ LET p == Step(t)[2]
       IN  rc' = [rc EXCEPT ![p] = IF Dirty(p) \/ s3[<<p, "">>] = None \/ @ # Clean THEN @
                                   ELSE s3[<<p, "">>].data]
    /\ Goto(t, Pop(t))
    /\ UNCHANGED <<s3, wc, ent, lock, caches, ops, faults, history>>

ListShown(t) ==
    /\ At(t, "listed") /\ Goto(t, Pop(t))
    /\ UNCHANGED <<store, ent, lock, caches, ops, faults, history>>

------------------------------------------------------------------------------
(* Calls.                                                                  *)
Handler(op, p, q, v) ==
    CASE op = "getattr" -> s3fs_getattr(p)     [] op = "access" -> s3fs_access(p)
      [] op = "opendir" -> s3fs_opendir(p)     [] op = "readdir" -> s3fs_readdir(p)
      [] op = "readlink" -> s3fs_readlink(p)   [] op = "symlink" -> s3fs_symlink(p)
      [] op = "mknod" -> s3fs_mknod(p)         [] op = "create" -> s3fs_create(p)
      [] op = "mkdir" -> s3fs_mkdir(p)         [] op = "rmdir" -> s3fs_rmdir(p)
      [] op = "unlink" -> s3fs_unlink(p)       [] op = "rename" -> s3fs_rename(p, q)
      [] op = "chmod" -> s3fs_chmod(p, v)      [] op = "chown" -> s3fs_chown(p, v)
      [] op = "utimens" -> s3fs_utimens(p, v)  [] op = "setxattr" -> s3fs_setxattr(p, v)
      [] op = "removexattr" -> s3fs_removexattr(p, v)
      [] op = "getxattr" -> s3fs_getxattr(p)   [] op = "listxattr" -> s3fs_listxattr(p)
      [] op = "truncate" -> s3fs_truncate(p)   [] op = "open" -> s3fs_open(p)
      [] op = "read" -> s3fs_read(p)           [] op = "write" -> s3fs_write(p)
      [] op = "flush" -> s3fs_flush(p)         [] op = "fsync" -> s3fs_fsync(p, FALSE)
      [] op = "fdatasync" -> s3fs_fsync(p, TRUE)
      [] op = "release" -> s3fs_release(p)     [] op = "bgflush" -> BackgroundFlush(p)

NameOps == {"symlink", "mknod", "create", "mkdir", "rmdir", "unlink", "rename"}
HeaderOps == {"chmod", "chown", "utimens", "setxattr", "removexattr"}
InodeOps == HeaderOps \cup {"truncate", "write"}
HandleOps == {"truncate", "read", "write", "flush", "fsync", "fdatasync", "release"}
LookOps == {"getattr", "access", "getxattr", "listxattr"}
AddOps == {"symlink", "mknod", "create", "mkdir"}

ASSUME OpsAssumption ==
    Ops \subseteq NameOps \cup HeaderOps \cup HandleOps \cup LookOps \cup
                  {"opendir", "readdir", "readlink", "open", "bgflush"}

\* What the kernel and libfuse serialise: the names of one directory, the
\* inode of a file, and a removed or renamed tree against all use of it.
Excluded(op, p, q, u) ==
    LET dirs(o, x, y) == IF o \notin NameOps THEN IF o = "readdir" THEN {x} ELSE {}
                         ELSE {Parent(x)} \cup (IF o = "rename" THEN {Parent(y)} ELSE {})
        inodes(o, x) == IF o \in InodeOps THEN {x} ELSE {}
        trees(o, x, y) == IF o \in {"rmdir", "unlink"} THEN {x}
                          ELSE IF o = "rename" THEN {x, y} ELSE {}
        D1 == dirs(op, p, q)     D2 == dirs(u.op, u.p, u.q)
        T1 == trees(op, p, q)    T2 == trees(u.op, u.p, u.q)
    IN  /\ op # "bgflush" /\ u.op \notin {"idle", "bgflush"}
        /\ \/ D1 \cap D2 # {} /\ ~(op = "readdir" /\ u.op = "readdir")
           \/ inodes(op, p) \cap inodes(u.op, u.p) # {}
           \/ D1 \cap inodes(u.op, u.p) # {} \/ D2 \cap inodes(op, p) # {}
           \/ \E x \in T1 : Under(x, u.p) \/ Under(x, u.q)
           \/ \E x \in T2 : Under(x, p) \/ Under(x, q)
           \/ op = "release" /\ u.op = "release" /\ u.p = p
           \/ /\ p = u.p
              /\ \/ op \in AddOps /\ u.op \notin LookOps
                 \/ u.op \in AddOps /\ op \notin LookOps

\* What a caller may find at a path: the stat cache or S3 for the headers, the
\* caches or S3 for the content.
Visible(p) ==
    LET k == CacheKey(p, "", TRUE)
        heads == (IF TruncateCache(k) THEN {HeadChain(p, "", TRUE, FALSE).obj} ELSE {})
                 \cup {stat[x].obj : x \in {k} \cap DOMAIN stat}
        data(o) == CASE o.kind = "file" -> {Data(p)}
                     [] o.kind = "link" -> {Data(p)} \cup {sym[x] : x \in {p} \cap DOMAIN sym}
                     [] OTHER -> {o.data}
    IN  UNION {{[o EXCEPT !.data = x] : x \in data(o)} : o \in heads}

\* What the kernel has found out before it calls: whether the name is there,
\* and that it is of the right kind.  libfuse keeps an open file from being
\* removed or replaced by moving it aside first.  No tree is moved into itself
\* or over one that holds it, and what moves stays a file or a directory.
Callable(op, p, q) ==
    /\ op \in NameOps => \A x \in {Parent(p), Parent(q)} \ {Root} : None \notin Visible(x)
    /\ op \in AddOps => Visible(p) = {None} /\ None \in want[p] /\ ent[p].fds = 0
    /\ op \in {"create", "mknod", "symlink", "unlink", "open", "readlink"} => p \in Files
    /\ op \in {"mkdir", "rmdir", "opendir", "readdir"} => p \in Dirs
    /\ op \in {"unlink", "rmdir", "rename", "open"} \cup HeaderOps => None \notin Visible(p)
    /\ op = "readlink" => \A o \in Visible(p) : o.kind = "link"
    /\ op \in {"open", "truncate"} => \A o \in Visible(p) : o.kind = "file"
    /\ op \in HandleOps => ent[p].fds > Cardinality({u \in Tasks : /\ task[u].p = p
                                                                /\ task[u].op \in {"open", "create"}
                                                                /\ task[u].todo = <<>>})
    /\ op = "open" => ent[p].fds < 2
    /\ op = "unlink" => ent[p].fds = 0
    /\ op = "bgflush" => Dirty(p)
    /\ op = "rename" => /\ ~Under(p, q) /\ ~Under(q, p)
                        /\ \A x \in Paths : Under(q, x) => ent[x].fds = 0
                        /\ \A K \in {Dirs, Files} : \A x \in K : Under(p, x) => MoveTo(x, p, q) \in K
    /\ op # "rename" => q = p

Begin(t) ==
    /\ task[t].op = "idle" /\ ops < MaxOps /\ ops' = ops + 1
    /\ \E op \in Ops, p \in Paths, q \in Paths :
         /\ Callable(op, p, q)
         /\ \A u \in Tasks \ {t} : ~Excluded(op, p, q, task[u])
         /\ Goto(t, [Idle EXCEPT !.op = op, !.p = p, !.q = q, !.v = ops',
                                 !.todo = Handler(op, p, q, ops')])
    /\ UNCHANGED <<store, ent, lock, caches, faults, history>>

\* What the call promised.  After an error the caller knows neither whether
\* it took effect nor what a failed upload left.
Effect(r) ==
    LET p == r.p
        q == r.q
        there == {o \in want[p] : o # None}
        moved(x) == CASE Under(q, x) -> IF MoveTo(x, q, p) \in Paths THEN want[MoveTo(x, q, p)] ELSE {None}
                      [] Under(p, x) /\ ~Under(q, x) -> {None}
                      [] OTHER -> want[x]
        put(W) == [want EXCEPT ![p] = W]
        keep(W) == put(W \cup (want[p] \cap {None}))
    IN  CASE r.op \in {"create", "mknod"} -> put({Obj("file", Nothing, 0)})
          [] r.op = "symlink" -> put({Obj("link", <<p, r.v>>, 0)})
          [] r.op = "mkdir" -> put({Obj("dir", Nothing, 0)})
          [] r.op \in {"unlink", "rmdir"} -> put({None})
          [] r.op \in {"write", "truncate"} -> 
               keep({[o EXCEPT !.data = <<p, r.v>>] : o \in there})
          [] r.op \in HeaderOps -> keep({[o EXCEPT !.mode = r.v] : o \in there})
          [] r.op = "rename" -> [x \in Paths |-> moved(x)]
          [] OTHER -> want

Return(t) ==
    /\ task[t].op # "idle" /\ task[t].todo = <<>>
    /\ LET r == task[t]
           eff == Effect(r)
           seen == HeadChain(r.p, "", TRUE, FALSE).obj
           any(x) == want[x] \cup eff[x] \cup {o \in {seen} : x = r.p /\ r.op \in HandleOps \cup {"bgflush"}}
           torn(x) == {Obj(o.kind, o.data, m.mode) : o \in any(x) \ {None}, m \in any(x)}
           \* the directory that goes, and what is in it that S3 does not list
           over == IF r.op = "rename" THEN r.q ELSE r.p
           full == {c \in Children(over) : want[c] # {None}}
       IN  /\ want' = IF r.res = "OK" THEN eff ELSE [x \in Paths |-> any(x) \cup torn(x)]
           /\ odd' = IF (r.op = "rmdir" /\ ~HasObject(r.p)) \/ (r.op = "rename" /\ r.res = "OK")
                     THEN odd \cup full \cup (IF full = {} THEN {} ELSE {over}) ELSE odd
    /\ task' = [task EXCEPT ![t] = Idle]
    /\ UNCHANGED <<store, ent, lock, caches, ops, faults, live>>

------------------------------------------------------------------------------
\* A directory has an object of one of the Forms, or is at most the prefix of
\* its files ("none"); a file is absent, closed, closed with its content in the
\* read cache ("cached"), open and new, or open and written to ("dirty").
Init ==
    \E fs \in Starts :
        LET there(c) == fs[c] \in {"closed", "dirty", "cached"}
            opened(c) == fs[c] \in {"new", "dirty"}
            old(c) == Obj("file", <<c, 0>>, 0)
        IN  /\ s3 = [k \in Keys |->
                       IF k[1] \in Dirs THEN IF fs[k[1]] = k[2] THEN Implicit ELSE None
                       ELSE IF k[2] = "" /\ there(k[1]) THEN old(k[1]) ELSE None]
            /\ wc = [p \in Paths |-> IF p \in Files /\ fs[p] = "dirty" THEN <<p, -2>> ELSE Clean]
            /\ rc = [p \in Paths |-> IF p \in Files /\ fs[p] = "cached" THEN <<p, 0>> ELSE Clean]
            /\ ent = [p \in Paths |->
                        IF p \in Files /\ opened(p)
                        THEN [fds |-> 1, mark |-> TRUE, mode |-> 0,
                              pend |-> IF fs[p] = "new" THEN "create" ELSE "no"]
                        ELSE NoEnt]
            /\ stat = [k \in {<<c, "">> : c \in {x \in Files : opened(x)}} |->
                         Entry(IF fs[k[1]] = "new" THEN Obj("file", Nothing, 0) ELSE old(k[1]),
                               FALSE, 1)]
            /\ want = [p \in Paths |->
                 IF p \in Dirs
                 THEN CASE fs[p] # "none" -> {Implicit}
                        [] fs[p] = "none" /\ \E c \in Children(p) \cap Files : there(c) ->
                             {Implicit, None}
                        [] OTHER -> {None}
                 ELSE CASE fs[p] = "absent" -> {None}
                        [] fs[p] = "new" -> {Obj("file", Nothing, 0)}
                        [] fs[p] = "dirty" -> {Obj("file", <<p, -2>>, 0)}
                        [] OTHER -> {old(p)}]
            /\ live = {<<c, 0>> : c \in {x \in Files : there(x)}}
            /\ task = [t \in Tasks |-> Idle]
            /\ lock = [p \in Paths |-> ""]
            /\ sym = <<>> /\ ops = 0 /\ faults = 0 /\ odd = {}

Next ==
    \E t \in Tasks :
        \/ Begin(t) \/ Return(t) \/ GetStat(t) \/ HeadRequest(t) \/ get_object_attribute(t)
        \/ PutDirectory(t) \/ PutFile(t) \/ PutHeadRequest(t) \/ CopyObject(t)
        \/ DeleteRequest(t) \/ Delete(t) \/ ListBucket(t)
        \/ ListNames(t) \/ Readdir(t) \/ MultiHead(t) \/ multi_head_callback(t)
        \/ RowFlush(t) \/ FlushDirty(t) \/ UpLoad(t) \/ UploadPending(t) \/ MergeOrgMeta(t)
        \/ StatStep(t) \/ GetSymlink(t) \/ Create(t) \/ EntityStep(t)
        \/ WriteCachePut(t) \/ ReadCacheGet(t) \/ ListShown(t)

Spec == Init /\ [][Next]_vars

------------------------------------------------------------------------------
(* Properties.                                                             *)

\* Between calls, what a path shows is what the calls that returned promised:
\* the last content written and the last headers set, through whatever caches
\* answer, after any failed or unanswered S3 request (s3fs.cpp, all handlers).
\* Left out are the paths where the code is known to deviate (odd), among them
\* those where it believed an answer of S3 that was wrong or already outdated.
Posix ==
    (\A t \in Tasks : task[t].op = "idle") =>
        \A p \in Paths \ odd : Visible(p) \subseteq want[p]

\* At every moment, also in the middle of a rename, content that was stored in
\* S3 is there under some name until a call that removes or replaces it: the
\* copy of a rename is complete before the original goes, whatever fails
\* (s3fs.cpp, rename_object and rename_directory).
FilesKept == \A x \in live : \E k \in Keys : s3[k].data = x

\* A listing shows every entry that is certainly there, also a new file that S3
\* does not know yet (s3fs_readdir, readdir_multi_head).  It may miss one whose
\* HEAD request failed, a new file that was uploaded after S3 had answered and
\* before the stat cache was asked for new files, and everything if S3 lists
\* nothing (it returns before it looks for new files).
ReaddirComplete ==
    \A t \in Tasks : At(t, "listed") =>
        \A c \in Children(task[t].p) \ (odd \cup Step(t)[3]) :
            (None \notin want[c] /\ task[t].list # {}) => c \in task[t].list
=============================================================================
