---------------------------- MODULE Credentials ----------------------------
(***************************************************************************)
(* The credentials of a mount (S3fsCred): the options, the search for a    *)
(* key pair, the check of the bucket at the start, and the refresh of      *)
(* temporary credentials by the threads that sign requests, under          *)
(* token_lock, which stays held across the requests to the metadata        *)
(* service.                                                                *)
(*                                                                         *)
(* A key is <<source, entry, issue>>: where it was read, and for temporary *)
(* credentials the number of the issue.                                    *)
(***************************************************************************)
EXTENDS Integers, Sequences, FiniteSets

CONSTANTS Threads,
          Options,         \* options of the command line
          Envs,            \* what the machine offers: see Init
          Services,        \* how S3 answers CheckBucket
          Ttl, Margin,     \* life of an issue, IAM_EXPIRE_MERGIN
          MaxOptions, MaxTime, MaxRequests, MaxFaults

OptionNames == {"passwd_file", "ibm_iam_auth", "use_session_token", "imdsv1only", "ecs",
                "iam_role", "iam_role=name", "credlib", "credlib_opts"}

ASSUME CredentialsAssumption ==
    /\ Options \subseteq OptionNames
    /\ Ttl \in Nat /\ Margin \in Nat /\ Margin <= Ttl
    /\ MaxOptions \in Nat /\ MaxTime \in Nat /\ MaxRequests \in Nat /\ MaxFaults \in Nat

VARIABLES stage,    \* of the process
          opt,      \* the members the options set
          env,      \* what the search found (ghost after the search)
          key,      \* AWSAccessKeyId, AWSSecretAccessKey, AWSAccessToken, ..Expire
          imds, v2, \* IAM_api_version, IAMv2_api_token held and accepted
          lock,     \* token_lock
          pc, hdr,  \* per thread: where it is, the credentials in its headers
          issued, clock, reqs, faults,
          svc,      \* endpoint and signature of the mount, and the service
          odd       \* ghost: known deviations

vars == <<stage, opt, env, key, imds, v2, lock, pc, hdr, issued, clock, reqs, faults, svc, odd>>
mount == <<stage, opt, env, svc>>

None == <<"none", "", 0>>
NoKey == [id |-> None, secret |-> None, token |-> None, expire |-> 0]
NoHdr == [id |-> None, secret |-> None, token |-> None, expire |-> 0, at |-> 0, signed |-> FALSE]

Fault == faults < MaxFaults /\ faults' = faults + 1

-----------------------------------------------------------------------------
(* DetectParam, one option at a time.                                      *)
NoOpt == [n |-> 0, passwd |-> FALSE, ibm |-> FALSE, session |-> FALSE, ecs |-> FALSE,
          load_iamrole |-> FALSE, role |-> FALSE, credlib |-> FALSE, credlib_opts |-> FALSE,
          fields |-> 4, builtin |-> FALSE]

DetectParam(o) ==
    CASE o = "passwd_file" -> [opt EXCEPT !.passwd = TRUE, !.builtin = TRUE]
      [] o = "ibm_iam_auth" -> [opt EXCEPT !.ibm = TRUE, !.fields = 2, !.builtin = TRUE]
      [] o = "use_session_token" -> [opt EXCEPT !.session = TRUE, !.builtin = TRUE]
      [] o = "imdsv1only" -> [opt EXCEPT !.builtin = TRUE]
      [] o = "ecs" -> [opt EXCEPT !.ecs = TRUE, !.fields = 5, !.builtin = TRUE]
      [] o = "iam_role" -> [opt EXCEPT !.load_iamrole = TRUE, !.builtin = TRUE]
      [] o = "iam_role=name" -> [opt EXCEPT !.role = TRUE, !.load_iamrole = FALSE, !.builtin = TRUE]
      [] o = "credlib" -> [opt EXCEPT !.credlib = TRUE]
      [] o = "credlib_opts" -> [opt EXCEPT !.credlib_opts = TRUE]

\* The conflicts it finds depend on the order of the options.
Conflict(o) == \/ o = "ecs" /\ opt.ibm
               \/ o \in {"iam_role", "iam_role=name"} /\ (opt.ecs \/ opt.ibm)

TakeOption(o) ==
    /\ stage = "options" /\ opt.n < MaxOptions
    /\ IF Conflict(o) THEN stage' = "exit" /\ UNCHANGED <<opt, imds>>
       ELSE /\ opt' = [DetectParam(o) EXCEPT !.n = @ + 1]
            /\ imds' = IF o \in {"imdsv1only", "ibm_iam_auth", "ecs"} THEN 1 ELSE imds
            /\ UNCHANGED stage
    /\ UNCHANGED <<env, key, v2, lock, pc, hdr, issued, clock, reqs, faults, svc, odd>>

-----------------------------------------------------------------------------
(* Files with keys.  A passwd file is [lines, perms], its lines are        *)
(* "space" (any line that is refused), "comment", "id=", "secret=",        *)
(* "default" (id:secret), "mine" and "other" (bucket:id:secret).           *)
Absent == [lines |-> <<>>, perms |-> "absent"]
NoEnv == [passwd |-> Absent, vars |-> "none", credfile |-> Absent, aws |-> "absent",
          home |-> Absent, etc |-> Absent, imds |-> "none"]

Count(f, kind) == Cardinality({i \in DOMAIN f.lines : f.lines[i] = kind})

\* CheckS3fsPasswdFilePerms
CheckS3fsPasswdFilePerms(src, f) == f.perms = "user" \/ (f.perms = "group" /\ src = "etc")

\* ParseS3fsPasswdFile
ParseS3fsPasswdFile(f) ==
    Count(f, "space") = 0 /\ \A b \in {"default", "mine", "other"} : Count(f, b) <= 1

\* CheckS3fsCredentialAwsFormat
CheckS3fsCredentialAwsFormat(f) ==
    IF Count(f, "id=") = 0 /\ Count(f, "secret=") = 0 THEN 0
    ELSE IF Count(f, "id=") = 0 \/ Count(f, "secret=") = 0 THEN -1 ELSE 1

Failure == [ok |-> FALSE, key |-> NoKey]
Found(src, entry, token) ==
    [ok |-> TRUE, key |-> [NoKey EXCEPT !.id = <<src, entry, 0>>, !.secret = <<src, entry, 0>>,
                                        !.token = IF token THEN <<src, entry, 0>> ELSE None]]

\* ReadS3fsPasswdFile with SetAccessKey.
ReadS3fsPasswdFile(src, f) ==
    IF ~CheckS3fsPasswdFilePerms(src, f) \/ ~ParseS3fsPasswdFile(f)
       \/ CheckS3fsCredentialAwsFormat(f) = -1 THEN Failure
    ELSE IF CheckS3fsCredentialAwsFormat(f) = 1 THEN Found(src, "keyval", FALSE)
    ELSE IF Count(f, "mine") = 1 THEN Found(src, "mine", FALSE)
    ELSE IF Count(f, "default") = 1 THEN Found(src, "default", FALSE)
    ELSE Failure

\* ReadAwsCredentialFile: e.aws is "absent" (no file or not this profile), "keys" or
\* "token".
ReadAwsCredentialFile(o, e) ==
    IF e.aws = "absent" \/ (e.aws = "keys" /\ o.session) THEN Failure
    ELSE Found("aws", "profile", e.aws = "token")

\* The environment variables: e.vars is "none", "half", "keys" or "token".
ReadVariables(o, e) ==
    IF e.vars = "half" \/ (e.vars = "keys" /\ o.session) THEN Failure
    ELSE Found("vars", "pair", e.vars = "token")

\* Mutant: an unusable file of the user does not end the search.
InitialS3fsCredentialsLenient(o, e) ==
    IF o.role THEN [ok |-> TRUE, key |-> NoKey]
    ELSE IF o.passwd /\ ReadS3fsPasswdFile("passwd", e.passwd).ok
         THEN ReadS3fsPasswdFile("passwd", e.passwd)
    ELSE IF e.vars # "none" THEN ReadVariables(o, e)
    ELSE ReadS3fsPasswdFile("etc", e.etc)

\* InitialS3fsCredentials
InitialS3fsCredentials(o, e) ==
    CASE o.role -> [ok |-> TRUE, key |-> NoKey]
      [] ~o.role /\ o.passwd -> ReadS3fsPasswdFile("passwd", e.passwd)
      [] ~o.role /\ ~o.passwd /\ e.vars # "none" -> ReadVariables(o, e)
      [] ~o.role /\ ~o.passwd /\ e.vars = "none" ->
            IF e.credfile # Absent THEN ReadS3fsPasswdFile("credfile", e.credfile)
            ELSE IF ReadAwsCredentialFile(o, e).ok THEN ReadAwsCredentialFile(o, e)
            ELSE IF e.home # Absent THEN ReadS3fsPasswdFile("home", e.home)
            ELSE IF e.etc # Absent THEN ReadS3fsPasswdFile("etc", e.etc)
            ELSE Failure

Deferred(o) == o.load_iamrole \/ o.ecs \/ o.credlib

\* CheckAllParams after the search; a library that does not load ends the process
\* (InitExtCredLib).
CheckAllParams(o, found) ==
    /\ ~(o.passwd /\ o.role)
    /\ ~Deferred(o) => found.ok
    /\ ~(o.builtin /\ (o.credlib \/ o.credlib_opts))
    /\ o.credlib_opts => o.credlib

Search(e, found) ==
    /\ stage = "options"
    /\ \/ stage' = (IF CheckAllParams(opt, found) THEN "mounted" ELSE "exit") /\ UNCHANGED faults
       \/ opt.credlib /\ Fault /\ stage' = "exit"
    /\ key' = IF Deferred(opt) \/ ~found.ok THEN key ELSE found.key
    /\ opt' = [opt EXCEPT !.session = @ \/ (~Deferred(opt) /\ found.key.token # None),
                          !.n = 0, !.builtin = FALSE, !.credlib_opts = FALSE]
    /\ env' = e
    /\ UNCHANGED <<imds, v2, lock, pc, hdr, issued, clock, reqs, svc, odd>>

-----------------------------------------------------------------------------
(* The metadata service.  It answers tokens of version 2 when e.imds is    *)
(* "optional" or "required", and refuses a request without one when it is  *)
(* "required".                                                             *)
Refreshes == opt.ibm \/ opt.credlib \/ opt.ecs \/ opt.role
UsesToken == ~opt.ecs /\ ~opt.ibm /\ imds > 1

\* GetIAMCredentialsURL: GetIAMv2ApiToken; an error other than ENOENT is passed over.
TokenAnswer(who) ==
    /\ pc' = [pc EXCEPT ![who] = "load"]
    /\ \/ /\ env.imds # "none" /\ v2' = TRUE /\ UNCHANGED <<imds, faults>>
       \/ /\ env.imds = "none" /\ imds' = 1 /\ UNCHANGED <<v2, faults>>
       \/ Fault /\ UNCHANGED <<imds, v2>>

Admitted == env.imds # "required" \/ opt.ecs \/ opt.ibm \/ (imds > 1 /\ v2)

-----------------------------------------------------------------------------
(* s3fs_init on the main thread, named by the first of Threads that serves *)
(* later.                                                                  *)
Main == CHOOSE t \in Threads : TRUE

\* Endpoint and signature options, and how the service answers them.
Mounts == {[kind |-> k, moved |-> FALSE, nosse |-> FALSE, default |-> d, sig |-> s] :
              k \in Services, d \in BOOLEAN, s \in {"V2_OR_V4", "V4_ONLY"}}
Forgotten == [NoEnv EXCEPT !.imds = env.imds]    \* what only the search reads
NoMount == [kind |-> "ok", moved |-> FALSE, nosse |-> FALSE, default |-> TRUE, sig |-> "V4_ONLY"]

\* LoadIAMRoleFromMetaData
LoadRoleToken ==
    /\ stage = "mounted" /\ opt.load_iamrole /\ UsesToken /\ pc[Main] = "idle"
    /\ TokenAnswer(Main)
    /\ UNCHANGED <<mount, key, lock, hdr, issued, clock, reqs, odd>>

LoadIAMRoleFromMetaData ==
    /\ stage = "mounted" /\ opt.load_iamrole /\ (UsesToken => pc[Main] = "load")
    /\ pc' = [pc EXCEPT ![Main] = "idle"]
    /\ \/ /\ Admitted /\ stage' = "check" /\ opt' = [opt EXCEPT !.role = TRUE, !.load_iamrole = FALSE]
          /\ UNCHANGED faults
          /\ svc' \in Mounts /\ env' = Forgotten
       \/ /\ ~Admitted /\ stage' = "exit" /\ UNCHANGED <<opt, env, faults, svc>>
       \/ Fault /\ stage' = "exit" /\ UNCHANGED <<opt, env, svc>>
    /\ UNCHANGED <<key, imds, v2, lock, hdr, issued, clock, reqs, odd>>

RoleNotAsked ==
    /\ stage = "mounted" /\ ~opt.load_iamrole
    /\ stage' = "check" /\ svc' \in Mounts
    /\ env' = Forgotten /\ opt' = [opt EXCEPT !.passwd = FALSE]
    /\ UNCHANGED <<key, imds, v2, lock, pc, hdr, issued, clock, reqs, faults, odd>>

\* CheckBucket as S3 answers it.
Answer ==
    CASE svc.kind = "region" /\ ~svc.moved -> "region"
      [] svc.kind = "sse" /\ ~svc.nosse -> "sse"
      [] svc.kind = "v2" /\ svc.sig # "V2_ONLY" -> "refused"
      [] svc.kind \in {"redirect", "denied", "absent", "301"} -> svc.kind
      [] OTHER -> "ok"

\* The loop of s3fs_check_service: which answer is tried again, and how.
Changes(a) ==
    CASE a = "region" /\ svc.default /\ svc.sig # "V2_ONLY" -> {[svc EXCEPT !.moved = TRUE]}
      [] a = "sse" -> {[svc EXCEPT !.nosse = TRUE]}
      [] a \in {"refused", "denied", "region"} /\ svc.sig = "V2_OR_V4"
         /\ ~(a = "region" /\ svc.default) -> {[svc EXCEPT !.sig = "V2_ONLY"]}
      [] a = "301" -> {svc}
      [] OTHER -> {}

\* s3fs_check_service checks the credentials (the first request of Main) and then
\* the bucket.
s3fs_check_service ==
    /\ stage = "check" /\ pc[Main] = "sent"
    /\ \/ /\ Refreshes /\ ~hdr[Main].signed
          /\ stage' = "exit" /\ UNCHANGED <<svc, pc, odd>>
       \/ /\ Refreshes => hdr[Main].signed
          /\ Answer = "ok"
          /\ stage' = "serving" /\ svc' = NoMount
          /\ pc' = [pc EXCEPT ![Main] = "idle"]
          /\ UNCHANGED odd
       \/ /\ Refreshes => hdr[Main].signed
          /\ Answer # "ok"
          /\ IF Changes(Answer) = {} THEN stage' = "exit" /\ UNCHANGED svc
             ELSE svc' \in Changes(Answer) /\ UNCHANGED stage
          /\ odd' = odd \cup IF Answer = "301" THEN {"moved"} ELSE {}
          /\ UNCHANGED pc
    /\ UNCHANGED <<opt, env, key, imds, v2, lock, hdr, issued, clock, reqs, faults>>

-----------------------------------------------------------------------------
(* A request: RequestPerform signs every try with insertAuthHeaders, which *)
(* asks CheckIAMCredentialUpdate.                                          *)
Request(t) ==
    /\ \/ stage = "serving" /\ reqs < MaxRequests
       \/ stage = "check" /\ t = Main /\ reqs = 0
    /\ pc[t] = "idle"
    /\ pc' = [pc EXCEPT ![t] = "lock"]
    /\ hdr' = [hdr EXCEPT ![t] = NoHdr]
    /\ reqs' = reqs + 1
    /\ UNCHANGED <<mount, key, imds, v2, lock, issued, clock, faults, odd>>

\* The end of CheckIAMCredentialUpdate with the headers made from it; the token goes
\* along only when the scheme has one.
Signed(k) == [id |-> k.id, secret |-> k.secret,
              token |-> IF Refreshes \/ opt.session THEN k.token ELSE None,
              expire |-> k.expire, at |-> clock, signed |-> TRUE]

\* Mutant: refreshed only when it has expired.
StaleLate == Refreshes /\ key.expire < clock

Stale == Refreshes /\ key.expire < clock + Margin

\* CheckIAMCredentialUpdate takes token_lock and looks at the time.
CheckIAMCredentialUpdate(t) ==
    /\ pc[t] = "lock" /\ lock = "free"
    /\ IF Stale
       THEN /\ lock' = t
            /\ pc' = [pc EXCEPT ![t] = IF opt.credlib THEN "ext" ELSE IF UsesToken THEN "token"
                                       ELSE "load"]
            /\ UNCHANGED hdr
       ELSE /\ hdr' = [hdr EXCEPT ![t] = Signed(key)]
            /\ pc' = [pc EXCEPT ![t] = "sent"]
            /\ UNCHANGED lock
    /\ UNCHANGED <<mount, key, imds, v2, issued, clock, reqs, faults, odd>>

\* Mutant: they do, and CheckIAMCredentialUpdate wants the lock.
UnsignedNot(t) == lock # t

\* Requests to the metadata service do not sign (RequestPerform(true)).
Unsigned(t) == TRUE

GetIAMv2ApiToken(t) ==
    /\ stage # "mounted" /\ pc[t] = "token" /\ Unsigned(t)
    /\ TokenAnswer(t)
    /\ UNCHANGED <<mount, key, lock, hdr, issued, clock, reqs, odd>>

\* Without a refresh the request goes on without an Authorization header.
Refused(t) ==
    /\ lock' = "free"
    /\ hdr' = [hdr EXCEPT ![t] = NoHdr]
    /\ pc' = [pc EXCEPT ![t] = "sent"]
    /\ UNCHANGED issued

\* SetIAMCredentials: a response is taken when it has as many fields as expected.
\* "short" has RoleArn in place of the token, "garbled" an expiration that is no
\* number, which IBM's branch finds after it has taken the token.
Fields(r) == CASE r = "full" -> IF opt.ibm THEN 2 ELSE IF opt.ecs THEN 5 ELSE 4
               [] r = "short" -> IF opt.ibm THEN 1 ELSE 4
               [] r = "garbled" -> IF opt.ibm THEN 2 ELSE 0

Issue(n) == <<"iam", "", n>>

SetIAMCredentials(r, n) ==
    [id |-> IF opt.ibm THEN key.id ELSE Issue(n),
     secret |-> IF opt.ibm THEN key.secret ELSE Issue(n),
     token |-> IF r = "short" THEN None ELSE Issue(n),
     expire |-> IF r = "garbled" THEN key.expire ELSE clock + Ttl]

Response(t, r, n) ==
    /\ issued' = n
    /\ IF Fields(r) # opt.fields THEN key' = key /\ hdr' = [hdr EXCEPT ![t] = NoHdr]
       ELSE /\ key' = SetIAMCredentials(r, n)
            /\ hdr' = [hdr EXCEPT ![t] = IF r = "garbled" THEN NoHdr
                                         ELSE Signed(SetIAMCredentials(r, n))]
    /\ odd' = odd \cup IF r = "short" /\ Fields(r) = opt.fields THEN {"short"} ELSE {}
    /\ lock' = "free"
    /\ pc' = [pc EXCEPT ![t] = "sent"]

\* LoadIAMCredentials: GetIAMCredentials and what is made of its response.
LoadIAMCredentials(t) ==
    /\ stage # "mounted" /\ pc[t] = "load" /\ Unsigned(t)
    /\ \/ Admitted /\ Response(t, "full", issued + 1) /\ UNCHANGED faults
       \/ ~Admitted /\ Refused(t) /\ UNCHANGED <<key, faults, odd>>
       \/ \E r \in {"short", "garbled"} : Fault /\ Response(t, r, issued + 1)
       \/ Fault /\ Refused(t) /\ UNCHANGED <<key, odd>>
    /\ UNCHANGED <<mount, imds, v2, clock, reqs>>

\* UpdateExtCredentials: the library answers with all four values or not at all.
UpdateExtCredentials(t) ==
    /\ pc[t] = "ext"
    /\ \/ /\ key' = [id |-> Issue(issued + 1), secret |-> Issue(issued + 1),
                     token |-> Issue(issued + 1), expire |-> clock + Ttl]
          /\ hdr' = [hdr EXCEPT ![t] = Signed(key')]
          /\ issued' = issued + 1
          /\ lock' = "free" /\ pc' = [pc EXCEPT ![t] = "sent"]
          /\ UNCHANGED faults
       \/ Fault /\ Refused(t) /\ UNCHANGED key
    /\ UNCHANGED <<mount, imds, v2, clock, reqs, odd>>

\* The request is over, or RemakeHandle takes the Authorization header out for
\* another try.
Performed(t) ==
    /\ stage = "serving" /\ pc[t] = "sent"
    /\ \/ pc' = [pc EXCEPT ![t] = "idle"] /\ UNCHANGED faults
       \/ Fault /\ pc' = [pc EXCEPT ![t] = "lock"]
    /\ hdr' = [hdr EXCEPT ![t] = NoHdr]
    /\ UNCHANGED <<mount, key, imds, v2, lock, issued, clock, reqs, odd>>

Tick ==
    /\ stage = "serving" /\ clock < MaxTime
    /\ clock' = clock + 1
    /\ UNCHANGED <<mount, key, imds, v2, lock, pc, hdr, issued, reqs, faults, odd>>

-----------------------------------------------------------------------------
Init ==
    /\ stage = "options" /\ opt = NoOpt /\ key = NoKey
    /\ env = NoEnv
    /\ imds = 2 /\ v2 = FALSE /\ lock = "free"
    /\ pc = [t \in Threads |-> "idle"] /\ hdr = [t \in Threads |-> NoHdr]
    /\ issued = 0 /\ clock = 1 /\ reqs = 0 /\ faults = 0 /\ odd = {}
    /\ svc = NoMount

Startup == LoadRoleToken \/ LoadIAMRoleFromMetaData \/ RoleNotAsked \/ s3fs_check_service

Step(t) == \/ CheckIAMCredentialUpdate(t) \/ GetIAMv2ApiToken(t) \/ LoadIAMCredentials(t)
           \/ UpdateExtCredentials(t) \/ Performed(t)

Next ==
    \/ \E o \in Options : TakeOption(o)
    \/ \E e \in Envs : Search(e, InitialS3fsCredentials(opt, e))
    \/ Startup
    \/ \E t \in Threads : Request(t) \/ Step(t)
    \/ Tick

\* Requests to the metadata service end: RequestPerform tries a bounded number of
\* times and curl has timeouts.
FairSpec == /\ Init /\ [][Next]_vars
            /\ WF_vars(Startup) /\ WF_vars(Request(Main) /\ stage = "check")
            /\ \A t \in Threads : WF_vars(Step(t))

-----------------------------------------------------------------------------
Present(e, o, s) ==
    CASE s = "passwd" -> o.passwd
      [] s = "vars" -> e.vars # "none"
      [] s = "credfile" -> e.credfile # Absent
      [] s = "aws" -> ReadAwsCredentialFile(o, e).ok
      [] s = "home" -> e.home # Absent
      [] s = "etc" -> TRUE

Order == <<"passwd", "vars", "credfile", "aws", "home", "etc">>

\* PrecedenceKept: the key pair of a mount comes, id and secret from one entry, from
\* the first source of the documented order that is there, never from a later one
\* because an earlier one is unusable.
PrecedenceKept ==
    stage = "mounted" /\ ~Deferred(opt) /\ ~opt.role /\ key.id[1] # "iam" =>
       /\ key.id = key.secret
       /\ \E i \in DOMAIN Order : /\ key.id[1] = Order[i]
                                  /\ \A j \in 1 .. i - 1 : ~Present(env, opt, Order[j])

\* SignedWhole: whatever threads refresh at the same time and whatever fails, the
\* credentials of a signature are of one issue, and of one that still had the margin
\* of its life left when the request was signed.
SignedWhole ==
    \A t \in Threads : hdr[t].signed /\ Refreshes /\ "short" \notin odd =>
       /\ ~opt.ibm => hdr[t].id = hdr[t].secret /\ hdr[t].id = hdr[t].token
       /\ hdr[t].token # None
       /\ hdr[t].expire >= hdr[t].at + Margin

\* RequestsEnd: a request is sent and ends, in spite of the lock that is held while
\* the metadata service is asked; and the check of the bucket ends, unless S3 answers
\* 301 with a document that names no endpoint.
RequestsEnd ==
    /\ \A t \in Threads : (stage = "serving" /\ pc[t] # "idle") ~> (pc[t] = "idle")
    /\ (stage = "check") ~> (stage \in {"serving", "exit"} \/ "moved" \in odd)

=============================================================================
