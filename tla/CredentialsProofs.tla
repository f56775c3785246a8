-------------------------- MODULE CredentialsProofs --------------------------
(***************************************************************************)
(* Proofs about Credentials for every number of threads, every set of      *)
(* options and machines, and every life and margin of a temporary issue.   *)
(***************************************************************************)
EXTENDS Credentials, TLAPS

------------------------------------------------------------------------------
(***************************************************************************)
(* Types                                                                   *)
(***************************************************************************)
Stages == {"options", "mounted", "check", "serving", "exit"}
PCs == {"idle", "lock", "token", "load", "ext", "sent"}
Sources == {"none", "passwd", "vars", "credfile", "aws", "home", "etc", "iam"}
Entries == {"", "keyval", "mine", "default", "pair", "profile"}
Tokens == Sources \X Entries \X Nat
Opts == [n : Nat, passwd : BOOLEAN, ibm : BOOLEAN, session : BOOLEAN, ecs : BOOLEAN,
         load_iamrole : BOOLEAN, role : BOOLEAN, credlib : BOOLEAN, credlib_opts : BOOLEAN,
         fields : {2, 4, 5}, builtin : BOOLEAN]
Keys == [id : Tokens, secret : Tokens, token : Tokens, expire : Nat]
Headers == [id : Tokens, secret : Tokens, token : Tokens, expire : Nat, at : Nat,
            signed : BOOLEAN]

TypeOK ==
    /\ stage \in Stages /\ opt \in Opts /\ key \in Keys
    /\ pc \in [Threads -> PCs] /\ hdr \in [Threads -> Headers]
    /\ issued \in Nat /\ clock \in Nat \ {0}

LEMMA NoneType == None \in Tokens
BY DEF None, Tokens, Sources, Entries

\* A field of the options replaced.
LEMMA OptFields ==
    ASSUME NEW r \in Opts, NEW b \in BOOLEAN
    PROVE  /\ \A n \in Nat : [r EXCEPT !.n = n] \in Opts
           /\ \A n \in {2, 4, 5} : [r EXCEPT !.fields = n] \in Opts
           /\ [r EXCEPT !.passwd = b] \in Opts /\ [r EXCEPT !.ibm = b] \in Opts
           /\ [r EXCEPT !.session = b] \in Opts /\ [r EXCEPT !.ecs = b] \in Opts
           /\ [r EXCEPT !.load_iamrole = b] \in Opts /\ [r EXCEPT !.role = b] \in Opts
           /\ [r EXCEPT !.credlib = b] \in Opts /\ [r EXCEPT !.credlib_opts = b] \in Opts
           /\ [r EXCEPT !.builtin = b] \in Opts
<1>1. /\ \A n \in Nat : [r EXCEPT !.n = n] \in Opts
      /\ \A n \in {2, 4, 5} : [r EXCEPT !.fields = n] \in Opts
  BY DEF Opts
<1>2. [r EXCEPT !.passwd = b] \in Opts /\ [r EXCEPT !.ibm = b] \in Opts
  BY Zenon DEF Opts
<1>3. [r EXCEPT !.session = b] \in Opts /\ [r EXCEPT !.ecs = b] \in Opts
  BY Zenon DEF Opts
<1>4. [r EXCEPT !.load_iamrole = b] \in Opts /\ [r EXCEPT !.role = b] \in Opts
  BY Zenon DEF Opts
<1>5. [r EXCEPT !.credlib = b] \in Opts /\ [r EXCEPT !.credlib_opts = b] \in Opts
  BY Zenon DEF Opts
<1>6. [r EXCEPT !.builtin = b] \in Opts  BY Zenon DEF Opts
<1> QED BY <1>1, <1>2, <1>3, <1>4, <1>5, <1>6

\* An option leaves the options well formed, ...
LEMMA DetectParamType ==
    ASSUME opt \in Opts, NEW o \in OptionNames
    PROVE  DetectParam(o) \in Opts
<1>1. CASE o = "passwd_file"
  <2>1. DetectParam(o) = [[opt EXCEPT !.passwd = TRUE] EXCEPT !.builtin = TRUE]
    BY <1>1, Zenon DEF DetectParam
  <2> QED BY <2>1, OptFields
<1>2. CASE o = "ibm_iam_auth"
  <2>1. DetectParam(o)
          = [[[opt EXCEPT !.ibm = TRUE] EXCEPT !.fields = 2] EXCEPT !.builtin = TRUE]
    BY <1>2, Zenon DEF DetectParam
  <2> QED BY <2>1, OptFields
<1>3. CASE o = "use_session_token"
  <2>1. DetectParam(o) = [[opt EXCEPT !.session = TRUE] EXCEPT !.builtin = TRUE]
    BY <1>3, Zenon DEF DetectParam
  <2> QED BY <2>1, OptFields
<1>4. CASE o = "imdsv1only"
  <2>1. DetectParam(o) = [opt EXCEPT !.builtin = TRUE]  BY <1>4, Zenon DEF DetectParam
  <2> QED BY <2>1, OptFields
<1>5. CASE o = "ecs"
  <2>1. DetectParam(o)
          = [[[opt EXCEPT !.ecs = TRUE] EXCEPT !.fields = 5] EXCEPT !.builtin = TRUE]
    BY <1>5, Zenon DEF DetectParam
  <2> QED BY <2>1, OptFields
<1>6. CASE o = "iam_role"
  <2>1. DetectParam(o) = [[opt EXCEPT !.load_iamrole = TRUE] EXCEPT !.builtin = TRUE]
    BY <1>6, Zenon DEF DetectParam
  <2> QED BY <2>1, OptFields
<1>7. CASE o = "iam_role=name"
  <2>1. DetectParam(o)
          = [[[opt EXCEPT !.role = TRUE] EXCEPT !.load_iamrole = FALSE] EXCEPT !.builtin = TRUE]
    BY <1>7, Zenon DEF DetectParam
  <2> QED BY <2>1, OptFields
<1>8. CASE o = "credlib"
  <2>1. DetectParam(o) = [opt EXCEPT !.credlib = TRUE]  BY <1>8, Zenon DEF DetectParam
  <2> QED BY <2>1, OptFields
<1>9. CASE o = "credlib_opts"
  <2>1. DetectParam(o) = [opt EXCEPT !.credlib_opts = TRUE]  BY <1>9, Zenon DEF DetectParam
  <2> QED BY <2>1, OptFields
<1> QED BY <1>1, <1>2, <1>3, <1>4, <1>5, <1>6, <1>7, <1>8, <1>9 DEF OptionNames

\* ... and so does the end of the search, which keeps what chose the source of
\* the keys and only adds to use_session_token.
LEMMA SearchOpt ==
    ASSUME opt \in Opts, NEW e, NEW found, Search(e, found)
    PROVE  /\ opt' \in Opts
           /\ (opt'.passwd <=> opt.passwd) /\ (opt'.ibm <=> opt.ibm)
           /\ (opt'.role <=> opt.role) /\ (Deferred(opt') <=> Deferred(opt))
           /\ opt.session => opt'.session
<1> DEFINE s == opt.session \/ (~Deferred(opt) /\ found.key.token # None)
           r1 == [opt EXCEPT !.session = s]
           r2 == [r1 EXCEPT !.n = 0]
           r3 == [r2 EXCEPT !.builtin = FALSE]
           r4 == [r3 EXCEPT !.credlib_opts = FALSE]
           Same(r, q) == /\ r.passwd = q.passwd /\ r.ibm = q.ibm /\ r.role = q.role
                         /\ r.load_iamrole = q.load_iamrole /\ r.ecs = q.ecs
                         /\ r.credlib = q.credlib
<1>1. s \in BOOLEAN  OBVIOUS
<1>2. opt' = [opt EXCEPT !.session = s, !.n = 0, !.builtin = FALSE, !.credlib_opts = FALSE]
  BY DEF Search
<1>3. opt.session => s  OBVIOUS
<1> HIDE DEF s
<1>4. opt' = r4  BY <1>2, Zenon
<1>5. r1 \in Opts  BY <1>1, OptFields
<1>6. r1.session = s /\ Same(r1, opt)  BY Zenon DEF Opts
<1> HIDE DEF r1
<1>7. r2 \in Opts  BY <1>5, OptFields
<1>8. r2.session = r1.session /\ Same(r2, r1)  BY <1>5, Zenon DEF Opts
<1> HIDE DEF r2
<1>9. r3 \in Opts  BY <1>7, OptFields
<1>10. r3.session = r2.session /\ Same(r3, r2)  BY <1>7, Zenon DEF Opts
<1> HIDE DEF r3
<1>11. r4 \in Opts  BY <1>9, OptFields
<1>12. r4.session = r3.session /\ Same(r4, r3)  BY <1>9, Zenon DEF Opts
<1> HIDE DEF r4
<1>13. opt'.session = s  BY <1>4, <1>6, <1>8, <1>10, <1>12
<1>14. Same(opt', opt)  BY <1>4, <1>6, <1>8, <1>10, <1>12
<1> QED BY <1>3, <1>4, <1>11, <1>13, <1>14, Zenon DEF Deferred

\* What the search can find, and where.
LEMMA SearchFinds ==
    ASSUME opt \in Opts, NEW e, InitialS3fsCredentials(opt, e).ok
    PROVE  LET k == InitialS3fsCredentials(opt, e).key
           IN  /\ k \in Keys /\ k.expire = 0 /\ k.id = k.secret
               /\ ~opt.role => \E i \in DOMAIN Order :
                    /\ k.id[1] = Order[i]
                    /\ \A j \in 1 .. i - 1 : ~Present(e, opt, Order[j])
<1> DEFINE found == InitialS3fsCredentials(opt, e)
           First(src) == \E i \in DOMAIN Order :
                            /\ src = Order[i]
                            /\ \A j \in 1 .. i - 1 : ~Present(e, opt, Order[j])
           From(src, f) == /\ f.key \in Keys /\ f.key.expire = 0 /\ f.key.id = f.key.secret
                           /\ f.key.id[1] = src
<1>1. NoKey \in Keys /\ NoKey.expire = 0 /\ NoKey.id = NoKey.secret
  BY NoneType DEF NoKey, Keys
<1>2. ASSUME NEW src \in Sources, NEW entry \in Entries, NEW token
      PROVE  From(src, Found(src, entry, token))
  <2> DEFINE x == <<src, entry, 0>>
             t == IF token THEN x ELSE None
             k == [id |-> x, secret |-> x, token |-> t, expire |-> 0]
  <2>1. x \in Tokens /\ x[1] = src  BY DEF Tokens
  <2>2. Found(src, entry, token).key = k  BY DEF Found, NoKey
  <2> HIDE DEF x
  <2>3. t \in Tokens  BY <2>1, NoneType
  <2> HIDE DEF t
  <2> QED BY <2>1, <2>2, <2>3 DEF Keys
<1>3. ~Failure.ok  BY DEF Failure
<1> HIDE DEF From
<1>4. ASSUME NEW src \in Sources, NEW f, ReadS3fsPasswdFile(src, f).ok
      PROVE  From(src, ReadS3fsPasswdFile(src, f))
  <2> DEFINE r == ReadS3fsPasswdFile(src, f)
  <2>1. \/ r = Failure \/ r = Found(src, "keyval", FALSE)
        \/ r = Found(src, "mine", FALSE) \/ r = Found(src, "default", FALSE)
    BY Zenon DEF ReadS3fsPasswdFile
  <2> HIDE DEF r
  <2>2. r # Failure  BY <1>3, <1>4 DEF r
  <2>3. From(src, r)  BY <1>2, <2>1, <2>2 DEF Entries
  <2> QED BY <2>3 DEF r
<1>5. ASSUME ReadVariables(opt, e).ok PROVE From("vars", ReadVariables(opt, e))
  <2>1. ReadVariables(opt, e) = Failure
        \/ ReadVariables(opt, e) = Found("vars", "pair", e.vars = "token")
    BY Zenon DEF ReadVariables
  <2> QED BY <1>2, <1>3, <1>5, <2>1 DEF Sources, Entries
<1>6. ASSUME ReadAwsCredentialFile(opt, e).ok
      PROVE  From("aws", ReadAwsCredentialFile(opt, e))
  <2>1. ReadAwsCredentialFile(opt, e) = Failure
        \/ ReadAwsCredentialFile(opt, e) = Found("aws", "profile", e.aws = "token")
    BY Zenon DEF ReadAwsCredentialFile
  <2> QED BY <1>2, <1>3, <1>6, <2>1 DEF Sources, Entries
<1>7. /\ DOMAIN Order = 1 .. 6 /\ Order[1] = "passwd" /\ Order[2] = "vars"
      /\ Order[3] = "credfile" /\ Order[4] = "aws" /\ Order[5] = "home" /\ Order[6] = "etc"
  BY DEF Order
<1>8. CASE opt.role
  <2>1. found.key = NoKey  BY <1>8 DEF InitialS3fsCredentials
  <2> QED BY <1>1, <1>8, <2>1
<1>9. CASE ~opt.role /\ opt.passwd
  <2>1. found = ReadS3fsPasswdFile("passwd", e.passwd)  BY <1>9 DEF InitialS3fsCredentials
  <2>2. First("passwd")  BY <1>7
  <2> QED BY <1>4, <1>9, <2>1, <2>2 DEF From, Sources
<1>10. CASE ~opt.role /\ ~opt.passwd /\ e.vars # "none"
  <2>1. found = ReadVariables(opt, e)  BY <1>10 DEF InitialS3fsCredentials
  <2>2. ~Present(e, opt, "passwd")  BY <1>10 DEF Present
  <2>3. First("vars")  BY <1>7, <2>2
  <2> QED BY <1>5, <2>1, <2>3 DEF From
<1>11. CASE ~opt.role /\ ~opt.passwd /\ e.vars = "none"
  <2>1. found = IF e.credfile # Absent THEN ReadS3fsPasswdFile("credfile", e.credfile)
                ELSE IF ReadAwsCredentialFile(opt, e).ok THEN ReadAwsCredentialFile(opt, e)
                ELSE IF e.home # Absent THEN ReadS3fsPasswdFile("home", e.home)
                ELSE IF e.etc # Absent THEN ReadS3fsPasswdFile("etc", e.etc)
                ELSE Failure
    BY <1>11 DEF InitialS3fsCredentials
  <2>2. ~Present(e, opt, "passwd") /\ ~Present(e, opt, "vars")  BY <1>11 DEF Present
  <2>3. First("credfile")  BY <1>7, <2>2
  <2>4. CASE e.credfile # Absent
    <3>1. found = ReadS3fsPasswdFile("credfile", e.credfile)  BY <2>1, <2>4
    <3> QED BY <1>4, <2>3, <3>1 DEF From, Sources
  <2>5. CASE e.credfile = Absent
    <3>1. ~Present(e, opt, "credfile")  BY <2>5 DEF Present
    <3>2. First("aws")  BY <1>7, <2>2, <3>1
    <3>3. CASE ReadAwsCredentialFile(opt, e).ok
      <4>1. found = ReadAwsCredentialFile(opt, e)  BY <2>1, <2>5, <3>3
      <4> QED BY <1>6, <3>2, <3>3, <4>1 DEF From
    <3>4. CASE ~ReadAwsCredentialFile(opt, e).ok
      <4>1. ~Present(e, opt, "aws")  BY <3>4 DEF Present
      <4>2. First("home")  BY <1>7, <2>2, <3>1, <4>1
      <4>3. CASE e.home # Absent
        <5>1. found = ReadS3fsPasswdFile("home", e.home)  BY <2>1, <2>5, <3>4, <4>3
        <5> QED BY <1>4, <4>2, <5>1 DEF From, Sources
      <4>4. CASE e.home = Absent
        <5>1. ~Present(e, opt, "home")  BY <4>4 DEF Present
        <5>2. First("etc")  BY <1>7, <2>2, <3>1, <4>1, <5>1
        <5>3. found \in {ReadS3fsPasswdFile("etc", e.etc), Failure}
          BY <2>1, <2>5, <3>4, <4>4
        <5>4. found = ReadS3fsPasswdFile("etc", e.etc)  BY <1>3, <5>3
        <5> QED BY <1>4, <5>2, <5>4 DEF From, Sources
      <4> QED BY <4>3, <4>4
    <3> QED BY <3>3, <3>4
  <2> QED BY <2>4, <2>5
<1> QED BY <1>8, <1>9, <1>10, <1>11

------------------------------------------------------------------------------
(***************************************************************************)
(* The invariant                                                           *)
(***************************************************************************)
\* Before the bucket is checked nothing is signed and nothing refreshed: the only
\* thread that does anything is Main, asking for a role.
Fresh ==
    /\ stage = "options" => key = NoKey /\ \A t \in Threads : pc[t] = "idle"
    /\ stage = "mounted" => key.expire = 0 /\ \A t \in Threads : pc[t] \in {"idle", "load"}
    /\ stage \in {"options", "mounted"} => \A t \in Threads : ~hdr[t].signed

\* A key that expires was issued whole.
KeyWhole ==
    key.expire > 0 /\ "short" \notin odd =>
        /\ key.token # None
        /\ ~opt.ibm => key.id = key.secret /\ key.id = key.token

CredInv == TypeOK /\ Fresh /\ KeyWhole /\ PrecedenceKept /\ SignedWhole

\* The parts of a key.
LEMMA KeyParts ==
    ASSUME NEW k \in Keys
    PROVE  k.id \in Tokens /\ k.secret \in Tokens /\ k.token \in Tokens /\ k.expire \in Nat
BY DEF Keys

LEMMA NoHdrType == NoHdr \in Headers /\ ~NoHdr.signed
<1> DEFINE h == [id |-> None, secret |-> None, token |-> None, expire |-> 0, at |-> 0,
                 signed |-> FALSE]
<1>1. h \in Headers  BY NoneType DEF Headers
<1> QED BY <1>1 DEF NoHdr

\* The headers made of a key.
LEMMA SignedParts ==
    ASSUME TypeOK, NEW k \in Keys
    PROVE  /\ Signed(k) \in Headers
           /\ Signed(k).id = k.id /\ Signed(k).secret = k.secret
           /\ Signed(k).expire = k.expire /\ Signed(k).at = clock
           /\ Refreshes => Signed(k).token = k.token
<1> DEFINE t == IF Refreshes \/ opt.session THEN k.token ELSE None
           h == [id |-> k.id, secret |-> k.secret, token |-> t, expire |-> k.expire,
                 at |-> clock, signed |-> TRUE]
<1>1. t \in Tokens /\ (Refreshes => t = k.token)  BY KeyParts, NoneType
<1>2. clock \in Nat  BY DEF TypeOK
<1>3. Signed(k) = h  BY DEF Signed
<1> HIDE DEF t
<1>4. h \in Headers  BY <1>1, <1>2, KeyParts DEF Headers
<1> QED BY <1>1, <1>3, <1>4

\* What the service issues.
LEMMA IssuedKey ==
    ASSUME TypeOK, NEW r \in {"full", "short", "garbled"}, NEW n \in Nat
    PROVE  /\ SetIAMCredentials(r, n) \in Keys
           /\ r # "garbled" => SetIAMCredentials(r, n).expire = clock + Ttl
           /\ r = "garbled" => SetIAMCredentials(r, n).expire = key.expire
           /\ r # "short" => SetIAMCredentials(r, n).token # None
           /\ r # "short" /\ ~opt.ibm =>
                 /\ SetIAMCredentials(r, n).id = SetIAMCredentials(r, n).secret
                 /\ SetIAMCredentials(r, n).id = SetIAMCredentials(r, n).token
<1> DEFINE k == SetIAMCredentials(r, n)
           i == Issue(n)
<1>1. i \in Tokens /\ i # None
  BY DEF Issue, None, Tokens, Sources, Entries
<1>2. key \in Keys /\ clock + Ttl \in Nat  BY CredentialsAssumption DEF TypeOK
<1> HIDE DEF i
<1>3. k = [id |-> IF opt.ibm THEN key.id ELSE i, secret |-> IF opt.ibm THEN key.secret ELSE i,
           token |-> IF r = "short" THEN None ELSE i,
           expire |-> IF r = "garbled" THEN key.expire ELSE clock + Ttl]
  BY DEF SetIAMCredentials, i
<1> HIDE DEF k
<1>4. k \in Keys  BY <1>1, <1>2, <1>3, KeyParts, NoneType DEF Keys
<1>5. /\ r # "garbled" => k.expire = clock + Ttl
      /\ r = "garbled" => k.expire = key.expire
      /\ r # "short" => k.token # None
      /\ r # "short" /\ ~opt.ibm => k.id = k.secret /\ k.id = k.token
  BY <1>1, <1>3
<1> QED BY <1>4, <1>5 DEF k

LEMMA InitCredInv == Init => CredInv
<1> SUFFICES ASSUME Init PROVE CredInv  OBVIOUS
<1>1. opt \in Opts  BY Zenon DEF Init, Opts, NoOpt
<1>2. key \in Keys /\ key.expire = 0  BY NoneType DEF Init, NoKey, Keys
<1>3. hdr \in [Threads -> Headers] /\ \A t \in Threads : ~hdr[t].signed
  BY NoHdrType DEF Init
<1>4. TypeOK  BY <1>1, <1>2, <1>3 DEF Init, TypeOK, Stages, PCs
<1>5. Fresh  BY <1>2, <1>3 DEF Init, Fresh
<1> QED BY <1>2, <1>3, <1>4, <1>5 DEF Init, CredInv, KeyWhole, PrecedenceKept, SignedWhole

\* A step that leaves the options and the key alone and signs nothing.
LEMMA QuietStep ==
    ASSUME CredInv, TypeOK', Fresh', UNCHANGED <<opt, key>>, odd \subseteq odd',
           stage' = "mounted" => stage = "mounted" /\ env' = env,
           \A t \in Threads : hdr'[t] = hdr[t] \/ ~hdr'[t].signed
    PROVE  CredInv'
<1>1. KeyWhole'  BY DEF CredInv, KeyWhole
<1>2. PrecedenceKept'  BY DEF CredInv, PrecedenceKept, Deferred
<1>3. SignedWhole'  BY DEF CredInv, SignedWhole, Refreshes
<1> QED BY <1>1, <1>2, <1>3 DEF CredInv

\* A step of the start, before anything is signed.
LEMMA EarlyStep ==
    ASSUME TypeOK', Fresh', PrecedenceKept', key'.expire = 0,
           \A t \in Threads : ~hdr'[t].signed
    PROVE  CredInv'
<1>1. KeyWhole'  BY DEF KeyWhole
<1>2. SignedWhole'  BY DEF SignedWhole
<1> QED BY <1>1, <1>2 DEF CredInv

\* The options and the search.
LEMMA OptionStep == ASSUME CredInv, NEW o \in Options, TakeOption(o) PROVE CredInv'
<1> USE DEF TypeOK
<1>1. stage = "options" /\ stage' \in {"options", "exit"} /\ UNCHANGED <<key, pc, hdr>>
  BY DEF TakeOption
<1>2. key = NoKey /\ NoKey.expire = 0 /\ \A t \in Threads : pc[t] = "idle" /\ ~hdr[t].signed
  BY <1>1 DEF CredInv, Fresh, NoKey
<1>3. opt' \in Opts
  <2>1. opt \in Opts /\ o \in OptionNames  BY CredentialsAssumption DEF CredInv
  <2>2. DetectParam(o) \in Opts  BY <2>1, DetectParamType
  <2>3. DetectParam(o).n + 1 \in Nat  BY <2>2 DEF Opts
  <2>4. opt' = opt \/ opt' = [DetectParam(o) EXCEPT !.n = DetectParam(o).n + 1]
    BY DEF TakeOption
  <2> QED BY <2>1, <2>2, <2>3, <2>4, OptFields
<1>4. TypeOK'  BY <1>1, <1>3 DEF CredInv, TakeOption, Stages
<1>5. Fresh'  BY <1>1, <1>2 DEF Fresh
<1>6. PrecedenceKept'  BY <1>1 DEF PrecedenceKept
<1> QED BY <1>1, <1>2, <1>4, <1>5, <1>6, EarlyStep

LEMMA SearchStep ==
    ASSUME CredInv, NEW e, Search(e, InitialS3fsCredentials(opt, e))
    PROVE  CredInv'
<1> DEFINE found == InitialS3fsCredentials(opt, e)
<1> opt \in Opts  BY DEF CredInv, TypeOK
<1>1. stage = "options" /\ stage' \in {"mounted", "exit"} /\ UNCHANGED <<pc, hdr>> /\ env' = e
  BY DEF Search
<1>2. key = NoKey /\ NoKey.expire = 0 /\ \A t \in Threads : pc[t] = "idle" /\ ~hdr[t].signed
  BY <1>1 DEF CredInv, Fresh, NoKey
<1>3. /\ opt' \in Opts /\ (opt'.passwd <=> opt.passwd) /\ (opt'.role <=> opt.role)
      /\ (Deferred(opt') <=> Deferred(opt)) /\ (opt.session => opt'.session)
  BY SearchOpt
<1>4. /\ Deferred(opt) \/ ~found.ok => key' = key
      /\ ~Deferred(opt) /\ found.ok => key' = found.key
      /\ stage' = "mounted" => Deferred(opt) \/ found.ok
  BY DEF Search, CheckAllParams
<1>5. found.ok =>
        /\ found.key \in Keys /\ found.key.expire = 0 /\ found.key.id = found.key.secret
        /\ ~opt.role => \E i \in DOMAIN Order :
              /\ found.key.id[1] = Order[i]
              /\ \A j \in 1 .. i - 1 : ~Present(e, opt, Order[j])
  BY SearchFinds
<1>6. \A j \in DOMAIN Order : ~Present(e, opt, Order[j]) => ~Present(e, opt', Order[j])
  <2>1. ~ReadAwsCredentialFile(opt, e).ok => ~ReadAwsCredentialFile(opt', e).ok
    BY <1>3 DEF ReadAwsCredentialFile, Found, Failure
  <2>2. \A s \in {"passwd", "vars", "credfile", "aws", "home", "etc"} :
            ~Present(e, opt, s) => ~Present(e, opt', s)
    BY <1>3, <2>1 DEF Present
  <2>3. \A j \in DOMAIN Order : Order[j] \in {"passwd", "vars", "credfile", "aws", "home", "etc"}
    BY DEF Order
  <2> QED BY <2>2, <2>3
<1> HIDE DEF found
<1>7. key' \in Keys /\ key'.expire = 0
  BY <1>2, <1>4, <1>5 DEF CredInv, TypeOK
<1>8. TypeOK'  BY <1>1, <1>3, <1>7 DEF CredInv, TypeOK, Search, Stages
<1>9. Fresh'  BY <1>1, <1>2, <1>7 DEF Fresh
<1>10. PrecedenceKept'
  <2> SUFFICES ASSUME stage' = "mounted", ~Deferred(opt'), ~opt'.role
               PROVE  /\ key'.id = key'.secret
                      /\ \E i \in DOMAIN Order :
                            /\ key'.id[1] = Order[i]
                            /\ \A j \in 1 .. i - 1 : ~Present(env', opt', Order[j])
    BY DEF PrecedenceKept
  <2>1. found.ok /\ key' = found.key  BY <1>3, <1>4
  <2>2. PICK i \in DOMAIN Order :
          /\ found.key.id[1] = Order[i]
          /\ \A j \in 1 .. i - 1 : ~Present(e, opt, Order[j])
    BY <1>3, <1>5, <2>1
  <2>3. \A j \in 1 .. i - 1 : j \in DOMAIN Order  BY DEF Order
  <2>4. \A j \in 1 .. i - 1 : ~Present(env', opt', Order[j])  BY <1>1, <1>6, <2>2, <2>3
  <2> QED BY <1>5, <2>1, <2>2, <2>4
<1> QED BY <1>1, <1>2, <1>7, <1>8, <1>9, <1>10, EarlyStep

\* Asking for the role, and the check of the bucket.
LEMMA StartupStep == ASSUME CredInv, Startup PROVE CredInv'
<1> opt \in Opts  BY DEF CredInv, TypeOK
<1> USE DEF mount
<1>1. CASE LoadRoleToken
  <2>1. /\ stage = "mounted" /\ UNCHANGED <<stage, opt, env, key, hdr, issued, clock, odd>>
        /\ pc' = [pc EXCEPT ![Main] = "load"]
    BY <1>1 DEF LoadRoleToken, TokenAnswer
  <2>2. pc' \in [Threads -> PCs] /\ \A t \in Threads : pc'[t] \in {pc[t], "load"}
    BY <2>1 DEF CredInv, TypeOK, PCs
  <2>3. TypeOK'  BY <2>1, <2>2 DEF CredInv, TypeOK
  <2>4. Fresh'  BY <2>1, <2>2 DEF CredInv, Fresh
  <2> QED BY <2>1, <2>3, <2>4, QuietStep
<1>2. CASE LoadIAMRoleFromMetaData \/ RoleNotAsked
  <2>1. /\ stage = "mounted" /\ stage' \in {"check", "exit"}
        /\ UNCHANGED <<key, hdr, issued, clock>>
        /\ pc' = [pc EXCEPT ![Main] = "idle"] \/ pc' = pc
    BY <1>2 DEF LoadIAMRoleFromMetaData, RoleNotAsked
  <2>2. opt' \in Opts
    <3>1. \/ opt' = opt \/ opt' = [opt EXCEPT !.passwd = FALSE]
          \/ opt' = [opt EXCEPT !.role = TRUE, !.load_iamrole = FALSE]
      BY <1>2 DEF LoadIAMRoleFromMetaData, RoleNotAsked
    <3>2. CASE opt' = [opt EXCEPT !.role = TRUE, !.load_iamrole = FALSE]
      <4>1. opt' = [[opt EXCEPT !.role = TRUE] EXCEPT !.load_iamrole = FALSE]
        BY <3>2, Zenon
      <4> QED BY <4>1, OptFields
    <3> QED BY <3>1, <3>2, OptFields
  <2>3. pc' \in [Threads -> PCs]  BY <2>1 DEF CredInv, TypeOK, PCs
  <2>4. TypeOK'  BY <2>1, <2>2, <2>3 DEF CredInv, TypeOK, Stages
  <2>5. Fresh' /\ PrecedenceKept'  BY <2>1 DEF Fresh, PrecedenceKept
  <2>6. key'.expire = 0 /\ \A t \in Threads : ~hdr'[t].signed
    BY <2>1 DEF CredInv, Fresh
  <2> QED BY <2>4, <2>5, <2>6, EarlyStep
<1>3. CASE s3fs_check_service
  <2>1. /\ stage' \in {"check", "serving", "exit"} /\ odd \subseteq odd'
        /\ UNCHANGED <<opt, key, hdr, issued, clock>>
        /\ pc' = [pc EXCEPT ![Main] = "idle"] \/ pc' = pc
    BY <1>3 DEF s3fs_check_service
  <2>2. pc' \in [Threads -> PCs]  BY <2>1 DEF CredInv, TypeOK, PCs
  <2>3. TypeOK'  BY <2>1, <2>2 DEF CredInv, TypeOK, Stages
  <2>4. Fresh'  BY <2>1 DEF Fresh
  <2> QED BY <2>1, <2>3, <2>4, QuietStep
<1> QED BY <1>1, <1>2, <1>3 DEF Startup

------------------------------------------------------------------------------
(***************************************************************************)
(* Requests and their signatures                                           *)
(***************************************************************************)
\* What the signature of one thread is to be.
WholeHdr(h) ==
    h.signed /\ Refreshes /\ "short" \notin odd =>
       /\ ~opt.ibm => h.id = h.secret /\ h.id = h.token
       /\ h.token # None
       /\ h.expire >= h.at + Margin

LEMMA SignedWholeParts == SignedWhole <=> \A t \in Threads : WholeHdr(hdr[t])
BY DEF SignedWhole, WholeHdr

\* A step of a thread that signs, or refreshes the key and may sign.
LEMMA SigningStep ==
    ASSUME CredInv, TypeOK', KeyWhole', UNCHANGED <<opt, stage>>, odd \subseteq odd',
           stage \notin {"options", "mounted"}, NEW t \in Threads, WholeHdr(hdr[t])',
           \A u \in Threads \ {t} : hdr'[u] = hdr[u]
    PROVE  CredInv'
<1>1. Fresh' /\ PrecedenceKept'  BY DEF Fresh, PrecedenceKept
<1>2. ASSUME NEW u \in Threads PROVE WholeHdr(hdr[u])'
  <2>1. CASE u = t  BY <2>1
  <2>2. CASE u # t
    <3>1. WholeHdr(hdr[u])  BY SignedWholeParts DEF CredInv
    <3>2. hdr'[u] = hdr[u]  BY <2>2
    <3> QED BY <3>1, <3>2 DEF WholeHdr, Refreshes
  <2> QED BY <2>1, <2>2
<1>3. SignedWhole'  BY <1>2 DEF SignedWhole, WholeHdr
<1> QED BY <1>1, <1>3 DEF CredInv

\* A thread that does anything is past the start.
LEMMA PastStart ==
    ASSUME CredInv, NEW t \in Threads, Step(t)
    PROVE  stage \notin {"options", "mounted"}
BY DEF Step, CredInv, Fresh, CheckIAMCredentialUpdate, GetIAMv2ApiToken, LoadIAMCredentials,
       UpdateExtCredentials, Performed

\* A key that is not stale has its margin and was issued whole.
LEMMA CheckStep == ASSUME CredInv, NEW t \in Threads, CheckIAMCredentialUpdate(t) PROVE CredInv'
<1> USE DEF mount
<1>1. stage \notin {"options", "mounted"}  BY PastStart DEF Step
<1>2. UNCHANGED <<stage, opt, key, issued, clock, odd>>  BY DEF CheckIAMCredentialUpdate
<1>3. pc' \in [Threads -> PCs]
  BY DEF CredInv, TypeOK, PCs, CheckIAMCredentialUpdate
<1> TypeOK  BY DEF CredInv
<1>4. CASE Stale
  <2>1. hdr' = hdr  BY <1>4 DEF CheckIAMCredentialUpdate
  <2>2. TypeOK'  BY <1>2, <1>3, <2>1 DEF TypeOK
  <2>3. Fresh'  BY <1>1, <1>2 DEF Fresh
  <2> QED BY <1>1, <1>2, <2>1, <2>2, <2>3, QuietStep
<1>5. CASE ~Stale
  <2>1. hdr' = [hdr EXCEPT ![t] = Signed(key)]  BY <1>5 DEF CheckIAMCredentialUpdate
  <2>2. key \in Keys  BY DEF TypeOK
  <2>3. /\ Signed(key) \in Headers /\ Signed(key).id = key.id
        /\ Signed(key).secret = key.secret /\ Signed(key).expire = key.expire
        /\ Signed(key).at = clock /\ (Refreshes => Signed(key).token = key.token)
    BY <2>2, SignedParts
  <2>4. hdr' \in [Threads -> Headers] /\ hdr'[t] = Signed(key)  BY <2>1, <2>3 DEF TypeOK
  <2>5. TypeOK'  BY <1>2, <1>3, <2>4 DEF TypeOK
  <2>6. KeyWhole'  BY <1>2 DEF CredInv, KeyWhole
  <2>7. WholeHdr(hdr[t])'
    <3> SUFFICES ASSUME Refreshes', "short" \notin odd'
                 PROVE  /\ ~opt'.ibm => hdr'[t].id = hdr'[t].secret /\ hdr'[t].id = hdr'[t].token
                        /\ hdr'[t].token # None
                        /\ hdr'[t].expire >= hdr'[t].at + Margin
      BY DEF WholeHdr
    <3>1. Refreshes  BY <1>2 DEF Refreshes
    <3>2. key.expire \in Nat /\ clock \in Nat \ {0} /\ Margin \in Nat
      BY <2>2, KeyParts, CredentialsAssumption DEF TypeOK
    <3>3. key.expire >= clock + Margin  BY <1>5, <3>1, <3>2 DEF Stale
    <3>4. key.token # None /\ (~opt.ibm => key.id = key.secret /\ key.id = key.token)
      BY <1>2, <3>2, <3>3 DEF CredInv, KeyWhole
    <3> QED BY <1>2, <2>3, <2>4, <3>1, <3>3, <3>4
  <2>8. \A u \in Threads \ {t} : hdr'[u] = hdr[u]  BY <2>1
  <2> QED BY <1>1, <1>2, <2>5, <2>6, <2>7, <2>8, SigningStep
<1> QED BY <1>4, <1>5

\* A refresh that fails leaves the headers unsigned.
LEMMA RefusedStep ==
    ASSUME CredInv, NEW t \in Threads, stage \notin {"options", "mounted"},
           UNCHANGED <<stage, opt, key, clock>>, odd \subseteq odd', issued' \in Nat,
           hdr' = [hdr EXCEPT ![t] = NoHdr], pc' = [pc EXCEPT ![t] = "sent"]
    PROVE  CredInv'
<1>1. hdr' \in [Threads -> Headers] /\ \A u \in Threads : hdr'[u] = hdr[u] \/ ~hdr'[u].signed
  BY NoHdrType DEF CredInv, TypeOK
<1>2. pc' \in [Threads -> PCs]  BY DEF CredInv, TypeOK, PCs
<1>3. TypeOK'  BY <1>1, <1>2 DEF CredInv, TypeOK
<1>4. Fresh'  BY DEF Fresh
<1> QED BY <1>1, <1>3, <1>4, QuietStep

\* The new key is signed with right away.
LEMMA NewKeyStep ==
    ASSUME CredInv, NEW t \in Threads, stage \notin {"options", "mounted"},
           UNCHANGED <<stage, opt, clock>>, odd \subseteq odd', issued' \in Nat,
           NEW k \in Keys, key' = k, NEW signs \in BOOLEAN,
           "short" \notin odd' =>
              /\ k.expire > 0 => k.token # None /\ (~opt.ibm => k.id = k.secret /\ k.id = k.token)
              /\ signs => k.expire = clock + Ttl,
           hdr' = [hdr EXCEPT ![t] = IF signs THEN Signed(k) ELSE NoHdr],
           pc' = [pc EXCEPT ![t] = "sent"]
    PROVE  CredInv'
<1> TypeOK  BY DEF CredInv
<1>1. /\ Signed(k) \in Headers /\ Signed(k).id = k.id /\ Signed(k).secret = k.secret
      /\ Signed(k).expire = k.expire /\ Signed(k).at = clock
      /\ Refreshes => Signed(k).token = k.token
  BY SignedParts
<1>2. hdr' \in [Threads -> Headers] /\ hdr'[t] = (IF signs THEN Signed(k) ELSE NoHdr)
  BY <1>1, NoHdrType DEF TypeOK
<1>3. pc' \in [Threads -> PCs]  BY DEF TypeOK, PCs
<1>4. TypeOK'  BY <1>2, <1>3 DEF TypeOK
<1>5. KeyWhole'  BY DEF KeyWhole
<1>6. WholeHdr(hdr[t])'
  <2>1. CASE ~signs
    <3>1. ~hdr'[t].signed  BY <1>2, <2>1, NoHdrType
    <3> QED BY <3>1 DEF WholeHdr
  <2>2. CASE signs
    <3> SUFFICES ASSUME Refreshes', "short" \notin odd'
                 PROVE  /\ ~opt'.ibm => hdr'[t].id = hdr'[t].secret /\ hdr'[t].id = hdr'[t].token
                        /\ hdr'[t].token # None
                        /\ hdr'[t].expire >= hdr'[t].at + Margin
      BY DEF WholeHdr
    <3>1. Refreshes  BY DEF Refreshes
    <3>2. clock \in Nat \ {0} /\ Margin \in Nat /\ Ttl \in Nat /\ Margin <= Ttl
      BY CredentialsAssumption DEF TypeOK
    <3>3. k.expire = clock + Ttl  BY <2>2
    <3>4. k.expire > 0 /\ k.expire >= clock + Margin  BY <3>2, <3>3
    <3> QED BY <1>1, <1>2, <2>2, <3>1, <3>4
  <2> QED BY <2>1, <2>2
<1> QED BY <1>4, <1>5, <1>6, SigningStep

LEMMA ResponseStep ==
    ASSUME CredInv, NEW t \in Threads, stage \notin {"options", "mounted"},
           UNCHANGED <<stage, opt, clock>>, NEW r \in {"full", "short", "garbled"},
           Response(t, r, issued + 1)
    PROVE  CredInv'
<1> TypeOK /\ issued + 1 \in Nat  BY DEF CredInv, TypeOK
<1>1. /\ issued' = issued + 1 /\ odd \subseteq odd' /\ pc' = [pc EXCEPT ![t] = "sent"]
      /\ r = "short" /\ Fields(r) = opt.fields => "short" \in odd'
  BY DEF Response
<1>2. CASE Fields(r) # opt.fields
  <2>1. key' = key /\ hdr' = [hdr EXCEPT ![t] = NoHdr]  BY <1>2 DEF Response
  <2> QED BY <1>1, <2>1, RefusedStep
<1>3. CASE Fields(r) = opt.fields
  <2> DEFINE k == SetIAMCredentials(r, issued + 1)
             signs == r # "garbled"
  <2>1. /\ k \in Keys /\ (signs => k.expire = clock + Ttl)
        /\ r # "short" => k.token # None
        /\ r # "short" /\ ~opt.ibm => k.id = k.secret /\ k.id = k.token
    BY IssuedKey
  <2>2. key' = k /\ hdr' = [hdr EXCEPT ![t] = IF signs THEN Signed(k) ELSE NoHdr]
    BY <1>3 DEF Response
  <2>3. signs \in BOOLEAN  OBVIOUS
  <2> HIDE DEF k, signs
  <2>4. "short" \notin odd' =>
          /\ k.expire > 0 => k.token # None /\ (~opt.ibm => k.id = k.secret /\ k.id = k.token)
          /\ signs => k.expire = clock + Ttl
    BY <1>1, <1>3, <2>1
  <2> QED BY <1>1, <2>1, <2>2, <2>3, <2>4, NewKeyStep
<1> QED BY <1>2, <1>3

LEMMA LoadStep == ASSUME CredInv, NEW t \in Threads, LoadIAMCredentials(t) PROVE CredInv'
<1> USE DEF mount
<1>1. stage \notin {"options", "mounted"}  BY PastStart DEF Step
<1>2. UNCHANGED <<stage, opt, clock>>  BY DEF LoadIAMCredentials
<1>3. ASSUME NEW r \in {"full", "short", "garbled"}, Response(t, r, issued + 1) PROVE CredInv'
  BY <1>1, <1>2, <1>3, ResponseStep
<1>4. CASE Refused(t) /\ UNCHANGED <<key, odd>>
  <2>1. issued' \in Nat  BY <1>4 DEF Refused, CredInv, TypeOK
  <2> QED BY <1>1, <1>2, <1>4, <2>1, RefusedStep DEF Refused
<1> QED BY <1>3, <1>4 DEF LoadIAMCredentials

LEMMA ExtStep == ASSUME CredInv, NEW t \in Threads, UpdateExtCredentials(t) PROVE CredInv'
<1> USE DEF mount
<1> TypeOK /\ issued + 1 \in Nat  BY DEF CredInv, TypeOK
<1>1. stage \notin {"options", "mounted"}  BY PastStart DEF Step
<1>2. UNCHANGED <<stage, opt, clock, odd>>  BY DEF UpdateExtCredentials
<1>3. CASE Refused(t) /\ UNCHANGED key
  <2>1. issued' \in Nat  BY <1>3 DEF Refused, TypeOK
  <2> QED BY <1>1, <1>2, <1>3, <2>1, RefusedStep DEF Refused
<1>4. CASE ~(Refused(t) /\ UNCHANGED key)
  <2> DEFINE i == Issue(issued + 1)
             k == [id |-> i, secret |-> i, token |-> i, expire |-> clock + Ttl]
             signs == TRUE
  <2>1. /\ key' = k /\ hdr' = [hdr EXCEPT ![t] = Signed(k)] /\ issued' = issued + 1
        /\ pc' = [pc EXCEPT ![t] = "sent"]
    BY <1>4 DEF UpdateExtCredentials
  <2>2. i \in Tokens /\ i # None  BY DEF Issue, None, Tokens, Sources, Entries
  <2>3. clock + Ttl \in Nat  BY CredentialsAssumption DEF TypeOK
  <2> HIDE DEF i
  <2>4. /\ k \in Keys /\ k.expire = clock + Ttl /\ k.token # None /\ k.id = k.secret
        /\ k.id = k.token
    BY <2>2, <2>3 DEF Keys
  <2>5. hdr' = [hdr EXCEPT ![t] = IF signs THEN Signed(k) ELSE NoHdr]  BY <2>1
  <2>6. signs \in BOOLEAN  OBVIOUS
  <2> HIDE DEF k, signs
  <2> QED BY <1>1, <1>2, <2>1, <2>4, <2>5, <2>6, NewKeyStep
<1> QED BY <1>3, <1>4

\* The other steps sign nothing.
LEMMA OtherStep ==
    ASSUME CredInv, NEW t \in Threads, Request(t) \/ GetIAMv2ApiToken(t) \/ Performed(t)
    PROVE  CredInv'
<1> USE DEF mount
<1>1. stage \notin {"options", "mounted"} /\ UNCHANGED <<stage, opt, key, issued, odd>>
  <2>1. GetIAMv2ApiToken(t) \/ Performed(t) => stage \notin {"options", "mounted"}
    BY PastStart DEF Step
  <2> QED BY <2>1 DEF Request, GetIAMv2ApiToken, Performed
<1>2. hdr' = hdr \/ hdr' = [hdr EXCEPT ![t] = NoHdr]
  BY DEF Request, GetIAMv2ApiToken, Performed
<1>3. hdr' \in [Threads -> Headers] /\ \A u \in Threads : hdr'[u] = hdr[u] \/ ~hdr'[u].signed
  BY <1>2, NoHdrType DEF CredInv, TypeOK
<1>4. pc' \in [Threads -> PCs]
  BY DEF CredInv, TypeOK, PCs, Request, GetIAMv2ApiToken, TokenAnswer, Performed
<1>5. clock' = clock  BY DEF Request, GetIAMv2ApiToken, Performed
<1>6. TypeOK'  BY <1>1, <1>3, <1>4, <1>5 DEF CredInv, TypeOK
<1>7. Fresh'  BY <1>1 DEF Fresh
<1> QED BY <1>1, <1>3, <1>6, <1>7, QuietStep

LEMMA TickStep == ASSUME CredInv, Tick PROVE CredInv'
<1>1. stage = "serving" /\ UNCHANGED <<stage, opt, env, key, pc, hdr, issued, odd>>
      /\ clock' = clock + 1
  BY DEF Tick, mount
<1>2. TypeOK'  BY <1>1 DEF CredInv, TypeOK
<1>3. Fresh'  BY <1>1 DEF Fresh
<1> QED BY <1>1, <1>2, <1>3, QuietStep

LEMMA NextCredInv == CredInv /\ [Next]_vars => CredInv'
<1> SUFFICES ASSUME CredInv, [Next]_vars PROVE CredInv'  OBVIOUS
<1>1. ASSUME NEW t \in Threads, Request(t) \/ Step(t) PROVE CredInv'
  BY <1>1, CheckStep, LoadStep, ExtStep, OtherStep DEF Step
<1>2. CASE UNCHANGED vars
  <2>1. UNCHANGED <<stage, opt, env, key, pc, hdr, issued, clock, odd>>  BY <1>2 DEF vars
  <2>2. TypeOK'  BY <2>1 DEF CredInv, TypeOK
  <2>3. Fresh'  BY <2>1 DEF CredInv, Fresh
  <2> QED BY <2>1, <2>2, <2>3, QuietStep
<1> QED BY <1>1, <1>2, OptionStep, SearchStep, StartupStep, TickStep DEF Next

------------------------------------------------------------------------------
(***************************************************************************)
(* Theorems                                                                *)
(***************************************************************************)
LEMMA CredInvHolds == FairSpec => []CredInv
<1>1. Init => CredInv  BY InitCredInv
<1>2. CredInv /\ [Next]_vars => CredInv'  BY NextCredInv
<1> QED BY <1>1, <1>2, PTL DEF FairSpec

\* Whatever the machine offers and in whatever order the options come, the keys of
\* a mount come whole from the first source of the documented order that is there.
THEOREM KeysKeepPrecedence == FairSpec => []PrecedenceKept
BY CredInvHolds, PTL DEF CredInv

\* However many threads sign while one refreshes, and whatever of a refresh fails,
\* a signature is made of one issue that has its margin of life left.
THEOREM SignaturesAreWhole == FairSpec => []SignedWhole
BY CredInvHolds, PTL DEF CredInv
==============================================================================
