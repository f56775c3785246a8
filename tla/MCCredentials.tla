---------------------------- MODULE MCCredentials ----------------------------
(* Every option twice, machines with at most two sources of keys.          *)
EXTENDS Credentials

File(ls, p) == [lines |-> ls, perms |-> p]
Good == File(<<"default">>, "user")
Files == {Good, File(<<"default">>, "group"), File(<<"default", "mine">>, "user"),
          File(<<"comment">>, "user"), File(<<"default", "default">>, "user"),
          File(<<"id=">>, "user"), File(<<"id=", "secret=", "other">>, "user"),
          File(<<"space">>, "user")}

Bare == [passwd |-> Absent, vars |-> "none", credfile |-> Absent, aws |-> "absent",
         home |-> Absent, etc |-> Absent, imds |-> "optional"]

Machines ==
    {[Bare EXCEPT !.imds = i] : i \in {"none", "optional", "required"}}
    \cup {[Bare EXCEPT !.passwd = f, !.vars = v] : f \in Files, v \in {"none", "keys"}}
    \cup {[Bare EXCEPT !.vars = v, !.etc = Good] : v \in {"half", "keys", "token"}}
    \cup {[Bare EXCEPT !.credfile = f, !.home = Good] : f \in Files}
    \cup {[Bare EXCEPT !.aws = a, !.home = f] : a \in {"absent", "keys", "token"}, f \in Files}
    \cup {[Bare EXCEPT !.home = f, !.etc = g] : f \in Files \cup {Absent}, g \in Files}

Kinds == {"ok", "region", "sse", "v2", "redirect", "denied", "absent", "301"}
=============================================================================
