---------------------------- MODULE MCNamespace -----------------------------
(* Two directories and three files: one directory may be renamed over the   *)
(* other, and a listing has a stored and a new file to show.                *)
EXTENDS Namespace, TLC
CONSTANTS dir1, dir2, file1, file2
TwoDirs == {<<dir1>>, <<dir2>>}
ThreeFiles == {<<dir1, file1>>, <<dir1, file2>>, <<dir2, file1>>}

Start(s2, s11, s12, s21) ==
    <<dir1>> :> "/" @@ <<dir2>> :> s2 @@ <<dir1, file1>> :> s11 @@ <<dir1, file2>> :> s12
    @@ <<dir2, file1>> :> s21
SomeStarts == {Start("none", "new", "closed", "cached"),
               Start("/", "absent", "absent", "dirty")}
\* chown and utimens take the steps of chmod, removexattr those of setxattr,
\* access, opendir, getxattr and listxattr those of getattr.
SomeOps == (NameOps \cup HeaderOps \cup HandleOps \cup
            {"getattr", "readdir", "readlink", "open", "bgflush"})
           \ {"chown", "utimens", "removexattr"}
Symmetry == Permutations(Tasks)
=============================================================================
