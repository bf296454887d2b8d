------------------------------ MODULE MCCopying ------------------------------
(* Small instances of Copying: a folder with a file in it, another file.   *)
EXTENDS Copying, TLC

d == <<"d">>
dx == <<"d", "x">>
de == <<"d", "e">>
dex == <<"d", "e", "x">>
dee == <<"d", "e", "e">>
e == <<"e">>
ex == <<"e", "x">>
g == <<"g">>
gx == <<"g", "x">>

MCPath == {d, dx, de, dex, dee, e, ex, g, gx}

Nothing == [p \in MCPath |-> None]
MCWorlds == {1 :> [Nothing EXCEPT ![d] = Folder, ![dx] = 1] @@ 2 :> Nothing}

Copy(p, q) == [op |-> "copy", path |-> p, dest |-> q]
Req(op, p) == [op |-> op, path |-> p, dest |-> <<>>]

(* Copies to the same place, of the copy, and into the source itself; and  *)
(* requests for what is copied.                                            *)
MCRequests ==
    {Copy(d, e), Copy(dx, e), Copy(e, g), Copy(d, de),
     Req("create", e), Req("create", de), Req("mkdir", e), Req("delete", d), Req("delete", dx),
     Req("delete", e)}

OneCopy == {Copy(d, e)}

ThreadSymmetry == Permutations(Threads)
=============================================================================
