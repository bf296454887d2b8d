------------------------------ MODULE MCStorage ------------------------------
(* Small instances of StorageServer: one folder and one file in it. *)
EXTENDS StorageServer, TLC

d == <<"d">>
dx == <<"d", "x">>

MCPath == {d, dx}

(* The two trees hold the folder and the file, or the folder alone.        *)
MCTrees == {d :> Folder @@ dx :> 1, d :> Folder @@ dx :> None}
FullTree == {d :> Folder @@ dx :> 1}

Nm(op, p) == [op |-> op, path |-> p, port |-> "nm"]
Client(op, p) == [op |-> op, path |-> p, port |-> "client"]

(* What the naming server asks for, and what clients and the servers that  *)
(* copy ask for.                                                           *)
RaceRequests ==
    {Nm("create", dx), Nm("mkdir", d), Nm("delete", d), Nm("delete", dx),
     Client("create", dx), Client("delete", d),
     Client("read", dx), Client("read", d), Client("write", dx), Client("write", d)}

LiveRequests ==
    {Nm("delete", dx), Client("read", dx), Client("write", dx)}

ReadAndDelete == {Nm("delete", dx), Client("read", dx)}

ThreadSymmetry == Permutations(Threads)
=============================================================================
