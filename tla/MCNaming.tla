------------------------------ MODULE MCNaming ------------------------------
(* Small instances of NamingServer. *)
EXTENDS NamingServer

d == <<"d">>
dx == <<"d", "/", "x">>
e == <<"e">>

MCPath == {d, dx, e}

Req(op, p) == [op |-> op, path |-> p, folder |-> FALSE]
Mkdir(p) == [op |-> "create", path |-> p, folder |-> TRUE]

Tree(folders, files) ==
    [p \in MCPath |-> IF p \in folders THEN Folder
                      ELSE IF p \in files THEN File ELSE None]

(* Requests of every kind against one server that may crash and restart.   *)
CrashRequests ==
    {Mkdir(d), Req("create", dx), Req("create", <<"/">>), Req("delete", d),
     Req("delete", dx), Req("read", dx), Req("read", e), Req("info", e)}
CrashDisks == {Tree({}, {}), Tree({d}, {e}), Tree({d}, {dx, e})}

(* Three requests for the same few paths, two servers.                     *)
RaceRequests ==
    {Req("create", e), Req("delete", e), Req("read", e), Mkdir(d)}
RaceDisks == {Tree({}, {})}

(* What liveness is checked with. *)
LiveRequests == {Mkdir(d), Req("create", dx), Req("delete", e), Req("info", e)}
LiveDisks == {Tree({}, {e})}

(* What the runs that contradict the documentation need. *)
OneFile == {Req("create", e), Req("delete", e)}
Reads == {Req("read", p) : p \in MCPath}
EmptyDisk == {Tree({}, {})}
FullDisk == {Tree({d}, {dx, e})}

ThreadSymmetry == Permutations(Threads)
=============================================================================
