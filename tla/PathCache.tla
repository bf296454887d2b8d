------------------------------ MODULE PathCache ------------------------------
(***************************************************************************)
(* The lookup cache of the naming server: the table of NM/hash.c.  It has  *)
(* HASHTABLE_SIZE slots, searched linearly; the hash value only speeds up  *)
(* the comparison of paths, so slots are compared by path here.            *)
(*                                                                         *)
(* time(NULL) counts seconds and only "older than now" is ever asked of    *)
(* it: a slot carries `fresh`, TRUE while its entry_time is the current    *)
(* second, and NextSecond makes every slot old.                            *)
(***************************************************************************)
EXTENDS Integers, SequencesExt

CONSTANTS HASHTABLE_SIZE, Slash

ASSUME CacheAssumption == HASHTABLE_SIZE \in Nat \ {0}

Slots == 0 .. HASHTABLE_SIZE - 1

(* hash == -1 marks a slot that holds nothing. *)
FreeSlot == [path |-> <<>>, ssid |-> -1, fresh |-> FALSE]
EmptyCache == [i \in Slots |-> FreeSlot]

Used(c) == {i \in Slots : c[i].ssid # -1}
Free(c) == Slots \ Used(c)
Hits(c, p) == {i \in Used(c) : c[i].path = p}
Old(c) == {i \in Used(c) : ~ c[i].fresh}

Lowest(S) == {i \in S : \A j \in S : i <= j}
Highest(S) == {i \in S : \A j \in S : j <= i}

(* Where addPath puts a new entry: the first free slot, else the LAST old  *)
(* one.  With neither, insert_at is never assigned; a value inside the     *)
(* table is one outcome of using it, and any other ends the process.       *)
SlotFor(c) ==
    IF Free(c) # {} THEN Lowest(Free(c))
    ELSE IF Old(c) # {} THEN Highest(Old(c))
    ELSE Slots

SlotUnassigned(c) == Free(c) = {} /\ Old(c) = {}

(* Mutant of AddPath: no second look at the cache before taking a slot.    *)
AddPathBlindly(c, p, ssid) ==
    {[c EXCEPT ![i] = [path |-> p, ssid |-> ssid, fresh |-> TRUE]] : i \in SlotFor(c)}

(* addPath: the caches it can leave behind.  A hit refreshes the entry and *)
(* keeps the server it already names.                                      *)
AddPath(c, p, ssid) ==
    IF Hits(c, p) # {}
    THEN {[c EXCEPT ![i].fresh = TRUE] : i \in Lowest(Hits(c, p))}
    ELSE {[c EXCEPT ![i] = [path |-> p, ssid |-> ssid, fresh |-> TRUE]] :
             i \in SlotFor(c)}

AddPathCrashes(c, p) == Hits(c, p) = {} /\ SlotUnassigned(c)

(* deletePath: the path itself and everything below path + "/".            *)
DeletePath(c, p) ==
    [i \in Slots |->
        IF c[i].path = p \/ IsPrefix(Append(p, Slash), c[i].path)
        THEN FreeSlot ELSE c[i]]

(* Mutant of GetSSID: the first entry answers, whatever its path.          *)
GetAnySSID(c, p) ==
    IF Used(c) = {} THEN {-1} ELSE {c[i].ssid : i \in Lowest(Used(c))}

(* getSSID: what the slots that hold the path answer, -1 when none does.   *)
GetSSID(c, p) ==
    IF Hits(c, p) = {} THEN {-1} ELSE {c[i].ssid : i \in Lowest(Hits(c, p))}

NextSecond(c) == [i \in Slots |-> [c[i] EXCEPT !.fresh = FALSE]]

(* A path is held by at most one slot. *)
NoDuplicates(c) == \A p \in {c[i].path : i \in Used(c)} : \A i, j \in Hits(c, p) : i = j

=============================================================================
