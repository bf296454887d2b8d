------------------------------- MODULE SsInfo -------------------------------
(***************************************************************************)
(* What the naming server remembers: the globals of NM/ss_info.c.  Each is *)
(* guarded by a lock of its own and no function ever holds two of them, so *)
(* an action of this module is ONE critical section; the functions of      *)
(* ss_info.c are sequences of them and threads interleave in between.      *)
(*                                                                         *)
(* An address is a function of the server's id (a base port plus the id),  *)
(* so an address table is the set of the ids whose entry has been written. *)
(***************************************************************************)
EXTENDS Trie, PathCache

CONSTANT SS            \* the ids of the storage servers

ASSUME SSAssumption == SS \cap {Sentinel} = {}
ASSUME SlashAssumption == Slash \in Char

VARIABLES
    nm_connection_addresses,      \* ids whose NM address has been written
    client_connection_addresses,  \* ids whose client address has been written
    path_ss_info,                 \* the trie: path -> server
    ht,                           \* the cache
    ht_ready,                     \* FALSE while the pointer ht is NULL
    is_registered                 \* ids a new top-level path may be given to

dirVars == << nm_connection_addresses, client_connection_addresses,
              path_ss_info, ht, ht_ready, is_registered >>

DirInit ==
    /\ nm_connection_addresses = {}
    /\ client_connection_addresses = {}
    /\ path_ss_info = EmptyTrie
    /\ ht = EmptyCache
    /\ ht_ready = FALSE
    /\ is_registered = {}

-----------------------------------------------------------------------------
(* register_ss, one critical section after the other.                      *)
WriteNmAddress(s) ==
    /\ nm_connection_addresses' = nm_connection_addresses \cup {s}
    /\ UNCHANGED << client_connection_addresses, path_ss_info, ht, ht_ready,
                    is_registered >>

WriteClientAddress(s) ==
    /\ client_connection_addresses' = client_connection_addresses \cup {s}
    /\ UNCHANGED << nm_connection_addresses, path_ss_info, ht, ht_ready,
                    is_registered >>

(* Mutant of InsertAll: the loop ends one path too early. *)
InsertAllButOne(t, P, s) ==
    LET Q == IF P = {} THEN {} ELSE P \ {CHOOSE p \in P : TRUE}
    IN  [n \in DOMAIN t \cup UNION {Prefixes(p) : p \in Q} |->
            IF n \in Q THEN s ELSE IF n \in DOMAIN t THEN t[n] ELSE Sentinel]

(* All the announced paths in one critical section; the order of inserting *)
(* distinct words with the same data makes no difference.                  *)
InsertAll(t, P, s) ==
    [n \in DOMAIN t \cup UNION {Prefixes(p) : p \in P} |->
        IF n \in P THEN s ELSE IF n \in DOMAIN t THEN t[n] ELSE Sentinel]

InsertPaths(s, P) ==
    /\ path_ss_info' = InsertAll(path_ss_info, P, s)
    /\ UNCHANGED << nm_connection_addresses, client_connection_addresses, ht,
                    ht_ready, is_registered >>

InitializeTable ==
    /\ ht_ready' = TRUE
    /\ UNCHANGED << nm_connection_addresses, client_connection_addresses,
                    path_ss_info, ht, is_registered >>

SetRegistered(s) ==
    /\ is_registered' = is_registered \cup {s}
    /\ UNCHANGED << nm_connection_addresses, client_connection_addresses,
                    path_ss_info, ht, ht_ready >>

-----------------------------------------------------------------------------
(* The critical sections of add_path, remove_path and get_ss_id_of_path.   *)
TrieInsert(s, p) ==
    /\ path_ss_info' = Insert(path_ss_info, p, s)
    /\ UNCHANGED << nm_connection_addresses, client_connection_addresses, ht,
                    ht_ready, is_registered >>

TrieDelete(p) ==
    /\ path_ss_info' = Delete(path_ss_info, p)
    /\ UNCHANGED << nm_connection_addresses, client_connection_addresses, ht,
                    ht_ready, is_registered >>

(* addPath returns at once while ht is NULL.                               *)
CacheInsert(s, p) ==
    /\ ht' \in (IF ht_ready THEN AddPath(ht, p, s) ELSE {ht})
    /\ UNCHANGED << nm_connection_addresses, client_connection_addresses,
                    path_ss_info, ht_ready, is_registered >>

CacheInsertCrashes(p) == ht_ready /\ AddPathCrashes(ht, p)

CacheDelete(p) ==
    /\ ht' = IF ht_ready THEN DeletePath(ht, p) ELSE ht
    /\ UNCHANGED << nm_connection_addresses, client_connection_addresses,
                    path_ss_info, ht_ready, is_registered >>

(* time(NULL) moves on to the next second. *)
ClockTick ==
    /\ ht' = NextSecond(ht)
    /\ UNCHANGED << nm_connection_addresses, client_connection_addresses,
                    path_ss_info, ht_ready, is_registered >>

CacheAnswers(p) == IF ht_ready THEN GetSSID(ht, p) ELSE {-1}

TrieAnswer(p) == Search(path_ss_info, p)

(* get_random_registered_ss_id: any registered server, -1 when there is none. *)
RandomRegistered == IF is_registered = {} THEN {-1} ELSE is_registered

=============================================================================
