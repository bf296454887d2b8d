------------------------------ MODULE TrieStore ------------------------------
(***************************************************************************)
(* The trie of NM/trie.c on its own, under any sequence of insert_trie and *)
(* delete_trie: the callers hold path_ss_info_lock for each call.          *)
(***************************************************************************)
EXTENDS Trie

CONSTANTS Words, Values

ASSUME WordsAssumption ==
    /\ Words \subseteq Word \ {<<>>}
    /\ Values \cap {Sentinel} = {}

VARIABLES
    trie,
    word        \* history: the word of the last call

Init == trie = EmptyTrie /\ word = <<>>

InsertWord(w, val) == trie' = Insert(trie, w, val) /\ word' = w

DeleteWord(w) == trie' = Delete(trie, w) /\ word' = w

Next == \E w \in Words : DeleteWord(w) \/ \E val \in Values : InsertWord(w, val)

Spec == Init /\ [][Next]_<<trie, word>>

-----------------------------------------------------------------------------
(* The words the trie holds and their data. *)
Held == {w \in DOMAIN trie : trie[w] # Sentinel}

Map == INSTANCE WordMap WITH map <- [w \in Held |-> trie[w]]

(* Nodes are words and their prefixes, data are values. *)
TypeOK ==
    /\ IsTrie(trie)
    /\ \A n \in DOMAIN trie : trie[n] \in Values \cup {Sentinel}

(* A branch is never left dangling: the node at the end of it holds data,  *)
(* although delete_trie removes whole subtrees and never prunes upwards.   *)
(* is_leaf_node and check_divergence would be misled by such a branch.     *)
NoDanglingBranch ==
    \A n \in DOMAIN trie \ {<<>>} :
        trie[n] = Sentinel => \E c \in Char : HasChild(trie, n, c)

(* Insertions and deletions do no more than a WordMap may: whatever subtree *)
(* delete_trie picks, it loses no word that is neither a prefix nor an     *)
(* extension of the one deleted, as long as that one is there.             *)
ImplementsMap == Map!Spec

=============================================================================
