------------------------------- MODULE WordMap -------------------------------
(***************************************************************************)
(* What the catalogue promises its users: a map from words to values.      *)
(* Putting a word changes that word only.  Removing a word never adds or   *)
(* alters an entry, but promises little about what goes:                   *)
(*   - a word that is in the map goes together with some words that are    *)
(*     its prefixes or extensions, or nothing goes at all;                 *)
(*   - a word that is not in the map may take away any words that share    *)
(*     its first character.                                                *)
(***************************************************************************)
EXTENDS SequencesExt

CONSTANTS Words, Values

VARIABLES
    map,        \* the entries
    word        \* the word of the last operation

Comparable(v, w) == IsPrefix(v, w) \/ IsPrefix(w, v)

Init == map = [w \in {} |-> 0] /\ word = <<>>

Put(w, val) ==
    /\ map' = [v \in DOMAIN map \cup {w} |-> IF v = w THEN val ELSE map[v]]
    /\ word' = w

Gone == DOMAIN map \ DOMAIN map'

Forget(w) ==
    /\ DOMAIN map' \subseteq DOMAIN map
    /\ \A v \in DOMAIN map' : map'[v] = map[v]
    /\ IF w \in DOMAIN map
       THEN \/ Gone = {}
            \/ w \in Gone /\ \A v \in Gone : Comparable(v, w)
       ELSE \A v \in Gone : v[1] = w[1]
    /\ word' = w

Next == \E w \in Words : Forget(w) \/ \E val \in Values : Put(w, val)

Spec == Init /\ [][Next]_<<map, word>>

=============================================================================
