-------------------------------- MODULE Trie --------------------------------
(***************************************************************************)
(* The path catalogue of the naming server: the prefix tree of NM/trie.c.  *)
(*                                                                         *)
(* A node is identified with the word that leads to it from the root, so a *)
(* tree is a function from its nodes to their data.  The root <<>> always  *)
(* exists; every prefix of a node is a node (IsTrie).  A node without data *)
(* holds Sentinel.  `word[i] != '\0'` is `i <= Len(word)`.                 *)
(*                                                                         *)
(* Byte 0xFF is outside Char: init_trie_node leaves that child pointer     *)
(* uninitialised (trie.c:10), and no path the system names contains it.    *)
(***************************************************************************)
EXTENDS Integers, SequencesExt

CONSTANT Char          \* the bytes paths are made of

Sentinel == -1         \* TRIE_SENTINEL_DATA

Word == Seq(Char)

EmptyTrie == [n \in {<<>>} |-> Sentinel]

(* What every tree the code builds satisfies by construction.              *)
IsTrie(t) ==
    /\ DOMAIN t \subseteq Word
    /\ <<>> \in DOMAIN t
    /\ \A n \in DOMAIN t : \A k \in 0 .. Len(n) : SubSeq(n, 1, k) \in DOMAIN t

HasChild(t, n, c) == Append(n, c) \in DOMAIN t

-----------------------------------------------------------------------------
(* Mutant of Insert: the nodes are created, the data is not set.           *)
InsertWithoutData(t, w, data) ==
    [n \in DOMAIN t \cup Prefixes(w) |-> IF n \in DOMAIN t THEN t[n] ELSE Sentinel]

(* insert_trie: create the missing nodes of the word, set the last one.    *)
Insert(t, w, data) ==
    [n \in DOMAIN t \cup Prefixes(w) |->
        IF n = w THEN data ELSE IF n \in DOMAIN t THEN t[n] ELSE Sentinel]

(* search_trie: a strict walk, Sentinel as soon as a character is missing. *)
Search(t, w) == IF w \in DOMAIN t THEN t[w] ELSE Sentinel

-----------------------------------------------------------------------------
(* The walk of is_leaf_node and check_divergence: a character that has no  *)
(* child is SKIPPED and the walk goes on from the same node, so a word     *)
(* that is not in the tree still leads somewhere.                          *)
Walk(t, w) ==
    LET at[i \in 0 .. Len(w)] ==
          IF i = 0 THEN <<>>
          ELSE IF HasChild(t, at[i - 1], w[i]) THEN Append(at[i - 1], w[i])
          ELSE at[i - 1]
    IN  at

IsLeafNode(t, w) == t[Walk(t, w)[Len(w)]] # Sentinel

(* The i-th character is taken at a node that has another child as well.   *)
Diverges(t, w, i) ==
    LET n == Walk(t, w)[i - 1]
    IN  /\ HasChild(t, n, w[i])
        /\ \E c \in Char \ {w[i]} : HasChild(t, n, c)

(* Mutant of CheckDivergence: the first divergence instead of the last.    *)
FirstDivergence(t, w) ==
    LET at == {i \in 1 .. Len(w) : Diverges(t, w, i)}
    IN  IF at = {} THEN 0 ELSE Min(at)

(* check_divergence: the position after the last divergence, 0 if none.    *)
CheckDivergence(t, w) == Max({0} \cup {i \in 1 .. Len(w) : Diverges(t, w, i)})

(* Mutant of LongestPrefix: the word is cut after the diverging character. *)
LongestPrefixOffByOne(t, w) ==
    IF CheckDivergence(t, w) = 0 THEN w ELSE SubSeq(w, 1, CheckDivergence(t, w))

(* find_longest_prefix: the word cut before its last diverging character,  *)
(* or the whole word when it never diverges.                               *)
LongestPrefix(t, w) ==
    IF CheckDivergence(t, w) = 0 THEN w
    ELSE SubSeq(w, 1, CheckDivergence(t, w) - 1)

(* The subtree delete_trie frees: the one that starts at the character     *)
(* after the longest prefix.  With no divergence that character is the     *)
(* terminating NUL, which is no child of any node: nothing is removed.     *)
Doomed(t, w) ==
    LET p == LongestPrefix(t, w)
    IN  IF Len(p) = Len(w) \/ ~ IsLeafNode(t, w) THEN {}
        ELSE {n \in DOMAIN t : IsPrefix(Append(p, w[Len(p) + 1]), n)}

(* Mutant of Delete: the node goes, what is below it is left behind. *)
DeleteNodeOnly(t, w) ==
    Restrict(t, {n \in DOMAIN t : n \in Doomed(t, w) => Len(n) > Len(LongestPrefix(t, w)) + 1})

Delete(t, w) == Restrict(t, DOMAIN t \ Doomed(t, w))

=============================================================================
