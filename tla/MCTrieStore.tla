----------------------------- MODULE MCTrieStore -----------------------------
(* Every word of one or two characters over two, and two longer ones.      *)
EXTENDS TrieStore

MCWords ==
    {<<x>> : x \in Char} \cup {<<x, y>> : x, y \in Char}
      \cup {<<"a", "a", "b">>, <<"b", "a", "b">>}
=============================================================================
