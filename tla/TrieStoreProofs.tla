-------------------------- MODULE TrieStoreProofs ---------------------------
(* The prefix tree under any calls: it keeps its shape, leaves no branch   *)
(* dangling, and implements the map of WordMap.                            *)
EXTENDS TrieStore, TrieProofs

(* The recursion of the walk has a solution, so that Walk is one.          *)
LEMMA WalkSteps ==
    ASSUME NEW t, NEW w \in Word
    PROVE  /\ Walk(t, w)[0] = <<>>
           /\ \A i \in 1 .. Len(w) :
                 Walk(t, w)[i] =
                    IF HasChild(t, Walk(t, w)[i - 1], w[i])
                    THEN Append(Walk(t, w)[i - 1], w[i])
                    ELSE Walk(t, w)[i - 1]
<1> DEFINE G(f, i) == IF i = 0 THEN <<>>
                      ELSE IF HasChild(t, f[i - 1], w[i]) THEN Append(f[i - 1], w[i])
                      ELSE f[i - 1]
           Solves(f, k) == f = [i \in 0 .. k |-> G(f, i)]
           Bad == {k \in Nat : ~ \E f : Solves(f, k)}
<1>1. Bad = {}
  <2> SUFFICES ASSUME Bad # {} PROVE FALSE
    OBVIOUS
  <2>1. PICK m \in Bad : \A k \in Bad : m <= k
    <3>1. Bad \in SUBSET Nat
      OBVIOUS
    <3> HIDE DEF Bad
    <3> QED BY <3>1, LeastNat
  <2>2. CASE m = 0
    <3> DEFINE f == [i \in 0 .. 0 |-> <<>>]
    <3>1. Solves(f, 0)
      OBVIOUS
    <3> QED BY <2>1, <2>2, <3>1
  <2>3. CASE m # 0
    <3>0. m \in Nat
      OBVIOUS
    <3>1. m - 1 \in Nat /\ ~ (m - 1 \in Bad)
      <4> HIDE DEF Bad
      <4> QED BY <2>1, <2>3, <3>0
    <3>2. PICK f : Solves(f, m - 1)
      BY <3>1
    <3> DEFINE g == [i \in 0 .. m |-> IF i = m THEN G(f, m) ELSE f[i]]
    <3>3. \A i \in 0 .. m - 1 : f[i] = G(f, i) /\ g[i] = f[i]
      <4>1. \A i \in 0 .. m - 1 : i \in 0 .. m /\ i # m
        BY <3>0
      <4> HIDE DEF G
      <4>2. \A i \in 0 .. m - 1 : f[i] = G(f, i)
        BY <3>2
      <4> QED BY <4>1, <4>2
    <3>4. \A i \in 0 .. m : i # 0 => g[i - 1] = f[i - 1]
      <4> HIDE DEF g
      <4> QED BY <3>0, <3>3
    <3> HIDE DEF g
    <3>5. \A i \in 0 .. m : G(g, i) = G(f, i)
      BY <3>4
    <3>6. \A i \in 0 .. m : g[i] = G(g, i)
      <4> TAKE i \in 0 .. m
      <4>1. CASE i = m
        <5> HIDE DEF G
        <5> QED BY <3>5, <4>1 DEF g
      <4>2. CASE i # m
        <5>1. i \in 0 .. m - 1
          BY <3>0, <4>2
        <5> HIDE DEF G
        <5> QED BY <5>1, <3>3, <3>5
      <4> QED BY <4>1, <4>2
    <3>7. Solves(g, m)
      <4> HIDE DEF G
      <4>1. g = [i \in 0 .. m |-> g[i]]
        BY DEF g
      <4> QED BY <4>1, <3>6
    <3> HIDE DEF Solves
    <3> QED BY <2>1, <3>7
  <2> QED BY <2>2, <2>3
<1>2. Len(w) \in Nat
  BY DEF Word
<1>3. \E f : Solves(f, Len(w))
  BY <1>1, <1>2
<1>4. Solves(Walk(t, w), Len(w))
  BY <1>3 DEF Walk
<1>5. \A i \in 0 .. Len(w) : Walk(t, w)[i] = G(Walk(t, w), i)
  <2> HIDE DEF G
  <2> QED BY <1>4
<1> QED
  BY <1>2, <1>5

(* As long as the word is in the tree, the walk skips nothing. *)
LEMMA WalkInTree ==
    ASSUME NEW t, IsTrie(t), NEW w \in Word, NEW k \in 0 .. Len(w),
           SubSeq(w, 1, k) \in DOMAIN t
    PROVE  \A i \in 0 .. k : Walk(t, w)[i] = SubSeq(w, 1, i)
<1> DEFINE at == Walk(t, w)
           Bad == {i \in 0 .. k : at[i] # SubSeq(w, 1, i)}
<1>0. Len(w) \in Nat /\ w \in Seq(Char)
  BY DEF Word
<1>1. at[0] = <<>> /\ \A i \in 1 .. Len(w) :
         at[i] = IF HasChild(t, at[i - 1], w[i]) THEN Append(at[i - 1], w[i]) ELSE at[i - 1]
  BY WalkSteps
<1> HIDE DEF at
<1>2. SUFFICES ASSUME Bad # {} PROVE FALSE
  BY DEF at
<1>3. PICK m \in Bad : \A i \in Bad : m <= i
  <2>1. Bad \in SUBSET Nat
    OBVIOUS
  <2> HIDE DEF Bad
  <2> QED BY <1>2, <2>1, LeastNat
<1>4. m \in 0 .. k /\ at[m] # SubSeq(w, 1, m)
  OBVIOUS
<1>5. m # 0
  <2>1. SubSeq(w, 1, 0) = <<>>
    BY <1>0
  <2> QED BY <1>1, <1>4, <2>1
<1>6. m \in 1 .. Len(w) /\ m - 1 \in 0 .. k
  BY <1>0, <1>4, <1>5
<1>7. at[m - 1] = SubSeq(w, 1, m - 1)
  <2>1. ~ (m - 1 \in Bad)
    <3> HIDE DEF Bad
    <3> QED BY <1>3, <1>6
  <2> QED BY <1>6, <2>1
<1>8. SubSeq(w, 1, m) = Append(SubSeq(w, 1, m - 1), w[m])
  BY <1>0, <1>6
<1>9. SubSeq(w, 1, m) \in DOMAIN t
  <2>1. SubSeq(SubSeq(w, 1, k), 1, m) = SubSeq(w, 1, m) /\ m \in 0 .. Len(SubSeq(w, 1, k))
    BY <1>0, <1>4, <1>6
  <2> QED BY <2>1 DEF IsTrie
<1> QED
  BY <1>1, <1>4, <1>6, <1>7, <1>8, <1>9 DEF HasChild

(* The last divergence is one, and there is none after it. *)
LEMMA LastDivergence ==
    ASSUME NEW t, NEW w \in Word
    PROVE  /\ CheckDivergence(t, w) # 0 => Diverges(t, w, CheckDivergence(t, w))
           /\ \A i \in 1 .. Len(w) : Diverges(t, w, i) => i <= CheckDivergence(t, w)
<1> DEFINE T == {0} \cup {i \in 1 .. Len(w) : Diverges(t, w, i)}
<1>1. Len(w) \in Nat
  BY DEF Word
<1>2. T \in SUBSET (0 .. Len(w)) /\ T # {}
  BY <1>1
<1>3. CheckDivergence(t, w) = Max(T)
  BY DEF CheckDivergence
<1>4. Max(T) \in T /\ \A k \in T : k <= Max(T)
  <2> HIDE DEF T
  <2> QED BY <1>1, <1>2, MaxIsMember
<1> QED
  BY <1>3, <1>4

(* Words that do not continue each other part at some character. *)
LEMMA FirstDifference ==
    ASSUME NEW v \in Word, NEW w \in Word, NEW b \in 0 .. Len(w),
           IsPrefix(SubSeq(w, 1, b), v), ~ IsPrefix(v, w), ~ IsPrefix(w, v)
    PROVE  \E k \in b .. Len(w) - 1 :
              /\ k < Len(v) /\ SubSeq(v, 1, k) = SubSeq(w, 1, k)
              /\ v[k + 1] # w[k + 1]
<1> DEFINE D == {i \in 1 .. Len(w) : i <= Len(v) /\ v[i] # w[i]}
<1>1. Len(v) \in Nat /\ Len(w) \in Nat /\ v \in Seq(Char) /\ w \in Seq(Char)
  BY DEF Word
<1>2. Len(SubSeq(w, 1, b)) = b /\ \A i \in 1 .. b : SubSeq(w, 1, b)[i] = w[i]
  BY <1>1
<1>3. b <= Len(v) /\ \A i \in 1 .. b : v[i] = w[i]
  <2>1. b <= Len(v) /\ SubSeq(SubSeq(w, 1, b), 1, b) = SubSeq(v, 1, b)
    BY <1>2 DEF IsPrefix
  <2>2. SubSeq(SubSeq(w, 1, b), 1, b) = SubSeq(w, 1, b)
    BY <1>1, <1>2
  <2>3. \A i \in 1 .. b : SubSeq(v, 1, b)[i] = v[i]
    BY <1>1, <2>1
  <2> QED BY <1>2, <2>1, <2>2, <2>3
<1>4. D # {}
  <2> SUFFICES ASSUME D = {} PROVE FALSE
    OBVIOUS
  <2>1. \A i \in 1 .. Len(w) : i <= Len(v) => v[i] = w[i]
    OBVIOUS
  <2>2. CASE Len(v) <= Len(w)
    <3>1. SubSeq(v, 1, Len(v)) = SubSeq(w, 1, Len(v))
      BY <1>1, <2>1, <2>2
    <3> QED BY <2>2, <3>1 DEF IsPrefix
  <2>3. CASE Len(w) <= Len(v)
    <3>1. SubSeq(w, 1, Len(w)) = SubSeq(v, 1, Len(w))
      BY <1>1, <2>1, <2>3
    <3> QED BY <2>3, <3>1 DEF IsPrefix
  <2> QED BY <1>1, <2>2, <2>3
<1>5. PICK m \in D : \A i \in D : m <= i
  <2>1. D \in SUBSET Nat
    OBVIOUS
  <2> HIDE DEF D
  <2> QED BY <1>4, <2>1, LeastNat
<1>6. m \in 1 .. Len(w) /\ m <= Len(v) /\ v[m] # w[m]
  OBVIOUS
<1>7. ~ (m \in 1 .. b)
  BY <1>3, <1>6
<1>8. \A i \in 1 .. m - 1 : v[i] = w[i]
  <2> TAKE i \in 1 .. m - 1
  <2>1. i \in 1 .. Len(w) /\ i <= Len(v) /\ ~ (m <= i)
    BY <1>1, <1>6
  <2>2. ~ (i \in D)
    <3> HIDE DEF D
    <3> QED BY <1>5, <2>1
  <2> QED BY <2>1, <2>2
<1>9. SubSeq(v, 1, m - 1) = SubSeq(w, 1, m - 1)
  BY <1>1, <1>6, <1>8
<1>10. m - 1 \in b .. Len(w) - 1 /\ m - 1 < Len(v) /\ (m - 1) + 1 = m
  BY <1>1, <1>6, <1>7
<1> QED
  BY <1>6, <1>9, <1>10

(* A word that is in the tree takes only its prefixes and extensions with  *)
(* it: a word that parts from it further down would be a later divergence. *)
LEMMA DoomedAreComparable ==
    ASSUME NEW t, IsTrie(t), NEW w \in DOMAIN t, NEW v \in Doomed(t, w)
    PROVE  IsPrefix(v, w) \/ IsPrefix(w, v)
<1> SUFFICES ASSUME ~ IsPrefix(v, w), ~ IsPrefix(w, v)
             PROVE  FALSE
  OBVIOUS
<1> DEFINE b == CheckDivergence(t, w)
<1>1. w \in Word /\ w \in Seq(Char) /\ Len(w) \in Nat
  BY DEF IsTrie, Word
<1>2. b \in 1 .. Len(w) /\ v \in DOMAIN t /\ IsPrefix(SubSeq(w, 1, b), v)
  BY <1>1, DoomedAtDivergence
<1>3. v \in Word /\ v \in Seq(Char) /\ Len(v) \in Nat
  BY <1>2 DEF IsTrie, Word
<1>4. PICK k \in b .. Len(w) - 1 :
         k < Len(v) /\ SubSeq(v, 1, k) = SubSeq(w, 1, k) /\ v[k + 1] # w[k + 1]
  <2> HIDE DEF b
  <2>1. b \in 0 .. Len(w)
    BY <1>1, <1>2
  <2> QED BY <1>1, <1>2, <1>3, <2>1, FirstDifference
<1>5. k \in Nat /\ k \in 0 .. Len(w) /\ k + 1 \in 1 .. Len(w) /\ k + 1 \in 1 .. Len(v) /\ k >= b
  <2> HIDE DEF b
  <2> QED BY <1>1, <1>2, <1>3, <1>4
<1> HIDE DEF b
<1>6. /\ SubSeq(w, 1, k) \in DOMAIN t
      /\ SubSeq(w, 1, k + 1) \in DOMAIN t
      /\ SubSeq(v, 1, k + 1) \in DOMAIN t
  <2>1. k + 1 \in 0 .. Len(w) /\ k + 1 \in 0 .. Len(v)
    BY <1>1, <1>3, <1>5
  <2> QED BY <1>2, <1>5, <2>1 DEF IsTrie
<1>7. Walk(t, w)[k] = SubSeq(w, 1, k)
  <2>1. k \in 0 .. k
    BY <1>5
  <2> QED BY <1>1, <1>5, <1>6, <2>1, WalkInTree
<1>8. /\ SubSeq(w, 1, k + 1) = Append(SubSeq(w, 1, k), w[k + 1])
      /\ SubSeq(v, 1, k + 1) = Append(SubSeq(v, 1, k), v[k + 1])
  BY <1>1, <1>3, <1>5
<1>9. v[k + 1] \in Char
  BY <1>3, <1>5
<1>10. Diverges(t, w, k + 1)
  <2>1. (k + 1) - 1 = k
    BY <1>5
  <2> QED BY <1>4, <1>6, <1>7, <1>8, <1>9, <2>1 DEF Diverges, HasChild
<1>11. k + 1 <= b
  BY <1>1, <1>5, <1>10, LastDivergence DEF b
<1>12. b \in Nat
  BY <1>1, <1>2
<1> QED
  BY <1>5, <1>11, <1>12

-----------------------------------------------------------------------------
(* The words of the calls are words, and not empty; no value is Sentinel.  *)
LEMMA CallFacts ==
    /\ \A w \in Words : w \in Word /\ w # <<>>
    /\ \A val \in Values : val # Sentinel
BY WordsAssumption

LEMMA InitOK == Init => TypeOK /\ NoDanglingBranch
<1>1. IsTrie(EmptyTrie)
  BY DEF IsTrie, EmptyTrie, Word
<1>2. DOMAIN EmptyTrie = {<<>>} /\ EmptyTrie[<<>>] = Sentinel
  BY DEF EmptyTrie
<1> QED
  BY <1>1, <1>2 DEF Init, TypeOK, NoDanglingBranch

(* The shape is kept by either call. *)
LEMMA NextTyped == TypeOK /\ [Next]_<<trie, word>> => TypeOK'
<1> SUFFICES ASSUME TypeOK, [Next]_<<trie, word>> PROVE TypeOK'
  OBVIOUS
<1>1. ASSUME NEW w \in Words, DeleteWord(w)
      PROVE  TypeOK'
  <2>1. IsTrie(trie')
    BY <1>1, CallFacts, DeleteIsTrie DEF TypeOK, DeleteWord
  <2>2. DOMAIN trie' \subseteq DOMAIN trie /\ \A n \in DOMAIN trie' : trie'[n] = trie[n]
    BY <1>1, DeleteData DEF DeleteWord
  <2> QED BY <2>1, <2>2 DEF TypeOK
<1>2. ASSUME NEW w \in Words, NEW val \in Values, InsertWord(w, val)
      PROVE  TypeOK'
  <2>1. IsTrie(trie')
    BY <1>2, CallFacts, InsertIsTrie DEF TypeOK, InsertWord
  <2>2. \A n \in DOMAIN trie' :
           trie'[n] = IF n = w THEN val ELSE IF n \in DOMAIN trie THEN trie[n] ELSE Sentinel
    BY <1>2, InsertData DEF InsertWord
  <2> QED BY <2>1, <2>2 DEF TypeOK
<1>3. CASE UNCHANGED <<trie, word>>
  BY <1>3 DEF TypeOK
<1> QED
  BY <1>1, <1>2, <1>3 DEF Next

(* A node that insert_trie makes continues to the end of the word, where   *)
(* the data is.                                                            *)
LEMMA InsertLeavesNoneDangling ==
    ASSUME TypeOK, NoDanglingBranch, NEW w \in Words, NEW val \in Values,
           InsertWord(w, val)
    PROVE  NoDanglingBranch'
<1>1. w \in Seq(Char) /\ w \in Word /\ Len(w) \in Nat /\ val # Sentinel
  BY CallFacts DEF Word
<1>2. DOMAIN trie' = DOMAIN trie \cup Prefixes(w)
  BY DEF InsertWord, Insert
<1>3. SUFFICES ASSUME NEW n \in DOMAIN trie', n # <<>>, trie'[n] = Sentinel
               PROVE  \E c \in Char : Append(n, c) \in DOMAIN trie'
  BY DEF NoDanglingBranch, HasChild
<1>4. n # w /\ (n \in DOMAIN trie => trie[n] = Sentinel)
  BY <1>1, <1>3, InsertData DEF InsertWord
<1>5. CASE n \in DOMAIN trie
  BY <1>2, <1>3, <1>4, <1>5 DEF NoDanglingBranch, HasChild
<1>6. CASE n \in Prefixes(w)
  <2>1. PICK l \in 0 .. Len(w) : n = SubSeq(w, 1, l)
    BY <1>6 DEF Prefixes
  <2>2. l # Len(w)
    BY <1>1, <1>4, <2>1
  <2>3. l + 1 \in 0 .. Len(w) /\ w[l + 1] \in Char
        /\ Append(SubSeq(w, 1, l), w[l + 1]) = SubSeq(w, 1, l + 1)
    BY <1>1, <2>1, <2>2
  <2>4. SubSeq(w, 1, l + 1) \in Prefixes(w)
    BY <2>3 DEF Prefixes
  <2> QED BY <1>2, <2>1, <2>3, <2>4
<1> QED
  BY <1>2, <1>3, <1>5, <1>6

(* The node above what delete_trie frees diverges: it has another child.   *)
LEMMA DeleteLeavesNoneDangling ==
    ASSUME TypeOK, NoDanglingBranch, NEW w \in Words, DeleteWord(w)
    PROVE  NoDanglingBranch'
<1> DEFINE b == CheckDivergence(trie, w)
<1>1. w \in Seq(Char) /\ w \in Word /\ Len(w) \in Nat /\ IsTrie(trie)
  BY CallFacts DEF Word, TypeOK
<1>2. DOMAIN trie' = DOMAIN trie \ Doomed(trie, w)
  BY DEF DeleteWord, Delete, Restrict
<1>3. SUFFICES ASSUME NEW n \in DOMAIN trie', n # <<>>, trie'[n] = Sentinel
               PROVE  \E c \in Char : Append(n, c) \in DOMAIN trie'
  BY DEF NoDanglingBranch, HasChild
<1>4. n \in DOMAIN trie /\ n \notin Doomed(trie, w) /\ trie[n] = Sentinel
  BY <1>2, <1>3, DeleteData DEF DeleteWord
<1>5. PICK c \in Char : Append(n, c) \in DOMAIN trie
  BY <1>3, <1>4 DEF NoDanglingBranch, HasChild
<1>6. CASE Append(n, c) \notin Doomed(trie, w)
  BY <1>2, <1>5, <1>6
<1>7. CASE Append(n, c) \in Doomed(trie, w)
  <2>1. /\ b \in 1 .. Len(w)
        /\ Doomed(trie, w) = {v \in DOMAIN trie : IsPrefix(SubSeq(w, 1, b), v)}
    BY <1>1, <1>7, DoomedAtDivergence
  <2> HIDE DEF b
  <2>2. n \in Seq(Char) /\ Len(n) \in Nat /\ b \in Nat /\ b - 1 \in 0 .. Len(w)
    BY <1>1, <1>4, <2>1 DEF IsTrie, Word
  <2>3. Len(SubSeq(w, 1, b)) = b
    BY <1>1, <2>1
  <2>4. b <= Len(n) + 1 /\ SubSeq(w, 1, b) = SubSeq(Append(n, c), 1, b)
    <3>1. IsPrefix(SubSeq(w, 1, b), Append(n, c))
      BY <1>7, <2>1
    <3>2. Len(Append(n, c)) = Len(n) + 1
      BY <2>2
    <3>3. SubSeq(SubSeq(w, 1, b), 1, b) = SubSeq(w, 1, b)
      BY <1>1, <2>1
    <3> QED BY <2>3, <3>1, <3>2, <3>3 DEF IsPrefix
  <2>5. b = Len(n) + 1
    <3> SUFFICES ASSUME b <= Len(n) PROVE FALSE
      BY <2>2, <2>4
    <3>1. SubSeq(Append(n, c), 1, b) = SubSeq(n, 1, b)
      BY <2>2
    <3>2. SubSeq(SubSeq(w, 1, b), 1, b) = SubSeq(n, 1, b)
      <4>1. SubSeq(SubSeq(w, 1, b), 1, b) = SubSeq(w, 1, b)
        BY <1>1, <2>1
      <4> QED BY <2>4, <3>1, <4>1
    <3>3. IsPrefix(SubSeq(w, 1, b), n)
      BY <2>3, <3>2 DEF IsPrefix
    <3> QED BY <1>4, <2>1, <3>3
  <2>6. n = SubSeq(w, 1, b - 1) /\ c = w[b]
    <3>1. Append(n, c) = SubSeq(w, 1, b)
      BY <2>2, <2>4, <2>5
    <3>2. SubSeq(w, 1, b) = Append(SubSeq(w, 1, b - 1), w[b])
      BY <1>1, <2>1, <2>2
    <3>3. SubSeq(w, 1, b - 1) \in Seq(Char)
      BY <1>1, <2>2
    <3> QED BY <2>2, <3>1, <3>2, <3>3
  <2>7. Walk(trie, w)[b - 1] = n
    <3>1. SubSeq(w, 1, b - 1) \in DOMAIN trie
      BY <1>4, <2>6
    <3>2. b - 1 \in 0 .. b - 1
      BY <2>2
    <3> QED BY <1>1, <2>2, <2>6, <3>1, <3>2, WalkInTree
  <2>8. PICK e \in Char \ {w[b]} : Append(n, e) \in DOMAIN trie
    <3>1. Diverges(trie, w, b)
      BY <1>1, <2>1, LastDivergence DEF b
    <3> QED BY <2>7, <3>1 DEF Diverges, HasChild
  <2>9. ~ IsPrefix(SubSeq(w, 1, b), Append(n, e))
    <3> SUFFICES ASSUME IsPrefix(SubSeq(w, 1, b), Append(n, e)) PROVE FALSE
      OBVIOUS
    <3>1. SubSeq(SubSeq(w, 1, b), 1, b) = SubSeq(Append(n, e), 1, b)
      BY <2>3 DEF IsPrefix
    <3>2. SubSeq(Append(n, e), 1, b)[b] = e
      BY <2>2, <2>5
    <3>3. SubSeq(SubSeq(w, 1, b), 1, b)[b] = w[b]
      BY <1>1, <2>1
    <3> QED BY <2>8, <3>1, <3>2, <3>3
  <2> QED BY <1>2, <2>1, <2>8, <2>9
<1> QED
  BY <1>6, <1>7

(* Nodes are words closed under prefix, and data are values, whatever is   *)
(* inserted and deleted (trie.c:27, trie.c:108).                           *)
THEOREM StoreTyped == Spec => []TypeOK
<1>1. Init => TypeOK
  BY InitOK
<1>2. QED
  BY <1>1, NextTyped, PTL DEF Spec

(* No branch of the tree ever ends without data, although delete_trie      *)
(* removes whole subtrees and never prunes upwards (trie.c:139).           *)
THEOREM NoneDangling == Spec => []NoDanglingBranch
<1> DEFINE Inv == TypeOK /\ NoDanglingBranch
<1>1. Init => Inv
  BY InitOK
<1>2. Inv /\ [Next]_<<trie, word>> => Inv'
  <2> SUFFICES ASSUME TypeOK, NoDanglingBranch, [Next]_<<trie, word>>
               PROVE  NoDanglingBranch'
    BY NextTyped
  <2>1. ASSUME NEW w \in Words, NEW val \in Values, InsertWord(w, val)
        PROVE  NoDanglingBranch'
    BY <2>1, InsertLeavesNoneDangling
  <2>2. ASSUME NEW w \in Words, DeleteWord(w)
        PROVE  NoDanglingBranch'
    BY <2>2, DeleteLeavesNoneDangling
  <2>3. CASE UNCHANGED <<trie, word>>
    BY <2>3 DEF NoDanglingBranch
  <2> QED BY <2>1, <2>2, <2>3 DEF Next
<1>3. Inv => NoDanglingBranch
  OBVIOUS
<1>4. QED
  BY <1>1, <1>2, <1>3, PTL DEF Spec

-----------------------------------------------------------------------------
(* The refinement: what the tree holds is a WordMap. *)
Entries == [w \in Held |-> trie[w]]

(* An insertion puts its word. *)
LEMMA InsertPuts ==
    ASSUME TypeOK, NEW w \in Words, NEW val \in Values, InsertWord(w, val)
    PROVE  Map!Put(w, val)
<1>1. w \in Word /\ val # Sentinel
  BY CallFacts
<1>2. DOMAIN trie' = DOMAIN trie \cup Prefixes(w) /\ w \in Prefixes(w)
  BY <1>1, PrefixesClosed DEF InsertWord, Insert
<1>3. \A n \in DOMAIN trie' :
         trie'[n] = IF n = w THEN val ELSE IF n \in DOMAIN trie THEN trie[n] ELSE Sentinel
  BY InsertData DEF InsertWord
<1>4. Held' = Held \cup {w}
  BY <1>1, <1>2, <1>3 DEF Held
<1>5. \A v \in Held' : trie'[v] = IF v = w THEN val ELSE trie[v]
  BY <1>3, <1>4 DEF Held
<1>6. Entries' = [v \in DOMAIN Entries \cup {w} |-> IF v = w THEN val ELSE Entries[v]]
  BY <1>4, <1>5 DEF Entries
<1> QED
  BY <1>6 DEF Map!Put, Entries, InsertWord

(* A deletion forgets no more than it may. *)
LEMMA DeleteForgetsLittle ==
    ASSUME TypeOK, NEW w \in Words, DeleteWord(w)
    PROVE  Map!Forget(w)
<1>1. w \in Word /\ w \in Seq(Char) /\ Len(w) \in Nat /\ IsTrie(trie)
  BY CallFacts DEF Word, TypeOK
<1>2. /\ DOMAIN trie' = DOMAIN trie \ Doomed(trie, w)
      /\ \A n \in DOMAIN trie' : trie'[n] = trie[n]
  BY DeleteData DEF DeleteWord, Delete, Restrict
<1>3. Held' = Held \ Doomed(trie, w)
  BY <1>2 DEF Held
<1>4. \A v \in Held' : Entries'[v] = Entries[v]
  BY <1>2, <1>3 DEF Entries, Held
<1>5. DOMAIN Entries = Held /\ DOMAIN Entries' = Held'
  BY DEF Entries
<1>6. \A v \in Held \ Held' : v \in Doomed(trie, w)
  BY <1>3
<1>7. w \in Held => \A v \in Held \ Held' : Map!Comparable(v, w)
  <2> SUFFICES ASSUME w \in Held, NEW v \in Held \ Held'
               PROVE  Map!Comparable(v, w)
    OBVIOUS
  <2>1. v \in Doomed(trie, w) /\ w \in DOMAIN trie
    BY <1>6 DEF Held
  <2>2. IsPrefix(v, w) \/ IsPrefix(w, v)
    BY <1>1, <2>1, DoomedAreComparable
  <2> QED BY <2>2 DEF Map!Comparable, Map!IsPrefix, IsPrefix
<1>8. w \in Held /\ Held \ Held' # {} => w \in Held \ Held'
  <2> SUFFICES ASSUME w \in Held, Doomed(trie, w) # {}
               PROVE  w \in Doomed(trie, w)
    BY <1>3
  <2>1. /\ CheckDivergence(trie, w) \in 1 .. Len(w)
        /\ Doomed(trie, w) =
              {n \in DOMAIN trie : IsPrefix(SubSeq(w, 1, CheckDivergence(trie, w)), n)}
    BY <1>1, DoomedAtDivergence
  <2>2. IsPrefix(SubSeq(w, 1, CheckDivergence(trie, w)), w)
    BY <1>1, <2>1 DEF IsPrefix
  <2> QED BY <2>1, <2>2 DEF Held
<1>9. \A v \in Held \ Held' : v[1] = w[1]
  <2> TAKE v \in Held \ Held'
  <2> DEFINE b == CheckDivergence(trie, w)
  <2>1. b \in 1 .. Len(w) /\ IsPrefix(SubSeq(w, 1, b), v)
    BY <1>1, <1>6, DoomedAtDivergence
  <2> HIDE DEF b
  <2>2. v \in Seq(Char) /\ Len(v) \in Nat
    BY <1>1 DEF Held, IsTrie, Word
  <2>3. /\ Len(SubSeq(w, 1, b)) = b /\ SubSeq(SubSeq(w, 1, b), 1, b) = SubSeq(w, 1, b)
        /\ SubSeq(w, 1, b)[1] = w[1] /\ b \in Nat \ {0}
    BY <1>1, <2>1
  <2>4. b <= Len(v) /\ SubSeq(w, 1, b) = SubSeq(v, 1, b)
    BY <2>1, <2>3 DEF IsPrefix
  <2>5. SubSeq(v, 1, b)[1] = v[1]
    BY <2>2, <2>3, <2>4
  <2> QED BY <2>3, <2>4, <2>5
<1>10. word' = w
  BY DEF DeleteWord
<1>11. Map!Gone = Held \ Held'
  BY <1>5 DEF Map!Gone, Entries
<1> QED
  BY <1>3, <1>4, <1>5, <1>7, <1>8, <1>9, <1>10, <1>11 DEF Map!Forget, Entries

(* The tree implements the map: what insert_trie and delete_trie do to the *)
(* words it holds is a Put or a Forget of WordMap, for any words, values   *)
(* and calls.                                                              *)
THEOREM StoreImplementsMap == Spec => ImplementsMap
<1>1. Init => Map!Init
  <2> SUFFICES ASSUME Init PROVE Map!Init
    OBVIOUS
  <2>1. Held = {}
    BY DEF Init, Held, EmptyTrie
  <2> QED BY <2>1 DEF Init, Map!Init
<1>2. TypeOK /\ [Next]_<<trie, word>> => [Map!Next]_<<Entries, word>>
  <2> SUFFICES ASSUME TypeOK, [Next]_<<trie, word>>
               PROVE  Map!Next \/ UNCHANGED <<Entries, word>>
    OBVIOUS
  <2>1. ASSUME NEW w \in Words, NEW val \in Values, InsertWord(w, val)
        PROVE  Map!Next
    BY <2>1, InsertPuts DEF Map!Next
  <2>2. ASSUME NEW w \in Words, DeleteWord(w)
        PROVE  Map!Next
    BY <2>2, DeleteForgetsLittle DEF Map!Next
  <2>3. CASE UNCHANGED <<trie, word>>
    BY <2>3 DEF Entries, Held
  <2> QED BY <2>1, <2>2, <2>3 DEF Next
<1>3. QED
  BY <1>1, <1>2, StoreTyped, PTL DEF Spec, ImplementsMap, Map!Spec, Entries
=============================================================================
