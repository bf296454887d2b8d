----------------------------- MODULE TrieProofs -----------------------------
(* Facts about the operators of Trie that hold for every tree and word.    *)
EXTENDS Trie, TLAPS, WellFoundedInduction

(* A non-empty set of naturals has a least element. *)
LEMMA LeastNat ==
    ASSUME NEW T \in SUBSET Nat, T # {}
    PROVE  \E m \in T : \A k \in T : m <= k
<1> DEFINE R == OpToRel(<, Nat)
<1>1. \A x, y \in Nat : <<y, x>> \in R <=> y < x
  BY DEF OpToRel
<1> HIDE DEF R
<1>2. IsWellFoundedOn(R, Nat)
  BY NatLessThanWellFounded DEF R
<1>3. \E x \in T : \A y \in T : ~ (<<y, x>> \in R)
  BY <1>2, WFMin
<1>4. PICK m \in T : \A y \in T : ~ (<<y, m>> \in R)
  BY <1>3
<1>5. \A y \in T : ~ (y < m)
  BY <1>1, <1>4
<1> QED
  BY <1>5

(* A non-empty set of integers up to n has a greatest element; Max is one. *)
LEMMA MaxIsMember ==
    ASSUME NEW n \in Nat, NEW T \in SUBSET (0 .. n), T # {}
    PROVE  Max(T) \in T /\ \A k \in T : k <= Max(T)
<1> DEFINE D == {n - k : k \in T}
<1>0. \A k \in T : k \in Int /\ 0 <= k /\ k <= n
  OBVIOUS
<1>1. D \in SUBSET Nat /\ D # {}
  <2>1. \A k \in T : n - k \in Nat
    BY <1>0
  <2> QED BY <2>1
<1>2. PICK m \in D : \A k \in D : m <= k
  <2> HIDE DEF D
  <2> QED BY <1>1, LeastNat
<1>3. PICK x \in T : m = n - x
  BY <1>2
<1>4. \A y \in T : x >= y
  <2> TAKE y \in T
  <2>1. m <= n - y
    BY <1>2
  <2> QED BY <1>0, <1>3, <2>1
<1> QED
  BY <1>4 DEF Max

-----------------------------------------------------------------------------
(* The prefixes of a word are words, and closed under prefix. *)
LEMMA PrefixesClosed ==
    ASSUME NEW w \in Word
    PROVE  /\ Prefixes(w) \subseteq Word
           /\ w \in Prefixes(w)
           /\ \A n \in Prefixes(w) : \A k \in 0 .. Len(n) : SubSeq(n, 1, k) \in Prefixes(w)
<1>1. \A l \in 0 .. Len(w) : SubSeq(w, 1, l) \in Word
  BY DEF Word
<1>2. ASSUME NEW l \in 0 .. Len(w), NEW n, n = SubSeq(w, 1, l), NEW k \in 0 .. Len(n)
      PROVE  SubSeq(n, 1, k) \in Prefixes(w)
  <2>1. Len(n) = l /\ k \in 0 .. Len(w)
    BY <1>2 DEF Word
  <2>2. SubSeq(n, 1, k) = SubSeq(w, 1, k)
    BY <1>2, <2>1 DEF Word
  <2> QED
    BY <2>1, <2>2 DEF Prefixes
<1>3. SubSeq(w, 1, Len(w)) = w /\ Len(w) \in 0 .. Len(w)
  BY DEF Word
<1> QED
  BY <1>1, <1>2, <1>3 DEF Prefixes

(* insert_trie builds a tree again. *)
LEMMA InsertIsTrie ==
    ASSUME NEW t, IsTrie(t), NEW w \in Word, NEW data
    PROVE  IsTrie(Insert(t, w, data))
<1>1. DOMAIN Insert(t, w, data) = DOMAIN t \cup Prefixes(w)
  BY DEF Insert
<1> QED
  BY <1>1, PrefixesClosed DEF IsTrie

(* check_divergence returns a position in the word, 0 for none. *)
LEMMA CheckDivergenceBound ==
    ASSUME NEW t, NEW w \in Word
    PROVE  CheckDivergence(t, w) \in 0 .. Len(w)
<1> DEFINE T == {0} \cup {i \in 1 .. Len(w) : Diverges(t, w, i)}
<1>1. Len(w) \in Nat
  BY DEF Word
<1>2. T \in SUBSET (0 .. Len(w)) /\ T # {}
  BY <1>1
<1>3. CheckDivergence(t, w) = Max(T)
  BY DEF CheckDivergence
<1> HIDE DEF T
<1> QED
  BY <1>1, <1>2, <1>3, MaxIsMember

(* What delete_trie frees begins at the last divergence. *)
LEMMA DoomedAtDivergence ==
    ASSUME NEW t, NEW w \in Word
    PROVE  \/ Doomed(t, w) = {}
           \/ /\ CheckDivergence(t, w) \in 1 .. Len(w)
              /\ Doomed(t, w) =
                    {n \in DOMAIN t : IsPrefix(SubSeq(w, 1, CheckDivergence(t, w)), n)}
<1> DEFINE p == LongestPrefix(t, w)
           b == CheckDivergence(t, w)
<1>1. b \in 0 .. Len(w) /\ Len(w) \in Nat
  BY CheckDivergenceBound DEF Word
<1> HIDE DEF b
<1>2. CASE b = 0
  BY <1>2 DEF Doomed, LongestPrefix, b
<1>3. CASE b # 0
  <2>1. p = SubSeq(w, 1, b - 1)
    BY <1>3 DEF LongestPrefix, b
  <2>2. Len(p) = b - 1 /\ b \in 1 .. Len(w)
    BY <1>1, <1>3, <2>1 DEF Word
  <2>3. Append(p, w[Len(p) + 1]) = SubSeq(w, 1, b)
    <3>1. Append(SubSeq(w, 1, b - 1), w[b]) = SubSeq(w, 1, b)
      BY <2>2 DEF Word
    <3> QED BY <2>1, <2>2, <3>1
  <2>4. \/ Doomed(t, w) = {}
        \/ Doomed(t, w) = {n \in DOMAIN t : IsPrefix(Append(p, w[Len(p) + 1]), n)}
    BY DEF Doomed
  <2> HIDE DEF p
  <2> QED BY <2>2, <2>3, <2>4 DEF b
<1> QED
  BY <1>2, <1>3

(* The words that begin with a non-empty word v: what delete_trie frees.   *)
LEMMA DoomedIsSubtree ==
    ASSUME NEW t, NEW w \in Word
    PROVE  \/ Doomed(t, w) = {}
           \/ \E b \in 1 .. Len(w) :
                 Doomed(t, w) = {n \in DOMAIN t : IsPrefix(SubSeq(w, 1, b), n)}
BY DoomedAtDivergence

(* delete_trie leaves a tree: it takes whole subtrees and never the root.  *)
LEMMA DeleteIsTrie ==
    ASSUME NEW t, IsTrie(t), NEW w \in Word
    PROVE  IsTrie(Delete(t, w))
<1>1. DOMAIN Delete(t, w) = DOMAIN t \ Doomed(t, w)
  BY DEF Delete, Restrict
<1>2. CASE Doomed(t, w) = {}
  BY <1>1, <1>2 DEF IsTrie
<1>3. ASSUME NEW b \in 1 .. Len(w),
             Doomed(t, w) = {n \in DOMAIN t : IsPrefix(SubSeq(w, 1, b), n)}
      PROVE  IsTrie(Delete(t, w))
  <2> DEFINE v == SubSeq(w, 1, b)
  <2>1. Len(v) = b /\ v \in Seq(Char) /\ b \in Nat \ {0}
    BY DEF Word
  <2> HIDE DEF v
  <2>2. ~ IsPrefix(v, <<>>)
    BY <2>1 DEF IsPrefix
  <2>3. ASSUME NEW n \in Word, NEW k \in 0 .. Len(n), IsPrefix(v, SubSeq(n, 1, k))
        PROVE  IsPrefix(v, n)
    <3>1. Len(SubSeq(n, 1, k)) = k /\ Len(n) \in Nat /\ b <= k
      BY <2>1, <2>3 DEF Word, IsPrefix
    <3>2. SubSeq(SubSeq(n, 1, k), 1, b) = SubSeq(n, 1, b)
      BY <2>1, <3>1 DEF Word
    <3> QED
      BY <2>1, <2>3, <3>1, <3>2 DEF IsPrefix
  <2>4. \A n \in DOMAIN t \ Doomed(t, w) : \A k \in 0 .. Len(n) :
           SubSeq(n, 1, k) \in DOMAIN t \ Doomed(t, w)
    BY <1>3, <2>3 DEF IsTrie, v
  <2> QED
    BY <1>1, <1>3, <2>2, <2>4 DEF IsTrie, v
<1> QED
  BY <1>2, <1>3, DoomedIsSubtree

(* Deleting changes no data and brings no node; inserting changes the data *)
(* of the inserted word only.                                              *)
LEMMA DeleteData ==
    ASSUME NEW t, NEW w
    PROVE  /\ DOMAIN Delete(t, w) \subseteq DOMAIN t
           /\ \A n \in DOMAIN Delete(t, w) : Delete(t, w)[n] = t[n]
BY DEF Delete, Restrict

(* insert_trie writes one datum; the nodes it creates on the way have none. *)
LEMMA InsertData ==
    ASSUME NEW t, NEW w, NEW data
    PROVE  \A n \in DOMAIN Insert(t, w, data) :
             Insert(t, w, data)[n] = IF n = w THEN data
                                     ELSE IF n \in DOMAIN t THEN t[n] ELSE Sentinel
BY DEF Insert

=============================================================================
