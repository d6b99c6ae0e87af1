--------------------------- MODULE SequenceFacts ---------------------------
(***************************************************************************)
(* Facts about the sequence operators the UPF's rule lists and pools are   *)
(* modelled with: which elements the result has, that it has none twice,   *)
(* and that it keeps their order.                                          *)
(***************************************************************************)
EXTENDS Naturals, Sequences, SequencesExt, SequenceTheorems,
        WellFoundedInduction, TLAPS

(* Every nonempty set of naturals has a smallest element; what Min chooses   *)
(* is one.                                                                  *)
LEMMA MinIn ==
  ASSUME NEW T, T \subseteq Nat, T # {}
  PROVE  Min(T) \in T /\ \A m \in T : Min(T) <= m
<1>1. IsWellFoundedOn(OpToRel(<, Nat), Nat)
  BY NatLessThanWellFounded
<1>2. PICK x \in T : \A y \in T : ~ (<<y, x>> \in OpToRel(<, Nat))
  BY <1>1, WFMin
<1>3. \A y \in T : ~(y < x)
  BY <1>2 DEF OpToRel
<1>4. \E n \in T : \A m \in T : n <= m
  BY <1>3
<1> QED BY <1>4 DEF Min

(* The same for the largest element of a set with an upper bound. *)
LEMMA MaxIn ==
  ASSUME NEW n \in Nat, NEW T, T \subseteq 1 .. n, T # {}
  PROVE  Max(T) \in T /\ \A m \in T : m <= Max(T)
<1> DEFINE U == {k \in 0 .. n : n - k \in T}
<1>1. U \subseteq Nat /\ U # {}
  <2>1. PICK t \in T : TRUE
    OBVIOUS
  <2>2. t \in 1 .. n /\ n - t \in 0 .. n /\ n - (n - t) = t
    BY <2>1
  <2>3. n - t \in U
    BY <2>1, <2>2
  <2>4. U \subseteq Nat
    OBVIOUS
  <2> HIDE DEF U
  <2> QED BY <2>3, <2>4
<1> HIDE DEF U
<1>2. Min(U) \in U /\ \A m \in U : Min(U) <= m
  BY <1>1, MinIn
<1>3. \A m \in T : n - m \in U
  BY DEF U
<1>4. n - Min(U) \in T /\ \A m \in T : m <= n - Min(U)
  BY <1>2, <1>3 DEF U
<1> QED BY <1>4 DEF Max

LEMMA ToSetType ==
  ASSUME NEW S, NEW s \in Seq(S)
  PROVE  /\ ToSet(s) \subseteq S
         /\ ToSet(s) = {} <=> s = <<>>
         /\ \A i \in 1 .. Len(s) : s[i] \in ToSet(s)
         /\ \A e \in ToSet(s) : \E i \in 1 .. Len(s) : s[i] = e
<1>1. DOMAIN s = 1 .. Len(s) /\ \A i \in 1 .. Len(s) : s[i] \in S
  OBVIOUS
<1>2. ToSet(s) = {s[i] : i \in 1 .. Len(s)}
  BY <1>1 DEF ToSet
<1>3. ToSet(s) = {} => s = <<>>
  <2>1. ToSet(s) = {} => 1 \notin 1 .. Len(s)
    BY <1>2
  <2> QED BY <2>1
<1>4. s = <<>> => ToSet(s) = {}
  BY <1>2
<1> QED BY <1>1, <1>2, <1>3, <1>4

LEMMA EmptyFacts ==
  ASSUME NEW S
  PROVE  <<>> \in Seq(S) /\ ToSet(<<>>) = {} /\ IsInjective(<<>>)
<1>1. <<>> \in Seq(S)
  OBVIOUS
<1>2. DOMAIN <<>> = {}
  OBVIOUS
<1>3. ToSet(<<>>) = {}
  BY <1>1, ToSetType
<1>4. IsInjective(<<>>)
  BY <1>2 DEF IsInjective
<1> QED BY <1>1, <1>3, <1>4

LEMMA AppendFacts ==
  ASSUME NEW S, NEW s \in Seq(S), NEW e \in S
  PROVE  /\ Append(s, e) \in Seq(S)
         /\ ToSet(Append(s, e)) = ToSet(s) \cup {e}
         /\ IsInjective(s) /\ e \notin ToSet(s) => IsInjective(Append(s, e))
         /\ Last(Append(s, e)) = e /\ Front(Append(s, e)) = s
<1>1. Len(Append(s, e)) = Len(s) + 1 /\ Append(s, e)[Len(s) + 1] = e
      /\ \A i \in 1 .. Len(s) : Append(s, e)[i] = s[i]
  OBVIOUS
<1>2. ToSet(Append(s, e)) \subseteq ToSet(s) \cup {e}
  BY <1>1 DEF ToSet
<1>3. ToSet(s) \subseteq ToSet(Append(s, e))
  BY <1>1 DEF ToSet
<1>4. e \in ToSet(Append(s, e))
  BY <1>1 DEF ToSet
<1>5. IsInjective(s) /\ e \notin ToSet(s) => IsInjective(Append(s, e))
  BY <1>1 DEF ToSet, IsInjective
<1>6. Last(Append(s, e)) = e /\ Front(Append(s, e)) = s
  BY <1>1 DEF Last, Front
<1> QED BY <1>2, <1>3, <1>4, <1>5, <1>6

LEMMA TailFacts ==
  ASSUME NEW S, NEW s \in Seq(S), s # <<>>, IsInjective(s)
  PROVE  /\ Tail(s) \in Seq(S) /\ Head(s) \in S /\ Head(s) \in ToSet(s)
         /\ ToSet(Tail(s)) = ToSet(s) \ {Head(s)}
         /\ IsInjective(Tail(s))
<1>1. Len(s) > 0 /\ Len(Tail(s)) = Len(s) - 1 /\ Head(s) = s[1]
      /\ \A i \in 1 .. Len(Tail(s)) : Tail(s)[i] = s[i + 1]
  OBVIOUS
<1>2. ToSet(Tail(s)) \subseteq ToSet(s) \ {Head(s)}
  BY <1>1 DEF ToSet, IsInjective
<1>3. ASSUME NEW e \in ToSet(s), e # Head(s) PROVE e \in ToSet(Tail(s))
  <2>1. PICK i \in 1 .. Len(s) : s[i] = e
    BY ToSetType
  <2>2. i - 1 \in 1 .. Len(Tail(s)) /\ Tail(s)[i - 1] = e
    BY <1>1, <1>3, <2>1
  <2> QED BY <2>2, ToSetType, Tail(s) \in Seq(S)
<1>4. IsInjective(Tail(s))
  BY <1>1 DEF IsInjective
<1> QED BY <1>1, <1>2, <1>3, <1>4, ToSetType

LEMMA FrontFacts ==
  ASSUME NEW S, NEW s \in Seq(S), s # <<>>, IsInjective(s)
  PROVE  /\ Front(s) \in Seq(S) /\ Last(s) \in S /\ Last(s) \in ToSet(s)
         /\ Len(Front(s)) = Len(s) - 1
         /\ \A i \in 1 .. Len(s) - 1 : Front(s)[i] = s[i]
         /\ ToSet(Front(s)) = ToSet(s) \ {Last(s)}
         /\ IsInjective(Front(s))
<1>0. Len(s) \in Nat /\ Len(s) > 0
  OBVIOUS
<1>1. Front(s) \in Seq(S) /\ Last(s) = s[Len(s)]
      /\ Len(Front(s)) = Len(s) - 1
      /\ \A i \in 1 .. Len(s) - 1 : Front(s)[i] = s[i]
  <2>1. /\ SubSeq(s, 1, Len(s) - 1) \in Seq(S)
        /\ Len(SubSeq(s, 1, Len(s) - 1)) = Len(s) - 1
        /\ \A i \in 1 .. Len(s) - 1 : SubSeq(s, 1, Len(s) - 1)[i] = s[i]
    <3>1. \A i \in 1 .. Len(s) - 1 : s[i] \in S /\ 1 + i - 1 = i
      BY <1>0
    <3>2. Len(s) - 1 \in Int /\ (Len(s) - 1) - 1 + 1 = Len(s) - 1
      BY <1>0
    <3> QED BY <1>0, <3>1, <3>2, SubSeqProperties
  <2> QED BY <2>1 DEF Last, Front
<1>2. ToSet(Front(s)) \subseteq ToSet(s) \ {Last(s)}
  BY <1>1 DEF ToSet, IsInjective
<1>3. ASSUME NEW e \in ToSet(s), e # Last(s) PROVE e \in ToSet(Front(s))
  <2>1. PICK i \in 1 .. Len(s) : s[i] = e
    BY ToSetType
  <2>2. i \in 1 .. Len(Front(s)) /\ Front(s)[i] = e
    BY <1>0, <1>1, <1>3, <2>1
  <2> QED BY <1>1, <2>2, ToSetType
<1>4. IsInjective(Front(s))
  BY <1>1 DEF IsInjective
<1> QED BY <1>0, <1>1, <1>2, <1>3, <1>4, ToSetType

LEMMA ConcatFacts ==
  ASSUME NEW S, NEW s \in Seq(S), NEW t \in Seq(S)
  PROVE  /\ s \o t \in Seq(S)
         /\ ToSet(s \o t) = ToSet(s) \cup ToSet(t)
         /\ (IsInjective(s) /\ IsInjective(t) /\ ToSet(s) \cap ToSet(t) = {})
              => IsInjective(s \o t)
<1> DEFINE c == s \o t
<1>1. /\ c \in Seq(S) /\ Len(c) = Len(s) + Len(t)
      /\ Len(s) \in Nat /\ Len(t) \in Nat /\ Len(c) \in Nat
  OBVIOUS
<1>2. /\ \A i \in 1 .. Len(s) : c[i] = s[i]
      /\ \A i \in Len(s) + 1 .. Len(c) : c[i] = t[i - Len(s)]
  OBVIOUS
<1>3. \A i \in 1 .. Len(t) : c[i + Len(s)] = t[i]
  BY <1>1, <1>2
<1> HIDE DEF c
<1>4. ToSet(c) \subseteq ToSet(s) \cup ToSet(t)
  <2>1. SUFFICES ASSUME NEW i \in 1 .. Len(c) PROVE c[i] \in ToSet(s) \cup ToSet(t)
    BY <1>1 DEF ToSet
  <2>2. CASE i <= Len(s)
    BY <1>2, <2>2, ToSetType
  <2>3. CASE i > Len(s)
    <3>1. i - Len(s) \in 1 .. Len(t) /\ c[i] = t[i - Len(s)]
      BY <1>1, <1>2, <2>3
    <3> QED BY <3>1, ToSetType
  <2> QED BY <2>2, <2>3
<1>5. ToSet(s) \subseteq ToSet(c)
  BY <1>1, <1>2 DEF ToSet
<1>6. ToSet(t) \subseteq ToSet(c)
  <2>1. SUFFICES ASSUME NEW i \in 1 .. Len(t) PROVE t[i] \in ToSet(c)
    BY DEF ToSet
  <2>2. i + Len(s) \in 1 .. Len(c) /\ c[i + Len(s)] = t[i]
    BY <1>1, <1>3
  <2> QED BY <1>1, <2>2, ToSetType
<1>7. ASSUME IsInjective(s), IsInjective(t), ToSet(s) \cap ToSet(t) = {}
      PROVE  IsInjective(c)
  <2>1. SUFFICES ASSUME NEW i \in 1 .. Len(c), NEW j \in 1 .. Len(c), c[i] = c[j]
                 PROVE  i = j
    BY <1>1 DEF IsInjective
  <2> /\ \A k, l \in 1 .. Len(s) : s[k] = s[l] => k = l
      /\ \A k, l \in 1 .. Len(t) : t[k] = t[l] => k = l
    BY <1>7 DEF IsInjective
  <2>2. \A k \in 1 .. Len(c) :
          \/ k \in 1 .. Len(s) /\ c[k] = s[k] /\ c[k] \in ToSet(s)
          \/ k - Len(s) \in 1 .. Len(t) /\ c[k] = t[k - Len(s)] /\ c[k] \in ToSet(t)
    BY <1>1, <1>2, ToSetType
  <2>3. CASE i \in 1 .. Len(s) /\ c[i] = s[i] /\ c[i] \in ToSet(s)
    BY <1>7, <2>1, <2>2, <2>3
  <2>4. CASE i - Len(s) \in 1 .. Len(t) /\ c[i] = t[i - Len(s)] /\ c[i] \in ToSet(t)
    <3>1. j - Len(s) \in 1 .. Len(t) /\ c[j] = t[j - Len(s)]
      BY <1>7, <2>1, <2>2, <2>4
    <3>2. i - Len(s) = j - Len(s)
      BY <2>1, <2>4, <3>1
    <3> QED BY <1>1, <3>2
  <2> QED BY <2>2, <2>3, <2>4
<1> QED BY <1>1, <1>4, <1>5, <1>6, <1>7 DEF c

(* The order of a sequence's elements, as a relation. *)
Ordered(s, R) == \A i, j \in 1 .. Len(s) : i < j => <<s[i], s[j]>> \in R

LEMMA InsertFacts ==
  ASSUME NEW S, NEW s \in Seq(S), NEW e \in S, NEW k \in 1 .. Len(s)
  PROVE  /\ InsertAt(s, k, e) \in Seq(S)
         /\ Len(InsertAt(s, k, e)) = Len(s) + 1
         /\ \A i \in 1 .. Len(s) + 1 :
              InsertAt(s, k, e)[i] = IF i < k THEN s[i] ELSE IF i = k THEN e ELSE s[i - 1]
         /\ ToSet(InsertAt(s, k, e)) = ToSet(s) \cup {e}
         /\ IsInjective(s) /\ e \notin ToSet(s) => IsInjective(InsertAt(s, k, e))
<1> DEFINE a == SubSeq(s, 1, k - 1)
           b == SubSeq(s, k, Len(s))
           t == InsertAt(s, k, e)
<1>0. Len(s) \in Nat /\ k \in Nat /\ 1 <= k /\ k <= Len(s)
      /\ \A i \in 1 .. Len(s) : s[i] \in S
  OBVIOUS
<1>1. a \in Seq(S) /\ Len(a) = k - 1 /\ \A i \in 1 .. k - 1 : a[i] = s[i]
  <2>1. \A i \in 1 .. k - 1 : s[i] \in S /\ 1 + i - 1 = i
    BY <1>0
  <2>2. k - 1 \in Int /\ 1 \in Int /\ (k - 1) - 1 + 1 = k - 1
    BY <1>0
  <2>3. /\ a \in Seq(S) /\ Len(a) = IF 1 <= k - 1 THEN (k - 1) - 1 + 1 ELSE 0
        /\ \A i \in 1 .. (k - 1) - 1 + 1 : a[i] = s[1 + i - 1]
    BY <2>1, <2>2, SubSeqProperties
  <2> QED BY <1>0, <2>1, <2>2, <2>3
<1>2. b \in Seq(S) /\ Len(b) = Len(s) - k + 1 /\ \A i \in 1 .. Len(s) - k + 1 : b[i] = s[k + i - 1]
  <2>1. \A i \in k .. Len(s) : s[i] \in S
    BY <1>0
  <2> QED BY <1>0, <2>1, SubSeqProperties
<1>3. t = (a \o <<e>>) \o b
  BY DEF InsertAt
<1> HIDE DEF a, b
<1>4. /\ a \o <<e>> \in Seq(S) /\ Len(a \o <<e>>) = k
      /\ \A i \in 1 .. k : (a \o <<e>>)[i] = IF i < k THEN a[i] ELSE e
  BY <1>0, <1>1
<1>5. t \in Seq(S) /\ Len(t) = Len(s) + 1
  BY <1>0, <1>2, <1>3, <1>4
<1>6. \A i \in 1 .. Len(s) + 1 :
        t[i] = IF i <= k THEN (a \o <<e>>)[i] ELSE b[i - k]
  BY <1>0, <1>2, <1>3, <1>4, ConcatProperties
<1>7. \A i \in 1 .. Len(s) + 1 :
        t[i] = IF i < k THEN s[i] ELSE IF i = k THEN e ELSE s[i - 1]
  <2>1. SUFFICES ASSUME NEW i \in 1 .. Len(s) + 1
                 PROVE  t[i] = IF i < k THEN s[i] ELSE IF i = k THEN e ELSE s[i - 1]
    OBVIOUS
  <2>2. CASE i <= k
    BY <1>0, <1>1, <1>4, <1>6, <2>2
  <2>3. CASE i > k
    <3>1. i - k \in 1 .. Len(s) - k + 1 /\ k + (i - k) - 1 = i - 1 /\ ~(i <= k)
      BY <1>0, <2>3
    <3> QED BY <1>0, <1>2, <1>6, <2>3, <3>1
  <2> QED BY <1>0, <2>2, <2>3
<1> HIDE DEF t
<1>8. ToSet(t) \subseteq ToSet(s) \cup {e}
  <2>1. SUFFICES ASSUME NEW i \in 1 .. Len(s) + 1 PROVE t[i] \in ToSet(s) \cup {e}
    BY <1>5, ToSetType
  <2>2. CASE i < k
    BY <1>0, <1>7, <2>2, ToSetType
  <2>3. CASE i = k
    BY <1>0, <1>7, <2>3
  <2>4. CASE i > k
    <3>1. i - 1 \in 1 .. Len(s) /\ t[i] = s[i - 1]
      BY <1>0, <1>7, <2>4
    <3> QED BY <3>1, ToSetType
  <2> QED BY <1>0, <2>2, <2>3, <2>4
<1>9. ToSet(s) \cup {e} \subseteq ToSet(t)
  <2>1. e \in ToSet(t)
    <3>1. k \in 1 .. Len(t) /\ t[k] = e
      BY <1>0, <1>5, <1>7
    <3> QED BY <1>5, <3>1, ToSetType
  <2>2. ASSUME NEW x \in ToSet(s) PROVE x \in ToSet(t)
    <3>1. PICK i \in 1 .. Len(s) : s[i] = x
      BY ToSetType
    <3>2. CASE i < k
      <4>1. i \in 1 .. Len(t) /\ t[i] = x
        BY <1>0, <1>5, <1>7, <3>1, <3>2
      <4> QED BY <1>5, <4>1, ToSetType
    <3>3. CASE i >= k
      <4>1. i + 1 \in 1 .. Len(t) /\ t[i + 1] = x
        BY <1>0, <1>5, <1>7, <3>1, <3>3
      <4> QED BY <1>5, <4>1, ToSetType
    <3> QED BY <1>0, <3>2, <3>3
  <2> QED BY <2>1, <2>2
<1>10. ASSUME IsInjective(s), e \notin ToSet(s) PROVE IsInjective(t)
  <2>1. \A i, j \in 1 .. Len(s) : s[i] = s[j] => i = j
    BY <1>10 DEF IsInjective
  <2>2. \A i \in 1 .. Len(s) : s[i] # e
    BY <1>10, ToSetType
  <2>3. ASSUME NEW i \in 1 .. Len(s) + 1, NEW j \in 1 .. Len(s) + 1, i < j
        PROVE  t[i] # t[j]
    <3>1. CASE i = k
      <4>1. j - 1 \in 1 .. Len(s) /\ t[j] = s[j - 1] /\ t[i] = e
        BY <1>0, <1>7, <2>3, <3>1
      <4> QED BY <2>2, <4>1
    <3>2. CASE j = k
      <4>1. i \in 1 .. Len(s) /\ t[i] = s[i] /\ t[j] = e
        BY <1>0, <1>7, <2>3, <3>2
      <4> QED BY <2>2, <4>1
    <3>3. CASE i < k /\ j < k
      <4>1. i \in 1 .. Len(s) /\ t[i] = s[i] /\ j \in 1 .. Len(s) /\ t[j] = s[j]
        BY <1>0, <1>7, <2>3, <3>3
      <4> QED BY <2>1, <2>3, <4>1
    <3>4. CASE i < k /\ j > k
      <4>1. /\ i \in 1 .. Len(s) /\ t[i] = s[i] /\ i # j - 1
            /\ j - 1 \in 1 .. Len(s) /\ t[j] = s[j - 1]
        BY <1>0, <1>7, <2>3, <3>4
      <4> QED BY <2>1, <4>1
    <3>5. CASE i > k
      <4>1. /\ i - 1 \in 1 .. Len(s) /\ t[i] = s[i - 1] /\ i - 1 # j - 1
            /\ j - 1 \in 1 .. Len(s) /\ t[j] = s[j - 1]
        BY <1>0, <1>7, <2>3, <3>5
      <4> QED BY <2>1, <4>1
    <3> QED BY <1>0, <2>3, <3>1, <3>2, <3>3, <3>4, <3>5
  <2>4. \A i, j \in 1 .. Len(s) + 1 : t[i] = t[j] => i = j
    <3>1. \A i, j \in 1 .. Len(s) + 1 : i < j \/ i = j \/ j < i
      BY <1>0
    <3> QED BY <2>3, <3>1
  <2> QED BY <1>5, <2>4 DEF IsInjective
<1> QED BY <1>5, <1>7, <1>8, <1>9, <1>10 DEF t

LEMMA RemoveAtFacts ==
  ASSUME NEW S, NEW s \in Seq(S), NEW k \in 1 .. Len(s), IsInjective(s)
  PROVE  /\ RemoveAt(s, k) \in Seq(S)
         /\ ToSet(RemoveAt(s, k)) = ToSet(s) \ {s[k]}
         /\ IsInjective(RemoveAt(s, k))
         /\ \A R : Ordered(s, R) => Ordered(RemoveAt(s, k), R)
<1> DEFINE a == SubSeq(s, 1, k - 1)
           b == SubSeq(s, k + 1, Len(s))
           t == RemoveAt(s, k)
<1>0. Len(s) \in Nat /\ k \in Nat /\ 1 <= k /\ k <= Len(s)
      /\ \A i \in 1 .. Len(s) : s[i] \in S
  OBVIOUS
<1>1. a \in Seq(S) /\ Len(a) = k - 1 /\ \A i \in 1 .. k - 1 : a[i] = s[i]
  <2>1. \A i \in 1 .. k - 1 : s[i] \in S /\ 1 + i - 1 = i
    BY <1>0
  <2>2. k - 1 \in Int /\ 1 \in Int /\ (k - 1) - 1 + 1 = k - 1
    BY <1>0
  <2>3. /\ a \in Seq(S) /\ Len(a) = IF 1 <= k - 1 THEN (k - 1) - 1 + 1 ELSE 0
        /\ \A i \in 1 .. (k - 1) - 1 + 1 : a[i] = s[1 + i - 1]
    BY <2>1, <2>2, SubSeqProperties
  <2> QED BY <1>0, <2>1, <2>2, <2>3
<1>2. b \in Seq(S) /\ Len(b) = Len(s) - k /\ \A i \in 1 .. Len(s) - k : b[i] = s[k + i]
  <2>1. \A i \in k + 1 .. Len(s) : s[i] \in S
    BY <1>0
  <2>2. k + 1 \in Int /\ Len(s) \in Int /\ Len(s) - (k + 1) + 1 = Len(s) - k
        /\ \A i \in 1 .. Len(s) - k : (k + 1) + i - 1 = k + i
    BY <1>0
  <2>3. /\ b \in Seq(S) /\ Len(b) = IF k + 1 <= Len(s) THEN Len(s) - (k + 1) + 1 ELSE 0
        /\ \A i \in 1 .. Len(s) - (k + 1) + 1 : b[i] = s[(k + 1) + i - 1]
    BY <2>1, <2>2, SubSeqProperties
  <2>4. Len(b) = Len(s) - k
    <3>1. Len(b) = IF k + 1 <= Len(s) THEN Len(s) - k ELSE 0
      BY <2>2, <2>3
    <3> HIDE DEF b
    <3> QED BY <1>0, <3>1
  <2>5. \A i \in 1 .. Len(s) - k : b[i] = s[k + i]
    <3> HIDE DEF b
    <3> QED BY <2>2, <2>3
  <2> QED BY <2>3, <2>4, <2>5
<1>3. t = a \o b
  BY DEF RemoveAt
<1> HIDE DEF a, b
<1>4. t \in Seq(S) /\ Len(t) = Len(s) - 1
      /\ \A i \in 1 .. Len(s) - 1 : t[i] = IF i <= k - 1 THEN a[i] ELSE b[i - (k - 1)]
  BY <1>0, <1>1, <1>2, <1>3, ConcatProperties
<1>5. \A i \in 1 .. Len(s) - 1 : t[i] = IF i < k THEN s[i] ELSE s[i + 1]
  <2>1. SUFFICES ASSUME NEW i \in 1 .. Len(s) - 1
                 PROVE  t[i] = IF i < k THEN s[i] ELSE s[i + 1]
    OBVIOUS
  <2>2. CASE i < k
    BY <1>0, <1>1, <1>4, <2>2
  <2>3. CASE i >= k
    <3>1. i - (k - 1) \in 1 .. Len(s) - k /\ k + (i - (k - 1)) = i + 1 /\ ~(i <= k - 1)
      BY <1>0, <2>3
    <3> QED BY <1>0, <1>2, <1>4, <2>3, <3>1
  <2> QED BY <1>0, <2>2, <2>3
<1> HIDE DEF t
<1>6. \A i, j \in 1 .. Len(s) : s[i] = s[j] => i = j
  BY DEF IsInjective
<1>7. ToSet(t) \subseteq ToSet(s) \ {s[k]}
  <2>1. SUFFICES ASSUME NEW i \in 1 .. Len(s) - 1 PROVE t[i] \in ToSet(s) \ {s[k]}
    BY <1>4, ToSetType
  <2>2. PICK j \in 1 .. Len(s) : j # k /\ t[i] = s[j]
    BY <1>0, <1>5
  <2> QED BY <1>6, <2>2, ToSetType
<1>8. ASSUME NEW x \in ToSet(s), x # s[k] PROVE x \in ToSet(t)
  <2>1. PICK i \in 1 .. Len(s) : s[i] = x
    BY ToSetType
  <2>2. CASE i < k
    <3>1. i \in 1 .. Len(t) /\ t[i] = x
      BY <1>0, <1>4, <1>5, <2>1, <2>2
    <3> QED BY <1>4, <3>1, ToSetType
  <2>3. CASE i > k
    <3>1. i - 1 \in 1 .. Len(t) /\ t[i - 1] = x
      BY <1>0, <1>4, <1>5, <2>1, <2>3
    <3> QED BY <1>4, <3>1, ToSetType
  <2> QED BY <1>0, <1>8, <2>1, <2>2, <2>3
<1>9. IsInjective(t)
  <2>1. \A i, j \in 1 .. Len(s) - 1 : t[i] = t[j] => i = j
    BY <1>0, <1>5, <1>6
  <2> QED BY <1>4, <2>1 DEF IsInjective
<1>10. ASSUME NEW R, Ordered(s, R) PROVE Ordered(t, R)
  BY <1>0, <1>4, <1>5, <1>10 DEF Ordered
<1> QED BY <1>4, <1>7, <1>8, <1>9, <1>10 DEF t

LEMMA RemoveFirstFacts ==
  ASSUME NEW S, NEW s \in Seq(S), IsInjective(s), NEW e \in ToSet(s)
  PROVE  /\ RemoveFirst(s, e) \in Seq(S)
         /\ ToSet(RemoveFirst(s, e)) = ToSet(s) \ {e}
         /\ IsInjective(RemoveFirst(s, e))
         /\ \A R : Ordered(s, R) => Ordered(RemoveFirst(s, e), R)
<1> DEFINE I == {i \in 1 .. Len(s) : s[i] = e}
<1>1. I # {} /\ I \subseteq Nat /\ \E i \in 1 .. Len(s) : s[i] = e
  BY ToSetType
<1>2. SelectInSeq(s, LAMBDA v : v = e) = Min(I)
  BY <1>1 DEF SelectInSeq
<1>3. Min(I) \in 1 .. Len(s) /\ s[Min(I)] = e
  BY <1>1, MinIn
<1>4. RemoveFirst(s, e) = RemoveAt(s, Min(I))
  BY <1>1, <1>2 DEF RemoveFirst
<1> HIDE DEF I
<1> QED BY <1>3, <1>4, RemoveAtFacts
=============================================================================
