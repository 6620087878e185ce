---------------------------- MODULE SequenceFacts ----------------------------
(***************************************************************************)
(* What the queues of the system do to their contents: how Append, Head    *)
(* and Tail, concatenation and a kept suffix change the set of elements of *)
(* a sequence, that a sequence without duplicates stays one, what of the   *)
(* order of a list of steps is left when the first has been done, and that *)
(* numbered items stay in their order.  At the end: induction over the     *)
(* natural numbers for a set given as such, and what a fold over a finite  *)
(* set computes, on which the proofs about loops rest.                     *)
(***************************************************************************)
EXTENDS Numbered, SequencesExt, SequenceTheorems, FiniteSetTheorems, WellFoundedInduction,
        TLAPS

LEMMA ToSetIsRange == \A s : ToSet(s) = Range(s)
BY DEF ToSet, Range

LEMMA EmptyFacts ==
    ASSUME NEW S
    PROVE  /\ <<>> \in Seq(S)
           /\ Len(<<>>) = 0
           /\ Range(<<>>) = {}
           /\ IsInjective(<<>>)
           /\ \A s \in Seq(S) : Range(s) = {} => s = <<>>
           /\ \A s \in Seq(S) : Len(s) = 0 => s = <<>>
<1>1. <<>> \in Seq(S) /\ Len(<<>>) = 0 /\ DOMAIN <<>> = {}
  BY EmptySeq
<1>2. Range(<<>>) = {} /\ IsInjective(<<>>)
  BY <1>1 DEF Range, IsInjective
<1>3. ASSUME NEW s \in Seq(S), s # <<>> PROVE Range(s) # {} /\ Len(s) # 0
  <2>1. 1 \in 1..Len(s) /\ DOMAIN s = 1..Len(s)
    BY <1>3, EmptySeq, LenProperties
  <2> QED
    BY <2>1 DEF Range
<1> QED
  BY <1>1, <1>2, <1>3

(* An element at the end of a queue. *)
LEMMA AppendFacts ==
    ASSUME NEW S, NEW s \in Seq(S), NEW e \in S
    PROVE  /\ Append(s, e) \in Seq(S)
           /\ Len(Append(s, e)) = Len(s) + 1
           /\ Range(Append(s, e)) = Range(s) \cup {e}
           /\ IsInjective(s) /\ e \notin Range(s) => IsInjective(Append(s, e))
<1> DEFINE t == Append(s, e)
<1>1. /\ t \in Seq(S) /\ Len(t) = Len(s) + 1 /\ Len(s) \in Nat
      /\ DOMAIN s = 1..Len(s) /\ DOMAIN t = 1..Len(s) + 1
      /\ \A i \in 1..Len(s) : t[i] = s[i]
      /\ t[Len(s) + 1] = e
  BY AppendProperties, LenProperties
<1> HIDE DEF t
<1>2. Range(t) = Range(s) \cup {e}
  <2>1. ASSUME NEW x \in Range(t) PROVE x \in Range(s) \cup {e}
    <3>1. PICK i \in 1..Len(s) + 1 : x = t[i]
      BY <1>1, <2>1 DEF Range
    <3> QED
      BY <1>1, <3>1 DEF Range
  <2>2. ASSUME NEW x \in Range(s) PROVE x \in Range(t)
    <3>1. PICK i \in 1..Len(s) : x = s[i]
      BY <1>1, <2>2 DEF Range
    <3>2. i \in DOMAIN t /\ t[i] = x
      BY <1>1, <3>1
    <3> QED
      BY <3>2 DEF Range
  <2>3. e \in Range(t)
    <3>1. Len(s) + 1 \in DOMAIN t
      BY <1>1
    <3> QED
      BY <1>1, <3>1 DEF Range
  <2> QED
    BY <2>1, <2>2, <2>3
<1>3. ASSUME IsInjective(s), e \notin Range(s),
             NEW i \in DOMAIN t, NEW j \in DOMAIN t, t[i] = t[j]
      PROVE  i = j
  <2>1. \A k \in 1..Len(s) : s[k] # e
    BY <1>1, <1>3 DEF Range
  <2>2. \A k, l \in 1..Len(s) : s[k] = s[l] => k = l
    BY <1>1, <1>3 DEF IsInjective
  <2>3. CASE i = Len(s) + 1
    BY <1>1, <1>3, <2>1, <2>3
  <2>4. CASE j = Len(s) + 1
    BY <1>1, <1>3, <2>1, <2>4
  <2>5. CASE i \in 1..Len(s) /\ j \in 1..Len(s)
    BY <1>1, <1>3, <2>2, <2>5
  <2> QED
    BY <1>1, <2>3, <2>4, <2>5
<1>4. IsInjective(s) /\ e \notin Range(s) => IsInjective(t)
  BY <1>3 DEF IsInjective
<1> QED
  BY <1>1, <1>2, <1>4 DEF t

(* The element at the head of a queue is taken out. *)
LEMMA HeadTailFacts ==
    ASSUME NEW S, NEW s \in Seq(S), s # <<>>
    PROVE  /\ Head(s) \in S /\ Head(s) \in Range(s)
           /\ Tail(s) \in Seq(S)
           /\ Len(s) \in Nat \ {0} /\ Len(Tail(s)) = Len(s) - 1
           /\ Range(s) = {Head(s)} \cup Range(Tail(s))
           /\ IsInjective(s) => IsInjective(Tail(s)) /\ Head(s) \notin Range(Tail(s))
<1> DEFINE t == Tail(s)
<1>1. /\ t \in Seq(S) /\ Len(s) \in Nat \ {0} /\ Len(t) = Len(s) - 1
      /\ DOMAIN s = 1..Len(s) /\ DOMAIN t = 1..Len(s) - 1
      /\ \A i \in 1..Len(s) - 1 : t[i] = s[i + 1]
      /\ Head(s) = s[1] /\ Head(s) \in S
  BY HeadTailProperties, LenProperties, EmptySeq
<1> HIDE DEF t
<1>2. Head(s) \in Range(s)
  BY <1>1 DEF Range
<1>3. Range(s) = {Head(s)} \cup Range(t)
  <2>1. ASSUME NEW x \in Range(s) PROVE x \in {Head(s)} \cup Range(t)
    <3>1. PICK i \in 1..Len(s) : x = s[i]
      BY <1>1, <2>1 DEF Range
    <3>2. CASE i = 1
      BY <1>1, <3>1, <3>2
    <3>3. CASE i # 1
      <4>1. i - 1 \in DOMAIN t /\ t[i - 1] = x
        BY <1>1, <3>1, <3>3
      <4> QED
        BY <4>1 DEF Range
    <3> QED
      BY <3>2, <3>3
  <2>2. ASSUME NEW x \in Range(t) PROVE x \in Range(s)
    <3>1. PICK i \in 1..Len(s) - 1 : x = t[i]
      BY <1>1, <2>2 DEF Range
    <3>2. i + 1 \in DOMAIN s /\ s[i + 1] = x
      BY <1>1, <3>1
    <3> QED
      BY <3>2 DEF Range
  <2> QED
    BY <1>2, <2>1, <2>2
<1>4. ASSUME IsInjective(s) PROVE IsInjective(t) /\ Head(s) \notin Range(t)
  <2>1. \A k, l \in 1..Len(s) : s[k] = s[l] => k = l
    BY <1>1, <1>4 DEF IsInjective
  <2>2. ASSUME NEW i \in DOMAIN t, NEW j \in DOMAIN t, t[i] = t[j] PROVE i = j
    BY <1>1, <2>1, <2>2
  <2>3. ASSUME NEW i \in DOMAIN t PROVE t[i] # Head(s)
    BY <1>1, <2>1, <2>3
  <2> QED
    BY <2>2, <2>3 DEF IsInjective, Range
<1> QED
  BY <1>1, <1>2, <1>3, <1>4 DEF t

(* Two sequences without duplicates and without a common element. *)
LEMMA ConcatFacts ==
    ASSUME NEW S, NEW s \in Seq(S), NEW t \in Seq(S)
    PROVE  /\ s \o t \in Seq(S)
           /\ Len(s \o t) = Len(s) + Len(t)
           /\ Range(s \o t) = Range(s) \cup Range(t)
           /\ IsInjective(s) /\ IsInjective(t) /\ Range(s) \cap Range(t) = {}
                  => IsInjective(s \o t)
<1> DEFINE u == s \o t
<1>1. /\ u \in Seq(S) /\ Len(u) = Len(s) + Len(t) /\ Len(s) \in Nat /\ Len(t) \in Nat
      /\ DOMAIN s = 1..Len(s) /\ DOMAIN t = 1..Len(t) /\ DOMAIN u = 1..Len(s) + Len(t)
      /\ \A i \in 1..Len(s) + Len(t) : u[i] = IF i <= Len(s) THEN s[i] ELSE t[i - Len(s)]
  BY ConcatProperties, LenProperties
<1>2. Range(u) = Range(s) \cup Range(t)
  BY RangeConcatenation
<1> HIDE DEF u
<1>3. ASSUME IsInjective(s), IsInjective(t), Range(s) \cap Range(t) = {},
             NEW i \in DOMAIN u, NEW j \in DOMAIN u, u[i] = u[j]
      PROVE  i = j
  <2>1. /\ \A k, l \in 1..Len(s) : s[k] = s[l] => k = l
        /\ \A k, l \in 1..Len(t) : t[k] = t[l] => k = l
    BY <1>1, <1>3 DEF IsInjective
  <2>2. \A k \in 1..Len(s), l \in 1..Len(t) : s[k] # t[l]
    BY <1>1, <1>3 DEF Range
  <2>3. CASE i <= Len(s) /\ j <= Len(s)
    BY <1>1, <1>3, <2>1, <2>3
  <2>4. CASE i > Len(s) /\ j > Len(s)
    <3>1. i - Len(s) \in 1..Len(t) /\ j - Len(s) \in 1..Len(t)
      BY <1>1, <2>4
    <3>2. t[i - Len(s)] = t[j - Len(s)]
      BY <1>1, <1>3, <2>4, SMTT(40)
    <3>3. i - Len(s) = j - Len(s)
      BY <2>1, <3>1, <3>2
    <3> QED
      BY <1>1, <3>3
  <2>5. CASE i <= Len(s) /\ j > Len(s)
    <3>1. i \in 1..Len(s) /\ j - Len(s) \in 1..Len(t)
      BY <1>1, <2>5
    <3>2. s[i] = t[j - Len(s)]
      BY <1>1, <1>3, <2>5
    <3> QED
      BY <2>2, <3>1, <3>2
  <2>6. CASE i > Len(s) /\ j <= Len(s)
    <3>1. j \in 1..Len(s) /\ i - Len(s) \in 1..Len(t)
      BY <1>1, <2>6
    <3>2. s[j] = t[i - Len(s)]
      BY <1>1, <1>3, <2>6
    <3> QED
      BY <2>2, <3>1, <3>2
  <2> QED
    BY <1>1, <2>3, <2>4, <2>5, <2>6
<1>4. IsInjective(s) /\ IsInjective(t) /\ Range(s) \cap Range(t) = {} => IsInjective(u)
  BY <1>3 DEF IsInjective
<1> QED
  BY <1>1, <1>2, <1>4 DEF u

(* The last part of a sequence is kept. *)
LEMMA SuffixFacts ==
    ASSUME NEW S, NEW s \in Seq(S), NEW m \in 1..Len(s) + 1
    PROVE  /\ SubSeq(s, m, Len(s)) \in Seq(S)
           /\ Range(SubSeq(s, m, Len(s))) \subseteq Range(s)
           /\ IsInjective(s) => IsInjective(SubSeq(s, m, Len(s)))
<1> DEFINE t == SubSeq(s, m, Len(s))
<1>1. Len(s) \in Nat /\ DOMAIN s = 1..Len(s) /\ \A i \in 1..Len(s) : s[i] \in S
  BY LenProperties, ElementOfSeq
<1>2. \A i \in m..Len(s) : s[i] \in S
  BY <1>1
<1>3. m \in Int /\ Len(s) \in Int
  BY <1>1
<1>4. /\ t \in Seq(S) /\ Len(t) = IF m <= Len(s) THEN Len(s) - m + 1 ELSE 0
      /\ \A i \in 1..Len(s) - m + 1 : t[i] = s[m + i - 1]
  BY <1>2, <1>3, SubSeqProperties
<1>5. DOMAIN t = 1..Len(t)
  BY <1>4, LenProperties
<1> HIDE DEF t
<1>6. \A i \in DOMAIN t : m + i - 1 \in DOMAIN s /\ t[i] = s[m + i - 1] /\ i \in Int
  BY <1>1, <1>4, <1>5, SMTT(40)
<1>7. Range(t) \subseteq Range(s)
  BY <1>6 DEF Range
<1>8. ASSUME IsInjective(s), NEW i \in DOMAIN t, NEW j \in DOMAIN t, t[i] = t[j]
      PROVE  i = j
  <2>1. m + i - 1 = m + j - 1
    BY <1>6, <1>8 DEF IsInjective
  <2> QED
    BY <1>3, <1>6, <2>1
<1> QED
  BY <1>4, <1>7, <1>8 DEF t, IsInjective

(* One element is taken out. *)
LEMMA RemoveAtFacts ==
    ASSUME NEW S, NEW s \in Seq(S), NEW k \in 1..Len(s)
    PROVE  /\ RemoveAt(s, k) \in Seq(S)
           /\ Len(RemoveAt(s, k)) = Len(s) - 1
           /\ \A j \in 1..(Len(s) - 1) :
                  RemoveAt(s, k)[j] = IF j < k THEN s[j] ELSE s[j + 1]
<1>1. PICK n \in Nat : n = Len(s) /\ \A i \in 1..n : s[i] \in S
  BY LenProperties, ElementOfSeq
<1>2. k \in Int /\ 1 <= k /\ k <= n
  BY <1>1
<1>3. PICK a : a = SubSeq(s, 1, k - 1)
  OBVIOUS
<1>4. PICK b : b = SubSeq(s, k + 1, n)
  OBVIOUS
<1>5. a \in Seq(S) /\ Len(a) = k - 1 /\ \A j \in 1..(k - 1) : a[j] = s[j]
  <2>1. 1 \in 1..n + 1 /\ k - 1 \in 0..n /\ \A i \in 1..(k - 1) : s[i] \in S
    BY <1>1, <1>2
  <2>2. a = [i \in 1..(k - 1) |-> s[i]]
    BY <1>1, <1>2, <1>3
  <2> QED
    BY <1>1, <1>2, <1>3, <2>1, <2>2
<1>6. b \in Seq(S) /\ Len(b) = n - k /\ \A j \in 1..(n - k) : b[j] = s[j + k]
  <2>1. b = [i \in 1..(n - k) |-> s[i + k]]
    BY <1>1, <1>2, <1>4
  <2> QED
    BY <1>1, <1>2, <1>4, <2>1
<1>7. RemoveAt(s, k) = a \o b
  BY <1>1, <1>3, <1>4 DEF RemoveAt
<1>8. /\ a \o b \in Seq(S) /\ Len(a \o b) = (k - 1) + (n - k)
      /\ \A j \in 1..((k - 1) + (n - k)) :
             (a \o b)[j] = IF j <= k - 1 THEN a[j] ELSE b[j - (k - 1)]
  <2>1. /\ a \o b \in Seq(S) /\ Len(a \o b) = Len(a) + Len(b)
        /\ \A j \in 1..(Len(a) + Len(b)) :
               (a \o b)[j] = IF j <= Len(a) THEN a[j] ELSE b[j - Len(a)]
    BY <1>5, <1>6, ConcatProperties
  <2> QED
    BY <1>5, <1>6, <2>1
<1>9. (k - 1) + (n - k) = n - 1
  BY <1>1, <1>2
<1>10. ASSUME NEW j \in 1..(n - 1) PROVE (a \o b)[j] = IF j < k THEN s[j] ELSE s[j + 1]
  <2>1. j \in Int /\ (j < k <=> j <= k - 1) /\ j \in 1..((k - 1) + (n - k))
    BY <1>1, <1>2, <1>9
  <2>2. CASE j < k
    <3>1. j \in 1..(k - 1) /\ j <= k - 1
      BY <1>2, <2>1, <2>2
    <3> QED
      BY <1>5, <1>8, <2>1, <2>2, <3>1
  <2>3. CASE ~(j < k)
    <3>1. j - (k - 1) \in 1..(n - k) /\ (j - (k - 1)) + k = j + 1 /\ ~(j <= k - 1)
      BY <1>1, <1>2, <2>1, <2>3
    <3> QED
      BY <1>6, <1>8, <2>1, <2>3, <3>1
  <2> QED
    BY <2>2, <2>3
<1> QED
  BY <1>1, <1>7, <1>8, <1>9, <1>10

(* In the list s every x has a y somewhere after it. *)
Follows(s, x, y) == \A i \in 1..Len(s) : s[i] = x => \E j \in i + 1..Len(s) : s[j] = y

(* So it is in what is left when the first element is done, ... *)
LEMMA FollowsTail ==
    ASSUME NEW S, NEW s \in Seq(S), s # <<>>, NEW x, NEW y, Follows(s, x, y)
    PROVE  Follows(Tail(s), x, y) /\ (Head(s) = x => y \in Range(Tail(s)))
<1> DEFINE t == Tail(s)
<1>1. /\ Len(s) \in Nat \ {0} /\ DOMAIN t = 1..Len(s) - 1 /\ Len(t) = Len(s) - 1
      /\ \A i \in 1..Len(s) - 1 : t[i] = s[i + 1]
      /\ Head(s) = s[1]
  BY HeadTailProperties, LenProperties, EmptySeq
<1> HIDE DEF t
<1>2. ASSUME NEW i \in 1..Len(t), t[i] = x PROVE \E j \in i + 1..Len(t) : t[j] = y
  <2>1. i + 1 \in 1..Len(s) /\ s[i + 1] = x
    BY <1>1, <1>2
  <2>2. PICK j \in i + 2..Len(s) : s[j] = y
    BY <2>1 DEF Follows
  <2>3. j - 1 \in i + 1..Len(t) /\ t[j - 1] = y
    BY <1>1, <2>2
  <2> QED
    BY <2>3
<1>3. ASSUME Head(s) = x PROVE y \in Range(t)
  <2>1. 1 \in 1..Len(s) /\ s[1] = x
    BY <1>1, <1>3
  <2>2. PICK j \in 2..Len(s) : s[j] = y
    BY <2>1 DEF Follows
  <2>3. j - 1 \in DOMAIN t /\ t[j - 1] = y
    BY <1>1, <2>2
  <2> QED
    BY <2>3 DEF Range
<1> QED
  BY <1>2, <1>3 DEF Follows, t

(* ... and in a list put together from two. *)
LEMMA FollowsConcat ==
    ASSUME NEW S, NEW s \in Seq(S), NEW t \in Seq(S), NEW x, NEW y,
           Follows(t, x, y), Follows(s, x, y) \/ y \in Range(t)
    PROVE  Follows(s \o t, x, y)
<1> DEFINE u == s \o t
<1>1. /\ Len(u) = Len(s) + Len(t) /\ Len(s) \in Nat /\ Len(t) \in Nat /\ DOMAIN t = 1..Len(t)
      /\ \A i \in 1..Len(s) + Len(t) : u[i] = IF i <= Len(s) THEN s[i] ELSE t[i - Len(s)]
  BY ConcatProperties, LenProperties
<1> HIDE DEF u
<1>2. ASSUME NEW i \in 1..Len(u), u[i] = x PROVE \E j \in i + 1..Len(u) : u[j] = y
  <2>1. CASE i > Len(s)
    <3>1. i - Len(s) \in 1..Len(t) /\ t[i - Len(s)] = x
      BY <1>1, <1>2, <2>1
    <3>2. PICK j \in i - Len(s) + 1..Len(t) : t[j] = y
      BY <3>1 DEF Follows
    <3>3. j + Len(s) \in i + 1..Len(u) /\ u[j + Len(s)] = y
      BY <1>1, <2>1, <3>2
    <3> QED
      BY <3>3
  <2>2. CASE i <= Len(s) /\ y \in Range(t)
    <3>1. PICK j \in 1..Len(t) : t[j] = y
      BY <1>1, <2>2 DEF Range
    <3>2. j + Len(s) \in i + 1..Len(u) /\ u[j + Len(s)] = y
      BY <1>1, <2>2, <3>1
    <3> QED
      BY <3>2
  <2>3. CASE i <= Len(s) /\ Follows(s, x, y)
    <3>1. i \in 1..Len(s) /\ s[i] = x
      BY <1>1, <1>2, <2>3
    <3>2. PICK j \in i + 1..Len(s) : s[j] = y
      BY <2>3, <3>1 DEF Follows
    <3>3. j \in i + 1..Len(u) /\ u[j] = y
      BY <1>1, <3>1, <3>2
    <3> QED
      BY <3>3
  <2> QED
    BY <1>1, <2>1, <2>2, <2>3
<1> QED
  BY <1>2 DEF Follows, u

LEMMA FollowsReaches ==
    ASSUME NEW S, NEW s \in Seq(S), NEW x, NEW y, Follows(s, x, y), x \in Range(s)
    PROVE  y \in Range(s)
<1>1. DOMAIN s = 1..Len(s) /\ Len(s) \in Nat
  BY LenProperties
<1>2. PICK i \in 1..Len(s) : s[i] = x
  BY <1>1 DEF Range
<1>3. PICK j \in i + 1..Len(s) : s[j] = y
  BY <1>2 DEF Follows
<1> QED
  BY <1>1, <1>2, <1>3 DEF Range

(* An element that is put back in front of the rest restores the sequence. *)
LEMMA HeadThenTail ==
    ASSUME NEW S, NEW s \in Seq(S), s # <<>>
    PROVE  <<Head(s)>> \o Tail(s) = s
<1>1. PICK h, t : h = <<Head(s)>> /\ t = Tail(s)
  OBVIOUS
<1>2. /\ t \in Seq(S) /\ Len(s) \in Nat \ {0} /\ Len(t) = Len(s) - 1
      /\ \A i \in 1..Len(s) - 1 : t[i] = s[i + 1]
      /\ Head(s) = s[1] /\ Head(s) \in S
  BY <1>1, HeadTailProperties, LenProperties, EmptySeq
<1>3. h \in Seq(S) /\ Len(h) = 1 /\ h[1] = s[1]
  BY <1>1, <1>2
<1>4. /\ h \o t \in Seq(S) /\ Len(h \o t) = Len(s)
      /\ \A i \in 1..Len(s) : (h \o t)[i] = IF i <= 1 THEN h[i] ELSE t[i - 1]
  <2>1. /\ h \o t \in Seq(S) /\ Len(h \o t) = Len(h) + Len(t)
        /\ \A i \in 1..Len(h) + Len(t) : (h \o t)[i] = IF i <= Len(h) THEN h[i] ELSE t[i - Len(h)]
    BY <1>2, <1>3, ConcatProperties, ZenonT(60)
  <2>2. Len(h) + Len(t) = Len(s)
    BY <1>2, <1>3
  <2> QED
    BY <1>3, <2>1, <2>2
<1>5. \A i \in 1..Len(s) : (h \o t)[i] = s[i]
  BY <1>2, <1>3, <1>4
<1> QED
  BY <1>1, <1>4, <1>5, SeqEqual

(* A new item, with a number above those of all the others, comes last. *)
LEMMA AscendingAppend ==
    ASSUME NEW S, NEW s \in Seq(S), NEW e \in S, Ascending(s),
           \A x \in Range(s) : x.n < e.n
    PROVE  Ascending(Append(s, e))
<1> DEFINE t == Append(s, e)
<1>1. /\ Len(s) \in Nat /\ DOMAIN s = 1..Len(s) /\ Len(t) = Len(s) + 1
      /\ t[Len(s) + 1] = e /\ \A i \in 1..Len(s) : t[i] = s[i]
  BY AppendProperties, LenProperties
<1> HIDE DEF t
<1>2. \A i \in 1..Len(s) : s[i].n < e.n
  BY <1>1 DEF Range
<1>3. ASSUME NEW i \in 1..Len(s) + 1, NEW j \in 1..Len(s) + 1, i < j
      PROVE  t[i].n < t[j].n
  <2>1. i \in 1..Len(s)
    BY <1>1, <1>3
  <2>2. CASE j = Len(s) + 1
    BY <1>1, <1>2, <2>1, <2>2
  <2>3. CASE j # Len(s) + 1
    <3>1. j \in 1..Len(s)
      BY <1>1, <2>3
    <3> QED
      BY <1>1, <1>3, <2>1, <3>1 DEF Ascending
  <2> QED
    BY <2>2, <2>3
<1>4. Ascending(t)
  BY <1>1, <1>3 DEF Ascending
<1> QED
  BY <1>4 DEF t

(* The first item is taken: it comes before the rest, which stays in order. *)
LEMMA AscendingTail ==
    ASSUME NEW S, NEW s \in Seq(S), s # <<>>, Ascending(s)
    PROVE  Ascending(Tail(s)) /\ \A y \in Range(Tail(s)) : Head(s).n < y.n
<1> DEFINE t == Tail(s)
<1>1. /\ Len(s) \in Nat \ {0} /\ DOMAIN t = 1..Len(s) - 1 /\ Len(t) = Len(s) - 1
      /\ \A i \in 1..Len(s) - 1 : t[i] = s[i + 1]
      /\ Head(s) = s[1]
  BY HeadTailProperties, LenProperties, EmptySeq
<1> HIDE DEF t
<1>2. ASSUME NEW i \in 1..Len(t), NEW j \in 1..Len(t), i < j
      PROVE  t[i].n < t[j].n
  <2>1. i + 1 \in 1..Len(s) /\ j + 1 \in 1..Len(s) /\ i + 1 < j + 1
    BY <1>1, <1>2
  <2>2. s[i + 1].n < s[j + 1].n
    BY <2>1 DEF Ascending
  <2> QED
    BY <1>1, <2>2
<1>3. ASSUME NEW i \in 1..Len(t)
      PROVE  Head(s).n < t[i].n
  <2>1. 1 \in 1..Len(s) /\ i + 1 \in 1..Len(s) /\ 1 < i + 1
    BY <1>1
  <2>2. s[1].n < s[i + 1].n
    BY <2>1 DEF Ascending
  <2> QED
    BY <1>1, <2>2
<1>4. Ascending(t) /\ \A y \in Range(t) : Head(s).n < y.n
  BY <1>1, <1>2, <1>3 DEF Ascending, Range
<1> QED
  BY <1>4 DEF t

(* Two parts in order, the first before the second, are in order together. *)
LEMMA AscendingConcat ==
    ASSUME NEW S, NEW s \in Seq(S), NEW t \in Seq(S), Ascending(s), Ascending(t),
           \A x \in Range(s), y \in Range(t) : x.n < y.n
    PROVE  Ascending(s \o t)
<1> DEFINE u == s \o t
<1>1. /\ Len(u) = Len(s) + Len(t) /\ Len(s) \in Nat /\ Len(t) \in Nat
      /\ DOMAIN s = 1..Len(s) /\ DOMAIN t = 1..Len(t)
      /\ \A i \in 1..Len(s) + Len(t) : u[i] = IF i <= Len(s) THEN s[i] ELSE t[i - Len(s)]
  BY ConcatProperties, LenProperties
<1> HIDE DEF u
<1>2. ASSUME NEW i \in 1..Len(u), NEW j \in 1..Len(u), i < j
      PROVE  u[i].n < u[j].n
  <2>1. CASE j <= Len(s)
    <3>1. i \in 1..Len(s) /\ j \in 1..Len(s)
      BY <1>1, <1>2, <2>1
    <3> QED
      BY <1>1, <1>2, <2>1, <3>1, SMTT(40) DEF Ascending
  <2>2. CASE i <= Len(s) /\ j > Len(s)
    <3>1. i \in DOMAIN s /\ j - Len(s) \in DOMAIN t
      BY <1>1, <2>2
    <3>2. u[i] = s[i] /\ u[j] = t[j - Len(s)]
      BY <1>1, <2>2
    <3>3. s[i] \in Range(s) /\ t[j - Len(s)] \in Range(t)
      BY <3>1 DEF Range
    <3> QED
      BY <3>2, <3>3
  <2>3. CASE i > Len(s)
    <3>1. i - Len(s) \in 1..Len(t) /\ j - Len(s) \in 1..Len(t) /\ i - Len(s) < j - Len(s)
      BY <1>1, <1>2, <2>3
    <3>2. u[i] = t[i - Len(s)] /\ u[j] = t[j - Len(s)]
      BY <1>1, <1>2, <2>3
    <3>3. t[i - Len(s)].n < t[j - Len(s)].n
      BY <3>1 DEF Ascending
    <3> QED
      BY <3>2, <3>3
  <2> QED
    BY <1>1, <2>1, <2>2, <2>3
<1>3. Ascending(u)
  BY <1>2 DEF Ascending
<1> QED
  BY <1>3 DEF u
-----------------------------------------------------------------------------
(* Induction: a set of numbers that is not empty has a least one. *)
LEMMA LeastNatural ==
    ASSUME NEW S, S \subseteq Nat, S # {}
    PROVE  \E n \in S : \A m \in S : n <= m
<1>1. PICK n \in S : \A m \in S : <<m, n>> \notin OpToRel(<, Nat)
  BY WFMin, NatLessThanWellFounded
<1>2. \A m \in S : ~(m < n)
  BY <1>1 DEF OpToRel
<1> QED
  BY <1>2

LEMMA GreatestNatural ==
    ASSUME NEW n \in Nat, NEW S, S \subseteq 1..n, S # {}
    PROVE  Max(S) \in S /\ \A m \in S : m <= Max(S)
<1>1. PICK d \in {n - m : m \in S} : \A e \in {n - m : m \in S} : d <= e
  <2>1. \A m \in S : m \in Int /\ n - m \in Nat
    OBVIOUS
  <2>2. {n - m : m \in S} \subseteq Nat
    BY <2>1
  <2>3. PICK m \in S : TRUE
    OBVIOUS
  <2>4. n - m \in {n - i : i \in S}
    OBVIOUS
  <2> QED
    BY <2>2, <2>4, LeastNatural
<1>2. PICK g \in S : d = n - g
  BY <1>1
<1>3. \A m \in S : g >= m
  BY <1>1, <1>2
<1>4. Max(S) \in S /\ \A m \in S : Max(S) >= m
  BY <1>3 DEF Max
<1> QED
  BY <1>4

(* A fold over a finite set N that takes its elements in the order c gives,   *)
(* step by step, computes what its equation says.                             *)
FoldEquation(iter, N, base, next, c) ==
    \A I \in SUBSET N :
        iter[I] = IF I = {} THEN base ELSE next[<<iter[I \ {c[I]}], c[I]>>]

LEMMA FoldExists ==
    ASSUME NEW N, IsFiniteSet(N), NEW A, NEW base \in A,
           NEW c, \A I \in SUBSET N : I # {} => c[I] \in I,
           NEW next, \A a \in A, i \in N : next[<<a, i>>] \in A
    PROVE  \E iter \in [SUBSET N -> A] : FoldEquation(iter, N, base, next, c)
<1> DEFINE Upto(k) == {I \in SUBSET N : Cardinality(I) <= k}
           Good(iter, k) ==
               \A I \in Upto(k) :
                   iter[I] = IF I = {} THEN base ELSE next[<<iter[I \ {c[I]}], c[I]>>]
           Bad == {k \in Nat : ~\E iter \in [SUBSET N -> A] : Good(iter, k)}
<1>1. \A I \in SUBSET N : /\ IsFiniteSet(I) /\ Cardinality(I) \in Nat
                          /\ Cardinality(I) <= Cardinality(N)
                          /\ Cardinality(I) = 0 <=> I = {}
                          /\ \A i \in I : Cardinality(I \ {i}) = Cardinality(I) - 1
  BY FS_Subset, FS_CardinalityType, FS_EmptySet, FS_RemoveElement
<1>2. Bad = {}
  <2> SUFFICES ASSUME Bad # {} PROVE FALSE
    OBVIOUS
  <2>1. PICK k \in Bad : \A m \in Bad : k <= m
    <3>1. Bad \subseteq Nat
      OBVIOUS
    <3> QED
      BY <3>1, LeastNatural
  <2>2. k # 0
    <3>1. Good([I \in SUBSET N |-> base], 0)
      BY <1>1
    <3>2. [I \in SUBSET N |-> base] \in [SUBSET N -> A]
      OBVIOUS
    <3>3. 0 \in Nat \ Bad
      BY <3>1, <3>2
    <3> QED
      BY <3>3
  <2>3. PICK it \in [SUBSET N -> A] : Good(it, k - 1)
    <3> HIDE DEF Bad
    <3>1. k \in Nat
      BY DEF Bad
    <3>2. k - 1 \in Nat /\ k - 1 \notin Bad
      BY <2>1, <2>2, <3>1
    <3> USE DEF Bad
    <3> QED
      BY <3>2
  <2> DEFINE new == [I \in SUBSET N |->
                        IF I = {} THEN base ELSE next[<<it[I \ {c[I]}], c[I]>>]]
  <2>4. new \in [SUBSET N -> A]
    <3> SUFFICES ASSUME NEW I \in SUBSET N, I # {} PROVE next[<<it[I \ {c[I]}], c[I]>>] \in A
      OBVIOUS
    <3>1. c[I] \in N /\ it[I \ {c[I]}] \in A
      OBVIOUS
    <3> QED
      BY <3>1
  <2>5. \A I \in Upto(k - 1) : new[I] = it[I]
    BY <2>3
  <2>6. \A I \in Upto(k) : I # {} => I \ {c[I]} \in Upto(k - 1)
    BY <1>1, SMTT(40)
  <2>7. Good(new, k)
    <3> SUFFICES ASSUME NEW I \in Upto(k)
                 PROVE  new[I] = IF I = {} THEN base ELSE next[<<new[I \ {c[I]}], c[I]>>]
      OBVIOUS
    <3>1. CASE I = {}
      BY <3>1
    <3>2. CASE I # {}
      <4>1. new[I \ {c[I]}] = it[I \ {c[I]}]
        BY <2>5, <2>6, <3>2
      <4>2. new[I] = next[<<it[I \ {c[I]}], c[I]>>]
        BY <3>2
      <4> QED
        BY <3>2, <4>1, <4>2
    <3> QED
      BY <3>1, <3>2, SMTT(40)
  <2> QED
    BY <2>1, <2>4, <2>7
<1>3. PICK iter \in [SUBSET N -> A] : Good(iter, Cardinality(N))
  <2>1. Cardinality(N) \in Nat
    BY <1>1
  <2> QED
    BY <1>2, <2>1
<1>4. FoldEquation(iter, N, base, next, c)
  <2>1. \A I \in SUBSET N : I \in Upto(Cardinality(N))
    BY <1>1
  <2> QED
    BY <1>3, <2>1 DEF FoldEquation
<1> QED
  BY <1>4

(* The fold from left to right over 1..n. *)
Largest(n) == [I \in SUBSET (1..n) |-> Max(I)]

LEMMA LeftFoldRuns ==
    ASSUME NEW n \in Nat, NEW A, NEW base \in A,
           NEW next, \A a \in A, i \in 1..n : next[<<a, i>>] \in A
    PROVE  \E iter \in [SUBSET (1..n) -> A] : FoldEquation(iter, 1..n, base, next, Largest(n))
<1>1. IsFiniteSet(1..n)
  <2>1. 1 \in Int /\ n \in Int
    OBVIOUS
  <2> QED
    BY <2>1, FS_Interval
<1>2. \A I \in SUBSET (1..n) : Largest(n)[I] = Max(I) /\ (I # {} => Max(I) \in I)
  BY GreatestNatural DEF Largest
<1> QED
  BY <1>1, <1>2, FoldExists, ZenonT(60)

LEMMA MaxOfInterval ==
    ASSUME NEW n \in Nat, n > 0
    PROVE  Max(1..n) = n /\ (1..n) \ {Max(1..n)} = 1..(n - 1)
<1>1. Max(1..n) \in 1..n /\ \A m \in 1..n : m <= Max(1..n)
  <2>1. 1..n # {} /\ 1..n \subseteq 1..n
    OBVIOUS
  <2> QED
    BY <2>1, GreatestNatural
<1> QED
  BY <1>1

LEMMA Induction ==
    ASSUME NEW n \in Nat, NEW S, 0 \in S, \A i \in 0..(n - 1) : i \in S => i + 1 \in S
    PROVE  0..n \subseteq S
<1> SUFFICES ASSUME NEW j \in 0..n, j \notin S PROVE FALSE
  OBVIOUS
<1> DEFINE Out == {i \in 0..n : i \notin S}
<1>1. PICK i \in Out : \A m \in Out : i <= m
  <2>1. Out \subseteq Nat /\ j \in Out
    OBVIOUS
  <2> HIDE DEF Out
  <2> QED
    BY <2>1, LeastNatural
<1>2. i # 0 /\ i \in 0..n /\ i \notin S
  OBVIOUS
<1>3. i - 1 \in 0..n /\ i - 1 \notin Out
  BY <1>1, <1>2
<1>4. i - 1 \in S /\ i - 1 \in 0..(n - 1) /\ (i - 1) + 1 = i
  BY <1>2, <1>3
<1> QED
  BY <1>2, <1>4

(* What a fold from left to right computes, one element after the other.      *)
RunOf(h, n, A, base, next) ==
    /\ h \in [0..n -> A] /\ h[0] = base
    /\ \A i \in 1..n : h[i] = next[<<h[i - 1], i>>]

FoldsTo(f, n, A, base, next) ==
    /\ \A a \in A, i \in 1..n : next[<<a, i>>] \in A
    /\ f[{}] = base
    /\ \A I \in SUBSET (1..n) :
           I # {} /\ f[I \ {Max(I)}] \in A => f[I] = next[<<f[I \ {Max(I)}], Max(I)>>]

LEMMA FoldSteps ==
    ASSUME NEW n \in Nat, NEW A, NEW base \in A, NEW next, NEW f, FoldsTo(f, n, A, base, next)
    PROVE  \E h : RunOf(h, n, A, base, next) /\ h[n] = f[1..n]
<1>0. /\ \A a \in A, i \in 1..n : next[<<a, i>>] \in A
      /\ f[{}] = base
      /\ \A I \in SUBSET (1..n) :
             I # {} /\ f[I \ {Max(I)}] \in A => f[I] = next[<<f[I \ {Max(I)}], Max(I)>>]
  BY DEF FoldsTo
<1>1. PICK h : h = [i \in 0..n |-> f[1..i]]
  OBVIOUS
<1>2. h[0] = base
  <2>1. 1..0 = {} /\ 0 \in 0..n
    OBVIOUS
  <2> QED
    BY <1>0, <1>1, <2>1
<1>3. ASSUME NEW i \in 1..n, h[i - 1] \in A
      PROVE  h[i] = next[<<h[i - 1], i>>] /\ h[i] \in A
  <2>1. i \in Nat /\ i > 0 /\ i <= n /\ i - 1 \in 0..n /\ i \in 0..n
    OBVIOUS
  <2>2. Max(1..i) = i /\ (1..i) \ {Max(1..i)} = 1..(i - 1)
    BY <2>1, MaxOfInterval
  <2>3. 1..i \in SUBSET (1..n) /\ 1..i # {}
    BY <2>1
  <2>4. h[i] = f[1..i] /\ h[i - 1] = f[1..(i - 1)]
    BY <1>1, <2>1
  <2> QED
    BY <1>0, <1>3, <2>2, <2>3, <2>4, ZenonT(60)
<1>4. PICK S : S = {i \in 0..n : h[i] \in A}
  OBVIOUS
<1>5. 0 \in S
  BY <1>2, <1>4
<1>6. \A i \in 0..(n - 1) : i \in S => i + 1 \in S
  <2> SUFFICES ASSUME NEW i \in 0..(n - 1), i \in S PROVE i + 1 \in S
    OBVIOUS
  <2>1. i + 1 \in 1..n /\ i + 1 \in 0..n /\ (i + 1) - 1 = i
    OBVIOUS
  <2> QED
    BY <1>3, <1>4, <2>1
<1>7. 0..n \subseteq S
  BY <1>5, <1>6, Induction
<1>8. \A i \in 0..n : h[i] \in A
  BY <1>4, <1>7
<1>9. \A i \in 1..n : h[i] = next[<<h[i - 1], i>>]
  <2> SUFFICES ASSUME NEW i \in 1..n PROVE h[i] = next[<<h[i - 1], i>>]
    OBVIOUS
  <2>1. i - 1 \in 0..n
    OBVIOUS
  <2> QED
    BY <1>3, <1>8, <2>1
<1>10. h \in [0..n -> A] /\ h[n] = f[1..n]
  BY <1>1, <1>8
<1> QED
  BY <1>2, <1>9, <1>10 DEF RunOf

(* The subsets of a finite set, smaller ones first.                           *)
LEMMA SubsetInduction ==
    ASSUME NEW N, IsFiniteSet(N), NEW Good, {} \in Good,
           NEW c, \A I \in SUBSET N : I # {} =>
               c[I] \in I /\ (I \ {c[I]} \in Good => I \in Good)
    PROVE  N \in Good
<1>1. PICK n \in Nat : n = Cardinality(N)
  BY FS_CardinalityType
<1>2. \A I \in SUBSET N : IsFiniteSet(I)
  BY FS_Subset
<1>3. PICK S : S = {k \in 0..n : \A I \in SUBSET N : Cardinality(I) = k => I \in Good}
  OBVIOUS
<1>4. 0 \in S
  <2>1. \A I \in SUBSET N : Cardinality(I) = 0 => I = {}
    BY <1>2, FS_EmptySet
  <2>2. 0 \in 0..n
    OBVIOUS
  <2> QED
    BY <1>3, <2>1, <2>2
<1>5. ASSUME NEW k \in 0..(n - 1), k \in S PROVE k + 1 \in S
  <2> SUFFICES ASSUME NEW I \in SUBSET N, Cardinality(I) = k + 1 PROVE I \in Good
    BY <1>3
  <2>1. I # {}
    <3>1. Cardinality({}) = 0 /\ k + 1 # 0
      BY FS_EmptySet
    <3> QED
      BY <3>1
  <2>2. PICK x \in I : x = c[I]
    BY <2>1
  <2>3. Cardinality(I \ {x}) = k
    <3>1. Cardinality(I \ {x}) = Cardinality(I) - 1
      BY <1>2, FS_RemoveElement
    <3> QED
      BY <3>1
  <2>4. I \ {x} \in Good
    BY <1>3, <1>5, <2>3
  <2> QED
    BY <2>1, <2>2, <2>4
<1>6. n \in S
  <2>1. 0..n \subseteq S
    BY <1>4, <1>5, Induction
  <2> QED
    BY <2>1
<1> QED
  BY <1>1, <1>3, <1>6

(* Sorting by rank: the place of an element is one more than the number of    *)
(* those before it, and there is one element at each place.                   *)
(* B is a strict total order of 1..n, and `place` counts by it. *)
Counted(n, B, before, place) ==
    /\ \A i \in 1..n : <<i, i>> \notin B
    /\ \A i, j, k \in 1..n : <<i, j>> \in B /\ <<j, k>> \in B => <<i, k>> \in B
    /\ \A i, j \in 1..n : i # j => <<i, j>> \in B \/ <<j, i>> \in B
    /\ \A i \in 1..n : before[i] \in SUBSET (1..n)
    /\ \A i, j \in 1..n : j \in before[i] <=> <<j, i>> \in B
    /\ \A i \in 1..n : place[i] = Cardinality(before[i]) + 1

Ranked(n, B, place) ==
    /\ \A i \in 1..n : place[i] \in 1..n
    /\ \A i, j \in 1..n : <<i, j>> \in B <=> place[i] < place[j]
    /\ \A i, j \in 1..n : place[i] = place[j] => i = j
    /\ \A k \in 1..n : \E i \in 1..n : place[i] = k

LEMMA RankFacts ==
    ASSUME NEW n \in Nat, NEW B, NEW before, NEW place, Counted(n, B, before, place)
    PROVE  Ranked(n, B, place)
<1> USE DEF Counted
<1>1. IsFiniteSet(1..n) /\ Cardinality(1..n) = n
  <2>1. 1 \in Int /\ n \in Int
    OBVIOUS
  <2>2. Cardinality(1..n) = IF 1 > n THEN 0 ELSE n - 1 + 1
    BY <2>1, FS_Interval
  <2> QED
    BY <2>1, <2>2, FS_Interval, SMTT(40)
<1>4. \A i \in 1..n : before[i] \in SUBSET (1..n) /\ i \notin before[i]
  OBVIOUS
<1>5. ASSUME NEW i \in 1..n
      PROVE  /\ IsFiniteSet(before[i]) /\ Cardinality(before[i]) \in Nat
             /\ Cardinality(before[i] \cup {i}) = Cardinality(before[i]) + 1
             /\ IsFiniteSet(before[i] \cup {i})
  <2>1. before[i] \subseteq 1..n /\ i \notin before[i] /\ before[i] \cup {i} \subseteq 1..n
    BY <1>4
  <2>2. IsFiniteSet(before[i]) /\ IsFiniteSet(before[i] \cup {i})
    BY ONLY <1>1, <2>1, FS_Subset
  <2>3. Cardinality(before[i]) \in Nat
    BY ONLY <2>2, FS_CardinalityType
  <2>4. Cardinality(before[i] \cup {i}) = Cardinality(before[i]) + 1
    BY ONLY <2>1, <2>2, FS_AddElement
  <2> QED
    BY <2>2, <2>3, <2>4
<1>9. ASSUME NEW i \in 1..n, NEW j \in 1..n, <<i, j>> \in B PROVE place[i] < place[j]
  <2>1. before[i] \cup {i} \subseteq before[j]
    BY <1>4, <1>9, ZenonT(60)
  <2>2. Cardinality(before[i] \cup {i}) <= Cardinality(before[j])
    BY ONLY <1>5, <2>1, FS_Subset
  <2>3. /\ Cardinality(before[i]) \in Nat /\ Cardinality(before[j]) \in Nat
        /\ Cardinality(before[i] \cup {i}) = Cardinality(before[i]) + 1
    BY <1>5
  <2>4. place[i] = Cardinality(before[i]) + 1 /\ place[j] = Cardinality(before[j]) + 1
    OBVIOUS
  <2> QED
    BY ONLY <2>2, <2>3, <2>4
<1>10. \A i \in 1..n : place[i] \in 1..n
  <2> SUFFICES ASSUME NEW i \in 1..n PROVE place[i] \in 1..n
    OBVIOUS
  <2>1. before[i] \cup {i} \subseteq 1..n
    BY <1>4
  <2>2. Cardinality(before[i] \cup {i}) <= n
    BY ONLY <1>1, <2>1, FS_Subset
  <2>3. /\ Cardinality(before[i]) \in Nat
        /\ Cardinality(before[i] \cup {i}) = Cardinality(before[i]) + 1
        /\ place[i] = Cardinality(before[i]) + 1
    BY <1>5
  <2> QED
    BY ONLY n \in Nat, <2>2, <2>3
<1>6. \A i, j \in 1..n : <<i, j>> \in B <=> place[i] < place[j]
  <2> SUFFICES ASSUME NEW i \in 1..n, NEW j \in 1..n, place[i] < place[j] PROVE <<i, j>> \in B
    BY <1>9
  <2>1. place[i] \in Nat /\ place[j] \in Nat
    BY <1>10
  <2>2. i # j
    BY <2>1
  <2>3. CASE <<j, i>> \in B
    BY <1>9, <2>1, <2>3
  <2> QED
    BY <2>2, <2>3
<1>7. \A i, j \in 1..n : place[i] = place[j] => i = j
  <2> SUFFICES ASSUME NEW i \in 1..n, NEW j \in 1..n, place[i] = place[j], i # j PROVE FALSE
    OBVIOUS
  <2>1. place[i] < place[j] \/ place[j] < place[i]
    BY <1>6
  <2> QED
    BY <1>10, <2>1
<1>8. \A k \in 1..n : \E i \in 1..n : place[i] = k
  <2>1. PICK f : f = [i \in 1..n |-> place[i]]
    OBVIOUS
  <2>2. f \in Injection(1..n, 1..n)
    BY <1>10, <1>7, <2>1 DEF Injection, IsInjective
  <2>3. f \in Surjection(1..n, 1..n)
    BY ONLY <1>1, <2>2, FS_Injection
  <2> QED
    BY <2>1, <2>3 DEF Surjection
<1> QED
  BY <1>10, <1>6, <1>7, <1>8 DEF Ranked

(* A stable sort: the k-th is the element that has k - 1 before it, by rank   *)
(* and among equals as given.                                                 *)
PlacedBy(n, rank, before, at) ==
    /\ \A i \in 1..n : rank[i] \in Int /\ before[i] \in SUBSET (1..n)
    /\ \A i, j \in 1..n :
         j \in before[i] <=> rank[j] < rank[i] \/ (rank[j] = rank[i] /\ j < i)
    /\ \A k \in 1..n : (\E i \in 1..n : Cardinality(before[i]) + 1 = k) =>
         at[k] \in 1..n /\ Cardinality(before[at[k]]) + 1 = k

Ordered(n, rank, at) ==
    /\ \A k \in 1..n : at[k] \in 1..n
    /\ \A i \in 1..n : \E k \in 1..n : at[k] = i
    /\ \A k, l \in 1..n : k < l => rank[at[k]] <= rank[at[l]]

LEMMA StableSort ==
    ASSUME NEW n \in Nat, NEW rank, NEW before, NEW at, PlacedBy(n, rank, before, at)
    PROVE  Ordered(n, rank, at)
<1> USE DEF PlacedBy
<1>1. PICK B : B = {p \in (1..n) \X (1..n) :
                      rank[p[1]] < rank[p[2]] \/ (rank[p[1]] = rank[p[2]] /\ p[1] < p[2])}
  OBVIOUS
<1>2. \A i, j \in 1..n :
         <<i, j>> \in B <=> rank[i] < rank[j] \/ (rank[i] = rank[j] /\ i < j)
  BY <1>1
<1>3. PICK place : place = [i \in 1..n |-> Cardinality(before[i]) + 1]
  OBVIOUS
<1>4. Ranked(n, B, place)
  <2>1. \A i \in 1..n : <<i, i>> \notin B
    BY <1>2
  <2>2. \A i, j, k \in 1..n : <<i, j>> \in B /\ <<j, k>> \in B => <<i, k>> \in B
    BY <1>2
  <2>3. \A i, j \in 1..n : i # j => <<i, j>> \in B \/ <<j, i>> \in B
    BY <1>2
  <2>4. \A i, j \in 1..n : j \in before[i] <=> <<j, i>> \in B
    BY <1>2
  <2>5. \A i \in 1..n : before[i] \in SUBSET (1..n) /\ place[i] = Cardinality(before[i]) + 1
    BY <1>3
  <2>6. Counted(n, B, before, place)
    BY <2>1, <2>2, <2>3, <2>4, <2>5 DEF Counted
  <2> QED
    BY <2>6, RankFacts
<1>5. \A k \in 1..n : at[k] \in 1..n /\ place[at[k]] = k
  <2> SUFFICES ASSUME NEW k \in 1..n PROVE at[k] \in 1..n /\ place[at[k]] = k
    OBVIOUS
  <2>1. \E i \in 1..n : place[i] = k
    BY <1>4 DEF Ranked
  <2> QED
    BY <1>3, <2>1
<1>6. \A i \in 1..n : \E k \in 1..n : at[k] = i
  <2> SUFFICES ASSUME NEW i \in 1..n PROVE \E k \in 1..n : at[k] = i
    OBVIOUS
  <2>1. place[i] \in 1..n
    BY <1>4 DEF Ranked
  <2>2. at[place[i]] = i
    BY <1>4, <1>5, <2>1, ZenonT(60) DEF Ranked
  <2> QED
    BY <2>1, <2>2
<1>7. \A k, l \in 1..n : k < l => rank[at[k]] <= rank[at[l]]
  <2> SUFFICES ASSUME NEW k \in 1..n, NEW l \in 1..n, k < l
               PROVE  rank[at[k]] <= rank[at[l]]
    OBVIOUS
  <2>1. at[k] \in 1..n /\ at[l] \in 1..n /\ place[at[k]] < place[at[l]]
    BY <1>5
  <2>2. <<at[k], at[l]>> \in B
    BY <1>4, <2>1 DEF Ranked
  <2> QED
    BY <1>2, <2>1, <2>2
<1> QED
  BY <1>5, <1>6, <1>7 DEF Ordered
=============================================================================
