--------------------------- MODULE SequenceLemmas ---------------------------
(***************************************************************************)
(* Facts about the set of the elements of a sequence, and about sequences  *)
(* without repetition, that the proofs about queues and caches rest on;    *)
(* and induction and FlattenSeq, for the proofs about texts.               *)
(***************************************************************************)
EXTENDS Integers, Sequences, SequencesExt, SequenceTheorems, WellFoundedInduction, TLAPS

\* The elements of a sequence over S are in S.
LEMMA ToSetType ==
    ASSUME NEW S, NEW s \in Seq(S)
    PROVE  ToSet(s) \subseteq S
  BY LenProperties, ElementOfSeq DEF ToSet

\* The empty sequence has no elements.
LEMMA ToSetEmpty == ToSet(<<>>) = {}
  BY EmptySeq DEF ToSet

\* Appending adds one element.
LEMMA ToSetAppend ==
    ASSUME NEW S, NEW s \in Seq(S), NEW e \in S
    PROVE  ToSet(Append(s, e)) = ToSet(s) \cup {e}
  BY AppendProperties DEF ToSet

\* Concatenation unites the elements.
LEMMA ToSetConcat ==
    ASSUME NEW S, NEW s \in Seq(S), NEW t \in Seq(S)
    PROVE  ToSet(s \o t) = ToSet(s) \cup ToSet(t)
  <1>1. ToSet(s) = Range(s) /\ ToSet(t) = Range(t)
    BY RangeEquality, LenProperties DEF ToSet
  <1>2. s \o t \in Seq(S)
    BY ConcatProperties
  <1>3. ToSet(s \o t) = Range(s \o t)
    BY <1>2, RangeEquality, LenProperties DEF ToSet
  <1> QED
    BY <1>1, <1>3, RangeConcatenation

\* A sequence that is not empty consists of its head and its tail.
LEMMA ToSetHeadTail ==
    ASSUME NEW S, NEW s \in Seq(S), s # <<>>
    PROVE  ToSet(s) = {Head(s)} \cup ToSet(Tail(s))
  <1>1. /\ Len(s) \in Nat \ {0}
        /\ DOMAIN s = 1..Len(s)
        /\ DOMAIN Tail(s) = 1..(Len(s) - 1)
        /\ \A i \in 1..(Len(s) - 1) : Tail(s)[i] = s[i + 1]
    BY EmptySeq, HeadTailProperties, LenProperties
  <1>2. Head(s) = s[1]
    OBVIOUS
  <1>3. ASSUME NEW i \in DOMAIN s
        PROVE  s[i] \in {Head(s)} \cup ToSet(Tail(s))
    <2>1. CASE i = 1
      BY <1>2, <2>1
    <2>2. CASE i # 1
      <3>1. i - 1 \in 1..(Len(s) - 1) /\ (i - 1) + 1 = i
        BY <1>1, <2>2
      <3>2. s[i] = Tail(s)[i - 1] /\ i - 1 \in DOMAIN Tail(s)
        BY <1>1, <3>1
      <3> QED
        BY <3>2 DEF ToSet
    <2> QED
      BY <2>1, <2>2
  <1>4. ASSUME NEW i \in DOMAIN Tail(s)
        PROVE  Tail(s)[i] \in ToSet(s)
    <2>1. Tail(s)[i] = s[i + 1] /\ i + 1 \in DOMAIN s
      BY <1>1
    <2> QED
      BY <2>1 DEF ToSet
  <1>5. Head(s) \in ToSet(s)
    BY <1>1, <1>2 DEF ToSet
  <1> QED
    BY <1>3, <1>4, <1>5 DEF ToSet

\* A segment of a sequence over S is a sequence over S, of elements of s.
LEMMA Segment ==
    ASSUME NEW S, NEW s \in Seq(S), NEW m \in Int, NEW n \in Int, 1 <= m, n <= Len(s)
    PROVE  /\ SubSeq(s, m, n) \in Seq(S)
           /\ ToSet(SubSeq(s, m, n)) = {s[i] : i \in m..n}
  <1>1. \A i \in m..n : s[i] \in S
    BY ElementOfSeq, LenProperties
  <1>2. /\ SubSeq(s, m, n) \in Seq(S)
        /\ Len(SubSeq(s, m, n)) = IF m <= n THEN n - m + 1 ELSE 0
        /\ \A i \in 1..(n - m + 1) : SubSeq(s, m, n)[i] = s[m + i - 1]
    BY <1>1, SubSeqProperties
  <1>3. DOMAIN SubSeq(s, m, n) = 1..Len(SubSeq(s, m, n))
    BY <1>2, LenProperties
  <1>4. ASSUME NEW i \in m..n
        PROVE  s[i] \in ToSet(SubSeq(s, m, n))
    <2>1. i - m + 1 \in 1..(n - m + 1) /\ m + (i - m + 1) - 1 = i /\ m <= n
      OBVIOUS
    <2>2. s[i] = SubSeq(s, m, n)[i - m + 1]
      BY <2>1, <1>2
    <2>3. i - m + 1 \in DOMAIN SubSeq(s, m, n)
      BY <2>1, <1>2, <1>3
    <2> QED
      BY <2>2, <2>3 DEF ToSet
  <1>5. ASSUME NEW k \in DOMAIN SubSeq(s, m, n)
        PROVE  SubSeq(s, m, n)[k] \in {s[i] : i \in m..n}
    <2>1. m + k - 1 \in m..n /\ k \in 1..(n - m + 1)
      BY <1>2, <1>3
    <2> QED
      BY <2>1, <1>2
  <1>6. ToSet(SubSeq(s, m, n)) = {s[i] : i \in m..n}
    BY <1>4, <1>5 DEF ToSet
  <1> QED
    BY <1>2, <1>6

\* Cutting a sequence in two splits its elements, and apart if none repeats.
LEMMA Cut ==
    ASSUME NEW S, NEW s \in Seq(S), NEW k \in 0..Len(s)
    PROVE  LET front == SubSeq(s, 1, k)
               back  == SubSeq(s, k + 1, Len(s))
           IN  /\ front \in Seq(S)
               /\ back \in Seq(S)
               /\ ToSet(s) = ToSet(front) \cup ToSet(back)
               /\ IsInjective(s) => ToSet(front) \cap ToSet(back) = {}
  <1>1. Len(s) \in Nat /\ k \in Nat /\ k <= Len(s) /\ DOMAIN s = 1..Len(s)
    BY LenProperties
  <1>2. /\ SubSeq(s, 1, k) \in Seq(S)
        /\ ToSet(SubSeq(s, 1, k)) = {s[i] : i \in 1..k}
    BY <1>1, Segment
  <1>3. /\ SubSeq(s, k + 1, Len(s)) \in Seq(S)
        /\ ToSet(SubSeq(s, k + 1, Len(s))) = {s[i] : i \in (k + 1)..Len(s)}
    BY <1>1, Segment
  <1>4. 1..Len(s) = (1..k) \cup ((k + 1)..Len(s))
    BY <1>1
  <1>5. ToSet(s) = {s[i] : i \in 1..k} \cup {s[i] : i \in (k + 1)..Len(s)}
    BY <1>1, <1>4 DEF ToSet
  <1>6. ASSUME IsInjective(s)
        PROVE  {s[i] : i \in 1..k} \cap {s[i] : i \in (k + 1)..Len(s)} = {}
    BY <1>1, <1>6 DEF IsInjective
  <1> QED
    BY <1>2, <1>3, <1>5, <1>6

\* A segment of a sequence without repetition has none either.
LEMMA InjectiveSegment ==
    ASSUME NEW S, NEW s \in Seq(S), IsInjective(s),
           NEW m \in Int, NEW n \in Int, 1 <= m, n <= Len(s)
    PROVE  IsInjective(SubSeq(s, m, n))
  <1>1. \A i \in m..n : s[i] \in S
    BY ElementOfSeq, LenProperties
  <1>2. /\ SubSeq(s, m, n) \in Seq(S)
        /\ Len(SubSeq(s, m, n)) = IF m <= n THEN n - m + 1 ELSE 0
        /\ \A i \in 1..(n - m + 1) : SubSeq(s, m, n)[i] = s[m + i - 1]
    BY <1>1, SubSeqProperties
  <1>3. /\ DOMAIN SubSeq(s, m, n) = 1..Len(SubSeq(s, m, n))
        /\ DOMAIN s = 1..Len(s)
        /\ Len(s) \in Nat
    BY <1>2, LenProperties
  <1>4. ASSUME NEW i \in DOMAIN SubSeq(s, m, n), NEW k \in DOMAIN SubSeq(s, m, n),
               SubSeq(s, m, n)[i] = SubSeq(s, m, n)[k]
        PROVE  i = k
    <2>1. /\ i \in 1..(n - m + 1)
          /\ k \in 1..(n - m + 1)
          /\ m + i - 1 \in DOMAIN s
          /\ m + k - 1 \in DOMAIN s
      BY <1>2, <1>3
    <2>2. s[m + i - 1] = s[m + k - 1]
      BY <1>2, <1>4, <2>1
    <2>3. m + i - 1 = m + k - 1
      BY <2>1, <2>2 DEF IsInjective
    <2> QED
      BY <2>1, <2>3
  <1> QED
    BY <1>4 DEF IsInjective

\* Appending a new element repeats none.
LEMMA InjectiveAppend ==
    ASSUME NEW S, NEW s \in Seq(S), IsInjective(s), NEW e \in S, e \notin ToSet(s)
    PROVE  IsInjective(Append(s, e))
  <1>1. /\ DOMAIN s = 1..Len(s)
        /\ Len(s) \in Nat
        /\ DOMAIN Append(s, e) = 1..(Len(s) + 1)
        /\ \A i \in 1..Len(s) : Append(s, e)[i] = s[i]
        /\ Append(s, e)[Len(s) + 1] = e
    BY AppendProperties, LenProperties
  <1>2. \A i \in 1..Len(s) : s[i] # e
    BY <1>1 DEF ToSet
  <1> QED
    BY <1>1, <1>2 DEF IsInjective

\* Without its head a sequence without repetition does not hold it.
LEMMA InjectiveTail ==
    ASSUME NEW S, NEW s \in Seq(S), IsInjective(s), s # <<>>
    PROVE  /\ IsInjective(Tail(s))
           /\ Head(s) \notin ToSet(Tail(s))
  <1>1. /\ Len(s) \in Nat \ {0}
        /\ DOMAIN s = 1..Len(s)
        /\ DOMAIN Tail(s) = 1..(Len(s) - 1)
        /\ \A i \in 1..(Len(s) - 1) : Tail(s)[i] = s[i + 1]
    BY EmptySeq, HeadTailProperties, LenProperties
  <1>2. Head(s) = s[1]
    OBVIOUS
  <1>3. \A i \in 1..(Len(s) - 1) : i + 1 \in DOMAIN s /\ i + 1 # 1
    BY <1>1
  <1>4. 1 \in DOMAIN s
    BY <1>1
  <1>5. \A i \in DOMAIN Tail(s) : Tail(s)[i] # Head(s)
    BY <1>1, <1>2, <1>3, <1>4 DEF IsInjective
  <1>6. ASSUME NEW i \in DOMAIN Tail(s), NEW k \in DOMAIN Tail(s), Tail(s)[i] = Tail(s)[k]
        PROVE  i = k
    <2>1. s[i + 1] = s[k + 1] /\ i + 1 \in DOMAIN s /\ k + 1 \in DOMAIN s
      BY <1>1, <1>6
    <2>2. i + 1 = k + 1
      BY <2>1 DEF IsInjective
    <2> QED
      BY <1>1, <2>2
  <1> QED
    BY <1>5, <1>6 DEF IsInjective, ToSet

\* Two sequences that share no element repeat none when concatenated.
LEMMA InjectiveConcat ==
    ASSUME NEW S, NEW s \in Seq(S), NEW t \in Seq(S), IsInjective(s), IsInjective(t),
           ToSet(s) \cap ToSet(t) = {}
    PROVE  IsInjective(s \o t)
  <1>1. /\ DOMAIN s = 1..Len(s) /\ Len(s) \in Nat
        /\ DOMAIN t = 1..Len(t) /\ Len(t) \in Nat
        /\ DOMAIN (s \o t) = 1..(Len(s) + Len(t))
    BY ConcatProperties, LenProperties
  <1>2. \A i \in 1..(Len(s) + Len(t)) :
           (s \o t)[i] = IF i <= Len(s) THEN s[i] ELSE t[i - Len(s)]
    BY ConcatProperties
  <1>3. \A i \in DOMAIN s, k \in DOMAIN t : s[i] # t[k]
    BY DEF ToSet
  <1>4. ASSUME NEW i \in 1..(Len(s) + Len(t)), NEW k \in 1..(Len(s) + Len(t)),
               (s \o t)[i] = (s \o t)[k]
        PROVE  i = k
    <2>1. CASE i <= Len(s) /\ k <= Len(s)
      BY <1>1, <1>2, <1>4, <2>1 DEF IsInjective
    <2>2. CASE i <= Len(s) /\ ~(k <= Len(s))
      BY <1>1, <1>2, <1>3, <1>4, <2>2
    <2>3. CASE ~(i <= Len(s)) /\ k <= Len(s)
      BY <1>1, <1>2, <1>3, <1>4, <2>3
    <2>4. CASE ~(i <= Len(s)) /\ ~(k <= Len(s))
      <3>1. i - Len(s) \in DOMAIN t /\ k - Len(s) \in DOMAIN t
        BY <1>1, <2>4
      <3>2. t[i - Len(s)] = t[k - Len(s)]
        BY <1>2, <1>4, <2>4
      <3>3. i - Len(s) = k - Len(s)
        BY <3>1, <3>2 DEF IsInjective
      <3> QED
        BY <1>1, <3>3
    <2> QED
      BY <2>1, <2>2, <2>3, <2>4
  <1> QED
    BY <1>1, <1>4 DEF IsInjective

\* Removing an entry leaves a sequence of the remaining ones.
LEMMA RemoveAtType ==
    ASSUME NEW S, NEW s \in Seq(S), NEW i \in DOMAIN s
    PROVE  RemoveAt(s, i) \in Seq(S)
  <1>1. DOMAIN s = 1..Len(s) /\ Len(s) \in Nat
    BY LenProperties
  <1>2. SubSeq(s, 1, i - 1) \in Seq(S) /\ SubSeq(s, i + 1, Len(s)) \in Seq(S)
    BY <1>1, Segment
  <1> QED
    BY <1>2, ConcatProperties DEF RemoveAt

\* The head of the first part of a concatenation is its head.
LEMMA HeadTailConcat ==
    ASSUME NEW S, NEW s \in Seq(S), NEW t \in Seq(S), s # <<>>
    PROVE  /\ s \o t \in Seq(S) /\ s \o t # <<>>
           /\ Head(s \o t) = Head(s)
           /\ Tail(s \o t) = Tail(s) \o t
  <1>1. /\ s \o t \in Seq(S)
        /\ Len(s \o t) = Len(s) + Len(t)
        /\ \A i \in 1..Len(s) + Len(t) : (s \o t)[i] = IF i <= Len(s) THEN s[i] ELSE t[i - Len(s)]
    BY ConcatProperties
  <1>2. Len(s) \in Nat \ {0} /\ Len(t) \in Nat
    BY EmptySeq, LenProperties
  <1>3. s \o t # <<>>
    BY ConcatEqualIffEmpty
  <1>4. PICK u : u = s \o t
    OBVIOUS
  <1>5. Head(u) = Head(s)
    <2>1. Head(u) = u[1] /\ Head(s) = s[1]
      BY <1>1, <1>3, <1>4
    <2>2. 1 \in 1..Len(s) + Len(t) /\ 1 <= Len(s)
      BY <1>2
    <2> QED
      BY <1>1, <1>4, <2>1, <2>2
  <1>6. /\ Tail(s) \in Seq(S) /\ Len(Tail(s)) = Len(s) - 1
        /\ \A i \in 1..Len(s) - 1 : Tail(s)[i] = s[i + 1]
    BY HeadTailProperties
  <1>7. /\ Tail(u) \in Seq(S) /\ Len(Tail(u)) = Len(s) + Len(t) - 1
        /\ \A i \in 1..Len(s) + Len(t) - 1 : Tail(u)[i] = u[i + 1]
    BY <1>1, <1>3, <1>4, HeadTailProperties
  <1>8. PICK r : r = Tail(s)
    OBVIOUS
  <1>9. /\ r \o t \in Seq(S)
        /\ Len(r \o t) = Len(s) - 1 + Len(t)
        /\ \A i \in 1..Len(s) - 1 + Len(t) :
             (r \o t)[i] = IF i <= Len(s) - 1 THEN r[i] ELSE t[i - (Len(s) - 1)]
    BY <1>6, <1>8, ConcatProperties
  <1>10. PICK v : v = r \o t
    OBVIOUS
  <1>11. ASSUME NEW i \in 1..Len(s) + Len(t) - 1
         PROVE  Tail(u)[i] = v[i]
    <2>1. /\ i \in 1..Len(s) - 1 + Len(t) /\ i + 1 \in 1..Len(s) + Len(t)
          /\ i + 1 - Len(s) = i - (Len(s) - 1)
          /\ i <= Len(s) - 1 <=> i + 1 <= Len(s)
      BY <1>2
    <2>2. Tail(u)[i] = IF i + 1 <= Len(s) THEN s[i + 1] ELSE t[i + 1 - Len(s)]
      BY <1>1, <1>4, <1>7, <2>1
    <2>3. v[i] = IF i <= Len(s) - 1 THEN r[i] ELSE t[i - (Len(s) - 1)]
      BY <1>9, <1>10, <2>1
    <2>4. i <= Len(s) - 1 => r[i] = s[i + 1]
      BY <1>2, <1>6, <1>8
    <2> QED
      BY <2>1, <2>2, <2>3, <2>4
  <1>12. Tail(u) = v
    <2>1. Len(Tail(u)) = Len(v) /\ v \in Seq(S) /\ Len(v) = Len(s) + Len(t) - 1
      BY <1>2, <1>7, <1>9, <1>10
    <2>2. PICK w : w = Tail(u)
      OBVIOUS
    <2>3. w \in Seq(S) /\ Len(w) = Len(v) /\ \A i \in 1..Len(w) : w[i] = v[i]
      BY <1>7, <1>11, <2>1, <2>2
    <2> QED
      BY <2>1, <2>2, <2>3, SeqEqual
  <1> QED
    BY <1>1, <1>3, <1>4, <1>5, <1>8, <1>10, <1>12

\* The head of the second part may as well be the last of the first part.
LEMMA MoveOver ==
    ASSUME NEW S, NEW s \in Seq(S), NEW t \in Seq(S), NEW u \in Seq(S), t # <<>>
    PROVE  Append(s, Head(t)) \o (Tail(t) \o u) = s \o (t \o u)
  <1>1. /\ Head(t) \in S /\ Tail(t) \in Seq(S) /\ <<Head(t)>> \in Seq(S)
    BY HeadTailProperties
  <1>2. PICK h, r : h = Head(t) /\ r = Tail(t)
    OBVIOUS
  <1>3. h \in S /\ r \in Seq(S) /\ <<h>> \in Seq(S)
    BY <1>1, <1>2
  <1>4. t = <<h>> \o r
    <2>1. PICK v : v = <<h>> \o r
      OBVIOUS
    <2>2. /\ v \in Seq(S) /\ Len(v) = 1 + Len(r)
          /\ \A i \in 1..1 + Len(r) : v[i] = IF i <= 1 THEN <<h>>[i] ELSE r[i - 1]
      BY <1>3, <2>1, ConcatProperties
    <2>3. /\ Len(t) \in Nat \ {0} /\ Len(r) = Len(t) - 1 /\ t[1] = h
          /\ \A i \in 1..Len(t) - 1 : r[i] = t[i + 1]
      BY <1>2, EmptySeq, LenProperties, HeadTailProperties
    <2>4. ASSUME NEW i \in 1..Len(t)
          PROVE  t[i] = v[i]
      <3>1. CASE i = 1
        <4>1. <<h>>[1] = h
          OBVIOUS
        <4>2. v[1] = <<h>>[1]
          BY <2>2, <2>3
        <4> QED
          BY <2>3, <3>1, <4>1, <4>2
      <3>2. CASE i # 1
        <4>1. i - 1 \in 1..Len(t) - 1 /\ ~(i <= 1) /\ i \in 1..1 + Len(r) /\ (i - 1) + 1 = i
          BY <2>3, <3>2
        <4>2. v[i] = r[i - 1]
          BY <2>2, <4>1
        <4>3. r[i - 1] = t[(i - 1) + 1]
          BY <2>3, <4>1
        <4> QED
          BY <4>1, <4>2, <4>3
      <3> QED
        BY <3>1, <3>2
    <2>5. Len(t) = Len(v)
      BY <2>2, <2>3
    <2>6. t = v
      BY <2>2, <2>4, <2>5, SeqEqual
    <2> QED
      BY <2>1, <2>6
  <1>5. Append(s, h) = s \o <<h>>
    BY <1>3, AppendIsConcat
  <1>6. PICK x : x = r \o u
    OBVIOUS
  <1>7. x \in Seq(S)
    BY <1>3, <1>6, ConcatProperties
  <1>8. (s \o <<h>>) \o x = s \o (<<h>> \o x)
    BY <1>3, <1>7, ConcatAssociative
  <1>9. (<<h>> \o r) \o u = <<h>> \o (r \o u)
    BY <1>3, ConcatAssociative
  <1> QED
    BY <1>2, <1>4, <1>5, <1>6, <1>8, <1>9

\* To append to the last part is to append to the whole.
LEMMA AppendOver ==
    ASSUME NEW S, NEW s \in Seq(S), NEW t \in Seq(S), NEW u \in Seq(S), NEW e \in S
    PROVE  s \o (t \o Append(u, e)) = Append(s \o (t \o u), e)
  <1>1. <<e>> \in Seq(S)
    OBVIOUS
  <1>2. Append(u, e) = u \o <<e>>
    BY AppendIsConcat
  <1>3. (t \o u) \o <<e>> = t \o (u \o <<e>>)
    BY <1>1, ConcatAssociative
  <1>4. PICK x : x = t \o u
    OBVIOUS
  <1>5. x \in Seq(S)
    BY <1>4, ConcatProperties
  <1>6. (s \o x) \o <<e>> = s \o (x \o <<e>>)
    BY <1>1, <1>5, ConcatAssociative
  <1>7. PICK y : y = s \o x
    OBVIOUS
  <1>8. y \in Seq(S)
    BY <1>5, <1>7, ConcatProperties
  <1>9. Append(y, e) = y \o <<e>>
    BY <1>8, AppendIsConcat
  <1> QED
    BY <1>2, <1>3, <1>4, <1>6, <1>7, <1>9

\* Where the elements of a sequence are when its first n are left out.
LEMMA SuffixAt ==
    ASSUME NEW S, NEW s \in Seq(S), NEW n \in 0..Len(s)
    PROVE  LET t == SubSeq(s, n + 1, Len(s))
           IN  /\ t \in Seq(S)
               /\ DOMAIN t = 1..(Len(s) - n)
               /\ \A i \in DOMAIN t : n + i \in DOMAIN s /\ t[i] = s[n + i]
  <1> DEFINE t == SubSeq(s, n + 1, Len(s))
  <1>1. Len(s) \in Nat /\ DOMAIN s = 1..Len(s)
    BY LenProperties
  <1>2. \A i \in (n + 1)..Len(s) : s[i] \in S
    BY <1>1, ElementOfSeq
  <1>3. /\ t \in Seq(S)
        /\ Len(t) = IF n + 1 <= Len(s) THEN Len(s) - (n + 1) + 1 ELSE 0
        /\ \A i \in 1..(Len(s) - (n + 1) + 1) : t[i] = s[n + 1 + i - 1]
    BY <1>1, <1>2, SubSeqProperties
  <1>4. /\ DOMAIN t = 1..(Len(s) - n)
        /\ \A i \in DOMAIN t : n + i \in DOMAIN s /\ t[i] = s[n + i]
    <2> HIDE DEF t
    <2>1. DOMAIN t = 1..Len(t)
      BY <1>3, LenProperties
    <2>2. Len(t) = Len(s) - n
      <3>1. n \in Nat /\ n <= Len(s) /\ Len(s) \in Nat
        BY <1>1
      <3>2. CASE n = Len(s)
        BY <1>3, <3>1, <3>2
      <3>3. CASE n < Len(s)
        BY <1>3, <3>1, <3>3
      <3> QED
        BY <3>1, <3>2, <3>3
    <2>3. DOMAIN t = 1..(Len(s) - n)
      BY <2>1, <2>2
    <2>4. ASSUME NEW i \in 1..(Len(s) - n)
          PROVE  n + i \in 1..Len(s) /\ t[i] = s[n + i]
      <3>1. n + 1 + i - 1 = n + i /\ i \in 1..(Len(s) - (n + 1) + 1)
        BY <1>1
      <3>2. t[i] = s[n + 1 + i - 1]
        BY <1>3, <3>1
      <3> QED
        BY <1>1, <3>1, <3>2
    <2> QED
      BY <1>1, <2>3, <2>4
  <1> QED
    BY <1>3, <1>4

\* Where the elements of a sequence were before one of them was taken out.
LEMMA RemoveAtMoves ==
    ASSUME NEW S, NEW s \in Seq(S), NEW i \in DOMAIN s
    PROVE  LET t == RemoveAt(s, i)
           IN  /\ t \in Seq(S) /\ DOMAIN t \subseteq Int
               /\ \A x \in DOMAIN t :
                     LET y == IF x < i THEN x ELSE x + 1
                     IN  y \in DOMAIN s /\ t[x] = s[y]
  <1>1. Len(s) \in Nat /\ DOMAIN s = 1..Len(s) /\ i \in 1..Len(s)
    BY LenProperties
  <1>2. PICK front, back : front = SubSeq(s, 1, i - 1) /\ back = SubSeq(s, i + 1, Len(s))
    OBVIOUS
  <1>3. PICK t : t = RemoveAt(s, i)
    OBVIOUS
  <1>4. t = front \o back
    BY <1>2, <1>3 DEF RemoveAt
  <1>5. \A k \in 1..(i - 1) : s[k] \in S
    BY <1>1, ElementOfSeq
  <1>6. front \in Seq(S) /\ Len(front) = i - 1 /\ \A k \in 1..(i - 1) : front[k] = s[k]
    <2>1. /\ front \in Seq(S)
          /\ Len(front) = IF 1 <= i - 1 THEN (i - 1) - 1 + 1 ELSE 0
          /\ \A k \in 1..((i - 1) - 1 + 1) : front[k] = s[1 + k - 1]
      BY <1>1, <1>2, <1>5, SubSeqProperties
    <2>2. (i - 1) - 1 + 1 = i - 1 /\ (1 <= i - 1 \/ i - 1 = 0)
      BY <1>1
    <2>3. \A k \in 1..(i - 1) : 1 + k - 1 = k
      OBVIOUS
    <2> QED
      BY <2>1, <2>2, <2>3
  <1>7. /\ back \in Seq(S) /\ Len(back) = Len(s) - i
        /\ \A k \in 1..(Len(s) - i) : back[k] = s[i + k]
    <2>1. i \in 0..Len(s)
      BY <1>1
    <2>2. /\ back \in Seq(S) /\ DOMAIN back = 1..(Len(s) - i)
          /\ \A k \in DOMAIN back : i + k \in DOMAIN s /\ back[k] = s[i + k]
      BY <1>2, <2>1, SuffixAt
    <2>3. Len(s) - i \in Nat
      BY <1>1
    <2>4. Len(back) = Len(s) - i
      BY <2>2, <2>3, LenProperties
    <2> QED
      BY <2>2, <2>4
  <1>8. /\ t \in Seq(S) /\ Len(t) = Len(s) - 1
        /\ \A k \in 1..(Len(s) - 1) :
              t[k] = IF k <= i - 1 THEN front[k] ELSE back[k - (i - 1)]
    <2>1. /\ t \in Seq(S) /\ Len(t) = Len(front) + Len(back)
          /\ \A k \in 1..Len(front) + Len(back) :
                t[k] = IF k <= Len(front) THEN front[k] ELSE back[k - Len(front)]
      BY <1>4, <1>6, <1>7, ConcatProperties
    <2>2. Len(front) + Len(back) = Len(s) - 1
      BY <1>1, <1>6, <1>7
    <2> QED
      BY <1>6, <2>1, <2>2
  <1>9. DOMAIN t = 1..(Len(s) - 1)
    BY <1>8, LenProperties
  <1>10. ASSUME NEW x \in DOMAIN t
         PROVE  LET y == IF x < i THEN x ELSE x + 1
                IN  y \in DOMAIN s /\ t[x] = s[y]
    <2>1. CASE x < i
      <3>1. x <= i - 1 /\ x \in 1..(i - 1) /\ x \in DOMAIN s
        BY <1>1, <1>9, <2>1
      <3>2. t[x] = s[x]
        BY <1>6, <1>8, <1>9, <3>1
      <3> QED
        BY <2>1, <3>1, <3>2
    <2>2. CASE ~(x < i)
      <3>1. /\ ~(x <= i - 1) /\ x - (i - 1) \in 1..(Len(s) - i) /\ x + 1 \in DOMAIN s
            /\ i + (x - (i - 1)) = x + 1
        BY <1>1, <1>9, <2>2
      <3>2. t[x] = s[x + 1]
        BY <1>7, <1>8, <1>9, <3>1
      <3> QED
        BY <2>2, <3>1, <3>2
    <2> QED
      BY <2>1, <2>2
  <1> QED
    BY <1>1, <1>3, <1>8, <1>9, <1>10

-----------------------------------------------------------------------------
\* Induction.  A set of numbers stands for the property its elements have.

\* A set of numbers that is not empty has a least element.
LEMMA LeastElement ==
    ASSUME NEW T \in SUBSET Nat, T # {}
    PROVE  \E x \in T : \A y \in T : x <= y
  <1> DEFINE R == OpToRel(<, Nat)
  <1>1. IsWellFoundedOn(R, Nat)
    BY NatLessThanWellFounded
  <1>2. \A x, y \in Nat : <<y, x>> \in R <=> y < x
    BY DEF OpToRel
  <1> HIDE DEF R
  <1>3. \E x \in T : \A y \in T : <<y, x>> \notin R
    BY <1>1, WFMin
  <1>4. PICK x \in T : \A y \in T : <<y, x>> \notin R
    BY <1>3
  <1>5. \A y \in T : ~(y < x)
    BY <1>2, <1>4
  <1> QED
    BY <1>5

\* What holds of 0 and goes from each number to the next holds of all.
LEMMA SetInduction ==
    ASSUME NEW T, 0 \in T, \A n \in Nat : n \in T => n + 1 \in T
    PROVE  Nat \subseteq T
  <1> SUFFICES ASSUME Nat \ T # {} PROVE FALSE
    OBVIOUS
  <1>1. PICK x \in Nat \ T : \A y \in Nat \ T : x <= y
    BY LeastElement
  <1>2. x # 0 /\ x - 1 \in Nat
    BY <1>1
  <1>3. x - 1 \notin Nat \ T
    BY <1>1, <1>2
  <1> QED
    BY <1>1, <1>2, <1>3

\* What holds of a number when it holds of all smaller ones holds of all.
LEMMA SetStrongInduction ==
    ASSUME NEW T, \A n \in Nat : (\A m \in 0..(n - 1) : m \in T) => n \in T
    PROVE  Nat \subseteq T
  <1> SUFFICES ASSUME Nat \ T # {} PROVE FALSE
    OBVIOUS
  <1>1. PICK x \in Nat \ T : \A y \in Nat \ T : x <= y
    BY LeastElement
  <1>2. \A m \in 0..(x - 1) : m \in T
    BY <1>1
  <1> QED
    BY <1>1, <1>2

-----------------------------------------------------------------------------
\* FlattenSeq.

\* Concatenation, as a name the provers need not look into.
Cat(s, t) == s \o t

\* g is the function by which FlattenSeq is defined.
IsFlat(g, ss, n) == g = [i \in 1..n |-> IF i = 1 THEN ss[i] ELSE g[i - 1] \o ss[i]]

\* One step of it.
LEMMA FlatUnfold ==
    ASSUME NEW ss, NEW n, NEW g, IsFlat(g, ss, n), NEW i \in 1..n
    PROVE  g[i] = IF i = 1 THEN ss[i] ELSE Cat(g[i - 1], ss[i])
  BY DEF IsFlat, Cat

\* The function that flattens a sequence exists.
LEMMA FlatExists == \A ss : \A n \in Nat : \E g : IsFlat(g, ss, n)
  <1> TAKE ss
  <1> DEFINE T == {n \in Nat : \E g : IsFlat(g, ss, n)}
  <1>1. 0 \in T
    <2>1. IsFlat([i \in 1..0 |-> ss[i]], ss, 0)
      BY DEF IsFlat
    <2> QED
      BY <2>1
  <1>2. ASSUME NEW n \in Nat, n \in T
        PROVE  n + 1 \in T
    <2>1. PICK g : IsFlat(g, ss, n)
      BY <1>2
    <2> DEFINE last == IF n = 0 THEN ss[1] ELSE g[n] \o ss[n + 1]
               h == [i \in 1..(n + 1) |-> IF i = n + 1 THEN last ELSE g[i]]
    <2>2. ASSUME NEW i \in 1..(n + 1)
          PROVE  h[i] = IF i = 1 THEN ss[i] ELSE h[i - 1] \o ss[i]
      <3>1. CASE i = n + 1
        BY <3>1
      <3>2. CASE i # n + 1
        <4>1. i \in 1..n
          BY <3>2
        <4>2. g[i] = IF i = 1 THEN ss[i] ELSE g[i - 1] \o ss[i]
          BY <2>1, <4>1 DEF IsFlat
        <4> QED
          BY <4>1, <4>2
      <3> QED
        BY <3>1, <3>2
    <2>3. h = [i \in 1..(n + 1) |-> h[i]]
      OBVIOUS
    <2> HIDE DEF h
    <2>4. IsFlat(h, ss, n + 1)
      BY <2>2, <2>3 DEF IsFlat
    <2> QED
      BY <2>4
  <1> HIDE DEF T
  <1>3. Nat \subseteq T
    BY <1>1, <1>2, SetInduction
  <1> QED
    BY <1>3 DEF T

\* What it makes of the first elements depends on them alone.
LEMMA FlatSame ==
    ASSUME NEW ss, NEW tt, NEW n \in Nat, NEW m \in Nat, n <= m, \A i \in 1..n : ss[i] = tt[i],
           NEW g, IsFlat(g, ss, n), NEW h, IsFlat(h, tt, m)
    PROVE  \A i \in 1..n : g[i] = h[i]
  <1> DEFINE T == {i \in Nat : i \in 1..n => g[i] = h[i]}
  <1>1. 0 \in T
    OBVIOUS
  <1>2. ASSUME NEW i \in Nat, i \in T
        PROVE  i + 1 \in T
    <2> SUFFICES ASSUME i + 1 \in 1..n
                 PROVE  g[i + 1] = h[i + 1]
      OBVIOUS
    <2>1. i + 1 \in 1..m /\ (i + 1) - 1 = i /\ ss[i + 1] = tt[i + 1]
      OBVIOUS
    <2>2. /\ g[i + 1] = IF i + 1 = 1 THEN ss[i + 1] ELSE Cat(g[(i + 1) - 1], ss[i + 1])
          /\ h[i + 1] = IF i + 1 = 1 THEN tt[i + 1] ELSE Cat(h[(i + 1) - 1], tt[i + 1])
      BY <2>1, FlatUnfold
    <2>3. i = 0 \/ g[i] = h[i]
      BY <1>2
    <2> QED
      BY <2>1, <2>2, <2>3
  <1> HIDE DEF T
  <1>3. Nat \subseteq T
    BY <1>1, <1>2, SetInduction
  <1> QED
    BY <1>3 DEF T

\* It is the one FlattenSeq chooses.
LEMMA FlatChosen ==
    ASSUME NEW ss, Len(ss) \in Nat \ {0}
    PROVE  \E g : IsFlat(g, ss, Len(ss)) /\ FlattenSeq(ss) = g[Len(ss)]
  <1> DEFINE f == CHOOSE g : g = [i \in 1..Len(ss) |-> IF i = 1 THEN ss[i] ELSE g[i - 1] \o ss[i]]
  <1>1. IsFlat(f, ss, Len(ss))
    BY FlatExists DEF IsFlat
  <1>2. FlattenSeq(ss) = f[Len(ss)]
    BY DEF FlattenSeq
  <1> QED
    BY <1>1, <1>2

\* Of no sequences.
LEMMA FlattenEmpty == FlattenSeq(<<>>) = <<>>
  BY DEF FlattenSeq

\* Flattening one sequence more, behind at least one.
LEMMA FlattenNext ==
    ASSUME NEW n \in Nat \ {0}, NEW ss, NEW tt, Len(ss) = n, Len(tt) = n + 1,
           \A i \in 1..n : ss[i] = tt[i]
    PROVE  FlattenSeq(tt) = Cat(FlattenSeq(ss), tt[n + 1])
  <1>1. PICK m \in Nat : m = n + 1
    OBVIOUS
  <1>2. n \in Nat /\ n <= m /\ m \in 1..m /\ n \in 1..n /\ m # 1 /\ m - 1 = n
    BY <1>1
  <1>3. PICK h : IsFlat(h, tt, m) /\ FlattenSeq(tt) = h[m]
    BY <1>1, FlatChosen
  <1>4. PICK g : IsFlat(g, ss, n) /\ FlattenSeq(ss) = g[n]
    BY FlatChosen
  <1>5. \A i \in 1..n : g[i] = h[i]
    <2>1. \A i \in 1..n : ss[i] = tt[i]
      OBVIOUS
    <2> QED
      BY ONLY <1>2, <1>3, <1>4, <2>1, FlatSame
  <1>6. h[m] = IF m = 1 THEN tt[m] ELSE Cat(h[m - 1], tt[m])
    BY <1>2, <1>3, FlatUnfold
  <1> QED
    BY <1>1, <1>2, <1>3, <1>4, <1>5, <1>6

\* Flattening one sequence more.
LEMMA FlattenLast ==
    ASSUME NEW S, NEW ss \in Seq(Seq(S)), NEW tt \in Seq(Seq(S)),
           Len(tt) = Len(ss) + 1, \A i \in 1..Len(ss) : tt[i] = ss[i]
    PROVE  FlattenSeq(tt) = Cat(FlattenSeq(ss), tt[Len(tt)])
  <1>1. CASE ss = <<>>
    <2>2. Len(tt) = 1 /\ tt[1] \in Seq(S)
      BY <1>1
    <2>1. PICK h : IsFlat(h, tt, 1) /\ FlattenSeq(tt) = h[1]
      BY <2>2, FlatChosen
    <2>3. h[1] = tt[1]
      BY <2>1, <2>2 DEF IsFlat
    <2>4. FlattenSeq(ss) = <<>>
      BY <1>1, FlattenEmpty
    <2> QED
      BY <2>1, <2>2, <2>3, <2>4, ConcatEmptySeq DEF Cat
  <1>2. CASE ss # <<>>
    <2>1. Len(ss) \in Nat \ {0}
      BY <1>2, EmptySeq
    <2> QED
      BY <2>1, FlattenNext
  <1> QED
    BY <1>1, <1>2

\* The result is a sequence of the same elements.
LEMMA FlattenType ==
    ASSUME NEW S, NEW ss \in Seq(Seq(S))
    PROVE  FlattenSeq(ss) \in Seq(S)
  <1> DEFINE T == {n \in Nat : \A tt \in Seq(Seq(S)) : Len(tt) = n => FlattenSeq(tt) \in Seq(S)}
  <1>1. 0 \in T
    BY FlattenEmpty, EmptySeq
  <1>2. ASSUME NEW n \in Nat, n \in T
        PROVE  n + 1 \in T
    <2> SUFFICES ASSUME NEW tt \in Seq(Seq(S)), Len(tt) = n + 1
                 PROVE  FlattenSeq(tt) \in Seq(S)
      OBVIOUS
    <2> DEFINE uu == SubSeq(tt, 1, n)
    <2>1. uu \in Seq(Seq(S)) /\ Len(uu) = n /\ \A i \in 1..n : tt[i] = uu[i]
      OBVIOUS
    <2>2. FlattenSeq(tt) = Cat(FlattenSeq(uu), tt[n + 1])
      BY <2>1, FlattenLast
    <2>3. FlattenSeq(uu) \in Seq(S)
      BY <1>2, <2>1
    <2> QED
      BY <2>2, <2>3, ConcatProperties DEF Cat
  <1> HIDE DEF T
  <1>3. Nat \subseteq T
    BY <1>1, <1>2, SetInduction
  <1> QED
    BY <1>3 DEF T

\* The k-th sequence comes behind those before it.
LEMMA FlattenStep ==
    ASSUME NEW S, NEW ss \in Seq(Seq(S)), NEW k \in 1..Len(ss)
    PROVE  /\ SubSeq(ss, 1, k) \in Seq(Seq(S))
           /\ FlattenSeq(SubSeq(ss, 1, k)) = Cat(FlattenSeq(SubSeq(ss, 1, k - 1)), ss[k])
  <1>1. /\ SubSeq(ss, 1, k) \in Seq(Seq(S)) /\ SubSeq(ss, 1, k - 1) \in Seq(Seq(S))
        /\ Len(SubSeq(ss, 1, k)) = k /\ Len(SubSeq(ss, 1, k - 1)) = k - 1
        /\ \A i \in 1..k : SubSeq(ss, 1, k)[i] = ss[i]
        /\ \A i \in 1..(k - 1) : SubSeq(ss, 1, k - 1)[i] = ss[i]
    OBVIOUS
  <1> DEFINE tt == SubSeq(ss, 1, k)  uu == SubSeq(ss, 1, k - 1)
  <1>2. Len(tt) = Len(uu) + 1 /\ \A i \in 1..Len(uu) : tt[i] = uu[i]
    BY <1>1
  <1>3. tt \in Seq(Seq(S)) /\ uu \in Seq(Seq(S)) /\ tt[Len(tt)] = ss[k]
    BY <1>1
  <1> HIDE DEF tt, uu
  <1>4. FlattenSeq(tt) = Cat(FlattenSeq(uu), tt[Len(tt)])
    BY <1>2, <1>3, FlattenLast
  <1> QED
    BY <1>3, <1>4 DEF tt, uu
=============================================================================
