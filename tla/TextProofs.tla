----------------------------- MODULE TextProofs -----------------------------
(***************************************************************************)
(* Theorems of Formats about texts that are written: json_spirit reads     *)
(* what it has written, other programs understand its strings and it theirs,*)
(* and the messages and the answers arrive.                                *)
(***************************************************************************)
EXTENDS ReaderProofs

-----------------------------------------------------------------------------
\* Where the k-th sequence is in the flattened ones.
LEMMA FlattenAll ==
    ASSUME NEW S, NEW ss \in Seq(Seq(S))
    PROVE  FlattenSeq(SubSeq(ss, 1, Len(ss))) = FlattenSeq(ss)
  <1>1. SubSeq(ss, 1, Len(ss)) = ss
    OBVIOUS
  <1> QED
    BY <1>1

\* The number of elements of the first n sequences.
Before(ss, n) == Len(FlattenSeq(SubSeq(ss, 1, n)))

\* The first sequences flattened are where all begin.
LEMMA FlattenPrefix ==
    ASSUME NEW S, NEW ss \in Seq(Seq(S)), NEW n \in 0..Len(ss)
    PROVE  /\ Before(ss, n) \in Nat /\ Before(ss, n) <= Len(FlattenSeq(ss))
           /\ \A i \in 1..Before(ss, n) : FlattenSeq(ss)[i] = FlattenSeq(SubSeq(ss, 1, n))[i]
  <1> DEFINE F(k) == FlattenSeq(SubSeq(ss, 1, k))
             T == {d \in Nat : d <= Len(ss) - n =>
                       /\ Len(F(n)) <= Len(F(n + d))
                       /\ \A i \in 1..Len(F(n)) : F(n + d)[i] = F(n)[i]}
  <1>1. \A k \in 0..Len(ss) : F(k) \in Seq(S)
    <2> TAKE k \in 0..Len(ss)
    <2>1. SubSeq(ss, 1, k) \in Seq(Seq(S))
      OBVIOUS
    <2> QED
      BY <2>1, FlattenType
  <1>2. \A k \in 1..Len(ss) : F(k) = Cat(F(k - 1), ss[k])
    BY FlattenStep
  <1>3. Len(ss) \in Nat /\ \A k \in 1..Len(ss) : ss[k] \in Seq(S)
    BY ElementOfSeq
  <1>4. F(Len(ss)) = FlattenSeq(ss)
    BY FlattenAll
  <1> HIDE DEF F
  <1>5. 0 \in T
    <2>1. n + 0 = n /\ Len(F(n)) \in Nat
      BY <1>1, LenProperties
    <2> QED
      BY <2>1
  <1>6. ASSUME NEW d \in Nat, d \in T
        PROVE  d + 1 \in T
    <2> SUFFICES ASSUME d + 1 <= Len(ss) - n
                 PROVE  /\ Len(F(n)) <= Len(F(n + (d + 1)))
                        /\ \A i \in 1..Len(F(n)) : F(n + (d + 1))[i] = F(n)[i]
      OBVIOUS
    <2>1. PICK k \in 1..Len(ss) : k = n + (d + 1) /\ k - 1 = n + d /\ k - 1 \in 0..Len(ss)
      BY <1>3
    <2>2. F(k) = Cat(F(k - 1), ss[k]) /\ F(k - 1) \in Seq(S) /\ ss[k] \in Seq(S)
      BY <1>1, <1>2, <1>3, <2>1
    <2>3. /\ Len(F(n)) <= Len(F(k - 1)) /\ Len(F(n)) \in Nat
          /\ \A i \in 1..Len(F(n)) : F(k - 1)[i] = F(n)[i]
      BY <1>1, <1>6, <2>1, LenProperties
    <2>4. PICK a \in Seq(S), b \in Seq(S) : a = F(k - 1) /\ b = ss[k]
      BY <2>2
    <2> DEFINE c == F(k)
    <2>5. c = a \o b
      BY <2>2, <2>4 DEF Cat
    <2> HIDE DEF c
    <2>6. Len(c) = Len(a) + Len(b) /\ \A i \in 1..Len(a) : c[i] = a[i]
      BY <2>5
    <2>7. F(n + (d + 1)) = c
      BY <2>1 DEF c
    <2>8. Len(F(n)) <= Len(a) /\ \A i \in 1..Len(F(n)) : a[i] = F(n)[i] /\ i \in 1..Len(a)
      BY <2>3, <2>4
    <2>9. Len(F(n)) <= Len(c) /\ \A i \in 1..Len(F(n)) : c[i] = F(n)[i]
      <3>1. Len(a) \in Nat /\ Len(c) \in Nat /\ Len(a) <= Len(c)
        BY <2>6
      <3>2. \A i \in 1..Len(F(n)) : c[i] = F(n)[i]
        <4> TAKE i \in 1..Len(F(n))
        <4>1. a[i] = F(n)[i] /\ i \in 1..Len(a)
          BY <2>8
        <4>2. c[i] = a[i]
          BY <2>6, <4>1
        <4> QED
          BY <4>1, <4>2
      <3>3. Len(F(n)) <= Len(c)
        BY <2>3, <2>8, <3>1
      <3> QED
        BY <3>2, <3>3
    <2> QED
      BY <2>7, <2>9
  <1> HIDE DEF T
  <1>7. Nat \subseteq T
    BY <1>5, <1>6, SetInduction
  <1>8. Len(ss) - n \in Nat /\ n + (Len(ss) - n) = Len(ss)
    BY <1>3
  <1>9. /\ Len(F(n)) <= Len(F(Len(ss)))
        /\ \A i \in 1..Len(F(n)) : F(Len(ss))[i] = F(n)[i]
    <2>1. PICK d \in Nat : d = Len(ss) - n
      BY <1>8
    <2>2. d \in T /\ d <= Len(ss) - n
      BY <1>7, <2>1
    <2>3. /\ Len(F(n)) <= Len(F(n + d))
          /\ \A i \in 1..Len(F(n)) : F(n + d)[i] = F(n)[i]
      BY <2>2 DEF T
    <2>4. n + d = Len(ss)
      BY <1>8, <2>1
    <2> QED
      BY <2>3, <2>4
  <1>10. Len(F(n)) \in Nat
    BY <1>1, LenProperties
  <1> QED
    BY <1>4, <1>9, <1>10 DEF Before, F

LEMMA FlattenPlace ==
    ASSUME NEW S, NEW ss \in Seq(Seq(S)), NEW k \in 1..Len(ss)
    PROVE  /\ Before(ss, k) = Before(ss, k - 1) + Len(ss[k])
           /\ \A i \in 1..Len(ss[k]) : FlattenSeq(ss)[Before(ss, k - 1) + i] = ss[k][i]
  <1>1. k \in 0..Len(ss) /\ k - 1 \in 0..Len(ss) /\ ss[k] \in Seq(S)
    OBVIOUS
  <1>2. PICK a : a = FlattenSeq(SubSeq(ss, 1, k - 1))
    OBVIOUS
  <1>3. PICK c : c = FlattenSeq(SubSeq(ss, 1, k))
    OBVIOUS
  <1>4. PICK b \in Seq(S) : b = ss[k]
    BY <1>1
  <1>5. a \in Seq(S)
    <2>1. SubSeq(ss, 1, k - 1) \in Seq(Seq(S))
      BY <1>1
    <2> QED
      BY <1>2, <2>1, FlattenType
  <1>6. c = a \o b
    BY <1>2, <1>3, <1>4, FlattenStep DEF Cat
  <1>7. Len(c) = Len(a) + Len(b) /\ \A i \in 1..Len(b) : c[Len(a) + i] = b[i]
    BY <1>5, <1>6
  <1>8. Before(ss, k) = Len(c) /\ Before(ss, k - 1) = Len(a)
    BY <1>2, <1>3 DEF Before
  <1>9. \A i \in 1..Len(c) : FlattenSeq(ss)[i] = c[i]
    BY <1>1, <1>3, <1>8, FlattenPrefix
  <1>10. \A i \in 1..Len(b) : Len(a) + i \in 1..Len(c)
    BY <1>5, <1>7
  <1> QED
    BY <1>4, <1>7, <1>8, <1>9, <1>10

-----------------------------------------------------------------------------
\* Escapes.

\* The short escapes.
LEMMA ShortEscapes ==
    /\ DOMAIN ShortEscape = {8, 9, 10, 12, 13, 34, 92}
    /\ ShortEscape[8] = 98 /\ ShortEscape[9] = 116 /\ ShortEscape[10] = 110 /\ ShortEscape[12] = 102
    /\ ShortEscape[13] = 114 /\ ShortEscape[34] = 34 /\ ShortEscape[92] = 92
  BY DEF ShortEscape, QuoteMark, Backslash

\* A short escape is read back.
LEMMA ShortIsRead ==
    ASSUME NEW s, NEW k, NEW c \in DOMAIN ShortEscape, s[k] = ShortEscape[c]
    PROVE  EscapeAt(s, k) = [chars |-> <<c>>, next |-> k + 1]
  <1> DEFINE short == {b \in DOMAIN ShortEscape : ShortEscape[b] = s[k]} \cup {b \in {Slash} : s[k] = Slash}
  <1>1. short = {c}
    BY ShortEscapes DEF Slash
  <1>2. (CHOOSE b \in short : TRUE) = c
    BY <1>1
  <1>3. short # {}
    BY <1>1
  <1> QED
    BY <1>2, <1>3 DEF EscapeAt

HexDigits(c) == <<ToHexChar((c \div 4096) % 16), ToHexChar((c \div 256) % 16),
                  ToHexChar((c \div 16) % 16), ToHexChar(c % 16)>>

\* The digits of a byte: two zeros and its halves.
LEMMA DigitsOf ==
    ASSUME NEW c \in Nat, c < 256
    PROVE  \E h, l \in Nat : /\ h < 16 /\ l < 16 /\ 16 * h + l = c
                             /\ HexDigits(c) = <<ToHexChar(0), ToHexChar(0), ToHexChar(h), ToHexChar(l)>>
  <1>1. PICK h \in Nat : h = c \div 16 /\ h < 16
    OBVIOUS
  <1>2. PICK l \in Nat : l = c % 16 /\ l < 16
    OBVIOUS
  <1>3. 16 * h + l = c
    BY <1>1, <1>2
  <1>4. (c \div 4096) % 16 = 0 /\ (c \div 256) % 16 = 0 /\ (c \div 16) % 16 = h
    BY <1>1
  <1>5. HexDigits(c) = <<ToHexChar(0), ToHexChar(0), ToHexChar(h), ToHexChar(l)>>
    BY <1>2, <1>4 DEF HexDigits
  <1> QED
    BY <1>1, <1>2, <1>3, <1>5

LEMMA HexRead ==
    ASSUME NEW d \in Nat, d < 16
    PROVE  HexToNum(ToHexChar(d)) = d /\ ToHexChar(d) \in Nat
  BY DEF HexToNum, ToHexChar

\* Two digits stand for their number.
LEMMA PairRead ==
    ASSUME NEW h \in Nat, NEW l \in Nat, h < 16, l < 16, NEW d, NEW k,
           d[k] = ToHexChar(h), d[k + 1] = ToHexChar(l)
    PROVE  HexPair(d, k) = 16 * h + l
  <1>1. HexToNum(d[k]) = h /\ HexToNum(d[k + 1]) = l
    BY HexRead
  <1> QED
    BY <1>1 DEF HexPair

\* The four digits of a byte are read as the byte.
LEMMA DigitsRead ==
    ASSUME NEW h \in Nat, NEW l \in Nat, h < 16, l < 16, NEW d, Len(d) = 4,
           d[1] = ToHexChar(0), d[2] = ToHexChar(0), d[3] = ToHexChar(h), d[4] = ToHexChar(l)
    PROVE  HexToChar(d) = 16 * h + l
  <1>1. PICK z \in Nat : z = 0
    OBVIOUS
  <1>2. HexPair(d, 1) = 16 * z + z
    <2>1. z < 16 /\ d[1] = ToHexChar(z) /\ d[1 + 1] = ToHexChar(z)
      BY <1>1
    <2> QED
      BY <2>1, PairRead
  <1>3. HexPair(d, 3) = 16 * h + l
    <2>1. d[3] = ToHexChar(h) /\ d[3 + 1] = ToHexChar(l)
      OBVIOUS
    <2> QED
      BY <2>1, PairRead
  <1>4. HexToChar(d) = (256 * HexPair(d, 1) + HexPair(d, 3)) % 256
    BY DEF HexToChar
  <1>5. HexPair(d, 1) = 0
    BY <1>1, <1>2
  <1>6. PICK c \in Nat : c = 16 * h + l /\ c < 256
    OBVIOUS
  <1>7. HexToChar(d) = (256 * 0 + c) % 256
    BY <1>3, <1>4, <1>5, <1>6
  <1> QED
    BY <1>6, <1>7

\* Four characters cut out of a string.
LEMMA FourCut ==
    ASSUME NEW s \in Seq(Nat), NEW m \in Nat, NEW n \in Nat, m > 0, n = m + 3, n <= Len(s)
    PROVE  /\ Len(SubSeq(s, m, n)) = 4
           /\ SubSeq(s, m, n)[1] = s[m] /\ SubSeq(s, m, n)[2] = s[m + 1]
           /\ SubSeq(s, m, n)[3] = s[m + 2] /\ SubSeq(s, m, n)[4] = s[m + 3]
  <1>1. /\ Len(SubSeq(s, m, n)) = IF m <= n THEN n - m + 1 ELSE 0
        /\ \A i \in 1..(n - m + 1) : SubSeq(s, m, n)[i] = s[m + i - 1]
    <2>1. \A i \in m..n : s[i] \in Nat
      OBVIOUS
    <2>2. m \in Int /\ n \in Int
      OBVIOUS
    <2> QED
      BY ONLY <2>1, <2>2, SubSeqProperties
  <1>2. n - m + 1 = 4 /\ m <= n
    OBVIOUS
  <1>3. \A i \in 1..4 : SubSeq(s, m, n)[i] = s[m + i - 1]
    BY <1>1, <1>2
  <1>4. 1 \in 1..4 /\ 2 \in 1..4 /\ 3 \in 1..4 /\ 4 \in 1..4
    OBVIOUS
  <1>5. m + 1 - 1 = m /\ m + 2 - 1 = m + 1 /\ m + 3 - 1 = m + 2 /\ m + 4 - 1 = m + 3
    OBVIOUS
  <1>6. Len(SubSeq(s, m, n)) = 4
    BY <1>1, <1>2
  <1> QED
    BY <1>3, <1>4, <1>5, <1>6, Zenon

\* How many digits follow the letter.
DigitsAfter(x) == IF x = LetterX THEN 2 ELSE IF x = LetterU THEN 4 ELSE 0

\* The letter stands for no character of its own.
LEMMA EscapeCases ==
    ASSUME NEW s, NEW k, k + DigitsAfter(s[k]) <= Len(s), DigitsAfter(s[k]) > 0
    PROVE  EscapeAt(s, k) = [chars |-> <<HexToChar(SubSeq(s, k + 1, k + DigitsAfter(s[k])))>>,
                             next |-> k + DigitsAfter(s[k]) + 1]
  <1> DEFINE short == {b \in DOMAIN ShortEscape : ShortEscape[b] = s[k]} \cup {b \in {Slash} : s[k] = Slash}
             digits == CASE s[k] = LetterX -> 2 [] s[k] = LetterU -> 4 [] OTHER -> 0
  <1>1. s[k] \in {117, 120}
    BY DEF DigitsAfter, LetterU, LetterX
  <1>2. short = {}
    BY <1>1, ShortEscapes DEF Slash
  <1>3. digits = DigitsAfter(s[k])
    BY DEF LetterU, LetterX, DigitsAfter
  <1>4. EscapeAt(s, k) = IF digits > 0 /\ k + digits <= Len(s)
                         THEN [chars |-> <<HexToChar(SubSeq(s, k + 1, k + digits))>>, next |-> k + digits + 1]
                         ELSE [chars |-> <<>>, next |-> k + 1]
    BY <1>2 DEF EscapeAt
  <1> HIDE DEF digits
  <1> QED
    BY <1>3, <1>4

\* A byte of four hexadecimal digits is read back.
LEMMA HexIsRead ==
    ASSUME NEW s \in Seq(Nat), NEW k \in Nat, NEW c \in Nat, c < 256, k > 0, s[k] = LetterU, k + 4 <= Len(s),
           s[k + 1] = HexDigits(c)[1], s[k + 2] = HexDigits(c)[2],
           s[k + 3] = HexDigits(c)[3], s[k + 4] = HexDigits(c)[4]
    PROVE  EscapeAt(s, k) = [chars |-> <<c>>, next |-> k + 5]
  <1>1. PICK d : d = SubSeq(s, k + 1, k + 4)
    OBVIOUS
  <1>2. Len(d) = 4 /\ d[1] = s[k + 1] /\ d[2] = s[k + 2] /\ d[3] = s[k + 3] /\ d[4] = s[k + 4]
    <2>1. PICK m \in Nat : m = k + 1
      OBVIOUS
    <2>2. PICK n \in Nat : n = k + 4
      OBVIOUS
    <2>3. m + 1 = k + 2 /\ m + 2 = k + 3 /\ m + 3 = k + 4 /\ m > 0 /\ n = m + 3 /\ n <= Len(s)
      BY <2>1, <2>2
    <2>4. /\ Len(SubSeq(s, m, n)) = 4
          /\ SubSeq(s, m, n)[1] = s[m] /\ SubSeq(s, m, n)[2] = s[m + 1]
          /\ SubSeq(s, m, n)[3] = s[m + 2] /\ SubSeq(s, m, n)[4] = s[m + 3]
      BY <2>3, FourCut
    <2> QED
      BY <1>1, <2>1, <2>2, <2>3, <2>4, Zenon
  <1>3. PICK h \in Nat : \E l \in Nat :
          /\ h < 16 /\ l < 16 /\ 16 * h + l = c
          /\ HexDigits(c) = <<ToHexChar(0), ToHexChar(0), ToHexChar(h), ToHexChar(l)>>
    BY DigitsOf
  <1>4. PICK l \in Nat : /\ h < 16 /\ l < 16 /\ 16 * h + l = c
                         /\ HexDigits(c) = <<ToHexChar(0), ToHexChar(0), ToHexChar(h), ToHexChar(l)>>
    BY <1>3
  <1>5. d[1] = ToHexChar(0) /\ d[2] = ToHexChar(0) /\ d[3] = ToHexChar(h) /\ d[4] = ToHexChar(l)
    BY <1>2, <1>4
  <1>6. HexToChar(d) = c
    BY <1>2, <1>4, <1>5, DigitsRead
  <1>7. DigitsAfter(s[k]) = 4
    BY DEF DigitsAfter, LetterU, LetterX
  <1>8. EscapeAt(s, k) = [chars |-> <<HexToChar(SubSeq(s, k + 1, k + 4))>>, next |-> k + 4 + 1]
    <2>1. k + DigitsAfter(s[k]) <= Len(s) /\ DigitsAfter(s[k]) > 0
      BY <1>7
    <2>2. EscapeAt(s, k) = [chars |-> <<HexToChar(SubSeq(s, k + 1, k + DigitsAfter(s[k])))>>,
                            next |-> k + DigitsAfter(s[k]) + 1]
      BY <2>1, EscapeCases, Zenon
    <2> QED
      BY <1>7, <2>2
  <1>9. k + 4 + 1 = k + 5
    OBVIOUS
  <1> QED
    BY <1>1, <1>6, <1>8, <1>9

\* Where the string goes on after an escape.
LEMMA EscapeGoesOn ==
    ASSUME NEW s \in Seq(Nat), NEW k \in 1..Len(s)
    PROVE  EscapeAt(s, k).next \in (k + 1)..(Len(s) + 1)
  <1> DEFINE short == {b \in DOMAIN ShortEscape : ShortEscape[b] = s[k]} \cup {b \in {Slash} : s[k] = Slash}
             digits == CASE s[k] = LetterX -> 2 [] s[k] = LetterU -> 4 [] OTHER -> 0
  <1>1. digits \in {0, 2, 4}
    BY DEF LetterX, LetterU
  <1>2. EscapeAt(s, k).next = IF short # {} THEN k + 1
                              ELSE IF digits > 0 /\ k + digits <= Len(s) THEN k + digits + 1 ELSE k + 1
    BY DEF EscapeAt
  <1> HIDE DEF short, digits
  <1> QED
    BY <1>1, <1>2

-----------------------------------------------------------------------------
\* substitute_esc_chars.

\* What becomes of the last n characters, where g is what becomes of fewer.
SubstituteStep(s, n, g) ==
    LET i == Len(s) - n + 1
        e == EscapeAt(s, i + 1)
    IN  IF n < 2 THEN SubSeq(s, i, Len(s))
        ELSE IF s[i] = Backslash THEN e.chars \o g[Len(s) + 1 - e.next]
        ELSE <<s[i]>> \o g[n - 1]

IsSubstitute(g, s, n) == g = [k \in 0..n |-> SubstituteStep(s, k, g)]

LEMMA SubstituteUses ==
    ASSUME NEW s \in Seq(Nat), NEW n \in 0..Len(s), NEW g, NEW h,
           \A k \in 0..(n - 1) : g[k] = h[k]
    PROVE  SubstituteStep(s, n, g) = SubstituteStep(s, n, h)
  <1>1. CASE n < 2
    BY <1>1 DEF SubstituteStep
  <1>2. CASE n >= 2
    <2> DEFINE i == Len(s) - n + 1
               k == i + 1
    <2>1. i \in 1..Len(s) /\ k \in 1..Len(s) /\ i = Len(s) - n + 1 /\ k = i + 1 /\ Len(s) \in Nat
      BY <1>2
    <2>2. PICK e : e = EscapeAt(s, k)
      OBVIOUS
    <2> HIDE DEF i, k
    <2>3. Len(s) + 1 - e.next \in 0..(n - 1)
      <3>1. e.next \in (k + 1)..(Len(s) + 1)
        BY <2>1, <2>2, EscapeGoesOn
      <3> QED
        BY <2>1, <3>1
    <2>4. PICK a : a = g[Len(s) + 1 - e.next]
      OBVIOUS
    <2>5. a = h[Len(s) + 1 - e.next]
      BY <2>3, <2>4
    <2>6. PICK b : b = g[n - 1]
      OBVIOUS
    <2>7. b = h[n - 1]
      BY <1>2, <2>6
    <2>8. /\ SubstituteStep(s, n, g) = IF s[i] = Backslash THEN e.chars \o a ELSE <<s[i]>> \o b
          /\ SubstituteStep(s, n, h) = IF s[i] = Backslash THEN e.chars \o a ELSE <<s[i]>> \o b
      <3>1. ~(n < 2)
        BY <1>2
      <3> QED
        BY <3>1, <2>2, <2>4, <2>5, <2>6, <2>7, Zenon DEF SubstituteStep, i, k
    <2> QED
      BY <2>8
  <1> QED
    BY <1>1, <1>2

LEMMA SubstituteExists == \A s \in Seq(Nat) : \E g : IsSubstitute(g, s, Len(s))
  <1> TAKE s \in Seq(Nat)
  <1> DEFINE T == {n \in Nat : n <= Len(s) => \E g : IsSubstitute(g, s, n)}
  <1>1. 0 \in T
    <2> DEFINE h == [k \in 0..0 |-> SubstituteStep(s, 0, <<>>)]
    <2>1. \A g : SubstituteStep(s, 0, g) = SubstituteStep(s, 0, <<>>)
      <3>1. 0 \in 0..Len(s)
        OBVIOUS
      <3>2. 0..(0 - 1) = {}
        OBVIOUS
      <3> QED
        BY <3>1, <3>2, SubstituteUses
    <2>2. \A k \in 0..0 : h[k] = SubstituteStep(s, k, h)
      <3> HIDE DEF h
      <3>1. h[0] = SubstituteStep(s, 0, <<>>)
        BY DEF h
      <3> QED
        BY <2>1, <3>1
    <2>3. h = [k \in 0..0 |-> h[k]]
      OBVIOUS
    <2> HIDE DEF h
    <2>4. IsSubstitute(h, s, 0)
      BY <2>2, <2>3 DEF IsSubstitute
    <2> QED
      BY <2>4
  <1>2. ASSUME NEW n \in Nat, n \in T
        PROVE  n + 1 \in T
    <2> SUFFICES ASSUME n + 1 <= Len(s)
                 PROVE  \E g : IsSubstitute(g, s, n + 1)
      OBVIOUS
    <2>1. PICK g : IsSubstitute(g, s, n)
      BY <1>2
    <2>2. \A k \in 0..n : g[k] = SubstituteStep(s, k, g)
      BY <2>1 DEF IsSubstitute
    <2> DEFINE h == [k \in 0..(n + 1) |-> IF k = n + 1 THEN SubstituteStep(s, n + 1, g) ELSE g[k]]
    <2>3. \A k \in 0..n : h[k] = g[k]
      OBVIOUS
    <2>4. h[n + 1] = SubstituteStep(s, n + 1, g)
      OBVIOUS
    <2>5. h = [k \in 0..(n + 1) |-> h[k]]
      OBVIOUS
    <2> HIDE DEF h
    <2>6. ASSUME NEW k \in 0..(n + 1)
          PROVE  h[k] = SubstituteStep(s, k, h)
      <3>1. k \in 0..Len(s)
        OBVIOUS
      <3>2. \A j \in 0..(k - 1) : g[j] = h[j]
        BY <2>3
      <3>3. SubstituteStep(s, k, g) = SubstituteStep(s, k, h)
        BY <3>1, <3>2, SubstituteUses
      <3> QED
        BY <2>2, <2>3, <2>4, <3>3
    <2>7. IsSubstitute(h, s, n + 1)
      BY <2>5, <2>6 DEF IsSubstitute
    <2> QED
      BY <2>7
  <1> HIDE DEF T
  <1>3. Nat \subseteq T
    BY <1>1, <1>2, SetInduction
  <1> QED
    BY <1>3 DEF T

\* GetStr is what its own recursion makes of the whole string.
LEMMA SubstituteChosen ==
    ASSUME NEW s \in Seq(Nat)
    PROVE  \E g : /\ GetStr(s) = g[Len(s)]
                  /\ \A n \in 0..Len(s) : g[n] = SubstituteStep(s, n, g)
  <1> DEFINE f == CHOOSE g : g = [n \in 0..Len(s) |->
                    LET i == Len(s) - n + 1
                        e == EscapeAt(s, i + 1)
                    IN  IF n < 2 THEN SubSeq(s, i, Len(s))
                        ELSE IF s[i] = Backslash THEN e.chars \o g[Len(s) + 1 - e.next]
                        ELSE <<s[i]>> \o g[n - 1]]
  <1>1. f = CHOOSE g : IsSubstitute(g, s, Len(s))
    BY DEF IsSubstitute, SubstituteStep
  <1>2. GetStr(s) = f[Len(s)]
    BY DEF GetStr, SubstituteEscChars
  <1> HIDE DEF f
  <1>3. IsSubstitute(f, s, Len(s))
    BY <1>1, SubstituteExists
  <1>4. \A n \in 0..Len(s) : f[n] = SubstituteStep(s, n, f)
    BY <1>3 DEF IsSubstitute
  <1> QED
    BY <1>2, <1>4

\* The characters a character is written as.
LEMMA EscapeKinds ==
    ASSUME NEW c, NEW o, c \in Nat
    PROVE  \/ c \in DOMAIN ShortEscape /\ Escape(c, o) = <<Backslash, ShortEscape[c]>>
           \/ c # Backslash /\ Escape(c, o) = <<c>> /\ c \notin DOMAIN ShortEscape
                /\ (o.raw_utf8 \/ c >= 256 \/ c \in o.printable)
           \/ c < 256 /\ Escape(c, o) = NonPrintable(c)
  <1>1. Backslash \in DOMAIN ShortEscape
    BY ShortEscapes DEF Backslash
  <1>2. CASE c \in DOMAIN ShortEscape
    BY <1>2 DEF Escape
  <1>3. CASE c \notin DOMAIN ShortEscape /\ (o.raw_utf8 \/ c >= 256 \/ (c \in o.printable /\ ~o.esc_nonascii))
    <2>1. Escape(c, o) = <<c>>
      BY <1>3 DEF Escape
    <2> QED
      BY <1>1, <1>3, <2>1
  <1>4. CASE c \notin DOMAIN ShortEscape /\ ~(o.raw_utf8 \/ c >= 256 \/ (c \in o.printable /\ ~o.esc_nonascii))
    <2>1. Escape(c, o) = NonPrintable(c)
      BY <1>4 DEF Escape
    <2>2. c < 256
      BY <1>4
    <2> QED
      BY <2>1, <2>2
  <1> QED
    BY <1>2, <1>3, <1>4

LEMMA OneCut ==
    ASSUME NEW s \in Seq(Nat), NEW i \in 1..Len(s)
    PROVE  SubSeq(s, i, i) = <<s[i]>>
  <1>1. /\ Len(SubSeq(s, i, i)) = 1 /\ SubSeq(s, i, i) \in Seq(Nat)
        /\ SubSeq(s, i, i)[1] = s[i]
    OBVIOUS
  <1>2. PICK d \in Seq(Nat) : d = SubSeq(s, i, i)
    BY <1>1
  <1>3. Len(d) = 1 /\ d[1] = s[i]
    BY <1>1, <1>2
  <1> HIDE <1>1
  <1>4. d = <<d[1]>>
    BY <1>3
  <1> QED
    BY <1>2, <1>3, <1>4

\* An escaped byte: its six characters.
LEMMA SixCharacters ==
    ASSUME NEW c, c \in Nat, c < 256
    PROVE  /\ NonPrintable(c) \in Seq(Nat) /\ Len(NonPrintable(c)) = 6
           /\ NonPrintable(c)[1] = Backslash /\ NonPrintable(c)[2] = LetterU
           /\ NonPrintable(c)[3] = HexDigits(c)[1] /\ NonPrintable(c)[4] = HexDigits(c)[2]
           /\ NonPrintable(c)[5] = HexDigits(c)[3] /\ NonPrintable(c)[6] = HexDigits(c)[4]
  <1>1. PICK h \in Nat : \E l \in Nat :
          /\ h < 16 /\ l < 16 /\ 16 * h + l = c
          /\ HexDigits(c) = <<ToHexChar(0), ToHexChar(0), ToHexChar(h), ToHexChar(l)>>
    BY DigitsOf
  <1>2. PICK l \in Nat : /\ h < 16 /\ l < 16 /\ 16 * h + l = c
                         /\ HexDigits(c) = <<ToHexChar(0), ToHexChar(0), ToHexChar(h), ToHexChar(l)>>
    BY <1>1
  <1>3. ToHexChar(0) \in Nat /\ ToHexChar(h) \in Nat /\ ToHexChar(l) \in Nat
    BY <1>2, HexRead
  <1>4. HexDigits(c)[1] \in Nat /\ HexDigits(c)[2] \in Nat /\ HexDigits(c)[3] \in Nat /\ HexDigits(c)[4] \in Nat
    BY <1>2, <1>3
  <1>5. NonPrintable(c) = <<Backslash, LetterU, HexDigits(c)[1], HexDigits(c)[2], HexDigits(c)[3], HexDigits(c)[4]>>
    BY DEF NonPrintable, HexDigits
  <1>6. Backslash \in Nat /\ LetterU \in Nat
    BY DEF Backslash, LetterU
  <1> QED
    BY <1>4, <1>5, <1>6

LEMMA EscapeType ==
    ASSUME NEW c, NEW o, c \in Nat
    PROVE  Escape(c, o) \in Seq(Nat) /\ Len(Escape(c, o)) > 0
  <1>1. PICK b : b = Escape(c, o)
    OBVIOUS
  <1>2. CASE c \in DOMAIN ShortEscape /\ b = <<Backslash, ShortEscape[c]>>
    <2>1. ShortEscape[c] \in Nat
      BY <1>2, ShortEscapes
    <2> QED
      BY <1>1, <1>2, <2>1 DEF Backslash
  <1>3. CASE b = <<c>>
    BY <1>1, <1>3
  <1>4. CASE c < 256 /\ b = NonPrintable(c)
    BY <1>1, <1>4, SixCharacters
  <1> QED
    BY <1>1, <1>2, <1>3, <1>4, EscapeKinds

\* b stands in e after the first p characters.
StandsAfter(b, e, p) == \A m \in 1..Len(b) : e[p + m] = b[m]

Substituting(g, e) == \A n \in 0..Len(e) : g[n] = SubstituteStep(e, n, g)

\* One character of a string: what its escape becomes again.
LEMMA EscapeIsSubstituted ==
    ASSUME NEW e \in Seq(Nat), NEW g, Substituting(g, e),
           NEW p \in Nat, NEW q \in Nat, NEW c \in Nat, NEW o,
           q = p + Len(Escape(c, o)), q <= Len(e), StandsAfter(Escape(c, o), e, p)
    PROVE  g[Len(e) - p] = Cat(<<c>>, g[Len(e) - q])
  <1>1. PICK b : b = Escape(c, o)
    OBVIOUS
  <1>2. b \in Seq(Nat) /\ q = p + Len(b) /\ q <= Len(e) /\ \A m \in 1..Len(b) : e[p + m] = b[m]
    BY <1>1, EscapeType DEF StandsAfter
  <1>3. PICK n \in 1..Len(e) : n = Len(e) - p
    <2>1. Len(b) > 0 /\ Len(e) \in Nat /\ Len(b) \in Nat
      <3>1. Len(b) > 0 /\ Len(b) \in Nat
        BY <1>1, <1>2, EscapeType
      <3>2. Len(e) \in Nat
        OBVIOUS
      <3> QED
        BY <3>1, <3>2
    <2>2. Len(e) - p \in 1..Len(e)
      BY <1>2, <2>1
    <2> QED
      BY <2>2
  <1>4. PICK i \in 1..Len(e) : i = p + 1
    BY <1>3
  <1>5. i = Len(e) - n + 1 /\ i + 1 = p + 2 /\ Len(e) \in Nat
    BY <1>3, <1>4
  <1>6. g[n] = IF n < 2 THEN SubSeq(e, i, Len(e))
               ELSE IF e[i] = Backslash THEN EscapeAt(e, i + 1).chars \o g[Len(e) + 1 - EscapeAt(e, i + 1).next]
               ELSE <<e[i]>> \o g[n - 1]
    <2>1. n \in 0..Len(e)
      OBVIOUS
    <2> QED
      BY <1>5, <2>1, Zenon DEF SubstituteStep, Substituting
  <1>7. CASE b = <<c>> /\ c # Backslash
    <2>1. e[i] = c /\ Len(b) = 1
      BY <1>4, <1>2, <1>7
    <2>2. CASE n < 2
      <3>1. n = 1 /\ i = Len(e) /\ Len(e) - q = 0
        BY <1>2, <1>3, <1>5, <2>1, <2>2
      <3>2. g[0] = <<>>
        <4>1. 0 \in 0..Len(e)
          BY <1>5
        <4>2. SubstituteStep(e, 0, g) = SubSeq(e, Len(e) - 0 + 1, Len(e))
          BY DEF SubstituteStep
        <4>3. SubSeq(e, Len(e) - 0 + 1, Len(e)) = <<>>
          BY <1>5
        <4> QED
          BY <4>1, <4>2, <4>3 DEF Substituting
      <3>3. g[n] = SubSeq(e, i, i)
        BY <1>6, <2>2, <3>1
      <3>4. SubSeq(e, i, i) = <<e[i]>>
        BY OneCut
      <3>5. Cat(<<c>>, <<>>) = <<c>>
        BY DEF Cat
      <3>6. g[n] = <<c>>
        BY <2>1, <3>3, <3>4
      <3>7. g[Len(e) - q] = <<>>
        BY <3>1, <3>2
      <3> QED
        BY ONLY <1>3, <3>5, <3>6, <3>7, Zenon
    <2>3. CASE n >= 2
      <3>1. n - 1 = Len(e) - q
        BY <1>2, <1>3, <2>1
      <3>2. ~(n < 2) /\ e[i] # Backslash
        BY <1>7, <2>1, <2>3
      <3>3. g[n] = Cat(<<c>>, g[n - 1])
        BY <1>6, <2>1, <3>2, Zenon DEF Cat
      <3> QED
        BY <1>3, <3>1, <3>3
    <2> QED
      BY <2>2, <2>3
  <1>8. ASSUME n >= 2, e[i] = Backslash, EscapeAt(e, i + 1) = [chars |-> <<c>>, next |-> q + 1]
        PROVE  g[n] = Cat(<<c>>, g[Len(e) - q])
    <2>1. ~(n < 2)
      BY <1>8
    <2>2. g[n] = Cat(EscapeAt(e, i + 1).chars, g[Len(e) + 1 - EscapeAt(e, i + 1).next])
      BY <1>6, <1>8, <2>1, Zenon DEF Cat
    <2>3. Len(e) + 1 - (q + 1) = Len(e) - q
      BY <1>5
    <2>4. EscapeAt(e, i + 1).chars = <<c>> /\ EscapeAt(e, i + 1).next = q + 1
      BY <1>8
    <2> QED
      BY <2>2, <2>3, <2>4
  <1>9. CASE c \in DOMAIN ShortEscape /\ b = <<Backslash, ShortEscape[c]>>
    <2>1. e[i] = Backslash /\ e[i + 1] = ShortEscape[c] /\ Len(b) = 2
      <3>1. Len(b) = 2 /\ b[1] = Backslash /\ b[2] = ShortEscape[c]
        BY <1>9
      <3>2. 1 \in 1..Len(b) /\ 2 \in 1..Len(b)
        BY <3>1
      <3> QED
        BY <1>2, <1>4, <1>5, <3>1, <3>2
    <2>2. EscapeAt(e, i + 1) = [chars |-> <<c>>, next |-> i + 1 + 1]
      BY <1>9, <2>1, ShortIsRead
    <2>3. i + 1 + 1 = q + 1 /\ n >= 2
      BY <1>2, <1>3, <1>4, <2>1
    <2> QED
      BY <1>3, <1>8, <2>1, <2>2, <2>3
  <1>10. CASE c < 256 /\ b = NonPrintable(c)
    <2>1. /\ Len(b) = 6 /\ b[1] = Backslash /\ b[2] = LetterU
          /\ b[3] = HexDigits(c)[1] /\ b[4] = HexDigits(c)[2]
          /\ b[5] = HexDigits(c)[3] /\ b[6] = HexDigits(c)[4]
      BY <1>10, SixCharacters
    <2>2. PICK k \in Nat : k = p + 2 /\ k = i + 1 /\ k > 0 /\ k + 4 = q /\ k + 4 <= Len(e) /\ n >= 2
      BY <1>2, <1>3, <1>4, <2>1
    <2>3. e[p + 1] = b[1] /\ e[p + 2] = b[2] /\ e[p + 3] = b[3] /\ e[p + 4] = b[4] /\ e[p + 5] = b[5] /\ e[p + 6] = b[6]
      <3>1. /\ 1 \in 1..Len(b) /\ 2 \in 1..Len(b) /\ 3 \in 1..Len(b)
             /\ 4 \in 1..Len(b) /\ 5 \in 1..Len(b) /\ 6 \in 1..Len(b)
        BY <2>1
      <3> QED
        BY <1>2, <3>1, Zenon
    <2>4. k + 1 = p + 3 /\ k + 2 = p + 4 /\ k + 3 = p + 5 /\ k + 4 = p + 6
      BY <2>2
    <2>5. /\ e[k] = LetterU /\ e[k + 1] = HexDigits(c)[1] /\ e[k + 2] = HexDigits(c)[2]
          /\ e[k + 3] = HexDigits(c)[3] /\ e[k + 4] = HexDigits(c)[4]
      BY <2>1, <2>2, <2>3, <2>4
    <2>6. EscapeAt(e, k) = [chars |-> <<c>>, next |-> k + 5]
      BY <1>10, <2>2, <2>5, HexIsRead
    <2>7. e[i] = Backslash
      BY <1>4, <2>1, <2>3
    <2>8. k + 5 = q + 1
      BY <2>2
    <2> QED
      BY <1>3, <1>8, <2>2, <2>6, <2>7, <2>8
  <1> QED
    BY <1>1, <1>3, <1>7, <1>9, <1>10, EscapeKinds

\* A string with a character before it.
LEMMA OneBefore ==
    ASSUME NEW s \in Seq(Nat), NEW j \in 1..Len(s)
    PROVE  Cat(<<s[j]>>, SubSeq(s, j + 1, Len(s))) = SubSeq(s, j, Len(s))
  <1>1. \A m \in 1..(Len(s) + 1) : SubSeq(s, m, Len(s)) \in Seq(Nat)
    OBVIOUS
  <1>2. j + 1 \in 1..(Len(s) + 1) /\ j \in 1..(Len(s) + 1)
    OBVIOUS
  <1>3. PICK k \in Nat : k = j + 1
    <2>1. j + 1 \in Nat
      OBVIOUS
    <2> QED
      BY <2>1
  <1>4. PICK t \in Seq(Nat) : t = SubSeq(s, k, Len(s))
    BY <1>1, <1>2, <1>3
  <1>5. PICK u \in Seq(Nat) : u = SubSeq(s, j, Len(s))
    BY <1>1, <1>2
  <1>6. Len(s) \in Nat /\ Len(t) = Len(s) - j /\ \A i \in 1..Len(t) : t[i] = s[j + i]
    BY <1>3, <1>4
  <1>7. Len(u) = Len(s) - j + 1 /\ \A i \in 1..Len(u) : u[i] = s[j + i - 1]
    BY <1>5
  <1>8. PICK v \in Seq(Nat) : v = <<s[j]>> \o t
    <2>1. <<s[j]>> \in Seq(Nat)
      OBVIOUS
    <2>2. PICK w \in Seq(Nat) : w = <<s[j]>>
      BY <2>1
    <2>3. w \o t \in Seq(Nat)
      OBVIOUS
    <2> QED
      BY <2>2, <2>3
  <1>9. Len(v) = 1 + Len(t) /\ \A i \in 1..Len(v) : v[i] = IF i = 1 THEN s[j] ELSE t[i - 1]
    BY <1>8
  <1>10. Len(v) = Len(u)
    BY <1>6, <1>7, <1>9
  <1>11. ASSUME NEW i \in 1..Len(v)
        PROVE  v[i] = u[i]
    <2>1. CASE i = 1
      <3>1. u[i] = s[j + i - 1] /\ j + i - 1 = j
        BY <1>7, <1>10, <2>1
      <3> QED
        BY <1>9, <2>1, <3>1
    <2>2. CASE i # 1
      <3>1. i - 1 \in 1..Len(t) /\ j + (i - 1) = j + i - 1
        BY <1>6, <1>9, <2>2
      <3>2. v[i] = t[i - 1]
        BY <1>9, <2>2
      <3>3. t[i - 1] = s[j + (i - 1)]
        BY <1>6, <3>1
      <3> QED
        BY <1>7, <1>10, <3>1, <3>2, <3>3
    <2> QED
      BY <2>1, <2>2
  <1>12. v = u
    BY ONLY <1>5, <1>8, <1>10, <1>11, SeqEqual
  <1> QED
    BY <1>3, <1>4, <1>5, <1>8, <1>12, Zenon DEF Cat

\* A function of the last characters of a text that makes one character of
\* each of its pieces makes the string of these characters of the whole text.
LEMMA Rebuilt ==
    ASSUME NEW s \in Seq(Nat), NEW bs \in Seq(Seq(Nat)), Len(bs) = Len(s), NEW e, e = FlattenSeq(bs),
           NEW g, g[0] = <<>>,
           \A j \in 1..Len(s) : g[Len(e) - Before(bs, j - 1)] = Cat(<<s[j]>>, g[Len(e) - Before(bs, j)])
    PROVE  g[Len(e)] = s
  <1> DEFINE T == {d \in Nat : d <= Len(s) =>
                      g[Len(e) - Before(bs, Len(s) - d)] = SubSeq(s, Len(s) - d + 1, Len(s))}
  <1>1. Len(s) \in Nat /\ e \in Seq(Nat) /\ Len(e) \in Nat
    <2>1. e \in Seq(Nat)
      BY FlattenType
    <2> QED
      BY <2>1, LenProperties
  <1>2. 0 \in T
    <2>1. Before(bs, Len(s)) = Len(e)
      BY FlattenAll DEF Before
    <2>2. Len(s) - 0 = Len(s) /\ Len(e) - Len(e) = 0
      BY <1>1
    <2>3. SubSeq(s, Len(s) + 1, Len(s)) = <<>>
      BY <1>1
    <2> QED
      BY <2>1, <2>2, <2>3
  <1>3. ASSUME NEW d \in Nat, d \in T
        PROVE  d + 1 \in T
    <2> SUFFICES ASSUME d + 1 <= Len(s)
                 PROVE  g[Len(e) - Before(bs, Len(s) - (d + 1))] = SubSeq(s, Len(s) - (d + 1) + 1, Len(s))
      <3>1. d + 1 \in Nat
        OBVIOUS
      <3> QED
        BY <3>1, Zenon
    <2>1. PICK j \in 1..Len(s) : j = Len(s) - d
      <3>1. Len(s) - d \in 1..Len(s)
        BY <1>1
      <3> QED
        BY <3>1
    <2>2. Len(s) - (d + 1) = j - 1 /\ Len(s) - (d + 1) + 1 = j /\ Len(s) - d + 1 = j + 1 /\ d <= Len(s)
      BY <1>1, <2>1
    <2>3. g[Len(e) - Before(bs, j)] = SubSeq(s, j + 1, Len(s))
      BY <1>3, <2>1, <2>2
    <2>4. g[Len(e) - Before(bs, j - 1)] = Cat(<<s[j]>>, g[Len(e) - Before(bs, j)])
      BY <2>1
    <2>5. Cat(<<s[j]>>, SubSeq(s, j + 1, Len(s))) = SubSeq(s, j, Len(s))
      BY OneBefore
    <2>6. g[Len(e) - Before(bs, j - 1)] = SubSeq(s, j, Len(s))
      BY <2>3, <2>4, <2>5, Zenon
    <2> QED
      BY <2>2, <2>6, Zenon
  <1> HIDE DEF T
  <1>4. Nat \subseteq T
    BY <1>2, <1>3, SetInduction
  <1>5. Len(s) \in T
    BY <1>1, <1>4
  <1>6. g[Len(e) - Before(bs, Len(s) - Len(s))] = SubSeq(s, Len(s) - Len(s) + 1, Len(s))
    BY <1>1, <1>5 DEF T
  <1>7. Before(bs, 0) = 0
    <2>1. SubSeq(bs, 1, 0) = <<>>
      OBVIOUS
    <2>2. Len(<<>>) = 0
      OBVIOUS
    <2> QED
      BY <2>1, <2>2, FlattenEmpty, Zenon DEF Before
  <1>8. SubSeq(s, 1, Len(s)) = s
    OBVIOUS
  <1>9. Len(s) - Len(s) = 0 /\ Len(s) - Len(s) + 1 = 1 /\ Len(e) - 0 = Len(e)
    BY <1>1
  <1> QED
    BY <1>6, <1>7, <1>8, <1>9

Escapes(s, o) == [i \in DOMAIN s |-> Escape(s[i], o)]

\* The pieces bs of a written string s, and where they are in its text e.
IsEscaped(e, bs, s, o) ==
    /\ e = AddEscChars(s, o)
    /\ bs \in Seq(Seq(Nat)) /\ Len(bs) = Len(s) /\ e = FlattenSeq(bs) /\ e \in Seq(Nat)
    /\ \A j \in 1..Len(s) :
         /\ Before(bs, j - 1) \in Nat /\ Before(bs, j) \in Nat
         /\ bs[j] \in Seq(Nat) /\ bs[j] = Escape(s[j], o) /\ s[j] \in Nat
         /\ Before(bs, j) = Before(bs, j - 1) + Len(bs[j])
         /\ Before(bs, j) <= Len(e)
         /\ \A m \in 1..Len(bs[j]) : e[Before(bs, j - 1) + m] = bs[j][m]

LEMMA EscapedPieces ==
    ASSUME NEW s \in Seq(Nat), NEW o
    PROVE  \E bs, e : IsEscaped(e, bs, s, o)
  <1> DEFINE bs == Escapes(s, o)
             e == AddEscChars(s, o)
  <1>1. DOMAIN s = 1..Len(s) /\ Len(s) \in Nat /\ \A j \in 1..Len(s) : s[j] \in Nat
    OBVIOUS
  <1>2. \A j \in 1..Len(s) : Escape(s[j], o) \in Seq(Nat)
    BY <1>1, EscapeType
  <1>3. bs = [i \in 1..Len(s) |-> Escape(s[i], o)]
    BY <1>1 DEF Escapes
  <1>4. bs \in Seq(Seq(Nat)) /\ Len(bs) = Len(s) /\ \A j \in 1..Len(s) : bs[j] = Escape(s[j], o)
    BY <1>1, <1>2, <1>3
  <1>5. e = FlattenSeq(bs)
    BY DEF AddEscChars, Escapes
  <1> HIDE DEF bs, e
  <1>6. e \in Seq(Nat)
    BY <1>4, <1>5, FlattenType
  <1>7. ASSUME NEW j \in 1..Len(s)
        PROVE  /\ Before(bs, j - 1) \in Nat /\ Before(bs, j) \in Nat
               /\ Before(bs, j) = Before(bs, j - 1) + Len(bs[j])
               /\ Before(bs, j) <= Len(e)
               /\ \A m \in 1..Len(bs[j]) : e[Before(bs, j - 1) + m] = bs[j][m]
    <2>1. j \in 1..Len(bs) /\ j \in 0..Len(bs) /\ j - 1 \in 0..Len(bs)
      BY <1>1, <1>4
    <2>2. /\ Before(bs, j) = Before(bs, j - 1) + Len(bs[j])
          /\ \A m \in 1..Len(bs[j]) : FlattenSeq(bs)[Before(bs, j - 1) + m] = bs[j][m]
      BY <1>4, <2>1, FlattenPlace
    <2>3. Before(bs, j) \in Nat /\ Before(bs, j) <= Len(FlattenSeq(bs)) /\ Before(bs, j - 1) \in Nat
      BY <1>4, <2>1, FlattenPrefix
    <2> QED
      BY <1>5, <2>2, <2>3
  <1>8. e = AddEscChars(s, o)
    BY DEF e
  <1>9. \A j \in 1..Len(s) : bs[j] \in Seq(Nat) /\ bs[j] = Escape(s[j], o) /\ s[j] \in Nat
    BY <1>1, <1>2, <1>4
  <1>10. IsEscaped(e, bs, s, o)
    BY <1>4, <1>5, <1>6, <1>7, <1>8, <1>9 DEF IsEscaped
  <1> QED
    BY <1>10

\* What is written between quotes is read back, with any of the options.
LEMMA StringIsRead ==
    ASSUME NEW s \in Seq(Nat), NEW o
    PROVE  GetStr(AddEscChars(s, o)) = s
  <1>1. PICK bs, e : IsEscaped(e, bs, s, o)
    BY EscapedPieces
  <1>2. e = AddEscChars(s, o) /\ bs \in Seq(Seq(Nat)) /\ Len(bs) = Len(s) /\ e = FlattenSeq(bs) /\ e \in Seq(Nat)
    BY <1>1 DEF IsEscaped
  <1>3. PICK g : GetStr(e) = g[Len(e)] /\ Substituting(g, e)
    BY <1>2, SubstituteChosen DEF Substituting
  <1>4. g[0] = <<>>
    <2>1. Len(e) \in Nat /\ 0 \in 0..Len(e)
      BY <1>2, LenProperties
    <2>2. SubstituteStep(e, 0, g) = SubSeq(e, Len(e) - 0 + 1, Len(e))
      BY DEF SubstituteStep
    <2>3. SubSeq(e, Len(e) - 0 + 1, Len(e)) = <<>>
      BY <1>2, <2>1
    <2> QED
      BY <1>3, <2>1, <2>2, <2>3 DEF Substituting
  <1>5. ASSUME NEW j \in 1..Len(s)
        PROVE  g[Len(e) - Before(bs, j - 1)] = Cat(<<s[j]>>, g[Len(e) - Before(bs, j)])
    <2>1. /\ Before(bs, j - 1) \in Nat /\ Before(bs, j) \in Nat
          /\ bs[j] \in Seq(Nat) /\ bs[j] = Escape(s[j], o) /\ s[j] \in Nat
          /\ Before(bs, j) = Before(bs, j - 1) + Len(bs[j])
          /\ Before(bs, j) <= Len(e)
          /\ \A m \in 1..Len(bs[j]) : e[Before(bs, j - 1) + m] = bs[j][m]
      BY <1>1 DEF IsEscaped
    <2>2. PICK p \in Nat : p = Before(bs, j - 1)
      BY <2>1
    <2>3. PICK q \in Nat : q = Before(bs, j)
      BY <2>1
    <2>4. PICK c \in Nat : c = s[j]
      BY <2>1
    <2>5. q = p + Len(Escape(c, o)) /\ q <= Len(e) /\ StandsAfter(Escape(c, o), e, p)
      BY <2>1, <2>2, <2>3, <2>4 DEF StandsAfter
    <2>6. g[Len(e) - p] = Cat(<<c>>, g[Len(e) - q])
      BY <1>2, <1>3, <2>5, EscapeIsSubstituted
    <2> QED
      BY <2>2, <2>3, <2>4, <2>6, Zenon
  <1>6. g[Len(e)] = s
    BY <1>2, <1>4, <1>5, Rebuilt
  <1> QED
    BY <1>2, <1>3, <1>6

-----------------------------------------------------------------------------
\* Readers that follow the standard.

\* What the last n characters are for such a reader, where g is what fewer are.
StandardStep(s, n, g) ==
    LET i == Len(s) - n + 1
    IN  IF n = 0 THEN <<>>
        ELSE IF s[i] # Backslash THEN <<IF s[i] < 32 THEN -1 ELSE s[i]>> \o g[n - 1]
        ELSE IF n >= 6 /\ s[i + 1] = LetterU
        THEN <<256 * HexPair(s, i + 2) + HexPair(s, i + 4)>> \o g[n - 6]
        ELSE IF n >= 2 /\ s[i + 1] \in Range(ShortEscape) \cup {Slash}
        THEN EscapeAt(s, i + 1).chars \o g[n - 2]
        ELSE <<-1>> \o g[n - 1]

IsStandard(g, s, n) == g = [k \in 0..n |-> StandardStep(s, k, g)]

LEMMA StandardUses ==
    ASSUME NEW s \in Seq(Nat), NEW n \in Nat, NEW g, NEW h,
           \A k \in 0..(n - 1) : g[k] = h[k]
    PROVE  StandardStep(s, n, g) = StandardStep(s, n, h)
  <1>1. CASE n = 0
    BY <1>1 DEF StandardStep
  <1>2. CASE n > 0
    <2>1. g[n - 1] = h[n - 1]
      BY <1>2
    <2>2. n >= 6 => g[n - 6] = h[n - 6]
      OBVIOUS
    <2>3. n >= 2 => g[n - 2] = h[n - 2]
      OBVIOUS
    <2>4. PICK a : a = g[n - 1]
      OBVIOUS
    <2>5. PICK b : b = g[n - 6]
      OBVIOUS
    <2>6. PICK c : c = g[n - 2]
      OBVIOUS
    <2> QED
      BY <2>1, <2>2, <2>3, <2>4, <2>5, <2>6, Zenon DEF StandardStep
  <1> QED
    BY <1>1, <1>2

LEMMA StandardExists == \A s \in Seq(Nat) : \E g : IsStandard(g, s, Len(s))
  <1> TAKE s \in Seq(Nat)
  <1> DEFINE T == {n \in Nat : n <= Len(s) => \E g : IsStandard(g, s, n)}
  <1>1. 0 \in T
    <2> DEFINE h == [k \in 0..0 |-> StandardStep(s, 0, <<>>)]
    <2>1. \A g : StandardStep(s, 0, g) = StandardStep(s, 0, <<>>)
      BY DEF StandardStep
    <2>2. \A k \in 0..0 : h[k] = StandardStep(s, k, h)
      <3> HIDE DEF h
      <3>1. h[0] = StandardStep(s, 0, <<>>)
        BY DEF h
      <3> QED
        BY <2>1, <3>1
    <2>3. h = [k \in 0..0 |-> h[k]]
      OBVIOUS
    <2> HIDE DEF h
    <2>4. IsStandard(h, s, 0)
      BY <2>2, <2>3 DEF IsStandard
    <2> QED
      BY <2>4
  <1>2. ASSUME NEW n \in Nat, n \in T
        PROVE  n + 1 \in T
    <2> SUFFICES ASSUME n + 1 <= Len(s)
                 PROVE  \E g : IsStandard(g, s, n + 1)
      OBVIOUS
    <2>1. PICK g : IsStandard(g, s, n)
      BY <1>2
    <2>2. \A k \in 0..n : g[k] = StandardStep(s, k, g)
      BY <2>1 DEF IsStandard
    <2> DEFINE h == [k \in 0..(n + 1) |-> IF k = n + 1 THEN StandardStep(s, n + 1, g) ELSE g[k]]
    <2>3. \A k \in 0..n : h[k] = g[k]
      OBVIOUS
    <2>4. h[n + 1] = StandardStep(s, n + 1, g)
      OBVIOUS
    <2>5. h = [k \in 0..(n + 1) |-> h[k]]
      OBVIOUS
    <2> HIDE DEF h
    <2>6. ASSUME NEW k \in 0..(n + 1)
          PROVE  h[k] = StandardStep(s, k, h)
      <3>1. k \in Nat
        OBVIOUS
      <3>2. \A j \in 0..(k - 1) : g[j] = h[j]
        BY <2>3
      <3>3. StandardStep(s, k, g) = StandardStep(s, k, h)
        BY <3>1, <3>2, StandardUses
      <3> QED
        BY <2>2, <2>3, <2>4, <3>3
    <2>7. IsStandard(h, s, n + 1)
      BY <2>5, <2>6 DEF IsStandard
    <2> QED
      BY <2>7
  <1> HIDE DEF T
  <1>3. Nat \subseteq T
    BY <1>1, <1>2, SetInduction
  <1> QED
    BY <1>3 DEF T

Standing(g, s) == \A n \in 0..Len(s) : g[n] = StandardStep(s, n, g)

LEMMA StandardChosen ==
    ASSUME NEW s \in Seq(Nat)
    PROVE  \E g : StandardStr(s) = g[Len(s)] /\ Standing(g, s)
  <1> DEFINE f == CHOOSE g : g = [n \in 0..Len(s) |->
                    LET i == Len(s) - n + 1
                    IN  IF n = 0 THEN <<>>
                        ELSE IF s[i] # Backslash THEN <<IF s[i] < 32 THEN -1 ELSE s[i]>> \o g[n - 1]
                        ELSE IF n >= 6 /\ s[i + 1] = LetterU
                        THEN <<256 * HexPair(s, i + 2) + HexPair(s, i + 4)>> \o g[n - 6]
                        ELSE IF n >= 2 /\ s[i + 1] \in Range(ShortEscape) \cup {Slash}
                        THEN EscapeAt(s, i + 1).chars \o g[n - 2]
                        ELSE <<-1>> \o g[n - 1]]
  <1>1. f = CHOOSE g : IsStandard(g, s, Len(s))
    BY DEF IsStandard, StandardStep
  <1>2. StandardStr(s) = f[Len(s)]
    BY DEF StandardStr
  <1> HIDE DEF f
  <1>3. IsStandard(f, s, Len(s))
    BY <1>1, StandardExists
  <1>4. Standing(f, s)
    BY <1>3 DEF IsStandard, Standing
  <1> QED
    BY <1>2, <1>4

LEMMA ShortIsNoU == \A c \in DOMAIN ShortEscape : ShortEscape[c] # LetterU
  BY ShortEscapes DEF LetterU

\* One character of a string that this program writes.
LEMMA EscapeIsStandard ==
    ASSUME NEW e \in Seq(Nat), NEW g, Standing(g, e),
           NEW p \in Nat, NEW q \in Nat, NEW c \in Nat, c < 128, NEW o,
           ~o.raw_utf8, c \in o.printable => c >= 32,
           q = p + Len(Escape(c, o)), q <= Len(e), StandsAfter(Escape(c, o), e, p)
    PROVE  g[Len(e) - p] = Cat(<<c>>, g[Len(e) - q])
  <1>1. PICK b \in Seq(Nat) : b = Escape(c, o)
    BY EscapeType
  <1>2. \A m \in 1..Len(b) : e[p + m] = b[m]
    BY <1>1 DEF StandsAfter
  <1>3. q = p + Len(b) /\ q <= Len(e) /\ Len(b) > 0 /\ Len(b) \in Nat
    BY <1>1, EscapeType
  <1>4. PICK n \in 1..Len(e) : n = Len(e) - p
    <2>1. Len(e) - p \in 1..Len(e)
      BY <1>3
    <2> QED
      BY <2>1
  <1>5. n - Len(b) = Len(e) - q /\ n >= Len(b)
    <2>1. PICK l \in Nat, k \in Nat : l = Len(e) /\ k = Len(b)
      BY <1>3
    <2>2. n \in Int /\ n = l - p /\ q = p + k /\ q <= l
      BY <1>3, <1>4, <2>1
    <2>3. n - k = l - q /\ n >= k
      BY ONLY <2>2, l \in Nat, k \in Nat, p \in Nat, q \in Nat
    <2> QED
      BY <2>1, <2>3
  <1>6. PICK i \in 1..Len(e) : i = p + 1
    BY <1>4
  <1>7. i = Len(e) - n + 1 /\ i + 1 = p + 2 /\ Len(e) \in Nat
    BY <1>4, <1>6
  <1>8. g[n] = IF e[i] # Backslash THEN Cat(<<IF e[i] < 32 THEN -1 ELSE e[i]>>, g[n - 1])
               ELSE IF n >= 6 /\ e[i + 1] = LetterU
               THEN Cat(<<256 * HexPair(e, i + 2) + HexPair(e, i + 4)>>, g[n - 6])
               ELSE IF n >= 2 /\ e[i + 1] \in Range(ShortEscape) \cup {Slash}
               THEN Cat(EscapeAt(e, i + 1).chars, g[n - 2])
               ELSE Cat(<<-1>>, g[n - 1])
    <2>1. n \in 0..Len(e) /\ n # 0
      OBVIOUS
    <2> QED
      BY <1>7, <2>1, Zenon DEF StandardStep, Standing, Cat
  <1>9. CASE b = <<c>> /\ c # Backslash /\ (c >= 256 \/ c \in o.printable)
    <2>1. e[i] = c /\ Len(b) = 1 /\ ~(c < 32)
      BY <1>2, <1>6, <1>9
    <2>2. n - 1 = Len(e) - q
      BY <1>5, <2>1
    <2>3. g[n] = Cat(<<c>>, g[n - 1])
      BY <1>8, <1>9, <2>1
    <2> QED
      BY <1>4, <2>2, <2>3
  <1>10. CASE c \in DOMAIN ShortEscape /\ b = <<Backslash, ShortEscape[c]>>
    <2>1. e[i] = Backslash /\ e[i + 1] = ShortEscape[c] /\ Len(b) = 2
      <3>1. Len(b) = 2 /\ b[1] = Backslash /\ b[2] = ShortEscape[c]
        BY <1>10
      <3>2. 1 \in 1..Len(b) /\ 2 \in 1..Len(b)
        BY <3>1
      <3> QED
        BY <1>2, <1>6, <1>7, <3>1, <3>2
    <2>2. EscapeAt(e, i + 1).chars = <<c>>
      <3>1. EscapeAt(e, i + 1) = [chars |-> <<c>>, next |-> i + 1 + 1]
        BY <1>10, <2>1, ShortIsRead
      <3> QED
        BY <3>1
    <2>3. n - 2 = Len(e) - q /\ n >= 2
      BY ONLY <1>5, <2>1
    <2>4. ShortEscape[c] # LetterU
      BY <1>10, ShortIsNoU, Zenon
    <2>5. ShortEscape[c] \in Range(ShortEscape)
      BY <1>10 DEF Range
    <2>6. g[n] = Cat(<<c>>, g[n - 2])
      BY <1>8, <2>1, <2>2, <2>3, <2>4, <2>5
    <2> QED
      BY <1>4, <2>3, <2>6
  <1>11. CASE c < 256 /\ b = NonPrintable(c)
    <2>1. /\ Len(b) = 6 /\ b[1] = Backslash /\ b[2] = LetterU
          /\ b[3] = HexDigits(c)[1] /\ b[4] = HexDigits(c)[2]
          /\ b[5] = HexDigits(c)[3] /\ b[6] = HexDigits(c)[4]
      BY <1>11, SixCharacters
    <2>2. e[p + 1] = b[1] /\ e[p + 2] = b[2] /\ e[p + 3] = b[3] /\ e[p + 4] = b[4] /\ e[p + 5] = b[5] /\ e[p + 6] = b[6]
      <3>1. /\ 1 \in 1..Len(b) /\ 2 \in 1..Len(b) /\ 3 \in 1..Len(b)
             /\ 4 \in 1..Len(b) /\ 5 \in 1..Len(b) /\ 6 \in 1..Len(b)
        BY <2>1
      <3> QED
        BY <1>2, <3>1, Zenon
    <2>3. i + 2 = p + 3 /\ i + 4 = p + 5 /\ i + 2 + 1 = p + 4 /\ i + 4 + 1 = p + 6
      BY <1>6
    <2>4. n >= 6 /\ n - 6 = Len(e) - q
      BY ONLY <1>5, <2>1
    <2>5. e[i] = Backslash /\ e[i + 1] = LetterU
      BY <1>6, <1>7, <2>1, <2>2
    <2>6. PICK h \in Nat : \E l \in Nat :
            /\ h < 16 /\ l < 16 /\ 16 * h + l = c
            /\ HexDigits(c) = <<ToHexChar(0), ToHexChar(0), ToHexChar(h), ToHexChar(l)>>
      BY <1>11, DigitsOf
    <2>7. PICK l \in Nat : /\ h < 16 /\ l < 16 /\ 16 * h + l = c
                           /\ HexDigits(c) = <<ToHexChar(0), ToHexChar(0), ToHexChar(h), ToHexChar(l)>>
      BY <2>6
    <2>8. /\ HexDigits(c)[1] = ToHexChar(0) /\ HexDigits(c)[2] = ToHexChar(0)
          /\ HexDigits(c)[3] = ToHexChar(h) /\ HexDigits(c)[4] = ToHexChar(l)
      BY <2>7
    <2>9. /\ e[p + 3] = ToHexChar(0) /\ e[p + 4] = ToHexChar(0)
          /\ e[p + 5] = ToHexChar(h) /\ e[p + 6] = ToHexChar(l)
      BY <2>1, <2>2, <2>8, Zenon
    <2>10. PICK z \in Nat : z = 0
      OBVIOUS
    <2>11. PICK k \in Nat : k = i + 2
      OBVIOUS
    <2>12. PICK m \in Nat : m = i + 4
      OBVIOUS
    <2>13. k = p + 3 /\ k + 1 = p + 4 /\ m = p + 5 /\ m + 1 = p + 6
      BY <2>3, <2>11, <2>12, Zenon
    <2>14. e[k] = ToHexChar(z) /\ e[k + 1] = ToHexChar(z) /\ e[m] = ToHexChar(h) /\ e[m + 1] = ToHexChar(l)
      BY ONLY <2>9, <2>10, <2>13, Zenon
    <2>15. HexToNum(ToHexChar(z)) = z /\ HexToNum(ToHexChar(h)) = h /\ HexToNum(ToHexChar(l)) = l
      BY <2>7, <2>10, HexRead
    <2>16. HexPair(e, k) = 16 * z + z
      BY ONLY <2>14, <2>15 DEF HexPair
    <2>17. HexPair(e, m) = 16 * h + l
      BY ONLY <2>14, <2>15 DEF HexPair
    <2>18. 256 * HexPair(e, k) + HexPair(e, m) = c
      BY <2>7, <2>10, <2>16, <2>17
    <2>19. g[n] = Cat(<<c>>, g[n - 6])
      BY <1>8, <2>4, <2>5, <2>11, <2>18, <2>12
    <2> QED
      BY <1>4, <2>4, <2>19
  <1>12. \/ c \in DOMAIN ShortEscape /\ b = <<Backslash, ShortEscape[c]>>
         \/ c # Backslash /\ b = <<c>> /\ (c >= 256 \/ c \in o.printable)
         \/ c < 256 /\ b = NonPrintable(c)
    BY <1>1, EscapeKinds
  <1> QED
    BY <1>9, <1>10, <1>11, <1>12

\* A reader that follows the standard finds an ASCII string that is written
\* without raw_utf8 and with what the locale may not print escaped.
LEMMA StringIsStandard ==
    ASSUME NEW s \in Seq(Nat), IsAscii(s), NEW o, ~o.raw_utf8, \A c \in o.printable : c >= 32
    PROVE  StandardStr(AddEscChars(s, o)) = s
  <1>1. PICK bs, e : IsEscaped(e, bs, s, o)
    BY EscapedPieces
  <1>2. e = AddEscChars(s, o) /\ bs \in Seq(Seq(Nat)) /\ Len(bs) = Len(s) /\ e = FlattenSeq(bs) /\ e \in Seq(Nat)
    BY <1>1 DEF IsEscaped
  <1>3. PICK g : StandardStr(e) = g[Len(e)] /\ Standing(g, e)
    BY <1>2, StandardChosen
  <1>4. g[0] = <<>>
    <2>1. Len(e) \in Nat /\ 0 \in 0..Len(e)
      BY <1>2, LenProperties
    <2>2. StandardStep(e, 0, g) = <<>>
      BY DEF StandardStep
    <2> QED
      BY <1>3, <2>1, <2>2 DEF Standing
  <1>5. ASSUME NEW j \in 1..Len(s)
        PROVE  g[Len(e) - Before(bs, j - 1)] = Cat(<<s[j]>>, g[Len(e) - Before(bs, j)])
    <2>1. /\ Before(bs, j - 1) \in Nat /\ Before(bs, j) \in Nat
          /\ bs[j] \in Seq(Nat) /\ bs[j] = Escape(s[j], o) /\ s[j] \in Nat
          /\ Before(bs, j) = Before(bs, j - 1) + Len(bs[j])
          /\ Before(bs, j) <= Len(e)
          /\ \A m \in 1..Len(bs[j]) : e[Before(bs, j - 1) + m] = bs[j][m]
      BY <1>1 DEF IsEscaped
    <2>2. PICK p \in Nat : p = Before(bs, j - 1)
      BY <2>1
    <2>3. PICK q \in Nat : q = Before(bs, j)
      BY <2>1
    <2>4. PICK c \in Nat : c = s[j]
      BY <2>1
    <2>5. q = p + Len(Escape(c, o)) /\ q <= Len(e) /\ StandsAfter(Escape(c, o), e, p)
      BY <2>1, <2>2, <2>3, <2>4 DEF StandsAfter
    <2>6. c < 128 /\ (c \in o.printable => c >= 32)
      <3>1. j \in DOMAIN s
        OBVIOUS
      <3>2. s[j] \in 0..127
        BY <3>1 DEF IsAscii
      <3>3. c \in 0..127
        BY <2>4, <3>2, Zenon
      <3>4. c < 128
        BY ONLY <3>3
      <3>5. c \in o.printable => c >= 32
        OBVIOUS
      <3> QED
        BY <3>4, <3>5
    <2>7. g[Len(e) - p] = Cat(<<c>>, g[Len(e) - q])
      BY <1>2, <1>3, <2>5, <2>6, EscapeIsStandard
    <2> QED
      BY <2>2, <2>3, <2>4, <2>7, Zenon
  <1>6. g[Len(e)] = s
    BY <1>2, <1>4, <1>5, Rebuilt
  <1> QED
    BY <1>2, <1>3, <1>6

LEMMA AsciiParts ==
    ASSUME NEW a, NEW t, a \in Seq(Int), t \in Seq(Int), IsAscii(Cat(a, t))
    PROVE  IsAscii(t) /\ (Len(a) > 0 => ~(a[1] < 0) /\ ~(a[1] >= 128))
  <1>1. a \o t \in Seq(Int)
    OBVIOUS
  <1>2. PICK w \in Seq(Int) : w = a \o t
    BY <1>1
  <1>3. /\ Len(a) \in Nat /\ Len(t) \in Nat /\ Len(w) = Len(a) + Len(t)
        /\ DOMAIN w = 1..Len(w) /\ DOMAIN t = 1..Len(t)
        /\ \A i \in 1..Len(t) : w[Len(a) + i] = t[i]
        /\ \A i \in 1..Len(a) : w[i] = a[i]
    BY <1>2
  <1>4. \A i \in 1..Len(w) : w[i] \in 0..127
    BY <1>2, <1>3 DEF IsAscii, Cat
  <1>5. \A i \in 1..Len(t) : t[i] \in 0..127
    <2> TAKE i \in 1..Len(t)
    <2>1. Len(a) + i \in 1..Len(w)
      BY <1>3
    <2> QED
      BY <1>3, <1>4, <2>1
  <1>6. Len(a) > 0 => ~(a[1] < 0) /\ ~(a[1] >= 128)
    <2>1. \A x : x \in 0..127 => ~(x < 0) /\ ~(x >= 128)
      OBVIOUS
    <2>2. Len(a) > 0 => 1 \in 1..Len(a) /\ 1 \in 1..Len(w)
      BY <1>3
    <2> QED
      BY <1>3, <1>4, <2>1, <2>2
  <1> QED
    BY <1>3, <1>5, <1>6 DEF IsAscii

\* What an escape stands for.
LEMMA EscapeChars ==
    ASSUME NEW s \in Seq(Nat), NEW k \in 1..Len(s)
    PROVE  s[k] \in Range(ShortEscape) \cup {Slash} =>
             EscapeAt(s, k).chars \in Seq(Nat) /\ EscapeAt(s, k).next = k + 1
  <1> SUFFICES ASSUME s[k] \in Range(ShortEscape) \cup {Slash}
               PROVE  EscapeAt(s, k).chars \in Seq(Nat) /\ EscapeAt(s, k).next = k + 1
    OBVIOUS
  <1> DEFINE short == {b \in DOMAIN ShortEscape : ShortEscape[b] = s[k]} \cup {b \in {Slash} : s[k] = Slash}
  <1>1. PICK c \in short : TRUE
    BY DEF Range
  <1>2. short # {} /\ (CHOOSE b \in short : TRUE) \in short
    BY <1>1
  <1>3. \A b \in short : b \in Nat
    <2>1. DOMAIN ShortEscape \subseteq Nat
      BY ShortEscapes
    <2>2. Slash \in Nat
      BY DEF Slash
    <2> QED
      BY <2>1, <2>2
  <1> HIDE DEF short
  <1>4. PICK d \in Nat : d = CHOOSE b \in short : TRUE
    BY <1>2, <1>3
  <1>5. EscapeAt(s, k) = [chars |-> <<d>>, next |-> k + 1]
    BY <1>2, <1>4 DEF EscapeAt, short
  <1> QED
    BY <1>5

\* The number four digits stand for.
LEMMA PairType ==
    ASSUME NEW s, NEW k
    PROVE  s[k] \in Nat /\ s[k + 1] \in Nat => HexPair(s, k) \in Nat
  <1>1. \A c \in Nat : HexToNum(c) \in Nat
    BY DEF HexToNum
  <1> QED
    BY <1>1 DEF HexPair

\* The number in four digits, narrowed to a char, if it is one.
LEMMA FourRead ==
    ASSUME NEW s \in Seq(Nat), NEW k \in Nat, k + 4 <= Len(s),
           256 * HexPair(s, k + 1) + HexPair(s, k + 3) \in Nat,
           256 * HexPair(s, k + 1) + HexPair(s, k + 3) < 128
    PROVE  HexToChar(SubSeq(s, k + 1, k + 4)) = 256 * HexPair(s, k + 1) + HexPair(s, k + 3)
  <1>1. PICK m \in Nat : m = k + 1
    OBVIOUS
  <1>2. PICK n \in Nat : n = k + 4
    OBVIOUS
  <1>3. m > 0 /\ n = m + 3 /\ n <= Len(s) /\ k + 3 = m + 2 /\ m + 2 + 1 = m + 3
    BY <1>1, <1>2
  <1>4. PICK d : d = SubSeq(s, m, n)
    OBVIOUS
  <1>5. Len(d) = 4 /\ d[1] = s[m] /\ d[2] = s[m + 1] /\ d[3] = s[m + 2] /\ d[4] = s[m + 3]
    BY <1>3, <1>4, FourCut
  <1>6. HexPair(d, 1) = HexPair(s, m) /\ HexPair(d, 3) = HexPair(s, m + 2)
    <2>1. d[1 + 1] = s[m + 1] /\ d[3 + 1] = s[m + 2 + 1]
      BY <1>3, <1>5
    <2> QED
      BY <1>5, <2>1, Zenon DEF HexPair
  <1>7. PICK x \in Nat : x = 256 * HexPair(s, m) + HexPair(s, m + 2) /\ x < 128
    BY <1>1, <1>3
  <1>8. HexToChar(d) = (256 * HexPair(d, 1) + HexPair(d, 3)) % 256
    BY <1>5 DEF HexToChar
  <1>9. HexToChar(d) = x % 256
    BY <1>6, <1>7, <1>8
  <1>10. x % 256 = x
    <2>1. x \in Nat /\ x < 128
      BY <1>7
    <2> QED
      BY ONLY <2>1
  <1> QED
    BY <1>1, <1>2, <1>3, <1>4, <1>7, <1>9, <1>10

\* The last n characters begin with a piece, after which both readers go on in
\* the same place: it is refused, or the same for both, or no ASCII character.
OnePiece(h, g, n) ==
    \E a, m : /\ a \in Seq(Int) /\ m \in 0..(n - 1)
              /\ h[n] = Cat(a, h[m])
              /\ \/ Len(a) > 0 /\ a[1] < 0
                 \/ g[n] = Cat(a, g[m])
                 \/ Len(a) = 1 /\ a[1] >= 128

\* A step of a reader that follows the standard on the last n characters: it
\* refuses, or goes on after a character as substitute_esc_chars does.
LEMMA StandardOrSubstitute ==
    ASSUME NEW s \in Seq(Nat), NEW n \in 1..Len(s), NEW h, NEW g, Standing(h, s), Substituting(g, s)
    PROVE  OnePiece(h, g, n)
  <1> USE DEF OnePiece
  <1>1. PICK i \in 1..Len(s) : i = Len(s) - n + 1
    <2>1. Len(s) - n + 1 \in 1..Len(s)
      OBVIOUS
    <2> QED
      BY <2>1
  <1>2. Len(s) \in Nat /\ n \in 0..Len(s) /\ n # 0 /\ n - 1 \in 0..(n - 1) /\ s[i] \in Nat
    OBVIOUS
  <1>3. h[n] = IF s[i] # Backslash THEN Cat(<<IF s[i] < 32 THEN -1 ELSE s[i]>>, h[n - 1])
               ELSE IF n >= 6 /\ s[i + 1] = LetterU
               THEN Cat(<<256 * HexPair(s, i + 2) + HexPair(s, i + 4)>>, h[n - 6])
               ELSE IF n >= 2 /\ s[i + 1] \in Range(ShortEscape) \cup {Slash}
               THEN Cat(EscapeAt(s, i + 1).chars, h[n - 2])
               ELSE Cat(<<-1>>, h[n - 1])
    BY <1>1, <1>2, Zenon DEF StandardStep, Standing, Cat
  <1>4. g[n] = IF n < 2 THEN SubSeq(s, i, Len(s))
               ELSE IF s[i] = Backslash THEN Cat(EscapeAt(s, i + 1).chars, g[Len(s) + 1 - EscapeAt(s, i + 1).next])
               ELSE Cat(<<s[i]>>, g[n - 1])
    BY <1>1, <1>2, Zenon DEF SubstituteStep, Substituting, Cat
  <1>5. ASSUME NEW b, b = <<-1>>, NEW k, k \in 0..(n - 1), h[n] = Cat(b, h[k])
        PROVE  b \in Seq(Int) /\ Len(b) > 0 /\ b[1] < 0
    BY <1>5
  <1>6. CASE s[i] # Backslash
    <2>1. CASE s[i] < 32
      <3>1. h[n] = Cat(<<-1>>, h[n - 1])
        BY <1>3, <1>6, <2>1
      <3>2. PICK b : b = <<-1>>
        OBVIOUS
      <3>3. b \in Seq(Int) /\ Len(b) > 0 /\ b[1] < 0
        BY <3>2
      <3> QED
        BY <1>2, <3>1, <3>2, <3>3
    <2>2. CASE ~(s[i] < 32)
      <3>1. h[n] = Cat(<<s[i]>>, h[n - 1])
        BY <1>3, <1>6, <2>2
      <3>2. PICK b : b = <<s[i]>>
        OBVIOUS
      <3>3. b \in Seq(Int)
        BY <1>2, <3>2
      <3>4. g[n] = Cat(b, g[n - 1])
        <4>1. CASE n < 2
          <5>1. n = 1 /\ i = Len(s)
            BY <1>1, <1>2, <4>1
          <5>2. g[0] = <<>>
            <6>1. 0 \in 0..Len(s)
              BY <1>2
            <6>2. SubstituteStep(s, 0, g) = SubSeq(s, Len(s) - 0 + 1, Len(s))
              BY DEF SubstituteStep
            <6>3. SubSeq(s, Len(s) - 0 + 1, Len(s)) = <<>>
              BY <1>2
            <6> QED
              BY <6>1, <6>2, <6>3 DEF Substituting
          <5>3. g[n] = <<s[i]>>
            BY <1>4, <4>1, <5>1, OneCut
          <5>4. Cat(b, <<>>) = b
            BY <3>3 DEF Cat
          <5>5. n - 1 = 0
            BY <5>1
          <5> QED
            BY <3>2, <5>2, <5>3, <5>4, <5>5
        <4>2. CASE ~(n < 2)
          BY <1>4, <1>6, <3>2, <4>2
        <4> QED
          BY <4>1, <4>2
      <3> QED
        BY <1>2, <3>1, <3>2, <3>3, <3>4
    <2> QED
      BY <2>1, <2>2
  <1>7. CASE s[i] = Backslash /\ n >= 6 /\ s[i + 1] = LetterU
    <2>1. PICK k \in Nat : k = i + 1
      OBVIOUS
    <2>2. k > 0 /\ k + 4 <= Len(s) /\ i + 2 = k + 1 /\ i + 4 = k + 3 /\ n - 6 \in 0..(n - 1)
      BY <1>1, <1>2, <1>7, <2>1
    <2>3. PICK x : x = 256 * HexPair(s, k + 1) + HexPair(s, k + 3)
      OBVIOUS
    <2>4. x \in Nat
      <3>1. s[k + 1] \in Nat /\ s[k + 1 + 1] \in Nat /\ s[k + 3] \in Nat /\ s[k + 3 + 1] \in Nat
        <4>1. \A j \in 1..Len(s) : s[j] \in Nat
          OBVIOUS
        <4>2. k + 1 \in 1..Len(s) /\ k + 1 + 1 \in 1..Len(s) /\ k + 3 \in 1..Len(s) /\ k + 3 + 1 \in 1..Len(s)
          BY <1>2, <2>2
        <4> QED
          BY <4>1, <4>2, Zenon
      <3>2. HexPair(s, k + 1) \in Nat /\ HexPair(s, k + 3) \in Nat
        BY <3>1, PairType
      <3> QED
        BY <2>3, <3>2
    <2>5. PICK b : b = <<x>>
      OBVIOUS
    <2>6. b \in Seq(Int) /\ Len(b) = 1 /\ b[1] = x
      BY <2>4, <2>5
    <2>7. h[n] = Cat(b, h[n - 6])
      BY <1>3, <1>7, <2>2, <2>3, <2>5
    <2>8. CASE x >= 128
      BY <2>2, <2>6, <2>7, <2>8
    <2>9. CASE x < 128
      <3>1. EscapeAt(s, k) = [chars |-> <<HexToChar(SubSeq(s, k + 1, k + 4))>>, next |-> k + 4 + 1]
        <4>1. DigitsAfter(s[k]) = 4
          BY <1>7, <2>1 DEF DigitsAfter, LetterU, LetterX
        <4>2. k + DigitsAfter(s[k]) <= Len(s) /\ DigitsAfter(s[k]) > 0
          BY <2>2, <4>1
        <4>3. EscapeAt(s, k) = [chars |-> <<HexToChar(SubSeq(s, k + 1, k + DigitsAfter(s[k])))>>,
                                next |-> k + DigitsAfter(s[k]) + 1]
          BY <4>2, EscapeCases, Zenon
        <4> QED
          BY <4>1, <4>3
      <3>2. HexToChar(SubSeq(s, k + 1, k + 4)) = x
        BY <2>2, <2>3, <2>4, <2>9, FourRead
      <3>3. EscapeAt(s, k).chars = b /\ EscapeAt(s, k).next = k + 4 + 1
        BY <2>5, <3>1, <3>2
      <3>4. Len(s) + 1 - (k + 4 + 1) = n - 6 /\ ~(n < 2)
        BY <1>1, <1>2, <1>7, <2>1
      <3>5. g[n] = Cat(b, g[n - 6])
        BY <1>4, <1>7, <2>1, <3>3, <3>4, Zenon
      <3> QED
        BY <2>2, <2>6, <2>7, <3>5
    <2> QED
      BY <2>4, <2>8, <2>9
  <1>8. CASE s[i] = Backslash /\ ~(n >= 6 /\ s[i + 1] = LetterU)
             /\ n >= 2 /\ s[i + 1] \in Range(ShortEscape) \cup {Slash}
    <2>1. PICK k \in 1..Len(s) : k = i + 1
      BY <1>1, <1>2, <1>8
    <2>2. EscapeAt(s, k).chars \in Seq(Nat) /\ EscapeAt(s, k).next = k + 1
      BY <1>8, <2>1, EscapeChars
    <2>3. PICK b : b = EscapeAt(s, k).chars
      OBVIOUS
    <2>4. b \in Seq(Int)
      BY <2>2, <2>3
    <2>5. Len(s) + 1 - (k + 1) = n - 2 /\ n - 2 \in 0..(n - 1) /\ ~(n < 2)
      BY <1>1, <1>2, <1>8, <2>1
    <2>6. h[n] = Cat(b, h[n - 2])
      BY <1>3, <1>8, <2>1, <2>3
    <2>7. g[n] = Cat(b, g[n - 2])
      BY <1>4, <1>8, <2>1, <2>2, <2>3, <2>5
    <2> QED
      BY <2>4, <2>5, <2>6, <2>7
  <1>9. CASE s[i] = Backslash /\ ~(n >= 6 /\ s[i + 1] = LetterU)
             /\ ~(n >= 2 /\ s[i + 1] \in Range(ShortEscape) \cup {Slash})
    <2>1. h[n] = Cat(<<-1>>, h[n - 1])
      BY <1>3, <1>9
    <2>2. PICK b : b = <<-1>>
      OBVIOUS
    <2>3. b \in Seq(Int) /\ Len(b) > 0 /\ b[1] < 0
      BY <2>2
    <2> QED
      BY <1>2, <2>1, <2>2, <2>3
  <1> QED
    BY <1>6, <1>7, <1>8, <1>9

\* An ASCII string with any escapes of the standard is the same for a reader
\* that follows the standard and for this one.
LEMMA StandardIsRead ==
    ASSUME NEW s \in Seq(Nat), IsAscii(StandardStr(s))
    PROVE  GetStr(s) = StandardStr(s)
  <1>1. PICK h : StandardStr(s) = h[Len(s)] /\ Standing(h, s)
    BY StandardChosen
  <1>2. PICK g : GetStr(s) = g[Len(s)] /\ Substituting(g, s)
    BY SubstituteChosen DEF Substituting
  <1>3. Len(s) \in Nat
    OBVIOUS
  <1> DEFINE T == {n \in Nat : n <= Len(s) => h[n] \in Seq(Int) /\ (IsAscii(h[n]) => g[n] = h[n])}
  <1>4. ASSUME NEW n \in Nat, \A k \in 0..(n - 1) : k \in T
        PROVE  n \in T
    <2> SUFFICES ASSUME n <= Len(s)
                 PROVE  h[n] \in Seq(Int) /\ (IsAscii(h[n]) => g[n] = h[n])
      OBVIOUS
    <2>1. CASE n = 0
      <3>1. 0 \in 0..Len(s)
        BY <1>3
      <3>2. h[0] = <<>>
        BY <1>1, <3>1 DEF Standing, StandardStep
      <3>3. g[0] = <<>>
        <4>1. SubstituteStep(s, 0, g) = SubSeq(s, Len(s) - 0 + 1, Len(s))
          BY DEF SubstituteStep
        <4>2. SubSeq(s, Len(s) - 0 + 1, Len(s)) = <<>>
          BY <1>3
        <4> QED
          BY <1>2, <3>1, <4>1, <4>2 DEF Substituting
      <3>4. <<>> \in Seq(Int)
        OBVIOUS
      <3> QED
        BY <2>1, <3>2, <3>3, <3>4
    <2>2. CASE n > 0
      <3>1. n \in 1..Len(s)
        BY <1>3, <2>2
      <3> HIDE DEF T
      <3>2. PICK a, m : /\ a \in Seq(Int) /\ m \in 0..(n - 1)
                        /\ h[n] = Cat(a, h[m])
                        /\ \/ Len(a) > 0 /\ a[1] < 0
                           \/ g[n] = Cat(a, g[m])
                           \/ Len(a) = 1 /\ a[1] >= 128
        <4>1. OnePiece(h, g, n)
          BY <1>1, <1>2, <3>1, StandardOrSubstitute
        <4> QED
          BY <4>1 DEF OnePiece
      <3>3. m \in T /\ m <= Len(s)
        BY <1>3, <1>4, <3>2
      <3>4. h[m] \in Seq(Int) /\ (IsAscii(h[m]) => g[m] = h[m])
        BY <3>3 DEF T
      <3>5. PICK t \in Seq(Int) : t = h[m]
        BY <3>4
      <3>6. Cat(a, t) \in Seq(Int)
        BY <3>2 DEF Cat
      <3>7. ASSUME IsAscii(Cat(a, t))
            PROVE  g[n] = h[n]
        <4>1. IsAscii(t) /\ (Len(a) > 0 => ~(a[1] < 0) /\ ~(a[1] >= 128))
          BY <3>2, <3>7, AsciiParts
        <4>2. g[m] = h[m]
          BY <3>4, <3>5, <4>1
        <4>3. g[n] = Cat(a, g[m])
          <5>1. Len(a) = 1 => Len(a) > 0
            OBVIOUS
          <5> QED
            BY <3>2, <4>1, <5>1, Zenon
        <4> QED
          BY <3>2, <4>2, <4>3
      <3> QED
        BY <3>2, <3>5, <3>6, <3>7
    <2> QED
      BY <2>1, <2>2
  <1> HIDE DEF T
  <1>5. Nat \subseteq T
    BY <1>4, SetStrongInduction
  <1>6. Len(s) \in T
    BY <1>3, <1>5
  <1> QED
    BY <1>1, <1>2, <1>6 DEF T

-----------------------------------------------------------------------------
\* The functions that values are defined, written and read back by.

\* Their steps at a level, from those of the level below.
ValuesStep(inner) == Scalars \cup ({"obj"} \X Seq(Seq(Nat) \X inner)) \cup ({"arr"} \X Seq(inner))
OutputStep(o, n, inner) == [x \in Values[n] |-> Output(x, o, MaxNesting - n, inner)]
ReadValue(x, inner) ==
    CASE x[1] = "obj" -> Obj([i \in DOMAIN x[2] |-> <<x[2][i][1], inner[x[2][i][2]]>>])
      [] x[1] = "arr" -> Arr([i \in DOMAIN x[2] |-> inner[x[2][i]]])
      [] IsUint64(x)  -> NumberValue(x[2])
      [] OTHER        -> x
ReadStep(n, inner) == [x \in Values[n] |-> ReadValue(x, inner)]

\* The function g up to n.
IsValues(g, n) == g = [k \in 0..n |-> IF k = 0 THEN Scalars ELSE ValuesStep(g[k - 1])]
IsOutput(g, o, n) == g = [k \in 0..n |-> OutputStep(o, k, IF k = 0 THEN <<>> ELSE g[k - 1])]
IsReadBack(g, n) == g = [k \in 0..n |-> ReadStep(k, g[k - 1])]

LEMMA ValuesExist == \A n \in Nat : \E g : IsValues(g, n)
  <1> DEFINE T == {n \in Nat : \E g : IsValues(g, n)}
  <1>1. 0 \in T
    <2> DEFINE h == [k \in 0..0 |-> Scalars]
    <2>1. h = [k \in 0..0 |-> IF k = 0 THEN Scalars ELSE ValuesStep(h[k - 1])]
      <3>1. \A k \in 0..0 : h[k] = IF k = 0 THEN Scalars ELSE ValuesStep(h[k - 1])
        OBVIOUS
      <3>2. h = [k \in 0..0 |-> h[k]]
        OBVIOUS
      <3> HIDE DEF h
      <3> QED
        BY <3>1, <3>2
    <2>2. IsValues(h, 0)
      BY <2>1 DEF IsValues
    <2> QED
      BY <2>2
  <1>2. ASSUME NEW n \in Nat, n \in T
        PROVE  n + 1 \in T
    <2>1. PICK g : IsValues(g, n)
      BY <1>2
    <2>2. \A k \in 0..n : g[k] = IF k = 0 THEN Scalars ELSE ValuesStep(g[k - 1])
      BY <2>1 DEF IsValues
    <2> DEFINE h == [k \in 0..(n + 1) |-> IF k = n + 1 THEN ValuesStep(g[n]) ELSE g[k]]
    <2>3. \A k \in 0..n : h[k] = g[k]
      OBVIOUS
    <2>4. h[n + 1] = ValuesStep(g[n])
      OBVIOUS
    <2>5. h = [k \in 0..(n + 1) |-> h[k]]
      OBVIOUS
    <2> HIDE DEF h
    <2>6. ASSUME NEW k \in 0..(n + 1)
          PROVE  h[k] = IF k = 0 THEN Scalars ELSE ValuesStep(h[k - 1])
      <3>1. CASE k = n + 1
        <4>1. k # 0 /\ k - 1 = n /\ n \in 0..n
          BY <3>1
        <4>2. h[k - 1] = g[n]
          BY <2>3, <4>1
        <4> QED
          BY <2>4, <3>1, <4>1, <4>2
      <3>2. CASE k \in 0..n
        <4>1. k # 0 => k - 1 \in 0..n
          BY <3>2
        <4>2. k # 0 => h[k - 1] = g[k - 1]
          BY <2>3, <4>1
        <4> QED
          BY <2>2, <2>3, <3>2, <4>2
      <3> QED
        BY <3>1, <3>2
    <2>7. IsValues(h, n + 1)
      BY <2>5, <2>6 DEF IsValues
    <2> QED
      BY <2>7
  <1> HIDE DEF T
  <1>3. Nat \subseteq T
    BY <1>1, <1>2, SetInduction
  <1> QED
    BY <1>3 DEF T

\* The values of each level.
LEMMA ValuesUnfold ==
    /\ Values[0] = Scalars
    /\ \A n \in 1..MaxNesting : Values[n] = ValuesStep(Values[n - 1])
  <1>1. Values = CHOOSE g : g = [n \in 0..MaxNesting |->
                     IF n = 0 THEN Scalars
                     ELSE LET inner == g[n - 1]
                          IN  Scalars \cup ({"obj"} \X Seq(Seq(Nat) \X inner)) \cup ({"arr"} \X Seq(inner))]
    BY DEF Values
  <1>2. Values = CHOOSE g : IsValues(g, MaxNesting)
    BY <1>1 DEF IsValues, ValuesStep
  <1>3. IsValues(Values, MaxNesting)
    BY <1>2, ValuesExist, NestingAssumption
  <1>4. \A k \in 0..MaxNesting : Values[k] = IF k = 0 THEN Scalars ELSE ValuesStep(Values[k - 1])
    BY <1>3 DEF IsValues
  <1>5. 0 \in 0..MaxNesting
    BY NestingAssumption
  <1>6. \A n \in 1..MaxNesting : n \in 0..MaxNesting /\ n # 0
    BY NestingAssumption
  <1> QED
    BY <1>4, <1>5, <1>6

LEMMA OutputExists == \A o : \A n \in Nat : \E g : IsOutput(g, o, n)
  <1> TAKE o
  <1> DEFINE T == {n \in Nat : \E g : IsOutput(g, o, n)}
  <1>1. 0 \in T
    <2> DEFINE h == [k \in 0..0 |-> OutputStep(o, k, <<>>)]
    <2>1. h = [k \in 0..0 |-> OutputStep(o, k, IF k = 0 THEN <<>> ELSE h[k - 1])]
      <3>1. \A k \in 0..0 : h[k] = OutputStep(o, k, <<>>) /\ k = 0
        OBVIOUS
      <3>2. h = [k \in 0..0 |-> h[k]]
        OBVIOUS
      <3> HIDE DEF h
      <3>3. \A k \in 0..0 : h[k] = OutputStep(o, k, IF k = 0 THEN <<>> ELSE h[k - 1])
        BY <3>1
      <3> QED
        BY <3>2, <3>3
    <2> HIDE DEF h
    <2>2. IsOutput(h, o, 0)
      BY <2>1 DEF IsOutput
    <2> QED
      BY <2>2
  <1>2. ASSUME NEW n \in Nat, n \in T
        PROVE  n + 1 \in T
    <2>1. PICK g : IsOutput(g, o, n)
      BY <1>2
    <2>2. \A k \in 0..n : g[k] = OutputStep(o, k, IF k = 0 THEN <<>> ELSE g[k - 1])
      BY <2>1 DEF IsOutput
    <2> DEFINE h == [k \in 0..(n + 1) |-> IF k = n + 1 THEN OutputStep(o, n + 1, g[n]) ELSE g[k]]
    <2>3. \A k \in 0..n : h[k] = g[k]
      OBVIOUS
    <2>4. h[n + 1] = OutputStep(o, n + 1, g[n])
      OBVIOUS
    <2>5. h = [k \in 0..(n + 1) |-> h[k]]
      OBVIOUS
    <2> HIDE DEF h
    <2>6. ASSUME NEW k \in 0..(n + 1)
          PROVE  h[k] = OutputStep(o, k, IF k = 0 THEN <<>> ELSE h[k - 1])
      <3>1. CASE k = n + 1
        <4>1. k # 0 /\ k - 1 = n /\ n \in 0..n
          BY <3>1
        <4>2. h[k - 1] = g[n]
          BY <2>3, <4>1
        <4> QED
          BY <2>4, <3>1, <4>1, <4>2
      <3>2. CASE k \in 0..n
        <4>1. k # 0 => k - 1 \in 0..n
          BY <3>2
        <4>2. k # 0 => h[k - 1] = g[k - 1]
          BY <2>3, <4>1
        <4> QED
          BY <2>2, <2>3, <3>2, <4>2
      <3> QED
        BY <3>1, <3>2
    <2>7. IsOutput(h, o, n + 1)
      BY <2>5, <2>6 DEF IsOutput
    <2> QED
      BY <2>7
  <1> HIDE DEF T
  <1>3. Nat \subseteq T
    BY <1>1, <1>2, SetInduction
  <1> QED
    BY <1>3 DEF T

\* What is written at each level.
LEMMA WriteUnfold ==
    ASSUME NEW o
    PROVE  \E g : /\ \A v : WriteString(v, o) = g[MaxNesting][v]
                  /\ \A x \in Values[0] : g[0][x] = Output(x, o, MaxNesting, <<>>)
                  /\ \A n \in 1..MaxNesting : \A x \in Values[n] : g[n][x] = Output(x, o, MaxNesting - n, g[n - 1])
  <1> DEFINE f == CHOOSE g : g = [n \in 0..MaxNesting |->
                     [x \in Values[n] |-> Output(x, o, MaxNesting - n, IF n = 0 THEN <<>> ELSE g[n - 1])]]
  <1>1. f = CHOOSE g : IsOutput(g, o, MaxNesting)
    BY DEF IsOutput, OutputStep
  <1>2. \A v : WriteString(v, o) = f[MaxNesting][v]
    BY DEF WriteString
  <1> HIDE DEF f
  <1>3. IsOutput(f, o, MaxNesting)
    BY <1>1, OutputExists, NestingAssumption
  <1>4. \A k \in 0..MaxNesting : f[k] = OutputStep(o, k, IF k = 0 THEN <<>> ELSE f[k - 1])
    BY <1>3 DEF IsOutput
  <1>5. \A x \in Values[0] : f[0][x] = Output(x, o, MaxNesting, <<>>)
    <2>1. 0 \in 0..MaxNesting /\ MaxNesting - 0 = MaxNesting
      BY NestingAssumption
    <2>2. f[0] = OutputStep(o, 0, <<>>)
      BY <1>4, <2>1
    <2> QED
      BY <2>1, <2>2 DEF OutputStep
  <1>6. \A n \in 1..MaxNesting : \A x \in Values[n] : f[n][x] = Output(x, o, MaxNesting - n, f[n - 1])
    <2> TAKE n \in 1..MaxNesting
    <2>1. n \in 0..MaxNesting /\ n # 0
      BY NestingAssumption
    <2>2. f[n] = OutputStep(o, n, f[n - 1])
      BY <1>4, <2>1
    <2> QED
      BY <2>2 DEF OutputStep
  <1> QED
    BY <1>2, <1>5, <1>6

LEMMA ReadBackExists == \A n \in Nat : \E g : IsReadBack(g, n)
  <1> DEFINE T == {n \in Nat : \E g : IsReadBack(g, n)}
  <1>1. \A g, h : ReadStep(0, g) = ReadStep(0, h)
    <2> TAKE g, h
    <2>1. ASSUME NEW x \in Values[0]
          PROVE  ReadValue(x, g) = ReadValue(x, h)
      <3>1. x \in Scalars
        BY ValuesUnfold
      <3>2. x[1] # "obj" /\ x[1] # "arr"
        BY <3>1 DEF Scalars, Null
      <3> QED
        BY <3>2 DEF ReadValue
    <2> QED
      BY <2>1 DEF ReadStep
  <1>2. 0 \in T
    <2> DEFINE h == [k \in 0..0 |-> ReadStep(0, <<>>)]
    <2>1. \A k \in 0..0 : h[k] = ReadStep(0, <<>>) /\ k = 0
      OBVIOUS
    <2>2. h = [k \in 0..0 |-> h[k]]
      OBVIOUS
    <2> HIDE DEF h
    <2>3. \A k \in 0..0 : h[k] = ReadStep(k, h[k - 1])
      BY <1>1, <2>1
    <2>4. IsReadBack(h, 0)
      BY <2>2, <2>3 DEF IsReadBack
    <2> QED
      BY <2>4
  <1>3. ASSUME NEW n \in Nat, n \in T
        PROVE  n + 1 \in T
    <2>1. PICK g : IsReadBack(g, n)
      BY <1>3
    <2>2. \A k \in 0..n : g[k] = ReadStep(k, g[k - 1])
      BY <2>1 DEF IsReadBack
    <2> DEFINE h == [k \in 0..(n + 1) |-> IF k = n + 1 THEN ReadStep(n + 1, g[n]) ELSE g[k]]
    <2>3. \A k \in 0..n : h[k] = g[k]
      OBVIOUS
    <2>4. h[n + 1] = ReadStep(n + 1, g[n])
      OBVIOUS
    <2>5. h = [k \in 0..(n + 1) |-> h[k]]
      OBVIOUS
    <2> HIDE DEF h
    <2>6. ASSUME NEW k \in 0..(n + 1)
          PROVE  h[k] = ReadStep(k, h[k - 1])
      <3>1. CASE k = n + 1
        <4>1. k - 1 = n /\ n \in 0..n
          BY <3>1
        <4>2. h[k - 1] = g[n]
          BY <2>3, <4>1
        <4> QED
          BY <2>4, <3>1, <4>1, <4>2
      <3>2. CASE k = 0
        <4>1. 0 \in 0..n
          OBVIOUS
        <4>2. h[0] = ReadStep(0, g[0 - 1])
          BY <2>2, <2>3, <4>1
        <4> QED
          BY <1>1, <3>2, <4>2
      <3>3. CASE k \in 1..n
        <4>1. k - 1 \in 0..n /\ k \in 0..n
          BY <3>3
        <4>2. h[k - 1] = g[k - 1]
          BY <2>3, <4>1
        <4> QED
          BY <2>2, <2>3, <4>1, <4>2
      <3> QED
        BY <3>1, <3>2, <3>3
    <2>7. IsReadBack(h, n + 1)
      BY <2>5, <2>6 DEF IsReadBack
    <2> QED
      BY <2>7
  <1> HIDE DEF T
  <1>4. Nat \subseteq T
    BY <1>2, <1>3, SetInduction
  <1> QED
    BY <1>4 DEF T

\* g gives the values of each level as they are read back.
ReadsBack(g) ==
    \A n \in 0..MaxNesting : \A x \in Values[n] : g[n][x] = ReadValue(x, g[n - 1])

\* What is read at each level.
LEMMA ReadUnfold == \E g : ReadsBack(g) /\ \A v : AsRead(v) = g[MaxNesting][v]
  <1> DEFINE f == CHOOSE read : read = [n \in 0..MaxNesting |-> [x \in Values[n] |->
          CASE x[1] = "obj" -> Obj([i \in DOMAIN x[2] |-> <<x[2][i][1], read[n - 1][x[2][i][2]]>>])
            [] x[1] = "arr" -> Arr([i \in DOMAIN x[2] |-> read[n - 1][x[2][i]]])
            [] IsUint64(x)  -> NumberValue(x[2])
            [] OTHER        -> x]]
  <1>1. f = CHOOSE g : IsReadBack(g, MaxNesting)
    BY DEF IsReadBack, ReadStep, ReadValue
  <1>2. \A v : AsRead(v) = f[MaxNesting][v]
    BY DEF AsRead
  <1> HIDE DEF f
  <1>3. IsReadBack(f, MaxNesting)
    BY <1>1, ReadBackExists, NestingAssumption
  <1>4. \A k \in 0..MaxNesting : f[k] = ReadStep(k, f[k - 1])
    BY <1>3 DEF IsReadBack
  <1>5. ReadsBack(f)
    BY <1>4 DEF ReadsBack, ReadStep
  <1> QED
    BY <1>2, <1>5

-----------------------------------------------------------------------------
\* A value put where another has been put.

\* A container with one of its values replaced, as its members.
LEMMA ReplacedObj ==
    ASSUME NEW V, NEW ms \in Seq(V \X V), NEW k \in 1..Len(ms), NEW x
    PROVE  Replaced(Obj(ms), k, x) = Obj([i \in 1..Len(ms) |-> IF i = k THEN <<ms[k][1], x>> ELSE ms[i]])
  <1> DEFINE c == Obj(ms)
             new == [ms EXCEPT ![k][2] = x]
  <1>1. c[1] = "obj" /\ c[2] = ms /\ Type(c) = "obj"
    BY DEF Obj, Type, IsUint64
  <1> HIDE DEF c
  <1>2. Replaced(c, k, x) = Obj(new)
    BY <1>1 DEF Replaced
  <1>3. new = [i \in 1..Len(ms) |-> IF i = k THEN [ms[k] EXCEPT ![2] = x] ELSE ms[i]]
    <2>1. DOMAIN ms = 1..Len(ms)
      OBVIOUS
    <2>2. \A i \in 1..Len(ms) : new[i] = IF i = k THEN [ms[k] EXCEPT ![2] = x] ELSE ms[i]
      BY <2>1
    <2>3. new = [i \in 1..Len(ms) |-> new[i]]
      BY <2>1
    <2> HIDE DEF new
    <2> QED
      BY <2>2, <2>3
  <1>4. [ms[k] EXCEPT ![2] = x] = <<ms[k][1], x>>
    <2>1. ms[k] \in V \X V
      OBVIOUS
    <2> QED
      BY <2>1
  <1>5. new = [i \in 1..Len(ms) |-> IF i = k THEN <<ms[k][1], x>> ELSE ms[i]]
    BY <1>3, <1>4
  <1> HIDE DEF new
  <1> QED
    BY <1>2, <1>5 DEF c

LEMMA ReplacedArr ==
    ASSUME NEW V, NEW vs \in Seq(V), NEW k \in 1..Len(vs), NEW x
    PROVE  Replaced(Arr(vs), k, x) = Arr([i \in 1..Len(vs) |-> IF i = k THEN x ELSE vs[i]])
  <1> DEFINE c == Arr(vs)
             new == [vs EXCEPT ![k] = x]
  <1>1. c[1] = "arr" /\ c[2] = vs /\ Type(c) = "arr"
    BY DEF Arr, Type, IsUint64
  <1> HIDE DEF c
  <1>2. Replaced(c, k, x) = Arr(new)
    BY <1>1 DEF Replaced
  <1>3. new = [i \in 1..Len(vs) |-> IF i = k THEN x ELSE vs[i]]
    OBVIOUS
  <1> HIDE DEF new
  <1> QED
    BY <1>2, <1>3 DEF c

\* Only the last replacement counts.
LEMMA ReplacedTwice ==
    ASSUME NEW c, IsContainer(c), NEW k \in DOMAIN Children(c), NEW x, NEW y
    PROVE  Replaced(Replaced(c, k, x), k, y) = Replaced(c, k, y)
  <1>1. ASSUME NEW V, NEW vs \in Seq(V), c = Arr(vs)
        PROVE  Replaced(Replaced(c, k, x), k, y) = Replaced(c, k, y)
    <2>1. k \in 1..Len(vs)
      BY <1>1 DEF Arr, Children
    <2> DEFINE U == V \cup {x}
    <2>2. PICK new : new = [i \in 1..Len(vs) |-> IF i = k THEN x ELSE vs[i]]
      OBVIOUS
    <2>3. new \in Seq(U) /\ Len(new) = Len(vs) /\ \A i \in 1..Len(vs) : new[i] = IF i = k THEN x ELSE vs[i]
      BY <2>2
    <2>4. Replaced(c, k, x) = Arr(new)
      BY <1>1, <2>1, <2>2, ReplacedArr
    <2> HIDE DEF U
    <2>5. Replaced(Arr(new), k, y) = Arr([i \in 1..Len(new) |-> IF i = k THEN y ELSE new[i]])
      BY <2>1, <2>3, ReplacedArr
    <2>6. [i \in 1..Len(new) |-> IF i = k THEN y ELSE new[i]] = [i \in 1..Len(vs) |-> IF i = k THEN y ELSE vs[i]]
      BY <2>3
    <2>7. Replaced(c, k, y) = Arr([i \in 1..Len(vs) |-> IF i = k THEN y ELSE vs[i]])
      BY <1>1, <2>1, ReplacedArr
    <2> QED
      BY <2>4, <2>5, <2>6, <2>7
  <1>2. ASSUME NEW V, NEW ms \in Seq(V \X V), c = Obj(ms)
        PROVE  Replaced(Replaced(c, k, x), k, y) = Replaced(c, k, y)
    <2>1. k \in 1..Len(ms)
      <3>1. c[1] = "obj" /\ c[2] = ms
        BY <1>2 DEF Obj
      <3>2. DOMAIN Children(c) = DOMAIN ms
        BY <3>1 DEF Children
      <3> QED
        BY <3>2
    <2> DEFINE U == V \cup {x}
    <2>2. PICK new : new = [i \in 1..Len(ms) |-> IF i = k THEN <<ms[k][1], x>> ELSE ms[i]]
      OBVIOUS
    <2>3. Len(ms) \in Nat /\ \A i \in 1..Len(ms) : ms[i] \in V \X V
      OBVIOUS
    <2>4. <<ms[k][1], x>> \in U \X U
      BY <2>1, <2>3
    <2>5. \A i \in 1..Len(ms) : new[i] \in U \X U
      BY <2>2, <2>3, <2>4
    <2>6. new \in Seq(U \X U) /\ Len(new) = Len(ms)
      BY <2>2, <2>3, <2>5
    <2>7. /\ \A i \in 1..Len(ms) : i # k => new[i] = ms[i]
          /\ new[k][1] = ms[k][1]
      BY <2>1, <2>2
    <2>8. Replaced(c, k, x) = Obj(new)
      BY <1>2, <2>1, <2>2, ReplacedObj
    <2> HIDE DEF U
    <2>9. Replaced(Obj(new), k, y) = Obj([i \in 1..Len(new) |-> IF i = k THEN <<new[k][1], y>> ELSE new[i]])
      <3>1. k \in 1..Len(new)
        BY <2>1, <2>6
      <3> QED
        BY <2>6, <3>1, ReplacedObj
    <2>10. [i \in 1..Len(new) |-> IF i = k THEN <<new[k][1], y>> ELSE new[i]]
             = [i \in 1..Len(ms) |-> IF i = k THEN <<ms[k][1], y>> ELSE ms[i]]
      BY <2>6, <2>7
    <2>11. Replaced(c, k, y) = Obj([i \in 1..Len(ms) |-> IF i = k THEN <<ms[k][1], y>> ELSE ms[i]])
      BY <1>2, <2>1, ReplacedObj
    <2> QED
      BY <2>8, <2>9, <2>10, <2>11
  <1> QED
    BY <1>1, <1>2 DEF IsContainer

LEMMA AppendAs ==
    ASSUME NEW V, NEW s \in Seq(V), NEW x, NEW k, k = Len(s) + 1
    PROVE  Append(s, x) = [i \in 1..k |-> IF i = k THEN x ELSE s[i]]
  <1>1. PICK a : a = Append(s, x)
    OBVIOUS
  <1>2. a \in Seq(V \cup {x}) /\ Len(a) = k /\ a[k] = x /\ \A i \in 1..k : i # k => a[i] = s[i]
    BY <1>1
  <1>3. a = [i \in 1..k |-> a[i]]
    BY <1>2
  <1> HIDE <1>1
  <1>4. a = [i \in 1..k |-> IF i = k THEN x ELSE s[i]]
    BY <1>2, <1>3
  <1> QED
    BY <1>1, <1>4

\* The value added last is the one that is replaced.
LEMMA ReplacedLast ==
    ASSUME NEW c, IsContainer(c), NEW nm, NEW x, NEW y
    PROVE  Replaced(More(c, nm, x), Len(Children(c)) + 1, y) = More(c, nm, y)
  <1>1. ASSUME NEW V, NEW vs \in Seq(V), c = Arr(vs)
        PROVE  Replaced(More(c, nm, x), Len(Children(c)) + 1, y) = More(c, nm, y)
    <2>1. c[1] = "arr" /\ c[2] = vs /\ Type(c) = "arr" /\ Children(c) = vs
      BY <1>1 DEF Arr, Type, IsUint64, Children
    <2>2. More(c, nm, x) = Arr(Append(vs, x)) /\ More(c, nm, y) = Arr(Append(vs, y))
      BY <2>1 DEF More, AddElement
    <2>3. PICK k : k = Len(vs) + 1
      OBVIOUS
    <2>4. PICK new : new = Append(vs, x)
      OBVIOUS
    <2>5. new \in Seq(V \cup {x}) /\ Len(new) = k /\ k \in 1..Len(new) /\ k \in Nat
          /\ \A i \in 1..k : i # k => new[i] = vs[i]
      BY <2>3, <2>4
    <2>6. PICK U : U = V \cup {x}
      OBVIOUS
    <2>7. new \in Seq(U)
      BY <2>5, <2>6
    <2>8. Replaced(Arr(new), k, y) = Arr([i \in 1..Len(new) |-> IF i = k THEN y ELSE new[i]])
      BY <2>5, <2>7, ReplacedArr
    <2>9. [i \in 1..Len(new) |-> IF i = k THEN y ELSE new[i]] = Append(vs, y)
      <3>1. Append(vs, y) = [i \in 1..k |-> IF i = k THEN y ELSE vs[i]]
        BY <2>3, AppendAs
      <3> QED
        BY <2>5, <3>1
    <2> QED
      BY <2>1, <2>2, <2>3, <2>4, <2>8, <2>9
  <1>2. ASSUME NEW V, NEW ms \in Seq(V \X V), c = Obj(ms)
        PROVE  Replaced(More(c, nm, x), Len(Children(c)) + 1, y) = More(c, nm, y)
    <2>1. c[1] = "obj" /\ c[2] = ms /\ Type(c) = "obj" /\ Children(c) = [i \in DOMAIN ms |-> ms[i][2]]
      BY <1>2 DEF Obj, Type, IsUint64, Children
    <2>2. More(c, nm, x) = Obj(Append(ms, <<nm, x>>)) /\ More(c, nm, y) = Obj(Append(ms, <<nm, y>>))
      BY <2>1 DEF More, AddMember
    <2>3. PICK k : k = Len(ms) + 1
      OBVIOUS
    <2>4. Len(Children(c)) + 1 = k
      BY <2>1, <2>3
    <2>5. PICK new : new = Append(ms, <<nm, x>>)
      OBVIOUS
    <2>6. PICK U : U = V \cup {nm, x}
      OBVIOUS
    <2>7. ms \in Seq(U \X U) /\ <<nm, x>> \in U \X U
      BY <2>6
    <2>8. new \in Seq(U \X U) /\ Len(new) = k /\ k \in 1..Len(new) /\ k \in Nat
          /\ new[k] = <<nm, x>> /\ \A i \in 1..k : i # k => new[i] = ms[i]
      BY <2>3, <2>5, <2>7
    <2>9. Replaced(Obj(new), k, y) = Obj([i \in 1..Len(new) |-> IF i = k THEN <<new[k][1], y>> ELSE new[i]])
      <3>1. new \in Seq(U \X U) /\ k \in 1..Len(new)
        BY <2>8
      <3> QED
        BY ONLY <3>1, ReplacedObj, Zenon
    <2>10. [i \in 1..Len(new) |-> IF i = k THEN <<new[k][1], y>> ELSE new[i]] = Append(ms, <<nm, y>>)
      <3>1. Append(ms, <<nm, y>>) = [i \in 1..k |-> IF i = k THEN <<nm, y>> ELSE ms[i]]
        BY <2>3, AppendAs
      <3>2. new[k][1] = nm
        BY <2>8
      <3> QED
        BY <2>8, <3>1, <3>2
    <2> QED
      BY <2>4, <2>2, <2>5, <2>9, <2>10
  <1> QED
    BY <1>1, <1>2 DEF IsContainer

\* What is put at a place last is what is there.
LEMMA PutTwice == \A p \in Seq(Nat) : \A v, x, y : ValidPath(v, p) => Put(Put(v, p, x), p, y) = Put(v, p, y)
  <1> DEFINE T == {n \in Nat : \A p \in Seq(Nat) : \A v, x, y :
                     Len(p) = n /\ ValidPath(v, p) => Put(Put(v, p, x), p, y) = Put(v, p, y)}
  <1>1. 0 \in T
    <2> SUFFICES ASSUME NEW p \in Seq(Nat), NEW v, NEW x, NEW y, Len(p) = 0
                 PROVE  Put(Put(v, p, x), p, y) = Put(v, p, y)
      OBVIOUS
    <2>1. p = <<>>
      OBVIOUS
    <2> QED
      BY <2>1, PutEmpty
  <1>2. ASSUME NEW n \in Nat, n \in T
        PROVE  n + 1 \in T
    <2> SUFFICES ASSUME NEW q \in Seq(Nat), NEW v, NEW x, NEW y, Len(q) = n + 1, ValidPath(v, q)
                 PROVE  Put(Put(v, q, x), q, y) = Put(v, q, y)
      OBVIOUS
    <2> DEFINE p == SubSeq(q, 1, n)
               c == At(v, p)
               k == q[n + 1]
    <2>1. p \in Seq(Nat) /\ Len(p) = n /\ n \in 0..Len(q)
      OBVIOUS
    <2>2. \A w : \A j \in 0..n : Holder(w, q, j) = Holder(w, p, j)
      BY <2>1, HolderPrefix
    <2>3. ValidPath(v, p)
      <3>1. \A j \in 1..n : p[j] = q[j] /\ j \in 1..Len(q) /\ j - 1 \in 0..n
        OBVIOUS
      <3> HIDE DEF p
      <3> QED
        BY <2>1, <2>2, <3>1 DEF ValidPath
    <2>4. IsContainer(c) /\ k \in DOMAIN Children(c)
      <3>1. n + 1 \in 1..Len(q) /\ (n + 1) - 1 = n
        OBVIOUS
      <3>2. Holder(v, q, n) = c
        BY DEF Holder
      <3> HIDE DEF c
      <3> QED
        BY <3>1, <3>2 DEF ValidPath
    <2>5. \A w, z : Put(w, q, z) = Put(w, p, Replaced(At(w, p), k, z))
      BY PutNext
    <2> HIDE DEF p, c, k
    <2>6. PICK a : a = Replaced(c, k, x)
      OBVIOUS
    <2>7. PICK u : u = Put(v, p, a)
      OBVIOUS
    <2>8. At(u, p) = a
      BY <2>1, <2>3, <2>7, PutValid DEF PutThere
    <2>9. Put(v, q, x) = u
      BY <2>5, <2>6, <2>7 DEF c
    <2>10. Put(u, q, y) = Put(u, p, Replaced(a, k, y))
      BY <2>5, <2>8
    <2>11. Replaced(a, k, y) = Replaced(c, k, y)
      BY <2>4, <2>6, ReplacedTwice
    <2>12. Put(Put(v, p, a), p, Replaced(c, k, y)) = Put(v, p, Replaced(c, k, y))
      BY <1>2, <2>1, <2>3
    <2>13. Put(v, q, y) = Put(v, p, Replaced(c, k, y))
      BY <2>5 DEF c
    <2> QED
      BY <2>7, <2>9, <2>10, <2>11, <2>12, <2>13
  <1> HIDE DEF T
  <1>3. Nat \subseteq T
    BY <1>1, <1>2, SetInduction
  <1> SUFFICES ASSUME NEW p \in Seq(Nat), NEW v, NEW x, NEW y, ValidPath(v, p)
               PROVE  Put(Put(v, p, x), p, y) = Put(v, p, y)
    OBVIOUS
  <1>4. Len(p) \in T
    BY <1>3
  <1> QED
    BY <1>4 DEF T

-----------------------------------------------------------------------------
\* The reader's state as a value.

State(v, c, s, n, f) == [v |-> v, c |-> c, s |-> s, n |-> n, f |-> f]
Current == State(value, current, stack, name, frames)

AfterOf(e) ==
    CASE e = "json"       -> "end"
      [] e = "pair_value" -> "after_pair"
      [] OTHER            -> "after_element"

\* The whole value with x added, and where x is then.
Placed(r, x) == IF r.c = NullPointer THEN x ELSE Put(r.v, r.c, More(At(r.v, r.c), r.n, x))
PlaceAt(r)   == IF r.c = NullPointer THEN <<>> ELSE Append(r.c, Len(Children(At(r.v, r.c))) + 1)
Kept(r)      == IF r.c = NullPointer THEN <<>> ELSE r.c
Pushed(r)    == IF r.c = NullPointer THEN r.s ELSE Append(r.s, r.c)

\* The state r with y read where it expects a value, and one in the container
\* that has begun there.
Filled(r, y, nm) == State(Placed(r, y), Kept(r), r.s, nm, Append(Front(r.f), AfterOf(Last(r.f))))
Inside(r, x, nm, g) ==
    State(Placed(r, x), PlaceAt(r), Pushed(r), nm, Append(Append(Front(r.f), AfterOf(Last(r.f))), g))

EndsAt(e, t) == (t = Mark("}") /\ e \in ObjEnds) \/ (t = Mark("]") /\ e \in ArrEnds)

\* What the reader takes, and its state then.
CanRead(r, t) ==
    LET e == Last(r.f)
    IN  \/ e \in BeforeValue /\ (IsScalar(t) \/ t \in {Mark("{"), Mark("[")})
        \/ e \in BeforePair /\ t[1] = "quoted"
        \/ EndsAt(e, t)
        \/ t = Mark(":") /\ e = "colon"
        \/ t = Mark(",") /\ e \in {"after_pair", "after_element"}
        \/ t = Blank

GoingOn(r, g) == State(r.v, r.c, r.s, r.n, Append(Front(r.f), g))
After(r, t) ==
    LET e == Last(r.f)
    IN  IF t = Blank THEN r
        ELSE IF EndsAt(e, t)
        THEN State(r.v, IF r.c = <<>> THEN r.c ELSE Last(r.s), IF r.c = <<>> THEN r.s ELSE Front(r.s), r.n, Front(r.f))
        ELSE IF e \in BeforeValue /\ IsScalar(t) THEN Filled(r, Scalar(t), r.n)
        ELSE IF t = Mark("{") THEN Inside(r, Obj(<<>>), r.n, "first_pair")
        ELSE IF t = Mark("[") THEN Inside(r, Arr(<<>>), r.n, "first_element")
        ELSE IF e \in BeforePair THEN State(r.v, r.c, r.s, GetStr(t[2]), Append(Front(r.f), "colon"))
        ELSE IF t = Mark(":") THEN GoingOn(r, "pair_value")
        ELSE GoingOn(r, IF e = "after_pair" THEN "next_pair" ELSE "next_element")

Takes(r, t, q) == r.f # <<"end">> /\ CanRead(r, t) /\ q = After(r, t)

LEMMA CurrentTakes ==
    ASSUME NEW t
    PROVE  CanRead(Current, t) = Accepts(t)
  BY DEF CanRead, Accepts, Current, State, Expects, EndsAt, Ends

\* Marks, blanks and scalars are told apart by their kind.
LEMMA TokenKinds ==
    /\ \A c : Mark(c)[1] = "mark" /\ Mark(c)[2] = c /\ ~IsScalar(Mark(c)) /\ Mark(c) # Blank
    /\ ~IsScalar(Blank) /\ Blank[1] = "blank"
    /\ \A t : IsScalar(t) => t[1] \in {"quoted", "word", "real", "number"}
  BY DEF Mark, Blank, IsScalar

\* The step of the reader is that of its state.
LEMMA AcceptIsAfter ==
    ASSUME NEW t, Accept(t), NEW S, frames \in Seq(S), Len(frames) > 0
    PROVE  Current' = After(Current, t)
  <1> DEFINE r == Current
             e == Last(frames)
  <1>1. /\ r.v = value /\ r.c = current /\ r.s = stack /\ r.n = name /\ r.f = frames
        /\ Current' = State(value', current', stack', name', frames')
    BY DEF Current, State
  <1>2. Expects = e /\ AfterValue = AfterOf(e)
    BY DEF Expects, AfterValue, AfterOf
  <1>3. /\ \A x : Added(x) = Placed(r, x)
        /\ AddedAt = PlaceAt(r)
    BY <1>1 DEF Added, Placed, AddedAt, PlaceAt, More
  <1>4. \A c : Mark(c) # Blank /\ ~IsScalar(Mark(c)) /\ Mark(c)[1] = "mark" /\ Mark(c)[2] = c
    BY TokenKinds
  <1>5. \A a, b : Front(frames) \o <<a, b>> = Append(Append(Front(frames), a), b)
    BY TwoOnTop
  <1>6. CASE ReadScalar(t)
    <2>1. e \in BeforeValue /\ IsScalar(t) /\ t # Blank /\ ~EndsAt(e, t)
      BY <1>2, <1>4, <1>6, TokenKinds DEF ReadScalar, EndsAt
    <2>2. After(r, t) = Filled(r, Scalar(t), name)
      BY <1>1, <2>1 DEF After
    <2>3. value' = Placed(r, Scalar(t)) /\ current' = Kept(r) /\ stack' = stack /\ name' = name
      BY <1>1, <1>3, <1>6 DEF ReadScalar, NewScalar, Kept
    <2>4. frames' = Append(Front(frames), AfterOf(e))
      BY <1>2, <1>6 DEF ReadScalar, Expect
    <2> QED
      BY <1>1, <2>2, <2>3, <2>4 DEF Filled
  <1>7. CASE BeginObj(t)
    <2>1. e \in BeforeValue /\ t = Mark("{") /\ t # Blank /\ ~EndsAt(e, t) /\ ~IsScalar(t)
      BY <1>2, <1>4, <1>7 DEF BeginObj, EndsAt
    <2>2. After(r, t) = Inside(r, Obj(<<>>), name, "first_pair")
      BY <1>1, <2>1 DEF After
    <2>3. value' = Placed(r, Obj(<<>>)) /\ current' = PlaceAt(r) /\ stack' = Pushed(r) /\ name' = name
      BY <1>1, <1>3, <1>7 DEF BeginObj, BeginCompound, Pushed
    <2>4. frames' = Append(Append(Front(frames), AfterOf(e)), "first_pair")
      <3>1. frames' = Front(frames) \o <<AfterOf(e), "first_pair">>
        BY <1>2, <1>7 DEF BeginObj
      <3> QED
        BY <1>5, <3>1, Zenon
    <2> QED
      BY <1>1, <2>2, <2>3, <2>4 DEF Inside
  <1>8. CASE BeginArray(t)
    <2>1. e \in BeforeValue /\ t = Mark("[") /\ t # Blank /\ ~EndsAt(e, t) /\ ~IsScalar(t) /\ t # Mark("{")
      BY <1>2, <1>4, <1>8 DEF BeginArray, EndsAt
    <2>2. After(r, t) = Inside(r, Arr(<<>>), name, "first_element")
      BY <1>1, <2>1 DEF After
    <2>3. value' = Placed(r, Arr(<<>>)) /\ current' = PlaceAt(r) /\ stack' = Pushed(r) /\ name' = name
      BY <1>1, <1>3, <1>8 DEF BeginArray, BeginCompound, Pushed
    <2>4. frames' = Append(Append(Front(frames), AfterOf(e)), "first_element")
      <3>1. frames' = Front(frames) \o <<AfterOf(e), "first_element">>
        BY <1>2, <1>8 DEF BeginArray
      <3> QED
        BY <1>5, <3>1, Zenon
    <2> QED
      BY <1>1, <2>2, <2>3, <2>4 DEF Inside
  <1>9. CASE ReadEnd(t)
    <2>1. EndsAt(e, t) /\ t # Blank
      BY <1>2, <1>4, <1>9 DEF ReadEnd, Ends, EndsAt
    <2>2. After(r, t) = State(value, IF current = <<>> THEN current ELSE Last(stack),
                              IF current = <<>> THEN stack ELSE Front(stack), name, Front(frames))
      BY <1>1, <2>1 DEF After
    <2>3. /\ value' = value /\ name' = name /\ frames' = Front(frames)
          /\ current' = IF current = <<>> THEN current ELSE Last(stack)
          /\ stack' = IF current = <<>> THEN stack ELSE Front(stack)
      BY <1>9 DEF ReadEnd, EndCompound
    <2> QED
      BY <1>1, <2>2, <2>3
  <1>10. CASE NewName(t)
    <2>1. e \in BeforePair /\ t[1] = "quoted"
      BY <1>2, <1>10 DEF NewName
    <2>2. t # Blank /\ ~EndsAt(e, t) /\ e \notin BeforeValue /\ t # Mark("{") /\ t # Mark("[")
      BY <1>4, <2>1, TokenKinds DEF EndsAt, BeforePair, BeforeValue
    <2>3. After(r, t) = State(value, current, stack, GetStr(t[2]), Append(Front(frames), "colon"))
      BY <1>1, <2>1, <2>2 DEF After
    <2>4. /\ value' = value /\ current' = current /\ stack' = stack /\ name' = GetStr(t[2])
          /\ frames' = Append(Front(frames), "colon")
      BY <1>10 DEF NewName, Expect
    <2> QED
      BY <1>1, <2>3, <2>4
  <1>11. CASE ReadMark(t)
    <2>1. value' = value /\ current' = current /\ stack' = stack /\ name' = name
      BY <1>11 DEF ReadMark
    <2>2. CASE t = Mark(":") /\ e = "colon" /\ frames' = Append(Front(frames), "pair_value")
      <3>1. t # Blank /\ ~EndsAt(e, t) /\ e \notin BeforeValue /\ t # Mark("{") /\ t # Mark("[") /\ e \notin BeforePair
        BY <1>4, <2>2 DEF EndsAt, BeforePair, BeforeValue
      <3>2. After(r, t) = GoingOn(r, "pair_value")
        BY <1>1, <2>2, <3>1 DEF After
      <3> QED
        BY <1>1, <2>1, <2>2, <3>2 DEF GoingOn
    <2>3. CASE t = Mark(",") /\ e = "after_pair" /\ frames' = Append(Front(frames), "next_pair")
      <3>1. t # Blank /\ ~EndsAt(e, t) /\ e \notin BeforeValue /\ t # Mark("{") /\ t # Mark("[") /\ e \notin BeforePair
              /\ t # Mark(":")
        BY <1>4, <2>3 DEF EndsAt, BeforePair, BeforeValue
      <3>2. After(r, t) = GoingOn(r, "next_pair")
        BY <1>1, <2>3, <3>1 DEF After
      <3> QED
        BY <1>1, <2>1, <2>3, <3>2 DEF GoingOn
    <2>4. CASE t = Mark(",") /\ e = "after_element" /\ frames' = Append(Front(frames), "next_element")
      <3>1. t # Blank /\ ~EndsAt(e, t) /\ e \notin BeforeValue /\ t # Mark("{") /\ t # Mark("[") /\ e \notin BeforePair
              /\ t # Mark(":")
        BY <1>4, <2>4 DEF EndsAt, BeforePair, BeforeValue
      <3>2. After(r, t) = GoingOn(r, "next_element")
        BY <1>1, <2>4, <3>1 DEF After
      <3> QED
        BY <1>1, <2>1, <2>4, <3>2 DEF GoingOn
    <2> QED
      BY <1>2, <1>11, <2>2, <2>3, <2>4 DEF ReadMark, Expect
  <1>12. CASE Skip(t)
    <2>1. After(r, t) = r
      BY <1>12 DEF After, Skip
    <2> QED
      BY <1>1, <1>12, <2>1 DEF Skip, Current, State
  <1> QED
    BY <1>6, <1>7, <1>8, <1>9, <1>10, <1>11, <1>12 DEF Accept

\* c points to a container in v.
OpenAt(v, c) == c \in Seq(Nat) /\ c # NullPointer /\ ValidPath(v, c) /\ IsContainer(At(v, c))

\* What a frame can be.
Expectation == BeforeValue \cup BeforePair \cup {"colon", "after_pair", "after_element", "end"}

\* The reader expects a value.
Slot(r) ==
    /\ r.n \in Seq(Nat)
    /\ r.f \in Seq(Expectation) /\ Len(r.f) > 0 /\ Last(r.f) \in BeforeValue
    /\ r.s \in Seq(Seq(Nat))
    /\ r.c = NullPointer \/ OpenAt(r.v, r.c)

\* One more on top.
LEMMA TopAdded ==
    ASSUME NEW S, NEW g \in Seq(S), NEW x \in S
    PROVE  /\ Append(g, x) \in Seq(S)
           /\ Len(Append(g, x)) > 0
           /\ Last(Append(g, x)) = x
           /\ Front(Append(g, x)) = g
  <1>1. Append(g, x) \in Seq(S)
    OBVIOUS
  <1>2. PICK h \in Seq(S) : h = Append(g, x)
    BY <1>1
  <1>3. Len(h) = Len(g) + 1 /\ h[Len(g) + 1] = x /\ Len(g) \in Nat
    BY <1>2
  <1>4. Last(h) = x
    BY <1>3 DEF Last
  <1>5. Front(h) = g
    <2>1. Front(h) = SubSeq(h, 1, Len(g))
      BY <1>3 DEF Front
    <2>2. SubSeq(h, 1, Len(g)) = g
      BY <1>2
    <2> QED
      BY <2>1, <2>2
  <1>6. Len(h) > 0
    BY <1>3
  <1> QED
    BY <1>2, <1>4, <1>5, <1>6, Zenon

\* The top replaced.
LEMMA TopFrame ==
    ASSUME NEW S, NEW f \in Seq(S), Len(f) > 0, NEW x \in S
    PROVE  /\ Front(f) \in Seq(S)
           /\ Append(Front(f), x) \in Seq(S)
           /\ Len(Append(Front(f), x)) > 0
           /\ Last(Append(Front(f), x)) = x
           /\ Front(Append(Front(f), x)) = Front(f)
  <1>1. Front(f) \in Seq(S)
    BY DEF Front
  <1> QED
    BY <1>1, TopAdded, Zenon

LEMMA NotEnded ==
    ASSUME NEW f, Last(f) # "end"
    PROVE  f # <<"end">>
  <1>1. Last(<<"end">>) = "end"
    BY DEF Last
  <1> QED
    BY <1>1

LEMMA AfterOfTypes ==
    ASSUME NEW e
    PROVE  AfterOf(e) \in Expectation
  BY DEF AfterOf, Expectation

\* The fields of a state.
LEMMA StateFields ==
    ASSUME NEW v, NEW c, NEW s, NEW n, NEW f, NEW r, r = State(v, c, s, n, f)
    PROVE  r.v = v /\ r.c = c /\ r.s = s /\ r.n = n /\ r.f = f
  BY DEF State

\* Blanks are skipped.
LEMMA BlankTaken ==
    ASSUME NEW r, Last(r.f) # "end"
    PROVE  Takes(r, Blank, r)
  BY NotEnded DEF Takes, CanRead, After

\* A value begins where one is expected.
LEMMA ValueTaken ==
    ASSUME NEW r, Slot(r)
    PROVE  /\ \A t : IsScalar(t) => Takes(r, t, Filled(r, Scalar(t), r.n))
           /\ Takes(r, Mark("{"), Inside(r, Obj(<<>>), r.n, "first_pair"))
           /\ Takes(r, Mark("["), Inside(r, Arr(<<>>), r.n, "first_element"))
           /\ Last(r.f) # "end"
  <1> DEFINE e == Last(r.f)
  <1>1. e \in BeforeValue
    BY DEF Slot
  <1>2. e # "end"
    BY <1>1 DEF BeforeValue
  <1>3. r.f # <<"end">>
    BY <1>2, NotEnded
  <1>4. \A c : Mark(c) # Blank /\ ~IsScalar(Mark(c)) /\ Mark(c)[1] = "mark" /\ Mark(c)[2] = c
    BY TokenKinds
  <1>5. ASSUME NEW t, IsScalar(t)
        PROVE  Takes(r, t, Filled(r, Scalar(t), r.n))
    <2>1. t # Blank /\ ~EndsAt(e, t)
      BY <1>4, <1>5, TokenKinds DEF EndsAt
    <2>2. After(r, t) = Filled(r, Scalar(t), r.n)
      BY <1>1, <1>5, <2>1 DEF After
    <2>3. CanRead(r, t)
      BY <1>1, <1>5 DEF CanRead
    <2> QED
      BY <1>3, <2>2, <2>3 DEF Takes
  <1>6. Takes(r, Mark("{"), Inside(r, Obj(<<>>), r.n, "first_pair"))
    <2> DEFINE t == Mark("{")
    <2>1. t # Blank /\ ~EndsAt(e, t) /\ ~IsScalar(t)
      BY <1>4 DEF EndsAt
    <2>2. After(r, t) = Inside(r, Obj(<<>>), r.n, "first_pair")
      BY <2>1 DEF After
    <2>3. CanRead(r, t)
      BY <1>1 DEF CanRead
    <2> QED
      BY <1>3, <2>2, <2>3 DEF Takes
  <1>7. Takes(r, Mark("["), Inside(r, Arr(<<>>), r.n, "first_element"))
    <2> DEFINE t == Mark("[")
    <2>1. t # Blank /\ ~EndsAt(e, t) /\ ~IsScalar(t) /\ t # Mark("{")
      BY <1>4 DEF EndsAt
    <2>2. After(r, t) = Inside(r, Arr(<<>>), r.n, "first_element")
      BY <2>1 DEF After
    <2>3. CanRead(r, t)
      BY <1>1 DEF CanRead
    <2> QED
      BY <1>3, <2>2, <2>3 DEF Takes
  <1> QED
    BY <1>2, <1>5, <1>6, <1>7

\* Where a value is added is where it is, and what is put there takes its place.
LEMMA PlacedThere ==
    ASSUME NEW r, r.c = NullPointer \/ OpenAt(r.v, r.c), NEW x, IsContainer(x)
    PROVE  /\ OpenAt(Placed(r, x), PlaceAt(r))
           /\ At(Placed(r, x), PlaceAt(r)) = x
           /\ \A y : Put(Placed(r, x), PlaceAt(r), y) = Placed(r, y)
  <1>1. CASE r.c = NullPointer
    <2>1. Placed(r, x) = x /\ PlaceAt(r) = <<>> /\ \A y : Placed(r, y) = y
      BY <1>1 DEF Placed, PlaceAt
    <2>2. <<>> \in Seq(Nat) /\ <<>> # NullPointer /\ 1..Len(<<>>) = {}
      BY DEF NullPointer
    <2>3. ValidPath(x, <<>>)
      BY <2>2 DEF ValidPath
    <2> QED
      BY <2>1, <2>2, <2>3, AtEmpty, PutEmpty DEF OpenAt
  <1>2. CASE r.c # NullPointer /\ OpenAt(r.v, r.c)
    <2>1. PICK v : v = r.v
      OBVIOUS
    <2>2. PICK c \in Seq(Nat) : c = r.c
      BY <1>2 DEF OpenAt
    <2>3. PICK h : h = At(v, c)
      OBVIOUS
    <2>4. ValidPath(v, c) /\ IsContainer(h)
      BY <1>2, <2>1, <2>2, <2>3 DEF OpenAt
    <2>5. PICK nm : nm = r.n
      OBVIOUS
    <2>6. PICK m : m = More(h, nm, x)
      OBVIOUS
    <2>7. PICK u : u = Put(v, c, m)
      OBVIOUS
    <2>8. PICK k \in Nat : k = Len(Children(h)) + 1 /\ k > 0
      BY <2>4, ContainerChildren
    <2>9. Append(c, k) \in Seq(Nat)
      OBVIOUS
    <2>10. PICK q \in Seq(Nat) : q = Append(c, k)
      BY <2>9
    <2>11. Placed(r, x) = u /\ PlaceAt(r) = q /\ \A y : Placed(r, y) = Put(v, c, More(h, nm, y))
      BY <1>2, <2>1, <2>2, <2>3, <2>5, <2>6, <2>7, <2>8, <2>10 DEF Placed, PlaceAt
    <2>12. IsContainer(m) /\ Children(m) = Append(Children(h), x)
      BY <2>4, <2>6, MoreChildren
    <2>13. /\ Len(Children(m)) = k /\ Children(m)[k] = x /\ k \in DOMAIN Children(m)
      <3>1. PICK V : Children(h) \in Seq(V)
        BY <2>4, ContainerChildren
      <3>2. PICK a \in Seq(V) : a = Children(h)
        BY <3>1
      <3>3. Len(Append(a, x)) = Len(a) + 1 /\ Append(a, x)[Len(a) + 1] = x
              /\ Len(a) + 1 \in DOMAIN Append(a, x)
        OBVIOUS
      <3> QED
        BY <2>8, <2>12, <3>2, <3>3
    <2>14. PutThere(v, c, m)
      BY <2>4, PutValid
    <2>15. At(u, c) = m
      BY <2>7, <2>14 DEF PutThere
    <2>16. PICK n \in Nat : n = Len(c)
      OBVIOUS
    <2>17. Len(q) = n + 1 /\ q[n + 1] = k /\ (\A j \in 1..n : q[j] = c[j]) /\ SubSeq(q, 1, n) = c
      BY <2>10, <2>16
    <2>18. At(u, q) = x
      <3>1. \A j \in 1..n : c[j] = q[j]
        BY <2>17
      <3>2. At(u, q) = Child(At(u, c), q[n + 1])
        BY <2>16, <2>17, <3>1, AtNext
      <3> QED
        BY <2>13, <2>15, <2>17, <3>2 DEF Child
    <2>19. \A y : Put(u, q, y) = Put(v, c, More(h, nm, y))
      <3> TAKE y
      <3>1. Put(u, q, y) = Put(u, c, Replaced(At(u, c), k, y))
        <4>1. Put(u, q, y) = Put(u, SubSeq(q, 1, n), Replaced(At(u, SubSeq(q, 1, n)), q[n + 1], y))
          BY <2>17, PutNext
        <4> QED
          BY <2>17, <4>1
      <3>2. Replaced(m, k, y) = More(h, nm, y)
        BY <2>4, <2>6, <2>8, ReplacedLast
      <3>3. Put(u, c, More(h, nm, y)) = Put(v, c, More(h, nm, y))
        BY <2>4, <2>7, PutTwice
      <3> QED
        BY <2>15, <3>1, <3>2, <3>3
    <2>20. ValidPath(u, q)
      <3> SUFFICES ASSUME NEW j \in 1..Len(q)
                   PROVE  /\ IsContainer(Holder(u, q, j - 1))
                          /\ q[j] \in DOMAIN Children(Holder(u, q, j - 1))
        BY DEF ValidPath
      <3>1. \A i \in 0..n : Holder(u, q, i) = Holder(u, c, i)
        <4>1. n \in 0..Len(q)
          BY <2>17
        <4>2. \A i \in 0..n : Holder(u, q, i) = Holder(u, SubSeq(q, 1, n), i)
          BY <4>1, HolderPrefix
        <4> QED
          BY <2>17, <4>2
      <3>2. CASE j = n + 1
        <4>1. Holder(u, q, n) = m
          BY <2>15, <2>17 DEF Holder
        <4> QED
          BY <2>12, <2>13, <2>17, <3>2, <4>1
      <3>3. CASE j \in 1..n
        <4>1. j - 1 \in 0..(Len(c) - 1) /\ j - 1 \in 0..n
          BY <2>16, <3>3
        <4>2. Holder(u, q, j - 1) = Holder(u, c, j - 1)
          BY <3>1, <4>1
        <4>3. /\ IsContainer(Holder(u, c, j - 1))
              /\ Len(Children(Holder(u, c, j - 1))) = Len(Children(Holder(v, c, j - 1)))
          BY <2>7, <2>14, <4>1 DEF PutThere
        <4>4. IsContainer(Holder(v, c, j - 1)) /\ c[j] \in DOMAIN Children(Holder(v, c, j - 1))
          BY <2>4, <2>16, <3>3 DEF ValidPath
        <4>5. DOMAIN Children(Holder(u, c, j - 1)) = DOMAIN Children(Holder(v, c, j - 1))
          BY <4>3, <4>4, ContainerChildren
        <4> QED
          BY <2>17, <3>3, <4>2, <4>3, <4>4, <4>5
      <3> QED
        BY <2>17, <3>2, <3>3
    <2>21. q # NullPointer
      <3>1. NullPointer[Len(NullPointer)] = 0
        BY DEF NullPointer
      <3>2. q[Len(q)] = k
        BY <2>17
      <3> QED
        BY <2>8, <3>1, <3>2
    <2> QED
      BY <2>11, <2>18, <2>19, <2>20, <2>21 DEF OpenAt
  <1> QED
    BY <1>1, <1>2

\* The reader inside a container that has begun in r.
LEMMA InsideFields ==
    ASSUME NEW r, Slot(r), NEW x, NEW nm, NEW g \in Expectation
    PROVE  LET q == Inside(r, x, nm, g)
           IN  /\ q.v = Placed(r, x) /\ q.c = PlaceAt(r) /\ q.s = Pushed(r) /\ q.n = nm
               /\ q.f \in Seq(Expectation) /\ Len(q.f) > 0 /\ Last(q.f) = g
               /\ Front(q.f) = Append(Front(r.f), AfterOf(Last(r.f)))
  <1> DEFINE q == Inside(r, x, nm, g)
             e == Append(Front(r.f), AfterOf(Last(r.f)))
  <1>1. q.v = Placed(r, x) /\ q.c = PlaceAt(r) /\ q.s = Pushed(r) /\ q.n = nm /\ q.f = Append(e, g)
    BY DEF Inside, State
  <1>2. e \in Seq(Expectation)
    BY TopFrame, AfterOfTypes DEF Slot
  <1> HIDE DEF q, e
  <1>3. Append(e, g) \in Seq(Expectation) /\ Len(Append(e, g)) > 0 /\ Last(Append(e, g)) = g /\ Front(Append(e, g)) = e
    BY <1>2, TopAdded
  <1> QED
    BY <1>1, <1>3 DEF q, e

\* A value may begin there.
LEMMA InsideSlot ==
    ASSUME NEW r, Slot(r), NEW x, IsContainer(x), NEW nm \in Seq(Nat), NEW g \in BeforeValue
    PROVE  Slot(Inside(r, x, nm, g))
  <1> DEFINE q == Inside(r, x, nm, g)
  <1>1. g \in Expectation
    BY DEF Expectation
  <1>2. /\ q.v = Placed(r, x) /\ q.c = PlaceAt(r) /\ q.s = Pushed(r) /\ q.n = nm
        /\ q.f \in Seq(Expectation) /\ Len(q.f) > 0 /\ Last(q.f) = g
    BY <1>1, InsideFields
  <1> HIDE DEF q
  <1>3. OpenAt(Placed(r, x), PlaceAt(r))
    BY PlacedThere DEF Slot
  <1>4. Pushed(r) \in Seq(Seq(Nat))
    <2>1. CASE r.c = NullPointer
      BY <2>1 DEF Slot, Pushed
    <2>2. CASE r.c # NullPointer
      <3>1. PICK S : S = Seq(Nat)
        OBVIOUS
      <3>2. r.s \in Seq(S) /\ r.c \in S
        BY <2>2, <3>1 DEF Slot, OpenAt
      <3>3. Append(r.s, r.c) \in Seq(S)
        BY <3>2
      <3> QED
        BY <2>2, <3>1, <3>3 DEF Pushed
    <2> QED
      BY <2>1, <2>2
  <1> QED
    BY <1>2, <1>3, <1>4 DEF Slot, q

\* A value that is read there is one more in the container.
LEMMA InsideFilled ==
    ASSUME NEW r, Slot(r), NEW x, IsContainer(x), NEW nm, NEW g \in Expectation, NEW y, NEW nm2
    PROVE  Filled(Inside(r, x, nm, g), y, nm2) = Inside(r, More(x, nm, y), nm2, AfterOf(g))
  <1> DEFINE q == Inside(r, x, nm, g)
  <1>1. /\ q.v = Placed(r, x) /\ q.c = PlaceAt(r) /\ q.s = Pushed(r) /\ q.n = nm
        /\ Last(q.f) = g /\ Front(q.f) = Append(Front(r.f), AfterOf(Last(r.f)))
    BY InsideFields
  <1> HIDE DEF q
  <1>2. /\ OpenAt(Placed(r, x), PlaceAt(r))
        /\ At(Placed(r, x), PlaceAt(r)) = x
        /\ \A z : Put(Placed(r, x), PlaceAt(r), z) = Placed(r, z)
    BY PlacedThere DEF Slot
  <1>3. q.c # NullPointer
    BY <1>1, <1>2 DEF OpenAt
  <1>4. Placed(q, y) = Put(Placed(r, x), PlaceAt(r), More(x, nm, y))
    BY <1>1, <1>2, <1>3 DEF Placed
  <1>5. Placed(q, y) = Placed(r, More(x, nm, y))
    BY <1>2, <1>4
  <1>6. Kept(q) = PlaceAt(r)
    BY <1>1, <1>3 DEF Kept
  <1>7. Filled(q, y, nm2) = State(Placed(r, More(x, nm, y)), PlaceAt(r), Pushed(r), nm2,
                                  Append(Append(Front(r.f), AfterOf(Last(r.f))), AfterOf(g)))
    BY <1>1, <1>5, <1>6 DEF Filled
  <1>8. Inside(r, More(x, nm, y), nm2, AfterOf(g))
          = State(Placed(r, More(x, nm, y)), PlaceAt(r), Pushed(r), nm2,
                  Append(Append(Front(r.f), AfterOf(Last(r.f))), AfterOf(g)))
    BY DEF Inside
  <1> QED
    BY <1>7, <1>8 DEF q

\* Another expectation there.
LEMMA InsideGoesOn ==
    ASSUME NEW r, Slot(r), NEW x, NEW nm, NEW g \in Expectation, NEW h, NEW nm2
    PROVE  LET q == Inside(r, x, nm, g)
           IN  State(q.v, q.c, q.s, nm2, Append(Front(q.f), h)) = Inside(r, x, nm2, h)
  <1> DEFINE q == Inside(r, x, nm, g)
  <1>1. /\ q.v = Placed(r, x) /\ q.c = PlaceAt(r) /\ q.s = Pushed(r)
        /\ Front(q.f) = Append(Front(r.f), AfterOf(Last(r.f)))
    BY InsideFields
  <1> HIDE DEF q
  <1>2. State(q.v, q.c, q.s, nm2, Append(Front(q.f), h))
          = State(Placed(r, x), PlaceAt(r), Pushed(r), nm2, Append(Append(Front(r.f), AfterOf(Last(r.f))), h))
    BY <1>1
  <1>3. Inside(r, x, nm2, h)
          = State(Placed(r, x), PlaceAt(r), Pushed(r), nm2, Append(Append(Front(r.f), AfterOf(Last(r.f))), h))
    BY DEF Inside
  <1> QED
    BY <1>2, <1>3 DEF q

\* What is read there besides values.
LEMMA MarksTaken ==
    ASSUME NEW r, Slot(r), NEW x, NEW nm
    PROVE  /\ \A g \in Expectation \ {"end"} : Takes(Inside(r, x, nm, g), Blank, Inside(r, x, nm, g))
           /\ \A g \in BeforePair : \A s : Takes(Inside(r, x, nm, g), Quoted(s), Inside(r, x, GetStr(s), "colon"))
           /\ Takes(Inside(r, x, nm, "colon"), Mark(":"), Inside(r, x, nm, "pair_value"))
           /\ Takes(Inside(r, x, nm, "after_pair"), Mark(","), Inside(r, x, nm, "next_pair"))
           /\ Takes(Inside(r, x, nm, "after_element"), Mark(","), Inside(r, x, nm, "next_element"))
  <1>1. ASSUME NEW g \in Expectation \ {"end"}
        PROVE  Last(Inside(r, x, nm, g).f) = g /\ Inside(r, x, nm, g).n = nm /\ Inside(r, x, nm, g).f # <<"end">>
    <2>1. Last(Inside(r, x, nm, g).f) = g /\ Inside(r, x, nm, g).n = nm
      BY InsideFields
    <2> QED
      BY <2>1, NotEnded
  <1>2. \A c : Mark(c) # Blank /\ ~IsScalar(Mark(c)) /\ Mark(c)[1] = "mark" /\ Mark(c)[2] = c
    BY TokenKinds
  <1>3. ASSUME NEW g \in Expectation \ {"end"}
        PROVE  Takes(Inside(r, x, nm, g), Blank, Inside(r, x, nm, g))
    BY <1>1, BlankTaken
  <1>4. ASSUME NEW g \in BeforePair, NEW s
        PROVE  Takes(Inside(r, x, nm, g), Quoted(s), Inside(r, x, GetStr(s), "colon"))
    <2> DEFINE q == Inside(r, x, nm, g)
               t == Quoted(s)
    <2>1. g \in Expectation \ {"end"} /\ g \notin BeforeValue
      BY DEF BeforePair, BeforeValue, Expectation
    <2>2. Last(q.f) = g /\ q.f # <<"end">>
      BY <1>1, <2>1
    <2>3. t[1] = "quoted" /\ t[2] = s /\ t # Blank
      BY DEF Quoted, Blank
    <2>4. State(q.v, q.c, q.s, GetStr(s), Append(Front(q.f), "colon")) = Inside(r, x, GetStr(s), "colon")
      BY <2>1, InsideGoesOn
    <2> HIDE DEF q, t
    <2>5. t # Mark("{") /\ t # Mark("[") /\ ~EndsAt(g, t)
      BY <1>2, <2>3 DEF EndsAt
    <2>6. After(q, t) = State(q.v, q.c, q.s, GetStr(s), Append(Front(q.f), "colon"))
      BY <2>1, <2>2, <2>3, <2>5 DEF After
    <2>7. CanRead(q, t)
      BY <2>2, <2>3 DEF CanRead
    <2> QED
      BY <2>2, <2>4, <2>6, <2>7 DEF Takes, q, t
  <1>5. ASSUME NEW g, NEW m, NEW h,
               \/ g = "colon" /\ m = ":" /\ h = "pair_value"
               \/ g = "after_pair" /\ m = "," /\ h = "next_pair"
               \/ g = "after_element" /\ m = "," /\ h = "next_element"
        PROVE  Takes(Inside(r, x, nm, g), Mark(m), Inside(r, x, nm, h))
    <2> DEFINE q == Inside(r, x, nm, g)
               t == Mark(m)
    <2>1. g \in Expectation \ {"end"} /\ g \notin BeforeValue /\ g \notin BeforePair
      BY <1>5 DEF BeforePair, BeforeValue, Expectation
    <2>2. Last(q.f) = g /\ q.n = nm /\ q.f # <<"end">>
      BY <1>1, <2>1
    <2>3. t # Blank /\ t # Mark("{") /\ t # Mark("[") /\ t # Mark("}") /\ t # Mark("]")
            /\ (t = Mark(":") <=> m = ":") /\ (t = Mark(",") <=> m = ",")
      BY <1>2, <1>5
    <2>4. State(q.v, q.c, q.s, nm, Append(Front(q.f), h)) = Inside(r, x, nm, h)
      BY <2>1, InsideGoesOn
    <2> HIDE DEF q, t
    <2>5. ~EndsAt(g, t)
      BY <2>3 DEF EndsAt
    <2>6. After(q, t) = GoingOn(q, h)
      BY <1>5, <2>1, <2>2, <2>3, <2>5 DEF After
    <2>7. CanRead(q, t)
      BY <1>5, <2>2, <2>3 DEF CanRead
    <2> QED
      BY <2>2, <2>4, <2>6, <2>7 DEF Takes, GoingOn, q, t
  <1>6. /\ Takes(Inside(r, x, nm, "colon"), Mark(":"), Inside(r, x, nm, "pair_value"))
        /\ Takes(Inside(r, x, nm, "after_pair"), Mark(","), Inside(r, x, nm, "next_pair"))
        /\ Takes(Inside(r, x, nm, "after_element"), Mark(","), Inside(r, x, nm, "next_element"))
    BY <1>5
  <1> QED
    BY <1>3, <1>4, <1>6, Zenon

\* The end of the container.
LEMMA CloseTaken ==
    ASSUME NEW r, Slot(r), NEW x, NEW nm, NEW g \in Expectation \ {"end"}, NEW t, EndsAt(g, t)
    PROVE  Takes(Inside(r, x, nm, g), t, Filled(r, x, nm))
  <1> DEFINE q == Inside(r, x, nm, g)
  <1>1. /\ q.v = Placed(r, x) /\ q.c = PlaceAt(r) /\ q.s = Pushed(r) /\ q.n = nm
        /\ Last(q.f) = g /\ Front(q.f) = Append(Front(r.f), AfterOf(Last(r.f)))
    BY InsideFields
  <1> HIDE DEF q
  <1>2. q.f # <<"end">>
    BY <1>1, NotEnded
  <1>3. t # Blank
    BY TokenKinds DEF EndsAt
  <1>4. CanRead(q, t)
    BY <1>1 DEF CanRead
  <1>5. After(q, t) = State(q.v, IF q.c = <<>> THEN q.c ELSE Last(q.s), IF q.c = <<>> THEN q.s ELSE Front(q.s),
                            q.n, Front(q.f))
    BY <1>1, <1>3 DEF After
  <1>6. /\ Kept(r) = IF q.c = <<>> THEN q.c ELSE Last(q.s)
        /\ r.s = IF q.c = <<>> THEN q.s ELSE Front(q.s)
    <2>1. CASE r.c = NullPointer
      <3>1. q.c = <<>> /\ q.s = r.s /\ Kept(r) = <<>>
        BY <1>1, <2>1 DEF PlaceAt, Pushed, Kept
      <3> QED
        BY <3>1
    <2>2. CASE r.c # NullPointer
      <3>1. PICK S : S = Seq(Nat)
        OBVIOUS
      <3>2. r.s \in Seq(S) /\ r.c \in S
        BY <2>2, <3>1 DEF Slot, OpenAt
      <3>3. q.s = Append(r.s, r.c) /\ Kept(r) = r.c
        BY <1>1, <2>2 DEF Pushed, Kept
      <3>4. Last(q.s) = r.c /\ Front(q.s) = r.s
        BY <3>2, <3>3, TopAdded
      <3>5. q.c # <<>>
        <4>1. PICK k : q.c = Append(r.c, k)
          BY <1>1, <2>2 DEF PlaceAt
        <4>2. r.c \in Seq(Nat)
          BY <3>1, <3>2
        <4> QED
          BY <4>1, <4>2
      <3> QED
        BY <3>3, <3>4, <3>5
    <2> QED
      BY <2>1, <2>2
  <1>7. After(q, t) = State(Placed(r, x), Kept(r), r.s, nm, Append(Front(r.f), AfterOf(Last(r.f))))
    BY <1>1, <1>5, <1>6
  <1> QED
    BY <1>2, <1>4, <1>7 DEF Takes, Filled, q

-----------------------------------------------------------------------------
\* The reader takes the tokens of ts one by one, from r to q.
Along(f, ts, r, q) == f[0] = r /\ f[Len(ts)] = q /\ \A i \in 1..Len(ts) : Takes(f[i - 1], ts[i], f[i])
Reads(r, ts, q) == \E f : Along(f, ts, r, q)

LEMMA ReadsNothing == \A r : Reads(r, <<>>, r)
  <1> TAKE r
  <1> DEFINE f == [i \in 0..0 |-> r]
  <1>1. f[0] = r /\ Len(<<>>) = 0 /\ 1..0 = {}
    OBVIOUS
  <1> HIDE DEF f
  <1>2. Along(f, <<>>, r, r)
    BY <1>1 DEF Along
  <1> QED
    BY <1>2 DEF Reads

LEMMA ReadsOne ==
    ASSUME NEW r, NEW t, NEW q, Takes(r, t, q)
    PROVE  Reads(r, <<t>>, q)
  <1> DEFINE f == [i \in 0..1 |-> IF i = 0 THEN r ELSE q]
  <1>1. f[0] = r /\ f[1] = q
    OBVIOUS
  <1> HIDE DEF f
  <1>2. PICK ts : ts = <<t>>
    OBVIOUS
  <1>3. Len(ts) = 1 /\ ts[1] = t /\ 1 - 1 = 0
    BY <1>2
  <1>4. \A i \in 1..1 : i = 1
    OBVIOUS
  <1>5. \A i \in 1..Len(ts) : Takes(f[i - 1], ts[i], f[i])
    BY <1>1, <1>3, <1>4
  <1>6. Along(f, ts, r, q)
    BY <1>1, <1>3, <1>5 DEF Along
  <1> QED
    BY <1>2, <1>6 DEF Reads

LEMMA ReadsCat ==
    ASSUME NEW S, NEW ts \in Seq(S), NEW us \in Seq(S), NEW r, NEW q, NEW s, Reads(r, ts, q), Reads(q, us, s)
    PROVE  Reads(r, Cat(ts, us), s)
  <1>1. PICK f : Along(f, ts, r, q)
    BY DEF Reads
  <1>2. PICK g : Along(g, us, q, s)
    BY DEF Reads
  <1>3. PICK m \in Nat : m = Len(ts)
    OBVIOUS
  <1>4. PICK n \in Nat : n = Len(us)
    OBVIOUS
  <1>5. PICK vs : vs = Cat(ts, us)
    OBVIOUS
  <1>6. /\ Len(vs) = m + n
        /\ \A i \in 1..m : vs[i] = ts[i]
        /\ \A i \in 1..n : vs[m + i] = us[i]
    BY <1>3, <1>4, <1>5 DEF Cat
  <1>7. f[0] = r /\ f[m] = q /\ \A i \in 1..m : Takes(f[i - 1], ts[i], f[i])
    BY <1>1, <1>3 DEF Along
  <1>8. g[0] = q /\ g[n] = s /\ \A i \in 1..n : Takes(g[i - 1], us[i], g[i])
    BY <1>2, <1>4 DEF Along
  <1> DEFINE h == [i \in 0..(m + n) |-> IF i <= m THEN f[i] ELSE g[i - m]]
  <1>9. \A i \in 0..m : h[i] = f[i]
    OBVIOUS
  <1>10. \A i \in 1..n : h[m + i] = g[i]
    OBVIOUS
  <1> HIDE DEF h
  <1>11. h[0] = r
    BY <1>7, <1>9
  <1>12. h[m + n] = s
    <2>1. CASE n = 0
      <3>1. m + n = m /\ m \in 0..m /\ g[0] = g[n]
        BY <2>1
      <3> QED
        BY <1>7, <1>8, <1>9, <3>1
    <2>2. CASE n # 0
      <3>1. n \in 1..n
        BY <2>2
      <3> QED
        BY <1>8, <1>10, <3>1
    <2> QED
      BY <2>1, <2>2
  <1>13. ASSUME NEW i \in 1..(m + n)
         PROVE  Takes(h[i - 1], vs[i], h[i])
    <2>1. CASE i \in 1..m
      <3>1. i \in 0..m /\ i - 1 \in 0..m
        BY <2>1
      <3>2. h[i] = f[i] /\ h[i - 1] = f[i - 1]
        BY <1>9, <3>1
      <3> QED
        BY <1>6, <1>7, <2>1, <3>2
    <2>2. CASE i \notin 1..m
      <3>1. PICK k \in 1..n : i = m + k
        <4>1. i - m \in 1..n /\ i = m + (i - m)
          BY <2>2
        <4> QED
          BY <4>1
      <3>2. vs[i] = us[k] /\ h[i] = g[k]
        BY <1>6, <1>10, <3>1
      <3>3. h[i - 1] = g[k - 1]
        <4>1. CASE k = 1
          <5>1. i - 1 = m /\ m \in 0..m /\ k - 1 = 0
            BY <3>1, <4>1
          <5> QED
            BY <1>7, <1>8, <1>9, <5>1
        <4>2. CASE k # 1
          <5>1. k - 1 \in 1..n /\ i - 1 = m + (k - 1)
            BY <3>1, <4>2
          <5> QED
            BY <1>10, <5>1
        <4> QED
          BY <4>1, <4>2
      <3> QED
        BY <1>8, <3>2, <3>3
    <2> QED
      BY <2>1, <2>2
  <1>14. Along(h, vs, r, s)
    BY <1>6, <1>11, <1>12, <1>13 DEF Along
  <1> QED
    BY <1>5, <1>14 DEF Reads

\* The first of them.
LEMMA ReadsHead ==
    ASSUME NEW S, NEW ts \in Seq(S), ts # <<>>, NEW r, NEW q, Reads(r, ts, q)
    PROVE  \E s : Takes(r, Head(ts), s) /\ Reads(s, Tail(ts), q)
  <1>1. PICK f : Along(f, ts, r, q)
    BY DEF Reads
  <1>2. PICK n \in Nat : Len(ts) = n + 1
    <2>1. Len(ts) - 1 \in Nat /\ Len(ts) = (Len(ts) - 1) + 1
      OBVIOUS
    <2> QED
      BY <2>1
  <1>3. PICK us : us = Tail(ts)
    OBVIOUS
  <1>4. Len(us) = n /\ (\A i \in 1..n : us[i] = ts[i + 1]) /\ Head(ts) = ts[1]
    BY <1>2, <1>3
  <1>5. f[0] = r /\ f[n + 1] = q /\ \A i \in 1..(n + 1) : Takes(f[i - 1], ts[i], f[i])
    BY <1>1, <1>2 DEF Along
  <1> DEFINE g == [i \in 0..n |-> f[i + 1]]
  <1>6. g[0] = f[1] /\ g[n] = f[n + 1] /\ \A i \in 0..n : g[i] = f[i + 1]
    OBVIOUS
  <1> HIDE DEF g
  <1>7. ASSUME NEW i \in 1..n
        PROVE  Takes(g[i - 1], us[i], g[i])
    <2>1. i + 1 \in 1..(n + 1) /\ (i + 1) - 1 = i /\ i - 1 \in 0..n /\ i \in 0..n /\ (i - 1) + 1 = i
      OBVIOUS
    <2>2. g[i - 1] = f[i] /\ g[i] = f[i + 1]
      BY <1>6, <2>1
    <2>3. Takes(f[i], ts[i + 1], f[i + 1])
      BY <1>5, <2>1
    <2> QED
      BY <1>4, <2>2, <2>3
  <1>8. Along(g, us, f[1], q)
    BY <1>4, <1>5, <1>6, <1>7 DEF Along
  <1>9. Takes(r, Head(ts), f[1])
    <2>1. 1 \in 1..(n + 1) /\ 1 - 1 = 0
      OBVIOUS
    <2> QED
      BY <1>4, <1>5, <2>1
  <1> QED
    BY <1>3, <1>8, <1>9 DEF Reads

LEMMA ReadsNone ==
    ASSUME NEW r, NEW q, Reads(r, <<>>, q)
    PROVE  q = r
  <1>1. PICK f : Along(f, <<>>, r, q)
    BY DEF Reads
  <1>2. Len(<<>>) = 0
    OBVIOUS
  <1> QED
    BY <1>1, <1>2 DEF Along

\* Texts one after the other, from one set of states to the next.
LinesRead(ts, M) == \A k \in 1..Len(ts) : \A r \in M[k - 1] : \E q \in M[k] : Reads(r, ts[k], q)

LEMMA FlatRead ==
    ASSUME NEW S, NEW ts \in Seq(Seq(S)), NEW M, LinesRead(ts, M), NEW r \in M[0]
    PROVE  \E q \in M[Len(ts)] : Reads(r, FlattenSeq(ts), q)
  <1> DEFINE T == {k \in Nat : k \in 0..Len(ts) => \E q \in M[k] : Reads(r, FlattenSeq(SubSeq(ts, 1, k)), q)}
  <1>1. 0 \in T
    <2>1. SubSeq(ts, 1, 0) = <<>>
      OBVIOUS
    <2> QED
      BY <2>1, FlattenEmpty, ReadsNothing
  <1>2. ASSUME NEW n \in Nat, n \in T
        PROVE  n + 1 \in T
    <2> SUFFICES ASSUME n + 1 \in 0..Len(ts)
                 PROVE  \E q \in M[n + 1] : Reads(r, FlattenSeq(SubSeq(ts, 1, n + 1)), q)
      OBVIOUS
    <2>1. PICK k \in 1..Len(ts) : k = n + 1
      OBVIOUS
    <2>2. k - 1 = n /\ n \in 0..Len(ts)
      BY <2>1
    <2>3. PICK p \in M[n] : Reads(r, FlattenSeq(SubSeq(ts, 1, n)), p)
      BY <1>2, <2>2
    <2>4. PICK q \in M[k] : Reads(p, ts[k], q)
      BY <2>2 DEF LinesRead
    <2>5. FlattenSeq(SubSeq(ts, 1, k)) = Cat(FlattenSeq(SubSeq(ts, 1, n)), ts[k])
      BY <2>2, FlattenStep
    <2>6. FlattenSeq(SubSeq(ts, 1, n)) \in Seq(S) /\ ts[k] \in Seq(S)
      <3>1. SubSeq(ts, 1, n) \in Seq(Seq(S))
        BY <2>2
      <3>2. ts[k] \in Seq(S)
        OBVIOUS
      <3> QED
        BY <3>1, <3>2, FlattenType
    <2>7. Reads(r, FlattenSeq(SubSeq(ts, 1, k)), q)
      BY <2>3, <2>4, <2>5, <2>6, ReadsCat
    <2> QED
      BY <2>1, <2>7
  <1> HIDE DEF T
  <1>3. Nat \subseteq T
    BY <1>1, <1>2, SetInduction
  <1>4. Len(ts) \in T /\ Len(ts) \in 0..Len(ts)
    BY <1>3
  <1>5. SubSeq(ts, 1, Len(ts)) = ts
    OBVIOUS
  <1> QED
    BY <1>4, <1>5 DEF T

-----------------------------------------------------------------------------
\* The tokens that are written with the options o.
Symbols(o) ==
    {Blank} \cup {Mark(c) : c \in {"{", "}", "[", "]", ":", ","}}
      \cup {Quoted(AddEscChars(s, o)) : s \in Seq(Nat)} \cup {Word(w) : w \in {"true", "false", "null"}}
      \cup {Number(n) : n \in Int64 \cup Uint64} \cup {RealNumber(x) : x \in Real}

LEMMA SymbolsWritten ==
    ASSUME NEW o
    PROVE  /\ Blank \in Symbols(o)
           /\ \A c \in {"{", "}", "[", "]", ":", ","} : Mark(c) \in Symbols(o)
           /\ \A s \in Seq(Nat) : Quoted(AddEscChars(s, o)) \in Symbols(o)
           /\ \A w \in {"true", "false", "null"} : Word(w) \in Symbols(o)
           /\ \A n \in Int64 \cup Uint64 : Number(n) \in Symbols(o)
           /\ \A x \in Real : RealNumber(x) \in Symbols(o)
  BY Zenon DEF Symbols

\* The text ts is read as y wherever a value is expected.
Stands(o, ts, y) ==
    /\ ts \in Seq(Symbols(o))
    /\ \A r : Slot(r) => \E nm \in Seq(Nat) : Reads(r, ts, Filled(r, y, nm))

\* The text of a scalar.
LEMMA ScalarText ==
    ASSUME NEW o, NEW x \in Scalars, NEW level, NEW inner, NEW back
    PROVE  \E t \in Symbols(o) : /\ Output(x, o, level, inner) = <<t>>
                                 /\ IsScalar(t) /\ Scalar(t) = ReadValue(x, back)
  <1>1. CASE x \in {"str"} \X Seq(Nat)
    <2>1. PICK s \in Seq(Nat) : x = <<"str", s>>
      BY <1>1
    <2>2. x[1] = "str" /\ x[2] = s /\ ReadValue(x, back) = x
      BY <2>1 DEF ReadValue, IsUint64
    <2> DEFINE t == Quoted(AddEscChars(s, o))
    <2>3. Output(x, o, level, inner) = <<t>>
      BY <2>2 DEF Output
    <2>4. t[1] = "quoted" /\ t[2] = AddEscChars(s, o)
      BY DEF Quoted
    <2>5. t \in Symbols(o)
      BY SymbolsWritten
    <2>6. GetStr(t[2]) = s
      BY <2>4, StringIsRead
    <2> HIDE DEF t
    <2>7. IsScalar(t) /\ Scalar(t) = x
      BY <2>1, <2>4, <2>6 DEF IsScalar, Scalar, Str
    <2> QED
      BY <2>2, <2>3, <2>5, <2>7
  <1>2. CASE x \in {"bool"} \X BOOLEAN
    <2>1. PICK b \in BOOLEAN : x = <<"bool", b>>
      BY <1>2
    <2>2. x[1] = "bool" /\ x[2] = b /\ ReadValue(x, back) = x
      BY <2>1 DEF ReadValue, IsUint64
    <2>3. PICK w \in {"true", "false", "null"} : w = IF b THEN "true" ELSE "false"
      OBVIOUS
    <2> DEFINE t == Word(w)
    <2>4. Output(x, o, level, inner) = <<t>>
      BY <2>2, <2>3 DEF Output
    <2>5. t[1] = "word" /\ t[2] = w
      BY DEF Word
    <2>6. t \in Symbols(o)
      BY SymbolsWritten
    <2> HIDE DEF t
    <2>7. IsScalar(t) /\ Scalar(t) = x
      BY <2>1, <2>3, <2>5 DEF IsScalar, Scalar, BoolVal
    <2> QED
      BY <2>2, <2>4, <2>6, <2>7
  <1>3. CASE x \in {"int"} \X Int64
    <2>1. PICK n \in Int64 : x = <<"int", n>>
      BY <1>3
    <2>2. x[1] = "int" /\ x[2] = n /\ ReadValue(x, back) = x
      BY <2>1 DEF ReadValue, IsUint64
    <2> DEFINE t == Number(n)
    <2>3. Output(x, o, level, inner) = <<t>>
      BY <2>2 DEF Output, OutputInt, IsUint64, GetInt64
    <2>4. t[1] = "number" /\ t[2] = n
      BY DEF Number
    <2>5. t \in Symbols(o)
      BY SymbolsWritten
    <2> HIDE DEF t
    <2>6. IsScalar(t) /\ Scalar(t) = x
      BY <2>1, <2>4 DEF IsScalar, Scalar, NumberValue, IntVal
    <2> QED
      BY <2>2, <2>3, <2>5, <2>6
  <1>4. CASE x \in {"uint"} \X Uint64
    <2>1. PICK n \in Uint64 : x = <<"uint", n>>
      BY <1>4
    <2>2. x[1] = "uint" /\ x[2] = n /\ ReadValue(x, back) = NumberValue(n)
      BY <2>1 DEF ReadValue, IsUint64
    <2> DEFINE t == Number(n)
    <2>3. Output(x, o, level, inner) = <<t>>
      BY <2>2 DEF Output, OutputInt, IsUint64, GetUint64
    <2>4. t[1] = "number" /\ t[2] = n
      BY DEF Number
    <2>5. t \in Symbols(o)
      BY SymbolsWritten
    <2> HIDE DEF t
    <2>6. IsScalar(t) /\ Scalar(t) = NumberValue(n)
      BY <2>1, <2>4 DEF IsScalar, Scalar
    <2> QED
      BY <2>2, <2>3, <2>5, <2>6
  <1>5. CASE x \in {"real"} \X Real
    <2>1. PICK n \in Real : x = <<"real", n>>
      BY <1>5
    <2>2. x[1] = "real" /\ x[2] = n /\ ReadValue(x, back) = x
      BY <2>1 DEF ReadValue, IsUint64
    <2> DEFINE t == RealNumber(n)
    <2>3. Output(x, o, level, inner) = <<t>>
      BY <2>2 DEF Output
    <2>4. t[1] = "real" /\ t[2] = n
      BY DEF RealNumber
    <2>5. t \in Symbols(o)
      BY SymbolsWritten
    <2> HIDE DEF t
    <2>6. IsScalar(t) /\ Scalar(t) = x
      BY <2>1, <2>4 DEF IsScalar, Scalar
    <2> QED
      BY <2>2, <2>3, <2>5, <2>6
  <1>6. CASE x = Null
    <2>1. x[1] = "null" /\ ReadValue(x, back) = x
      BY <1>6 DEF ReadValue, IsUint64, Null
    <2> DEFINE t == Word("null")
    <2>2. Output(x, o, level, inner) = <<t>>
      BY <2>1 DEF Output
    <2>3. t[1] = "word" /\ t[2] = "null"
      BY DEF Word
    <2>4. t \in Symbols(o)
      BY SymbolsWritten
    <2> HIDE DEF t
    <2>5. IsScalar(t) /\ Scalar(t) = x
      BY <1>6, <2>3 DEF IsScalar, Scalar
    <2> QED
      BY <2>1, <2>2, <2>4, <2>5
  <1> QED
    BY <1>1, <1>2, <1>3, <1>4, <1>5, <1>6 DEF Scalars

LEMMA ScalarStands ==
    ASSUME NEW o, NEW x \in Scalars, NEW level, NEW inner, NEW back
    PROVE  Stands(o, Output(x, o, level, inner), ReadValue(x, back))
  <1>1. PICK t \in Symbols(o) : /\ Output(x, o, level, inner) = <<t>>
                                /\ IsScalar(t) /\ Scalar(t) = ReadValue(x, back)
    BY ScalarText
  <1>2. <<t>> \in Seq(Symbols(o))
    OBVIOUS
  <1>3. ASSUME NEW r, Slot(r)
        PROVE  \E nm \in Seq(Nat) : Reads(r, <<t>>, Filled(r, ReadValue(x, back), nm))
    <2>1. Takes(r, t, Filled(r, Scalar(t), r.n))
      BY <1>1, <1>3, ValueTaken
    <2>2. Reads(r, <<t>>, Filled(r, ReadValue(x, back), r.n))
      BY <1>1, <2>1, ReadsOne
    <2>3. r.n \in Seq(Nat)
      BY <1>3 DEF Slot
    <2> QED
      BY <2>2, <2>3
  <1> QED
    BY <1>1, <1>2, <1>3 DEF Stands

-----------------------------------------------------------------------------
\* Brackets, and what the grammar expects between them.
Braces == [first |-> "{", last |-> "}", begin |-> "first_pair", next |-> "next_pair", after |-> "after_pair"]
SquareBrackets ==
    [first |-> "[", last |-> "]", begin |-> "first_element", next |-> "next_element", after |-> "after_element"]
Brackets == {Braces, SquareBrackets}

Blanks == {<<>>, <<Blank>>}

LEMMA BlanksRead ==
    ASSUME NEW r, Takes(r, Blank, r), NEW ws \in Blanks, NEW o
    PROVE  Reads(r, ws, r) /\ ws \in Seq(Symbols(o))
  <1>1. CASE ws = <<>>
    <2>1. <<>> \in Seq(Symbols(o))
      OBVIOUS
    <2> QED
      BY <1>1, <2>1, ReadsNothing
  <1>2. CASE ws = <<Blank>>
    <2>1. PICK b \in Symbols(o) : b = Blank
      BY SymbolsWritten
    <2>2. <<b>> \in Seq(Symbols(o))
      OBVIOUS
    <2> QED
      BY <1>2, <2>1, <2>2, ReadsOne
  <1> QED
    BY <1>1, <1>2 DEF Blanks

\* The k-th text is read as one more in the container x.
TextsRead(r, b, x, ts) ==
    \A k \in 1..Len(ts) : \A nm \in Seq(Nat) : \A g \in {b.begin, b.next} :
        \E nm2 \in Seq(Nat) : Reads(Inside(r, x[k - 1], nm, g), ts[k], Inside(r, x[k], nm2, b.after))

\* Where the reader is after k of n lines.
Between(b, k, n) == IF k = 0 THEN b.begin ELSE IF k < n THEN b.next ELSE b.after
LineStates(r, b, x, n) == [k \in 0..n |-> {Inside(r, x[k], nm, Between(b, k, n)) : nm \in Seq(Nat)}]

Line(before, item, behind) == Cat(Cat(before, item), behind)
Lines(before, ts, behind)  == [k \in DOMAIN ts |-> Line(before, Items(ts)[k], behind)]

LEMMA AppendCat ==
    ASSUME NEW S, NEW s \in Seq(S), NEW e \in S
    PROVE  Append(s, e) \in Seq(S) /\ Append(s, e) = Cat(s, <<e>>)
  <1>1. Append(s, e) \in Seq(S)
    OBVIOUS
  <1>2. Append(s, e) = s \o <<e>>
    BY AppendIsConcat, Zenon
  <1> QED
    BY <1>1, <1>2, Zenon DEF Cat

LEMMA ElementsOf ==
    ASSUME NEW S, NEW s \in Seq(S)
    PROVE  DOMAIN s = 1..Len(s) /\ Len(s) \in Nat /\ \A k \in 1..Len(s) : s[k] \in S
  OBVIOUS

\* The items of texts.
LEMMA ItemsAre ==
    ASSUME NEW S, Mark(",") \in S, NEW ts \in Seq(Seq(S))
    PROVE  /\ Items(ts) \in Seq(Seq(S)) /\ Len(Items(ts)) = Len(ts) /\ DOMAIN Items(ts) = DOMAIN ts
           /\ \A k \in 1..Len(ts) : Items(ts)[k] = IF k < Len(ts) THEN Cat(ts[k], <<Mark(",")>>) ELSE ts[k]
  <1>1. PICK R : R = Seq(S)
    OBVIOUS
  <1>2. ts \in Seq(R)
    BY <1>1, Zenon
  <1>3. DOMAIN ts = 1..Len(ts) /\ Len(ts) \in Nat /\ \A k \in 1..Len(ts) : ts[k] \in R
    BY <1>2, ElementsOf, Zenon
  <1>4. PICK m \in S : m = Mark(",")
    OBVIOUS
  <1>5. ASSUME NEW k \in 1..Len(ts)
        PROVE  /\ Append(ts[k], Mark(",")) = Cat(ts[k], <<Mark(",")>>)
               /\ ts[k] \in R /\ Append(ts[k], Mark(",")) \in R
    <2>1. PICK t \in Seq(S) : t = ts[k]
      BY <1>1, <1>3
    <2>2. Append(t, m) \in Seq(S) /\ Append(t, m) = Cat(t, <<m>>)
      BY AppendCat, Zenon
    <2> QED
      BY <1>1, <1>4, <2>1, <2>2, Zenon
  <1>6. Items(ts) = [k \in 1..Len(ts) |-> IF k < Len(ts) THEN Cat(ts[k], <<Mark(",")>>) ELSE ts[k]]
    BY <1>3, <1>5 DEF Items
  <1>7. \A k \in 1..Len(ts) : (IF k < Len(ts) THEN Cat(ts[k], <<Mark(",")>>) ELSE ts[k]) \in R
    BY <1>5
  <1>8. Items(ts) \in Seq(R) /\ Len(Items(ts)) = Len(ts) /\ DOMAIN Items(ts) = 1..Len(ts)
    <2>1. PICK n \in Nat : n = Len(ts)
      BY <1>3
    <2>2. PICK f : f = Items(ts)
      OBVIOUS
    <2>3. f = [k \in 1..n |-> f[k]] /\ \A k \in 1..n : f[k] \in R
      BY ONLY <1>6, <1>7, <2>1, <2>2
    <2>4. n \in Nat
      OBVIOUS
    <2>5. f \in Seq(R) /\ Len(f) = n /\ DOMAIN f = 1..n
      BY ONLY <2>4, <2>3
    <2> QED
      BY ONLY <2>1, <2>2, <2>5
  <1>9. Items(ts) \in Seq(Seq(S))
    BY <1>1, <1>8, Zenon
  <1> QED
    BY <1>3, <1>6, <1>8, <1>9

LEMMA CatType ==
    ASSUME NEW S, NEW s \in Seq(S), NEW t \in Seq(S)
    PROVE  Cat(s, t) \in Seq(S)
  BY DEF Cat

\* One line.
LEMMA LineRead ==
    ASSUME NEW r, Slot(r), NEW b \in Brackets, NEW o, NEW x, NEW ts \in Seq(Seq(Symbols(o))),
           TextsRead(r, b, x, ts), NEW before \in Blanks, NEW behind \in Blanks,
           NEW k \in 1..Len(ts), NEW nm \in Seq(Nat)
    PROVE  \E nm2 \in Seq(Nat) :
              Reads(Inside(r, x[k - 1], nm, Between(b, k - 1, Len(ts))), Line(before, Items(ts)[k], behind),
                    Inside(r, x[k], nm2, Between(b, k, Len(ts))))
  <1> DEFINE n == Len(ts)
             g == Between(b, k - 1, n)
             h == Between(b, k, n)
             p == Inside(r, x[k - 1], nm, g)
  <1>1. /\ b.begin \in Expectation \ {"end"} /\ b.next \in Expectation \ {"end"} /\ b.after \in Expectation \ {"end"}
        /\ \A nm2, c : Takes(Inside(r, c, nm2, b.after), Mark(","), Inside(r, c, nm2, b.next))
    <2>1. /\ b.begin \in {"first_pair", "first_element"} /\ b.next \in {"next_pair", "next_element"}
          /\ b.after \in {"after_pair", "after_element"}
          /\ \/ b.after = "after_pair" /\ b.next = "next_pair"
             \/ b.after = "after_element" /\ b.next = "next_element"
      <3>1. CASE b = Braces
        BY <3>1 DEF Braces
      <3>2. CASE b = SquareBrackets
        BY <3>2 DEF SquareBrackets
      <3> QED
        BY <3>1, <3>2 DEF Brackets
    <2>2. /\ b.begin \in Expectation \ {"end"} /\ b.next \in Expectation \ {"end"}
          /\ b.after \in Expectation \ {"end"}
      BY <2>1 DEF Expectation, BeforeValue, BeforePair
    <2> QED
      BY <2>1, <2>2, MarksTaken
  <1>2. n \in Nat /\ k - 1 < n /\ k # 0
    OBVIOUS
  <1>3. g \in {b.begin, b.next}
    BY <1>2 DEF Between
  <1>4. h = IF k < n THEN b.next ELSE b.after
    BY <1>2 DEF Between
  <1> HIDE DEF g, h
  <1>5. PICK nm2 \in Seq(Nat) : Reads(p, ts[k], Inside(r, x[k], nm2, b.after))
    BY <1>3 DEF TextsRead
  <1> DEFINE q == Inside(r, x[k], nm2, h)
             item == Items(ts)[k]
             S == Symbols(o)
  <1>6. Takes(p, Blank, p) /\ Takes(q, Blank, q)
    BY <1>1, <1>3, <1>4, MarksTaken
  <1>7. Reads(p, before, p) /\ Reads(q, behind, q) /\ before \in Seq(S) /\ behind \in Seq(S)
    BY <1>6, BlanksRead
  <1>8. Reads(p, item, q) /\ item \in Seq(S)
    <2>1. PICK m \in S : m = Mark(",")
      BY SymbolsWritten
    <2>2. <<m>> \in Seq(S)
      OBVIOUS
    <2>3. ts[k] \in Seq(S)
      OBVIOUS
    <2>4. Mark(",") \in S /\ <<Mark(",")>> \in Seq(S) /\ ts[k] \in Seq(S)
      BY <2>1, <2>2, <2>3
    <2>5. item = IF k < n THEN Cat(ts[k], <<Mark(",")>>) ELSE ts[k]
      BY <2>4, ItemsAre
    <2>6. Reads(Inside(r, x[k], nm2, b.after), <<Mark(",")>>, Inside(r, x[k], nm2, b.next))
      BY <1>1, ReadsOne
    <2> HIDE DEF S, item, p
    <2>7. Reads(p, Cat(ts[k], <<Mark(",")>>), Inside(r, x[k], nm2, b.next))
      BY <1>5, <2>4, <2>6, ReadsCat
    <2>8. Cat(ts[k], <<Mark(",")>>) \in Seq(S)
      BY <2>4, CatType
    <2> QED
      BY <1>4, <1>5, <2>4, <2>5, <2>7, <2>8
  <1> HIDE DEF p, q, item, S
  <1>9. Cat(before, item) \in Seq(S) /\ Reads(p, Cat(before, item), q)
    BY <1>7, <1>8, CatType, ReadsCat
  <1>10. Reads(p, Line(before, item, behind), q)
    BY <1>7, <1>9, ReadsCat DEF Line
  <1> QED
    BY <1>10 DEF p, q, item, g, h

\* The lines are texts.
LEMMA LinesType ==
    ASSUME NEW o, NEW ts \in Seq(Seq(Symbols(o))), NEW before \in Blanks, NEW behind \in Blanks
    PROVE  /\ Lines(before, ts, behind) \in Seq(Seq(Symbols(o)))
           /\ Len(Lines(before, ts, behind)) = Len(ts)
           /\ \A k \in 1..Len(ts) : Lines(before, ts, behind)[k] = Line(before, Items(ts)[k], behind)
  <1>1. PICK S : S = Symbols(o)
    OBVIOUS
  <1>2. PICK R : R = Seq(S)
    OBVIOUS
  <1>3. ts \in Seq(R)
    BY <1>1, <1>2, Zenon
  <1>4. DOMAIN ts = 1..Len(ts) /\ Len(ts) \in Nat
    BY <1>3
  <1>5. before \in Seq(S) /\ behind \in Seq(S)
    <2>1. PICK b \in S : b = Blank
      BY <1>1, SymbolsWritten
    <2>2. <<>> \in Seq(S) /\ <<b>> \in Seq(S)
      OBVIOUS
    <2> QED
      BY <2>1, <2>2 DEF Blanks
  <1>6. ASSUME NEW k \in 1..Len(ts)
        PROVE  Line(before, Items(ts)[k], behind) \in R
    <2>1. Items(ts) \in Seq(Seq(S)) /\ Len(Items(ts)) = Len(ts)
      BY <1>1, ItemsAre, SymbolsWritten
    <2>2. Items(ts)[k] \in Seq(S)
      BY <2>1
    <2> QED
      BY <1>2, <1>5, <2>2, CatType DEF Line
  <1>7. Lines(before, ts, behind) = [k \in 1..Len(ts) |-> Line(before, Items(ts)[k], behind)]
    BY <1>4 DEF Lines
  <1>8. Lines(before, ts, behind) \in Seq(R) /\ Len(Lines(before, ts, behind)) = Len(ts)
    BY <1>4, <1>6, <1>7
  <1> QED
    BY <1>1, <1>2, <1>7, <1>8

\* Lines between brackets.
Bracketed(b, ws, ls, us) == Cat(Cat(Cat(Cat(<<Mark(b.first)>>, ws), FlattenSeq(ls)), us), <<Mark(b.last)>>)

LEMMA BracketMarks ==
    ASSUME NEW b \in Brackets, NEW o
    PROVE  /\ Mark(b.first) \in Symbols(o) /\ Mark(b.last) \in Symbols(o)
           /\ b.begin \in Expectation \ {"end"} /\ b.next \in Expectation \ {"end"} /\ b.after \in Expectation \ {"end"}
           /\ EndsAt(b.begin, Mark(b.last)) /\ EndsAt(b.after, Mark(b.last))
  <1>1. ASSUME b = Braces
        PROVE  b.first = "{" /\ b.last = "}" /\ b.begin = "first_pair" /\ b.next = "next_pair" /\ b.after = "after_pair"
    BY <1>1 DEF Braces
  <1>2. ASSUME b = SquareBrackets
        PROVE  /\ b.first = "[" /\ b.last = "]" /\ b.begin = "first_element" /\ b.next = "next_element"
               /\ b.after = "after_element"
    BY <1>2 DEF SquareBrackets
  <1>3. b = Braces \/ b = SquareBrackets
    BY DEF Brackets
  <1>4. b.first \in {"{", "["} /\ b.last \in {"}", "]"}
    BY <1>1, <1>2, <1>3
  <1>5. Mark(b.first) \in Symbols(o) /\ Mark(b.last) \in Symbols(o)
    BY <1>4, SymbolsWritten
  <1>6. b.begin \in Expectation \ {"end"} /\ b.next \in Expectation \ {"end"} /\ b.after \in Expectation \ {"end"}
    BY <1>1, <1>2, <1>3 DEF Expectation, BeforeValue, BeforePair
  <1>7. EndsAt(b.begin, Mark(b.last)) /\ EndsAt(b.after, Mark(b.last))
    BY <1>1, <1>2, <1>3 DEF EndsAt, ObjEnds, ArrEnds
  <1> QED
    BY <1>5, <1>6, <1>7

LEMMA OneSymbol ==
    ASSUME NEW S, NEW t \in S
    PROVE  <<t>> \in Seq(S)
  OBVIOUS

LEMMA BracketsRead ==
    ASSUME NEW r, Slot(r), NEW b \in Brackets, NEW o, NEW x, NEW ts \in Seq(Seq(Symbols(o))),
           TextsRead(r, b, x, ts), Takes(r, Mark(b.first), Inside(r, x[0], r.n, b.begin)),
           NEW before \in Blanks, NEW behind \in Blanks, NEW ws \in Blanks, NEW us \in Blanks
    PROVE  LET written == Bracketed(b, ws, Lines(before, ts, behind), us)
           IN  written \in Seq(Symbols(o)) /\ \E nm \in Seq(Nat) : Reads(r, written, Filled(r, x[Len(ts)], nm))
  <1>1. PICK n \in Nat : n = Len(ts)
    BY LenProperties
  <1>2. PICK ls : ls = Lines(before, ts, behind)
    OBVIOUS
  <1>3. PICK S : S = Symbols(o)
    OBVIOUS
  <1>4. /\ ls \in Seq(Seq(S)) /\ Len(ls) = n
        /\ \A k \in 1..n : ls[k] = Line(before, Items(ts)[k], behind)
    BY <1>1, <1>2, <1>3, LinesType
  <1> DEFINE M == LineStates(r, b, x, n)
             p == Inside(r, x[0], r.n, b.begin)
  <1>5. \A k \in 0..n : M[k] = {Inside(r, x[k], nm, Between(b, k, n)) : nm \in Seq(Nat)}
    BY DEF LineStates
  <1> HIDE DEF M
  <1>6. LinesRead(ls, M)
    <2>1. ASSUME NEW k \in 1..n, NEW q \in M[k - 1]
          PROVE  \E s \in M[k] : Reads(q, ls[k], s)
      <3>1. k \in 0..n /\ k - 1 \in 0..n
        OBVIOUS
      <3>2. PICK nm \in Seq(Nat) : q = Inside(r, x[k - 1], nm, Between(b, k - 1, n))
        BY <1>5, <3>1
      <3>3. PICK nm2 \in Seq(Nat) : Reads(q, ls[k], Inside(r, x[k], nm2, Between(b, k, n)))
        BY <1>1, <1>4, <3>2, LineRead
      <3>4. Inside(r, x[k], nm2, Between(b, k, n)) \in M[k]
        BY <1>5, <3>1
      <3> QED
        BY <3>3, <3>4
    <2> QED
      BY <1>4, <2>1 DEF LinesRead
  <1>7. r.n \in Seq(Nat)
    BY DEF Slot
  <1>8. p \in M[0]
    <2>1. 0 \in 0..n
      OBVIOUS
    <2>2. Between(b, 0, n) = b.begin
      BY DEF Between
    <2> QED
      BY <1>5, <1>7, <2>1, <2>2
  <1>9. PICK q \in M[n] : Reads(p, FlattenSeq(ls), q)
    BY <1>4, <1>6, <1>8, FlatRead
  <1>10. PICK nm \in Seq(Nat) : q = Inside(r, x[n], nm, Between(b, n, n))
    <2>1. n \in 0..n
      OBVIOUS
    <2> QED
      BY <1>5, <2>1
  <1> DEFINE g == Between(b, n, n)
             z == Filled(r, x[n], nm)
  <1>11. g \in {b.begin, b.after}
    BY DEF Between
  <1> HIDE DEF g, p, z
  <1>12. g \in Expectation \ {"end"} /\ EndsAt(g, Mark(b.last)) /\ b.begin \in Expectation \ {"end"}
    BY <1>11, BracketMarks
  <1>13. Takes(q, Mark(b.last), z)
    BY <1>10, <1>12, CloseTaken DEF g, z
  <1>14. Takes(p, Blank, p) /\ Takes(q, Blank, q)
    BY <1>10, <1>12, MarksTaken DEF p, g
  <1>15. Reads(p, ws, p) /\ Reads(q, us, q) /\ ws \in Seq(S) /\ us \in Seq(S)
    BY <1>3, <1>14, BlanksRead
  <1>16. /\ Reads(r, <<Mark(b.first)>>, p) /\ <<Mark(b.first)>> \in Seq(S)
         /\ Reads(q, <<Mark(b.last)>>, z) /\ <<Mark(b.last)>> \in Seq(S)
    <2>1. Reads(r, <<Mark(b.first)>>, p) /\ Reads(q, <<Mark(b.last)>>, z)
      BY <1>13, ReadsOne DEF p
    <2>2. Mark(b.first) \in S /\ Mark(b.last) \in S
      BY <1>3, BracketMarks
    <2> QED
      BY <2>1, <2>2, OneSymbol
  <1>17. FlattenSeq(ls) \in Seq(S)
    BY <1>4, FlattenType
  <1>18. PICK fs, t1, t2 : fs = FlattenSeq(ls) /\ t1 = <<Mark(b.first)>> /\ t2 = <<Mark(b.last)>>
    OBVIOUS
  <1>19. Cat(t1, ws) \in Seq(S) /\ Reads(r, Cat(t1, ws), p)
    BY <1>15, <1>16, <1>18, CatType, ReadsCat
  <1>20. Cat(Cat(t1, ws), fs) \in Seq(S) /\ Reads(r, Cat(Cat(t1, ws), fs), q)
    BY <1>9, <1>17, <1>18, <1>19, CatType, ReadsCat
  <1>21. /\ Cat(Cat(Cat(t1, ws), fs), us) \in Seq(S)
         /\ Reads(r, Cat(Cat(Cat(t1, ws), fs), us), q)
    BY <1>15, <1>20, CatType, ReadsCat
  <1>22. /\ Cat(Cat(Cat(Cat(t1, ws), fs), us), t2) \in Seq(S)
         /\ Reads(r, Cat(Cat(Cat(Cat(t1, ws), fs), us), t2), z)
    BY <1>16, <1>18, <1>21, CatType, ReadsCat
  <1>23. Bracketed(b, ws, ls, us) = Cat(Cat(Cat(Cat(t1, ws), fs), us), t2)
    BY <1>18 DEF Bracketed
  <1> QED
    BY <1>1, <1>2, <1>3, <1>22, <1>23 DEF z

\* What the options add.
LEMMA OptionBlanks ==
    ASSUME NEW o, NEW level
    PROVE  Space(o) \in Blanks /\ NewLine(o) \in Blanks /\ Indent(o, level) \in Blanks /\ <<>> \in Blanks
  BY DEF Space, NewLine, Indent, Blanks

LEMMA CatEmpty ==
    ASSUME NEW S, NEW s \in Seq(S)
    PROVE  Cat(s, <<>>) = s /\ Cat(<<>>, s) = s
  BY DEF Cat

\* A container on several lines.
LEMMA LinesBracketed ==
    ASSUME NEW o, NEW ts \in Seq(Seq(Symbols(o))), NEW b \in Brackets, NEW level
    PROVE  OutputArrayOrObj(ts, b.first, b.last, o, level)
             = Bracketed(b, NewLine(o), Lines(Indent(o, level + 1), ts, NewLine(o)), Indent(o, level))
  <1>1. PICK items : items = Items(ts)
    OBVIOUS
  <1>2. DOMAIN items = DOMAIN ts
    BY <1>1, ItemsAre, SymbolsWritten
  <1> DEFINE in == Indent(o, level + 1)
             nl == NewLine(o)
             ls == [i \in DOMAIN items |-> in \o items[i] \o nl]
  <1>3. \A i : in \o items[i] \o nl = Line(in, items[i], nl)
    BY DEF Line, Cat
  <1>4. ls = [i \in DOMAIN ts |-> Line(in, items[i], nl)]
    BY <1>2, <1>3, Zenon
  <1>5. ls = Lines(in, ts, nl)
    BY <1>1, <1>4 DEF Lines
  <1>6. OutputArrayOrObj(ts, b.first, b.last, o, level)
          = <<Mark(b.first)>> \o nl \o FlattenSeq(ls) \o Indent(o, level) \o <<Mark(b.last)>>
    BY <1>1, Zenon DEF OutputArrayOrObj
  <1> HIDE DEF ls
  <1>7. OutputArrayOrObj(ts, b.first, b.last, o, level) = Bracketed(b, nl, ls, Indent(o, level))
    BY <1>6, Zenon DEF Bracketed, Cat
  <1> QED
    BY <1>5, <1>7, Zenon

\* An array on a single line.
LEMMA SingleLineBracketed ==
    ASSUME NEW o, NEW ts \in Seq(Seq(Symbols(o)))
    PROVE  LET items == Items(ts)
           IN  <<Mark("[")>> \o Space(o)
                       \o FlattenSeq([i \in DOMAIN items |-> items[i] \o Space(o)]) \o <<Mark("]")>>
                 = Bracketed(SquareBrackets, Space(o), Lines(<<>>, ts, Space(o)), <<>>)
  <1>1. PICK items : items = Items(ts)
    OBVIOUS
  <1>2. PICK S : S = Symbols(o)
    OBVIOUS
  <1>3. DOMAIN items = DOMAIN ts /\ \A k \in DOMAIN ts : items[k] \in Seq(S)
    <2>1. items \in Seq(Seq(S)) /\ DOMAIN items = DOMAIN ts
      BY <1>1, <1>2, ItemsAre, SymbolsWritten
    <2> QED
      BY <2>1
  <1> DEFINE sp == Space(o)
             ls == [i \in DOMAIN items |-> items[i] \o sp]
  <1>4. \A i \in DOMAIN items : items[i] \o sp = Line(<<>>, items[i], sp)
    <2> TAKE i \in DOMAIN items
    <2>1. Cat(<<>>, items[i]) = items[i]
      BY <1>3, CatEmpty
    <2> QED
      BY <2>1, Zenon DEF Line, Cat
  <1>5. ls = [i \in DOMAIN ts |-> Line(<<>>, items[i], sp)]
    BY <1>3, <1>4, Zenon
  <1>6. ls = Lines(<<>>, ts, sp)
    BY <1>1, <1>5 DEF Lines
  <1>7. SquareBrackets.first = "[" /\ SquareBrackets.last = "]"
    BY DEF SquareBrackets
  <1> HIDE DEF ls
  <1>8. <<Mark("[")>> \o sp \o FlattenSeq(ls) \o <<Mark("]")>>
          = Cat(Cat(Cat(<<Mark("[")>>, sp), FlattenSeq(ls)), <<Mark("]")>>)
    BY Zenon DEF Cat
  <1>9. Cat(Cat(<<Mark("[")>>, sp), FlattenSeq(ls)) \in Seq(S)
    <2>1. ls \in Seq(Seq(S))
      BY <1>2, <1>6, LinesType, OptionBlanks
    <2>2. FlattenSeq(ls) \in Seq(S)
      BY <2>1, FlattenType
    <2>3. Mark("[") \in S
      BY <1>2, SymbolsWritten
    <2>4. <<Mark("[")>> \in Seq(S)
      BY <2>3, OneSymbol
    <2>5. sp \in Seq(S)
      <3>1. Blank \in S
        BY <1>2, SymbolsWritten
      <3>2. <<Blank>> \in Seq(S) /\ <<>> \in Seq(S)
        BY <3>1, OneSymbol
      <3> QED
        BY <3>2 DEF Space
    <2> QED
      BY <2>2, <2>4, <2>5, CatType
  <1>10. Bracketed(SquareBrackets, sp, ls, <<>>) = Cat(Cat(Cat(<<Mark("[")>>, sp), FlattenSeq(ls)), <<Mark("]")>>)
    BY <1>7, <1>9, CatEmpty DEF Bracketed
  <1> QED
    BY <1>1, <1>6, <1>8, <1>10, Zenon DEF ls

\* The texts of inner are read as those of back.
InnerStands(o, V, inner, back) == \A x \in V : Stands(o, inner[x], back[x])

\* A sequence and its first elements.
LEMMA Beginnings ==
    ASSUME NEW S, NEW s \in Seq(S)
    PROVE  /\ SubSeq(s, 1, 0) = <<>>
           /\ SubSeq(s, 1, Len(s)) = s
           /\ \A k \in 1..Len(s) : SubSeq(s, 1, k) = Append(SubSeq(s, 1, k - 1), s[k])
           /\ \A k \in 0..Len(s) : SubSeq(s, 1, k) \in Seq(S)
  <1>1. SubSeq(s, 1, 0) = <<>> /\ SubSeq(s, 1, Len(s)) = s /\ \A k \in 0..Len(s) : SubSeq(s, 1, k) \in Seq(S)
    OBVIOUS
  <1>2. ASSUME NEW k \in 1..Len(s)
        PROVE  SubSeq(s, 1, k) = Append(SubSeq(s, 1, k - 1), s[k])
    OBVIOUS
  <1> QED
    BY <1>1, <1>2

\* Before the first token.
Start == State(Null, NullPointer, <<>>, <<>>, <<"json">>)

LEMMA StartSlot == Slot(Start)
  <1>1. Start.n = <<>> /\ Start.f = <<"json">> /\ Start.s = <<>> /\ Start.c = NullPointer
    BY StateFields DEF Start
  <1>2. <<>> \in Seq(Nat) /\ <<>> \in Seq(Seq(Nat))
    OBVIOUS
  <1>3. "json" \in Expectation
    BY DEF Expectation, BeforeValue
  <1>4. <<"json">> \in Seq(Expectation) /\ Len(<<"json">>) > 0 /\ Last(<<"json">>) = "json"
    BY <1>3, OneSymbol DEF Last
  <1> QED
    BY <1>1, <1>2, <1>4 DEF Slot, BeforeValue

\* An array.
LEMMA ArrayStands ==
    ASSUME NEW o, NEW V, NEW vs \in Seq(V), NEW inner, NEW back, InnerStands(o, V, inner, back), NEW level
    PROVE  Stands(o, OutputArray(vs, o, level, inner), Arr([i \in DOMAIN vs |-> back[vs[i]]]))
  <1>1. PICK n \in Nat : n = Len(vs)
    BY LenProperties
  <1>2. DOMAIN vs = 1..n /\ \A k \in 1..n : vs[k] \in V
    BY <1>1, ElementsOf
  <1>3. PICK ts : ts = [i \in DOMAIN vs |-> inner[vs[i]]]
    OBVIOUS
  <1>4. PICK w : w = [i \in DOMAIN vs |-> back[vs[i]]]
    OBVIOUS
  <1>5. ts \in Seq(Seq(Symbols(o))) /\ Len(ts) = n /\ \A k \in 1..n : ts[k] = inner[vs[k]]
    <2>1. PICK R : R = Seq(Symbols(o))
      OBVIOUS
    <2>2. \A k \in 1..n : inner[vs[k]] \in R
      BY <1>2, <2>1 DEF InnerStands, Stands
    <2>3. n \in Nat
      OBVIOUS
    <2>4. ts \in Seq(R) /\ Len(ts) = n
      BY ONLY <1>2, <1>3, <2>2, <2>3
    <2> QED
      BY <1>2, <1>3, <2>1, <2>4
  <1>6. PICK U : U = {back[v] : v \in V}
    OBVIOUS
  <1>7. w \in Seq(U) /\ Len(w) = n /\ \A k \in 1..n : w[k] = back[vs[k]]
    <2>1. \A k \in 1..n : back[vs[k]] \in U
      BY <1>2, <1>6
    <2>2. n \in Nat
      OBVIOUS
    <2>3. w \in Seq(U) /\ Len(w) = n
      BY ONLY <1>2, <1>4, <2>1, <2>2
    <2> QED
      BY <1>2, <1>4, <2>3
  <1> DEFINE x == [k \in 0..n |-> Arr(SubSeq(w, 1, k))]
             b == SquareBrackets
  <1>8. /\ \A k \in 0..n : x[k] = Arr(SubSeq(w, 1, k)) /\ SubSeq(w, 1, k) \in Seq(U)
        /\ \A k \in 1..n : SubSeq(w, 1, k) = Append(SubSeq(w, 1, k - 1), w[k])
        /\ SubSeq(w, 1, 0) = <<>> /\ SubSeq(w, 1, n) = w
    BY <1>7, Beginnings
  <1> HIDE DEF x, b
  <1>9. \A k \in 0..n : IsContainer(x[k])
    BY <1>8 DEF IsContainer
  <1>10. ASSUME NEW k \in 1..n, NEW nm
         PROVE  More(x[k - 1], nm, w[k]) = x[k]
    <2>1. k - 1 \in 0..n /\ k \in 0..n
      OBVIOUS
    <2>2. PICK c : c = x[k - 1]
      OBVIOUS
    <2>3. c[1] = "arr" /\ c[2] = SubSeq(w, 1, k - 1) /\ Type(c) = "arr"
      BY <1>8, <2>1, <2>2 DEF Arr, Type, IsUint64
    <2>4. More(c, nm, w[k]) = Arr(Append(SubSeq(w, 1, k - 1), w[k]))
      BY <2>3 DEF More, AddElement
    <2> QED
      BY <1>8, <2>1, <2>2, <2>4
  <1>11. b \in Brackets /\ b.first = "[" /\ b.last = "]" /\ b.begin = "first_element"
           /\ b.next = "next_element" /\ b.after = "after_element"
    BY DEF b, Brackets, SquareBrackets
  <1>12. ASSUME NEW r, Slot(r)
         PROVE  TextsRead(r, b, x, ts) /\ Takes(r, Mark(b.first), Inside(r, x[0], r.n, b.begin))
    <2>1. ASSUME NEW k \in 1..n, NEW nm \in Seq(Nat), NEW g \in {b.begin, b.next}
          PROVE  \E nm2 \in Seq(Nat) : Reads(Inside(r, x[k - 1], nm, g), ts[k], Inside(r, x[k], nm2, b.after))
      <3>1. k - 1 \in 0..n
        OBVIOUS
      <3>2. g \in BeforeValue /\ g \in Expectation /\ AfterOf(g) = b.after
        BY <1>11 DEF BeforeValue, Expectation, AfterOf
      <3> DEFINE q == Inside(r, x[k - 1], nm, g)
      <3>3. Slot(q)
        BY <1>9, <1>12, <3>1, <3>2, InsideSlot
      <3>4. \A nm2 : Filled(q, w[k], nm2) = Inside(r, x[k], nm2, b.after)
        BY <1>9, <1>10, <1>12, <3>1, <3>2, InsideFilled
      <3> HIDE DEF q
      <3>5. Stands(o, ts[k], w[k])
        BY <1>2, <1>5, <1>7 DEF InnerStands
      <3>6. PICK nm2 \in Seq(Nat) : Reads(q, ts[k], Filled(q, w[k], nm2))
        BY <3>3, <3>5 DEF Stands
      <3> QED
        BY <3>4, <3>6 DEF q
    <2>2. TextsRead(r, b, x, ts)
      BY <1>5, <2>1 DEF TextsRead
    <2>3. x[0] = Arr(<<>>)
      <3>1. 0 \in 0..n
        OBVIOUS
      <3> QED
        BY <1>8, <3>1
    <2> QED
      BY <1>11, <1>12, <2>2, <2>3, ValueTaken
  <1>13. ASSUME NEW before \in Blanks, NEW behind \in Blanks, NEW ws \in Blanks, NEW us \in Blanks
         PROVE  Stands(o, Bracketed(b, ws, Lines(before, ts, behind), us), Arr(w))
    <2>1. x[Len(ts)] = Arr(w)
      <3>1. n \in 0..n
        OBVIOUS
      <3> QED
        BY <1>5, <1>8, <3>1
    <2> DEFINE written == Bracketed(b, ws, Lines(before, ts, behind), us)
    <2>2. ASSUME NEW r, Slot(r)
          PROVE  written \in Seq(Symbols(o)) /\ \E nm \in Seq(Nat) : Reads(r, written, Filled(r, Arr(w), nm))
      <3>1. TextsRead(r, b, x, ts) /\ Takes(r, Mark(b.first), Inside(r, x[0], r.n, b.begin))
        BY <1>12, <2>2
      <3>2. ts \in Seq(Seq(Symbols(o))) /\ b \in Brackets
        BY <1>5, <1>11
      <3>3. written \in Seq(Symbols(o)) /\ \E nm \in Seq(Nat) : Reads(r, written, Filled(r, x[Len(ts)], nm))
        BY <2>2, <3>1, <3>2, BracketsRead
      <3> QED
        BY <2>1, <3>3, Zenon
    <2>3. Slot(Start)
      BY StartSlot
    <2> QED
      BY <2>2, <2>3 DEF Stands
  <1>14. \/ OutputArray(vs, o, level, inner) = OutputArrayOrObj(ts, "[", "]", o, level)
         \/ OutputArray(vs, o, level, inner)
              = LET items == Items(ts)
                IN  <<Mark("[")>> \o Space(o)
                       \o FlattenSeq([i \in DOMAIN items |-> items[i] \o Space(o)]) \o <<Mark("]")>>
    BY <1>3, Zenon DEF OutputArray
  <1>15. CASE OutputArray(vs, o, level, inner) = OutputArrayOrObj(ts, "[", "]", o, level)
    <2>1. OutputArrayOrObj(ts, "[", "]", o, level)
            = Bracketed(b, NewLine(o), Lines(Indent(o, level + 1), ts, NewLine(o)), Indent(o, level))
      BY <1>5, <1>11, LinesBracketed
    <2> QED
      BY <1>4, <1>13, <1>15, <2>1, OptionBlanks
  <1>16. CASE OutputArray(vs, o, level, inner)
              = LET items == Items(ts)
                IN  <<Mark("[")>> \o Space(o)
                       \o FlattenSeq([i \in DOMAIN items |-> items[i] \o Space(o)]) \o <<Mark("]")>>
    <2>1. OutputArray(vs, o, level, inner) = Bracketed(b, Space(o), Lines(<<>>, ts, Space(o)), <<>>)
      BY <1>5, <1>16, SingleLineBracketed, Zenon DEF b
    <2> QED
      BY <1>4, <1>13, <2>1, OptionBlanks
  <1> QED
    BY <1>14, <1>15, <1>16

\* The text of a member adds it.
MemberReads(written, key, y) ==
    \A r, x : \A nm \in Seq(Nat) : \A g \in BeforePair :
        Slot(r) /\ IsContainer(x) /\ Type(x) = "obj" =>
          \E nm2 \in Seq(Nat) :
             Reads(Inside(r, x, nm, g), written, Inside(r, AddMember(x, key, y), nm2, "after_pair"))

LEMMA MemberRead ==
    ASSUME NEW o, NEW ts, NEW y, Stands(o, ts, y), NEW key \in Seq(Nat), NEW sp \in Blanks
    PROVE  LET written == Cat(Cat(Cat(Cat(<<Quoted(AddEscChars(key, o))>>, sp), <<Mark(":")>>), sp), ts)
           IN  written \in Seq(Symbols(o)) /\ MemberReads(written, key, y)
  <1>1. PICK S : S = Symbols(o)
    OBVIOUS
  <1>2. PICK t1, t2 : t1 = <<Quoted(AddEscChars(key, o))>> /\ t2 = <<Mark(":")>>
    OBVIOUS
  <1>3. t1 \in Seq(S) /\ t2 \in Seq(S) /\ ts \in Seq(S) /\ sp \in Seq(S)
    <2>1. Quoted(AddEscChars(key, o)) \in S /\ Mark(":") \in S /\ Blank \in S
      BY <1>1, SymbolsWritten
    <2>2. t1 \in Seq(S) /\ t2 \in Seq(S) /\ <<Blank>> \in Seq(S) /\ <<>> \in Seq(S)
      BY <1>2, <2>1, OneSymbol
    <2> QED
      BY <1>1, <2>2 DEF Stands, Blanks
  <1> DEFINE u1 == Cat(t1, sp)
             u2 == Cat(u1, t2)
             u3 == Cat(u2, sp)
             written == Cat(u3, ts)
  <1>4. u1 \in Seq(S)
    BY <1>3, CatType
  <1> HIDE DEF u1
  <1>5. u2 \in Seq(S)
    BY <1>3, <1>4, CatType
  <1> HIDE DEF u2
  <1>6. u3 \in Seq(S)
    BY <1>3, <1>5, CatType
  <1> HIDE DEF u3
  <1>7. written \in Seq(S)
    BY <1>3, <1>6, CatType
  <1> HIDE DEF written
  <1>8. ASSUME NEW r, NEW x, NEW nm \in Seq(Nat), NEW g \in BeforePair, Slot(r), IsContainer(x), Type(x) = "obj"
        PROVE  \E nm2 \in Seq(Nat) :
                  Reads(Inside(r, x, nm, g), written, Inside(r, AddMember(x, key, y), nm2, "after_pair"))
    <2> DEFINE p == Inside(r, x, nm, g)
               q == Inside(r, x, key, "colon")
               s == Inside(r, x, key, "pair_value")
    <2>1. "colon" \in Expectation \ {"end"} /\ "pair_value" \in Expectation \ {"end"} /\ "pair_value" \in BeforeValue
      BY DEF Expectation, BeforeValue
    <2>2. GetStr(AddEscChars(key, o)) = key
      BY StringIsRead
    <2>3. Takes(p, Quoted(AddEscChars(key, o)), q) /\ Takes(q, Mark(":"), s)
      BY <1>8, <2>2, MarksTaken
    <2>4. Takes(q, Blank, q) /\ Takes(s, Blank, s)
      BY <1>8, <2>1, MarksTaken
    <2>5. Slot(s)
      BY <1>8, <2>1, InsideSlot
    <2>6. \A nm2 : Filled(s, y, nm2) = Inside(r, AddMember(x, key, y), nm2, "after_pair")
      <3> TAKE nm2
      <3>1. Filled(s, y, nm2) = Inside(r, More(x, key, y), nm2, AfterOf("pair_value"))
        BY <1>8, <2>1, InsideFilled
      <3>2. More(x, key, y) = AddMember(x, key, y) /\ AfterOf("pair_value") = "after_pair"
        BY <1>8 DEF More, AfterOf
      <3> QED
        BY <3>1, <3>2
    <2> HIDE DEF p, q, s
    <2>7. Reads(p, t1, q) /\ Reads(q, t2, s) /\ Reads(q, sp, q) /\ Reads(s, sp, s)
      BY <1>2, <2>3, <2>4, ReadsOne, BlanksRead
    <2>8. PICK nm2 \in Seq(Nat) : Reads(s, ts, Filled(s, y, nm2))
      BY <2>5 DEF Stands
    <2>9. Reads(p, u1, q)
      BY <1>3, <2>7, ReadsCat DEF u1
    <2>10. Reads(p, u2, s)
      BY <1>3, <1>4, <2>7, <2>9, ReadsCat DEF u2
    <2>11. Reads(p, u3, s)
      BY <1>3, <1>5, <2>7, <2>10, ReadsCat DEF u3
    <2>12. Reads(p, written, Filled(s, y, nm2))
      BY <1>3, <1>6, <2>8, <2>11, ReadsCat DEF written
    <2>13. Reads(p, written, Inside(r, AddMember(x, key, y), nm2, "after_pair"))
      BY <2>6, <2>12
    <2> QED
      BY <2>13 DEF p
  <1>9. MemberReads(written, key, y)
    BY <1>8 DEF MemberReads
  <1>10. written = Cat(Cat(Cat(Cat(<<Quoted(AddEscChars(key, o))>>, sp), <<Mark(":")>>), sp), ts)
    BY <1>2 DEF u1, u2, u3, written
  <1> QED
    BY <1>1, <1>7, <1>10, <1>9

\* An object.
LEMMA ObjStands ==
    ASSUME NEW o, NEW V, NEW ms \in Seq(Seq(Nat) \X V), NEW inner, NEW back, InnerStands(o, V, inner, back), NEW level
    PROVE  Stands(o, OutputArrayOrObj([i \in DOMAIN ms |-> OutputMember(ms[i], o, inner)], "{", "}", o, level),
                  Obj([i \in DOMAIN ms |-> <<ms[i][1], back[ms[i][2]]>>]))
  <1>1. PICK n \in Nat : n = Len(ms)
    BY LenProperties
  <1>2. DOMAIN ms = 1..n /\ \A k \in 1..n : ms[k] \in Seq(Nat) \X V
    BY <1>1, ElementsOf
  <1>3. PICK ts : ts = [i \in DOMAIN ms |-> OutputMember(ms[i], o, inner)]
    OBVIOUS
  <1>4. PICK w : w = [i \in DOMAIN ms |-> <<ms[i][1], back[ms[i][2]]>>]
    OBVIOUS
  <1>5. ASSUME NEW k \in 1..n
        PROVE  /\ ms[k][1] \in Seq(Nat) /\ ms[k][2] \in V /\ Stands(o, inner[ms[k][2]], back[ms[k][2]])
               /\ OutputMember(ms[k], o, inner)
                    = Cat(Cat(Cat(Cat(<<Quoted(AddEscChars(ms[k][1], o))>>, Space(o)), <<Mark(":")>>), Space(o)),
                          inner[ms[k][2]])
    <2>1. ms[k][1] \in Seq(Nat) /\ ms[k][2] \in V
      BY <1>2
    <2>2. OutputMember(ms[k], o, inner)
            = Cat(Cat(Cat(Cat(<<Quoted(AddEscChars(ms[k][1], o))>>, Space(o)), <<Mark(":")>>), Space(o)), inner[ms[k][2]])
      BY Zenon DEF OutputMember, Cat
    <2>3. Stands(o, inner[ms[k][2]], back[ms[k][2]])
      BY <2>1 DEF InnerStands
    <2> QED
      BY <2>1, <2>2, <2>3, Zenon
  <1>6. ts \in Seq(Seq(Symbols(o))) /\ Len(ts) = n /\ \A k \in 1..n : ts[k] = OutputMember(ms[k], o, inner)
    <2>1. PICK R : R = Seq(Symbols(o))
      OBVIOUS
    <2>2. ASSUME NEW k \in 1..n
          PROVE  OutputMember(ms[k], o, inner) \in R
      <3>1. PICK key \in Seq(Nat), sp \in Blanks : key = ms[k][1] /\ sp = Space(o)
        BY <1>5, OptionBlanks
      <3>2. PICK us, x : us = inner[ms[k][2]] /\ x = back[ms[k][2]]
        OBVIOUS
      <3>3. Stands(o, us, x)
        BY <1>5, <3>2
      <3>4. Cat(Cat(Cat(Cat(<<Quoted(AddEscChars(key, o))>>, sp), <<Mark(":")>>), sp), us) \in Seq(Symbols(o))
        BY <3>3, MemberRead
      <3> QED
        BY <1>5, <2>1, <3>1, <3>2, <3>4, Zenon
    <2>3. n \in Nat
      OBVIOUS
    <2>4. ts \in Seq(R) /\ Len(ts) = n
      BY ONLY <1>2, <1>3, <2>2, <2>3
    <2> QED
      BY <1>2, <1>3, <2>1, <2>4
  <1>7. PICK U : U = {back[v] : v \in V} \cup Seq(Nat)
    OBVIOUS
  <1>8. w \in Seq(U \X U) /\ Len(w) = n /\ \A k \in 1..n : w[k] = <<ms[k][1], back[ms[k][2]]>>
    <2>1. \A k \in 1..n : <<ms[k][1], back[ms[k][2]]>> \in U \X U
      BY <1>5, <1>7
    <2>2. n \in Nat
      OBVIOUS
    <2>3. w \in Seq(U \X U) /\ Len(w) = n
      BY ONLY <1>2, <1>4, <2>1, <2>2
    <2> QED
      BY <1>2, <1>4, <2>3
  <1> DEFINE x == [k \in 0..n |-> Obj(SubSeq(w, 1, k))]
             b == Braces
  <1>9. /\ \A k \in 0..n : x[k] = Obj(SubSeq(w, 1, k)) /\ SubSeq(w, 1, k) \in Seq(U \X U)
        /\ \A k \in 1..n : SubSeq(w, 1, k) = Append(SubSeq(w, 1, k - 1), w[k])
        /\ SubSeq(w, 1, 0) = <<>> /\ SubSeq(w, 1, n) = w
    BY <1>8, Beginnings
  <1> HIDE DEF x, b
  <1>10. \A k \in 0..n : IsContainer(x[k]) /\ Type(x[k]) = "obj" /\ x[k][2] = SubSeq(w, 1, k)
    <2> TAKE k \in 0..n
    <2>1. IsContainer(x[k])
      BY <1>9 DEF IsContainer
    <2>2. x[k] = <<"obj", SubSeq(w, 1, k)>>
      BY <1>9 DEF Obj
    <2> QED
      BY <2>1, <2>2 DEF Type, IsUint64
  <1>11. ASSUME NEW k \in 1..n
         PROVE  AddMember(x[k - 1], ms[k][1], back[ms[k][2]]) = x[k]
    <2>1. k - 1 \in 0..n /\ k \in 0..n
      OBVIOUS
    <2>2. AddMember(x[k - 1], ms[k][1], back[ms[k][2]]) = Obj(Append(SubSeq(w, 1, k - 1), w[k]))
      BY <1>8, <1>10, <2>1, Zenon DEF AddMember
    <2> QED
      BY <1>9, <2>1, <2>2
  <1>12. /\ b \in Brackets /\ b.first = "{" /\ b.last = "}" /\ b.begin = "first_pair"
         /\ b.next = "next_pair" /\ b.after = "after_pair"
    BY DEF b, Brackets, Braces
  <1>13. ASSUME NEW r, Slot(r)
         PROVE  TextsRead(r, b, x, ts) /\ Takes(r, Mark(b.first), Inside(r, x[0], r.n, b.begin))
    <2>1. ASSUME NEW k \in 1..n, NEW nm \in Seq(Nat), NEW g \in {b.begin, b.next}
          PROVE  \E nm2 \in Seq(Nat) : Reads(Inside(r, x[k - 1], nm, g), ts[k], Inside(r, x[k], nm2, b.after))
      <3>1. k - 1 \in 0..n
        OBVIOUS
      <3>2. g \in BeforePair
        BY <1>12 DEF BeforePair
      <3>3. IsContainer(x[k - 1]) /\ Type(x[k - 1]) = "obj"
        BY <1>10, <3>1
      <3>4. PICK key \in Seq(Nat) : key = ms[k][1]
        BY <1>5
      <3>5. PICK y : y = back[ms[k][2]]
        OBVIOUS
      <3>6. Stands(o, inner[ms[k][2]], y)
        BY <1>5, <3>5
      <3>7. ts[k] = Cat(Cat(Cat(Cat(<<Quoted(AddEscChars(key, o))>>, Space(o)), <<Mark(":")>>), Space(o)),
                        inner[ms[k][2]])
        BY <1>5, <1>6, <3>4
      <3>8. \E nm2 \in Seq(Nat) :
               Reads(Inside(r, x[k - 1], nm, g), ts[k], Inside(r, AddMember(x[k - 1], key, y), nm2, "after_pair"))
        <4>1. MemberReads(ts[k], key, y)
          BY <3>6, <3>7, MemberRead, OptionBlanks
        <4> QED
          BY <1>13, <3>2, <3>3, <4>1 DEF MemberReads
      <3> QED
        BY <1>11, <1>12, <3>4, <3>5, <3>8
    <2>2. TextsRead(r, b, x, ts)
      BY <1>6, <2>1 DEF TextsRead
    <2>3. x[0] = Obj(<<>>)
      <3>1. 0 \in 0..n
        OBVIOUS
      <3> QED
        BY <1>9, <3>1
    <2> QED
      BY <1>12, <1>13, <2>2, <2>3, ValueTaken
  <1>14. OutputArrayOrObj(ts, "{", "}", o, level)
           = Bracketed(b, NewLine(o), Lines(Indent(o, level + 1), ts, NewLine(o)), Indent(o, level))
    BY <1>6, <1>12, LinesBracketed
  <1>15. x[Len(ts)] = Obj(w)
    <2>1. n \in 0..n
      OBVIOUS
    <2> QED
      BY <1>6, <1>9, <2>1
  <1> DEFINE written == OutputArrayOrObj(ts, "{", "}", o, level)
  <1>16. ASSUME NEW r, Slot(r)
         PROVE  written \in Seq(Symbols(o)) /\ \E nm \in Seq(Nat) : Reads(r, written, Filled(r, Obj(w), nm))
    <2>1. TextsRead(r, b, x, ts) /\ Takes(r, Mark(b.first), Inside(r, x[0], r.n, b.begin))
      BY <1>13, <1>16
    <2>2. ts \in Seq(Seq(Symbols(o))) /\ b \in Brackets
      BY <1>6, <1>12
    <2> HIDE DEF written
    <2>3. written = Bracketed(b, NewLine(o), Lines(Indent(o, level + 1), ts, NewLine(o)), Indent(o, level))
      BY <1>14 DEF written
    <2>4. written \in Seq(Symbols(o)) /\ \E nm \in Seq(Nat) : Reads(r, written, Filled(r, x[Len(ts)], nm))
      BY <1>16, <2>1, <2>2, <2>3, BracketsRead, OptionBlanks
    <2> QED
      BY <1>15, <2>4, Zenon
  <1> HIDE DEF written
  <1>17. Stands(o, written, Obj(w))
    BY <1>16, StartSlot DEF Stands
  <1> QED
    BY <1>3, <1>4, <1>17 DEF written

-----------------------------------------------------------------------------
\* Every value is read as it was written.
LEMMA ValueStands ==
    ASSUME NEW o, NEW v \in Values[MaxNesting]
    PROVE  Stands(o, WriteString(v, o), AsRead(v))
  <1>1. PICK out : /\ \A z : WriteString(z, o) = out[MaxNesting][z]
                   /\ \A x \in Values[0] : out[0][x] = Output(x, o, MaxNesting, <<>>)
                   /\ \A n \in 1..MaxNesting : \A x \in Values[n] : out[n][x] = Output(x, o, MaxNesting - n, out[n - 1])
    BY WriteUnfold
  <1>2. PICK back : ReadsBack(back) /\ \A z : AsRead(z) = back[MaxNesting][z]
    BY ReadUnfold
  <1> DEFINE T == {n \in Nat : n \in 0..MaxNesting => InnerStands(o, Values[n], out[n], back[n])}
  <1>3. 0 \in T
    <2>1. ASSUME NEW x \in Values[0], 0 \in 0..MaxNesting
          PROVE  Stands(o, out[0][x], back[0][x])
      <3>1. x \in Scalars
        BY ValuesUnfold
      <3>2. back[0][x] = ReadValue(x, back[0 - 1])
        BY <1>2, <2>1 DEF ReadsBack
      <3>3. out[0][x] = Output(x, o, MaxNesting, <<>>)
        BY <1>1
      <3> QED
        BY <3>1, <3>2, <3>3, ScalarStands
    <2> QED
      BY <2>1 DEF InnerStands
  <1>4. ASSUME NEW m \in Nat, m \in T
        PROVE  m + 1 \in T
    <2> SUFFICES ASSUME m + 1 \in 0..MaxNesting
                 PROVE  InnerStands(o, Values[m + 1], out[m + 1], back[m + 1])
      OBVIOUS
    <2>1. PICK n \in 1..MaxNesting : n = m + 1
      BY NestingAssumption
    <2>2. n - 1 = m /\ m \in 0..MaxNesting /\ n \in 0..MaxNesting
      BY <2>1, NestingAssumption
    <2>3. InnerStands(o, Values[m], out[m], back[m])
      BY <1>4, <2>2
    <2>4. PICK V : V = Values[m]
      OBVIOUS
    <2>5. ASSUME NEW x \in Values[n]
          PROVE  Stands(o, out[n][x], back[n][x])
      <3>1. out[n][x] = Output(x, o, MaxNesting - n, out[m])
        BY <1>1, <2>2
      <3>2. back[n][x] = ReadValue(x, back[m])
        BY <1>2, <2>2 DEF ReadsBack
      <3>3. x \in ValuesStep(V)
        BY <2>2, <2>4, ValuesUnfold
      <3>4. CASE x \in Scalars
        BY <3>1, <3>2, <3>4, ScalarStands
      <3>5. CASE x \in {"obj"} \X Seq(Seq(Nat) \X V)
        <4>1. PICK ms \in Seq(Seq(Nat) \X V) : x = <<"obj", ms>>
          BY <3>5
        <4>2. x[1] = "obj" /\ x[2] = ms
          BY <4>1
        <4>3. Output(x, o, MaxNesting - n, out[m])
                = OutputArrayOrObj([i \in DOMAIN ms |-> OutputMember(ms[i], o, out[m])], "{", "}", o, MaxNesting - n)
          BY <4>2 DEF Output
        <4>4. ReadValue(x, back[m]) = Obj([i \in DOMAIN ms |-> <<ms[i][1], back[m][ms[i][2]]>>])
          <5>1. ReadValue(x, back[m]) = Obj([i \in DOMAIN x[2] |-> <<x[2][i][1], back[m][x[2][i][2]]>>])
            BY <4>2 DEF ReadValue, IsUint64
          <5> QED
            BY <4>2, <5>1, Zenon
        <4> QED
          BY <2>3, <2>4, <3>1, <3>2, <4>3, <4>4, ObjStands
      <3>6. CASE x \in {"arr"} \X Seq(V)
        <4>1. PICK vs \in Seq(V) : x = <<"arr", vs>>
          BY <3>6
        <4>2. x[1] = "arr" /\ x[2] = vs
          BY <4>1
        <4>3. Output(x, o, MaxNesting - n, out[m]) = OutputArray(vs, o, MaxNesting - n, out[m])
          BY <4>2 DEF Output
        <4>4. ReadValue(x, back[m]) = Arr([i \in DOMAIN vs |-> back[m][vs[i]]])
          <5>1. ReadValue(x, back[m]) = Arr([i \in DOMAIN x[2] |-> back[m][x[2][i]]])
            BY <4>2 DEF ReadValue, IsUint64
          <5> QED
            BY <4>2, <5>1, Zenon
        <4> QED
          BY <2>3, <2>4, <3>1, <3>2, <4>3, <4>4, ArrayStands
      <3> QED
        BY <3>3, <3>4, <3>5, <3>6 DEF ValuesStep
    <2> QED
      BY <2>1, <2>5 DEF InnerStands
  <1> HIDE DEF T
  <1>5. Nat \subseteq T
    BY <1>3, <1>4, SetInduction
  <1>6. MaxNesting \in T /\ MaxNesting \in 0..MaxNesting
    BY <1>5, NestingAssumption
  <1> QED
    BY <1>1, <1>2, <1>6 DEF T, InnerStands

-----------------------------------------------------------------------------
\* The words.
LEMMA WordsAre ==
    /\ {"aps", "alert", "title", "body", "title-loc-key", "title-loc-args", "loc-key",
        "loc-args", "badge", "sound", "action-loc-key", "launch_image"} \subseteq ToSet(Words)
    /\ {"registration_ids", "notification_key", "notification_key_name", "collapse_key",
        "time_to_live", "delay_while_idle", "restricted_package_name", "dry_run", "data"} \subseteq ToSet(Words)
    /\ {"multicast_id", "success", "failure", "canonical_ids", "results",
        "message_id", "error", "registration_id"} \subseteq ToSet(Words)
  <1>1. PICK ws : ws = Words
    OBVIOUS
  <1>2. ToSet(ws) = {ws[i] : i \in DOMAIN ws}
    BY DEF ToSet
  <1>3. 1..39 \subseteq DOMAIN ws
    BY <1>1 DEF Words
  <1>4. /\ ws[1] = "aps" /\ ws[2] = "alert" /\ ws[3] = "title" /\ ws[4] = "body" /\ ws[5] = "title-loc-key"
        /\ ws[6] = "title-loc-args" /\ ws[7] = "loc-key" /\ ws[8] = "loc-args" /\ ws[9] = "badge"
        /\ ws[10] = "sound" /\ ws[11] = "action-loc-key" /\ ws[12] = "launch_image"
    BY <1>1 DEF Words
  <1>5. /\ ws[13] = "registration_ids" /\ ws[14] = "notification_key" /\ ws[15] = "notification_key_name"
        /\ ws[16] = "collapse_key" /\ ws[17] = "time_to_live" /\ ws[18] = "delay_while_idle"
        /\ ws[19] = "restricted_package_name" /\ ws[20] = "dry_run" /\ ws[21] = "data"
    BY <1>1 DEF Words
  <1>6. /\ ws[22] = "multicast_id" /\ ws[23] = "success" /\ ws[24] = "failure" /\ ws[25] = "canonical_ids"
        /\ ws[26] = "results" /\ ws[27] = "message_id" /\ ws[28] = "error" /\ ws[29] = "registration_id"
    BY <1>1 DEF Words
  <1>7. \A i \in 1..39 : ws[i] \in ToSet(ws)
    BY <1>2, <1>3
  <1> QED
    BY <1>1, <1>4, <1>5, <1>6, <1>7

\* Each stands for itself.
LEMMA WordOf ==
    /\ \A w \in ToSet(Words) : N(w) \in Seq(Nat)
    /\ \A w, x \in ToSet(Words) : N(w) = N(x) => w = x
  <1>1. PICK ws : ws = Words
    OBVIOUS
  <1>2. DOMAIN ws = 1..39
    BY <1>1 DEF Words
  <1>3. ASSUME NEW w \in ToSet(ws)
        PROVE  \E i \in 1..39 : ws[i] = w /\ WordIndex[w] = 255 + i
    <2> DEFINE i == CHOOSE i \in DOMAIN ws : ws[i] = w
    <2>1. \E j \in DOMAIN ws : ws[j] = w
      BY DEF ToSet
    <2>2. i \in DOMAIN ws /\ ws[i] = w
      BY <2>1
    <2>3. WordIndex[w] = 255 + i
      BY <1>1 DEF WordIndex
    <2> QED
      BY <1>2, <2>2, <2>3
  <1>4. ASSUME NEW w \in ToSet(ws)
        PROVE  WordIndex[w] \in Nat
    BY <1>3
  <1>5. ASSUME NEW w \in ToSet(ws), NEW x \in ToSet(ws), WordIndex[w] = WordIndex[x]
        PROVE  w = x
    <2>1. PICK i \in 1..39 : ws[i] = w /\ WordIndex[w] = 255 + i
      BY <1>3
    <2>2. PICK j \in 1..39 : ws[j] = x /\ WordIndex[x] = 255 + j
      BY <1>3
    <2>3. 255 + i = 255 + j /\ i \in Int /\ j \in Int
      <3>1. i \in Int /\ j \in Int
        BY SMT
      <3>2. 255 + i = WordIndex[w] /\ 255 + j = WordIndex[x]
        BY <2>1, <2>2, Zenon
      <3> QED
        BY <1>5, <3>1, <3>2, Zenon
    <2>4. i = j
      BY ONLY <2>3
    <2> QED
      BY <2>1, <2>2, <2>4
  <1> QED
    BY <1>1, <1>4, <1>5 DEF N

-----------------------------------------------------------------------------
\* The levels of values.

LEMMA ValuesGrow == \A n \in 1..MaxNesting : Values[n - 1] \subseteq Values[n]
  <1> DEFINE T == {n \in Nat : n + 1 \in 1..MaxNesting => Values[n] \subseteq Values[n + 1]}
  <1>1. 0 \in T
    <2>1. 1 \in 1..MaxNesting => Values[0] \subseteq Values[1]
      <3>1. 1 \in 1..MaxNesting => Values[1] = ValuesStep(Values[1 - 1])
        BY ValuesUnfold
      <3> QED
        BY <3>1, ValuesUnfold DEF ValuesStep
    <2> QED
      BY <2>1
  <1>2. ASSUME NEW n \in Nat, n \in T
        PROVE  n + 1 \in T
    <2> SUFFICES ASSUME n + 2 \in 1..MaxNesting
                 PROVE  Values[n + 1] \subseteq Values[n + 2]
      OBVIOUS
    <2>1. n + 1 \in 1..MaxNesting /\ (n + 1) - 1 = n /\ (n + 2) - 1 = n + 1
      BY NestingAssumption
    <2>2. PICK V : V = Values[n]
      OBVIOUS
    <2>3. PICK U : U = Values[n + 1]
      OBVIOUS
    <2>4. U = ValuesStep(V) /\ Values[n + 2] = ValuesStep(U)
      <3>1. Values[n + 1] = ValuesStep(Values[(n + 1) - 1])
        BY <2>1, ValuesUnfold
      <3>2. Values[n + 2] = ValuesStep(Values[(n + 2) - 1])
        BY ValuesUnfold
      <3> QED
        BY <2>1, <2>2, <2>3, <3>1, <3>2
    <2>5. V \subseteq U
      BY <1>2, <2>1, <2>2, <2>3
    <2>6. ValuesStep(V) \subseteq ValuesStep(U)
      <3>1. Seq(V) \subseteq Seq(U)
        BY <2>5
      <3>2. Seq(Nat) \X V \subseteq Seq(Nat) \X U
        BY <2>5
      <3>3. Seq(Seq(Nat) \X V) \subseteq Seq(Seq(Nat) \X U)
        <4>1. PICK A, B : A = Seq(Nat) \X V /\ B = Seq(Nat) \X U
          OBVIOUS
        <4>2. A \subseteq B
          BY <3>2, <4>1
        <4>3. Seq(A) \subseteq Seq(B)
          BY ONLY <4>2
        <4> QED
          BY <4>1, <4>3
      <3> QED
        BY <3>1, <3>3 DEF ValuesStep
    <2> QED
      BY <2>3, <2>4, <2>6
  <1> HIDE DEF T
  <1>3. Nat \subseteq T
    BY <1>1, <1>2, SetInduction
  <1>4. ASSUME NEW n \in 1..MaxNesting
        PROVE  Values[n - 1] \subseteq Values[n]
    <2>1. n - 1 \in Nat /\ (n - 1) + 1 = n
      BY NestingAssumption
    <2>2. n - 1 \in T
      BY <1>3, <2>1
    <2> QED
      BY <2>1, <2>2 DEF T
  <1> QED
    BY <1>4

LEMMA InValues ==
    ASSUME NEW n \in 1..MaxNesting
    PROVE  /\ Scalars \subseteq Values[n - 1]
           /\ \A ms \in Seq(Seq(Nat) \X Values[n - 1]) : Obj(ms) \in Values[n]
           /\ \A vs \in Seq(Values[n - 1]) : Arr(vs) \in Values[n]
  <1>1. Values[n] = ValuesStep(Values[n - 1])
    BY ValuesUnfold
  <1>2. Scalars \subseteq Values[n - 1]
    <2>1. CASE n = 1
      BY <2>1, ValuesUnfold
    <2>2. CASE n # 1
      <3>1. n - 1 \in 1..MaxNesting
        BY <2>2, NestingAssumption
      <3>2. Values[n - 1] = ValuesStep(Values[(n - 1) - 1])
        BY <3>1, ValuesUnfold
      <3> QED
        BY <3>2 DEF ValuesStep
    <2> QED
      BY <2>1, <2>2
  <1>3. PICK V : V = Values[n - 1]
    OBVIOUS
  <1>4. \A ms \in Seq(Seq(Nat) \X V) : Obj(ms) \in ValuesStep(V)
    BY DEF Obj, ValuesStep
  <1>5. \A vs \in Seq(V) : Arr(vs) \in ValuesStep(V)
    BY DEF Arr, ValuesStep
  <1> QED
    BY <1>1, <1>2, <1>3, <1>4, <1>5

\* The scalars.
LEMMA ScalarValues ==
    /\ \A s \in Seq(Nat) : Str(s) \in Scalars
    /\ \A b \in BOOLEAN : BoolVal(b) \in Scalars
    /\ \A n \in Int64 : IntVal(n) \in Scalars
    /\ \A n \in Uint64 : UintVal(n) \in Scalars
  BY DEF Scalars, Str, BoolVal, IntVal, UintVal

LEMMA LevelUp ==
    ASSUME 4 <= MaxNesting
    PROVE  /\ Values[0] \subseteq Values[1] /\ Values[1] \subseteq Values[2] /\ Values[2] \subseteq Values[3]
           /\ Values[3] \subseteq Values[4] /\ Scalars = Values[0]
           /\ Values[4] \subseteq Values[MaxNesting]
  <1>1. /\ Values[0] \subseteq Values[1] /\ Values[1] \subseteq Values[2] /\ Values[2] \subseteq Values[3]
        /\ Values[3] \subseteq Values[4]
    <2>1. 1 \in 1..MaxNesting /\ 2 \in 1..MaxNesting /\ 3 \in 1..MaxNesting /\ 4 \in 1..MaxNesting
      BY NestingAssumption
    <2>2. Values[1 - 1] \subseteq Values[1] /\ Values[2 - 1] \subseteq Values[2]
          /\ Values[3 - 1] \subseteq Values[3] /\ Values[4 - 1] \subseteq Values[4]
      BY <2>1, ValuesGrow
    <2> QED
      BY <2>2
  <1>2. Values[4] \subseteq Values[MaxNesting]
    <2> DEFINE T == {n \in Nat : 4 <= n /\ n <= MaxNesting => Values[4] \subseteq Values[n]}
    <2>1. 0 \in T
      OBVIOUS
    <2>2. ASSUME NEW n \in Nat, n \in T
          PROVE  n + 1 \in T
      <3> SUFFICES ASSUME 4 <= n + 1, n + 1 <= MaxNesting
                   PROVE  Values[4] \subseteq Values[n + 1]
        OBVIOUS
      <3>1. CASE n = 3
        BY <3>1
      <3>2. CASE n # 3
        <4>1. n + 1 \in 1..MaxNesting /\ (n + 1) - 1 = n /\ 4 <= n /\ n <= MaxNesting
          BY <3>2, NestingAssumption
        <4>2. Values[n] \subseteq Values[n + 1]
          BY <4>1, ValuesGrow
        <4> QED
          BY <2>2, <4>1, <4>2
      <3> QED
        BY <3>1, <3>2
    <2> HIDE DEF T
    <2>3. Nat \subseteq T
      BY <2>1, <2>2, SetInduction
    <2>4. MaxNesting \in T
      BY <2>3, NestingAssumption
    <2> QED
      BY <2>4 DEF T
  <1> QED
    BY <1>1, <1>2, ValuesUnfold

-----------------------------------------------------------------------------
\* What a value is read back as does not depend on how deep it may be nested.

LEMMA ReadValueOf ==
    /\ \A ms, h : ReadValue(Obj(ms), h) = Obj([i \in DOMAIN ms |-> <<ms[i][1], h[ms[i][2]]>>])
    /\ \A vs, h : ReadValue(Arr(vs), h) = Arr([i \in DOMAIN vs |-> h[vs[i]]])
  <1>1. ASSUME NEW ms, NEW h, NEW x, x = Obj(ms)
        PROVE  ReadValue(x, h) = Obj([i \in DOMAIN ms |-> <<ms[i][1], h[ms[i][2]]>>])
    <2>1. x[1] = "obj" /\ x[1] # "arr" /\ ~IsUint64(x) /\ x[2] = ms
      BY <1>1 DEF Obj, IsUint64
    <2>2. ReadValue(x, h) = Obj([i \in DOMAIN x[2] |-> <<x[2][i][1], h[x[2][i][2]]>>])
      BY <2>1, Zenon DEF ReadValue
    <2> QED
      BY <2>1, <2>2, Zenon
  <1>2. ASSUME NEW vs, NEW h, NEW x, x = Arr(vs)
        PROVE  ReadValue(x, h) = Arr([i \in DOMAIN vs |-> h[vs[i]]])
    <2>1. x[1] # "obj" /\ x[1] = "arr" /\ ~IsUint64(x) /\ x[2] = vs
      BY <1>2 DEF Arr, IsUint64
    <2>2. ReadValue(x, h) = Arr([i \in DOMAIN x[2] |-> h[x[2][i]]])
      BY <2>1, Zenon DEF ReadValue
    <2> QED
      BY <2>1, <2>2, Zenon
  <1> QED
    BY <1>1, <1>2

LEMMA ReadLevels ==
    ASSUME NEW g, ReadsBack(g)
    PROVE  \A n \in 1..MaxNesting : \A x \in Values[n - 1] : g[n - 1][x] = g[n][x]
  <1> DEFINE T == {n \in Nat : n + 1 \in 1..MaxNesting => \A x \in Values[n] : g[n][x] = g[n + 1][x]}
  <1>1. ASSUME NEW n \in Nat, n + 1 \in 1..MaxNesting, NEW x \in Values[n]
        PROVE  g[n][x] = ReadValue(x, g[n - 1]) /\ g[n + 1][x] = ReadValue(x, g[n])
    <2>1. n \in 0..MaxNesting /\ n + 1 \in 0..MaxNesting /\ (n + 1) - 1 = n
      BY <1>1, NestingAssumption
    <2>2. x \in Values[n + 1]
      BY <1>1, <2>1, ValuesGrow
    <2>3. g[n + 1][x] = ReadValue(x, g[(n + 1) - 1])
      BY <2>1, <2>2 DEF ReadsBack
    <2> QED
      BY <2>1, <2>3 DEF ReadsBack
  <1>2. ASSUME NEW x \in Scalars, NEW a, NEW b
        PROVE  ReadValue(x, a) = ReadValue(x, b)
    <2>1. x[1] # "obj" /\ x[1] # "arr"
      BY DEF Scalars, Null
    <2> QED
      BY <2>1 DEF ReadValue
  <1>3. 0 \in T
    BY <1>1, <1>2, ValuesUnfold
  <1>4. ASSUME NEW n \in Nat, n \in T
        PROVE  n + 1 \in T
    <2> SUFFICES ASSUME n + 2 \in 1..MaxNesting, NEW x \in Values[n + 1]
                 PROVE  g[n + 1][x] = g[n + 2][x]
      OBVIOUS
    <2>1. n + 1 \in 1..MaxNesting /\ (n + 1) + 1 = n + 2 /\ n + 1 \in Nat /\ (n + 1) - 1 = n
      BY NestingAssumption
    <2>2. \A y \in Values[n] : g[n][y] = g[n + 1][y]
      BY <1>4, <2>1
    <2>3. g[n + 1][x] = ReadValue(x, g[n]) /\ g[n + 2][x] = ReadValue(x, g[n + 1])
      <3>1. g[n + 1][x] = ReadValue(x, g[(n + 1) - 1]) /\ g[(n + 1) + 1][x] = ReadValue(x, g[n + 1])
        BY <1>1, <2>1
      <3> QED
        BY <2>1, <3>1
    <2> HIDE DEF T
    <2>4. x \in ValuesStep(Values[n])
      <3>1. Values[n + 1] = ValuesStep(Values[(n + 1) - 1])
        BY <2>1, ValuesUnfold
      <3> QED
        BY <2>1, <3>1
    <2>5. PICK V : V = Values[n]
      OBVIOUS
    <2>6. ReadValue(x, g[n]) = ReadValue(x, g[n + 1])
      <3>1. CASE x \in Scalars
        BY <1>2, <3>1
      <3>2. CASE x \in {"obj"} \X Seq(Seq(Nat) \X V)
        <4>1. PICK ms \in Seq(Seq(Nat) \X V) : x = <<"obj", ms>>
          BY <3>2
        <4>2. \A i \in DOMAIN ms : ms[i][2] \in V
          BY <4>1
        <4>3. [i \in DOMAIN ms |-> <<ms[i][1], g[n][ms[i][2]]>>]
                = [i \in DOMAIN ms |-> <<ms[i][1], g[n + 1][ms[i][2]]>>]
          BY <2>2, <2>5, <4>2
        <4>4. \A h : ReadValue(x, h) = Obj([i \in DOMAIN ms |-> <<ms[i][1], h[ms[i][2]]>>])
          <5>1. x = Obj(ms)
            BY <4>1 DEF Obj
          <5> QED
            BY <5>1, ReadValueOf
        <4> QED
          BY <4>3, <4>4
      <3>3. CASE x \in {"arr"} \X Seq(V)
        <4>1. PICK vs \in Seq(V) : x = <<"arr", vs>>
          BY <3>3
        <4>2. \A i \in DOMAIN vs : vs[i] \in V
          BY <4>1
        <4>3. [i \in DOMAIN vs |-> g[n][vs[i]]] = [i \in DOMAIN vs |-> g[n + 1][vs[i]]]
          BY <2>2, <2>5, <4>2
        <4>4. \A h : ReadValue(x, h) = Arr([i \in DOMAIN vs |-> h[vs[i]]])
          <5>1. x = Arr(vs)
            BY <4>1 DEF Arr
          <5> QED
            BY <5>1, ReadValueOf
        <4> QED
          BY <4>3, <4>4
      <3> QED
        BY <2>4, <2>5, <3>1, <3>2, <3>3 DEF ValuesStep
    <2> QED
      BY <2>3, <2>6
  <1> HIDE DEF T
  <1>5. Nat \subseteq T
    BY <1>3, <1>4, SetInduction
  <1>6. ASSUME NEW n \in 1..MaxNesting
        PROVE  \A x \in Values[n - 1] : g[n - 1][x] = g[n][x]
    <2>1. n - 1 \in Nat /\ (n - 1) + 1 = n
      BY NestingAssumption
    <2>2. n - 1 \in T
      BY <1>5, <2>1
    <2> QED
      BY <2>1, <2>2 DEF T
  <1> QED
    BY <1>6

\* It can be computed on any level.
LEMMA ReadOnLevel == \E g : ReadsBack(g) /\ \A n \in 0..MaxNesting : \A x \in Values[n] : AsRead(x) = g[n][x]
  <1>1. PICK g : ReadsBack(g) /\ \A v : AsRead(v) = g[MaxNesting][v]
    BY ReadUnfold
  <1> DEFINE T == {k \in Nat : k <= MaxNesting => \A x \in Values[MaxNesting - k] : AsRead(x) = g[MaxNesting - k][x]}
  <1>2. 0 \in T
    BY <1>1, NestingAssumption
  <1>3. ASSUME NEW k \in Nat, k \in T
        PROVE  k + 1 \in T
    <2> SUFFICES ASSUME k + 1 <= MaxNesting, NEW x \in Values[MaxNesting - (k + 1)]
                 PROVE  AsRead(x) = g[MaxNesting - (k + 1)][x]
      OBVIOUS
    <2>1. PICK n : n = MaxNesting - k
      OBVIOUS
    <2>2. n \in 1..MaxNesting /\ MaxNesting - (k + 1) = n - 1
      BY <2>1, NestingAssumption
    <2>3. x \in Values[n] /\ g[n - 1][x] = g[n][x]
      BY <1>1, <2>2, ReadLevels, ValuesGrow
    <2>4. AsRead(x) = g[n][x]
      BY <1>3, <2>1, <2>3, NestingAssumption
    <2> QED
      BY <2>2, <2>3, <2>4
  <1> HIDE DEF T
  <1>4. Nat \subseteq T
    BY <1>2, <1>3, SetInduction
  <1>5. ASSUME NEW n \in 0..MaxNesting
        PROVE  \A x \in Values[n] : AsRead(x) = g[n][x]
    <2>1. MaxNesting - n \in Nat /\ MaxNesting - (MaxNesting - n) = n /\ MaxNesting - n <= MaxNesting
      BY NestingAssumption
    <2>2. MaxNesting - n \in T
      BY <1>4, <2>1
    <2> QED
      BY <2>1, <2>2 DEF T
  <1> QED
    BY <1>1, <1>5

\* So that members and elements can be read one by one.
ReadMembers(ms)  == [i \in DOMAIN ms |-> <<ms[i][1], AsRead(ms[i][2])>>]
ReadElements(vs) == [i \in DOMAIN vs |-> AsRead(vs[i])]

LEMMA ContainersRead ==
    ASSUME NEW n \in 1..MaxNesting
    PROVE  /\ \A x \in Scalars : AsRead(x) = IF IsUint64(x) THEN NumberValue(x[2]) ELSE x
           /\ \A ms \in Seq(Seq(Nat) \X Values[n - 1]) : AsRead(Obj(ms)) = Obj(ReadMembers(ms))
           /\ \A vs \in Seq(Values[n - 1]) : AsRead(Arr(vs)) = Arr(ReadElements(vs))
  <1>1. PICK g : ReadsBack(g) /\ \A m \in 0..MaxNesting : \A x \in Values[m] : AsRead(x) = g[m][x]
    BY ReadOnLevel
  <1>2. n \in 0..MaxNesting /\ n - 1 \in 0..MaxNesting /\ 0 \in 0..MaxNesting
    BY NestingAssumption
  <1>3. PICK V : V = Values[n - 1]
    OBVIOUS
  <1>4. \A y \in V : AsRead(y) = g[n - 1][y]
    BY <1>1, <1>2, <1>3
  <1>5. ASSUME NEW x \in Values[n]
        PROVE  AsRead(x) = ReadValue(x, g[n - 1])
    BY <1>1, <1>2 DEF ReadsBack
  <1>6. ASSUME NEW x \in Scalars
        PROVE  AsRead(x) = IF IsUint64(x) THEN NumberValue(x[2]) ELSE x
    <2>1. AsRead(x) = ReadValue(x, g[0 - 1])
      BY <1>1, <1>2, ValuesUnfold DEF ReadsBack
    <2>2. x[1] # "obj" /\ x[1] # "arr"
      BY DEF Scalars, Null
    <2> QED
      BY <2>1, <2>2 DEF ReadValue
  <1>7. ASSUME NEW ms \in Seq(Seq(Nat) \X V)
        PROVE  AsRead(Obj(ms)) = Obj(ReadMembers(ms))
    <2>1. Obj(ms) \in Values[n]
      BY <1>3, InValues
    <2>2. PICK x : x = Obj(ms)
      OBVIOUS
    <2>3. ReadValue(x, g[n - 1]) = Obj([i \in DOMAIN ms |-> <<ms[i][1], g[n - 1][ms[i][2]]>>])
      BY <2>2, ReadValueOf
    <2>4. \A i \in DOMAIN ms : ms[i][2] \in V
      OBVIOUS
    <2>5. ReadMembers(ms) = [i \in DOMAIN ms |-> <<ms[i][1], g[n - 1][ms[i][2]]>>]
      BY <1>4, <2>4 DEF ReadMembers
    <2>6. AsRead(x) = ReadValue(x, g[n - 1])
      BY <1>5, <2>1, <2>2
    <2> QED
      BY <2>2, <2>3, <2>5, <2>6
  <1>8. ASSUME NEW vs \in Seq(V)
        PROVE  AsRead(Arr(vs)) = Arr(ReadElements(vs))
    <2>1. Arr(vs) \in Values[n]
      BY <1>3, InValues
    <2>2. PICK x : x = Arr(vs)
      OBVIOUS
    <2>3. ReadValue(x, g[n - 1]) = Arr([i \in DOMAIN vs |-> g[n - 1][vs[i]]])
      BY <2>2, ReadValueOf
    <2>4. \A i \in DOMAIN vs : vs[i] \in V
      OBVIOUS
    <2>5. ReadElements(vs) = [i \in DOMAIN vs |-> g[n - 1][vs[i]]]
      BY <1>4, <2>4 DEF ReadElements
    <2>6. AsRead(x) = ReadValue(x, g[n - 1])
      BY <1>5, <2>1, <2>2
    <2> QED
      BY <2>2, <2>3, <2>5, <2>6
  <1> QED
    BY <1>3, <1>6, <1>7, <1>8

-----------------------------------------------------------------------------
\* Values and members of a level, and what they are read back as.
ValueRead(n, v, x)     == v \in Values[n] /\ AsRead(v) = x
MembersRead(n, ms, ns) == ms \in Seq(Seq(Nat) \X Values[n]) /\ ReadMembers(ms) = ns

LEMMA LevelRead ==
    ASSUME NEW n \in 0..3
    PROVE  /\ \A x \in Scalars : ValueRead(n, x, IF IsUint64(x) THEN NumberValue(x[2]) ELSE x)
           /\ \A v, x : ValueRead(n, v, x) => ValueRead(n + 1, v, x)
           /\ \A ms, ns : MembersRead(n, ms, ns) => ValueRead(n + 1, Obj(ms), Obj(ns))
           /\ \A vs \in Seq(Values[n]) : ValueRead(n + 1, Arr(vs), Arr(ReadElements(vs)))
  <1>1. PICK k : k = n + 1
    OBVIOUS
  <1>2. k \in 1..MaxNesting /\ k - 1 = n
    BY <1>1, DocumentsAssumption, NestingAssumption
  <1>3. /\ Scalars \subseteq Values[n]
        /\ \A ms \in Seq(Seq(Nat) \X Values[n]) : Obj(ms) \in Values[k]
        /\ \A vs \in Seq(Values[n]) : Arr(vs) \in Values[k]
        /\ Values[n] \subseteq Values[k]
    BY <1>2, InValues, ValuesGrow
  <1>4. /\ \A x \in Scalars : AsRead(x) = IF IsUint64(x) THEN NumberValue(x[2]) ELSE x
        /\ \A ms \in Seq(Seq(Nat) \X Values[n]) : AsRead(Obj(ms)) = Obj(ReadMembers(ms))
        /\ \A vs \in Seq(Values[n]) : AsRead(Arr(vs)) = Arr(ReadElements(vs))
    BY <1>2, ContainersRead
  <1> QED
    BY <1>1, <1>3, <1>4, Zenon DEF ValueRead, MembersRead

LEMMA StrRead == \A n \in 0..3 : \A s \in Seq(Nat) : ValueRead(n, Str(s), Str(s))
  <1> SUFFICES ASSUME NEW n \in 0..3, NEW s \in Seq(Nat)
               PROVE  ValueRead(n, Str(s), Str(s))
    OBVIOUS
  <1>1. Str(s) \in Scalars /\ ~IsUint64(Str(s))
    BY ScalarValues DEF Str, IsUint64
  <1>2. ValueRead(n, Str(s), IF IsUint64(Str(s)) THEN NumberValue(Str(s)[2]) ELSE Str(s))
    BY <1>1, LevelRead
  <1> QED
    BY <1>1, <1>2

\* Each way members are made.
LEMMA NothingRead == \A n : MembersRead(n, <<>>, <<>>)
  BY DEF MembersRead, ReadMembers

LEMMA CatRead ==
    ASSUME NEW n, NEW ms, NEW ns, NEW ms2, NEW ns2, MembersRead(n, ms, ns), MembersRead(n, ms2, ns2)
    PROVE  MembersRead(n, ms \o ms2, ns \o ns2)
  <1>1. PICK A : A = Seq(Nat) \X Values[n]
    OBVIOUS
  <1>2. ms \in Seq(A) /\ ms2 \in Seq(A)
    BY <1>1 DEF MembersRead
  <1>3. Cat(ms, ms2) \in Seq(A)
    BY <1>2, CatType
  <1>4. ReadMembers(Cat(ms, ms2)) = Cat(ReadMembers(ms), ReadMembers(ms2))
    <2>1. PICK a \in Nat, b \in Nat : /\ a = Len(ms) /\ DOMAIN ms = 1..a
                                     /\ b = Len(ms2) /\ DOMAIN ms2 = 1..b
      BY <1>2
    <2>2. PICK c : c = Cat(ms, ms2)
      OBVIOUS
    <2>3. DOMAIN c = 1..(a + b) /\ \A i \in 1..(a + b) : c[i] = IF i <= a THEN ms[i] ELSE ms2[i - a]
      BY <1>2, <2>1, <2>2 DEF Cat
    <2> DEFINE r  == [i \in 1..a |-> <<ms[i][1], AsRead(ms[i][2])>>]
               r2 == [i \in 1..b |-> <<ms2[i][1], AsRead(ms2[i][2])>>]
    <2>4. Len(r) = a /\ Len(r2) = b
      OBVIOUS
    <2>5. \A i \in 1..a : r[i] = <<ms[i][1], AsRead(ms[i][2])>>
      OBVIOUS
    <2>6. \A i \in 1..b : r2[i] = <<ms2[i][1], AsRead(ms2[i][2])>>
      OBVIOUS
    <2>7. ReadMembers(ms) = r /\ ReadMembers(ms2) = r2
      BY <2>1 DEF ReadMembers
    <2>8. PICK z : z = [i \in 1..(a + b) |-> <<c[i][1], AsRead(c[i][2])>>]
      OBVIOUS
    <2>9. ReadMembers(c) = z
      BY <2>3, <2>8 DEF ReadMembers
    <2> HIDE DEF r, r2
    <2>10. \A i \in 1..(a + b) : z[i] = IF i <= a THEN r[i] ELSE r2[i - a]
      <3> TAKE i \in 1..(a + b)
      <3>1. z[i] = <<c[i][1], AsRead(c[i][2])>>
        BY <2>8
      <3>2. CASE i <= a
        BY <2>3, <2>5, <3>1, <3>2
      <3>3. CASE i > a
        <4>1. i - a \in 1..b
          BY <3>3
        <4> QED
          BY <2>3, <2>6, <3>1, <3>3, <4>1
      <3> QED
        BY <3>2, <3>3
    <2>11. z = [i \in 1..(a + b) |-> IF i <= a THEN r[i] ELSE r2[i - a]]
      <3>1. z = [i \in 1..(a + b) |-> z[i]]
        BY <2>8
      <3> QED
        BY <2>10, <3>1
    <2>12. r \o r2 = [i \in 1..(a + b) |-> IF i <= a THEN r[i] ELSE r2[i - a]]
      <3>1. r = [i \in 1..a |-> r[i]] /\ r2 = [i \in 1..b |-> r2[i]]
        BY DEF r, r2
      <3>2. a \in Nat /\ b \in Nat
        OBVIOUS
      <3> QED
        BY ONLY <2>4, <3>1, <3>2
    <2> QED
      BY <2>2, <2>7, <2>9, <2>11, <2>12, Zenon DEF Cat
  <1> QED
    BY <1>1, <1>3, <1>4, Zenon DEF MembersRead, Cat

LEMMA OneRead ==
    ASSUME NEW n, NEW s \in Seq(Nat), NEW v, NEW x, ValueRead(n, v, x)
    PROVE  MembersRead(n, <<<<s, v>>>>, <<<<s, x>>>>)
  <1>1. PICK A : A = Seq(Nat) \X Values[n]
    OBVIOUS
  <1>2. PICK e : e = <<s, v>>
    OBVIOUS
  <1>3. e \in A
    BY <1>1, <1>2 DEF ValueRead
  <1>4. <<e>> \in Seq(A)
    BY <1>3, OneSymbol
  <1>5. ReadMembers(<<e>>) = <<<<s, x>>>>
    <2>1. ReadMembers(<<e>>) = [i \in 1..1 |-> <<e[1], AsRead(e[2])>>]
      BY DEF ReadMembers
    <2> QED
      BY <1>2, <2>1 DEF ValueRead
  <1> QED
    BY <1>1, <1>2, <1>4, <1>5 DEF MembersRead

LEMMA MemberReadBack ==
    ASSUME NEW n, NEW c, NEW w \in ToSet(Words), NEW v, NEW x, c => ValueRead(n, v, x)
    PROVE  MembersRead(n, Member(c, w, v), Member(c, w, x))
  <1>1. CASE ~c
    BY <1>1, NothingRead DEF Member
  <1>2. CASE c
    BY <1>2, WordOf, OneRead DEF Member
  <1> QED
    BY <1>1, <1>2

LEMMA TextReadBack ==
    ASSUME NEW n \in 0..3, NEW w \in ToSet(Words), NEW s \in Seq(Nat)
    PROVE  MembersRead(n, Text(w, s), Text(w, s))
  <1>1. ValueRead(n, Str(s), Str(s))
    BY StrRead
  <1> QED
    BY <1>1, MemberReadBack DEF Text

LEMMA StrsRead ==
    ASSUME NEW n \in 0..3, NEW ss \in Seq(Seq(Nat)), NEW v, v = Arr([i \in DOMAIN ss |-> Str(ss[i])])
    PROVE  ValueRead(n + 1, v, v)
  <1>1. PICK V : V = Values[n]
    OBVIOUS
  <1>2. PICK R : R = Seq(Nat)
    OBVIOUS
  <1>3. ss \in Seq(R)
    BY <1>2, Zenon
  <1>4. \A s \in R : Str(s) \in V /\ AsRead(Str(s)) = Str(s)
    BY <1>1, <1>2, StrRead DEF ValueRead
  <1>5. DOMAIN ss = 1..Len(ss) /\ Len(ss) \in Nat /\ \A i \in 1..Len(ss) : ss[i] \in R
    BY <1>3, ElementsOf
  <1> DEFINE f == [i \in DOMAIN ss |-> Str(ss[i])]
  <1>6. PICK m \in Nat : m = Len(ss)
    BY <1>5
  <1>7. f = [i \in 1..m |-> f[i]] /\ \A i \in 1..m : f[i] \in V /\ AsRead(f[i]) = f[i]
    BY <1>4, <1>5, <1>6
  <1>8. DOMAIN f = 1..m
    BY <1>5, <1>6
  <1> HIDE DEF f
  <1>9. m \in Nat
    OBVIOUS
  <1>10. f \in Seq(V)
    BY ONLY <1>7, <1>9
  <1>11. ReadElements(f) = f
    BY <1>7, <1>8 DEF ReadElements
  <1>12. ValueRead(n + 1, Arr(f), Arr(ReadElements(f)))
    BY <1>1, <1>10, LevelRead
  <1> QED
    BY <1>11, <1>12 DEF f

LEMMA StringsReadBack ==
    ASSUME NEW n \in 0..2, NEW w \in ToSet(Words), NEW ss \in Seq(Seq(Nat))
    PROVE  MembersRead(n + 1, Strings(w, ss), Strings(w, ss))
  <1>1. PICK v : v = Arr([i \in DOMAIN ss |-> Str(ss[i])])
    OBVIOUS
  <1>2. PICK k : k = n + 1
    OBVIOUS
  <1>3. n \in 0..3
    OBVIOUS
  <1>4. ValueRead(k, v, v)
    BY <1>1, <1>2, <1>3, StrsRead
  <1>5. MembersRead(k, Member(ss # <<>>, w, v), Member(ss # <<>>, w, v))
    BY <1>4, MemberReadBack
  <1> QED
    BY <1>1, <1>2, <1>5 DEF Strings

LEMMA CustomRead ==
    ASSUME NEW n \in 0..3, NEW custom \in Custom
    PROVE  MembersRead(n, CustomMembers(custom), CustomMembers(custom))
  <1>1. PICK V : V = Values[n]
    OBVIOUS
  <1>2. PICK R : R = Seq(Nat)
    OBVIOUS
  <1>3. custom \in Seq(R \X R)
    BY <1>2 DEF Custom
  <1>4. \A s \in R : Str(s) \in V /\ AsRead(Str(s)) = Str(s)
    BY <1>1, <1>2, StrRead DEF ValueRead
  <1>5. DOMAIN custom = 1..Len(custom) /\ Len(custom) \in Nat
          /\ \A i \in 1..Len(custom) : custom[i] \in R \X R
    BY <1>3, ElementsOf
  <1>6. PICK m \in Nat : m = Len(custom)
    BY <1>5
  <1> DEFINE f == CustomMembers(custom)
  <1>7. f = [i \in 1..m |-> f[i]] /\ DOMAIN f = 1..m
          /\ \A i \in 1..m : f[i] = <<custom[i][1], Str(custom[i][2])>>
    BY <1>5, <1>6 DEF CustomMembers
  <1> HIDE DEF f
  <1>8. \A i \in 1..m : f[i] \in R \X V /\ <<f[i][1], AsRead(f[i][2])>> = f[i]
    <2> TAKE i \in 1..m
    <2>1. custom[i][1] \in R /\ custom[i][2] \in R
      BY <1>5, <1>6
    <2>2. PICK y : y = Str(custom[i][2])
      OBVIOUS
    <2>3. y \in V /\ AsRead(y) = y
      BY <1>4, <2>1, <2>2
    <2>4. f[i] = <<custom[i][1], y>>
      BY <1>7, <2>2
    <2> QED
      BY <2>1, <2>3, <2>4
  <1>9. m \in Nat
    OBVIOUS
  <1>10. f \in Seq(R \X V)
    BY ONLY <1>7, <1>8, <1>9
  <1>11. ReadMembers(f) = f
    BY <1>7, <1>8 DEF ReadMembers
  <1> QED
    BY <1>1, <1>2, <1>10, <1>11 DEF f, MembersRead

\* The messages are read as they are, but for the time to live of a
\* gcm_message, which may be read as an int64_t.
LEMMA ApnsReadBack ==
    ASSUME NEW m \in ApnsMessage
    PROVE  ValueRead(4, ApnsToJson(m), ApnsToJson(m))
  <1>1. 0 \in 0..3 /\ 1 \in 0..3 /\ 2 \in 0..3 /\ 3 \in 0..3 /\ 0 \in 0..2
    OBVIOUS
  <1>2. /\ m.title \in Seq(Nat) /\ m.body \in Seq(Nat) /\ m.title_loc_key \in Seq(Nat)
        /\ m.loc_key \in Seq(Nat) /\ m.alert \in Seq(Nat) /\ m.sound \in Seq(Nat)
        /\ m.action_loc_key \in Seq(Nat) /\ m.launch_image \in Seq(Nat)
        /\ m.title_loc_args \in Seq(Seq(Nat)) /\ m.loc_args \in Seq(Seq(Nat))
        /\ m.badge \in 0..BadgeMax /\ m.custom \in Custom
    BY DEF ApnsMessage
  <1> DEFINE Same(n, ms) == MembersRead(n, ms, ms)
  <1>3. /\ Same(1, Text("title", m.title)) /\ Same(1, Text("body", m.body))
        /\ Same(1, Text("title-loc-key", m.title_loc_key)) /\ Same(1, Text("loc-key", m.loc_key))
    BY <1>1, <1>2, WordsAre, TextReadBack
  <1>4. /\ Same(1, IF m.title_loc_key = <<>> THEN <<>> ELSE Strings("title-loc-args", m.title_loc_args))
        /\ Same(1, IF m.loc_key = <<>> THEN <<>> ELSE Strings("loc-args", m.loc_args))
    <2>1. Same(0 + 1, Strings("title-loc-args", m.title_loc_args))
            /\ Same(0 + 1, Strings("loc-args", m.loc_args))
      BY <1>1, <1>2, WordsAre, StringsReadBack
    <2> QED
      BY <2>1, NothingRead
  <1>5. ValueRead(2, AlertToJson(m), AlertToJson(m))
    <2>1. PICK ms : Same(1, ms) /\ AlertToJson(m) = Obj(ms)
      BY <1>3, <1>4, CatRead DEF AlertToJson
    <2>2. ValueRead(1 + 1, Obj(ms), Obj(ms))
      BY <1>1, <2>1, LevelRead
    <2> QED
      BY <2>1, <2>2
  <1>6. /\ Same(2, Member(HasAlertObject(m), "alert", AlertToJson(m)))
        /\ Same(2, IF HasAlertObject(m) THEN <<>> ELSE Text("alert", m.alert))
        /\ Same(2, Text("sound", m.sound))
        /\ Same(2, Text("action-loc-key", m.action_loc_key))
        /\ Same(2, Text("launch_image", m.launch_image))
    <2>1. Same(2, Text("alert", m.alert)) /\ Same(2, Text("sound", m.sound))
            /\ Same(2, Text("action-loc-key", m.action_loc_key))
            /\ Same(2, Text("launch_image", m.launch_image))
      BY <1>1, <1>2, WordsAre, TextReadBack
    <2>2. Same(2, Member(HasAlertObject(m), "alert", AlertToJson(m)))
      BY <1>5, WordsAre, MemberReadBack
    <2> QED
      BY <2>1, <2>2, NothingRead
  <1>7. Same(2, Member(m.badge # BadgeMax, "badge", IntVal(m.badge)))
    <2>1. m.badge \in Int64
      BY <1>2, BadgeAssumption
    <2>2. IntVal(m.badge) \in Scalars /\ ~IsUint64(IntVal(m.badge))
      BY <2>1, ScalarValues DEF IntVal, IsUint64
    <2>3. ValueRead(2, IntVal(m.badge), IntVal(m.badge))
      BY <1>1, <2>2, LevelRead
    <2> QED
      BY <2>3, WordsAre, MemberReadBack
  <1>8. ValueRead(3, ApsObject(m), ApsObject(m))
    <2>1. PICK ms : Same(2, ms) /\ ApsObject(m) = Obj(ms)
      BY <1>6, <1>7, CatRead DEF ApsObject
    <2>2. ValueRead(2 + 1, Obj(ms), Obj(ms))
      BY <1>1, <2>1, LevelRead
    <2> QED
      BY <2>1, <2>2
  <1>9. Same(3, CustomMembers(m.custom))
    BY <1>1, <1>2, CustomRead
  <1>10. Same(3, <<<<N("aps"), ApsObject(m)>>>>)
    BY <1>8, WordsAre, WordOf, OneRead
  <1>11. PICK ms : ms = CustomMembers(m.custom) \o <<<<N("aps"), ApsObject(m)>>>>
    OBVIOUS
  <1>12. Same(3, ms)
    BY <1>9, <1>10, <1>11, CatRead
  <1>13. ValueRead(3 + 1, Obj(ms), Obj(ms))
    BY <1>1, <1>12, LevelRead
  <1>14. ApnsToJson(m) = Obj(ms)
    <2>1. PICK A : A = Seq(Nat) \X Values[3]
      OBVIOUS
    <2>2. CustomMembers(m.custom) \in Seq(A)
      BY <1>9, <2>1 DEF MembersRead
    <2>3. PICK e : e = <<N("aps"), ApsObject(m)>>
      OBVIOUS
    <2>4. e \in A
      BY <1>8, <2>1, <2>3, WordsAre, WordOf DEF ValueRead
    <2>5. Append(CustomMembers(m.custom), e) = Cat(CustomMembers(m.custom), <<e>>)
      BY <2>2, <2>4, AppendCat
    <2> QED
      BY <1>11, <2>3, <2>5, Zenon DEF ApnsToJson, Cat
  <1> QED
    BY <1>13, <1>14

\* A gcm_message, when its time to live is the value ttl.
GcmWith(m, ttl) ==
    Obj(<<<<N("registration_ids"), Arr([i \in DOMAIN m.registration_ids |->
                                          Str(m.registration_ids[i])])>>>>
          \o Text("notification_key", m.notification_key)
          \o Text("notification_key_name", m.notification_key_name)
          \o Text("collapse_key", m.collapse_key)
          \o Member(m.time_to_live # UINT64_MAX, "time_to_live", ttl)
          \o Member(m.delay_while_idle, "delay_while_idle", BoolVal(TRUE))
          \o Text("restricted_package_name", m.restricted_package_name)
          \o Member(m.dry_run, "dry_run", BoolVal(TRUE))
          \o Member(m.custom # <<>>, "data", Obj(CustomMembers(m.custom))))

LEMMA GcmReadBack ==
    ASSUME NEW m \in GcmMessage
    PROVE  ValueRead(2, GcmToJson(m), GcmWith(m, NumberValue(m.time_to_live)))
  <1>1. 0 \in 0..3 /\ 1 \in 0..3 /\ 0 \in 0..2
    OBVIOUS
  <1>2. /\ m.registration_ids \in Seq(Seq(Nat)) /\ m.notification_key \in Seq(Nat)
        /\ m.notification_key_name \in Seq(Nat) /\ m.collapse_key \in Seq(Nat)
        /\ m.time_to_live \in Uint64 /\ m.restricted_package_name \in Seq(Nat) /\ m.custom \in Custom
    BY DEF GcmMessage
  <1> DEFINE Same(n, ms) == MembersRead(n, ms, ms)
  <1>3. PICK ids : ids = Arr([i \in DOMAIN m.registration_ids |-> Str(m.registration_ids[i])])
    OBVIOUS
  <1>4. Same(1, <<<<N("registration_ids"), ids>>>>)
    <2>1. ValueRead(0 + 1, ids, ids)
      BY <1>1, <1>2, <1>3, StrsRead
    <2>2. ValueRead(1, ids, ids) /\ N("registration_ids") \in Seq(Nat)
      BY <2>1, WordsAre, WordOf
    <2> QED
      BY <2>2, OneRead
  <1>5. /\ Same(1, Text("notification_key", m.notification_key))
        /\ Same(1, Text("notification_key_name", m.notification_key_name))
        /\ Same(1, Text("collapse_key", m.collapse_key))
        /\ Same(1, Text("restricted_package_name", m.restricted_package_name))
    BY <1>1, <1>2, WordsAre, TextReadBack
  <1>6. /\ MembersRead(1, Member(m.time_to_live # UINT64_MAX, "time_to_live", UintVal(m.time_to_live)),
                       Member(m.time_to_live # UINT64_MAX, "time_to_live", NumberValue(m.time_to_live)))
        /\ Same(1, Member(m.delay_while_idle, "delay_while_idle", BoolVal(TRUE)))
        /\ Same(1, Member(m.dry_run, "dry_run", BoolVal(TRUE)))
    <2>1. PICK x : x = UintVal(m.time_to_live)
      OBVIOUS
    <2>2. x \in Scalars /\ IsUint64(x) /\ x[2] = m.time_to_live
      BY <1>2, <2>1, ScalarValues DEF UintVal, IsUint64
    <2>3. ValueRead(1, x, NumberValue(m.time_to_live))
      BY <1>1, <2>2, LevelRead
    <2>4. PICK b : b = BoolVal(TRUE)
      OBVIOUS
    <2>5. b \in Scalars /\ ~IsUint64(b)
      BY <2>4, ScalarValues DEF BoolVal, IsUint64
    <2>6. ValueRead(1, b, b)
      BY <1>1, <2>5, LevelRead
    <2> QED
      BY <2>1, <2>3, <2>4, <2>6, WordsAre, MemberReadBack
  <1>7. Same(1, Member(m.custom # <<>>, "data", Obj(CustomMembers(m.custom))))
    <2>1. Same(0, CustomMembers(m.custom))
      BY <1>1, <1>2, CustomRead
    <2>2. PICK v : v = Obj(CustomMembers(m.custom))
      OBVIOUS
    <2>3. ValueRead(0 + 1, v, v)
      BY <1>1, <2>1, <2>2, LevelRead
    <2>4. ValueRead(1, v, v) /\ "data" \in ToSet(Words)
      BY <2>3, WordsAre
    <2>5. Same(1, Member(m.custom # <<>>, "data", v))
      BY <2>4, MemberReadBack
    <2> QED
      BY <2>2, <2>5
  <1>8. PICK ms, ns : /\ MembersRead(1, ms, ns) /\ GcmToJson(m) = Obj(ms)
                      /\ GcmWith(m, NumberValue(m.time_to_live)) = Obj(ns)
    <2>1. PICK p1, p2, p3, p4, p5, q5, p6, p7, p8, p9 :
            /\ p1 = <<<<N("registration_ids"), ids>>>> /\ p2 = Text("notification_key", m.notification_key)
            /\ p3 = Text("notification_key_name", m.notification_key_name)
            /\ p4 = Text("collapse_key", m.collapse_key)
            /\ p5 = Member(m.time_to_live # UINT64_MAX, "time_to_live", UintVal(m.time_to_live))
            /\ q5 = Member(m.time_to_live # UINT64_MAX, "time_to_live", NumberValue(m.time_to_live))
            /\ p6 = Member(m.delay_while_idle, "delay_while_idle", BoolVal(TRUE))
            /\ p7 = Text("restricted_package_name", m.restricted_package_name)
            /\ p8 = Member(m.dry_run, "dry_run", BoolVal(TRUE))
            /\ p9 = Member(m.custom # <<>>, "data", Obj(CustomMembers(m.custom)))
      OBVIOUS
    <2>2. /\ Same(1, p1) /\ Same(1, p2) /\ Same(1, p3) /\ Same(1, p4) /\ MembersRead(1, p5, q5)
          /\ Same(1, p6) /\ Same(1, p7) /\ Same(1, p8) /\ Same(1, p9)
      BY <1>4, <1>5, <1>6, <1>7, <2>1, Zenon
    <2>3. PICK a : Same(1, a) /\ a = p1 \o p2 \o p3 \o p4
      <3>1. Same(1, p1 \o p2)
        BY <2>2, CatRead, Zenon
      <3>2. Same(1, p1 \o p2 \o p3)
        BY <2>2, <3>1, CatRead, Zenon
      <3>3. Same(1, p1 \o p2 \o p3 \o p4)
        BY <2>2, <3>2, CatRead, Zenon
      <3> QED
        BY <3>3, Zenon
    <2>4. PICK b, c : MembersRead(1, b, c) /\ b = a \o p5 \o p6 /\ c = a \o q5 \o p6
      <3>1. MembersRead(1, a \o p5, a \o q5)
        BY <2>2, <2>3, CatRead, Zenon
      <3>2. MembersRead(1, a \o p5 \o p6, a \o q5 \o p6)
        BY <2>2, <3>1, CatRead, Zenon
      <3> QED
        BY <3>2, Zenon
    <2>5. MembersRead(1, b \o p7 \o p8 \o p9, c \o p7 \o p8 \o p9)
      <3>1. MembersRead(1, b \o p7, c \o p7)
        BY <2>2, <2>4, CatRead, Zenon
      <3>2. MembersRead(1, b \o p7 \o p8, c \o p7 \o p8)
        BY <2>2, <3>1, CatRead, Zenon
      <3> QED
        BY <2>2, <3>2, CatRead, Zenon
    <2>6. /\ GcmToJson(m) = Obj(b \o p7 \o p8 \o p9)
          /\ GcmWith(m, NumberValue(m.time_to_live)) = Obj(c \o p7 \o p8 \o p9)
      BY <1>3, <2>1, <2>3, <2>4, Zenon DEF GcmToJson, GcmWith
    <2> QED
      BY <2>5, <2>6, Zenon
  <1>9. ValueRead(1 + 1, Obj(ms), Obj(ns))
    BY <1>1, <1>8, LevelRead
  <1> QED
    BY <1>8, <1>9

\* The message that is posted to several devices is the client's each time.
LEMMA PostedIsOwn ==
    ASSUME NEW m \in GcmMessage, NEW tokens \in Seq(Seq(Nat)) \ {<<>>}
    PROVE  /\ PostToAll(m, tokens) = GcmToJson(AddRegId(m, Last(tokens)))
           /\ AddRegId(m, Last(tokens)) \in GcmMessage
           /\ Last(tokens) \in Seq(Nat)
  <1>1. PICK l \in Nat \ {0} : l = Len(tokens) /\ DOMAIN tokens = 1..l
    OBVIOUS
  <1> DEFINE g == [n \in 1..l |-> m]
             before == CHOOSE f : f = [n \in DOMAIN tokens |->
                                         IF n = 1 THEN m ELSE PostGcm(f[n - 1], tokens[n - 1]).msg]
  <1>2. g = [n \in DOMAIN tokens |-> IF n = 1 THEN m ELSE PostGcm(g[n - 1], tokens[n - 1]).msg]
    BY <1>1 DEF PostGcm
  <1>3. before = [n \in DOMAIN tokens |-> IF n = 1 THEN m ELSE PostGcm(before[n - 1], tokens[n - 1]).msg]
    BY <1>2
  <1>4. PostToAll(m, tokens) = PostGcm(before[Len(tokens)], Last(tokens)).sent
    BY DEF PostToAll
  <1> HIDE DEF g, before
  <1>5. \A n \in 1..l : before[n] = m
    <2>1. \A n \in 1..l : before[n] = IF n = 1 THEN m ELSE before[n - 1]
      <3>1. \A n \in 1..l : before[n] = IF n = 1 THEN m ELSE PostGcm(before[n - 1], tokens[n - 1]).msg
        BY <1>1, <1>3
      <3> QED
        BY <3>1 DEF PostGcm
    <2> DEFINE T == {n \in Nat : n \in 1..l => before[n] = m}
    <2>2. 0 \in T
      OBVIOUS
    <2>3. ASSUME NEW n \in Nat, n \in T
          PROVE  n + 1 \in T
      BY <2>1, <2>3
    <2> HIDE DEF T
    <2>4. Nat \subseteq T
      BY <2>2, <2>3, SetInduction
    <2> QED
      BY <2>4 DEF T
  <1>6. PostToAll(m, tokens) = GcmToJson(AddRegId(m, Last(tokens)))
    BY <1>1, <1>4, <1>5 DEF PostGcm
  <1>7. PICK t \in Seq(Nat) : t = Last(tokens)
    <2>1. PICK R : R = Seq(Nat)
      OBVIOUS
    <2>2. tokens[l] \in R
      BY <1>1, <2>1
    <2> QED
      BY <1>1, <2>1, <2>2 DEF Last
  <1>8. AddRegId(m, t) \in GcmMessage
    <2>1. PICK R : R = Seq(Nat)
      OBVIOUS
    <2>2. m.registration_ids \in Seq(R) /\ t \in R
      BY <2>1 DEF GcmMessage
    <2>3. Append(m.registration_ids, t) \in Seq(R)
      BY <2>2, AppendCat
    <2> QED
      BY <2>1, <2>3 DEF AddRegId, GcmMessage
  <1> QED
    BY <1>6, <1>7, <1>8

\* An entry of an answer, and the answer as it is read.
EntryOf(e) == Obj(Text("message_id", e.message_id) \o Text("registration_id", e.registration_id)
                    \o Text("error", e.error))
AnswerRead(x) ==
    <<<<N("multicast_id"), NumberValue(x.multicast_id[2])>>, <<N("success"), NumberValue(x.success[2])>>,
      <<N("failure"), NumberValue(x.failure[2])>>, <<N("canonical_ids"), NumberValue(x.canonical_ids[2])>>,
      <<N("results"), Arr([i \in DOMAIN x.results |-> EntryOf(x.results[i])])>>>>

EntryType == [message_id : Seq(Nat), registration_id : Seq(Nat), error : Seq(Nat)]

LEMMA EntryReadBack ==
    ASSUME NEW e \in EntryType
    PROVE  ValueRead(1, EntryOf(e), EntryOf(e))
  <1>1. 0 \in 0..3
    OBVIOUS
  <1>2. /\ e.message_id \in Seq(Nat) /\ e.registration_id \in Seq(Nat) /\ e.error \in Seq(Nat)
    BY DEF EntryType
  <1> DEFINE Same(ms) == MembersRead(0, ms, ms)
  <1>3. /\ Same(Text("message_id", e.message_id)) /\ Same(Text("registration_id", e.registration_id))
        /\ Same(Text("error", e.error))
    BY <1>1, <1>2, WordsAre, TextReadBack
  <1>4. PICK ms : Same(ms) /\ EntryOf(e) = Obj(ms)
    BY <1>3, CatRead DEF EntryOf
  <1>5. ValueRead(0 + 1, Obj(ms), Obj(ms))
    BY <1>1, <1>4, LevelRead
  <1> QED
    BY <1>4, <1>5

LEMMA ResultsReadBack ==
    ASSUME NEW x \in ServerAnswer, NEW v, v = Arr([i \in DOMAIN x.results |-> EntryOf(x.results[i])])
    PROVE  ValueRead(2, v, v)
  <1>1. PICK V : V = Values[1]
    OBVIOUS
  <1>2. PICK R : R = EntryType
    OBVIOUS
  <1>3. \A e \in R : EntryOf(e) \in V /\ AsRead(EntryOf(e)) = EntryOf(e)
    BY <1>1, <1>2, EntryReadBack DEF ValueRead
  <1>4. x.results \in Seq(R)
    BY <1>2 DEF ServerAnswer, EntryType
  <1>5. PICK s : s = x.results
    OBVIOUS
  <1>6. DOMAIN s = 1..Len(s) /\ Len(s) \in Nat /\ \A i \in 1..Len(s) : s[i] \in R
    BY <1>4, <1>5, ElementsOf
  <1>7. PICK l \in Nat : l = Len(s)
    BY <1>6
  <1>8. l \in Nat /\ 1 \in 0..3
    OBVIOUS
  <1> DEFINE f == [i \in DOMAIN s |-> EntryOf(s[i])]
  <1>9. f = [i \in 1..l |-> f[i]] /\ DOMAIN f = 1..l /\ \A i \in 1..l : f[i] \in V /\ AsRead(f[i]) = f[i]
    BY <1>3, <1>6, <1>7
  <1> HIDE DEF f
  <1>10. f \in Seq(V)
    BY ONLY <1>8, <1>9
  <1>11. ReadElements(f) = f
    BY <1>9 DEF ReadElements
  <1>12. ValueRead(1 + 1, Arr(f), Arr(ReadElements(f)))
    BY <1>1, <1>8, <1>10, LevelRead
  <1> QED
    BY <1>5, <1>11, <1>12 DEF f

LEMMA ReverseReadBack ==
    ASSUME NEW n, NEW ms, NEW ns, MembersRead(n, ms, ns)
    PROVE  MembersRead(n, Reverse(ms), Reverse(ns))
  <1>1. PICK A : A = Seq(Nat) \X Values[n]
    OBVIOUS
  <1>2. ms \in Seq(A)
    BY <1>1 DEF MembersRead
  <1>3. PICK l \in Nat : l = Len(ms) /\ DOMAIN ms = 1..l
    BY <1>2
  <1>4. Len(ns) = l /\ \A i \in 1..l : ns[i] = <<ms[i][1], AsRead(ms[i][2])>>
    <2>1. ns = [i \in 1..l |-> <<ms[i][1], AsRead(ms[i][2])>>]
      BY <1>3 DEF MembersRead, ReadMembers
    <2> QED
      BY <2>1
  <1>5. \A i \in 1..l : l - i + 1 \in 1..l
    OBVIOUS
  <1>6. PICK r : r = [i \in 1..l |-> ms[(l - i) + 1]]
    OBVIOUS
  <1>7. r = Reverse(ms)
    BY <1>3, <1>6 DEF Reverse
  <1>8. r = [i \in 1..l |-> r[i]] /\ DOMAIN r = 1..l /\ \A i \in 1..l : r[i] = ms[(l - i) + 1]
    BY <1>6
  <1>9. \A i \in 1..l : ms[i] \in A
    BY <1>2, <1>3
  <1>10. \A i \in 1..l : r[i] \in A
    BY <1>5, <1>8, <1>9
  <1>11. l \in Nat
    OBVIOUS
  <1>12. r \in Seq(A)
    BY ONLY <1>8, <1>10, <1>11
  <1>13. ReadMembers(r) = Reverse(ns)
    <2>1. ReadMembers(r) = [i \in 1..l |-> <<r[i][1], AsRead(r[i][2])>>]
      BY <1>8 DEF ReadMembers
    <2>2. Reverse(ns) = [i \in 1..l |-> ns[(l - i) + 1]]
      BY <1>4 DEF Reverse
    <2>3. \A i \in 1..l : ns[(l - i) + 1] = <<r[i][1], AsRead(r[i][2])>>
      BY <1>4, <1>5, <1>8
    <2> QED
      BY <2>1, <2>2, <2>3
  <1> QED
    BY <1>1, <1>7, <1>12, <1>13 DEF MembersRead

LEMMA AnswerReadBack ==
    ASSUME NEW x \in ServerAnswer
    PROVE  MembersRead(2, AnswerMembers(x), AnswerRead(x))
  <1>1. 2 \in 0..3
    OBVIOUS
  <1>2. PICK results : results = Arr([i \in DOMAIN x.results |-> EntryOf(x.results[i])])
    OBVIOUS
  <1>3. ValueRead(2, results, results)
    BY <1>2, ResultsReadBack
  <1>4. ASSUME NEW y \in ({"int"} \X Int64) \cup ({"uint"} \X Uint64)
        PROVE  ValueRead(2, y, NumberValue(y[2]))
    <2>1. y \in Scalars
      BY DEF Scalars
    <2>2. NumberValue(y[2]) = IF IsUint64(y) THEN NumberValue(y[2]) ELSE y
      BY DEF IsUint64, NumberValue, IntVal
    <2> QED
      BY <1>1, <2>1, <2>2, LevelRead
  <1>5. /\ ValueRead(2, x.multicast_id, NumberValue(x.multicast_id[2]))
        /\ ValueRead(2, x.success, NumberValue(x.success[2]))
        /\ ValueRead(2, x.failure, NumberValue(x.failure[2]))
        /\ ValueRead(2, x.canonical_ids, NumberValue(x.canonical_ids[2]))
    BY <1>4 DEF ServerAnswer
  <1>6. PICK A : A = Seq(Nat) \X Values[2]
    OBVIOUS
  <1>7. PICK m1, m2, m3, m4, m5 :
          /\ m1 = <<N("multicast_id"), x.multicast_id>> /\ m2 = <<N("success"), x.success>>
          /\ m3 = <<N("failure"), x.failure>> /\ m4 = <<N("canonical_ids"), x.canonical_ids>>
          /\ m5 = <<N("results"), results>>
    OBVIOUS
  <1>8. m1 \in A /\ m2 \in A /\ m3 \in A /\ m4 \in A /\ m5 \in A
    BY <1>3, <1>5, <1>6, <1>7, WordsAre, WordOf DEF ValueRead
  <1>9. PICK ms : ms = <<m1, m2, m3, m4, m5>>
    OBVIOUS
  <1>10. ms \in Seq(A)
    BY ONLY <1>8, <1>9
  <1>11. AnswerMembers(x) = ms
    BY <1>2, <1>7, <1>9 DEF AnswerMembers, EntryOf
  <1>12. ReadMembers(ms) = AnswerRead(x)
    <2>1. DOMAIN ms = 1..5 /\ ms[1] = m1 /\ ms[2] = m2 /\ ms[3] = m3 /\ ms[4] = m4 /\ ms[5] = m5
      BY <1>9
    <2>2. ReadMembers(ms) = <<<<m1[1], AsRead(m1[2])>>, <<m2[1], AsRead(m2[2])>>, <<m3[1], AsRead(m3[2])>>,
                              <<m4[1], AsRead(m4[2])>>, <<m5[1], AsRead(m5[2])>>>>
      BY <2>1 DEF ReadMembers
    <2> QED
      BY <1>2, <1>3, <1>5, <1>7, <2>2 DEF AnswerRead, ValueRead
  <1> QED
    BY <1>6, <1>10, <1>11, <1>12 DEF MembersRead

\* The value of a document that is written, as it is read.
Meant(d) ==
    CASE d.kind = "apns"   -> ApnsToJson(d.msg)
      [] d.kind = "gcm"    -> GcmWith(AddRegId(d.msg, Last(d.tokens)), NumberValue(d.msg.time_to_live))
      [] d.kind = "answer" -> Obj(IF d.reversed THEN Reverse(AnswerRead(d.answer)) ELSE AnswerRead(d.answer))
      [] OTHER             -> AsRead(d.value)

\* Each document of this program or for it is a value within the bound.
LEMMA DocumentsFit ==
    ASSUME NEW d \in Documents, d.kind # "foreign"
    PROVE  Valued(d) \in Values[MaxNesting] /\ AsRead(Valued(d)) = Meant(d)
  <1>1. 4 <= MaxNesting
    BY DocumentsAssumption, NestingAssumption
  <1>2. CASE d.kind \in {"value", "nested"}
    <2>1. Valued(d) = d.value /\ Meant(d) = AsRead(d.value)
      BY <1>2 DEF Valued, Meant
    <2> QED
      BY <1>2, <2>1, DocumentsAssumption
  <1>3. CASE d.kind = "apns"
    <2>1. d.msg \in ApnsMessage
      BY <1>3, DocumentsAssumption
    <2>2. ValueRead(4, ApnsToJson(d.msg), ApnsToJson(d.msg))
      BY <2>1, ApnsReadBack
    <2>3. Valued(d) = ApnsToJson(d.msg) /\ Meant(d) = ApnsToJson(d.msg)
      BY <1>3 DEF Valued, Meant
    <2> QED
      BY <1>1, <2>2, <2>3, LevelUp DEF ValueRead
  <1>4. CASE d.kind = "gcm"
    <2>1. d.msg \in GcmMessage /\ d.tokens \in Seq(Seq(Nat)) \ {<<>>}
      BY <1>4, DocumentsAssumption
    <2>2. PICK m \in GcmMessage : m = AddRegId(d.msg, Last(d.tokens)) /\ PostToAll(d.msg, d.tokens) = GcmToJson(m)
      BY <2>1, PostedIsOwn
    <2>3. m.time_to_live = d.msg.time_to_live
      BY <2>1, <2>2 DEF AddRegId, GcmMessage
    <2>4. ValueRead(2, GcmToJson(m), GcmWith(m, NumberValue(m.time_to_live)))
      BY GcmReadBack
    <2>5. Valued(d) = PostToAll(d.msg, d.tokens) /\ Meant(d) = GcmWith(m, NumberValue(d.msg.time_to_live))
      BY <1>4, <2>2 DEF Valued, Meant
    <2> QED
      BY <1>1, <2>2, <2>3, <2>4, <2>5, LevelUp DEF ValueRead
  <1>5. CASE d.kind = "answer"
    <2>1. d.answer \in ServerAnswer
      BY <1>5, DocumentsAssumption
    <2>2. PICK ms, ns : /\ MembersRead(2, ms, ns)
                        /\ Valued(d) = Obj(ms) /\ Meant(d) = Obj(ns)
      <3>1. CASE d.reversed
        <4>1. /\ Valued(d) = Obj(Reverse(AnswerMembers(d.answer)))
              /\ Meant(d) = Obj(Reverse(AnswerRead(d.answer)))
          BY <1>5, <3>1 DEF Valued, Meant
        <4> QED
          BY <2>1, <4>1, AnswerReadBack, ReverseReadBack
      <3>2. CASE ~d.reversed
        <4>1. Valued(d) = Obj(AnswerMembers(d.answer)) /\ Meant(d) = Obj(AnswerRead(d.answer))
          BY <1>5, <3>2 DEF Valued, Meant
        <4> QED
          BY <2>1, <4>1, AnswerReadBack
      <3> QED
        BY <3>1, <3>2
    <2>3. 2 \in 0..3
      OBVIOUS
    <2>4. ValueRead(2 + 1, Valued(d), Meant(d))
      BY <2>2, <2>3, LevelRead
    <2> QED
      BY <1>1, <2>4, LevelUp DEF ValueRead
  <1> QED
    BY <1>2, <1>3, <1>4, <1>5, DocumentsAssumption

-----------------------------------------------------------------------------
\* The documents.
Own(d) == d.kind \notin {"any", "none", "foreign"}

Finished(q) == q.v = AsRead(Valued(doc)) /\ q.f = <<"end">>

\* What is left of the text brings the reader to the end of the value.
WrittenInv ==
    /\ outcome = "reading" => frames # <<"end">>
    /\ doc.kind = "any" => doc = AnyText
    /\ doc.kind = "none" => doc = NoText
    /\ Own(doc) =>
         \/ /\ outcome = "reading"
            /\ Valued(doc) \in Values[MaxNesting]
            /\ rest \in Seq(Symbols(opt))
            /\ \E q : Finished(q) /\ Reads(Current, rest, q)
         \/ outcome = "done" /\ rest = <<>> /\ value = AsRead(Valued(doc))

\* A frame is open until the end.
LEMMA FramesTyped ==
    ASSUME ReaderInv
    PROVE  \E S : frames \in Seq(S) /\ Len(frames) > 0
  <1>1. CASE frames = <<"json">> \/ frames = <<"end">>
    <2>1. PICK x : frames = <<x>>
      BY <1>1
    <2>2. PICK S : S = {x}
      OBVIOUS
    <2>3. <<x>> \in Seq(S) /\ Len(<<x>>) > 0
      BY <2>2
    <2> QED
      BY <2>1, <2>3
  <1>2. CASE Building(value, current, stack, frames)
    <2>1. frames \in Seq(Frames \cup {"end"}) /\ Len(frames) > 1
      BY <1>2 DEF Building
    <2> QED
      BY <2>1
  <1> QED
    BY <1>1, <1>2 DEF ReaderInv

\* A token of a text that is read is accepted, and moves the reader.
LEMMA TakenRead ==
    ASSUME ReaderInv, NEW t, NEW s, Takes(Current, t, s), Read(t)
    PROVE  /\ Current' = s
           /\ outcome' = IF frames' = <<"end">> THEN "done" ELSE "reading"
  <1>1. Accepts(t)
    BY CurrentTakes DEF Takes
  <1>2. Accept(t) /\ outcome' = IF frames' = <<"end">> THEN "done" ELSE "reading"
    BY <1>1 DEF Read
  <1>3. Current' = After(Current, t)
    BY <1>2, FramesTyped, AcceptIsAfter
  <1> QED
    BY <1>2, <1>3 DEF Takes

\* Something is left while the reader is reading.
LEMMA SomethingLeft ==
    ASSUME WrittenInv, Own(doc), outcome = "reading"
    PROVE  rest # <<>>
  <1>1. PICK q : Finished(q) /\ Reads(Current, rest, q)
    BY DEF WrittenInv
  <1>2. ASSUME rest = <<>>
        PROVE  FALSE
    <2>1. q = Current
      BY <1>1, <1>2, ReadsNone
    <2> QED
      BY <1>1, <2>1 DEF WrittenInv, Finished, Current, State
  <1> QED
    BY <1>2

LEMMA WrittenKept ==
    ASSUME WrittenInv, ReaderInv, Own(doc), ReadDocument
    PROVE  WrittenInv'
  <1>1. outcome = "reading"
    BY DEF ReadDocument, Read
  <1>2. doc' = doc /\ opt' = opt
    BY DEF ReadDocument
  <1>3. rest \in Seq(Symbols(opt)) /\ Valued(doc) \in Values[MaxNesting] /\ frames # <<"end">>
    BY <1>1 DEF WrittenInv
  <1>4. PICK q : Finished(q) /\ Reads(Current, rest, q)
    BY <1>1 DEF WrittenInv
  <1>5. rest # <<>>
    BY <1>1, SomethingLeft
  <1>6. PICK s : Takes(Current, Head(rest), s) /\ Reads(s, Tail(rest), q)
    BY <1>3, <1>4, <1>5, ReadsHead
  <1>7. Read(Head(rest)) /\ rest' = Tail(rest)
    BY <1>5 DEF ReadDocument
  <1>8. Current' = s /\ outcome' = IF frames' = <<"end">> THEN "done" ELSE "reading"
    BY <1>6, <1>7, TakenRead
  <1>9. rest' \in Seq(Symbols(opt'))
    BY <1>2, <1>3, <1>5, <1>7
  <1>10. s.v = value' /\ s.f = frames'
    BY <1>8 DEF Current, State
  <1>11. CASE frames' = <<"end">>
    <2>1. rest' = <<>>
      <3>1. ASSUME rest' # <<>>
            PROVE  FALSE
        <4>1. PICK z : Takes(s, Head(rest'), z)
          BY <1>6, <1>7, <1>9, <3>1, ReadsHead
        <4> QED
          BY <1>10, <1>11, <4>1 DEF Takes
      <3> QED
        BY <3>1
    <2>2. q = s
      BY <1>6, <1>7, <2>1, ReadsNone
    <2>3. value' = AsRead(Valued(doc))
      BY <1>4, <1>10, <2>2 DEF Finished
    <2> QED
      BY <1>2, <1>8, <1>11, <2>1, <2>3 DEF WrittenInv, Own
  <1>12. CASE frames' # <<"end">>
    <2>1. Reads(Current', rest', q) /\ Finished(q)'
      BY <1>2, <1>4, <1>6, <1>7, <1>8 DEF Finished
    <2> QED
      BY <1>2, <1>3, <1>8, <1>9, <1>12, <2>1 DEF WrittenInv, Own
  <1> QED
    BY <1>11, <1>12

\* The text of a document brings the reader from the start to its value.
LEMMA WrittenFromStart ==
    ASSUME Init
    PROVE  WrittenInv
  <1>1. outcome = "reading" /\ frames # <<"end">> /\ Current = Start
    BY DEF Init, TextInit, TextAtRest, ReaderInit, Current, Start
  <1>2. CASE doc = AnyText \/ doc = NoText
    BY <1>1, <1>2 DEF WrittenInv, Own, AnyText, NoText
  <1>3. CASE doc \in Documents /\ rest = TextOf(doc, opt)
    <2>1. doc.kind \in {"value", "nested", "foreign", "apns", "gcm", "answer"}
      BY <1>3, DocumentsAssumption
    <2>2. CASE doc.kind = "foreign"
      BY <1>1, <2>2 DEF WrittenInv, Own
    <2>3. CASE doc.kind # "foreign"
      <3>1. PICK v : v = Valued(doc)
        OBVIOUS
      <3>2. v \in Values[MaxNesting]
        BY <1>3, <2>3, <3>1, DocumentsFit
      <3>3. rest = WriteString(v, opt)
        BY <1>3, <2>3, <3>1 DEF TextOf
      <3>4. rest \in Seq(Symbols(opt)) /\ \E nm \in Seq(Nat) : Reads(Start, rest, Filled(Start, AsRead(v), nm))
        BY <3>2, <3>3, ValueStands, StartSlot DEF Stands
      <3>5. ASSUME NEW nm
            PROVE  Finished(Filled(Start, AsRead(v), nm))
        <4>1. Start.c = NullPointer /\ Start.f = <<"json">>
          BY StateFields DEF Start
        <4>2. Append(Front(Start.f), AfterOf(Last(Start.f))) = <<"end">>
          <5>1. Last(<<"json">>) = "json" /\ Front(<<"json">>) = <<>>
            BY DEF Last, Front
          <5> QED
            BY <4>1, <5>1 DEF AfterOf
        <4>3. Filled(Start, AsRead(v), nm).v = Placed(Start, AsRead(v))
                /\ Filled(Start, AsRead(v), nm).f = <<"end">>
          BY <4>2, StateFields DEF Filled
        <4> QED
          BY <3>1, <4>1, <4>3 DEF Finished, Placed
      <3> QED
        BY <1>1, <2>1, <3>1, <3>2, <3>4, <3>5 DEF WrittenInv
    <2> QED
      BY <2>2, <2>3
  <1> QED
    BY <1>2, <1>3 DEF Init, TextInit, TextAtRest

\* Nothing else touches it.
LEMMA WrittenElsewhere ==
    ASSUME WrittenInv, ReaderInv, Next, ~(Own(doc) /\ ReadDocument)
    PROVE  WrittenInv'
  <1>1. CASE UNCHANGED textVars
    BY <1>1 DEF textVars, readerVars, WrittenInv, Own, Finished, Current
  <1>2. CASE doc # NoText /\ TextNext
    <2>1. ~Own(doc) /\ doc' = doc
      BY <1>2 DEF TextNext, ReadDocument, ReadAnything, WrittenInv, Own, AnyText
    <2>2. \E t : Read(t)
      BY <1>2 DEF TextNext, ReadDocument, ReadAnything
    <2>3. outcome' = "reading" => frames' # <<"end">>
      BY <2>2 DEF Read
    <2> QED
      BY <2>1, <2>3 DEF WrittenInv, Own
  <1> QED
    BY <1>1, <1>2 DEF Next

\* The invariant behind the theorems below: of every document that json_spirit
\* has written, what is not yet read brings the reader from where it stands to
\* the end of the value.
THEOREM WrittenInvariant == Spec => []WrittenInv
  <1>1. Init => WrittenInv
    BY WrittenFromStart
  <1>2. ReaderInv /\ WrittenInv /\ [Next]_formatVars => WrittenInv'
    <2> SUFFICES ASSUME ReaderInv, WrittenInv, [Next]_formatVars
                 PROVE  WrittenInv'
      OBVIOUS
    <2>1. CASE UNCHANGED formatVars
      BY <2>1 DEF formatVars, textVars, readerVars, WrittenInv, Own, Finished, Current
    <2>2. CASE Own(doc) /\ ReadDocument
      BY <2>2, WrittenKept
    <2>3. CASE Next /\ ~(Own(doc) /\ ReadDocument)
      BY <2>3, WrittenElsewhere
    <2> QED
      BY <2>1, <2>2, <2>3
  <1> QED
    BY <1>1, <1>2, ReaderInvariant, PTL DEF Spec

\* Every document is read back as it was written, whatever the values, the
\* strings and the options are.
THEOREM WhatIsWrittenReadBack == Spec => []WhatIsWrittenIsRead
  <1>1. WrittenInv => WhatIsWrittenIsRead
    BY SomethingLeft DEF WrittenInv, WhatIsWrittenIsRead, Own
  <1> QED
    BY <1>1, WrittenInvariant, PTL

-----------------------------------------------------------------------------
\* A text of one string.
StringInv ==
    /\ doc.kind = "any" => doc = AnyText
    /\ doc.kind = "none" => doc = NoText
    /\ doc.kind \notin {"any", "none"} =>
         /\ doc \in Documents /\ opt \in OptionsOf[doc.kind]
         /\ \A s \in Seq(Nat) : TextOf(doc, opt) = <<Quoted(s)>> =>
              \/ /\ outcome = "reading" /\ text = <<>> /\ rest = <<Quoted(s)>>
                 /\ frames = <<"json">> /\ current = NullPointer
              \/ outcome = "done" /\ text = <<Quoted(s)>> /\ value = Str(GetStr(s))

LEMMA StringTaken ==
    ASSUME NEW s \in Seq(Nat), frames = <<"json">>, current = NullPointer, Read(Quoted(s))
    PROVE  outcome' = "done" /\ value' = Str(GetStr(s))
  <1>1. PICK t : t = Quoted(s)
    OBVIOUS
  <1>2. t[1] = "quoted" /\ t[2] = s /\ (\A c : t # Mark(c)) /\ t # Blank
    BY <1>1 DEF Quoted, Mark, Blank
  <1>3. Expects = "json"
    BY TopOfOne DEF Expects
  <1>4. Accepts(t)
    BY <1>2, <1>3 DEF Accepts, IsScalar, BeforeValue
  <1>5. Accept(t) /\ outcome' = IF frames' = <<"end">> THEN "done" ELSE "reading"
    BY <1>1, <1>4 DEF Read
  <1>6. ReadScalar(t)
    BY <1>2, <1>3, <1>5 DEF Accept, BeginObj, BeginArray, ReadEnd, Ends, NewName, ReadMark, Skip, BeforePair
  <1>7. value' = Str(GetStr(s))
    BY <1>2, <1>6 DEF ReadScalar, NewScalar, Added, Scalar
  <1>8. frames' = <<"end">>
    <2>1. AfterValue = "end"
      BY <1>3 DEF AfterValue
    <2> QED
      BY <1>6, <2>1, TopOfOne DEF ReadScalar, Expect
  <1> QED
    BY <1>5, <1>7, <1>8

LEMMA StringInvariant == Spec => []StringInv
  <1>1. Init => StringInv
    <2> SUFFICES ASSUME Init
                 PROVE  StringInv
      OBVIOUS
    <2>1. CASE doc = AnyText \/ doc = NoText
      BY <2>1 DEF StringInv, AnyText, NoText
    <2>2. CASE doc \in Documents /\ opt \in OptionsOf[doc.kind] /\ rest = TextOf(doc, opt)
      <3>1. doc.kind \in {"value", "nested", "foreign", "apns", "gcm", "answer"}
        BY <2>2, DocumentsAssumption
      <3>2. outcome = "reading" /\ text = <<>> /\ frames = <<"json">> /\ current = NullPointer
        BY DEF Init, TextInit, TextAtRest, ReaderInit
      <3> QED
        BY <2>2, <3>1, <3>2 DEF StringInv
    <2> QED
      BY <2>1, <2>2 DEF Init, TextInit, TextAtRest
  <1>2. StringInv /\ [Next]_formatVars => StringInv'
    <2> SUFFICES ASSUME StringInv, [Next]_formatVars
                 PROVE  StringInv'
      OBVIOUS
    <2>1. CASE UNCHANGED textVars
      BY <2>1 DEF textVars, readerVars, StringInv
    <2>2. CASE doc # NoText /\ ReadDocument
      <3>1. doc' = doc /\ opt' = opt /\ doc.kind \notin {"any", "none"} /\ outcome = "reading"
        BY <2>2 DEF ReadDocument, Read, StringInv
      <3>2. ASSUME NEW s \in Seq(Nat), TextOf(doc, opt) = <<Quoted(s)>>
            PROVE  outcome' = "done" /\ text' = <<Quoted(s)>> /\ value' = Str(GetStr(s))
        <4>1. text = <<>> /\ rest = <<Quoted(s)>> /\ frames = <<"json">> /\ current = NullPointer
          BY <3>1, <3>2 DEF StringInv
        <4>2. Read(Quoted(s))
          BY <2>2, <4>1 DEF ReadDocument
        <4>3. text' = <<Quoted(s)>>
          BY <4>1, <4>2 DEF Read
        <4> QED
          BY <4>1, <4>2, <4>3, StringTaken
      <3> QED
        BY <3>1, <3>2 DEF StringInv
    <2>3. CASE doc # NoText /\ ReadAnything
      <3>1. doc' = doc /\ doc = AnyText
        BY <2>3 DEF ReadAnything
      <3> QED
        BY <3>1 DEF StringInv, AnyText
    <2> QED
      BY <2>1, <2>2, <2>3 DEF Next, TextNext, formatVars
  <1> QED
    BY <1>1, <1>2, PTL DEF Spec

\* What is read as a string was a string.
LEMMA StringWasString ==
    ASSUME NEW v \in Values[MaxNesting], Type(AsRead(v)) = "str"
    PROVE  \E s \in Seq(Nat) : v = Str(s) /\ AsRead(v) = v
  <1>1. PICK g : ReadsBack(g) /\ \A x : AsRead(x) = g[MaxNesting][x]
    BY ReadUnfold
  <1>2. MaxNesting \in 1..MaxNesting
    BY DocumentsAssumption, NestingAssumption
  <1>3. PICK V : V = Values[MaxNesting - 1]
    OBVIOUS
  <1>4. v \in Scalars \cup ({"obj"} \X Seq(Seq(Nat) \X V)) \cup ({"arr"} \X Seq(V))
    <2>1. Values[MaxNesting] = ValuesStep(Values[MaxNesting - 1])
      BY <1>2, ValuesUnfold
    <2> QED
      BY <1>3, <2>1 DEF ValuesStep
  <1>5. CASE v \in {"obj"} \X Seq(Seq(Nat) \X V)
    <2>1. PICK ms \in Seq(Seq(Nat) \X V) : v = Obj(ms)
      BY <1>5 DEF Obj
    <2>2. AsRead(v) = Obj(ReadMembers(ms))
      BY <1>2, <1>3, <2>1, ContainersRead
    <2> QED
      BY <2>2 DEF Obj, Type, IsUint64
  <1>6. CASE v \in {"arr"} \X Seq(V)
    <2>1. PICK vs \in Seq(V) : v = Arr(vs)
      BY <1>6 DEF Arr
    <2>2. AsRead(v) = Arr(ReadElements(vs))
      BY <1>2, <1>3, <2>1, ContainersRead
    <2> QED
      BY <2>2 DEF Arr, Type, IsUint64
  <1>7. CASE v \in Scalars
    <2>1. AsRead(v) = IF IsUint64(v) THEN NumberValue(v[2]) ELSE v
      BY <1>2, <1>7, ContainersRead
    <2>2. ~IsUint64(v)
      <3>1. ASSUME IsUint64(v)
            PROVE  FALSE
        BY <2>1, <3>1 DEF NumberValue, IntVal, UintVal, Type, IsUint64
      <3> QED
        BY <3>1
    <2>3. AsRead(v) = v /\ v[1] = "str"
      BY <2>1, <2>2 DEF Type
    <2>4. v \in {"str"} \X Seq(Nat)
      BY <1>7, <2>3 DEF Scalars, Null
    <2> QED
      BY <2>3, <2>4 DEF Str
  <1> QED
    BY <1>4, <1>5, <1>6, <1>7

LEMMA StringText ==
    ASSUME NEW s \in Seq(Nat), NEW o
    PROVE  WriteString(Str(s), o) = <<Quoted(AddEscChars(s, o))>> /\ AddEscChars(s, o) \in Seq(Nat)
  <1>1. AddEscChars(s, o) \in Seq(Nat)
    BY EscapedPieces DEF IsEscaped
  <1>2. PICK x : x = Str(s)
    OBVIOUS
  <1>3. x \in Values[MaxNesting] /\ x \in Values[0]
    <2>1. x \in Scalars
      BY <1>2, ScalarValues
    <2> QED
      BY <2>1, DocumentsAssumption, NestingAssumption, LevelUp
  <1>4. \A level, inner : Output(x, o, level, inner) = <<Quoted(AddEscChars(s, o))>>
    <2>1. x[1] = "str" /\ x[2] = s
      BY <1>2 DEF Str
    <2> QED
      BY <2>1 DEF Output
  <1>5. WriteString(x, o) = <<Quoted(AddEscChars(s, o))>>
    <2>1. PICK g : /\ \A z : WriteString(z, o) = g[MaxNesting][z]
                   /\ \A z \in Values[0] : g[0][z] = Output(z, o, MaxNesting, <<>>)
                   /\ \A n \in 1..MaxNesting : \A z \in Values[n] : g[n][z] = Output(z, o, MaxNesting - n, g[n - 1])
      BY WriteUnfold
    <2>2. MaxNesting \in 1..MaxNesting
      BY DocumentsAssumption, NestingAssumption
    <2>3. g[MaxNesting][x] = Output(x, o, MaxNesting - MaxNesting, g[MaxNesting - 1])
      BY <1>3, <2>1, <2>2
    <2> QED
      BY <1>4, <2>1, <2>3
  <1> QED
    BY <1>1, <1>2, <1>5

\* A string of ASCII characters is the same for json_spirit and for a reader
\* or a writer that follows the standard, whatever the string is.
THEOREM StandardReadersUnderstand == Spec => []StandardReadersAgree
  <1>1. StringInv /\ WrittenInv => StandardReadersAgree
    <2> SUFFICES ASSUME StringInv, WrittenInv, doc.kind \in {"value", "foreign"}, outcome = "done",
                        Type(value) = "str"
                 PROVE  LET s == StandardStr(text[1][2])
                        IN  /\ (doc.kind = "value" /\ ~opt.raw_utf8 /\ IsAscii(value[2])) => s = value[2]
                            /\ (doc.kind = "foreign" /\ IsAscii(s)) => value[2] = s
      BY DEF StandardReadersAgree
    <2>1. doc \in Documents /\ opt \in OptionsOf[doc.kind]
      BY DEF StringInv
    <2>2. ASSUME NEW s \in Seq(Nat), TextOf(doc, opt) = <<Quoted(s)>>
          PROVE  text[1][2] = s /\ value = Str(GetStr(s))
      <3>1. text = <<Quoted(s)>> /\ value = Str(GetStr(s))
        BY <2>2 DEF StringInv
      <3> QED
        BY <3>1 DEF Quoted
    <2>3. CASE doc.kind = "foreign"
      <3>1. PICK s \in Seq(Nat) : TextOf(doc, opt) = <<Quoted(s)>>
        <4>1. doc.text[1][2] \in Seq(Nat) /\ doc.text = <<Quoted(doc.text[1][2])>>
          BY <2>1, <2>3, DocumentsAssumption
        <4> QED
          BY <2>3, <4>1 DEF TextOf
      <3>2. text[1][2] = s /\ value[2] = GetStr(s)
        BY <2>2, <3>1 DEF Str
      <3> QED
        BY <2>3, <3>2, StandardIsRead
    <2>4. CASE doc.kind = "value"
      <3>1. /\ value = AsRead(doc.value) /\ doc.value \in Values[MaxNesting]
            /\ TextOf(doc, opt) = WriteString(doc.value, opt)
        <4>1. Valued(doc) = doc.value /\ Own(doc)
          BY <2>4 DEF Valued, Own
        <4>2. doc.value \in Values[MaxNesting]
          BY <2>1, <2>4, DocumentsAssumption
        <4>3. value = AsRead(Valued(doc))
          BY <4>1 DEF WrittenInv
        <4> QED
          BY <2>4, <4>1, <4>2, <4>3 DEF TextOf
      <3>2. PICK v \in Seq(Nat) : doc.value = Str(v) /\ value = Str(v)
        BY <3>1, StringWasString
      <3>3. PICK s \in Seq(Nat) : s = AddEscChars(v, opt) /\ TextOf(doc, opt) = <<Quoted(s)>>
        BY <3>1, <3>2, StringText
      <3>4. text[1][2] = s /\ value[2] = v
        BY <2>2, <3>2, <3>3 DEF Str
      <3>5. \A c \in opt.printable : c >= 32
        BY <2>1, OptionsAssumption
      <3> QED
        BY <2>4, <3>3, <3>4, <3>5, StringIsStandard
    <2> QED
      BY <2>3, <2>4
  <1> QED
    BY <1>1, StringInvariant, WrittenInvariant, PTL

-----------------------------------------------------------------------------
\* Finding members by name.
Found(ms, w, d) == LastNamed(Obj(ms), w, d)
IsSeq(ms)       == \E S : ms \in Seq(S)
Places(ms, w)   == {i \in DOMAIN ms : ms[i][1] = N(w)}

LEMMA IsSeqUses ==
    ASSUME NEW ms, IsSeq(ms)
    PROVE  \E l \in Nat : l = Len(ms) /\ DOMAIN ms = 1..l
  BY DEF IsSeq

LEMMA MaxIs ==
    ASSUME NEW S \in SUBSET Int, NEW x \in S, \A y \in S : y <= x
    PROVE  Max(S) = x
  <1>1. \A y \in S : x >= y
    OBVIOUS
  <1>2. Max(S) \in S /\ \A y \in S : Max(S) >= y
    BY <1>1 DEF Max
  <1>3. PICK m \in S : m = Max(S)
    BY <1>2
  <1>4. m \in Int /\ x \in Int /\ m <= x /\ m >= x
    BY <1>2, <1>3
  <1>5. m = x
    BY ONLY <1>4
  <1> QED
    BY <1>3, <1>5

LEMMA GreatestElement ==
    ASSUME NEW l \in Nat, NEW S \in SUBSET (1..l), S # {}
    PROVE  \E x \in S : \A y \in S : y <= x
  <1> DEFINE T == {l - y : y \in S}
  <1>1. T \in SUBSET Nat /\ T # {}
    <2>1. \A y \in S : l - y \in Nat
      OBVIOUS
    <2>2. \E y \in S : l - y \in T
      OBVIOUS
    <2> QED
      BY <2>1, <2>2
  <1>2. PICK t \in T : \A u \in T : t <= u
    BY <1>1, LeastElement
  <1>3. PICK x \in S : t = l - x
    OBVIOUS
  <1>4. ASSUME NEW y \in S
        PROVE  y <= x
    <2>1. l - y \in T
      OBVIOUS
    <2> QED
      BY <1>2, <1>3, <2>1
  <1> QED
    BY <1>4

LEMMA FoundIs ==
    ASSUME NEW ms, NEW w, NEW d
    PROVE  Found(ms, w, d) = IF Places(ms, w) = {} THEN d ELSE ms[Max(Places(ms, w))][2]
  <1>1. PICK v : v = Obj(ms)
    OBVIOUS
  <1>2. v[2] = ms
    BY <1>1 DEF Obj
  <1>3. Named(v, w) = Places(ms, w)
    BY <1>2 DEF Named, Places
  <1> QED
    BY <1>1, <1>2, <1>3 DEF Found, LastNamed

LEMMA FoundNone == \A w, d : Found(<<>>, w, d) = d
  <1>1. \A w : Places(<<>>, w) = {}
    BY DEF Places
  <1> QED
    BY <1>1, FoundIs

LEMMA FoundAt ==
    ASSUME NEW ms, NEW w, NEW d, NEW i \in DOMAIN ms, IsSeq(ms), ms[i][1] = N(w),
           \A j \in DOMAIN ms : j > i => ms[j][1] # N(w)
    PROVE  Found(ms, w, d) = ms[i][2]
  <1>1. PICK l \in Nat : DOMAIN ms = 1..l
    BY IsSeqUses
  <1>2. i \in Places(ms, w) /\ \A j \in Places(ms, w) : j <= i
    BY <1>1 DEF Places
  <1>3. Places(ms, w) \in SUBSET Int
    BY <1>1 DEF Places
  <1>4. Max(Places(ms, w)) = i
    BY <1>2, <1>3, MaxIs
  <1> QED
    BY <1>2, <1>4, FoundIs

\* In two sequences of members, the second is looked into first.
LEMMA FoundInCat ==
    ASSUME NEW ms, NEW ns, IsSeq(ms), IsSeq(ns)
    PROVE  IsSeq(Cat(ms, ns)) /\ \A w, d : Found(Cat(ms, ns), w, d) = Found(ns, w, Found(ms, w, d))
  <1>1. PICK A : ms \in Seq(A)
    BY DEF IsSeq
  <1>2. PICK B : ns \in Seq(B)
    BY DEF IsSeq
  <1>3. PICK S : S = A \cup B
    OBVIOUS
  <1>4. ms \in Seq(S) /\ ns \in Seq(S)
    BY <1>1, <1>2, <1>3
  <1>5. PICK a \in Nat, b \in Nat : /\ a = Len(ms) /\ DOMAIN ms = 1..a
                                   /\ b = Len(ns) /\ DOMAIN ns = 1..b
    BY <1>4
  <1>6. PICK c : c = Cat(ms, ns)
    OBVIOUS
  <1>7. c \in Seq(S)
    BY <1>4, <1>6, CatType
  <1>8. DOMAIN c = 1..(a + b) /\ \A i \in 1..(a + b) : c[i] = IF i <= a THEN ms[i] ELSE ns[i - a]
    BY <1>4, <1>5, <1>6 DEF Cat
  <1>9. IsSeq(c)
    BY <1>7 DEF IsSeq
  <1>10. ASSUME NEW w, NEW d
         PROVE  Found(c, w, d) = Found(ns, w, Found(ms, w, d))
    <2>1. \A i \in 1..a : c[i] = ms[i] /\ i \in 1..(a + b)
      BY <1>8
    <2>2. \A i \in 1..b : c[i + a] = ns[i] /\ i + a \in 1..(a + b)
      <3> TAKE i \in 1..b
      <3>1. i + a \in 1..(a + b) /\ ~(i + a <= a) /\ (i + a) - a = i
        OBVIOUS
      <3> QED
        BY <1>8, <3>1
    <2>3. CASE Places(ns, w) # {}
      <3>1. PICK i \in Places(ns, w) : \A j \in Places(ns, w) : j <= i
        <4>1. Places(ns, w) \in SUBSET (1..b)
          BY <1>5 DEF Places
        <4> QED
          BY <2>3, <4>1, GreatestElement
      <3>2. i \in 1..b /\ ns[i][1] = N(w) /\ \A j \in 1..b : j > i => ns[j][1] # N(w)
        BY <1>5, <3>1 DEF Places
      <3>3. Found(ns, w, Found(ms, w, d)) = ns[i][2]
        BY <1>5, <3>2, FoundAt
      <3>4. i + a \in DOMAIN c /\ c[i + a] = ns[i]
        BY <1>8, <2>2, <3>2
      <3>5. ASSUME NEW j \in DOMAIN c, j > i + a
            PROVE  c[j][1] # N(w)
        <4>1. j - a \in 1..b /\ j - a > i /\ ~(j <= a)
          BY <1>8, <3>2, <3>5
        <4>2. c[j] = ns[j - a]
          BY <1>8, <4>1
        <4> QED
          BY <3>2, <4>1, <4>2
      <3>6. Found(c, w, d) = c[i + a][2]
        BY <1>9, <3>2, <3>4, <3>5, FoundAt
      <3> QED
        BY <3>3, <3>4, <3>6
    <2>4. CASE Places(ns, w) = {}
      <3>1. Found(ns, w, Found(ms, w, d)) = Found(ms, w, d)
        BY <2>4, FoundIs
      <3>2. Places(c, w) = Places(ms, w)
        <4>1. ASSUME NEW i \in Places(c, w)
              PROVE  i \in Places(ms, w)
          <5>1. i \in 1..(a + b) /\ c[i][1] = N(w)
            BY <1>8 DEF Places
          <5>2. CASE i <= a
            BY <1>5, <1>8, <5>1, <5>2 DEF Places
          <5>3. CASE i > a
            <6>1. i - a \in 1..b /\ c[i] = ns[i - a]
              BY <1>8, <5>1, <5>3
            <6>2. i - a \in Places(ns, w)
              BY <1>5, <5>1, <6>1 DEF Places
            <6> QED
              BY <2>4, <6>2
          <5> QED
            BY <5>1, <5>2, <5>3
        <4>2. ASSUME NEW i \in Places(ms, w)
              PROVE  i \in Places(c, w)
          <5>1. i \in 1..a /\ ms[i][1] = N(w)
            BY <1>5 DEF Places
          <5> QED
            BY <1>8, <2>1, <5>1 DEF Places
        <4> QED
          BY <4>1, <4>2
      <3>3. CASE Places(ms, w) = {}
        BY <3>1, <3>2, <3>3, FoundIs
      <3>4. CASE Places(ms, w) # {}
        <4>1. PICK i \in Places(ms, w) : \A j \in Places(ms, w) : j <= i
          <5>1. Places(ms, w) \in SUBSET (1..a)
            BY <1>5 DEF Places
          <5> QED
            BY <3>4, <5>1, GreatestElement
        <4>2. Places(ms, w) \in SUBSET Int /\ i \in 1..a
          BY <1>5 DEF Places
        <4>3. Max(Places(ms, w)) = i
          BY <4>1, <4>2, MaxIs
        <4> QED
          BY <2>1, <3>1, <3>2, <3>4, <4>2, <4>3, FoundIs
      <3> QED
        BY <3>3, <3>4
    <2> QED
      BY <2>3, <2>4
  <1> QED
    BY <1>6, <1>9, <1>10

\* In a member.
LEMMA FoundInMember ==
    ASSUME NEW c, NEW w \in ToSet(Words), NEW v
    PROVE  /\ IsSeq(Member(c, w, v))
           /\ \A x \in ToSet(Words) : \A d : Found(Member(c, w, v), x, d) = IF c /\ x = w THEN v ELSE d
  <1>1. CASE ~c
    <2>1. Member(c, w, v) = <<>>
      BY <1>1 DEF Member
    <2>2. IsSeq(<<>>)
      <3>1. <<>> \in Seq({})
        OBVIOUS
      <3> QED
        BY <3>1 DEF IsSeq
    <2> QED
      BY <1>1, <2>1, <2>2, FoundNone
  <1>2. CASE c
    <2>1. PICK e : e = <<N(w), v>>
      OBVIOUS
    <2>2. Member(c, w, v) = <<e>>
      BY <1>2, <2>1 DEF Member
    <2>3. IsSeq(<<e>>)
      <3>1. <<e>> \in Seq({e})
        OBVIOUS
      <3> QED
        BY <3>1 DEF IsSeq
    <2>4. ASSUME NEW x \in ToSet(Words), NEW d
          PROVE  Found(<<e>>, x, d) = IF x = w THEN v ELSE d
      <3>1. CASE x = w
        <4>1. 1 \in DOMAIN <<e>> /\ <<e>>[1] = e /\ \A j \in DOMAIN <<e>> : ~(j > 1)
          OBVIOUS
        <4>2. e[1] = N(x) /\ e[2] = v
          BY <2>1, <3>1
        <4>3. Found(<<e>>, x, d) = <<e>>[1][2]
          BY <2>3, <4>1, <4>2, FoundAt
        <4> QED
          BY <3>1, <4>1, <4>2, <4>3
      <3>2. CASE x # w
        <4>1. N(x) # N(w)
          BY <3>2, WordOf
        <4>2. Places(<<e>>, x) = {}
          BY <2>1, <4>1 DEF Places
        <4> QED
          BY <3>2, <4>2, FoundIs
      <3> QED
        BY <3>1, <3>2
    <2> QED
      BY <1>2, <2>2, <2>3, <2>4
  <1> QED
    BY <1>1, <1>2

LEMMA FoundInText ==
    ASSUME NEW w \in ToSet(Words), NEW s
    PROVE  /\ IsSeq(Text(w, s))
           /\ \A x \in ToSet(Words) : \A d : Found(Text(w, s), x, d) = IF s # <<>> /\ x = w THEN Str(s) ELSE d
  <1>1. PICK c, v : c = (s # <<>>) /\ v = Str(s)
    OBVIOUS
  <1>2. Text(w, s) = Member(c, w, v)
    BY <1>1 DEF Text
  <1>3. /\ IsSeq(Member(c, w, v))
        /\ \A x \in ToSet(Words) : \A d : Found(Member(c, w, v), x, d) = IF c /\ x = w THEN v ELSE d
    BY FoundInMember
  <1> QED
    BY <1>1, <1>2, <1>3

LEMMA FoundInStrings ==
    ASSUME NEW w \in ToSet(Words), NEW ss, NEW v, v = Arr([i \in DOMAIN ss |-> Str(ss[i])])
    PROVE  /\ IsSeq(Strings(w, ss))
           /\ \A x \in ToSet(Words) : \A d : Found(Strings(w, ss), x, d) = IF ss # <<>> /\ x = w THEN v ELSE d
  <1>1. PICK c : c = (ss # <<>>)
    OBVIOUS
  <1>2. Strings(w, ss) = Member(c, w, v)
    BY <1>1 DEF Strings
  <1>3. /\ IsSeq(Member(c, w, v))
        /\ \A x \in ToSet(Words) : \A d : Found(Member(c, w, v), x, d) = IF c /\ x = w THEN v ELSE d
    BY FoundInMember
  <1> QED
    BY <1>1, <1>2, <1>3

-----------------------------------------------------------------------------
\* What a gateway finds in a message.
LEMMA FoundInSix ==
    ASSUME NEW p1, NEW p2, NEW p3, NEW p4, NEW p5, NEW p6,
           IsSeq(p1), IsSeq(p2), IsSeq(p3), IsSeq(p4), IsSeq(p5), IsSeq(p6), NEW w, NEW d
    PROVE  Found(Cat(Cat(Cat(Cat(Cat(p1, p2), p3), p4), p5), p6), w, d)
             = Found(p6, w, Found(p5, w, Found(p4, w, Found(p3, w, Found(p2, w, Found(p1, w, d))))))
  <1>1. IsSeq(Cat(p1, p2)) /\ IsSeq(Cat(Cat(p1, p2), p3)) /\ IsSeq(Cat(Cat(Cat(p1, p2), p3), p4))
          /\ IsSeq(Cat(Cat(Cat(Cat(p1, p2), p3), p4), p5))
    BY FoundInCat
  <1> QED
    BY <1>1, FoundInCat

\* The strings in an array of them.
StringsIn(a) == [i \in DOMAIN a[2] |-> a[2][i][2]]

LEMMA StringsAreIn ==
    ASSUME NEW ss \in Seq(Seq(Nat))
    PROVE  StringsIn(Arr([i \in DOMAIN ss |-> Str(ss[i])])) = ss
  <1>1. PICK R : R = Seq(Nat)
    OBVIOUS
  <1>2. ss \in Seq(R)
    BY <1>1, Zenon
  <1>3. ss = [i \in DOMAIN ss |-> ss[i]]
    BY <1>2
  <1>4. PICK t : t = [i \in DOMAIN ss |-> Str(ss[i])]
    OBVIOUS
  <1>5. DOMAIN t = DOMAIN ss /\ \A i \in DOMAIN ss : t[i][2] = ss[i]
    BY <1>4 DEF Str
  <1>6. StringsIn(Arr(t)) = [i \in DOMAIN t |-> t[i][2]]
    BY DEF StringsIn, Arr
  <1> QED
    BY <1>3, <1>4, <1>5, <1>6

LEMMA NoStringsAreIn == StringsIn(Arr(<<>>)) = <<>>
  <1>1. DOMAIN Arr(<<>>)[2] = {}
    BY DEF Arr
  <1> QED
    BY <1>1 DEF StringsIn

\* A part that is left out under a condition.
LEMMA FoundInPart ==
    ASSUME NEW left, NEW p, IsSeq(p)
    PROVE  /\ IsSeq(IF left THEN <<>> ELSE p)
           /\ \A w, d : Found(IF left THEN <<>> ELSE p, w, d) = IF left THEN d ELSE Found(p, w, d)
  <1>1. IsSeq(<<>>)
    <2>1. <<>> \in Seq({})
      OBVIOUS
    <2> QED
      BY <2>1 DEF IsSeq
  <1>2. CASE left
    BY <1>1, <1>2, FoundNone
  <1>3. CASE ~left
    BY <1>3
  <1> QED
    BY <1>2, <1>3

AlertWords == {"title", "body", "title-loc-key", "title-loc-args", "loc-key", "loc-args"}

LEMMA AlertFound ==
    ASSUME NEW m \in ApnsMessage, NEW parts, parts = AlertToJson(m)
    PROVE  /\ Type(parts) = "obj"
           /\ StrOf(parts, "title") = m.title /\ StrOf(parts, "body") = m.body
           /\ StrOf(parts, "title-loc-key") = m.title_loc_key /\ StrOf(parts, "loc-key") = m.loc_key
           /\ StrsOf(parts, "title-loc-args") = IF m.title_loc_key = <<>> THEN <<>> ELSE m.title_loc_args
           /\ StrsOf(parts, "loc-args") = IF m.loc_key = <<>> THEN <<>> ELSE m.loc_args
  <1>1. AlertWords \subseteq ToSet(Words)
    BY WordsAre DEF AlertWords
  <1>2. PICK targs, largs : /\ targs = Arr([i \in DOMAIN m.title_loc_args |-> Str(m.title_loc_args[i])])
                            /\ largs = Arr([i \in DOMAIN m.loc_args |-> Str(m.loc_args[i])])
    OBVIOUS
  <1>3. PICK p1, p2, p3, p4, p5, p6 :
          /\ p1 = Text("title", m.title) /\ p2 = Text("body", m.body)
          /\ p3 = Text("title-loc-key", m.title_loc_key)
          /\ p4 = IF m.title_loc_key = <<>> THEN <<>> ELSE Strings("title-loc-args", m.title_loc_args)
          /\ p5 = Text("loc-key", m.loc_key)
          /\ p6 = IF m.loc_key = <<>> THEN <<>> ELSE Strings("loc-args", m.loc_args)
    OBVIOUS
  <1>4. ASSUME NEW x \in AlertWords, NEW d
        PROVE  /\ Found(p1, x, d) = IF m.title # <<>> /\ x = "title" THEN Str(m.title) ELSE d
               /\ Found(p2, x, d) = IF m.body # <<>> /\ x = "body" THEN Str(m.body) ELSE d
               /\ Found(p3, x, d) = IF m.title_loc_key # <<>> /\ x = "title-loc-key" THEN Str(m.title_loc_key) ELSE d
               /\ Found(p5, x, d) = IF m.loc_key # <<>> /\ x = "loc-key" THEN Str(m.loc_key) ELSE d
    BY <1>1, <1>3, FoundInText DEF AlertWords
  <1>5. IsSeq(p1) /\ IsSeq(p2) /\ IsSeq(p3) /\ IsSeq(p5)
    BY <1>1, <1>3, FoundInText DEF AlertWords
  <1>6. PICK s4, s6 : s4 = Strings("title-loc-args", m.title_loc_args) /\ s6 = Strings("loc-args", m.loc_args)
    OBVIOUS
  <1>7. /\ IsSeq(s4) /\ IsSeq(s6)
        /\ \A x \in AlertWords : \A d :
             /\ Found(s4, x, d) = IF m.title_loc_args # <<>> /\ x = "title-loc-args" THEN targs ELSE d
             /\ Found(s6, x, d) = IF m.loc_args # <<>> /\ x = "loc-args" THEN largs ELSE d
    <2>1. "title-loc-args" \in ToSet(Words) /\ "loc-args" \in ToSet(Words)
      BY <1>1 DEF AlertWords
    <2>2. /\ IsSeq(s4)
          /\ \A x \in ToSet(Words) : \A d :
               Found(s4, x, d) = IF m.title_loc_args # <<>> /\ x = "title-loc-args" THEN targs ELSE d
      BY <1>2, <1>6, <2>1, FoundInStrings
    <2>3. /\ IsSeq(s6)
          /\ \A x \in ToSet(Words) : \A d :
               Found(s6, x, d) = IF m.loc_args # <<>> /\ x = "loc-args" THEN largs ELSE d
      BY <1>2, <1>6, <2>1, FoundInStrings
    <2> QED
      BY <1>1, <2>2, <2>3
  <1>8. /\ IsSeq(p4) /\ IsSeq(p6)
        /\ \A x \in AlertWords : \A d :
             /\ Found(p4, x, d) = IF m.title_loc_key = <<>> THEN d ELSE Found(s4, x, d)
             /\ Found(p6, x, d) = IF m.loc_key = <<>> THEN d ELSE Found(s6, x, d)
    BY <1>3, <1>6, <1>7, FoundInPart
  <1>9. PICK ms : ms = Cat(Cat(Cat(Cat(Cat(p1, p2), p3), p4), p5), p6)
    OBVIOUS
  <1>10. parts = Obj(ms)
    BY <1>3, <1>9, Zenon DEF AlertToJson, Cat
  <1>11. \A w, d : LastNamed(parts, w, d) = Found(ms, w, d)
    BY <1>10 DEF Found
  <1>12. \A w, d : Found(ms, w, d)
            = Found(p6, w, Found(p5, w, Found(p4, w, Found(p3, w, Found(p2, w, Found(p1, w, d))))))
    BY <1>5, <1>8, <1>9, FoundInSix
  <1>13. /\ LastNamed(parts, "title", Str(<<>>)) = Str(m.title)
         /\ LastNamed(parts, "body", Str(<<>>)) = Str(m.body)
         /\ LastNamed(parts, "title-loc-key", Str(<<>>)) = Str(m.title_loc_key)
         /\ LastNamed(parts, "loc-key", Str(<<>>)) = Str(m.loc_key)
    BY <1>4, <1>7, <1>8, <1>11, <1>12 DEF AlertWords
  <1>14. /\ LastNamed(parts, "title-loc-args", Arr(<<>>)) =
              IF m.title_loc_key # <<>> /\ m.title_loc_args # <<>> THEN targs ELSE Arr(<<>>)
         /\ LastNamed(parts, "loc-args", Arr(<<>>)) =
              IF m.loc_key # <<>> /\ m.loc_args # <<>> THEN largs ELSE Arr(<<>>)
    BY <1>4, <1>7, <1>8, <1>11, <1>12 DEF AlertWords
  <1>15. \A s : Str(s)[2] = s
    BY DEF Str
  <1>16. StringsIn(targs) = m.title_loc_args /\ StringsIn(largs) = m.loc_args /\ StringsIn(Arr(<<>>)) = <<>>
    BY <1>2, StringsAreIn, NoStringsAreIn DEF ApnsMessage
  <1>17. Type(parts) = "obj"
    BY <1>10 DEF Obj, Type, IsUint64
  <1>18. /\ StrOf(parts, "title") = m.title /\ StrOf(parts, "body") = m.body
         /\ StrOf(parts, "title-loc-key") = m.title_loc_key /\ StrOf(parts, "loc-key") = m.loc_key
    BY <1>13, <1>15, Zenon DEF StrOf
  <1>19. /\ StrsOf(parts, "title-loc-args") = IF m.title_loc_key = <<>> THEN <<>> ELSE m.title_loc_args
         /\ StrsOf(parts, "loc-args") = IF m.loc_key = <<>> THEN <<>> ELSE m.loc_args
    <2>1. \A w : StrsOf(parts, w) = StringsIn(LastNamed(parts, w, Arr(<<>>)))
      BY DEF StrsOf, StringsIn
    <2> QED
      BY <1>14, <1>16, <2>1
  <1> QED
    BY <1>17, <1>18, <1>19

ApsWords == {"alert", "badge", "sound", "action-loc-key", "launch_image"}

LEMMA ApsFound ==
    ASSUME NEW m \in ApnsMessage, NEW aps, aps = ApsObject(m)
    PROVE  /\ Type(aps) = "obj"
           /\ LastNamed(aps, "alert", Str(<<>>)) = IF HasAlertObject(m) THEN AlertToJson(m) ELSE Str(m.alert)
           /\ NumOf(aps, "badge", BadgeMax) = m.badge /\ StrOf(aps, "sound") = m.sound
           /\ StrOf(aps, "action-loc-key") = m.action_loc_key /\ StrOf(aps, "launch_image") = m.launch_image
  <1>1. ApsWords \subseteq ToSet(Words)
    BY WordsAre DEF ApsWords
  <1>2. PICK has : has = HasAlertObject(m)
    OBVIOUS
  <1>3. PICK set : set = (m.badge # BadgeMax)
    OBVIOUS
  <1>4. PICK alert, number, t2 : alert = AlertToJson(m) /\ number = IntVal(m.badge) /\ t2 = Text("alert", m.alert)
    OBVIOUS
  <1>5. PICK p1, p2, p3, p4, p5, p6 :
          /\ p1 = Member(has, "alert", alert) /\ p2 = IF has THEN <<>> ELSE t2
          /\ p3 = Member(set, "badge", number) /\ p4 = Text("sound", m.sound)
          /\ p5 = Text("action-loc-key", m.action_loc_key) /\ p6 = Text("launch_image", m.launch_image)
    OBVIOUS
  <1>6. /\ IsSeq(p4) /\ IsSeq(p5) /\ IsSeq(p6) /\ IsSeq(t2)
        /\ \A x \in ApsWords : \A d :
             /\ Found(t2, x, d) = IF m.alert # <<>> /\ x = "alert" THEN Str(m.alert) ELSE d
             /\ Found(p4, x, d) = IF m.sound # <<>> /\ x = "sound" THEN Str(m.sound) ELSE d
             /\ Found(p5, x, d) = IF m.action_loc_key # <<>> /\ x = "action-loc-key" THEN Str(m.action_loc_key) ELSE d
             /\ Found(p6, x, d) = IF m.launch_image # <<>> /\ x = "launch_image" THEN Str(m.launch_image) ELSE d
    BY <1>1, <1>4, <1>5, FoundInText DEF ApsWords
  <1>7. "alert" \in ToSet(Words) /\ "badge" \in ToSet(Words)
    BY <1>1 DEF ApsWords
  <1>8. /\ IsSeq(p1)
        /\ \A x \in ToSet(Words) : \A d : Found(p1, x, d) = IF has /\ x = "alert" THEN alert ELSE d
    BY <1>5, <1>7, FoundInMember
  <1>9. /\ IsSeq(p3)
        /\ \A x \in ToSet(Words) : \A d : Found(p3, x, d) = IF set /\ x = "badge" THEN number ELSE d
    BY <1>5, <1>7, FoundInMember
  <1>10. /\ IsSeq(p2)
         /\ \A w, d : Found(p2, w, d) = IF has THEN d ELSE Found(t2, w, d)
    BY <1>5, <1>6, FoundInPart
  <1>11. PICK ms : ms = Cat(Cat(Cat(Cat(Cat(p1, p2), p3), p4), p5), p6)
    OBVIOUS
  <1>12. aps = Obj(ms)
    BY <1>2, <1>3, <1>4, <1>5, <1>11, Zenon DEF ApsObject, Cat
  <1>13. \A w, d : LastNamed(aps, w, d) = Found(ms, w, d)
    BY <1>12 DEF Found
  <1>14. \A w, d : Found(ms, w, d)
            = Found(p6, w, Found(p5, w, Found(p4, w, Found(p3, w, Found(p2, w, Found(p1, w, d))))))
    BY <1>6, <1>8, <1>9, <1>10, <1>11, FoundInSix
  <1>15. \A x \in ApsWords : \A d :
           /\ Found(p1, x, d) = IF has /\ x = "alert" THEN alert ELSE d
           /\ Found(p3, x, d) = IF set /\ x = "badge" THEN number ELSE d
    BY <1>1, <1>8, <1>9
  <1>16. LastNamed(aps, "alert", Str(<<>>)) = IF has THEN alert ELSE Str(m.alert)
    BY <1>6, <1>10, <1>13, <1>14, <1>15 DEF ApsWords
  <1>17. /\ LastNamed(aps, "sound", Str(<<>>)) = Str(m.sound)
         /\ LastNamed(aps, "action-loc-key", Str(<<>>)) = Str(m.action_loc_key)
         /\ LastNamed(aps, "launch_image", Str(<<>>)) = Str(m.launch_image)
    BY <1>6, <1>10, <1>13, <1>14, <1>15 DEF ApsWords
  <1>18. LastNamed(aps, "badge", IntVal(BadgeMax)) = IF set THEN number ELSE IntVal(BadgeMax)
    BY <1>6, <1>10, <1>13, <1>14, <1>15 DEF ApsWords
  <1>19. NumOf(aps, "badge", BadgeMax) = m.badge
    <2>1. IntVal(BadgeMax)[2] = BadgeMax /\ number[2] = m.badge
      BY <1>4 DEF IntVal
    <2> QED
      BY <1>3, <1>18, <2>1 DEF NumOf
  <1>20. Type(aps) = "obj"
    BY <1>12 DEF Obj, Type, IsUint64
  <1>21. /\ StrOf(aps, "sound") = m.sound
         /\ StrOf(aps, "action-loc-key") = m.action_loc_key /\ StrOf(aps, "launch_image") = m.launch_image
    <2>1. \A s : Str(s)[2] = s
      BY DEF Str
    <2> QED
      BY <1>17, <2>1, Zenon DEF StrOf
  <1> QED
    BY <1>2, <1>4, <1>16, <1>19, <1>20, <1>21

\* The members of the client, and the last one, which is the object "aps".
LEMMA CustomFound ==
    ASSUME NEW custom \in Custom, NEW x, NEW v, v = Obj(Append(CustomMembers(custom), <<N("aps"), x>>))
    PROVE  /\ LastNamed(v, "aps", Null) = x
           /\ Pairings(v, DOMAIN v[2] \ Named(v, "aps")) = {p \in Range(custom) : p[1] # N("aps")}
  <1>1. PICK R : R = Seq(Nat)
    OBVIOUS
  <1>2. PICK l \in Nat : l = Len(custom) /\ DOMAIN custom = 1..l
    BY <1>1 DEF Custom
  <1>3. ASSUME NEW i \in 1..l
        PROVE  custom[i] = <<custom[i][1], custom[i][2]>>
    <2>1. custom \in Seq(R \X R)
      BY <1>1 DEF Custom
    <2>2. custom[i] \in R \X R
      BY <1>2, <2>1
    <2> QED
      BY <2>2
  <1>4. PICK cs : cs = CustomMembers(custom)
    OBVIOUS
  <1>5. cs = [i \in 1..l |-> <<custom[i][1], Str(custom[i][2])>>]
    BY <1>2, <1>4 DEF CustomMembers
  <1>6. PICK e : e = <<N("aps"), x>>
    OBVIOUS
  <1>7. PICK S : cs \in Seq(S) /\ e \in S
    <2> DEFINE S == {cs[i] : i \in 1..l} \cup {e}
    <2>1. cs = [i \in 1..l |-> cs[i]] /\ \A i \in 1..l : cs[i] \in S
      BY <1>5
    <2>2. l \in Nat /\ e \in S
      OBVIOUS
    <2> HIDE DEF S
    <2>3. cs \in Seq(S)
      BY ONLY <2>1, <2>2
    <2> QED
      BY <2>2, <2>3
  <1>8. PICK ms : ms = Append(cs, e)
    OBVIOUS
  <1>9. /\ ms \in Seq(S) /\ DOMAIN ms = 1..(l + 1) /\ ms[l + 1] = e
        /\ \A i \in 1..l : ms[i] = cs[i]
    <2>1. Len(cs) = l
      BY <1>5
    <2> QED
      BY ONLY <1>7, <1>8, <2>1
  <1>10. v = Obj(ms) /\ v[2] = ms
    BY <1>4, <1>6, <1>8 DEF Obj
  <1>11. LastNamed(v, "aps", Null) = x
    <2>1. l + 1 \in DOMAIN ms /\ ms[l + 1][1] = N("aps") /\ ms[l + 1][2] = x
            /\ \A j \in DOMAIN ms : ~(j > l + 1)
      BY <1>6, <1>9
    <2>2. IsSeq(ms)
      BY <1>9 DEF IsSeq
    <2>3. Found(ms, "aps", Null) = ms[l + 1][2]
      BY <2>1, <2>2, FoundAt
    <2> QED
      BY <1>10, <2>1, <2>3 DEF Found
  <1>12. DOMAIN v[2] \ Named(v, "aps") = {i \in 1..l : custom[i][1] # N("aps")}
    <2>1. Named(v, "aps") = {i \in 1..(l + 1) : ms[i][1] = N("aps")}
      BY <1>9, <1>10 DEF Named
    <2>2. \A i \in 1..l : ms[i][1] = custom[i][1]
      BY <1>5, <1>9
    <2>3. ms[l + 1][1] = N("aps")
      BY <1>6, <1>9
    <2>4. DOMAIN v[2] = 1..(l + 1)
      BY <1>9, <1>10
    <2>5. \A i : i \in 1..(l + 1) <=> i \in 1..l \/ i = l + 1
      OBVIOUS
    <2> QED
      BY <2>1, <2>2, <2>3, <2>4, <2>5
  <1>13. \A i \in 1..l : <<v[2][i][1], v[2][i][2][2]>> = custom[i]
    BY <1>3, <1>5, <1>9, <1>10 DEF Str
  <1>14. Pairings(v, DOMAIN v[2] \ Named(v, "aps"))
           = {custom[i] : i \in {j \in 1..l : custom[j][1] # N("aps")}}
    <2>1. PICK P : P = {i \in 1..l : custom[i][1] # N("aps")}
      OBVIOUS
    <2>2. \A i \in P : <<v[2][i][1], v[2][i][2][2]>> = custom[i]
      BY <1>13, <2>1
    <2>3. {<<v[2][i][1], v[2][i][2][2]>> : i \in P} = {custom[i] : i \in P}
      BY <2>2
    <2> QED
      BY <1>12, <2>1, <2>3 DEF Pairings
  <1>15. {custom[i] : i \in {j \in 1..l : custom[j][1] # N("aps")}} = {p \in Range(custom) : p[1] # N("aps")}
    BY <1>2 DEF Range
  <1> QED
    BY <1>11, <1>14, <1>15

LEMMA NoAlertObject ==
    ASSUME NEW m \in ApnsMessage
    PROVE  /\ HasAlertObject(m) \in BOOLEAN
           /\ HasAlertObject(m) <=> m.title \o m.body \o m.loc_key \o m.title_loc_key # <<>>
           /\ ~HasAlertObject(m) => /\ m.title = <<>> /\ m.body = <<>> /\ m.loc_key = <<>>
                                    /\ m.title_loc_key = <<>>
  <1>1. \A s, t \in Seq(Nat) : s \o t \in Seq(Nat) /\ (s \o t = <<>> <=> s = <<>> /\ t = <<>>)
    OBVIOUS
  <1>2. m.title \in Seq(Nat) /\ m.body \in Seq(Nat) /\ m.loc_key \in Seq(Nat) /\ m.title_loc_key \in Seq(Nat)
    BY DEF ApnsMessage
  <1>3. m.title \o m.body \o m.loc_key \o m.title_loc_key = <<>>
          <=> m.title = <<>> /\ m.body = <<>> /\ m.loc_key = <<>> /\ m.title_loc_key = <<>>
    BY <1>1, <1>2
  <1> QED
    BY <1>3 DEF HasAlertObject

\* The value a document was read as.
LEMMA MeantIsRead ==
    ASSUME StringInv, WrittenInv, doc.kind \in {"apns", "gcm", "answer"}, outcome = "done"
    PROVE  doc \in Documents /\ value = Meant(doc)
  <1>1. doc \in Documents
    BY DEF StringInv
  <1>2. value = AsRead(Valued(doc))
    BY DEF WrittenInv, Own
  <1> QED
    BY <1>1, <1>2, DocumentsFit

\* A gateway finds in a text the message of the client, whatever its strings,
\* its badge and its custom members are.
THEOREM ApnsMessageFound == Spec => []ApnsMessageArrives
  <1>1. ASSUME NEW m \in ApnsMessage, NEW v, v = ApnsToJson(m)
        PROVE  ApnsReceived(v) =
                 [m EXCEPT
                    !.alert = IF m.title \o m.body \o m.loc_key \o m.title_loc_key = <<>> THEN @ ELSE <<>>,
                    !.title_loc_args = IF m.title_loc_key = <<>> THEN <<>> ELSE @,
                    !.loc_args = IF m.loc_key = <<>> THEN <<>> ELSE @,
                    !.custom = {p \in Range(@) : p[1] # N("aps")}]
    <2>1. PICK aps : aps = ApsObject(m)
      OBVIOUS
    <2>2. m.custom \in Custom
      BY DEF ApnsMessage
    <2>3. PICK custom : custom = {p \in Range(m.custom) : p[1] # N("aps")}
      OBVIOUS
    <2>4. /\ LastNamed(v, "aps", Null) = aps
          /\ Pairings(v, DOMAIN v[2] \ Named(v, "aps")) = custom
      BY <1>1, <2>1, <2>2, <2>3, CustomFound DEF ApnsToJson
    <2>5. /\ Type(aps) = "obj"
          /\ LastNamed(aps, "alert", Str(<<>>)) = IF HasAlertObject(m) THEN AlertToJson(m) ELSE Str(m.alert)
          /\ NumOf(aps, "badge", BadgeMax) = m.badge /\ StrOf(aps, "sound") = m.sound
          /\ StrOf(aps, "action-loc-key") = m.action_loc_key /\ StrOf(aps, "launch_image") = m.launch_image
      BY <2>1, ApsFound
    <2>6. PICK alert : alert = LastNamed(aps, "alert", Str(<<>>))
      OBVIOUS
    <2>7. PICK parts : parts = IF Type(alert) = "obj" THEN alert ELSE Obj(<<>>)
      OBVIOUS
    <2>8. PICK said : said = IF Type(alert) = "str" THEN alert[2] ELSE <<>>
      OBVIOUS
    <2>9. ApnsReceived(v) =
            [alert |-> said,
             title |-> StrOf(parts, "title"), body |-> StrOf(parts, "body"),
             title_loc_key |-> StrOf(parts, "title-loc-key"),
             title_loc_args |-> StrsOf(parts, "title-loc-args"),
             loc_key |-> StrOf(parts, "loc-key"), loc_args |-> StrsOf(parts, "loc-args"),
             badge |-> m.badge, sound |-> m.sound, action_loc_key |-> m.action_loc_key,
             launch_image |-> m.launch_image, custom |-> custom]
      BY <2>4, <2>5, <2>6, <2>7, <2>8, Zenon DEF ApnsReceived
    <2>10. /\ StrOf(parts, "title") = m.title /\ StrOf(parts, "body") = m.body
           /\ StrOf(parts, "title-loc-key") = m.title_loc_key /\ StrOf(parts, "loc-key") = m.loc_key
           /\ StrsOf(parts, "title-loc-args") = IF m.title_loc_key = <<>> THEN <<>> ELSE m.title_loc_args
           /\ StrsOf(parts, "loc-args") = IF m.loc_key = <<>> THEN <<>> ELSE m.loc_args
           /\ said = IF HasAlertObject(m) THEN <<>> ELSE m.alert
      <3>1. CASE HasAlertObject(m)
        <4>1. alert = AlertToJson(m)
          BY <2>5, <2>6, <3>1
        <4>2. Type(alert) = "obj"
          BY <4>1, AlertFound
        <4>3. parts = AlertToJson(m) /\ said = <<>>
          BY <2>7, <2>8, <4>1, <4>2
        <4> QED
          BY <3>1, <4>3, AlertFound
      <3>2. CASE ~HasAlertObject(m)
        <4>1. alert = Str(m.alert)
          BY <2>5, <2>6, <3>2
        <4>2. Type(alert) = "str" /\ alert[2] = m.alert
          BY <4>1 DEF Str, Type, IsUint64
        <4>3. parts = Obj(<<>>) /\ said = m.alert
          BY <2>7, <2>8, <4>2
        <4>4. \A w, d : LastNamed(parts, w, d) = d
          BY <4>3, FoundNone DEF Found
        <4>5. \A w : StrOf(parts, w) = <<>>
          BY <4>4 DEF StrOf, Str
        <4>6. \A w : StrsOf(parts, w) = <<>>
          <5>1. \A w : StrsOf(parts, w) = StringsIn(Arr(<<>>))
            BY <4>4 DEF StrsOf, StringsIn
          <5> QED
            BY <5>1, NoStringsAreIn
        <4>7. /\ m.title = <<>> /\ m.body = <<>> /\ m.loc_key = <<>> /\ m.title_loc_key = <<>>
          BY <3>2, NoAlertObject
        <4> QED
          BY <3>2, <4>3, <4>5, <4>6, <4>7
      <3> QED
        BY <3>1, <3>2
    <2>11. said = IF m.title \o m.body \o m.loc_key \o m.title_loc_key = <<>> THEN m.alert ELSE <<>>
      BY <2>10, NoAlertObject
    <2>12. PICK targs, largs : /\ targs = IF m.title_loc_key = <<>> THEN <<>> ELSE m.title_loc_args
                               /\ largs = IF m.loc_key = <<>> THEN <<>> ELSE m.loc_args
      OBVIOUS
    <2>13. ApnsReceived(v) =
            [alert |-> said, title |-> m.title, body |-> m.body, title_loc_key |-> m.title_loc_key,
             title_loc_args |-> targs, loc_key |-> m.loc_key, loc_args |-> largs,
             badge |-> m.badge, sound |-> m.sound, action_loc_key |-> m.action_loc_key,
             launch_image |-> m.launch_image, custom |-> custom]
      BY <2>9, <2>10, <2>12
    <2>14. [m EXCEPT !.alert = said, !.title_loc_args = targs, !.loc_args = largs, !.custom = custom] =
            [alert |-> said, title |-> m.title, body |-> m.body, title_loc_key |-> m.title_loc_key,
             title_loc_args |-> targs, loc_key |-> m.loc_key, loc_args |-> largs,
             badge |-> m.badge, sound |-> m.sound, action_loc_key |-> m.action_loc_key,
             launch_image |-> m.launch_image, custom |-> custom]
      <3>1. PICK e : e = [m EXCEPT !.alert = said, !.title_loc_args = targs, !.loc_args = largs, !.custom = custom]
        OBVIOUS
      <3>2. DOMAIN m = {"alert", "title", "body", "title_loc_key", "title_loc_args", "loc_key", "loc_args",
                        "badge", "sound", "action_loc_key", "launch_image", "custom"}
        BY DEF ApnsMessage
      <3>3. e = [x \in {"alert", "title", "body", "title_loc_key", "title_loc_args", "loc_key", "loc_args",
                         "badge", "sound", "action_loc_key", "launch_image", "custom"} |-> e[x]]
        BY <3>1, <3>2
      <3>4. /\ e.alert = said /\ e.title = m.title /\ e.body = m.body /\ e.title_loc_key = m.title_loc_key
            /\ e.title_loc_args = targs /\ e.loc_key = m.loc_key /\ e.loc_args = largs
            /\ e.badge = m.badge /\ e.sound = m.sound /\ e.action_loc_key = m.action_loc_key
            /\ e.launch_image = m.launch_image /\ e.custom = custom
        BY <3>1, <3>2
      <3> QED
        BY ONLY <3>1, <3>3, <3>4
    <2>15. [m EXCEPT
              !.alert = IF m.title \o m.body \o m.loc_key \o m.title_loc_key = <<>> THEN @ ELSE <<>>,
              !.title_loc_args = IF m.title_loc_key = <<>> THEN <<>> ELSE @,
              !.loc_args = IF m.loc_key = <<>> THEN <<>> ELSE @,
              !.custom = {p \in Range(@) : p[1] # N("aps")}]
             = [m EXCEPT !.alert = said, !.title_loc_args = targs, !.loc_args = largs, !.custom = custom]
      BY <2>3, <2>11, <2>12, Zenon
    <2> QED
      BY <2>13, <2>14, <2>15, Zenon
  <1>2. StringInv /\ WrittenInv => ApnsMessageArrives
    <2> SUFFICES ASSUME StringInv, WrittenInv, doc.kind = "apns", outcome = "done"
                 PROVE  ApnsMessageArrives
      BY DEF ApnsMessageArrives
    <2>1. doc \in Documents /\ value = Meant(doc)
      BY MeantIsRead
    <2>2. doc.msg \in ApnsMessage /\ value = ApnsToJson(doc.msg)
      BY <2>1, DocumentsAssumption DEF Meant
    <2> QED
      BY <1>1, <2>2 DEF ApnsMessageArrives
  <1> QED
    BY <1>2, StringInvariant, WrittenInvariant, PTL

GcmWords == {"registration_ids", "notification_key", "notification_key_name", "collapse_key",
             "time_to_live", "delay_while_idle", "restricted_package_name", "dry_run", "data"}

LEMMA FoundInNine ==
    ASSUME NEW p1, NEW p2, NEW p3, NEW p4, NEW p5, NEW p6, NEW p7, NEW p8, NEW p9,
           IsSeq(p1), IsSeq(p2), IsSeq(p3), IsSeq(p4), IsSeq(p5), IsSeq(p6), IsSeq(p7), IsSeq(p8), IsSeq(p9),
           NEW w, NEW d
    PROVE  Found(Cat(Cat(Cat(Cat(Cat(Cat(Cat(Cat(p1, p2), p3), p4), p5), p6), p7), p8), p9), w, d)
             = Found(p9, w, Found(p8, w, Found(p7, w, Found(p6, w, Found(p5, w, Found(p4, w,
                 Found(p3, w, Found(p2, w, Found(p1, w, d)))))))))
  <1>1. PICK q : q = Cat(Cat(Cat(p1, p2), p3), p4)
    OBVIOUS
  <1>2. IsSeq(q) /\ \A e : Found(q, w, e) = Found(p4, w, Found(p3, w, Found(p2, w, Found(p1, w, e))))
    <2>1. IsSeq(Cat(p1, p2)) /\ IsSeq(Cat(Cat(p1, p2), p3)) /\ IsSeq(Cat(Cat(Cat(p1, p2), p3), p4))
      BY FoundInCat
    <2> QED
      BY <1>1, <2>1, FoundInCat
  <1>3. Found(Cat(Cat(Cat(Cat(Cat(q, p5), p6), p7), p8), p9), w, d)
          = Found(p9, w, Found(p8, w, Found(p7, w, Found(p6, w, Found(p5, w, Found(q, w, d))))))
    BY <1>2, FoundInSix
  <1> QED
    BY <1>1, <1>2, <1>3

LEMMA GcmFound ==
    ASSUME NEW m \in GcmMessage, NEW ttl, NEW v, v = GcmWith(m, ttl)
    PROVE  /\ StrsOf(v, "registration_ids") = m.registration_ids
           /\ StrOf(v, "notification_key") = m.notification_key
           /\ StrOf(v, "notification_key_name") = m.notification_key_name
           /\ StrOf(v, "collapse_key") = m.collapse_key
           /\ NumOf(v, "time_to_live", UINT64_MAX) = IF m.time_to_live # UINT64_MAX THEN ttl[2] ELSE UINT64_MAX
           /\ FlagOf(v, "delay_while_idle") = m.delay_while_idle
           /\ StrOf(v, "restricted_package_name") = m.restricted_package_name
           /\ FlagOf(v, "dry_run") = m.dry_run
           /\ LastNamed(v, "data", Obj(<<>>)) = Obj(CustomMembers(m.custom))
  <1>1. GcmWords \subseteq ToSet(Words)
    BY WordsAre DEF GcmWords
  <1>2. PICK always, set, some, idle, dry :
          /\ always = TRUE /\ set = (m.time_to_live # UINT64_MAX) /\ some = (m.custom # <<>>)
          /\ idle = m.delay_while_idle /\ dry = m.dry_run
    OBVIOUS
  <1>3. PICK ids, data, true : /\ ids = Arr([i \in DOMAIN m.registration_ids |-> Str(m.registration_ids[i])])
                               /\ data = Obj(CustomMembers(m.custom)) /\ true = BoolVal(TRUE)
    OBVIOUS
  <1>4. PICK p1, p2, p3, p4, p5, p6, p7, p8, p9 :
          /\ p1 = Member(always, "registration_ids", ids) /\ p2 = Text("notification_key", m.notification_key)
          /\ p3 = Text("notification_key_name", m.notification_key_name)
          /\ p4 = Text("collapse_key", m.collapse_key) /\ p5 = Member(set, "time_to_live", ttl)
          /\ p6 = Member(idle, "delay_while_idle", true)
          /\ p7 = Text("restricted_package_name", m.restricted_package_name)
          /\ p8 = Member(dry, "dry_run", true) /\ p9 = Member(some, "data", data)
    OBVIOUS
  <1>5. /\ IsSeq(p2) /\ IsSeq(p3) /\ IsSeq(p4) /\ IsSeq(p7)
        /\ \A x \in GcmWords : \A d :
             /\ Found(p2, x, d) = IF m.notification_key # <<>> /\ x = "notification_key"
                                  THEN Str(m.notification_key) ELSE d
             /\ Found(p3, x, d) = IF m.notification_key_name # <<>> /\ x = "notification_key_name"
                                  THEN Str(m.notification_key_name) ELSE d
             /\ Found(p4, x, d) = IF m.collapse_key # <<>> /\ x = "collapse_key" THEN Str(m.collapse_key) ELSE d
             /\ Found(p7, x, d) = IF m.restricted_package_name # <<>> /\ x = "restricted_package_name"
                                  THEN Str(m.restricted_package_name) ELSE d
    BY <1>1, <1>4, FoundInText DEF GcmWords
  <1>6. /\ "registration_ids" \in ToSet(Words) /\ "time_to_live" \in ToSet(Words) /\ "data" \in ToSet(Words)
        /\ "delay_while_idle" \in ToSet(Words) /\ "dry_run" \in ToSet(Words)
    BY <1>1 DEF GcmWords
  <1>7. IsSeq(p1)
        /\ \A x \in ToSet(Words) : \A d : Found(p1, x, d) = IF always /\ x = "registration_ids" THEN ids ELSE d
    BY <1>4, <1>6, FoundInMember
  <1>8. IsSeq(p5) /\ \A x \in ToSet(Words) : \A d : Found(p5, x, d) = IF set /\ x = "time_to_live" THEN ttl ELSE d
    BY <1>4, <1>6, FoundInMember
  <1>9. IsSeq(p6) /\ \A x \in ToSet(Words) : \A d : Found(p6, x, d) = IF idle /\ x = "delay_while_idle" THEN true ELSE d
    BY <1>4, <1>6, FoundInMember
  <1>10. IsSeq(p8) /\ \A x \in ToSet(Words) : \A d : Found(p8, x, d) = IF dry /\ x = "dry_run" THEN true ELSE d
    BY <1>4, <1>6, FoundInMember
  <1>11. IsSeq(p9) /\ \A x \in ToSet(Words) : \A d : Found(p9, x, d) = IF some /\ x = "data" THEN data ELSE d
    BY <1>4, <1>6, FoundInMember
  <1>12. PICK ms : ms = Cat(Cat(Cat(Cat(Cat(Cat(Cat(Cat(p1, p2), p3), p4), p5), p6), p7), p8), p9)
    OBVIOUS
  <1>13. v = Obj(ms)
    <2>1. p1 = <<<<N("registration_ids"), ids>>>>
      BY <1>2, <1>4 DEF Member
    <2> QED
      BY <1>2, <1>3, <1>4, <1>12, <2>1, Zenon DEF GcmWith, Cat
  <1>14. \A w, d : LastNamed(v, w, d) = Found(ms, w, d)
    BY <1>13 DEF Found
  <1>15. \A w, d : LastNamed(v, w, d)
             = Found(p9, w, Found(p8, w, Found(p7, w, Found(p6, w, Found(p5, w, Found(p4, w,
                 Found(p3, w, Found(p2, w, Found(p1, w, d)))))))))
    BY <1>5, <1>7, <1>8, <1>9, <1>10, <1>11, <1>12, <1>14, FoundInNine
  <1>16. \A x \in GcmWords : \A d :
           /\ Found(p1, x, d) = IF always /\ x = "registration_ids" THEN ids ELSE d
           /\ Found(p5, x, d) = IF set /\ x = "time_to_live" THEN ttl ELSE d
           /\ Found(p6, x, d) = IF idle /\ x = "delay_while_idle" THEN true ELSE d
           /\ Found(p8, x, d) = IF dry /\ x = "dry_run" THEN true ELSE d
           /\ Found(p9, x, d) = IF some /\ x = "data" THEN data ELSE d
    BY <1>1, <1>7, <1>8, <1>9, <1>10, <1>11
  <1>17. /\ LastNamed(v, "notification_key", Str(<<>>)) = Str(m.notification_key)
         /\ LastNamed(v, "notification_key_name", Str(<<>>)) = Str(m.notification_key_name)
         /\ LastNamed(v, "collapse_key", Str(<<>>)) = Str(m.collapse_key)
         /\ LastNamed(v, "restricted_package_name", Str(<<>>)) = Str(m.restricted_package_name)
    BY <1>5, <1>15, <1>16 DEF GcmWords
  <1>18. /\ LastNamed(v, "registration_ids", Arr(<<>>)) = ids
         /\ LastNamed(v, "time_to_live", IntVal(UINT64_MAX)) = IF set THEN ttl ELSE IntVal(UINT64_MAX)
         /\ LastNamed(v, "delay_while_idle", BoolVal(FALSE)) = IF idle THEN true ELSE BoolVal(FALSE)
         /\ LastNamed(v, "dry_run", BoolVal(FALSE)) = IF dry THEN true ELSE BoolVal(FALSE)
         /\ LastNamed(v, "data", Obj(<<>>)) = IF some THEN data ELSE Obj(<<>>)
    <2>1. always = TRUE
      BY <1>2
    <2>2. PICK none, no, unset, nothing : /\ none = Arr(<<>>) /\ no = BoolVal(FALSE)
                                          /\ unset = IntVal(UINT64_MAX) /\ nothing = Obj(<<>>)
      OBVIOUS
    <2>3. LastNamed(v, "registration_ids", none) = ids
      BY <1>5, <1>15, <1>16, <2>1 DEF GcmWords
    <2>4. LastNamed(v, "time_to_live", unset) = IF set THEN ttl ELSE unset
      BY <1>5, <1>15, <1>16 DEF GcmWords
    <2>5. LastNamed(v, "delay_while_idle", no) = IF idle THEN true ELSE no
      BY <1>5, <1>15, <1>16 DEF GcmWords
    <2>6. LastNamed(v, "dry_run", no) = IF dry THEN true ELSE no
      BY <1>5, <1>15, <1>16 DEF GcmWords
    <2>7. LastNamed(v, "data", nothing) = IF some THEN data ELSE nothing
      BY <1>5, <1>15, <1>16 DEF GcmWords
    <2> QED
      BY <2>2, <2>3, <2>4, <2>5, <2>6, <2>7, Zenon
  <1>19. StrsOf(v, "registration_ids") = m.registration_ids
    <2>1. StrsOf(v, "registration_ids") = StringsIn(ids)
      BY <1>18 DEF StrsOf, StringsIn
    <2> QED
      BY <1>3, <2>1, StringsAreIn DEF GcmMessage
  <1>20. /\ StrOf(v, "notification_key") = m.notification_key
         /\ StrOf(v, "notification_key_name") = m.notification_key_name
         /\ StrOf(v, "collapse_key") = m.collapse_key
         /\ StrOf(v, "restricted_package_name") = m.restricted_package_name
    <2>1. \A s : Str(s)[2] = s
      BY DEF Str
    <2> QED
      BY <1>17, <2>1, Zenon DEF StrOf
  <1>21. NumOf(v, "time_to_live", UINT64_MAX) = IF m.time_to_live # UINT64_MAX THEN ttl[2] ELSE UINT64_MAX
    <2>1. \A n : IntVal(n)[2] = n
      BY DEF IntVal
    <2> QED
      BY <1>2, <1>18, <2>1 DEF NumOf
  <1>22. FlagOf(v, "delay_while_idle") = m.delay_while_idle /\ FlagOf(v, "dry_run") = m.dry_run
    <2>1. m.delay_while_idle \in BOOLEAN /\ m.dry_run \in BOOLEAN
      BY DEF GcmMessage
    <2>2. \A b : BoolVal(b)[2] = b
      BY DEF BoolVal
    <2>3. (IF idle THEN true ELSE BoolVal(FALSE))[2] = m.delay_while_idle
      BY <1>2, <1>3, <2>1, <2>2
    <2>4. (IF dry THEN true ELSE BoolVal(FALSE))[2] = m.dry_run
      BY <1>2, <1>3, <2>1, <2>2
    <2> QED
      BY <1>18, <2>3, <2>4 DEF FlagOf
  <1>23. LastNamed(v, "data", Obj(<<>>)) = Obj(CustomMembers(m.custom))
    <2>1. CASE m.custom = <<>>
      <3>1. CustomMembers(m.custom) = <<>>
        BY <2>1 DEF CustomMembers
      <3> QED
        BY <1>2, <1>18, <2>1, <3>1
    <2>2. CASE m.custom # <<>>
      BY <1>2, <1>3, <1>18, <2>2
    <2> QED
      BY <2>1, <2>2
  <1> QED
    BY <1>19, <1>20, <1>21, <1>22, <1>23

LEMMA DataFound ==
    ASSUME NEW custom \in Custom, NEW data, data = Obj(CustomMembers(custom))
    PROVE  Pairings(data, DOMAIN data[2]) = Range(custom)
  <1>1. PICK R : R = Seq(Nat)
    OBVIOUS
  <1>2. custom \in Seq(R \X R)
    BY <1>1 DEF Custom
  <1>3. PICK l \in Nat : l = Len(custom) /\ DOMAIN custom = 1..l
    BY <1>2
  <1>4. \A i \in 1..l : custom[i] = <<custom[i][1], custom[i][2]>>
    <2> TAKE i \in 1..l
    <2>1. custom[i] \in R \X R
      BY <1>2, <1>3
    <2> QED
      BY <2>1
  <1>5. PICK cs : cs = [i \in 1..l |-> <<custom[i][1], Str(custom[i][2])>>]
    OBVIOUS
  <1>6. data[2] = cs
    BY <1>3, <1>5 DEF CustomMembers, Obj
  <1>7. DOMAIN cs = 1..l /\ \A i \in 1..l : <<cs[i][1], cs[i][2][2]>> = custom[i]
    BY <1>4, <1>5 DEF Str
  <1>8. Pairings(data, DOMAIN data[2]) = {custom[i] : i \in 1..l}
    BY <1>6, <1>7 DEF Pairings
  <1> QED
    BY <1>3, <1>8 DEF Range

\* The last of several devices finds the message of the client with its own
\* registration id added, whatever was posted before.
THEOREM GcmMessageFound == Spec => []GcmMessageArrives
  <1>1. ASSUME StringInv, WrittenInv, doc.kind = "gcm", outcome = "done"
        PROVE  GcmMessageArrives
    <2>1. doc \in Documents /\ value = Meant(doc)
      BY <1>1, MeantIsRead
    <2>2. doc.msg \in GcmMessage /\ doc.tokens \in Seq(Seq(Nat)) \ {<<>>}
      BY <1>1, <2>1, DocumentsAssumption
    <2>3. PICK m \in GcmMessage : m = AddRegId(doc.msg, Last(doc.tokens))
      BY <2>2, PostedIsOwn
    <2>4. PICK c \in GcmMessage : c = doc.msg
      BY <2>2
    <2>5. PICK ids : ids = Append(c.registration_ids, Last(doc.tokens))
      OBVIOUS
    <2>6. /\ m.registration_ids = ids /\ m.notification_key = c.notification_key
          /\ m.notification_key_name = c.notification_key_name /\ m.collapse_key = c.collapse_key
          /\ m.time_to_live = c.time_to_live /\ m.delay_while_idle = c.delay_while_idle
          /\ m.restricted_package_name = c.restricted_package_name /\ m.dry_run = c.dry_run
          /\ m.custom = c.custom
      BY <2>3, <2>4, <2>5 DEF AddRegId, GcmMessage
    <2>7. PICK ttl : ttl = NumberValue(c.time_to_live)
      OBVIOUS
    <2>8. ttl[2] = c.time_to_live
      BY <2>7 DEF NumberValue, IntVal, UintVal
    <2>9. value = GcmWith(m, ttl)
      BY <1>1, <2>1, <2>3, <2>4, <2>7 DEF Meant
    <2>10. /\ StrsOf(value, "registration_ids") = m.registration_ids
           /\ StrOf(value, "notification_key") = m.notification_key
           /\ StrOf(value, "notification_key_name") = m.notification_key_name
           /\ StrOf(value, "collapse_key") = m.collapse_key
           /\ NumOf(value, "time_to_live", UINT64_MAX) = IF m.time_to_live # UINT64_MAX THEN ttl[2] ELSE UINT64_MAX
           /\ FlagOf(value, "delay_while_idle") = m.delay_while_idle
           /\ StrOf(value, "restricted_package_name") = m.restricted_package_name
           /\ FlagOf(value, "dry_run") = m.dry_run
           /\ LastNamed(value, "data", Obj(<<>>)) = Obj(CustomMembers(m.custom))
      BY <2>9, GcmFound
    <2>11. NumOf(value, "time_to_live", UINT64_MAX) = c.time_to_live
      BY <2>6, <2>8, <2>10
    <2>12. PICK data : data = LastNamed(value, "data", Obj(<<>>))
      OBVIOUS
    <2>13. PICK custom : custom = Range(c.custom)
      OBVIOUS
    <2>14. Pairings(data, DOMAIN data[2]) = custom
      <3>1. c.custom \in Custom
        BY DEF GcmMessage
      <3>2. data = Obj(CustomMembers(c.custom))
        BY <2>6, <2>10, <2>12
      <3> QED
        BY <2>13, <3>1, <3>2, DataFound
    <2>15. PICK e : e = [c EXCEPT !.registration_ids = ids, !.custom = custom]
      OBVIOUS
    <2>16. e = [registration_ids |-> ids, notification_key |-> c.notification_key,
                notification_key_name |-> c.notification_key_name, collapse_key |-> c.collapse_key,
                time_to_live |-> c.time_to_live, delay_while_idle |-> c.delay_while_idle,
                restricted_package_name |-> c.restricted_package_name, dry_run |-> c.dry_run,
                custom |-> custom]
      <3>1. DOMAIN c = {"registration_ids", "notification_key", "notification_key_name", "collapse_key",
                        "time_to_live", "delay_while_idle", "restricted_package_name", "dry_run", "custom"}
        BY DEF GcmMessage
      <3>2. e = [x \in DOMAIN c |-> e[x]]
        BY <2>15
      <3>3. /\ e.registration_ids = ids /\ e.notification_key = c.notification_key
            /\ e.notification_key_name = c.notification_key_name /\ e.collapse_key = c.collapse_key
            /\ e.time_to_live = c.time_to_live /\ e.delay_while_idle = c.delay_while_idle
            /\ e.restricted_package_name = c.restricted_package_name /\ e.dry_run = c.dry_run
            /\ e.custom = custom
        BY <2>15, <3>1
      <3> QED
        BY ONLY <3>1, <3>2, <3>3
    <2>17. [registration_ids |-> StrsOf(value, "registration_ids"),
            notification_key |-> StrOf(value, "notification_key"),
            notification_key_name |-> StrOf(value, "notification_key_name"),
            collapse_key |-> StrOf(value, "collapse_key"),
            time_to_live |-> NumOf(value, "time_to_live", UINT64_MAX),
            delay_while_idle |-> FlagOf(value, "delay_while_idle"),
            restricted_package_name |-> StrOf(value, "restricted_package_name"),
            dry_run |-> FlagOf(value, "dry_run"),
            custom |-> Pairings(data, DOMAIN data[2])] = e
      BY <2>6, <2>10, <2>11, <2>14, <2>16
    <2>18. e = [doc.msg EXCEPT !.registration_ids = Append(@, Last(doc.tokens)), !.custom = Range(@)]
      <3>1. [doc.msg EXCEPT !.registration_ids = Append(@, Last(doc.tokens)), !.custom = Range(@)]
              = [doc.msg EXCEPT !.registration_ids = Append(doc.msg.registration_ids, Last(doc.tokens)),
                                !.custom = Range(doc.msg.custom)]
        OBVIOUS
      <3> QED
        BY <2>4, <2>5, <2>13, <2>15, <3>1, Zenon
    <2> QED
      BY <2>12, <2>17, <2>18, Zenon DEF GcmMessageArrives
  <1>2. StringInv /\ WrittenInv => GcmMessageArrives
    BY <1>1 DEF GcmMessageArrives
  <1> QED
    BY <1>2, StringInvariant, WrittenInvariant, PTL

-----------------------------------------------------------------------------
\* What is made of an answer.

\* Of sequences of which at most one has elements, there are only that one's.
LEMMA FlattenOnly ==
    ASSUME NEW S, NEW ss \in Seq(Seq(S)), NEW i \in 1..Len(ss),
           \A j \in 1..Len(ss) : j # i => ss[j] = <<>>
    PROVE  FlattenSeq(ss) = ss[i]
  <1>1. PICK R : R = Seq(S)
    OBVIOUS
  <1>2. ss \in Seq(R)
    BY <1>1, Zenon
  <1>3. PICK l \in Nat : l = Len(ss) /\ DOMAIN ss = 1..l
    BY <1>2
  <1>4. i \in 1..l /\ ss[i] \in Seq(S) /\ <<>> \in Seq(S)
    BY <1>1, <1>2, <1>3
  <1> DEFINE flat(k) == FlattenSeq(SubSeq(ss, 1, k))
             T == {k \in Nat : k <= l => flat(k) = IF k < i THEN <<>> ELSE ss[i]}
  <1>5. 0 \in T
    <2>1. SubSeq(ss, 1, 0) = <<>>
      BY <1>2
    <2>2. flat(0) = <<>>
      BY <2>1, FlattenEmpty
    <2>3. 0 < i /\ 0 \in Nat
      BY <1>4
    <2> HIDE DEF flat
    <2> QED
      BY <2>2, <2>3
  <1>6. ASSUME NEW k \in Nat, k \in T
        PROVE  k + 1 \in T
    <2> SUFFICES ASSUME k + 1 <= l
                 PROVE  flat(k + 1) = IF k + 1 < i THEN <<>> ELSE ss[i]
      OBVIOUS
    <2>1. PICK n \in Nat : n = k + 1
      OBVIOUS
    <2>2. n \in 1..Len(ss) /\ n - 1 = k
      BY <1>3, <2>1
    <2>3. flat(n) = Cat(flat(k), ss[n])
      BY <2>2, FlattenStep
    <2>4. flat(k) = IF k < i THEN <<>> ELSE ss[i]
      BY <1>6
    <2> HIDE DEF flat
    <2>5. CASE n = i
      BY <1>4, <2>1, <2>3, <2>4, <2>5, CatEmpty
    <2>6. CASE n # i
      <3>1. ss[n] = <<>>
        BY <2>2, <2>6
      <3>2. flat(n) = flat(k)
        BY <1>4, <2>3, <2>4, <3>1, CatEmpty
      <3>3. (k < i) <=> (n < i)
        BY <1>4, <2>1, <2>6
      <3> QED
        BY <2>1, <2>4, <3>2, <3>3
    <2> QED
      BY <2>5, <2>6
  <1> HIDE DEF T
  <1>7. Nat \subseteq T
    BY <1>5, <1>6, SetInduction
  <1>8. flat(l) = ss[i]
    <2>1. l \in T
      BY <1>7
    <2>2. l <= l /\ ~(l < i)
      BY <1>4
    <2> HIDE DEF flat
    <2> QED
      BY <2>1, <2>2 DEF T
  <1>9. SubSeq(ss, 1, l) = ss
    BY <1>2, <1>3
  <1> QED
    BY <1>8, <1>9

\* No error makes an entry successful.
LEMMA ErrorStatus == \A s : StatusFromError(s) # "successful"
  <1>1. \A e \in DOMAIN EntryStatus : EntryStatus[e] # "successful"
    BY DEF EntryStatus
  <1>2. ASSUME NEW s, \E e \in DOMAIN EntryStatus : N(e) = s
        PROVE  StatusFromError(s) # "successful"
    BY <1>1, <1>2 DEF StatusFromError
  <1>3. ASSUME NEW s, ~ \E e \in DOMAIN EntryStatus : N(e) = s
        PROVE  StatusFromError(s) # "successful"
    BY <1>3 DEF StatusFromError
  <1> QED
    BY <1>2, <1>3

LEMMA EntryFound ==
    ASSUME NEW e \in EntryType, NEW v, v = EntryOf(e)
    PROVE  /\ ~EntryThrows(v)
           /\ Entry(v).message_id = e.message_id
           /\ Entry(v).registration_id = e.registration_id
           /\ (Entry(v).status = "successful") <=> (e.error = <<>>)
  <1>1. /\ e.message_id \in Seq(Nat) /\ e.registration_id \in Seq(Nat) /\ e.error \in Seq(Nat)
    BY DEF EntryType
  <1>2. EntryFields \subseteq ToSet(Words)
    BY WordsAre DEF EntryFields
  <1>3. PICK p1, p2, p3 : /\ p1 = Text("message_id", e.message_id)
                          /\ p2 = Text("registration_id", e.registration_id)
                          /\ p3 = Text("error", e.error)
    OBVIOUS
  <1>4. PICK ms : ms = Cat(Cat(p1, p2), p3)
    OBVIOUS
  <1>5. v = Obj(ms)
    BY <1>3, <1>4, Zenon DEF EntryOf, Cat
  <1>6. /\ IsSeq(p1) /\ IsSeq(p2) /\ IsSeq(p3)
        /\ \A x \in EntryFields : \A d :
             /\ Found(p1, x, d) = IF e.message_id # <<>> /\ x = "message_id" THEN Str(e.message_id) ELSE d
             /\ Found(p2, x, d) = IF e.registration_id # <<>> /\ x = "registration_id"
                                  THEN Str(e.registration_id) ELSE d
             /\ Found(p3, x, d) = IF e.error # <<>> /\ x = "error" THEN Str(e.error) ELSE d
    BY <1>2, <1>3, FoundInText DEF EntryFields
  <1>7. \A x, d : Found(ms, x, d) = Found(p3, x, Found(p2, x, Found(p1, x, d)))
    <2>1. IsSeq(Cat(p1, p2))
      BY <1>6, FoundInCat
    <2> QED
      BY <1>4, <1>6, <2>1, FoundInCat
  <1>8. /\ \A d : Found(ms, "message_id", d) = IF e.message_id # <<>> THEN Str(e.message_id) ELSE d
        /\ \A d : Found(ms, "registration_id", d) = IF e.registration_id # <<>> THEN Str(e.registration_id) ELSE d
        /\ \A d : Found(ms, "error", d) = IF e.error # <<>> THEN Str(e.error) ELSE d
    BY <1>6, <1>7 DEF EntryFields
  <1>9. v[2] = ms /\ v[1] = "obj"
    BY <1>5 DEF Obj
  <1>10. \A w, d : LastNamed(v, w, d) = Found(ms, w, d)
    BY <1>5 DEF Found
  <1>11. \A w : Named(v, w) = Places(ms, w)
    BY <1>9 DEF Named, Places
  <1>12. \A s : Str(s)[2] = s
    BY DEF Str
  <1>13. Entry(v).message_id = e.message_id /\ Entry(v).registration_id = e.registration_id
    <2>1. PICK none : none = Str(<<>>)
      OBVIOUS
    <2>2. /\ LastNamed(v, "message_id", none) = Str(e.message_id)
          /\ LastNamed(v, "registration_id", none) = Str(e.registration_id)
      BY <1>8, <1>10, <2>1
    <2> QED
      BY <1>12, <2>1, <2>2 DEF Entry
  <1>14. (Named(v, "error") = {}) <=> (e.error = <<>>)
    <2>1. CASE e.error = <<>>
      <3>1. Found(ms, "error", 1) = 1 /\ Found(ms, "error", 2) = 2
        BY <1>8, <2>1
      <3>2. Places(ms, "error") = {}
        BY <3>1, FoundIs
      <3> QED
        BY <1>11, <2>1, <3>2
    <2>2. CASE e.error # <<>>
      <3>1. Found(ms, "error", 1) = Str(e.error) /\ Found(ms, "error", 2) = Str(e.error)
        BY <1>8, <2>2
      <3>2. Places(ms, "error") # {}
        BY <3>1, FoundIs
      <3> QED
        BY <1>11, <2>2, <3>2
    <2> QED
      BY <2>1, <2>2
  <1>15. (Entry(v).status = "successful") <=> (e.error = <<>>)
    BY <1>14, ErrorStatus DEF Entry
  <1>16. ~EntryThrows(v)
    <2>1. PICK A : A = Seq(Nat) \X ({"str"} \X Seq(Nat))
      OBVIOUS
    <2>2. ASSUME NEW w \in ToSet(Words), NEW s \in Seq(Nat)
          PROVE  Text(w, s) \in Seq(A)
      <3>1. PICK a : a = <<N(w), Str(s)>>
        OBVIOUS
      <3>2. a \in A
        BY <2>1, <3>1, WordOf DEF Str
      <3>3. <<a>> \in Seq(A) /\ <<>> \in Seq(A)
        BY <3>2
      <3> QED
        BY <3>1, <3>3 DEF Text, Member
    <2>3. p1 \in Seq(A) /\ p2 \in Seq(A) /\ p3 \in Seq(A)
      BY <1>1, <1>2, <1>3, <2>2 DEF EntryFields
    <2>4. ms \in Seq(A)
      BY <1>4, <2>3, CatType
    <2>5. \A i \in DOMAIN ms : ms[i] \in A
      BY <2>4
    <2>6. \A i \in DOMAIN ms : Type(ms[i][2]) = "str"
      BY <2>1, <2>5 DEF Type, IsUint64
    <2>7. Type(v) = "obj"
      BY <1>9 DEF Type, IsUint64
    <2> QED
      BY <1>9, <2>6, <2>7 DEF EntryThrows, Named
  <1> QED
    BY <1>13, <1>15, <1>16

\* A value has one member of a name.
OneNamed(v, w, y) ==
    /\ \E i \in DOMAIN v[2] : Named(v, w) = {i} /\ v[2][i][2] = y
    /\ \A d : LastNamed(v, w, d) = y

LEMMA OneIsNamed ==
    ASSUME NEW rs, NEW w, NEW y, NEW i \in 1..5, DOMAIN rs = 1..5, rs[i] = <<N(w), y>>,
           \A j \in 1..5 : j # i => rs[j][1] # N(w)
    PROVE  OneNamed(Obj(rs), w, y)
  <1>1. PICK v : v = Obj(rs)
    OBVIOUS
  <1>2. v[2] = rs
    BY <1>1 DEF Obj
  <1>3. PICK m : m = rs[i]
    OBVIOUS
  <1>4. m[1] = N(w) /\ m[2] = y
    BY <1>3
  <1>5. Named(v, w) = {i}
    BY <1>2, <1>3, <1>4 DEF Named
  <1>6. Max({i}) = i
    BY MaxIs
  <1>7. \A d : LastNamed(v, w, d) = y
    BY <1>2, <1>3, <1>4, <1>5, <1>6 DEF LastNamed
  <1> QED
    BY <1>1, <1>2, <1>3, <1>4, <1>5, <1>7 DEF OneNamed
Responses == {"multicast_id", "success", "failure", "canonical_ids", "results"}

\* The members of an answer, whatever their order.
LEMMA AnswerParts ==
    ASSUME NEW x, NEW ms, ms = AnswerRead(x), NEW rs, rs = ms \/ rs = Reverse(ms)
    PROVE  /\ DOMAIN rs = 1..5
           /\ OneNamed(Obj(rs), "multicast_id", NumberValue(x.multicast_id[2]))
           /\ OneNamed(Obj(rs), "success", NumberValue(x.success[2]))
           /\ OneNamed(Obj(rs), "failure", NumberValue(x.failure[2]))
           /\ OneNamed(Obj(rs), "canonical_ids", NumberValue(x.canonical_ids[2]))
           /\ OneNamed(Obj(rs), "results", Arr([i \in DOMAIN x.results |-> EntryOf(x.results[i])]))
  <1>1. PICK y1, y2, y3, y4, y5 :
          /\ y1 = NumberValue(x.multicast_id[2]) /\ y2 = NumberValue(x.success[2])
          /\ y3 = NumberValue(x.failure[2]) /\ y4 = NumberValue(x.canonical_ids[2])
          /\ y5 = Arr([i \in DOMAIN x.results |-> EntryOf(x.results[i])])
    OBVIOUS
  <1>2. PICK w1, w2, w3, w4, w5 :
          /\ w1 = "multicast_id" /\ w2 = "success" /\ w3 = "failure"
          /\ w4 = "canonical_ids" /\ w5 = "results"
    OBVIOUS
  <1>3. /\ N(w1) # N(w2) /\ N(w1) # N(w3) /\ N(w1) # N(w4) /\ N(w1) # N(w5) /\ N(w2) # N(w3)
        /\ N(w2) # N(w4) /\ N(w2) # N(w5) /\ N(w3) # N(w4) /\ N(w3) # N(w5) /\ N(w4) # N(w5)
    <2>1. Responses \subseteq ToSet(Words)
      BY WordsAre DEF Responses
    <2>2. w1 \in Responses /\ w2 \in Responses /\ w3 \in Responses /\ w4 \in Responses /\ w5 \in Responses
      BY <1>2 DEF Responses
    <2>3. \A w, u \in Responses : N(w) = N(u) => w = u
      BY <2>1, WordOf
    <2> QED
      BY <1>2, <2>2, <2>3
  <1>4. PICK m1, m2, m3, m4, m5 :
          /\ m1 = <<N(w1), y1>> /\ m2 = <<N(w2), y2>> /\ m3 = <<N(w3), y3>>
          /\ m4 = <<N(w4), y4>> /\ m5 = <<N(w5), y5>>
    OBVIOUS
  <1>5. ms = <<m1, m2, m3, m4, m5>>
    BY <1>1, <1>2, <1>4 DEF AnswerRead
  <1>6. DOMAIN rs = 1..5
        /\ \/ rs[1] = m1 /\ rs[2] = m2 /\ rs[3] = m3 /\ rs[4] = m4 /\ rs[5] = m5
           \/ rs[1] = m5 /\ rs[2] = m4 /\ rs[3] = m3 /\ rs[4] = m2 /\ rs[5] = m1
    <2>1. CASE rs = ms
      BY <1>5, <2>1
    <2>2. CASE rs = Reverse(ms)
      <3>1. Len(ms) = 5
        BY <1>5
      <3>2. rs = [i \in 1..5 |-> ms[(5 - i) + 1]]
        BY <2>2, <3>1 DEF Reverse
      <3> QED
        BY <1>5, <3>2
    <2> QED
      BY <2>1, <2>2
  <1>7. /\ m1[1] = N(w1) /\ m2[1] = N(w2) /\ m3[1] = N(w3) /\ m4[1] = N(w4) /\ m5[1] = N(w5)
    BY <1>4
  <1>8. \A j \in 1..5 : j = 1 \/ j = 2 \/ j = 3 \/ j = 4 \/ j = 5
    OBVIOUS
  <1>9. OneNamed(Obj(rs), w1, y1)
    <2>1. PICK i \in 1..5 : rs[i] = m1 /\ \A j \in 1..5 : j # i => rs[j][1] # N(w1)
      BY <1>3, <1>6, <1>7, <1>8
    <2> QED
      BY <1>4, <1>6, <2>1, OneIsNamed
  <1>10. OneNamed(Obj(rs), w2, y2)
    <2>1. PICK i \in 1..5 : rs[i] = m2 /\ \A j \in 1..5 : j # i => rs[j][1] # N(w2)
      BY <1>3, <1>6, <1>7, <1>8
    <2> QED
      BY <1>4, <1>6, <2>1, OneIsNamed
  <1>11. OneNamed(Obj(rs), w3, y3)
    <2>1. PICK i \in 1..5 : rs[i] = m3 /\ \A j \in 1..5 : j # i => rs[j][1] # N(w3)
      BY <1>3, <1>6, <1>7, <1>8
    <2> QED
      BY <1>4, <1>6, <2>1, OneIsNamed
  <1>12. OneNamed(Obj(rs), w4, y4)
    <2>1. PICK i \in 1..5 : rs[i] = m4 /\ \A j \in 1..5 : j # i => rs[j][1] # N(w4)
      BY <1>3, <1>6, <1>7, <1>8
    <2> QED
      BY <1>4, <1>6, <2>1, OneIsNamed
  <1>13. OneNamed(Obj(rs), w5, y5)
    <2>1. PICK i \in 1..5 : rs[i] = m5 /\ \A j \in 1..5 : j # i => rs[j][1] # N(w5)
      BY <1>3, <1>6, <1>7, <1>8
    <2> QED
      BY <1>4, <1>6, <2>1, OneIsNamed
  <1> QED
    BY <1>1, <1>2, <1>6, <1>9, <1>10, <1>11, <1>12, <1>13

\* A number of either type as gcm_response takes it.
LEMMA NumberTaken ==
    /\ \A y \in ({"int"} \X Int64) \cup ({"uint"} \X Uint64) :
          GetInt64(NumberValue(y[2])) = GetInt64(y) /\ Type(NumberValue(y[2])) = "int"
    /\ \A y \in {"uint"} \X Uint64 : GetUint64(NumberValue(y[2])) = y[2]
  <1>1. \A n \in Uint64 : ToUint64(n) = n
    <2>1. PICK p \in Int : p = 2 ^ W
      <3>1. 2 ^ W \in Int
        BY WidthAssumption, SMT
      <3> QED
        BY <3>1
    <2>2. \A n \in 0..(p - 1) : n % p = n
      BY SMT
    <2> QED
      BY <2>1, <2>2 DEF ToUint64, Uint64
  <1>2. ASSUME NEW y \in ({"int"} \X Int64) \cup ({"uint"} \X Uint64)
        PROVE  GetInt64(NumberValue(y[2])) = GetInt64(y) /\ Type(NumberValue(y[2])) = "int"
    <2>1. CASE y[2] \in Int64
      <3>1. GetInt64(NumberValue(y[2])) = y[2] /\ Type(NumberValue(y[2])) = "int"
        BY <2>1 DEF GetInt64, NumberValue, IntVal, IsUint64, Type
      <3>2. GetInt64(y) = y[2]
        BY <2>1 DEF GetInt64, ToInt64
      <3> QED
        BY <3>1, <3>2
    <2>2. CASE y[2] \notin Int64
      <3>1. NumberValue(y[2]) = UintVal(y[2]) /\ y[1] = "uint"
        BY <2>2 DEF NumberValue
      <3> QED
        BY <3>1 DEF GetInt64, UintVal, IsUint64, Type
    <2> QED
      BY <2>1, <2>2
  <1>3. ASSUME NEW n \in Uint64
        PROVE  GetUint64(NumberValue(n)) = n
    <2>1. CASE n \in Int64
      <3>1. GetUint64(NumberValue(n)) = ToUint64(n)
        BY <2>1 DEF GetUint64, NumberValue, IntVal, IsUint64
      <3> QED
        BY <1>1, <3>1
    <2>2. CASE n \notin Int64
      BY <2>2 DEF GetUint64, NumberValue, UintVal, IsUint64
    <2> QED
      BY <2>1, <2>2
  <1> QED
    BY <1>2, <1>3

LEMMA EntriesFound ==
    ASSUME NEW x \in ServerAnswer, NEW v, DOMAIN v[2] = 1..5,
           OneNamed(v, "results", Arr([i \in DOMAIN x.results |-> EntryOf(x.results[i])]))
    PROVE  /\ Len(Entries(v)) = Len(x.results)
           /\ \A i \in DOMAIN x.results : Entries(v)[i] = Entry(EntryOf(x.results[i]))
  <1>1. PICK R : R = EntryType
    OBVIOUS
  <1>2. x.results \in Seq(R)
    BY <1>1 DEF ServerAnswer, EntryType
  <1>3. PICK rs : rs = x.results
    OBVIOUS
  <1>4. PICK l \in Nat : l = Len(rs) /\ DOMAIN rs = 1..l
    BY <1>2, <1>3
  <1>5. PICK S : S = {EntryOf(e) : e \in R}
    OBVIOUS
  <1> DEFINE f == [i \in DOMAIN rs |-> EntryOf(rs[i])]
  <1>6. f = [i \in 1..l |-> f[i]] /\ DOMAIN f = 1..l /\ \A i \in 1..l : f[i] = EntryOf(rs[i]) /\ f[i] \in S
    BY <1>2, <1>3, <1>4, <1>5
  <1>7. OneNamed(v, "results", Arr(f))
    BY <1>3
  <1> HIDE DEF f
  <1>8. f \in Seq(S) /\ Len(f) = l
    <2>1. l \in Nat
      OBVIOUS
    <2> QED
      BY ONLY <1>6, <2>1
  <1>9. PICK k \in 1..5 : Named(v, "results") = {k} /\ v[2][k][2] = Arr(f)
    BY <1>7 DEF OneNamed
  <1>10. PICK Q : Q = Seq(S)
    OBVIOUS
  <1> DEFINE ss == [i \in DOMAIN v[2] |-> IF i \in Named(v, "results") THEN v[2][i][2][2] ELSE <<>>]
  <1>11. /\ ss = [i \in 1..5 |-> ss[i]] /\ DOMAIN ss = 1..5 /\ ss[k] = f
         /\ \A j \in 1..5 : j # k => ss[j] = <<>>
    <2>1. Arr(f)[2] = f
      BY DEF Arr
    <2> QED
      BY <1>9, <2>1
  <1>12. Entries(v) = [i \in DOMAIN FlattenSeq(ss) |-> Entry(FlattenSeq(ss)[i])]
    BY DEF Entries
  <1> HIDE DEF ss
  <1>13. ss \in Seq(Seq(S)) /\ Len(ss) = 5
    <2>1. f \in Q /\ <<>> \in Q
      BY <1>8, <1>10
    <2>2. \A i \in 1..5 : ss[i] \in Q
      BY <1>11, <2>1
    <2>3. ss \in Seq(Q) /\ Len(ss) = 5
      BY ONLY <1>11, <2>2
    <2> QED
      BY <1>10, <2>3, Zenon
  <1>14. FlattenSeq(ss) = f
    BY <1>11, <1>13, FlattenOnly
  <1>15. Entries(v) = [i \in 1..l |-> Entry(f[i])]
    BY <1>6, <1>12, <1>14
  <1>16. DOMAIN Entries(v) = 1..l /\ \A i \in 1..l : Entries(v)[i] = Entry(EntryOf(rs[i]))
    BY <1>6, <1>15
  <1>17. Len(Entries(v)) = l
    BY <1>15
  <1> QED
    BY <1>3, <1>4, <1>16, <1>17

\* An answer of the server is understood, whatever its numbers and strings
\* are, and whichever way round its members are.
THEOREM AnswerIsUnderstood == Spec => []AnswerUnderstood
  <1>1. ASSUME NEW a \in ServerAnswer, NEW rs, NEW ms, ms = AnswerRead(a), rs = ms \/ rs = Reverse(ms),
               NEW v, v = Obj(rs), NEW r, r = GcmResponse(v)
        PROVE  /\ ~ResponseThrows(v)
               /\ r.multicast_id = GetInt64(a.multicast_id)
               /\ <<r.success, r.failure, r.canonical_ids>> =
                    <<a.success[2], a.failure[2], a.canonical_ids[2]>>
               /\ Len(r.results) = Len(a.results)
               /\ \A i \in DOMAIN a.results :
                    /\ r.results[i].message_id = a.results[i].message_id
                    /\ r.results[i].registration_id = a.results[i].registration_id
                    /\ (r.results[i].status = "successful") <=> (a.results[i].error = <<>>)
    <2>1. /\ a.multicast_id \in ({"int"} \X Int64) \cup ({"uint"} \X Uint64)
          /\ a.success \in {"uint"} \X Uint64 /\ a.failure \in {"uint"} \X Uint64
          /\ a.canonical_ids \in {"uint"} \X Uint64
      BY DEF ServerAnswer
    <2>2. PICK es : es = Arr([i \in DOMAIN a.results |-> EntryOf(a.results[i])])
      OBVIOUS
    <2>3. PICK n1, n2, n3, n4 : /\ n1 = NumberValue(a.multicast_id[2]) /\ n2 = NumberValue(a.success[2])
                                /\ n3 = NumberValue(a.failure[2]) /\ n4 = NumberValue(a.canonical_ids[2])
      OBVIOUS
    <2>4. /\ v[2] = rs /\ v[1] = "obj"
      BY <1>1 DEF Obj
    <2>5. /\ DOMAIN v[2] = 1..5
          /\ OneNamed(v, "multicast_id", n1) /\ OneNamed(v, "success", n2) /\ OneNamed(v, "failure", n3)
          /\ OneNamed(v, "canonical_ids", n4) /\ OneNamed(v, "results", es)
      BY <1>1, <2>2, <2>3, <2>4, AnswerParts
    <2>6. /\ GetInt64(n1) = GetInt64(a.multicast_id) /\ GetUint64(n2) = a.success[2]
          /\ GetUint64(n3) = a.failure[2] /\ GetUint64(n4) = a.canonical_ids[2]
          /\ Type(n1) = "int" /\ Type(n2) = "int" /\ Type(n3) = "int" /\ Type(n4) = "int"
      BY <2>1, <2>3, NumberTaken
    <2>7. PICK d1, d2 : d1 = IntVal(-1) /\ d2 = UintVal(0)
      OBVIOUS
    <2>8. /\ LastNamed(v, "multicast_id", d1) = n1 /\ LastNamed(v, "success", d2) = n2
          /\ LastNamed(v, "failure", d2) = n3 /\ LastNamed(v, "canonical_ids", d2) = n4
      BY <2>5 DEF OneNamed
    <2>9. /\ r.multicast_id = GetInt64(n1) /\ r.success = GetUint64(n2) /\ r.failure = GetUint64(n3)
          /\ r.canonical_ids = GetUint64(n4) /\ r.results = Entries(v)
      BY <1>1, <2>7, <2>8 DEF GcmResponse
    <2>10. /\ Len(r.results) = Len(a.results)
           /\ \A i \in DOMAIN a.results : r.results[i] = Entry(EntryOf(a.results[i]))
      BY <2>2, <2>5, <2>9, EntriesFound
    <2>11. PICK R : R = EntryType
      OBVIOUS
    <2>12. a.results \in Seq(R)
      BY <2>11 DEF ServerAnswer, EntryType
    <2>13. \A i \in DOMAIN a.results : a.results[i] \in R
      BY <2>12
    <2>14. ASSUME NEW i \in DOMAIN a.results
           PROVE  /\ ~EntryThrows(EntryOf(a.results[i]))
                  /\ r.results[i].message_id = a.results[i].message_id
                  /\ r.results[i].registration_id = a.results[i].registration_id
                  /\ (r.results[i].status = "successful") <=> (a.results[i].error = <<>>)
      <3>1. PICK e \in EntryType : e = a.results[i]
        BY <2>11, <2>13
      <3> QED
        BY <2>10, <3>1, EntryFound
    <2>15. ~ResponseThrows(v)
      <3>1. Type(v) = "obj"
        BY <2>4 DEF Type, IsUint64
      <3>2. \A f \in Counts : \A i \in Named(v, f) : Type(v[2][i][2]) = "int"
        BY <2>5, <2>6 DEF Counts, OneNamed
      <3>3. es[1] = "arr" /\ DOMAIN es[2] = DOMAIN a.results
            /\ \A i \in DOMAIN a.results : es[2][i] = EntryOf(a.results[i])
        BY <2>2 DEF Arr
      <3>4. ASSUME NEW i \in Named(v, "results")
            PROVE  /\ Type(v[2][i][2]) = "arr"
                   /\ \A j \in DOMAIN v[2][i][2][2] : ~EntryThrows(v[2][i][2][2][j])
        <4>1. v[2][i][2] = es
          BY <2>5 DEF OneNamed
        <4>2. Type(es) = "arr"
          BY <3>3 DEF Type, IsUint64
        <4> QED
          BY <2>14, <3>3, <4>1, <4>2
      <3> QED
        BY <3>1, <3>2, <3>4 DEF ResponseThrows
    <2> QED
      BY <2>6, <2>9, <2>10, <2>14, <2>15
  <1>2. StringInv /\ WrittenInv => AnswerUnderstood
    <2> SUFFICES ASSUME StringInv, WrittenInv, doc.kind = "answer", outcome = "done"
                 PROVE  AnswerUnderstood
      BY DEF AnswerUnderstood
    <2>1. doc \in Documents /\ value = Meant(doc)
      BY MeantIsRead
    <2>2. PICK a \in ServerAnswer : a = doc.answer
      BY <2>1, DocumentsAssumption
    <2>3. PICK ms : ms = AnswerRead(a)
      OBVIOUS
    <2>4. PICK rs : rs = IF doc.reversed THEN Reverse(ms) ELSE ms
      OBVIOUS
    <2>5. value = Obj(rs)
      BY <2>1, <2>2, <2>3, <2>4 DEF Meant
    <2>6. rs = ms \/ rs = Reverse(ms)
      BY <2>4
    <2>7. PICK r : r = GcmResponse(value)
      OBVIOUS
    <2> QED
      BY <1>1, <2>2, <2>3, <2>5, <2>6, <2>7 DEF AnswerUnderstood
  <1> QED
    BY <1>2, StringInvariant, WrittenInvariant, PTL

-----------------------------------------------------------------------------
\* Of any text, to the end of the module.  A text of the grammar is written of
\* a value, so that it is read to its end (TextIsWritten and ValueStands), and
\* what is refused is no beginning of one.  The other way, a text that has been
\* read is of the grammar: it is sound, as what may follow where the grammar
\* stands makes a text of it (Sound and AcceptKeepsSound).

\* The rows of the grammar.
GrammarRow(g, n, m) ==
    IF m = 0 THEN [texts |-> {}, elements |-> {<<>>}, pairs |-> {<<>>}]
    ELSE IF m < n THEN g[m]
    ELSE [texts |-> TextRow(g, n), elements |-> ElementRow(g, n), pairs |-> PairRow(g, n)]
GrammarStep(g, n) == [m \in 0..n |-> GrammarRow(g, n, m)]
IsGrammar(h, n) == h = [k \in 0..n |-> GrammarStep(h[k - 1], k)]

LEMMA GrammarExists == \A n \in Nat : \E h : IsGrammar(h, n)
  <1> DEFINE T == {n \in Nat : \E h : IsGrammar(h, n)}
  <1>1. \A g, h : GrammarStep(g, 0) = GrammarStep(h, 0)
    <2> TAKE g, h
    <2>1. \A m \in 0..0 : GrammarRow(g, 0, m) = GrammarRow(h, 0, m)
      BY DEF GrammarRow
    <2> QED
      BY <2>1 DEF GrammarStep
  <1>2. 0 \in T
    <2> DEFINE h == [k \in 0..0 |-> GrammarStep(<<>>, 0)]
    <2>1. \A k \in 0..0 : h[k] = GrammarStep(<<>>, 0) /\ k = 0
      OBVIOUS
    <2>2. h = [k \in 0..0 |-> h[k]]
      OBVIOUS
    <2> HIDE DEF h
    <2>3. \A k \in 0..0 : h[k] = GrammarStep(h[k - 1], k)
      BY <1>1, <2>1
    <2>4. IsGrammar(h, 0)
      BY <2>2, <2>3 DEF IsGrammar
    <2> QED
      BY <2>4
  <1>3. ASSUME NEW n \in Nat, n \in T
        PROVE  n + 1 \in T
    <2>1. PICK g : IsGrammar(g, n)
      BY <1>3
    <2>2. \A k \in 0..n : g[k] = GrammarStep(g[k - 1], k)
      BY <2>1 DEF IsGrammar
    <2> DEFINE h == [k \in 0..(n + 1) |-> IF k = n + 1 THEN GrammarStep(g[n], n + 1) ELSE g[k]]
    <2>3. \A k \in 0..n : h[k] = g[k]
      OBVIOUS
    <2>4. h[n + 1] = GrammarStep(g[n], n + 1)
      OBVIOUS
    <2>5. h = [k \in 0..(n + 1) |-> h[k]]
      OBVIOUS
    <2> HIDE DEF h
    <2>6. ASSUME NEW k \in 0..(n + 1)
          PROVE  h[k] = GrammarStep(h[k - 1], k)
      <3>1. CASE k = n + 1
        <4>1. k - 1 = n /\ n \in 0..n
          BY <3>1
        <4>2. h[k - 1] = g[n]
          BY <2>3, <4>1
        <4> QED
          BY <2>4, <3>1, <4>1, <4>2
      <3>2. CASE k = 0
        <4>1. 0 \in 0..n
          OBVIOUS
        <4>2. h[0] = GrammarStep(g[0 - 1], 0)
          BY <2>2, <2>3, <4>1
        <4> QED
          BY <1>1, <3>2, <4>2
      <3>3. CASE k \in 1..n
        <4>1. k - 1 \in 0..n /\ k \in 0..n
          BY <3>3
        <4>2. h[k - 1] = g[k - 1]
          BY <2>3, <4>1
        <4> QED
          BY <2>2, <2>3, <4>1, <4>2
      <3> QED
        BY <3>1, <3>2, <3>3
    <2>7. IsGrammar(h, n + 1)
      BY <2>5, <2>6 DEF IsGrammar
    <2> QED
      BY <2>7
  <1> HIDE DEF T
  <1>4. Nat \subseteq T
    BY <1>2, <1>3, SetInduction
  <1> QED
    BY <1>4 DEF T

\* The bound alone.
LEMMA TokensBound == MaxTokens \in Nat /\ MaxTokens <= 2 * MaxNesting + 1
  BY ONLY TokensAssumption DEF TokensAssumption

\* Grammar is the function that its rows make.
LEMMA GrammarUnfold ==
    \A n \in 0..MaxTokens : Grammar[n] = GrammarStep(Grammar[n - 1], n)
  <1>1. Grammar = CHOOSE h : h = [n \in 0..MaxTokens |->
          LET g == h[n - 1]
              row(m) ==
                IF m = 0 THEN [texts |-> {}, elements |-> {<<>>}, pairs |-> {<<>>}]
                ELSE IF m < n THEN g[m]
                ELSE [texts |-> TextRow(g, n), elements |-> ElementRow(g, n), pairs |-> PairRow(g, n)]
          IN  [m \in 0..n |-> row(m)]]
    BY DEF Grammar
  <1>2. Grammar = CHOOSE h : IsGrammar(h, MaxTokens)
    BY <1>1 DEF IsGrammar, GrammarStep, GrammarRow
  <1>3. IsGrammar(Grammar, MaxTokens)
    BY <1>2, GrammarExists, TokensBound
  <1> QED
    BY <1>3 DEF IsGrammar

\* The last one, which has them all.
Rows == Grammar[MaxTokens]

\* A row, once there, stays.
LEMMA RowsStay ==
    \A n \in 0..MaxTokens : \A m \in 0..n : Grammar[n][m] = Rows[m]
  <1>1. \A n \in 0..MaxTokens : \A m \in 0..n : Grammar[n][m] = GrammarRow(Grammar[n - 1], n, m)
    BY GrammarUnfold DEF GrammarStep
  <1>2. ASSUME NEW n \in 1..MaxTokens, NEW m \in 0..(n - 1)
        PROVE  Grammar[n][m] = Grammar[n - 1][m]
    <2>1. n \in 0..MaxTokens /\ n - 1 \in 0..MaxTokens /\ m \in 0..n
      BY TokensBound
    <2>2. Grammar[n][m] = GrammarRow(Grammar[n - 1], n, m)
      BY <1>1, <2>1
    <2>3. CASE m = 0
      <3>1. Grammar[n - 1][m] = GrammarRow(Grammar[(n - 1) - 1], n - 1, m)
        BY <1>1, <2>1
      <3> QED
        BY <2>2, <2>3, <3>1 DEF GrammarRow
    <2>4. CASE m # 0
      <3>1. m < n
        OBVIOUS
      <3> QED
        BY <2>2, <2>4, <3>1 DEF GrammarRow
    <2> QED
      BY <2>3, <2>4
  <1> DEFINE T == {d \in Nat : \A n \in 0..MaxTokens : n + d \in 0..MaxTokens =>
                                  \A m \in 0..n : Grammar[n + d][m] = Grammar[n][m]}
  <1>3. 0 \in T
    OBVIOUS
  <1>4. ASSUME NEW d \in Nat, d \in T
        PROVE  d + 1 \in T
    <2> SUFFICES ASSUME NEW n \in 0..MaxTokens, n + (d + 1) \in 0..MaxTokens, NEW m \in 0..n
                 PROVE  Grammar[n + (d + 1)][m] = Grammar[n][m]
      OBVIOUS
    <2>1. PICK k : k = n + (d + 1)
      OBVIOUS
    <2>2. k \in 1..MaxTokens /\ k - 1 = n + d /\ m \in 0..(k - 1) /\ n + d \in 0..MaxTokens
      BY <2>1, TokensBound
    <2>3. Grammar[k][m] = Grammar[n + d][m]
      BY <1>2, <2>2
    <2> QED
      BY <1>4, <2>1, <2>2, <2>3
  <1> HIDE DEF T
  <1>5. Nat \subseteq T
    BY <1>3, <1>4, SetInduction
  <1>6. ASSUME NEW n \in 0..MaxTokens, NEW m \in 0..n
        PROVE  Grammar[n][m] = Rows[m]
    <2>1. PICK d \in Nat : n + d = MaxTokens
      <3>1. MaxTokens - n \in Nat /\ n + (MaxTokens - n) = MaxTokens
        BY TokensBound
      <3> QED
        BY <3>1
    <2>2. n + d \in 0..MaxTokens /\ d \in T
      BY <1>5, <2>1, TokensBound
    <2> QED
      BY <2>1, <2>2 DEF T, Rows
  <1> QED
    BY <1>6


\* What is in a row, by the rows before.
Between2(a, s, b) == Cat(Cat(<<a>>, s), <<b>>)
Comma(s, t)       == Cat(Cat(s, <<Mark(",")>>), t)
NameAnd(x, t)     == Cat(<<x, Mark(":")>>, t)
Names             == {x \in Tokens : x[1] = "quoted"}

IsTextOf(g, n, w) ==
    IF n = 1 THEN \E t \in Tokens : IsScalar(t) /\ w = <<t>>
    ELSE \/ \E e \in g[n - 2].elements : w = Between2(Mark("["), e, Mark("]"))
         \/ \E e \in g[n - 2].pairs : w = Between2(Mark("{"), e, Mark("}"))
AreElementsOf(g, n, w) ==
    \/ IsTextOf(g, n, w)
    \/ \E m \in 1..(n - 2) : \E t \in g[m].texts : \E e \in g[n - 1 - m].elements : w = Comma(t, e)
IsPairOf(g, m, w) == \E x \in Names : \E t \in g[m - 2].texts : w = NameAnd(x, t)
ArePairsOf(g, n, w) ==
    n >= 3 /\ \/ IsPairOf(g, n, w)
              \/ \E m \in 3..(n - 2) : \E p : IsPairOf(g, m, p) /\ \E q \in g[n - 1 - m].pairs : w = Comma(p, q)

LEMMA TextRowIs == \A g, n, w : w \in TextRow(g, n) <=> IsTextOf(g, n, w)
  <1> TAKE g, n, w
  <1>1. \A e : <<Mark("[")>> \o e \o <<Mark("]")>> = Between2(Mark("["), e, Mark("]"))
    BY Zenon DEF Between2, Cat
  <1>2. \A e : <<Mark("{")>> \o e \o <<Mark("}")>> = Between2(Mark("{"), e, Mark("}"))
    BY Zenon DEF Between2, Cat
  <1>3. TextRow(g, n) =
          IF n = 1 THEN {<<t>> : t \in {x \in Tokens : IsScalar(x)}}
          ELSE {Between2(Mark("["), e, Mark("]")) : e \in g[n - 2].elements}
                 \cup {Between2(Mark("{"), e, Mark("}")) : e \in g[n - 2].pairs}
    BY <1>1, <1>2, Zenon DEF TextRow
  <1> QED
    BY <1>3, Zenon DEF IsTextOf

\* Sets of what is made of the elements of two.
CommaSet(T, E) == {t \o <<Mark(",")>> \o e : t \in T, e \in E}
NameSet(X, T)  == {<<x, Mark(":")>> \o t : x \in X, t \in T}

LEMMA CommaSetIs == \A T, E, w : w \in CommaSet(T, E) <=> \E t \in T : \E e \in E : w = Comma(t, e)
  <1> TAKE T, E, w
  <1>1. CommaSet(T, E) = {Comma(t, e) : t \in T, e \in E}
    BY DEF CommaSet, Comma, Cat
  <1> QED
    BY <1>1

LEMMA NameSetIs == \A X, T, w : w \in NameSet(X, T) <=> \E x \in X : \E t \in T : w = NameAnd(x, t)
  <1> TAKE X, T, w
  <1>1. NameSet(X, T) = {NameAnd(x, t) : x \in X, t \in T}
    BY DEF NameSet, NameAnd, Cat
  <1> QED
    BY <1>1

LEMMA ElementRowIs == \A g, n, w : w \in ElementRow(g, n) <=> AreElementsOf(g, n, w)
  <1> TAKE g, n, w
  <1>1. ElementRow(g, n) = TextRow(g, n) \cup UNION {CommaSet(g[m].texts, g[n - 1 - m].elements) : m \in 1..(n - 2)}
    BY DEF ElementRow, CommaSet
  <1>2. w \in ElementRow(g, n) <=>
          \/ w \in TextRow(g, n)
          \/ \E m \in 1..(n - 2) : w \in CommaSet(g[m].texts, g[n - 1 - m].elements)
    BY <1>1, Zenon
  <1> QED
    BY <1>2, CommaSetIs, TextRowIs DEF AreElementsOf

LEMMA PairRowIs == \A g, w : \A n \in Nat : w \in PairRow(g, n) <=> ArePairsOf(g, n, w)
  <1> TAKE g, w
  <1> TAKE n \in Nat
  <1> DEFINE pair(m) == NameSet(Names, g[m - 2].texts)
             more(m) == CommaSet(pair(m), g[n - 1 - m].pairs)
  <1>1. PairRow(g, n) = IF n < 3 THEN {} ELSE pair(n) \cup UNION {more(m) : m \in 3..(n - 2)}
    BY DEF PairRow, CommaSet, NameSet, Names
  <1>2. \A m, u : u \in pair(m) <=> IsPairOf(g, m, u)
    BY NameSetIs DEF IsPairOf
  <1> HIDE DEF pair
  <1>3. \A m : w \in more(m) <=> \E p \in pair(m) : \E q \in g[n - 1 - m].pairs : w = Comma(p, q)
    BY CommaSetIs
  <1> HIDE DEF more
  <1>4. w \in PairRow(g, n) <=> ~(n < 3) /\ (w \in pair(n) \/ \E m \in 3..(n - 2) : w \in more(m))
    BY <1>1
  <1>5. ~(n < 3) <=> n >= 3
    OBVIOUS
  <1> QED
    BY <1>2, <1>3, <1>4, <1>5, Zenon DEF ArePairsOf

\* What is in each of the rows, by those before.
LEMMA RowsAre ==
    /\ \A w : w \notin Rows[0].texts
    /\ \A w : w \in Rows[0].elements <=> w = <<>>
    /\ \A w : w \in Rows[0].pairs <=> w = <<>>
    /\ \A n \in 1..MaxTokens : \A w : /\ w \in Rows[n].texts <=> IsTextOf(Rows, n, w)
                                      /\ w \in Rows[n].elements <=> AreElementsOf(Rows, n, w)
                                      /\ w \in Rows[n].pairs <=> ArePairsOf(Rows, n, w)
  <1>1. \A n \in 0..MaxTokens : \A m \in 0..n : Grammar[n][m] = GrammarRow(Grammar[n - 1], n, m)
    BY GrammarUnfold DEF GrammarStep
  <1>2. MaxTokens \in 0..MaxTokens /\ 0 \in 0..MaxTokens
    BY TokensBound
  <1>3. Rows[0] = [texts |-> {}, elements |-> {<<>>}, pairs |-> {<<>>}]
    <2>1. \A g, n : GrammarRow(g, n, 0) = [texts |-> {}, elements |-> {<<>>}, pairs |-> {<<>>}]
      BY DEF GrammarRow
    <2>2. Grammar[MaxTokens][0] = GrammarRow(Grammar[MaxTokens - 1], MaxTokens, 0)
      BY <1>1, <1>2
    <2> QED
      BY <2>1, <2>2 DEF Rows
  <1>4. ASSUME NEW n \in 1..MaxTokens, NEW w
        PROVE  /\ w \in Rows[n].texts <=> IsTextOf(Rows, n, w)
               /\ w \in Rows[n].elements <=> AreElementsOf(Rows, n, w)
               /\ w \in Rows[n].pairs <=> ArePairsOf(Rows, n, w)
    <2>1. n \in 0..MaxTokens /\ n - 1 \in 0..MaxTokens /\ n \in 0..n /\ n # 0 /\ ~(n < n) /\ n \in Nat
      BY TokensBound
    <2>2. PICK g : g = Grammar[n - 1]
      OBVIOUS
    <2>3. Rows[n] = GrammarRow(g, n, n)
      BY <1>1, <2>1, <2>2, RowsStay
    <2>4. \A m \in 0..(n - 1) : g[m] = Rows[m]
      BY <2>1, <2>2, RowsStay
    <2>5. Rows[n] = [texts |-> TextRow(g, n), elements |-> ElementRow(g, n), pairs |-> PairRow(g, n)]
      BY <2>1, <2>3 DEF GrammarRow
    <2>6. IsTextOf(g, n, w) <=> IsTextOf(Rows, n, w)
      <3>1. n # 1 => n - 2 \in 0..(n - 1)
        OBVIOUS
      <3>2. n # 1 => g[n - 2] = Rows[n - 2]
        BY <2>4, <3>1
      <3> QED
        BY <3>2, Zenon DEF IsTextOf
    <2>7. \A m \in 1..(n - 2) : g[m] = Rows[m] /\ g[n - 1 - m] = Rows[n - 1 - m]
      <3> TAKE m \in 1..(n - 2)
      <3>1. m \in 0..(n - 1) /\ n - 1 - m \in 0..(n - 1)
        OBVIOUS
      <3> QED
        BY <2>4, <3>1
    <2>8. AreElementsOf(g, n, w) <=> AreElementsOf(Rows, n, w)
      BY <2>6, <2>7, Zenon DEF AreElementsOf
    <2>9. \A m \in 3..(n - 2) : g[m - 2] = Rows[m - 2] /\ g[n - 1 - m] = Rows[n - 1 - m]
      <3> TAKE m \in 3..(n - 2)
      <3>1. m - 2 \in 0..(n - 1) /\ n - 1 - m \in 0..(n - 1)
        OBVIOUS
      <3> QED
        BY <2>4, <3>1
    <2>10. n >= 3 => g[n - 2] = Rows[n - 2]
      <3>1. n >= 3 => n - 2 \in 0..(n - 1)
        OBVIOUS
      <3> QED
        BY <2>4, <3>1
    <2>11. n >= 3 => \A u : IsPairOf(g, n, u) <=> IsPairOf(Rows, n, u)
      BY <2>10, Zenon DEF IsPairOf
    <2>12. \A m \in 3..(n - 2) : \A u : IsPairOf(g, m, u) <=> IsPairOf(Rows, m, u)
      BY <2>9, Zenon DEF IsPairOf
    <2>13. ArePairsOf(g, n, w) <=> ArePairsOf(Rows, n, w)
      BY <2>9, <2>11, <2>12, Zenon DEF ArePairsOf
    <2> QED
      BY <2>1, <2>5, <2>6, <2>8, <2>13, TextRowIs, ElementRowIs, PairRowIs
  <1> QED
    BY <1>3, <1>4

-----------------------------------------------------------------------------
\* The reader is deterministic.
LEMMA AlongSame ==
    ASSUME NEW ts, Len(ts) \in Nat, NEW r, NEW f, NEW q, Along(f, ts, r, q), NEW g, NEW s, Along(g, ts, r, s)
    PROVE  q = s
  <1>1. PICK n \in Nat : n = Len(ts)
    OBVIOUS
  <1>2. f[0] = r /\ f[n] = q /\ \A i \in 1..n : f[i] = After(f[i - 1], ts[i])
    BY <1>1 DEF Along, Takes
  <1>3. g[0] = r /\ g[n] = s /\ \A i \in 1..n : g[i] = After(g[i - 1], ts[i])
    BY <1>1 DEF Along, Takes
  <1> DEFINE T == {i \in Nat : i \in 0..n => f[i] = g[i]}
  <1>4. 0 \in T
    BY <1>2, <1>3
  <1>5. ASSUME NEW i \in Nat, i \in T
        PROVE  i + 1 \in T
    <2> SUFFICES ASSUME i + 1 \in 0..n
                 PROVE  f[i + 1] = g[i + 1]
      OBVIOUS
    <2>1. PICK k \in 1..n : k = i + 1
      OBVIOUS
    <2>2. k - 1 = i /\ i \in 0..n
      BY <2>1
    <2>3. f[i] = g[i]
      BY <1>5, <2>2
    <2> QED
      BY <1>2, <1>3, <2>1, <2>2, <2>3
  <1> HIDE DEF T
  <1>6. Nat \subseteq T
    BY <1>4, <1>5, SetInduction
  <1>7. n \in T /\ n \in 0..n
    BY <1>6
  <1> QED
    BY <1>2, <1>3, <1>7 DEF T

\* One text brings it from one state to one.
LEMMA ReadsSame ==
    ASSUME NEW S, NEW ts \in Seq(S), NEW r, NEW q, NEW s, Reads(r, ts, q), Reads(r, ts, s)
    PROVE  q = s
  <1>1. PICK f : Along(f, ts, r, q)
    BY DEF Reads
  <1>2. PICK g : Along(g, ts, r, s)
    BY DEF Reads
  <1>3. Len(ts) \in Nat
    OBVIOUS
  <1> QED
    BY <1>1, <1>2, <1>3, AlongSame

\* One part after the other.
LEMMA ReadsParts ==
    ASSUME NEW S, NEW ts \in Seq(S), NEW us \in Seq(S), NEW r, NEW q, Reads(r, Cat(ts, us), q)
    PROVE  \E s : Reads(r, ts, s) /\ Reads(s, us, q)
  <1>1. PICK vs : vs = Cat(ts, us)
    OBVIOUS
  <1>2. PICK m \in Nat : m = Len(ts)
    OBVIOUS
  <1>3. PICK n \in Nat : n = Len(us)
    OBVIOUS
  <1>4. /\ Len(vs) = m + n
        /\ \A i \in 1..m : vs[i] = ts[i]
        /\ \A i \in 1..n : vs[m + i] = us[i]
    BY <1>1, <1>2, <1>3 DEF Cat
  <1>5. PICK f : Along(f, vs, r, q)
    BY <1>1 DEF Reads
  <1>6. f[0] = r /\ f[m + n] = q /\ \A i \in 1..(m + n) : Takes(f[i - 1], vs[i], f[i])
    BY <1>4, <1>5 DEF Along
  <1>7. ASSUME NEW i \in 1..m
        PROVE  Takes(f[i - 1], ts[i], f[i])
    <2>1. i \in 1..(m + n)
      OBVIOUS
    <2> QED
      BY <1>4, <1>6, <2>1
  <1>8. Reads(r, ts, f[m])
    BY <1>2, <1>6, <1>7 DEF Reads, Along
  <1> DEFINE g == [i \in 0..n |-> f[m + i]]
  <1>9. \A i \in 0..n : g[i] = f[m + i]
    OBVIOUS
  <1>10. g[0] = f[m] /\ g[n] = q
    <2>1. 0 \in 0..n /\ n \in 0..n /\ m + 0 = m
      OBVIOUS
    <2> QED
      BY <1>6, <2>1
  <1> HIDE DEF g
  <1>11. ASSUME NEW i \in 1..n
         PROVE  Takes(g[i - 1], us[i], g[i])
    <2>1. PICK k \in 1..(m + n) : k = m + i
      OBVIOUS
    <2>2. i - 1 \in 0..n /\ i \in 0..n /\ m + (i - 1) = k - 1
      BY <2>1
    <2>3. g[i - 1] = f[k - 1] /\ g[i] = f[k] /\ vs[k] = us[i]
      BY <1>4, <1>9, <2>1, <2>2
    <2> QED
      BY <1>6, <2>3
  <1>12. Reads(f[m], us, q)
    BY <1>3, <1>10, <1>11 DEF Reads, Along
  <1> QED
    BY <1>8, <1>12

-----------------------------------------------------------------------------
\* The tokens of a text are those that are written.
Alphabet == Symbols(PlainOptions)

\* The kinds of tokens, one beside the other.
LEMMA TokenIs ==
    ASSUME NEW t \in Tokens
    PROVE  \/ t \in {Mark(c) : c \in {"{", "}", "[", "]", ":", ","}}
           \/ t \in {Word(w) : w \in {"true", "false", "null"}}
           \/ t \in {RealNumber(x) : x \in Real}
           \/ t[2] \in Int /\ t = Number(t[2])
           \/ GetStr(t[2]) \in Seq(Nat) /\ t = Quoted(AddEscChars(GetStr(t[2]), PlainOptions))
  <1>1. (CASE t[1] = "mark" -> t \in {Mark(c) : c \in {"{", "}", "[", "]", ":", ","}}
          [] t[1] = "word"   -> t \in {Word(w) : w \in {"true", "false", "null"}}
          [] t[1] = "real"   -> t \in {RealNumber(x) : x \in Real}
          [] t[1] = "number" -> t[2] \in Int /\ t = Number(t[2])
          [] OTHER           -> /\ GetStr(t[2]) \in Seq(Nat)
                                /\ t = Quoted(AddEscChars(GetStr(t[2]), PlainOptions)))
    BY TokensAssumption DEF TokensAssumption
  <1> QED
    BY <1>1

\* The scalars that stand for a token.
LEMMA TokenWritten ==
    ASSUME NEW t \in Tokens, IsScalar(t)
    PROVE  /\ t \in Alphabet
           /\ Scalar(t) \in Scalars
           /\ (IF IsUint64(Scalar(t)) THEN NumberValue(Scalar(t)[2]) ELSE Scalar(t)) = Scalar(t)
           /\ \A level, inner : Output(Scalar(t), PlainOptions, level, inner) = <<t>>
  <1>1. CASE t \in {Mark(c) : c \in {"{", "}", "[", "]", ":", ","}}
    BY <1>1, TokenKinds
  <1>2. CASE t \in {Word(w) : w \in {"true", "false", "null"}}
    <2>1. PICK w \in {"true", "false", "null"} : t = Word(w)
      BY <1>2
    <2>2. t[1] = "word" /\ t[2] = w
      BY <2>1 DEF Word
    <2>3. t \in Alphabet
      BY <2>1, SymbolsWritten DEF Alphabet
    <2>4. CASE w = "null"
      <3>1. Scalar(t) = Null
        BY <2>2, <2>4 DEF Scalar
      <3>2. Null \in Scalars /\ Null[1] = "null"
        BY DEF Scalars, Null
      <3>3. \A level, inner : Output(Null, PlainOptions, level, inner) = <<Word("null")>>
        BY <3>2 DEF Output
      <3> QED
        BY <2>1, <2>3, <2>4, <3>1, <3>2, <3>3 DEF IsUint64
    <2>5. CASE w # "null"
      <3>1. PICK b \in BOOLEAN : b = (w = "true")
        OBVIOUS
      <3>2. Scalar(t) = BoolVal(b)
        BY <2>2, <2>5, <3>1 DEF Scalar
      <3>3. BoolVal(b) \in Scalars /\ BoolVal(b)[1] = "bool" /\ BoolVal(b)[2] = b
        BY ScalarValues DEF BoolVal
      <3>4. w = IF b THEN "true" ELSE "false"
        BY <2>5, <3>1
      <3>5. \A level, inner : Output(BoolVal(b), PlainOptions, level, inner) = <<Word(IF b THEN "true" ELSE "false")>>
        BY <3>3 DEF Output
      <3> QED
        BY <2>1, <2>3, <3>2, <3>3, <3>4, <3>5 DEF IsUint64
    <2> QED
      BY <2>4, <2>5
  <1>3. CASE t \in {RealNumber(x) : x \in Real}
    <2>1. PICK x \in Real : t = RealNumber(x)
      BY <1>3
    <2>2. t[1] = "real" /\ t[2] = x
      BY <2>1 DEF RealNumber
    <2>3. t \in Alphabet
      BY <2>1, SymbolsWritten DEF Alphabet
    <2>4. PICK v : v = <<"real", x>>
      OBVIOUS
    <2>5. Scalar(t) = v
      BY <2>2, <2>4 DEF Scalar
    <2>6. v \in Scalars /\ v[1] = "real" /\ v[2] = x
      BY <2>4 DEF Scalars
    <2>7. \A level, inner : Output(v, PlainOptions, level, inner) = <<RealNumber(x)>>
      BY <2>6 DEF Output
    <2> QED
      BY <2>1, <2>3, <2>5, <2>6, <2>7 DEF IsUint64
  <1>4. CASE t[2] \in Int /\ t = Number(t[2])
    <2>1. PICK n \in Int : n = t[2] /\ t = Number(n)
      BY <1>4
    <2>2. t[1] = "number"
      BY <2>1 DEF Number
    <2>3. n \in Int64 \cup Uint64
      BY <2>1, <2>2 DEF IsScalar
    <2>4. t \in Alphabet
      BY <2>1, <2>3, SymbolsWritten DEF Alphabet
    <2>5. Scalar(t) = NumberValue(n)
      BY <2>1, <2>2 DEF Scalar
    <2>6. CASE n \in Int64
      <3>1. PICK v : v = IntVal(n)
        OBVIOUS
      <3>2. Scalar(t) = v
        BY <2>5, <2>6, <3>1 DEF NumberValue
      <3>3. v \in Scalars /\ v[1] = "int" /\ v[2] = n
        BY <2>6, <3>1, ScalarValues DEF IntVal
      <3>4. OutputInt(v) = Number(n)
        BY <3>3 DEF OutputInt, IsUint64, GetInt64
      <3>5. \A level, inner : Output(v, PlainOptions, level, inner) = <<OutputInt(v)>>
        BY <3>3 DEF Output
      <3> QED
        BY <2>1, <2>4, <3>2, <3>3, <3>4, <3>5 DEF IsUint64
    <2>7. CASE n \notin Int64
      <3>1. PICK v : v = UintVal(n)
        OBVIOUS
      <3>2. Scalar(t) = v /\ NumberValue(n) = v
        BY <2>5, <2>7, <3>1 DEF NumberValue
      <3>3. v \in Scalars /\ v[1] = "uint" /\ v[2] = n
        BY <2>3, <2>7, <3>1, ScalarValues DEF UintVal
      <3>4. OutputInt(v) = Number(n)
        BY <3>3 DEF OutputInt, IsUint64, GetUint64
      <3>5. \A level, inner : Output(v, PlainOptions, level, inner) = <<OutputInt(v)>>
        BY <3>3 DEF Output
      <3> QED
        BY <2>1, <2>4, <3>2, <3>3, <3>4, <3>5 DEF IsUint64
    <2> QED
      BY <2>6, <2>7
  <1>5. CASE GetStr(t[2]) \in Seq(Nat) /\ t = Quoted(AddEscChars(GetStr(t[2]), PlainOptions))
    <2>1. PICK s \in Seq(Nat) : s = GetStr(t[2]) /\ t = Quoted(AddEscChars(s, PlainOptions))
      BY <1>5
    <2>2. t[1] = "quoted"
      BY <2>1 DEF Quoted
    <2>3. t \in Alphabet
      BY <2>1, SymbolsWritten DEF Alphabet
    <2>4. PICK v : v = Str(s)
      OBVIOUS
    <2>5. Scalar(t) = v
      BY <2>1, <2>2, <2>4 DEF Scalar
    <2>6. v \in Scalars /\ v[1] = "str" /\ v[2] = s
      BY <2>4, ScalarValues DEF Str
    <2>7. \A level, inner : Output(v, PlainOptions, level, inner) = <<Quoted(AddEscChars(s, PlainOptions))>>
      BY <2>6 DEF Output
    <2> QED
      BY <2>1, <2>3, <2>5, <2>6, <2>7 DEF IsUint64
  <1> QED
    BY <1>1, <1>2, <1>3, <1>4, <1>5, TokenIs

\* Told apart by their kinds.
LEMMA KindsAre ==
    /\ \A c : Mark(c)[1] = "mark"
    /\ \A w : Word(w)[1] = "word"
    /\ \A x : RealNumber(x)[1] = "real"
    /\ \A n : Number(n)[1] = "number"
    /\ \A s : Quoted(s)[1] = "quoted"
  BY DEF Mark, Word, RealNumber, Number, Quoted

LEMMA NameWritten ==
    ASSUME NEW t \in Tokens, t[1] = "quoted"
    PROVE  t \in Alphabet /\ \E s \in Seq(Nat) : t = Quoted(AddEscChars(s, PlainOptions))
  <1>1. \E s \in Seq(Nat) : t = Quoted(AddEscChars(s, PlainOptions))
    <2>1. \/ \E c : t = Mark(c)
          \/ \E w : t = Word(w)
          \/ \E x : t = RealNumber(x)
          \/ \E n : t = Number(n)
          \/ GetStr(t[2]) \in Seq(Nat) /\ t = Quoted(AddEscChars(GetStr(t[2]), PlainOptions))
      BY TokenIs
    <2> QED
      BY <2>1, KindsAre
  <1> QED
    BY <1>1, SymbolsWritten DEF Alphabet

\* None of them is a blank or the end.
LEMMA TokensOnly ==
    /\ \A t \in Tokens : t # Blank
    /\ ~IsScalar(End) /\ End # Blank /\ End[1] # "quoted" /\ \A c : End # Mark(c)
  <1>1. ASSUME NEW t \in Tokens
        PROVE  t[1] # "blank"
    <2>1. \/ \E c : t = Mark(c)
          \/ \E w : t = Word(w)
          \/ \E x : t = RealNumber(x)
          \/ \E n : t = Number(n)
          \/ \E s : t = Quoted(s)
      BY TokenIs
    <2> QED
      BY <2>1, KindsAre
  <1>2. Blank[1] = "blank" /\ End[1] = "end"
    BY DEF Blank, End
  <1>3. ~IsScalar(End) /\ \A c : End # Mark(c)
    BY <1>2, TokenKinds DEF IsScalar
  <1> QED
    BY <1>1, <1>2, <1>3

-----------------------------------------------------------------------------
\* What is in the rows are texts, of the length that the row says.
Texts == Seq(Alphabet)
OfLength(w, n) == w \in Texts /\ Len(w) = n

LEMMA LengthOf ==
    /\ OfLength(<<>>, 0)
    /\ \A t \in Alphabet : OfLength(<<t>>, 1)
    /\ \A w : \A n : OfLength(w, n) => w \in Texts /\ Len(w) = n /\ n \in Nat
    /\ \A w \in Texts : OfLength(w, Len(w))
  BY DEF OfLength, Texts

LEMMA CatLength ==
    ASSUME NEW m, NEW s, OfLength(s, m), NEW n, NEW t, OfLength(t, n)
    PROVE  OfLength(Cat(s, t), m + n)
  <1>1. PICK A : A = Alphabet
    OBVIOUS
  <1>2. s \in Seq(A) /\ t \in Seq(A) /\ Len(s) = m /\ Len(t) = n
    BY <1>1 DEF OfLength, Texts
  <1>3. s \o t \in Seq(A) /\ Len(s \o t) = m + n
    BY <1>2
  <1> QED
    BY <1>1, <1>3, Zenon DEF OfLength, Texts, Cat

LEMMA MarksInAlphabet == \A c \in {"{", "}", "[", "]", ":", ","} : Mark(c) \in Alphabet
  BY SymbolsWritten DEF Alphabet

LEMMA BetweenLength ==
    ASSUME NEW a \in Alphabet, NEW b \in Alphabet, NEW n, NEW s, OfLength(s, n)
    PROVE  OfLength(Between2(a, s, b), n + 2)
  <1>1. OfLength(Cat(<<a>>, s), 1 + n)
    BY LengthOf, CatLength, Zenon
  <1>2. OfLength(Cat(Cat(<<a>>, s), <<b>>), (1 + n) + 1)
    BY <1>1, LengthOf, CatLength, Zenon
  <1>3. (1 + n) + 1 = n + 2
    BY LengthOf
  <1> QED
    BY <1>2, <1>3, Zenon DEF Between2

LEMMA CommaLength ==
    ASSUME NEW m, NEW s, OfLength(s, m), NEW n, NEW t, OfLength(t, n)
    PROVE  OfLength(Comma(s, t), m + 1 + n)
  <1>1. Mark(",") \in Alphabet
    BY MarksInAlphabet
  <1>2. OfLength(Cat(s, <<Mark(",")>>), m + 1)
    BY <1>1, LengthOf, CatLength, Zenon
  <1> QED
    BY <1>2, CatLength, Zenon DEF Comma

LEMMA NameLength ==
    ASSUME NEW x \in Names, NEW n, NEW t, OfLength(t, n)
    PROVE  OfLength(NameAnd(x, t), 2 + n)
  <1>1. x \in Alphabet
    BY NameWritten DEF Names
  <1>2. Mark(":") \in Alphabet
    BY MarksInAlphabet
  <1>3. OfLength(<<x, Mark(":")>>, 2)
    <2>1. PICK m \in Alphabet : m = Mark(":")
      BY <1>2
    <2>2. <<x, m>> \in Seq(Alphabet) /\ Len(<<x, m>>) = 2
      BY <1>1
    <2> QED
      BY <2>1, <2>2 DEF OfLength, Texts
  <1> QED
    BY <1>3, CatLength, Zenon DEF NameAnd

InRow(n, w) == w \in Rows[n].texts \/ w \in Rows[n].elements \/ w \in Rows[n].pairs

\* By induction over the length.
LEMMA RowsTyped == \A n \in 0..MaxTokens : \A w : InRow(n, w) => OfLength(w, n)
  <1> DEFINE T == {n \in Nat : n \in 0..MaxTokens => \A w : InRow(n, w) => OfLength(w, n)}
  <1>1. ASSUME NEW n \in Nat, \A m \in 0..(n - 1) : m \in T
        PROVE  n \in T
    <2> SUFFICES ASSUME n \in 0..MaxTokens, NEW w, InRow(n, w)
                 PROVE  OfLength(w, n)
      OBVIOUS
    <2>1. CASE n = 0
      BY <2>1, RowsAre, LengthOf DEF InRow
    <2>2. CASE n # 0
      <3>1. n \in 1..MaxTokens
        BY <2>2
      <3>2. ASSUME NEW m \in 0..(n - 1), NEW u, InRow(m, u)
            PROVE  OfLength(u, m)
        <4>1. m \in 0..MaxTokens
          BY TokensBound
        <4> QED
          BY <1>1, <3>2, <4>1
      <3> HIDE DEF T
      <3>3. ASSUME IsTextOf(Rows, n, w)
            PROVE  OfLength(w, n)
        <4>1. CASE n = 1
          <5>1. PICK t \in Tokens : IsScalar(t) /\ w = <<t>>
            BY <3>3, <4>1, Zenon DEF IsTextOf
          <5> QED
            BY <4>1, <5>1, TokenWritten, LengthOf
        <4>2. CASE n # 1
          <5>1. PICK e, a, b : /\ a \in Alphabet /\ b \in Alphabet /\ InRow(n - 2, e)
                               /\ w = Between2(a, e, b)
            <6>1. Mark("[") \in Alphabet /\ Mark("]") \in Alphabet /\ Mark("{") \in Alphabet /\ Mark("}") \in Alphabet
              BY MarksInAlphabet
            <6> QED
              BY <3>3, <4>2, <6>1, Zenon DEF IsTextOf, InRow
          <5>2. n - 2 \in 0..(n - 1) /\ (n - 2) + 2 = n
            BY <3>1, <4>2
          <5>3. OfLength(e, n - 2)
            BY <3>2, <5>1, <5>2
          <5>4. OfLength(w, (n - 2) + 2)
            BY <5>1, <5>3, BetweenLength, Zenon
          <5> QED
            BY <5>2, <5>4
        <4> QED
          BY <4>1, <4>2
      <3>4. ASSUME AreElementsOf(Rows, n, w)
            PROVE  OfLength(w, n)
        <4>1. CASE IsTextOf(Rows, n, w)
          BY <3>3, <4>1
        <4>2. CASE \E m \in 1..(n - 2) : \E t \in Rows[m].texts : \E e \in Rows[n - 1 - m].elements : w = Comma(t, e)
          <5>1. PICK m, k, t, e : m \in 1..(n - 2) /\ k \in 0..(n - 1) /\ /\ k = n - 1 - m /\ InRow(m, t) /\ InRow(k, e)
                                                   /\ w = Comma(t, e)
            <6>1. PICK m \in 1..(n - 2) : \E t \in Rows[m].texts : \E e \in Rows[n - 1 - m].elements : w = Comma(t, e)
              BY <4>2
            <6>2. PICK k \in 0..(n - 1) : k = n - 1 - m
              <7>1. n - 1 - m \in 0..(n - 1)
                BY <3>1
              <7> QED
                BY <7>1
            <6> QED
              BY <6>1, <6>2 DEF InRow
          <5>2. m \in 0..(n - 1) /\ m + 1 + k = n
            BY <5>1
          <5>3. OfLength(t, m) /\ OfLength(e, k)
            BY <3>2, <5>1, <5>2
          <5>4. OfLength(w, m + 1 + k)
            BY <5>1, <5>3, CommaLength, Zenon
          <5> QED
            BY <5>2, <5>4
        <4> QED
          BY <3>4, <4>1, <4>2, Zenon DEF AreElementsOf
      <3>5. ASSUME NEW m \in 3..n, NEW p, IsPairOf(Rows, m, p)
            PROVE  OfLength(p, m)
        <4>1. PICK x \in Names, t \in Rows[m - 2].texts : p = NameAnd(x, t)
          BY <3>5, Zenon DEF IsPairOf
        <4>2. m - 2 \in 0..(n - 1) /\ 2 + (m - 2) = m
          BY <3>1
        <4>3. InRow(m - 2, t)
          BY DEF InRow
        <4>4. OfLength(t, m - 2)
          BY <3>2, <4>2, <4>3
        <4>5. OfLength(p, 2 + (m - 2))
          BY <4>1, <4>4, NameLength, Zenon
        <4> QED
          BY <4>2, <4>5
      <3>6. ASSUME ArePairsOf(Rows, n, w)
            PROVE  OfLength(w, n)
        <4>1. n >= 3
          BY <3>6, Zenon DEF ArePairsOf
        <4>2. CASE IsPairOf(Rows, n, w)
          <5>1. n \in 3..n
            BY <4>1
          <5> QED
            BY <3>5, <4>2, <5>1
        <4>3. CASE \E m \in 3..(n - 2) : \E p : IsPairOf(Rows, m, p) /\ \E q \in Rows[n - 1 - m].pairs : w = Comma(p, q)
          <5>1. PICK m, p, q : m \in 3..(n - 2) /\ IsPairOf(Rows, m, p) /\ q \in Rows[n - 1 - m].pairs /\ w = Comma(p, q)
            BY <4>3, Zenon
          <5>2. PICK k \in 0..(n - 1) : k = n - 1 - m
            <6>1. n - 1 - m \in 0..(n - 1)
              BY <3>1, <5>1
            <6> QED
              BY <6>1
          <5>3. m \in 3..n /\ m + 1 + k = n
            BY <5>1, <5>2
          <5>4. OfLength(p, m)
            BY <3>5, <5>1, <5>3
          <5>5. InRow(k, q)
            BY <5>1, <5>2 DEF InRow
          <5>6. OfLength(q, k)
            BY <3>2, <5>5
          <5>7. OfLength(w, m + 1 + k)
            BY <5>1, <5>4, <5>6, CommaLength, Zenon
          <5> QED
            BY <5>3, <5>7
        <4> QED
          BY <3>6, <4>2, <4>3, Zenon DEF ArePairsOf
      <3>7. IsTextOf(Rows, n, w) \/ AreElementsOf(Rows, n, w) \/ ArePairsOf(Rows, n, w)
        BY <3>1, RowsAre DEF InRow
      <3> QED
        BY <3>3, <3>4, <3>6, <3>7
    <2> QED
      BY <2>1, <2>2
  <1> HIDE DEF T
  <1>2. Nat \subseteq T
    BY <1>1, SetStrongInduction
  <1>3. \A n \in 0..MaxTokens : n \in T
    BY <1>2, TokensBound
  <1> QED
    BY <1>3 DEF T

-----------------------------------------------------------------------------
\* One text in front of others.
LEMMA CatAssociates ==
    ASSUME NEW S, NEW s \in Seq(S), NEW t \in Seq(S), NEW u \in Seq(S)
    PROVE  Cat(Cat(s, t), u) = Cat(s, Cat(t, u))
  BY DEF Cat

\* A sequence led by an element.
Leads(R, v, vs, n, ys) ==
    /\ ys \in Seq(R) /\ Len(ys) = n + 1 /\ n \in Nat
    /\ ys[1] = v /\ \A k \in 1..n : ys[k + 1] = vs[k]

LEMMA ConsIs ==
    ASSUME NEW R, NEW v \in R, NEW vs \in Seq(R), NEW n, n = Len(vs), NEW ys, ys = Cat(<<v>>, vs)
    PROVE  Leads(R, v, vs, n, ys)
  BY DEF Cat, Leads

\* The first text, and then the others.
LEMMA FlattenCons ==
    ASSUME NEW S, NEW u \in Seq(S), NEW us \in Seq(Seq(S))
    PROVE  FlattenSeq(Cat(<<u>>, us)) = Cat(u, FlattenSeq(us))
  <1>1. PICK R : R = Seq(S)
    OBVIOUS
  <1>2. PICK vs : vs = Cat(<<u>>, us)
    OBVIOUS
  <1>3. us \in Seq(R) /\ u \in R
    BY <1>1, Zenon
  <1>4. /\ vs \in Seq(R) /\ Len(vs) = Len(us) + 1 /\ Len(us) \in Nat
        /\ vs[1] = u /\ \A k \in 1..Len(us) : vs[k + 1] = us[k]
    <2>1. PICK m : m = Len(us)
      OBVIOUS
    <2>2. Leads(R, u, us, m, vs)
      BY <1>2, <1>3, <2>1, ConsIs, Zenon
    <2> QED
      BY ONLY <2>1, <2>2 DEF Leads
  <1>5. vs \in Seq(Seq(S))
    BY <1>1, <1>4, Zenon
  <1>6. PICK n \in Nat : n = Len(us)
    BY <1>4
  <1> DEFINE T == {k \in Nat : k \in 0..n =>
                     FlattenSeq(SubSeq(vs, 1, k + 1)) = Cat(u, FlattenSeq(SubSeq(us, 1, k)))}
  <1>7. 0 \in T
    <2>1. 1 \in 1..Len(vs) /\ 1 - 1 = 0 /\ 0 + 1 = 1
      BY <1>4
    <2>2. FlattenSeq(SubSeq(vs, 1, 1)) = Cat(FlattenSeq(SubSeq(vs, 1, 0)), vs[1])
      BY <1>5, <2>1, FlattenStep
    <2>3. SubSeq(vs, 1, 0) = <<>> /\ SubSeq(us, 1, 0) = <<>>
      BY <1>3, <1>4, Beginnings, Zenon
    <2>4. Cat(<<>>, u) = u /\ Cat(u, <<>>) = u
      BY CatEmpty
    <2>5. FlattenSeq(SubSeq(vs, 1, 1)) = Cat(u, FlattenSeq(SubSeq(us, 1, 0)))
      BY <1>4, <2>2, <2>3, <2>4, FlattenEmpty, Zenon
    <2> QED
      BY <2>1, <2>5
  <1>8. ASSUME NEW k \in Nat, k \in T
        PROVE  k + 1 \in T
    <2> SUFFICES ASSUME k + 1 \in 0..n
                 PROVE  FlattenSeq(SubSeq(vs, 1, (k + 1) + 1)) = Cat(u, FlattenSeq(SubSeq(us, 1, k + 1)))
      OBVIOUS
    <2>1. PICK i \in 1..Len(us) : i = k + 1
      BY <1>6
    <2>2. PICK j \in 1..Len(vs) : j = i + 1
      BY <1>4
    <2>3. i - 1 = k /\ j - 1 = i /\ k \in 0..n
      BY <2>1, <2>2
    <2>4. FlattenSeq(SubSeq(vs, 1, j)) = Cat(FlattenSeq(SubSeq(vs, 1, i)), vs[j])
      BY <1>5, <2>3, FlattenStep
    <2>5. FlattenSeq(SubSeq(us, 1, i)) = Cat(FlattenSeq(SubSeq(us, 1, k)), us[i])
      BY <2>3, FlattenStep
    <2>6. vs[j] = us[i] /\ us[i] \in Seq(S)
      BY <1>1, <1>3, <1>4, <2>2
    <2>7. FlattenSeq(SubSeq(us, 1, k)) \in Seq(S)
      <3>1. SubSeq(us, 1, k) \in Seq(R)
        BY <1>3, <1>6, <2>3, Beginnings
      <3> QED
        BY <1>1, <3>1, FlattenType
    <2>8. FlattenSeq(SubSeq(vs, 1, i)) = Cat(u, FlattenSeq(SubSeq(us, 1, k)))
      BY <1>8, <2>1, <2>3
    <2>9. Cat(Cat(u, FlattenSeq(SubSeq(us, 1, k))), us[i]) = Cat(u, Cat(FlattenSeq(SubSeq(us, 1, k)), us[i]))
      BY <2>6, <2>7, CatAssociates
    <2>10. FlattenSeq(SubSeq(vs, 1, j)) = Cat(u, FlattenSeq(SubSeq(us, 1, i)))
      BY <2>4, <2>5, <2>6, <2>8, <2>9, Zenon
    <2> QED
      BY <2>1, <2>2, <2>10
  <1> HIDE DEF T
  <1>9. Nat \subseteq T
    BY <1>7, <1>8, SetInduction
  <1>10. n \in T /\ n \in 0..n /\ n + 1 = Len(vs)
    BY <1>4, <1>6, <1>9
  <1>11. FlattenSeq(SubSeq(vs, 1, Len(vs))) = Cat(u, FlattenSeq(SubSeq(us, 1, Len(us))))
    BY <1>6, <1>10 DEF T
  <1>12. SubSeq(vs, 1, Len(vs)) = vs /\ SubSeq(us, 1, Len(us)) = us
    BY <1>3, <1>4, Beginnings, Zenon
  <1> QED
    BY <1>2, <1>11, <1>12, Zenon

\* Texts with commas between them.
Joined(ts) == FlattenSeq(Items(ts))

LEMMA JoinedNone == Joined(<<>>) = <<>>
  <1>1. Items(<<>>) = <<>>
    BY DEF Items
  <1> QED
    BY <1>1, FlattenEmpty DEF Joined

LEMMA JoinedOne ==
    ASSUME NEW S, NEW u \in Seq(S)
    PROVE  Joined(<<u>>) = u
  <1>1. PICK ts : ts = <<u>>
    OBVIOUS
  <1>2. DOMAIN ts = 1..1 /\ Len(ts) = 1 /\ ts[1] = u
    BY <1>1
  <1>3. \A i \in 1..1 : i = 1 /\ ~(i < Len(ts))
    BY <1>2
  <1>4. Items(ts) = [i \in 1..1 |-> ts[i]]
    BY <1>2, <1>3 DEF Items
  <1>5. [i \in 1..1 |-> ts[i]] = <<u>>
    BY <1>1
  <1>6. FlattenSeq(<<u>>) = u
    <2>1. <<>> \in Seq(Seq(S)) /\ Cat(<<u>>, <<>>) = <<u>>
      BY DEF Cat
    <2>2. FlattenSeq(Cat(<<u>>, <<>>)) = Cat(u, FlattenSeq(<<>>))
      BY <2>1, FlattenCons, Zenon
    <2> QED
      BY <2>1, <2>2, FlattenEmpty, CatEmpty, Zenon
  <1> QED
    BY <1>1, <1>4, <1>5, <1>6, Zenon DEF Joined

\* One text and a comma in front of joined ones.
LEMMA JoinedCons ==
    ASSUME NEW S, Mark(",") \in S, NEW u \in Seq(S), NEW us \in Seq(Seq(S)), us # <<>>
    PROVE  Joined(Cat(<<u>>, us)) = Cat(Cat(u, <<Mark(",")>>), Joined(us))
  <1>1. PICK R : R = Seq(S)
    OBVIOUS
  <1>2. PICK ts : ts = Cat(<<u>>, us)
    OBVIOUS
  <1>3. us \in Seq(R) /\ u \in R
    BY <1>1, Zenon
  <1>4. /\ ts \in Seq(R) /\ Len(ts) = Len(us) + 1 /\ Len(us) \in Nat
        /\ ts[1] = u /\ \A k \in 1..Len(us) : ts[k + 1] = us[k]
    <2>1. PICK m : m = Len(us)
      OBVIOUS
    <2>2. Leads(R, u, us, m, ts)
      BY <1>2, <1>3, <2>1, ConsIs, Zenon
    <2> QED
      BY ONLY <2>1, <2>2 DEF Leads
  <1>5. ts \in Seq(Seq(S))
    BY <1>1, <1>4, Zenon
  <1>6. PICK n \in Nat : n = Len(us) /\ n # 0
    <2>1. us # <<>>
      OBVIOUS
    <2>2. Len(us) # 0
      BY ONLY <1>3, <2>1
    <2> QED
      BY ONLY <1>4, <2>2
  <1>7. PICK v : v = Cat(u, <<Mark(",")>>)
    OBVIOUS
  <1>8. v \in R
    BY <1>1, <1>7, OneSymbol, CatType
  <1>9. PICK is : is = Items(ts)
    OBVIOUS
  <1>10. PICK js : js = Items(us)
    OBVIOUS
  <1>11. /\ is \in Seq(R) /\ Len(is) = n + 1
         /\ \A k \in 1..(n + 1) : is[k] = IF k < n + 1 THEN Cat(ts[k], <<Mark(",")>>) ELSE ts[k]
    BY <1>1, <1>4, <1>5, <1>6, <1>9, ItemsAre
  <1>12. /\ js \in Seq(R) /\ Len(js) = n
         /\ \A k \in 1..n : js[k] = IF k < n THEN Cat(us[k], <<Mark(",")>>) ELSE us[k]
    BY <1>1, <1>6, <1>10, ItemsAre
  <1>13. PICK ks : ks = Cat(<<v>>, js)
    OBVIOUS
  <1>14. /\ ks \in Seq(R) /\ Len(ks) = n + 1 /\ ks[1] = v
         /\ \A k \in 1..n : ks[k + 1] = js[k]
    <2>1. Len(js) = n
      BY <1>12
    <2>2. Leads(R, v, js, n, ks)
      BY <1>8, <1>12, <1>13, <2>1, ConsIs, Zenon
    <2> QED
      BY ONLY <2>2 DEF Leads
  <1>15. ASSUME NEW k \in 1..(n + 1)
         PROVE  is[k] = ks[k]
    <2>1. CASE k = 1
      <3>1. is[1] = Cat(ts[1], <<Mark(",")>>)
        <4>1. 1 \in 1..(n + 1) /\ 1 < n + 1
          BY ONLY n \in Nat, <1>6
        <4> QED
          BY ONLY <1>11, <4>1
      <3> QED
        BY <1>4, <1>7, <1>14, <2>1, <3>1
    <2>2. CASE k # 1
      <3>1. PICK i \in 1..n : k = i + 1
        <4>1. k - 1 \in 1..n /\ k = (k - 1) + 1
          BY ONLY n \in Nat, k \in 1..(n + 1), <2>2
        <4> QED
          BY <4>1
      <3>2. ks[k] = js[i] /\ ts[k] = us[i] /\ (k < n + 1 <=> i < n)
        BY ONLY n \in Nat, <1>4, <1>6, <1>14, <3>1
      <3> QED
        BY <1>11, <1>12, <3>2
    <2> QED
      BY <2>1, <2>2
  <1>16. is = ks
    BY <1>11, <1>14, <1>15, SeqEqual
  <1>17. FlattenSeq(ks) = Cat(v, FlattenSeq(js))
    BY <1>1, <1>8, <1>12, <1>13, FlattenCons
  <1> QED
    BY <1>2, <1>7, <1>9, <1>10, <1>16, <1>17, Zenon DEF Joined

\* What f makes of each.
Mapped(f, xs) == [i \in DOMAIN xs |-> f[xs[i]]]

LEMMA MappedOne ==
    ASSUME NEW f, NEW x
    PROVE  Mapped(f, <<x>>) = <<f[x]>>
  BY DEF Mapped

LEMMA MappedCons ==
    ASSUME NEW f, NEW V, NEW x \in V, NEW xs \in Seq(V)
    PROVE  Mapped(f, Cat(<<x>>, xs)) = Cat(<<f[x]>>, Mapped(f, xs))
  <1>1. PICK n \in Nat : n = Len(xs)
    OBVIOUS
  <1>2. PICK ys : ys = Cat(<<x>>, xs)
    OBVIOUS
  <1>3. /\ ys \in Seq(V) /\ Len(ys) = n + 1 /\ ys[1] = x /\ \A k \in 1..n : ys[k + 1] = xs[k]
    <2>1. Leads(V, x, xs, n, ys)
      BY <1>1, <1>2, ConsIs, Zenon
    <2> QED
      BY <2>1 DEF Leads
  <1>4. DOMAIN ys = 1..(n + 1) /\ DOMAIN xs = 1..n
    BY <1>1, <1>3, ElementsOf
  <1>5. PICK R : R = {f[y] : y \in V}
    OBVIOUS
  <1>6. f[x] \in R /\ \A k \in 1..n : f[xs[k]] \in R
    BY <1>1, <1>5, ElementsOf
  <1>7. PICK ms : ms = Mapped(f, xs)
    OBVIOUS
  <1>8. ms = [i \in 1..n |-> f[xs[i]]]
    BY <1>4, <1>7 DEF Mapped
  <1>9. ms \in Seq(R) /\ Len(ms) = n /\ \A k \in 1..n : ms[k] = f[xs[k]]
    BY ONLY n \in Nat, <1>6, <1>8
  <1>10. PICK ns : ns = Mapped(f, ys)
    OBVIOUS
  <1>11. ns = [i \in 1..(n + 1) |-> f[ys[i]]]
    BY <1>4, <1>10 DEF Mapped
  <1>12. \A i \in 1..(n + 1) : ys[i] \in V
    BY <1>3
  <1>13. ns \in Seq(R) /\ Len(ns) = n + 1 /\ \A k \in 1..(n + 1) : ns[k] = f[ys[k]]
    <2>1. \A i \in 1..(n + 1) : f[ys[i]] \in R
      BY <1>5, <1>12
    <2>2. PICK m \in Nat : m = n + 1
      OBVIOUS
    <2> QED
      BY ONLY m \in Nat, <1>11, <2>1, <2>2
  <1>14. PICK ks : ks = Cat(<<f[x]>>, ms)
    OBVIOUS
  <1>15. /\ ks \in Seq(R) /\ Len(ks) = n + 1 /\ ks[1] = f[x]
         /\ \A k \in 1..n : ks[k + 1] = ms[k]
    <2>1. Len(ms) = n
      BY <1>9
    <2>2. Leads(R, f[x], ms, n, ks)
      BY <1>6, <1>9, <1>14, <2>1, ConsIs, Zenon
    <2> QED
      BY ONLY <2>2 DEF Leads
  <1>16. ASSUME NEW k \in 1..(n + 1)
         PROVE  ns[k] = ks[k]
    <2>1. CASE k = 1
      BY <1>3, <1>13, <1>15, <2>1
    <2>2. CASE k # 1
      <3>1. PICK i \in 1..n : k = i + 1
        <4>1. k - 1 \in 1..n /\ k = (k - 1) + 1
          BY ONLY n \in Nat, k \in 1..(n + 1), <2>2
        <4> QED
          BY <4>1
      <3>2. ks[k] = f[xs[i]] /\ ys[k] = xs[i]
        BY <1>3, <1>9, <1>15, <3>1
      <3> QED
        BY <1>13, <3>2
    <2> QED
      BY <2>1, <2>2
  <1>17. ns = ks
    BY <1>13, <1>15, <1>16, SeqEqual
  <1> QED
    BY <1>2, <1>7, <1>10, <1>14, <1>17, Zenon

-----------------------------------------------------------------------------
\* What a text of the grammar is written of.

\* The values that are read as they are written, and the pairs of them; and
\* what is written of each.
FixedValues(d)  == {x \in Values[d] : AsRead(x) = x}
FixedMembers(d) == Seq(Nat) \X FixedValues(d)
Fixed           == [d \in 0..MaxNesting |-> FixedValues(d)]
Members         == [d \in 0..MaxNesting |-> FixedMembers(d)]
Writes(out) ==
    /\ \A v : WriteString(v, PlainOptions) = out[MaxNesting][v]
    /\ \A x \in Values[0] : out[0][x] = Output(x, PlainOptions, MaxNesting, <<>>)
    /\ \A n \in 1..MaxNesting : \A x \in Values[n] : out[n][x] = Output(x, PlainOptions, MaxNesting - n, out[n - 1])
WritesMembers(out) ==
    [d \in 0..MaxNesting |-> [m \in FixedMembers(d) |-> OutputMember(m, PlainOptions, out[d])]]

\* On each level where w can be nested so deep, x is one of V, and written w;
\* and the elements of xs are, and written with commas between them.
Deep(w, d) == d \in 0..MaxNesting /\ Len(w) <= 2 * d + 1
Says(F, V, x, w) == \A d : Deep(w, d) => x \in V[d] /\ F[d][x] = w
SaysAll(F, V, xs, w) ==
    \A d : Deep(w, d) => /\ xs \in Seq(V[d])
                         /\ Mapped(F[d], xs) \in Seq(Texts)
                         /\ Joined(Mapped(F[d], xs)) = w

LEMMA SaysNone == \A F, V : SaysAll(F, V, <<>>, <<>>)
  <1>1. \A f : Mapped(f, <<>>) = <<>>
    BY DEF Mapped
  <1>2. \A S : <<>> \in Seq(S)
    OBVIOUS
  <1> QED
    BY <1>1, <1>2, JoinedNone, Zenon DEF SaysAll

LEMMA SaysOne ==
    ASSUME NEW F, NEW V, NEW x, NEW w \in Texts, Says(F, V, x, w)
    PROVE  SaysAll(F, V, <<x>>, w)
  <1> SUFFICES ASSUME NEW d, Deep(w, d)
               PROVE  /\ <<x>> \in Seq(V[d])
                      /\ Mapped(F[d], <<x>>) \in Seq(Texts)
                      /\ Joined(Mapped(F[d], <<x>>)) = w
    BY DEF SaysAll
  <1>1. x \in V[d] /\ F[d][x] = w
    BY DEF Says
  <1>2. Mapped(F[d], <<x>>) = <<w>>
    BY <1>1, MappedOne
  <1>3. <<x>> \in Seq(V[d])
    BY <1>1, OneSymbol
  <1>4. <<w>> \in Seq(Texts)
    BY OneSymbol
  <1>5. Joined(<<w>>) = w
    BY JoinedOne DEF Texts
  <1> QED
    BY <1>2, <1>3, <1>4, <1>5

LEMMA SaysMore ==
    ASSUME NEW F, NEW V, NEW x, NEW xs, xs # <<>>, NEW t, NEW m, OfLength(t, m), NEW e, NEW n, OfLength(e, n),
           m + 1 + n <= MaxTokens, Says(F, V, x, t), SaysAll(F, V, xs, e)
    PROVE  SaysAll(F, V, Cat(<<x>>, xs), Comma(t, e)) /\ Cat(<<x>>, xs) # <<>>
  <1>1. PICK w : w = Comma(t, e)
    OBVIOUS
  <1>2. Len(w) = m + 1 + n /\ Len(t) = m /\ Len(e) = n /\ m \in Nat /\ n \in Nat
    BY <1>1, CommaLength, LengthOf DEF OfLength
  <1>3. Mark(",") \in Alphabet
    BY MarksInAlphabet
  <1>4. ASSUME NEW d, Deep(w, d)
        PROVE  /\ Cat(<<x>>, xs) \in Seq(V[d]) /\ Cat(<<x>>, xs) # <<>>
               /\ Mapped(F[d], Cat(<<x>>, xs)) \in Seq(Texts)
               /\ Joined(Mapped(F[d], Cat(<<x>>, xs))) = w
    <2>1. Deep(t, d) /\ Deep(e, d)
      BY <1>2, <1>4 DEF Deep
    <2>2. x \in V[d] /\ F[d][x] = t
      BY <2>1 DEF Says
    <2>3. xs \in Seq(V[d]) /\ Mapped(F[d], xs) \in Seq(Texts) /\ Joined(Mapped(F[d], xs)) = e
      BY <2>1 DEF SaysAll
    <2>4. PICK us : us = Mapped(F[d], xs)
      OBVIOUS
    <2>5. Mapped(F[d], Cat(<<x>>, xs)) = Cat(<<t>>, us)
      BY <2>2, <2>3, <2>4, MappedCons
    <2>6. t \in Texts /\ us \in Seq(Texts)
      BY <2>3, <2>4 DEF OfLength
    <2>7. Len(us) = Len(xs) /\ Len(xs) # 0
      <3>1. PICK U : U = V[d]
        OBVIOUS
      <3>2. xs \in Seq(U)
        BY <2>3, <3>1
      <3>3. Len(xs) \in Nat /\ DOMAIN xs = 1..Len(xs) /\ Len(xs) # 0
        BY <3>2
      <3>4. DOMAIN us = DOMAIN xs
        BY <2>4 DEF Mapped
      <3>5. DOMAIN us = 1..Len(us) /\ Len(us) \in Nat
        BY ONLY <2>6
      <3> QED
        BY <3>3, <3>4, <3>5
    <2>8. us # <<>>
      BY <2>7
    <2>9. Joined(Cat(<<t>>, us)) = w
      BY <1>1, <1>3, <2>3, <2>4, <2>6, <2>8, JoinedCons, Zenon DEF Texts, Comma
    <2>10. Cat(<<t>>, us) \in Seq(Texts)
      <3>1. PICK ys : ys = Cat(<<t>>, us)
        OBVIOUS
      <3>2. Leads(Texts, t, us, Len(us), ys)
        BY <2>6, <3>1, ConsIs, Zenon
      <3> QED
        BY <3>1, <3>2, Zenon DEF Leads
    <2>11. Cat(<<x>>, xs) \in Seq(V[d]) /\ Cat(<<x>>, xs) # <<>>
      <3>1. PICK ys : ys = Cat(<<x>>, xs)
        OBVIOUS
      <3>2. Leads(V[d], x, xs, Len(xs), ys)
        BY <2>2, <2>3, <3>1, ConsIs, Zenon
      <3>3. ys \in Seq(V[d]) /\ Len(ys) = Len(xs) + 1 /\ Len(xs) \in Nat
        BY <3>2 DEF Leads
      <3>4. ys # <<>>
        BY <3>3
      <3> QED
        BY <3>1, <3>3, <3>4
    <2> QED
      BY <2>5, <2>9, <2>10, <2>11
  <1>5. Cat(<<x>>, xs) # <<>>
    <2>1. MaxNesting \in 0..MaxNesting /\ Len(w) <= 2 * MaxNesting + 1
      BY <1>2, TokensBound, NestingAssumption
    <2>2. Deep(w, MaxNesting)
      BY <2>1 DEF Deep
    <2> QED
      BY <1>4, <2>2
  <1> QED
    BY <1>1, <1>4, <1>5 DEF SaysAll

-----------------------------------------------------------------------------
\* What is written without blanks.
LEMMA PlainLines ==
    ASSUME NEW ts \in Seq(Texts), NEW b \in Brackets, NEW level
    PROVE  OutputArrayOrObj(ts, b.first, b.last, PlainOptions, level) = Between2(Mark(b.first), Joined(ts), Mark(b.last))
  <1>1. ~PlainOptions.pretty /\ ~PlainOptions.single_line_arrays
    BY DEF PlainOptions
  <1>2. NewLine(PlainOptions) = <<>> /\ \A k : Indent(PlainOptions, k) = <<>>
    BY <1>1 DEF NewLine, Indent, Space
  <1>3. ts \in Seq(Seq(Symbols(PlainOptions)))
    BY DEF Texts, Alphabet
  <1>4. OutputArrayOrObj(ts, b.first, b.last, PlainOptions, level) = Bracketed(b, <<>>, Lines(<<>>, ts, <<>>), <<>>)
    BY <1>2, <1>3, LinesBracketed, Zenon
  <1>5. PICK R : R = Texts
    OBVIOUS
  <1>6. PICK is : is = Items(ts)
    OBVIOUS
  <1>7. is \in Seq(R) /\ DOMAIN is = DOMAIN ts
    <2>1. Mark(",") \in Alphabet
      BY MarksInAlphabet
    <2>2. Items(ts) \in Seq(Seq(Alphabet)) /\ DOMAIN Items(ts) = DOMAIN ts
      BY <2>1, ItemsAre, Zenon DEF Texts
    <2> QED
      BY <1>5, <1>6, <2>2, Zenon DEF Texts
  <1>8. \A k \in DOMAIN is : Line(<<>>, is[k], <<>>) = is[k]
    <2> TAKE k \in DOMAIN is
    <2>1. is[k] \in R
      BY <1>7
    <2>2. is[k] \in Seq(Alphabet)
      BY <1>5, <2>1, Zenon DEF Texts
    <2> QED
      BY <2>2, CatEmpty, Zenon DEF Line
  <1>9. Lines(<<>>, ts, <<>>) = is
    <2>1. Lines(<<>>, ts, <<>>) = [k \in DOMAIN is |-> Line(<<>>, is[k], <<>>)]
      BY <1>6, <1>7, Zenon DEF Lines
    <2>2. is = [k \in DOMAIN is |-> is[k]]
      BY <1>7
    <2>3. [k \in DOMAIN is |-> Line(<<>>, is[k], <<>>)] = [k \in DOMAIN is |-> is[k]]
      BY <1>8, Zenon
    <2> QED
      BY <2>1, <2>2, <2>3, Zenon
  <1>10. PICK w : w = FlattenSeq(is)
    OBVIOUS
  <1>11. w \in Seq(Alphabet) /\ w = Joined(ts)
    <2>1. is \in Seq(Seq(Alphabet))
      BY <1>5, <1>7, Zenon DEF Texts
    <2> QED
      BY <1>6, <1>10, <2>1, FlattenType, Zenon DEF Joined
  <1>12. Mark(b.first) \in Alphabet
    BY BracketMarks DEF Alphabet
  <1>13. PICK f : f = <<Mark(b.first)>>
    OBVIOUS
  <1>14. f \in Seq(Alphabet) /\ Cat(f, w) \in Seq(Alphabet)
    <2>1. f \in Seq(Alphabet)
      BY <1>12, <1>13, OneSymbol, Zenon
    <2> QED
      BY <1>11, <2>1, CatType, Zenon
  <1>15. Cat(f, <<>>) = f /\ Cat(Cat(f, w), <<>>) = Cat(f, w)
    BY <1>14, CatEmpty, Zenon
  <1> QED
    BY <1>4, <1>9, <1>10, <1>11, <1>13, <1>15, Zenon DEF Bracketed, Between2

\* They are the values that AsRead leaves as they are.
LEMMA FixedAre ==
    \A d \in 0..MaxNesting : /\ Fixed[d] = FixedValues(d) /\ Members[d] = FixedMembers(d)
                             /\ Scalars \subseteq Values[d]
  <1>1. ASSUME NEW d \in 0..MaxNesting
        PROVE  Scalars \subseteq Values[d]
    <2>1. CASE d = 0
      BY <2>1, ValuesUnfold
    <2>2. CASE d # 0
      <3>1. d \in 1..MaxNesting
        BY <2>2
      <3> QED
        BY <3>1, InValues, ValuesGrow
    <2> QED
      BY <2>1, <2>2
  <1> QED
    BY <1>1 DEF Fixed, Members

LEMMA SaysScalar ==
    ASSUME NEW out, Writes(out), NEW t \in Tokens, IsScalar(t)
    PROVE  Says(out, Fixed, Scalar(t), <<t>>)
  <1>1. PICK x \in Scalars : x = Scalar(t)
    BY TokenWritten
  <1>2. AsRead(x) = x
    <2>1. 1 \in 1..MaxNesting
      BY DocumentsAssumption, NestingAssumption
    <2>2. AsRead(x) = IF IsUint64(x) THEN NumberValue(x[2]) ELSE x
      BY <2>1, ContainersRead
    <2> QED
      BY <1>1, <2>2, TokenWritten
  <1>3. \A level, inner : Output(x, PlainOptions, level, inner) = <<t>>
    BY <1>1, TokenWritten
  <1> SUFFICES ASSUME NEW d \in 0..MaxNesting
               PROVE  x \in Fixed[d] /\ out[d][x] = <<t>>
    BY <1>1 DEF Says, Deep
  <1>4. x \in Values[d]
    BY FixedAre
  <1>5. out[d][x] = <<t>>
    <2>1. CASE d = 0
      BY <1>3, <1>4, <2>1 DEF Writes
    <2>2. CASE d # 0
      <3>1. d \in 1..MaxNesting
        BY <2>2
      <3> QED
        BY <1>3, <1>4, <3>1 DEF Writes
    <2> QED
      BY <2>1, <2>2
  <1> QED
    BY <1>2, <1>4, <1>5, FixedAre DEF FixedValues

\* A level below, for what is between brackets.
LEMMA DeepBetween ==
    ASSUME NEW n, NEW e, OfLength(e, n), NEW w, OfLength(w, n + 2), NEW d, Deep(w, d)
    PROVE  d \in 1..MaxNesting /\ d - 1 \in 0..MaxNesting /\ Deep(e, d - 1)
  <1>1. Len(w) = n + 2 /\ Len(e) = n /\ n \in Nat
    BY LengthOf
  <1>2. d \in 0..MaxNesting /\ n + 2 <= 2 * d + 1
    BY <1>1 DEF Deep
  <1>3. d \in 1..MaxNesting /\ d - 1 \in 0..MaxNesting /\ n <= 2 * (d - 1) + 1
    BY <1>1, <1>2, NestingAssumption
  <1> QED
    BY <1>1, <1>3 DEF Deep

\* An array of what is said level by level is said one level up; so is an
\* object.
LEMMA SaysArray ==
    ASSUME NEW out, Writes(out), NEW xs, NEW n, NEW e, OfLength(e, n), SaysAll(out, Fixed, xs, e)
    PROVE  Says(out, Fixed, Arr(xs), Between2(Mark("["), e, Mark("]")))
  <1>1. PICK w : w = Between2(Mark("["), e, Mark("]"))
    OBVIOUS
  <1>2. OfLength(w, n + 2)
    BY <1>1, MarksInAlphabet, BetweenLength
  <1> SUFFICES ASSUME NEW d, Deep(w, d)
               PROVE  Arr(xs) \in Fixed[d] /\ out[d][Arr(xs)] = w
    BY <1>1 DEF Says
  <1>3. d \in 1..MaxNesting /\ d - 1 \in 0..MaxNesting /\ Deep(e, d - 1) /\ d \in 0..MaxNesting
    BY <1>2, DeepBetween
  <1>4. PICK f : f = out[d - 1]
    OBVIOUS
  <1>5. PICK V : V = FixedValues(d - 1)
    OBVIOUS
  <1>6. xs \in Seq(V) /\ Mapped(f, xs) \in Seq(Texts) /\ Joined(Mapped(f, xs)) = e
    BY <1>3, <1>4, <1>5, FixedAre DEF SaysAll
  <1>7. \A x \in V : x \in Values[d - 1] /\ AsRead(x) = x
    BY <1>5 DEF FixedValues
  <1>8. xs \in Seq(Values[d - 1])
    <2>1. V \subseteq Values[d - 1]
      BY <1>7
    <2> QED
      BY <1>6, <2>1
  <1>9. Arr(xs) \in Values[d]
    BY <1>3, <1>8, InValues
  <1>10. AsRead(Arr(xs)) = Arr(xs)
    <2>1. AsRead(Arr(xs)) = Arr(ReadElements(xs))
      BY <1>3, <1>8, ContainersRead
    <2>2. \A i \in DOMAIN xs : xs[i] \in V
      BY <1>6
    <2>3. xs = [i \in DOMAIN xs |-> xs[i]]
      BY <1>6
    <2>4. ReadElements(xs) = xs
      BY <1>7, <2>2, <2>3 DEF ReadElements
    <2> QED
      BY <2>1, <2>4
  <1>11. out[d][Arr(xs)] = w
    <2>1. PICK a : a = Arr(xs)
      OBVIOUS
    <2>2. a[1] = "arr" /\ a[2] = xs
      BY <2>1 DEF Arr
    <2>3. out[d][a] = Output(a, PlainOptions, MaxNesting - d, f)
      BY <1>3, <1>4, <1>9, <2>1 DEF Writes
    <2>4. Output(a, PlainOptions, MaxNesting - d, f) = OutputArray(xs, PlainOptions, MaxNesting - d, f)
      BY <2>2 DEF Output
    <2>5. ~PlainOptions.single_line_arrays
      BY DEF PlainOptions
    <2>6. OutputArray(xs, PlainOptions, MaxNesting - d, f)
            = OutputArrayOrObj(Mapped(f, xs), "[", "]", PlainOptions, MaxNesting - d)
      BY <2>5 DEF OutputArray, Mapped
    <2>7. SquareBrackets \in Brackets /\ SquareBrackets.first = "[" /\ SquareBrackets.last = "]"
      BY DEF Brackets, SquareBrackets
    <2>8. OutputArrayOrObj(Mapped(f, xs), "[", "]", PlainOptions, MaxNesting - d) = w
      BY <1>1, <1>6, <2>7, PlainLines
    <2> QED
      BY <2>1, <2>3, <2>4, <2>6, <2>8
  <1> QED
    BY <1>3, <1>9, <1>10, <1>11, FixedAre DEF FixedValues

LEMMA SaysObject ==
    ASSUME NEW out, Writes(out), NEW ms, NEW n, NEW e, OfLength(e, n), SaysAll(WritesMembers(out), Members, ms, e)
    PROVE  Says(out, Fixed, Obj(ms), Between2(Mark("{"), e, Mark("}")))
  <1>1. PICK w : w = Between2(Mark("{"), e, Mark("}"))
    OBVIOUS
  <1>2. OfLength(w, n + 2)
    BY <1>1, MarksInAlphabet, BetweenLength
  <1> SUFFICES ASSUME NEW d, Deep(w, d)
               PROVE  Obj(ms) \in Fixed[d] /\ out[d][Obj(ms)] = w
    BY <1>1 DEF Says
  <1>3. d \in 1..MaxNesting /\ d - 1 \in 0..MaxNesting /\ Deep(e, d - 1) /\ d \in 0..MaxNesting
    BY <1>2, DeepBetween
  <1>4. PICK f : f = out[d - 1]
    OBVIOUS
  <1>5. PICK V : V = FixedMembers(d - 1)
    OBVIOUS
  <1>6. PICK g : g = [m \in V |-> OutputMember(m, PlainOptions, f)]
    OBVIOUS
  <1>7. WritesMembers(out)[d - 1] = g
    BY <1>3, <1>4, <1>5, <1>6 DEF WritesMembers
  <1>8. ms \in Seq(V) /\ Mapped(g, ms) \in Seq(Texts) /\ Joined(Mapped(g, ms)) = e
    BY <1>3, <1>5, <1>7, FixedAre DEF SaysAll
  <1>9. \A m \in V : m \in Seq(Nat) \X Values[d - 1] /\ m = <<m[1], m[2]>> /\ AsRead(m[2]) = m[2]
    BY <1>5 DEF FixedMembers, FixedValues
  <1>10. ms \in Seq(Seq(Nat) \X Values[d - 1])
    <2>1. PICK U : U = Seq(Nat) \X Values[d - 1]
      OBVIOUS
    <2>2. V \subseteq U
      BY <1>9, <2>1
    <2>3. ms \in Seq(U)
      BY <1>8, <2>2
    <2> QED
      BY <2>1, <2>3
  <1>11. Obj(ms) \in Values[d]
    BY <1>3, <1>10, InValues
  <1>12. \A i \in DOMAIN ms : ms[i] \in V
    BY <1>8
  <1>13. AsRead(Obj(ms)) = Obj(ms)
    <2>1. AsRead(Obj(ms)) = Obj(ReadMembers(ms))
      BY <1>3, <1>10, ContainersRead
    <2>2. ms = [i \in DOMAIN ms |-> ms[i]]
      BY <1>8
    <2>3. \A i \in DOMAIN ms : <<ms[i][1], AsRead(ms[i][2])>> = ms[i]
      BY <1>9, <1>12
    <2>4. ReadMembers(ms) = ms
      BY <2>2, <2>3, Zenon DEF ReadMembers
    <2> QED
      BY <2>1, <2>4
  <1>14. out[d][Obj(ms)] = w
    <2>1. PICK a : a = Obj(ms)
      OBVIOUS
    <2>2. a[1] = "obj" /\ a[2] = ms
      BY <2>1 DEF Obj
    <2>3. out[d][a] = Output(a, PlainOptions, MaxNesting - d, f)
      BY <1>3, <1>4, <1>11, <2>1 DEF Writes
    <2>4. PICK ts : ts = [i \in DOMAIN ms |-> OutputMember(ms[i], PlainOptions, f)]
      OBVIOUS
    <2>5. Output(a, PlainOptions, MaxNesting - d, f) = OutputArrayOrObj(ts, "{", "}", PlainOptions, MaxNesting - d)
      BY <2>2, <2>4 DEF Output
    <2>6. ts = Mapped(g, ms)
      <3>1. \A i \in DOMAIN ms : g[ms[i]] = OutputMember(ms[i], PlainOptions, f)
        BY <1>6, <1>12
      <3> QED
        BY <2>4, <3>1, Zenon DEF Mapped
    <2>7. Braces \in Brackets /\ Braces.first = "{" /\ Braces.last = "}"
      BY DEF Brackets, Braces
    <2>8. OutputArrayOrObj(ts, "{", "}", PlainOptions, MaxNesting - d) = w
      BY <1>1, <1>8, <2>6, <2>7, PlainLines
    <2> QED
      BY <2>1, <2>3, <2>5, <2>8
  <1> QED
    BY <1>3, <1>11, <1>13, <1>14, FixedAre DEF FixedValues

LEMMA SaysMember ==
    ASSUME NEW out, NEW s \in Seq(Nat), NEW x, x = Quoted(AddEscChars(s, PlainOptions)), x \in Names,
           NEW y, NEW n, NEW t, OfLength(t, n), Says(out, Fixed, y, t)
    PROVE  Says(WritesMembers(out), Members, <<s, y>>, NameAnd(x, t))
  <1>1. PICK w : w = NameAnd(x, t)
    OBVIOUS
  <1>2. Len(w) = 2 + n /\ Len(t) = n /\ n \in Nat
    BY <1>1, NameLength, LengthOf
  <1> SUFFICES ASSUME NEW d, Deep(w, d)
               PROVE  <<s, y>> \in Members[d] /\ WritesMembers(out)[d][<<s, y>>] = w
    BY <1>1 DEF Says
  <1>3. d \in 0..MaxNesting /\ Deep(t, d)
    BY <1>2 DEF Deep
  <1>4. y \in FixedValues(d) /\ out[d][y] = t
    BY <1>3, FixedAre DEF Says
  <1>5. PICK m : m = <<s, y>>
    OBVIOUS
  <1>6. m \in FixedMembers(d) /\ m[1] = s /\ m[2] = y
    BY <1>4, <1>5 DEF FixedMembers
  <1>7. WritesMembers(out)[d][m] = OutputMember(m, PlainOptions, out[d])
    BY <1>3, <1>6 DEF WritesMembers
  <1>8. OutputMember(m, PlainOptions, out[d]) = w
    <2>1. ~PlainOptions.pretty /\ ~PlainOptions.single_line_arrays
      BY DEF PlainOptions
    <2>2. Space(PlainOptions) = <<>>
      BY <2>1 DEF Space
    <2>3. OutputMember(m, PlainOptions, out[d]) = <<x>> \o <<>> \o <<Mark(":")>> \o <<>> \o t
      BY <1>4, <1>6, <2>2, Zenon DEF OutputMember
    <2>4. PICK c : c = Mark(":")
      OBVIOUS
    <2>5. <<x>> \o <<>> \o <<c>> \o <<>> = <<x, c>>
      <3>1. PICK A : A = {x, c}
        OBVIOUS
      <3>2. <<x>> \in Seq(A) /\ <<c>> \in Seq(A)
        BY <3>1, OneSymbol
      <3>6. PICK f \in Seq(A) : f = <<x>>
        BY <3>2
      <3>3. f \o <<>> = f
        OBVIOUS
      <3>4. f \o <<c>> = <<x, c>> /\ <<x, c>> \in Seq(A)
        <4>1. Append(f, c) = f \o <<c>>
          BY <3>1, AppendIsConcat
        <4>2. Append(<<x>>, c) = <<x, c>>
          <5>1. <<x, c>> = Append(Append(<<>>, x), c)
            OBVIOUS
          <5>2. <<x>> = Append(<<>>, x)
            OBVIOUS
          <5> QED
            BY <5>1, <5>2, Zenon
        <4>3. <<x, c>> \in Seq(A)
          BY <3>1
        <4> QED
          BY <3>6, <4>1, <4>2, <4>3, Zenon
      <3>5. <<x, c>> \o <<>> = <<x, c>>
        BY <3>4
      <3> QED
        BY <3>6, <3>3, <3>4, <3>5, Zenon
    <2> QED
      BY <1>1, <2>3, <2>4, <2>5, Zenon DEF NameAnd, Cat
  <1> QED
    BY <1>3, <1>5, <1>6, <1>7, <1>8, FixedAre

\* What is in a row is written of something.
RowSaid(out, n, w) ==
    /\ w \in Rows[n].texts => \E x : Says(out, Fixed, x, w)
    /\ w \in Rows[n].elements => \E xs : SaysAll(out, Fixed, xs, w) /\ (n # 0 => xs # <<>>)
    /\ w \in Rows[n].pairs => \E ms : SaysAll(WritesMembers(out), Members, ms, w) /\ (n # 0 => ms # <<>>)

LEMMA TextSaid ==
    ASSUME NEW out, Writes(out), NEW n \in 1..MaxTokens, NEW w, IsTextOf(Rows, n, w),
           \A m \in 0..(n - 1) : \A u : RowSaid(out, m, u)
    PROVE  \E x : Says(out, Fixed, x, w)
  <1>1. CASE n = 1
    <2>1. PICK t \in Tokens : IsScalar(t) /\ w = <<t>>
      BY <1>1, Zenon DEF IsTextOf
    <2>2. Says(out, Fixed, Scalar(t), <<t>>)
      BY <2>1, SaysScalar
    <2> QED
      BY <2>1, <2>2
  <1>2. CASE n # 1
    <2>1. PICK m \in 0..(n - 1) : m = n - 2 /\ m \in 0..MaxTokens
      <3>1. n - 2 \in 0..(n - 1) /\ n - 2 \in 0..MaxTokens
        BY <1>2, TokensBound
      <3> QED
        BY <3>1
    <2>2. CASE \E e \in Rows[m].elements : w = Between2(Mark("["), e, Mark("]"))
      <3>1. PICK e \in Rows[m].elements : w = Between2(Mark("["), e, Mark("]"))
        BY <2>2
      <3>2. OfLength(e, m)
        BY <2>1, RowsTyped DEF InRow
      <3>3. PICK xs : SaysAll(out, Fixed, xs, e)
        BY DEF RowSaid
      <3>4. Says(out, Fixed, Arr(xs), w)
        BY <3>1, <3>2, <3>3, SaysArray
      <3> QED
        BY <3>4
    <2>3. CASE \E e \in Rows[m].pairs : w = Between2(Mark("{"), e, Mark("}"))
      <3>1. PICK e \in Rows[m].pairs : w = Between2(Mark("{"), e, Mark("}"))
        BY <2>3
      <3>2. OfLength(e, m)
        BY <2>1, RowsTyped DEF InRow
      <3>3. PICK ms : SaysAll(WritesMembers(out), Members, ms, e)
        BY DEF RowSaid
      <3>4. Says(out, Fixed, Obj(ms), w)
        BY <3>1, <3>2, <3>3, SaysObject
      <3> QED
        BY <3>4
    <2> QED
      BY <1>2, <2>1, <2>2, <2>3 DEF IsTextOf
  <1> QED
    BY <1>1, <1>2

LEMMA ElementsSaid ==
    ASSUME NEW out, Writes(out), NEW n \in 1..MaxTokens, NEW w, AreElementsOf(Rows, n, w), OfLength(w, n),
           \A m \in 0..(n - 1) : \A u : RowSaid(out, m, u)
    PROVE  \E xs : SaysAll(out, Fixed, xs, w) /\ xs # <<>>
  <1>1. CASE IsTextOf(Rows, n, w)
    <2>1. PICK x : Says(out, Fixed, x, w)
      BY <1>1, TextSaid
    <2>2. SaysAll(out, Fixed, <<x>>, w)
      BY <2>1, SaysOne DEF OfLength
    <2>3. <<x>> # <<>>
      OBVIOUS
    <2> QED
      BY <2>2, <2>3
  <1>2. CASE \E m \in 1..(n - 2) : \E t \in Rows[m].texts : \E e \in Rows[n - 1 - m].elements : w = Comma(t, e)
    <2>1. PICK m \in 1..(n - 2) : \E t \in Rows[m].texts : \E e \in Rows[n - 1 - m].elements : w = Comma(t, e)
      BY <1>2
    <2>2. PICK k \in 1..(n - 1) : k = n - 1 - m
      <3>1. n - 1 - m \in 1..(n - 1)
        OBVIOUS
      <3> QED
        BY <3>1
    <2>3. PICK t \in Rows[m].texts, e \in Rows[k].elements : w = Comma(t, e)
      BY <2>1, <2>2
    <2>4. /\ m \in 0..(n - 1) /\ k \in 0..(n - 1) /\ m \in 0..MaxTokens /\ k \in 0..MaxTokens
          /\ m + 1 + k <= MaxTokens /\ k # 0
      BY <2>2, TokensBound
    <2>5. OfLength(t, m) /\ OfLength(e, k)
      BY <2>4, RowsTyped DEF InRow
    <2>6. PICK x : Says(out, Fixed, x, t)
      BY <2>4 DEF RowSaid
    <2>7. PICK xs : SaysAll(out, Fixed, xs, e) /\ xs # <<>>
      BY <2>4 DEF RowSaid
    <2>8. SaysAll(out, Fixed, Cat(<<x>>, xs), w) /\ Cat(<<x>>, xs) # <<>>
      BY <2>3, <2>4, <2>5, <2>6, <2>7, SaysMore, Zenon
    <2> QED
      BY <2>8
  <1> QED
    BY <1>1, <1>2, Zenon DEF AreElementsOf

LEMMA PairSaid ==
    ASSUME NEW out, Writes(out), NEW n \in 1..MaxTokens, NEW m \in 3..n, NEW w, IsPairOf(Rows, m, w),
           \A k \in 0..(n - 1) : \A u : RowSaid(out, k, u)
    PROVE  OfLength(w, m) /\ \E y : Says(WritesMembers(out), Members, y, w)
  <1>1. PICK k \in 0..(n - 1) : k = m - 2 /\ k \in 0..MaxTokens /\ 2 + k = m
    <2>1. m - 2 \in 0..(n - 1) /\ m - 2 \in 0..MaxTokens
      BY TokensBound
    <2> QED
      BY <2>1
  <1>2. PICK x \in Names, t \in Rows[k].texts : w = NameAnd(x, t)
    BY <1>1, Zenon DEF IsPairOf
  <1>3. OfLength(t, k)
    BY <1>1, RowsTyped DEF InRow
  <1>4. OfLength(w, m)
    BY <1>1, <1>2, <1>3, NameLength
  <1>5. PICK s \in Seq(Nat) : x = Quoted(AddEscChars(s, PlainOptions))
    BY NameWritten DEF Names
  <1>6. PICK y : Says(out, Fixed, y, t)
    BY DEF RowSaid
  <1>7. Says(WritesMembers(out), Members, <<s, y>>, w)
    BY <1>2, <1>3, <1>5, <1>6, SaysMember, Zenon
  <1> QED
    BY <1>4, <1>7

LEMMA PairsSaid ==
    ASSUME NEW out, Writes(out), NEW n \in 1..MaxTokens, NEW w, ArePairsOf(Rows, n, w),
           \A m \in 0..(n - 1) : \A u : RowSaid(out, m, u)
    PROVE  \E ms : SaysAll(WritesMembers(out), Members, ms, w) /\ ms # <<>>
  <1>1. n >= 3
    BY Zenon DEF ArePairsOf
  <1>2. CASE IsPairOf(Rows, n, w)
    <2>1. n \in 3..n
      BY <1>1
    <2>2. PICK y : Says(WritesMembers(out), Members, y, w)
      BY <1>2, <2>1, PairSaid
    <2>3. OfLength(w, n)
      BY <1>2, <2>1, PairSaid
    <2>4. SaysAll(WritesMembers(out), Members, <<y>>, w)
      BY <2>2, <2>3, SaysOne DEF OfLength
    <2>5. <<y>> # <<>>
      OBVIOUS
    <2> QED
      BY <2>4, <2>5
  <1>3. CASE \E m \in 3..(n - 2) : \E p : IsPairOf(Rows, m, p) /\ \E q \in Rows[n - 1 - m].pairs : w = Comma(p, q)
    <2>1. PICK m \in 3..(n - 2) : \E p : IsPairOf(Rows, m, p) /\ \E q \in Rows[n - 1 - m].pairs : w = Comma(p, q)
      BY <1>3
    <2>2. PICK k \in 1..(n - 1) : k = n - 1 - m
      <3>1. n - 1 - m \in 1..(n - 1)
        OBVIOUS
      <3> QED
        BY <3>1
    <2>3. PICK p, q : IsPairOf(Rows, m, p) /\ q \in Rows[k].pairs /\ w = Comma(p, q)
      BY <2>1, <2>2
    <2>4. m \in 3..n /\ k \in 0..(n - 1) /\ k \in 0..MaxTokens /\ m + 1 + k <= MaxTokens /\ k # 0
      BY <2>2, TokensBound
    <2>5. OfLength(q, k)
      BY <2>3, <2>4, RowsTyped DEF InRow
    <2>6. OfLength(p, m)
      BY <2>3, <2>4, PairSaid
    <2>7. PICK y : Says(WritesMembers(out), Members, y, p)
      BY <2>3, <2>4, PairSaid
    <2>8. PICK ms : SaysAll(WritesMembers(out), Members, ms, q) /\ ms # <<>>
      BY <2>3, <2>4 DEF RowSaid
    <2>9. SaysAll(WritesMembers(out), Members, Cat(<<y>>, ms), w) /\ Cat(<<y>>, ms) # <<>>
      BY <2>3, <2>4, <2>5, <2>6, <2>7, <2>8, SaysMore, Zenon
    <2> QED
      BY <2>9
  <1> QED
    BY <1>2, <1>3, Zenon DEF ArePairsOf

\* By induction over the length again.
LEMMA RowsSaid ==
    ASSUME NEW out, Writes(out)
    PROVE  \A n \in 0..MaxTokens : \A w : RowSaid(out, n, w)
  <1> DEFINE T == {n \in Nat : n \in 0..MaxTokens => \A w : RowSaid(out, n, w)}
  <1>1. ASSUME NEW n \in Nat, \A m \in 0..(n - 1) : m \in T
        PROVE  n \in T
    <2> SUFFICES ASSUME n \in 0..MaxTokens, NEW w
                 PROVE  RowSaid(out, n, w)
      OBVIOUS
    <2>1. CASE n = 0
      BY <2>1, RowsAre, SaysNone DEF RowSaid
    <2>2. CASE n # 0
      <3>1. n \in 1..MaxTokens
        BY <2>2
      <3>2. \A m \in 0..(n - 1) : \A u : RowSaid(out, m, u)
        <4> TAKE m \in 0..(n - 1)
        <4>1. m \in T /\ m \in 0..MaxTokens
          BY <1>1, TokensBound
        <4> QED
          BY <4>1
      <3> HIDE DEF T
      <3>3. w \in Rows[n].texts => \E x : Says(out, Fixed, x, w)
        BY <3>1, <3>2, RowsAre, TextSaid
      <3>4. w \in Rows[n].elements => \E xs : SaysAll(out, Fixed, xs, w) /\ xs # <<>>
        <4> SUFFICES ASSUME w \in Rows[n].elements
                     PROVE  \E xs : SaysAll(out, Fixed, xs, w) /\ xs # <<>>
          OBVIOUS
        <4>1. OfLength(w, n)
          BY RowsTyped DEF InRow
        <4>2. AreElementsOf(Rows, n, w)
          BY <3>1, RowsAre
        <4> QED
          BY <3>1, <3>2, <4>1, <4>2, ElementsSaid
      <3>5. w \in Rows[n].pairs => \E ms : SaysAll(WritesMembers(out), Members, ms, w) /\ ms # <<>>
        <4> SUFFICES ASSUME w \in Rows[n].pairs
                     PROVE  \E ms : SaysAll(WritesMembers(out), Members, ms, w) /\ ms # <<>>
          OBVIOUS
        <4>1. ArePairsOf(Rows, n, w)
          BY <3>1, RowsAre
        <4> QED
          BY <3>1, <3>2, <4>1, PairsSaid
      <3> QED
        BY <3>3, <3>4, <3>5 DEF RowSaid
    <2> QED
      BY <2>1, <2>2
  <1> HIDE DEF T
  <1>2. Nat \subseteq T
    BY <1>1, SetStrongInduction
  <1>3. \A n \in 0..MaxTokens : n \in T
    BY <1>2, TokensBound
  <1> QED
    BY <1>3 DEF T

\* A text that is JSON is what is written of a value, which is read back.
LEMMA TextIsWritten ==
    ASSUME NEW w \in JsonTexts
    PROVE  /\ OfLength(w, Len(w)) /\ Len(w) \in 1..MaxTokens
           /\ \E v \in Values[MaxNesting] : AsRead(v) = v /\ WriteString(v, PlainOptions) = w
  <1>1. PICK n \in 1..MaxTokens : w \in Rows[n].texts
    BY Zenon DEF JsonTexts, Rows
  <1>2. n \in 0..MaxTokens
    OBVIOUS
  <1>3. OfLength(w, n) /\ Len(w) = n
    BY <1>1, <1>2, RowsTyped, LengthOf DEF InRow
  <1>4. PICK out : Writes(out)
    BY WriteUnfold DEF Writes
  <1>5. PICK x : Says(out, Fixed, x, w)
    BY <1>1, <1>2, <1>4, RowsSaid DEF RowSaid
  <1>6. Deep(w, MaxNesting)
    BY <1>3, TokensBound, NestingAssumption DEF Deep
  <1>7. x \in Fixed[MaxNesting] /\ out[MaxNesting][x] = w
    BY <1>5, <1>6 DEF Says
  <1>8. MaxNesting \in 0..MaxNesting
    BY NestingAssumption
  <1>9. x \in Values[MaxNesting] /\ AsRead(x) = x
    BY <1>7, <1>8, FixedAre DEF FixedValues
  <1>10. WriteString(x, PlainOptions) = w
    BY <1>4, <1>7 DEF Writes
  <1> QED
    BY <1>3, <1>9, <1>10

-----------------------------------------------------------------------------
\* Texts of the grammar that are not too long.
Fits(w)       == w \in Texts /\ Len(w) \in 1..MaxTokens
IsText(w)     == Fits(w) /\ w \in Rows[Len(w)].texts
IsElements(w) == Fits(w) /\ w \in Rows[Len(w)].elements
IsPairs(w)    == Fits(w) /\ w \in Rows[Len(w)].pairs

LEMMA FitsLength ==
    ASSUME NEW w, Fits(w)
    PROVE  \E n \in 1..MaxTokens : OfLength(w, n) /\ n = Len(w) /\ n \in Nat
  BY DEF Fits, OfLength

\* The grammar read from left to right: how its texts are made of others.
LEMMA ScalarIsText ==
    ASSUME NEW t \in Tokens, IsScalar(t), Fits(<<t>>)
    PROVE  IsText(<<t>>)
  <1>1. PICK w : w = <<t>>
    OBVIOUS
  <1>2. OfLength(w, 1)
    BY <1>1, TokenWritten, LengthOf
  <1>3. Len(w) = 1 /\ 1 \in 1..MaxTokens
    BY <1>1, <1>2 DEF OfLength, Fits
  <1>4. IsTextOf(Rows, 1, w)
    BY <1>1 DEF IsTextOf
  <1>5. w \in Rows[1].texts
    BY <1>3, <1>4, RowsAre
  <1> QED
    BY <1>1, <1>3, <1>5 DEF IsText

LEMMA BracketedIsText ==
    ASSUME NEW e \in Texts
    PROVE  /\ (e = <<>> \/ IsElements(e)) /\ Fits(Between2(Mark("["), e, Mark("]"))) =>
                  IsText(Between2(Mark("["), e, Mark("]")))
           /\ (e = <<>> \/ IsPairs(e)) /\ Fits(Between2(Mark("{"), e, Mark("}"))) =>
                  IsText(Between2(Mark("{"), e, Mark("}")))
  <1>1. PICK m \in Nat : m = Len(e) /\ OfLength(e, m)
    <2>1. OfLength(e, Len(e))
      BY LengthOf
    <2> QED
      BY <2>1, LengthOf
  <1>2. ASSUME NEW w, OfLength(w, m + 2), Fits(w), IsTextOf(Rows, m + 2, w)
        PROVE  IsText(w)
    <2>1. PICK n : n = m + 2
      OBVIOUS
    <2>2. Len(w) = n /\ n \in 1..MaxTokens
      BY <1>2, <2>1 DEF OfLength, Fits
    <2>3. w \in Rows[n].texts
      BY <1>2, <2>1, <2>2, RowsAre
    <2> QED
      BY <1>2, <2>2, <2>3 DEF IsText
  <1>3. m + 2 # 1 /\ (m + 2) - 2 = m
    OBVIOUS
  <1>4. ASSUME e = <<>> \/ IsElements(e), Fits(Between2(Mark("["), e, Mark("]")))
        PROVE  IsText(Between2(Mark("["), e, Mark("]")))
    <2>1. PICK w : w = Between2(Mark("["), e, Mark("]"))
      OBVIOUS
    <2>2. OfLength(w, m + 2)
      BY <1>1, <2>1, MarksInAlphabet, BetweenLength
    <2>3. e \in Rows[m].elements
      <3>1. CASE e = <<>>
        <4>1. m = 0
          BY <1>1, <3>1
        <4> QED
          BY <3>1, <4>1, RowsAre
      <3>2. CASE IsElements(e)
        BY <1>1, <3>2 DEF IsElements
      <3> QED
        BY <1>4, <3>1, <3>2
    <2>4. IsTextOf(Rows, m + 2, w)
      BY <1>3, <2>1, <2>3 DEF IsTextOf
    <2> QED
      BY <1>2, <1>4, <2>1, <2>2, <2>4
  <1>5. ASSUME e = <<>> \/ IsPairs(e), Fits(Between2(Mark("{"), e, Mark("}")))
        PROVE  IsText(Between2(Mark("{"), e, Mark("}")))
    <2>1. PICK w : w = Between2(Mark("{"), e, Mark("}"))
      OBVIOUS
    <2>2. OfLength(w, m + 2)
      BY <1>1, <2>1, MarksInAlphabet, BetweenLength
    <2>3. e \in Rows[m].pairs
      <3>1. CASE e = <<>>
        <4>1. m = 0
          BY <1>1, <3>1
        <4> QED
          BY <3>1, <4>1, RowsAre
      <3>2. CASE IsPairs(e)
        BY <1>1, <3>2 DEF IsPairs
      <3> QED
        BY <1>5, <3>1, <3>2
    <2>4. IsTextOf(Rows, m + 2, w)
      BY <1>3, <2>1, <2>3 DEF IsTextOf
    <2> QED
      BY <1>2, <1>5, <2>1, <2>2, <2>4
  <1> QED
    BY <1>4, <1>5

LEMMA TextIsElement ==
    ASSUME NEW w, IsText(w)
    PROVE  IsElements(w)
  <1>1. PICK n \in 1..MaxTokens : n = Len(w)
    BY FitsLength DEF IsText
  <1>2. IsTextOf(Rows, n, w)
    BY <1>1, RowsAre DEF IsText
  <1>3. AreElementsOf(Rows, n, w)
    BY <1>2 DEF AreElementsOf
  <1>4. w \in Rows[n].elements
    BY <1>3, RowsAre
  <1> QED
    BY <1>1, <1>4 DEF IsText, IsElements

LEMMA CommaIsElements ==
    ASSUME NEW t, IsText(t), NEW e, IsElements(e), Fits(Comma(t, e))
    PROVE  IsElements(Comma(t, e))
  <1>1. PICK w : w = Comma(t, e)
    OBVIOUS
  <1>2. PICK m \in 1..MaxTokens : OfLength(t, m) /\ m = Len(t)
    BY FitsLength DEF IsText
  <1>3. PICK k \in 1..MaxTokens : OfLength(e, k) /\ k = Len(e)
    BY FitsLength DEF IsElements
  <1>4. OfLength(w, m + 1 + k)
    BY <1>1, <1>2, <1>3, CommaLength
  <1>5. PICK n : n = m + 1 + k
    OBVIOUS
  <1>6. n = Len(w) /\ n \in 1..MaxTokens
    BY <1>1, <1>4, <1>5 DEF Fits, OfLength
  <1>7. m \in 1..(n - 2) /\ n - 1 - m = k
    BY <1>5, TokensBound
  <1>8. t \in Rows[m].texts /\ e \in Rows[k].elements
    BY <1>2, <1>3 DEF IsText, IsElements
  <1>9. AreElementsOf(Rows, n, w)
    BY <1>1, <1>7, <1>8 DEF AreElementsOf
  <1>10. w \in Rows[n].elements
    BY <1>6, <1>9, RowsAre
  <1> QED
    BY <1>1, <1>6, <1>10 DEF IsElements

\* A pair of n tokens.
LEMMA PairIs ==
    ASSUME NEW x \in Names, NEW t, IsText(t)
    PROVE  \E m \in Nat : OfLength(NameAnd(x, t), m) /\ m >= 3 /\ IsPairOf(Rows, m, NameAnd(x, t))
  <1>1. PICK w : w = NameAnd(x, t)
    OBVIOUS
  <1>2. PICK k \in 1..MaxTokens : OfLength(t, k) /\ k = Len(t)
    BY FitsLength DEF IsText
  <1>3. PICK m \in Nat : m = 2 + k
    <2>1. 2 + k \in Nat
      BY TokensBound
    <2> QED
      BY <2>1
  <1>4. OfLength(w, m)
    BY <1>1, <1>2, <1>3, NameLength
  <1>5. m >= 3 /\ m - 2 = k
    BY <1>3
  <1>6. t \in Rows[k].texts
    BY <1>2 DEF IsText
  <1>7. IsPairOf(Rows, m, w)
    BY <1>1, <1>5, <1>6 DEF IsPairOf
  <1> QED
    BY <1>1, <1>4, <1>5, <1>7

LEMMA PairIsPairs ==
    ASSUME NEW x \in Names, NEW t, IsText(t), Fits(NameAnd(x, t))
    PROVE  IsPairs(NameAnd(x, t))
  <1>1. PICK w : w = NameAnd(x, t)
    OBVIOUS
  <1>2. PICK n \in Nat : OfLength(w, n) /\ n >= 3 /\ IsPairOf(Rows, n, w)
    BY <1>1, PairIs
  <1>3. n = Len(w) /\ n \in 1..MaxTokens
    BY <1>1, <1>2 DEF Fits, OfLength
  <1>4. ArePairsOf(Rows, n, w)
    BY <1>2 DEF ArePairsOf
  <1>5. w \in Rows[n].pairs
    BY <1>3, <1>4, RowsAre
  <1> QED
    BY <1>1, <1>3, <1>5 DEF IsPairs

LEMMA CommaIsPairs ==
    ASSUME NEW x \in Names, NEW t, IsText(t), NEW q, IsPairs(q), Fits(Comma(NameAnd(x, t), q))
    PROVE  IsPairs(Comma(NameAnd(x, t), q))
  <1>1. PICK p : p = NameAnd(x, t)
    OBVIOUS
  <1>2. PICK w : w = Comma(p, q)
    OBVIOUS
  <1>3. PICK m \in Nat : OfLength(p, m) /\ m >= 3 /\ IsPairOf(Rows, m, p)
    BY <1>1, PairIs
  <1>4. PICK k \in 1..MaxTokens : OfLength(q, k) /\ k = Len(q)
    BY FitsLength DEF IsPairs
  <1>5. OfLength(w, m + 1 + k)
    BY <1>2, <1>3, <1>4, CommaLength
  <1>6. PICK n : n = m + 1 + k
    OBVIOUS
  <1>7. n = Len(w) /\ n \in 1..MaxTokens
    BY <1>1, <1>2, <1>5, <1>6 DEF Fits, OfLength
  <1>8. m \in 3..(n - 2) /\ n - 1 - m = k /\ n >= 3
    BY <1>3, <1>6, TokensBound
  <1>9. q \in Rows[k].pairs
    BY <1>4 DEF IsPairs
  <1>10. ArePairsOf(Rows, n, w)
    BY <1>2, <1>3, <1>8, <1>9 DEF ArePairsOf
  <1>11. w \in Rows[n].pairs
    BY <1>7, <1>10, RowsAre
  <1> QED
    BY <1>1, <1>2, <1>7, <1>11 DEF IsPairs

-----------------------------------------------------------------------------
\* What may follow where the grammar expects something, up to the end of the
\* container it is in; c is the mark that ends the container.
Listed(c, e)   == IF c = "]" THEN IsElements(e) ELSE IsPairs(e)
NextEnd(c, a)  == \E e \in Texts : Listed(c, e) /\ a = Cat(e, <<Mark(c)>>)
FirstEnd(c, a) == a = <<Mark(c)>> \/ NextEnd(c, a)
AfterEnd(c, a) == a = <<Mark(c)>> \/ \E b \in Texts : NextEnd(c, b) /\ a = Cat(<<Mark(",")>>, b)
ValueEnd(a)    == \E t \in Texts, b \in Texts : IsText(t) /\ AfterEnd("}", b) /\ a = Cat(t, b)
ColonEnd(a)    == \E b \in Texts : ValueEnd(b) /\ a = Cat(<<Mark(":")>>, b)

Ending(e, a) ==
    \/ e = "json" /\ IsText(a)
    \/ e = "end" /\ a = <<>>
    \/ e = "first_element" /\ FirstEnd("]", a)
    \/ e = "next_element" /\ NextEnd("]", a)
    \/ e = "after_element" /\ AfterEnd("]", a)
    \/ e = "first_pair" /\ FirstEnd("}", a)
    \/ e = "next_pair" /\ NextEnd("}", a)
    \/ e = "after_pair" /\ AfterEnd("}", a)
    \/ e = "colon" /\ ColonEnd(a)
    \/ e = "pair_value" /\ ValueEnd(a)

\* Texts put together.
LEMMA TextsCat ==
    /\ <<>> \in Texts /\ \A t \in Alphabet : <<t>> \in Texts
    /\ \A s, t \in Texts : Cat(s, t) \in Texts /\ Len(Cat(s, t)) = Len(s) + Len(t) /\ Len(s) \in Nat /\ Len(t) \in Nat
    /\ \A s, t, u \in Texts : Cat(Cat(s, t), u) = Cat(s, Cat(t, u))
    /\ \A s \in Texts : Cat(<<>>, s) = s /\ Cat(s, <<>>) = s
  <1>1. ASSUME NEW s \in Texts, NEW t \in Texts
        PROVE  Cat(s, t) \in Texts /\ Len(Cat(s, t)) = Len(s) + Len(t) /\ Len(s) \in Nat /\ Len(t) \in Nat
    <2>1. OfLength(s, Len(s)) /\ OfLength(t, Len(t))
      BY LengthOf
    <2>2. OfLength(Cat(s, t), Len(s) + Len(t))
      BY <2>1, CatLength
    <2> QED
      BY <2>1, <2>2, LengthOf
  <1>2. ASSUME NEW s \in Texts, NEW t \in Texts, NEW u \in Texts
        PROVE  Cat(Cat(s, t), u) = Cat(s, Cat(t, u))
    BY CatAssociates DEF Texts
  <1>3. \A s \in Texts : Cat(<<>>, s) = s /\ Cat(s, <<>>) = s
    BY CatEmpty DEF Texts
  <1> QED
    BY <1>1, <1>2, <1>3, LengthOf

LEMMA MarkTexts == \A c \in {"{", "}", "[", "]", ":", ","} : <<Mark(c)>> \in Texts /\ Len(<<Mark(c)>>) = 1
  <1> SUFFICES ASSUME NEW c \in {"{", "}", "[", "]", ":", ","}
               PROVE  <<Mark(c)>> \in Texts /\ Len(<<Mark(c)>>) = 1
    OBVIOUS
  <1>1. OfLength(<<Mark(c)>>, 1)
    BY MarksInAlphabet, LengthOf
  <1> QED
    BY <1>1, LengthOf

\* An ending is a text.
LEMMA EndingTexts ==
    ASSUME NEW e, NEW a, Ending(e, a)
    PROVE  a \in Texts
  <1>0. \A s, t \in Texts : Cat(s, t) \in Texts
    BY TextsCat
  <1>1. ASSUME NEW c \in {"}", "]"}
        PROVE  /\ NextEnd(c, a) => a \in Texts
               /\ FirstEnd(c, a) => a \in Texts
               /\ AfterEnd(c, a) => a \in Texts
    <2>1. <<Mark(c)>> \in Texts /\ <<Mark(",")>> \in Texts
      BY MarkTexts
    <2>2. \A u : NextEnd(c, u) => u \in Texts
      BY <1>0, <2>1, Zenon DEF NextEnd
    <2> QED
      BY <1>0, <2>1, <2>2, Zenon DEF FirstEnd, AfterEnd
  <1>2. ValueEnd(a) => a \in Texts
    BY <1>0, Zenon DEF ValueEnd
  <1>3. ColonEnd(a) => a \in Texts
    BY <1>0, MarkTexts DEF ColonEnd
  <1>4. IsText(a) => a \in Texts
    BY DEF IsText, Fits
  <1> QED
    BY <1>1, <1>2, <1>3, <1>4, TextsCat DEF Ending

\* A text where a value is expected, and what follows it.
LEMMA ValueEnds ==
    ASSUME NEW e \in BeforeValue, NEW t, IsText(t), NEW b, Ending(AfterOf(e), b), Len(Cat(t, b)) <= MaxTokens
    PROVE  Ending(e, Cat(t, b))
  <1>1. t \in Texts /\ b \in Texts
    BY EndingTexts DEF IsText, Fits
  <1>2. CASE e = "json"
    <2>1. b = <<>>
      BY <1>2 DEF AfterOf, Ending
    <2>2. Cat(t, b) = t
      BY <1>1, <2>1, TextsCat
    <2> QED
      BY <1>2, <2>2 DEF Ending
  <1>3. CASE e = "pair_value"
    <2>1. AfterEnd("}", b)
      BY <1>3 DEF AfterOf, Ending
    <2> QED
      BY <1>1, <1>3, <2>1 DEF Ending, ValueEnd
  <1>4. CASE e \in {"first_element", "next_element"}
    <2>1. AfterEnd("]", b)
      BY <1>4 DEF AfterOf, Ending
    <2>2. PICK z \in Texts : z = <<Mark("]")>>
      BY MarkTexts
    <2>3. NextEnd("]", Cat(t, b))
      <3>1. CASE b = z
        <4>1. IsElements(t)
          BY TextIsElement
        <4> QED
          BY <1>1, <2>2, <3>1, <4>1 DEF NextEnd, Listed
      <3>2. CASE b # z
        <4>1. PICK y \in Texts : IsElements(y) /\ b = Cat(<<Mark(",")>>, Cat(y, z))
          BY <2>1, <2>2, <3>2 DEF AfterEnd, NextEnd, Listed
        <4>2. PICK k \in Texts : k = <<Mark(",")>>
          BY MarkTexts
        <4>3. Cat(t, Cat(k, Cat(y, z))) = Cat(Cat(Cat(t, k), y), z)
          <5>1. Cat(y, z) \in Texts /\ Cat(t, k) \in Texts
            BY <1>1, <4>2, TextsCat
          <5>2. Cat(t, Cat(k, Cat(y, z))) = Cat(Cat(t, k), Cat(y, z))
            BY <1>1, <4>2, <5>1, TextsCat
          <5>3. Cat(Cat(t, k), Cat(y, z)) = Cat(Cat(Cat(t, k), y), z)
            BY <5>1, TextsCat
          <5> QED
            BY <5>2, <5>3
        <4>4. PICK w : w = Cat(Cat(t, k), y)
          OBVIOUS
        <4>5. w \in Texts /\ Cat(t, b) = Cat(w, z)
          BY <1>1, <4>1, <4>2, <4>3, <4>4, TextsCat
        <4>6. Fits(w)
          <5>1. Len(Cat(w, z)) = Len(w) + Len(z) /\ Len(w) \in Nat /\ Len(z) \in Nat
            BY <4>5, TextsCat
          <5>2. Len(w) = Len(Cat(t, k)) + Len(y) /\ Len(Cat(t, k)) \in Nat
            <6>1. Cat(t, k) \in Texts
              BY <1>1, TextsCat
            <6> QED
              BY <4>4, <6>1, TextsCat
          <5>3. Len(y) >= 1
            <6>1. PICK i \in 1..MaxTokens : i = Len(y) /\ i \in Nat
              BY <4>1, FitsLength DEF IsElements
            <6> QED
              BY <6>1
          <5>4. PICK l, m, n, p \in Nat : l = Len(w) /\ m = Len(z) /\ n = Len(Cat(t, k)) /\ p = Len(y)
            BY <4>1, <5>1, <5>2, TextsCat
          <5>5. l + m <= MaxTokens /\ l = n + p /\ p >= 1
            BY <4>5, <5>1, <5>2, <5>3, <5>4
          <5>6. l \in 1..MaxTokens
            BY <5>4, <5>5, TokensBound
          <5> QED
            BY <4>5, <5>4, <5>6 DEF Fits
        <4>7. IsElements(w)
          BY <4>1, <4>2, <4>4, <4>6, CommaIsElements DEF Comma
        <4> QED
          BY <2>2, <4>5, <4>7 DEF NextEnd, Listed
      <3> QED
        BY <3>1, <3>2
    <2> QED
      BY <1>4, <2>3 DEF Ending, FirstEnd
  <1> QED
    BY <1>2, <1>3, <1>4 DEF BeforeValue

\* A container that has begun where a value is expected, and what follows it.
LEMMA ContainerEnds ==
    ASSUME NEW e \in BeforeValue, NEW a, NEW b, Ending(AfterOf(e), b), NEW k, NEW z, k \in Texts, z \in Texts,
           \/ Ending("first_element", a) /\ k = <<Mark("[")>> /\ z = <<Mark("]")>>
           \/ Ending("first_pair", a) /\ k = <<Mark("{")>> /\ z = <<Mark("}")>>,
           Len(Cat(k, Cat(a, b))) <= MaxTokens
    PROVE  Ending(e, Cat(k, Cat(a, b)))
  <1>1. a \in Texts /\ b \in Texts
    BY EndingTexts
  <1>2. Cat(k, Cat(a, b)) = Cat(Cat(k, a), b)
    BY <1>1, TextsCat
  <1>3. PICK y \in Texts : /\ a = Cat(y, z)
                           /\ \/ (y = <<>> \/ IsElements(y)) /\ k = <<Mark("[")>> /\ z = <<Mark("]")>>
                              \/ (y = <<>> \/ IsPairs(y)) /\ k = <<Mark("{")>> /\ z = <<Mark("}")>>
    <2>1. CASE a = z
      <3>1. a = Cat(<<>>, z) /\ <<>> \in Texts
        BY <2>1, TextsCat
      <3> QED
        BY <3>1
    <2>2. CASE a # z
      BY <2>2 DEF Ending, FirstEnd, NextEnd, Listed
    <2> QED
      BY <2>1, <2>2
  <1>4. PICK t : t = Cat(Cat(k, y), z)
    OBVIOUS
  <1>5. t \in Texts /\ t = Cat(k, a)
    BY <1>3, <1>4, TextsCat
  <1>6. Fits(t)
    <2>1. Len(Cat(t, b)) = Len(t) + Len(b) /\ Len(t) \in Nat /\ Len(b) \in Nat
      BY <1>1, <1>5, TextsCat
    <2>2. Len(t) = Len(k) + Len(a) /\ Len(a) \in Nat
      BY <1>1, <1>5, TextsCat
    <2>3. Len(k) = 1
      BY <1>3, MarkTexts
    <2>4. PICK l, m, n \in Nat : l = Len(t) /\ m = Len(b) /\ n = Len(a)
      BY <2>1, <2>2
    <2>5. l + m <= MaxTokens /\ l = 1 + n
      <3>1. Len(Cat(t, b)) <= MaxTokens
        BY <1>2, <1>5
      <3> QED
        BY <2>1, <2>2, <2>3, <2>4, <3>1
    <2>6. PICK M \in Nat : M = MaxTokens
      BY TokensBound
    <2>7. l \in 1..M
      <3>1. l \in Nat /\ m \in Nat /\ n \in Nat /\ M \in Nat /\ l + m <= M /\ l = 1 + n
        BY <2>4, <2>5, <2>6
      <3> QED
        BY ONLY <3>1
    <2> QED
      BY <1>5, <2>4, <2>6, <2>7 DEF Fits
  <1>7. IsText(t)
    BY <1>3, <1>4, <1>6, BracketedIsText DEF Between2
  <1>8. Len(Cat(t, b)) <= MaxTokens
    BY <1>2, <1>5
  <1>9. Ending(e, Cat(t, b))
    BY <1>7, <1>8, ValueEnds
  <1> QED
    BY <1>2, <1>5, <1>9

\* A name where a pair is expected, and what follows it.
LEMMA NameEnds ==
    ASSUME NEW e \in BeforePair, NEW x \in Names, NEW b, Ending("colon", b), Len(Cat(<<x>>, b)) <= MaxTokens
    PROVE  Ending(e, Cat(<<x>>, b))
  <1>1. PICK t \in Texts, d \in Texts : IsText(t) /\ AfterEnd("}", d) /\ b = Cat(<<Mark(":")>>, Cat(t, d))
    BY DEF Ending, ColonEnd, ValueEnd
  <1>2. PICK n \in Texts : n = <<x>>
    BY NameWritten, TextsCat DEF Names
  <1>3. PICK k \in Texts : k = <<Mark(":")>>
    BY MarkTexts
  <1>4. PICK p : p = NameAnd(x, t)
    OBVIOUS
  <1>5. Cat(n, k) = <<x, Mark(":")>>
    <2>1. PICK m \in Alphabet : m = Mark(":")
      BY MarksInAlphabet
    <2>2. x \in Alphabet
      BY NameWritten DEF Names
    <2>3. <<x>> \o <<m>> = <<x, m>>
      <3>1. <<x>> \in Seq(Alphabet) /\ <<x, m>> = Append(<<x>>, m)
        BY <2>2
      <3>2. PICK s \in Seq(Alphabet) : s = <<x>>
        BY <3>1
      <3>3. s \o <<m>> = Append(s, m)
        OBVIOUS
      <3> QED
        BY <3>1, <3>2, <3>3
    <2> QED
      BY <1>2, <1>3, <2>1, <2>3, Zenon DEF Cat
  <1>6. p = Cat(Cat(n, k), t)
    BY <1>4, <1>5, Zenon DEF NameAnd
  <1>7. p \in Texts /\ Len(p) >= 1 /\ Len(p) \in Nat
    <2>1. PICK m \in Nat : OfLength(p, m) /\ m >= 3
      BY <1>1, <1>4, PairIs
    <2> QED
      BY <2>1, LengthOf
  <1>8. Cat(n, b) = Cat(p, d)
    <2>1. Cat(t, d) \in Texts /\ Cat(n, k) \in Texts
      BY <1>1, TextsCat
    <2>2. Cat(n, Cat(k, Cat(t, d))) = Cat(Cat(n, k), Cat(t, d))
      BY <1>3, <2>1, TextsCat
    <2>3. Cat(Cat(n, k), Cat(t, d)) = Cat(Cat(Cat(n, k), t), d)
      BY <1>1, <2>1, TextsCat
    <2> QED
      BY <1>1, <1>3, <1>6, <2>2, <2>3
  <1>9. PICK z \in Texts : z = <<Mark("}")>> /\ Len(z) = 1
    BY MarkTexts
  <1>10. ASSUME NEW u \in Texts, NEW v \in Texts, Len(Cat(u, v)) <= MaxTokens, Len(u) >= 1
         PROVE  Fits(u)
    <2>1. PICK l, m \in Nat : l = Len(u) /\ m = Len(v) /\ Len(Cat(u, v)) = l + m
      BY TextsCat
    <2>2. l \in 1..MaxTokens
      BY <1>10, <2>1, TokensBound
    <2> QED
      BY <2>1, <2>2 DEF Fits
  <1>11. Len(Cat(p, d)) <= MaxTokens
    BY <1>2, <1>8
  <1>12. NextEnd("}", Cat(p, d))
    <2>1. CASE d = z
      <3>1. Fits(p)
        BY <1>7, <1>10, <1>11
      <3>2. IsPairs(p)
        BY <1>1, <1>4, <3>1, PairIsPairs
      <3> QED
        BY <1>7, <1>9, <2>1, <3>2 DEF NextEnd, Listed
    <2>2. CASE d # z
      <3>1. PICK q \in Texts : IsPairs(q) /\ d = Cat(<<Mark(",")>>, Cat(q, z))
        BY <1>1, <1>9, <2>2 DEF AfterEnd, NextEnd, Listed
      <3>2. PICK j \in Texts : j = <<Mark(",")>>
        BY MarkTexts
      <3>3. PICK w : w = Cat(Cat(p, j), q)
        OBVIOUS
      <3>4. Cat(p, j) \in Texts /\ Cat(q, z) \in Texts /\ w \in Texts
        BY <1>7, <3>3, TextsCat
      <3>5. Cat(p, d) = Cat(w, z)
        <4>1. Cat(p, Cat(j, Cat(q, z))) = Cat(Cat(p, j), Cat(q, z))
          BY <1>7, <3>4, TextsCat
        <4>2. Cat(Cat(p, j), Cat(q, z)) = Cat(w, z)
          BY <3>3, <3>4, TextsCat
        <4> QED
          BY <3>1, <3>2, <4>1, <4>2
      <3>6. Len(w) >= 1
        <4>1. Len(w) = Len(Cat(p, j)) + Len(q) /\ Len(q) \in Nat
          BY <3>3, <3>4, TextsCat
        <4>2. Len(Cat(p, j)) = Len(p) + Len(j) /\ Len(j) \in Nat
          BY <1>7, TextsCat
        <4> QED
          BY <1>7, <4>1, <4>2
      <3>7. Fits(w)
        BY <1>10, <1>11, <3>4, <3>5, <3>6
      <3>8. IsPairs(w)
        BY <1>1, <1>4, <3>1, <3>2, <3>3, <3>7, CommaIsPairs DEF Comma
      <3> QED
        BY <1>9, <3>4, <3>5, <3>8 DEF NextEnd, Listed
    <2> QED
      BY <2>1, <2>2
  <1> QED
    BY <1>2, <1>8, <1>12 DEF BeforePair, Ending, FirstEnd

-----------------------------------------------------------------------------
\* What may follow of a text, for each of the frames.
Follows(e, u, w) == \E a \in Texts : Ending(e, a) /\ u \in Texts /\ w = Cat(a, u)
RestsBy(h, f, w) == h[0] = <<>> /\ w = h[Len(f)] /\ \A i \in 1..Len(f) : Follows(f[i], h[i - 1], h[i])
Rests(f, w)      == \E h : RestsBy(h, f, w)

\* Whatever may follow makes a text of what has been read, s.
Sound(f, s) == \A w : Rests(f, w) /\ w \in Texts /\ Len(s) + Len(w) <= MaxTokens => IsText(Cat(s, w))

\* What fits as a whole fits in part.
LEMMA PartFits ==
    ASSUME NEW s \in Texts, NEW t \in Texts, Len(Cat(s, t)) <= MaxTokens
    PROVE  Len(s) <= MaxTokens
  <1>1. Len(Cat(s, t)) = Len(s) + Len(t) /\ Len(s) \in Nat /\ Len(t) \in Nat
    BY TextsCat
  <1>2. PICK l, m, M \in Nat : l = Len(s) /\ m = Len(t) /\ M = MaxTokens
    BY <1>1, TokensBound
  <1>3. l \in Nat /\ m \in Nat /\ M \in Nat /\ l + m <= M
    BY <1>1, <1>2
  <1>4. l <= M
    BY ONLY <1>3
  <1> QED
    BY <1>2, <1>4

LEMMA RestsNone == \A w : Rests(<<>>, w) <=> w = <<>>
  <1>1. Len(<<>>) = 0 /\ 1..0 = {}
    OBVIOUS
  <1>2. ASSUME NEW h, NEW w, h[0] = <<>>, w = <<>>
        PROVE  RestsBy(h, <<>>, w)
    BY <1>1, <1>2 DEF RestsBy
  <1>3. \E h : h[0] = <<>>
    <2>1. [i \in {0} |-> <<>>][0] = <<>>
      OBVIOUS
    <2> QED
      BY <2>1
  <1>4. ASSUME NEW h, NEW w, RestsBy(h, <<>>, w)
        PROVE  w = <<>>
    BY <1>1, <1>4 DEF RestsBy
  <1> QED
    BY <1>2, <1>3, <1>4 DEF Rests

\* The rest is that of the frame on top, and then that of the others.
LEMMA RestsTop ==
    ASSUME NEW S, NEW g \in Seq(S), NEW e \in S, NEW w
    PROVE  Rests(Append(g, e), w) <=> \E u : Rests(g, u) /\ Follows(e, u, w)
  <1>1. PICK f : f = Append(g, e)
    OBVIOUS
  <1>2. PICK n \in Nat : n = Len(g)
    OBVIOUS
  <1>3. Len(f) = n + 1 /\ f[n + 1] = e /\ \A i \in 1..n : f[i] = g[i]
    BY <1>1, <1>2
  <1>4. ASSUME NEW h, RestsBy(h, f, w)
        PROVE  \E u : Rests(g, u) /\ Follows(e, u, w)
    <2>1. h[0] = <<>> /\ w = h[n + 1] /\ \A i \in 1..(n + 1) : Follows(f[i], h[i - 1], h[i])
      BY <1>3, <1>4 DEF RestsBy
    <2>2. ASSUME NEW i \in 1..n
          PROVE  Follows(g[i], h[i - 1], h[i])
      <3>1. i \in 1..(n + 1)
        OBVIOUS
      <3> QED
        BY <1>3, <2>1, <3>1
    <2>3. RestsBy(h, g, h[n])
      BY <1>2, <2>1, <2>2 DEF RestsBy
    <2>4. Follows(e, h[n], w)
      <3>1. n + 1 \in 1..(n + 1) /\ (n + 1) - 1 = n
        OBVIOUS
      <3> QED
        BY <1>3, <2>1, <3>1
    <2> QED
      BY <2>3, <2>4 DEF Rests
  <1>5. ASSUME NEW u, NEW h, RestsBy(h, g, u), Follows(e, u, w)
        PROVE  Rests(f, w)
    <2>1. h[0] = <<>> /\ u = h[n] /\ \A i \in 1..n : Follows(g[i], h[i - 1], h[i])
      BY <1>2, <1>5 DEF RestsBy
    <2> DEFINE k == [i \in 0..(n + 1) |-> IF i = n + 1 THEN w ELSE h[i]]
    <2>2. k[n + 1] = w /\ \A i \in 0..n : k[i] = h[i]
      OBVIOUS
    <2> HIDE DEF k
    <2>3. ASSUME NEW i \in 1..(n + 1)
          PROVE  Follows(f[i], k[i - 1], k[i])
      <3>1. CASE i = n + 1
        <4>1. i - 1 = n /\ n \in 0..n
          BY <3>1
        <4>2. f[i] = e /\ k[i] = w /\ k[i - 1] = u
          BY <1>3, <2>1, <2>2, <3>1, <4>1
        <4> QED
          BY <1>5, <4>2
      <3>2. CASE i # n + 1
        <4>1. i \in 1..n /\ i \in 0..n /\ i - 1 \in 0..n
          BY <3>2
        <4>2. f[i] = g[i] /\ k[i] = h[i] /\ k[i - 1] = h[i - 1]
          BY <1>3, <2>2, <4>1
        <4> QED
          BY <2>1, <4>1, <4>2
      <3> QED
        BY <3>1, <3>2
    <2>4. k[0] = <<>>
      <3>1. 0 \in 0..n
        OBVIOUS
      <3> QED
        BY <2>1, <2>2, <3>1
    <2>5. RestsBy(k, f, w)
      BY <1>3, <2>2, <2>3, <2>4 DEF RestsBy
    <2> QED
      BY <2>5 DEF Rests
  <1> QED
    BY <1>1, <1>4, <1>5, Zenon DEF Rests

\* Of nothing read, with a text expected.
LEMMA SoundFirst == Sound(<<"json">>, <<>>)
  <1> SUFFICES ASSUME NEW w, Rests(<<"json">>, w), w \in Texts
               PROVE  IsText(Cat(<<>>, w))
    BY DEF Sound
  <1>1. <<>> \in Seq({"json"}) /\ Append(<<>>, "json") = <<"json">>
    OBVIOUS
  <1>2. Rests(Append(<<>>, "json"), w)
    BY <1>1
  <1>3. PICK u : Rests(<<>>, u) /\ Follows("json", u, w)
    BY <1>1, <1>2, RestsTop
  <1>4. u = <<>>
    BY <1>3, RestsNone
  <1>5. PICK a \in Texts : Ending("json", a) /\ w = Cat(a, <<>>)
    BY <1>3, <1>4 DEF Follows
  <1>6. w = a /\ Cat(<<>>, w) = w
    BY <1>5, TextsCat
  <1>7. IsText(a)
    BY <1>5 DEF Ending
  <1> QED
    BY <1>6, <1>7

\* With nothing expected any more, it is a text.
LEMMA SoundLast ==
    ASSUME NEW s \in Texts, Len(s) <= MaxTokens, Sound(<<"end">>, s)
    PROVE  IsText(s)
  <1>1. <<>> \in Seq({"end"}) /\ Append(<<>>, "end") = <<"end">> /\ Len(<<>>) = 0
    OBVIOUS
  <1>2. <<>> \in Texts /\ Cat(<<>>, <<>>) = <<>> /\ Cat(s, <<>>) = s /\ Len(s) \in Nat
    BY TextsCat
  <1>3. Ending("end", <<>>)
    BY DEF Ending
  <1>4. Follows("end", <<>>, <<>>)
    BY <1>2, <1>3 DEF Follows
  <1>5. Rests(<<>>, <<>>)
    BY RestsNone
  <1>6. Rests(Append(<<>>, "end"), <<>>)
    BY <1>1, <1>4, <1>5, RestsTop
  <1>7. Rests(<<"end">>, <<>>)
    BY <1>1, <1>6
  <1>8. Len(s) + Len(<<>>) <= MaxTokens
    BY <1>1, <1>2
  <1>9. IsText(Cat(s, <<>>))
    BY <1>2, <1>7, <1>8 DEF Sound
  <1> QED
    BY <1>2, <1>9

\* One more token read: what follows it, in front of what follows s.
LEMMA SoundStep ==
    ASSUME NEW f, NEW s \in Texts, Sound(f, s), NEW t \in Alphabet, NEW g,
           \A w \in Texts : Rests(g, w) /\ Len(Cat(<<t>>, w)) <= MaxTokens => Rests(f, Cat(<<t>>, w))
    PROVE  Append(s, t) \in Texts /\ Sound(g, Append(s, t))
  <1>1. PICK y \in Texts : y = <<t>> /\ Len(y) = 1
    <2>1. OfLength(<<t>>, 1)
      BY LengthOf
    <2> QED
      BY <2>1, LengthOf
  <1>2. Append(s, t) = Cat(s, y)
    <2>1. s \in Seq(Alphabet)
      BY DEF Texts
    <2>2. Append(s, t) = s \o <<t>>
      BY <2>1
    <2> QED
      BY <1>1, <2>2, Zenon DEF Cat
  <1>3. Cat(s, y) \in Texts /\ Len(Cat(s, y)) = Len(s) + 1
    BY <1>1, TextsCat
  <1>4. ASSUME NEW w \in Texts, Rests(g, w), Len(Cat(s, y)) + Len(w) <= MaxTokens
        PROVE  IsText(Cat(Cat(s, y), w))
    <2>1. PICK l, m \in Nat : l = Len(s) /\ m = Len(w)
      BY TextsCat
    <2>2. Cat(y, w) \in Texts /\ Len(Cat(y, w)) = 1 + m
      BY <1>1, <2>1, TextsCat
    <2>3. l + 1 + m <= MaxTokens
      BY <1>3, <1>4, <2>1
    <2>4. PICK M \in Nat : M = MaxTokens
      BY TokensBound
    <2>5. 1 + m <= M /\ l + (1 + m) <= M
      <3>1. l \in Nat /\ m \in Nat /\ M \in Nat /\ l + 1 + m <= M
        BY <2>1, <2>3, <2>4
      <3> QED
        BY ONLY <3>1
    <2>6. Rests(f, Cat(y, w))
      BY <1>1, <1>4, <2>2, <2>4, <2>5
    <2>7. IsText(Cat(s, Cat(y, w)))
      BY <2>1, <2>2, <2>4, <2>5, <2>6 DEF Sound
    <2> QED
      BY <1>1, <2>7, TextsCat
  <1> QED
    BY <1>2, <1>3, <1>4 DEF Sound

\* The expectation on top replaced by another.
LEMMA SoundOn ==
    ASSUME NEW S, NEW g \in Seq(S), NEW e \in S, NEW e2 \in S,
           NEW s \in Texts, Sound(Append(g, e), s), NEW t \in Alphabet,
           \A a \in Texts : Ending(e2, a) /\ Len(Cat(<<t>>, a)) <= MaxTokens => Ending(e, Cat(<<t>>, a))
    PROVE  Append(s, t) \in Texts /\ Sound(Append(g, e2), Append(s, t))
  <1>1. PICK y \in Texts : y = <<t>>
    BY TextsCat
  <1>2. ASSUME NEW w \in Texts, Rests(Append(g, e2), w), Len(Cat(y, w)) <= MaxTokens
        PROVE  Rests(Append(g, e), Cat(y, w))
    <2>1. PICK u : Rests(g, u) /\ Follows(e2, u, w)
      BY <1>2, RestsTop
    <2>2. PICK a \in Texts : Ending(e2, a) /\ u \in Texts /\ w = Cat(a, u)
      BY <2>1 DEF Follows
    <2>3. Cat(y, w) = Cat(Cat(y, a), u) /\ Cat(y, a) \in Texts
      BY <1>1, <2>2, TextsCat
    <2>4. Len(Cat(y, a)) <= MaxTokens
      BY <1>2, <2>2, <2>3, PartFits
    <2>5. Ending(e, Cat(y, a))
      BY <1>1, <2>2, <2>4
    <2>6. Follows(e, u, Cat(y, w))
      BY <2>2, <2>3, <2>5 DEF Follows
    <2> QED
      BY <2>1, <2>6, RestsTop
  <1> QED
    BY <1>1, <1>2, SoundStep

\* The container on top ends.
LEMMA SoundOff ==
    ASSUME NEW S, NEW g \in Seq(S), NEW e \in S,
           NEW s \in Texts, Sound(Append(g, e), s), NEW t \in Alphabet, Ending(e, <<t>>)
    PROVE  Append(s, t) \in Texts /\ Sound(g, Append(s, t))
  <1>1. PICK y \in Texts : y = <<t>>
    BY TextsCat
  <1>2. ASSUME NEW w \in Texts, Rests(g, w)
        PROVE  Rests(Append(g, e), Cat(y, w))
    <2>1. Follows(e, w, Cat(y, w))
      BY <1>1 DEF Follows
    <2> QED
      BY <1>2, <2>1, RestsTop
  <1> QED
    BY <1>1, <1>2, SoundStep

\* A container begins where a value is expected.
LEMMA SoundIn ==
    ASSUME NEW S, NEW g \in Seq(S), NEW e \in S, NEW e1 \in S, NEW e2 \in S,
           NEW s \in Texts, Sound(Append(g, e), s), NEW t \in Alphabet,
           \A a \in Texts, b \in Texts :
              Ending(e2, a) /\ Ending(e1, b) /\ Len(Cat(<<t>>, Cat(a, b))) <= MaxTokens
                => Ending(e, Cat(<<t>>, Cat(a, b)))
    PROVE  Append(s, t) \in Texts /\ Sound(Append(Append(g, e1), e2), Append(s, t))
  <1>1. PICK y \in Texts : y = <<t>>
    BY TextsCat
  <1>2. Append(g, e1) \in Seq(S)
    OBVIOUS
  <1>3. ASSUME NEW w \in Texts, Rests(Append(Append(g, e1), e2), w), Len(Cat(y, w)) <= MaxTokens
        PROVE  Rests(Append(g, e), Cat(y, w))
    <2>1. PICK v : Rests(Append(g, e1), v) /\ Follows(e2, v, w)
      BY <1>2, <1>3, RestsTop
    <2>2. PICK a \in Texts : Ending(e2, a) /\ v \in Texts /\ w = Cat(a, v)
      BY <2>1 DEF Follows
    <2>3. PICK u : Rests(g, u) /\ Follows(e1, u, v)
      BY <2>1, RestsTop
    <2>4. PICK b \in Texts : Ending(e1, b) /\ u \in Texts /\ v = Cat(b, u)
      BY <2>3 DEF Follows
    <2>5. PICK c \in Texts : c = Cat(a, b)
      BY TextsCat
    <2>6. w = Cat(c, u)
      BY <2>2, <2>4, <2>5, TextsCat
    <2>7. Cat(y, w) = Cat(Cat(y, c), u) /\ Cat(y, c) \in Texts
      BY <1>1, <2>4, <2>6, TextsCat
    <2>8. Len(Cat(y, c)) <= MaxTokens
      BY <1>3, <2>4, <2>7, PartFits
    <2>9. Ending(e, Cat(y, c))
      BY <1>1, <2>2, <2>4, <2>5, <2>8
    <2>10. Follows(e, u, Cat(y, w))
      BY <2>4, <2>7, <2>9 DEF Follows
    <2> QED
      BY <2>3, <2>10, RestsTop
  <1> QED
    BY <1>1, <1>3, SoundStep

-----------------------------------------------------------------------------
\* What the reader accepts.

\* A sequence and its last element.
LEMMA FrontLast ==
    ASSUME NEW S, NEW f \in Seq(S), Len(f) > 0
    PROVE  Front(f) \in Seq(S) /\ Last(f) \in S /\ f = Append(Front(f), Last(f))
  <1>1. PICK n \in Nat : n = Len(f)
    OBVIOUS
  <1>2. n \in 1..Len(f) /\ n \in 0..Len(f) /\ n - 1 \in 0..Len(f)
    BY <1>1
  <1>3. SubSeq(f, 1, n) = Append(SubSeq(f, 1, n - 1), f[n]) /\ SubSeq(f, 1, n) = f /\ SubSeq(f, 1, n - 1) \in Seq(S)
    BY <1>1, <1>2, Beginnings
  <1>4. f[n] \in S
    BY <1>2
  <1> QED
    BY <1>1, <1>3, <1>4 DEF Front, Last

\* The end of the text is not accepted, and no blank is a token.
LEMMA AcceptedTokens ==
    ASSUME NEW t \in Tokens \cup {End}, Accept(t)
    PROVE  t \in Tokens /\ t \in Alphabet /\ t # Blank
  <1>1. t \in Tokens
    BY TokensOnly DEF Accept, ReadScalar, BeginObj, BeginArray, ReadEnd, Ends, NewName, ReadMark, Skip
  <1>2. t # Blank
    BY <1>1, TokensOnly
  <1>3. IsScalar(t) \/ t[1] = "quoted" \/ \E c \in {"{", "}", "[", "]", ":", ","} : t = Mark(c)
    BY <1>2 DEF Accept, ReadScalar, BeginObj, BeginArray, ReadEnd, Ends, NewName, ReadMark, Skip
  <1>4. t \in Alphabet
    BY <1>1, <1>3, TokenWritten, NameWritten, MarksInAlphabet
  <1> QED
    BY <1>1, <1>2, <1>4

\* One token keeps what has been read sound.
LEMMA AcceptKeepsSound ==
    ASSUME NEW t \in Tokens \cup {End}, Accept(t), NEW S0, frames \in Seq(S0), Len(frames) > 0,
           text \in Texts, Sound(frames, text)
    PROVE  t \in Tokens /\ Append(text, t) \in Texts /\ Sound(frames', Append(text, t))
  <1>1. t \in Tokens /\ t \in Alphabet /\ t # Blank
    BY AcceptedTokens
  <1>2. PICK g \in Seq(S0), e \in S0 : g = Front(frames) /\ e = Last(frames) /\ frames = Append(g, e)
    BY FrontLast
  <1>3. Expects = e /\ AfterValue = AfterOf(e)
    BY <1>2 DEF Expects, AfterValue, AfterOf
  <1>4. PICK S : S = S0 \cup Expectation
    OBVIOUS
  <1>5. g \in Seq(S) /\ e \in S /\ \A x \in Expectation : x \in S
    BY <1>4
  <1>6. AfterOf(e) \in S
    BY <1>5, AfterOfTypes
  <1>7. PICK s \in Texts : s = text
    OBVIOUS
  <1>8. Sound(Append(g, e), s)
    BY <1>2, <1>7
  <1>9. PICK y \in Texts : y = <<t>> /\ Len(y) = 1
    <2>1. OfLength(<<t>>, 1)
      BY <1>1, LengthOf
    <2> QED
      BY <2>1, LengthOf
  <1>10. CASE ReadScalar(t)
    <2>1. e \in BeforeValue /\ IsScalar(t) /\ frames' = Append(g, AfterOf(e))
      BY <1>2, <1>3, <1>10 DEF ReadScalar, Expect
    <2>2. ASSUME NEW a \in Texts, Ending(AfterOf(e), a), Len(Cat(<<t>>, a)) <= MaxTokens
          PROVE  Ending(e, Cat(<<t>>, a))
      <3>1. Len(y) <= MaxTokens
        BY <1>9, <2>2, PartFits
      <3>2. 1 \in 1..MaxTokens
        BY <1>9, <3>1, TokensBound
      <3>3. Fits(<<t>>)
        BY <1>9, <3>2 DEF Fits
      <3>4. IsText(<<t>>)
        BY <1>1, <2>1, <3>3, ScalarIsText
      <3> QED
        BY <2>1, <2>2, <3>4, ValueEnds
    <2>3. Append(s, t) \in Texts /\ Sound(Append(g, AfterOf(e)), Append(s, t))
      BY <1>1, <1>5, <1>6, <1>8, <2>2, SoundOn
    <2> QED
      BY <1>1, <1>7, <2>1, <2>3
  <1>11. ASSUME e \in BeforeValue, NEW e2 \in Expectation, NEW z \in Texts, frames' = Front(frames) \o <<AfterOf(e), e2>>,
                \/ e2 = "first_element" /\ t = Mark("[") /\ z = <<Mark("]")>>
                \/ e2 = "first_pair" /\ t = Mark("{") /\ z = <<Mark("}")>>
         PROVE  Append(s, t) \in Texts /\ Sound(frames', Append(s, t))
    <2>1. frames' = Append(Append(g, AfterOf(e)), e2)
      <3>1. \A a, b : Front(frames) \o <<a, b>> = Append(Append(Front(frames), a), b)
        BY TwoOnTop
      <3> QED
        BY <1>2, <1>11, <3>1, Zenon
    <2>2. ASSUME NEW a \in Texts, NEW b \in Texts, Ending(e2, a), Ending(AfterOf(e), b),
                 Len(Cat(<<t>>, Cat(a, b))) <= MaxTokens
          PROVE  Ending(e, Cat(<<t>>, Cat(a, b)))
      <3>1. \/ Ending("first_element", a) /\ y = <<Mark("[")>> /\ z = <<Mark("]")>>
            \/ Ending("first_pair", a) /\ y = <<Mark("{")>> /\ z = <<Mark("}")>>
        BY <1>9, <1>11, <2>2
      <3>2. Len(Cat(y, Cat(a, b))) <= MaxTokens
        BY <1>9, <2>2
      <3>3. Ending(e, Cat(y, Cat(a, b)))
        BY <1>11, <2>2, <3>1, <3>2, ContainerEnds
      <3> QED
        BY <1>9, <3>3
    <2>3. e2 \in S
      BY <1>5
    <2>4. Append(s, t) \in Texts /\ Sound(Append(Append(g, AfterOf(e)), e2), Append(s, t))
      BY <1>1, <1>5, <1>6, <1>8, <2>2, <2>3, SoundIn
    <2> QED
      BY <2>1, <2>4
  <1>12. CASE BeginObj(t)
    <2>1. e \in BeforeValue /\ t = Mark("{") /\ frames' = Front(frames) \o <<AfterOf(e), "first_pair">>
      BY <1>3, <1>12 DEF BeginObj
    <2>2. "first_pair" \in Expectation /\ <<Mark("}")>> \in Texts
      BY MarkTexts DEF Expectation, BeforePair
    <2>3. Append(s, t) \in Texts /\ Sound(frames', Append(s, t))
      BY <1>11, <2>1, <2>2
    <2> QED
      BY <1>1, <1>7, <2>3
  <1>13. CASE BeginArray(t)
    <2>1. e \in BeforeValue /\ t = Mark("[") /\ frames' = Front(frames) \o <<AfterOf(e), "first_element">>
      BY <1>3, <1>13 DEF BeginArray
    <2>2. "first_element" \in Expectation /\ <<Mark("]")>> \in Texts
      BY MarkTexts DEF Expectation, BeforeValue
    <2>3. Append(s, t) \in Texts /\ Sound(frames', Append(s, t))
      BY <1>11, <2>1, <2>2
    <2> QED
      BY <1>1, <1>7, <2>3
  <1>14. CASE ReadEnd(t)
    <2>1. frames' = g
      BY <1>2, <1>14 DEF ReadEnd
    <2>2. Ending(e, <<t>>)
      BY <1>3, <1>14 DEF ReadEnd, Ends, ObjEnds, ArrEnds, Ending, FirstEnd, AfterEnd
    <2>3. Append(s, t) \in Texts /\ Sound(g, Append(s, t))
      BY <1>1, <1>5, <1>8, <2>2, SoundOff
    <2> QED
      BY <1>1, <1>7, <2>1, <2>3
  <1>15. ASSUME NEW e2 \in Expectation, frames' = Append(g, e2),
                \A a \in Texts : Ending(e2, a) /\ Len(Cat(<<t>>, a)) <= MaxTokens => Ending(e, Cat(<<t>>, a))
         PROVE  Append(s, t) \in Texts /\ Sound(frames', Append(s, t))
    <2>1. e2 \in S
      BY <1>5
    <2>2. Append(s, t) \in Texts /\ Sound(Append(g, e2), Append(s, t))
      BY <1>1, <1>5, <1>8, <1>15, <2>1, SoundOn
    <2> QED
      BY <1>15, <2>2
  <1>16. CASE NewName(t)
    <2>1. e \in BeforePair /\ t[1] = "quoted" /\ frames' = Append(g, "colon")
      BY <1>2, <1>3, <1>16 DEF NewName, Expect
    <2>2. t \in Names
      BY <1>1, <2>1 DEF Names
    <2>3. \A a \in Texts : Ending("colon", a) /\ Len(Cat(<<t>>, a)) <= MaxTokens => Ending(e, Cat(<<t>>, a))
      BY <2>1, <2>2, NameEnds
    <2>4. "colon" \in Expectation
      BY DEF Expectation
    <2>5. Append(s, t) \in Texts /\ Sound(frames', Append(s, t))
      BY <1>15, <2>1, <2>3, <2>4
    <2> QED
      BY <1>1, <1>7, <2>5
  <1>17. CASE ReadMark(t)
    <2>1. CASE t = Mark(":") /\ e = "colon" /\ Expect("pair_value")
      <3>1. frames' = Append(g, "pair_value") /\ "pair_value" \in Expectation
        BY <1>2, <2>1 DEF Expect, Expectation, BeforeValue
      <3>2. \A a \in Texts : Ending("pair_value", a) => Ending(e, Cat(<<t>>, a))
        BY <2>1 DEF Ending, ColonEnd
      <3>3. Append(s, t) \in Texts /\ Sound(frames', Append(s, t))
        BY <1>15, <3>1, <3>2
      <3> QED
        BY <1>1, <1>7, <3>3
    <2>2. CASE t = Mark(",") /\ e = "after_pair" /\ Expect("next_pair")
      <3>1. frames' = Append(g, "next_pair") /\ "next_pair" \in Expectation
        BY <1>2, <2>2 DEF Expect, Expectation, BeforePair
      <3>2. \A a \in Texts : Ending("next_pair", a) => Ending(e, Cat(<<t>>, a))
        BY <2>2 DEF Ending, AfterEnd
      <3>3. Append(s, t) \in Texts /\ Sound(frames', Append(s, t))
        BY <1>15, <3>1, <3>2
      <3> QED
        BY <1>1, <1>7, <3>3
    <2>3. CASE t = Mark(",") /\ e = "after_element" /\ Expect("next_element")
      <3>1. frames' = Append(g, "next_element") /\ "next_element" \in Expectation
        BY <1>2, <2>3 DEF Expect, Expectation, BeforeValue
      <3>2. \A a \in Texts : Ending("next_element", a) => Ending(e, Cat(<<t>>, a))
        BY <2>3 DEF Ending, AfterEnd
      <3>3. Append(s, t) \in Texts /\ Sound(frames', Append(s, t))
        BY <1>15, <3>1, <3>2
      <3> QED
        BY <1>1, <1>7, <3>3
    <2> QED
      BY <1>3, <1>17, <2>1, <2>2, <2>3 DEF ReadMark
  <1> QED
    BY <1>1, <1>10, <1>12, <1>13, <1>14, <1>16, <1>17 DEF Accept, Skip

-----------------------------------------------------------------------------
\* A text of JSON brings the reader from the start to the value that is
\* written so.
LEMMA JsonTextReads ==
    ASSUME NEW w \in JsonTexts
    PROVE  /\ w \in Texts
           /\ \E q : Reads(Start, w, q) /\ WriteString(q.v, PlainOptions) = w
  <1>1. OfLength(w, Len(w))
    BY TextIsWritten
  <1>2. PICK v \in Values[MaxNesting] : AsRead(v) = v /\ WriteString(v, PlainOptions) = w
    BY TextIsWritten
  <1>3. Stands(PlainOptions, w, v)
    BY <1>2, ValueStands
  <1>4. PICK nm : Reads(Start, w, Filled(Start, v, nm))
    BY <1>3, StartSlot DEF Stands
  <1>5. Start.c = NullPointer
    BY StateFields DEF Start
  <1>6. Filled(Start, v, nm).v = v
    BY <1>5, StateFields DEF Filled, Placed
  <1> QED
    BY <1>1, <1>2, <1>4, <1>6, LengthOf

\* What is refused does not go on with any text.
LEMMA RefusedIsNone ==
    ASSUME text \in Texts, Reads(Start, text, Current), NEW t, ~Accepts(t), Append(text, t) \in JsonPrefixes
    PROVE  FALSE
  <1>1. PICK w \in JsonTexts : \E n \in DOMAIN w : Append(text, t) = SubSeq(w, 1, n)
    BY Zenon DEF JsonPrefixes
  <1>2. PICK q : w \in Texts /\ Reads(Start, w, q)
    BY JsonTextReads
  <1>3. w \in Seq(Alphabet) /\ text \in Seq(Alphabet)
    BY <1>2 DEF Texts
  <1>4. PICK m \in Nat : m = Len(text)
    BY <1>3
  <1>5. PICK n \in 1..Len(w) : Append(text, t) = SubSeq(w, 1, n)
    <2>1. DOMAIN w = 1..Len(w)
      BY <1>3, LenProperties
    <2> QED
      BY <1>1, <2>1, Zenon
  <1>6. PICK f : Along(f, w, Start, q)
    BY <1>2 DEF Reads
  <1>7. f[0] = Start /\ \A i \in 1..Len(w) : Takes(f[i - 1], w[i], f[i])
    BY <1>6 DEF Along
  <1>8. m = n - 1 /\ w[n] = t /\ \A i \in 1..m : text[i] = w[i]
    <2>1. PICK u : u = Append(text, t)
      OBVIOUS
    <2>2. Len(u) = m + 1 /\ u[m + 1] = t /\ \A i \in 1..m : u[i] = text[i]
      BY <1>3, <1>4, <2>1
    <2>3. Len(u) = n /\ \A i \in 1..n : u[i] = w[i]
      BY <1>3, <1>5, <2>1
    <2> QED
      BY <2>2, <2>3
  <1>9. Reads(Start, text, f[m])
    <2>1. ASSUME NEW i \in 1..m
          PROVE  Takes(f[i - 1], text[i], f[i])
      <3>1. i \in 1..Len(w)
        BY <1>3, <1>8
      <3> QED
        BY <1>7, <1>8, <3>1
    <2> QED
      BY <1>4, <1>7, <2>1 DEF Reads, Along
  <1>10. f[m] = Current
    BY <1>3, <1>9, ReadsSame
  <1>11. Takes(f[m], t, f[n])
    BY <1>7, <1>8
  <1> QED
    BY <1>10, <1>11, CurrentTakes DEF Takes

\* Of any text: what has been read, and what may follow where the grammar
\* stands, is JSON.
AnyTextInv ==
    doc = AnyText =>
      \/ /\ outcome = "reading"
         /\ text \in Texts /\ Len(text) <= MaxTokens
         /\ Reads(Start, text, Current)
         /\ Sound(frames, text)
      \/ outcome = "done" /\ IsText(text) /\ Reads(Start, text, Current)
      \/ outcome = "failed" /\ text \notin JsonPrefixes

LEMMA AnyTextBegins ==
    ASSUME Init
    PROVE  AnyTextInv
  <1>1. outcome = "reading" /\ text = <<>> /\ frames = <<"json">> /\ Current = Start
    BY DEF Init, TextInit, TextAtRest, ReaderInit, Current, Start
  <1>2. <<>> \in Texts /\ Len(<<>>) = 0
    BY TextsCat
  <1>3. Len(text) <= MaxTokens
    BY <1>1, <1>2, TokensBound
  <1>4. Reads(Start, text, Current)
    BY <1>1, ReadsNothing
  <1> QED
    BY <1>1, <1>2, <1>3, <1>4, SoundFirst DEF AnyTextInv

LEMMA AnyTextKept ==
    ASSUME AnyTextInv, ReaderInv, WrittenInv, doc = AnyText, ReadAnything
    PROVE  AnyTextInv'
  <1>1. PICK t \in Tokens \cup {End} : Read(t)
    BY DEF ReadAnything
  <1>2. outcome = "reading" /\ text' = Append(text, t) /\ Len(text) < MaxTokens /\ doc' = doc
    BY <1>1 DEF Read, ReadAnything
  <1>3. text \in Texts /\ Reads(Start, text, Current) /\ Sound(frames, text)
    BY <1>2 DEF AnyTextInv
  <1>4. PICK S : frames \in Seq(S) /\ Len(frames) > 0
    BY FramesTyped
  <1>5. CASE Accept(t) /\ outcome' = IF frames' = <<"end">> THEN "done" ELSE "reading"
    <2>1. text' \in Texts /\ Sound(frames', text')
      BY <1>2, <1>3, <1>4, <1>5, AcceptKeepsSound
    <2>2. Takes(Current, t, Current')
      <3>1. Current' = After(Current, t)
        BY <1>4, <1>5, AcceptIsAfter
      <3>2. Current.f = frames
        BY DEF Current, State
      <3>3. frames # <<"end">>
        BY <1>2 DEF WrittenInv
      <3>4. CanRead(Current, t)
        <4>1. Accepts(t)
          BY <1>5 DEF Accept, Accepts, ReadScalar, BeginObj, BeginArray, ReadEnd, NewName, ReadMark, Skip
        <4> QED
          BY <4>1, CurrentTakes
      <3> QED
        BY <3>1, <3>2, <3>3, <3>4 DEF Takes
    <2>3. t \in Alphabet
      BY <1>5, AcceptedTokens
    <2>4. Reads(Start, text', Current')
      <3>1. Reads(Current, <<t>>, Current')
        BY <2>2, ReadsOne
      <3>2. text \in Seq(Alphabet) /\ <<t>> \in Seq(Alphabet)
        BY <1>3, <2>3 DEF Texts
      <3>3. Reads(Start, Cat(text, <<t>>), Current')
        BY <1>3, <3>1, <3>2, ReadsCat
      <3>4. Append(text, t) = text \o <<t>>
        BY <3>2
      <3> QED
        BY <1>2, <3>3, <3>4, Zenon DEF Cat
    <2>5. Len(text') <= MaxTokens
      <3>1. PICK m \in Nat : m = Len(text)
        BY <1>3 DEF Texts
      <3>2. Len(text') = m + 1
        BY <1>2, <1>3, <3>1 DEF Texts
      <3> QED
        BY <1>2, <3>1, <3>2, TokensBound
    <2>6. CASE frames' = <<"end">>
      <3>1. IsText(text')
        <4>1. PICK s \in Texts : s = text'
          BY <2>1
        <4>2. Len(s) <= MaxTokens /\ Sound(<<"end">>, s)
          BY <2>1, <2>5, <2>6, <4>1
        <4> QED
          BY <4>1, <4>2, SoundLast
      <3> QED
        BY <1>5, <2>4, <2>6, <3>1 DEF AnyTextInv
    <2>7. CASE frames' # <<"end">>
      BY <1>5, <2>1, <2>4, <2>5, <2>7 DEF AnyTextInv
    <2> QED
      BY <2>6, <2>7
  <1>6. CASE ~Accepts(t) /\ outcome' = "failed"
    BY <1>2, <1>3, <1>6, RefusedIsNone DEF AnyTextInv
  <1> QED
    BY <1>1, <1>5, <1>6 DEF Read

\* The invariant behind the theorem below: of any text, what the reader has
\* taken is the beginning of one of JSON, and what may follow where the
\* grammar stands makes it one.
THEOREM AnyTextInvariant == Spec => []AnyTextInv
  <1>1. Init => AnyTextInv
    BY AnyTextBegins
  <1>2. ReaderInv /\ WrittenInv /\ AnyTextInv /\ [Next]_formatVars => AnyTextInv'
    <2> SUFFICES ASSUME ReaderInv, WrittenInv, AnyTextInv, [Next]_formatVars
                 PROVE  AnyTextInv'
      OBVIOUS
    <2>1. CASE UNCHANGED textVars
      BY <2>1 DEF textVars, readerVars, AnyTextInv, Current
    <2>2. CASE doc = AnyText /\ ReadAnything
      BY <2>2, AnyTextKept
    <2>3. CASE doc # AnyText /\ doc' = doc
      BY <2>3 DEF AnyTextInv
    <2>4. UNCHANGED textVars \/ (doc = AnyText /\ ReadAnything) \/ (doc # AnyText /\ doc' = doc)
      BY DEF formatVars, textVars, Next, TextNext, ReadDocument, ReadAnything
    <2> QED
      BY <2>1, <2>2, <2>3, <2>4
  <1> QED
    BY <1>1, <1>2, ReaderInvariant, WrittenInvariant, PTL DEF Spec

\* The reader accepts a text exactly if it is JSON, with the value that is
\* written so, and gives up only where no text of JSON goes on so, whatever
\* the tokens and whatever the bound on the length of the text.
THEOREM ExactlyJsonAccepted == Spec => []AcceptsExactlyJson
  <1>1. AnyTextInv => AcceptsExactlyJson
    <2> SUFFICES ASSUME AnyTextInv, doc = AnyText
                 PROVE  /\ outcome = "done" => text \in JsonTexts /\ WriteString(value, PlainOptions) = text
                        /\ outcome = "failed" => text \notin JsonPrefixes
      BY DEF AcceptsExactlyJson
    <2>1. ASSUME outcome = "done"
          PROVE  text \in JsonTexts /\ WriteString(value, PlainOptions) = text
      <3>1. IsText(text) /\ Reads(Start, text, Current)
        BY <2>1 DEF AnyTextInv
      <3>2. PICK n \in 1..MaxTokens : n = Len(text)
        BY <3>1, FitsLength DEF IsText
      <3>3. text \in Rows[n].texts
        BY <3>1, <3>2 DEF IsText
      <3>4. text \in JsonTexts
        BY <3>3, Zenon DEF JsonTexts, Rows
      <3>5. PICK q : Reads(Start, text, q) /\ WriteString(q.v, PlainOptions) = text
        BY <3>4, JsonTextReads
      <3>6. text \in Seq(Alphabet)
        BY <3>4, JsonTextReads DEF Texts
      <3>7. q = Current
        BY <3>1, <3>5, <3>6, ReadsSame
      <3>8. Current.v = value
        BY DEF Current, State
      <3> QED
        BY <3>4, <3>5, <3>7, <3>8
    <2>2. outcome = "failed" => text \notin JsonPrefixes
      BY DEF AnyTextInv
    <2> QED
      BY <2>1, <2>2
  <1> QED
    BY <1>1, AnyTextInvariant, PTL
=============================================================================
