--------------------------- MODULE KeyCodecProofs ---------------------------
(***************************************************************************)
(* Which keys come back from their file names: those of ASCII runes that   *)
(* have no underscore before two hex digits, and no others, for keys of    *)
(* any length.  FlattenSeq, the digits of an escape and the decoder are    *)
(* recursive functions.  Each is shown to exist, and the name is followed  *)
(* rune by rune: F, R and H say which of its bytes a rune gave, what is    *)
(* decoded from there on, and how much of the UTF-8 form it stands for.    *)
(***************************************************************************)
EXTENDS KeyCodec, WellFoundedInduction, TLAPS

-----------------------------------------------------------------------------
(* Induction.  The library's theorems take the induction hypothesis as an  *)
(* operator; here it is a set, and its least counterexample the argument.  *)

LEMMA LessThan ==
    \E R : IsWellFoundedOn(R, Nat) /\ \A x, y \in Nat : <<x, y>> \in R <=> x < y
<1>1. PICK R : R = OpToRel(<, Nat)
  OBVIOUS
<1>2. IsWellFoundedOn(R, Nat)
  BY <1>1, NatLessThanWellFounded, Zenon
<1>3. R = {ss \in Nat \X Nat : ss[1] < ss[2]}
  BY <1>1 DEF OpToRel
<1>4. \A x, y \in Nat : <<x, y>> \in R <=> x < y
  BY <1>3
<1> QED
  BY <1>2, <1>4

(* A set of naturals has a least element ...                               *)
LEMMA LeastNumber ==
    ASSUME NEW T, T \subseteq Nat, T # {}
    PROVE  \E t \in T : \A x \in T : t <= x
<1>1. PICK R : IsWellFoundedOn(R, Nat) /\ \A x, y \in Nat : <<x, y>> \in R <=> x < y
  BY LessThan
<1>2. IsWellFoundedOn(R, Nat)
  BY <1>1
<1>3. PICK t \in T : \A x \in T : ~(<<x, t>> \in R)
  BY ONLY <1>2, T \subseteq Nat, T # {}, WFMin
<1>4. ASSUME NEW x \in T PROVE t <= x
  <2>1. x \in Nat /\ t \in Nat /\ ~(<<x, t>> \in R)
    BY <1>3
  <2> QED
    BY <1>1, <2>1
<1> QED
  BY <1>4

(* Induction, for a set instead of a predicate.                            *)
LEMMA Induction ==
    ASSUME NEW T, 0 \in T, NEW N \in Nat,
           \A n \in 1..N : n - 1 \in T => n \in T
    PROVE  \A n \in 0..N : n \in T
<1> SUFFICES ASSUME NEW x \in 0..N, x \notin T PROVE FALSE
  OBVIOUS
<1>1. PICK F : F = {n \in 0..N : n \notin T}
  OBVIOUS
<1>2. F \subseteq Nat /\ F # {}
  BY <1>1
<1>3. PICK n \in F : \A y \in F : n <= y
  BY <1>2, LeastNumber
<1>4. n \in 1..N /\ n - 1 \in 0..N /\ n - 1 \in Nat /\ n \in Nat
  BY <1>1, <1>3
<1>5. n - 1 \in T
  <2>1. ~(n <= n - 1)
    BY <1>4
  <2> QED
    BY <1>1, <1>3, <1>4, <2>1
<1> QED
  BY <1>1, <1>3, <1>4, <1>5

-----------------------------------------------------------------------------
(* The recursive functions: that there is one, and so what CHOOSE gives.   *)

(* FlattenSeq's recursive function, and that there is one.                 *)
FlattenBy(f, s, N) ==
    f = [i \in 1..N |-> IF i = 1 THEN s[i] ELSE f[i - 1] \o s[i]]

LEMMA FlattenExists ==
    ASSUME NEW s
    PROVE  \A n \in Nat : \E f : FlattenBy(f, s, n)
<1> SUFFICES ASSUME NEW N \in Nat PROVE \E f : FlattenBy(f, s, N)
  OBVIOUS
<1>1. PICK T : T = {n \in Nat : \E f : FlattenBy(f, s, n)}
  OBVIOUS
<1>2. 0 \in T
  <2>1. PICK f : f = [i \in 1..0 |-> s]
    OBVIOUS
  <2>2. f = [i \in 1..0 |-> IF i = 1 THEN s[i] ELSE f[i - 1] \o s[i]]
    BY <2>1
  <2> QED
    BY <1>1, <2>2 DEF FlattenBy
<1>3. ASSUME NEW n \in 1..N, n - 1 \in T PROVE n \in T
  <2>1. PICK f : f = [i \in 1..n - 1 |-> IF i = 1 THEN s[i] ELSE f[i - 1] \o s[i]]
    BY <1>1, <1>3 DEF FlattenBy
  <2>2. PICK e : e = IF n = 1 THEN s[n] ELSE f[n - 1] \o s[n]
    OBVIOUS
  <2>3. PICK g : g = [i \in 1..n |-> IF i = n THEN e ELSE f[i]]
    OBVIOUS
  <2>4. ASSUME NEW i \in 1..n PROVE g[i] = IF i = 1 THEN s[i] ELSE g[i - 1] \o s[i]
    <3>1. CASE i = n
      BY <2>2, <2>3, <3>1
    <3>2. CASE i # n /\ i # 1
      <4>1. i \in 1..n - 1 /\ i - 1 \in 1..n /\ i - 1 # n
        BY <3>2
      <4>2. g[i] = f[i] /\ g[i - 1] = f[i - 1]
        BY <2>3, <3>2, <4>1
      <4>3. f[i] = f[i - 1] \o s[i]
        BY <2>1, <3>2, <4>1
      <4> QED
        BY <3>2, <4>2, <4>3
    <3>3. CASE i # n /\ i = 1
      <4>1. i \in 1..n - 1
        BY <3>3
      <4>2. g[i] = f[i] /\ f[i] = s[i]
        BY <2>1, <2>3, <3>3, <4>1
      <4> QED
        BY <3>3, <4>2
    <3> QED
      BY <3>1, <3>2, <3>3
  <2>5. g = [i \in 1..n |-> IF i = 1 THEN s[i] ELSE g[i - 1] \o s[i]]
    BY <2>3, <2>4
  <2>6. FlattenBy(g, s, n)
    BY <2>5, Zenon DEF FlattenBy
  <2>7. n \in Nat
    OBVIOUS
  <2> QED
    BY <1>1, <2>6, <2>7
<1>4. N \in T
  BY <1>2, <1>3, Induction
<1> QED
  BY <1>1, <1>4

(* FlattenSeq puts the sequences one after the other.                      *)
Joined(F, s) ==
    /\ F \in [0..Len(s) -> Seq(Nat)]
    /\ F[0] = << >>
    /\ \A i \in 1..Len(s) : F[i] = F[i - 1] \o s[i]

LEMMA FlattenJoins ==
    ASSUME NEW s \in Seq(Seq(Nat))
    PROVE  \E F : Joined(F, s) /\ FlattenSeq(s) = F[Len(s)]
<1>1. CASE Len(s) = 0
  <2>1. PICK F : F = [i \in 0..0 |-> << >>]
    OBVIOUS
  <2>2. FlattenSeq(s) = s /\ s = << >>
    BY <1>1 DEF FlattenSeq
  <2> QED
    BY <1>1, <2>1, <2>2 DEF Joined
<1>2. CASE Len(s) # 0
  <2>1. PICK f : f = CHOOSE g : g = [i \in 1..Len(s) |-> IF i = 1 THEN s[i] ELSE g[i - 1] \o s[i]]
    OBVIOUS
  <2>2. FlattenSeq(s) = f[Len(s)]
    BY <1>2, <2>1 DEF FlattenSeq
  <2>n. Len(s) \in Nat
    OBVIOUS
  <2>0. \E g : FlattenBy(g, s, Len(s))
    BY <2>n, FlattenExists
  <2>3. \E g : g = [i \in 1..Len(s) |-> IF i = 1 THEN s[i] ELSE g[i - 1] \o s[i]]
    BY <2>0, Zenon DEF FlattenBy
  <2>4. f = [i \in 1..Len(s) |-> IF i = 1 THEN s[i] ELSE f[i - 1] \o s[i]]
    BY <2>1, <2>3, Zenon
  <2>5. PICK F : F = [i \in 0..Len(s) |-> IF i = 0 THEN << >> ELSE f[i]]
    OBVIOUS
  <2>6. PICK T : T = {i \in 0..Len(s) : F[i] \in Seq(Nat)}
    OBVIOUS
  <2>7. 0 \in T
    BY <2>5, <2>6
  <2>8. ASSUME NEW i \in 1..Len(s), i - 1 \in T
        PROVE  i \in T /\ F[i] = F[i - 1] \o s[i]
    <3>1. s[i] \in Seq(Nat) /\ F[i - 1] \in Seq(Nat) /\ i \in 0..Len(s)
      BY <2>n, <2>6, <2>8
    <3>2. F[i] = F[i - 1] \o s[i]
      <4>1. CASE i = 1
        <5>1. F[1] = f[1] /\ f[1] = s[1] /\ F[0] = << >>
          BY <2>n, <2>4, <2>5, <4>1
        <5>2. << >> \o s[i] = s[i]
          BY <3>1
        <5>3. F[i - 1] = << >> /\ F[i] = s[i]
          BY <4>1, <5>1
        <5> QED
          BY <5>2, <5>3
      <4>2. CASE i # 1
        <5>1. i - 1 \in 1..Len(s)
          BY <2>n, <4>2
        <5>2. F[i] = f[i] /\ F[i - 1] = f[i - 1]
          BY <2>n, <2>5, <5>1
        <5>3. f[i] = f[i - 1] \o s[i]
          BY <2>4, <4>2
        <5> QED
          BY <5>2, <5>3
      <4> QED
        BY <4>1, <4>2
    <3>3. F[i] \in Seq(Nat)
      BY <3>1, <3>2
    <3> QED
      BY <2>6, <3>1, <3>2, <3>3
  <2>9. \A i \in 0..Len(s) : i \in T
    <3>1. \A i \in 1..Len(s) : i - 1 \in T => i \in T
      BY <2>8
    <3> QED
      BY <2>n, <2>7, <3>1, Induction
  <2>10. F \in [0..Len(s) -> Seq(Nat)]
    BY <2>5, <2>6, <2>9
  <2>11. ASSUME NEW i \in 1..Len(s) PROVE F[i] = F[i - 1] \o s[i]
    <3>1. i - 1 \in 0..Len(s)
      BY <2>n
    <3> QED
      BY <2>8, <2>9, <3>1
  <2>12. F[0] = << >> /\ F[Len(s)] = f[Len(s)]
    BY <1>2, <2>n, <2>5
  <2>13. Joined(F, s)
    BY <2>10, <2>11, <2>12 DEF Joined
  <2> QED
    BY <2>2, <2>12, <2>13
<1> QED
  BY <1>1, <1>2

(* What Unsanitize makes of a name from position i on, given the rest.     *)
DecodeBy(f, name, m) ==
    f = [i \in m..Len(name) + 1 |->
            IF i > Len(name) THEN << >>
            ELSE IF EscapedAt(name, i)
                 THEN <<16 * HexValue(name[i + 1]) + HexValue(name[i + 2])>> \o f[i + 3]
                 ELSE <<name[i]>> \o f[i + 1]]

LEMMA DecodeExists ==
    ASSUME NEW name \in Seq(Nat)
    PROVE  \E f : DecodeBy(f, name, 1)
<1> DEFINE L == Len(name)
<1>n. L \in Nat
  OBVIOUS
<1>1. PICK T : T = {n \in Nat : \E f : DecodeBy(f, name, L + 1 - n)}
  OBVIOUS
<1>2. 0 \in T
  <2>1. PICK f : f = [i \in L + 1..L + 1 |-> << >>]
    OBVIOUS
  <2>2. f = [i \in L + 1..L + 1 |->
            IF i > L THEN << >>
            ELSE IF EscapedAt(name, i)
                 THEN <<16 * HexValue(name[i + 1]) + HexValue(name[i + 2])>> \o f[i + 3]
                 ELSE <<name[i]>> \o f[i + 1]]
    BY <1>n, <2>1
  <2>3. DecodeBy(f, name, L + 1)
    BY <2>2, Zenon DEF DecodeBy
  <2>4. L + 1 - 0 = L + 1
    BY <1>n
  <2> QED
    BY <1>1, <2>3, <2>4
<1>3. ASSUME NEW n \in 1..L, n - 1 \in T PROVE n \in T
  <2> DEFINE m == L + 1 - n
  <2>n. m \in 1..L /\ L + 1 - (n - 1) = m + 1 /\ n \in Nat
    BY <1>n
  <2>0. PICK f : DecodeBy(f, name, m + 1)
    BY <1>1, <1>3, <2>n
  <2>1. f = [i \in m + 1..L + 1 |->
            IF i > L THEN << >>
            ELSE IF EscapedAt(name, i)
                 THEN <<16 * HexValue(name[i + 1]) + HexValue(name[i + 2])>> \o f[i + 3]
                 ELSE <<name[i]>> \o f[i + 1]]
    BY <2>0, Zenon DEF DecodeBy
  <2>2. PICK e : e = IF EscapedAt(name, m)
                     THEN <<16 * HexValue(name[m + 1]) + HexValue(name[m + 2])>> \o f[m + 3]
                     ELSE <<name[m]>> \o f[m + 1]
    OBVIOUS
  <2>3. PICK g : g = [i \in m..L + 1 |-> IF i = m THEN e ELSE f[i]]
    OBVIOUS
  <2>4. \A i \in m + 1..L + 1 : g[i] = f[i]
    BY <1>n, <2>n, <2>3
  <2>5. \A i \in m..L : /\ i + 1 \in m + 1..L + 1
                        /\ EscapedAt(name, i) => i + 3 \in m + 1..L + 1
    BY <1>n, <2>n DEF EscapedAt
  <2>6. ASSUME NEW i \in m..L + 1
        PROVE  g[i] = IF i > L THEN << >>
                      ELSE IF EscapedAt(name, i)
                      THEN <<16 * HexValue(name[i + 1]) + HexValue(name[i + 2])>> \o g[i + 3]
                      ELSE <<name[i]>> \o g[i + 1]
    <3>1. CASE i = m
      <4>1. g[i] = e /\ ~(i > L) /\ i \in m..L
        BY <1>n, <2>n, <2>3, <3>1
      <4>2. g[i + 1] = f[i + 1] /\ (EscapedAt(name, i) => g[i + 3] = f[i + 3])
        BY <2>4, <2>5, <4>1
      <4>3. CASE EscapedAt(name, i)
        BY <2>2, <3>1, <4>1, <4>2, <4>3
      <4>4. CASE ~EscapedAt(name, i)
        BY <2>2, <3>1, <4>1, <4>2, <4>4
      <4> QED
        BY <4>3, <4>4
    <3>2. CASE i # m /\ i <= L
      <4>1. i \in m + 1..L + 1 /\ i \in m..L /\ ~(i > L)
        BY <1>n, <2>n, <3>2
      <4>2. g[i] = f[i] /\ g[i + 1] = f[i + 1] /\ (EscapedAt(name, i) => g[i + 3] = f[i + 3])
        BY <2>4, <2>5, <4>1
      <4>3. f[i] = IF EscapedAt(name, i)
                   THEN <<16 * HexValue(name[i + 1]) + HexValue(name[i + 2])>> \o f[i + 3]
                   ELSE <<name[i]>> \o f[i + 1]
        BY <2>1, <4>1
      <4>4. CASE EscapedAt(name, i)
        BY <4>1, <4>2, <4>3, <4>4
      <4>5. CASE ~EscapedAt(name, i)
        BY <4>1, <4>2, <4>3, <4>5
      <4> QED
        BY <4>4, <4>5
    <3>3. CASE i > L
      <4>1. i \in m + 1..L + 1
        BY <1>n, <2>n, <3>3
      <4> QED
        BY <2>1, <2>4, <3>3, <4>1
    <3> QED
      BY <1>n, <2>n, <3>1, <3>2, <3>3
  <2>7. g = [i \in m..L + 1 |->
            IF i > L THEN << >>
            ELSE IF EscapedAt(name, i)
                 THEN <<16 * HexValue(name[i + 1]) + HexValue(name[i + 2])>> \o g[i + 3]
                 ELSE <<name[i]>> \o g[i + 1]]
    BY <2>3, <2>6
  <2>8. DecodeBy(g, name, m)
    BY <2>7, Zenon DEF DecodeBy
  <2> QED
    BY <1>1, <2>n, <2>8
<1>4. L \in T
  <2> HIDE DEF L
  <2>1. \A n \in 1..L : n - 1 \in T => n \in T
    BY <1>3
  <2>2. \A n \in 0..L : n \in T
    BY <1>n, <1>2, <2>1, Induction
  <2> QED
    BY <1>n, <2>2
<1>5. L + 1 - L = 1
  BY <1>n
<1> QED
  BY <1>1, <1>4, <1>5

LEMMA UnsanitizeDecodes ==
    ASSUME NEW name \in Seq(Nat)
    PROVE  \E f : DecodeBy(f, name, 1) /\ Unsanitize(name) = f[1]
<1>1. PICK f : f = CHOOSE g : g = [i \in 1..Len(name) + 1 |->
            IF i > Len(name) THEN << >>
            ELSE IF EscapedAt(name, i)
                 THEN <<16 * HexValue(name[i + 1]) + HexValue(name[i + 2])>> \o g[i + 3]
                 ELSE <<name[i]>> \o g[i + 1]]
  OBVIOUS
<1>2. Unsanitize(name) = f[1]
  BY <1>1 DEF Unsanitize
<1>3. \E g : g = [i \in 1..Len(name) + 1 |->
            IF i > Len(name) THEN << >>
            ELSE IF EscapedAt(name, i)
                 THEN <<16 * HexValue(name[i + 1]) + HexValue(name[i + 2])>> \o g[i + 3]
                 ELSE <<name[i]>> \o g[i + 1]]
  BY DecodeExists, Zenon DEF DecodeBy
<1>4. DecodeBy(f, name, 1)
  BY <1>1, <1>3, Zenon DEF DecodeBy
<1> QED
  BY <1>2, <1>4

LEMMA SeqLength ==
    ASSUME NEW s \in Seq(Nat)
    PROVE  Len(s) \in Nat
OBVIOUS

LEMMA ConcatFacts ==
    ASSUME NEW s \in Seq(Nat), NEW t \in Seq(Nat)
    PROVE  /\ s \o t \in Seq(Nat) /\ Len(s \o t) = Len(s) + Len(t)
           /\ \A i \in 1..Len(s) : (s \o t)[i] = s[i]
           /\ \A i \in 1..Len(t) : (s \o t)[Len(s) + i] = t[i]
OBVIOUS

LEMMA SameSequence ==
    ASSUME NEW s \in Seq(Nat), NEW t \in Seq(Nat), Len(s) = Len(t),
           \A i \in 1..Len(s) : s[i] = t[i]
    PROVE  s = t
OBVIOUS

LEMMA AppendedByte ==
    ASSUME NEW s \in Seq(Nat), NEW v \in Nat
    PROVE  /\ Append(s, v) \in Seq(Nat) /\ Len(Append(s, v)) = Len(s) + 1
           /\ \A i \in 1..Len(s) : Append(s, v)[i] = s[i]
           /\ Append(s, v)[Len(s) + 1] = v
OBVIOUS

LEMMA OneByte ==
    ASSUME NEW u \in Nat
    PROVE  <<u>> \in Seq(Nat) /\ Len(<<u>>) = 1 /\ <<u>>[1] = u
OBVIOUS

LEMMA TwoBytes ==
    ASSUME NEW u \in Nat, NEW v \in Nat
    PROVE  <<u, v>> \in Seq(Nat) /\ Len(<<u, v>>) = 2 /\ <<u, v>>[1] = u /\ <<u, v>>[2] = v
OBVIOUS

(* A rune below 256 is one byte of the name, or an escape with its code.   *)
Unescaped(c) ==
    c \in Plain /\ Len(Escape(c)) = 1 /\ Escape(c)[1] = c

EscapedAs(c, x, y) ==
    /\ c \notin Plain /\ Len(Escape(c)) = 3
    /\ Escape(c)[1] = Underscore /\ Escape(c)[2] = x /\ Escape(c)[3] = y
    /\ 16 * HexValue(x) + HexValue(y) = c

LEMMA ShortEscape ==
    ASSUME NEW c \in 0..255
    PROVE  /\ Escape(c) \in Seq(Nat)
           /\ Unescaped(c) \/ \E x, y \in HexChars : EscapedAs(c, x, y)
<1>1. CASE c \in Plain
  <2>1. Escape(c) = <<c>> /\ c \in Nat
    BY <1>1 DEF Escape
  <2> QED
    BY <1>1, <2>1, OneByte DEF Unescaped
<1>2. CASE c \notin Plain
  <2>1. /\ c \div 16 \in 0..15 /\ c % 16 \in 0..15
        /\ 16 * (c \div 16) + (c % 16) = c
        /\ c < 16 => c \div 16 = 0 /\ c % 16 = c
    OBVIOUS
  <2>2. \A d \in 0..15 : HexDigit(d) \in HexChars /\ HexValue(HexDigit(d)) = d
    BY DEF HexDigit, HexChars, HexValue, Digits
  <2>x. PICK x, y : x = HexDigit(c \div 16) /\ y = HexDigit(c % 16)
    OBVIOUS
  <2>n. x \in Nat /\ y \in Nat /\ Underscore \in Nat
    BY <2>1, <2>2, <2>x DEF HexChars, Digits, Underscore
  <2>3. /\ Padded(c) \in Seq(Nat) /\ Len(Padded(c)) = 2
        /\ Padded(c)[1] = x /\ Padded(c)[2] = y
    <3>1. CASE c < 16
      <4>1. Padded(c) = <<x, y>>
        BY <2>1, <2>x, <3>1 DEF Padded, HexDigit
      <4>2. /\ <<x, y>> \in Seq(Nat) /\ Len(<<x, y>>) = 2
            /\ <<x, y>>[1] = x /\ <<x, y>>[2] = y
        BY <2>n, TwoBytes
      <4> QED
        BY <4>1, <4>2, Zenon
    <3>2. CASE c >= 16
      <4>1. PICK h : h = CHOOSE g : g = [n \in 0..c |->
                IF n < 16 THEN <<HexDigit(n)>> ELSE Append(g[n \div 16], HexDigit(n % 16))]
        OBVIOUS
      <4>2. Unpadded(c) = h[c]
        BY <4>1 DEF Unpadded
      <4>3. PICK w : w = [n \in 0..c |->
                IF n < 16 THEN <<HexDigit(n)>>
                ELSE Append(<<HexDigit(n \div 16)>>, HexDigit(n % 16))]
        OBVIOUS
      <4>4. \A n \in 0..c : n >= 16 => n \div 16 \in 0..c /\ n \div 16 < 16
        OBVIOUS
      <4>5. ASSUME NEW n \in 0..c
            PROVE  w[n] = IF n < 16 THEN <<HexDigit(n)>>
                          ELSE Append(w[n \div 16], HexDigit(n % 16))
        BY <4>3, <4>4
      <4>6. w = [n \in 0..c |-> IF n < 16 THEN <<HexDigit(n)>>
                                ELSE Append(w[n \div 16], HexDigit(n % 16))]
        BY <4>3, <4>5
      <4>7. h = [n \in 0..c |-> IF n < 16 THEN <<HexDigit(n)>>
                                ELSE Append(h[n \div 16], HexDigit(n % 16))]
        BY <4>1, <4>6, Zenon
      <4>8. c \in 0..c /\ c \div 16 \in 0..c /\ c \div 16 < 16 /\ ~(c < 16)
        BY <3>2, <4>4
      <4>9. h[c] = Append(<<x>>, y)
        BY <2>x, <4>7, <4>8
      <4>10. Padded(c) = Append(<<x>>, y)
        BY <4>2, <4>8, <4>9 DEF Padded
      <4>11. PICK o : o = <<x>> /\ o \in Seq(Nat) /\ Len(o) = 1 /\ o[1] = x
        BY <2>n, OneByte
      <4>12. Padded(c) = Append(o, y)
        BY <4>10, <4>11
      <4>13. /\ Append(o, y) \in Seq(Nat) /\ Len(Append(o, y)) = Len(o) + 1
             /\ \A i \in 1..Len(o) : Append(o, y)[i] = o[i]
             /\ Append(o, y)[Len(o) + 1] = y
        BY <2>n, <4>11, AppendedByte
      <4> QED
        BY <4>11, <4>12, <4>13
    <3> QED
      BY <3>1, <3>2
  <2>4. PICK o : o = <<Underscore>> /\ o \in Seq(Nat) /\ Len(o) = 1 /\ o[1] = Underscore
    BY <2>n, OneByte
  <2>5. Escape(c) = o \o Padded(c)
    BY <1>2, <2>4 DEF Escape
  <2>p. PICK p : p = Padded(c) /\ p \in Seq(Nat)
    BY <2>3
  <2>6. /\ o \o p \in Seq(Nat) /\ Len(o \o p) = Len(o) + Len(p)
        /\ \A i \in 1..Len(o) : (o \o p)[i] = o[i]
        /\ \A i \in 1..Len(p) : (o \o p)[Len(o) + i] = p[i]
    BY <2>4, <2>p, ConcatFacts
  <2>7. /\ Escape(c) \in Seq(Nat) /\ Len(Escape(c)) = 3
        /\ Escape(c)[1] = Underscore /\ Escape(c)[2] = x /\ Escape(c)[3] = y
    <3>1. Len(o) = 1 /\ Len(p) = 2 /\ o[1] = Underscore /\ p[1] = x /\ p[2] = y
      BY <2>3, <2>4, <2>p
    <3>2. Escape(c) = o \o p
      BY <2>5, <2>p
    <3>3. /\ Len(o \o p) = 3 /\ (o \o p)[1] = Underscore
          /\ (o \o p)[2] = x /\ (o \o p)[3] = y
      BY <2>6, <3>1
    <3> QED
      BY <2>6, <3>2, <3>3
  <2>8. x \in HexChars /\ y \in HexChars /\ 16 * HexValue(x) + HexValue(y) = c
    BY <2>1, <2>2, <2>x
  <2> QED
    BY <1>2, <2>7, <2>8 DEF EscapedAs
<1> QED
  BY <1>1, <1>2

(* A rune above 255 gives an escape of three or four digits, of which the  *)
(* decoder takes two.                                                      *)
LongEscape(c) ==
    /\ Escape(c) \in Seq(Nat) /\ c \notin Plain
    /\ Len(Escape(c)) = IF c < 4096 THEN 4 ELSE 5
    /\ Escape(c)[1] = Underscore
    /\ \A q \in 2..Len(Escape(c)) : Escape(c)[q] \in HexChars

LEMMA HexCharFacts ==
    /\ \A d \in 0..15 : HexDigit(d) \in HexChars
    /\ \A x \in HexChars : /\ x \in 0..127 /\ x # Underscore /\ x \in Plain
                          /\ HexValue(x) \in 0..15
BY DEF HexDigit, HexChars, HexValue, Digits, Underscore, Plain, UpperCase, LowerCase

LEMMA Quotient ==
    ASSUME NEW n \in Nat, n >= 16
    PROVE  /\ n \div 16 \in 0..n - 1 /\ n % 16 \in 0..15
           /\ n < 256 => n \div 16 < 16
           /\ n >= 256 => n \div 16 >= 16
           /\ n < 4096 => n \div 16 < 256
           /\ n >= 4096 => n \div 16 >= 256
           /\ n < 65536 => n \div 16 < 4096
OBVIOUS

(* Unpadded's recursive function, and that there is one.                   *)
HexBy(f, c) ==
    f = [n \in 0..c |-> IF n < 16 THEN <<HexDigit(n)>>
                        ELSE Append(f[n \div 16], HexDigit(n % 16))]

LEMMA HexExists ==
    ASSUME NEW c \in Nat
    PROVE  \E f : HexBy(f, c)
<1>1. PICK T : T = {n \in Nat : \E f : HexBy(f, n)}
  OBVIOUS
<1>2. 0 \in T
  <2>1. PICK f : f = [n \in 0..0 |-> <<HexDigit(n)>>]
    OBVIOUS
  <2>2. f = [n \in 0..0 |-> IF n < 16 THEN <<HexDigit(n)>>
                            ELSE Append(f[n \div 16], HexDigit(n % 16))]
    BY <2>1
  <2>3. HexBy(f, 0)
    BY <2>2, Zenon DEF HexBy
  <2> QED
    BY <1>1, <2>3
<1>3. ASSUME NEW m \in 1..c, m - 1 \in T PROVE m \in T
  <2>1. PICK f : HexBy(f, m - 1)
    BY <1>1, <1>3
  <2>2. f = [n \in 0..m - 1 |-> IF n < 16 THEN <<HexDigit(n)>>
                                ELSE Append(f[n \div 16], HexDigit(n % 16))]
    BY <2>1, Zenon DEF HexBy
  <2>3. PICK e : e = IF m < 16 THEN <<HexDigit(m)>> ELSE Append(f[m \div 16], HexDigit(m % 16))
    OBVIOUS
  <2>4. PICK g : g = [n \in 0..m |-> IF n = m THEN e ELSE f[n]]
    OBVIOUS
  <2>5. \A n \in 0..m : n >= 16 => n \div 16 \in 0..m - 1 /\ n \div 16 \in 0..m /\ n \div 16 # m
    <3> SUFFICES ASSUME NEW n \in 0..m, n >= 16
                 PROVE  n \div 16 \in 0..m - 1 /\ n \div 16 \in 0..m /\ n \div 16 # m
      OBVIOUS
    <3>1. n \in Nat /\ n \div 16 \in 0..n - 1
      BY Quotient
    <3>2. PICK d : d = n \div 16
      OBVIOUS
    <3> QED
      BY <3>1, <3>2
  <2>6. ASSUME NEW n \in 0..m
        PROVE  g[n] = IF n < 16 THEN <<HexDigit(n)>> ELSE Append(g[n \div 16], HexDigit(n % 16))
    <3>1. n >= 16 => g[n \div 16] = f[n \div 16]
      BY <2>4, <2>5
    <3>2. CASE n = m
      <4>1. g[n] = e
        BY <2>4, <3>2
      <4>2. CASE n < 16
        BY <2>3, <3>2, <4>1, <4>2
      <4>3. CASE ~(n < 16)
        <5>1. e = Append(f[n \div 16], HexDigit(n % 16)) /\ n >= 16
          BY <2>3, <3>2, <4>3
        <5> QED
          BY <3>1, <4>1, <4>3, <5>1
      <4> QED
        BY <4>2, <4>3
    <3>3. CASE n # m
      <4>1. g[n] = f[n] /\ n \in 0..m - 1
        BY <2>4, <3>3
      <4>2. f[n] = IF n < 16 THEN <<HexDigit(n)>> ELSE Append(f[n \div 16], HexDigit(n % 16))
        BY <2>2, <4>1
      <4>3. CASE n < 16
        BY <4>1, <4>2, <4>3
      <4>4. CASE ~(n < 16)
        <5>1. n >= 16
          BY <4>4
        <5> QED
          BY <3>1, <4>1, <4>2, <4>4, <5>1
      <4> QED
        BY <4>3, <4>4
    <3> QED
      BY <3>2, <3>3
  <2>7. g = [n \in 0..m |-> IF n < 16 THEN <<HexDigit(n)>>
                            ELSE Append(g[n \div 16], HexDigit(n % 16))]
    BY <2>4, <2>6
  <2>8. HexBy(g, m)
    BY <2>7, Zenon DEF HexBy
  <2>9. m \in Nat
    OBVIOUS
  <2> QED
    BY <1>1, <2>8, <2>9
<1>4. \A m \in 1..c : m - 1 \in T => m \in T
  BY <1>3
<1>5. \A m \in 0..c : m \in T
  BY <1>2, <1>4, Induction
<1>6. c \in T
  BY <1>5
<1> QED
  BY <1>1, <1>6

(* The texts of k hex digits.                                              *)
HexText(s, k) ==
    s \in Seq(Nat) /\ Len(s) = k /\ \A q \in 1..k : s[q] \in HexChars

LEMMA OneMoreDigit ==
    ASSUME NEW k \in Nat, NEW s, HexText(s, k), NEW d \in 0..15
    PROVE  HexText(Append(s, HexDigit(d)), k + 1)
<1>1. PICK x : x = HexDigit(d) /\ x \in HexChars /\ x \in Nat
  BY HexCharFacts
<1>2. s \in Seq(Nat) /\ Len(s) = k
  BY DEF HexText
<1>3. /\ Append(s, x) \in Seq(Nat) /\ Len(Append(s, x)) = k + 1
      /\ \A q \in 1..k : Append(s, x)[q] = s[q]
      /\ Append(s, x)[k + 1] = x
  BY <1>1, <1>2, AppendedByte
<1> QED
  BY <1>1, <1>3 DEF HexText

LEMMA UnpaddedBy ==
    ASSUME NEW c \in Nat
    PROVE  \E h : /\ Unpadded(c) = h[c]
                  /\ \A n \in 0..c :
                        /\ n < 16 => h[n] = <<HexDigit(n)>>
                        /\ ~(n < 16) => h[n] = Append(h[n \div 16], HexDigit(n % 16))
<1>1. PICK h : h = CHOOSE g : g = [n \in 0..c |->
                IF n < 16 THEN <<HexDigit(n)>> ELSE Append(g[n \div 16], HexDigit(n % 16))]
  BY Zenon
<1>2. Unpadded(c) = h[c]
  BY <1>1, Zenon DEF Unpadded
<1>3. \E g : g = [n \in 0..c |-> IF n < 16 THEN <<HexDigit(n)>>
                                ELSE Append(g[n \div 16], HexDigit(n % 16))]
  BY HexExists, Zenon DEF HexBy
<1>4. h = [n \in 0..c |-> IF n < 16 THEN <<HexDigit(n)>>
                          ELSE Append(h[n \div 16], HexDigit(n % 16))]
  BY <1>1, <1>3, Zenon
<1>5. \A n \in 0..c : /\ n < 16 => h[n] = <<HexDigit(n)>>
                      /\ ~(n < 16) => h[n] = Append(h[n \div 16], HexDigit(n % 16))
  BY <1>4, Zenon
<1> QED
  BY <1>2, <1>5, Zenon

LEMMA Remainder == \A n \in Nat : n % 16 \in 0..15
OBVIOUS

LEMMA HexDigits ==
    ASSUME NEW c \in Nat, c >= 256, c < 65536
    PROVE  HexText(Unpadded(c), IF c < 4096 THEN 3 ELSE 4)
<1>5. PICK h : /\ Unpadded(c) = h[c]
               /\ \A n \in 0..c :
                    /\ n < 16 => h[n] = <<HexDigit(n)>>
                    /\ ~(n < 16) => h[n] = Append(h[n \div 16], HexDigit(n % 16))
  BY ONLY c \in Nat, UnpaddedBy
<1>6. \A n \in 0..c : n >= 16 => n \div 16 \in 0..c
  <2> SUFFICES ASSUME NEW n \in 0..c, n >= 16 PROVE n \div 16 \in 0..c
    OBVIOUS
  <2>1. n \in Nat /\ n \div 16 \in 0..n - 1
    BY Quotient
  <2>2. PICK d : d = n \div 16
    OBVIOUS
  <2> QED
    BY <2>1, <2>2
<1>7. ASSUME NEW n \in 0..c, n < 16 PROVE HexText(h[n], 1)
  <2>1. PICK x : x = HexDigit(n) /\ x \in HexChars /\ x \in Nat
    BY <1>7, HexCharFacts
  <2>2. h[n] = <<x>>
    BY <1>5, <1>7, <2>1
  <2>3. <<x>> \in Seq(Nat) /\ Len(<<x>>) = 1 /\ <<x>>[1] = x
    BY <2>1, OneByte
  <2> QED
    BY <2>1, <2>2, <2>3 DEF HexText
<1>8. ASSUME NEW n \in 0..c, n >= 16, NEW k \in Nat, HexText(h[n \div 16], k)
      PROVE  HexText(h[n], k + 1)
  <2>1. n \in Nat /\ ~(n < 16)
    BY <1>8
  <2>2. n % 16 \in 0..15
    BY SMT, <2>1, Remainder
  <2>3. h[n] = Append(h[n \div 16], HexDigit(n % 16))
    BY ONLY <1>5, <2>1, n \in 0..c, Zenon
  <2>4. PICK s, d : s = h[n \div 16] /\ d = n % 16
    OBVIOUS
  <2>5. HexText(Append(s, HexDigit(d)), k + 1)
    BY ONLY <1>8, <2>2, <2>4, OneMoreDigit
  <2> QED
    BY <2>3, <2>4, <2>5
<1>9. ASSUME NEW n \in 0..c, n >= 16, n < 256 PROVE HexText(h[n], 2)
  <2>1. n \in Nat /\ n \div 16 < 16 /\ n \div 16 \in 0..c
    BY <1>6, <1>9, Quotient
  <2>2. HexText(h[n \div 16], 1)
    BY <1>7, <2>1
  <2>3. HexText(h[n], 1 + 1)
    BY <1>8, <1>9, <2>2
  <2> QED
    BY <2>3
<1>10. ASSUME NEW n \in 0..c, n >= 256, n < 4096 PROVE HexText(h[n], 3)
  <2>1. n \in Nat /\ n >= 16 /\ n \div 16 >= 16 /\ n \div 16 < 256 /\ n \div 16 \in 0..c
    BY <1>6, <1>10, Quotient
  <2>2. HexText(h[n \div 16], 2)
    BY <1>9, <2>1
  <2>3. HexText(h[n], 2 + 1)
    BY <1>8, <2>1, <2>2
  <2> QED
    BY <2>3
<1>11. CASE c < 4096
  <2>1. c \in 0..c
    OBVIOUS
  <2>2. HexText(h[c], 3)
    BY <1>10, <1>11, <2>1
  <2> QED
    BY <1>5, <1>11, <2>2
<1>12. CASE ~(c < 4096)
  <2>1. c \in 0..c /\ c >= 16 /\ c >= 4096
    BY <1>12
  <2>2. c \div 16 >= 256 /\ c \div 16 < 4096 /\ c \div 16 \in 0..c
    BY <1>6, <2>1, Quotient
  <2>3. HexText(h[c \div 16], 3)
    BY <1>10, <2>2
  <2>4. HexText(h[c], 3 + 1)
    BY <1>8, <2>1, <2>3
  <2> QED
    BY <1>5, <1>12, <2>4
<1> QED
  BY <1>11, <1>12

LEMMA UnderscoreByte ==
    \E o : o = <<Underscore>> /\ o \in Seq(Nat) /\ Len(o) = 1 /\ o[1] = Underscore
<1>1. Underscore \in Nat
  BY DEF Underscore
<1> QED
  BY <1>1, OneByte

LEMMA LongEscapeOf ==
    ASSUME NEW c \in Nat, c >= 256, c < 65536
    PROVE  LongEscape(c)
<1>1. PICK k : k = IF c < 4096 THEN 3 ELSE 4
  OBVIOUS
<1>2. PICK s : s = Unpadded(c) /\ HexText(s, k)
  BY <1>1, HexDigits
<1>3. c \notin Plain /\ ~(c < 16)
  BY DEF Plain, Digits, UpperCase, LowerCase, Underscore
<1>4. PICK o : o = <<Underscore>> /\ o \in Seq(Nat) /\ Len(o) = 1 /\ o[1] = Underscore
  BY ONLY UnderscoreByte
<1>5. Escape(c) = o \o s
  BY <1>2, <1>3, <1>4 DEF Escape, Padded
<1>6. s \in Seq(Nat) /\ Len(s) = k /\ \A q \in 1..k : s[q] \in HexChars
  BY <1>2 DEF HexText
<1>7. /\ o \o s \in Seq(Nat) /\ Len(o \o s) = Len(o) + Len(s)
      /\ \A i \in 1..Len(o) : (o \o s)[i] = o[i]
      /\ \A i \in 1..Len(s) : (o \o s)[Len(o) + i] = s[i]
  BY <1>4, <1>6, ConcatFacts
<1>8. ASSUME NEW q \in 2..k + 1 PROVE (o \o s)[q] \in HexChars
  <2>1. q - 1 \in 1..k /\ 1 + (q - 1) = q
    BY <1>1
  <2> QED
    BY <1>4, <1>6, <1>7, <2>1
<1>9. k + 1 = IF c < 4096 THEN 4 ELSE 5
  BY <1>1
<1> QED
  BY <1>3, <1>4, <1>5, <1>6, <1>7, <1>8, <1>9 DEF LongEscape

(* Where each sequence ends up in the joined one.                          *)
LEMMA Placed ==
    ASSUME NEW s \in Seq(Seq(Nat)), NEW F, Joined(F, s), NEW m \in 1..Len(s)
    PROVE  /\ Len(F[m]) = Len(F[m - 1]) + Len(s[m])
           /\ Len(F[m]) <= Len(F[Len(s)])
           /\ \A q \in 1..Len(s[m]) : F[Len(s)][Len(F[m - 1]) + q] = s[m][q]
<1>n. PICK L \in Nat : L = Len(s)
  OBVIOUS
<1>m. m \in 1..L /\ L - m \in Nat /\ m - 1 \in 0..L /\ m \in 0..L
  BY <1>n
<1>s. \A i \in 1..L : s[i] \in Seq(Nat)
  BY <1>n
<1>f. /\ \A i \in 0..L : F[i] \in Seq(Nat)
      /\ \A i \in 1..L : F[i] = F[i - 1] \o s[i]
  BY <1>n DEF Joined
<1>1. PICK u, b : u \in Seq(Nat) /\ b \in Seq(Nat) /\ u = F[m - 1] /\ b = s[m]
  BY <1>m, <1>s, <1>f
<1>e. F[m] = u \o b
  BY <1>m, <1>f, <1>1
<1>2. /\ Len(u \o b) = Len(u) + Len(b)
      /\ \A q \in 1..Len(b) : (u \o b)[Len(u) + q] = b[q]
  BY <1>1, ConcatFacts
<1>l. PICK lu, lb : lu \in Nat /\ lb \in Nat /\ lu = Len(u) /\ lb = Len(b)
  BY <1>1, SeqLength, Zenon
<1>g. /\ Len(F[m]) = lu + lb
      /\ \A q \in 1..lb : F[m][lu + q] = b[q]
  BY <1>e, <1>2, <1>l
<1>3. PICK T : T = {i \in 0..L - m : /\ lu + lb <= Len(F[m + i])
                                   /\ \A q \in 1..lb : F[m + i][lu + q] = b[q]}
  OBVIOUS
<1>4. 0 \in T
  <2>1. m + 0 = m /\ 0 \in 0..L - m /\ lu + lb <= lu + lb
    BY <1>m, <1>l
  <2>2. lu + lb <= Len(F[m + 0]) /\ \A q \in 1..lb : F[m + 0][lu + q] = b[q]
    BY <1>g, <2>1
  <2> QED
    BY <1>3, <2>1, <2>2
<1>5. ASSUME NEW i \in 1..L - m, i - 1 \in T PROVE i \in T
  <2>1. /\ m + i \in 1..L /\ m + (i - 1) \in 0..L /\ (m + i) - 1 = m + (i - 1)
        /\ i \in 0..L - m
    BY <1>m
  <2>2. PICK a, c : /\ a \in Seq(Nat) /\ c \in Seq(Nat)
                    /\ a = F[m + (i - 1)] /\ c = s[m + i] /\ F[m + i] = a \o c
    BY <1>s, <1>f, <2>1
  <2>3. /\ Len(a \o c) = Len(a) + Len(c)
        /\ \A l \in 1..Len(a) : (a \o c)[l] = a[l]
    BY ONLY <2>2, ConcatFacts, Zenon
  <2>5. Len(a) \in Nat /\ Len(c) \in Nat
    BY <2>2, SeqLength, Zenon
  <2>4. lu + lb <= Len(a) /\ \A q \in 1..lb : a[lu + q] = b[q]
    BY <1>3, <1>5, <2>2
  <2>6. lu + lb <= Len(a \o c)
    BY <1>l, <2>3, <2>4, <2>5
  <2>7. ASSUME NEW q \in 1..lb PROVE (a \o c)[lu + q] = b[q]
    <3>1. lu + q \in 1..Len(a)
      BY <1>l, <2>4, <2>5
    <3> QED
      BY <2>3, <2>4, <3>1
  <2> QED
    BY <1>3, <2>1, <2>2, <2>6, <2>7
<1>6. L - m \in T
  <2>1. \A i \in 1..L - m : i - 1 \in T => i \in T
    BY <1>5
  <2>2. \A i \in 0..L - m : i \in T
    BY <1>m, <1>4, <2>1, Induction
  <2> QED
    BY <1>m, <2>2
<1>7. m + (L - m) = L
  BY <1>m
<1>8. lu + lb <= Len(F[L]) /\ \A q \in 1..lb : F[L][lu + q] = b[q]
  BY <1>3, <1>6, <1>7
<1> QED
  BY <1>n, <1>1, <1>l, <1>g, <1>8

LEMMA Sections ==
    ASSUME NEW s \in Seq(Nat)
    PROVE  /\ SubSeq(s, 1, Len(s)) = s
           /\ SubSeq(s, 1, 0) = << >> /\ SubSeq(s, Len(s) + 1, Len(s)) = << >>
           /\ \A j \in 1..Len(s) : /\ SubSeq(s, 1, j - 1) \o <<s[j]>> = SubSeq(s, 1, j)
                                  /\ <<s[j]>> \o SubSeq(s, j + 1, Len(s)) = SubSeq(s, j, Len(s))
<1>1. SubSeq(s, 1, Len(s)) = s
  OBVIOUS
<1>2. SubSeq(s, 1, 0) = << >> /\ SubSeq(s, Len(s) + 1, Len(s)) = << >>
  OBVIOUS
<1>3. ASSUME NEW j \in 1..Len(s) PROVE SubSeq(s, 1, j - 1) \o <<s[j]>> = SubSeq(s, 1, j)
  OBVIOUS
<1>4. ASSUME NEW j \in 1..Len(s)
      PROVE  <<s[j]>> \o SubSeq(s, j + 1, Len(s)) = SubSeq(s, j, Len(s))
  OBVIOUS
<1> QED
  BY <1>1, <1>2, <1>3, <1>4

(* The runes that one code unit of UTF-16 holds.                           *)
Bmp == {c \in Nat : c < 65536}

LEMMA AsciiInBmp == \A c \in Nat : c < 128 => c \in Bmp
BY DEF Bmp

LEMMA RuneRange ==
    ASSUME NEW c \in Bmp
    PROVE  c \in Nat /\ (c <= 127 \/ c >= 128) /\ (c \notin 0..255 => c >= 256)
<1>1. c \in Nat
  BY DEF Bmp
<1> QED
  BY ONLY <1>1

(* Every rune's escape.                                                    *)
LEMMA EscapeOf ==
    ASSUME NEW c \in Bmp
    PROVE  /\ Escape(c) \in Seq(Nat)
           /\ \/ Unescaped(c)
              \/ c \in 0..255 /\ \E x, y \in HexChars : EscapedAs(c, x, y)
              \/ c >= 256 /\ LongEscape(c)
<1>1. CASE c \in 0..255
  BY <1>1, ShortEscape
<1>2. CASE c \notin 0..255
  <2>1. c \in Nat /\ c >= 256
    BY <1>2, RuneRange
  <2>3. c < 65536
    BY DEF Bmp
  <2>2. LongEscape(c)
    BY ONLY <2>1, <2>3, LongEscapeOf
  <2> QED
    BY ONLY <2>1, <2>2 DEF LongEscape
<1> QED
  BY <1>1, <1>2

LEMMA ThreeBytes ==
    ASSUME NEW u \in Nat, NEW v \in Nat, NEW w \in Nat
    PROVE  <<u, v, w>> \in Seq(Nat) /\ Len(<<u, v, w>>) = 3 /\ <<u, v, w>>[2] = v
OBVIOUS

(* UTF-8: a byte for a rune of ASCII, two or three for the others, of      *)
(* which the second is not ASCII.                                          *)
LEMMA OneByteRune ==
    ASSUME NEW c \in 0..127
    PROVE  Utf8Rune(c) = <<c>>
BY SMTT(60) DEF Utf8Rune

LEMMA TwoByteRune ==
    ASSUME NEW c \in Nat, c >= 128, c < 2048
    PROVE  Utf8Rune(c) = <<192 + (c \div 64), 128 + (c % 64)>>
BY SMTT(60) DEF Utf8Rune

LEMMA OtherRune ==
    ASSUME NEW c \in Nat, c >= 128
    PROVE  /\ Utf8Rune(c) \in Seq(Nat) /\ Len(Utf8Rune(c)) >= 2
           /\ Utf8Rune(c)[2] >= 128
           /\ c >= 2048 => Len(Utf8Rune(c)) = 3
<1>1. CASE c < 2048
  <2>1. PICK u, v : u = 192 + (c \div 64) /\ v = 128 + (c % 64)
    OBVIOUS
  <2>2. u \in Nat /\ v \in Nat /\ v >= 128
    BY <2>1
  <2>3. Utf8Rune(c) = <<u, v>>
    <3>1. Utf8Rune(c) = <<192 + (c \div 64), 128 + (c % 64)>>
      BY <1>1, TwoByteRune
    <3> QED
      BY <2>1, <3>1
  <2>4. <<u, v>> \in Seq(Nat) /\ Len(<<u, v>>) = 2 /\ <<u, v>>[2] = v
    BY <2>2, TwoBytes
  <2> QED
    BY <1>1, <2>2, <2>3, <2>4
<1>2. CASE c >= 2048
  <2>1. PICK u, v, w : /\ u = 224 + (c \div 4096) /\ v = 128 + ((c \div 64) % 64)
                       /\ w = 128 + (c % 64)
    OBVIOUS
  <2>2. u \in Nat /\ v \in Nat /\ w \in Nat /\ v >= 128
    BY <2>1
  <2>3. ~(c \in 128..2047) /\ ~(c < 128)
    BY ONLY <1>2, c \in Nat
  <2>4. Utf8Rune(c) = <<u, v, w>>
    <3>1. Utf8Rune(c) = <<224 + (c \div 4096), 128 + ((c \div 64) % 64), 128 + (c % 64)>>
      BY <2>3 DEF Utf8Rune
    <3> QED
      BY <2>1, <3>1
  <2>5. <<u, v, w>> \in Seq(Nat) /\ Len(<<u, v, w>>) = 3 /\ <<u, v, w>>[2] = v
    BY <2>2, ThreeBytes
  <2> QED
    BY <1>2, <2>2, <2>4, <2>5
<1> QED
  BY <1>1, <1>2

LEMMA RuneBytes ==
    ASSUME NEW c \in Bmp
    PROVE  /\ Utf8Rune(c) \in Seq(Nat) /\ Len(Utf8Rune(c)) >= 1
           /\ c <= 127 => Len(Utf8Rune(c)) = 1
           /\ c >= 128 => Len(Utf8Rune(c)) >= 2 /\ Utf8Rune(c)[2] >= 128
           /\ c >= 4096 => Len(Utf8Rune(c)) = 3
<1>1. c \in Nat /\ (c <= 127 \/ c >= 128)
  BY RuneRange
<1>2. CASE c <= 127
  <2>1. c \in 0..127 /\ Utf8Rune(c) = <<c>> /\ ~(c >= 128) /\ ~(c >= 4096)
    BY <1>1, <1>2, OneByteRune
  <2>2. <<c>> \in Seq(Nat) /\ Len(<<c>>) = 1
    BY <1>1, OneByte
  <2> QED
    BY ONLY <2>1, <2>2
<1>3. CASE c >= 128
  <2>1. /\ Utf8Rune(c) \in Seq(Nat) /\ Len(Utf8Rune(c)) >= 2 /\ Utf8Rune(c)[2] >= 128
        /\ c >= 2048 => Len(Utf8Rune(c)) = 3
    BY <1>1, <1>3, OtherRune
  <2>2. Len(Utf8Rune(c)) \in Nat
    BY <2>1, SeqLength
  <2>3. ~(c <= 127) /\ (c >= 4096 => c >= 2048)
    BY <1>1, <1>3
  <2> QED
    BY ONLY <2>1, <2>2, <2>3
<1> QED
  BY <1>1, <1>2, <1>3

(* How the bytes of a file name come from the runes of its key: those of   *)
(* the first p runes are the first Len(F[p]).                              *)
EncodedBy(F, key) ==
    /\ F \in [0..Len(key) -> Seq(Nat)] /\ F[0] = << >> /\ F[Len(key)] = Sanitize(key)
    /\ \A p \in 1..Len(key) :
        /\ Len(F[p]) = Len(F[p - 1]) + Len(Escape(key[p]))
        /\ Len(F[p]) <= Len(Sanitize(key))
        /\ \A q \in 1..Len(Escape(key[p])) :
            Sanitize(key)[Len(F[p - 1]) + q] = Escape(key[p])[q]

LEMMA Encoded ==
    ASSUME NEW key \in Seq(Nat), \A i \in DOMAIN key : key[i] \in Bmp
    PROVE  \E F : EncodedBy(F, key)
<1>n. Len(key) \in Nat /\ DOMAIN key = 1..Len(key)
  OBVIOUS
<1>1. PICK s : s = [i \in DOMAIN key |-> Escape(key[i])]
  OBVIOUS
<1>2. \A i \in DOMAIN key : Escape(key[i]) \in Seq(Nat)
  BY EscapeOf
<1>3. s \in Seq(Seq(Nat)) /\ Len(s) = Len(key) /\ \A i \in 1..Len(key) : s[i] = Escape(key[i])
  <2>1. \A i \in 1..Len(key) : s[i] \in Seq(Nat) /\ s[i] = Escape(key[i])
    BY <1>n, <1>1, <1>2
  <2>2. s \in [1..Len(key) -> Seq(Nat)]
    BY <1>n, <1>1, <2>1
  <2> QED
    BY <1>n, <2>1, <2>2
<1>4. PICK F : Joined(F, s) /\ FlattenSeq(s) = F[Len(s)]
  BY <1>3, FlattenJoins
<1>5. Sanitize(key) = F[Len(key)]
  BY <1>1, <1>3, <1>4 DEF Sanitize
<1>6. F \in [0..Len(key) -> Seq(Nat)] /\ F[0] = << >>
  BY <1>3, <1>4 DEF Joined
<1>7. ASSUME NEW p \in 1..Len(key)
      PROVE  /\ Len(F[p]) = Len(F[p - 1]) + Len(Escape(key[p]))
             /\ Len(F[p]) <= Len(Sanitize(key))
             /\ \A q \in 1..Len(Escape(key[p])) :
                    Sanitize(key)[Len(F[p - 1]) + q] = Escape(key[p])[q]
  <2>1. p \in 1..Len(s) /\ s[p] = Escape(key[p])
    BY <1>3
  <2>2. /\ Len(F[p]) = Len(F[p - 1]) + Len(s[p])
        /\ Len(F[p]) <= Len(F[Len(s)])
        /\ \A q \in 1..Len(s[p]) : F[Len(s)][Len(F[p - 1]) + q] = s[p][q]
    BY ONLY <1>3, <1>4, <2>1, Placed
  <2> QED
    BY ONLY <1>3, <1>5, <2>1, <2>2
<1> QED
  BY <1>5, <1>6, <1>7 DEF EncodedBy

(* A byte of the name that is a hex digit, where a rune's bytes begin, is  *)
(* that rune.                                                              *)
LEMMA HexRune ==
    ASSUME NEW key \in Seq(Nat), \A i \in DOMAIN key : key[i] \in Bmp,
           NEW F, EncodedBy(F, key), NEW p \in 1..Len(key)
    PROVE  /\ Sanitize(key)[Len(F[p - 1]) + 1] \in HexChars <=> key[p] \in HexChars
           /\ key[p] \in HexChars => /\ Len(F[p]) = Len(F[p - 1]) + 1
                                    /\ Sanitize(key)[Len(F[p - 1]) + 1] = key[p]
<1>n. Len(key) \in Nat /\ DOMAIN key = 1..Len(key) /\ p - 1 \in 0..Len(key)
  OBVIOUS
<1>1. PICK c \in Bmp : c = key[p]
  BY <1>n
<1>2. Underscore \notin HexChars /\ \A x \in HexChars : x \in Plain
  BY HexCharFacts
<1>3. PICK l : l = Len(F[p - 1]) /\ l \in Nat
  BY <1>n, SeqLength DEF EncodedBy
<1>4. /\ Len(F[p]) = l + Len(Escape(c))
      /\ \A q \in 1..Len(Escape(c)) : Sanitize(key)[l + q] = Escape(c)[q]
  BY <1>1, <1>3 DEF EncodedBy
<1>5. CASE Unescaped(c)
  <2>1. Len(Escape(c)) = 1 /\ Escape(c)[1] = c
    BY <1>5 DEF Unescaped
  <2>2. Sanitize(key)[l + 1] = c
    BY <1>4, <2>1
  <2> QED
    BY <1>1, <1>3, <1>4, <2>1, <2>2
<1>6. ASSUME c \notin Plain, Len(Escape(c)) \in {3, 4, 5}, Escape(c)[1] = Underscore
      PROVE  Sanitize(key)[l + 1] \notin HexChars /\ c \notin HexChars
  <2>0. 1 \in 1..Len(Escape(c))
    BY <1>6
  <2>1. Sanitize(key)[l + 1] = Underscore
    BY <1>4, <1>6, <2>0
  <2> QED
    BY <1>2, <1>6, <2>1
<1>7. Unescaped(c) \/ (c \notin Plain /\ Len(Escape(c)) \in {3, 4, 5} /\ Escape(c)[1] = Underscore)
  <2>1. ASSUME NEW x, NEW y, EscapedAs(c, x, y)
        PROVE  c \notin Plain /\ Len(Escape(c)) = 3 /\ Escape(c)[1] = Underscore
    BY <2>1 DEF EscapedAs
  <2>2. LongEscape(c) => c \notin Plain /\ Len(Escape(c)) \in {4, 5} /\ Escape(c)[1] = Underscore
    BY DEF LongEscape
  <2> QED
    BY <2>1, <2>2, EscapeOf
<1> QED
  BY <1>1, <1>3, <1>5, <1>6, <1>7

(* An underscore of the key that the decoder takes for an escape.          *)
FalseEscape(key, p) ==
    /\ p \in 1..Len(key) - 2
    /\ key[p] = Underscore /\ key[p + 1] \in HexChars /\ key[p + 2] \in HexChars

LEMMA FalseEscapeRead ==
    ASSUME NEW key \in Seq(Nat), \A i \in DOMAIN key : key[i] \in Bmp,
           NEW F, EncodedBy(F, key), NEW p \in 1..Len(key), Unescaped(key[p])
    PROVE  /\ EscapedAt(Sanitize(key), Len(F[p - 1]) + 1) <=> FalseEscape(key, p)
           /\ FalseEscape(key, p) => Len(F[p + 2]) = Len(F[p - 1]) + 3
<1>n. PICK n : n = Len(key) /\ n \in Nat /\ DOMAIN key = 1..n
  OBVIOUS
<1>p. p \in 1..n /\ p - 1 \in 0..n /\ p \in 0..n /\ p \in Nat /\ n \in 0..n
  BY <1>n
<1>0. PICK name : name = Sanitize(key)
  OBVIOUS
<1>f. F \in [0..n -> Seq(Nat)] /\ F[n] = name
  BY <1>0, <1>n, Zenon DEF EncodedBy
<1>1. PICK l : l = Len(F[p - 1]) /\ l \in Nat
  BY <1>p, <1>f, SeqLength
<1>2. PICK N : N = Len(name) /\ N \in Nat
  BY <1>p, <1>f, SeqLength
<1>e. /\ Len(F[p]) = l + 1
      /\ name[l + 1] = key[p]
  <2>1. Len(Escape(key[p])) = 1 /\ Escape(key[p])[1] = key[p]
    BY DEF Unescaped
  <2>2. /\ Len(F[p]) = Len(F[p - 1]) + Len(Escape(key[p]))
        /\ \A q \in 1..Len(Escape(key[p])) : name[Len(F[p - 1]) + q] = Escape(key[p])[q]
    BY <1>0, Zenon DEF EncodedBy
  <2>3. 1 \in 1..Len(Escape(key[p]))
    BY <2>1
  <2>4. name[l + 1] = Escape(key[p])[1]
    BY <1>1, <2>2, <2>3
  <2> QED
    BY <1>1, <2>1, <2>2, <2>4
<1>3. \A m \in 1..n : Len(F[m]) <= N
  BY <1>0, <1>2, <1>n DEF EncodedBy
<1>4. \A m \in 1..n :
        /\ name[Len(F[m - 1]) + 1] \in HexChars <=> key[m] \in HexChars
        /\ key[m] \in HexChars => Len(F[m]) = Len(F[m - 1]) + 1
  BY <1>0, <1>n, HexRune
<1>5. ASSUME EscapedAt(name, l + 1) PROVE FalseEscape(key, p)
  <2>1. /\ name[l + 1] = Underscore /\ (l + 1) + 2 <= N
        /\ name[(l + 1) + 1] \in HexChars /\ name[(l + 1) + 2] \in HexChars
    BY <1>2, <1>5, Zenon DEF EscapedAt
  <2>2. p + 1 \in 1..n /\ (p + 1) - 1 = p
    <3>1. p # n
      BY <1>1, <1>2, <1>e, <1>f, <2>1
    <3> QED
      BY <1>n, <1>p, <3>1
  <2>3. key[p + 1] \in HexChars /\ Len(F[p + 1]) = (l + 1) + 1
    BY <1>4, <1>e, <2>1, <2>2
  <2>4. p + 2 \in 1..n /\ (p + 2) - 1 = p + 1
    <3>1. p + 1 # n
      BY <1>1, <1>2, <1>f, <2>1, <2>3
    <3> QED
      BY <1>n, <1>p, <2>2, <3>1
  <2>5. key[p + 2] \in HexChars
    <3>1. ((l + 1) + 1) + 1 = (l + 1) + 2
      BY <1>1
    <3> QED
      BY <1>4, <2>1, <2>3, <2>4, <3>1
  <2>6. p \in 1..n - 2
    BY <1>n, <1>p, <2>4
  <2> QED
    BY <1>n, <1>e, <2>1, <2>3, <2>5, <2>6 DEF FalseEscape
<1>6. ASSUME FalseEscape(key, p) PROVE EscapedAt(name, l + 1) /\ Len(F[p + 2]) = l + 3
  <2>1. /\ p \in 1..n - 2 /\ key[p] = Underscore
        /\ key[p + 1] \in HexChars /\ key[p + 2] \in HexChars
    BY <1>6, <1>n, Zenon DEF FalseEscape
  <2>2. /\ p + 1 \in 1..n /\ (p + 1) - 1 = p
        /\ p + 2 \in 1..n /\ (p + 2) - 1 = p + 1
        /\ ((l + 1) + 1) + 1 = (l + 1) + 2 /\ (l + 1) + 2 = l + 3
    BY <1>1, <1>n, <1>p, <2>1
  <2>3. Len(F[p + 1]) = (l + 1) + 1 /\ name[(l + 1) + 1] \in HexChars
    BY <1>4, <1>e, <2>1, <2>2
  <2>4. Len(F[p + 2]) = (l + 1) + 2 /\ name[(l + 1) + 2] \in HexChars
    BY <1>4, <2>1, <2>2, <2>3
  <2>5. (l + 1) + 2 <= N
    BY <1>3, <2>2, <2>4
  <2> QED
    BY <1>2, <1>e, <2>1, <2>2, <2>3, <2>4, <2>5 DEF EscapedAt
<1> QED
  BY <1>0, <1>1, <1>5, <1>6

(* More than two and more than three hex digits.                           *)
Long(c) == c >= 256
Longer(c) == c >= 4096

(* What Unsanitize does with the bytes of each rune: R[p] is decoded from  *)
(* the bytes after rune p.  A byte of its own is copied, a false escape    *)
(* takes three runes, a true one gives the rune or, above 255, a byte made *)
(* of its first two digits and the digits that are left.                   *)
Copied(R, key, p) ==
    Unescaped(key[p]) /\ ~FalseEscape(key, p) /\ R[p - 1] = <<key[p]>> \o R[p]
Swallowed(R, key, p) ==
    FalseEscape(key, p) /\ \E v \in Nat : R[p - 1] = <<v>> \o R[p + 2]
Restored(R, key, p) ==
    key[p] \notin Plain /\ key[p] \in 0..255 /\ R[p - 1] = <<key[p]>> \o R[p]
AfterCut(R, key, p, t) ==
    t = R[p] \/ (Longer(key[p]) /\ \E e \in Nat : t = <<e>> \o R[p])
Cut(R, key, p) ==
    /\ Long(key[p])
    /\ \E v, d \in Nat : \E t :
        d < 128 /\ AfterCut(R, key, p, t) /\ R[p - 1] = <<v>> \o (<<d>> \o t)

DecodedTo(R, key) ==
    /\ R[0] = Unsanitize(Sanitize(key)) /\ R[Len(key)] = << >>
    /\ \A p \in 1..Len(key) :
        \/ Copied(R, key, p) \/ Swallowed(R, key, p) \/ Restored(R, key, p) \/ Cut(R, key, p)

LEMMA TwoDigits ==
    ASSUME NEW x \in HexChars, NEW y \in HexChars
    PROVE  16 * HexValue(x) + HexValue(y) \in Nat
<1>1. PICK u, v : u = HexValue(x) /\ v = HexValue(y) /\ u \in 0..15 /\ v \in 0..15
  BY HexCharFacts
<1>2. 16 * u + v \in Nat
  BY ONLY <1>1
<1> QED
  BY <1>1, <1>2

LEMMA HexCharByte ==
    ASSUME NEW x \in HexChars
    PROVE  x \in Nat /\ x < 128 /\ x # Underscore
<1>1. x \in 0..127 /\ x # Underscore
  BY HexCharFacts
<1> QED
  BY ONLY <1>1

(* Where the bytes of a long escape are.                                   *)
LEMMA Offsets ==
    ASSUME NEW l \in Nat, NEW N \in Nat, NEW k \in {4, 5}, l + k <= N
    PROVE  /\ l + 1 \in 1..N /\ (l + 1) + 1 = l + 2 /\ (l + 1) + 2 = l + 3 /\ (l + 1) + 3 = l + 4
           /\ l + 3 <= N /\ l + 4 \in 1..N /\ (l + 4) + 1 = l + 5
           /\ k = 5 => l + 5 \in 1..N /\ (l + 5) + 1 = (l + k) + 1
           /\ k = 4 => l + 5 = (l + k) + 1
<1>1. CASE k = 4
  BY <1>1
<1>2. CASE k = 5
  BY <1>2
<1> QED
  BY <1>1, <1>2

LEMMA Decoded ==
    ASSUME NEW key \in Seq(Nat), \A i \in DOMAIN key : key[i] \in Bmp
    PROVE  \E R : DecodedTo(R, key)
<1>n. PICK n : n = Len(key) /\ n \in Nat /\ DOMAIN key = 1..n
  OBVIOUS
<1>1. PICK F : EncodedBy(F, key)
  BY Encoded
<1>2. PICK name : name = Sanitize(key) /\ name \in Seq(Nat) /\ name = F[n]
  <2>1. n \in 0..n
    BY <1>n
  <2>2. F \in [0..n -> Seq(Nat)] /\ F[n] = Sanitize(key)
    BY <1>n, <1>1, Zenon DEF EncodedBy
  <2> QED
    BY <2>1, <2>2
<1>N. PICK N : N = Len(name) /\ N \in Nat
  BY <1>2, SeqLength
<1>3. PICK f : DecodeBy(f, name, 1) /\ Unsanitize(name) = f[1]
  BY <1>2, UnsanitizeDecodes
<1>4. f = [i \in 1..N + 1 |->
              IF i > N THEN << >>
              ELSE IF EscapedAt(name, i)
                   THEN <<16 * HexValue(name[i + 1]) + HexValue(name[i + 2])>> \o f[i + 3]
                   ELSE <<name[i]>> \o f[i + 1]]
  BY <1>3, <1>N, Zenon DEF DecodeBy
<1>5. \A i \in 1..N :
        /\ EscapedAt(name, i) =>
              f[i] = <<16 * HexValue(name[i + 1]) + HexValue(name[i + 2])>> \o f[i + 3]
        /\ ~EscapedAt(name, i) => f[i] = <<name[i]>> \o f[i + 1]
  <2> SUFFICES ASSUME NEW i \in 1..N
               PROVE /\ EscapedAt(name, i) =>
                           f[i] = <<16 * HexValue(name[i + 1]) + HexValue(name[i + 2])>> \o f[i + 3]
                     /\ ~EscapedAt(name, i) => f[i] = <<name[i]>> \o f[i + 1]
    OBVIOUS
  <2>1. i \in 1..N + 1 /\ ~(i > N)
    BY <1>N
  <2> QED
    BY <1>4, <2>1
<1>6. PICK R : R = [p \in 0..n |-> f[Len(F[p]) + 1]]
  OBVIOUS
<1>7. R[0] = Unsanitize(Sanitize(key))
  <2>1. F[0] = << >> /\ Len(<< >>) = 0 /\ 0 \in 0..n /\ 0 + 1 = 1
    BY <1>n, <1>1 DEF EncodedBy
  <2>2. R[0] = f[1]
    BY <1>6, <2>1
  <2> QED
    BY <1>2, <1>3, <2>2
<1>8. R[n] = << >>
  <2>1. n \in 0..n /\ N + 1 \in 1..N + 1 /\ N + 1 > N
    BY <1>n, <1>N
  <2>2. f[N + 1] = << >>
    BY <1>4, <2>1
  <2> QED
    BY <1>2, <1>N, <1>6, <2>1, <2>2
<1>9. ASSUME NEW p \in 1..n
      PROVE  \/ Copied(R, key, p) \/ Swallowed(R, key, p) \/ Restored(R, key, p) \/ Cut(R, key, p)
  <2>p. p \in 1..Len(key) /\ p - 1 \in 0..n /\ p \in 0..n
    BY <1>n
  <2>1. PICK l : l = Len(F[p - 1]) /\ l \in Nat
    BY <1>n, <1>1, <2>p, SeqLength DEF EncodedBy
  <2>2. PICK c \in Bmp : c = key[p]
    BY <1>n
  <2>3. /\ Len(F[p]) = l + Len(Escape(c))
        /\ Len(F[p]) <= N
        /\ \A q \in 1..Len(Escape(c)) : name[l + q] = Escape(c)[q]
    BY <1>1, <1>2, <1>N, <2>p, <2>1, <2>2 DEF EncodedBy
  <2>4. R[p - 1] = f[l + 1] /\ R[p] = f[Len(F[p]) + 1]
    BY <1>6, <2>p, <2>1
  <2>5. CASE Unescaped(c)
    <3>1. Len(Escape(c)) = 1 /\ Escape(c)[1] = c
      BY <2>5 DEF Unescaped
    <3>2. Len(F[p]) = l + 1 /\ l + 1 <= N /\ name[l + 1] = c
      BY <2>3, <3>1
    <3>3. l + 1 \in 1..N
      BY <1>N, <2>1, <3>2
    <3>4. /\ EscapedAt(name, l + 1) <=> FalseEscape(key, p)
          /\ FalseEscape(key, p) => Len(F[p + 2]) = l + 3
      BY <1>1, <1>2, <2>p, <2>1, <2>2, <2>5, FalseEscapeRead
    <3>5. CASE FalseEscape(key, p)
      <4>1. name[(l + 1) + 1] \in HexChars /\ name[(l + 1) + 2] \in HexChars
        BY <3>4, <3>5 DEF EscapedAt
      <4>2. PICK v : v = 16 * HexValue(name[(l + 1) + 1]) + HexValue(name[(l + 1) + 2])
        OBVIOUS
      <4>3. v \in Nat
        BY <4>1, <4>2, TwoDigits
      <4>4. f[l + 1] = <<v>> \o f[(l + 1) + 3]
        BY <1>5, <3>3, <3>4, <3>5, <4>2
      <4>5. p + 2 \in 0..n /\ (l + 1) + 3 = (l + 3) + 1
        BY <1>n, <2>1, <3>5 DEF FalseEscape
      <4>6. R[p + 2] = f[(l + 1) + 3]
        BY <1>6, <3>4, <3>5, <4>5
      <4> QED
        BY <2>4, <3>5, <4>3, <4>4, <4>6 DEF Swallowed
    <3>6. CASE ~FalseEscape(key, p)
      <4>1. f[l + 1] = <<c>> \o f[(l + 1) + 1]
        BY <1>5, <3>2, <3>3, <3>4, <3>6
      <4> QED
        BY <2>2, <2>4, <2>5, <3>2, <3>6, <4>1 DEF Copied
    <3> QED
      BY <3>5, <3>6
  <2>6. ASSUME c \in 0..255, NEW x \in HexChars, NEW y \in HexChars, EscapedAs(c, x, y)
        PROVE  Restored(R, key, p)
    <3>1. /\ Len(Escape(c)) = 3 /\ Escape(c)[1] = Underscore
          /\ Escape(c)[2] = x /\ Escape(c)[3] = y
          /\ 16 * HexValue(x) + HexValue(y) = c /\ c \notin Plain
      BY <2>6 DEF EscapedAs
    <3>2. /\ name[l + 1] = Underscore /\ name[l + 2] = x /\ name[l + 3] = y
          /\ Len(F[p]) = l + 3 /\ l + 3 <= N
      BY <2>3, <3>1
    <3>3. /\ l + 1 \in 1..N /\ (l + 1) + 2 = l + 3
          /\ (l + 1) + 1 = l + 2 /\ (l + 1) + 3 = (l + 3) + 1
      BY <1>N, <2>1, <3>2
    <3>4. EscapedAt(name, l + 1)
      BY <1>N, <2>6, <3>2, <3>3 DEF EscapedAt
    <3>5. f[l + 1] = <<16 * HexValue(name[(l + 1) + 1]) + HexValue(name[(l + 1) + 2])>>
                       \o f[(l + 1) + 3]
      BY <1>5, <3>3, <3>4
    <3>6. R[p - 1] = <<c>> \o R[p]
      BY <2>4, <3>1, <3>2, <3>3, <3>5
    <3> QED
      BY <2>2, <2>6, <3>1, <3>6 DEF Restored
  <2>7. ASSUME c >= 256, LongEscape(c) PROVE Cut(R, key, p)
    <3>1. PICK k : k = Len(Escape(c)) /\ k = IF c < 4096 THEN 4 ELSE 5
      BY <2>7 DEF LongEscape
    <3>2. Escape(c)[1] = Underscore /\ \A q \in 2..k : Escape(c)[q] \in HexChars
      BY <2>7, <3>1 DEF LongEscape
    <3>3. /\ name[l + 1] = Underscore /\ \A q \in 2..k : name[l + q] \in HexChars
          /\ Len(F[p]) = l + k /\ l + k <= N
      <4>1. 1 \in 1..k /\ \A q \in 2..k : q \in 1..k
        BY <3>1
      <4>2. Len(F[p]) = l + k /\ l + k <= N /\ \A q \in 1..k : name[l + q] = Escape(c)[q]
        BY <2>3, <3>1
      <4> QED
        BY <3>2, <4>1, <4>2
    <3>0. k \in {4, 5} /\ (k = 5 => c >= 4096)
      BY <3>1, RuneRange
    <3>4. /\ name[l + 2] \in HexChars /\ name[l + 3] \in HexChars /\ name[l + 4] \in HexChars
          /\ k = 5 => name[l + 5] \in HexChars
      BY <3>0, <3>3
    <3>5. /\ l + 1 \in 1..N /\ (l + 1) + 1 = l + 2 /\ (l + 1) + 2 = l + 3 /\ (l + 1) + 3 = l + 4
          /\ l + 3 <= N /\ l + 4 \in 1..N /\ (l + 4) + 1 = l + 5
          /\ k = 5 => l + 5 \in 1..N /\ (l + 5) + 1 = (l + k) + 1
          /\ k = 4 => l + 5 = (l + k) + 1
      BY ONLY <1>N, <2>1, <3>0, <3>3, Offsets
    <3>6. EscapedAt(name, l + 1)
      BY <1>N, <3>3, <3>4, <3>5 DEF EscapedAt
    <3>7. ~EscapedAt(name, l + 4) /\ (k = 5 => ~EscapedAt(name, l + 5))
      <4>1. name[l + 4] # Underscore /\ (k = 5 => name[l + 5] # Underscore)
        BY <3>4, HexCharFacts
      <4> QED
        BY <4>1 DEF EscapedAt
    <3>8. PICK v, d : /\ v = 16 * HexValue(name[l + 2]) + HexValue(name[l + 3])
                      /\ d = name[l + 4]
      OBVIOUS
    <3>9. v \in Nat /\ d \in Nat /\ d < 128
      BY <3>4, <3>8, TwoDigits, HexCharByte
    <3>10. f[l + 1] = <<v>> \o f[l + 4]
      BY <1>5, <3>5, <3>6, <3>8
    <3>11. f[l + 4] = <<d>> \o f[l + 5]
      BY <1>5, <3>5, <3>7, <3>8
    <3>12. ASSUME k = 4 PROVE AfterCut(R, key, p, f[l + 5])
      <4>1. R[p] = f[l + 5]
        BY <2>4, <3>3, <3>5, <3>12
      <4> QED
        BY <4>1 DEF AfterCut
    <3>13. ASSUME k = 5 PROVE AfterCut(R, key, p, f[l + 5])
      <4>1. R[p] = f[(l + 5) + 1]
        BY <2>4, <3>3, <3>5, <3>13
      <4>2. PICK e : e = name[l + 5] /\ e \in Nat
        BY <3>4, <3>13, HexCharByte
      <4>3. f[l + 5] = <<e>> \o f[(l + 5) + 1]
        BY <1>5, <3>5, <3>7, <3>13, <4>2
      <4>4. Longer(key[p]) /\ f[l + 5] = <<e>> \o R[p]
        BY <2>2, <3>0, <3>13, <4>1, <4>3 DEF Longer
      <4> QED
        BY <4>2, <4>4, Zenon DEF AfterCut
    <3>14. AfterCut(R, key, p, f[l + 5])
      BY <3>0, <3>12, <3>13
    <3>15. R[p - 1] = <<v>> \o (<<d>> \o f[l + 5])
      BY <2>4, <3>10, <3>11
    <3>16. Long(key[p])
      BY <2>2, <2>7 DEF Long
    <3> QED
      BY ONLY <3>9, <3>14, <3>15, <3>16 DEF Cut
  <2> QED
    BY <2>5, <2>6, <2>7, EscapeOf
<1> QED
  BY <1>n, <1>7, <1>8, <1>9 DEF DecodedTo

LEMMA OneInFront ==
    ASSUME NEW v \in Nat, NEW s \in Seq(Nat)
    PROVE  /\ <<v>> \o s \in Seq(Nat) /\ Len(<<v>> \o s) = Len(s) + 1
           /\ (<<v>> \o s)[1] = v
           /\ \A i \in 1..Len(s) : (<<v>> \o s)[i + 1] = s[i]
OBVIOUS

(* The UTF-8 form of a key, rune by rune.                                  *)
Utf8By(H, key) ==
    /\ Len(H[0]) = 0 /\ H[Len(key)] = Utf8(key) /\ Utf8(key) \in Seq(Nat)
    /\ \A p \in 0..Len(key) : Len(H[p]) \in Nat
    /\ \A p \in 1..Len(key) :
        /\ Len(H[p]) = Len(H[p - 1]) + Len(Utf8Rune(key[p]))
        /\ \A q \in 1..Len(Utf8Rune(key[p])) :
            Utf8(key)[Len(H[p - 1]) + q] = Utf8Rune(key[p])[q]

LEMMA Utf8Placed ==
    ASSUME NEW key \in Seq(Nat), \A i \in DOMAIN key : key[i] \in Bmp
    PROVE  \E H : Utf8By(H, key)
<1>n. PICK n : n = Len(key) /\ n \in Nat /\ DOMAIN key = 1..n
  OBVIOUS
<1>1. PICK s : s = [i \in DOMAIN key |-> Utf8Rune(key[i])]
  OBVIOUS
<1>2. \A i \in DOMAIN key : Utf8Rune(key[i]) \in Seq(Nat)
  BY RuneBytes
<1>3. s \in Seq(Seq(Nat)) /\ Len(s) = n /\ \A i \in 1..n : s[i] = Utf8Rune(key[i])
  <2>1. \A i \in 1..n : s[i] \in Seq(Nat) /\ s[i] = Utf8Rune(key[i])
    BY <1>n, <1>1, <1>2
  <2>2. s \in [1..n -> Seq(Nat)]
    BY <1>n, <1>1, <2>1
  <2> QED
    BY <1>n, <2>1, <2>2
<1>4. PICK H : Joined(H, s) /\ FlattenSeq(s) = H[Len(s)]
  BY <1>3, FlattenJoins
<1>5. H[n] = Utf8(key)
  BY <1>1, <1>3, <1>4 DEF Utf8
<1>6. H \in [0..n -> Seq(Nat)] /\ H[0] = << >>
  BY <1>3, <1>4 DEF Joined
<1>7. ASSUME NEW p \in 1..n
      PROVE  /\ Len(H[p]) = Len(H[p - 1]) + Len(Utf8Rune(key[p]))
             /\ \A q \in 1..Len(Utf8Rune(key[p])) :
                    Utf8(key)[Len(H[p - 1]) + q] = Utf8Rune(key[p])[q]
  <2>1. p \in 1..Len(s) /\ s[p] = Utf8Rune(key[p])
    BY <1>3
  <2>2. /\ Len(H[p]) = Len(H[p - 1]) + Len(s[p])
        /\ \A q \in 1..Len(s[p]) : H[Len(s)][Len(H[p - 1]) + q] = s[p][q]
    <3>1. s \in Seq(Seq(Nat)) /\ Joined(H, s)
      BY <1>3, <1>4
    <3> QED
      BY ONLY <2>1, <3>1, Placed, ZenonT(60)
  <2> QED
    BY ONLY <1>3, <1>5, <2>1, <2>2
<1>8. /\ \A p \in 0..n : Len(H[p]) \in Nat
      /\ Utf8(key) \in Seq(Nat) /\ Len(H[0]) = 0
  <2>1. n \in 0..n /\ \A p \in 0..n : H[p] \in Seq(Nat)
    BY <1>n, <1>6
  <2>2. \A p \in 0..n : Len(H[p]) \in Nat
    BY <2>1, SeqLength
  <2> QED
    BY <1>5, <1>6, <2>1, <2>2
<1> QED
  BY <1>n, <1>5, <1>7, <1>8 DEF Utf8By

(* What is decoded from the bytes of some last runes is no longer than     *)
(* their UTF-8 form.                                                       *)
LEMMA NoLonger ==
    ASSUME NEW key \in Seq(Nat), \A i \in DOMAIN key : key[i] \in Bmp,
           NEW R, DecodedTo(R, key), NEW H, Utf8By(H, key)
    PROVE  \A p \in 0..Len(key) :
              R[p] \in Seq(Nat) /\ Len(R[p]) + Len(H[p]) <= Len(Utf8(key))
<1>n. PICK n : n = Len(key) /\ n \in Nat /\ DOMAIN key = 1..n
  OBVIOUS
<1>u. PICK u : u = Len(Utf8(key)) /\ u \in Nat
  BY SeqLength DEF Utf8By
<1> DEFINE Fits(p) == R[p] \in Seq(Nat) /\ Len(R[p]) + Len(H[p]) <= u
<1>1. PICK T : T = {j \in 0..n : \A p \in n - j..n : Fits(p)}
  OBVIOUS
<1>h. \A p \in 0..n : Len(H[p]) \in Nat
  BY <1>n DEF Utf8By
<1>w. ASSUME NEW p \in 1..n
      PROVE  /\ key[p] \in Nat /\ Len(Utf8Rune(key[p])) \in Nat /\ Len(Utf8Rune(key[p])) >= 1
             /\ Long(key[p]) => Len(Utf8Rune(key[p])) >= 2
             /\ Longer(key[p]) => Len(Utf8Rune(key[p])) = 3
             /\ Len(H[p]) = Len(H[p - 1]) + Len(Utf8Rune(key[p]))
  <2>1. PICK c \in Bmp : c = key[p]
    BY <1>n
  <2>2. /\ Utf8Rune(c) \in Seq(Nat) /\ Len(Utf8Rune(c)) >= 1
        /\ c >= 128 => Len(Utf8Rune(c)) >= 2
        /\ c >= 4096 => Len(Utf8Rune(c)) = 3
    BY RuneBytes
  <2>3. c \in Nat /\ (c >= 256 => c >= 128) /\ Len(Utf8Rune(c)) \in Nat
    BY <2>2, RuneRange, SeqLength
  <2>4. Len(H[p]) = Len(H[p - 1]) + Len(Utf8Rune(key[p]))
    BY <1>n DEF Utf8By
  <2> QED
    BY ONLY <2>1, <2>2, <2>3, <2>4 DEF Long, Longer
<1>y. ASSUME NEW p \in 1..n PROVE Len(H[p]) >= Len(H[p - 1]) + 1
  <2>1. PICK a, w : a = Len(H[p - 1]) /\ w = Len(Utf8Rune(key[p]))
    OBVIOUS
  <2>2. p - 1 \in 0..n
    BY <1>n
  <2>3. a \in Nat /\ w \in Nat /\ w >= 1 /\ Len(H[p]) = a + w
    BY <1>h, <1>w, <2>1, <2>2
  <2>4. a + w >= a + 1
    BY ONLY <2>3
  <2> QED
    BY <2>1, <2>3, <2>4
<1>2. 0 \in T
  <2>1. R[n] = << >> /\ Len(H[n]) = u
    BY <1>n, <1>u DEF DecodedTo, Utf8By
  <2>2. << >> \in Seq(Nat) /\ Len(<< >>) = 0
    OBVIOUS
  <2>3. Fits(n)
    BY <1>u, <2>1, <2>2
  <2>4. 0 \in 0..n /\ \A p \in n - 0..n : p = n
    BY <1>n
  <2> QED
    BY <1>1, <2>3, <2>4
<1>3. ASSUME NEW j \in 1..n, j - 1 \in T PROVE j \in T
  <2>1. PICK p : p \in 1..n /\ p = (n - j) + 1
    BY <1>n
  <2>2. \A m \in p..n : Fits(m)
    <3>1. n - (j - 1) = p
      BY <1>n, <2>1
    <3> QED
      BY <1>1, <1>3, <3>1
  <2>3. p \in p..n /\ p \in 0..n /\ p - 1 \in 0..n
    BY <1>n, <2>1
  <2>a. PICK a, b : a = Len(H[p - 1]) /\ b = Len(H[p]) /\ a \in Nat /\ b \in Nat
    BY <1>h, <2>3
  <2>w. PICK w : /\ key[p] \in Nat /\ w \in Nat /\ w >= 1 /\ b = a + w
                 /\ (Long(key[p]) => w >= 2)
                 /\ (Longer(key[p]) => w = 3)
    <3>1. PICK w : w = Len(Utf8Rune(key[p]))
      OBVIOUS
    <3>2. /\ key[p] \in Nat /\ w \in Nat /\ w >= 1
          /\ (Long(key[p]) => w >= 2)
          /\ (Longer(key[p]) => w = 3)
      BY <1>w, <2>1, <3>1, Zenon
    <3>3. b = a + w
      BY <1>w, <2>1, <2>a, <3>1
    <3> QED
      BY <3>2, <3>3
  <2>4. PICK t, lt : t = R[p] /\ t \in Seq(Nat) /\ lt = Len(t) /\ lt \in Nat /\ lt + b <= u
    BY <2>2, <2>3, <2>a, SeqLength
  <2>k. /\ lt \in Nat /\ a \in Nat /\ b \in Nat /\ w \in Nat /\ u \in Nat
        /\ w >= 1 /\ b = a + w /\ lt + b <= u
    BY <1>u, <2>4, <2>a, <2>w
  <2>5. Fits(p - 1)
    <3>1. ASSUME R[p - 1] = <<key[p]>> \o R[p] PROVE Fits(p - 1)
      <4>1. <<key[p]>> \o t \in Seq(Nat) /\ Len(<<key[p]>> \o t) = Len(t) + 1
        BY <2>4, <2>w, OneInFront
      <4>2. Len(R[p - 1]) = lt + 1 /\ R[p - 1] \in Seq(Nat)
        BY <2>4, <3>1, <4>1
      <4>3. (lt + 1) + a <= u
        BY ONLY <2>k
      <4> QED
        BY <2>a, <4>2, <4>3
    <3>2. ASSUME Swallowed(R, key, p) PROVE Fits(p - 1)
      <4>1. PICK v \in Nat : R[p - 1] = <<v>> \o R[p + 2]
        BY <3>2 DEF Swallowed
      <4>2. p \in 1..n - 2
        BY <1>n, <3>2 DEF Swallowed, FalseEscape
      <4>3. /\ p + 1 \in 1..n /\ p + 2 \in 1..n /\ p + 2 \in p..n /\ p + 2 \in 0..n
            /\ (p + 1) - 1 = p /\ (p + 2) - 1 = p + 1 /\ p + 1 \in 0..n
        BY <1>n, <2>1, <4>2
      <4>4. PICK s, c, d, ls : /\ s = R[p + 2] /\ s \in Seq(Nat)
                               /\ c = Len(H[p + 1]) /\ d = Len(H[p + 2]) /\ ls = Len(s)
        BY <2>2, <4>3
      <4>5. <<v>> \o s \in Seq(Nat) /\ Len(<<v>> \o s) = Len(s) + 1
        BY <4>4, OneInFront
      <4>6. c \in Nat /\ d \in Nat /\ ls \in Nat
        BY <1>h, <4>3, <4>4, SeqLength
      <4>7. c >= b + 1
        BY <1>y, <2>a, <4>3, <4>4
      <4>8. d >= c + 1
        BY <1>y, <4>3, <4>4
      <4>9. ls + d <= u
        BY <2>2, <4>3, <4>4
      <4>10. (ls + 1) + a <= u
        BY ONLY <2>k, <4>6, <4>7, <4>8, <4>9
      <4>11. R[p - 1] \in Seq(Nat) /\ Len(R[p - 1]) = ls + 1
        BY <4>1, <4>4, <4>5
      <4> QED
        BY <2>a, <4>10, <4>11
    <3>3. ASSUME Cut(R, key, p) PROVE Fits(p - 1)
      <4>1. Long(key[p])
        BY <3>3 DEF Cut
      <4>2. PICK v \in Nat, d \in Nat :
                \E s : AfterCut(R, key, p, s) /\ R[p - 1] = <<v>> \o (<<d>> \o s)
        BY <3>3, Zenon DEF Cut
      <4>3. PICK s : AfterCut(R, key, p, s) /\ R[p - 1] = <<v>> \o (<<d>> \o s)
        BY <4>2
      <4>4. s \in Seq(Nat) /\ (Len(s) = lt \/ (Len(s) = lt + 1 /\ Longer(key[p])))
        <5>1. CASE s = R[p]
          BY <2>4, <5>1
        <5>2. ASSUME Longer(key[p]), NEW e \in Nat, s = <<e>> \o R[p]
              PROVE  s \in Seq(Nat) /\ Len(s) = lt + 1
          <6>1. <<e>> \o t \in Seq(Nat) /\ Len(<<e>> \o t) = Len(t) + 1
            BY <2>4, OneInFront
          <6> QED
            BY <2>4, <5>2, <6>1
        <5>3. s = R[p] \/ (Longer(key[p]) /\ \E e \in Nat : s = <<e>> \o R[p])
          BY <4>3, Zenon DEF AfterCut
        <5> QED
          BY <5>1, <5>2, <5>3, Zenon
      <4>r. <<d>> \o s \in Seq(Nat) /\ Len(<<d>> \o s) = Len(s) + 1
        BY ONLY <4>4, d \in Nat, OneInFront
      <4>5. PICK r : r = <<d>> \o s /\ r \in Seq(Nat) /\ Len(r) = Len(s) + 1
        BY <4>r, Zenon
      <4>6. <<v>> \o r \in Seq(Nat) /\ Len(<<v>> \o r) = Len(r) + 1
        BY <4>5, OneInFront
      <4>7. R[p - 1] \in Seq(Nat) /\ Len(R[p - 1]) = (Len(s) + 1) + 1
        BY <4>3, <4>5, <4>6
      <4>8. PICK ls : ls = Len(s) /\ ls \in Nat
        BY <4>4, SeqLength
      <4>9. ((ls + 1) + 1) + a <= u
        <5>1. CASE ls = lt
          <6>1. w >= 2
            BY <2>w, <4>1
          <6> QED
            BY ONLY <2>k, <5>1, <6>1
        <5>2. CASE ls = lt + 1 /\ Longer(key[p])
          <6>1. w = 3 /\ ls = lt + 1
            BY <2>w, <5>2
          <6> QED
            BY ONLY <2>k, <6>1
        <5> QED
          BY <4>4, <4>8, <5>1, <5>2
      <4> QED
        BY <2>a, <4>7, <4>8, <4>9
    <3>4. \/ Copied(R, key, p) \/ Swallowed(R, key, p) \/ Restored(R, key, p) \/ Cut(R, key, p)
      BY <1>n, <2>1 DEF DecodedTo
    <3>5. Copied(R, key, p) \/ Restored(R, key, p) => R[p - 1] = <<key[p]>> \o R[p]
      BY DEF Copied, Restored
    <3> QED
      BY <3>1, <3>2, <3>3, <3>4, <3>5
  <2>6. j \in 0..n /\ \A m \in n - j..n : m = p - 1 \/ m \in p..n
    BY <1>n, <2>1
  <2> QED
    BY <1>1, <2>2, <2>5, <2>6
<1>4. n \in T
  <2> HIDE DEF Fits
  <2>1. \A j \in 1..n : j - 1 \in T => j \in T
    BY <1>3
  <2>2. \A j \in 0..n : j \in T
    BY <1>n, <1>2, <2>1, Induction
  <2> QED
    BY <1>n, <2>2
<1>5. n - n = 0
  BY <1>n
<1> QED
  BY <1>n, <1>u, <1>1, <1>4, <1>5

LEMMA AsciiRunes ==
    ASSUME NEW key \in Seq(Nat), \A i \in DOMAIN key : ~(key[i] > 127)
    PROVE  \A i \in DOMAIN key : key[i] \in 0..127
<1> SUFFICES ASSUME NEW i \in DOMAIN key PROVE key[i] \in 0..127
  OBVIOUS
<1>1. PICK c : c = key[i]
  OBVIOUS
<1>2. c \in Nat
  BY <1>1
<1>3. ~(c > 127)
  BY <1>1
<1>4. c \in 0..127
  BY ONLY <1>2, <1>3
<1> QED
  BY <1>1, <1>4

(* A key of ASCII runes is its own UTF-8 form.                             *)
LEMMA Utf8OfAscii ==
    ASSUME NEW key \in Seq(Nat), \A i \in DOMAIN key : key[i] \in 0..127
    PROVE  Utf8(key) = key
<1>n. Len(key) \in Nat /\ DOMAIN key = 1..Len(key)
  OBVIOUS
<1>1. PICK s : s = [i \in DOMAIN key |-> Utf8Rune(key[i])]
  OBVIOUS
<1>2. \A i \in DOMAIN key : Utf8Rune(key[i]) = <<key[i]>> /\ <<key[i]>> \in Seq(Nat)
  <2>2. \A c \in 0..127 : <<c>> \in Seq(Nat)
    BY OneByte
  <2> QED
    BY <2>2, OneByteRune
<1>3. s \in Seq(Seq(Nat)) /\ Len(s) = Len(key) /\ \A i \in 1..Len(key) : s[i] = <<key[i]>>
  <2>1. \A i \in 1..Len(key) : s[i] \in Seq(Nat) /\ s[i] = <<key[i]>>
    BY <1>n, <1>1, <1>2
  <2>2. s \in [1..Len(key) -> Seq(Nat)]
    BY <1>n, <1>1, <2>1
  <2> QED
    BY <1>n, <2>1, <2>2
<1>4. PICK F : Joined(F, s) /\ FlattenSeq(s) = F[Len(s)]
  BY <1>3, FlattenJoins
<1>5. PICK T : T = {i \in 0..Len(key) : F[i] = SubSeq(key, 1, i)}
  OBVIOUS
<1>6. 0 \in T
  <2>1. F[0] = << >> /\ SubSeq(key, 1, 0) = << >>
    BY <1>4, Sections DEF Joined
  <2>2. 0 \in 0..Len(key)
    BY <1>n
  <2> QED
    BY ONLY <1>5, <2>1, <2>2, Zenon
<1>7. ASSUME NEW i \in 1..Len(key), i - 1 \in T PROVE i \in T
  <2>1. F[i] = F[i - 1] \o s[i]
    BY <1>3, <1>4 DEF Joined
  <2>2. F[i] = SubSeq(key, 1, i - 1) \o <<key[i]>>
    BY <1>3, <1>5, <1>7, <2>1
  <2>3. F[i] = SubSeq(key, 1, i)
    BY <2>2, Sections
  <2>4. i \in 0..Len(key)
    BY <1>n
  <2> QED
    BY <1>5, <2>3, <2>4
<1>8. Len(key) \in T
  <2>1. \A i \in 1..Len(key) : i - 1 \in T => i \in T
    BY <1>7
  <2>2. \A i \in 0..Len(key) : i \in T
    BY <1>n, <1>6, <2>1, Induction
  <2> QED
    BY <1>n, <2>2
<1>9. F[Len(key)] = key
  BY <1>5, <1>8, Sections
<1> QED
  BY <1>1, <1>3, <1>4, <1>9 DEF Utf8

(* A rune that is not decoded to itself.                                   *)
Spoiled(key, p) == p \in 1..Len(key) /\ (key[p] > 127 \/ FalseEscape(key, p))

LEMMA MangledSpoiled ==
    ASSUME NEW key \in Seq(Nat)
    PROVE  Mangled(key) <=> \E p \in 1..Len(key) : Spoiled(key, p)
<1>n. PICK n : n = Len(key) /\ n \in Nat /\ DOMAIN key = 1..n
  OBVIOUS
<1>1. ASSUME NEW i \in 1..n - 2 PROVE i \in 1..n
  BY <1>n
<1> QED
  BY <1>n, <1>1 DEF Mangled, Spoiled, FalseEscape

(* A rune that is not spoiled is decoded to itself.                        *)
LEMMA DecodedToItself ==
    ASSUME NEW key \in Seq(Nat), \A i \in DOMAIN key : key[i] \in Bmp,
           NEW R, DecodedTo(R, key), NEW p \in 1..Len(key), ~Spoiled(key, p)
    PROVE  R[p - 1] = <<key[p]>> \o R[p] /\ key[p] \in 0..127
<1>1. PICK c \in Bmp : c = key[p]
  OBVIOUS
<1>2. c \in Nat /\ (c <= 127 \/ c >= 128)
  BY RuneRange
<1>3. ~(c > 127) /\ ~FalseEscape(key, p)
  BY <1>1 DEF Spoiled
<1>4. c \in 0..127 /\ ~(c >= 256)
  BY ONLY <1>2, <1>3
<1>5. ~Cut(R, key, p) /\ ~Swallowed(R, key, p)
  BY <1>1, <1>3, <1>4 DEF Cut, Long, Swallowed
<1>6. Copied(R, key, p) \/ Restored(R, key, p)
  BY <1>5 DEF DecodedTo
<1> QED
  BY <1>1, <1>4, <1>6 DEF Copied, Restored

(* The first m runes are the beginning of what is decoded, and as long in  *)
(* UTF-8.                                                                  *)
Begun(R, H, key, m) ==
    /\ Len(H[m]) = m
    /\ Len(R[0]) = m + Len(R[m])
    /\ \A i \in 1..Len(R[m]) : R[0][m + i] = R[m][i]
    /\ \A i \in 1..m : R[0][i] = key[i]

LEMMA BeforeSpoiled ==
    ASSUME NEW key \in Seq(Nat), \A i \in DOMAIN key : key[i] \in Bmp,
           NEW R, DecodedTo(R, key), NEW H, Utf8By(H, key),
           NEW m \in 0..Len(key), \A p \in 1..m : ~Spoiled(key, p)
    PROVE  Begun(R, H, key, m)
<1>n. PICK n : n = Len(key) /\ n \in Nat /\ DOMAIN key = 1..n
  OBVIOUS
<1>m. m \in Nat /\ m \in 0..n
  BY <1>n
<1>r. \A p \in 0..n : R[p] \in Seq(Nat) /\ Len(R[p]) \in Nat
  BY <1>n, NoLonger, SeqLength
<1>1. PICK T : T = {j \in 0..m : Begun(R, H, key, j)}
  OBVIOUS
<1>2. 0 \in T
  <2>1. PICK s, l : s = R[0] /\ l = Len(s) /\ l \in Nat
    BY <1>n, <1>r
  <2>2. 0 + l = l /\ \A i \in 1..l : 0 + i = i
    BY <2>1
  <2>3. Len(H[0]) = 0 /\ 0 \in 0..m
    BY <1>m DEF Utf8By
  <2> QED
    BY <1>1, <2>1, <2>2, <2>3 DEF Begun
<1>3. ASSUME NEW j \in 1..m, j - 1 \in T PROVE j \in T
  <2>1. j \in 1..n /\ j \in 0..n /\ j - 1 \in 0..n /\ j \in 0..m /\ j \in Nat
    BY <1>n, <1>m
  <2>2. R[j - 1] = <<key[j]>> \o R[j] /\ key[j] \in 0..127
    BY <1>n, <2>1, DecodedToItself
  <2>3. PICK s, l : s = R[j] /\ s \in Seq(Nat) /\ l = Len(s) /\ l \in Nat
    BY <1>r, <2>1
  <2>4. /\ Len(<<key[j]>> \o s) = l + 1
        /\ \A i \in 1..l : (<<key[j]>> \o s)[i + 1] = s[i]
        /\ (<<key[j]>> \o s)[1] = key[j]
    <3>1. key[j] \in Nat
      BY <2>2
    <3> QED
      BY <2>3, <3>1, OneInFront
  <2>5. /\ Len(R[j - 1]) = l + 1 /\ \A i \in 1..l : R[j - 1][i + 1] = s[i]
        /\ R[j - 1][1] = key[j]
    BY <2>2, <2>3, <2>4
  <2>6. /\ Len(H[j - 1]) = j - 1
        /\ Len(R[0]) = (j - 1) + (l + 1)
        /\ \A i \in 1..l + 1 : R[0][(j - 1) + i] = R[j - 1][i]
        /\ \A i \in 1..j - 1 : R[0][i] = key[i]
    <3>1. Begun(R, H, key, j - 1)
      BY <1>1, <1>3
    <3>2. /\ Len(H[j - 1]) = j - 1
          /\ Len(R[0]) = (j - 1) + Len(R[j - 1])
          /\ \A i \in 1..Len(R[j - 1]) : R[0][(j - 1) + i] = R[j - 1][i]
          /\ \A i \in 1..j - 1 : R[0][i] = key[i]
      BY <3>1, Zenon DEF Begun
    <3> QED
      BY <2>5, <3>2
  <2>7. Len(R[0]) = j + l
    BY <2>1, <2>3, <2>6
  <2>8. ASSUME NEW i \in 1..l PROVE R[0][j + i] = s[i]
    <3>1. i + 1 \in 1..l + 1 /\ (j - 1) + (i + 1) = j + i
      BY <2>1, <2>3
    <3>2. R[0][(j - 1) + (i + 1)] = R[j - 1][i + 1]
      BY <2>6, <3>1
    <3> QED
      BY <2>5, <3>1, <3>2
  <2>9. Len(H[j]) = j
    <3>1. Len(H[j]) = Len(H[j - 1]) + Len(Utf8Rune(key[j]))
      BY <1>n, <2>1 DEF Utf8By
    <3>2. Len(Utf8Rune(key[j])) = 1
      <4>1. Utf8Rune(key[j]) = <<key[j]>>
        BY <2>2, OneByteRune
      <4>2. key[j] \in Nat
        BY <2>2
      <4> QED
        BY <4>1, <4>2, OneByte
    <3> QED
      BY <2>1, <2>6, <3>1, <3>2
  <2>10. ASSUME NEW i \in 1..j PROVE R[0][i] = key[i]
    <3>1. CASE i = j
      <4>1. 1 \in 1..l + 1 /\ (j - 1) + 1 = j
        BY <2>1, <2>3
      <4> QED
        BY <2>5, <2>6, <3>1, <4>1
    <3>2. CASE i # j
      <4>1. i \in 1..j - 1
        BY <2>1, <3>2
      <4> QED
        BY <2>6, <4>1
    <3> QED
      BY <3>1, <3>2
  <2> QED
    BY <1>1, <2>1, <2>3, <2>7, <2>8, <2>9, <2>10 DEF Begun
<1>4. m \in T
  <2>1. \A j \in 1..m : j - 1 \in T => j \in T
    BY <1>3
  <2>2. \A j \in 0..m : j \in T
    BY <1>m, <1>2, <2>1, Induction
  <2> QED
    BY <1>m, <2>2
<1> QED
  BY <1>1, <1>4

LEMMA PlainAscii == \A c \in Plain : c \in 0..127
BY DEF Plain, Digits, UpperCase, LowerCase, Underscore

(* A spoiled rune makes what is decoded differ from the UTF-8 form: it is  *)
(* shorter, or has a hex digit where UTF-8 has a second byte.              *)
LEMMA SpoiledDiffers ==
    ASSUME NEW key \in Seq(Nat), \A i \in DOMAIN key : key[i] \in Bmp,
           NEW R, DecodedTo(R, key), NEW H, Utf8By(H, key),
           NEW p \in 1..Len(key), Spoiled(key, p), \A q \in 1..p - 1 : ~Spoiled(key, q)
    PROVE  R[0] # Utf8(key)
<1>n. PICK n : n = Len(key) /\ n \in Nat /\ DOMAIN key = 1..n
  OBVIOUS
<1>p. p \in 1..n /\ p \in Nat /\ p - 1 \in 0..n /\ p \in 0..n
  BY <1>n
<1>u. PICK u : u = Len(Utf8(key)) /\ u \in Nat
  BY SeqLength DEF Utf8By
<1>r. \A q \in 0..n : /\ R[q] \in Seq(Nat) /\ Len(R[q]) \in Nat /\ Len(H[q]) \in Nat
                      /\ Len(R[q]) + Len(H[q]) <= u
  <2>1. \A q \in 0..n : R[q] \in Seq(Nat) /\ Len(R[q]) + Len(H[q]) <= u
    BY <1>n, <1>u, NoLonger
  <2>2. \A q \in 0..n : Len(H[q]) \in Nat
    BY <1>n DEF Utf8By
  <2> QED
    BY <2>1, <2>2, SeqLength
<1>1. /\ Len(H[p - 1]) = p - 1
      /\ Len(R[0]) = (p - 1) + Len(R[p - 1])
      /\ \A i \in 1..Len(R[p - 1]) : R[0][(p - 1) + i] = R[p - 1][i]
  <2>1. p - 1 \in 0..Len(key)
    BY <1>n, <1>p
  <2>2. Begun(R, H, key, p - 1)
    BY <2>1, BeforeSpoiled
  <2> QED
    BY <2>2, Zenon DEF Begun
<1>w. ASSUME NEW q \in 1..n
      PROVE  /\ Len(H[q]) >= Len(H[q - 1]) + 1
             /\ key[q] > 127 => /\ Len(H[q]) >= Len(H[q - 1]) + 2
                                /\ Utf8(key)[Len(H[q - 1]) + 2] >= 128
  <2>1. PICK c \in Bmp : c = key[q]
    BY <1>n
  <2>2. PICK w : w = Len(Utf8Rune(c))
    OBVIOUS
  <2>3. /\ w \in Nat /\ w >= 1
        /\ c >= 128 => w >= 2 /\ Utf8Rune(c)[2] >= 128
    BY <2>2, RuneBytes, SeqLength
  <2>4. /\ Len(H[q]) = Len(H[q - 1]) + w
        /\ \A i \in 1..w : Utf8(key)[Len(H[q - 1]) + i] = Utf8Rune(c)[i]
    BY <1>n, <2>1, <2>2 DEF Utf8By
  <2>5. PICK a : a = Len(H[q - 1]) /\ a \in Nat
    <3>1. q - 1 \in 0..n
      BY <1>n
    <3> QED
      BY <1>r, <3>1
  <2>6. a + w >= a + 1
    BY ONLY <2>3, <2>5
  <2>7. ASSUME c > 127 PROVE a + w >= a + 2 /\ Utf8(key)[a + 2] >= 128
    <3>1. c >= 128
      BY <2>7, RuneRange
    <3>2. w >= 2 /\ Utf8Rune(c)[2] >= 128
      BY <2>3, <3>1
    <3>3. a + w >= a + 2 /\ 2 \in 1..w
      BY ONLY <2>3, <2>5, <3>2
    <3> QED
      BY <2>4, <2>5, <3>2, <3>3
  <2> QED
    BY <2>1, <2>4, <2>5, <2>6, <2>7
<1>2. \/ FalseEscape(key, p)
      \/ key[p] > 127 /\ R[p - 1] = <<key[p]>> \o R[p]
      \/ key[p] > 127 /\ Cut(R, key, p)
  <2>1. PICK c \in Bmp : c = key[p]
    BY <1>n
  <2>2. c \notin Plain \/ ~(c > 127)
    <3>1. ASSUME c \in 0..127 PROVE ~(c > 127)
      BY ONLY <3>1
    <3> QED
      BY <3>1, PlainAscii
  <2>3. FalseEscape(key, p) \/ c > 127
    BY <2>1 DEF Spoiled
  <2>4. CASE c > 127
    BY <2>1, <2>2, <2>4 DEF DecodedTo, Copied, Unescaped, Swallowed, Restored
  <2> QED
    BY <2>3, <2>4
<1>3. ASSUME Len(R[0]) < u PROVE R[0] # Utf8(key)
  <2>1. Len(R[0]) \in Nat
    BY <1>n, <1>r
  <2> QED
    BY <1>u, <1>3, <2>1
<1>4. CASE FalseEscape(key, p)
  <2>1. PICK v \in Nat : R[p - 1] = <<v>> \o R[p + 2]
    <3>1. key[p] = Underscore /\ Underscore \in Plain /\ ~Long(Underscore)
      BY <1>4 DEF FalseEscape, Underscore, Plain, Long
    <3> QED
      BY <1>4, <3>1 DEF DecodedTo, Copied, Swallowed, Restored, Cut
  <2>2. p \in 1..n - 2
    BY <1>n, <1>4 DEF FalseEscape
  <2>3. /\ p + 1 \in 1..n /\ p + 2 \in 1..n /\ p + 2 \in 0..n /\ p + 1 \in 0..n
        /\ (p + 1) - 1 = p /\ (p + 2) - 1 = p + 1
    BY <1>n, <1>p, <2>2
  <2>4. PICK s, ls, b, c, d : /\ s = R[p + 2] /\ ls = Len(s)
                              /\ b = Len(H[p]) /\ c = Len(H[p + 1]) /\ d = Len(H[p + 2])
    OBVIOUS
  <2>5. /\ s \in Seq(Nat) /\ ls \in Nat /\ b \in Nat /\ c \in Nat /\ d \in Nat
        /\ ls + d <= u
    BY <1>p, <1>r, <2>3, <2>4
  <2>6. b >= (p - 1) + 1
    BY <1>1, <1>p, <1>w, <2>4
  <2>7. c >= b + 1
    BY <1>w, <2>3, <2>4
  <2>8. d >= c + 1
    BY <1>w, <2>3, <2>4
  <2>9. Len(R[p - 1]) = ls + 1
    BY <2>1, <2>4, <2>5, OneInFront
  <2>10. (p - 1) + (ls + 1) < u
    BY ONLY <1>p, <1>u, <2>5, <2>6, <2>7, <2>8
  <2> QED
    BY <1>1, <1>3, <2>9, <2>10
<1>5. CASE key[p] > 127 /\ R[p - 1] = <<key[p]>> \o R[p]
  <2>1. PICK s, ls, b : /\ s = R[p] /\ ls = Len(s) /\ b = Len(H[p])
    OBVIOUS
  <2>2. s \in Seq(Nat) /\ ls \in Nat /\ b \in Nat /\ ls + b <= u
    BY <1>p, <1>r, <2>1
  <2>3. b >= (p - 1) + 2
    BY <1>1, <1>5, <1>p, <1>w, <2>1
  <2>4. key[p] \in Nat
    OBVIOUS
  <2>5. Len(R[p - 1]) = ls + 1
    BY <1>5, <2>1, <2>2, <2>4, OneInFront
  <2>6. (p - 1) + (ls + 1) < u
    BY ONLY <1>p, <1>u, <2>2, <2>3
  <2> QED
    BY <1>1, <1>3, <2>5, <2>6
<1>6. CASE key[p] > 127 /\ Cut(R, key, p)
  <2>1. PICK v \in Nat, d \in Nat :
            \E s : d < 128 /\ AfterCut(R, key, p, s) /\ R[p - 1] = <<v>> \o (<<d>> \o s)
    BY <1>6, Zenon DEF Cut
  <2>2. PICK s : d < 128 /\ AfterCut(R, key, p, s) /\ R[p - 1] = <<v>> \o (<<d>> \o s)
    BY <2>1
  <2>3. s \in Seq(Nat)
    <3>1. R[p] \in Seq(Nat)
      BY <1>p, <1>r
    <3>2. ASSUME NEW e \in Nat, s = <<e>> \o R[p] PROVE s \in Seq(Nat)
      BY <3>1, <3>2, OneInFront
    <3> QED
      BY <2>2, <3>1, <3>2 DEF AfterCut
  <2>4. PICK r : r = <<d>> \o s /\ r \in Seq(Nat) /\ Len(r) = Len(s) + 1 /\ r[1] = d
    <3>1. <<d>> \o s \in Seq(Nat) /\ Len(<<d>> \o s) = Len(s) + 1 /\ (<<d>> \o s)[1] = d
      BY ONLY <2>3, d \in Nat, OneInFront
    <3> QED
      BY <3>1, Zenon
  <2>5. PICK ls : ls = Len(s) /\ ls \in Nat
    BY <2>3, SeqLength
  <2>6. 1 \in 1..Len(r) /\ Len(r) \in Nat
    BY <2>4, <2>5
  <2>7. Len(R[p - 1]) = Len(r) + 1 /\ R[p - 1][1 + 1] = r[1]
    BY <2>2, <2>4, <2>6, OneInFront
  <2>8. 2 \in 1..Len(R[p - 1]) /\ R[p - 1][2] = d
    BY <2>4, <2>6, <2>7
  <2>9. R[0][(p - 1) + 2] = d
    BY <1>1, <2>8
  <2>10. Utf8(key)[(p - 1) + 2] >= 128
    BY <1>1, <1>6, <1>p, <1>w
  <2> QED
    BY <2>2, <2>9, <2>10
<1> QED
  BY <1>2, <1>4, <1>5, <1>6

(* A key comes back from its file name if and only if all its runes are    *)
(* ASCII and none is an underscore before two hex digits.                  *)
THEOREM RestoredCorrect ==
    ASSUME NEW key \in Seq(Nat), \A i \in DOMAIN key : key[i] \in Bmp
    PROVE  RoundTrips(key) <=> ~Mangled(key)
<1>n. PICK n : n = Len(key) /\ n \in Nat /\ DOMAIN key = 1..n
  OBVIOUS
<1>1. PICK R : DecodedTo(R, key)
  BY Decoded
<1>2. PICK H : Utf8By(H, key)
  BY Utf8Placed
<1>3. RoundTrips(key) <=> R[0] = Utf8(key)
  BY <1>1 DEF RoundTrips, DecodedTo
<1>4. ASSUME ~Mangled(key) PROVE R[0] = Utf8(key)
  <2>1. \A p \in 1..n : ~Spoiled(key, p)
    BY <1>n, <1>4, MangledSpoiled
  <2>2. n \in 0..Len(key) /\ 0 \in 0..Len(key)
    BY <1>n
  <2>3. Len(R[0]) = n + Len(R[n]) /\ \A i \in 1..n : R[0][i] = key[i]
    <3>1. Begun(R, H, key, n)
      BY <1>n, <1>1, <1>2, <2>1, <2>2, BeforeSpoiled
    <3> QED
      BY <3>1, Zenon DEF Begun
  <2>4. R[n] = << >> /\ Len(<< >>) = 0
    BY <1>1, <1>n DEF DecodedTo
  <2>5. R[0] \in Seq(Nat)
    BY <1>1, <1>2, <2>2, NoLonger
  <2>6. Len(R[0]) = n
    BY <1>n, <2>3, <2>4
  <2>7. R[0] = key
    BY <1>n, <2>3, <2>5, <2>6, SameSequence
  <2>8. \A i \in DOMAIN key : key[i] \in 0..127
    BY <1>4, AsciiRunes DEF Mangled
  <2> QED
    BY <2>7, <2>8, Utf8OfAscii
<1>5. ASSUME Mangled(key) PROVE R[0] # Utf8(key)
  <2>1. PICK T : T = {p \in 1..n : Spoiled(key, p)}
    OBVIOUS
  <2>2. T \subseteq Nat /\ T # {}
    BY <1>n, <1>5, <2>1, MangledSpoiled
  <2>3. PICK p \in T : \A q \in T : p <= q
    BY <2>2, LeastNumber
  <2>4. p \in 1..Len(key) /\ Spoiled(key, p) /\ p \in Nat
    BY <1>n, <2>1, <2>3
  <2>5. ASSUME NEW q \in 1..p - 1 PROVE ~Spoiled(key, q)
    <3>1. q \in 1..n /\ ~(p <= q)
      BY <1>n, <2>4
    <3> QED
      BY <2>1, <2>3, <3>1
  <2> QED
    BY <1>1, <1>2, <2>4, <2>5, SpoiledDiffers
<1> QED
  BY <1>3, <1>4, <1>5
=============================================================================
