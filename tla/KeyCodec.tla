------------------------------ MODULE KeyCodec ------------------------------
(***************************************************************************)
(* How pkg/chunk/store.go turns a vault key into a file name and back.     *)
(*                                                                         *)
(* A key is the sequence of its runes and a file name the sequence of its  *)
(* bytes, without ".json"; both are numbers, '_' is 95 and '/' is 47.      *)
(* Decoding gives bytes, so what it must restore is the key's UTF-8 form.  *)
(***************************************************************************)
EXTENDS Integers, Sequences, SequencesExt

Underscore == 95

Digits     == 48..57
UpperCase  == 65..90
LowerCase  == 97..122
Plain == Digits \cup UpperCase \cup LowerCase \cup {45, Underscore}

(* fmt's %02x: lower-case digits, at least two.                            *)
HexDigit(d) == IF d < 10 THEN 48 + d ELSE 87 + d

Unpadded(c) ==
    LET Hex[n \in 0..c] == IF n < 16 THEN <<HexDigit(n)>>
                           ELSE Append(Hex[n \div 16], HexDigit(n % 16))
    IN  Hex[c]

Padded(c) == IF c < 16 THEN <<48, HexDigit(c)>> ELSE Unpadded(c)

Escape(c) == IF c \in Plain THEN <<c>> ELSE <<Underscore>> \o Padded(c)

Sanitize(key) == FlattenSeq([i \in DOMAIN key |-> Escape(key[i])])

(* strconv.ParseUint(h, 16, 8) takes digits of either case.                *)
HexChars == Digits \cup 65..70 \cup 97..102
HexValue(b) == CASE b \in Digits -> b - 48
                 [] b \in 65..70 -> b - 55
                 [] b \in 97..102 -> b - 87

(* Two hex digits follow the underscore at position i.                     *)
EscapedButLast(name, i) ==
    /\ name[i] = Underscore
    /\ i + 2 < Len(name)
    /\ name[i + 1] \in HexChars /\ name[i + 2] \in HexChars

EscapedAt(name, i) ==
    /\ name[i] = Underscore
    /\ i + 2 <= Len(name)
    /\ name[i + 1] \in HexChars /\ name[i + 2] \in HexChars

Unsanitize(name) ==
    LET From[i \in 1..Len(name) + 1] ==
            IF i > Len(name) THEN << >>
            ELSE IF EscapedAt(name, i)
                 THEN <<16 * HexValue(name[i + 1]) + HexValue(name[i + 2])>>
                      \o From[i + 3]
                 ELSE <<name[i]>> \o From[i + 1]
    IN  From[1]

(* UTF-8 for the runes below 2^16.                                         *)
Utf8Rune(c) ==
    CASE c < 128  -> <<c>>
      [] c \in 128..2047 -> <<192 + (c \div 64), 128 + (c % 64)>>
      [] OTHER -> <<224 + (c \div 4096), 128 + ((c \div 64) % 64), 128 + (c % 64)>>
Utf8(key) == FlattenSeq([i \in DOMAIN key |-> Utf8Rune(key[i])])

RoundTrips(key) == Unsanitize(Sanitize(key)) = Utf8(key)

(* The keys that lose their name: a rune outside ASCII, or an underscore   *)
(* followed by two hex digits, as in "my_account".                         *)
Mangled(key) ==
    \/ \E i \in DOMAIN key : key[i] > 127
    \/ \E i \in 1..Len(key) - 2 :
        key[i] = Underscore /\ key[i + 1] \in HexChars /\ key[i + 2] \in HexChars
=============================================================================
