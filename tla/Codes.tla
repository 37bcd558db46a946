-------------------------------- MODULE Codes --------------------------------
(* Restore codes (ident/token.go): random bytes as characters of Crockford's  *)
(* alphabet, grouped for people to copy, and read back whatever the case, the *)
(* grouping and the characters that look alike. A text is a sequence of       *)
(* characters, a number of 32 bits the sequence of its bits.                  *)
EXTENDS Integers, Sequences, SequencesExt

CONSTANT TokenLen

CodesAssumption == TokenLen \in Nat

Crockford == <<"0", "1", "2", "3", "4", "5", "6", "7", "8", "9", "A", "B", "C", "D", "E", "F",
               "G", "H", "J", "K", "M", "N", "P", "Q", "R", "S", "T", "V", "W", "X", "Y", "Z">>
Small     == <<"a", "b", "c", "d", "e", "f", "g", "h", "j", "k", "m", "n", "p", "q", "r", "s", "t", "v", "w", "x", "y", "z">>

Num(bits) == FoldLeft(LAMBDA n, b : 2 * n + b, 0, bits)
Bits(byte) == [k \in 1 .. 8 |-> (byte \div 2^(8 - k)) % 2]
Zeros(n) == [k \in 1 .. n |-> 0]
Low(n, bits) == SubSeq(bits, Len(bits) - n + 1, Len(bits))
Char(bits) == Crockford[Num(bits) + 1]

\* encode: an accumulator of 32 bits, from which five at a time are taken.
AddByte(s, byte) ==
    LET acc  == Low(32, s.acc \o Bits(byte))
        held == Low(s.bits + 8, acc)
        n    == Len(held) \div 5
    IN  [acc |-> acc, bits |-> Len(held) % 5,
         out |-> s.out \o [k \in 1 .. n |-> Char(SubSeq(held, 5 * k - 4, 5 * k))]]
Encode(bytes) ==
    LET s == FoldLeft(AddByte, [acc |-> Zeros(32), bits |-> 0, out |-> <<>>], bytes)
    IN  IF s.bits = 0 THEN s.out ELSE Append(s.out, Char(Low(s.bits, s.acc) \o Zeros(5 - s.bits)))

\* decodeMap, to the character itself; "" for what it does not have.
Reads(c) ==
    CASE c \in {"I", "i", "L", "l"} -> "1"
      [] c \in {"O", "o"}           -> "0"
      [] c \in ToSet(Crockford)     -> c
      [] c \in ToSet(Small)         -> Crockford[10 + CHOOSE k \in DOMAIN Small : Small[k] = c]
      [] OTHER                      -> ""

\* Bad is ErrBadToken.
Bad == <<>>
Parse(text) ==
    LET code == SelectSeq(text, LAMBDA c : c \notin {"-", " ", "tab"})
        read == [k \in DOMAIN code |-> Reads(code[k])]
    IN  IF Len(code) = TokenLen /\ "" \notin ToSet(read) THEN read ELSE Bad

Display(token) == FlattenSeq([k \in DOMAIN token |-> IF k % 4 = 1 /\ k > 1 THEN <<"-", token[k]>> ELSE <<token[k]>>])
------------------------------------------------------------------------------

\* The n-th character stands for the n-th five bits, padded at the end.
FiveByFive(bytes) ==
    LET bits == FlattenSeq([k \in DOMAIN bytes |-> Bits(bytes[k])]) \o Zeros(4)
    IN  [n \in 1 .. Len(bits) \div 5 |-> Char(SubSeq(bits, 5 * n - 4, 5 * n))]

\* What a person may write for a zero and a one.
Zero == {"0", "O", "o"}
One  == {"1", "I", "i", "L", "l"}

\* No bit of the random bytes is lost or moved when the accumulator is full; a
\* code that is copied, in whatever way its characters are written and grouped,
\* is read as the code it was; and what is read is either a code or refused.
CodesRoundTrip ==
    /\ \A n \in 1 .. 6 : \A bytes \in [1 .. n -> {0, 90, 255}] : Encode(bytes) = FiveByFive(bytes)
    /\ \A token \in [1 .. TokenLen -> {"0", "1", "A"}] :
        /\ Parse(Display(token)) = token
        /\ \A zero \in Zero, one \in One, a \in {"A", "a"} :
            LET as == [c \in {"0", "1", "A"} |-> IF c = "0" THEN zero ELSE IF c = "1" THEN one ELSE a]
            IN  Parse(Display([k \in DOMAIN token |-> as[token[k]]])) = token
    /\ \A n \in 0 .. TokenLen + 1 : \A text \in [1 .. n -> {"o", "Z", "-", "U"}] :
        LET token == Parse(text) IN token # Bad => Len(token) = TokenLen /\ Parse(token) = token /\ "U" \notin ToSet(text)
=============================================================================
