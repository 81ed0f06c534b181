------------------------------ MODULE Sentence ------------------------------
(***************************************************************************)
(* The checksum of the sentences sent to the serial port: addCheckSum and  *)
(* verifyCheckSum of dataverify.cpp.  A sentence is a sequence of          *)
(* character codes.                                                        *)
(***************************************************************************)
EXTENDS Integers, Sequences, SequencesExt

NUL == 0
Asterisk == 42
CR == 13
LF == 10

\* The bit of weight w of a byte, and the exclusive or of two bytes.
Bit(a, w) == (a \div w) % 2

Xor(a, b) ==
    LET bit(w) == IF Bit(a, w) = Bit(b, w) THEN 0 ELSE w
    IN  bit(1) + bit(2) + bit(4) + bit(8) + bit(16) + bit(32) + bit(64) + bit(128)

\* The digits of %02X, and what strtoul takes them for.
HexDigit(n)  == IF n < 10 THEN 48 + n ELSE 55 + n
HexDigits    == {HexDigit(n) : n \in 0 .. 15}
HexValue(c)  == CHOOSE n \in 0 .. 15 : HexDigit(n) = c

\* Mutant: while (--uSize) leaves out the last character.
calCheckSum_OneLess(chars) ==
    FoldLeft(Xor, 0, IF chars = << >> THEN chars ELSE Front(chars))

calCheckSum(chars) == FoldLeft(Xor, 0, chars)

\* Mutant: the first character is counted as well.
addCheckSum_First(data) ==
    LET sum == calCheckSum(data)
    IN  data \o <<Asterisk, HexDigit(sum \div 16), HexDigit(sum % 16), CR, LF>>

\* The checksum of all characters but the first; an empty sentence stays as it is.
addCheckSum(data) ==
    IF data = << >> THEN data
    ELSE LET sum == calCheckSum(Tail(data))
         IN  data \o <<Asterisk, HexDigit(sum \div 16), HexDigit(sum % 16), CR, LF>>

\* The number at the start of some characters, up to the first that is no digit
\* (white space, a sign, 0x and small letters are left out: two digits and a
\* carriage return follow the "*" of a sentence that has no other).
strtoul(chars) ==
    LET digits == CHOOSE k \in 0 .. Len(chars) :
                     /\ \A i \in 1 .. k : chars[i] \in HexDigits
                     /\ k < Len(chars) => chars[k + 1] \notin HexDigits
    IN  FoldLeft(LAMBDA v, c : 16 * v + HexValue(c), 0, SubSeq(chars, 1, digits))

\* strstr finds the first "*", unless a NUL ends the string before it; there must be
\* at least two characters behind it.  The checksum is that of what lies between the
\* first character and it.
verifyCheckSum(data) ==
    \E i \in DOMAIN data :
        /\ data[i] = Asterisk
        /\ \A j \in 1 .. i - 1 : data[j] \notin {Asterisk, NUL}
        /\ i - 1 < Len(data) - 2
        /\ calCheckSum(SubSeq(data, 2, i - 1)) = strtoul(SubSeq(data, i + 1, Len(data)))
=============================================================================
