----------------------------- MODULE LuaStrings -----------------------------
(***************************************************************************)
(* Functions on bytes that Lua calls: trim and replace of utlua/caplua.c,  *)
(* base64 of utlua/lbase64.c and the packets of icmp_sender.m, as          *)
(* functions of their arguments.  A string is a sequence of characters, a  *)
(* packet one of bytes, a text in base64 one of digits (indices of code)   *)
(* and of other characters, written as negative numbers.                   *)
(***************************************************************************)
EXTENDS Integers, Sequences, FiniteSets

Bytes == {n \in Nat : n < 256}
UInt16 == {n \in Nat : n < 65536}

-------------------------------------------------------------------------------
(* caplua.c *)

Space == " "

\* str_trim: leading blanks go first; a string of blanks leaves nothing.
StrTrim(s) ==
    LET inside == {i \in 1..Len(s) : s[i] # Space}
        first == CHOOSE i \in inside : \A j \in inside : i <= j
        last == CHOOSE i \in inside : \A j \in inside : j <= i
    IN IF inside = {} THEN <<>> ELSE SubSeq(s, first, last)

\* lmemfind: the first place of p in s from i on, or 0.
LMemFind(s, i, p) ==
    LET places == {k \in i..Len(s) - Len(p) + 1 : SubSeq(s, k, k + Len(p) - 1) = p}
    IN IF places = {} THEN 0 ELSE CHOOSE k \in places : \A m \in places : k <= m

\* str_replace, for a p that is not empty: the loop never ends on an empty one.
StrReplace(s, p, by) ==
    LET from[i \in 1..Len(s) + 1] ==
            LET k == LMemFind(s, i, p)
            IN IF k = 0 THEN [text |-> SubSeq(s, i, Len(s)), n |-> 0]
               ELSE LET rest == from[k + Len(p)]
                    IN [text |-> SubSeq(s, i, k - 1) \o by \o rest.text, n |-> rest.n + 1]
    IN from[1]

\* No character of t is one of s.
Strange(t, s) == \A i \in 1..Len(t), j \in 1..Len(s) : t[i] # s[j]

-------------------------------------------------------------------------------
(* lbase64.c, with the alphabet it starts with *)

Padding == -1       \* '='
Whitespace == -2
Foreign == -3       \* neither in the alphabet nor any of the above

EncodeTuple(c1, c2, c3, n) ==
    LET tuple == c3 + 256 * (c2 + 256 * c1)
        digits == <<tuple \div 262144, (tuple \div 4096) % 64, (tuple \div 64) % 64, tuple % 64>>
    IN [i \in 1..4 |-> IF i > n + 1 THEN Padding ELSE digits[i]]

LEncode(s) ==
    LET from[i \in 1..Len(s) + 1] ==
            CASE i > Len(s) -> <<>>
              [] i = Len(s) -> EncodeTuple(s[i], 0, 0, 1)
              [] i + 1 = Len(s) -> EncodeTuple(s[i], s[i + 1], 0, 2)
              [] OTHER -> EncodeTuple(s[i], s[i + 1], s[i + 2], 3) \o from[i + 3]
    IN from[1]

\* The first n - 1 bytes of four digits.
DecodeTuple(t, n) ==
    LET Digit(i) == IF i <= Len(t) THEN t[i] ELSE 0
        tuple == Digit(4) + 64 * (Digit(3) + 64 * (Digit(2) + 64 * Digit(1)))
    IN SubSeq(<<tuple \div 65536, (tuple \div 256) % 256, tuple % 256>>, 1, n - 1)

\* The digits of a tuple that is not complete.
Begun == {t \in Seq(0..63) : Len(t) < 4}

\* Mutant: the text ends at the first blank.
DecodeFirstLine(s) ==
    LET from[at \in (1..Len(s) + 1) \X Begun] ==
            LET i == at[1]
                t == at[2]
            IN CASE i > Len(s) \/ s[i] = Whitespace -> [ok |-> TRUE, bytes |-> <<>>]
                 [] i <= Len(s) /\ s[i] = Padding ->
                       [ok |-> TRUE, bytes |-> IF t = <<>> THEN <<>> ELSE DecodeTuple(t, Len(t))]
                 [] i <= Len(s) /\ s[i] = Foreign -> [ok |-> FALSE, bytes |-> <<>>]
                 [] OTHER -> IF Len(t) < 3 THEN from[<<i + 1, Append(t, s[i])>>]
                             ELSE LET rest == from[<<i + 1, <<>>>>]
                                  IN [rest EXCEPT !.bytes = DecodeTuple(Append(t, s[i]), 4) \o rest.bytes]
    IN from[<<1, <<>>>>]

\* Ldecode: from character i on, with the digits t of a tuple begun.  It stops
\* at the first padding, and drops a tuple that has none when the text ends.
LDecode(s) ==
    LET from[at \in (1..Len(s) + 1) \X Begun] ==
            LET i == at[1]
                t == at[2]
            IN CASE i > Len(s) -> [ok |-> TRUE, bytes |-> <<>>]
                 [] i <= Len(s) /\ s[i] = Whitespace -> from[<<i + 1, t>>]
                 [] i <= Len(s) /\ s[i] = Padding ->
                       [ok |-> TRUE, bytes |-> IF t = <<>> THEN <<>> ELSE DecodeTuple(t, Len(t))]
                 [] i <= Len(s) /\ s[i] = Foreign -> [ok |-> FALSE, bytes |-> <<>>]
                 [] OTHER -> IF Len(t) < 3 THEN from[<<i + 1, Append(t, s[i])>>]
                             ELSE LET rest == from[<<i + 1, <<>>>>]
                                  IN [rest EXCEPT !.bytes = DecodeTuple(Append(t, s[i]), 4) \o rest.bytes]
    IN from[<<1, <<>>>>]

-------------------------------------------------------------------------------
(* icmp_sender.m *)

\* A 16-bit word in memory, and as the machine (least byte first) reads it.
Word(n) == <<n % 256, n \div 256>>
NetworkWord(n) == <<n \div 256, n % 256>>

Folded(sum) ==
    LET once == (sum \div 65536) + (sum % 65536)
    IN (once + (once \div 65536)) % 65536

\* The weight of the first byte of a word.
LittleEndian == 1
BigEndian == 256

\* The int32_t of in_cksum holds the sum of as many bytes, whatever they are.
MaxSummed == 65536

\* in_cksum: an odd byte counts as the first of a word.
WordSum(bytes, first) ==
    LET Byte(i) == IF i > Len(bytes) THEN 0 ELSE bytes[i]
        sum[i \in 0..Len(bytes)] ==
            IF i = 0 THEN 0
            ELSE sum[i - 1] + (IF i % 2 = 1 THEN first * Byte(i) + (256 \div first) * Byte(i + 1) ELSE 0)
    IN sum[Len(bytes)]

InCksum(bytes) == 65535 - Folded(WordSum(bytes, LittleEndian))

\* An echo request; the checksum is stored as the machine has it.
CreateIcmpPacket(identifier, sequence, data) ==
    LET Packet(checksum) == <<8, 0>> \o Word(checksum) \o NetworkWord(identifier) \o NetworkWord(sequence) \o data
    IN Packet(InCksum(Packet(0)))
==============================================================================
