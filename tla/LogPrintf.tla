------------------------------- MODULE LogPrintf -------------------------------
(***************************************************************************)
(* The two stripped-down printf functions: that of the log, which walks    *)
(* the format with a state per kind of character, and alt_printf, which    *)
(* knows neither widths nor decimals.  Words have Bits bits, int and long  *)
(* being the same size.  A character is a string of length one.            *)
(***************************************************************************)
EXTENDS Integers, SequencesExt

CONSTANTS Bits, Words,   \* a multiple of four, and the words printed
          Chars, MaxLen, \* bounds: the formats tried
          TextLen,       \* the length of the string that %s prints
          PutBufSize     \* ALT_PUTBUF_SIZE

LogPrintfAssumption ==
    /\ Bits \in {4 * n : n \in 1 .. 8} /\ Words \subseteq 0 .. 2 ^ Bits - 1
    /\ MaxLen \in Nat /\ TextLen \in Nat /\ PutBufSize \in Nat \ {0}

VARIABLES fmt, word,  \* the arguments
          pos,        \* the next character of the format
          state, spec, out

vars == <<fmt, word, pos, state, spec, out>>

Lower == <<"0", "1", "2", "3", "4", "5", "6", "7", "8", "9", "a", "b", "c", "d", "e", "f">>
Upper == SubSeq(Lower, 1, 10) \o <<"A", "B", "C", "D", "E", "F">>
Decimal == {Lower[i] : i \in 1 .. 10}
DigitOf(c) == (CHOOSE i \in 1 .. 10 : Lower[i] = c) - 1
Copies(ch, n) == [i \in 1 .. n |-> ch]
Letter == "e"
Text == [i \in 1 .. TextLen |-> Lower[10 + i]]

NoSpec == [zero |-> FALSE, base |-> 10, signed |-> TRUE, upper |-> FALSE,
           width |-> -1, precision |-> -1]

Init == /\ fmt \in SeqOf(Chars, MaxLen) /\ word \in Words
        /\ pos = 1 /\ state = "chars" /\ spec = NoSpec /\ out = <<>>

c == fmt[pos]
At(s) == state = s /\ pos <= Len(fmt)
Step(s, sp, text) ==
    /\ state' = s /\ spec' = sp /\ out' = out \o text
    /\ pos' = pos + 1 /\ UNCHANGED <<fmt, word>>

Literal == At("chars") /\ c # "%" /\ Step("chars", spec, <<c>>)
Opening == At("chars") /\ c = "%" /\ Step("first", NoSpec, <<>>)

ZeroFlag == At("first") /\ c = "0" /\ Step("other", [spec EXCEPT !.zero = TRUE], <<>>)
Percent == At("first") /\ c = "%" /\ Step("chars", spec, <<c>>)

\* Any other first character is looked at as a later one is.
InSpec == At("other") \/ (At("first") /\ c \notin {"0", "%"})

Point == InSpec /\ c = "." /\ Step("other", [spec EXCEPT !.precision = 0], <<>>)
Long == InSpec /\ c = "l" /\ Step("other", spec, <<>>)

Width(w, d) == IF w < 0 THEN d ELSE w * 10 + d

Figure ==
    /\ InSpec /\ c \in Decimal
    /\ Step("other",
            IF spec.precision < 0
            THEN [spec EXCEPT !.width = Width(@, DigitOf(c))]
            ELSE [spec EXCEPT !.precision = @ * 10 + DigitOf(c)], <<>>)

\* The largest place value, and the digits from it down.
Count[v \in Nat, base \in {8, 10, 16}] ==
    IF v \div base = 0 THEN 1 ELSE 1 + Count[v \div base, base]
Digits(v, base, glyphs) ==
    LET n == Count[v, base]
    IN  [k \in 1 .. n |-> glyphs[((v \div base ^ (n - k)) % base) + 1]]

IsNegative(s) == s.signed /\ word >= 2 ^ (Bits - 1)
Stripped(s) == IF IsNegative(s) THEN 2 ^ Bits - word ELSE word

PaddingUnsigned(s, digits) == s.width - Len(digits)
Padding(s, digits) == s.width - Len(digits) - (IF IsNegative(s) THEN 1 ELSE 0)

Number(s) ==
    LET digits == Digits(Stripped(s), s.base, IF s.upper THEN Upper ELSE Lower)
        minus  == IF IsNegative(s) THEN <<"-">> ELSE <<>>
        pad    == Copies(IF s.zero THEN "0" ELSE " ", Padding(s, digits))
    IN  IF s.zero THEN minus \o pad \o digits ELSE pad \o minus \o digits

IntegerPrint ==
    /\ InSpec /\ c \in {"d", "i", "u", "o", "x", "X"}
    /\ LET s == [spec EXCEPT !.signed = c \in {"d", "i"},
                             !.base = CASE c = "o" -> 8 [] c \in {"x", "X"} -> 16
                                        [] OTHER -> @,
                             !.upper = c = "X"]
       IN  Step("chars", s, Number(s))

StringPrint ==
    /\ InSpec /\ c = "s"
    /\ Step("chars", spec, Copies(" ", spec.width - Len(Text)) \o Text)

CharPrint ==
    /\ InSpec /\ c = "c"
    /\ Step("chars", spec, Copies(" ", spec.width - 1) \o <<Letter>>)

\* A type it does not know is left out, with no argument taken.
Unknown ==
    /\ InSpec /\ c \notin Decimal \cup {".", "l", "d", "i", "u", "o", "x", "X", "s", "c"}
    /\ Step("chars", spec, <<>>)

Next == \/ Literal \/ Opening \/ ZeroFlag \/ Percent
        \/ Point \/ Long \/ Figure
        \/ IntegerPrint \/ StringPrint \/ CharPrint \/ Unknown

Spec == Init /\ [][Next]_vars

-----------------------------------------------------------------------------
(* alt_printf.                                                             *)

\* The digits from the first that is not zero.
HexShiftLow(v) == CHOOSE n \in 1 .. Bits \div 4 : v \div 16 ^ (n - 1) = 0 \/ n = Bits \div 4
HexShift(v) == CHOOSE n \in 1 .. Bits \div 4 : (v \div 16 ^ (n - 1)) \in 1 .. 15
Hex(v) == IF v = 0 THEN <<"0">>
          ELSE [k \in 1 .. HexShift(v) |-> Lower[((v \div 16 ^ (HexShift(v) - k)) % 16) + 1]]

\* What is printed of the format from position i on.
AltPrintf ==
    LET from[i \in 1 .. Len(fmt) + 2] ==
            CASE i > Len(fmt) -> <<>>
              [] i <= Len(fmt) /\ fmt[i] # "%" -> <<fmt[i]>> \o from[i + 1]
              [] i = Len(fmt) /\ fmt[i] = "%" -> <<>>
              [] OTHER -> (CASE fmt[i + 1] = "%" -> <<"%">>
                             [] fmt[i + 1] = "x" -> Hex(word)
                             [] fmt[i + 1] = "s" -> Text
                             [] fmt[i + 1] = "c" -> <<Letter>>
                             [] OTHER -> <<>>) \o from[i + 2]
    IN  from[1]

\* With semihosting the characters gather in a buffer, which is written when it
\* is full and at the end.
FullLate(b) == Len(b.buf) > PutBufSize
Full(b) == Len(b.buf) >= PutBufSize
Flushed(b) == [buf |-> <<>>, writes |-> Append(b.writes, b.buf)]
PutCharBuf(b, ch) ==
    LET filled == [b EXCEPT !.buf = Append(@, ch)]
    IN  IF Full(filled) THEN Flushed(filled) ELSE filled
Semihosted(chars) ==
    Flushed(FoldLeft(PutCharBuf, [buf |-> <<>>, writes |-> <<>>], chars)).writes

-----------------------------------------------------------------------------
\* Type invariant; a width has no more figures than the format.
PowerOfTen[n \in 0 .. MaxLen] == IF n = 0 THEN 1 ELSE 10 * PowerOfTen[n - 1]
TypeOK ==
    /\ pos \in 1 .. Len(fmt) + 1 /\ state \in {"chars", "first", "other"}
    /\ spec.width \in -1 .. PowerOfTen[MaxLen] /\ spec.precision \in -1 .. PowerOfTen[MaxLen]
    /\ spec.base \in {8, 10, 16}

(* The format as its author means it: what stands between the last percent  *)
(* sign and the type.                                                      *)
Between ==
    LET i == CHOOSE i \in 1 .. pos - 1 :
                 fmt[i] = "%" /\ \A j \in i + 1 .. pos - 1 : fmt[j] # "%"
    IN  SubSeq(fmt, i + 1, pos - 1)
MeansZero == Between # <<>> /\ Between[1] = "0"
MeantWidth ==
    LET figures == SelectSeq(SubSeq(Between, 1,
                       IF \E j \in DOMAIN Between : Between[j] = "."
                       THEN CHOOSE j \in DOMAIN Between :
                                Between[j] = "." /\ \A k \in 1 .. j - 1 : Between[k] # "."
                       ELSE Len(Between)), LAMBDA ch : ch \in Decimal)
    IN  FoldLeft(LAMBDA sum, ch : 10 * sum + DigitOf(ch), 0, figures)
Meant == IF c \in {"d", "i"} /\ word >= 2 ^ (Bits - 1) THEN word - 2 ^ Bits ELSE word

Printed == SubSeq(out', Len(out) + 1, Len(out'))
Value(digits) ==
    LET base == CASE c = "o" -> 8 [] c \in {"x", "X"} -> 16 [] OTHER -> 10
        glyph(ch) == CHOOSE g \in 0 .. 15 : ch \in {Lower[g + 1], Upper[g + 1]}
    IN  FoldLeft(LAMBDA sum, ch : base * sum + glyph(ch), 0, digits)

\* A conversion prints the value of its argument, the lowest negative number
\* included, without a superfluous digit, and fills the width with what the
\* format asks for.
PrintsItsArgument ==
    [][IntegerPrint =>
           \E n \in 0 .. Len(Printed) :
              LET minus  == IF Meant < 0 THEN <<"-">> ELSE <<>>
                  pad    == Copies(IF MeansZero THEN "0" ELSE " ", n)
                  digits == SubSeq(Printed, n + Len(minus) + 1, Len(Printed))
              IN  /\ Printed = IF MeansZero THEN minus \o pad \o digits
                                            ELSE pad \o minus \o digits
                  /\ digits # <<>> /\ (digits[1] = "0" => Len(digits) = 1)
                  /\ \A j \in DOMAIN digits : digits[j] # " "
                  /\ Value(digits) = IF Meant < 0 THEN -Meant ELSE Meant
                  /\ Len(Printed) >= MeantWidth
                  /\ n > 0 => Len(Printed) = MeantWidth]_vars

\* A format that uses only what alt_printf knows prints the same with either,
\* and through the buffer, which never holds more than its size.
Simple ==
    \A i \in DOMAIN fmt : fmt[i] = "%" =>
        /\ i < Len(fmt) => fmt[i + 1] \in {"%", "x", "s", "c"}
PrintsAlike ==
    pos > Len(fmt) /\ Simple =>
        /\ out = AltPrintf
        /\ out = FlattenSeq(Semihosted(AltPrintf))
        /\ \A w \in ToSet(Semihosted(AltPrintf)) : Len(w) <= PutBufSize
=============================================================================
