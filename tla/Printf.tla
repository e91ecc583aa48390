-------------------------------- MODULE Printf --------------------------------
(***************************************************************************)
(* cli_printf and cli_fmt_int of kernel/src/cli.c: numbers and strings     *)
(* written into a buffer of fixed size.  A format is a sequence of pieces: *)
(* a character of plain text, or a conversion with its flags, its width    *)
(* and its argument.  A string argument is given by its length, -1 is the  *)
(* null pointer.                                                           *)
(***************************************************************************)
EXTENDS Integers, SequencesExt

CONSTANTS
    PrintBuffer,        \* CLI_MAX_LINE_LEN
    IntMod,             \* unsigned int counts modulo this (2^32)
    PtrDigits,          \* sizeof(void*) * 2
    Widths, IntArgs, UintArgs, StringLens

ASSUME PrintfAssumption ==
  /\ PrintBuffer \in Nat \ {0, 1}
  /\ {IntMod, PtrDigits} \subseteq Nat \ {0}
  /\ Widths \subseteq Nat
  /\ UintArgs \subseteq 0..IntMod - 1
  /\ \A n \in IntArgs : -IntMod <= 2 * n /\ 2 * n < IntMod
  /\ StringLens \subseteq Nat \cup {-1}

VARIABLE printed        \* the format of the call and what it printed

printfVars == <<printed>>

Piece(conv, left, zero, width, arg) ==
  [conv |-> conv, left |-> left, zero |-> zero, width |-> width, arg |-> arg]

Pieces ==
  {Piece("d", l, z, w, n) : l, z \in BOOLEAN, w \in Widths, n \in IntArgs}
    \cup {Piece(c, l, z, w, n) : c \in {"u", "x"}, l, z \in BOOLEAN, w \in Widths, n \in UintArgs}
    \cup {Piece("p", l, FALSE, 0, n) : l \in BOOLEAN, n \in UintArgs}
    \cup {Piece("s", l, FALSE, w, n) : l \in BOOLEAN, w \in Widths, n \in StringLens}
    \cup {Piece(c, FALSE, FALSE, 0, 0) : c \in {"c", "%", "text", "?"}}

Formats == {<<a>> : a \in Pieces} \cup {<<a, b>> : a, b \in Pieces}

PrintfInit == printed = [fmt |-> <<>>, out |-> <<>>]

------------------------------------------------------------------------------
DigitChar == <<"0", "1", "2", "3", "4", "5", "6", "7", "8", "9", "a", "b", "c", "d", "e", "f">>

\* The loop that collects the digits of val, the last one first.
RECURSIVE Digits(_, _)
Digits(val, base) ==
  (IF val < base THEN <<>> ELSE Digits(val \div base, base)) \o <<DigitChar[(val % base) + 1]>>

Times(n, c) == [i \in 1..n |-> c]

\* Each character is written only if there is room for it and for the NUL.
Emit(buf, cs, size) == buf \o SubSeq(cs, 1, Min({Len(cs), size - 1 - Len(buf)}))

\* Variant: the zeros come before the sign.
FmtIntZeroFirst(val, width, pad, base, neg, left) ==
  LET digits == Digits(val, base)
      sign == IF neg THEN <<"-">> ELSE <<>>
      padding == Max({0, width - Len(digits) - Len(sign)})
  IN  IF left THEN sign \o digits \o Times(padding, " ")
      ELSE Times(padding, pad) \o sign \o digits

\* cli_fmt_int: a zero-padded number begins with its sign.
FmtInt(val, width, pad, base, neg, left) ==
  LET digits == Digits(val, base)
      sign == IF neg THEN <<"-">> ELSE <<>>
      padding == Max({0, width - Len(digits) - Len(sign)})
  IN  CASE left -> sign \o digits \o Times(padding, " ")
        [] ~left /\ pad = "0" -> sign \o Times(padding, pad) \o digits
        [] OTHER -> Times(padding, pad) \o sign \o digits

\* %d: the magnitude is 0 - arg in unsigned arithmetic.
FmtDecimal(p) ==
  FmtInt(IF p.arg < 0 THEN (0 - (p.arg % IntMod)) % IntMod ELSE p.arg,
         p.width, IF p.zero /\ ~p.left THEN "0" ELSE " ", 10, p.arg < 0, p.left)

FmtUnsigned(p, base) ==
  FmtInt(p.arg, p.width, IF p.zero /\ ~p.left THEN "0" ELSE " ", base, FALSE, p.left)

\* %s: a null pointer prints nothing.
FmtString(p) ==
  LET s == Times(p.arg, "a")
      padding == Times(Max({0, p.width - p.arg}), " ")
  IN  IF p.arg = -1 THEN <<>> ELSE IF p.left THEN s \o padding ELSE padding \o s

\* %p: the prefix is written as a whole or not at all.
PutPointer(buf, p, size) ==
  LET b == IF Len(buf) < size - 2 THEN buf \o <<"0", "x">> ELSE buf
  IN  Emit(b, FmtInt(p.arg, PtrDigits, "0", 16, FALSE, p.left), size)

\* One turn of the loop of cli_printf; an unknown conversion prints nothing.
Insert(buf, p, size) ==
  IF Len(buf) >= size - 1 THEN buf
  ELSE CASE p.conv = "d" -> Emit(buf, FmtDecimal(p), size)
         [] p.conv = "u" -> Emit(buf, FmtUnsigned(p, 10), size)
         [] p.conv = "x" -> Emit(buf, FmtUnsigned(p, 16), size)
         [] p.conv = "p" -> PutPointer(buf, p, size)
         [] p.conv = "s" -> Emit(buf, FmtString(p), size)
         [] p.conv \in {"c", "%", "text"} -> Append(buf, p.conv)
         [] OTHER -> buf

CliPrintf(fmt, size) == FoldLeft(LAMBDA buf, p : Insert(buf, p, size), <<>>, fmt)

\* One call; calls share nothing.
PrintfNext ==
  /\ printed.fmt = <<>>
  /\ \E fmt \in Formats : printed' = [fmt |-> fmt, out |-> CliPrintf(fmt, PrintBuffer)]

------------------------------------------------------------------------------
(* Reference: which texts are a rendering of a piece *)

\* The number a text of digits stands for.
Reads(cs, base) ==
  FoldLeft(LAMBDA n, c : n * base + (CHOOSE i \in 1..base : DigitChar[i] = c) - 1, 0, cs)

Numeral(cs, base) == cs # <<>> /\ \A i \in DOMAIN cs : \E d \in 1..base : cs[i] = DigitChar[d]

Blank(cs) == \A i \in DOMAIN cs : cs[i] = " "

\* cs is the number n, at least width characters wide, and wider than the number
\* needs only to reach the width: by blanks behind it, by blanks before it, or
\* by zeros between its sign and its digits.
IsNumber(cs, n, base, width, zero, left) ==
  \E i \in 1..Len(cs), j \in 1..Len(cs) :
    LET core == SubSeq(cs, i, j)
        digits == IF n < 0 THEN Tail(core) ELSE core
        blanks == i > 1 \/ j < Len(cs)
        zeros == Len(digits) > 1 /\ digits[1] = "0"
    IN  /\ i <= j
        /\ n < 0 => core[1] = "-"
        /\ Numeral(digits, base)
        /\ Reads(digits, base) = IF n < 0 THEN -n ELSE n
        /\ Blank(SubSeq(cs, 1, i - 1)) /\ Blank(SubSeq(cs, j + 1, Len(cs)))
        /\ IF left THEN i = 1 ELSE j = Len(cs)
        /\ zeros => zero /\ ~left
        /\ blanks => ~zero \/ left
        /\ Len(cs) >= width
        /\ blanks \/ zeros => Len(cs) = width

IsRendering(cs, p) ==
  CASE p.conv = "d" -> IsNumber(cs, p.arg, 10, p.width, p.zero, p.left)
    [] p.conv = "u" -> IsNumber(cs, p.arg, 10, p.width, p.zero, p.left)
    [] p.conv = "x" -> IsNumber(cs, p.arg, 16, p.width, p.zero, p.left)
    [] p.conv = "p" -> /\ IsPrefix(<<"0", "x">>, cs)
                       /\ IsNumber(SubSeq(cs, 3, Len(cs)), p.arg, 16, PtrDigits, TRUE, p.left)
    [] p.conv = "s" ->
         IF p.arg = -1 THEN cs = <<>>
         ELSE /\ Len(cs) = Max({p.width, p.arg})
              /\ LET first == IF p.left THEN 1 ELSE Len(cs) - p.arg + 1
                 IN  \A i \in DOMAIN cs : (cs[i] = "a") <=> i \in first..first + p.arg - 1
    [] p.conv = "?" -> cs = <<>>
    [] OTHER -> cs = <<p.conv>>

(* What cli_printf prints can be read back: in a buffer that is large      *)
(* enough each number has its value, the most negative one too, its width, *)
(* and its sign before its zeros; a buffer that is too small keeps the     *)
(* beginning of that text and room for the terminating NUL.  (A pointer    *)
(* that meets the end of the buffer may lose its "0x".)                    *)
PrintedReadsBack ==
  LET fmt == printed.fmt
      whole == CliPrintf(fmt, 100)
  IN  fmt # <<>> =>
        /\ \E k \in 0..Len(whole) :
             /\ IsRendering(SubSeq(whole, 1, k), fmt[1])
             /\ IF Len(fmt) = 1 THEN k = Len(whole)
                ELSE IsRendering(SubSeq(whole, k + 1, Len(whole)), fmt[2])
        /\ Len(printed.out) < PrintBuffer
        /\ (\A i \in DOMAIN fmt : fmt[i].conv # "p") =>
             printed.out = SubSeq(whole, 1, Min({Len(whole), PrintBuffer - 1}))
==============================================================================
