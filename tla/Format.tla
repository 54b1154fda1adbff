---------------------------------- MODULE Format ---------------------------------
(***************************************************************************)
(* Three programs that read one language of formats: printf of the kernel     *)
(* (kernel/printf.c), vsnprintf of its log (kernel/paniclog.c) and vprintf of *)
(* user programs (user/printf.c).  A string is a sequence of characters; an   *)
(* argument has the value that the conversion asks for: a number, of which    *)
(* ints are the low half, a character, or a string, which may be null.        *)
(***************************************************************************)
EXTENDS Integers, SequencesExt

CONSTANTS IntBits, LongBits,
          BufSize            \* of printint's buf: room for any number in base 10

Lower == <<"0", "1", "2", "3", "4", "5", "6", "7", "8", "9", "a", "b", "c", "d", "e", "f">>
Upper == <<"0", "1", "2", "3", "4", "5", "6", "7", "8", "9", "A", "B", "C", "D", "E", "F">>
NullText == <<"(", "n", "u", "l", "l", ")">>

At(f, i) == IF i <= Len(f) THEN f[i] ELSE "end"
Unsigned(n, bits) == n % 2^bits
Signed(n, bits) == LET x == Unsigned(n, bits) IN IF x < 2^(bits - 1) THEN x ELSE x - 2^bits

-------------------------------------------------------------------------------
(* Numbers *)

\* the digits of x, the last one first
RECURSIVE Backwards(_, _, _)
Backwards(x, base, digits) == <<digits[(x % base) + 1]>>
  \o (IF x \div base = 0 THEN << >> ELSE Backwards(x \div base, base, digits))

\* printint puts the sign behind the digits, and prints from the end.
Buf(xx, base, sign, digits) ==
  IF sign /\ xx < 0 THEN Append(Backwards(-xx, base, digits), "-")
  ELSE Backwards(Unsigned(xx, LongBits), base, digits)
Printint(xx, base, sign, digits) == Reverse(Buf(xx, base, sign, digits))
\* vsnprintf puts the sign first.
LogInt(xx, base, sign) ==
  IF sign /\ xx < 0 THEN <<"-">> \o Reverse(Backwards(-xx, base, Lower))
  ELSE Reverse(Backwards(Unsigned(xx, LongBits), base, Lower))
\* printptr, and %p of vsnprintf: all hexadecimal digits, from the top
Pointer(x, digits) == <<"0", "x">> \o
  [k \in 1..(LongBits \div 4) |->
     digits[((Unsigned(x, LongBits) \div 16^(LongBits \div 4 - k)) % 16) + 1]]

-------------------------------------------------------------------------------
(* What comes after a "%": what it converts, and its length.  c0, c1 and c2.   *)

Number(base, sign, bits, len) == [to |-> "number", base |-> base, sign |-> sign, bits |-> bits, len |-> len]
Plain(to) == [to |-> to, base |-> 10, sign |-> FALSE, bits |-> LongBits, len |-> 1]
Integer(c, bits, len) == CASE c = "d" -> Number(10, TRUE, bits, len)
                           [] c = "u" -> Number(10, FALSE, bits, len)
                           [] c = "x" -> Number(16, FALSE, bits, len)
\* Mutant: "ll" is skipped as "l" is.
Conversion_Short(c0, c1, c2) ==
  CASE c0 \in {"d", "u", "x"} -> Integer(c0, IntBits, 1)
    [] c0 = "l" /\ c1 \in {"d", "u", "x"} -> Integer(c1, LongBits, 2)
    [] c0 = "l" /\ c1 = "l" /\ c2 \in {"d", "u", "x"} -> Integer(c2, LongBits, 2)
    [] OTHER -> Plain(c0)
Conversion(c0, c1, c2) ==
  CASE c0 \in {"d", "u", "x"} -> Integer(c0, IntBits, 1)
    [] c0 = "l" /\ c1 \in {"d", "u", "x"} -> Integer(c1, LongBits, 2)
    [] c0 = "l" /\ c1 = "l" /\ c2 \in {"d", "u", "x"} -> Integer(c2, LongBits, 3)
    [] OTHER -> Plain(c0)
ConversionAt(f, i) == Conversion(At(f, i), At(f, i + 1), At(f, i + 2))

Takes(c) == c.to \in {"number", "p", "c", "s"}
Left(c, args) == IF Takes(c) THEN Tail(args) ELSE args
Value(c, arg) == IF c.sign THEN Signed(arg.num, c.bits) ELSE Unsigned(arg.num, c.bits)
\* number is the text of a number, pointer that of a pointer.
Text(c, args, number, pointer) ==
  CASE c.to = "number" -> number
    [] c.to = "p" -> pointer
    [] c.to = "c" -> <<Head(args).char>>
    [] c.to = "s" -> IF Head(args).null THEN NullText ELSE Head(args).str
    [] c.to = "%" -> <<"%">>
    [] OTHER -> <<"%", c.to>>
PrintText(c, args, digits) ==
  Text(c, args, IF c.to = "number" THEN Printint(Value(c, Head(args)), c.base, c.sign, digits) ELSE << >>,
       IF c.to = "p" THEN Pointer(Head(args).num, digits) ELSE << >>)
LogText(c, args) ==
  Text(c, args, IF c.to = "number" THEN LogInt(Value(c, Head(args)), c.base, c.sign) ELSE << >>,
       IF c.to = "p" THEN Pointer(Head(args).num, Lower) ELSE << >>)

-------------------------------------------------------------------------------
(* The three loops *)

RECURSIVE Printf(_, _, _)
Printf(f, i, args) ==
  IF i > Len(f) THEN << >>
  ELSE IF f[i] # "%" THEN <<f[i]>> \o Printf(f, i + 1, args)
  ELSE IF i = Len(f) THEN << >>
  ELSE LET c == ConversionAt(f, i + 1)
       IN PrintText(c, args, Lower) \o Printf(f, i + 1 + c.len, Left(c, args))

\* n is the size of the buffer, and out what is in it.
Putc(out, n, s) == FoldLeft(LAMBDA o, ch : IF Len(o) < n - 1 THEN Append(o, ch) ELSE o, out, s)
RECURSIVE Vsnprintf(_, _, _, _, _)
Vsnprintf(out, n, f, i, args) ==
  IF i > Len(f) THEN out
  ELSE IF f[i] # "%" THEN Vsnprintf(Putc(out, n, <<f[i]>>), n, f, i + 1, args)
  ELSE IF i = Len(f) THEN out
  ELSE LET c == ConversionAt(f, i + 1)
       IN Vsnprintf(Putc(out, n, LogText(c, args)), n, f, i + 1 + c.len, Left(c, args))

\* state is "%" after a "%".
RECURSIVE Vprintf(_, _, _, _)
Vprintf(f, i, state, args) ==
  IF i > Len(f) THEN << >>
  ELSE IF state = "" THEN IF f[i] = "%" THEN Vprintf(f, i + 1, "%", args)
                          ELSE <<f[i]>> \o Vprintf(f, i + 1, "", args)
  ELSE LET c == ConversionAt(f, i)
       IN PrintText(c, args, Upper) \o Vprintf(f, i + c.len, "", Left(c, args))

-------------------------------------------------------------------------------
(* What a format means: conversions are names for texts, the longest that fits  *)
(* counts, and any other character after a "%" stays as it is, with the "%".    *)

Names == [number |-> {s \o <<ch>> : s \in {<<"%">>, <<"%", "l">>, <<"%", "l", "l">>}, ch \in {"d", "u", "x"}},
          other |-> {<<"%", ch>> : ch \in {"p", "c", "s", "%"}}]
Numeral(s, arg, digits) ==
  LET long == Len(s) > 2
      n == IF long THEN arg.num ELSE arg.num % 2^IntBits
  IN CASE Last(s) = "d" -> Printint(Signed(n, IF long THEN LongBits ELSE IntBits), 10, TRUE, digits)
       [] Last(s) = "u" -> Printint(n, 10, FALSE, digits)
       [] Last(s) = "x" -> Printint(n, 16, FALSE, digits)
RECURSIVE Means(_, _, _)
Means(f, args, digits) ==
  LET here == {s \in Names.number \cup Names.other : IsPrefix(s, f)}
      name == CHOOSE s \in here : \A t \in here : Len(t) <= Len(s)
      rest == SubSeq(f, Len(name) + 1, Len(f))
  IN IF f = << >> \/ f = <<"%">> THEN << >>
     ELSE IF here = {} THEN LET n == IF Head(f) = "%" THEN 2 ELSE 1
                            IN SubSeq(f, 1, n) \o Means(SubSeq(f, n + 1, Len(f)), args, digits)
     ELSE IF name \in Names.number THEN Numeral(name, Head(args), digits) \o Means(rest, Tail(args), digits)
     ELSE IF name = <<"%", "%">> THEN <<"%">> \o Means(rest, args, digits)
     ELSE (CASE Last(name) = "p" -> Pointer(Head(args).num, digits)
             [] Last(name) = "c" -> <<Head(args).char>>
             [] Last(name) = "s" -> IF Head(args).null THEN NullText ELSE Head(args).str)
          \o Means(rest, Tail(args), digits)

-------------------------------------------------------------------------------
(* Properties *)

\* A number's text is its own, has no zero in front, and fits in buf.
DigitValue(ch) == CHOOSE n \in 0..15 : Lower[n + 1] = ch
Reads(s, base) == FoldLeft(LAMBDA n, ch : n * base + DigitValue(ch), 0, s)
NumeralsRight ==
  /\ \A n \in 0..(2^LongBits - 1), base \in {10, 16} :
       LET s == Printint(n, base, FALSE, Lower)
       IN Len(s) <= BufSize /\ Reads(s, base) = n /\ (s[1] = "0" => n = 0)
  /\ \A n \in (-2^(LongBits - 1))..(2^(LongBits - 1) - 1) :
       /\ Len(Printint(n, 10, TRUE, Lower)) <= BufSize
       /\ n < 0 => Printint(n, 10, TRUE, Lower) = <<"-">> \o Printint(-n, 10, TRUE, Lower)
       /\ LogInt(n, 10, TRUE) = Printint(n, 10, TRUE, Lower)

\* printf and vprintf print what a format means, and vsnprintf keeps what there is
\* room for, with one place for the terminating 0. (The comment of vprintf names fewer
\* conversions than it has.)
FormatsAgree(f, args, sizes) ==
  /\ Printf(f, 1, args) = Means(f, args, Lower)
  /\ Vprintf(f, 1, "", args) = Means(f, args, Upper)
  /\ \A n \in sizes : Vsnprintf(<< >>, n, f, 1, args)
                      = LET s == Means(f, args, Lower) IN SubSeq(s, 1, IF Len(s) < n THEN Len(s) ELSE n - 1)
===============================================================================
