------------------------------- MODULE Printf -------------------------------
(* The formatted output of lib/stdio.c.  A character is a one-letter string  *)
(* and text a sequence of them; output() appends.  Types keep their width,   *)
(* given in bits by the constant Bits.                                       *)
EXTENDS Integers, Sequences, SequencesExt, FiniteSetsExt

CONSTANTS Bits,     \* type |-> number of bits
          BufSize   \* of format_integer's buf

NUL == "NUL"
Flag == {"-", "+", " ", "#", "0", "'"}
Digits == <<"0", "1", "2", "3", "4", "5", "6", "7", "8", "9", "a", "b", "c", "d", "e", "f">>
Capitals == SubSeq(Digits, 1, 10) \o <<"A", "B", "C", "D", "E", "F">>

(* A null pointer in place of a string, and what is printed for it. *)
NullString == <<NUL>>
Shown(s) == IF s = NullString THEN <<"(", "n", "u", "l", "l", ")">> ELSE s

base_d == [base |-> 10, digits |-> Digits, x |-> <<>>, group |-> 3]
base_o == [base |-> 8, digits |-> Digits, x |-> <<>>, group |-> 3]
base_x == [base |-> 16, digits |-> Digits, x |-> <<"0", "x">>, group |-> 4]
base_X == [base |-> 16, digits |-> Capitals, x |-> <<"0", "X">>, group |-> 4]

Wraps(v, bits) == v % 2^bits
SignedOf(v, bits) == LET u == Wraps(v, bits) IN IF u >= 2^(bits - 1) THEN u - 2^bits ELSE u

output_dup(ch, cnt) == [i \in 1 .. Max({cnt, 0}) |-> ch]

(* Parsing of one number of a format at position f. *)
RECURSIVE DigitsFrom(_, _, _)
DigitsFrom(s, f, n) ==
  IF s[f] \in {Digits[i] : i \in 1 .. 10}
    THEN DigitsFrom(s, f + 1, 10 * n + (CHOOSE i \in 1 .. 10 : Digits[i] = s[f]) - 1)
    ELSE [f |-> f, n |-> n]

RECURSIVE FlagsFrom(_, _, _)
FlagsFrom(s, f, flags) == IF s[f] \in Flag THEN FlagsFrom(s, f + 1, flags \cup {s[f]}) ELSE [f |-> f, flags |-> flags]

(* The conversion at position f of s, with the arguments args: where its     *)
(* letter is, what it says, and the arguments that remain.                   *)
ParseFlags(r) ==
  [f |-> r.f, flags |-> r.flags \ ((IF "-" \in r.flags THEN {"0"} ELSE {}) \cup (IF "+" \in r.flags THEN {" "} ELSE {}))]

ParseNumber(s, f, args) ==
  IF s[f] = "*" THEN [f |-> f + 1, n |-> Head(args), args |-> Tail(args)]
  ELSE LET d == DigitsFrom(s, f, 0) IN [f |-> d.f, n |-> d.n, args |-> args]

ParseType(s, f) ==
  CASE s[f] \in {"h", "l"} /\ s[f + 1] = s[f] -> [f |-> f + 2, type |-> IF s[f] = "h" THEN "hh" ELSE "ll"]
    [] s[f] \in {"h", "l", "j", "t", "z"} /\ ~(s[f] \in {"h", "l"} /\ s[f + 1] = s[f]) -> [f |-> f + 1, type |-> s[f]]
    [] OTHER -> [f |-> f, type |-> "int"]

Conversion(flags, w, p, t) ==
  [f |-> t.f, args |-> p.args,
   c |-> [flags |-> (flags \cup (IF w.n < 0 THEN {"-"} ELSE {})) \ (IF p.n >= 0 THEN {"0"} ELSE {}),
          width |-> IF w.n < 0 THEN -w.n ELSE w.n,
          precision |-> IF p.n < 0 THEN -1 ELSE p.n, type |-> t.type]]

AfterPrecision(s, flags, w, p) == Conversion(flags, w, p, ParseType(s, p.f))
AfterWidth(s, flags, w) ==
  AfterPrecision(s, flags, w, IF s[w.f] = "." THEN ParseNumber(s, w.f + 1, w.args) ELSE [w EXCEPT !.n = -1])
AfterFlags(s, fl, args) == AfterWidth(s, fl.flags, ParseNumber(s, fl.f, args))

parse_conversion(s, f, args) == AfterFlags(s, ParseFlags(FlagsFrom(s, f, {})), args)

(* The digits of value, least significant first, with group separators.      *)
RECURSIVE Accumulate(_, _, _, _)
Accumulate(value, b, group, cnt) ==
  IF value = 0 THEN <<>>
  ELSE (IF group /\ cnt > 0 /\ cnt % b.group = 0 THEN <<",">> ELSE <<>>)
       \o <<b.digits[(value % b.base) + 1]>> \o Accumulate(value \div b.base, b, group, cnt + 1)

(* Leading zeros for the precision, and the one that %#o asks for. *)
ZeroFill(cp, precision) == cp \o output_dup("0", Min({precision, BufSize - 1}) - Len(cp))
OctalZero(buf, b, c) ==
  IF "#" \in c.flags /\ b.base = 8 /\ (buf = <<>> \/ Last(buf) # "0") THEN buf \o <<"0">> ELSE buf

(* The output, padded to the field's width.                                  *)
Padded(prefix, buf, c) ==
  LET pad_cnt == c.width - Len(buf) - Len(prefix)
  IN  (IF c.flags \cap {"-", "0"} = {} THEN output_dup(" ", pad_cnt) ELSE <<>>)
      \o prefix
      \o (IF "0" \in c.flags THEN output_dup("0", pad_cnt) ELSE <<>>)
      \o Reverse(buf)
      \o (IF "-" \in c.flags THEN output_dup(" ", pad_cnt) ELSE <<>>)

format_integer(value, is_signed, negative, b, c) ==
  LET sign == IF ~is_signed THEN <<>>
              ELSE IF negative THEN <<"-">>
              ELSE IF "+" \in c.flags THEN <<"+">>
              ELSE IF " " \in c.flags THEN <<" ">> ELSE <<>>
      x == IF "#" \in c.flags /\ value # 0 THEN b.x ELSE <<>>
      precision == IF c.precision < 0 THEN 1 ELSE c.precision
  IN  Padded(sign \o x, OctalZero(ZeroFill(Accumulate(value, b, "'" \in c.flags, 0), precision), b, c), c)

format_string(string, length, c) ==
  LET pad == output_dup(" ", c.width - length)
  IN  (IF "-" \in c.flags THEN <<>> ELSE pad) \o SubSeq(string, 1, length) \o (IF "-" \in c.flags THEN pad ELSE <<>>)

(* The integer an argument of c's type is read as. *)
SignedArg(c, v) ==
  IF c.type = "z" THEN LET u == Wraps(v, Bits["z"]) IN IF u > (2^Bits["z"] - 1) \div 2 THEN u - 2^Bits["z"] ELSE u
  ELSE SignedOf(v, Bits[c.type])
UnsignedArg(c, v) == Wraps(v, Bits[c.type])

FormatSigned(value, c) ==
  format_integer(Wraps(IF value < 0 THEN -value ELSE value, Bits["j"]), TRUE, value < 0, base_d, c)

Convert(letter, c, arg) ==
  CASE letter \in {"d", "i"} -> FormatSigned(SignedArg(c, arg), c)
    [] letter \in {"o", "u", "x", "X"} ->
         format_integer(UnsignedArg(c, arg), FALSE, FALSE,
                        CASE letter = "o" -> base_o [] letter = "u" -> base_d
                          [] letter = "x" -> base_x [] letter = "X" -> base_X, c)
    [] letter = "c" -> format_string(<<arg>>, 1, c)
    [] letter = "s" -> LET s == Shown(arg)
                       IN  format_string(s, IF c.precision < 0 THEN Len(s) ELSE Min({c.precision, Len(s)}), c)
    [] letter = "p" -> format_integer(Wraps(arg, Bits["int"]), FALSE, FALSE, base_x, [c EXCEPT !.flags = {"#"}])

(* The format from position f on, and after the conversion r; s ends with    *)
(* NUL.                                                                      *)
RECURSIVE vprintf(_, _, _)
RECURSIVE AfterConversion(_, _)
vprintf(s, f, args) ==
  CASE s[f] = NUL -> <<>>
    [] s[f] \notin {NUL, "%"} -> <<s[f]>> \o vprintf(s, f + 1, args)
    [] s[f] = "%" /\ s[f + 1] = "%" -> <<"%">> \o vprintf(s, f + 2, args)
    [] s[f] = "%" /\ s[f + 1] # "%" -> AfterConversion(s, parse_conversion(s, f + 1, args))

AfterConversion(s, r) ==
  IF s[r.f] \in {"d", "i", "o", "u", "x", "X", "c", "s", "p"}
    THEN Convert(s[r.f], r.c, Head(r.args)) \o vprintf(s, r.f + 1, Tail(r.args))
    ELSE <<"<", s[r.f], ">">> \o vprintf(s, r.f + 1, r.args)

(* The buffer after vsnprintf, as a sequence of buf_size cells ("?" where    *)
(* nothing is written), and the number returned.                             *)
RECURSIVE Helper(_, _, _)
Helper(aux, s, i) ==
  IF i > Len(s) THEN aux
  ELSE Helper([aux EXCEPT !.length = @ + 1,
                          !.buffer = IF aux.length < aux.max_length THEN [@ EXCEPT ![aux.p] = s[i]] ELSE @,
                          !.p = IF aux.length < aux.max_length THEN @ + 1 ELSE @], s, i + 1)

Terminated(aux, buf_size) ==
  [buffer |-> IF buf_size > 0 THEN [aux.buffer EXCEPT ![aux.p] = NUL] ELSE aux.buffer, length |-> aux.length]

(* What vsnprintf does with the characters of text. *)
vsnprintf(buf_size, text) ==
  Terminated(Helper([p |-> 1, length |-> 0, max_length |-> IF buf_size > 0 THEN buf_size - 1 ELSE 0,
                     buffer |-> [i \in 1 .. buf_size |-> "?"]], text, 1), buf_size)

(* hex_dump's lines: the address a line starts at, the columns left blank    *)
(* and the bytes of buf shown.                                               *)
RECURSIVE hex_dump(_, _, _, _)
hex_dump(ofs, at, size, per_line) ==
  IF size = 0 THEN <<>>
  ELSE LET start == ofs % per_line
           end == IF per_line - start > size THEN start + size ELSE per_line
           n == end - start
       IN  <<[addr |-> ofs - start, blank |-> start, shown |-> [i \in 1 .. n |-> at + i - 1]]>>
           \o hex_dump(ofs + n, at + n, size - n, per_line)

(* The number and the index of the unit print_human_readable_size shows. *)
RECURSIVE HumanSize(_, _)
HumanSize(size, fp) == IF size >= 1024 /\ fp < 5 THEN HumanSize(size \div 1024, fp + 1) ELSE <<size, fp>>
-----------------------------------------------------------------------------
(* The text of a natural number, for writing formats. *)
RECURSIVE Numeral(_)
Numeral(n) == (IF n < 10 THEN <<>> ELSE Numeral(n \div 10)) \o <<Digits[(n % 10) + 1]>>

Letters(type) == CASE type = "int" -> <<>> [] type = "hh" -> <<"h", "h">> [] type = "ll" -> <<"l", "l">>
                   [] OTHER -> <<type>>

(* What a text reads as in a base, signs, separators and blanks skipped. *)
Reading(s, base) ==
  LET Is(ch, i) == ch \in {Digits[i], Capitals[i]}
      ds == SelectSeq(s, LAMBDA ch : \E i \in 1 .. base : Is(ch, i))
  IN  FoldLeft(LAMBDA n, ch : base * n + (CHOOSE i \in 1 .. base : Is(ch, i)) - 1, 0, ds)

(* The conversion a spec record asks for, written out as a format between    *)
(* two literals, with its arguments; star says that width and precision are  *)
(* passed as arguments.                                                      *)
FormatOf(in) ==
  <<"a", "%">> \o SetToSeq(in.flags)
  \o (IF in.star THEN <<"*">> ELSE IF in.width > 0 THEN Numeral(in.width) ELSE <<>>)
  \o (IF in.star THEN <<".", "*">> ELSE IF in.precision >= 0 THEN <<".">> \o Numeral(in.precision) ELSE <<>>)
  \o Letters(in.type) \o <<in.letter, "%", "%", NUL>>
ArgsOf(in) == (IF in.star THEN <<in.width, in.precision>> ELSE <<>>) \o <<in.arg>>

TextOf(in) == vprintf(FormatOf(in), 1, ArgsOf(in))
Inside(text) == SubSeq(text, 2, Len(text) - 1)

ReadsBack(in, out, value, base) ==
  /\ Reading(out, base) = IF value < 0 THEN -value ELSE value
  /\ ("-" \in ToSet(out)) = (value < 0)
  /\ ("+" \in ToSet(out)) = (in.letter = "d" /\ value >= 0 /\ "+" \in in.flags)
  /\ Len(SelectSeq(out, LAMBDA ch : ch \notin {"-", "+", " ", "x", "X"})) >= in.precision

FillsField(in, out, bare, width) ==
  LET blanks == output_dup(" ", width - Len(bare))
      left == "-" \in in.flags \/ in.width < 0
      zero == "0" \in in.flags /\ in.precision < 0
  IN  ~(in.width < 0 /\ zero) =>
        /\ Len(out) = Max({width, Len(bare)})
        /\ left => out = bare \o blanks
        /\ ~left /\ ~zero => out = blanks \o bare
        /\ ~left /\ zero => \A i \in 2 .. Len(out) : out[i] # " "

Stored(text, size, r) ==
  LET n == Min({size - 1, Len(text)})
  IN  /\ r.length = Len(text)
      /\ size > 0 => r.buffer[n + 1] = NUL /\ SubSeq(r.buffer, 1, n) = SubSeq(text, 1, n)

Judged(in, text) ==
  /\ Head(text) = "a" /\ Last(text) = "%"
  /\ ReadsBack(in, Inside(text),
               IF in.letter = "d" THEN SignedOf(in.arg, Bits[in.type]) ELSE Wraps(in.arg, Bits[in.type]),
               CASE in.letter = "o" -> 8 [] in.letter \in {"x", "X"} -> 16 [] OTHER -> 10)
  /\ FillsField(in, Inside(text), Inside(TextOf([in EXCEPT !.width = 0])),
                IF in.width < 0 THEN -in.width ELSE in.width)
  /\ Stored(text, in.size, vsnprintf(in.size, text))

(* A number printed under any flags, width, precision and type reads back as *)
(* the number the argument holds in that type, with the sign the flags ask   *)
(* for and at least the digits the precision asks for; it fills its field    *)
(* exactly, on the side the flags say, unless it is wider than the field;    *)
(* vsnprintf stores as much of that text as fits, always with a terminator,  *)
(* and returns the length of all of it.  (A negative width given by an       *)
(* argument together with the 0 flag pads on both sides: its field is        *)
(* excluded.)                                                                *)
PrintfIsRight(in) == Judged(in, TextOf(in))

(* A dump shows every byte once, in order, under its own address.            *)
DumpIsRight(ofs, size, per_line) ==
  LET lines == hex_dump(ofs, 0, size, per_line)
  IN  /\ FlattenSeq([i \in DOMAIN lines |-> lines[i].shown]) = [i \in 1 .. size |-> i - 1]
      /\ \A i \in DOMAIN lines :
           /\ lines[i].addr % per_line = 0
           /\ \A k \in DOMAIN lines[i].shown : lines[i].shown[k] + ofs = lines[i].addr + lines[i].blank + k - 1
           /\ lines[i].blank + Len(lines[i].shown) <= per_line
=============================================================================
