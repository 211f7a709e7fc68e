-------------------------------- MODULE Codec -------------------------------
(***************************************************************************)
(* The text conversions around judging (lib/rojcppUtils.hpp): the program  *)
(* text on its way to the judge server, and the "msg" of its answers.  A   *)
(* text is a sequence of characters.  The specification hands every text   *)
(* of bounded length, and every number up to a bound, to each conversion.  *)
(***************************************************************************)
EXTENDS SessionToken, SequencesExt

CONSTANTS
  Chars,     \* characters of the texts that are tried
  MaxLength, \* bound: their length
  MaxNumber, \* bound: points, numbers of points, sessions
  Scales     \* session numbers are tried with as many zeros after them

\* The characters that the conversions look for; the first four by their names.
BACKSLASH == "BACKSLASH"
QUOTE == "QUOTE"
LINE_FEED == "LF"
RETURN == "CR"
COMMA == ","

\* The largest `int`.
INT_MAX == 2147483647

ASSUME CodecBounds == MaxLength \in Nat /\ MaxNumber \in 0..INT_MAX /\ Scales \subseteq Nat

VARIABLES text, number

vars == <<text, number>>

-----------------------------------------------------------------------------
(* unescape_newline *)

\* The characters an escape sequence stands for; of any other pair only the
\* backslash is taken.
Meaning(next) ==
  CASE next = "n" -> <<LINE_FEED>>
    [] next = "r" -> <<RETURN>>
    [] OTHER -> <<>>

UnescapeWithoutSkip(str) ==   \* mutant: the second character is read again
  LET from[i \in 1..(Len(str) + 1)] ==
        IF i > Len(str) THEN <<>>
        ELSE IF str[i] = BACKSLASH /\ i < Len(str) THEN Meaning(str[i + 1]) \o from[i + 1]
        ELSE <<str[i]>> \o from[i + 1]
  IN from[1]

Unescape(str) ==
  LET from[i \in 1..(Len(str) + 1)] ==
        IF i > Len(str) THEN <<>>
        ELSE IF str[i] = BACKSLASH /\ i < Len(str)
        THEN LET m == Meaning(str[i + 1])
             IN m \o from[i + 1 + Len(m)]
        ELSE <<str[i]>> \o from[i + 1]
  IN from[1]

-----------------------------------------------------------------------------
(* Numbers and points *)

Digits == <<"0", "1", "2", "3", "4", "5", "6", "7", "8", "9">>
IsDigit(ch) == Contains(Digits, ch)
DigitValue(ch) == CHOOSE value \in 0..9 : Digits[value + 1] = ch

Magnitude(str) ==
  LET value[i \in 0..Len(str)] ==
        IF i = 0 THEN 0
        ELSE IF IsDigit(str[i]) THEN value[i - 1] * 10 + DigitValue(str[i])
        ELSE value[i - 1]
  IN value[Len(str)]

Signed(str) == IF Contains(str, "-") THEN -Magnitude(str) ELSE Magnitude(str)   \* mutant

\* str2int skips whatever is not a digit, and does not use the sign it notes.
\* This is the number as long as it fits `int`; beyond, the code's behaviour is
\* undefined and no property is about it.
Str2int(str) == Magnitude(str)

StrBeginWith(s1, s2) == IsPrefix(s2, s1)

AfterNine(s1) == SubSeq(s1, 10, Len(s1))   \* mutant: off by one

\* What follows the eight characters of "allSize:".
GetAllSizeSize(s1) == SubSeq(s1, 9, Len(s1))

NoInfo == [commas |-> 0, tmp |-> <<>>, point |-> 0, in |-> <<>>]

CharKeepsField(info, e) ==   \* mutant: a field is not cleared
  IF e # COMMA THEN [info EXCEPT !.tmp = Append(@, e)]
  ELSE [info EXCEPT !.commas = @ + 1,
                    !.point = IF info.commas = 0 THEN Str2int(info.tmp) ELSE @,
                    !.in = IF info.commas = 1 THEN info.tmp ELSE @]

\* The first comma ends the number, the second the input file's name; every
\* comma starts a new field.
Char(info, e) ==
  IF e # COMMA THEN [info EXCEPT !.tmp = Append(@, e)]
  ELSE [info EXCEPT !.commas = @ + 1,
                    !.point = IF info.commas = 0 THEN Str2int(info.tmp) ELSE @,
                    !.in = IF info.commas = 1 THEN info.tmp ELSE @,
                    !.tmp = <<>>]

GetSinglePointInfo(msg) ==
  LET info[i \in 0..Len(msg)] == IF i = 0 THEN NoInfo ELSE Char(info[i - 1], msg[i])
      last == info[Len(msg)]
  IN [point |-> last.point, in |-> last.in, out |-> last.tmp]

-----------------------------------------------------------------------------
(* What the other sides send *)

Numeral(n) ==
  LET digits[k \in 0..n] ==
        (IF k < 10 THEN <<>> ELSE digits[k \div 10]) \o <<Digits[(k % 10) + 1]>>
  IN digits[n]

ALL == <<"a", "l", "l">>
ALL_SIZE == <<"a", "l", "l", "S", "i", "z", "e", ":">>

SizeMessage(n) == ALL_SIZE \o Numeral(n)
PointMessage(n, in, out) == Numeral(n) \o <<COMMA>> \o in \o <<COMMA>> \o out

\* The order of the tests in the result handler; "allSize" has seven letters.
Kind(msg) ==
  IF msg = ALL THEN "all"
  ELSE IF StrBeginWith(msg, SubSeq(ALL_SIZE, 1, 7)) THEN "size"
  ELSE "point"

\* A client writes line ends and quotes of a program as escape sequences.
EscapeOf(ch) ==
  CASE ch = LINE_FEED -> <<BACKSLASH, "n">>
    [] ch = RETURN -> <<BACKSLASH, "r">>
    [] ch = QUOTE -> <<BACKSLASH, QUOTE>>
    [] OTHER -> <<ch>>

Escaped(program) ==
  LET from[i \in 1..(Len(program) + 1)] ==
        IF i > Len(program) THEN <<>> ELSE EscapeOf(program[i]) \o from[i + 1]
  IN from[1]

-----------------------------------------------------------------------------
Init == text = <<>> /\ number = 0

Extend ==
  /\ Len(text) < MaxLength
  /\ \E ch \in Chars : text' = Append(text, ch)
  /\ UNCHANGED number

Count ==
  /\ number < MaxNumber
  /\ number' = number + 1
  /\ UNCHANGED text

Next == Extend \/ Count

Spec == Init /\ [][Next]_vars

-----------------------------------------------------------------------------
(* Properties *)

\* Nine digits are too few for an overflow of `int`.
IsShort(str) == Len(str) < 10

\* Whatever arrives, the conversions return texts of the characters they know,
\* and from texts too short for an overflow numbers that `int` holds, none of
\* them negative.
TypeOK ==
  /\ Unescape(text) \in Seq(Chars \union {LINE_FEED, RETURN})
  /\ IsShort(text) =>
       Str2int(text) \in 0..INT_MAX /\ GetSinglePointInfo(text).point \in 0..INT_MAX

\* A program without backslashes reaches the judge server as it was written:
\* escapes next to letters n and r, and at the end of the text, included.
ProgramArrives ==
  ~Contains(text, BACKSLASH) => Unescape(Escaped(text)) = text

\* The three fields of a point are found again, wherever the text is cut into
\* two file names, if those have no comma.
PointArrives ==
  \A cut \in 0..Len(text) :
    LET in == SubSeq(text, 1, cut)
        out == SubSeq(text, cut + 1, Len(text))
        msg == PointMessage(number, in, out)
    IN ~Contains(text, COMMA) =>
         /\ Kind(msg) = "point"
         /\ GetSinglePointInfo(msg) = [point |-> number, in |-> in, out |-> out]

\* The number of points is read from the message that carries it, which is
\* not taken for the end of the run.
SizeArrives ==
  LET msg == SizeMessage(number)
  IN Kind(msg) = "size" /\ Str2int(GetAllSizeSize(msg)) = number

\* A login is given a cookie from which every later request reads the number
\* of its session, whether the digits fill a block, miss it by one or need a
\* second; and no error code is ignored on the way.
TokensReadBack ==
  text = <<>> /\ number > 0 =>
    \A zeros \in Scales :
      ReadBack([k \in 1..Len(Numeral(number)) |-> DigitValue(Numeral(number)[k])] \o Zeros(zeros))

-----------------------------------------------------------------------------
(* What the repository says and the code does not do *)

\* lib/rojcppUtils.hpp:15 "unescape \n \r": those two escape sequences become
\* characters, and everything else of a program stays as it is.
Lines(str) ==
  LET from[i \in 1..(Len(str) + 1)] ==
        IF i > Len(str) THEN <<>>
        ELSE IF str[i] = BACKSLASH /\ i < Len(str) /\ str[i + 1] \in {"n", "r"}
        THEN Meaning(str[i + 1]) \o from[i + 2]
        ELSE <<str[i]>> \o from[i + 1]
  IN from[1]

OnlyNewlinesUnescaped == Unescape(text) = Lines(text)
=============================================================================
