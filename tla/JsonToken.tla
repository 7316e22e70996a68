----------------------------- MODULE JsonToken -----------------------------
(***************************************************************************)
(* JsonTokenW of jsonw.hpp: a text cut into tokens.  A text is a sequence  *)
(* of characters.  The value of a token is a sequence of characters too:   *)
(* the decimal digits of an integer, the letters of a boolean, and for a   *)
(* fraction the normal form of Normal below.                               *)
(***************************************************************************)
EXTENDS Integers, Sequences
LOCAL INSTANCE SequencesExt

CONSTANTS Unicode,     \* the four characters after \u -> the character (wide character codes)
          IntDigits,   \* the digits of the longest number std::stoll takes
          MaxExponent, \* the exponent above which std::pow gives HUGE_VAL
          MaxInt       \* the largest number std::stoi takes

Quote == "\""
Backslash == "\\"
EOL == "\n"
Numeral == <<"0", "1", "2", "3", "4", "5", "6", "7", "8", "9">>
Digit == {Numeral[i] : i \in 1..10}
White == {" ", "\r", EOL, "\t"}

Token(type, value) == [type |-> type, value |-> value]
Bad == Token("Bad", <<>>)

(* What a constructor takes from the stream, and what it leaves there. *)
Taken(token, rest) == [token |-> token, rest |-> rest]

From(s, n) == SubSeq(s, n + 1, Len(s))

(* The length of the longest prefix of s over the characters C. *)
Span(s, C) == LET i == SelectInSeq(s, LAMBDA c : c \notin C) IN IF i = 0 THEN Len(s) ELSE i - 1

First(s, C) == s # <<>> /\ s[1] \in C

---------------------------------------------------------------------------
(* Numbers. *)

DigitValue == [c \in Digit |-> CHOOSE n \in 0..9 : Numeral[n + 1] = c]

ValueOf(digits) == FoldLeft(LAMBDA n, c : 10 * n + DigitValue[c], 0, digits)

RECURSIVE Decimal(_)
Decimal(n) ==
  IF n < 0 THEN <<"-">> \o Decimal(-n)
  ELSE IF n < 10 THEN <<Numeral[n + 1]>> ELSE Decimal(n \div 10) \o <<Numeral[(n % 10) + 1]>>

RECURSIVE Normal(_, _)
(* mantissa * 10^exponent with no zero at either end of the mantissa. *)
Normal(mantissa, exponent) ==
  IF mantissa = <<>> THEN <<"0">>
  ELSE IF mantissa[1] = "0" THEN Normal(Tail(mantissa), exponent)
  ELSE IF Last(mantissa) = "0" THEN Normal(Front(mantissa), exponent + 1)
  ELSE mantissa \o <<"e">> \o Decimal(exponent)

(* 'e' only sets containexp: an exponent written with 'E' is read and      *)
(* forgotten.                                                              *)
NumberValue(sign, body, exp, char) ==
  LET dot == SelectInSeq(body, LAMBDA c : c = ".")
      digits == SelectSeq(body, LAMBDA c : c # ".")
      exponent == IF char = "e" THEN exp ELSE 0
      decimals == IF dot = 0 THEN 0 ELSE Len(body) - dot
      TooLong == \/ dot = 0 /\ Len(digits) > IntDigits
                 \/ exponent > MaxExponent
                 \/ exp > MaxInt \/ -exp > MaxInt
  IN IF TooLong THEN Bad
     ELSE IF dot = 0 /\ char # "e" THEN Token("NumberInteger", sign \o digits)
     ELSE Token("NumberFloat", sign \o Normal(digits, exponent - decimals))

(* MUTANT of Exponent: negativeexp is set and never looked at. *)
X_ExponentPositive(sign, body, s) ==
  LET s3 == From(s, 1 + Span(From(s, 1), {"-", "+"}))
      n == Span(s3, Digit)
  IN Taken(IF n = 0 THEN Bad ELSE NumberValue(sign, body, ValueOf(SubSeq(s3, 1, n)), s[1]), From(s3, n))

(* s is what follows the body and begins with 'e' or 'E'. *)
Exponent(sign, body, s) ==
  LET minus == IF First(From(s, 1), {"-"}) THEN 1 ELSE 0
      plus == IF First(From(s, 1 + minus), {"+"}) THEN 1 ELSE 0
      s3 == From(s, 1 + minus + plus)
      n == Span(s3, Digit)
      exp == ValueOf(SubSeq(s3, 1, n)) * (IF minus = 1 THEN -1 ELSE 1)
  IN Taken(IF n = 0 THEN Bad ELSE NumberValue(sign, body, exp, s[1]), From(s3, n))

Number(s) ==
  LET sign == IF s[1] = "-" THEN <<"-">> ELSE <<>>
      r == From(s, Len(sign))
      body == SubSeq(r, 1, Span(r, Digit \cup {"."}))
      rest == From(r, Len(body))
  IN IF First(r, {"0"}) /\ ~First(Tail(r), {"."})
     THEN Taken(Token("NumberInteger", <<"0">>), Tail(r))
     ELSE IF ~First(body, Digit) \/ Last(body) = "." \/ Len(SelectSeq(body, LAMBDA c : c = ".")) > 1
     THEN Taken(Bad, rest)
     ELSE IF First(rest, {"e", "E"}) THEN Exponent(sign, body, rest)
     ELSE Taken(NumberValue(sign, body, 0, ""), rest)

---------------------------------------------------------------------------
(* Words and strings. *)

Word(s, word, token) == IF IsPrefix(word, s) THEN Taken(token, From(s, Len(word))) ELSE Taken(Bad, s)

Literal(s) ==
  CASE s[1] = "t" -> Word(s, <<"t", "r", "u", "e">>, Token("Boolean", <<"t", "r", "u", "e">>))
    [] s[1] = "f" -> Word(s, <<"f", "a", "l", "s", "e">>, Token("Boolean", <<"f", "a", "l", "s", "e">>))
    [] s[1] = "n" -> Word(s, <<"n", "u", "l", "l">>, Token("Null", <<>>))

(* The character after a backslash -> the character that is meant.  The    *)
(* backslash of any other is dropped, and the character with it.           *)
Escape == [c \in {Quote, Backslash, "/", "b", "f", "n", "r", "t"} |->
             CASE c = "b" -> "backspace" [] c = "f" -> "\f" [] c = "n" -> EOL
               [] c = "r" -> "\r" [] c = "t" -> "\t" [] OTHER -> c]

RECURSIVE StringRest(_, _)
(* str has been read, s is to come. *)
StringRest(s, str) ==
  IF s = <<>> \/ First(s, {"\r", EOL}) THEN Taken(Bad, s)
  ELSE IF s[1] = Quote THEN Taken(Token("String", str), Tail(s))
  ELSE IF s[1] # Backslash THEN StringRest(Tail(s), Append(str, s[1]))
  ELSE IF Len(s) = 1 THEN Taken(Bad, s)
  ELSE IF s[2] = "u"
  THEN IF Len(s) < 6 THEN Taken(Bad, s) ELSE StringRest(From(s, 6), Append(str, Unicode[SubSeq(s, 3, 6)]))
  ELSE StringRest(From(s, 2), IF s[2] \in DOMAIN Escape THEN Append(str, Escape[s[2]]) ELSE str)

---------------------------------------------------------------------------
Single == [c \in {"{", "}", "[", "]", ":", ","} |->
             CASE c = "{" -> "LeftCurlyBracket" [] c = "}" -> "RightCurlyBracket"
               [] c = "[" -> "LeftSquareBracket" [] c = "]" -> "RightSquareBracket"
               [] c = ":" -> "Colon" [] c = "," -> "Comma"]

NumberBegin == Digit \cup {"-"}
TokenBegin == DOMAIN Single \cup NumberBegin \cup {Quote, "t", "f", "n"}

(* The constructor of JsonTokenW. *)
NextToken(s) ==
  CASE s[1] \in DOMAIN Single -> Taken(Token(Single[s[1]], <<>>), Tail(s))
    [] s[1] \in NumberBegin -> Number(s)
    [] s[1] = Quote -> StringRest(Tail(s), <<>>)
    [] OTHER -> Literal(s)

(* What is left when the white space is skipped. *)
Skipped(s) == From(s, Span(s, White))

RECURSIVE Tokens(_, _)
(* The tokens of s after those of the queue.  A character that begins no   *)
(* token ends the reading without an error; a bad token empties the queue. *)
Tokens(s, queue) ==
  LET rest == Skipped(s)
  IN IF ~First(rest, TokenBegin) THEN queue
     ELSE LET taken == NextToken(rest)
          IN IF taken.token = Bad THEN <<>> ELSE Tokens(taken.rest, Append(queue, taken.token))
=============================================================================
