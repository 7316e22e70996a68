------------------------------ MODULE JsonText ------------------------------
(***************************************************************************)
(* JsonW of jsonw.hpp: from tokens to a value, from a value to a text.     *)
(*                                                                         *)
(* A value is a tree: its members and elements are values.                 *)
(***************************************************************************)
EXTENDS JsonToken, FiniteSets, JsonValue
LOCAL INSTANCE SequencesExt

CONSTANT Narrow  \* the longest text of a value that is put on one line

ScalarType == [t \in {"NumberInteger", "NumberFloat", "String", "Boolean", "Null"} |->
                 CASE t = "NumberInteger" -> "INTEGER" [] t = "NumberFloat" -> "FLOAT"
                   [] t = "String" -> "STRING" [] t = "Boolean" -> "BOOLEAN" [] OTHER -> "NULLVALUE"]

(* size() *)
Size(v) ==
  CASE v.type = "OBJECT" -> Cardinality(DOMAIN v.members)
    [] v.type = "ARRAY" -> Len(v.elems)
    [] v.type \in {"BAD", "NULLVALUE"} -> 0
    [] OTHER -> 1

---------------------------------------------------------------------------
(* Reading. *)

(* What jobject and jarray return: whether they ended well, what they      *)
(* filled, and the tokens they left.                                       *)
Filled(ok, content, rest) == [ok |-> ok, content |-> content, rest |-> rest]

Begins(tokens, type) == tokens # <<>> /\ tokens[1].type = type

WithoutComma(tokens) == IF Begins(tokens, "Comma") THEN Tail(tokens) ELSE tokens

RECURSIVE ParseValue(_), ParseObject(_, _), ParseArray(_, _)

(* JsonW::parse.  With no token at all the type is BAD, but clean() has    *)
(* set valid_ and nothing resets it.                                       *)
ParseValue(tokens) ==
  LET type == IF tokens = <<>> THEN "" ELSE tokens[1].type
      Open == IF Len(tokens) < 2 THEN <<>> ELSE Tail(tokens)
      obj == ParseObject(Open, NoMembers)
      arr == ParseArray(Open, <<>>)
      Outcome(v, rest) == [value |-> v, rest |-> rest]
  IN CASE type = "" -> Outcome(Value("BAD", TRUE, <<>>, NoMembers, <<>>), tokens)
       [] type = "LeftCurlyBracket" ->
            Outcome(Value(IF obj.ok THEN "OBJECT" ELSE "BAD", obj.ok, <<>>, obj.content, <<>>), obj.rest)
       [] type = "LeftSquareBracket" ->
            Outcome(Value(IF arr.ok THEN "ARRAY" ELSE "BAD", arr.ok, <<>>, NoMembers, arr.content), arr.rest)
       [] type \in DOMAIN ScalarType -> Outcome(Scalar(ScalarType[type], tokens[1].value), Tail(tokens))
       [] OTHER -> Outcome(Value("BAD", FALSE, <<>>, NoMembers, <<>>), tokens)

(* After the '{' and the members read so far.  The comma is optional.      *)
ParseObject(tokens, members) ==
  LET key == tokens[1].value
      v == ParseValue(From(tokens, 2))
  IN IF Begins(tokens, "RightCurlyBracket") THEN Filled(TRUE, members, Tail(tokens))
     ELSE IF ~Begins(tokens, "String") THEN Filled(FALSE, members, tokens)
     ELSE IF \/ key = <<>> \/ key \in DOMAIN members
             \/ ~Begins(Tail(tokens), "Colon") \/ Len(tokens) = 2
             \/ ~v.value.valid
     THEN Filled(FALSE, members, tokens)
     ELSE ParseObject(WithoutComma(v.rest),
                      [k \in DOMAIN members \cup {key} |-> IF k = key THEN v.value ELSE members[k]])

(* MUTANT of ParseArray: the element before the ']' is not pushed. *)
X_ParseArrayDrops(tokens, elems) ==
  LET v == ParseValue(tokens)
  IN IF Begins(tokens, "RightSquareBracket") THEN Filled(TRUE, elems, Tail(tokens))
     ELSE IF tokens = <<>> \/ ~v.value.valid THEN Filled(FALSE, elems, tokens)
     ELSE IF Begins(v.rest, "Comma") THEN ParseArray(Tail(v.rest), Append(elems, v.value))
     ELSE Filled(Begins(v.rest, "RightSquareBracket"), elems, IF v.rest = <<>> THEN <<>> ELSE Tail(v.rest))

(* MUTANT of ParseArray: the end of the tokens ends the array, too. *)
X_ParseArrayToTheEnd(tokens, elems) ==
  LET v == ParseValue(tokens)
      more == Append(elems, v.value)
  IN IF tokens = <<>> \/ Begins(tokens, "RightSquareBracket") THEN Filled(TRUE, elems, WithoutComma(tokens))
     ELSE IF ~v.value.valid THEN Filled(FALSE, elems, tokens)
     ELSE IF Begins(v.rest, "Comma") THEN ParseArray(Tail(v.rest), more)
     ELSE Filled(Begins(v.rest, "RightSquareBracket"), more, IF v.rest = <<>> THEN <<>> ELSE Tail(v.rest))

(* After the '[' and the elements read so far.  A comma may be the last.   *)
ParseArray(tokens, elems) ==
  LET v == ParseValue(tokens)
      more == Append(elems, v.value)
  IN IF Begins(tokens, "RightSquareBracket") THEN Filled(TRUE, elems, Tail(tokens))
     ELSE IF tokens = <<>> \/ ~v.value.valid THEN Filled(FALSE, elems, tokens)
     ELSE IF Begins(v.rest, "Comma") THEN ParseArray(Tail(v.rest), more)
     ELSE Filled(Begins(v.rest, "RightSquareBracket"), more, IF v.rest = <<>> THEN <<>> ELSE Tail(v.rest))

(* The constructors from a text, and json(): init(). *)
Read(text) == ParseValue(Tokens(text, <<>>)).value

(* What a caller that asks for valid() and the type takes.  Not all ask for
   both: worldmap.cpp:115 asks for valid() only, loginserver.cpp:64 and
   gameserver.cpp:217 use the value as it is. *)
Accepted(v) == v.valid /\ v.type # "BAD"

---------------------------------------------------------------------------
(* Writing. *)

Letters == [c \in {Quote, Backslash, "/", "backspace", "\f", EOL, "\r", "\t"} |->
              CASE c = "backspace" -> "b" [] c = "\f" -> "f" [] c = EOL -> "n"
                [] c = "\r" -> "r" [] c = "\t" -> "t" [] OTHER -> c]

(* MUTANT of StringText: the backslash is not escaped. *)
X_StringTextQuoteOnly(str) ==
  <<Quote>> \o FoldLeft(LAMBDA s, c : s \o (IF c = Quote THEN <<Backslash, c>> ELSE <<c>>), <<>>, str) \o <<Quote>>

(* wss_string *)
StringText(str) ==
  LET Escaped(c) == IF c \in DOMAIN Letters THEN <<Backslash, Letters[c]>> ELSE <<c>>
  IN <<Quote>> \o FoldLeft(LAMBDA s, c : s \o Escaped(c), <<>>, str) \o <<Quote>>

Repeat(c, n) == [i \in 1..n |-> c]

(* std::to_wstring of a fraction: six decimals.  Those after the sixth are *)
(* cut off here; the rounding of the last one is not modelled.             *)
FracText(value) ==
  LET sign == IF value[1] = "-" THEN <<"-">> ELSE <<>>
      abs == From(value, Len(sign))
      mark == SelectInSeq(abs, LAMBDA c : c = "e")
      digits == IF mark = 0 THEN <<>> ELSE SubSeq(abs, 1, mark - 1)
      exp == From(abs, mark)
      exponent == IF mark = 0 THEN 0
                  ELSE IF exp[1] = "-" THEN -ValueOf(Tail(exp)) ELSE ValueOf(exp)
      point == Len(digits) + exponent
      whole == IF point <= 0 THEN <<"0">>
               ELSE SubSeq(digits, 1, IF exponent < 0 THEN point ELSE Len(digits)) \o Repeat("0", exponent)
      frac == IF point <= 0 THEN Repeat("0", -point) \o digits ELSE From(digits, point)
  IN sign \o whole \o <<".">> \o SubSeq(frac \o Repeat("0", 6), 1, 6)

(* wss_intent, one blank for the four of a level *)
Indent(level) == Repeat(" ", level)

Keys(v) == SetToSeq(DOMAIN v.members)

RECURSIVE Text(_, _, _), ObjectText(_, _, _, _), ArrayText(_, _, _, _)

(* wss_jvalue *)
Text(v, singleline, level) ==
  LET line == ArrayText(v, TRUE, 0, FALSE)
  IN CASE ~v.valid \/ v.type = "BAD" -> <<>>
       [] v.type = "FLOAT" -> FracText(v.value)
       [] v.type = "NULLVALUE" -> <<"n", "u", "l", "l">>
       [] v.type = "STRING" -> StringText(v.value)
       [] v.type = "OBJECT" -> ObjectText(v, singleline, IF singleline THEN 0 ELSE level, FALSE)
       [] v.type = "ARRAY" -> IF singleline \/ Len(line) <= Narrow THEN line ELSE ArrayText(v, FALSE, level, FALSE)
       [] OTHER -> v.value

OneLine(v) == Text(v, TRUE, 0)

Lines(singleline) == IF singleline THEN <<>> ELSE <<EOL>>

(* MUTANT of Close: addcomma is not looked at. *)
X_CloseNoComma(bracket, singleline, level, addcomma) ==
  IF singleline THEN <<bracket>> ELSE Indent(level) \o <<bracket>> \o <<EOL>>

Close(bracket, singleline, level, addcomma) ==
  IF singleline THEN <<bracket>>
  ELSE Indent(level) \o <<bracket>> \o (IF addcomma THEN <<",">> ELSE <<>>) \o <<EOL>>

(* wss_jobject.  A member that takes lines of its own writes the comma     *)
(* after itself, unless it is the last: that one is put on a line.         *)
ObjectText(v, singleline, level, addcomma) ==
  LET keys == Keys(v)
      plus == IF singleline THEN 0 ELSE level + 1
      Nested(m) == /\ ~singleline
                   /\ \/ m.type = "OBJECT" /\ Size(m) > 1
                      \/ /\ m.type = "ARRAY"
                         /\ \/ \E i \in DOMAIN m.elems : m.elems[i].type \in {"ARRAY", "OBJECT"}
                            \/ Len(OneLine(m)) > Narrow
      Member(i) ==
        LET m == v.members[keys[i]]
            comma == IF i < Len(keys) THEN <<",">> ELSE <<>>
        IN Indent(plus) \o StringText(keys[i]) \o <<":">>
           \o (IF Nested(m) THEN <<EOL>> ELSE <<>>)
           \o IF ~Nested(m) THEN OneLine(m) \o comma \o Lines(singleline)
              ELSE IF i = Len(keys) THEN OneLine(m) \o Lines(singleline)
              ELSE IF m.type = "OBJECT" THEN ObjectText(m, singleline, plus, TRUE)
              ELSE ArrayText(m, singleline, plus, TRUE)
  IN Indent(level) \o <<"{">> \o Lines(singleline)
     \o FlattenSeq([i \in 1..Len(keys) |-> Member(i)]) \o Close("}", singleline, level, addcomma)

(* wss_jarray *)
ArrayText(v, singleline, level, addcomma) ==
  LET plus == IF singleline THEN 0 ELSE level + 1
      Element(i) ==
        LET e == v.elems[i]
            more == i < Len(v.elems)
            wide == Len(OneLine(e)) > Narrow
        IN IF ~singleline /\ e.type = "OBJECT" /\ (Size(e) > 1 \/ wide)
           THEN ObjectText(e, singleline, plus, more)
           ELSE IF ~singleline /\ e.type = "ARRAY" /\ wide
           THEN ArrayText(e, singleline, plus, more)
           ELSE Indent(plus) \o OneLine(e) \o (IF more THEN <<",">> ELSE <<>>) \o Lines(singleline)
  IN Indent(level) \o <<"[">> \o Lines(singleline)
     \o FlattenSeq([i \in 1..Len(v.elems) |-> Element(i)]) \o Close("]", singleline, level, addcomma)
=============================================================================
