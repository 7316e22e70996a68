----------------------------- MODULE JsonReader -----------------------------
(***************************************************************************)
(* The texts a peer or a file may hold, one piece after another, and what  *)
(* JsonW reads in them.                                                    *)
(***************************************************************************)
EXTENDS JsonText
LOCAL INSTANCE SequencesExt

CONSTANTS Pieces,   \* sets of pieces: a text is made of the pieces of one set
          MaxPieces \* of each set, how many pieces a text has at most

VARIABLES pieces, \* the pieces of this text
          text    \* the text as a sequence of pieces

ReaderInit == pieces \in Pieces /\ text = <<>>

Type(piece) == /\ Len(text) < MaxPieces[pieces]
               /\ text' = Append(text, piece)
               /\ UNCHANGED pieces

ReaderNext == \E piece \in pieces : Type(piece)

ReaderSpec == ReaderInit /\ [][ReaderNext]_<<pieces, text>>

Chars == FlattenSeq(text)

---------------------------------------------------------------------------
(* The reference: the values a text has by the grammar of JSON, found by   *)
(* cutting it in every possible place.  Of the grammar's freedom it leaves *)
(* out what JsonW refuses or forgets on purpose: empty and repeated names, *)
(* numbers too long for their type, an exponent written with 'E' and one   *)
(* right after a zero.                                                     *)

RECURSIVE Trim(_)
Trim(s) == IF First(s, White) THEN Trim(Tail(s))
           ELSE IF s # <<>> /\ Last(s) \in White THEN Trim(Front(s)) ELSE s

IsDigits(s) == s # <<>> /\ \A i \in DOMAIN s : s[i] \in Digit

StandardNumber(s) ==
  LET sign == IF First(s, {"-"}) THEN <<"-">> ELSE <<>>
      b == From(s, Len(sign))
      Whole(i) == SubSeq(b, 1, i)
      Frac(i, j) == SubSeq(b, i + 2, j)
      Exp(j) == From(b, j + 1)
      Abs(e) == IF First(e, {"-", "+"}) THEN Tail(e) ELSE e
      Ten(j) == IF j = Len(b) THEN 0 ELSE (IF First(Exp(j), {"-"}) THEN -1 ELSE 1) * ValueOf(Abs(Exp(j)))
      Cuts == {c \in (1..Len(b)) \X (1..Len(b)) :
                 /\ c[1] <= c[2] /\ IsDigits(Whole(c[1])) /\ (b[1] = "0" => c[1] = 1 /\ (c[2] = 1 => Len(b) = 1))
                 /\ c[1] # c[2] => b[c[1] + 1] = "." /\ IsDigits(Frac(c[1], c[2]))
                 /\ c[2] # Len(b) => b[c[2] + 1] = "e" /\ IsDigits(Abs(Exp(c[2])))
                                    /\ Ten(c[2]) <= MaxExponent /\ ValueOf(Abs(Exp(c[2]))) <= MaxInt}
  IN {Scalar("INTEGER", IF b = <<"0">> THEN b ELSE s) : c \in {d \in Cuts : d[1] = Len(b) /\ Len(b) <= IntDigits}}
     \cup {Scalar("FLOAT", sign \o Normal(Whole(c[1]) \o Frac(c[1], c[2]), Ten(c[2]) - (IF c[1] = c[2] THEN 0 ELSE c[2] - c[1] - 1)))
            : c \in {d \in Cuts : d[1] # Len(b)}}

(* The words and the escapes are those of the grammar, spelt out.          *)
StandardWord(s) ==
  IF s = <<"t", "r", "u", "e">> \/ s = <<"f", "a", "l", "s", "e">> THEN {Scalar("BOOLEAN", s)}
  ELSE IF s = <<"n", "u", "l", "l">> THEN {NullValue} ELSE {}

RECURSIVE StandardChars(_)
StandardChars(s) ==
  IF s = <<>> THEN {<<>>}
  ELSE LET Then(char, n) == {<<char>> \o rest : rest \in StandardChars(From(s, n))}
       IN CASE s[1] \in {Quote, EOL, "\r"} -> {}
            [] s[1] # Backslash -> Then(s[1], 1)
            [] Len(s) > 1 /\ s[2] \in {Quote, Backslash} -> Then(s[2], 2)
            [] Len(s) > 1 /\ s[2] = "n" -> Then(EOL, 2)
            [] Len(s) > 5 /\ s[2] = "u" -> Then(Unicode[SubSeq(s, 3, 6)], 6)
            [] OTHER -> {}

StandardString(s) ==
  IF Len(s) > 1 /\ s[1] = Quote /\ Last(s) = Quote THEN StandardChars(SubSeq(s, 2, Len(s) - 1)) ELSE {}

RECURSIVE Standard(_), StandardElems(_), StandardMembers(_)

StandardElems(s) ==
  {<<v>> : v \in Standard(s)}
  \cup UNION {{Append(es, v) : es \in StandardElems(SubSeq(s, 1, i - 1)), v \in Standard(From(s, i))}
              : i \in {j \in DOMAIN s : s[j] = ","}}

StandardMembers(s) ==
  UNION {{[k \in {key} |-> v] : key \in StandardString(Trim(SubSeq(s, 1, i - 1))) \ {<<>>}, v \in Standard(From(s, i))}
         : i \in {j \in DOMAIN s : s[j] = ":"}}
  \cup UNION {{p[1] @@ p[2] : p \in {q \in StandardMembers(SubSeq(s, 1, i - 1)) \X StandardMembers(From(s, i)) :
                                      DOMAIN q[1] \cap DOMAIN q[2] = {}}}
              : i \in {j \in DOMAIN s : s[j] = ","}}

Standard(t) ==
  LET s == Trim(t)
      inner == SubSeq(s, 2, Len(s) - 1)
      Between(a, b) == Len(s) > 1 /\ s[1] = a /\ Last(s) = b
  IN StandardNumber(s) \cup StandardWord(s)
     \cup {Scalar("STRING", str) : str \in StandardString(s)}
     \cup (IF Between("[", "]")
           THEN {Value("ARRAY", TRUE, <<>>, NoMembers, es) :
                   es \in StandardElems(inner) \cup (IF Trim(inner) = <<>> THEN {<<>>} ELSE {})}
           ELSE {})
     \cup (IF Between("{", "}")
           THEN {Value("OBJECT", TRUE, <<>>, m, <<>>) :
                   m \in StandardMembers(inner) \cup (IF Trim(inner) = <<>> THEN {NoMembers} ELSE {})}
           ELSE {})
---------------------------------------------------------------------------
(* Properties. *)

(* A text that is JSON is read as the value it has by the grammar: the     *)
(* automaton for numbers, the escapes and the walk over the tokens refuse  *)
(* nothing and change nothing (jsonw.hpp, JsonTokenW and JsonW::parse).    *)
StandardRead == \A v \in Standard(Chars) : Read(Chars) = v

RECURSIVE SixDecimals(_)
(* to_wstring can write every fraction in v exactly. *)
SixDecimals(v) ==
  /\ v.type = "FLOAT" => Read(FracText(v.value)) = v
  /\ \A k \in DOMAIN v.members : SixDecimals(v.members[k])
  /\ \A i \in DOMAIN v.elems : SixDecimals(v.elems[i])

(* Whatever was accepted, standard or not, is written as a text that reads *)
(* as the same value, on one line and on many (text(), wtext()): a document *)
(* that went through the server once does not change when it goes again.   *)
Reread ==
  LET v == Read(Chars)
  IN Accepted(v) /\ SixDecimals(v) => Read(Text(v, TRUE, 0)) = v /\ Read(Text(v, FALSE, 0)) = v

(* The leniency of the reader is about commas and about what follows the   *)
(* value: up to there every other token is in the value, once.             *)
NothingLost ==
  LET tokens == Tokens(Chars, <<>>)
      parsed == ParseValue(tokens)
      Others(seq) == ToBag(SelectSeq(seq, LAMBDA t : t.type # "Comma"))
      read == SubSeq(tokens, 1, Len(tokens) - Len(parsed.rest))
  IN Accepted(parsed.value) /\ SixDecimals(parsed.value)
       => Others(read) = Others(Tokens(OneLine(parsed.value), <<>>))

=============================================================================
