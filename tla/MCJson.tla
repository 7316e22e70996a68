------------------------------- MODULE MCJson -------------------------------
(***************************************************************************)
(* What a peer may write, and what a program builds: either a text grows   *)
(* piece by piece, or the documents of two variables change.               *)
(***************************************************************************)
EXTENDS JsonReader, JsonDocument, TLC

CONSTANTS x1, x2, c1, c2, c3

---------------------------------------------------------------------------
(* The peer. *)

Numbers == {<<c>> : c \in {"0", "1", "-", ".", "e", "E"}}
Words == {<<"t", "r", "u">>, <<"e">>, <<"f", "a", "l", "s">>, <<"n", "u", "l", "l">>, <<" ">>, <<"[">>, <<"]">>, <<"x">>}
Strings == {<<Quote>>, <<Backslash>>, <<"n">>, <<"u", "0", "0", "4", "1">>, <<"/">>, <<EOL>>}
Arrays == {<<"[">>, <<"]">>, <<",">>, <<"1">>, <<"{">>, <<"}">>, <<"{", "}">>}
Objects ==
  LET a == <<Quote, "a", Quote>>
  IN {<<"{">> \o a \o <<":">>, <<Quote, "b", Quote, ":">>, <<",", Quote, "b", Quote, ":">>, <<",">>, <<"1">>, <<"}">>, a}

Nobody == {}   \* no text is written

MCPieces == {Numbers, Words, Strings, Arrays, Objects}
MCMaxPieces == Numbers :> 5 @@ Words :> 4 @@ Strings :> 5 @@ Arrays :> 5 @@ Objects :> 5

MCUnicode == <<"0", "0", "4", "1">> :> "A"

---------------------------------------------------------------------------
(* The program. *)

String == Scalar("STRING", <<Backslash, "n">>)

MCNames == {<<"a">>, <<Quote>>}
MCScalars == {String}
MCHanded == {HeapOf(String)}
MCParsed == {HeapOf(Read(chars)) : chars \in {<<"{", "1">>, <<"[", "t", "r", "u", "e", "]">>}}

MCSymmetry == Permutations({x1, x2}) \cup Permutations({c1, c2, c3})

---------------------------------------------------------------------------
MCInit ==
  /\ JsonInit
  /\ \/ ReaderInit
     \/ pieces = Nobody /\ text = <<>>

MCNext ==
  \/ /\ ReaderNext
     /\ UNCHANGED store
  \/ /\ pieces = Nobody
     /\ JsonNext
     /\ UNCHANGED <<pieces, text>>

MCSpec == MCInit /\ [][MCNext]_<<pieces, text, store>>
=============================================================================
