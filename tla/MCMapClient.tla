---------------------------- MODULE MCMapClient ----------------------------
(***************************************************************************)
(* The maps that are walked: two areas, one on top of the other's stairs,  *)
(* with the scripts of the reincarnation chamber; a tower of four floors;  *)
(* and files whose letters or links lead off the map.  With them, and not  *)
(* walked, every map of MCWorldMap.                                        *)
(***************************************************************************)
EXTENDS MapClient, MCWorldMap

Way(from, to) == [from |-> from, to |-> to]

Texts3 == [i \in 1 .. 3 |-> [id |-> i, text |-> "t"]]

MoveCount(type, n) == [type |-> type, move_count |-> n]

Say(n) == [type |-> "text", string |-> n]

(* The scripts of data/id_10_reincarnation_chamber.json 59-90, the time cut
   to one second, with a text the area does not have before the last one. *)
ChamberScripts ==
  <<[or |-> <<MoveCount("greater", 0), MoveCount("equal", 0)>>, actions |-> <<[type |-> "reset_timer"]>>],
    [and |-> <<[type |-> "greater", timer |-> 1]>>, actions |-> <<Say(1), [type |-> "reset_timer"]>>],
    [and |-> <<MoveCount("equal", 0)>>, actions |-> <<Say(2)>>],
    [and |-> <<MoveCount("equal", 1)>>, actions |-> <<[type |-> "set", i01 |-> 1], Say(3), Say(9), Say(2)>>],
    [not |-> <<[type |-> "not_equal", b01 |-> FALSE], [type |-> "equal", i01 |-> 0]>>, actions |-> <<Say(9)>>]>>

(* Scripts the loader refuses stand between those it takes. *)
OtherScripts ==
  <<[and |-> <<[type |-> "equal", mark |-> "a"]>>, actions |-> <<Say(1)>>],
    [and |-> <<MoveCount("equal", 2)>>, actions |-> <<Say(2)>>],
    [and |-> <<>>, or |-> <<>>, actions |-> <<>>],
    [or |-> <<[type |-> "equal", loc |-> <<1, 0, 0>>], [type |-> "greater", i01 |-> 0]>>, actions |-> <<Say(1)>>],
    [and |-> <<[type |-> "less", timer |-> 1]>>, actions |-> <<Say(1)>>]>>

Scripted(id, offset, cubes, links, scripts) ==
  [id |-> id, title |-> 1, strings |-> Texts3, offset |-> offset, cubes |-> cubes, links |-> links,
   scripts |-> scripts]

Hall(letters) == <<At(0, 0, 0) @@ [mark |-> "a"], At(1, 0, 0) @@ [mark |-> "s", exits |-> letters]>>

HallLinks == <<Way([mark |-> "a"], [mark |-> "s"])>>

Landing == <<At(0, 0, 0) @@ [mark |-> "b"], At(1, 0, 0)>>

House(scripts) ==
  [config |-> <<[id |-> 1, json |-> Scripted(1, <<0, 0, 0>>, Hall({}), HallLinks, ChamberScripts)],
                [id |-> 2, json |-> Scripted(2, <<1, 0, 1>>, Landing, <<Way([mark |-> "b"], At(1, 0, 0))>>, scripts)]>>,
   reborn |-> <<0, 0, 0>>,
   links |-> <<Way([area |-> 1, mark |-> "s"], [area |-> 2, mark |-> "b"]) @@ [type |-> "2way"]>>]

One(area) == [config |-> <<[id |-> 1, json |-> area]>>, reborn |-> <<0, 0, 0>>, links |-> <<>>]

(* Floors -2 .. 1, the player coming in on the third. *)
Tower ==
  One(Scripted(1, <<0, 0, 0>>, <<At(0, 0, 0), At(1, 0, -2), At(1, 0, -1), At(1, 0, 0), At(1, 0, 1)>>,
               <<Way(At(0, 0, 0), At(1, 0, 0)), Way(At(1, 0, -2), At(1, 0, -1)),
                 Way(At(1, 0, -1), At(1, 0, 0)), Way(At(1, 0, 0), At(1, 0, 1))>>, ChamberScripts))

Walked ==
  {House(ChamberScripts), House(OtherScripts), Tower}
  \cup {One(Scripted(1, <<0, 0, 0>>, Hall(letters), HallLinks, OtherScripts)) : letters \in {{Z_DEC}, {Y_INC, X_INC}}}
  \cup {One(Scripted(1, <<0, 0, 0>>, Hall({}), HallLinks \o <<Way([mark |-> "s"], At(1, 0, 1))>>, <<>>)),
        [Tower EXCEPT !.reborn = <<2, 2, 2>>]}

MCInputs == MapInputs \cup Walked

MCMaxMoves == [input \in MCInputs |-> IF input \in Walked THEN 3 ELSE 0]
=============================================================================
