---------------------------- MODULE MCWorldMap ----------------------------
(***************************************************************************)
(* Pairs of area files and lists of global links over axes of eight, with  *)
(* ints of four values (-2 .. 1): regular areas, areas that overlap, that  *)
(* take each other's id, with bad entries of every kind the loader looks   *)
(* for, and of those it does not survive.  MCMapClient loads them all.     *)
(***************************************************************************)
EXTENDS WorldMap, TLC

At(x, y, z) == [loc |-> <<x, y, z>>]

Link(type, from, to) == [type |-> type, from |-> from, to |-> to]

Text(n) == <<[id |-> n, text |-> "t"]>>

Area(id, offset, cubes, links) ==
  [id |-> id, title |-> 1, strings |-> Text(1), offset |-> offset, cubes |-> cubes, links |-> links]

(* A square, with marks and, in one cube, letters. *)
Square(letters) ==
  <<At(0, 0, 0) @@ [mark |-> "a"], At(1, 0, 0) @@ [exits |-> letters],
    At(1, 1, 0) @@ [mark |-> "c"], At(0, 1, 0)>>

SquareLinks(type) ==
  <<Link("2way", [mark |-> "a"], At(1, 0, 0)), Link("2way", At(1, 0, 0), [mark |-> "c"]),
    Link(type, [mark |-> "c"], At(0, 1, 0))>>

First ==
  {Area(1, <<0, 0, 0>>, Square(letters), SquareLinks(type)) :
     letters \in {{}, {X_INC, Z_DEC}}, type \in {"2way", "1way"}}
  \cup {Area(1, <<-1, -1, 0>>, Square({}), SquareLinks("2way"))}
  \cup {Area(1, <<3, 0, 0>>, Square({}), links) :
          links \in {<<>>,
                     <<Link("2way", [mark |-> "a"], [mark |-> "c"])>>,
                     <<Link("2way", [mark |-> "a"], At(0, 3, 0))>>,
                     <<Link("2way", [mark |-> "z"], At(0, 0, 0))>>,
                     <<Link("2way", [mark |-> "a"], At(1, 0, 0)) @@ [attr |-> {"nomob"}]>>,
                     <<Link("1way", At(0, 0, 0), At(0, 1, 0)),
                       Link("2way", At(0, 1, 0), At(0, 0, 0)) @@ [attr |-> {"nomob", "nonpc"}]>>}}
  \cup {Area(1, <<0, 0, 0>>, Square({}), <<>>) @@ [mobs |-> <<[id |-> m, name |-> "cow"]>>] : m \in {2, 4}}
  \cup {Area(1, <<0, 0, 0>>, cubes, <<>>) :
          cubes \in {<<At(0, 0, 0), At(0, 0, 0)>>,
                     <<At(0, 0, 0) @@ [mark |-> "a"], At(0, 1, 0) @@ [mark |-> "a"]>>,
                     <<At(0, 0, 0) @@ [mark |-> "a@"]>>, <<[mark |-> "a"]>>,
                     <<At(0, 0, 0) @@ [mark |-> ""]>>}}

(* A corridor beside, above or across the square, also under its id. *)
Corridor == <<At(0, 0, 0) @@ [mark |-> "b"], At(1, 0, 0)>>

Second ==
  {Area(id, offset, Corridor, <<Link("2way", [mark |-> "b"], At(1, 0, 0))>>) :
     id \in {1, 2}, offset \in {<<2, 0, 0>>, <<1, 1, 0>>, <<2, 2, 0>>, <<0, 0, 3>>}}
  \cup {Area(2, <<0, 2, 0>>, Corridor, <<>>) @@ [mobs |-> mobs] :
          mobs \in {<<[id |-> 1, name |-> "rat"], [id |-> 1, name |-> "cat"]>>,
                    <<[id |-> 1, name |-> "rat"], [id |-> 0, refid |-> 1], [id |-> 2, name |-> "bat"]>>,
                    <<[id |-> 0, refid |-> 1]>>, <<[name |-> "rat"]>>}}
  \cup {Area(1, <<0, 2, 0>>, Corridor, <<>>) @@ [mobs |-> <<[id |-> 2, name |-> "rat"]>>]}
  \cup {[title |-> 1, strings |-> Text(1)], [strings |-> <<[id |-> 2]>>] @@ Area(2, <<0, 0, 2>>, Corridor, <<>>),
        Area(2, <<0, 0, 2>>, Corridor, <<>>) @@ [interactives |-> <<[id |-> 1, title |-> 2, loc |-> <<0, 0, 0>>]>>]}

Globals ==
  {<<>>,
   <<Link("2way", [area |-> 1, mark |-> "a"], [area |-> 2, mark |-> "b"])>>,
   <<Link("2way", [area |-> 1, mark |-> "b"], At(1, 0, 0) @@ [area |-> 0])>>,
   <<Link("2way", At(1, 0, 0), At(0, 0, 0) @@ [offset |-> <<2, 0, 0>>]),
     Link("2way", At(1, 1, 0), At(1, 2, 0))>>,
   <<Link("2way", At(3, 3, 3), At(0, 0, 0)), Link("2way", At(0, 0, 0), At(0, 0, 3))>>,
   <<Link("1way", At(1, 1, 0), At(0, 1, 0)) @@ [attr |-> {"nomob"}]>>,
   <<[from |-> At(1, 1, 0), to |-> At(0, 1, 0)]>>,
   <<Link("2way", [area |-> 1], At(0, 1, 0))>>}

(* Files that are not read to their end: an area file that cannot be parsed,
   scripts without actions, alone, in an interactive, or behind a refused one. *)
NoActions == [and |-> <<>>]

BadCondition == [and |-> <<[type |-> "equal"]>>]

Sign(title, scripts) == [id |-> 1, title |-> title, loc |-> <<0, 0, 0>>, scripts |-> scripts]

Heads ==
  {Nothing} \cup
  {Area(1, <<0, 0, 0>>, Square({}), <<>>) @@ more :
     more \in {[scripts |-> <<BadCondition, NoActions>>], [scripts |-> <<BadCondition>>],
               [interactives |-> <<Sign(1, <<NoActions>>)>>],
               [interactives |-> <<Sign(2, <<>>), Sign(1, <<NoActions>>)>>]}}

MapInputs ==
  {[config |-> config, reborn |-> <<0, 0, 0>>, links |-> links] :
     config \in {<<[id |-> 7, json |-> b], [id |-> 1, json |-> a]>> : a \in First, b \in Second}
                \cup {<<[id |-> 1, json |-> a]>> : a \in First},
     links \in Globals}
  \cup {[config |-> <<[id |-> 1, json |-> a]>>, reborn |-> <<0, 3, 0>>, links |-> <<>>] : a \in First}
  \cup {[config |-> <<[id |-> i, json |-> a], [id |-> 1, json |-> a]>>, links |-> <<>>] :
          i \in {0, 1}, a \in First}
  \cup {[config |-> <<[id |-> 1, json |-> a]>>, reborn |-> <<0, 0, 0>>, links |-> <<>>] : a \in Heads}
  \cup {[config |-> <<>>, reborn |-> <<0, 0, 0>>, links |-> <<>>, flaw |-> flaw] :
          flaw \in {"unreadable", "no stamp", "empty stamp", "no area", "bad entry"}}
=============================================================================
