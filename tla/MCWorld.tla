------------------------------ MODULE MCWorld ------------------------------
(***************************************************************************)
(* World on a map of four cubes at the edge of the grid: a two-way exit    *)
(* over the edge, where the axis wraps round, a cube above reached by a    *)
(* one-way exit, an open exit with no cube behind it, and a cube behind a  *)
(* wall (adjacent to the entry cube, no exit).                             *)
(***************************************************************************)
EXTENDS World

MCCubes == {<<3, 1, 1>>, <<0, 1, 1>>, <<0, 1, 2>>, <<2, 1, 1>>}

MCReborn == <<3, 1, 1>>

MCOpen ==
  {<< <<3, 1, 1>>, X_INC >>, << <<0, 1, 1>>, X_DEC >>, << <<0, 1, 1>>, Z_INC >>,
   << <<0, 1, 1>>, Y_INC >>}

MCExits ==
  [c \in MCCubes |-> [dir \in ExitDir |-> IF <<c, dir>> \in MCOpen THEN 1 ELSE 0]]

=============================================================================
