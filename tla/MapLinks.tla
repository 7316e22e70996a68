------------------------------ MODULE MapLinks ------------------------------
(***************************************************************************)
(* Links between cubes: Cube::opposite_dir, Cube::dir, Cube::addlink and   *)
(* Area::addlink.                                                          *)
(*                                                                         *)
(* A cube object is named <<file, position>>: the area file that made it   *)
(* and its place.  Two files may each have an object for one place.        *)
(***************************************************************************)
EXTENDS CubeGrid

NoDir == -1

EXIT_NORMAL == 1

(* The place of a cube object. *)
Place(cube) == cube[2]

(* Cube::opposite_dir. *)
opposite_dir(dir) ==
  CASE dir = X_INC -> X_DEC
    [] dir = Y_INC -> Y_DEC
    [] dir = Z_INC -> Z_DEC
    [] dir = X_DEC -> X_INC
    [] dir = Y_DEC -> Y_INC
    [] dir = Z_DEC -> Z_INC
    [] OTHER -> 0

(* Cube::dir: -1 for places that are not neighbours along an axis. *)
DirTo(from, to) ==
  CASE from[1] = to[1] /\ from[2] = to[2] ->
         IF Inc(from[3]) = to[3] THEN Z_INC ELSE IF Dec(from[3]) = to[3] THEN Z_DEC ELSE NoDir
    [] from[1] = to[1] /\ from[2] # to[2] /\ from[3] = to[3] ->
         IF Inc(from[2]) = to[2] THEN Y_INC ELSE IF Dec(from[2]) = to[2] THEN Y_DEC ELSE NoDir
    [] from[1] # to[1] /\ from[2] = to[2] /\ from[3] = to[3] ->
         IF Inc(from[1]) = to[1] THEN X_INC ELSE IF Dec(from[1]) = to[1] THEN X_DEC ELSE NoDir
    [] OTHER -> NoDir

(* The exit of from that Cube::addlink sets for a link to to. *)
LinkDir(from, to) ==
  IF to = Step(from, X_INC) THEN X_INC
  ELSE IF to = Step(from, X_DEC) THEN X_DEC
  ELSE IF to = Step(from, Y_INC) THEN Y_INC
  ELSE IF to = Step(from, Y_DEC) THEN Y_DEC
  ELSE IF to = Step(from, Z_INC) THEN Z_INC
  ELSE IF to = Step(from, Z_DEC) THEN Z_DEC
  ELSE NoDir

(* Cube::addlink returns true. *)
CanLink(a, b) == LinkDir(Place(a), Place(b)) # NoDir

(* exits_ after Cube::addlink of a to b. *)
Opened(exits, a, b, attr) ==
  IF CanLink(a, b) THEN [exits EXCEPT ![a][LinkDir(Place(a), Place(b))] = attr] ELSE exits

(* MUTANT of AddLink: a two-way link opens the way there twice. *)
X_AddLinkOneEnd(exits, twoway, a, b, attr) == Opened(exits, a, b, attr)

(* exits_ after Area::addlink: the way back is opened after the way there, if
   that one could be. *)
AddLink(exits, twoway, a, b, attr) ==
  LET there == Opened(exits, a, b, attr)
  IN IF twoway /\ CanLink(a, b) THEN Opened(there, b, a, attr) ELSE there


=============================================================================
