------------------------------ MODULE CubeGrid ------------------------------
(***************************************************************************)
(* The geometry of the cube map: positions, the ten directions and the     *)
(* helpers of CubePosition and Cube that relate two positions.             *)
(*                                                                         *)
(* Each axis is an unsigned machine word, so it wraps: the word has        *)
(* AxisSize values (2^64 for uint_fast32_t on the 64-bit build, a handful  *)
(* in the model-checking runs).  Everything here is pure; the state        *)
(* machines that use it are World and its clients.                         *)
(***************************************************************************)
EXTENDS Integers

CONSTANT AxisSize

ASSUME AxisSizeAssumption == AxisSize \in Nat /\ AxisSize > 2

Axis == 0 .. AxisSize - 1

Position == Axis \X Axis \X Axis

(* The null shared_ptr<Cube>. *)
NoCube == <<>>

-----------------------------------------------------------------------------
(* Direction codes: they index exits_ and are offset by 100 in a command.  *)

Y_DEC == 0
X_INC == 1
Y_INC == 2
X_DEC == 3
Z_INC == 4
Z_DEC == 5
X_INC_Y_INC == 6
X_INC_Y_DEC == 7
X_DEC_Y_INC == 8
X_DEC_Y_DEC == 9

(* The six directions a player may walk. *)
WalkDir == 0 .. 5

(* All the indices of exits_ (TOTAL_EXIT of them). *)
ExitDir == 0 .. 9

Inc(a) == IF a = AxisSize - 1 THEN 0 ELSE a + 1

Dec(a) == IF a = 0 THEN AxisSize - 1 ELSE a - 1

(* The position one step from p towards dir. *)
Step(p, dir) ==
  CASE dir = X_INC -> <<Inc(p[1]), p[2], p[3]>>
    [] dir = Y_INC -> <<p[1], Inc(p[2]), p[3]>>
    [] dir = Z_INC -> <<p[1], p[2], Inc(p[3])>>
    [] dir = X_DEC -> <<Dec(p[1]), p[2], p[3]>>
    [] dir = Y_DEC -> <<p[1], Dec(p[2]), p[3]>>
    [] dir = Z_DEC -> <<p[1], p[2], Dec(p[3])>>
    [] dir = X_INC_Y_INC -> <<Inc(p[1]), Inc(p[2]), p[3]>>
    [] dir = X_INC_Y_DEC -> <<Inc(p[1]), Dec(p[2]), p[3]>>
    [] dir = X_DEC_Y_INC -> <<Dec(p[1]), Inc(p[2]), p[3]>>
    [] dir = X_DEC_Y_DEC -> <<Dec(p[1]), Dec(p[2]), p[3]>>
    [] OTHER -> p

(* Cube::find: the cube one step from p, or null when the map has none.    *)
Find(cubes, p, dir) ==
  IF dir \in ExitDir /\ Step(p, dir) \in cubes THEN Step(p, dir) ELSE NoCube

=============================================================================
