---------------------------- MODULE MCGameServer ----------------------------
(***************************************************************************)
(* GameServer over a world of one cube without exits: the map plays no     *)
(* part in sessions.                                                       *)
(***************************************************************************)
EXTENDS GameServer

MCCubes == {<<1, 1, 1>>}

MCReborn == <<1, 1, 1>>

MCExits == [c \in MCCubes |-> [dir \in ExitDir |-> 0]]

(* User n is player n. *)
MCPlayerOf == [u \in User |-> u]

=============================================================================
