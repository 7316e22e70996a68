------------------------------- MODULE World -------------------------------
(***************************************************************************)
(* octillion::World: the event queue filled by the network threads, the    *)
(* players in the world, and the tick that the main thread runs.           *)
(*                                                                         *)
(* add_event locks mutex_ for one push; tick holds mutex_ while it drains  *)
(* the whole queue.  The other threads run while tick does, as long as     *)
(* they do not need mutex_, so a tick is several steps here: TickBegin,    *)
(* one Event... step per event popped, TickEnd.  Every reply goes through  *)
(* GameServer::sendpacket into Server's out_data_, which Deliver empties.  *)
(***************************************************************************)
EXTENDS CubeGrid, Sequences

CONSTANTS
  Player,   \* player ids the login server gives out
  Fd,       \* file descriptors of the game server's client sockets
  cubes_,   \* positions of the cubes of the map
  exits_,   \* exits_[c][dir]: attribute of the exit of c towards dir, 0 = none
  reborn_,  \* position where a player enters
  MaxQueue  \* bound on the events and replies in flight, a guard of NetworkThread

ASSUME PlayerAssumption == Player \subseteq Nat \ {0}
ASSUME MapAssumption == /\ cubes_ \subseteq Position
                        /\ exits_ \in [cubes_ -> [ExitDir -> Nat]]
                        /\ reborn_ \in cubes_
ASSUME MaxQueueAssumption == MaxQueue \in Nat

VARIABLES
  equeue_,   \* events waiting for the next tick, oldest first
  players_,  \* the players in the world: id |-> [loc_, fd_]
  mutex_,    \* who holds World::mutex_: nobody or the tick
  out_data_  \* replies handed to the Server, oldest first

worldVars == <<equeue_, players_, mutex_, out_data_>>

-----------------------------------------------------------------------------
(* Event types, with the codes of event.hpp. *)

NO_CMD == 0   \* GameServer's own error replies carry a result and no cmd
TYPE_PLAYER_LOGIN == 2
TYPE_PLAYER_ERR_ALREADY_LOGIN == 6
TYPE_PLAYER_CONNECT_WORLD == 8
TYPE_PLAYER_DISCONNECT_WORLD == 9
TYPE_PLAYER_LOCATION == 17
TYPE_CMD_MOVE_OFFSET == 100
TYPE_ERROR_PLAYER_LOST == 901
TYPE_ERROR_NO_EXIT == 902

MoveType == {TYPE_CMD_MOVE_OFFSET + dir : dir \in WalkDir}

(* World::valid_event: the types the world handles. *)
ValidType ==
  {TYPE_PLAYER_CONNECT_WORLD, TYPE_PLAYER_DISCONNECT_WORLD} \cup MoveType

Event == [type_ : ValidType, id_ : Player, fd_ : Fd]

ReplyType ==
  MoveType \cup {NO_CMD, TYPE_PLAYER_LOGIN, TYPE_PLAYER_ERR_ALREADY_LOGIN,
                 TYPE_PLAYER_LOCATION, TYPE_ERROR_PLAYER_LOST, TYPE_ERROR_NO_EXIT}

Packet ==
  [fd : Fd, type : ReplyType, loc : cubes_ \cup {NoCube}, closefd : BOOLEAN]

Presence == [loc_ : cubes_, fd_ : Fd]

-----------------------------------------------------------------------------
WorldInit ==
  /\ equeue_ = <<>>
  /\ players_ = [p \in {} |-> NoCube]
  /\ mutex_ = "free"
  /\ out_data_ = <<>>

(* World::add_event, called by the network threads. *)
AddEvent(event) ==
  /\ mutex_ = "free"
  /\ equeue_' = Append(equeue_, event)

(* World::send and the sendpacket below it: the reply joins out_data_.     *)
Send(fd, type, loc, closefd) ==
  out_data_' = Append(out_data_, [fd |-> fd, type |-> type, loc |-> loc,
                                  closefd |-> closefd])

(* tick() locks mutex_ ... *)
TickBegin ==
  /\ mutex_ = "free"
  /\ mutex_' = "tick"
  /\ UNCHANGED <<equeue_, players_, out_data_>>

(* ... and unlocks it once the queue is empty. *)
TickEnd ==
  /\ mutex_ = "tick"
  /\ equeue_ = <<>>
  /\ mutex_' = "free"
  /\ UNCHANGED <<equeue_, players_, out_data_>>

(* MUTANT of Pop: front() without pop(). *)
Pop_KeepsFront(event) ==
  /\ mutex_ = "tick"
  /\ equeue_ # <<>>
  /\ event = Head(equeue_)
  /\ UNCHANGED <<equeue_, mutex_>>

(* The front event is popped by the tick. *)
Pop(event) ==
  /\ mutex_ = "tick"
  /\ equeue_ # <<>>
  /\ event = Head(equeue_)
  /\ equeue_' = Tail(equeue_)
  /\ UNCHANGED mutex_

(* A player's command finds the player, or the fd is told and closed.  The *)
(* reply carries the command's own type: tick() builds an event of type    *)
(* TYPE_ERROR_PLAYER_LOST and then serialises the command instead.         *)
EventLost(event) ==
  /\ event.type_ \in MoveType
  /\ event.id_ \notin DOMAIN players_
  /\ Send(event.fd_, event.type_, NoCube, TRUE)
  /\ UNCHANGED players_

(* MUTANT of InWorld: a connect that does not look for the player. *)
InWorld_Unchecked(id) == FALSE

InWorld(id) == id \in DOMAIN players_

(* MUTANT of Newcomer: loc_ is left null. *)
Newcomer_Nowhere(event) == [loc_ |-> NoCube, fd_ |-> event.fd_]

(* The Player object event_connect makes. *)
Newcomer(event) == [loc_ |-> reborn_, fd_ |-> event.fd_]

EventConnect(event) ==
  /\ event.type_ = TYPE_PLAYER_CONNECT_WORLD
  /\ \/ /\ InWorld(event.id_)
        /\ Send(event.fd_, TYPE_PLAYER_ERR_ALREADY_LOGIN, NoCube, TRUE)
        /\ UNCHANGED players_
     \/ /\ ~InWorld(event.id_)
        /\ players_' = [p \in DOMAIN players_ \cup {event.id_} |->
                          IF p = event.id_ THEN Newcomer(event) ELSE players_[p]]
        /\ Send(event.fd_, TYPE_PLAYER_LOGIN, reborn_, FALSE)

(* The player leaves whichever fd the event came from. *)
EventDisconnect(event) ==
  /\ event.type_ = TYPE_PLAYER_DISCONNECT_WORLD
  /\ players_' = [p \in DOMAIN players_ \ {event.id_} |-> players_[p]]
  /\ UNCHANGED out_data_

(* MUTANT of Passable: the exit is not looked at. *)
Passable_AnyWall(c, dir) == Find(cubes_, c, dir) # NoCube

(* The exit of cube c towards dir is open and there is a cube behind it.   *)
Passable(c, dir) ==
  /\ Find(cubes_, c, dir) # NoCube
  /\ exits_[c][dir] # 0

EventMove(event) ==
  /\ event.type_ \in MoveType
  /\ event.id_ \in DOMAIN players_
  /\ LET dir == event.type_ - TYPE_CMD_MOVE_OFFSET
         c_from == players_[event.id_].loc_
         c_to == Find(cubes_, c_from, dir)
     IN \/ /\ ~Passable(c_from, dir)
           /\ Send(event.fd_, TYPE_ERROR_NO_EXIT, NoCube, FALSE)
           /\ UNCHANGED players_
        \/ /\ Passable(c_from, dir)
           /\ players_' = [players_ EXCEPT ![event.id_].loc_ = c_to]
           /\ Send(event.fd_, TYPE_PLAYER_LOCATION, c_to, FALSE)

(* One turn of the tick's loop. *)
Handle ==
  \E event \in Event :
    /\ Pop(event)
    /\ \/ EventLost(event)
       \/ EventConnect(event)
       \/ EventDisconnect(event)
       \/ EventMove(event)

Tick == TickBegin \/ Handle \/ TickEnd

-----------------------------------------------------------------------------
(* The world alone: any client of add_event, and a server that takes the   *)
(* replies away.                                                           *)

NetworkThread ==
  /\ Len(equeue_) + Len(out_data_) < MaxQueue
  /\ \E event \in Event : AddEvent(event)
  /\ UNCHANGED <<players_, mutex_, out_data_>>

Deliver ==
  /\ out_data_ # <<>>
  /\ out_data_' = Tail(out_data_)
  /\ UNCHANGED <<equeue_, players_, mutex_>>

WorldNext == NetworkThread \/ Tick \/ Deliver

WorldSpec == WorldInit /\ [][WorldNext]_worldVars

(* The main loop calls tick() for ever and a tick never blocks once it has *)
(* the mutex; the server's loop keeps draining out_data_.                  *)
WorldFairness == WF_worldVars(Tick) /\ WF_worldVars(Deliver)

WorldFairSpec == WorldSpec /\ WorldFairness

-----------------------------------------------------------------------------
(* Every player in the world stands in a cube of the map. *)
PlayersTypeOK ==
  /\ DOMAIN players_ \subseteq Player
  /\ players_ \in [DOMAIN players_ -> Presence]

(* The variables have their types. *)
WorldTypeOK ==
  /\ equeue_ \in Seq(Event)
  /\ PlayersTypeOK
  /\ mutex_ \in {"free", "tick"}
  /\ out_data_ \in Seq(Packet)

(* The cubes one walks to from c: an open exit, and a cube behind it. *)
BehindExits(c) ==
  {Step(c, dir) : dir \in {d \in WalkDir : exits_[c][d] # 0}} \cap cubes_

(* S holds the entry cube and every cube an open exit of S leads to. *)
ClosedUnderExits(S) ==
  /\ reborn_ \in S
  /\ \A c \in S : BehindExits(c) \subseteq S

(* Whatever is queued, a player only ever stands where a walk from the     *)
(* entry cube through open exits leads: event_move checks both the exit    *)
(* and the cube behind it, and nothing else sets loc_.                     *)
PlayersReachable ==
  \A S \in SUBSET cubes_ :
    ClosedUnderExits(S) => \A p \in DOMAIN players_ : players_[p].loc_ \in S

CubesBehind == [c \in cubes_ |-> BehindExits(c)]

Abstract == INSTANCE PlayerPresence
  WITH Person <- Player, Connection <- Fd, EntryCube <- reborn_,
       Behind <- CubesBehind, presence <- players_

(* The queue, the mutex and the two maps implement the promise of          *)
(* PlayerPresence: one presence per player, bound to the connection that   *)
(* entered, moved only through open exits.                                 *)
PresenceKept == Abstract!Spec

(* Every event is handled: tick drains the queue while it holds mutex_, so *)
(* the network threads cannot feed it for ever.                            *)
QueueDrains == (equeue_ # <<>>) ~> (equeue_ = <<>>)

=============================================================================
