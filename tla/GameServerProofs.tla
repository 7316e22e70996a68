-------------------------- MODULE GameServerProofs --------------------------
(***************************************************************************)
(* Theorems about World and GameServer for any users, players, fds and     *)
(* map, any clients, and any bounds: that players stay on the map and      *)
(* implement PlayerPresence; the types a session is made of, that nothing  *)
(* acts for a player it was not verified for, that an authorised fd keeps  *)
(* its player, and that the whole process implements PlayerPresence.       *)
(***************************************************************************)
EXTENDS GameServer, ListProofs

-----------------------------------------------------------------------------
(* World by itself. *)

(* What Find returns is null or a cube of the map. *)
LEMMA FindInMap ==
  ASSUME NEW c \in cubes_, NEW dir, Passable(c, dir)
  PROVE  Find(cubes_, c, dir) \in cubes_
BY DEF Passable, Find

(* event_move leads to a cube behind an open exit. *)
LEMMA PassableBehind ==
  ASSUME NEW c \in cubes_, NEW dir \in WalkDir, Passable(c, dir)
  PROVE  Find(cubes_, c, dir) \in BehindExits(c)
<1>1. Find(cubes_, c, dir) = Step(c, dir) /\ Step(c, dir) \in cubes_
  BY DEF Passable, Find
<1>2. QED
  BY <1>1 DEF Passable, BehindExits

(* A walking direction is what the move code minus the offset gives. *)
LEMMA MoveTypeDir ==
  ASSUME NEW type \in MoveType
  PROVE  type - TYPE_CMD_MOVE_OFFSET \in WalkDir
BY DEF MoveType, WalkDir, TYPE_CMD_MOVE_OFFSET

LEMMA MoveTypeIsReply == MoveType \subseteq ReplyType
BY DEF ReplyType

(* A reply of a right type keeps out_data_ well typed. *)
LEMMA SendTyped ==
  ASSUME out_data_ \in Seq(Packet), NEW fd \in Fd, NEW type \in ReplyType,
         NEW loc \in cubes_ \cup {NoCube}, NEW closefd \in BOOLEAN,
         Send(fd, type, loc, closefd)
  PROVE  out_data_' \in Seq(Packet)
<1>1. [fd |-> fd, type |-> type, loc |-> loc, closefd |-> closefd] \in Packet
  BY DEF Packet
<1>2. QED
  BY <1>1 DEF Send

(* Popping keeps the rest of the queue well typed. *)
LEMMA PopTyped ==
  ASSUME equeue_ \in Seq(Event), NEW event, Pop(event)
  PROVE  equeue_' \in Seq(Event) /\ mutex_' = mutex_
BY DEF Pop

-----------------------------------------------------------------------------
LEMMA WorldTypeInit == WorldInit => WorldTypeOK
BY DEF WorldInit, WorldTypeOK, PlayersTypeOK

(* Each way of handling an event keeps the types of players_. *)
LEMMA HandlersKeepPlayers ==
  ASSUME PlayersTypeOK, NEW event \in Event,
         \/ EventLost(event) \/ EventConnect(event)
         \/ EventDisconnect(event) \/ EventMove(event)
  PROVE  PlayersTypeOK'
<1>0. event.id_ \in Player /\ event.fd_ \in Fd
  BY DEF Event
<1>1. CASE UNCHANGED players_
  BY <1>1 DEF PlayersTypeOK
<1>2. CASE EventConnect(event) /\ ~InWorld(event.id_)
  <2>1. Newcomer(event) \in Presence
    BY <1>0, MapAssumption DEF Newcomer, Presence
  <2>2. QED
    BY <1>0, <1>2, <2>1 DEF EventConnect, PlayersTypeOK
<1>3. CASE EventDisconnect(event)
  BY <1>3 DEF EventDisconnect, PlayersTypeOK
<1>4. CASE EventMove(event)
  <2>. DEFINE dir == event.type_ - TYPE_CMD_MOVE_OFFSET
              c_from == players_[event.id_].loc_
              c_to == Find(cubes_, c_from, dir)
  <2>1. c_from \in cubes_
    BY <1>4 DEF EventMove, PlayersTypeOK, Presence
  <2>2. CASE Passable(c_from, dir)
    <3>1. c_to \in cubes_
      BY <2>1, <2>2, FindInMap
    <3>2. players_' = [players_ EXCEPT ![event.id_].loc_ = c_to]
      BY <1>4, <2>2 DEF EventMove
    <3>3. QED
      BY <1>4, <3>1, <3>2 DEF EventMove, PlayersTypeOK, Presence
  <2>3. QED
    BY <1>1, <1>4, <2>2 DEF EventMove
<1>5. QED
  BY <1>1, <1>2, <1>3, <1>4 DEF EventLost, EventConnect

(* Each way of handling an event keeps the types of out_data_. *)
LEMMA HandlersReply ==
  ASSUME PlayersTypeOK, out_data_ \in Seq(Packet), NEW event \in Event,
         \/ EventLost(event) \/ EventConnect(event)
         \/ EventDisconnect(event) \/ EventMove(event)
  PROVE  out_data_' \in Seq(Packet)
<1>0. event.id_ \in Player /\ event.fd_ \in Fd
  BY DEF Event
<1>1. {TYPE_PLAYER_ERR_ALREADY_LOGIN, TYPE_PLAYER_LOGIN, TYPE_ERROR_NO_EXIT,
       TYPE_PLAYER_LOCATION} \subseteq ReplyType
  BY DEF ReplyType
<1>2. CASE EventLost(event)
  BY <1>0, <1>2, MoveTypeIsReply, SendTyped DEF EventLost
<1>3. CASE EventConnect(event)
  BY <1>0, <1>1, <1>3, SendTyped, MapAssumption DEF EventConnect
<1>4. CASE EventDisconnect(event)
  BY <1>4 DEF EventDisconnect
<1>5. CASE EventMove(event)
  <2>. DEFINE dir == event.type_ - TYPE_CMD_MOVE_OFFSET
              c_from == players_[event.id_].loc_
              c_to == Find(cubes_, c_from, dir)
  <2>1. c_from \in cubes_
    BY <1>5 DEF EventMove, PlayersTypeOK, Presence
  <2>2. CASE ~Passable(c_from, dir)
    BY <1>0, <1>1, <1>5, <2>2, SendTyped DEF EventMove
  <2>3. CASE Passable(c_from, dir)
    <3>1. c_to \in cubes_
      BY <2>1, <2>3, FindInMap
    <3>2. Send(event.fd_, TYPE_PLAYER_LOCATION, c_to, FALSE)
      BY <1>5, <2>3 DEF EventMove
    <3>3. QED
      BY <1>0, <1>1, <3>1, <3>2, SendTyped
  <2>4. QED
    BY <2>2, <2>3
<1>6. QED
  BY <1>2, <1>3, <1>4, <1>5

LEMMA WorldTypeStep == WorldTypeOK /\ [WorldNext]_worldVars => WorldTypeOK'
<1>. SUFFICES ASSUME WorldTypeOK, [WorldNext]_worldVars
              PROVE  WorldTypeOK'
  OBVIOUS
<1>1. CASE NetworkThread
  BY <1>1 DEF NetworkThread, AddEvent, WorldTypeOK, PlayersTypeOK
<1>2. CASE TickBegin
  BY <1>2 DEF TickBegin, WorldTypeOK, PlayersTypeOK
<1>3. CASE Handle
  <2>1. PICK event \in Event :
          /\ Pop(event)
          /\ \/ EventLost(event) \/ EventConnect(event)
             \/ EventDisconnect(event) \/ EventMove(event)
    BY <1>3 DEF Handle
  <2>2. equeue_' \in Seq(Event) /\ mutex_' \in {"free", "tick"}
    BY <2>1, PopTyped DEF WorldTypeOK
  <2>3. QED
    BY <2>1, <2>2, HandlersKeepPlayers, HandlersReply DEF WorldTypeOK
<1>4. CASE TickEnd
  BY <1>4 DEF TickEnd, WorldTypeOK, PlayersTypeOK
<1>5. CASE Deliver
  BY <1>5 DEF Deliver, WorldTypeOK, PlayersTypeOK
<1>6. CASE UNCHANGED worldVars
  BY <1>6 DEF worldVars, WorldTypeOK, PlayersTypeOK
<1>7. QED
  BY <1>1, <1>2, <1>3, <1>4, <1>5, <1>6 DEF WorldNext, Tick

(* Every variable of the world keeps its type: in particular every player  *)
(* in the world stands in a cube of the map, never on a null loc_.         *)
THEOREM WorldTypeCorrect == WorldSpec => []WorldTypeOK
BY WorldTypeInit, WorldTypeStep, PTL DEF WorldSpec

-----------------------------------------------------------------------------
LEMMA ReachableStep ==
  WorldTypeOK /\ PlayersReachable /\ [WorldNext]_worldVars => PlayersReachable'
<1>. SUFFICES ASSUME WorldTypeOK, PlayersReachable, [WorldNext]_worldVars,
                     NEW S \in SUBSET cubes_, ClosedUnderExits(S),
                     NEW p \in DOMAIN players_'
              PROVE  players_'[p].loc_ \in S
  BY DEF PlayersReachable, ClosedUnderExits, BehindExits
<1>1. CASE UNCHANGED players_
  BY <1>1 DEF PlayersReachable
<1>2. CASE Handle
  <2>1. PICK event \in Event :
          /\ Pop(event)
          /\ \/ EventLost(event) \/ EventConnect(event)
             \/ EventDisconnect(event) \/ EventMove(event)
    BY <1>2 DEF Handle
  <2>2. CASE EventConnect(event)
    <3>1. reborn_ \in S
      BY DEF ClosedUnderExits
    <3>2. Newcomer(event).loc_ = reborn_
      BY DEF Newcomer
    <3>3. QED
      BY <1>1, <2>2, <3>1, <3>2 DEF EventConnect, PlayersReachable
  <2>3. CASE EventDisconnect(event)
    BY <2>3 DEF EventDisconnect, PlayersReachable
  <2>4. CASE EventMove(event)
    <3>. DEFINE dir == event.type_ - TYPE_CMD_MOVE_OFFSET
                c_from == players_[event.id_].loc_
                c_to == Find(cubes_, c_from, dir)
    <3>1. CASE ~Passable(c_from, dir)
      BY <1>1, <2>4, <3>1 DEF EventMove
    <3>2. CASE Passable(c_from, dir)
      <4>1. dir \in WalkDir
        BY <2>4, MoveTypeDir DEF EventMove
      <4>2. c_from \in S
        BY <2>4 DEF EventMove, PlayersReachable
      <4>3. c_to \in S
        BY <3>2, <4>1, <4>2, PassableBehind DEF ClosedUnderExits
      <4>4. players_' = [players_ EXCEPT ![event.id_].loc_ = c_to]
        BY <2>4, <3>2 DEF EventMove
      <4>5. /\ DOMAIN players_' = DOMAIN players_
            /\ \A q \in DOMAIN players_ \ {event.id_} : players_'[q] = players_[q]
        BY <4>4
      <4>6. players_'[event.id_].loc_ = c_to
        BY <2>4, <4>4 DEF EventMove, WorldTypeOK, PlayersTypeOK, Presence
      <4>7. QED
        BY <4>3, <4>5, <4>6 DEF PlayersReachable
    <3>3. QED
      BY <3>1, <3>2
  <2>5. CASE EventLost(event)
    BY <1>1, <2>5 DEF EventLost
  <2>6. QED
    BY <2>1, <2>2, <2>3, <2>4, <2>5
<1>3. CASE NetworkThread \/ TickBegin \/ TickEnd \/ Deliver \/ UNCHANGED worldVars
  BY <1>1, <1>3 DEF NetworkThread, TickBegin, TickEnd, Deliver, worldVars
<1>4. QED
  BY <1>2, <1>3 DEF WorldNext, Tick

(* On every map, whatever commands arrive and in whatever order, a player  *)
(* never stands where no walk through open exits from the entry cube leads *)
THEOREM WorldReachable == WorldSpec => []PlayersReachable
<1>1. WorldInit => PlayersReachable
  BY DEF WorldInit, PlayersReachable
<1>2. QED
  BY <1>1, ReachableStep, WorldTypeCorrect, PTL DEF WorldSpec

-----------------------------------------------------------------------------
(* Each handler is a step of the abstract specification, or a stutter. *)
LEMMA HandlerImplements ==
  ASSUME PlayersTypeOK, NEW event \in Event,
         \/ EventLost(event) \/ EventConnect(event)
         \/ EventDisconnect(event) \/ EventMove(event)
  PROVE  Abstract!Next \/ UNCHANGED players_
<1>0. event.id_ \in Player /\ event.fd_ \in Fd
  BY DEF Event
<1>1. CASE EventLost(event)
  BY <1>1 DEF EventLost
<1>2. CASE EventConnect(event)
  <2>1. CASE InWorld(event.id_)
    BY <1>2, <2>1 DEF EventConnect
  <2>2. CASE ~InWorld(event.id_)
    <3>1. Abstract!Enter(event.id_)
      BY <1>0, <1>2, <2>2 DEF EventConnect, InWorld, Newcomer, Abstract!Enter
    <3>2. QED
      BY <1>0, <3>1 DEF Abstract!Next
  <2>3. QED
    BY <2>1, <2>2
<1>3. CASE EventDisconnect(event)
  <2>1. Abstract!Leave(event.id_)
    BY <1>3 DEF EventDisconnect, Abstract!Leave
  <2>2. QED
    BY <1>0, <2>1 DEF Abstract!Next
<1>4. CASE EventMove(event)
  <2>. DEFINE dir == event.type_ - TYPE_CMD_MOVE_OFFSET
              c_from == players_[event.id_].loc_
              c_to == Find(cubes_, c_from, dir)
  <2>1. CASE ~Passable(c_from, dir)
    BY <1>4, <2>1 DEF EventMove
  <2>2. CASE Passable(c_from, dir)
    <3>1. dir \in WalkDir
      BY <1>4, MoveTypeDir DEF EventMove
    <3>2. c_from \in cubes_
      BY <1>4 DEF EventMove, PlayersTypeOK, Presence
    <3>3. c_to \in CubesBehind[c_from]
      BY <2>2, <3>1, <3>2, PassableBehind DEF CubesBehind
    <3>4. players_' = [players_ EXCEPT ![event.id_].loc_ = c_to]
      BY <1>4, <2>2 DEF EventMove
    <3>5. Abstract!Walk(event.id_)
      BY <1>4, <3>3, <3>4 DEF EventMove, Abstract!Walk
    <3>6. QED
      BY <1>0, <3>5 DEF Abstract!Next
  <2>3. QED
    BY <2>1, <2>2
<1>5. QED
  BY <1>1, <1>2, <1>3, <1>4

(* The queue and the tick implement the promise of PlayerPresence: one     *)
(* presence per player, bound to the connection that entered, that only    *)
(* walks through open exits.                                               *)
THEOREM WorldImplementsPresence == WorldSpec => PresenceKept
<1>1. WorldInit => Abstract!Init
  BY DEF WorldInit, Abstract!Init, NoCube
<1>2. WorldTypeOK /\ [WorldNext]_worldVars => [Abstract!Next]_players_
  <2>. SUFFICES ASSUME WorldTypeOK, [WorldNext]_worldVars
                PROVE  Abstract!Next \/ UNCHANGED players_
    OBVIOUS
  <2>1. CASE Handle
    BY <2>1, HandlerImplements DEF Handle, WorldTypeOK
  <2>2. CASE NetworkThread \/ TickBegin \/ TickEnd \/ Deliver \/ UNCHANGED worldVars
    BY <2>2 DEF NetworkThread, TickBegin, TickEnd, Deliver, worldVars
  <2>3. QED
    BY <2>1, <2>2 DEF WorldNext, Tick
<1>3. QED
  BY <1>1, <1>2, WorldTypeCorrect, PTL DEF WorldSpec, PresenceKept, Abstract!Spec

-----------------------------------------------------------------------------
(* The sessions. *)

(* What a session is made of. *)
session == <<players_, equeue_, loginsockets_, sockets_, threads_, closing_, granted>>

(* The steps that touch no session. *)
Quiet ==
  \/ \E F \in SUBSET Fd : Accept(F)
  \/ WritePass
  \/ EndBatch
  \/ \E fd \in Fd : AcceptFails(fd) \/ BadEvent(fd) \/ OutEvent(fd) \/ RecvPartial(fd)
  \/ \E fd, rawfd \in Fd : RecvUnauthorised(fd, rawfd)
  \/ UNCHANGED vars

LEMMA QuietSteps == Quiet => UNCHANGED session
<1>. USE DEF session, vars, worldVars, serverVars, loopVars, loginVars
<1>1. ASSUME NEW F \in SUBSET Fd, Accept(F) PROVE UNCHANGED session
  BY <1>1 DEF Accept
<1>2. CASE WritePass
  BY <1>2 DEF WritePass
<1>3. CASE EndBatch
  BY <1>3 DEF EndBatch
<1>4. ASSUME NEW fd \in Fd, BadEvent(fd) PROVE UNCHANGED session
  BY <1>4 DEF BadEvent
<1>5. ASSUME NEW fd \in Fd, RecvPartial(fd) PROVE UNCHANGED session
  BY <1>5 DEF RecvPartial
<1>6. ASSUME NEW fd \in Fd, NEW rawfd \in Fd, RecvUnauthorised(fd, rawfd)
      PROVE  UNCHANGED session
  BY <1>6 DEF RecvUnauthorised
<1>7. ASSUME NEW fd \in Fd, AcceptFails(fd) \/ OutEvent(fd) PROVE UNCHANGED session
  BY <1>7 DEF AcceptFails, OutEvent
<1>8. QED
  BY <1>1, <1>2, <1>3, <1>4, <1>5, <1>6, <1>7 DEF Quiet

(* Every step is quiet or one of these. *)
LEMMA GameSteps ==
  ASSUME [GameNext]_vars
  PROVE  \/ Quiet
         \/ \E fd : Closesocket(fd)
         \/ DisconnectNotify
         \/ \E fd, rawfd \in Fd, user \in User : RecvLogin(fd, rawfd, user)
         \/ \E fd, rawfd \in Fd, type \in Command : RecvCommand(fd, rawfd, type)
         \/ \E t \in DOMAIN threads_ : SslClient(t)
         \/ WorldTick
<1>1. CASE Core
  BY <1>1 DEF Core, HandleEvent, CloseBad, CloseEvent, RecvInvalid, Quiet
<1>2. QED
  BY <1>1 DEF GameNext, Quiet

-----------------------------------------------------------------------------
(* Removing a thread leaves a sequence of threads that were there. *)
LEMMA EndsTyped ==
  ASSUME threads_ \in Seq(Thread), NEW t \in DOMAIN threads_, Ends(t)
  PROVE  /\ threads_' \in Seq(Thread)
         /\ \A u \in DOMAIN threads_' : \E v \in DOMAIN threads_ : threads_'[u] = threads_[v]
<1>. DEFINE n == Len(threads_)
             older == SubSeq(threads_, 1, t - 1)
             newer == SubSeq(threads_, t + 1, n)
<1>1. n \in Nat /\ t \in 1 .. n
  OBVIOUS
<1>2. /\ older \in Seq(Thread) /\ Len(older) = t - 1
      /\ \A k \in 1 .. t - 1 : older[k] = threads_[k]
  BY <1>1, SubSeqProperties
<1>3. /\ newer \in Seq(Thread) /\ Len(newer) = n - t
      /\ \A k \in 1 .. n - t : newer[k] = threads_[t + k]
  BY <1>1, SubSeqProperties
<1>4. threads_' = older \o newer
  BY DEF Ends, RemoveAt
<1>. HIDE DEF older, newer
<1>5. /\ threads_' \in Seq(Thread) /\ Len(threads_') = n - 1
      /\ \A u \in 1 .. n - 1 :
           threads_'[u] = IF u <= t - 1 THEN older[u] ELSE newer[u - (t - 1)]
  <2>1. /\ older \o newer \in Seq(Thread)
        /\ Len(older \o newer) = Len(older) + Len(newer)
        /\ \A u \in 1 .. Len(older) + Len(newer) :
             (older \o newer)[u] = IF u <= Len(older) THEN older[u]
                                                     ELSE newer[u - Len(older)]
    BY <1>2, <1>3, ConcatProperties
  <2>2. (t - 1) + (n - t) = n - 1
    BY <1>1
  <2>3. /\ threads_' \in Seq(Thread) /\ Len(threads_') = n - 1
    BY <1>2, <1>3, <1>4, <2>1, <2>2
  <2>4. \A u \in 1 .. n - 1 :
          threads_'[u] = IF u <= t - 1 THEN older[u] ELSE newer[u - (t - 1)]
    BY <1>2, <1>3, <1>4, <2>1, <2>2
  <2>5. QED
    BY <2>3, <2>4
<1>6. ASSUME NEW u \in 1 .. n - 1
      PROVE  \E v \in 1 .. n : threads_'[u] = threads_[v]
  <2>1. CASE u < t
    BY <1>1, <1>2, <1>5, <2>1
  <2>2. CASE u >= t
    <3>1. threads_'[u] = newer[u - (t - 1)] /\ u - (t - 1) \in 1 .. n - t
      BY <1>1, <1>5, <2>2
    <3>2. newer[u - (t - 1)] = threads_[u + 1] /\ u + 1 \in 1 .. n
      BY <1>1, <1>3, <2>2, <3>1
    <3>3. QED
      BY <3>1, <3>2
  <2>3. QED
    BY <1>1, <2>1, <2>2
<1>7. DOMAIN threads_ = 1 .. n /\ DOMAIN threads_' = 1 .. n - 1
  BY <1>5
<1>8. QED
  BY <1>5, <1>6, <1>7

(* Moving a thread to another pc changes nothing else of it. *)
LEMMA GotoTyped ==
  ASSUME threads_ \in Seq(Thread), NEW t \in DOMAIN threads_,
         NEW pc \in {"insert", "notify"}, Goto(t, pc)
  PROVE  /\ threads_' \in Seq(Thread)
         /\ DOMAIN threads_' = DOMAIN threads_
         /\ \A u \in DOMAIN threads_ \ {t} : threads_'[u] = threads_[u]
         /\ threads_'[t].id = threads_[t].id /\ threads_'[t].user = threads_[t].user
<1>1. threads_[t] \in Thread
  OBVIOUS
<1>2. [threads_[t] EXCEPT !.pc = pc] \in Thread
  BY <1>1 DEF Thread
<1>3. QED
  BY <1>1, <1>2 DEF Goto, Thread

LEMMA GameTypeInit == GameInit => SessionTypeOK
BY DEF GameInit, WorldInit, SessionTypeOK, PlayersTypeOK, NoFd

(* An event of a player on an fd joins the queue. *)
LEMMA AddEventTyped ==
  ASSUME equeue_ \in Seq(Event), NEW type \in ValidType, NEW id \in Player, NEW fd \in Fd,
         AddEvent([type_ |-> type, id_ |-> id, fd_ |-> fd])
  PROVE  equeue_' \in Seq(Event)
BY DEF AddEvent, Event

(* The parts of a step of an SslClient thread that keep the types. *)
LEMMA SslClientTyped ==
  ASSUME SessionTypeOK, NEW t \in DOMAIN threads_, SslClient(t)
  PROVE  SessionTypeOK'
<1>0. /\ threads_[t] \in Thread /\ threads_[t].id \in Fd
      /\ threads_[t].user \in User /\ PlayerOf[threads_[t].user] \in Player
  <2>1. threads_[t] \in Thread
    BY DEF SessionTypeOK
  <2>2. QED
    BY <2>1, UserAssumption DEF Thread
<1>. USE DEF SessionTypeOK, PlayersTypeOK, serverVars, loopVars, worldVars
<1>1. CASE ReplyLookup(t)
  <2>1. UNCHANGED <<players_, equeue_, loginsockets_, sockets_, closing_>>
    BY <1>1 DEF ReplyLookup
  <2>2. threads_' \in Seq(Thread)
    <3>1. CASE Ends(t)
      BY <3>1, EndsTyped
    <3>2. CASE ~Ends(t)
      <4>1. PICK username \in FirstPending(threads_[t].id), pc \in {"erase", "reject"} :
              threads_' = [threads_ EXCEPT ![t] =
                [id |-> threads_[t].id, user |-> threads_[t].user,
                 username |-> username, pc |-> pc]]
        BY <1>1, <3>2 DEF ReplyLookup
      <4>2. username \in User
        BY DEF FirstPending, PendingOn
      <4>3. [id |-> threads_[t].id, user |-> threads_[t].user,
             username |-> username, pc |-> pc] \in Thread
        BY <1>0, <4>2 DEF Thread
      <4>4. QED
        BY <4>1, <4>3
    <3>3. QED
      BY <3>1, <3>2
  <2>3. QED
    BY <2>1, <2>2
<1>2. CASE ReplyReject(t)
  BY <1>2, EndsTyped DEF ReplyReject, Forget
<1>3. CASE ReplyErase(t)
  BY <1>3, GotoTyped DEF ReplyErase, Forget
<1>4. CASE ReplyInsert(t)
  <2>1. /\ DOMAIN sockets_' \subseteq Fd
        /\ sockets_' \in [DOMAIN sockets_' -> Player]
        /\ DOMAIN sockets_ \subseteq DOMAIN sockets_'
    BY <1>0, <1>4 DEF ReplyInsert, Authorise
  <2>2. threads_' \in Seq(Thread)
    BY <1>4, GotoTyped DEF ReplyInsert
  <2>3. QED
    BY <1>4, <2>1, <2>2 DEF ReplyInsert
<1>5. CASE ReplyNotify(t)
  <2>1. TYPE_PLAYER_CONNECT_WORLD \in ValidType
    BY DEF ValidType
  <2>2. equeue_' \in Seq(Event)
    BY <1>0, <1>5, <2>1, AddEventTyped DEF ReplyNotify
  <2>3. threads_' \in Seq(Thread)
    BY <1>5, EndsTyped DEF ReplyNotify
  <2>4. QED
    BY <1>5, <2>2, <2>3 DEF ReplyNotify
<1>6. QED
  BY <1>1, <1>2, <1>3, <1>4, <1>5 DEF SslClient

(* A tick keeps the types of players_ and equeue_ and touches nothing else *)
(* of a session.                                                           *)
LEMMA TickTyped ==
  ASSUME PlayersTypeOK, equeue_ \in Seq(Event), Tick
  PROVE  PlayersTypeOK' /\ equeue_' \in Seq(Event)
<1>1. CASE Handle
  <2>1. PICK event \in Event :
          /\ Pop(event)
          /\ \/ EventLost(event) \/ EventConnect(event)
             \/ EventDisconnect(event) \/ EventMove(event)
    BY <1>1 DEF Handle
  <2>2. QED
    BY <2>1, PopTyped, HandlersKeepPlayers
<1>2. CASE TickBegin \/ TickEnd
  BY <1>2 DEF TickBegin, TickEnd, PlayersTypeOK
<1>3. QED
  BY <1>1, <1>2 DEF Tick

LEMMA SessionTypeStep == SessionTypeOK /\ [GameNext]_vars => SessionTypeOK'
<1>. SUFFICES ASSUME SessionTypeOK, [GameNext]_vars
              PROVE  SessionTypeOK'
  OBVIOUS
<1>1. CASE Quiet
  BY <1>1, QuietSteps DEF session, SessionTypeOK, PlayersTypeOK
<1>2. ASSUME NEW fd, Closesocket(fd)
      PROVE  SessionTypeOK'
  BY <1>2 DEF Closesocket, Abandon, Leaving, NoFd, SessionTypeOK, PlayersTypeOK
<1>3. CASE DisconnectNotify
  <2>1. TYPE_PLAYER_DISCONNECT_WORLD \in ValidType
    BY DEF ValidType
  <2>2. closing_ \in Fd /\ sockets_[closing_] \in Player
    BY <1>3 DEF DisconnectNotify, SessionTypeOK
  <2>3. equeue_' \in Seq(Event)
    BY <1>3, <2>1, <2>2, AddEventTyped DEF DisconnectNotify, SessionTypeOK
  <2>4. QED
    BY <1>3, <2>3 DEF DisconnectNotify, SessionTypeOK, PlayersTypeOK
<1>4. ASSUME NEW fd \in Fd, NEW rawfd \in Fd, NEW user \in User, RecvLogin(fd, rawfd, user)
      PROVE  SessionTypeOK'
  <2>1. [id |-> rawfd, user |-> user, pc |-> "asked", username |-> user] \in Thread
    BY DEF Thread
  <2>2. threads_' \in Seq(Thread)
    BY <1>4, <2>1 DEF RecvLogin, SessionTypeOK
  <2>3. QED
    BY <1>4, <2>2 DEF RecvLogin, StartLogin, SessionTypeOK, PlayersTypeOK, worldVars
<1>5. ASSUME NEW fd \in Fd, NEW rawfd \in Fd, NEW type \in Command,
             RecvCommand(fd, rawfd, type)
      PROVE  SessionTypeOK'
  <2>1. type \in ValidType /\ sockets_[rawfd] \in Player
    BY <1>5, CommandAssumption DEF RecvCommand, SessionTypeOK
  <2>2. equeue_' \in Seq(Event)
    BY <1>5, <2>1, AddEventTyped DEF RecvCommand, SessionTypeOK
  <2>3. QED
    BY <1>5, <2>2 DEF RecvCommand, SessionTypeOK, PlayersTypeOK, loginVars
<1>6. ASSUME NEW t \in DOMAIN threads_, SslClient(t)
      PROVE  SessionTypeOK'
  BY <1>6, SslClientTyped
<1>7. CASE WorldTick
  BY <1>7, TickTyped DEF WorldTick, SessionTypeOK, serverVars, loopVars, loginVars
<1>8. QED
  BY <1>1, <1>2, <1>3, <1>4, <1>5, <1>6, <1>7, GameSteps

(* The maps, the queue and the threads of a session keep their types, and  *)
(* disconnect always finds the fd whose player it reports.                 *)
THEOREM SessionTypeCorrect == GameSpec => []SessionTypeOK
BY GameTypeInit, SessionTypeStep, PTL DEF GameSpec

-----------------------------------------------------------------------------
(* An event for a verified fd joins the queue. *)
LEMMA AddEventGranted ==
  ASSUME equeue_ \in Seq(Event), NEW event, AddEvent(event),
         <<event.fd_, event.id_>> \in granted,
         \A i \in DOMAIN equeue_ : <<equeue_[i].fd_, equeue_[i].id_>> \in granted
  PROVE  \A i \in DOMAIN equeue_' : <<equeue_'[i].fd_, equeue_'[i].id_>> \in granted
BY DEF AddEvent

LEMMA SslClientGranted ==
  ASSUME SessionTypeOK, OnlyGranted, NEW t \in DOMAIN threads_, SslClient(t)
  PROVE  OnlyGranted'
<1>. USE DEF OnlyGranted, serverVars, loopVars, worldVars
<1>0. threads_ \in Seq(Thread)
  BY DEF SessionTypeOK
<1>1. CASE ReplyLookup(t)
  <2>1. /\ UNCHANGED <<players_, equeue_, sockets_>>
        /\ granted \subseteq granted'
    BY <1>1 DEF ReplyLookup
  <2>2. ASSUME NEW u \in DOMAIN threads_', threads_'[u].pc \in {"erase", "insert", "notify"}
        PROVE  <<threads_'[u].id, PlayerOf[threads_'[u].user]>> \in granted'
    <3>1. CASE Ends(t)
      BY <1>0, <2>1, <2>2, <3>1, EndsTyped
    <3>2. CASE ~Ends(t)
      <4>1. PICK verdict \in {"success", "failure", "error", "silent"} :
              /\ granted' = IF verdict = "success"
                            THEN granted \cup {<<threads_[t].id, PlayerOf[threads_[t].user]>>}
                            ELSE granted
              /\ \E username \in FirstPending(threads_[t].id) :
                   threads_' = [threads_ EXCEPT ![t] =
                     [id |-> threads_[t].id, user |-> threads_[t].user,
                      username |-> username,
                      pc |-> IF Accepted(verdict, threads_[t].user, username)
                             THEN "erase" ELSE "reject"]]
        BY <1>1, <3>2 DEF ReplyLookup
      <4>2. PICK username :
              threads_' = [threads_ EXCEPT ![t] =
                [id |-> threads_[t].id, user |-> threads_[t].user,
                 username |-> username,
                 pc |-> IF Accepted(verdict, threads_[t].user, username)
                        THEN "erase" ELSE "reject"]]
        BY <4>1
      <4>3. CASE u = t
        <5>1. Accepted(verdict, threads_[t].user, username)
          BY <1>0, <2>2, <4>2, <4>3
        <5>2. <<threads_[t].id, PlayerOf[threads_[t].user]>> \in granted'
          BY <4>1, <5>1 DEF Accepted
        <5>3. QED
          BY <1>0, <4>2, <4>3, <5>2
      <4>4. CASE u # t
        BY <1>0, <2>1, <2>2, <4>2, <4>4
      <4>5. QED
        BY <4>3, <4>4
    <3>3. QED
      BY <3>1, <3>2
  <2>3. QED
    BY <2>1, <2>2
<1>2. CASE ReplyReject(t)
  BY <1>0, <1>2, EndsTyped DEF ReplyReject
<1>3. CASE ReplyErase(t)
  BY <1>0, <1>3, GotoTyped DEF ReplyErase
<1>4. CASE ReplyInsert(t)
  <2>1. <<threads_[t].id, PlayerOf[threads_[t].user]>> \in granted
    BY <1>4 DEF ReplyInsert
  <2>2. \A fd \in DOMAIN sockets_' : <<fd, sockets_'[fd]>> \in granted
    BY <1>4, <2>1 DEF ReplyInsert, Authorise
  <2>3. ASSUME NEW u \in DOMAIN threads_', threads_'[u].pc \in {"erase", "insert", "notify"}
        PROVE  <<threads_'[u].id, PlayerOf[threads_'[u].user]>> \in granted
    BY <1>0, <1>4, <2>1, <2>3, GotoTyped DEF ReplyInsert
  <2>4. QED
    BY <1>4, <2>2, <2>3 DEF ReplyInsert
<1>5. CASE ReplyNotify(t)
  <2>. DEFINE event == [type_ |-> TYPE_PLAYER_CONNECT_WORLD,
                        id_ |-> PlayerOf[threads_[t].user], fd_ |-> threads_[t].id]
  <2>1. <<event.fd_, event.id_>> \in granted /\ AddEvent(event) /\ granted' = granted
    BY <1>5 DEF ReplyNotify
  <2>2. \A i \in DOMAIN equeue_' : <<equeue_'[i].fd_, equeue_'[i].id_>> \in granted'
    <3>. HIDE DEF event
    <3>1. QED
      BY <2>1, AddEventGranted DEF SessionTypeOK
  <2>3. \A u \in DOMAIN threads_' : \E v \in DOMAIN threads_ : threads_'[u] = threads_[v]
    BY <1>0, <1>5, EndsTyped DEF ReplyNotify
  <2>4. QED
    BY <1>5, <2>2, <2>3 DEF ReplyNotify
<1>6. QED
  BY <1>1, <1>2, <1>3, <1>4, <1>5 DEF SslClient

(* An event handled makes players only of what it carries. *)
LEMMA TickGranted ==
  ASSUME SessionTypeOK, OnlyGranted, WorldTick
  PROVE  OnlyGranted'
<1>. USE DEF OnlyGranted
<1>1. UNCHANGED <<sockets_, threads_, granted>> /\ Tick
  BY DEF WorldTick, loginVars
<1>2. CASE Handle
  <2>1. PICK event \in Event :
          /\ Pop(event)
          /\ \/ EventLost(event) \/ EventConnect(event)
             \/ EventDisconnect(event) \/ EventMove(event)
    BY <1>2 DEF Handle
  <2>2. <<event.fd_, event.id_>> \in granted
    BY <2>1 DEF Pop, SessionTypeOK
  <2>3. \A i \in DOMAIN equeue_' : <<equeue_'[i].fd_, equeue_'[i].id_>> \in granted
    BY <2>1 DEF Pop, SessionTypeOK
  <2>4. \A p \in DOMAIN players_' : <<players_'[p].fd_, p>> \in granted
    <3>1. CASE UNCHANGED players_
      BY <3>1
    <3>2. CASE EventConnect(event) /\ ~InWorld(event.id_)
      <4>1. players_' = [p \in DOMAIN players_ \cup {event.id_} |->
                           IF p = event.id_ THEN Newcomer(event) ELSE players_[p]]
        BY <3>2 DEF EventConnect
      <4>2. Newcomer(event).fd_ = event.fd_
        BY DEF Newcomer
      <4>3. QED
        BY <2>2, <4>1, <4>2
    <3>3. CASE EventDisconnect(event)
      BY <3>3 DEF EventDisconnect
    <3>4. CASE EventMove(event) /\ ~UNCHANGED players_
      <4>1. PICK c \in cubes_ \cup {NoCube} :
              players_' = [players_ EXCEPT ![event.id_].loc_ = c]
        BY <3>4 DEF EventMove, Find
      <4>2. QED
        BY <4>1 DEF SessionTypeOK, PlayersTypeOK, Presence
    <3>5. QED
      BY <2>1, <3>1, <3>2, <3>3, <3>4 DEF EventLost, EventConnect
  <2>5. QED
    BY <1>1, <2>3, <2>4
<1>3. CASE TickBegin \/ TickEnd
  BY <1>1, <1>3 DEF TickBegin, TickEnd
<1>4. QED
  BY <1>1, <1>2, <1>3 DEF Tick

LEMMA OnlyGrantedStep == SessionTypeOK /\ OnlyGranted /\ [GameNext]_vars => OnlyGranted'
<1>. SUFFICES ASSUME SessionTypeOK, OnlyGranted, [GameNext]_vars
              PROVE  OnlyGranted'
  OBVIOUS
<1>1. CASE Quiet
  BY <1>1, QuietSteps DEF session, OnlyGranted
<1>2. ASSUME NEW fd, Closesocket(fd)
      PROVE  OnlyGranted'
  BY <1>2 DEF Closesocket, OnlyGranted
<1>3. CASE DisconnectNotify
  <2>. DEFINE event == [type_ |-> TYPE_PLAYER_DISCONNECT_WORLD,
                        id_ |-> sockets_[closing_], fd_ |-> closing_]
  <2>1. AddEvent(event) /\ UNCHANGED <<players_, threads_, granted>>
    BY <1>3 DEF DisconnectNotify
  <2>2. <<event.fd_, event.id_>> \in granted
    BY <1>3 DEF DisconnectNotify, SessionTypeOK, OnlyGranted
  <2>3. \A i \in DOMAIN equeue_' : <<equeue_'[i].fd_, equeue_'[i].id_>> \in granted'
    <3>. HIDE DEF event
    <3>1. QED
      BY <2>1, <2>2, AddEventGranted DEF SessionTypeOK, OnlyGranted
  <2>4. QED
    BY <1>3, <2>1, <2>3 DEF DisconnectNotify, OnlyGranted
<1>4. ASSUME NEW fd \in Fd, NEW rawfd \in Fd, NEW user \in User, RecvLogin(fd, rawfd, user)
      PROVE  OnlyGranted'
  <2>1. UNCHANGED <<players_, equeue_, sockets_, granted>>
    BY <1>4 DEF RecvLogin, worldVars
  <2>2. ASSUME NEW u \in DOMAIN threads_'
        PROVE  \/ threads_'[u].pc = "asked"
               \/ u \in DOMAIN threads_ /\ threads_'[u] = threads_[u]
    <3>. DEFINE thread == [id |-> rawfd, user |-> user, pc |-> "asked", username |-> user]
    <3>1. threads_' = Append(threads_, thread) /\ thread.pc = "asked"
      BY <1>4 DEF RecvLogin
    <3>2. threads_ \in Seq(Thread) /\ thread \in Thread
      BY DEF Thread, SessionTypeOK
    <3>. HIDE DEF thread
    <3>3. QED
      BY <3>1, <3>2
  <2>3. QED
    BY <2>1, <2>2 DEF OnlyGranted
<1>5. ASSUME NEW fd \in Fd, NEW rawfd \in Fd, NEW type \in Command,
             RecvCommand(fd, rawfd, type)
      PROVE  OnlyGranted'
  <2>. DEFINE event == [type_ |-> type, id_ |-> sockets_[rawfd], fd_ |-> rawfd]
  <2>1. AddEvent(event) /\ UNCHANGED <<players_, sockets_, threads_, granted>>
    BY <1>5 DEF RecvCommand, loginVars
  <2>2. <<event.fd_, event.id_>> \in granted
    BY <1>5 DEF RecvCommand, OnlyGranted
  <2>3. \A i \in DOMAIN equeue_' : <<equeue_'[i].fd_, equeue_'[i].id_>> \in granted'
    <3>. HIDE DEF event
    <3>1. QED
      BY <2>1, <2>2, AddEventGranted DEF SessionTypeOK, OnlyGranted
  <2>4. QED
    BY <2>1, <2>3 DEF OnlyGranted
<1>6. ASSUME NEW t \in DOMAIN threads_, SslClient(t)
      PROVE  OnlyGranted'
  BY <1>6, SslClientGranted
<1>7. CASE WorldTick
  BY <1>7, TickGranted
<1>8. QED
  BY <1>1, <1>2, <1>3, <1>4, <1>5, <1>6, <1>7, GameSteps

(* For any users, clients and reuse of fds: an authorised fd, an event on  *)
(* its way and a player in the world all go back to an answer of the login *)
(* server that verified that player on that fd.                            *)
THEOREM GrantedCorrect == GameSpec => []OnlyGranted
<1>1. GameInit => OnlyGranted
  BY DEF GameInit, WorldInit, OnlyGranted
<1>2. QED
  BY <1>1, OnlyGrantedStep, SessionTypeCorrect, PTL DEF GameSpec

-----------------------------------------------------------------------------
LEMMA SessionStableStep ==
  ASSUME SessionTypeOK, [GameNext]_vars,
         NEW fd \in DOMAIN sockets_ \cap DOMAIN sockets_'
  PROVE  sockets_'[fd] = sockets_[fd]
<1>1. CASE UNCHANGED sockets_
  BY <1>1
<1>2. CASE DisconnectNotify
  BY <1>2 DEF DisconnectNotify
<1>3. ASSUME NEW t \in DOMAIN threads_, SslClient(t)
      PROVE  sockets_'[fd] = sockets_[fd]
  BY <1>1, <1>3 DEF SslClient, ReplyLookup, ReplyReject, ReplyErase, ReplyInsert,
                    ReplyNotify, Authorise
<1>4. ASSUME NEW f, Closesocket(f) PROVE UNCHANGED sockets_
  BY <1>4 DEF Closesocket
<1>5. ASSUME NEW f, NEW rawfd, NEW user, RecvLogin(f, rawfd, user) PROVE UNCHANGED sockets_
  BY <1>5 DEF RecvLogin
<1>6. ASSUME NEW f, NEW rawfd, NEW type, RecvCommand(f, rawfd, type) PROVE UNCHANGED sockets_
  BY <1>6 DEF RecvCommand, loginVars
<1>7. CASE WorldTick
  BY <1>1, <1>7 DEF WorldTick, loginVars
<1>8. CASE Quiet
  BY <1>1, <1>8, QuietSteps DEF session
<1>9. QED
  BY <1>1, <1>2, <1>3, <1>4, <1>5, <1>6, <1>7, <1>8, GameSteps

(* An authorised fd stays the same player's as long as it is authorised. *)
THEOREM GameKeepsSessions == GameSpec => SessionStable
<1>1. SessionTypeOK /\ [GameNext]_vars =>
        [\A fd \in DOMAIN sockets_ \cap DOMAIN sockets_' : sockets_'[fd] = sockets_[fd]]_vars
  BY SessionStableStep
<1>2. QED
  BY <1>1, SessionTypeCorrect, PTL DEF GameSpec, SessionStable

-----------------------------------------------------------------------------
(* Only the tick moves players, and each event it handles is a step of     *)
(* PlayerPresence: the promise holds in the whole process, with any fds    *)
(* closed, reused or answered late.                                        *)
THEOREM GameImplementsPresence == GameSpec => PresenceKept
<1>1. GameInit => Abstract!Init
  BY DEF GameInit, WorldInit, Abstract!Init, NoCube
<1>2. SessionTypeOK /\ [GameNext]_vars => [Abstract!Next]_players_
  <2>. SUFFICES ASSUME SessionTypeOK, [GameNext]_vars
                PROVE  Abstract!Next \/ UNCHANGED players_
    OBVIOUS
  <2>1. CASE WorldTick
    <3>1. CASE Handle
      BY <3>1, HandlerImplements DEF Handle, SessionTypeOK
    <3>2. QED
      BY <2>1, <3>1 DEF WorldTick, Tick, TickBegin, TickEnd
  <2>2. ASSUME NEW fd, Closesocket(fd) PROVE UNCHANGED players_
    BY <2>2 DEF Closesocket
  <2>3. CASE DisconnectNotify
    BY <2>3 DEF DisconnectNotify
  <2>4. ASSUME NEW fd \in Fd, NEW rawfd \in Fd, NEW user \in User,
               RecvLogin(fd, rawfd, user)
        PROVE  UNCHANGED players_
    BY <2>4 DEF RecvLogin, worldVars
  <2>5. ASSUME NEW fd \in Fd, NEW rawfd \in Fd, NEW type \in Command,
             RecvCommand(fd, rawfd, type)
        PROVE  UNCHANGED players_
    BY <2>5 DEF RecvCommand
  <2>6. ASSUME NEW t \in DOMAIN threads_, SslClient(t) PROVE UNCHANGED players_
    BY <2>6 DEF SslClient, ReplyLookup, ReplyReject, ReplyErase, ReplyInsert,
                ReplyNotify, worldVars
  <2>7. CASE Quiet
    BY <2>7, QuietSteps DEF session
  <2>8. QED
    BY <2>1, <2>2, <2>3, <2>4, <2>5, <2>6, <2>7, GameSteps
<1>3. QED
  BY <1>1, <1>2, SessionTypeCorrect, PTL DEF GameSpec, PresenceKept, Abstract!Spec

-----------------------------------------------------------------------------
(* A packet that waits to be handled. *)
Request == [fd : Fd]

(* The variables that are not a session's. *)
ServerTypeOK ==
  /\ mutex_ \in {"free", "tick"}
  /\ out_data_ \in Seq(Packet)
  /\ server_sockets_ \cup unset_ \subseteq Fd /\ stuck_ \subseteq server_sockets_
  /\ badfds_ \in Seq(Fd)
  /\ phase \in {"close", "events", "over"}
  /\ batch_ \subseteq Fd \cup {LISTEN}
  /\ {reading_, closing_} \subseteq Fd \cup {NoFd}
  /\ rawdata_ \in Seq(Request)
  /\ alive \in BOOLEAN
  /\ accepted \in [Fd -> Nat]
  /\ {asked, faults} \subseteq Nat
  /\ granted \subseteq Fd \X Player

LEMMA GameTypeParts == GameTypeOK <=> SessionTypeOK /\ ServerTypeOK
BY DEF GameTypeOK, SessionTypeOK, ServerTypeOK, WorldTypeOK, Request

LEMMA ServerTypeInit == GameInit => ServerTypeOK
BY DEF GameInit, WorldInit, ServerTypeOK, NoFd

(* An error reply to an fd is a packet. *)
LEMMA RefusalTyped ==
  ASSUME out_data_ \in Seq(Packet), NEW fd \in Fd, Send(fd, NO_CMD, NoCube, TRUE)
  PROVE  out_data_' \in Seq(Packet)
<1>1. NO_CMD \in ReplyType
  BY DEF ReplyType
<1> QED
  BY <1>1, SendTyped

(* Closing an fd keeps the types, wherever the fd comes from. *)
LEMMA ClosesocketTyped ==
  ASSUME SessionTypeOK, ServerTypeOK, NEW fd, Closesocket(fd), mutex_' = mutex_,
         badfds_' \in Seq(Fd), phase' = phase, batch_' \subseteq batch_,
         rawdata_' \in Seq(Request)
  PROVE  ServerTypeOK'
<1>1. out_data_' \in Seq(Packet)
  BY SelectedElements DEF Closesocket, Purged, ServerTypeOK
<1>2. closing_' \in Fd \cup {NoFd}
  BY DEF Closesocket, Leaving, SessionTypeOK
<1> QED
  BY <1>1, <1>2 DEF Closesocket, ServerTypeOK

(* The packets of a read join those that were left. *)
LEMMA PoppedTyped ==
  ASSUME ServerTypeOK, NEW fd \in Fd, NEW rawfd \in Fd, Popped(fd, rawfd)
  PROVE  rawdata_' \in Seq(Request)
<1> DEFINE packet == [fd |-> fd]
<1>1. PICK n \in 0 .. MaxRaw - Len(rawdata_) :
        /\ Feed(rawdata_, packet, n) # <<>>
        /\ rawdata_' = Removed(PopFront(Feed(rawdata_, packet, n)), rawfd)
  BY DEF Popped, Fed
<1>2. n \in Nat
  BY <1>1
<1>3. packet \in Request
  BY DEF Request
<1> HIDE DEF packet
<1>4. [i \in 1 .. n |-> packet] \in Seq(Request)
  BY <1>2, <1>3, CopiesTyped
<1>5. Feed(rawdata_, packet, n) \in Seq(Request)
  BY <1>4, ConcatProperties DEF Feed, ServerTypeOK
<1>6. PopFront(Feed(rawdata_, packet, n)) \in Seq(Request)
  BY <1>1, <1>5, HeadTailProperties DEF PopFront
<1> QED
  BY <1>1, <1>6, RemovedTyped

(* The fds of packets are fds. *)
LEMMA FdsOfTyped ==
  ASSUME NEW packets \in Seq(Packet)
  PROVE  FdsOf(packets) \in Seq(Fd)
<1>1. Len(packets) \in Nat /\ \A i \in 1 .. Len(packets) : packets[i] \in Packet
  BY LenProperties, ElementOfSeq
<1>2. \A i \in 1 .. Len(packets) : packets[i].fd \in Fd
  BY <1>1 DEF Packet
<1> QED
  BY <1>1, <1>2 DEF FdsOf

(* The write pass asks for fds to be closed and keeps the packets of fds   *)
(* it does not know; the sockets it finds full are open ones.              *)
LEMMA WritePassTyped ==
  ASSUME ServerTypeOK, WritePass
  PROVE  /\ out_data_' \in Seq(Packet) /\ badfds_' \in Seq(Fd)
         /\ stuck_' \subseteq server_sockets_ /\ faults' \in Nat
<1>1. PICK outcome \in [DOMAIN out_data_ -> Outcome] :
        LET filled == {i \in DOMAIN out_data_ : Filled(i, outcome)}
        IN /\ badfds_' = FdsOf(Selected(out_data_,
                            {i \in DOMAIN out_data_ : ClosedAfter(i, outcome)}))
           /\ out_data_' = Selected(out_data_,
                            {i \in DOMAIN out_data_ : ~Leaves(i, outcome)})
           /\ stuck_' = stuck_ \cup {out_data_[i].fd : i \in filled}
           /\ faults' = IF filled = {} THEN faults ELSE faults + 1
  BY DEF WritePass
<1> DEFINE closed == {i \in DOMAIN out_data_ : ClosedAfter(i, outcome)}
           kept == {i \in DOMAIN out_data_ : ~Leaves(i, outcome)}
           filled == {i \in DOMAIN out_data_ : Filled(i, outcome)}
<1>2. /\ badfds_' = FdsOf(Selected(out_data_, closed))
      /\ out_data_' = Selected(out_data_, kept)
      /\ stuck_' = stuck_ \cup {out_data_[i].fd : i \in filled}
      /\ faults' \in {faults, faults + 1}
  BY <1>1
<1>3. \A i \in filled : out_data_[i].fd \in server_sockets_
  BY DEF Filled, Tried, Known
<1> HIDE DEF closed, kept, filled
<1>4. Selected(out_data_, closed) \in Seq(Packet) /\ Selected(out_data_, kept) \in Seq(Packet)
  BY SelectedElements DEF ServerTypeOK
<1> QED
  BY <1>2, <1>3, <1>4, FdsOfTyped DEF ServerTypeOK

(* A step of fd's read loop or the first event of fd leaves phase alone.   *)
LEMMA TurnTyped ==
  ASSUME NEW fd, Turn(fd)
  PROVE  phase' = phase /\ batch_' \subseteq batch_
BY DEF Turn, NextEvent

LEMMA HandleEventTyped ==
  ASSUME SessionTypeOK, ServerTypeOK, NEW fd \in Fd, HandleEvent(fd)
  PROVE  ServerTypeOK'
<1> USE DEF worldVars, socketVars, loginVars
<1>1. CASE BadEvent(fd)
  BY <1>1 DEF BadEvent, NextEvent, Requestclosefd, ServerTypeOK
<1>2. CASE OutEvent(fd)
  <2>1. badfds_' \in Seq(Fd)
    <3>1. badfds_' \in {badfds_, Append(badfds_, fd)}
      BY <1>2 DEF OutEvent, Requestclosefd
    <3>2. badfds_ \in Seq(Fd)
      BY DEF ServerTypeOK
    <3> QED
      BY <3>1, <3>2, AppendProperties
  <2>2. stuck_' \subseteq stuck_ /\ reading_' \in Fd \cup {NoFd}
    BY <1>2 DEF OutEvent, MakeWritable
  <2>3. phase' = phase /\ batch_' \subseteq batch_
    BY <1>2 DEF OutEvent, NextEvent
  <2> QED
    BY <1>2, <2>1, <2>2, <2>3 DEF OutEvent, ServerTypeOK
<1>3. CASE CloseEvent(fd)
  BY <1>3, ClosesocketTyped, TurnTyped DEF CloseEvent, Closesocket, ServerTypeOK
<1>4. CASE RecvPartial(fd)
  BY <1>4, RefusalTyped, TurnTyped DEF RecvPartial, ReadsOn, ServerTypeOK
<1>5. ASSUME NEW rawfd \in Fd, RecvInvalid(fd, rawfd) PROVE ServerTypeOK'
  BY <1>5, ClosesocketTyped, PoppedTyped, TurnTyped DEF RecvInvalid, Closesocket, ServerTypeOK
<1>6. ASSUME NEW rawfd \in Fd, NEW user \in User, RecvLogin(fd, rawfd, user) PROVE ServerTypeOK'
  <2>1. user \in DOMAIN loginsockets_ => loginsockets_[user] \in Fd
    BY DEF SessionTypeOK
  <2>2. badfds_ \in Seq(Fd)
    BY DEF ServerTypeOK
  <2>3. \/ user \in DOMAIN loginsockets_ /\ badfds_' = Append(badfds_, loginsockets_[user])
        \/ badfds_' = badfds_
    BY <1>6 DEF RecvLogin, Requestclosefd
  <2>4. badfds_' \in Seq(Fd)
    BY <2>1, <2>2, <2>3, AppendProperties
  <2>5. rawdata_' \in Seq(Request)
    BY <1>6, PoppedTyped DEF RecvLogin
  <2>6. asked' \in Nat /\ reading_' \in Fd \cup {NoFd}
    BY <1>6 DEF RecvLogin, ReadsOn, ServerTypeOK
  <2>7. phase' = phase /\ batch_' \subseteq batch_
    BY <1>6, TurnTyped DEF RecvLogin
  <2>8. UNCHANGED <<worldVars, socketVars, closing_, accepted, faults, granted, alive>>
    BY <1>6 DEF RecvLogin
  <2> QED
    BY <2>4, <2>5, <2>6, <2>7, <2>8 DEF ServerTypeOK
<1>7. ASSUME NEW rawfd \in Fd, NEW type \in Command, RecvCommand(fd, rawfd, type)
      PROVE  ServerTypeOK'
  BY <1>7, PoppedTyped, TurnTyped DEF RecvCommand, ReadsOn, ServerTypeOK
<1>8. ASSUME NEW rawfd \in Fd, RecvUnauthorised(fd, rawfd) PROVE ServerTypeOK'
  BY <1>8, PoppedTyped, TurnTyped DEF RecvUnauthorised, ServerTypeOK
<1> QED
  BY <1>1, <1>2, <1>3, <1>4, <1>5, <1>6, <1>7, <1>8 DEF HandleEvent

LEMMA CoreTyped ==
  ASSUME SessionTypeOK, ServerTypeOK, Core
  PROVE  ServerTypeOK'
<1> USE DEF worldVars, socketVars, loginVars
<1>1. CASE CloseBad
  <2>1. badfds_' \in Seq(Fd)
    BY <1>1, HeadTailProperties DEF CloseBad, ServerTypeOK
  <2> QED
    BY <1>1, <2>1, ClosesocketTyped DEF CloseBad, Closesocket, ServerTypeOK
<1>2. CASE WritePass
  BY <1>2, WritePassTyped DEF WritePass, ServerTypeOK
<1>3. ASSUME NEW F \in SUBSET Fd, Accept(F) PROVE ServerTypeOK'
  BY <1>3 DEF Accept, Listening, ServerTypeOK
<1>4. ASSUME NEW fd \in Fd, AcceptFails(fd) PROVE ServerTypeOK'
  BY <1>4 DEF AcceptFails, Listening, Requestclosefd, ServerTypeOK
<1>5. ASSUME NEW fd \in Fd, HandleEvent(fd) PROVE ServerTypeOK'
  BY <1>5, HandleEventTyped
<1>6. CASE DisconnectNotify
  BY <1>6 DEF DisconnectNotify, ServerTypeOK
<1>7. CASE EndBatch
  BY <1>7 DEF EndBatch, ServerTypeOK
<1> QED
  BY <1>1, <1>2, <1>3, <1>4, <1>5, <1>6, <1>7 DEF Core

LEMMA SslClientServerTyped ==
  ASSUME SessionTypeOK, ServerTypeOK, NEW t \in DOMAIN threads_, SslClient(t)
  PROVE  ServerTypeOK'
<1> USE DEF worldVars, socketVars, loopVars, serverVars, loginVars
<1>1. threads_[t].id \in Fd /\ PlayerOf[threads_[t].user] \in Player
  <2>1. threads_[t] \in Thread
    BY DEF SessionTypeOK
  <2> QED
    BY <2>1, UserAssumption DEF Thread
<1>2. CASE ReplyLookup(t)
  <2>1. granted' \subseteq Fd \X Player
    BY <1>1, <1>2 DEF ReplyLookup, ServerTypeOK
  <2> QED
    BY <1>2, <2>1 DEF ReplyLookup, ServerTypeOK
<1>3. CASE ReplyReject(t)
  BY <1>1, <1>3, RefusalTyped DEF ReplyReject, ServerTypeOK
<1>4. CASE ReplyErase(t)
  BY <1>4 DEF ReplyErase, ServerTypeOK
<1>5. CASE ReplyInsert(t)
  BY <1>5 DEF ReplyInsert, ServerTypeOK
<1>6. CASE ReplyNotify(t)
  BY <1>6 DEF ReplyNotify, ServerTypeOK
<1> QED
  BY <1>2, <1>3, <1>4, <1>5, <1>6 DEF SslClient

LEMMA TickServerTyped ==
  ASSUME SessionTypeOK, ServerTypeOK, WorldTick
  PROVE  ServerTypeOK'
<1>1. out_data_' \in Seq(Packet) /\ mutex_' \in {"free", "tick"}
  <2>1. CASE Handle
    <3>1. PICK event \in Event :
            /\ Pop(event)
            /\ \/ EventLost(event) \/ EventConnect(event)
               \/ EventDisconnect(event) \/ EventMove(event)
      BY <2>1 DEF Handle
    <3> QED
      BY <3>1, PopTyped, HandlersReply DEF SessionTypeOK, ServerTypeOK
  <2>2. CASE TickBegin \/ TickEnd
    BY <2>2 DEF TickBegin, TickEnd, ServerTypeOK
  <2> QED
    BY <2>1, <2>2 DEF WorldTick, Tick
<1> QED
  BY <1>1 DEF WorldTick, socketVars, loopVars, serverVars, loginVars, ServerTypeOK

(* All the variables of the game server keep their types, through every    *)
(* write pass and every closing of an fd.                                  *)
THEOREM GameTypeCorrect == GameSpec => []GameTypeOK
<1>1. SessionTypeOK /\ ServerTypeOK /\ [GameNext]_vars => ServerTypeOK'
  <2>1. CASE UNCHANGED vars
    BY <2>1 DEF vars, worldVars, socketVars, loopVars, serverVars, loginVars, ServerTypeOK
  <2> QED
    BY <2>1, CoreTyped, SslClientServerTyped, TickServerTyped DEF GameNext
<1> QED
  BY <1>1, ServerTypeInit, SessionTypeCorrect, GameTypeParts, PTL DEF GameSpec

=============================================================================
