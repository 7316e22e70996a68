----------------------------- MODULE GameServer -----------------------------
(***************************************************************************)
(* The game server process: Server's epoll loop, the GameServer callbacks  *)
(* it runs, the SslClient threads that bring the login server's answers,   *)
(* and the World (extended here) whose tick runs on the main thread.       *)
(*                                                                         *)
(* The core thread goes round: it closes the fds of badfds_, then writes   *)
(* out_data_, then handles what epoll_wait returned (batch_), reading each *)
(* fd until there is no more.  One SslClient thread per login calls        *)
(* GameServer::recv(id, ...), which reads and writes loginsockets_ and     *)
(* sockets_ without a lock while the core thread does the same: each       *)
(* access to a map is a step of its own.  add_event waits for              *)
(* World::mutex_, so an action that calls it waits while a tick runs.      *)
(***************************************************************************)
EXTENDS World, DataQueue

CONSTANTS
  User,        \* user names, numbered in the order std::map keeps them
  PlayerOf,    \* PlayerOf[u]: the player id the login server knows u by
  Command,     \* the world commands that clients send
  MaxAccept,   \* bound on the connections accepted on each fd
  MaxLogin,    \* bound on the logins the login server is asked about
  MaxRaw,      \* bound on the packets in rawdata_ once a read is fed
  MaxFault     \* bound on the turns with a write cut short or a failing call

ASSUME UserAssumption == User \subseteq Nat /\ PlayerOf \in [User -> Player]
ASSUME CommandAssumption == Command \subseteq ValidType
ASSUME ListenAssumption == Fd \subseteq Nat \ {0}
ASSUME BoundAssumption == {MaxAccept, MaxLogin, MaxRaw, MaxFault} \subseteq Nat

VARIABLES
  server_sockets_, \* Server::sockets_: the fds of the open connections
  stuck_,          \* those of them whose Socket::writable is false
  unset_,          \* fds accepted that could not be made non-blocking: no Socket
  badfds_,         \* fds the core thread was asked to close
  phase,           \* where the core thread is in its loop; "over" once it has left it
  batch_,          \* events of this epoll_wait still to be handled
  reading_,        \* fd in the read loop, or NoFd
  rawdata_,        \* GameServer::rawdata_: whole packets [fd] not yet handled
  closing_,        \* fd whose disconnect waits for World::mutex_, or NoFd
  loginsockets_,   \* user |-> fd that tries to log in as that user
  sockets_,        \* authorised fd |-> player id
  threads_,        \* the SslClient threads that run, oldest first
  alive,           \* FALSE once an exception has ended the process
  accepted,        \* history: connections accepted so far on each fd
  faults,          \* history: turns with a fault so far
  asked,           \* history: logins asked about so far
  granted          \* history: <<fd, player>> the login server verified

socketVars == <<server_sockets_, stuck_, unset_>>
loopVars == <<badfds_, phase, batch_, reading_, closing_>>
serverVars == <<socketVars, loopVars, accepted, faults>>
loginVars == <<loginsockets_, sockets_, threads_, asked, granted>>
vars == <<worldVars, serverVars, rawdata_, loginVars, alive>>

NoFd == 0
LISTEN == 0   \* server_fd_ in batch_

-----------------------------------------------------------------------------
(* Server                                                                  *)

Requestclosefd(fd) == badfds_' = Append(badfds_, fd)

Free(fd) == fd \notin server_sockets_ \cup unset_

(* The next event of the batch is one of the listening socket. *)
Listening ==
  /\ alive
  /\ phase = "events" /\ reading_ = NoFd /\ closing_ = NoFd
  /\ LISTEN \in batch_

(* Connections that wait in the listen queue are all accepted; the kernel  *)
(* may give them any fds that are free.  connect() only logs.              *)
Accept(F) ==
  /\ Listening
  /\ F # {}
  /\ \A fd \in F : Free(fd) /\ accepted[fd] < MaxAccept
  /\ server_sockets_' = server_sockets_ \cup F
  /\ accepted' = [fd \in Fd |-> IF fd \in F THEN accepted[fd] + 1 ELSE accepted[fd]]
  /\ batch_' = batch_ \ {LISTEN}
  /\ UNCHANGED <<worldVars, rawdata_, loginVars, stuck_, unset_, badfds_, phase,
                 reading_, closing_, faults, alive>>

(* One of them cannot be made non-blocking: it gets no Socket and is       *)
(* closed in the next turn; the loop goes on with the others.              *)
AcceptFails(fd) ==
  /\ Listening
  /\ Free(fd) /\ faults < MaxFault
  /\ faults' = faults + 1
  /\ unset_' = unset_ \cup {fd}
  /\ Requestclosefd(fd)
  /\ UNCHANGED <<worldVars, rawdata_, loginVars, server_sockets_, stuck_, phase, batch_,
                 reading_, closing_, accepted, alive>>

(* The user names that are logging in on fd. *)
PendingOn(fd) == {u \in DOMAIN loginsockets_ : loginsockets_[u] = fd}

(* The one that a scan of the map stops at, if any. *)
FirstPending(fd) == {u \in PendingOn(fd) : \A v \in PendingOn(fd) : u <= v}

Forget(u) ==
  loginsockets_' = [v \in DOMAIN loginsockets_ \ {u} |-> loginsockets_[v]]

(* disconnect erases the first login of fd and then breaks out of the scan *)
Abandon(fd) ==
  loginsockets_' = [u \in DOMAIN loginsockets_ \ FirstPending(fd) |-> loginsockets_[u]]

(* MUTANT of Leaving: at(fd) without the find before it. *)
Leaving_Unchecked(fd) == fd

(* disconnect has a player to report: fd waits for World::mutex_. *)
Leaving(fd) == IF fd \in DOMAIN sockets_ THEN fd ELSE NoFd

(* The replies still to be written that are not for fd. *)
Purged(fd) == Selected(out_data_, {i \in DOMAIN out_data_ : out_data_[i].fd # fd})

(* closesocket up to the point where GameServer::disconnect must add an    *)
(* event: the fd is closed, its replies dropped, the first of its pending  *)
(* logins erased.  What it sent stays in rawdata_.                         *)
Closesocket(fd) ==
  /\ server_sockets_' = server_sockets_ \ {fd}
  /\ stuck_' = stuck_ \ {fd}
  /\ unset_' = unset_ \ {fd}
  /\ out_data_' = Purged(fd)
  /\ Abandon(fd)
  /\ closing_' = Leaving(fd)
  /\ reading_' = NoFd
  /\ UNCHANGED <<equeue_, players_, mutex_, sockets_, threads_, asked, granted, phase,
                 accepted, faults, alive>>

(* The rest of disconnect: the world is told, the authorisation erased. *)
DisconnectNotify ==
  /\ alive
  /\ closing_ # NoFd
  /\ AddEvent([type_ |-> TYPE_PLAYER_DISCONNECT_WORLD,
               id_ |-> sockets_[closing_], fd_ |-> closing_])
  /\ sockets_' = [fd \in DOMAIN sockets_ \ {closing_} |-> sockets_[fd]]
  /\ closing_' = NoFd
  /\ UNCHANGED <<players_, mutex_, out_data_, socketVars, badfds_, phase, batch_, reading_,
                 accepted, faults, rawdata_, loginsockets_, threads_, asked, granted, alive>>

(* The loop starts by closing every fd of badfds_, open or not. *)
CloseBad ==
  /\ alive
  /\ phase = "close" /\ closing_ = NoFd
  /\ badfds_ # <<>>
  /\ Closesocket(Head(badfds_))
  /\ badfds_' = Tail(badfds_)
  /\ UNCHANGED <<batch_, rawdata_>>

(* What write() and epoll_ctl() may make of a packet: it goes out whole,   *)
(* in part, in part with EPOLLOUT refused, or not at all.                  *)
Outcome == IF faults < MaxFault THEN {"whole", "part", "stuck", "fails"}
                                ELSE {"whole", "fails"}

Known(i) == out_data_[i].fd \in server_sockets_

(* The i-th packet waits: its socket was full before this pass, or a       *)
(* packet before it has filled it.                                         *)
Held(i, outcome) ==
  \/ out_data_[i].fd \in stuck_
  \/ \E j \in 1 .. i - 1 : /\ out_data_[j].fd = out_data_[i].fd
                           /\ outcome[j] \in {"part", "stuck"}

Tried(i, outcome) == Known(i) /\ ~Held(i, outcome)

Filled(i, outcome) == Tried(i, outcome) /\ outcome[i] \in {"part", "stuck"}

(* The packet leaves the list: written, or given up. *)
Leaves(i, outcome) == Tried(i, outcome) /\ outcome[i] # "part"

(* MUTANT of ClosedAfter: closefd is forgotten when the write succeeds. *)
ClosedAfter_NoRequest(i, outcome) ==
  \/ ~Known(i)
  \/ Tried(i, outcome) /\ outcome[i] \in {"stuck", "fails"}

(* The fd of a packet joins badfds_ when it is unknown, when the packet is *)
(* given up, or when it has been written and asks for it.                  *)
ClosedAfter(i, outcome) ==
  \/ ~Known(i)
  \/ Tried(i, outcome) /\ outcome[i] \in {"stuck", "fails"}
  \/ Tried(i, outcome) /\ outcome[i] = "whole" /\ out_data_[i].closefd

FdsOf(packets) == [i \in 1 .. Len(packets) |-> packets[i].fd]

(* With badfds_ empty the loop passes once over out_data_, under           *)
(* out_data_lock_.  A packet whose fd is unknown stays, as does one that   *)
(* waits.  Then epoll_wait returns events of open fds, or fails, which     *)
(* ends the loop.                                                          *)
WritePass ==
  /\ alive
  /\ phase = "close" /\ closing_ = NoFd
  /\ badfds_ = <<>>
  /\ \E outcome \in [DOMAIN out_data_ -> Outcome] :
       LET filled == {i \in DOMAIN out_data_ : Filled(i, outcome)}
       IN /\ badfds_' = FdsOf(Selected(out_data_,
                           {i \in DOMAIN out_data_ : ClosedAfter(i, outcome)}))
          /\ out_data_' = Selected(out_data_,
                           {i \in DOMAIN out_data_ : ~Leaves(i, outcome)})
          /\ stuck_' = stuck_ \cup {out_data_[i].fd : i \in filled}
          /\ faults' = IF filled = {} THEN faults ELSE faults + 1
  /\ \/ phase' = "events" /\ batch_' \in SUBSET (server_sockets_ \cup {LISTEN})
     \/ phase' = "over" /\ batch_' = {}
  /\ UNCHANGED <<equeue_, players_, mutex_, rawdata_, loginVars, server_sockets_, unset_,
                 reading_, closing_, accepted, alive>>

(* The batch is done: the loop starts again, unless stop() or a failing    *)
(* epoll_ctl() of accept's loop has ended it.                              *)
EndBatch ==
  /\ alive
  /\ phase = "events" /\ reading_ = NoFd /\ closing_ = NoFd
  /\ batch_ \subseteq {LISTEN}
  /\ phase' \in {"close", "over"}
  /\ batch_' = {}
  /\ UNCHANGED <<worldVars, rawdata_, loginVars, socketVars, badfds_, reading_, closing_,
                 accepted, faults, alive>>

(* The next event of the batch is one of fd. *)
NextEvent(fd) ==
  /\ alive
  /\ phase = "events" /\ reading_ = NoFd /\ closing_ = NoFd
  /\ fd \in batch_ \ {LISTEN}
  /\ batch_' = batch_ \ {fd}
  /\ UNCHANGED phase

(* EPOLLERR or EPOLLHUP. *)
BadEvent(fd) ==
  /\ NextEvent(fd)
  /\ Requestclosefd(fd)
  /\ UNCHANGED <<worldVars, rawdata_, loginVars, socketVars, reading_, closing_, accepted,
                 faults, alive>>

MakeWritable(fd) == stuck_' = stuck_ \ {fd}

(* EPOLLOUT of a full socket, perhaps with EPOLLIN; epoll_ctl() may fail.  *)
OutEvent(fd) ==
  /\ NextEvent(fd)
  /\ fd \in stuck_
  /\ MakeWritable(fd)
  /\ Requestclosefd(fd) \/ UNCHANGED badfds_
  /\ reading_' \in {NoFd, fd}
  /\ UNCHANGED <<worldVars, rawdata_, loginVars, server_sockets_, unset_, closing_,
                 accepted, faults, alive>>

(* A turn of the read loop: the first for an event of fd, or one more. *)
Turn(fd) ==
  \/ NextEvent(fd)
  \/ /\ alive
     /\ phase = "events" /\ reading_ = fd
     /\ UNCHANGED <<phase, batch_>>

(* There may be more to read, or not. *)
ReadsOn(fd) == reading_' \in {NoFd, fd}

(* The peer closed, or the read failed. *)
CloseEvent(fd) ==
  /\ Turn(fd)
  /\ Closesocket(fd)
  /\ UNCHANGED <<badfds_, rawdata_>>

-----------------------------------------------------------------------------
(* GameServer callbacks on the core thread                                 *)

(* rawdata_ once the bytes of a read of fd are fed. *)
Fed(fd) == {Feed(rawdata_, [fd |-> fd], n) : n \in 0 .. MaxRaw - Len(rawdata_)}

(* There is no whole packet: recv answers E_FATAL. *)
RecvPartial(fd) ==
  /\ Len(equeue_) + Len(out_data_) < MaxQueue
  /\ Turn(fd)
  /\ <<>> \in Fed(fd)
  /\ Send(fd, NO_CMD, NoCube, TRUE)
  /\ ReadsOn(fd)
  /\ UNCHANGED <<equeue_, players_, mutex_, rawdata_, loginVars, socketVars, badfds_,
                 closing_, accepted, faults, alive>>

(* The front packet is taken, and with it others of its fd: rawfd, which   *)
(* may be one that was left over and not the fd that is read.              *)
Popped(fd, rawfd) ==
  \E queue \in Fed(fd) :
    /\ queue # <<>>
    /\ rawfd = Head(queue).fd
    /\ rawdata_' = Removed(PopFront(queue), rawfd)

(* The packet is no command the server knows: recv returns 0 and the fd    *)
(* that is read is closed.                                                 *)
RecvInvalid(fd, rawfd) ==
  /\ Turn(fd)
  /\ Popped(fd, rawfd)
  /\ Closesocket(fd)
  /\ UNCHANGED badfds_

StartLogin(fd, user) ==
  loginsockets_' = [v \in DOMAIN loginsockets_ \cup {user} |->
                      IF v = user THEN fd ELSE loginsockets_[v]]

(* cmd_login: an older login of the same user is closed and replaced, and  *)
(* an SslClient thread asks the login server.                              *)
RecvLogin(fd, rawfd, user) ==
  /\ asked < MaxLogin
  /\ Turn(fd)
  /\ Popped(fd, rawfd)
  /\ IF user \in DOMAIN loginsockets_ THEN Requestclosefd(loginsockets_[user])
                                      ELSE UNCHANGED badfds_
  /\ StartLogin(rawfd, user)
  /\ asked' = asked + 1
  /\ threads_' = Append(threads_, [id |-> rawfd, user |-> user, pc |-> "asked",
                                   username |-> user])
  /\ ReadsOn(fd)
  /\ UNCHANGED <<worldVars, socketVars, closing_, accepted, faults, sockets_, granted, alive>>

(* A world command of an authorised fd becomes an event. *)
RecvCommand(fd, rawfd, type) ==
  /\ Len(equeue_) + Len(out_data_) < MaxQueue
  /\ Turn(fd)
  /\ Popped(fd, rawfd)
  /\ rawfd \in DOMAIN sockets_
  /\ AddEvent([type_ |-> type, id_ |-> sockets_[rawfd], fd_ |-> rawfd])
  /\ ReadsOn(fd)
  /\ UNCHANGED <<players_, mutex_, out_data_, loginVars, socketVars, badfds_,
                 closing_, accepted, faults, alive>>

(* Of an fd that is not authorised, sockets_.at() throws in the core       *)
(* thread and nothing catches it.                                          *)
RecvUnauthorised(fd, rawfd) ==
  /\ Command # {}
  /\ Turn(fd)
  /\ Popped(fd, rawfd)
  /\ rawfd \notin DOMAIN sockets_
  /\ alive' = FALSE
  /\ UNCHANGED <<worldVars, loginVars, socketVars, badfds_, reading_, closing_, accepted,
                 faults>>

HandleEvent(fd) ==
  \/ BadEvent(fd)
  \/ OutEvent(fd)
  \/ CloseEvent(fd)
  \/ RecvPartial(fd)
  \/ \E rawfd \in Fd :
       \/ RecvInvalid(fd, rawfd)
       \/ \E user \in User : RecvLogin(fd, rawfd, user)
       \/ \E type \in Command : RecvCommand(fd, rawfd, type)
       \/ RecvUnauthorised(fd, rawfd)

Core ==
  \/ CloseBad
  \/ WritePass
  \/ \E F \in SUBSET Fd : Accept(F)
  \/ \E fd \in Fd : AcceptFails(fd) \/ HandleEvent(fd)
  \/ DisconnectNotify
  \/ EndBatch

-----------------------------------------------------------------------------
(* GameServer::recv(id, error, data) on an SslClient thread                *)

(* The thread goes on at pc, or ends. *)
Goto(t, pc) == threads_' = [threads_ EXCEPT ![t].pc = pc]

Ends(t) == threads_' = RemoveAt(threads_, t)

(* MUTANT of Accepted: "result" is not looked at. *)
Accepted_Any(verdict, user, username) == username = user

(* The reply says E_SUCCESS, for the user name found in loginsockets_. *)
Accepted(verdict, user, username) == verdict = "success" /\ username = user

(* The login server answers, refuses, cannot be reached, or leaves without *)
(* a word ("silent": only E_SYS_STOP arrives).  The thread looks up the    *)
(* user name that waits on its id: none, or a silent end, and it ends.     *)
ReplyLookup(t) ==
  LET id == threads_[t].id
      user == threads_[t].user
  IN /\ alive /\ threads_[t].pc = "asked"
     /\ \E verdict \in {"success", "failure", "error", "silent"} :
          /\ granted' = IF verdict = "success" THEN granted \cup {<<id, PlayerOf[user]>>}
                                               ELSE granted
          /\ \/ /\ PendingOn(id) = {} \/ verdict = "silent"
                /\ Ends(t)
             \/ /\ verdict # "silent"
                /\ \E username \in FirstPending(id) :
                     threads_' = [threads_ EXCEPT ![t] =
                       [id |-> id, user |-> user, username |-> username,
                        pc |-> IF Accepted(verdict, user, username)
                               THEN "erase" ELSE "reject"]]
     /\ UNCHANGED <<worldVars, serverVars, rawdata_, loginsockets_, sockets_, asked, alive>>

(* Refused, unreachable, or for another user: the fd is told and closed. *)
ReplyReject(t) ==
  /\ alive /\ threads_[t].pc = "reject"
  /\ Send(threads_[t].id, NO_CMD, NoCube, TRUE)
  /\ Forget(threads_[t].username)
  /\ Ends(t)
  /\ UNCHANGED <<equeue_, players_, mutex_, serverVars, rawdata_, sockets_, asked, granted, alive>>

(* Accepted: the fd leaves the login list ... *)
ReplyErase(t) ==
  /\ alive /\ threads_[t].pc = "erase"
  /\ Forget(threads_[t].username)
  /\ Goto(t, "insert")
  /\ UNCHANGED <<worldVars, serverVars, rawdata_, sockets_, asked, granted, alive>>

(* MUTANT of Authorise: sockets_[id] = player_id. *)
Authorise_Overwrite(id, player) ==
  sockets_' = [fd \in DOMAIN sockets_ \cup {id} |->
                 IF fd = id THEN player ELSE sockets_[fd]]

(* std::map::insert leaves an existing entry alone. *)
Authorise(id, player) ==
  sockets_' = [fd \in DOMAIN sockets_ \cup {id} |->
                 IF fd \in DOMAIN sockets_ THEN sockets_[fd] ELSE player]

(* ... joins the authorised ones ... *)
ReplyInsert(t) ==
  /\ alive /\ threads_[t].pc = "insert"
  /\ Authorise(threads_[t].id, PlayerOf[threads_[t].user])
  /\ Goto(t, "notify")
  /\ UNCHANGED <<worldVars, serverVars, rawdata_, loginsockets_, asked, granted, alive>>

(* ... and the world is told, once its mutex is free. *)
ReplyNotify(t) ==
  /\ alive /\ threads_[t].pc = "notify"
  /\ AddEvent([type_ |-> TYPE_PLAYER_CONNECT_WORLD,
               id_ |-> PlayerOf[threads_[t].user], fd_ |-> threads_[t].id])
  /\ Ends(t)
  /\ UNCHANGED <<players_, mutex_, out_data_, serverVars, rawdata_, loginsockets_, sockets_,
                 asked, granted, alive>>

SslClient(t) ==
  \/ ReplyLookup(t)
  \/ ReplyReject(t)
  \/ ReplyErase(t)
  \/ ReplyInsert(t)
  \/ ReplyNotify(t)

-----------------------------------------------------------------------------
GameInit ==
  /\ WorldInit
  /\ server_sockets_ = {} /\ stuck_ = {} /\ unset_ = {}
  /\ badfds_ = <<>>
  /\ phase = "close"
  /\ batch_ = {} /\ reading_ = NoFd
  /\ rawdata_ = <<>>
  /\ closing_ = NoFd
  /\ loginsockets_ = [u \in {} |-> NoFd]
  /\ sockets_ = [fd \in {} |-> NoFd]
  /\ threads_ = <<>>
  /\ asked = 0
  /\ alive = TRUE
  /\ accepted = [fd \in Fd |-> 0]
  /\ faults = 0
  /\ granted = {}

WorldTick == alive /\ Tick /\ UNCHANGED <<serverVars, rawdata_, loginVars, alive>>

GameNext ==
  \/ Core
  \/ \E t \in DOMAIN threads_ : SslClient(t)
  \/ WorldTick

GameSpec == GameInit /\ [][GameNext]_vars

(* The main thread ticks for ever.  The core thread never sleeps for ever: *)
(* epoll_wait has a timeout, and World::mutex_, the only thing it waits    *)
(* for, is free again and again, for most of the 500 ms between two ticks. *)
GameFairness ==
  /\ WF_vars(WorldTick)
  /\ SF_vars(Core)

GameFairSpec == GameSpec /\ GameFairness

-----------------------------------------------------------------------------
Thread ==
  [id : Fd, user : User, username : User,
   pc : {"asked", "reject", "erase", "insert", "notify"}]

(* The variables that sessions are made of have their types, and the fd    *)
(* whose disconnect waits for the world is still authorised: no thread     *)
(* takes it out of sockets_ meanwhile, so that at() finds it.              *)
SessionTypeOK ==
  /\ PlayersTypeOK
  /\ equeue_ \in Seq(Event)
  /\ DOMAIN loginsockets_ \subseteq User
  /\ loginsockets_ \in [DOMAIN loginsockets_ -> Fd]
  /\ DOMAIN sockets_ \subseteq Fd
  /\ sockets_ \in [DOMAIN sockets_ -> Player]
  /\ threads_ \in Seq(Thread)
  /\ closing_ # NoFd => closing_ \in DOMAIN sockets_

(* All the variables have their types. *)
GameTypeOK ==
  /\ WorldTypeOK
  /\ SessionTypeOK
  /\ server_sockets_ \cup unset_ \subseteq Fd /\ stuck_ \subseteq server_sockets_
  /\ badfds_ \in Seq(Fd)
  /\ phase \in {"close", "events", "over"}
  /\ batch_ \subseteq Fd \cup {LISTEN}
  /\ {reading_, closing_} \subseteq Fd \cup {NoFd}
  /\ rawdata_ \in Seq([fd : Fd])
  /\ alive \in BOOLEAN
  /\ accepted \in [Fd -> Nat]
  /\ {asked, faults} \subseteq Nat
  /\ granted \subseteq Fd \X Player

(* A verified login travels through three maps and two queues, across two  *)
(* threads and reused fds: whatever the order, an fd acts for a player     *)
(* only if the login server accepted that player's user for that fd.       *)
OnlyGranted ==
  /\ \A t \in DOMAIN threads_ :
       threads_[t].pc \in {"erase", "insert", "notify"} =>
         <<threads_[t].id, PlayerOf[threads_[t].user]>> \in granted
  /\ \A fd \in DOMAIN sockets_ : <<fd, sockets_[fd]>> \in granted
  /\ \A i \in DOMAIN equeue_ : <<equeue_[i].fd_, equeue_[i].id_>> \in granted
  /\ \A p \in DOMAIN players_ : <<players_[p].fd_, p>> \in granted

(* While an fd stays authorised it stays the same player's, although two   *)
(* logins of different users may be answered for it at the same time.      *)
SessionStable ==
  [][\A fd \in DOMAIN sockets_ \cap DOMAIN sockets_' : sockets_'[fd] = sockets_[fd]]_vars

(* disconnect "removes from both logining list and authorized list"        *)
(* (gameserver.cpp): no login waits on an fd that is closed, although one  *)
(* fd may have logged in under several names.                              *)
LoginsOpen == \A u \in DOMAIN loginsockets_ : loginsockets_[u] \in server_sockets_

(* The same for the authorised list, once disconnect is over.              *)
SocketsOpen ==
  \A fd \in DOMAIN sockets_ : fd \in server_sockets_ \/ fd = closing_

(* The connection that was told it will be closed is closed in the end,    *)
(* whatever happens to the other fds, if it takes what it is sent and no   *)
(* client keeps the core thread in its read loop for ever.                 *)
ClosingReplyCloses ==
  \A fd \in Fd :
    ([]<>(fd \notin stuck_) /\ []<>(reading_ = NoFd)) =>
      \A n \in 1 .. MaxAccept :
        (/\ fd \in server_sockets_ /\ accepted[fd] = n
         /\ \E i \in DOMAIN out_data_ : out_data_[i].fd = fd /\ out_data_[i].closefd)
          ~> (fd \notin server_sockets_ \/ accepted[fd] > n \/ ~alive \/ phase = "over")

=============================================================================
