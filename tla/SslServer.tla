----------------------------- MODULE SslServer -----------------------------
(***************************************************************************)
(* octillion::SslServer with LoginServer::recv as its callback: the loop   *)
(* of core_task that closes fds on request, writes the packets in          *)
(* out_data_, and handles the events of the client sockets.  One thread    *)
(* runs it all; clients come, send, stall and leave between the steps.     *)
(***************************************************************************)
EXTENDS Naturals, DataQueue

CONSTANTS
  Fd,          \* file descriptors the kernel gives to client sockets
  MaxConn,     \* bound on connections accepted, a guard of AcceptOne and AcceptFails
  MaxRequests, \* bound on requests sent, a guard of Recv
  MaxBurst,    \* bound on the requests one read brings, a guard of Recv
  MaxStalls    \* bound on writes the kernel refuses, a guard of WriteStalls

ASSUME FdAssumption == Fd \subseteq Nat \ {0} \* 0 stands for server_fd_
ASSUME BoundAssumption ==
  {MaxConn, MaxRequests, MaxBurst, MaxStalls} \subseteq Nat

VARIABLES
  phase,      \* part of the loop: "close", "write", "events", or "over" after it
  it,         \* position of the write pass in out_data_
  sockets_,   \* fd |-> [writable, ready, conn]; conn is history: which connection
  out_data_,  \* packets to write: [fd, disconnect, conn]
  badfds_,    \* fds to close
  queue_,     \* LoginServer's rawdata_: whole requests [fd, conn]
  open_,      \* the client fds open in the kernel
  events_,    \* fds whose event of this epoll_wait is still to come; 0 = server_fd_
  reading_,   \* the fd in the SSL_read loop, 0 if none
  conns_,     \* history: connections accepted
  requests_,  \* history: requests sent
  stalls_,    \* history: writes refused
  crowded_,   \* history: a read has brought more than two requests
  flagSent_,  \* history: connections a packet with the disconnect flag was written to
  flagClose_  \* history: connections the write pass asked to close for the flag alone

kernelVars == <<open_, events_, reading_>>
boundVars == <<conns_, requests_, stalls_>>
historyVars == <<crowded_, flagSent_, flagClose_>>
sslVars == <<phase, it, sockets_, out_data_, badfds_, queue_, kernelVars,
             boundVars, historyVars>>

SERVER == 0
None == 0

SslInit ==
  /\ phase = "close"
  /\ it = 1
  /\ sockets_ = [fd \in {} |-> None]
  /\ out_data_ = <<>> /\ badfds_ = <<>> /\ queue_ = <<>>
  /\ open_ = {} /\ events_ = {} /\ reading_ = None
  /\ conns_ = 0 /\ requests_ = 0 /\ stalls_ = 0
  /\ crowded_ = FALSE /\ flagSent_ = {} /\ flagClose_ = {}

(* MUTANT of Requestclosefd: the request is lost. *)
Requestclosefd_Lost(fd) == UNCHANGED badfds_

(* requestclosefd *)
Requestclosefd(fd) == badfds_' = Append(badfds_, fd)

(* MUTANT of Kept: packets of closed fds stay. *)
Kept_All(fds) == out_data_

(* The packets of other fds. *)
Kept(fds) == Selected(out_data_, {i \in DOMAIN out_data_ : out_data_[i].fd \notin fds})

(* MUTANT of Closesocket: the fd stays in sockets_. *)
Closesocket_KeepsSocket(fds) ==
  /\ open_' = open_ \ fds
  /\ out_data_' = Kept(fds)
  /\ UNCHANGED sockets_

(* closesocket, for all of fds: the fd is closed whether or not it is in   *)
(* sockets_, its SSL is freed and its packets dropped.  LoginServer's      *)
(* disconnect() does nothing: its queue_ keeps what the fd sent.           *)
Closesocket(fds) ==
  /\ open_' = open_ \ fds
  /\ sockets_' = [fd \in DOMAIN sockets_ \ fds |-> sockets_[fd]]
  /\ out_data_' = Kept(fds)

(* The fds that were asked to be closed since the last turn. *)
CloseBad ==
  /\ phase = "close"
  /\ Closesocket(ToSet(badfds_))
  /\ badfds_' = <<>>
  /\ phase' = "write"
  /\ it' = 1
  /\ UNCHANGED <<queue_, events_, reading_, boundVars, historyVars>>

-----------------------------------------------------------------------------
(* The write pass *)

AtPacket == phase = "write" /\ it <= Len(out_data_)

Packet == out_data_[it]

Writable == Packet.fd \in DOMAIN sockets_ /\ sockets_[Packet.fd].writable

(* A packet whose fd is not in sockets_ asks for the fd to be closed; one  *)
(* whose socket is full waits.                                             *)
WritePass ==
  /\ AtPacket
  /\ ~Writable
  /\ badfds_' = IF Packet.fd \in DOMAIN sockets_ THEN badfds_
                ELSE Append(badfds_, Packet.fd)
  /\ it' = it + 1
  /\ UNCHANGED <<phase, sockets_, out_data_, queue_, kernelVars, boundVars, historyVars>>

(* The test of the disconnect flag at the end of the loop's body.  It is   *)
(* made on the packet the iterator has already moved to, the one after the *)
(* packet just handled; there is no flag at the end of the list (the byte  *)
(* read there is 0 with libstdc++ and glibc).                              *)
FlagTest(packets, pos, bad) ==
  IF pos <= Len(packets) /\ packets[pos].disconnect
  THEN /\ badfds_' = Append(bad, packets[pos].fd)
       /\ flagClose_' = IF packets[pos].fd \in ToSet(bad) THEN flagClose_
                        ELSE flagClose_ \cup {packets[pos].conn}
       /\ it' = pos + 1
  ELSE /\ badfds_' = bad
       /\ it' = pos
       /\ UNCHANGED flagClose_

(* SSL_write took the packet. *)
WriteSent ==
  /\ AtPacket /\ Writable
  /\ out_data_' = RemoveAt(out_data_, it)
  /\ flagSent_' = IF Packet.disconnect THEN flagSent_ \cup {Packet.conn} ELSE flagSent_
  /\ FlagTest(out_data_', it, badfds_)
  /\ UNCHANGED <<phase, sockets_, queue_, kernelVars, boundVars, crowded_>>

Fill(fd) == sockets_' = [sockets_ EXCEPT ![fd].writable = FALSE]

(* SSL_write fails, or the socket is full and epoll_ctl fails. *)
WriteFails ==
  /\ AtPacket /\ Writable
  /\ out_data_' = RemoveAt(out_data_, it)
  /\ FlagTest(out_data_', it, Append(badfds_, Packet.fd))
  /\ UNCHANGED sockets_ \/ Fill(Packet.fd)
  /\ UNCHANGED <<phase, queue_, kernelVars, boundVars, crowded_, flagSent_>>

(* The socket is full: EPOLLOUT is waited for. *)
WriteStalls ==
  /\ AtPacket /\ Writable
  /\ stalls_ < MaxStalls
  /\ stalls_' = stalls_ + 1
  /\ Fill(Packet.fd)
  /\ FlagTest(out_data_, it + 1, badfds_)
  /\ UNCHANGED <<phase, out_data_, queue_, kernelVars, conns_, requests_, crowded_, flagSent_>>

(* epoll_wait: any open fd and the server's may have an event.  It may     *)
(* also fail, which ends the loop.                                         *)
EpollWait ==
  /\ phase = "write"
  /\ it > Len(out_data_)
  /\ \/ phase' = "events" /\ events_' = open_ \cup {SERVER}
     \/ phase' = "over" /\ UNCHANGED events_
  /\ UNCHANGED <<it, sockets_, out_data_, badfds_, queue_, open_, reading_,
                 boundVars, historyVars>>

WriteStep == WritePass \/ WriteSent \/ WriteFails \/ WriteStalls \/ EpollWait

-----------------------------------------------------------------------------
(* The events *)

Pending(fd) == phase = "events" /\ reading_ = None /\ fd \in events_

Handled(fd) == events_' = events_ \ {fd}

(* EPOLLERR or EPOLLHUP; of the server's own fd it is only logged. *)
BadEvent(fd) ==
  /\ Pending(fd)
  /\ Handled(fd)
  /\ badfds_' = IF fd = SERVER THEN badfds_ ELSE Append(badfds_, fd)
  /\ UNCHANGED <<phase, it, sockets_, out_data_, queue_, open_, reading_,
                 boundVars, historyVars>>

(* MUTANT of MakeWritable: EPOLLOUT is not listened to any more, but the   *)
(* socket stays as it was.                                                 *)
MakeWritable_Forgets(fd) == UNCHANGED sockets_

MakeWritable(fd) == sockets_' = [sockets_ EXCEPT ![fd].writable = TRUE]

(* EPOLLOUT, only listened to while the socket is full; the same event may *)
(* bring EPOLLIN too.  epoll_ctl may fail.                                 *)
OutEvent(fd) ==
  /\ Pending(fd)
  /\ fd \in DOMAIN sockets_ /\ ~sockets_[fd].writable
  /\ MakeWritable(fd)
  /\ Handled(fd)
  /\ badfds_' \in {badfds_, Append(badfds_, fd)}
  /\ reading_' \in {None, fd}
  /\ UNCHANGED <<phase, it, out_data_, queue_, open_, boundVars, historyVars>>

(* EPOLLIN: the handshake is done, or done now. *)
InEvent(fd) ==
  /\ Pending(fd)
  /\ fd \in DOMAIN sockets_
  /\ sockets_' = [sockets_ EXCEPT ![fd].ready = TRUE]
  /\ reading_' = fd
  /\ Handled(fd)
  /\ UNCHANGED <<phase, it, out_data_, badfds_, queue_, open_, boundVars, historyVars>>

(* SSL_accept wants more, or fails. *)
Handshake(fd) ==
  /\ Pending(fd)
  /\ fd \in DOMAIN sockets_ /\ ~sockets_[fd].ready
  /\ \/ UNCHANGED <<open_, sockets_, out_data_>>
     \/ Closesocket({fd})
  /\ Handled(fd)
  /\ UNCHANGED <<phase, it, badfds_, queue_, reading_, boundVars, historyVars>>

NewSocket(ready) == [writable |-> TRUE, ready |-> ready, conn |-> conns_ + 1]

FreeFd(fd) == fd \in Fd \ open_ /\ \A other \in Fd \ open_ : fd <= other

(* A connection is accepted; its handshake may be over at once. *)
AcceptOne ==
  /\ Pending(SERVER)
  /\ conns_ < MaxConn
  /\ \E fd \in Fd, ready \in BOOLEAN :
       /\ FreeFd(fd)
       /\ open_' = open_ \cup {fd}
       /\ sockets_' = [s \in DOMAIN sockets_ \cup {fd} |->
                         IF s \in DOMAIN sockets_ THEN sockets_[s] ELSE NewSocket(ready)]
  /\ conns_' = conns_ + 1
  /\ UNCHANGED <<phase, it, out_data_, badfds_, queue_, events_, reading_,
                 requests_, stalls_, historyVars>>

(* The fd cannot be made non-blocking, or SSL_accept fails. *)
AcceptFails ==
  /\ Pending(SERVER)
  /\ conns_ < MaxConn
  /\ \E fd \in Fd :
       /\ FreeFd(fd)
       /\ open_' = open_ \cup {fd}
       /\ Requestclosefd(fd)
  /\ conns_' = conns_ + 1
  /\ UNCHANGED <<phase, it, sockets_, out_data_, queue_, events_, reading_,
                 requests_, stalls_, historyVars>>

AcceptEnd ==
  /\ Pending(SERVER)
  /\ Handled(SERVER)
  /\ UNCHANGED <<phase, it, sockets_, out_data_, badfds_, queue_, open_, reading_,
                 boundVars, historyVars>>

-----------------------------------------------------------------------------
(* SSL_read and LoginServer::recv *)

Owner(fd) == sockets_[fd].conn

(* LoginServer::sendpacket always sets the disconnect flag. *)
Reply(fd, conn) ==
  out_data_' = Append(out_data_, [fd |-> fd, disconnect |-> TRUE, conn |-> conn])

(* The bytes read complete n requests; with those left in the queue there  *)
(* is none: the fd is told E_FATAL.                                        *)
RecvPartial(fd, n) ==
  /\ n = 0 /\ queue_ = <<>>
  /\ Reply(fd, Owner(fd))
  /\ UNCHANGED <<queue_, open_, sockets_, reading_>>

Fed(fd, n) == Feed(queue_, [fd |-> fd, conn |-> Owner(fd)], n)

(* One request is popped, answered to the fd that sent it, and the others  *)
(* of that fd are removed.                                                 *)
RecvRequest(fd, n) ==
  /\ Fed(fd, n) # <<>>
  /\ LET front == Head(Fed(fd, n))
     IN /\ Reply(front.fd, front.conn)
        /\ queue_' = Removed(PopFront(Fed(fd, n)), front.fd)
  /\ UNCHANGED <<open_, sockets_, reading_>>

(* dispatch() finds the request invalid and returns 0: the fd that is read *)
(* is closed.                                                              *)
RecvInvalid(fd, n) ==
  /\ Fed(fd, n) # <<>>
  /\ queue_' = Removed(PopFront(Fed(fd, n)), Head(Fed(fd, n)).fd)
  /\ Closesocket({fd})
  /\ reading_' = None

(* One SSL_read that brings data, and the callback. *)
Recv ==
  /\ reading_ # None
  /\ requests_ < MaxRequests
  /\ \E n \in 0 .. MaxBurst :
       /\ requests_' = requests_ + 1
       /\ crowded_' = (crowded_ \/ n > 2)
       /\ \/ RecvPartial(reading_, n)
          \/ RecvRequest(reading_, n)
          \/ RecvInvalid(reading_, n)
  /\ UNCHANGED <<phase, it, badfds_, events_, conns_, stalls_, flagSent_, flagClose_>>

(* SSL_read wants more data. *)
ReadDone ==
  /\ reading_ # None
  /\ reading_' = None
  /\ UNCHANGED <<phase, it, sockets_, out_data_, badfds_, queue_, open_, events_,
                 boundVars, historyVars>>

(* SSL_read fails: the client has left. *)
ReadFails ==
  /\ reading_ # None
  /\ Closesocket({reading_})
  /\ reading_' = None
  /\ UNCHANGED <<phase, it, badfds_, queue_, events_, boundVars, historyVars>>

(* The loop starts again, unless stop() or a failing epoll_ctl() of an     *)
(* accepted fd has ended it.                                               *)
EndEvents ==
  /\ phase = "events" /\ reading_ = None
  /\ phase' \in {"close", "over"}
  /\ events_' = {}
  /\ UNCHANGED <<it, sockets_, out_data_, badfds_, queue_, open_, reading_,
                 boundVars, historyVars>>

Event(fd) == BadEvent(fd) \/ OutEvent(fd) \/ InEvent(fd) \/ Handshake(fd)

Accept == AcceptOne \/ AcceptFails \/ AcceptEnd

Read == Recv \/ ReadDone \/ ReadFails

(* core_task *)
Core == CloseBad \/ WriteStep \/ (\E fd \in Fd \cup {SERVER} : Event(fd))
        \/ Accept \/ Read \/ EndEvents

SslSpec == SslInit /\ [][Core]_sslVars

(* The loop goes on, and a client whose socket is full reads some day: its *)
(* EPOLLOUT comes in one of the turns in which it could.                   *)
SslFairness == WF_sslVars(Core) /\ \A fd \in Fd : SF_sslVars(OutEvent(fd))

SslFairSpec == SslSpec /\ SslFairness

-----------------------------------------------------------------------------
Conn == 1 .. MaxConn

(* The variables have their types. *)
SslTypeOK ==
  /\ phase \in {"close", "write", "events", "over"}
  /\ it \in 1 .. Len(out_data_) + 1 \/ phase # "write"
  /\ sockets_ \in [DOMAIN sockets_ -> [writable : BOOLEAN, ready : BOOLEAN, conn : Conn]]
  /\ out_data_ \in Seq([fd : Fd, disconnect : BOOLEAN, conn : Conn])
  /\ badfds_ \in Seq(Fd)
  /\ queue_ \in Seq([fd : Fd, conn : Conn])
  /\ DOMAIN sockets_ \subseteq open_ /\ open_ \subseteq Fd
  /\ events_ \subseteq Fd \cup {SERVER}
  /\ reading_ \in Fd \cup {None}
  /\ crowded_ \in BOOLEAN
  /\ flagSent_ \cup flagClose_ \subseteq Conn

(* Every fd that may report an event has a socket: core_task never leaves  *)
(* its loop with "fatal error, cannot find the socket in list".            *)
SocketFound ==
  phase = "events" => events_ \cap Fd \subseteq DOMAIN sockets_

(* A packet waits for the connection whose request it answers, never for   *)
(* another one that got the same fd, as long as no read has brought more   *)
(* than two requests: what DataQueue::remove leaves of three is answered   *)
(* to whoever has the fd then.                                             *)
RepliesForOwner ==
  ~crowded_ =>
    \A i \in 1 .. Len(out_data_) :
      /\ out_data_[i].fd \in DOMAIN sockets_
      /\ Owner(out_data_[i].fd) = out_data_[i].conn

Waiting(c) == \E i \in 1 .. Len(out_data_) : out_data_[i].conn = c

(* While the loop runs no packet waits for ever, also behind a socket that *)
(* was full: EPOLLOUT is listened to whenever a socket is not writable.    *)
PacketsLeave == \A c \in Conn : Waiting(c) ~> (~Waiting(c) \/ phase = "over")

(* sslserver.hpp of senddata: "if disconnect is true, server will close    *)
(* the connection after data sent"; so a connection the write pass wants   *)
(* closed for the flag alone has been sent such a packet.                  *)
SentBeforeClose == flagClose_ \subseteq flagSent_

=============================================================================
