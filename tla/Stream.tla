------------------------------- MODULE Stream -------------------------------
(***************************************************************************)
(* octillion::Server as the carrier of the game's packets: senddata(),     *)
(* the write pass of core_task with its partial writes, EPOLLOUT, closing, *)
(* the kernel's socket buffers, and DataQueue::feed at the other end.      *)
(* Bytes are numbers: a packet is its size in a header of SizeOf bytes     *)
(* followed by its own number, size times.  The client's requests are left *)
(* to GameServer: here an event of a client may only close its fd.         *)
(***************************************************************************)
EXTENDS Naturals, DataQueue

CONSTANTS
  Fd,         \* file descriptors of client sockets
  Room,       \* bytes that a socket's buffer in the kernel holds
  Size,       \* sizes of the packets sent
  MaxSent,    \* bound on the packets sent, a guard of Senddata
  MaxAccept   \* bound on the connections accepted, a guard of Accept and AcceptFails

ASSUME StreamAssumption ==
  /\ Size \subseteq 1 .. 255
  /\ Room \in Nat \ {0}
  /\ MaxSent \in Nat /\ MaxAccept \in Nat

VARIABLES
  phase,      \* part of the loop: "close", "write", "events", or "over" after it
  it,         \* position of the write pass in out_data_
  out_data_,  \* what is left to write: [fd, data, closefd, packet]; packet is history
  sockets_,   \* fd |-> writable, for the open fds
  unset_,     \* fds accepted that could not be made non-blocking: no Socket
  listens_,   \* fds with EPOLLOUT in their epoll interest
  badfds_,    \* fds to close
  events_,    \* fds whose event of this epoll_wait is still to come
  broken_,    \* fds whose peer has reset the connection
  buffer,     \* per fd, bytes written and not yet read by the peer
  workspace_, \* per fd, the peer's DataQueue: bytes of an unfinished packet
  queue_,     \* per fd, the peer's DataQueue: whole packets, history too
  sent_,      \* history: per fd, packets given to senddata for this connection
  sends_,     \* history: number of packets sent
  accepts_    \* history: number of connections

loopVars == <<phase, it, events_>>
peerVars == <<workspace_, queue_, broken_>>
streamVars == <<loopVars, out_data_, sockets_, unset_, listens_, badfds_, buffer, peerVars,
                sent_, sends_, accepts_>>

(* The bytes that GameServer::sendpacket makes of a text. *)
Framed(packet) == <<0, Len(packet)>> \o packet

PacketOf(n, size) == [i \in 1 .. size |-> n]

Open == DOMAIN sockets_

StreamInit ==
  /\ phase = "close" /\ it = 1 /\ events_ = {}
  /\ out_data_ = <<>> /\ badfds_ = <<>>
  /\ sockets_ = [fd \in {} |-> TRUE]
  /\ unset_ = {} /\ listens_ = {}
  /\ buffer = [fd \in Fd |-> <<>>]
  /\ workspace_ = [fd \in Fd |-> <<>>] /\ queue_ = [fd \in Fd |-> <<>>]
  /\ sent_ = [fd \in Fd |-> <<>>]
  /\ broken_ = {}
  /\ sends_ = 0 /\ accepts_ = 0

(* senddata, by the tick's thread, a login thread or the core thread; the  *)
(* write pass has the lock of out_data_.  Nothing asks if the fd is open.  *)
Senddata(fd, size, closefd) ==
  /\ phase # "write"
  /\ sends_ < MaxSent
  /\ LET packet == PacketOf(sends_ + 1, size)
     IN /\ out_data_' = Append(out_data_, [fd |-> fd, data |-> Framed(packet),
                                           closefd |-> closefd, packet |-> packet])
        /\ sent_' = [sent_ EXCEPT ![fd] = Append(@, packet)]
  /\ sends_' = sends_ + 1
  /\ UNCHANGED <<loopVars, sockets_, unset_, listens_, badfds_, buffer, peerVars, accepts_>>

(* What closesocket drops besides the socket. *)
Dropped(fds) ==
  /\ unset_' = unset_ \ fds
  /\ listens_' = listens_ \ fds
  /\ out_data_' = Selected(out_data_, {i \in DOMAIN out_data_ : out_data_[i].fd \notin fds})
  /\ buffer' = [fd \in Fd |-> IF fd \in fds THEN <<>> ELSE buffer[fd]]
  /\ workspace_' = [fd \in Fd |-> IF fd \in fds THEN <<>> ELSE workspace_[fd]]
  /\ queue_' = [fd \in Fd |-> IF fd \in fds THEN <<>> ELSE queue_[fd]]
  /\ sent_' = [fd \in Fd |-> IF fd \in fds THEN <<>> ELSE sent_[fd]]
  /\ broken_' = broken_ \ fds

(* MUTANT of Closesocket: the socket stays in sockets_. *)
Closesocket_KeepsSocket(fds) == Dropped(fds) /\ UNCHANGED sockets_

(* closesocket, for all of fds: the packets that wait for them are dropped *)
(* and nobody reads what the buffers hold as far as this module goes.      *)
Closesocket(fds) == Dropped(fds) /\ sockets_' = Restrict(sockets_, Open \ fds)

(* The fds that were asked to be closed since the last turn. *)
CloseBad ==
  /\ phase = "close"
  /\ Closesocket(ToSet(badfds_))
  /\ badfds_' = <<>>
  /\ phase' = "write" /\ it' = 1
  /\ UNCHANGED <<events_, sends_, accepts_>>

-----------------------------------------------------------------------------
(* The write pass, one packet at a time; the peers read meanwhile. *)

AtPacket == phase = "write" /\ it <= Len(out_data_)

This == out_data_[it]

Writable == This.fd \in Open /\ sockets_[This.fd]

(* The bytes that write() takes; 0 of a full buffer or a broken connection. *)
Taken == IF This.fd \in broken_ THEN 0
         ELSE Min({Len(This.data), Room - Len(buffer[This.fd])})

Written == buffer' = [buffer EXCEPT ![This.fd] = @ \o SubSeq(This.data, 1, Taken)]

(* A packet whose fd is not open asks for the fd to be closed; one whose   *)
(* socket is full waits.                                                   *)
WritePass ==
  /\ AtPacket /\ ~Writable
  /\ badfds_' = IF This.fd \in Open THEN badfds_ ELSE Append(badfds_, This.fd)
  /\ it' = it + 1
  /\ UNCHANGED <<phase, events_, out_data_, sockets_, unset_, listens_, buffer, peerVars,
                 sent_, sends_, accepts_>>

WriteWhole ==
  /\ AtPacket /\ Writable
  /\ Taken = Len(This.data)
  /\ Written
  /\ badfds_' = IF This.closefd THEN Append(badfds_, This.fd) ELSE badfds_
  /\ out_data_' = RemoveAt(out_data_, it)
  /\ UNCHANGED <<loopVars, sockets_, unset_, listens_, peerVars, sent_, sends_, accepts_>>

(* MUTANT of Rest: the whole packet is written again. *)
Rest_Whole(data, taken) == data

(* What is left of a packet after a partial write. *)
Rest(data, taken) == SubSeq(data, taken + 1, Len(data))

(* Only a part was taken: the rest stays where it was in the list, and no  *)
(* packet of the fd is written before its EPOLLOUT.                        *)
WritePartial ==
  /\ AtPacket /\ Writable
  /\ Taken \in 1 .. Len(This.data) - 1
  /\ Written
  /\ sockets_' = [sockets_ EXCEPT ![This.fd] = FALSE]
  /\ listens_' = listens_ \cup {This.fd}
  /\ out_data_' = [out_data_ EXCEPT ![it].data = Rest(@, Taken)]
  /\ it' = it + 1
  /\ UNCHANGED <<phase, events_, unset_, badfds_, peerVars, sent_, sends_, accepts_>>

(* A packet that is given up has the fd closed. *)
GivenUp ==
  /\ badfds_' = Append(badfds_, This.fd)
  /\ out_data_' = RemoveAt(out_data_, it)
  /\ sent_' = [sent_ EXCEPT ![This.fd] =
              RemoveAt(@, CHOOSE i \in DOMAIN @ : @[i] = This.packet)]

(* write() returns -1: the connection is broken, or the last packet has    *)
(* filled the buffer to the brim (EAGAIN), which is no exception here.     *)
WriteFails ==
  /\ AtPacket /\ Writable
  /\ Taken = 0
  /\ GivenUp
  /\ UNCHANGED <<loopVars, sockets_, unset_, listens_, buffer, peerVars, sends_, accepts_>>

(* A partial write of which epoll_ctl fails. *)
WriteStuck ==
  /\ AtPacket /\ Writable
  /\ Taken \in 1 .. Len(This.data) - 1
  /\ Written
  /\ sockets_' = [sockets_ EXCEPT ![This.fd] = FALSE]
  /\ GivenUp
  /\ UNCHANGED <<loopVars, unset_, listens_, peerVars, sends_, accepts_>>

(* EPOLLOUT is listened to and there is room. *)
Ready(fd) == fd \in listens_ \ broken_ /\ Len(buffer[fd]) < Room

(* epoll_wait: a broken connection reports an error, a socket that is      *)
(* listened to and has room is writable; others may have left.  It may     *)
(* also fail, which ends the loop.                                         *)
EpollWait ==
  /\ phase = "write" /\ it > Len(out_data_)
  /\ \/ /\ phase' = "events"
        /\ \E others \in SUBSET Open :
             events_' = {fd \in Open : fd \in broken_ \cup others \/ Ready(fd)}
     \/ phase' = "over" /\ UNCHANGED events_
  /\ UNCHANGED <<it, out_data_, sockets_, unset_, listens_, badfds_, buffer, peerVars,
                 sent_, sends_, accepts_>>

-----------------------------------------------------------------------------
(* The events *)

Pending(fd) == phase = "events" /\ fd \in events_

Handled(fd) == events_' = events_ \ {fd}

(* EPOLLERR or EPOLLHUP. *)
BadEvent(fd) ==
  /\ Pending(fd) /\ fd \in broken_
  /\ badfds_' = Append(badfds_, fd)
  /\ Handled(fd)
  /\ UNCHANGED <<phase, it, out_data_, sockets_, unset_, listens_, buffer, peerVars,
                 sent_, sends_, accepts_>>

(* MUTANT of MakeWritable: the event is not listened to any more, but the  *)
(* socket stays as it was.                                                 *)
MakeWritable_Forgets(fd) == UNCHANGED sockets_ /\ listens_' = listens_ \ {fd}

MakeWritable(fd) ==
  /\ sockets_' = [sockets_ EXCEPT ![fd] = TRUE]
  /\ listens_' = listens_ \ {fd}

(* EPOLLOUT; epoll_ctl may fail, and the fd is closed then. *)
OutEvent(fd) ==
  /\ Pending(fd) /\ Ready(fd)
  /\ MakeWritable(fd)
  /\ badfds_' \in {badfds_, Append(badfds_, fd)}
  /\ Handled(fd)
  /\ UNCHANGED <<phase, it, out_data_, unset_, buffer, peerVars, sent_, sends_, accepts_>>

(* EPOLLIN and the end of the stream, or a request that recv() refuses. *)
CloseEvent(fd) ==
  /\ Pending(fd) /\ fd \notin broken_
  /\ Closesocket({fd})
  /\ Handled(fd)
  /\ UNCHANGED <<phase, it, badfds_, sends_, accepts_>>

(* The kernel gives fd to a connection that is waiting. *)
Given(fd) ==
  /\ phase = "events" /\ fd \notin Open \cup unset_
  /\ accepts_ < MaxAccept
  /\ accepts_' = accepts_ + 1

(* accept(): any fd that is free; packets may wait for it already. *)
Accept(fd) ==
  /\ Given(fd)
  /\ sockets_' = [any \in Open \cup {fd} |-> IF any = fd THEN TRUE ELSE sockets_[any]]
  /\ UNCHANGED <<loopVars, out_data_, unset_, listens_, badfds_, buffer, peerVars, sent_, sends_>>

(* The fd cannot be made non-blocking: it gets no Socket, and is closed in *)
(* the next turn.                                                          *)
AcceptFails(fd) ==
  /\ Given(fd)
  /\ unset_' = unset_ \cup {fd}
  /\ badfds_' = Append(badfds_, fd)
  /\ UNCHANGED <<loopVars, out_data_, sockets_, listens_, buffer, peerVars, sent_, sends_>>

(* The loop starts again, unless stop() or a failing epoll_ctl() of an     *)
(* accepted fd has ended it.                                               *)
EndEvents ==
  /\ phase = "events" /\ events_ = {}
  /\ phase' \in {"close", "over"}
  /\ UNCHANGED <<it, events_, out_data_, sockets_, unset_, listens_, badfds_, buffer, peerVars,
                 sent_, sends_, accepts_>>

-----------------------------------------------------------------------------
(* The peers *)

(* The peer reads some of the bytes there are and feeds its DataQueue. *)
PeerReads(fd) ==
  /\ \E n \in 1 .. Len(buffer[fd]) :
       LET fed == FeedBytes(workspace_[fd] \o SubSeq(buffer[fd], 1, n))
       IN /\ buffer' = [buffer EXCEPT ![fd] = SubSeq(@, n + 1, Len(@))]
          /\ workspace_' = [workspace_ EXCEPT ![fd] = fed.workspace]
          /\ queue_' = [queue_ EXCEPT ![fd] = @ \o fed.queue]
  /\ UNCHANGED <<loopVars, out_data_, sockets_, unset_, listens_, badfds_, broken_,
                 sent_, sends_, accepts_>>

(* The peer resets the connection: what is under way is gone. *)
PeerResets(fd) ==
  /\ fd \in Open \ broken_
  /\ broken_' = broken_ \cup {fd}
  /\ buffer' = [buffer EXCEPT ![fd] = <<>>]
  /\ UNCHANGED <<loopVars, out_data_, sockets_, unset_, listens_, badfds_, workspace_, queue_,
                 sent_, sends_, accepts_>>

Write == WritePass \/ WriteWhole \/ WritePartial \/ WriteFails \/ WriteStuck

Event(fd) == BadEvent(fd) \/ OutEvent(fd) \/ CloseEvent(fd)

(* core_task *)
Core == CloseBad \/ Write \/ EpollWait \/ (\E fd \in Fd : Event(fd)) \/ EndEvents

StreamNext ==
  \/ Core
  \/ \E fd \in Fd : Accept(fd) \/ AcceptFails(fd) \/ PeerReads(fd) \/ PeerResets(fd)
  \/ \E fd \in Fd, size \in Size, closefd \in BOOLEAN : Senddata(fd, size, closefd)

StreamSpec == StreamInit /\ [][StreamNext]_streamVars

(* core_task never rests, epoll_wait times out, and a peer reads what it   *)
(* was sent until it resets the connection.                                *)
StreamFairness == WF_streamVars(Core) /\ \A fd \in Fd : WF_streamVars(PeerReads(fd))

StreamFairSpec == StreamSpec /\ StreamFairness

-----------------------------------------------------------------------------
Packets == {PacketOf(n, size) : n \in 1 .. MaxSent, size \in Size}

(* The variables have their types; a socket that is not writable waits for *)
(* EPOLLOUT, or is about to be closed.                                     *)
StreamTypeOK ==
  /\ phase \in {"close", "write", "events", "over"}
  /\ it \in 1 .. Len(out_data_) + 1 \/ phase # "write"
  /\ \A i \in 1 .. Len(out_data_) :
       /\ out_data_[i].fd \in Fd /\ out_data_[i].packet \in Packets
       /\ Len(out_data_[i].data) \in 1 .. Len(Framed(out_data_[i].packet))
  /\ sockets_ \in [Open -> BOOLEAN] /\ Open \cup unset_ \subseteq Fd
  /\ listens_ \cup events_ \cup broken_ \subseteq Open
  /\ badfds_ \in Seq(Fd)
  /\ \A fd \in Fd : Len(buffer[fd]) <= Room
  /\ \A fd \in Open : sockets_[fd] \/ fd \in listens_ \cup ToSet(badfds_)

Fifo == INSTANCE PacketFifo WITH
          Packet <- Packets, sent <- sent_, got <- queue_, doomed <- ToSet(badfds_)

(* Whatever the write pass, the buffers and the peers' reads cut the bytes *)
(* into, the packets of a connection arrive whole, once and in order;      *)
(* only one that is going to be closed may miss some.                      *)
PacketsInOrder == Fifo!FifoSpec

Owed(fd) == fd \in Open /\ queue_[fd] # sent_[fd]

(* While the loop runs a connection gets all that was sent to it, or ends: *)
(* no rest of a packet stays behind a full buffer.                         *)
DeliveredOrClosed == \A fd \in Fd : Owed(fd) ~> (~Owed(fd) \/ phase = "over")

(* A connection that missed a packet is closed while the loop runs, and    *)
(* with it any that got its fd in the same turn of the loop.               *)
DoomedCloses ==
  \A fd \in Fd : fd \in ToSet(badfds_) ~> (fd \notin Open \/ phase = "over")

=============================================================================
