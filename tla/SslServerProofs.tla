--------------------------- MODULE SslServerProofs ---------------------------
(***************************************************************************)
(* Theorems about SslServer for any fds and bounds: the types of its       *)
(* variables, that every fd that may report an event has a socket, and     *)
(* that a reply waits for the connection that asked, as long as no read    *)
(* has brought more than two requests.                                     *)
(***************************************************************************)
EXTENDS SslServer, ListProofs

Socket == [writable : BOOLEAN, ready : BOOLEAN, conn : Conn]

Answer == [fd : Fd, disconnect : BOOLEAN, conn : Conn]

Request == [fd : Fd, conn : Conn]

(* What SslTypeOK says of each of the lists, and what the types rest on: a *)
(* socket is read in the events' part of the loop only.                    *)
TypeInv ==
  /\ SslTypeOK
  /\ conns_ \in 0 .. MaxConn
  /\ reading_ # None => phase = "events" /\ reading_ \in DOMAIN sockets_

-----------------------------------------------------------------------------
(* The types *)

LEMMA BoundsNat == MaxConn \in Nat /\ MaxRequests \in Nat /\ MaxBurst \in Nat
  BY BoundAssumption

LEMMA SslTypeInit == SslInit => TypeInv
<1> SUFFICES ASSUME SslInit PROVE TypeInv
  OBVIOUS
<1>1. <<>> \in Seq(Answer) /\ <<>> \in Seq(Fd) /\ <<>> \in Seq(Request)
  BY EmptySeq
<1>2. sockets_ \in [DOMAIN sockets_ -> Socket] /\ DOMAIN sockets_ = {}
  BY DEF SslInit
<1>3. crowded_ \in BOOLEAN
  BY Zenon DEF SslInit
<1> QED
  BY <1>1, <1>2, <1>3, BoundsNat DEF SslInit, TypeInv, SslTypeOK, Socket, Answer, Request, None

(* What closesocket leaves has the types it had. *)
LEMMA ClosesocketTyped ==
  ASSUME SslTypeOK, NEW fds, Closesocket(fds)
  PROVE  /\ sockets_' \in [DOMAIN sockets_' -> Socket]
         /\ out_data_' \in Seq(Answer)
         /\ DOMAIN sockets_' = DOMAIN sockets_ \ fds
         /\ open_' = open_ \ fds
         /\ \A fd \in DOMAIN sockets_' : sockets_'[fd] = sockets_[fd]
<1>1. out_data_ \in Seq(Answer) /\ sockets_ \in [DOMAIN sockets_ -> Socket]
  BY DEF SslTypeOK, Answer, Socket
<1>2. out_data_' \in Seq(Answer)
  BY <1>1, SelectedElements DEF Closesocket, Kept
<1> QED
  BY <1>1, <1>2 DEF Closesocket

(* The test of the flag keeps the iterator within the list, or at its end. *)
LEMMA FlagTestTyped ==
  ASSUME NEW packets \in Seq(Answer), NEW pos \in 1 .. Len(packets) + 1, NEW bad \in Seq(Fd),
         flagClose_ \subseteq Conn, FlagTest(packets, pos, bad)
  PROVE  /\ badfds_' \in Seq(Fd) /\ flagClose_' \subseteq Conn
         /\ it' \in 1 .. Len(packets) + 1
<1>1. Len(packets) \in Nat
  BY LenProperties
<1>2. CASE pos <= Len(packets) /\ packets[pos].disconnect
  <2>1. pos <= Len(packets)
    BY <1>2
  <2>2. packets[pos] \in Answer
    <3>1. pos \in 1 .. Len(packets)
      BY <1>1, <2>1
    <3> QED
      BY <3>1, ElementOfSeq
  <2>3. packets[pos].fd \in Fd /\ packets[pos].conn \in Conn
    BY <2>2 DEF Answer
  <2>4. Append(bad, packets[pos].fd) \in Seq(Fd)
    BY <2>3, AppendProperties
  <2>5. /\ badfds_' = Append(bad, packets[pos].fd) /\ it' = pos + 1
        /\ flagClose_' \in {flagClose_, flagClose_ \cup {packets[pos].conn}}
    BY <1>2, Zenon DEF FlagTest
  <2>6. it' \in 1 .. Len(packets) + 1
    BY <1>1, <2>1, <2>5
  <2> QED
    BY <2>3, <2>4, <2>5, <2>6
<1>3. CASE ~(pos <= Len(packets) /\ packets[pos].disconnect)
  BY <1>1, <1>3 DEF FlagTest
<1> QED
  BY <1>2, <1>3

(* The bytes of a read complete whole requests of its fd. *)
LEMMA FedTyped ==
  ASSUME TypeInv, reading_ # None, NEW n \in Nat
  PROVE  /\ reading_ \in Fd /\ Owner(reading_) \in Conn
         /\ Fed(reading_, n) \in Seq(Request)
<1> DEFINE packet == [fd |-> reading_, conn |-> Owner(reading_)]
<1>1. /\ reading_ \in DOMAIN sockets_ /\ DOMAIN sockets_ \subseteq Fd
      /\ sockets_ \in [DOMAIN sockets_ -> Socket] /\ queue_ \in Seq(Request)
  BY DEF TypeInv, SslTypeOK, Socket, Request
<1>2. Owner(reading_) \in Conn
  BY <1>1 DEF Owner, Socket
<1>3. packet \in Request
  BY <1>1, <1>2 DEF Request
<1>4. Fed(reading_, n) = queue_ \o [i \in 1 .. n |-> packet]
  BY DEF Fed, Feed
<1> HIDE DEF packet
<1>5. [i \in 1 .. n |-> packet] \in Seq(Request)
  BY <1>3, CopiesTyped
<1> QED
  BY <1>1, <1>2, <1>4, <1>5, ConcatProperties

(* Answering is appending a packet. *)
LEMMA ReplyTyped ==
  ASSUME SslTypeOK, NEW fd \in Fd, NEW conn \in Conn, Reply(fd, conn)
  PROVE  out_data_' \in Seq(Answer)
<1>1. out_data_ \in Seq(Answer)
  BY DEF SslTypeOK, Answer
<1>2. [fd |-> fd, disconnect |-> TRUE, conn |-> conn] \in Answer
  BY DEF Answer
<1> QED
  BY <1>1, <1>2, AppendProperties DEF Reply

LEMMA RecvTyped ==
  ASSUME TypeInv, Recv
  PROVE  TypeInv'
<1> USE DEF TypeInv, boundVars
<1>1. PICK n \in 0 .. MaxBurst :
        /\ crowded_' = (crowded_ \/ n > 2)
        /\ RecvPartial(reading_, n) \/ RecvRequest(reading_, n) \/ RecvInvalid(reading_, n)
  BY DEF Recv
<1>0. crowded_' \in BOOLEAN
  BY <1>1, Zenon
<1>2. /\ n \in Nat /\ reading_ # None /\ phase = "events" /\ phase' = "events"
      /\ UNCHANGED <<phase, it, badfds_, events_, conns_, flagSent_, flagClose_>>
  BY <1>1, BoundsNat DEF Recv
<1>3. /\ reading_ \in Fd /\ Owner(reading_) \in Conn
      /\ Fed(reading_, n) \in Seq(Request)
  BY <1>2, FedTyped
<1>4. ASSUME Fed(reading_, n) # <<>>
      PROVE  /\ Head(Fed(reading_, n)) \in Request
             /\ Removed(PopFront(Fed(reading_, n)), Head(Fed(reading_, n)).fd) \in Seq(Request)
  <2>1. Head(Fed(reading_, n)) \in Request /\ PopFront(Fed(reading_, n)) \in Seq(Request)
    BY <1>3, <1>4, HeadTailProperties DEF PopFront
  <2> QED
    BY <2>1, RemovedTyped
<1>5. CASE RecvPartial(reading_, n)
  <2>1. out_data_' \in Seq(Answer)
    BY <1>3, <1>5, ReplyTyped DEF RecvPartial
  <2> QED
    BY <1>0, <1>2, <1>5, <2>1 DEF RecvPartial, SslTypeOK, Answer
<1>6. CASE RecvRequest(reading_, n)
  <2>1. Fed(reading_, n) # <<>>
    BY <1>6 DEF RecvRequest
  <2>2. /\ Reply(Head(Fed(reading_, n)).fd, Head(Fed(reading_, n)).conn)
        /\ queue_' = Removed(PopFront(Fed(reading_, n)), Head(Fed(reading_, n)).fd)
    BY <1>6 DEF RecvRequest
  <2>3. Head(Fed(reading_, n)).fd \in Fd /\ Head(Fed(reading_, n)).conn \in Conn
    BY <1>4, <2>1 DEF Request
  <2>4. out_data_' \in Seq(Answer) /\ queue_' \in Seq(Request)
    BY <1>4, <2>1, <2>2, <2>3, ReplyTyped
  <2> QED
    BY <1>0, <1>2, <1>6, <2>4 DEF RecvRequest, SslTypeOK, Answer, Request
<1>7. CASE RecvInvalid(reading_, n)
  <2>1. Fed(reading_, n) # <<>> /\ Closesocket({reading_}) /\ reading_' = None
    BY <1>7 DEF RecvInvalid
  <2>2. queue_' \in Seq(Request)
    BY <1>4, <1>7 DEF RecvInvalid
  <2>3. /\ sockets_' \in [DOMAIN sockets_' -> Socket]
        /\ out_data_' \in Seq(Answer)
        /\ DOMAIN sockets_' = DOMAIN sockets_ \ {reading_}
        /\ open_' = open_ \ {reading_}
    BY <2>1, ClosesocketTyped
  <2> QED
    BY <1>0, <1>2, <2>1, <2>2, <2>3 DEF SslTypeOK, Answer, Request, Socket
<1> QED
  BY <1>1, <1>5, <1>6, <1>7

(* A packet of the list, and the list without it. *)
LEMMA PacketTyped ==
  ASSUME SslTypeOK, AtPacket
  PROVE  /\ it \in 1 .. Len(out_data_) /\ Packet \in Answer /\ Packet.fd \in Fd
         /\ Packet.conn \in Conn
         /\ RemoveAt(out_data_, it) \in Seq(Answer)
         /\ Len(RemoveAt(out_data_, it)) = Len(out_data_) - 1
<1>1. out_data_ \in Seq(Answer) /\ Len(out_data_) \in Nat
  BY LenProperties DEF SslTypeOK, Answer
<1>2. it \in 1 .. Len(out_data_)
  BY <1>1 DEF SslTypeOK, AtPacket
<1>3. Packet \in Answer
  BY <1>1, <1>2, ElementOfSeq DEF Packet
<1> QED
  BY <1>1, <1>2, <1>3, RemoveAtProperties DEF Answer

LEMMA WriteTyped ==
  ASSUME TypeInv, WriteStep
  PROVE  TypeInv'
<1> USE DEF TypeInv, kernelVars, boundVars, historyVars
<1>1. /\ out_data_ \in Seq(Answer) /\ Len(out_data_) \in Nat
      /\ sockets_ \in [DOMAIN sockets_ -> Socket] /\ badfds_ \in Seq(Fd)
  BY LenProperties DEF SslTypeOK, Answer, Socket
<1>2. CASE WritePass
  <2>1. it \in 1 .. Len(out_data_) /\ Packet.fd \in Fd
    BY <1>2, PacketTyped DEF WritePass
  <2>2. badfds_' \in Seq(Fd)
    BY <1>1, <1>2, <2>1, AppendProperties DEF WritePass
  <2>3. it' \in 1 .. Len(out_data_') + 1
    BY <1>1, <1>2, <2>1 DEF WritePass
  <2> QED
    BY <1>2, <2>2, <2>3 DEF WritePass, SslTypeOK
<1>3. CASE WriteSent
  <2>1. /\ it \in 1 .. Len(out_data_) /\ Packet.conn \in Conn
        /\ out_data_' \in Seq(Answer) /\ Len(out_data_') = Len(out_data_) - 1
    BY <1>3, PacketTyped DEF WriteSent
  <2>2. it \in 1 .. Len(out_data_') + 1 /\ FlagTest(out_data_', it, badfds_)
    BY <1>1, <1>3, <2>1 DEF WriteSent
  <2>3. /\ badfds_' \in Seq(Fd) /\ flagClose_' \subseteq Conn
        /\ it' \in 1 .. Len(out_data_') + 1
    BY <1>1, <2>1, <2>2, FlagTestTyped DEF SslTypeOK
  <2> QED
    BY <1>3, <2>1, <2>3 DEF WriteSent, SslTypeOK, Answer
<1>4. CASE WriteFails
  <2>1. /\ it \in 1 .. Len(out_data_) /\ Packet.fd \in Fd
        /\ out_data_' \in Seq(Answer) /\ Len(out_data_') = Len(out_data_) - 1
    BY <1>4, PacketTyped DEF WriteFails
  <2>2. it \in 1 .. Len(out_data_') + 1 /\ FlagTest(out_data_', it, Append(badfds_, Packet.fd))
    BY <1>1, <1>4, <2>1 DEF WriteFails
  <2>3. Append(badfds_, Packet.fd) \in Seq(Fd)
    BY <1>1, <2>1, AppendProperties
  <2>4. /\ badfds_' \in Seq(Fd) /\ flagClose_' \subseteq Conn
        /\ it' \in 1 .. Len(out_data_') + 1
    BY <1>1, <2>1, <2>2, <2>3, FlagTestTyped DEF SslTypeOK
  <2>5. sockets_' \in [DOMAIN sockets_ -> Socket] /\ DOMAIN sockets_' = DOMAIN sockets_
    BY <1>1, <1>4 DEF WriteFails, Fill, Socket
  <2> QED
    BY <1>4, <2>1, <2>4, <2>5 DEF WriteFails, SslTypeOK, Answer, Socket
<1>5. CASE WriteStalls
  <2>1. it \in 1 .. Len(out_data_) /\ Packet.fd \in DOMAIN sockets_
    BY <1>5, PacketTyped DEF WriteStalls, Writable
  <2>2. it + 1 \in 1 .. Len(out_data_) + 1 /\ FlagTest(out_data_, it + 1, badfds_)
    BY <1>1, <1>5, <2>1 DEF WriteStalls
  <2>3. /\ badfds_' \in Seq(Fd) /\ flagClose_' \subseteq Conn
        /\ it' \in 1 .. Len(out_data_) + 1
    BY <1>1, <2>2, FlagTestTyped DEF SslTypeOK
  <2>4. sockets_' \in [DOMAIN sockets_ -> Socket] /\ DOMAIN sockets_' = DOMAIN sockets_
    BY <1>1, <1>5, <2>1 DEF WriteStalls, Fill, Socket
  <2> QED
    BY <1>5, <2>3, <2>4 DEF WriteStalls, SslTypeOK, Socket
<1>6. CASE EpollWait
  BY <1>6 DEF EpollWait, SslTypeOK
<1> QED
  BY <1>2, <1>3, <1>4, <1>5, <1>6 DEF WriteStep

LEMMA EventTyped ==
  ASSUME TypeInv, NEW fd \in Fd \cup {SERVER}, Event(fd)
  PROVE  TypeInv'
<1> USE DEF TypeInv, boundVars, historyVars, Pending, Handled
<1>1. /\ sockets_ \in [DOMAIN sockets_ -> Socket] /\ badfds_ \in Seq(Fd)
      /\ DOMAIN sockets_ \subseteq Fd
  BY DEF SslTypeOK, Socket
<1>2. CASE BadEvent(fd)
  <2>1. badfds_' \in Seq(Fd)
    BY <1>1, <1>2, AppendProperties DEF BadEvent
  <2> QED
    BY <1>2, <2>1 DEF BadEvent, SslTypeOK
<1>3. CASE OutEvent(fd)
  <2>1. badfds_' \in Seq(Fd)
    BY <1>1, <1>3, AppendProperties DEF OutEvent
  <2>2. sockets_' \in [DOMAIN sockets_ -> Socket] /\ DOMAIN sockets_' = DOMAIN sockets_
    BY <1>1, <1>3 DEF OutEvent, MakeWritable, Socket
  <2> QED
    BY <1>1, <1>3, <2>1, <2>2 DEF OutEvent, SslTypeOK, Socket
<1>4. CASE InEvent(fd)
  <2>1. sockets_' \in [DOMAIN sockets_ -> Socket] /\ DOMAIN sockets_' = DOMAIN sockets_
    BY <1>1, <1>4 DEF InEvent, Socket
  <2> QED
    BY <1>1, <1>4, <2>1 DEF InEvent, SslTypeOK, Socket
<1>5. CASE Handshake(fd)
  <2>1. CASE UNCHANGED <<open_, sockets_, out_data_>>
    BY <1>5, <2>1 DEF Handshake, SslTypeOK
  <2>2. CASE Closesocket({fd})
    <3>1. /\ sockets_' \in [DOMAIN sockets_' -> Socket] /\ out_data_' \in Seq(Answer)
          /\ DOMAIN sockets_' = DOMAIN sockets_ \ {fd} /\ open_' = open_ \ {fd}
      BY <2>2, ClosesocketTyped
    <3> QED
      BY <1>5, <3>1 DEF Handshake, SslTypeOK, Socket, Answer
  <2> QED
    BY <1>5, <2>1, <2>2 DEF Handshake
<1> QED
  BY <1>2, <1>3, <1>4, <1>5 DEF Event

LEMMA AcceptTyped ==
  ASSUME TypeInv, Accept
  PROVE  TypeInv'
<1> USE DEF TypeInv, historyVars, Pending
<1>1. sockets_ \in [DOMAIN sockets_ -> Socket] /\ badfds_ \in Seq(Fd)
  BY DEF SslTypeOK, Socket
<1>2. CASE AcceptOne
  <2>1. PICK fd \in Fd, ready \in BOOLEAN :
          /\ open_' = open_ \cup {fd}
          /\ sockets_' = [s \in DOMAIN sockets_ \cup {fd} |->
                            IF s \in DOMAIN sockets_ THEN sockets_[s] ELSE NewSocket(ready)]
    BY <1>2 DEF AcceptOne
  <2>2. conns_ + 1 \in Conn /\ conns_ + 1 \in 0 .. MaxConn
    BY <1>2, BoundsNat DEF AcceptOne, Conn
  <2>3. NewSocket(ready) \in Socket
    BY <2>2 DEF NewSocket, Socket
  <2>4. sockets_' \in [DOMAIN sockets_' -> Socket] /\ DOMAIN sockets_' = DOMAIN sockets_ \cup {fd}
    BY <1>1, <2>1, <2>3
  <2> QED
    BY <1>2, <2>1, <2>2, <2>4 DEF AcceptOne, SslTypeOK, Socket
<1>3. CASE AcceptFails
  <2>1. PICK fd \in Fd : open_' = open_ \cup {fd} /\ badfds_' = Append(badfds_, fd)
    BY <1>3 DEF AcceptFails, Requestclosefd
  <2>2. conns_ + 1 \in 0 .. MaxConn
    BY <1>3, BoundsNat DEF AcceptFails
  <2>3. badfds_' \in Seq(Fd)
    BY <1>1, <2>1, AppendProperties
  <2> QED
    BY <1>3, <2>1, <2>2, <2>3 DEF AcceptFails, SslTypeOK
<1>4. CASE AcceptEnd
  BY <1>4 DEF AcceptEnd, Handled, SslTypeOK, boundVars
<1> QED
  BY <1>2, <1>3, <1>4 DEF Accept

(* Every step keeps the types. *)
LEMMA SslTypeNext == TypeInv /\ [Core]_sslVars => TypeInv'
<1> SUFFICES ASSUME TypeInv, [Core]_sslVars PROVE TypeInv'
  OBVIOUS
<1> USE DEF TypeInv, boundVars, historyVars
<1>1. CASE CloseBad
  <2>1. /\ sockets_' \in [DOMAIN sockets_' -> Socket] /\ out_data_' \in Seq(Answer)
        /\ DOMAIN sockets_' = DOMAIN sockets_ \ ToSet(badfds_)
        /\ open_' = open_ \ ToSet(badfds_)
    BY <1>1, ClosesocketTyped DEF CloseBad
  <2>2. it' \in 1 .. Len(out_data_') + 1 /\ badfds_' \in Seq(Fd)
    BY <1>1, <2>1, LenProperties, EmptySeq DEF CloseBad
  <2> QED
    BY <1>1, <2>1, <2>2 DEF CloseBad, SslTypeOK, Socket, Answer
<1>2. CASE ReadDone
  BY <1>2 DEF ReadDone, SslTypeOK
<1>3. CASE ReadFails
  <2>1. /\ sockets_' \in [DOMAIN sockets_' -> Socket] /\ out_data_' \in Seq(Answer)
        /\ DOMAIN sockets_' = DOMAIN sockets_ \ {reading_}
        /\ open_' = open_ \ {reading_}
    BY <1>3, ClosesocketTyped DEF ReadFails
  <2>2. phase # "write"
    BY <1>3 DEF ReadFails
  <2> QED
    BY <1>3, <2>1, <2>2 DEF ReadFails, SslTypeOK, Socket, Answer
<1>4. CASE EndEvents
  BY <1>4 DEF EndEvents, SslTypeOK
<1>5. CASE UNCHANGED sslVars
  BY <1>5 DEF sslVars, kernelVars, SslTypeOK, Conn
<1> QED
  BY <1>1, <1>2, <1>3, <1>4, <1>5, RecvTyped, WriteTyped, EventTyped, AcceptTyped
  DEF Core, Read

(* The lists of SslServer hold packets, fds and requests of known fds and
   connections, and the write pass stays within its list (sslserver.cpp:144-566). *)
THEOREM SslTypeCorrect == SslSpec => []SslTypeOK
<1>1. TypeInv => SslTypeOK
  BY DEF TypeInv
<1> QED
  BY <1>1, SslTypeInit, SslTypeNext, PTL DEF SslSpec

-----------------------------------------------------------------------------
(* The socket of an event.  A fd that is open without a socket, because    *)
(* its accept failed, has been asked to be closed, and is before the next  *)
(* epoll_wait; the fd that is read has no event to come.                   *)
SocketInv ==
  /\ open_ \ DOMAIN sockets_ \subseteq ToSet(badfds_)
  /\ phase = "write" => open_ \subseteq DOMAIN sockets_
  /\ reading_ # None => reading_ \notin events_
  /\ SocketFound

LEMMA SocketInit == SslInit => SocketInv
  BY DEF SslInit, SocketInv, SocketFound

(* The fds asked to be closed only become more until CloseBad. *)
LEMMA FlagTestAsks ==
  ASSUME NEW packets \in Seq(Answer), NEW pos \in 1 .. Len(packets) + 1, NEW bad \in Seq(Fd),
         FlagTest(packets, pos, bad)
  PROVE  ToSet(bad) \subseteq ToSet(badfds_')
<1>1. CASE badfds_' = bad
  BY <1>1
<1>2. CASE pos <= Len(packets) /\ badfds_' = Append(bad, packets[pos].fd)
  <2>0. Len(packets) \in Nat /\ pos <= Len(packets)
    BY <1>2, LenProperties
  <2>1. pos \in 1 .. Len(packets)
    BY <2>0
  <2>2. packets[pos] \in Answer
    BY <2>1, ElementOfSeq
  <2>3. packets[pos].fd \in Fd
    BY <2>2 DEF Answer
  <2> QED
    BY <1>2, <2>3, ToSetOfAppend
<1> QED
  BY <1>1, <1>2, Zenon DEF FlagTest

LEMMA WriteFindsSocket ==
  ASSUME TypeInv, SocketInv, WriteStep
  PROVE  SocketInv'
<1> USE DEF SocketInv, SocketFound, kernelVars
<1>1. /\ out_data_ \in Seq(Answer) /\ Len(out_data_) \in Nat
      /\ sockets_ \in [DOMAIN sockets_ -> Socket] /\ badfds_ \in Seq(Fd)
  BY LenProperties DEF TypeInv, SslTypeOK, Answer, Socket
<1>2. CASE EpollWait
  BY <1>1, <1>2, FdAssumption DEF EpollWait, SERVER, None, TypeInv
<1>3. ASSUME ~EpollWait
      PROVE  /\ phase' = phase /\ phase = "write" /\ open_' = open_ /\ events_' = events_
             /\ reading_' = reading_ /\ DOMAIN sockets_' = DOMAIN sockets_
             /\ AtPacket
  BY <1>1, <1>3, Zenon DEF WriteStep, WritePass, WriteSent, WriteFails, WriteStalls, Fill, AtPacket
<1>4. ASSUME ~EpollWait PROVE ToSet(badfds_) \subseteq ToSet(badfds_')
  <2>1. /\ it \in 1 .. Len(out_data_) /\ Packet.fd \in Fd
        /\ RemoveAt(out_data_, it) \in Seq(Answer)
        /\ Len(RemoveAt(out_data_, it)) = Len(out_data_) - 1
    BY <1>3, <1>4, PacketTyped DEF TypeInv
  <2>2. it + 1 \in 1 .. Len(out_data_) + 1 /\ it \in 1 .. Len(RemoveAt(out_data_, it)) + 1
    BY <1>1, <2>1
  <2>3. /\ Append(badfds_, Packet.fd) \in Seq(Fd)
        /\ ToSet(badfds_) \subseteq ToSet(Append(badfds_, Packet.fd))
    BY <1>1, <2>1, AppendProperties, ToSetOfAppend
  <2>4. CASE WritePass
    BY <2>3, <2>4 DEF WritePass
  <2>5. CASE WriteSent
    BY <1>1, <2>1, <2>2, <2>5, FlagTestAsks DEF WriteSent
  <2>6. CASE WriteFails
    <3>1. ToSet(Append(badfds_, Packet.fd)) \subseteq ToSet(badfds_')
      BY <2>1, <2>2, <2>3, <2>6, FlagTestAsks DEF WriteFails
    <3> QED
      BY <2>3, <3>1
  <2>7. CASE WriteStalls
    BY <1>1, <2>2, <2>7, FlagTestAsks DEF WriteStalls
  <2> QED
    BY <1>4, <2>4, <2>5, <2>6, <2>7 DEF WriteStep
<1> QED
  BY <1>2, <1>3, <1>4

LEMMA EventFindsSocket ==
  ASSUME TypeInv, SocketInv, NEW fd \in Fd \cup {SERVER}, Event(fd)
  PROVE  SocketInv'
<1> USE DEF SocketInv, SocketFound, Pending, Handled
<1>1. /\ sockets_ \in [DOMAIN sockets_ -> Socket] /\ badfds_ \in Seq(Fd)
      /\ DOMAIN sockets_ \subseteq Fd
  BY DEF TypeInv, SslTypeOK, Socket
<1>2. ASSUME fd \in Fd PROVE ToSet(Append(badfds_, fd)) = ToSet(badfds_) \cup {fd}
  BY <1>1, <1>2, ToSetOfAppend
<1>3. CASE BadEvent(fd)
  BY <1>2, <1>3 DEF BadEvent
<1>4. CASE OutEvent(fd)
  <2>1. DOMAIN sockets_' = DOMAIN sockets_
    BY <1>1, <1>4 DEF OutEvent, MakeWritable
  <2> QED
    BY <1>1, <1>2, <1>4, <2>1 DEF OutEvent
<1>5. CASE InEvent(fd)
  <2>1. DOMAIN sockets_' = DOMAIN sockets_
    BY <1>1, <1>5 DEF InEvent
  <2> QED
    BY <1>5, <2>1 DEF InEvent
<1>6. CASE Handshake(fd)
  BY <1>6 DEF Handshake, Closesocket
<1> QED
  BY <1>3, <1>4, <1>5, <1>6 DEF Event

LEMMA RecvFindsSocket ==
  ASSUME TypeInv, SocketInv, Recv
  PROVE  SocketInv'
<1> USE DEF SocketInv, SocketFound
<1>1. PICK n \in 0 .. MaxBurst :
        RecvPartial(reading_, n) \/ RecvRequest(reading_, n) \/ RecvInvalid(reading_, n)
  BY DEF Recv
<1>2. /\ reading_ # None /\ UNCHANGED <<phase, badfds_, events_>>
  BY DEF Recv
<1>3. \/ UNCHANGED <<open_, sockets_, reading_>>
      \/ Closesocket({reading_}) /\ reading_' = None
  BY <1>1 DEF RecvPartial, RecvRequest, RecvInvalid
<1> QED
  BY <1>2, <1>3 DEF Closesocket

(* Every step keeps a socket for every event to come. *)
LEMMA SocketNext == TypeInv /\ SocketInv /\ [Core]_sslVars => SocketInv'
<1> SUFFICES ASSUME TypeInv, SocketInv, [Core]_sslVars PROVE SocketInv'
  OBVIOUS
<1> USE DEF SocketInv, SocketFound
<1>1. CASE CloseBad
  BY <1>1 DEF CloseBad, Closesocket, TypeInv
<1>2. CASE AcceptOne
  BY <1>2 DEF AcceptOne, Pending
<1>3. CASE AcceptFails
  <2>1. PICK fd \in Fd : open_' = open_ \cup {fd} /\ badfds_' = Append(badfds_, fd)
    BY <1>3 DEF AcceptFails, Requestclosefd
  <2>2. ToSet(badfds_') = ToSet(badfds_) \cup {fd}
    BY <2>1, ToSetOfAppend DEF TypeInv, SslTypeOK
  <2> QED
    BY <1>3, <2>1, <2>2 DEF AcceptFails, Pending
<1>4. CASE AcceptEnd
  BY <1>4 DEF AcceptEnd, Pending, Handled
<1>5. CASE ReadDone
  BY <1>5 DEF ReadDone
<1>6. CASE ReadFails
  BY <1>6 DEF ReadFails, Closesocket
<1>7. CASE EndEvents
  BY <1>7 DEF EndEvents
<1>8. CASE UNCHANGED sslVars
  BY <1>8 DEF sslVars, kernelVars
<1> QED
  BY <1>1, <1>2, <1>3, <1>4, <1>5, <1>6, <1>7, <1>8, RecvFindsSocket, WriteFindsSocket,
     EventFindsSocket
  DEF Core, Accept, Read

(* Every fd that may report an event has a socket in sockets_: the loop of
   core_task never ends for want of one (sslserver.cpp:449-457). *)
THEOREM EventsHaveSockets == SslSpec => []SocketFound
<1>1. SslInit => TypeInv /\ SocketInv
  BY SslTypeInit, SocketInit
<1>2. TypeInv /\ SocketInv /\ [Core]_sslVars => TypeInv' /\ SocketInv'
  BY SslTypeNext, SocketNext
<1>3. SocketInv => SocketFound
  BY DEF SocketInv
<1> QED
  BY <1>1, <1>2, <1>3, PTL DEF SslSpec

-----------------------------------------------------------------------------
(* The owner of a reply.  While a read brings two requests at the most,    *)
(* the one that is left after pop() is removed, and the queue is empty     *)
(* before every read: the request that is answered is of the fd that is    *)
(* read.                                                                   *)
Home ==
  \A i \in 1 .. Len(out_data_) :
    /\ out_data_[i].fd \in DOMAIN sockets_
    /\ Owner(out_data_[i].fd) = out_data_[i].conn

Answered == queue_ = <<>> /\ Home

OwnerInv == ~crowded_ => Answered

(* A packet waits for its connection. *)
Owned(packet) == packet.fd \in DOMAIN sockets_ /\ Owner(packet.fd) = packet.conn

LEMMA NothingToRemove ==
  ASSUME NEW fd
  PROVE  Removed(<<>>, fd) = <<>>
<1>1. <<>> \in Seq({}) /\ Len(<<>>) = 0
  BY EmptySeq
<1>2. Removed(<<>>, fd) \in Seq({})
  BY <1>1, RemovedTyped
<1>3. ASSUME Removed(<<>>, fd) # <<>> PROVE FALSE
  <2>1. Len(Removed(<<>>, fd)) \in Nat \ {0}
    BY <1>2, <1>3, EmptySeq
  <2>2. 1 \in 1 .. Len(Removed(<<>>, fd))
    BY <2>1
  <2>3. Removed(<<>>, fd)[1] \in {}
    BY <1>2, <2>2, ElementOfSeq
  <2> QED
    BY <2>3
<1> QED
  BY <1>3

(* remove() takes a single element out whose fd it is. *)
LEMMA OneRemoved ==
  ASSUME NEW request \in Request, NEW q \in Seq(Request), Len(q) = 1, q[1] = request
  PROVE  Removed(q, request.fd) = <<>>
<1> DEFINE fd == request.fd
           turn == [scan \in RemoveState(q) |-> RemoveTurn(scan, fd)]
           start == [queue |-> q, at |-> 1]
           done == [queue |-> <<>>, at |-> 1]
           X == {start, done}
           size == [x \in X |-> IF x = start THEN 1 ELSE 0]
<1>1. q \in Seq(ToSet(q)) /\ <<>> \in Seq(ToSet(q)) /\ Len(<<>>) = 0
  BY ToSetOfSeq, EmptySeq
<1>2. start \in RemoveState(q) /\ done \in RemoveState(q)
  BY <1>1 DEF RemoveState
<1>3. q # <<>>
  BY <1>1
<1>4. start # done /\ start.queue # done.queue
  BY <1>3
<1>5. turn[done] = done
  <2>1. done.queue = <<>> /\ done.at = 1 /\ done.at > Len(done.queue)
    BY <1>1
  <2>2. RemoveTurn(done, fd) = done
    BY <2>1 DEF RemoveTurn
  <2> QED
    BY <1>2, <2>2
<1>6. turn[start] = done
  <2>1. RemoveAt(q, 1) \in Seq(Request) /\ Len(RemoveAt(q, 1)) = 0
    BY RemoveAtProperties
  <2>2. RemoveAt(q, 1) = <<>>
    BY <2>1, EmptySeq
  <2>3. AfterErase(<<>>, 1) = 1
    BY <1>1 DEF AfterErase
  <2>4. RemoveTurn(start, fd) = done
    BY <2>2, <2>3 DEF RemoveTurn
  <2> QED
    BY <1>2, <2>4
<1>7. Turns(q) = 4
  BY DEF Turns
<1>8. /\ Keeps(turn, X) /\ start \in X
      /\ size \in [X -> Nat] /\ size[start] = 1
      /\ \A x \in X : turn[x] = x \/ size[turn[x]] < size[x]
  BY <1>4, <1>5, <1>6 DEF Keeps
<1>9. Removed(q, fd) = Repeated(turn, Turns(q), start).queue
  BY DEF Removed
<1> DEFINE end == Repeated(turn, 4, start)
<1> HIDE DEF turn, size, X
<1>10. end \in X /\ turn[end] = end
  BY <1>8, RepeatedRests
<1>11. end = done
  BY <1>4, <1>6, <1>10 DEF X
<1> QED
  BY <1>7, <1>9, <1>11

(* With an empty queue before the read, the request answered is of the fd  *)
(* read, and the queue is empty again.                                     *)
LEMMA BurstAnswered ==
  ASSUME TypeInv, reading_ # None, queue_ = <<>>, NEW n \in 0 .. 2, Fed(reading_, n) # <<>>
  PROVE  /\ Head(Fed(reading_, n)) = [fd |-> reading_, conn |-> Owner(reading_)]
         /\ Removed(PopFront(Fed(reading_, n)), reading_) = <<>>
<1> DEFINE packet == [fd |-> reading_, conn |-> Owner(reading_)]
           copies == [i \in 1 .. n |-> packet]
<1>1. n \in Nat
  OBVIOUS
<1>2. reading_ \in Fd /\ Owner(reading_) \in Conn
  BY <1>1, FedTyped
<1>3. packet \in Request /\ packet.fd = reading_
  BY <1>2 DEF Request
<1> HIDE DEF packet
<1>4. copies \in Seq(Request) /\ Len(copies) = n /\ \A i \in 1 .. n : copies[i] = packet
  BY <1>1, <1>3, CopiesTyped
<1>5. Fed(reading_, n) = <<>> \o copies
  BY DEF Fed, Feed, packet
<1> HIDE DEF copies
<1>6. Fed(reading_, n) = copies
  BY <1>4, <1>5, ConcatEmptySeq
<1>7. n \in {1, 2}
  BY <1>4, <1>6, EmptySeq
<1>8. Head(copies) = packet
  <2>1. copies # <<>>
    BY <1>6
  <2> QED
    BY <1>4, <1>7
<1>9. /\ PopFront(copies) \in Seq(Request) /\ Len(PopFront(copies)) = n - 1
      /\ \A i \in 1 .. n - 1 : PopFront(copies)[i] = packet
  BY <1>4, <1>6, <1>7, HeadTailProperties DEF PopFront
<1>10. CASE n = 1
  <2>1. PopFront(copies) = <<>>
    BY <1>9, <1>10, EmptySeq
  <2> QED
    BY <1>6, <1>8, <2>1, NothingToRemove DEF packet
<1>11. CASE n = 2
  <2>1. Len(PopFront(copies)) = 1 /\ PopFront(copies)[1] = packet
    BY <1>9, <1>11
  <2>2. Removed(PopFront(copies), packet.fd) = <<>>
    BY <1>3, <1>9, <2>1, OneRemoved
  <2> QED
    BY <1>3, <1>6, <1>8, <2>2 DEF packet
<1> QED
  BY <1>7, <1>10, <1>11

(* Packets that were there still wait for their connection if its socket   *)
(* stays.                                                                  *)
LEMMA StillOwned ==
  ASSUME Home,
         \A i \in 1 .. Len(out_data_') : \E j \in 1 .. Len(out_data_) :
           /\ out_data_'[i] = out_data_[j]
           /\ out_data_[j].fd \in DOMAIN sockets_
                => /\ out_data_[j].fd \in DOMAIN sockets_'
                   /\ sockets_'[out_data_[j].fd].conn = sockets_[out_data_[j].fd].conn
  PROVE  Home'
  BY DEF Home, Owner

LEMMA ClosesocketOwned ==
  ASSUME TypeInv, Home, NEW fds, Closesocket(fds)
  PROVE  Home'
<1> DEFINE K == {i \in DOMAIN out_data_ : out_data_[i].fd \notin fds}
<1>1. out_data_ \in Seq(Answer)
  BY DEF TypeInv, SslTypeOK, Answer
<1> HIDE DEF K
<1>2. \A i \in 1 .. Len(Selected(out_data_, K)) :
        \E j \in K \cap 1 .. Len(out_data_) : Selected(out_data_, K)[i] = out_data_[j]
  BY <1>1, SelectedElements
<1>3. out_data_' = Selected(out_data_, K)
  BY DEF Closesocket, Kept, K
<1>4. /\ DOMAIN sockets_' = DOMAIN sockets_ \ fds
      /\ \A fd \in DOMAIN sockets_' : sockets_'[fd] = sockets_[fd]
  BY ClosesocketTyped DEF TypeInv
<1>5. ASSUME NEW i \in 1 .. Len(out_data_')
      PROVE  \E j \in 1 .. Len(out_data_) :
               /\ out_data_'[i] = out_data_[j]
               /\ out_data_[j].fd \in DOMAIN sockets_
                    => /\ out_data_[j].fd \in DOMAIN sockets_'
                       /\ sockets_'[out_data_[j].fd].conn = sockets_[out_data_[j].fd].conn
  <2>1. PICK j \in K \cap 1 .. Len(out_data_) : out_data_'[i] = out_data_[j]
    BY <1>2, <1>3
  <2>2. out_data_[j].fd \notin fds
    BY <2>1 DEF K
  <2> QED
    BY <1>4, <2>1, <2>2
<1> QED
  BY <1>5, StillOwned

LEMMA RemoveOwned ==
  ASSUME TypeInv, Home, AtPacket,
         out_data_' = out_data_ \/ out_data_' = RemoveAt(out_data_, it),
         \A fd \in DOMAIN sockets_ : fd \in DOMAIN sockets_' /\ sockets_'[fd].conn = sockets_[fd].conn
  PROVE  Home'
<1>1. /\ out_data_ \in Seq(Answer) /\ Len(out_data_) \in Nat
      /\ it \in 1 .. Len(out_data_)
  BY PacketTyped, LenProperties DEF TypeInv, SslTypeOK, Answer
<1>2. CASE out_data_' = out_data_
  BY <1>2, StillOwned
<1>3. CASE out_data_' = RemoveAt(out_data_, it)
  <2>1. /\ Len(out_data_') = Len(out_data_) - 1
        /\ \A j \in 1 .. Len(out_data_) - 1 :
             out_data_'[j] = IF j < it THEN out_data_[j] ELSE out_data_[j + 1]
    BY <1>1, <1>3, RemoveAtProperties
  <2>2. ASSUME NEW i \in 1 .. Len(out_data_')
        PROVE  \E j \in 1 .. Len(out_data_) : out_data_'[i] = out_data_[j]
    <3>1. i \in 1 .. Len(out_data_) /\ i + 1 \in 1 .. Len(out_data_) /\ i \in 1 .. Len(out_data_) - 1
      BY <1>1, <2>1
    <3> QED
      BY <2>1, <3>1
  <2> QED
    BY <2>2, StillOwned
<1> QED
  BY <1>2, <1>3

(* The write pass only takes packets out. *)
LEMMA WriteOwned ==
  ASSUME TypeInv, Answered, WriteStep
  PROVE  Answered'
<1> USE DEF Answered, kernelVars
<1>1. sockets_ \in [DOMAIN sockets_ -> Socket]
  BY DEF TypeInv, SslTypeOK, Socket
<1>2. CASE EpollWait
  BY <1>2 DEF EpollWait, Home, Owner
<1>3. CASE WritePass
  BY <1>3, RemoveOwned DEF WritePass
<1>4. CASE WriteSent
  BY <1>4, RemoveOwned DEF WriteSent
<1>5. CASE WriteFails
  <2>1. \A fd \in DOMAIN sockets_ : fd \in DOMAIN sockets_' /\ sockets_'[fd].conn = sockets_[fd].conn
    BY <1>1, <1>5 DEF WriteFails, Fill, Socket
  <2> QED
    BY <1>5, <2>1, RemoveOwned DEF WriteFails
<1>6. CASE WriteStalls
  <2>1. \A fd \in DOMAIN sockets_ : fd \in DOMAIN sockets_' /\ sockets_'[fd].conn = sockets_[fd].conn
    BY <1>1, <1>6 DEF WriteStalls, Fill, Socket
  <2> QED
    BY <1>6, <2>1, RemoveOwned DEF WriteStalls
<1> QED
  BY <1>2, <1>3, <1>4, <1>5, <1>6 DEF WriteStep

LEMMA EventOwned ==
  ASSUME TypeInv, Answered, NEW fd \in Fd \cup {SERVER}, Event(fd)
  PROVE  Answered'
<1> USE DEF Answered
<1>1. sockets_ \in [DOMAIN sockets_ -> Socket]
  BY DEF TypeInv, SslTypeOK, Socket
<1>2. CASE BadEvent(fd)
  BY <1>2 DEF BadEvent, Home, Owner
<1>3. CASE OutEvent(fd)
  <2>1. \A s \in DOMAIN sockets_ : s \in DOMAIN sockets_' /\ sockets_'[s].conn = sockets_[s].conn
    BY <1>1, <1>3 DEF OutEvent, MakeWritable, Socket
  <2> QED
    BY <1>3, <2>1, StillOwned DEF OutEvent
<1>4. CASE InEvent(fd)
  <2>1. \A s \in DOMAIN sockets_ : s \in DOMAIN sockets_' /\ sockets_'[s].conn = sockets_[s].conn
    BY <1>1, <1>4 DEF InEvent, Socket
  <2> QED
    BY <1>4, <2>1, StillOwned DEF InEvent
<1>5. CASE Handshake(fd)
  <2>1. CASE UNCHANGED <<open_, sockets_, out_data_>>
    BY <1>5, <2>1 DEF Handshake, Home, Owner
  <2> QED
    BY <1>5, <2>1, ClosesocketOwned DEF Handshake
<1> QED
  BY <1>2, <1>3, <1>4, <1>5 DEF Event

(* A reply waits for the connection that asked. *)
LEMMA ReplyOwned ==
  ASSUME TypeInv, Home, NEW fd \in DOMAIN sockets_, Reply(fd, Owner(fd)), UNCHANGED sockets_
  PROVE  Home'
<1> DEFINE packet == [fd |-> fd, disconnect |-> TRUE, conn |-> Owner(fd)]
<1>1. out_data_ \in Seq(Answer) /\ packet \in Answer
  BY DEF TypeInv, SslTypeOK, Answer, Owner
<1>2. /\ Len(out_data_') = Len(out_data_) + 1 /\ Len(out_data_) \in Nat
      /\ \A i \in 1 .. Len(out_data_) : out_data_'[i] = out_data_[i]
      /\ out_data_'[Len(out_data_) + 1] = packet
  BY <1>1, AppendProperties, LenProperties DEF Reply
<1>3. \A i \in 1 .. Len(out_data_') : i \in 1 .. Len(out_data_) \/ i = Len(out_data_) + 1
  BY <1>2
<1> QED
  BY <1>2, <1>3 DEF Home, Owner

LEMMA RecvOwned ==
  ASSUME TypeInv, Answered, Recv, ~crowded_'
  PROVE  Answered'
<1> USE DEF Answered
<1>1. PICK n \in 0 .. MaxBurst :
        /\ crowded_' = (crowded_ \/ n > 2)
        /\ RecvPartial(reading_, n) \/ RecvRequest(reading_, n) \/ RecvInvalid(reading_, n)
  BY DEF Recv
<1>0. ~(n > 2)
  BY <1>1, Zenon
<1>2. n \in 0 .. 2 /\ reading_ # None /\ reading_ \in DOMAIN sockets_
  BY <1>0, <1>1, BoundsNat DEF Recv, TypeInv
<1>3. ASSUME Fed(reading_, n) # <<>>
      PROVE  /\ Head(Fed(reading_, n)).fd = reading_
             /\ Head(Fed(reading_, n)).conn = Owner(reading_)
             /\ Removed(PopFront(Fed(reading_, n)), Head(Fed(reading_, n)).fd) = <<>>
  BY <1>2, <1>3, BurstAnswered
<1>4. CASE RecvPartial(reading_, n)
  BY <1>2, <1>4, ReplyOwned DEF RecvPartial
<1>5. CASE RecvRequest(reading_, n)
  BY <1>2, <1>3, <1>5, ReplyOwned DEF RecvRequest
<1>6. CASE RecvInvalid(reading_, n)
  BY <1>2, <1>3, <1>6, ClosesocketOwned DEF RecvInvalid
<1> QED
  BY <1>1, <1>4, <1>5, <1>6

(* Every step keeps the replies with their connections, unless its read is *)
(* crowded.                                                                *)
LEMMA OwnerNext == TypeInv /\ OwnerInv /\ [Core]_sslVars => OwnerInv'
<1> SUFFICES ASSUME TypeInv, OwnerInv, [Core]_sslVars, ~crowded_' PROVE Answered'
  BY DEF OwnerInv
<1>0. ~crowded_
  BY DEF Core, CloseBad, WriteStep, WritePass, WriteSent, WriteFails, WriteStalls, EpollWait,
         Event, BadEvent, OutEvent, InEvent, Handshake, Accept, AcceptOne, AcceptFails,
         AcceptEnd, Read, Recv, ReadDone, ReadFails, EndEvents, historyVars, sslVars
<1>00. Answered
  BY <1>0 DEF OwnerInv
<1> USE <1>00 DEF Answered
<1>1. CASE CloseBad
  BY <1>1, ClosesocketOwned DEF CloseBad
<1>2. CASE AcceptOne
  <2>1. /\ \A fd \in DOMAIN sockets_ : fd \in DOMAIN sockets_' /\ sockets_'[fd] = sockets_[fd]
        /\ UNCHANGED <<out_data_, queue_>>
    BY <1>2 DEF AcceptOne
  <2> QED
    BY <2>1, StillOwned
<1>3. CASE AcceptFails
  BY <1>3 DEF AcceptFails, Home, Owner
<1>4. CASE AcceptEnd
  BY <1>4 DEF AcceptEnd, Home, Owner
<1>5. CASE ReadDone
  BY <1>5 DEF ReadDone, Home, Owner
<1>6. CASE ReadFails
  BY <1>6, ClosesocketOwned DEF ReadFails
<1>7. CASE EndEvents
  BY <1>7 DEF EndEvents, Home, Owner
<1>8. CASE UNCHANGED sslVars
  BY <1>8 DEF sslVars, Home, Owner
<1> QED
  BY <1>1, <1>2, <1>3, <1>4, <1>5, <1>6, <1>7, <1>8, RecvOwned, WriteOwned, EventOwned
  DEF Core, Accept, Read

(* Also when a fd is closed and given to another client in between, a packet in
   out_data_ is only ever for the connection whose request it answers
   (sslserver.cpp:657-731, loginserver.cpp:132-157), however many requests a read
   may bring, until one has brought more than two. *)
THEOREM RepliesGoHome == SslSpec => []RepliesForOwner
<1>1. SslInit => TypeInv /\ OwnerInv
  <2>1. SslInit => OwnerInv
    BY EmptySeq DEF SslInit, OwnerInv, Answered, Home
  <2> QED
    BY <2>1, SslTypeInit
<1>2. TypeInv /\ OwnerInv /\ [Core]_sslVars => TypeInv' /\ OwnerInv'
  BY SslTypeNext, OwnerNext
<1>3. OwnerInv => RepliesForOwner
  BY DEF OwnerInv, Answered, Home, RepliesForOwner
<1> QED
  BY <1>1, <1>2, <1>3, PTL DEF SslSpec

=============================================================================
