----------------------------- MODULE PacketFifo -----------------------------
(***************************************************************************)
(* What octillion::Server promises of the packets given to senddata():     *)
(* each connection receives them whole, once and in order.  The only       *)
(* packets a connection may miss are those of a connection that is doomed  *)
(* to be closed.                                                           *)
(***************************************************************************)
EXTENDS Naturals, Sequences

CONSTANTS Fd, Packet

VARIABLES
  sent,    \* per fd, the packets sent to it and not lost, oldest first
  got,     \* per fd, the packets its peer has received
  doomed   \* the fds that are going to be closed

fifoVars == <<sent, got, doomed>>

FifoInit ==
  /\ sent = [fd \in Fd |-> <<>>]
  /\ got = [fd \in Fd |-> <<>>]
  /\ doomed = {}

Send(fd) ==
  /\ \E packet \in Packet : sent' = [sent EXCEPT ![fd] = Append(@, packet)]
  /\ UNCHANGED <<got, doomed>>

(* The peer receives the next few packets. *)
Receive(fd) ==
  /\ \E n \in Len(got[fd]) + 1 .. Len(sent[fd]) :
       got' = [got EXCEPT ![fd] = SubSeq(sent[fd], 1, n)]
  /\ UNCHANGED <<sent, doomed>>

Doom(fd) ==
  /\ doomed' = doomed \cup {fd}
  /\ UNCHANGED <<sent, got>>

Without(s, i) == SubSeq(s, 1, i - 1) \o SubSeq(s, i + 1, Len(s))

(* A packet that was not received is lost, and the fd is doomed. *)
Lose(fd) ==
  /\ \E i \in Len(got[fd]) + 1 .. Len(sent[fd]) :
       sent' = [sent EXCEPT ![fd] = Without(@, i)]
  /\ doomed' = doomed \cup {fd}
  /\ UNCHANGED got

(* Some fds are closed; a packet that comes later waits for whoever gets   *)
(* the fd next.  A fd may be doomed for another connection's sake, and     *)
(* stay so until all that are doomed are closed.                           *)
Close(fds) ==
  /\ sent' = [fd \in Fd |-> IF fd \in fds THEN <<>> ELSE sent[fd]]
  /\ got' = [fd \in Fd |-> IF fd \in fds THEN <<>> ELSE got[fd]]
  /\ doomed' = doomed \/ (doomed \subseteq fds /\ doomed' = {})

FifoNext ==
  \/ \E fd \in Fd : Send(fd) \/ Receive(fd) \/ Doom(fd) \/ Lose(fd)
  \/ \E fds \in SUBSET Fd : Close(fds)

FifoSpec == FifoInit /\ [][FifoNext]_fifoVars

-----------------------------------------------------------------------------
FifoTypeOK ==
  /\ sent \in [Fd -> Seq(Packet)]
  /\ got \in [Fd -> Seq(Packet)]
  /\ doomed \subseteq Fd

(* What a peer has received are the first of the packets sent to it, with  *)
(* none repeated, torn or overtaken.                                       *)
InOrder ==
  \A fd \in Fd : /\ Len(got[fd]) <= Len(sent[fd])
                 /\ got[fd] = SubSeq(sent[fd], 1, Len(got[fd]))

=============================================================================
