----------------------------- MODULE DataQueue -----------------------------
(***************************************************************************)
(* octillion::DataQueue, the part behind the framing: the queue of whole   *)
(* packets and what remove() does to it.  An element has a field fd.       *)
(***************************************************************************)
EXTENDS Lists

(* feed() queues the n whole packets that the bytes of one read complete. *)
Feed(queue, packet, n) == queue \o [i \in 1 .. n |-> packet]

SizeOf == 2 \* bytes of a uint32_t

(* read_uint32 of the front bytes, whose first is the most significant *)
ReadSize(bytes) == bytes[1] * 256 + bytes[2]

Enough(bytes) == Len(bytes) >= SizeOf + ReadSize(bytes)

(* A turn of feed()'s loop: the whole packet in front of the bytes that    *)
(* are left goes to the queue; an unfinished one stays where it is; a size *)
(* of 0 drops all that is left (E_FATAL).                                  *)
FeedTurn(fed) ==
  IF Len(fed.workspace) < SizeOf THEN fed
  ELSE IF ReadSize(fed.workspace) = 0 THEN [fed EXCEPT !.workspace = <<>>]
  ELSE IF ~Enough(fed.workspace) THEN fed
  ELSE LET end == SizeOf + ReadSize(fed.workspace)
       IN [workspace |-> SubSeq(fed.workspace, end + 1, Len(fed.workspace)),
           queue |-> Append(fed.queue, SubSeq(fed.workspace, SizeOf + 1, end))]

FeedState == [workspace : Seq(Nat), queue : Seq(Seq(Nat))]

(* feed() of the bytes of one fd, those left from its last call in front.  *)
(* A turn takes a byte at least or changes nothing: there are never more   *)
(* turns than bytes.                                                       *)
FeedBytes(bytes) ==
  Repeated([fed \in FeedState |-> FeedTurn(fed)], Len(bytes), [workspace |-> bytes, queue |-> <<>>])

(* pop() takes the front. *)
PopFront(queue) == Tail(queue)

(* The iterator after erase() and it++: the element after the erased one   *)
(* is passed over, and past the end of a std::list it comes round to the   *)
(* beginning (libstdc++).                                                  *)
AfterErase(queue, i) == IF i > Len(queue) THEN 1 ELSE i + 1

(* A turn of remove(fd): the iterator is at an element, or past them all. *)
RemoveTurn(scan, fd) ==
  IF scan.at > Len(scan.queue) THEN scan
  ELSE IF scan.queue[scan.at].fd = fd
       THEN LET rest == RemoveAt(scan.queue, scan.at)
            IN [queue |-> rest, at |-> AfterErase(rest, scan.at)]
       ELSE [scan EXCEPT !.at = @ + 1]

(* remove(fd).  No element is passed twice before the next erasure, so     *)
(* that Turns are enough.                                                  *)
Turns(queue) == (Len(queue) + 1) * (Len(queue) + 1)

RemoveState(queue) == [queue : Seq(ToSet(queue)), at : Nat]

Removed(queue, fd) ==
  Repeated([scan \in RemoveState(queue) |-> RemoveTurn(scan, fd)], Turns(queue),
           [queue |-> queue, at |-> 1]).queue

=============================================================================
