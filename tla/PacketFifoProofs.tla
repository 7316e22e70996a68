--------------------------- MODULE PacketFifoProofs ---------------------------
(***************************************************************************)
(* PacketFifo keeps what its readers rely on, for every set of fds and     *)
(* packets: what was received is the beginning of what was sent.  That the *)
(* server implements PacketFifo is proved in StreamProofs.                 *)
(***************************************************************************)
EXTENDS PacketFifo, TLAPS, SequenceTheorems

(* Equal lengths and elements make the beginnings of two lists equal. *)
LEMMA SameBeginning ==
  ASSUME NEW S, NEW s \in Seq(S), NEW t \in Seq(S), NEW n \in Nat,
         n <= Len(s), n <= Len(t), \A i \in 1 .. n : s[i] = t[i]
  PROVE  SubSeq(s, 1, n) = SubSeq(t, 1, n)
<1>1. (\A i \in 1 .. n : s[i] \in S) /\ (\A i \in 1 .. n : t[i] \in S)
  BY ElementOfSeq, LenProperties
<1>2. /\ SubSeq(s, 1, n) \in Seq(S) /\ Len(SubSeq(s, 1, n)) = IF 1 <= n THEN n - 1 + 1 ELSE 0
      /\ \A i \in 1 .. n - 1 + 1 : SubSeq(s, 1, n)[i] = s[1 + i - 1]
  BY <1>1, SubSeqProperties
<1>3. /\ SubSeq(t, 1, n) \in Seq(S) /\ Len(SubSeq(t, 1, n)) = IF 1 <= n THEN n - 1 + 1 ELSE 0
      /\ \A i \in 1 .. n - 1 + 1 : SubSeq(t, 1, n)[i] = t[1 + i - 1]
  BY <1>1, SubSeqProperties
<1>4. \A i \in 1 .. Len(SubSeq(s, 1, n)) : SubSeq(s, 1, n)[i] = SubSeq(t, 1, n)[i]
  BY <1>2, <1>3
<1> QED
  BY <1>2, <1>3, <1>4, SeqEqual

(* The first elements of a list are a list of their number. *)
LEMMA Beginning ==
  ASSUME NEW S, NEW s \in Seq(S), NEW n \in 0 .. Len(s)
  PROVE  /\ SubSeq(s, 1, n) \in Seq(S)
         /\ Len(SubSeq(s, 1, n)) = n
         /\ \A i \in 1 .. n : SubSeq(s, 1, n)[i] = s[i]
<1>1. n \in Nat /\ \A i \in 1 .. n : s[i] \in S
  BY ElementOfSeq, LenProperties
<1>2. /\ SubSeq(s, 1, n) \in Seq(S)
      /\ Len(SubSeq(s, 1, n)) = IF 1 <= n THEN n - 1 + 1 ELSE 0
      /\ \A i \in 1 .. n - 1 + 1 : SubSeq(s, 1, n)[i] = s[1 + i - 1]
  BY <1>1, SubSeqProperties
<1> QED
  BY <1>1, <1>2

(* Taking an element out leaves those before it where they are. *)
LEMMA WithoutProperties ==
  ASSUME NEW S, NEW s \in Seq(S), NEW i \in 1 .. Len(s)
  PROVE  /\ Without(s, i) \in Seq(S)
         /\ Len(Without(s, i)) = Len(s) - 1
         /\ \A j \in 1 .. i - 1 : Without(s, i)[j] = s[j]
<1> DEFINE front == SubSeq(s, 1, i - 1)
           back == SubSeq(s, i + 1, Len(s))
<1>1. Len(s) \in Nat /\ i \in Nat /\ i - 1 \in 0 .. Len(s)
  BY LenProperties
<1>2. front \in Seq(S) /\ Len(front) = i - 1 /\ \A j \in 1 .. i - 1 : front[j] = s[j]
  BY <1>1, Beginning
<1>3. back \in Seq(S) /\ Len(back) = Len(s) - i
  <2>1. \A j \in i + 1 .. Len(s) : s[j] \in S
    BY <1>1, ElementOfSeq
  <2>2. back \in Seq(S) /\ Len(back) = IF i + 1 <= Len(s) THEN Len(s) - (i + 1) + 1 ELSE 0
    BY <1>1, <2>1, SubSeqProperties
  <2> QED
    BY <1>1, <2>2
<1>4. Without(s, i) = front \o back
  BY DEF Without
<1> HIDE DEF front, back
<1>5. /\ front \o back \in Seq(S)
      /\ Len(front \o back) = Len(front) + Len(back)
      /\ \A j \in 1 .. Len(front) + Len(back) :
           (front \o back)[j] = IF j <= Len(front) THEN front[j] ELSE back[j - Len(front)]
  BY <1>2, <1>3, ConcatProperties
<1> QED
  BY <1>1, <1>2, <1>3, <1>4, <1>5

-----------------------------------------------------------------------------
(* The variables keep their types. *)
LEMMA FifoTypeInit == FifoInit => FifoTypeOK
<1> SUFFICES ASSUME FifoInit PROVE FifoTypeOK
  OBVIOUS
<1>1. << >> \in Seq(Packet)
  BY EmptySeq
<1> QED
  BY <1>1 DEF FifoInit, FifoTypeOK

LEMMA FifoTypeNext == FifoTypeOK /\ [FifoNext]_fifoVars => FifoTypeOK'
<1> SUFFICES ASSUME FifoTypeOK, [FifoNext]_fifoVars PROVE FifoTypeOK'
  OBVIOUS
<1> USE DEF FifoTypeOK
<1>1. ASSUME NEW fd \in Fd, Send(fd) PROVE FifoTypeOK'
  <2>1. PICK packet \in Packet : sent' = [sent EXCEPT ![fd] = Append(@, packet)]
    BY <1>1 DEF Send
  <2>2. Append(sent[fd], packet) \in Seq(Packet)
    BY AppendProperties
  <2> QED
    BY <1>1, <2>1, <2>2 DEF Send
<1>2. ASSUME NEW fd \in Fd, Receive(fd) PROVE FifoTypeOK'
  <2>1. PICK n \in Len(got[fd]) + 1 .. Len(sent[fd]) : got' = [got EXCEPT ![fd] = SubSeq(sent[fd], 1, n)]
    BY <1>2 DEF Receive
  <2>2. n \in 0 .. Len(sent[fd])
    BY <2>1, LenProperties
  <2>3. SubSeq(sent[fd], 1, n) \in Seq(Packet)
    BY <2>2, Beginning
  <2> QED
    BY <1>2, <2>1, <2>3 DEF Receive
<1>3. ASSUME NEW fd \in Fd, Doom(fd) PROVE FifoTypeOK'
  BY <1>3 DEF Doom
<1>4. ASSUME NEW fd \in Fd, Lose(fd) PROVE FifoTypeOK'
  <2>1. PICK i \in Len(got[fd]) + 1 .. Len(sent[fd]) : sent' = [sent EXCEPT ![fd] = Without(@, i)]
    BY <1>4 DEF Lose
  <2>2. i \in 1 .. Len(sent[fd])
    BY <2>1, LenProperties
  <2>3. Without(sent[fd], i) \in Seq(Packet)
    BY <2>2, WithoutProperties
  <2> QED
    BY <1>4, <2>1, <2>3 DEF Lose
<1>5. ASSUME NEW fds \in SUBSET Fd, Close(fds) PROVE FifoTypeOK'
  <2>1. << >> \in Seq(Packet)
    BY EmptySeq
  <2> QED
    BY <1>5, <2>1 DEF Close
<1>6. CASE UNCHANGED fifoVars
  BY <1>6 DEF fifoVars
<1> QED
  BY <1>1, <1>2, <1>3, <1>4, <1>5, <1>6 DEF FifoNext

(* Lists stay lists of packets, the doomed are fds. *)
THEOREM FifoTypeCorrect == FifoSpec => []FifoTypeOK
  BY FifoTypeInit, FifoTypeNext, PTL DEF FifoSpec

-----------------------------------------------------------------------------
(* A packet that is sent joins behind all that was received. *)
LEMMA SendInOrder ==
  ASSUME FifoTypeOK, InOrder, NEW fd \in Fd, Send(fd)
  PROVE  InOrder'
<1>1. PICK packet \in Packet : sent' = [sent EXCEPT ![fd] = Append(@, packet)]
  BY DEF Send
<1>2. SUFFICES ASSUME NEW g \in Fd
               PROVE  Len(got[g]) <= Len(sent'[g]) /\ got[g] = SubSeq(sent'[g], 1, Len(got[g]))
  BY DEF InOrder, Send
<1>3. /\ sent[g] \in Seq(Packet) /\ got[g] \in Seq(Packet)
      /\ Len(got[g]) <= Len(sent[g]) /\ got[g] = SubSeq(sent[g], 1, Len(got[g]))
  BY DEF FifoTypeOK, InOrder
<1>4. CASE g # fd
  BY <1>1, <1>3, <1>4 DEF FifoTypeOK
<1>5. CASE g = fd
  <2>1. sent'[g] = Append(sent[g], packet)
    BY <1>1, <1>5 DEF FifoTypeOK
  <2>2. /\ Append(sent[g], packet) \in Seq(Packet)
        /\ Len(Append(sent[g], packet)) = Len(sent[g]) + 1
        /\ \A i \in 1 .. Len(sent[g]) : Append(sent[g], packet)[i] = sent[g][i]
    BY <1>3, AppendProperties
  <2>3. Len(got[g]) \in Nat /\ Len(sent[g]) \in Nat
    BY <1>3, LenProperties
  <2>4. SubSeq(Append(sent[g], packet), 1, Len(got[g])) = SubSeq(sent[g], 1, Len(got[g]))
    BY <1>3, <2>2, <2>3, SameBeginning
  <2> QED
    BY <1>3, <2>1, <2>2, <2>3, <2>4
<1> QED
  BY <1>4, <1>5

(* The peer receives the packets that come next. *)
LEMMA ReceiveInOrder ==
  ASSUME FifoTypeOK, InOrder, NEW fd \in Fd, Receive(fd)
  PROVE  InOrder'
<1>1. PICK n \in Len(got[fd]) + 1 .. Len(sent[fd]) : got' = [got EXCEPT ![fd] = SubSeq(sent[fd], 1, n)]
  BY DEF Receive
<1>2. n \in 0 .. Len(sent[fd])
  BY <1>1, LenProperties DEF FifoTypeOK
<1>3. Len(SubSeq(sent[fd], 1, n)) = n
  BY <1>2, Beginning DEF FifoTypeOK
<1> QED
  BY <1>1, <1>2, <1>3 DEF FifoTypeOK, InOrder, Receive

(* Only a packet that was not received is lost. *)
LEMMA LoseInOrder ==
  ASSUME FifoTypeOK, InOrder, NEW fd \in Fd, Lose(fd)
  PROVE  InOrder'
<1>1. PICK i \in Len(got[fd]) + 1 .. Len(sent[fd]) : sent' = [sent EXCEPT ![fd] = Without(@, i)]
  BY DEF Lose
<1>2. SUFFICES ASSUME NEW g \in Fd
               PROVE  Len(got[g]) <= Len(sent'[g]) /\ got[g] = SubSeq(sent'[g], 1, Len(got[g]))
  BY DEF InOrder, Lose
<1>3. /\ sent[g] \in Seq(Packet) /\ got[g] \in Seq(Packet)
      /\ Len(got[g]) <= Len(sent[g]) /\ got[g] = SubSeq(sent[g], 1, Len(got[g]))
  BY DEF FifoTypeOK, InOrder
<1>4. CASE g # fd
  BY <1>1, <1>3, <1>4 DEF FifoTypeOK
<1>5. CASE g = fd
  <2>1. sent'[g] = Without(sent[g], i)
    BY <1>1, <1>5 DEF FifoTypeOK
  <2>2. Len(got[g]) \in Nat /\ Len(sent[g]) \in Nat /\ i \in 1 .. Len(sent[g]) /\ Len(got[g]) <= i - 1
    BY <1>1, <1>3, <1>5, LenProperties
  <2>3. /\ Without(sent[g], i) \in Seq(Packet)
        /\ Len(Without(sent[g], i)) = Len(sent[g]) - 1
        /\ \A j \in 1 .. i - 1 : Without(sent[g], i)[j] = sent[g][j]
    BY <1>3, <2>2, WithoutProperties
  <2>4. SubSeq(Without(sent[g], i), 1, Len(got[g])) = SubSeq(sent[g], 1, Len(got[g]))
    BY <1>3, <2>2, <2>3, SameBeginning
  <2> QED
    BY <1>3, <2>1, <2>2, <2>3, <2>4
<1> QED
  BY <1>4, <1>5

(* Nothing is the beginning of nothing. *)
LEMMA EmptyInOrder ==
  ASSUME NEW got_, NEW sent_, got_ = <<>>, sent_ = <<>>
  PROVE  Len(got_) <= Len(sent_) /\ got_ = SubSeq(sent_, 1, Len(got_))
<1>1. Len(got_) = 0 /\ Len(sent_) = 0
  BY EmptySeq
<1>2. SubSeq(sent_, 1, Len(got_)) = <<>>
  BY <1>1, SubSeqEmpty
<1> QED
  BY <1>1, <1>2

(* A closed fd has received nothing of nothing. *)
LEMMA CloseInOrder ==
  ASSUME FifoTypeOK, InOrder, NEW fds \in SUBSET Fd, Close(fds)
  PROVE  InOrder'
<1> SUFFICES ASSUME NEW g \in Fd
             PROVE  Len(got'[g]) <= Len(sent'[g]) /\ got'[g] = SubSeq(sent'[g], 1, Len(got'[g]))
  BY DEF InOrder
<1>1. CASE g \in fds
  <2>1. got'[g] = <<>> /\ sent'[g] = <<>>
    BY <1>1 DEF Close
  <2> QED
    BY <2>1, EmptyInOrder
<1>2. CASE g \notin fds
  <2>1. got'[g] = got[g] /\ sent'[g] = sent[g]
    BY <1>2 DEF Close
  <2> QED
    BY <2>1 DEF InOrder
<1> QED
  BY <1>1, <1>2

(* Every peer has received the beginning of what was sent to it: packets come
   whole, once and in order (server.cpp:182-253, dataqueue.cpp:77-173). *)
THEOREM ReceivedInOrder == FifoSpec => []InOrder
<1>1. FifoInit => InOrder
  <2>1. ASSUME FifoInit, NEW fd \in Fd PROVE got[fd] = <<>> /\ sent[fd] = <<>>
    BY <2>1 DEF FifoInit
  <2> QED
    BY <2>1, EmptyInOrder DEF InOrder
<1>2. FifoTypeOK /\ InOrder /\ [FifoNext]_fifoVars => InOrder'
  <2> SUFFICES ASSUME FifoTypeOK, InOrder, [FifoNext]_fifoVars PROVE InOrder'
    OBVIOUS
  <2>1. ASSUME NEW fd \in Fd, Doom(fd) PROVE InOrder'
    BY <2>1 DEF Doom, InOrder
  <2>2. CASE UNCHANGED fifoVars
    BY <2>2 DEF fifoVars, InOrder
  <2> QED
    BY <2>1, <2>2, SendInOrder, ReceiveInOrder, LoseInOrder, CloseInOrder DEF FifoNext
<1> QED
  BY <1>1, <1>2, FifoTypeCorrect, PTL DEF FifoSpec

(* What a peer has received is never taken back or changed while its connection
   is open: received lists only grow, or end with the connection. *)
ReceivedStays ==
  [][\A fd \in Fd : got'[fd] = <<>> \/ SubSeq(got'[fd], 1, Len(got[fd])) = got[fd]]_fifoVars

(* No later packet, loss or closing of another fd disturbs what was received. *)
THEOREM ReceivedKept == FifoSpec => ReceivedStays
<1>1. FifoTypeOK /\ InOrder /\ [FifoNext]_fifoVars
        => [\A fd \in Fd : got'[fd] = <<>> \/ SubSeq(got'[fd], 1, Len(got[fd])) = got[fd]]_fifoVars
  <2> SUFFICES ASSUME FifoTypeOK, InOrder, FifoNext, NEW g \in Fd
               PROVE  got'[g] = <<>> \/ SubSeq(got'[g], 1, Len(got[g])) = got[g]
    OBVIOUS
  <2>1. SubSeq(got[g], 1, Len(got[g])) = got[g]
    BY SubSeqFull DEF FifoTypeOK
  <2>2. ASSUME NEW fd \in Fd, Receive(fd) PROVE SubSeq(got'[g], 1, Len(got[g])) = got[g]
    <3>1. PICK n \in Len(got[fd]) + 1 .. Len(sent[fd]) : got' = [got EXCEPT ![fd] = SubSeq(sent[fd], 1, n)]
      BY <2>2 DEF Receive
    <3>2. CASE g # fd
      BY <2>1, <3>1, <3>2 DEF FifoTypeOK
    <3>3. CASE g = fd
      <4>1. got'[g] = SubSeq(sent[g], 1, n) /\ sent[g] \in Seq(Packet) /\ got[g] \in Seq(Packet)
        BY <3>1, <3>3 DEF FifoTypeOK
      <4>2. Len(got[g]) \in Nat /\ n \in 0 .. Len(sent[g]) /\ Len(got[g]) <= n /\ Len(got[g]) <= Len(sent[g])
        BY <3>1, <3>3, <4>1, LenProperties
      <4>3. /\ SubSeq(sent[g], 1, n) \in Seq(Packet) /\ Len(SubSeq(sent[g], 1, n)) = n
            /\ \A i \in 1 .. n : SubSeq(sent[g], 1, n)[i] = sent[g][i]
        BY <4>1, <4>2, Beginning
      <4>4. SubSeq(SubSeq(sent[g], 1, n), 1, Len(got[g])) = SubSeq(sent[g], 1, Len(got[g]))
        BY <4>1, <4>2, <4>3, SameBeginning
      <4> QED
        BY <4>1, <4>4 DEF InOrder
    <3> QED
      BY <3>2, <3>3
  <2>3. ASSUME NEW fd \in Fd, Send(fd) \/ Doom(fd) \/ Lose(fd) PROVE got'[g] = got[g]
    BY <2>3 DEF Send, Doom, Lose
  <2>4. ASSUME NEW fds \in SUBSET Fd, Close(fds) PROVE got'[g] = <<>> \/ got'[g] = got[g]
    BY <2>4 DEF Close
  <2> QED
    BY <2>1, <2>2, <2>3, <2>4 DEF FifoNext
<1> QED
  BY <1>1, FifoTypeCorrect, ReceivedInOrder, PTL DEF FifoSpec, ReceivedStays

=============================================================================
