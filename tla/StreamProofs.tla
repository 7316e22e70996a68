----------------------------- MODULE StreamProofs -----------------------------
(***************************************************************************)
(* Theorems about Stream for any fds, buffers, sizes and bounds: the types *)
(* of its variables, and that it implements PacketFifo: however the write  *)
(* pass, the buffers and the peers' reads cut the bytes, packets arrive    *)
(* whole, once and in order.                                               *)
(***************************************************************************)
EXTENDS Stream, ListProofs

(* Lists of bytes. *)
LEMMA BytesConcat ==
  ASSUME NEW a \in Seq(Nat), NEW b \in Seq(Nat)
  PROVE  /\ a \o b \in Seq(Nat) /\ Len(a \o b) = Len(a) + Len(b)
         /\ Len(a) \in Nat /\ Len(b) \in Nat
         /\ \A i \in 1 .. Len(a) + Len(b) :
              (a \o b)[i] = IF i <= Len(a) THEN a[i] ELSE b[i - Len(a)]
  BY ConcatProperties, LenProperties

LEMMA BytesCut ==
  ASSUME NEW a \in Seq(Nat), NEW k \in Nat \ {0}, NEW n \in Nat, k <= n + 1, n <= Len(a)
  PROVE  /\ SubSeq(a, k, n) \in Seq(Nat) /\ Len(SubSeq(a, k, n)) = n - k + 1
         /\ \A i \in 1 .. n - k + 1 : SubSeq(a, k, n)[i] = a[k - 1 + i]
<1>1. \A i \in k .. n : a[i] \in Nat
  BY ElementOfSeq, LenProperties
<1>2. /\ SubSeq(a, k, n) \in Seq(Nat)
      /\ Len(SubSeq(a, k, n)) = IF k <= n THEN n - k + 1 ELSE 0
      /\ \A i \in 1 .. n - k + 1 : SubSeq(a, k, n)[i] = a[k + i - 1]
  BY <1>1, SubSeqProperties
<1> QED
  BY <1>2

(* The size that a header says. *)
LEMMA HeaderSize ==
  ASSUME NEW w \in Seq(Nat), NEW n \in 1 .. 255, w[1] = 0, w[2] = n
  PROVE  /\ ReadSize(w) = n /\ ReadSize(w) # 0
         /\ Enough(w) <=> Len(w) >= 2 + n
<1>1. ReadSize(w) = w[1] * 256 + w[2]
  BY DEF ReadSize
<1>2. ReadSize(w) = n
  BY <1>1
<1> QED
  BY <1>2 DEF Enough, SizeOf

(* The bytes of packets *)

LEMMA PacketOfProperties ==
  ASSUME NEW n \in 1 .. MaxSent, NEW size \in Size
  PROVE  /\ PacketOf(n, size) \in Packets /\ PacketOf(n, size) \in Seq(Nat)
         /\ Len(PacketOf(n, size)) = size /\ size \in 1 .. 255
         /\ PacketOf(n, size)[1] = n
<1> DEFINE packet == PacketOf(n, size)
<1>1. size \in 1 .. 255 /\ n \in Nat
  BY StreamAssumption
<1>2. packet \in [1 .. size -> Nat] /\ DOMAIN packet = 1 .. size /\ packet[1] = n
  BY <1>1 DEF PacketOf
<1>3. packet \in Packets
  BY DEF Packets
<1> HIDE DEF packet
<1>4. packet \in Seq(Nat)
  BY <1>1, <1>2, SeqDef
<1>5. Len(packet) \in Nat /\ 1 .. Len(packet) = 1 .. size
  BY <1>2, <1>4, LenProperties
<1>6. Len(packet) = size
  BY <1>1, <1>5
<1> QED
  BY <1>1, <1>2, <1>3, <1>4, <1>6 DEF packet

LEMMA PacketProperties ==
  ASSUME NEW p \in Packets
  PROVE  p \in Seq(Nat) /\ Len(p) \in 1 .. 255 /\ p[1] \in 1 .. MaxSent
<1>1. PICK n \in 1 .. MaxSent, size \in Size : p = PacketOf(n, size)
  BY DEF Packets
<1>2. /\ PacketOf(n, size) \in Packets /\ PacketOf(n, size) \in Seq(Nat)
      /\ Len(PacketOf(n, size)) = size /\ size \in 1 .. 255
      /\ PacketOf(n, size)[1] = n
  BY PacketOfProperties, Zenon
<1>3. Len(PacketOf(n, size)) \in 1 .. 255
  BY <1>2
<1> QED
  BY <1>1, <1>2, <1>3

LEMMA FramedProperties ==
  ASSUME NEW p \in Packets
  PROVE  /\ Framed(p) \in Seq(Nat) /\ Len(Framed(p)) = Len(p) + 2
         /\ Framed(p)[1] = 0 /\ Framed(p)[2] = Len(p)
         /\ \A i \in 1 .. Len(p) : Framed(p)[i + 2] = p[i]
<1> DEFINE header == <<0, Len(p)>>
<1>1. p \in Seq(Nat) /\ Len(p) \in Nat
  BY PacketProperties
<1>2. header \in Seq(Nat) /\ Len(header) = 2 /\ header[1] = 0 /\ header[2] = Len(p)
  BY <1>1
<1>3. Framed(p) = header \o p
  BY DEF Framed
<1> HIDE DEF header
<1>4. /\ header \o p \in Seq(Nat) /\ Len(header \o p) = Len(header) + Len(p)
      /\ \A i \in 1 .. Len(header) + Len(p) :
           (header \o p)[i] = IF i <= Len(header) THEN header[i] ELSE p[i - Len(header)]
  BY <1>1, <1>2, BytesConcat
<1>5. Framed(p)[1] = 0 /\ Framed(p)[2] = Len(p)
  BY <1>1, <1>2, <1>3, <1>4
<1>6. ASSUME NEW i \in 1 .. Len(p) PROVE Framed(p)[i + 2] = p[i]
  <2>1. i + 2 \in 1 .. 2 + Len(p) /\ ~(i + 2 <= 2) /\ (i + 2) - 2 = i
    BY <1>1
  <2> QED
    BY <1>2, <1>3, <1>4, <2>1
<1>7. Framed(p) \in Seq(Nat) /\ Len(Framed(p)) = Len(p) + 2
  BY <1>1, <1>2, <1>3, <1>4
<1> QED
  BY <1>5, <1>6, <1>7

-----------------------------------------------------------------------------
(* The bytes w and those still to come, z, are the frame of p and then g. *)
BeforePacket(w, z, p, g) == w \o z = Framed(p) \o g

(* A turn of feed() that has all of a packet takes it. *)
LEMMA TurnTakesPacket ==
  ASSUME NEW p \in Packets, NEW fed \in FeedState, NEW z \in Seq(Nat), NEW g \in Seq(Nat),
         BeforePacket(fed.workspace, z, p, g)
  PROVE  \/ FeedTurn(fed) = fed
         \/ /\ FeedTurn(fed) \in FeedState
            /\ FeedTurn(fed).queue = Append(fed.queue, p)
            /\ FeedTurn(fed).workspace \o z = g
<1> DEFINE w == fed.workspace
           got == fed.queue
<1>0. w \in Seq(Nat) /\ got \in Seq(Seq(Nat)) /\ w \o z = Framed(p) \o g
      /\ fed = [workspace |-> w, queue |-> got] /\ fed.workspace = w /\ fed.queue = got
  BY DEF FeedState, BeforePacket
<1> HIDE DEF w, got
<1>1. /\ Len(w) \in Nat /\ Len(z) \in Nat /\ Len(g) \in Nat
      /\ Len(p) \in 1 .. 255 /\ p \in Seq(Nat) /\ fed.workspace = w /\ fed.queue = got
  <2>1. Len(w) \in Nat /\ Len(z) \in Nat /\ Len(g) \in Nat
    BY <1>0, LenProperties
  <2>2. Len(p) \in 1 .. 255 /\ p \in Seq(Nat)
    BY PacketProperties
  <2> QED
    BY <1>0, <2>1, <2>2
<1>2. /\ Framed(p) \in Seq(Nat) /\ Len(Framed(p)) = Len(p) + 2
      /\ Framed(p)[1] = 0 /\ Framed(p)[2] = Len(p)
      /\ \A i \in 1 .. Len(p) : Framed(p)[i + 2] = p[i]
  BY FramedProperties
<1>3. /\ Len(w \o z) = Len(w) + Len(z)
      /\ \A i \in 1 .. Len(w) + Len(z) : (w \o z)[i] = IF i <= Len(w) THEN w[i] ELSE z[i - Len(w)]
  BY <1>0, BytesConcat
<1>4. /\ Len(Framed(p) \o g) = Len(p) + 2 + Len(g)
      /\ \A i \in 1 .. Len(p) + 2 + Len(g) :
           (Framed(p) \o g)[i] = IF i <= Len(p) + 2 THEN Framed(p)[i] ELSE g[i - (Len(p) + 2)]
  <2>1. /\ Len(Framed(p) \o g) = Len(Framed(p)) + Len(g)
        /\ \A i \in 1 .. Len(Framed(p)) + Len(g) :
             (Framed(p) \o g)[i] = IF i <= Len(Framed(p)) THEN Framed(p)[i] ELSE g[i - Len(Framed(p))]
    BY <1>2, BytesConcat
  <2> QED
    BY <1>1, <1>2, <2>1
<1>5. Len(w) + Len(z) = Len(p) + 2 + Len(g) /\ w \o z = Framed(p) \o g
  BY <1>0, <1>3, <1>4
<1>6. CASE Len(w) < SizeOf
  BY <1>1, <1>6 DEF FeedTurn
<1>7. CASE Len(w) >= 2
  <2>1. w[1] = 0 /\ w[2] = Len(p)
    <3>1. /\ 1 \in 1 .. Len(w) + Len(z) /\ 2 \in 1 .. Len(w) + Len(z)
          /\ 1 <= Len(w) /\ 2 <= Len(w) /\ 1 <= Len(p) + 2 /\ 2 <= Len(p) + 2
      <4>1. Len(w) \in Nat /\ Len(z) \in Nat /\ Len(p) \in 1 .. 255
        BY <1>1, Zenon
      <4> QED
        BY <1>7, <4>1
    <3>2. (w \o z)[1] = w[1] /\ (w \o z)[2] = w[2]
      <4>1. \A i \in 1 .. Len(w) + Len(z) : i <= Len(w) => (w \o z)[i] = w[i]
        BY <1>3, Zenon
      <4> QED
        BY <3>1, <4>1, Zenon
    <3>3. (Framed(p) \o g)[1] = Framed(p)[1] /\ (Framed(p) \o g)[2] = Framed(p)[2]
      BY <1>4, <1>5, <3>1
    <3> QED
      BY <1>2, <1>5, <3>2, <3>3
  <2>2. /\ ReadSize(w) = Len(p) /\ ReadSize(w) # 0
        /\ Enough(w) <=> Len(w) >= 2 + Len(p)
    BY <1>0, <1>1, <2>1, HeaderSize
  <2>3. CASE ~Enough(w)
    BY <1>1, <1>7, <2>2, <2>3 DEF FeedTurn, SizeOf
  <2>4. CASE Enough(w)
    <3> DEFINE end == 2 + Len(p)
               left == SubSeq(w, end + 1, Len(w))
               first == SubSeq(w, 3, end)
    <3>1. end \in Nat /\ end <= Len(w)
      <4>1. Len(w) >= end
        BY <2>2, <2>4, Zenon
      <4>2. Len(w) \in Nat /\ Len(p) \in 1 .. 255
        BY <1>1
      <4> QED
        BY <4>1, <4>2
    <3>2. /\ left \in Seq(Nat) /\ Len(left) = Len(w) - end
          /\ \A i \in 1 .. Len(w) - end : left[i] = w[end + i]
      <4> DEFINE k == end + 1
                 m == Len(w)
      <4>1. end \in Nat /\ m \in Nat /\ end <= m /\ w \in Seq(Nat)
        BY <1>0, <1>1, <3>1, Zenon
      <4>2. left = SubSeq(w, k, m)
        OBVIOUS
      <4> HIDE DEF end, left, m
      <4>3. k \in Nat \ {0} /\ k <= m + 1 /\ m <= Len(w)
        BY <4>1 DEF m
      <4>4. m - k + 1 = m - end /\ \A i \in 1 .. m - end : k - 1 + i = end + i
        BY <4>1
      <4> HIDE DEF k
      <4>5. /\ SubSeq(w, k, m) \in Seq(Nat) /\ Len(SubSeq(w, k, m)) = m - k + 1
            /\ \A i \in 1 .. m - k + 1 : SubSeq(w, k, m)[i] = w[k - 1 + i]
        BY <4>1, <4>3, BytesCut
      <4>6. /\ left \in Seq(Nat) /\ Len(left) = m - end
            /\ \A i \in 1 .. m - end : left[i] = w[end + i]
        BY <4>2, <4>4, <4>5
      <4> QED
        BY <4>6 DEF m
    <3>3. /\ first \in Seq(Nat) /\ Len(first) = Len(p)
          /\ \A i \in 1 .. Len(p) : first[i] = w[i + 2]
      <4>1. /\ first \in Seq(Nat) /\ Len(first) = end - 3 + 1
            /\ \A i \in 1 .. end - 3 + 1 : first[i] = w[3 - 1 + i]
        <5>1. 3 \in Nat \ {0} /\ 3 <= end + 1
          <6>1. Len(p) \in 1 .. 255
            BY <1>1, Zenon
          <6> QED
            BY <6>1
        <5> HIDE DEF end
        <5> QED
          BY <1>0, <3>1, <5>1, BytesCut
      <4> QED
        BY <1>1, <4>1
    <3>4. FeedTurn(fed) = [workspace |-> left, queue |-> Append(got, first)]
      <4>1. SizeOf + ReadSize(w) = end /\ SizeOf + 1 = 3 /\ ~(Len(w) < SizeOf)
        <5>1. SizeOf = 2 /\ ReadSize(w) = Len(p)
          BY <2>2 DEF SizeOf
        <5>2. SizeOf + 1 = 3 /\ ~(Len(w) < SizeOf)
          <6>1. Len(w) \in Nat
            BY <1>1
          <6> QED
            BY <1>7, <5>1, <6>1
        <5> QED
          BY <5>1, <5>2
      <4> QED
        BY <1>1, <2>2, <2>4, <4>1 DEF FeedTurn
    <3> HIDE DEF left, first
    <3>5. first = p
      <4>1. ASSUME NEW i \in 1 .. Len(p) PROVE first[i] = p[i]
        <5>1. i + 2 \in 1 .. Len(w) /\ i + 2 \in 1 .. Len(p) + 2
          BY <1>1, <3>1
        <5>2. i + 2 \in 1 .. Len(w) + Len(z) /\ i + 2 <= Len(w) /\ i + 2 <= Len(p) + 2
          BY <1>1, <5>1
        <5>3. w[i + 2] = (w \o z)[i + 2]
          BY <1>3, <5>2
        <5>4. Framed(p)[i + 2] = (Framed(p) \o g)[i + 2]
          BY <1>4, <1>5, <5>2
        <5> QED
          BY <1>2, <1>5, <3>3, <5>3, <5>4
      <4> QED
        BY <1>1, <3>3, <4>1, SeqEqual
    <3>6. left \o z = g
      <4>1. /\ left \o z \in Seq(Nat) /\ Len(left \o z) = Len(left) + Len(z)
            /\ \A i \in 1 .. Len(left) + Len(z) :
                 (left \o z)[i] = IF i <= Len(left) THEN left[i] ELSE z[i - Len(left)]
        BY <3>2, BytesConcat
      <4>2. Len(left) + Len(z) = Len(g)
        <5>1. /\ Len(w) + Len(z) = end + Len(g) /\ Len(left) = Len(w) - end
              /\ Len(w) \in Nat /\ Len(z) \in Nat /\ Len(g) \in Nat
          BY <1>1, <1>5, <3>2
        <5> HIDE DEF end
        <5> QED
          BY <3>1, <5>1
      <4>3. ASSUME NEW i \in 1 .. Len(g) PROVE (left \o z)[i] = g[i]
        <5>1. end + i \in 1 .. Len(w) + Len(z) /\ ~(end + i <= Len(p) + 2) /\ (end + i) - (Len(p) + 2) = i
          <6>1. /\ Len(w) \in Nat /\ Len(z) \in Nat /\ Len(g) \in Nat /\ Len(p) \in 1 .. 255
                /\ Len(w) + Len(z) = Len(p) + 2 + Len(g)
            BY <1>1, <1>5
          <6> QED
            BY <6>1
        <5>2. g[i] = (w \o z)[end + i]
          BY <1>1, <1>4, <1>5, <5>1
        <5>3. CASE i <= Len(left)
          <6>1. end + i <= Len(w) /\ i \in 1 .. Len(w) - end
            BY <1>1, <3>1, <3>2, <5>3
          <6> QED
            BY <1>3, <3>2, <4>1, <4>2, <5>1, <5>2, <5>3, <6>1
        <5>4. CASE ~(i <= Len(left))
          <6>1. ~(end + i <= Len(w)) /\ (end + i) - Len(w) = i - Len(left)
            BY <1>1, <3>1, <3>2, <5>4
          <6> QED
            BY <1>3, <4>1, <4>2, <5>1, <5>2, <5>4, <6>1
        <5> QED
          BY <5>3, <5>4
      <4> QED
        BY <4>1, <4>2, <4>3, SeqEqual
    <3>7. Append(got, p) \in Seq(Seq(Nat))
      BY <1>0, <1>1, AppendProperties
    <3>8. FeedTurn(fed) = [workspace |-> left, queue |-> Append(got, p)]
      BY <3>4, <3>5
    <3>9. FeedTurn(fed) \in FeedState
      BY <3>2, <3>7, <3>8 DEF FeedState
    <3>10. FeedTurn(fed).queue = Append(got, p) /\ FeedTurn(fed).workspace \o z = g
      BY <3>6, <3>8
    <3> QED
      BY <1>0, <3>9, <3>10
  <2> QED
    BY <2>3, <2>4
<1>8. Len(w) < SizeOf \/ Len(w) >= 2
  BY <1>1 DEF SizeOf
<1> QED
  BY <1>6, <1>7, <1>8

(* The beginning of the frame of a packet, or nothing. *)
Part(t) == t = <<>> \/ \E p \in Packets, rest \in Seq(Nat) : rest # <<>> /\ t \o rest = Framed(p)

(* A turn finds no packet in bytes that end within a frame. *)
LEMMA TurnWaits ==
  ASSUME NEW t \in Seq(Nat), Part(t), NEW w \in Seq(Nat), NEW z \in Seq(Nat), w \o z = t,
         NEW got, NEW fed, fed = [workspace |-> w, queue |-> got]
  PROVE  FeedTurn(fed) = fed
<1>1. /\ Len(w) \in Nat /\ Len(z) \in Nat /\ Len(t) = Len(w) + Len(z)
      /\ \A i \in 1 .. Len(w) : t[i] = w[i]
      /\ fed.workspace = w /\ fed.queue = got
  <2>1. /\ Len(w) \in Nat /\ Len(z) \in Nat /\ Len(w \o z) = Len(w) + Len(z)
        /\ \A i \in 1 .. Len(w) + Len(z) : (w \o z)[i] = IF i <= Len(w) THEN w[i] ELSE z[i - Len(w)]
    BY BytesConcat
  <2>2. Len(w) \in Nat /\ Len(z) \in Nat
    BY <2>1
  <2>3. \A i \in 1 .. Len(w) : i \in 1 .. Len(w) + Len(z) /\ i <= Len(w)
    BY <2>2
  <2> QED
    BY <2>1, <2>3
<1>2. CASE Len(w) < SizeOf
  BY <1>1, <1>2 DEF FeedTurn
<1>3. CASE Len(w) >= 2
  <2>1. t # <<>>
    BY <1>1, <1>3, EmptySeq
  <2>2. PICK p \in Packets, rest \in Seq(Nat) : rest # <<>> /\ t \o rest = Framed(p)
    BY <2>1 DEF Part
  <2>3. /\ Framed(p) \in Seq(Nat) /\ Len(Framed(p)) = Len(p) + 2
        /\ Framed(p)[1] = 0 /\ Framed(p)[2] = Len(p) /\ Len(p) \in 1 .. 255
    BY FramedProperties, PacketProperties
  <2>4. /\ Len(t \o rest) = Len(t) + Len(rest)
        /\ \A i \in 1 .. Len(t) + Len(rest) :
             (t \o rest)[i] = IF i <= Len(t) THEN t[i] ELSE rest[i - Len(t)]
    BY BytesConcat
  <2>5. Len(rest) \in Nat \ {0}
    BY <2>2, EmptySeq
  <2>6. Len(w) < Len(p) + 2
    <3>1. Len(t) + Len(rest) = Len(p) + 2
      BY <2>2, <2>3, <2>4, Zenon
    <3>2. Len(t) = Len(w) + Len(z) /\ Len(w) \in Nat /\ Len(z) \in Nat
      BY <1>1, Zenon
    <3>3. Len(p) \in 1 .. 255
      BY <2>3
    <3> QED
      BY <2>5, <3>1, <3>2, <3>3
  <2>7. w[1] = 0 /\ w[2] = Len(p)
    <3>1. /\ 1 \in 1 .. Len(t) + Len(rest) /\ 2 \in 1 .. Len(t) + Len(rest)
          /\ 1 <= Len(t) /\ 2 <= Len(t) /\ 1 \in 1 .. Len(w) /\ 2 \in 1 .. Len(w)
      <4>1. Len(t) = Len(w) + Len(z) /\ Len(w) \in Nat /\ Len(z) \in Nat
        BY <1>1, Zenon
      <4>2. Len(t) >= 2 /\ Len(t) \in Nat
        BY <1>3, <4>1
      <4> QED
        BY <1>3, <2>5, <4>1, <4>2
    <3>2. t[1] = w[1] /\ t[2] = w[2]
      <4>1. \A i \in 1 .. Len(w) : t[i] = w[i]
        BY <1>1, Zenon
      <4> QED
        BY <3>1, <4>1, Zenon
    <3>3. (t \o rest)[1] = t[1] /\ (t \o rest)[2] = t[2]
      BY <2>4, <3>1
    <3> QED
      BY <2>2, <2>3, <3>2, <3>3
  <2>8. /\ ReadSize(w) # 0
        /\ Enough(w) <=> Len(w) >= 2 + Len(p)
    BY <2>3, <2>7, HeaderSize
  <2>9. ~Enough(w)
    <3>1. ~(Len(w) >= 2 + Len(p))
      <4>1. Len(w) \in Nat
        BY <1>1
      <4>2. Len(p) \in 1 .. 255
        BY <2>3
      <4> QED
        BY <2>6, <4>1, <4>2
    <3> QED
      BY <2>8, <3>1, Zenon
  <2> QED
    BY <1>1, <1>3, <2>8, <2>9 DEF FeedTurn, SizeOf
<1>4. Len(w) < SizeOf \/ Len(w) >= 2
  BY <1>1 DEF SizeOf
<1> QED
  BY <1>2, <1>3, <1>4

-----------------------------------------------------------------------------
(* f[i] are the bytes after the frame of the i-th packet of s: from f[q]   *)
(* on come the frames of the packets after q, up to k, and then f[k].      *)
Frames(f, s, q, k) ==
  /\ \A i \in q .. k : f[i] \in Seq(Nat)
  /\ \A i \in q + 1 .. k : f[i - 1] = Framed(s[i]) \o f[i]

LEMMA AppendConcat ==
  ASSUME NEW S, NEW a \in Seq(S), NEW b \in Seq(S), NEW e \in S
  PROVE  a \o Append(b, e) = Append(a \o b, e)
<1>1. /\ Append(b, e) \in Seq(S) /\ Len(Append(b, e)) = Len(b) + 1
      /\ \A i \in 1 .. Len(b) : Append(b, e)[i] = b[i]
      /\ Append(b, e)[Len(b) + 1] = e
      /\ Len(a) \in Nat /\ Len(b) \in Nat
  BY AppendProperties, LenProperties
<1>2. /\ a \o b \in Seq(S) /\ Len(a \o b) = Len(a) + Len(b)
      /\ \A i \in 1 .. Len(a) + Len(b) : (a \o b)[i] = IF i <= Len(a) THEN a[i] ELSE b[i - Len(a)]
  BY ConcatProperties
<1>3. /\ Append(a \o b, e) \in Seq(S) /\ Len(Append(a \o b, e)) = Len(a) + Len(b) + 1
      /\ \A i \in 1 .. Len(a) + Len(b) : Append(a \o b, e)[i] = (a \o b)[i]
      /\ Append(a \o b, e)[Len(a) + Len(b) + 1] = e
  <2>1. /\ Append(a \o b, e) \in Seq(S) /\ Len(Append(a \o b, e)) = Len(a \o b) + 1
        /\ \A i \in 1 .. Len(a \o b) : Append(a \o b, e)[i] = (a \o b)[i]
        /\ Append(a \o b, e)[Len(a \o b) + 1] = e
    BY <1>2, AppendProperties
  <2> QED
    BY <1>2, <2>1
<1> DEFINE c == Append(b, e)
<1> HIDE DEF c
<1>4. /\ a \o c \in Seq(S) /\ Len(a \o c) = Len(a) + Len(c)
      /\ \A i \in 1 .. Len(a) + Len(c) : (a \o c)[i] = IF i <= Len(a) THEN a[i] ELSE c[i - Len(a)]
  BY <1>1, ConcatProperties DEF c
<1>5. ASSUME NEW i \in 1 .. Len(a) + Len(b) + 1
      PROVE  (a \o c)[i] = Append(a \o b, e)[i]
  <2>1. (a \o c)[i] = IF i <= Len(a) THEN a[i] ELSE c[i - Len(a)]
    <3>1. Len(c) = Len(b) + 1
      BY <1>1 DEF c
    <3>2. i \in 1 .. Len(a) + Len(c)
      BY <1>1, <3>1
    <3> QED
      BY <1>4, <3>2
  <2>2. CASE i <= Len(a)
    <3>1. i \in 1 .. Len(a) + Len(b)
      BY <1>1, <2>2
    <3> QED
      BY <1>2, <1>3, <2>1, <2>2, <3>1
  <2>3. CASE ~(i <= Len(a)) /\ i <= Len(a) + Len(b)
    <3>1. i \in 1 .. Len(a) + Len(b) /\ i - Len(a) \in 1 .. Len(b)
      BY <1>1, <2>3
    <3>2. c[i - Len(a)] = b[i - Len(a)]
      BY <1>1, <3>1 DEF c
    <3> QED
      BY <1>2, <1>3, <2>1, <2>3, <3>1, <3>2
  <2>4. CASE i = Len(a) + Len(b) + 1
    <3>1. ~(i <= Len(a)) /\ i - Len(a) = Len(b) + 1
      BY <1>1, <2>4
    <3> QED
      BY <1>1, <1>3, <2>1, <2>4, <3>1 DEF c
  <2>5. i <= Len(a) \/ (~(i <= Len(a)) /\ i <= Len(a) + Len(b)) \/ i = Len(a) + Len(b) + 1
    BY <1>1
  <2> QED
    BY <2>2, <2>3, <2>4, <2>5
<1>6. Len(a \o c) = Len(Append(a \o b, e)) /\ Len(a \o c) = Len(a) + Len(b) + 1
  BY <1>1, <1>3, <1>4 DEF c
<1>7. a \o c = Append(a \o b, e)
  BY <1>3, <1>4, <1>5, <1>6, SeqEqual
<1> QED
  BY <1>7 DEF c

(* One packet more of the beginning. *)
LEMMA BeginningNext ==
  ASSUME NEW S, NEW s \in Seq(S), NEW i \in Nat, i < Len(s)
  PROVE  Append(SubSeq(s, 1, i), s[i + 1]) = SubSeq(s, 1, i + 1)
<1> DEFINE front == SubSeq(s, 1, i)
           more == SubSeq(s, 1, i + 1)
<1>1. Len(s) \in Nat /\ \A j \in 1 .. Len(s) : s[j] \in S
  BY LenProperties, ElementOfSeq
<1>2. front \in Seq(S) /\ Len(front) = i /\ \A j \in 1 .. i : front[j] = s[j]
  <2>1. \A j \in 1 .. i : s[j] \in S
    BY <1>1
  <2>2. /\ front \in Seq(S) /\ Len(front) = IF 1 <= i THEN i - 1 + 1 ELSE 0
        /\ \A j \in 1 .. i - 1 + 1 : front[j] = s[1 + j - 1]
    BY <2>1, SubSeqProperties
  <2> QED
    BY <2>2
<1>3. more \in Seq(S) /\ Len(more) = i + 1 /\ \A j \in 1 .. i + 1 : more[j] = s[j]
  <2>1. \A j \in 1 .. i + 1 : s[j] \in S
    BY <1>1
  <2>2. /\ more \in Seq(S) /\ Len(more) = IF 1 <= i + 1 THEN (i + 1) - 1 + 1 ELSE 0
        /\ \A j \in 1 .. (i + 1) - 1 + 1 : more[j] = s[1 + j - 1]
    BY <2>1, SubSeqProperties
  <2> QED
    BY <2>2
<1> HIDE DEF front, more
<1>4. s[i + 1] \in S
  BY <1>1
<1>5. /\ Append(front, s[i + 1]) \in Seq(S) /\ Len(Append(front, s[i + 1])) = i + 1
      /\ \A j \in 1 .. i : Append(front, s[i + 1])[j] = s[j]
      /\ Append(front, s[i + 1])[i + 1] = s[i + 1]
  BY <1>2, <1>4, AppendProperties
<1>6. \A j \in 1 .. i + 1 : j \in 1 .. i \/ j = i + 1
  OBVIOUS
<1>7. \A j \in 1 .. i + 1 : Append(front, s[i + 1])[j] = more[j]
  BY <1>3, <1>5, <1>6
<1>8. Append(front, s[i + 1]) = more
  BY <1>3, <1>5, <1>7, SeqEqual
<1> QED
  BY <1>8 DEF front, more

(* After some turns, the first packets after q, up to i, are in the queue, *)
(* and the bytes left are before those, z, that are still to be read.      *)
FedTo(fed, z, f, s, q, i) ==
  /\ fed.workspace \o z = f[i]
  /\ SubSeq(s, 1, q) \o fed.queue = SubSeq(s, 1, i)

LEMMA TurnFollows ==
  ASSUME NEW s \in Seq(Packets), NEW q \in 0 .. Len(s), NEW k \in q .. Len(s), NEW f,
         Frames(f, s, q, k), Part(f[k]), NEW z \in Seq(Nat), NEW i \in q .. k,
         NEW fed \in FeedState, FedTo(fed, z, f, s, q, i)
  PROVE  FeedTurn(fed) \in FeedState /\ \E j \in q .. k : FedTo(FeedTurn(fed), z, f, s, q, j)
<1> DEFINE w == fed.workspace
           got == fed.queue
<1>1. /\ Packets \subseteq Seq(Nat) /\ Len(s) \in Nat /\ \A j \in 1 .. Len(s) : s[j] \in Packets
  BY PacketProperties, LenProperties, ElementOfSeq
<1>2. w \in Seq(Nat) /\ got \in Seq(Seq(Nat)) /\ fed = [workspace |-> w, queue |-> got]
  BY DEF FeedState
<1>3. w \o z = f[i] /\ SubSeq(s, 1, q) \o got = SubSeq(s, 1, i)
  BY DEF FedTo
<1>4. SubSeq(s, 1, q) \in Seq(Seq(Nat))
  <2>1. \A j \in 1 .. q : s[j] \in Seq(Nat)
    BY <1>1
  <2> QED
    BY <2>1, SubSeqProperties
<1> HIDE DEF w, got
<1>5. CASE FeedTurn(fed) = fed
  BY <1>5
<1>6. CASE FeedTurn(fed) # fed
  <2>1. i # k
    <3> SUFFICES ASSUME i = k PROVE FeedTurn(fed) = fed
      BY <1>6
    <3> DEFINE t == f[k]
    <3>1. k \in q .. k
      BY <1>1
    <3>2. t \in Seq(Nat)
      BY <3>1 DEF Frames
    <3>3. Part(t) /\ w \o z = t
      BY <1>3
    <3> HIDE DEF t
    <3> QED
      BY <1>2, <3>2, <3>3, TurnWaits
  <2> DEFINE p == s[i + 1]
             g == f[i + 1]
  <2>2. i + 1 \in q + 1 .. k /\ i + 1 \in q .. k /\ i \in Nat /\ i < Len(s) /\ (i + 1) - 1 = i
        /\ i + 1 \in 1 .. Len(s)
    BY <1>1, <2>1
  <2>3. p \in Packets /\ p \in Seq(Nat) /\ g \in Seq(Nat) /\ w \o z = Framed(p) \o g
    <3>1. p \in Packets /\ p \in Seq(Nat)
      BY <1>1, <2>2
    <3>2. g \in Seq(Nat)
      BY <2>2 DEF Frames
    <3>3. f[(i + 1) - 1] = Framed(p) \o g
      BY <2>2 DEF Frames
    <3>4. w \o z = Framed(p) \o g
      BY <1>3, <2>2, <3>3
    <3> QED
      BY <3>1, <3>2, <3>4
  <2>4. Append(SubSeq(s, 1, i), p) = SubSeq(s, 1, i + 1)
    BY <2>2, BeginningNext
  <2> HIDE DEF p
  <2>5. /\ FeedTurn(fed) \in FeedState
        /\ FeedTurn(fed).queue = Append(got, p)
        /\ FeedTurn(fed).workspace \o z = g
    <3> HIDE DEF g
    <3>1. BeforePacket(fed.workspace, z, p, g) /\ fed.queue = got
      BY <2>3 DEF w, got, BeforePacket
    <3>2. p \in Packets /\ g \in Seq(Nat)
      BY <2>3
    <3>3. \/ FeedTurn(fed) = fed
          \/ /\ FeedTurn(fed) \in FeedState
             /\ FeedTurn(fed).queue = Append(fed.queue, p)
             /\ FeedTurn(fed).workspace \o z = g
      BY <3>1, <3>2, TurnTakesPacket, Zenon
    <3> QED
      BY <1>6, <3>1, <3>3
  <2>6. SubSeq(s, 1, q) \o Append(got, p) = Append(SubSeq(s, 1, q) \o got, p)
    <3> DEFINE b == SubSeq(s, 1, q)
               S == Seq(Nat)
    <3>1. b \in Seq(S) /\ got \in Seq(S) /\ p \in S
      BY <1>2, <1>4, <2>3
    <3> HIDE DEF b, S
    <3>2. b \o Append(got, p) = Append(b \o got, p)
      BY <3>1, AppendConcat
    <3> QED
      BY <3>2 DEF b
  <2>7. FedTo(FeedTurn(fed), z, f, s, q, i + 1)
    BY <1>3, <2>4, <2>5, <2>6 DEF FedTo
  <2> QED
    BY <2>2, <2>5, <2>7
<1> QED
  BY <1>5, <1>6

(* What feed() queues of the bytes read are the packets that come next, and *)
(* what it leaves is what comes before the bytes that are still to be read. *)
LEMMA FeedFollows ==
  ASSUME NEW s \in Seq(Packets), NEW q \in 0 .. Len(s), NEW k \in q .. Len(s), NEW f,
         Frames(f, s, q, k), Part(f[k]),
         NEW a \in Seq(Nat), NEW z \in Seq(Nat), a \o z = f[q]
  PROVE  FeedBytes(a) \in FeedState /\ \E i \in q .. k : FedTo(FeedBytes(a), z, f, s, q, i)
<1> DEFINE turn == [fed \in FeedState |-> FeedTurn(fed)]
           start == [workspace |-> a, queue |-> <<>>]
           X == {fed \in FeedState : \E i \in q .. k : FedTo(fed, z, f, s, q, i)}
<1>1. Packets \subseteq Seq(Nat) /\ Len(s) \in Nat /\ Len(a) \in Nat
  BY PacketProperties, LenProperties
<1>2. SubSeq(s, 1, q) \in Seq(Packets)
  <2>1. \A i \in 1 .. q : s[i] \in Packets
    BY <1>1, ElementOfSeq
  <2> QED
    BY <2>1, SubSeqProperties
<1>3. start \in FeedState /\ FedTo(start, z, f, s, q, q)
  <2>1. <<>> \in Seq(Seq(Nat))
    BY EmptySeq
  <2>2. SubSeq(s, 1, q) \o <<>> = SubSeq(s, 1, q)
    BY <1>2, ConcatEmptySeq
  <2>3. start.workspace = a /\ start.queue = <<>>
    OBVIOUS
  <2> QED
    BY <2>1, <2>2, <2>3 DEF FeedState, FedTo
<1> HIDE DEF start
<1>4. start \in X
  BY <1>1, <1>3
<1>5. ASSUME NEW fed \in X PROVE turn[fed] \in X
  <2>1. PICK i \in q .. k : FedTo(fed, z, f, s, q, i)
    OBVIOUS
  <2>2. fed \in FeedState /\ turn[fed] = FeedTurn(fed)
    OBVIOUS
  <2>3. FeedTurn(fed) \in FeedState /\ \E j \in q .. k : FedTo(FeedTurn(fed), z, f, s, q, j)
    BY <2>1, <2>2, TurnFollows
  <2> QED
    BY <2>2, <2>3
<1>6. Keeps(turn, X)
  BY <1>5 DEF Keeps
<1>7. FeedBytes(a) = Repeated(turn, Len(a), start)
  BY DEF FeedBytes, start
<1> HIDE DEF turn, X
<1>8. FeedBytes(a) \in X
  BY <1>1, <1>4, <1>6, <1>7, RepeatedKeeps
<1> QED
  BY <1>8 DEF X

-----------------------------------------------------------------------------
(* What is under way to a peer.  es are the elements of out_data_ for one  *)
(* fd, s the packets sent to it, got those received, k the number of those *)
(* written out, f[i] the bytes after packet i, f[k] the written part of    *)
(* the packet after k.                                                     *)

Entry == [fd : Fd, data : Seq(Nat), closefd : BOOLEAN, packet : Packets]

(* Packet k of s and those before it are written out, the others wait. *)
Carried(es, s, got, k) ==
  /\ k \in Len(got) .. Len(s)
  /\ got = SubSeq(s, 1, Len(got))
  /\ \A e \in es : \E j \in k + 1 .. Len(s) : e.packet = s[j]
  /\ \A j \in k + 1 .. Len(s) : \E e \in es : e.packet = s[j]

(* The bytes that the peer has not made packets of are those of packets    *)
(* q + 1 to k, and the first of another.                                   *)
UnderWay(s, q, k, f, bytes) == f[q] = bytes /\ Frames(f, s, q, k) /\ Part(f[k])

(* What waits is the rest of packet k + 1, of which t is written, and      *)
(* whole packets.                                                          *)
Waiting(es, s, k, t) ==
  /\ k = Len(s) => t = <<>>
  /\ \A e \in es : /\ e.packet = s[k + 1] => t \o e.data = Framed(e.packet)
                   /\ e.packet # s[k + 1] => e.data = Framed(e.packet)

(* Packets are numbered. *)
Number == [p \in Packets |-> p[1]]

LEMMA NumberType == Number \in [Packets -> Nat]
<1>1. \A p \in Packets : p[1] \in Nat
  BY PacketProperties
<1> QED
  BY <1>1 DEF Number

LEMMA EmptyConcat ==
  ASSUME NEW b \in Seq(Nat)
  PROVE  <<>> \o b = b /\ b \o <<>> = b
  BY ConcatEmptySeq

(* The beginning of a list, when one more comes at its end. *)
LEMMA BeginningStays ==
  ASSUME NEW S, NEW s \in Seq(S), NEW e \in S, NEW n \in 0 .. Len(s)
  PROVE  SubSeq(Append(s, e), 1, n) = SubSeq(s, 1, n)
<1> DEFINE longer == Append(s, e)
<1>1. /\ longer \in Seq(S) /\ Len(longer) = Len(s) + 1 /\ Len(s) \in Nat
      /\ \A i \in 1 .. Len(s) : longer[i] = s[i]
  BY AppendProperties, LenProperties
<1> HIDE DEF longer
<1>2. \A i \in 1 .. n : longer[i] = s[i] /\ s[i] \in S
  BY <1>1, ElementOfSeq
<1>3. /\ SubSeq(s, 1, n) \in Seq(S)
      /\ Len(SubSeq(s, 1, n)) = IF 1 <= n THEN n - 1 + 1 ELSE 0
      /\ \A i \in 1 .. n - 1 + 1 : SubSeq(s, 1, n)[i] = s[1 + i - 1]
  BY <1>2, SubSeqProperties
<1>4. \A i \in 1 .. n : longer[i] \in S
  BY <1>2
<1>5. /\ SubSeq(longer, 1, n) \in Seq(S)
      /\ Len(SubSeq(longer, 1, n)) = IF 1 <= n THEN n - 1 + 1 ELSE 0
      /\ \A i \in 1 .. n - 1 + 1 : SubSeq(longer, 1, n)[i] = longer[1 + i - 1]
  BY <1>4, SubSeqProperties
<1>6. Len(SubSeq(s, 1, n)) = n /\ Len(SubSeq(longer, 1, n)) = n
  BY <1>3, <1>5
<1>7. \A i \in 1 .. n : SubSeq(s, 1, n)[i] = SubSeq(longer, 1, n)[i]
  BY <1>2, <1>3, <1>5
<1>8. SubSeq(longer, 1, n) = SubSeq(s, 1, n)
  BY <1>3, <1>5, <1>6, <1>7, SeqEqual
<1> QED
  BY <1>8 DEF longer

(* senddata(): a packet more waits. *)
LEMMA CarriedSend ==
  ASSUME NEW es \in SUBSET Entry, NEW s \in Seq(Packets), NEW got \in Seq(Packets), NEW k,
         Carried(es, s, got, k), NEW e \in Entry
  PROVE  Carried(es \cup {e}, Append(s, e.packet), got, k)
<1> DEFINE p == e.packet
           longer == Append(s, p)
<1>1. /\ p \in Packets /\ Len(s) \in Nat /\ Len(got) \in Nat /\ k \in Len(got) .. Len(s)
      /\ got = SubSeq(s, 1, Len(got))
  BY LenProperties DEF Carried, Entry
<1>2. /\ Len(longer) = Len(s) + 1 /\ longer[Len(s) + 1] = p
      /\ \A i \in 1 .. Len(s) : longer[i] = s[i]
  BY <1>1, AppendProperties
<1>3. SubSeq(longer, 1, Len(got)) = got
  <2>1. SubSeq(Append(s, p), 1, Len(got)) = SubSeq(s, 1, Len(got))
    BY <1>1, BeginningStays
  <2> QED
    BY <1>1, <2>1
<1> HIDE DEF longer
<1>4. ASSUME NEW d \in es \cup {e}
      PROVE  \E j \in k + 1 .. Len(longer) : d.packet = longer[j]
  <2>1. CASE d = e
    <3>1. Len(s) + 1 \in k + 1 .. Len(longer)
      BY <1>1, <1>2
    <3> QED
      BY <1>2, <2>1, <3>1
  <2>2. CASE d \in es
    <3>1. PICK j \in k + 1 .. Len(s) : d.packet = s[j]
      BY <2>2 DEF Carried
    <3>2. j \in k + 1 .. Len(longer) /\ j \in 1 .. Len(s)
      BY <1>1, <1>2
    <3> QED
      BY <1>2, <3>1, <3>2
  <2> QED
    BY <2>1, <2>2
<1>5. ASSUME NEW j \in k + 1 .. Len(longer)
      PROVE  \E d \in es \cup {e} : d.packet = longer[j]
  <2>1. CASE j = Len(s) + 1
    BY <1>2, <2>1
  <2>2. CASE j \in k + 1 .. Len(s)
    <3>1. j \in 1 .. Len(s)
      BY <1>1, <2>2
    <3>2. PICK d \in es : d.packet = s[j]
      BY <2>2 DEF Carried
    <3> QED
      BY <1>2, <3>1, <3>2
  <2> QED
    BY <1>1, <1>2, <2>1, <2>2
<1>6. k \in Len(got) .. Len(longer)
  BY <1>1, <1>2
<1> QED
  BY <1>3, <1>4, <1>5, <1>6 DEF Carried, longer

LEMMA UnderWaySend ==
  ASSUME NEW s \in Seq(Packets), NEW q \in Nat, NEW k \in q .. Len(s), NEW f, NEW bytes,
         UnderWay(s, q, k, f, bytes), NEW p \in Packets
  PROVE  UnderWay(Append(s, p), q, k, f, bytes)
<1>1. Len(s) \in Nat /\ \A i \in 1 .. Len(s) : Append(s, p)[i] = s[i]
  BY AppendProperties, LenProperties
<1>2. \A i \in q + 1 .. k : i \in 1 .. Len(s)
  BY <1>1
<1> QED
  BY <1>1, <1>2 DEF UnderWay, Frames

LEMMA WaitingSend ==
  ASSUME NEW es \in SUBSET Entry, NEW s \in Seq(Packets), NEW got \in Seq(Packets), NEW k,
         Carried(es, s, got, k), NEW t, Waiting(es, s, k, t),
         NEW e \in Entry, e.data = Framed(e.packet), \A d \in es : d.packet # e.packet
  PROVE  Waiting(es \cup {e}, Append(s, e.packet), k, t)
<1> DEFINE p == e.packet
           longer == Append(s, p)
<1>1. p \in Packets /\ Len(s) \in Nat /\ Len(got) \in Nat /\ k \in Len(got) .. Len(s)
  BY LenProperties DEF Carried, Entry
<1>2. /\ Len(longer) = Len(s) + 1 /\ longer[Len(s) + 1] = p
      /\ \A i \in 1 .. Len(s) : longer[i] = s[i]
  BY <1>1, AppendProperties
<1> HIDE DEF longer
<1>3. k # Len(longer)
  BY <1>1, <1>2
<1>4. CASE k = Len(s)
  <2>1. t = <<>> /\ longer[k + 1] = p
    BY <1>2, <1>4 DEF Waiting
  <2>2. es = {}
    BY <1>1, <1>4 DEF Carried
  <2>3. <<>> \o Framed(p) = Framed(p)
    BY <1>1, FramedProperties, EmptyConcat
  <2>4. \A d \in es \cup {e} : d = e
    BY <2>2
  <2> QED
    BY <1>3, <2>1, <2>3, <2>4 DEF Waiting, longer
<1>5. CASE k < Len(s)
  <2>1. k + 1 \in 1 .. Len(s) /\ k + 1 \in k + 1 .. Len(s)
    BY <1>1, <1>5
  <2>2. longer[k + 1] = s[k + 1]
    BY <1>2, <2>1
  <2>3. s[k + 1] # p
    <3>1. PICK d \in es : d.packet = s[k + 1]
      BY <2>1 DEF Carried
    <3> QED
      BY <3>1
  <2>4. ASSUME NEW d \in es \cup {e}
        PROVE  /\ d.packet = longer[k + 1] => t \o d.data = Framed(d.packet)
               /\ d.packet # longer[k + 1] => d.data = Framed(d.packet)
    <3>1. CASE d = e
      BY <2>2, <2>3, <3>1
    <3>2. CASE d \in es
      BY <2>2, <3>2 DEF Waiting
    <3> QED
      BY <3>1, <3>2
  <2> QED
    BY <1>3, <2>4 DEF Waiting, longer
<1> QED
  BY <1>1, <1>4, <1>5

(* e is the one that carries the packet after k. *)
FirstWaiting(es, s, k, e) ==
  /\ k + 1 \in 1 .. Len(s)
  /\ e \in es /\ e.packet = s[k + 1]
  /\ \A d \in es : d # e => d.packet # s[k + 1]

(* The others carry later packets. *)
LEMMA OthersLater ==
  ASSUME NEW es, NEW s \in Seq(Packets), NEW got \in Seq(Packets), NEW k,
         Carried(es, s, got, k), NEW e, FirstWaiting(es, s, k, e)
  PROVE  /\ k \in Nat /\ Len(s) \in Nat /\ Len(got) \in Nat
         /\ \A d \in es \ {e} : \E j \in k + 2 .. Len(s) : d.packet = s[j]
<1>1. k \in Nat /\ Len(s) \in Nat /\ Len(got) \in Nat
  BY LenProperties DEF Carried
<1>2. ASSUME NEW d \in es \ {e}
      PROVE  \E j \in k + 2 .. Len(s) : d.packet = s[j]
  <2>1. PICK j \in k + 1 .. Len(s) : d.packet = s[j]
    BY DEF Carried
  <2>2. j # k + 1
    BY <2>1 DEF FirstWaiting
  <2>3. j \in k + 2 .. Len(s)
    BY <1>1, <2>2
  <2> QED
    BY <2>1, <2>3
<1> QED
  BY <1>1, <1>2

LEMMA LaterOthers ==
  ASSUME NEW es, NEW s \in Seq(Packets), NEW got \in Seq(Packets), NEW k,
         Carried(es, s, got, k), Rising(s, Number), NEW e, FirstWaiting(es, s, k, e)
  PROVE  \A j \in k + 2 .. Len(s) : \E d \in es \ {e} : d.packet = s[j]
<1>1. k \in Nat /\ Len(s) \in Nat
  BY LenProperties DEF Carried
<1> SUFFICES ASSUME NEW j \in k + 2 .. Len(s) PROVE \E d \in es \ {e} : d.packet = s[j]
  OBVIOUS
<1>2. j \in k + 1 .. Len(s) /\ j \in 1 .. Len(s) /\ k + 1 \in 1 .. Len(s) /\ j # k + 1
  BY <1>1
<1>3. PICK d \in es : d.packet = s[j]
  BY <1>2 DEF Carried
<1>4. s[j] # s[k + 1]
  BY <1>2, NumberType, RisingDistinct
<1> QED
  BY <1>3, <1>4 DEF FirstWaiting

(* Packet k + 1 is written out. *)
LEMMA CarriedNext ==
  ASSUME NEW es, NEW s \in Seq(Packets), NEW got \in Seq(Packets), NEW k,
         Carried(es, s, got, k), Rising(s, Number), NEW e, FirstWaiting(es, s, k, e)
  PROVE  Carried(es \ {e}, s, got, k + 1)
<1>1. /\ k \in Nat /\ Len(s) \in Nat /\ Len(got) \in Nat
      /\ \A d \in es \ {e} : \E j \in k + 2 .. Len(s) : d.packet = s[j]
  BY OthersLater
<1>2. \A j \in k + 2 .. Len(s) : \E d \in es \ {e} : d.packet = s[j]
  BY <1>1, LaterOthers
<1>3. k + 1 \in Len(got) .. Len(s) /\ got = SubSeq(s, 1, Len(got))
  BY <1>1 DEF Carried, FirstWaiting
<1>4. (k + 1) + 1 = k + 2
  BY <1>1
<1> QED
  BY <1>1, <1>2, <1>3, <1>4 DEF Carried

(* A part of it is written, and the rest stays. *)
LEMMA CarriedPart ==
  ASSUME NEW es, NEW s, NEW got, NEW k,
         Carried(es, s, got, k), NEW e \in es, NEW rest, rest.packet = e.packet
  PROVE  Carried((es \ {e}) \cup {rest}, s, got, k)
<1> DEFINE new == (es \ {e}) \cup {rest}
<1>1. \A d \in new : \E j \in k + 1 .. Len(s) : d.packet = s[j]
  BY DEF Carried
<1>2. \A j \in k + 1 .. Len(s) : \E d \in new : d.packet = s[j]
  BY DEF Carried
<1> HIDE DEF new
<1>3. Carried(new, s, got, k)
  BY <1>1, <1>2 DEF Carried
<1> QED
  BY <1>3 DEF new

(* It is given up. *)
LEMMA CarriedLose ==
  ASSUME NEW es, NEW s \in Seq(Packets), NEW got \in Seq(Packets), NEW k,
         Carried(es, s, got, k), Rising(s, Number), NEW e, FirstWaiting(es, s, k, e)
  PROVE  Carried(es \ {e}, RemoveAt(s, k + 1), got, k)
<1> DEFINE rest == RemoveAt(s, k + 1)
<1>1. /\ k \in Nat /\ Len(s) \in Nat /\ Len(got) \in Nat
      /\ \A d \in es \ {e} : \E j \in k + 2 .. Len(s) : d.packet = s[j]
  BY OthersLater
<1>2. \A j \in k + 2 .. Len(s) : \E d \in es \ {e} : d.packet = s[j]
  BY <1>1, LaterOthers
<1>3. k + 1 \in 1 .. Len(s) /\ k \in Len(got) .. Len(s) /\ got = SubSeq(s, 1, Len(got))
  BY DEF Carried, FirstWaiting
<1>4. /\ rest \in Seq(Packets) /\ Len(rest) = Len(s) - 1
      /\ \A j \in 1 .. Len(s) - 1 : rest[j] = IF j < k + 1 THEN s[j] ELSE s[j + 1]
  BY <1>3, RemoveAtProperties
<1> HIDE DEF rest
<1>5. \A j \in k + 1 .. Len(s) - 1 : rest[j] = s[j + 1]
  <2>1. \A j \in k + 1 .. Len(s) - 1 : j \in 1 .. Len(s) - 1 /\ ~(j < k + 1)
    BY <1>1
  <2> QED
    BY <1>4, <2>1
<1>6. ASSUME NEW d \in es \ {e}
      PROVE  \E j \in k + 1 .. Len(rest) : d.packet = rest[j]
  <2>1. PICK j \in k + 2 .. Len(s) : d.packet = s[j]
    BY <1>1
  <2>2. j - 1 \in k + 1 .. Len(s) - 1 /\ (j - 1) + 1 = j
    BY <1>1
  <2>3. rest[j - 1] = s[j]
    BY <1>5, <2>2
  <2> QED
    BY <1>4, <2>1, <2>2, <2>3
<1>7. ASSUME NEW j \in k + 1 .. Len(rest)
      PROVE  \E d \in es \ {e} : d.packet = rest[j]
  <2>1. j \in k + 1 .. Len(s) - 1 /\ j + 1 \in k + 2 .. Len(s)
    BY <1>1, <1>4
  <2> QED
    BY <1>2, <1>5, <2>1
<1>8. k \in Len(got) .. Len(rest)
  BY <1>1, <1>3, <1>4
<1>9. SubSeq(rest, 1, Len(got)) = SubSeq(s, 1, Len(got))
  <2>1. \A i \in 1 .. Len(got) : rest[i] = s[i] /\ s[i] \in Packets
    <3>1. \A i \in 1 .. Len(got) : i \in 1 .. Len(s) - 1 /\ i < k + 1 /\ i \in 1 .. Len(s)
      BY <1>1, <1>3
    <3> QED
      BY <1>4, <3>1, ElementOfSeq
  <2>2. /\ SubSeq(s, 1, Len(got)) \in Seq(Packets)
        /\ Len(SubSeq(s, 1, Len(got))) = IF 1 <= Len(got) THEN Len(got) - 1 + 1 ELSE 0
        /\ \A i \in 1 .. Len(got) - 1 + 1 : SubSeq(s, 1, Len(got))[i] = s[1 + i - 1]
    BY <1>1, <2>1, SubSeqProperties
  <2>3. \A i \in 1 .. Len(got) : rest[i] \in Packets
    BY <2>1
  <2>4. /\ SubSeq(rest, 1, Len(got)) \in Seq(Packets)
        /\ Len(SubSeq(rest, 1, Len(got))) = IF 1 <= Len(got) THEN Len(got) - 1 + 1 ELSE 0
        /\ \A i \in 1 .. Len(got) - 1 + 1 : SubSeq(rest, 1, Len(got))[i] = rest[1 + i - 1]
    BY <1>1, <2>3, SubSeqProperties
  <2>5. /\ Len(SubSeq(s, 1, Len(got))) = Len(got) /\ Len(SubSeq(rest, 1, Len(got))) = Len(got)
        /\ \A i \in 1 .. Len(got) : SubSeq(s, 1, Len(got))[i] = s[i]
        /\ \A i \in 1 .. Len(got) : SubSeq(rest, 1, Len(got))[i] = rest[i]
    BY <1>1, <2>2, <2>4
  <2>6. \A i \in 1 .. Len(got) : SubSeq(rest, 1, Len(got))[i] = SubSeq(s, 1, Len(got))[i]
    BY <2>1, <2>5
  <2> QED
    BY <2>2, <2>4, <2>5, <2>6, SeqEqual
<1>10. Carried(es \ {e}, rest, got, k)
  BY <1>3, <1>6, <1>7, <1>8, <1>9 DEF Carried
<1> QED
  BY <1>10 DEF rest

(* The packets up to i are received. *)
LEMMA CarriedReceive ==
  ASSUME NEW es, NEW s \in Seq(Packets), NEW got \in Seq(Packets), NEW k,
         Carried(es, s, got, k), NEW i \in Len(got) .. k
  PROVE  /\ SubSeq(s, 1, i) \in Seq(Packets) /\ Len(SubSeq(s, 1, i)) = i
         /\ Carried(es, s, SubSeq(s, 1, i), k)
<1>1. k \in Nat /\ Len(s) \in Nat /\ Len(got) \in Nat /\ k <= Len(s) /\ i \in Nat
  BY LenProperties DEF Carried
<1>2. \A j \in 1 .. i : s[j] \in Packets
  BY <1>1, ElementOfSeq
<1>3. /\ SubSeq(s, 1, i) \in Seq(Packets)
      /\ Len(SubSeq(s, 1, i)) = IF 1 <= i THEN i - 1 + 1 ELSE 0
  BY <1>1, <1>2, SubSeqProperties
<1>4. Len(SubSeq(s, 1, i)) = i
  BY <1>1, <1>3
<1>5. k \in i .. Len(s)
  BY <1>1
<1> QED
  BY <1>3, <1>4, <1>5 DEF Carried

-----------------------------------------------------------------------------
LEMMA BytesAssociative ==
  ASSUME NEW a \in Seq(Nat), NEW b \in Seq(Nat), NEW c \in Seq(Nat)
  PROVE  (a \o b) \o c = a \o (b \o c)
<1> DEFINE S == Nat
<1>1. a \in Seq(S) /\ b \in Seq(S) /\ c \in Seq(S)
  OBVIOUS
<1> HIDE DEF S
<1> QED
  BY <1>1, ConcatAssociative

(* Bytes x follow those that are under way. *)
LEMMA FramesExtended ==
  ASSUME NEW s \in Seq(Packets), NEW q \in Nat, NEW k \in q .. Len(s), NEW f,
         Frames(f, s, q, k), NEW x \in Seq(Nat)
  PROVE  Frames([i \in q .. k |-> f[i] \o x], s, q, k)
<1> DEFINE more == [i \in q .. k |-> f[i] \o x]
<1>1. Len(s) \in Nat /\ \A i \in 1 .. Len(s) : Framed(s[i]) \in Seq(Nat)
  BY FramedProperties, LenProperties, ElementOfSeq
<1>2. ASSUME NEW i \in q .. k PROVE more[i] = f[i] \o x /\ more[i] \in Seq(Nat)
  <2>1. f[i] \in Seq(Nat)
    BY DEF Frames
  <2>2. f[i] \o x \in Seq(Nat)
    BY <2>1, ConcatProperties
  <2> QED
    BY <2>2
<1> HIDE DEF more
<1>3. ASSUME NEW i \in q + 1 .. k PROVE more[i - 1] = Framed(s[i]) \o more[i]
  <2>1. i \in q .. k /\ i - 1 \in q .. k /\ i \in 1 .. Len(s)
    BY <1>1
  <2>2. f[i - 1] = Framed(s[i]) \o f[i] /\ f[i] \in Seq(Nat)
    BY <2>1 DEF Frames
  <2> DEFINE a == Framed(s[i])
             b == f[i]
  <2>3. a \in Seq(Nat) /\ b \in Seq(Nat)
    BY <1>1, <2>1, <2>2
  <2> HIDE DEF a, b
  <2>4. (a \o b) \o x = a \o (b \o x)
    BY <2>3, BytesAssociative
  <2>5. more[i - 1] = (a \o b) \o x /\ more[i] = b \o x
    BY <1>2, <2>1, <2>2 DEF a, b
  <2> QED
    BY <2>4, <2>5 DEF a
<1>4. Frames(more, s, q, k)
  BY <1>2, <1>3 DEF Frames
<1> QED
  BY <1>4 DEF more

LEMMA FramesEnds ==
  ASSUME NEW s \in Seq(Packets), NEW q \in Nat, NEW k \in q .. Len(s), NEW f,
         Frames(f, s, q, k)
  PROVE  f[q] \in Seq(Nat) /\ f[k] \in Seq(Nat) /\ q \in q .. k /\ k \in q .. k
<1>1. q \in q .. k /\ k \in q .. k
  BY LenProperties
<1> QED
  BY <1>1 DEF Frames

(* A part of packet k + 1 is written, and there is a rest. *)
LEMMA UnderWayPart ==
  ASSUME NEW s \in Seq(Packets), NEW q \in Nat, NEW k \in q .. Len(s), NEW f, NEW bytes,
         UnderWay(s, q, k, f, bytes),
         NEW x \in Seq(Nat), Part(f[k] \o x)
  PROVE  UnderWay(s, q, k, [i \in q .. k |-> f[i] \o x], bytes \o x)
<1> DEFINE more == [i \in q .. k |-> f[i] \o x]
<1>1. Frames(more, s, q, k)
  BY FramesExtended DEF UnderWay
<1>2. q \in q .. k /\ k \in q .. k
  BY FramesEnds DEF UnderWay
<1>3. more[q] = bytes \o x /\ more[k] = f[k] \o x
  BY <1>2 DEF UnderWay
<1> HIDE DEF more
<1>4. Part(more[k])
  BY <1>3
<1>5. UnderWay(s, q, k, more, bytes \o x)
  BY <1>1, <1>3, <1>4 DEF UnderWay
<1> QED
  BY <1>5 DEF more

(* All that was left of it is written. *)
LEMMA UnderWayNext ==
  ASSUME NEW s \in Seq(Packets), NEW q \in Nat, NEW k \in q .. Len(s), NEW f, NEW bytes,
         UnderWay(s, q, k, f, bytes), k + 1 \in 1 .. Len(s),
         NEW x \in Seq(Nat), f[k] \o x = Framed(s[k + 1])
  PROVE  \E g : UnderWay(s, q, k + 1, g, bytes \o x) /\ g[k + 1] = <<>>
<1> DEFINE more == [i \in q .. k |-> f[i] \o x]
           g == [i \in q .. k + 1 |-> IF i = k + 1 THEN <<>> ELSE more[i]]
<1>1. Frames(more, s, q, k)
  BY FramesExtended DEF UnderWay
<1>2. q \in q .. k /\ k \in q .. k /\ k \in Nat
  BY FramesEnds DEF UnderWay
<1>3. more[q] = bytes \o x /\ more[k] = Framed(s[k + 1])
  BY <1>2 DEF UnderWay
<1> HIDE DEF more
<1>4. (\A i \in q .. k : g[i] = more[i]) /\ g[k + 1] = <<>>
  BY <1>2
<1> HIDE DEF g
<1>5. \A i \in q .. k + 1 : g[i] \in Seq(Nat)
  <2>1. <<>> \in Seq(Nat)
    BY EmptySeq
  <2>2. \A i \in q .. k : g[i] \in Seq(Nat)
    BY <1>1, <1>4 DEF Frames
  <2>3. \A i \in q .. k + 1 : i \in q .. k \/ i = k + 1
    BY <1>2
  <2> QED
    BY <1>4, <2>1, <2>2, <2>3
<1>6. ASSUME NEW i \in q + 1 .. k + 1 PROVE g[i - 1] = Framed(s[i]) \o g[i]
  <2>1. CASE i = k + 1
    <3>1. Framed(s[k + 1]) \in Seq(Nat)
      BY FramedProperties, ElementOfSeq
    <3>2. Framed(s[k + 1]) \o <<>> = Framed(s[k + 1])
      BY <3>1, EmptyConcat
    <3>3. i - 1 = k
      BY <1>2, <2>1
    <3> QED
      BY <1>2, <1>3, <1>4, <2>1, <3>2, <3>3
  <2>2. CASE i \in q + 1 .. k
    <3>1. i \in q .. k /\ i - 1 \in q .. k
      BY <1>2, <2>2
    <3> QED
      BY <1>1, <1>4, <2>2, <3>1 DEF Frames
  <2>3. i = k + 1 \/ i \in q + 1 .. k
    BY <1>2
  <2> QED
    BY <2>1, <2>2, <2>3
<1>7. Frames(g, s, q, k + 1)
  BY <1>5, <1>6 DEF Frames
<1>8. g[q] = bytes \o x /\ Part(g[k + 1])
  BY <1>2, <1>3, <1>4 DEF Part
<1> QED
  BY <1>4, <1>7, <1>8 DEF UnderWay

(* The last packet to go is given up. *)
LEMMA UnderWayLose ==
  ASSUME NEW s \in Seq(Packets), NEW q \in Nat, NEW k \in q .. Len(s), NEW f, NEW bytes,
         UnderWay(s, q, k, f, bytes), k + 1 \in 1 .. Len(s)
  PROVE  UnderWay(RemoveAt(s, k + 1), q, k, f, bytes)
<1> DEFINE rest == RemoveAt(s, k + 1)
<1>1. /\ rest \in Seq(Packets) /\ Len(rest) = Len(s) - 1 /\ Len(s) \in Nat
      /\ \A j \in 1 .. Len(s) - 1 : rest[j] = IF j < k + 1 THEN s[j] ELSE s[j + 1]
  BY RemoveAtProperties, LenProperties
<1> HIDE DEF rest
<1>2. \A i \in q + 1 .. k : rest[i] = s[i]
  <2>1. \A i \in q + 1 .. k : i \in 1 .. Len(s) - 1 /\ i < k + 1
    BY <1>1
  <2> QED
    BY <1>1, <2>1
<1>3. UnderWay(rest, q, k, f, bytes)
  BY <1>2 DEF UnderWay, Frames
<1> QED
  BY <1>3 DEF rest

(* Packets were received, and bytes read. *)
LEMMA UnderWayReceive ==
  ASSUME NEW s \in Seq(Packets), NEW q \in Nat, NEW k \in q .. Len(s), NEW f, NEW bytes,
         UnderWay(s, q, k, f, bytes), NEW i \in q .. k
  PROVE  UnderWay(s, i, k, f, f[i])
<1>1. Len(s) \in Nat /\ k \in Nat
  BY LenProperties
<1>2. \A j \in i .. k : j \in q .. k
  BY <1>1
<1>3. \A j \in i + 1 .. k : j \in q + 1 .. k
  BY <1>1
<1> QED
  BY <1>2, <1>3 DEF UnderWay, Frames

-----------------------------------------------------------------------------
LEMMA WaitingNext ==
  ASSUME NEW es \in SUBSET Entry, NEW s \in Seq(Packets), NEW got \in Seq(Packets), NEW k,
         Carried(es, s, got, k), NEW t, Waiting(es, s, k, t), NEW e, FirstWaiting(es, s, k, e)
  PROVE  Waiting(es \ {e}, s, k + 1, <<>>)
<1>1. \A d \in es \ {e} : d.data = Framed(d.packet)
  BY DEF Waiting, FirstWaiting
<1>2. \A d \in es \ {e} : d.data \in Seq(Nat)
  BY DEF Entry
<1>3. \A d \in es \ {e} : <<>> \o d.data = d.data
  BY <1>2, EmptyConcat
<1> QED
  BY <1>1, <1>3 DEF Waiting

LEMMA WaitingPart ==
  ASSUME NEW es, NEW s, NEW k, NEW t, Waiting(es, s, k, t),
         NEW e, FirstWaiting(es, s, k, e), k # Len(s),
         NEW rest, rest.packet = e.packet, NEW more, more \o rest.data = Framed(e.packet)
  PROVE  Waiting((es \ {e}) \cup {rest}, s, k, more)
<1>1. \A d \in es \ {e} : d.packet # s[k + 1] /\ d.data = Framed(d.packet)
  BY DEF Waiting, FirstWaiting
<1>2. rest.packet = s[k + 1] /\ more \o rest.data = Framed(rest.packet)
  BY DEF FirstWaiting
<1> QED
  BY <1>1, <1>2 DEF Waiting

LEMMA WaitingLose ==
  ASSUME NEW es \in SUBSET Entry, NEW s, NEW new, NEW k,
         NEW e, FirstWaiting(es, s, k, e), Waiting(es, s, k, <<>>)
  PROVE  Waiting(es \ {e}, new, k, <<>>)
<1>1. \A d \in es \ {e} : d.data = Framed(d.packet)
  BY DEF Waiting, FirstWaiting
<1>2. \A d \in es \ {e} : d.data \in Seq(Nat)
  BY DEF Entry
<1>3. \A d \in es \ {e} : <<>> \o d.data = d.data
  BY <1>2, EmptyConcat
<1> QED
  BY <1>1, <1>3 DEF Waiting

-----------------------------------------------------------------------------
(* The invariant *)

CanWrite(fd) == fd \in Open /\ sockets_[fd]

(* A connection of which no more is written. *)
Stuck(fd) == fd \in Open /\ ~sockets_[fd] /\ fd \notin listens_

Sound(fd) == fd \notin broken_ /\ ~Stuck(fd)

StreamTypes ==
  /\ phase \in {"close", "write", "events", "over"}
  /\ it \in Nat \ {0} /\ (phase = "write" => it <= Len(out_data_) + 1)
  /\ out_data_ \in Seq(Entry)
  /\ \A i \in 1 .. Len(out_data_) :
       Len(out_data_[i].data) \in 1 .. Len(Framed(out_data_[i].packet))
  /\ sockets_ \in [Open -> BOOLEAN] /\ Open \subseteq Fd
  /\ listens_ \subseteq Open /\ events_ \subseteq Open /\ broken_ \subseteq Open
  /\ badfds_ \in Seq(Fd)
  /\ buffer \in [Fd -> Seq(Nat)] /\ workspace_ \in [Fd -> Seq(Nat)]
  /\ \A fd \in Fd : Len(buffer[fd]) <= Room
  /\ queue_ \in [Fd -> Seq(Packets)] /\ sent_ \in [Fd -> Seq(Packets)]
  /\ sends_ \in 0 .. MaxSent

(* What the parts of the loop leave to each other. *)
StreamRest ==
  /\ phase # "events" => events_ = {}
  /\ \A fd \in Open : sockets_[fd] \/ fd \in listens_ \cup ToSet(badfds_)
  /\ \A fd \in Open : ~(sockets_[fd] /\ fd \in listens_)
  /\ \A fd \in Fd \ Open : buffer[fd] = <<>> /\ workspace_[fd] = <<>> /\ queue_[fd] = <<>>
  /\ \A fd \in broken_ : buffer[fd] = <<>>

(* The write pass leaves no packet behind that could have been written. *)
PassOrder == phase = "write" => \A i \in 1 .. it - 1 : ~CanWrite(out_data_[i].fd)

Serial == [e \in Entry |-> Number[e.packet]]

(* The packets are numbered as they were sent. *)
StreamNumbers ==
  /\ Rising(out_data_, Serial)
  /\ \A i \in 1 .. Len(out_data_) : Serial[out_data_[i]] <= sends_
  /\ \A fd \in Fd : /\ Rising(sent_[fd], Number)
                    /\ \A i \in 1 .. Len(sent_[fd]) : Number[sent_[fd][i]] <= sends_

Mine(fd) == {e \in ToSet(out_data_) : e.fd = fd}

Flows(fd, k, f) ==
  /\ Carried(Mine(fd), sent_[fd], queue_[fd], k)
  /\ fd \notin broken_ =>
       UnderWay(sent_[fd], Len(queue_[fd]), k, f, workspace_[fd] \o buffer[fd])
  /\ Sound(fd) => Waiting(Mine(fd), sent_[fd], k, f[k])
  /\ Sound(fd) /\ CanWrite(fd) /\ f[k] # <<>> => Len(buffer[fd]) < Room

(* Every connection carries its packets. *)
StreamFlow == \A fd \in Fd : \E k, f : Flows(fd, k, f)

StreamInv == StreamTypes /\ StreamRest /\ PassOrder /\ StreamNumbers /\ StreamFlow

-----------------------------------------------------------------------------
LEMMA SerialType == Serial \in [Entry -> Nat]
  BY NumberType DEF Serial, Entry

(* The packet that the write pass is at. *)
LEMMA AtEntry ==
  ASSUME StreamTypes, AtPacket
  PROVE  /\ it \in 1 .. Len(out_data_) /\ This \in Entry /\ This \in ToSet(out_data_)
         /\ This.fd \in Fd /\ This.data \in Seq(Nat) /\ This.packet \in Packets
         /\ This.closefd \in BOOLEAN
         /\ Len(This.data) \in Nat \ {0} /\ Len(This.data) <= Len(Framed(This.packet))
<1>1. out_data_ \in Seq(Entry) /\ it \in 1 .. Len(out_data_) /\ Len(out_data_) \in Nat
  BY LenProperties DEF StreamTypes, AtPacket
<1>2. This \in Entry
  BY <1>1, ElementOfSeq DEF This
<1>3. ToSet(out_data_) = {out_data_[i] : i \in 1 .. Len(out_data_)}
  BY <1>1, ToSetOfSeq
<1>4. This \in ToSet(out_data_)
  BY <1>1, <1>3 DEF This
<1>5. Len(This.data) \in 1 .. Len(Framed(This.packet))
  BY <1>1 DEF StreamTypes, This
<1>6. Len(This.data) \in Nat
  BY <1>2, LenProperties DEF Entry
<1> QED
  BY <1>1, <1>2, <1>4, <1>5, <1>6 DEF Entry

LEMMA MinOfTwo ==
  ASSUME NEW a \in Int, NEW b \in Int
  PROVE  Min({a, b}) = IF a <= b THEN a ELSE b
  BY DEF Min

(* What write() takes: all, or what there is room for. *)
LEMMA TakenBytes ==
  ASSUME StreamTypes, AtPacket
  PROVE  LET fd == This.fd
             room == Room - Len(buffer[fd])
         IN  /\ room \in Nat /\ Len(buffer[fd]) \in Nat /\ buffer[fd] \in Seq(Nat)
             /\ Taken \in 0 .. Len(This.data) /\ Taken <= room
             /\ fd \in broken_ => Taken = 0
             /\ fd \notin broken_ /\ Taken < Len(This.data) => Taken = room
<1> DEFINE fd == This.fd
           room == Room - Len(buffer[fd])
<1>1. /\ fd \in Fd /\ Len(This.data) \in Nat \ {0}
  BY AtEntry
<1>2. buffer[fd] \in Seq(Nat) /\ Len(buffer[fd]) \in Nat /\ Len(buffer[fd]) <= Room /\ Room \in Nat
  BY <1>1, LenProperties, StreamAssumption DEF StreamTypes
<1>3. room \in Nat
  BY <1>2
<1>4. Min({Len(This.data), room}) = IF Len(This.data) <= room THEN Len(This.data) ELSE room
  BY <1>1, <1>3, MinOfTwo
<1>5. Taken = IF fd \in broken_ THEN 0 ELSE Min({Len(This.data), room})
  BY DEF Taken
<1> HIDE DEF fd, room
<1> DEFINE n == Len(This.data)
<1>6. n \in Nat \ {0}
  BY <1>1
<1>7. Taken = IF fd \in broken_ THEN 0 ELSE IF n <= room THEN n ELSE room
  BY <1>4, <1>5
<1> HIDE DEF n
<1>8. /\ Taken \in 0 .. n /\ Taken <= room
      /\ fd \in broken_ => Taken = 0
      /\ fd \notin broken_ /\ Taken < n => Taken = room
  BY <1>3, <1>6, <1>7
<1> QED
  BY <1>2, <1>3, <1>8 DEF fd, room, n

(* The bytes written. *)
LEMMA WrittenBytes ==
  ASSUME StreamTypes, AtPacket, Written
  PROVE  LET fd == This.fd
             first == SubSeq(This.data, 1, Taken)
         IN  /\ buffer' \in [Fd -> Seq(Nat)] /\ first \in Seq(Nat) /\ Len(first) = Taken
             /\ buffer'[fd] = buffer[fd] \o first
             /\ Len(buffer'[fd]) = Len(buffer[fd]) + Taken
             /\ \A other \in Fd : other # fd => buffer'[other] = buffer[other]
             /\ \A any \in Fd : Len(buffer'[any]) <= Room
<1> DEFINE fd == This.fd
           first == SubSeq(This.data, 1, Taken)
           b == buffer[fd]
<1>1. fd \in Fd /\ This.data \in Seq(Nat) /\ Len(This.data) \in Nat
  BY AtEntry
<1>2. /\ Room - Len(b) \in Nat /\ Len(b) \in Nat /\ b \in Seq(Nat)
      /\ Taken \in 0 .. Len(This.data) /\ Taken <= Room - Len(b) /\ Room \in Nat
  BY TakenBytes, StreamAssumption
<1>3. first \in Seq(Nat) /\ Len(first) = Taken
  <2> DEFINE a == This.data
             n == Taken
  <2>1. a \in Seq(Nat) /\ n \in Nat /\ n <= Len(a) /\ 1 <= n + 1
    BY <1>1, <1>2
  <2> HIDE DEF a, n
  <2>2. SubSeq(a, 1, n) \in Seq(Nat) /\ Len(SubSeq(a, 1, n)) = n - 1 + 1
    BY <2>1, BytesCut
  <2>3. n - 1 + 1 = n
    BY <2>1
  <2> QED
    BY <2>2, <2>3 DEF a, n
<1>4. buffer' = [buffer EXCEPT ![fd] = b \o first] /\ buffer \in [Fd -> Seq(Nat)]
  BY DEF Written, StreamTypes
<1> HIDE DEF fd, first, b
<1>5. b \o first \in Seq(Nat) /\ Len(b \o first) = Len(b) + Len(first)
  BY <1>2, <1>3, BytesConcat
<1>6. /\ buffer' \in [Fd -> Seq(Nat)] /\ buffer'[fd] = b \o first
      /\ \A other \in Fd : other # fd => buffer'[other] = buffer[other]
  BY <1>1, <1>4, <1>5
<1>7. Len(buffer'[fd]) = Len(b) + Taken /\ Len(b) + Taken <= Room
  BY <1>2, <1>3, <1>5, <1>6
<1>8. \A any \in Fd : Len(buffer'[any]) <= Room
  BY <1>6, <1>7 DEF StreamTypes
<1> QED
  BY <1>3, <1>6, <1>7, <1>8 DEF fd, first, b

(* Every one of out_data_ is there once. *)
LEMMA OnceInList ==
  ASSUME StreamTypes, StreamNumbers
  PROVE  \A i, j \in 1 .. Len(out_data_) : i # j => out_data_[i] # out_data_[j]
<1>1. out_data_ \in Seq(Entry) /\ Rising(out_data_, Serial)
  BY DEF StreamTypes, StreamNumbers
<1> QED
  BY <1>1, SerialType, RisingDistinct

-----------------------------------------------------------------------------
(* The elements of out_data_ for an fd, after each of its changes. *)

LEMMA MineAppended ==
  ASSUME StreamTypes, NEW e \in Entry, out_data_' = Append(out_data_, e)
  PROVE  /\ Mine(e.fd)' = Mine(e.fd) \cup {e}
         /\ \A fd : fd # e.fd => Mine(fd)' = Mine(fd)
<1>1. ToSet(out_data_)' = ToSet(out_data_) \cup {e}
  BY ToSetOfAppend DEF StreamTypes
<1> QED
  BY <1>1 DEF Mine

LEMMA MineRemoved ==
  ASSUME StreamTypes, StreamNumbers, AtPacket, out_data_' = RemoveAt(out_data_, it)
  PROVE  \A fd : Mine(fd)' = Mine(fd) \ {This}
<1>1. out_data_ \in Seq(Entry) /\ it \in 1 .. Len(out_data_)
  BY AtEntry DEF StreamTypes
<1>2. OnlyAt(out_data_, it)
  BY <1>1, OnceInList DEF OnlyAt
<1>3. ToSet(out_data_)' = ToSet(out_data_) \ {This}
  BY <1>1, <1>2, ToSetOfRemoveAt DEF This
<1> QED
  BY <1>3 DEF Mine

LEMMA MineReplaced ==
  ASSUME StreamTypes, StreamNumbers, AtPacket, NEW e \in Entry, e.fd = This.fd,
         out_data_' = [out_data_ EXCEPT ![it] = e]
  PROVE  \A fd : Mine(fd)' = IF fd = This.fd THEN (Mine(fd) \ {This}) \cup {e} ELSE Mine(fd)
<1>1. out_data_ \in Seq(Entry) /\ it \in 1 .. Len(out_data_)
  BY AtEntry DEF StreamTypes
<1>2. OnlyAt(out_data_, it)
  BY <1>1, OnceInList DEF OnlyAt
<1> DEFINE new == [out_data_ EXCEPT ![it] = e]
<1>3. ToSet(new) = (ToSet(out_data_) \ {out_data_[it]}) \cup {e}
  <2> DEFINE list == out_data_
             at == it
             S == Entry
  <2>1. list \in Seq(S) /\ at \in 1 .. Len(list) /\ OnlyAt(list, at) /\ e \in S
    BY <1>1, <1>2
  <2> HIDE DEF list, at, S
  <2>2. ToSet([list EXCEPT ![at] = e]) = (ToSet(list) \ {list[at]}) \cup {e}
    BY <2>1, ToSetOfReplaced
  <2> QED
    BY <2>2 DEF list, at
<1>4. out_data_' = new
  OBVIOUS
<1> HIDE DEF new
<1>5. ToSet(out_data_)' = (ToSet(out_data_) \ {This}) \cup {e}
  BY <1>3, <1>4 DEF This
<1>6. This.fd = e.fd
  OBVIOUS
<1> HIDE DEF new
<1>7. ASSUME NEW fd
      PROVE  Mine(fd)' = IF fd = This.fd THEN (Mine(fd) \ {This}) \cup {e} ELSE Mine(fd)
  <2>1. CASE fd = This.fd
    BY <1>5, <1>6, <2>1 DEF Mine
  <2>2. CASE fd # This.fd
    <3>1. \A d : d \in Mine(fd)' <=> d \in Mine(fd)
      BY <1>5, <1>6, <2>2 DEF Mine
    <3> QED
      BY <2>2, <3>1 DEF Mine
  <2> QED
    BY <2>1, <2>2
<1> QED
  BY <1>7

LEMMA MineSelected ==
  ASSUME StreamTypes, NEW fds,
         out_data_' = Selected(out_data_, {i \in DOMAIN out_data_ : out_data_[i].fd \notin fds})
  PROVE  /\ \A fd \in fds : Mine(fd)' = {}
         /\ \A fd : fd \notin fds => Mine(fd)' = Mine(fd)
<1> DEFINE kept == {i \in DOMAIN out_data_ : out_data_[i].fd \notin fds}
<1>1. out_data_ \in Seq(Entry) /\ DOMAIN out_data_ = 1 .. Len(out_data_)
  BY LenProperties DEF StreamTypes
<1>2. /\ ToSet(out_data_)' = {out_data_[i] : i \in kept \cap 1 .. Len(out_data_)}
      /\ ToSet(out_data_) = {out_data_[i] : i \in 1 .. Len(out_data_)}
  BY <1>1, ToSetOfSelected, ToSetOfSeq
<1>3. \A fd \in fds : Mine(fd)' = {}
  BY <1>2 DEF Mine
<1>4. ASSUME NEW fd, fd \notin fds PROVE Mine(fd)' = Mine(fd)
  <2>1. Mine(fd)' \subseteq Mine(fd)
    BY <1>2 DEF Mine
  <2>2. Mine(fd) \subseteq Mine(fd)'
    BY <1>1, <1>2, <1>4 DEF Mine
  <2> QED
    BY <2>1, <2>2
<1> QED
  BY <1>3, <1>4

(* What the write pass is at, if it can be written, is the packet that its *)
(* connection is to get next.                                              *)
LEMMA AtFront ==
  ASSUME StreamInv, AtPacket, Writable, NEW k, NEW f, Flows(This.fd, k, f)
  PROVE  FirstWaiting(Mine(This.fd), sent_[This.fd], k, This)
<1> DEFINE fd == This.fd
           s == sent_[fd]
<1>0. StreamTypes /\ PassOrder /\ StreamNumbers
  BY DEF StreamInv
<1>1. /\ it \in 1 .. Len(out_data_) /\ This \in Mine(fd) /\ fd \in Fd
      /\ This \in Entry
  BY <1>0, AtEntry DEF Mine
<1>2. /\ s \in Seq(Packets) /\ Rising(s, Number) /\ Carried(Mine(fd), s, queue_[fd], k)
      /\ out_data_ \in Seq(Entry) /\ Rising(out_data_, Serial)
      /\ queue_[fd] \in Seq(Packets)
  BY <1>0, <1>1 DEF StreamTypes, StreamNumbers, Flows
<1>3. k \in Nat /\ Len(s) \in Nat /\ k <= Len(s)
  BY <1>2, LenProperties DEF Carried
<1> HIDE DEF s
<1>4. \A e \in Mine(fd) : Serial[e] = Number[e.packet] /\ e \in Entry /\ Serial[e] \in Nat
  <2>1. ToSet(out_data_) \subseteq Entry
    BY <1>2, ToSetOfSeq
  <2> QED
    BY <2>1, SerialType DEF Serial, Mine
<1>5. PICK j \in k + 1 .. Len(s) : This.packet = s[j]
  BY <1>1, <1>2 DEF Carried
<1>6. k + 1 \in 1 .. Len(s) /\ k + 1 \in k + 1 .. Len(s) /\ j \in 1 .. Len(s)
  BY <1>3
<1>7. \A e \in Mine(fd) : \E i \in 1 .. Len(out_data_) : e = out_data_[i]
  BY <1>2, ToSetOfSeq DEF Mine
<1>8. \A e \in Mine(fd) : CanWrite(e.fd)
  BY DEF Mine, CanWrite, Writable
<1>9. j = k + 1
  <2> SUFFICES ASSUME j # k + 1 PROVE FALSE
    OBVIOUS
  <2>1. Number[s[k + 1]] < Number[s[j]]
    <3>1. k + 1 < j
      BY <1>3
    <3> QED
      BY <1>2, <1>6, <3>1 DEF Rising
  <2>2. PICK e \in Mine(fd) : e.packet = s[k + 1]
    BY <1>2, <1>6 DEF Carried
  <2>3. Serial[e] < Serial[This] /\ Serial[e] \in Nat /\ Serial[This] \in Nat
    BY <1>1, <1>4, <1>5, <2>1, <2>2
  <2>4. PICK i \in 1 .. Len(out_data_) : e = out_data_[i]
    BY <1>7, <2>2
  <2>5. ~(i \in 1 .. it - 1)
    BY <1>0, <1>8, <2>2, <2>4 DEF PassOrder, AtPacket
  <2>6. ~(it < i)
    <3>1. it < i => Serial[out_data_[it]] < Serial[out_data_[i]]
      BY <1>1, <1>2, <2>4 DEF Rising
    <3> QED
      BY <2>3, <2>4, <3>1 DEF This
  <2>7. i # it
    BY <2>3, <2>4 DEF This
  <2> QED
    BY <1>1, <2>4, <2>5, <2>6, <2>7, LenProperties
<1>10. ASSUME NEW e \in Mine(fd), e # This PROVE e.packet # s[k + 1]
  <2>1. PICK i \in 1 .. Len(out_data_) : e = out_data_[i]
    BY <1>7
  <2>2. i # it
    BY <1>10, <2>1 DEF This
  <2>3. Serial[e] # Serial[This]
    BY <1>1, <1>2, <2>1, <2>2, SerialType, RisingDistinct DEF This
  <2> QED
    BY <1>1, <1>4, <1>5, <1>9, <2>3
<1> QED
  BY <1>1, <1>5, <1>6, <1>9, <1>10 DEF FirstWaiting, s

(* A connection that nothing happens to. *)
LEMMA FlowSame ==
  ASSUME NEW fd, NEW k, NEW f, Flows(fd, k, f),
         Mine(fd)' = Mine(fd), sent_[fd]' = sent_[fd], queue_[fd]' = queue_[fd],
         workspace_[fd]' = workspace_[fd], buffer[fd]' = buffer[fd],
         fd \in broken_ => fd \in broken_', Sound(fd)' => Sound(fd),
         CanWrite(fd)' => CanWrite(fd)
  PROVE  Flows(fd, k, f)'
  BY DEF Flows

-----------------------------------------------------------------------------
(* The types, the numbers and the order of the write pass, per action *)

StreamShape == StreamTypes /\ StreamRest /\ PassOrder /\ StreamNumbers

LEMMA SenddataShape ==
  ASSUME StreamShape, NEW fd \in Fd, NEW size \in Size, NEW closefd \in BOOLEAN,
         Senddata(fd, size, closefd)
  PROVE  StreamShape'
<1> DEFINE p == PacketOf(sends_ + 1, size)
           e == [fd |-> fd, data |-> Framed(p), closefd |-> closefd, packet |-> p]
           s == sent_[fd]
<1>0. StreamTypes /\ StreamRest /\ PassOrder /\ StreamNumbers
  BY DEF StreamShape
<1>1. sends_ + 1 \in 1 .. MaxSent /\ sends_ \in Nat /\ MaxSent \in Nat
  BY <1>0, StreamAssumption DEF StreamTypes, Senddata
<1>2. p \in Packets /\ Number[p] = sends_ + 1
  BY <1>1, PacketOfProperties DEF Number
<1>3. /\ e \in Entry /\ Serial[e] = sends_ + 1 /\ e.packet = p /\ e.data = Framed(p)
  BY <1>2, FramedProperties DEF Entry, Serial
<1>4. /\ out_data_' = Append(out_data_, e) /\ sent_' = [sent_ EXCEPT ![fd] = Append(s, p)]
      /\ sends_' = sends_ + 1 /\ phase # "write"
      /\ UNCHANGED <<phase, it, events_, sockets_, listens_, badfds_, buffer, workspace_, queue_,
                     broken_>>
  BY DEF Senddata, loopVars, peerVars
<1> HIDE DEF p, e, s
<1>5. /\ out_data_ \in Seq(Entry) /\ Rising(out_data_, Serial)
      /\ \A i \in 1 .. Len(out_data_) : Serial[out_data_[i]] <= sends_
      /\ s \in Seq(Packets) /\ Rising(s, Number)
      /\ \A i \in 1 .. Len(s) : Number[s[i]] <= sends_
  BY <1>0 DEF StreamTypes, StreamNumbers, s
<1>6. /\ out_data_' \in Seq(Entry) /\ Len(out_data_') = Len(out_data_) + 1
      /\ \A i \in 1 .. Len(out_data_) : out_data_'[i] = out_data_[i]
      /\ out_data_'[Len(out_data_) + 1] = e /\ Len(out_data_) \in Nat
  BY <1>3, <1>4, <1>5, AppendProperties, LenProperties
<1>7. /\ Append(s, p) \in Seq(Packets) /\ Len(Append(s, p)) = Len(s) + 1
      /\ \A i \in 1 .. Len(s) : Append(s, p)[i] = s[i]
      /\ Append(s, p)[Len(s) + 1] = p /\ Len(s) \in Nat
  BY <1>2, <1>5, AppendProperties, LenProperties
<1>8. StreamTypes'
  <2>1. ASSUME NEW i \in 1 .. Len(out_data_')
        PROVE  Len(out_data_'[i].data) \in 1 .. Len(Framed(out_data_'[i].packet))
    <3>1. CASE i = Len(out_data_) + 1
      <4>1. Len(Framed(p)) = Len(p) + 2 /\ Len(p) \in 1 .. 255
        BY <1>2, FramedProperties, PacketProperties
      <4> QED
        BY <1>3, <1>6, <3>1, <4>1
    <3>2. CASE i \in 1 .. Len(out_data_)
      BY <1>0, <1>6, <3>2 DEF StreamTypes
    <3> QED
      BY <1>6, <3>1, <3>2
  <2>2. sent_' \in [Fd -> Seq(Packets)]
    BY <1>0, <1>4, <1>7 DEF StreamTypes
  <2>3. it' \in Nat \ {0} /\ (phase' = "write" => it' <= Len(out_data_') + 1) /\ sends_' \in 0 .. MaxSent
    BY <1>0, <1>1, <1>4 DEF StreamTypes
  <2> QED
    BY <1>0, <1>4, <1>6, <2>1, <2>2, <2>3 DEF StreamTypes, Open
<1>9. StreamRest' /\ PassOrder'
  BY <1>0, <1>4 DEF StreamRest, PassOrder, Open
<1>10. StreamNumbers'
  <2>1. Rising(out_data_, Serial)' /\ \A i \in 1 .. Len(out_data_') : Serial[out_data_'[i]] <= sends_'
    <3>1. \A i \in 1 .. Len(out_data_) : Serial[out_data_[i]] \in Nat
      BY <1>5, SerialType, ElementOfSeq
    <3>2. \A i \in 1 .. Len(out_data_) : Serial[out_data_[i]] < Serial[e]
      BY <1>1, <1>3, <1>5, <3>1
    <3>3. Rising(Append(out_data_, e), Serial)
      BY <1>3, <1>5, <3>2, SerialType, RisingAppend
    <3>4. \A i \in 1 .. Len(out_data_') : i \in 1 .. Len(out_data_) \/ i = Len(out_data_) + 1
      BY <1>6
    <3>5. \A i \in 1 .. Len(out_data_') : Serial[out_data_'[i]] <= sends_ + 1
      BY <1>1, <1>3, <1>5, <1>6, <3>1, <3>4
    <3>6. Rising(out_data_', Serial)
      BY <1>4, <3>3
    <3> QED
      BY <1>4, <3>5, <3>6 DEF Rising, Serial, Number
  <2>2. Rising(Append(s, p), Number) /\ \A i \in 1 .. Len(Append(s, p)) : Number[Append(s, p)[i]] <= sends_'
    <3>1. \A i \in 1 .. Len(s) : Number[s[i]] \in Nat
      BY <1>5, NumberType, ElementOfSeq
    <3>2. \A i \in 1 .. Len(s) : Number[s[i]] < Number[p]
      BY <1>1, <1>2, <1>5, <3>1
    <3>3. Rising(Append(s, p), Number)
      BY <1>2, <1>5, <3>2, NumberType, RisingAppend
    <3>4. \A i \in 1 .. Len(Append(s, p)) : i \in 1 .. Len(s) \/ i = Len(s) + 1
      BY <1>7
    <3> QED
      BY <1>1, <1>2, <1>4, <1>5, <1>7, <3>1, <3>3, <3>4
  <2>3. ASSUME NEW any \in Fd
        PROVE  /\ Rising(sent_'[any], Number)
               /\ \A i \in 1 .. Len(sent_'[any]) : Number[sent_'[any][i]] <= sends_'
    <3>1. CASE any = fd
      <4>1. sent_'[any] = Append(s, p)
        BY <1>0, <1>4, <3>1 DEF StreamTypes
      <4> QED
        BY <2>2, <4>1
    <3>2. CASE any # fd
      <4>1. sent_'[any] = sent_[any] /\ sent_[any] \in Seq(Packets)
        BY <1>0, <1>4, <3>2 DEF StreamTypes
      <4>2. \A i \in 1 .. Len(sent_[any]) : Number[sent_[any][i]] \in Nat
        BY <4>1, NumberType, ElementOfSeq
      <4>3. Rising(sent_[any], Number) /\ \A i \in 1 .. Len(sent_[any]) : Number[sent_[any][i]] <= sends_
        BY <1>0 DEF StreamNumbers
      <4>4. \A i \in 1 .. Len(sent_[any]) : Number[sent_[any][i]] <= sends_ + 1
        BY <1>1, <4>2, <4>3
      <4>5. sends_' = sends_ + 1
        BY <1>4
      <4> QED
        BY <4>1, <4>3, <4>4, <4>5
    <3> QED
      BY <3>1, <3>2
  <2> QED
    BY <2>1, <2>3 DEF StreamNumbers
<1> QED
  BY <1>8, <1>9, <1>10 DEF StreamShape

(* The connections that closesocket leaves open. *)
LEMMA ClosesocketOpen ==
  ASSUME StreamTypes, NEW fds, Closesocket(fds)
  PROVE  /\ Open' = Open \ fds
         /\ \A fd \in Open' : sockets_'[fd] = sockets_[fd]
         /\ sockets_' \in [Open' -> BOOLEAN]
<1>1. sockets_' = [fd \in Open \ fds |-> sockets_[fd]] /\ sockets_ \in [Open -> BOOLEAN]
  BY DEF Closesocket, Restrict, StreamTypes
<1>2. Open' = Open \ fds
  BY <1>1 DEF Open
<1>3. \A fd \in Open \ fds : sockets_'[fd] = sockets_[fd] /\ sockets_[fd] \in BOOLEAN
  <2> DEFINE S == Open
  <2>1. sockets_ \in [S -> BOOLEAN] /\ sockets_' = [fd \in S \ fds |-> sockets_[fd]]
    BY <1>1
  <2> HIDE DEF S
  <2>2. \A fd \in S \ fds : sockets_'[fd] = sockets_[fd] /\ sockets_[fd] \in BOOLEAN
    BY <2>1
  <2> QED
    BY <2>2 DEF S
<1>4. sockets_' \in [Open' -> BOOLEAN]
  <2> DEFINE S == Open \ fds
  <2>1. sockets_' = [fd \in S |-> sockets_[fd]] /\ \A fd \in S : sockets_[fd] \in BOOLEAN
    BY <1>1, <1>3
  <2> HIDE DEF S
  <2>2. sockets_' \in [S -> BOOLEAN]
    BY <2>1
  <2> QED
    BY <1>2, <2>2 DEF S
<1> QED
  BY <1>2, <1>3, <1>4

(* What closesocket leaves waiting. *)
LEMMA ClosesocketList ==
  ASSUME StreamTypes, StreamNumbers, NEW fds, Closesocket(fds)
  PROVE  /\ out_data_' \in Seq(Entry) /\ Rising(out_data_', Serial)
         /\ \A j \in 1 .. Len(out_data_') : \E i \in 1 .. Len(out_data_) : out_data_'[j] = out_data_[i]
<1> DEFINE kept == {i \in DOMAIN out_data_ : out_data_[i].fd \notin fds}
<1>1. out_data_' = Selected(out_data_, kept)
  BY DEF Closesocket, Dropped
<1>2. out_data_ \in Seq(Entry) /\ Rising(out_data_, Serial)
  BY DEF StreamTypes, StreamNumbers
<1> HIDE DEF kept
<1>3. Rising(Selected(out_data_, kept), Serial)
  BY <1>2, RisingSelected
<1>4. /\ Selected(out_data_, kept) \in Seq(Entry)
      /\ \A j \in 1 .. Len(Selected(out_data_, kept)) :
           \E i \in kept \cap 1 .. Len(out_data_) : Selected(out_data_, kept)[j] = out_data_[i]
  BY <1>2, SelectedElements
<1> QED
  BY <1>1, <1>3, <1>4

LEMMA ClosesocketShape ==
  ASSUME StreamShape, NEW fds \in SUBSET Fd, Closesocket(fds),
         events_' \subseteq events_ \ fds, phase' # "events" => events_' = {},
         badfds_' = badfds_ \/ (badfds_' = <<>> /\ fds = ToSet(badfds_)),
         phase' \in {"close", "write", "events", "over"}, phase' = "write" => it' = 1, it' \in Nat \ {0},
         UNCHANGED sends_
  PROVE  StreamShape'
<1>0. StreamTypes /\ StreamRest /\ PassOrder /\ StreamNumbers
  BY DEF StreamShape
<1>1. /\ Open' = Open \ fds
      /\ \A fd \in Open' : sockets_'[fd] = sockets_[fd]
      /\ sockets_' \in [Open' -> BOOLEAN]
  BY <1>0, ClosesocketOpen
<1>2. /\ out_data_' \in Seq(Entry) /\ Rising(out_data_', Serial)
      /\ \A j \in 1 .. Len(out_data_') : \E i \in 1 .. Len(out_data_) : out_data_'[j] = out_data_[i]
  BY <1>0, ClosesocketList
<1>3. /\ listens_' = listens_ \ fds /\ broken_' = broken_ \ fds
      /\ buffer' = [fd \in Fd |-> IF fd \in fds THEN <<>> ELSE buffer[fd]]
      /\ workspace_' = [fd \in Fd |-> IF fd \in fds THEN <<>> ELSE workspace_[fd]]
      /\ queue_' = [fd \in Fd |-> IF fd \in fds THEN <<>> ELSE queue_[fd]]
      /\ sent_' = [fd \in Fd |-> IF fd \in fds THEN <<>> ELSE sent_[fd]]
  BY DEF Closesocket, Dropped
<1>4. <<>> \in Seq(Nat) /\ <<>> \in Seq(Packets) /\ Len(<<>>) = 0 /\ <<>> \in Seq(Fd)
  BY EmptySeq
<1>5. StreamTypes'
  <2>1. /\ buffer' \in [Fd -> Seq(Nat)] /\ workspace_' \in [Fd -> Seq(Nat)]
        /\ queue_' \in [Fd -> Seq(Packets)] /\ sent_' \in [Fd -> Seq(Packets)]
    BY <1>0, <1>3, <1>4 DEF StreamTypes
  <2>2. \A fd \in Fd : Len(buffer'[fd]) <= Room
    BY <1>0, <1>3, <1>4, StreamAssumption DEF StreamTypes
  <2>3. \A i \in 1 .. Len(out_data_') :
          Len(out_data_'[i].data) \in 1 .. Len(Framed(out_data_'[i].packet))
    BY <1>0, <1>2 DEF StreamTypes
  <2>4. /\ listens_' \subseteq Open' /\ events_' \subseteq Open' /\ broken_' \subseteq Open'
        /\ Open' \subseteq Fd
    BY <1>0, <1>1, <1>3 DEF StreamTypes
  <2>5. it' \in Nat \ {0} /\ (phase' = "write" => it' <= Len(out_data_') + 1)
    <3>1. Len(out_data_') \in Nat
      BY <1>2, LenProperties
    <3> QED
      BY <3>1
  <2>6. badfds_' \in Seq(Fd) /\ sends_' \in 0 .. MaxSent
    BY <1>0, <1>4 DEF StreamTypes
  <2> QED
    BY <1>1, <1>2, <2>1, <2>2, <2>3, <2>4, <2>5, <2>6 DEF StreamTypes
<1>6. StreamRest'
  <2>1. \A fd \in Open' : sockets_'[fd] \/ fd \in listens_' \cup ToSet(badfds_')
    BY <1>0, <1>1, <1>3 DEF StreamRest
  <2>2. \A fd \in Open' : ~(sockets_'[fd] /\ fd \in listens_')
    BY <1>0, <1>1, <1>3 DEF StreamRest
  <2>3. \A fd \in Fd \ Open' : buffer'[fd] = <<>> /\ workspace_'[fd] = <<>> /\ queue_'[fd] = <<>>
    BY <1>0, <1>1, <1>3 DEF StreamRest
  <2>4. \A fd \in broken_' : buffer'[fd] = <<>>
    BY <1>0, <1>3 DEF StreamRest, StreamTypes
  <2> QED
    BY <2>1, <2>2, <2>3, <2>4 DEF StreamRest
<1>7. PassOrder'
  <2>1. ASSUME phase' = "write" PROVE 1 .. it' - 1 = {}
    BY <2>1
  <2> QED
    BY <2>1 DEF PassOrder
<1>8. StreamNumbers'
  <2>1. \A i \in 1 .. Len(out_data_') : Serial[out_data_'[i]] <= sends_'
    BY <1>0, <1>2 DEF StreamNumbers
  <2>2. ASSUME NEW fd \in Fd
        PROVE  /\ Rising(sent_'[fd], Number)
               /\ \A i \in 1 .. Len(sent_'[fd]) : Number[sent_'[fd][i]] <= sends_'
    <3>1. CASE fd \in fds
      <4>1. sent_'[fd] = <<>>
        BY <1>3, <3>1
      <4>2. 1 .. Len(sent_'[fd]) = {}
        BY <1>4, <4>1
      <4> QED
        BY <4>2 DEF Rising
    <3>2. CASE fd \notin fds
      <4>1. sent_'[fd] = sent_[fd]
        BY <1>3, <3>2
      <4> QED
        BY <1>0, <4>1 DEF StreamNumbers
    <3> QED
      BY <3>1, <3>2
  <2>3. Rising(out_data_, Serial)'
    BY <1>2 DEF Rising, Serial, Number
  <2> QED
    BY <2>1, <2>2, <2>3 DEF StreamNumbers
<1> QED
  BY <1>5, <1>6, <1>7, <1>8 DEF StreamShape

LEMMA BadfdsInFd == ASSUME StreamTypes PROVE ToSet(badfds_) \in SUBSET Fd
  BY ToSetOfSeq DEF StreamTypes

LEMMA CloseBadShape ==
  ASSUME StreamShape, CloseBad
  PROVE  StreamShape'
<1>1. StreamTypes /\ StreamRest
  BY DEF StreamShape
<1>2. ToSet(badfds_) \in SUBSET Fd
  BY <1>1, BadfdsInFd
<1>3. /\ Closesocket(ToSet(badfds_)) /\ badfds_' = <<>> /\ phase' = "write" /\ it' = 1
      /\ events_' = events_ /\ sends_' = sends_ /\ phase = "close"
  BY DEF CloseBad
<1>4. events_ = {}
  BY <1>1, <1>3 DEF StreamRest
<1> DEFINE fds == ToSet(badfds_)
<1>5. fds \in SUBSET Fd /\ fds = ToSet(badfds_) /\ Closesocket(fds)
  BY <1>2, <1>3
<1> HIDE DEF fds
<1> QED
  BY <1>3, <1>4, <1>5, ClosesocketShape

LEMMA CloseEventShape ==
  ASSUME StreamShape, NEW fd \in Fd, CloseEvent(fd)
  PROVE  StreamShape'
<1>1. /\ Closesocket({fd}) /\ events_' = events_ \ {fd} /\ phase = "events" /\ phase' = phase
      /\ it' = it /\ badfds_' = badfds_ /\ sends_' = sends_
  BY DEF CloseEvent, Pending, Handled
<1>2. it \in Nat \ {0}
  BY DEF StreamShape, StreamTypes
<1> DEFINE fds == {fd}
<1>3. fds \in SUBSET Fd /\ Closesocket(fds) /\ events_' \subseteq events_ \ fds
  BY <1>1
<1> HIDE DEF fds
<1> QED
  BY <1>1, <1>2, <1>3, ClosesocketShape

(* The actions that leave out_data_ and the packets as they are. *)
LEMMA QuietShape ==
  ASSUME StreamShape, UNCHANGED <<out_data_, workspace_, queue_, sent_, sends_>>,
         phase' \in {"close", "events", "over"}, it' = it, phase' # "events" => events_' = {},
         sockets_' \in [Open' -> BOOLEAN], Open \subseteq Open', Open' \subseteq Fd,
         listens_' \subseteq Open', events_' \subseteq Open', broken_' \subseteq Open',
         badfds_' \in Seq(Fd),
         \A fd \in Open' : sockets_'[fd] \/ fd \in listens_' \cup ToSet(badfds_'),
         \A fd \in Open' : ~(sockets_'[fd] /\ fd \in listens_'),
         buffer' \in [Fd -> Seq(Nat)],
         \A fd \in Fd : buffer'[fd] = buffer[fd] \/ (buffer'[fd] = <<>> /\ fd \in broken_'),
         \A fd \in broken_' : buffer'[fd] = <<>>
  PROVE  StreamShape'
<1>0. StreamTypes /\ StreamRest /\ PassOrder /\ StreamNumbers
  BY DEF StreamShape
<1>1. Len(<<>>) = 0 /\ Room \in Nat
  BY EmptySeq, StreamAssumption
<1>2. StreamTypes'
  <2>1. \A fd \in Fd : Len(buffer'[fd]) <= Room
    BY <1>0, <1>1 DEF StreamTypes
  <2> QED
    BY <1>0, <2>1 DEF StreamTypes
<1>3. StreamRest'
  <2>1. \A fd \in Fd \ Open' : buffer'[fd] = <<>> /\ workspace_'[fd] = <<>> /\ queue_'[fd] = <<>>
    BY <1>0 DEF StreamRest
  <2> QED
    BY <2>1 DEF StreamRest
<1>4. PassOrder'
  BY DEF PassOrder
<1>5. StreamNumbers'
  BY <1>0 DEF StreamNumbers, Rising, Serial, Number
<1> QED
  BY <1>2, <1>3, <1>4, <1>5 DEF StreamShape

LEMMA EpollWaitShape ==
  ASSUME StreamShape, EpollWait
  PROVE  StreamShape'
<1>0. StreamTypes /\ StreamRest
  BY DEF StreamShape
<1>1. /\ phase' \in {"events", "over"} /\ events_' \subseteq Open
      /\ phase' # "events" => events_' = {}
      /\ UNCHANGED <<it, out_data_, sockets_, listens_, badfds_, buffer, workspace_, queue_,
                     broken_, sent_, sends_>>
  <2>1. events_ = {}
    BY <1>0 DEF EpollWait, StreamRest
  <2> QED
    BY <2>1 DEF EpollWait, peerVars
<1>2. Open' = Open
  BY <1>1 DEF Open
<1> QED
  BY <1>0, <1>1, <1>2, QuietShape DEF StreamTypes, StreamRest

LEMMA EndEventsShape ==
  ASSUME StreamShape, EndEvents
  PROVE  StreamShape'
<1>0. StreamTypes /\ StreamRest
  BY DEF StreamShape
<1>1. /\ phase' \in {"close", "over"} /\ events_' = {} /\ events_ = {}
      /\ UNCHANGED <<it, out_data_, sockets_, listens_, badfds_, buffer, workspace_, queue_,
                     broken_, sent_, sends_>>
  BY DEF EndEvents, peerVars
<1>2. Open' = Open
  BY <1>1 DEF Open
<1> QED
  BY <1>0, <1>1, <1>2, QuietShape DEF StreamTypes, StreamRest

LEMMA BadEventShape ==
  ASSUME StreamShape, NEW fd \in Fd, BadEvent(fd)
  PROVE  StreamShape'
<1>0. StreamTypes /\ StreamRest
  BY DEF StreamShape
<1>1. /\ phase' = "events" /\ events_' = events_ \ {fd} /\ badfds_' = Append(badfds_, fd)
      /\ UNCHANGED <<it, out_data_, sockets_, listens_, buffer, workspace_, queue_,
                     broken_, sent_, sends_>>
  BY DEF BadEvent, Pending, Handled, peerVars
<1>2. Open' = Open
  BY <1>1 DEF Open
<1>3. badfds_' \in Seq(Fd) /\ ToSet(badfds_) \subseteq ToSet(badfds_')
  BY <1>0, <1>1, AppendProperties, ToSetOfAppend DEF StreamTypes
<1>4. \A other \in Open : sockets_[other] \/ other \in listens_ \cup ToSet(badfds_')
  BY <1>0, <1>3 DEF StreamRest
<1> QED
  BY <1>0, <1>1, <1>2, <1>3, <1>4, QuietShape DEF StreamTypes, StreamRest

LEMMA OutEventShape ==
  ASSUME StreamShape, NEW fd \in Fd, OutEvent(fd)
  PROVE  StreamShape'
<1>0. StreamTypes /\ StreamRest
  BY DEF StreamShape
<1>1. /\ phase' = "events" /\ events_' = events_ \ {fd} /\ listens_' = listens_ \ {fd}
      /\ sockets_' = [sockets_ EXCEPT ![fd] = TRUE]
      /\ badfds_' \in {badfds_, Append(badfds_, fd)}
      /\ UNCHANGED <<it, out_data_, buffer, workspace_, queue_, broken_, sent_, sends_>>
  BY DEF OutEvent, MakeWritable, Pending, Handled, peerVars
<1>2. fd \in Open /\ sockets_ \in [Open -> BOOLEAN]
  BY <1>0 DEF OutEvent, Ready, StreamTypes
<1>3. /\ Open' = Open /\ sockets_' \in [Open -> BOOLEAN] /\ sockets_'[fd] = TRUE
      /\ \A other \in Open : other # fd => sockets_'[other] = sockets_[other]
  <2> DEFINE S == Open
  <2>1. sockets_ \in [S -> BOOLEAN] /\ fd \in S
    BY <1>2
  <2> HIDE DEF S
  <2>2. /\ DOMAIN sockets_' = S /\ sockets_' \in [S -> BOOLEAN] /\ sockets_'[fd] = TRUE
        /\ \A other \in S : other # fd => sockets_'[other] = sockets_[other]
    BY <1>1, <2>1
  <2> QED
    BY <2>2 DEF S, Open
<1>4. badfds_' \in Seq(Fd) /\ ToSet(badfds_) \subseteq ToSet(badfds_')
  <2>1. badfds_ \in Seq(Fd)
    BY <1>0 DEF StreamTypes
  <2>2. Append(badfds_, fd) \in Seq(Fd) /\ ToSet(Append(badfds_, fd)) = ToSet(badfds_) \cup {fd}
    BY <2>1, AppendProperties, ToSetOfAppend
  <2> QED
    BY <1>1, <2>1, <2>2
<1>5. \A other \in Open : sockets_'[other] \/ other \in listens_' \cup ToSet(badfds_')
  BY <1>0, <1>1, <1>3, <1>4 DEF StreamRest
<1>6. \A other \in Open : ~(sockets_'[other] /\ other \in listens_')
  BY <1>0, <1>1, <1>3 DEF StreamRest
<1>7. listens_' \subseteq Open /\ events_' \subseteq Open /\ broken_' \subseteq Open /\ Open \subseteq Fd
  BY <1>0, <1>1 DEF StreamTypes
<1> QED
  BY <1>0, <1>1, <1>3, <1>4, <1>5, <1>6, <1>7, QuietShape DEF StreamTypes, StreamRest

LEMMA AcceptShape ==
  ASSUME StreamShape, NEW fd \in Fd, Accept(fd)
  PROVE  StreamShape'
<1>0. StreamTypes /\ StreamRest
  BY DEF StreamShape
<1>1. /\ phase' = "events" /\ events_' = events_ /\ fd \notin Open
      /\ sockets_' = [any \in Open \cup {fd} |-> IF any = fd THEN TRUE ELSE sockets_[any]]
      /\ UNCHANGED <<it, out_data_, listens_, badfds_, buffer, workspace_, queue_, broken_, sent_, sends_>>
  BY DEF Accept, Given, loopVars, peerVars
<1>2. /\ Open' = Open \cup {fd} /\ sockets_' \in [Open' -> BOOLEAN] /\ sockets_'[fd]
      /\ \A other \in Open : sockets_'[other] = sockets_[other]
  <2> DEFINE S == Open
  <2>1. sockets_ \in [S -> BOOLEAN] /\ fd \notin S
    BY <1>0, <1>1 DEF StreamTypes
  <2>2. sockets_' = [any \in S \cup {fd} |-> IF any = fd THEN TRUE ELSE sockets_[any]]
    BY <1>1
  <2> HIDE DEF S
  <2>3. /\ DOMAIN sockets_' = S \cup {fd} /\ sockets_' \in [S \cup {fd} -> BOOLEAN] /\ sockets_'[fd]
        /\ \A other \in S : sockets_'[other] = sockets_[other]
    BY <2>1, <2>2
  <2>4. Open' = S \cup {fd}
    BY <2>3 DEF Open
  <2> QED
    BY <2>3, <2>4 DEF S
<1>3. \A other \in Open' : sockets_'[other] \/ other \in listens_' \cup ToSet(badfds_')
  BY <1>0, <1>1, <1>2 DEF StreamRest
<1>4. \A other \in Open' : ~(sockets_'[other] /\ other \in listens_')
  BY <1>0, <1>1, <1>2 DEF StreamRest, StreamTypes
<1>5. listens_' \subseteq Open' /\ events_' \subseteq Open' /\ broken_' \subseteq Open' /\ Open' \subseteq Fd
  BY <1>0, <1>1, <1>2 DEF StreamTypes
<1> QED
  BY <1>0, <1>1, <1>2, <1>3, <1>4, <1>5, QuietShape DEF StreamTypes, StreamRest

LEMMA AcceptFailsShape ==
  ASSUME StreamShape, NEW fd \in Fd, AcceptFails(fd)
  PROVE  StreamShape'
<1>0. StreamTypes /\ StreamRest
  BY DEF StreamShape
<1>1. /\ phase' = "events" /\ badfds_' = Append(badfds_, fd)
      /\ UNCHANGED <<it, events_, out_data_, sockets_, listens_, buffer, workspace_, queue_,
                     broken_, sent_, sends_>>
  BY DEF AcceptFails, Given, loopVars, peerVars
<1>2. Open' = Open
  BY <1>1 DEF Open
<1>3. badfds_' \in Seq(Fd) /\ ToSet(badfds_) \subseteq ToSet(badfds_')
  BY <1>0, <1>1, AppendProperties, ToSetOfAppend DEF StreamTypes
<1>4. \A other \in Open : sockets_[other] \/ other \in listens_ \cup ToSet(badfds_')
  BY <1>0, <1>3 DEF StreamRest
<1> QED
  BY <1>0, <1>1, <1>2, <1>3, <1>4, QuietShape DEF StreamTypes, StreamRest

LEMMA PeerResetsShape ==
  ASSUME StreamShape, NEW fd \in Fd, PeerResets(fd)
  PROVE  StreamShape'
<1>0. StreamTypes /\ StreamRest /\ PassOrder /\ StreamNumbers
  BY DEF StreamShape
<1>1. /\ fd \in Open /\ broken_' = broken_ \cup {fd} /\ buffer' = [buffer EXCEPT ![fd] = <<>>]
      /\ UNCHANGED <<phase, it, events_, out_data_, sockets_, listens_, badfds_, workspace_,
                     queue_, sent_, sends_>>
  BY DEF PeerResets, loopVars
<1>2. Open' = Open
  BY <1>1 DEF Open
<1>3. <<>> \in Seq(Nat) /\ Len(<<>>) = 0 /\ Room \in Nat
  BY EmptySeq, StreamAssumption
<1>4. /\ buffer' \in [Fd -> Seq(Nat)] /\ buffer'[fd] = <<>>
      /\ \A other \in Fd : other # fd => buffer'[other] = buffer[other]
  BY <1>0, <1>1, <1>3 DEF StreamTypes
<1>5. StreamTypes'
  <2>1. \A any \in Fd : Len(buffer'[any]) <= Room
    <3>1. Len(buffer'[fd]) = 0
      BY <1>3, <1>4
    <3>2. Len(buffer'[fd]) <= Room
      BY <1>3, <3>1
    <3>3. \A other \in Fd : other # fd => Len(buffer'[other]) <= Room
      BY <1>0, <1>4 DEF StreamTypes
    <3> QED
      BY <3>2, <3>3
  <2>2. broken_' \subseteq Open'
    BY <1>0, <1>1, <1>2 DEF StreamTypes
  <2>3. sockets_' \in [Open' -> BOOLEAN] /\ Open' \subseteq Fd
    BY <1>0, <1>1, <1>2 DEF StreamTypes
  <2>4. listens_' \subseteq Open' /\ events_' \subseteq Open'
    BY <1>0, <1>1, <1>2 DEF StreamTypes
  <2> QED
    BY <1>0, <1>1, <1>4, <2>1, <2>2, <2>3, <2>4 DEF StreamTypes
<1>6. StreamRest'
  <2>1. \A any \in Fd \ Open' : buffer'[any] = <<>> /\ workspace_'[any] = <<>> /\ queue_'[any] = <<>>
    BY <1>0, <1>1, <1>2, <1>4 DEF StreamRest
  <2>2. \A any \in broken_' : buffer'[any] = <<>>
    BY <1>0, <1>1, <1>4 DEF StreamRest, StreamTypes
  <2> QED
    BY <1>0, <1>1, <1>2, <2>1, <2>2 DEF StreamRest
<1>7. PassOrder' /\ StreamNumbers'
  BY <1>0, <1>1, <1>2 DEF PassOrder, CanWrite, StreamNumbers, Rising, Serial, Number
<1> QED
  BY <1>5, <1>6, <1>7 DEF StreamShape

-----------------------------------------------------------------------------
(* The write pass *)

LEMMA BadfdsGrow ==
  ASSUME StreamTypes, NEW fd \in Fd, badfds_' \in {badfds_, Append(badfds_, fd)}
  PROVE  badfds_' \in Seq(Fd) /\ ToSet(badfds_) \subseteq ToSet(badfds_')
<1>1. badfds_ \in Seq(Fd)
  BY DEF StreamTypes
<1>2. Append(badfds_, fd) \in Seq(Fd) /\ ToSet(Append(badfds_, fd)) = ToSet(badfds_) \cup {fd}
  BY <1>1, AppendProperties, ToSetOfAppend
<1> QED
  BY <1>1, <1>2

(* The socket of fd is not writable any more. *)
LEMMA SocketFull ==
  ASSUME StreamTypes, NEW fd \in Open, sockets_' = [sockets_ EXCEPT ![fd] = FALSE]
  PROVE  /\ Open' = Open /\ sockets_' \in [Open' -> BOOLEAN] /\ ~sockets_'[fd]
         /\ \A other \in Open : other # fd => sockets_'[other] = sockets_[other]
<1> DEFINE S == Open
<1>1. sockets_ \in [S -> BOOLEAN] /\ fd \in S
  BY DEF StreamTypes
<1> HIDE DEF S
<1>2. /\ DOMAIN sockets_' = S /\ sockets_' \in [S -> BOOLEAN] /\ ~sockets_'[fd]
      /\ \A other \in S : other # fd => sockets_'[other] = sockets_[other]
  BY <1>1
<1>3. Open' = S
  BY <1>2 DEF Open
<1> QED
  BY <1>2, <1>3 DEF S

(* The list without the packet that was written or given up. *)
LEMMA ListRemoved ==
  ASSUME StreamTypes, StreamNumbers, AtPacket, out_data_' = RemoveAt(out_data_, it)
  PROVE  /\ out_data_' \in Seq(Entry) /\ it <= Len(out_data_') + 1
         /\ \A i \in 1 .. Len(out_data_') :
              Len(out_data_'[i].data) \in 1 .. Len(Framed(out_data_'[i].packet))
         /\ \A i \in 1 .. it - 1 : out_data_'[i] = out_data_[i]
         /\ Rising(out_data_', Serial)
         /\ \A i \in 1 .. Len(out_data_') : Serial[out_data_'[i]] <= sends_
<1> DEFINE rest == RemoveAt(out_data_, it)
<1>1. /\ out_data_ \in Seq(Entry) /\ it \in 1 .. Len(out_data_) /\ Len(out_data_) \in Nat
      /\ Rising(out_data_, Serial)
  BY AtEntry, LenProperties DEF StreamTypes, StreamNumbers
<1>2. /\ rest \in Seq(Entry) /\ Len(rest) = Len(out_data_) - 1
      /\ \A j \in 1 .. Len(out_data_) - 1 :
           rest[j] = IF j < it THEN out_data_[j] ELSE out_data_[j + 1]
  BY <1>1, RemoveAtProperties
<1>3. Rising(rest, Serial)
  BY <1>1, RisingRemoveAt
<1> HIDE DEF rest
<1>4. \A j \in 1 .. Len(rest) : \E i \in 1 .. Len(out_data_) : rest[j] = out_data_[i]
  <2>1. \A j \in 1 .. Len(rest) : j \in 1 .. Len(out_data_) /\ j + 1 \in 1 .. Len(out_data_)
    BY <1>1, <1>2
  <2> QED
    BY <1>2, <2>1
<1>5. \A i \in 1 .. it - 1 : rest[i] = out_data_[i]
  <2>1. \A i \in 1 .. it - 1 : i \in 1 .. Len(out_data_) - 1 /\ i < it
    BY <1>1
  <2> QED
    BY <1>2, <2>1
<1>6. it <= Len(rest) + 1
  BY <1>1, <1>2
<1>7. /\ \A i \in 1 .. Len(rest) : Len(rest[i].data) \in 1 .. Len(Framed(rest[i].packet))
      /\ \A i \in 1 .. Len(rest) : Serial[rest[i]] <= sends_
  BY <1>4 DEF StreamTypes, StreamNumbers
<1>8. out_data_' = rest
  BY DEF rest
<1> QED
  BY <1>2, <1>3, <1>5, <1>6, <1>7, <1>8

LEMMA WritePassShape ==
  ASSUME StreamShape, WritePass
  PROVE  StreamShape'
<1>0. StreamTypes /\ StreamRest /\ PassOrder /\ StreamNumbers
  BY DEF StreamShape
<1>1. /\ AtPacket /\ ~Writable /\ it' = it + 1
      /\ badfds_' \in {badfds_, Append(badfds_, This.fd)}
      /\ UNCHANGED <<phase, events_, out_data_, sockets_, listens_, buffer, workspace_, queue_,
                     broken_, sent_, sends_>>
  BY DEF WritePass, peerVars
<1>2. it \in 1 .. Len(out_data_) /\ This.fd \in Fd /\ Len(out_data_) \in Nat
  BY <1>0, <1>1, AtEntry, LenProperties DEF StreamTypes
<1>3. badfds_' \in Seq(Fd) /\ ToSet(badfds_) \subseteq ToSet(badfds_')
  BY <1>0, <1>1, <1>2, BadfdsGrow
<1>4. Open' = Open
  BY <1>1 DEF Open
<1>5. it' \in Nat \ {0} /\ it' <= Len(out_data_) + 1
  BY <1>1, <1>2
<1>6. StreamTypes'
  BY <1>0, <1>1, <1>3, <1>4, <1>5 DEF StreamTypes
<1>7. StreamRest'
  BY <1>0, <1>1, <1>3, <1>4 DEF StreamRest
<1>8. PassOrder'
  <2>1. \A i \in 1 .. it' - 1 : i \in 1 .. it - 1 \/ i = it
    BY <1>1, <1>2
  <2>2. \A i \in 1 .. it - 1 : ~CanWrite(out_data_[i].fd)
    BY <1>0, <1>1 DEF PassOrder, AtPacket
  <2>3. ~CanWrite(out_data_[it].fd)
    BY <1>1 DEF Writable, This, CanWrite
  <2>4. \A i \in 1 .. it' - 1 : ~CanWrite(out_data_[i].fd)
    BY <2>1, <2>2, <2>3
  <2> QED
    BY <1>1, <1>4, <2>4 DEF PassOrder, CanWrite
<1>9. StreamNumbers'
  BY <1>0, <1>1 DEF StreamNumbers, Rising, Serial, Number
<1> QED
  BY <1>6, <1>7, <1>8, <1>9 DEF StreamShape

LEMMA WriteWholeShape ==
  ASSUME StreamShape, WriteWhole
  PROVE  StreamShape'
<1>0. StreamTypes /\ StreamRest /\ PassOrder /\ StreamNumbers
  BY DEF StreamShape
<1>1. /\ AtPacket /\ Writable /\ it' = it /\ Taken = Len(This.data) /\ Written
      /\ badfds_' \in {badfds_, Append(badfds_, This.fd)}
      /\ out_data_' = RemoveAt(out_data_, it)
      /\ UNCHANGED <<phase, events_, sockets_, listens_, workspace_, queue_,
                     broken_, sent_, sends_>>
  BY DEF WriteWhole, peerVars, loopVars
<1> DEFINE fd == This.fd
<1>2. /\ it \in 1 .. Len(out_data_) /\ fd \in Fd /\ Len(This.data) \in Nat \ {0}
  BY <1>0, <1>1, AtEntry
<1>3. badfds_' \in Seq(Fd) /\ ToSet(badfds_) \subseteq ToSet(badfds_')
  BY <1>0, <1>1, <1>2, BadfdsGrow
<1>4. Open' = Open /\ fd \in Open
  BY <1>1 DEF Open, Writable
<1>5. /\ out_data_' \in Seq(Entry) /\ it <= Len(out_data_') + 1
      /\ \A i \in 1 .. Len(out_data_') :
           Len(out_data_'[i].data) \in 1 .. Len(Framed(out_data_'[i].packet))
      /\ \A i \in 1 .. it - 1 : out_data_'[i] = out_data_[i]
      /\ Rising(out_data_', Serial)
      /\ \A i \in 1 .. Len(out_data_') : Serial[out_data_'[i]] <= sends_
  BY <1>0, <1>1, ListRemoved
<1>6. /\ buffer' \in [Fd -> Seq(Nat)] /\ \A any \in Fd : Len(buffer'[any]) <= Room
      /\ \A other \in Fd : other # fd => buffer'[other] = buffer[other]
  BY <1>0, <1>1, WrittenBytes
<1>7. fd \notin broken_
  BY <1>0, <1>1, <1>2, TakenBytes
<1> HIDE DEF fd
<1>8. StreamTypes'
  BY <1>0, <1>1, <1>3, <1>4, <1>5, <1>6 DEF StreamTypes
<1>9. StreamRest'
  <2>1. \A any \in Fd \ Open' : buffer'[any] = <<>> /\ workspace_'[any] = <<>> /\ queue_'[any] = <<>>
    BY <1>0, <1>1, <1>4, <1>6 DEF StreamRest
  <2>2. \A any \in broken_' : buffer'[any] = <<>>
    BY <1>0, <1>1, <1>6, <1>7 DEF StreamRest, StreamTypes
  <2> QED
    BY <1>0, <1>1, <1>3, <1>4, <2>1, <2>2 DEF StreamRest
<1>10. PassOrder'
  <2>1. \A i \in 1 .. it - 1 : ~CanWrite(out_data_'[i].fd)
    BY <1>0, <1>1, <1>5 DEF PassOrder, AtPacket
  <2> QED
    BY <1>1, <1>4, <2>1 DEF PassOrder, CanWrite
<1>11. StreamNumbers'
  BY <1>0, <1>1, <1>5 DEF StreamNumbers, Rising, Serial, Number
<1> QED
  BY <1>8, <1>9, <1>10, <1>11 DEF StreamShape

(* Of a packet that is written in part, a rest stays. *)
LEMMA PartOfData ==
  ASSUME StreamTypes, AtPacket, Taken \in 1 .. Len(This.data) - 1
  PROVE  /\ Rest(This.data, Taken) \in Seq(Nat)
         /\ Len(Rest(This.data, Taken)) = Len(This.data) - Taken
         /\ Len(Rest(This.data, Taken)) \in 1 .. Len(This.data)
         /\ SubSeq(This.data, 1, Taken) \o Rest(This.data, Taken) = This.data
<1> DEFINE a == This.data
           n == Taken
           first == SubSeq(a, 1, n)
           last == SubSeq(a, n + 1, Len(a))
<1>1. a \in Seq(Nat) /\ Len(a) \in Nat /\ n \in Nat /\ 1 <= n /\ n < Len(a)
  <2>1. a \in Seq(Nat) /\ Len(a) \in Nat
    BY AtEntry
  <2> QED
    BY <2>1
<1>2. Rest(This.data, Taken) = last
  BY DEF Rest
<1> HIDE DEF a, n
<1>3. first \in Seq(Nat) /\ Len(first) = n /\ \A i \in 1 .. n : first[i] = a[i]
  <2>1. /\ first \in Seq(Nat) /\ Len(first) = n - 1 + 1
        /\ \A i \in 1 .. n - 1 + 1 : first[i] = a[1 - 1 + i]
    BY <1>1, BytesCut
  <2> QED
    BY <1>1, <2>1
<1>4. last \in Seq(Nat) /\ Len(last) = Len(a) - n /\ \A i \in 1 .. Len(a) - n : last[i] = a[n + i]
  <2> DEFINE k == n + 1
             m == Len(a)
  <2>1. k \in Nat \ {0} /\ m \in Nat /\ k <= m + 1 /\ m <= Len(a)
    BY <1>1
  <2> HIDE DEF k, m
  <2>2. /\ SubSeq(a, k, m) \in Seq(Nat) /\ Len(SubSeq(a, k, m)) = m - k + 1
        /\ \A i \in 1 .. m - k + 1 : SubSeq(a, k, m)[i] = a[k - 1 + i]
    BY <1>1, <2>1, BytesCut
  <2>3. m - k + 1 = Len(a) - n /\ \A i \in 1 .. Len(a) - n : k - 1 + i = n + i
    BY <1>1 DEF k, m
  <2>4. last = SubSeq(a, k, m)
    BY DEF k, m
  <2> HIDE DEF last
  <2> QED
    BY <2>2, <2>3, <2>4
<1> HIDE DEF first, last
<1>5. /\ first \o last \in Seq(Nat) /\ Len(first \o last) = Len(first) + Len(last)
      /\ \A i \in 1 .. Len(first) + Len(last) :
           (first \o last)[i] = IF i <= Len(first) THEN first[i] ELSE last[i - Len(first)]
  BY <1>3, <1>4, BytesConcat
<1>6. Len(first) + Len(last) = Len(a)
  BY <1>1, <1>3, <1>4
<1>7. ASSUME NEW i \in 1 .. Len(a) PROVE (first \o last)[i] = a[i]
  <2>1. CASE i <= n
    <3>1. i \in 1 .. n /\ i \in 1 .. Len(first) + Len(last) /\ i <= Len(first)
      BY <1>1, <1>3, <1>6, <2>1
    <3> QED
      BY <1>3, <1>5, <3>1
  <2>2. CASE ~(i <= n)
    <3>1. i - n \in 1 .. Len(a) - n /\ n + (i - n) = i
      BY <1>1, <2>2
    <3> QED
      BY <1>3, <1>4, <1>5, <1>6, <2>2, <3>1
  <2> QED
    BY <2>1, <2>2
<1>8. first \o last = a
  BY <1>1, <1>5, <1>6, <1>7, SeqEqual
<1> QED
  BY <1>1, <1>2, <1>4, <1>8 DEF a, n, first

(* What stays of a packet written in part. *)
RestOf(e, taken) == [e EXCEPT !.data = Rest(@, taken)]

LEMMA RestOfThis ==
  ASSUME StreamTypes, AtPacket, Taken \in 1 .. Len(This.data) - 1
  PROVE  LET e == RestOf(This, Taken)
         IN  /\ e \in Entry /\ e.fd = This.fd /\ e.packet = This.packet
             /\ e.data = Rest(This.data, Taken) /\ Serial[e] = Serial[This]
             /\ Len(e.data) \in 1 .. Len(Framed(e.packet))
<1> DEFINE e == RestOf(This, Taken)
<1>1. /\ This \in Entry /\ Len(This.data) \in Nat /\ Len(This.data) <= Len(Framed(This.packet))
      /\ Len(Framed(This.packet)) \in Nat
  BY AtEntry, FramedProperties, LenProperties
<1>2. /\ Rest(This.data, Taken) \in Seq(Nat)
      /\ Len(Rest(This.data, Taken)) \in 1 .. Len(This.data)
  BY PartOfData
<1>3. /\ e.fd = This.fd /\ e.packet = This.packet /\ e.closefd = This.closefd
      /\ e.data = Rest(This.data, Taken) /\ e \in Entry
  BY <1>1, <1>2 DEF RestOf, Entry
<1>4. Serial[e] = Serial[This]
  BY <1>1, <1>3 DEF Serial
<1>5. Len(e.data) \in 1 .. Len(Framed(e.packet))
  BY <1>1, <1>2, <1>3
<1> QED
  BY <1>3, <1>4, <1>5

LEMMA WritePartialList ==
  ASSUME StreamTypes, WritePartial
  PROVE  out_data_' = [out_data_ EXCEPT ![it] = RestOf(This, Taken)]
<1>1. out_data_' = [out_data_ EXCEPT ![it].data = Rest(@, Taken)]
  BY DEF WritePartial
<1> QED
  BY <1>1 DEF RestOf, This

LEMMA WritePartialShape ==
  ASSUME StreamShape, WritePartial
  PROVE  StreamShape'
<1>0. StreamTypes /\ StreamRest /\ PassOrder /\ StreamNumbers
  BY DEF StreamShape
<1>1. /\ AtPacket /\ Writable /\ it' = it + 1 /\ Taken \in 1 .. Len(This.data) - 1 /\ Written
      /\ sockets_' = [sockets_ EXCEPT ![This.fd] = FALSE]
      /\ listens_' = listens_ \cup {This.fd}
      /\ UNCHANGED <<phase, events_, badfds_, workspace_, queue_, broken_, sent_, sends_>>
  BY DEF WritePartial, peerVars
<1> DEFINE fd == This.fd
           e == RestOf(This, Taken)
<1>2. /\ it \in 1 .. Len(out_data_) /\ fd \in Fd /\ fd \in Open /\ Len(This.data) \in Nat
      /\ phase = "write" /\ Len(out_data_) \in Nat
  BY <1>0, <1>1, AtEntry, LenProperties DEF Writable, AtPacket, StreamTypes
<1>3. /\ e \in Entry /\ e.fd = fd /\ Serial[e] = Serial[This]
      /\ Len(e.data) \in 1 .. Len(Framed(e.packet))
  BY <1>0, <1>1, RestOfThis
<1>4. out_data_' = [out_data_ EXCEPT ![it] = e]
  BY <1>0, WritePartialList
<1>5. /\ Open' = Open /\ sockets_' \in [Open' -> BOOLEAN] /\ ~sockets_'[fd]
      /\ \A other \in Open : other # fd => sockets_'[other] = sockets_[other]
  BY <1>0, <1>1, <1>2, SocketFull
<1>6. /\ buffer' \in [Fd -> Seq(Nat)] /\ \A any \in Fd : Len(buffer'[any]) <= Room
      /\ \A other \in Fd : other # fd => buffer'[other] = buffer[other]
  BY <1>0, <1>1, WrittenBytes
<1>7. fd \notin broken_
  <2>1. fd \in broken_ => Taken = 0
    BY <1>0, <1>1, TakenBytes
  <2> QED
    BY <1>1, <1>2, <2>1
<1> HIDE DEF e
<1>8. /\ out_data_' \in Seq(Entry) /\ Len(out_data_') = Len(out_data_) /\ out_data_'[it] = e
      /\ \A i \in 1 .. Len(out_data_) : i # it => out_data_'[i] = out_data_[i]
  BY <1>0, <1>2, <1>3, <1>4, ExceptSeq DEF StreamTypes
<1>9. Rising(out_data_', Serial)
  BY <1>0, <1>2, <1>3, <1>4, RisingReplaced DEF StreamTypes, StreamNumbers, This
<1> HIDE DEF fd
<1>10. StreamTypes'
  <2>1. \A i \in 1 .. Len(out_data_') :
          Len(out_data_'[i].data) \in 1 .. Len(Framed(out_data_'[i].packet))
    BY <1>0, <1>3, <1>8 DEF StreamTypes
  <2>2. it' \in Nat \ {0} /\ it' <= Len(out_data_') + 1
    BY <1>1, <1>2, <1>8
  <2>3. listens_' \subseteq Open' /\ events_' \subseteq Open' /\ broken_' \subseteq Open' /\ Open' \subseteq Fd
    BY <1>0, <1>1, <1>2, <1>5 DEF StreamTypes, fd
  <2> QED
    BY <1>0, <1>1, <1>5, <1>6, <1>8, <2>1, <2>2, <2>3 DEF StreamTypes
<1>11. StreamRest'
  <2>1. \A any \in Fd \ Open' : buffer'[any] = <<>> /\ workspace_'[any] = <<>> /\ queue_'[any] = <<>>
    BY <1>0, <1>1, <1>2, <1>5, <1>6 DEF StreamRest
  <2>2. \A any \in broken_' : buffer'[any] = <<>>
    BY <1>0, <1>1, <1>6, <1>7 DEF StreamRest, StreamTypes
  <2>3. listens_' = listens_ \cup {fd} /\ badfds_' = badfds_
    BY <1>1 DEF fd
  <2>4. /\ \A any \in Open' : sockets_'[any] \/ any \in listens_' \cup ToSet(badfds_')
        /\ \A any \in Open' : ~(sockets_'[any] /\ any \in listens_')
    BY <1>0, <1>5, <2>3 DEF StreamRest
  <2> QED
    BY <1>0, <1>1, <2>1, <2>2, <2>4 DEF StreamRest
<1>12. PassOrder'
  <2>1. ASSUME NEW i \in 1 .. it' - 1
        PROVE  ~(out_data_'[i].fd \in Open' /\ sockets_'[out_data_'[i].fd])
    <3>1. i \in 1 .. it - 1 \/ i = it
      BY <1>1, <1>2
    <3>2. CASE i = it
      BY <1>3, <1>5, <1>8, <3>2
    <3>3. CASE i \in 1 .. it - 1
      <4>1. i \in 1 .. Len(out_data_) /\ i # it
        BY <1>2, <3>3
      <4>2. out_data_'[i] = out_data_[i] /\ ~CanWrite(out_data_[i].fd)
        BY <1>0, <1>2, <1>8, <3>3, <4>1 DEF PassOrder
      <4> QED
        BY <1>5, <4>2 DEF CanWrite
    <3> QED
      BY <3>1, <3>2, <3>3
  <2> QED
    BY <2>1 DEF PassOrder, CanWrite
<1>13. StreamNumbers'
  <2>1. \A i \in 1 .. Len(out_data_') : Serial[out_data_'[i]] <= sends_
    <3>1. Serial[e] <= sends_
      BY <1>0, <1>2, <1>3 DEF StreamNumbers, This
    <3> QED
      BY <1>0, <1>8, <3>1 DEF StreamNumbers
  <2> QED
    BY <1>0, <1>1, <1>9, <2>1 DEF StreamNumbers, Rising, Serial, Number
<1> QED
  BY <1>10, <1>11, <1>12, <1>13 DEF StreamShape

(* The packet that is given up is the next of those sent. *)
LEMMA GivenUpSent ==
  ASSUME StreamInv, AtPacket, Writable, GivenUp, NEW k, NEW f, Flows(This.fd, k, f)
  PROVE  LET s == sent_[This.fd]
         IN  /\ k + 1 \in 1 .. Len(s) /\ RemoveAt(s, k + 1) \in Seq(Packets)
             /\ sent_' = [sent_ EXCEPT ![This.fd] = RemoveAt(s, k + 1)]
             /\ sent_' \in [Fd -> Seq(Packets)]
             /\ \A fd \in Fd : /\ Rising(sent_'[fd], Number)
                               /\ \A i \in 1 .. Len(sent_'[fd]) : Number[sent_'[fd][i]] <= sends_
<1> DEFINE fd == This.fd
           s == sent_[fd]
           p == This.packet
           at == CHOOSE i \in DOMAIN s : s[i] = p
           rest == RemoveAt(s, k + 1)
<1>0. StreamTypes /\ StreamNumbers
  BY DEF StreamInv
<1>1. fd \in Fd
  BY <1>0, AtEntry
<1>2. k + 1 \in 1 .. Len(s) /\ p = s[k + 1]
  BY AtFront DEF FirstWaiting
<1>3. /\ s \in Seq(Packets) /\ Len(s) \in Nat /\ DOMAIN s = 1 .. Len(s) /\ Rising(s, Number)
      /\ \A i \in 1 .. Len(s) : Number[s[i]] <= sends_
  BY <1>0, <1>1, LenProperties DEF StreamTypes, StreamNumbers
<1>4. sent_' = [sent_ EXCEPT ![fd] = RemoveAt(s, at)] /\ sent_ \in [Fd -> Seq(Packets)]
  BY <1>0 DEF GivenUp, StreamTypes
<1> HIDE DEF fd, s, p
<1>5. at \in 1 .. Len(s) /\ s[at] = p
  BY <1>2, <1>3
<1> HIDE DEF at
<1>6. at = k + 1
  <2> SUFFICES ASSUME at # k + 1 PROVE FALSE
    OBVIOUS
  <2>1. s \in Seq(Packets) /\ Number \in [Packets -> Nat] /\ Rising(s, Number)
    BY <1>3, NumberType, Zenon
  <2>2. \A i, j \in 1 .. Len(s) : i # j => s[i] # s[j]
    BY <2>1, RisingDistinct, Zenon
  <2>3. s[at] # s[k + 1]
    BY <1>2, <1>5, <2>2, Zenon
  <2> QED
    BY <1>2, <1>5, <2>3, Zenon
<1>7. /\ rest \in Seq(Packets) /\ Len(rest) = Len(s) - 1
      /\ \A j \in 1 .. Len(s) - 1 : rest[j] = IF j < k + 1 THEN s[j] ELSE s[j + 1]
  BY <1>2, <1>3, RemoveAtProperties
<1>8. Rising(rest, Number)
  BY <1>2, <1>3, RisingRemoveAt
<1> HIDE DEF rest
<1>9. \A i \in 1 .. Len(rest) : Number[rest[i]] <= sends_
  <2>1. \A j \in 1 .. Len(rest) : j \in 1 .. Len(s) /\ j + 1 \in 1 .. Len(s)
    BY <1>3, <1>7
  <2>2. \A j \in 1 .. Len(rest) : rest[j] = s[j] \/ rest[j] = s[j + 1]
    BY <1>7
  <2> QED
    BY <1>3, <2>1, <2>2
<1>10. sent_' = [sent_ EXCEPT ![fd] = rest]
  BY <1>4, <1>6 DEF rest
<1>11. /\ sent_' \in [Fd -> Seq(Packets)] /\ sent_'[fd] = rest
       /\ \A other \in Fd : other # fd => sent_'[other] = sent_[other]
  BY <1>1, <1>4, <1>7, <1>10
<1>12. \A any \in Fd : /\ Rising(sent_'[any], Number)
                       /\ \A i \in 1 .. Len(sent_'[any]) : Number[sent_'[any][i]] <= sends_
  <2> SUFFICES ASSUME NEW any \in Fd
               PROVE  /\ Rising(sent_'[any], Number)
                      /\ \A i \in 1 .. Len(sent_'[any]) : Number[sent_'[any][i]] <= sends_
    OBVIOUS
  <2>1. CASE any = fd
    BY <1>8, <1>9, <1>11, <2>1
  <2>2. CASE any # fd
    BY <1>0, <1>11, <2>2 DEF StreamNumbers
  <2> QED
    BY <2>1, <2>2
<1> QED
  BY <1>2, <1>7, <1>10, <1>11, <1>12 DEF fd, s, rest

LEMMA WriteFailsShape ==
  ASSUME StreamInv, WriteFails
  PROVE  StreamShape'
<1>0. StreamTypes /\ StreamRest /\ PassOrder /\ StreamNumbers /\ StreamFlow
  BY DEF StreamInv
<1>1. /\ AtPacket /\ Writable /\ GivenUp /\ it' = it
      /\ badfds_' \in {badfds_, Append(badfds_, This.fd)}
      /\ out_data_' = RemoveAt(out_data_, it)
      /\ UNCHANGED <<phase, events_, sockets_, listens_, buffer, workspace_, queue_, broken_, sends_>>
  BY DEF WriteFails, GivenUp, peerVars, loopVars
<1>2. This.fd \in Fd
  BY <1>0, <1>1, AtEntry
<1>3. PICK k, f : Flows(This.fd, k, f)
  BY <1>0, <1>2 DEF StreamFlow
<1>4. /\ sent_' \in [Fd -> Seq(Packets)]
      /\ \A fd \in Fd : /\ Rising(sent_'[fd], Number)
                        /\ \A i \in 1 .. Len(sent_'[fd]) : Number[sent_'[fd][i]] <= sends_
  BY <1>1, <1>3, GivenUpSent
<1>5. badfds_' \in Seq(Fd) /\ ToSet(badfds_) \subseteq ToSet(badfds_')
  BY <1>0, <1>1, <1>2, BadfdsGrow
<1>6. Open' = Open
  BY <1>1 DEF Open
<1>7. /\ out_data_' \in Seq(Entry) /\ it <= Len(out_data_') + 1
      /\ \A i \in 1 .. Len(out_data_') :
           Len(out_data_'[i].data) \in 1 .. Len(Framed(out_data_'[i].packet))
      /\ \A i \in 1 .. it - 1 : out_data_'[i] = out_data_[i]
      /\ Rising(out_data_', Serial)
      /\ \A i \in 1 .. Len(out_data_') : Serial[out_data_'[i]] <= sends_
  BY <1>0, <1>1, ListRemoved
<1>8. StreamTypes'
  BY <1>0, <1>1, <1>4, <1>5, <1>6, <1>7 DEF StreamTypes
<1>9. StreamRest'
  BY <1>0, <1>1, <1>5, <1>6 DEF StreamRest
<1>10. PassOrder'
  <2>1. \A i \in 1 .. it - 1 : ~CanWrite(out_data_'[i].fd)
    BY <1>0, <1>1, <1>7 DEF PassOrder, AtPacket
  <2> QED
    BY <1>1, <1>6, <2>1 DEF PassOrder, CanWrite
<1>11. StreamNumbers'
  BY <1>1, <1>4, <1>7 DEF StreamNumbers, Rising, Serial, Number
<1> QED
  BY <1>8, <1>9, <1>10, <1>11 DEF StreamShape

LEMMA WriteStuckShape ==
  ASSUME StreamInv, WriteStuck
  PROVE  StreamShape'
<1>0. StreamTypes /\ StreamRest /\ PassOrder /\ StreamNumbers /\ StreamFlow
  BY DEF StreamInv
<1>1. /\ AtPacket /\ Writable /\ GivenUp /\ it' = it /\ Written
      /\ Taken \in 1 .. Len(This.data) - 1
      /\ sockets_' = [sockets_ EXCEPT ![This.fd] = FALSE]
      /\ badfds_' = Append(badfds_, This.fd)
      /\ out_data_' = RemoveAt(out_data_, it)
      /\ UNCHANGED <<phase, events_, listens_, workspace_, queue_, broken_, sends_>>
  BY DEF WriteStuck, GivenUp, peerVars, loopVars
<1> DEFINE fd == This.fd
<1>2. fd \in Fd /\ fd \in Open /\ Len(This.data) \in Nat
  BY <1>0, <1>1, AtEntry DEF Writable
<1>3. PICK k, f : Flows(This.fd, k, f)
  BY <1>0, <1>2 DEF StreamFlow
<1>4. /\ sent_' \in [Fd -> Seq(Packets)]
      /\ \A any \in Fd : /\ Rising(sent_'[any], Number)
                         /\ \A i \in 1 .. Len(sent_'[any]) : Number[sent_'[any][i]] <= sends_
  BY <1>1, <1>3, GivenUpSent
<1>5. badfds_' \in Seq(Fd) /\ ToSet(badfds_') = ToSet(badfds_) \cup {fd}
  BY <1>0, <1>1, <1>2, AppendProperties, ToSetOfAppend DEF StreamTypes
<1>6. /\ Open' = Open /\ sockets_' \in [Open' -> BOOLEAN] /\ ~sockets_'[fd]
      /\ \A other \in Open : other # fd => sockets_'[other] = sockets_[other]
  BY <1>0, <1>1, <1>2, SocketFull
<1>7. /\ out_data_' \in Seq(Entry) /\ it <= Len(out_data_') + 1
      /\ \A i \in 1 .. Len(out_data_') :
           Len(out_data_'[i].data) \in 1 .. Len(Framed(out_data_'[i].packet))
      /\ \A i \in 1 .. it - 1 : out_data_'[i] = out_data_[i]
      /\ Rising(out_data_', Serial)
      /\ \A i \in 1 .. Len(out_data_') : Serial[out_data_'[i]] <= sends_
  BY <1>0, <1>1, ListRemoved
<1>8. /\ buffer' \in [Fd -> Seq(Nat)] /\ \A any \in Fd : Len(buffer'[any]) <= Room
      /\ \A other \in Fd : other # fd => buffer'[other] = buffer[other]
  BY <1>0, <1>1, WrittenBytes
<1>9. fd \notin broken_
  <2>1. fd \in broken_ => Taken = 0
    BY <1>0, <1>1, TakenBytes
  <2> QED
    BY <1>1, <1>2, <2>1
<1> HIDE DEF fd
<1>10. StreamTypes'
  BY <1>0, <1>1, <1>4, <1>5, <1>6, <1>7, <1>8 DEF StreamTypes
<1>11. StreamRest'
  <2>1. \A any \in Fd \ Open' : buffer'[any] = <<>> /\ workspace_'[any] = <<>> /\ queue_'[any] = <<>>
    BY <1>0, <1>1, <1>2, <1>6, <1>8 DEF StreamRest
  <2>2. \A any \in broken_' : buffer'[any] = <<>>
    BY <1>0, <1>1, <1>8, <1>9 DEF StreamRest, StreamTypes
  <2>3. /\ \A any \in Open' : sockets_'[any] \/ any \in listens_' \cup ToSet(badfds_')
        /\ \A any \in Open' : ~(sockets_'[any] /\ any \in listens_')
    BY <1>0, <1>1, <1>5, <1>6 DEF StreamRest
  <2> QED
    BY <1>0, <1>1, <2>1, <2>2, <2>3 DEF StreamRest
<1>12. PassOrder'
  <2>1. ASSUME NEW i \in 1 .. it - 1, phase = "write"
        PROVE  ~(out_data_'[i].fd \in Open' /\ sockets_'[out_data_'[i].fd])
    <3>1. ~CanWrite(out_data_'[i].fd)
      BY <1>0, <1>7, <2>1 DEF PassOrder
    <3> QED
      BY <1>6, <3>1 DEF CanWrite
  <2> QED
    BY <1>1, <2>1 DEF PassOrder, CanWrite
<1>13. StreamNumbers'
  BY <1>1, <1>4, <1>7 DEF StreamNumbers, Rising, Serial, Number
<1> QED
  BY <1>10, <1>11, <1>12, <1>13 DEF StreamShape

-----------------------------------------------------------------------------
(* What the peer makes of the bytes it reads: the queue gets the packets   *)
(* that come next, up to i, and the bytes left are before those to come.   *)
ReadUpTo(fd, k, f) ==
  \E i \in Len(queue_[fd]) .. k : /\ queue_'[fd] = SubSeq(sent_[fd], 1, i)
                                  /\ workspace_'[fd] \o buffer'[fd] = f[i]

LEMMA PeerReadsPackets ==
  ASSUME StreamInv, NEW fd \in Fd, PeerReads(fd), NEW k, NEW f, Flows(fd, k, f)
  PROVE  /\ fd \in Open /\ fd \notin broken_
         /\ buffer' \in [Fd -> Seq(Nat)] /\ workspace_' \in [Fd -> Seq(Nat)]
         /\ Len(buffer'[fd]) < Len(buffer[fd])
         /\ queue_' \in [Fd -> Seq(Packets)]
         /\ \A other \in Fd : other # fd => /\ buffer'[other] = buffer[other]
                                            /\ workspace_'[other] = workspace_[other]
                                            /\ queue_'[other] = queue_[other]
         /\ ReadUpTo(fd, k, f)
<1> DEFINE s == sent_[fd]
           q == Len(queue_[fd])
           b == buffer[fd]
           w == workspace_[fd]
<1>0. StreamTypes /\ StreamRest
  BY DEF StreamInv
<1>1. PICK n \in 1 .. Len(b) :
        /\ buffer' = [buffer EXCEPT ![fd] = SubSeq(b, n + 1, Len(b))]
        /\ workspace_' = [workspace_ EXCEPT ![fd] = FeedBytes(w \o SubSeq(b, 1, n)).workspace]
        /\ queue_' = [queue_ EXCEPT ![fd] = queue_[fd] \o FeedBytes(w \o SubSeq(b, 1, n)).queue]
  BY DEF PeerReads
<1>2. /\ s \in Seq(Packets) /\ queue_[fd] \in Seq(Packets) /\ w \in Seq(Nat) /\ b \in Seq(Nat)
      /\ Len(b) \in Nat /\ Len(s) \in Nat /\ q \in Nat
  BY <1>0, LenProperties DEF StreamTypes
<1>3. fd \in Open /\ fd \notin broken_
  <2>1. b # <<>>
    BY <1>2, EmptySeq
  <2> QED
    BY <1>0, <2>1 DEF StreamRest
<1>4. UnderWay(s, q, k, f, w \o b) /\ k \in q .. Len(s) /\ queue_[fd] = SubSeq(s, 1, q)
  BY <1>3 DEF Flows, Carried
<1> HIDE DEF s, q, b, w
<1> DEFINE first == SubSeq(b, 1, n)
           z == SubSeq(b, n + 1, Len(b))
           a == w \o first
<1>5. first \in Seq(Nat) /\ Len(first) = n /\ \A i \in 1 .. n : first[i] = b[i]
  <2>1. /\ first \in Seq(Nat) /\ Len(first) = n - 1 + 1
        /\ \A i \in 1 .. n - 1 + 1 : first[i] = b[1 - 1 + i]
    BY <1>2, BytesCut
  <2> QED
    BY <1>2, <2>1
<1>6. z \in Seq(Nat) /\ Len(z) = Len(b) - n /\ \A i \in 1 .. Len(b) - n : z[i] = b[n + i]
  <2> DEFINE c == n + 1
             m == Len(b)
  <2>1. c \in Nat \ {0} /\ m \in Nat /\ c <= m + 1 /\ m <= Len(b)
    BY <1>2
  <2> HIDE DEF c, m
  <2>2. /\ SubSeq(b, c, m) \in Seq(Nat) /\ Len(SubSeq(b, c, m)) = m - c + 1
        /\ \A i \in 1 .. m - c + 1 : SubSeq(b, c, m)[i] = b[c - 1 + i]
    BY <1>2, <2>1, BytesCut
  <2>3. m - c + 1 = Len(b) - n /\ \A i \in 1 .. Len(b) - n : c - 1 + i = n + i
    BY <1>2 DEF c, m
  <2>4. z = SubSeq(b, c, m)
    BY DEF c, m
  <2> HIDE DEF z
  <2> QED
    BY <2>2, <2>3, <2>4
<1> HIDE DEF first, z
<1>7. first \o z = b
  <2>1. /\ first \o z \in Seq(Nat) /\ Len(first \o z) = Len(first) + Len(z)
        /\ \A i \in 1 .. Len(first) + Len(z) :
             (first \o z)[i] = IF i <= Len(first) THEN first[i] ELSE z[i - Len(first)]
    BY <1>5, <1>6, BytesConcat
  <2>2. Len(first) + Len(z) = Len(b)
    BY <1>2, <1>5, <1>6
  <2>3. ASSUME NEW i \in 1 .. Len(b) PROVE (first \o z)[i] = b[i]
    <3>1. CASE i <= n
      <4>1. i \in 1 .. n /\ i \in 1 .. Len(first) + Len(z) /\ i <= Len(first)
        BY <1>2, <1>5, <2>2, <3>1
      <4> QED
        BY <1>5, <2>1, <4>1
    <3>2. CASE ~(i <= n)
      <4>1. i - n \in 1 .. Len(b) - n /\ n + (i - n) = i
        BY <1>2, <3>2
      <4> QED
        BY <1>5, <1>6, <2>1, <2>2, <3>2, <4>1
    <3> QED
      BY <3>1, <3>2
  <2> QED
    BY <1>2, <2>1, <2>2, <2>3, SeqEqual
<1>8. a \in Seq(Nat)
  BY <1>2, <1>5, ConcatProperties
<1>9. a \o z = f[q]
  <2>1. (w \o first) \o z = w \o (first \o z)
    BY <1>2, <1>5, <1>6, BytesAssociative
  <2> QED
    BY <1>4, <1>7, <2>1 DEF UnderWay
<1> HIDE DEF a
<1>10. FeedBytes(a) \in FeedState /\ \E i \in q .. k : FedTo(FeedBytes(a), z, f, s, q, i)
  <2>1. Frames(f, s, q, k) /\ Part(f[k]) /\ q \in 0 .. Len(s)
    BY <1>2, <1>4 DEF UnderWay
  <2> QED
    BY <1>2, <1>4, <1>6, <1>8, <1>9, <2>1, FeedFollows
<1>11. PICK i \in q .. k : FedTo(FeedBytes(a), z, f, s, q, i)
  BY <1>10
<1> DEFINE left == FeedBytes(a).workspace
           new == queue_[fd] \o FeedBytes(a).queue
<1>12. left \in Seq(Nat) /\ left \o z = f[i] /\ new = SubSeq(s, 1, i)
  BY <1>4, <1>10, <1>11 DEF FedTo, FeedState
<1>13. new \in Seq(Packets)
  <2>1. \A j \in 1 .. i : s[j] \in Packets
    BY <1>2, <1>4, ElementOfSeq
  <2>2. SubSeq(s, 1, i) \in Seq(Packets)
    BY <2>1, SubSeqProperties
  <2> QED
    BY <1>12, <2>2
<1>14. /\ buffer' = [buffer EXCEPT ![fd] = z]
       /\ workspace_' = [workspace_ EXCEPT ![fd] = left]
       /\ queue_' = [queue_ EXCEPT ![fd] = new]
  BY <1>1 DEF first, z, a
<1> HIDE DEF left, new
<1>15. /\ buffer' \in [Fd -> Seq(Nat)] /\ workspace_' \in [Fd -> Seq(Nat)]
       /\ queue_' \in [Fd -> Seq(Packets)]
       /\ buffer'[fd] = z /\ workspace_'[fd] = left /\ queue_'[fd] = new
       /\ \A other \in Fd : other # fd => /\ buffer'[other] = buffer[other]
                                          /\ workspace_'[other] = workspace_[other]
                                          /\ queue_'[other] = queue_[other]
  BY <1>0, <1>6, <1>12, <1>13, <1>14 DEF StreamTypes
<1>16. Len(z) < Len(b)
  BY <1>2, <1>6
<1> QED
  BY <1>3, <1>12, <1>15, <1>16 DEF s, q, b, ReadUpTo

LEMMA PeerReadsShape ==
  ASSUME StreamInv, NEW fd \in Fd, PeerReads(fd)
  PROVE  StreamShape'
<1>0. StreamTypes /\ StreamRest /\ PassOrder /\ StreamNumbers /\ StreamFlow
  BY DEF StreamInv
<1>1. PICK k, f : Flows(fd, k, f)
  BY <1>0 DEF StreamFlow
<1>2. /\ fd \in Open /\ fd \notin broken_
      /\ buffer' \in [Fd -> Seq(Nat)] /\ workspace_' \in [Fd -> Seq(Nat)]
      /\ Len(buffer'[fd]) < Len(buffer[fd])
      /\ queue_' \in [Fd -> Seq(Packets)]
      /\ \A other \in Fd : other # fd => /\ buffer'[other] = buffer[other]
                                         /\ workspace_'[other] = workspace_[other]
                                         /\ queue_'[other] = queue_[other]
  BY <1>1, PeerReadsPackets
<1>3. UNCHANGED <<phase, it, events_, out_data_, sockets_, listens_, badfds_, broken_, sent_, sends_>>
  BY DEF PeerReads, loopVars
<1>4. Open' = Open
  BY <1>3 DEF Open
<1>5. \A any \in Fd : Len(buffer'[any]) <= Room
  <2>1. \A any \in Fd : Len(buffer[any]) \in Nat /\ Len(buffer'[any]) \in Nat /\ Room \in Nat
    BY <1>0, <1>2, LenProperties, StreamAssumption DEF StreamTypes
  <2>2. Len(buffer'[fd]) <= Room
    BY <1>0, <1>2, <2>1 DEF StreamTypes
  <2>3. \A other \in Fd : other # fd => Len(buffer'[other]) <= Room
    BY <1>0, <1>2 DEF StreamTypes
  <2> QED
    BY <2>2, <2>3
<1>6. StreamTypes'
  BY <1>0, <1>2, <1>3, <1>4, <1>5 DEF StreamTypes
<1>7. StreamRest'
  <2>1. \A any \in Fd \ Open' : buffer'[any] = <<>> /\ workspace_'[any] = <<>> /\ queue_'[any] = <<>>
    BY <1>0, <1>2, <1>4 DEF StreamRest
  <2>2. \A any \in broken_' : buffer'[any] = <<>>
    BY <1>0, <1>2, <1>3 DEF StreamRest, StreamTypes
  <2> QED
    BY <1>0, <1>3, <1>4, <2>1, <2>2 DEF StreamRest
<1>8. PassOrder' /\ StreamNumbers'
  BY <1>0, <1>3, <1>4 DEF PassOrder, CanWrite, StreamNumbers, Rising, Serial, Number
<1> QED
  BY <1>6, <1>7, <1>8 DEF StreamShape

-----------------------------------------------------------------------------
(* What is under way, per action *)

(* The connections whose own state an action leaves alone. *)
LEMMA FlowOthers ==
  ASSUME StreamFlow, NEW fd \in Fd,
         Mine(fd)' = Mine(fd), sent_[fd]' = sent_[fd], queue_[fd]' = queue_[fd],
         workspace_[fd]' = workspace_[fd], buffer[fd]' = buffer[fd],
         fd \in broken_ <=> fd \in broken_', fd \in listens_ <=> fd \in listens_',
         fd \in Open <=> fd \in Open', fd \in Open => sockets_'[fd] = sockets_[fd]
  PROVE  \E k, f : Flows(fd, k, f)'
<1>1. PICK k, f : Flows(fd, k, f)
  BY DEF StreamFlow
<1>2. /\ CanWrite(fd)' => CanWrite(fd)
      /\ Stuck(fd) => Stuck(fd)'
  BY DEF CanWrite, Stuck
<1>3. Sound(fd)' => Sound(fd)
  BY <1>2 DEF Sound
<1>4. Flows(fd, k, f)'
  BY <1>1, <1>2, <1>3, FlowSame
<1> QED
  BY <1>4

LEMMA FlowUnchanged ==
  ASSUME StreamFlow,
         UNCHANGED <<out_data_, sockets_, listens_, buffer, workspace_, queue_, broken_, sent_>>
  PROVE  StreamFlow'
<1> SUFFICES ASSUME NEW fd \in Fd PROVE \E k, f : Flows(fd, k, f)'
  BY DEF StreamFlow
<1>1. Mine(fd)' = Mine(fd)
  BY DEF Mine
<1>2. Open' = Open
  BY DEF Open
<1> QED
  BY <1>1, <1>2, FlowOthers

LEMMA SenddataFlow ==
  ASSUME StreamInv, NEW fd \in Fd, NEW size \in Size, NEW closefd \in BOOLEAN,
         Senddata(fd, size, closefd)
  PROVE  StreamFlow'
<1> DEFINE p == PacketOf(sends_ + 1, size)
           e == [fd |-> fd, data |-> Framed(p), closefd |-> closefd, packet |-> p]
           s == sent_[fd]
<1>0. StreamTypes /\ StreamNumbers /\ StreamFlow
  BY DEF StreamInv
<1>1. sends_ + 1 \in 1 .. MaxSent /\ sends_ \in Nat /\ MaxSent \in Nat
  BY <1>0, StreamAssumption DEF StreamTypes, Senddata
<1>2. p \in Packets /\ Number[p] = sends_ + 1
  BY <1>1, PacketOfProperties DEF Number
<1>3. /\ e \in Entry /\ e.packet = p /\ e.data = Framed(p) /\ e.fd = fd
  BY <1>2, FramedProperties DEF Entry
<1>4. /\ out_data_' = Append(out_data_, e) /\ sent_' = [sent_ EXCEPT ![fd] = Append(s, p)]
      /\ UNCHANGED <<sockets_, listens_, buffer, workspace_, queue_, broken_>>
  BY DEF Senddata, peerVars
<1> HIDE DEF p, e
<1>5. Mine(fd)' = Mine(fd) \cup {e} /\ \A other : other # fd => Mine(other)' = Mine(other)
  BY <1>0, <1>3, <1>4, MineAppended
<1>6. sent_[fd]' = Append(s, p) /\ \A other \in Fd : other # fd => sent_[other]' = sent_[other]
  BY <1>0, <1>4 DEF StreamTypes
<1> SUFFICES ASSUME NEW any \in Fd PROVE \E k, f : Flows(any, k, f)'
  BY DEF StreamFlow
<1>7. CASE any # fd
  <2>1. Mine(any)' = Mine(any) /\ sent_[any]' = sent_[any] /\ Open' = Open
    BY <1>4, <1>5, <1>6, <1>7 DEF Open
  <2> QED
    BY <1>0, <1>4, <2>1, FlowOthers
<1>8. CASE any = fd
  <2>1. PICK k, f : Flows(fd, k, f)
    BY <1>0 DEF StreamFlow
  <2>2. /\ Mine(fd) \in SUBSET Entry /\ s \in Seq(Packets) /\ queue_[fd] \in Seq(Packets)
        /\ Carried(Mine(fd), s, queue_[fd], k)
    BY <1>0, <2>1, ToSetOfSeq DEF StreamTypes, Mine, Flows
  <2>3. \A d \in Mine(fd) : d.packet # p
    <3>1. \A d \in Mine(fd) : \E i \in 1 .. Len(out_data_) : d = out_data_[i]
      BY <1>0, ToSetOfSeq DEF StreamTypes, Mine
    <3>2. \A d \in Mine(fd) : Serial[d] <= sends_ /\ Serial[d] = Number[d.packet]
      BY <1>0, <2>2, <3>1 DEF StreamNumbers, Serial
    <3>3. \A d \in Mine(fd) : Serial[d] \in Nat
      BY <2>2, SerialType
    <3> QED
      BY <1>1, <1>2, <3>2, <3>3
  <2>4. Carried(Mine(fd)', Append(s, p), queue_[fd], k)
    <3>1. Carried(Mine(fd) \cup {e}, Append(s, e.packet), queue_[fd], k)
      BY <1>3, <2>2, CarriedSend
    <3> QED
      BY <1>3, <1>5, <3>1
  <2>5. /\ Len(queue_[fd]) \in Nat /\ k \in Len(queue_[fd]) .. Len(s)
    BY <2>2, LenProperties DEF Carried
  <2>6. fd \notin broken_ =>
          UnderWay(Append(s, p), Len(queue_[fd]), k, f, workspace_[fd] \o buffer[fd])
    <3> DEFINE bytes == workspace_[fd] \o buffer[fd]
               q == Len(queue_[fd])
    <3> SUFFICES ASSUME fd \notin broken_ PROVE UnderWay(Append(s, p), q, k, f, bytes)
      OBVIOUS
    <3>1. UnderWay(s, q, k, f, bytes)
      BY <2>1 DEF Flows
    <3> HIDE DEF bytes, q, s
    <3> QED
      BY <1>2, <2>2, <2>5, <3>1, UnderWaySend DEF q
  <2>7. Sound(fd) => Waiting(Mine(fd)', Append(s, p), k, f[k])
    <3> SUFFICES ASSUME Sound(fd) PROVE Waiting(Mine(fd)', Append(s, p), k, f[k])
      OBVIOUS
    <3> DEFINE t == f[k]
    <3>1. Waiting(Mine(fd), s, k, t)
      BY <2>1 DEF Flows
    <3> HIDE DEF t, s
    <3>2. Waiting(Mine(fd) \cup {e}, Append(s, e.packet), k, t)
      BY <1>3, <2>2, <2>3, <3>1, WaitingSend
    <3> QED
      BY <1>3, <1>5, <3>2 DEF t
  <2>8. (Sound(fd)' <=> Sound(fd)) /\ (CanWrite(fd)' <=> CanWrite(fd))
    BY <1>4 DEF Sound, Stuck, CanWrite, Open
  <2>9. queue_[fd]' = queue_[fd] /\ workspace_[fd]' = workspace_[fd] /\ buffer[fd]' = buffer[fd]
    BY <1>4
  <2>10. Sound(fd) /\ CanWrite(fd) /\ f[k] # <<>> => Len(buffer[fd]) < Room
    BY <2>1 DEF Flows
  <2> HIDE DEF s
  <2>11. Flows(fd, k, f)'
    BY <1>4, <1>6, <2>4, <2>6, <2>7, <2>8, <2>9, <2>10 DEF Flows
  <2> QED
    BY <1>8, <2>11
<1> QED
  BY <1>7, <1>8

(* A connection to which nothing was sent. *)
LEMMA EmptyFlow ==
  \E f : /\ f[0] = <<>> /\ Carried({}, <<>>, <<>>, 0)
        /\ UnderWay(<<>>, 0, 0, f, <<>>) /\ Waiting({}, <<>>, 0, f[0])
<1> DEFINE f == [i \in 0 .. 0 |-> <<>>]
<1>1. f[0] = <<>> /\ <<>> \in Seq(Nat) /\ <<>> \o <<>> = <<>>
  BY EmptySeq, EmptyConcat
<1>2. Len(<<>>) = 0
  BY EmptySeq
<1> HIDE DEF f
<1>3. Carried({}, <<>>, <<>>, 0)
  <2>1. \A i \in 1 .. 0 : <<>>[i] \in Nat
    OBVIOUS
  <2>2. SubSeq(<<>>, 1, 0) = <<>>
    BY <1>1, <2>1, SubSeqProperties, EmptySeq
  <2> QED
    BY <1>2, <2>2 DEF Carried
<1>4. UnderWay(<<>>, 0, 0, f, <<>>)
  <2>1. \A i \in 0 .. 0 : i = 0
    OBVIOUS
  <2>2. \A i \in 0 + 1 .. 0 : FALSE
    OBVIOUS
  <2>3. Frames(f, <<>>, 0, 0)
    BY <1>1, <2>1, <2>2, Zenon DEF Frames
  <2> QED
    BY <1>1, <2>3, Zenon DEF UnderWay, Part
<1>5. Waiting({}, <<>>, 0, f[0])
  BY <1>1 DEF Waiting
<1> QED
  BY <1>1, <1>3, <1>4, <1>5

LEMMA ClosesocketFlow ==
  ASSUME StreamTypes, StreamFlow, NEW fds, Closesocket(fds)
  PROVE  StreamFlow'
<1>1. /\ listens_' = listens_ \ fds /\ broken_' = broken_ \ fds
      /\ buffer' = [fd \in Fd |-> IF fd \in fds THEN <<>> ELSE buffer[fd]]
      /\ workspace_' = [fd \in Fd |-> IF fd \in fds THEN <<>> ELSE workspace_[fd]]
      /\ queue_' = [fd \in Fd |-> IF fd \in fds THEN <<>> ELSE queue_[fd]]
      /\ sent_' = [fd \in Fd |-> IF fd \in fds THEN <<>> ELSE sent_[fd]]
      /\ out_data_' = Selected(out_data_, {i \in DOMAIN out_data_ : out_data_[i].fd \notin fds})
  BY DEF Closesocket, Dropped
<1>2. /\ \A fd \in fds : Mine(fd)' = {}
      /\ \A fd : fd \notin fds => Mine(fd)' = Mine(fd)
  BY <1>1, MineSelected
<1>3. Open' = Open \ fds /\ \A fd \in Open' : sockets_'[fd] = sockets_[fd]
  BY ClosesocketOpen
<1> SUFFICES ASSUME NEW fd \in Fd PROVE \E k, f : Flows(fd, k, f)'
  BY DEF StreamFlow
<1>4. CASE fd \notin fds
  <2>1. /\ Mine(fd)' = Mine(fd) /\ sent_[fd]' = sent_[fd] /\ queue_[fd]' = queue_[fd]
        /\ workspace_[fd]' = workspace_[fd] /\ buffer[fd]' = buffer[fd]
    BY <1>1, <1>2, <1>4
  <2>2. /\ fd \in broken_ <=> fd \in broken_'
        /\ fd \in listens_ <=> fd \in listens_'
        /\ fd \in Open <=> fd \in Open'
    BY <1>1, <1>3, <1>4
  <2>3. fd \in Open => sockets_'[fd] = sockets_[fd]
    BY <1>3, <1>4
  <2> QED
    BY <2>1, <2>2, <2>3, FlowOthers
<1>5. CASE fd \in fds
  <2>1. /\ Mine(fd)' = {} /\ sent_[fd]' = <<>> /\ queue_[fd]' = <<>>
        /\ workspace_[fd]' = <<>> /\ buffer[fd]' = <<>>
    BY <1>1, <1>2, <1>5
  <2>2. <<>> \o <<>> = <<>> /\ Len(<<>>) = 0
    BY EmptySeq, EmptyConcat
  <2>3. PICK f : /\ f[0] = <<>> /\ Carried({}, <<>>, <<>>, 0)
                 /\ UnderWay(<<>>, 0, 0, f, <<>>) /\ Waiting({}, <<>>, 0, f[0])
    BY EmptyFlow
  <2>4. Flows(fd, 0, f)'
    BY <2>1, <2>2, <2>3, Zenon DEF Flows
  <2> QED
    BY <2>4
<1> QED
  BY <1>4, <1>5

LEMMA OutEventFlow ==
  ASSUME StreamInv, NEW fd \in Fd, OutEvent(fd)
  PROVE  StreamFlow'
<1>0. StreamTypes /\ StreamFlow
  BY DEF StreamInv
<1>1. /\ listens_' = listens_ \ {fd} /\ sockets_' = [sockets_ EXCEPT ![fd] = TRUE]
      /\ fd \in listens_ \ broken_ /\ Len(buffer[fd]) < Room
      /\ UNCHANGED <<out_data_, buffer, workspace_, queue_, broken_, sent_>>
  BY DEF OutEvent, MakeWritable, Ready, peerVars
<1>2. Open' = Open /\ \A other \in Open : other # fd => sockets_'[other] = sockets_[other]
  <2> DEFINE S == Open
  <2>1. sockets_ \in [S -> BOOLEAN]
    BY <1>0 DEF StreamTypes
  <2> HIDE DEF S
  <2>2. DOMAIN sockets_' = S /\ \A other \in S : other # fd => sockets_'[other] = sockets_[other]
    BY <1>1, <2>1
  <2> QED
    BY <2>2 DEF S, Open
<1> SUFFICES ASSUME NEW any \in Fd PROVE \E k, f : Flows(any, k, f)'
  BY DEF StreamFlow
<1>3. Mine(any)' = Mine(any)
  BY <1>1 DEF Mine
<1>4. CASE any # fd
  <2>1. any \in listens_ <=> any \in listens_'
    BY <1>1, <1>4
  <2>2. any \in Open => sockets_'[any] = sockets_[any]
    BY <1>2, <1>4
  <2> QED
    BY <1>0, <1>1, <1>2, <1>3, <2>1, <2>2, FlowOthers
<1>5. CASE any = fd
  <2>1. PICK k, f : Flows(fd, k, f)
    BY <1>0 DEF StreamFlow
  <2>2. Sound(fd)
    BY <1>1 DEF Sound, Stuck
  <2>3. /\ Mine(fd)' = Mine(fd) /\ sent_[fd]' = sent_[fd] /\ queue_[fd]' = queue_[fd]
        /\ workspace_[fd]' = workspace_[fd] /\ buffer[fd]' = buffer[fd]
    BY <1>1, <1>3, <1>5
  <2>4. Flows(fd, k, f)'
    BY <1>1, <2>1, <2>2, <2>3 DEF Flows
  <2> QED
    BY <1>5, <2>4
<1> QED
  BY <1>4, <1>5

LEMMA PeerResetsFlow ==
  ASSUME StreamInv, NEW fd \in Fd, PeerResets(fd)
  PROVE  StreamFlow'
<1>0. StreamTypes /\ StreamFlow
  BY DEF StreamInv
<1>1. /\ broken_' = broken_ \cup {fd} /\ buffer' = [buffer EXCEPT ![fd] = <<>>]
      /\ UNCHANGED <<out_data_, sockets_, listens_, workspace_, queue_, sent_>>
  BY DEF PeerResets
<1> SUFFICES ASSUME NEW any \in Fd PROVE \E k, f : Flows(any, k, f)'
  BY DEF StreamFlow
<1>2. Mine(any)' = Mine(any) /\ Open' = Open
  BY <1>1 DEF Mine, Open
<1>3. CASE any # fd
  <2>1. any \in broken_ <=> any \in broken_'
    BY <1>1, <1>3
  <2>2. buffer[any]' = buffer[any]
    BY <1>0, <1>1, <1>3 DEF StreamTypes
  <2> QED
    BY <1>0, <1>1, <1>2, <2>1, <2>2, FlowOthers
<1>4. CASE any = fd
  <2>1. PICK k, f : Flows(fd, k, f)
    BY <1>0 DEF StreamFlow
  <2>2. /\ Mine(fd)' = Mine(fd) /\ sent_[fd]' = sent_[fd] /\ queue_[fd]' = queue_[fd]
        /\ fd \in broken_' /\ ~Sound(fd)'
    BY <1>1, <1>2, <1>4 DEF Sound
  <2>3. Flows(fd, k, f)'
    BY <2>1, <2>2 DEF Flows
  <2> QED
    BY <1>4, <2>3
<1> QED
  BY <1>3, <1>4

LEMMA PeerReadsFlow ==
  ASSUME StreamInv, NEW fd \in Fd, PeerReads(fd)
  PROVE  StreamFlow'
<1>0. StreamTypes /\ StreamFlow
  BY DEF StreamInv
<1>1. PICK k, f : Flows(fd, k, f)
  BY <1>0 DEF StreamFlow
<1>2. /\ fd \in Open /\ fd \notin broken_
      /\ buffer' \in [Fd -> Seq(Nat)] /\ workspace_' \in [Fd -> Seq(Nat)]
      /\ Len(buffer'[fd]) < Len(buffer[fd])
      /\ queue_' \in [Fd -> Seq(Packets)]
      /\ \A other \in Fd : other # fd => /\ buffer'[other] = buffer[other]
                                         /\ workspace_'[other] = workspace_[other]
                                         /\ queue_'[other] = queue_[other]
      /\ ReadUpTo(fd, k, f)
  BY <1>1, PeerReadsPackets
<1>3. UNCHANGED <<out_data_, sockets_, listens_, broken_, sent_>>
  BY DEF PeerReads
<1> SUFFICES ASSUME NEW any \in Fd PROVE \E kk, ff : Flows(any, kk, ff)'
  BY DEF StreamFlow
<1>4. Mine(any)' = Mine(any) /\ Open' = Open
  BY <1>3 DEF Mine, Open
<1>5. CASE any # fd
  <2>1. buffer[any]' = buffer[any] /\ workspace_[any]' = workspace_[any] /\ queue_[any]' = queue_[any]
    BY <1>2, <1>5
  <2> QED
    BY <1>0, <1>3, <1>4, <2>1, FlowOthers
<1>6. CASE any = fd
  <2>1. PICK i \in Len(queue_[fd]) .. k : /\ queue_'[fd] = SubSeq(sent_[fd], 1, i)
                                         /\ workspace_'[fd] \o buffer'[fd] = f[i]
    BY <1>2 DEF ReadUpTo
  <2>2. /\ sent_[fd] \in Seq(Packets) /\ queue_[fd] \in Seq(Packets)
        /\ Carried(Mine(fd), sent_[fd], queue_[fd], k)
    BY <1>0, <1>1 DEF StreamTypes, Flows
  <2>3. /\ Len(queue_'[fd]) = i /\ Carried(Mine(fd), sent_[fd], queue_'[fd], k)
    BY <2>1, <2>2, CarriedReceive
  <2>4. UnderWay(sent_[fd], i, k, f, f[i])
    <3> DEFINE bytes == workspace_[fd] \o buffer[fd]
               q == Len(queue_[fd])
    <3>1. UnderWay(sent_[fd], q, k, f, bytes)
      BY <1>1, <1>2 DEF Flows
    <3>2. q \in Nat /\ k \in q .. Len(sent_[fd]) /\ i \in q .. k
      BY <2>1, <2>2, LenProperties DEF Carried
    <3> HIDE DEF bytes, q
    <3> QED
      BY <2>2, <3>1, <3>2, UnderWayReceive
  <2>5. /\ Mine(fd)' = Mine(fd) /\ sent_[fd]' = sent_[fd]
        /\ (Sound(fd)' <=> Sound(fd)) /\ (CanWrite(fd)' <=> CanWrite(fd))
    BY <1>3, <1>4, <1>6 DEF Sound, Stuck, CanWrite
  <2>6. Sound(fd)' => Waiting(Mine(fd)', sent_[fd]', k, f[k])
    BY <1>1, <2>5 DEF Flows
  <2>7. Sound(fd)' /\ CanWrite(fd)' /\ f[k] # <<>> => Len(buffer'[fd]) < Room
    <3>1. Sound(fd) /\ CanWrite(fd) /\ f[k] # <<>> => Len(buffer[fd]) < Room
      BY <1>1 DEF Flows
    <3>2. Len(buffer[fd]) \in Nat /\ Len(buffer'[fd]) \in Nat /\ Room \in Nat
      BY <1>0, <1>2, LenProperties, StreamAssumption DEF StreamTypes
    <3> QED
      BY <1>2, <2>5, <3>1, <3>2
  <2>8. Carried(Mine(fd)', sent_[fd]', queue_[fd]', k)
    BY <2>3, <2>5
  <2>9. UnderWay(sent_[fd]', Len(queue_[fd]'), k, f, workspace_[fd]' \o buffer[fd]')
    BY <2>1, <2>3, <2>4, <2>5
  <2>10. Flows(fd, k, f)'
    BY <2>6, <2>7, <2>8, <2>9 DEF Flows
  <2> QED
    BY <1>6, <2>10
<1> QED
  BY <1>5, <1>6


(* A new connection, for an fd for which packets may wait already. *)
LEMMA AcceptFlow ==
  ASSUME StreamInv, NEW fd \in Fd, Accept(fd)
  PROVE  StreamFlow'
<1>0. StreamTypes /\ StreamRest /\ StreamFlow
  BY DEF StreamInv
<1>1. /\ fd \notin Open
      /\ sockets_' = [any \in Open \cup {fd} |-> IF any = fd THEN TRUE ELSE sockets_[any]]
      /\ UNCHANGED <<out_data_, listens_, buffer, workspace_, queue_, broken_, sent_>>
  BY DEF Accept, Given, peerVars
<1>2. /\ Open' = Open \cup {fd} /\ sockets_'[fd]
      /\ \A other \in Open : sockets_'[other] = sockets_[other]
  <2> DEFINE S == Open
  <2>1. sockets_' = [any \in S \cup {fd} |-> IF any = fd THEN TRUE ELSE sockets_[any]] /\ fd \notin S
    BY <1>1
  <2> HIDE DEF S
  <2>2. /\ DOMAIN sockets_' = S \cup {fd} /\ sockets_'[fd]
        /\ \A other \in S : sockets_'[other] = sockets_[other]
    BY <2>1
  <2>3. Open' = S \cup {fd}
    BY <2>2 DEF Open
  <2> QED
    BY <2>2, <2>3 DEF S
<1>3. \A any : Mine(any)' = Mine(any)
  BY <1>1 DEF Mine
<1> SUFFICES ASSUME NEW any \in Fd PROVE \E k, f : Flows(any, k, f)'
  BY DEF StreamFlow
<1>4. CASE any # fd
  <2>1. any \in Open <=> any \in Open'
    BY <1>2, <1>4
  <2>2. any \in Open => sockets_'[any] = sockets_[any]
    BY <1>2
  <2> QED
    BY <1>0, <1>1, <1>3, <2>1, <2>2, FlowOthers
<1>5. CASE any = fd
  <2> DEFINE s == sent_[fd]
  <2>1. PICK k, f : Flows(fd, k, f)
    BY <1>0 DEF StreamFlow
  <2>2. /\ fd \notin broken_ /\ Sound(fd)
        /\ workspace_[fd] = <<>> /\ buffer[fd] = <<>> /\ queue_[fd] = <<>>
    BY <1>0, <1>1 DEF StreamTypes, StreamRest, Sound, Stuck
  <2>3. workspace_[fd] \o buffer[fd] = <<>>
    BY <2>2, EmptySeq, EmptyConcat
  <2>4. Len(queue_[fd]) = 0
    BY <2>2
  <2>5. UnderWay(s, 0, k, f, <<>>)
    BY <2>1, <2>2, <2>3, <2>4 DEF Flows
  <2>6. s \in Seq(Packets) /\ Len(s) \in Nat /\ k \in 0 .. Len(s)
    BY <1>0, <2>1, <2>4, LenProperties DEF StreamTypes, Flows, Carried
  <2> HIDE DEF s
  <2>7. f[k] = <<>>
    <3>1. f[0] = <<>> /\ Frames(f, s, 0, k)
      BY <2>5 DEF UnderWay
    <3>2. CASE k = 0
      BY <3>1, <3>2
    <3>3. CASE k # 0
      <4>1. 1 \in 1 .. Len(s) /\ 1 \in 0 + 1 .. k /\ 1 \in 0 .. k /\ 1 - 1 = 0
        BY <2>6, <3>3
      <4>2. s[1] \in Packets
        BY <2>6, <4>1, ElementOfSeq
      <4>3. f[1 - 1] = Framed(s[1]) \o f[1] /\ f[1] \in Seq(Nat)
        BY <3>1, <4>1 DEF Frames
      <4>4. Framed(s[1]) \in Seq(Nat) /\ Len(Framed(s[1])) = Len(s[1]) + 2 /\ Len(s[1]) \in Nat
        <5> DEFINE p == s[1]
        <5>1. p \in Packets
          BY <4>2
        <5> HIDE DEF p
        <5>2. Framed(p) \in Seq(Nat) /\ Len(Framed(p)) = Len(p) + 2 /\ Len(p) \in 1 .. 255
          BY <5>1, FramedProperties, PacketProperties
        <5>3. Len(p) \in Nat
          BY <5>2
        <5> QED
          BY <5>2, <5>3 DEF p
      <4>5. Len(Framed(s[1]) \o f[1]) = Len(Framed(s[1])) + Len(f[1]) /\ Len(f[1]) \in Nat
        BY <4>3, <4>4, BytesConcat
      <4>6. Len(Framed(s[1]) \o f[1]) # 0
        <5> DEFINE a == Len(Framed(s[1]))
                   b == Len(f[1])
        <5>1. a \in Nat \ {0} /\ b \in Nat
          BY <4>4, <4>5
        <5> HIDE DEF a, b
        <5>2. a + b # 0
          BY <5>1
        <5> QED
          BY <4>5, <5>2 DEF a, b
      <4>7. Framed(s[1]) \o f[1] = <<>>
        BY <3>1, <4>1, <4>3
      <4> QED
        BY <4>6, <4>7
    <3> QED
      BY <3>2, <3>3
  <2>8. Waiting(Mine(fd), s, k, f[k]) /\ Carried(Mine(fd), s, queue_[fd], k)
    BY <2>1, <2>2 DEF Flows, s
  <2>9. Flows(fd, k, f)'
    BY <1>1, <1>3, <2>3, <2>4, <2>5, <2>7, <2>8 DEF Flows, s
  <2> QED
    BY <1>5, <2>9
<1> QED
  BY <1>4, <1>5


-----------------------------------------------------------------------------
(* What the write pass knows of the connection that it writes to. *)
LEMMA AtFlow ==
  ASSUME StreamInv, AtPacket, Writable, NEW fd, fd = This.fd, NEW k, NEW f, Flows(fd, k, f)
  PROVE  /\ fd \in Fd /\ fd \in Open /\ This \in Entry
         /\ Mine(fd) \in SUBSET Entry /\ sent_[fd] \in Seq(Packets) /\ queue_[fd] \in Seq(Packets)
         /\ Rising(sent_[fd], Number)
         /\ FirstWaiting(Mine(fd), sent_[fd], k, This)
         /\ Carried(Mine(fd), sent_[fd], queue_[fd], k)
         /\ Len(queue_[fd]) \in Nat /\ k \in Nat /\ k \in Len(queue_[fd]) .. Len(sent_[fd])
         /\ k + 1 \in 1 .. Len(sent_[fd]) /\ k # Len(sent_[fd])
         /\ This.packet = sent_[fd][k + 1] /\ This.packet \in Packets
         /\ fd \notin broken_ =>
              /\ UnderWay(sent_[fd], Len(queue_[fd]), k, f, workspace_[fd] \o buffer[fd])
              /\ Waiting(Mine(fd), sent_[fd], k, f[k])
              /\ f[k] \o This.data = Framed(This.packet)
              /\ f[k] \in Seq(Nat)
              /\ f[k] # <<>> => Len(buffer[fd]) < Room
<1> DEFINE s == sent_[fd]
           q == Len(queue_[fd])
<1>0. StreamTypes /\ StreamNumbers
  BY DEF StreamInv
<1>1. fd \in Fd /\ fd \in Open /\ This \in Entry /\ This.packet \in Packets /\ CanWrite(fd)
  BY <1>0, AtEntry DEF Writable, CanWrite
<1>2. /\ s \in Seq(Packets) /\ queue_[fd] \in Seq(Packets) /\ Rising(s, Number)
      /\ q \in Nat /\ Len(s) \in Nat
  BY <1>0, <1>1, LenProperties DEF StreamTypes, StreamNumbers
<1>3. Mine(fd) \in SUBSET Entry
  BY <1>0, ToSetOfSeq DEF StreamTypes, Mine
<1>4. FirstWaiting(Mine(fd), s, k, This)
  BY AtFront
<1>5. Carried(Mine(fd), s, queue_[fd], k) /\ k \in q .. Len(s)
  BY DEF Flows, Carried
<1>6. k + 1 \in 1 .. Len(s) /\ This.packet = s[k + 1] /\ This \in Mine(fd)
  BY <1>4 DEF FirstWaiting
<1>7. k \in Nat /\ k # Len(s)
  BY <1>2, <1>5, <1>6
<1>8. ASSUME fd \notin broken_
      PROVE  /\ UnderWay(s, q, k, f, workspace_[fd] \o buffer[fd])
             /\ Waiting(Mine(fd), s, k, f[k])
             /\ f[k] # <<>> => Len(buffer[fd]) < Room
  <2>1. Sound(fd)
    BY <1>1, <1>8 DEF Sound, Stuck, CanWrite
  <2> QED
    BY <1>1, <1>8, <2>1 DEF Flows
<1> HIDE DEF s, q
<1>9. ASSUME fd \notin broken_
      PROVE  f[k] \o This.data = Framed(This.packet) /\ f[k] \in Seq(Nat)
  <2>1. f[k] \o This.data = Framed(This.packet)
    BY <1>6, <1>8, <1>9 DEF Waiting
  <2>2. Frames(f, s, q, k)
    BY <1>8, <1>9 DEF UnderWay
  <2>3. f[k] \in Seq(Nat)
    BY <1>2, <1>5, <2>2, FramesEnds
  <2> QED
    BY <2>1, <2>3
<1> QED
  BY <1>1, <1>2, <1>3, <1>4, <1>5, <1>6, <1>7, <1>8, <1>9 DEF s, q

LEMMA WholeData ==
  ASSUME StreamTypes, AtPacket, Taken = Len(This.data)
  PROVE  SubSeq(This.data, 1, Taken) = This.data
<1> DEFINE a == This.data
           n == Len(a)
           first == SubSeq(a, 1, n)
<1>1. a \in Seq(Nat) /\ n \in Nat
  BY AtEntry
<1>2. n = Len(a) /\ first = SubSeq(a, 1, n)
  OBVIOUS
<1>3. Taken = n
  OBVIOUS
<1> HIDE DEF a, n, first
<1>4. /\ first \in Seq(Nat) /\ Len(first) = n - 1 + 1
      /\ \A i \in 1 .. n - 1 + 1 : first[i] = a[1 - 1 + i]
  BY <1>1, <1>2, BytesCut
<1>5. Len(first) = Len(a) /\ \A i \in 1 .. Len(a) : first[i] = a[i]
  BY <1>1, <1>2, <1>4
<1>6. first = a
  BY <1>1, <1>4, <1>5, SeqEqual
<1> QED
  BY <1>2, <1>3, <1>6 DEF a

(* A write leaves the other connections alone. *)
WritesOnly(fd) ==
  /\ \A any : any # fd => Mine(any)' = Mine(any)
  /\ \A any \in Fd : any # fd => sent_[any]' = sent_[any] /\ buffer[any]' = buffer[any]
  /\ UNCHANGED <<workspace_, queue_, broken_>>
  /\ Open' = Open
  /\ \A any : any # fd => (any \in listens_ <=> any \in listens_')
  /\ \A any \in Open : any # fd => sockets_'[any] = sockets_[any]

LEMMA WriteFlow ==
  ASSUME StreamInv, NEW fd, WritesOnly(fd), NEW k, NEW f, Flows(fd, k, f)'
  PROVE  StreamFlow'
<1> SUFFICES ASSUME NEW any \in Fd PROVE \E kk, ff : Flows(any, kk, ff)'
  BY DEF StreamFlow
<1>1. CASE any = fd
  BY <1>1
<1>2. CASE any # fd
  <2>1. StreamFlow
    BY DEF StreamInv
  <2>2. /\ Mine(any)' = Mine(any) /\ sent_[any]' = sent_[any] /\ buffer[any]' = buffer[any]
        /\ workspace_[any]' = workspace_[any] /\ queue_[any]' = queue_[any]
        /\ any \in broken_ <=> any \in broken_'
        /\ any \in Open <=> any \in Open'
        /\ any \in listens_ <=> any \in listens_'
        /\ any \in Open => sockets_'[any] = sockets_[any]
    BY <1>2 DEF WritesOnly
  <2> QED
    BY <2>1, <2>2, FlowOthers
<1> QED
  BY <1>1, <1>2


LEMMA WriteWholeFlow ==
  ASSUME StreamInv, WriteWhole
  PROVE  StreamFlow'
<1> SUFFICES ASSUME NEW fd, fd = This.fd PROVE StreamFlow'
  OBVIOUS
<1> DEFINE s == sent_[fd]
           q == Len(queue_[fd])
           w == workspace_[fd]
           b == buffer[fd]
           x == This.data
<1>0. StreamTypes /\ StreamNumbers /\ StreamFlow
  BY DEF StreamInv
<1>1. /\ AtPacket /\ Writable /\ Taken = Len(This.data) /\ Written
      /\ out_data_' = RemoveAt(out_data_, it)
      /\ UNCHANGED <<sockets_, listens_, workspace_, queue_, broken_, sent_>>
  BY DEF WriteWhole, peerVars
<1>2. fd \in Fd /\ x \in Seq(Nat) /\ Len(x) \in Nat \ {0}
  BY <1>0, <1>1, AtEntry
<1>3. w \in Seq(Nat) /\ b \in Seq(Nat)
  BY <1>0, <1>2 DEF StreamTypes
<1>4. PICK k, f : Flows(fd, k, f)
  BY <1>0, <1>2 DEF StreamFlow
<1>5. fd \notin broken_
  <2>1. fd \in broken_ => Taken = 0
    BY <1>0, <1>1, TakenBytes
  <2> QED
    BY <1>1, <1>2, <2>1
<1>6. /\ Mine(fd) \in SUBSET Entry /\ s \in Seq(Packets) /\ queue_[fd] \in Seq(Packets)
      /\ Rising(s, Number) /\ FirstWaiting(Mine(fd), s, k, This) /\ Carried(Mine(fd), s, queue_[fd], k)
      /\ q \in Nat /\ k \in q .. Len(s) /\ k + 1 \in 1 .. Len(s)
      /\ UnderWay(s, q, k, f, w \o b) /\ Waiting(Mine(fd), s, k, f[k])
      /\ f[k] \o x = Framed(s[k + 1])
  BY <1>1, <1>4, <1>5, AtFlow
<1>7. buffer'[fd] = b \o x /\ \A other \in Fd : other # fd => buffer'[other] = buffer[other]
  BY <1>0, <1>1, WrittenBytes, WholeData
<1>8. Mine(fd)' = Mine(fd) \ {This} /\ \A other : other # fd => Mine(other)' = Mine(other)
  <2>1. \A any : Mine(any)' = Mine(any) \ {This}
    BY <1>0, <1>1, MineRemoved
  <2>2. \A other : other # fd => This \notin Mine(other)
    BY DEF Mine
  <2> QED
    BY <2>1, <2>2
<1>9. Open' = Open
  BY <1>1 DEF Open
<1>10. w \o (b \o x) = (w \o b) \o x
  <2>1. w \in Seq(Nat) /\ b \in Seq(Nat) /\ x \in Seq(Nat)
    BY <1>2, <1>3
  <2> HIDE DEF w, b, x
  <2> QED
    BY <2>1, BytesAssociative
<1>11. WritesOnly(fd)
  BY <1>1, <1>7, <1>8, <1>9 DEF WritesOnly
<1> DEFINE es == Mine(fd)
           got == queue_[fd]
           bytes == w \o b
<1> HIDE DEF s, q, x, es, got, bytes
<1>12. Carried(es \ {This}, s, got, k + 1)
  BY <1>6, CarriedNext DEF es, got
<1>13. Waiting(es \ {This}, s, k + 1, <<>>)
  <2> DEFINE t == f[k]
  <2>1. Waiting(es, s, k, t) /\ es \in SUBSET Entry /\ got \in Seq(Packets) /\ Carried(es, s, got, k)
    BY <1>6 DEF es, got
  <2> HIDE DEF t
  <2> QED
    BY <1>6, <2>1, WaitingNext DEF es
<1>14. PICK g : UnderWay(s, q, k + 1, g, bytes \o x) /\ g[k + 1] = <<>>
  <2>1. x \in Seq(Nat) /\ f[k] \o x = Framed(s[k + 1]) /\ UnderWay(s, q, k, f, bytes)
    BY <1>2, <1>6 DEF bytes, x
  <2> QED
    BY <1>6, <2>1, UnderWayNext
<1>15. /\ sent_[fd]' = s /\ queue_[fd]' = got /\ Len(queue_[fd]') = q /\ Mine(fd)' = es \ {This}
       /\ workspace_[fd]' \o buffer[fd]' = bytes \o x
  BY <1>1, <1>7, <1>8, <1>10 DEF s, q, x, es, got, bytes
<1>16. Flows(fd, k + 1, g)'
  BY <1>12, <1>13, <1>14, <1>15, Zenon DEF Flows
<1> QED
  BY <1>11, <1>16, WriteFlow

LEMMA WritePartialFlow ==
  ASSUME StreamInv, WritePartial
  PROVE  StreamFlow'
<1> SUFFICES ASSUME NEW fd, fd = This.fd PROVE StreamFlow'
  OBVIOUS
<1> DEFINE s == sent_[fd]
           q == Len(queue_[fd])
           w == workspace_[fd]
           b == buffer[fd]
           x == SubSeq(This.data, 1, Taken)
           e == RestOf(This, Taken)
           rest == Rest(This.data, Taken)
<1>0. StreamTypes /\ StreamNumbers /\ StreamFlow
  BY DEF StreamInv
<1>1. /\ AtPacket /\ Writable /\ Taken \in 1 .. Len(This.data) - 1 /\ Written
      /\ sockets_' = [sockets_ EXCEPT ![This.fd] = FALSE]
      /\ listens_' = listens_ \cup {This.fd}
      /\ UNCHANGED <<workspace_, queue_, broken_, sent_>>
  BY DEF WritePartial, peerVars
<1>2. fd \in Fd /\ fd \in Open /\ Len(This.data) \in Nat \ {0} /\ This.data \in Seq(Nat)
  BY <1>0, <1>1, AtEntry DEF Writable
<1>3. w \in Seq(Nat) /\ b \in Seq(Nat)
  BY <1>0, <1>2 DEF StreamTypes
<1>4. PICK k, f : Flows(fd, k, f)
  BY <1>0, <1>2 DEF StreamFlow
<1>5. fd \notin broken_
  <2>1. fd \in broken_ => Taken = 0
    BY <1>0, <1>1, TakenBytes
  <2> QED
    BY <1>1, <1>2, <2>1
<1>6. /\ Mine(fd) \in SUBSET Entry /\ s \in Seq(Packets) /\ queue_[fd] \in Seq(Packets)
      /\ FirstWaiting(Mine(fd), s, k, This) /\ Carried(Mine(fd), s, queue_[fd], k)
      /\ q \in Nat /\ k \in q .. Len(s) /\ k # Len(s)
      /\ UnderWay(s, q, k, f, w \o b) /\ Waiting(Mine(fd), s, k, f[k])
      /\ f[k] \o This.data = Framed(This.packet) /\ f[k] \in Seq(Nat) /\ This.packet \in Packets
  BY <1>1, <1>4, <1>5, AtFlow
<1>7. /\ buffer'[fd] = b \o x /\ x \in Seq(Nat)
      /\ \A other \in Fd : other # fd => buffer'[other] = buffer[other]
  BY <1>0, <1>1, WrittenBytes
<1>8. /\ e \in Entry /\ e.fd = fd /\ e.packet = This.packet /\ e.data = rest
      /\ rest \in Seq(Nat) /\ Len(rest) = Len(This.data) - Taken /\ x \o rest = This.data
  BY <1>0, <1>1, RestOfThis, PartOfData
<1>9. rest # <<>>
  <2>1. Len(This.data) - Taken # 0
    BY <1>1, <1>2
  <2>2. Len(rest) # 0
    BY <1>8, <2>1
  <2> HIDE DEF rest
  <2> QED
    BY <2>2
<1>10. out_data_' = [out_data_ EXCEPT ![it] = e]
  BY <1>0, WritePartialList
<1> HIDE DEF e
<1>11. /\ Mine(fd)' = (Mine(fd) \ {This}) \cup {e}
       /\ \A other : other # fd => Mine(other)' = Mine(other)
  BY <1>0, <1>1, <1>8, <1>10, MineReplaced
<1>12. /\ Open' = Open /\ ~sockets_'[fd]
       /\ \A other \in Open : other # fd => sockets_'[other] = sockets_[other]
  BY <1>0, <1>1, <1>2, SocketFull
<1>13. w \o (b \o x) = (w \o b) \o x
  <2>1. w \in Seq(Nat) /\ b \in Seq(Nat) /\ x \in Seq(Nat)
    BY <1>3, <1>7
  <2> HIDE DEF w, b, x
  <2> QED
    BY <2>1, BytesAssociative
<1>14. WritesOnly(fd)
  BY <1>1, <1>7, <1>11, <1>12 DEF WritesOnly
<1> DEFINE es == Mine(fd)
           got == queue_[fd]
           bytes == w \o b
           t == f[k]
           more == t \o x
           g == [i \in q .. k |-> f[i] \o x]
<1>15. more \o rest = Framed(This.packet)
  <2>1. (t \o x) \o rest = t \o (x \o rest)
    <3>1. t \in Seq(Nat) /\ x \in Seq(Nat) /\ rest \in Seq(Nat)
      BY <1>6, <1>7, <1>8
    <3> HIDE DEF t, x, rest
    <3> QED
      BY <3>1, BytesAssociative
  <2> QED
    BY <1>6, <1>8, <2>1
<1> HIDE DEF s, q, x, es, got, bytes, rest, t, more
<1>16. g[k] = more
  <2>1. k \in q .. k
    BY <1>6
  <2> QED
    BY <2>1 DEF more, t
<1> HIDE DEF g
<1>17. Carried((es \ {This}) \cup {e}, s, got, k)
  <2>1. Carried(es, s, got, k) /\ This \in es /\ e.packet = This.packet
    BY <1>6, <1>8 DEF es, got, FirstWaiting
  <2> QED
    BY <2>1, CarriedPart
<1>18. Waiting((es \ {This}) \cup {e}, s, k, more)
  <2>1. Waiting(es, s, k, t) /\ FirstWaiting(es, s, k, This) /\ k # Len(s) /\ e.packet = This.packet
    BY <1>6, <1>8 DEF es, t
  <2>2. more \o e.data = Framed(This.packet)
    BY <1>8, <1>15
  <2> QED
    BY <2>1, <2>2, WaitingPart
<1>19. PICK h : UnderWay(s, q, k, h, bytes \o x) /\ h[k] = more
  <2>1. UnderWay(s, q, k, f, bytes) /\ rest \in Seq(Nat)
    BY <1>6, <1>8 DEF bytes
  <2>2. Part(f[k] \o x)
    <3>1. This.packet \in Packets /\ rest \in Seq(Nat) /\ rest # <<>>
      BY <1>6, <1>9, <2>1
    <3>2. Part(more)
      BY <1>15, <3>1 DEF Part
    <3> QED
      BY <3>2 DEF more, t
  <2>3. UnderWay(s, q, k, [i \in q .. k |-> f[i] \o x], bytes \o x)
    BY <1>6, <1>7, <2>1, <2>2, UnderWayPart, Zenon
  <2> QED
    BY <1>16, <2>3 DEF g
<1>20. /\ sent_[fd]' = s /\ queue_[fd]' = got /\ Len(queue_[fd]') = q
       /\ Mine(fd)' = (es \ {This}) \cup {e}
       /\ workspace_[fd]' \o buffer[fd]' = bytes \o x
  BY <1>1, <1>7, <1>11, <1>13 DEF s, q, x, es, got, bytes
<1>21. ~CanWrite(fd)'
  BY <1>12 DEF CanWrite
<1>22. Flows(fd, k, h)'
  <2>1. Waiting((es \ {This}) \cup {e}, s, k, h[k])
    BY <1>18, <1>19
  <2>2. /\ Carried(Mine(fd)', sent_[fd]', queue_[fd]', k)
        /\ UnderWay(sent_[fd]', Len(queue_[fd]'), k, h, workspace_[fd]' \o buffer[fd]')
        /\ Waiting(Mine(fd)', sent_[fd]', k, h[k])
    BY <1>17, <1>19, <1>20, <2>1
  <2> QED
    BY <1>21, <2>2 DEF Flows
<1> QED
  BY <1>14, <1>22, WriteFlow


LEMMA WriteFailsFlow ==
  ASSUME StreamInv, WriteFails
  PROVE  StreamFlow'
<1> SUFFICES ASSUME NEW fd, fd = This.fd PROVE StreamFlow'
  OBVIOUS
<1> DEFINE s == sent_[fd]
           q == Len(queue_[fd])
           bytes == workspace_[fd] \o buffer[fd]
           es == Mine(fd)
           got == queue_[fd]
<1>0. StreamTypes /\ StreamNumbers /\ StreamFlow
  BY DEF StreamInv
<1>1. /\ AtPacket /\ Writable /\ Taken = 0 /\ GivenUp
      /\ out_data_' = RemoveAt(out_data_, it)
      /\ UNCHANGED <<sockets_, listens_, buffer, workspace_, queue_, broken_>>
  BY DEF WriteFails, GivenUp, peerVars
<1>2. fd \in Fd /\ Len(This.data) \in Nat \ {0}
  BY <1>0, <1>1, AtEntry
<1>3. PICK k, f : Flows(fd, k, f)
  BY <1>0, <1>2 DEF StreamFlow
<1>4. /\ es \in SUBSET Entry /\ s \in Seq(Packets) /\ got \in Seq(Packets)
      /\ Rising(s, Number) /\ FirstWaiting(es, s, k, This) /\ Carried(es, s, got, k)
      /\ q \in Nat /\ k \in q .. Len(s) /\ k + 1 \in 1 .. Len(s)
      /\ fd \notin broken_ => /\ UnderWay(s, q, k, f, bytes) /\ Waiting(es, s, k, f[k])
                              /\ f[k] # <<>> => Len(buffer[fd]) < Room
  BY <1>1, <1>3, AtFlow
<1> DEFINE new == RemoveAt(s, k + 1)
<1>5. sent_' = [sent_ EXCEPT ![fd] = new] /\ sent_ \in [Fd -> Seq(Packets)]
  BY <1>0, <1>1, <1>3, GivenUpSent DEF StreamTypes
<1>6. /\ Mine(fd)' = es \ {This}
      /\ \A other : other # fd => Mine(other)' = Mine(other)
  <2>1. \A any : Mine(any)' = Mine(any) \ {This}
    BY <1>0, <1>1, MineRemoved
  <2>2. \A other : other # fd => This \notin Mine(other)
    BY DEF Mine
  <2> QED
    BY <2>1, <2>2
<1>7. fd \notin broken_ => f[k] = <<>>
  <2>1. fd \notin broken_ /\ Taken < Len(This.data) => Taken = Room - Len(buffer[fd])
    BY <1>0, <1>1, TakenBytes
  <2>2. Len(buffer[fd]) \in Nat /\ Room \in Nat
    BY <1>0, <1>2, LenProperties, StreamAssumption DEF StreamTypes
  <2>3. fd \notin broken_ => ~(Len(buffer[fd]) < Room)
    BY <1>1, <1>2, <2>1, <2>2
  <2> QED
    BY <1>4, <2>3
<1> HIDE DEF new
<1>8. sent_'[fd] = new /\ \A other \in Fd : other # fd => sent_'[other] = sent_[other]
  BY <1>2, <1>5
<1>9. Open' = Open
  BY <1>1 DEF Open
<1>10. WritesOnly(fd)
  BY <1>1, <1>6, <1>8, <1>9 DEF WritesOnly
<1>11. /\ sent_[fd]' = new /\ queue_[fd]' = got /\ Len(queue_[fd]') = q /\ Mine(fd)' = es \ {This}
       /\ workspace_[fd]' \o buffer[fd]' = bytes
       /\ Sound(fd)' => fd \notin broken_
       /\ fd \in broken_ <=> fd \in broken_'
  BY <1>1, <1>6, <1>8 DEF Sound
<1> HIDE DEF s, q, es, got, bytes
<1>12. Carried(es \ {This}, new, got, k)
  BY <1>4, CarriedLose DEF new
<1>13. fd \notin broken_ => UnderWay(new, q, k, f, bytes)
  BY <1>4, UnderWayLose DEF new
<1>14. fd \notin broken_ => Waiting(es \ {This}, new, k, f[k])
  <2> SUFFICES ASSUME fd \notin broken_ PROVE Waiting(es \ {This}, new, k, f[k])
    OBVIOUS
  <2>1. Waiting(es, s, k, <<>>) /\ f[k] = <<>>
    BY <1>4, <1>7
  <2>2. Waiting(es \ {This}, new, k, <<>>)
    BY <1>4, <2>1, WaitingLose
  <2> QED
    BY <2>1, <2>2
<1>15. /\ Carried(Mine(fd)', sent_[fd]', queue_[fd]', k)
       /\ fd \notin broken_' =>
            UnderWay(sent_[fd]', Len(queue_[fd]'), k, f, workspace_[fd]' \o buffer[fd]')
       /\ Sound(fd)' => Waiting(Mine(fd)', sent_[fd]', k, f[k]) /\ f[k] = <<>>
  BY <1>7, <1>11, <1>12, <1>13, <1>14
<1>16. Flows(fd, k, f)'
  BY <1>15 DEF Flows
<1> QED
  BY <1>10, <1>16, WriteFlow

LEMMA WriteStuckFlow ==
  ASSUME StreamInv, WriteStuck
  PROVE  StreamFlow'
<1> SUFFICES ASSUME NEW fd, fd = This.fd PROVE StreamFlow'
  OBVIOUS
<1> DEFINE s == sent_[fd]
           q == Len(queue_[fd])
           w == workspace_[fd]
           b == buffer[fd]
           es == Mine(fd)
           got == queue_[fd]
           x == SubSeq(This.data, 1, Taken)
           rest == Rest(This.data, Taken)
           bytes == w \o b
<1>0. StreamTypes /\ StreamRest /\ StreamNumbers /\ StreamFlow
  BY DEF StreamInv
<1>1. /\ AtPacket /\ Writable /\ Taken \in 1 .. Len(This.data) - 1 /\ Written /\ GivenUp
      /\ sockets_' = [sockets_ EXCEPT ![This.fd] = FALSE]
      /\ out_data_' = RemoveAt(out_data_, it)
      /\ UNCHANGED <<listens_, workspace_, queue_, broken_>>
  BY DEF WriteStuck, GivenUp, peerVars
<1>2. fd \in Fd /\ fd \in Open /\ Len(This.data) \in Nat \ {0} /\ This.data \in Seq(Nat)
  BY <1>0, <1>1, AtEntry DEF Writable
<1>3. w \in Seq(Nat) /\ b \in Seq(Nat)
  BY <1>0, <1>2 DEF StreamTypes
<1>4. PICK k, f : Flows(fd, k, f)
  BY <1>0, <1>2 DEF StreamFlow
<1>5. fd \notin broken_
  <2>1. fd \in broken_ => Taken = 0
    BY <1>0, <1>1, TakenBytes
  <2> QED
    BY <1>1, <1>2, <2>1
<1>6. /\ es \in SUBSET Entry /\ s \in Seq(Packets) /\ got \in Seq(Packets)
      /\ Rising(s, Number) /\ FirstWaiting(es, s, k, This) /\ Carried(es, s, got, k)
      /\ q \in Nat /\ k \in q .. Len(s) /\ k + 1 \in 1 .. Len(s)
      /\ UnderWay(s, q, k, f, bytes)
      /\ f[k] \o This.data = Framed(This.packet) /\ f[k] \in Seq(Nat) /\ This.packet \in Packets
  BY <1>1, <1>4, <1>5, AtFlow
<1> DEFINE new == RemoveAt(s, k + 1)
           t == f[k]
<1>7. sent_' = [sent_ EXCEPT ![fd] = new] /\ sent_ \in [Fd -> Seq(Packets)]
  BY <1>0, <1>1, <1>4, GivenUpSent DEF StreamTypes
<1>8. /\ Mine(fd)' = es \ {This}
      /\ \A other : other # fd => Mine(other)' = Mine(other)
  <2>1. \A any : Mine(any)' = Mine(any) \ {This}
    BY <1>0, <1>1, MineRemoved
  <2>2. \A other : other # fd => This \notin Mine(other)
    BY DEF Mine
  <2> QED
    BY <2>1, <2>2
<1>9. /\ buffer'[fd] = b \o x /\ x \in Seq(Nat)
      /\ \A other \in Fd : other # fd => buffer'[other] = buffer[other]
  BY <1>0, <1>1, WrittenBytes
<1>10. rest \in Seq(Nat) /\ Len(rest) = Len(This.data) - Taken /\ x \o rest = This.data
  BY <1>0, <1>1, PartOfData
<1>11. rest # <<>>
  <2>1. Len(This.data) - Taken # 0
    BY <1>1, <1>2
  <2>2. Len(rest) # 0
    BY <1>10, <2>1
  <2> HIDE DEF rest
  <2> QED
    BY <2>2
<1>12. /\ Open' = Open /\ ~sockets_'[fd]
       /\ \A other \in Open : other # fd => sockets_'[other] = sockets_[other]
  BY <1>0, <1>1, <1>2, SocketFull
<1>13. w \o (b \o x) = (w \o b) \o x
  <2>1. w \in Seq(Nat) /\ b \in Seq(Nat) /\ x \in Seq(Nat)
    BY <1>3, <1>9
  <2> HIDE DEF w, b, x
  <2> QED
    BY <2>1, BytesAssociative
<1>14. (t \o x) \o rest = Framed(This.packet)
  <2>1. (t \o x) \o rest = t \o (x \o rest)
    <3>1. t \in Seq(Nat) /\ x \in Seq(Nat) /\ rest \in Seq(Nat)
      BY <1>6, <1>9, <1>10
    <3> HIDE DEF t, x, rest
    <3> QED
      BY <3>1, BytesAssociative
  <2> QED
    BY <1>6, <1>10, <2>1
<1> HIDE DEF new
<1>15. sent_'[fd] = new /\ \A other \in Fd : other # fd => sent_'[other] = sent_[other]
  BY <1>2, <1>7
<1>16. WritesOnly(fd)
  BY <1>1, <1>8, <1>9, <1>12, <1>15 DEF WritesOnly
<1>17. ~Sound(fd)'
  <2>1. fd \notin listens_ /\ fd \in Open
    BY <1>0, <1>1 DEF StreamRest, Writable
  <2>2. fd \notin listens_' /\ fd \in Open' /\ ~sockets_'[fd]
    BY <1>1, <1>12, <2>1
  <2>3. fd' = fd
    BY <1>1
  <2> QED
    BY <2>2, <2>3 DEF Sound, Stuck
<1>18. /\ sent_[fd]' = new /\ queue_[fd]' = got /\ Len(queue_[fd]') = q /\ Mine(fd)' = es \ {This}
       /\ workspace_[fd]' \o buffer[fd]' = bytes \o x
  BY <1>1, <1>8, <1>9, <1>13, <1>15
<1> HIDE DEF s, q, x, es, got, bytes, rest, t
<1>19. Carried(es \ {This}, new, got, k)
  BY <1>6, CarriedLose DEF new
<1>20. PICK h : UnderWay(s, q, k, h, bytes \o x)
  <2>1. Part(f[k] \o x)
    <3>1. This.packet \in Packets /\ rest \in Seq(Nat) /\ rest # <<>>
      BY <1>6, <1>10, <1>11
    <3>2. Part(t \o x)
      BY <1>14, <3>1 DEF Part
    <3> QED
      BY <3>2 DEF t
  <2>2. UnderWay(s, q, k, [i \in q .. k |-> f[i] \o x], bytes \o x)
    BY <1>6, <1>9, <2>1, UnderWayPart, Zenon
  <2> QED
    BY <2>2
<1>21. UnderWay(new, q, k, h, bytes \o x)
  <2> DEFINE more == bytes \o x
  <2>1. UnderWay(s, q, k, h, more)
    BY <1>20
  <2> HIDE DEF more
  <2>2. UnderWay(RemoveAt(s, k + 1), q, k, h, more)
    BY <1>6, <2>1, UnderWayLose
  <2> QED
    BY <2>2 DEF more, new
<1>22. /\ Carried(Mine(fd)', sent_[fd]', queue_[fd]', k)
       /\ UnderWay(sent_[fd]', Len(queue_[fd]'), k, h, workspace_[fd]' \o buffer[fd]')
  BY <1>18, <1>19, <1>21
<1>23. Flows(fd, k, h)'
  BY <1>17, <1>22 DEF Flows
<1> QED
  BY <1>16, <1>23, WriteFlow


-----------------------------------------------------------------------------
(* The invariant holds at first, and every step keeps it. *)

LEMMA StreamInvInit == StreamInit => StreamInv
<1> SUFFICES ASSUME StreamInit PROVE StreamInv
  OBVIOUS
<1>1. /\ phase = "close" /\ it = 1 /\ events_ = {} /\ out_data_ = <<>> /\ badfds_ = <<>>
      /\ listens_ = {} /\ broken_ = {} /\ sends_ = 0
      /\ \A fd \in Fd : /\ buffer[fd] = <<>> /\ workspace_[fd] = <<>>
                        /\ queue_[fd] = <<>> /\ sent_[fd] = <<>>
  BY DEF StreamInit
<1>2. Open = {} /\ sockets_ \in [{} -> BOOLEAN]
  BY DEF StreamInit, Open
<1>3. /\ buffer \in [Fd -> Seq(Nat)] /\ workspace_ \in [Fd -> Seq(Nat)]
      /\ queue_ \in [Fd -> Seq(Packets)] /\ sent_ \in [Fd -> Seq(Packets)]
  BY EmptySeq DEF StreamInit
<1>4. out_data_ \in Seq(Entry) /\ badfds_ \in Seq(Fd) /\ Len(out_data_) = 0
  BY <1>1, EmptySeq
<1>5. \A i \in 1 .. Len(out_data_) : FALSE
  BY <1>4
<1>6. \A fd \in Fd : Len(sent_[fd]) = 0 /\ Len(buffer[fd]) = 0
  BY <1>1
<1>7. StreamTypes
  BY <1>1, <1>2, <1>3, <1>4, <1>5, <1>6, StreamAssumption DEF StreamTypes
<1>8. StreamRest /\ PassOrder
  BY <1>1, <1>2 DEF StreamRest, PassOrder
<1>9. StreamNumbers
  BY <1>4, <1>5, <1>6 DEF StreamNumbers, Rising
<1>10. StreamFlow
  <2> SUFFICES ASSUME NEW fd \in Fd PROVE \E k, f : Flows(fd, k, f)
    BY DEF StreamFlow
  <2>1. PICK f : /\ f[0] = <<>> /\ Carried({}, <<>>, <<>>, 0)
                 /\ UnderWay(<<>>, 0, 0, f, <<>>) /\ Waiting({}, <<>>, 0, f[0])
    BY EmptyFlow
  <2>2. ToSet(out_data_) = {}
    <3>1. ToSet(out_data_) = {out_data_[i] : i \in 1 .. Len(out_data_)}
      BY <1>4, ToSetOfSeq
    <3>2. \A d \in {out_data_[i] : i \in 1 .. Len(out_data_)} : FALSE
      BY <1>5
    <3> QED
      BY <3>1, <3>2
  <2>3. Mine(fd) = {}
    BY <2>2 DEF Mine
  <2>4. <<>> \o <<>> = <<>> /\ Len(<<>>) = 0
    BY EmptySeq, EmptyConcat
  <2>5. Flows(fd, 0, f)
    BY <1>1, <2>1, <2>3, <2>4, Zenon DEF Flows
  <2> QED
    BY <2>5
<1> QED
  BY <1>7, <1>8, <1>9, <1>10 DEF StreamInv

(* The write pass and the rest of the loop *)
LEMMA CoreInv ==
  ASSUME StreamInv, Core
  PROVE  StreamInv'
<1>0. StreamShape /\ StreamTypes /\ StreamFlow
  BY DEF StreamInv, StreamShape
<1> SUFFICES StreamShape' /\ StreamFlow'
  BY DEF StreamInv, StreamShape
<1>1. CASE CloseBad
  BY <1>0, <1>1, CloseBadShape, ClosesocketFlow DEF CloseBad
<1>2. CASE WritePass
  <2>1. UNCHANGED <<out_data_, sockets_, listens_, buffer, workspace_, queue_, broken_, sent_>>
    BY <1>2 DEF WritePass, peerVars
  <2> QED
    BY <1>0, <1>2, <2>1, WritePassShape, FlowUnchanged
<1>3. CASE WriteWhole
  BY <1>0, <1>3, WriteWholeShape, WriteWholeFlow
<1>4. CASE WritePartial
  BY <1>0, <1>4, WritePartialShape, WritePartialFlow
<1>5. CASE WriteFails
  BY <1>5, WriteFailsShape, WriteFailsFlow
<1>6. CASE WriteStuck
  BY <1>6, WriteStuckShape, WriteStuckFlow
<1>7. CASE EpollWait
  <2>1. UNCHANGED <<out_data_, sockets_, listens_, buffer, workspace_, queue_, broken_, sent_>>
    BY <1>7 DEF EpollWait, peerVars
  <2> QED
    BY <1>0, <1>7, <2>1, EpollWaitShape, FlowUnchanged
<1>8. CASE EndEvents
  <2>1. UNCHANGED <<out_data_, sockets_, listens_, buffer, workspace_, queue_, broken_, sent_>>
    BY <1>8 DEF EndEvents, peerVars
  <2> QED
    BY <1>0, <1>8, <2>1, EndEventsShape, FlowUnchanged
<1>9. ASSUME NEW fd \in Fd, Event(fd)
      PROVE  StreamShape' /\ StreamFlow'
  <2>1. CASE BadEvent(fd)
    <3>1. UNCHANGED <<out_data_, sockets_, listens_, buffer, workspace_, queue_, broken_, sent_>>
      BY <2>1 DEF BadEvent, peerVars
    <3> QED
      BY <1>0, <2>1, <3>1, BadEventShape, FlowUnchanged
  <2>2. CASE OutEvent(fd)
    BY <1>0, <2>2, OutEventShape, OutEventFlow
  <2>3. CASE CloseEvent(fd)
    BY <1>0, <2>3, CloseEventShape, ClosesocketFlow DEF CloseEvent
  <2> QED
    BY <1>9, <2>1, <2>2, <2>3 DEF Event
<1> QED
  BY <1>1, <1>2, <1>3, <1>4, <1>5, <1>6, <1>7, <1>8, <1>9 DEF Core, Write

LEMMA StreamInvNext == StreamInv /\ [StreamNext]_streamVars => StreamInv'
<1> SUFFICES ASSUME StreamInv, [StreamNext]_streamVars PROVE StreamInv'
  OBVIOUS
<1>0. StreamShape /\ StreamTypes /\ StreamFlow
  BY DEF StreamInv, StreamShape
<1>1. CASE Core
  BY <1>1, CoreInv
<1> SUFFICES ASSUME ~Core PROVE StreamShape' /\ StreamFlow'
  BY <1>1 DEF StreamInv, StreamShape
<1>2. ASSUME NEW fd \in Fd, Accept(fd) PROVE StreamShape' /\ StreamFlow'
  BY <1>0, <1>2, AcceptShape, AcceptFlow
<1>3. ASSUME NEW fd \in Fd, PeerReads(fd) PROVE StreamShape' /\ StreamFlow'
  BY <1>3, PeerReadsShape, PeerReadsFlow
<1>4. ASSUME NEW fd \in Fd, PeerResets(fd) PROVE StreamShape' /\ StreamFlow'
  BY <1>0, <1>4, PeerResetsShape, PeerResetsFlow
<1>5. ASSUME NEW fd \in Fd, NEW size \in Size, NEW closefd \in BOOLEAN,
             Senddata(fd, size, closefd)
      PROVE  StreamShape' /\ StreamFlow'
  BY <1>0, <1>5, SenddataShape, SenddataFlow
<1>6. ASSUME NEW fd \in Fd, AcceptFails(fd) PROVE StreamShape' /\ StreamFlow'
  <2>1. UNCHANGED <<out_data_, sockets_, listens_, buffer, workspace_, queue_, broken_, sent_>>
    BY <1>6 DEF AcceptFails, peerVars
  <2> QED
    BY <1>0, <1>6, <2>1, AcceptFailsShape, FlowUnchanged
<1>7. ASSUME UNCHANGED streamVars PROVE StreamShape' /\ StreamFlow'
  <2>1. UNCHANGED <<phase, it, events_, out_data_, sockets_, listens_, badfds_, buffer,
                    workspace_, queue_, broken_, sent_, sends_>>
    BY <1>7 DEF streamVars, loopVars, peerVars
  <2>2. Open' = Open
    BY <2>1 DEF Open
  <2>3. StreamTypes'
    BY <1>0, <2>1, <2>2 DEF StreamTypes
  <2>4. StreamRest' /\ PassOrder'
    BY <1>0, <2>1, <2>2 DEF StreamShape, StreamRest, PassOrder, CanWrite
  <2>5. StreamNumbers'
    BY <1>0, <2>1 DEF StreamShape, StreamNumbers, Rising, Serial, Number
  <2>6. StreamFlow'
    BY <1>0, <2>1, FlowUnchanged
  <2> QED
    BY <2>3, <2>4, <2>5, <2>6 DEF StreamShape
<1> QED
  BY <1>2, <1>3, <1>4, <1>5, <1>6, <1>7 DEF StreamNext

(* The fds without a Socket *)
UnsetInFd == unset_ \subseteq Fd

LEMMA UnsetNext == UnsetInFd /\ [StreamNext]_streamVars => UnsetInFd'
<1> SUFFICES ASSUME UnsetInFd, [StreamNext]_streamVars PROVE unset_' \subseteq Fd
  BY DEF UnsetInFd
<1>1. ASSUME NEW fd \in Fd, AcceptFails(fd) PROVE unset_' \subseteq Fd
  BY <1>1 DEF AcceptFails, UnsetInFd
<1>2. ASSUME NEW fds, Closesocket(fds) PROVE unset_' \subseteq Fd
  BY <1>2 DEF Closesocket, Dropped, UnsetInFd
<1>3. CASE Core
  <2>1. CASE CloseBad
    BY <1>2, <2>1 DEF CloseBad
  <2>2. ASSUME NEW fd \in Fd, CloseEvent(fd) PROVE unset_' \subseteq Fd
    BY <1>2, <2>2 DEF CloseEvent
  <2>3. ASSUME NEW fd \in Fd, BadEvent(fd) \/ OutEvent(fd) PROVE unset_' = unset_
    BY <2>3 DEF BadEvent, OutEvent
  <2>4. ASSUME Write \/ EpollWait \/ EndEvents PROVE unset_' = unset_
    BY <2>4 DEF Write, WritePass, WriteWhole, WritePartial, WriteFails, WriteStuck,
                EpollWait, EndEvents
  <2> QED
    BY <1>3, <2>1, <2>2, <2>3, <2>4 DEF Core, Event, UnsetInFd
<1>4. ASSUME NEW fd \in Fd, Accept(fd) \/ PeerReads(fd) \/ PeerResets(fd) PROVE unset_' = unset_
  BY <1>4 DEF Accept, PeerReads, PeerResets
<1>5. ASSUME NEW fd \in Fd, NEW size \in Size, NEW closefd \in BOOLEAN, Senddata(fd, size, closefd)
      PROVE  unset_' = unset_
  BY <1>5 DEF Senddata
<1>6. CASE UNCHANGED streamVars
  BY <1>6 DEF streamVars, UnsetInFd
<1> QED
  BY <1>1, <1>3, <1>4, <1>5, <1>6 DEF StreamNext, UnsetInFd

LEMMA StreamInvTypes == StreamInv /\ UnsetInFd => StreamTypeOK
<1> SUFFICES ASSUME StreamInv, UnsetInFd PROVE StreamTypeOK
  OBVIOUS
<1>0. StreamTypes /\ StreamRest
  BY DEF StreamInv
<1>1. out_data_ \in Seq(Entry) /\ Len(out_data_) \in Nat
  BY <1>0, LenProperties DEF StreamTypes
<1>2. it \in 1 .. Len(out_data_) + 1 \/ phase # "write"
  BY <1>0, <1>1 DEF StreamTypes
<1>3. \A i \in 1 .. Len(out_data_) :
        /\ out_data_[i].fd \in Fd /\ out_data_[i].packet \in Packets
        /\ Len(out_data_[i].data) \in 1 .. Len(Framed(out_data_[i].packet))
  <2>1. \A i \in 1 .. Len(out_data_) : out_data_[i] \in Entry
    BY <1>1, ElementOfSeq
  <2> QED
    BY <1>0, <2>1 DEF StreamTypes, Entry
<1> QED
  BY <1>0, <1>2, <1>3 DEF StreamTypeOK, StreamTypes, StreamRest, UnsetInFd

(* The variables keep their types, the position of the write pass is in    *)
(* the list, a socket buffer never holds more than it can, and a socket    *)
(* that is not writable waits for EPOLLOUT or is about to be closed.       *)
THEOREM StreamTypeCorrect == StreamSpec => []StreamTypeOK
<1>1. StreamInit => StreamInv /\ UnsetInFd
  BY StreamInvInit DEF StreamInit, UnsetInFd
<1>2. StreamInv /\ UnsetInFd /\ [StreamNext]_streamVars => StreamInv' /\ UnsetInFd'
  BY StreamInvNext, UnsetNext
<1>3. StreamInv /\ UnsetInFd => StreamTypeOK
  BY StreamInvTypes
<1> QED
  BY <1>1, <1>2, <1>3, PTL DEF StreamSpec


-----------------------------------------------------------------------------
(* Every step is one that PacketFifo allows. *)

LEMMA FifoStutters ==
  ASSUME UNCHANGED <<sent_, queue_, badfds_>>
  PROVE  UNCHANGED Fifo!fifoVars
  BY DEF Fifo!fifoVars

LEMMA FifoDooms ==
  ASSUME StreamTypes, NEW fd \in Fd, badfds_' \in {badfds_, Append(badfds_, fd)},
         UNCHANGED <<sent_, queue_>>
  PROVE  [Fifo!FifoNext]_(Fifo!fifoVars)
<1>1. CASE badfds_' = badfds_
  BY <1>1, FifoStutters
<1>2. CASE badfds_' = Append(badfds_, fd)
  <2>1. ToSet(badfds_') = ToSet(badfds_) \cup {fd}
    BY <1>2, ToSetOfAppend DEF StreamTypes
  <2>2. Fifo!Doom(fd)
    BY <2>1 DEF Fifo!Doom
  <2> QED
    BY <2>2 DEF Fifo!FifoNext
<1> QED
  BY <1>1, <1>2

LEMMA FifoCloses ==
  ASSUME NEW fds \in SUBSET Fd, Closesocket(fds),
         badfds_' = badfds_ \/ (badfds_' = <<>> /\ fds = ToSet(badfds_))
  PROVE  [Fifo!FifoNext]_(Fifo!fifoVars)
<1>1. /\ sent_' = [fd \in Fd |-> IF fd \in fds THEN <<>> ELSE sent_[fd]]
      /\ queue_' = [fd \in Fd |-> IF fd \in fds THEN <<>> ELSE queue_[fd]]
  BY DEF Closesocket, Dropped
<1>2. \/ ToSet(badfds_)' = ToSet(badfds_)
      \/ ToSet(badfds_) \subseteq fds /\ ToSet(badfds_)' = {}
  <2>1. CASE badfds_' = badfds_
    BY <2>1
  <2>2. CASE badfds_' = <<>> /\ fds = ToSet(badfds_)
    <3>1. ToSet(<<>>) = {}
      <4>1. <<>> \in Seq(Fd) /\ Len(<<>>) = 0
        BY EmptySeq
      <4>2. ToSet(<<>>) = {<<>>[i] : i \in 1 .. Len(<<>>)}
        BY <4>1, ToSetOfSeq
      <4>3. \A i \in 1 .. Len(<<>>) : FALSE
        BY <4>1
      <4> QED
        BY <4>2, <4>3
    <3> QED
      BY <2>2, <3>1
  <2> QED
    BY <2>1, <2>2
<1>3. Fifo!Close(fds)
  BY <1>1, <1>2 DEF Fifo!Close
<1> QED
  BY <1>3 DEF Fifo!FifoNext

LEMMA FifoLoses ==
  ASSUME StreamInv, AtPacket, Writable, GivenUp, UNCHANGED queue_
  PROVE  [Fifo!FifoNext]_(Fifo!fifoVars)
<1> DEFINE fd == This.fd
           s == sent_[fd]
<1>0. StreamTypes /\ StreamFlow
  BY DEF StreamInv
<1>1. fd \in Fd /\ badfds_' = Append(badfds_, fd)
  BY <1>0, AtEntry DEF GivenUp
<1>2. PICK k, f : Flows(fd, k, f)
  BY <1>0, <1>1 DEF StreamFlow
<1>3. k + 1 \in 1 .. Len(s) /\ sent_' = [sent_ EXCEPT ![fd] = RemoveAt(s, k + 1)]
  BY <1>2, GivenUpSent
<1>4. k \in Len(queue_[fd]) .. Len(s) /\ Len(queue_[fd]) \in Nat /\ Len(s) \in Nat
  BY <1>0, <1>1, <1>2, LenProperties DEF StreamTypes, Flows, Carried
<1>5. k + 1 \in Len(queue_[fd]) + 1 .. Len(s)
  BY <1>3, <1>4
<1>6. RemoveAt(s, k + 1) = Fifo!Without(s, k + 1)
  BY DEF RemoveAt, Fifo!Without
<1>7. ToSet(badfds_)' = ToSet(badfds_) \cup {fd}
  BY <1>0, <1>1, ToSetOfAppend DEF StreamTypes
<1> HIDE DEF fd
<1>8. \E i \in Len(queue_[fd]) + 1 .. Len(sent_[fd]) :
        sent_' = [sent_ EXCEPT ![fd] = Fifo!Without(sent_[fd], i)]
  BY <1>3, <1>5, <1>6
<1>9. Fifo!Lose(fd)
  BY <1>7, <1>8 DEF Fifo!Lose
<1> QED
  BY <1>1, <1>9 DEF Fifo!FifoNext

LEMMA FifoReceives ==
  ASSUME StreamInv, NEW fd \in Fd, PeerReads(fd)
  PROVE  [Fifo!FifoNext]_(Fifo!fifoVars)
<1>0. StreamTypes /\ StreamFlow
  BY DEF StreamInv
<1>1. PICK k, f : Flows(fd, k, f)
  BY <1>0 DEF StreamFlow
<1>2. /\ queue_' \in [Fd -> Seq(Packets)] /\ ReadUpTo(fd, k, f)
      /\ \A other \in Fd : other # fd => queue_'[other] = queue_[other]
  BY <1>1, PeerReadsPackets
<1>3. PICK i \in Len(queue_[fd]) .. k : queue_'[fd] = SubSeq(sent_[fd], 1, i)
  BY <1>2 DEF ReadUpTo
<1>4. UNCHANGED <<sent_, badfds_>>
  BY DEF PeerReads
<1>5. /\ queue_ \in [Fd -> Seq(Packets)] /\ sent_ \in [Fd -> Seq(Packets)]
      /\ k \in Len(queue_[fd]) .. Len(sent_[fd]) /\ queue_[fd] = SubSeq(sent_[fd], 1, Len(queue_[fd]))
      /\ Len(queue_[fd]) \in Nat /\ Len(sent_[fd]) \in Nat
  BY <1>0, <1>1, LenProperties DEF StreamTypes, Flows, Carried
<1>6. queue_' = [queue_ EXCEPT ![fd] = SubSeq(sent_[fd], 1, i)]
  BY <1>2, <1>3, <1>5
<1>7. CASE i = Len(queue_[fd])
  <2>1. queue_' = queue_
    BY <1>5, <1>6, <1>7
  <2> QED
    BY <1>4, <2>1, FifoStutters
<1>8. CASE i # Len(queue_[fd])
  <2>1. i \in Len(queue_[fd]) + 1 .. Len(sent_[fd])
    <3> DEFINE q == Len(queue_[fd])
               n == Len(sent_[fd])
    <3>1. q \in Nat /\ n \in Nat /\ k \in q .. n /\ i \in q .. k /\ i # q
      BY <1>5, <1>8
    <3> HIDE DEF q, n
    <3>2. i \in q + 1 .. n
      BY <3>1
    <3> QED
      BY <3>2, Zenon DEF q, n
  <2>2. \E n \in Len(queue_[fd]) + 1 .. Len(sent_[fd]) :
           queue_' = [queue_ EXCEPT ![fd] = SubSeq(sent_[fd], 1, n)]
    BY <1>6, <2>1
  <2>3. Fifo!Receive(fd)
    BY <1>4, <2>2 DEF Fifo!Receive
  <2> QED
    BY <2>3 DEF Fifo!FifoNext
<1> QED
  BY <1>7, <1>8

LEMMA FifoSends ==
  ASSUME StreamInv, NEW fd \in Fd, NEW size \in Size, NEW closefd \in BOOLEAN,
         Senddata(fd, size, closefd)
  PROVE  [Fifo!FifoNext]_(Fifo!fifoVars)
<1>1. sends_ + 1 \in 1 .. MaxSent
  BY StreamAssumption DEF StreamInv, StreamTypes, Senddata
<1>2. PacketOf(sends_ + 1, size) \in Packets
  BY <1>1, PacketOfProperties
<1>3. /\ sent_' = [sent_ EXCEPT ![fd] = Append(@, PacketOf(sends_ + 1, size))]
      /\ UNCHANGED <<queue_, badfds_>>
  BY DEF Senddata, peerVars
<1>4. Fifo!Send(fd)
  BY <1>2, <1>3 DEF Fifo!Send
<1> QED
  BY <1>4 DEF Fifo!FifoNext

LEMMA FifoStep ==
  ASSUME StreamInv, [StreamNext]_streamVars
  PROVE  [Fifo!FifoNext]_(Fifo!fifoVars)
<1>0. StreamTypes
  BY DEF StreamInv
<1>1. CASE CloseBad
  BY <1>0, <1>1, BadfdsInFd, FifoCloses DEF CloseBad
<1>2. CASE WritePass \/ WriteWhole \/ WritePartial
  <2>1. /\ AtPacket /\ badfds_' \in {badfds_, Append(badfds_, This.fd)}
        /\ UNCHANGED <<sent_, queue_>>
    BY <1>2 DEF WritePass, WriteWhole, WritePartial, peerVars
  <2>2. This.fd \in Fd
    BY <1>0, <2>1, AtEntry
  <2> QED
    BY <1>0, <2>1, <2>2, FifoDooms
<1>3. CASE WriteFails \/ WriteStuck
  <2>1. AtPacket /\ Writable /\ GivenUp /\ UNCHANGED queue_
    BY <1>3 DEF WriteFails, WriteStuck, peerVars
  <2> QED
    BY <2>1, FifoLoses
<1>4. CASE EpollWait \/ EndEvents \/ UNCHANGED streamVars
  <2>1. UNCHANGED <<sent_, queue_, badfds_>>
    BY <1>4 DEF EpollWait, EndEvents, streamVars, peerVars
  <2> QED
    BY <2>1, FifoStutters
<1>5. ASSUME NEW fd \in Fd, BadEvent(fd) \/ OutEvent(fd) \/ AcceptFails(fd)
      PROVE  [Fifo!FifoNext]_(Fifo!fifoVars)
  <2>1. badfds_' \in {badfds_, Append(badfds_, fd)} /\ UNCHANGED <<sent_, queue_>>
    BY <1>5 DEF BadEvent, OutEvent, AcceptFails, peerVars
  <2> QED
    BY <1>0, <2>1, FifoDooms
<1>6. ASSUME NEW fd \in Fd, CloseEvent(fd)
      PROVE  [Fifo!FifoNext]_(Fifo!fifoVars)
  BY <1>6, FifoCloses DEF CloseEvent
<1>7. ASSUME NEW fd \in Fd, Accept(fd) \/ PeerResets(fd)
      PROVE  [Fifo!FifoNext]_(Fifo!fifoVars)
  <2>1. UNCHANGED <<sent_, queue_, badfds_>>
    BY <1>7 DEF Accept, PeerResets, peerVars
  <2> QED
    BY <2>1, FifoStutters
<1>8. ASSUME NEW fd \in Fd, PeerReads(fd)
      PROVE  [Fifo!FifoNext]_(Fifo!fifoVars)
  BY <1>8, FifoReceives
<1>9. ASSUME NEW fd \in Fd, NEW size \in Size, NEW closefd \in BOOLEAN,
             Senddata(fd, size, closefd)
      PROVE  [Fifo!FifoNext]_(Fifo!fifoVars)
  BY <1>9, FifoSends
<1> QED
  BY <1>1, <1>2, <1>3, <1>4, <1>5, <1>6, <1>7, <1>8, <1>9
  DEF StreamNext, Core, Write, Event

LEMMA FifoStarts == StreamInit => Fifo!FifoInit
<1> SUFFICES ASSUME StreamInit PROVE Fifo!FifoInit
  OBVIOUS
<1>1. badfds_ = <<>> /\ sent_ = [fd \in Fd |-> <<>>] /\ queue_ = [fd \in Fd |-> <<>>]
  BY DEF StreamInit
<1>2. badfds_ \in Seq(Fd) /\ Len(badfds_) = 0
  BY <1>1, EmptySeq
<1>3. ToSet(badfds_) = {badfds_[i] : i \in 1 .. Len(badfds_)}
  BY <1>2, ToSetOfSeq
<1>4. \A i \in 1 .. Len(badfds_) : FALSE
  BY <1>2
<1>5. ToSet(badfds_) = {}
  BY <1>3, <1>4
<1> QED
  BY <1>1, <1>5 DEF Fifo!FifoInit

(* Whatever the write pass, the buffers in the kernel and the peers' reads *)
(* cut the bytes into, for any number of fds, sizes of packets and bytes   *)
(* that a buffer holds: the packets of a connection arrive whole, once and *)
(* in order, and only a connection that is going to be closed misses any.  *)
THEOREM PacketsArriveInOrder == StreamSpec => PacketsInOrder
<1>1. StreamInit => StreamInv /\ Fifo!FifoInit
  BY StreamInvInit, FifoStarts
<1>2. StreamInv /\ [StreamNext]_streamVars => StreamInv'
  BY StreamInvNext
<1>3. StreamInv /\ [StreamNext]_streamVars => [Fifo!FifoNext]_(Fifo!fifoVars)
  BY FifoStep
<1> QED
  BY <1>1, <1>2, <1>3, PTL DEF StreamSpec, PacketsInOrder, Fifo!FifoSpec

=============================================================================
