-------------------------- MODULE NtycoReaderProofs --------------------------
(***************************************************************************)
(* For every header size, data limit, buffer size and number of packets:   *)
(* the reader stays inside its buffer, always has room to receive, and     *)
(* answers the packets of its client in order, each once.                  *)
(***************************************************************************)
EXTENDS NtycoReader, SequenceTheorems, TLAPS

\* Where packet p ends in the stream.
EndOf(p) == packets[p].at + TCP_HEADER_SIZE + packets[p].len

\* The packets lie one after the other in the stream, up to what was sent.
Contiguous ==
    /\ \A p \in DOMAIN packets :
          EndOf(p) = IF p = Len(packets) THEN sent ELSE packets[p + 1].at
    /\ \A p, q \in DOMAIN packets : p < q => EndOf(p) <= packets[q].at
    /\ packets = <<>> => sent = 0
    /\ packets # <<>> => packets[1].at = 0

IInv == TypeOK /\ RoomToReceive /\ Framed /\ AnsweredPrefix /\ Contiguous
        /\ AtNextPacket /\ Done >= 0

-----------------------------------------------------------------------------
\* What the type of packets says of one packet.
LEMMA PacketType ==
    ASSUME TypeOK, NEW p \in DOMAIN packets
    PROVE  packets[p].at \in Nat /\ packets[p].len \in Nat
<1> DEFINE P == [at : Nat, len : DataLens, mutex : Uses]
<1>1. packets \in Seq(P)
  BY DEF TypeOK
<1>2. \A r \in P : r.at \in Nat /\ r.len \in DataLens
  OBVIOUS
<1> HIDE DEF P
<1>3. packets[p] \in P
  BY <1>1
<1>4. QED
  BY <1>2, <1>3, ClientAssumption

\* Room for the largest packet is room for any accepted one: what is left of
\* an incomplete packet fits (ntyco.c:43-49).
LEMMA IncompleteFits ==
    ASSUME TypeOK, NEW p \in DOMAIN packets, Accepted(p), ~Complete(p)
    PROVE  Len(buffer) < BUFFER_SIZE
<1>1. packets[p].len \in Nat /\ packets[p].len <= MAX_DATA
  BY PacketType DEF Accepted
<1>2. QED
  BY <1>1, SizesAssumption DEF TypeOK, Complete, TotalLen

\* The buffer after a packet of n bytes: shorter by n, shifted by n, with NUL
\* in front at most (kvstore.c:494, ntyco.c:77-78).
LEMMA AfterPacketShifts ==
    ASSUME NEW b \in Seq(Nat), NEW n \in Nat, n <= Len(b), NEW l \in Nat
    PROVE  /\ AfterPacket(b, n, l) \in Seq(Nat)
           /\ Len(AfterPacket(b, n, l)) = Len(b) - n
           /\ \A i \in 1..(Len(b) - n) :
                 \/ AfterPacket(b, n, l)[i] = b[n + i]
                 \/ i = 1 /\ AfterPacket(b, n, l)[i] = NUL
<1> DEFINE m == Len(b) - n
           e(i) == IF i = 1 /\ l > 0 THEN NUL ELSE b[n + i]
<1>1. m \in Nat
  OBVIOUS
<1>2. \A i \in 1..m : e(i) \in Nat
  BY DEF NUL
<1>3. AfterPacket(b, n, l) = [i \in 1..m |-> e(i)]
  BY DEF AfterPacket
<1> HIDE DEF m, e
<1>4. [i \in 1..m |-> e(i)] \in Seq(Nat) /\ Len([i \in 1..m |-> e(i)]) = m
  BY <1>1, <1>2
<1>5. \A i \in 1..m : AfterPacket(b, n, l)[i] = e(i)
  BY <1>3
<1>6. QED
  BY <1>3, <1>4, <1>5 DEF m, e

\* The packet at the front of the buffer is the first unanswered one: no
\* other packet starts there, and a NUL there is no packet's first byte.
LEMMA HeadIsNext ==
    ASSUME IInv, Len(buffer) >= TCP_HEADER_SIZE,
           NEW p \in DOMAIN packets, p \in HeadPacket
    PROVE  p = Len(answered) + 1
<1>1. Len(buffer) >= 1 /\ 1 \in 1..Len(buffer)
  BY SizesAssumption DEF IInv, TypeOK
<1>2. packets[p].at \in Nat /\ buffer[1] = packets[p].at + 1
  BY PacketType DEF IInv, HeadPacket
<1>3. buffer[1] = Done + 1
  BY <1>1, <1>2 DEF IInv, Framed, Done, NUL
<1>4. Done \in Nat
  BY DEF IInv, TypeOK, Done
<1>5. packets[p].at = Done
  BY <1>2, <1>3, <1>4
<1>6. \A q \in DOMAIN packets : /\ packets[q].at \in Nat
                                /\ packets[q].len \in Nat
                                /\ EndOf(q) \in Nat
                                /\ EndOf(q) > packets[q].at
  BY PacketType, SizesAssumption DEF IInv, EndOf
<1>7. p \in 1..Len(packets) /\ DOMAIN packets = 1..Len(packets)
      /\ Len(packets) \in Nat /\ Len(answered) \in Nat
  BY DEF IInv, TypeOK
<1>8. Len(answered) # Len(packets)
  <2>1. EndOf(p) <= sent
    <3>1. Len(packets) \in DOMAIN packets /\ EndOf(Len(packets)) = sent
      BY <1>7 DEF IInv, Contiguous
    <3>2. p < Len(packets) => EndOf(p) <= packets[Len(packets)].at
      BY <1>7, <3>1 DEF IInv, Contiguous
    <3>3. packets[Len(packets)].at < sent /\ packets[Len(packets)].at \in Nat
      BY <1>6, <3>1
    <3>4. EndOf(p) \in Nat /\ sent \in Nat
      BY <1>6 DEF IInv, TypeOK
    <3>5. QED
      BY <1>7, <3>1, <3>2, <3>3, <3>4
  <2>2. packets[p].at < sent
    BY <1>6, <2>1 DEF IInv, TypeOK
  <2>3. QED
    BY <1>5, <2>2, <1>6 DEF IInv, AtNextPacket, TypeOK
<1> DEFINE a == Len(answered) + 1
<1>9. a \in DOMAIN packets /\ packets[a].at = packets[p].at
  BY <1>5, <1>7, <1>8 DEF IInv, AtNextPacket, AnsweredPrefix
<1>10. ~(a < p) /\ ~(p < a)
  BY <1>6, <1>7, <1>9 DEF IInv, Contiguous
<1>11. QED
  BY <1>7, <1>9, <1>10

\* A reader starts with an empty buffer at the start of the stream (ntyco.c:9-14).
LEMMA InitEstablishes == Init => IInv
<1> SUFFICES ASSUME Init PROVE IInv
  OBVIOUS
<1>1. Len(packets) = 0 /\ Len(buffer) = 0 /\ Len(answered) = 0
      /\ DOMAIN packets = {}
  BY DEF Init
<1>2. TypeOK
  BY <1>1, EmptySeq, SizesAssumption DEF Init, TypeOK
<1>3. RoomToReceive /\ Framed /\ AnsweredPrefix
  BY <1>1, SizesAssumption DEF Init, RoomToReceive, Framed, AnsweredPrefix
<1>4. Contiguous
  BY <1>1 DEF Init, Contiguous
<1>5. Done = 0 /\ sent = 0
  <2>1. received = 0 /\ sent = 0
    BY DEF Init
  <2>2. QED
    BY <1>1, <2>1 DEF Done
<1>6. AtNextPacket /\ Done >= 0
  BY <1>1, <1>5 DEF AtNextPacket
<1>7. QED
  BY <1>2, <1>3, <1>4, <1>6 DEF IInv

\* A new packet starts where the stream ended; the reader does not move.
LEMMA SendPreserves == IInv /\ SendPacket => IInv'
<1> SUFFICES ASSUME IInv, SendPacket PROVE IInv'
  OBVIOUS
<1> USE SizesAssumption, ClientAssumption
<1>1. PICK l \in DataLens, u \in Uses :
        /\ packets' = Append(packets, [at |-> sent, len |-> l, mutex |-> u])
        /\ sent' = sent + TCP_HEADER_SIZE + l
  BY DEF SendPacket
<1>0. PICK n \in Nat : n = Len(packets)
  BY DEF IInv, TypeOK
<1>2. /\ UNCHANGED <<received, buffer, pc, open, answered, server>>
      /\ l \in Nat /\ sent \in Nat /\ TCP_HEADER_SIZE \in Nat
      /\ packets \in Seq([at : Nat, len : DataLens, mutex : Uses])
      /\ [at |-> sent, len |-> l, mutex |-> u] \in [at : Nat, len : DataLens, mutex : Uses]
  BY DEF SendPacket, IInv, TypeOK
<1>3. /\ packets' \in Seq([at : Nat, len : DataLens, mutex : Uses])
      /\ Len(packets') = n + 1 /\ DOMAIN packets' = 1..(n + 1)
      /\ DOMAIN packets = 1..n /\ packets' # <<>>
      /\ \A i \in 1..n : packets'[i] = packets[i]
      /\ packets'[n + 1] = [at |-> sent, len |-> l, mutex |-> u]
  BY <1>0, <1>1, <1>2, AppendProperties, LenProperties
<1>4. TypeOK'
  <2>1. waits' \in BOOLEAN
    BY DEF SendPacket
  <2>2. QED
    BY <1>1, <1>2, <1>3, <2>1 DEF IInv, TypeOK
<1>5. RoomToReceive' /\ Framed' /\ AnsweredPrefix' /\ (Done >= 0)'
  BY <1>0, <1>2, <1>3 DEF IInv, TypeOK, RoomToReceive, Framed, AnsweredPrefix, Done
<1>6. \A i \in 1..n : /\ EndOf(i)' = EndOf(i)
                      /\ packets[i].at \in Nat /\ packets[i].len \in Nat
  BY <1>3, PacketType DEF EndOf, IInv
<1>7. EndOf(n + 1)' = sent' /\ packets'[n + 1].at = sent
  <2>1. packets'[n + 1].at = sent /\ packets'[n + 1].len = l
    BY <1>3
  <2>2. QED
    BY <1>1, <2>1 DEF EndOf
<1>8. \A i \in 1..n : EndOf(i) <= sent
  <2>1. SUFFICES ASSUME NEW i \in 1..n PROVE EndOf(i) <= sent
    OBVIOUS
  <2>2. n \in 1..n /\ EndOf(n) = sent /\ EndOf(n) \in Nat
    <3>1. n \in 1..n /\ n \in DOMAIN packets /\ n = Len(packets)
      BY <1>0, <1>3
    <3>2. EndOf(n) = sent
      BY <3>1 DEF IInv, Contiguous
    <3>3. QED
      BY <1>2, <3>1, <3>2
  <2>3. i < n => EndOf(i) <= packets[n].at
    BY <1>3, <2>2 DEF IInv, Contiguous
  <2>4. packets[n].at <= EndOf(n) /\ EndOf(i) \in Nat /\ packets[n].at \in Nat
    <3>1. \A j \in 1..n : packets[j].at \in Nat /\ packets[j].len \in Nat
      BY <1>6
    <3>2. \A j \in 1..n : packets[j].at <= EndOf(j) /\ EndOf(j) \in Nat
      BY <3>1 DEF EndOf
    <3>3. QED
      BY <2>2, <3>1, <3>2
  <2>5. QED
    BY <1>2, <2>2, <2>3, <2>4
<1>9. Contiguous'
  <2>1. \A i \in 1..n : EndOf(i)' = packets'[i + 1].at
    <3>1. SUFFICES ASSUME NEW i \in 1..n PROVE EndOf(i)' = packets'[i + 1].at
      OBVIOUS
    <3>2. CASE i = n
      BY <1>0, <1>3, <1>6, <1>7, <3>2 DEF IInv, Contiguous
    <3>3. CASE i # n
      <4>1. i + 1 \in 1..n
        BY <1>2, <3>3
      <4>2. EndOf(i) = packets[i + 1].at
        BY <1>0, <1>3, <3>3 DEF IInv, Contiguous
      <4>3. QED
        BY <1>3, <1>6, <4>1, <4>2
    <3>4. QED
      BY <3>2, <3>3
  <2>2. \A p \in DOMAIN packets' :
          EndOf(p)' = IF p = Len(packets') THEN sent' ELSE packets'[p + 1].at
    <3>1. SUFFICES ASSUME NEW p \in 1..(n + 1)
                   PROVE  EndOf(p)' = IF p = n + 1 THEN sent'
                                      ELSE packets'[p + 1].at
      BY <1>3
    <3>2. CASE p = n + 1
      BY <1>7, <3>2
    <3>3. CASE p # n + 1
      BY <2>1, <3>3
    <3>4. QED
      BY <3>2, <3>3
  <2>3. \A p, q \in DOMAIN packets' : p < q => EndOf(p)' <= packets'[q].at
    <3>1. SUFFICES ASSUME NEW p \in 1..(n + 1), NEW q \in 1..(n + 1), p < q
                   PROVE  EndOf(p)' <= packets'[q].at
      BY <1>3
    <3>2. p \in 1..n
      BY <1>2, <3>1
    <3>3. CASE q = n + 1
      BY <1>6, <1>7, <1>8, <3>2, <3>3
    <3>4. CASE q \in 1..n
      <4>1. EndOf(p) <= packets[q].at
        BY <1>3, <3>1, <3>2, <3>4 DEF IInv, Contiguous
      <4>2. EndOf(p)' = EndOf(p) /\ packets'[q] = packets[q]
        BY <1>3, <1>6, <3>2, <3>4
      <4>3. QED
        BY <4>1, <4>2
    <3>5. QED
      BY <1>2, <3>3, <3>4
  <2>4. packets' # <<>> /\ packets'[1].at = 0
    <3>1. CASE n = 0
      <4>1. packets = <<>>
        BY <1>0, <1>2, <3>1, EmptySeq
      <4>2. packets'[1].at = 0
        BY <1>7, <3>1, <4>1 DEF IInv, Contiguous
      <4>3. QED
        BY <1>3, <4>2
    <3>2. CASE n # 0
      <4>1. 1 \in 1..n /\ packets # <<>>
        BY <1>0, <1>2, <3>2
      <4>2. packets'[1] = packets[1] /\ packets[1].at = 0
        BY <1>3, <4>1 DEF IInv, Contiguous
      <4>3. QED
        BY <1>3, <4>2
    <3>3. QED
      BY <3>1, <3>2
  <2>5. QED
    BY <2>2, <2>3, <2>4 DEF Contiguous
<1>10. AtNextPacket'
  <2>1. Done' = Done /\ Len(answered') = Len(answered) /\ Len(answered) \in 0..n
    BY <1>0, <1>2 DEF Done, IInv, TypeOK, AnsweredPrefix
  <2>2. CASE Len(answered) = n
    BY <1>0, <1>2, <1>3, <1>7, <2>1, <2>2 DEF IInv, AtNextPacket
  <2>3. CASE Len(answered) # n
    <3>1. Len(answered) + 1 \in 1..n
      BY <1>2, <2>1, <2>3
    <3>2. QED
      <4>1. Done = packets[Len(answered) + 1].at
        BY <1>0, <2>3 DEF IInv, AtNextPacket
      <4>2. packets'[Len(answered) + 1] = packets[Len(answered) + 1]
        BY <1>3, <3>1
      <4>3. Len(answered') # Len(packets')
        BY <1>3, <2>1
      <4>4. QED
        BY <2>1, <4>1, <4>2, <4>3 DEF AtNextPacket
  <2>4. QED
    BY <2>2, <2>3
<1>11. QED
  BY <1>4, <1>5, <1>9, <1>10 DEF IInv

\* recv appends a run of the stream and stays within the buffer.
LEMMA RecvPreserves == IInv /\ Recv => IInv'
<1> SUFFICES ASSUME IInv, Recv PROVE IInv'
  OBVIOUS
<1> USE SizesAssumption, ClientAssumption
<1>1. PICK n \in 1..Room : /\ n <= sent - received
                           /\ buffer' = buffer \o [i \in 1..n |-> received + i]
                           /\ received' = received + n
  BY DEF Recv
<1>2. /\ UNCHANGED <<packets, sent, open, answered, waits, server>> /\ pc' = "parse"
      /\ Len(buffer) \in Nat /\ n \in Nat /\ received \in Nat /\ sent \in Nat
      /\ Len(buffer) + n <= BUFFER_SIZE /\ buffer \in Seq(Nat)
  BY DEF Recv, Room, IInv, TypeOK
<1> DEFINE new == [i \in 1..n |-> received + i]
<1>3. new \in Seq(Nat) /\ Len(new) = n /\ \A i \in 1..n : new[i] = received + i
  BY <1>2
<1> HIDE DEF new
<1>4. buffer' = buffer \o new
  BY <1>1 DEF new
<1>5. /\ buffer' \in Seq(Nat) /\ Len(buffer') = Len(buffer) + n
      /\ \A i \in 1..Len(buffer) : buffer'[i] = buffer[i]
      /\ \A i \in (Len(buffer) + 1)..(Len(buffer) + n) :
            buffer'[i] = received + (i - Len(buffer))
  <2>1. /\ buffer' \in Seq(Nat) /\ Len(buffer') = Len(buffer) + n
        /\ \A i \in 1..(Len(buffer) + n) : buffer'[i] =
              IF i <= Len(buffer) THEN buffer[i] ELSE new[i - Len(buffer)]
    BY <1>2, <1>3, <1>4, ConcatProperties
  <2>2. ASSUME NEW i \in 1..Len(buffer) PROVE buffer'[i] = buffer[i]
    BY <1>2, <2>1
  <2>3. ASSUME NEW i \in (Len(buffer) + 1)..(Len(buffer) + n)
        PROVE  buffer'[i] = received + (i - Len(buffer))
    <3>1. i \in 1..(Len(buffer) + n) /\ ~(i <= Len(buffer))
          /\ i - Len(buffer) \in 1..n
      BY <1>2
    <3>2. QED
      BY <1>3, <2>1, <3>1
  <2>4. QED
    BY <2>1, <2>2, <2>3
<1>6. TypeOK' /\ RoomToReceive'
  BY <1>1, <1>2, <1>5 DEF IInv, TypeOK, RoomToReceive
<1>7. Done' = Done
  BY <1>1, <1>2, <1>5 DEF Done
<1>8. Framed'
  <2>1. SUFFICES ASSUME NEW i \in 1..(Len(buffer) + n)
                 PROVE  \/ buffer'[i] = (received + n) - (Len(buffer) + n) + i
                        \/ i = 1 /\ buffer'[i] = NUL
    BY <1>1, <1>5 DEF Framed, Done, NUL
  <2>2. CASE i \in 1..Len(buffer)
    <3>1. buffer[i] = Done + i \/ (i = 1 /\ buffer[i] = NUL)
      BY <2>2 DEF IInv, Framed
    <3>2. buffer'[i] = buffer[i]
      BY <1>5, <2>2
    <3>3. QED
      BY <1>2, <2>2, <3>1, <3>2 DEF Done
  <2>3. CASE i \in (Len(buffer) + 1)..(Len(buffer) + n)
    BY <1>2, <1>5, <2>3
  <2>4. QED
    BY <1>2, <2>2, <2>3
<1>9. AnsweredPrefix' /\ Contiguous' /\ AtNextPacket' /\ (Done >= 0)'
  BY <1>2, <1>7 DEF IInv, AnsweredPrefix, Contiguous, AtNextPacket, EndOf
<1>10. QED
  BY <1>6, <1>8, <1>9 DEF IInv

\* A handled packet is the next one; the buffer then starts at its end.
LEMMA HandlePreserves == IInv /\ HandlePacket => IInv'
<1> SUFFICES ASSUME IInv, HandlePacket PROVE IInv'
  OBVIOUS
<1> USE SizesAssumption, ClientAssumption
<1>1. PICK p \in DOMAIN packets :
        /\ Accepted(p) /\ Complete(p)
        /\ buffer' = AfterPacket(buffer, TotalLen(p), packets[p].len)
        /\ answered' = Append(answered, p)
        /\ server' = IF packets[p].mutex = "leaks" THEN "leaked" ELSE server
  BY DEF HandlePacket
<1>2. /\ UNCHANGED <<packets, sent, received, pc, open, waits>> /\ pc = "parse"
      /\ Len(buffer) >= TCP_HEADER_SIZE
  BY DEF HandlePacket, AtHeader
<1>3. p = Len(answered) + 1
  BY <1>1, <1>2, HeadIsNext DEF Accepted
<1>0. PICK n : n = TotalLen(p)
  OBVIOUS
<1>4. /\ n \in Nat /\ n >= 1 /\ n <= Len(buffer) /\ packets[p].len \in Nat
      /\ buffer \in Seq(Nat) /\ Len(buffer) \in Nat /\ received \in Nat
      /\ packets[p].at \in Nat /\ Len(packets) \in Nat /\ p \in 1..Len(packets)
      /\ DOMAIN packets = 1..Len(packets)
      /\ answered \in Seq(Nat) /\ Len(answered) \in Nat
      /\ EndOf(p) = packets[p].at + n
  <2>1. packets[p].len \in Nat /\ packets[p].at \in Nat
    BY PacketType DEF IInv
  <2>2. /\ buffer \in Seq(Nat) /\ Len(buffer) \in Nat /\ received \in Nat
        /\ Len(packets) \in Nat /\ DOMAIN packets = 1..Len(packets)
        /\ answered \in Seq(Nat) /\ Len(answered) \in Nat
    BY DEF IInv, TypeOK
  <2>3. n \in Nat /\ n >= 1 /\ n <= Len(buffer)
    BY <1>0, <1>1, <2>1, <2>2 DEF Complete, TotalLen
  <2>4. EndOf(p) = packets[p].at + n
    BY <1>0, <2>1 DEF EndOf, TotalLen
  <2>5. QED
    BY <2>1, <2>2, <2>3, <2>4
<1>5. /\ buffer' \in Seq(Nat) /\ Len(buffer') = Len(buffer) - n
      /\ \A i \in 1..(Len(buffer) - n) :
            buffer'[i] = buffer[n + i] \/ (i = 1 /\ buffer'[i] = NUL)
  <2>1. buffer' = AfterPacket(buffer, n, packets[p].len)
    BY <1>0, <1>1
  <2>2. QED
    <3> DEFINE b == AfterPacket(buffer, n, packets[p].len)
    <3>1. /\ b \in Seq(Nat) /\ Len(b) = Len(buffer) - n
          /\ \A i \in 1..(Len(buffer) - n) :
                b[i] = buffer[n + i] \/ (i = 1 /\ b[i] = NUL)
      <4>1. /\ buffer \in Seq(Nat) /\ n \in Nat /\ n <= Len(buffer)
            /\ packets[p].len \in Nat
        BY <1>4
      <4>2. QED
        BY ONLY <4>1, AfterPacketShifts
    <3> HIDE DEF b
    <3>2. buffer' = b
      BY <2>1 DEF b
    <3>3. QED
      BY <3>1, <3>2
<1>6. /\ answered' \in Seq(Nat) /\ Len(answered') = Len(answered) + 1
      /\ \A i \in 1..Len(answered) : answered'[i] = answered[i]
      /\ answered'[Len(answered) + 1] = p
  BY <1>1, <1>3, <1>4
<1>7. TypeOK' /\ RoomToReceive'
  <2>1. server' \in {"running", "leaked", "blocked", "dead"}
    BY <1>1 DEF IInv, TypeOK
  <2>2. QED
    BY <1>2, <1>4, <1>5, <1>6, <2>1 DEF IInv, TypeOK, RoomToReceive
<1>8. Done' = Done + n /\ Done \in Nat
  BY <1>2, <1>4, <1>5 DEF Done, IInv, TypeOK
<1>9. Framed'
  <2>1. SUFFICES ASSUME NEW i \in 1..(Len(buffer) - n)
                 PROVE  \/ buffer'[i] = received - (Len(buffer) - n) + i
                        \/ i = 1 /\ buffer'[i] = NUL
    BY <1>2, <1>5 DEF Framed, Done, NUL
  <2>2. CASE buffer'[i] = buffer[n + i]
    <3>1. n >= 1 /\ n + i \in 1..Len(buffer) /\ n + i # 1
      BY <1>4, <2>1
    <3>2. buffer[n + i] = received - Len(buffer) + (n + i)
      BY <3>1 DEF IInv, Framed, Done
    <3>3. QED
      BY <1>4, <2>2, <3>2
  <2>3. QED
    BY <1>5, <2>2
<1>10. AnsweredPrefix'
  <2>1. Len(answered') <= Len(packets')
    BY <1>2, <1>3, <1>4, <1>6
  <2>2. \A i \in 1..(Len(answered) + 1) : answered'[i] = i
    <3>1. \A i \in 1..Len(answered) : answered'[i] = i
      BY <1>6 DEF IInv, AnsweredPrefix
    <3>2. QED
      BY <1>3, <1>4, <1>6, <3>1
  <2>3. QED
    BY <1>6, <2>1, <2>2 DEF AnsweredPrefix
<1>11. Contiguous'
  BY <1>2 DEF IInv, Contiguous, EndOf
<1>12. AtNextPacket'
  <2>1. packets[p].at = Done
    BY <1>3, <1>4 DEF IInv, AtNextPacket
  <2>2. Done' = EndOf(p)
    BY <1>4, <1>8, <2>1
  <2>3. EndOf(p) = IF p = Len(packets) THEN sent ELSE packets[p + 1].at
    BY <1>4 DEF IInv, Contiguous
  <2>4. QED
    BY <1>2, <1>3, <1>6, <2>2, <2>3 DEF AtNextPacket
<1>13. QED
  BY <1>4, <1>7, <1>8, <1>9, <1>10, <1>11, <1>12 DEF IInv

\* Every step of the client and the reader (ntyco.c:7-81) keeps the invariant.
LEMMA StepPreserves == IInv /\ [Next]_vars => IInv'
<1> SUFFICES ASSUME IInv, [Next]_vars PROVE IInv'
  OBVIOUS
<1> USE DEF IInv, TypeOK, RoomToReceive, Framed, AnsweredPrefix, Contiguous,
            AtNextPacket, Done, EndOf
<1>1. CASE SendPacket
  BY <1>1, SendPreserves
<1>2. CASE Recv
  BY <1>2, RecvPreserves
<1>3. CASE RecvNothing
  BY <1>3 DEF RecvNothing
<1>4. CASE NoHeader
  BY <1>4, SizesAssumption DEF NoHeader
<1>5. CASE BadHeader
  BY <1>5 DEF BadHeader
<1>6. CASE Incomplete
  <2>1. Len(buffer) < BUFFER_SIZE
    BY <1>6, IncompleteFits DEF Incomplete
  <2>2. QED
    BY <1>6, <2>1 DEF Incomplete
<1>7. CASE HandlePacket
  BY <1>7, HandlePreserves
<1>8. CASE HandlerStops
  BY <1>8 DEF HandlerStops
<1>9. CASE OtherConnections
  BY <1>9 DEF OtherConnections
<1>10. CASE UNCHANGED vars
  BY <1>10 DEF vars
<1>11. QED
  BY <1>1, <1>2, <1>3, <1>4, <1>5, <1>6, <1>7, <1>8, <1>9, <1>10 DEF Next, Reader

\* The strengthened invariant of server_reader holds throughout.
THEOREM Inductive == Spec => []IInv
  BY InitEstablishes, StepPreserves, PTL DEF Spec

\* buffer_len never exceeds the buffer of server_reader (ntyco.c:13-27).
THEOREM TypeCorrect == Spec => []TypeOK
<1>1. IInv => TypeOK
  BY DEF IInv
<1>2. QED
  BY <1>1, Inductive, PTL

\* recv is never called with no room left (ntyco.c:19): BUFFER_SIZE at least
\* one header and MAX_DATA bytes is all it takes.
THEOREM AlwaysRoom == Spec => []RoomToReceive
<1>1. IInv => RoomToReceive
  BY DEF IInv
<1>2. QED
  BY <1>1, Inductive, PTL

\* The buffer is the unread end of the stream, in however many pieces it came
\* and however many packets were cut off it (ntyco.c:76-78).
THEOREM AlwaysFramed == Spec => []Framed
<1>1. IInv => Framed
  BY DEF IInv
<1>2. QED
  BY <1>1, Inductive, PTL

\* No packet is skipped, answered twice or answered out of order
\* (ntyco.c:30-79).
THEOREM AnsweredInOrder == Spec => []InOrder
<1>1. IInv => InOrder
  BY DEF IInv, InOrder
<1>2. QED
  BY <1>1, Inductive, PTL

-----------------------------------------------------------------------------
\* At most one packet of a client that waits is under way, so when it is handled
\* the buffer is empty and the NUL behind the payload overwrites nothing.
OneUnderWay == /\ Len(packets) <= Len(answered) + 1
               /\ Len(buffer) > 0 => buffer[1] # NUL

WInv == IInv /\ (waits => OneUnderWay) /\ ValidKeepsConnection

\* The header at the front of the buffer is that of the packet under way.
LEMMA HeadIsPacket ==
    ASSUME IInv, OneUnderWay, Len(buffer) >= TCP_HEADER_SIZE
    PROVE  \E p \in DOMAIN packets : p \in HeadPacket
<1>1. /\ Len(buffer) \in Nat /\ Len(buffer) > 0 /\ received \in Nat /\ sent \in Nat
      /\ received <= sent /\ Len(packets) \in Nat /\ Len(answered) \in Nat
      /\ DOMAIN packets = 1..Len(packets) /\ Len(answered) <= Len(packets)
  BY SizesAssumption DEF OneUnderWay, IInv, TypeOK, AnsweredPrefix
<1>2. Done \in Int /\ Done < sent /\ 1 \in 1..Len(buffer)
  BY <1>1 DEF Done
<1>3. buffer[1] = Done + 1
  BY <1>1, <1>2 DEF OneUnderWay, IInv, Framed
<1>4. Len(answered) # Len(packets)
  BY <1>1, <1>2 DEF OneUnderWay, IInv, AtNextPacket
<1>5. Len(answered) + 1 \in DOMAIN packets /\ packets[Len(answered) + 1].at = Done
  BY <1>1, <1>4 DEF OneUnderWay, IInv, AtNextPacket
<1>6. Len(answered) + 1 \in HeadPacket
  BY <1>3, <1>5 DEF HeadPacket
<1>7. QED
  BY <1>5, <1>6

\* Every step keeps the connection of such a client.
LEMMA WaitingPreserves == WInv /\ [Next]_vars => WInv'
<1>a. ASSUME WInv, [Next]_vars PROVE IInv' /\ IInv /\ waits' \in BOOLEAN
  BY <1>a, StepPreserves DEF WInv, IInv, TypeOK
<1>b. ASSUME WInv, [Next]_vars, waits' PROVE waits
  BY <1>b DEF Next, Reader, vars, SendPacket, Recv, RecvNothing, NoHeader, BadHeader,
              Incomplete, HandlePacket, HandlerStops, OtherConnections
<1>c. ASSUME WInv, [Next]_vars, ~waits' PROVE WInv'
  BY <1>a, <1>c DEF WInv, ValidKeepsConnection
<1> SUFFICES ASSUME WInv, [Next]_vars, waits' PROVE WInv'
  BY <1>c
<1>0. IInv' /\ IInv /\ waits /\ OneUnderWay
  BY <1>a, <1>b DEF WInv
<1> USE DEF OneUnderWay
<1>1. CASE SendPacket
  <2>1. /\ open /\ open' = open /\ buffer' = buffer /\ answered' = answered
        /\ Len(answered) = Len(packets) /\ Len(packets') = Len(packets) + 1
    <3>1. PICK l \in DataLens, u \in Uses : packets' = Append(packets, [at |-> sent, len |-> l, mutex |-> u])
      BY <1>1 DEF SendPacket
    <3>2. packets \in Seq([at : Nat, len : DataLens, mutex : Uses])
      BY <1>0 DEF IInv, TypeOK
    <3>3. Len(packets') = Len(packets) + 1
      BY <3>1, <3>2, <1>0 DEF IInv, TypeOK
    <3>4. QED
      BY <1>1, <3>3 DEF SendPacket
  <2>2. Len(packets') <= Len(answered') + 1
    BY <1>0, <2>1 DEF IInv, TypeOK
  <2>3. QED
    BY <1>0, <2>1, <2>2 DEF WInv, ValidKeepsConnection
<1>2. CASE Recv
  <2>1. PICK n \in 1..Room : buffer' = buffer \o [i \in 1..n |-> received + i]
    BY <1>2 DEF Recv
  <2>2. /\ packets' = packets /\ answered' = answered /\ open' = open
        /\ buffer \in Seq(Nat) /\ received \in Nat /\ n \in Nat /\ n >= 1
    BY <1>0, <1>2, SizesAssumption DEF Recv, IInv, TypeOK, Room
  <2> DEFINE new == [i \in 1..n |-> received + i]
  <2>3. new \in Seq(Nat) /\ Len(new) = n /\ new[1] = received + 1
    BY <2>2
  <2> HIDE DEF new
  <2>4. buffer'[1] = IF 1 <= Len(buffer) THEN buffer[1] ELSE new[1]
    BY <2>1, <2>2, <2>3, ConcatProperties DEF new
  <2>5. buffer'[1] # NUL
    <3>1. CASE 1 <= Len(buffer)
      BY <1>0, <2>2, <2>4, <3>1
    <3>2. CASE ~(1 <= Len(buffer))
      BY <2>2, <2>3, <2>4, <3>2 DEF NUL
    <3>3. QED
      BY <3>1, <3>2
  <2>6. QED
    BY <1>0, <2>2, <2>5 DEF WInv, ValidKeepsConnection
<1>3. CASE RecvNothing
  BY <1>0, <1>3, SizesAssumption
     DEF RecvNothing, EndOfStream, Room, IInv, TypeOK, RoomToReceive
<1>4. CASE NoHeader
  BY <1>0, <1>4 DEF NoHeader, WInv, ValidKeepsConnection
<1>5. CASE BadHeader
  <2>1. PICK p \in DOMAIN packets : p \in HeadPacket
    BY <1>0, <1>5, HeadIsPacket DEF BadHeader, AtHeader
  <2>2. ~(packets[p].len <= MAX_DATA)
    BY <1>5, <2>1 DEF BadHeader, Accepted
  <2>3. ValidKeepsConnection'
    BY <1>5, <2>1, <2>2 DEF BadHeader, ValidKeepsConnection
  <2>4. QED
    BY <1>0, <1>5, <2>3 DEF BadHeader, WInv
<1>6. CASE Incomplete
  BY <1>0, <1>6 DEF Incomplete, WInv, ValidKeepsConnection
<1>7. CASE HandlePacket
  <2>1. packets' = packets /\ open' = open /\ received' = received /\ sent' = sent
    BY <1>7 DEF HandlePacket
  <2>2. Len(answered') = Len(answered) + 1
    BY <1>0, <1>7 DEF HandlePacket, IInv, TypeOK
  <2>3. /\ Len(packets) \in Nat /\ Len(answered) \in Nat /\ Len(buffer') \in Nat
        /\ received \in Nat /\ sent \in Nat /\ received <= sent
    BY <1>0, <2>1 DEF IInv, TypeOK
  <2>4. Len(answered') = Len(packets')
    BY <1>0, <2>1, <2>2, <2>3 DEF WInv, IInv, AnsweredPrefix
  <2>5. Done' = sent
    BY <1>0, <2>1, <2>4 DEF IInv, AtNextPacket
  <2>6. Len(buffer') = 0
    BY <2>1, <2>3, <2>5 DEF Done
  <2>7. QED
    BY <1>0, <2>1, <2>3, <2>4, <2>6 DEF WInv, ValidKeepsConnection
<1>8. CASE HandlerStops
  BY <1>0, <1>8 DEF HandlerStops, WInv, ValidKeepsConnection
<1>9. CASE OtherConnections
  BY <1>0, <1>9 DEF OtherConnections, WInv, ValidKeepsConnection
<1>10. CASE UNCHANGED vars
  BY <1>0, <1>10 DEF vars, WInv, ValidKeepsConnection
<1>11. QED
  BY <1>1, <1>2, <1>3, <1>4, <1>5, <1>6, <1>7, <1>8, <1>9, <1>10 DEF Next, Reader

\* A client that sends valid packets, each after the answer to the last, is never taken for one that
\* sends rubbish, nor for one that has closed, however its packets are cut into
\* pieces (ntyco.c:19-49).
THEOREM ConnectionKept == Spec => []ValidKeepsConnection
<1>1. Init => WInv
  <2>1. Init => Len(buffer) = 0 /\ Len(packets) = 0 /\ Len(answered) = 0 /\ open
    BY DEF Init
  <2>2. QED
    BY <2>1, InitEstablishes DEF WInv, OneUnderWay, ValidKeepsConnection
<1>2. WInv /\ [Next]_vars => WInv'
  BY WaitingPreserves
<1>3. WInv => ValidKeepsConnection
  BY DEF WInv
<1>4. QED
  BY <1>1, <1>2, <1>3, PTL DEF Spec
=============================================================================
