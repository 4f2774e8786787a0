---------------------------- MODULE NtycoReader ----------------------------
(***************************************************************************)
(* One client connection of the coroutine server: server_reader (ntyco.c)  *)
(* collects bytes in a fixed buffer, cuts packets out of it, hands each to *)
(* kvs_tcp_protocol (kvstore.c) and sends the answer.  recv returns any    *)
(* part of what is under way, so packets arrive in arbitrary pieces.       *)
(*                                                                         *)
(* A byte of the client's stream is its position in the stream; NUL is a   *)
(* byte the server has overwritten.                                        *)
(*                                                                         *)
(* All connections share one thread and one array_mutex.  A handler that   *)
(* returns with the mutex locked makes the next one that locks it wait for *)
(* ever, and a handler may end the process: then no reader runs any more.  *)
(***************************************************************************)
EXTENDS Integers, Sequences

CONSTANTS TCP_HEADER_SIZE,  \* 24
          MAX_DATA,         \* the largest data_len accepted, 1024
          BUFFER_SIZE,      \* 4096
          DataLens,         \* the data_len values clients send
          Uses,             \* what the commands sent do with array_mutex
          MaxPackets        \* bound: packets per connection

ASSUME SizesAssumption ==
    /\ TCP_HEADER_SIZE \in Nat \ {0} /\ MAX_DATA \in Nat /\ BUFFER_SIZE \in Nat
    /\ BUFFER_SIZE >= TCP_HEADER_SIZE + MAX_DATA
ASSUME ClientAssumption == /\ DataLens \subseteq Nat /\ MaxPackets \in Nat
                           /\ Uses \subseteq {"none", "locks", "leaks"}

VARIABLES packets,   \* the packets the client has sent: where each starts in
                     \* the stream, its data_len, and what its command does
                     \* with array_mutex: "locks" releases it again, "leaks"
                     \* (a GET, DEL or MOD that lacks an argument) does not
          sent,      \* bytes the client has sent
          received,  \* of these, bytes recv has returned
          buffer,    \* buffer[0 .. buffer_len) of server_reader
          pc,        \* "recv", or "parse" in the inner loop
          open,      \* the connection is open
          answered,  \* the packets answered, in order
          waits,     \* history: the client has sent each packet after the answer
                     \* to the one before, and has not closed the connection
          server     \* "running", "leaked" when array_mutex stayed locked,
                     \* "blocked" when a handler waits for it, "dead"

vars == <<packets, sent, received, buffer, pc, open, answered, waits, server>>

NUL == 0

Init == /\ packets = <<>> /\ sent = 0 /\ received = 0
        /\ buffer = <<>> /\ pc = "recv" /\ open = TRUE /\ answered = <<>>
        /\ waits = TRUE /\ server = "running"

\* The thread of the readers makes progress.
Running == server \in {"running", "leaked"}

\* The client: one packet, a header and data_len bytes.
SendPacket ==
    /\ open /\ Len(packets) < MaxPackets
    /\ waits' = (waits /\ Len(answered) = Len(packets))
    /\ \E l \in DataLens, u \in Uses :
          /\ packets' = Append(packets, [at |-> sent, len |-> l, mutex |-> u])
          /\ sent' = sent + TCP_HEADER_SIZE + l
    /\ UNCHANGED <<received, buffer, pc, open, answered, server>>

\* A recv that may fill a whole buffer, wherever it writes.
WholeBuffer == BUFFER_SIZE

\* How much recv may return.
Room == BUFFER_SIZE - Len(buffer)

\* recv into the rest of the buffer; afterwards the inner loop starts.
Recv ==
    /\ Running /\ open /\ pc = "recv"
    /\ \E n \in 1..Room :
          /\ n <= sent - received
          /\ buffer' = buffer \o [i \in 1..n |-> received + i]
          /\ received' = received + n
    /\ pc' = "parse"
    /\ UNCHANGED <<packets, sent, open, answered, waits, server>>

\* recv returns 0 when the client has closed and all is read, and also when
\* it is called with no room left.
EndOfStream == received = sent \/ Room = 0

\* The reader closes the connection and returns.
RecvNothing ==
    /\ Running /\ open /\ pc = "recv" /\ EndOfStream
    /\ open' = FALSE /\ waits' = (waits /\ Room = 0)
    /\ UNCHANGED <<packets, sent, received, buffer, pc, answered, server>>

\* The packet whose header the buffer starts with, if it does.
HeadPacket == {p \in DOMAIN packets : buffer[1] = packets[p].at + 1}

\* A header check without the limit on data_len.
AcceptedAnyLength(p) == p \in HeadPacket

\* A header check that refuses the largest packet.
AcceptedBelow(p) == p \in HeadPacket /\ packets[p].len < MAX_DATA

\* parse_tcp_header accepts it: right magic and version, data_len within bounds.
Accepted(p) == p \in HeadPacket /\ packets[p].len <= MAX_DATA

TotalLen(p) == TCP_HEADER_SIZE + packets[p].len

\* A test that also waits when exactly one packet is in the buffer.
CompleteStrict(p) == Len(buffer) > TotalLen(p)

\* The whole packet is in the buffer.
Complete(p) == Len(buffer) >= TotalLen(p)

AtHeader == Running /\ open /\ pc = "parse" /\ Len(buffer) >= TCP_HEADER_SIZE

\* Less than a header: back to recv.
NoHeader == /\ Running /\ open /\ pc = "parse" /\ Len(buffer) < TCP_HEADER_SIZE
            /\ pc' = "recv"
            /\ UNCHANGED <<packets, sent, received, buffer, open, answered, waits, server>>

\* parse_tcp_header fails: close and return.
BadHeader == /\ AtHeader /\ \A p \in DOMAIN packets : ~Accepted(p)
             /\ open' = FALSE
             /\ UNCHANGED <<packets, sent, received, buffer, pc, answered, waits, server>>

\* The packet is not complete: back to recv.
Incomplete == /\ AtHeader
              /\ \E p \in DOMAIN packets : Accepted(p) /\ ~Complete(p)
              /\ pc' = "recv"
              /\ UNCHANGED <<packets, sent, received, buffer, open, answered, waits, server>>

\* A move that starts one byte too early.
MovedFromLastByte(b, n, l) == SubSeq(b, n, Len(b) - 1)

\* A reader that forgets the move.
NotMoved(b, n, l) == b

\* kvs_tcp_protocol ends the payload with data[data_len] = NUL, one byte past
\* the packet; then memmove moves the rest of the buffer b to the front.
AfterPacket(b, n, l) ==
    [i \in 1..(Len(b) - n) |-> IF i = 1 /\ l > 0 THEN NUL ELSE b[n + i]]

\* A complete packet: handled, answered, removed from the buffer.
HandlePacket ==
    /\ AtHeader
    /\ \E p \in DOMAIN packets :
          /\ Accepted(p) /\ Complete(p)
          /\ server = "leaked" => packets[p].mutex = "none"
          /\ buffer' = AfterPacket(buffer, TotalLen(p), packets[p].len)
          /\ answered' = Append(answered, p)
          /\ server' = IF packets[p].mutex = "leaks" THEN "leaked" ELSE server
    /\ UNCHANGED <<packets, sent, received, pc, open, waits>>

\* A complete packet whose handler does not return: it waits for array_mutex, or
\* it ends the process, as a DEL over a hole of the array does.
HandlerStops ==
    /\ AtHeader
    /\ \E p \in DOMAIN packets :
          /\ Accepted(p) /\ Complete(p)
          /\ \/ server = "leaked" /\ packets[p].mutex # "none" /\ server' = "blocked"
             \/ server' = "dead"
    /\ UNCHANGED <<packets, sent, received, buffer, pc, open, answered, waits>>

\* What the packets of other connections do to the thread and to array_mutex.
OtherConnections ==
    /\ Running
    /\ \/ server' = "leaked"
       \/ server = "leaked" /\ server' = "blocked"
       \/ server' = "dead"
    /\ UNCHANGED <<packets, sent, received, buffer, pc, open, answered, waits>>

Reader == \/ Recv \/ RecvNothing \/ NoHeader \/ BadHeader \/ Incomplete
          \/ HandlePacket \/ HandlerStops

Next == SendPacket \/ Reader \/ OtherConnections

Spec == Init /\ [][Next]_vars

\* While the thread runs, the coroutine is resumed when its socket is readable;
\* clients are not obliged to send.
FairSpec == Spec /\ WF_vars(Recv) /\ WF_vars(NoHeader \/ BadHeader \/ Incomplete
                                             \/ HandlePacket \/ HandlerStops)

-----------------------------------------------------------------------------
\* Types: buffer_len never exceeds the buffer.
TypeOK == /\ packets \in Seq([at : Nat, len : DataLens, mutex : Uses])
          /\ sent \in Nat /\ received \in 0..sent
          /\ buffer \in Seq(Nat) /\ Len(buffer) <= BUFFER_SIZE
          /\ pc \in {"recv", "parse"} /\ open \in BOOLEAN
          /\ answered \in Seq(Nat) /\ waits \in BOOLEAN
          /\ server \in {"running", "leaked", "blocked", "dead"}

\* Whatever the sizes and the pieces in which packets arrive, recv is never
\* called with no room left, which would read as the client having closed
\* (ntyco.c:19-25): an incomplete packet never fills the buffer.
RoomToReceive == pc = "recv" => Len(buffer) < BUFFER_SIZE

\* How many bytes of the stream the reader is done with.
Done == received - Len(buffer)

\* The buffer is the unread end of what was received, byte for byte, except
\* for a NUL at its front: in however many pieces the stream comes and however
\* many packets memmove has cut off it (ntyco.c:77-78).
Framed == \A i \in 1..Len(buffer) :
             buffer[i] = Done + i \/ (i = 1 /\ buffer[i] = NUL)

AnsweredPrefix == /\ Len(answered) <= Len(packets)
                  /\ \A i \in 1..Len(answered) : answered[i] = i

AtNextPacket ==
    Done = IF Len(answered) = Len(packets) THEN sent
           ELSE packets[Len(answered) + 1].at

\* Each packet is answered once, in the order sent, and what the reader has
\* taken off the stream is exactly the answered packets (ntyco.c:43-78).
InOrder == AnsweredPrefix /\ AtNextPacket

\* A client that sends only valid packets, and each after the answer to the one
\* before, keeps its connection until it closes it, in however many pieces its
\* packets arrive.  What follows a packet in the buffer may lose its first byte
\* to the NUL of kvstore.c:494, so one that does not wait may lose it: ntyco.c:29
\* "process complete packets", ntyco.c:76 "remove the processed packet".
ValidKeepsConnection ==
    waits /\ (\A p \in DOMAIN packets : packets[p].len <= MAX_DATA) => open

\* Every packet of a client that sends valid packets one at a time is answered,
\* in however many pieces it arrives, unless a handler, of this connection or of
\* another, ended the process or waits for the array_mutex an earlier one left
\* locked (ntyco.c:19-79, kvs_array.c:95-97).
EveryPacketAnswered ==
    \A n \in 1..MaxPackets :
       (Len(packets) >= n /\ \A p \in 1..n : packets[p].len <= MAX_DATA)
         ~> (Len(answered) >= n \/ ~Running \/ ~waits)
=============================================================================
