------------------------------ MODULE Reactor ------------------------------
(***************************************************************************)
(* The event loop of reactor.c with several clients.  conn_list and the    *)
(* epoll registrations are indexed by descriptor, and a descriptor that    *)
(* was closed is the next one accept returns.                              *)
(*                                                                         *)
(* A byte of a client's stream is [c, p, len, at]: byte at of the len      *)
(* bytes of the client's packet p.  Polite clients send a packet that fits *)
(* the buffer, in one piece, and wait for its answer; rude ones send what  *)
(* they like, in any pieces, and hang up at any time.  Connections wait in *)
(* the backlog until accept returns them; what their clients send waits    *)
(* with them.                                                              *)
(***************************************************************************)
EXTENDS Integers, Sequences

CONSTANTS Clients, Polite,
          Fds,            \* descriptors for connections
          BUFFER_LENGTH,  \* 1024
          PacketLens,     \* lengths of packets, header included
          MaxPackets,     \* bound: packets of each client
          None            \* nobody, nothing

ASSUME ReactorAssumption ==
    /\ Polite \subseteq Clients /\ None \notin Clients \cup [c : Clients, p : Nat]
    /\ Fds \subseteq Nat \ {0} /\ PacketLens \subseteq Nat \ {0}
    /\ BUFFER_LENGTH \in Nat \ {0} /\ MaxPackets \in [Clients -> Nat]

Listener == 0   \* the listening socket
Bad == [c |-> None, p |-> 0]   \* the answer to what is no packet: a negative wlength

VARIABLES state,    \* of a client: "new", "queued" in the backlog, "open", "gone"
          backlog,  \* clients accept has not returned yet
          sent,     \* packets a client has sent
          stream,   \* bytes under way from a client
          got,      \* the answers a client has received
          reset,    \* the client's host has refused an answer
          owner,    \* the client behind a descriptor
          event,    \* the event a descriptor is registered for
          rlength, wlength,  \* conn_list: bytes received; the answer to send
          batch,    \* events of the last epoll_wait still to be handled
          server    \* "running", "leaked" when a handler left array_mutex locked,
                    \* "blocked" when one waits for it for ever, "dead"

clientVars == <<state, backlog, sent, stream, got, reset>>
vars == <<clientVars, owner, event, rlength, wlength, batch, server>>

Init == /\ state = [c \in Clients |-> "new"] /\ backlog = <<>>
        /\ sent = [c \in Clients |-> 0] /\ stream = [c \in Clients |-> <<>>]
        /\ got = [c \in Clients |-> <<>>] /\ reset = [c \in Clients |-> FALSE]
        /\ owner = [f \in Fds |-> None] /\ event = [f \in Fds |-> "IN"]
        /\ rlength = [f \in Fds |-> 0] /\ wlength = [f \in Fds |-> None]
        /\ batch = {} /\ server = "running"

\* The thread of the loop makes progress.
Running == server \in {"running", "leaked"}
-----------------------------------------------------------------------------
\* The clients and the network.
Connect(c) ==
    /\ server # "dead" /\ state[c] = "new"
    /\ state' = [state EXCEPT ![c] = "queued"]
    /\ backlog' = Append(backlog, c)
    /\ UNCHANGED <<sent, stream, got, reset, owner, event, rlength, wlength, batch, server>>

\* The bytes of c's packet p.
Packet(c, p, l) == [i \in 1..l |-> [c |-> c, p |-> p, len |-> l, at |-> i]]

SendPacket(c, l) ==
    /\ server # "dead" /\ state[c] \in {"queued", "open"} /\ sent[c] < MaxPackets[c]
    /\ c \in Polite => Len(got[c]) = sent[c] /\ l <= BUFFER_LENGTH
    /\ sent' = [sent EXCEPT ![c] = @ + 1]
    /\ stream' = [stream EXCEPT ![c] = @ \o Packet(c, sent[c] + 1, l)]
    /\ UNCHANGED <<state, backlog, got, reset, owner, event, rlength, wlength, batch, server>>

HangUp(c) ==
    /\ server # "dead" /\ c \notin Polite /\ state[c] \in {"queued", "open"}
    /\ state' = [state EXCEPT ![c] = "gone"]
    /\ UNCHANGED <<backlog, sent, stream, got, reset, owner, event, rlength,
                   wlength, batch, server>>
-----------------------------------------------------------------------------
\* A recv that may return more than the buffer holds.
RecvUnlimited(c) == IF c \in Polite THEN {Len(stream[c])} ELSE 1..Len(stream[c])

\* What recv may return: any part of a rude client's bytes.
RecvSizes(c) == IF c \in Polite THEN {Len(stream[c])}
                ELSE {n \in 1..Len(stream[c]) : n <= BUFFER_LENGTH}

\* kvs_tcp_protocol: the answer to the packet at the front of b; Bad when b does
\* not start with a header or the packet is not complete.  What follows the
\* packet in b is ignored.
kvs_handler(b) == IF b[1].at = 1 /\ Len(b) >= b[1].len
                  THEN [c |-> b[1].c, p |-> b[1].p] ELSE Bad

\* A packet of a rude client may be a GET, DEL or MOD that lacks an argument: the
\* handler then returns with array_mutex locked.
ServerAfter(c, answer) ==
    IF answer # Bad /\ c \notin Polite THEN {server, "leaked"} ELSE {server}

HasInput(x) == stream[x] # <<>> \/ state[x] = "gone" \/ reset[x]

\* A descriptor that reports input and output, as one registered for both does.
EventsUnmasked(f) == {ev \in {"IN", "OUT"} : ev = "IN" => HasInput(owner[f])}

\* The events epoll_wait reports for a connection: those it is registered for; a
\* connection is always writable, it is readable when it has bytes or has ended.
EventsOf(f) ==
    {ev \in {"IN", "OUT"} : ev = event[f] /\ (ev = "IN" => HasInput(owner[f]))}

Ready == (UNION {{[fd |-> f, c |-> owner[f], event |-> ev] : ev \in EventsOf(f)} :
                   f \in {g \in Fds : owner[g] # None}})
         \cup IF backlog # <<>> THEN {[fd |-> Listener, c |-> None, event |-> "IN"]}
                                ELSE {}

\* The loop waits again when it is through with the events of the last wait.
epoll_wait == /\ Running /\ batch = {} /\ Ready # {}
              /\ batch' = Ready
              /\ UNCHANGED <<clientVars, owner, event, rlength, wlength, server>>

\* accept returns the lowest free descriptor; event_register clears the entry.
\* Without a free one accept fails and the client stays in the backlog.
accept_cb ==
    \E e \in batch :
       /\ Running /\ e.fd = Listener /\ batch' = batch \ {e}
       /\ \/ /\ backlog # <<>>
             /\ \E f \in Fds :
                  /\ owner[f] = None /\ \A g \in Fds : owner[g] = None => f <= g
                  /\ owner' = [owner EXCEPT ![f] = Head(backlog)]
                  /\ event' = [event EXCEPT ![f] = "IN"]
                  /\ rlength' = [rlength EXCEPT ![f] = 0]
                  /\ wlength' = [wlength EXCEPT ![f] = None]
             /\ state' = [state EXCEPT ![Head(backlog)] = IF @ = "gone" THEN @ ELSE "open"]
             /\ backlog' = Tail(backlog)
             /\ UNCHANGED <<sent, stream, got, reset, server>>
          \/ /\ \A f \in Fds : owner[f] # None
             /\ UNCHANGED <<clientVars, owner, event, rlength, wlength, server>>

\* A recv_cb that waits for more input.
WaitsForMore == "IN"

\* What the descriptor is registered for once the answer is there, whatever it is.
EventAfterRecv == "OUT"

\* The client of the input event e has sent something: handled, one answer.
recv_cb ==
    \E e \in batch :
       /\ Running /\ e.fd # Listener /\ e.event = "IN" /\ stream[owner[e.fd]] # <<>>
       /\ batch' = batch \ {e}
       /\ LET c == owner[e.fd]
          IN \E n \in RecvSizes(c) :
               /\ stream' = [stream EXCEPT ![c] = SubSeq(@, n + 1, Len(@))]
               /\ rlength' = [rlength EXCEPT ![e.fd] = n]
               /\ wlength' = [wlength EXCEPT ![e.fd] = kvs_handler(SubSeq(stream[c], 1, n))]
               /\ server' \in ServerAfter(c, kvs_handler(SubSeq(stream[c], 1, n)))
       /\ event' = [event EXCEPT ![e.fd] = EventAfterRecv]
       /\ UNCHANGED <<state, backlog, sent, got, reset, owner>>

\* A complete packet whose handler does not return: an array command waits for the
\* array_mutex that stayed locked, or the process ends.
handler_stops ==
    \E e \in batch :
       /\ Running /\ e.fd # Listener /\ e.event = "IN" /\ stream[owner[e.fd]] # <<>>
       /\ LET c == owner[e.fd]
          IN \E n \in RecvSizes(c) : kvs_handler(SubSeq(stream[c], 1, n)) # Bad
       /\ \/ server' = "dead"
          \/ server = "leaked" /\ server' = "blocked"
       /\ UNCHANGED <<clientVars, owner, event, rlength, wlength, batch>>

\* Nothing more to read: recv returns 0, or an error after a reset.
recv_end ==
    \E e \in batch :
       /\ Running /\ e.fd # Listener /\ e.event = "IN" /\ stream[owner[e.fd]] = <<>>
       /\ batch' = batch \ {e}
       /\ owner' = [owner EXCEPT ![e.fd] = None]
       /\ UNCHANGED <<clientVars, event, rlength, wlength, server>>

\* A send_cb that stays registered for output.
StaysWritable == "OUT"

EventAfterSend == "IN"

\* The answer goes out and the descriptor waits for input again.  A negative
\* wlength is a huge length to send: what follows wbuffer in memory goes out
\* too, until the end of the mapping.  A client that has hung up answers with a
\* reset; a send after the reset has arrived, or that is still running then,
\* ends the process with SIGPIPE.  Clients read what they are sent: send on a
\* blocking socket would otherwise not return.
send_cb ==
    \E e \in batch :
       /\ Running /\ e.fd # Listener /\ e.event = "OUT"
       /\ LET c == owner[e.fd]
          IN \/ /\ got' = IF state[c] = "open" /\ wlength[e.fd] # None
                          THEN [got EXCEPT ![c] = Append(@, wlength[e.fd])] ELSE got
                /\ reset' = [reset EXCEPT ![c] = state[c] = "gone"]
                /\ event' = [event EXCEPT ![e.fd] = EventAfterSend]
                /\ batch' = batch \ {e}
                /\ UNCHANGED <<state, backlog, sent, stream, owner, rlength, wlength, server>>
             \/ /\ reset[c] \/ (state[c] = "gone" /\ wlength[e.fd] = Bad)
                /\ server' = "dead"
                /\ UNCHANGED <<clientVars, owner, event, rlength, wlength, batch>>

Loop == epoll_wait \/ accept_cb \/ recv_cb \/ handler_stops \/ recv_end \/ send_cb

Next == \/ \E c \in Clients : Connect(c) \/ HangUp(c)
        \/ \E c \in Clients, l \in PacketLens : SendPacket(c, l)
        \/ Loop

Spec == Init /\ [][Next]_vars

\* The loop runs on, and handles all events of a batch, until a handler stops it;
\* clients need not act.
FairSpec == Spec /\ WF_vars(Loop)
-----------------------------------------------------------------------------
\* Types: a recv never writes past rbuffer.
TypeOK == /\ state \in [Clients -> {"new", "queued", "open", "gone"}]
          /\ backlog \in Seq(Clients) /\ sent \in [Clients -> Nat]
          /\ owner \in [Fds -> Clients \cup {None}] /\ event \in [Fds -> {"IN", "OUT"}]
          /\ rlength \in [Fds -> 0..BUFFER_LENGTH]
          /\ reset \in [Clients -> BOOLEAN]
          /\ server \in {"running", "leaked", "blocked", "dead"}

\* An event is handled for the connection it was reported for: although the
\* handlers close, accept and register while the batch is worked off, no
\* descriptor in the rest of the batch has a new owner or a new registration
\* (reactor.c:281-305).
NoStaleEvent ==
    \A e \in batch : e.fd # Listener =>
       owner[e.fd] = e.c /\ e.c # None /\ event[e.fd] = e.event

\* A client gets answers to its own packets only, in the order sent and none
\* twice, however descriptors are reused and whatever other clients send; a
\* polite client gets one for each packet and nothing else (reactor.c:137-234).
\* What a negative length sends is no answer; it is recorded as Bad.
OwnAnswers ==
    \A c \in Clients :
       LET real == {i \in DOMAIN got[c] : got[c][i] # Bad}
       IN /\ \A i \in real : got[c][i].c = c /\ got[c][i].p <= sent[c]
          /\ \A i, j \in real : i < j => got[c][i].p < got[c][j].p
          /\ c \in Polite => \A i \in DOMAIN got[c] : i \in real /\ got[c][i].p = i

\* c waits in the backlog and no descriptor is free.
Starved(c) == state[c] = "queued" /\ \A f \in Fds : owner[f] # None

\* Rude clients do not keep a polite one from being served, also one that sends
\* while it is in the backlog: half packets, several packets at once, hang-ups and
\* the reuse of their descriptors included.  What they can do is to hold all
\* descriptors for ever, or to stop the loop for everyone: by a packet that ends
\* the process, or by one that leaves array_mutex locked (reactor.c:281-305).
\* Clients read what they are sent.
PoliteServed ==
    \A c \in Polite : \A n \in 1..MaxPackets[c] :
       \/ (sent[c] = n) ~> (Len(got[c]) >= n)
       \/ <>[]Starved(c)
       \/ <>[]~Running
=============================================================================
