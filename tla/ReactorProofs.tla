--------------------------- MODULE ReactorProofs ---------------------------
(***************************************************************************)
(* Proofs about Reactor for all sets of clients and descriptors, all       *)
(* packet and buffer sizes and any number of packets.                      *)
(*                                                                         *)
(* None of the three invariants is inductive.  That a recv fits rbuffer    *)
(* needs that a polite client has at most one packet under way, so it      *)
(* needs to know which answers the client has had; that answers are the    *)
(* client's own needs that a client is behind one descriptor only, which   *)
(* in turn needs that the backlog and the descriptors share no client; and *)
(* their order is that of the bytes still in the stream.                   *)
(***************************************************************************)
EXTENDS Reactor, SequenceTheorems, TLAPS

Byte == [c : Clients, p : Nat, len : Nat, at : Nat]
Reply == [c : Clients \cup {None}, p : Nat]
Event == [fd : Fds \cup {Listener}, c : Clients \cup {None}, event : {"IN", "OUT"}]

DataTypes == /\ stream \in [Clients -> Seq(Byte)]
             /\ got \in [Clients -> Seq(Reply)]
             /\ wlength \in [Fds -> Reply \cup {None}]
             /\ batch \subseteq Event

\* A client is in the backlog once, or behind one descriptor, never both.
OneConnection ==
    /\ \A i \in DOMAIN backlog : state[backlog[i]] \in {"queued", "gone"}
    /\ \A i \in DOMAIN backlog, f \in Fds : owner[f] # backlog[i]
    /\ \A i, j \in DOMAIN backlog : backlog[i] = backlog[j] => i = j
    /\ \A f \in Fds : owner[f] # None => state[owner[f]] \in {"open", "gone"}
    /\ \A f, g \in Fds : owner[f] # None /\ owner[f] = owner[g] => f = g

\* Byte b of a stream is behind the first byte of packet n.
Behind(b, n) == b.p > n \/ (b.p = n /\ b.at > 1)

\* The bytes s are client c's own, in the order sent, from packets up to n.
InOrder(c, s, n) ==
    /\ \A i \in DOMAIN s : s[i].c = c /\ s[i].p <= n /\ s[i].at >= 1
    /\ \A i, j \in DOMAIN s : i < j =>
          s[i].p < s[j].p \/ (s[i].p = s[j].p /\ s[i].at < s[j].at)

\* The answers g are to packets of c, in order, and the first bytes of these
\* packets are no longer in s.
Answered(c, g, s, n) ==
    /\ \A i \in DOMAIN g : g[i] # Bad =>
          /\ g[i].c = c /\ g[i].p <= n
          /\ \A j \in DOMAIN s : Behind(s[j], g[i].p)
    /\ \A i, j \in DOMAIN g : i < j /\ g[i] # Bad /\ g[j] # Bad => g[i].p < g[j].p

\* Likewise for the answer w that comes after those in g.
NextAnswer(c, w, g, s, n) ==
    w \notin {None, Bad} =>
       /\ w.c = c /\ w.p <= n
       /\ \A j \in DOMAIN s : Behind(s[j], w.p)
       /\ \A i \in DOMAIN g : g[i] # Bad => g[i].p < w.p

\* Bytes and answers of every client are in order, the answers that wait to be
\* sent included.
AllInOrder ==
    /\ \A c \in Clients : /\ InOrder(c, stream[c], sent[c])
                          /\ Answered(c, got[c], stream[c], sent[c])
    /\ \A f \in Fds : owner[f] # None /\ event[f] = "OUT" =>
          NextAnswer(owner[f], wlength[f], got[owner[f]], stream[owner[f]], sent[owner[f]])

\* The client waits for nothing,
Quiet(c) == /\ Len(got[c]) = sent[c] /\ stream[c] = <<>>
            /\ \A f \in Fds : owner[f] = c => event[f] = "IN"

\* or its one packet is under way and fits the buffer,
Asked(c) == /\ Len(got[c]) + 1 = sent[c] /\ stream[c] # <<>>
            /\ Len(stream[c]) <= BUFFER_LENGTH
            /\ \A i \in DOMAIN stream[c] :
                  stream[c][i] = [c |-> c, p |-> sent[c], len |-> Len(stream[c]), at |-> i]
            /\ \A f \in Fds : owner[f] = c => event[f] = "IN"

\* or the answer waits to be sent.
Handled(c) == /\ Len(got[c]) + 1 = sent[c] /\ stream[c] = <<>>
              /\ \E f \in Fds : owner[f] = c
              /\ \A f \in Fds : owner[f] = c =>
                    /\ event[f] = "OUT" /\ wlength[f] = [c |-> c, p |-> sent[c]]

PoliteDialogue ==
    \A c \in Polite :
       /\ state[c] # "gone"
       /\ \A i \in DOMAIN got[c] : got[c][i] = [c |-> c, p |-> i]
       /\ Quiet(c) \/ Asked(c) \/ Handled(c)

IInv == /\ TypeOK /\ DataTypes /\ NoStaleEvent /\ OneConnection
        /\ AllInOrder /\ PoliteDialogue
-----------------------------------------------------------------------------
LEMMA ListenerApart == Listener \notin Fds
  BY ReactorAssumption DEF Listener

\* An event of a batch is determined by its descriptor.
LEMMA OneEventPerDescriptor ==
    ASSUME DataTypes, NoStaleEvent, NEW e \in batch, NEW d \in batch,
           e.fd # Listener, d.fd = e.fd
    PROVE  d = e
<1>1. d.c = e.c /\ d.event = e.event
  BY DEF NoStaleEvent
<1>2. e \in Event /\ d \in Event
  BY DEF DataTypes
<1> QED BY <1>1, <1>2 DEF Event

\* What epoll_wait reports is up to date.
LEMMA ReadyIsFresh ==
    ASSUME TypeOK, NEW e \in Ready
    PROVE  /\ e \in Event
           /\ e.fd # Listener => owner[e.fd] = e.c /\ e.c # None /\ event[e.fd] = e.event
<1>1. CASE e = [fd |-> Listener, c |-> None, event |-> "IN"]
  BY <1>1 DEF Event
<1>2. CASE \E f \in Fds : \E ev \in EventsOf(f) :
             owner[f] # None /\ e = [fd |-> f, c |-> owner[f], event |-> ev]
  <2>1. PICK f \in Fds : \E ev \in EventsOf(f) :
             owner[f] # None /\ e = [fd |-> f, c |-> owner[f], event |-> ev]
    BY <1>2
  <2>2. PICK ev \in EventsOf(f) :
             owner[f] # None /\ e = [fd |-> f, c |-> owner[f], event |-> ev]
    BY <2>1
  <2>3. ev \in {"IN", "OUT"} /\ ev = event[f]
    BY DEF EventsOf
  <2>4. owner[f] \in Clients \cup {None}
    BY DEF TypeOK
  <2> QED BY <2>2, <2>3, <2>4 DEF Event
<1>3. \/ e = [fd |-> Listener, c |-> None, event |-> "IN"]
      \/ \E S \in {{[fd |-> f, c |-> owner[f], event |-> ev] : ev \in EventsOf(f)} :
                     f \in {g \in Fds : owner[g] # None}} : e \in S
  BY DEF Ready
<1> QED BY <1>1, <1>2, <1>3

\* Steps that move no byte and no answer and change no registration.
LEMMA NothingMoves ==
    ASSUME IInv, UNCHANGED <<sent, stream, got, owner, event, wlength>>
    PROVE  AllInOrder' /\ ((\A x \in Polite : state'[x] # "gone") => PoliteDialogue')
<1> USE DEF IInv
<1>1. AllInOrder'
  BY DEF AllInOrder
<1>2. \A x \in Polite : (Quiet(x) => Quiet(x)') /\ (Asked(x) => Asked(x)')
                        /\ (Handled(x) => Handled(x)')
  BY DEF Quiet, Asked, Handled
<1>3. (\A x \in Polite : state'[x] # "gone") => PoliteDialogue'
  BY <1>2 DEF PoliteDialogue
<1> QED BY <1>1, <1>3

\* Handling an event leaves the other ones as they are.
LEMMA RestOfBatch ==
    ASSUME IInv, NEW e \in batch, e.fd # Listener, batch' = batch \ {e},
           \A f \in Fds \ {e.fd} : owner'[f] = owner[f] /\ event'[f] = event[f]
    PROVE  /\ batch' \subseteq Event /\ NoStaleEvent'
           /\ e.fd \in Fds /\ owner[e.fd] = e.c /\ e.c \in Clients /\ event[e.fd] = e.event
<1> USE DEF IInv
<1>1. \A d \in batch' : d \in batch /\ d.fd # e.fd
  BY OneEventPerDescriptor
<1>2. \A d \in batch : d \in Event /\ d.fd \in Fds \cup {Listener} /\ d.c \in Clients \cup {None}
  BY DEF DataTypes, Event
<1>3. \A d \in batch' : d.fd # Listener => d.fd \in Fds \ {e.fd}
  BY <1>1, <1>2
<1> QED BY <1>1, <1>2, <1>3 DEF NoStaleEvent

-----------------------------------------------------------------------------
\* What the orders of bytes and answers need, without the system around them.

LEMMA ReplyNumbers == ASSUME NEW g \in Seq(Reply) PROVE \A i \in DOMAIN g : g[i].p \in Nat
<1>1. \A i \in DOMAIN g : g[i] \in Reply
  OBVIOUS
<1> QED BY <1>1 DEF Reply

\* The bytes t are the bytes s and packet n of c behind them.
Extended(t, s, c, n, l) ==
    /\ t \in Seq(Byte) /\ Len(t) = Len(s) + l
    /\ \A i \in 1..Len(s) : t[i] = s[i]
    /\ \A i \in 1..l : t[Len(s) + i] = [c |-> c, p |-> n, len |-> l, at |-> i]

LEMMA PacketBytes ==
    ASSUME NEW c \in Clients, NEW s \in Seq(Byte), NEW n \in Nat, NEW l \in Nat \ {0}
    PROVE  Extended(s \o Packet(c, n, l), s, c, n, l)
<1> DEFINE b(i) == [c |-> c, p |-> n, len |-> l, at |-> i]
           pkt == Packet(c, n, l)
<1>1. \A i \in 1..l : b(i) \in Byte
  BY DEF Byte
<1>2. pkt = [i \in 1..l |-> b(i)]
  BY DEF Packet
<1>3. pkt \in Seq(Byte) /\ Len(pkt) = l /\ \A i \in 1..l : pkt[i] = b(i)
  <2> HIDE DEF b, pkt
  <2> QED BY <1>1, <1>2
<1> HIDE DEF b, pkt
<1>4. Len(s) \in Nat
  OBVIOUS
<1>5. /\ s \o pkt \in Seq(Byte) /\ Len(s \o pkt) = Len(s) + l
      /\ \A i \in 1..(Len(s) + l) :
            (s \o pkt)[i] = IF i <= Len(s) THEN s[i] ELSE pkt[i - Len(s)]
  BY <1>3, ConcatProperties
<1>6. \A i \in 1..l : (s \o pkt)[Len(s) + i] = b(i)
  BY <1>3, <1>4, <1>5
<1>7. \A i \in 1..Len(s) : (s \o pkt)[i] = s[i]
  BY <1>4, <1>5
<1> QED BY <1>5, <1>6, <1>7 DEF pkt, b, Extended

\* A packet is sent.
LEMMA PacketAppended ==
    ASSUME NEW c \in Clients, NEW s \in Seq(Byte), NEW n \in Nat, NEW l \in Nat \ {0},
           InOrder(c, s, n), NEW t \in Seq(Byte), Len(t) = Len(s) + l,
           \A i \in 1..Len(s) : t[i] = s[i],
           \A i \in 1..l : t[Len(s) + i] = [c |-> c, p |-> n + 1, len |-> l, at |-> i]
    PROVE  /\ InOrder(c, t, n + 1)
           /\ \A g \in Seq(Reply) : Answered(c, g, s, n) => Answered(c, g, t, n + 1)
           /\ \A g \in Seq(Reply), w \in Reply \cup {None} :
                 NextAnswer(c, w, g, s, n) => NextAnswer(c, w, g, t, n + 1)
<1>1. DOMAIN s = 1..Len(s) /\ Len(s) \in Nat /\ DOMAIN t = 1..(Len(s) + l)
  OBVIOUS
<1>2. \A i \in DOMAIN s : t[i] = s[i] /\ s[i].p \in Nat /\ s[i].at \in Nat
  <2>1. \A i \in DOMAIN s : s[i] \in Byte
    OBVIOUS
  <2> QED BY <1>1, <2>1 DEF Byte
<1>3. \A i \in DOMAIN t \ DOMAIN s : t[i] = [c |-> c, p |-> n + 1, len |-> l, at |-> i - Len(s)] /\ i > Len(s)
  <2>1. \A i \in DOMAIN t \ DOMAIN s :
           i - Len(s) \in 1..l /\ i = Len(s) + (i - Len(s)) /\ i > Len(s)
    BY <1>1
  <2> QED BY <2>1
<1>4. InOrder(c, s, n)
  OBVIOUS
<1>5. \A i \in DOMAIN t \ DOMAIN s : /\ t[i].c = c /\ t[i].p = n + 1
                                     /\ t[i].at = i - Len(s) /\ i > Len(s)
  BY <1>3
<1>6. InOrder(c, t, n + 1)
  <2>1. \A i \in DOMAIN t : t[i].c = c /\ t[i].p <= n + 1 /\ t[i].at >= 1
    BY <1>1, <1>2, <1>5 DEF InOrder
  <2>2. ASSUME NEW i \in DOMAIN t, NEW j \in DOMAIN t, i < j
        PROVE  t[i].p < t[j].p \/ (t[i].p = t[j].p /\ t[i].at < t[j].at)
    <3>1. CASE i \in DOMAIN s /\ j \in DOMAIN s
      <4>1. s[i].p < s[j].p \/ (s[i].p = s[j].p /\ s[i].at < s[j].at)
        BY <2>2, <3>1, <1>4 DEF InOrder
      <4> QED BY <3>1, <4>1, <1>2
    <3>2. CASE i \in DOMAIN s /\ j \notin DOMAIN s
      BY <2>2, <3>2, <1>2, <1>5 DEF InOrder
    <3>3. CASE i \notin DOMAIN s /\ j \notin DOMAIN s
      BY <2>2, <3>3, <1>1, <1>5
    <3>4. CASE i \notin DOMAIN s /\ j \in DOMAIN s
      BY <2>2, <3>4, <1>1
    <3> QED BY <3>1, <3>2, <3>3, <3>4
  <2> QED BY <2>1, <2>2 DEF InOrder
<1>7. \A m \in Nat : m <= n /\ (\A j \in DOMAIN s : Behind(s[j], m))
                       => m <= n + 1 /\ \A j \in DOMAIN t : Behind(t[j], m)
  BY <1>2, <1>5 DEF Behind
<1>8. ASSUME NEW g \in Seq(Reply), Answered(c, g, s, n) PROVE Answered(c, g, t, n + 1)
  <2>1. \A i \in DOMAIN g : g[i].p \in Nat
    BY ReplyNumbers
  <2> QED BY <2>1, <1>7, <1>8 DEF Answered
<1>9. ASSUME NEW g \in Seq(Reply), NEW w \in Reply \cup {None}, NextAnswer(c, w, g, s, n)
      PROVE  NextAnswer(c, w, g, t, n + 1)
  <2>1. w # None => w.p \in Nat
    BY DEF Reply
  <2> QED BY <2>1, <1>7, <1>9 DEF NextAnswer
<1> QED BY <1>6, <1>8, <1>9

\* The bytes t are what is left of s when its first k bytes are gone.
Rest(t, s, k) == /\ t \in Seq(Byte) /\ Len(t) = Len(s) - k
                 /\ \A i \in 1..Len(t) : t[i] = s[k + i]

LEMMA RestInOrder ==
    ASSUME NEW c \in Clients, NEW s \in Seq(Byte), NEW n \in Nat, NEW k \in 1..Len(s),
           InOrder(c, s, n), NEW t, Rest(t, s, k)
    PROVE  /\ InOrder(c, t, n)
           /\ \A g \in Seq(Reply) : Answered(c, g, s, n) => Answered(c, g, t, n)
           /\ s[1].at = 1 => \A j \in DOMAIN t : Behind(t[j], s[1].p)
<1>1. DOMAIN s = 1..Len(s) /\ Len(s) \in Nat /\ DOMAIN t = 1..(Len(s) - k)
  BY DEF Rest
<1>2. \A i \in DOMAIN t : k + i \in DOMAIN s /\ t[i] = s[k + i] /\ 1 < k + i
  BY <1>1 DEF Rest
<1>3. \A i \in DOMAIN s : s[i].p \in Nat /\ s[i].at \in Nat
  <2>1. \A i \in DOMAIN s : s[i] \in Byte
    OBVIOUS
  <2> QED BY <2>1 DEF Byte
<1>4. \A i, j \in DOMAIN t : i < j => k + i < k + j
  BY <1>1
<1>5. InOrder(c, t, n)
  BY <1>2, <1>4 DEF InOrder
<1>6. \A g \in Seq(Reply) : Answered(c, g, s, n) => Answered(c, g, t, n)
  BY <1>2 DEF Answered
<1>7. s[1].at = 1 => \A j \in DOMAIN t : Behind(t[j], s[1].p)
  <2>1. 1 \in DOMAIN s
    BY <1>1
  <2>2. \A i \in DOMAIN s : 1 < i =>
           s[1].p < s[i].p \/ (s[1].p = s[i].p /\ s[1].at < s[i].at)
    BY <2>1 DEF InOrder
  <2> QED BY <1>2, <1>3, <2>1, <2>2 DEF Behind
<1> QED BY <1>5, <1>6, <1>7

AnswerTo(s, k) == kvs_handler(SubSeq(s, 1, k))

\* A part of the stream is received and its first packet answered.
LEMMA PartReceived ==
    ASSUME NEW c \in Clients, NEW s \in Seq(Byte), NEW n \in Nat, NEW k \in 1..Len(s),
           InOrder(c, s, n), NEW g \in Seq(Reply), Answered(c, g, s, n),
           NEW t, Rest(t, s, k)
    PROVE  /\ AnswerTo(s, k) \in Reply
           /\ AnswerTo(s, k) = IF s[1].at = 1 /\ k >= s[1].len
                               THEN [c |-> c, p |-> s[1].p] ELSE Bad
           /\ InOrder(c, t, n) /\ Answered(c, g, t, n)
           /\ NextAnswer(c, AnswerTo(s, k), g, t, n)
<1> DEFINE w == AnswerTo(s, k)
<1> HIDE DEF w
<1>1. /\ SubSeq(s, 1, k)[1] = s[1] /\ Len(SubSeq(s, 1, k)) = k
      /\ s[1] \in Byte /\ 1 \in DOMAIN s /\ DOMAIN s = 1..Len(s) /\ Len(s) \in Nat
  OBVIOUS
<1>2. s[1].c = c /\ s[1].p <= n
  BY <1>1 DEF InOrder
<1>3. w = IF s[1].at = 1 /\ k >= s[1].len THEN [c |-> c, p |-> s[1].p] ELSE Bad
  BY <1>1, <1>2 DEF kvs_handler, AnswerTo, w
<1>4. w \in Reply
  BY <1>1, <1>3 DEF Byte, Reply, Bad
<1>6. InOrder(c, t, n) /\ Answered(c, g, t, n)
  BY RestInOrder
<1>7. ASSUME w # Bad PROVE NextAnswer(c, w, g, t, n)
  <2>1. s[1].at = 1 /\ w.c = c /\ w.p = s[1].p /\ s[1].p \in Nat
    BY <1>1, <1>3, <1>7 DEF Byte
  <2>2. \A j \in DOMAIN t : Behind(t[j], w.p)
    BY <2>1, RestInOrder
  <2>3. \A i \in DOMAIN g : g[i] # Bad => g[i].p < w.p
    <3>1. \A i \in DOMAIN g : g[i].p \in Nat
      BY ReplyNumbers
    <3> QED BY <3>1, <2>1, <1>1 DEF Answered, Behind
  <2> QED BY <2>1, <2>2, <2>3, <1>2 DEF NextAnswer
<1> QED BY <1>3, <1>4, <1>6, <1>7 DEF NextAnswer, w

\* The next answer is sent.
LEMMA AnswerSent ==
    ASSUME NEW c \in Clients, NEW s \in Seq(Byte), NEW n \in Nat, NEW g \in Seq(Reply),
           NEW w \in Reply, w # None, Answered(c, g, s, n), NextAnswer(c, w, g, s, n)
    PROVE  Append(g, w) \in Seq(Reply) /\ Answered(c, Append(g, w), s, n)
<1> DEFINE h == Append(g, w)
<1>1. /\ h \in Seq(Reply) /\ DOMAIN h = 1..(Len(g) + 1) /\ DOMAIN g = 1..Len(g)
      /\ Len(g) \in Nat /\ h[Len(g) + 1] = w
      /\ \A i \in DOMAIN g : h[i] = g[i]
  OBVIOUS
<1> HIDE DEF h
<1>2. \A i \in DOMAIN h : i \in DOMAIN g \/ i = Len(g) + 1
  BY <1>1
<1> QED BY <1>1, <1>2 DEF Answered, NextAnswer, h

-----------------------------------------------------------------------------
LEMMA InitInv == Init => IInv
<1> SUFFICES ASSUME Init PROVE IInv
  OBVIOUS
<1>1. TypeOK /\ DataTypes /\ NoStaleEvent
  BY ReactorAssumption DEF Init, TypeOK, DataTypes, NoStaleEvent
<1>2. OneConnection
  BY DEF Init, OneConnection
<1>3. AllInOrder
  BY DEF Init, AllInOrder, InOrder, Answered
<1>4. PoliteDialogue
  <2>1. \A c \in Polite : /\ state[c] = "new" /\ sent[c] = 0
                          /\ got[c] = <<>> /\ stream[c] = <<>>
    BY ReactorAssumption DEF Init
  <2>2. \A f \in Fds : event[f] = "IN"
    BY DEF Init
  <2>3. \A c \in Polite : Quiet(c)
    BY <2>1, <2>2 DEF Quiet
  <2> QED BY <2>1, <2>3 DEF PoliteDialogue
<1> QED BY <1>1, <1>2, <1>3, <1>4 DEF IInv

\* A client joins the backlog.
LEMMA ConnectKeeps == ASSUME IInv, NEW c \in Clients, Connect(c) PROVE IInv'
<1> USE DEF IInv, Connect
<1>1. TypeOK'
  BY DEF TypeOK
<1>2. DataTypes' /\ NoStaleEvent'
  BY DEF DataTypes, NoStaleEvent, TypeOK
<1>3. OneConnection'
  <2>1. \A i \in DOMAIN backlog' : IF i = Len(backlog) + 1 THEN backlog'[i] = c
                                   ELSE i \in DOMAIN backlog /\ backlog'[i] = backlog[i]
    BY DEF TypeOK
  <2>2. \A i \in DOMAIN backlog : /\ backlog[i] \in Clients /\ backlog[i] # c
                                  /\ state[backlog[i]] \in {"queued", "gone"}
    BY DEF TypeOK, OneConnection
  <2>3. \A f \in Fds : owner[f] # None => owner[f] # c /\ owner[f] \in Clients
    BY ReactorAssumption DEF TypeOK, OneConnection
  <2>4. \A x \in Clients : state'[x] = IF x = c THEN "queued" ELSE state[x]
    BY DEF TypeOK
  <2>5. \A i \in DOMAIN backlog' : /\ state'[backlog'[i]] \in {"queued", "gone"}
                                   /\ \A f \in Fds : owner'[f] # backlog'[i]
    <3>1. ASSUME NEW i \in DOMAIN backlog', i = Len(backlog) + 1
          PROVE  state'[backlog'[i]] = "queued" /\ \A f \in Fds : owner'[f] # backlog'[i]
      BY <3>1, <2>1, <2>3, <2>4, ReactorAssumption
    <3>2. ASSUME NEW i \in DOMAIN backlog', i # Len(backlog) + 1
          PROVE  /\ state'[backlog'[i]] \in {"queued", "gone"}
                 /\ \A f \in Fds : owner'[f] # backlog'[i]
      <4>1. i \in DOMAIN backlog /\ backlog'[i] = backlog[i]
        BY <3>2, <2>1
      <4> QED BY <4>1, <2>2, <2>4 DEF OneConnection
    <3> QED BY <3>1, <3>2
  <2>6. \A i, j \in DOMAIN backlog' : backlog'[i] = backlog'[j] => i = j
    BY <2>1, <2>2 DEF OneConnection
  <2>7. /\ \A f \in Fds : owner'[f] # None => state'[owner'[f]] \in {"open", "gone"}
        /\ \A f, g \in Fds : owner'[f] # None /\ owner'[f] = owner'[g] => f = g
    BY <2>3, <2>4 DEF OneConnection
  <2> QED BY <2>5, <2>6, <2>7 DEF OneConnection
<1>4. \A x \in Polite : state'[x] # "gone"
  BY DEF PoliteDialogue, TypeOK
<1> QED BY <1>1, <1>2, <1>3, <1>4, NothingMoves

\* A rude client goes.
LEMMA HangUpKeeps == ASSUME IInv, NEW c \in Clients, HangUp(c) PROVE IInv'
<1> USE DEF IInv, HangUp
<1>1. TypeOK'
  BY DEF TypeOK
<1>2. DataTypes' /\ NoStaleEvent'
  BY DEF DataTypes, NoStaleEvent, TypeOK
<1>3. OneConnection'
  BY DEF TypeOK, OneConnection
<1>4. \A x \in Polite : state'[x] # "gone"
  BY DEF PoliteDialogue, TypeOK
<1> QED BY <1>1, <1>2, <1>3, <1>4, NothingMoves

\* A new batch: all its events are up to date.
LEMMA WaitKeeps == ASSUME IInv, epoll_wait PROVE IInv'
<1> USE DEF IInv, epoll_wait, clientVars
<1>1. TypeOK'
  BY DEF TypeOK
<1>2. DataTypes'
  BY ReadyIsFresh DEF DataTypes
<1>3. NoStaleEvent'
  BY ReadyIsFresh DEF NoStaleEvent
<1>4. OneConnection'
  BY DEF OneConnection
<1>5. \A x \in Polite : state'[x] # "gone"
  BY DEF PoliteDialogue
<1> QED BY <1>1, <1>2, <1>3, <1>4, <1>5, NothingMoves

\* A packet joins the stream behind what the client has sent before.
LEMMA SendPacketKeeps ==
    ASSUME IInv, NEW c \in Clients, NEW l \in PacketLens, SendPacket(c, l)
    PROVE  IInv'
<1> USE DEF IInv
<1> DEFINE s == stream[c]
           t == stream'[c]
           n == sent[c]
<1>1. /\ state[c] \in {"queued", "open"}
      /\ c \in Polite => Len(got[c]) = n /\ l <= BUFFER_LENGTH
      /\ sent' = [sent EXCEPT ![c] = @ + 1]
      /\ stream' = [stream EXCEPT ![c] = @ \o Packet(c, n + 1, l)]
      /\ UNCHANGED <<state, backlog, got, reset, owner, event, rlength, wlength, batch, server>>
  BY DEF SendPacket
<1>2. /\ l \in Nat \ {0} /\ n \in Nat /\ s \in Seq(Byte) /\ got[c] \in Seq(Reply)
      /\ sent' \in [Clients -> Nat] /\ sent'[c] = n + 1
      /\ \A x \in Clients \ {c} : sent'[x] = sent[x]
  BY <1>1, ReactorAssumption DEF TypeOK, DataTypes
<1>3. t = s \o Packet(c, n + 1, l)
  BY <1>1 DEF DataTypes
<1>4. \A x \in Clients \ {c} : stream'[x] = stream[x]
  BY <1>1 DEF DataTypes
<1> HIDE DEF s, t, n
<1>5. /\ t \in Seq(Byte) /\ Len(t) = Len(s) + l
      /\ \A i \in 1..Len(s) : t[i] = s[i]
      /\ \A i \in 1..l : t[Len(s) + i] = [c |-> c, p |-> n + 1, len |-> l, at |-> i]
  <2> DEFINE m == n + 1
  <2>1. m \in Nat
    BY <1>2
  <2>2. t = s \o Packet(c, m, l)
    BY <1>3
  <2> HIDE DEF m
  <2>3. Extended(s \o Packet(c, m, l), s, c, m, l)
    BY <1>2, <2>1, PacketBytes
  <2> QED BY <2>2, <2>3 DEF m, Extended
<1>6. stream' \in [Clients -> Seq(Byte)]
  BY <1>1, <1>3, <1>5 DEF DataTypes, s
<1>7. TypeOK' /\ DataTypes'
  BY <1>1, <1>2, <1>6 DEF TypeOK, DataTypes
<1>8. NoStaleEvent' /\ OneConnection'
  BY <1>1 DEF NoStaleEvent, OneConnection
<1>9. InOrder(c, s, n) /\ Answered(c, got[c], s, n)
  BY DEF AllInOrder, s, n
<1>10. /\ InOrder(c, t, n + 1) /\ Answered(c, got[c], t, n + 1)
       /\ \A w \in Reply \cup {None} :
             NextAnswer(c, w, got[c], s, n) => NextAnswer(c, w, got[c], t, n + 1)
  BY <1>2, <1>5, <1>9, PacketAppended
<1>11. AllInOrder'
  <2>1. ASSUME NEW x \in Clients
        PROVE  InOrder(x, stream'[x], sent'[x]) /\ Answered(x, got'[x], stream'[x], sent'[x])
    BY <1>1, <1>2, <1>4, <1>10 DEF AllInOrder, t
  <2>2. ASSUME NEW f \in Fds, owner'[f] # None, event'[f] = "OUT"
        PROVE  NextAnswer(owner'[f], wlength'[f], got'[owner'[f]], stream'[owner'[f]],
                          sent'[owner'[f]])
    <3>1. /\ owner[f] \in Clients /\ wlength[f] \in Reply \cup {None}
          /\ NextAnswer(owner[f], wlength[f], got[owner[f]], stream[owner[f]], sent[owner[f]])
      BY <1>1, <2>2 DEF AllInOrder, TypeOK, DataTypes
    <3>2. CASE owner[f] = c
      BY <3>1, <3>2, <1>1, <1>2, <1>10 DEF s, t, n
    <3>3. CASE owner[f] # c
      BY <3>1, <3>3, <1>1, <1>2, <1>4
    <3> QED BY <3>2, <3>3
  <2> QED BY <2>1, <2>2 DEF AllInOrder
<1>12. PoliteDialogue'
  <2>1. ASSUME NEW x \in Polite, x # c
        PROVE  (Quiet(x) => Quiet(x)') /\ (Asked(x) => Asked(x)')
               /\ (Handled(x) => Handled(x)')
    <3>1. x \in Clients /\ stream'[x] = stream[x] /\ sent'[x] = sent[x]
      BY <2>1, <1>2, <1>4, ReactorAssumption
    <3> QED BY <3>1, <1>1 DEF Quiet, Asked, Handled
  <2>2. ASSUME c \in Polite PROVE Asked(c)'
    <3>1. Len(got[c]) = n /\ Len(got[c]) + 1 # n
      BY <2>2, <1>1, <1>2
    <3>2. Quiet(c)
      BY <2>2, <3>1 DEF PoliteDialogue, Asked, Handled, n
    <3>3. Len(s) = 0 /\ Len(t) = l
      BY <3>2, <1>2, <1>5 DEF Quiet, s
    <3>4. DOMAIN t = 1..l /\ t # <<>>
      BY <3>3, <1>2, <1>5
    <3>5. \A i \in DOMAIN t : t[i] = [c |-> c, p |-> n + 1, len |-> l, at |-> i]
      BY <3>3, <3>4, <1>5
    <3>6. Len(got[c]) + 1 = sent'[c] /\ Len(t) <= BUFFER_LENGTH
      BY <3>1, <3>3, <1>1, <1>2, <2>2
    <3> QED BY <3>2, <3>3, <3>4, <3>5, <3>6, <1>1, <1>2 DEF Quiet, Asked, t
  <2> QED BY <2>1, <2>2, <1>1 DEF PoliteDialogue
<1> QED BY <1>7, <1>8, <1>11, <1>12

\* A connection gets a free descriptor, or none is free.
LEMMA AcceptKeeps == ASSUME IInv, accept_cb PROVE IInv'
<1> USE DEF IInv
<1>1. PICK e \in batch :
         /\ Running /\ e.fd = Listener /\ batch' = batch \ {e}
         /\ \/ /\ backlog # <<>>
               /\ \E f \in Fds :
                    /\ owner[f] = None /\ \A g \in Fds : owner[g] = None => f <= g
                    /\ owner' = [owner EXCEPT ![f] = Head(backlog)]
                    /\ event' = [event EXCEPT ![f] = "IN"]
                    /\ rlength' = [rlength EXCEPT ![f] = 0]
                    /\ wlength' = [wlength EXCEPT ![f] = None]
               /\ state' = [state EXCEPT ![Head(backlog)] = IF @ = "gone" THEN @ ELSE "open"]
               /\ backlog' = Tail(backlog)
               /\ UNCHANGED <<sent, stream, got, reset, server>>
            \/ /\ \A f \in Fds : owner[f] # None
               /\ UNCHANGED <<clientVars, owner, event, rlength, wlength, server>>
  BY DEF accept_cb
<1>2. CASE UNCHANGED <<clientVars, owner, event, rlength, wlength, server>>
  <2>1. TypeOK' /\ DataTypes' /\ NoStaleEvent' /\ OneConnection'
    BY <1>1, <1>2 DEF TypeOK, DataTypes, NoStaleEvent, OneConnection, clientVars
  <2>2. \A x \in Polite : state'[x] # "gone"
    BY <1>2 DEF PoliteDialogue, clientVars
  <2> QED BY <2>1, <2>2, <1>2, NothingMoves DEF clientVars
<1>3. ASSUME NEW f \in Fds, backlog # <<>>, owner[f] = None,
             owner' = [owner EXCEPT ![f] = Head(backlog)],
             event' = [event EXCEPT ![f] = "IN"],
             rlength' = [rlength EXCEPT ![f] = 0],
             wlength' = [wlength EXCEPT ![f] = None],
             state' = [state EXCEPT ![Head(backlog)] = IF @ = "gone" THEN @ ELSE "open"],
             backlog' = Tail(backlog),
             UNCHANGED <<sent, stream, got, reset, server>>
      PROVE  IInv'
  <2> DEFINE h == Head(backlog)
  <2>1. /\ h \in Clients /\ h = backlog[1] /\ 1 \in DOMAIN backlog
        /\ Tail(backlog) \in Seq(Clients)
        /\ \A i \in DOMAIN Tail(backlog) : i + 1 \in DOMAIN backlog /\ i + 1 # 1
                                           /\ Tail(backlog)[i] = backlog[i + 1]
        /\ DOMAIN Tail(backlog) \subseteq Nat
    BY <1>3 DEF TypeOK
  <2>2. state[h] \in {"queued", "gone"} /\ \A g \in Fds : owner[g] # h
    <3> HIDE DEF h
    <3> QED BY <2>1, ReactorAssumption DEF OneConnection
  <2> HIDE DEF h
  <2>3. /\ \A g \in Fds : owner'[g] = (IF g = f THEN h ELSE owner[g])
        /\ \A g \in Fds : event'[g] = (IF g = f THEN "IN" ELSE event[g])
        /\ \A g \in Fds : wlength'[g] = (IF g = f THEN None ELSE wlength[g])
        /\ \A x \in Clients : state'[x] = (IF x = h /\ state[x] # "gone" THEN "open" ELSE state[x])
    BY <1>3 DEF TypeOK, DataTypes, h
  <2>4. TypeOK'
    BY <1>3, <2>1, ReactorAssumption DEF TypeOK, h
  <2>5. DataTypes'
    BY <1>1, <1>3 DEF DataTypes
  <2>6. NoStaleEvent'
    <3>1. \A d \in batch' : d \in batch /\ (d.fd # Listener => d.fd \in Fds)
      BY <1>1 DEF DataTypes, Event
    <3> QED BY <3>1, <2>3, <1>3 DEF NoStaleEvent
  <2>7. OneConnection'
    <3>1. \A i \in DOMAIN backlog' : /\ backlog'[i] \in Clients /\ backlog'[i] # h
                                     /\ state[backlog'[i]] \in {"queued", "gone"}
                                     /\ \A g \in Fds : owner[g] # backlog'[i]
      BY <1>3, <2>1 DEF OneConnection, TypeOK
    <3>2. \A i \in DOMAIN backlog' : /\ state'[backlog'[i]] \in {"queued", "gone"}
                                     /\ \A g \in Fds : owner'[g] # backlog'[i]
      BY <3>1, <2>3
    <3>3. \A i, j \in DOMAIN backlog' : backlog'[i] = backlog'[j] => i = j
      <4>1. \A i, j \in DOMAIN backlog' : backlog'[i] = backlog'[j] => i + 1 = j + 1
        BY <1>3, <2>1 DEF OneConnection
      <4>2. \A i \in DOMAIN backlog' : i \in Nat
        BY <1>3, <2>1
      <4> QED BY <4>1, <4>2
    <3>4. \A g \in Fds : owner'[g] # None => state'[owner'[g]] \in {"open", "gone"}
      <4>1. \A g \in Fds : owner[g] # None => /\ owner[g] \in Clients
                                              /\ state[owner[g]] \in {"open", "gone"}
        BY DEF OneConnection, TypeOK
      <4> QED BY <4>1, <2>1, <2>3
    <3>5. \A g, k \in Fds : owner'[g] # None /\ owner'[g] = owner'[k] => g = k
      BY <2>2, <2>3 DEF OneConnection
    <3> QED BY <3>2, <3>3, <3>4, <3>5 DEF OneConnection
  <2>8. AllInOrder'
    BY <1>3, <2>3 DEF AllInOrder
  <2>9. PoliteDialogue'
    <3>1. ASSUME NEW x \in Polite
          PROVE  (Quiet(x) => Quiet(x)') /\ (Asked(x) => Asked(x)')
      BY <1>3, <2>3 DEF Quiet, Asked
    <3>2. ASSUME NEW x \in Polite, Handled(x)
          PROVE  Handled(x)'
      <4>1. x # h
        BY <3>2, <2>2 DEF Handled
      <4>2. x # None
        BY ReactorAssumption
      <4> QED BY <4>1, <4>2, <3>2, <1>3, <2>3 DEF Handled
    <3>3. ASSUME NEW x \in Polite PROVE state'[x] # "gone"
      BY <2>3, ReactorAssumption DEF PoliteDialogue
    <3> QED BY <1>3, <3>1, <3>2, <3>3 DEF PoliteDialogue
  <2> QED BY <2>4, <2>5, <2>6, <2>7, <2>8, <2>9
<1> QED BY <1>1, <1>2, <1>3

\* Bytes are received and their answer waits: a polite client's whole packet, or
\* any part of what a rude one has sent.
LEMMA RecvKeeps == ASSUME IInv, recv_cb PROVE IInv'
<1> USE DEF IInv
<1>1. PICK e \in batch :
         /\ Running /\ e.fd # Listener /\ e.event = "IN" /\ stream[owner[e.fd]] # <<>>
         /\ batch' = batch \ {e}
         /\ \E n \in RecvSizes(owner[e.fd]) :
              /\ stream' = [stream EXCEPT ![owner[e.fd]] = SubSeq(@, n + 1, Len(@))]
              /\ rlength' = [rlength EXCEPT ![e.fd] = n]
              /\ wlength' = [wlength EXCEPT ![e.fd] =
                               kvs_handler(SubSeq(stream[owner[e.fd]], 1, n))]
              /\ server' \in {server, "leaked"}
         /\ event' = [event EXCEPT ![e.fd] = "OUT"]
         /\ UNCHANGED <<state, backlog, sent, got, reset, owner>>
  BY DEF recv_cb, EventAfterRecv, ServerAfter
<1>0. PICK c : c = owner[e.fd]
  OBVIOUS
<1> DEFINE fd == e.fd
           s == stream[c]
           t == stream'[c]
           w == wlength'[fd]
<1>2. PICK n \in RecvSizes(c) :
         /\ stream' = [stream EXCEPT ![c] = SubSeq(@, n + 1, Len(@))]
         /\ rlength' = [rlength EXCEPT ![fd] = n]
         /\ wlength' = [wlength EXCEPT ![fd] = kvs_handler(SubSeq(s, 1, n))]
  BY <1>0, <1>1
<1>3. \A f \in Fds \ {fd} : owner'[f] = owner[f] /\ event'[f] = event[f]
  BY <1>1 DEF TypeOK
<1>4. /\ batch' \subseteq Event /\ NoStaleEvent'
      /\ fd \in Fds /\ c \in Clients /\ event[fd] = "IN"
      /\ owner[fd] = c
  BY <1>0, <1>1, <1>3, RestOfBatch
<1>5. \A f \in Fds : owner[f] = c => f = fd
  BY <1>4, ReactorAssumption DEF OneConnection
<1>6. /\ s \in Seq(Byte) /\ s # <<>> /\ got[c] \in Seq(Reply) /\ sent[c] \in Nat
      /\ InOrder(c, s, sent[c]) /\ Answered(c, got[c], s, sent[c])
  BY <1>0, <1>1, <1>4 DEF TypeOK, DataTypes, AllInOrder
<1>7. c \in Polite => Asked(c) /\ n = Len(s)
  <2>1. ASSUME c \in Polite PROVE Asked(c)
    BY <2>1, <1>4, <1>6 DEF PoliteDialogue, Quiet, Handled
  <2> QED BY <2>1, <1>2 DEF RecvSizes
<1>8. n \in 1..Len(s) /\ n <= BUFFER_LENGTH
  <2>1. CASE c \in Polite
    BY <2>1, <1>6, <1>7 DEF Asked
  <2>2. CASE c \notin Polite
    BY <2>2, <1>2 DEF RecvSizes
  <2> QED BY <2>1, <2>2
<1>9. /\ t = SubSeq(s, n + 1, Len(s)) /\ \A x \in Clients \ {c} : stream'[x] = stream[x]
      /\ w = AnswerTo(s, n) /\ \A f \in Fds \ {fd} : wlength'[f] = wlength[f]
      /\ event'[fd] = "OUT"
  BY <1>1, <1>2, <1>4 DEF TypeOK, DataTypes, AnswerTo
<1> HIDE DEF fd, s, t, w
<1>10. Rest(t, s, n)
  BY <1>6, <1>8, <1>9 DEF Rest
<1>11. /\ w \in Reply /\ InOrder(c, t, sent[c]) /\ Answered(c, got[c], t, sent[c])
       /\ w = IF s[1].at = 1 /\ n >= s[1].len THEN [c |-> c, p |-> s[1].p] ELSE Bad
       /\ NextAnswer(c, w, got[c], t, sent[c])
  BY <1>4, <1>6, <1>8, <1>9, <1>10, PartReceived
<1>12. TypeOK'
  BY <1>1, <1>2, <1>4, <1>8, ReactorAssumption DEF TypeOK, fd
<1>13. DataTypes'
  <2>1. stream' \in [Clients -> Seq(Byte)]
    <3>1. stream' = [stream EXCEPT ![c] = t]
      BY <1>2, <1>9 DEF s
    <3> QED BY <3>1, <1>10 DEF DataTypes, Rest
  <2>2. wlength' \in [Fds -> Reply \cup {None}]
    <3>1. wlength' = [wlength EXCEPT ![fd] = w]
      BY <1>2, <1>9 DEF AnswerTo
    <3> QED BY <3>1, <1>11 DEF DataTypes
  <2> QED BY <2>1, <2>2, <1>1, <1>4 DEF DataTypes
<1>14. OneConnection'
  BY <1>1 DEF OneConnection
<1>15. AllInOrder'
  <2>1. ASSUME NEW x \in Clients
        PROVE  InOrder(x, stream'[x], sent'[x]) /\ Answered(x, got'[x], stream'[x], sent'[x])
    BY <1>1, <1>9, <1>11 DEF AllInOrder, t
  <2>2. ASSUME NEW f \in Fds, owner'[f] # None, event'[f] = "OUT"
        PROVE  NextAnswer(owner'[f], wlength'[f], got'[owner'[f]], stream'[owner'[f]],
                          sent'[owner'[f]])
    <3>1. CASE f = fd
      BY <3>1, <1>1, <1>4, <1>11 DEF t, w
    <3>2. CASE f # fd
      <4>1. owner[f] # c /\ owner[f] \in Clients
        BY <2>2, <3>2, <1>1, <1>5 DEF TypeOK
      <4>2. event[f] = "OUT" /\ owner[f] # None
        BY <2>2, <3>2, <1>1, <1>3
      <4> QED BY <3>2, <4>1, <4>2, <1>1, <1>9 DEF AllInOrder
    <3> QED BY <3>1, <3>2
  <2> QED BY <2>1, <2>2 DEF AllInOrder
<1>16. PoliteDialogue'
  <2>1. ASSUME NEW x \in Polite, x # c
        PROVE  (Quiet(x) => Quiet(x)') /\ (Asked(x) => Asked(x)')
               /\ (Handled(x) => Handled(x)')
    <3>1. x \in Clients /\ stream'[x] = stream[x]
      BY <2>1, <1>9, ReactorAssumption
    <3>2. \A f \in Fds : owner[f] = x => event'[f] = event[f] /\ wlength'[f] = wlength[f]
      BY <2>1, <1>3, <1>4, <1>9
    <3> QED BY <3>1, <3>2, <1>1 DEF Quiet, Asked, Handled
  <2>2. ASSUME c \in Polite PROVE Handled(c)'
    <3>1. Len(got[c]) + 1 = sent[c] /\ n = Len(s)
          /\ s[1] = [c |-> c, p |-> sent[c], len |-> Len(s), at |-> 1]
      BY <2>2, <1>6, <1>7, <1>8 DEF Asked, s
    <3>2. t = <<>> /\ w = [c |-> c, p |-> sent[c]]
      BY <3>1, <1>8, <1>10, <1>11 DEF Rest
    <3>3. Len(got'[c]) + 1 = sent'[c] /\ stream'[c] = <<>> /\ \A f \in Fds : owner'[f] = owner[f]
      BY <3>1, <3>2, <1>1 DEF t
    <3>4. wlength'[fd] = [c |-> c, p |-> sent'[c]] /\ owner[fd] = c
      BY <3>2, <1>1, <1>4 DEF w
    <3> QED BY <3>3, <3>4, <1>4, <1>5, <1>9 DEF Handled
  <2> QED BY <2>1, <2>2, <1>1 DEF PoliteDialogue
<1> QED BY <1>4, <1>12, <1>13, <1>14, <1>15, <1>16

\* The loop stops in a handler: nothing else changes.
LEMMA StopKeeps ==
    ASSUME IInv, server' \in {"running", "leaked", "blocked", "dead"},
           UNCHANGED <<clientVars, owner, event, rlength, wlength, batch>>
    PROVE  IInv'
<1>1. TypeOK' /\ DataTypes' /\ NoStaleEvent' /\ OneConnection'
  BY DEF IInv, TypeOK, DataTypes, NoStaleEvent, OneConnection, clientVars
<1>2. \A x \in Polite : state'[x] # "gone"
  BY DEF IInv, PoliteDialogue, clientVars
<1> QED BY <1>1, <1>2, NothingMoves DEF IInv, clientVars

\* A connection is closed: its client has nothing under way.
LEMMA EndKeeps == ASSUME IInv, recv_end PROVE IInv'
<1> USE DEF IInv
<1>1. PICK e \in batch :
         /\ Running /\ e.fd # Listener /\ e.event = "IN" /\ stream[owner[e.fd]] = <<>>
         /\ batch' = batch \ {e}
         /\ owner' = [owner EXCEPT ![e.fd] = None]
         /\ UNCHANGED <<clientVars, event, rlength, wlength, server>>
  BY DEF recv_end
<1>2. UNCHANGED <<state, backlog, sent, stream, got, reset, event, rlength, wlength, server>>
  BY <1>1 DEF clientVars
<1>3. PICK c : c = owner[e.fd]
  OBVIOUS
<1> DEFINE fd == e.fd
<1>4. \A f \in Fds : owner'[f] = IF f = fd THEN None ELSE owner[f]
  BY <1>1 DEF TypeOK
<1>5. /\ batch' \subseteq Event /\ NoStaleEvent'
      /\ fd \in Fds /\ owner[fd] = c /\ c \in Clients /\ event[fd] = "IN"
  BY <1>1, <1>2, <1>3, <1>4, RestOfBatch
<1> HIDE DEF fd
<1>6. TypeOK'
  BY <1>1, <1>2 DEF TypeOK
<1>7. DataTypes'
  BY <1>2, <1>5 DEF DataTypes
<1>8. OneConnection'
  <2>1. \A i \in DOMAIN backlog : backlog[i] # None
    BY ReactorAssumption DEF TypeOK
  <2> QED BY <1>2, <1>4, <2>1 DEF OneConnection
<1>9. AllInOrder'
  BY <1>2, <1>4 DEF AllInOrder
<1>10. PoliteDialogue'
  <2>1. ASSUME NEW x \in Polite, x # c
        PROVE  (Quiet(x) => Quiet(x)') /\ (Asked(x) => Asked(x)')
               /\ (Handled(x) => Handled(x)')
    <3>1. \A f \in Fds : owner'[f] = x <=> owner[f] = x
      BY <2>1, <1>4, <1>5, ReactorAssumption
    <3> QED BY <3>1, <1>2 DEF Quiet, Asked, Handled
  <2>2. ASSUME c \in Polite PROVE Quiet(c)'
    <3>1. Quiet(c)
      <4>1. stream[c] = <<>> /\ ~Handled(c)
        BY <1>1, <1>3, <1>5 DEF Handled
      <4> QED BY <2>2, <4>1 DEF PoliteDialogue, Asked
    <3>2. \A f \in Fds : owner'[f] = c => owner[f] = c
      BY <1>4, <1>5, ReactorAssumption
    <3> QED BY <3>1, <3>2, <1>2 DEF Quiet
  <2> QED BY <2>1, <2>2, <1>2 DEF PoliteDialogue
<1> QED BY <1>5, <1>6, <1>7, <1>8, <1>9, <1>10

\* The answer that waits is sent, or the process ends.
LEMMA SendKeeps == ASSUME IInv, send_cb PROVE IInv'
<1> USE DEF IInv
<1>1. PICK e \in batch :
         /\ Running /\ e.fd # Listener /\ e.event = "OUT"
         /\ \/ /\ got' = IF state[owner[e.fd]] = "open" /\ wlength[e.fd] # None
                         THEN [got EXCEPT ![owner[e.fd]] = Append(@, wlength[e.fd])] ELSE got
               /\ reset' = [reset EXCEPT ![owner[e.fd]] = state[owner[e.fd]] = "gone"]
               /\ event' = [event EXCEPT ![e.fd] = "IN"]
               /\ batch' = batch \ {e}
               /\ UNCHANGED <<state, backlog, sent, stream, owner, rlength, wlength, server>>
            \/ /\ server' = "dead"
               /\ UNCHANGED <<clientVars, owner, event, rlength, wlength, batch>>
  BY DEF send_cb, EventAfterSend
<1>2. CASE server' = "dead" /\ UNCHANGED <<clientVars, owner, event, rlength, wlength, batch>>
  BY <1>2, StopKeeps
<1>3. PICK c : c = owner[e.fd]
  OBVIOUS
<1> DEFINE fd == e.fd
           w == wlength[fd]
           sends == state[c] = "open" /\ w # None
<1>4. ASSUME got' = IF sends THEN [got EXCEPT ![c] = Append(@, w)] ELSE got,
             reset' = [reset EXCEPT ![c] = state[c] = "gone"],
             event' = [event EXCEPT ![fd] = "IN"],
             batch' = batch \ {e},
             UNCHANGED <<state, backlog, sent, stream, owner, rlength, wlength, server>>
      PROVE  IInv'
  <2>1. \A f \in Fds : event'[f] = IF f = fd THEN "IN" ELSE event[f]
    BY <1>4 DEF TypeOK
  <2>2. /\ batch' \subseteq Event /\ NoStaleEvent'
        /\ fd \in Fds /\ owner[fd] = c /\ c \in Clients /\ event[fd] = "OUT"
    BY <1>1, <1>3, <1>4, <2>1, RestOfBatch
  <2>3. \A f \in Fds : owner[f] = c => f = fd
    BY <2>2, ReactorAssumption DEF OneConnection
  <2>4. /\ stream[c] \in Seq(Byte) /\ got[c] \in Seq(Reply) /\ sent[c] \in Nat
        /\ w \in Reply \cup {None}
        /\ Answered(c, got[c], stream[c], sent[c])
        /\ NextAnswer(c, w, got[c], stream[c], sent[c])
    BY <2>2, ReactorAssumption DEF TypeOK, DataTypes, AllInOrder
  <2>5. /\ \A x \in Clients \ {c} : got'[x] = got[x]
        /\ got'[c] = IF sends THEN Append(got[c], w) ELSE got[c]
    BY <1>4, <2>2 DEF DataTypes
  <2> HIDE DEF fd, w
  <2>6. got'[c] \in Seq(Reply) /\ Answered(c, got'[c], stream[c], sent[c])
    <3>1. ASSUME sends PROVE got'[c] \in Seq(Reply) /\ Answered(c, got'[c], stream[c], sent[c])
      <4>1. w \in Reply /\ w # None
        BY <3>1, <2>4
      <4>2. Append(got[c], w) \in Seq(Reply) /\ Answered(c, Append(got[c], w), stream[c], sent[c])
        BY <4>1, <2>2, <2>4, AnswerSent
      <4> QED BY <3>1, <4>2, <2>5
    <3> QED BY <3>1, <2>4, <2>5
  <2>7. TypeOK'
    <3>1. reset' \in [Clients -> BOOLEAN]
      BY <1>4 DEF TypeOK
    <3> QED BY <3>1, <1>4 DEF TypeOK
  <2>8. DataTypes'
    <3>1. got' \in [Clients -> Seq(Reply)]
      <4>1. CASE sends
        BY <4>1, <1>4, <2>5, <2>6 DEF DataTypes
      <4>2. CASE ~sends
        BY <4>2, <1>4 DEF DataTypes
      <4> QED BY <4>1, <4>2
    <3> QED BY <3>1, <1>4, <2>2 DEF DataTypes
  <2>9. OneConnection'
    BY <1>4 DEF OneConnection
  <2>10. AllInOrder'
    <3>1. ASSUME NEW x \in Clients
          PROVE  /\ InOrder(x, stream'[x], sent'[x])
                 /\ Answered(x, got'[x], stream'[x], sent'[x])
      BY <1>4, <2>5, <2>6 DEF AllInOrder
    <3>2. ASSUME NEW f \in Fds, owner'[f] # None, event'[f] = "OUT"
          PROVE  NextAnswer(owner'[f], wlength'[f], got'[owner'[f]], stream'[owner'[f]],
                            sent'[owner'[f]])
      <4>1. f # fd /\ event[f] = "OUT" /\ owner[f] # None
        BY <1>4, <2>1, <3>2
      <4>2. owner[f] \in Clients \ {c}
        BY <4>1, <2>3 DEF TypeOK
      <4> QED BY <4>1, <4>2, <1>4, <2>5 DEF AllInOrder
    <3> QED BY <3>1, <3>2 DEF AllInOrder
  <2>11. PoliteDialogue'
    <3>1. ASSUME NEW x \in Polite, x # c
          PROVE  (Quiet(x) => Quiet(x)') /\ (Asked(x) => Asked(x)')
                 /\ (Handled(x) => Handled(x)') /\ got'[x] = got[x]
      <4>1. x \in Clients /\ got'[x] = got[x]
        BY <3>1, <2>5, ReactorAssumption
      <4>2. \A f \in Fds : owner[f] = x => event'[f] = event[f]
        BY <3>1, <2>1, <2>2
      <4> QED BY <4>1, <4>2, <1>4 DEF Quiet, Asked, Handled
    <3>2. ASSUME c \in Polite
          PROVE  Quiet(c)' /\ \A i \in DOMAIN got'[c] : got'[c][i] = [c |-> c, p |-> i]
      <4>1. /\ Len(got[c]) + 1 = sent[c] /\ stream[c] = <<>>
            /\ w = [c |-> c, p |-> sent[c]]
        BY <3>2, <2>2 DEF PoliteDialogue, Quiet, Asked, Handled, w
      <4>2. sends
        <5>1. state[c] = "open"
          BY <3>2, <2>2, ReactorAssumption DEF OneConnection, PoliteDialogue
        <5>2. w \in [c : Clients, p : Nat]
          BY <4>1, <2>2, <2>4
        <5> QED BY <5>1, <5>2, ReactorAssumption
      <4>3. \A i \in DOMAIN got[c] : got[c][i] = [c |-> c, p |-> i]
        BY <3>2 DEF PoliteDialogue
      <4>4. /\ DOMAIN got'[c] = 1..(Len(got[c]) + 1) /\ Len(got'[c]) = Len(got[c]) + 1
            /\ \A i \in 1..Len(got[c]) : got'[c][i] = got[c][i]
            /\ DOMAIN got[c] = 1..Len(got[c]) /\ Len(got[c]) \in Nat
            /\ got'[c][Len(got[c]) + 1] = w
        BY <4>2, <2>4, <2>5
      <4>5. \A i \in DOMAIN got'[c] : got'[c][i] = [c |-> c, p |-> i]
        BY <4>1, <4>3, <4>4
      <4>6. \A f \in Fds : owner'[f] = c => event'[f] = "IN"
        BY <1>4, <2>1, <2>3
      <4> QED BY <4>1, <4>4, <4>5, <4>6, <1>4 DEF Quiet
    <3> QED BY <3>1, <3>2, <1>4 DEF PoliteDialogue
  <2> QED BY <2>2, <2>7, <2>8, <2>9, <2>10, <2>11
<1> QED BY <1>1, <1>2, <1>3, <1>4

LEMMA Induction == IInv /\ [Next]_vars => IInv'
<1> SUFFICES ASSUME IInv, [Next]_vars PROVE IInv'
  OBVIOUS
<1>1. CASE UNCHANGED vars
  <2>1. UNCHANGED <<state, backlog, sent, stream, got, reset, owner, event, rlength,
                    wlength, batch, server>>
    BY <1>1 DEF vars, clientVars
  <2>2. TypeOK' /\ DataTypes' /\ NoStaleEvent' /\ OneConnection'
    BY <2>1 DEF IInv, TypeOK, DataTypes, NoStaleEvent, OneConnection
  <2>3. \A x \in Polite : state'[x] # "gone"
    BY <2>1 DEF IInv, PoliteDialogue
  <2> QED BY <2>1, <2>2, <2>3, NothingMoves DEF IInv
<1>2. CASE Next
  BY <1>2, ConnectKeeps, HangUpKeeps, SendPacketKeeps, WaitKeeps, AcceptKeeps,
     RecvKeeps, EndKeeps, SendKeeps, StopKeeps DEF Next, Loop, handler_stops
<1> QED BY <1>1, <1>2
-----------------------------------------------------------------------------
\* Types: in particular rlength, what one recv has put into rbuffer, is never
\* more than BUFFER_LENGTH (recv_cb, reactor.c:137).
THEOREM TypeCorrect == Spec => []TypeOK
<1>1. IInv => TypeOK
  BY DEF IInv
<1> QED BY <1>1, InitInv, Induction, PTL DEF Spec

\* An event of a batch is handled for the connection and the registration it was
\* reported for, whatever the handlers before it closed, accepted or registered
\* (reactor.c:281-305).
THEOREM EventsAreFresh == Spec => []NoStaleEvent
<1>1. IInv => NoStaleEvent
  BY DEF IInv
<1> QED BY <1>1, InitInv, Induction, PTL DEF Spec

\* Answers reach the client that asked, in the order of its packets; a polite
\* client has got answers 1 to n and nothing else (reactor.c:137-234).
THEOREM AnswersAreOwn == Spec => []OwnAnswers
<1>1. IInv => OwnAnswers
  <2> SUFFICES ASSUME IInv, NEW c \in Clients
               PROVE  LET real == {i \in DOMAIN got[c] : got[c][i] # Bad}
                      IN /\ \A i \in real : got[c][i].c = c /\ got[c][i].p <= sent[c]
                         /\ \A i, j \in real : i < j => got[c][i].p < got[c][j].p
                         /\ c \in Polite =>
                               \A i \in DOMAIN got[c] : i \in real /\ got[c][i].p = i
    BY DEF OwnAnswers
  <2>1. Answered(c, got[c], stream[c], sent[c])
    BY DEF IInv, AllInOrder
  <2>2. c \in Polite => \A i \in DOMAIN got[c] : got[c][i] = [c |-> c, p |-> i]
    BY DEF IInv, PoliteDialogue
  <2>3. c # None
    BY ReactorAssumption
  <2>4. c \in Polite => \A i \in DOMAIN got[c] : got[c][i] # Bad /\ got[c][i].p = i
    <3>1. \A i : [c |-> c, p |-> i] # Bad /\ [c |-> c, p |-> i].p = i
      <4> SUFFICES ASSUME NEW i PROVE [c |-> c, p |-> i] # Bad
        OBVIOUS
      <4>1. [c |-> c, p |-> i].c # Bad.c
        BY <2>3 DEF Bad
      <4> QED BY <4>1
    <3> QED BY <2>2, <3>1
  <2> QED BY <2>1, <2>4 DEF Answered
<1> QED BY <1>1, InitInv, Induction, PTL DEF Spec
=============================================================================
