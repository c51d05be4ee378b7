---------------------------- MODULE ReadProofs ----------------------------
(*************************************************************************)
(* Proofs about RtmpPush, the second part: what one read does at either end, *)
(* from the bytes that arrive to the messages handled, the state of the  *)
(* connection and the packets it answers with.                           *)
(*************************************************************************)
EXTENDS ChunkProofs

----------------------------------------------------------------------------
\* The messages of a sequence when one is added or taken.
LEMMA RangeMore ==
    ASSUME NEW S, NEW P \in Seq(S), NEW m \in S
    PROVE  /\ Range(Append(P, m)) = Range(P) \union {m}
           /\ Append(P, m) \in Seq(S) /\ Len(Append(P, m)) = Len(P) + 1
           /\ Append(P, m)[Len(P) + 1] = m
           /\ \A i \in 1 .. Len(P) : Append(P, m)[i] = P[i]
<1> DEFINE Q == Append(P, m)
<1>1. /\ Q \in Seq(S) /\ Len(Q) = Len(P) + 1 /\ Q[Len(P) + 1] = m
      /\ \A i \in 1 .. Len(P) : Q[i] = P[i]
  BY AppendProperties
<1>2. Len(P) \in Nat /\ DOMAIN P = 1 .. Len(P)
  OBVIOUS
<1>3. DOMAIN Q = 1 .. Len(P) + 1
  BY <1>1, <1>2
<1> HIDE DEF Q
<1>4. \A y : y \in Range(Q) <=> y \in Range(P) \union {m}
  <2>1. ASSUME NEW i \in DOMAIN Q PROVE Q[i] \in Range(P) \union {m}
    BY <1>1, <1>2, <1>3 DEF Range
  <2>2. ASSUME NEW i \in DOMAIN P PROVE P[i] \in Range(Q)
    BY <1>1, <1>2, <1>3 DEF Range
  <2>3. m \in Range(Q)
    BY <1>1, <1>2, <1>3 DEF Range
  <2>4. QED
    BY <2>1, <2>2, <2>3 DEF Range
<1>5. QED
  BY <1>1, <1>4 DEF Q

\* And when one is taken.
LEMMA RangeLess ==
    ASSUME NEW S, NEW P \in Seq(S), P # <<>>
    PROVE  /\ Range(P) = {Head(P)} \union Range(Tail(P))
           /\ Head(P) \in S /\ Tail(P) \in Seq(S) /\ Head(P) = P[1]
           /\ Len(Tail(P)) = Len(P) - 1 /\ Len(P) \in Nat \ {0}
           /\ \A i \in 1 .. Len(P) - 1 : Tail(P)[i] = P[i + 1]
<1> DEFINE Q == Tail(P)
<1>1. /\ Head(P) = P[1] /\ Head(P) \in S /\ Q \in Seq(S) /\ Len(Q) = Len(P) - 1
      /\ Len(P) \in Nat \ {0} /\ \A i \in 1 .. Len(P) - 1 : Q[i] = P[i + 1]
  BY HeadTailProperties
<1>2. DOMAIN P = 1 .. Len(P)
  OBVIOUS
<1>3. DOMAIN Q = 1 .. Len(P) - 1
  BY <1>1
<1> HIDE DEF Q
<1>4. \A y : y \in Range(P) <=> y \in {Head(P)} \union Range(Q)
  <2>1. ASSUME NEW i \in DOMAIN P PROVE P[i] \in {Head(P)} \union Range(Q)
    <3>1. CASE i = 1
      BY <1>1, <3>1
    <3>2. CASE i # 1
      <4>1. i - 1 \in DOMAIN Q /\ Q[i - 1] = P[i]
        BY <1>1, <1>2, <1>3, <3>2
      <4>2. QED
        BY <4>1 DEF Range
    <3>3. QED
      BY <3>1, <3>2
  <2>2. ASSUME NEW i \in DOMAIN Q PROVE Q[i] \in Range(P)
    <3>1. i + 1 \in DOMAIN P /\ Q[i] = P[i + 1]
      BY <1>1, <1>2, <1>3
    <3>2. QED
      BY <3>1 DEF Range
  <2>3. Head(P) \in Range(P)
    BY <1>1, <1>2 DEF Range
  <2>4. QED
    BY <2>1, <2>2, <2>3 DEF Range
<1>5. QED
  BY <1>1, <1>4 DEF Q

\* A message may come when those of S have.
Allowed(S, m) == /\ m = Picture(FALSE) => Picture(TRUE) \in S
                 /\ m = Picture(TRUE) => AvcHeader \in S /\ AacHeader \in S

\* Each of P is allowed after those of S and those of P before it.
Leads(S, P) == \A i \in DOMAIN P : Allowed(S \union {P[j] : j \in 1 .. i - 1}, P[i])

\* What is allowed stays allowed when more has been sent, ...
LEMMA AllowedGrows ==
    ASSUME NEW S, NEW T, NEW m, Allowed(S, m), S \subseteq T
    PROVE  Allowed(T, m)
BY DEF Allowed

\* ... for a message and for a sequence of them.
LEMMA LeadsGrows ==
    ASSUME NEW S, NEW T, NEW P, Leads(S, P), S \subseteq T
    PROVE  Leads(T, P)
<1>1. ASSUME NEW i \in DOMAIN P PROVE Allowed(T \union {P[j] : j \in 1 .. i - 1}, P[i])
  <2> DEFINE A == S \union {P[j] : j \in 1 .. i - 1}
             B == T \union {P[j] : j \in 1 .. i - 1}
  <2>1. Allowed(A, P[i])
    BY Zenon DEF Leads
  <2>2. A \subseteq B
    OBVIOUS
  <2> HIDE DEF A, B
  <2>3. Allowed(B, P[i])
    BY <2>1, <2>2, AllowedGrows
  <2>4. QED
    BY <2>3 DEF B
<1>2. QED
  BY <1>1 DEF Leads

\* One message more at the end, ...
LEMMA LeadsMore ==
    ASSUME NEW M, NEW P \in Seq(M), NEW m \in M, NEW S, Leads(S, P), Allowed(S \union Range(P), m)
    PROVE  Leads(S, Append(P, m))
<1> DEFINE Q == Append(P, m)
<1>1. /\ Q \in Seq(M) /\ Len(Q) = Len(P) + 1 /\ Q[Len(P) + 1] = m
      /\ \A i \in 1 .. Len(P) : Q[i] = P[i]
  BY RangeMore
<1>2. Len(P) \in Nat /\ DOMAIN P = 1 .. Len(P)
  OBVIOUS
<1>3. DOMAIN Q = 1 .. Len(P) + 1
  BY <1>1, <1>2
<1> HIDE DEF Q
<1>4. ASSUME NEW i \in DOMAIN Q PROVE Allowed(S \union {Q[j] : j \in 1 .. i - 1}, Q[i])
  <2>1. CASE i \in DOMAIN P
    <3>1. \A j \in 1 .. i - 1 : Q[j] = P[j]
      BY <1>1, <1>2, <2>1
    <3>2. {Q[j] : j \in 1 .. i - 1} = {P[j] : j \in 1 .. i - 1} /\ Q[i] = P[i]
      BY <1>1, <1>2, <2>1, <3>1
    <3>3. QED
      BY <2>1, <3>2 DEF Leads
  <2>2. CASE i = Len(P) + 1
    <3>1. \A j \in 1 .. Len(P) : j \in 1 .. i - 1 /\ Q[j] = P[j]
      BY <1>1, <1>2, <2>2
    <3>2. Range(P) \subseteq {Q[j] : j \in 1 .. i - 1}
      BY <1>2, <3>1 DEF Range
    <3>3. Q[i] = m
      BY <1>1, <2>2
    <3>4. QED
      BY <3>2, <3>3, AllowedGrows
  <2>3. QED
    BY <1>2, <1>3, <2>1, <2>2
<1>5. QED
  BY <1>4 DEF Leads, Q

\* ... and one less at the head.
LEMMA LeadsLess ==
    ASSUME NEW M, NEW P \in Seq(M), P # <<>>, NEW S, Leads(S, P)
    PROVE  Allowed(S, Head(P)) /\ Leads(S \union {Head(P)}, Tail(P))
<1> DEFINE Q == Tail(P)
<1>1. /\ Head(P) = P[1] /\ Q \in Seq(M) /\ Len(Q) = Len(P) - 1
      /\ Len(P) \in Nat \ {0} /\ \A i \in 1 .. Len(P) - 1 : Q[i] = P[i + 1]
  BY RangeLess
<1>2. DOMAIN P = 1 .. Len(P)
  OBVIOUS
<1>3. DOMAIN Q = 1 .. Len(P) - 1
  BY <1>1
<1> HIDE DEF Q
<1>4. Allowed(S, Head(P))
  <2>1. Allowed(S \union {P[j] : j \in 1 .. 1 - 1}, P[1])
    <3>1. 1 \in DOMAIN P
      BY <1>1, <1>2
    <3>2. QED
      BY <3>1, Zenon DEF Leads
  <2>2. S \union {P[j] : j \in 1 .. 1 - 1} = S
    OBVIOUS
  <2>3. QED
    BY <1>1, <2>1, <2>2
<1>5. ASSUME NEW i \in DOMAIN Q
      PROVE  Allowed((S \union {Head(P)}) \union {Q[j] : j \in 1 .. i - 1}, Q[i])
  <2>1. i + 1 \in DOMAIN P /\ Q[i] = P[i + 1]
    BY <1>1, <1>2, <1>3
  <2>2. Allowed(S \union {P[j] : j \in 1 .. (i + 1) - 1}, P[i + 1])
    BY <2>1 DEF Leads
  <2>3. ASSUME NEW j \in 1 .. (i + 1) - 1
        PROVE  P[j] \in {Head(P)} \union {Q[k] : k \in 1 .. i - 1}
    <3>1. CASE j = 1
      BY <1>1, <3>1
    <3>2. CASE j # 1
      <4>1. j - 1 \in 1 .. i - 1 /\ Q[j - 1] = P[j]
        BY <1>1, <1>2, <1>3, <3>2
      <4>2. QED
        BY <4>1
    <3>3. QED
      BY <3>1, <3>2
  <2>4. S \union {P[j] : j \in 1 .. (i + 1) - 1}
          \subseteq (S \union {Head(P)}) \union {Q[j] : j \in 1 .. i - 1}
    BY <2>3
  <2>5. QED
    BY <2>1, <2>2, <2>4, AllowedGrows
<1>6. QED
  BY <1>4, <1>5 DEF Leads, Q

\* The chunk size that a message of several pieces needs is said before it.
LEMMA SizesMore ==
    ASSUME NEW M, NEW Q \in Seq(M), NEW m \in M, NEW size, SizesOK(Q, size),
           m.lenght > 1 => SetChunkSize \in Range(Q)
    PROVE  SizesOK(Append(Q, m), size)
<1> DEFINE R == Append(Q, m)
<1>1. /\ R \in Seq(M) /\ Len(R) = Len(Q) + 1 /\ R[Len(Q) + 1] = m
      /\ \A i \in 1 .. Len(Q) : R[i] = Q[i]
  BY RangeMore
<1>2. Len(Q) \in Nat /\ DOMAIN Q = 1 .. Len(Q)
  OBVIOUS
<1>3. DOMAIN R = 1 .. Len(Q) + 1
  BY <1>1, <1>2
<1> HIDE DEF R
<1>4. ASSUME NEW i \in DOMAIN R, R[i].lenght > 1
      PROVE  size = 2 \/ \E j \in 1 .. i - 1 : R[j] = SetChunkSize
  <2>1. CASE i \in DOMAIN Q
    <3>1. Q[i].lenght > 1
      BY <1>1, <1>2, <1>4, <2>1
    <3>2. size = 2 \/ \E j \in 1 .. i - 1 : Q[j] = SetChunkSize
      BY <2>1, <3>1 DEF SizesOK
    <3>3. \A j \in 1 .. i - 1 : R[j] = Q[j]
      BY <1>1, <1>2, <2>1
    <3>4. QED
      BY <3>2, <3>3
  <2>2. CASE i = Len(Q) + 1
    <3>1. PICK j \in DOMAIN Q : Q[j] = SetChunkSize
      BY <1>1, <1>4, <2>2 DEF Range
    <3>2. j \in 1 .. i - 1 /\ R[j] = SetChunkSize
      BY <1>1, <1>2, <2>2, <3>1
    <3>3. QED
      BY <3>2
  <2>3. QED
    BY <1>2, <1>3, <2>1, <2>2
<1>5. QED
  BY <1>4 DEF SizesOK, R

\* The chunk size after the first message.
LEMMA SizesLess ==
    ASSUME NEW M, NEW Q \in Seq(M), Q # <<>>, NEW size, SizesOK(Q, size)
    PROVE  /\ Head(Q).lenght > 1 => size = 2
           /\ SizesOK(Tail(Q), IF Head(Q) = SetChunkSize THEN 2 ELSE size)
<1> DEFINE R == Tail(Q)
<1>1. /\ Head(Q) = Q[1] /\ R \in Seq(M) /\ Len(R) = Len(Q) - 1
      /\ Len(Q) \in Nat \ {0} /\ \A i \in 1 .. Len(Q) - 1 : R[i] = Q[i + 1]
  BY RangeLess
<1>2. DOMAIN Q = 1 .. Len(Q)
  OBVIOUS
<1>3. DOMAIN R = 1 .. Len(Q) - 1
  BY <1>1
<1> HIDE DEF R
<1>4. Head(Q).lenght > 1 => size = 2
  BY <1>1, <1>2 DEF SizesOK
<1> DEFINE next == IF Head(Q) = SetChunkSize THEN 2 ELSE size
<1>5. ASSUME NEW i \in DOMAIN R, R[i].lenght > 1
      PROVE  next = 2 \/ \E j \in 1 .. i - 1 : R[j] = SetChunkSize
  <2>1. i + 1 \in DOMAIN Q /\ Q[i + 1].lenght > 1
    BY <1>1, <1>2, <1>3, <1>5
  <2>2. size = 2 \/ \E j \in 1 .. (i + 1) - 1 : Q[j] = SetChunkSize
    BY <2>1 DEF SizesOK
  <2>3. CASE size = 2
    BY <2>3
  <2>4. ASSUME NEW j \in 1 .. (i + 1) - 1, Q[j] = SetChunkSize
        PROVE  next = 2 \/ \E k \in 1 .. i - 1 : R[k] = SetChunkSize
    <3>1. CASE j = 1
      BY <1>1, <2>4, <3>1
    <3>2. CASE j # 1
      <4>1. j - 1 \in 1 .. i - 1 /\ R[j - 1] = SetChunkSize
        BY <1>1, <1>2, <1>3, <2>4, <3>2
      <4>2. QED
        BY <4>1
    <3>3. QED
      BY <3>1, <3>2
  <2>5. QED
    BY <2>2, <2>3, <2>4
<1> HIDE DEF next
<1>6. SizesOK(R, next)
  BY <1>5 DEF SizesOK
<1>7. QED
  BY <1>4, <1>6 DEF R, next

\* The fields of a connection.
ClientStates == {"HANDSHAKE", "START_CONNECT", "START_CREATE_STREAM", "START_PUBLISH"}

Connected(c) ==
    /\ c = [hs |-> c.hs, state |-> c.state, publishing |-> c.publishing,
            reader |-> c.reader, size |-> c.size, out |-> c.out, ok |-> c.ok,
            taken |-> c.taken, delivered |-> c.delivered]
    /\ c.publishing \in BOOLEAN /\ c.ok \in BOOLEAN /\ c.taken \in BOOLEAN
    /\ c.size \in {1, 2} /\ c.out \in Seq(Wires) /\ c.state \in ClientStates
    /\ c.delivered \in Seq(Messages \union {Garbled})

\* The fields of a reader that has made nothing.
Reading(r) == r = [buf |-> r.buf, state |-> r.state, csid |-> r.csid, size |-> r.size,
                   message |-> r.message, out |-> None]

\* Which the readers above are.
LEMMA ReadingThese ==
    /\ \A buf, size : Reading(Idle(buf, size))
    /\ \A buf, size, m, got, state : Reading(InChunk(buf, size, m, got, state))
BY DEF Reading, Idle, InChunk

\* With another reader.
With(c, r) == [c EXCEPT !.reader = r]

\* A connection with another reader.
LEMMA WithIs ==
    ASSUME NEW c, NEW r, Connected(c)
    PROVE  /\ Connected(With(c, r)) /\ With(c, r).reader = r
           /\ With(c, r).hs = c.hs /\ With(c, r).state = c.state
           /\ With(c, r).publishing = c.publishing /\ With(c, r).size = c.size
           /\ With(c, r).out = c.out /\ With(c, r).ok = c.ok
           /\ With(c, r).taken = c.taken /\ With(c, r).delivered = c.delivered
<1> DEFINE d == With(c, r)
<1>1. c = [hs |-> c.hs, state |-> c.state, publishing |-> c.publishing,
           reader |-> c.reader, size |-> c.size, out |-> c.out, ok |-> c.ok,
           taken |-> c.taken, delivered |-> c.delivered]
  BY DEF Connected
<1>2. d = [hs |-> c.hs, state |-> c.state, publishing |-> c.publishing,
           reader |-> r, size |-> c.size, out |-> c.out, ok |-> c.ok,
           taken |-> c.taken, delivered |-> c.delivered]
  BY <1>1 DEF With
<1> HIDE DEF d
<1>3. /\ d.reader = r
      /\ d.hs = c.hs /\ d.state = c.state /\ d.publishing = c.publishing /\ d.size = c.size
      /\ d.out = c.out /\ d.ok = c.ok /\ d.taken = c.taken /\ d.delivered = c.delivered
  BY <1>2
<1>4. Connected(d)
  BY <1>2, <1>3 DEF Connected
<1>5. QED
  BY <1>3, <1>4 DEF d

\* One turn of the loop of HandleChunk: nothing is complete, or a message is handled.
LEMMA TurnIs ==
    ASSUME NEW c, Connected(c), c.ok
    PROVE  /\ Parse(c.reader).out = None =>
                /\ ServerTurn(c) = With(c, Parse(c.reader))
                /\ ClientTurn(c) = With(c, Parse(c.reader))
           /\ \A r, m : Reading(r) /\ m # None /\ Parse(c.reader) = [r EXCEPT !.out = m] =>
                /\ ServerTurn(c) = ServerHandles(With(c, r), m)
                /\ ClientTurn(c) = ClientHandles(With(c, r), m)
<1> DEFINE q == Parse(c.reader)
           y == With(c, q)
<1>1. y.reader = q
  BY WithIs
<1>2. [c EXCEPT !.reader = Parse(@)] = y
  BY DEF With
<1>3. ServerTurn(c) = ServerHandled(y) /\ ClientTurn(c) = ClientHandled(y)
  BY <1>2, Zenon DEF ServerTurn, ClientTurn
<1>4. ASSUME q.out = None PROVE ServerHandled(y) = y /\ ClientHandled(y) = y
  BY <1>1, <1>4 DEF ServerHandled, ClientHandled
<1>5. ASSUME NEW r, NEW m, Reading(r), m # None, q = [r EXCEPT !.out = m]
      PROVE  /\ ServerHandled(y) = ServerHandles(With(c, r), m)
             /\ ClientHandled(y) = ClientHandles(With(c, r), m)
  <2>1. q.out = m /\ [q EXCEPT !.out = None] = r
    <3> DEFINE z == [q EXCEPT !.out = None]
    <3> HIDE DEF q
    <3>1. r = [buf |-> r.buf, state |-> r.state, csid |-> r.csid, size |-> r.size,
               message |-> r.message, out |-> None]
      BY <1>5 DEF Reading
    <3>2. q = [buf |-> r.buf, state |-> r.state, csid |-> r.csid, size |-> r.size,
               message |-> r.message, out |-> m]
      BY <1>5, <3>1
    <3>3. q.out = m
      BY <3>2
    <3>4. z = [buf |-> r.buf, state |-> r.state, csid |-> r.csid, size |-> r.size,
               message |-> r.message, out |-> None]
      BY <3>2
    <3> HIDE DEF z
    <3>5. z = r
      BY <3>1, <3>4
    <3>6. QED
      BY <3>3, <3>5 DEF z
  <2>2. [y EXCEPT !.reader.out = None] = With(c, r)
    <3> DEFINE z == [q EXCEPT !.out = None]
    <3>1. [y EXCEPT !.reader.out = None] = [y EXCEPT !.reader = z]
      BY <1>1
    <3>2. z = r
      BY <2>1
    <3> HIDE DEF z, q
    <3>3. c = [hs |-> c.hs, state |-> c.state, publishing |-> c.publishing,
               reader |-> c.reader, size |-> c.size, out |-> c.out, ok |-> c.ok,
               taken |-> c.taken, delivered |-> c.delivered]
      BY DEF Connected
    <3>4. [y EXCEPT !.reader = r] = With(c, r)
      BY <3>3 DEF With
    <3>5. QED
      BY <3>1, <3>2, <3>4
  <2>3. y.reader.out # None /\ y.reader.out = m
    BY <1>1, <1>5, <2>1
  <2> HIDE DEF y
  <2>4. QED
    BY <2>2, <2>3, Zenon DEF ServerHandled, ClientHandled
<1> HIDE DEF q, y
<1>6. QED
  BY <1>3, <1>4, <1>5, Zenon DEF q, y

\* A packet that is sent.
LEMMA PacketWire ==
    ASSUME NEW m \in Messages
    PROVE  /\ Packet(m) \in Wires
           /\ \A size \in {1, 2} : m.lenght = 1 \/ size = 2 => CreateChunk(m, size) = Packet(m)
<1>1. m.lenght \in 1 .. 3
  BY MessageFacts
<1>2. /\ CreateChunk(m, 2) = Lead(m) \o Body(m)
      /\ Lead(m) \in Streams /\ Len(Lead(m)) = 2 /\ Body(m) \in Streams
      /\ Len(Body(m)) \in 1 .. 4
  BY PacketIs DEF Streams
<1>3. Packet(m) = Lead(m) \o Body(m)
  BY <1>2 DEF Packet, ChunkSize
<1>4. Packet(m) \in Wires
  <2>1. Packet(m) \in Streams /\ Len(Packet(m)) = Len(Lead(m)) + Len(Body(m))
    BY <1>2, <1>3, StreamJoins
  <2>2. Len(Packet(m)) # 0
    BY <1>2, <2>1
  <2>3. QED
    BY <2>1, <2>2, StreamNone DEF Wires
<1>5. ASSUME m.lenght = 1 PROVE CreateChunk(m, 1) = Packet(m)
  <2>1. CreateChunk(m, 1) = Lead(m) \o Body(m)
    BY <1>5, PacketIs
  <2>2. QED
    BY <1>3, <2>1, Zenon
<1>6. CreateChunk(m, 2) = Packet(m)
  BY DEF Packet, ChunkSize
<1>7. QED
  BY <1>4, <1>5, <1>6

\* With one more packet to send.
Sent(c, m) == [c EXCEPT !.out = Append(@, Packet(m))]

\* What Sends makes of a connection, when the message needs no more than one chunk or the size
\* has been told.
LEMMA SentIs ==
    ASSUME NEW c, NEW m \in Messages, Connected(c)
    PROVE  /\ Connected(Sent(c, m)) /\ Sent(c, m).reader = c.reader
           /\ Sent(c, m).hs = c.hs /\ Sent(c, m).state = c.state
           /\ Sent(c, m).publishing = c.publishing /\ Sent(c, m).size = c.size
           /\ Sent(c, m).out = Append(c.out, Packet(m)) /\ Sent(c, m).ok = c.ok
           /\ Sent(c, m).taken = c.taken /\ Sent(c, m).delivered = c.delivered
           /\ m.lenght = 1 \/ c.size = 2 => Sends(c, m) = Sent(c, m)
<1> DEFINE d == Sent(c, m)
           s == Append(c.out, Packet(m))
<1>0. s \in Seq(Wires)
  <2>1. Packet(m) \in Wires /\ c.out \in Seq(Wires)
    BY PacketWire DEF Connected
  <2>2. QED
    BY <2>1, AppendProperties
<1>1. c = [hs |-> c.hs, state |-> c.state, publishing |-> c.publishing,
           reader |-> c.reader, size |-> c.size, out |-> c.out, ok |-> c.ok,
           taken |-> c.taken, delivered |-> c.delivered]
  BY DEF Connected
<1>2. d = [c EXCEPT !.out = s]
  BY DEF Sent
<1> HIDE DEF s
<1>3. d = [hs |-> c.hs, state |-> c.state, publishing |-> c.publishing,
           reader |-> c.reader, size |-> c.size, out |-> s, ok |-> c.ok,
           taken |-> c.taken, delivered |-> c.delivered]
  BY <1>1, <1>2
<1> HIDE DEF d
<1>4. /\ d.reader = c.reader /\ d.out = s
      /\ d.hs = c.hs /\ d.state = c.state /\ d.publishing = c.publishing /\ d.size = c.size
      /\ d.ok = c.ok /\ d.taken = c.taken /\ d.delivered = c.delivered
  BY <1>3
<1>5. Connected(d)
  BY <1>0, <1>3, <1>4 DEF Connected
<1>6. ASSUME m.lenght = 1 \/ c.size = 2 PROVE Sends(c, m) = d
  <2>1. CreateChunk(m, c.size) = Packet(m)
    BY <1>6, PacketWire DEF Connected
  <2>2. QED
    BY <2>1, Zenon DEF Sends, Sent, d
<1>7. QED
  BY <1>4, <1>5, <1>6 DEF d, s

\* Changes of one field of a connection.
Delivering(c, m) == [c EXCEPT !.delivered = Append(@, m)]
Sized(c) == [c EXCEPT !.size = ChunkSize]
Going(c, b) == [c EXCEPT !.ok = b]
Accepted(c, b) == [c EXCEPT !.publishing = b]
Advanced(c, s) == [c EXCEPT !.state = s]
Shaken(c, h) == [c EXCEPT !.hs = h]
Saying(c, o) == [c EXCEPT !.out = o]

\* What becomes of the fields.
LEMMA DeliveringIs ==
    ASSUME NEW c, NEW m, Connected(c), m \in Messages \union {Garbled}
    PROVE  /\ Connected(Delivering(c, m)) /\ Delivering(c, m).hs = c.hs
           /\ Delivering(c, m).state = c.state /\ Delivering(c, m).publishing = c.publishing
           /\ Delivering(c, m).reader = c.reader /\ Delivering(c, m).size = c.size
           /\ Delivering(c, m).out = c.out /\ Delivering(c, m).ok = c.ok
           /\ Delivering(c, m).taken = c.taken
           /\ Delivering(c, m).delivered = Append(c.delivered, m)
<1> DEFINE d == Delivering(c, m)
           v == Append(c.delivered, m)
<1>0. v \in Seq(Messages \union {Garbled})
  BY AppendProperties DEF Connected
<1>1. c = [hs |-> c.hs, state |-> c.state, publishing |-> c.publishing,
           reader |-> c.reader, size |-> c.size, out |-> c.out, ok |-> c.ok,
           taken |-> c.taken, delivered |-> c.delivered]
  BY DEF Connected
<1>2. d = [c EXCEPT !.delivered = v]
  BY DEF Delivering
<1> HIDE DEF v, d
<1>3. d = [hs |-> c.hs, state |-> c.state, publishing |-> c.publishing, reader |-> c.reader,
           size |-> c.size, out |-> c.out, ok |-> c.ok, taken |-> c.taken, delivered |-> v]
  BY <1>1, <1>2
<1>4. /\ d.hs = c.hs /\ d.state = c.state /\ d.publishing = c.publishing
      /\ d.reader = c.reader /\ d.size = c.size /\ d.out = c.out /\ d.ok = c.ok
      /\ d.taken = c.taken /\ d.delivered = v
  BY <1>3
<1>5. Connected(d)
  BY <1>0, <1>3, <1>4 DEF Connected
<1>6. QED
  BY <1>4, <1>5 DEF d, v

\* SetChunkSize changes the size alone, ...
LEMMA SizedIs ==
    ASSUME NEW c, Connected(c)
    PROVE  /\ Connected(Sized(c)) /\ Sized(c).hs = c.hs /\ Sized(c).state = c.state
           /\ Sized(c).publishing = c.publishing /\ Sized(c).reader = c.reader /\ Sized(c).size = 2
           /\ Sized(c).out = c.out /\ Sized(c).ok = c.ok /\ Sized(c).taken = c.taken
           /\ Sized(c).delivered = c.delivered
<1> DEFINE d == Sized(c)
           v == 2
<1>0. v \in {1, 2}
  OBVIOUS
<1>1. c = [hs |-> c.hs, state |-> c.state, publishing |-> c.publishing,
           reader |-> c.reader, size |-> c.size, out |-> c.out, ok |-> c.ok,
           taken |-> c.taken, delivered |-> c.delivered]
  BY DEF Connected
<1>2. d = [c EXCEPT !.size = v]
  BY DEF Sized, ChunkSize
<1> HIDE DEF v, d
<1>3. d = [hs |-> c.hs, state |-> c.state, publishing |-> c.publishing, reader |-> c.reader,
           size |-> v, out |-> c.out, ok |-> c.ok, taken |-> c.taken, delivered |-> c.delivered]
  BY <1>1, <1>2
<1>4. /\ d.hs = c.hs /\ d.state = c.state /\ d.publishing = c.publishing
      /\ d.reader = c.reader /\ d.size = v /\ d.out = c.out /\ d.ok = c.ok
      /\ d.taken = c.taken /\ d.delivered = c.delivered
  BY <1>3
<1>5. Connected(d)
  BY <1>0, <1>3, <1>4 DEF Connected
<1>6. QED
  BY <1>4, <1>5 DEF d, v

\* ... a failure ok, ...
LEMMA GoingIs ==
    ASSUME NEW c, NEW b, Connected(c), b \in BOOLEAN
    PROVE  /\ Connected(Going(c, b)) /\ Going(c, b).hs = c.hs /\ Going(c, b).state = c.state
           /\ Going(c, b).publishing = c.publishing /\ Going(c, b).reader = c.reader
           /\ Going(c, b).size = c.size /\ Going(c, b).out = c.out /\ Going(c, b).ok = b
           /\ Going(c, b).taken = c.taken /\ Going(c, b).delivered = c.delivered
<1> DEFINE d == Going(c, b)
           v == b
<1>0. v \in BOOLEAN
  OBVIOUS
<1>1. c = [hs |-> c.hs, state |-> c.state, publishing |-> c.publishing,
           reader |-> c.reader, size |-> c.size, out |-> c.out, ok |-> c.ok,
           taken |-> c.taken, delivered |-> c.delivered]
  BY DEF Connected
<1>2. d = [c EXCEPT !.ok = v]
  BY DEF Going
<1> HIDE DEF v, d
<1>3. d = [hs |-> c.hs, state |-> c.state, publishing |-> c.publishing, reader |-> c.reader,
           size |-> c.size, out |-> c.out, ok |-> v, taken |-> c.taken, delivered |-> c.delivered]
  BY <1>1, <1>2
<1>4. /\ d.hs = c.hs /\ d.state = c.state /\ d.publishing = c.publishing
      /\ d.reader = c.reader /\ d.size = c.size /\ d.out = c.out /\ d.ok = v
      /\ d.taken = c.taken /\ d.delivered = c.delivered
  BY <1>3
<1>5. Connected(d)
  BY <1>0, <1>3, <1>4 DEF Connected
<1>6. QED
  BY <1>4, <1>5 DEF d, v

\* ... the server's answer to publish whether it has a publisher, ...
LEMMA AcceptedIs ==
    ASSUME NEW c, NEW b, Connected(c), b \in BOOLEAN
    PROVE  /\ Connected(Accepted(c, b)) /\ Accepted(c, b).hs = c.hs
           /\ Accepted(c, b).state = c.state /\ Accepted(c, b).publishing = b
           /\ Accepted(c, b).reader = c.reader /\ Accepted(c, b).size = c.size
           /\ Accepted(c, b).out = c.out /\ Accepted(c, b).ok = c.ok
           /\ Accepted(c, b).taken = c.taken /\ Accepted(c, b).delivered = c.delivered
<1> DEFINE d == Accepted(c, b)
           v == b
<1>0. v \in BOOLEAN
  OBVIOUS
<1>1. c = [hs |-> c.hs, state |-> c.state, publishing |-> c.publishing,
           reader |-> c.reader, size |-> c.size, out |-> c.out, ok |-> c.ok,
           taken |-> c.taken, delivered |-> c.delivered]
  BY DEF Connected
<1>2. d = [c EXCEPT !.publishing = v]
  BY DEF Accepted
<1> HIDE DEF v, d
<1>3. d = [hs |-> c.hs, state |-> c.state, publishing |-> v, reader |-> c.reader,
           size |-> c.size, out |-> c.out, ok |-> c.ok, taken |-> c.taken, delivered |-> c.delivered]
  BY <1>1, <1>2
<1>4. /\ d.hs = c.hs /\ d.state = c.state /\ d.publishing = v /\ d.reader = c.reader
      /\ d.size = c.size /\ d.out = c.out /\ d.ok = c.ok /\ d.taken = c.taken
      /\ d.delivered = c.delivered
  BY <1>3
<1>5. Connected(d)
  BY <1>0, <1>3, <1>4 DEF Connected
<1>6. QED
  BY <1>4, <1>5 DEF d, v

\* ... the client's progress its state, ...
LEMMA AdvancedIs ==
    ASSUME NEW c, NEW s, Connected(c), s \in ClientStates
    PROVE  /\ Connected(Advanced(c, s)) /\ Advanced(c, s).hs = c.hs /\ Advanced(c, s).state = s
           /\ Advanced(c, s).publishing = c.publishing /\ Advanced(c, s).reader = c.reader
           /\ Advanced(c, s).size = c.size /\ Advanced(c, s).out = c.out
           /\ Advanced(c, s).ok = c.ok /\ Advanced(c, s).taken = c.taken
           /\ Advanced(c, s).delivered = c.delivered
<1> DEFINE d == Advanced(c, s)
           v == s
<1>0. v \in ClientStates
  OBVIOUS
<1>1. c = [hs |-> c.hs, state |-> c.state, publishing |-> c.publishing,
           reader |-> c.reader, size |-> c.size, out |-> c.out, ok |-> c.ok,
           taken |-> c.taken, delivered |-> c.delivered]
  BY DEF Connected
<1>2. d = [c EXCEPT !.state = v]
  BY DEF Advanced
<1> HIDE DEF v, d
<1>3. d = [hs |-> c.hs, state |-> v, publishing |-> c.publishing, reader |-> c.reader,
           size |-> c.size, out |-> c.out, ok |-> c.ok, taken |-> c.taken, delivered |-> c.delivered]
  BY <1>1, <1>2
<1>4. /\ d.hs = c.hs /\ d.state = v /\ d.publishing = c.publishing /\ d.reader = c.reader
      /\ d.size = c.size /\ d.out = c.out /\ d.ok = c.ok /\ d.taken = c.taken
      /\ d.delivered = c.delivered
  BY <1>3
<1>5. Connected(d)
  BY <1>0, <1>3, <1>4 DEF Connected
<1>6. QED
  BY <1>4, <1>5 DEF d, v

\* ... the handshake hs, ...
LEMMA ShakenIs ==
    ASSUME NEW c, NEW h, Connected(c)
    PROVE  /\ Connected(Shaken(c, h)) /\ Shaken(c, h).hs = h /\ Shaken(c, h).state = c.state
           /\ Shaken(c, h).publishing = c.publishing /\ Shaken(c, h).reader = c.reader
           /\ Shaken(c, h).size = c.size /\ Shaken(c, h).out = c.out /\ Shaken(c, h).ok = c.ok
           /\ Shaken(c, h).taken = c.taken /\ Shaken(c, h).delivered = c.delivered
<1> DEFINE d == Shaken(c, h)
           v == h
<1>0. TRUE
  OBVIOUS
<1>1. c = [hs |-> c.hs, state |-> c.state, publishing |-> c.publishing,
           reader |-> c.reader, size |-> c.size, out |-> c.out, ok |-> c.ok,
           taken |-> c.taken, delivered |-> c.delivered]
  BY DEF Connected
<1>2. d = [c EXCEPT !.hs = v]
  BY DEF Shaken
<1> HIDE DEF v, d
<1>3. d = [hs |-> v, state |-> c.state, publishing |-> c.publishing, reader |-> c.reader,
           size |-> c.size, out |-> c.out, ok |-> c.ok, taken |-> c.taken, delivered |-> c.delivered]
  BY <1>1, <1>2
<1>4. /\ d.hs = v /\ d.state = c.state /\ d.publishing = c.publishing /\ d.reader = c.reader
      /\ d.size = c.size /\ d.out = c.out /\ d.ok = c.ok /\ d.taken = c.taken
      /\ d.delivered = c.delivered
  BY <1>3
<1>5. Connected(d)
  BY <1>0, <1>3, <1>4 DEF Connected
<1>6. QED
  BY <1>4, <1>5 DEF d, v

\* ... and a flush what is to be sent.
LEMMA SayingIs ==
    ASSUME NEW c, NEW o, Connected(c), o \in Seq(Wires)
    PROVE  /\ Connected(Saying(c, o)) /\ Saying(c, o).hs = c.hs /\ Saying(c, o).state = c.state
           /\ Saying(c, o).publishing = c.publishing /\ Saying(c, o).reader = c.reader
           /\ Saying(c, o).size = c.size /\ Saying(c, o).out = o /\ Saying(c, o).ok = c.ok
           /\ Saying(c, o).taken = c.taken /\ Saying(c, o).delivered = c.delivered
<1> DEFINE d == Saying(c, o)
           v == o
<1>0. v \in Seq(Wires)
  OBVIOUS
<1>1. c = [hs |-> c.hs, state |-> c.state, publishing |-> c.publishing,
           reader |-> c.reader, size |-> c.size, out |-> c.out, ok |-> c.ok,
           taken |-> c.taken, delivered |-> c.delivered]
  BY DEF Connected
<1>2. d = [c EXCEPT !.out = v]
  BY DEF Saying
<1> HIDE DEF v, d
<1>3. d = [hs |-> c.hs, state |-> c.state, publishing |-> c.publishing, reader |-> c.reader,
           size |-> c.size, out |-> v, ok |-> c.ok, taken |-> c.taken, delivered |-> c.delivered]
  BY <1>1, <1>2
<1>4. /\ d.hs = c.hs /\ d.state = c.state /\ d.publishing = c.publishing
      /\ d.reader = c.reader /\ d.size = c.size /\ d.out = v /\ d.ok = c.ok
      /\ d.taken = c.taken /\ d.delivered = c.delivered
  BY <1>3
<1>5. Connected(d)
  BY <1>0, <1>3, <1>4 DEF Connected
<1>6. QED
  BY <1>4, <1>5 DEF d, v

\* Messages that are not the same.
LEMMA Apart ==
    /\ Requests \subseteq Messages /\ Media \subseteq Messages /\ FromClient \subseteq Messages
    /\ FromServer \subseteq Messages /\ Garbled \notin Messages
    /\ Requests \intersect Media = {}
    /\ SetChunkSize \notin {Connect, CreateStream, Publish, ConnectResult, CreateStreamResult,
                            OnStatus("Start"), OnStatus("BadName")}
    /\ Connect \notin {CreateStream, Publish} /\ CreateStream # Publish
    /\ {ConnectResult, CreateStreamResult}
         \intersect {OnStatus("Start"), OnStatus("BadName"), Acknowledgement, PeerBandWidth} = {}
    /\ OnStatus("Start") \notin {OnStatus("BadName"), Acknowledgement, PeerBandWidth}
    /\ OnStatus("BadName") \notin {Acknowledgement, PeerBandWidth}
    /\ Acknowledgement.lenght = 1 /\ PeerBandWidth.lenght = 1 /\ SetChunkSize.lenght = 1
    /\ CreateStreamResult.lenght = 1 /\ OnStatus("Start").lenght = 1
    /\ OnStatus("BadName").lenght = 1 /\ CreateStream.lenght = 1 /\ Publish.lenght = 1
    /\ OnStatus("Start").body = "Start" /\ OnStatus("BadName").body = "BadName"
    /\ Garbled \notin Requests /\ Garbled \notin Media
<1>1. Garbled \notin Messages
  BY MessageFacts
<1> USE DEF Requests, FromClient, FromServer, Messages, Media, SetChunkSize, Connect,
        CreateStream, Publish, AvcHeader, AacHeader, Picture, Sound, Acknowledgement,
        PeerBandWidth, ConnectResult, CreateStreamResult, OnStatus, Message
<1>2. /\ Requests \subseteq Messages /\ Media \subseteq Messages /\ FromClient \subseteq Messages
      /\ FromServer \subseteq Messages
  OBVIOUS
<1>3. Requests \intersect Media = {}
  OBVIOUS
<1>4. /\ SetChunkSize \notin {Connect, CreateStream, Publish, ConnectResult, CreateStreamResult,
                              OnStatus("Start"), OnStatus("BadName")}
      /\ Connect \notin {CreateStream, Publish} /\ CreateStream # Publish
      /\ {ConnectResult, CreateStreamResult}
           \intersect {OnStatus("Start"), OnStatus("BadName"), Acknowledgement, PeerBandWidth} = {}
      /\ OnStatus("Start") \notin {OnStatus("BadName"), Acknowledgement, PeerBandWidth}
      /\ OnStatus("BadName") \notin {Acknowledgement, PeerBandWidth}
  OBVIOUS
<1>5. /\ Acknowledgement.lenght = 1 /\ PeerBandWidth.lenght = 1 /\ SetChunkSize.lenght = 1
      /\ CreateStreamResult.lenght = 1 /\ OnStatus("Start").lenght = 1
      /\ OnStatus("BadName").lenght = 1 /\ CreateStream.lenght = 1 /\ Publish.lenght = 1
      /\ OnStatus("Start").body = "Start" /\ OnStatus("BadName").body = "BadName"
  OBVIOUS
<1>6. Garbled \notin Requests /\ Garbled \notin Media
  BY DEF Garbled
<1>7. QED
  BY <1>1, <1>2, <1>3, <1>4, <1>5, <1>6

\* What the client has still to make of what the server sent, tail last: the messages Q,
\* and the handshake's packet before them while that is awaited.
Receives(tail, Q) ==
    IF client.hs = "S0S1S2" THEN Joined(inbox, tail, S0S1S2 \o Chunks(Q))
    ELSE Carries(Fed(client.reader, inbox), tail, Q)

\* A client that will receive one message more.
LEMMA ReceivesMore ==
    ASSUME NEW tail, NEW Q \in Seq(Messages), NEW m \in Messages, NEW more,
           Receives(tail, Q), Grown(tail, Packet(m), more)
    PROVE  Receives(more, Append(Q, m))
<1>1. CASE client.hs = "S0S1S2"
  <2> DEFINE h == S0S1S2
             c == Chunks(Q)
             k == Packet(m)
             d == Chunks(Append(Q, m))
  <2>1. c \in Streams /\ k \in Streams /\ Grown(c, k, d)
    BY ChunksMore
  <2>2. h \in Streams
    <3>1. \A i \in 1 .. 2 : [unit |-> "S0S1S2", no |-> i] \in Units
      BY DEF Units
    <3>2. [i \in 1 .. 2 |-> [unit |-> "S0S1S2", no |-> i]] \in Seq(Units)
      BY <3>1, IsASeq
    <3>3. QED
      BY <3>2 DEF Streams, S0S1S2, Greeting
  <2> HIDE DEF h, c, d, k
  <2> DEFINE s == h \o c
             s2 == h \o d
  <2>3. Grown(s, k, s2)
    <3>1. (h \o c) \o k = h \o (c \o k)
      BY <2>1, <2>2, StreamAssociates, Zenon
    <3>2. QED
      BY <2>1, <3>1, Zenon DEF Grown
  <2>4. Joined(inbox, tail, s)
    BY <1>1 DEF Receives, h, c
  <2> HIDE DEF s, s2
  <2>5. Joined(inbox, more, s2)
    BY <2>1, <2>3, <2>4, JoinedMore DEF k
  <2>6. QED
    BY <1>1, <2>5, Zenon DEF Receives, s2, h, d
<1>2. CASE client.hs # "S0S1S2"
  <2>1. Carries(Fed(client.reader, inbox), tail, Q)
    BY <1>2 DEF Receives
  <2>2. Carries(Fed(client.reader, inbox), more, Append(Q, m))
    BY <2>1, CarriesMore
  <2>3. QED
    BY <1>2, <2>2 DEF Receives
<1>3. QED
  BY <1>1, <1>2

\* So do the messages Q when the server has still to send packets, of what it knows.
Hears(packets, taken, publishing, Q) ==
    /\ Q \in Seq(FromServer)
    /\ \E d \in Streams : Grown(s2c, FlattenSeq(packets), d) /\ Receives(d, Q)
    /\ SizesOK(Q, client.reader.size)
    /\ OnStatus("BadName") \in Range(Q) => taken
    /\ OnStatus("Start") \in Range(Q) => publishing

\* The server's answers with one more.
LEMMA HearsMore ==
    ASSUME NEW packets \in Seq(Wires), NEW taken, NEW publishing, NEW Q, NEW m \in FromServer,
           Hears(packets, taken, publishing, Q), s2c \in Streams,
           m.lenght > 1 => SetChunkSize \in Range(Q),
           m = OnStatus("BadName") => taken,
           m = OnStatus("Start") => publishing
    PROVE  /\ Hears(Append(packets, Packet(m)), taken, publishing, Append(Q, m))
           /\ m = SetChunkSize => SetChunkSize \in Range(Append(Q, m))
<1> DEFINE k == Packet(m)
           more == Append(packets, k)
           R == Append(Q, m)
<1>1. PICK d \in Streams : Grown(s2c, FlattenSeq(packets), d) /\ Receives(d, Q)
  BY Zenon DEF Hears
<1>2. m \in Messages /\ Q \in Seq(FromServer) /\ Q \in Seq(Messages)
  <2>1. m \in Messages /\ \A x \in FromServer : x \in Messages
    BY Apart
  <2>2. Q \in Seq(FromServer)
    BY DEF Hears
  <2>3. QED
    BY <2>1, <2>2, SeqWider
<1>3. k \in Wires /\ k \in Streams
  BY <1>2, PacketWire, WiresAre
<1>4. FlattenSeq(more) = FlattenSeq(packets) \o k /\ FlattenSeq(packets) \in Streams
  BY <1>3, FlatWires
<1>5. d \o k \in Streams /\ Grown(s2c, FlattenSeq(more), d \o k)
  <2> DEFINE f == FlattenSeq(packets)
             g == FlattenSeq(more)
  <2>1. d = s2c \o f /\ g = f \o k /\ f \in Streams
    BY <1>1, <1>4, Zenon DEF Grown
  <2> HIDE DEF f, g, k
  <2>2. (s2c \o f) \o k = s2c \o (f \o k) /\ d \o k \in Streams
    BY <1>3, <2>1, StreamAssociates, StreamJoins, Zenon
  <2>3. QED
    BY <2>1, <2>2, Zenon DEF Grown, g
<1>6. Receives(d \o k, R)
  <2> DEFINE e == d \o k
  <2>1. Grown(d, Packet(m), e)
    BY Zenon DEF Grown
  <2> HIDE DEF e
  <2>2. Receives(e, R)
    BY <1>1, <1>2, <2>1, ReceivesMore
  <2>3. QED
    BY <2>2 DEF e
<1>7. R \in Seq(FromServer) /\ Range(R) = Range(Q) \union {m}
  BY <1>2, RangeMore
<1>8. SizesOK(R, client.reader.size)
  BY <1>2, SizesMore DEF Hears
<1>9. \E c \in Streams : Grown(s2c, FlattenSeq(more), c) /\ Receives(c, R)
  BY <1>5, <1>6, Zenon
<1> HIDE DEF R, more
<1>10. /\ OnStatus("BadName") \in Range(R) => taken
       /\ OnStatus("Start") \in Range(R) => publishing
       /\ m = SetChunkSize => SetChunkSize \in Range(R)
  BY <1>7 DEF Hears
<1>11. QED
  BY <1>7, <1>8, <1>9, <1>10, Zenon DEF Hears, R, more, k

\* HandleConnect sends the chunk size before the result, which needs it.
LEMMA HandleConnectIs ==
    ASSUME NEW c, Connected(c), NEW Q, Hears(c.out, c.taken, c.publishing, Q), s2c \in Streams
    PROVE  LET y == HandleConnect(c) IN
           /\ Connected(y) /\ y.hs = c.hs /\ y.taken = c.taken /\ y.delivered = c.delivered
           /\ y.reader = c.reader /\ y.publishing = c.publishing /\ y.ok = c.ok
           /\ \E R : Hears(y.out, y.taken, y.publishing, R)
<1> DEFINE a == Sent(c, Acknowledgement)
           b == Sent(a, PeerBandWidth)
           d == Sized(b)
           e == Sent(d, SetChunkSize)
           y == Sent(e, ConnectResult)
           Q1 == Append(Q, Acknowledgement)
           Q2 == Append(Q1, PeerBandWidth)
           Q3 == Append(Q2, SetChunkSize)
           Q4 == Append(Q3, ConnectResult)
<1>0. /\ Acknowledgement \in FromServer /\ PeerBandWidth \in FromServer
      /\ SetChunkSize \in FromServer /\ ConnectResult \in FromServer
  BY DEF FromServer
<1>0a. /\ Acknowledgement \in Messages /\ PeerBandWidth \in Messages
       /\ SetChunkSize \in Messages /\ ConnectResult \in Messages
       /\ Acknowledgement.lenght = 1 /\ PeerBandWidth.lenght = 1 /\ SetChunkSize.lenght = 1
       /\ SetChunkSize \notin {OnStatus("BadName"), OnStatus("Start")}
       /\ ConnectResult \notin {OnStatus("BadName"), OnStatus("Start")}
       /\ Acknowledgement \notin {OnStatus("BadName"), OnStatus("Start")}
       /\ PeerBandWidth \notin {OnStatus("BadName"), OnStatus("Start")}
  BY <1>0, Apart
<1>1. /\ Connected(a) /\ a.hs = c.hs /\ a.taken = c.taken /\ a.delivered = c.delivered
      /\ a.reader = c.reader /\ a.publishing = c.publishing /\ a.ok = c.ok
      /\ a.out = Append(c.out, Packet(Acknowledgement)) /\ Sends(c, Acknowledgement) = a
  BY <1>0a, SentIs
<1>2. Hears(a.out, c.taken, c.publishing, Q1)
  <2>1. c.out \in Seq(Wires)
    BY DEF Connected
  <2>2. Hears(Append(c.out, Packet(Acknowledgement)), c.taken, c.publishing, Q1)
    BY <1>0, <1>0a, <2>1, HearsMore
  <2>3. QED
    BY <1>1, <2>2
<1> HIDE DEF a, Q1
<1>3. /\ Connected(b) /\ b.hs = c.hs /\ b.taken = c.taken /\ b.delivered = c.delivered
      /\ b.reader = c.reader /\ b.publishing = c.publishing /\ b.ok = c.ok
      /\ b.out = Append(a.out, Packet(PeerBandWidth)) /\ Sends(a, PeerBandWidth) = b
  BY <1>0a, <1>1, SentIs
<1>4. Hears(b.out, c.taken, c.publishing, Q2)
  <2>1. a.out \in Seq(Wires)
    BY <1>1 DEF Connected
  <2>2. Hears(Append(a.out, Packet(PeerBandWidth)), c.taken, c.publishing, Q2)
    BY <1>0, <1>0a, <1>2, <2>1, HearsMore
  <2>3. QED
    BY <1>3, <2>2
<1> HIDE DEF b, Q2
<1>5. /\ Connected(d) /\ d.hs = c.hs /\ d.taken = c.taken /\ d.delivered = c.delivered
      /\ d.reader = c.reader /\ d.publishing = c.publishing /\ d.ok = c.ok
      /\ d.out = b.out /\ d.size = 2
  BY <1>3, SizedIs
<1>5a. SendsChunkSize(b) = Sends(d, SetChunkSize)
  BY DEF SendsChunkSize, Sized
<1> HIDE DEF d
<1>6. /\ Connected(e) /\ e.hs = c.hs /\ e.taken = c.taken /\ e.delivered = c.delivered
      /\ e.reader = c.reader /\ e.publishing = c.publishing /\ e.ok = c.ok /\ e.size = 2
      /\ e.out = Append(b.out, Packet(SetChunkSize)) /\ Sends(d, SetChunkSize) = e
  BY <1>0a, <1>5, SentIs
<1>7. Hears(e.out, c.taken, c.publishing, Q3) /\ SetChunkSize \in Range(Q3)
  <2>1. b.out \in Seq(Wires)
    BY <1>3 DEF Connected
  <2> DEFINE m == SetChunkSize
  <2>1a. m \in FromServer /\ m.lenght = 1 /\ m = SetChunkSize /\ m \notin {OnStatus("BadName"), OnStatus("Start")}
    BY <1>0, <1>0a
  <2>1b. Q3 = Append(Q2, m)
    BY DEF Q3
  <2> HIDE DEF m, Q3
  <2>1c. Hears(Append(b.out, Packet(m)), c.taken, c.publishing, Append(Q2, m))
    BY <1>4, <2>1, <2>1a, HearsMore
  <2>1d. m = SetChunkSize => SetChunkSize \in Range(Append(Q2, m))
    BY <1>4, <2>1, <2>1a, RangeMore DEF Hears
  <2>2. /\ Hears(Append(b.out, Packet(SetChunkSize)), c.taken, c.publishing, Q3)
        /\ SetChunkSize \in Range(Q3)
    BY <2>1a, <2>1b, <2>1c, <2>1d, Zenon
  <2>3. QED
    BY <1>6, <2>2
<1> HIDE DEF e, Q3
<1>8. /\ Connected(y) /\ y.hs = c.hs /\ y.taken = c.taken /\ y.delivered = c.delivered
      /\ y.reader = c.reader /\ y.publishing = c.publishing /\ y.ok = c.ok
      /\ y.out = Append(e.out, Packet(ConnectResult)) /\ Sends(e, ConnectResult) = y
  BY <1>0a, <1>6, SentIs
<1>9. Hears(y.out, c.taken, c.publishing, Q4)
  <2>1. e.out \in Seq(Wires)
    BY <1>6 DEF Connected
  <2>2. Hears(Append(e.out, Packet(ConnectResult)), c.taken, c.publishing, Q4)
    BY <1>0, <1>0a, <1>7, <2>1, HearsMore
  <2>3. QED
    BY <1>8, <2>2
<1>10. HandleConnect(c) = y
  BY <1>1, <1>3, <1>5a, <1>6, <1>8, Zenon DEF HandleConnect
<1> HIDE DEF y, Q4
<1>11. \E R : Hears(y.out, y.taken, y.publishing, R)
  BY <1>8, <1>9
<1>12. QED
  BY <1>8, <1>10, <1>11

\* A result that is one message.
LEMMA AnswerIs ==
    ASSUME NEW c, Connected(c), NEW Q, Hears(c.out, c.taken, c.publishing, Q), s2c \in Streams,
           NEW m \in {CreateStreamResult, OnStatus("Start"), OnStatus("BadName")},
           m = OnStatus("BadName") => c.taken, m = OnStatus("Start") => c.publishing
    PROVE  LET y == Sends(c, m) IN
           /\ Connected(y) /\ y.hs = c.hs /\ y.taken = c.taken /\ y.delivered = c.delivered
           /\ y.reader = c.reader /\ y.publishing = c.publishing /\ y.ok = c.ok
           /\ \E R : Hears(y.out, y.taken, y.publishing, R)
<1> DEFINE y == Sent(c, m)
           R == Append(Q, m)
<1>1. m \in FromServer /\ m \in Messages /\ m.lenght = 1
  <2>1. m \in FromServer
    BY DEF FromServer
  <2>2. m.lenght = 1
    BY Apart
  <2>3. QED
    BY <2>1, <2>2, Apart
<1>2. /\ Connected(y) /\ y.hs = c.hs /\ y.taken = c.taken /\ y.delivered = c.delivered
      /\ y.reader = c.reader /\ y.publishing = c.publishing /\ y.ok = c.ok
      /\ y.out = Append(c.out, Packet(m)) /\ Sends(c, m) = y
  BY <1>1, SentIs
<1>3. c.out \in Seq(Wires)
  BY DEF Connected
<1>4. Hears(Append(c.out, Packet(m)), c.taken, c.publishing, R)
  BY <1>1, <1>3, HearsMore
<1> HIDE DEF y, R
<1>5. \E S : Hears(y.out, y.taken, y.publishing, S)
  BY <1>2, <1>4
<1>6. QED
  BY <1>2, <1>5

\* Accepting the stream spoils nothing that was on its way.
LEMMA HearsOn ==
    ASSUME NEW packets, NEW taken, NEW publishing, NEW accepted, NEW Q,
           Hears(packets, taken, publishing, Q), publishing => accepted
    PROVE  Hears(packets, taken, accepted, Q)
BY Zenon DEF Hears

\* HandlePublish accepts the stream, or fails because its name is taken, and answers which.
LEMMA HandlePublishIs ==
    ASSUME NEW c, Connected(c), NEW Q, Hears(c.out, c.taken, c.publishing, Q), s2c \in Streams
    PROVE  LET y == HandlePublish(c) IN
           /\ Connected(y) /\ y.hs = c.hs /\ y.taken = c.taken /\ y.delivered = c.delivered
           /\ y.reader = c.reader /\ y.publishing = (c.publishing \/ ~ c.taken)
           /\ y.ok = (c.ok /\ ~ c.taken)
           /\ \E R : Hears(y.out, y.taken, y.publishing, R)
<1>0. c.taken \in BOOLEAN /\ c.publishing \in BOOLEAN /\ c.ok \in BOOLEAN
  BY DEF Connected
<1>1. CASE c.taken
  <2> DEFINE d == Sends(c, OnStatus("BadName"))
             no == FALSE
             y == Going(d, no)
  <2>1. /\ Connected(d) /\ d.hs = c.hs /\ d.taken = c.taken /\ d.delivered = c.delivered
        /\ d.reader = c.reader /\ d.publishing = c.publishing /\ d.ok = c.ok
        /\ \E R : Hears(d.out, d.taken, d.publishing, R)
    BY <1>1, Apart, AnswerIs
  <2>2. HandlePublish(c) = y
    BY <1>1 DEF HandlePublish, Going
  <2>2a. no \in BOOLEAN /\ ~ no
    OBVIOUS
  <2> HIDE DEF d, no
  <2>3. /\ Connected(y) /\ y.hs = d.hs /\ y.taken = d.taken /\ y.delivered = d.delivered
        /\ y.reader = d.reader /\ y.publishing = d.publishing /\ y.ok = no /\ y.out = d.out
    BY <2>1, <2>2a, GoingIs
  <2> HIDE DEF y
  <2>4. \E R : Hears(y.out, y.taken, y.publishing, R)
    BY <2>1, <2>3
  <2>5. QED
    BY <1>0, <1>1, <2>1, <2>2, <2>2a, <2>3, <2>4
<1>2. CASE ~ c.taken
  <2> DEFINE yes == TRUE
             b == Accepted(c, yes)
             d == Sends(b, OnStatus("Start"))
  <2>0. yes /\ yes \in BOOLEAN
    OBVIOUS
  <2>0a. yes = TRUE
    OBVIOUS
  <2> HIDE DEF yes
  <2>1. /\ Connected(b) /\ b.hs = c.hs /\ b.taken = c.taken /\ b.delivered = c.delivered
        /\ b.reader = c.reader /\ b.publishing = yes /\ b.ok = c.ok /\ b.out = c.out
        /\ b.size = c.size
    BY ZenonT(60), <2>0, AcceptedIs
  <2>2. Hears(b.out, b.taken, b.publishing, Q)
    BY <2>0, <2>1, HearsOn
  <2>3. HandlePublish(c) = d
    <3> DEFINE k == CreateChunk(OnStatus("Start"), c.size)
    <3>0. c = [hs |-> c.hs, state |-> c.state, publishing |-> c.publishing,
               reader |-> c.reader, size |-> c.size, out |-> c.out, ok |-> c.ok,
               taken |-> c.taken, delivered |-> c.delivered]
      BY DEF Connected
    <3>1. HandlePublish(c) = [Sends(c, OnStatus("Start")) EXCEPT !.publishing = TRUE]
      BY <1>2 DEF HandlePublish
    <3>2. Sends(c, OnStatus("Start")) = [c EXCEPT !.out = Append(c.out, k)]
      BY DEF Sends
    <3>3. d = [b EXCEPT !.out = Append(c.out, k)]
      BY <2>1 DEF Sends
    <3> DEFINE v == Append(c.out, k)
    <3> HIDE DEF v, k
    <3>4. [[c EXCEPT !.out = v] EXCEPT !.publishing = TRUE]
            = [[c EXCEPT !.publishing = TRUE] EXCEPT !.out = v]
      BY <3>0
    <3>5. b = [c EXCEPT !.publishing = TRUE]
      BY <2>0a, Zenon DEF Accepted
    <3>6. QED
      BY <3>1, <3>2, <3>3, <3>4, <3>5, Zenon DEF v
  <2> HIDE DEF b
  <2>4. /\ Connected(d) /\ d.hs = b.hs /\ d.taken = b.taken /\ d.delivered = b.delivered
        /\ d.reader = b.reader /\ d.publishing = b.publishing /\ d.ok = b.ok
        /\ \E R : Hears(d.out, d.taken, d.publishing, R)
    BY <2>0, <2>1, <2>2, Apart, AnswerIs
  <2> HIDE DEF d
  <2>5. QED
    BY <1>0, <1>2, <2>0, <2>1, <2>3, <2>4
<1>3. QED
  BY <1>0, <1>1, <1>2

\* What the server's handlers do, whatever the message.
LEMMA ServerHandlesIs ==
    ASSUME NEW c, Connected(c), c.ok, NEW Q, Hears(c.out, c.taken, c.publishing, Q),
           s2c \in Streams, NEW m \in Messages \union {Garbled}
    PROVE  LET y == ServerHandles(c, m) IN
           /\ Connected(y) /\ y.hs = c.hs /\ y.taken = c.taken
           /\ y.delivered = Append(c.delivered, m)
           /\ y.reader = IF m = SetChunkSize THEN [c.reader EXCEPT !.size = 2] ELSE c.reader
           /\ y.publishing = (c.publishing \/ (m = Publish /\ ~ c.taken))
           /\ y.ok => m \in FromClient
           /\ \E R : Hears(y.out, y.taken, y.publishing, R)
<1> DEFINE d == Delivering(c, m)
           y == ServerHandles(c, m)
<1>0. c.taken \in BOOLEAN /\ c.publishing \in BOOLEAN /\ c.ok = TRUE
  BY DEF Connected
<1>1. /\ Connected(d) /\ d.hs = c.hs /\ d.taken = c.taken
      /\ d.delivered = Append(c.delivered, m)
      /\ d.reader = c.reader /\ d.publishing = c.publishing /\ d.ok = c.ok /\ d.out = c.out
  BY DeliveringIs
<1>2. Hears(d.out, d.taken, d.publishing, Q)
  BY <1>1
<1>3. y = CASE m = SetChunkSize -> SetInChunkSize(d)
            [] m = Connect -> HandleConnect(d)
            [] m = CreateStream -> Sends(d, CreateStreamResult)
            [] m = Publish -> HandlePublish(d)
            [] m \in Media -> Going(d, d.publishing)
            [] OTHER -> Going(d, FALSE)
  BY Zenon DEF ServerHandles, Delivering, Going
<1> HIDE DEF d, y
<1>4. CASE m = SetChunkSize
  <2> DEFINE r == [c.reader EXCEPT !.size = 2]
  <2>1. y = SetInChunkSize(d)
    BY <1>3, <1>4, Apart DEF Requests
  <2>2. y = With(d, r)
    <3>1. SetInChunkSize(d) = [d EXCEPT !.reader = [d.reader EXCEPT !.size = ChunkSize]]
      BY DEF SetInChunkSize
    <3>2. QED
      BY <1>1, <2>1, <3>1 DEF With, ChunkSize
  <2> HIDE DEF r
  <2>3. /\ Connected(y) /\ y.hs = d.hs /\ y.taken = d.taken /\ y.delivered = d.delivered
        /\ y.reader = r /\ y.publishing = d.publishing /\ y.out = d.out
    BY <1>1, <2>2, WithIs
  <2>4. m \in FromClient /\ m # Publish
    BY <1>4, Apart DEF FromClient, Requests
  <2>5. Hears(y.out, y.taken, y.publishing, Q)
    BY <1>2, <2>3
  <2>6. QED
    BY <1>0, <1>1, <1>4, <2>3, <2>4, <2>5 DEF y, r
<1>5. CASE m = Connect
  <2>1. y = HandleConnect(d)
    BY <1>3, <1>5, Apart DEF Requests
  <2>2. /\ Connected(y) /\ y.hs = d.hs /\ y.taken = d.taken /\ y.delivered = d.delivered
        /\ y.reader = d.reader /\ y.publishing = d.publishing
        /\ \E R : Hears(y.out, y.taken, y.publishing, R)
    BY <1>1, <1>2, <2>1, HandleConnectIs
  <2>3. m \in FromClient /\ m # Publish /\ m # SetChunkSize
    BY <1>5, Apart DEF FromClient, Requests
  <2>4. QED
    BY <1>0, <1>1, <2>2, <2>3 DEF y
<1>6. CASE m = CreateStream
  <2>1. y = Sends(d, CreateStreamResult)
    BY <1>3, <1>6, Apart DEF Requests
  <2>2. CreateStreamResult \notin {OnStatus("Start"), OnStatus("BadName")}
    BY Apart
  <2>3. /\ Connected(y) /\ y.hs = d.hs /\ y.taken = d.taken /\ y.delivered = d.delivered
        /\ y.reader = d.reader /\ y.publishing = d.publishing
        /\ \E R : Hears(y.out, y.taken, y.publishing, R)
    BY <1>1, <1>2, <2>1, <2>2, AnswerIs
  <2>4. m \in FromClient /\ m # Publish /\ m # SetChunkSize
    BY <1>6, Apart DEF FromClient, Requests
  <2>5. QED
    BY <1>0, <1>1, <2>3, <2>4 DEF y
<1>7. CASE m = Publish
  <2>1. y = HandlePublish(d)
    BY <1>3, <1>7, Apart DEF Requests
  <2>2. /\ Connected(y) /\ y.hs = d.hs /\ y.taken = d.taken /\ y.delivered = d.delivered
        /\ y.reader = d.reader /\ y.publishing = (d.publishing \/ ~ d.taken)
        /\ \E R : Hears(y.out, y.taken, y.publishing, R)
    BY <1>1, <1>2, <2>1, HandlePublishIs
  <2>3. m \in FromClient /\ m # SetChunkSize
    BY <1>7, Apart DEF FromClient, Requests
  <2>4. QED
    BY <1>0, <1>1, <1>7, <2>2, <2>3 DEF y
<1>8. CASE m \notin Requests
  <2>1. y = Going(d, m \in Media /\ d.publishing)
    <3>1. m # SetChunkSize /\ m # Connect /\ m # CreateStream /\ m # Publish
      BY <1>8 DEF Requests
    <3>2. CASE m \in Media
      <4>1. y = Going(d, d.publishing) /\ (m \in Media /\ d.publishing) = d.publishing
        BY <1>0, <1>1, <1>3, <3>1, <3>2
      <4>2. QED
        BY <4>1
    <3>3. CASE m \notin Media
      <4>1. y = Going(d, FALSE) /\ (m \in Media /\ d.publishing) = FALSE
        BY <1>3, <3>1, <3>3
      <4>2. QED
        BY <4>1
    <3>4. QED
      BY <3>2, <3>3
  <2> DEFINE b == m \in Media /\ d.publishing
  <2>2. b \in BOOLEAN
    OBVIOUS
  <2>2a. b => m \in Media
    OBVIOUS
  <2> HIDE DEF b
  <2>3. /\ Connected(y) /\ y.hs = d.hs /\ y.taken = d.taken /\ y.delivered = d.delivered
        /\ y.reader = d.reader /\ y.publishing = d.publishing /\ y.ok = b /\ y.out = d.out
    BY ZenonT(60), <1>1, <2>1, <2>2, GoingIs DEF b
  <2>4. y.ok => m \in FromClient
    BY <2>2a, <2>3 DEF FromClient
  <2>5. m # Publish /\ m # SetChunkSize
    BY <1>8 DEF Requests
  <2>6. Hears(y.out, y.taken, y.publishing, Q)
    BY <1>2, <2>3
  <2>7. QED
    BY <1>0, <1>1, <2>3, <2>4, <2>5, <2>6 DEF y
<1>9. QED
  BY <1>4, <1>5, <1>6, <1>7, <1>8 DEF Requests

\* The packets o that a loop has still to send: C2 if it is the first one, and the
\* requests L.
Says(first, o, L) ==
    /\ L \in Seq(Requests)
    /\ IF first THEN o # <<>> /\ Head(o) = C2 /\ Tail(o) = Packets(L) ELSE o = Packets(L)

\* The messages P on their way and V in the video thread's hands, after those of seen:
\* no media before the stream is accepted, and while no packet is lost headers before
\* pictures, in all that will be sent.
Sane(seen, accepted, P, V, closed, lost, key) ==
    /\ ~ accepted => Range(P) \intersect Media = {}
    /\ ~ lost => Leads(seen, P)
    /\ ~ lost /\ ~ closed =>
         /\ Leads(seen \union Range(P), V)
         /\ key => Picture(TRUE) \in (seen \union Range(P)) \union Range(V)

\* The server's reader and what is on its way to it: C0C1 or less, ...
Knocking(sv, loop, way) ==
    /\ loop = <<>> /\ sv.delivered = <<>> /\ sv.reader = Idle(sv.reader.buf, 1)
    /\ \/ sv.hs = "C0C1" /\ \E s \in {<<>>, C0C1} : Joined(sv.reader.buf, way, s)
       \/ sv.hs = "C2" /\ Joined(sv.reader.buf, way, <<>>)

\* ... C2, which the closed connection does not send, and messages, ...
Entering(sv, loop, closed, way, P, L) ==
    /\ sv.hs = "C2" /\ sv.delivered = <<>> /\ sv.reader = Idle(sv.reader.buf, 1)
    /\ \/ Says(TRUE, loop, L) /\ P = <<>> /\ Joined(sv.reader.buf, way, <<>>)
       \/ Says(FALSE, loop, L) /\ P = <<>> /\ closed /\ Joined(sv.reader.buf, way, <<>>)
       \/ Says(FALSE, loop, L) /\ Joined(sv.reader.buf, way, C2 \o Chunks(P))

\* ... messages, ...
Talking(sv, loop, way, P, L) ==
    /\ sv.hs = "COMPLETE" /\ Says(FALSE, loop, L)
    /\ sv.reader.size \in {1, 2} /\ Carries(sv.reader, way, P)

\* ... or what will close the connection.
Broken(sv, loop, way, L) ==
    sv.hs = "COMPLETE" /\ Says(FALSE, loop, L) /\ Doomed(sv.reader, way)

\* One of the four, by the state of the handshakes.
Spoken(hs, sv, loop, closed, way, P, L) ==
    \/ hs = "S0S1S2" /\ Knocking(sv, loop, way) /\ P = <<>>
    \/ hs = "COMPLETE" /\ Entering(sv, loop, closed, way, P, L)
    \/ hs = "COMPLETE" /\ Talking(sv, loop, way, P, L)

\* What flows to the server: the messages on their way are sane, or it will close the connection.
Flows(hs, sv, loop, closed, lost, key, way, V) ==
    \E L \in Seq(Requests) :
      \/ hs = "COMPLETE" /\ Broken(sv, loop, way, L)
      \/ \E P \in Seq(FromClient) :
           /\ Sane(Range(sv.delivered), sv.publishing, P, V, closed, lost, key)
           /\ Spoken(hs, sv, loop, closed, way, P, L)

\* What was handled keeps the order HeadersFirst asks for.
First(s, accepted, lost) ==
    /\ ~ lost => Leads({}, s)
    /\ \A i \in DOMAIN s : s[i] \in Media => accepted /\ \E j \in 1 .. i - 1 : s[j] = Publish

\* The loop with one more request to send.
LEMMA SaysMore ==
    ASSUME NEW first, NEW o \in Seq(Wires), NEW L, Says(first, o, L), NEW m \in Requests
    PROVE  Says(first, Append(o, Packet(m)), Append(L, m))
<1> DEFINE k == Packet(m)
           K == Append(L, m)
<1>1. L \in Seq(Messages) /\ m \in Messages /\ L \in Seq(Requests)
  <2>1. L \in Seq(Requests) /\ \A x \in Requests : x \in Messages
    BY Apart DEF Says
  <2>2. QED
    BY <2>1, SeqWider
<1>2. K \in Seq(Requests)
  BY <1>1, RangeMore
<1>3. Packets(K) = Append(Packets(L), k)
  BY <1>1, PacketsAre
<1>4. k \in Wires
  BY <1>1, PacketWire
<1> HIDE DEF k, K
<1>5. CASE first
  <2>1. o # <<>> /\ Head(o) = C2 /\ Tail(o) = Packets(L)
    BY <1>5 DEF Says
  <2>2. /\ Append(o, k) # <<>> /\ Head(Append(o, k)) = Head(o)
        /\ Tail(Append(o, k)) = Append(Tail(o), k)
    <3>1. Len(Append(o, k)) = Len(o) + 1 /\ Append(o, k) \in Seq(Wires) /\ Len(o) > 0
          /\ Append(o, k)[1] = o[1]
      BY <1>4, <2>1, AppendProperties, EmptySeq
    <3>2. Tail(Append(o, k)) = Append(Tail(o), k)
      BY <1>4, <2>1
    <3>3. QED
      BY <2>1, <3>1, <3>2
  <2>3. QED
    BY <1>2, <1>3, <1>5, <2>1, <2>2, Zenon DEF Says, k, K
<1>6. CASE ~ first
  BY <1>2, <1>3, <1>6, Zenon DEF Says, k, K
<1>7. QED
  BY <1>5, <1>6

\* What the client sends is a request.
LEMMA RequestIs ==
    ASSUME NEW c, Connected(c), NEW first, NEW L, Says(first, c.out, L),
           NEW s \in ClientStates, NEW m \in {CreateStream, Publish}
    PROVE  LET y == Sends([c EXCEPT !.state = s], m) IN
           /\ Connected(y) /\ y.hs = c.hs /\ y.taken = c.taken /\ y.delivered = c.delivered
           /\ y.reader = c.reader /\ y.publishing = c.publishing /\ y.ok = c.ok
           /\ y.size = c.size /\ \E K : Says(first, y.out, K)
<1> DEFINE d == Advanced(c, s)
           y == Sent(d, m)
           K == Append(L, m)
<1>1. m \in Requests /\ m \in Messages /\ m.lenght = 1
  BY Apart DEF Requests
<1>2. /\ Connected(d) /\ d.hs = c.hs /\ d.taken = c.taken /\ d.delivered = c.delivered
      /\ d.reader = c.reader /\ d.publishing = c.publishing /\ d.ok = c.ok
      /\ d.size = c.size /\ d.out = c.out
  BY AdvancedIs
<1>3. Sends([c EXCEPT !.state = s], m) = Sends(d, m)
  BY DEF Advanced
<1> HIDE DEF d
<1>4. /\ Connected(y) /\ y.hs = d.hs /\ y.taken = d.taken /\ y.delivered = d.delivered
      /\ y.reader = d.reader /\ y.publishing = d.publishing /\ y.ok = d.ok
      /\ y.size = d.size /\ y.out = Append(d.out, Packet(m)) /\ Sends(d, m) = y
  BY <1>1, <1>2, SentIs
<1>5. c.out \in Seq(Wires)
  BY DEF Connected
<1>6. Says(first, Append(c.out, Packet(m)), K)
  BY <1>1, <1>5, SaysMore
<1> HIDE DEF y, K
<1>7. \E N : Says(first, y.out, N)
  BY <1>2, <1>4, <1>6
<1>8. QED
  BY <1>2, <1>3, <1>4, <1>7

\* What the client's handlers do, whatever the message.
LEMMA ClientHandlesIs ==
    ASSUME NEW c, Connected(c), NEW first, NEW L, Says(first, c.out, L), NEW m \in FromServer
    PROVE  LET y == ClientHandles(c, m) IN
           /\ Connected(y) /\ y.hs = c.hs /\ y.size = c.size
           /\ y.reader = IF m = SetChunkSize THEN [c.reader EXCEPT !.size = 2] ELSE c.reader
           /\ y.publishing => c.publishing \/ m = OnStatus("Start")
           /\ c.publishing => y.publishing \/ m = OnStatus("BadName")
           /\ c.ok => y.ok \/ m = OnStatus("BadName")
           /\ \E K : Says(first, y.out, K)
<1> DEFINE y == ClientHandles(c, m)
<1>0. c.publishing \in BOOLEAN /\ c.ok \in BOOLEAN /\ m # Garbled
  BY Apart DEF Connected
<1>1. CASE m = SetChunkSize
  <2> DEFINE r == [c.reader EXCEPT !.size = 2]
  <2>1. y = With(c, r)
    BY <1>1, Apart DEF ClientHandles, SetInChunkSize, With, ChunkSize
  <2>2. m # OnStatus("Start") /\ m # OnStatus("BadName")
    BY <1>1, Apart
  <2> HIDE DEF r, y
  <2>3. /\ Connected(y) /\ y.hs = c.hs /\ y.size = c.size /\ y.reader = r
        /\ y.publishing = c.publishing /\ y.ok = c.ok /\ y.out = c.out
    BY <2>1, WithIs
  <2>4. QED
    BY <1>0, <1>1, <2>3 DEF y, r
<1>2. CASE m \in {ConnectResult, CreateStreamResult}
  <2>1. y = HandleResult(c) /\ m # SetChunkSize
    BY <1>2, Apart DEF ClientHandles
  <2>2. /\ "START_CREATE_STREAM" \in ClientStates /\ "START_PUBLISH" \in ClientStates
    BY DEF ClientStates
  <2>3. CASE c.state = "START_CONNECT"
    <3>1. y = Sends([c EXCEPT !.state = "START_CREATE_STREAM"], CreateStream)
      BY <2>1, <2>3 DEF HandleResult
    <3> HIDE DEF y
    <3>2. /\ Connected(y) /\ y.hs = c.hs /\ y.size = c.size /\ y.reader = c.reader
          /\ y.publishing = c.publishing /\ y.ok = c.ok /\ \E K : Says(first, y.out, K)
      BY <2>2, <3>1, RequestIs
    <3>3. QED
      BY <1>0, <2>1, <3>2 DEF y
  <2>4. CASE c.state = "START_CREATE_STREAM"
    <3>1. y = Sends([c EXCEPT !.state = "START_PUBLISH"], Publish)
      BY <2>1, <2>4 DEF HandleResult
    <3> HIDE DEF y
    <3>2. /\ Connected(y) /\ y.hs = c.hs /\ y.size = c.size /\ y.reader = c.reader
          /\ y.publishing = c.publishing /\ y.ok = c.ok /\ \E K : Says(first, y.out, K)
      BY <2>2, <3>1, RequestIs
    <3>3. QED
      BY <1>0, <2>1, <3>2 DEF y
  <2>5. CASE c.state \notin {"START_CONNECT", "START_CREATE_STREAM"}
    <3>1. y = c
      BY <2>1, <2>5 DEF HandleResult
    <3> HIDE DEF y
    <3>2. QED
      BY <1>0, <2>1, <3>1 DEF y
  <2>6. QED
    BY <2>3, <2>4, <2>5
<1>3. CASE m \in {OnStatus("Start"), OnStatus("BadName")}
  <2>1. y = HandleOnStatus(c, m.body) /\ m # SetChunkSize
    BY <1>3, Apart DEF ClientHandles
  <2>2. CASE c.state # "START_PUBLISH"
    <3>1. y = c
      BY <2>1, <2>2 DEF HandleOnStatus
    <3> HIDE DEF y
    <3>2. QED
      BY <1>0, <2>1, <3>1 DEF y
  <2>3. CASE c.state = "START_PUBLISH"
    <3> DEFINE b == m.body = "Start"
               d == Accepted(c, b)
               e == Going(d, b)
    <3>1. y = [c EXCEPT !.publishing = b, !.ok = b]
      BY <2>1, <2>3 DEF HandleOnStatus
    <3>1a. b \in BOOLEAN
      OBVIOUS
    <3>1b. (b => m = OnStatus("Start")) /\ (~ b => m = OnStatus("BadName"))
      BY <1>3, Apart
    <3> HIDE DEF b, y
    <3>2. y = e
      <4>1. c = [hs |-> c.hs, state |-> c.state, publishing |-> c.publishing,
                 reader |-> c.reader, size |-> c.size, out |-> c.out, ok |-> c.ok,
                 taken |-> c.taken, delivered |-> c.delivered]
        BY DEF Connected
      <4>2. e = [[c EXCEPT !.publishing = b] EXCEPT !.ok = b]
        BY Zenon DEF Accepted, Going
      <4> HIDE DEF e, d
      <4>3. QED
        BY <3>1, <4>1, <4>2
    <3>3. /\ Connected(d) /\ d.hs = c.hs /\ d.size = c.size /\ d.reader = c.reader
          /\ d.publishing = b /\ d.ok = c.ok /\ d.out = c.out
      BY <3>1a, AcceptedIs
    <3> HIDE DEF d
    <3>4. /\ Connected(e) /\ e.hs = d.hs /\ e.size = d.size /\ e.reader = d.reader
          /\ e.publishing = d.publishing /\ e.ok = b /\ e.out = d.out
      BY <3>1a, <3>3, GoingIs
    <3> HIDE DEF e
    <3>5. QED
      BY <1>0, <2>1, <3>1a, <3>1b, <3>2, <3>3, <3>4 DEF y
  <2>4. QED
    BY <2>2, <2>3
<1>4. CASE m \notin {SetChunkSize, ConnectResult, CreateStreamResult, OnStatus("Start"),
                     OnStatus("BadName")}
  <2>1. y = c
    BY <1>0, <1>4 DEF ClientHandles
  <2> HIDE DEF y
  <2>2. QED
    BY <1>0, <1>4, <2>1 DEF y
<1>5. QED
  BY <1>1, <1>2, <1>3, <1>4

\* The order is kept by one message more that is allowed.
LEMMA FirstMore ==
    ASSUME NEW M, NEW s \in Seq(M), NEW m \in M, NEW accepted, NEW more, NEW lost,
           First(s, accepted, lost), accepted => more,
           m \in Media => more /\ Publish \in Range(s),
           ~ lost => Allowed(Range(s), m)
    PROVE  First(Append(s, m), more, lost)
<1> DEFINE t == Append(s, m)
<1>1. ~ lost => Leads({}, t)
  <2>1. {} \union Range(s) = Range(s)
    OBVIOUS
  <2>2. ASSUME ~ lost PROVE Leads({}, t)
    <3>1. Leads({}, s) /\ Allowed({} \union Range(s), m)
      BY <2>1, <2>2 DEF First
    <3>2. QED
      BY <3>1, LeadsMore
  <2>3. QED
    BY <2>2
<1>2. /\ Len(t) = Len(s) + 1 /\ t \in Seq(M) /\ t[Len(s) + 1] = m
      /\ \A i \in 1 .. Len(s) : t[i] = s[i]
  BY RangeMore
<1>3. Len(s) \in Nat /\ DOMAIN s = 1 .. Len(s) /\ DOMAIN t = 1 .. Len(t)
  BY <1>2
<1> HIDE DEF t
<1>4. ASSUME NEW i \in DOMAIN t, t[i] \in Media
      PROVE  more /\ \E j \in 1 .. i - 1 : t[j] = Publish
  <2>1. CASE i = Len(s) + 1
    <3>1. m \in Media
      BY <1>2, <1>4, <2>1
    <3>2. PICK j \in DOMAIN s : s[j] = Publish
      BY <3>1 DEF Range
    <3>3. j \in 1 .. i - 1 /\ t[j] = Publish
      BY <1>2, <1>3, <2>1, <3>2
    <3>4. QED
      BY <3>1, <3>3
  <2>2. CASE i # Len(s) + 1
    <3>1. i \in 1 .. Len(s)
      BY <1>2, <1>3, <2>2
    <3>2. i \in DOMAIN s /\ s[i] \in Media
      BY <1>2, <1>3, <1>4, <3>1
    <3>3. accepted /\ \E j \in 1 .. i - 1 : s[j] = Publish
      BY <3>2 DEF First
    <3>4. PICK j \in 1 .. i - 1 : s[j] = Publish
      BY <3>3
    <3>5. t[j] = Publish
      BY <1>2, <1>3, <3>1, <3>4
    <3>6. QED
      BY <3>3, <3>4, <3>5
  <2>3. QED
    BY <2>1, <2>2
<1>5. QED
  BY <1>1, <1>4 DEF First, t

\* The first message on the way is handled.
LEMMA SaneLess ==
    ASSUME NEW seen, NEW accepted, NEW more, NEW P \in Seq(FromClient), P # <<>>, NEW V,
           NEW closed, NEW lost, NEW key,
           Sane(seen, accepted, P, V, closed, lost, key), accepted => more
    PROVE  /\ Head(P) \in FromClient /\ Tail(P) \in Seq(FromClient)
           /\ Sane(seen \union {Head(P)}, more, Tail(P), V, closed, lost, key)
           /\ ~ accepted => Head(P) \notin Media
           /\ ~ lost => Allowed(seen, Head(P))
<1> DEFINE h == Head(P)
           T == Tail(P)
<1>1. Range(P) = {h} \union Range(T) /\ h \in FromClient /\ T \in Seq(FromClient)
  BY RangeLess
<1>2. ASSUME ~ lost PROVE Allowed(seen, h) /\ Leads(seen \union {h}, T)
  <2>1. Leads(seen, P)
    BY <1>2 DEF Sane
  <2>2. QED
    BY <2>1, LeadsLess
<1> HIDE DEF h, T
<1>3. seen \union Range(P) = (seen \union {h}) \union Range(T)
  BY <1>1
<1>4. ~ accepted => Range(P) \intersect Media = {}
  BY DEF Sane
<1>5. /\ ~ accepted => h \notin Media
      /\ ~ more => Range(T) \intersect Media = {}
  BY <1>1, <1>4
<1>6. ~ lost /\ ~ closed =>
         /\ Leads((seen \union {h}) \union Range(T), V)
         /\ key => Picture(TRUE) \in ((seen \union {h}) \union Range(T)) \union Range(V)
  BY <1>3, Zenon DEF Sane
<1>7. Sane(seen \union {h}, more, T, V, closed, lost, key)
  BY <1>2, <1>5, <1>6, Zenon DEF Sane
<1>8. QED
  BY <1>1, <1>2, <1>5, <1>7 DEF h, T

\* The messages P are on their way to a server's connection, V is in the video thread's hands.
Follows(x, way, P, V, closed, lost, key) ==
    /\ P \in Seq(FromClient) /\ x.reader.size \in {1, 2} /\ Carries(x.reader, way, P)
    /\ Sane(Range(x.delivered), x.publishing, P, V, closed, lost, key)

\* What holds of a server's connection x in the loop of HandleChunk that began with base.
Serving(x, base, way, V, closed, lost, key) ==
    /\ Connected(x) /\ x.hs = base.hs /\ x.taken = base.taken
    /\ base.publishing => x.publishing
    /\ x.publishing => ~ x.taken /\ Publish \in Range(x.delivered)
    /\ First(x.delivered, x.publishing, lost)
    /\ \E Q : Hears(x.out, x.taken, x.publishing, Q)
    /\ x.ok => Doomed(x.reader, way) \/ \E P : Follows(x, way, P, V, closed, lost, key)

\* A reader told the new chunk size.
LEMMA IdleSized ==
    ASSUME NEW e, NEW size
    PROVE  /\ [Idle(e, size) EXCEPT !.size = 2] = Idle(e, 2)
           /\ Idle(e, size).buf = e /\ Idle(e, size).size = size
BY DEF Idle

\* A message is made and handled.
LEMMA ServerMakes ==
    ASSUME NEW x, NEW base, NEW way, NEW V, NEW closed, NEW lost, NEW key, NEW P,
           Serving(x, base, way, V, closed, lost, key), x.ok, s2c \in Streams,
           Follows(x, way, P, V, closed, lost, key), P # <<>>,
           NEW e, Joined(e, way, Chunks(Tail(P))), NEW size \in {1, 2},
           NEW y, y = ServerHandles(With(x, Idle(e, size)), Head(P))
    PROVE  Serving(y, base, way, V, closed, lost, key)
<1> DEFINE m == Head(P)
           T == Tail(P)
           r == Idle(e, size)
           d == With(x, r)
<1>0. /\ x.taken \in BOOLEAN /\ x.publishing \in BOOLEAN /\ Connected(x)
      /\ x.delivered \in Seq(Messages \union {Garbled})
  BY DEF Serving, Connected
<1>1. /\ P \in Seq(FromClient)
      /\ Sane(Range(x.delivered), x.publishing, P, V, closed, lost, key)
  BY DEF Follows
<1>2. m \in FromClient /\ m \in Messages /\ m \in Messages \union {Garbled}
  BY <1>1, SaneLess, Apart
<1> HIDE DEF m, T
<1>3. /\ Connected(d) /\ d.reader = r /\ d.hs = x.hs /\ d.publishing = x.publishing
      /\ d.out = x.out /\ d.ok = x.ok /\ d.taken = x.taken /\ d.delivered = x.delivered
  BY ZenonT(60), <1>0, WithIs
<1> HIDE DEF d, r
<1>4. PICK Q : Hears(d.out, d.taken, d.publishing, Q)
  BY <1>3 DEF Serving
<1>5. /\ Connected(y) /\ y.hs = d.hs /\ y.taken = d.taken
      /\ y.delivered = Append(d.delivered, m)
      /\ y.reader = IF m = SetChunkSize THEN [d.reader EXCEPT !.size = 2] ELSE d.reader
      /\ y.publishing = (d.publishing \/ (m = Publish /\ ~ d.taken))
      /\ \E R : Hears(y.out, y.taken, y.publishing, R)
  <2>1. y = ServerHandles(d, m)
    BY DEF d, r, m
  <2>2. d.ok
    BY <1>3
  <2> DEFINE z == ServerHandles(d, m)
  <2>3. /\ Connected(z) /\ z.hs = d.hs /\ z.taken = d.taken
        /\ z.delivered = Append(d.delivered, m)
        /\ z.reader = IF m = SetChunkSize THEN [d.reader EXCEPT !.size = 2] ELSE d.reader
        /\ z.publishing = (d.publishing \/ (m = Publish /\ ~ d.taken))
        /\ \E R : Hears(z.out, z.taken, z.publishing, R)
    BY SMTT(30), <1>2, <1>3, <1>4, <2>2, ServerHandlesIs
  <2> HIDE DEF z
  <2>4. y = z
    BY <2>1 DEF z
  <2>5. QED
    BY <2>3, <2>4
<1>6. y.reader = Idle(y.reader.buf, y.reader.size) /\ y.reader.buf = e /\ y.reader.size \in {1, 2}
  <2>1. d.reader = r
    BY <1>3
  <2>2. CASE m = SetChunkSize
    <3>1. y.reader = Idle(e, 2)
      BY <1>5, <2>1, <2>2, IdleSized DEF r
    <3>2. QED
      BY <3>1, IdleSized
  <2>3. CASE m # SetChunkSize
    <3>1. y.reader = Idle(e, size)
      BY <1>5, <2>1, <2>3 DEF r
    <3>2. QED
      BY <3>1, IdleSized
  <2>4. QED
    BY <2>2, <2>3
<1>7. Carries(y.reader, way, T)
  BY <1>6, Zenon DEF Carries, T
<1>8. Range(y.delivered) = Range(x.delivered) \union {m}
  <2>1. Range(Append(x.delivered, m)) = Range(x.delivered) \union {m}
    BY <1>0, <1>2, RangeMore
  <2>2. y.delivered = Append(x.delivered, m)
    BY <1>3, <1>5
  <2>3. QED
    BY <2>1, <2>2
<1>9. /\ T \in Seq(FromClient)
      /\ Sane(Range(x.delivered) \union {m}, y.publishing, T, V, closed, lost, key)
      /\ ~ x.publishing => m \notin Media
      /\ ~ lost => Allowed(Range(x.delivered), m)
  <2>1. x.publishing => y.publishing
    BY <1>3, <1>5
  <2>2. QED
    BY <1>1, <2>1, SaneLess DEF m, T
<1>10. Follows(y, way, T, V, closed, lost, key)
  BY <1>6, <1>7, <1>8, <1>9, Zenon DEF Follows
<1>11. First(y.delivered, y.publishing, lost)
  <2>1. m \in Media => x.publishing /\ Publish \in Range(x.delivered)
    BY <1>9 DEF Serving
  <2>2. First(x.delivered, x.publishing, lost)
    BY DEF Serving
  <2>3. (x.publishing => y.publishing) /\ y.delivered = Append(x.delivered, m)
    BY <1>3, <1>5
  <2>4. m \in Media => y.publishing /\ Publish \in Range(x.delivered)
    BY <2>1, <2>3
  <2>5. First(Append(x.delivered, m), y.publishing, lost)
    BY <1>0, <1>2, <1>9, <2>2, <2>3, <2>4, FirstMore
  <2>6. QED
    BY <2>3, <2>5
<1>12. y.publishing => ~ y.taken /\ Publish \in Range(y.delivered)
  BY <1>0, <1>3, <1>5, <1>8 DEF Serving
<1>13. /\ y.hs = base.hs /\ y.taken = base.taken
       /\ base.publishing => y.publishing
  BY <1>3, <1>5 DEF Serving
<1>14. \E R : Follows(y, way, R, V, closed, lost, key)
  BY <1>10, Zenon
<1>15. \E R : Hears(y.out, y.taken, y.publishing, R)
  BY <1>5
<1>16. Connected(y)
  BY <1>5
<1>17. QED
  BY <1>11, <1>12, <1>13, <1>14, <1>15, <1>16, Zenon DEF Serving

\* One turn of the loop.
LEMMA ServerTurns ==
    ASSUME NEW x, NEW base, NEW way, NEW V, NEW closed, NEW lost, NEW key,
           Serving(x, base, way, V, closed, lost, key), s2c \in Streams
    PROVE  Serving(ServerTurn(x), base, way, V, closed, lost, key)
<1> DEFINE q == Parse(x.reader)
           y == ServerTurn(x)
<1>1. CASE ~ x.ok
  <2>1. y = x
    BY <1>1 DEF ServerTurn
  <2> HIDE DEF y
  <2>2. QED
    BY <2>1, Zenon DEF y
<1>2. ASSUME x.ok, q.out = None, q.size = x.reader.size,
             Doomed(q, way) \/ (Doomed(x.reader, way) /\ q = x.reader)
               \/ \E P : Follows(x, way, P, V, closed, lost, key) /\ Carries(q, way, P)
      PROVE  Serving(y, base, way, V, closed, lost, key)
  <2>1. Connected(x)
    BY DEF Serving
  <2>2. y = With(x, q)
    BY <1>2, <2>1, TurnIs
  <2> HIDE DEF y, q
  <2>3. /\ Connected(y) /\ y.reader = q /\ y.hs = x.hs /\ y.publishing = x.publishing
        /\ y.out = x.out /\ y.ok = x.ok /\ y.taken = x.taken /\ y.delivered = x.delivered
    BY <2>1, <2>2, WithIs
  <2>4. Doomed(y.reader, way) \/ \E P : Follows(y, way, P, V, closed, lost, key)
    <3>1. ASSUME NEW P, Follows(x, way, P, V, closed, lost, key), Carries(q, way, P)
          PROVE  Follows(y, way, P, V, closed, lost, key)
      BY <1>2, <2>3, <3>1, Zenon DEF Follows
    <3>2. QED
      BY <1>2, <2>3, <3>1
  <2>5. /\ y.hs = base.hs /\ y.taken = base.taken
        /\ base.publishing => y.publishing
        /\ y.publishing => ~ y.taken /\ Publish \in Range(y.delivered)
        /\ First(y.delivered, y.publishing, lost)
        /\ \E Q : Hears(y.out, y.taken, y.publishing, Q)
    BY <2>3 DEF Serving
  <2>6. QED
    BY <2>3, <2>4, <2>5, Zenon DEF Serving
<1>3. ASSUME x.ok, Doomed(x.reader, way) PROVE Serving(y, base, way, V, closed, lost, key)
  <2>1. \A e, size, m, got : InChunk(e, size, m, got, "header").out = None
    BY DEF InChunk
  <2>2. x.reader.out = None
    <3>1. PICK m \in Messages : x.reader = InChunk(x.reader.buf, 1, m, <<Piece(m, 1)>>, "header")
      BY <1>3 DEF Doomed
    <3>2. QED
      BY <2>1, <3>1
  <2>3. CASE q = x.reader
    BY <1>2, <1>3, <2>2, <2>3
  <2>4. CASE q # x.reader
    <3>1. PICK e, m, got : q = [InChunk(e, 1, m, got, "header") EXCEPT !.out = Garbled]
      BY <1>3, <2>4, ParseDoomed
    <3> DEFINE r == InChunk(e, 1, m, got, "header")
               d == With(x, r)
    <3>2. Reading(r) /\ Garbled # None /\ Garbled \in Messages \union {Garbled}
      BY ReadingThese, MessageFacts, NoneAssumption
    <3>3. Connected(x)
      BY DEF Serving
    <3>4. y = ServerHandles(d, Garbled)
      <4> HIDE DEF r
      <4>1. Parse(x.reader) = [r EXCEPT !.out = Garbled]
        BY <3>1 DEF r
      <4>2. QED
        BY <1>3, <3>2, <3>3, <4>1, TurnIs
    <3> HIDE DEF r
    <3>5. /\ Connected(d) /\ d.reader = r /\ d.hs = x.hs /\ d.publishing = x.publishing
          /\ d.out = x.out /\ d.ok = x.ok /\ d.taken = x.taken /\ d.delivered = x.delivered
      BY <3>3, WithIs
    <3> HIDE DEF d
    <3>6. PICK Q : Hears(d.out, d.taken, d.publishing, Q)
      BY <3>5 DEF Serving
    <3>7. /\ Garbled \notin FromClient /\ Garbled \notin Media /\ Garbled # Publish
          /\ Garbled # Picture(TRUE) /\ Garbled # Picture(FALSE)
      BY Apart DEF FromClient, Requests, Media
    <3> DEFINE g == Garbled
               z == ServerHandles(d, g)
    <3>8. d.ok
      BY <1>3, <3>5
    <3>8a. g = Garbled
      OBVIOUS
    <3>8b. g \in Messages \union {Garbled}
      BY <3>2
    <3> HIDE DEF g
    <3>9. /\ Connected(z) /\ z.hs = d.hs /\ z.taken = d.taken
          /\ z.delivered = Append(d.delivered, g)
          /\ z.reader = IF g = SetChunkSize THEN [d.reader EXCEPT !.size = 2] ELSE d.reader
          /\ z.publishing = (d.publishing \/ (g = Publish /\ ~ d.taken))
          /\ z.ok => g \in FromClient
          /\ \E R : Hears(z.out, z.taken, z.publishing, R)
      BY <3>5, <3>6, <3>8, <3>8b, ServerHandlesIs, Zenon
    <3> HIDE DEF z, y
    <3>10. y = z
      BY <3>4, <3>8a DEF z
    <3>11. d.publishing \in BOOLEAN /\ d.delivered \in Seq(Messages \union {Garbled})
      BY <3>5 DEF Connected
    <3>12. /\ Connected(y) /\ y.hs = x.hs /\ y.taken = x.taken /\ y.publishing = x.publishing
           /\ y.delivered = Append(x.delivered, Garbled) /\ ~ y.ok
           /\ \E R : Hears(y.out, y.taken, y.publishing, R)
      BY <3>5, <3>7, <3>8a, <3>9, <3>10, <3>11
    <3>13. First(y.delivered, y.publishing, lost)
      <4>1. x.delivered \in Seq(Messages \union {Garbled})
        BY <3>5, <3>11
      <4>2. First(x.delivered, x.publishing, lost)
        BY DEF Serving
      <4>3. Allowed(Range(x.delivered), Garbled)
        BY <3>7 DEF Allowed
      <4>4. First(Append(x.delivered, Garbled), x.publishing, lost)
        BY <3>2, <3>7, <4>1, <4>2, <4>3, FirstMore
      <4>5. QED
        BY <3>12, <4>4
    <3>14. Range(y.delivered) = Range(x.delivered) \union {Garbled}
      <4>1. Range(Append(x.delivered, Garbled)) = Range(x.delivered) \union {Garbled}
        BY <3>2, <3>5, <3>11, RangeMore
      <4>2. QED
        BY <3>12, <4>1
    <3>15. /\ y.hs = base.hs /\ y.taken = base.taken
           /\ base.publishing => y.publishing
           /\ y.publishing => ~ y.taken /\ Publish \in Range(y.delivered)
      BY <3>12, <3>14 DEF Serving
    <3>16. QED
      BY <3>12, <3>13, <3>15, Zenon DEF Serving
  <2>5. QED
    BY <2>3, <2>4
<1>4. ASSUME x.ok, NEW P, Follows(x, way, P, V, closed, lost, key)
      PROVE  Serving(y, base, way, V, closed, lost, key)
  <2>1. /\ P \in Seq(FromClient) /\ P \in Seq(Messages) /\ x.reader.size \in {1, 2}
        /\ Carries(x.reader, way, P)
    <3>1. P \in Seq(FromClient) /\ \A m \in FromClient : m \in Messages
      BY <1>4, Apart DEF Follows
    <3>2. QED
      BY <1>4, <3>1, SeqWider DEF Follows
  <2> DEFINE size == x.reader.size
  <2>2. Outcome(q, way, P, size)
    BY <2>1, ParseCarries
  <2>3. size \in {1, 2}
    BY <2>1
  <2>4. CASE q.size = size /\ q.out = None /\ Carries(q, way, P)
    BY <1>2, <1>4, <2>4
  <2>5. CASE P # <<>> /\ \E e : Joined(e, way, Chunks(Tail(P))) /\ q = Made(e, size, Head(P))
    <3>1. PICK e : Joined(e, way, Chunks(Tail(P))) /\ q = Made(e, size, Head(P))
      BY <2>5
    <3> DEFINE r == Idle(e, size)
               m == Head(P)
    <3>2. Connected(x)
      BY DEF Serving
    <3>3. m \in Messages /\ m # None
      <4>1. m \in Messages
        BY <2>1, <2>5, RangeLess
      <4>2. QED
        BY <4>1, MessageFacts
    <3>4. Reading(r)
      BY ReadingThese
    <3>5. Parse(x.reader) = [r EXCEPT !.out = m]
      BY <3>1, Zenon DEF Made
    <3> HIDE DEF r, m, size
    <3>6. y = ServerHandles(With(x, r), m)
      BY <1>4, <3>2, <3>3, <3>4, <3>5, TurnIs
    <3> HIDE DEF y
    <3>7. QED
      BY <1>4, <2>3, <2>5, <3>1, <3>6, ServerMakes DEF r, m
  <2>6. CASE size = 1 /\ Doomed(q, way)
    <3>1. PICK m \in Messages : q = InChunk(q.buf, 1, m, <<Piece(m, 1)>>, "header")
      BY <2>6 DEF Doomed
    <3>2. \A e, got : InChunk(e, 1, m, got, "header").out = None /\ InChunk(e, 1, m, got, "header").size = 1
      BY DEF InChunk
    <3>3. q.out = None /\ q.size = x.reader.size
      BY <2>6, <3>1, <3>2
    <3>4. QED
      BY <1>2, <1>4, <2>6, <3>3
  <2>7. QED
    BY <2>2, <2>4, <2>5, <2>6 DEF Outcome
<1>5. QED
  BY <1>1, <1>3, <1>4 DEF Serving

\* The handshake's packets.
LEMMA GreetingsAre ==
    /\ C0C1 \in Wires /\ S0S1S2 \in Wires /\ C2 \in Wires
    /\ Len(C0C1) = 2 /\ Len(S0S1S2) = 2 /\ Len(C2) = 1
<1>1. \A i \in 1 .. 2 : /\ [unit |-> "C0C1", no |-> i] \in Units
                        /\ [unit |-> "S0S1S2", no |-> i] \in Units
                        /\ [unit |-> "C2", no |-> i] \in Units
  BY DEF Units
<1>2. /\ [i \in 1 .. 2 |-> [unit |-> "C0C1", no |-> i]] \in Seq(Units)
      /\ [i \in 1 .. 2 |-> [unit |-> "S0S1S2", no |-> i]] \in Seq(Units)
  BY <1>1, IsASeq
<1>3. [i \in 1 .. 1 |-> [unit |-> "C2", no |-> i]] \in Seq(Units)
  BY <1>1, IsASeq
<1>4. C0C1 \in Streams /\ S0S1S2 \in Streams /\ C2 \in Streams
  BY <1>2, <1>3 DEF Streams, C0C1, S0S1S2, C2, Greeting
<1>5. Len(C0C1) = 2 /\ Len(S0S1S2) = 2
  BY DEF C0C1, S0S1S2, Greeting
<1>6. Len(C2) = 1
  BY DEF C2, Greeting
<1>7. \A w : w \in Streams /\ Len(w) # 0 => w \in Wires
  BY StreamNone DEF Wires
<1>8. QED
  BY <1>4, <1>5, <1>6, <1>7

\* The handshake of either end.
LEMMA ShakesIs ==
    ASSUME NEW c, Connected(c)
    PROVE  /\ c.hs = "C0C1" =>
                Shakes(c) = Saying(Shaken(With(c, Used(c.reader, 2)), "C2"), <<S0S1S2>>)
           /\ c.hs = "C2" => Shakes(c) = Shaken(With(c, Used(c.reader, 1)), "COMPLETE")
           /\ c.hs = "S0S1S2" =>
                Shakes(c) = Saying(Shaken(With(c, Used(c.reader, 2)), "COMPLETE"), <<C2>>)
           /\ c.hs = "C0C1" => (Arrived(c) <=> Len(c.reader.buf) >= 2)
           /\ c.hs = "C2" => (Arrived(c) <=> Len(c.reader.buf) >= 1)
           /\ c.hs = "S0S1S2" => (Arrived(c) <=> Len(c.reader.buf) >= 2)
<1>1. /\ Awaited["C0C1"] = 2 /\ Awaited["C2"] = 1 /\ Awaited["S0S1S2"] = 2
  BY DEF Awaited
<1>2. ASSUME NEW r, NEW h, NEW o
      PROVE  [[c EXCEPT !.reader = r] EXCEPT !.hs = h, !.out = o]
               = [[[c EXCEPT !.reader = r] EXCEPT !.hs = h] EXCEPT !.out = o]
  <2>1. c = [hs |-> c.hs, state |-> c.state, publishing |-> c.publishing,
             reader |-> c.reader, size |-> c.size, out |-> c.out, ok |-> c.ok,
             taken |-> c.taken, delivered |-> c.delivered]
    BY DEF Connected
  <2>2. QED
    BY <2>1
<1>3. ASSUME c.hs = "C0C1"
      PROVE  /\ Shakes(c) = Saying(Shaken(With(c, Used(c.reader, 2)), "C2"), <<S0S1S2>>)
             /\ Arrived(c) <=> Len(c.reader.buf) >= 2
  <2>1. Shakes(c) = [[c EXCEPT !.reader = Used(c.reader, 2)] EXCEPT !.hs = "C2", !.out = <<S0S1S2>>]
    BY <1>1, <1>3 DEF Shakes
  <2>2. Arrived(c) <=> Len(c.reader.buf) >= 2
    BY <1>1, <1>3 DEF Arrived
  <2>3. QED
    BY <1>2, <2>1, <2>2, Zenon DEF Saying, Shaken, With
<1>4. ASSUME c.hs = "C2"
      PROVE  /\ Shakes(c) = Shaken(With(c, Used(c.reader, 1)), "COMPLETE")
             /\ Arrived(c) <=> Len(c.reader.buf) >= 1
  <2>1. Shakes(c) = [[c EXCEPT !.reader = Used(c.reader, 1)] EXCEPT !.hs = "COMPLETE"]
    BY <1>1, <1>4 DEF Shakes
  <2>2. Arrived(c) <=> Len(c.reader.buf) >= 1
    BY <1>1, <1>4 DEF Arrived
  <2>3. QED
    BY <2>1, <2>2, Zenon DEF Shaken, With
<1>5. ASSUME c.hs = "S0S1S2"
      PROVE  /\ Shakes(c) = Saying(Shaken(With(c, Used(c.reader, 2)), "COMPLETE"), <<C2>>)
             /\ Arrived(c) <=> Len(c.reader.buf) >= 2
  <2>1. Shakes(c) = [[c EXCEPT !.reader = Used(c.reader, 2)] EXCEPT !.hs = "COMPLETE", !.out = <<C2>>]
    BY <1>1, <1>5 DEF Shakes
  <2>2. Arrived(c) <=> Len(c.reader.buf) >= 2
    BY <1>1, <1>5 DEF Arrived
  <2>3. QED
    BY <1>2, <2>1, <2>2, Zenon DEF Saying, Shaken, With
<1>6. QED
  BY <1>3, <1>4, <1>5

\* A reader that has used n units of its buffer.
LEMMA UsedIdle ==
    ASSUME NEW buf, NEW size, NEW n
    PROVE  Used(Idle(buf, size), n) = Idle(SubSeq(buf, n + 1, Len(buf)), size)
<1> DEFINE e == SubSeq(buf, n + 1, Len(buf))
           r == Idle(buf, size)
<1>1. Used(r, n) = [r EXCEPT !.buf = e]
  <2>1. r.buf = buf
    BY IdleSized
  <2> HIDE DEF r
  <2>2. QED
    BY <2>1 DEF Used
<1> HIDE DEF e
<1>2. [r EXCEPT !.buf = e] = Idle(e, size)
  BY DEF Idle
<1>3. QED
  BY <1>1, <1>2 DEF e

\* OnRead at either end, by the state of the handshake.
LEMMA OnceIs ==
    ASSUME NEW c
    PROVE  /\ ServerOnRead(c) = IF c.hs = "COMPLETE" THEN ServerHandleChunk(c)
                                ELSE IF ~ Arrived(c) THEN c ELSE HandlesRest(Shakes(c))
           /\ ClientOnRead(c) = IF c.hs = "COMPLETE" THEN ClientHandleChunk(c)
                                ELSE IF ~ Arrived(c) THEN c
                                ELSE Asking(ClientHandleChunk(Shakes(c)))
<1>1. ASSUME NEW x PROVE Once(x, HandlesRest) = HandlesRest(x)
  <2> DEFINE S == {HandlesRest(v) : v \in {x}}
  <2>1. S = {HandlesRest(x)}
    OBVIOUS
  <2> HIDE DEF S
  <2>2. (CHOOSE y \in S : TRUE) = HandlesRest(x)
    BY <2>1
  <2>3. QED
    BY <2>2 DEF S, Once
<1>2. ASSUME NEW x PROVE Once(x, Asking) = Asking(x)
  <2> DEFINE S == {Asking(v) : v \in {x}}
  <2>1. S = {Asking(x)}
    OBVIOUS
  <2> HIDE DEF S
  <2>2. (CHOOSE y \in S : TRUE) = Asking(x)
    BY <2>1
  <2>3. QED
    BY <2>2 DEF S, Once
<1>3. QED
  BY <1>1, <1>2, Zenon DEF ServerOnRead, ClientOnRead

\* The loop of the server's HandleChunk.
LEMMA ServerChunkServes ==
    ASSUME NEW x, NEW base, NEW way, NEW V, NEW closed, NEW lost, NEW key,
           Serving(x, base, way, V, closed, lost, key), s2c \in Streams,
           x.reader.buf \in Streams
    PROVE  Serving(ServerHandleChunk(x), base, way, V, closed, lost, key)
<1> DEFINE n == Len(x.reader.buf)
<1>1. n \in Nat /\ DOMAIN x.reader.buf = 1 .. n
  BY DEF Streams
<1> HIDE DEF n
<1>2. PICK g : /\ g[0] = x /\ g[n] = ServerHandleChunk(x)
               /\ \A k \in 1 .. n : g[k] = ServerTurn(g[k - 1])
  BY <1>1, ServerChunkRuns
<1> DEFINE T == {k \in 0 .. n : Serving(g[k], base, way, V, closed, lost, key)}
<1>3. 0 \in T
  BY <1>1, <1>2
<1>4. ASSUME NEW k \in 1 .. n, k - 1 \in T PROVE k \in T
  <2>1. Serving(g[k - 1], base, way, V, closed, lost, key)
    BY <1>4
  <2>2. Serving(ServerTurn(g[k - 1]), base, way, V, closed, lost, key)
    BY <2>1, ServerTurns
  <2>3. Serving(g[k], base, way, V, closed, lost, key)
    BY <1>2, <2>2
  <2>4. QED
    BY <1>1, <2>3
<1> HIDE DEF T
<1>5. \A k \in 0 .. n : k \in T
  BY <1>1, <1>3, <1>4, Steps
<1>6. n \in T
  BY <1>1, <1>5
<1>7. QED
  BY <1>2, <1>6 DEF T

\* What always holds of a server's connection.
Faithful(sv, lost) ==
    /\ Connected(sv) /\ sv.hs \in {"C0C1", "C2", "COMPLETE"}
    /\ sv.publishing => ~ sv.taken /\ Publish \in Range(sv.delivered)
    /\ First(sv.delivered, sv.publishing, lost)

\* What a read makes of the connection sv.
Served(y, sv, rest, loop, closed, lost, key, V) ==
    /\ Faithful(y, lost) /\ y.taken = sv.taken
    /\ sv.publishing => y.publishing
    /\ y.hs = "C0C1" => sv.hs = "C0C1" /\ y.out = <<>>
    /\ y.hs # "C0C1" => \E Q : Hears(y.out, y.taken, y.publishing, Q)
    /\ y.ok => Flows(client.hs, y, loop, closed, lost, key, rest, V)

\* What arrives is appended to the server's buffer, ...
LEMMA FedServer ==
    ASSUME NEW sv, NEW got
    PROVE  [sv EXCEPT !.reader.buf = @ \o got] = With(sv, Fed(sv.reader, sv.reader.buf \o got))
BY DEF With, Fed

\* ... and to the client's.
LEMMA FedClient ==
    ASSUME NEW c, NEW a, Connected(c)
    PROVE  [c EXCEPT !.reader.buf = a] = With(c, Fed(c.reader, a))
BY DEF With, Fed

\* HandleChunk, when the handshake is complete.
LEMMA ServerChunkServed ==
    ASSUME NEW x, NEW sv, NEW rest, NEW loop, NEW closed, NEW lost, NEW key, NEW V, NEW L,
           Serving(x, x, rest, V, closed, lost, key), s2c \in Streams,
           x.reader.buf \in Streams, x.hs = "COMPLETE", client.hs = "COMPLETE",
           x.taken = sv.taken, x.publishing = sv.publishing, Says(FALSE, loop, L)
    PROVE  Served(ServerHandleChunk(x), sv, rest, loop, closed, lost, key, V)
<1> DEFINE y == ServerHandleChunk(x)
<1>1. Serving(y, x, rest, V, closed, lost, key)
  BY ServerChunkServes
<1> HIDE DEF y
<1>2. /\ Connected(y) /\ y.hs = "COMPLETE" /\ y.taken = sv.taken
      /\ sv.publishing => y.publishing
      /\ y.publishing => ~ y.taken /\ Publish \in Range(y.delivered)
      /\ First(y.delivered, y.publishing, lost)
      /\ \E Q : Hears(y.out, y.taken, y.publishing, Q)
  BY <1>1 DEF Serving
<1>3. L \in Seq(Requests)
  BY DEF Says
<1>4. ASSUME y.ok PROVE Flows(client.hs, y, loop, closed, lost, key, rest, V)
  <2>1. CASE Doomed(y.reader, rest)
    <3>1. Broken(y, loop, rest, L)
      BY <1>2, <2>1 DEF Broken
    <3>2. QED
      BY <1>3, <3>1 DEF Flows
  <2>2. ASSUME NEW P, Follows(y, rest, P, V, closed, lost, key)
        PROVE  Flows(client.hs, y, loop, closed, lost, key, rest, V)
    <3>1. /\ P \in Seq(FromClient) /\ y.reader.size \in {1, 2} /\ Carries(y.reader, rest, P)
          /\ Sane(Range(y.delivered), y.publishing, P, V, closed, lost, key)
      BY <2>2 DEF Follows
    <3>2. Talking(y, loop, rest, P, L)
      BY <1>2, <3>1 DEF Talking
    <3>3. Spoken(client.hs, y, loop, closed, rest, P, L)
      BY <3>2 DEF Spoken
    <3>4. QED
      BY <1>3, <3>1, <3>3 DEF Flows
  <2>3. QED
    BY <1>1, <1>4, <2>1, <2>2 DEF Serving
<1>5. Faithful(y, lost)
  BY <1>2 DEF Faithful
<1>6. QED
  BY <1>2, <1>4, <1>5 DEF Served, y

\* What was read is put to the reader.
LEMMA ServerFed ==
    ASSUME NEW sv, NEW got \in Streams, NEW rest \in Streams, NEW way, NEW lost,
           Faithful(sv, lost), sv.ok, sv.out = <<>>, Grown(got, rest, way)
    PROVE  LET b == sv.reader.buf \o got
               x == With(sv, Fed(sv.reader, b)) IN
           /\ Connected(x) /\ x.reader = Fed(sv.reader, b) /\ x.hs = sv.hs /\ x.ok
           /\ x.publishing = sv.publishing /\ x.out = <<>> /\ x.taken = sv.taken
           /\ x.delivered = sv.delivered /\ Faithful(x, lost)
           /\ \A P \in Seq(Messages) : Carries(sv.reader, way, P) =>
                Carries(x.reader, rest, P) /\ x.reader.size = sv.reader.size /\ x.reader.buf = b
           /\ Doomed(sv.reader, way) => Doomed(x.reader, rest) /\ x.reader.buf = b
           /\ \A s : Joined(sv.reader.buf, way, s) => Joined(b, rest, s)
<1> DEFINE b == sv.reader.buf \o got
           x == With(sv, Fed(sv.reader, b))
<1>1. Grown(sv.reader.buf, got, b)
  BY DEF Grown
<1> HIDE DEF b
<1>2. /\ Connected(x) /\ x.reader = Fed(sv.reader, b) /\ x.hs = sv.hs /\ x.ok = sv.ok
      /\ x.publishing = sv.publishing /\ x.out = sv.out /\ x.taken = sv.taken
      /\ x.delivered = sv.delivered
  BY WithIs DEF Faithful
<1> HIDE DEF x
<1>3. Faithful(x, lost)
  BY <1>2 DEF Faithful
<1>4. ASSUME NEW P \in Seq(Messages), Carries(sv.reader, way, P)
      PROVE  Carries(x.reader, rest, P) /\ x.reader.size = sv.reader.size /\ x.reader.buf = b
  <2>1. /\ Carries(Fed(sv.reader, b), rest, P) /\ Fed(sv.reader, b).size = sv.reader.size
        /\ Fed(sv.reader, b).buf = b
    BY <1>1, <1>4, CarriesMoves
  <2>2. QED
    BY <1>2, <2>1
<1>5. Doomed(sv.reader, way) => Doomed(x.reader, rest) /\ x.reader.buf = b
  BY <1>1, <1>2, DoomedMoves
<1>6. ASSUME NEW s, Joined(sv.reader.buf, way, s) PROVE Joined(b, rest, s)
  BY <1>1, <1>6, JoinedMoves
<1>7. QED
  BY <1>2, <1>3, <1>4, <1>5, <1>6 DEF x, b

\* A reader's buffer holds units.
LEMMA CarriesStreams ==
    ASSUME NEW r, NEW rest
    PROVE  /\ \A P : Carries(r, rest, P) => r.buf \in Streams
           /\ Doomed(r, rest) => r.buf \in Streams
BY Zenon DEF Carries, Within, Doomed, Joined

\* The answer to C0C1.
LEMMA GreetingHeard ==
    ASSUME NEW taken, NEW publishing, s2c = <<>>, inbox = <<>>, client.hs = "S0S1S2"
    PROVE  Hears(<<S0S1S2>>, taken, publishing, <<>>)
<1> DEFINE g == S0S1S2
<1>1. g \in Streams /\ <<g>> \in Seq(Wires)
  BY GreetingsAre, WiresAre
<1> HIDE DEF g
<1>2. FlattenSeq(<<g>>) = g
  BY <1>1, FlatOne DEF Streams
<1>3. Grown(s2c, FlattenSeq(<<g>>), g)
  BY <1>1, <1>2, StreamJoins DEF Grown
<1>4. Joined(inbox, g, g \o Chunks(<<>>))
  <2>1. g \o Chunks(<<>>) = g
    BY <1>1, ChunksNone, StreamJoins
  <2>2. <<>> \o g = g /\ <<>> \in Streams
    BY <1>1, StreamJoins
  <2>3. QED
    BY <1>1, <2>1, <2>2 DEF Joined
<1>5. Receives(g, <<>>)
  BY <1>4, Zenon DEF Receives, g
<1>6. <<>> \in Seq(FromServer) /\ Range(<<>>) = {} /\ SizesOK(<<>>, client.reader.size)
  BY DEF Range, SizesOK
<1>7. \E d \in Streams : Grown(s2c, FlattenSeq(<<g>>), d) /\ Receives(d, <<>>)
  BY <1>1, <1>3, <1>5
<1>8. OnStatus("BadName") \notin Range(<<>>) /\ OnStatus("Start") \notin Range(<<>>)
  BY <1>6
<1>9. QED
  BY <1>6, <1>7, <1>8, Zenon DEF Hears, g

\* A read when the handshake is complete.
LEMMA ServerReadsOn ==
    ASSUME NEW sv, NEW got \in Streams, NEW rest \in Streams, NEW way, NEW loop, NEW closed,
           NEW lost, NEW key, NEW V, NEW L, Faithful(sv, lost), sv.ok, sv.out = <<>>,
           Grown(got, rest, way), s2c \in Streams, client.hs = "COMPLETE", sv.hs = "COMPLETE",
           NEW Q, Hears(<<>>, sv.taken, sv.publishing, Q), Says(FALSE, loop, L),
           \/ Doomed(sv.reader, way)
           \/ \E P : Follows(sv, way, P, V, closed, lost, key)
    PROVE  Served(ServerOnRead([sv EXCEPT !.reader.buf = @ \o got]), sv, rest, loop, closed,
                  lost, key, V)
<1> DEFINE b == sv.reader.buf \o got
           x == With(sv, Fed(sv.reader, b))
<1>1. /\ Connected(x) /\ x.reader = Fed(sv.reader, b) /\ x.hs = sv.hs /\ x.ok
      /\ x.publishing = sv.publishing /\ x.out = <<>> /\ x.taken = sv.taken
      /\ x.delivered = sv.delivered /\ Faithful(x, lost)
      /\ \A P \in Seq(Messages) : Carries(sv.reader, way, P) =>
           Carries(x.reader, rest, P) /\ x.reader.size = sv.reader.size /\ x.reader.buf = b
      /\ Doomed(sv.reader, way) => Doomed(x.reader, rest) /\ x.reader.buf = b
  BY ServerFed
<1>2. [sv EXCEPT !.reader.buf = @ \o got] = x
  BY FedServer
<1> HIDE DEF x
<1>3. \/ Doomed(x.reader, rest)
      \/ \E P : Follows(x, rest, P, V, closed, lost, key)
  <2>1. ASSUME NEW P, Follows(sv, way, P, V, closed, lost, key)
        PROVE  Follows(x, rest, P, V, closed, lost, key)
    <3>1. /\ P \in Seq(FromClient) /\ sv.reader.size \in {1, 2} /\ Carries(sv.reader, way, P)
          /\ Sane(Range(sv.delivered), sv.publishing, P, V, closed, lost, key)
      BY <2>1 DEF Follows
    <3>2. P \in Seq(Messages)
      <4>1. \A m \in FromClient : m \in Messages
        BY Apart
      <4>2. QED
        BY <3>1, <4>1, SeqWider
    <3>3. QED
      BY <1>1, <3>1, <3>2, Zenon DEF Follows
  <2>2. QED
    BY <1>1, <2>1
<1>4. x.reader.buf \in Streams
  BY <1>3, CarriesStreams DEF Follows
<1>5. Serving(x, x, rest, V, closed, lost, key)
  <2>1. \E R : Hears(x.out, x.taken, x.publishing, R)
    BY <1>1
  <2>2. /\ x.publishing => ~ x.taken /\ Publish \in Range(x.delivered)
        /\ First(x.delivered, x.publishing, lost)
    BY <1>1 DEF Faithful
  <2>3. QED
    BY <1>1, <1>3, <2>1, <2>2, Zenon DEF Serving
<1>6. ServerOnRead(x) = ServerHandleChunk(x)
  BY <1>1, OnceIs
<1>7. Served(ServerHandleChunk(x), sv, rest, loop, closed, lost, key, V)
  BY <1>1, <1>4, <1>5, ServerChunkServed
<1>8. QED
  BY <1>2, <1>6, <1>7

\* A read that is not enough for the handshake to go on.
LEMMA ServerWaits ==
    ASSUME NEW sv, NEW x, NEW rest, NEW loop, NEW closed, NEW lost, NEW key, NEW V,
           Faithful(x, lost), x.hs = sv.hs, x.hs # "COMPLETE", ~ Arrived(x), x.out = <<>>,
           x.publishing = sv.publishing, x.taken = sv.taken,
           sv.hs # "C0C1" => \E Q : Hears(<<>>, sv.taken, sv.publishing, Q),
           Flows(client.hs, x, loop, closed, lost, key, rest, V)
    PROVE  Served(ServerOnRead(x), sv, rest, loop, closed, lost, key, V)
<1>1. ServerOnRead(x) = x
  BY OnceIs
<1>2. Served(x, sv, rest, loop, closed, lost, key, V)
  BY DEF Served
<1>3. QED
  BY <1>1, <1>2

\* What was on its way is in the reader: nothing changes before the handshake goes on.
LEMMA FlowsFed ==
    ASSUME NEW hs, NEW sv, NEW x, NEW way, NEW rest, NEW b, NEW loop, NEW closed, NEW lost,
           NEW key, NEW V, Flows(hs, sv, loop, closed, lost, key, way, V), sv.hs # "COMPLETE",
           x.hs = sv.hs, x.delivered = sv.delivered, x.publishing = sv.publishing,
           x.reader = Fed(sv.reader, b), \A s : Joined(sv.reader.buf, way, s) => Joined(b, rest, s)
    PROVE  /\ Flows(hs, x, loop, closed, lost, key, rest, V)
           /\ x.reader = Idle(b, 1) /\ x.reader.buf = b
<1>1. PICK L \in Seq(Requests), P \in Seq(FromClient) :
        /\ Sane(Range(sv.delivered), sv.publishing, P, V, closed, lost, key)
        /\ Spoken(hs, sv, loop, closed, way, P, L)
  BY DEF Flows, Broken
<1>2. sv.reader = Idle(sv.reader.buf, 1)
  BY <1>1 DEF Spoken, Knocking, Entering, Talking
<1>3. x.reader = Idle(b, 1) /\ x.reader.buf = b
  <2>1. Fed(sv.reader, b) = Idle(b, 1) /\ Fed(sv.reader, b).buf = b
    <3>1. \A size : sv.reader = Idle(sv.reader.buf, size) =>
            Fed(sv.reader, b) = Idle(b, size) /\ Fed(sv.reader, b).buf = b
      BY FedIs
    <3>2. QED
      BY <1>2, <3>1, Zenon
  <2>2. QED
    BY <2>1
<1>4. Knocking(sv, loop, way) => Knocking(x, loop, rest)
  BY <1>3 DEF Knocking
<1>5. Entering(sv, loop, closed, way, P, L) => Entering(x, loop, closed, rest, P, L)
  BY <1>3 DEF Entering
<1>6. Spoken(hs, x, loop, closed, rest, P, L)
  BY <1>1, <1>4, <1>5 DEF Spoken, Talking
<1>7. Sane(Range(x.delivered), x.publishing, P, V, closed, lost, key)
  BY <1>1
<1>8. Flows(hs, x, loop, closed, lost, key, rest, V)
  BY <1>6, <1>7 DEF Flows
<1>9. QED
  BY <1>3, <1>8

\* A read while C0C1 is awaited.
LEMMA ServerMeets ==
    ASSUME NEW sv, NEW got \in Streams, NEW rest \in Streams, NEW way, NEW loop, NEW closed,
           NEW lost, NEW key, NEW V, Faithful(sv, lost), sv.ok, sv.out = <<>>,
           Grown(got, rest, way), sv.hs = "C0C1",
           s2c = <<>>, inbox = <<>>, client.hs = "S0S1S2",
           Flows(client.hs, sv, loop, closed, lost, key, way, V)
    PROVE  Served(ServerOnRead([sv EXCEPT !.reader.buf = @ \o got]), sv, rest, loop, closed,
                  lost, key, V)
<1> DEFINE b == sv.reader.buf \o got
           x == With(sv, Fed(sv.reader, b))
<1>1. /\ Connected(x) /\ x.reader = Fed(sv.reader, b) /\ x.hs = sv.hs /\ x.ok
      /\ x.publishing = sv.publishing /\ x.out = <<>> /\ x.taken = sv.taken
      /\ x.delivered = sv.delivered /\ Faithful(x, lost)
      /\ \A s : Joined(sv.reader.buf, way, s) => Joined(b, rest, s)
  BY ServerFed
<1>2. [sv EXCEPT !.reader.buf = @ \o got] = x
  BY FedServer
<1> HIDE DEF x, b
<1>3. /\ Flows(client.hs, x, loop, closed, lost, key, rest, V)
      /\ x.reader = Idle(b, 1) /\ x.reader.buf = b
  BY <1>1, FlowsFed
<1>4. CASE ~ Arrived(x)
  <2>1. Served(ServerOnRead(x), sv, rest, loop, closed, lost, key, V)
    BY <1>1, <1>3, <1>4, ServerWaits
  <2>2. QED
    BY <1>2, <2>1
<1>5. CASE Arrived(x)
  <2> DEFINE r == Used(x.reader, 2)
             d == With(x, r)
             f == Shaken(d, "C2")
             g == <<S0S1S2>>
             y == Saying(f, g)
  <2>1. Shakes(x) = y /\ Len(b) >= 2
    BY <1>1, <1>3, <1>5, ShakesIs
  <2>2. PICK L \in Seq(Requests), P \in Seq(FromClient) :
          /\ Sane(Range(x.delivered), x.publishing, P, V, closed, lost, key)
          /\ Spoken(client.hs, x, loop, closed, rest, P, L)
    BY <1>1, <1>3 DEF Flows, Broken
  <2>3. /\ client.hs = "S0S1S2" /\ P = <<>> /\ loop = <<>> /\ x.delivered = <<>>
        /\ \E s \in {<<>>, C0C1} : Joined(b, rest, s)
    BY <1>1, <1>3, <2>2 DEF Spoken, Entering, Talking, Knocking
  <2>4. b \in Streams /\ Len(b) \in Nat /\ Len(rest) \in Nat /\ Len(b \o rest) = Len(b) + Len(rest)
    BY <2>3, StreamJoins DEF Joined
  <2>5. b \o rest \in {<<>>, C0C1} /\ Len(<<>>) = 0 /\ Len(C0C1) = 2
    BY <2>3, StreamJoins, GreetingsAre DEF Joined
  <2>6. Len(b) = 2 /\ rest = <<>>
    <3>1. Len(b \o rest) \in {0, 2}
      BY <2>5
    <3>2. Len(b) = 2 /\ Len(rest) = 0
      <4> DEFINE n == Len(b)
                 k == Len(rest)
                 a == Len(b \o rest)
      <4>1. n \in Nat /\ k \in Nat /\ a = n + k /\ a \in {0, 2} /\ n >= 2
        BY <2>1, <2>4, <3>1
      <4> HIDE DEF n, k, a
      <4>2. n = 2 /\ k = 0
        BY <4>1
      <4>3. QED
        BY <4>2 DEF n, k
    <3>3. QED
      BY <3>2, StreamNone
  <2>7. Used(x.reader, 2) = Idle(<<>>, 1)
    <3>1. SubSeq(b, 2 + 1, Len(b)) = <<>>
      BY <2>4, <2>6 DEF Streams
    <3>2. Used(Idle(b, 1), 2) = Idle(SubSeq(b, 2 + 1, Len(b)), 1)
      BY UsedIdle
    <3>3. QED
      BY <1>3, <3>1, <3>2
  <2>8. /\ Connected(d) /\ d.reader = Idle(<<>>, 1) /\ d.publishing = x.publishing
        /\ d.ok = x.ok /\ d.taken = x.taken /\ d.delivered = x.delivered
    <3> HIDE DEF r
    <3>1. /\ Connected(d) /\ d.reader = r /\ d.publishing = x.publishing
          /\ d.ok = x.ok /\ d.taken = x.taken /\ d.delivered = x.delivered
      BY ZenonT(60), <1>1, WithIs
    <3>2. QED
      BY <2>7, <3>1 DEF r
  <2> HIDE DEF d
  <2>9. /\ Connected(f) /\ f.reader = d.reader /\ f.publishing = d.publishing /\ f.hs = "C2"
        /\ f.ok = d.ok /\ f.taken = d.taken /\ f.delivered = d.delivered
    BY <2>8, ShakenIs
  <2> HIDE DEF f
  <2>10. g \in Seq(Wires)
    BY GreetingsAre
  <2> HIDE DEF g
  <2>11. /\ Connected(y) /\ y.reader = f.reader /\ y.publishing = f.publishing /\ y.hs = f.hs
         /\ y.ok = f.ok /\ y.taken = f.taken /\ y.delivered = f.delivered /\ y.out = g
    BY <2>9, <2>10, SayingIs
  <2> HIDE DEF y
  <2>12. ServerOnRead(x) = y
    BY <1>1, <1>5, <2>1, <2>9, <2>11, OnceIs DEF HandlesRest
  <2>13. Knocking(y, loop, rest)
    <3>1. y.reader = Idle(<<>>, 1) /\ y.reader.buf = <<>>
      BY <2>8, <2>9, <2>11, IdleSized
    <3>2. Joined(<<>>, <<>>, <<>>)
      BY StreamJoins DEF Joined
    <3>3. y.hs = "C2" /\ y.delivered = <<>>
      BY <2>3, <2>8, <2>9, <2>11
    <3>4. QED
      BY <2>3, <2>6, <3>1, <3>2, <3>3 DEF Knocking
  <2>14. Flows(client.hs, y, loop, closed, lost, key, rest, V)
    <3>1. Spoken(client.hs, y, loop, closed, rest, P, L)
      BY <2>3, <2>13 DEF Spoken
    <3>2. y.delivered = x.delivered /\ y.publishing = x.publishing
      BY <2>8, <2>9, <2>11
    <3>3. Sane(Range(y.delivered), y.publishing, P, V, closed, lost, key)
      BY <2>2, <3>2
    <3>4. QED
      BY <3>1, <3>3 DEF Flows
  <2>15. Faithful(y, lost)
    <3>1. /\ y.delivered = x.delivered /\ y.publishing = x.publishing /\ y.hs = "C2"
          /\ y.taken = x.taken /\ Connected(y)
      BY <2>8, <2>9, <2>11
    <3>2. QED
      BY <1>1, <3>1 DEF Faithful
  <2>16. Hears(y.out, y.taken, y.publishing, <<>>)
    BY <2>11, GreetingHeard DEF g
  <2>17. y.taken = sv.taken /\ y.publishing = sv.publishing /\ y.hs = "C2"
    BY <1>1, <2>8, <2>9, <2>11
  <2>18. Served(y, sv, rest, loop, closed, lost, key, V)
    BY <2>14, <2>15, <2>16, <2>17 DEF Served
  <2>19. QED
    BY <1>2, <2>12, <2>18
<1>6. QED
  BY <1>4, <1>5

\* The bytes of a second part of the handshake have arrived with the messages after it.
LEMMA FlowsFedToo ==
    ASSUME NEW hs, NEW sv, NEW x, NEW way, NEW rest, NEW b, NEW loop, NEW closed, NEW lost,
           NEW key, NEW V, Flows(hs, sv, loop, closed, lost, key, way, V), sv.hs = "C2",
           x.hs = sv.hs, x.delivered = sv.delivered, x.publishing = sv.publishing,
           x.reader = Fed(sv.reader, b), \A s : Joined(sv.reader.buf, way, s) => Joined(b, rest, s)
    PROVE  /\ Flows(hs, x, loop, closed, lost, key, rest, V)
           /\ x.reader = Idle(b, 1) /\ x.reader.buf = b
<1>1. sv.hs # "COMPLETE"
  OBVIOUS
<1>2. QED
  BY <1>1, FlowsFed

\* A read while C2 is awaited.
LEMMA ServerEnters ==
    ASSUME NEW sv, NEW got \in Streams, NEW rest \in Streams, NEW way, NEW loop, NEW closed,
           NEW lost, NEW key, NEW V, Faithful(sv, lost), sv.ok, sv.out = <<>>,
           Grown(got, rest, way), sv.hs = "C2", s2c \in Streams,
           NEW Q, Hears(<<>>, sv.taken, sv.publishing, Q),
           Flows(client.hs, sv, loop, closed, lost, key, way, V)
    PROVE  Served(ServerOnRead([sv EXCEPT !.reader.buf = @ \o got]), sv, rest, loop, closed,
                  lost, key, V)
<1> DEFINE b == sv.reader.buf \o got
           x == With(sv, Fed(sv.reader, b))
<1>1. /\ Connected(x) /\ x.reader = Fed(sv.reader, b) /\ x.hs = sv.hs /\ x.ok
      /\ x.publishing = sv.publishing /\ x.out = <<>> /\ x.taken = sv.taken
      /\ x.delivered = sv.delivered /\ Faithful(x, lost)
      /\ \A s : Joined(sv.reader.buf, way, s) => Joined(b, rest, s)
  BY ServerFed
<1>2. [sv EXCEPT !.reader.buf = @ \o got] = x
  BY FedServer
<1> HIDE DEF x, b
<1>3. /\ Flows(client.hs, x, loop, closed, lost, key, rest, V)
      /\ x.reader = Idle(b, 1) /\ x.reader.buf = b
  <2> DEFINE h == client.hs
  <2>1. Flows(h, sv, loop, closed, lost, key, way, V)
    OBVIOUS
  <2> HIDE DEF h
  <2>2. /\ Flows(h, x, loop, closed, lost, key, rest, V)
        /\ x.reader = Idle(b, 1) /\ x.reader.buf = b
    BY <1>1, <2>1, FlowsFedToo
  <2>3. QED
    BY <2>2 DEF h
<1>4. CASE ~ Arrived(x)
  <2>1. Served(ServerOnRead(x), sv, rest, loop, closed, lost, key, V)
    BY <1>1, <1>3, <1>4, ServerWaits
  <2>2. QED
    BY <1>2, <2>1
<1>5. CASE Arrived(x)
  <2> DEFINE r == Used(x.reader, 1)
             d == With(x, r)
             y == Shaken(d, "COMPLETE")
             e == SubSeq(b, 2, Len(b))
  <2>1. Shakes(x) = y /\ Len(b) >= 1
    BY <1>1, <1>3, <1>5, ShakesIs
  <2>2. PICK L \in Seq(Requests), P \in Seq(FromClient) :
          /\ Sane(Range(x.delivered), x.publishing, P, V, closed, lost, key)
          /\ Spoken(client.hs, x, loop, closed, rest, P, L)
    BY <1>1, <1>3 DEF Flows, Broken
  <2>3. ~ Joined(b, rest, <<>>)
    <3>1. ASSUME Joined(b, rest, <<>>) PROVE FALSE
      <4>1. b \in Streams /\ b \o rest = <<>>
        BY <3>1 DEF Joined
      <4>2. Len(b) \in Nat /\ Len(rest) \in Nat /\ Len(b \o rest) = Len(b) + Len(rest) /\ Len(<<>>) = 0
        BY <4>1, StreamJoins
      <4> DEFINE n == Len(b)
                 k == Len(rest)
      <4>3. n \in Nat /\ k \in Nat /\ 0 = n + k /\ n >= 1
        BY <2>1, <4>1, <4>2
      <4> HIDE DEF n, k
      <4>4. QED
        BY <4>3
    <3>2. QED
      BY <3>1
  <2>4. /\ client.hs = "COMPLETE" /\ Says(FALSE, loop, L) /\ Joined(b, rest, C2 \o Chunks(P))
    BY <1>1, <1>3, <2>2, <2>3 DEF Spoken, Entering, Talking, Knocking
  <2>5. P \in Seq(Messages)
    <3>1. \A m \in FromClient : m \in Messages
      BY Apart
    <3>2. QED
      BY <3>1, SeqWider
  <2>6. e \in Streams /\ Joined(e, rest, Chunks(P))
    <3>1. Chunks(P) \in Streams /\ C2 \in Streams /\ Len(C2) = 1
      BY <2>5, ChunksAre, GreetingsAre, WiresAre DEF Streams
    <3> DEFINE g == C2
               c == Chunks(P)
    <3>2. g \in Streams /\ c \in Streams /\ Len(g) = 1 /\ Joined(b, rest, g \o c)
      BY <2>4, <3>1
    <3> HIDE DEF g, c
    <3>3. Begins(Units, b, rest, g, c)
      BY <3>2 DEF Joined, Begins, Streams
    <3>4. /\ SubSeq(b, Len(g) + 1, Len(b)) \in Seq(Units)
          /\ SubSeq(b, Len(g) + 1, Len(b)) \o rest = c
      BY <2>1, <3>2, <3>3, Cut
    <3>5. Len(g) + 1 = 2
      BY <3>2
    <3>6. e \in Seq(Units) /\ e \o rest = c
      BY <3>4, <3>5
    <3> HIDE DEF e
    <3>7. QED
      BY <3>6 DEF Joined, Streams, c
  <2>7. r = Idle(e, 1)
    <3>1. Used(Idle(b, 1), 1) = Idle(SubSeq(b, 1 + 1, Len(b)), 1)
      BY UsedIdle
    <3>2. 1 + 1 = 2
      OBVIOUS
    <3>3. QED
      BY <1>3, <3>1, <3>2
  <2> HIDE DEF e, r
  <2>8. /\ Connected(d) /\ d.reader = r /\ d.publishing = x.publishing /\ d.out = x.out
        /\ d.ok = x.ok /\ d.taken = x.taken /\ d.delivered = x.delivered
    BY <1>1, WithIs
  <2> HIDE DEF d
  <2>9. /\ Connected(y) /\ y.reader = d.reader /\ y.publishing = d.publishing
        /\ y.hs = "COMPLETE" /\ y.out = d.out
        /\ y.ok = d.ok /\ y.taken = d.taken /\ y.delivered = d.delivered
    BY <2>8, ShakenIs
  <2> HIDE DEF y
  <2>10. /\ y.reader = Idle(e, 1) /\ y.publishing = sv.publishing /\ y.taken = sv.taken
         /\ y.delivered = x.delivered /\ y.out = <<>> /\ y.publishing = x.publishing
         /\ y.taken = x.taken
    BY <1>1, <2>7, <2>8, <2>9
  <2>11. y.reader = Idle(y.reader.buf, y.reader.size) /\ y.reader.buf = e /\ y.reader.size = 1
    BY <2>10, IdleSized
  <2>12. Carries(y.reader, rest, P)
    BY <2>6, <2>11, Zenon DEF Carries
  <2>13. Follows(y, rest, P, V, closed, lost, key)
    BY <2>2, <2>10, <2>11, <2>12 DEF Follows
  <2>14. Serving(y, y, rest, V, closed, lost, key)
    <3>1. \E R : Hears(y.out, y.taken, y.publishing, R)
      BY <2>10
    <3>2. /\ y.publishing => ~ y.taken /\ Publish \in Range(y.delivered)
          /\ First(y.delivered, y.publishing, lost)
      BY <1>1, <2>10 DEF Faithful
    <3>3. QED
      BY <2>9, <2>13, <3>1, <3>2, Zenon DEF Serving
  <2>15. Served(ServerHandleChunk(y), sv, rest, loop, closed, lost, key, V)
    BY <2>4, <2>6, <2>9, <2>10, <2>11, <2>14, ServerChunkServed
  <2>16. ServerOnRead(x) = ServerHandleChunk(y)
    BY <1>1, <1>5, <2>1, <2>9, OnceIs DEF HandlesRest
  <2>17. QED
    BY <1>2, <2>15, <2>16
<1>6. QED
  BY <1>4, <1>5

\* What the server makes of a read.
LEMMA ServerReadIs ==
    ASSUME NEW sv, NEW got \in Streams, NEW rest \in Streams, NEW way, NEW loop, NEW closed,
           NEW lost, NEW key, NEW V, Faithful(sv, lost), sv.ok, sv.out = <<>>,
           Grown(got, rest, way), s2c \in Streams,
           Flows(client.hs, sv, loop, closed, lost, key, way, V),
           sv.hs # "C0C1" => \E Q : Hears(<<>>, sv.taken, sv.publishing, Q),
           sv.hs = "C0C1" => s2c = <<>> /\ inbox = <<>> /\ client.hs = "S0S1S2"
    PROVE  Served(ServerOnRead([sv EXCEPT !.reader.buf = @ \o got]), sv, rest, loop, closed,
                  lost, key, V)
<1>1. CASE sv.hs = "C0C1"
  BY <1>1, ServerMeets
<1>2. CASE sv.hs = "C2"
  <2>1. PICK Q : Hears(<<>>, sv.taken, sv.publishing, Q)
    BY <1>2
  <2>2. QED
    BY <1>2, <2>1, ServerEnters
<1>3. CASE sv.hs = "COMPLETE"
  <2>1. PICK Q : Hears(<<>>, sv.taken, sv.publishing, Q)
    BY <1>3
  <2>2. PICK L : \/ client.hs = "COMPLETE" /\ Broken(sv, loop, way, L)
                 \/ \E P \in Seq(FromClient) :
                      /\ Sane(Range(sv.delivered), sv.publishing, P, V, closed, lost, key)
                      /\ Spoken(client.hs, sv, loop, closed, way, P, L)
    BY DEF Flows
  <2>3. /\ client.hs = "COMPLETE" /\ Says(FALSE, loop, L)
        /\ \/ Doomed(sv.reader, way)
           \/ \E P : Follows(sv, way, P, V, closed, lost, key)
    <3>1. CASE client.hs = "COMPLETE" /\ Broken(sv, loop, way, L)
      BY <3>1 DEF Broken
    <3>2. ASSUME NEW P \in Seq(FromClient),
                 Sane(Range(sv.delivered), sv.publishing, P, V, closed, lost, key),
                 Spoken(client.hs, sv, loop, closed, way, P, L)
          PROVE  /\ client.hs = "COMPLETE" /\ Says(FALSE, loop, L)
                 /\ Follows(sv, way, P, V, closed, lost, key)
      <4>1. client.hs = "COMPLETE" /\ Talking(sv, loop, way, P, L)
        BY <1>3, <3>2 DEF Spoken, Knocking, Entering
      <4>2. QED
        BY <3>2, <4>1 DEF Talking, Follows
    <3>3. QED
      BY <2>2, <3>1, <3>2
  <2>4. QED
    BY <1>3, <2>1, <2>3, ServerReadsOn
<1>4. QED
  BY <1>1, <1>2, <1>3 DEF Faithful

\* The messages Q are on their way to a client's connection.
Awaits(x, rest, Q) ==
    /\ Q \in Seq(FromServer) /\ x.reader.size \in {1, 2} /\ Carries(x.reader, rest, Q)
    /\ SizesOK(Q, x.reader.size)
    /\ OnStatus("BadName") \in Range(Q) => svr.taken
    /\ OnStatus("Start") \in Range(Q) => svr.publishing

\* What holds of a client's connection x in the loop of HandleChunk that began with base.
Listening(x, base, first, rest) ==
    /\ Connected(x) /\ x.hs = base.hs /\ x.size = base.size
    /\ x.ok \/ svr.taken
    /\ base.publishing => x.publishing
    /\ x.publishing => svr.publishing
    /\ \E L : Says(first, x.out, L)
    /\ \E Q : Awaits(x, rest, Q)

\* A message that the client's reader has made is handled as the server means it.
LEMMA ClientMakes ==
    ASSUME NEW x, NEW base, NEW first, NEW rest, NEW Q, Listening(x, base, first, rest), x.ok,
           svr.publishing => ~ svr.taken, Awaits(x, rest, Q), Q # <<>>,
           NEW e, Joined(e, rest, Chunks(Tail(Q))), NEW size \in {1, 2}, size = x.reader.size,
           NEW y, y = ClientHandles(With(x, Idle(e, size)), Head(Q))
    PROVE  Listening(y, base, first, rest)
<1> DEFINE m == Head(Q)
           T == Tail(Q)
           r == Idle(e, size)
           d == With(x, r)
           n == IF m = SetChunkSize THEN 2 ELSE size
<1>0. Connected(x)
  BY DEF Listening
<1>1. /\ Q \in Seq(FromServer) /\ SizesOK(Q, size)
      /\ OnStatus("BadName") \in Range(Q) => svr.taken
      /\ OnStatus("Start") \in Range(Q) => svr.publishing
  BY DEF Awaits
<1>2. m \in FromServer /\ T \in Seq(FromServer) /\ Range(Q) = {m} \union Range(T)
  BY <1>1, RangeLess
<1>3. SizesOK(T, n)
  BY <1>1, SizesLess
<1>3a. n \in {1, 2}
  OBVIOUS
<1>3b. y = ClientHandles(d, m)
  OBVIOUS
<1> HIDE DEF m, T, r, n
<1>4. /\ Connected(d) /\ d.reader = r /\ d.hs = x.hs /\ d.publishing = x.publishing
      /\ d.out = x.out /\ d.ok = x.ok /\ d.size = x.size
  <2>1. Connected(d)
    BY <1>0, WithIs
  <2>2. d.reader = r
    BY <1>0, WithIs
  <2>3. d.hs = x.hs
    BY <1>0, WithIs
  <2>4. d.publishing = x.publishing
    BY <1>0, WithIs
  <2>5. d.out = x.out
    BY <1>0, WithIs
  <2>6. d.ok = x.ok
    BY <1>0, WithIs
  <2>7. d.size = x.size
    BY <1>0, WithIs
  <2>8. QED
    BY <2>1, <2>2, <2>3, <2>4, <2>5, <2>6, <2>7
<1> HIDE DEF d
<1>5. PICK L : Says(first, d.out, L)
  BY <1>4 DEF Listening
<1>6. /\ Connected(y) /\ y.hs = d.hs /\ y.size = d.size
      /\ y.reader = IF m = SetChunkSize THEN [d.reader EXCEPT !.size = 2] ELSE d.reader
      /\ y.publishing => d.publishing \/ m = OnStatus("Start")
      /\ d.publishing => y.publishing \/ m = OnStatus("BadName")
      /\ d.ok => y.ok \/ m = OnStatus("BadName")
      /\ \E K : Says(first, y.out, K)
  <2> DEFINE z == ClientHandles(d, m)
  <2>1. /\ Connected(z) /\ z.hs = d.hs /\ z.size = d.size
        /\ z.reader = IF m = SetChunkSize THEN [d.reader EXCEPT !.size = 2] ELSE d.reader
        /\ z.publishing => d.publishing \/ m = OnStatus("Start")
        /\ d.publishing => z.publishing \/ m = OnStatus("BadName")
        /\ d.ok => z.ok \/ m = OnStatus("BadName")
        /\ \E K : Says(first, z.out, K)
    BY <1>2, <1>4, <1>5, ClientHandlesIs
  <2>2. y = z
    BY <1>3b
  <2> HIDE DEF z
  <2>3. QED
    BY <2>1, <2>2
<1>7. y.reader = Idle(e, n)
  <2>1. CASE m = SetChunkSize
    BY <1>4, <1>6, <2>1, IdleSized DEF r, n
  <2>2. CASE m # SetChunkSize
    BY <1>4, <1>6, <2>2 DEF r, n
  <2>3. QED
    BY <2>1, <2>2
<1>8. y.reader = Idle(y.reader.buf, y.reader.size) /\ y.reader.buf = e /\ y.reader.size = n
  BY <1>7, IdleSized
<1>9. Carries(y.reader, rest, T)
  BY <1>8, Zenon DEF Carries, T
<1>10. Awaits(y, rest, T)
  <2>1. /\ OnStatus("BadName") \in Range(T) => svr.taken
        /\ OnStatus("Start") \in Range(T) => svr.publishing
    BY <1>1, <1>2
  <2>2. QED
    BY <1>2, <1>3, <1>3a, <1>8, <1>9, <2>1, Zenon DEF Awaits
<1>11. m = OnStatus("BadName") => svr.taken
  BY <1>1, <1>2
<1>12. m = OnStatus("Start") => svr.publishing
  BY <1>1, <1>2
<1>13. x.publishing => svr.publishing
  BY DEF Listening
<1>14. y.ok \/ svr.taken
  BY <1>4, <1>6, <1>11
<1>15. base.publishing => y.publishing
  <2>1. base.publishing => x.publishing
    BY DEF Listening
  <2>2. QED
    BY <1>4, <1>6, <1>11, <1>13, <2>1
<1>16. y.publishing => svr.publishing
  BY <1>4, <1>6, <1>12, <1>13
<1>17. y.hs = base.hs /\ y.size = base.size
  BY <1>4, <1>6 DEF Listening
<1>18. \E K : Awaits(y, rest, K)
  BY <1>10, Zenon
<1>19. QED
  BY <1>6, <1>14, <1>15, <1>16, <1>17, <1>18, Zenon DEF Listening

\* One turn of the client's OnRead.
LEMMA ClientTurns ==
    ASSUME NEW x, NEW base, NEW first, NEW rest, Listening(x, base, first, rest),
           svr.publishing => ~ svr.taken
    PROVE  Listening(ClientTurn(x), base, first, rest)
<1> DEFINE q == Parse(x.reader)
           y == ClientTurn(x)
<1>0. Connected(x)
  BY DEF Listening
<1>1. CASE ~ x.ok
  <2>1. y = x
    BY <1>1 DEF ClientTurn
  <2> HIDE DEF y
  <2>2. QED
    BY <2>1, Zenon DEF y
<1>2. CASE x.ok
  <2>1. PICK Q : Awaits(x, rest, Q)
    BY DEF Listening
  <2> DEFINE size == x.reader.size
  <2>2. /\ Q \in Seq(FromServer) /\ size \in {1, 2} /\ Carries(x.reader, rest, Q)
        /\ SizesOK(Q, size)
    BY <2>1 DEF Awaits
  <2>3. Q \in Seq(Messages)
    <3>1. \A m \in FromServer : m \in Messages
      BY Apart
    <3>2. QED
      BY <2>2, <3>1, SeqWider
  <2>4. Outcome(q, rest, Q, size)
    BY <2>2, <2>3, ParseCarries
  <2>5. CASE q.size = size /\ q.out = None /\ Carries(q, rest, Q)
    <3>1. y = With(x, q)
      BY <1>0, <1>2, <2>5, TurnIs
    <3> HIDE DEF y, q
    <3>2. /\ Connected(y) /\ y.reader = q /\ y.hs = x.hs /\ y.publishing = x.publishing
          /\ y.out = x.out /\ y.ok = x.ok /\ y.size = x.size
      BY <1>0, <3>1, WithIs
    <3>3. Awaits(y, rest, Q)
      BY <2>1, <2>5, <3>2 DEF Awaits
    <3>4. Listening(y, base, first, rest)
      BY <3>2, <3>3 DEF Listening
    <3>5. QED
      BY <3>4 DEF y
  <2>6. CASE Q # <<>> /\ \E e : Joined(e, rest, Chunks(Tail(Q))) /\ q = Made(e, size, Head(Q))
    <3>1. PICK e : Joined(e, rest, Chunks(Tail(Q))) /\ q = Made(e, size, Head(Q))
      BY <2>6
    <3> DEFINE r == Idle(e, size)
               m == Head(Q)
    <3>2. m \in Messages /\ m # None
      <4>1. m \in Messages
        BY <2>3, <2>6, RangeLess
      <4>2. QED
        BY <4>1, MessageFacts
    <3>3. Reading(r)
      BY ReadingThese
    <3>4. Parse(x.reader) = [r EXCEPT !.out = m]
      BY <3>1, Zenon DEF Made
    <3> HIDE DEF r, m
    <3>5. y = ClientHandles(With(x, r), m)
      BY <1>0, <1>2, <3>2, <3>3, <3>4, TurnIs
    <3>6. size \in {1, 2} /\ size = x.reader.size
      BY <2>2
    <3> HIDE DEF y, size
    <3>7. Listening(y, base, first, rest)
      BY <1>2, <2>1, <2>6, <3>1, <3>5, <3>6, ClientMakes DEF r, m
    <3>8. QED
      BY <3>7 DEF y
  <2>7. ~ (size = 1 /\ Q # <<>> /\ Head(Q).lenght > 1)
    BY <2>2, SizesLess
  <2>8. QED
    BY <2>4, <2>5, <2>6, <2>7 DEF Outcome
<1>3. QED
  BY <1>1, <1>2

\* The loop of the client's HandleChunk.
LEMMA ClientChunkListens ==
    ASSUME NEW x, NEW base, NEW first, NEW rest, Listening(x, base, first, rest),
           svr.publishing => ~ svr.taken
    PROVE  Listening(ClientHandleChunk(x), base, first, rest)
<1> DEFINE n == Len(x.reader.buf)
<1>0. x.reader.buf \in Streams
  BY CarriesStreams DEF Listening, Awaits
<1>1. n \in Nat /\ DOMAIN x.reader.buf = 1 .. n
  BY <1>0 DEF Streams
<1> HIDE DEF n
<1>2. PICK g : /\ g[0] = x /\ g[n] = ClientHandleChunk(x)
               /\ \A k \in 1 .. n : g[k] = ClientTurn(g[k - 1])
  BY <1>1, ClientChunkRuns
<1> DEFINE T == {k \in 0 .. n : Listening(g[k], base, first, rest)}
<1>3. 0 \in T
  BY <1>1, <1>2
<1>4. ASSUME NEW k \in 1 .. n, k - 1 \in T PROVE k \in T
  <2>1. Listening(g[k - 1], base, first, rest)
    BY <1>4
  <2>2. Listening(ClientTurn(g[k - 1]), base, first, rest)
    BY <2>1, ClientTurns
  <2>3. Listening(g[k], base, first, rest)
    BY <1>2, <2>2
  <2>4. QED
    BY <1>1, <2>3
<1> HIDE DEF T
<1>5. \A k \in 0 .. n : k \in T
  BY <1>1, <1>3, <1>4, Steps
<1>6. n \in T
  BY <1>1, <1>5
<1>7. QED
  BY <1>2, <1>6 DEF T

\* What the client has still to hear, when buf is put to its reader.
Waits(buf, rest, Q) ==
    /\ Q \in Seq(FromServer) /\ Joined(buf, rest, S0S1S2 \o Chunks(Q))
    /\ SizesOK(Q, client.reader.size)
    /\ OnStatus("BadName") \in Range(Q) => svr.taken
    /\ OnStatus("Start") \in Range(Q) => svr.publishing

\* What a read makes of the client's connection.
Told(y, rest) ==
    /\ Connected(y) /\ (y.ok \/ svr.taken) /\ y.hs = "COMPLETE" /\ y.size = 2
    /\ client.publishing => y.publishing
    /\ y.publishing => svr.publishing
    /\ \E L : Says(client.hs = "S0S1S2", y.out, L)
    /\ \E Q : Awaits(y, rest, Q)

\* Only the last buffer counts.
LEMMA FedTwice ==
    ASSUME NEW r, NEW i, NEW a, NEW rest, NEW Q, Carries(Fed(r, i), rest, Q)
    PROVE  /\ Fed(r, i).buf = i /\ Fed(Fed(r, i), a) = Fed(r, a)
           /\ Fed(r, i).size = r.size /\ Fed(r, a).size = r.size
<1>1. {"buf", "size"} \subseteq DOMAIN Fed(r, i)
  <2> DEFINE d == Fed(r, i)
  <2>1. \/ d = Idle(d.buf, d.size)
        \/ \E size, m, got, state : d = InChunk(d.buf, size, m, got, state)
    BY DEF Carries, Within, Partial
  <2> HIDE DEF d
  <2>2. {"buf", "size"} \subseteq DOMAIN d
    BY <2>1 DEF Idle, InChunk
  <2>3. QED
    BY <2>2 DEF d
<1>2. DOMAIN Fed(r, i) = DOMAIN r
  BY DEF Fed
<1>3. "buf" \in DOMAIN r /\ "size" \in DOMAIN r
  BY <1>1, <1>2
<1>4. Fed(Fed(r, i), a) = Fed(r, a)
  BY DEF Fed
<1>5. QED
  BY <1>3, <1>4 DEF Fed

\* The client's reader before the handshake.
LEMMA FirstClient ==
    ASSUME client = NewConnection("S0S1S2", FALSE)
    PROVE  client.reader = Idle(<<>>, 1) /\ client.reader.size = 1
BY DEF NewConnection, NewReader, Idle, NoSlots, DefaultSize

\* A client's read when the handshake is complete.
LEMMA ClientReadsOn ==
    ASSUME Connected(client), client.out = <<>>, client.ok, client.hs = "COMPLETE",
           client.size = 2, client.reader.size \in {1, 2},
           svr.publishing => ~ svr.taken, client.publishing => svr.publishing,
           NEW Q \in Seq(FromServer), Receives(s2c, Q), SizesOK(Q, client.reader.size),
           OnStatus("BadName") \in Range(Q) => svr.taken,
           OnStatus("Start") \in Range(Q) => svr.publishing,
           NEW got \in Streams, NEW rest \in Streams, Grown(got, rest, s2c)
    PROVE  Told(ClientOnRead([client EXCEPT !.reader.buf = inbox \o got]), rest)
<1> DEFINE a == inbox \o got
           r == Fed(client.reader, inbox)
           x == With(client, Fed(client.reader, a))
           y == ClientHandleChunk(x)
<1>1. Grown(inbox, got, a)
  BY DEF Grown
<1> HIDE DEF a
<1>2. Q \in Seq(Messages)
  <2>1. \A m \in FromServer : m \in Messages
    BY Apart
  <2>2. QED
    BY <2>1, SeqWider
<1>3. Carries(r, s2c, Q)
  BY DEF Receives
<1>4. /\ r.buf = inbox /\ Fed(r, a) = Fed(client.reader, a)
      /\ r.size = client.reader.size
  <2> DEFINE c == client.reader
  <2>1. Carries(Fed(c, inbox), s2c, Q)
    BY <1>3
  <2> HIDE DEF c
  <2>2. Fed(c, inbox).buf = inbox
    BY <2>1, FedTwice
  <2>3. Fed(Fed(c, inbox), a) = Fed(c, a)
    BY <2>1, FedTwice
  <2>4. Fed(c, inbox).size = c.size
    BY <2>1, FedTwice
  <2>5. QED
    BY <2>2, <2>3, <2>4 DEF c
<1> HIDE DEF r
<1>5. Carries(Fed(r, a), rest, Q) /\ Fed(r, a).size = r.size
  BY <1>1, <1>2, <1>3, <1>4, CarriesMoves
<1>6. /\ Connected(x) /\ x.reader = Fed(client.reader, a) /\ x.hs = client.hs
      /\ x.publishing = client.publishing /\ x.size = client.size
      /\ x.out = client.out
  BY WithIs
<1>6a. x.ok = client.ok
  BY WithIs
<1>7. [client EXCEPT !.reader.buf = inbox \o got] = x
  BY FedClient DEF a
<1> HIDE DEF x
<1>8. Awaits(x, rest, Q)
  BY <1>4, <1>5, <1>6 DEF Awaits
<1>9. Says(FALSE, x.out, <<>>)
  BY <1>6, ChunksNone DEF Says
<1>10. Listening(x, x, FALSE, rest)
  BY <1>6, <1>6a, <1>8, <1>9 DEF Listening
<1>11. Listening(y, x, FALSE, rest)
  BY <1>10, ClientChunkListens
<1>12. ClientOnRead(x) = y
  BY <1>6, OnceIs
<1> HIDE DEF y
<1>13. client.hs # "S0S1S2"
  OBVIOUS
<1>14. \E L : Says(client.hs = "S0S1S2", y.out, L)
  BY <1>11, <1>13 DEF Listening, Says
<1>15. Told(y, rest)
  BY <1>6, <1>11, <1>14 DEF Listening, Told
<1>16. QED
  BY <1>7, <1>12, <1>15

\* Asking sends SetChunkSize and Connect.
LEMMA AskingIs ==
    ASSUME NEW c, Connected(c), NEW first, NEW L, Says(first, c.out, L)
    PROVE  LET y == Asking(c) IN
           /\ Connected(y) /\ y.hs = c.hs /\ y.size = 2 /\ y.reader = c.reader
           /\ y.publishing = c.publishing /\ y.ok = c.ok
           /\ \E K : Says(first, y.out, K)
           /\ y.out = Append(Append(c.out, Packet(SetChunkSize)), Packet(Connect))
<1> DEFINE c1 == Advanced(c, "START_CONNECT")
           c2 == Sized(c1)
           c3 == Sent(c2, SetChunkSize)
           c4 == Sent(c3, Connect)
<1>1. /\ Connected(c1) /\ c1.hs = c.hs /\ c1.reader = c.reader /\ c1.out = c.out
      /\ c1.publishing = c.publishing /\ c1.ok = c.ok
  BY AdvancedIs DEF ClientStates
<1>2. Asking(c) = Sends(SendsChunkSize(c1), Connect)
  BY DEF Asking, Advanced
<1> HIDE DEF c1
<1>3. /\ Connected(c2) /\ c2.hs = c1.hs /\ c2.reader = c1.reader /\ c2.out = c1.out
      /\ c2.publishing = c1.publishing /\ c2.ok = c1.ok /\ c2.size = 2
  BY <1>1, SizedIs
<1>4. SendsChunkSize(c1) = Sends(c2, SetChunkSize)
  BY DEF SendsChunkSize, Sized
<1> HIDE DEF c2
<1>5. /\ SetChunkSize \in Messages /\ Connect \in Messages
      /\ SetChunkSize \in Requests /\ Connect \in Requests
  BY Apart DEF Requests
<1> DEFINE m == SetChunkSize
           n == Connect
<1> HIDE DEF m, n
<1>6. /\ Connected(Sent(c2, m)) /\ Sent(c2, m).hs = c2.hs /\ Sent(c2, m).reader = c2.reader
      /\ Sent(c2, m).out = Append(c2.out, Packet(m))
      /\ Sent(c2, m).publishing = c2.publishing /\ Sent(c2, m).ok = c2.ok
      /\ Sent(c2, m).size = c2.size /\ Sends(c2, m) = Sent(c2, m)
  <2>1. m \in Messages
    BY <1>5 DEF m
  <2>2. QED
    BY <1>3, <2>1, SentIs
<1>6a. /\ Connected(c3) /\ c3.hs = c2.hs /\ c3.reader = c2.reader
       /\ c3.out = Append(c2.out, Packet(m))
       /\ c3.publishing = c2.publishing /\ c3.ok = c2.ok
       /\ c3.size = c2.size /\ Sends(c2, m) = c3
  BY <1>6 DEF m
<1> HIDE DEF c3
<1>7. /\ Connected(Sent(c3, n)) /\ Sent(c3, n).hs = c3.hs /\ Sent(c3, n).reader = c3.reader
      /\ Sent(c3, n).out = Append(c3.out, Packet(n))
      /\ Sent(c3, n).publishing = c3.publishing /\ Sent(c3, n).ok = c3.ok
      /\ Sent(c3, n).size = c3.size /\ Sends(c3, n) = Sent(c3, n)
  <2>1. n \in Messages /\ c3.size = 2
    BY <1>3, <1>5, <1>6a DEF n
  <2>2. QED
    BY <1>6a, <2>1, SentIs
<1>7a. /\ Connected(c4) /\ c4.hs = c3.hs /\ c4.reader = c3.reader
       /\ c4.out = Append(c3.out, Packet(n))
       /\ c4.publishing = c3.publishing /\ c4.ok = c3.ok
       /\ c4.size = c3.size /\ Sends(c3, n) = c4
  BY <1>7 DEF n
<1> HIDE DEF c4
<1>8. Asking(c) = c4
  BY <1>2, <1>4, <1>6a, <1>7a DEF m, n
<1>10. Says(first, c.out, L) /\ c.out \in Seq(Wires)
  BY DEF Connected
<1>11. /\ Says(first, Append(c.out, Packet(m)), Append(L, m))
       /\ m \in Requests /\ n \in Requests
  BY <1>5, <1>10, SaysMore DEF m, n
<1>12. Says(first, c3.out, Append(L, m)) /\ c3.out \in Seq(Wires)
  BY <1>1, <1>3, <1>6a, <1>11 DEF Connected
<1>13. Says(first, c4.out, Append(Append(L, m), n))
  BY <1>7a, <1>11, <1>12, SaysMore
<1>14. \E K : Says(first, c4.out, K)
  BY <1>13
<1>15. c4.out = Append(Append(c.out, Packet(SetChunkSize)), Packet(Connect))
  BY <1>1, <1>3, <1>6a, <1>7a DEF m, n
<1>16. QED
  BY <1>1, <1>3, <1>6a, <1>7a, <1>8, <1>14, <1>15

\* A client's read while S0S1S2 is awaited.
LEMMA ClientEnters ==
    ASSUME client = NewConnection("S0S1S2", FALSE), Connected(client),
           svr.publishing => ~ svr.taken,
           NEW Q, Waits(inbox, s2c, Q), NEW got \in Streams, NEW rest \in Streams,
           Grown(got, rest, s2c)
    PROVE  LET x == [client EXCEPT !.reader.buf = inbox \o got] IN
           \/ ClientOnRead(x) = x /\ Waits(inbox \o got, rest, Q)
           \/ Told(ClientOnRead(x), rest)
<1> DEFINE a == inbox \o got
           x == With(client, Fed(client.reader, a))
<1>1. Joined(a, rest, S0S1S2 \o Chunks(Q))
  <2>1. Grown(inbox, got, a)
    BY DEF Grown
  <2> HIDE DEF a
  <2>2. QED
    BY <2>1, JoinedMoves DEF Waits
<1>2. Waits(a, rest, Q)
  BY <1>1 DEF Waits
<1> HIDE DEF a
<1>3. client.reader = Idle(<<>>, 1)
  BY FirstClient
<1>3a. /\ client.hs = "S0S1S2" /\ ~ client.publishing /\ client.ok /\ client.out = <<>>
  BY DEF NewConnection
<1>4. Fed(client.reader, a) = Idle(a, 1)
  <2>1. Fed(Idle(<<>>, 1), a) = Idle(a, 1)
    BY DEF Fed, Idle
  <2>2. QED
    BY <1>3, <2>1
<1>5. [client EXCEPT !.reader.buf = inbox \o got] = x
  BY FedClient DEF a
<1>6. /\ Connected(x) /\ x.reader = Idle(a, 1) /\ x.hs = client.hs
      /\ x.publishing = client.publishing /\ x.ok = client.ok
  <2> DEFINE c == client
             r == Fed(client.reader, a)
             d == With(c, r)
  <2>1. Connected(c)
    OBVIOUS
  <2> HIDE DEF c, r
  <2>2. Connected(d) /\ d.reader = r /\ d.hs = c.hs
    BY <2>1, WithIs
  <2>3. d.publishing = c.publishing
    BY <2>1, WithIs
  <2>4. d.ok = c.ok
    BY <2>1, WithIs
  <2> HIDE DEF d
  <2>5. d = x
    BY DEF c, r, d
  <2> HIDE DEF x
  <2>6. QED
    BY <1>4, <2>2, <2>3, <2>4, <2>5 DEF c, r
<1>6a. x.ok
  BY <1>3a, <1>6
<1> HIDE DEF x
<1>7. CASE ~ Arrived(x)
  <2>1. ClientOnRead(x) = x
    BY <1>3a, <1>6, <1>7, OnceIs
  <2>2. QED
    BY <1>2, <1>5, <2>1 DEF a
<1>8. CASE Arrived(x)
  <2> DEFINE r == Used(x.reader, 2)
             d == With(x, r)
             f == Shaken(d, "COMPLETE")
             g == <<C2>>
             z == Saying(f, g)
             e == SubSeq(a, 3, Len(a))
             w == ClientHandleChunk(z)
             y == Asking(w)
  <2>0. x.reader.buf = a
    BY <1>6, IdleSized
  <2>1. Shakes(x) = z /\ Len(a) >= 2
    BY <1>3a, <1>6, <1>8, <2>0, ShakesIs DEF Arrived, Awaited
  <2>2. Q \in Seq(Messages)
    <3>1. \A m \in FromServer : m \in Messages
      BY Apart
    <3>2. QED
      BY <1>2, <3>1, SeqWider DEF Waits
  <2>3. e \in Streams /\ Joined(e, rest, Chunks(Q))
    <3>1. Chunks(Q) \in Streams /\ S0S1S2 \in Streams /\ Len(S0S1S2) = 2
      BY <2>2, ChunksAre, GreetingsAre, WiresAre DEF Streams
    <3> DEFINE s == S0S1S2
               c == Chunks(Q)
    <3>2. s \in Streams /\ c \in Streams /\ Len(s) = 2 /\ Joined(a, rest, s \o c)
      BY <1>1, <3>1
    <3> HIDE DEF s, c
    <3>3. Begins(Units, a, rest, s, c)
      BY <3>2 DEF Joined, Begins, Streams
    <3>4. /\ SubSeq(a, Len(s) + 1, Len(a)) \in Seq(Units)
          /\ SubSeq(a, Len(s) + 1, Len(a)) \o rest = c
      BY <2>1, <3>2, <3>3, Cut
    <3>5. Len(s) + 1 = 3
      BY <3>2
    <3>6. e \in Seq(Units) /\ e \o rest = c
      BY <3>4, <3>5
    <3> HIDE DEF e
    <3>7. QED
      BY <3>6 DEF Joined, Streams, c
  <2>4. r = Idle(e, 1)
    <3>1. Used(Idle(a, 1), 2) = Idle(SubSeq(a, 2 + 1, Len(a)), 1)
      BY UsedIdle
    <3>2. 2 + 1 = 3
      OBVIOUS
    <3>3. QED
      BY <1>6, <3>1, <3>2
  <2> HIDE DEF e, r
  <2>5. /\ Connected(d) /\ d.reader = r /\ d.publishing = x.publishing
    <3>1. Connected(d) /\ d.reader = r
      BY <1>6, WithIs
    <3>2. d.publishing = x.publishing
      BY <1>6, WithIs
    <3>3. QED
      BY <3>1, <3>2
  <2>5a. d.ok
    BY <1>6, <1>6a, WithIs
  <2> HIDE DEF d
  <2>6. /\ Connected(f) /\ f.reader = d.reader /\ f.publishing = d.publishing
        /\ f.hs = "COMPLETE"
    BY <2>5, ShakenIs
  <2>6a. f.ok
    BY <2>5, <2>5a, ShakenIs
  <2> HIDE DEF f
  <2>7. g \in Seq(Wires) /\ g # <<>> /\ Head(g) = C2 /\ Tail(g) = <<>>
    BY GreetingsAre
  <2> HIDE DEF g
  <2>8. /\ Connected(z) /\ z.reader = f.reader /\ z.publishing = f.publishing /\ z.hs = f.hs
        /\ z.out = g
    BY <2>6, <2>7, SayingIs
  <2>8a. z.ok
    BY <2>6, <2>6a, <2>7, SayingIs
  <2> HIDE DEF z
  <2>9. z.reader = Idle(e, 1) /\ z.reader.buf = e /\ z.reader.size = 1
        /\ z.reader = Idle(z.reader.buf, z.reader.size)
    BY <2>4, <2>5, <2>6, <2>8, IdleSized
  <2>10. Awaits(z, rest, Q)
    <3>1. Carries(z.reader, rest, Q)
      BY <2>3, <2>9 DEF Carries
    <3>2. SizesOK(Q, 1)
      BY <1>2, FirstClient DEF Waits
    <3>3. QED
      BY <1>2, <2>9, <3>1, <3>2 DEF Awaits, Waits
  <2> DEFINE yes == client.hs = "S0S1S2"
  <2>10a. yes /\ yes \in BOOLEAN
    BY <1>3a
  <2> HIDE DEF yes
  <2>11. Says(yes, z.out, <<>>)
    <3>1. <<>> \in Seq(Requests)
      OBVIOUS
    <3>2. z.out # <<>> /\ Head(z.out) = C2 /\ Tail(z.out) = Packets(<<>>)
      BY <2>7, <2>8, ChunksNone
    <3>3. QED
      BY <2>10a, <3>1, <3>2 DEF Says
  <2>12. ~ z.publishing
    BY <1>3a, <1>6, <2>5, <2>6, <2>8
  <2>14. Listening(z, z, yes, rest)
    BY <2>8, <2>8a, <2>10, <2>11, <2>12 DEF Listening
  <2>15. Listening(w, z, yes, rest)
    BY <2>14, ClientChunkListens
  <2> HIDE DEF w
  <2>16. /\ Connected(w) /\ w.hs = z.hs
         /\ w.publishing => svr.publishing
         /\ \E Q2 : Awaits(w, rest, Q2)
    BY <2>15 DEF Listening
  <2>16a. w.ok \/ svr.taken
    BY <2>15 DEF Listening
  <2>17. PICK L : Says(yes, w.out, L)
    BY <2>15 DEF Listening
  <2>18. /\ Connected(y) /\ y.hs = w.hs /\ y.size = 2 /\ y.reader = w.reader
         /\ y.publishing = w.publishing /\ y.ok = w.ok
         /\ \E K : Says(yes, y.out, K)
    BY <2>16, <2>17, AskingIs
  <2> HIDE DEF y
  <2>19. ClientOnRead(x) = y
    BY <1>3a, <1>6, <1>8, <2>1, OnceIs DEF y, w
  <2>20. \E Q2 : Awaits(y, rest, Q2)
    BY <2>16, <2>18 DEF Awaits
  <2>22. \E K : Says(client.hs = "S0S1S2", y.out, K)
    BY <2>18 DEF yes
  <2>23. Told(y, rest)
    <3>1. y.ok \/ svr.taken
      BY <2>16a, <2>18
    <3>2. y.hs = "COMPLETE" /\ (y.publishing => svr.publishing)
      BY <2>6, <2>8, <2>15, <2>16, <2>18 DEF Listening
    <3>3. QED
      BY <1>3a, <2>18, <2>20, <2>22, <3>1, <3>2 DEF Told
  <2>24. QED
    BY <1>5, <2>19, <2>23
<1>9. QED
  BY <1>7, <1>8

----------------------------------------------------------------------------
\* A server's connection on which the chunk size is told first: before anything is handled
\* it is the first of the messages P on their way, and after that the reader has it.
Announced(x, P) ==
    /\ x.delivered # <<>> => x.reader.size = 2
    /\ x.delivered = <<>> /\ P # <<>> => Head(P) = SetChunkSize

\* A reader that does not know the size yet has no message in parts.
Aligned(r) == r.size = 1 => \A c \in Csids : r.message[c].got = <<>>

\* It is what tells a reader in step from one that is not.
LEMMA AlignedIs ==
    /\ \A e, size : Aligned(Idle(e, size))
    /\ \A r, rest : \A P \in Seq(Messages) : Carries(r, rest, P) => Aligned(r)
    /\ \A r, rest : Doomed(r, rest) => ~ Aligned(r)
<1>1. \A e, size : Aligned(Idle(e, size))
  BY DEF Aligned, Idle, NoSlots, NoMessage
<1>2. ASSUME NEW r, NEW rest, NEW P \in Seq(Messages), Carries(r, rest, P) PROVE Aligned(r)
  <2>1. CASE r = Idle(r.buf, r.size)
    BY <1>1, <2>1
  <2>2. CASE P # <<>> /\ Within(r, rest, P)
    <3> DEFINE m == Head(P)
    <3>1. PICK w : Partial(r, m, w)
      BY <2>2 DEF Within
    <3>2. r.size = 2 \/ r = InChunk(r.buf, r.size, m, <<>>, "body")
      BY <3>1 DEF Partial
    <3> HIDE DEF m
    <3>3. \A c \in Csids : Slots(m, <<>>)[c].got = <<>>
      BY DEF Slots, NoMessage
    <3>4. \A b, size : InChunk(b, size, m, <<>>, "body").message = Slots(m, <<>>)
      BY DEF InChunk
    <3>5. CASE r.size = 2
      BY <3>5 DEF Aligned
    <3>6. CASE r = InChunk(r.buf, r.size, m, <<>>, "body")
      <4>1. r.message = Slots(m, <<>>)
        BY <3>4, <3>6
      <4>2. QED
        BY <3>3, <4>1 DEF Aligned
    <3>7. QED
      BY <3>2, <3>5, <3>6
  <2>3. QED
    BY <1>2, <2>1, <2>2 DEF Carries
<1>3. ASSUME NEW r, NEW rest, Doomed(r, rest) PROVE ~ Aligned(r)
  <2>1. PICK m \in Messages : r = InChunk(r.buf, 1, m, <<Piece(m, 1)>>, "header")
    BY <1>3 DEF Doomed
  <2>2. m.csid \in Csids
    BY MessageFacts
  <2> DEFINE p == Piece(m, 1)
  <2>3. <<p>> # <<>>
    OBVIOUS
  <2> HIDE DEF p
  <2>4. Slots(m, <<p>>)[m.csid].got = <<p>>
    BY <2>2 DEF Slots
  <2>5. \A b : /\ InChunk(b, 1, m, <<p>>, "header").message = Slots(m, <<p>>)
               /\ InChunk(b, 1, m, <<p>>, "header").size = 1
    BY DEF InChunk
  <2>6. r.message = Slots(m, <<p>>) /\ r.size = 1
    BY <2>1, <2>5 DEF p
  <2>7. QED
    BY <2>2, <2>3, <2>4, <2>6 DEF Aligned
<1>4. QED
  BY <1>1, <1>2, <1>3

\* The first of a sequence goes to the end of the one before it.
LEMMA SeqShift ==
    ASSUME NEW U, NEW D \in Seq(U), NEW P \in Seq(U), P # <<>>
    PROVE  /\ Head(P) \in U /\ Tail(P) \in Seq(U) /\ Append(D, Head(P)) \in Seq(U)
           /\ Append(D, Head(P)) \o Tail(P) = D \o P
<1> DEFINE m == Head(P)
           t == Tail(P)
<1>1. m \in U /\ t \in Seq(U) /\ <<m>> \o t = P
  OBVIOUS
<1> HIDE DEF m, t
<1>2. Append(D, m) = D \o <<m>> /\ <<m>> \in Seq(U) /\ Append(D, m) \in Seq(U)
  BY <1>1, AppendIsConcat
<1>3. (D \o <<m>>) \o t = D \o (<<m>> \o t)
  BY <1>1, <1>2, Associates
<1>4. QED
  BY <1>1, <1>2, <1>3 DEF m, t

----------------------------------------------------------------------------
\* What holds of a server's connection x in the loop of HandleChunk that began when base had
\* been delivered and the messages all were still to come.
Passing(x, way, base, all) ==
    /\ Connected(x) /\ x.hs = "COMPLETE"
    /\ \E Q : Hears(x.out, x.taken, x.publishing, Q)
    /\ \E D, P \in Seq(FromClient) :
         /\ x.delivered = base \o D /\ all = D \o P
         /\ x.reader.size \in {1, 2} /\ Carries(x.reader, way, P) /\ Announced(x, P)

\* A message is made and handled: it is the first of those on their way.
LEMMA PassingMakes ==
    ASSUME NEW x, NEW way, NEW base \in Seq(Messages \union {Garbled}), NEW all,
           Connected(x), x.hs = "COMPLETE", x.ok, s2c \in Streams,
           NEW Q, Hears(x.out, x.taken, x.publishing, Q),
           NEW D \in Seq(FromClient), NEW P \in Seq(FromClient), P # <<>>,
           x.delivered = base \o D, all = D \o P, Announced(x, P),
           NEW e, Joined(e, way, Chunks(Tail(P))), x.reader.size \in {1, 2},
           NEW y, y = ServerHandles(With(x, Idle(e, x.reader.size)), Head(P))
    PROVE  Passing(y, way, base, all)
<1> DEFINE m == Head(P)
           T == Tail(P)
           E == Append(D, m)
           size == x.reader.size
           r == Idle(e, size)
           d == With(x, r)
<1>1. /\ m \in FromClient /\ T \in Seq(FromClient) /\ E \in Seq(FromClient)
      /\ all = E \o T
  BY SeqShift
<1>2. m \in Messages /\ m \in Messages \union {Garbled}
  BY <1>1, Apart
<1>3. x.delivered = <<>> => m = SetChunkSize
  BY DEF Announced
<1>4. x.delivered # <<>> => size = 2
  BY DEF Announced
<1>5. size \in {1, 2}
  OBVIOUS
<1> HIDE DEF m, T, E, size
<1>6. /\ Connected(d) /\ d.reader = r /\ d.hs = x.hs /\ d.publishing = x.publishing
      /\ d.out = x.out /\ d.taken = x.taken /\ d.delivered = x.delivered
  <2> HIDE DEF r
  <2>1. QED
    BY WithIs, Zenon
<1>6a. d.ok = x.ok
  <2> HIDE DEF r
  <2>1. QED
    BY WithIs, Zenon
<1> HIDE DEF d, r
<1>7. Hears(d.out, d.taken, d.publishing, Q)
  BY <1>6
<1>7a. d.ok
  BY <1>6a
<1> DEFINE z == ServerHandles(d, m)
<1>8. /\ Connected(z) /\ z.hs = d.hs
      /\ z.delivered = Append(d.delivered, m)
      /\ z.reader = IF m = SetChunkSize THEN [d.reader EXCEPT !.size = 2] ELSE d.reader
      /\ \E R : Hears(z.out, z.taken, z.publishing, R)
  BY ZenonT(60), <1>2, <1>6, <1>6a, <1>7, <1>7a, ServerHandlesIs
<1>9. y = z
  BY DEF d, r, m, size
<1> HIDE DEF z
<1>10. y.delivered = base \o E /\ y.delivered # <<>>
  <2>1. y.delivered = Append(x.delivered, m)
    BY <1>6, <1>8, <1>9
  <2>2. D \in Seq(Messages \union {Garbled})
    <3>1. \A k \in FromClient : k \in Messages \union {Garbled}
      BY Apart
    <3>2. QED
      BY <3>1, SeqWider
  <2>3. Append(base \o D, m) = base \o Append(D, m)
    <3> DEFINE U == Messages \union {Garbled}
    <3>1. base \in Seq(U) /\ D \in Seq(U) /\ m \in U
      BY <1>2, <2>2
    <3> HIDE DEF U
    <3>2. QED
      BY <3>1
  <2>4. x.delivered \in Seq(Messages \union {Garbled})
    BY DEF Connected
  <2>5. Append(x.delivered, m) # <<>>
    BY <1>2, <2>4, AppendProperties
  <2>6. QED
    BY <2>1, <2>3, <2>5 DEF E
<1>11. y.reader = Idle(y.reader.buf, y.reader.size) /\ y.reader.buf = e /\ y.reader.size = 2
  <2>1. CASE m = SetChunkSize
    <3>1. y.reader = Idle(e, 2)
      BY <1>6, <1>8, <1>9, <2>1, IdleSized DEF r
    <3>2. QED
      BY <3>1, IdleSized
  <2>2. CASE m # SetChunkSize
    <3>1. y.reader = Idle(e, 2)
      BY <1>3, <1>4, <1>6, <1>8, <1>9, <2>2 DEF r
    <3>2. QED
      BY <3>1, IdleSized
  <2>3. QED
    BY <2>1, <2>2
<1>12. Carries(y.reader, way, T)
  BY <1>11, Zenon DEF Carries, T
<1>13. Announced(y, T)
  BY <1>10, <1>11 DEF Announced
<1>14. \E A, B \in Seq(FromClient) :
         /\ y.delivered = base \o A /\ all = A \o B
         /\ y.reader.size \in {1, 2} /\ Carries(y.reader, way, B) /\ Announced(y, B)
  BY <1>1, <1>10, <1>11, <1>12, <1>13
<1>15. Connected(y) /\ y.hs = "COMPLETE" /\ \E R : Hears(y.out, y.taken, y.publishing, R)
  BY <1>6, <1>8, <1>9
<1>16. QED
  BY <1>14, <1>15, Zenon DEF Passing

\* One turn of the loop.
LEMMA PassingTurns ==
    ASSUME NEW x, NEW way, NEW base \in Seq(Messages \union {Garbled}), NEW all,
           Passing(x, way, base, all), s2c \in Streams
    PROVE  Passing(ServerTurn(x), way, base, all)
<1> DEFINE q == Parse(x.reader)
           y == ServerTurn(x)
<1>1. PICK D \in Seq(FromClient), P \in Seq(FromClient) :
        /\ x.delivered = base \o D /\ all = D \o P
        /\ x.reader.size \in {1, 2} /\ Carries(x.reader, way, P) /\ Announced(x, P)
  BY DEF Passing
<1>2. Connected(x) /\ x.hs = "COMPLETE" /\ \E Q : Hears(x.out, x.taken, x.publishing, Q)
  BY DEF Passing
<1>3. CASE ~ x.ok
  <2>1. y = x
    BY <1>3 DEF ServerTurn
  <2> HIDE DEF y
  <2>2. QED
    BY <2>1, Zenon DEF y
<1>4. CASE x.ok
  <2>1. P \in Seq(Messages)
    <3>1. \A m \in FromClient : m \in Messages
      BY Apart
    <3>2. QED
      BY <3>1, SeqWider
  <2> DEFINE size == x.reader.size
  <2>2. Outcome(q, way, P, size)
    BY <1>1, <2>1, ParseCarries
  <2>3. size \in {1, 2}
    BY <1>1
  <2>4. CASE q.size = size /\ q.out = None /\ Carries(q, way, P)
    <3>1. y = With(x, q)
      BY <1>2, <1>4, <2>4, TurnIs
    <3>2. q.size = x.reader.size
      BY <2>4
    <3> HIDE DEF y, q
    <3>3. /\ Connected(y) /\ y.reader = q /\ y.hs = x.hs /\ y.publishing = x.publishing
          /\ y.out = x.out /\ y.taken = x.taken /\ y.delivered = x.delivered
      BY <1>2, <3>1, WithIs
    <3>4. Announced(y, P)
      BY <1>1, <3>2, <3>3 DEF Announced
    <3>5. y.reader.size \in {1, 2} /\ Carries(y.reader, way, P) /\ y.delivered = base \o D
      BY <1>1, <2>4, <3>2, <3>3
    <3>6. \E A, B \in Seq(FromClient) :
            /\ y.delivered = base \o A /\ all = A \o B
            /\ y.reader.size \in {1, 2} /\ Carries(y.reader, way, B) /\ Announced(y, B)
      BY <1>1, <3>4, <3>5
    <3>7. y.hs = "COMPLETE" /\ \E Q : Hears(y.out, y.taken, y.publishing, Q)
      BY <1>2, <3>3
    <3>8. Passing(y, way, base, all)
      BY <3>3, <3>6, <3>7, Zenon DEF Passing
    <3>9. QED
      BY <3>8 DEF y
  <2>5. CASE P # <<>> /\ \E e : Joined(e, way, Chunks(Tail(P))) /\ q = Made(e, size, Head(P))
    <3>1. PICK e : Joined(e, way, Chunks(Tail(P))) /\ q = Made(e, size, Head(P))
      BY <2>5
    <3> DEFINE r == Idle(e, size)
               m == Head(P)
    <3>2. m \in Messages /\ m # None
      <4>1. m \in Messages
        BY <2>1, <2>5, RangeLess
      <4>2. QED
        BY <4>1, MessageFacts
    <3>3. Reading(r)
      BY ReadingThese
    <3>4. Parse(x.reader) = [r EXCEPT !.out = m]
      BY <3>1, Zenon DEF Made
    <3> HIDE DEF r, m, size
    <3>5. y = ServerHandles(With(x, r), m)
      BY <1>2, <1>4, <3>2, <3>3, <3>4, TurnIs
    <3>6. PICK Q : Hears(x.out, x.taken, x.publishing, Q)
      BY <1>2
    <3> HIDE DEF y
    <3>7. y = ServerHandles(With(x, Idle(e, x.reader.size)), Head(P))
      BY <3>5 DEF r, m, size
    <3>8. x.reader.size \in {1, 2}
      BY <1>1
    <3>9. Passing(y, way, base, all)
      BY <1>1, <1>2, <1>4, <2>5, <3>1, <3>6, <3>7, <3>8, PassingMakes
    <3>10. QED
      BY <3>9 DEF y
  <2>6. CASE size = 1 /\ P # <<>> /\ Head(P).lenght > 1 /\ Doomed(q, way)
    <3>1. x.delivered = <<>>
      BY <1>1, <2>6 DEF Announced
    <3>2. Head(P) = SetChunkSize
      BY <1>1, <2>6, <3>1 DEF Announced
    <3>3. SetChunkSize.lenght = 1
      BY DEF SetChunkSize, Message
    <3>4. QED
      BY <2>6, <3>2, <3>3
  <2>7. QED
    BY <2>2, <2>4, <2>5, <2>6 DEF Outcome
<1>5. QED
  BY <1>3, <1>4

\* The loop of the server's HandleChunk.
LEMMA PassingChunk ==
    ASSUME NEW x, NEW way, NEW base \in Seq(Messages \union {Garbled}), NEW all,
           Passing(x, way, base, all), s2c \in Streams
    PROVE  Passing(ServerHandleChunk(x), way, base, all)
<1> DEFINE n == Len(x.reader.buf)
<1>0. x.reader.buf \in Streams
  BY CarriesStreams DEF Passing
<1>1. n \in Nat /\ DOMAIN x.reader.buf = 1 .. n
  BY <1>0 DEF Streams
<1> HIDE DEF n
<1>2. PICK g : /\ g[0] = x /\ g[n] = ServerHandleChunk(x)
               /\ \A k \in 1 .. n : g[k] = ServerTurn(g[k - 1])
  BY <1>1, ServerChunkRuns
<1> DEFINE T == {k \in 0 .. n : Passing(g[k], way, base, all)}
<1>3. 0 \in T
  BY <1>1, <1>2
<1>4. ASSUME NEW k \in 1 .. n, k - 1 \in T PROVE k \in T
  <2>1. Passing(g[k - 1], way, base, all)
    BY <1>4
  <2>2. Passing(ServerTurn(g[k - 1]), way, base, all)
    BY <2>1, PassingTurns
  <2>3. Passing(g[k], way, base, all)
    BY <1>2, <2>2
  <2>4. QED
    BY <1>1, <2>3
<1> HIDE DEF T
<1>5. \A k \in 0 .. n : k \in T
  BY <1>1, <1>3, <1>4, Steps
<1>6. n \in T
  BY <1>1, <1>5
<1>7. QED
  BY <1>2, <1>6 DEF T

\* What a read leaves of the messages all: those delivered after base, and those whose last
\* piece the server has not used.
Passed(y, rest, base, all) ==
    /\ y.reader.buf \in Streams /\ Aligned(y.reader)
    /\ \E D, R \in Seq(FromClient) :
         /\ y.delivered = base \o D /\ all = D \o R
         /\ Ended(y.reader.buf \o rest) = R /\ Announced(y, R)

LEMMA PassingPassed ==
    ASSUME NEW y, NEW rest, NEW base, NEW all, Passing(y, rest, base, all)
    PROVE  Passed(y, rest, base, all)
<1>1. PICK D \in Seq(FromClient), P \in Seq(FromClient) :
        /\ y.delivered = base \o D /\ all = D \o P
        /\ Carries(y.reader, rest, P) /\ Announced(y, P)
  BY DEF Passing
<1>2. P \in Seq(Messages)
  <2>1. \A m \in FromClient : m \in Messages
    BY Apart
  <2>2. QED
    BY <2>1, SeqWider
<1>3. Aligned(y.reader) /\ y.reader.buf \in Streams
  BY <1>1, <1>2, AlignedIs, CarriesStreams
<1>4. Ended(y.reader.buf \o rest) = P
  BY <1>1, <1>2, EndedCarries
<1>5. QED
  BY <1>1, <1>3, <1>4 DEF Passed

----------------------------------------------------------------------------
\* The messages P are on their way to the server's connection x, whole but for what its
\* reader has of the first of them; before them what the handshake still needs.
Whole(x, way, P) ==
    /\ P \in Seq(FromClient)
    /\ \/ /\ x.hs = "C0C1" /\ x.reader = Idle(x.reader.buf, 1) /\ P = <<>>
          /\ \E s \in {<<>>, C0C1} : Joined(x.reader.buf, way, s)
       \/ /\ x.hs = "C2" /\ x.reader = Idle(x.reader.buf, 1)
          /\ P = <<>> /\ Joined(x.reader.buf, way, <<>>)
       \/ /\ x.hs = "C2" /\ x.reader = Idle(x.reader.buf, 1)
          /\ Joined(x.reader.buf, way, C2 \o Chunks(P))
       \/ x.hs = "COMPLETE" /\ x.reader.size \in {1, 2} /\ Carries(x.reader, way, P)

\* The packets of the handshake end no message.
LEMMA EndedGreeting == Ended(C0C1) = <<>> /\ Ended(C2) = <<>>
<1>1. \A i \in 1 .. Len(C0C1) : ~ Ends(C0C1[i])
  <2>1. Len(C0C1) = 2 /\ \A i \in 1 .. 2 : C0C1[i] = [unit |-> "C0C1", no |-> i]
    BY GreetingsAre DEF C0C1, Greeting
  <2>2. \A i : ~ Ends([unit |-> "C0C1", no |-> i])
    BY EndsIs
  <2>3. QED
    BY <2>1, <2>2
<1>2. \A i \in 1 .. Len(C2) : ~ Ends(C2[i])
  <2>1. Len(C2) = 1 /\ \A i \in 1 .. 1 : C2[i] = [unit |-> "C2", no |-> i]
    BY GreetingsAre DEF C2, Greeting
  <2>2. \A i : ~ Ends([unit |-> "C2", no |-> i])
    BY EndsIs
  <2>3. QED
    BY <2>1, <2>2
<1>3. C0C1 \in Streams /\ C2 \in Streams
  BY GreetingsAre, WiresAre
<1> DEFINE a == C0C1
           b == C2
<1> HIDE DEF a, b
<1>4. Ended(a) = <<>>
  <2>1. a \in Streams /\ \A i \in 1 .. Len(a) : ~ Ends(a[i])
    BY <1>1, <1>3 DEF a
  <2>2. QED
    BY <2>1, EndedNothing
<1>5. Ended(b) = <<>>
  <2>1. b \in Streams /\ \A i \in 1 .. Len(b) : ~ Ends(b[i])
    BY <1>2, <1>3 DEF b
  <2>2. QED
    BY <2>1, EndedNothing
<1>6. QED
  BY <1>4, <1>5 DEF a, b

\* Their last pieces are there.
LEMMA WholeEnded ==
    ASSUME NEW x, NEW way, NEW P, Whole(x, way, P)
    PROVE  /\ x.reader.buf \in Streams /\ way \in Streams
           /\ Ended(x.reader.buf \o way) = P
<1>1. P \in Seq(FromClient) /\ P \in Seq(Messages)
  <2>1. \A m \in FromClient : m \in Messages
    BY Apart
  <2>2. P \in Seq(FromClient)
    BY DEF Whole
  <2>3. QED
    BY <2>1, <2>2, SeqWider
<1>2. /\ Ended(C0C1) = <<>> /\ Ended(C2) = <<>> /\ Ended(<<>>) = <<>>
      /\ C2 \in Streams
  BY EndedGreeting, EndedNone, GreetingsAre, WiresAre
<1>3. CASE P = <<>> /\ \E s \in {<<>>, C0C1} : Joined(x.reader.buf, way, s)
  BY <1>2, <1>3 DEF Joined
<1>4. CASE Joined(x.reader.buf, way, C2 \o Chunks(P))
  <2> DEFINE g == C2
             c == Chunks(P)
  <2>1. g \in Streams /\ c \in Streams /\ Ended(g) = <<>> /\ Ended(c) = P
    BY <1>1, <1>2, EndedChunks
  <2>2. Joined(x.reader.buf, way, g \o c)
    BY <1>4
  <2> HIDE DEF g, c
  <2>3. Ended(g \o c) = <<>> \o P
    BY <2>1, EndedJoins
  <2>4. <<>> \o P = P
    BY <1>1
  <2>5. QED
    BY <2>2, <2>3, <2>4 DEF Joined
<1>5. CASE Carries(x.reader, way, P)
  <2>1. x.reader.buf \in Streams /\ way \in Streams
    BY <1>5, Zenon DEF Carries, Within, Joined
  <2>2. QED
    BY <1>1, <1>5, <2>1, EndedCarries
<1>6. QED
  BY <1>3, <1>4, <1>5 DEF Whole

\* What arrives goes to the reader.
LEMMA WholeFed ==
    ASSUME NEW sv, NEW x, NEW b, NEW way, NEW rest, NEW P, Whole(sv, way, P), Announced(sv, P),
           Aligned(sv.reader), x.hs = sv.hs, x.delivered = sv.delivered,
           x.reader = Fed(sv.reader, b),
           \A Q \in Seq(Messages) : Carries(sv.reader, way, Q) =>
             Carries(x.reader, rest, Q) /\ x.reader.size = sv.reader.size,
           \A s : Joined(sv.reader.buf, way, s) => Joined(b, rest, s)
    PROVE  Whole(x, rest, P) /\ Announced(x, P)
<1>1. P \in Seq(FromClient) /\ P \in Seq(Messages)
  <2>1. \A m \in FromClient : m \in Messages
    BY Apart
  <2>2. P \in Seq(FromClient)
    BY DEF Whole
  <2>3. QED
    BY <2>1, <2>2, SeqWider
<1>2. CASE sv.hs = "COMPLETE" /\ sv.reader.size \in {1, 2} /\ Carries(sv.reader, way, P)
  <2>1. Carries(x.reader, rest, P) /\ x.reader.size = sv.reader.size
    BY <1>1, <1>2
  <2>2. Whole(x, rest, P)
    BY <1>1, <1>2, <2>1 DEF Whole
  <2>3. QED
    BY <2>1, <2>2 DEF Announced
<1>3. CASE sv.reader = Idle(sv.reader.buf, 1) /\ sv.hs # "COMPLETE"
  <2>1. Fed(sv.reader, b) = Idle(b, 1)
    <3>1. \A size : sv.reader = Idle(sv.reader.buf, size) => Fed(sv.reader, b) = Idle(b, size)
      BY FedIs
    <3>2. QED
      BY <1>3, <3>1, Zenon
  <2>2. x.reader = Idle(x.reader.buf, 1) /\ x.reader.buf = b /\ x.reader.size = 1
    BY <2>1, IdleSized
  <2>3. sv.reader.size = 1
    BY <1>3, IdleSized
  <2>4. Announced(x, P)
    BY <2>2, <2>3 DEF Announced
  <2>5. Whole(x, rest, P)
    BY <1>3, <2>2 DEF Whole
  <2>6. QED
    BY <2>4, <2>5
<1>4. QED
  BY <1>2, <1>3 DEF Whole

\* A read that is not enough for the handshake to go on, or that ends its first part.
LEMMA WaitingPassed ==
    ASSUME NEW x, NEW y, NEW rest, NEW P, Whole(x, rest, P), Announced(x, P), Connected(x),
           x.hs # "COMPLETE", y.delivered = x.delivered,
           y.reader = x.reader \/ (y.reader = Idle(<<>>, 1) /\ rest = <<>> /\ P = <<>>)
    PROVE  Passed(y, rest, x.delivered, P)
<1> DEFINE base == x.delivered
           none == <<>>
<1>1. P \in Seq(FromClient) /\ x.reader = Idle(x.reader.buf, 1)
  BY DEF Whole
<1>2. base \in Seq(Messages \union {Garbled}) /\ none \in Seq(FromClient)
  BY DEF Connected
<1>3. base \o none = base /\ none \o P = P
  BY <1>1, <1>2
<1>4. x.reader.size = 1
  BY <1>1, IdleSized
<1> HIDE DEF none
<1>5. Announced(y, P) /\ Aligned(y.reader) /\ y.reader.buf \in Streams
      /\ Ended(y.reader.buf \o rest) = P
  <2>1. CASE y.reader = x.reader
    <3>1. Announced(y, P)
      BY <2>1 DEF Announced
    <3>2. Aligned(y.reader)
      BY <1>1, <2>1, AlignedIs
    <3>3. y.reader.buf \in Streams /\ Ended(y.reader.buf \o rest) = P
      BY <2>1, WholeEnded
    <3>4. QED
      BY <3>1, <3>2, <3>3
  <2>2. CASE y.reader = Idle(<<>>, 1) /\ rest = <<>> /\ P = <<>>
    <3>1. y.reader.buf = <<>> /\ y.reader.size = 1
      BY <2>2, IdleSized
    <3>2. Announced(y, P)
      BY <1>4, <2>2, <3>1 DEF Announced
    <3>3. Aligned(y.reader)
      BY <2>2, AlignedIs
    <3>4. <<>> \in Streams /\ <<>> \o <<>> = <<>>
      BY StreamJoins
    <3>5. QED
      BY <2>2, <3>1, <3>2, <3>3, <3>4, EndedNone
  <2>3. QED
    BY <2>1, <2>2
<1>6. y.delivered = base \o none /\ P = none \o P
  BY <1>3
<1> HIDE DEF base
<1>7. Passed(y, rest, base, P)
  BY <1>1, <1>2, <1>5, <1>6 DEF Passed
<1>8. QED
  BY <1>7 DEF base

\* HandleChunk, when the handshake is complete.
LEMMA ChunkPassed ==
    ASSUME NEW y, NEW rest, NEW P \in Seq(FromClient), Connected(y), y.hs = "COMPLETE",
           NEW Q, Hears(y.out, y.taken, y.publishing, Q), s2c \in Streams,
           y.reader.size \in {1, 2}, Carries(y.reader, rest, P), Announced(y, P)
    PROVE  Passed(ServerHandleChunk(y), rest, y.delivered, P)
<1> DEFINE base == y.delivered
           none == <<>>
<1>1. base \in Seq(Messages \union {Garbled}) /\ none \in Seq(FromClient)
  BY DEF Connected
<1>2. y.delivered = base \o none /\ P = none \o P
  BY <1>1
<1> HIDE DEF base, none
<1>3. Passing(y, rest, base, P)
  BY <1>1, <1>2 DEF Passing
<1>4. Passing(ServerHandleChunk(y), rest, base, P)
  BY <1>1, <1>3, PassingChunk
<1>5. Passed(ServerHandleChunk(y), rest, base, P)
  BY <1>4, PassingPassed
<1>6. QED
  BY <1>5 DEF base

\* Of no more than rest, and after it n units, nothing is left.
LEMMA GreetingWhole ==
    ASSUME NEW b, NEW rest, Len(b) >= 2,
           \E s \in {<<>>, C0C1} : Joined(b, rest, s)
    PROVE  b \in Streams /\ Len(b) = 2 /\ rest = <<>>
<1>1. b \in Streams /\ rest \in Streams /\ b \o rest \in {<<>>, C0C1}
  BY DEF Joined
<1>2. Len(b \o rest) \in {0, 2}
  BY <1>1, StreamJoins, GreetingsAre
<1>3. Len(b) \in Nat /\ Len(rest) \in Nat /\ Len(b \o rest) = Len(b) + Len(rest)
  BY <1>1, StreamJoins
<1> DEFINE n == Len(b)
           k == Len(rest)
           a == Len(b \o rest)
<1>4. n \in Nat /\ k \in Nat /\ a = n + k /\ a \in {0, 2} /\ n >= 2
  BY <1>2, <1>3
<1> HIDE DEF n, k, a
<1>5. n = 2 /\ k = 0
  BY <1>4
<1>6. QED
  BY <1>1, <1>5, StreamNone DEF n, k

\* OnRead, while C0C1 is awaited, ...
LEMMA MeetingPassed ==
    ASSUME NEW x, NEW rest, NEW P, Whole(x, rest, P), Announced(x, P), Connected(x),
           x.hs = "C0C1"
    PROVE  Passed(ServerOnRead(x), rest, x.delivered, P)
<1>1. CASE ~ Arrived(x)
  <2>1. ServerOnRead(x) = x
    BY <1>1, OnceIs
  <2>2. QED
    BY <2>1, WaitingPassed
<1>2. CASE Arrived(x)
  <2> DEFINE b == x.reader.buf
             r == Used(x.reader, 2)
             d == With(x, r)
             f == Shaken(d, "C2")
             g == <<S0S1S2>>
             y == Saying(f, g)
  <2>1. Shakes(x) = y /\ Len(b) >= 2
    BY <1>2, ShakesIs
  <2>2. P = <<>> /\ x.reader = Idle(b, 1) /\ \E s \in {<<>>, C0C1} : Joined(b, rest, s)
    BY DEF Whole
  <2>3. b \in Streams /\ Len(b) = 2 /\ rest = <<>>
    BY <2>1, <2>2, GreetingWhole
  <2>4. r = Idle(<<>>, 1)
    <3>1. SubSeq(b, 2 + 1, Len(b)) = <<>>
      BY <2>3 DEF Streams
    <3>2. Used(Idle(b, 1), 2) = Idle(SubSeq(b, 2 + 1, Len(b)), 1)
      BY UsedIdle
    <3>3. QED
      BY <2>2, <3>1, <3>2
  <2> HIDE DEF r
  <2>5. Connected(d) /\ d.reader = r /\ d.delivered = x.delivered
    BY WithIs
  <2> HIDE DEF d
  <2>6. Connected(f) /\ f.reader = d.reader /\ f.hs = "C2" /\ f.delivered = d.delivered
    BY <2>5, ShakenIs
  <2> HIDE DEF f
  <2>7. g \in Seq(Wires)
    BY GreetingsAre
  <2> HIDE DEF g
  <2>8. Connected(y) /\ y.reader = f.reader /\ y.hs = f.hs /\ y.delivered = f.delivered
    BY <2>6, <2>7, SayingIs
  <2> HIDE DEF y
  <2>9. ServerOnRead(x) = y
    BY <1>2, <2>1, <2>6, <2>8, OnceIs DEF HandlesRest
  <2>10. y.reader = Idle(<<>>, 1) /\ y.delivered = x.delivered
    BY <2>4, <2>5, <2>6, <2>8
  <2>11. Passed(y, rest, x.delivered, P)
    BY <2>2, <2>3, <2>10, WaitingPassed
  <2>12. QED
    BY <2>9, <2>11
<1>3. QED
  BY <1>1, <1>2

\* ... while C2 is ...
LEMMA EnteringPassed ==
    ASSUME NEW x, NEW rest, NEW P, Whole(x, rest, P), Announced(x, P), Connected(x),
           x.hs = "C2", x.out = <<>>, s2c \in Streams, NEW Q, Hears(<<>>, x.taken, x.publishing, Q)
    PROVE  Passed(ServerOnRead(x), rest, x.delivered, P)
<1>1. CASE ~ Arrived(x)
  <2>1. ServerOnRead(x) = x
    BY <1>1, OnceIs
  <2>2. QED
    BY <2>1, WaitingPassed
<1>2. CASE Arrived(x)
  <2> DEFINE b == x.reader.buf
             r == Used(x.reader, 1)
             d == With(x, r)
             y == Shaken(d, "COMPLETE")
             e == SubSeq(b, 2, Len(b))
  <2>1. Shakes(x) = y /\ Len(b) >= 1
    BY <1>2, ShakesIs
  <2>2. P \in Seq(FromClient) /\ x.reader = Idle(b, 1)
    BY DEF Whole
  <2>3. ~ Joined(b, rest, <<>>)
    <3>1. ASSUME Joined(b, rest, <<>>) PROVE FALSE
      <4>1. b \in Streams /\ rest \in Streams /\ b \o rest = <<>>
        BY <3>1 DEF Joined
      <4>2. Len(b) \in Nat /\ Len(rest) \in Nat /\ Len(b \o rest) = Len(b) + Len(rest) /\ Len(<<>>) = 0
        BY <4>1, StreamJoins
      <4> DEFINE n == Len(b)
                 k == Len(rest)
      <4>3. n \in Nat /\ k \in Nat /\ 0 = n + k /\ n >= 1
        BY <2>1, <4>1, <4>2
      <4> HIDE DEF n, k
      <4>4. QED
        BY <4>3
    <3>2. QED
      BY <3>1
  <2>4. Joined(b, rest, C2 \o Chunks(P))
    BY <2>3 DEF Whole
  <2>5. P \in Seq(Messages)
    <3>1. \A m \in FromClient : m \in Messages
      BY Apart
    <3>2. QED
      BY <2>2, <3>1, SeqWider
  <2>6. Joined(e, rest, Chunks(P))
    <3>1. Chunks(P) \in Streams /\ C2 \in Streams /\ Len(C2) = 1
      BY <2>5, ChunksAre, GreetingsAre, WiresAre DEF Streams
    <3> DEFINE g == C2
               c == Chunks(P)
    <3>2. g \in Streams /\ c \in Streams /\ Len(g) = 1 /\ Joined(b, rest, g \o c)
      BY <2>4, <3>1
    <3> HIDE DEF g, c
    <3>3. Begins(Units, b, rest, g, c)
      BY <3>2 DEF Joined, Begins, Streams
    <3>4. /\ SubSeq(b, Len(g) + 1, Len(b)) \in Seq(Units)
          /\ SubSeq(b, Len(g) + 1, Len(b)) \o rest = c
      BY <2>1, <3>2, <3>3, Cut
    <3>5. Len(g) + 1 = 2
      BY <3>2
    <3>6. e \in Seq(Units) /\ e \o rest = c
      BY <3>4, <3>5
    <3>7. rest \in Streams
      BY <3>2 DEF Joined
    <3> HIDE DEF e
    <3>8. QED
      BY <3>6, <3>7 DEF Joined, Streams, c
  <2>7. r = Idle(e, 1)
    <3>1. Used(Idle(b, 1), 1) = Idle(SubSeq(b, 1 + 1, Len(b)), 1)
      BY UsedIdle
    <3>2. 1 + 1 = 2
      OBVIOUS
    <3>3. QED
      BY <2>2, <3>1, <3>2
  <2> HIDE DEF e, r
  <2>8. /\ Connected(d) /\ d.reader = r /\ d.publishing = x.publishing /\ d.out = x.out
        /\ d.taken = x.taken /\ d.delivered = x.delivered
    BY WithIs
  <2> HIDE DEF d
  <2>9. /\ Connected(y) /\ y.reader = d.reader /\ y.publishing = d.publishing
        /\ y.hs = "COMPLETE" /\ y.out = d.out
        /\ y.taken = d.taken /\ y.delivered = d.delivered
    BY <2>8, ShakenIs
  <2> HIDE DEF y
  <2>10. /\ y.reader = Idle(e, 1) /\ y.delivered = x.delivered /\ y.out = <<>>
         /\ y.publishing = x.publishing /\ y.taken = x.taken
    BY <2>7, <2>8, <2>9
  <2>11. y.reader = Idle(y.reader.buf, y.reader.size) /\ y.reader.buf = e /\ y.reader.size = 1
    BY <2>10, IdleSized
  <2>12. Carries(y.reader, rest, P)
    BY <2>6, <2>11, Zenon DEF Carries
  <2>13. Announced(y, P)
    <3>1. x.reader.size = 1
      BY <2>2, IdleSized
    <3>2. QED
      BY <2>10, <2>11, <3>1 DEF Announced
  <2>14. Hears(y.out, y.taken, y.publishing, Q)
    BY <2>10
  <2>15. y.reader.size \in {1, 2}
    BY <2>11
  <2>16. Passed(ServerHandleChunk(y), rest, y.delivered, P)
    BY <2>2, <2>9, <2>12, <2>13, <2>14, <2>15, ChunkPassed
  <2>17. ServerOnRead(x) = ServerHandleChunk(y)
    BY <1>2, <2>1, <2>9, OnceIs DEF HandlesRest
  <2>18. QED
    BY <2>10, <2>16, <2>17
<1>3. QED
  BY <1>1, <1>2

\* ... and in all: the server delivers the first of the messages on their way.
LEMMA ServerPasses ==
    ASSUME NEW sv, NEW got \in Streams, NEW rest \in Streams, NEW way, NEW lost, NEW P,
           Faithful(sv, lost), sv.ok, sv.out = <<>>, Grown(got, rest, way), s2c \in Streams,
           Whole(sv, way, P), Announced(sv, P), Aligned(sv.reader),
           sv.hs # "C0C1" => \E Q : Hears(<<>>, sv.taken, sv.publishing, Q)
    PROVE  Passed(ServerOnRead([sv EXCEPT !.reader.buf = @ \o got]), rest, sv.delivered, P)
<1> DEFINE b == sv.reader.buf \o got
           x == With(sv, Fed(sv.reader, b))
<1>1. /\ Connected(x) /\ x.reader = Fed(sv.reader, b) /\ x.hs = sv.hs
      /\ x.publishing = sv.publishing /\ x.out = <<>> /\ x.taken = sv.taken
      /\ x.delivered = sv.delivered
      /\ \A Q \in Seq(Messages) : Carries(sv.reader, way, Q) =>
           Carries(x.reader, rest, Q) /\ x.reader.size = sv.reader.size
      /\ \A s : Joined(sv.reader.buf, way, s) => Joined(b, rest, s)
  BY ServerFed
<1>2. [sv EXCEPT !.reader.buf = @ \o got] = x
  BY FedServer
<1> HIDE DEF x, b
<1>3. Whole(x, rest, P) /\ Announced(x, P)
  BY <1>1, WholeFed
<1>4. CASE sv.hs = "C0C1"
  <2>1. Passed(ServerOnRead(x), rest, x.delivered, P)
    BY <1>1, <1>3, <1>4, MeetingPassed
  <2>2. QED
    BY <1>1, <1>2, <2>1
<1>5. CASE sv.hs = "C2"
  <2>1. PICK Q : Hears(<<>>, x.taken, x.publishing, Q)
    BY <1>1, <1>5
  <2>2. Passed(ServerOnRead(x), rest, x.delivered, P)
    BY <1>1, <1>3, <1>5, <2>1, EnteringPassed
  <2>3. QED
    BY <1>1, <1>2, <2>2
<1>6. CASE sv.hs = "COMPLETE"
  <2>1. PICK Q : Hears(x.out, x.taken, x.publishing, Q)
    BY <1>1, <1>6
  <2>2. P \in Seq(FromClient) /\ x.reader.size \in {1, 2} /\ Carries(x.reader, rest, P)
    BY <1>1, <1>3, <1>6 DEF Whole
  <2>3. Passed(ServerHandleChunk(x), rest, x.delivered, P)
    BY <1>1, <1>3, <1>6, <2>1, <2>2, ChunkPassed
  <2>4. ServerOnRead(x) = ServerHandleChunk(x)
    BY <1>1, <1>6, OnceIs
  <2>5. QED
    BY <1>1, <1>2, <2>3, <2>4
<1>7. QED
  BY <1>4, <1>5, <1>6 DEF Faithful

\* While the reader is in step, what flows to the server is whole messages.
LEMMA FlowsWhole ==
    ASSUME NEW hs, NEW sv, NEW loop, NEW closed, NEW lost, NEW key, NEW way, NEW V,
           Flows(hs, sv, loop, closed, lost, key, way, V), Aligned(sv.reader)
    PROVE  \E L \in Seq(Requests), P \in Seq(FromClient) :
             Spoken(hs, sv, loop, closed, way, P, L) /\ Whole(sv, way, P)
<1>1. PICK L \in Seq(Requests) :
        \/ hs = "COMPLETE" /\ Broken(sv, loop, way, L)
        \/ \E P \in Seq(FromClient) : Spoken(hs, sv, loop, closed, way, P, L)
  BY DEF Flows
<1>2. ~ Broken(sv, loop, way, L)
  BY AlignedIs DEF Broken
<1>3. PICK P \in Seq(FromClient) : Spoken(hs, sv, loop, closed, way, P, L)
  BY <1>1, <1>2
<1>4. Whole(sv, way, P)
  <2>1. CASE Knocking(sv, loop, way) /\ P = <<>>
    BY <2>1 DEF Knocking, Whole
  <2>2. CASE Entering(sv, loop, closed, way, P, L)
    BY <2>2 DEF Entering, Whole
  <2>3. CASE Talking(sv, loop, way, P, L)
    BY <2>3 DEF Talking, Whole
  <2>4. QED
    BY <1>3, <2>1, <2>2, <2>3 DEF Spoken
<1>5. QED
  BY <1>3, <1>4

----------------------------------------------------------------------------
\* The answer to C0C1, and nothing else, before the client has sent a request.
LEMMA ServerGreets ==
    ASSUME NEW sv, NEW got, Connected(sv), sv.hs = "C0C1", sv.out = <<>>
    PROVE  ServerOnRead([sv EXCEPT !.reader.buf = @ \o got]).out \in {<<>>, <<S0S1S2>>}
<1> DEFINE x == With(sv, Fed(sv.reader, sv.reader.buf \o got))
           d == With(x, Used(x.reader, 2))
           f == Shaken(d, "C2")
           g == <<S0S1S2>>
           y == Saying(f, g)
<1>1. [sv EXCEPT !.reader.buf = @ \o got] = x
  BY FedServer
<1>2. Connected(x) /\ x.hs = "C0C1" /\ x.out = <<>>
  BY WithIs
<1> HIDE DEF x
<1>3. Shakes(x) = y
  BY <1>2, ShakesIs
<1>4. Connected(d)
  BY <1>2, WithIs
<1> HIDE DEF d
<1>5. Connected(f) /\ f.hs = "C2"
  BY <1>4, ShakenIs
<1>6. g \in Seq(Wires)
  BY GreetingsAre
<1> HIDE DEF f, g
<1>7. y.hs = "C2" /\ y.out = g
  BY <1>5, <1>6, SayingIs
<1> HIDE DEF y
<1>8. ServerOnRead(x) \in {x, y}
  BY <1>2, <1>3, <1>7, OnceIs DEF HandlesRest
<1>9. QED
  BY <1>1, <1>2, <1>7, <1>8 DEF g

\* What the client sends when it has all of the answer: the size of its chunks before
\* anything else.
Asked == <<C2, Packet(SetChunkSize), Packet(Connect)>>

LEMMA ClientAsks ==
    ASSUME client = NewConnection("S0S1S2", FALSE), Connected(client),
           inbox \in Streams, s2c \in Streams, inbox \o s2c \in {<<>>, S0S1S2},
           NEW got \in Streams, NEW rest \in Streams, Grown(got, rest, s2c)
    PROVE  LET x == [client EXCEPT !.reader.buf = inbox \o got] IN
           /\ (inbox \o got) \o rest = inbox \o s2c
           /\ ClientOnRead(x) = x \/ ClientOnRead(x).out = Asked
<1> DEFINE a == inbox \o got
           x == With(client, Fed(client.reader, a))
<1>1. a \in Streams /\ a \o rest = inbox \o s2c
  BY StreamJoins, StreamAssociates DEF Grown
<1>2. [client EXCEPT !.reader.buf = inbox \o got] = x
  BY FedClient
<1> HIDE DEF a
<1>3. client.hs = "S0S1S2"
  BY DEF NewConnection
<1>4. Fed(client.reader, a) = Idle(a, 1)
  <2>1. Fed(Idle(<<>>, 1), a) = Idle(a, 1)
    BY DEF Fed, Idle
  <2>2. QED
    BY <2>1, FirstClient
<1>5. Connected(x) /\ x.reader = Idle(a, 1) /\ x.hs = client.hs
  <2> DEFINE c == client
             r == Fed(client.reader, a)
             d == With(c, r)
  <2>1. Connected(c)
    OBVIOUS
  <2> HIDE DEF c, r
  <2>2. Connected(d) /\ d.reader = r /\ d.hs = c.hs
    BY <2>1, WithIs
  <2> HIDE DEF d
  <2>3. d = x
    BY DEF c, r, d
  <2> HIDE DEF x
  <2>4. QED
    BY <1>4, <2>2, <2>3 DEF c, r
<1> HIDE DEF x
<1>6. CASE ~ Arrived(x)
  <2>1. ClientOnRead(x) = x
    BY <1>3, <1>5, <1>6, OnceIs
  <2>2. QED
    BY <1>1, <1>2, <2>1 DEF a
<1>7. CASE Arrived(x)
  <2> DEFINE r == Used(x.reader, 2)
             d == With(x, r)
             f == Shaken(d, "COMPLETE")
             g == <<C2>>
             z == Saying(f, g)
  <2>0. x.reader.buf = a
    BY <1>5, IdleSized
  <2>1. Shakes(x) = z /\ Len(a) >= 2
    BY <1>3, <1>5, <1>7, <2>0, ShakesIs DEF Arrived, Awaited
  <2>2. Len(a) = 2
    <3>1. Len(a \o rest) \in {0, 2}
      BY <1>1, GreetingsAre, StreamJoins
    <3>2. Len(a \o rest) = Len(a) + Len(rest) /\ Len(a) \in Nat /\ Len(rest) \in Nat
      BY <1>1, StreamJoins
    <3> DEFINE n == Len(a)
               k == Len(rest)
               l == Len(a \o rest)
    <3>3. l \in {0, 2} /\ l = n + k /\ n \in Nat /\ k \in Nat /\ n >= 2
      BY <2>1, <3>1, <3>2
    <3> HIDE DEF n, k, l
    <3>4. n = 2
      BY <3>3
    <3>5. QED
      BY <3>4 DEF n
  <2>3. r = Idle(<<>>, 1)
    <3>1. SubSeq(a, 2 + 1, Len(a)) = <<>>
      BY <1>1, <2>2 DEF Streams
    <3>2. Used(Idle(a, 1), 2) = Idle(SubSeq(a, 2 + 1, Len(a)), 1)
      BY UsedIdle
    <3>3. QED
      BY <1>5, <3>1, <3>2
  <2> HIDE DEF r
  <2>4. Connected(d) /\ d.reader = r
    BY <1>5, WithIs
  <2> HIDE DEF d
  <2>5. Connected(f) /\ f.reader = d.reader /\ f.hs = "COMPLETE"
    BY <2>4, ShakenIs
  <2> HIDE DEF f
  <2>6. g \in Seq(Wires) /\ g # <<>> /\ Head(g) = C2 /\ Tail(g) = <<>>
    BY GreetingsAre
  <2> HIDE DEF g
  <2>7. Connected(z) /\ z.reader = f.reader /\ z.out = g
    BY <2>5, <2>6, SayingIs
  <2> HIDE DEF z
  <2>8. z.reader.buf = <<>>
    BY <2>3, <2>4, <2>5, <2>7, IdleSized
  <2>9. ClientHandleChunk(z) = z
    <3> DEFINE n == 0
    <3>1. n \in Nat /\ DOMAIN z.reader.buf = 1 .. n
      BY <2>8
    <3> HIDE DEF n
    <3>2. PICK h : h[0] = z /\ h[n] = ClientHandleChunk(z)
      BY <3>1, ClientChunkRuns
    <3>3. QED
      BY <3>2 DEF n
  <2>10. ClientOnRead(x) = Asking(z)
    BY <1>3, <1>5, <1>7, <2>1, <2>9, OnceIs
  <2> DEFINE yes == TRUE
  <2>11. Says(yes, z.out, <<>>)
    <3>1. <<>> \in Seq(Requests)
      OBVIOUS
    <3>2. z.out # <<>> /\ Head(z.out) = C2 /\ Tail(z.out) = Packets(<<>>)
      BY <2>6, <2>7, ChunksNone
    <3>3. QED
      BY <3>1, <3>2 DEF Says
  <2> HIDE DEF yes
  <2>12. Asking(z).out = Append(Append(z.out, Packet(SetChunkSize)), Packet(Connect))
    BY <2>7, <2>11, AskingIs
  <2>13. Asking(z).out = Asked
    <3> DEFINE c == C2
               p == Packet(SetChunkSize)
               q == Packet(Connect)
               S == {c, p, q}
    <3>1. Asking(z).out = Append(Append(<<c>>, p), q)
      BY <2>7, <2>12 DEF g
    <3> HIDE DEF c, p, q
    <3>2. Append(Append(<<c>>, p), q) = <<c, p, q>>
      <4>0. c \in S /\ p \in S /\ q \in S
        OBVIOUS
      <4> HIDE DEF S
      <4>1. Append(<<c>>, p) = <<c, p>>
        BY <4>0, FewTwo
      <4>2. Append(<<c, p>>, q) = <<c, p, q>>
        BY <4>0, FewThree
      <4>3. QED
        BY <4>1, <4>2
    <3>3. QED
      BY <3>1, <3>2 DEF Asked, c, p, q
  <2>14. QED
    BY <1>1, <1>2, <2>10, <2>13 DEF a
<1>8. QED
  BY <1>6, <1>7
============================================================================
