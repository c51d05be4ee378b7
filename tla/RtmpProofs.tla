------------------------------ MODULE RtmpProofs ------------------------------
(* Proofs about RtmpServer, for any publishers, players and streams, wherever *)
(* GetTaskSchduler puts them: its types; that what players are sent can be    *)
(* decoded, but for streams that two publishers asked for at once; and that a *)
(* client keeps the session of its stream, but for those that the cleaner     *)
(* robbed of it while they joined.                                            *)
EXTENDS RtmpServer, FiniteSetTheorems, TLAPS

----------------------------------------------------------------------------
(* What the threads, the connections and the rooms are.                       *)

\* c's handler has told its client to start, and has not added c to the session.
Joins(c) == /\ th[LoopOf[c]].pc \in {"told", "adding"}
            /\ th[LoopOf[c]].conn = c

Busy == {"asked", "accepted", "told", "adding", "sending", "notifying"}
Bound == {"adding", "sending", "notifying"}

\* What a thread's locals are while it is in a handler.
Serving(l) ==
    /\ th[l].pc \in {"idle", "cleaning"} => th[l].conn = None
    /\ th[l].pc \in {"idle", "cleaning", "accepted", "told"} => th[l].sess = None
    /\ th[l].pc \in Busy =>
         /\ th[l].conn # None /\ LoopOf[th[l].conn] = l
         /\ Connected(th[l].conn)
    /\ th[l].pc \in {"asked", "accepted"} =>
         th[l].conn \in Publishers /\ state[th[l].conn] = "HANDSHAKE"
    /\ th[l].pc \in {"told", "adding"} => state[th[l].conn] # "HANDSHAKE"
    /\ th[l].pc = "asked" => th[l].sess # None
    /\ th[l].pc \in Bound => th[l].sess = weak[th[l].conn] /\ th[l].sess # None
    /\ th[l].pc \in {"sending", "notifying"} =>
         /\ state[th[l].conn] = "START_PUBLISH" /\ th[l].kind \in Kinds
         /\ th[l].todo \subseteq room[th[l].sess].sinks \cap Players
    /\ th[l].pc = "cleaning" => l = 0 /\ th[l].todo \subseteq Paths
    /\ th[l].pc = "removing" =>
         /\ th[l].conn # None /\ conn[th[l].conn] = "closed"
         /\ th[l].sess = weak[th[l].conn] /\ th[l].sess # None

Roles ==
    \A c \in Conns :
        /\ state[c] = "START_PUBLISH" => c \in Publishers
        /\ state[c] = "START_PLAY" => c \in Players
        /\ conn[c] = "new" => state[c] = "HANDSHAKE"

\* A session's sinks are connections that have joined it and no other.
Seated ==
    \A s \in Sessions :
        /\ \A c \in room[s].sinks : weak[c] = s /\ state[c] # "HANDSHAKE" /\ ~ Joins(c)
        /\ room[s].publisher # None => state[room[s].publisher] = "START_PUBLISH"

\* A pending RemoveSink is for a connection that has been closed, and its session.
Departed == \A t \in Pending : conn[t.sink] = "closed" /\ weak[t.sink] = t.session

Filed == \A p \in Paths : sessions[p] # None => sessions[p] \in {p} \X Ids

Shape == TypeOK /\ (\A l \in Loops : Serving(l)) /\ Roles /\ Seated /\ Departed /\ Filed

----------------------------------------------------------------------------
(* What holds of the sessions.  A stream is contested once two loops have     *)
(* been in HandlePublish of it at once: of such a stream nothing is said      *)
(* about who is its publisher.                                                *)

Publishing(c) == Connected(c) /\ state[c] = "START_PUBLISH"

\* The loop's thread is in HandlePublish.
Handles(l) == th[l].pc \in {"asked", "accepted", "told", "adding"} /\ th[l].conn \in Publishers

Alone ==
    \A l, m \in Loops :
        /\ Handles(l) /\ Handles(m)
        /\ PathOf[th[l].conn] = PathOf[th[m].conn] /\ PathOf[th[l].conn] \notin contested
        => l = m

\* c has begun to publish in s, and something still keeps it alive: its socket, or
\* the RemoveSink that is to come.
Claims(c, s) == state[c] = "START_PUBLISH" /\ weak[c] = s /\ s # None /\ ConnAlive(c)

\* A session's publisher is the one that claims it, and the sequence header its own.
Owned ==
    \A c \in Publishers :
        Claims(c, weak[c]) /\ ~ Joins(c) /\ SessionAlive(weak[c]) /\ PathOf[c] \notin contested =>
            /\ room[weak[c]].publisher = c
            /\ Connected(c) => /\ c \in room[weak[c]].sinks
                               /\ stage[c] # "start" => room[weak[c]].header = c

\* Nobody but c claims s.
Free(c, s) == \A d \in Publishers \ {c} : ~ Claims(d, s)

\* Whoever is in HandlePublish will not find a publisher where it joins.
Admitted ==
    \A l \in Loops :
        LET c == th[l].conn IN
        Handles(l) /\ PathOf[c] \notin contested =>
            CASE th[l].pc = "asked" ->
                   sessions[PathOf[c]] = th[l].sess \/ Free(c, sessions[PathOf[c]])
              [] th[l].pc = "accepted" -> Free(c, sessions[PathOf[c]])
              [] th[l].pc \in {"told", "adding"} -> Free(c, weak[c])

\* Who has not joined has not sent anything.
Early == \A c \in Publishers : state[c] = "HANDSHAKE" \/ Joins(c) => stage[c] = "start"

\* A connection's session is one of its stream.
Placed == \A c \in Conns : weak[c] # None => weak[c] \in {PathOf[c]} \X Ids

\* A connection the cleaner has not robbed has the session of the map.
Kept ==
    \A c \in Conns \ robbed : Connected(c) /\ state[c] # "HANDSHAKE" =>
        /\ weak[c] # None /\ sessions[PathOf[c]] = weak[c]
        /\ ~ Joins(c) => c \in room[weak[c]].sinks

\* Whether a message of kind k is on its way from c to v.
Awaits(v, c, k) == /\ th[LoopOf[c]].pc \in {"sending", "notifying"} /\ th[LoopOf[c]].conn = c
                   /\ v \in th[LoopOf[c]].todo /\ th[LoopOf[c]].kind = k

\* What a player has seen of its session's publisher.
Watched ==
    \A c \in Publishers, v \in Players :
        /\ Publishing(c) /\ weak[c] # None /\ SessionAlive(weak[c])
        /\ PathOf[c] \notin contested
        /\ v \in room[weak[c]].sinks /\ player[v].playing
        =>  /\ stage[c] # "start" /\ ~ Awaits(v, c, "avc") =>
                 player[v].avc /\ player[v].sawHeader = c
            /\ stage[c] = "frames" /\ player[v].key /\ ~ Awaits(v, c, "key") =>
                 player[v].sawKey = c

Fresh ==
    \A v \in Players :
        /\ player[v].broken => PathOf[v] \in contested
        /\ player[v].key => player[v].playing
        /\ conn[v] = "closed" \/ state[v] = "HANDSHAKE" \/ Joins(v) => ~ player[v].playing

\* What a message on its way says of its publisher's stage.
Staged ==
    \A l \in Loops : th[l].pc \in {"sending", "notifying"} =>
        /\ th[l].kind = "avc" => stage[th[l].conn] = "header"
        /\ th[l].kind \in {"key", "inter"} => stage[th[l].conn] = "frames"

Ownership == Alone /\ Owned /\ Admitted /\ Early

Decoding == Watched /\ Fresh /\ Staged

IInv == Shape /\ Placed /\ Kept /\ Ownership /\ Decoding

----------------------------------------------------------------------------
(* Names of sessions.                                                         *)

\* There is always a name for a new session: every session that is alive but not in
\* the map is kept by the other loop's thread or by the timer of a connection that
\* was closed, and each of those keeps one.
LEMMA NameFree ==
    ASSUME Shape, NEW c \in Conns, Connected(c), sessions[PathOf[c]] = None,
           th[LoopOf[c]].sess = None
    PROVE  \E s \in {PathOf[c]} \X Ids : ~ SessionAlive(s)
<1> DEFINE p == PathOf[c]
           Keeps(i, d) == IF \E l \in Loops : th[l].sess = <<p, i>> THEN d = c
                          ELSE \E t \in Pending : t.session = <<p, i>> /\ t.sink = d
<1> SUFFICES ASSUME \A s \in {p} \X Ids : SessionAlive(s)
             PROVE  FALSE
  OBVIOUS
<1> USE RtmpAssumption
<1>0. p \in Paths
  BY DEF p
<1>1. \A i \in Ids : <<p, i>> \in Sessions /\ <<p, i>> # None
  BY <1>0 DEF Sessions
<1>2. \A t \in Pending : t.sink \in Conns
  BY DEF Shape, TypeOK, Pending, Conns
<1>3. \A i \in Ids : \E d \in Conns : Keeps(i, d)
  <2> SUFFICES ASSUME NEW i \in Ids PROVE \E d \in Conns : Keeps(i, d)
    OBVIOUS
  <2>1. SessionAlive(<<p, i>>)
    OBVIOUS
  <2>2. ASSUME NEW q \in Paths PROVE sessions[q] # <<p, i>>
    BY <1>1, <2>2 DEF Shape, Filed
  <2>3. CASE \E l \in Loops : th[l].sess = <<p, i>>
    BY <2>3
  <2>4. CASE ~ \E l \in Loops : th[l].sess = <<p, i>>
    BY <2>1, <2>2, <2>4, <1>2 DEF SessionAlive
  <2>5. QED
    BY <2>3, <2>4
<1>4. ASSUME NEW i \in Ids, NEW j \in Ids, NEW d \in Conns, Keeps(i, d), Keeps(j, d)
      PROVE  i = j
  <2>1. ASSUME NEW k \in Ids, Keeps(k, c)
        PROVE  \E l \in Loops : th[l].sess = <<p, k>>
    BY <2>1 DEF Shape, Departed, Connected
  <2>2. CASE d = c
    <3>1. PICK l \in Loops : th[l].sess = <<p, i>>
      BY <2>1, <2>2, <1>4
    <3>2. PICK m \in Loops : th[m].sess = <<p, j>>
      BY <2>1, <2>2, <1>4
    <3>3. l # LoopOf[c] /\ m # LoopOf[c]
      BY <3>1, <3>2, <1>1
    <3>4. LoopOf[c] \in {0, 1} /\ l \in {0, 1} /\ m \in {0, 1}
      BY DEF Loops
    <3>5. l = m
      BY <3>3, <3>4
    <3>6. QED
      BY <3>1, <3>2, <3>5
  <2>3. CASE d # c
    BY <2>3, <1>4 DEF Shape, Departed
  <2>4. QED
    BY <2>2, <2>3
<1>5. DEFINE f == [i \in Ids |-> CHOOSE d \in Conns : Keeps(i, d)]
<1>6. \A i \in Ids : f[i] \in Conns /\ Keeps(i, f[i])
  <2> SUFFICES ASSUME NEW i \in Ids PROVE f[i] \in Conns /\ Keeps(i, f[i])
    OBVIOUS
  <2>1. f[i] = CHOOSE d \in Conns : Keeps(i, d)
    OBVIOUS
  <2> HIDE DEF f, Keeps
  <2>2. QED
    BY <1>3, <2>1
<1> HIDE DEF f, Keeps
<1>7. f \in [Ids -> Conns]
  BY <1>6 DEF f
<1>8. f \in Injection(Ids, Conns)
  BY <1>4, <1>6, <1>7 DEF Injection, IsInjective
<1>9. IsFiniteSet(Ids) /\ Cardinality(Ids) <= Cardinality(Conns)
  BY <1>8, FS_Injection
<1>10. Cardinality(Ids) \in Nat /\ Cardinality(Conns) \in Nat
  BY <1>9, FS_CardinalityType
<1>11. QED
  BY <1>9, <1>10

\* GetSession gives a session of the stream, which is new if there was none.
LEMMA SessionGiven ==
    ASSUME Shape, NEW c \in Conns, Connected(c), th[LoopOf[c]].sess = None
    PROVE  /\ SessionOf(PathOf[c]) \in {PathOf[c]} \X Ids
           /\ SessionOf(PathOf[c]) \in Sessions /\ SessionOf(PathOf[c]) # None
           /\ sessions[PathOf[c]] = None => ~ SessionAlive(SessionOf(PathOf[c]))
<1> DEFINE p == PathOf[c]
<1>1. p \in Paths
  BY RtmpAssumption
<1>2. CASE sessions[p] = None
  <2>1. NewSession(p) \in {p} \X Ids /\ ~ SessionAlive(NewSession(p))
    BY <1>2, NameFree DEF NewSession
  <2>2. QED
    BY <1>1, <1>2, <2>1, RtmpAssumption DEF SessionOf, Sessions
<1>3. CASE sessions[p] # None
  BY <1>1, <1>3, RtmpAssumption DEF SessionOf, Shape, Filed, Sessions
<1>4. QED
  BY <1>2, <1>3

----------------------------------------------------------------------------
(* The steps keep the shape.                                                  *)

\* The pending timers, without a union over the loops.
LEMMA PendingIs == /\ Pending = leaked \cup timers[0] \cup timers[1]
                   /\ Pending' = leaked' \cup timers'[0] \cup timers'[1]
BY DEF Pending, Loops

\* The fields of a pending timer and of a thread have their types.
LEMMA PendingTyped ==
    ASSUME TypeOK
    PROVE  \A t \in Pending : t.sink \in Conns /\ t.session \in Sessions
BY DEF TypeOK, Pending, Conns

Recs == [pc : {"idle", "asked", "accepted", "told", "adding", "removing", "sending",
               "notifying", "cleaning"},
         conn : Conns \cup {None}, sess : Refs,
         kind : Kinds \cup {None}, todo : SUBSET (Players \cup Paths)]

\* What it means to change one or two of a thread's fields.
LEMMA Changed ==
    ASSUME NEW t \in Recs, NEW x, NEW y
    PROVE  /\ [t EXCEPT !.pc = x] = [pc |-> x, conn |-> t.conn, sess |-> t.sess,
                                     kind |-> t.kind, todo |-> t.todo]
           /\ [t EXCEPT !.todo = y] = [pc |-> t.pc, conn |-> t.conn, sess |-> t.sess,
                                       kind |-> t.kind, todo |-> y]
           /\ [t EXCEPT !.pc = x, !.sess = y] = [pc |-> x, conn |-> t.conn, sess |-> y,
                                                 kind |-> t.kind, todo |-> t.todo]
           /\ [t EXCEPT !.pc = x, !.todo = y] = [pc |-> x, conn |-> t.conn, sess |-> t.sess,
                                                 kind |-> t.kind, todo |-> y]
<1>1. [t EXCEPT !.pc = x] = [pc |-> x, conn |-> t.conn, sess |-> t.sess,
                             kind |-> t.kind, todo |-> t.todo]
  BY DEF Recs
<1>2. [t EXCEPT !.todo = y] = [pc |-> t.pc, conn |-> t.conn, sess |-> t.sess,
                               kind |-> t.kind, todo |-> y]
  BY DEF Recs
<1>3. ASSUME NEW a, NEW b, NEW c, NEW d, NEW e
      PROVE  /\ [[pc |-> a, conn |-> b, sess |-> c, kind |-> d, todo |-> e] EXCEPT !.sess = y]
                  = [pc |-> a, conn |-> b, sess |-> y, kind |-> d, todo |-> e]
             /\ [[pc |-> a, conn |-> b, sess |-> c, kind |-> d, todo |-> e] EXCEPT !.todo = y]
                  = [pc |-> a, conn |-> b, sess |-> c, kind |-> d, todo |-> y]
  OBVIOUS
<1>4. /\ [t EXCEPT !.pc = x, !.sess = y] = [[t EXCEPT !.pc = x] EXCEPT !.sess = y]
      /\ [t EXCEPT !.pc = x, !.todo = y] = [[t EXCEPT !.pc = x] EXCEPT !.todo = y]
  BY DEF Recs
<1> DEFINE u == [t EXCEPT !.pc = x]
<1>5. u = [pc |-> x, conn |-> t.conn, sess |-> t.sess, kind |-> t.kind, todo |-> t.todo]
  BY <1>1
<1> HIDE DEF u
<1>6. /\ [u EXCEPT !.sess = y] = [pc |-> x, conn |-> t.conn, sess |-> y,
                                  kind |-> t.kind, todo |-> t.todo]
      /\ [u EXCEPT !.todo = y] = [pc |-> x, conn |-> t.conn, sess |-> t.sess,
                                  kind |-> t.kind, todo |-> y]
  BY <1>3, <1>5
<1>7. QED
  BY <1>1, <1>2, <1>4, <1>6 DEF u

\* What a handler begins with.
LEMMA Begun ==
    ASSUME NEW c, NEW s
    PROVE  /\ [IdleThread EXCEPT !.pc = "asked", !.conn = c, !.sess = s]
                = [pc |-> "asked", conn |-> c, sess |-> s, kind |-> None, todo |-> {}]
           /\ [IdleThread EXCEPT !.pc = "removing", !.conn = c, !.sess = s]
                = [pc |-> "removing", conn |-> c, sess |-> s, kind |-> None, todo |-> {}]
           /\ [IdleThread EXCEPT !.pc = "told", !.conn = c]
                = [pc |-> "told", conn |-> c, sess |-> None, kind |-> None, todo |-> {}]
<1>1. ASSUME NEW u, NEW x, NEW y, NEW z,
             u = [pc |-> x, conn |-> y, sess |-> z, kind |-> None, todo |-> {}]
      PROVE  /\ \A a : [u EXCEPT !.pc = a]
                          = [pc |-> a, conn |-> y, sess |-> z, kind |-> None, todo |-> {}]
             /\ [u EXCEPT !.conn = c]
                   = [pc |-> x, conn |-> c, sess |-> z, kind |-> None, todo |-> {}]
             /\ [u EXCEPT !.sess = s]
                   = [pc |-> x, conn |-> y, sess |-> s, kind |-> None, todo |-> {}]
  BY <1>1
<1> DEFINE t == IdleThread
           a1 == [t EXCEPT !.pc = "asked"]
           a2 == [a1 EXCEPT !.conn = c]
           b1 == [t EXCEPT !.pc = "removing"]
           b2 == [b1 EXCEPT !.conn = c]
           t1 == [t EXCEPT !.pc = "told"]
<1>2. t = [pc |-> "idle", conn |-> None, sess |-> None, kind |-> None, todo |-> {}]
  BY DEF IdleThread
<1>3. [t EXCEPT !.pc = "asked", !.conn = c, !.sess = s] = [a2 EXCEPT !.sess = s]
  OBVIOUS
<1>a. [t EXCEPT !.pc = "removing", !.conn = c, !.sess = s] = [b2 EXCEPT !.sess = s]
  OBVIOUS
<1>b. [t EXCEPT !.pc = "told", !.conn = c] = [t1 EXCEPT !.conn = c]
  OBVIOUS
<1> HIDE DEF t, a1, a2, b1, b2, t1
<1>4. /\ a1 = [pc |-> "asked", conn |-> None, sess |-> None, kind |-> None, todo |-> {}]
      /\ b1 = [pc |-> "removing", conn |-> None, sess |-> None, kind |-> None, todo |-> {}]
      /\ t1 = [pc |-> "told", conn |-> None, sess |-> None, kind |-> None, todo |-> {}]
  BY <1>1, <1>2 DEF a1, b1, t1
<1>5. /\ a2 = [pc |-> "asked", conn |-> c, sess |-> None, kind |-> None, todo |-> {}]
      /\ b2 = [pc |-> "removing", conn |-> c, sess |-> None, kind |-> None, todo |-> {}]
  BY <1>1, <1>4 DEF a2, b2
<1>6. [a2 EXCEPT !.sess = s]
        = [pc |-> "asked", conn |-> c, sess |-> s, kind |-> None, todo |-> {}]
  BY <1>1, <1>5
<1>7. [b2 EXCEPT !.sess = s]
        = [pc |-> "removing", conn |-> c, sess |-> s, kind |-> None, todo |-> {}]
  BY <1>1, <1>5
<1>8. [t1 EXCEPT !.conn = c]
        = [pc |-> "told", conn |-> c, sess |-> None, kind |-> None, todo |-> {}]
  BY <1>1, <1>4
<1>9. QED
  BY <1>3, <1>a, <1>b, <1>6, <1>7, <1>8 DEF t

\* One thread takes a step.
LEMMA ThreadStep ==
    ASSUME TypeOK, NEW l \in Loops, NEW r \in Recs, th' = [th EXCEPT ![l] = r]
    PROVE  /\ th' \in [Loops -> Recs]
           /\ th'[l] = r
           /\ \A m \in Loops \ {l} : th'[m] = th[m]
BY DEF TypeOK, Recs

\* Clients come and go.
LEMMA ShapeOfClients ==
    ASSUME Shape, NEW c \in Conns, Opens(c) \/ Leaves(c)
    PROVE  Shape'
<1> USE DEF Shape, Opens, Leaves, races
<1>1. TypeOK'
  BY DEF TypeOK
<1>2. \A l \in Loops : Serving(l)'
  BY DEF Serving, Connected, Busy, Bound, TypeOK
<1>3. Roles' /\ Seated' /\ Filed'
  BY DEF Roles, Seated, Filed, Joins, TypeOK
<1>4. Departed'
  <2>1. Pending' = Pending
    BY DEF Pending
  <2>2. QED
    BY <2>1, PendingTyped DEF Departed, TypeOK
<1>5. QED
  BY <1>1, <1>2, <1>3, <1>4

\* HandlePublish's first part is over: the name is taken, or free.
LEMMA ShapeOfAsking ==
    ASSUME Shape, NEW l \in Loops, PublishRefused(l) \/ PublishAccepted(l)
    PROVE  Shape'
<1> USE RtmpAssumption DEF Shape
<1> DEFINE c == th[l].conn
           r == IF PublishRefused(l) THEN IdleThread
                ELSE [pc |-> "accepted", conn |-> c, sess |-> None,
                      kind |-> th[l].kind, todo |-> th[l].todo]
<1>0. th[l].pc = "asked" /\ c \in Publishers /\ state[c] = "HANDSHAKE"
  BY DEF PublishRefused, PublishAccepted, Serving
<1>1. r \in Recs
  BY DEF TypeOK, Recs, Refs, IdleThread
<1>2. th' = [th EXCEPT ![l] = r]
  BY DEF PublishRefused, PublishAccepted, TypeOK
<1>3. UNCHANGED <<state, weak, sessions, room, timers, leaked, stage, player, contested, robbed>>
  BY DEF PublishRefused, PublishAccepted, races
<1>4. conn' = IF PublishRefused(l) THEN [conn EXCEPT ![c] = "closed"] ELSE conn
  BY DEF PublishRefused, PublishAccepted
<1>5. /\ th' \in [Loops -> Recs] /\ th'[l] = r
      /\ \A m \in Loops \ {l} : th'[m] = th[m]
  BY <1>1, <1>2, ThreadStep
<1>6. \A m \in Loops \ {l} : th[m].pc \in Busy => th[m].conn # c
  BY <1>0 DEF Serving, Busy
<1>7. TypeOK'
  BY <1>3, <1>4, <1>5 DEF TypeOK, Recs
<1>8. ASSUME NEW m \in Loops PROVE Serving(m)'
  <2>1. CASE m = l
    BY <1>0, <1>3, <1>4, <1>5, <2>1 DEF Serving, Busy, Bound, Connected, IdleThread
  <2>2. CASE m # l
    BY <1>3, <1>4, <1>5, <1>6, <2>2 DEF Serving, Busy, Bound, Connected, TypeOK
  <2>3. QED
    BY <2>1, <2>2
<1>9. Roles' /\ Filed'
  BY <1>0, <1>3, <1>4 DEF Roles, Filed, TypeOK
<1>10. Seated'
  <2>1. ASSUME NEW d \in Conns, ~ Joins(d) PROVE ~ Joins(d)'
    BY <1>0, <1>3, <1>5, <2>1 DEF Joins, IdleThread
  <2>2. QED
    BY <1>3, <2>1 DEF Seated, TypeOK
<1>11. Departed'
  <2>1. Pending' = Pending
    BY <1>3 DEF Pending
  <2>2. QED
    BY <1>3, <1>4, <2>1, PendingTyped DEF Departed, TypeOK
<1>12. QED
  BY <1>7, <1>8, <1>9, <1>10, <1>11

PlayerRecs == [playing : BOOLEAN, key : BOOLEAN, avc : BOOLEAN,
               sawHeader : Publishers \cup {None},
               sawKey : Publishers \cup {None}, broken : BOOLEAN]

\* A step of one thread that leaves connections and rooms alone.
LEMMA ShapeOfThread ==
    ASSUME Shape, NEW l \in Loops, NEW r \in Recs, th' = [th EXCEPT ![l] = r],
           UNCHANGED <<conn, state, weak, room, timers, leaked, stage, contested>>,
           sessions' \in [Paths -> Refs], Filed', robbed' \subseteq Conns,
           player' \in [Players -> PlayerRecs],
           Serving(l)', \A c \in Conns : Joins(c)' => Joins(c)
    PROVE  Shape'
<1> USE RtmpAssumption DEF Shape
<1>1. /\ th' \in [Loops -> Recs] /\ th'[l] = r
      /\ \A m \in Loops \ {l} : th'[m] = th[m]
  BY ThreadStep
<1>2. TypeOK'
  BY <1>1 DEF TypeOK, Recs, PlayerRecs
<1>3. ASSUME NEW m \in Loops PROVE Serving(m)'
  BY <1>1 DEF Serving, Busy, Bound, Connected
<1>4. Roles' /\ Seated'
  BY DEF Roles, Seated, TypeOK
<1>5. Departed'
  <2>1. Pending' = Pending
    BY DEF Pending
  <2>2. QED
    BY <2>1 DEF Departed
<1>6. QED
  BY <1>2, <1>3, <1>4, <1>5

\* The handler that locks a session, and those that end.
LEMMA ShapeOfLocking ==
    ASSUME Shape, NEW l \in Loops, LocksSession(l)
    PROVE  Shape'
<1> USE RtmpAssumption DEF Shape
<1> DEFINE c == th[l].conn
           r == IF Lock(c) = None THEN IdleThread
                ELSE [pc |-> "adding", conn |-> c, sess |-> Lock(c),
                      kind |-> th[l].kind, todo |-> th[l].todo]
<1>0. th[l].pc = "told" /\ c \in Conns /\ LoopOf[c] = l
  BY DEF LocksSession, Serving, Busy, TypeOK
<1>1. Lock(c) # None => Lock(c) = weak[c]
  BY DEF Lock
<1>2. r \in Recs
  BY <1>0, <1>1 DEF TypeOK, Recs, Refs, IdleThread
<1>3. th' = [th EXCEPT ![l] = r]
  <2>1. th[l] \in Recs
    BY DEF TypeOK, Recs
  <2>2. r = IF Lock(c) = None THEN IdleThread
            ELSE [th[l] EXCEPT !.pc = "adding", !.sess = Lock(c)]
    BY <2>1, Changed
  <2> HIDE DEF r
  <2>3. QED
    BY <2>2 DEF LocksSession, TypeOK
<1>4. /\ th' \in [Loops -> Recs] /\ th'[l] = r
      /\ \A m \in Loops \ {l} : th'[m] = th[m]
  BY <1>2, <1>3, ThreadStep
<1>5. UNCHANGED <<conn, state, weak, sessions, room, timers, leaked, stage, player, races>>
  BY DEF LocksSession
<1>6. Serving(l)'
  BY <1>0, <1>1, <1>4, <1>5 DEF Serving, Busy, Bound, Connected, IdleThread
<1>7. \A d \in Conns : Joins(d)' => Joins(d)
  BY <1>0, <1>4 DEF Joins, IdleThread
<1>8. QED
  BY <1>2, <1>3, <1>5, <1>6, <1>7, ShapeOfThread DEF TypeOK, Filed, PlayerRecs, races

\* A player's flags after a message: what SendMediaData sets, and what is decoded.
LEMMA SentMessage ==
    ASSUME NEW w \in PlayerRecs, NEW c \in Publishers, NEW k \in Kinds
    PROVE  LET u == SendMediaData(w, c, k)
           IN  /\ u \in PlayerRecs
               /\ u.playing
               /\ u.avc <=> w.avc \/ k = "avc"
               /\ u.key <=> w.key \/ (k = "key" /\ w.avc)
               /\ u.sawHeader = IF k = "avc" THEN c ELSE w.sawHeader
               /\ u.sawKey = IF k = "key" THEN c ELSE w.sawKey
               /\ u.broken => \/ w.broken
                              \/ k = "key" /\ w.sawHeader # c
                              \/ k = "inter" /\ ~ Gated(w, k) /\ (w.sawKey # c \/ w.sawHeader # c)
<1>1. PICK on \in BOOLEAN, avc \in BOOLEAN, key \in BOOLEAN :
             on = TRUE /\ avc = (w.avc \/ k = "avc") /\ key = (w.key \/ (k = "key" /\ w.avc))
  OBVIOUS
<1> DEFINE now == [w EXCEPT !.playing = on, !.avc = avc, !.key = key]
<1>2. SendMediaData(w, c, k) = IF Gated(w, k) THEN now ELSE Decodes(now, c, k)
  BY <1>1 DEF SendMediaData
<1>3. /\ now \in PlayerRecs
      /\ now.playing = on /\ now.avc = avc /\ now.key = key
      /\ now.sawHeader = w.sawHeader /\ now.sawKey = w.sawKey /\ now.broken = w.broken
  BY DEF PlayerRecs
<1> HIDE DEF now
<1>4. CASE k = "avc"
  <2>1. SendMediaData(w, c, k) = [now EXCEPT !.sawHeader = c]
    BY <1>2, <1>4 DEF Gated, Decodes
  <2>2. [now EXCEPT !.sawHeader = c] \in PlayerRecs
    BY <1>3 DEF PlayerRecs
  <2>3. QED
    BY <1>1, <1>3, <1>4, <2>1, <2>2 DEF PlayerRecs
<1>5. CASE k = "key"
  <2>1. PICK b \in BOOLEAN : b = (now.broken \/ now.sawHeader # c)
    OBVIOUS
  <2>2. SendMediaData(w, c, k) = [now EXCEPT !.sawKey = c, !.broken = b]
    BY <1>2, <1>5, <2>1 DEF Gated, Decodes
  <2> DEFINE u == [now EXCEPT !.sawKey = c, !.broken = b]
  <2>3. /\ u \in PlayerRecs
        /\ u.playing = now.playing /\ u.avc = now.avc /\ u.key = now.key
        /\ u.sawHeader = now.sawHeader /\ u.sawKey = c /\ u.broken = b
    BY <1>3 DEF PlayerRecs
  <2> HIDE DEF u
  <2>4. QED
    BY <1>1, <1>3, <1>5, <2>1, <2>2, <2>3 DEF u
<1>6. CASE k = "inter"
  <2>1. PICK b \in BOOLEAN : b = (now.broken \/ now.sawKey # c \/ now.sawHeader # c)
    OBVIOUS
  <2>2. Decodes(now, c, k) = [now EXCEPT !.broken = b]
    BY <1>6, <2>1 DEF Decodes
  <2>3. CASE Gated(w, k)
    BY <1>1, <1>2, <1>3, <1>6, <2>3 DEF PlayerRecs
  <2>4. CASE ~ Gated(w, k)
    <3> DEFINE u == [now EXCEPT !.broken = b]
    <3>1. /\ u \in PlayerRecs
          /\ u.playing = now.playing /\ u.avc = now.avc /\ u.key = now.key
          /\ u.sawHeader = now.sawHeader /\ u.sawKey = now.sawKey /\ u.broken = b
      BY <1>3 DEF PlayerRecs
    <3>2. SendMediaData(w, c, k) = u
      BY <1>2, <2>2, <2>4
    <3> HIDE DEF u
    <3>3. QED
      BY <1>1, <1>3, <1>6, <2>1, <2>4, <3>1, <3>2
  <2>5. QED
    BY <2>3, <2>4
<1>7. CASE k = "audio"
  <2>1. SendMediaData(w, c, k) = now
    BY <1>2, <1>7 DEF Decodes
  <2>2. QED
    BY <1>1, <1>3, <1>7, <2>1
<1>8. QED
  BY <1>4, <1>5, <1>6, <1>7 DEF Kinds

\* What is left of a thread's round.
LEMMA RoundGoesOn ==
    ASSUME NEW t \in Recs
    PROVE  /\ \/ Sending(t) = IdleThread /\ t.todo = {}
              \/ Sending(t) = [pc |-> "sending", conn |-> t.conn, sess |-> t.sess,
                               kind |-> t.kind, todo |-> t.todo]
           /\ \/ Cleaning(t) = IdleThread /\ t.todo = {}
              \/ Cleaning(t) = [pc |-> "cleaning", conn |-> t.conn, sess |-> t.sess,
                                kind |-> t.kind, todo |-> t.todo]
<1>1. \A x : [t EXCEPT !.pc = x] = [pc |-> x, conn |-> t.conn, sess |-> t.sess,
                                    kind |-> t.kind, todo |-> t.todo]
  BY Changed
<1>2. QED
  BY <1>1 DEF Sending, Cleaning

\* The thread once it has sent to player v: the others are left.
LEMMA SentTo ==
    ASSUME TypeOK, NEW l \in Loops, NEW v \in Players, SendOne(l, v)
    PROVE  \E r \in Recs :
             /\ th' = [th EXCEPT ![l] = r]
             /\ \/ r = IdleThread /\ th[l].todo \subseteq {v}
                \/ /\ r.pc = "sending"
                   /\ r.conn = th[l].conn /\ r.sess = th[l].sess
                   /\ r.kind = th[l].kind /\ r.todo = th[l].todo \ {v}
<1> DEFINE q == [pc |-> "sending", conn |-> th[l].conn, sess |-> th[l].sess,
                 kind |-> th[l].kind, todo |-> Todo(l, v)]
           u == [th[l] EXCEPT !.todo = Todo(l, v)]
<1>1. th[l].pc = "sending" /\ th[l] \in Recs /\ IdleThread \in Recs
  BY DEF SendOne, TypeOK, Recs, Refs, IdleThread
<1>2. q \in Recs
  BY <1>1 DEF Recs, Todo
<1>3. u = q
  BY <1>1, Changed
<1>4. th' = [th EXCEPT ![l] = Sending(u)]
  BY DEF SendOne, TypeOK
<1> HIDE DEF u
<1>5. \/ Sending(q) = IdleThread /\ q.todo = {}
      \/ Sending(q) = q
  <2>1. \/ Sending(q) = IdleThread /\ q.todo = {}
        \/ Sending(q) = [pc |-> "sending", conn |-> q.conn, sess |-> q.sess,
                         kind |-> q.kind, todo |-> q.todo]
    BY <1>2, RoundGoesOn
  <2>2. QED
    BY <2>1
<1>6. CASE Sending(q) = IdleThread /\ q.todo = {}
  BY <1>1, <1>3, <1>4, <1>6 DEF Todo
<1>7. CASE Sending(q) = q
  <2>1. th' = [th EXCEPT ![l] = q]
    BY <1>3, <1>4, <1>7
  <2>2. QED
    BY <1>2, <2>1 DEF Todo
<1>8. QED
  BY <1>5, <1>6, <1>7

\* The player a message goes to next, and NotifyEvent.
LEMMA SendingThread ==
    ASSUME TypeOK, NEW l \in Loops, Notified(l) \/ (\E v \in Players : SendOne(l, v))
    PROVE  \E r \in Recs :
             /\ th' = [th EXCEPT ![l] = r]
             /\ \/ /\ r = IdleThread
                   /\ \A w \in th[l].todo : \E v \in Players : SendOne(l, v) /\ w = v
                \/ /\ r.pc = "sending"
                   /\ r.conn = th[l].conn /\ r.sess = th[l].sess
                   /\ r.kind = th[l].kind /\ r.todo \subseteq th[l].todo
                   /\ \A w \in th[l].todo \ r.todo : \E v \in Players : SendOne(l, v) /\ w = v
<1>1. th[l] \in Recs /\ IdleThread \in Recs
  BY DEF TypeOK, Recs, Refs, IdleThread
<1>2. CASE Notified(l)
  <2> DEFINE q == [pc |-> "sending", conn |-> th[l].conn, sess |-> th[l].sess,
                   kind |-> th[l].kind, todo |-> th[l].todo]
  <2>1. q \in Recs
    BY <1>1 DEF Recs
  <2>2. \/ Sending(th[l]) = IdleThread /\ th[l].todo = {}
        \/ Sending(th[l]) = q
    BY <1>1, RoundGoesOn
  <2>3. th' = [th EXCEPT ![l] = Sending(th[l])]
    BY <1>2 DEF Notified
  <2>4. QED
    BY <1>1, <2>1, <2>2, <2>3
<1>3. QED
  <2>1. CASE \E v \in Players : SendOne(l, v)
    <3>1. PICK v \in Players : SendOne(l, v)
      BY <2>1
    <3>2. PICK r \in Recs :
               /\ th' = [th EXCEPT ![l] = r]
               /\ \/ r = IdleThread /\ th[l].todo \subseteq {v}
                  \/ /\ r.pc = "sending"
                     /\ r.conn = th[l].conn /\ r.sess = th[l].sess
                     /\ r.kind = th[l].kind /\ r.todo = th[l].todo \ {v}
      BY <3>1, SentTo
    <3>3. QED
      BY <3>1, <3>2
  <2>2. QED
    BY <1>2, <2>1

LEMMA ShapeOfSending ==
    ASSUME Shape, NEW l \in Loops, Notified(l) \/ (\E v \in Players : SendOne(l, v))
    PROVE  Shape'
<1> USE RtmpAssumption DEF Shape
<1>0. /\ th[l].pc \in {"sending", "notifying"}
      /\ UNCHANGED <<conn, state, weak, sessions, room, timers, leaked, stage, races>>
  BY DEF Notified, SendOne
<1>1. player' \in [Players -> PlayerRecs]
  <2>1. ASSUME NEW v \in Players, SendOne(l, v)
        PROVE  player' \in [Players -> PlayerRecs]
    <3>1. /\ player[v] \in PlayerRecs /\ room[th[l].sess].header \in Publishers \cup {None}
          /\ th[l].conn \in Publishers /\ th[l].kind \in Kinds
      BY <1>0 DEF TypeOK, PlayerRecs, Serving, Roles, Refs, Busy, Bound
    <3>2. \A w \in PlayerRecs, c \in Publishers, k \in Kinds :
             SendMediaData(w, c, k) \in PlayerRecs
      BY SentMessage
    <3>3. Delivered(player[v], room[th[l].sess].header, th[l].conn, th[l].kind) \in PlayerRecs
      BY <3>1, <3>2 DEF Delivered, Kinds
    <3>4. QED
      BY <2>1, <3>3 DEF SendOne, TypeOK, PlayerRecs
  <2>2. CASE UNCHANGED player
    BY <2>2 DEF TypeOK, PlayerRecs
  <2>3. QED
    BY <2>1, <2>2 DEF Notified
<1>2. PICK r \in Recs : /\ th' = [th EXCEPT ![l] = r]
                        /\ \/ r = IdleThread
                           \/ /\ r.pc = "sending"
                              /\ r.conn = th[l].conn /\ r.sess = th[l].sess
                              /\ r.kind = th[l].kind /\ r.todo \subseteq th[l].todo
  BY SendingThread
<1>3. th'[l] = r
  BY <1>2, ThreadStep
<1>4. Serving(l)'
  BY <1>0, <1>2, <1>3 DEF Serving, Busy, Bound, Connected, IdleThread
<1>5. \A d \in Conns : Joins(d)' => Joins(d)
  BY <1>0, <1>2, <1>3, ThreadStep DEF Joins, IdleThread
<1>6. QED
  BY <1>0, <1>1, <1>2, <1>4, <1>5, ShapeOfThread DEF TypeOK, Filed, races

\* The cleaner.
LEMMA ShapeOfCleaning ==
    ASSUME Shape, CleanStarts \/ (\E p \in Paths : CleansOne(p))
    PROVE  Shape'
<1> USE RtmpAssumption DEF Shape
<1>0. 0 \in Loops /\ th[0].pc \in {"idle", "cleaning"}
  BY DEF Loops, CleanStarts, CleansOne, Idle
<1>1. /\ UNCHANGED <<conn, state, weak, room, timers, leaked, stage, player, contested>>
      /\ sessions' \in [Paths -> Refs] /\ Filed' /\ robbed' \subseteq Conns
  <2>1. CASE CleanStarts
    BY <2>1 DEF CleanStarts, Filed, TypeOK, races
  <2>2. ASSUME NEW p \in Paths, CleansOne(p)
        PROVE  /\ UNCHANGED <<conn, state, weak, room, timers, leaked, stage, player, contested>>
               /\ sessions' \in [Paths -> Refs] /\ Filed' /\ robbed' \subseteq Conns
    <3>1. Joining(sessions[p]) \subseteq Conns
      BY DEF Joining
    <3>2. robbed' \subseteq Conns
      BY <2>2, <3>1 DEF CleansOne, TypeOK
    <3>3. sessions' = sessions \/ sessions' = [sessions EXCEPT ![p] = None]
      BY <2>2 DEF CleansOne
    <3>4. sessions' \in [Paths -> Refs] /\ Filed'
      BY <3>3 DEF TypeOK, Refs, Filed
    <3>5. QED
      BY <2>2, <3>2, <3>4 DEF CleansOne
  <2>3. QED
    BY <2>1, <2>2
<1>2. PICK r \in Recs : /\ th' = [th EXCEPT ![0] = r]
                        /\ r.pc \in {"idle", "cleaning"} /\ r.conn = None /\ r.sess = None
                        /\ r.pc = "cleaning" => r.todo \subseteq Paths
  <2>1. PICK q \in Recs : /\ th' = [th EXCEPT ![0] = Cleaning(q)]
                          /\ q.conn = None /\ q.sess = None /\ q.todo \subseteq Paths
    <3>1. CASE CleanStarts
      <4> DEFINE q == [IdleThread EXCEPT !.todo = Paths]
      <4>1. IdleThread \in Recs
        BY DEF IdleThread, Recs, Refs
      <4>2. q = [pc |-> IdleThread.pc, conn |-> IdleThread.conn, sess |-> IdleThread.sess,
                 kind |-> IdleThread.kind, todo |-> Paths]
        BY <4>1, Changed
      <4>3. /\ q \in Recs /\ q.todo = Paths
            /\ q.conn = None /\ q.sess = None
        BY <4>1, <4>2 DEF Recs, IdleThread
      <4>4. th' = [th EXCEPT ![0] = Cleaning(q)]
        BY <3>1 DEF CleanStarts
      <4> HIDE DEF q
      <4>5. QED
        BY <4>3, <4>4
    <3>2. CASE \E p \in Paths : CleansOne(p)
      <4>1. PICK p \in Paths : CleansOne(p)
        BY <3>2
      <4> DEFINE q == [th[0] EXCEPT !.todo = th[0].todo \ {p}]
      <4>2. /\ th[0].pc = "cleaning" /\ th[0].conn = None /\ th[0].sess = None
            /\ th[0].todo \subseteq Paths /\ th[0] \in Recs
        BY <1>0, <4>1 DEF CleansOne, Serving, TypeOK, Recs
      <4>3. q = [pc |-> "cleaning", conn |-> None, sess |-> None, kind |-> th[0].kind,
                 todo |-> th[0].todo \ {p}]
        BY <4>2, Changed
      <4>4. q \in Recs
        BY <4>2, <4>3 DEF Recs, Refs
      <4>5. th' = [th EXCEPT ![0] = Cleaning(q)]
        BY <1>0, <4>1 DEF CleansOne, TypeOK
      <4> HIDE DEF q
      <4>6. QED
        BY <4>2, <4>3, <4>4, <4>5
    <3>3. QED
      BY <3>1, <3>2
  <2>2. IdleThread \in Recs
    BY DEF IdleThread, Recs, Refs
  <2>3. \/ Cleaning(q) = IdleThread
        \/ Cleaning(q) = [pc |-> "cleaning", conn |-> q.conn, sess |-> q.sess,
                          kind |-> q.kind, todo |-> q.todo]
    BY <2>1, RoundGoesOn
  <2>4. CASE Cleaning(q) = IdleThread
    BY <2>1, <2>2, <2>4 DEF IdleThread
  <2>5. CASE Cleaning(q) = [pc |-> "cleaning", conn |-> q.conn, sess |-> q.sess,
                            kind |-> q.kind, todo |-> q.todo]
    <3> DEFINE u == [pc |-> "cleaning", conn |-> q.conn, sess |-> q.sess,
                     kind |-> q.kind, todo |-> q.todo]
    <3>1. u \in Recs
      BY <2>1 DEF Recs
    <3>2. th' = [th EXCEPT ![0] = u]
      BY <2>1, <2>5
    <3>3. QED
      BY <2>1, <3>1, <3>2
  <2>6. QED
    BY <2>3, <2>4, <2>5
<1>3. th'[0] = r
  BY <1>0, <1>2, ThreadStep
<1>4. Serving(0)'
  BY <1>2, <1>3 DEF Serving, Busy, Bound, Recs
<1>5. \A d \in Conns : Joins(d)' => Joins(d)
  BY <1>0, <1>2, <1>3, ThreadStep DEF Joins
<1>6. QED
  BY <1>0, <1>1, <1>2, <1>4, <1>5, ShapeOfThread DEF TypeOK, PlayerRecs

\* What GetSession does to the map, the rooms and the weak references.
LEMMA Visit ==
    ASSUME Shape, NEW c \in Conns, Connected(c), th[LoopOf[c]].sess = None,
           GetSession(PathOf[c])
    PROVE  /\ sessions' \in [Paths -> Refs] /\ Filed'
           /\ \A p \in Paths : sessions[p] # None => sessions'[p] = sessions[p]
           /\ sessions'[PathOf[c]] = SessionOf(PathOf[c])
           /\ \A p \in Paths \ {PathOf[c]} : sessions'[p] = sessions[p]
           /\ room' \in [Sessions -> [sinks : SUBSET Conns, publisher : Publishers \cup {None},
                                      header : Publishers \cup {None}]]
           /\ \A s \in Sessions : room'[s] = IF SessionAlive(s) THEN room[s] ELSE EmptyRoom
           /\ Expired \in [Conns -> Refs]
           /\ \A d \in Conns : Expired[d] = IF weak[d] # None /\ SessionAlive(weak[d])
                                              THEN weak[d] ELSE None
<1> USE RtmpAssumption DEF Shape, GetSession
<1> DEFINE p == PathOf[c]
           s == SessionOf(p)
<1>1. s \in {p} \X Ids /\ s \in Sessions /\ s # None
  BY SessionGiven
<1>2. p \in Paths /\ (sessions[p] # None => s = sessions[p])
  BY DEF SessionOf
<1> HIDE DEF s
<1>3. sessions' = [sessions EXCEPT ![p] = s]
  BY DEF s
<1>4. sessions' \in [Paths -> Refs] /\ Filed'
  BY <1>1, <1>2, <1>3 DEF TypeOK, Refs, Filed
<1>5. /\ \A q \in Paths : sessions[q] # None => sessions'[q] = sessions[q]
      /\ sessions'[p] = s
      /\ \A q \in Paths \ {p} : sessions'[q] = sessions[q]
  BY <1>2, <1>3 DEF TypeOK
<1>6. EmptyRoom \in [sinks : SUBSET Conns, publisher : Publishers \cup {None},
                     header : Publishers \cup {None}]
  BY DEF EmptyRoom
<1>7. /\ room' \in [Sessions -> [sinks : SUBSET Conns, publisher : Publishers \cup {None},
                                 header : Publishers \cup {None}]]
      /\ \A x \in Sessions : room'[x] = IF SessionAlive(x) THEN room[x] ELSE EmptyRoom
  BY <1>6 DEF TypeOK
<1>8. /\ Expired \in [Conns -> Refs]
      /\ \A d \in Conns : Expired[d] = IF weak[d] # None /\ SessionAlive(weak[d])
                                         THEN weak[d] ELSE None
  BY DEF Expired, Lock, TypeOK, Refs
<1>9. QED
  BY <1>4, <1>5, <1>7, <1>8 DEF s

\* HandlePublish's two halves and HandlePlay, which all get the session.
Visits(c, l) ==
    \/ c \in Publishers /\ PublishAsks(c)
    \/ c = th[l].conn /\ PublishStarts(l)
    \/ c \in Players /\ PlayStarts(c)

\* What a connection and its thread are before and after.
LEMMA Visiting ==
    ASSUME Shape, NEW c \in Conns, NEW l \in Loops, l = LoopOf[c], Visits(c, l)
    PROVE  /\ th[l].pc \in {"idle", "accepted"} /\ th[l].sess = None
           /\ th[l].pc = "accepted" => c \in Publishers /\ th[l].conn = c
           /\ Connected(c) /\ state[c] = "HANDSHAKE"
           /\ GetSession(PathOf[c])
           /\ UNCHANGED <<conn, timers, leaked, stage, player, robbed>>
           /\ contested' \in {contested, contested \cup {PathOf[c]}}
           /\ \E r \in Recs :
                /\ th' = [th EXCEPT ![l] = r] /\ r.conn = c
                /\ \/ /\ r.pc = "asked" /\ r.sess = SessionOf(PathOf[c]) /\ r.sess # None
                      /\ c \in Publishers
                      /\ state' = state /\ weak' = Expired
                   \/ /\ r.pc = "told" /\ r.sess = None
                      /\ c \in Publishers => th[l].pc = "accepted"
                      /\ state' = [state EXCEPT ![c] = IF c \in Publishers THEN "START_PUBLISH"
                                                       ELSE "START_PLAY"]
                      /\ weak' = [Expired EXCEPT ![c] = SessionOf(PathOf[c])]
<1> USE RtmpAssumption DEF Shape, Visits
<1>1. /\ th[l].pc \in {"idle", "accepted"} /\ th[l].sess = None /\ Connected(c)
      /\ state[c] = "HANDSHAKE" /\ (th[l].pc = "accepted" => c \in Publishers /\ th[l].conn = c)
      /\ GetSession(PathOf[c])
      /\ UNCHANGED <<conn, timers, leaked, stage, player, robbed>>
      /\ contested' \in {contested, contested \cup {PathOf[c]}}
  BY DEF PublishAsks, PublishStarts, PlayStarts, Idle, Serving, Busy, races
<1> DEFINE s == SessionOf(PathOf[c])
<1>2. s \in Sessions /\ s # None
  BY <1>1, SessionGiven
<1> HIDE DEF s
<1>3. \E r \in Recs :
         /\ th' = [th EXCEPT ![l] = r] /\ r.conn = c
         /\ \/ /\ r.pc = "asked" /\ r.sess = s /\ c \in Publishers
               /\ state' = state /\ weak' = Expired
            \/ /\ r.pc = "told" /\ r.sess = None
               /\ c \in Publishers => th[l].pc = "accepted"
               /\ state' = [state EXCEPT ![c] = IF c \in Publishers THEN "START_PUBLISH"
                                                ELSE "START_PLAY"]
               /\ weak' = [Expired EXCEPT ![c] = s]
  <2>1. CASE c \in Publishers /\ PublishAsks(c)
    <3> DEFINE q == [pc |-> "asked", conn |-> c, sess |-> s, kind |-> None, todo |-> {}]
    <3>1. q \in Recs
      BY <1>2 DEF Recs, Refs
    <3>2. th' = [th EXCEPT ![l] = q]
      BY <2>1, Begun DEF PublishAsks, s
    <3>3. QED
      BY <1>2, <2>1, <3>1, <3>2 DEF PublishAsks
  <2>2. CASE c = th[l].conn /\ PublishStarts(l)
    <3> DEFINE q == [th[l] EXCEPT !.pc = "told"]
    <3>1. th[l] \in Recs /\ c \in Publishers
      BY <1>1, <2>2 DEF TypeOK, Recs, PublishStarts
    <3>2. q = [pc |-> "told", conn |-> th[l].conn, sess |-> th[l].sess, kind |-> th[l].kind,
               todo |-> th[l].todo]
      BY <3>1, Changed
    <3>3. q \in Recs
      BY <3>1, <3>2 DEF Recs
    <3>4. th' = [th EXCEPT ![l] = q]
      BY <2>2 DEF PublishStarts, TypeOK
    <3> HIDE DEF q
    <3>5. weak' = [Expired EXCEPT ![c] = s] /\ state' = [state EXCEPT ![c] = "START_PUBLISH"]
      BY <2>2 DEF PublishStarts, s
    <3>6. th[l].pc = "accepted"
      BY <2>2 DEF PublishStarts
    <3>7. QED
      BY <1>1, <2>2, <3>1, <3>2, <3>3, <3>4, <3>5, <3>6
  <2>3. CASE c \in Players /\ PlayStarts(c)
    <3> DEFINE q == [pc |-> "told", conn |-> c, sess |-> None, kind |-> None, todo |-> {}]
    <3>1. q \in Recs
      BY DEF Recs, Refs
    <3>2. th' = [th EXCEPT ![l] = q]
      BY <2>3, Begun DEF PlayStarts
    <3>3. weak' = [Expired EXCEPT ![c] = s] /\ state' = [state EXCEPT ![c] = "START_PLAY"]
      BY <2>3 DEF PlayStarts, s
    <3>4. c \notin Publishers
      BY <2>3
    <3>5. QED
      BY <3>1, <3>2, <3>3, <3>4
  <2>4. QED
    BY <2>1, <2>2, <2>3
<1>4. QED
  BY <1>1, <1>2, <1>3 DEF s

\* The steps that get the session.
LEMMA ShapeOfVisits ==
    ASSUME Shape, NEW c \in Conns, NEW l \in Loops, l = LoopOf[c], Visits(c, l)
    PROVE  Shape'
<1> USE RtmpAssumption DEF Shape
<1>1. /\ th[l].pc \in {"idle", "accepted"} /\ th[l].sess = None /\ Connected(c)
      /\ state[c] = "HANDSHAKE" /\ (th[l].pc = "accepted" => c \in Publishers /\ th[l].conn = c)
      /\ GetSession(PathOf[c])
      /\ UNCHANGED <<conn, timers, leaked, stage, player, robbed>>
      /\ contested' \subseteq Paths
  BY Visiting DEF TypeOK
<1> DEFINE s == SessionOf(PathOf[c])
<1>2. s \in Sessions /\ s # None
  BY <1>1, SessionGiven
<1>3. PICK r \in Recs :
         /\ th' = [th EXCEPT ![l] = r] /\ r.conn = c
         /\ \/ /\ r.pc = "asked" /\ r.sess # None /\ c \in Publishers
               /\ state' = state /\ weak' = Expired
            \/ /\ r.pc = "told" /\ r.sess = None
               /\ state' = [state EXCEPT ![c] = IF c \in Publishers THEN "START_PUBLISH"
                                                ELSE "START_PLAY"]
               /\ weak' = [Expired EXCEPT ![c] = s]
  BY Visiting
<1> HIDE DEF s
<1>4. /\ th' \in [Loops -> Recs] /\ th'[l] = r
      /\ \A m \in Loops \ {l} : th'[m] = th[m]
  BY <1>3, ThreadStep
<1>5. /\ weak' \in [Conns -> Refs]
      /\ \A d \in Conns \ {c} : weak'[d] = IF weak[d] # None /\ SessionAlive(weak[d])
                                            THEN weak[d] ELSE None
  BY <1>1, <1>2, <1>3, Visit DEF Refs
<1>6. /\ state' \in [Conns -> {"HANDSHAKE", "START_PUBLISH", "START_PLAY"}]
      /\ \A d \in Conns \ {c} : state'[d] = state[d]
      /\ state'[c] = "START_PUBLISH" => c \in Publishers
      /\ state'[c] = "START_PLAY" => c \in Players
      /\ r.pc = "told" => state'[c] # "HANDSHAKE"
      /\ r.pc = "asked" => state'[c] = "HANDSHAKE"
  BY <1>1, <1>3 DEF TypeOK, Conns
<1>7. /\ sessions' \in [Paths -> Refs] /\ Filed'
      /\ room' \in [Sessions -> [sinks : SUBSET Conns, publisher : Publishers \cup {None},
                                 header : Publishers \cup {None}]]
      /\ \A x \in Sessions : room'[x] = IF SessionAlive(x) THEN room[x] ELSE EmptyRoom
  BY <1>1, Visit
<1>8. TypeOK'
  BY <1>1, <1>4, <1>5, <1>6, <1>7 DEF TypeOK, Recs
<1>9. ASSUME NEW m \in Loops PROVE Serving(m)'
  <2>1. CASE m = l
    BY <1>1, <1>3, <1>4, <1>6, <2>1 DEF Serving, Busy, Bound, Connected
  <2>2. CASE m # l
    <3>1. th'[m] = th[m] /\ (th[m].pc \in Busy => th[m].conn # c /\ th[m].conn \in Conns)
      BY <1>4, <2>2 DEF Serving, Busy, TypeOK
    <3>0. th[m].pc = "removing" => th[m].conn # c /\ th[m].conn \in Conns
      BY <1>1 DEF Serving, Connected, TypeOK
    <3>2. th[m].pc \in Bound \cup {"removing"} =>
             /\ SessionAlive(th[m].sess) /\ th[m].sess \in Sessions
             /\ weak'[th[m].conn] = weak[th[m].conn] /\ room'[th[m].sess] = room[th[m].sess]
      BY <1>5, <1>7, <3>0, <3>1 DEF Serving, SessionAlive, Bound, Busy, TypeOK, Refs
    <3>3. QED
      BY <1>1, <1>6, <3>0, <3>1, <3>2 DEF Serving, Busy, Bound, Connected
  <2>3. QED
    BY <2>1, <2>2
<1>10. Roles'
  BY <1>1, <1>6 DEF Roles, Connected
<1>11. Seated'
  <2> SUFFICES ASSUME NEW x \in Sessions
               PROVE  /\ \A d \in room'[x].sinks :
                           weak'[d] = x /\ state'[d] # "HANDSHAKE" /\ ~ Joins(d)'
                      /\ room'[x].publisher # None => state'[room'[x].publisher] = "START_PUBLISH"
    BY DEF Seated
  <2>1. CASE ~ SessionAlive(x)
    BY <1>7, <2>1 DEF EmptyRoom
  <2>2. CASE SessionAlive(x)
    <3>1. room'[x] = room[x] /\ x # None
      BY <1>7, <2>2
    <3>2. ASSUME NEW d \in room[x].sinks
          PROVE  weak'[d] = x /\ state'[d] # "HANDSHAKE" /\ ~ Joins(d)'
      <4>1. d \in Conns /\ d # c
        BY <1>1 DEF Seated, TypeOK
      <4>2. weak'[d] = x /\ state'[d] # "HANDSHAKE"
        BY <1>5, <1>6, <2>2, <3>1, <4>1 DEF Seated
      <4>3. ~ Joins(d)'
        BY <1>3, <1>4, <4>1 DEF Seated, Joins
      <4>4. QED
        BY <4>2, <4>3
    <3>3. room[x].publisher # None =>
             room[x].publisher \in Conns /\ room[x].publisher # c
      BY <1>1 DEF Seated, TypeOK, Conns
    <3>4. QED
      BY <1>6, <3>1, <3>2, <3>3 DEF Seated
  <2>3. QED
    BY <2>1, <2>2
<1>12. Departed'
  <2>1. Pending' = Pending
    BY <1>1 DEF Pending
  <2>2. ASSUME NEW t \in Pending
        PROVE  conn'[t.sink] = "closed" /\ weak'[t.sink] = t.session
    <3>1. t.sink \in Conns \ {c} /\ t.session \in Sessions /\ SessionAlive(t.session)
      BY <1>1, PendingTyped DEF Departed, Connected, SessionAlive
    <3>2. QED
      BY <1>1, <1>5, <3>1 DEF Departed
  <2>3. QED
    BY <2>1, <2>2 DEF Departed
<1>13. QED
  BY <1>7, <1>8, <1>9, <1>10, <1>11, <1>12

Rooms == [sinks : SUBSET Conns, publisher : Publishers \cup {None},
          header : Publishers \cup {None}]

\* A connection joins the session it has locked.
LEMMA ShapeOfAdding ==
    ASSUME Shape, NEW l \in Loops, AddSink(l)
    PROVE  Shape'
<1> USE RtmpAssumption DEF Shape
<1> DEFINE c == th[l].conn
           s == th[l].sess
<1>1. /\ th[l].pc = "adding" /\ c \in Conns /\ s \in Sessions /\ s # None
      /\ LoopOf[c] = l /\ state[c] # "HANDSHAKE" /\ weak[c] = s
      /\ state[c] = "START_PUBLISH" => c \in Publishers
  BY DEF AddSink, Serving, Busy, Bound, TypeOK, Refs, Roles
<1>2. /\ room' = [room EXCEPT ![s] = AddedSink(@, c)]
      /\ th' = [th EXCEPT ![l] = IdleThread]
      /\ UNCHANGED <<conn, state, weak, sessions, timers, leaked, stage, player, contested, robbed>>
  BY DEF AddSink, races
<1>3. IdleThread \in Recs
  BY DEF IdleThread, Recs, Refs
<1>4. /\ th' \in [Loops -> Recs] /\ th'[l] = IdleThread
      /\ \A m \in Loops \ {l} : th'[m] = th[m]
  BY <1>2, <1>3, ThreadStep
<1>5. /\ AddedSink(room[s], c) \in Rooms
      /\ AddedSink(room[s], c).sinks = room[s].sinks \cup {c}
      /\ AddedSink(room[s], c).publisher =
            IF state[c] = "START_PUBLISH" THEN c ELSE room[s].publisher
  <2>1. room[s] \in Rooms
    BY <1>1 DEF TypeOK, Rooms
  <2>2. CASE state[c] = "START_PUBLISH"
    BY <1>1, <2>1, <2>2 DEF AddedSink, Rooms
  <2>3. CASE state[c] # "START_PUBLISH"
    BY <1>1, <2>1, <2>3 DEF AddedSink, Rooms
  <2>4. QED
    BY <2>2, <2>3
<1>6. /\ room' \in [Sessions -> Rooms] /\ room'[s] = AddedSink(room[s], c)
      /\ \A x \in Sessions \ {s} : room'[x] = room[x]
  BY <1>1, <1>2, <1>5 DEF TypeOK, Rooms
<1>7. TypeOK'
  BY <1>2, <1>4, <1>6 DEF TypeOK, Recs, Rooms
<1>8. ASSUME NEW m \in Loops PROVE Serving(m)'
  <2>1. CASE m = l
    BY <1>4, <2>1 DEF Serving, Busy, Bound, IdleThread
  <2>2. CASE m # l
    <3>1. th'[m] = th[m]
      BY <1>4, <2>2
    <3>2. th[m].sess \in Sessions => room[th[m].sess].sinks \subseteq room'[th[m].sess].sinks
      BY <1>5, <1>6
    <3>3. th[m].sess \in Refs
      BY DEF TypeOK
    <3>4. QED
      BY <1>2, <3>1, <3>2, <3>3 DEF Serving, Busy, Bound, Connected, Refs
  <2>3. QED
    BY <2>1, <2>2
<1>9. Roles' /\ Filed'
  BY <1>2 DEF Roles, Filed
<1>10. Seated'
  <2>1. ASSUME NEW d \in Conns, d = c \/ ~ Joins(d) PROVE ~ Joins(d)'
    BY <1>1, <1>4, <2>1 DEF Joins, IdleThread
  <2>2. ASSUME NEW x \in Sessions, NEW d \in room'[x].sinks
        PROVE  weak'[d] = x /\ state'[d] # "HANDSHAKE" /\ ~ Joins(d)'
    <3>1. d \in Conns /\ (d \in room[x].sinks \/ (d = c /\ x = s))
      BY <1>5, <1>6, <2>2 DEF TypeOK, Rooms
    <3>2. QED
      BY <1>1, <1>2, <2>1, <3>1 DEF Seated
  <2>3. ASSUME NEW x \in Sessions, room'[x].publisher # None
        PROVE  state'[room'[x].publisher] = "START_PUBLISH"
    BY <1>2, <1>5, <1>6, <2>3 DEF Seated
  <2>4. QED
    BY <2>2, <2>3 DEF Seated
<1>11. Departed'
  BY <1>2 DEF Departed, Pending
<1>12. QED
  BY <1>7, <1>8, <1>9, <1>10, <1>11

\* A connection's client has gone, and the server closes it on its own loop.
LEMMA ShapeOfClosing ==
    ASSUME Shape, NEW c \in Conns, ServerCloses(c)
    PROVE  Shape'
<1> USE RtmpAssumption DEF Shape
<1> DEFINE l == LoopOf[c]
<1>1. /\ l \in Loops /\ th[l].pc = "idle" /\ conn[c] = "gone"
      /\ conn' = [conn EXCEPT ![c] = "closed"]
      /\ timers' = [timers EXCEPT ![l] = @ \cup RemoveLater(c)]
      /\ player' = Reset(c)
      /\ UNCHANGED <<state, weak, sessions, room, leaked, th, stage, contested, robbed>>
  BY DEF ServerCloses, Idle, races
<1>2. \A t \in RemoveLater(c) :
         /\ t \in [session : Sessions, sink : Conns] /\ t.sink = c /\ t.session = weak[c]
  BY DEF RemoveLater, Lock, TypeOK, Refs
<1>3. TypeOK'
  <2>1. timers' \in [Loops -> SUBSET [session : Sessions, sink : Conns]]
    BY <1>1, <1>2 DEF TypeOK
  <2>2. player' \in [Players -> PlayerRecs]
    BY <1>1 DEF Reset, NotPlaying, TypeOK, PlayerRecs
  <2>3. QED
    BY <1>1, <2>1, <2>2 DEF TypeOK, PlayerRecs
<1>4. ASSUME NEW m \in Loops PROVE Serving(m)'
  <2>1. th[m].pc \in Busy => th[m].conn # c
    BY <1>1 DEF Serving, Busy
  <2>2. QED
    BY <1>1, <2>1 DEF Serving, Busy, Bound, Connected, TypeOK
<1>5. Roles' /\ Filed' /\ Seated'
  BY <1>1 DEF Roles, Filed, Seated, Joins, TypeOK
<1>6. Departed'
  <2>1. Pending' = Pending \cup RemoveLater(c)
    BY <1>1, PendingIs DEF TypeOK, Loops
  <2>2. QED
    BY <1>1, <1>2, <2>1, PendingTyped DEF Departed, TypeOK
<1>7. QED
  BY <1>3, <1>4, <1>5, <1>6

\* The thread takes a timer that is due.
LEMMA ShapeOfTimers ==
    ASSUME Shape, NEW l \in Loops, NEW t \in timers[l], TimerDue(l, t)
    PROVE  Shape'
<1> USE RtmpAssumption DEF Shape
<1> DEFINE r == [pc |-> "removing", conn |-> t.sink, sess |-> t.session, kind |-> None, todo |-> {}]
<1>1. /\ t \in Pending /\ t.sink \in Conns /\ t.session \in Sessions /\ t.session # None
      /\ conn[t.sink] = "closed" /\ weak[t.sink] = t.session
      /\ th[l].pc = "idle"
      /\ timers' = [timers EXCEPT ![l] = timers[l] \ {t}]
      /\ UNCHANGED <<conn, state, weak, sessions, room, leaked, stage, player, contested, robbed>>
  BY DEF TimerDue, NextTimers, TypeOK, Idle, Pending, Departed, races
<1>2. r \in Recs
  BY <1>1 DEF Recs, Refs
<1>3. th' = [th EXCEPT ![l] = r]
  BY Begun DEF TimerDue
<1>4. /\ th' \in [Loops -> Recs] /\ th'[l] = r
      /\ \A m \in Loops \ {l} : th'[m] = th[m]
  BY <1>2, <1>3, ThreadStep
<1>5. TypeOK'
  BY <1>1, <1>4 DEF TypeOK, Recs
<1>6. ASSUME NEW m \in Loops PROVE Serving(m)'
  <2>1. CASE m = l
    BY <1>1, <1>4, <2>1 DEF Serving, Busy, Bound
  <2>2. CASE m # l
    BY <1>1, <1>4, <2>2 DEF Serving, Busy, Bound, Connected
  <2>3. QED
    BY <2>1, <2>2
<1>7. Roles' /\ Filed'
  BY <1>1 DEF Roles, Filed
<1>8. Seated'
  <2>1. \A d \in Conns : Joins(d)' => Joins(d)
    BY <1>4 DEF Joins
  <2>2. \A x \in Sessions : room[x].sinks \subseteq Conns
    BY DEF TypeOK
  <2>3. QED
    BY <1>1, <2>1, <2>2 DEF Seated
<1>9. Departed'
  <2>1. Pending' \subseteq Pending
    BY <1>1, PendingIs DEF TypeOK, Loops
  <2>2. QED
    BY <1>1, <2>1 DEF Departed
<1>10. QED
  BY <1>5, <1>6, <1>7, <1>8, <1>9

\* RemoveSink.
LEMMA ShapeOfRemoving ==
    ASSUME Shape, NEW l \in Loops, RemoveSink(l)
    PROVE  Shape'
<1> USE RtmpAssumption DEF Shape
<1> DEFINE s == th[l].sess
           sink == th[l].conn
<1>1. /\ s \in Sessions /\ sink \in Conns /\ th[l].pc = "removing"
      /\ room' = [room EXCEPT ![s] = RemovedSink(@, sink)]
      /\ th' = [th EXCEPT ![l] = IdleThread]
      /\ UNCHANGED <<conn, state, weak, sessions, timers, leaked, stage, player, contested, robbed>>
      /\ SessionFree(s)
  BY DEF RemoveSink, Serving, TypeOK, Refs, races
<1>0. /\ th' \in [Loops -> Recs] /\ th'[l] = IdleThread
      /\ \A m \in Loops \ {l} : th'[m] = th[m]
  BY <1>1, ThreadStep DEF IdleThread, Recs, Refs
<1>2. /\ RemovedSink(room[s], sink) \in Rooms
      /\ RemovedSink(room[s], sink).sinks = room[s].sinks \ {sink}
      /\ RemovedSink(room[s], sink).publisher = room[s].publisher
  <2>1. room[s] \in Rooms
    BY <1>1 DEF TypeOK, Rooms
  <2>2. PICK h \in Publishers \cup {None} :
          h = IF state[sink] = "START_PUBLISH" THEN None ELSE room[s].header
    BY <2>1 DEF Rooms
  <2>3. PICK left \in SUBSET Conns : left = room[s].sinks \ {sink}
    BY <2>1 DEF Rooms
  <2> DEFINE q == [room[s] EXCEPT !.sinks = left, !.header = h]
  <2>4. q \in Rooms /\ q.sinks = left /\ q.publisher = room[s].publisher
    BY <2>1 DEF Rooms
  <2>5. RemovedSink(room[s], sink) = q
    BY <2>2, <2>3 DEF RemovedSink
  <2> HIDE DEF q
  <2>6. QED
    BY <2>3, <2>4, <2>5
<1>3. /\ room' \in [Sessions -> Rooms] /\ room'[s] = RemovedSink(room[s], sink)
      /\ \A x \in Sessions \ {s} : room'[x] = room[x]
  BY <1>1, <1>2 DEF TypeOK, Rooms
<1>4. TypeOK'
  BY <1>0, <1>1, <1>3 DEF TypeOK, Rooms, Recs
<1>5. ASSUME NEW m \in Loops PROVE Serving(m)'
  <2>1. th[m].pc \in {"sending", "notifying"} => th[m].sess # s
    BY <1>1 DEF SessionFree
  <2>2. th[m].sess \in Refs
    BY DEF TypeOK
  <2>3. QED
    BY <1>0, <1>1, <1>3, <2>1, <2>2 DEF Serving, Busy, Bound, Connected, Refs, IdleThread
<1>6. Roles' /\ Filed'
  BY <1>1 DEF Roles, Filed
<1>7. Seated'
  <2>1. \A x \in Sessions : /\ room'[x].sinks \subseteq room[x].sinks
                            /\ room'[x].publisher = room[x].publisher
    BY <1>2, <1>3
  <2>2. \A d \in Conns : Joins(d)' => Joins(d)
    BY <1>0 DEF Joins, IdleThread
  <2>3. \A x \in Sessions : room[x].sinks \subseteq Conns
    BY DEF TypeOK
  <2>4. QED
    BY <1>1, <2>1, <2>2, <2>3 DEF Seated
<1>8. Departed'
  <2>1. Pending' = Pending
    BY <1>1 DEF Pending
  <2>2. QED
    BY <1>1, <2>1 DEF Departed
<1>9. QED
  BY <1>4, <1>5, <1>6, <1>7, <1>8

\* A publisher's message: its session is gone, or its sinks are to get it.
LEMMA ShapeOfMedia ==
    ASSUME Shape, NEW c \in Publishers, NEW k \in Kinds, Media(c, k)
    PROVE  Shape'
<1> USE RtmpAssumption DEF Shape
<1> DEFINE l == LoopOf[c]
<1>1. /\ l \in Loops /\ c \in Conns /\ conn[c] = "open" /\ state[c] = "START_PUBLISH"
      /\ th[l].pc = "idle"
      /\ UNCHANGED <<state, weak, sessions, timers, leaked, player, contested, robbed>>
  BY DEF Media, Idle, Conns, races
<1>2. stage' \in [Publishers -> {"start", "header", "frames"}]
  BY DEF Media, Sends, TypeOK
<1>3. \A m \in Loops : th[m].pc \in Busy => th[m].conn # c
  BY <1>1 DEF Serving, Busy
<1>4. Roles' /\ Filed' /\ Departed'
  <2>1. conn' = conn \/ conn' = [conn EXCEPT ![c] = "closed"]
    BY DEF Media, MediaLost, MediaGoesOut
  <2>2. Roles' /\ Filed'
    BY <1>1, <2>1 DEF Roles, Filed, TypeOK
  <2>3. Pending' = Pending
    BY <1>1 DEF Pending
  <2>4. QED
    BY <1>1, <2>1, <2>2, <2>3, PendingTyped DEF Departed, TypeOK
<1>5. CASE MediaLost(c)
  <2>1. UNCHANGED <<room, th>> /\ conn' = [conn EXCEPT ![c] = "closed"]
    BY <1>5 DEF MediaLost, races
  <2>2. TypeOK'
    BY <1>1, <1>2, <2>1 DEF TypeOK
  <2>3. \A m \in Loops : Serving(m)'
    BY <1>1, <1>3, <2>1 DEF Serving, Busy, Bound, Connected, TypeOK
  <2>4. Seated'
    BY <1>1, <2>1 DEF Seated, Joins
  <2>5. QED
    BY <1>4, <2>2, <2>3, <2>4
<1>6. CASE Lock(c) # None /\ MediaGoesOut(c, k, Lock(c))
  <2> DEFINE s == weak[c]
             alive == {v \in room[s].sinks : ConnAlive(v)}
             todo == {v \in alive : state[v] = "START_PLAY"}
             r == [pc |-> "sending", conn |-> c, sess |-> s, kind |-> k, todo |-> todo]
  <2>1. Lock(c) = s /\ s \in Sessions /\ s # None
    BY <1>1, <1>6 DEF Lock, TypeOK, Refs
  <2>2. room[s] \in Rooms
    BY <2>1 DEF TypeOK, Rooms
  <2>3. todo \subseteq Players \cap alive /\ alive \in SUBSET Conns
    BY <2>2 DEF Rooms, Roles
  <2>4. PICK h \in Publishers \cup {None} : h = IF k = "avc" THEN c ELSE room[s].header
    BY <2>2 DEF Rooms
  <2>5. /\ SessionFree(s) /\ conn' = conn
        /\ th' = [th EXCEPT ![l] = Sending(r)]
        /\ room' = [room EXCEPT ![s].sinks = alive, ![s].header = h]
    BY <1>6, <2>1, <2>4 DEF MediaGoesOut
  <2> HIDE DEF alive
  <2>6. r \in Recs
    BY <1>1, <2>1, <2>3 DEF Recs, Refs
  <2>7. /\ th' \in [Loops -> Recs] /\ th'[l] \in {r, IdleThread}
        /\ \A m \in Loops \ {l} : th'[m] = th[m]
    <3>1. IdleThread \in Recs
      BY DEF Recs, Refs, IdleThread
    <3>2. Sending(r) = IdleThread \/ Sending(r) = [pc |-> "sending", conn |-> r.conn, sess |-> r.sess,
                                                  kind |-> r.kind, todo |-> r.todo]
      BY <2>6, RoundGoesOn
    <3>3. Sending(r) \in {r, IdleThread}
      BY <3>2
    <3> DEFINE q == Sending(r)
    <3>4. q \in Recs /\ q \in {r, IdleThread} /\ th' = [th EXCEPT ![l] = q]
      BY <2>5, <2>6, <3>1, <3>3
    <3> HIDE DEF q, r
    <3>5. QED
      BY <1>1, <3>4, ThreadStep
  <2>8. /\ room' \in [Sessions -> Rooms]
        /\ room'[s].sinks = alive /\ room'[s].publisher = room[s].publisher
        /\ \A x \in Sessions \ {s} : room'[x] = room[x]
    <3> DEFINE q == [room[s] EXCEPT !.sinks = alive, !.header = h]
    <3>1. q \in Rooms /\ q.sinks = alive /\ q.publisher = room[s].publisher
      BY <2>2, <2>3 DEF Rooms
    <3>2. room' = [room EXCEPT ![s] = q]
      BY <2>1, <2>5 DEF TypeOK
    <3> HIDE DEF q
    <3>3. QED
      BY <2>1, <3>1, <3>2 DEF TypeOK, Rooms
  <2>9. TypeOK'
    BY <1>1, <1>2, <2>5, <2>7, <2>8 DEF TypeOK, Recs, Rooms
  <2>10. ASSUME NEW m \in Loops PROVE Serving(m)'
    <3>1. CASE m = l
      <4>1. CASE th'[l] = r
        <5>1. /\ th'[m].pc = "sending" /\ th'[m].conn = c /\ th'[m].sess = s
              /\ th'[m].kind = k /\ th'[m].todo = todo
          BY <3>1, <4>1
        <5>2. todo \subseteq room'[s].sinks \cap Players
          BY <2>3, <2>8
        <5>3. c # None /\ LoopOf[c] = m /\ Connected(c)' /\ state'[c] = "START_PUBLISH"
              /\ weak'[c] = s
          BY <1>1, <2>5, <3>1 DEF Connected
        <5> HIDE DEF r, todo, s
        <5>4. QED
          BY <2>1, <5>1, <5>2, <5>3 DEF Serving, Busy, Bound
      <4>2. CASE th'[l] = IdleThread
        BY <3>1, <4>2 DEF Serving, Busy, Bound, IdleThread
      <4>3. QED
        BY <2>7, <4>1, <4>2
    <3>2. CASE m # l
      <4>1. th[m].pc \in {"sending", "notifying"} => th[m].sess # s
        BY <2>5 DEF SessionFree
      <4>2. th[m].sess \in Refs
        BY DEF TypeOK
      <4>3. QED
        BY <1>1, <2>5, <2>7, <2>8, <3>2, <4>1, <4>2 DEF Serving, Busy, Bound, Connected, Refs
    <3>3. QED
      BY <3>1, <3>2
  <2>11. Seated'
    <3>1. \A x \in Sessions : /\ room'[x].sinks \subseteq room[x].sinks
                              /\ room'[x].publisher = room[x].publisher
      BY <2>1, <2>8 DEF alive
    <3>2. \A d \in Conns : Joins(d)' => Joins(d)
      BY <2>7 DEF Joins, IdleThread
    <3>3. \A x \in Sessions : room[x].sinks \subseteq Conns
      BY DEF TypeOK
    <3>4. QED
      BY <1>1, <3>1, <3>2, <3>3 DEF Seated
  <2>12. QED
    BY <1>4, <2>9, <2>10, <2>11
<1>7. QED
  BY <1>5, <1>6 DEF Media

\* A player is found gone, and closed, while the others are sent a message.
LEMMA ShapeOfFailure ==
    ASSUME Shape, NEW l \in Loops, NEW v \in Players, SendFails(l, v)
    PROVE  Shape'
<1> USE RtmpAssumption DEF Shape
<1> DEFINE q == [th[l] EXCEPT !.pc = "notifying", !.todo = Todo(l, v)]
<1>1. /\ th[l].pc = "sending" /\ v \in th[l].todo /\ v \in Conns /\ conn[v] = "gone"
      /\ conn' = [conn EXCEPT ![v] = "closed"] /\ player' = Reset(v)
      /\ UNCHANGED <<state, weak, sessions, room, stage, contested, robbed>>
  BY DEF SendFails, Conns, races
<1>2. th[l] \in Recs
  BY DEF TypeOK, Recs
<1>3. q = [pc |-> "notifying", conn |-> th[l].conn, sess |-> th[l].sess,
           kind |-> th[l].kind, todo |-> th[l].todo \ {v}]
  BY <1>2, Changed DEF Todo
<1>4. q \in Recs
  BY <1>2, <1>3 DEF Recs
<1>5. th' = [th EXCEPT ![l] = q]
  BY DEF SendFails, TypeOK
<1> HIDE DEF q
<1>6. /\ th' \in [Loops -> Recs] /\ th'[l] = q
      /\ \A m \in Loops \ {l} : th'[m] = th[m]
  BY <1>4, <1>5, ThreadStep
<1>7. \A t \in RemoveLater(v) :
         /\ t \in [session : Sessions, sink : Players] /\ t.sink = v /\ t.session = weak[v]
  BY <1>1 DEF RemoveLater, Lock, TypeOK, Refs
<1>8. /\ timers' \in [Loops -> SUBSET [session : Sessions, sink : Conns]]
      /\ leaked' \subseteq [session : Sessions, sink : Players]
      /\ Pending' = Pending \cup RemoveLater(v)
  <2>1. CASE timers' = [timers EXCEPT ![LoopOf[v]] = @ \cup RemoveLater(v)] /\ leaked' = leaked
    <3>1. LoopOf[v] \in Loops /\ RemoveLater(v) \subseteq [session : Sessions, sink : Conns]
      BY <1>1, <1>7 DEF Conns
    <3>2. timers' \in [Loops -> SUBSET [session : Sessions, sink : Conns]]
      BY <2>1, <3>1 DEF TypeOK
    <3>3. Pending' = Pending \cup RemoveLater(v)
      BY <2>1, <3>1, PendingIs DEF TypeOK, Loops
    <3>4. QED
      BY <2>1, <3>2, <3>3 DEF TypeOK
  <2>2. CASE leaked' = leaked \cup RemoveLater(v) /\ timers' = timers
    BY <1>7, <2>2, PendingIs DEF TypeOK
  <2>3. QED
    BY <2>1, <2>2 DEF SendFails
<1>9. TypeOK'
  <2>1. player' \in [Players -> PlayerRecs]
    BY <1>1 DEF Reset, NotPlaying, TypeOK, PlayerRecs
  <2>2. QED
    BY <1>1, <1>6, <1>8, <2>1 DEF TypeOK, Recs, PlayerRecs
<1>10. v \in room[th[l].sess].sinks /\ th[l].sess \in Sessions
  BY <1>1 DEF Serving, Bound, TypeOK, Refs
<1>11. ~ Joins(v) /\ state[v] # "HANDSHAKE"
  BY <1>10 DEF Seated
<1>12. ASSUME NEW m \in Loops PROVE Serving(m)'
  <2>1. th[m].pc \in Busy => th[m].conn # v
    BY <1>1, <1>11 DEF Serving, Busy, Joins, Roles
  <2>2. CASE m = l
    BY <1>1, <1>3, <1>6, <2>1, <2>2 DEF Serving, Busy, Bound, Connected, TypeOK
  <2>3. CASE m # l
    BY <1>1, <1>6, <2>1, <2>3 DEF Serving, Busy, Bound, Connected, TypeOK
  <2>4. QED
    BY <2>2, <2>3
<1>13. Roles' /\ Filed'
  BY <1>1, <1>11 DEF Roles, Filed, TypeOK
<1>14. Seated'
  <2>1. \A d \in Conns : Joins(d)' => Joins(d)
    BY <1>3, <1>6 DEF Joins
  <2>2. \A x \in Sessions : room[x].sinks \subseteq Conns
    BY DEF TypeOK
  <2>3. QED
    BY <1>1, <2>1, <2>2 DEF Seated
<1>15. Departed'
  BY <1>1, <1>7, <1>8, PendingTyped DEF Departed, TypeOK
<1>16. QED
  BY <1>9, <1>12, <1>13, <1>14, <1>15

\* At first nobody is connected.
LEMMA ShapeInit ==
    ASSUME Init
    PROVE  Shape
<1> USE RtmpAssumption DEF Init
<1>1. TypeOK
  BY DEF TypeOK, EmptyRoom, IdleThread, NotPlaying, Refs
<1>2. ASSUME NEW l \in Loops PROVE Serving(l)
  BY DEF Serving, IdleThread, Busy, Bound
<1>3. Roles /\ Filed
  BY DEF Roles, Filed
<1>4. Seated
  BY DEF Seated, EmptyRoom
<1>5. Departed
  BY PendingIs DEF Departed, Loops
<1>6. QED
  BY <1>1, <1>2, <1>3, <1>4, <1>5 DEF Shape

\* Every step keeps the shape.
LEMMA ShapeStep ==
    ASSUME Shape, [Next]_vars
    PROVE  Shape'
<1>1. ASSUME NEW c \in Conns, Opens(c) \/ Leaves(c) PROVE Shape'
  BY <1>1, ShapeOfClients
<1>2. ASSUME NEW c \in Publishers, PublishAsks(c) PROVE Shape'
  <2>1. c \in Conns /\ LoopOf[c] \in Loops
    BY RtmpAssumption DEF Conns
  <2>2. QED
    BY <1>2, <2>1, ShapeOfVisits DEF Visits
<1>3. ASSUME NEW c \in Publishers, NEW k \in Kinds, Media(c, k) PROVE Shape'
  BY <1>3, ShapeOfMedia
<1>4. ASSUME NEW c \in Players, PlayStarts(c) PROVE Shape'
  <2>1. c \in Conns /\ LoopOf[c] \in Loops
    BY RtmpAssumption DEF Conns
  <2>2. QED
    BY <1>4, <2>1, ShapeOfVisits DEF Visits
<1>5. ASSUME NEW l \in Loops, Continues(l) PROVE Shape'
  <2>1. CASE PublishRefused(l) \/ PublishAccepted(l)
    BY <2>1, ShapeOfAsking
  <2>2. CASE PublishStarts(l)
    <3>1. th[l].conn \in Conns /\ LoopOf[th[l].conn] = l
      BY <2>2 DEF PublishStarts, Shape, Serving, Busy, Conns, TypeOK
    <3>2. QED
      BY <2>2, <3>1, ShapeOfVisits DEF Visits
  <2>3. CASE LocksSession(l) \/ AddSink(l)
    BY <2>3, ShapeOfLocking, ShapeOfAdding
  <2>4. ASSUME NEW v \in Players, SendFails(l, v) PROVE Shape'
    BY <2>4, ShapeOfFailure
  <2>5. CASE Notified(l) \/ \E v \in Players : SendOne(l, v)
    BY <2>5, ShapeOfSending
  <2>6. CASE (\E p \in Paths : CleansOne(p)) \/ RemoveSink(l)
    BY <2>6, ShapeOfCleaning, ShapeOfRemoving
  <2>7. QED
    BY <1>5, <2>1, <2>2, <2>3, <2>4, <2>5, <2>6 DEF Continues
<1>6. ASSUME NEW l \in Loops, NextTimer(l) PROVE Shape'
  BY <1>6, ShapeOfTimers DEF NextTimer
<1>7. ASSUME NEW l \in Loops, Closes(l) PROVE Shape'
  BY <1>7, ShapeOfClosing DEF Closes
<1>8. CASE CleanStarts
  BY <1>8, ShapeOfCleaning
<1>9. CASE UNCHANGED vars
  BY <1>9 DEF vars, races, Shape, TypeOK, Serving, Connected, Roles, Seated, Joins, Departed,
              Pending, Filed
<1>10. QED
  BY <1>1, <1>2, <1>3, <1>4, <1>5, <1>6, <1>7, <1>8, <1>9 DEF Next

\* Whatever the publishers, the players and their loops do, every variable has its
\* type: among others, no RemoveSink is pending for a session that is not known, and
\* a name is free whenever GetSession needs one for a new session.
THEOREM RtmpTypes == Spec => []TypeOK
<1>1. Init => Shape
  BY ShapeInit
<1>2. Shape /\ [Next]_vars => Shape'
  BY ShapeStep
<1>3. Shape => TypeOK
  BY DEF Shape
<1>4. QED
  BY <1>1, <1>2, <1>3, PTL DEF Spec

----------------------------------------------------------------------------
(* What a step that leaves the rooms alone keeps.                             *)

\* The threads and what they send, and the type of a thread.
LEMMA Typed ==
    ASSUME Shape
    PROVE  /\ \A c \in Publishers : c \in Conns /\ c \notin Players /\ c # None
           /\ \A v \in Players : v \in Conns /\ v \notin Publishers
           /\ \A c \in Conns : LoopOf[c] \in Loops /\ PathOf[c] \in Paths /\ c # None
           /\ th \in [Loops -> Recs] /\ IdleThread \in Recs
           /\ \A l \in Loops : th[l].pc \in {"asked", "accepted", "sending", "notifying"} =>
                th[l].conn \in Publishers
           /\ \A c \in Conns : weak[c] # None => weak[c] \in Sessions
           /\ \A p \in Paths : sessions[p] # None => sessions[p] \in Sessions
           /\ 0 \in Loops
BY RtmpAssumption DEF Shape, Serving, Roles, Busy, Conns, Loops, TypeOK, Recs, Refs, IdleThread

\* What a step that makes no session does to connections, timers and a thread's locals.
Settles(l, r) ==
    /\ th' = [th EXCEPT ![l] = r]
    /\ \A d \in Conns : conn[d] # "new" /\ Connected(d)' => Connected(d)
    /\ \A t \in Pending' : t \in Pending \/ (Connected(t.sink) /\ SessionAlive(t.session))
    /\ r.pc = "removing" => r = th[l] \/ \E t \in Pending : t.sink = r.conn

Loses(r) ==
    /\ r.sess # None => SessionAlive(r.sess)
    /\ \A p \in Paths : sessions'[p] # None => sessions'[p] = sessions[p]

\* A connection that nothing keeps alive any more is never alive again.
LEMMA StayDead ==
    ASSUME Shape, Shape', NEW l \in Loops, NEW r \in Recs, Settles(l, r)
    PROVE  \A d \in Conns : conn[d] # "new" /\ ConnAlive(d)' => ConnAlive(d)
<1> SUFFICES ASSUME NEW d \in Conns, conn[d] # "new", ConnAlive(d)' PROVE ConnAlive(d)
  OBVIOUS
<1>0. /\ th'[l] = r /\ \A m \in Loops \ {l} : th'[m] = th[m]
  BY ThreadStep DEF Settles, Shape
<1>1. CASE Connected(d)'
  BY <1>1 DEF Settles, ConnAlive
<1>2. CASE \E t \in Pending' : t.sink = d
  BY <1>2 DEF Settles, ConnAlive
<1>3. ASSUME NEW m \in Loops, th'[m].conn = d PROVE ConnAlive(d)
  <2>1. CASE th'[m].pc \in Busy
    <3>1. Connected(d)'
      BY <1>3, <2>1 DEF Shape, Serving
    <3>2. QED
      BY <1>1, <3>1
  <2>2. CASE th'[m].pc = "removing"
    BY <1>0, <1>3, <2>2 DEF Settles, ConnAlive
  <2>3. CASE th'[m].pc \in {"idle", "cleaning"}
    BY <1>3, <2>3, RtmpAssumption DEF Shape, Serving
  <2>4. th'[m].pc \in Busy \cup {"removing", "idle", "cleaning"}
    BY DEF Shape, TypeOK, Busy
  <2>5. QED
    BY <2>1, <2>2, <2>3, <2>4
<1>4. QED
  BY <1>1, <1>2, <1>3 DEF ConnAlive

\* Nor is a session, unless GetSession makes a new one of its name.
LEMMA StayLost ==
    ASSUME Shape, NEW l \in Loops, NEW r \in Recs, Settles(l, r), Loses(r)
    PROVE  \A s \in Sessions : SessionAlive(s)' => SessionAlive(s)
<1> SUFFICES ASSUME NEW s \in Sessions, SessionAlive(s)' PROVE SessionAlive(s)
  OBVIOUS
<1>0. s # None
  BY RtmpAssumption
<1>1. /\ th'[l] = r /\ \A m \in Loops \ {l} : th'[m] = th[m]
  BY ThreadStep DEF Settles, Shape
<1>2. CASE \E p \in Paths : sessions'[p] = s
  BY <1>0, <1>2 DEF Loses, SessionAlive
<1>3. ASSUME NEW m \in Loops, th'[m].sess = s PROVE SessionAlive(s)
  BY <1>0, <1>1, <1>3 DEF Loses, SessionAlive
<1>4. CASE \E t \in Pending' : t.session = s
  BY <1>4 DEF Settles, SessionAlive
<1>5. QED
  BY <1>2, <1>3, <1>4 DEF SessionAlive

\* Two loops are not in HandlePublish of a stream that is not contested: whoever has
\* its turn there sees everybody who publishes it.
LEMMA SeenByAll ==
    ASSUME Shape, Placed, Ownership, NEW l \in Loops, Handles(l), NEW d \in Publishers,
           d # th[l].conn, Claims(d, weak[d]), SessionAlive(weak[d]),
           PathOf[d] = PathOf[th[l].conn], PathOf[d] \notin contested
    PROVE  ~ Joins(d) /\ HasPublisher(weak[d]) /\ room[weak[d]].publisher = d
<1>1. ~ Joins(d)
  BY Typed DEF Ownership, Alone, Handles, Joins
<1>2. room[weak[d]].publisher = d
  BY <1>1 DEF Ownership, Owned
<1>3. ConnAlive(d)
  BY DEF Claims
<1>4. QED
  BY <1>1, <1>2, <1>3, Typed DEF HasPublisher

\* How a thread goes on in HandlePublish.
Follows(l, r) ==
    r.pc \in {"asked", "accepted", "told", "adding"} /\ r.conn \in Publishers =>
        /\ th[l].conn = r.conn
        /\ \/ r.pc = th[l].pc /\ r.sess = th[l].sess
           \/ r.pc = "accepted" /\ th[l].pc = "asked" /\ ~ HasPublisher(th[l].sess)
           \/ r.pc = "adding" /\ th[l].pc = "told"

\* A step that leaves the rooms alone keeps who owns them.
LEMMA OwnershipStands ==
    ASSUME Shape, Shape', Placed, Ownership,
           NEW l \in Loops, NEW r \in Recs, Settles(l, r), Loses(r), Follows(l, r),
           UNCHANGED <<state, weak, room, stage, contested>>,
           \A c \in Publishers : Joins(c) =>
               Joins(c)' \/ weak[c] = None \/ ~ SessionAlive(weak[c])
    PROVE  Ownership'
<1> USE DEF Ownership
<1>0. /\ th'[l] = r /\ \A m \in Loops \ {l} : th'[m] = th[m]
  BY ThreadStep DEF Settles, Shape
<1>1. ASSUME NEW c \in Publishers, NEW s, Claims(c, s)' PROVE Claims(c, s)
  <2>1. conn[c] # "new"
    BY <1>1, Typed DEF Claims, Shape, Roles
  <2>2. ConnAlive(c)
    BY <1>1, <2>1, StayDead, Typed DEF Claims
  <2>3. QED
    BY <1>1, <2>2 DEF Claims
<1>2. ASSUME NEW c \in Publishers, Joins(c)' PROVE Joins(c)
  BY <1>0, <1>2, Typed DEF Joins, Follows
<1>3. ASSUME NEW m \in Loops, Handles(m)'
      PROVE  Handles(m) /\ th'[m].conn = th[m].conn
  BY <1>0, <1>3 DEF Handles, Follows
<1>4. Alone'
  BY <1>3 DEF Alone
<1>5. Early'
  BY <1>2 DEF Early
<1>6. Owned'
  <2> SUFFICES ASSUME NEW c \in Publishers, Claims(c, weak[c])', ~ Joins(c)',
                      SessionAlive(weak[c])', PathOf[c] \notin contested
               PROVE  /\ room[weak[c]].publisher = c
                      /\ Connected(c)' => /\ c \in room[weak[c]].sinks
                                          /\ stage[c] # "start" => room[weak[c]].header = c
    BY DEF Owned
  <2>1. Claims(c, weak[c])
    BY <1>1
  <2>2. weak[c] # None /\ weak[c] \in Sessions /\ SessionAlive(weak[c])
    BY <2>1, StayLost, Typed DEF Claims
  <2>3. ~ Joins(c)
    BY <2>2
  <2>4. Connected(c)' => Connected(c)
    BY <2>1, Typed DEF Claims, Settles, Shape, Roles
  <2>5. QED
    BY <2>1, <2>2, <2>3, <2>4 DEF Owned
<1>7. ASSUME NEW c \in Publishers, NEW s, Free(c, s) PROVE Free(c, s)'
  BY <1>1, <1>7 DEF Free
<1>8. ASSUME NEW c \in Publishers PROVE Free(c, None)'
  BY DEF Free, Claims
<1>9. Admitted'
  <2> SUFFICES ASSUME NEW m \in Loops, NEW c \in Publishers, Handles(m)', Handles(m),
                      c = th[m].conn, th'[m].conn = c, PathOf[c] \notin contested
               PROVE  /\ th'[m].pc = "asked" =>
                           sessions'[PathOf[c]] = th'[m].sess \/ Free(c, sessions[PathOf[c]])'
                      /\ th'[m].pc = "accepted" => Free(c, sessions[PathOf[c]])'
                      /\ th'[m].pc \in {"told", "adding"} => Free(c, weak[c])'
    BY <1>3 DEF Admitted, Handles
  <2> DEFINE p == PathOf[c]
  <2>1. p \in Paths
    BY Typed
  <2>2. Free(c, sessions[p]) => Free(c, sessions[p])'
    <3>1. CASE sessions'[p] = None
      BY <1>8, <2>1, <3>1 DEF Free, Claims
    <3>2. CASE sessions'[p] # None
      <4>1. sessions'[p] = sessions[p]
        BY <2>1, <3>2 DEF Loses
      <4>2. QED
        BY <1>1, <2>1, <4>1 DEF Free
    <3>3. QED
      BY <3>1, <3>2
  <2>3. Free(c, weak[c]) => Free(c, weak[c])'
    BY <1>1, <2>1 DEF Free
  <2>4. CASE th'[m].pc = th[m].pc /\ th'[m].sess = th[m].sess
    <3>1. CASE th[m].pc = "asked" /\ sessions[p] = th[m].sess /\ sessions'[p] = None
      BY <1>8, <2>1, <2>4, <3>1 DEF Free, Claims
    <3>2. CASE th[m].pc = "asked" /\ sessions[p] = th[m].sess /\ sessions'[p] # None
      BY <2>1, <2>4, <3>2 DEF Loses
    <3>3. CASE th[m].pc = "asked" /\ Free(c, sessions[p])
      BY <2>1, <2>2, <2>4, <3>3
    <3>4. CASE th[m].pc # "asked"
      BY <2>1, <2>2, <2>3, <2>4, <3>4 DEF Admitted, Handles
    <3>5. QED
      BY <2>1, <3>1, <3>2, <3>3, <3>4 DEF Admitted, Handles
  <2>5. CASE th'[m].pc = "accepted" /\ th[m].pc = "asked" /\ ~ HasPublisher(th[m].sess)
    <3>1. sessions[p] = th[m].sess => Free(c, sessions[p])
      <4> SUFFICES ASSUME sessions[p] = th[m].sess, NEW d \in Publishers \ {c}, Claims(d, sessions[p])
                   PROVE  FALSE
        BY DEF Free
      <4>1. weak[d] = sessions[p] /\ weak[d] # None /\ d \in Conns /\ Claims(d, weak[d])
        BY Typed DEF Claims
      <4>2. PathOf[d] = p
        BY <2>1, <4>1 DEF Placed, Shape, Filed
      <4>3. SessionAlive(weak[d])
        BY <2>1, <4>1 DEF SessionAlive
      <4>4. HasPublisher(weak[d])
        BY <2>1, <4>1, <4>2, <4>3, SeenByAll
      <4>5. QED
        BY <2>5, <4>1, <4>4
    <3>2. Free(c, sessions[p])
      BY <2>1, <2>5, <3>1 DEF Admitted
    <3>3. QED
      BY <2>1, <2>2, <2>5, <3>2
  <2>6. CASE th'[m].pc = "adding" /\ th[m].pc = "told"
    BY <2>1, <2>3, <2>6 DEF Admitted
  <2>7. QED
    BY <1>0, <2>1, <2>4, <2>5, <2>6 DEF Follows, Handles
<1>10. QED
  BY <1>4, <1>5, <1>6, <1>9

\* Nor does such a step take a session from anybody, if the map keeps theirs.
LEMMA KeptStands ==
    ASSUME Shape, Kept, UNCHANGED <<state, weak, room>>, robbed \subseteq robbed',
           \A d \in Conns : conn[d] # "new" /\ Connected(d)' => Connected(d),
           \A c \in Conns \ robbed' : Connected(c) /\ state[c] # "HANDSHAKE" =>
               /\ sessions'[PathOf[c]] = sessions[PathOf[c]]
               /\ Joins(c) => Joins(c)'
    PROVE  Kept'
<1> SUFFICES ASSUME NEW c \in Conns \ robbed', Connected(c)', state[c] # "HANDSHAKE"
             PROVE  /\ weak[c] # None /\ sessions'[PathOf[c]] = weak[c]
                    /\ ~ Joins(c)' => c \in room[weak[c]].sinks
  BY DEF Kept
<1>1. Connected(c) /\ c \in Conns \ robbed
  BY DEF Shape, Roles
<1>2. QED
  BY <1>1 DEF Kept

\* Flags that have been reset.
LEMMA ResetFlags == ~ NotPlaying.playing /\ ~ NotPlaying.key /\ ~ NotPlaying.broken
BY DEF NotPlaying

SendingPcs == {"sending", "notifying"}

\* A step in which nothing is sent and nobody but a player that has closed stops
\* waiting for what is being sent.
LEMMA DecodingStands ==
    ASSUME Shape, Decoding, UNCHANGED <<state, weak, stage, contested>>,
           \A c \in Publishers : Publishing(c)' => Publishing(c),
           \A c \in Publishers : Publishing(c) /\ weak[c] # None =>
               (SessionAlive(weak[c])' => SessionAlive(weak[c])),
           \A s \in Sessions : room'[s].sinks \cap Players \subseteq room[s].sinks,
           \A v \in Players :
               /\ player'[v] = player[v] \/ player'[v] = NotPlaying
               /\ conn'[v] = "closed" => conn[v] = "closed" \/ ~ player'[v].playing
               /\ Joins(v)' => Joins(v),
           \A l \in Loops :
               \/ th'[l].pc \notin SendingPcs /\ th[l].pc \notin SendingPcs
               \/ th[l].todo = {} /\ th'[l].pc \notin SendingPcs
               \/ /\ th'[l].pc \in SendingPcs /\ th[l].pc \in SendingPcs
                  /\ th'[l].conn = th[l].conn /\ th'[l].kind = th[l].kind
                  /\ \A v \in Players : player'[v].playing /\ v \in th[l].todo => v \in th'[l].todo
    PROVE  Decoding'
<1> USE DEF Decoding
<1>1. Watched'
  <2> SUFFICES ASSUME NEW c \in Publishers, NEW v \in Players,
                      Publishing(c)', weak[c] # None, SessionAlive(weak[c])',
                      PathOf[c] \notin contested,
                      v \in room'[weak[c]].sinks, player'[v].playing
               PROVE  /\ stage[c] # "start" /\ ~ Awaits(v, c, "avc")' =>
                           player'[v].avc /\ player'[v].sawHeader = c
                      /\ stage[c] = "frames" /\ player'[v].key /\ ~ Awaits(v, c, "key")' =>
                           player'[v].sawKey = c
    BY DEF Watched
  <2>1. player'[v] = player[v]
    BY ResetFlags
  <2>2. weak[c] \in Sessions /\ v \in room[weak[c]].sinks /\ LoopOf[c] \in Loops
    BY Typed
  <2>3. \A k \in Kinds : Awaits(v, c, k) => Awaits(v, c, k)'
    BY <2>1, <2>2 DEF Awaits, SendingPcs
  <2>4. Publishing(c) /\ SessionAlive(weak[c])
    OBVIOUS
  <2>5. QED
    BY <2>1, <2>2, <2>3, <2>4 DEF Watched, Kinds
<1>2. Fresh'
  BY ResetFlags DEF Fresh
<1>3. Staged'
  BY DEF Staged, SendingPcs
<1>4. QED
  BY <1>1, <1>2, <1>3

Before == IInv /\ Shape'

After == Placed' /\ Kept' /\ Ownership' /\ Decoding'

----------------------------------------------------------------------------
(* Each step keeps the invariant.                                             *)

\* A thread that does nothing.
LEMMA Resting ==
    ASSUME Shape, UNCHANGED th
    PROVE  /\ th' = [th EXCEPT ![0] = th[0]] /\ th[0] \in Recs /\ 0 \in Loops
           /\ Follows(0, th[0])
           /\ th[0].sess # None => SessionAlive(th[0].sess)
BY Typed DEF Follows, SessionAlive

\* Clients come and go.
LEMMA KeptByClients ==
    ASSUME Before, NEW c \in Conns, Opens(c) \/ Leaves(c)
    PROVE  After
<1> USE DEF Before, IInv
<1>1. UNCHANGED <<state, weak, sessions, room, timers, leaked, th, stage, player, contested, robbed>>
  BY DEF Opens, Leaves, races
<1>2. \A d \in Conns : conn[d] # "new" /\ Connected(d)' => Connected(d)
  BY DEF Opens, Leaves, Connected, Shape, TypeOK
<1>3. Pending' = Pending /\ \A d \in Conns : Joins(d)' <=> Joins(d)
  BY <1>1 DEF Pending, Joins
<1>4. Settles(0, th[0]) /\ Loses(th[0])
  BY <1>1, <1>2, <1>3, Resting DEF Settles, Loses
<1>5. Ownership'
  BY <1>1, <1>3, <1>4, Resting, Typed, OwnershipStands
<1>6. Placed' /\ Kept'
  BY <1>1, <1>2, <1>3, KeptStands DEF Placed
<1>7. \A d \in Publishers : Publishing(d)' => Publishing(d)
  BY <1>1, <1>2, Typed DEF Publishing, Shape, Roles
<1>8. \A s \in Sessions : SessionAlive(s)' => SessionAlive(s)
  BY <1>1, <1>3 DEF SessionAlive
<1>9. \A v \in Players : conn'[v] = "closed" => conn[v] = "closed"
  BY Typed DEF Opens, Leaves, Shape, TypeOK
<1>10. Decoding'
  BY <1>1, <1>3, <1>7, <1>8, <1>9, Typed, DecodingStands
<1>11. QED
  BY <1>5, <1>6, <1>10 DEF After

\* The name is taken, or free.
LEMMA KeptByAsking ==
    ASSUME Before, NEW l \in Loops, PublishRefused(l) \/ PublishAccepted(l)
    PROVE  After
<1> USE DEF Before, IInv
<1> DEFINE c == th[l].conn
<1>1. /\ UNCHANGED <<state, weak, sessions, room, timers, leaked, stage, player, contested, robbed>>
      /\ th[l].pc = "asked" /\ c \in Publishers /\ state[c] = "HANDSHAKE"
  BY DEF PublishRefused, PublishAccepted, Shape, Serving, races
<1>2. PICK r \in Recs :
         /\ th' = [th EXCEPT ![l] = r] /\ r.sess = None
         /\ \/ conn' = [conn EXCEPT ![c] = "closed"] /\ r.pc = "idle"
            \/ conn' = conn /\ r.pc = "accepted" /\ r.conn = c /\ ~ HasPublisher(th[l].sess)
  <2>1. CASE PublishRefused(l)
    BY <2>1, Typed DEF PublishRefused, IdleThread
  <2>2. CASE PublishAccepted(l)
    <3> DEFINE q == [pc |-> "accepted", conn |-> c, sess |-> None,
                     kind |-> th[l].kind, todo |-> th[l].todo]
           u == [th[l] EXCEPT !.pc = "accepted", !.sess = None]
    <3>1. th[l] \in Recs
      BY Typed
    <3>2. q \in Recs
      BY <3>1 DEF Recs, Refs
    <3>3. u = q
      BY <3>1, Changed
    <3>4. th' = [th EXCEPT ![l] = u]
      BY <2>2, Typed DEF PublishAccepted
    <3>5. q.sess = None /\ q.pc = "accepted" /\ q.conn = c
      OBVIOUS
    <3> HIDE DEF q, u
    <3>6. QED
      BY <2>2, <3>2, <3>3, <3>4, <3>5 DEF PublishAccepted
  <2>3. QED
    BY <2>1, <2>2
<1>0. /\ th'[l] = r /\ \A m \in Loops \ {l} : th'[m] = th[m]
  BY <1>2, ThreadStep DEF Shape
<1>3. Pending' = Pending
  BY <1>1 DEF Pending
<1>4. \A d \in Conns : (Joins(d)' <=> Joins(d)) /\ (Connected(d)' => Connected(d))
  BY <1>0, <1>1, <1>2, Typed DEF Joins, Connected, Shape, TypeOK
<1>5. Settles(l, r) /\ Loses(r) /\ Follows(l, r)
  BY <1>1, <1>2, <1>3, <1>4 DEF Settles, Loses, Follows
<1>6. Ownership'
  BY <1>1, <1>4, <1>5, Typed, OwnershipStands
<1>7. Placed' /\ Kept'
  BY <1>1, <1>4, KeptStands DEF Placed
<1>8. \A v \in Players : conn'[v] = "closed" => conn[v] = "closed"
  BY <1>1, <1>2, Typed DEF Shape, TypeOK
<1>9. \A d \in Publishers : Publishing(d)' => Publishing(d)
  BY <1>1, <1>4, Typed DEF Publishing
<1>10. \A s \in Sessions : SessionAlive(s)' => SessionAlive(s)
  BY <1>5, StayLost
<1>11. \A m \in Loops : \/ th'[m] = th[m]
                        \/ th'[m].pc \notin SendingPcs /\ th[m].pc \notin SendingPcs
  BY <1>0, <1>1, <1>2 DEF SendingPcs
<1>12. Decoding'
  BY <1>1, <1>4, <1>8, <1>9, <1>10, <1>11, Typed, DecodingStands
<1>13. QED
  BY <1>6, <1>7, <1>12 DEF After

\* A joining connection locks its session, or finds it gone: then it was robbed.
LEMMA KeptByLocking ==
    ASSUME Before, NEW l \in Loops, LocksSession(l)
    PROVE  After
<1> USE DEF Before, IInv
<1> DEFINE c == th[l].conn
<1>1. /\ UNCHANGED <<conn, state, weak, sessions, room, timers, leaked, stage, player, contested, robbed>>
      /\ th[l].pc = "told" /\ c \in Conns /\ LoopOf[c] = l /\ Connected(c)
      /\ state[c] # "HANDSHAKE"
  BY DEF LocksSession, Shape, Serving, Busy, TypeOK, races
<1>2. PICK r \in Recs :
         /\ th' = [th EXCEPT ![l] = r]
         /\ \/ Lock(c) = None /\ r.pc = "idle" /\ r.sess = None
            \/ r.pc = "adding" /\ r.conn = c /\ r.sess = Lock(c) /\ Lock(c) # None
  <2>1. CASE Lock(c) = None
    BY <2>1, Typed DEF LocksSession, IdleThread
  <2>2. CASE Lock(c) # None
    <3> DEFINE q == [th[l] EXCEPT !.pc = "adding", !.sess = Lock(c)]
    <3>1. th[l] \in Recs
      BY Typed
    <3>2. q = [pc |-> "adding", conn |-> c, sess |-> Lock(c),
               kind |-> th[l].kind, todo |-> th[l].todo]
      BY <3>1, Changed
    <3>3. Lock(c) \in Refs
      BY <1>1, <2>2, Typed DEF Lock, Refs
    <3>4. q \in Recs
      BY <3>1, <3>2, <3>3 DEF Recs
    <3>5. th' = [th EXCEPT ![l] = q]
      BY <2>2, Typed DEF LocksSession
    <3> HIDE DEF q
    <3>6. QED
      BY <2>2, <3>2, <3>4, <3>5
  <2>3. QED
    BY <2>1, <2>2
<1>0. /\ th'[l] = r /\ \A m \in Loops \ {l} : th'[m] = th[m]
  BY <1>2, ThreadStep DEF Shape
<1>3. Pending' = Pending
  BY <1>1 DEF Pending
<1>4. Settles(l, r) /\ Loses(r) /\ Follows(l, r)
  BY <1>1, <1>2, <1>3 DEF Settles, Loses, Follows, Connected, Lock
<1>5. /\ \A d \in Conns : Joins(d)' => Joins(d)
      /\ \A d \in Conns : Joins(d) => Joins(d)' \/ Lock(d) = None
  BY <1>0, <1>1, <1>2, Typed DEF Joins
<1>6. Ownership'
  BY <1>1, <1>4, <1>5, Typed, OwnershipStands DEF Lock
<1>7. Kept'
  <2>1. ASSUME NEW d \in Conns \ robbed, Connected(d), state[d] # "HANDSHAKE"
        PROVE  Lock(d) # None
    BY <2>1, Typed DEF Kept, Lock, SessionAlive
  <2>2. QED
    BY <1>1, <1>5, <2>1, KeptStands DEF Connected
<1>8. Placed'
  BY <1>1 DEF Placed
<1>9. \A d \in Publishers : Publishing(d)' => Publishing(d)
  BY <1>1 DEF Publishing, Connected
<1>10. \A s \in Sessions : SessionAlive(s)' => SessionAlive(s)
  BY <1>4, StayLost
<1>11. \A m \in Loops : \/ th'[m] = th[m]
                        \/ th'[m].pc \notin SendingPcs /\ th[m].pc \notin SendingPcs
  BY <1>0, <1>1, <1>2 DEF SendingPcs
<1>12. Decoding'
  BY <1>1, <1>5, <1>9, <1>10, <1>11, Typed, DecodingStands
<1>13. QED
  BY <1>6, <1>7, <1>8, <1>12 DEF After

\* A connection is closed on its own loop.
LEMMA KeptByClosing ==
    ASSUME Before, NEW c \in Conns, ServerCloses(c)
    PROVE  After
<1> USE DEF Before, IInv
<1>1. /\ conn[c] = "gone" /\ Connected(c)
      /\ conn' = [conn EXCEPT ![c] = "closed"] /\ player' = Reset(c)
      /\ UNCHANGED <<state, weak, sessions, room, leaked, th, stage, contested, robbed>>
  BY DEF ServerCloses, Connected, races
<1>2. \A d \in Conns : (Joins(d)' <=> Joins(d)) /\ (Connected(d)' => Connected(d))
  BY <1>1 DEF Joins, Connected, Shape, TypeOK
<1>3. \A t \in Pending' : t \in Pending \/ (Connected(t.sink) /\ SessionAlive(t.session))
  <2>1. \A t \in RemoveLater(c) : t.sink = c /\ SessionAlive(t.session)
    BY DEF RemoveLater, Lock
  <2>2. Pending' \subseteq Pending \cup RemoveLater(c)
    BY <1>1, PendingIs DEF ServerCloses, Shape, TypeOK, Loops
  <2>3. QED
    BY <1>1, <2>1, <2>2
<1>4. Settles(0, th[0]) /\ Loses(th[0])
  BY <1>1, <1>2, <1>3, Resting DEF Settles, Loses
<1>5. Ownership'
  BY <1>1, <1>2, <1>4, Resting, Typed, OwnershipStands
<1>6. Placed' /\ Kept'
  BY <1>1, <1>2, KeptStands DEF Placed
<1>7. \A d \in Publishers : Publishing(d)' => Publishing(d)
  BY <1>1, <1>2, Typed DEF Publishing
<1>8. \A s \in Sessions : SessionAlive(s)' => SessionAlive(s)
  BY <1>4, Resting, <1>1, StayLost
<1>9. \A v \in Players :
         /\ player'[v] = player[v] \/ player'[v] = NotPlaying
         /\ conn'[v] = "closed" => conn[v] = "closed" \/ ~ player'[v].playing
  BY <1>1, ResetFlags, Typed DEF Reset, Shape, TypeOK
<1>10. Decoding'
  BY <1>1, <1>2, <1>7, <1>8, <1>9, Typed, DecodingStands
<1>11. QED
  BY <1>5, <1>6, <1>10 DEF After

\* A player is closed in the middle of a message, which it no longer waits for.
LEMMA KeptByFailure ==
    ASSUME Before, NEW l \in Loops, NEW v \in Players, SendFails(l, v)
    PROVE  After
<1> USE DEF Before, IInv
<1>1. /\ th[l].pc = "sending" /\ v \in Conns /\ conn[v] = "gone" /\ Connected(v)
      /\ conn' = [conn EXCEPT ![v] = "closed"] /\ player' = Reset(v)
      /\ UNCHANGED <<state, weak, sessions, room, stage, contested, robbed>>
  BY Typed DEF SendFails, Connected, races
<1> DEFINE r == [pc |-> "notifying", conn |-> th[l].conn, sess |-> th[l].sess,
                 kind |-> th[l].kind, todo |-> th[l].todo \ {v}]
<1>2. r \in Recs /\ th' = [th EXCEPT ![l] = r]
  <2> DEFINE q == [th[l] EXCEPT !.pc = "notifying", !.todo = Todo(l, v)]
  <2>1. th[l] \in Recs
    BY Typed
  <2>2. q = r
    BY <2>1, Changed DEF Todo
  <2>3. th' = [th EXCEPT ![l] = q]
    BY Typed DEF SendFails
  <2>4. r \in Recs
    BY <2>1 DEF Recs
  <2> HIDE DEF q, r
  <2>5. QED
    BY <2>2, <2>3, <2>4
<1>3. /\ r.pc = "notifying" /\ r.conn = th[l].conn /\ r.sess = th[l].sess
      /\ r.kind = th[l].kind /\ r.todo = th[l].todo \ {v}
  OBVIOUS
<1> HIDE DEF r
<1>0. /\ th'[l] = r /\ \A m \in Loops \ {l} : th'[m] = th[m]
  BY <1>2, ThreadStep DEF Shape
<1>4. \A d \in Conns : (Joins(d)' <=> Joins(d)) /\ (Connected(d)' => Connected(d))
  <2>1. \A d \in Conns : Joins(d)' <=> Joins(d)
    BY <1>0, <1>1, <1>3, Typed DEF Joins
  <2>2. \A d \in Conns : Connected(d)' => Connected(d)
    BY <1>1 DEF Connected, Shape, TypeOK
  <2>3. QED
    BY <2>1, <2>2
<1>5. \A t \in Pending' : t \in Pending \/ (Connected(t.sink) /\ SessionAlive(t.session))
  <2>1. \A t \in RemoveLater(v) : t.sink = v /\ SessionAlive(t.session)
    BY DEF RemoveLater, Lock
  <2>2. Pending' \subseteq Pending \cup RemoveLater(v)
    <3>1. CASE timers' = [timers EXCEPT ![LoopOf[v]] = @ \cup RemoveLater(v)] /\ leaked' = leaked
      BY <3>1, PendingIs DEF Shape, TypeOK, Loops
    <3>2. CASE leaked' = leaked \cup RemoveLater(v) /\ timers' = timers
      BY <3>2, PendingIs
    <3>3. QED
      BY <3>1, <3>2 DEF SendFails
  <2>3. QED
    BY <1>1, <2>1, <2>2
<1>6. Settles(l, r) /\ Loses(r) /\ Follows(l, r)
  BY <1>1, <1>2, <1>3, <1>4, <1>5 DEF Settles, Loses, Follows, SessionAlive
<1>7. Ownership'
  BY <1>1, <1>2, <1>4, <1>6, Typed, OwnershipStands
<1>8. Placed' /\ Kept'
  BY <1>1, <1>4, KeptStands DEF Placed
<1>9. \A w \in Players :
         /\ player'[w] = player[w] \/ player'[w] = NotPlaying
         /\ conn'[w] = "closed" => conn[w] = "closed" \/ ~ player'[w].playing
         /\ w = v => ~ player'[w].playing
  BY <1>1, ResetFlags, Typed DEF Reset, Shape, TypeOK
<1>10. \A d \in Publishers : Publishing(d)' => Publishing(d)
  BY <1>1, <1>4, Typed DEF Publishing
<1>11. \A s \in Sessions : SessionAlive(s)' => SessionAlive(s)
  BY <1>2, <1>6, StayLost
<1>12. \A m \in Loops :
          \/ th'[m] = th[m]
          \/ /\ th'[m].pc \in SendingPcs /\ th[m].pc \in SendingPcs
             /\ th'[m].conn = th[m].conn /\ th'[m].kind = th[m].kind
             /\ \A w \in Players : player'[w].playing /\ w \in th[m].todo => w \in th'[m].todo
  BY <1>0, <1>1, <1>3, <1>9 DEF SendingPcs
<1>13. Decoding'
  BY <1>1, <1>4, <1>9, <1>10, <1>11, <1>12, Typed, DecodingStands
<1>14. QED
  BY <1>7, <1>8, <1>13 DEF After

\* The thread takes a timer that is due.
LEMMA KeptByTimers ==
    ASSUME Before, NEW l \in Loops, NEW t \in timers[l], TimerDue(l, t)
    PROVE  After
<1> USE DEF Before, IInv
<1> DEFINE r == [pc |-> "removing", conn |-> t.sink, sess |-> t.session, kind |-> None, todo |-> {}]
<1>1. /\ t \in Pending /\ t.sink \in Conns /\ t.session \in Sessions /\ th[l].pc = "idle"
      /\ timers' = [timers EXCEPT ![l] = timers[l] \ {t}]
      /\ UNCHANGED <<conn, state, weak, sessions, room, leaked, stage, player, contested, robbed>>
  BY DEF TimerDue, NextTimers, Shape, TypeOK, Idle, Pending, races
<1>2. r \in Recs /\ th' = [th EXCEPT ![l] = r]
  BY <1>1, Begun DEF Recs, Refs, TimerDue
<1>3. r.pc = "removing" /\ r.conn = t.sink /\ r.sess = t.session
  OBVIOUS
<1> HIDE DEF r
<1>0. /\ th'[l] = r /\ \A m \in Loops \ {l} : th'[m] = th[m]
  BY <1>2, ThreadStep DEF Shape
<1>4. Pending' \subseteq Pending
  BY <1>1, PendingIs DEF Shape, TypeOK, Loops
<1>5. \A d \in Conns : (Joins(d)' <=> Joins(d)) /\ (Connected(d)' <=> Connected(d))
  BY <1>0, <1>1, <1>3, Typed DEF Joins, Connected
<1>6. Settles(l, r) /\ Loses(r) /\ Follows(l, r)
  BY <1>1, <1>2, <1>3, <1>4, <1>5 DEF Settles, Loses, Follows, SessionAlive
<1>7. Ownership'
  BY <1>1, <1>2, <1>5, <1>6, Typed, OwnershipStands
<1>8. Placed' /\ Kept'
  BY <1>1, <1>5, KeptStands DEF Placed
<1>9. \A d \in Publishers : Publishing(d)' => Publishing(d)
  BY <1>1, <1>5, Typed DEF Publishing
<1>10. \A s \in Sessions : SessionAlive(s)' => SessionAlive(s)
  BY <1>2, <1>6, StayLost
<1>11. \A m \in Loops : \/ th'[m] = th[m]
                        \/ th'[m].pc \notin SendingPcs /\ th[m].pc \notin SendingPcs
  BY <1>0, <1>1, <1>3 DEF SendingPcs
<1>12. Decoding'
  BY <1>1, <1>5, <1>9, <1>10, <1>11, Typed, DecodingStands
<1>13. QED
  BY <1>7, <1>8, <1>12 DEF After

\* The cleaner erases a session that has no client, not one that somebody has joined:
\* who is only about to join it is robbed.
LEMMA KeptByCleaning ==
    ASSUME Before, CleanStarts \/ (\E p \in Paths : CleansOne(p))
    PROVE  After
<1> USE DEF Before, IInv
<1>1. /\ UNCHANGED <<conn, state, weak, room, timers, leaked, stage, player, contested>>
      /\ th[0].pc \in {"idle", "cleaning"}
      /\ \A p \in Paths : sessions'[p] # None => sessions'[p] = sessions[p]
  BY DEF CleanStarts, CleansOne, Idle, Shape, TypeOK, races
<1>2. PICK r \in Recs : /\ th' = [th EXCEPT ![0] = r]
                        /\ r.pc \in {"idle", "cleaning"} /\ r.sess = None
  <2>0. /\ th[0] \in Recs /\ th[0].sess = None
    BY <1>1, Typed DEF Shape, Serving
  <2>1. PICK q \in Recs : th' = [th EXCEPT ![0] = Cleaning(q)] /\ q.sess = None
    <3>1. CASE CleanStarts
      <4> DEFINE q == [IdleThread EXCEPT !.todo = Paths]
      <4>1. IdleThread \in Recs
        BY Typed
      <4>2. q = [pc |-> IdleThread.pc, conn |-> IdleThread.conn, sess |-> IdleThread.sess,
                 kind |-> IdleThread.kind, todo |-> Paths]
        BY <4>1, Changed
      <4>3. q \in Recs /\ q.sess = None
        BY <4>1, <4>2 DEF Recs, IdleThread
      <4>4. th' = [th EXCEPT ![0] = Cleaning(q)]
        BY <3>1 DEF CleanStarts
      <4> HIDE DEF q
      <4>5. QED
        BY <4>3, <4>4
    <3>2. CASE \E p \in Paths : CleansOne(p)
      <4>1. PICK p \in Paths : CleansOne(p)
        BY <3>2
      <4> DEFINE q == [th[0] EXCEPT !.todo = th[0].todo \ {p}]
      <4>2. q = [pc |-> th[0].pc, conn |-> th[0].conn, sess |-> th[0].sess, kind |-> th[0].kind,
                 todo |-> th[0].todo \ {p}]
        BY <2>0, Changed
      <4>3. q \in Recs /\ q.sess = None
        BY <2>0, <4>2 DEF Recs
      <4>4. th' = [th EXCEPT ![0] = Cleaning(q)]
        BY <4>1, Typed DEF CleansOne
      <4> HIDE DEF q
      <4>5. QED
        BY <4>3, <4>4
    <3>3. QED
      BY <3>1, <3>2
  <2>2. \/ Cleaning(q) = IdleThread
        \/ Cleaning(q) = [pc |-> "cleaning", conn |-> q.conn, sess |-> q.sess,
                          kind |-> q.kind, todo |-> q.todo]
    BY <2>1, RoundGoesOn
  <2>3. CASE Cleaning(q) = IdleThread
    BY <2>1, <2>3, Typed DEF IdleThread
  <2>4. CASE Cleaning(q) = [pc |-> "cleaning", conn |-> q.conn, sess |-> q.sess,
                            kind |-> q.kind, todo |-> q.todo]
    <3> DEFINE u == [pc |-> "cleaning", conn |-> q.conn, sess |-> q.sess,
                     kind |-> q.kind, todo |-> q.todo]
    <3>1. u \in Recs
      BY <2>1 DEF Recs
    <3>2. th' = [th EXCEPT ![0] = u]
      BY <2>1, <2>4
    <3>3. QED
      BY <2>1, <3>1, <3>2
  <2>5. QED
    BY <2>2, <2>3, <2>4
<1>0. /\ th'[0] = r /\ \A m \in Loops \ {0} : th'[m] = th[m]
  BY <1>2, ThreadStep, Typed DEF Shape
<1>3. Pending' = Pending
  BY <1>1 DEF Pending
<1>4. \A d \in Conns : (Joins(d)' <=> Joins(d)) /\ (Connected(d)' <=> Connected(d))
  BY <1>0, <1>1, <1>2, Typed DEF Joins, Connected
<1>5. Settles(0, r) /\ Loses(r) /\ Follows(0, r)
  BY <1>1, <1>2, <1>3, <1>4 DEF Settles, Loses, Follows
<1>6. Ownership'
  BY <1>1, <1>2, <1>4, <1>5, Typed, OwnershipStands
<1>7. robbed \subseteq robbed'
  BY DEF CleanStarts, CleansOne, races
<1>8. ASSUME NEW c \in Conns \ robbed', Connected(c), state[c] # "HANDSHAKE"
      PROVE  sessions'[PathOf[c]] = sessions[PathOf[c]]
  <2>1. CASE CleanStarts
    BY <2>1 DEF CleanStarts
  <2>2. ASSUME NEW p \in Paths, CleansOne(p), p = PathOf[c], Cleanable(p) PROVE FALSE
    <3>1. weak[c] = sessions[p] /\ (~ Joins(c) => c \in room[sessions[p]].sinks)
      BY <1>7, <1>8, <2>2 DEF Kept
    <3>2. ~ Joins(c)
      <4>1. Joins(c) => c \in Joining(sessions[p])
        BY <3>1, Typed DEF Joins, Joining
      <4>2. QED
        BY <2>2, <4>1 DEF CleansOne
    <3>3. ConnAlive(c)
      BY <1>8 DEF ConnAlive
    <3>4. QED
      BY <2>2, <3>1, <3>2, <3>3 DEF Cleanable, GetClients
  <2>3. ASSUME NEW p \in Paths, CleansOne(p)
        PROVE  sessions'[PathOf[c]] = sessions[PathOf[c]]
    <3>1. Cleanable(p) => PathOf[c] # p
      BY <2>2, <2>3
    <3>2. sessions' = IF Cleanable(p) THEN [sessions EXCEPT ![p] = None] ELSE sessions
      BY <2>3 DEF CleansOne
    <3>3. QED
      BY <3>1, <3>2, Typed DEF Shape, TypeOK
  <2>4. QED
    BY <2>1, <2>3
<1>9. Placed' /\ Kept'
  BY <1>1, <1>4, <1>7, <1>8, KeptStands DEF Placed
<1>10. \A d \in Publishers : Publishing(d)' => Publishing(d)
  BY <1>1, <1>4, Typed DEF Publishing
<1>11. \A s \in Sessions : SessionAlive(s)' => SessionAlive(s)
  BY <1>2, <1>5, StayLost, Typed
<1>12. \A m \in Loops : \/ th'[m] = th[m]
                        \/ th'[m].pc \notin SendingPcs /\ th[m].pc \notin SendingPcs
  BY <1>0, <1>1, <1>2 DEF SendingPcs
<1>13. Decoding'
  BY <1>1, <1>4, <1>10, <1>11, <1>12, Typed, DecodingStands
<1>14. QED
  BY <1>6, <1>9, <1>13 DEF After

\* A step that neither gets a session nor goes on in HandlePublish leaves alone who
\* may publish.
LEMMA AdmissionStands ==
    ASSUME Shape, Shape', Ownership, NEW l \in Loops, NEW r \in Recs, Settles(l, r),
           r = th[l] \/ r.pc \in {"idle", "sending"},
           UNCHANGED <<state, weak, sessions, contested>>,
           \A d \in Publishers : state[d] = "HANDSHAKE" \/ Joins(d) => stage'[d] = stage[d]
    PROVE  /\ Alone' /\ Early' /\ Admitted'
           /\ \A d \in Publishers : \A s : Claims(d, s)' => Claims(d, s)
<1> USE DEF Ownership
<1>0. /\ th'[l] = r /\ \A m \in Loops \ {l} : th'[m] = th[m]
  BY ThreadStep DEF Settles, Shape
<1>1. ASSUME NEW c \in Publishers, NEW s, Claims(c, s)' PROVE Claims(c, s)
  <2>1. conn[c] # "new"
    BY <1>1, Typed DEF Claims, Shape, Roles
  <2>2. ConnAlive(c)
    BY <1>1, <2>1, StayDead, Typed DEF Claims
  <2>3. QED
    BY <1>1, <2>2 DEF Claims
<1>2. ASSUME NEW m \in Loops, Handles(m)'
      PROVE  Handles(m) /\ th'[m] = th[m]
  BY <1>0, <1>2 DEF Handles
<1>3. Alone'
  BY <1>2 DEF Alone
<1>4. Early'
  <2>1. \A d \in Publishers : Joins(d)' => Joins(d)
    BY <1>0, Typed DEF Joins
  <2>2. QED
    BY <2>1 DEF Early
<1>5. ASSUME NEW c \in Publishers, NEW s, Free(c, s) PROVE Free(c, s)'
  BY <1>1, <1>5 DEF Free
<1>6. Admitted'
  BY <1>2, <1>5 DEF Admitted, Handles
<1>7. QED
  BY <1>1, <1>3, <1>4, <1>6

\* RemoveSink of a connection that was closed: if it was the publisher, nobody else is.
LEMMA KeptByRemoving ==
    ASSUME Before, NEW l \in Loops, RemoveSink(l)
    PROVE  After
<1> USE DEF Before, IInv
<1> DEFINE c == th[l].conn
           s == th[l].sess
<1>1. /\ c \in Conns /\ s \in Sessions /\ s # None /\ th[l].pc = "removing"
      /\ conn[c] = "closed" /\ weak[c] = s
      /\ UNCHANGED <<conn, state, weak, sessions, timers, leaked, stage, player, contested, robbed>>
      /\ th' = [th EXCEPT ![l] = IdleThread]
  BY DEF RemoveSink, Shape, Serving, TypeOK, Refs, races
<1>0. /\ th'[l] = IdleThread /\ \A m \in Loops \ {l} : th'[m] = th[m]
  BY <1>1, Typed, ThreadStep DEF Shape
<1>2. /\ IdleThread \in Recs /\ IdleThread.pc = "idle" /\ IdleThread.sess = None
  BY Typed DEF IdleThread
<1>3. /\ \A x \in Sessions : room'[x].publisher = room[x].publisher
      /\ room'[s].sinks = room[s].sinks \ {c}
      /\ state[c] # "START_PUBLISH" => room'[s].header = room[s].header
      /\ \A x \in Sessions \ {s} : room'[x] = room[x]
  <2>1. room[s] \in Rooms
    BY <1>1 DEF Shape, TypeOK, Rooms
  <2>2. PICK h : h = IF state[c] = "START_PUBLISH" THEN None ELSE room[s].header
    OBVIOUS
  <2>3. PICK left : left = room[s].sinks \ {c}
    OBVIOUS
  <2> DEFINE q == [room[s] EXCEPT !.sinks = left, !.header = h]
  <2>4. q.sinks = left /\ q.publisher = room[s].publisher /\ q.header = h
    BY <2>1 DEF Rooms
  <2>5. RemovedSink(room[s], c) = q
    BY <2>2, <2>3 DEF RemovedSink
  <2>6. room' = [room EXCEPT ![s] = q]
    BY <1>1, <2>5 DEF RemoveSink, Shape, TypeOK
  <2> HIDE DEF q
  <2>7. QED
    BY <1>1, <2>2, <2>3, <2>4, <2>6 DEF Shape, TypeOK
<1> HIDE DEF c, s
<1>4. Pending' = Pending
  BY <1>1 DEF Pending
<1>5. Settles(l, IdleThread) /\ Loses(IdleThread)
  BY <1>1, <1>2, <1>4 DEF Settles, Loses, Connected
<1>6. /\ Alone' /\ Early' /\ Admitted'
      /\ \A d \in Publishers : \A x : Claims(d, x)' => Claims(d, x)
  BY <1>1, <1>2, <1>5, AdmissionStands
<1>7. \A d \in Conns : (Joins(d)' <=> Joins(d)) /\ (Connected(d)' <=> Connected(d))
  BY <1>0, <1>1, <1>2, Typed DEF Joins, Connected
<1>8. \A x \in Sessions : SessionAlive(x)' => SessionAlive(x)
  BY <1>2, <1>5, StayLost
<1>9. ASSUME NEW d \in Publishers, Connected(d), weak[d] = s, PathOf[d] \notin contested,
             state[c] = "START_PUBLISH", room[s].publisher = d
      PROVE  FALSE
  <2>1. c \in Publishers /\ Claims(c, weak[c])
    BY <1>1, <1>9 DEF Claims, ConnAlive, Shape, Roles, c
  <2>2. PathOf[c] = PathOf[d]
    BY <1>1, <1>9, Typed DEF Placed
  <2>3. ~ Joins(c)
    BY <1>1, Typed DEF Joins, Shape, Serving, Busy, Connected
  <2>4. SessionAlive(s)
    BY <1>1 DEF SessionAlive, s
  <2>5. room[s].publisher = c
    BY <1>1, <1>9, <2>1, <2>2, <2>3, <2>4 DEF Ownership, Owned
  <2>6. QED
    BY <1>1, <1>9, <2>5 DEF Connected
<1>10. Owned'
  <2> SUFFICES ASSUME NEW d \in Publishers, Claims(d, weak[d])', ~ Joins(d)',
                      SessionAlive(weak[d])', PathOf[d] \notin contested
               PROVE  /\ room'[weak[d]].publisher = d
                      /\ Connected(d)' => /\ d \in room'[weak[d]].sinks
                                          /\ stage[d] # "start" => room'[weak[d]].header = d
    BY <1>1 DEF Owned
  <2>1. Claims(d, weak[d])
    BY <1>1, <1>6
  <2>2. /\ weak[d] # None /\ weak[d] \in Sessions /\ SessionAlive(weak[d]) /\ ~ Joins(d)
    BY <1>1, <1>7, <1>8, <2>1, Typed DEF Claims
  <2>3. /\ room[weak[d]].publisher = d
        /\ Connected(d) => /\ d \in room[weak[d]].sinks
                           /\ stage[d] # "start" => room[weak[d]].header = d
    BY <2>1, <2>2 DEF Ownership, Owned
  <2>4. Connected(d)' => Connected(d) /\ d # c
    BY <1>1, <1>7, Typed DEF Connected
  <2>5. QED
    BY <1>3, <1>9, <2>2, <2>3, <2>4
<1>11. Placed' /\ Kept'
  <2>1. Placed'
    BY <1>1 DEF Placed
  <2>2. ASSUME NEW d \in Conns, Connected(d), d \in room[weak[d]].sinks, weak[d] \in Sessions
        PROVE  d \in room'[weak[d]].sinks
    BY <1>1, <1>3, <2>2 DEF Connected
  <2>3. Kept'
    BY <1>1, <1>7, <2>2, Typed DEF Kept
  <2>4. QED
    BY <2>1, <2>3
<1>12. \A x \in Sessions : room'[x].sinks \cap Players \subseteq room[x].sinks
  BY <1>3
<1>13. \A d \in Publishers : Publishing(d)' => Publishing(d)
  BY <1>1, <1>7, Typed DEF Publishing
<1>14. \A m \in Loops : \/ th'[m] = th[m]
                        \/ th'[m].pc \notin SendingPcs /\ th[m].pc \notin SendingPcs
  BY <1>0, <1>1, <1>2 DEF SendingPcs
<1>15. Decoding'
  BY <1>1, <1>7, <1>8, <1>12, <1>13, <1>14, Typed, DecodingStands
<1>16. QED
  BY <1>6, <1>10, <1>11, <1>15 DEF After, Ownership

\* A connection joins its session: a publisher's is nobody else's, and it has not sent
\* anything.
LEMMA KeptByAdding ==
    ASSUME Before, NEW l \in Loops, AddSink(l)
    PROVE  After
<1> USE DEF Before, IInv
<1> DEFINE c == th[l].conn
           s == th[l].sess
           told == state[c] = "START_PUBLISH"
<1>1. /\ th[l].pc = "adding" /\ c \in Conns /\ s \in Sessions /\ s # None /\ LoopOf[c] = l
      /\ Connected(c) /\ state[c] # "HANDSHAKE" /\ weak[c] = s
      /\ told <=> c \in Publishers
      /\ UNCHANGED <<conn, state, weak, sessions, timers, leaked, stage, player, contested, robbed>>
      /\ th' = [th EXCEPT ![l] = IdleThread]
  BY RtmpAssumption DEF AddSink, Shape, Serving, Busy, Bound, TypeOK, Refs, Roles, Conns, races
<1>0. /\ th'[l] = IdleThread /\ \A m \in Loops \ {l} : th'[m] = th[m]
  BY <1>1, Typed, ThreadStep DEF Shape
<1>2. /\ IdleThread \in Recs /\ IdleThread.pc = "idle" /\ IdleThread.sess = None
  BY Typed DEF IdleThread
<1>3. /\ room'[s].sinks = room[s].sinks \cup {c}
      /\ room'[s].publisher = IF told THEN c ELSE room[s].publisher
      /\ ~ told => room'[s].header = room[s].header
      /\ \A x \in Sessions \ {s} : room'[x] = room[x]
  <2>0. room' = [room EXCEPT ![s] = AddedSink(@, c)]
    BY DEF AddSink
  <2>1. room[s] \in Rooms
    BY <1>1 DEF Shape, TypeOK, Rooms
  <2>2. CASE told
    BY <1>1, <2>0, <2>1, <2>2 DEF AddedSink, Shape, TypeOK
  <2>3. CASE ~ told
    BY <1>1, <2>0, <2>1, <2>3 DEF AddedSink, Shape, TypeOK, Rooms
  <2>4. QED
    BY <2>2, <2>3
<1>4. Joins(c) /\ \A d \in Conns \ {c} : Joins(d)' <=> Joins(d)
  <2>1. Joins(c)
    BY <1>1 DEF Joins
  <2>2. ASSUME NEW d \in Conns, d # c PROVE Joins(d)' <=> Joins(d)
    BY <1>0, <1>1, <1>2, <2>2, Typed DEF Joins
  <2>3. QED
    BY <2>1, <2>2
<1>5. told => Claims(c, s) /\ Handles(l) /\ stage[c] = "start"
  BY <1>1, <1>4 DEF Claims, ConnAlive, Handles, Ownership, Early
<1>6. told /\ PathOf[c] \notin contested => Free(c, s)
  BY <1>1, <1>5 DEF Ownership, Admitted
<1> HIDE DEF c, s, told
<1>7. Pending' = Pending
  BY <1>1 DEF Pending
<1>8. Settles(l, IdleThread) /\ Loses(IdleThread)
  BY <1>1, <1>2, <1>7 DEF Settles, Loses, Connected
<1>9. /\ Alone' /\ Early' /\ Admitted'
      /\ \A d \in Publishers : \A x : Claims(d, x)' => Claims(d, x)
  BY <1>1, <1>2, <1>8, AdmissionStands
<1>10. \A x \in Sessions : SessionAlive(x)' => SessionAlive(x)
  BY <1>2, <1>8, StayLost
<1>11. Owned'
  <2> SUFFICES ASSUME NEW d \in Publishers, Claims(d, weak[d])', ~ Joins(d)',
                      SessionAlive(weak[d])', PathOf[d] \notin contested
               PROVE  /\ room'[weak[d]].publisher = d
                      /\ Connected(d)' => /\ d \in room'[weak[d]].sinks
                                          /\ stage[d] # "start" => room'[weak[d]].header = d
    BY <1>1 DEF Owned
  <2>1. CASE d = c
    BY <1>1, <1>3, <1>5, <2>1
  <2>2. CASE d # c
    <3>1. Claims(d, weak[d])
      BY <1>1, <1>9
    <3>2. /\ weak[d] # None /\ weak[d] \in Sessions /\ SessionAlive(weak[d]) /\ ~ Joins(d)
      BY <1>1, <1>4, <1>10, <2>2, <3>1, Typed DEF Claims
    <3>3. /\ room[weak[d]].publisher = d
          /\ Connected(d) => /\ d \in room[weak[d]].sinks
                             /\ stage[d] # "start" => room[weak[d]].header = d
      BY <3>1, <3>2 DEF Ownership, Owned
    <3>4. weak[d] = s => ~ told
      <4>1. weak[d] = s => PathOf[c] = PathOf[d]
        BY <1>1, Typed DEF Placed
      <4>2. QED
        BY <1>6, <2>2, <3>1, <4>1 DEF Free
    <3>5. Connected(d)' => Connected(d)
      BY <1>1 DEF Connected
    <3>6. QED
      BY <1>3, <3>2, <3>3, <3>4, <3>5
  <2>3. QED
    BY <2>1, <2>2
<1>12. Placed' /\ Kept'
  <2>1. Placed'
    BY <1>1 DEF Placed
  <2>2. \A d \in Conns : Connected(d)' => Connected(d)
    BY <1>1 DEF Connected
  <2>3. ASSUME NEW d \in Conns, weak[d] \in Sessions, d = c \/ d \in room[weak[d]].sinks
        PROVE  d \in room'[weak[d]].sinks
    BY <1>1, <1>3, <2>3
  <2>4. Kept'
    BY <1>1, <1>4, <2>2, <2>3, Typed DEF Kept
  <2>5. QED
    BY <2>1, <2>4
<1>13. Watched'
  <2> SUFFICES ASSUME NEW d \in Publishers, NEW v \in Players, Publishing(d)', weak[d] # None,
                      SessionAlive(weak[d])', PathOf[d] \notin contested,
                      v \in room'[weak[d]].sinks, player[v].playing
               PROVE  /\ stage[d] # "start" /\ ~ Awaits(v, d, "avc")' =>
                           player[v].avc /\ player[v].sawHeader = d
                      /\ stage[d] = "frames" /\ player[v].key /\ ~ Awaits(v, d, "key")' =>
                           player[v].sawKey = d
    BY <1>1 DEF Watched
  <2>1. \A k \in Kinds : Awaits(v, d, k) => Awaits(v, d, k)'
    BY <1>0, <1>1, Typed DEF Awaits
  <2>2. v # c
    BY <1>4 DEF Decoding, Fresh
  <2>3. weak[d] \in Sessions /\ v \in room[weak[d]].sinks
    BY <1>3, <2>2, Typed
  <2>4. Publishing(d) /\ SessionAlive(weak[d])
    BY <1>1, <1>10, <2>3 DEF Publishing, Connected
  <2>5. QED
    BY <2>1, <2>3, <2>4 DEF Decoding, Watched, Kinds
<1>14. Fresh'
  BY <1>1, <1>4, Typed DEF Decoding, Fresh
<1>15. Staged'
  BY <1>0, <1>1, <1>2 DEF Decoding, Staged
<1>16. QED
  BY <1>9, <1>11, <1>12, <1>13, <1>14, <1>15 DEF After, Ownership, Decoding

\* GetSession: whoever has a session keeps it, and a publisher that is told to start
\* gets one that is free.
LEMMA KeptByVisits ==
    ASSUME Before, NEW c \in Conns, NEW l \in Loops, l = LoopOf[c], Visits(c, l)
    PROVE  After
<1> USE DEF Before, IInv
<1> DEFINE s == SessionOf(PathOf[c])
<1>1. /\ th[l].pc \in {"idle", "accepted"} /\ th[l].sess = None
      /\ th[l].pc = "accepted" => c \in Publishers /\ th[l].conn = c
      /\ Connected(c) /\ state[c] = "HANDSHAKE" /\ PathOf[c] \in Paths
      /\ GetSession(PathOf[c])
      /\ UNCHANGED <<conn, timers, leaked, stage, player, robbed>>
      /\ contested \subseteq contested'
  BY Visiting, RtmpAssumption
<1>2. /\ s \in {PathOf[c]} \X Ids /\ s \in Sessions /\ s # None
      /\ sessions[PathOf[c]] = None => ~ SessionAlive(s)
      /\ sessions'[PathOf[c]] = s
      /\ sessions[PathOf[c]] # None => s = sessions[PathOf[c]]
  BY <1>1, SessionGiven, Visit DEF SessionOf
<1>3. PICK r \in Recs :
         /\ th' = [th EXCEPT ![l] = r] /\ r.conn = c
         /\ \/ /\ r.pc = "asked" /\ r.sess = s /\ c \in Publishers
               /\ state' = state /\ weak' = Expired
            \/ /\ r.pc = "told"
               /\ c \in Publishers => th[l].pc = "accepted"
               /\ state' = [state EXCEPT ![c] = IF c \in Publishers THEN "START_PUBLISH"
                                                ELSE "START_PLAY"]
               /\ weak' = [Expired EXCEPT ![c] = s]
  BY Visiting
<1>4. c \in Publishers /\ th[l].pc = "idle" /\ Contests(c) => PathOf[c] \in contested'
  BY <1>1, Typed DEF Visits, PublishAsks, PublishStarts, PlayStarts
<1> HIDE DEF s
<1>0. th'[l] = r /\ \A m \in Loops \ {l} : th'[m] = th[m]
  BY <1>3, ThreadStep DEF Shape
<1>5. /\ \A d \in Conns \ {c} : state'[d] = state[d]
      /\ r.pc = "asked" => state'[c] = "HANDSHAKE"
      /\ r.pc = "told" => weak'[c] = s
      /\ \A d \in Conns : weak'[d] = None \/ weak'[d] = weak[d] \/ (d = c /\ weak'[d] = s)
  BY <1>1, <1>3, Visit DEF Shape, TypeOK, Refs
<1>6. /\ \A p \in Paths : sessions[p] # None => sessions'[p] = sessions[p]
      /\ \A p \in Paths \ {PathOf[c]} : sessions'[p] = sessions[p]
      /\ \A x \in Sessions : SessionAlive(x) => room'[x] = room[x]
  BY <1>1, Visit
<1>7. ASSUME NEW d \in Conns, d # c
      PROVE  /\ weak[d] # None /\ SessionAlive(weak[d]) => weak'[d] = weak[d]
             /\ weak'[d] # None => weak'[d] = weak[d] /\ SessionAlive(weak[d])
  <2>1. weak'[d] = Expired[d]
    BY <1>1, <1>3, <1>7, Visit
  <2>2. QED
    BY <1>1, <2>1, Visit
<1>8. /\ \A d \in Conns \ {c} : Joins(d)' <=> Joins(d)
      /\ r.pc = "told" => Joins(c)'
      /\ ~ Joins(c)
  BY <1>0, <1>1, <1>3, Typed DEF Joins
<1>9. \A d \in Conns : Connected(d)' <=> Connected(d)
  BY <1>1 DEF Connected
<1>10. Settles(l, r)
  <2>1. Pending' = Pending
    BY <1>1 DEF Pending
  <2>2. QED
    BY <1>3, <1>9, <2>1 DEF Settles
<1>11. ASSUME NEW d \in Publishers, NEW x, Claims(d, x)', d # c
       PROVE  Claims(d, x) /\ weak'[d] = weak[d] /\ SessionAlive(x) /\ x \in Sessions
  <2>1. state[d] = "START_PUBLISH" /\ weak[d] = x /\ x # None /\ SessionAlive(x)
    BY <1>5, <1>7, <1>11, Typed DEF Claims
  <2>2. conn[d] # "new"
    BY <2>1, Typed DEF Shape, Roles
  <2>3. ConnAlive(d)
    BY <1>10, <1>11, <2>2, StayDead, Typed DEF Claims
  <2>4. QED
    BY <1>7, <1>11, <2>1, <2>3, Typed DEF Claims
<1>12. ASSUME NEW x, Claims(c, x)'
       PROVE  c \in Publishers => r.pc = "told" /\ th[l].pc = "accepted" /\ Joins(c)' /\ x = s
  BY <1>3, <1>5, <1>8, <1>12 DEF Claims
<1>13. Early'
  <2>1. c \in Publishers => stage[c] = "start"
    BY <1>1 DEF Ownership, Early
  <2>2. QED
    BY <1>1, <1>5, <1>8, <2>1, Typed DEF Ownership, Early
<1>14. ASSUME NEW m \in Loops, m # l, Handles(m)', PathOf[th[m].conn] = PathOf[c],
              PathOf[c] \notin contested', c \in Publishers
       PROVE  FALSE
  <2>1. Handles(m)
    BY <1>0, <1>14 DEF Handles
  <2>2. CASE th[l].pc = "accepted"
    BY <1>1, <1>14, <2>1, <2>2 DEF Ownership, Alone, Handles
  <2>3. CASE th[l].pc = "idle"
    BY <1>4, <1>14, <2>1, <2>3 DEF Contests, Handles
  <2>4. QED
    BY <1>1, <2>2, <2>3
<1>15. Alone'
  <2> SUFFICES ASSUME NEW m \in Loops, NEW n \in Loops, Handles(m)', Handles(n)', m # n,
                      PathOf[th'[m].conn] = PathOf[th'[n].conn],
                      PathOf[th'[m].conn] \notin contested'
               PROVE  FALSE
    BY DEF Alone
  <2>1. CASE m = l
    BY <1>0, <1>3, <1>14, <2>1 DEF Handles
  <2>2. CASE n = l
    BY <1>0, <1>3, <1>14, <2>2 DEF Handles
  <2>3. CASE m # l /\ n # l
    BY <1>0, <1>1, <2>3 DEF Ownership, Alone, Handles
  <2>4. QED
    BY <2>1, <2>2, <2>3
<1>16. Owned'
  <2> SUFFICES ASSUME NEW d \in Publishers, Claims(d, weak[d])', ~ Joins(d)',
                      PathOf[d] \notin contested'
               PROVE  /\ room'[weak'[d]].publisher = d
                      /\ Connected(d)' => /\ d \in room'[weak'[d]].sinks
                                          /\ stage[d] # "start" => room'[weak'[d]].header = d
    BY <1>1 DEF Owned
  <2> DEFINE x == weak[d]
  <2>1. d # c
    BY <1>12
  <2>2. /\ weak'[d] = x /\ Claims(d, x) /\ SessionAlive(x) /\ x \in Sessions
    <3>1. PICK y : y = weak'[d]
      OBVIOUS
    <3>2. Claims(d, y)'
      BY <3>1 DEF Claims
    <3>3. QED
      BY <1>11, <2>1, <3>1, <3>2
  <2>3. ~ Joins(d) /\ PathOf[d] \notin contested /\ room'[x] = room[x]
    BY <1>1, <1>6, <1>8, <2>1, <2>2, Typed
  <2>4. QED
    BY <1>9, <2>2, <2>3, Typed DEF Ownership, Owned
<1>17. ASSUME NEW e \in Publishers, e = c \/ PathOf[e] # PathOf[c] \/ c \notin Publishers,
              Free(e, sessions[PathOf[e]])
       PROVE  Free(e, sessions[PathOf[e]])'
  <2> DEFINE p == PathOf[e]
  <2>0. p \in Paths
    BY Typed
  <2>1. CASE p # PathOf[c]
    <3>1. sessions'[p] = sessions[p] /\ sessions[p] # s
      BY <1>2, <1>6, <2>0, <2>1 DEF Shape, Filed
    <3>2. \A d \in Publishers \ {e} : ~ Claims(d, sessions[p])'
      BY <1>11, <1>12, <1>17, <3>1 DEF Free
    <3>3. QED
      BY <3>1, <3>2 DEF Free
  <2>2. CASE p = PathOf[c] /\ sessions[p] # None
    <3>1. sessions'[p] = sessions[p]
      BY <1>6, <2>0, <2>2
    <3>2. \A d \in Publishers \ {e} : ~ Claims(d, sessions[p])'
      BY <1>11, <1>12, <1>17, <2>2, <3>1 DEF Free
    <3>3. QED
      BY <3>1, <3>2 DEF Free
  <2>3. CASE p = PathOf[c] /\ sessions[p] = None
    <3>1. sessions'[p] = s /\ ~ SessionAlive(s)
      BY <1>2, <2>3
    <3>2. \A d \in Publishers \ {e} : ~ Claims(d, sessions[p])'
      BY <1>11, <1>12, <1>17, <2>3, <3>1
    <3>3. QED
      BY <3>1, <3>2 DEF Free
  <2>4. QED
    BY <2>1, <2>2, <2>3
<1>18. ASSUME NEW e \in Publishers, PathOf[e] # PathOf[c] \/ c \notin Publishers,
              Free(e, weak[e])
       PROVE  Free(e, weak[e])'
  <2>1. CASE weak'[e] = None
    BY <2>1 DEF Free, Claims
  <2>2. CASE weak'[e] # None
    <3>1. weak'[e] = weak[e] \/ (e = c /\ c \notin Publishers)
      BY <1>5, <1>18, <2>2, Typed
    <3>2. weak'[e] = weak[e] /\ weak[e] # None
      BY <2>2, <3>1
    <3>3. c \in Publishers => weak[e] # s
      BY <1>2, <1>18, <3>2, Typed DEF Placed
    <3>4. \A d \in Publishers \ {e} : ~ Claims(d, weak[e])'
      BY <1>11, <1>12, <1>18, <3>2, <3>3 DEF Free
    <3>5. QED
      BY <3>4 DEF Free
  <2>3. QED
    BY <2>1, <2>2
<1>19. Admitted'
  <2> SUFFICES ASSUME NEW m \in Loops, NEW e \in Publishers, e = th'[m].conn, Handles(m)',
                      PathOf[e] \notin contested'
               PROVE  /\ th'[m].pc = "asked" =>
                           sessions'[PathOf[e]] = th'[m].sess \/ Free(e, sessions[PathOf[e]])'
                      /\ th'[m].pc = "accepted" => Free(e, sessions[PathOf[e]])'
                      /\ th'[m].pc \in {"told", "adding"} => Free(e, weak[e])'
    BY DEF Admitted, Handles
  <2>0. PathOf[e] \in Paths
    BY Typed
  <2>1. CASE m = l
    <3>1. e = c /\ th'[m].pc = r.pc /\ th'[m].sess = r.sess
      BY <1>0, <1>3, <2>1
    <3>2. CASE r.pc = "asked"
      BY <1>2, <1>3, <3>1, <3>2
    <3>3. CASE r.pc = "told"
      <4>1. Free(c, sessions[PathOf[c]])
        BY <1>1, <1>3, <3>1, <3>3 DEF Ownership, Admitted, Handles
      <4>2. Free(c, sessions[PathOf[c]])'
        BY <1>17, <3>1, <4>1
      <4>3. weak'[e] = sessions'[PathOf[e]]
        BY <1>2, <1>5, <3>1, <3>3
      <4>4. QED
        BY <3>1, <3>3, <4>2, <4>3 DEF Free
    <3>4. QED
      BY <1>3, <3>2, <3>3
  <2>2. CASE m # l
    <3>1. th'[m] = th[m] /\ Handles(m) /\ e = th[m].conn /\ PathOf[e] \notin contested
      BY <1>0, <1>1, <2>2 DEF Handles
    <3>2. PathOf[e] # PathOf[c] \/ c \notin Publishers
      BY <1>14, <2>2, <3>1
    <3>3. /\ th[m].pc = "asked" =>
               sessions[PathOf[e]] = th[m].sess \/ Free(e, sessions[PathOf[e]])
          /\ th[m].pc = "accepted" => Free(e, sessions[PathOf[e]])
          /\ th[m].pc \in {"told", "adding"} => Free(e, weak[e])
      BY <3>1 DEF Ownership, Admitted, Handles
    <3>4. th[m].pc = "asked" => th[m].sess # None
      BY DEF Shape, Serving
    <3>5. sessions[PathOf[e]] # None => sessions'[PathOf[e]] = sessions[PathOf[e]]
      BY <1>6, <2>0
    <3>6. /\ Free(e, sessions[PathOf[e]]) => Free(e, sessions[PathOf[e]])'
          /\ Free(e, weak[e]) => Free(e, weak[e])'
      BY <1>17, <1>18, <3>2
    <3>7. QED
      BY <3>1, <3>3, <3>4, <3>5, <3>6
  <2>3. QED
    BY <2>1, <2>2
<1>20. Placed'
  BY <1>2, <1>5 DEF Placed
<1>21. Kept'
  <2> SUFFICES ASSUME NEW d \in Conns \ robbed, Connected(d), state'[d] # "HANDSHAKE"
               PROVE  /\ weak'[d] # None /\ sessions'[PathOf[d]] = weak'[d]
                      /\ ~ Joins(d)' => d \in room'[weak'[d]].sinks
    BY <1>1, <1>9 DEF Kept
  <2>1. CASE d = c
    BY <1>2, <1>3, <1>5, <1>8, <2>1
  <2>2. CASE d # c
    <3>1. /\ weak[d] # None /\ sessions[PathOf[d]] = weak[d] /\ PathOf[d] \in Paths
          /\ ~ Joins(d) => d \in room[weak[d]].sinks
      BY <1>5, <2>2, Typed DEF Kept
    <3>2. SessionAlive(weak[d]) /\ weak[d] \in Sessions
      BY <3>1, Typed DEF SessionAlive
    <3>3. weak'[d] = weak[d] /\ sessions'[PathOf[d]] = weak[d] /\ room'[weak[d]] = room[weak[d]]
      BY <1>6, <1>7, <2>2, <3>1, <3>2
    <3>4. QED
      BY <1>8, <2>2, <3>1, <3>3
  <2>3. QED
    BY <2>1, <2>2
<1>22. Watched'
  <2> SUFFICES ASSUME NEW d \in Publishers, NEW v \in Players, Publishing(d)', weak'[d] # None,
                      PathOf[d] \notin contested',
                      v \in room'[weak'[d]].sinks, player[v].playing
               PROVE  /\ stage[d] # "start" /\ ~ Awaits(v, d, "avc")' =>
                           player[v].avc /\ player[v].sawHeader = d
                      /\ stage[d] = "frames" /\ player[v].key /\ ~ Awaits(v, d, "key")' =>
                           player[v].sawKey = d
    BY <1>1 DEF Watched
  <2>1. CASE d = c
    <3>1. stage[d] = "start"
      BY <1>1, <2>1 DEF Ownership, Early
    <3>2. QED
      BY <3>1
  <2>2. CASE d # c
    <3>1. weak'[d] = weak[d] /\ SessionAlive(weak[d]) /\ weak[d] \in Sessions /\ weak[d] # None
      BY <1>7, <2>2, Typed
    <3>2. v \in room[weak[d]].sinks
      BY <1>6, <3>1
    <3>3. Publishing(d) /\ PathOf[d] \notin contested
      BY <1>1, <1>5, <1>9, <2>2, Typed DEF Publishing
    <3>4. \A k \in Kinds : Awaits(v, d, k) => Awaits(v, d, k)'
      BY <1>0, <1>1, Typed DEF Awaits
    <3>5. QED
      BY <3>1, <3>2, <3>3, <3>4 DEF Decoding, Watched, Kinds
  <2>3. QED
    BY <2>1, <2>2
<1>23. Fresh'
  <2>1. ASSUME NEW v \in Players, Joins(v)' PROVE Joins(v) \/ state[v] = "HANDSHAKE"
    BY <1>1, <1>8, <2>1, Typed
  <2>2. ASSUME NEW v \in Players, state'[v] = "HANDSHAKE" PROVE state[v] = "HANDSHAKE"
    BY <1>1, <1>5, <2>2, Typed
  <2>3. QED
    BY <1>1, <2>1, <2>2 DEF Decoding, Fresh
<1>24. Staged'
  BY <1>0, <1>1, <1>3 DEF Decoding, Staged
<1>25. QED
  BY <1>13, <1>15, <1>16, <1>19, <1>20, <1>21, <1>22, <1>23, <1>24 DEF After, Ownership, Decoding

\* A publisher whose session is gone is closed.
LEMMA KeptByLosing ==
    ASSUME Before, NEW c \in Publishers, NEW k \in Kinds, Media(c, k),
           Lock(c) = None, MediaLost(c)
    PROVE  After
<1> USE DEF Before, IInv
<1>1. /\ conn[c] = "open" /\ state[c] = "START_PUBLISH" /\ th[LoopOf[c]].pc = "idle"
      /\ UNCHANGED <<state, weak, sessions, room, timers, leaked, th, player, contested, robbed>>
      /\ conn' = [conn EXCEPT ![c] = "closed"] /\ c \in Conns
      /\ weak[c] = None \/ ~ SessionAlive(weak[c])
  BY Typed DEF Media, MediaLost, Idle, Lock, races
<1>2. \A d \in Publishers \ {c} : stage'[d] = stage[d]
  BY DEF Media, Sends, Shape, TypeOK
<1>3. Pending' = Pending /\ \A d \in Conns : Joins(d)' <=> Joins(d)
  BY <1>1 DEF Pending, Joins
<1>4. \A d \in Conns : Connected(d)' => Connected(d) /\ d # c
  BY <1>1 DEF Connected, Shape, TypeOK
<1>5. ~ Joins(c)
  BY <1>1 DEF Joins
<1>6. Settles(0, th[0]) /\ Loses(th[0])
  BY <1>1, <1>3, <1>4, Resting DEF Settles, Loses
<1>7. /\ Alone' /\ Early' /\ Admitted'
      /\ \A d \in Publishers : \A x : Claims(d, x)' => Claims(d, x)
  BY <1>1, <1>2, <1>5, <1>6, Resting, AdmissionStands
<1>8. \A x \in Sessions : SessionAlive(x)' => SessionAlive(x)
  BY <1>1, <1>6, Resting, StayLost
<1>9. Owned'
  <2> SUFFICES ASSUME NEW d \in Publishers, Claims(d, weak[d])', ~ Joins(d)',
                      SessionAlive(weak[d])', PathOf[d] \notin contested
               PROVE  /\ room[weak[d]].publisher = d
                      /\ Connected(d)' => /\ d \in room[weak[d]].sinks
                                          /\ stage'[d] # "start" => room[weak[d]].header = d
    BY <1>1 DEF Owned
  <2>1. Claims(d, weak[d])
    BY <1>1, <1>7
  <2>2. weak[d] # None /\ SessionAlive(weak[d]) /\ ~ Joins(d)
    BY <1>1, <1>3, <1>8, <2>1, Typed DEF Claims
  <2>3. d # c
    BY <1>1, <2>2
  <2>4. QED
    BY <1>2, <1>4, <2>1, <2>2, <2>3, Typed DEF Ownership, Owned
<1>10. Placed' /\ Kept'
  BY <1>1, <1>3, <1>4, KeptStands DEF Placed
<1>11. Watched'
  <2> SUFFICES ASSUME NEW d \in Publishers, NEW v \in Players, Publishing(d)', weak[d] # None,
                      SessionAlive(weak[d])', PathOf[d] \notin contested,
                      v \in room[weak[d]].sinks, player[v].playing
               PROVE  /\ stage'[d] # "start" /\ ~ Awaits(v, d, "avc")' =>
                           player[v].avc /\ player[v].sawHeader = d
                      /\ stage'[d] = "frames" /\ player[v].key /\ ~ Awaits(v, d, "key")' =>
                           player[v].sawKey = d
    BY <1>1 DEF Watched
  <2>1. d # c /\ Publishing(d) /\ SessionAlive(weak[d])
    BY <1>1, <1>4, <1>8, Typed DEF Publishing
  <2>2. \A e \in Kinds : Awaits(v, d, e)' <=> Awaits(v, d, e)
    BY <1>1 DEF Awaits
  <2>3. QED
    BY <1>2, <2>1, <2>2 DEF Decoding, Watched, Kinds
<1>12. Fresh'
  <2>1. \A v \in Players : conn'[v] = conn[v]
    BY <1>1, Typed
  <2>2. QED
    BY <1>1, <1>3, <2>1, Typed DEF Decoding, Fresh
<1>13. Staged'
  <2>1. ASSUME NEW m \in Loops, th[m].pc \in {"sending", "notifying"}
        PROVE  th[m].conn \in Publishers \ {c}
    BY <1>1, <2>1, Typed DEF Shape, Serving, Busy
  <2>2. QED
    BY <1>1, <1>2, <2>1 DEF Decoding, Staged
<1>14. QED
  BY <1>7, <1>9, <1>10, <1>11, <1>12, <1>13 DEF After, Ownership, Decoding

\* A publisher's message goes to its session's sinks, after everything it sent before.
LEMMA KeptByMedia ==
    ASSUME Before, NEW c \in Publishers, NEW k \in Kinds, Media(c, k)
    PROVE  After
<1> USE DEF Before, IInv
<1>a. CASE Lock(c) = None
  BY <1>a, KeptByLosing DEF Media
<1>b. CASE Lock(c) # None
  <2> DEFINE s == weak[c]
             l == LoopOf[c]
             alive == {v \in room[s].sinks : ConnAlive(v)}
             todo == {v \in alive : state[v] = "START_PLAY"}
  <2>1. /\ conn[c] = "open" /\ state[c] = "START_PUBLISH" /\ th[l].pc = "idle" /\ l \in Loops
        /\ UNCHANGED <<conn, state, weak, sessions, timers, leaked, player, contested, robbed>>
        /\ Publishing(c) /\ ~ Joins(c) /\ c \in Conns
        /\ s \in Sessions /\ s # None /\ SessionAlive(s) /\ Lock(c) = s
    BY <1>b, Typed DEF Media, MediaGoesOut, Idle, Publishing, Connected, Joins, Lock, races
  <2>2. /\ stage[c] = "start" /\ stage'[c] # "start" => k = "avc"
        /\ k = "avc" => stage[c] = "start" /\ stage'[c] = "header"
        /\ k \in {"key", "inter"} => stage[c] # "start" /\ stage'[c] = "frames"
        /\ k # "key" /\ stage'[c] = "frames" => stage[c] = "frames"
        /\ \A d \in Publishers \ {c} : stage'[d] = stage[d]
    BY DEF Media, Sends, Shape, TypeOK
  <2>3. /\ room'[s].sinks = alive /\ room'[s].publisher = room[s].publisher
        /\ room'[s].header = IF k = "avc" THEN c ELSE room[s].header
        /\ \A x \in Sessions \ {s} : room'[x] = room[x]
    <3>1. room[s] \in Rooms
      BY <2>1 DEF Shape, TypeOK, Rooms
    <3>2. PICK h : h = IF k = "avc" THEN c ELSE room[s].header
      OBVIOUS
    <3> DEFINE q == [room[s] EXCEPT !.sinks = alive, !.header = h]
    <3>3. q.sinks = alive /\ q.publisher = room[s].publisher /\ q.header = h
      BY <3>1 DEF Rooms
    <3>4. room' = [room EXCEPT ![s].sinks = alive, ![s].header = h]
      BY <1>b, <2>1, <3>2 DEF Media, MediaGoesOut
    <3> HIDE DEF alive
    <3>5. room' = [room EXCEPT ![s] = q]
      BY <2>1, <3>4 DEF Shape, TypeOK
    <3> HIDE DEF q
    <3>6. QED
      BY <2>1, <3>2, <3>3, <3>5 DEF Shape, TypeOK
  <2>4. PICK r \in Recs :
           /\ th' = [th EXCEPT ![l] = r]
           /\ \/ r.pc = "idle" /\ r.sess = None /\ todo = {}
              \/ r.pc = "sending" /\ r.conn = c /\ r.sess = s /\ r.kind = k /\ r.todo = todo
    <3> DEFINE q == [pc |-> "sending", conn |-> c, sess |-> s, kind |-> k, todo |-> todo]
    <3>1. todo \subseteq Players
      BY <2>1 DEF Shape, Roles, TypeOK
    <3>2. q \in Recs
      BY <2>1, <3>1, Typed DEF Recs, Refs
    <3>3. th' = [th EXCEPT ![l] = Sending(q)]
      BY <1>b, <2>1 DEF Media, MediaGoesOut
    <3>4. \/ Sending(q) = IdleThread /\ q.todo = {}
          \/ Sending(q) = [pc |-> "sending", conn |-> q.conn, sess |-> q.sess,
                           kind |-> q.kind, todo |-> q.todo]
      BY <3>2, RoundGoesOn
    <3>5. /\ q.conn = c /\ q.sess = s /\ q.kind = k /\ q.todo = todo
          /\ q = [pc |-> "sending", conn |-> q.conn, sess |-> q.sess,
                  kind |-> q.kind, todo |-> q.todo]
          /\ q.pc = "sending"
      OBVIOUS
    <3> HIDE DEF q, todo
    <3>6. CASE Sending(q) = IdleThread /\ q.todo = {}
      BY <3>3, <3>5, <3>6, Typed DEF IdleThread
    <3>7. CASE Sending(q) = q
      BY <3>2, <3>3, <3>5, <3>7
    <3>8. QED
      BY <3>4, <3>5, <3>6, <3>7
  <2> HIDE DEF s, l
  <2>0. /\ th'[l] = r /\ \A m \in Loops \ {l} : th'[m] = th[m]
    BY <2>1, <2>4, ThreadStep DEF Shape
  <2>5. \A d \in Conns : (Joins(d)' <=> Joins(d)) /\ (Connected(d)' <=> Connected(d))
    BY <2>0, <2>1, <2>4, Typed DEF Joins, Connected
  <2>6. Settles(l, r) /\ Loses(r)
    <3>1. Pending' = Pending
      BY <2>1 DEF Pending
    <3>2. QED
      BY <2>1, <2>4, <2>5, <3>1 DEF Settles, Loses
  <2>7. /\ Alone' /\ Early' /\ Admitted'
        /\ \A d \in Publishers : \A x : Claims(d, x)' => Claims(d, x)
    BY <2>1, <2>2, <2>4, <2>6, AdmissionStands
  <2>8. \A x \in Sessions : SessionAlive(x)' => SessionAlive(x)
    BY <2>1, <2>6, StayLost
  <2>9. \A d \in Conns : Connected(d) => ConnAlive(d)
    BY DEF ConnAlive
  <2>10. ASSUME NEW d \in Publishers, d # c, Claims(d, weak[d]), ~ Joins(d), weak[d] = s,
                PathOf[d] \notin contested
         PROVE  FALSE
    <3>1. PathOf[c] = PathOf[d]
      BY <2>1, <2>10, Typed DEF Placed, s
    <3>2. Claims(c, weak[c])
      BY <2>1, <2>9 DEF Claims, Publishing, s
    <3>3. room[s].publisher = c
      BY <2>1, <2>10, <3>1, <3>2 DEF Ownership, Owned, s
    <3>4. room[s].publisher = d
      BY <2>1, <2>10 DEF Ownership, Owned
    <3>5. QED
      BY <2>10, <3>3, <3>4
  <2>11. Owned'
    <3> SUFFICES ASSUME NEW d \in Publishers, Claims(d, weak[d])', ~ Joins(d)',
                        SessionAlive(weak[d])', PathOf[d] \notin contested
                 PROVE  /\ room'[weak[d]].publisher = d
                        /\ Connected(d)' =>
                             /\ d \in room'[weak[d]].sinks
                             /\ stage'[d] # "start" => room'[weak[d]].header = d
      BY <2>1 DEF Owned
    <3>1. Claims(d, weak[d])
      BY <2>1, <2>7
    <3>2. /\ weak[d] # None /\ weak[d] \in Sessions /\ SessionAlive(weak[d]) /\ ~ Joins(d)
          /\ Connected(d)' <=> Connected(d)
      BY <2>1, <2>5, <2>8, <3>1, Typed DEF Claims
    <3>3. /\ room[weak[d]].publisher = d
          /\ Connected(d) => /\ d \in room[weak[d]].sinks /\ ConnAlive(d)
                             /\ stage[d] # "start" => room[weak[d]].header = d
      BY <2>9, <3>1, <3>2, Typed DEF Ownership, Owned
    <3>4. weak[d] = s => d = c
      BY <2>10, <3>1, <3>2
    <3>5. CASE weak[d] = s
      BY <2>2, <2>3, <3>2, <3>3, <3>4, <3>5
    <3>6. CASE weak[d] # s
      <4>1. d # c /\ room'[weak[d]] = room[weak[d]]
        BY <2>3, <3>2, <3>6 DEF s
      <4>2. QED
        BY <2>2, <3>2, <3>3, <4>1
    <3>7. QED
      BY <3>5, <3>6
  <2>12. Placed' /\ Kept'
    <3>1. Placed'
      BY <2>1 DEF Placed
    <3>2. ASSUME NEW d \in Conns, Connected(d), weak[d] \in Sessions, d \in room[weak[d]].sinks
          PROVE  d \in room'[weak[d]].sinks
      BY <2>3, <2>9, <3>2
    <3>3. Kept'
      BY <2>1, <2>5, <3>2, Typed DEF Kept
    <3>4. QED
      BY <3>1, <3>3
  <2>13. Watched'
    <3> SUFFICES ASSUME NEW d \in Publishers, NEW v \in Players, Publishing(d)', weak[d] # None,
                        SessionAlive(weak[d])', PathOf[d] \notin contested,
                        v \in room'[weak[d]].sinks, player[v].playing
                 PROVE  /\ stage'[d] # "start" /\ ~ Awaits(v, d, "avc")' =>
                             player[v].avc /\ player[v].sawHeader = d
                        /\ stage'[d] = "frames" /\ player[v].key /\ ~ Awaits(v, d, "key")' =>
                             player[v].sawKey = d
      BY <2>1 DEF Watched
    <3>1. /\ weak[d] \in Sessions /\ SessionAlive(weak[d]) /\ Publishing(d)
          /\ v \in room[weak[d]].sinks
      BY <2>1, <2>3, <2>5, <2>8, Typed DEF Publishing
    <3>2. /\ stage[d] # "start" /\ ~ Awaits(v, d, "avc") =>
               player[v].avc /\ player[v].sawHeader = d
          /\ stage[d] = "frames" /\ player[v].key /\ ~ Awaits(v, d, "key") =>
               player[v].sawKey = d
      BY <3>1 DEF Decoding, Watched
    <3>3. CASE d = c
      <4>1. v \in todo
        <5>1. v \in alive /\ state[v] # "HANDSHAKE" /\ v \in Conns
          BY <2>1, <2>3, <3>1, <3>3, Typed DEF Shape, Seated, s
        <5>2. state[v] = "START_PLAY"
          BY <5>1, Typed DEF Shape, Roles, TypeOK
        <5>3. QED
          BY <5>1, <5>2
      <4>2. r.pc = "sending" /\ r.conn = c /\ r.kind = k /\ r.todo = todo
        BY <2>4, <4>1
      <4> HIDE DEF todo
      <4>3. Awaits(v, c, k)'
        BY <2>0, <2>1, <4>1, <4>2 DEF Awaits, l
      <4>4. \A e \in Kinds : ~ Awaits(v, c, e)
        BY <2>1 DEF Awaits, l
      <4>5. QED
        BY <2>2, <3>2, <3>3, <4>3, <4>4 DEF Kinds
    <3>4. CASE d # c
      <4>1. \A e \in Kinds : Awaits(v, d, e) => Awaits(v, d, e)'
        BY <2>0, <2>1, Typed DEF Awaits
      <4>2. QED
        BY <2>2, <3>2, <3>4, <4>1 DEF Kinds
    <3>5. QED
      BY <3>3, <3>4
  <2>14. Fresh'
    BY <2>1, <2>5, Typed DEF Decoding, Fresh
  <2>15. Staged'
    <3>1. ASSUME NEW m \in Loops, m # l, th[m].pc \in {"sending", "notifying"}
          PROVE  th[m].conn \in Publishers \ {c}
      BY <2>1, <3>1, Typed DEF Shape, Serving, Busy, l
    <3>2. ASSUME NEW m \in Loops, th'[m].pc \in {"sending", "notifying"}
          PROVE  /\ th'[m].kind = "avc" => stage'[th'[m].conn] = "header"
                 /\ th'[m].kind \in {"key", "inter"} => stage'[th'[m].conn] = "frames"
      <4>1. CASE m = l
        BY <2>0, <2>2, <2>4, <3>2, <4>1
      <4>2. CASE m # l
        BY <2>0, <2>2, <3>1, <3>2, <4>2 DEF Decoding, Staged
      <4>3. QED
        BY <4>1, <4>2
    <3>3. QED
      BY <3>2 DEF Staged
  <2>16. QED
    BY <2>7, <2>11, <2>12, <2>13, <2>14, <2>15 DEF After, Ownership, Decoding
<1>c. QED
  BY <1>a, <1>b

\* What a player has decoded after a message, from what it had before: the sequence
\* header comes first, and only frames after a key frame.
LEMMA Delivering ==
    ASSUME NEW w \in PlayerRecs, NEW c \in Publishers, NEW k \in Kinds,
           NEW h \in Publishers \cup {None}, NEW st,
           ~ w.broken, w.key => w.playing,
           st # "start" => h = c,
           st # "start" /\ w.playing /\ k # "avc" => w.avc /\ w.sawHeader = c,
           st = "frames" /\ w.playing /\ w.key /\ k # "key" => w.sawKey = c,
           k = "avc" => st = "header", k \in {"key", "inter"} => st = "frames"
    PROVE  LET u == Delivered(w, h, c, k)
           IN  /\ u \in PlayerRecs /\ u.playing /\ ~ u.broken
               /\ st # "start" => u.avc /\ u.sawHeader = c
               /\ st = "frames" /\ u.key => u.sawKey = c
<1> USE RtmpAssumption
<1> DEFINE ahead == ~ w.playing /\ h # None
           first == SendMediaData(w, h, "avc")
<1>1. PICK v \in PlayerRecs :
         /\ Delivered(w, h, c, k) = SendMediaData(v, c, k)
         /\ ~ v.broken
         /\ st # "start" /\ k # "avc" => v.avc /\ v.sawHeader = c
         /\ st = "frames" /\ v.key /\ k # "key" => v.sawKey = c
  <2>1. CASE ahead
    <3>1. "avc" \in Kinds /\ h \in Publishers
      BY <2>1 DEF Kinds
    <3>2. /\ first \in PlayerRecs /\ first.avc /\ first.sawHeader = h
          /\ ~ first.key /\ ~ first.broken
      BY <2>1, <3>1, SentMessage
    <3>3. Delivered(w, h, c, k) = SendMediaData(first, c, k)
      BY <2>1 DEF Delivered
    <3> HIDE DEF first
    <3>4. QED
      BY <3>2, <3>3
  <2>2. CASE ~ ahead
    <3>1. Delivered(w, h, c, k) = SendMediaData(w, c, k)
      BY <2>2 DEF Delivered
    <3>2. st # "start" => w.playing
      BY <2>2 DEF Conns
    <3>3. QED
      BY <3>1, <3>2
  <2>3. QED
    BY <2>1, <2>2
<1> DEFINE u == SendMediaData(v, c, k)
<1>2. /\ u \in PlayerRecs /\ u.playing
      /\ u.avc <=> v.avc \/ k = "avc"
      /\ u.key <=> v.key \/ (k = "key" /\ v.avc)
      /\ u.sawHeader = IF k = "avc" THEN c ELSE v.sawHeader
      /\ u.sawKey = IF k = "key" THEN c ELSE v.sawKey
      /\ u.broken => \/ v.broken
                     \/ k = "key" /\ v.sawHeader # c
                     \/ k = "inter" /\ ~ Gated(v, k) /\ (v.sawKey # c \/ v.sawHeader # c)
  BY SentMessage
<1>3. Delivered(w, h, c, k) = u
  BY <1>1
<1> HIDE DEF u
<1>4. ~ u.broken
  BY <1>1, <1>2 DEF Gated
<1>5. QED
  BY <1>1, <1>2, <1>3, <1>4

\* Of any message, what a player's flags say of it being in use.
LEMMA Played ==
    ASSUME NEW w \in PlayerRecs, NEW c \in Publishers, NEW k \in Kinds,
           NEW h \in Publishers \cup {None}
    PROVE  Delivered(w, h, c, k).playing
<1> DEFINE first == SendMediaData(w, h, "avc")
<1>1. CASE h \in Publishers
  <2>1. first \in PlayerRecs
    BY <1>1, SentMessage DEF Kinds
  <2> HIDE DEF first
  <2>2. SendMediaData(first, c, k).playing /\ SendMediaData(w, c, k).playing
    BY <2>1, SentMessage
  <2>3. Delivered(w, h, c, k) \in {SendMediaData(first, c, k), SendMediaData(w, c, k)}
    BY DEF Delivered, first
  <2>4. QED
    BY <2>2, <2>3
<1>2. CASE h = None
  <2>1. Delivered(w, h, c, k) = SendMediaData(w, c, k)
    BY <1>2 DEF Delivered
  <2>2. QED
    BY <2>1, SentMessage
<1>3. QED
  BY <1>1, <1>2

\* The next player gets a message, or the last one has got it.
LEMMA KeptBySending ==
    ASSUME Before, NEW l \in Loops, Notified(l) \/ (\E v \in Players : SendOne(l, v))
    PROVE  After
<1> USE DEF Before, IInv
<1> DEFINE c == th[l].conn
           k == th[l].kind
           s == weak[c]
<1>1. /\ th[l].pc \in {"sending", "notifying"} /\ l = LoopOf[c]
      /\ c \in Publishers /\ k \in Kinds /\ Publishing(c) /\ ~ Joins(c)
      /\ th[l].sess = s /\ s \in Sessions /\ s # None /\ SessionAlive(s)
      /\ th[l].todo \subseteq room[s].sinks \cap Players
      /\ UNCHANGED <<conn, state, weak, sessions, room, timers, leaked, stage, contested, robbed>>
  BY Typed DEF Notified, SendOne, Shape, Serving, Busy, Bound, Publishing, Joins, SessionAlive,
               races
<1>2. PICK r \in Recs :
         /\ th' = [th EXCEPT ![l] = r]
         /\ \/ /\ r = IdleThread
               /\ \A w \in th[l].todo : \E v \in Players : SendOne(l, v) /\ w = v
            \/ /\ r.pc = "sending"
               /\ r.conn = th[l].conn /\ r.sess = th[l].sess
               /\ r.kind = th[l].kind /\ r.todo \subseteq th[l].todo
               /\ \A w \in th[l].todo \ r.todo : \E v \in Players : SendOne(l, v) /\ w = v
  BY SendingThread DEF Shape
<1>3. /\ r.pc \in {"idle", "sending"}
      /\ r.sess # None => SessionAlive(r.sess)
      /\ r.pc = "sending" => r.conn = c /\ r.kind = k
      /\ \A w \in th[l].todo : (r.pc = "sending" /\ w \in r.todo) \/ SendOne(l, w)
  BY <1>1, <1>2 DEF IdleThread
<1> HIDE DEF c, k, s
<1>0. /\ th'[l] = r /\ \A m \in Loops \ {l} : th'[m] = th[m]
  BY <1>2, ThreadStep DEF Shape
<1>4. \A d \in Conns : (Joins(d)' <=> Joins(d)) /\ (Connected(d)' <=> Connected(d))
  BY <1>0, <1>1, <1>3, Typed DEF Joins, Connected
<1>5. Settles(l, r) /\ Loses(r) /\ Follows(l, r)
  <2>1. Pending' = Pending
    BY <1>1 DEF Pending
  <2>2. QED
    BY <1>1, <1>2, <1>3, <1>4, <2>1 DEF Settles, Loses, Follows
<1>6. Ownership'
  BY <1>1, <1>4, <1>5, Typed, OwnershipStands
<1>7. Placed' /\ Kept'
  BY <1>1, <1>4, KeptStands DEF Placed
<1>8. \A d \in Publishers : Publishing(d)' <=> Publishing(d)
  BY <1>1, <1>4, Typed DEF Publishing
<1>9. \A x \in Sessions : SessionAlive(x)' => SessionAlive(x)
  BY <1>5, StayLost
\* What a player that has got the message has decoded.
<1> DEFINE Done(v, d) == /\ stage[d] # "start" => player'[v].avc /\ player'[v].sawHeader = d
                         /\ stage[d] = "frames" /\ player'[v].key => player'[v].sawKey = d
<1>10. ASSUME NEW v \in Players, SendOne(l, v)
       PROVE  /\ \A w \in Players \ {v} : player'[w] = player[w]
              /\ conn[v] = "closed" => player' = player /\ ~ player[v].playing
              /\ conn[v] # "closed" => player'[v].playing
              /\ v \in room[s].sinks /\ PathOf[v] = PathOf[c] /\ weak[v] = s
              /\ state[v] # "HANDSHAKE" /\ ~ Joins(v)
              /\ conn[v] # "closed" /\ PathOf[c] \notin contested =>
                    ~ player'[v].broken /\ Done(v, c)
  <2> USE <1>10
  <2>1. v \in room[s].sinks /\ v \in th[l].todo /\ th[l].pc = "sending"
    BY <1>1 DEF SendOne
  <2>2. weak[v] = s /\ PathOf[v] = PathOf[c] /\ state[v] # "HANDSHAKE" /\ ~ Joins(v)
    BY <1>1, <2>1, Typed DEF Shape, Seated, Placed, s
  <2>3. /\ player[v] \in PlayerRecs /\ room[s].header \in Publishers \cup {None}
        /\ \A w \in Players \ {v} : player'[w] = player[w]
        /\ conn[v] = "closed" => player' = player
        /\ conn[v] # "closed" => player'[v] = Delivered(player[v], room[s].header, c, k)
    BY <1>1 DEF SendOne, Shape, TypeOK, PlayerRecs, c, k
  <2>4. /\ player[v].key => player[v].playing
        /\ conn[v] = "closed" => ~ player[v].playing
    BY DEF Decoding, Fresh
  <2>5. conn[v] # "closed" => player'[v].playing
    <3> DEFINE h == room[s].header
    <3>1. h \in Publishers \cup {None}
      BY <2>3
    <3> HIDE DEF h
    <3>2. Delivered(player[v], h, c, k).playing
      BY <1>1, <2>3, <3>1, Played
    <3>3. QED
      BY <2>3, <3>2 DEF h
  <2>6. ASSUME conn[v] # "closed", PathOf[c] \notin contested
        PROVE  ~ player'[v].broken /\ Done(v, c)
    <3>1. stage[c] # "start" => room[s].header = c
      <4>1. Claims(c, weak[c]) /\ Connected(c)
        BY <1>1 DEF Claims, ConnAlive, Publishing, s
      <4>2. QED
        BY <1>1, <2>6, <4>1 DEF Ownership, Owned, s
    <3>2. ~ player[v].broken
      BY <2>2, <2>6 DEF Decoding, Fresh
    <3>3. /\ stage[c] # "start" /\ player[v].playing /\ k # "avc" =>
                player[v].avc /\ player[v].sawHeader = c
          /\ stage[c] = "frames" /\ player[v].playing /\ player[v].key /\ k # "key" =>
                player[v].sawKey = c
      <4>1. \A e \in Kinds : Awaits(v, c, e) => e = k
        BY <1>1 DEF Awaits, c, k
      <4>2. QED
        BY <1>1, <2>1, <2>6, <4>1 DEF Decoding, Watched, Kinds, s
    <3>4. /\ k = "avc" => stage[c] = "header"
          /\ k \in {"key", "inter"} => stage[c] = "frames"
      BY <1>1 DEF Decoding, Staged, c, k
    <3> DEFINE h == room[s].header
               st == stage[c]
               w == player[v]
               u == Delivered(w, h, c, k)
    <3>5. /\ w \in PlayerRecs /\ h \in Publishers \cup {None}
          /\ ~ w.broken /\ (w.key => w.playing)
          /\ st # "start" => h = c
          /\ st # "start" /\ w.playing /\ k # "avc" => w.avc /\ w.sawHeader = c
          /\ st = "frames" /\ w.playing /\ w.key /\ k # "key" => w.sawKey = c
          /\ (k = "avc" => st = "header") /\ (k \in {"key", "inter"} => st = "frames")
      BY <2>3, <2>4, <3>1, <3>2, <3>3, <3>4
    <3>6. player'[v] = u
      BY <2>3, <2>6
    <3> HIDE DEF h, st, w
    <3>7. /\ ~ u.broken
          /\ st # "start" => u.avc /\ u.sawHeader = c
          /\ st = "frames" /\ u.key => u.sawKey = c
      BY <1>1, <3>5, Delivering
    <3> HIDE DEF u
    <3>8. QED
      BY <3>6, <3>7 DEF st
  <2>7. QED
    BY <2>1, <2>2, <2>3, <2>4, <2>5, <2>6
<1> HIDE DEF Done
<1>11. CASE Notified(l)
  <2>1. player' = player /\ \A v \in Players : ~ SendOne(l, v)
    BY <1>11 DEF Notified, SendOne
  <2>2. \A m \in Loops :
          \/ th'[m] = th[m]
          \/ th[m].todo = {} /\ th'[m].pc \notin SendingPcs
          \/ /\ th'[m].pc \in SendingPcs /\ th[m].pc \in SendingPcs
             /\ th'[m].conn = th[m].conn /\ th'[m].kind = th[m].kind
             /\ th[m].todo \subseteq th'[m].todo
    <3>1. th[l].todo \subseteq Players
      BY <1>1
    <3>2. \A w \in th[l].todo : r.pc = "sending" /\ w \in r.todo
      BY <1>3, <2>1, <3>1
    <3>3. QED
      BY <1>0, <1>1, <1>3, <3>2 DEF SendingPcs, c, k
  <2>3. Decoding'
    BY <1>1, <1>4, <1>8, <1>9, <2>1, <2>2, Typed, DecodingStands
  <2>4. QED
    BY <1>6, <1>7, <2>3 DEF After
<1>12. ASSUME NEW v \in Players, SendOne(l, v)
       PROVE  Decoding'
  <2> USE <1>10, <1>12
  <2>1. Watched'
    <3> SUFFICES ASSUME NEW d \in Publishers, NEW w \in Players, Publishing(d), weak[d] # None,
                        SessionAlive(weak[d]), PathOf[d] \notin contested,
                        w \in room[weak[d]].sinks, player'[w].playing
                 PROVE  /\ stage[d] # "start" /\ ~ Awaits(w, d, "avc")' =>
                             player'[w].avc /\ player'[w].sawHeader = d
                        /\ stage[d] = "frames" /\ player'[w].key /\ ~ Awaits(w, d, "key")' =>
                             player'[w].sawKey = d
      BY <1>1, <1>8, <1>9, Typed DEF Watched
    <3>1. CASE w = v
      <4>1. conn[v] # "closed"
        BY <3>1
      <4>2. weak[d] = s
        BY <3>1, Typed DEF Shape, Seated
      <4>3. PathOf[d] = PathOf[c]
        BY <1>1, <4>2, Typed DEF Placed, s
      <4>4. CASE d = c
        BY <3>1, <4>1, <4>4 DEF Done
      <4>5. CASE d # c /\ Joins(d)
        BY <4>5 DEF Ownership, Early
      <4>6. CASE d # c /\ ~ Joins(d)
        <5>1. Claims(d, weak[d]) /\ Claims(c, weak[c])
          BY <1>1 DEF Claims, ConnAlive, Publishing, s
        <5>2. room[s].publisher = d
          BY <4>2, <4>6, <5>1 DEF Ownership, Owned
        <5>3. room[s].publisher = c
          BY <1>1, <4>3, <5>1 DEF Ownership, Owned, s
        <5>4. QED
          BY <4>6, <5>2, <5>3
      <4>7. QED
        BY <4>4, <4>5, <4>6
    <3>2. CASE w # v
      <4>1. player'[w] = player[w]
        BY <3>2
      <4>2. ASSUME NEW e \in Kinds, Awaits(w, d, e) PROVE Awaits(w, d, e)'
        <5>1. CASE LoopOf[d] = l
          <6>1. PICK q \in Recs :
                   /\ th' = [th EXCEPT ![l] = q]
                   /\ \/ q = IdleThread /\ th[l].todo \subseteq {v}
                      \/ /\ q.pc = "sending"
                         /\ q.conn = th[l].conn /\ q.sess = th[l].sess
                         /\ q.kind = th[l].kind /\ q.todo = th[l].todo \ {v}
            BY SentTo DEF Shape
          <6>2. th'[l] = q
            BY <6>1, ThreadStep DEF Shape
          <6>3. QED
            BY <3>2, <4>2, <5>1, <6>1, <6>2 DEF Awaits
        <5>2. CASE LoopOf[d] # l
          BY <1>0, <4>2, <5>2, Typed DEF Awaits
        <5>3. QED
          BY <5>1, <5>2
      <4>3. QED
        BY <4>1, <4>2 DEF Decoding, Watched, Kinds
    <3>3. QED
      BY <3>1, <3>2
  <2>2. Fresh'
    BY <1>1, <1>4, Typed DEF Decoding, Fresh
  <2>3. Staged'
    BY <1>0, <1>1, <1>3 DEF Decoding, Staged, c, k
  <2>4. QED
    BY <2>1, <2>2, <2>3 DEF Decoding
<1>13. QED
  BY <1>6, <1>7, <1>11, <1>12 DEF After

----------------------------------------------------------------------------
(* The invariant and what follows from it.                                    *)

\* At first nobody is connected and nothing is decoded.
LEMMA InvInit ==
    ASSUME Init
    PROVE  IInv
<1>1. Shape
  BY ShapeInit
<1>2. Ownership
  BY <1>1, PendingIs, Typed
     DEF Init, Ownership, Alone, Owned, Admitted, Early, Claims, Joins, Handles, IdleThread
<1>3. Decoding
  BY <1>1, ResetFlags, Typed
     DEF Init, Decoding, Watched, Fresh, Staged, Publishing, Connected, IdleThread
<1>4. Placed /\ Kept
  BY DEF Init, Placed, Kept
<1>5. QED
  BY <1>1, <1>2, <1>3, <1>4 DEF IInv

\* Every step keeps the invariant.
LEMMA InvStep ==
    ASSUME IInv, [Next]_vars
    PROVE  IInv'
<1>1. Shape'
  BY ShapeStep DEF IInv
<1>2. Before
  BY <1>1 DEF Before
<1>3. ASSUME NEW c \in Conns, Opens(c) \/ Leaves(c) PROVE After
  BY <1>2, <1>3, KeptByClients
<1>4. ASSUME NEW c \in Publishers, PublishAsks(c) PROVE After
  <2>1. c \in Conns /\ LoopOf[c] \in Loops
    BY RtmpAssumption DEF Conns
  <2>2. QED
    BY <1>2, <1>4, <2>1, KeptByVisits DEF Visits
<1>5. ASSUME NEW c \in Publishers, NEW k \in Kinds, Media(c, k) PROVE After
  BY <1>2, <1>5, KeptByMedia
<1>6. ASSUME NEW c \in Players, PlayStarts(c) PROVE After
  <2>1. c \in Conns /\ LoopOf[c] \in Loops
    BY RtmpAssumption DEF Conns
  <2>2. QED
    BY <1>2, <1>6, <2>1, KeptByVisits DEF Visits
<1>7. ASSUME NEW l \in Loops, Continues(l) PROVE After
  <2>1. CASE PublishRefused(l) \/ PublishAccepted(l)
    BY <1>2, <2>1, KeptByAsking
  <2>2. CASE PublishStarts(l)
    <3>1. th[l].conn \in Conns /\ LoopOf[th[l].conn] = l
      BY <2>2 DEF PublishStarts, IInv, Shape, Serving, Busy, Conns, TypeOK
    <3>2. QED
      BY <1>2, <2>2, <3>1, KeptByVisits DEF Visits
  <2>3. CASE LocksSession(l) \/ AddSink(l) \/ RemoveSink(l)
    BY <1>2, <2>3, KeptByLocking, KeptByAdding, KeptByRemoving
  <2>4. ASSUME NEW v \in Players, SendFails(l, v) PROVE After
    BY <1>2, <2>4, KeptByFailure
  <2>5. CASE Notified(l) \/ \E v \in Players : SendOne(l, v)
    BY <1>2, <2>5, KeptBySending
  <2>6. CASE \E p \in Paths : CleansOne(p)
    BY <1>2, <2>6, KeptByCleaning
  <2>7. QED
    BY <1>7, <2>1, <2>2, <2>3, <2>4, <2>5, <2>6 DEF Continues
<1>8. ASSUME NEW l \in Loops, NextTimer(l) PROVE After
  BY <1>2, <1>8, KeptByTimers DEF NextTimer
<1>9. ASSUME NEW l \in Loops, Closes(l) PROVE After
  BY <1>2, <1>9, KeptByClosing DEF Closes
<1>10. ASSUME CleanStarts PROVE After
  BY <1>2, <1>10, KeptByCleaning
<1>11. ASSUME UNCHANGED vars PROVE After
  <2>1. UNCHANGED <<conn, state, weak, sessions, room, timers, leaked, th, stage, player,
                    contested, robbed>>
    BY <1>11 DEF vars, races
  <2>2. Pending' = Pending
    BY <2>1 DEF Pending
  <2>3. \A c \in Conns : /\ Connected(c)' <=> Connected(c)
                         /\ ConnAlive(c)' <=> ConnAlive(c)
                         /\ Joins(c)' <=> Joins(c)
    BY <2>1, <2>2 DEF Connected, ConnAlive, Joins
  <2>4. Settles(0, th[0]) /\ Loses(th[0])
    BY <1>2, <2>1, <2>2, <2>3, Resting DEF Settles, Loses, Before, IInv
  <2>5. Ownership'
    BY <1>2, <2>1, <2>3, <2>4, Resting, Typed, OwnershipStands DEF Before, IInv
  <2>6. Placed' /\ Kept'
    BY <1>2, <2>1, <2>3, KeptStands DEF Before, IInv, Placed
  <2>7. \A c \in Publishers : Publishing(c)' => Publishing(c)
    BY <2>1 DEF Publishing, Connected
  <2>8. \A s \in Sessions : SessionAlive(s)' => SessionAlive(s)
    BY <2>1, <2>2 DEF SessionAlive
  <2>9. Decoding'
    BY <1>2, <2>1, <2>3, <2>7, <2>8, Typed, DecodingStands DEF Before, IInv
  <2>10. QED
    BY <2>5, <2>6, <2>9 DEF After
<1>12. After
  BY <1>3, <1>4, <1>5, <1>6, <1>7, <1>8, <1>9, <1>10, <1>11 DEF Next
<1>13. QED
  BY <1>1, <1>12 DEF After, IInv

\* The invariant holds in every state of a run.
LEMMA InvHolds == Spec => []IInv
<1>1. Init => IInv
  BY InvInit
<1>2. IInv /\ [Next]_vars => IInv'
  BY InvStep
<1>3. QED
  BY <1>1, <1>2, PTL DEF Spec

\* No player is sent a frame that its decoder cannot use, whoever published the stream
\* before, whenever the player comes and whatever loops they are on, unless two
\* publishers asked for the stream at once.
THEOREM StreamDecodable == Spec => []Decodable
<1>1. IInv => Decodable
  BY DEF Decodable, IInv, Decoding, Fresh
<1>2. QED
  BY <1>1, InvHolds, PTL

\* A client that was told to start is, once its handler has returned, in the session
\* the map has for its stream, and stays in it for as long as it is connected, unless
\* the cleaner erased the session while it joined; a publisher is the session's
\* publisher, unless another asked for the stream at the same time.
THEOREM SessionsKept == Spec => []SessionKept
<1>1. IInv => SessionKept
  <2> SUFFICES ASSUME IInv, NEW c \in Conns \ robbed, Joined(c)
               PROVE  /\ weak[c] # None /\ sessions[PathOf[c]] = weak[c]
                      /\ c \in room[weak[c]].sinks
                      /\ c \in Publishers /\ PathOf[c] \notin contested =>
                            room[weak[c]].publisher = c
    BY DEF SessionKept
  <2>1. ~ Joins(c) /\ Connected(c) /\ state[c] # "HANDSHAKE"
    BY DEF Joined, Joins
  <2>2. weak[c] # None /\ sessions[PathOf[c]] = weak[c] /\ c \in room[weak[c]].sinks
    BY <2>1 DEF IInv, Kept
  <2>3. c \in Publishers => Claims(c, weak[c])
    BY <2>1, <2>2, Typed DEF Claims, ConnAlive, IInv, Shape, Roles, TypeOK
  <2>4. SessionAlive(weak[c])
    BY <2>2, Typed DEF SessionAlive, IInv
  <2>5. QED
    BY <2>1, <2>2, <2>3, <2>4 DEF IInv, Ownership, Owned
<1>2. QED
  BY <1>1, InvHolds, PTL

=============================================================================
