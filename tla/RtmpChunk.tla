------------------------------- MODULE RtmpChunk -------------------------------
(* RTMP chunks: how a message is cut into a stream of bytes, and put together *)
(* again by a reader that gets the stream in pieces of any size.  A byte      *)
(* stream is a sequence of units: a basic header, a message header, and the   *)
(* pieces of a payload.                                                       *)
EXTENDS Integers, SequencesExt

CONSTANT None

\* The chunk streams of control messages, commands, audio and video.
Csids == 2 .. 5

\* A message is what it says, its chunk stream, and its length in pieces.
Message(csid, lenght, body) == [csid |-> csid, lenght |-> lenght, body |-> body]

Basic(fmt, csid) == [unit |-> "basic", fmt |-> fmt, csid |-> csid]
Header(m) == [unit |-> "header", of |-> m]
Piece(m, i) == [unit |-> "piece", of |-> m, no |-> i]

Pieces(m) == [i \in 1 .. m.lenght |-> Piece(m, i)]

\* The message's first chunk has a full header; those after it only a basic one.
CreateChunk(m, size) ==
    <<Basic(0, m.csid), Header(m)>>
      \o FlattenSeq([i \in 1 .. m.lenght |->
           IF i > 1 /\ (i - 1) % size = 0 THEN <<Basic(3, m.csid), Piece(m, i)>>
           ELSE <<Piece(m, i)>>])

\* The messages that end in a stretch of a stream.
Ends(u) == u.unit = "piece" /\ u.no = u.of.lenght

Ended(units) ==
    FoldLeft(LAMBDA messages, u : IF Ends(u) THEN Append(messages, u.of) ELSE messages,
             <<>>, units)
-------------------------------------------------------------------------------
(* The reader: what it has not used of the stream, where it is in a chunk, the *)
(* chunk stream of that chunk, the size of chunks, and for each chunk stream    *)
(* the message it is putting together.                                          *)

NoMessage == [of |-> None, got |-> <<>>]

NewReader(size) == [buf |-> <<>>, state |-> "header", csid |-> None, size |-> size,
                    message |-> [c \in Csids |-> NoMessage], out |-> None]

\* What a reader out of step makes of a stream.
Garbled == Message(2, 1, "garbled")

Used(r, n) == [r EXCEPT !.buf = SubSeq(@, n + 1, Len(@))]

\* A header is used only when all of it is there.
ParseChunkHeader(r) ==
    LET h == Head(r.buf)
    IN  IF h.unit # "basic" THEN [Used(r, 1) EXCEPT !.out = Garbled]
        ELSE IF h.fmt # 0
          THEN [Used(r, 1) EXCEPT !.csid = h.csid, !.state = "body"]
        ELSE IF Len(r.buf) < 2 THEN r
        ELSE [Used(r, 2) EXCEPT !.csid = h.csid, !.state = "body",
                !.message[h.csid] = [of |-> r.buf[2].of, got |-> <<>>]]

\* So is a chunk's share of the payload.
BodySize(r) ==
    LET m == r.message[r.csid]
        left == m.of.lenght - Len(m.got)
    IN  IF left > r.size THEN r.size ELSE left

ChunkDone(r, got, lenght) == Len(got) >= lenght \/ Len(got) % r.size = 0

ParseChunkBody(r) ==
    LET m == r.message[r.csid]
        n == BodySize(r)
        got == m.got \o SubSeq(r.buf, 1, n)
    IN  IF Len(r.buf) < n THEN r
        ELSE IF Len(got) = m.of.lenght
          THEN [Used(r, n) EXCEPT !.state = "header", !.csid = None,
                  !.message[r.csid] = NoMessage,
                  !.out = IF got = Pieces(m.of) THEN m.of ELSE Garbled]
        ELSE [Used(r, n) EXCEPT !.message[r.csid].got = got,
                !.state = IF ChunkDone(r, got, m.of.lenght) THEN "header" ELSE "body"]

\* One call: a header, or a chunk's body and with it perhaps a message.
Parse(r) ==
    IF r.buf = <<>> THEN r
    ELSE IF r.state = "header" THEN ParseChunkHeader(r) ELSE ParseChunkBody(r)

\* op(x), for TLC: x is evaluated once, however often op looks at it.
Once(x, op(_)) == CHOOSE y \in {op(v) : v \in {x}} : TRUE

\* The loop of a connection's HandleChunk: parse, handle what is complete, until
\* nothing more is, or a handler refuses to go on.  c is the connection's state,
\* with its reader and ok.
HandleChunk(c, HandleMessage(_, _)) ==
    LET Handled(x) ==
          IF x.reader.out = None THEN x
          ELSE HandleMessage([x EXCEPT !.reader.out = None], x.reader.out)
        Parsed(x) == Once([x EXCEPT !.reader = Parse(@)], Handled)
        Turn(x, u) == Once(x, LAMBDA y : IF y.ok THEN Parsed(y) ELSE y)
    IN  FoldLeft(Turn, c, c.reader.buf)
===============================================================================
