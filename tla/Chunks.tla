-------------------------------- MODULE Chunks --------------------------------
(***************************************************************************)
(* The chunk stream under an RTMP connection (wire/rtmp/conn.go:           *)
(* sendMessage, readMessage, handleControl, maybeSendAck).                 *)
(*                                                                         *)
(* Nothing on the wire says where a chunk ends: a reader knows it from the *)
(* header, from what it remembers of that chunk stream and from the chunk  *)
(* size of the moment, and one unit too many is the end of all sense. The  *)
(* wire is a sequence of units: a header, an extended timestamp, a piece   *)
(* of payload that knows its message. The server is external; it may       *)
(* interleave its chunk streams, abbreviate headers, change its chunk size *)
(* and wait for acknowledgements.                                          *)
(***************************************************************************)
EXTENDS Naturals, Sequences, SequencesExt, Functions

CONSTANTS
  CSIDs,        \* chunk streams of the server
  Sizes,        \* chunk sizes it may announce
  Lengths,      \* lengths of messages, in pieces
  Window,       \* how many units it sends ahead of an acknowledgement
  MaxMsgs,      \* bound: messages of the server
  MaxOwn,       \* bound: messages of the program but for acknowledgements
  MaxWire       \* bound: units under way

ASSUME ChunksAssumption ==
  /\ Sizes \subseteq 1..999 /\ Lengths \subseteq Nat \ {0} /\ Window \in Nat \ {0}
  /\ MaxMsgs \in Nat /\ MaxOwn \in Nat /\ MaxWire \in Nat

VARIABLES
  chunksDown, chunksUp, \* the wire in both directions
  sender, sendSize,     \* what the server last sent on each chunk stream; its chunk size
  chunksSent, ackSeen,  \* units the server has sent; those it has seen acknowledged
  begun,                \* history: the server's messages, [csid, len]
  csidState, inChunk,   \* the reader
  bytesIn, bytesInAcked,
  peer, peerSize,       \* the server as a reader
  written,              \* history: the program's messages, acknowledgements apart
  delivered, received,  \* history: messages the program has read, the server has read
  repeated,             \* history: the server has repeated an extended timestamp
  garbled, peerGarbled  \* history: the program, the server has taken a unit for what it is not

serverVars == <<sender, sendSize, chunksSent, ackSeen, begun, peer, peerSize, received, repeated, peerGarbled>>
programVars == <<csidState, inChunk, bytesIn, bytesInAcked, written, delivered>>
chunksVars == <<chunksDown, chunksUp, serverVars, programVars, garbled>>

Unit(t) == [t |-> t, fmt |-> 0, csid |-> 0, len |-> 0, kind |-> 0, ext |-> FALSE, msg |-> 0]
ChunkHeader(f, c, l, k, e) ==
  [Unit("header") EXCEPT !.fmt = f, !.csid = c, !.len = l, !.kind = k, !.ext = e]
Ext == Unit("ext")
Piece(m) == [Unit("piece") EXCEPT !.msg = m]
Pieces(m, k) == [i \in 1..k |-> Piece(m)]

\* What a message is about. 0: nothing that matters here; a size: the new chunk
\* size; AckKind: an acknowledgement.
AckKind == 1000
OwnCSIDs == {2, 4}   \* what the program writes on
OutChunk == 2        \* its chunk size, announced by its first message
Fresh == [mlen |-> 0, kind |-> 0, remaining |-> 0, buf |-> <<>>, ext |-> FALSE]

ChunksInit ==
  /\ chunksDown = <<>> /\ chunksUp = <<>>
  /\ sender = [c \in CSIDs |-> Fresh] /\ sendSize = 1 /\ chunksSent = 0 /\ ackSeen = 0 /\ begun = <<>>
  /\ csidState = [c \in CSIDs |-> Fresh] /\ inChunk = 1 /\ bytesIn = 0 /\ bytesInAcked = 0
  /\ peer = [c \in OwnCSIDs |-> Fresh] /\ peerSize = 1 /\ written = <<>>
  /\ delivered = <<>> /\ received = <<>> /\ repeated = FALSE /\ garbled = FALSE /\ peerGarbled = FALSE

Least(a, b) == IF a < b THEN a ELSE b

---------------------------------------------------------------------------
(* Reading *)

\* Plausible defect: what a repeated header begins is appended to the message before.
BeginsAppended(s, h) ==
  IF h.fmt \in {0, 1}
  THEN [mlen |-> h.len, kind |-> h.kind, remaining |-> h.len, buf |-> <<>>, ext |-> h.ext]
  ELSE IF h.fmt = 2 THEN [s EXCEPT !.remaining = s.mlen, !.buf = <<>>, !.ext = h.ext]
  ELSE IF s.remaining = 0 THEN [s EXCEPT !.remaining = s.mlen] ELSE s

\* What a header says about its chunk stream: formats 0, 1 and 2 begin a message,
\* 3 continues one, or begins one like the last.
Begins(s, h) ==
  IF h.fmt \in {0, 1}
  THEN [mlen |-> h.len, kind |-> h.kind, remaining |-> h.len, buf |-> <<>>, ext |-> h.ext]
  ELSE IF h.fmt = 2 THEN [s EXCEPT !.remaining = s.mlen, !.buf = <<>>, !.ext = h.ext]
  ELSE IF s.remaining = 0 THEN [s EXCEPT !.remaining = s.mlen, !.buf = <<>>] ELSE s

\* One chunk at the head of wire w, read with a chunk size by somebody who expects
\* an extended timestamp in format 3 or does not: the units it takes, whether they
\* were what they were taken for, and the chunk stream after it.
Chunk(w, states, size, repeats) ==
  LET h == Head(w)
      s == Begins(states[h.csid], h)
      stamped == IF h.fmt = 3 THEN repeats /\ s.ext ELSE h.ext
      skip == IF stamped THEN 2 ELSE 1
      want == Least(s.remaining, size)
      whole == skip + want <= Len(w)
      data == SubSeq(w, skip + 1, skip + want)
  IN [whole |-> whole, used |-> skip + want,
      sound |-> whole => /\ stamped => w[2].t = "ext"
                         /\ \A i \in DOMAIN data : data[i].t = "piece",
      state |-> IF whole THEN [s EXCEPT !.remaining = @ - want, !.buf = @ \o data] ELSE s]

\* What has been put together: the messages the pieces are of, and how many they are.
Assembled(s) == [msgs |-> {s.buf[i].msg : i \in DOMAIN s.buf}, len |-> Len(s.buf)]

\* Plausible defect: the extended timestamp is written once.
SendMessageOnce(csid, kind, m, len, size, ext) ==
  LET stamp(i) == IF ext /\ i = 0 THEN <<Ext>> ELSE <<>>
      chunk(i) == <<ChunkHeader(IF i = 0 THEN 0 ELSE 3, csid, len, kind, ext)>> \o stamp(i)
                    \o Pieces(m, Least(size, len - i * size))
  IN FlattenSeq([i \in 1..((len + size - 1) \div size) |-> chunk(i - 1)])

\* sendMessage: one header, then chunks of format 3, the extended timestamp in all
\* of them. The lock and the single write keep messages apart.
SendMessage(csid, kind, m, len, size, ext) ==
  LET stamp == IF ext THEN <<Ext>> ELSE <<>>
      chunk(i) == <<ChunkHeader(IF i = 0 THEN 0 ELSE 3, csid, len, kind, ext)>> \o stamp
                    \o Pieces(m, Least(size, len - i * size))
  IN FlattenSeq([i \in 1..((len + size - 1) \div size) |-> chunk(i - 1)])

\* Plausible defect: the byte the reader waits with is not counted.
CountedWithoutTick(used) == used - 1

\* Plausible defect: it is counted here and there.
CountedTwice(used) == used + 1

\* recvExact and the reader's first byte.
Counted(used) == used

\* Plausible defect: the new chunk size is only logged.
NewSizeIgnored(s, size) == size

\* handleControl: a new chunk size holds from here on.
NewSize(s, size) == IF s.remaining = 0 /\ s.kind \in Sizes THEN s.kind ELSE size

\* readMessage, one chunk; maybeSendAck when half the window has come in.
ReadMessage ==
  /\ chunksDown # <<>> /\ ~garbled
  /\ IF Head(chunksDown).t # "header" THEN garbled' = TRUE /\ UNCHANGED <<chunksDown, chunksUp, programVars>>
     ELSE LET r == Chunk(chunksDown, csidState, inChunk, FALSE)
              c == Head(chunksDown).csid
          IN /\ r.whole /\ garbled' = ~r.sound
             /\ chunksDown' = SubSeq(chunksDown, r.used + 1, Len(chunksDown))
             /\ csidState' = [csidState EXCEPT ![c] = r.state]
             /\ inChunk' = NewSize(r.state, inChunk)
             /\ delivered' = IF r.state.remaining = 0
                             THEN Append(delivered, Assembled(r.state)) ELSE delivered
             /\ bytesIn' = bytesIn + Counted(r.used)
             /\ IF bytesIn' - bytesInAcked >= Window \div 2
                THEN /\ bytesInAcked' = bytesIn'
                     /\ chunksUp' = chunksUp \o SendMessage(2, AckKind, bytesIn', 1, OutChunk, FALSE)
                ELSE UNCHANGED <<bytesInAcked, chunksUp>>
             /\ written' = written
  /\ UNCHANGED serverVars

---------------------------------------------------------------------------
(* Writing *)

\* The first message of the program is its chunk size, before that chunks are small.
WriteTag ==
  /\ Len(written) < MaxOwn /\ Len(chunksUp) < MaxWire
  /\ \/ /\ written = <<>> /\ written' = <<1>>
        /\ chunksUp' = chunksUp \o SendMessage(2, OutChunk, 1, 1, 1, FALSE)
     \/ /\ written # <<>>
        /\ \E l \in Lengths, e \in BOOLEAN :
             /\ written' = Append(written, l)
             /\ chunksUp' = chunksUp \o SendMessage(4, 0, Len(written'), l, OutChunk, e)
  /\ UNCHANGED <<chunksDown, serverVars, garbled, csidState, inChunk, bytesIn, bytesInAcked, delivered>>

---------------------------------------------------------------------------
(* The server *)

Announces(s) == IF s.remaining = 0 /\ s.kind # 0 THEN s.kind ELSE sendSize

\* The chunk that goes on with the message of chunk stream c. A server may say an extended
\* timestamp again in a chunk of format 3.
ServerContinues(c, again) ==
  LET s == sender[c]
      k == Least(s.remaining, sendSize)
      units == <<ChunkHeader(3, c, 0, 0, FALSE)>>
                 \o (IF again THEN <<Ext>> ELSE <<>>) \o Pieces(s.buf[1].msg, k)
  IN /\ s.remaining > 0 /\ (again => s.ext) /\ chunksDown' = chunksDown \o units /\ begun' = begun
     /\ sender' = [sender EXCEPT ![c].remaining = @ - k]
     /\ sendSize' = Announces(sender'[c])
     /\ chunksSent' = chunksSent + Len(units)

\* The first chunk of a message, its header as short as the last one allows.
ServerBegins(c, f, l, kind, e, again) ==
  LET s == sender[c]
      len == IF f \in {0, 1} THEN l ELSE s.mlen
      k == Least(len, sendSize)
      what == IF f \in {0, 1} THEN kind ELSE s.kind
      ext == IF f = 3 THEN s.ext ELSE e
      units == <<ChunkHeader(f, c, len, what, ext)>>
                 \o (IF (ext /\ f # 3) \/ again THEN <<Ext>> ELSE <<>>) \o Pieces(Len(begun) + 1, k)
  IN /\ s.remaining = 0 /\ (s.mlen = 0 => f = 0) /\ Len(begun) < MaxMsgs
     /\ (f \in {2, 3} => l = s.mlen /\ kind = s.kind) /\ (f = 3 => e = s.ext) /\ (again => f = 3 /\ s.ext)
     /\ begun' = Append(begun, [csid |-> c, len |-> len]) /\ chunksDown' = chunksDown \o units
     /\ sender' = [sender EXCEPT ![c] =
          [mlen |-> len, kind |-> what, remaining |-> len - k, buf |-> <<Piece(Len(begun'))>>, ext |-> ext]]
     /\ sendSize' = Announces(sender'[c])
     /\ chunksSent' = chunksSent + Len(units)

ServerSends ==
  /\ chunksSent - ackSeen < Window /\ Len(chunksDown) < MaxWire
  /\ \E c \in CSIDs, again \in BOOLEAN :
       /\ \/ ServerContinues(c, again)
          \/ \E f \in 0..3, l \in Lengths, k \in Sizes \cup {0}, e \in BOOLEAN : ServerBegins(c, f, l, k, e, again)
       /\ repeated' = (repeated \/ again)
  /\ UNCHANGED <<chunksUp, ackSeen, peer, peerSize, received, programVars, garbled, peerGarbled>>

\* The server reads what the program wrote.
ServerReads ==
  /\ chunksUp # <<>> /\ ~peerGarbled
  /\ IF Head(chunksUp).t # "header"
     THEN peerGarbled' = TRUE /\ UNCHANGED <<chunksUp, peer, peerSize, received, ackSeen>>
     ELSE LET r == Chunk(chunksUp, peer, peerSize, TRUE)
              s == r.state
          IN /\ r.whole /\ peerGarbled' = ~r.sound
             /\ chunksUp' = SubSeq(chunksUp, r.used + 1, Len(chunksUp))
             /\ peer' = [peer EXCEPT ![Head(chunksUp).csid] = s]
             /\ IF s.remaining # 0 THEN UNCHANGED <<peerSize, received, ackSeen>>
                ELSE IF s.kind = AckKind
                THEN ackSeen' = s.buf[1].msg /\ UNCHANGED <<peerSize, received>>
                ELSE /\ received' = Append(received, Assembled(s))
                     /\ peerSize' = IF s.kind = 0 THEN peerSize ELSE s.kind
                     /\ ackSeen' = ackSeen
  /\ UNCHANGED <<chunksDown, sender, sendSize, chunksSent, begun, repeated, programVars, garbled>>

ChunksNext == ReadMessage \/ WriteTag \/ ServerSends \/ ServerReads

\* Both sides read what has come; nobody need write.
ChunksSpec == ChunksInit /\ [][ChunksNext]_chunksVars
ChunksFairSpec == ChunksSpec /\ WF_chunksVars(ReadMessage) /\ WF_chunksVars(ServerReads)

---------------------------------------------------------------------------
(* Properties *)

\* Type invariant.
ChunksTypeOK ==
  /\ \A w \in {chunksDown, chunksUp} : \A i \in DOMAIN w : w[i].t \in {"header", "ext", "piece"}
  /\ \A s \in Range(sender) \cup Range(csidState) \cup Range(peer) :
       s.remaining \in 0..s.mlen
  /\ {sendSize, inChunk} \subseteq Sizes \cup {1} /\ peerSize \in {1, OutChunk}
  /\ chunksSent \in Nat /\ bytesIn \in 0..chunksSent /\ bytesInAcked \in 0..bytesIn /\ ackSeen \in 0..bytesInAcked
  /\ Len(begun) <= MaxMsgs /\ Len(written) <= MaxOwn
  /\ {repeated, garbled, peerGarbled} \subseteq BOOLEAN

\* Nobody ever takes a piece of payload for a header or the other way round, in
\* whatever order chunk streams, short headers, extended timestamps and new chunk
\* sizes come (conn.go: readMessage, sendMessage).
InStep == ~garbled /\ ~peerGarbled

\* Every message that is put together is one the server sent, whole, and on one
\* chunk stream they come in the order they were sent, none left out (conn.go:
\* readMessage).
Intact ==
  \A i \in DOMAIN delivered : \E m \in DOMAIN begun :
    /\ delivered[i] = [msgs |-> {m}, len |-> begun[m].len]
    /\ \A k \in 1..(m - 1) : begun[k].csid = begun[m].csid =>
         \E j \in 1..(i - 1) : delivered[j].msgs = {k}

\* What the program writes arrives whole and in order, between the acknowledgements
\* the reader writes on the same connection (conn.go: sendMessage).
OutIntact ==
  ~peerGarbled /\ \A i \in DOMAIN received : received[i] = [msgs |-> {i}, len |-> written[i]]

\* Messages arrive whole and in order, and the reader in step: of what the program writes
\* always, of what the server sends until it says an extended timestamp again.
WholeAndInOrder == OutIntact /\ (repeated \/ (~garbled /\ Intact))

\* A server that waits for an acknowledgement gets it (conn.go: maybeSendAck; the
\* comment at ackWindow).
NeverHeldUp == chunksSent - ackSeen >= Window ~> chunksSent - ackSeen < Window
=============================================================================
