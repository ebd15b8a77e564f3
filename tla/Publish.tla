------------------------------- MODULE Publish -------------------------------
(***************************************************************************)
(* One RTMP publication (wire/rtmp/conn.go): the dialogue that sets it up, *)
(* the goroutine that then listens to the server, the sink that writes     *)
(* tags, and its end.                                                      *)
(*                                                                         *)
(* ConnectAndPublish sends a command, reads what the server says until the *)
(* answer it waits for, and goes on; every read and every write may take   *)
(* too long. The server is external: it answers the commands in the order  *)
(* they come, may ping, may stop in the middle of a message, refuse, fall  *)
(* silent, stop reading or go away. Below messages are whole; module       *)
(* Chunks takes them apart.                                                *)
(***************************************************************************)
EXTENDS Naturals, Sequences, SequencesExt

CONSTANTS
  Servers,     \* the kinds of server: whether their replies carry the
               \* transaction, whether they answer releaseStream
  Refusals,    \* the codes a server refuses a publication with
  MaxPings,    \* bound: pings of the server
  MaxTags      \* bound: tags the sink writes

\* What the constants are assumed to be.
Assumptions ==
  /\ Servers \subseteq [ids : BOOLEAN, answers : BOOLEAN]
  /\ Refusals \subseteq {"error", "Failed", "BadName"}
  /\ MaxPings \in Nat /\ MaxTags \in Nat

Streams == {1, 2}            \* message stream ids a server hands out

VARIABLES
  stage,     \* where ConnectAndPublish is: what it waits for
  streamID,  \* c.streamID
  dead,      \* c.deadCh is closed
  closed,    \* the socket is closed on this side
  reader,    \* the reader: "none", "tick", "message", "ended"
  writer,    \* the sink: "idle", or "alive" between IsAlive and the write
  tearing,   \* Teardown has said goodbye and not yet closed
  up,        \* commands under way to the server
  down,      \* messages under way to the client
  half,      \* the server has begun a message after those of down
  lost,      \* the connection is gone
  stuck,     \* the server does not read and the buffers are full
  kind,      \* what the server is like
  server,    \* how far the server has let the client
  created,   \* the stream the server created, 0: none
  tags,      \* streams the server received tags on
  pings, pongs, sent

client == <<stage, streamID, dead, closed, reader, writer, tearing>>
wire == <<up, down, half, lost, stuck>>
remote == <<kind, server, created, tags>>
counts == <<pings, pongs, sent>>
vars == <<client, wire, remote, counts>>

Setup == {"dial", "handshake", "connect", "create", "publish"}
Say(name, txn, sid, code) == [name |-> name, txn |-> txn, sid |-> sid, code |-> code]
Ping == Say("ping", 0, 0, "none")
Other == Say("other", 0, 0, "none")

Init ==
  /\ stage = "dial" /\ streamID = 1 /\ dead = FALSE /\ closed = FALSE
  /\ reader = "none" /\ writer = "idle" /\ tearing = FALSE
  /\ up = <<>> /\ down = <<>> /\ half = FALSE /\ lost = FALSE /\ stuck = FALSE
  /\ kind \in Servers /\ server = "none" /\ created = 0 /\ tags = {}
  /\ pings = 0 /\ pongs = 0 /\ sent = 0

\* A write that returns in time. On a connection that is gone it may still do, and
\* what is written arrives nowhere.
Send(commands) == ~closed /\ ~stuck /\ up' = IF lost THEN up ELSE up \o commands

\* A write that meets the end of the connection, or takes longer than rwTimeout.
SendFails == (lost \/ closed \/ stuck) /\ up' = up

Broken == lost \/ closed

---------------------------------------------------------------------------
(* ConnectAndPublish *)

Fail ==
  /\ stage' = "failed"
  /\ UNCHANGED <<streamID, dead, closed, reader, writer, tearing>>
  /\ UNCHANGED wire /\ UNCHANGED remote /\ UNCHANGED counts

\* The TCP connection, TLS with it.
Dial ==
  /\ stage = "dial" /\ stage' = "handshake"
  /\ UNCHANGED <<streamID, dead, closed, reader, writer, tearing>>
  /\ UNCHANGED wire /\ UNCHANGED remote /\ UNCHANGED counts

\* The exchange of S0, S1 and S2 is one message, its answer C2 and the chunk
\* size are part of what follows.
Shake ==
  /\ stage = "handshake" /\ down # <<>> /\ Head(down).name = "shake"
  /\ stage' = "connect" /\ down' = Tail(down)
  /\ Send(<<[name |-> "connect", sid |-> 0]>>)
  /\ UNCHANGED <<streamID, dead, closed, reader, writer, tearing, half, lost, stuck>>
  /\ UNCHANGED remote /\ UNCHANGED counts

\* Plausible defect: any _result will do.
MatchesAny(m, txn) == TRUE

\* A reply to another command is not the one; one that does not say to which
\* command it is a reply passes.
ReplyTxnMatches(m, txn) == txn = 0 \/ m.txn = 0 \/ m.txn = txn

\* Plausible defect: only _error is a refusal.
RefusedByError(m) == m.name = "_error"

\* A refusal counts whatever is waited for.
Rejected(m) == m.name = "_error" \/ (m.name = "onStatus" /\ m.code = "Failed")

Awaited(m) ==
  \/ stage = "connect" /\ m.name = "_result" /\ ReplyTxnMatches(m, 1)
  \/ stage = "create"  /\ m.name = "_result" /\ ReplyTxnMatches(m, 4)
  \/ stage = "publish" /\ m.name = "onStatus" /\ ReplyTxnMatches(m, 0)

\* Plausible defect: a ping is dropped.
PingDropped == up' = up /\ pongs' = pongs

\* handleControl: the answer to a ping.
AnswerPing == Send(<<[name |-> "pong", sid |-> 0]>>) /\ pongs' = pongs + 1

\* Plausible defect: an answer to createStream without a number is stream 0.
NextCommandsNoDefault(m) ==
  CASE stage = "connect" -> /\ stage' = "create" /\ streamID' = streamID /\ reader' = reader
                            /\ Send(<<[name |-> "release", sid |-> 0], [name |-> "create", sid |-> 0]>>)
    [] stage = "create"  -> /\ stage' = "publish" /\ reader' = reader /\ streamID' = m.sid
                            /\ Send(<<[name |-> "publish", sid |-> streamID']>>)
    [] stage = "publish" -> /\ stage' = "live" /\ reader' = "tick"
                            /\ UNCHANGED <<streamID, up>>

\* The answer is there: on to the next command. The stream is the first number of
\* the answer to createStream, 1 when it has none.
NextCommands(m) ==
  CASE stage = "connect" -> /\ stage' = "create" /\ streamID' = streamID /\ reader' = reader
                            /\ Send(<<[name |-> "release", sid |-> 0], [name |-> "create", sid |-> 0]>>)
    [] stage = "create"  -> /\ stage' = "publish" /\ reader' = reader
                            /\ streamID' = IF m.sid = 0 THEN 1 ELSE m.sid
                            /\ Send(<<[name |-> "publish", sid |-> streamID']>>)
    [] stage = "publish" -> /\ stage' = "live" /\ reader' = "tick"
                            /\ UNCHANGED <<streamID, up>>

\* waitCommandTxn: one message.
WaitCommand ==
  /\ stage \in {"connect", "create", "publish"} /\ down # <<>>
  /\ LET m == Head(down) IN
       \/ m.name = "ping" /\ AnswerPing /\ UNCHANGED <<stage, streamID, reader>>
       \/ Rejected(m) /\ stage' = "failed" /\ UNCHANGED <<streamID, reader, up, pongs>>
       \/ ~Rejected(m) /\ Awaited(m) /\ NextCommands(m) /\ pongs' = pongs
       \/ /\ ~Rejected(m) /\ ~Awaited(m) /\ m.name # "ping"
          /\ UNCHANGED <<stage, streamID, reader, up, pongs>>
  /\ down' = Tail(down)
  /\ UNCHANGED <<dead, closed, writer, tearing, half, lost, stuck>>
  /\ UNCHANGED remote /\ UNCHANGED <<pings, sent>>

\* Plausible defect: the first answer is waited for without a deadline.
GiveUpAfterConnect == stage \in Setup \ {"connect"} /\ down = <<>> /\ Fail

\* recvExact: nothing came for rwTimeout, or the server closed the connection;
\* the same goes for a TCP connection that is not made in time.
GiveUp == stage \in Setup /\ down = <<>> /\ Fail

\* send: a write in the setup fails, be it a command, the answer to a ping or the
\* acknowledgement of a window.
WriteFails == stage \in Setup \ {"dial"} /\ SendFails /\ Fail

Connecting == Dial \/ Shake \/ WaitCommand \/ GiveUp \/ WriteFails

---------------------------------------------------------------------------
(* The reader *)

\* Plausible defect: the reader looks at the socket only.
LoopEndsClosed == closed

\* The loop ends with the connection.
LoopEnds == dead

ReaderOver ==
  /\ reader = "tick" /\ LoopEnds /\ reader' = "ended"
  /\ UNCHANGED <<stage, streamID, dead, closed, writer, tearing>>
  /\ UNCHANGED wire /\ UNCHANGED remote /\ UNCHANGED counts

\* The first byte of a message; without one the reader looks again.
Tick ==
  /\ reader = "tick" /\ ~LoopEnds /\ ~closed /\ (down # <<>> \/ half)
  /\ reader' = "message"
  /\ UNCHANGED <<stage, streamID, dead, closed, writer, tearing>>
  /\ UNCHANGED wire /\ UNCHANGED remote /\ UNCHANGED counts

\* markDead, then the goroutine returns.
ReaderDies ==
  /\ reader' = "ended" /\ dead' = TRUE
  /\ UNCHANGED <<stage, streamID, closed, writer, tearing>>
  /\ UNCHANGED wire /\ UNCHANGED remote /\ UNCHANGED counts

\* Plausible defect: a second without a word is taken for the end.
LostSilent == reader = "tick" /\ down = <<>>

\* Between messages only the end of the connection is one; in the middle of a
\* message so is silence.
Lost ==
  \/ reader = "tick" /\ down = <<>> /\ Broken /\ ~half
  \/ reader \in {"tick", "message"} /\ closed
  \/ reader = "message" /\ down = <<>>

ReaderLoses == Lost /\ (reader = "tick" => ~LoopEnds) /\ ReaderDies

\* readMessage acknowledges every half window of bytes, be the message whole or not,
\* and gives up with the connection when it cannot. How many bytes have come is left
\* open; an acknowledgement that is written changes nothing here.
AckFails == reader = "message" /\ ~closed /\ SendFails /\ ReaderDies

\* A refusal in a message of the reader: here the code of any command is looked at.
Refuses(m) == m.name = "_error" \/ m.code = "Failed"

ReaderHandles ==
  /\ reader = "message" /\ down # <<>> /\ ~closed
  /\ LET m == Head(down) IN
       \/ m.name = "ping" /\ AnswerPing /\ reader' = "tick" /\ dead' = dead
       \/ /\ m.name = "ping" /\ SendFails /\ pongs' = pongs
          /\ reader' = "ended" /\ dead' = TRUE
       \/ /\ m.name # "ping" /\ UNCHANGED <<up, pongs>>
          /\ IF Refuses(m) THEN reader' = "ended" /\ dead' = TRUE
                           ELSE reader' = "tick" /\ dead' = dead
  /\ down' = Tail(down)
  /\ UNCHANGED <<stage, streamID, closed, writer, tearing, half, lost, stuck>>
  /\ UNCHANGED remote /\ UNCHANGED <<pings, sent>>

Reader == ReaderOver \/ Tick \/ ReaderLoses \/ AckFails \/ ReaderHandles

---------------------------------------------------------------------------
(* The sink and the end *)

\* WriteTag looks whether the connection is alive ...
WriteBegins ==
  /\ stage = "live" /\ writer = "idle" /\ ~dead /\ sent < MaxTags
  /\ writer' = "alive" /\ sent' = sent + 1
  /\ UNCHANGED <<stage, streamID, dead, closed, reader, tearing>>
  /\ UNCHANGED wire /\ UNCHANGED remote /\ UNCHANGED <<pings, pongs>>

\* ... and writes; a write that fails is the end of the connection.
WriteTag ==
  /\ writer = "alive" /\ writer' = "idle"
  /\ \/ Send(<<[name |-> "tag", sid |-> streamID]>>) /\ dead' = dead
     \/ SendFails /\ dead' = TRUE
  /\ UNCHANGED <<stage, streamID, closed, reader, tearing, down, half, lost, stuck>>
  /\ UNCHANGED remote /\ UNCHANGED counts

\* Teardown says goodbye when there is somebody to say it to ...
Teardown ==
  /\ stage = "live" /\ ~dead /\ ~tearing /\ tearing' = TRUE
  /\ Send(<<[name |-> "delete", sid |-> streamID]>>) \/ SendFails
  /\ UNCHANGED <<stage, streamID, dead, closed, reader, writer, down, half, lost, stuck>>
  /\ UNCHANGED remote /\ UNCHANGED counts

\* ... and closes, as the supervisor does with one that failed or died.
Close ==
  /\ ~closed /\ (stage = "failed" \/ tearing \/ dead)
  /\ closed' = TRUE /\ dead' = TRUE
  /\ UNCHANGED <<stage, streamID, reader, writer, tearing>>
  /\ UNCHANGED wire /\ UNCHANGED remote /\ UNCHANGED counts

---------------------------------------------------------------------------
(* The server *)

Reply(m) == down' = down \o m /\ half' = FALSE

ServerShakes ==
  /\ ~lost /\ stage = "handshake" /\ server = "none"
  /\ server' = "shaken" /\ Reply(<<Say("shake", 0, 0, "none")>>)
  /\ UNCHANGED client /\ UNCHANGED <<up, lost, stuck, kind, created, tags>> /\ UNCHANGED counts

Refusal(txn) ==
  {Say("_error", txn, 0, "none") : r \in Refusals \cap {"error"}}
    \cup {Say("onStatus", 0, 0, r) : r \in Refusals \ {"error"}}

Txn(n) == IF kind.ids THEN n ELSE 0

\* The server takes one command and answers it, or refuses it. One that names no
\* stream means the first.
ServerAnswers ==
  /\ ~lost /\ ~stuck /\ up # <<>> /\ server # "refused" /\ up' = Tail(up)
  /\ LET c == Head(up) IN
       \/ /\ c.name = "connect" /\ server' = "connected"
          /\ Reply(<<Say("_result", Txn(1), 0, "none"), Other>>)
          /\ UNCHANGED <<created, tags>>
       \/ /\ c.name = "release" /\ server' = server
          /\ IF kind.answers
             THEN \E m \in {"_result", "onFCPublish"} :
                    Reply(<<Say(m, IF m = "_result" THEN Txn(2) ELSE 0, 0, "none")>>)
             ELSE UNCHANGED <<down, half>>
          /\ UNCHANGED <<created, tags>>
       \/ /\ c.name = "create" /\ server' = "created"
          /\ created' \in Streams
          /\ \E n \in {0, created'} :
               (n = 0 => created' = 1) /\ Reply(<<Say("_result", Txn(4), n, "none")>>)
          /\ UNCHANGED tags
       \/ /\ c.name = "publish" /\ server' = "publishing"
          /\ Reply(<<Say("onStatus", 0, 0, "Start")>>)
          /\ UNCHANGED <<created, tags>>
       \/ /\ c.name \in {"connect", "create", "publish"} /\ server' = "refused"
          /\ \E m \in Refusal(Txn(1)) : Reply(<<m>>)
          /\ UNCHANGED <<created, tags>>
       \/ /\ c.name \in {"pong", "delete"} /\ UNCHANGED <<down, half, created, tags, server>>
       \/ /\ c.name = "tag" /\ tags' = tags \cup {c.sid}
          /\ UNCHANGED <<down, half, created, server>>
  /\ UNCHANGED client /\ UNCHANGED <<lost, stuck, kind>> /\ UNCHANGED counts

ServerPings ==
  /\ ~lost /\ server \notin {"none", "shaken"} /\ pings < MaxPings
  /\ pings' = pings + 1 /\ Reply(<<Ping>>)
  /\ UNCHANGED client /\ UNCHANGED <<up, lost, stuck>> /\ UNCHANGED remote /\ UNCHANGED <<pongs, sent>>

\* A message whose rest is under way, or never comes.
ServerBegins ==
  /\ ~lost /\ ~half /\ stage = "live" /\ pings < MaxPings /\ half' = TRUE
  /\ UNCHANGED client /\ UNCHANGED <<up, down, lost, stuck>> /\ UNCHANGED remote /\ UNCHANGED counts

\* What a server that publishes says unasked, once: anything, or that this was it.
ServerSays ==
  /\ ~lost /\ server = "publishing" /\ server' = "spoken"
  /\ \E m \in {Other} \cup Refusal(0) : Reply(<<m>>)
  /\ UNCHANGED client /\ UNCHANGED <<up, lost, stuck, kind, created, tags>> /\ UNCHANGED counts

ConnectionLost ==
  /\ ~lost /\ stage # "dial" /\ lost' = TRUE /\ up' = <<>>
  /\ down' \in {down, <<>>} /\ half' = half /\ stuck' = stuck
  /\ UNCHANGED client /\ UNCHANGED remote /\ UNCHANGED counts

\* The server stops reading for longer than the buffers last, or reads again. What
\* it says is another matter.
ServerStalls ==
  /\ ~lost /\ stage # "dial" /\ stuck' = ~stuck
  /\ UNCHANGED client /\ UNCHANGED <<up, down, half, lost>> /\ UNCHANGED remote /\ UNCHANGED counts

Server ==
  \/ ServerShakes \/ ServerAnswers \/ ServerPings \/ ServerSays \/ ServerBegins
  \/ ServerStalls \/ ConnectionLost

Next ==
  \/ Connecting \/ Reader \/ WriteBegins \/ WriteTag \/ Teardown \/ Close \/ Server

\* The goroutines run and their deadlines pass; the server owes nothing, and when
\* somebody closes is the supervisor's.
Spec == Init /\ [][Next]_vars
FairSpec == Spec /\ WF_vars(Connecting) /\ WF_vars(Reader)

---------------------------------------------------------------------------
(* Properties *)

Messages == [name : {"shake", "ping", "other", "_result", "_error", "onStatus", "onFCPublish"},
             txn : 0..4, sid : 0..2, code : {"none", "Start", "Failed", "BadName"}]
Commands == [name : {"connect", "release", "create", "publish", "tag", "pong", "delete"},
             sid : 0..2]

\* Type invariant.
TypeOK ==
  /\ stage \in Setup \cup {"live", "failed"} /\ streamID \in Streams
  /\ reader \in {"none", "tick", "message", "ended"} /\ writer \in {"idle", "alive"}
  /\ {dead, closed, tearing, half, lost, stuck} \subseteq BOOLEAN
  /\ up \in Seq(Commands) /\ down \in Seq(Messages) /\ kind \in Servers
  /\ server \in {"none", "shaken", "connected", "created", "publishing", "spoken", "refused"}
  /\ created \in 0..2 /\ tags \subseteq Streams
  /\ pings \in 0..MaxPings /\ pongs \in 0..pings /\ sent \in 0..MaxTags

\* What the sink writes arrives on the stream the server created for it: the reply
\* that named the stream was the one to createStream, whatever else the server
\* answered in the meantime (conn.go: waitCommandTxn, replyTxnMatches).
TagsOnStream == tags \subseteq {created}

\* A connection the program takes for a publication is one the server publishes
\* (conn.go: ConnectAndPublish, "publish accepted").
LiveIsPublished == stage = "live" => server \in {"publishing", "spoken"}

\* A connection ends for a reason: the server goes away, stops reading, stops in the
\* middle of a message or refuses, or the program closes it. That the server has
\* nothing to say is none, whichever of reader, sink and owner ends it (conn.go:
\* reader, WriteTag, Close).
EndsForAReason ==
  [][~dead /\ dead' =>
       \/ lost \/ stuck \/ half \/ closed'
       \/ down # <<>> /\ Refuses(Head(down))]_vars

\* The setup comes to an end, whatever the server does (conn.go: recvExact,
\* rwTimeout).
SetupEnds == stage \in Setup ~> stage \notin Setup

\* The goroutine of a connection that has ended ends as well, even if nobody closes
\* the socket (conn.go: reader).
ReaderEnds == dead ~> reader \in {"none", "ended"}

\* A ping that reached a connection is answered as long as it lives (conn.go:
\* handleControl, in the setup and in the reader).
PingsAnswered == pings > pongs ~> pongs = pings \/ dead \/ stage = "failed"
=============================================================================
