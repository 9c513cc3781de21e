---------------------------- MODULE Connections ----------------------------
(***************************************************************************)
(* The game's sockets (socket/index.js): how many there may be, how one    *)
(* becomes a session - a client's own stream or a browser's, inside        *)
(* WebSocket frames (websocket.js) -, the queue in which its packets are   *)
(* handled one at a time, what stops reading it, and the ways it ends.     *)
(*                                                                         *)
(* A packet is a number and what it is; a frame of a browser carries one.  *)
(***************************************************************************)
EXTENDS Integers, FiniteSets, Sequences, SequencesExt

CONSTANTS Sockets,
          Talkers,                       \* sockets whose client says more than its first bytes
          Homes,                         \* addresses of clients
          Proxy,                         \* the address of a trusted proxy
          MaxSockets, MaxPerAddress,     \* maxSocketConnections, maxSocketConnectionsPerIp
          ResumeAt, MaxQueued,           \* RESUME_QUEUE_AT, MAX_QUEUED_PACKETS
          HighWater, MaxOut,             \* of a stream, and maxOutboundBufferBytes, in frames
          MaxPackets, MaxSends           \* bounds: of each client, one of them neither a login nor work; to each client

ASSUME ConnectionsAssumption ==
  /\ Talkers \subseteq Sockets /\ Proxy \notin Homes
  /\ {MaxSockets, MaxPerAddress, ResumeAt, MaxQueued, HighWater, MaxOut, MaxPackets, MaxSends} \subseteq Nat
  /\ ResumeAt < MaxQueued /\ HighWater <= MaxOut

VARIABLES activeSocketCount, activeSocketsByAddress, socket

connVars == <<activeSocketCount, activeSocketsByAddress, socket>>

Nothing == [n |-> 0, kind |-> "none"]
NewSocket == [
  stage |-> "none",       \* sniffing, upgrading, session, refused (an upgrade that was not one), gone
  destroyed |-> FALSE,    \* and the close event still to come
  browser |-> FALSE, peer |-> "none", counted |-> {},
  authenticated |-> FALSE, closed |-> FALSE, timers |-> {},
  sent |-> 0, odd |-> FALSE, wire |-> <<>>, decoder |-> <<>>, queue |-> <<>>, handling |-> Nothing,
  reasons |-> {},         \* pausedForQueue, pausedForWrite, pausedForWorker
  paused |-> FALSE,       \* the stream itself
  externallyPaused |-> FALSE, controlBackpressured |-> FALSE, closing |-> FALSE,
  out |-> 0, needsDrain |-> FALSE, ended |-> FALSE, soon |-> FALSE, sends |-> 0]

ConnInit ==
  /\ activeSocketCount = 0 /\ activeSocketsByAddress = [a \in Homes \cup {Proxy} |-> 0]
  /\ socket = [s \in Sockets |-> NewSocket]

Set(s, k) == socket' = [socket EXCEPT ![s] = k]
Uncounted == UNCHANGED <<activeSocketCount, activeSocketsByAddress>>

-----------------------------------------------------------------------------
(* Ways to end.                                                            *)

\* socket.destroy: nothing is read or written any more, and what is still being handled finds it closed
Destroyed(k) == [NewSocket EXCEPT !.stage = k.stage, !.destroyed = TRUE, !.browser = k.browser, !.counted = k.counted,
                                  !.authenticated = k.authenticated, !.closed = k.closed]
\* Something that is written: it says whether there is room for more
Wrote(k) == [k EXCEPT !.out = @ + 1, !.needsDrain = @ \/ k.out + 1 >= HighWater]
\* sendClose
SaysClose(k) == IF k.closing \/ k.destroyed THEN k ELSE [Wrote(k) EXCEPT !.closing = TRUE]
\* WebSocketStream.fail, end
Fails(k) == [SaysClose(k) EXCEPT !.ended = TRUE, !.soon = TRUE]
Ended(k) == IF k.browser THEN [SaysClose(k) EXCEPT !.ended = TRUE] ELSE [k EXCEPT !.ended = TRUE]
\* closeSession
CloseSession(k, flush) ==
  IF k.closed THEN k
  ELSE LET c == [k EXCEPT !.closed = TRUE, !.timers = @ \ {"login"}, !.queue = <<>>]
       IN IF ~flush THEN Destroyed(c)
          ELSE [Ended(c) EXCEPT !.timers = IF c.destroyed THEN @ ELSE @ \cup {"force"}]

-----------------------------------------------------------------------------
(* What is read.                                                           *)

\* socket.pause, and the first thing WebSocketStream.pause and resume do
Stopped(k) == [k EXCEPT !.paused = TRUE, !.externallyPaused = k.browser]
\* The session's data handler; drain takes the first packet there is, unless one is being handled
TakesNext(k) ==
  IF k.handling # Nothing \/ k.closed \/ k.queue = <<>> THEN k
  ELSE [k EXCEPT !.handling = Head(k.queue), !.queue = Tail(k.queue)]
\* drainFrames: what comes before a length that none can have
Malformed(packets) == {i \in 1..Len(packets) : packets[i].kind = "malformed"}
Framed(packets) == IF Malformed(packets) = {} THEN packets ELSE SubSeq(packets, 1, Min(Malformed(packets)) - 1)
OnData(k, packets) ==
  LET q == [k EXCEPT !.queue = @ \o Framed(packets)]
      slowed == IF Len(q.queue) > ResumeAt THEN Stopped([q EXCEPT !.reasons = @ \cup {"queue"}]) ELSE q
  IN IF Len(q.queue) > MaxQueued THEN CloseSession(q, FALSE)
     ELSE IF Malformed(packets) # {} THEN CloseSession(TakesNext(slowed), FALSE)
     ELSE TakesNext(slowed)
\* drainFrames of a browser's stream: frame by frame, for as long as nothing stops it
OneFrame(k) ==
  LET p == Head(k.decoder)
      k1 == [k EXCEPT !.decoder = Tail(@)]
  IN CASE p.kind = "ping" -> LET w == Wrote(k1)
                             IN IF k1.out + 1 >= HighWater THEN [w EXCEPT !.controlBackpressured = TRUE, !.paused = TRUE] ELSE w
       [] p.kind = "close" -> Ended(k1)
       [] p.kind = "badFrame" -> Fails(k1)
       [] OTHER -> OnData(k1, <<p>>)
DrainFrames(k) ==
  LET drained[i \in 0..Len(k.decoder)] ==
        IF i = 0 THEN k
        ELSE LET b == drained[i - 1] IN
             IF b.controlBackpressured \/ b.externallyPaused \/ b.closing \/ b.destroyed THEN b ELSE OneFrame(b)
  IN drained[Len(k.decoder)]
\* WebSocketStream.resume: what was decoded is handed on first
Resumed(k) ==
  IF ~k.browser THEN [k EXCEPT !.paused = FALSE]
  ELSE LET r == [k EXCEPT !.externallyPaused = FALSE]
           d == DrainFrames(r)
       IN IF k.controlBackpressured THEN r
          ELSE IF d.controlBackpressured \/ d.closing \/ d.destroyed THEN d ELSE [d EXCEPT !.paused = FALSE]
\* updateReadFlow
UpdateReadFlow(k) == IF k.reasons # {} THEN Stopped(k) ELSE Resumed(k)

\* Bytes arrive, in a chunk of whatever length
Receives(s, n) ==
  LET k == socket[s]
      chunk == SubSeq(k.wire, 1, n)
      read == [k EXCEPT !.wire = SubSeq(@, n + 1, Len(@))]
  IN /\ k.stage = "session" /\ ~k.destroyed /\ ~k.paused /\ n \in 1..Len(k.wire)
     /\ Set(s, CASE ~k.browser -> OnData(read, chunk)
                 [] k.browser /\ k.closing -> read
                 [] OTHER -> DrainFrames([read EXCEPT !.decoder = @ \o chunk]))
     /\ Uncounted

-----------------------------------------------------------------------------
(* What is handled and written.                                            *)

\* handlePacket, as it ends
Handled(k) ==
  CASE k.handling.kind = "login" ->
         IF k.authenticated THEN CloseSession(k, TRUE)
         ELSE [k EXCEPT !.authenticated = TRUE, !.timers = (@ \ {"login"}) \cup {"idle"}]
    [] k.handling.kind = "logout" -> CloseSession(k, TRUE)
    [] k.handling.kind = "truncated" -> CloseSession(k, FALSE)
    [] OTHER -> k
\* Mutant of Eased: it resumes whatever else stops it
ResumesAnyway(k) == IF Len(k.queue) <= ResumeAt THEN Resumed([k EXCEPT !.reasons = @ \ {"queue"}]) ELSE k
Eased(k) == IF Len(k.queue) <= ResumeAt THEN UpdateReadFlow([k EXCEPT !.reasons = @ \ {"queue"}]) ELSE k
\* drain: the next one, once reading has been let go on
PacketEnds(s) ==
  LET k == socket[s]
      h == Handled(k)
  IN /\ k.stage = "session" /\ k.handling # Nothing
     /\ Set(s, IF k.closed \/ h.closed THEN [h EXCEPT !.handling = Nothing]
               ELSE TakesNext([Eased(h) EXCEPT !.handling = Nothing]))
     /\ Uncounted
\* send, by the handler of a packet or by the world
Sends(s) ==
  LET k == socket[s]
      w == Wrote([k EXCEPT !.sends = @ + 1])
  IN /\ k.stage = "session" /\ ~k.closed /\ ~k.destroyed /\ k.sends < MaxSends /\ s \in Talkers
     /\ Set(s, IF k.out + 1 > MaxOut THEN CloseSession(k, FALSE)
               ELSE IF k.closing THEN UpdateReadFlow([k EXCEPT !.reasons = @ \cup {"write"}, !.sends = @ + 1])
               ELSE IF k.out + 1 >= HighWater THEN UpdateReadFlow([w EXCEPT !.reasons = @ \cup {"write"}]) ELSE w)
     /\ Uncounted
\* pauseForWorker
PausesForWorker(s, paused) ==
  LET k == socket[s] IN
  /\ k.stage = "session" /\ s \in Talkers /\ ~k.closed /\ ~k.destroyed /\ k.authenticated
  /\ ("worker" \in k.reasons) # paused /\ (paused => k.sends < MaxSends)
  /\ Set(s, UpdateReadFlow([k EXCEPT !.reasons = IF paused THEN @ \cup {"worker"} ELSE @ \ {"worker"},
                                     !.sends = IF paused THEN @ + 1 ELSE @]))
  /\ Uncounted
\* The drain event: the session's handler, then the browser stream's own
Drained(k) ==
  LET l == IF k.closed THEN k ELSE UpdateReadFlow([k EXCEPT !.reasons = @ \ {"write"}])
      d == DrainFrames([l EXCEPT !.controlBackpressured = FALSE])
  IN IF ~l.controlBackpressured \/ l.closing THEN l
     ELSE IF l.externallyPaused THEN [l EXCEPT !.controlBackpressured = FALSE]
     ELSE IF d.controlBackpressured \/ d.externallyPaused \/ d.destroyed THEN d ELSE [d EXCEPT !.paused = FALSE]
Empties(s) ==
  LET k == socket[s]
      f == [k EXCEPT !.out = 0, !.needsDrain = FALSE]
  IN /\ k.out > 0 /\ ~k.destroyed
     /\ Set(s, IF k.soon THEN Destroyed(f) ELSE IF k.needsDrain THEN Drained(f) ELSE f)
     /\ Uncounted

-----------------------------------------------------------------------------
(* How it begins.                                                          *)

\* refuseSocket, admitAddress, admitSocket: through a proxy, the address is not known yet
Connects(s, peer) ==
  /\ socket[s].stage = "none"
  /\ \/ /\ activeSocketCount >= MaxSockets \/ (peer # Proxy /\ activeSocketsByAddress[peer] >= MaxPerAddress)
        /\ Set(s, [NewSocket EXCEPT !.stage = "gone"]) /\ Uncounted
     \/ /\ activeSocketCount < MaxSockets /\ activeSocketCount' = activeSocketCount + 1
        /\ IF peer = Proxy THEN UNCHANGED activeSocketsByAddress
           ELSE activeSocketsByAddress[peer] < MaxPerAddress /\ activeSocketsByAddress' = [activeSocketsByAddress EXCEPT ![peer] = @ + 1]
        /\ Set(s, [NewSocket EXCEPT !.stage = "sniffing", !.peer = peer, !.counted = {peer} \ {Proxy}, !.timers = {"sniff"}])
\* onConnection, of who comes from `address`: behind a proxy that is asked now
Becomes(s, k, address) ==
  LET opened == [k EXCEPT !.stage = "session", !.timers = (@ \ {"sniff"}) \cup {"login"}]
  IN \/ k.peer # Proxy /\ Set(s, opened) /\ Uncounted
     \/ /\ k.peer = Proxy /\ activeSocketsByAddress[address] >= MaxPerAddress
        /\ Set(s, Destroyed([k EXCEPT !.timers = @ \ {"sniff"}])) /\ Uncounted
     \/ /\ k.peer = Proxy /\ activeSocketsByAddress[address] < MaxPerAddress
        /\ activeSocketsByAddress' = [activeSocketsByAddress EXCEPT ![address] = @ + 1]
        /\ Set(s, [opened EXCEPT !.counted = {address}]) /\ UNCHANGED activeSocketCount
Open(s) == ~socket[s].destroyed /\ ~socket[s].ended
\* acceptGameSocket: the first bytes say which it is
SpeaksAtOnce(s) ==
  /\ socket[s].stage = "sniffing" /\ Open(s)
  /\ Becomes(s, socket[s], socket[s].peer)
AsksToUpgrade(s) ==
  /\ socket[s].stage = "sniffing" /\ Open(s)
  /\ Set(s, [socket[s] EXCEPT !.stage = "upgrading", !.browser = TRUE]) /\ Uncounted
\* upgrade: for whom the proxy forwards it, which may be nobody it names
Upgrades(s, address) ==
  /\ socket[s].stage = "upgrading" /\ Open(s)
  /\ Becomes(s, Wrote(socket[s]), IF socket[s].peer = Proxy THEN address ELSE socket[s].peer)
UpgradeRefused(s) ==
  /\ socket[s].stage = "upgrading" /\ Open(s)
  /\ \/ Set(s, [Wrote(socket[s]) EXCEPT !.stage = "refused", !.ended = TRUE])  \* 400
     \/ Set(s, Destroyed(socket[s]))                                           \* MAX_HANDSHAKE_BYTES
  /\ Uncounted

KindsFor(k) == {"login", "work", "logout", "truncated"} \cup (IF k.browser THEN {"ping", "close", "badFrame"} ELSE {"malformed"})
ClientSends(s, kind) ==
  LET k == socket[s] IN
  /\ s \in Talkers /\ k.stage = "session" /\ ~k.destroyed /\ ~k.closed /\ ~k.closing /\ k.sent < MaxPackets /\ kind \in KindsFor(k)
  /\ kind \notin {"login", "work"} => ~k.odd
  /\ Set(s, [k EXCEPT !.sent = @ + 1, !.odd = @ \/ kind \notin {"login", "work"}, !.wire = Append(@, [n |-> k.sent + 1, kind |-> kind])])
  /\ Uncounted

-----------------------------------------------------------------------------
(* How it is over.                                                         *)

\* The close event, of what was destroyed here, ended by both, or dropped by the client
OnClose(s) ==
  LET k == socket[s] IN
  /\ k.stage \notin {"none", "gone"}
  /\ activeSocketCount' = activeSocketCount - 1
  /\ activeSocketsByAddress' = [a \in DOMAIN activeSocketsByAddress |-> activeSocketsByAddress[a] - Cardinality(k.counted \cap {a})]
  /\ Set(s, [NewSocket EXCEPT !.stage = "gone"])
CloseComes(s) == socket[s].destroyed /\ OnClose(s)
ClientGoes(s) == ~socket[s].destroyed /\ OnClose(s)
\* The deadlines: for the first bytes, for a login, for a client that is slow to go, and of one that is silent
SniffFires(s) == "sniff" \in socket[s].timers /\ ~socket[s].destroyed /\ Set(s, Destroyed(socket[s])) /\ Uncounted
LoginFires(s) ==
  /\ "login" \in socket[s].timers /\ ~socket[s].destroyed
  /\ Set(s, CloseSession([socket[s] EXCEPT !.timers = @ \ {"login"}], FALSE)) /\ Uncounted
ForceFires(s) ==
  /\ "force" \in socket[s].timers /\ ~socket[s].destroyed
  /\ Set(s, Destroyed([socket[s] EXCEPT !.timers = @ \ {"force"}])) /\ Uncounted
IdleFires(s) ==
  /\ "idle" \in socket[s].timers /\ ~socket[s].destroyed /\ ~socket[s].closed
  /\ Set(s, CloseSession(socket[s], FALSE)) /\ Uncounted

ConnNext ==
  \/ \E s \in Sockets, a \in Homes \cup {Proxy} : Connects(s, a)
  \/ \E s \in Sockets : \/ SpeaksAtOnce(s) \/ AsksToUpgrade(s) \/ UpgradeRefused(s)
                        \/ \E a \in Homes \cup {Proxy} : Upgrades(s, a)
  \/ \E s \in Sockets, kind \in KindsFor([browser |-> TRUE]) \cup KindsFor([browser |-> FALSE]) : ClientSends(s, kind)
  \/ \E s \in Sockets : (\E n \in 1..MaxPackets : Receives(s, n)) \/ PacketEnds(s) \/ Sends(s) \/ Empties(s)
  \/ \E s \in Sockets, paused \in BOOLEAN : PausesForWorker(s, paused)
  \/ \E s \in Sockets : CloseComes(s) \/ ClientGoes(s) \/ SniffFires(s) \/ LoginFires(s) \/ ForceFires(s) \/ IdleFires(s)
\* Timers fire, and what was destroyed is closed
ConnFairness ==
  \A s \in Sockets : WF_connVars(SniffFires(s)) /\ WF_connVars(LoginFires(s)) /\ WF_connVars(ForceFires(s)) /\ WF_connVars(CloseComes(s))
ConnSpec == ConnInit /\ [][ConnNext]_connVars /\ ConnFairness

-----------------------------------------------------------------------------

Alive(k) == k.stage \notin {"none", "gone"}

ConnTypeOK ==
  /\ activeSocketCount \in 0..MaxSockets /\ activeSocketsByAddress \in [Homes \cup {Proxy} -> 0..MaxPerAddress]
  /\ \A s \in Sockets : /\ socket[s].stage \in {"none", "sniffing", "upgrading", "session", "refused", "gone"}
                        /\ socket[s].reasons \subseteq {"queue", "write", "worker"}
                        /\ socket[s].timers \subseteq {"sniff", "login", "force", "idle"}
                        /\ socket[s].out \in 0..(MaxOut + MaxPackets + 2) /\ Len(socket[s].decoder) <= MaxPackets

\* The limits count what is there: every socket once, and once under the address of its client as soon as
\* that is known, however it was refused or ended (index.js admitSocket, admitAddress).
CountsAreSockets ==
  /\ activeSocketCount = Cardinality({s \in Sockets : Alive(socket[s])})
  /\ \A a \in DOMAIN activeSocketsByAddress :
       activeSocketsByAddress[a] = Cardinality({s \in Sockets : Alive(socket[s]) /\ a \in socket[s].counted})

\* Whatever stops the reading of a session will let it go on: a reason that has come to stay, or frames
\* that nobody will hand on, and the client is not heard again (index.js updateReadFlow, websocket.js).
SomethingResumes ==
  \A s \in Sockets : LET k == socket[s] IN
    k.stage = "session" /\ ~k.closed /\ ~k.destroyed /\ ~k.closing =>
      /\ k.paused => k.reasons # {} \/ k.controlBackpressured
      /\ "queue" \in k.reasons => k.handling # Nothing
      /\ "write" \in k.reasons \/ k.controlBackpressured => k.needsDrain
      /\ k.browser /\ ~k.externallyPaused /\ ~k.controlBackpressured => k.decoder = <<>>
      /\ k.browser => (k.externallyPaused <=> k.reasons # {})
      /\ k.queue # <<>> => k.handling # Nothing

\* "One packet at a time, in the order it arrived": what is handled, queued, decoded and on its way are
\* the packets of the client in their order, none twice and none passed over but what the stream itself
\* answers (index.js drain).
OneAtATimeInOrder ==
  \A s \in Sockets : LET k == socket[s]
                        line == (IF k.handling = Nothing THEN <<>> ELSE <<k.handling>>) \o k.queue \o k.decoder \o k.wire
                        own == {"ping", "close", "badFrame", "malformed"} IN
    k.stage = "session" /\ ~k.closed /\ ~k.destroyed /\ ~k.closing =>
      \A i \in 1..(Len(line) - 1) :
        line[i].n < line[i + 1].n /\ (line[i + 1].n = line[i].n + 1 \/ k.browser)

\* Whoever does not log in, or was closed and does not go, is gone in the end: every way in is under a
\* deadline until the login, and every way out is (websocket.js acceptGameSocket, index.js closeSession).
NobodyLingers ==
  \A s \in Sockets :
    (Alive(socket[s]) /\ (~socket[s].authenticated \/ socket[s].closed)) ~> ~Alive(socket[s]) \/ (socket[s].authenticated /\ ~socket[s].closed)

\* Does not hold: resume reads on although what it has just handed on has stopped it ("Reading runs only
\* when neither reason to stop is active").
StoppedIsStopped ==
  \A s \in Sockets : LET k == socket[s] IN
    k.stage = "session" /\ ~k.closed /\ ~k.destroyed /\ k.reasons # {} => k.paused
=============================================================================
