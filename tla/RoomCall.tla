------------------------------- MODULE RoomCall -------------------------------
(***************************************************************************)
(* Two browsers on a room page, frontend/src/hooks/useRoom.ts and          *)
(* useWebRTC.ts on RoomPage.tsx, at the two ends of one room server.       *)
(*                                                                         *)
(* A browser runs one callback at a time.  The functions of useWebRTC are  *)
(* async: between two awaits other callbacks run.  What is awaited are     *)
(* operations of one RTCPeerConnection, which does them one after the      *)
(* other, in the order in which they were asked for: "ops" is that chain.  *)
(* An operation that has not begun when the connection is closed never     *)
(* ends.  Connections are FIFO queues, lost when they go down.             *)
(*                                                                         *)
(* A handler of the server that nothing comes between is one step, and     *)
(* the end of a connection that is noticed before anything else happens is *)
(* one step with the loss.  The other behaviours, in which the hub goes    *)
(* its own way (the section on handlers that interleave), are in the model *)
(* where the budget says so; "astray" remembers that one began.            *)
(***************************************************************************)
EXTENDS Naturals, Sequences, FiniteSets

CONSTANTS
    Budgets,     \* bounds, one of which a behaviour keeps to: whether the page was
                 \* opened by a lobby call, how many reloads, losses of the
                 \* connection, leaves and ICE restarts there are, how many
                 \* descriptions a browser makes, and whether handlers of the
                 \* server interleave
    None

ASSUME RoomCallAssumption ==
    Budgets \subseteq [lobby : BOOLEAN, reload : Nat, drop : Nat, leave : Nat, restart : Nat,
                made : Nat, race : BOOLEAN]

\* Who made the room and who was invited, or who called and who was called.
Browsers == {"ann", "bob"}
Other(b) == CHOOSE c \in Browsers : c # b

VARIABLES
    \* The server
    slot,        \* Room.Participants: "out", "in", or "lost" (Disconnected)
    twin,        \* the same for a second participant with the ID of the browser
    listed,      \* Client.RoomID: the connection has joined
    clientRooms, \* Hub.clientRooms: the browsers whose ID has an entry
    forgotten,   \* browsers with a connection whose entry in Hub.clients is deleted
    conn,        \* which connection of the browser is the present one
    stale,       \* connections that ended and whose reader has not noticed
    tasks,       \* handlers under way, and what they have come to
    \* The wire
    link,        \* wsClient: "off" (not wanted), "down" or "up"
    toServer, toClient,
    \* The pages
    phase,       \* useRoom: phase; a page that "ended" is closed
    joinPending, \* useRoom: joinPending # null
    session,     \* sessionStorage: a saved session, and fromLobby with it
    pc,          \* useWebRTC: pcRef.current
    ops,         \* the operations chain of pc
    queue,       \* useWebRTC: pendingCandidates
    made,        \* descriptions made so far
    \* History and bounds
    crossed,     \* an offer was made before its maker heard that the page it
                 \* reached had joined, or while another was not answered
    dropped,     \* pages whose connection was lost
    astray,      \* handlers interleaved, or a page left without its connection
    misled,      \* pages told of a peer who is lost and whose loss they do not hear
    budget       \* what is left of the bounds

hubVars == <<twin, forgotten, conn, stale, tasks>>
serverVars == <<slot, listed, clientRooms, hubVars>>
wireVars == <<link, toServer, toClient>>
rtcVars == <<pc, ops, queue, made>>
pageVars == <<phase, joinPending, session>>
histVars == <<crossed, dropped, astray, misled, budget>>
vars == <<serverVars, wireVars, pageVars, rtcVars, histVars>>

-----------------------------------------------------------------------------
(* RTCPeerConnection (external), as far as useWebRTC uses it.              *)

\* A description is an offer or an answer; a candidate is named after the
\* description it was gathered for.
Desc == [by : Browsers, n : Nat]

\* signalingState; the current descriptions, the pending one of an offer, the
\* last ones made, candidates added, and the description to gather for.
NewPC == [sig |-> "stable", local |-> None, remote |-> None, pending |-> None,
          offer |-> None, answer |-> None, added |-> {}, gather |-> None, up |-> FALSE]

\* remoteDescription
Remote(p) == IF p.sig = "remote" THEN p.pending ELSE p.remote

\* An operation, the function that awaits it, the offer that function has as its
\* argument, and the candidates it has still to add.
Op(do, task, d) == [do |-> do, task |-> task, d |-> d, arg |-> d, rest |-> <<>>]
Then(op, do, d) == [op EXCEPT !.do = do, !.d = d, !.rest = <<>>]

\* The states in which an operation succeeds.  setRemoteDescription with an
\* offer rolls an own offer back.
Possible(p, op) ==
    CASE op.do = "setRemoteOffer" -> TRUE
      [] op.do = "createOffer" -> p.sig \in {"stable", "local"}
      [] op.do = "createAnswer" -> p.sig = "remote"
      [] op.do = "setLocalOffer" -> p.sig \in {"stable", "local"} /\ op.d = p.offer
      [] op.do = "setLocalAnswer" -> p.sig = "remote" /\ op.d = p.answer
      [] op.do = "setRemoteAnswer" -> p.sig = "local"
      [] op.do = "addIce" -> Remote(p) = op.d

\* The connection after an operation; d is the description it made, if any.
After(p, op, d) ==
    CASE op.do = "createOffer" -> [p EXCEPT !.offer = d]
      [] op.do = "createAnswer" -> [p EXCEPT !.answer = d]
      [] op.do = "setLocalOffer" -> [p EXCEPT !.sig = "local", !.pending = op.d, !.gather = op.d]
      [] op.do = "setRemoteOffer" ->
            [p EXCEPT !.sig = "remote", !.pending = op.d,
                      !.gather = IF p.sig = "local" THEN None ELSE @]
      [] op.do = "setLocalAnswer" ->
            [p EXCEPT !.sig = "stable", !.local = op.d, !.remote = p.pending,
                      !.pending = None, !.gather = op.d]
      [] op.do = "setRemoteAnswer" ->
            [p EXCEPT !.sig = "stable", !.local = p.pending, !.remote = op.d, !.pending = None]
      [] op.do = "addIce" -> [p EXCEPT !.added = @ \cup {op.d}]

-----------------------------------------------------------------------------
Msg(type, d) == [type |-> type, d |-> d]

\* wsClient.send: dropped without a word when the socket is down.
Send(b, m) == toServer' = [toServer EXCEPT ![b] = IF link[b] = "up" THEN Append(@, m) ELSE @]

\* What the server sends to b goes to the connection of b, joined or not, unless
\* the hub has forgotten it.
Pushed(b, s) == IF link[b] = "up" /\ b \notin forgotten THEN toClient[b] \o s ELSE toClient[b]

Has(messages, type) == \E i \in 1..Len(messages) : messages[i].type = type

Spend(what) == budget[what] > 0 /\ budget' = [budget EXCEPT ![what] = @ - 1]

Init ==
    /\ budget \in Budgets
    /\ slot = [b \in Browsers |-> "out"]
    /\ twin = [b \in Browsers |-> "out"]
    /\ listed = [b \in Browsers |-> FALSE]
    /\ clientRooms = {} /\ forgotten = {}
    /\ conn = [b \in Browsers |-> 0]
    /\ stale = {} /\ tasks = {}
    /\ link = [b \in Browsers |-> IF budget.lobby THEN "up" ELSE "off"]
    /\ toServer = [b \in Browsers |-> <<>>]
    /\ toClient = [b \in Browsers |-> <<>>]
    /\ phase = [b \in Browsers |-> "lobby"]
    /\ joinPending = [b \in Browsers |-> FALSE]
    /\ session = [b \in Browsers |-> budget.lobby]
    /\ pc = [b \in Browsers |-> None]
    /\ ops = [b \in Browsers |-> <<>>]
    /\ queue = [b \in Browsers |-> <<>>]
    /\ made = [b \in Browsers |-> 0]
    /\ crossed = FALSE
    /\ astray = FALSE /\ misled = {}
    /\ dropped = {}

-----------------------------------------------------------------------------
\* Nobody is left to send anything to a page that has ended.
Listening(b) == phase[b] # "ended"

(* The end of a connection.  The server notices it at once: the whole of   *)
(* HandleDisconnect.  Or it notices it later.                              *)

\* A bug for the checks to find: the peer is told nothing.
LoseQuietly(b) ==
    /\ ~astray /\ UNCHANGED <<astray, misled>>
    /\ slot' = [slot EXCEPT ![b] = IF listed[b] THEN "lost" ELSE @]
    /\ listed' = [listed EXCEPT ![b] = FALSE]
    /\ clientRooms' = clientRooms \ {b}
    /\ UNCHANGED hubVars
    /\ toServer' = [toServer EXCEPT ![b] = <<>>]
    /\ toClient' = [toClient EXCEPT ![b] = <<>>]

Lose(b) ==
    /\ ~astray /\ UNCHANGED <<astray, misled>>
    /\ slot' = [slot EXCEPT ![b] = IF listed[b] THEN "lost" ELSE @]
    /\ listed' = [listed EXCEPT ![b] = FALSE]
    /\ clientRooms' = clientRooms \ {b}
    /\ UNCHANGED hubVars
    /\ toServer' = [toServer EXCEPT ![b] = <<>>]
    /\ toClient' = [toClient EXCEPT
            ![b] = <<>>,
            ![Other(b)] = IF listed[b] /\ slot[Other(b)] # "out"
                          THEN Pushed(Other(b), <<Msg("left", None)>>) ELSE @]

\* What the server has not handled is lost; the participant stays for the time being.
LoseLate(b) ==
    /\ budget.race
    /\ astray' = TRUE
    /\ listed' = [listed EXCEPT ![b] = FALSE]
    /\ toServer' = [toServer EXCEPT ![b] = <<>>]
    /\ toClient' = [toClient EXCEPT ![b] = <<>>]
    /\ forgotten' = forgotten \ {b}
    /\ IF link[b] = "up" THEN /\ stale' = stale \cup {[by |-> b, n |-> conn[b]]}
                              /\ conn' = [conn EXCEPT ![b] = @ + 1]
                         ELSE UNCHANGED <<stale, conn>>
    /\ UNCHANGED <<slot, twin, clientRooms, tasks, misled>>

\* A bug for the checks to find: what was awaited goes on without a connection.
DropRTCKeepOps(b) ==
    /\ pc' = [pc EXCEPT ![b] = None]
    /\ queue' = [queue EXCEPT ![b] = <<>>]
    /\ UNCHANGED <<ops, made>>

\* The page goes: its connection is closed and nothing is awaited any more.
DropRTC(b) ==
    /\ pc' = [pc EXCEPT ![b] = None]
    /\ ops' = [ops EXCEPT ![b] = <<>>]
    /\ queue' = [queue EXCEPT ![b] = <<>>]
    /\ UNCHANGED made

Drop(b) ==
    /\ Spend("drop")
    /\ link[b] = "up"
    /\ link' = [link EXCEPT ![b] = "down"]
    /\ Lose(b) \/ LoseLate(b)
    /\ dropped' = dropped \cup {b}
    /\ UNCHANGED <<pageVars, rtcVars, crossed>>

\* The 20 s grace: a participant who has not come back is removed.
GraceOver(b) ==
    /\ slot[b] = "lost"
    /\ slot' = [slot EXCEPT ![b] = twin[b]]
    /\ twin' = [twin EXCEPT ![b] = "out"]
    /\ UNCHANGED <<listed, clientRooms, forgotten, conn, stale, tasks>>
    /\ UNCHANGED <<wireVars, pageVars, rtcVars, histVars>>

-----------------------------------------------------------------------------
(* RoomPage and useRoom                                                    *)

\* A bug for the checks to find: join is sent before the socket is open.
JoinRoomEarly(b) ==
    /\ Send(b, Msg("join", None))
    /\ phase' = [phase EXCEPT ![b] = "waiting"]
    /\ joinPending' = [joinPending EXCEPT ![b] = FALSE]
    /\ session' = [session EXCEPT ![b] = TRUE]

\* joinRoom, once per page, on the connection there is then.
JoinRoom(b) ==
    /\ toServer' = [toServer EXCEPT ![b] = IF link'[b] = "up" THEN Append(@, Msg("join", None)) ELSE @]
    /\ phase' = [phase EXCEPT ![b] = "waiting"]
    /\ joinPending' = [joinPending EXCEPT ![b] = FALSE]
    /\ session' = [session EXCEPT ![b] = TRUE]

\* The form of a private room.
HandleJoin(b) ==
    /\ ~budget.lobby /\ phase[b] = "lobby" /\ ~joinPending[b]
    /\ link' = [link EXCEPT ![b] = "down"]
    /\ joinPending' = [joinPending EXCEPT ![b] = TRUE]
    /\ UNCHANGED <<serverVars, toServer, toClient, phase, session, rtcVars, histVars>>

\* After a lobby call the page joins at once, on the connection of the lobby.
AutoJoin(b) ==
    /\ budget.lobby /\ phase[b] = "lobby"
    /\ UNCHANGED link
    /\ JoinRoom(b)
    /\ UNCHANGED <<serverVars, toClient, rtcVars, histVars>>

\* The socket opens.  Only a page that has not joined yet joins now.
Opened(b) ==
    /\ link[b] = "down"
    /\ link' = [link EXCEPT ![b] = "up"]
    /\ IF joinPending[b] THEN JoinRoom(b) ELSE UNCHANGED <<toServer, pageVars>>
    /\ UNCHANGED <<serverVars, toClient, rtcVars, histVars>>

\* A refresh of the page.  A saved session of a private room connects at once.
Reload(b) ==
    /\ Spend("reload")
    /\ Listening(b)
    /\ phase' = [phase EXCEPT ![b] = "lobby"]
    /\ joinPending' = [joinPending EXCEPT ![b] = session[b] /\ ~budget.lobby]
    /\ link' = [link EXCEPT ![b] = IF joinPending'[b] THEN "down" ELSE "off"]
    /\ Lose(b) \/ LoseLate(b)
    /\ DropRTC(b)
    /\ dropped' = dropped \ {b}
    /\ UNCHANGED <<session, crossed>>

LeaveRoom(b) ==
    /\ Spend("leave")
    /\ phase[b] \in {"connecting", "connected"}
    /\ phase' = [phase EXCEPT ![b] = "ended"]
    /\ session' = [session EXCEPT ![b] = FALSE]
    /\ link' = [link EXCEPT ![b] = "off"]
    /\ Lose(b) \/ LoseLate(b)
    /\ DropRTC(b)
    /\ UNCHANGED <<joinPending, crossed, dropped>>

\* Home from the waiting page: its hooks go, but neither its connection nor its
\* session, and its participant stays.
GoHome(b) ==
    /\ Spend("leave")
    /\ budget.race
    /\ phase[b] = "waiting"
    /\ phase' = [phase EXCEPT ![b] = "ended"]
    /\ astray' = TRUE
    /\ DropRTC(b)
    /\ UNCHANGED <<serverVars, wireVars, joinPending, session, crossed, dropped, misled>>

\* Connected, or 5 s after the peer came.
ShowCall(b) ==
    /\ phase[b] = "connecting"
    /\ phase' = [phase EXCEPT ![b] = "connected"]
    /\ UNCHANGED <<serverVars, wireVars, joinPending, session, rtcVars, histVars>>

-----------------------------------------------------------------------------
(* Messages at the page.                                                   *)

Hear(b, type) ==
    /\ link[b] = "up" /\ toClient[b] # <<>> /\ Head(toClient[b]).type = type
    /\ toClient' = [toClient EXCEPT ![b] = Tail(@)]
    /\ UNCHANGED <<serverVars, link, toServer, joinPending, made, dropped, astray, misled, budget>>

\* createPC closes the connection before, and with it all that waits for it.
CreatePC(b, op) ==
    /\ pc' = [pc EXCEPT ![b] = NewPC]
    /\ ops' = [ops EXCEPT ![b] = <<op>>]
    /\ queue' = [queue EXCEPT ![b] = <<>>]

Ask(b, op) == ops' = [ops EXCEPT ![b] = Append(@, op)]

OnPeerJoined(b) ==
    /\ Listening(b)
    /\ phase' = [phase EXCEPT ![b] = "connecting"]
    /\ UNCHANGED session
    /\ \/ /\ Hear(b, "offerer")
          /\ CreatePC(b, Op("createOffer", "start", None))
          /\ crossed' = (crossed \/ Has(toServer[b], "offer"))
       \/ /\ Hear(b, "answerer")
          /\ UNCHANGED <<pc, ops, queue, crossed>>

\* After a lobby call the page goes, but not the WebSocket.
OnPeerLeft(b) ==
    /\ Hear(b, "left") /\ Listening(b)
    /\ UNCHANGED crossed
    /\ IF budget.lobby
       THEN /\ phase' = [phase EXCEPT ![b] = "ended"]
            /\ session' = [session EXCEPT ![b] = FALSE]
            /\ DropRTC(b)
       ELSE /\ phase' = [phase EXCEPT ![b] = "waiting"]
            /\ UNCHANGED <<session, pc, ops, queue>>

OnOffer(b) ==
    LET d == Head(toClient[b]).d IN
    /\ Hear(b, "offer") /\ Listening(b)
    /\ UNCHANGED crossed
    /\ IF pc[b] # None
       THEN Ask(b, Op("setRemoteOffer", "existing", d)) /\ UNCHANGED <<pc, queue>>
       ELSE CreatePC(b, Op("setRemoteOffer", "fresh", d))
    /\ UNCHANGED <<phase, session>>

OnAnswer(b) ==
    /\ Hear(b, "answer") /\ Listening(b)
    /\ UNCHANGED crossed
    /\ IF pc[b] # None
       THEN Ask(b, Op("setRemoteAnswer", "answer", Head(toClient[b]).d))
       ELSE UNCHANGED ops
    /\ UNCHANGED <<phase, session, pc, queue>>

OnICE(b) ==
    LET d == Head(toClient[b]).d IN
    /\ Hear(b, "ice") /\ Listening(b)
    /\ UNCHANGED crossed
    /\ IF pc[b] = None \/ Remote(pc[b]) = None
       THEN queue' = [queue EXCEPT ![b] = Append(@, d)] /\ UNCHANGED ops
       ELSE Ask(b, Op("addIce", "ice", d)) /\ UNCHANGED queue
    /\ UNCHANGED <<phase, session, pc>>

-----------------------------------------------------------------------------
(* The steps between awaits: an operation ends, and the function goes on   *)
(* to its next await.                                                      *)

Finish(b, do) ==
    /\ ops[b] # <<>> /\ Head(ops[b]).do = do
    /\ Possible(pc[b], Head(ops[b]))
    /\ UNCHANGED <<serverVars, link, toClient, pageVars, histVars>>

Fresh(b) == [by |-> b, n |-> made[b] + 1]
Made(b) == made[b] < budget.made

\* pc becomes what the operation made of it, and the chain what is left of it
\* and what is asked for next.
Advance(b, d, next) ==
    /\ pc' = [pc EXCEPT ![b] = After(@, Head(ops[b]), d)]
    /\ ops' = [ops EXCEPT ![b] = Tail(@) \o next]
    /\ made' = [made EXCEPT ![b] = IF d = None THEN @ ELSE d.n]

\* A restart does not wait for setLocalDescription before it sends.
CreateOffer(b) ==
    LET op == Head(ops[b]) IN
    /\ Finish(b, "createOffer") /\ Made(b)
    /\ Advance(b, Fresh(b), <<Then(op, "setLocalOffer", Fresh(b))>>)
    /\ IF op.task = "restart" THEN Send(b, Msg("offer", Fresh(b))) ELSE UNCHANGED toServer
    /\ UNCHANGED queue

SetLocalOffer(b) ==
    LET op == Head(ops[b]) IN
    /\ Finish(b, "setLocalOffer")
    /\ Advance(b, None, <<>>)
    /\ IF op.task = "start" THEN Send(b, Msg("offer", op.d)) ELSE UNCHANGED toServer
    /\ UNCHANGED queue

\* After a remote description the queued candidates are added one by one; then
\* comes the answer to an offer.
AddRest(op, rest) ==
    IF rest # <<>> THEN <<[Then(op, "addIce", Head(rest)) EXCEPT !.rest = Tail(rest)]>>
    ELSE IF op.task = "answer" THEN <<>> ELSE <<Then(op, "createAnswer", None)>>

Drained(b, rest) == queue' = [queue EXCEPT ![b] = IF rest = <<>> THEN <<>> ELSE @]

\* A bug for the checks to find: only an offer empties the queue.
SetRemoteKeepQueue(b) ==
    LET rest == IF Head(ops[b]).task = "answer" THEN <<>> ELSE queue[b] IN
    /\ Finish(b, "setRemoteOffer") \/ Finish(b, "setRemoteAnswer")
    /\ Advance(b, None, AddRest(Head(ops[b]), rest))
    /\ Drained(b, queue[b])
    /\ UNCHANGED toServer

SetRemote(b) ==
    /\ Finish(b, "setRemoteOffer") \/ Finish(b, "setRemoteAnswer")
    /\ Advance(b, None, AddRest(Head(ops[b]), queue[b]))
    /\ Drained(b, queue[b])
    /\ UNCHANGED toServer

AddIceCandidate(b) ==
    LET op == Head(ops[b]) IN
    /\ Finish(b, "addIce")
    /\ IF op.task = "ice"
       THEN Advance(b, None, <<>>) /\ UNCHANGED queue
       ELSE Advance(b, None, AddRest(op, op.rest)) /\ Drained(b, op.rest)
    /\ UNCHANGED toServer

CreateAnswer(b) ==
    /\ Finish(b, "createAnswer") /\ Made(b)
    /\ Advance(b, Fresh(b), <<Then(Head(ops[b]), "setLocalAnswer", Fresh(b))>>)
    /\ UNCHANGED <<toServer, queue>>

SetLocalAnswer(b) ==
    LET op == Head(ops[b]) IN
    /\ Finish(b, "setLocalAnswer")
    /\ Advance(b, None, <<>>)
    /\ Send(b, Msg("answer", op.d))
    /\ UNCHANGED queue

\* An operation fails.  handleOffer on an existing connection starts again on
\* a new one; every other function ends there.
Fail(b) ==
    LET op == Head(ops[b]) IN
    /\ ops[b] # <<>> /\ ~Possible(pc[b], op)
    /\ IF op.task = "existing"
       THEN CreatePC(b, Op("setRemoteOffer", "fresh", op.arg))
       ELSE ops' = [ops EXCEPT ![b] = Tail(@)] /\ UNCHANGED <<pc, queue>>
    /\ UNCHANGED <<serverVars, wireVars, pageVars, made, histVars>>

\* onicecandidate, for the description set last.
Gather(b) ==
    /\ pc[b] # None
    /\ pc[b].gather # None
    /\ pc' = [pc EXCEPT ![b].gather = None]
    /\ Send(b, Msg("ice", pc[b].gather))
    /\ UNCHANGED <<serverVars, link, toClient, pageVars, ops, queue, made, histVars>>

\* Media flow when both ends have each other's descriptions and a candidate.
Connect(b) ==
    LET o == Other(b) IN
    /\ pc[b] # None /\ pc[o] # None
    /\ ~pc[b].up
    /\ pc[b].sig = "stable" /\ pc[b].local # None
    /\ pc[b].local = pc[o].remote /\ pc[b].remote = pc[o].local
    /\ pc[b].remote \in pc[b].added \/ pc[o].remote \in pc[o].added
    /\ pc' = [pc EXCEPT ![b].up = TRUE]
    /\ UNCHANGED <<serverVars, wireVars, pageVars, ops, queue, made, histVars>>

\* An offer that is being made, or has no answer yet.
Offering(b) ==
    \/ pc[b] # None /\ pc[b].sig = "local"
    \/ \E i \in 1..Len(ops[b]) : ops[b][i].do \in {"createOffer", "setLocalOffer"}

\* The ICE restart of a connection that failed.
Restart(b) ==
    /\ Spend("restart")
    /\ pc[b] # None
    /\ pc[b].up
    /\ Ask(b, Op("createOffer", "restart", None))
    /\ crossed' = (crossed \/ \E c \in Browsers : Offering(c))
    /\ UNCHANGED <<serverVars, wireVars, pageVars, pc, queue, made, dropped, astray, misled>>

-----------------------------------------------------------------------------
(* The server: handleJoin that nothing comes between, and relayToPeer.     *)

\* One reader per connection, which takes one message after the other.
Serve(b, types) ==
    /\ link[b] = "up" /\ toServer[b] # <<>> /\ Head(toServer[b]).type \in types
    /\ \A t \in tasks : ~(t.by = b /\ t.n = conn[b])
    /\ toServer' = [toServer EXCEPT ![b] = Tail(@)]
    /\ UNCHANGED <<link, pageVars, rtcVars, dropped, misled, budget>>

\* A bug for the checks to find: who comes back is not announced again.
HandleRoomJoinOnce(b) ==
    LET o == Other(b) IN
    /\ Serve(b, {"join"})
    /\ ~astray
    /\ slot' = [slot EXCEPT ![b] = "in"]
    /\ listed' = [listed EXCEPT ![b] = TRUE]
    /\ clientRooms' = clientRooms \cup {b}
    /\ UNCHANGED <<hubVars, astray>>
    /\ toClient' = IF slot[o] = "in" /\ slot[b] # "lost"
                   THEN [toClient EXCEPT ![b] = Append(@, Msg("answerer", None)),
                                         ![o] = Pushed(o, <<Msg("offerer", None)>>)]
                   ELSE toClient
    /\ UNCHANGED crossed

\* A bug for the checks to find: both are to offer.
HandleRoomJoinBoth(b) ==
    LET o == Other(b) IN
    /\ Serve(b, {"join"})
    /\ ~astray
    /\ slot' = [slot EXCEPT ![b] = "in"]
    /\ listed' = [listed EXCEPT ![b] = TRUE]
    /\ clientRooms' = clientRooms \cup {b}
    /\ UNCHANGED <<hubVars, astray>>
    /\ toClient' = IF slot[o] = "in"
                   THEN [toClient EXCEPT ![b] = Append(@, Msg("offerer", None)),
                                         ![o] = Pushed(o, <<Msg("offerer", None)>>)]
                   ELSE toClient
    /\ UNCHANGED crossed

\* The one who is there is to offer, the one who comes is to answer.
HandleRoomJoin(b) ==
    LET o == Other(b) IN
    /\ Serve(b, {"join"})
    /\ ~astray
    /\ slot' = [slot EXCEPT ![b] = "in"]
    /\ listed' = [listed EXCEPT ![b] = TRUE]
    /\ clientRooms' = clientRooms \cup {b}
    /\ UNCHANGED <<hubVars, astray>>
    /\ toClient' = IF slot[o] = "in"
                   THEN [toClient EXCEPT ![b] = Append(@, Msg("answerer", None)),
                                         ![o] = Pushed(o, <<Msg("offerer", None)>>)]
                   ELSE toClient
    /\ UNCHANGED crossed

\* To whatever connection the peer has, joined or not.
RelayToPeer(b) ==
    LET o == Other(b)
        m == Head(toServer[b])
        relayed == listed[b] /\ slot[o] # "out"
    IN  /\ Serve(b, {"offer", "answer", "ice"})
        /\ toClient' = [toClient EXCEPT ![o] = IF relayed THEN Pushed(o, <<m>>) ELSE @]
        /\ crossed' = (crossed \/ (m.type = "offer" /\ relayed
                                   /\ (~listed[o] \/ Has(toClient[b], "offerer"))))
        /\ UNCHANGED <<serverVars, astray>>

-----------------------------------------------------------------------------
(* Handlers that interleave.  A connection is known by the ID of its tab   *)
(* only, so the late end of an old one is taken for that of the new one.   *)

Begin(b, at) == tasks \cup {[by |-> b, n |-> conn[b], at |-> at]}

\* Room.Add has nowhere to put b: both places are taken, none by a lost one of his name.
Full(b) ==
    /\ "lost" \notin {slot[b], twin[b]}
    /\ Cardinality({c \in Browsers : slot[c] # "out"}) + Cardinality({c \in Browsers : twin[c] # "out"}) = 2

\* Room.Add: the place of a lost participant of that name, or a free one.
Seat(b) ==
    IF slot[b] = "lost" \/ (slot[b] = "out" /\ twin[b] = "out")
    THEN slot' = [slot EXCEPT ![b] = "in"] /\ UNCHANGED twin
    ELSE twin' = [twin EXCEPT ![b] = "in"] /\ UNCHANGED slot

\* handleJoin up to the lookup of the peer.
JoinBegins(b) ==
    /\ budget.race
    /\ Serve(b, {"join"})
    /\ ~Full(b)
    /\ Seat(b)
    /\ listed' = [listed EXCEPT ![b] = TRUE]
    /\ clientRooms' = clientRooms \cup {b}
    /\ tasks' = Begin(b, "added")
    /\ astray' = TRUE
    /\ UNCHANGED <<forgotten, conn, stale, toClient, crossed>>

\* room_full, and the end of the connection; the word may be lost with it.  The
\* page with the error listens as the waiting one does, and forgets its session.
JoinRefused(b) ==
    /\ budget.race
    /\ link[b] = "up" /\ toServer[b] # <<>> /\ Head(toServer[b]).type = "join"
    /\ Full(b)
    /\ link' = [link EXCEPT ![b] = "down"]
    /\ LoseLate(b)
    /\ dropped' = dropped \cup {b}
    /\ session' \in {session, [session EXCEPT ![b] = FALSE]}
    /\ UNCHANGED <<phase, joinPending, rtcVars, crossed, budget>>

\* A handler goes on to its next step, or ends.
Goes(t, at) == tasks' = (tasks \ {t}) \cup {[t EXCEPT !.at = at]}
Ends(t) == tasks' = tasks \ {t}

Handles(t) ==
    /\ t \in tasks
    /\ UNCHANGED <<listed, conn, link, toServer, pageVars, rtcVars, crossed, dropped, astray, budget>>

\* The loss of b is about to be told.
LossComes(b) == \E t \in tasks : t.by = b /\ t.at = "marked"

\* The peer is there and not lost, at this moment.
LookForPeer(t) ==
    /\ Handles(t) /\ t.at = "added"
    /\ IF slot[Other(t.by)] = "in" THEN Goes(t, "seen") ELSE Ends(t)
    /\ UNCHANGED <<slot, twin, clientRooms, forgotten, stale, toClient, misled>>

\* b is told of a peer.
Believes(b) ==
    misled' = IF slot[Other(b)] # "in" /\ ~LossComes(Other(b)) THEN misled \cup {b} ELSE misled

TellJoiner(t) ==
    /\ Handles(t) /\ t.at = "seen"
    /\ Goes(t, "told")
    /\ toClient' = [toClient EXCEPT ![t.by] =
                       IF t.n = conn[t.by] THEN Append(@, Msg("answerer", None)) ELSE @]
    /\ Believes(t.by)
    /\ UNCHANGED <<slot, twin, clientRooms, forgotten, stale>>

Tell(t, m) ==
    LET o == Other(t.by) IN
    /\ Handles(t) /\ Ends(t)
    /\ toClient' = [toClient EXCEPT ![o] = IF slot[o] # "out" THEN Pushed(o, <<m>>) ELSE @]
    /\ UNCHANGED <<slot, twin, clientRooms, forgotten, stale>>

TellPeer(t) == t.at = "told" /\ Tell(t, Msg("offerer", None)) /\ Believes(Other(t.by))

\* HandleDisconnect of an old connection: the entries of its ID go, be they those
\* of the new one.
HandleDisconnect(c) ==
    LET b == c.by IN
    /\ c \in stale
    /\ \A t \in tasks : ~(t.by = b /\ t.n = c.n)
    /\ stale' = stale \ {c}
    /\ forgotten' = IF link[b] = "up" THEN forgotten \cup {b} ELSE forgotten
    /\ clientRooms' = clientRooms \ {b}
    /\ tasks' = IF b \in clientRooms THEN tasks \cup {[by |-> b, n |-> c.n, at |-> "gone"]} ELSE tasks
    /\ UNCHANGED <<slot, twin, listed, conn, wireVars, pageVars, rtcVars, histVars>>

\* MarkDisconnected finds the first participant with the ID.
MarkDisconnected(t) ==
    LET b == t.by IN
    /\ Handles(t) /\ t.at = "gone"
    /\ Goes(t, "marked")
    /\ \/ slot[b] = "out" /\ UNCHANGED <<slot, twin>>
       \/ slot[b] # "out" /\ slot' = [slot EXCEPT ![b] = "lost"] /\ UNCHANGED twin
       \/ twin[b] # "out" /\ twin' = [twin EXCEPT ![b] = "lost"] /\ UNCHANGED slot
    /\ UNCHANGED <<clientRooms, forgotten, stale, toClient, misled>>

TellLeft(t) ==
    LET o == Other(t.by) IN
    /\ t.at = "marked" /\ Tell(t, Msg("left", None))
    /\ misled' = IF slot[o] = "out" \/ o \in forgotten THEN misled \cup {o} ELSE misled

\* The grace of a second participant.
TwinOver(b) ==
    /\ twin[b] = "lost"
    /\ twin' = [twin EXCEPT ![b] = "out"]
    /\ UNCHANGED <<slot, listed, clientRooms, forgotten, conn, stale, tasks>>
    /\ UNCHANGED <<wireVars, pageVars, rtcVars, histVars>>

-----------------------------------------------------------------------------
Page(b) ==
    \/ HandleJoin(b) \/ AutoJoin(b) \/ Opened(b) \/ ShowCall(b)
    \/ OnPeerJoined(b) \/ OnPeerLeft(b) \/ OnOffer(b) \/ OnAnswer(b) \/ OnICE(b)

Negotiate(b) ==
    \/ CreateOffer(b) \/ SetLocalOffer(b) \/ SetRemote(b) \/ AddIceCandidate(b)
    \/ CreateAnswer(b) \/ SetLocalAnswer(b) \/ Fail(b) \/ Gather(b) \/ Connect(b)

Server(b) == HandleRoomJoin(b) \/ RelayToPeer(b) \/ GraceOver(b)

Task(t) ==
    \/ LookForPeer(t) \/ TellJoiner(t) \/ TellPeer(t)
    \/ MarkDisconnected(t) \/ TellLeft(t)

Interleaved ==
    \/ \E b \in Browsers : JoinBegins(b) \/ JoinRefused(b) \/ TwinOver(b) \/ GoHome(b)
    \/ \E t \in tasks : Task(t)
    \/ \E c \in stale : HandleDisconnect(c)

Next ==
    \/ \E b \in Browsers :
          \/ Page(b) \/ Negotiate(b) \/ Server(b)
          \/ Drop(b) \/ Reload(b) \/ LeaveRoom(b) \/ Restart(b)
    \/ Interleaved

Spec == Init /\ [][Next]_vars

-----------------------------------------------------------------------------
Descs == Desc \cup {None}
Ops == [do : {"createOffer", "setLocalOffer", "setRemoteOffer", "createAnswer",
              "setLocalAnswer", "setRemoteAnswer", "addIce"},
        task : {"start", "restart", "existing", "fresh", "answer", "ice"},
        d : Descs, arg : Descs, rest : Seq(Desc)]
PCs == [sig : {"stable", "local", "remote"}, local : Descs, remote : Descs, pending : Descs,
        offer : Descs, answer : Descs, added : SUBSET Desc, gather : Descs, up : BOOLEAN]

ASSUME NoneAssumption == None \notin PCs /\ None \notin Desc

Places == [Browsers -> {"out", "in", "lost"}]
Connections == [by : Browsers, n : Nat]
Tasks == [by : Browsers, n : Nat, at : {"added", "seen", "told", "gone", "marked"}]

\* The types; a chain of operations belongs to a connection, and, as long as the
\* handlers keep together, what a connection has joined is a participant.
TypeOK ==
    /\ slot \in Places /\ twin \in Places
    /\ listed \in [Browsers -> BOOLEAN]
    /\ clientRooms \subseteq Browsers /\ forgotten \subseteq Browsers
    /\ conn \in [Browsers -> Nat]
    /\ stale \subseteq Connections /\ tasks \subseteq Tasks
    /\ link \in [Browsers -> {"off", "down", "up"}]
    /\ toServer \in [Browsers -> Seq([type : {"join", "offer", "answer", "ice"}, d : Descs])]
    /\ toClient \in [Browsers -> Seq([type : {"offerer", "answerer", "left", "offer",
                                             "answer", "ice"}, d : Descs])]
    /\ phase \in [Browsers -> {"lobby", "waiting", "connecting", "connected", "ended"}]
    /\ joinPending \in [Browsers -> BOOLEAN] /\ session \in [Browsers -> BOOLEAN]
    /\ pc \in [Browsers -> PCs \cup {None}]
    /\ ops \in [Browsers -> Seq(Ops)]
    /\ queue \in [Browsers -> Seq(Desc)]
    /\ made \in [Browsers -> Nat]
    /\ crossed \in BOOLEAN /\ dropped \subseteq Browsers
    /\ astray \in BOOLEAN /\ misled \subseteq Browsers
    /\ \A b \in Browsers :
        /\ pc[b] = None => ops[b] = <<>>
        /\ listed[b] => link[b] = "up" /\ (slot[b] = "in" \/ astray)

InCall(b) == phase[b] \in {"connecting", "connected"}

\* A page that waits or talks has joined the room, or its join is on the way:
\* none is sent on a socket that is still opening, and none is forgotten, unless
\* the socket was lost (nobody joins again), or never asked for (the refreshed
\* page of a lobby call), also where the server handles joins and ends of
\* connections at the same time.
Joined ==
    \A b \in Browsers :
        (InCall(b) \/ phase[b] = "waiting") /\ b \notin dropped /\ link[b] # "off" =>
            listed[b] \/ Has(toServer[b], "join")

\* Who is in a call and in the room has the other one in the room, or hears of
\* his loss.
PeerThere(b) ==
    InCall(b) /\ listed[b] =>
        slot[Other(b)] = "in" \/ Has(toClient[b], "left") \/ LossComes(Other(b))

\* Nobody talks to an empty place, however leaves, losses, refreshes, graces and
\* joins follow each other, and wherever the handlers of the two connections are
\* when they interleave.  Excepted are the misled, exactly those whom the hub tells
\* of a peer that was lost, and told of, since it looked (hub.go:196), or does
\* not tell of a loss, because the late end of an old connection took the new
\* one's entry (hub.go:119), or the grace its participant.
NoCallAlone == \A b \in Browsers : b \notin misled => PeerThere(b)

\* Nothing is under way, and both are in the room.
Settled ==
    /\ ~crossed /\ ~astray
    /\ \A b \in Browsers :
        /\ toServer[b] = <<>> /\ toClient[b] = <<>> /\ ops[b] = <<>>
        /\ pc[b] # None => pc[b].gather = None
        /\ listed[b] /\ phase[b] # "lobby"

\* When all is done the two ends fit: both have a connection, nobody is in the
\* middle of an exchange, and what one sent is what the other one has, whatever
\* the async functions did between their awaits.  Excepted are an offer that
\* crosses with a join or with another offer, and a server whose handlers
\* interleaved (of two who join at once both are told to offer, hub.go:196).
Agreed ==
    Settled => \A b \in Browsers :
        /\ InCall(b) /\ pc[b] # None /\ pc[Other(b)] # None
        /\ pc[b].sig = "stable" /\ pc[b].local # None
        /\ pc[b].local = pc[Other(b)].remote

\* No candidate is lost (docs/PLAN.md:187): those that came before the remote
\* description were queued, those that came while the queue was emptied as well,
\* and a queue is not thrown away with candidates of the new connection in it.
CandidatesKept ==
    Settled => \A b \in Browsers :
        pc[b] # None /\ pc[b].remote # None => pc[b].remote \in pc[b].added

\* Between the connections of two pages in the room no description is refused,
\* nor a candidate of the queue: the catch of handleOffer (useWebRTC.ts:149) is
\* for offers that cross only, and neither handleAnswer nor startOffer, which have
\* none, ends half done, wherever the other functions are between their awaits,
\* as long as the handlers of the server do not interleave.
NoneRefused ==
    ~crossed /\ ~astray /\ (\A b \in Browsers : listed[b] /\ pc[b] # None) =>
        \A b \in Browsers :
            ops[b] # <<>> /\ Head(ops[b]).task # "ice" => Possible(pc[b], Head(ops[b]))
=============================================================================
