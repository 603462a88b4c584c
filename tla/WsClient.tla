------------------------------ MODULE WsClient ------------------------------
(***************************************************************************)
(* One WebSocket connection of the server, server/internal/ws/client.go:   *)
(* its read pump, its write pump, the buffered send channel between the    *)
(* handlers and the write pump, and Close, which may be called by any of   *)
(* the goroutines that hold a pointer to the client.                       *)
(*                                                                         *)
(* The senders are handlers of other connections and timers: they take the *)
(* pointer out of Hub.clients first and send later.                        *)
(*                                                                         *)
(* The specification has names of its own (ConnInit, ConnNext, ...), so    *)
(* that a module can extend this one and WsReconnect, the browser's end.   *)
(***************************************************************************)
EXTENDS Naturals

CONSTANTS
    Senders,    \* other goroutines
    BufSize,    \* capacity of the send channel (sendBufSize)
    MaxSends    \* bound: messages queued

ASSUME ConnAssumption ==
    /\ "reader" \notin Senders /\ "writer" \notin Senders
    /\ BufSize \in Nat \ {0} /\ MaxSends \in Nat

Callers == Senders \cup {"reader"}
Goroutines == Callers \cup {"writer"}

VARIABLES
    network,    \* "up", or "down": the browser is gone without a word
    connClosed, \* conn.Close was called
    buf,        \* messages in the send channel
    chanClosed, \* the send channel is closed
    once,       \* the sync.Once of Close: "new", "running", "done"
    registered, \* the client in Hub.clients: "accepted" only; "in"; "out" again; "early": its
                \* reader has ended before Register; "stray": Register came after that
    pc, ret,    \* per goroutine: where it is, where Close returns to
    sends,      \* messages ever queued
    lost,       \* a queued message met a closed connection
    panicked    \* some goroutine sent on the closed channel: the program ends

chanVars == <<buf, chanClosed>>
connVars == <<network, connClosed, chanVars, once, registered, pc, ret, sends, lost, panicked>>

\* What Hub.clients has: the client of an early end is never taken out again.
InHub == registered \in {"in", "stray"}

Goto(g, l) == pc' = [pc EXCEPT ![g] = l]

\* Call Close, to go on at l afterwards.
CallClose(g, l) ==
    /\ pc' = [pc EXCEPT ![g] = "close"]
    /\ ret' = [ret EXCEPT ![g] = l]

\* NewClient has started the pumps; the upgrade handler has still to call Register.
ConnInit ==
    /\ network = "up" /\ connClosed = FALSE
    /\ buf = 0 /\ chanClosed = FALSE
    /\ once = "new"
    /\ registered = "accepted"
    /\ pc = [g \in Goroutines |-> CASE g = "reader" -> "read" [] g = "writer" -> "select"
                                    [] OTHER -> "idle"]
    /\ ret = [g \in Callers |-> "exit"]
    /\ sends = 0 /\ lost = FALSE /\ panicked = FALSE

-----------------------------------------------------------------------------
\* A bug for the checks to find: a message that does not fit is dropped.
SendDropping(g, l) ==
    /\ ~chanClosed /\ sends < MaxSends
    /\ buf' = IF buf < BufSize THEN buf + 1 ELSE buf
    /\ lost' = (lost \/ buf = BufSize)
    /\ sends' = sends + 1
    /\ Goto(g, l)
    /\ UNCHANGED <<network, connClosed, chanClosed, once, registered, ret, panicked>>

\* Send and SendBytes: queue the message, or close the client that is too
\* slow.  A select that would send on a closed channel panics.
Send(g, l) ==
    \/ /\ chanClosed
       /\ panicked' = TRUE
       /\ UNCHANGED <<network, connClosed, chanVars, once, registered, pc, ret, sends, lost>>
    \/ /\ ~chanClosed /\ buf < BufSize /\ sends < MaxSends
       /\ buf' = buf + 1 /\ sends' = sends + 1
       /\ Goto(g, l)
       /\ UNCHANGED <<network, connClosed, chanClosed, once, registered, ret, lost, panicked>>
    \/ /\ ~chanClosed /\ buf = BufSize
       /\ CallClose(g, l)
       /\ UNCHANGED <<network, connClosed, chanVars, once, registered, sends, lost, panicked>>

\* Close: the first caller closes the channel, then the connection; others
\* wait for it.
Close(g) ==
    /\ pc[g] = "close" /\ once # "running"
    /\ IF once = "new"
       THEN /\ once' = "running" /\ chanClosed' = TRUE
            /\ Goto(g, "close_conn")
       ELSE /\ UNCHANGED <<once, chanClosed>>
            /\ Goto(g, ret[g])
    /\ UNCHANGED <<network, connClosed, buf, registered, ret, sends, lost, panicked>>

CloseConn(g) ==
    /\ pc[g] = "close_conn"
    /\ connClosed' = TRUE /\ once' = "done"
    /\ Goto(g, ret[g])
    /\ UNCHANGED <<network, chanVars, registered, ret, sends, lost, panicked>>

-----------------------------------------------------------------------------
\* The upgrade handler, after NewClient.
Register ==
    /\ registered \in {"accepted", "early"}
    /\ registered' = IF registered = "early" THEN "stray" ELSE "in"
    /\ UNCHANGED <<network, connClosed, chanVars, once, pc, ret, sends, lost, panicked>>

(* Other goroutines: h.clients[id] under the hub's lock, Send without it.  *)

Lookup(g) ==
    /\ pc[g] = "idle" /\ InHub
    /\ Goto(g, "found")
    /\ UNCHANGED <<network, connClosed, chanVars, once, registered, ret, sends, lost, panicked>>

SendFound(g) == pc[g] = "found" /\ Send(g, "idle")

-----------------------------------------------------------------------------
(* readPump: read, dispatch, and in the end HandleDisconnect and Close.    *)

Read ==
    /\ pc["reader"] = "read" /\ network = "up" /\ ~connClosed
    /\ Goto("reader", "handle")
    /\ UNCHANGED <<network, connClosed, chanVars, once, registered, ret, sends, lost, panicked>>

\* The handler sends to its own client, any number of times, and returns.
HandlerSend == pc["reader"] = "handle" /\ Send("reader", "handle")

HandlerDone ==
    /\ pc["reader"] = "handle"
    /\ Goto("reader", "read")
    /\ UNCHANGED <<network, connClosed, chanVars, once, registered, ret, sends, lost, panicked>>

\* handleJoin refuses a third participant: room_full, then Close.
RoomFull ==
    /\ pc["reader"] = "handle" /\ ~chanClosed /\ buf < BufSize /\ sends < MaxSends
    /\ buf' = buf + 1 /\ sends' = sends + 1
    /\ CallClose("reader", "read")
    /\ UNCHANGED <<network, connClosed, chanClosed, once, registered, lost, panicked>>

\* An error: the connection was closed here, or nothing came until the read
\* deadline, which only pongs move.
ReadFails ==
    /\ pc["reader"] = "read" /\ (connClosed \/ network = "down")
    /\ Goto("reader", "bye")
    /\ UNCHANGED <<network, connClosed, chanVars, once, registered, ret, sends, lost, panicked>>

\* The browser sends more than the read limit, or what is no frame.
ReadError ==
    /\ pc["reader"] = "read" /\ network = "up" /\ ~connClosed
    /\ Goto("reader", "bye")
    /\ UNCHANGED <<network, connClosed, chanVars, once, registered, ret, sends, lost, panicked>>

\* A bug for the checks to find: a client that others have closed is taken
\* for one that has left the hub.
HandleDisconnectIfOpen ==
    /\ pc["reader"] = "bye"
    /\ registered' = CASE registered = "accepted" -> "early"
                        [] registered = "in" /\ ~chanClosed -> "out"
                        [] OTHER -> registered
    /\ CallClose("reader", "exit")
    /\ UNCHANGED <<network, connClosed, chanVars, once, sends, lost, panicked>>

HandleDisconnect ==
    /\ pc["reader"] = "bye"
    /\ registered' = IF registered = "accepted" THEN "early" ELSE "out"
    /\ CallClose("reader", "exit")
    /\ UNCHANGED <<network, connClosed, chanVars, once, sends, lost, panicked>>

-----------------------------------------------------------------------------
(* writePump                                                               *)

Take ==
    /\ pc["writer"] = "select" /\ buf > 0
    /\ buf' = buf - 1
    /\ Goto("writer", "write")
    /\ UNCHANGED <<network, connClosed, chanClosed, once, registered, ret, sends, lost, panicked>>

\* A write fails on a closed connection, may fail when the browser is gone.
Write ==
    /\ pc["writer"] = "write"
    /\ \/ ~connClosed /\ Goto("writer", "select")
       \/ (connClosed \/ network = "down") /\ Goto("writer", "return")
    /\ lost' = (lost \/ connClosed)
    /\ UNCHANGED <<network, connClosed, chanVars, once, registered, ret, sends, panicked>>

Ping ==
    /\ pc["writer"] = "select" /\ (connClosed \/ network = "down")
    /\ Goto("writer", "return")
    /\ UNCHANGED <<network, connClosed, chanVars, once, registered, ret, sends, lost, panicked>>

\* The channel is closed and drained: a close frame, and out.
Drained ==
    /\ pc["writer"] = "select" /\ buf = 0 /\ chanClosed
    /\ Goto("writer", "return")
    /\ UNCHANGED <<network, connClosed, chanVars, once, registered, ret, sends, lost, panicked>>

Return ==
    /\ pc["writer"] = "return"
    /\ connClosed' = TRUE
    /\ Goto("writer", "exit")
    /\ UNCHANGED <<network, chanVars, once, registered, ret, sends, lost, panicked>>

-----------------------------------------------------------------------------
NetworkDown ==
    /\ network = "up"
    /\ network' = "down"
    /\ UNCHANGED <<connClosed, chanVars, once, registered, pc, ret, sends, lost, panicked>>

Reader == HandlerSend \/ HandlerDone \/ RoomFull \/ ReadFails \/ HandleDisconnect
Writer == Take \/ Write \/ Ping \/ Drained \/ Return
Closing(g) == Close(g) \/ CloseConn(g)

ConnNext ==
    /\ ~panicked
    /\ \/ Read \/ ReadError \/ Reader \/ Writer \/ Register \/ NetworkDown
       \/ \E g \in Callers : Closing(g)
       \/ \E g \in Senders : Lookup(g) \/ SendFound(g)

ConnSpec == ConnInit /\ [][ConnNext]_connVars

\* Goroutines run; handlers return; the read deadline passes.  A browser need
\* not send anything.
ConnFairness ==
    /\ WF_connVars(~panicked /\ Reader) /\ WF_connVars(~panicked /\ Writer)
    /\ WF_connVars(~panicked /\ Register)
    /\ \A g \in Callers : WF_connVars(~panicked /\ Closing(g))

ConnFairSpec == ConnSpec /\ ConnFairness

-----------------------------------------------------------------------------
\* Types; the connection is closed by Close or by the write pump's end only.
ConnTypeOK ==
    /\ network \in {"up", "down"} /\ connClosed \in BOOLEAN
    /\ buf \in 0..BufSize /\ chanClosed \in BOOLEAN
    /\ once \in {"new", "running", "done"}
    /\ registered \in {"accepted", "in", "out", "early", "stray"}
    /\ lost \in BOOLEAN /\ panicked \in BOOLEAN
    /\ pc \in [Goroutines -> {"idle", "found", "read", "handle", "bye", "close", "close_conn",
                              "select", "write", "return", "exit"}]
    /\ ret \in [Callers -> {"idle", "read", "handle", "exit"}]
    /\ sends \in 0..MaxSends

\* A browser that is there gets every message queued for it, unless somebody
\* has closed the client: neither a full buffer nor the end of the write pump
\* drops one and leaves the client in use.
NoSilentLoss ==
    lost \/ (pc["writer"] = "exit" /\ buf > 0) => network = "down" \/ chanClosed

\* Once a connection is lost, on the network or by a Close, both pumps end
\* and the client leaves the hub: no goroutine waits for ever on a channel or
\* a socket, whoever noticed first.  Excepted is the client whose reader had ended
\* before the upgrade handler came to Register it, which stays in the hub.
Released ==
    network = "down" \/ chanClosed \/ connClosed
        ~> panicked \/ (pc["reader"] = "exit" /\ pc["writer"] = "exit"
                         /\ registered \in {"out", "stray"})

-----------------------------------------------------------------------------
\* client.go: "send buffer full, close the client".  The server outlives it.
NoPanic == ~panicked
=============================================================================
