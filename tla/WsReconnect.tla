----------------------------- MODULE WsReconnect -----------------------------
(***************************************************************************)
(* The browser's WebSocket client, frontend/src/lib/wsClient.ts: one       *)
(* object for the page that opens sockets, opens them again after a delay, *)
(* and checks the connection when the tab becomes visible.                 *)
(*                                                                         *)
(* JavaScript runs one callback at a time; each action is one call or one  *)
(* event.  Sockets keep their event handlers for life, also when the       *)
(* object no longer refers to them.                                        *)
(***************************************************************************)
EXTENDS Naturals

CONSTANTS
    MaxAttempts,    \* bound: calls of doConnect
    MaxDelay        \* maxReconnectDelay, in seconds

ASSUME ConstantsAssumption ==
    MaxAttempts \in Nat /\ MaxDelay \in Nat \ {0}

Sockets == 1..MaxAttempts

VARIABLES
    ws,         \* this.ws, 0 for null
    state,      \* readyState of every socket; "new": not made
    attempts,   \* calls of doConnect so far
    timer,      \* reconnectTimer is set
    delay,      \* reconnectDelay
    should,     \* shouldReconnect
    connected   \* _connected, what the pages are told

vars == <<ws, state, attempts, timer, delay, should, connected>>

\* readyState of this.ws
Current == IF ws = 0 THEN "closed" ELSE state[ws]

Init ==
    /\ ws = 0
    /\ state = [s \in Sockets |-> "new"]
    /\ attempts = 0
    /\ timer = FALSE
    /\ delay = 1
    /\ should = FALSE
    /\ connected = FALSE

\* doConnect: a new socket replaces this.ws, or the constructor throws and a
\* reconnect is scheduled; a timer that is set already stays.
DoConnect(old, t) ==
    /\ attempts < MaxAttempts
    /\ attempts' = attempts + 1
    /\ \/ /\ ws' = attempts + 1
          /\ state' = [state EXCEPT ![attempts + 1] = "connecting"]
          /\ timer' = t
       \/ /\ ws' = old
          /\ timer' = TRUE
          /\ UNCHANGED state

-----------------------------------------------------------------------------
\* connect, disconnect: called by the pages.
Connect ==
    /\ Current \notin {"open", "connecting"}
    /\ DoConnect(0, FALSE)
    /\ should' = TRUE
    /\ delay' = 1
    /\ UNCHANGED connected

\* A bug for the checks to find: the close event is left to tell the pages.
DisconnectQuiet ==
    /\ should' = FALSE
    /\ timer' = FALSE
    /\ state' = IF Current \in {"open", "connecting"} THEN [state EXCEPT ![ws] = "closing"]
                ELSE state
    /\ ws' = 0
    /\ UNCHANGED <<attempts, delay, connected>>

Disconnect ==
    /\ should' = FALSE
    /\ timer' = FALSE
    /\ state' = IF Current \in {"open", "connecting"} THEN [state EXCEPT ![ws] = "closing"]
                ELSE state
    /\ ws' = 0
    /\ connected' = FALSE
    /\ UNCHANGED <<attempts, delay>>

\* checkConnection, when the tab becomes visible: a dead socket is replaced;
\* else "ping" is sent, and the socket closed when send throws, as it does
\* while the socket is still connecting.
Wake ==
    /\ should
    /\ \/ /\ Current \in {"closed", "closing"}
          /\ DoConnect(0, timer)
          /\ connected' = FALSE
          /\ UNCHANGED <<delay, should>>
       \/ /\ Current = "connecting"
          /\ state' = [state EXCEPT ![ws] = "closing"]
          /\ UNCHANGED <<ws, attempts, timer, delay, should, connected>>

-----------------------------------------------------------------------------
(* Events                                                                  *)

Opened(s) ==
    /\ state[s] = "connecting"
    /\ state' = [state EXCEPT ![s] = "open"]
    /\ delay' = 1
    /\ connected' = TRUE
    /\ UNCHANGED <<ws, attempts, timer, should>>

\* A bug for the checks to find: reconnecting after disconnect().
ClosedAlwaysReconnect(s, failed) ==
    /\ state[s] \in {"connecting", "open", "closing"}
    /\ state' = [state EXCEPT ![s] = "closed"]
    /\ connected' = FALSE
    /\ timer' = TRUE
    /\ UNCHANGED <<ws, attempts, delay, should>>

\* A bug for the checks to find: no reconnect unless the pages were told of
\* a connection.
ClosedOnlyIfConnected(s, failed) ==
    /\ state[s] \in {"connecting", "open", "closing"}
    /\ state' = [state EXCEPT ![s] = "closed"]
    /\ connected' = FALSE
    /\ timer' = (timer \/ (should /\ connected))
    /\ UNCHANGED <<ws, attempts, delay, should>>

\* onclose; on a failure onerror first, which closes this.ws, whichever
\* socket it is that failed.
Closed(s, failed) ==
    LET other == failed /\ ws # s /\ Current \in {"open", "connecting"}
    IN  /\ state[s] \in {"connecting", "open", "closing"}
        /\ state' = [t \in Sockets |-> IF t = s THEN "closed"
                                       ELSE IF other /\ t = ws THEN "closing" ELSE state[t]]
        /\ connected' = FALSE
        /\ timer' = (timer \/ should)
        /\ UNCHANGED <<ws, attempts, delay, should>>

\* The timer of scheduleReconnect.
Timer ==
    /\ timer
    /\ delay' = IF 2 * delay <= MaxDelay THEN 2 * delay ELSE MaxDelay
    /\ DoConnect(ws, FALSE)
    /\ UNCHANGED <<should, connected>>

-----------------------------------------------------------------------------
Next ==
    \/ Connect \/ Disconnect \/ Wake \/ Timer
    \/ \E s \in Sockets : Opened(s)
    \/ \E s \in Sockets, failed \in BOOLEAN : Closed(s, failed)

Spec == Init /\ [][Next]_vars

\* Timers fire; an attempt to connect and a closing handshake end somehow.
Fairness ==
    /\ WF_vars(Timer)
    /\ \A s \in Sockets :
        WF_vars(Opened(s) \/ (state[s] # "open" /\ \E failed \in BOOLEAN : Closed(s, failed)))

FairSpec == Spec /\ Fairness

-----------------------------------------------------------------------------
\* Types; only the sockets of past attempts exist.
TypeOK ==
    /\ ws \in 0..attempts
    /\ state \in [Sockets -> {"new", "connecting", "open", "closing", "closed"}]
    /\ attempts \in 0..MaxAttempts
    /\ timer \in BOOLEAN /\ should \in BOOLEAN /\ connected \in BOOLEAN
    /\ delay \in 1..MaxDelay
    /\ \A s \in Sockets : s > attempts => state[s] = "new"
    /\ ws # 0 => state[ws] # "new"

\* After disconnect() nothing is scheduled, though close events of several
\* sockets are still to come.
NoTimerUnlessWanted == timer => should

\* A client that should be connected is never stranded: a socket that will
\* open or report its end, or the timer, always remains, whatever sequence of
\* closes, failures, wakes and timers went before.
NeverStranded == should => timer \/ Current \in {"connecting", "open", "closing"}

\* The pages are never told of a connection that is not there: when the last
\* open socket goes, by disconnect() or another's failure, they hear of it at
\* once, though its close event comes later.
ConnectedIsOpen == connected => \E s \in Sockets : state[s] = "open"

\* So it is connected at some time, unless the attempts run out.
Reconnects == should ~> ~should \/ Current = "open" \/ attempts = MaxAttempts
=============================================================================
