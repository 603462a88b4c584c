----------------------------- MODULE LobbyCalls -----------------------------
(***************************************************************************)
(* The public lobby and its call handshake, as the Go server runs them:    *)
(* server/internal/signaling/lobby_handlers.go over                        *)
(* server/internal/lobby/lobby.go.                                         *)
(*                                                                         *)
(* Every connection has a reader goroutine that runs one handler at a      *)
(* time; call timeouts and disconnect graces run in goroutines of their    *)
(* own.  Handlers take two mutexes, the hub's (Hub.mu) and the lobby's     *)
(* (lobby.Manager.mu), many times each, so handlers interleave at every    *)
(* acquisition: one action below is one critical section.  The first       *)
(* section of a handler is taken together with the receipt of its message. *)
(*                                                                         *)
(* The lobby lock is never held while waiting for the hub lock.  The hub   *)
(* lock is held across a call of broadcastToLobby in one place, where the  *)
(* broadcast waits for the lock its own goroutine holds: hubHung says that *)
(* this has happened, after which no section of Hub.mu is ever entered.    *)
(***************************************************************************)
EXTENDS Naturals, FiniteSets

CONSTANTS
    Clients,    \* client IDs, stable across the reconnects of a browser tab
    Conns,      \* WebSocket connections; each is opened and closed once
    IdOf,       \* the client ID a connection carries (the "id" URL parameter)
    NameOf,     \* the display name of a client
    MaxCalls,   \* bound: call requests per client
    MaxJoins,   \* bound: lobby_join messages per connection
    None

CallTimers == UNION {{"call"} \X {c} \X (1..MaxCalls[c]) : c \in Clients}
GraceTimers == {"grace"} \X Conns
Threads == Conns \cup CallTimers \cup GraceTimers

ASSUME ConstantsAssumption ==
    /\ IdOf \in [Conns -> Clients]
    /\ MaxCalls \in [Clients -> Nat]
    /\ MaxJoins \in Nat
    /\ None \notin Clients \cup Conns
    /\ Conns \cap (CallTimers \cup GraceTimers) = {}

VARIABLES
    status,        \* lobby.Manager.users: Status, "none" when not in the map
    disc,          \* Disconnected and DisconnectAt: the connection lost, or None
    lobbyClients,  \* Hub.lobbyClients: who receives lobby broadcasts
    clients,       \* Hub.clients: client ID -> connection
    unregistered,  \* connections the upgrade handler has still to Register
    pending,       \* Hub.pendingCalls: caller -> target
    hubHung,       \* Hub.mu is write-locked for ever
    thread,        \* per goroutine: program counter and locals
    joins,         \* lobby_join messages, per connection
    calls,         \* requests that passed the caller check, per caller
    starts,        \* call_start broadcasts, per caller
    heard          \* heard[t]: callers whose call_incoming reached t

lobbyVars == <<status, disc>>
clientVars == <<clients, unregistered>>
histVars == <<joins, calls, starts, heard>>
vars == <<status, disc, lobbyClients, clients, unregistered, pending, hubHung,
          thread, joins, calls, starts, heard>>

-----------------------------------------------------------------------------
Statuses == {"none", "available", "in_call", "offline"}

JoinPC == {"join_prune", "join_add", "join_register"}
LeavePC == {"leave_unlist", "leave_outgoing", "leave_incoming", "hung"}
RequestPC == {"call_check", "call_store", "call_busy", "call_ring"}
AcceptPC == {"accept_take", "accept_self", "accept_caller", "accept_start"}
DeclinePC == {"decline_take", "decline_free", "decline_notify"}
CancelPC == {"cancel_snapshot", "cancel_take", "cancel_free", "cancel_notify"}
ByePC == {"bye_mark", "bye_forget"}
TimerPC == {"call_sleep", "grace_sleep", "grace_offline", "grace_unlist"}
PC == {"off", "idle", "exit"} \cup JoinPC \cup LeavePC \cup RequestPC
        \cup AcceptPC \cup DeclinePC \cup CancelPC \cup ByePC \cup TimerPC

\* Locals of a goroutine.  "ret" is where cancelPendingCall returns to, "n"
\* numbers the call request.
Locals == [pc : PC, caller : Clients \cup {None}, target : Clients \cup {None},
           n : Nat, ret : {"idle", "exit", "leave_incoming"}]

Start(pc) == [pc |-> pc, caller |-> None, target |-> None, n |-> 0, ret |-> "idle"]

At(t, pc) == thread[t].pc = pc
Goto(t, pc) ==
    thread' = [thread EXCEPT ![t] =
        IF pc \in {"idle", "exit"} THEN Start(pc) ELSE [@ EXCEPT !.pc = pc]]
Enter(t, pc, c, u) ==
    thread' = [thread EXCEPT ![t] = [Start(pc) EXCEPT !.caller = c, !.target = u]]

\* Hub.mu can be acquired (for reading or writing).
HubLock == ~hubHung

InLobby(c) == status[c] # "none"

\* lobby.Manager.SetStatus: nothing happens for a client that is not a user.
SetStatus(c, s) ==
    status' = [status EXCEPT ![c] = IF InLobby(c) THEN s ELSE @]

Init ==
    /\ status = [c \in Clients |-> "none"]
    /\ disc = [c \in Clients |-> None]
    /\ lobbyClients = {}
    /\ clients = [c \in Clients |-> None]
    /\ unregistered = Conns
    /\ pending = [c \in Clients |-> None]
    /\ hubHung = FALSE
    /\ thread = [t \in Threads |-> Start("off")]
    /\ joins = [k \in Conns |-> 0]
    /\ calls = [c \in Clients |-> 0]
    /\ starts = [c \in Clients |-> 0]
    /\ heard = [c \in Clients |-> {}]

-----------------------------------------------------------------------------
(* Connections: the upgrade handler starts the reader and then registers   *)
(* the client; readPump ends with HandleDisconnect, which acts on the      *)
(* client ID alone.                                                        *)

NewClient(k) ==
    /\ At(k, "off")
    /\ Goto(k, "idle")
    /\ UNCHANGED <<lobbyVars, lobbyClients, clientVars, pending, hubHung, histVars>>

\* The reader may have handled messages by then, or have ended.
Register(k) ==
    /\ k \in unregistered /\ ~At(k, "off") /\ HubLock
    /\ clients' = [clients EXCEPT ![IdOf[k]] = k]
    /\ unregistered' = unregistered \ {k}
    /\ UNCHANGED <<lobbyVars, lobbyClients, pending, hubHung, thread, histVars>>

\* handleLobbyDisconnect reads lobbyClients; the reader reads nothing more.
Disconnect(k) ==
    /\ At(k, "idle") /\ HubLock
    /\ Goto(k, IF IdOf[k] \in lobbyClients THEN "bye_mark" ELSE "bye_forget")
    /\ UNCHANGED <<lobbyVars, lobbyClients, clientVars, pending, hubHung, histVars>>

\* lobby.MarkDisconnected, then the grace goroutine is spawned.
ByeMark(k) ==
    /\ At(k, "bye_mark")
    /\ disc' = [disc EXCEPT ![IdOf[k]] = IF InLobby(IdOf[k]) THEN k ELSE @]
    /\ thread' = [thread EXCEPT ![k].pc = "bye_forget",
                                ![<<"grace", k>>] = Start("grace_sleep")]
    /\ UNCHANGED <<status, lobbyClients, clientVars, pending, hubHung, histVars>>

ByeForget(k) ==
    /\ At(k, "bye_forget") /\ HubLock
    /\ clients' = [clients EXCEPT ![IdOf[k]] = None]
    /\ Goto(k, "exit")
    /\ UNCHANGED <<lobbyVars, lobbyClients, unregistered, pending, hubHung, histVars>>

-----------------------------------------------------------------------------
(* lobby_join: evict the namesakes, prune lobbyClients, add, register.     *)

LobbyJoin(k) ==
    LET namesakes == {c \in Clients : c # IdOf[k] /\ NameOf[c] = NameOf[IdOf[k]]}
    IN  /\ At(k, "idle") /\ joins[k] < MaxJoins
        /\ joins' = [joins EXCEPT ![k] = @ + 1]
        /\ status' = [c \in Clients |-> IF c \in namesakes THEN "none" ELSE status[c]]
        /\ disc' = [c \in Clients |-> IF c \in namesakes THEN None ELSE disc[c]]
        /\ Enter(k, "join_prune", None, None)
        /\ UNCHANGED <<lobbyClients, clientVars, pending, hubHung, calls, starts, heard>>

JoinPrune(k) ==
    /\ At(k, "join_prune") /\ HubLock
    /\ lobbyClients' = {c \in lobbyClients : InLobby(c) \/ c = IdOf[k]}
    /\ Goto(k, "join_add")
    /\ UNCHANGED <<lobbyVars, clientVars, pending, hubHung, histVars>>

\* A fresh LobbyUser replaces whatever was stored: available, connected.
JoinAdd(k) ==
    /\ At(k, "join_add")
    /\ status' = [status EXCEPT ![IdOf[k]] = "available"]
    /\ disc' = [disc EXCEPT ![IdOf[k]] = None]
    /\ Goto(k, "join_register")
    /\ UNCHANGED <<lobbyClients, clientVars, pending, hubHung, histVars>>

JoinRegister(k) ==
    /\ At(k, "join_register") /\ HubLock
    /\ lobbyClients' = lobbyClients \cup {IdOf[k]}
    /\ Goto(k, "idle")
    /\ UNCHANGED <<lobbyVars, clientVars, pending, hubHung, histVars>>

-----------------------------------------------------------------------------
(* lobby_leave: removeLobbyClient.                                         *)

LobbyLeave(k) ==
    /\ At(k, "idle") /\ InLobby(IdOf[k])
    /\ status' = [status EXCEPT ![IdOf[k]] = "none"]
    /\ disc' = [disc EXCEPT ![IdOf[k]] = None]
    /\ Enter(k, "leave_unlist", None, None)
    /\ UNCHANGED <<lobbyClients, clientVars, pending, hubHung, histVars>>

LeaveUnlist(k) ==
    /\ At(k, "leave_unlist") /\ HubLock
    /\ lobbyClients' = lobbyClients \ {IdOf[k]}
    /\ Goto(k, "leave_outgoing")
    /\ UNCHANGED <<lobbyVars, clientVars, pending, hubHung, histVars>>

\* The leaver's own call, when there is one, is cancelled first.
LeaveOutgoing(k) ==
    LET id == IdOf[k] IN
    /\ At(k, "leave_outgoing") /\ HubLock
    /\ IF pending[id] = None
       THEN Goto(k, "leave_incoming")
       ELSE thread' = [thread EXCEPT ![k] =
                [Start("cancel_snapshot") EXCEPT !.caller = id, !.target = pending[id],
                                                 !.ret = "leave_incoming"]]
    /\ UNCHANGED <<lobbyVars, lobbyClients, clientVars, pending, hubHung, histVars>>

\* Calls to the leaver are dropped with the hub write-locked.  A caller who
\* is still in the lobby is announced by broadcastToLobby, which read-locks
\* the same mutex and never returns; the map is walked in any order, so the
\* entries of absent callers may or may not have been handled before that.
LeaveIncoming(k) ==
    LET ringing == {c \in Clients : pending[c] = IdOf[k]}
        absent == {c \in ringing : ~InLobby(c)}
        Drop(S) == pending' = [c \in Clients |-> IF c \in S THEN None ELSE pending[c]]
    IN  /\ At(k, "leave_incoming") /\ HubLock
        /\ \/ /\ ringing = absent
              /\ Drop(ringing)
              /\ Goto(k, "idle")
              /\ UNCHANGED <<status, hubHung>>
           \/ \E c \in ringing \ absent, S \in SUBSET absent :
              /\ Drop(S \cup {c})
              /\ SetStatus(c, "available")
              /\ hubHung' = TRUE
              /\ Goto(k, "hung")
        /\ UNCHANGED <<disc, lobbyClients, clientVars, histVars>>

-----------------------------------------------------------------------------
(* call_request: both checks read the lobby, the entry is stored, the      *)
(* caller is set in_call, the target rung and the timeout spawned.  No     *)
(* browser has its own user in its list (handleLobbyJoin).                 *)

CallRequest(k, u) ==
    LET id == IdOf[k] IN
    /\ At(k, "idle") /\ u # id
    /\ status[id] = "available"
    /\ calls[id] < MaxCalls[id]
    /\ calls' = [calls EXCEPT ![id] = @ + 1]
    /\ thread' = [thread EXCEPT ![k] =
            [Start("call_check") EXCEPT !.caller = id, !.target = u, !.n = calls[id] + 1]]
    /\ UNCHANGED <<lobbyVars, lobbyClients, clientVars, pending, hubHung, joins, starts, heard>>

CallCheck(k) ==
    /\ At(k, "call_check")
    /\ Goto(k, IF status[thread[k].target] = "available" THEN "call_store" ELSE "idle")
    /\ UNCHANGED <<lobbyVars, lobbyClients, clientVars, pending, hubHung, histVars>>

CallStore(k) ==
    /\ At(k, "call_store") /\ HubLock
    /\ pending' = [pending EXCEPT ![IdOf[k]] = thread[k].target]
    /\ Goto(k, "call_busy")
    /\ UNCHANGED <<lobbyVars, lobbyClients, clientVars, hubHung, histVars>>

CallBusy(k) ==
    /\ At(k, "call_busy")
    /\ SetStatus(IdOf[k], "in_call")
    /\ Goto(k, "call_ring")
    /\ UNCHANGED <<disc, lobbyClients, clientVars, pending, hubHung, histVars>>

\* A bug for the checks to find: the timeout is spawned only when the target
\* could be rung.
CallRingConnected(k) ==
    LET c == IdOf[k]
        u == thread[k].target
    IN  /\ At(k, "call_ring") /\ HubLock
        /\ heard' = [heard EXCEPT ![u] = IF clients[u] # None THEN @ \cup {c} ELSE @]
        /\ thread' = IF clients[u] = None THEN [thread EXCEPT ![k] = Start("idle")]
                     ELSE [thread EXCEPT ![k] = Start("idle"),
                ![<<"call", c, thread[k].n>>] =
                    [Start("call_sleep") EXCEPT !.caller = c, !.target = u, !.ret = "exit"]]
        /\ UNCHANGED <<lobbyVars, lobbyClients, clientVars, pending, hubHung, joins, calls, starts>>

CallRing(k) ==
    LET c == IdOf[k]
        u == thread[k].target
    IN  /\ At(k, "call_ring") /\ HubLock
        /\ heard' = [heard EXCEPT ![u] = IF clients[u] # None THEN @ \cup {c} ELSE @]
        /\ thread' = [thread EXCEPT ![k] = Start("idle"),
                ![<<"call", c, thread[k].n>>] =
                    [Start("call_sleep") EXCEPT !.caller = c, !.target = u, !.ret = "exit"]]
        /\ UNCHANGED <<lobbyVars, lobbyClients, clientVars, pending, hubHung, joins, calls, starts>>

-----------------------------------------------------------------------------
(* call_accept, call_decline: the target answers a call_incoming it heard, *)
(* possibly long after; a request that is no longer pending is refused.    *)

Answers(k, c) ==
    /\ At(k, "idle") /\ HubLock
    /\ c \in heard[IdOf[k]]
    /\ pending[c] = IdOf[k]

CallAccept(k, c) ==
    /\ Answers(k, c)
    /\ Enter(k, "accept_take", c, IdOf[k])
    /\ UNCHANGED <<lobbyVars, lobbyClients, clientVars, pending, hubHung, histVars>>

Take(k, pc) ==
    /\ HubLock
    /\ pending' = [pending EXCEPT ![thread[k].caller] = None]
    /\ Goto(k, pc)
    /\ UNCHANGED <<lobbyVars, lobbyClients, clientVars, hubHung, histVars>>

\* A bug for the checks to find: an accepted call stays pending.
AcceptKeep(k) ==
    /\ At(k, "accept_take") /\ HubLock
    /\ Goto(k, "accept_self")
    /\ UNCHANGED <<lobbyVars, lobbyClients, clientVars, pending, hubHung, histVars>>

AcceptTake(k) == At(k, "accept_take") /\ Take(k, "accept_self")

AcceptSelf(k) ==
    /\ At(k, "accept_self")
    /\ SetStatus(thread[k].target, "in_call")
    /\ Goto(k, "accept_caller")
    /\ UNCHANGED <<disc, lobbyClients, clientVars, pending, hubHung, histVars>>

AcceptCaller(k) ==
    /\ At(k, "accept_caller")
    /\ SetStatus(thread[k].caller, "in_call")
    /\ Goto(k, "accept_start")
    /\ UNCHANGED <<disc, lobbyClients, clientVars, pending, hubHung, histVars>>

\* A room is created and call_start sent to both sides.
AcceptStart(k) ==
    /\ At(k, "accept_start") /\ HubLock
    /\ starts' = [starts EXCEPT ![thread[k].caller] = @ + 1]
    /\ Goto(k, "idle")
    /\ UNCHANGED <<lobbyVars, lobbyClients, clientVars, pending, hubHung, joins, calls, heard>>

CallDecline(k, c) ==
    /\ Answers(k, c)
    /\ Enter(k, "decline_take", c, IdOf[k])
    /\ UNCHANGED <<lobbyVars, lobbyClients, clientVars, pending, hubHung, histVars>>

DeclineTake(k) == At(k, "decline_take") /\ Take(k, "decline_free")

DeclineFree(k) ==
    /\ At(k, "decline_free")
    /\ SetStatus(thread[k].caller, "available")
    /\ Goto(k, "decline_notify")
    /\ UNCHANGED <<disc, lobbyClients, clientVars, pending, hubHung, histVars>>

DeclineNotify(k) ==
    /\ At(k, "decline_notify") /\ HubLock
    /\ Goto(k, "idle")
    /\ UNCHANGED <<lobbyVars, lobbyClients, clientVars, pending, hubHung, histVars>>

-----------------------------------------------------------------------------
(* call_cancel and the 30 s timeout: the entry is read, then               *)
(* cancelPendingCall runs with what was read.                              *)

CallCancel(k) ==
    LET id == IdOf[k] IN
    /\ At(k, "idle") /\ HubLock
    /\ pending[id] # None
    /\ Enter(k, "cancel_snapshot", id, pending[id])
    /\ UNCHANGED <<lobbyVars, lobbyClients, clientVars, pending, hubHung, histVars>>

CallTimeout(t) ==
    /\ t \in CallTimers /\ At(t, "call_sleep") /\ HubLock
    /\ Goto(t, IF pending[thread[t].caller] = thread[t].target
               THEN "cancel_snapshot" ELSE "exit")
    /\ UNCHANGED <<lobbyVars, lobbyClients, clientVars, pending, hubHung, histVars>>

\* cancelPendingCall reads the caller's name, and a caller who is leaving has
\* none any more; then it ends the call.
CancelSnapshot(t) ==
    /\ At(t, "cancel_snapshot")
    /\ Goto(t, "cancel_take")
    /\ UNCHANGED <<lobbyVars, lobbyClients, clientVars, pending, hubHung, histVars>>

CancelTake(t) == At(t, "cancel_take") /\ Take(t, "cancel_free")

CancelFree(t) ==
    /\ At(t, "cancel_free")
    /\ SetStatus(thread[t].caller, "available")
    /\ Goto(t, "cancel_notify")
    /\ UNCHANGED <<disc, lobbyClients, clientVars, pending, hubHung, histVars>>

CancelNotify(t) ==
    /\ At(t, "cancel_notify") /\ HubLock
    /\ Goto(t, thread[t].ret)
    /\ UNCHANGED <<lobbyVars, lobbyClients, clientVars, pending, hubHung, histVars>>

-----------------------------------------------------------------------------
(* The grace goroutine of a lost connection, and the sweep of old entries. *)

\* A bug for the checks to find: users in a call are spared.
GraceCheckIdle(k) ==
    LET t == <<"grace", k>> IN
    /\ At(t, "grace_sleep")
    /\ Goto(t, IF status[IdOf[k]] = "available" /\ disc[IdOf[k]] # None
               THEN "grace_offline" ELSE "exit")
    /\ UNCHANGED <<lobbyVars, lobbyClients, clientVars, pending, hubHung, histVars>>

GraceCheck(k) ==
    LET t == <<"grace", k>> IN
    /\ At(t, "grace_sleep")
    /\ Goto(t, IF InLobby(IdOf[k]) /\ disc[IdOf[k]] # None
               THEN "grace_offline" ELSE "exit")
    /\ UNCHANGED <<lobbyVars, lobbyClients, clientVars, pending, hubHung, histVars>>

\* lobby.MarkOffline
GraceOffline(k) ==
    LET t == <<"grace", k>> IN
    /\ At(t, "grace_offline")
    /\ SetStatus(IdOf[k], "offline")
    /\ disc' = [disc EXCEPT ![IdOf[k]] = None]
    /\ Goto(t, "grace_unlist")
    /\ UNCHANGED <<lobbyClients, clientVars, pending, hubHung, histVars>>

GraceUnlist(k) ==
    LET t == <<"grace", k>> IN
    /\ At(t, "grace_unlist") /\ HubLock
    /\ lobbyClients' = lobbyClients \ {IdOf[k]}
    /\ Goto(t, "exit")
    /\ UNCHANGED <<lobbyVars, clientVars, pending, hubHung, histVars>>

\* lobby.CleanupOffline: the ages are left open, any offline users may go.
CleanupOffline ==
    \E S \in SUBSET {c \in Clients : status[c] = "offline"} :
        /\ S # {}
        /\ status' = [c \in Clients |-> IF c \in S THEN "none" ELSE status[c]]
        /\ disc' = [c \in Clients |-> IF c \in S THEN None ELSE disc[c]]
        /\ UNCHANGED <<lobbyClients, clientVars, pending, hubHung, thread, histVars>>

-----------------------------------------------------------------------------
\* What browsers do: connect, send a message, go away.
Browser ==
    \E k \in Conns :
        \/ NewClient(k) \/ Disconnect(k) \/ LobbyJoin(k) \/ LobbyLeave(k) \/ CallCancel(k)
        \/ \E c \in Clients : CallRequest(k, c) \/ CallAccept(k, c) \/ CallDecline(k, c)

\* The next critical section of a handler that is under way.
Handler(k) ==
    \/ ByeMark(k) \/ ByeForget(k)
    \/ JoinPrune(k) \/ JoinAdd(k) \/ JoinRegister(k)
    \/ LeaveUnlist(k) \/ LeaveOutgoing(k) \/ LeaveIncoming(k)
    \/ CallCheck(k) \/ CallStore(k) \/ CallBusy(k) \/ CallRing(k)
    \/ AcceptTake(k) \/ AcceptSelf(k) \/ AcceptCaller(k) \/ AcceptStart(k)
    \/ DeclineTake(k) \/ DeclineFree(k) \/ DeclineNotify(k)

\* cancelPendingCall, on behalf of a handler or of a timer.
Cancel(t) == CancelSnapshot(t) \/ CancelTake(t) \/ CancelFree(t) \/ CancelNotify(t)

Grace(k) == GraceCheck(k) \/ GraceOffline(k) \/ GraceUnlist(k)

Next ==
    \/ Browser
    \/ \E k \in Conns : Register(k) \/ Handler(k) \/ Grace(k)
    \/ \E t \in Threads : Cancel(t)
    \/ \E t \in CallTimers : CallTimeout(t)
    \/ CleanupOffline

Spec == Init /\ [][Next]_vars

\* The Go scheduler runs every runnable goroutine and every sleep ends, one
\* condition for each goroutine; nothing is assumed of browsers or of the
\* offline sweep.
Fairness ==
    /\ \A k \in Conns : WF_vars(Handler(k) \/ Cancel(k)) /\ WF_vars(Grace(k))
    /\ \A t \in CallTimers : WF_vars(CallTimeout(t) \/ Cancel(t))

FairSpec == Spec /\ Fairness

-----------------------------------------------------------------------------
\* The type of every variable; and a client outside the lobby is not "disconnected"
\* (LobbyUser carries the flag).
TypeOK ==
    /\ status \in [Clients -> Statuses]
    /\ disc \in [Clients -> Conns \cup {None}]
    /\ lobbyClients \subseteq Clients
    /\ clients \in [Clients -> Conns \cup {None}] /\ unregistered \subseteq Conns
    /\ pending \in [Clients -> Clients \cup {None}]
    /\ hubHung \in BOOLEAN
    /\ thread \in [Threads -> Locals]
    /\ joins \in [Conns -> Nat]
    /\ calls \in [Clients -> Nat]
    /\ starts \in [Clients -> Nat]
    /\ heard \in [Clients -> SUBSET Clients]
    /\ \A c \in Clients : disc[c] # None => InLobby(c)

\* Goroutine t still has to look at the pending call c -> u: its request is
\* about to spawn the timeout, or its timeout has not passed the entry over.
WatchesCall(t, c, u) ==
    /\ thread[t].caller = c /\ thread[t].target = u
    /\ \/ t \in Conns /\ thread[t].pc \in {"call_busy", "call_ring"}
       \/ t \in CallTimers /\ thread[t].pc \in {"call_sleep", "cancel_snapshot", "cancel_take"}

\* No pending call is forgotten: however requests, answers, cancels, leaves,
\* reconnects and timeouts of one caller interleave, an entry of pendingCalls
\* always has a goroutine that will time it out (handleCallRequest).
PendingHasTimer ==
    \A c \in Clients : pending[c] # None => \E t \in Threads : WatchesCall(t, c, pending[c])

\* No user is left in the limbo of the grace period, hidden by List and
\* neither online nor offline: the goroutine of the last disconnection is
\* still to run its check (handleLobbyDisconnect).
DisconnectedHasGrace ==
    \A c \in Clients : disc[c] # None =>
        thread[<<"grace", disc[c]>>].pc \in {"grace_sleep", "grace_offline"}

\* A request is accepted at most once: two answers, a late answer to an
\* older request and a cancel never make two rooms out of one call_request
\* (handleCallAccept), as long as a client has one connection.
OneStartPerCall == \A c \in Clients : starts[c] <= calls[c]

\* Every pending call is over at some time, by an answer, a cancel, a leave
\* or the timeout, unless the hub lock is lost.
PendingResolved ==
    \A c \in {d \in Clients : MaxCalls[d] > 0} : \A u \in Clients \ {c} :
        pending[c] = u ~> pending[c] # u \/ hubHung

-----------------------------------------------------------------------------
(* What comments and documents say of the code, and interleavings refute.  *)

\* docs/PLAN.md: the hub's lock makes the routing of all messages thread-safe.
\* removeLobbyClient broadcasts while it holds that lock.
HubNeverHangs == ~hubHung
=============================================================================
