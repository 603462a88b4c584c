------------------------------ MODULE CallClient ------------------------------
(***************************************************************************)
(* The call state of the browsers in the lobby, frontend/src/hooks/        *)
(* useCall.ts and useLobby.ts on PublicLobbyPage.tsx, at the two ends of   *)
(* one lobby server.                                                       *)
(*                                                                         *)
(* A browser runs one callback at a time: a button, a message or a timer   *)
(* is one action.  A connection is a FIFO queue in each direction and      *)
(* loses both when it goes down.  A handler of lobby_handlers.go that ends *)
(* a call is two actions, as the code looks the call up under one lock and *)
(* deletes its entry under a later one; the other steps of the handlers    *)
(* interleave in LobbyCalls.                                               *)
(*                                                                         *)
(* Messages name the caller and never the call.  The number that a message *)
(* carries here, its place in "calls", is for the properties; no guard of  *)
(* a browser or of the server reads it.                                    *)
(***************************************************************************)
EXTENDS Naturals, Sequences, FiniteSets

CONSTANTS
    Clients,     \* browsers, by client ID; their names are distinct
    Budgets,     \* bounds, one of which a behaviour keeps to: the buttons pressed by
                 \* all together, who may call whom, who may lose the connection once
    None

ASSUME CallClientAssumption ==
    /\ Budgets \subseteq [clicks : Nat, calling : SUBSET (Clients \X Clients),
                          losing : SUBSET Clients]
    /\ None \notin Clients

\* None is no number of a call.
ASSUME NoneAssumption == None \notin Nat

VARIABLES
    \* The server
    status, disc,      \* lobby.Manager: Status ("none" if absent), Disconnected
    pending,           \* Hub.pendingCalls: caller -> target
    timeouts,          \* calls whose 30 s goroutine sleeps
    hubHung,           \* Hub.mu is write-locked for ever (see LobbyCalls)
    jobs,              \* goroutines between the look at an entry and its deletion
    raced,             \* history: calls that two jobs had found at the same time
    \* The wire
    link,              \* the connection of a browser
    toServer, toClient,
    \* The browsers
    page,              \* the page a browser shows
    callState,         \* useCall: callState
    shown,             \* useCall: incomingCaller, by the call it came from
    callerRef,         \* useCall: incomingCallerRef
    timer,             \* useCall: autoDeclineTimer, None or the call it is for
    timers,            \* 30 s auto-decline timers that run
    missed,            \* useCall: calls with an entry in missedCalls
    room,              \* useCall: targetRoomCode, by the call it was made for
    \* History and bounds
    calls,             \* accepted requests: who called whom, in order
    rung,              \* calls whose call_incoming a lobby page has heard
    answered,          \* calls accepted by a person
    declined,          \* calls declined by a person
    budget, clicks,    \* the bounds kept to; buttons pressed
    lost               \* browsers whose connection was lost

serverVars == <<status, disc, pending, timeouts, hubHung, jobs, raced>>
wireVars == <<link, toServer, toClient>>
screenVars == <<callState, shown, callerRef, timer, timers, missed, room>>
histVars == <<calls, rung, answered, declined, budget, clicks, lost>>
vars == <<serverVars, wireVars, page, screenVars, histVars>>

-----------------------------------------------------------------------------
CallIds == 1..Len(calls)
From(k) == calls[k].from
To(k) == calls[k].to

\* The call behind the pending entry of c: the last one c made.
Latest(c) == CHOOSE k \in CallIds : From(k) = c /\ \A j \in CallIds : From(j) = c => j <= k

InLobby(c) == status[c] # "none"

\* lobby.Manager.SetStatus, for each of a set of users.
SetStatus(S, s) == [c \in Clients |-> IF c \in S /\ InLobby(c) THEN s ELSE status[c]]

Request(type, c) == [type |-> type, client |-> c]
Event(type, k) == [type |-> type, call |-> k, named |-> TRUE]

\* wsClient.send: a message is dropped without a word when the socket is down.
Send(c, m) ==
    toServer' = [toServer EXCEPT ![c] = IF link[c] = "up" THEN Append(@, m) ELSE @]

\* client.Send to the browsers that have a connection, msgs[c] to browser c.
Push(msgs) ==
    toClient' = [c \in Clients |-> IF link[c] = "up" /\ c \in DOMAIN msgs
                                   THEN Append(toClient[c], msgs[c]) ELSE toClient[c]]

Init ==
    /\ status = [c \in Clients |-> "available"]
    /\ disc = [c \in Clients |-> FALSE]
    /\ pending = [c \in Clients |-> None]
    /\ timeouts = {}
    /\ hubHung = FALSE
    /\ jobs = {}
    /\ raced = {}
    /\ link = [c \in Clients |-> "up"]
    /\ toServer = [c \in Clients |-> <<>>]
    /\ toClient = [c \in Clients |-> <<>>]
    /\ page = [c \in Clients |-> "lobby"]
    /\ callState = [c \in Clients |-> "idle"]
    /\ shown = [c \in Clients |-> None]
    /\ callerRef = [c \in Clients |-> None]
    /\ timer = [c \in Clients |-> None]
    /\ timers = [c \in Clients |-> {}]
    /\ missed = [c \in Clients |-> {}]
    /\ room = [c \in Clients |-> None]
    /\ calls = <<>>
    /\ rung = {}
    /\ answered = {}
    /\ declined = {}
    /\ budget \in Budgets
    /\ clicks = 0
    /\ lost = {}

-----------------------------------------------------------------------------
(* Buttons of the lobby page.  The overlays of an outgoing and an incoming *)
(* call cover the page, and the pre-call screen replaces it.               *)

Click(c) ==
    /\ page[c] = "lobby" /\ clicks < budget.clicks
    /\ clicks' = clicks + 1
    /\ UNCHANGED budget

PreCall(c) == room[c] # None

\* clearTimeout(autoDeclineTimer): only the timer the reference still holds.
ClearTimer(c) ==
    /\ timers' = [timers EXCEPT ![c] = @ \ {timer[c]}]
    /\ timer' = [timer EXCEPT ![c] = None]

CallUser(c, u) ==
    /\ Click(c) /\ u # c /\ <<c, u>> \in budget.calling
    /\ callState[c] = "idle" /\ ~PreCall(c)
    /\ Send(c, Request("call_request", u))
    /\ callState' = [callState EXCEPT ![c] = "calling"]
    /\ UNCHANGED <<serverVars, link, toClient, page, shown, callerRef, timer, timers,
                   missed, room, calls, rung, answered, declined, lost>>

CancelCall(c) ==
    /\ Click(c)
    /\ callState[c] = "calling" /\ ~PreCall(c)
    /\ Send(c, Request("call_cancel", None))
    /\ callState' = [callState EXCEPT ![c] = "idle"]
    /\ UNCHANGED <<serverVars, link, toClient, page, shown, callerRef, timer, timers,
                   missed, room, calls, rung, answered, declined, lost>>

ModalOpen(c) == callState[c] = "incoming" /\ shown[c] # None /\ ~PreCall(c)

\* A bug for the checks to find: the timer of an accepted call runs on.
AcceptKeepsTimer(c) ==
    /\ Click(c) /\ ModalOpen(c)
    /\ Send(c, Request("call_accept", From(shown[c])))
    /\ callerRef' = [callerRef EXCEPT ![c] = None]
    /\ answered' = answered \cup {shown[c]}
    /\ UNCHANGED <<serverVars, link, toClient, page, callState, shown, timer, timers,
                   missed, room, calls, rung, declined, lost>>

\* The modal stays open until the server answers.
AcceptCall(c) ==
    /\ Click(c) /\ ModalOpen(c)
    /\ Send(c, Request("call_accept", From(shown[c])))
    /\ callerRef' = [callerRef EXCEPT ![c] = None]
    /\ ClearTimer(c)
    /\ answered' = answered \cup {shown[c]}
    /\ UNCHANGED <<serverVars, link, toClient, page, callState, shown,
                   missed, room, calls, rung, declined, lost>>

DeclineCall(c) ==
    /\ Click(c) /\ ModalOpen(c)
    /\ Send(c, Request("call_decline", From(shown[c])))
    /\ callState' = [callState EXCEPT ![c] = "idle"]
    /\ shown' = [shown EXCEPT ![c] = None]
    /\ callerRef' = [callerRef EXCEPT ![c] = None]
    /\ ClearTimer(c)
    /\ declined' = declined \cup {shown[c]}
    /\ UNCHANGED <<serverVars, link, toClient, page, missed, room, calls, rung, answered, lost>>

\* Saving the profile joins the lobby again.
SaveProfile(c) ==
    /\ Click(c)
    /\ callState[c] = "idle" /\ ~PreCall(c) /\ link[c] = "up"
    /\ Send(c, Request("lobby_join", None))
    /\ UNCHANGED <<serverVars, link, toClient, page, screenVars, calls, rung, answered,
                   declined, lost>>

\* leaveLobby and disconnect; the page goes, and its effects clear the timer.
LeaveLobby(c) ==
    /\ Click(c)
    /\ callState[c] = "idle" /\ ~PreCall(c)
    /\ Send(c, Request("lobby_leave", None))
    /\ page' = [page EXCEPT ![c] = "left"]
    /\ ClearTimer(c)
    /\ UNCHANGED <<serverVars, link, toClient, callState, shown, callerRef, missed, room,
                   calls, rung, answered, declined, lost>>

\* The button of the pre-call screen opens the room; the connection stays.
JoinCall(c) ==
    /\ Click(c) /\ PreCall(c)
    /\ page' = [page EXCEPT ![c] = "room"]
    /\ ClearTimer(c)
    /\ UNCHANGED <<serverVars, wireVars, callState, shown, callerRef, missed, room,
                   calls, rung, answered, declined, lost>>

-----------------------------------------------------------------------------
(* The auto-decline timer, and the messages of the server.  After the page *)
(* has gone nobody listens, and an entry can no longer be stored.          *)

Book(c, k) ==
    missed' = [missed EXCEPT ![c] = IF page[c] = "lobby" /\ k # None THEN @ \cup {k} ELSE @]

CloseModal(c) ==
    /\ callState' = [callState EXCEPT ![c] = "idle"]
    /\ shown' = [shown EXCEPT ![c] = None]
    /\ callerRef' = [callerRef EXCEPT ![c] = None]

AutoDecline(c, k) ==
    /\ k \in timers[c]
    /\ timers' = [timers EXCEPT ![c] = @ \ {k}]
    /\ Send(c, Request("call_decline", From(k)))
    /\ Book(c, k)
    /\ CloseModal(c)
    /\ UNCHANGED <<serverVars, link, toClient, page, timer, room, histVars>>

Hear(c, type) ==
    /\ link[c] = "up" /\ toClient[c] # <<>>
    /\ page[c] = "lobby" /\ Head(toClient[c]).type = type
    /\ toClient' = [toClient EXCEPT ![c] = Tail(@)]
    /\ UNCHANGED <<serverVars, link, toServer, page, calls, answered, declined, budget, clicks, lost>>

\* A ring replaces the one before it, on the screen and in the reference.
OnIncoming(c) ==
    LET k == Head(toClient[c]).call IN
    /\ Hear(c, "call_incoming")
    /\ callState' = [callState EXCEPT ![c] = "incoming"]
    /\ shown' = [shown EXCEPT ![c] = k]
    /\ callerRef' = [callerRef EXCEPT ![c] = k]
    /\ timer' = [timer EXCEPT ![c] = k]
    /\ timers' = [timers EXCEPT ![c] = @ \cup {k}]
    /\ rung' = rung \cup {k}
    /\ UNCHANGED <<missed, room>>

OnDeclined(c) ==
    /\ Hear(c, "call_declined")
    /\ callState' = [callState EXCEPT ![c] = "idle"]
    /\ UNCHANGED <<shown, callerRef, timer, timers, missed, room, rung>>

\* Two bugs for the checks to find: the reference outlives the cancelled call;
\* and the names in the message are not used.
CancelledKeepsRef(c) ==
    LET m == Head(toClient[c]) IN
    /\ Hear(c, "call_cancelled")
    /\ Book(c, IF callerRef[c] # None THEN callerRef[c] ELSE IF m.named THEN m.call ELSE None)
    /\ callState' = [callState EXCEPT ![c] = "idle"]
    /\ shown' = [shown EXCEPT ![c] = None]
    /\ ClearTimer(c)
    /\ UNCHANGED <<callerRef, room, rung>>

CancelledByRef(c) ==
    /\ Hear(c, "call_cancelled")
    /\ Book(c, callerRef[c])
    /\ CloseModal(c)
    /\ ClearTimer(c)
    /\ UNCHANGED <<room, rung>>

\* The entry is for the caller of the reference, else for the one the message
\* names, else there is none.
OnCancelled(c) ==
    LET m == Head(toClient[c]) IN
    /\ Hear(c, "call_cancelled")
    /\ Book(c, IF callerRef[c] # None THEN callerRef[c] ELSE IF m.named THEN m.call ELSE None)
    /\ CloseModal(c)
    /\ ClearTimer(c)
    /\ UNCHANGED <<room, rung>>

\* A bug for the checks to find: a browser that does not call and is not
\* called takes no call_start.
StartIfExpected(c) ==
    /\ Hear(c, "call_start")
    /\ IF callState[c] \in {"calling", "incoming"}
       THEN /\ room' = [room EXCEPT ![c] = Head(toClient[c]).call]
            /\ callState' = [callState EXCEPT ![c] = "accepted"]
       ELSE UNCHANGED <<room, callState>>
    /\ UNCHANGED <<shown, callerRef, timer, timers, missed, rung>>

\* Obeyed in every state.
OnStart(c) ==
    /\ Hear(c, "call_start")
    /\ room' = [room EXCEPT ![c] = Head(toClient[c]).call]
    /\ callState' = [callState EXCEPT ![c] = "accepted"]
    /\ UNCHANGED <<shown, callerRef, timer, timers, missed, rung>>

\* useCall does not listen to errors.
OnError(c) ==
    /\ Hear(c, "error")
    /\ UNCHANGED <<screenVars, rung>>

-----------------------------------------------------------------------------
(* The server.  The reader of a connection runs one handler at a time.     *)

Busy(b) == \E j \in jobs : j.by = b

Handle(c, type) ==
    /\ ~hubHung /\ link[c] = "up" /\ toServer[c] # <<>> /\ ~Busy(c)
    /\ Head(toServer[c]).type = type
    /\ toServer' = [toServer EXCEPT ![c] = Tail(@)]
    /\ UNCHANGED <<page, screenVars, rung, answered, declined, budget, clicks, lost>>

HandleLobbyJoin(c) ==
    /\ Handle(c, "lobby_join")
    /\ status' = [status EXCEPT ![c] = "available"]
    /\ disc' = [disc EXCEPT ![c] = FALSE]
    /\ UNCHANGED <<pending, timeouts, hubHung, jobs, raced, link, toClient, calls>>

HandleCallRequest(c) ==
    LET u == Head(toServer[c]).client
        k == Len(calls) + 1
    IN  /\ Handle(c, "call_request")
        /\ IF status[c] = "available" /\ status[u] = "available"
           THEN /\ calls' = Append(calls, [from |-> c, to |-> u])
                /\ pending' = [pending EXCEPT ![c] = u]
                /\ status' = SetStatus({c}, "in_call")
                /\ Push([v \in {u} |-> Event("call_incoming", k)])
                /\ timeouts' = timeouts \cup {k}
           ELSE /\ Push([v \in {c} |-> Event("error", None)])
                /\ UNCHANGED <<calls, pending, status, timeouts>>
        /\ UNCHANGED <<disc, hubHung, jobs, raced, link>>

\* The goroutine b has found the pending call of the caller: the reader of the
\* browser b, or the one that slept for the call number b.
Found(do, caller, b) ==
    LET k == Latest(caller) IN
    /\ jobs' = jobs \cup {[do |-> do, call |-> k, by |-> b]}
    /\ raced' = raced \cup {j.call : j \in {i \in jobs : i.call = k}}

NotFound == UNCHANGED <<jobs, raced>>

\* A bug for the checks to find: any pending call of the caller will do.
AcceptAnyPending(c) ==
    LET caller == Head(toServer[c]).client IN
    /\ Handle(c, "call_accept")
    /\ IF pending[caller] # None
       THEN Found("accept", caller, c) /\ UNCHANGED toClient
       ELSE Push([v \in {c} |-> Event("error", None)]) /\ NotFound
    /\ UNCHANGED <<status, disc, pending, timeouts, hubHung, link, calls>>

HandleCallAccept(c) ==
    LET caller == Head(toServer[c]).client IN
    /\ Handle(c, "call_accept")
    /\ IF pending[caller] = c
       THEN Found("accept", caller, c) /\ UNCHANGED toClient
       ELSE Push([v \in {c} |-> Event("error", None)]) /\ NotFound
    /\ UNCHANGED <<status, disc, pending, timeouts, hubHung, link, calls>>

HandleCallDecline(c) ==
    LET caller == Head(toServer[c]).client IN
    /\ Handle(c, "call_decline")
    /\ IF pending[caller] = c THEN Found("decline", caller, c) ELSE NotFound
    /\ UNCHANGED <<status, disc, pending, timeouts, hubHung, link, toClient, calls>>

HandleCallCancel(c) ==
    /\ Handle(c, "call_cancel")
    /\ IF pending[c] # None THEN Found("cancel", c, c) ELSE NotFound
    /\ UNCHANGED <<status, disc, pending, timeouts, hubHung, link, toClient, calls>>

CallTimeout(k) ==
    /\ ~hubHung /\ k \in timeouts
    /\ timeouts' = timeouts \ {k}
    /\ IF pending[From(k)] = To(k) THEN Found("expire", From(k), k) ELSE NotFound
    /\ UNCHANGED <<status, disc, pending, hubHung, wireVars, page, screenVars, histVars>>

\* The end of removeLobbyClient(c), with HandleDisconnect when the socket closes
\* behind it.  "entries" is pendingCalls by then.  A caller of c who is in the
\* lobby hangs the hub (LobbyCalls!LeaveIncoming).
Depart(c, entries) ==
    LET ringing == {v \in Clients \ {c} : entries[v] = c}
        present == {v \in ringing : InLobby(v)}
    IN  /\ pending' = [v \in Clients |-> IF v \in ringing \ present THEN None ELSE entries[v]]
        /\ hubHung' = (present # {})
        /\ link' = [link EXCEPT ![c] = "down"]

HandleLobbyLeave(c) ==
    /\ Handle(c, "lobby_leave")
    /\ status' = [status EXCEPT ![c] = "none"]
    /\ disc' = [disc EXCEPT ![c] = FALSE]
    /\ IF pending[c] # None
       THEN Found("leave", c, c) /\ UNCHANGED <<pending, hubHung, link>>
       ELSE Depart(c, pending) /\ NotFound
    /\ UNCHANGED <<timeouts, toClient, calls>>

(* The rest of a handler that has found a call.  The entry that it deletes *)
(* may be gone by then, or be the one of a newer call.                     *)

Finish(j) ==
    /\ ~hubHung /\ j \in jobs
    /\ jobs' = jobs \ {j}
    /\ UNCHANGED <<disc, timeouts, raced, toServer, page, screenVars, histVars>>

Deleted(j) == [pending EXCEPT ![From(j.call)] = None]

StartCall(j) ==
    LET k == j.call IN
    /\ Finish(j) /\ j.do = "accept"
    /\ pending' = Deleted(j)
    /\ status' = SetStatus({From(k), To(k)}, "in_call")
    /\ Push([v \in {From(k), To(k)} |-> Event("call_start", k)])
    /\ UNCHANGED <<hubHung, link>>

TurnDown(j) ==
    LET k == j.call IN
    /\ Finish(j) /\ j.do = "decline"
    /\ pending' = Deleted(j)
    /\ status' = SetStatus({From(k)}, "available")
    /\ Push([v \in {From(k)} |-> Event("call_declined", k)])
    /\ UNCHANGED <<hubHung, link>>

\* cancelPendingCall: the target is told, with the caller's name as long as he
\* is in the lobby; the caller is told nothing.
Cancelled(k) ==
    /\ status' = SetStatus({From(k)}, "available")
    /\ Push([v \in {To(k)} |-> [Event("call_cancelled", k) EXCEPT !.named = InLobby(From(k))]])

CancelPending(j) ==
    /\ Finish(j) /\ j.do \in {"cancel", "expire"}
    /\ pending' = Deleted(j)
    /\ Cancelled(j.call)
    /\ UNCHANGED <<hubHung, link>>

CancelAndDepart(j) ==
    /\ Finish(j) /\ j.do = "leave"
    /\ Cancelled(j.call)
    /\ Depart(j.by, Deleted(j))

-----------------------------------------------------------------------------
(* A connection goes down, with all that is on its way; HandleDisconnect   *)
(* marks the user, when the reader has left its handler.  wsClient opens   *)
(* the next one, a second later at the earliest, and a lobby page joins    *)
(* again by itself.                                                        *)

Drop(c) ==
    /\ ~hubHung /\ link[c] = "up" /\ ~Busy(c) /\ c \in budget.losing \ lost
    /\ link' = [link EXCEPT ![c] = "down"]
    /\ toServer' = [toServer EXCEPT ![c] = <<>>]
    /\ toClient' = [toClient EXCEPT ![c] = <<>>]
    /\ disc' = [disc EXCEPT ![c] = InLobby(c)]
    /\ lost' = lost \cup {c}
    /\ UNCHANGED <<status, pending, timeouts, hubHung, jobs, raced, page, screenVars, calls,
                   rung, answered, declined, budget, clicks>>

Reopen(c) ==
    /\ ~hubHung /\ link[c] = "down" /\ page[c] # "left"
    /\ link' = [link EXCEPT ![c] = "up"]
    /\ toServer' = [toServer EXCEPT ![c] =
                        IF page[c] = "lobby" THEN <<Request("lobby_join", None)>> ELSE <<>>]
    /\ UNCHANGED <<serverVars, toClient, page, screenVars, histVars>>

\* The end of the 5 s grace.
GraceOver(c) ==
    /\ ~hubHung /\ disc[c]
    /\ status' = SetStatus({c}, "offline")
    /\ disc' = [disc EXCEPT ![c] = FALSE]
    /\ UNCHANGED <<pending, timeouts, hubHung, jobs, raced, wireVars, page, screenVars, histVars>>

-----------------------------------------------------------------------------
Buttons(c) ==
    \/ \E u \in Clients : CallUser(c, u)
    \/ CancelCall(c) \/ AcceptCall(c) \/ DeclineCall(c)
    \/ SaveProfile(c) \/ LeaveLobby(c) \/ JoinCall(c)

Listen(c) == OnIncoming(c) \/ OnDeclined(c) \/ OnCancelled(c) \/ OnStart(c) \/ OnError(c)

Serve(c) ==
    \/ HandleLobbyJoin(c) \/ HandleLobbyLeave(c)
    \/ HandleCallRequest(c) \/ HandleCallAccept(c) \/ HandleCallDecline(c) \/ HandleCallCancel(c)

Ends == \E j \in jobs : StartCall(j) \/ TurnDown(j) \/ CancelPending(j) \/ CancelAndDepart(j)

Timers ==
    \/ \E k \in CallIds : CallTimeout(k)
    \/ \E c \in Clients : \E k \in timers[c] : AutoDecline(c, k)

Next ==
    \/ \E c \in Clients : Buttons(c) \/ Listen(c) \/ Serve(c) \/ Drop(c) \/ Reopen(c) \/ GraceOver(c)
    \/ Ends \/ Timers

Spec == Init /\ [][Next]_vars

\* What is on an open connection arrives and is handled to the end, and timers fire.
\* Nobody has to press a button, and a lost connection may stay lost.
FairSpec ==
    /\ Spec
    /\ \A c \in Clients : WF_vars(Listen(c)) /\ WF_vars(Serve(c))
    /\ WF_vars(Ends) /\ WF_vars(Timers)

-----------------------------------------------------------------------------
Requests == [type : {"call_request", "call_cancel", "call_accept", "call_decline",
                     "lobby_join", "lobby_leave"}, client : Clients \cup {None}]
Events == [type : {"call_incoming", "call_declined", "call_cancelled", "call_start", "error"},
           call : CallIds \cup {None}, named : BOOLEAN]

Jobs ==
    [do : {"accept", "decline", "cancel", "leave"}, call : CallIds, by : Clients]
        \cup [do : {"expire"}, call : CallIds, by : CallIds]

CallsTo(c) == {k \in CallIds : To(k) = c}

\* The type of every variable; a browser shows, times and books only calls that
\* were made to it.
TypeOK ==
    /\ status \in [Clients -> {"none", "available", "in_call", "offline"}]
    /\ disc \in [Clients -> BOOLEAN]
    /\ pending \in [Clients -> Clients \cup {None}]
    /\ timeouts \subseteq CallIds
    /\ hubHung \in BOOLEAN
    /\ jobs \subseteq Jobs /\ raced \subseteq CallIds
    /\ link \in [Clients -> {"up", "down"}]
    /\ toServer \in [Clients -> Seq(Requests)]
    /\ toClient \in [Clients -> Seq(Events)]
    /\ page \in [Clients -> {"lobby", "room", "left"}]
    /\ callState \in [Clients -> {"idle", "calling", "incoming", "accepted"}]
    /\ \A c \in Clients :
        /\ {shown[c], callerRef[c], timer[c]} \subseteq CallsTo(c) \cup {None}
        /\ timers[c] \cup missed[c] \subseteq CallsTo(c)
    /\ room \in [Clients -> CallIds \cup {None}]
    /\ calls \in Seq([from : Clients, to : Clients])
    /\ rung \cup answered \cup declined \subseteq CallIds
    /\ budget \in Budgets /\ clicks \in Nat /\ lost \subseteq Clients

\* A ring that nobody has answered ends by itself: however rings, cancels,
\* stale timers and answers overlap, the caller that the reference holds has
\* the timer that autoDeclineTimer holds, and it runs (useCall.ts).
RingHasTimer ==
    \A c \in Clients : page[c] = "lobby" /\ callerRef[c] # None =>
        timer[c] = callerRef[c] /\ callerRef[c] \in timers[c]

\* A call that was accepted by hand and became a room is not among the missed
\* calls: the cancel, the two 30 s timers and the answer race, and the pending
\* entry of the server decides, unless a second handler found the entry before
\* the first one deleted it (handleCallAccept, cancelPendingCall): then both end
\* the call, each in its way.
AcceptedNotMissed ==
    \A c \in Clients : room[c] \in answered \ raced => room[c] \notin missed[c]

\* Nobody is taken to a room against his will: a room is for a call that one
\* made oneself, or from a caller one of whose rings one accepted, also when the
\* answer met a newer call than the one on the screen.
Consent ==
    \A c \in Clients : room[c] # None =>
        \/ From(room[c]) = c
        \/ To(room[c]) = c /\ \E k \in answered : From(k) = From(room[c]) /\ To(k) = c

\* Nobody waits alone: when a browser goes to the room of a call, the other one
\* goes there, or to a later call, or is about to be told, unless its connection
\* was lost or it has left the lobby.
NotAlone ==
    \A c, o \in Clients :
        room[c] # None /\ o # c /\ o \in {From(room[c]), To(room[c])} =>
            \/ room[o] # None
            \/ \E i \in 1..Len(toClient[o]) :
                 toClient[o][i].type = "call_start" /\ toClient[o][i].call = room[c]
            \/ o \in lost \/ page[o] = "left" \/ status[o] = "none"

\* A call that rang leaves a trace: it becomes a room, is declined by hand, or
\* ends up among the missed calls, whichever of answer, cancel and the two 30 s
\* timers comes first.  Excepted are the cases in which the code does lose it:
\* the browser was rung another time, by whomever; one of the two left the lobby
\* or lost the connection; the page was closed; two handlers ended a call of this
\* caller, and the second one deleted the entry of the next.
Traced(k) ==
    LET c == To(k) IN
    \/ k \in missed[c] \cup declined \/ room[c] # None
    \/ \E j \in rung : j # k /\ To(j) = c
    \/ \E v \in {c, From(k)} : page[v] = "left" \/ v \in lost
    \/ \E j \in raced : From(j) = From(k)
    \/ hubHung

\* A trace never goes, so "again and again all rings have one" says it of each.
RingTraced == []<>(\A k \in rung : Traced(k))
=============================================================================
