# QHat in TLA+

QHat is a video chat with translation for two people: a Go server that does
signaling (a public lobby with a call handshake, rooms for two with a translated chat)
over one WebSocket per browser tab, and a React front end that does WebRTC.
This directory models the parts of it in which several goroutines, timers,
connections or browsers meet, checks the models with TLC and proves the main
invariants with TLAPS. Paths below are relative to the repository.

## The system and its parts

| part | state | operations | talks to |
|---|---|---|---|
| Lobby and call handshake (`server/internal/signaling/lobby_handlers.go`, `server/internal/lobby/lobby.go`) | users with status, `Disconnected`, `LastSeen`; `lobbyClients`; `pendingCalls` | `lobby_join`, `lobby_leave`, `call_request`, `call_accept`, `call_decline`, `call_cancel`, `lobby_dm`; the 30 s call timeout, the 5 s disconnect grace, the offline sweep | rooms (an accepted call makes one), connections (broadcasts) |
| Rooms and the room hub (`signaling/hub.go`, `room/room.go`, `room/manager.go`) | `rooms`, `byCode`, participants of each room with `Disconnected`, chat history; `clients`, `clientRooms` | `join`, the end of a connection, the 20 s grace, the sweep of empty rooms; relay of offers, answers, candidates and chat | connections, rate limiter |
| WebSocket connection (`ws/client.go`, `ws/handler.go`) | the send channel, `sync.Once` of `Close`, two pumps | `Send`, `SendBytes`, `Close`, upgrade | hub (`Dispatch`, `HandleDisconnect`) |
| Rate limiter (`ratelimit/limiter.go`) | a token bucket per key, with the time of last use | `Allow`, `cleanup` | hub (chat) |
| HTTP middleware, chat processor, translation, main, configuration | none, or read-only | | |
| Browser WebSocket client (`frontend/src/lib/wsClient.ts`) | current socket, reconnect timer and delay, wanted or not | `connect`, `disconnect`, wake-up check, socket events, timer | all hooks |
| Browser call state (`hooks/useCall.ts`, `hooks/useLobby.ts`) | call state, caller on the screen, auto-decline timer, user list | messages of the lobby, buttons | WebSocket client |
| Browser room state, WebRTC, chat (`hooks/useRoom.ts`, `useWebRTC.ts`, `useChat.ts`) | phase, peer connection, queued candidates, messages | messages of the room, timers | WebSocket client |
| Browser media (`hooks/useMedia.ts`, the preview and the controls) | the stream, camera and quality, mute flags and their copies in `sessionStorage` | questions to the user, their answers, changes of camera and quality, mute, stop | WebRTC (tracks), the peer (`media_state`) |
| Browser pages and history (`App.tsx`, `pages/`, `lib/roomHistory.ts`) | history and chats in `localStorage`, the session and the marks of a lobby call in `sessionStorage` | navigation, reload, links; add, update, clear, delete | all tabs share the history |
| Sounds, notifications, layout | none that anything depends on | | |

What is hard in it: every connection has a reader goroutine, timers have
goroutines of their own, and a handler takes three kinds of mutex many times
without ever holding them across its decision, so that handlers interleave at
every lock. Users are identified by a client ID that a browser keeps across
reconnects, while much of the state belongs to one connection. A room is an
object that handlers keep a pointer to while the manager forgets it or makes
another of the same name. In the browser, sockets outlive the object that made
them, and their events come late; so do the answers of the user to the question
for a camera. Tabs share a store that each of them reads once and writes later.

What makes each part correct is stated as properties: nothing pending and
nobody disconnected is forgotten; a request is accepted once; rooms go when
their people have gone and not before; an index leads to what exists; a
connection's goroutines end; the limiter's memory is no source of credit; a
page that wants a connection gets one; a camera that is on is the open page's;
a stored chat has an entry that leads to it. `PROJECT.json` lists the hazards with
the lines where they bite.

## Modules

| module | models | composed with |
|---|---|---|
| `LobbyCalls` | the lobby and the call handshake | `MCLobbyCalls`, `LobbyCalls_proofs` |
| `RoomHub` | joining, losing and sweeping rooms, the code index, the greeting of peers | `MCRoomHub`, `RoomHub_proofs` |
| `RateLimits` | the limiter's parameters and the refill of a bucket | used by the next two |
| `IdealLimiter` | what the limiter promises: buckets that are never dropped | abstract specification |
| `RateLimiter` | `Limiter` with buckets made on demand and dropped when idle | refines `IdealLimiter`; `MCRateLimiter`, `Transport_proofs` |
| `WsClient` | one server-side connection: pumps, send channel, `Close` | `MCWsClient`, `Transport_proofs` |
| `WsReconnect` | the browser's WebSocket client | `Transport_proofs` |
| `CallClient` | the call state of the browsers in the lobby, over the wire | a lobby server whose handlers find a call in one step and end it in another; `MCCallClient`, `CallClient_proofs` |
| `RoomCall` | two browsers on a room page: joining, refreshing, leaving, the WebRTC negotiation | a room server, whose handlers interleave in some behaviours; `MCRoomCall`, `RoomCall_proofs` |
| `Chat` | the chat of a room, the direct messages of the lobby, the typing sign, the change of language | the server's handlers step by step, and the browsers; `MCChat`, `Chat_proofs` |
| `RoomMedia` | camera and microphone of one browser, what is sent and what the peer is told | `MCRoomMedia`, `RoomMedia_proofs` |
| `BrowserStore` | the pages of a browser's tabs and what they store | `MCBrowserStore`, `BrowserStore_proofs` |

### LobbyCalls

One action is one critical section of `Hub.mu` or of the lobby's mutex; the
receipt of a message is taken together with the handler's first section. A
goroutine is an entry of `thread` (program counter and locals): the reader of
every connection, one timeout per call request, one grace goroutine per lost
connection. `status` and `disc` are the `lobby.Manager` entries; `disc` names
the connection whose loss set `Disconnected`, in the place of a time.
`NewClient` starts the pumps of a connection and `Register` enters it in the hub,
in this order (ws/handler.go:71-74), so that a message, or the end of the reader,
may come in between. `joins`, `calls`, `starts` and `heard` are history: the first two carry the
bounds, `heard` says which calls a browser may answer.

`broadcastToLobby` takes the read lock and is one section of its own where
nobody's control depends on it. `removeLobbyClient` calls it inside its write
lock (lobby_handlers.go:367-391): the goroutine waits for itself, and
`hubHung` records it. `RLock` and `Lock` are not told apart, since no section
of one sees another's half-done writes.

Left out: `lobby_dm` (`Chat` has it), the user lists inside messages,
`LastSeen` as a number (the offline sweep may drop any offline user), and what
the broadcasts make the browsers show.

### RoomHub

One action is one critical section of the hub's, the manager's or a room's
mutex. Room objects are numbered, because handlers keep pointers: `rooms`
maps an ID to an object, `slots` holds the two participants of every object.
A participant is the connection that joined and the one it lost. A grace
goroutine belongs to the connection whose end started it. `MarkDisconnected`
is followed by its sleep in the same goroutine; the time between the two is
taken as nothing, so a loss is overdue exactly when its own grace goroutine
has slept (`Overdue`). `JoinTell` reads the peer and its client together.
`NewClient` starts the pumps before the upgrade handler calls `Register`:
`unregistered` keeps that order open.

The room made by an accepted call has a fresh UUID (`CallRooms`), and the
browsers open the page named by its six-character code: two room IDs with one
code are the normal case, which `byCode` has to bear.

### RateLimiter, IdealLimiter, RateLimits

A bucket is a `golang.org/x/time/rate` limiter, modelled from its use: the
credit at its last use, brought up to date when it is asked. Credit is counted
in seconds (a token is worth `Every` seconds), so rates are exact integers.
The parameters are the code's. The abstract limiter keeps every bucket; the
refinement mapping is the credit a key would have now; the clock is part of
both, so that a cleanup, which takes no time, may not move the credit. `since` and `granted`
count what is allowed from any moment on.

### WsClient

The reader, the writer and other goroutines that hold a pointer to the client.
`Close` is two actions inside its `sync.Once` (channel, then connection), and
other callers wait for it. A send on a closed channel ends the program
(`panicked`). The buffer is a count. `NewClient` starts the pumps before the
upgrade handler calls `Register`, so the end of the reader may come first;
`registered` tells that client (`early`, then `stray`) from one that left the hub.

### WsReconnect

JavaScript runs one callback at a time, so an action is a call or an event.
Every socket keeps its handlers for life; `ws` is the one the object refers
to. The constructor may throw. Delays are in seconds; when the timer fires is
left open.

### CallClient

`useCall.ts` in several browsers and one lobby server. A button, a message or
a timer is one action, as JavaScript runs them; the modal and the overlay
allow the buttons they show. A connection is a FIFO queue each way and loses
both when it goes down; `wsClient.send` drops what it cannot send. A handler of
`lobby_handlers.go` that looks for a pending call is two actions, as in the code: it
finds the entry under the read lock (`HandleCallAccept`, `HandleCallDecline`,
`HandleCallCancel`, `CallTimeout`, `HandleLobbyLeave`, with `Found`), and deletes it
and does the rest later (`StartCall`, `TurnDown`, `CancelPending`, `CancelAndDepart`),
when the entry may be gone, or be that of a newer call. `jobs` are the handlers and
timers in between; a connection's reader has one at a time (`Busy`). `raced` remembers the calls
that a second handler found before the first deleted them. The other sections of these
handlers are in `LobbyCalls`. A loss of a connection is noticed between two of its
messages; the browser reconnects after a second at the earliest. Messages name the
caller, not the call. A ring carries the number of its call for the properties
only (`room`, `shown`, `missed` refer to it).

Left out: the user list (any user may be called at any time), the cut of the missed calls at ten entries,
direct messages (`Chat`), and what happens in the room after the page has changed.

### RoomCall

`useRoom.ts`, `useWebRTC.ts` and what `RoomPage.tsx` does with them, in two
browsers. A message, a button or the end of an awaited operation is one action.
The async functions of `useWebRTC` await operations of one `RTCPeerConnection`,
which by its specification does them in the order they were asked for: `ops` is
that chain, each entry with the function that goes on when it ends, and it dies
with the connection (`createPC`, `close`). The connection itself is external and
taken from its specification as far as the code uses it: the signaling states,
the rollback of an own offer by a remote one, the refusal of a local description
that is not the last one made, of an answer without an offer and of a candidate
for another description. Descriptions are numbered; a candidate is named after
the description it was gathered for, one for each.

A handler of the server that nothing comes between is one action (`HandleRoomJoin`),
and so is a loss that is noticed before anything else happens (`Lose`). In the
behaviours with `budget.race` the hub may go its own way: a join is a task in four
steps (`JoinBegins`: `Add` and the registration, `LookForPeer`, `TellJoiner`,
`TellPeer`), with the refusal of a full room (`JoinRefused`); a connection may end
without the server's noticing (`LoseLate`, `stale`), and its `HandleDisconnect`, in
three steps (`HandleDisconnect`, `MarkDisconnected`, `TellLeft`), comes at any
time later, also after the browser has joined again on the next connection. Since it
works by client ID it then takes that one's entries: `forgotten` has the browsers
whose entry in `Hub.clients` is gone, and a browser may sit on both places of
the room (`twin`). "Home" on the waiting page leaves its connection and its participant
where they are (`GoHome`). `astray` says that one of these began. Without it every
connection is handled in the order of its messages, and with it every property is
checked that does not name it as an exception.

A page starts on the form of a private room, or after a lobby call, with the
connection of the lobby open. Left out: statistics, codecs and bit rates, the
tracks and mute messages (`RoomMedia`), a change of language (`Chat`), the records
of the history (`BrowserStore`), a page that comes back from home and joins a second
time on the same connection (`RoomHub` has the second join), a third browser,
messages of an ended connection that its reader has still in hand, other than a join;
`room_full` and the close that follows it are one step, and a connection is registered when it opens
(`WsClient` and `RoomHub` have the other order).

### Chat

`useChat.ts` with `handleChat`, and the direct messages of `useLobby.ts` and
`LobbyChat.tsx` with `handleLobbyDM`; `budget.place` chooses between them, since
a browser is on one page only. A handler is a job with four steps (`Translate`,
`AddChatMessage`, `Echo`, `Deliver`; the lobby has no history and delivers
before it echoes), and its connection's reader waits for it (`busy`). A connection
that is lost leaves its handler under way (`Old`) beside the reader of the next one;
when that handler is done, `HandleDisconnect` follows (`ending`), which goes by the client ID: it
makes the new connection deaf and its participant lost. An entry on the
screen has a number, the writer's count, which no message of the program
carries: the browsers match by text, the properties compare the numbers. Other
history: `seen` (was on the screen), `stored` (all that ever went into the room's
history), `cuts` (what had been written when a connection was lost) and `called`.

`Participant.Lang` and `LobbyUser.Lang` are read once per translation, and
written between any two steps; the code reads them several times without a lock
(below). A page
that lost its connection in a room does not join again, one in the lobby does.
Left out: reactions, the camera and microphone signs, the peer's language on the
screen, sounds and the counter in the title, the throttling of typing messages.
The user list is not part of it: a chat that was opened stays until it is closed.

### RoomMedia

`useMedia.ts` on a room page, with the preview, the controls of the call, the
senders of `useWebRTC.ts` and the mute signs on the peer's page. `getUserMedia` is
a question that is answered at any time, in any order, or never; `requests` holds
the open ones with the page that asked. A page that is left inside the
application leaves its questions behind, a reload does not. A stream is numbered
after the question that was granted, a track after the question that brought it;
a stopped track is left out of its stream. `requestPermissions` awaits twice, so
a grant is two actions, `Grant` and `Listed`. `localStream` shares its tracks with
`streamRef` and is only `shown` or not; `audioEnabled`, `videoEnabled` and their
copies in `sessionStorage` change together and are one (`on`). The peer connection
is the tracks its senders hold. What a page does
to join is cut down to the phases; `RoomCall` has the rest.

The history variables name what the properties except, each a divergence below:
`overlap` (two grants of one page), `stray` (a stream nobody will stop), `flipped`
(a camera that was replaced while off), `camLost` (a replacement that failed, or
two at once). Left out: sizes and frame rates, and the same hook on the lobby's
preview screen.

### BrowserStore

The pages of `App.tsx` in several tabs. A callback of a page is one action, and
what a page has read when it was opened (`list`) it may act on later. A chat is
the number of its messages. `LandingPage` clears the marks of the tab while it is
drawn, `RoomPage` sets them while it is drawn, which it is once more after the end
of a call (`End`). A page joins by itself with the marks of a lobby call, on a
connection it takes to be there (`heard` says whether it was), or with the session
of its room, or when the form is sent (`by`). The browser's way back (`Back`) brings
the page of a former call again, with the state of its navigation. `own`, `calls` and
`called` are history: the room entered last and not left, the rooms to which the tab was
called, and the page of a call since the home page. `torn` has
the rooms whose entry and chat were parted by the code itself, in one of the ways
listed below. Left out: names, languages, dates and durations, the other keys of
`sessionStorage`, the way back to pages other than those of calls (which adds nothing to links, except
from one room at once to another, which React draws without a new page), and the connections, so
that any message may come to a page that
is heard.

## Runs

| run | checks | instance | result |
|---|---|---|---|
| `lobby` | `PendingHasTimer`, `DisconnectedHasGrace`, `OneStartPerCall`, `PendingResolved` | ann (who calls once) on two connections, bob on one, two joins each; two beginnings | holds, 1.0 million states |
| `lobby_hang` | `HubNeverHangs` | ann and bob on one connection each | violated |
| `rooms` | `LostHasGrace`, `Greeted`, `ByCodeSound`, `RoomsDestroyed` | ann on two connections, bob on one, a page's and a call's room with one code, three room objects; two beginnings | holds, 554,000 states |
| `calls` | `RingHasTimer`, `AcceptedNotMissed`, `Consent`, `NotAlone`, `RingTraced` | ann, bob and cat; one of four budgets of buttons, calls and losses | holds, 1.2 million states |
| `room_call` | `TypeOK`, `Joined`, `NoCallAlone`, `Agreed`, `CandidatesKept`, `NoneRefused` | two browsers; one of seven budgets: two refreshes; a refresh and an ICE restart; two ICE restarts; a refresh, a loss and a leave; after a lobby call, one of each; with interleaving handlers and no descriptions, a refresh and a leave, or after a lobby call a loss and a leave | holds, 5.3 million states |
| `chat` | `InOrder`, `EchoMeansShown`, `OwnStaysOwn`, `BadgeRight`, `HistoryNewest`, `TypingEnds` | a room of two or a lobby of two or three, two texts, two languages, a history of two; one of six budgets of messages, typing, changes of language, opened chats and losses | holds, 1.0 million states |
| `media` | `Released`, `MuteHonest`, `PeerTold`, `SelfIsSent` | two cameras, two pages one after the other, three questions, two messages under way | holds, 7.3 million states |
| `store` | `CountRight`, `NoOrphans`, `JoinsByRight` | two tabs, three rooms of which one is a call's, a history of two; the lobby and its calls for one tab while the other is at home | holds, 1.4 million states |
| `rate` | `RateBound`, `ImplementsIdeal` | one key of the room limit, steps of half a token and of two hours, observation from any of the first minutes | holds |
| `ws_release` | `NoSilentLoss`, `Released` | two other goroutines, buffer of two, four messages | holds |
| `ws_panic` | `NoPanic` | the same | violated |
| `socket` | `NoTimerUnlessWanted`, `NeverStranded`, `ConnectedIsOpen`, `Reconnects` | five attempts, delays up to 8 s | holds |

What they show, in one line each, is the "about" of `PROJECT.json`.

Bounds. Two users are enough for a call, and rooms have two places. Two
connections of one user are the smallest case in which an old connection's
end meets a new one; more of them are covered by the proofs. All orders of two
connections from nothing on are too many for one run, so `lobby` and `rooms` have
two beginnings, both states that `Init` reaches: in one the second connection has
come and gone unused and everything else is new; in the other the first connection is
lost in the middle of a call (`lobby`), or about to join while the room it looked
up may be swept (`rooms`), and the second may come. The invariants that are proved
hold from `Init` on. Three room objects let a room be forgotten and made again twice. `MaxJoins`, `MaxCalls`,
`MaxObjs`, `MaxSends`, `MaxAttempts` and `MaxTime` appear in guards only.
`CallClient` chooses
a budget at the start: three or four buttons in all, two callers of one target who
also call each other, a caller with two targets, or one call and a lost connection on
either side; with them
two rings overlap on one screen, an answer meets a newer call, both 30 s
timers run out, and two handlers find one entry. `RoomCall` does the same with refreshes,
losses, leaves and ICE restarts. Where handlers interleave its browsers make no
descriptions: what is exchanged depends on the announcements and not they on it, and what
the properties promise of descriptions they promise without interleaving only. What it
checks is proved for any number of all of them.
`Chat` has three messages at once in a room, so that the history of two is cut,
or two with a change of language or a loss, and in the lobby two messages among
three people who open chats, or between two of whom one loses the connection; two texts let a
message be repeated. Its history is
cut at two for 500: the cut depends on the half only.
`OneStartPerCall` needs a target with one connection: two readers of one
user's connections may both accept. `RoomsDestroyed` says for itself that no
connection joined twice: one that did leaves a participant behind (below).
`RoomMedia` has three questions, so that one of the first page is answered on the
second, two of one page overlap, and a replacement follows; mute, leaving and
the peer's coming and going are not bounded. `BrowserStore` cuts the history at two
for 20, with three rooms, and lets one tab alone be called, since what a page joins by itself depends on its tab; a chat
has one message, since the properties tell only
a chat from none and a count from another; the cut and the counts are proved
for any number. In `lobby` nobody shares a name, so no join evicts a namesake; the
theorems about `LobbyCalls` hold for any `NameOf`. Deadlock checking is off:
all browsers may have gone for good.

Every property has a mutant in `PROJECT.json`: an operator beside the original
(marked "A bug for the checks to find") that changes it as a plausible slip in
the code would, and that the same run refutes.

Fairness. `LobbyCalls` and `RoomHub` assume weak fairness of every step of a
handler that is under way, of timeouts and of grace goroutines: the Go
scheduler runs every runnable goroutine (the condition is one per goroutine, not
one per kind of step), no handler waits for anything but mutexes that are released (or for the hung
hub, which the properties except),
and sleeps end. The sweep of empty rooms is fair because its ticker ticks.
Nothing is assumed of browsers or of the sweep of offline users. `WsClient`
assumes that the pumps and `Close` go on, and that a read on a dead connection
fails (the read deadline). `WsReconnect` assumes that timers fire and that an
attempt to connect, or a closing handshake, ends one way or the other.
`CallClient` assumes that what is on an open connection arrives and is
handled, and that timers fire; nobody has to press a button, and a lost
connection may stay lost. `Chat` assumes only that the typing timer fires.
`RoomMedia` and `BrowserStore` assume nothing: a question may stay open for ever.

## What is proved

For all values of the constants, with TLAPS; TLC checks the same formulas on
the instances above.

* `LobbyCalls_proofs`: `TypeCorrect`, `PendingTimed` (`PendingHasTimer`) and
  `DisconnectedTimed` (`DisconnectedHasGrace`). The inductive invariant adds
  two facts. `SlotsFresh`: the timeout goroutine a request is about to start
  has not been used, since requests are numbered; without it a new timer could
  overwrite one that watches a call. `DiscOwn`: the connection in `disc` is
  one of the user's own, so that another user's grace cannot stand for it. The
  step proof has one case per action; most follow from a lemma that says a step
  of one goroutine leaves the others' duties alone. `StartsPaid`
  (`OneStartPerCall`) has a hypothesis, `OneOpen`: nobody who is being called has two
  connections open (with two, both readers may accept; in the run the target has one).
  Its strengthening `Paid` is an account of every caller: the `call_start`s sent, those
  a goroutine is still about to send, and the pending call if nobody has taken
  it yet, are together at most the calls made.
* `RoomHub_proofs`: `TypeCorrect`, `CodesSound` (`ByCodeSound`), `LostCaredFor`
  (`LostHasGrace`) and `SomebodyOffers` (`Greeted`). The strengthening of the third
  is `GraceOnce`: a connection that has not
  ended has no grace goroutine yet, so marking a participant starts a fresh one
  and never redirects one that has work to do. That of the last is `Greeting`: of
  two participants in a room, one was told to offer to the other, or the reader of
  one is still between `Add` and that message.
* `Transport_proofs`, both ends of a WebSocket and the limiter. Of `WsReconnect`:
  `TypeCorrect`, `TimerWanted`, `NotStranded`, `ConnectedOpen`, by an invariant whose
  parts carry each other. Of `WsClient`: `ConnTyped` and `NothingLostSilently`
  (`NoSilentLoss`). The strengthening is `Caused`: each station on the way to a lost
  message (a closed connection, a writer that has returned, a caller inside `Close`)
  was reached through a dead network or a closed channel. Of `RateLimiter`:
  `LimiterTyped`, `RateBounded` (`RateBound`) and `Implements` (the limiter refines
  `IdealLimiter`). `Parameters` checks the fact about the code's numbers that everything
  rests on: a bucket is kept for at least as long as it takes to fill. The
  strengthening `Spent` bounds what was granted and what is still granted at once,
  together.
* `CallClient_proofs`: `TypeCorrect`, `RingsTimed` (`RingHasTimer`),
  `NobodyForced` (`Consent`), `AcceptedIsNotMissed` (`AcceptedNotMissed`) and
  `NobodyAlone` (`NotAlone`). Messages name the caller only, so the invariant has
  to follow a consent over the wire: a pending entry is for the last call of its
  caller (`Pend`); an accept is under way only from somebody who accepted a ring
  of that caller by hand (`GoodRequests`), and a `call_start` only to somebody who
  made the call or so accepted (`GoodEvents`); a browser shows, times and
  books only calls made to it (`OwnRings`). The last two need more: what the server
sent for a call, in which order, and who may still answer it (`CallInv`), with
`OneOutcome`: a call that no two handlers found at once is one of pending, in the hands of
one handler, started and ended; and that who is in the
  room of a call, or about to hear of it, has the other one there, about to hear of it,
  or gone for good, while a connection is closed only under a browser that lost it or left (`PairInv`:
  `Together`, `Links`).
* `RoomCall_proofs`: `TypeCorrect` (`TypeOK`), `EverybodyJoins` (`Joined`),
  `NobodyTalksAlone` (`NoCallAlone`), `EndsAgree` (`Agreed`), `CandidatesArrive`
  (`CandidatesKept`) and `NoneIsRefused` (`NoneRefused`). `Asking` says of each browser that a page not
  yet in the room has heard nothing and has no connection to a peer (`Opening`), and
  that its join is under way once, before anything of a call (`OneJoin`). `Announced`
  follows the peer over the wire: whoever is told of a peer that has gone since is
  told of his going later in the same queue, or a handler is about to tell him
  (`LossComes`), unless he is one of the `misled`. These three are proved for every behaviour,
  the interleaving ones included; the other three as long as no handlers interleave: their
  invariant is `DInv`, and every step keeps it or sets `astray`, for good. Two theorems speak of a call in
  which nothing is under way (`Settled`), so their invariant (`DInv`) has to say where
  everything is while something is. `Phased`: of two pages in the room one is the end
  that offers, and it is about to hear so (`Announcing`), makes its first offer
  (`Starting`), or is in an `Exchange`. An exchange has one phase for each place in
  which an offer, or its answer, may be: on the way, in the other end's chain of
  operations, or set. `Side` says of each end that its chain has no other operation
  of an exchange than the phase's own (`Cores`) and that queued candidates are added at
  the head of the chain and only there (`Tidy`); `Comes`, that the candidate is behind
  its description, in the same queue or the same chain. A refresh or a loss ends the
  phase and a join begins the next, for which the page must have no connection and no
  offer on its way (`Beginning`); `Told` says that both pages take part, or are about
  to hear so. The lemmas follow the queues as values first (`Exchange` has no
  variables), then one lemma per kind of step applies them: a page works
  (`NegotiatePhase`), hears (`HearPhase`), restarts (`RestartPhase`), the server relays
  (`RelayPhase`) or joins (`JoinPhase`). `NoneIsRefused` is read off the phases: the
  operation at the head of a chain is the one its phase names, and the connection is
  in the state that operation needs.
* `Chat_proofs`: `TypeCorrect` (`TypeOK`), `BadgesRight` (`BadgeRight`), `ShownInOrder`
  (`InOrder`), `OwnWordsStay` (`OwnStaysOwn`), `NewestKept` (`HistoryNewest`) and
  `EchoesTell` (`EchoMeansShown`). The types include what the handlers rely on of a message
  in a queue (`ToServer`, `ToClient`) and what a
  handler has in hand (`JobOK`). `Badge` gives the number for the pages, `Unseen` the entries it counts. The
  third rests on `Order`: of two people, the numbers of what the one has on the screen,
  what is on the socket to him, what a handler has still to send and what
  waits before the server come one after the other, but for a
  cut between them (`Follows`): `Readers` says that a handler whose connection is lost
  has a cut between its message and everything the next reader has. Each step moves a number from
  one of these sets to the next, or drops it. For the last three every step is first
  shown to be of one of nine kinds (`Kind`: a request is taken, a job goes on, is echoed,
  is delivered, a message is written, read, answered, shown, or something is lost), and
  the rest is said of those. `Owed`: whatever is on its way to an echo has an own entry
  of the same number and text; if texts are distinct it has no translation yet, and in a
  room its text is still pending. `Tailed` says of the history, position by position, that it is the
  end of what was stored; `Kept`, that whoever knows of a translation in a room knows of
  one that was stored. `Match` accounts for the echoes while no connection is lost
  (`Calm`, with `Alone`: then a person has one handler): the words that are echoed (`Own`) or on
  their way back (`Back`, `Said`) are
  among those that are with the other one or on their way to him (`Reach`), and in a room
  the reverse; when all is quiet, only entries are left of both.
* `RoomMedia_proofs`: `TypeCorrect` and `NothingLeftOn` (`Released`), with `Away`: a
  page that is gone has let go of its stream. Most of the work is the lemmas about the
  tracks of a stream (`EnableProperties`, `FlipProperties`, `SwapType`). `MutedIsMuted`
  (`MuteHonest`), `PeerKnows` (`PeerTold`) and `PreviewIsSent` (`SelfIsSent`) rest on
  `MediaHolds`: a stream belongs to the questions of one page (`Owned`), which asks for it
  once unless grants overlap (`OneQuestion`), the tracks are enabled as the
  buttons say (`AsChosen`), the senders hold them (`Sent`), the last word to the
  peer is the present state (`Told`), and there is one camera to replace (`OneCamera`).
* `BrowserStore_proofs`: `TypeCorrect`, `CountsRight` (`CountRight`), `NothingBehind`
  (`NoOrphans`), `JoinsRight` (`JoinsByRight`). The first part rests on lemmas that say
  what each function of `roomHistory.ts` does to a list without repetitions
  (`WithoutProperties`, `AddProperties`, ...). The strengthening of the second is
  `Marks`: a session that is not a lobby call's is for the room entered last,
  the marks of a lobby call are only in a tab that showed the page of one since it was at home,
  and the state of a navigation belongs to a room the tab was called to.

Assumptions are the named `ASSUME`s of the modules: identities are distinct,
bounds are numbers, every connection has a client, and the value that stands for
nobody or nothing is not one of the things (`NoneAssumption`). Liveness
(`PendingResolved`, `RoomsDestroyed`, `Released` of `WsClient`, `Reconnects`,
`RingTraced`, `TypingEnds`) is only model-checked: the prover has no rule for
fairness. Every invariant of the passing runs has its theorem. The type invariants,
other than that of `RoomCall`, are proved and not run again.

## Divergences

Runs that are expected to fail, each with the sentence of the repository that
the code does not keep (quoted in `PROJECT.json`):

* `lobby_hang`: leaving the lobby while being called locks the hub for ever.
* `ws_panic`: a send to a client that was just closed panics.

Further divergences that were seen in TLC's traces while the models were made,
and that no run repeats:

* The late end of an old connection takes a user of the lobby offline who has come back
  on a new one, because the mark and the grace are of the client ID
  (lobby_handlers.go:405), against "After grace period, if still disconnected" (408).
* An accept and a cancel, or the timeout, may both find the entry before either takes
  it: the call starts, the other side is told that it was cancelled, books it as missed, and the
  caller is set available in the middle of it (lobby_handlers.go:161, 251).
  `AcceptedNotMissed` excepts it (`raced`).
* A connection that ends before the upgrade handler registers it stays in `Hub.clients`
  (client.go:46, handler.go:73): nobody will call `HandleDisconnect` again. `Released`
  excepts it (`stray`).
* A call that times out, or is declined, sets its caller available, also one
  who went offline meanwhile (lobby_handlers.go:255, 213).
* The target of a caller who leaves is told of a cancelled call without a
  name: the caller is removed first (lobby_handlers.go:347, 245), against the
  comment at 242.
* A second `lobby_join` makes the caller of a pending call available; the next
  request replaces the entry without a word to the first target (107).
* `lobby.Reconnect` removes a connected namesake, though its comment speaks of
  stale entries (lobby.go:88).
* A connection that joins twice leaves a participant behind that no end of a
  connection removes (hub.go:177): its room stays for ever.
* The late end of an old connection marks the participant of the new one as
  disconnected (hub.go:133).
* Deleting a room removes the code of another room with the same code
  (manager.go:65).
* 69 chat messages are possible within a minute, ten at once and one a second
  (limiter.go:104), where the PRD allows 60; `RateBound` says it exactly.
* `Close` drops what the write pump has not written, `room_full` for instance
  (client.go:80).
* Two simultaneous joins: each handler adds its participant before either
  looks for a peer, so both peers are told to offer (hub.go:196), against the
  comment at 195; two ICE restarts at once (below) show where it leads. `Agreed`,
  `CandidatesKept` and `NoneRefused` except handlers that interleave (`astray`).
* The hub may announce a peer who was lost, and whose loss was told, before the
  announcement is sent (hub.go:197-213, against the comment at 193): the page then talks to
  somebody who is not there and hears no more of it. It may also tell nobody of a loss, because
  the late end of an old connection took the entry of the new one, or the grace its participant.
  `NoCallAlone` says that these are the only ways (`misled`).
* A browser whose old connection has not been noticed to end is refused by its own
  participant when it joins again: the room is full (room.go:70, hub.go:169).
* "Home" on the waiting page leaves the connection and the participant
  (RoomPage.tsx:231): the next one to come talks to a page that is gone.
* A room that is swept, or whose last grace ends, between a join's lookup and
  its `Add` is forgotten with the participant in it (hub.go:159, 168), against
  "Room is valid indefinitely while at least one user is connected"
  (PRD_VideoChat_v1.md:110): the next one to join gets another room.
* An offer is relayed to whatever connection the peer has, joined or not
  (hub.go:328). One that crosses with a refresh is answered by the new page, its
  maker makes a new connection when it hears of the join, and that connection
  takes the answer to the old offer (useWebRTC.ts:169): the ends disagree.
  `Agreed` excepts it (`crossed`).
* ICE restarts of both sides at once, likely since both see the failure, make
  each take the other's offer; each answer meets a connection that is stable, and
  the ends disagree (useWebRTC.ts:60), where docs/PLAN.md:57 wants no race of
  offers. `Agreed` excepts a restart while an offer is being made or not yet
  answered (`crossed`); any number of restarts one after the other is covered.
* After a lost WebSocket a page connects again but does not join again
  (`joinSent`, useRoom.ts:69): it talks on without signaling, is removed after
  the grace, and never hears a new peer. `Joined` excepts it (`dropped`).
* The refreshed page of a lobby call joins on a connection it never opens
  (RoomPage.tsx:97), and waits for ever.
* When the other one leaves a lobby call the page ends, but its WebSocket and
  its participant stay (useRoom.ts:103).
* `pendingCandidates` has hardly anything to do: a candidate follows its
  description through two FIFO queues and one chain of operations.
* The server's 30 s timeout tells only the target; the caller's screen stays at
  "Calling" until cancelled by hand, also after an error reply, to which
  `useCall.ts` does not listen.
* Call messages name the caller only. An accept or an automatic decline that is
  late starts or declines a newer call of the same caller, and the browser that
  was rung by it keeps a ring without a timer or a missed call.
* A second ring overwrites the handle of the first timer (useCall.ts:105): the
  first timer ends the second call, or a cancel of one caller is booked on the
  other (131). When both 30 s timers run out, a call may be booked twice.
* A caller who cancelled while the accept was on its way is taken to the room
  (154), and one who answers another's ring keeps his own pending call, whose
  timeout sets him available in the middle of the call (lobby_handlers.go:255).
* In the browser, the late close event of a socket that was given up sets a
  timer, which opens a second socket beside the live one (wsClient.ts:119, 148);
  so does a wake-up that leaves a timer running (89). A wake-up while
  connecting closes the healthy attempt (96).
* A browser that reconnects while a direct message of its old connection is translated may
  see the next one overtake it (wsClient.ts:119, lobby_handlers.go:305); `InOrder` says so
  (`cuts`). When the old handler ends, its `HandleDisconnect` takes the new connection's
  entry, and the browser hears nothing more (hub.go:118).
* A text sent twice: when the second echo comes its text is no longer pending, and
  the own message is shown as the peer's; the first of the two gets every
  translation, the other none (useChat.ts:63, 66). `EchoMeansShown` and
  `OwnStaysOwn` except it (`Distinct`).
* A chat message is told from the peer's by the sender's name (useChat.ts:56): a
  peer with the same name is not heard right.
* A message to a participant in the grace, or to an offline user of the lobby, is
  translated, stored and echoed as if it had been delivered, and is lost
  (hub.go:266, lobby_handlers.go:294).
* The echo of a direct message does not name its target: it goes to the chat that
  is open when it comes, or is lost with none (LobbyChat.tsx:35).
* A call out of a chat closes it on the page and not in `openChatRef`
  (PublicLobbyPage.tsx:254): later messages of that user are never counted as
  unread (useLobby.ts:165). `BadgeRight` excepts it (`called`).
* The language of a participant is written and read without a lock (hub.go:288,
  processor.go:43, hub.go:261): the label of a message, the translation and the
  history may have three different ones.
* The history of a room on the server is written and never read.
* A camera that is changed, or its quality, while it is off is on again: the new track
  is enabled, and the button goes on to say "off" (useMedia.ts:117). `MuteHonest`
  and `PeerTold` except it (`flipped`).
* A question that is answered when its page is gone leaves a camera on that no page
  will turn off, until a reload; so does a replacement (useMedia.ts:70, 117). `Released`
  excepts it (`stray`).
* The form may be sent while the preview's question is open: two grants, of which the
  first is never stopped, and each is unmuted until its own listing of the cameras ends
  (useMedia.ts:75); the saved choices of the first are applied to the one that was
  replaced. `overlap` excepts it, and `Settled` the short time before the cameras are
  listed, in which a muted microphone is heard.
* Two changes of the camera at once each remove the same old track and add their own:
  two cameras stay on, and the second is never sent (useMedia.ts:115). A change that
  fails leaves the camera that failed marked as active and saved, which then is asked
  for, exactly, on the next page (useMedia.ts:134). `SelfIsSent` excepts both (`camLost`).
* A denied question hides the picture but keeps an earlier stream in `streamRef`
  (useMedia.ts:97).
* Mute is told to the peer when a button is pressed in the call, and never else: who
  was muted before is shown as not muted, and so is everybody after a refresh of the
  peer's page (RoomPage.tsx:57, 72). `PeerTold` says "once it has been told".
* A peer connection that was made before there was a picture never gets one
  (useWebRTC.ts:112, 228).
* The entry of the twenty-first room pushes out the oldest and leaves its chat in the
  browser, where no "Clear" finds it (roomHistory.ts:39, 52), against
  "You can clear this data at any time" (PrivacyPage.tsx:83). An entry that is
  deleted, or cleared, in one tab while another chats in that room leaves one too, and a
  store that is full drops the chat but counts it (RoomPage.tsx:142, roomHistory.ts:69).
  `CountRight` and `NoOrphans` except these (`torn`).
* A refresh starts with an empty list of messages, and the next one overwrites the
  stored chat (RoomPage.tsx:142). The duration of a call restarts with each reconnect
  of the peer (RoomPage.tsx:127).
* At the end of a lobby call the page is drawn once more and sets again the marks that
  `leaveRoom` and `peer_left` have just removed (RoomPage.tsx:35, useRoom.ts:85): a link
  opened in that tab, to any room, joins by itself under the name of the lobby, on a
  socket nobody has opened ("WS already connected", RoomPage.tsx:97).
* The browser's way back to the page of a call that is over sets the marks again, and the page
  joins by itself (RoomPage.tsx:29, 98); `JoinsByRight` allows it for the rooms of calls.
* `HistoryPage` calls a hook after an early return (HistoryPage.tsx:42), so that React
  fails if its entry disappears while it is shown.
* The privacy page counts camera and quality among the data in `localStorage`; they are in
  `sessionStorage` (PrivacyPage.tsx:80, useMedia.ts:136).

## Not modelled, and the plan

Left out for good, because nothing in them is decided by an order of steps: layout and
styling, type declarations, sounds, notifications and the counter in the title,
reactions and the debug panel, statistics and codecs, the privacy page, the HTTP
routes, the HTTP middleware (which no route uses), the configuration and the request
to DeepL.

What is stateful and still missing: the user list of `useLobby.ts` under the status
broadcasts. Broadcasts are sent after the lock of their change is released, so their
order at a browser is not the order of the changes (lobby_handlers.go:461), and a join
between `MarkOffline` and the removal from `lobbyClients` gets none (424). `LobbyCalls`
has the interleavings of the server and no screens, `CallClient` has the screens and
the pending calls only; a module between them needs both and the queues, which is why
`PROJECT.json` lists the two hazards as one without a property. Also missing: the
lobby's preview screen, and `missedCalls` as it is stored across tabs.

The models of one browser and those of the server are not composed: `CallClient`,
`RoomCall` and `Chat` have servers whose handlers interleave as far as
their properties need it, and rely on `LobbyCalls` and `RoomHub` for the rest.

An abstract call (idle, ringing, started or ended, exactly once) would be the
specification that `LobbyCalls` refines up to the divergences above; it is not
written.
