--------------------------------- MODULE Chat ---------------------------------
(***************************************************************************)
(* Text messages: the chat of a room (frontend/src/hooks/useChat.ts,       *)
(* handleChat of server/internal/signaling/hub.go) and the direct messages *)
(* of the lobby (useLobby.ts, LobbyChat.tsx, handleLobbyDM of              *)
(* lobby_handlers.go).                                                     *)
(*                                                                         *)
(* A browser shows its own message at once and matches the echo of the     *)
(* server with it by the text.  The reader goroutine of a connection runs  *)
(* the handler itself and waits in it for the translation; the handlers of *)
(* two people, and a change of language, interleave at every step.         *)
(* Connections are FIFO queues, lost when they go down.  A browser opens a *)
(* new one while the reader of the old one may still be in its handler;    *)
(* that it is over the server notices later, and takes the new one for it. *)
(***************************************************************************)
EXTENDS Naturals, FiniteSets, FiniteSetsExt, SequencesExt

CONSTANTS
    People, Texts, Langs,
    Speaks,      \* the language that everybody joins with
    MaxHistory,  \* maxChatHistory
    Budgets,     \* bounds, one of which a behaviour keeps to
    None

ASSUME ChatAssumption ==
    /\ MaxHistory \in Nat \ {0} /\ MaxHistory % 2 = 0
    /\ Speaks \in [People -> Langs]
    /\ Budgets \subseteq [place : {"room", "lobby"}, people : SUBSET People, send : Nat,
                          typing : Nat, lang : Nat, open : Nat, lose : Nat]

VARIABLES
    \* The server
    at,          \* the participant or lobby user: "in", "lost" (Disconnected, offline) or "out"
    joined,      \* Client.RoomID: the connection is the one that joined the room
    lang,        \* Participant.Lang, LobbyUser.Lang
    history,     \* Room.History
    jobs,        \* the handlers under way, by sender
    busy,        \* the message that the reader of a connection handles, 0 for none
    ending,      \* the readers of lost connections that have yet to tell the hub
    \* The wire
    link,        \* "up", "down", or "deaf": up, but not in Hub.clients
    toServer, toClient,
    \* The browsers
    inCall,      \* useRoom: the chat of the room is on the screen
    log,         \* useChat: messages; useLobby: dmMessages, by the other one
    pending,     \* useChat: pendingTexts
    typing,      \* useChat: peerTyping
    timer,       \* useChat: typingTimer, "none", "set" or "fired"
    open,        \* PublicLobbyPage: chatUserId
    openRef,     \* useLobby: openChatRef
    unread,      \* useLobby: unreadDMs
    \* History and bounds
    sent,        \* messages written so far
    stored,      \* all that was ever put into history
    cuts,        \* the numbers of messages that were written when it was lost
    called,      \* who called somebody out of a chat
    budget       \* what is left of the bounds

readerVars == <<jobs, busy, ending>>
serverVars == <<at, joined, lang, history, stored, readerVars>>
wireVars == <<link, toServer, toClient>>
chatVars == <<inCall, pending, typing, timer>>
lobbyVars == <<open, openRef, unread, called>>
vars == <<serverVars, wireVars, chatVars, lobbyVars, log, sent, cuts, budget>>

InRoom == budget.place = "room"
Present == budget.people
Others(p) == Present \ {p}

\* What is shown with a message: nothing yet, nothing to translate, the language
\* it was translated to, or a mark that this failed.
Shown == Langs \cup {"plain", "failed"}

ASSUME NoneAssumption == None \notin People \cup Shown

Msg(type, from, to, n, text, got) ==
    [type |-> type, from |-> from, to |-> to, n |-> n, text |-> text, got |-> got]

\* An entry on the screen; "seen" is history.
Entry(by, n, text, mine, got, seen) ==
    [by |-> by, n |-> n, text |-> text, mine |-> mine, got |-> got, seen |-> seen]

Spend(what) == budget[what] > 0 /\ budget' = [budget EXCEPT ![what] = @ - 1]

Linked(p) == link[p] # "down"

\* wsClient.send
Sent(p, m) == toServer' = [toServer EXCEPT ![p] = IF Linked(p) THEN Append(@, m) ELSE @]

\* What the server sends to p; nothing when the hub has no connection of p.
Push(p, m) == toClient' = [toClient EXCEPT ![p] = IF link[p] = "up" THEN Append(@, m) ELSE @]

Init ==
    /\ budget \in Budgets
    /\ lang = Speaks
    /\ at = [p \in People |-> IF p \in Present THEN "in" ELSE "out"]
    /\ joined = [p \in People |-> InRoom /\ p \in Present]
    /\ history = <<>> /\ stored = <<>>
    /\ jobs = [p \in People |-> {}] /\ busy = [p \in People |-> 0]
    /\ ending = [p \in People |-> 0]
    /\ link = [p \in People |-> "up"]
    /\ toServer = [p \in People |-> <<>>] /\ toClient = [p \in People |-> <<>>]
    /\ inCall = [p \in People |-> InRoom]
    /\ log = [p \in People |-> [q \in People |-> <<>>]]
    /\ pending = [p \in People |-> {}]
    /\ typing = [p \in People |-> FALSE]
    /\ timer = [p \in People |-> "none"]
    /\ open = [p \in People |-> None] /\ openRef = [p \in People |-> None]
    /\ unread = [p \in People |-> [q \in People |-> 0]]
    /\ sent = [p \in People |-> 0]
    /\ cuts = [p \in People |-> {}] /\ called = {}

-----------------------------------------------------------------------------
(* The buttons of the browsers                                             *)

Write(p, q, text) ==
    /\ Spend("send")
    /\ sent' = [sent EXCEPT ![p] = @ + 1]
    /\ log' = [log EXCEPT ![p][q] = Append(@, Entry(p, sent'[p], text, TRUE, None, TRUE))]
    /\ Sent(p, Msg("chat", p, q, sent'[p], text, None))

\* useChat: sendMessage.
SendMessage(p) ==
    /\ inCall[p]
    /\ \E q \in Others(p), text \in Texts :
        /\ pending' = [pending EXCEPT ![p] = @ \cup {text}]
        /\ Write(p, q, text)
    /\ UNCHANGED <<serverVars, link, toClient, inCall, typing, timer, lobbyVars, cuts>>

\* LobbyChat: handleSend, to the one whose chat is open.
SendDM(p) ==
    /\ open[p] # None
    /\ \E text \in Texts : Write(p, open[p], text)
    /\ UNCHANGED <<serverVars, link, toClient, chatVars, lobbyVars, cuts>>

SendTyping(p) ==
    /\ Spend("typing")
    /\ inCall[p]
    /\ \E q \in Others(p) : Sent(p, Msg("typing", p, q, 0, None, None))
    /\ UNCHANGED <<serverVars, link, toClient, chatVars, lobbyVars, log, sent, cuts>>

\* LanguageChanger.
ChangeLang(p) ==
    /\ Spend("lang")
    /\ inCall[p]
    /\ \E l \in Langs : Sent(p, Msg("lang", p, None, 0, None, l))
    /\ UNCHANGED <<serverVars, link, toClient, chatVars, lobbyVars, log, sent, cuts>>

\* setOpenChat.
OpenChat(p) ==
    /\ Spend("open")
    /\ ~InRoom /\ open[p] = None
    /\ \E q \in Others(p) :
        /\ open' = [open EXCEPT ![p] = q]
        /\ openRef' = [openRef EXCEPT ![p] = q]
        /\ unread' = [unread EXCEPT ![p][q] = 0]
        /\ log' = [log EXCEPT ![p][q] = [i \in DOMAIN @ |-> [@[i] EXCEPT !.seen = TRUE]]]
    /\ UNCHANGED <<serverVars, wireVars, chatVars, called, sent, cuts>>

\* A bug for the checks to find: only the page knows that the chat is closed.
CloseChatOnPage(p) ==
    /\ open[p] # None
    /\ open' = [open EXCEPT ![p] = None]
    /\ UNCHANGED <<serverVars, wireVars, chatVars, openRef, unread, called, log, sent, cuts,
                   budget>>

CloseChat(p) ==
    /\ open[p] # None
    /\ open' = [open EXCEPT ![p] = None]
    /\ openRef' = [openRef EXCEPT ![p] = None]
    /\ UNCHANGED <<serverVars, wireVars, chatVars, unread, called, log, sent, cuts, budget>>

\* The call button of the chat closes it on the page only.
CallFromChat(p) ==
    /\ open[p] # None
    /\ at[open[p]] = "in"
    /\ open' = [open EXCEPT ![p] = None]
    /\ called' = called \cup {p}
    /\ UNCHANGED <<serverVars, wireVars, chatVars, openRef, unread, log, sent, cuts, budget>>

-----------------------------------------------------------------------------
(* The server.  A reader takes the next message when it has done with the  *)
(* one before.                                                             *)

Job(m) == [step |-> "translate", to |-> m.to, n |-> m.n, text |-> m.text, got |-> None]

\* The connection of this handler is lost.
Old(p, j) == busy[p] # j.n

Next1(p, type) ==
    /\ Linked(p) /\ toServer[p] # <<>> /\ Head(toServer[p]).type = type
    /\ toServer' = [toServer EXCEPT ![p] = Tail(@)]

Take(p, type) == busy[p] = 0 /\ Next1(p, type)

\* A room is asked through the connection that joined it, the lobby by name.
Sender(p) == IF InRoom THEN joined[p] ELSE at[p] # "out"

\* handleChat and handleLobbyDM up to the translation.
Handle(p) ==
    LET m == Head(toServer[p])
    IN  IF Sender(p) /\ at[m.to] # "out"
        THEN /\ jobs' = [jobs EXCEPT ![p] = @ \cup {Job(m)}]
             /\ busy' = [busy EXCEPT ![p] = m.n]
        ELSE UNCHANGED <<jobs, busy>>

\* A bug for the checks to find: every message gets a goroutine of its own.
HandleChatInBackground(p) ==
    /\ Next1(p, "chat")
    /\ Handle(p)
    /\ UNCHANGED <<at, joined, lang, history, stored, ending, link, toClient, chatVars, lobbyVars,
                   log, sent, cuts, budget>>

HandleChat(p) ==
    /\ Take(p, "chat")
    /\ Handle(p)
    /\ UNCHANGED <<at, joined, lang, history, stored, ending, link, toClient, chatVars, lobbyVars,
                   log, sent, cuts, budget>>

\* Over the rate limit of a room's chat (or too long, which the input prevents):
\* the sender is shown an error, which names no message.
Refuse(p) ==
    /\ InRoom
    /\ Take(p, "chat")
    /\ UNCHANGED <<serverVars, link, toClient, chatVars, lobbyVars, log, sent, cuts, budget>>

\* relayToPeer.
RelayTyping(p) ==
    /\ Take(p, "typing")
    /\ LET m == Head(toServer[p]) IN
       IF joined[p] /\ at[m.to] # "out" THEN Push(m.to, m) ELSE UNCHANGED toClient
    /\ UNCHANGED <<serverVars, link, chatVars, lobbyVars, log, sent, cuts, budget>>

\* handleLangChange changes the participant that a handler of the other one may
\* be reading.
HandleLang(p) ==
    /\ Take(p, "lang")
    /\ lang' = [lang EXCEPT ![p] = IF joined[p] THEN Head(toServer[p]).got ELSE @]
    /\ UNCHANGED <<at, joined, history, stored, readerVars, link, toClient, chatVars, lobbyVars,
                   log, sent, cuts, budget>>

\* handleLobbyJoin of somebody who comes back.
HandleRejoin(p) ==
    /\ Take(p, "join")
    /\ at' = [at EXCEPT ![p] = "in"]
    /\ UNCHANGED <<joined, lang, history, stored, readerVars, link, toClient, chatVars, lobbyVars,
                   log, sent, cuts, budget>>

\* The job j of p goes on to its next step.
Step(p, j, next) == jobs' = [jobs EXCEPT ![p] = (@ \ {j}) \cup {next}]

\* What may come of a translation, now.
Outcomes(p, q) == IF lang[p] = lang[q] THEN {"plain"} ELSE {lang[q], "failed"}

\* Processor.Process, and the same in handleLobbyDM.
Translate(p, j) ==
    /\ j.step = "translate"
    /\ \E got \in Outcomes(p, j.to) :
        Step(p, j, [j EXCEPT !.step = IF InRoom THEN "store" ELSE "deliver", !.got = got])
    /\ UNCHANGED <<at, joined, lang, history, stored, busy, ending, wireVars, chatVars, lobbyVars,
                   log, sent, cuts, budget>>

\* A bug for the checks to find: the older half is kept.
CappedOld(h) == IF Len(h) >= MaxHistory THEN SubSeq(h, 1, MaxHistory \div 2) ELSE h

Capped(h) ==
    IF Len(h) >= MaxHistory THEN SubSeq(h, MaxHistory \div 2 + 1, Len(h)) ELSE h

\* Room.AddChatMessage.
AddChatMessage(p, j) ==
    /\ j.step = "store"
    /\ history' = Append(Capped(history), <<p, j.n>>)
    /\ stored' = Append(stored, <<p, j.n>>)
    /\ Step(p, j, [j EXCEPT !.step = "echo"])
    /\ UNCHANGED <<at, joined, lang, busy, ending, wireVars, chatVars, lobbyVars, log, sent, cuts,
                   budget>>

\* A room echoes first, the lobby delivers first.  With the last step a reader
\* whose connection is lost finds that out.
Done(p, j, last, next) ==
    IF last
    THEN /\ jobs' = [jobs EXCEPT ![p] = @ \ {j}]
         /\ busy' = [busy EXCEPT ![p] = IF Old(p, j) THEN @ ELSE 0]
         /\ ending' = [ending EXCEPT ![p] = IF Old(p, j) THEN @ + 1 ELSE @]
    ELSE /\ Step(p, j, [j EXCEPT !.step = next])
         /\ UNCHANGED <<busy, ending>>

\* To the connection of the handler, whatever the hub has.
Echo(p, j) ==
    /\ j.step = "echo"
    /\ Done(p, j, ~InRoom, "deliver")
    /\ toClient' = [toClient EXCEPT ![p] =
            IF Old(p, j) THEN @ ELSE Append(@, Msg("chat", p, j.to, j.n, j.text, j.got))]
    /\ UNCHANGED <<at, joined, lang, history, stored, link, toServer, chatVars, lobbyVars, log,
                   sent, cuts, budget>>

\* A bug for the checks to find: what could not be translated is not delivered.
DeliverTranslated(p, j) ==
    /\ j.step = "deliver"
    /\ Done(p, j, InRoom, "echo")
    /\ IF j.got # "failed"
       THEN Push(j.to, Msg("chat", p, j.to, j.n, j.text, j.got)) ELSE UNCHANGED toClient
    /\ UNCHANGED <<at, joined, lang, history, stored, link, toServer, chatVars, lobbyVars, log,
                   sent, cuts, budget>>

\* findPeerClient and Send.
Deliver(p, j) ==
    /\ j.step = "deliver"
    /\ Done(p, j, InRoom, "echo")
    /\ IF at[j.to] # "out" \/ ~InRoom
       THEN Push(j.to, Msg("chat", p, j.to, j.n, j.text, j.got)) ELSE UNCHANGED toClient
    /\ UNCHANGED <<at, joined, lang, history, stored, link, toServer, chatVars, lobbyVars, log,
                   sent, cuts, budget>>

-----------------------------------------------------------------------------
(* The end of a connection, and a new one                                  *)

\* A handler under way goes on.
Lose(p) ==
    /\ Spend("lose")
    /\ Linked(p)
    /\ link' = [link EXCEPT ![p] = "down"]
    /\ joined' = [joined EXCEPT ![p] = FALSE]
    /\ busy' = [busy EXCEPT ![p] = 0]
    /\ ending' = [ending EXCEPT ![p] = IF busy[p] = 0 THEN @ + 1 ELSE @]
    /\ toServer' = [toServer EXCEPT ![p] = <<>>]
    /\ toClient' = [toClient EXCEPT ![p] = <<>>]
    /\ cuts' = [cuts EXCEPT ![p] = @ \cup {sent[p]}]
    /\ UNCHANGED <<at, lang, history, stored, jobs, chatVars, lobbyVars, log, sent>>

\* HandleDisconnect, by the name of the client: whichever connection is over, the
\* hub forgets the one there is, and the one who joined is taken for lost.
HandleDisconnect(p) ==
    /\ ending[p] > 0
    /\ ending' = [ending EXCEPT ![p] = @ - 1]
    /\ link' = [link EXCEPT ![p] = IF @ = "up" THEN "deaf" ELSE @]
    /\ at' = [at EXCEPT ![p] = IF @ = "in" THEN "lost" ELSE @]
    /\ toClient' = [q \in People |->
            IF InRoom /\ at[p] = "in" /\ q \in Others(p) /\ at[q] # "out" /\ link[q] = "up"
            THEN Append(toClient[q], Msg("left", p, q, 0, None, None)) ELSE toClient[q]]
    /\ UNCHANGED <<joined, lang, history, stored, jobs, busy, toServer, chatVars, lobbyVars, log,
                   sent, cuts, budget>>

\* The lobby page joins again, a room page does not.
Reopen(p) ==
    /\ link[p] = "down"
    /\ link' = [link EXCEPT ![p] = "up"]
    /\ toServer' = [toServer EXCEPT ![p] =
            IF InRoom THEN @ ELSE Append(@, Msg("join", p, None, 0, None, None))]
    /\ UNCHANGED <<serverVars, toClient, chatVars, lobbyVars, log, sent, cuts, budget>>

\* The end of the grace in a room; in the lobby the sweep of offline users.
Removed(p) ==
    /\ at[p] = "lost"
    /\ at' = [at EXCEPT ![p] = "out"]
    /\ UNCHANGED <<joined, lang, history, stored, readerVars, wireVars, chatVars, lobbyVars, log,
                   sent, cuts, budget>>

-----------------------------------------------------------------------------
(* Messages at the browsers                                                *)

Hear(p, type) ==
    /\ Linked(p) /\ toClient[p] # <<>> /\ Head(toClient[p]).type = type
    /\ toClient' = [toClient EXCEPT ![p] = Tail(@)]
    /\ UNCHANGED <<serverVars, link, toServer, open, openRef, called, sent, cuts, budget>>

\* The own messages that an echo may belong to are those of its text.
OwnOf(entries, m) == {i \in DOMAIN entries : entries[i].mine /\ entries[i].text = m.text}

UpdateFirst(entries, m) ==
    LET own == OwnOf(entries, m)
    IN  IF own = {} THEN entries ELSE [entries EXCEPT ![Min(own)].got = m.got]

UpdateLastDm(entries, m) ==
    LET own == OwnOf(entries, m)
    IN  IF own = {} THEN entries ELSE [entries EXCEPT ![Max(own)].got = m.got]

\* A bug for the checks to find: an echo answers all that is pending.
StillPendingNone(p, text) == {}

StillPending(p, text) == pending[p] \ {text}

\* useChat: an echo belongs to the first own message of that text, if one is
\* pending; all else is shown as the other one's.
OnChat(p) ==
    LET m == Head(toClient[p])
        q == IF m.from = p THEN m.to ELSE m.from
        mine == m.from = p /\ m.text \in pending[p]
    IN  /\ InRoom
        /\ Hear(p, "chat")
        /\ typing' = [typing EXCEPT ![p] = @ /\ m.from = p]
        /\ pending' = [pending EXCEPT ![p] = IF mine THEN StillPending(p, m.text) ELSE @]
        /\ log' = [log EXCEPT ![p][q] =
                IF mine THEN UpdateFirst(@, m)
                ELSE Append(@, Entry(m.from, m.n, m.text, FALSE, m.got, TRUE))]
        /\ UNCHANGED <<inCall, timer, unread>>

\* LobbyChat: the echo goes to the chat that is open, to the last own message of
\* that text.
OnEcho(p) ==
    LET m == Head(toClient[p])
        q == open[p]
    IN  /\ ~InRoom
        /\ Hear(p, "chat") /\ m.from = p
        /\ log' = IF q = None THEN log ELSE [log EXCEPT ![p][q] = UpdateLastDm(@, m)]
        /\ UNCHANGED <<chatVars, unread>>

\* useLobby: a direct message of somebody else.
OnDM(p) ==
    LET m == Head(toClient[p])
        q == m.from
    IN  /\ ~InRoom
        /\ Hear(p, "chat") /\ q # p
        /\ log' = [log EXCEPT ![p][q] =
                Append(@, Entry(q, m.n, m.text, FALSE, m.got, open[p] = q))]
        /\ unread' = [unread EXCEPT ![p][q] = IF q = openRef[p] THEN @ ELSE @ + 1]
        /\ UNCHANGED chatVars

\* A bug for the checks to find: a timer is set once, as the handle is kept.
OnTypingOnce(p) ==
    /\ Hear(p, "typing")
    /\ typing' = [typing EXCEPT ![p] = TRUE]
    /\ timer' = [timer EXCEPT ![p] = IF @ = "none" THEN "set" ELSE @]
    /\ UNCHANGED <<inCall, pending, unread, log>>

\* The timer before is cleared.
OnTyping(p) ==
    /\ Hear(p, "typing")
    /\ typing' = [typing EXCEPT ![p] = TRUE]
    /\ timer' = [timer EXCEPT ![p] = "set"]
    /\ UNCHANGED <<inCall, pending, unread, log>>

TypingOver(p) ==
    /\ timer[p] = "set"
    /\ timer' = [timer EXCEPT ![p] = "fired"]
    /\ typing' = [typing EXCEPT ![p] = FALSE]
    /\ UNCHANGED <<serverVars, wireVars, inCall, pending, lobbyVars, log, sent, cuts, budget>>

\* useRoom: the page waits, and shows no chat.
OnPeerLeft(p) ==
    /\ Hear(p, "left")
    /\ inCall' = [inCall EXCEPT ![p] = FALSE]
    /\ UNCHANGED <<pending, typing, timer, unread, log>>

-----------------------------------------------------------------------------
Buttons(p) ==
    \/ SendMessage(p) \/ SendDM(p) \/ SendTyping(p) \/ ChangeLang(p)
    \/ OpenChat(p) \/ CloseChat(p) \/ CallFromChat(p)

Server(p) ==
    \/ HandleChat(p) \/ Refuse(p) \/ RelayTyping(p) \/ HandleLang(p) \/ HandleRejoin(p)
    \/ HandleDisconnect(p) \/ Removed(p)
    \/ \E j \in jobs[p] : Translate(p, j) \/ AddChatMessage(p, j) \/ Echo(p, j) \/ Deliver(p, j)

Browser(p) ==
    \/ OnChat(p) \/ OnEcho(p) \/ OnDM(p) \/ OnTyping(p) \/ TypingOver(p) \/ OnPeerLeft(p)

Next == \E p \in Present : Buttons(p) \/ Server(p) \/ Browser(p) \/ Lose(p) \/ Reopen(p)

Spec == Init /\ [][Next]_vars

\* Timers fire.
FairSpec == Spec /\ \A p \in People : WF_vars(TypingOver(p))

-----------------------------------------------------------------------------
Names == People \cup {None}
Words == Texts \cup {None}
Marks == Shown \cup {None}
Messages == [type : {"chat", "typing", "lang", "join", "left"}, from : People, to : Names,
             n : Nat, text : Words, got : Marks]
Entries == [by : People, n : Nat, text : Texts, mine : BOOLEAN, got : Marks, seen : BOOLEAN]
Jobs == [step : {"translate", "store", "echo", "deliver"}, to : People, n : Nat, text : Texts,
         got : Marks]

\* The types; a chat that is on the screen is the one that is not counted.
TypeOK ==
    /\ at \in [People -> {"in", "lost", "out"}] /\ joined \in [People -> BOOLEAN]
    /\ lang \in [People -> Langs]
    /\ history \in Seq(People \X Nat) /\ stored \in Seq(People \X Nat)
    /\ \A p \in People : jobs[p] \subseteq Jobs
    /\ busy \in [People -> Nat] /\ ending \in [People -> Nat]
    /\ link \in [People -> {"up", "down", "deaf"}]
    /\ toServer \in [People -> Seq(Messages)] /\ toClient \in [People -> Seq(Messages)]
    /\ inCall \in [People -> BOOLEAN]
    /\ log \in [People -> [People -> Seq(Entries)]]
    /\ pending \in [People -> SUBSET Texts]
    /\ typing \in [People -> BOOLEAN] /\ timer \in [People -> {"none", "set", "fired"}]
    /\ open \in [People -> Names] /\ openRef \in [People -> Names]
    /\ unread \in [People -> [People -> Nat]] /\ sent \in [People -> Nat]
    /\ cuts \in [People -> SUBSET Nat] /\ called \subseteq People
    /\ \A p \in People :
        open[p] # None => openRef[p] = open[p] /\ unread[p][open[p]] = 0

\* p never wrote the same text twice.
Distinct(p) ==
    \A q, r \in People : \A i \in DOMAIN log[p][q], k \in DOMAIN log[p][r] :
        LET e == log[p][q][i]
            f == log[p][r][k]
        IN  e.mine /\ f.mine /\ e.text = f.text => e.n = f.n

\* Messages that one person writes on one connection are shown to the other in the
\* order in which they were written, however long the translation of one takes, and
\* every message at most once.  One that was written before a loss of the writer's
\* connection may come after later ones: its handler goes on beside the next reader.
InOrder ==
    \A p, q \in People : \A i, k \in DOMAIN log[p][q] :
        LET e == log[p][q][i]
            f == log[p][q][k]
        IN  i < k /\ e.by = q /\ f.by = q =>
                e.n < f.n \/ \E c \in cuts[q] : f.n <= c /\ c < e.n

Quiet == \A p \in People : toServer[p] = <<>> /\ toClient[p] = <<>> /\ jobs[p] = {}

Uncut == \A p \in People : cuts[p] = {}

\* When all is done an echoed message is on the screen of the other one, with the
\* same translation or the same mark that there is none; in a room nothing else
\* is.  Excepted are the lost connections, and texts written twice.
EchoMeansShown ==
    Quiet /\ Uncut => \A p, q \in Present :
        p # q /\ Distinct(p) =>
            LET own == {e \in Range(log[p][q]) : e.mine /\ e.got # None}
                got == {f \in Range(log[q][p]) : f.by = p}
                Same(e, f) == e.n = f.n /\ e.text = f.text /\ e.got = f.got
            IN  /\ \A e \in own : \E f \in got : Same(e, f)
                /\ InRoom => \A f \in got : \E e \in own : Same(e, f)

\* Nobody's own words come back to him as the other one's: an echo finds its text
\* pending, whatever other messages are pending and whoever leaves.
OwnStaysOwn ==
    \A p, q \in People : Distinct(p) =>
        \A i \in DOMAIN log[p][q] : log[p][q][i].by = p => log[p][q][i].mine

\* The badge at a name counts the messages that have not been on the screen,
\* except for those who called somebody out of a chat.
BadgeRight ==
    \A p \in Present \ called, q \in People :
        unread[p][q] = Cardinality({i \in DOMAIN log[p][q] : ~log[p][q][i].seen})

\* The history of a room is bounded, and is the newest half at least of what may
\* be kept, without a gap; what anybody sees of a translation is in it or was.
HistoryNewest ==
    /\ Len(history) <= MaxHistory
    /\ IsSuffix(history, stored)
    /\ Len(history) = Len(stored) \/ Len(history) > MaxHistory \div 2
    /\ InRoom => \A p, q \in People : \A i \in DOMAIN log[p][q] :
        LET e == log[p][q][i]
        IN  e.got # None /\ Distinct(e.by) => <<e.by, e.n>> \in Range(stored)

\* Nobody is shown as typing for ever.
TypingEnds == \A p \in People : typing[p] ~> ~typing[p]
=============================================================================
