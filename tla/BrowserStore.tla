----------------------------- MODULE BrowserStore -----------------------------
(***************************************************************************)
(* The pages of frontend/src/App.tsx in the tabs of one browser, and what  *)
(* they keep: the conversation history and the chats in localStorage       *)
(* (lib/roomHistory.ts), which the tabs share, and the session and the     *)
(* marks of a lobby call in sessionStorage, which each tab has for itself. *)
(*                                                                         *)
(* A tab runs one callback at a time, and reading and writing localStorage *)
(* in a callback is one step; but what a page has read it may act on later.*)
(* The browser's own history is what its buttons can reach: any page of    *)
(* the application, as the address bar does, and with the state of its     *)
(* navigation the page of a call, but from a room at once to another room  *)
(* of the same document, which mounts no page.                             *)
(* A chat is the number of its messages; names, languages, dates and       *)
(* durations are left out.  Connections are in RoomCall, the camera is in  *)
(* RoomMedia.                                                              *)
(***************************************************************************)
EXTENDS Naturals, Sequences

CONSTANTS
    Tabs,
    Codes,       \* room codes
    CallCodes,   \* those of the rooms that lobby calls lead to
    None,
    MAX_ENTRIES, \* 20 in the code
    MaxMsgs      \* bound on the messages of a page

ASSUME BrowserStoreAssumption ==
    /\ MAX_ENTRIES \in Nat \ {0} /\ MaxMsgs \in Nat
    /\ None \notin Codes /\ CallCodes \subseteq Codes

VARIABLES
    history,     \* localStorage: the entries, newest first
    chats,       \* localStorage: the stored chat of a code, 0 for none
    page,        \* what a tab shows
    session,     \* sessionStorage: [flag: fromLobby and its name, room: qhat_session]
    \* History
    own,         \* the room a tab has entered last, by the form or by a call, and
                 \* neither left nor forgotten on the way home
    called,      \* tabs that showed the page of a lobby call since the home page
    calls,       \* the rooms whose pages the browser's history of a tab may hold with
                 \* the state of a call
    torn         \* codes whose entry and chat were parted: by an entry that was
                 \* pushed out, by a save without an entry, or by one that failed

histVars == <<own, called, calls>>
vars == <<history, chats, page, session, histVars, torn>>

-----------------------------------------------------------------------------
(* lib/roomHistory.ts                                                      *)

IndexOf(code) == {i \in 1..Len(history) : history[i].code = code}

Listed(code) == IndexOf(code) # {}

\* The list without the entry of a code; every code is in it once (TypeOK).
Without(code) ==
    LET i == CHOOSE j \in IndexOf(code) : TRUE
    IN  IF Listed(code) THEN SubSeq(history, 1, i - 1) \o SubSeq(history, i + 1, Len(history))
        ELSE history

\* A bug for the checks to find: an entry that is written again starts from zero.
CountNone(code) == 0

\* messageCount of an entry that is written again.
Count(code) == IF Listed(code) THEN history[CHOOSE i \in IndexOf(code) : TRUE].count ELSE 0

\* slice(0, MAX_ENTRIES)
Cut(entries) == SubSeq(entries, 1, IF Len(entries) < MAX_ENTRIES THEN Len(entries) ELSE MAX_ENTRIES)

\* The entry goes to the front; the chat of an entry that is pushed out stays.
AddRoomHistory(code) ==
    LET entries == <<[code |-> code, count |-> Count(code)]>> \o Without(code)
        out == {entries[i].code : i \in (MAX_ENTRIES + 1)..Len(entries)}
    IN  /\ history' = Cut(entries)
        /\ torn' = torn \cup {c \in out : chats[c] > 0}

\* messageCount; nothing without an entry.
UpdateRoomHistory(code, count) ==
    history' = [i \in 1..Len(history) |->
                    IF history[i].code = code THEN [history[i] EXCEPT !.count = count]
                    ELSE history[i]]

\* A bug for the checks to find: the list goes, the chats stay.
ClearListOnly ==
    /\ history' = <<>>
    /\ UNCHANGED <<chats, torn>>

\* The chats of the entries there are now, whatever the page shows.
ClearRoomHistory ==
    /\ history' = <<>>
    /\ chats' = [c \in Codes |-> IF Listed(c) THEN 0 ELSE chats[c]]
    /\ torn' = {c \in torn : ~Listed(c)}

DeleteRoomHistoryEntry(code) ==
    /\ history' = Without(code)
    /\ chats' = [chats EXCEPT ![code] = 0]
    /\ torn' = torn \ {code}

-----------------------------------------------------------------------------
(* Pages.  "list" is the copy of the history a page has read when it came. *)

Page(at) == [at |-> at, code |-> None, list |-> {}, call |-> FALSE, phase |-> "none",
             by |-> "none", heard |-> FALSE, msgs |-> 0]

Entries == {history[i].code : i \in 1..Len(history)}

Init ==
    /\ history = <<>>
    /\ chats = [c \in Codes |-> 0]
    /\ page = [t \in Tabs |-> Page("home")]
    /\ session = [t \in Tabs |-> [flag |-> FALSE, room |-> None]]
    /\ own = [t \in Tabs |-> None]
    /\ called = {}
    /\ calls = [t \in Tabs |-> {}]
    /\ torn = {}

\* LandingPage reads the history and cleans the state of the tab.
Home(t) ==
    /\ page' = [page EXCEPT ![t] = [Page("home") EXCEPT !.list = Entries']]
    /\ session' = [session EXCEPT ![t] = [flag |-> FALSE, room |-> None]]
    /\ own' = [own EXCEPT ![t] = None]
    /\ called' = called \ {t}
    /\ UNCHANGED calls

\* A bug for the checks to find: a session of any room will do.
LoadSessionAny(t, code) == session[t].room # None

\* loadSession: the session is for this room.
LoadSession(t, code) == session[t].room = code

\* RoomPage is mounted.  After a lobby call, or with what one has left in the
\* tab, it joins at once and takes it that there is a connection, "wired"; with a
\* session it connects and joins; else it shows the form.
OpenRoom(t, code, call, wired) ==
    LET flag == session[t].flag \/ call
        by == IF flag THEN "flag" ELSE IF LoadSession(t, code) THEN "session" ELSE "none"
    IN  /\ page' = [page EXCEPT ![t] =
                [Page("room") EXCEPT !.code = code, !.call = call, !.by = by,
                    !.phase = IF by = "none" THEN "form" ELSE "waiting",
                    !.heard = by = "session" \/ (by = "flag" /\ wired)]]
        /\ session' = [session EXCEPT ![t] =
                [flag |-> flag, room |-> IF by = "none" THEN @.room ELSE code]]
        /\ UNCHANGED <<history, chats, torn>>

\* A room that is made or named on the home page.
OpenByCode(t, code) ==
    /\ page[t].at = "home"
    /\ OpenRoom(t, code, FALSE, FALSE)
    /\ UNCHANGED histVars

\* The buttons that lead home, those of the lobby among them, and the ways of the
\* browser: home, as from any page,
GoHome(t) ==
    /\ UNCHANGED <<history, chats, torn>>
    /\ Home(t)

\* to the lobby,
EnterLobby(t) ==
    /\ page' = [page EXCEPT ![t] = Page("lobby")]
    /\ UNCHANGED <<history, chats, session, histVars, torn>>

\* to a room by its address, on which the page is loaded anew, or back to its page,
\* where there may be a connection still,
OpenLink(t, code) ==
    /\ \E wired \in BOOLEAN : OpenRoom(t, code, FALSE, wired)
    /\ UNCHANGED histVars

\* and back to the page of a call, with the state of its navigation.
Back(t, code) ==
    /\ code \in calls[t]
    /\ \E wired \in BOOLEAN : OpenRoom(t, code, TRUE, wired)
    /\ called' = called \cup {t}
    /\ UNCHANGED <<own, calls>>

\* A reload; the state of a navigation outlives it.
Reload(t) ==
    /\ page[t].at = "room"
    /\ OpenRoom(t, page[t].code, page[t].call, FALSE)
    /\ UNCHANGED histVars

\* handleJoinCall of the lobby page
JoinCall(t, code) ==
    /\ page[t].at = "lobby" /\ code \in CallCodes
    /\ OpenRoom(t, code, TRUE, TRUE)
    /\ own' = [own EXCEPT ![t] = code]
    /\ called' = called \cup {t}
    /\ calls' = [calls EXCEPT ![t] = @ \cup {code}]

\* "Clear" is there when the page has read a history.
ClickClear(t) ==
    /\ page[t].at = "home" /\ page[t].list # {}
    /\ ClearRoomHistory
    /\ page' = [page EXCEPT ![t].list = {}]
    /\ UNCHANGED <<session, histVars>>

\* HistoryPage, from the list a home page has read, or on a way of the browser: the
\* entry may be gone.
OpenHistory(t, code) ==
    /\ page' = [page EXCEPT ![t] =
            [Page("history") EXCEPT !.code = code, !.list = Entries \cap {code}]]
    /\ UNCHANGED <<history, chats, session, histVars, torn>>

HandleDelete(t) ==
    /\ page[t].at = "history" /\ page[t].list # {}
    /\ DeleteRoomHistoryEntry(page[t].code)
    /\ Home(t)

HandleRejoin(t) ==
    /\ page[t].at = "history" /\ page[t].list # {}
    /\ \E wired \in BOOLEAN : OpenRoom(t, page[t].code, FALSE, wired)
    /\ UNCHANGED histVars

-----------------------------------------------------------------------------
(* A room page                                                             *)

HandleJoin(t) ==
    /\ page[t].phase = "form"
    /\ page' = [page EXCEPT ![t].phase = "waiting", ![t].by = "form", ![t].heard = TRUE]
    /\ session' = [session EXCEPT ![t].room = page[t].code]
    /\ own' = [own EXCEPT ![t] = page[t].code]
    /\ UNCHANGED <<history, chats, called, calls, torn>>

\* Someone else is in the room, or comes again.
OnPeerJoined(t) ==
    /\ page[t].heard /\ page[t].phase \in {"waiting", "connecting", "connected"}
    /\ page' = [page EXCEPT ![t].phase = "connecting"]
    /\ AddRoomHistory(page[t].code)
    /\ UNCHANGED <<chats, session, histVars>>

\* Another language, chosen before the call is shown as connected, writes the
\* entry again.
ChangeLang(t) ==
    /\ page[t].phase = "connecting"
    /\ AddRoomHistory(page[t].code)
    /\ UNCHANGED <<chats, page, session, histVars>>

ShowCall(t) ==
    /\ page[t].phase = "connecting"
    /\ page' = [page EXCEPT ![t].phase = "connected"]
    /\ UNCHANGED <<history, chats, session, histVars, torn>>

\* The effect of RoomPage on chat.messages: a message more, or an echo that
\* changes one.  A store that is full drops the chat, not the count.
Messages(t) ==
    LET code == page[t].code IN
    /\ page[t].phase \in {"connecting", "connected"}
    /\ \E n \in {page[t].msgs, page[t].msgs + 1} \ {0}, full \in BOOLEAN :
        /\ n <= MaxMsgs
        /\ page' = [page EXCEPT ![t].msgs = n]
        /\ chats' = IF full THEN chats ELSE [chats EXCEPT ![code] = n]
        /\ UpdateRoomHistory(code, n)
        /\ torn' = IF Listed(code) /\ ~full THEN torn \ {code} ELSE torn \cup {code}
    /\ UNCHANGED <<session, histVars>>

\* The session and the marks are removed; the page is drawn once more, and one
\* that came from the lobby marks the tab again, before it goes.
End(t) ==
    /\ session' = [session EXCEPT ![t] = [flag |-> page[t].call, room |-> None]]
    /\ page' = [page EXCEPT ![t] = Page(IF page[t].call THEN "lobby" ELSE "ended")]
    /\ own' = [own EXCEPT ![t] = IF @ = page[t].code THEN None ELSE @]
    /\ UNCHANGED <<history, chats, called, calls, torn>>

LeaveRoom(t) ==
    /\ page[t].phase \in {"connecting", "connected"}
    /\ End(t)

OnPeerLeft(t) ==
    /\ page[t].phase \in {"connecting", "connected"}
    /\ IF session[t].flag
       THEN End(t)
       ELSE /\ page' = [page EXCEPT ![t].phase = "waiting"]
            /\ UNCHANGED <<history, chats, session, histVars, torn>>

OnRoomFull(t) ==
    /\ page[t].heard /\ page[t].phase = "waiting"
    /\ page' = [page EXCEPT ![t].phase = "error"]
    /\ session' = [session EXCEPT ![t].room = None]
    /\ own' = [own EXCEPT ![t] = IF @ = page[t].code THEN None ELSE @]
    /\ UNCHANGED <<history, chats, called, calls, torn>>

Next ==
    \E t \in Tabs :
        \/ GoHome(t) \/ EnterLobby(t) \/ Reload(t) \/ ClickClear(t)
        \/ HandleDelete(t) \/ HandleRejoin(t) \/ HandleJoin(t)
        \/ OnPeerJoined(t) \/ ChangeLang(t) \/ ShowCall(t) \/ Messages(t)
        \/ LeaveRoom(t) \/ OnPeerLeft(t) \/ OnRoomFull(t)
        \/ \E code \in Codes :
                \/ OpenByCode(t, code) \/ OpenLink(t, code) \/ Back(t, code)
                \/ JoinCall(t, code) \/ OpenHistory(t, code)

Spec == Init /\ [][Next]_vars

-----------------------------------------------------------------------------
Pages ==
    [at : {"home", "lobby", "room", "history", "ended"}, code : Codes \cup {None},
     list : SUBSET Codes, call : BOOLEAN,
     phase : {"none", "form", "waiting", "connecting", "connected", "error"},
     by : {"none", "flag", "session", "form"}, heard : BOOLEAN, msgs : 0..MaxMsgs]

\* The types; the history stays within its limit and has every code once,
\* whichever tabs write it.
TypeOK ==
    /\ history \in Seq([code : Codes, count : 0..MaxMsgs])
    /\ Len(history) <= MAX_ENTRIES
    /\ \A i, j \in 1..Len(history) : history[i].code = history[j].code => i = j
    /\ chats \in [Codes -> 0..MaxMsgs]
    /\ page \in [Tabs -> Pages]
    /\ session \in [Tabs -> [flag : BOOLEAN, room : Codes \cup {None}]]
    /\ own \in [Tabs -> Codes \cup {None}] /\ called \subseteq Tabs
    /\ calls \in [Tabs -> SUBSET Codes] /\ torn \subseteq Codes

\* The number the home page shows beside a conversation (LandingPage.tsx:154) is
\* the number of messages that HistoryPage finds, after refreshes, a second tab
\* in the same room, and rooms entered again, unless the two were parted.
CountRight ==
    \A i \in 1..Len(history) :
        history[i].code \notin torn => history[i].count = chats[history[i].code]

\* A chat can be reached, and cleared, by its entry; nothing is left behind in
\* the browser when entries are deleted and cleared (PrivacyPage.tsx:84), while
\* rooms are open in other tabs, unless the two were parted.
NoOrphans == \A c \in Codes : chats[c] > 0 /\ c \notin torn => Listed(c)

\* A page joins by itself only where its user has been let in from this tab: with
\* a session in the room he entered last and has not left since, and with the marks
\* of a lobby call only after the page of one since he was home; and where the
\* state of a navigation sets the marks again, which the browser's way back does
\* long after the call, in a room to which he was called.
JoinsByRight ==
    \A t \in Tabs :
        /\ page[t].by = "session" /\ page[t].phase # "error" => page[t].code = own[t]
        /\ page[t].by = "flag" => t \in called /\ (page[t].call => page[t].code \in calls[t])
=============================================================================
