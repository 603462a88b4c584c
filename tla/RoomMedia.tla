------------------------------ MODULE RoomMedia ------------------------------
(***************************************************************************)
(* The camera and the microphone of one browser, frontend/src/hooks/       *)
(* useMedia.ts as RoomPage.tsx, its preview and its controls use it, and   *)
(* what the page at the other end receives and shows of them.              *)
(*                                                                         *)
(* getUserMedia is a question to the user and the browser: it may be       *)
(* answered at any time, in any order, or never, and the page may be gone  *)
(* by then.  A page that is closed inside the application leaves its       *)
(* pending questions behind; a reload does not.                            *)
(***************************************************************************)
EXTENDS Naturals, Sequences

CONSTANTS
    Cams, NoCam, \* the cameras, and no choice of one
    MaxAsked,    \* bound on the questions
    MaxVisits,   \* bound on the pages opened
    MaxQueue     \* bound on the messages under way

ASSUME RoomMediaAssumption ==
    MaxAsked \in Nat /\ MaxVisits \in Nat /\ MaxQueue \in Nat /\ NoCam \notin Cams

VARIABLES
    page,        \* "gone", "form" (preview and form), "auto" (joins by itself),
                 \* "waiting" or "call"
    visit,       \* number of the page: a question belongs to one
    streamRef,   \* useMedia: streamRef.current, 0 for null
    shown,       \* useMedia: localStream # null; it has the tracks of streamRef
    cameras,     \* useMedia: more than one camera is listed
    activeCam,   \* useMedia: activeCameraId and cameraRef.current
    savedCam,    \* sessionStorage: cameraDeviceId
    on,          \* useMedia: audioEnabled and videoEnabled, with their copies in
                 \* sessionStorage
    requests,    \* pending questions, and grants whose cameras are being listed
    stream,      \* the MediaStreams, by the question that was granted
    pc,          \* useWebRTC: the tracks of its senders, 0 for none
    link,        \* the connection has joined the room
    toPeer,      \* media_state messages on their way
    peerSees,    \* RoomPage of the peer: peerAudioEnabled and peerVideoEnabled
    \* History and bounds
    asked,       \* questions asked
    overlap,     \* two requestPermissions of this page were pending at once
    stray,       \* streams that were granted to a page that was gone, or that
                 \* were replaced by another grant
    flipped,     \* the video track was replaced while the camera was off
    camLost,     \* a replacement failed, or two were pending at once
    synced       \* the peer has been told since it came, and nothing was lost

mediaVars == <<streamRef, shown, cameras, activeCam, savedCam, on>>
wireVars == <<link, toPeer, peerSees>>
histVars == <<asked, overlap, stray, flipped, camLost, synced>>
vars == <<page, visit, mediaVars, requests, stream, pc, wireVars, histVars>>

-----------------------------------------------------------------------------
\* A video track is named after the question that brought it.
Track(n, cam) == [id |-> n, cam |-> cam, on |-> TRUE]

\* A track that was stopped is as good as none, and is left out.
Stopped == [mic |-> "none", video |-> <<>>]

Live(s) == stream[s].mic # "none" \/ stream[s].video # <<>>

Granted(n, cam) == [mic |-> "on", video |-> <<Track(n, cam)>>]

NoPC == [made |-> FALSE, mic |-> 0, video |-> 0]

\* A bug for the checks to find: what was muted before starts on.
EnableAll(s, prefs) == s

\* The saved choices become track.enabled of every track.
Enable(s, prefs) ==
    [mic |-> IF s.mic = "none" THEN "none" ELSE IF prefs.mic THEN "on" ELSE "muted",
     video |-> [i \in DOMAIN s.video |-> [s.video[i] EXCEPT !.on = prefs.cam]]]

Flip(s, what) ==
    IF what = "mic" THEN [s EXCEPT !.mic = CASE @ = "on" -> "muted" [] @ = "muted" -> "on"
                                             [] OTHER -> @]
    ELSE [s EXCEPT !.video = [i \in DOMAIN s.video |-> [s.video[i] EXCEPT !.on = ~@]]]

Remove(tracks, i) == SubSeq(tracks, 1, i - 1) \o SubSeq(tracks, i + 1, Len(tracks))

\* removeTrack and stop of the old track, which may be gone, addTrack of the new one.
Swap(s, old, new) ==
    LET there == {i \in 1..Len(s.video) : s.video[i].id = old}
        rest == IF there = {} THEN s.video ELSE Remove(s.video, CHOOSE i \in there : TRUE)
    IN  [s EXCEPT !.video = Append(rest, new)]

\* buildVideoConstraints: the chosen camera and no other, or whichever the
\* browser takes.
Choices(cam) == IF cam = NoCam THEN Cams ELSE {cam}

Mounted(r) == page # "gone" /\ r.visit = visit

Init ==
    /\ page = "gone" /\ visit = 0
    /\ streamRef = 0 /\ shown = FALSE /\ cameras = FALSE
    /\ activeCam = NoCam /\ savedCam = NoCam
    /\ on \in [mic : BOOLEAN, cam : BOOLEAN]
    /\ requests = {}
    /\ stream = [s \in 1..MaxAsked |-> Stopped]
    /\ pc = NoPC
    /\ link = TRUE /\ toPeer = <<>> /\ peerSees = [mic |-> TRUE, cam |-> TRUE]
    /\ asked = 0 /\ overlap = FALSE /\ stray = {}
    /\ flipped = FALSE /\ camLost = FALSE /\ synced = FALSE

-----------------------------------------------------------------------------
(* Questions                                                               *)

Pending(v, what) == \E r \in requests : r.visit = v /\ r.what \in what

\* getUserMedia, for the page v; join: the page joins the room when it is answered.
Ask(before, v, cam, join) ==
    /\ asked < MaxAsked
    /\ asked' = asked + 1
    /\ requests' = before \cup {[n |-> asked + 1, visit |-> v, what |-> "ask",
                                 stream |-> asked + 1, old |-> 0, cam |-> cam, join |-> join]}

\* replaceVideoTrack, up to the question.  The track to be replaced is chosen
\* now; without a stream nothing is asked.
AskReplace(cam) ==
    /\ asked < MaxAsked
    /\ streamRef # 0 /\ stream[streamRef].video # <<>>
    /\ asked' = asked + 1
    /\ requests' = requests \cup {[n |-> asked + 1, visit |-> visit, what |-> "replace",
                                   stream |-> streamRef, old |-> Head(stream[streamRef].video).id,
                                   cam |-> cam, join |-> FALSE]}
    /\ camLost' = (camLost \/ Pending(visit, {"ask", "list", "replace"}))

-----------------------------------------------------------------------------
(* The page                                                                *)

\* The state of a page that is mounted; what is asked next comes from Ask.
Mount(p, before) ==
    /\ visit < MaxVisits
    /\ visit' = visit + 1
    /\ page' = p
    /\ streamRef' = 0 /\ shown' = FALSE /\ cameras' = FALSE
    /\ activeCam' = savedCam
    /\ pc' = NoPC
    /\ link' = TRUE /\ toPeer' = <<>>
    /\ overlap' = FALSE /\ flipped' = FALSE /\ camLost' = FALSE /\ synced' = FALSE
    /\ Ask(before, visit + 1, savedCam, p = "auto")
    /\ UNCHANGED <<savedCam, on, peerSees>>

\* The preview asks when it is mounted; a page that comes from a lobby call or
\* finds its session asks and joins.
OpenForm == page = "gone" /\ Mount("form", requests) /\ UNCHANGED <<stream, stray>>

OpenAuto == page = "gone" /\ Mount("auto", requests) /\ UNCHANGED <<stream, stray>>

\* A reload ends every track, and nobody is left to answer.
Reload ==
    /\ page # "gone"
    /\ Mount(IF page \in {"waiting", "call"} THEN "auto" ELSE "form", {})
    /\ stream' = [s \in 1..MaxAsked |-> Stopped]
    /\ stray' = {}

\* A bug for the checks to find: the page forgets its tracks.
StopNothing == stream

StopTracks == IF streamRef = 0 THEN stream ELSE [stream EXCEPT ![streamRef] = Stopped]

\* stopMedia at the end of a call, and the cleanup of a page that is unmounted.
Leave ==
    /\ page # "gone"
    /\ page' = "gone"
    /\ streamRef' = 0 /\ shown' = FALSE
    /\ stream' = StopTracks
    /\ pc' = NoPC
    /\ synced' = FALSE
    /\ UNCHANGED <<visit, cameras, activeCam, savedCam, on, requests, wireVars,
                   asked, overlap, stray, flipped, camLost>>

\* The form: the page joins at once if there is a picture.  It may be sent again
\* while the question is open.
HandleJoin ==
    /\ page = "form"
    /\ IF shown
       THEN page' = "waiting" /\ UNCHANGED <<requests, asked, overlap>>
       ELSE /\ Ask(requests, visit, activeCam, TRUE)
            /\ overlap' = (overlap \/ Pending(visit, {"ask", "list"}))
            /\ UNCHANGED page
    /\ UNCHANGED <<visit, mediaVars, stream, pc, wireVars, stray, flipped, camLost, synced>>

\* joinRoom once for a page.
Joins(r) == IF r.join /\ Mounted(r) /\ page \in {"form", "auto"} THEN "waiting" ELSE page

-----------------------------------------------------------------------------
(* Answers                                                                 *)

\* A bug for the checks to find: the sender keeps the track that was stopped.
FollowNot(s) == pc

\* The effect of useWebRTC: the video sender follows the first track.  A
\* connection that was made without a stream has no sender.
Follow(s) ==
    [pc EXCEPT !.video = IF pc.made /\ @ # 0 /\ s.video # <<>> THEN Head(s.video).id ELSE @]

\* requestPermissions goes on with the stream, and lists the cameras.
Grant(r) ==
    /\ r.what = "ask"
    /\ \E cam \in Choices(r.cam) : stream' = [stream EXCEPT ![r.stream] = Granted(r.n, cam)]
    /\ requests' = (requests \ {r}) \cup {[r EXCEPT !.what = "list"]}
    /\ IF Mounted(r)
       THEN /\ streamRef' = r.stream /\ shown' = TRUE
            /\ stray' = stray \cup ({streamRef} \ {0})
            /\ pc' = Follow(stream'[r.stream])
       ELSE /\ stray' = stray \cup {r.stream}
            /\ UNCHANGED <<streamRef, shown, pc>>
    /\ UNCHANGED <<page, visit, cameras, activeCam, savedCam, on, wireVars,
                   asked, overlap, flipped, camLost, synced>>

\* enumerateCameras, which may fail, or find one camera only.
EnumerateCameras == {cameras, TRUE}

\* The cameras are listed; requestPermissions ends with the saved choices, and whoever waited for it joins.
Listed(r) ==
    /\ r.what = "list"
    /\ requests' = requests \ {r}
    /\ stream' = [stream EXCEPT ![r.stream] = Enable(@, on)]
    /\ page' = Joins(r)
    /\ IF Mounted(r)
       THEN /\ cameras' \in EnumerateCameras
            /\ activeCam' = IF stream[r.stream].video = <<>> THEN activeCam
                            ELSE Head(stream[r.stream].video).cam
            /\ flipped' = FALSE
       ELSE UNCHANGED <<cameras, activeCam, flipped>>
    /\ UNCHANGED <<visit, streamRef, shown, savedCam, on, pc, wireVars,
                   asked, overlap, stray, camLost, synced>>

\* Text only.  The reference is kept.
Deny(r) ==
    /\ r.what = "ask"
    /\ requests' = requests \ {r}
    /\ shown' = (shown /\ ~Mounted(r))
    /\ page' = Joins(r)
    /\ UNCHANGED <<visit, streamRef, cameras, activeCam, savedCam, on, stream, pc, wireVars,
                   histVars>>

\* The new track is enabled, whatever the camera button says.
Replaced(r) ==
    /\ r.what = "replace"
    /\ requests' = requests \ {r}
    /\ \E cam \in Choices(r.cam) :
        /\ stream' = [stream EXCEPT ![r.stream] = Swap(@, r.old, Track(r.n, cam))]
        /\ activeCam' = IF Mounted(r) THEN cam ELSE activeCam
    /\ IF Mounted(r)
       THEN /\ streamRef' = r.stream /\ shown' = TRUE
            /\ stray' = stray \cup ({streamRef} \ {0, r.stream})
            /\ pc' = Follow(stream'[r.stream])
            /\ flipped' = (~on.cam \/ (flipped /\ Len(stream'[r.stream].video) > 1))
       ELSE /\ stray' = stray \cup {r.stream}
            /\ UNCHANGED <<streamRef, shown, pc, flipped>>
    /\ UNCHANGED <<page, visit, cameras, savedCam, on, wireVars, asked, overlap,
                   camLost, synced>>

\* The current track is kept, and so is the choice of the camera that failed.
ReplaceFailed(r) ==
    /\ r.what = "replace"
    /\ requests' = requests \ {r}
    /\ camLost' = (camLost \/ Mounted(r))
    /\ UNCHANGED <<page, visit, mediaVars, stream, pc, wireVars, asked, overlap, stray,
                   flipped, synced>>

-----------------------------------------------------------------------------
(* The controls: in the preview and in the call, while there is a picture. *)

Previewing == page = "form" /\ shown
Controls == page = "call" /\ shown

\* A camera is chosen in the preview or from the menu of the call, which are
\* there when there is a choice.
CameraMenu == cameras /\ (Previewing \/ Controls)

ChangeCamera(cam) ==
    /\ CameraMenu
    /\ activeCam' = cam /\ savedCam' = cam
    /\ AskReplace(cam)
    /\ UNCHANGED <<page, visit, streamRef, shown, cameras, on, stream, pc, wireVars,
                   overlap, stray, flipped, synced>>

\* The quality is only a part of the question.
ChangeQuality ==
    /\ Controls
    /\ AskReplace(activeCam)
    /\ UNCHANGED <<page, visit, mediaVars, stream, pc, wireVars, overlap, stray, flipped, synced>>

\* toggleAudio and toggleVideo
Toggle(what) ==
    /\ on' = [on EXCEPT ![what] = ~@]
    /\ stream' = [stream EXCEPT ![streamRef] = Flip(@, what)]
    /\ UNCHANGED <<page, visit, streamRef, shown, cameras, activeCam, savedCam, requests, pc,
                   link, peerSees, asked, overlap, stray, flipped, camLost>>

TogglePreview(what) ==
    /\ Previewing
    /\ Toggle(what)
    /\ synced' = FALSE
    /\ UNCHANGED toPeer

\* A bug for the checks to find: the peer is told what was true before.
MediaStateBefore == on

\* handleToggleAudio and handleToggleVideo tell the peer both.
MediaState == on'

ToggleInCall(what) ==
    /\ Controls /\ Len(toPeer) < MaxQueue
    /\ Toggle(what)
    /\ toPeer' = IF link THEN Append(toPeer, MediaState) ELSE toPeer
    /\ synced' = link

-----------------------------------------------------------------------------
(* The peer                                                                *)

\* createPC adds the tracks there are; they are never added later.
CreatePC ==
    pc' = [made |-> TRUE,
           mic |-> IF shown THEN streamRef ELSE 0,
           video |-> IF shown /\ stream[streamRef].video # <<>>
                     THEN Head(stream[streamRef].video).id ELSE 0]

PeerComes ==
    /\ page = "waiting" /\ link
    /\ page' = "call"
    /\ CreatePC
    /\ UNCHANGED <<visit, mediaVars, requests, stream, wireVars, histVars>>

\* The peer leaves or refreshes its page: a new page believes that all is on.
PeerGoes ==
    /\ page = "call" /\ link
    /\ page' = "waiting"
    /\ toPeer' = <<>>
    /\ peerSees' = [mic |-> TRUE, cam |-> TRUE]
    /\ synced' = FALSE
    /\ UNCHANGED <<visit, mediaVars, requests, stream, pc, link, asked, overlap, stray,
                   flipped, camLost>>

\* The connection is lost.  The page does not join again (see RoomCall).
Drop ==
    /\ page \in {"waiting", "call"} /\ link
    /\ link' = FALSE
    /\ synced' = FALSE
    /\ UNCHANGED <<page, visit, mediaVars, requests, stream, pc, toPeer, peerSees,
                   asked, overlap, stray, flipped, camLost>>

OnMediaState ==
    /\ toPeer # <<>>
    /\ peerSees' = Head(toPeer)
    /\ toPeer' = Tail(toPeer)
    /\ UNCHANGED <<page, visit, mediaVars, requests, stream, pc, link, histVars>>

\* "Muted" and "Cam off" on the peer's page.
Badge(what) == ~peerSees[what]

\* What the page shows to its own user.
SelfVideo == IF shown THEN stream[streamRef].video ELSE <<>>

-----------------------------------------------------------------------------
Answer == \E r \in requests :
    Grant(r) \/ Listed(r) \/ Deny(r) \/ Replaced(r) \/ ReplaceFailed(r)

User ==
    \/ OpenForm \/ OpenAuto \/ Reload \/ Leave \/ HandleJoin \/ ChangeQuality
    \/ \E cam \in Cams : ChangeCamera(cam)
    \/ \E what \in {"mic", "cam"} : TogglePreview(what) \/ ToggleInCall(what)

Peer == PeerComes \/ PeerGoes \/ Drop \/ OnMediaState

Next == Answer \/ User \/ Peer

Spec == Init /\ [][Next]_vars

-----------------------------------------------------------------------------
Streams == 1..MaxAsked
Switches == [mic : BOOLEAN, cam : BOOLEAN]
Tracks == [id : Streams, cam : Cams, on : BOOLEAN]
Requests ==
    [n : Streams, visit : 1..MaxVisits, what : {"ask", "list", "replace"}, stream : Streams,
     old : 0..MaxAsked, cam : Cams \cup {NoCam}, join : BOOLEAN]

\* The types; a picture that is shown comes from a stream.
TypeOK ==
    /\ page \in {"gone", "form", "auto", "waiting", "call"} /\ visit \in 0..MaxVisits
    /\ streamRef \in 0..MaxAsked /\ shown \in BOOLEAN /\ cameras \in BOOLEAN
    /\ activeCam \in Cams \cup {NoCam} /\ savedCam \in Cams \cup {NoCam}
    /\ on \in Switches
    /\ requests \subseteq Requests
    /\ stream \in [Streams -> [mic : {"none", "on", "muted"}, video : Seq(Tracks)]]
    /\ pc \in [made : BOOLEAN, mic : 0..MaxAsked, video : 0..MaxAsked]
    /\ link \in BOOLEAN /\ toPeer \in Seq(Switches) /\ peerSees \in Switches
    /\ asked \in 0..MaxAsked /\ stray \subseteq Streams
    /\ overlap \in BOOLEAN /\ flipped \in BOOLEAN /\ camLost \in BOOLEAN /\ synced \in BOOLEAN
    /\ shown => streamRef # 0 /\ page # "gone"

\* A camera or a microphone that is on belongs to the page that is open, which
\* will stop it (useMedia.ts:171-181): nothing goes on recording after the call,
\* after the way back from the form, or after a change of the camera.  Excepted
\* are the grants that come when the page is gone, and those that another grant
\* has replaced.
Released == \A s \in Streams : Live(s) => s = streamRef \/ s \in stray

SentMic == pc.mic # 0 /\ stream[pc.mic].mic = "on"
SentVideo ==
    /\ streamRef # 0
    /\ \E i \in DOMAIN stream[streamRef].video :
            stream[streamRef].video[i].id = pc.video /\ stream[streamRef].video[i].on

\* One question got the stream, and the saved choices are applied to it.
Settled == ~overlap /\ ~Pending(visit, {"list"})

\* Who has muted the microphone or turned the camera off is not heard or seen,
\* be it before the call, in it, or on a page before.  Excepted is a camera that
\* was changed while it was off, a page whose questions overlapped, and the time
\* in which the cameras are listed before the saved choices are applied.
MuteHonest ==
    page = "call" /\ Settled => (SentMic => on.mic) /\ (SentVideo => on.cam \/ flipped)

\* What the peer's page says of the microphone and the camera is what it gets,
\* once it has been told since it came and has heard all of it.
PeerTold ==
    synced /\ toPeer = <<>> /\ page = "call" /\ Settled =>
        /\ pc.mic # 0 => (Badge("mic") <=> ~SentMic)
        /\ pc.video # 0 /\ ~flipped => (Badge("cam") <=> ~SentVideo)

\* The peer gets what the page shows to its user, whatever was changed since the
\* connection was made; and when no question is open that is one camera, the one
\* that is marked as active.
SelfIsSent ==
    page = "call" /\ shown /\ ~overlap =>
        /\ pc.mic = streamRef
        /\ pc.video = Head(SelfVideo).id
        /\ ~camLost /\ ~Pending(visit, {"ask", "list", "replace"}) =>
                Len(SelfVideo) = 1 /\ Head(SelfVideo).cam = activeCam
=============================================================================
