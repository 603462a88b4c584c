---------------------------- MODULE RoomMedia_proofs ----------------------------
(***************************************************************************)
(* For any number of cameras, pages and questions: no camera is left on    *)
(* behind the page, who is muted is not heard, the peer's page says what   *)
(* the peer gets, and the peer gets what the page shows to its own user.   *)
(***************************************************************************)
(* InitInv and NextInv are about the tracks that are alive (Released).     *)
(* The others rest on MediaInv, which says how the questions that are      *)
(* open, the stream, the buttons and the connection go together; it is     *)
(* preserved by each user action, each answer and each step of the peer.   *)
(***************************************************************************)
EXTENDS RoomMedia, SequenceTheorems, TLAPS

Videos == Seq(Tracks)
MediaStreams == [mic : {"none", "on", "muted"}, video : Videos]

\* TypeOK in parts: the page, its flags, the questions, the streams, the peer.
PageOK ==
    /\ page \in {"gone", "form", "auto", "waiting", "call"} /\ visit \in 0..MaxVisits
    /\ activeCam \in Cams \cup {NoCam} /\ savedCam \in Cams \cup {NoCam}
    /\ on \in Switches

FlagsOK ==
    /\ shown \in BOOLEAN /\ cameras \in BOOLEAN /\ link \in BOOLEAN
    /\ overlap \in BOOLEAN /\ flipped \in BOOLEAN /\ camLost \in BOOLEAN /\ synced \in BOOLEAN

RequestsOK == requests \subseteq Requests /\ asked \in 0..MaxAsked

StreamsOK ==
    /\ streamRef \in 0..MaxAsked
    /\ stream \in [Streams -> MediaStreams]
    /\ stray \subseteq Streams
    /\ shown => streamRef # 0 /\ page # "gone"

PeerOK ==
    /\ pc \in [made : BOOLEAN, mic : 0..MaxAsked, video : 0..MaxAsked]
    /\ toPeer \in Seq(Switches) /\ peerSees \in Switches

LEMMA TypeParts == TypeOK <=> PageOK /\ FlagsOK /\ RequestsOK /\ StreamsOK /\ PeerOK
BY DEF TypeOK, PageOK, FlagsOK, RequestsOK, StreamsOK, PeerOK, MediaStreams, Videos

\* A page that is gone has let go of its stream.
Away ==
    /\ page = "gone" => streamRef = 0
    /\ page # "gone" => visit # 0

IInv == TypeOK /\ Away /\ Released

-----------------------------------------------------------------------------
(* The operators on the tracks of a stream                                 *)

\* Enabling or disabling a track leaves a track.
LEMMA TrackSwitched ==
    ASSUME NEW t \in Tracks, NEW b \in BOOLEAN
    PROVE  [t EXCEPT !.on = b] \in Tracks
BY DEF Tracks

\* What has a track at every place where a video has one is a video.
LEMMA VideoOfTracks ==
    ASSUME NEW v \in Videos, NEW w, w = [i \in DOMAIN v |-> w[i]],
           \A i \in 1..Len(v) : w[i] \in Tracks
    PROVE  w \in Videos
<1>1. DOMAIN v = 1..Len(v) /\ Len(v) \in Nat
  BY DEF Videos
<1>2. w \in [1..Len(v) -> Tracks]
  BY <1>1
<1> QED
  BY <1>1, <1>2, IsASeq DEF Videos

\* The saved choices leave a stream as alive as it was.
LEMMA EnableProperties ==
    ASSUME NEW s \in MediaStreams, NEW prefs \in Switches
    PROVE  /\ Enable(s, prefs) \in MediaStreams
           /\ s = Stopped => Enable(s, prefs) = Stopped
<1> DEFINE w == [i \in DOMAIN s.video |-> [s.video[i] EXCEPT !.on = prefs.cam]]
<1>1. s.video \in Videos /\ prefs.cam \in BOOLEAN
  BY DEF MediaStreams, Switches
<1>2. ASSUME NEW i \in 1..Len(s.video) PROVE w[i] \in Tracks
  <2>1. s.video[i] \in Tracks /\ i \in DOMAIN s.video
    BY <1>1, <1>2 DEF Videos
  <2>2. w[i] = [s.video[i] EXCEPT !.on = prefs.cam]
    BY <2>1
  <2> QED
    BY <1>1, <2>1, <2>2, TrackSwitched
<1>3. w \in Videos
  <2> HIDE DEF w
  <2>1. w = [i \in DOMAIN s.video |-> w[i]]
    BY DEF w
  <2> QED
    BY <1>1, <1>2, <2>1, VideoOfTracks
<1>4. Enable(s, prefs) = [mic |-> Enable(s, prefs).mic, video |-> w]
  BY DEF Enable
<1>5. Enable(s, prefs).mic \in {"none", "on", "muted"}
  BY DEF Enable
<1>6. s = Stopped => Enable(s, prefs) = Stopped
  BY DEF Enable, Stopped
<1> QED
  BY <1>3, <1>4, <1>5, <1>6 DEF MediaStreams

\* So does a mute button.
LEMMA FlipProperties ==
    ASSUME NEW s \in MediaStreams, NEW what \in {"mic", "cam"}
    PROVE  /\ Flip(s, what) \in MediaStreams
           /\ s = Stopped => Flip(s, what) = Stopped
<1>1. CASE what = "mic"
  BY <1>1 DEF Flip, MediaStreams, Stopped
<1>2. CASE what = "cam"
  <2> DEFINE w == [i \in DOMAIN s.video |-> [s.video[i] EXCEPT !.on = ~@]]
  <2>1. s.video \in Videos
    BY DEF MediaStreams
  <2>2. ASSUME NEW i \in 1..Len(s.video) PROVE w[i] \in Tracks
    <3>1. s.video[i] \in Tracks /\ i \in DOMAIN s.video
      BY <2>1, <2>2 DEF Videos
    <3>2. w[i] = [s.video[i] EXCEPT !.on = ~s.video[i].on]
      BY <3>1
    <3>3. (~s.video[i].on) \in BOOLEAN
      BY Zenon
    <3> QED
      BY <3>1, <3>2, <3>3, TrackSwitched
  <2>3. w \in Videos
    <3> HIDE DEF w
    <3>1. w = [i \in DOMAIN s.video |-> w[i]]
      BY DEF w
    <3> QED
      BY <2>1, <2>2, <3>1, VideoOfTracks
  <2>4. Flip(s, what) = [s EXCEPT !.video = w]
    BY <1>2 DEF Flip
  <2>5. s = Stopped => w = <<>>
    BY DEF Stopped
  <2> HIDE DEF w
  <2> QED
    BY <2>3, <2>4, <2>5 DEF MediaStreams, Stopped
<1> QED
  BY <1>1, <1>2

\* A replacement leaves the tracks of a stream.
LEMMA SwapType ==
    ASSUME NEW s \in MediaStreams, NEW old, NEW new \in Tracks
    PROVE  Swap(s, old, new) \in MediaStreams
<1>1. s.video \in Seq(Tracks)
  BY DEF MediaStreams, Videos
<1>2. ASSUME NEW i \in 1..Len(s.video) PROVE Remove(s.video, i) \in Seq(Tracks)
  <2>1. SubSeq(s.video, 1, i - 1) \in Seq(Tracks)
    BY <1>1, <1>2, SubSeqProperties
  <2>2. SubSeq(s.video, i + 1, Len(s.video)) \in Seq(Tracks)
    BY <1>1, <1>2, SubSeqProperties
  <2> QED
    BY <2>1, <2>2, ConcatProperties DEF Remove
<1> DEFINE there == {i \in 1..Len(s.video) : s.video[i].id = old}
           rest == IF there = {} THEN s.video ELSE Remove(s.video, CHOOSE i \in there : TRUE)
<1>3. rest \in Seq(Tracks)
  <2>1. CASE there = {}
    BY <1>1, <2>1
  <2>2. CASE there # {}
    <3>1. (CHOOSE i \in there : TRUE) \in 1..Len(s.video)
      BY <2>2
    <3> QED
      BY <2>2, <3>1, <1>2
  <2> QED
    BY <2>1, <2>2
<1>4. Append(rest, new) \in Seq(Tracks)
  BY <1>3, AppendProperties
<1>5. Swap(s, old, new) = [s EXCEPT !.video = Append(rest, new)]
  BY DEF Swap
<1> HIDE DEF rest
<1> QED
  BY <1>4, <1>5 DEF MediaStreams, Videos

\* A grant is a stream with a microphone and one camera.
LEMMA GrantedType ==
    ASSUME NEW n \in Streams, NEW cam \in Cams
    PROVE  Track(n, cam) \in Tracks /\ Granted(n, cam) \in MediaStreams
<1>1. Track(n, cam) \in Tracks
  BY DEF Track, Tracks
<1>2. <<Track(n, cam)>> \in Seq(Tracks)
  BY <1>1
<1> QED
  BY <1>1, <1>2 DEF Granted, MediaStreams, Videos

-----------------------------------------------------------------------------
(* Types                                                                   *)

LEMMA InitInv == Init => IInv
<1> SUFFICES ASSUME Init PROVE IInv
  OBVIOUS
<1> USE RoomMediaAssumption DEF Init
<1>1. PageOK
  BY DEF PageOK, Switches
<1>2. FlagsOK
  BY Zenon DEF FlagsOK
<1>3. RequestsOK
  BY DEF RequestsOK
<1>4. Stopped \in MediaStreams
  BY DEF Stopped, MediaStreams, Videos
<1>5. StreamsOK
  BY <1>4 DEF StreamsOK, Streams
<1>6. PeerOK
  BY DEF PeerOK, NoPC, Switches
<1>7. Away /\ Released
  BY DEF Away, Released, Live, Stopped, Streams
<1> QED
  BY <1>1, <1>2, <1>3, <1>5, <1>6, <1>7, TypeParts DEF IInv

\* A question is a question.
LEMMA AskType ==
    ASSUME RequestsOK, NEW before \in SUBSET Requests, NEW v \in 1..MaxVisits,
           NEW cam \in Cams \cup {NoCam}, NEW join \in BOOLEAN, Ask(before, v, cam, join)
    PROVE  RequestsOK'
<1>1. asked + 1 \in Streams /\ asked' = asked + 1
  BY RoomMediaAssumption DEF Ask, RequestsOK, Streams
<1>2. [n |-> asked + 1, visit |-> v, what |-> "ask", stream |-> asked + 1, old |-> 0,
       cam |-> cam, join |-> join] \in Requests
  BY <1>1, RoomMediaAssumption DEF Requests, Streams
<1> QED
  BY <1>1, <1>2 DEF Ask, RequestsOK, Streams

LEMMA AskReplaceType ==
    ASSUME PageOK, RequestsOK, StreamsOK, NEW cam \in Cams \cup {NoCam}, visit # 0,
           AskReplace(cam)
    PROVE  RequestsOK'
<1>1. asked + 1 \in Streams /\ asked' = asked + 1
  BY RoomMediaAssumption DEF AskReplace, RequestsOK, Streams
<1>2. streamRef \in Streams /\ visit \in 1..MaxVisits
  BY RoomMediaAssumption DEF AskReplace, StreamsOK, Streams, PageOK
<1>3. Head(stream[streamRef].video).id \in Streams
  <2>1. stream[streamRef].video \in Seq(Tracks) /\ stream[streamRef].video # <<>>
    BY <1>2 DEF AskReplace, StreamsOK, MediaStreams, Videos
  <2>2. Head(stream[streamRef].video) \in Tracks
    BY <2>1, HeadTailProperties
  <2> QED
    BY <2>2 DEF Tracks
<1> DEFINE r == [n |-> asked + 1, visit |-> visit, what |-> "replace", stream |-> streamRef,
                 old |-> Head(stream[streamRef].video).id, cam |-> cam, join |-> FALSE]
<1>4. r \in Requests
  BY <1>1, <1>2, <1>3 DEF Requests, Streams
<1>5. requests' = requests \cup {r}
  BY DEF AskReplace
<1> HIDE DEF r
<1> QED
  BY <1>1, <1>4, <1>5 DEF RequestsOK, Streams

Parts == PageOK /\ FlagsOK /\ RequestsOK /\ StreamsOK /\ PeerOK

\* A page that is opened.
LEMMA MountType ==
    ASSUME Parts, NEW p \in {"form", "auto"}, NEW before \in SUBSET Requests,
           Mount(p, before), stream' \in [Streams -> MediaStreams], stray' \subseteq Streams
    PROVE  Parts'
<1> USE RoomMediaAssumption DEF Mount
<1>1. PageOK'
  BY DEF Parts, PageOK
<1>2. FlagsOK'
  BY Zenon DEF Parts, FlagsOK
<1>3. visit + 1 \in 1..MaxVisits /\ savedCam \in Cams \cup {NoCam} /\ (p = "auto") \in BOOLEAN
  BY DEF Parts, PageOK
<1>4. RequestsOK'
  BY <1>3, AskType DEF Parts
<1>5. StreamsOK'
  BY DEF StreamsOK
<1>6. PeerOK'
  BY DEF Parts, PeerOK, NoPC
<1> QED
  BY <1>1, <1>2, <1>4, <1>5, <1>6 DEF Parts

\* The user.
LEMMA UserType == ASSUME Parts, Away, User PROVE Parts'
<1> USE DEF Parts
<1>1. CASE OpenForm \/ OpenAuto
  BY <1>1, MountType DEF OpenForm, OpenAuto, RequestsOK, StreamsOK
<1>2. CASE Reload
  <2>1. Stopped \in MediaStreams
    BY DEF Stopped, MediaStreams, Videos
  <2>2. stream' \in [Streams -> MediaStreams] /\ stray' \subseteq Streams
    BY <1>2, <2>1 DEF Reload, Streams
  <2> QED
    BY <1>2, <2>2, MountType DEF Reload
<1>3. CASE Leave
  <2>1. Stopped \in MediaStreams
    BY DEF Stopped, MediaStreams, Videos
  <2>2. StreamsOK'
    BY <1>3, <2>1, RoomMediaAssumption DEF Leave, StreamsOK, StopTracks, Streams
  <2>3. PageOK' /\ RequestsOK'
    BY <1>3 DEF Leave, PageOK, RequestsOK
  <2>4. FlagsOK'
    BY <1>3, Zenon DEF Leave, FlagsOK, wireVars
  <2>5. PeerOK'
    BY <1>3, RoomMediaAssumption DEF Leave, PeerOK, NoPC, wireVars
  <2> QED
    BY <2>2, <2>3, <2>4, <2>5
<1>4. CASE HandleJoin
  <2>1. PageOK' /\ StreamsOK' /\ PeerOK'
    BY <1>4 DEF HandleJoin, PageOK, StreamsOK, PeerOK, mediaVars, wireVars
  <2>2. FlagsOK'
    BY <1>4, Zenon DEF HandleJoin, FlagsOK, mediaVars, wireVars
  <2>3. RequestsOK'
    <3>1. CASE shown
      BY <1>4, <3>1 DEF HandleJoin, RequestsOK
    <3>2. CASE ~shown
      <4>1. visit \in 1..MaxVisits /\ activeCam \in Cams \cup {NoCam}
        BY <1>4, RoomMediaAssumption DEF HandleJoin, Away, PageOK
      <4>2. Ask(requests, visit, activeCam, TRUE)
        BY <1>4, <3>2 DEF HandleJoin
      <4> QED
        BY <4>1, <4>2, AskType DEF RequestsOK
    <3> QED
      BY <3>1, <3>2
  <2> QED
    BY <2>1, <2>2, <2>3
<1>5. ASSUME NEW cam \in Cams \cup {NoCam}, AskReplace(cam), page # "gone" PROVE RequestsOK'
  BY <1>5, AskReplaceType DEF Away
<1>6. CASE ChangeQuality
  <2>1. PageOK' /\ StreamsOK' /\ PeerOK'
    BY <1>6 DEF ChangeQuality, PageOK, StreamsOK, PeerOK, mediaVars, wireVars
  <2>2. FlagsOK'
    BY <1>6, Zenon DEF ChangeQuality, AskReplace, FlagsOK, mediaVars, wireVars
  <2> QED
    BY <1>5, <1>6, <2>1, <2>2 DEF ChangeQuality, Controls, PageOK
<1>7. ASSUME NEW cam \in Cams, ChangeCamera(cam) PROVE Parts'
  <2>1. PageOK' /\ StreamsOK' /\ PeerOK'
    BY <1>7 DEF ChangeCamera, PageOK, StreamsOK, PeerOK, wireVars
  <2>2. FlagsOK'
    BY <1>7, Zenon DEF ChangeCamera, AskReplace, FlagsOK, wireVars
  <2> QED
    BY <1>5, <1>7, <2>1, <2>2 DEF ChangeCamera, CameraMenu, Previewing, Controls, PageOK
<1>8. ASSUME NEW what \in {"mic", "cam"}, Toggle(what), shown PROVE PageOK' /\ StreamsOK' /\ RequestsOK'
  <2>1. streamRef \in Streams
    BY <1>8, RoomMediaAssumption DEF StreamsOK, Streams
  <2>2. Flip(stream[streamRef], what) \in MediaStreams
    BY <2>1, <1>8, FlipProperties DEF StreamsOK
  <2>3. StreamsOK'
    BY <1>8, <2>1, <2>2 DEF Toggle, StreamsOK
  <2>4. [on EXCEPT ![what] = ~@] \in Switches
    <3>1. on.mic \in BOOLEAN /\ on.cam \in BOOLEAN /\ on = [mic |-> on.mic, cam |-> on.cam]
      BY DEF PageOK, Switches
    <3>2. (~on.mic) \in BOOLEAN /\ (~on.cam) \in BOOLEAN
      BY Zenon
    <3> QED
      BY <3>1, <3>2 DEF Switches
  <2> QED
    BY <1>8, <2>3, <2>4 DEF Toggle, PageOK, RequestsOK
<1>9. ASSUME NEW what \in {"mic", "cam"}, TogglePreview(what) PROVE Parts'
  <2>1. FlagsOK'
    BY <1>9, Zenon DEF TogglePreview, Toggle, FlagsOK
  <2>2. PeerOK'
    BY <1>9 DEF TogglePreview, Toggle, PeerOK
  <2> QED
    BY <1>8, <1>9, <2>1, <2>2 DEF TogglePreview, Previewing
<1>10. ASSUME NEW what \in {"mic", "cam"}, ToggleInCall(what) PROVE Parts'
  <2>1. PageOK' /\ StreamsOK' /\ RequestsOK'
    BY <1>8, <1>10 DEF ToggleInCall, Controls
  <2>2. FlagsOK'
    BY <1>10, Zenon DEF ToggleInCall, Toggle, FlagsOK
  <2>3. PeerOK'
    BY <1>10, <2>1 DEF ToggleInCall, Toggle, PeerOK, PageOK, MediaState
  <2> QED
    BY <2>1, <2>2, <2>3
<1> QED
  BY <1>1, <1>2, <1>3, <1>4, <1>6, <1>7, <1>9, <1>10 DEF User

\* The sender of the connection gets a track of the stream or keeps its own.
LEMMA FollowType ==
    ASSUME PeerOK, NEW s \in MediaStreams
    PROVE  Follow(s) \in [made : BOOLEAN, mic : 0..MaxAsked, video : 0..MaxAsked]
<1>1. CASE s.video = <<>>
  BY <1>1 DEF PeerOK, Follow
<1>2. CASE s.video # <<>>
  <2>1. s.video \in Seq(Tracks)
    BY DEF MediaStreams, Videos
  <2>2. Head(s.video) \in Tracks
    BY <1>2, <2>1, HeadTailProperties
  <2>3. Head(s.video).id \in 0..MaxAsked
    BY <2>2 DEF Tracks, Streams
  <2> QED
    BY <2>3 DEF PeerOK, Follow
<1> QED
  BY <1>1, <1>2

\* The answers.
LEMMA AnswerType ==
    ASSUME Parts, Away, NEW r \in requests,
           Grant(r) \/ Listed(r) \/ Deny(r) \/ Replaced(r) \/ ReplaceFailed(r)
    PROVE  Parts'
<1> USE DEF Parts
<1>1. r \in Requests /\ r.n \in Streams /\ r.stream \in Streams /\ r.cam \in Cams \cup {NoCam}
  BY DEF RequestsOK, Requests
<1>2. Choices(r.cam) \subseteq Cams
  BY <1>1 DEF Choices
<1>3. stream[r.stream] \in MediaStreams
  BY <1>1 DEF StreamsOK
<1>4. Joins(r) \in {page, "waiting"} /\ (page = "gone" => Joins(r) = page)
  BY DEF Joins, Mounted
<1>5. Mounted(r) \in BOOLEAN
  BY DEF Mounted
<1>6. CASE Grant(r)
  <2>1. PICK cam \in Cams : stream' = [stream EXCEPT ![r.stream] = Granted(r.n, cam)]
    BY <1>2, <1>6 DEF Grant
  <2>2. Granted(r.n, cam) \in MediaStreams /\ stream'[r.stream] = Granted(r.n, cam)
    BY <1>1, <2>1, GrantedType DEF StreamsOK
  <2>3. StreamsOK'
    <3>1. stream' \in [Streams -> MediaStreams]
      BY <2>1, <2>2 DEF StreamsOK
    <3> QED
      BY <1>1, <1>6, <3>1 DEF Grant, StreamsOK, Mounted, Streams
  <2>4. PageOK'
    BY <1>6 DEF Grant, PageOK
  <2>5. FlagsOK'
    BY <1>6, Zenon DEF Grant, FlagsOK, wireVars
  <2>6. RequestsOK'
    <3>1. [r EXCEPT !.what = "list"] \in Requests
      BY <1>1 DEF Requests
    <3> QED
      BY <1>6, <3>1 DEF Grant, RequestsOK
  <2>7. PeerOK'
    BY <1>6, <2>2, FollowType DEF Grant, PeerOK, wireVars
  <2> QED
    BY <2>3, <2>4, <2>5, <2>6, <2>7
<1>7. CASE Listed(r)
  <2>1. Enable(stream[r.stream], on) \in MediaStreams
    BY <1>3, EnableProperties DEF PageOK
  <2>2. StreamsOK'
    BY <1>1, <1>4, <1>7, <2>1 DEF Listed, StreamsOK
  <2>3. activeCam' \in Cams \cup {NoCam}
    <3>1. CASE stream[r.stream].video # <<>>
      <4>1. stream[r.stream].video \in Seq(Tracks)
        BY <1>3 DEF MediaStreams, Videos
      <4>2. Head(stream[r.stream].video) \in Tracks
        BY <3>1, <4>1, HeadTailProperties
      <4>3. Head(stream[r.stream].video).cam \in Cams
        BY <4>2 DEF Tracks
      <4> QED
        BY <1>7, <4>3 DEF Listed, PageOK
    <3> QED
      BY <1>7, <3>1 DEF Listed, PageOK
  <2>4. PageOK'
    BY <1>4, <1>7, <2>3 DEF Listed, PageOK
  <2>5. FlagsOK'
    <3>1. cameras' \in BOOLEAN /\ flipped' \in BOOLEAN
      BY <1>7, Zenon DEF Listed, FlagsOK, EnumerateCameras
    <3> QED
      BY <1>7, <3>1, Zenon DEF Listed, FlagsOK, wireVars
  <2>6. RequestsOK' /\ PeerOK'
    BY <1>7 DEF Listed, RequestsOK, PeerOK, wireVars
  <2> QED
    BY <2>2, <2>4, <2>5, <2>6
<1>8. CASE Deny(r)
  <2>1. PageOK' /\ RequestsOK' /\ PeerOK'
    BY <1>4, <1>8 DEF Deny, PageOK, RequestsOK, PeerOK, wireVars, histVars
  <2>2. StreamsOK'
    BY <1>4, <1>8 DEF Deny, StreamsOK, histVars
  <2>3. FlagsOK'
    BY <1>8, Zenon DEF Deny, FlagsOK, wireVars, histVars
  <2> QED
    BY <2>1, <2>2, <2>3
<1>9. CASE Replaced(r)
  <2>1. PICK cam \in Cams :
            /\ stream' = [stream EXCEPT ![r.stream] = Swap(@, r.old, Track(r.n, cam))]
            /\ activeCam' = IF Mounted(r) THEN cam ELSE activeCam
    BY <1>2, <1>9 DEF Replaced
  <2>2. Swap(stream[r.stream], r.old, Track(r.n, cam)) \in MediaStreams
    BY <1>1, <1>3, GrantedType, SwapType
  <2>3. stream' \in [Streams -> MediaStreams] /\ stream'[r.stream] \in MediaStreams
    BY <1>1, <2>1, <2>2 DEF StreamsOK
  <2>4. StreamsOK'
    <3>1. CASE Mounted(r)
      <4>1. streamRef' = r.stream /\ shown' /\ page' # "gone"
        BY <1>9, <3>1 DEF Replaced, Mounted
      <4>2. stray' \subseteq Streams
        <5>1. stray' = stray \cup ({streamRef} \ {0, r.stream})
          BY <1>9, <3>1, Zenon DEF Replaced
        <5>2. streamRef \in Streams \cup {0}
          BY RoomMediaAssumption DEF StreamsOK, Streams
        <5>3. stray \subseteq Streams
          BY DEF StreamsOK
        <5> QED
          BY <5>1, <5>2, <5>3
      <4> QED
        BY <1>1, <2>3, <4>1, <4>2 DEF StreamsOK, Streams
    <3>2. CASE ~Mounted(r)
      <4>1. UNCHANGED <<streamRef, shown, page>> /\ stray' = stray \cup {r.stream}
        BY <1>9, <3>2 DEF Replaced
      <4> QED
        BY <1>1, <2>3, <4>1 DEF StreamsOK
    <3> QED
      BY <3>1, <3>2
  <2>5. PageOK'
    BY <1>9, <2>1 DEF Replaced, PageOK
  <2>6. FlagsOK'
    <3>1. flipped' \in BOOLEAN
      <4>1. flipped' = flipped
            \/ flipped' = (~on.cam \/ (flipped /\ Len(stream'[r.stream].video) > 1))
        BY <1>9 DEF Replaced
      <4>2. (~on.cam \/ (flipped /\ Len(stream'[r.stream].video) > 1)) \in BOOLEAN
        BY Zenon
      <4> QED
        BY <4>1, <4>2, Zenon DEF FlagsOK
    <3> QED
      BY <1>9, <3>1, Zenon DEF Replaced, FlagsOK, wireVars
  <2>7. RequestsOK'
    BY <1>9 DEF Replaced, RequestsOK
  <2>8. PeerOK'
    BY <1>9, <2>3, FollowType DEF Replaced, PeerOK, wireVars
  <2> QED
    BY <2>4, <2>5, <2>6, <2>7, <2>8
<1>10. CASE ReplaceFailed(r)
  <2>1. PageOK' /\ RequestsOK' /\ StreamsOK' /\ PeerOK'
    BY <1>10 DEF ReplaceFailed, PageOK, RequestsOK, StreamsOK, PeerOK, mediaVars, wireVars
  <2>2. FlagsOK'
    BY <1>10, <1>5, Zenon DEF ReplaceFailed, FlagsOK, mediaVars, wireVars
  <2> QED
    BY <2>1, <2>2
<1> QED
  BY <1>6, <1>7, <1>8, <1>9, <1>10

\* The peer and the network.
LEMMA PeerType == ASSUME Parts, Peer PROVE Parts'
<1> USE DEF Parts
<1>1. CASE PeerComes
  <2>1. pc' \in [made : BOOLEAN, mic : 0..MaxAsked, video : 0..MaxAsked]
    <3>1. shown /\ stream[streamRef].video # <<>> =>
              Head(stream[streamRef].video).id \in 0..MaxAsked
      <4> HAVE shown /\ stream[streamRef].video # <<>>
      <4>1. streamRef \in Streams
        BY RoomMediaAssumption DEF StreamsOK, Streams
      <4>2. stream[streamRef].video \in Seq(Tracks)
        BY <4>1 DEF StreamsOK, MediaStreams, Videos
      <4>3. Head(stream[streamRef].video) \in Tracks
        BY <4>2, HeadTailProperties
      <4> QED
        BY <4>3 DEF Tracks, Streams
    <3> QED
      BY <1>1, <3>1, RoomMediaAssumption DEF PeerComes, CreatePC, StreamsOK
  <2>2. PageOK' /\ RequestsOK' /\ StreamsOK' /\ PeerOK'
    BY <1>1, <2>1 DEF PeerComes, PageOK, RequestsOK, StreamsOK, PeerOK, mediaVars, wireVars, histVars
  <2>3. FlagsOK'
    BY <1>1, Zenon DEF PeerComes, FlagsOK, mediaVars, wireVars, histVars
  <2> QED
    BY <2>2, <2>3
<1>2. CASE PeerGoes
  <2>1. PageOK' /\ RequestsOK' /\ StreamsOK' /\ PeerOK'
    BY <1>2 DEF PeerGoes, PageOK, RequestsOK, StreamsOK, PeerOK, mediaVars, Switches
  <2>2. FlagsOK'
    BY <1>2, Zenon DEF PeerGoes, FlagsOK, mediaVars
  <2> QED
    BY <2>1, <2>2
<1>3. CASE Drop
  <2>1. PageOK' /\ RequestsOK' /\ StreamsOK' /\ PeerOK'
    BY <1>3 DEF Drop, PageOK, RequestsOK, StreamsOK, PeerOK, mediaVars
  <2>2. FlagsOK'
    BY <1>3, Zenon DEF Drop, FlagsOK, mediaVars
  <2> QED
    BY <2>1, <2>2
<1>4. CASE OnMediaState
  <2>1. Head(toPeer) \in Switches /\ Tail(toPeer) \in Seq(Switches)
    BY <1>4, HeadTailProperties DEF OnMediaState, PeerOK
  <2>2. PageOK' /\ RequestsOK' /\ StreamsOK' /\ PeerOK'
    BY <1>4, <2>1 DEF OnMediaState, PageOK, RequestsOK, StreamsOK, PeerOK, mediaVars, histVars
  <2>3. FlagsOK'
    BY <1>4, Zenon DEF OnMediaState, FlagsOK, mediaVars, histVars
  <2> QED
    BY <2>2, <2>3
<1> QED
  BY <1>1, <1>2, <1>3, <1>4 DEF Peer

-----------------------------------------------------------------------------
(* What is alive                                                           *)

\* A stream that is not stopped belongs to the page or is a stray one.
LEMMA ReleasedStopped ==
    (\A s \in Streams : stream[s] # Stopped => s = streamRef \/ s \in stray) => Released
BY DEF Released, Live, Stopped

LEMMA StoppedReleased ==
    ASSUME StreamsOK, Released, NEW s \in Streams, stream[s] # Stopped
    PROVE  s = streamRef \/ s \in stray
<1>1. stream[s] \in MediaStreams
  BY DEF StreamsOK
<1>2. Live(s)
  BY <1>1 DEF Live, Stopped, MediaStreams
<1> QED
  BY <1>2 DEF Released

\* A step that changes only the stream r, to one that the page takes or that is
\* stray, and lets the stream of the page go to the stray ones.
LEMMA OneStream ==
    ASSUME StreamsOK, Released, NEW r \in Streams,
           \A s \in Streams \ {r} : stream'[s] = stream[s],
           (stream[r] = Stopped /\ stream'[r] = Stopped) \/ r \in stray' \/ r = streamRef',
           stray \subseteq stray', streamRef \in {0, streamRef'} \cup stray'
    PROVE  Released'
<1>1. ASSUME NEW s \in Streams, stream'[s] # Stopped PROVE s = streamRef' \/ s \in stray'
  <2>1. CASE s = r
    BY <1>1, <2>1
  <2>2. CASE s # r
    <3>1. s = streamRef \/ s \in stray
      BY <1>1, <2>2, StoppedReleased
    <3> QED
      BY <3>1 DEF Streams
  <2> QED
    BY <2>1, <2>2
<1>2. (\A s \in Streams : stream[s] # Stopped => s = streamRef \/ s \in stray)'
  BY <1>1
<1> QED
  BY <1>2 DEF Released, Live, Stopped

\* A step that touches no stream and lets go of none.
LEMMA NoStream ==
    ASSUME Released, UNCHANGED stream, stray \subseteq stray',
           streamRef \in {0, streamRef'} \cup stray'
    PROVE  Released'
BY DEF Released, Live, Streams

\* The answers.
LEMMA AnswerReleased ==
    ASSUME Parts, Away, Released, NEW r \in requests,
           Grant(r) \/ Listed(r) \/ Deny(r) \/ Replaced(r) \/ ReplaceFailed(r)
    PROVE  Released'
<1> USE DEF Parts
<1>1. r.stream \in Streams /\ stream[r.stream] \in MediaStreams /\ DOMAIN stream = Streams
  BY DEF RequestsOK, Requests, StreamsOK
<1>2. ASSUME NEW new, stream' = [stream EXCEPT ![r.stream] = new],
             IF Mounted(r)
             THEN streamRef' = r.stream /\ stray \subseteq stray'
                  /\ streamRef \in {0, r.stream} \cup stray'
             ELSE stray' = stray \cup {r.stream} /\ UNCHANGED streamRef
      PROVE  Released'
  <2>1. \A s \in Streams \ {r.stream} : stream'[s] = stream[s]
    BY <1>1, <1>2
  <2>2. r.stream \in stray' \/ r.stream = streamRef'
    BY <1>2
  <2>3. stray \subseteq stray' /\ streamRef \in {0, streamRef'} \cup stray'
    BY <1>2
  <2> QED
    BY <1>1, <2>1, <2>2, <2>3, OneStream
<1>3. CASE Grant(r)
  <2>1. PICK cam : stream' = [stream EXCEPT ![r.stream] = Granted(r.n, cam)]
    BY <1>3 DEF Grant
  <2>2. IF Mounted(r)
        THEN streamRef' = r.stream /\ stray' = stray \cup ({streamRef} \ {0})
        ELSE stray' = stray \cup {r.stream} /\ UNCHANGED streamRef
    BY <1>3, Zenon DEF Grant
  <2> QED
    BY <1>2, <2>1, <2>2
<1>4. CASE Listed(r)
  <2>1. /\ stream' = [stream EXCEPT ![r.stream] = Enable(stream[r.stream], on)]
        /\ UNCHANGED <<streamRef, stray>>
    BY <1>4 DEF Listed
  <2>2. stream[r.stream] = Stopped => stream'[r.stream] = Stopped
    BY <1>1, <2>1, EnableProperties DEF PageOK
  <2>3. stream[r.stream] # Stopped => r.stream = streamRef \/ r.stream \in stray
    BY <1>1, StoppedReleased
  <2>4. \A s \in Streams \ {r.stream} : stream'[s] = stream[s]
    BY <1>1, <2>1
  <2> QED
    BY <1>1, <2>1, <2>2, <2>3, <2>4, OneStream
<1>5. CASE Deny(r)
  BY <1>5, NoStream DEF Deny, histVars
<1>6. CASE Replaced(r)
  <2>1. PICK cam :
            stream' = [stream EXCEPT ![r.stream] =
                            Swap(stream[r.stream], r.old, Track(r.n, cam))]
    BY <1>6 DEF Replaced
  <2>2. IF Mounted(r)
        THEN streamRef' = r.stream /\ stray' = stray \cup ({streamRef} \ {0, r.stream})
        ELSE stray' = stray \cup {r.stream} /\ UNCHANGED streamRef
    BY <1>6, Zenon DEF Replaced
  <2> QED
    BY <1>2, <2>1, <2>2
<1>7. CASE ReplaceFailed(r)
  BY <1>7, NoStream DEF ReplaceFailed, mediaVars
<1> QED
  BY <1>3, <1>4, <1>5, <1>6, <1>7

\* The user.
LEMMA UserReleased == ASSUME Parts, Away, Released, User PROVE Released'
<1> USE DEF Parts
<1>1. CASE OpenForm \/ OpenAuto
  BY <1>1, NoStream DEF OpenForm, OpenAuto, Mount, Away
<1>2. CASE Reload
  BY <1>2 DEF Reload, Released, Live, Stopped, Streams
<1>3. CASE Leave
  <2>1. CASE streamRef = 0
    BY <1>3, <2>1, NoStream DEF Leave, StopTracks
  <2>2. CASE streamRef # 0
    <3>1. stream' = [stream EXCEPT ![streamRef] = Stopped] /\ streamRef' = 0 /\ stray' = stray
      BY <1>3, <2>2 DEF Leave, StopTracks
    <3>2. streamRef \in Streams /\ DOMAIN stream = Streams
      BY <2>2, RoomMediaAssumption DEF StreamsOK, Streams
    <3>3. ASSUME NEW s \in Streams, stream'[s] # Stopped PROVE s \in stray'
      <4>1. s # streamRef /\ stream'[s] = stream[s]
        BY <3>1, <3>2, <3>3
      <4> QED
        BY <3>1, <3>3, <4>1, StoppedReleased
    <3> QED
      BY <3>3 DEF Released, Live, Stopped, Streams
  <2> QED
    BY <2>1, <2>2
<1>4. CASE HandleJoin
  BY <1>4, NoStream DEF HandleJoin, mediaVars
<1>5. CASE ChangeQuality
  BY <1>5, NoStream DEF ChangeQuality, mediaVars
<1>6. ASSUME NEW cam \in Cams, ChangeCamera(cam) PROVE Released'
  BY <1>6, NoStream DEF ChangeCamera
<1>7. ASSUME NEW what \in {"mic", "cam"}, Toggle(what), shown PROVE Released'
  <2>1. streamRef \in Streams /\ DOMAIN stream = Streams
    BY <1>7, RoomMediaAssumption DEF StreamsOK, Streams
  <2>2. \A s \in Streams \ {streamRef} : stream'[s] = stream[s]
    BY <1>7, <2>1 DEF Toggle
  <2>3. UNCHANGED <<streamRef, stray>>
    BY <1>7 DEF Toggle
  <2> QED
    BY <2>1, <2>2, <2>3, OneStream
<1>8. CASE \E what \in {"mic", "cam"} : TogglePreview(what) \/ ToggleInCall(what)
  BY <1>7, <1>8 DEF TogglePreview, ToggleInCall, Previewing, Controls
<1> QED
  BY <1>1, <1>2, <1>3, <1>4, <1>5, <1>6, <1>8 DEF User

\* The peer has no hand on the streams.
LEMMA PeerReleased == ASSUME Released, Peer PROVE Released'
BY NoStream DEF Peer, PeerComes, PeerGoes, Drop, OnMediaState, mediaVars, histVars

\* Only Leave closes the page, and only an open page takes a stream.
LEMMA NextAway == ASSUME Parts, Away, Next PROVE Away'
<1> USE DEF Parts
<1>1. CASE Answer
  <2>1. PICK r \in requests : Grant(r) \/ Listed(r) \/ Deny(r) \/ Replaced(r) \/ ReplaceFailed(r)
    BY <1>1 DEF Answer
  <2>2. Joins(r) \in {page, "waiting"} /\ (page = "gone" => Joins(r) = page)
    BY DEF Joins, Mounted
  <2>3. visit' = visit /\ page' \in {page, Joins(r)}
    BY <2>1 DEF Grant, Listed, Deny, Replaced, ReplaceFailed
  <2>4. streamRef' = streamRef \/ Mounted(r)
    BY <2>1 DEF Grant, Listed, Deny, Replaced, ReplaceFailed, mediaVars
  <2> QED
    BY <2>2, <2>3, <2>4 DEF Away, Mounted
<1>2. CASE User
  <2>1. CASE OpenForm \/ OpenAuto \/ Reload
    <3>1. visit' = visit + 1 /\ page' # "gone"
      BY <2>1 DEF OpenForm, OpenAuto, Reload, Mount
    <3> QED
      BY <3>1 DEF Away, PageOK
  <2>2. CASE Leave
    BY <2>2 DEF Leave, Away
  <2>3. CASE HandleJoin \/ ChangeQuality
    BY <2>3 DEF HandleJoin, ChangeQuality, Away, mediaVars
  <2>4. CASE \E cam \in Cams : ChangeCamera(cam)
    BY <2>4 DEF ChangeCamera, Away
  <2>5. CASE \E what \in {"mic", "cam"} : TogglePreview(what) \/ ToggleInCall(what)
    BY <2>5 DEF TogglePreview, ToggleInCall, Toggle, Away
  <2> QED
    BY <1>2, <2>1, <2>2, <2>3, <2>4, <2>5 DEF User
<1>3. CASE Peer
  BY <1>3 DEF Peer, PeerComes, PeerGoes, Drop, OnMediaState, Away, mediaVars, histVars
<1> QED
  BY <1>1, <1>2, <1>3 DEF Next

-----------------------------------------------------------------------------
LEMMA NextInv == IInv /\ [Next]_vars => IInv'
<1> SUFFICES ASSUME IInv, [Next]_vars PROVE IInv'
  OBVIOUS
<1>1. Parts /\ Away /\ Released
  BY TypeParts DEF IInv, Parts
<1>2. CASE Next
  <2>1. Away'
    BY <1>1, <1>2, NextAway
  <2>2. Parts'
    BY <1>1, <1>2, AnswerType, UserType, PeerType DEF Next, Answer
  <2>3. Released'
    BY <1>1, <1>2, AnswerReleased, UserReleased, PeerReleased DEF Next, Answer
  <2>4. TypeOK'
    BY <2>2, TypeParts DEF Parts, TypeOK, PageOK, FlagsOK, RequestsOK, StreamsOK, PeerOK,
                           MediaStreams, Videos
  <2> QED
    BY <2>1, <2>3, <2>4 DEF IInv
<1>3. CASE UNCHANGED vars
  BY <1>3 DEF IInv, TypeOK, Away, Released, Live, vars, mediaVars, wireVars, histVars
<1> QED
  BY <1>2, <1>3

\* The types, the page that lets go of its stream, and Released, together.
THEOREM Invariant == Spec => []IInv
BY InitInv, NextInv, PTL DEF Spec

\* The state of the page, of its questions and of its streams keeps its shape,
\* and a picture that is shown comes from a stream (useMedia.ts:27-47).
THEOREM TypeCorrect == Spec => []TypeOK
<1>1. IInv => TypeOK
  BY DEF IInv
<1> QED
  BY <1>1, Invariant, PTL

\* However the user, the browser and the peer take turns, a camera or microphone
\* that is on is one that the open page will stop, a grant that came too late or
\* one that another grant replaced (useMedia.ts:171-181).
THEOREM NothingLeftOn == Spec => []Released
<1>1. IInv => Released
  BY DEF IInv
<1> QED
  BY <1>1, Invariant, PTL

-----------------------------------------------------------------------------
(* One question at a time: what the saved choices, the connection and the  *)
(* marked camera say of the stream, on a page whose questions do not       *)
(* overlap.                                                                *)

Open == page # "gone" /\ ~overlap
Mine(what) == {r \in requests : r.visit = visit /\ r.what \in what}
Video == stream[streamRef].video

\* A stream is one page's, and no question of another page brings it.
Owned ==
    /\ streamRef <= asked
    /\ \A r \in requests :
        r.visit <= visit /\ r.stream <= asked /\ (r.stream = streamRef => r.visit = visit)
    /\ \A r, q \in requests : r.stream = q.stream => r.visit = q.visit

OneQuestion ==
    Open =>
        /\ \A r, q \in Mine({"ask", "list"}) : r = q
        /\ shown <=> streamRef # 0
        /\ \A r \in Mine({"ask"}) : streamRef = 0 /\ page \in {"form", "auto"}
        /\ \A r \in Mine({"list", "replace"}) : r.stream = streamRef

\* The tracks are as the buttons say, once the choices have been applied.
AsChosen ==
    Open /\ shown =>
        /\ Video # <<>> /\ stream[streamRef].mic # "none"
        /\ Mine({"list"}) = {} =>
            /\ stream[streamRef].mic = (IF on.mic THEN "on" ELSE "muted")
            /\ flipped \/ \A i \in DOMAIN Video : Video[i].on = on.cam

Sent ==
    Open /\ page = "call" =>
        IF shown THEN pc.made /\ pc.mic = streamRef /\ pc.video = Head(Video).id
        ELSE pc.mic = 0 /\ pc.video = 0

\* The last thing the peer was told, or will be, is true.
Told == synced => IF toPeer = <<>> THEN peerSees = on ELSE toPeer[Len(toPeer)] = on

OneCamera ==
    Open /\ shown /\ ~camLost =>
        /\ Len(Video) = 1
        /\ \A r, q \in Mine({"list", "replace"}) : r = q
        /\ Mine({"list", "replace"}) = {} => Head(Video).cam = activeCam
        /\ \A r \in Mine({"replace"}) : r.old = Head(Video).id

MediaInv == Owned /\ OneQuestion /\ AsChosen /\ Sent /\ Told /\ OneCamera

-----------------------------------------------------------------------------
(* What the operators do to the tracks                                     *)

LEMMA GrantedTracks ==
    ASSUME NEW n \in Streams, NEW cam \in Cams
    PROVE  /\ Granted(n, cam).video # <<>> /\ Len(Granted(n, cam).video) = 1
           /\ Granted(n, cam).video[1] = Track(n, cam)
           /\ Head(Granted(n, cam).video) = Track(n, cam)
           /\ Granted(n, cam).mic = "on"
BY DEF Granted

LEMMA EnableTracks ==
    ASSUME NEW s \in MediaStreams, NEW prefs \in Switches
    PROVE  /\ Enable(s, prefs).mic = IF s.mic = "none" THEN "none"
                                     ELSE IF prefs.mic THEN "on" ELSE "muted"
           /\ DOMAIN Enable(s, prefs).video = DOMAIN s.video
           /\ \A i \in DOMAIN s.video : /\ Enable(s, prefs).video[i].on = prefs.cam
                                        /\ Enable(s, prefs).video[i].id = s.video[i].id
                                        /\ Enable(s, prefs).video[i].cam = s.video[i].cam
<1>1. /\ Enable(s, prefs).mic = IF s.mic = "none" THEN "none"
                                ELSE IF prefs.mic THEN "on" ELSE "muted"
      /\ Enable(s, prefs).video = [i \in DOMAIN s.video |-> [s.video[i] EXCEPT !.on = prefs.cam]]
  BY DEF Enable
<1>2. ASSUME NEW i \in DOMAIN s.video
      PROVE  LET t == [s.video[i] EXCEPT !.on = prefs.cam] IN
             t.on = prefs.cam /\ t.id = s.video[i].id /\ t.cam = s.video[i].cam
  <2>1. s.video[i] \in Tracks
    BY DEF MediaStreams, Videos
  <2> QED
    BY <2>1 DEF Tracks
<1> QED
  BY <1>1, <1>2

LEMMA FlipTracks ==
    ASSUME NEW s \in MediaStreams
    PROVE  /\ Flip(s, "mic").video = s.video
           /\ s.mic = "on" => Flip(s, "mic").mic = "muted"
           /\ s.mic = "muted" => Flip(s, "mic").mic = "on"
           /\ Flip(s, "cam").mic = s.mic /\ DOMAIN Flip(s, "cam").video = DOMAIN s.video
           /\ \A i \in DOMAIN s.video : /\ Flip(s, "cam").video[i].on = ~s.video[i].on
                                        /\ Flip(s, "cam").video[i].id = s.video[i].id
                                        /\ Flip(s, "cam").video[i].cam = s.video[i].cam
<1>1. /\ Flip(s, "mic").video = s.video
      /\ s.mic = "on" => Flip(s, "mic").mic = "muted"
      /\ s.mic = "muted" => Flip(s, "mic").mic = "on"
  BY DEF Flip, MediaStreams
<1>2. /\ Flip(s, "cam").mic = s.mic
      /\ Flip(s, "cam").video = [i \in DOMAIN s.video |-> [s.video[i] EXCEPT !.on = ~s.video[i].on]]
  BY DEF Flip, MediaStreams
<1>3. ASSUME NEW i \in DOMAIN s.video
      PROVE  /\ Flip(s, "cam").video[i].on = ~s.video[i].on
             /\ Flip(s, "cam").video[i].id = s.video[i].id
             /\ Flip(s, "cam").video[i].cam = s.video[i].cam
  <2>1. s.video[i] \in Tracks
    BY DEF MediaStreams, Videos
  <2>2. PICK t : t = [s.video[i] EXCEPT !.on = ~s.video[i].on]
    OBVIOUS
  <2>3. t.on = ~s.video[i].on /\ t.id = s.video[i].id /\ t.cam = s.video[i].cam
    BY <2>1, <2>2 DEF Tracks
  <2>4. Flip(s, "cam").video[i] = t
    BY <1>2, <2>2
  <2> QED
    BY <2>3, <2>4, Zenon
<1>4. DOMAIN Flip(s, "cam").video = DOMAIN s.video
  BY <1>2
<1> QED
  BY <1>1, <1>2, <1>3, <1>4, Zenon

\* A replacement adds the new track at the end, and brings no other.
Swapped(s, old, new, v) ==
    /\ Swap(s, old, new).mic = s.mic /\ v # <<>> /\ Len(v) \in Nat /\ v[Len(v)] = new
    /\ \A i \in DOMAIN v : v[i] = new \/ \E j \in DOMAIN s.video : v[i] = s.video[j]
    /\ Len(s.video) = 1 /\ s.video[1].id = old => Len(v) = 1

LEMMA SwapTracks ==
    ASSUME NEW s \in MediaStreams, NEW old, NEW new \in Tracks, NEW v, v = Swap(s, old, new).video
    PROVE  Swapped(s, old, new, v)
<1> USE DEF Swapped
<1>1. s.video \in Seq(Tracks)
  BY DEF MediaStreams, Videos
<1>2. ASSUME NEW i \in 1..Len(s.video)
      PROVE  /\ Remove(s.video, i) \in Seq(Tracks) /\ Len(Remove(s.video, i)) = Len(s.video) - 1
             /\ \A k \in 1..Len(Remove(s.video, i)) : \E j \in 1..Len(s.video) : Remove(s.video, i)[k] = s.video[j]
  <2>0. PICK n \in Nat : n = Len(s.video) /\ i \in 1..n /\ \A j \in 1..n : s.video[j] \in Tracks
    BY <1>1, <1>2
  <2>1. PICK a \in Seq(Tracks) : /\ a = SubSeq(s.video, 1, i - 1) /\ Len(a) = i - 1
                                 /\ \A k \in 1..(i - 1) : a[k] = s.video[k]
    <3>1. \A j \in 1..(i - 1) : s.video[j] \in Tracks
      BY <2>0
    <3>2. /\ SubSeq(s.video, 1, i - 1) \in Seq(Tracks)
          /\ Len(SubSeq(s.video, 1, i - 1)) = IF 1 <= i - 1 THEN i - 1 - 1 + 1 ELSE 0
          /\ \A k \in 1..(i - 1 - 1 + 1) : SubSeq(s.video, 1, i - 1)[k] = s.video[1 + k - 1]
      BY <2>0, <3>1, SubSeqProperties
    <3>3. i - 1 - 1 + 1 = i - 1 /\ i - 1 \in Nat /\ (1 <= i - 1 <=> i - 1 # 0)
      BY <2>0
    <3>4. Len(SubSeq(s.video, 1, i - 1)) = i - 1
      BY <3>2, <3>3
    <3>5. ASSUME NEW k \in 1..(i - 1) PROVE SubSeq(s.video, 1, i - 1)[k] = s.video[k]
      <4>1. 1 + k - 1 = k
        BY <3>3
      <4> QED
        BY <3>2, <3>3, <4>1
    <3> QED
      BY <3>2, <3>4, <3>5, Zenon
  <2>2. PICK b \in Seq(Tracks) : /\ b = SubSeq(s.video, i + 1, n) /\ Len(b) = n - i
                                 /\ \A k \in 1..(n - i) : b[k] = s.video[i + k]
    <3>1. \A j \in (i + 1)..n : s.video[j] \in Tracks
      BY <2>0
    <3>2. /\ SubSeq(s.video, i + 1, n) \in Seq(Tracks)
          /\ Len(SubSeq(s.video, i + 1, n)) = IF i + 1 <= n THEN n - (i + 1) + 1 ELSE 0
          /\ \A k \in 1..(n - (i + 1) + 1) : SubSeq(s.video, i + 1, n)[k] = s.video[(i + 1) + k - 1]
      BY <2>0, <3>1, SubSeqProperties
    <3>3. n - (i + 1) + 1 = n - i /\ n - i \in Nat /\ (i + 1 <= n <=> n - i # 0)
      BY <2>0
    <3>4. Len(SubSeq(s.video, i + 1, n)) = n - i
      BY <3>2, <3>3
    <3>5. ASSUME NEW k \in 1..(n - i) PROVE SubSeq(s.video, i + 1, n)[k] = s.video[i + k]
      <4>1. (i + 1) + k - 1 = i + k
        BY <2>0, <3>3
      <4> QED
        BY <3>2, <3>3, <4>1
    <3> QED
      BY <3>2, <3>4, <3>5, Zenon
  <2>3. PICK z : z = Remove(s.video, i) /\ z = a \o b
    BY <2>0, <2>1, <2>2 DEF Remove
  <2>4. /\ z \in Seq(Tracks) /\ Len(z) = n - 1
        /\ \A k \in 1..(n - 1) : z[k] = IF k <= i - 1 THEN a[k] ELSE b[k - (i - 1)]
    <3>1. /\ a \o b \in Seq(Tracks) /\ Len(a \o b) = Len(a) + Len(b)
          /\ \A k \in 1..(Len(a) + Len(b)) : (a \o b)[k] = IF k <= Len(a) THEN a[k] ELSE b[k - Len(a)]
      BY ConcatProperties
    <3>2. Len(a) = i - 1 /\ Len(b) = n - i
      BY <2>1, <2>2, Zenon
    <3>3. Len(a) + Len(b) = n - 1
      BY <2>0, <3>2
    <3> QED
      BY <2>3, <3>1, <3>2, <3>3, Zenon
  <2>5. ASSUME NEW k \in 1..(n - 1) PROVE \E j \in 1..n : z[k] = s.video[j]
    <3>1. CASE k <= i - 1
      <4>1. k \in 1..(i - 1) /\ k \in 1..n
        BY <2>0, <3>1
      <4> QED
        BY <2>1, <2>4, <3>1, <4>1
    <3>2. CASE ~(k <= i - 1)
      <4>1. k - (i - 1) \in 1..(n - i) /\ i + (k - (i - 1)) = k + 1 /\ k + 1 \in 1..n
        BY <2>0, <3>2
      <4>2. z[k] = s.video[k + 1]
        BY <2>2, <2>4, <3>2, <4>1
      <4> QED
        BY <4>1, <4>2
    <3> QED
      BY <3>1, <3>2
  <2> QED
    BY <2>0, <2>3, <2>4, <2>5
<1> DEFINE there == {i \in 1..Len(s.video) : s.video[i].id = old}
           rest == IF there = {} THEN s.video ELSE Remove(s.video, CHOOSE i \in there : TRUE)
<1>3. /\ rest \in Seq(Tracks)
      /\ \A k \in 1..Len(rest) : \E j \in 1..Len(s.video) : rest[k] = s.video[j]
      /\ Len(s.video) = 1 /\ s.video[1].id = old => Len(rest) = 0
  <2>1. CASE there = {}
    BY <1>1, <2>1
  <2>2. CASE there # {}
    <3>1. PICK c \in 1..Len(s.video) : rest = Remove(s.video, c)
      BY <2>2
    <3>2. Len(Remove(s.video, c)) = Len(s.video) - 1
      BY <1>2
    <3> HIDE DEF rest
    <3>3. /\ rest \in Seq(Tracks) /\ Len(rest) = Len(s.video) - 1
          /\ \A k \in 1..Len(rest) : \E j \in 1..Len(s.video) : rest[k] = s.video[j]
      BY <3>1, <1>2, Zenon
    <3>4. Len(s.video) = 1 => Len(rest) = 0
      BY <3>3
    <3> QED
      BY <3>3, <3>4, Zenon
  <2> QED
    BY <2>1, <2>2
<1>4. Swap(s, old, new) = [s EXCEPT !.video = Append(rest, new)]
  BY DEF Swap
<1> HIDE DEF rest
<1>5. v = Append(rest, new) /\ Swap(s, old, new).mic = s.mic
  BY <1>4 DEF MediaStreams
<1>6. PICK n \in Nat : n = Len(rest)
  BY <1>3
<1>7. /\ v \in Seq(Tracks) /\ Len(v) = n + 1 /\ v[n + 1] = new
      /\ \A i \in 1..n : v[i] = rest[i]
  BY <1>3, <1>5, <1>6, AppendProperties
<1>8. ASSUME NEW i \in 1..(n + 1) PROVE v[i] = new \/ \E j \in 1..Len(s.video) : v[i] = s.video[j]
  <2>1. i = n + 1 \/ i \in 1..n
    BY <1>6
  <2> QED
    BY <1>3, <1>6, <1>7, <2>1
<1> QED
  BY <1>1, <1>3, <1>5, <1>6, <1>7, <1>8

-----------------------------------------------------------------------------
(* Questions and their streams                                             *)

LEMMA RequestFields ==
    ASSUME RequestsOK, NEW r \in requests
    PROVE  /\ r.n \in Streams /\ r.stream \in Streams /\ r.stream \in Nat \ {0} /\ r.visit \in Nat
           /\ r.what \in {"ask", "list", "replace"} /\ asked \in Nat
BY RoomMediaAssumption DEF RequestsOK, Requests, Streams

LEMMA OwnedKept ==
    ASSUME Parts, Owned, requests' \subseteq requests, asked' = asked, visit' = visit,
           streamRef' \in {0, streamRef}
    PROVE  Owned'
BY RequestFields DEF Parts, Owned, RequestsOK

\* A new question, of this page or of the one that is opened.
LEMMA OwnedAsk ==
    ASSUME Parts, Owned, NEW before \in SUBSET requests, NEW q,
           requests' = before \cup {q}, q.visit = visit', q.stream = asked + 1, asked' = asked + 1,
           \/ visit' = visit /\ streamRef' = streamRef
           \/ visit' = visit + 1 /\ streamRef' = 0
    PROVE  Owned'
<1>1. asked \in Nat /\ visit \in Nat /\ streamRef \in Nat
  BY RoomMediaAssumption DEF Parts, RequestsOK, PageOK, StreamsOK
<1>2. \A r \in requests : r.stream \in Nat \ {0} /\ r.visit \in Nat
  BY RequestFields DEF Parts
<1> QED
  BY <1>1, <1>2 DEF Owned

\* A question for another track of the stream of the page.
LEMMA OwnedReplace ==
    ASSUME Parts, Owned, NEW q, requests' = requests \cup {q}, q.visit = visit,
           q.stream = streamRef, asked' = asked + 1, visit' = visit, streamRef' = streamRef
    PROVE  Owned'
<1>1. asked \in Nat /\ visit \in Nat /\ streamRef \in Nat
  BY RoomMediaAssumption DEF Parts, RequestsOK, PageOK, StreamsOK
<1>2. \A r \in requests : r.stream \in Nat \ {0} /\ r.visit \in Nat
  BY RequestFields DEF Parts
<1> QED
  BY <1>1, <1>2 DEF Owned

\* An answer, after which the same question may go on.
LEMMA OwnedAnswer ==
    ASSUME Parts, Owned, NEW r \in requests, NEW q, q.visit = r.visit, q.stream = r.stream,
           requests' \subseteq (requests \ {r}) \cup {q}, asked' = asked, visit' = visit,
           streamRef' = streamRef \/ (streamRef' = r.stream /\ r.visit = visit)
    PROVE  Owned'
<1>1. \A x \in requests : x.stream \in Nat \ {0} /\ x.visit \in Nat
  BY RequestFields DEF Parts
<1> QED
  BY <1>1 DEF Owned

-----------------------------------------------------------------------------
(* The page                                                                *)

LEMMA MediaMount ==
    ASSUME Parts, Away, MediaInv, NEW p \in {"form", "auto"}, NEW before \in SUBSET requests,
           Mount(p, before)
    PROVE  MediaInv'
<1>1. PICK q : q = [n |-> asked + 1, visit |-> visit + 1, what |-> "ask", stream |-> asked + 1, old |-> 0,
                    cam |-> savedCam, join |-> (p = "auto")]
  OBVIOUS
<1>2. /\ requests' = before \cup {q} /\ asked' = asked + 1 /\ visit' = visit + 1 /\ streamRef' = 0
      /\ page' = p /\ shown' = FALSE /\ overlap' = FALSE /\ synced' = FALSE
  BY <1>1 DEF Mount, Ask
<1>3. q.visit = visit + 1 /\ q.stream = asked + 1 /\ q.what = "ask"
  BY <1>1
<1>4. Owned'
  BY <1>2, <1>3, OwnedAsk DEF MediaInv
<1>5. \A r \in before : r.visit # visit + 1
  BY RequestFields DEF MediaInv, Owned, Parts, PageOK
<1>6. \A r \in requests' : r.visit = visit' => r = q
  BY <1>2, <1>5
<1>7. OneQuestion'
  BY <1>2, <1>3, <1>6 DEF OneQuestion, Mine
<1> QED
  BY <1>2, <1>4, <1>7 DEF MediaInv, AsChosen, Sent, Told, OneCamera

LEMMA MediaLeave == ASSUME Parts, MediaInv, Leave PROVE MediaInv'
<1>1. /\ page' = "gone" /\ streamRef' = 0 /\ synced' = FALSE
      /\ UNCHANGED <<requests, asked, visit>>
  BY DEF Leave
<1>2. Owned'
  BY <1>1, OwnedKept DEF MediaInv
<1> QED
  BY <1>1, <1>2 DEF MediaInv, OneQuestion, AsChosen, Sent, Told, OneCamera, Open

LEMMA MediaJoin == ASSUME Parts, Away, MediaInv, HandleJoin PROVE MediaInv'
<1> USE DEF MediaInv
<1>1. /\ page = "form" /\ page' # "call"
      /\ UNCHANGED <<visit, streamRef, shown, activeCam, on, stream, pc, toPeer, peerSees, flipped,
                     camLost, synced>>
  BY DEF HandleJoin, mediaVars, wireVars
<1>2. Told' /\ Sent'
  BY <1>1 DEF Told, Sent
<1>3. CASE shown
  <2>1. UNCHANGED <<requests, asked, overlap>>
    BY <1>3 DEF HandleJoin
  <2>2. Owned'
    BY <1>1, <2>1, OwnedKept
  <2>3. Open' => Open
    BY <1>1, <2>1 DEF Open
  <2>4. OneQuestion'
    BY <1>1, <1>3, <2>1, <2>3 DEF OneQuestion, Mine
  <2>5. AsChosen' /\ OneCamera'
    BY <1>1, <2>1, <2>3 DEF AsChosen, OneCamera, Mine, Video
  <2> QED
    BY <1>2, <2>2, <2>4, <2>5
<1>4. CASE ~shown
  <2>1. PICK q : q = [n |-> asked + 1, visit |-> visit, what |-> "ask", stream |-> asked + 1, old |-> 0,
                      cam |-> activeCam, join |-> TRUE]
    OBVIOUS
  <2>2. /\ requests' = requests \cup {q} /\ asked' = asked + 1
        /\ overlap' = (overlap \/ Pending(visit, {"ask", "list"}))
        /\ page' = page
    BY <1>4, <2>1 DEF HandleJoin, Ask
  <2>3. q.visit = visit /\ q.stream = asked + 1 /\ q.what = "ask"
    BY <2>1
  <2>4. Owned'
    BY <1>1, <2>2, <2>3, OwnedAsk
  <2>5. Open' => Open /\ Mine({"ask", "list"}) = {}
    BY <1>1, <2>2 DEF Open, Pending, Mine
  <2>6. Open => Mine({"replace"}) = {} /\ streamRef = 0
    BY <1>4, RequestFields DEF OneQuestion, Mine, Parts
  <2>7. OneQuestion'
    <3> SUFFICES ASSUME Open' PROVE /\ \A r \in Mine({"ask", "list", "replace"})' : r = q
                                    /\ ~shown' /\ streamRef' = 0 /\ page' = "form"
      BY <2>3 DEF OneQuestion, Mine
    <3> QED
      BY <1>1, <1>4, <2>2, <2>5, <2>6 DEF Mine
  <2>8. AsChosen' /\ OneCamera'
    BY <1>1, <1>4 DEF AsChosen, OneCamera
  <2> QED
    BY <1>2, <2>4, <2>7, <2>8
<1> QED
  BY <1>3, <1>4

-----------------------------------------------------------------------------
(* The peer and the network                                                *)

LEMMA MediaPeer == ASSUME Parts, MediaInv, Peer PROVE MediaInv'
<1> USE DEF MediaInv
<1>1. UNCHANGED <<visit, streamRef, shown, activeCam, on, requests, asked, overlap, stream, flipped, camLost>>
  BY DEF Peer, PeerComes, PeerGoes, Drop, OnMediaState, mediaVars, histVars
<1>2. Owned'
  BY <1>1, OwnedKept
<1>3. page # "gone" /\ page' # page => page \notin {"form", "auto"} /\ page' # "gone"
  BY DEF Peer, PeerComes, PeerGoes, Drop, OnMediaState
<1>4. page' = "gone" <=> page = "gone"
  BY DEF Peer, PeerComes, PeerGoes, Drop, OnMediaState
<1>5. Open' <=> Open
  BY <1>1, <1>4 DEF Open
<1>6. OneQuestion'
  BY <1>1, <1>3, <1>4, <1>5 DEF OneQuestion, Mine, Open
<1>7. AsChosen' /\ OneCamera'
  BY <1>1, <1>5 DEF AsChosen, OneCamera, Mine, Video
<1>8. Sent'
  <2>1. CASE PeerComes
    <3>1. pc' = [made |-> TRUE, mic |-> IF shown THEN streamRef ELSE 0,
                 video |-> IF shown /\ Video # <<>> THEN Head(Video).id ELSE 0]
      BY <2>1 DEF PeerComes, CreatePC, Video
    <3> QED
      BY <1>1, <1>5, <3>1 DEF Sent, AsChosen, Video
  <2>2. CASE PeerGoes
    BY <2>2 DEF PeerGoes, Sent
  <2>3. CASE Drop \/ OnMediaState
    <3>1. page' = page /\ pc' = pc
      BY <2>3 DEF Drop, OnMediaState
    <3> QED
      BY <1>1, <1>5, <3>1 DEF Sent, Video
  <2> QED
    BY <2>1, <2>2, <2>3 DEF Peer
<1>9. Told'
  <2>1. CASE PeerComes
    BY <1>1, <2>1 DEF PeerComes, Told, wireVars, histVars
  <2>2. CASE PeerGoes \/ Drop
    BY <2>2 DEF PeerGoes, Drop, Told
  <2>3. CASE OnMediaState
    <3>1. toPeer \in Seq(Switches) /\ toPeer # <<>>
      BY <2>3 DEF OnMediaState, Parts, PeerOK
    <3>2. peerSees' = Head(toPeer) /\ toPeer' = Tail(toPeer) /\ synced' = synced
      BY <2>3 DEF OnMediaState, histVars
    <3>3. CASE Len(toPeer) = 1
      BY <1>1, <3>1, <3>2, <3>3 DEF Told
    <3>4. CASE Len(toPeer) # 1
      <4>1. /\ Len(toPeer) \in Nat \ {0, 1} /\ Len(Tail(toPeer)) = Len(toPeer) - 1
            /\ \A i \in 1..(Len(toPeer) - 1) : Tail(toPeer)[i] = toPeer[i + 1]
        BY <3>1, <3>4, HeadTailProperties, EmptySeq
      <4>2. PICK n \in Nat \ {0} : n = Len(toPeer) - 1 /\ Len(toPeer) = n + 1
        <5>1. PICK l \in Nat \ {0, 1} : l = Len(toPeer)
          BY <4>1
        <5>2. l - 1 \in Nat \ {0} /\ l = (l - 1) + 1
          OBVIOUS
        <5> QED
          BY <5>1, <5>2, Zenon
      <4>3. Len(Tail(toPeer)) = n /\ Tail(toPeer)[n] = toPeer[n + 1]
        BY <4>1, <4>2
      <4>4. Tail(toPeer)[Len(Tail(toPeer))] = toPeer[Len(toPeer)]
        BY <4>2, <4>3, Zenon
      <4>5. Tail(toPeer) # <<>>
        BY <4>2, <4>3
      <4> QED
        BY <1>1, <3>1, <3>2, <4>4, <4>5 DEF Told
    <3> QED
      BY <3>3, <3>4
  <2> QED
    BY <2>1, <2>2, <2>3 DEF Peer
<1> QED
  BY <1>2, <1>6, <1>7, <1>8, <1>9

-----------------------------------------------------------------------------
(* The buttons                                                             *)

\* A stream that is shown, and its tracks.
LEMMA ShownStream ==
    ASSUME Parts, streamRef # 0
    PROVE  /\ streamRef \in Streams /\ DOMAIN stream = Streams /\ stream[streamRef] \in MediaStreams
           /\ Video \in Seq(Tracks) /\ Len(Video) \in Nat
           /\ Video # <<>> => 1 \in DOMAIN Video /\ Head(Video) = Video[1] /\ Len(Video) # 0
                              /\ Head(Video) \in Tracks
<1>1. streamRef \in Streams /\ DOMAIN stream = Streams
  BY RoomMediaAssumption DEF Parts, StreamsOK, Streams
<1>2. stream[streamRef] \in MediaStreams
  BY <1>1 DEF Parts, StreamsOK
<1>3. Video \in Seq(Tracks) /\ Len(Video) \in Nat
  BY <1>2 DEF Video, MediaStreams, Videos
<1>4. ASSUME Video # <<>> PROVE 1 \in DOMAIN Video /\ Head(Video) = Video[1] /\ Len(Video) # 0
                                /\ Head(Video) \in Tracks
  <2>1. Len(Video) \in Nat \ {0}
    BY <1>3, <1>4, EmptySeq
  <2> QED
    BY <1>3, <1>4, <2>1, HeadTailProperties
<1> QED
  BY <1>1, <1>2, <1>3, <1>4

\* A question for another camera: the page shows what it showed.
LEMMA MediaReplace ==
    ASSUME Parts, MediaInv, page # "gone", shown, NEW cam, AskReplace(cam),
           UNCHANGED <<page, visit, streamRef, shown, on, stream, pc, toPeer, peerSees, overlap, flipped, synced>>
    PROVE  MediaInv'
<1> USE DEF MediaInv
<1>1. PICK q : q = [n |-> asked + 1, visit |-> visit, what |-> "replace", stream |-> streamRef,
                    old |-> Head(stream[streamRef].video).id, cam |-> cam, join |-> FALSE]
  OBVIOUS
<1>2. /\ requests' = requests \cup {q} /\ asked' = asked + 1
      /\ camLost' = (camLost \/ Pending(visit, {"ask", "list", "replace"}))
  BY <1>1 DEF AskReplace
<1>3. q.visit = visit /\ q.stream = streamRef /\ q.what = "replace" /\ q.old = Head(Video).id
  BY <1>1 DEF Video
<1>4. Owned'
  BY <1>2, <1>3, OwnedReplace
<1>5. Open' <=> Open
  BY DEF Open
<1>6. /\ Mine({"ask", "list"})' = Mine({"ask", "list"}) /\ Mine({"ask"})' = Mine({"ask"})
      /\ Mine({"list"})' = Mine({"list"})
      /\ Mine({"list", "replace"})' = Mine({"list", "replace"}) \cup {q}
      /\ Mine({"replace"})' = Mine({"replace"}) \cup {q}
  BY <1>2, <1>3 DEF Mine
<1>7. OneQuestion'
  BY <1>3, <1>5, <1>6 DEF OneQuestion
<1>8. AsChosen' /\ Sent' /\ Told'
  BY <1>5, <1>6 DEF AsChosen, Sent, Told, Video
<1>9. OneCamera'
  <2>1. ~camLost' => ~camLost /\ Mine({"list", "replace"}) = {}
    BY <1>2 DEF Pending, Mine
  <2> QED
    BY <1>3, <1>5, <1>6, <2>1 DEF OneCamera, Video
<1> QED
  BY <1>4, <1>7, <1>8, <1>9

\* A button: every track follows it.
LEMMA MediaToggle ==
    ASSUME Parts, MediaInv, page # "gone", shown, NEW what \in {"mic", "cam"}, Toggle(what), Told'
    PROVE  MediaInv'
<1> USE DEF MediaInv
<1>0. streamRef # 0
  BY DEF Parts, StreamsOK
<1>1. UNCHANGED <<page, visit, streamRef, shown, activeCam, requests, pc, asked, overlap, flipped, camLost>>
  BY DEF Toggle
<1>2. PICK s : s = stream[streamRef] /\ s \in MediaStreams /\ s.video = Video
  BY <1>0, ShownStream DEF Video
<1>3. stream'[streamRef'] = Flip(s, what)
  BY <1>0, <1>1, <1>2, ShownStream DEF Toggle
<1>4. PICK v : v = Flip(s, what).video /\ Video' = v
  BY <1>3 DEF Video
<1>5. on.mic \in BOOLEAN /\ on.cam \in BOOLEAN /\ on' = [on EXCEPT ![what] = ~on[what]]
  BY DEF Toggle, Parts, PageOK, Switches
<1>6. /\ DOMAIN v = DOMAIN Video
      /\ \A i \in DOMAIN v : v[i].id = Video[i].id /\ v[i].cam = Video[i].cam
  BY <1>2, <1>4, FlipTracks
<1>7. Flip(s, what) \in MediaStreams
  BY <1>2, FlipProperties
<1>8. v \in Seq(Tracks) /\ Video \in Seq(Tracks)
  BY <1>0, <1>4, <1>7, ShownStream DEF MediaStreams, Videos
<1>9. Len(v) = Len(Video) /\ (v = <<>> <=> Video = <<>>)
      /\ (Video # <<>> => Head(v).id = Head(Video).id /\ Head(v).cam = Head(Video).cam)
  <2>1. Len(v) = Len(Video)
    BY <1>6, <1>8
  <2>2. v = <<>> <=> Video = <<>>
    BY <1>8, <2>1
  <2>3. ASSUME Video # <<>> PROVE Head(v).id = Head(Video).id /\ Head(v).cam = Head(Video).cam
    <3>1. 1 \in DOMAIN v /\ Head(v) = v[1] /\ Head(Video) = Video[1]
      BY <1>6, <1>8, <2>1, <2>2, <2>3, EmptySeq
    <3> QED
      BY <1>6, <3>1
  <2> QED
    BY <2>1, <2>2, <2>3
<1>10. Open' <=> Open
  BY <1>1 DEF Open
<1>11. Owned'
  BY <1>1, OwnedKept
<1>12. OneQuestion'
  BY <1>1, <1>10 DEF OneQuestion, Mine
<1>13. Sent'
  BY <1>1, <1>4, <1>9, <1>10 DEF Sent, AsChosen
<1>14. OneCamera'
  BY <1>1, <1>4, <1>9, <1>10 DEF OneCamera, AsChosen, Mine
<1>15. AsChosen'
  <2>0. Open => Flip(s, what).mic # "none" /\ v # <<>>
    <3>1. Open => s.mic \in {"on", "muted"} /\ Video # <<>>
      BY <1>2 DEF AsChosen, MediaStreams
    <3>2. what \in {"mic", "cam"}
      OBVIOUS
    <3> QED
      BY <1>2, <1>9, <3>1, <3>2, FlipTracks
  <2>00. stream'[streamRef'].mic = Flip(s, what).mic
    BY <1>3
  <2> SUFFICES ASSUME Open', Mine({"list"})' = {}
               PROVE  /\ Flip(s, what).mic = (IF on'.mic THEN "on" ELSE "muted")
                      /\ flipped' \/ \A i \in DOMAIN v : v[i].on = on'.cam
    BY <1>4, <1>10, <2>0, <2>00 DEF AsChosen
  <2>1. /\ s.mic = (IF on.mic THEN "on" ELSE "muted")
        /\ flipped \/ \A i \in DOMAIN Video : Video[i].on = on.cam
    BY <1>1, <1>2, <1>10 DEF AsChosen, Mine
  <2>2. CASE what = "mic"
    <3>1. /\ on'.mic = ~on.mic /\ on'.cam = on.cam /\ v = Video
          /\ s.mic = "on" => Flip(s, "mic").mic = "muted"
          /\ s.mic = "muted" => Flip(s, "mic").mic = "on"
      BY <1>2, <1>4, <1>5, <2>2, FlipTracks DEF Parts, PageOK, Switches
    <3> QED
      BY <1>1, <1>5, <2>1, <2>2, <3>1
  <2>3. CASE what = "cam"
    <3>1. on'.mic = on.mic /\ on'.cam = ~on.cam
      BY <1>5, <2>3 DEF Parts, PageOK, Switches
    <3>2. /\ Flip(s, what).mic = s.mic /\ DOMAIN v = DOMAIN Video
          /\ \A i \in DOMAIN Video : v[i].on = ~Video[i].on
      BY <1>2, <1>4, <2>3, FlipTracks
    <3>3. flipped' = flipped
      BY <1>1
    <3> QED
      BY <2>1, <3>1, <3>2, <3>3, Zenon
  <2> QED
    BY <2>2, <2>3
<1> QED
  BY <1>11, <1>12, <1>13, <1>14, <1>15

LEMMA MediaUser == ASSUME Parts, Away, MediaInv, User PROVE MediaInv'
<1>1. CASE OpenForm \/ OpenAuto
  BY <1>1, MediaMount DEF OpenForm, OpenAuto
<1>2. CASE Reload
  BY <1>2, MediaMount DEF Reload
<1>3. CASE Leave
  BY <1>3, MediaLeave
<1>4. CASE HandleJoin
  BY <1>4, MediaJoin
<1>5. CASE ChangeQuality
  BY <1>5, MediaReplace DEF ChangeQuality, Controls, mediaVars, wireVars
<1>6. ASSUME NEW cam \in Cams, ChangeCamera(cam) PROVE MediaInv'
  BY <1>6, MediaReplace DEF ChangeCamera, CameraMenu, Previewing, Controls, wireVars
<1>7. ASSUME NEW what \in {"mic", "cam"}, TogglePreview(what) PROVE MediaInv'
  BY <1>7, MediaToggle DEF TogglePreview, Previewing, Told
<1>8. ASSUME NEW what \in {"mic", "cam"}, ToggleInCall(what) PROVE MediaInv'
  <2>1. Told'
    <3>1. toPeer \in Seq(Switches \cup {on'})
      BY DEF Parts, PeerOK
    <3>2. CASE link
      <4>1. toPeer' = Append(toPeer, on')
        BY <1>8, <3>2 DEF ToggleInCall, MediaState
      <4>2. Len(toPeer') = Len(toPeer) + 1 /\ toPeer'[Len(toPeer) + 1] = on' /\ toPeer' # <<>>
        BY <3>1, <4>1, AppendProperties
      <4> QED
        BY <4>2 DEF Told
    <3>3. CASE ~link
      BY <1>8, <3>3 DEF ToggleInCall, Told
    <3> QED
      BY <3>2, <3>3
  <2> QED
    BY <1>8, <2>1, MediaToggle DEF ToggleInCall, Controls
<1> QED
  BY <1>1, <1>2, <1>3, <1>4, <1>5, <1>6, <1>7, <1>8 DEF User

-----------------------------------------------------------------------------
(* The answers                                                             *)

\* An answer to another page's question does not touch the stream of this one.
LEMMA MediaOther ==
    ASSUME Parts, MediaInv, NEW r \in requests, NEW q, q.visit = r.visit, q.stream = r.stream,
           r.visit # visit \/ page = "gone",
           requests' \subseteq (requests \ {r}) \cup {q}, requests \ {r} \subseteq requests',
           \A s \in Streams \ {r.stream} : stream'[s] = stream[s],
           UNCHANGED <<page, visit, streamRef, shown, activeCam, on, pc, toPeer, peerSees, asked, overlap,
                       flipped, camLost, synced>>
    PROVE  MediaInv'
<1> USE DEF MediaInv
<1>1. Owned'
  BY OwnedAnswer
<1>2. CASE page = "gone"
  BY <1>1, <1>2 DEF OneQuestion, AsChosen, Sent, Told, OneCamera, Open
<1>3. CASE r.visit # visit
  <2>1. \A what : Mine(what)' = Mine(what)
    BY <1>3 DEF Mine
  <2>2. Open' <=> Open
    BY DEF Open
  <2>3. streamRef # 0 => stream'[streamRef] = stream[streamRef]
    BY <1>3, ShownStream DEF Owned
  <2>4. OneQuestion'
    BY <2>1, <2>2 DEF OneQuestion
  <2>5. shown => streamRef # 0
    BY DEF Parts, StreamsOK
  <2>6. AsChosen' /\ Sent' /\ OneCamera'
    BY <2>1, <2>2, <2>3, <2>5 DEF AsChosen, Sent, OneCamera, Video
  <2>7. Told'
    BY DEF Told
  <2> QED
    BY <1>1, <2>4, <2>6, <2>7
<1> QED
  BY <1>2, <1>3

LEMMA MediaGrant == ASSUME Parts, Away, MediaInv, NEW r \in requests, Grant(r) PROVE MediaInv'
<1> USE DEF MediaInv
<1>0. r \in Requests /\ r.n \in Streams /\ r.stream \in Streams /\ r.what = "ask"
      /\ DOMAIN stream = Streams
  BY DEF Grant, Parts, RequestsOK, Requests, StreamsOK
<1>1. PICK q : q = [r EXCEPT !.what = "list"]
  OBVIOUS
<1>2. q.visit = r.visit /\ q.stream = r.stream /\ q.what = "list"
  BY <1>0, <1>1 DEF Requests
<1>3. /\ requests' = (requests \ {r}) \cup {q}
      /\ UNCHANGED <<page, visit, activeCam, on, toPeer, peerSees, asked, overlap, flipped, camLost, synced>>
  BY <1>1 DEF Grant, wireVars
<1>4. PICK cam \in Cams : stream' = [stream EXCEPT ![r.stream] = Granted(r.n, cam)]
  BY <1>0 DEF Grant, Choices, Requests
<1>5. stream'[r.stream] = Granted(r.n, cam) /\ \A s \in Streams \ {r.stream} : stream'[s] = stream[s]
  BY <1>0, <1>4
<1>6. CASE ~Mounted(r)
  <2>1. UNCHANGED <<streamRef, shown, pc>>
    BY <1>6 DEF Grant
  <2> QED
    BY <1>2, <1>3, <1>5, <1>6, <2>1, MediaOther DEF Mounted
<1>7. CASE Mounted(r)
  <2>1. r.visit = visit /\ page # "gone" /\ streamRef' = r.stream /\ shown' = TRUE
    BY <1>7 DEF Grant, Mounted
  <2>2. Owned'
    BY <1>2, <1>3, <2>1, OwnedAnswer
  <2>3. Told'
    BY <1>3 DEF Told
  <2>4. Open' <=> Open
    BY <1>3 DEF Open
  <2>5. Open => /\ streamRef = 0 /\ page \in {"form", "auto"} /\ Mine({"ask", "list", "replace"}) = {r}
    <3>1. r \in Mine({"ask"}) /\ r \in Mine({"ask", "list"})
      BY <1>0, <2>1 DEF Mine
    <3> HAVE Open
    <3>2. streamRef = 0 /\ page \in {"form", "auto"}
      BY <3>1 DEF OneQuestion
    <3>3. Mine({"replace"}) = {}
      BY <3>2, RequestFields DEF OneQuestion, Mine, Parts
    <3> QED
      BY <3>1, <3>2, <3>3 DEF OneQuestion, Mine
  <2>6. Open => Mine({"ask", "list", "replace"})' = {q}
    BY <1>2, <1>3, <2>1, <2>5 DEF Mine
  <2>7. Open => /\ Mine({"ask"})' = {} /\ Mine({"ask", "list"})' = {q} /\ Mine({"list"})' = {q}
                /\ Mine({"replace"})' = {} /\ Mine({"list", "replace"})' = {q}
    BY <1>2, <2>6 DEF Mine
  <2>8. Video' = Granted(r.n, cam).video
    BY <1>5, <2>1 DEF Video
  <2>9. Video' # <<>> /\ Len(Video') = 1
    BY <1>0, <2>8, GrantedTracks
  <2>10. OneQuestion'
    <3> SUFFICES ASSUME Open'
                 PROVE  /\ shown' <=> streamRef' # 0
                        /\ q.stream = streamRef'
                        /\ Mine({"ask", "list"})' = {q} /\ Mine({"ask"})' = {} /\ Mine({"list", "replace"})' = {q}
      BY <2>4, <2>7 DEF OneQuestion
    <3> QED
      BY <1>0, <1>2, <2>1, <2>4, <2>7 DEF Streams
  <2>11. AsChosen' /\ OneCamera'
    <3>1. stream'[streamRef'].mic # "none"
      BY <1>0, <1>5, <2>1, GrantedTracks
    <3> QED
      BY <2>4, <2>7, <2>9, <3>1 DEF AsChosen, OneCamera
  <2>12. Sent'
    BY <1>3, <2>4, <2>5 DEF Sent
  <2> QED
    BY <2>2, <2>3, <2>10, <2>11, <2>12
<1> QED
  BY <1>6, <1>7

LEMMA MediaListed == ASSUME Parts, Away, MediaInv, NEW r \in requests, Listed(r) PROVE MediaInv'
<1> USE DEF MediaInv
<1>0. /\ r.stream \in Streams /\ r.what = "list" /\ DOMAIN stream = Streams
      /\ stream[r.stream] \in MediaStreams /\ on \in Switches
  BY DEF Listed, Parts, RequestsOK, Requests, StreamsOK, PageOK
<1>1. /\ requests' = requests \ {r}
      /\ UNCHANGED <<visit, streamRef, shown, on, pc, toPeer, peerSees, asked, overlap, camLost, synced>>
  BY DEF Listed, wireVars
<1>2. PICK s : s = Enable(stream[r.stream], on)
  OBVIOUS
<1>3. stream'[r.stream] = s /\ \A x \in Streams \ {r.stream} : stream'[x] = stream[x]
  BY <1>0, <1>2 DEF Listed
<1>4. CASE ~Mounted(r)
  <2>1. UNCHANGED <<page, activeCam, flipped>>
    BY <1>4 DEF Listed, Joins
  <2> QED
    BY <1>1, <1>3, <1>4, <2>1, MediaOther DEF Mounted
<1>5. CASE Mounted(r)
  <2>1. /\ r.visit = visit /\ page # "gone" /\ page' \in {page, "waiting"} /\ flipped' = FALSE
        /\ activeCam' = IF stream[r.stream].video = <<>> THEN activeCam
                        ELSE Head(stream[r.stream].video).cam
    BY <1>5 DEF Listed, Mounted, Joins
  <2>2. Owned' /\ Told'
    BY <1>1, OwnedKept DEF Told
  <2>3. Open' <=> Open
    BY <1>1, <2>1 DEF Open
  <2>4. Open => /\ r.stream = streamRef /\ streamRef # 0
                /\ Mine({"ask", "list"}) = {r}
    BY <1>0, <2>1 DEF OneQuestion, Mine, Streams
  <2>5. Open => /\ Mine({"ask", "list"})' = {} /\ Mine({"ask"})' = {} /\ Mine({"list"})' = {}
                /\ Mine({"replace"})' = Mine({"replace"}) /\ Mine({"list", "replace"})' = Mine({"replace"})
                /\ r \in Mine({"list", "replace"})
    BY <1>0, <1>1, <2>1, <2>4 DEF Mine
  <2>6. OneQuestion'
    <3>1. Open => \A x \in Mine({"replace"}) : x.stream = streamRef
      BY DEF OneQuestion, Mine
    <3> QED
      BY <1>1, <2>3, <2>4, <2>5, <3>1 DEF OneQuestion
  <2>7. PICK v : v = s.video /\ (Open => Video' = v)
    BY <1>1, <1>3, <2>4 DEF Video
  <2>8. Open => /\ s.mic = IF stream[streamRef].mic = "none" THEN "none" ELSE IF on.mic THEN "on" ELSE "muted"
                /\ DOMAIN v = DOMAIN Video
                /\ \A i \in DOMAIN Video : v[i].on = on.cam /\ v[i].id = Video[i].id /\ v[i].cam = Video[i].cam
    BY <1>0, <1>2, <2>4, <2>7, EnableTracks DEF Video
  <2>9. Open => v \in Seq(Tracks) /\ Video \in Seq(Tracks)
    BY <1>0, <1>2, <2>4, <2>7, EnableProperties, ShownStream DEF MediaStreams, Videos
  <2>10. Open => /\ Len(v) = Len(Video) /\ (v = <<>> <=> Video = <<>>)
                 /\ (Video # <<>> => Head(v).id = Head(Video).id /\ Head(v).cam = Head(Video).cam)
    <3> HAVE Open
    <3>1. Len(v) = Len(Video)
      BY <2>8, <2>9
    <3>2. v = <<>> <=> Video = <<>>
      BY <2>9, <3>1
    <3>3. ASSUME Video # <<>> PROVE Head(v).id = Head(Video).id /\ Head(v).cam = Head(Video).cam
      <4>1. 1 \in DOMAIN v /\ Head(v) = v[1] /\ Head(Video) = Video[1]
        BY <2>8, <2>9, <3>1, <3>2, <3>3, EmptySeq
      <4> QED
        BY <2>8, <4>1
    <3> QED
      BY <3>1, <3>2, <3>3
  <2>11. Sent'
    BY <1>1, <2>1, <2>3, <2>7, <2>10 DEF Sent, AsChosen
  <2>12. shown' /\ Open => Video # <<>> /\ stream[streamRef].mic # "none"
    BY <1>1 DEF AsChosen
  <2>13. AsChosen'
    <3> SUFFICES ASSUME Open', shown'
                 PROVE  /\ v # <<>> /\ s.mic = (IF on.mic THEN "on" ELSE "muted")
                        /\ \A i \in DOMAIN v : v[i].on = on.cam
      BY <1>1, <1>3, <2>3, <2>4, <2>7 DEF AsChosen
    <3> QED
      BY <2>3, <2>8, <2>10, <2>12
  <2>14. OneCamera'
    <3> SUFFICES ASSUME Open', shown', ~camLost'
                 PROVE  Len(v) = 1 /\ Mine({"replace"}) = {} /\ Head(v).cam = activeCam'
      BY <2>3, <2>5, <2>7 DEF OneCamera
    <3>1. Open /\ shown /\ ~camLost
      BY <1>1, <2>3
    <3>2. Len(Video) = 1 /\ \A x, y \in Mine({"list", "replace"}) : x = y
      BY <3>1 DEF OneCamera
    <3>3. Mine({"replace"}) = {}
      BY <1>0, <2>5, <3>1, <3>2 DEF Mine
    <3>4. activeCam' = Head(Video).cam /\ Head(v).cam = Head(Video).cam
      BY <2>1, <2>4, <2>10, <2>12, <3>1 DEF Video
    <3> QED
      BY <2>10, <3>1, <3>2, <3>3, <3>4
  <2> QED
    BY <2>2, <2>6, <2>11, <2>13, <2>14
<1> QED
  BY <1>4, <1>5

LEMMA MediaDeny == ASSUME Parts, Away, MediaInv, NEW r \in requests, Deny(r) PROVE MediaInv'
<1> USE DEF MediaInv
<1>0. r.what = "ask"
  BY DEF Deny
<1>1. /\ requests' = requests \ {r} /\ page' = Joins(r) /\ shown' = (shown /\ ~Mounted(r))
      /\ UNCHANGED <<visit, streamRef, activeCam, on, stream, pc, toPeer, peerSees, asked, overlap, flipped,
                     camLost, synced>>
  BY DEF Deny, wireVars, histVars
<1>2. CASE ~Mounted(r)
  <2>1. page' = page /\ shown' = shown
    BY <1>1, <1>2, Zenon DEF Joins, Parts, FlagsOK
  <2> QED
    BY <1>1, <1>2, <2>1, MediaOther DEF Mounted
<1>3. CASE Mounted(r)
  <2>1. r.visit = visit /\ page # "gone" /\ page' \in {page, "waiting"} /\ shown' = FALSE
    BY <1>1, <1>3 DEF Mounted, Joins
  <2>2. Owned' /\ Told'
    BY <1>1, OwnedKept DEF Told
  <2>3. Open' <=> Open
    BY <1>1, <2>1 DEF Open
  <2>4. Open => streamRef = 0 /\ page # "call" /\ Mine({"ask", "list"}) = {r}
    BY <1>0, <2>1 DEF OneQuestion, Mine
  <2>5. Open => Mine({"replace"}) = {}
    BY <2>4, RequestFields DEF OneQuestion, Mine, Parts
  <2>6. Open => \A what \in {{"ask", "list"}, {"ask"}, {"list", "replace"}} : Mine(what)' = {}
    BY <1>1, <2>4, <2>5 DEF Mine
  <2>7. OneQuestion'
    BY <1>1, <2>1, <2>3, <2>4, <2>6 DEF OneQuestion
  <2>8. Sent' /\ AsChosen' /\ OneCamera'
    BY <2>1, <2>3, <2>4 DEF Sent, AsChosen, OneCamera
  <2> QED
    BY <2>2, <2>7, <2>8
<1> QED
  BY <1>2, <1>3

LEMMA MediaFailed == ASSUME Parts, Away, MediaInv, NEW r \in requests, ReplaceFailed(r) PROVE MediaInv'
<1> USE DEF MediaInv
<1>1. /\ requests' = requests \ {r} /\ camLost' = (camLost \/ Mounted(r)) /\ r.what = "replace"
      /\ UNCHANGED <<page, visit, streamRef, shown, activeCam, on, stream, pc, toPeer, peerSees, asked, overlap,
                     flipped, synced>>
  BY DEF ReplaceFailed, mediaVars, wireVars
<1>2. CASE ~Mounted(r)
  <2>1. camLost' = camLost
    BY <1>1, <1>2, Zenon DEF Parts, FlagsOK
  <2> QED
    BY <1>1, <1>2, <2>1, MediaOther DEF Mounted
<1>3. CASE Mounted(r)
  <2>1. Owned' /\ Told'
    BY <1>1, OwnedKept DEF Told
  <2>2. Open' <=> Open
    BY <1>1 DEF Open
  <2>3. OneQuestion'
    BY <1>1, <2>2 DEF OneQuestion, Mine
  <2>4. Mine({"list"})' = Mine({"list"})
    BY <1>1 DEF Mine
  <2>5. Sent' /\ AsChosen' /\ OneCamera'
    BY <1>1, <1>3, <2>2, <2>4 DEF Sent, AsChosen, OneCamera, Video
  <2> QED
    BY <2>1, <2>3, <2>5
<1> QED
  BY <1>2, <1>3

LEMMA MediaReplaced == ASSUME Parts, Away, MediaInv, NEW r \in requests, Replaced(r) PROVE MediaInv'
<1> USE DEF MediaInv
<1>0. /\ r \in Requests /\ r.stream \in Streams /\ r.n \in Streams /\ r.what = "replace" /\ DOMAIN stream = Streams
      /\ stream[r.stream] \in MediaStreams /\ r.cam \in Cams \cup {NoCam}
  BY DEF Replaced, Parts, RequestsOK, Requests, StreamsOK
<1>1. /\ requests' = requests \ {r}
      /\ UNCHANGED <<page, visit, on, toPeer, peerSees, asked, overlap, camLost, synced>>
  BY DEF Replaced, wireVars
<1>2. PICK cam \in Cams :
          /\ stream' = [stream EXCEPT ![r.stream] = Swap(stream[r.stream], r.old, Track(r.n, cam))]
          /\ activeCam' = IF Mounted(r) THEN cam ELSE activeCam
  BY <1>0 DEF Replaced, Choices
<1>3. PICK new \in Tracks : new = Track(r.n, cam) /\ new.on /\ new.cam = cam
  BY <1>0, GrantedType DEF Track
<1>4. PICK s : s = Swap(stream[r.stream], r.old, new)
  OBVIOUS
<1>5. stream'[r.stream] = s /\ \A x \in Streams \ {r.stream} : stream'[x] = stream[x]
  BY <1>0, <1>2, <1>3, <1>4
<1>6. CASE ~Mounted(r)
  <2>1. UNCHANGED <<streamRef, shown, pc, flipped, activeCam>>
    BY <1>2, <1>6, Zenon DEF Replaced
  <2> QED
    BY <1>1, <1>5, <1>6, <2>1, MediaOther DEF Mounted
<1>7. CASE Mounted(r)
  <2>1. /\ r.visit = visit /\ page # "gone" /\ streamRef' = r.stream /\ shown' = TRUE
        /\ pc' = Follow(s) /\ activeCam' = cam
        /\ flipped' = (~on.cam \/ (flipped /\ Len(s.video) > 1))
    BY <1>2, <1>5, <1>7, Zenon DEF Replaced, Mounted
  <2>2. Owned'
    BY <1>1, <2>1, OwnedAnswer
  <2>3. Told' /\ (Open' <=> Open)
    BY <1>1 DEF Told, Open
  <2>4. Open => streamRef' = streamRef /\ streamRef # 0 /\ shown
    BY <1>0, <2>1 DEF OneQuestion, Mine, Streams
  <2>5. /\ \A what \in {{"ask", "list"}, {"ask"}, {"list"}} : Mine(what)' = Mine(what)
        /\ Mine({"list", "replace"})' = Mine({"list", "replace"}) \ {r}
        /\ Mine({"replace"})' = Mine({"replace"}) \ {r}
        /\ r \in Mine({"replace"}) /\ r \in Mine({"list", "replace"})
    BY <1>0, <1>1, <2>1 DEF Mine
  <2>6. OneQuestion'
    BY <1>1, <2>1, <2>3, <2>4, <2>5 DEF OneQuestion
  <2>7. PICK v : v = s.video /\ Video' = v
    BY <1>5, <2>1 DEF Video
  <2>8. /\ s.mic = stream[r.stream].mic /\ v # <<>> /\ Len(v) \in Nat /\ v[Len(v)] = new
        /\ \A i \in DOMAIN v : v[i] = new \/ \E j \in DOMAIN stream[r.stream].video : v[i] = stream[r.stream].video[j]
        /\ Len(stream[r.stream].video) = 1 /\ stream[r.stream].video[1].id = r.old => Len(v) = 1
    <3>1. PICK t \in MediaStreams : t = stream[r.stream]
      BY <1>0
    <3>2. PICK old : old = r.old
      OBVIOUS
    <3>3. s = Swap(t, old, new) /\ v = Swap(t, old, new).video
      BY <1>4, <2>7, <3>1, <3>2
    <3>4. /\ Swap(t, old, new).mic = t.mic /\ v # <<>> /\ Len(v) \in Nat /\ v[Len(v)] = new
          /\ \A i \in DOMAIN v : v[i] = new \/ \E j \in DOMAIN t.video : v[i] = t.video[j]
          /\ Len(t.video) = 1 /\ t.video[1].id = old => Len(v) = 1
      <4>1. Swapped(t, old, new, v)
        BY <1>3, <3>1, <3>3, SwapTracks
      <4> QED
        BY <4>1 DEF Swapped
    <3> QED
      BY <3>1, <3>2, <3>3, <3>4, Zenon
  <2>9. s \in MediaStreams /\ v \in Seq(Tracks)
    BY <1>0, <1>4, <2>7, SwapType DEF MediaStreams, Videos
  <2>10. Sent'
    <3> SUFFICES ASSUME Open', page' = "call" PROVE pc'.made /\ pc'.mic = r.stream /\ pc'.video = Head(v).id
      BY <2>1, <2>7 DEF Sent
    <3>1. pc.made /\ pc.mic = streamRef /\ pc.video = Head(Video).id
      BY <1>1, <2>3, <2>4 DEF Sent
    <3>2. Head(Video) \in Tracks /\ Head(Video).id # 0
      BY <2>3, <2>4, ShownStream DEF AsChosen, Tracks, Streams
    <3>3. pc \in [made : BOOLEAN, mic : 0..MaxAsked, video : 0..MaxAsked]
      BY DEF Parts, PeerOK
    <3> QED
      BY <2>1, <2>3, <2>4, <2>7, <2>8, <3>1, <3>2, <3>3 DEF Follow
  <2>11. Open => /\ v # <<>> /\ s.mic # "none"
                 /\ Mine({"list"}) = {} => s.mic = (IF on.mic THEN "on" ELSE "muted")
    BY <2>1, <2>4, <2>8 DEF AsChosen
  <2>12. ASSUME Open, Mine({"list"}) = {}, ~flipped' PROVE \A i \in DOMAIN v : v[i].on = on.cam
    <3>1. on.cam = TRUE /\ (~flipped \/ Len(v) = 1)
      <4>1. on.cam \in BOOLEAN
        BY DEF Parts, PageOK, Switches
      <4>2. on.cam /\ (~flipped \/ ~(Len(v) > 1))
        BY <2>1, <2>7, <2>12, Zenon
      <4>3. Len(v) \in Nat /\ Len(v) # 0
        <5>1. v # <<>> /\ Len(v) \in Nat
          BY <2>8
        <5> QED
          BY <2>9, <5>1, EmptySeq, Zenon
      <4>4. ~(Len(v) > 1) => Len(v) = 1
        <5>1. PICK n \in Nat : n = Len(v) /\ n # 0
          BY <4>3
        <5>2. ~(n > 1) => n = 1
          BY <5>1
        <5> QED
          BY <5>1, <5>2, Zenon
      <4>5. on.cam = TRUE
        BY <4>1, <4>2
      <4>6. ~flipped \/ Len(v) = 1
        BY <4>2, <4>4, Zenon
      <4> QED
        BY <4>5, <4>6, Zenon
    <3>2. CASE Len(v) = 1
      <4>1. v[1] = new /\ DOMAIN v = {1}
        <5>1. v \in [1..1 -> Tracks]
          BY <2>9, <3>2, LenProperties, Zenon
        <5> QED
          BY <2>8, <3>2, <5>1
      <4>2. new.on = TRUE
        BY <1>3 DEF Tracks
      <4> QED
        BY <3>1, <4>1, <4>2, Zenon
    <3>3. CASE ~flipped
      <4>1. \A j \in DOMAIN Video : Video[j].on = on.cam
        BY <2>4, <2>12, <3>3 DEF AsChosen
      <4>2. Video = stream[r.stream].video
        BY <2>1, <2>4, <2>12 DEF Video
      <4>3. new.on = TRUE
        BY <1>3 DEF Tracks
      <4> QED
        BY <2>8, <3>1, <4>1, <4>2, <4>3
    <3> QED
      BY <3>1, <3>2, <3>3
  <2>13. AsChosen'
    <3>1. stream'[streamRef'] = s /\ Mine({"list"})' = Mine({"list"})
      BY <1>5, <2>1, <2>5
    <3> QED
      BY <1>1, <2>3, <2>7, <2>11, <2>12, <3>1 DEF AsChosen
  <2>14. OneCamera'
    <3> SUFFICES ASSUME Open', ~camLost'
                 PROVE  Len(v) = 1 /\ Mine({"list", "replace"}) = {r} /\ Head(v).cam = cam
      BY <2>1, <2>5, <2>7 DEF OneCamera, Mine
    <3>1. Open /\ shown /\ ~camLost
      BY <1>1, <2>3, <2>4
    <3>2. Len(Video) = 1 /\ Mine({"list", "replace"}) = {r} /\ r.old = Head(Video).id
      BY <2>5, <3>1 DEF OneCamera
    <3>3. Head(Video) = Video[1] /\ Video = stream[r.stream].video
      BY <2>1, <2>4, <3>1, ShownStream DEF AsChosen, Video
    <3>4. Len(v) = 1 /\ v[1] = new
      BY <2>8, <3>2, <3>3
    <3> QED
      BY <1>3, <2>9, <3>2, <3>4
  <2> QED
    BY <2>2, <2>3, <2>6, <2>10, <2>13, <2>14
<1> QED
  BY <1>6, <1>7

-----------------------------------------------------------------------------
LEMMA InitMedia == Init => MediaInv
BY RoomMediaAssumption DEF Init, MediaInv, Owned, OneQuestion, AsChosen, Sent, Told, OneCamera, Open

LEMMA NextMedia == IInv /\ MediaInv /\ [Next]_vars => MediaInv'
<1> SUFFICES ASSUME IInv, MediaInv, [Next]_vars PROVE MediaInv'
  OBVIOUS
<1>1. Parts /\ Away
  BY TypeParts DEF IInv, Parts
<1>2. CASE Next
  BY <1>1, <1>2, MediaGrant, MediaListed, MediaDeny, MediaReplaced, MediaFailed, MediaUser, MediaPeer
     DEF Next, Answer
<1>3. CASE UNCHANGED vars
  <2>1. UNCHANGED <<page, visit, requests, stream, pc>> /\ UNCHANGED mediaVars /\ UNCHANGED wireVars
        /\ UNCHANGED histVars
    BY <1>3 DEF vars
  <2> QED
    BY <2>1 DEF mediaVars, wireVars, histVars, MediaInv, Owned, OneQuestion, AsChosen, Sent, Told, OneCamera,
                Open, Mine, Video
<1> QED
  BY <1>2, <1>3

\* On a page whose questions do not overlap there is one at a time, a stream is
\* that page's, its tracks follow the buttons, and the connection sends them.
THEOREM MediaHolds == Spec => [](IInv /\ MediaInv)
<1>1. Init => IInv /\ MediaInv
  BY InitInv, InitMedia
<1>2. IInv /\ MediaInv /\ [Next]_vars => (IInv /\ MediaInv)'
  BY NextInv, NextMedia
<1> QED
  BY <1>1, <1>2, PTL DEF Spec

\* What the connection of a call sends, when no camera list is awaited.
LEMMA SettledCall ==
    ASSUME IInv, MediaInv, page = "call", Settled
    PROVE  /\ SentMic => on.mic /\ shown
           /\ pc.mic # 0 => shown /\ (SentMic <=> on.mic)
           /\ ~shown => ~SentVideo /\ pc.video = 0
           /\ shown => /\ pc.video = Head(Video).id /\ Video # <<>>
                       /\ flipped \/ \A i \in DOMAIN Video : Video[i].on = on.cam
<1> USE DEF MediaInv
<1>1. Open /\ Mine({"list"}) = {}
  BY DEF Settled, Open, Pending, Mine
<1>2. Parts
  BY TypeParts DEF IInv, Parts
<1>3. on.mic \in BOOLEAN
  BY <1>2 DEF Parts, PageOK, Switches
<1>4. CASE shown
  <2>1. /\ pc.mic = streamRef /\ streamRef # 0 /\ pc.video = Head(Video).id /\ Video # <<>>
        /\ stream[streamRef].mic = (IF on.mic THEN "on" ELSE "muted")
        /\ flipped \/ \A i \in DOMAIN Video : Video[i].on = on.cam
    BY <1>1, <1>4 DEF Sent, AsChosen, OneQuestion
  <2> QED
    BY <1>3, <1>4, <2>1 DEF SentMic
<1>5. CASE ~shown
  <2>1. pc.mic = 0 /\ pc.video = 0 /\ streamRef = 0
    BY <1>1, <1>5 DEF Sent, OneQuestion
  <2> QED
    BY <1>5, <2>1 DEF SentMic, SentVideo
<1> QED
  BY <1>4, <1>5

\* Who has muted the microphone or turned the camera off is not heard or seen:
\* useMedia.ts applies the choice to every track it gets, after which the
\* buttons and the tracks change together.
THEOREM MutedIsMuted == Spec => []MuteHonest
<1>1. IInv /\ MediaInv => MuteHonest
  <2> SUFFICES ASSUME IInv, MediaInv, page = "call", Settled
               PROVE  (SentMic => on.mic) /\ (SentVideo => on.cam \/ flipped)
    BY DEF MuteHonest
  <2>1. SentVideo => on.cam \/ flipped
    BY SettledCall DEF SentVideo, Video
  <2> QED
    BY <2>1, SettledCall
<1> QED
  BY <1>1, MediaHolds, PTL

\* What the peer's page says of the microphone and the camera is what it gets,
\* once it has been told since it came (RoomPage.tsx, media_state).
THEOREM PeerKnows == Spec => []PeerTold
<1>1. IInv /\ MediaInv => PeerTold
  <2> SUFFICES ASSUME IInv, MediaInv, synced, toPeer = <<>>, page = "call", Settled
               PROVE  /\ pc.mic # 0 => (Badge("mic") <=> ~SentMic)
                      /\ pc.video # 0 /\ ~flipped => (Badge("cam") <=> ~SentVideo)
    BY DEF PeerTold
  <2>1. peerSees = on
    BY DEF MediaInv, Told
  <2>2. pc.mic # 0 => (Badge("mic") <=> ~SentMic)
    BY <2>1, SettledCall, Zenon DEF Badge
  <2>3. ASSUME pc.video # 0, ~flipped PROVE SentVideo <=> on.cam
    <3>1. shown /\ pc.video = Head(Video).id /\ Video # <<>> /\ \A i \in DOMAIN Video : Video[i].on = on.cam
      BY <2>3, SettledCall
    <3>2. Parts
      BY TypeParts DEF IInv, Parts
    <3>3. streamRef # 0 /\ 1 \in DOMAIN Video /\ Head(Video) = Video[1]
      BY <3>1, <3>2, ShownStream DEF Parts, StreamsOK
    <3> QED
      BY <3>1, <3>3, Zenon DEF SentVideo, Video
  <2>4. pc.video # 0 /\ ~flipped => (Badge("cam") <=> ~SentVideo)
    BY <2>1, <2>3, Zenon DEF Badge
  <2> QED
    BY <2>2, <2>4
<1> QED
  BY <1>1, MediaHolds, PTL

\* The peer gets what the page shows to its own user, and when no question is
\* open that is the one camera that is marked (useWebRTC.ts, replaceTrack).
THEOREM PreviewIsSent == Spec => []SelfIsSent
<1>1. IInv /\ MediaInv => SelfIsSent
  <2> SUFFICES ASSUME IInv, MediaInv, page = "call", shown, ~overlap
               PROVE  /\ pc.mic = streamRef /\ pc.video = Head(Video).id
                      /\ ~camLost /\ ~Pending(visit, {"ask", "list", "replace"}) =>
                              Len(Video) = 1 /\ Head(Video).cam = activeCam
    BY DEF SelfIsSent, SelfVideo, Video
  <2>1. Open
    BY DEF Open
  <2>2. ~Pending(visit, {"ask", "list", "replace"}) => Mine({"list", "replace"}) = {}
    BY DEF Pending, Mine
  <2> QED
    BY <2>1, <2>2 DEF MediaInv, Sent, OneCamera
<1> QED
  BY <1>1, MediaHolds, PTL
=============================================================================
