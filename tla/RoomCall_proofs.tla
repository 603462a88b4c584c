----------------------------- MODULE RoomCall_proofs -----------------------------
(***************************************************************************)
(* For any number of reloads, losses of the connection, leaves and ICE     *)
(* restarts: who talks in a room has the other one there, or is about to   *)
(* hear that he left, and who waits has joined; and when all is done, the  *)
(* two ends of the call have each other's descriptions and candidates.     *)
(*                                                                         *)
(* The first invariant (IInv) follows a page from the form to its end:     *)
(* nothing is under way to or from a page that has not joined (Opening),   *)
(* its one join is the first thing on a connection (OneJoin), and the      *)
(* announcement of a peer is followed by that of his loss if he is there   *)
(* no more (Announced).  It holds wherever the handlers of the server are  *)
(* when they interleave; the misled are those for whom the announcement of *)
(* a loss does not come.                                                   *)
(*                                                                         *)
(* The second (DInv) says of two pages that are both in the room in which  *)
(* phase of an exchange they are (Phased): one is about to hear that he    *)
(* offers, or makes his offer, or an offer and its answer are somewhere on *)
(* their way (Exchange), with the candidates behind them.  It holds until  *)
(* handlers interleave.                                                    *)
(***************************************************************************)
EXTENDS RoomCall, SequenceTheorems, TLAPS

\* The messages and operations, of which a candidate always has a description.
ToServer == {m \in [type : {"join", "offer", "answer", "ice"}, d : Descs] :
                m.type = "ice" => m.d \in Desc}
ToClient == {m \in [type : {"offerer", "answerer", "left", "offer", "answer", "ice"}, d : Descs] :
                m.type = "ice" => m.d \in Desc}
Steps == {op \in Ops : op.do = "addIce" => op.d \in Desc}

\* TypeOK in parts: the hub, the wire, the pages and the connections of WebRTC.
\* Handlers work for a connection that is listed or is gone; as long as they keep
\* together the hub is as simple as it looks.
HubOK ==
    /\ slot \in Places /\ twin \in Places
    /\ listed \in [Browsers -> BOOLEAN]
    /\ clientRooms \subseteq Browsers /\ forgotten \subseteq Browsers
    /\ conn \in [Browsers -> Nat]
    /\ stale \subseteq Connections /\ tasks \subseteq Tasks
    /\ link \in [Browsers -> {"off", "down", "up"}]
    /\ astray \in BOOLEAN /\ misled \subseteq Browsers
    /\ \A b \in Browsers : listed[b] => link[b] = "up"
    /\ \A t \in tasks : t.n <= conn[t.by] /\ (t.n = conn[t.by] => listed[t.by])
    /\ \A c \in stale : c.n < conn[c.by]
    /\ ~astray => /\ twin = [b \in Browsers |-> "out"]
                  /\ forgotten = {} /\ stale = {} /\ tasks = {} /\ misled = {}
                  /\ \A b \in Browsers : listed[b] <=> slot[b] = "in"

WireOK ==
    /\ toServer \in [Browsers -> Seq(ToServer)]
    /\ toClient \in [Browsers -> Seq(ToClient)]
    /\ \A b \in Browsers : link[b] # "up" => toServer[b] = <<>> /\ toClient[b] = <<>>

Bounds == [lobby : BOOLEAN, reload : Nat, drop : Nat, leave : Nat, restart : Nat,
           made : Nat, race : BOOLEAN]

PageOK ==
    /\ phase \in [Browsers -> {"lobby", "waiting", "connecting", "connected", "ended"}]
    /\ joinPending \in [Browsers -> BOOLEAN] /\ session \in [Browsers -> BOOLEAN]
    /\ crossed \in BOOLEAN /\ dropped \subseteq Browsers
    /\ budget \in Bounds

RtcOK ==
    /\ pc \in [Browsers -> PCs \cup {None}]
    /\ ops \in [Browsers -> Seq(Steps)]
    /\ queue \in [Browsers -> Seq(Desc)]
    /\ made \in [Browsers -> Nat]
    /\ \A b \in Browsers : pc[b] = None => ops[b] = <<>>

Types == HubOK /\ WireOK /\ PageOK /\ RtcOK

\* Nobody has a place of that name.
Placeless(b) == slot[b] = "out" /\ twin[b] = "out"

\* A page that has not joined is not reached by anything; a page is waiting for
\* its socket until it joins.
Opening(b) ==
    /\ phase[b] = "lobby" =>
        /\ ~listed[b] /\ toServer[b] = <<>> /\ toClient[b] = <<>> /\ pc[b] = None
        /\ joinPending[b] \/ link[b] = "off" \/ Placeless(b)
    /\ joinPending[b] => ~budget.lobby /\ phase[b] = "lobby" /\ link[b] = "down"
    /\ link[b] = "down" => joinPending[b] \/ b \in dropped

\* The join comes first on its connection and once; before any call, too, unless
\* the hub takes the page for one that was in the room before.
OneJoin(b) ==
    \A i \in 1..Len(toServer[b]) :
        toServer[b][i].type = "join" => i = 1 /\ ~listed[b] /\ (astray \/ ~InCall(b))

JoinedAt(b) ==
    (InCall(b) \/ phase[b] = "waiting") /\ b \notin dropped /\ link[b] # "off" =>
        listed[b] \/ Has(toServer[b], "join")

\* The peer is there, or his loss is about to be told.
There(o) == slot[o] = "in" \/ LossComes(o)

\* The connection has joined, or its join is on the way.
Hearing(b) == listed[b] \/ Has(toServer[b], "join")

\* Who is announced is there, or his loss is announced later.
Announced(b) ==
    \A i \in 1..Len(toClient[b]) :
        toClient[b][i].type \in {"offerer", "answerer"} =>
            /\ astray \/ listed[b]
            /\ \/ b \in misled \/ There(Other(b))
               \/ \E j \in 1..Len(toClient[b]) : i < j /\ toClient[b][j].type = "left"

NotAloneAt(b) ==
    InCall(b) /\ Hearing(b) => b \in misled \/ There(Other(b)) \/ Has(toClient[b], "left")

Asking(b) == Opening(b) /\ OneJoin(b) /\ JoinedAt(b)
Heard(b) == Announced(b) /\ NotAloneAt(b)

IInv == Types /\ \A b \in Browsers : Asking(b) /\ Heard(b)

-----------------------------------------------------------------------------
(* Helpers                                                                 *)

LEMMA Others ==
    ASSUME NEW b \in Browsers
    PROVE  /\ Other(b) \in Browsers /\ Other(b) # b /\ Other(Other(b)) = b
           /\ \A c \in Browsers : c = b \/ c = Other(b)
<1>1. /\ Other(b) \in Browsers /\ Other(b) # b
      /\ \A c \in Browsers : c = b \/ c = Other(b)
  BY DEF Other, Browsers
<1>2. Other(Other(b)) \in Browsers /\ Other(Other(b)) # Other(b)
  BY <1>1 DEF Other, Browsers
<1> QED
  BY <1>1, <1>2

LEMMA TypesHold == Types => TypeOK
<1> SUFFICES ASSUME Types PROVE TypeOK
  OBVIOUS
<1>1. ASSUME NEW b \in Browsers
      PROVE  /\ ops[b] \in Seq(Ops)
             /\ toServer[b] \in Seq([type : {"join", "offer", "answer", "ice"}, d : Descs])
             /\ toClient[b] \in Seq([type : {"offerer", "answerer", "left", "offer",
                                             "answer", "ice"}, d : Descs])
  <2>1. ops[b] \in Seq(Steps) /\ Steps \subseteq Ops
    BY DEF Types, RtcOK, Steps
  <2>2. /\ toServer[b] \in Seq(ToServer)
        /\ ToServer \subseteq [type : {"join", "offer", "answer", "ice"}, d : Descs]
    BY DEF Types, WireOK, ToServer
  <2>3. /\ toClient[b] \in Seq(ToClient)
        /\ ToClient \subseteq [type : {"offerer", "answerer", "left", "offer", "answer", "ice"}, d : Descs]
    BY DEF Types, WireOK, ToClient
  <2>4. ops[b] \in Seq(Ops)
    BY <2>1, SeqMonotonic
  <2>5. toServer[b] \in Seq([type : {"join", "offer", "answer", "ice"}, d : Descs])
    BY <2>2, SeqMonotonic
  <2>6. toClient[b] \in Seq([type : {"offerer", "answerer", "left", "offer", "answer", "ice"}, d : Descs])
    BY <2>3, SeqMonotonic
  <2> QED
    BY <2>4, <2>5, <2>6
<1>2. /\ ops = [b \in Browsers |-> ops[b]] /\ toServer = [b \in Browsers |-> toServer[b]]
      /\ toClient = [b \in Browsers |-> toClient[b]]
  BY DEF Types, RtcOK, WireOK
<1>3. /\ ops \in [Browsers -> Seq(Ops)]
      /\ toServer \in [Browsers -> Seq([type : {"join", "offer", "answer", "ice"}, d : Descs])]
      /\ toClient \in [Browsers -> Seq([type : {"offerer", "answerer", "left", "offer",
                                                "answer", "ice"}, d : Descs])]
  BY <1>1, <1>2
<1>4. \A b \in Browsers : /\ pc[b] = None => ops[b] = <<>>
                          /\ listed[b] => link[b] = "up" /\ (slot[b] = "in" \/ astray)
  BY DEF Types, RtcOK, HubOK
<1> QED
  BY <1>3, <1>4 DEF TypeOK, Types, HubOK, PageOK, RtcOK

\* The bounds are spent, and the kind of the room stays.
LEMMA Spending ==
    ASSUME PageOK, NEW what \in {"reload", "drop", "leave", "restart"}, Spend(what)
    PROVE  /\ budget' \in Bounds
           /\ budget'.lobby = budget.lobby
BY DEF PageOK, Spend, Bounds

LEMMA InitTypes == Init => Types
<1> SUFFICES ASSUME Init PROVE Types
  OBVIOUS
<1>0. \A S : <<>> \in Seq(S)
  BY EmptySeq
<1>1. budget \in Bounds
  BY RoomCallAssumption DEF Init, Bounds
<1>2. PageOK
  <2>1. budget.lobby \in BOOLEAN
    BY <1>1 DEF Bounds
  <2> QED
    BY <1>1, <2>1, Zenon DEF Init, PageOK
<1>3. HubOK
  <2>1. /\ slot \in Places /\ twin \in Places /\ listed \in [Browsers -> BOOLEAN]
        /\ twin = [b \in Browsers |-> "out"]
        /\ \A b \in Browsers : ~listed[b] /\ slot[b] # "in"
    BY DEF Init, Places
  <2>2. conn \in [Browsers -> Nat] /\ link \in [Browsers -> {"off", "down", "up"}]
    BY DEF Init
  <2>3. /\ clientRooms = {} /\ forgotten = {} /\ stale = {} /\ tasks = {}
        /\ astray = FALSE /\ misled = {}
    BY DEF Init
  <2> QED
    BY <2>1, <2>2, <2>3 DEF HubOK
<1>4. WireOK
  BY <1>0 DEF Init, WireOK
<1>5. RtcOK
  BY <1>0 DEF Init, RtcOK
<1> QED
  BY <1>2, <1>3, <1>4, <1>5 DEF Types

LEMMA InitInv == Init => IInv
<1> SUFFICES ASSUME Init PROVE IInv
  OBVIOUS
<1>1. Types
  BY InitTypes
<1>2. ASSUME NEW b \in Browsers PROVE Asking(b) /\ Heard(b)
  BY DEF Init, Asking, Heard, Opening, OneJoin, JoinedAt, Announced, NotAloneAt, InCall, Placeless
<1> QED
  BY <1>1, <1>2 DEF IInv

-----------------------------------------------------------------------------
(* Types: what the operators of a connection return                        *)

LEMMA NewTypes ==
    /\ NewPC \in PCs /\ NewPC # None
    /\ \A d \in Descs, do \in {"createOffer", "setRemoteOffer", "setRemoteAnswer"},
          task \in {"start", "restart", "existing", "fresh", "answer"} : Op(do, task, d) \in Steps
    /\ \A d \in Desc : Op("addIce", "ice", d) \in Steps
<1>1. NewPC \in PCs
  BY DEF NewPC, PCs, Descs
<1>2. \A d \in Descs : d \in Desc \cup {None}
  BY DEF Descs
<1>3. <<>> \in Seq(Desc)
  BY EmptySeq
<1> QED
  BY <1>1, <1>2, <1>3, NoneAssumption DEF Op, Steps, Ops, Descs

LEMMA ThenType ==
    ASSUME NEW op \in Steps, NEW d \in Descs,
           NEW do \in {"setLocalOffer", "createAnswer", "setLocalAnswer"}
    PROVE  Then(op, do, d) \in Steps
<1>1. <<>> \in Seq(Desc)
  BY EmptySeq
<1> QED
  BY <1>1 DEF Then, Steps, Ops

LEMMA ThenAdd ==
    ASSUME NEW op \in Steps, NEW d \in Desc, NEW rest \in Seq(Desc)
    PROVE  [Then(op, "addIce", d) EXCEPT !.rest = rest] \in Steps
<1>1. d \in Descs
  BY DEF Descs
<1> QED
  BY <1>1 DEF Then, Steps, Ops

LEMMA AddRestType ==
    ASSUME NEW op \in Steps, NEW rest \in Seq(Desc)
    PROVE  AddRest(op, rest) \in Seq(Steps)
<1>1. CASE rest # <<>>
  <2>1. Head(rest) \in Desc /\ Tail(rest) \in Seq(Desc)
    BY <1>1, HeadTailProperties
  <2>2. PICK x \in Steps : x = [Then(op, "addIce", Head(rest)) EXCEPT !.rest = Tail(rest)]
    BY <2>1, ThenAdd
  <2>3. AddRest(op, rest) = <<x>>
    BY <1>1, <2>2 DEF AddRest
  <2> QED
    BY <2>3
<1>2. CASE rest = <<>> /\ op.task = "answer"
  <2>1. AddRest(op, rest) = <<>>
    BY <1>2 DEF AddRest
  <2> QED
    BY <2>1, EmptySeq
<1>3. CASE rest = <<>> /\ op.task # "answer"
  <2>1. PICK x \in Steps : x = Then(op, "createAnswer", None)
    BY ThenType DEF Descs
  <2>2. AddRest(op, rest) = <<x>>
    BY <1>3, <2>1 DEF AddRest
  <2> QED
    BY <2>2
<1> QED
  BY <1>1, <1>2, <1>3

LEMMA AfterType ==
    ASSUME NEW p \in PCs, NEW op \in Steps, NEW d \in Descs
    PROVE  After(p, op, d) \in PCs /\ After(p, op, d) # None
<1>1. op.d \in Descs /\ None \in Descs /\ (op.do = "addIce" => op.d \in Desc)
  BY DEF Steps, Ops, Descs
<1>2. After(p, op, d) \in PCs
  <2>1. CASE op.do = "createOffer"
    BY <2>1 DEF After, PCs
  <2>2. CASE op.do = "createAnswer"
    BY <2>2 DEF After, PCs
  <2>3. CASE op.do = "setLocalOffer"
    BY <1>1, <2>3 DEF After, PCs
  <2>4. CASE op.do = "setRemoteOffer"
    BY <1>1, <2>4 DEF After, PCs
  <2>5. CASE op.do = "setLocalAnswer"
    BY <1>1, <2>5 DEF After, PCs
  <2>6. CASE op.do = "setRemoteAnswer"
    BY <1>1, <2>6 DEF After, PCs
  <2>7. CASE op.do = "addIce"
    BY <1>1, <2>7 DEF After, PCs
  <2> QED
    BY <2>1, <2>2, <2>3, <2>4, <2>5, <2>6, <2>7 DEF Steps, Ops
<1> QED
  BY <1>2, NoneAssumption

-----------------------------------------------------------------------------
(* Types: the connections                                                  *)

\* One browser's connection changes, and is well typed.
LEMMA RtcChanges ==
    ASSUME RtcOK, NEW b \in Browsers,
           pc' \in [Browsers -> PCs \cup {None}],
           \A c \in Browsers \ {b} : pc'[c] = pc[c] /\ ops'[c] = ops[c],
           ops' \in [Browsers -> Seq(Steps)], queue' \in [Browsers -> Seq(Desc)],
           made' \in [Browsers -> Nat],
           pc'[b] = None => ops'[b] = <<>>
    PROVE  RtcOK'
BY DEF RtcOK

LEMMA RtcDropped ==
    ASSUME RtcOK, NEW b \in Browsers, DropRTC(b)
    PROVE  RtcOK' /\ pc'[b] = None /\ \A c \in Browsers \ {b} : pc'[c] = pc[c]
<1>1. <<>> \in Seq(Steps) /\ <<>> \in Seq(Desc)
  BY EmptySeq
<1> QED
  BY <1>1 DEF RtcOK, DropRTC

LEMMA RtcCreated ==
    ASSUME RtcOK, NEW b \in Browsers, NEW op \in Steps, CreatePC(b, op), made' = made
    PROVE  RtcOK' /\ \A c \in Browsers \ {b} : pc'[c] = pc[c]
<1>1. <<op>> \in Seq(Steps) /\ <<>> \in Seq(Desc)
  BY EmptySeq
<1>2. NewPC \in PCs /\ NewPC # None
  BY NewTypes
<1> QED
  BY <1>1, <1>2 DEF RtcOK, CreatePC

LEMMA RtcAsked ==
    ASSUME RtcOK, NEW b \in Browsers, NEW op \in Steps, Ask(b, op), pc[b] # None,
           UNCHANGED <<pc, queue, made>>
    PROVE  RtcOK'
<1>1. Append(ops[b], op) \in Seq(Steps)
  BY AppendProperties DEF RtcOK
<1>2. ops' = [ops EXCEPT ![b] = Append(ops[b], op)]
  BY DEF Ask
<1> QED
  BY <1>1, <1>2 DEF RtcOK

LEMMA FreshType ==
    ASSUME RtcOK, NEW b \in Browsers
    PROVE  Fresh(b) \in Desc /\ Fresh(b) \in Descs /\ Fresh(b).n \in Nat
BY DEF RtcOK, Fresh, Desc, Descs

LEMMA RtcHead ==
    ASSUME RtcOK, NEW b \in Browsers, ops[b] # <<>>
    PROVE  Head(ops[b]) \in Steps /\ Tail(ops[b]) \in Seq(Steps) /\ pc[b] \in PCs /\ pc[b] # None
<1>1. ops[b] \in Seq(Steps) /\ pc[b] \in PCs \cup {None} /\ pc[b] # None
  BY DEF RtcOK
<1> QED
  BY <1>1, HeadTailProperties

\* An operation ends, and the function that awaited it goes on.
LEMMA RtcAdvanced ==
    ASSUME RtcOK, NEW b \in Browsers, ops[b] # <<>>, NEW d \in Descs, d = None \/ d.n \in Nat,
           NEW next \in Seq(Steps), Advance(b, d, next), queue' \in [Browsers -> Seq(Desc)]
    PROVE  RtcOK' /\ \A c \in Browsers \ {b} : pc'[c] = pc[c]
<1>1. Head(ops[b]) \in Steps /\ Tail(ops[b]) \in Seq(Steps) /\ pc[b] \in PCs
  BY RtcHead
<1>2. Tail(ops[b]) \o next \in Seq(Steps)
  BY <1>1, ConcatProperties
<1>3. After(pc[b], Head(ops[b]), d) \in PCs /\ After(pc[b], Head(ops[b]), d) # None
  BY <1>1, AfterType
<1>4. /\ pc' = [pc EXCEPT ![b] = After(pc[b], Head(ops[b]), d)]
      /\ ops' = [ops EXCEPT ![b] = Tail(ops[b]) \o next]
      /\ made' = [made EXCEPT ![b] = IF d = None THEN made[b] ELSE d.n]
  BY DEF Advance
<1>5. made' \in [Browsers -> Nat]
  BY <1>4 DEF RtcOK
<1> QED
  BY <1>2, <1>3, <1>4, <1>5 DEF RtcOK

\* What a step of an async function does to the rest: it may send something.
Sends(b) ==
    \/ toServer' = toServer
    \/ \E m \in ToServer : m.type # "join" /\ Send(b, m)

LEMMA NegotiateRtc ==
    ASSUME RtcOK, NEW b \in Browsers, Negotiate(b)
    PROVE  /\ RtcOK' /\ pc[b] # None /\ Sends(b) /\ \A c \in Browsers \ {b} : pc'[c] = pc[c]
           /\ UNCHANGED <<serverVars, link, toClient, pageVars, histVars>>
<1>0. None \in Descs /\ queue \in [Browsers -> Seq(Desc)] /\ <<>> \in Seq(Steps) /\ <<>> \in Seq(Desc)
  BY EmptySeq DEF Descs, RtcOK
<1>1. PICK op : op = Head(ops[b])
  OBVIOUS
<1>2. ops[b] # <<>> => op \in Steps /\ op.d \in Descs /\ op.rest \in Seq(Desc) /\ pc[b] # None
  BY <1>1, RtcHead DEF Steps, Ops
<1>3. PICK f \in Desc : f = Fresh(b) /\ f \in Descs /\ f.n \in Nat
  BY FreshType
<1>4. CASE CreateOffer(b)
  <2>1. ops[b] # <<>> /\ queue' = queue /\ UNCHANGED <<serverVars, link, toClient, pageVars, histVars>>
    BY <1>4 DEF CreateOffer, Finish
  <2>2. PICK x \in Steps : x = Then(op, "setLocalOffer", f)
    BY <1>2, <1>3, <2>1, ThenType
  <2>3. <<x>> \in Seq(Steps) /\ Advance(b, f, <<x>>)
    BY <1>1, <1>3, <1>4, <2>2 DEF CreateOffer
  <2>4. RtcOK' /\ \A c \in Browsers \ {b} : pc'[c] = pc[c]
    BY <1>0, <1>3, <2>1, <2>3, RtcAdvanced
  <2>5. Sends(b)
    <3>1. Msg("offer", f) \in ToServer /\ Msg("offer", f).type # "join"
      BY <1>3 DEF Msg, ToServer
    <3> QED
      BY <1>3, <1>4, <3>1 DEF CreateOffer, Sends
  <2> QED
    BY <1>2, <2>1, <2>4, <2>5
<1>5. CASE SetLocalOffer(b)
  <2>1. /\ ops[b] # <<>> /\ queue' = queue /\ Advance(b, None, <<>>)
        /\ UNCHANGED <<serverVars, link, toClient, pageVars, histVars>>
    BY <1>5 DEF SetLocalOffer, Finish
  <2>2. RtcOK' /\ \A c \in Browsers \ {b} : pc'[c] = pc[c]
    BY <1>0, <2>1, RtcAdvanced
  <2>3. Sends(b)
    <3>1. Msg("offer", op.d) \in ToServer /\ Msg("offer", op.d).type # "join"
      BY <1>2, <2>1 DEF Msg, ToServer
    <3> QED
      BY <1>1, <1>5, <3>1 DEF SetLocalOffer, Sends
  <2> QED
    BY <1>2, <2>1, <2>2, <2>3
<1>6. CASE SetRemote(b)
  <2>1. /\ ops[b] # <<>> /\ Advance(b, None, AddRest(op, queue[b])) /\ toServer' = toServer
        /\ queue' = [queue EXCEPT ![b] = IF queue[b] = <<>> THEN <<>> ELSE queue[b]]
        /\ UNCHANGED <<serverVars, link, toClient, pageVars, histVars>>
    BY <1>1, <1>6 DEF SetRemote, Finish, Drained
  <2>2. queue[b] \in Seq(Desc) /\ queue' \in [Browsers -> Seq(Desc)]
    BY <1>0, <2>1
  <2>3. AddRest(op, queue[b]) \in Seq(Steps)
    BY <1>2, <2>1, <2>2, AddRestType
  <2>4. RtcOK' /\ \A c \in Browsers \ {b} : pc'[c] = pc[c]
    BY <1>0, <2>1, <2>2, <2>3, RtcAdvanced
  <2> QED
    BY <1>2, <2>1, <2>4 DEF Sends
<1>7. CASE AddIceCandidate(b)
  <2>1. /\ ops[b] # <<>> /\ toServer' = toServer
        /\ UNCHANGED <<serverVars, link, toClient, pageVars, histVars>>
    BY <1>7 DEF AddIceCandidate, Finish
  <2>2. AddRest(op, op.rest) \in Seq(Steps)
    BY <1>2, <2>1, AddRestType
  <2>3. PICK next \in Seq(Steps) : Advance(b, None, next) /\ queue' \in [Browsers -> Seq(Desc)]
    <3>1. CASE op.task = "ice"
      BY <1>0, <1>1, <1>7, <3>1 DEF AddIceCandidate
    <3>2. CASE op.task # "ice"
      <4>1. /\ Advance(b, None, AddRest(op, op.rest))
            /\ queue' = [queue EXCEPT ![b] = IF op.rest = <<>> THEN <<>> ELSE queue[b]]
        BY <1>1, <1>7, <3>2 DEF AddIceCandidate, Drained
      <4>2. queue' \in [Browsers -> Seq(Desc)]
        BY <1>0, <4>1
      <4> QED
        BY <2>2, <4>1, <4>2
    <3> QED
      BY <3>1, <3>2
  <2>4. RtcOK' /\ \A c \in Browsers \ {b} : pc'[c] = pc[c]
    BY <1>0, <2>1, <2>3, RtcAdvanced
  <2> QED
    BY <1>2, <2>1, <2>4 DEF Sends
<1>8. CASE CreateAnswer(b)
  <2>1. /\ ops[b] # <<>> /\ queue' = queue /\ toServer' = toServer
        /\ UNCHANGED <<serverVars, link, toClient, pageVars, histVars>>
    BY <1>8 DEF CreateAnswer, Finish
  <2>2. PICK x \in Steps : x = Then(op, "setLocalAnswer", f)
    BY <1>2, <1>3, <2>1, ThenType
  <2>3. <<x>> \in Seq(Steps) /\ Advance(b, f, <<x>>)
    BY <1>1, <1>3, <1>8, <2>2 DEF CreateAnswer
  <2>4. RtcOK' /\ \A c \in Browsers \ {b} : pc'[c] = pc[c]
    BY <1>0, <1>3, <2>1, <2>3, RtcAdvanced
  <2> QED
    BY <1>2, <2>1, <2>4 DEF Sends
<1>9. CASE SetLocalAnswer(b)
  <2>1. /\ ops[b] # <<>> /\ queue' = queue /\ Advance(b, None, <<>>) /\ Send(b, Msg("answer", op.d))
        /\ UNCHANGED <<serverVars, link, toClient, pageVars, histVars>>
    BY <1>1, <1>9 DEF SetLocalAnswer, Finish
  <2>2. RtcOK' /\ \A c \in Browsers \ {b} : pc'[c] = pc[c]
    BY <1>0, <2>1, RtcAdvanced
  <2>3. Msg("answer", op.d) \in ToServer /\ Msg("answer", op.d).type # "join"
    BY <1>2, <2>1 DEF Msg, ToServer
  <2> QED
    BY <1>2, <2>1, <2>2, <2>3 DEF Sends
<1>10. CASE Fail(b)
  <2>1. /\ ops[b] # <<>> /\ made' = made
        /\ UNCHANGED <<serverVars, wireVars, pageVars, histVars>>
    BY <1>10 DEF Fail
  <2>2. CASE op.task = "existing"
    <3>1. PICK x \in Steps : x = Op("setRemoteOffer", "fresh", op.arg)
      BY <1>2, <2>1, NewTypes DEF Steps, Ops
    <3>2. CreatePC(b, x)
      BY <1>1, <1>10, <2>2, <3>1 DEF Fail
    <3>3. RtcOK' /\ \A c \in Browsers \ {b} : pc'[c] = pc[c]
      BY <2>1, <3>2, RtcCreated
    <3> QED
      BY <1>2, <2>1, <3>3 DEF Sends, wireVars
  <2>3. CASE op.task # "existing"
    <3>1. ops' = [ops EXCEPT ![b] = Tail(ops[b])] /\ pc' = pc /\ queue' = queue
      BY <1>1, <1>10, <2>3 DEF Fail
    <3>2. Tail(ops[b]) \in Seq(Steps)
      BY <2>1, RtcHead
    <3>3. RtcOK'
      BY <1>2, <2>1, <3>1, <3>2 DEF RtcOK
    <3> QED
      BY <1>2, <2>1, <3>1, <3>3 DEF Sends, wireVars
  <2> QED
    BY <2>2, <2>3
<1>11. CASE Gather(b)
  <2>1. /\ pc[b] # None /\ pc[b].gather # None /\ pc' = [pc EXCEPT ![b].gather = None]
        /\ Send(b, Msg("ice", pc[b].gather))
        /\ UNCHANGED <<serverVars, link, toClient, pageVars, ops, queue, made, histVars>>
    BY <1>11 DEF Gather
  <2>2. PICK p \in PCs : p = pc[b]
    BY <2>1 DEF RtcOK
  <2>3. p.gather \in Desc /\ [p EXCEPT !.gather = None] \in PCs
    BY <2>1, <2>2 DEF PCs, Descs
  <2>4. pc' = [pc EXCEPT ![b] = [p EXCEPT !.gather = None]]
    BY <2>1, <2>2
  <2>5. RtcOK' /\ \A c \in Browsers \ {b} : pc'[c] = pc[c]
    BY <2>1, <2>3, <2>4, NoneAssumption DEF RtcOK
  <2>6. Msg("ice", p.gather) \in ToServer /\ Msg("ice", p.gather).type # "join"
    BY <2>3 DEF Msg, ToServer, Descs
  <2> QED
    BY <2>1, <2>2, <2>5, <2>6 DEF Sends
<1>12. CASE Connect(b)
  <2>1. /\ pc[b] # None /\ pc' = [pc EXCEPT ![b].up = TRUE]
        /\ UNCHANGED <<serverVars, wireVars, pageVars, ops, queue, made, histVars>>
    BY <1>12 DEF Connect
  <2>2. PICK p \in PCs : p = pc[b]
    BY <2>1 DEF RtcOK
  <2>3. [p EXCEPT !.up = TRUE] \in PCs
    BY <2>2 DEF PCs
  <2>4. pc' = [pc EXCEPT ![b] = [p EXCEPT !.up = TRUE]]
    BY <2>1, <2>2
  <2>5. RtcOK' /\ \A c \in Browsers \ {b} : pc'[c] = pc[c]
    BY <2>1, <2>3, <2>4, NoneAssumption DEF RtcOK
  <2> QED
    BY <2>1, <2>5 DEF Sends, wireVars
<1> QED
  BY <1>4, <1>5, <1>6, <1>7, <1>8, <1>9, <1>10, <1>11, <1>12 DEF Negotiate

-----------------------------------------------------------------------------
(* What a page asks: steps that keep it                                    *)

\* Nothing a page not yet in the room looks at has changed, except that the
\* server may have forgotten its place.
LEMMA AskingKept ==
    ASSUME NEW c \in Browsers, Asking(c), astray => astray',
           phase'[c] = phase[c], listed'[c] = listed[c], link'[c] = link[c],
           joinPending'[c] = joinPending[c], toServer'[c] = toServer[c],
           c \in dropped' <=> c \in dropped, budget'.lobby = budget.lobby,
           phase[c] = "lobby" => /\ toClient'[c] = toClient[c] /\ pc'[c] = pc[c]
                                 /\ Placeless(c) => Placeless(c)'
    PROVE  Asking(c)'
<1>1. Opening(c)'
  BY DEF Asking, Opening
<1>2. OneJoin(c)'
  BY DEF Asking, OneJoin, InCall
<1>3. JoinedAt(c)'
  BY DEF Asking, JoinedAt, InCall, Has
<1> QED
  BY <1>1, <1>2, <1>3 DEF Asking

\* A page that is in the room, or on its way there, goes on.
LEMMA AskingOn ==
    ASSUME NEW c \in Browsers, Asking(c), PageOK, astray => astray',
           phase[c] \notin {"lobby", "ended"}, phase'[c] # "lobby",
           InCall(c)' => InCall(c) \/ listed[c] \/ astray',
           listed'[c] = listed[c], link'[c] = link[c],
           joinPending'[c] = joinPending[c], toServer'[c] = toServer[c],
           c \in dropped' <=> c \in dropped
    PROVE  Asking(c)'
<1>1. Opening(c)'
  BY DEF Asking, Opening
<1>2. OneJoin(c)'
  BY DEF Asking, OneJoin
<1>3. InCall(c) \/ phase[c] = "waiting"
  BY DEF PageOK, InCall
<1>4. JoinedAt(c)'
  BY <1>3 DEF Asking, JoinedAt, Has
<1> QED
  BY <1>1, <1>2, <1>4 DEF Asking

\* A page sends something that is not a join.
LEMMA AskingSends ==
    ASSUME NEW c \in Browsers, Asking(c), toServer[c] \in Seq(ToServer),
           NEW m \in ToServer, m.type # "join", phase[c] # "lobby", astray => astray',
           phase'[c] = phase[c], listed'[c] = listed[c], link'[c] = link[c],
           joinPending'[c] = joinPending[c], toServer'[c] = Append(toServer[c], m),
           c \in dropped' <=> c \in dropped, budget'.lobby = budget.lobby
    PROVE  Asking(c)'
<1>0. PICK s \in Seq(ToServer) : s = toServer[c]
  OBVIOUS
<1>1. /\ Append(s, m) \in Seq(ToServer) /\ Len(s) \in Nat /\ Len(Append(s, m)) = Len(s) + 1
      /\ \A i \in 1..Len(s) : Append(s, m)[i] = s[i]
      /\ Append(s, m)[Len(s) + 1] = m
  BY AppendProperties, LenProperties
<1>2. PICK t \in Seq(ToServer) : t = Append(s, m)
  BY <1>1
<1>3. toServer'[c] = t
  BY <1>0, <1>2
<1>4. Opening(c)'
  BY DEF Asking, Opening
<1>5. OneJoin(c)'
  <2> SUFFICES ASSUME NEW i \in 1..Len(t), t[i].type = "join"
               PROVE  i = 1 /\ ~listed'[c] /\ (astray' \/ ~InCall(c)')
    BY <1>3 DEF OneJoin
  <2>1. i # Len(s) + 1
    BY <1>1, <1>2
  <2>2. i \in 1..Len(s) /\ s[i].type = "join"
    BY <1>1, <1>2, <2>1
  <2> QED
    BY <1>0, <2>2 DEF Asking, OneJoin, InCall
<1>6. Has(s, "join") => Has(t, "join")
  <2> SUFFICES ASSUME NEW i \in 1..Len(s), s[i].type = "join" PROVE Has(t, "join")
    BY DEF Has
  <2>1. i \in 1..Len(t) /\ t[i].type = "join"
    BY <1>1, <1>2
  <2> QED
    BY <2>1 DEF Has
<1>7. JoinedAt(c)'
  BY <1>0, <1>3, <1>6 DEF Asking, JoinedAt, InCall, Has
<1> QED
  BY <1>4, <1>5, <1>7 DEF Asking

\* What a page sent first is served, and no join is left.
LEMMA AskingServed ==
    ASSUME NEW c \in Browsers, Asking(c), toServer[c] \in Seq(ToServer), toServer[c] # <<>>,
           toServer'[c] = Tail(toServer[c]),
           listed'[c] \/ (listed'[c] = listed[c] /\ Head(toServer[c]).type # "join"),
           phase'[c] = phase[c], link'[c] = link[c], joinPending'[c] = joinPending[c],
           c \in dropped' <=> c \in dropped
    PROVE  Asking(c)'
<1>0. PICK s \in Seq(ToServer) : s = toServer[c]
  OBVIOUS
<1>1. /\ Tail(s) \in Seq(ToServer) /\ Len(s) \in Nat /\ Len(Tail(s)) = Len(s) - 1
      /\ \A i \in 1..Len(Tail(s)) : Tail(s)[i] = s[i + 1]
      /\ Head(s) = s[1] /\ Len(s) >= 1
  BY <1>0, HeadTailProperties, LenProperties, EmptySeq
<1>2. PICK t \in Seq(ToServer) : t = Tail(s)
  BY <1>1
<1>3. toServer'[c] = t
  BY <1>0, <1>2
<1>4. \A i \in 1..Len(s) : s[i].type = "join" => i = 1
  BY <1>0 DEF Asking, OneJoin
<1>5. \A i \in 1..Len(t) : t[i].type # "join"
  <2> SUFFICES ASSUME NEW i \in 1..Len(t), t[i].type = "join" PROVE FALSE
    OBVIOUS
  <2>1. i + 1 \in 1..Len(s) /\ s[i + 1].type = "join"
    BY <1>1, <1>2
  <2> QED
    BY <1>4, <2>1
<1>6. phase[c] # "lobby"
  BY DEF Asking, Opening
<1>7. Opening(c)'
  BY <1>6 DEF Asking, Opening
<1>8. OneJoin(c)'
  BY <1>3, <1>5 DEF OneJoin
<1>9. Has(s, "join") => s[1].type = "join"
  BY <1>4 DEF Has
<1>10. JoinedAt(c)'
  BY <1>0, <1>1, <1>9 DEF Asking, JoinedAt, InCall
<1> QED
  BY <1>7, <1>8, <1>10 DEF Asking

-----------------------------------------------------------------------------
(* What a page hears: steps that keep it                                   *)

LEMMA HeardKept ==
    ASSUME NEW c \in Browsers, Heard(c), astray => astray', c \in misled => c \in misled',
           toClient'[c] = toClient[c], listed[c] => listed'[c] \/ astray',
           InCall(c)' /\ Hearing(c)' => InCall(c) /\ Hearing(c),
           There(Other(c)) => There(Other(c))' \/ c \in misled'
    PROVE  Heard(c)'
<1>1. Announced(c)'
  BY DEF Heard, Announced
<1>2. NotAloneAt(c)'
  BY DEF Heard, NotAloneAt, Has
<1> QED
  BY <1>1, <1>2 DEF Heard

\* As long as the handlers keep together, who has not joined is told of nobody.
LEMMA HeardDeaf ==
    ASSUME NEW c \in Browsers, Heard(c), OneJoin(c), ~astray, toClient'[c] = toClient[c],
           toServer'[c] = toServer[c], ~listed[c], ~listed'[c], InCall(c)' => InCall(c)
    PROVE  Heard(c)'
<1>1. Announced(c)'
  BY DEF Heard, Announced
<1>2. ~(InCall(c)' /\ Hearing(c)')
  BY DEF OneJoin, Hearing, Has
<1> QED
  BY <1>1, <1>2 DEF Heard, NotAloneAt

LEMMA HeardGone ==
    ASSUME NEW c \in Browsers, toClient'[c] = <<>>, ~Hearing(c)'
    PROVE  Heard(c)'
BY DEF Heard, Announced, NotAloneAt

\* The state of the hub that a page's talk depends on stays.
LEMMA ThereKept ==
    ASSUME NEW c \in Browsers, slot'[c] = slot[c], tasks' = tasks
    PROVE  There(c)' <=> There(c)
BY DEF There, LossComes

LEMMA HearingKept ==
    ASSUME NEW c \in Browsers, toServer'[c] = toServer[c], listed'[c] = listed[c]
    PROVE  Hearing(c)' <=> Hearing(c)
BY DEF Hearing, Has

\* One more message: nobody is announced but who is there.
LEMMA HeardMore ==
    ASSUME NEW c \in Browsers, Heard(c), toClient[c] \in Seq(ToClient), NEW m \in ToClient,
           astray => astray', c \in misled => c \in misled',
           toClient'[c] = Append(toClient[c], m), listed[c] => listed'[c] \/ astray',
           InCall(c)' /\ Hearing(c)' => InCall(c) /\ Hearing(c),
           There(Other(c)) => There(Other(c))' \/ c \in misled',
           m.type \in {"offerer", "answerer"} =>
               (astray' \/ listed'[c]) /\ (c \in misled' \/ There(Other(c))')
    PROVE  Heard(c)'
<1>0. PICK s \in Seq(ToClient) : s = toClient[c]
  OBVIOUS
<1>1. /\ Append(s, m) \in Seq(ToClient) /\ Len(s) \in Nat /\ Len(Append(s, m)) = Len(s) + 1
      /\ \A i \in 1..Len(s) : Append(s, m)[i] = s[i]
      /\ Append(s, m)[Len(s) + 1] = m
  BY AppendProperties, LenProperties
<1>2. PICK t \in Seq(ToClient) : t = Append(s, m)
  BY <1>1
<1>3. toClient'[c] = t /\ Len(t) = Len(s) + 1 /\ t[Len(s) + 1] = m
  BY <1>0, <1>1, <1>2
<1>4. \A i \in 1..Len(s) : i \in 1..Len(t) /\ t[i] = s[i]
  BY <1>1, <1>2
<1>5. Announced(c)'
  <2> SUFFICES ASSUME NEW i \in 1..Len(t), t[i].type \in {"offerer", "answerer"}
               PROVE  /\ astray' \/ listed'[c]
                      /\ \/ c \in misled' \/ There(Other(c))'
                         \/ \E j \in 1..Len(t) : i < j /\ t[j].type = "left"
    BY <1>3 DEF Announced
  <2>1. CASE i = Len(s) + 1
    BY <1>3, <2>1
  <2>2. CASE i # Len(s) + 1
    <3>1. i \in 1..Len(s) /\ s[i].type \in {"offerer", "answerer"}
      BY <1>1, <1>3, <1>4, <2>2
    <3>2. /\ astray \/ listed[c]
          /\ \/ c \in misled \/ There(Other(c))
             \/ \E j \in 1..Len(s) : i < j /\ s[j].type = "left"
      BY <1>0, <3>1 DEF Heard, Announced
    <3>3. (\E j \in 1..Len(s) : i < j /\ s[j].type = "left") =>
              \E j \in 1..Len(t) : i < j /\ t[j].type = "left"
      BY <1>4
    <3> QED
      BY <3>2, <3>3
  <2> QED
    BY <2>1, <2>2
<1>6. Has(s, "left") => Has(t, "left")
  BY <1>4 DEF Has
<1>7. NotAloneAt(c)'
  BY <1>0, <1>3, <1>6 DEF Heard, NotAloneAt
<1> QED
  BY <1>5, <1>7 DEF Heard

\* The loss of the peer is told after all that was said of him.
LEMMA HeardLeft ==
    ASSUME NEW c \in Browsers, Heard(c), toClient[c] \in Seq(ToClient),
           toClient'[c] = Append(toClient[c], Msg("left", None)), listed'[c] = listed[c],
           astray => astray'
    PROVE  Heard(c)'
<1>0. PICK s \in Seq(ToClient) : s = toClient[c]
  OBVIOUS
<1>1. PICK m \in ToClient : m = Msg("left", None) /\ m.type = "left"
  BY DEF Msg, ToClient, Descs
<1>2. /\ Append(s, m) \in Seq(ToClient) /\ Len(s) \in Nat /\ Len(Append(s, m)) = Len(s) + 1
      /\ \A i \in 1..Len(s) : Append(s, m)[i] = s[i]
      /\ Append(s, m)[Len(s) + 1] = m
  BY AppendProperties, LenProperties
<1>3. PICK t \in Seq(ToClient) : t = Append(s, m)
  BY <1>2
<1>4. toClient'[c] = t /\ Len(t) = Len(s) + 1 /\ t[Len(t)].type = "left" /\ Len(t) \in 1..Len(t)
  BY <1>0, <1>1, <1>2, <1>3
<1>5. Announced(c)'
  <2> SUFFICES ASSUME NEW i \in 1..Len(t), t[i].type \in {"offerer", "answerer"}
               PROVE  /\ astray' \/ listed'[c]
                      /\ \E j \in 1..Len(t) : i < j /\ t[j].type = "left"
    BY <1>4 DEF Announced
  <2>1. i # Len(t)
    BY <1>4
  <2>2. i < Len(t)
    BY <1>4, <2>1
  <2>3. i \in 1..Len(s) /\ s[i] = t[i]
    BY <1>2, <1>3, <1>4, <2>2
  <2>4. astray \/ listed[c]
    BY <1>0, <2>3 DEF Heard, Announced
  <2> QED
    BY <1>4, <2>2, <2>4
<1>6. NotAloneAt(c)'
  BY <1>4 DEF NotAloneAt, Has
<1> QED
  BY <1>5, <1>6 DEF Heard

\* A message is taken: a page that begins to talk was told to, one that hears of
\* the loss talks no more.
LEMMA HeardTail ==
    ASSUME NEW c \in Browsers, Heard(c), toClient[c] \in Seq(ToClient), toClient[c] # <<>>,
           toClient'[c] = Tail(toClient[c]), listed'[c] = listed[c], toServer'[c] = toServer[c],
           slot'[Other(c)] = slot[Other(c)], tasks' = tasks, astray' = astray, misled' = misled,
           Head(toClient[c]).type = "left" => ~InCall(c)',
           InCall(c)' => InCall(c) \/ Head(toClient[c]).type \in {"offerer", "answerer"}
    PROVE  Heard(c)'
<1>0. PICK s \in Seq(ToClient) : s = toClient[c]
  OBVIOUS
<1>1. (There(Other(c))' <=> There(Other(c))) /\ (Hearing(c)' <=> Hearing(c))
  BY Others, ThereKept, HearingKept
<1>2. /\ Tail(s) \in Seq(ToClient) /\ Len(s) \in Nat /\ Len(Tail(s)) = Len(s) - 1
      /\ \A i \in 1..Len(Tail(s)) : Tail(s)[i] = s[i + 1]
      /\ Head(s) = s[1] /\ Len(s) >= 1
  BY <1>0, HeadTailProperties, LenProperties, EmptySeq
<1>3. PICK t \in Seq(ToClient) : t = Tail(s)
  BY <1>2
<1>4. toClient'[c] = t /\ Len(t) = Len(s) - 1 /\ Len(t) \in Nat
  BY <1>0, <1>2, <1>3
<1>5. ASSUME NEW j \in 1..Len(s), j > 1, s[j].type = "left"
      PROVE  \E k \in 1..Len(t) : j = k + 1 /\ t[k].type = "left"
  <2>1. PICK k \in 1..Len(t) : j = k + 1
    BY <1>2, <1>4, <1>5
  <2>2. t[k] = s[k + 1]
    BY <1>2, <1>3
  <2> QED
    BY <1>5, <2>1, <2>2
<1>6. Announced(c)'
  <2> SUFFICES ASSUME NEW i \in 1..Len(t), t[i].type \in {"offerer", "answerer"}
               PROVE  /\ astray' \/ listed'[c]
                      /\ \/ c \in misled' \/ There(Other(c))'
                         \/ \E j \in 1..Len(t) : i < j /\ t[j].type = "left"
    BY <1>4 DEF Announced
  <2>1. i + 1 \in 1..Len(s) /\ s[i + 1].type \in {"offerer", "answerer"}
    BY <1>2, <1>3, <1>4
  <2>2. /\ astray \/ listed[c]
        /\ \/ c \in misled \/ There(Other(c))
           \/ \E j \in 1..Len(s) : i + 1 < j /\ s[j].type = "left"
    BY <1>0, <2>1 DEF Heard, Announced
  <2>3. ASSUME NEW j \in 1..Len(s), i + 1 < j, s[j].type = "left"
        PROVE  \E k \in 1..Len(t) : i < k /\ t[k].type = "left"
    <3>1. j > 1
      BY <1>2, <2>3
    <3>2. PICK k \in 1..Len(t) : j = k + 1 /\ t[k].type = "left"
      BY <1>5, <2>3, <3>1
    <3> QED
      BY <1>2, <2>3, <3>2
  <2> QED
    BY <1>1, <2>2, <2>3
<1>7. NotAloneAt(c)'
  <2> SUFFICES ASSUME InCall(c)', Hearing(c)', c \notin misled', ~There(Other(c))'
               PROVE  Has(t, "left")
    BY <1>4 DEF NotAloneAt
  <2>1. s[1].type # "left"
    BY <1>0, <1>2
  <2>2. PICK j \in 1..Len(s) : s[j].type = "left"
    <3>1. CASE InCall(c)
      BY <1>0, <1>1, <3>1 DEF Heard, NotAloneAt, Has
    <3>2. CASE s[1].type \in {"offerer", "answerer"}
      <4>1. 1 \in 1..Len(s)
        BY <1>2
      <4> QED
        BY <1>0, <1>1, <3>2, <4>1 DEF Heard, Announced
    <3> QED
      BY <1>0, <1>2, <3>1, <3>2
  <2>3. j > 1
    BY <1>2, <2>1, <2>2
  <2> QED
    BY <1>5, <2>2, <2>3 DEF Has
<1> QED
  BY <1>6, <1>7 DEF Heard

\* Nothing that the talk depends on has changed.
LEMMA HeardStays ==
    ASSUME NEW c \in Browsers, Heard(c), UNCHANGED <<slot, tasks, astray, misled>>,
           toClient'[c] = toClient[c], listed'[c] = listed[c],
           InCall(c)' /\ Hearing(c)' => InCall(c) /\ Hearing(c)
    PROVE  Heard(c)'
<1>1. There(Other(c)) => There(Other(c))'
  BY Others, ThereKept
<1> QED
  BY <1>1, HeardKept

\* Who sends something else, or is served, is not on his way to join for that.
LEMMA HearingSends ==
    ASSUME NEW c \in Browsers, toServer[c] \in Seq(ToServer), NEW m \in ToServer,
           m.type # "join", toServer'[c] = Append(toServer[c], m), listed'[c] = listed[c]
    PROVE  Hearing(c)' => Hearing(c)
<1>0. PICK s \in Seq(ToServer) : s = toServer[c]
  OBVIOUS
<1>1. /\ Len(s) \in Nat /\ Len(Append(s, m)) = Len(s) + 1
      /\ \A i \in 1..Len(s) : Append(s, m)[i] = s[i]
      /\ Append(s, m)[Len(s) + 1] = m
  BY AppendProperties, LenProperties
<1>2. Has(Append(s, m), "join") => Has(s, "join")
  <2> SUFFICES ASSUME NEW i \in 1..Len(Append(s, m)), Append(s, m)[i].type = "join"
               PROVE  Has(s, "join")
    BY DEF Has
  <2>1. i # Len(s) + 1
    BY <1>1
  <2>2. i \in 1..Len(s) /\ s[i].type = "join"
    BY <1>1, <2>1
  <2> QED
    BY <2>2 DEF Has
<1> QED
  BY <1>0, <1>2 DEF Hearing

LEMMA HearingServed ==
    ASSUME NEW c \in Browsers, toServer[c] \in Seq(ToServer), toServer[c] # <<>>,
           toServer'[c] = Tail(toServer[c]),
           listed'[c] = listed[c] \/ Head(toServer[c]).type = "join"
    PROVE  Hearing(c)' => Hearing(c)
<1>0. PICK s \in Seq(ToServer) : s = toServer[c]
  OBVIOUS
<1>1. /\ Len(s) \in Nat /\ Len(Tail(s)) = Len(s) - 1 /\ Len(s) >= 1
      /\ \A i \in 1..Len(Tail(s)) : Tail(s)[i] = s[i + 1]
      /\ Head(s) = s[1]
  BY <1>0, HeadTailProperties, LenProperties, EmptySeq
<1>2. Has(Tail(s), "join") => Has(s, "join")
  <2> SUFFICES ASSUME NEW i \in 1..Len(Tail(s)), Tail(s)[i].type = "join" PROVE Has(s, "join")
    BY DEF Has
  <2>1. i + 1 \in 1..Len(s) /\ s[i + 1].type = "join"
    BY <1>1
  <2> QED
    BY <2>1 DEF Has
<1>3. Head(s).type = "join" => Has(s, "join")
  BY <1>1 DEF Has
<1> QED
  BY <1>0, <1>2, <1>3 DEF Hearing

\* The hub does nothing; a socket may open, or close that has not joined.
LEMMA HubKept ==
    ASSUME HubOK, UNCHANGED <<serverVars, astray, misled>>,
           link' \in [Browsers -> {"off", "down", "up"}],
           \A c \in Browsers : listed[c] => link'[c] = "up"
    PROVE  HubOK'
<1>1. /\ slot' = slot /\ twin' = twin /\ listed' = listed /\ clientRooms' = clientRooms
      /\ forgotten' = forgotten /\ conn' = conn /\ stale' = stale /\ tasks' = tasks
      /\ astray' = astray /\ misled' = misled
  BY DEF serverVars, hubVars
<1> QED
  BY <1>1 DEF HubOK

-----------------------------------------------------------------------------
(* The steps of the async functions                                        *)

LEMMA Both ==
    ASSUME Types', NEW b \in Browsers, NEW o \in Browsers, \A c \in Browsers : c = b \/ c = o,
           Asking(b)', Heard(b)', Asking(o)', Heard(o)'
    PROVE  IInv'
BY DEF IInv

\* What IInv says of one browser.
LEMMA At ==
    ASSUME IInv, NEW b \in Browsers
    PROVE  /\ Types /\ HubOK /\ WireOK /\ PageOK /\ RtcOK
           /\ Asking(b) /\ Heard(b) /\ Opening(b) /\ OneJoin(b) /\ JoinedAt(b) /\ Announced(b)
           /\ toServer[b] \in Seq(ToServer) /\ toClient[b] \in Seq(ToClient)
BY DEF IInv, Types, Asking, Heard, WireOK

LEMMA PageStays == PageOK /\ UNCHANGED <<pageVars, histVars>> => PageOK'
BY Zenon DEF PageOK, pageVars, histVars

LEMMA NegotiateInv ==
    ASSUME IInv, NEW b \in Browsers, NEW o \in Browsers, o = Other(b), Negotiate(b)
    PROVE  IInv'
<1>1. /\ Types /\ HubOK /\ WireOK /\ PageOK /\ RtcOK
      /\ Asking(b) /\ Heard(b) /\ Opening(b)
      /\ toServer[b] \in Seq(ToServer) /\ toClient[b] \in Seq(ToClient)
  BY At
<1>2. Asking(o) /\ Heard(o)
  BY At
<1>3. /\ RtcOK' /\ pc[b] # None /\ Sends(b) /\ \A c \in Browsers \ {b} : pc'[c] = pc[c]
      /\ UNCHANGED <<serverVars, link, toClient, pageVars, histVars>>
  BY <1>1, NegotiateRtc
<1>4. /\ Other(o) = b /\ o # b /\ Other(b) = o /\ \A c \in Browsers : c = b \/ c = o
  BY Others
<1>5. /\ slot' = slot /\ listed' = listed /\ link' = link /\ toClient' = toClient
      /\ phase' = phase /\ joinPending' = joinPending /\ session' = session
      /\ crossed' = crossed /\ dropped' = dropped /\ budget' = budget
      /\ twin' = twin /\ tasks' = tasks /\ astray' = astray /\ misled' = misled
  BY <1>3 DEF serverVars, hubVars, pageVars, histVars
<1>6. PageOK' /\ HubOK'
  <2>1. UNCHANGED <<serverVars, astray, misled>>
    BY <1>3, <1>5
  <2>2. HubOK'
    BY <1>1, <1>5, <2>1, HubKept DEF HubOK
  <2> QED
    BY <1>1, <1>3, <2>2, PageStays
<1>7. phase[b] # "lobby"
  BY <1>1, <1>3 DEF Opening
<1>8. \/ toServer' = toServer
      \/ \E m \in ToServer : m.type # "join" /\ link[b] = "up"
                             /\ toServer' = [toServer EXCEPT ![b] = Append(toServer[b], m)]
  <2>1. CASE toServer' = toServer
    BY <2>1
  <2>2. ASSUME NEW m \in ToServer, m.type # "join", Send(b, m)
        PROVE  \/ toServer' = toServer
               \/ m.type # "join" /\ link[b] = "up"
                  /\ toServer' = [toServer EXCEPT ![b] = Append(toServer[b], m)]
    BY <1>1, <2>2 DEF Send, WireOK
  <2> QED
    BY <1>3, <2>1, <2>2 DEF Sends
<1>9. WireOK' /\ Asking(b)' /\ toServer'[o] = toServer[o] /\ (Hearing(b)' => Hearing(b))
  <2>1. CASE toServer' = toServer
    <3>1. WireOK'
      BY <1>1, <1>5, <2>1 DEF WireOK
    <3>2. Asking(b)'
      BY <1>1, <1>5, <1>7, <2>1, AskingKept
    <3> QED
      BY <1>5, <2>1, <3>1, <3>2, HearingKept
  <2>2. ASSUME NEW m \in ToServer, m.type # "join", link[b] = "up",
               toServer' = [toServer EXCEPT ![b] = Append(toServer[b], m)]
        PROVE  WireOK' /\ Asking(b)' /\ toServer'[o] = toServer[o] /\ (Hearing(b)' => Hearing(b))
    <3>1. Append(toServer[b], m) \in Seq(ToServer)
      BY <1>1, AppendProperties
    <3>2. toServer'[b] = Append(toServer[b], m) /\ toServer'[o] = toServer[o]
      BY <1>1, <1>4, <2>2 DEF WireOK
    <3>3. WireOK'
      BY <1>1, <1>5, <2>2, <3>1 DEF WireOK
    <3>4. Asking(b)'
      BY <1>1, <1>5, <1>7, <2>2, <3>2, AskingSends
    <3>5. Hearing(b)' => Hearing(b)
      BY <1>1, <1>5, <2>2, <3>2, HearingSends
    <3> QED
      BY <3>2, <3>3, <3>4, <3>5
  <2> QED
    BY <1>8, <2>1, <2>2
<1>10. Asking(o)'
  <2>1. pc'[o] = pc[o]
    BY <1>3, <1>4
  <2> QED
    BY <1>2, <1>5, <1>9, <2>1, AskingKept DEF Placeless
<1>11. Heard(b)' /\ Heard(o)'
  <2>1. \A c \in Browsers : InCall(c)' => InCall(c)
    BY <1>5 DEF InCall
  <2>2. Heard(b)'
    BY <1>1, <1>5, <1>9, <2>1, HeardStays
  <2>3. Heard(o)'
    BY <1>2, <1>5, <1>9, <2>1, HeardStays, HearingKept
  <2> QED
    BY <2>2, <2>3
<1>12. Types'
  BY <1>3, <1>6, <1>9 DEF Types
<1> QED
  BY <1>4, <1>9, <1>10, <1>11, <1>12, Both

LEMMA RestartInv ==
    ASSUME IInv, NEW b \in Browsers, NEW o \in Browsers, o = Other(b), Restart(b)
    PROVE  IInv'
<1>1. Types /\ HubOK /\ WireOK /\ PageOK /\ RtcOK /\ Asking(b) /\ Heard(b)
  BY At
<1>2. Asking(o) /\ Heard(o)
  BY At
<1>3. Other(o) = b /\ Other(b) = o /\ \A c \in Browsers : c = b \/ c = o
  BY Others
<1>4. /\ Spend("restart") /\ pc[b] # None /\ Ask(b, Op("createOffer", "restart", None))
      /\ UNCHANGED <<pc, queue, made>>
      /\ slot' = slot /\ listed' = listed /\ link' = link /\ toClient' = toClient
      /\ toServer' = toServer /\ phase' = phase /\ joinPending' = joinPending
      /\ session' = session /\ crossed' \in BOOLEAN /\ dropped' = dropped /\ pc' = pc
      /\ twin' = twin /\ tasks' = tasks /\ astray' = astray /\ misled' = misled
      /\ UNCHANGED <<serverVars, astray, misled>>
  BY <1>1 DEF Restart, serverVars, hubVars, wireVars, pageVars, PageOK
<1>5. /\ budget' \in Bounds
      /\ budget'.lobby = budget.lobby
  BY <1>1, <1>4, Spending
<1>6. PICK x \in Steps : x = Op("createOffer", "restart", None)
  BY NewTypes DEF Descs
<1>7. RtcOK'
  BY <1>1, <1>4, <1>6, RtcAsked
<1>8. PageOK'
  BY <1>1, <1>4, <1>5 DEF PageOK
<1>9. HubOK' /\ WireOK'
  <2>1. HubOK'
    BY <1>1, <1>4, HubKept DEF HubOK
  <2> QED
    BY <1>1, <1>4, <2>1 DEF WireOK
<1>10. Asking(b)'
  BY <1>1, <1>4, <1>5, AskingKept DEF Placeless
<1>11. Asking(o)'
  BY <1>2, <1>4, <1>5, AskingKept DEF Placeless
<1>12. \A c \in Browsers : InCall(c)' => InCall(c)
  BY <1>4 DEF InCall
<1>13. Heard(b)' /\ Heard(o)'
  <2>1. Heard(b)'
    BY <1>1, <1>4, <1>12, HeardStays, HearingKept
  <2>2. Heard(o)'
    BY <1>2, <1>4, <1>12, HeardStays, HearingKept
  <2> QED
    BY <2>1, <2>2
<1> QED
  BY <1>3, <1>7, <1>8, <1>9, <1>10, <1>11, <1>13, Both DEF Types

-----------------------------------------------------------------------------
(* The end of a connection                                                 *)

\* What is pushed to a connection, if there is one.
LEMMA PushedTo ==
    ASSUME NEW c \in Browsers, toClient[c] \in Seq(ToClient), NEW m \in ToClient
    PROVE  Pushed(c, <<m>>) = IF link[c] = "up" /\ c \notin forgotten
                              THEN Append(toClient[c], m) ELSE toClient[c]
<1>1. toClient[c] \o <<m>> = Append(toClient[c], m)
  BY AppendIsConcat
<1> QED
  BY <1>1 DEF Pushed

LEMMA LeftType == Msg("left", None) \in ToClient
BY DEF Msg, ToClient, Descs

\* Both ends of a loss of b's connection that is noticed at once.
Loses(b, o, l) ==
    /\ HubOK' /\ WireOK' /\ ~astray'
    /\ link'[b] = l /\ ~listed'[b] /\ toServer'[b] = <<>> /\ toClient'[b] = <<>>
    /\ slot'[b] = (IF listed[b] THEN "lost" ELSE slot[b]) /\ twin'[b] = twin[b]
    /\ link'[o] = link[o] /\ listed'[o] = listed[o] /\ toServer'[o] = toServer[o]
    /\ slot'[o] = slot[o] /\ twin'[o] = twin[o]
    /\ toClient'[o] = IF listed[b] /\ slot[o] # "out" /\ link[o] = "up"
                      THEN Append(toClient[o], Msg("left", None)) ELSE toClient[o]

LEMMA Losing ==
    ASSUME HubOK, WireOK, NEW b \in Browsers, NEW o \in Browsers, o = Other(b), Lose(b),
           NEW l \in {"off", "down"}, link' = [link EXCEPT ![b] = l]
    PROVE  Loses(b, o, l)
<1>1. o # b /\ Other(b) = o /\ \A c \in Browsers : c = b \/ c = o
  BY Others
<1>2. toClient[o] \in Seq(ToClient) /\ Msg("left", None) \in ToClient
  BY LeftType DEF WireOK
<1>3. /\ slot' = [slot EXCEPT ![b] = IF listed[b] THEN "lost" ELSE slot[b]]
      /\ listed' = [listed EXCEPT ![b] = FALSE] /\ clientRooms' = clientRooms \ {b}
      /\ toServer' = [toServer EXCEPT ![b] = <<>>]
      /\ ~astray /\ astray' = astray /\ misled' = misled
      /\ twin' = twin /\ forgotten' = forgotten /\ conn' = conn /\ stale' = stale /\ tasks' = tasks
  BY DEF Lose, hubVars
<1>4. forgotten = {} /\ tasks = {} /\ stale = {}
  BY <1>3 DEF HubOK
<1>5. Pushed(o, <<Msg("left", None)>>) =
        IF link[o] = "up" THEN Append(toClient[o], Msg("left", None)) ELSE toClient[o]
  BY <1>2, <1>4, PushedTo
<1>6. PICK s \in Seq(ToClient) :
        s = IF listed[b] /\ slot[o] # "out" /\ link[o] = "up"
            THEN Append(toClient[o], Msg("left", None)) ELSE toClient[o]
  BY <1>2, AppendProperties
<1>7. s = IF listed[b] /\ slot[o] # "out" THEN Pushed(o, <<Msg("left", None)>>) ELSE toClient[o]
  BY <1>5, <1>6
<1>8. toClient' = [toClient EXCEPT ![b] = <<>>, ![o] = s]
  BY <1>1, <1>7 DEF Lose, WireOK
<1>9. <<>> \in Seq(ToClient) /\ <<>> \in Seq(ToServer)
  BY EmptySeq
<1>10. toClient'[b] = <<>> /\ toClient'[o] = s
  BY <1>1, <1>8 DEF WireOK
<1>11. HubOK'
  <2>1. slot' \in Places /\ listed' \in [Browsers -> BOOLEAN]
    BY <1>3 DEF HubOK, Places
  <2>2. link' \in [Browsers -> {"off", "down", "up"}]
    BY DEF HubOK
  <2>3. \A c \in Browsers : listed'[c] => link'[c] = "up"
    BY <1>3 DEF HubOK
  <2>4. \A c \in Browsers : listed'[c] <=> slot'[c] = "in"
    BY <1>3 DEF HubOK, Places
  <2> QED
    BY <1>3, <1>4, <2>1, <2>2, <2>3, <2>4 DEF HubOK
<1>12. WireOK'
  <2>1. toServer' \in [Browsers -> Seq(ToServer)] /\ toClient' \in [Browsers -> Seq(ToClient)]
    BY <1>3, <1>8, <1>9 DEF WireOK
  <2>2. /\ toServer'[b] = <<>> /\ toServer'[o] = toServer[o] /\ link'[o] = link[o]
    BY <1>1, <1>3 DEF WireOK, HubOK
  <2>3. link'[o] # "up" => toServer'[o] = <<>> /\ toClient'[o] = <<>>
    BY <1>6, <1>10, <2>2 DEF WireOK
  <2> QED
    BY <1>1, <1>10, <2>1, <2>2, <2>3 DEF WireOK
<1>13. /\ link'[b] = l /\ ~listed'[b] /\ toServer'[b] = <<>>
       /\ slot'[b] = IF listed[b] THEN "lost" ELSE slot[b]
       /\ link'[o] = link[o] /\ listed'[o] = listed[o] /\ toServer'[o] = toServer[o]
       /\ slot'[o] = slot[o]
  BY <1>1, <1>3 DEF HubOK, WireOK, Places
<1> QED
  BY <1>3, <1>6, <1>10, <1>11, <1>12, <1>13 DEF Loses

\* The same, whenever the server notices.
Lost(b, o, l) ==
    /\ HubOK' /\ WireOK'
    /\ link'[b] = l /\ ~listed'[b] /\ toServer'[b] = <<>> /\ toClient'[b] = <<>>
    /\ ~listed[b] /\ Placeless(b) => Placeless(b)'
    /\ Asking(o)' /\ Heard(o)'

\* The other one goes on, and is told if he may hear it.
LEMMA LostAtOnce ==
    ASSUME IInv, NEW b \in Browsers, NEW o \in Browsers, o = Other(b), Lose(b),
           NEW l \in {"off", "down"}, link' = [link EXCEPT ![b] = l],
           phase'[o] = phase[o], joinPending'[o] = joinPending[o], pc'[o] = pc[o],
           o \in dropped' <=> o \in dropped, budget'.lobby = budget.lobby
    PROVE  Lost(b, o, l)
<1>1. /\ HubOK /\ WireOK /\ PageOK /\ Asking(o) /\ Heard(o) /\ Opening(o) /\ OneJoin(o)
      /\ toClient[o] \in Seq(ToClient)
  BY At
<1>2. Other(o) = b
  BY Others
<1>3. Loses(b, o, l)
  BY <1>1, Losing
<1>4. /\ slot'[b] = (IF listed[b] THEN "lost" ELSE slot[b]) /\ twin'[b] = twin[b]
      /\ link'[o] = link[o] /\ listed'[o] = listed[o] /\ toServer'[o] = toServer[o]
      /\ slot'[o] = slot[o] /\ twin'[o] = twin[o]
      /\ toClient'[o] = IF listed[b] /\ slot[o] # "out" /\ link[o] = "up"
                        THEN Append(toClient[o], Msg("left", None)) ELSE toClient[o]
      /\ ~astray /\ misled' = misled /\ tasks' = tasks /\ tasks = {}
  BY <1>1, <1>3 DEF Loses, Lose, hubVars, HubOK
<1>5. phase[o] = "lobby" => toClient'[o] = toClient[o]
  BY <1>1, <1>4 DEF Opening, Placeless
<1>6. Asking(o)'
  BY <1>1, <1>4, <1>5, AskingKept DEF Placeless
<1>7. (InCall(o)' => InCall(o)) /\ (Hearing(o)' <=> Hearing(o))
  BY <1>4, HearingKept DEF InCall
<1>8. Heard(o)'
  <2>1. CASE listed[b] /\ slot[o] # "out" /\ link[o] = "up"
    BY <1>1, <1>4, <2>1, HeardLeft
  <2>2. CASE ~listed[b]
    <3>1. slot'[b] = slot[b] /\ toClient'[o] = toClient[o] /\ (There(b)' <=> There(b))
      BY <1>4, <2>2, ThereKept
    <3> QED
      BY <1>1, <1>2, <1>4, <1>7, <3>1, HeardKept
  <2>3. CASE slot[o] = "out" \/ link[o] # "up"
    <3>1. ~listed[o] /\ ~listed'[o] /\ toClient'[o] = toClient[o]
      BY <1>1, <1>4, <2>3 DEF HubOK
    <3> QED
      BY <1>1, <1>4, <1>7, <3>1, HeardDeaf
  <2> QED
    BY <2>1, <2>2, <2>3
<1> QED
  BY <1>4, <1>6, <1>8, <1>3 DEF Lost, Loses, Placeless

\* The server has not noticed: nothing changes for the other one.
LEMMA LostLate ==
    ASSUME IInv, NEW b \in Browsers, NEW o \in Browsers, o = Other(b), LoseLate(b),
           NEW l \in {"off", "down"}, link' = [link EXCEPT ![b] = l],
           phase'[o] = phase[o], joinPending'[o] = joinPending[o], pc'[o] = pc[o],
           o \in dropped' <=> o \in dropped, budget'.lobby = budget.lobby
    PROVE  Lost(b, o, l)
<1>1. HubOK /\ WireOK /\ PageOK /\ Asking(o) /\ Heard(o)
  BY At
<1>2. o # b /\ Other(o) = b /\ \A c \in Browsers : c = b \/ c = o
  BY Others
<1>3. /\ astray' = TRUE /\ listed' = [listed EXCEPT ![b] = FALSE]
      /\ toServer' = [toServer EXCEPT ![b] = <<>>] /\ toClient' = [toClient EXCEPT ![b] = <<>>]
      /\ forgotten' = forgotten \ {b}
      /\ IF link[b] = "up" THEN /\ stale' = stale \cup {[by |-> b, n |-> conn[b]]}
                                /\ conn' = [conn EXCEPT ![b] = conn[b] + 1]
                           ELSE stale' = stale /\ conn' = conn
      /\ slot' = slot /\ twin' = twin /\ clientRooms' = clientRooms /\ tasks' = tasks
      /\ misled' = misled
  BY DEF LoseLate
<1>4. /\ link'[b] = l /\ ~listed'[b] /\ toServer'[b] = <<>> /\ toClient'[b] = <<>>
      /\ link'[o] = link[o] /\ listed'[o] = listed[o]
      /\ toServer'[o] = toServer[o] /\ toClient'[o] = toClient[o]
  BY <1>1, <1>2, <1>3 DEF HubOK, WireOK
<1>5. HubOK'
  <2>1. conn' \in [Browsers -> Nat] /\ stale' \subseteq Connections
    <3>1. conn[b] \in Nat /\ [by |-> b, n |-> conn[b]] \in Connections
      BY <1>1 DEF HubOK, Connections
    <3>2. conn[b] + 1 \in Nat
      BY <3>1
    <3>3. CASE link[b] = "up"
      BY <1>1, <1>3, <3>1, <3>2, <3>3 DEF HubOK
    <3>4. CASE link[b] # "up"
      BY <1>1, <1>3, <3>4 DEF HubOK
    <3> QED
      BY <3>3, <3>4
  <2>2. \A t \in tasks : t.n <= conn'[t.by] /\ (t.n = conn'[t.by] => listed'[t.by])
    <3> SUFFICES ASSUME NEW t \in tasks
                 PROVE  t.n <= conn'[t.by] /\ (t.n = conn'[t.by] => listed'[t.by])
      OBVIOUS
    <3>1. /\ t.by \in Browsers /\ t.n \in Nat /\ conn[t.by] \in Nat
          /\ t.n <= conn[t.by] /\ (t.n = conn[t.by] => listed[t.by])
      BY <1>1 DEF HubOK, Tasks
    <3>2. CASE t.by = b /\ link[b] = "up"
      <4>1. conn'[b] = conn[b] + 1
        BY <1>1, <1>3, <3>2 DEF HubOK
      <4> QED
        BY <3>1, <3>2, <4>1
    <3>3. CASE t.by = b /\ link[b] # "up"
      <4>1. conn'[b] = conn[b] /\ ~listed[b]
        BY <1>1, <1>3, <3>3 DEF HubOK
      <4> QED
        BY <3>1, <3>3, <4>1
    <3>4. CASE t.by # b
      <4>1. conn'[t.by] = conn[t.by] /\ listed'[t.by] = listed[t.by]
        BY <1>1, <1>3, <3>1, <3>4 DEF HubOK
      <4> QED
        BY <3>1, <4>1
    <3> QED
      BY <3>2, <3>3, <3>4
  <2>3. \A c \in stale' : c.n < conn'[c.by]
    <3> SUFFICES ASSUME NEW c \in stale' PROVE c.n < conn'[c.by]
      OBVIOUS
    <3>1. \A d \in stale : d.by \in Browsers /\ d.n \in Nat /\ d.n < conn[d.by]
      BY <1>1 DEF HubOK, Connections
    <3>2. \A d \in Browsers : conn[d] \in Nat /\ conn'[d] \in Nat /\ conn[d] <= conn'[d]
      BY <1>1, <1>3 DEF HubOK
    <3>3. CASE c \in stale
      BY <3>1, <3>2, <3>3
    <3>4. CASE c \notin stale
      <4>1. c = [by |-> b, n |-> conn[b]] /\ conn'[b] = conn[b] + 1
        BY <1>1, <1>3, <3>4 DEF HubOK
      <4> QED
        BY <3>2, <4>1
    <3> QED
      BY <3>3, <3>4
  <2>4. /\ link' \in [Browsers -> {"off", "down", "up"}] /\ listed' \in [Browsers -> BOOLEAN]
        /\ \A c \in Browsers : listed'[c] => link'[c] = "up"
    BY <1>1, <1>2, <1>3, <1>4 DEF HubOK
  <2> QED
    BY <1>1, <1>3, <2>1, <2>2, <2>3, <2>4 DEF HubOK
<1>6. WireOK'
  <2>1. <<>> \in Seq(ToClient) /\ <<>> \in Seq(ToServer)
    BY EmptySeq
  <2>2. toServer' \in [Browsers -> Seq(ToServer)] /\ toClient' \in [Browsers -> Seq(ToClient)]
    BY <1>1, <1>3, <2>1 DEF WireOK
  <2> QED
    BY <1>1, <1>2, <1>4, <2>2 DEF WireOK
<1>7. Asking(o)'
  BY <1>1, <1>3, <1>4, AskingKept DEF Placeless
<1>8. Heard(o)'
  <2>1. (InCall(o)' => InCall(o)) /\ (Hearing(o)' <=> Hearing(o)) /\ (There(b)' <=> There(b))
    BY <1>3, <1>4, HearingKept, ThereKept DEF InCall
  <2> QED
    BY <1>1, <1>2, <1>3, <1>4, <2>1, HeardKept
<1> QED
  BY <1>3, <1>4, <1>5, <1>6, <1>7, <1>8 DEF Lost, Placeless

\* A page whose connection ended hears nothing.
LEMMA HeardLost ==
    ASSUME NEW b \in Browsers, ~listed'[b], toServer'[b] = <<>>, toClient'[b] = <<>>
    PROVE  Heard(b)'
<1>1. ~Hearing(b)'
  BY DEF Hearing, Has
<1> QED
  BY <1>1, HeardGone

LEMMA DropInv ==
    ASSUME IInv, NEW b \in Browsers, NEW o \in Browsers, o = Other(b), Drop(b)
    PROVE  IInv'
<1>1. Types /\ HubOK /\ WireOK /\ PageOK /\ RtcOK /\ Asking(b) /\ Opening(b)
  BY At
<1>2. o # b /\ \A c \in Browsers : c = b \/ c = o
  BY Others
<1>3. /\ Spend("drop") /\ link[b] = "up" /\ link' = [link EXCEPT ![b] = "down"]
      /\ Lose(b) \/ LoseLate(b)
      /\ dropped' = dropped \cup {b} /\ phase' = phase /\ joinPending' = joinPending
      /\ session' = session /\ crossed' = crossed
      /\ pc' = pc /\ ops' = ops /\ queue' = queue /\ made' = made
  BY DEF Drop, pageVars, rtcVars
<1>4. /\ budget' \in Bounds
      /\ budget'.lobby = budget.lobby
  BY <1>1, <1>3, Spending
<1>5. RtcOK' /\ PageOK'
  BY <1>1, <1>3, <1>4 DEF RtcOK, PageOK
<1>6. Lost(b, o, "down")
  BY <1>2, <1>3, <1>4, LostAtOnce, LostLate
<1>7. /\ HubOK' /\ WireOK' /\ Asking(o)' /\ Heard(o)'
      /\ link'[b] = "down" /\ ~listed'[b] /\ toServer'[b] = <<>> /\ toClient'[b] = <<>>
      /\ ~listed[b] /\ Placeless(b) => Placeless(b)'
  BY <1>6 DEF Lost
<1>8. Heard(b)'
  BY <1>7, HeardLost
<1>9. Asking(b)'
  <2>1. b \in dropped' /\ ~joinPending'[b]
    BY <1>1, <1>3 DEF Opening
  <2>2. phase[b] = "lobby" => Placeless(b)' /\ pc[b] = None
    BY <1>1, <1>3, <1>7, <2>1 DEF Opening
  <2>3. Opening(b)'
    BY <1>3, <1>7, <2>1, <2>2 DEF Opening
  <2>4. OneJoin(b)'
    BY <1>7 DEF OneJoin
  <2>5. JoinedAt(b)'
    BY <2>1 DEF JoinedAt
  <2> QED
    BY <2>3, <2>4, <2>5 DEF Asking
<1> QED
  BY <1>2, <1>5, <1>7, <1>8, <1>9, Both DEF Types

LEMMA ReloadInv ==
    ASSUME IInv, NEW b \in Browsers, NEW o \in Browsers, o = Other(b), Reload(b)
    PROVE  IInv'
<1>1. Types /\ HubOK /\ WireOK /\ PageOK /\ RtcOK
  BY At
<1>2. o # b /\ \A c \in Browsers : c = b \/ c = o
  BY Others
<1>3. /\ Spend("reload") /\ (Lose(b) \/ LoseLate(b)) /\ DropRTC(b)
      /\ phase' = [phase EXCEPT ![b] = "lobby"]
      /\ joinPending' = [joinPending EXCEPT ![b] = session[b] /\ ~budget.lobby]
      /\ link' = [link EXCEPT ![b] = IF joinPending'[b] THEN "down" ELSE "off"]
      /\ dropped' = dropped \ {b} /\ session' = session /\ crossed' = crossed
  BY DEF Reload
<1>4. /\ budget' \in Bounds
      /\ budget'.lobby = budget.lobby
  BY <1>1, <1>3, Spending
<1>5. PICK l \in {"off", "down"} : l = IF joinPending'[b] THEN "down" ELSE "off"
  OBVIOUS
<1>6. link' = [link EXCEPT ![b] = l]
  BY <1>3, <1>5
<1>7. RtcOK' /\ pc'[b] = None /\ pc'[o] = pc[o]
  BY <1>1, <1>2, <1>3, RtcDropped
<1>8. /\ phase'[b] = "lobby" /\ joinPending'[b] = (session[b] /\ ~budget.lobby)
      /\ phase'[o] = phase[o] /\ joinPending'[o] = joinPending[o]
      /\ b \notin dropped' /\ (o \in dropped' <=> o \in dropped)
  BY <1>1, <1>2, <1>3 DEF PageOK
<1>9. PageOK'
  <2>1. session[b] \in BOOLEAN /\ budget.lobby \in BOOLEAN
    BY <1>1 DEF PageOK, Bounds
  <2>2. (session[b] /\ ~budget.lobby) \in BOOLEAN
    OBVIOUS
  <2>3. joinPending' \in [Browsers -> BOOLEAN]
    BY <1>1, <1>3, <2>2 DEF PageOK
  <2> QED
    BY <1>1, <1>3, <1>4, <2>3 DEF PageOK
<1>10. Lost(b, o, l)
  BY <1>3, <1>4, <1>6, <1>7, <1>8, LostAtOnce, LostLate
<1>11. /\ HubOK' /\ WireOK' /\ Asking(o)' /\ Heard(o)'
       /\ link'[b] = l /\ ~listed'[b] /\ toServer'[b] = <<>> /\ toClient'[b] = <<>>
  BY <1>10 DEF Lost
<1>12. Heard(b)'
  BY <1>11, HeardLost
<1>13. Asking(b)'
  <2>1. Opening(b)'
    BY <1>4, <1>5, <1>7, <1>8, <1>11 DEF Opening
  <2>2. OneJoin(b)'
    BY <1>11 DEF OneJoin
  <2>3. JoinedAt(b)'
    BY <1>8 DEF JoinedAt, InCall
  <2> QED
    BY <2>1, <2>2, <2>3 DEF Asking
<1> QED
  BY <1>2, <1>7, <1>9, <1>11, <1>12, <1>13, Both DEF Types

LEMMA LeaveInv ==
    ASSUME IInv, NEW b \in Browsers, NEW o \in Browsers, o = Other(b), LeaveRoom(b)
    PROVE  IInv'
<1>1. Types /\ HubOK /\ WireOK /\ PageOK /\ RtcOK /\ Opening(b)
  BY At
<1>2. o # b /\ \A c \in Browsers : c = b \/ c = o
  BY Others
<1>3. /\ Spend("leave") /\ (Lose(b) \/ LoseLate(b)) /\ DropRTC(b)
      /\ phase[b] \in {"connecting", "connected"}
      /\ phase' = [phase EXCEPT ![b] = "ended"]
      /\ session' = [session EXCEPT ![b] = FALSE]
      /\ link' = [link EXCEPT ![b] = "off"]
      /\ joinPending' = joinPending /\ crossed' = crossed /\ dropped' = dropped
  BY DEF LeaveRoom
<1>4. /\ budget' \in Bounds
      /\ budget'.lobby = budget.lobby
  BY <1>1, <1>3, Spending
<1>5. RtcOK' /\ pc'[b] = None /\ pc'[o] = pc[o]
  BY <1>1, <1>2, <1>3, RtcDropped
<1>6. phase'[b] = "ended" /\ phase'[o] = phase[o] /\ ~joinPending'[b]
  BY <1>1, <1>2, <1>3 DEF PageOK, Opening
<1>7. PageOK'
  BY <1>1, <1>3, <1>4 DEF PageOK
<1>8. Lost(b, o, "off")
  BY <1>3, <1>4, <1>5, <1>6, LostAtOnce, LostLate
<1>9. /\ HubOK' /\ WireOK' /\ Asking(o)' /\ Heard(o)'
      /\ link'[b] = "off" /\ ~listed'[b] /\ toServer'[b] = <<>> /\ toClient'[b] = <<>>
  BY <1>8 DEF Lost
<1>10. Heard(b)'
  BY <1>9, HeardLost
<1>11. Asking(b)'
  <2>1. Opening(b)'
    BY <1>6, <1>9 DEF Opening
  <2>2. OneJoin(b)'
    BY <1>9 DEF OneJoin
  <2>3. JoinedAt(b)'
    BY <1>9 DEF JoinedAt
  <2> QED
    BY <2>1, <2>2, <2>3 DEF Asking
<1> QED
  BY <1>2, <1>5, <1>7, <1>9, <1>10, <1>11, Both DEF Types

-----------------------------------------------------------------------------
(* The server                                                              *)

LEMMA AnnouncementTypes ==
    /\ Msg("answerer", None) \in ToClient /\ Msg("answerer", None).type = "answerer"
    /\ Msg("offerer", None) \in ToClient /\ Msg("offerer", None).type = "offerer"
BY DEF Msg, ToClient, Descs

LEMMA HandleRoomJoinInv ==
    ASSUME IInv, NEW b \in Browsers, NEW o \in Browsers, o = Other(b), HandleRoomJoin(b)
    PROVE  IInv'
<1>1. /\ Types /\ HubOK /\ WireOK /\ PageOK /\ RtcOK /\ Asking(b) /\ Heard(b) /\ OneJoin(b)
      /\ toServer[b] \in Seq(ToServer) /\ toClient[b] \in Seq(ToClient)
  BY At
<1>2. Asking(o) /\ Heard(o) /\ Opening(o) /\ toClient[o] \in Seq(ToClient)
  BY At
<1>3. o # b /\ Other(o) = b /\ Other(b) = o /\ \A c \in Browsers : c = b \/ c = o
  BY Others
<1>4. /\ link[b] = "up" /\ toServer[b] # <<>> /\ Head(toServer[b]).type = "join"
      /\ toServer' = [toServer EXCEPT ![b] = Tail(toServer[b])]
      /\ slot' = [slot EXCEPT ![b] = "in"] /\ listed' = [listed EXCEPT ![b] = TRUE]
      /\ toClient' = IF slot[o] = "in"
                     THEN [toClient EXCEPT ![b] = Append(toClient[b], Msg("answerer", None)),
                                           ![o] = Pushed(o, <<Msg("offerer", None)>>)]
                     ELSE toClient
      /\ link' = link /\ phase' = phase /\ joinPending' = joinPending /\ session' = session
      /\ pc' = pc /\ ops' = ops /\ queue' = queue /\ made' = made
      /\ crossed' = crossed /\ dropped' = dropped /\ budget' = budget
      /\ clientRooms' = clientRooms \cup {b} /\ twin' = twin /\ forgotten' = forgotten
      /\ conn' = conn /\ stale' = stale /\ tasks' = tasks
      /\ ~astray /\ astray' = astray /\ misled' = misled
  BY <1>3 DEF HandleRoomJoin, Serve, pageVars, rtcVars, hubVars
<1>5. forgotten = {} /\ tasks = {} /\ stale = {} /\ \A c \in Browsers : listed[c] <=> slot[c] = "in"
  BY <1>1, <1>4 DEF HubOK
<1>6. ~InCall(b) /\ ~listed[b]
  <2>1. Head(toServer[b]) = toServer[b][1] /\ 1 \in 1..Len(toServer[b])
    BY <1>1, <1>4, HeadTailProperties, LenProperties, EmptySeq
  <2> QED
    BY <1>1, <1>4, <2>1 DEF OneJoin
<1>7. /\ slot'[b] = "in" /\ slot'[o] = slot[o] /\ listed'[b] /\ listed'[o] = listed[o]
      /\ toServer'[b] = Tail(toServer[b]) /\ toServer'[o] = toServer[o]
  BY <1>1, <1>3, <1>4 DEF HubOK, WireOK, Places
<1>8. HubOK'
  <2>1. slot' \in Places /\ listed' \in [Browsers -> BOOLEAN]
    BY <1>1, <1>4 DEF HubOK, Places
  <2>2. \A c \in Browsers : listed'[c] => link'[c] = "up"
    BY <1>1, <1>4 DEF HubOK
  <2>3. \A c \in Browsers : listed'[c] <=> slot'[c] = "in"
    BY <1>1, <1>4, <1>5 DEF HubOK, Places
  <2> QED
    BY <1>1, <1>4, <1>5, <2>1, <2>2, <2>3 DEF HubOK
<1>9. PageOK' /\ RtcOK'
  BY <1>1, <1>4 DEF PageOK, RtcOK
<1>10. PICK m \in ToClient : m = Msg("answerer", None) /\ m.type = "answerer"
  BY AnnouncementTypes
<1>11. PICK n \in ToClient : n = Msg("offerer", None) /\ n.type = "offerer"
  BY AnnouncementTypes
<1>12. slot[o] = "in" => /\ listed[o] /\ link[o] = "up" /\ phase[o] # "lobby"
                         /\ toClient'[b] = Append(toClient[b], m)
                         /\ toClient'[o] = Append(toClient[o], n)
  <2> SUFFICES ASSUME slot[o] = "in"
               PROVE  /\ listed[o] /\ link[o] = "up" /\ phase[o] # "lobby"
                      /\ toClient'[b] = Append(toClient[b], m)
                      /\ toClient'[o] = Append(toClient[o], n)
    OBVIOUS
  <2>1. listed[o] /\ link[o] = "up"
    BY <1>1, <1>5 DEF HubOK
  <2>2. Pushed(o, <<n>>) = Append(toClient[o], n)
    BY <1>2, <1>5, <2>1, PushedTo
  <2>3. toClient' = [toClient EXCEPT ![b] = Append(toClient[b], m), ![o] = Append(toClient[o], n)]
    BY <1>4, <1>10, <1>11, <2>2
  <2> QED
    BY <1>1, <1>2, <1>3, <2>1, <2>3 DEF WireOK, Opening
<1>13. slot[o] # "in" => toClient' = toClient
  BY <1>4
<1>14. /\ toClient'[b] \in Seq(ToClient) /\ toClient'[o] \in Seq(ToClient)
       /\ toClient' = [c \in Browsers |-> toClient'[c]]
  <2>1. Append(toClient[b], m) \in Seq(ToClient) /\ Append(toClient[o], n) \in Seq(ToClient)
    BY <1>1, <1>2, AppendProperties
  <2>2. toClient' = [c \in Browsers |-> toClient'[c]]
    BY <1>1, <1>4 DEF WireOK
  <2> QED
    BY <1>1, <1>2, <1>12, <1>13, <2>1, <2>2
<1>15. WireOK'
  <2>1. toServer' \in [Browsers -> Seq(ToServer)]
    <3>1. Tail(toServer[b]) \in Seq(ToServer)
      BY <1>1, <1>4, HeadTailProperties
    <3> QED
      BY <1>1, <1>4, <3>1 DEF WireOK
  <2>2. toClient' \in [Browsers -> Seq(ToClient)]
    BY <1>3, <1>14
  <2>3. link'[b] = "up" /\ (link'[o] # "up" => toServer'[o] = <<>> /\ toClient'[o] = <<>>)
    BY <1>1, <1>4, <1>7, <1>12, <1>13 DEF WireOK
  <2> QED
    BY <1>3, <2>1, <2>2, <2>3 DEF WireOK
<1>16. Asking(b)'
  BY <1>1, <1>4, <1>7, AskingServed
<1>17. Asking(o)'
  <2>1. phase[o] = "lobby" => toClient'[o] = toClient[o]
    BY <1>12, <1>13
  <2> QED
    BY <1>2, <1>4, <1>7, <2>1, AskingKept DEF Placeless
<1>18. /\ ~InCall(b)' /\ (InCall(o)' => InCall(o)) /\ (Hearing(o)' <=> Hearing(o))
       /\ There(b)' /\ (There(o)' <=> There(o)) /\ (slot[o] = "in" => There(o)')
  BY <1>4, <1>6, <1>7, HearingKept, ThereKept DEF InCall, There
<1>19. Heard(b)'
  <2>1. CASE slot[o] = "in"
    <3>1. toClient'[b] = Append(toClient[b], m)
      BY <1>12, <2>1
    <3> QED
      BY <1>1, <1>3, <1>4, <1>7, <1>18, <2>1, <3>1, HeardMore
  <2>2. CASE slot[o] # "in"
    <3>1. toClient'[b] = toClient[b]
      BY <1>13, <2>2
    <3> QED
      BY <1>1, <1>3, <1>4, <1>7, <1>18, <3>1, HeardKept
  <2> QED
    BY <2>1, <2>2
<1>20. Heard(o)'
  <2>1. CASE slot[o] = "in"
    <3>1. toClient'[o] = Append(toClient[o], n) /\ listed[o]
      BY <1>12, <2>1
    <3> QED
      BY <1>2, <1>3, <1>4, <1>7, <1>18, <2>1, <3>1, HeardMore
  <2>2. CASE slot[o] # "in"
    <3>1. toClient'[o] = toClient[o]
      BY <1>13, <2>2
    <3> QED
      BY <1>2, <1>3, <1>4, <1>7, <1>18, <3>1, HeardKept
  <2> QED
    BY <2>1, <2>2
<1> QED
  BY <1>3, <1>8, <1>9, <1>15, <1>16, <1>17, <1>19, <1>20, Both DEF Types

LEMMA RelayInv ==
    ASSUME IInv, NEW b \in Browsers, NEW o \in Browsers, o = Other(b), RelayToPeer(b)
    PROVE  IInv'
<1>1. /\ Types /\ HubOK /\ WireOK /\ PageOK /\ RtcOK /\ Asking(b) /\ Heard(b)
      /\ toServer[b] \in Seq(ToServer)
  BY At
<1>2. Asking(o) /\ Heard(o) /\ Opening(o) /\ toClient[o] \in Seq(ToClient)
  BY At
<1>3. o # b /\ Other(o) = b /\ Other(b) = o /\ \A c \in Browsers : c = b \/ c = o
  BY Others
<1>4. PICK m : m = Head(toServer[b])
  OBVIOUS
<1>5. /\ link[b] = "up" /\ toServer[b] # <<>> /\ m.type \in {"offer", "answer", "ice"}
      /\ toServer' = [toServer EXCEPT ![b] = Tail(toServer[b])]
      /\ slot' = slot /\ listed' = listed
      /\ toClient' = [toClient EXCEPT ![o] = IF listed[b] /\ slot[o] # "out"
                                             THEN Pushed(o, <<m>>) ELSE toClient[o]]
      /\ link' = link /\ phase' = phase /\ joinPending' = joinPending /\ session' = session
      /\ pc' = pc /\ ops' = ops /\ queue' = queue /\ made' = made
      /\ crossed' \in BOOLEAN /\ dropped' = dropped /\ budget' = budget
      /\ twin' = twin /\ tasks' = tasks /\ UNCHANGED <<serverVars, astray, misled>>
  <2>1. (crossed \/ (m.type = "offer" /\ (listed[b] /\ slot[o] # "out")
                     /\ (~listed[o] \/ Has(toClient[b], "offerer")))) \in BOOLEAN
    OBVIOUS
  <2>2. crossed' = (crossed \/ (m.type = "offer" /\ (listed[b] /\ slot[o] # "out")
                     /\ (~listed[o] \/ Has(toClient[b], "offerer"))))
    BY <1>3, <1>4 DEF RelayToPeer
  <2>3. crossed' \in BOOLEAN
    BY <2>1, <2>2, Zenon
  <2> QED
    BY <1>3, <1>4, <2>3 DEF RelayToPeer, Serve, pageVars, rtcVars, serverVars, hubVars
<1>6. m \in ToClient /\ m.type # "join" /\ Tail(toServer[b]) \in Seq(ToServer)
  <2>1. m \in ToServer /\ Tail(toServer[b]) \in Seq(ToServer)
    BY <1>1, <1>4, <1>5, HeadTailProperties
  <2> QED
    BY <1>5, <2>1 DEF ToServer, ToClient
<1>7. /\ toServer'[b] = Tail(toServer[b]) /\ toServer'[o] = toServer[o]
      /\ toClient'[b] = toClient[b]
  BY <1>1, <1>3, <1>5 DEF WireOK
<1>8. toClient'[o] = IF listed[b] /\ slot[o] # "out" /\ link[o] = "up" /\ o \notin forgotten
                     THEN Append(toClient[o], m) ELSE toClient[o]
  <2>1. Pushed(o, <<m>>) = IF link[o] = "up" /\ o \notin forgotten
                           THEN Append(toClient[o], m) ELSE toClient[o]
    BY <1>2, <1>6, PushedTo
  <2> QED
    BY <1>1, <1>5, <2>1 DEF WireOK
<1>9. HubOK' /\ PageOK' /\ RtcOK'
  <2>1. HubOK'
    BY <1>1, <1>5, HubKept DEF HubOK
  <2> QED
    BY <1>1, <1>5, <2>1 DEF PageOK, RtcOK
<1>10. WireOK'
  <2>1. toServer' \in [Browsers -> Seq(ToServer)]
    BY <1>1, <1>5, <1>6 DEF WireOK
  <2>2. toClient'[o] \in Seq(ToClient) /\ toClient'[b] \in Seq(ToClient)
    BY <1>1, <1>2, <1>6, <1>7, <1>8, AppendProperties DEF WireOK
  <2>3. toClient' = [c \in Browsers |-> toClient'[c]]
    BY <1>1, <1>5 DEF WireOK
  <2>4. toClient' \in [Browsers -> Seq(ToClient)]
    BY <1>3, <2>2, <2>3
  <2>5. link'[b] = "up" /\ (link'[o] # "up" => toServer'[o] = <<>> /\ toClient'[o] = <<>>)
    BY <1>1, <1>5, <1>7, <1>8 DEF WireOK
  <2> QED
    BY <1>3, <2>1, <2>4, <2>5 DEF WireOK
<1>11. Asking(b)'
  BY <1>1, <1>4, <1>5, <1>6, <1>7, AskingServed
<1>12. Asking(o)'
  <2>1. phase[o] = "lobby" => toClient'[o] = toClient[o]
    BY <1>2, <1>8 DEF Opening, Placeless
  <2> QED
    BY <1>2, <1>5, <1>7, <2>1, AskingKept DEF Placeless
<1>13. /\ (InCall(b)' => InCall(b)) /\ (InCall(o)' => InCall(o))
       /\ (Hearing(b)' => Hearing(b)) /\ (Hearing(o)' <=> Hearing(o))
       /\ (There(b)' <=> There(b)) /\ (There(o)' <=> There(o))
  BY <1>1, <1>5, <1>7, HearingServed, HearingKept, ThereKept DEF InCall
<1>14. Heard(b)'
  BY <1>1, <1>3, <1>5, <1>7, <1>13, HeardKept
<1>15. Heard(o)'
  <2>1. CASE listed[b] /\ slot[o] # "out" /\ link[o] = "up" /\ o \notin forgotten
    <3>1. toClient'[o] = Append(toClient[o], m) /\ m.type \notin {"offerer", "answerer"}
      BY <1>5, <1>8, <2>1
    <3> QED
      BY <1>2, <1>3, <1>5, <1>6, <1>13, <3>1, HeardMore
  <2>2. CASE ~(listed[b] /\ slot[o] # "out" /\ link[o] = "up" /\ o \notin forgotten)
    <3>1. toClient'[o] = toClient[o]
      BY <1>8, <2>2
    <3> QED
      BY <1>2, <1>3, <1>5, <1>13, <3>1, HeardKept
  <2> QED
    BY <2>1, <2>2
<1> QED
  BY <1>3, <1>9, <1>10, <1>11, <1>12, <1>14, <1>15, Both DEF Types

LEMMA GraceInv ==
    ASSUME IInv, NEW b \in Browsers, NEW o \in Browsers, o = Other(b), GraceOver(b)
    PROVE  IInv'
<1>1. Types /\ HubOK /\ WireOK /\ PageOK /\ RtcOK /\ Asking(b) /\ Heard(b)
  BY At
<1>2. Asking(o) /\ Heard(o)
  BY At
<1>3. o # b /\ Other(o) = b /\ Other(b) = o /\ \A c \in Browsers : c = b \/ c = o
  BY Others
<1>4. /\ slot[b] = "lost" /\ slot' = [slot EXCEPT ![b] = twin[b]]
      /\ twin' = [twin EXCEPT ![b] = "out"] /\ listed' = listed /\ clientRooms' = clientRooms
      /\ forgotten' = forgotten /\ conn' = conn /\ stale' = stale /\ tasks' = tasks
      /\ link' = link /\ toServer' = toServer /\ toClient' = toClient
      /\ phase' = phase /\ joinPending' = joinPending /\ session' = session
      /\ pc' = pc /\ ops' = ops /\ queue' = queue /\ made' = made
      /\ crossed' = crossed /\ dropped' = dropped /\ budget' = budget
      /\ astray' = astray /\ misled' = misled
  BY DEF GraceOver, wireVars, pageVars, rtcVars, histVars
<1>5. slot'[b] = twin[b] /\ slot'[o] = slot[o] /\ twin'[o] = twin[o]
  BY <1>1, <1>3, <1>4 DEF HubOK, Places
<1>6. HubOK' /\ WireOK'
  <2>1. slot' \in Places /\ twin' \in Places
    BY <1>1, <1>4 DEF HubOK, Places
  <2>2. ~astray => /\ twin' = [c \in Browsers |-> "out"]
                   /\ \A c \in Browsers : listed[c] <=> slot'[c] = "in"
    BY <1>1, <1>3, <1>4, <1>5 DEF HubOK, Places
  <2>3. HubOK'
    BY <1>1, <1>4, <2>1, <2>2 DEF HubOK
  <2> QED
    BY <1>1, <1>4, <2>3 DEF WireOK
<1>7. PageOK' /\ RtcOK'
  BY <1>1, <1>4 DEF PageOK, RtcOK
<1>8. Asking(b)'
  BY <1>1, <1>4, AskingKept DEF Placeless
<1>9. Asking(o)'
  BY <1>2, <1>4, <1>5, AskingKept DEF Placeless
<1>10. /\ (InCall(b)' => InCall(b)) /\ (InCall(o)' => InCall(o))
       /\ (Hearing(b)' <=> Hearing(b)) /\ (Hearing(o)' <=> Hearing(o))
       /\ (There(o)' <=> There(o)) /\ (There(b) => There(b)')
  BY <1>4, <1>5, HearingKept, ThereKept DEF InCall, There, LossComes
<1>11. Heard(b)'
  BY <1>1, <1>3, <1>4, <1>10, HeardKept
<1>12. Heard(o)'
  BY <1>2, <1>3, <1>4, <1>10, HeardKept
<1> QED
  BY <1>3, <1>6, <1>7, <1>8, <1>9, <1>11, <1>12, Both DEF Types

-----------------------------------------------------------------------------
(* The page                                                                *)

\* A page that is opening reaches nobody.
LEMMA HandleJoinInv ==
    ASSUME IInv, NEW b \in Browsers, NEW o \in Browsers, o = Other(b), HandleJoin(b)
    PROVE  IInv'
<1>1. Types /\ HubOK /\ WireOK /\ PageOK /\ RtcOK /\ Heard(b) /\ Opening(b)
  BY At
<1>2. Asking(o) /\ Heard(o)
  BY At
<1>3. o # b /\ \A c \in Browsers : c = b \/ c = o
  BY Others
<1>4. /\ ~budget.lobby /\ phase[b] = "lobby"
      /\ link' = [link EXCEPT ![b] = "down"]
      /\ joinPending' = [joinPending EXCEPT ![b] = TRUE]
      /\ slot' = slot /\ listed' = listed /\ toServer' = toServer /\ toClient' = toClient
      /\ phase' = phase /\ session' = session
      /\ pc' = pc /\ ops' = ops /\ queue' = queue /\ made' = made
      /\ crossed' = crossed /\ dropped' = dropped /\ budget' = budget
      /\ twin' = twin /\ tasks' = tasks /\ UNCHANGED <<serverVars, astray, misled>>
  BY DEF HandleJoin, serverVars, hubVars, rtcVars, histVars
<1>5. ~listed[b] /\ toServer[b] = <<>> /\ toClient[b] = <<>> /\ pc[b] = None
  BY <1>1, <1>4 DEF Opening
<1>6. link'[b] = "down" /\ link'[o] = link[o] /\ joinPending'[b] /\ joinPending'[o] = joinPending[o]
  BY <1>1, <1>3, <1>4 DEF HubOK, PageOK
<1>7. HubOK' /\ WireOK'
  <2>1. /\ link' \in [Browsers -> {"off", "down", "up"}]
        /\ \A c \in Browsers : listed[c] => link'[c] = "up"
    BY <1>1, <1>4, <1>5 DEF HubOK
  <2>2. HubOK'
    BY <1>1, <1>4, <2>1, HubKept
  <2> QED
    BY <1>1, <1>4, <1>5, <2>2 DEF HubOK, WireOK
<1>8. PageOK' /\ RtcOK'
  BY <1>1, <1>4 DEF PageOK, RtcOK
<1>9. Asking(b)'
  <2>1. Opening(b)'
    BY <1>4, <1>5, <1>6 DEF Opening
  <2>2. OneJoin(b)'
    BY <1>4, <1>5 DEF OneJoin
  <2>3. JoinedAt(b)'
    BY <1>4 DEF JoinedAt, InCall
  <2> QED
    BY <2>1, <2>2, <2>3 DEF Asking
<1>10. Asking(o)'
  BY <1>2, <1>4, <1>6, AskingKept DEF Placeless
<1>11. /\ (InCall(b)' => InCall(b)) /\ (InCall(o)' => InCall(o))
       /\ (Hearing(b)' <=> Hearing(b)) /\ (Hearing(o)' <=> Hearing(o))
  BY <1>4, HearingKept DEF InCall
<1>12. Heard(b)'
  BY <1>1, <1>4, <1>11, HeardStays
<1>13. Heard(o)'
  BY <1>2, <1>4, <1>11, HeardStays
<1> QED
  BY <1>3, <1>7, <1>8, <1>9, <1>10, <1>12, <1>13, Both DEF Types

LEMMA JoinType ==
    /\ Msg("join", None) \in ToServer /\ Msg("join", None).type = "join"
    /\ <<Msg("join", None)>> = Append(<<>>, Msg("join", None))
BY DEF Msg, ToServer, Descs

\* joinRoom: the join is all there is on the new connection.
LEMMA Joins ==
    ASSUME IInv, NEW b \in Browsers, NEW o \in Browsers, o = Other(b), phase[b] = "lobby",
           JoinRoom(b), link'[o] = link[o],
           link' \in [Browsers -> {"off", "down", "up"}],
           link'[b] = "down" => b \in dropped,
           UNCHANGED <<serverVars, toClient, rtcVars, histVars>>
    PROVE  IInv'
<1>1. Types /\ HubOK /\ WireOK /\ PageOK /\ RtcOK /\ Heard(b) /\ Opening(b)
  BY At
<1>2. Asking(o) /\ Heard(o)
  BY At
<1>3. o # b /\ \A c \in Browsers : c = b \/ c = o
  BY Others
<1>4. /\ toServer' = [toServer EXCEPT ![b] = IF link'[b] = "up" THEN Append(toServer[b], Msg("join", None))
                                             ELSE toServer[b]]
      /\ phase' = [phase EXCEPT ![b] = "waiting"]
      /\ joinPending' = [joinPending EXCEPT ![b] = FALSE]
      /\ session' = [session EXCEPT ![b] = TRUE]
  BY DEF JoinRoom
<1>5. /\ slot' = slot /\ listed' = listed /\ toClient' = toClient
      /\ pc' = pc /\ ops' = ops /\ queue' = queue /\ made' = made
      /\ crossed' = crossed /\ dropped' = dropped /\ budget' = budget
      /\ twin' = twin /\ tasks' = tasks /\ astray' = astray /\ misled' = misled
  BY DEF serverVars, hubVars, rtcVars, histVars
<1>6. ~listed[b] /\ toServer[b] = <<>> /\ toClient[b] = <<>>
  BY <1>1 DEF Opening
<1>7. PICK m \in ToServer : m = Msg("join", None) /\ m.type = "join" /\ <<m>> = Append(<<>>, m)
  BY JoinType
<1>8. /\ toServer'[b] = IF link'[b] = "up" THEN <<m>> ELSE <<>>
      /\ toServer'[o] = toServer[o] /\ phase'[b] = "waiting" /\ phase'[o] = phase[o]
      /\ ~joinPending'[b] /\ joinPending'[o] = joinPending[o]
  BY <1>1, <1>3, <1>4, <1>6, <1>7 DEF WireOK, PageOK
<1>9. HubOK' /\ PageOK' /\ RtcOK'
  <2>1. \A c \in Browsers : listed[c] => link'[c] = "up"
    BY <1>1, <1>3, <1>5, <1>6 DEF HubOK
  <2>2. HubOK'
    BY <1>1, <1>5, <2>1, HubKept
  <2> QED
    BY <1>1, <1>4, <1>5, <2>2 DEF PageOK, RtcOK
<1>10. WireOK'
  <2>1. toServer'[b] \in Seq(ToServer) /\ toServer'[o] \in Seq(ToServer)
    BY <1>1, <1>8, EmptySeq DEF WireOK
  <2>2. toServer' = [c \in Browsers |-> toServer'[c]]
    BY <1>1, <1>4 DEF WireOK
  <2>3. toServer' \in [Browsers -> Seq(ToServer)]
    BY <1>3, <2>1, <2>2
  <2>4. link'[b] # "up" => toServer'[b] = <<>> /\ toClient'[b] = <<>>
    BY <1>5, <1>6, <1>8
  <2>5. link'[o] # "up" => toServer'[o] = <<>> /\ toClient'[o] = <<>>
    BY <1>1, <1>5, <1>8 DEF WireOK
  <2> QED
    BY <1>1, <1>3, <1>5, <2>3, <2>4, <2>5 DEF WireOK
<1>11. Asking(b)'
  <2>1. ~InCall(b)' /\ ~listed'[b]
    BY <1>5, <1>6, <1>8 DEF InCall
  <2>2. link'[b] = "up" => Len(<<m>>) = 1 /\ <<m>>[1].type = "join"
    BY <1>7
  <2>3. Opening(b)'
    BY <1>5, <1>8 DEF Opening
  <2>4. OneJoin(b)'
    <3>1. CASE link'[b] = "up"
      BY <1>8, <2>1, <3>1 DEF OneJoin
    <3>2. CASE link'[b] # "up"
      BY <1>8, <3>2 DEF OneJoin
    <3> QED
      BY <3>1, <3>2
  <2>5. JoinedAt(b)'
    <3>1. CASE link'[b] = "up"
      <4>1. Has(<<m>>, "join")
        BY <1>7 DEF Has
      <4> QED
        BY <1>8, <3>1, <4>1 DEF JoinedAt
    <3>2. CASE link'[b] # "up"
      BY <1>5, <3>2 DEF JoinedAt
    <3> QED
      BY <3>1, <3>2
  <2> QED
    BY <2>3, <2>4, <2>5 DEF Asking
<1>12. Asking(o)'
  BY <1>2, <1>5, <1>8, AskingKept DEF Placeless
<1>13. ~InCall(b)' /\ (InCall(o)' => InCall(o)) /\ (Hearing(o)' <=> Hearing(o))
  BY <1>5, <1>8, HearingKept DEF InCall
<1>14. Heard(b)'
  BY <1>1, <1>5, <1>13, HeardStays
<1>15. Heard(o)'
  BY <1>2, <1>5, <1>13, HeardStays
<1> QED
  BY <1>3, <1>9, <1>10, <1>11, <1>12, <1>14, <1>15, Both DEF Types

LEMMA AutoJoinInv ==
    ASSUME IInv, NEW b \in Browsers, NEW o \in Browsers, o = Other(b), AutoJoin(b)
    PROVE  IInv'
<1>1. HubOK /\ Opening(b)
  BY At
<1>2. /\ budget.lobby /\ phase[b] = "lobby" /\ link' = link /\ JoinRoom(b)
      /\ UNCHANGED <<serverVars, toClient, rtcVars, histVars>>
  BY DEF AutoJoin
<1>3. link[b] = "down" => b \in dropped
  BY <1>1, <1>2 DEF Opening
<1>4. link' \in [Browsers -> {"off", "down", "up"}]
  BY <1>1, <1>2 DEF HubOK
<1> QED
  BY <1>2, <1>3, <1>4, Joins

LEMMA OpenedInv ==
    ASSUME IInv, NEW b \in Browsers, NEW o \in Browsers, o = Other(b), Opened(b)
    PROVE  IInv'
<1>1. Types /\ HubOK /\ WireOK /\ PageOK /\ RtcOK /\ Asking(b) /\ Heard(b) /\ Opening(b)
  BY At
<1>2. Asking(o) /\ Heard(o)
  BY At
<1>3. o # b /\ \A c \in Browsers : c = b \/ c = o
  BY Others
<1>4. /\ link[b] = "down" /\ link' = [link EXCEPT ![b] = "up"]
      /\ UNCHANGED <<serverVars, toClient, rtcVars, histVars>>
  BY DEF Opened
<1>5. /\ link'[b] = "up" /\ link'[o] = link[o] /\ link' \in [Browsers -> {"off", "down", "up"}]
  BY <1>1, <1>3, <1>4 DEF HubOK
<1>6. CASE joinPending[b]
  <2>1. JoinRoom(b) /\ phase[b] = "lobby"
    BY <1>1, <1>6 DEF Opened, Opening
  <2> QED
    BY <1>4, <1>5, <2>1, Joins
<1>7. CASE ~joinPending[b]
  <2>1. toServer' = toServer /\ phase' = phase /\ joinPending' = joinPending /\ session' = session
    BY <1>7 DEF Opened, pageVars
  <2>2. /\ slot' = slot /\ listed' = listed /\ toClient' = toClient
        /\ pc' = pc /\ ops' = ops /\ queue' = queue /\ made' = made
        /\ crossed' = crossed /\ dropped' = dropped /\ budget' = budget
        /\ twin' = twin /\ tasks' = tasks /\ UNCHANGED <<serverVars, astray, misled>>
    BY <1>4 DEF serverVars, hubVars, rtcVars, histVars
  <2>3. HubOK' /\ PageOK' /\ RtcOK'
    <3>1. \A c \in Browsers : listed[c] => link'[c] = "up"
      BY <1>1, <1>3, <1>5, <2>2 DEF HubOK
    <3>2. HubOK'
      BY <1>1, <1>5, <2>2, <3>1, HubKept
    <3> QED
      BY <1>1, <2>1, <2>2, <3>2 DEF PageOK, RtcOK
  <2>4. WireOK'
    BY <1>1, <1>3, <1>5, <2>1, <2>2 DEF WireOK
  <2>5. Asking(b)'
    <3>1. b \in dropped /\ (phase[b] = "lobby" => Placeless(b))
      BY <1>1, <1>4, <1>7 DEF Opening
    <3>2. Opening(b)'
      BY <1>1, <1>5, <1>7, <2>1, <2>2, <3>1 DEF Opening, Placeless
    <3>3. OneJoin(b)'
      BY <1>1, <2>1, <2>2 DEF Asking, OneJoin, InCall
    <3>4. JoinedAt(b)'
      BY <2>2, <3>1 DEF JoinedAt
    <3> QED
      BY <3>2, <3>3, <3>4 DEF Asking
  <2>6. Asking(o)'
    BY <1>2, <1>5, <2>1, <2>2, AskingKept DEF Placeless
  <2>7. /\ (InCall(b)' => InCall(b)) /\ (InCall(o)' => InCall(o))
        /\ (Hearing(b)' <=> Hearing(b)) /\ (Hearing(o)' <=> Hearing(o))
    BY <2>1, <2>2, HearingKept DEF InCall
  <2>8. Heard(b)'
    BY <1>1, <2>2, <2>7, HeardStays
  <2>9. Heard(o)'
    BY <1>2, <2>2, <2>7, HeardStays
  <2> QED
    BY <1>3, <2>3, <2>4, <2>5, <2>6, <2>8, <2>9, Both DEF Types
<1> QED
  BY <1>6, <1>7

LEMMA ShowCallInv ==
    ASSUME IInv, NEW b \in Browsers, NEW o \in Browsers, o = Other(b), ShowCall(b)
    PROVE  IInv'
<1>1. Types /\ HubOK /\ WireOK /\ PageOK /\ RtcOK /\ Asking(b) /\ Heard(b)
  BY At
<1>2. Asking(o) /\ Heard(o)
  BY At
<1>3. o # b /\ \A c \in Browsers : c = b \/ c = o
  BY Others
<1>4. /\ phase[b] = "connecting" /\ phase' = [phase EXCEPT ![b] = "connected"]
      /\ slot' = slot /\ listed' = listed /\ link' = link
      /\ toServer' = toServer /\ toClient' = toClient
      /\ joinPending' = joinPending /\ session' = session
      /\ pc' = pc /\ ops' = ops /\ queue' = queue /\ made' = made
      /\ crossed' = crossed /\ dropped' = dropped /\ budget' = budget
      /\ twin' = twin /\ tasks' = tasks /\ UNCHANGED <<serverVars, astray, misled>>
  BY DEF ShowCall, serverVars, hubVars, wireVars, rtcVars, histVars
<1>5. phase'[b] = "connected" /\ phase'[o] = phase[o]
  BY <1>1, <1>3, <1>4 DEF PageOK
<1>6. HubOK' /\ WireOK' /\ PageOK' /\ RtcOK'
  <2>1. HubOK'
    BY <1>1, <1>4, HubKept DEF HubOK
  <2> QED
    BY <1>1, <1>4, <2>1 DEF WireOK, PageOK, RtcOK
<1>7. /\ InCall(b) /\ (InCall(o)' => InCall(o))
      /\ (Hearing(b)' <=> Hearing(b)) /\ (Hearing(o)' <=> Hearing(o))
  BY <1>4, <1>5, HearingKept DEF InCall
<1>8. Asking(b)'
  BY <1>1, <1>4, <1>5, <1>7, AskingOn
<1>9. Asking(o)'
  BY <1>2, <1>4, <1>5, AskingKept DEF Placeless
<1>10. Heard(b)'
  BY <1>1, <1>4, <1>7, HeardStays
<1>11. Heard(o)'
  BY <1>2, <1>4, <1>7, HeardStays
<1> QED
  BY <1>3, <1>6, <1>8, <1>9, <1>10, <1>11, Both DEF Types

-----------------------------------------------------------------------------
(* Messages at the page                                                    *)

\* A message is heard, and the page goes on from phase[b] to q.
LEMMA HearingGoesOn ==
    ASSUME IInv, NEW b \in Browsers, NEW o \in Browsers, o = Other(b), NEW type, Hear(b, type),
           NEW q \in {"waiting", "connecting", "connected", "ended"},
           phase' = [phase EXCEPT ![b] = q], Listening(b),
           q \in {"connecting", "connected"} =>
               type # "left" /\ (InCall(b) \/ type \in {"offerer", "answerer"}),
           session' \in [Browsers -> BOOLEAN], crossed' \in BOOLEAN,
           RtcOK', pc'[o] = pc[o]
    PROVE  IInv'
<1>1. /\ Types /\ HubOK /\ WireOK /\ PageOK /\ Asking(b) /\ Heard(b) /\ Opening(b)
      /\ Announced(b) /\ toClient[b] \in Seq(ToClient)
  BY At
<1>2. Asking(o) /\ Heard(o)
  BY At
<1>3. o # b /\ Other(b) = o /\ Other(o) = b /\ \A c \in Browsers : c = b \/ c = o
  BY Others
<1>4. /\ link[b] = "up" /\ toClient[b] # <<>> /\ Head(toClient[b]).type = type
      /\ toClient' = [toClient EXCEPT ![b] = Tail(toClient[b])]
      /\ slot' = slot /\ listed' = listed /\ link' = link /\ toServer' = toServer
      /\ joinPending' = joinPending /\ dropped' = dropped /\ budget' = budget
      /\ twin' = twin /\ tasks' = tasks /\ UNCHANGED <<serverVars, astray, misled>>
      /\ astray' = astray /\ misled' = misled
  BY DEF Hear, serverVars, hubVars
<1>5. /\ toClient'[b] = Tail(toClient[b]) /\ toClient'[o] = toClient[o]
      /\ phase'[b] = q /\ phase'[o] = phase[o]
      /\ Tail(toClient[b]) \in Seq(ToClient)
  BY <1>1, <1>3, <1>4, HeadTailProperties DEF WireOK, PageOK
<1>6. phase[b] \notin {"lobby", "ended"}
  BY <1>1, <1>4 DEF Opening, Listening
<1>7. type \in {"offerer", "answerer"} => astray \/ listed[b]
  <2>1. Head(toClient[b]) = toClient[b][1] /\ 1 \in 1..Len(toClient[b])
    BY <1>1, <1>4, HeadTailProperties, LenProperties, EmptySeq
  <2> QED
    BY <1>1, <1>4, <2>1 DEF Announced
<1>8. InCall(b)' => /\ type # "left"
                    /\ InCall(b) \/ type \in {"offerer", "answerer"}
  BY <1>5 DEF InCall
<1>9. HubOK' /\ PageOK'
  <2>1. HubOK'
    BY <1>1, <1>4, HubKept DEF HubOK
  <2> QED
    BY <1>1, <1>4, <2>1 DEF PageOK
<1>10. WireOK'
  BY <1>1, <1>4, <1>5 DEF WireOK
<1>11. Asking(b)'
  BY <1>1, <1>4, <1>5, <1>6, <1>7, <1>8, AskingOn
<1>12. Asking(o)'
  BY <1>2, <1>4, <1>5, AskingKept DEF Placeless
<1>13. Heard(b)'
  BY <1>1, <1>3, <1>4, <1>5, <1>8, HeardTail
<1>14. (InCall(o)' => InCall(o)) /\ (Hearing(o)' <=> Hearing(o))
  BY <1>4, <1>5, HearingKept DEF InCall
<1>15. Heard(o)'
  BY <1>2, <1>4, <1>5, <1>14, HeardStays
<1> QED
  BY <1>3, <1>9, <1>10, <1>11, <1>12, <1>13, <1>15, Both DEF Types

\* A message that leaves the page where it is.
LEMMA HearingStays ==
    ASSUME IInv, NEW b \in Browsers, NEW o \in Browsers, o = Other(b), NEW type, Hear(b, type),
           type # "left", Listening(b), UNCHANGED <<phase, session, crossed>>,
           RtcOK', pc'[o] = pc[o]
    PROVE  IInv'
<1>1. PageOK /\ Opening(b) /\ toClient[b] # <<>>
  BY At DEF Hear
<1>2. PICK q \in {"waiting", "connecting", "connected", "ended"} : q = phase[b]
  BY <1>1 DEF PageOK, Opening
<1>3. phase' = [phase EXCEPT ![b] = q]
  BY <1>1, <1>2 DEF PageOK
<1>4. session' \in [Browsers -> BOOLEAN] /\ crossed' \in BOOLEAN
  BY <1>1 DEF PageOK
<1>5. q \in {"connecting", "connected"} =>
          type # "left" /\ (InCall(b) \/ type \in {"offerer", "answerer"})
  BY <1>2 DEF InCall
<1>6. pc'[o] = pc[o] /\ RtcOK' /\ Hear(b, type) /\ Listening(b)
  OBVIOUS
<1> QED
  BY <1>3, <1>4, <1>5, <1>6, HearingGoesOn

LEMMA OnPeerJoinedInv ==
    ASSUME IInv, NEW b \in Browsers, NEW o \in Browsers, o = Other(b), OnPeerJoined(b)
    PROVE  IInv'
<1>1. PageOK /\ RtcOK
  BY At
<1>2. o # b
  BY Others
<1>3. /\ Listening(b) /\ phase' = [phase EXCEPT ![b] = "connecting"] /\ session' = session
  BY DEF OnPeerJoined
<1>4. session' \in [Browsers -> BOOLEAN]
  BY <1>1, <1>3 DEF PageOK
<1>5. ASSUME Hear(b, "offerer"), CreatePC(b, Op("createOffer", "start", None)),
             crossed' = (crossed \/ Has(toServer[b], "offer"))
      PROVE  IInv'
  <2>1. PICK x \in Steps : x = Op("createOffer", "start", None)
    BY NewTypes DEF Descs
  <2>2. made' = made
    BY <1>5 DEF Hear
  <2>3. RtcOK' /\ pc'[o] = pc[o]
    BY <1>1, <1>2, <1>5, <2>1, <2>2, RtcCreated
  <2>4. (crossed \/ Has(toServer[b], "offer")) \in BOOLEAN
    OBVIOUS
  <2>5. crossed' \in BOOLEAN
    BY <1>5, <2>4, Zenon
  <2> QED
    BY <1>3, <1>4, <1>5, <2>3, <2>5, HearingGoesOn
<1>6. ASSUME Hear(b, "answerer"), UNCHANGED <<pc, ops, queue, crossed>>
      PROVE  IInv'
  <2>1. made' = made
    BY <1>6 DEF Hear
  <2>2. RtcOK' /\ pc'[o] = pc[o] /\ crossed' \in BOOLEAN
    BY <1>1, <1>6, <2>1 DEF RtcOK, PageOK
  <2> QED
    BY <1>3, <1>4, <1>6, <2>2, HearingGoesOn
<1> QED
  BY <1>5, <1>6 DEF OnPeerJoined

LEMMA OnPeerLeftInv ==
    ASSUME IInv, NEW b \in Browsers, NEW o \in Browsers, o = Other(b), OnPeerLeft(b)
    PROVE  IInv'
<1>1. PageOK /\ RtcOK
  BY At
<1>2. o # b
  BY Others
<1>3. Hear(b, "left") /\ Listening(b) /\ crossed' = crossed /\ made' = made
  BY DEF OnPeerLeft, Hear
<1>4. crossed' \in BOOLEAN
  BY <1>1, <1>3 DEF PageOK
<1>5. CASE budget.lobby
  <2>1. /\ phase' = [phase EXCEPT ![b] = "ended"] /\ session' = [session EXCEPT ![b] = FALSE]
        /\ DropRTC(b)
    BY <1>5 DEF OnPeerLeft
  <2>2. RtcOK' /\ pc'[o] = pc[o]
    BY <1>1, <1>2, <2>1, RtcDropped
  <2>3. session' \in [Browsers -> BOOLEAN]
    BY <1>1, <2>1 DEF PageOK
  <2> QED
    BY <1>3, <1>4, <2>1, <2>2, <2>3, HearingGoesOn
<1>6. CASE ~budget.lobby
  <2>1. /\ phase' = [phase EXCEPT ![b] = "waiting"] /\ session' = session
        /\ pc' = pc /\ ops' = ops /\ queue' = queue
    BY <1>6 DEF OnPeerLeft
  <2>2. RtcOK' /\ pc'[o] = pc[o] /\ session' \in [Browsers -> BOOLEAN]
    BY <1>1, <1>3, <2>1 DEF RtcOK, PageOK
  <2> QED
    BY <1>3, <1>4, <2>1, <2>2, HearingGoesOn
<1> QED
  BY <1>5, <1>6

\* What came from the peer has a description, or none.
LEMMA HeadType ==
    ASSUME WireOK, NEW b \in Browsers, toClient[b] # <<>>
    PROVE  /\ Head(toClient[b]).d \in Descs
           /\ Head(toClient[b]).type = "ice" => Head(toClient[b]).d \in Desc
<1>1. Head(toClient[b]) \in ToClient
  BY HeadTailProperties DEF WireOK
<1> QED
  BY <1>1 DEF ToClient

LEMMA OnOfferInv ==
    ASSUME IInv, NEW b \in Browsers, NEW o \in Browsers, o = Other(b), OnOffer(b)
    PROVE  IInv'
<1>1. WireOK /\ RtcOK
  BY At
<1>2. o # b
  BY Others
<1>3. PICK d : d = Head(toClient[b]).d
  OBVIOUS
<1>4. /\ Hear(b, "offer") /\ Listening(b) /\ UNCHANGED <<phase, session, crossed>> /\ made' = made
      /\ toClient[b] # <<>>
  BY DEF OnOffer, Hear
<1>5. d \in Descs
  BY <1>1, <1>3, <1>4, HeadType
<1>6. RtcOK' /\ pc'[o] = pc[o]
  <2>1. CASE pc[b] # None
    <3>1. PICK x \in Steps : x = Op("setRemoteOffer", "existing", d)
      BY <1>5, NewTypes
    <3>2. Ask(b, x) /\ UNCHANGED <<pc, queue, made>> /\ pc' = pc
      BY <1>3, <1>4, <2>1, <3>1 DEF OnOffer
    <3>3. RtcOK'
      BY <1>1, <2>1, <3>2, RtcAsked
    <3> QED
      BY <3>2, <3>3
  <2>2. CASE pc[b] = None
    <3>1. PICK x \in Steps : x = Op("setRemoteOffer", "fresh", d)
      BY <1>5, NewTypes
    <3>2. CreatePC(b, x)
      BY <1>3, <2>2, <3>1 DEF OnOffer
    <3> QED
      BY <1>1, <1>2, <1>4, <3>2, RtcCreated
  <2> QED
    BY <2>1, <2>2
<1> QED
  BY <1>4, <1>6, HearingStays

LEMMA OnAnswerInv ==
    ASSUME IInv, NEW b \in Browsers, NEW o \in Browsers, o = Other(b), OnAnswer(b)
    PROVE  IInv'
<1>1. WireOK /\ RtcOK
  BY At
<1>2. PICK d : d = Head(toClient[b]).d
  OBVIOUS
<1>3. /\ Hear(b, "answer") /\ Listening(b) /\ UNCHANGED <<phase, session, crossed>>
      /\ UNCHANGED <<pc, queue, made>> /\ toClient[b] # <<>>
  BY DEF OnAnswer, Hear
<1>4. d \in Descs
  BY <1>1, <1>2, <1>3, HeadType
<1>5. RtcOK'
  <2>1. CASE pc[b] # None
    <3>1. PICK x \in Steps : x = Op("setRemoteAnswer", "answer", d)
      BY <1>4, NewTypes
    <3>2. Ask(b, x)
      BY <1>2, <2>1, <3>1 DEF OnAnswer
    <3> QED
      BY <1>1, <1>3, <2>1, <3>2, RtcAsked
  <2>2. CASE pc[b] = None
    <3>1. ops' = ops
      BY <2>2 DEF OnAnswer
    <3> QED
      BY <1>1, <1>3, <3>1 DEF RtcOK
  <2> QED
    BY <2>1, <2>2
<1> QED
  BY <1>3, <1>5, HearingStays

LEMMA OnICEInv ==
    ASSUME IInv, NEW b \in Browsers, NEW o \in Browsers, o = Other(b), OnICE(b)
    PROVE  IInv'
<1>1. WireOK /\ RtcOK
  BY At
<1>2. PICK d : d = Head(toClient[b]).d
  OBVIOUS
<1>3. /\ Hear(b, "ice") /\ Listening(b) /\ UNCHANGED <<phase, session, crossed>>
      /\ pc' = pc /\ made' = made /\ toClient[b] # <<>> /\ Head(toClient[b]).type = "ice"
  BY DEF OnICE, Hear
<1>4. d \in Desc
  BY <1>1, <1>2, <1>3, HeadType
<1>5. RtcOK'
  <2>1. CASE pc[b] = None \/ Remote(pc[b]) = None
    <3>1. queue' = [queue EXCEPT ![b] = Append(queue[b], d)] /\ ops' = ops
      BY <1>2, <2>1 DEF OnICE
    <3>2. Append(queue[b], d) \in Seq(Desc)
      BY <1>1, <1>4, AppendProperties DEF RtcOK
    <3> QED
      BY <1>1, <1>3, <3>1, <3>2 DEF RtcOK
  <2>2. CASE ~(pc[b] = None \/ Remote(pc[b]) = None)
    <3>1. PICK x \in Steps : x = Op("addIce", "ice", d)
      BY <1>4, NewTypes
    <3>2. Ask(b, x) /\ UNCHANGED <<pc, queue, made>>
      BY <1>2, <1>3, <2>2, <3>1 DEF OnICE
    <3> QED
      BY <1>1, <2>2, <3>2, RtcAsked
  <2> QED
    BY <2>1, <2>2
<1> QED
  BY <1>3, <1>5, HearingStays

-----------------------------------------------------------------------------
(* Handlers that interleave                                                *)

LEMMA TaskAt ==
    ASSUME IInv, NEW t \in tasks
    PROVE  t \in Tasks /\ t.by \in Browsers /\ astray
<1>1. HubOK
  BY DEF IInv, Types
<1> QED
  BY <1>1 DEF HubOK, Tasks

\* A handler, and where it is.
LEMMA TaskMade ==
    ASSUME NEW b \in Browsers, NEW n \in Nat, NEW at \in {"added", "seen", "told", "gone", "marked"}
    PROVE  \E u \in Tasks : u = [by |-> b, n |-> n, at |-> at] /\ u.by = b /\ u.n = n /\ u.at = at
<1> DEFINE v == [by |-> b, n |-> n, at |-> at]
<1>1. v \in Tasks
  BY DEF Tasks
<1>2. v.by = b /\ v.n = n /\ v.at = at
  OBVIOUS
<1> HIDE DEF v
<1>3. \E u \in Tasks : u = v /\ u.by = b /\ u.n = n /\ u.at = at
  BY <1>1, <1>2
<1> QED
  BY <1>3 DEF v

\* A handler goes on, or ends: the losses that were coming still come.
LEMMA TaskGoes ==
    ASSUME tasks \subseteq Tasks, NEW t \in tasks, NEW at \in {"seen", "told", "marked"}, Goes(t, at)
    PROVE  /\ tasks' \subseteq Tasks
           /\ \A u \in tasks' : \E v \in tasks : u.by = v.by /\ u.n = v.n
           /\ t.at # "marked" => \A c \in Browsers : LossComes(c) => LossComes(c)'
           /\ at = "marked" => LossComes(t.by)'
<1>1. tasks' = (tasks \ {t}) \cup {[t EXCEPT !.at = at]}
  BY DEF Goes
<1>2. PICK u \in Tasks : u = [t EXCEPT !.at = at] /\ u.by = t.by /\ u.n = t.n /\ u.at = at
  <2>1. t \in Tasks
    OBVIOUS
  <2>2. [t EXCEPT !.at = at] = [by |-> t.by, n |-> t.n, at |-> at] /\ t.by \in Browsers /\ t.n \in Nat
    BY <2>1 DEF Tasks
  <2> QED
    BY <2>2, TaskMade
<1>3. tasks' = (tasks \ {t}) \cup {u}
  BY <1>1, <1>2
<1>4. ASSUME t.at # "marked", NEW c \in Browsers, LossComes(c) PROVE LossComes(c)'
  <2>1. PICK v \in tasks : v.by = c /\ v.at = "marked"
    BY <1>4 DEF LossComes
  <2>2. v \in tasks'
    BY <1>3, <1>4, <2>1
  <2> QED
    BY <2>1, <2>2 DEF LossComes
<1>5. at = "marked" => LossComes(t.by)'
  BY <1>2, <1>3 DEF LossComes
<1> QED
  BY <1>2, <1>3, <1>4, <1>5

LEMMA TaskEnds ==
    ASSUME tasks \subseteq Tasks, NEW t \in tasks, Ends(t)
    PROVE  /\ tasks' \subseteq Tasks
           /\ \A u \in tasks' : \E v \in tasks : u.by = v.by /\ u.n = v.n
           /\ \A c \in Browsers : LossComes(c) /\ (t.at # "marked" \/ t.by # c) => LossComes(c)'
<1>1. tasks' = tasks \ {t}
  BY DEF Ends
<1>2. ASSUME NEW c \in Browsers, LossComes(c), t.at # "marked" \/ t.by # c PROVE LossComes(c)'
  <2>1. PICK v \in tasks : v.by = c /\ v.at = "marked"
    BY <1>2 DEF LossComes
  <2>2. v \in tasks'
    BY <1>1, <1>2, <2>1
  <2> QED
    BY <2>1, <2>2 DEF LossComes
<1> QED
  BY <1>1, <1>2

\* What every step of a handler leaves alone.
LEMMA Handling ==
    ASSUME IInv, NEW t \in tasks, Handles(t),
           tasks' \subseteq Tasks, \A u \in tasks' : \E v \in tasks : u.by = v.by /\ u.n = v.n,
           slot' \in Places, twin' \in Places, clientRooms' = clientRooms, forgotten' = forgotten,
           stale' = stale, misled' \subseteq Browsers, toClient' \in [Browsers -> Seq(ToClient)],
           \A c \in Browsers : link[c] # "up" => toClient'[c] = toClient[c]
    PROVE  Types'
<1>1. HubOK /\ WireOK /\ PageOK /\ RtcOK /\ astray
  BY TaskAt DEF IInv, Types
<1>2. /\ listed' = listed /\ conn' = conn /\ link' = link /\ toServer' = toServer
      /\ phase' = phase /\ joinPending' = joinPending /\ session' = session
      /\ pc' = pc /\ ops' = ops /\ queue' = queue /\ made' = made
      /\ crossed' = crossed /\ dropped' = dropped /\ astray' = astray /\ budget' = budget
  BY DEF Handles, pageVars, rtcVars
<1>3. \A u \in tasks' : u.n <= conn[u.by] /\ (u.n = conn[u.by] => listed[u.by])
  BY <1>1 DEF HubOK
<1>4. HubOK'
  BY <1>1, <1>2, <1>3 DEF HubOK
<1>5. WireOK' /\ PageOK' /\ RtcOK'
  BY <1>1, <1>2 DEF WireOK, PageOK, RtcOK
<1> QED
  BY <1>4, <1>5 DEF Types

\* One browser under a step of a handler.
LEMMA HandlingAt ==
    ASSUME IInv, NEW t \in tasks, Handles(t), NEW c \in Browsers,
           phase[c] = "lobby" => toClient'[c] = toClient[c] /\ (Placeless(c) => Placeless(c)')
    PROVE  /\ Asking(c)' /\ astray /\ astray' /\ link' = link /\ toServer' = toServer
           /\ listed'[c] = listed[c]
           /\ (InCall(c)' => InCall(c)) /\ (Hearing(c)' <=> Hearing(c))
<1>1. Asking(c) /\ astray
  BY At, TaskAt
<1>2. /\ listed' = listed /\ link' = link /\ toServer' = toServer
      /\ phase' = phase /\ joinPending' = joinPending /\ pc' = pc
      /\ dropped' = dropped /\ astray' = astray /\ budget' = budget
  BY DEF Handles, pageVars, rtcVars
<1>3. Asking(c)'
  BY <1>1, <1>2, AskingKept
<1>4. (InCall(c)' => InCall(c)) /\ (Hearing(c)' <=> Hearing(c))
  BY <1>2, HearingKept DEF InCall
<1> QED
  BY <1>1, <1>2, <1>3, <1>4

LEMMA LookInv ==
    ASSUME IInv, NEW t \in tasks, LookForPeer(t)
    PROVE  IInv'
<1>1. HubOK /\ WireOK
  BY DEF IInv, Types
<1>2. /\ Handles(t) /\ t.at # "marked" /\ slot' = slot /\ twin' = twin /\ clientRooms' = clientRooms
      /\ forgotten' = forgotten /\ stale' = stale /\ toClient' = toClient /\ misled' = misled
      /\ Goes(t, "seen") \/ Ends(t)
  BY DEF LookForPeer
<1>3. /\ tasks' \subseteq Tasks
      /\ \A u \in tasks' : \E v \in tasks : u.by = v.by /\ u.n = v.n
      /\ \A c \in Browsers : LossComes(c) => LossComes(c)'
  BY <1>1, <1>2, TaskGoes, TaskEnds DEF HubOK
<1>4. Types'
  BY <1>1, <1>2, <1>3, Handling DEF HubOK, WireOK
<1>5. ASSUME NEW c \in Browsers PROVE Asking(c)' /\ Heard(c)'
  <2>1. /\ Asking(c)' /\ astray /\ astray' /\ listed'[c] = listed[c]
        /\ (InCall(c)' => InCall(c)) /\ (Hearing(c)' <=> Hearing(c))
    BY <1>2, HandlingAt DEF Placeless
  <2>2. Heard(c) /\ (There(Other(c)) => There(Other(c))')
    BY <1>2, <1>3, At, Others DEF There
  <2> QED
    BY <1>2, <2>1, <2>2, HeardKept
<1> QED
  BY <1>4, <1>5 DEF IInv

LEMMA TellJoinerInv ==
    ASSUME IInv, NEW t \in tasks, NEW b \in Browsers, NEW o \in Browsers, b = t.by, o = Other(b),
           TellJoiner(t)
    PROVE  IInv'
<1>1. /\ HubOK /\ WireOK /\ Opening(b) /\ Heard(b) /\ Heard(o)
      /\ toClient[b] \in Seq(ToClient) /\ astray
  BY At, TaskAt
<1>2. o # b /\ Other(o) = b /\ Other(b) = o /\ \A c \in Browsers : c = b \/ c = o
  BY Others
<1>3. PICK m \in ToClient : m = Msg("answerer", None) /\ m.type = "answerer"
  BY AnnouncementTypes
<1>4. /\ Handles(t) /\ t.at # "marked" /\ slot' = slot /\ twin' = twin /\ clientRooms' = clientRooms
      /\ forgotten' = forgotten /\ stale' = stale /\ Goes(t, "told")
      /\ toClient' = [toClient EXCEPT ![b] = IF t.n = conn[b] THEN Append(toClient[b], m) ELSE toClient[b]]
      /\ misled' = IF slot[o] # "in" /\ ~LossComes(o) THEN misled \cup {b} ELSE misled
  BY <1>3 DEF TellJoiner, Believes
<1>5. /\ tasks' \subseteq Tasks
      /\ \A u \in tasks' : \E v \in tasks : u.by = v.by /\ u.n = v.n
      /\ \A c \in Browsers : LossComes(c) => LossComes(c)'
  BY <1>1, <1>4, TaskGoes DEF HubOK
<1>6. t.n = conn[b] => listed[b] /\ link[b] = "up" /\ phase[b] # "lobby"
  BY <1>1 DEF HubOK, Opening
<1>7. /\ toClient'[b] = (IF t.n = conn[b] THEN Append(toClient[b], m) ELSE toClient[b])
      /\ toClient'[o] = toClient[o] /\ toClient' \in [Browsers -> Seq(ToClient)]
  <2>1. Append(toClient[b], m) \in Seq(ToClient)
    BY <1>1, AppendProperties
  <2> QED
    BY <1>1, <1>2, <1>4, <2>1 DEF WireOK
<1>8. Types'
  <2>1. misled' \subseteq Browsers
    BY <1>1, <1>4 DEF HubOK
  <2>2. \A c \in Browsers : link[c] # "up" => toClient'[c] = toClient[c]
    BY <1>2, <1>6, <1>7
  <2> QED
    BY <1>1, <1>4, <1>5, <1>7, <2>1, <2>2, Handling DEF HubOK
<1>9. \A c \in Browsers : There(c) => There(c)'
  BY <1>4, <1>5 DEF There
<1>10. Asking(b)' /\ Heard(b)'
  <2>1. /\ Asking(b)' /\ astray /\ astray' /\ listed'[b] = listed[b]
        /\ (InCall(b)' => InCall(b)) /\ (Hearing(b)' <=> Hearing(b))
    BY <1>4, <1>6, <1>7, HandlingAt DEF Placeless
  <2>2. b \in misled => b \in misled'
    BY <1>4
  <2>3. CASE t.n = conn[b]
    <3>1. b \in misled' \/ There(o)'
      BY <1>4, <1>9 DEF There
    <3>2. toClient'[b] = Append(toClient[b], m)
      BY <1>7, <2>3
    <3> QED
      BY <1>1, <1>2, <1>9, <2>1, <2>2, <3>1, <3>2, HeardMore
  <2>4. CASE t.n # conn[b]
    <3>1. toClient'[b] = toClient[b]
      BY <1>7, <2>4
    <3> QED
      BY <1>1, <1>2, <1>9, <2>1, <2>2, <3>1, HeardKept
  <2> QED
    BY <2>1, <2>3, <2>4
<1>11. Asking(o)' /\ Heard(o)'
  <2>1. /\ Asking(o)' /\ astray /\ astray' /\ listed'[o] = listed[o]
        /\ (InCall(o)' => InCall(o)) /\ (Hearing(o)' <=> Hearing(o))
    BY <1>4, <1>7, HandlingAt DEF Placeless
  <2>2. o \in misled => o \in misled'
    BY <1>4
  <2> QED
    BY <1>1, <1>2, <1>7, <1>9, <2>1, <2>2, HeardKept
<1> QED
  BY <1>2, <1>8, <1>10, <1>11, Both

\* The peer is told something: the message arrives if he has a place and a
\* connection, known to the hub.
LEMMA Telling ==
    ASSUME IInv, NEW t \in tasks, NEW b \in Browsers, NEW o \in Browsers, b = t.by, o = Other(b),
           NEW m \in ToClient, Tell(t, m), misled \subseteq misled', misled' \subseteq Browsers
    PROVE  /\ Types' /\ Asking(b)' /\ Asking(o)' /\ astray /\ astray'
           /\ \A c \in Browsers : /\ listed'[c] = listed[c] /\ (InCall(c)' => InCall(c))
                                  /\ Hearing(c)' <=> Hearing(c)
                                  /\ slot'[c] = slot[c]
                                  /\ LossComes(c) /\ (t.at # "marked" \/ c = o) => LossComes(c)'
           /\ toClient'[b] = toClient[b] /\ toServer' = toServer
           /\ toClient'[o] = IF slot[o] # "out" /\ link[o] = "up" /\ o \notin forgotten
                             THEN Append(toClient[o], m) ELSE toClient[o]
<1>1. HubOK /\ WireOK /\ Opening(o) /\ toClient[o] \in Seq(ToClient) /\ astray
  BY At, TaskAt
<1>2. o # b /\ Other(o) = b /\ Other(b) = o /\ \A c \in Browsers : c = b \/ c = o
  BY Others
<1>3. /\ Handles(t) /\ Ends(t) /\ slot' = slot /\ twin' = twin /\ clientRooms' = clientRooms
      /\ forgotten' = forgotten /\ stale' = stale
      /\ toClient' = [toClient EXCEPT ![o] = IF slot[o] # "out" THEN Pushed(o, <<m>>) ELSE toClient[o]]
  BY DEF Tell
<1>4. /\ tasks' \subseteq Tasks
      /\ \A u \in tasks' : \E v \in tasks : u.by = v.by /\ u.n = v.n
      /\ \A c \in Browsers : LossComes(c) /\ (t.at # "marked" \/ t.by # c) => LossComes(c)'
  BY <1>1, <1>3, TaskEnds DEF HubOK
<1>5. Pushed(o, <<m>>) = IF link[o] = "up" /\ o \notin forgotten
                         THEN Append(toClient[o], m) ELSE toClient[o]
  BY <1>1, PushedTo
<1>6. toClient'[o] = IF slot[o] # "out" /\ link[o] = "up" /\ o \notin forgotten
                     THEN Append(toClient[o], m) ELSE toClient[o]
  BY <1>1, <1>3, <1>5 DEF WireOK
<1>7. toClient'[b] = toClient[b] /\ toClient' \in [Browsers -> Seq(ToClient)]
  <2>1. Append(toClient[o], m) \in Seq(ToClient)
    BY <1>1, AppendProperties
  <2> QED
    BY <1>1, <1>2, <1>3, <1>5, <2>1 DEF WireOK
<1>8. \A c \in Browsers : link[c] # "up" => toClient'[c] = toClient[c]
  BY <1>2, <1>6, <1>7
<1>9. Types'
  BY <1>1, <1>3, <1>4, <1>7, <1>8, Handling DEF HubOK
<1>10. phase[o] = "lobby" => toClient'[o] = toClient[o]
  BY <1>1, <1>6 DEF Opening, Placeless
<1>11. ASSUME NEW c \in Browsers
       PROVE  /\ Asking(c)' /\ astray' /\ toServer' = toServer /\ listed'[c] = listed[c]
              /\ (InCall(c)' => InCall(c)) /\ (Hearing(c)' <=> Hearing(c))
  <2>1. phase[c] = "lobby" => toClient'[c] = toClient[c] /\ (Placeless(c) => Placeless(c)')
    BY <1>2, <1>3, <1>7, <1>10 DEF Placeless
  <2> QED
    BY <1>3, <2>1, HandlingAt
<1>12. \A c \in Browsers : LossComes(c) /\ (t.at # "marked" \/ c = o) => LossComes(c)'
  BY <1>2, <1>4
<1> QED
  BY <1>1, <1>3, <1>6, <1>7, <1>9, <1>11, <1>12

LEMMA TellPeerInv ==
    ASSUME IInv, NEW t \in tasks, NEW b \in Browsers, NEW o \in Browsers, b = t.by, o = Other(b),
           TellPeer(t)
    PROVE  IInv'
<1>1. HubOK /\ Heard(b) /\ Heard(o) /\ toClient[o] \in Seq(ToClient)
  BY At
<1>2. o # b /\ Other(o) = b /\ Other(b) = o /\ \A c \in Browsers : c = b \/ c = o
  BY Others
<1>3. PICK m \in ToClient : m = Msg("offerer", None) /\ m.type = "offerer"
  BY AnnouncementTypes
<1>4. /\ t.at # "marked" /\ Tell(t, m)
      /\ misled' = IF slot[b] # "in" /\ ~LossComes(b) THEN misled \cup {o} ELSE misled
  BY <1>2, <1>3 DEF TellPeer, Believes
<1>5. misled \subseteq misled' /\ misled' \subseteq Browsers
  BY <1>1, <1>4 DEF HubOK
<1>6. /\ Types' /\ Asking(b)' /\ Asking(o)' /\ astray /\ astray'
      /\ \A c \in Browsers : /\ listed'[c] = listed[c] /\ (InCall(c)' => InCall(c))
                             /\ Hearing(c)' <=> Hearing(c)
                             /\ slot'[c] = slot[c]
                             /\ LossComes(c) /\ (t.at # "marked" \/ c = o) => LossComes(c)'
      /\ toClient'[b] = toClient[b]
      /\ toClient'[o] = IF slot[o] # "out" /\ link[o] = "up" /\ o \notin forgotten
                        THEN Append(toClient[o], m) ELSE toClient[o]
  BY <1>4, <1>5, Telling
<1>7. \A c \in Browsers : There(c) => There(c)'
  BY <1>4, <1>6 DEF There
<1>8. Heard(b)'
  BY <1>1, <1>2, <1>5, <1>6, <1>7, HeardKept
<1>9. Heard(o)'
  <2>1. CASE slot[o] # "out" /\ link[o] = "up" /\ o \notin forgotten
    <3>1. o \in misled' \/ There(b)'
      BY <1>4, <1>7 DEF There
    <3>2. toClient'[o] = Append(toClient[o], m)
      BY <1>6, <2>1
    <3> QED
      BY <1>1, <1>2, <1>5, <1>6, <1>7, <3>1, <3>2, HeardMore
  <2>2. CASE ~(slot[o] # "out" /\ link[o] = "up" /\ o \notin forgotten)
    <3>1. toClient'[o] = toClient[o]
      BY <1>6, <2>2
    <3> QED
      BY <1>1, <1>2, <1>5, <1>6, <1>7, <3>1, HeardKept
  <2> QED
    BY <2>1, <2>2
<1> QED
  BY <1>2, <1>6, <1>8, <1>9, Both

LEMMA TellLeftInv ==
    ASSUME IInv, NEW t \in tasks, NEW b \in Browsers, NEW o \in Browsers, b = t.by, o = Other(b),
           TellLeft(t)
    PROVE  IInv'
<1>1. HubOK /\ WireOK /\ Heard(b) /\ Heard(o) /\ toClient[o] \in Seq(ToClient)
  BY At
<1>2. o # b /\ Other(o) = b /\ Other(b) = o /\ \A c \in Browsers : c = b \/ c = o
  BY Others
<1>3. PICK m \in ToClient : m = Msg("left", None)
  BY LeftType
<1>4. /\ Tell(t, m)
      /\ misled' = IF slot[o] = "out" \/ o \in forgotten THEN misled \cup {o} ELSE misled
  BY <1>3 DEF TellLeft
<1>5. misled \subseteq misled' /\ misled' \subseteq Browsers
  BY <1>1, <1>4 DEF HubOK
<1>6. /\ Types' /\ Asking(b)' /\ Asking(o)' /\ astray /\ astray'
      /\ \A c \in Browsers : /\ listed'[c] = listed[c] /\ (InCall(c)' => InCall(c))
                             /\ Hearing(c)' <=> Hearing(c)
                             /\ slot'[c] = slot[c]
                             /\ LossComes(c) /\ (t.at # "marked" \/ c = o) => LossComes(c)'
      /\ toClient'[b] = toClient[b] /\ toServer' = toServer
      /\ toClient'[o] = IF slot[o] # "out" /\ link[o] = "up" /\ o \notin forgotten
                        THEN Append(toClient[o], m) ELSE toClient[o]
  BY <1>4, <1>5, Telling
<1>7. There(o) => There(o)'
  BY <1>6 DEF There
<1>8. Heard(b)'
  BY <1>1, <1>2, <1>5, <1>6, <1>7, HeardKept
<1>9. Heard(o)'
  <2>1. CASE slot[o] # "out" /\ link[o] = "up" /\ o \notin forgotten
    <3>1. toClient'[o] = Append(toClient[o], Msg("left", None))
      BY <1>3, <1>6, <2>1
    <3> QED
      BY <1>1, <1>6, <3>1, HeardLeft
  <2>2. CASE slot[o] = "out" \/ o \in forgotten
    <3>1. toClient'[o] = toClient[o] /\ o \in misled'
      BY <1>4, <1>6, <2>2
    <3> QED
      BY <1>1, <1>2, <1>5, <1>6, <3>1, HeardKept
  <2>3. CASE link[o] # "up"
    <3>1. toClient'[o] = <<>> /\ toServer'[o] = <<>> /\ ~listed'[o]
      BY <1>1, <1>6, <2>3 DEF HubOK, WireOK
    <3> QED
      BY <3>1, HeardLost
  <2> QED
    BY <2>1, <2>2, <2>3
<1> QED
  BY <1>2, <1>6, <1>8, <1>9, Both

LEMMA MarkInv ==
    ASSUME IInv, NEW t \in tasks, NEW b \in Browsers, NEW o \in Browsers, b = t.by, o = Other(b),
           MarkDisconnected(t)
    PROVE  IInv'
<1>1. HubOK /\ WireOK /\ Heard(b) /\ Heard(o)
  BY At
<1>2. o # b /\ Other(o) = b /\ Other(b) = o /\ \A c \in Browsers : c = b \/ c = o
  BY Others
<1>3. /\ Handles(t) /\ t.at # "marked" /\ Goes(t, "marked") /\ clientRooms' = clientRooms
      /\ forgotten' = forgotten /\ stale' = stale /\ toClient' = toClient /\ misled' = misled
      /\ \/ slot' = slot /\ twin' = twin
         \/ slot[b] # "out" /\ slot' = [slot EXCEPT ![b] = "lost"] /\ twin' = twin
         \/ twin[b] # "out" /\ twin' = [twin EXCEPT ![b] = "lost"] /\ slot' = slot
  BY DEF MarkDisconnected
<1>4. /\ tasks' \subseteq Tasks
      /\ \A u \in tasks' : \E v \in tasks : u.by = v.by /\ u.n = v.n
      /\ \A c \in Browsers : LossComes(c) => LossComes(c)'
      /\ LossComes(b)'
  BY <1>1, <1>3, TaskGoes DEF HubOK
<1>5. slot' \in Places /\ twin' \in Places
  BY <1>1, <1>3 DEF HubOK, Places
<1>6. slot'[o] = slot[o] /\ twin'[o] = twin[o] /\ (Placeless(b) => Placeless(b)')
  BY <1>1, <1>2, <1>3 DEF HubOK, Places, Placeless
<1>7. Types'
  BY <1>1, <1>3, <1>4, <1>5, Handling DEF HubOK, WireOK
<1>8. There(b)' /\ (There(o) => There(o)')
  BY <1>4, <1>6 DEF There
<1>9. ASSUME NEW c \in Browsers
      PROVE  /\ Asking(c)' /\ astray /\ astray' /\ listed'[c] = listed[c]
             /\ (InCall(c)' => InCall(c)) /\ (Hearing(c)' <=> Hearing(c))
  <2>1. Placeless(c) => Placeless(c)'
    BY <1>2, <1>6 DEF Placeless
  <2> QED
    BY <1>3, <2>1, HandlingAt
<1>10. Heard(b)'
  BY <1>1, <1>2, <1>3, <1>8, <1>9, HeardKept
<1>11. Heard(o)'
  BY <1>1, <1>2, <1>3, <1>8, <1>9, HeardKept
<1> QED
  BY <1>2, <1>7, <1>9, <1>10, <1>11, Both

LEMMA HandleDisconnectInv ==
    ASSUME IInv, NEW c \in stale, HandleDisconnect(c)
    PROVE  IInv'
<1>1. HubOK /\ WireOK /\ PageOK /\ RtcOK
  BY DEF IInv, Types
<1>2. PICK b : b = c.by
  OBVIOUS
<1>3. b \in Browsers /\ c.n \in Nat /\ c.n < conn[b] /\ conn[b] \in Nat /\ astray
  BY <1>1, <1>2 DEF HubOK, Connections
<1>4. /\ stale' \subseteq stale /\ clientRooms' \subseteq clientRooms /\ forgotten' \subseteq forgotten \cup {b}
      /\ tasks' = tasks \/ tasks' = tasks \cup {[by |-> b, n |-> c.n, at |-> "gone"]}
      /\ slot' = slot /\ twin' = twin /\ listed' = listed /\ conn' = conn
      /\ link' = link /\ toServer' = toServer /\ toClient' = toClient
      /\ phase' = phase /\ joinPending' = joinPending /\ session' = session
      /\ pc' = pc /\ ops' = ops /\ queue' = queue /\ made' = made
      /\ crossed' = crossed /\ dropped' = dropped /\ astray' = astray /\ misled' = misled
      /\ budget' = budget
  BY <1>2 DEF HandleDisconnect, wireVars, pageVars, rtcVars, histVars
<1>5. HubOK'
  <2>1. PICK u \in Tasks : u = [by |-> b, n |-> c.n, at |-> "gone"] /\ u.by = b /\ u.n = c.n
    BY <1>3, TaskMade
  <2>2. tasks' \subseteq tasks \cup {u}
    BY <1>4, <2>1
  <2>3. \A t \in tasks' : t.n <= conn[t.by] /\ (t.n = conn[t.by] => listed[t.by])
    BY <1>1, <1>3, <2>1, <2>2 DEF HubOK
  <2>4. \A d \in stale' : d.n < conn[d.by]
    BY <1>1, <1>4 DEF HubOK
  <2>5. /\ tasks' \subseteq Tasks /\ stale' \subseteq Connections /\ clientRooms' \subseteq Browsers
        /\ forgotten' \subseteq Browsers
    BY <1>1, <1>3, <1>4, <2>2 DEF HubOK
  <2> QED
    BY <1>1, <1>3, <1>4, <2>3, <2>4, <2>5 DEF HubOK
<1>6. WireOK' /\ PageOK' /\ RtcOK'
  BY <1>1, <1>4 DEF WireOK, PageOK, RtcOK
<1>7. ASSUME NEW d \in Browsers PROVE Asking(d)' /\ Heard(d)'
  <2>1. Asking(d) /\ Heard(d)
    BY At
  <2>2. There(Other(d)) => There(Other(d))'
    BY <1>4 DEF There, LossComes
  <2>3. (InCall(d)' => InCall(d)) /\ (Hearing(d)' <=> Hearing(d))
    BY <1>4, HearingKept DEF InCall
  <2>4. Asking(d)'
    BY <1>4, <2>1, AskingKept DEF Placeless
  <2>5. Heard(d)'
    BY <1>4, <2>1, <2>2, <2>3, HeardKept
  <2> QED
    BY <2>4, <2>5
<1> QED
  BY <1>5, <1>6, <1>7 DEF IInv, Types

LEMMA TwinOverInv ==
    ASSUME IInv, NEW b \in Browsers, TwinOver(b)
    PROVE  IInv'
<1>1. HubOK /\ WireOK /\ PageOK /\ RtcOK
  BY DEF IInv, Types
<1>2. /\ twin[b] = "lost" /\ twin' = [twin EXCEPT ![b] = "out"] /\ slot' = slot /\ listed' = listed
      /\ clientRooms' = clientRooms /\ forgotten' = forgotten /\ conn' = conn
      /\ stale' = stale /\ tasks' = tasks
      /\ link' = link /\ toServer' = toServer /\ toClient' = toClient
      /\ phase' = phase /\ joinPending' = joinPending /\ session' = session
      /\ pc' = pc /\ ops' = ops /\ queue' = queue /\ made' = made
      /\ crossed' = crossed /\ dropped' = dropped /\ astray' = astray /\ misled' = misled
      /\ budget' = budget
  BY DEF TwinOver, wireVars, pageVars, rtcVars, histVars
<1>3. astray /\ twin' \in Places /\ \A c \in Browsers : twin'[c] = "out" \/ twin'[c] = twin[c]
  BY <1>1, <1>2 DEF HubOK, Places
<1>4. HubOK'
  BY <1>1, <1>2, <1>3 DEF HubOK
<1>5. WireOK' /\ PageOK' /\ RtcOK'
  BY <1>1, <1>2 DEF WireOK, PageOK, RtcOK
<1>6. ASSUME NEW c \in Browsers PROVE Asking(c)' /\ Heard(c)'
  <2>1. Asking(c) /\ Heard(c)
    BY At
  <2>2. (InCall(c)' => InCall(c)) /\ (Hearing(c)' <=> Hearing(c))
    BY <1>2, HearingKept DEF InCall
  <2>3. Placeless(c) => Placeless(c)'
    BY <1>2, <1>3 DEF Placeless
  <2>4. Asking(c)'
    BY <1>2, <2>1, <2>3, AskingKept
  <2>5. Heard(c)'
    BY <1>2, <2>1, <2>2, HeardStays
  <2> QED
    BY <2>4, <2>5
<1> QED
  BY <1>4, <1>5, <1>6 DEF IInv, Types

LEMMA JoinBeginsInv ==
    ASSUME IInv, NEW b \in Browsers, NEW o \in Browsers, o = Other(b), JoinBegins(b)
    PROVE  IInv'
<1>1. /\ HubOK /\ WireOK /\ PageOK /\ RtcOK /\ Asking(b) /\ Heard(b)
      /\ toServer[b] \in Seq(ToServer)
  BY At
<1>2. Asking(o) /\ Heard(o)
  BY At
<1>3. o # b /\ Other(o) = b /\ Other(b) = o /\ \A c \in Browsers : c = b \/ c = o
  BY Others
<1>4. /\ link[b] = "up" /\ toServer[b] # <<>> /\ Head(toServer[b]).type = "join"
      /\ toServer' = [toServer EXCEPT ![b] = Tail(toServer[b])]
      /\ Seat(b) /\ listed' = [listed EXCEPT ![b] = TRUE] /\ clientRooms' = clientRooms \cup {b}
      /\ tasks' = tasks \cup {[by |-> b, n |-> conn[b], at |-> "added"]} /\ astray' = TRUE
      /\ forgotten' = forgotten /\ conn' = conn /\ stale' = stale /\ toClient' = toClient
      /\ link' = link /\ phase' = phase /\ joinPending' = joinPending /\ session' = session
      /\ pc' = pc /\ ops' = ops /\ queue' = queue /\ made' = made
      /\ crossed' = crossed /\ dropped' = dropped /\ misled' = misled /\ budget' = budget
  BY DEF JoinBegins, Serve, Begin, pageVars, rtcVars
<1>5. /\ slot' \in Places /\ twin' \in Places /\ slot'[o] = slot[o] /\ twin'[o] = twin[o]
      /\ slot[b] = "in" => slot'[b] = "in"
  <2>1. CASE slot' = [slot EXCEPT ![b] = "in"] /\ twin' = twin
    BY <1>1, <1>3, <2>1 DEF HubOK, Places
  <2>2. CASE twin' = [twin EXCEPT ![b] = "in"] /\ slot' = slot
    BY <1>1, <1>3, <2>2 DEF HubOK, Places
  <2> QED
    BY <1>4, <2>1, <2>2 DEF Seat
<1>6. /\ toServer'[b] = Tail(toServer[b]) /\ toServer'[o] = toServer[o]
      /\ listed'[b] /\ listed'[o] = listed[o] /\ \A c \in Browsers : listed[c] => listed'[c]
  BY <1>1, <1>3, <1>4 DEF HubOK, WireOK
<1>7. HubOK'
  <2>1. PICK u \in Tasks : u = [by |-> b, n |-> conn[b], at |-> "added"] /\ u.by = b /\ u.n = conn[b]
    <3>1. conn[b] \in Nat
      BY <1>1 DEF HubOK
    <3> QED
      BY <3>1, TaskMade
  <2>2. tasks' = tasks \cup {u}
    BY <1>4, <2>1
  <2>3. \A t \in tasks' : t.n <= conn[t.by] /\ (t.n = conn[t.by] => listed'[t.by])
    <3>1. \A t \in tasks : t.by \in Browsers
      BY <1>1 DEF HubOK, Tasks
    <3>2. conn[b] <= conn[b]
      BY <1>1 DEF HubOK
    <3> QED
      BY <1>1, <1>6, <2>1, <2>2, <3>1, <3>2 DEF HubOK
  <2>4. /\ listed' \in [Browsers -> BOOLEAN] /\ \A c \in Browsers : listed'[c] => link'[c] = "up"
    BY <1>1, <1>4 DEF HubOK
  <2> QED
    BY <1>1, <1>4, <1>5, <2>2, <2>3, <2>4 DEF HubOK
<1>8. PageOK' /\ RtcOK'
  BY <1>1, <1>4 DEF PageOK, RtcOK
<1>9. WireOK'
  <2>1. Tail(toServer[b]) \in Seq(ToServer)
    BY <1>1, <1>4, HeadTailProperties
  <2> QED
    BY <1>1, <1>3, <1>4, <1>6, <2>1 DEF WireOK
<1>10. Asking(b)'
  BY <1>1, <1>4, <1>6, AskingServed
<1>11. Asking(o)'
  BY <1>2, <1>4, <1>5, <1>6, AskingKept DEF Placeless
<1>12. /\ (InCall(b)' => InCall(b)) /\ (InCall(o)' => InCall(o))
       /\ (Hearing(b)' => Hearing(b)) /\ (Hearing(o)' <=> Hearing(o))
  BY <1>1, <1>4, <1>6, HearingServed, HearingKept DEF InCall
<1>13. (There(b) => There(b)') /\ (There(o) => There(o)')
  BY <1>4, <1>5 DEF There, LossComes
<1>14. Heard(b)'
  BY <1>1, <1>3, <1>4, <1>6, <1>12, <1>13, HeardKept
<1>15. Heard(o)'
  BY <1>2, <1>3, <1>4, <1>6, <1>12, <1>13, HeardKept
<1> QED
  BY <1>3, <1>7, <1>8, <1>9, <1>10, <1>11, <1>14, <1>15, Both DEF Types

LEMMA JoinRefusedInv ==
    ASSUME IInv, NEW b \in Browsers, NEW o \in Browsers, o = Other(b), JoinRefused(b)
    PROVE  IInv'
<1>1. /\ HubOK /\ WireOK /\ PageOK /\ RtcOK /\ Opening(b)
  BY At
<1>2. o # b /\ \A c \in Browsers : c = b \/ c = o
  BY Others
<1>3. /\ link[b] = "up" /\ toServer[b] # <<>> /\ link' = [link EXCEPT ![b] = "down"]
      /\ LoseLate(b) /\ dropped' = dropped \cup {b}
      /\ session' \in {session, [session EXCEPT ![b] = FALSE]}
      /\ phase' = phase /\ joinPending' = joinPending
      /\ pc' = pc /\ ops' = ops /\ queue' = queue /\ made' = made
      /\ crossed' = crossed /\ budget' = budget
  BY DEF JoinRefused, rtcVars
<1>4. Lost(b, o, "down")
  BY <1>2, <1>3, LostLate
<1>5. /\ HubOK' /\ WireOK' /\ Asking(o)' /\ Heard(o)'
      /\ link'[b] = "down" /\ ~listed'[b] /\ toServer'[b] = <<>> /\ toClient'[b] = <<>>
  BY <1>4 DEF Lost
<1>6. RtcOK' /\ PageOK'
  <2>1. session' \in [Browsers -> BOOLEAN]
    BY <1>1, <1>3 DEF PageOK
  <2> QED
    BY <1>1, <1>3, <2>1 DEF RtcOK, PageOK
<1>7. phase[b] # "lobby" /\ ~joinPending[b] /\ b \in dropped'
  BY <1>1, <1>3 DEF Opening
<1>8. Heard(b)'
  BY <1>5, HeardLost
<1>9. Asking(b)'
  <2>1. Opening(b)'
    BY <1>3, <1>5, <1>7 DEF Opening
  <2>2. OneJoin(b)'
    BY <1>5 DEF OneJoin
  <2>3. JoinedAt(b)'
    BY <1>7 DEF JoinedAt
  <2> QED
    BY <2>1, <2>2, <2>3 DEF Asking
<1> QED
  BY <1>2, <1>5, <1>6, <1>8, <1>9, Both DEF Types

LEMMA GoHomeInv ==
    ASSUME IInv, NEW b \in Browsers, NEW o \in Browsers, o = Other(b), GoHome(b)
    PROVE  IInv'
<1>1. /\ HubOK /\ WireOK /\ PageOK /\ RtcOK /\ Opening(b) /\ OneJoin(b) /\ Heard(b)
  BY At
<1>2. Asking(o) /\ Heard(o)
  BY At
<1>3. o # b /\ Other(o) = b /\ Other(b) = o /\ \A c \in Browsers : c = b \/ c = o
  BY Others
<1>4. /\ Spend("leave") /\ DropRTC(b) /\ phase[b] = "waiting" /\ phase' = [phase EXCEPT ![b] = "ended"]
      /\ astray' = TRUE
      /\ slot' = slot /\ twin' = twin /\ listed' = listed /\ clientRooms' = clientRooms
      /\ forgotten' = forgotten /\ conn' = conn /\ stale' = stale /\ tasks' = tasks
      /\ link' = link /\ toServer' = toServer /\ toClient' = toClient
      /\ joinPending' = joinPending /\ session' = session
      /\ crossed' = crossed /\ dropped' = dropped /\ misled' = misled
  BY DEF GoHome, serverVars, hubVars, wireVars
<1>5. budget' \in Bounds /\ budget'.lobby = budget.lobby
  BY <1>1, <1>4, Spending
<1>6. phase'[b] = "ended" /\ phase'[o] = phase[o] /\ ~joinPending[b]
  BY <1>1, <1>3, <1>4 DEF PageOK, Opening
<1>7. RtcOK' /\ pc'[o] = pc[o]
  BY <1>1, <1>3, <1>4, RtcDropped
<1>8. HubOK' /\ WireOK' /\ PageOK'
  <2>1. HubOK'
    BY <1>1, <1>4 DEF HubOK
  <2> QED
    BY <1>1, <1>4, <1>5, <2>1 DEF WireOK, PageOK
<1>9. Asking(b)'
  <2>1. Opening(b)'
    BY <1>1, <1>4, <1>6 DEF Opening
  <2>2. OneJoin(b)'
    BY <1>1, <1>4 DEF OneJoin
  <2>3. JoinedAt(b)'
    BY <1>6 DEF JoinedAt, InCall
  <2> QED
    BY <2>1, <2>2, <2>3 DEF Asking
<1>10. Asking(o)'
  BY <1>2, <1>4, <1>5, <1>6, <1>7, AskingKept DEF Placeless
<1>11. /\ ~InCall(b)' /\ (InCall(o)' => InCall(o)) /\ (Hearing(o)' <=> Hearing(o))
       /\ (There(b)' <=> There(b)) /\ (There(o)' <=> There(o))
  BY <1>4, <1>6, HearingKept, ThereKept DEF InCall
<1>12. Heard(b)' /\ Heard(o)'
  <2>1. Heard(b)'
    BY <1>1, <1>3, <1>4, <1>11, HeardKept
  <2>2. Heard(o)'
    BY <1>2, <1>3, <1>4, <1>11, HeardKept
  <2> QED
    BY <2>1, <2>2
<1> QED
  BY <1>3, <1>7, <1>8, <1>9, <1>10, <1>12, Both DEF Types

-----------------------------------------------------------------------------
(* Every step                                                              *)

LEMMA NextInv == IInv /\ [Next]_vars => IInv'
<1> SUFFICES ASSUME IInv, [Next]_vars PROVE IInv'
  OBVIOUS
<1>1. ASSUME NEW b \in Browsers,
             \/ Page(b) \/ Negotiate(b) \/ Server(b)
             \/ Drop(b) \/ Reload(b) \/ LeaveRoom(b) \/ Restart(b)
      PROVE  IInv'
  <2>1. PICK o \in Browsers : o = Other(b)
    BY Others
  <2>2. CASE Page(b)
    BY <2>1, <2>2, HandleJoinInv, AutoJoinInv, OpenedInv, ShowCallInv, OnPeerJoinedInv,
       OnPeerLeftInv, OnOfferInv, OnAnswerInv, OnICEInv DEF Page
  <2>3. CASE Negotiate(b)
    BY <2>1, <2>3, NegotiateInv
  <2>4. CASE Server(b)
    BY <2>1, <2>4, HandleRoomJoinInv, RelayInv, GraceInv DEF Server
  <2>5. CASE Drop(b)
    BY <2>1, <2>5, DropInv
  <2>6. CASE Reload(b)
    BY <2>1, <2>6, ReloadInv
  <2>7. CASE LeaveRoom(b)
    BY <2>1, <2>7, LeaveInv
  <2>8. CASE Restart(b)
    BY <2>1, <2>8, RestartInv
  <2> QED
    BY <1>1, <2>2, <2>3, <2>4, <2>5, <2>6, <2>7, <2>8
<1>2. CASE Interleaved
  <2>1. ASSUME NEW b \in Browsers, JoinBegins(b) \/ JoinRefused(b) \/ TwinOver(b) \/ GoHome(b)
        PROVE  IInv'
    <3>1. PICK o \in Browsers : o = Other(b)
      BY Others
    <3> QED
      BY <2>1, <3>1, JoinBeginsInv, JoinRefusedInv, TwinOverInv, GoHomeInv
  <2>2. ASSUME NEW t \in tasks, Task(t)
        PROVE  IInv'
    <3>1. PICK b \in Browsers : b = t.by
      BY TaskAt
    <3>2. PICK o \in Browsers : o = Other(b)
      BY Others
    <3> QED
      BY <2>2, <3>1, <3>2, LookInv, TellJoinerInv, TellPeerInv, MarkInv, TellLeftInv DEF Task
  <2> QED
    BY <1>2, <2>1, <2>2, HandleDisconnectInv DEF Interleaved
<1>3. CASE UNCHANGED vars
  <2>1. /\ link' = link /\ toServer' = toServer /\ toClient' = toClient
        /\ phase' = phase /\ joinPending' = joinPending /\ session' = session
        /\ pc' = pc /\ ops' = ops /\ queue' = queue /\ made' = made
        /\ crossed' = crossed /\ dropped' = dropped /\ budget' = budget
        /\ slot' = slot /\ twin' = twin /\ listed' = listed /\ tasks' = tasks
        /\ UNCHANGED <<serverVars, astray, misled>>
    BY <1>3 DEF vars, serverVars, hubVars, wireVars, pageVars, rtcVars, histVars
  <2>2. Types'
    <3>1. HubOK'
      BY <2>1, HubKept DEF IInv, Types, HubOK
    <3> QED
      BY <2>1, <3>1 DEF IInv, Types, WireOK, PageOK, RtcOK
  <2>3. ASSUME NEW b \in Browsers PROVE Asking(b)' /\ Heard(b)'
    <3>1. Asking(b) /\ Heard(b)
      BY DEF IInv
    <3>2. (InCall(b)' => InCall(b)) /\ (Hearing(b)' <=> Hearing(b))
      BY <2>1, HearingKept DEF InCall
    <3>3. Asking(b)'
      BY <2>1, <3>1, AskingKept DEF Placeless
    <3>4. Heard(b)'
      BY <2>1, <3>1, <3>2, HeardStays
    <3> QED
      BY <3>3, <3>4
  <2> QED
    BY <2>2, <2>3 DEF IInv
<1> QED
  BY <1>1, <1>2, <1>3 DEF Next

LEMMA RoomInv == Spec => []IInv
BY InitInv, NextInv, PTL DEF Spec

LEMMA Promised == IInv => TypeOK /\ Joined /\ NoCallAlone
<1> SUFFICES ASSUME IInv PROVE TypeOK /\ Joined /\ NoCallAlone
  OBVIOUS
<1>1. TypeOK
  BY TypesHold DEF IInv
<1>2. \A b \in Browsers : JoinedAt(b) /\ NotAloneAt(b)
  BY DEF IInv, Asking, Heard
<1>3. Joined
  BY <1>2 DEF Joined, JoinedAt
<1>4. NoCallAlone
  BY <1>2 DEF NoCallAlone, PeerThere, NotAloneAt, There, Hearing
<1> QED
  BY <1>1, <1>3, <1>4

-----------------------------------------------------------------------------
\* The state of the hub, of the wire and of both pages keeps its types; nothing
\* is awaited of a connection of WebRTC that was closed, and who has joined on a
\* connection of the server (Client.RoomID) is a participant of the room as long as
\* the handlers of the server (hub.go:100-214) keep together.
THEOREM TypeCorrect == Spec => []TypeOK
BY RoomInv, Promised, PTL

\* A page that waits or talks has joined or its join is on the way (joinRoom of
\* useRoom.ts, on the socket that RoomPage opened for it), unless its socket was
\* lost or it is the refreshed page of a lobby call. The handlers of the server may
\* interleave.
THEOREM EverybodyJoins == Spec => []Joined
BY RoomInv, Promised, PTL

\* Who is in a call has the other one in the room or is about to hear that he
\* left (handleJoin and HandleDisconnect of the hub against onPeerJoined and
\* onPeerLeft of useRoom.ts), for any number of reloads, losses, leaves and
\* restarts, and wherever the handlers of the server are when they interleave: but
\* for those the hub misled, when the peer it announces was lost since it looked,
\* or when the late end of an old connection took the entry of a new one.
THEOREM NobodyTalksAlone == Spec => []NoCallAlone
BY RoomInv, Promised, PTL

-----------------------------------------------------------------------------
(* The two ends of a call: what is under way                               *)

\* What b's page has sent and o's has not heard, with what the server says to o.
Way(b, o) == toClient[o] \o toServer[b]
Mail == ToServer \cup ToClient

\* An operation that adds a candidate, for itself or after an answer, holds up
\* nothing; all others belong to an exchange.
Core(op) == ~(op.do = "addIce" /\ op.task \in {"ice", "answer"})
Drain(op) == op.do = "addIce" /\ op.task # "ice"

\* The operations of exchanges in a chain s: at k, at k and m, or none (0).
Cores(s, k, m) ==
    /\ k \in 0..Len(s) /\ m \in 0..Len(s) /\ (m # 0 => k # 0 /\ k < m)
    /\ \A x \in 1..Len(s) : Core(s[x]) <=> x = k \/ x = m

\* Queued candidates are being added, at the head of the chain, to the remote
\* description d; else none is queued.
Tidy(s, q, d) ==
    /\ \A x \in 1..Len(s) : Drain(s[x]) => x = 1 /\ s[x].rest = <<>> /\ s[x].d = d
    /\ q = <<>> \/ (s # <<>> /\ Drain(s[1]))

\* All on a way are candidates, but for the one at i, if there is one.
Ices(w, i) == i \in 0..Len(w) /\ \A x \in 1..Len(w) : x # i => w[x].type = "ice"

\* An end with a remote description: what waits for it, and what comes to it.
Side(p, s, q, w, i, k, m) ==
    /\ p # None /\ Remote(p) # None
    /\ Cores(s, k, m) /\ Tidy(s, q, Remote(p)) /\ Ices(w, i)

\* The candidate of d follows a description that is at i on the way w, or at k in
\* the chain s, or set already.
Comes(w, i, s, k, added, d) ==
    \/ \E x \in 1..Len(w) : x > i /\ w[x] = Msg("ice", d)
    \/ i = 0 /\ \E x \in 1..Len(s) : x > k /\ s[x].do = "addIce" /\ s[x].d = d
    \/ i = 0 /\ k = 0 /\ d \in added

\* It is gathered, on its way, or queued: once.
Once(w, q, g, d) ==
    \/ w = <<>> /\ q = <<>> /\ g = d
    \/ w = <<Msg("ice", d)>> /\ q = <<>> /\ g = None
    \/ w = <<>> /\ q = <<d>> /\ g = None

-----------------------------------------------------------------------------
(* The phases of an exchange: an end that offers (p, s, q), one that        *)
(* answers (P, S, Q), and the ways v and w between them                     *)

\* A candidate of the offer is still to be gathered: also before the offer is set.
ToGather(p, d) == p.sig = "stable" \/ p.gather = d

\* The offer d is set and not answered, or it is made and sent, and about to be set.
Offered(p, s, k, d) ==
    \/ p.sig = "local" /\ p.pending = d /\ k = 0
    \/ /\ p.sig = "stable" /\ p.offer = d
       /\ k # 0 /\ s[k].do = "setLocalOffer" /\ s[k].task = "restart" /\ s[k].d = d

\* The offer is answered step by step.
Answering(P, op, d) ==
    /\ P.sig = "remote" /\ P.pending = d
    /\ op.task \in {"fresh", "existing"}
    /\ \/ op.do \in {"addIce", "createAnswer"}
       \/ op.do = "setLocalAnswer" /\ op.d = P.answer /\ P.answer # None

Answered(P, d, a) == P.sig = "stable" /\ P.local = a /\ P.remote = d

AnswerOp(a) == Op("setRemoteAnswer", "answer", a)

\* The answering end while it answers, and when it has.
AnswersAt(p, P, S, Q, v, d, K) ==
    /\ Side(P, S, Q, v, 0, K, 0) /\ K # 0 /\ Answering(P, S[K], d)
    /\ ToGather(p, d) \/ Comes(v, 0, S, 0, P.added, d)

HasAnswered(p, P, S, Q, v, d, a) ==
    /\ Side(P, S, Q, v, 0, 0, 0) /\ Answered(P, d, a)
    /\ ToGather(p, d) \/ Comes(v, 0, S, 0, P.added, d)

(* The first exchange: the end that offers has no remote description.      *)

NoOffer(m) == m.type \notin {"offer", "offerer"}

FirstSent(p, v, d) ==
    \E j \in 1..Len(v) :
        /\ v[j] = Msg("offer", d) /\ \A x \in 1..Len(v) : x < j => NoOffer(v[x])
        /\ \/ j = Len(v) /\ p.gather = d
           \/ j + 1 = Len(v) /\ v[j + 1] = Msg("ice", d) /\ p.gather = None

FirstAnswerSent(P, w, a) ==
    \/ w = <<Msg("answer", a)>> /\ P.gather = a
    \/ w = <<Msg("answer", a), Msg("ice", a)>> /\ P.gather = None

Unanswered(p, d) == p # None /\ p.remote = None /\ p.sig = "local" /\ p.pending = d

First(p, s, q, P, S, Q, v, w, d) ==
    /\ Unanswered(p, d)
    /\ \/ /\ s = <<>> /\ q = <<>> /\ w = <<>>
          /\ \/ P = None /\ FirstSent(p, v, d)
             \/ P = NewPC /\ S = <<Op("setRemoteOffer", "fresh", d)>> /\ Once(v, Q, p.gather, d)
             \/ P # None /\ P.gather = None /\ \E K \in Nat : AnswersAt(p, P, S, Q, v, d, K)
       \/ \E a \in Desc :
            /\ HasAnswered(p, P, S, Q, v, d, a)
            /\ \/ s = <<>> /\ q = <<>> /\ FirstAnswerSent(P, w, a)
               \/ s = <<AnswerOp(a)>> /\ Once(w, q, P.gather, a)

(* Later ones, after an ICE restart.                                       *)

Sent(p, s, q, P, S, Q, v, w, d) ==
    \E j, k \in Nat :
        /\ Side(p, s, q, w, 0, k, 0) /\ Offered(p, s, k, d)
        /\ Side(P, S, Q, v, j, 0, 0) /\ P.sig = "stable"
        /\ j # 0 /\ v[j] = Msg("offer", d)
        /\ ToGather(p, d) \/ Comes(v, j, S, 0, P.added, d)

Taken(p, s, q, P, S, Q, v, w, d) ==
    \E k, K \in Nat :
        /\ Side(p, s, q, w, 0, k, 0) /\ Offered(p, s, k, d)
        /\ Side(P, S, Q, v, 0, K, 0) /\ P.sig = "stable"
        /\ K # 0 /\ S[K] = Op("setRemoteOffer", "existing", d)
        /\ ToGather(p, d) \/ Comes(v, 0, S, K, P.added, d)

BeingAnswered(p, s, q, P, S, Q, v, w, d) ==
    \E k, K \in Nat :
        /\ Side(p, s, q, w, 0, k, 0) /\ Offered(p, s, k, d)
        /\ AnswersAt(p, P, S, Q, v, d, K)

AnswerSent(p, s, q, P, S, Q, v, w, d, a) ==
    \E i, k \in Nat :
        /\ Side(p, s, q, w, i, k, 0) /\ Offered(p, s, k, d)
        /\ HasAnswered(p, P, S, Q, v, d, a)
        /\ i # 0 /\ w[i] = Msg("answer", a)
        /\ P.gather = a \/ Comes(w, i, s, 0, p.added, a)

AnswerTaken(p, s, q, P, S, Q, v, w, d, a) ==
    \E k, m \in Nat :
        /\ Side(p, s, q, w, 0, k, m)
        /\ HasAnswered(p, P, S, Q, v, d, a)
        /\ \/ /\ p.sig = "local" /\ p.pending = d /\ k # 0 /\ m = 0 /\ s[k] = AnswerOp(a)
              /\ P.gather = a \/ Comes(w, 0, s, k, p.added, a)
           \/ /\ p.sig = "stable" /\ Offered(p, s, k, d) /\ m # 0 /\ s[m] = AnswerOp(a)
              /\ P.gather = a \/ Comes(w, 0, s, m, p.added, a)

\* Both are done.
Fit(p, s, q, P, S, Q, v, w) ==
    /\ Side(p, s, q, w, 0, 0, 0) /\ Side(P, S, Q, v, 0, 0, 0)
    /\ p.sig = "stable" /\ P.sig = "stable" /\ p.local # None /\ P.local # None
    /\ p.local = P.remote /\ P.local = p.remote
    /\ p.gather = p.local \/ Comes(v, 0, S, 0, P.added, p.local)
    /\ P.gather = P.local \/ Comes(w, 0, s, 0, p.added, P.local)

\* An ICE restart makes a new offer.
Again(p, s, q, P, S, Q, v, w) ==
    \E k \in Nat :
        /\ Side(p, s, q, w, 0, k, 0) /\ Side(P, S, Q, v, 0, 0, 0)
        /\ p.sig = "stable" /\ P.sig = "stable"
        /\ k # 0 /\ s[k] = Op("createOffer", "restart", None)

Exchange(p, s, q, P, S, Q, v, w) ==
    \/ Fit(p, s, q, P, S, Q, v, w)
    \/ Again(p, s, q, P, S, Q, v, w)
    \/ \E d \in Desc :
        \/ First(p, s, q, P, S, Q, v, w, d)
        \/ Sent(p, s, q, P, S, Q, v, w, d)
        \/ Taken(p, s, q, P, S, Q, v, w, d)
        \/ BeingAnswered(p, s, q, P, S, Q, v, w, d)
        \/ \E a \in Desc :
            \/ AnswerSent(p, s, q, P, S, Q, v, w, d, a)
            \/ AnswerTaken(p, s, q, P, S, Q, v, w, d, a)

-----------------------------------------------------------------------------
(* The phases before                                                       *)

\* r is about to hear that he offers, and o begins anew.
Announcing(r, o) ==
    /\ pc[o] = None /\ toServer[o] = <<>>
    /\ toClient[r] # <<>> /\ toClient[r][Len(toClient[r])].type = "offerer"
    /\ \A x \in 1..Len(toClient[o]) : NoOffer(toClient[o][x])

\* He makes his offer, on a new connection.
StartOp == Op("createOffer", "start", None)
Starting(r, o) ==
    /\ pc[o] = None /\ Way(o, r) = <<>> /\ queue[r] = <<>>
    /\ \A x \in 1..Len(Way(r, o)) : NoOffer(Way(r, o)[x])
    /\ \/ pc[r] = NewPC /\ ops[r] = <<StartOp>>
       \/ \E d \in Desc :
            /\ pc[r] = [NewPC EXCEPT !.offer = d]
            /\ ops[r] = <<Then(StartOp, "setLocalOffer", d)>>

\* The two are in the exchanges.
Exchanging(r, o) ==
    Exchange(pc[r], ops[r], queue[r], pc[o], ops[o], queue[o], Way(r, o), Way(o, r))

InPhase(r, o) == Announcing(r, o) \/ Starting(r, o) \/ Exchanging(r, o)

\* Two pages in the room are in one of the phases, the one or the other as the
\* end that offers.
Phased ==
    ~crossed /\ (\A b \in Browsers : listed[b]) => \E r \in Browsers : InPhase(r, Other(r))

\* Who joins begins anew,
JoinsAlone(b) ==
    \A i \in 1..Len(toServer[b]) :
        toServer[b][i].type = "join" => Len(toServer[b]) = 1 /\ pc[b] = None

\* and no offer comes to who has not joined.
Unoffered(b) == ~listed[b] => \A i \in 1..Len(toClient[b]) : toClient[b][i].type # "offer"

Beginning(b) == JoinsAlone(b) /\ Unoffered(b)

\* When both are there, each takes part, or is about to hear that he does.
Told(b) ==
    listed[b] /\ listed[Other(b)] =>
        \/ InCall(b) /\ ~Has(toClient[b], "left")
        \/ \E i \in 1..Len(toClient[b]) :
            /\ toClient[b][i].type \in {"offerer", "answerer"}
            /\ \A x \in 1..Len(toClient[b]) : x > i => toClient[b][x].type # "left"

\* The inductive invariant of the call, as long as the handlers keep together.
DInv ==
    /\ IInv /\ ~astray
    /\ ~crossed => \A b \in Browsers : Beginning(b)
    /\ \A b \in Browsers : Told(b)
    /\ Phased

-----------------------------------------------------------------------------
(* Chains and ways                                                         *)

LEMMA Appended ==
    ASSUME NEW S, NEW s \in Seq(S), NEW x \in S
    PROVE  /\ Append(s, x) \in Seq(S) /\ Len(s) \in Nat /\ Len(Append(s, x)) = Len(s) + 1
           /\ \A i \in 1..Len(s) : Append(s, x)[i] = s[i]
           /\ Append(s, x)[Len(s) + 1] = x /\ Append(s, x) # <<>>
BY AppendProperties, LenProperties

LEMMA Tailed ==
    ASSUME NEW S, NEW s \in Seq(S), s # <<>>
    PROVE  /\ Tail(s) \in Seq(S) /\ Len(s) \in Nat /\ Len(s) >= 1 /\ Len(Tail(s)) = Len(s) - 1
           /\ \A i \in 1..Len(Tail(s)) : Tail(s)[i] = s[i + 1] /\ i + 1 \in 1..Len(s)
           /\ Head(s) = s[1] /\ s[1] \in S /\ 1 \in 1..Len(s)
           /\ \A i \in 2..Len(s) : i - 1 \in 1..Len(Tail(s)) /\ Tail(s)[i - 1] = s[i]
<1>1. /\ Tail(s) \in Seq(S) /\ Len(s) \in Nat /\ Len(s) >= 1 /\ Len(Tail(s)) = Len(s) - 1
      /\ Head(s) = s[1] /\ s[1] \in S
  BY HeadTailProperties, LenProperties, EmptySeq
<1>2. \A i \in 1..Len(Tail(s)) : Tail(s)[i] = s[i + 1] /\ i + 1 \in 1..Len(s)
  BY <1>1, HeadTailProperties
<1>3. ASSUME NEW i \in 2..Len(s) PROVE i - 1 \in 1..Len(Tail(s)) /\ Tail(s)[i - 1] = s[i]
  <2>1. i - 1 \in 1..Len(Tail(s)) /\ (i - 1) + 1 = i
    BY <1>1
  <2> QED
    BY <1>2, <2>1
<1> QED
  BY <1>1, <1>2, <1>3

\* A place in a queue when its first is gone.
Less(k) == IF k = 0 THEN 0 ELSE k - 1

\* What was there is where it was, or one before.
LEMMA Stays ==
    ASSUME NEW S, NEW s \in Seq(S), NEW x \in S, NEW k \in 1..Len(s)
    PROVE  Append(s, x)[k] = s[k]
BY Appended

LEMMA Shifts ==
    ASSUME NEW S, NEW s \in Seq(S), s # <<>>, NEW k \in 1..Len(s), k # 1
    PROVE  Tail(s)[Less(k)] = s[k] /\ Less(k) \in 1..Len(Tail(s))
<1>1. k \in 2..Len(s) /\ Less(k) = k - 1
  BY Tailed DEF Less
<1> QED
  BY <1>1, Tailed

\* One more operation: one that adds a candidate, or one of an exchange.
LEMMA CoresMore ==
    ASSUME NEW s \in Seq(Steps), NEW x \in Steps, NEW t \in Seq(Steps), t = Append(s, x), ~Core(x),
           NEW k \in Nat, NEW m \in Nat, Cores(s, k, m)
    PROVE  Cores(t, k, m)
<1>1. /\ Len(s) \in Nat /\ Len(t) = Len(s) + 1 /\ t[Len(s) + 1] = x
      /\ \A i \in 1..Len(s) : t[i] = s[i]
  BY Appended
<1>2. k \in 0..Len(s) /\ m \in 0..Len(s) /\ k \in 0..Len(t) /\ m \in 0..Len(t)
  BY <1>1 DEF Cores
<1>3. \A i \in 1..Len(t) : i \in 1..Len(s) \/ (t[i] = x /\ i # k /\ i # m)
  BY <1>1, <1>2
<1>4. \A i \in 1..Len(t) : Core(t[i]) <=> i = k \/ i = m
  BY <1>1, <1>3 DEF Cores
<1> QED
  BY <1>1, <1>2, <1>4 DEF Cores

LEMMA CoresAsk ==
    ASSUME NEW s \in Seq(Steps), NEW x \in Steps, NEW t \in Seq(Steps), t = Append(s, x), Core(x),
           NEW k \in Nat, Cores(s, k, 0)
    PROVE  /\ t[Len(t)] = x /\ Len(t) \in Nat /\ Len(t) # 0
           /\ k = 0 => Cores(t, Len(t), 0)
           /\ k # 0 => Cores(t, k, Len(t))
<1>1. /\ Len(s) \in Nat /\ Len(t) = Len(s) + 1 /\ t[Len(s) + 1] = x
      /\ \A i \in 1..Len(s) : t[i] = s[i]
  BY Appended
<1>2. \A i \in 1..Len(t) : i \in 1..Len(s) \/ i = Len(t)
  BY <1>1
<1>3. k \in 0..Len(s) /\ k < Len(t) /\ Len(t) \in 0..Len(t) /\ Len(t) # 0 /\ 0 \in 0..Len(t)
      /\ k \in 0..Len(t) /\ Len(t) \notin 1..Len(s)
  BY <1>1 DEF Cores
<1>4. k = 0 => Cores(t, Len(t), 0)
  BY <1>1, <1>2, <1>3 DEF Cores
<1>5. k # 0 => Cores(t, k, Len(t))
  BY <1>1, <1>2, <1>3 DEF Cores
<1> QED
  BY <1>1, <1>3, <1>4, <1>5

\* The first operation is done.
LEMMA CoresPop ==
    ASSUME NEW s \in Seq(Steps), s # <<>>, NEW t \in Seq(Steps), t = Tail(s), ~Core(s[1]),
           NEW k \in Nat, NEW m \in Nat, Cores(s, k, m)
    PROVE  Cores(t, Less(k), Less(m)) /\ k # 1 /\ m # 1
<1>1. /\ Len(s) \in Nat /\ Len(s) >= 1 /\ Len(t) = Len(s) - 1 /\ 1 \in 1..Len(s)
      /\ \A i \in 1..Len(t) : t[i] = s[i + 1] /\ i + 1 \in 1..Len(s)
      /\ \A i \in 2..Len(s) : i - 1 \in 1..Len(t) /\ t[i - 1] = s[i]
  BY Tailed
<1>2. k # 1 /\ m # 1 /\ k \in 0..Len(s) /\ m \in 0..Len(s) /\ (m # 0 => k # 0 /\ k < m)
  BY <1>1 DEF Cores
<1>3. /\ Less(k) \in 0..Len(t) /\ Less(m) \in 0..Len(t)
      /\ Less(m) # 0 => Less(k) # 0 /\ Less(k) < Less(m)
  BY <1>1, <1>2 DEF Less
<1>4. \A i \in 1..Len(t) : (i = Less(k) <=> i + 1 = k) /\ (i = Less(m) <=> i + 1 = m)
  BY <1>1, <1>2 DEF Less
<1>5. \A i \in 1..Len(t) : Core(t[i]) <=> i = Less(k) \/ i = Less(m)
  BY <1>1, <1>4 DEF Cores
<1> QED
  BY <1>2, <1>3, <1>5 DEF Cores

LEMMA CoresDone ==
    ASSUME NEW s \in Seq(Steps), s # <<>>, NEW t \in Seq(Steps), t = Tail(s), Core(s[1]),
           NEW k \in Nat, NEW m \in Nat, Cores(s, k, m)
    PROVE  k = 1 /\ Cores(t, Less(m), 0) /\ m # 1 /\ (m # 0 => Less(m) # 0)
<1>1. /\ Len(s) \in Nat /\ Len(s) >= 1 /\ Len(t) = Len(s) - 1 /\ 1 \in 1..Len(s)
      /\ \A i \in 1..Len(t) : t[i] = s[i + 1] /\ i + 1 \in 1..Len(s)
      /\ \A i \in 2..Len(s) : i - 1 \in 1..Len(t) /\ t[i - 1] = s[i]
  BY Tailed
<1>2. k = 1 /\ m # 1 /\ m \in 0..Len(s)
  BY <1>1 DEF Cores
<1>3. /\ Less(m) \in 0..Len(t) /\ 0 \in 0..Len(t)
      /\ m # 0 => Less(m) # 0
  BY <1>1, <1>2 DEF Less
<1>4. \A i \in 1..Len(t) : (i = Less(m) <=> i + 1 = m) /\ i + 1 # k /\ i # 0
  BY <1>1, <1>2 DEF Less
<1>5. \A i \in 1..Len(t) : Core(t[i]) <=> i = Less(m) \/ i = 0
  BY <1>1, <1>4 DEF Cores
<1> QED
  BY <1>2, <1>3, <1>5 DEF Cores

\* Who waits for nothing has a first operation that is not of an exchange.
LEMMA CoresHead ==
    ASSUME NEW s \in Seq(Steps), s # <<>>, NEW k \in Nat, NEW m \in Nat, Cores(s, k, m)
    PROVE  1 \in 1..Len(s) /\ (Core(s[1]) <=> k = 1)
<1>1. 1 \in 1..Len(s) /\ Len(s) \in Nat
  BY Tailed
<1> QED
  BY <1>1 DEF Cores

LEMMA TidyMore ==
    ASSUME NEW s \in Seq(Steps), NEW x \in Steps, NEW t \in Seq(Steps), t = Append(s, x), ~Drain(x),
           NEW q, NEW d, Tidy(s, q, d)
    PROVE  Tidy(t, q, d)
<1>1. /\ Len(s) \in Nat /\ Len(t) = Len(s) + 1 /\ t[Len(s) + 1] = x /\ t # <<>>
      /\ \A i \in 1..Len(s) : t[i] = s[i]
  BY Appended
<1>2. \A i \in 1..Len(t) : i \in 1..Len(s) \/ t[i] = x
  BY <1>1
<1>3. s # <<>> => 1 \in 1..Len(s)
  BY Tailed
<1> QED
  BY <1>1, <1>2, <1>3 DEF Tidy

LEMMA TidyPop ==
    ASSUME NEW s \in Seq(Steps), s # <<>>, NEW t \in Seq(Steps), t = Tail(s),
           NEW q, NEW d, NEW e, Tidy(s, q, d)
    PROVE  Tidy(t, <<>>, e) /\ (~Drain(s[1]) => q = <<>>)
           /\ \A x \in 1..Len(t) : ~Drain(t[x])
<1>1. /\ Len(s) \in Nat /\ Len(t) = Len(s) - 1 /\ 1 \in 1..Len(s)
      /\ \A i \in 1..Len(t) : t[i] = s[i + 1] /\ i + 1 \in 1..Len(s) /\ i + 1 # 1
  BY Tailed
<1> QED
  BY <1>1 DEF Tidy

\* A message more, or one heard.
LEMMA IcesMore ==
    ASSUME NEW w \in Seq(Mail), NEW x \in Mail, NEW u \in Seq(Mail), u = Append(w, x), NEW i \in Nat,
           Ices(w, i), x.type = "ice"
    PROVE  Ices(u, i)
<1>1. /\ Len(w) \in Nat /\ Len(u) = Len(w) + 1 /\ u[Len(w) + 1] = x
      /\ \A j \in 1..Len(w) : u[j] = w[j]
  BY Appended
<1>2. \A j \in 1..Len(u) : j \in 1..Len(w) \/ u[j] = x
  BY <1>1
<1>3. i \in 0..Len(w) /\ i \in 0..Len(u)
  BY <1>1 DEF Ices
<1> QED
  BY <1>1, <1>2, <1>3 DEF Ices

LEMMA IcesSent ==
    ASSUME NEW w \in Seq(Mail), NEW x \in Mail, NEW u \in Seq(Mail), u = Append(w, x), Ices(w, 0)
    PROVE  Ices(u, Len(u)) /\ Len(u) \in Nat /\ Len(u) # 0 /\ u[Len(u)] = x
<1>1. /\ Len(w) \in Nat /\ Len(u) = Len(w) + 1 /\ u[Len(w) + 1] = x
      /\ \A j \in 1..Len(w) : u[j] = w[j]
  BY Appended
<1>2. \A j \in 1..Len(u) : j \in 1..Len(w) \/ j = Len(u)
  BY <1>1
<1>3. Len(u) \in 0..Len(u) /\ \A j \in 1..Len(w) : j # 0
  BY <1>1
<1> QED
  BY <1>1, <1>2, <1>3 DEF Ices

LEMMA IcesTail ==
    ASSUME NEW w \in Seq(Mail), w # <<>>, NEW u \in Seq(Mail), u = Tail(w), NEW i \in Nat, Ices(w, i)
    PROVE  /\ Ices(u, Less(i)) /\ Less(i) \in Nat /\ (i # 1 => w[1].type = "ice")
           /\ i # 0 /\ i # 1 => Less(i) # 0
<1>1. /\ Len(w) \in Nat /\ Len(u) = Len(w) - 1 /\ 1 \in 1..Len(w)
      /\ \A x \in 1..Len(u) : u[x] = w[x + 1] /\ x + 1 \in 1..Len(w)
      /\ \A x \in 2..Len(w) : x - 1 \in 1..Len(u) /\ u[x - 1] = w[x]
  BY Tailed
<1>2. i \in 0..Len(w)
  BY DEF Ices
<1>3. Less(i) \in 0..Len(u) /\ \A x \in 1..Len(u) : x # Less(i) => x + 1 # i
  BY <1>1, <1>2 DEF Less
<1>4. Ices(u, Less(i))
  BY <1>1, <1>3 DEF Ices
<1> QED
  BY <1>1, <1>2, <1>3, <1>4 DEF Ices, Less

LEMMA IcesNone == Ices(<<>>, 0)
BY EmptySeq DEF Ices

\* The candidate comes: it is gathered, heard, or added.
LEMMA ComesGathered ==
    ASSUME NEW w \in Seq(Mail), NEW d, NEW u \in Seq(Mail), Msg("ice", d) \in Mail,
           u = Append(w, Msg("ice", d)), NEW i \in Nat, Ices(w, i), NEW s, NEW k, NEW added
    PROVE  Comes(u, i, s, k, added, d)
<1>1. PICK x \in Mail : x = Msg("ice", d)
  OBVIOUS
<1>2. Len(w) \in Nat /\ Len(u) = Len(w) + 1 /\ u[Len(w) + 1] = x
  BY <1>1, Appended
<1>3. i < Len(u) /\ Len(u) \in 1..Len(u) /\ u[Len(u)] = x
  BY <1>2 DEF Ices
<1> QED
  BY <1>1, <1>3 DEF Comes

LEMMA ComesMore ==
    ASSUME NEW w \in Seq(Mail), NEW x \in Mail, NEW u \in Seq(Mail), u = Append(w, x),
           NEW i, NEW s, NEW k, NEW added, NEW d, Comes(w, i, s, k, added, d)
    PROVE  Comes(u, i, s, k, added, d)
<1>1. \A j \in 1..Len(w) : u[j] = w[j] /\ j \in 1..Len(u)
  BY Appended
<1> QED
  BY <1>1 DEF Comes

\* A candidate is heard, and asked to be added.
LEMMA ComesHeard ==
    ASSUME NEW w \in Seq(Mail), w # <<>>, NEW u \in Seq(Mail), u = Tail(w), NEW i \in Nat, Ices(w, i), i # 1,
           NEW s \in Seq(Steps), NEW x \in Steps, NEW t \in Seq(Steps), t = Append(s, x),
           x.do = "addIce", \A d : w[1] = Msg("ice", d) => x.d = d,
           NEW k \in Nat, k \in 0..Len(s), NEW added, NEW d, Comes(w, i, s, k, added, d)
    PROVE  Comes(u, Less(i), t, k, added, d)
<1>1. /\ Len(w) \in Nat /\ Len(u) = Len(w) - 1 /\ 1 \in 1..Len(w)
      /\ \A y \in 2..Len(w) : y - 1 \in 1..Len(u) /\ u[y - 1] = w[y]
  BY Tailed
<1>2. /\ Len(s) \in Nat /\ Len(t) = Len(s) + 1 /\ t[Len(t)] = x /\ Len(t) \in 1..Len(t) /\ k < Len(t)
      /\ \A y \in 1..Len(s) : t[y] = s[y] /\ y \in 1..Len(t)
  BY Appended
<1>3. i \in 0..Len(w) /\ (Less(i) = 0 <=> i = 0)
  BY <1>1 DEF Ices, Less
<1>4. CASE \E y \in 1..Len(w) : y > i /\ w[y] = Msg("ice", d)
  <2>1. PICK y \in 1..Len(w) : y > i /\ w[y] = Msg("ice", d)
    BY <1>4
  <2>2. CASE y = 1
    BY <1>2, <1>3, <2>1, <2>2 DEF Comes
  <2>3. CASE y # 1
    <3>1. y \in 2..Len(w) /\ y - 1 > Less(i)
      BY <1>1, <1>3, <2>1, <2>3 DEF Less
    <3>2. y - 1 \in 1..Len(u) /\ u[y - 1] = Msg("ice", d)
      BY <1>1, <2>1, <3>1
    <3> QED
      BY <3>1, <3>2 DEF Comes
  <2> QED
    BY <2>2, <2>3
<1> QED
  BY <1>2, <1>3, <1>4 DEF Comes

\* A description is heard, and asked to be set.
LEMMA ComesTaken ==
    ASSUME NEW w \in Seq(Mail), w # <<>>, NEW u \in Seq(Mail), u = Tail(w),
           NEW s, NEW t, NEW k \in Nat, NEW added, NEW d, Comes(w, 1, s, 0, added, d)
    PROVE  Comes(u, 0, t, k, added, d)
<1>1. /\ Len(w) \in Nat /\ Len(u) = Len(w) - 1 /\ 1 \in 1..Len(w)
      /\ \A y \in 2..Len(w) : y - 1 \in 1..Len(u) /\ u[y - 1] = w[y]
  BY Tailed
<1>2. CASE \E y \in 1..Len(w) : y > 1 /\ w[y] = Msg("ice", d)
  <2>1. PICK y \in 1..Len(w) : y > 1 /\ w[y] = Msg("ice", d)
    BY <1>2
  <2>2. y \in 2..Len(w) /\ y - 1 > 0
    BY <1>1, <2>1
  <2> QED
    BY <1>1, <2>1, <2>2 DEF Comes
<1> QED
  BY <1>2 DEF Comes

\* A candidate is added, or the description it waits for was set first.
LEMMA ComesAdded ==
    ASSUME NEW s \in Seq(Steps), s # <<>>, NEW t \in Seq(Steps), t = Tail(s), NEW w, NEW i \in Nat,
           NEW k \in Nat, k \in 0..Len(s), NEW added, NEW more, added \subseteq more, NEW d, NEW g,
           Comes(w, i, s, k, added, d),
           k # 0 \/ i # 0 \/ (s[1].do = "addIce" /\ s[1].d = d => d \in more)
    PROVE  Comes(w, i, t, Less(k), more, d)
<1>1. /\ Len(s) \in Nat /\ Len(t) = Len(s) - 1 /\ 1 \in 1..Len(s)
      /\ \A y \in 2..Len(s) : y - 1 \in 1..Len(t) /\ t[y - 1] = s[y]
  BY Tailed
<1>2. CASE i = 0 /\ \E y \in 1..Len(s) : y > k /\ s[y].do = "addIce" /\ s[y].d = d
  <2>1. PICK y \in 1..Len(s) : y > k /\ s[y].do = "addIce" /\ s[y].d = d
    BY <1>2
  <2>2. CASE y = 1
    <3>1. k = 0 /\ Less(k) = 0
      BY <2>1, <2>2 DEF Less
    <3> QED
      BY <1>2, <2>1, <2>2, <3>1 DEF Comes
  <2>3. CASE y # 1
    <3>1. y \in 2..Len(s) /\ y - 1 > Less(k)
      BY <1>1, <2>1, <2>3 DEF Less
    <3>2. y - 1 \in 1..Len(t) /\ t[y - 1] = s[y]
      BY <1>1, <3>1
    <3> QED
      BY <1>2, <2>1, <3>1, <3>2 DEF Comes
  <2> QED
    BY <2>2, <2>3
<1>3. Less(0) = 0
  BY DEF Less
<1> QED
  BY <1>2, <1>3 DEF Comes

\* More is asked for.
LEMMA ComesAsked ==
    ASSUME NEW s \in Seq(Steps), NEW x \in Steps, NEW t \in Seq(Steps), t = Append(s, x),
           NEW w, NEW i \in Nat, NEW k \in Nat, NEW added, NEW d, Comes(w, i, s, k, added, d)
    PROVE  Comes(w, i, t, k, added, d)
<1>1. /\ Len(s) \in Nat /\ Len(t) = Len(s) + 1
      /\ \A y \in 1..Len(s) : t[y] = s[y] /\ y \in 1..Len(t)
  BY Appended
<1> QED
  BY <1>1 DEF Comes

-----------------------------------------------------------------------------
(* The little steps of an end: a candidate is gathered, heard, or added,   *)
(* and no description moves                                                *)

Same(p, n) ==
    /\ n.sig = p.sig /\ n.local = p.local /\ n.remote = p.remote /\ n.pending = p.pending
    /\ n.offer = p.offer /\ n.answer = p.answer /\ p.added \subseteq n.added

\* What becomes of the end (p, s, q) and of the way w to it.
Little(p, s, q, w, n, t, r, u) ==
    /\ Same(p, n)
    /\ \/ t = s /\ r = q /\ u = w
       \/ /\ w # <<>> /\ w[1].type = "ice" /\ u = Tail(w)
          /\ t = Append(s, Op("addIce", "ice", w[1].d)) /\ r = q
       \/ /\ s # <<>> /\ ~Core(s[1]) /\ t = Tail(s) /\ u = w
          /\ s[1].d = Remote(p) => s[1].d \in n.added
          /\ r = q \/ r = <<>>
          /\ s[1].d = Remote(p) /\ Drain(s[1]) => r = <<>>

\* And of the way v from it.
Outgoing(p, v, n, y) ==
    \/ y = v /\ n.gather = p.gather
    \/ p.gather # None /\ n.gather = None /\ y = Append(v, Msg("ice", p.gather))

LEMMA IceOp ==
    ASSUME NEW d
    PROVE  /\ Op("addIce", "ice", d).do = "addIce" /\ Op("addIce", "ice", d).d = d
           /\ ~Core(Op("addIce", "ice", d)) /\ ~Drain(Op("addIce", "ice", d))
BY DEF Op, Core, Drain

\* What is kept: the operations and descriptions where they were or one before,
\* and the candidates that are waited for.
Kept(p, s, w, n, t, u, i, k, m, j, l, o) ==
    /\ j = 0 <=> i = 0
    /\ i # 0 => u[j] = w[i]
    /\ l = 0 <=> k = 0
    /\ k # 0 => t[l] = s[k]
    /\ o = 0 <=> m = 0
    /\ m # 0 => t[o] = s[m]
    /\ \A d : i # 0 \/ d = Remote(p) =>
        (Comes(w, i, s, 0, p.added, d) => Comes(u, j, t, 0, n.added, d))
    /\ \A d : k # 0 =>
        (Comes(w, i, s, k, p.added, d) => Comes(u, j, t, l, n.added, d))
    /\ \A d : m # 0 =>
        (Comes(w, i, s, m, p.added, d) => Comes(u, j, t, o, n.added, d))

LEMMA SideLittle ==
    ASSUME NEW p \in PCs, NEW s \in Seq(Steps), NEW q, NEW w \in Seq(Mail),
           NEW n \in PCs, NEW t \in Seq(Steps), NEW r, NEW u \in Seq(Mail),
           Little(p, s, q, w, n, t, r, u), NEW i \in Nat, NEW k \in Nat, NEW m \in Nat, Side(p, s, q, w, i, k, m),
           w # <<>> /\ u = Tail(w) /\ u # w => i # 1
    PROVE  \E j, l, o \in Nat : /\ Side(n, t, r, u, j, l, o)
                                /\ Kept(p, s, w, n, t, u, i, k, m, j, l, o)
<1>0. /\ n # None /\ Remote(n) = Remote(p) /\ Remote(n) # None /\ p.added \subseteq n.added
      /\ Cores(s, k, m) /\ Tidy(s, q, Remote(p)) /\ Ices(w, i)
      /\ i \in Nat /\ k \in Nat /\ m \in Nat /\ k \in 0..Len(s) /\ m \in 0..Len(s) /\ 0 \in 0..Len(s)
  <2>1. Len(s) \in Nat /\ Len(w) \in Nat
    BY LenProperties
  <2> QED
    BY <2>1, NoneAssumption DEF Side, Little, Same, Remote, Cores, Ices
<1>1. CASE t = s /\ r = q /\ u = w
  <2>1. Side(n, t, r, u, i, k, m)
    BY <1>0, <1>1 DEF Side
  <2>2. Kept(p, s, w, n, t, u, i, k, m, i, k, m)
    BY <1>0, <1>1 DEF Kept, Comes
  <2> QED
    BY <1>0, <2>1, <2>2
<1>2. CASE /\ w # <<>> /\ w[1].type = "ice" /\ u = Tail(w)
           /\ t = Append(s, Op("addIce", "ice", w[1].d)) /\ r = q
  <2>1. PICK x : x = Op("addIce", "ice", w[1].d)
    OBVIOUS
  <2>2. x \in Steps /\ x.do = "addIce" /\ x.d = w[1].d /\ ~Core(x) /\ ~Drain(x)
    <3>1. w[1] \in Mail
      BY <1>2, Tailed
    <3>2. w[1].d \in Desc
      BY <1>2, <3>1 DEF Mail, ToServer, ToClient
    <3> QED
      BY <2>1, <3>2, NewTypes, IceOp
  <2>3. Len(u) # Len(w)
    BY <1>2, Tailed
  <2>4. i # 1
    BY <1>2, <2>3
  <2> x \in Steps /\ t = Append(s, x)
    BY <1>2, <2>1, <2>2
  <2>5. Cores(t, k, m) /\ (k # 0 => t[k] = s[k]) /\ (m # 0 => t[m] = s[m])
    <3>1. Cores(s, k, m) /\ ~Core(x)
      BY <1>0, <2>2
    <3>2. Cores(t, k, m)
      BY <3>1, CoresMore
    <3>3. k # 0 => t[k] = s[k]
      BY <1>0, Stays
    <3>4. m # 0 => t[m] = s[m]
      BY <1>0, Stays
    <3> QED
      BY <3>2, <3>3, <3>4
  <2>6. Tidy(t, q, Remote(p))
    <3>1. Tidy(s, q, Remote(p)) /\ ~Drain(x)
      BY <1>0, <2>2
    <3> QED
      BY <3>1, TidyMore
  <2>7. /\ Ices(u, Less(i)) /\ Less(i) \in Nat
        /\ i # 0 => Less(i) # 0 /\ u[Less(i)] = w[i]
    <3>1. w # <<>> /\ u = Tail(w) /\ Ices(w, i)
      BY <1>0, <1>2
    <3>2. Ices(u, Less(i)) /\ Less(i) \in Nat /\ (i # 0 => Less(i) # 0)
      BY <2>4, <3>1, IcesTail
    <3>3. ASSUME i # 0 PROVE u[Less(i)] = w[i]
      <4>1. i \in 1..Len(w)
        BY <1>0, <3>1, <3>3 DEF Ices
      <4> QED
        BY <2>4, <3>1, <4>1, Shifts
    <3> QED
      BY <3>2, <3>3
  <2>8. Less(i) = 0 <=> i = 0
    BY <2>7 DEF Less
  <2>9. \A d : w[1] = Msg("ice", d) => x.d = d
    BY <2>2 DEF Msg
  <2>10. ASSUME NEW y \in {0, k, m}, NEW d, Comes(w, i, s, y, p.added, d)
         PROVE  Comes(u, Less(i), t, y, n.added, d)
    <3>1. y \in Nat /\ y \in 0..Len(s) /\ i # 1 /\ Ices(w, i) /\ w # <<>> /\ u = Tail(w) /\ x.do = "addIce"
      BY <1>0, <1>2, <2>2, <2>4
    <3>2. Comes(u, Less(i), t, y, p.added, d)
      BY <2>9, <2>10, <3>1, ComesHeard
    <3> QED
      BY <1>0, <3>2 DEF Comes
  <2>11. Side(n, t, r, u, Less(i), k, m)
    BY <1>0, <1>2, <2>5, <2>6, <2>7 DEF Side
  <2>12. Kept(p, s, w, n, t, u, i, k, m, Less(i), k, m)
    BY <2>5, <2>7, <2>8, <2>10 DEF Kept
  <2> QED
    BY <1>0, <2>7, <2>11, <2>12
<1>3. CASE /\ s # <<>> /\ ~Core(s[1]) /\ t = Tail(s) /\ u = w
           /\ s[1].d = Remote(p) => s[1].d \in n.added
           /\ r = q \/ r = <<>>
           /\ s[1].d = Remote(p) /\ Drain(s[1]) => r = <<>>
  <2>1. /\ Cores(t, Less(k), Less(m)) /\ k # 1 /\ m # 1
        /\ k # 0 => t[Less(k)] = s[k]
        /\ m # 0 => t[Less(m)] = s[m]
    <3>1. s # <<>> /\ t = Tail(s) /\ ~Core(s[1]) /\ Cores(s, k, m)
      BY <1>0, <1>3
    <3>2. Cores(t, Less(k), Less(m)) /\ k # 1 /\ m # 1
      BY <3>1, CoresPop
    <3>3. ASSUME k # 0 PROVE t[Less(k)] = s[k]
      <4>1. k \in 1..Len(s)
        BY <1>0, <3>3
      <4> QED
        BY <3>1, <3>2, <4>1, Shifts
    <3>4. ASSUME m # 0 PROVE t[Less(m)] = s[m]
      <4>1. m \in 1..Len(s)
        BY <1>0, <3>4
      <4> QED
        BY <3>1, <3>2, <4>1, Shifts
    <3> QED
      BY <3>2, <3>3, <3>4
  <2>2. Tidy(t, <<>>, Remote(n)) /\ (~Drain(s[1]) => q = <<>>)
    BY <1>0, <1>3, TidyPop
  <2>3. 1 \in 1..Len(s)
    BY <1>3, Tailed
  <2>4. r = <<>>
    BY <1>0, <1>3, <2>2, <2>3 DEF Tidy
  <2>5. Less(k) \in Nat /\ Less(m) \in Nat /\ (Less(k) = 0 <=> k = 0) /\ (Less(m) = 0 <=> m = 0)
        /\ Less(0) = 0
    BY <1>0, <2>1 DEF Less
  <2>6. ASSUME NEW y \in {0, k, m}, NEW d, Comes(w, i, s, y, p.added, d),
               y # 0 \/ i # 0 \/ d = Remote(p)
        PROVE  Comes(u, i, t, Less(y), n.added, d)
    <3>1. y \in 0..Len(s)
      BY <1>0
    <3>2. y # 0 \/ i # 0 \/ (s[1].do = "addIce" /\ s[1].d = d => d \in n.added)
      BY <1>3, <2>6
    <3> QED
      BY <1>0, <1>3, <2>6, <3>1, <3>2, ComesAdded
  <2>7. Side(n, t, r, u, i, Less(k), Less(m))
    BY <1>0, <1>3, <2>1, <2>2, <2>4 DEF Side
  <2>8. Kept(p, s, w, n, t, u, i, k, m, i, Less(k), Less(m))
    BY <1>3, <2>1, <2>5, <2>6 DEF Kept
  <2> QED
    BY <1>0, <2>5, <2>7, <2>8
<1> QED
  BY <1>1, <1>2, <1>3 DEF Little

LEMMA SideLittleNone ==
    ASSUME NEW p \in PCs, NEW s \in Seq(Steps), NEW q, NEW w \in Seq(Mail),
           NEW n \in PCs, NEW t \in Seq(Steps), NEW r, NEW u \in Seq(Mail),
           Little(p, s, q, w, n, t, r, u), NEW k \in Nat, NEW m \in Nat, Side(p, s, q, w, 0, k, m)
    PROVE  \E l, o \in Nat : /\ Side(n, t, r, u, 0, l, o)
                             /\ Kept(p, s, w, n, t, u, 0, k, m, 0, l, o)
<1>1. PICK i \in Nat : i = 0
  OBVIOUS
<1>2. i # 1 /\ Side(p, s, q, w, i, k, m)
  BY <1>1
<1>3. PICK j, l, o \in Nat : Side(n, t, r, u, j, l, o) /\ Kept(p, s, w, n, t, u, i, k, m, j, l, o)
  BY <1>2, SideLittle
<1>4. j = 0
  BY <1>1, <1>3 DEF Kept
<1> QED
  BY <1>1, <1>3, <1>4

\* The way to the other end: it has a candidate more, or the same.
LEMMA SideOutgoing ==
    ASSUME NEW p \in PCs, NEW n \in PCs, NEW v \in Seq(Mail), NEW y \in Seq(Mail), Outgoing(p, v, n, y),
           NEW P, NEW S, NEW Q, NEW i \in Nat, NEW k, NEW m, Side(P, S, Q, v, i, k, m)
    PROVE  Side(P, S, Q, y, i, k, m) /\ (i # 0 => y[i] = v[i])
<1>0. Ices(v, i)
  BY DEF Side
<1>1. CASE y = v /\ n.gather = p.gather
  BY <1>1
<1>2. CASE p.gather # None /\ n.gather = None /\ y = Append(v, Msg("ice", p.gather))
  <2>1. PICK x : x = Msg("ice", p.gather)
    OBVIOUS
  <2>2. x \in Mail /\ x.type = "ice"
    <3>1. p.gather \in Desc
      BY <1>2 DEF PCs, Descs
    <3> QED
      BY <2>1, <3>1 DEF Msg, Mail, ToServer, Descs
  <2> x \in Mail /\ y = Append(v, x)
    BY <1>2, <2>1, <2>2
  <2>3. Ices(y, i)
    BY <1>0, <2>2, IcesMore
  <2>4. i # 0 => y[i] = v[i]
    BY <1>0, Stays DEF Ices
  <2> QED
    BY <2>3, <2>4 DEF Side
<1> QED
  BY <1>1, <1>2 DEF Outgoing

LEMMA ComesOutgoing ==
    ASSUME NEW p \in PCs, NEW n \in PCs, NEW v \in Seq(Mail), NEW y \in Seq(Mail), Outgoing(p, v, n, y),
           NEW i \in Nat, Ices(v, i), NEW S, NEW z, NEW A, NEW d,
           p.gather = d \/ Comes(v, i, S, z, A, d)
    PROVE  n.gather = d \/ Comes(y, i, S, z, A, d)
<1>1. CASE y = v /\ n.gather = p.gather
  BY <1>1
<1>2. CASE p.gather # None /\ n.gather = None /\ y = Append(v, Msg("ice", p.gather))
  <2>1. PICK x : x = Msg("ice", p.gather)
    OBVIOUS
  <2>2. x \in Mail
    <3>1. p.gather \in Desc
      BY <1>2 DEF PCs, Descs
    <3> QED
      BY <2>1, <3>1 DEF Msg, Mail, ToServer, Descs
  <2> x \in Mail /\ y = Append(v, x)
    BY <1>2, <2>1, <2>2
  <2>6. ASSUME Comes(v, i, S, z, A, d) PROVE Comes(y, i, S, z, A, d)
    BY <2>6, ComesMore
  <2>7. ASSUME p.gather = d PROVE Comes(y, i, S, z, A, d)
    <3>1. Msg("ice", d) \in Mail /\ y = Append(v, Msg("ice", d))
      BY <2>1, <2>2, <2>7
    <3> QED
      BY <3>1, ComesGathered
  <2> QED
    BY <2>6, <2>7
<1> QED
  BY <1>1, <1>2 DEF Outgoing

LEMMA OfferOutgoing ==
    ASSUME NEW p \in PCs, NEW n \in PCs, NEW v \in Seq(Mail), NEW y \in Seq(Mail), Outgoing(p, v, n, y),
           n.sig = p.sig, NEW i \in Nat, Ices(v, i), NEW S, NEW z, NEW A, NEW d,
           ToGather(p, d) \/ Comes(v, i, S, z, A, d)
    PROVE  ToGather(n, d) \/ Comes(y, i, S, z, A, d)
<1>1. CASE p.sig = "stable"
  BY <1>1 DEF ToGather
<1>2. CASE p.sig # "stable"
  <2>1. p.gather = d \/ Comes(v, i, S, z, A, d)
    BY <1>2 DEF ToGather
  <2>2. n.gather = d \/ Comes(y, i, S, z, A, d)
    BY <2>1, ComesOutgoing
  <2> QED
    BY <2>2 DEF ToGather
<1> QED
  BY <1>1, <1>2

\* What the phases say of each end, after a little step of it or of the other.
LEMMA OfferedKept ==
    ASSUME NEW p, NEW n, Same(p, n), NEW s, NEW t, NEW k, NEW l, NEW d,
           l = 0 <=> k = 0, k # 0 => t[l] = s[k], Offered(p, s, k, d)
    PROVE  Offered(n, t, l, d)
BY DEF Same, Offered

LEMMA AnswersAtLittle ==
    ASSUME NEW p, NEW P \in PCs, NEW S \in Seq(Steps), NEW Q, NEW v \in Seq(Mail),
           NEW N \in PCs, NEW T \in Seq(Steps), NEW R, NEW u \in Seq(Mail),
           Little(P, S, Q, v, N, T, R, u), NEW d, NEW K \in Nat, AnswersAt(p, P, S, Q, v, d, K)
    PROVE  \E L \in Nat : AnswersAt(p, N, T, R, u, d, L)
<1>1. /\ Side(P, S, Q, v, 0, K, 0) /\ K # 0 /\ Answering(P, S[K], d)
      /\ ToGather(p, d) \/ Comes(v, 0, S, 0, P.added, d)
  BY DEF AnswersAt
<1>2. PICK l, o \in Nat : Side(N, T, R, u, 0, l, o) /\ Kept(P, S, v, N, T, u, 0, K, 0, 0, l, o)
  BY <1>1, SideLittleNone
<1>3. o = 0 /\ l # 0 /\ T[l] = S[K]
  BY <1>1, <1>2 DEF Kept
<1>4. d = Remote(P)
  BY <1>1 DEF Answering, Remote
<1>5. ToGather(p, d) \/ Comes(u, 0, T, 0, N.added, d)
  BY <1>1, <1>2, <1>3, <1>4 DEF Kept
<1>6. Answering(N, T[l], d)
  <2>1. Same(P, N)
    BY DEF Little
  <2> QED
    BY <1>1, <1>3, <2>1 DEF Answering, Same
<1> QED
  BY <1>2, <1>3, <1>5, <1>6 DEF AnswersAt

LEMMA HasAnsweredLittle ==
    ASSUME NEW p, NEW P \in PCs, NEW S \in Seq(Steps), NEW Q, NEW v \in Seq(Mail),
           NEW N \in PCs, NEW T \in Seq(Steps), NEW R, NEW u \in Seq(Mail),
           Little(P, S, Q, v, N, T, R, u), NEW d, NEW a, HasAnswered(p, P, S, Q, v, d, a)
    PROVE  HasAnswered(p, N, T, R, u, d, a)
<1>1. /\ Side(P, S, Q, v, 0, 0, 0) /\ Answered(P, d, a)
      /\ ToGather(p, d) \/ Comes(v, 0, S, 0, P.added, d)
  BY DEF HasAnswered
<1>2. PICK l, o \in Nat : Side(N, T, R, u, 0, l, o) /\ Kept(P, S, v, N, T, u, 0, 0, 0, 0, l, o)
  BY <1>1, SideLittleNone
<1>3. o = 0 /\ l = 0
  BY <1>2 DEF Kept
<1>4. d = Remote(P)
  BY <1>1 DEF Answered, Remote
<1>5. ToGather(p, d) \/ Comes(u, 0, T, 0, N.added, d)
  BY <1>1, <1>2, <1>3, <1>4 DEF Kept
<1>6. Answered(N, d, a)
  <2>1. Same(P, N)
    BY DEF Little
  <2> QED
    BY <1>1, <2>1 DEF Answered, Same
<1> QED
  BY <1>2, <1>3, <1>5, <1>6 DEF HasAnswered

LEMMA AnswersAtOutgoing ==
    ASSUME NEW p \in PCs, NEW n \in PCs, NEW v \in Seq(Mail), NEW y \in Seq(Mail),
           Outgoing(p, v, n, y), n.sig = p.sig, NEW P, NEW S, NEW Q, NEW d, NEW K \in Nat,
           AnswersAt(p, P, S, Q, v, d, K)
    PROVE  AnswersAt(n, P, S, Q, y, d, K)
<1>1. Side(P, S, Q, v, 0, K, 0) /\ Ices(v, 0) /\ (ToGather(p, d) \/ Comes(v, 0, S, 0, P.added, d))
  BY DEF AnswersAt, Side
<1>2. Side(P, S, Q, y, 0, K, 0)
  BY <1>1, SideOutgoing
<1>3. ToGather(n, d) \/ Comes(y, 0, S, 0, P.added, d)
  BY <1>1, OfferOutgoing
<1> QED
  BY <1>2, <1>3 DEF AnswersAt

LEMMA HasAnsweredOutgoing ==
    ASSUME NEW p \in PCs, NEW n \in PCs, NEW v \in Seq(Mail), NEW y \in Seq(Mail),
           Outgoing(p, v, n, y), n.sig = p.sig, NEW P, NEW S, NEW Q, NEW d, NEW a,
           HasAnswered(p, P, S, Q, v, d, a)
    PROVE  HasAnswered(n, P, S, Q, y, d, a)
<1>1. Side(P, S, Q, v, 0, 0, 0) /\ Ices(v, 0) /\ (ToGather(p, d) \/ Comes(v, 0, S, 0, P.added, d))
  BY DEF HasAnswered, Side
<1>2. Side(P, S, Q, y, 0, 0, 0)
  BY <1>1, SideOutgoing
<1>3. ToGather(n, d) \/ Comes(y, 0, S, 0, P.added, d)
  BY <1>1, OfferOutgoing
<1> QED
  BY <1>2, <1>3 DEF HasAnswered

-----------------------------------------------------------------------------
(* A little step of the end that offers                                    *)

LEMMA SentOffererLittle ==
    ASSUME NEW p \in PCs, NEW s \in Seq(Steps), NEW q, NEW w \in Seq(Mail), NEW v \in Seq(Mail),
           NEW n \in PCs, NEW t \in Seq(Steps), NEW r, NEW u \in Seq(Mail), NEW y \in Seq(Mail),
           Little(p, s, q, w, n, t, r, u), Outgoing(p, v, n, y), NEW P, NEW S, NEW Q, NEW d,
           Sent(p, s, q, P, S, Q, v, w, d)
    PROVE  Sent(n, t, r, P, S, Q, y, u, d)
<1>1. PICK j, k \in Nat :
        /\ Side(p, s, q, w, 0, k, 0) /\ Offered(p, s, k, d)
        /\ Side(P, S, Q, v, j, 0, 0) /\ P.sig = "stable"
        /\ j # 0 /\ v[j] = Msg("offer", d)
        /\ ToGather(p, d) \/ Comes(v, j, S, 0, P.added, d)
  BY DEF Sent
<1>2. PICK l, o \in Nat : Side(n, t, r, u, 0, l, o) /\ Kept(p, s, w, n, t, u, 0, k, 0, 0, l, o)
  BY <1>1, SideLittleNone
<1>3. o = 0 /\ (l = 0 <=> k = 0) /\ (k # 0 => t[l] = s[k]) /\ Same(p, n)
  BY <1>2 DEF Kept, Little
<1>4. Offered(n, t, l, d)
  BY <1>1, <1>3, OfferedKept
<1>5. Side(P, S, Q, y, j, 0, 0) /\ y[j] = v[j]
  BY <1>1, SideOutgoing
<1>6. Ices(v, j) /\ n.sig = p.sig
  BY <1>1, <1>3 DEF Side, Same
<1>7. ToGather(n, d) \/ Comes(y, j, S, 0, P.added, d)
  BY <1>1, <1>6, OfferOutgoing
<1> QED
  BY <1>1, <1>2, <1>3, <1>4, <1>5, <1>7 DEF Sent

LEMMA TakenOffererLittle ==
    ASSUME NEW p \in PCs, NEW s \in Seq(Steps), NEW q, NEW w \in Seq(Mail), NEW v \in Seq(Mail),
           NEW n \in PCs, NEW t \in Seq(Steps), NEW r, NEW u \in Seq(Mail), NEW y \in Seq(Mail),
           Little(p, s, q, w, n, t, r, u), Outgoing(p, v, n, y), NEW P, NEW S, NEW Q, NEW d,
           Taken(p, s, q, P, S, Q, v, w, d)
    PROVE  Taken(n, t, r, P, S, Q, y, u, d)
<1>1. PICK k, K \in Nat :
        /\ Side(p, s, q, w, 0, k, 0) /\ Offered(p, s, k, d)
        /\ Side(P, S, Q, v, 0, K, 0) /\ P.sig = "stable"
        /\ K # 0 /\ S[K] = Op("setRemoteOffer", "existing", d)
        /\ ToGather(p, d) \/ Comes(v, 0, S, K, P.added, d)
  BY DEF Taken
<1>2. PICK l, o \in Nat : Side(n, t, r, u, 0, l, o) /\ Kept(p, s, w, n, t, u, 0, k, 0, 0, l, o)
  BY <1>1, SideLittleNone
<1>3. o = 0 /\ (l = 0 <=> k = 0) /\ (k # 0 => t[l] = s[k]) /\ Same(p, n)
  BY <1>2 DEF Kept, Little
<1>4. Offered(n, t, l, d)
  BY <1>1, <1>3, OfferedKept
<1>5. Side(P, S, Q, y, 0, K, 0)
  BY <1>1, SideOutgoing
<1>6. Ices(v, 0) /\ n.sig = p.sig
  BY <1>1, <1>3 DEF Side, Same
<1>7. ToGather(n, d) \/ Comes(y, 0, S, K, P.added, d)
  BY <1>1, <1>6, OfferOutgoing
<1> QED
  BY <1>1, <1>2, <1>3, <1>4, <1>5, <1>7 DEF Taken

LEMMA BeingOffererLittle ==
    ASSUME NEW p \in PCs, NEW s \in Seq(Steps), NEW q, NEW w \in Seq(Mail), NEW v \in Seq(Mail),
           NEW n \in PCs, NEW t \in Seq(Steps), NEW r, NEW u \in Seq(Mail), NEW y \in Seq(Mail),
           Little(p, s, q, w, n, t, r, u), Outgoing(p, v, n, y), NEW P, NEW S, NEW Q, NEW d,
           BeingAnswered(p, s, q, P, S, Q, v, w, d)
    PROVE  BeingAnswered(n, t, r, P, S, Q, y, u, d)
<1>1. PICK k, K \in Nat :
        /\ Side(p, s, q, w, 0, k, 0) /\ Offered(p, s, k, d)
        /\ AnswersAt(p, P, S, Q, v, d, K)
  BY DEF BeingAnswered
<1>2. PICK l, o \in Nat : Side(n, t, r, u, 0, l, o) /\ Kept(p, s, w, n, t, u, 0, k, 0, 0, l, o)
  BY <1>1, SideLittleNone
<1>3. o = 0 /\ (l = 0 <=> k = 0) /\ (k # 0 => t[l] = s[k]) /\ Same(p, n) /\ n.sig = p.sig
  BY <1>2 DEF Kept, Little, Same
<1>4. Offered(n, t, l, d)
  BY <1>1, <1>3, OfferedKept
<1>5. AnswersAt(n, P, S, Q, y, d, K)
  BY <1>1, <1>3, AnswersAtOutgoing
<1> QED
  BY <1>1, <1>2, <1>3, <1>4, <1>5 DEF BeingAnswered

LEMMA AnswerSentOffererLittle ==
    ASSUME NEW p \in PCs, NEW s \in Seq(Steps), NEW q, NEW w \in Seq(Mail), NEW v \in Seq(Mail),
           NEW n \in PCs, NEW t \in Seq(Steps), NEW r, NEW u \in Seq(Mail), NEW y \in Seq(Mail),
           Little(p, s, q, w, n, t, r, u), Outgoing(p, v, n, y), NEW P, NEW S, NEW Q, NEW d, NEW a,
           AnswerSent(p, s, q, P, S, Q, v, w, d, a)
    PROVE  AnswerSent(n, t, r, P, S, Q, y, u, d, a)
<1>1. PICK i, k \in Nat :
        /\ Side(p, s, q, w, i, k, 0) /\ Offered(p, s, k, d)
        /\ HasAnswered(p, P, S, Q, v, d, a)
        /\ i # 0 /\ w[i] = Msg("answer", a)
        /\ P.gather = a \/ Comes(w, i, s, 0, p.added, a)
  BY DEF AnswerSent
<1>2. ASSUME w # <<>>, u = Tail(w), u # w PROVE i # 1
  <2>1. Len(u) # Len(w)
    BY <1>2, Tailed
  <2>2. w[1].type = "ice"
    BY <1>2, <2>1 DEF Little
  <2> QED
    BY <1>1, <2>2 DEF Msg
<1>3. PICK j, l, o \in Nat : Side(n, t, r, u, j, l, o) /\ Kept(p, s, w, n, t, u, i, k, 0, j, l, o)
  BY <1>1, <1>2, SideLittle
<1>4. j # 0 /\ u[j] = w[i] /\ o = 0 /\ (l = 0 <=> k = 0) /\ (k # 0 => t[l] = s[k])
      /\ Same(p, n) /\ n.sig = p.sig
  BY <1>1, <1>3 DEF Kept, Little, Same
<1>5. Offered(n, t, l, d)
  BY <1>1, <1>4, OfferedKept
<1>6. HasAnswered(n, P, S, Q, y, d, a)
  BY <1>1, <1>4, HasAnsweredOutgoing
<1>7. P.gather = a \/ Comes(u, j, t, 0, n.added, a)
  BY <1>1, <1>3 DEF Kept
<1> QED
  BY <1>1, <1>3, <1>4, <1>5, <1>6, <1>7 DEF AnswerSent

LEMMA AnswerTakenOffererLittle ==
    ASSUME NEW p \in PCs, NEW s \in Seq(Steps), NEW q, NEW w \in Seq(Mail), NEW v \in Seq(Mail),
           NEW n \in PCs, NEW t \in Seq(Steps), NEW r, NEW u \in Seq(Mail), NEW y \in Seq(Mail),
           Little(p, s, q, w, n, t, r, u), Outgoing(p, v, n, y), NEW P, NEW S, NEW Q, NEW d, NEW a,
           AnswerTaken(p, s, q, P, S, Q, v, w, d, a)
    PROVE  AnswerTaken(n, t, r, P, S, Q, y, u, d, a)
<1>1. PICK k, m \in Nat :
        /\ Side(p, s, q, w, 0, k, m)
        /\ HasAnswered(p, P, S, Q, v, d, a)
        /\ \/ /\ p.sig = "local" /\ p.pending = d /\ k # 0 /\ m = 0 /\ s[k] = AnswerOp(a)
              /\ P.gather = a \/ Comes(w, 0, s, k, p.added, a)
           \/ /\ p.sig = "stable" /\ Offered(p, s, k, d) /\ m # 0 /\ s[m] = AnswerOp(a)
              /\ P.gather = a \/ Comes(w, 0, s, m, p.added, a)
  BY DEF AnswerTaken
<1>2. PICK l, o \in Nat : Side(n, t, r, u, 0, l, o) /\ Kept(p, s, w, n, t, u, 0, k, m, 0, l, o)
  BY <1>1, SideLittleNone
<1>3. (l = 0 <=> k = 0) /\ (k # 0 => t[l] = s[k]) /\ (o = 0 <=> m = 0) /\ (m # 0 => t[o] = s[m])
      /\ Same(p, n) /\ n.sig = p.sig /\ n.pending = p.pending
  BY <1>1, <1>2 DEF Kept, Little, Same
<1>4. HasAnswered(n, P, S, Q, y, d, a)
  BY <1>1, <1>3, HasAnsweredOutgoing
<1>5. CASE /\ p.sig = "local" /\ p.pending = d /\ k # 0 /\ m = 0 /\ s[k] = AnswerOp(a)
           /\ P.gather = a \/ Comes(w, 0, s, k, p.added, a)
  <2>1. P.gather = a \/ Comes(u, 0, t, l, n.added, a)
    BY <1>2, <1>3, <1>5 DEF Kept
  <2> QED
    BY <1>2, <1>3, <1>4, <1>5, <2>1 DEF AnswerTaken
<1>6. CASE /\ p.sig = "stable" /\ Offered(p, s, k, d) /\ m # 0 /\ s[m] = AnswerOp(a)
           /\ P.gather = a \/ Comes(w, 0, s, m, p.added, a)
  <2>1. P.gather = a \/ Comes(u, 0, t, o, n.added, a)
    BY <1>2, <1>3, <1>6 DEF Kept
  <2>2. Offered(n, t, l, d)
    BY <1>3, <1>6, OfferedKept
  <2> QED
    BY <1>2, <1>3, <1>4, <1>6, <2>1, <2>2 DEF AnswerTaken
<1> QED
  BY <1>1, <1>5, <1>6

LEMMA AgainOffererLittle ==
    ASSUME NEW p \in PCs, NEW s \in Seq(Steps), NEW q, NEW w \in Seq(Mail), NEW v \in Seq(Mail),
           NEW n \in PCs, NEW t \in Seq(Steps), NEW r, NEW u \in Seq(Mail), NEW y \in Seq(Mail),
           Little(p, s, q, w, n, t, r, u), Outgoing(p, v, n, y), NEW P, NEW S, NEW Q,
           Again(p, s, q, P, S, Q, v, w)
    PROVE  Again(n, t, r, P, S, Q, y, u)
<1>1. PICK k \in Nat :
        /\ Side(p, s, q, w, 0, k, 0) /\ Side(P, S, Q, v, 0, 0, 0)
        /\ p.sig = "stable" /\ P.sig = "stable"
        /\ k # 0 /\ s[k] = Op("createOffer", "restart", None)
  BY DEF Again
<1>2. PICK l, o \in Nat : Side(n, t, r, u, 0, l, o) /\ Kept(p, s, w, n, t, u, 0, k, 0, 0, l, o)
  BY <1>1, SideLittleNone
<1>3. o = 0 /\ l # 0 /\ t[l] = s[k] /\ n.sig = p.sig
  BY <1>1, <1>2 DEF Kept, Little, Same
<1>4. Side(P, S, Q, y, 0, 0, 0)
  BY <1>1, SideOutgoing
<1> QED
  BY <1>1, <1>2, <1>3, <1>4 DEF Again

LEMMA FitLittle ==
    ASSUME NEW p \in PCs, NEW s \in Seq(Steps), NEW q, NEW w \in Seq(Mail), NEW v \in Seq(Mail),
           NEW n \in PCs, NEW t \in Seq(Steps), NEW r, NEW u \in Seq(Mail), NEW y \in Seq(Mail),
           Little(p, s, q, w, n, t, r, u), Outgoing(p, v, n, y), NEW P, NEW S, NEW Q,
           Fit(p, s, q, P, S, Q, v, w)
    PROVE  Fit(n, t, r, P, S, Q, y, u)
<1>1. /\ Side(p, s, q, w, 0, 0, 0) /\ Side(P, S, Q, v, 0, 0, 0)
      /\ p.sig = "stable" /\ P.sig = "stable" /\ p.local # None /\ P.local # None
      /\ p.local = P.remote /\ P.local = p.remote
      /\ p.gather = p.local \/ Comes(v, 0, S, 0, P.added, p.local)
      /\ P.gather = P.local \/ Comes(w, 0, s, 0, p.added, P.local)
  BY DEF Fit
<1>2. PICK l, o \in Nat : Side(n, t, r, u, 0, l, o) /\ Kept(p, s, w, n, t, u, 0, 0, 0, 0, l, o)
  BY <1>1, SideLittleNone
<1>3. o = 0 /\ l = 0 /\ n.sig = p.sig /\ n.local = p.local /\ n.remote = p.remote
  BY <1>1, <1>2 DEF Kept, Little, Same
<1>4. Side(P, S, Q, y, 0, 0, 0)
  BY <1>1, SideOutgoing
<1>5. n.gather = p.local \/ Comes(y, 0, S, 0, P.added, p.local)
  <2>1. Ices(v, 0)
    BY <1>1 DEF Side
  <2> QED
    BY <1>1, <2>1, ComesOutgoing
<1>6. P.local = Remote(p)
  BY <1>1 DEF Remote
<1>7. P.gather = P.local \/ Comes(u, 0, t, 0, n.added, P.local)
  BY <1>1, <1>2, <1>3, <1>6 DEF Kept
<1> QED
  BY <1>1, <1>2, <1>3, <1>4, <1>7, <1>5 DEF Fit

-----------------------------------------------------------------------------
(* A little step of the end that answers                                   *)

LEMMA FitTurned ==
    ASSUME NEW p, NEW s, NEW q, NEW P, NEW S, NEW Q, NEW v, NEW w, Fit(p, s, q, P, S, Q, v, w)
    PROVE  Fit(P, S, Q, p, s, q, w, v)
BY DEF Fit

LEMMA SentAnswererLittle ==
    ASSUME NEW P \in PCs, NEW S \in Seq(Steps), NEW Q, NEW v \in Seq(Mail), NEW w \in Seq(Mail),
           NEW N \in PCs, NEW T \in Seq(Steps), NEW R, NEW y \in Seq(Mail), NEW u \in Seq(Mail),
           Little(P, S, Q, v, N, T, R, y), Outgoing(P, w, N, u), NEW p \in PCs, NEW s, NEW q, NEW d,
           Sent(p, s, q, P, S, Q, v, w, d)
    PROVE  Sent(p, s, q, N, T, R, y, u, d)
<1>1. PICK j, k \in Nat :
        /\ Side(p, s, q, w, 0, k, 0) /\ Offered(p, s, k, d)
        /\ Side(P, S, Q, v, j, 0, 0) /\ P.sig = "stable"
        /\ j # 0 /\ v[j] = Msg("offer", d)
        /\ ToGather(p, d) \/ Comes(v, j, S, 0, P.added, d)
  BY DEF Sent
<1>2. ASSUME v # <<>>, y = Tail(v), y # v PROVE j # 1
  <2>1. Len(y) # Len(v)
    BY <1>2, Tailed
  <2>2. v[1].type = "ice"
    BY <1>2, <2>1 DEF Little
  <2> QED
    BY <1>1, <2>2 DEF Msg
<1>3. PICK i, l, o \in Nat : Side(N, T, R, y, i, l, o) /\ Kept(P, S, v, N, T, y, j, 0, 0, i, l, o)
  BY <1>1, <1>2, SideLittle
<1>4. i # 0 /\ y[i] = v[j] /\ o = 0 /\ l = 0 /\ N.sig = P.sig
  BY <1>1, <1>3 DEF Kept, Little, Same
<1>5. ToGather(p, d) \/ Comes(y, i, T, 0, N.added, d)
  BY <1>1, <1>3 DEF Kept
<1>6. Side(p, s, q, u, 0, k, 0)
  BY <1>1, SideOutgoing
<1> QED
  BY <1>1, <1>3, <1>4, <1>5, <1>6 DEF Sent

LEMMA TakenAnswererLittle ==
    ASSUME NEW P \in PCs, NEW S \in Seq(Steps), NEW Q, NEW v \in Seq(Mail), NEW w \in Seq(Mail),
           NEW N \in PCs, NEW T \in Seq(Steps), NEW R, NEW y \in Seq(Mail), NEW u \in Seq(Mail),
           Little(P, S, Q, v, N, T, R, y), Outgoing(P, w, N, u), NEW p \in PCs, NEW s, NEW q, NEW d,
           Taken(p, s, q, P, S, Q, v, w, d)
    PROVE  Taken(p, s, q, N, T, R, y, u, d)
<1>1. PICK k, K \in Nat :
        /\ Side(p, s, q, w, 0, k, 0) /\ Offered(p, s, k, d)
        /\ Side(P, S, Q, v, 0, K, 0) /\ P.sig = "stable"
        /\ K # 0 /\ S[K] = Op("setRemoteOffer", "existing", d)
        /\ ToGather(p, d) \/ Comes(v, 0, S, K, P.added, d)
  BY DEF Taken
<1>2. PICK l, o \in Nat : Side(N, T, R, y, 0, l, o) /\ Kept(P, S, v, N, T, y, 0, K, 0, 0, l, o)
  BY <1>1, SideLittleNone
<1>3. o = 0 /\ l # 0 /\ T[l] = S[K] /\ N.sig = P.sig
  BY <1>1, <1>2 DEF Kept, Little, Same
<1>4. ToGather(p, d) \/ Comes(y, 0, T, l, N.added, d)
  BY <1>1, <1>2 DEF Kept
<1>5. Side(p, s, q, u, 0, k, 0)
  BY <1>1, SideOutgoing
<1> QED
  BY <1>1, <1>2, <1>3, <1>4, <1>5 DEF Taken

LEMMA BeingAnswererLittle ==
    ASSUME NEW P \in PCs, NEW S \in Seq(Steps), NEW Q, NEW v \in Seq(Mail), NEW w \in Seq(Mail),
           NEW N \in PCs, NEW T \in Seq(Steps), NEW R, NEW y \in Seq(Mail), NEW u \in Seq(Mail),
           Little(P, S, Q, v, N, T, R, y), Outgoing(P, w, N, u), NEW p \in PCs, NEW s, NEW q, NEW d,
           BeingAnswered(p, s, q, P, S, Q, v, w, d)
    PROVE  BeingAnswered(p, s, q, N, T, R, y, u, d)
<1>1. PICK k, K \in Nat :
        /\ Side(p, s, q, w, 0, k, 0) /\ Offered(p, s, k, d)
        /\ AnswersAt(p, P, S, Q, v, d, K)
  BY DEF BeingAnswered
<1>2. PICK L \in Nat : AnswersAt(p, N, T, R, y, d, L)
  BY <1>1, AnswersAtLittle
<1>3. Side(p, s, q, u, 0, k, 0)
  BY <1>1, SideOutgoing
<1> QED
  BY <1>1, <1>2, <1>3 DEF BeingAnswered

LEMMA AnswerSentAnswererLittle ==
    ASSUME NEW P \in PCs, NEW S \in Seq(Steps), NEW Q, NEW v \in Seq(Mail), NEW w \in Seq(Mail),
           NEW N \in PCs, NEW T \in Seq(Steps), NEW R, NEW y \in Seq(Mail), NEW u \in Seq(Mail),
           Little(P, S, Q, v, N, T, R, y), Outgoing(P, w, N, u), NEW p \in PCs, NEW s, NEW q, NEW d, NEW a,
           AnswerSent(p, s, q, P, S, Q, v, w, d, a)
    PROVE  AnswerSent(p, s, q, N, T, R, y, u, d, a)
<1>1. PICK i, k \in Nat :
        /\ Side(p, s, q, w, i, k, 0) /\ Offered(p, s, k, d)
        /\ HasAnswered(p, P, S, Q, v, d, a)
        /\ i # 0 /\ w[i] = Msg("answer", a)
        /\ P.gather = a \/ Comes(w, i, s, 0, p.added, a)
  BY DEF AnswerSent
<1>2. HasAnswered(p, N, T, R, y, d, a)
  BY <1>1, HasAnsweredLittle
<1>3. Side(p, s, q, u, i, k, 0) /\ u[i] = w[i]
  BY <1>1, SideOutgoing
<1>4. N.gather = a \/ Comes(u, i, s, 0, p.added, a)
  <2>1. Ices(w, i)
    BY <1>1 DEF Side
  <2> QED
    BY <1>1, <2>1, ComesOutgoing
<1> QED
  BY <1>1, <1>2, <1>3, <1>4 DEF AnswerSent

LEMMA AnswerTakenAnswererLittle ==
    ASSUME NEW P \in PCs, NEW S \in Seq(Steps), NEW Q, NEW v \in Seq(Mail), NEW w \in Seq(Mail),
           NEW N \in PCs, NEW T \in Seq(Steps), NEW R, NEW y \in Seq(Mail), NEW u \in Seq(Mail),
           Little(P, S, Q, v, N, T, R, y), Outgoing(P, w, N, u), NEW p \in PCs, NEW s, NEW q, NEW d, NEW a,
           AnswerTaken(p, s, q, P, S, Q, v, w, d, a)
    PROVE  AnswerTaken(p, s, q, N, T, R, y, u, d, a)
<1>1. PICK k, m \in Nat :
        /\ Side(p, s, q, w, 0, k, m)
        /\ HasAnswered(p, P, S, Q, v, d, a)
        /\ \/ /\ p.sig = "local" /\ p.pending = d /\ k # 0 /\ m = 0 /\ s[k] = AnswerOp(a)
              /\ P.gather = a \/ Comes(w, 0, s, k, p.added, a)
           \/ /\ p.sig = "stable" /\ Offered(p, s, k, d) /\ m # 0 /\ s[m] = AnswerOp(a)
              /\ P.gather = a \/ Comes(w, 0, s, m, p.added, a)
  BY DEF AnswerTaken
<1>2. HasAnswered(p, N, T, R, y, d, a)
  BY <1>1, HasAnsweredLittle
<1>3. Side(p, s, q, u, 0, k, m) /\ Ices(w, 0)
  BY <1>1, SideOutgoing DEF Side
<1>4. ASSUME NEW z, P.gather = a \/ Comes(w, 0, s, z, p.added, a)
      PROVE  N.gather = a \/ Comes(u, 0, s, z, p.added, a)
  BY <1>3, <1>4, ComesOutgoing
<1> QED
  BY <1>1, <1>2, <1>3, <1>4 DEF AnswerTaken

LEMMA AgainAnswererLittle ==
    ASSUME NEW P \in PCs, NEW S \in Seq(Steps), NEW Q, NEW v \in Seq(Mail), NEW w \in Seq(Mail),
           NEW N \in PCs, NEW T \in Seq(Steps), NEW R, NEW y \in Seq(Mail), NEW u \in Seq(Mail),
           Little(P, S, Q, v, N, T, R, y), Outgoing(P, w, N, u), NEW p \in PCs, NEW s, NEW q,
           Again(p, s, q, P, S, Q, v, w)
    PROVE  Again(p, s, q, N, T, R, y, u)
<1>1. PICK k \in Nat :
        /\ Side(p, s, q, w, 0, k, 0) /\ Side(P, S, Q, v, 0, 0, 0)
        /\ p.sig = "stable" /\ P.sig = "stable"
        /\ k # 0 /\ s[k] = Op("createOffer", "restart", None)
  BY DEF Again
<1>2. PICK l, o \in Nat : Side(N, T, R, y, 0, l, o) /\ Kept(P, S, v, N, T, y, 0, 0, 0, 0, l, o)
  BY <1>1, SideLittleNone
<1>3. o = 0 /\ l = 0 /\ N.sig = P.sig
  BY <1>1, <1>2 DEF Kept, Little, Same
<1>4. Side(p, s, q, u, 0, k, 0)
  BY <1>1, SideOutgoing
<1> QED
  BY <1>1, <1>2, <1>3, <1>4 DEF Again

LEMMA AppendOne ==
    ASSUME NEW x, NEW y
    PROVE  Append(<<x>>, y) = <<x, y>>
<1>1. PICK S : S = {x, y}
  OBVIOUS
<1>2. <<x>> \in Seq(S) /\ x \in S /\ y \in S /\ <<x, y>> \in Seq(S)
  BY <1>1
<1>3. Len(<<x>>) = 1 /\ <<x>>[1] = x /\ Len(<<x, y>>) = 2 /\ <<x, y>>[1] = x /\ <<x, y>>[2] = y
  OBVIOUS
<1>4. PICK t : t = Append(<<x>>, y)
  OBVIOUS
<1>5. t \in Seq(S) /\ Len(t) = 2 /\ t[1] = x /\ t[2] = y
  BY <1>2, <1>3, <1>4, AppendProperties
<1>6. \A i \in 1..2 : i = 1 \/ i = 2
  OBVIOUS
<1>7. t = <<x, y>>
  BY <1>2, <1>3, <1>5, <1>6, SeqEqual
<1> QED
  BY <1>4, <1>7

LEMMA FirstAnswererLittle ==
    ASSUME NEW P \in PCs, NEW S \in Seq(Steps), NEW Q, NEW v \in Seq(Mail), NEW w \in Seq(Mail),
           NEW N \in PCs, NEW T \in Seq(Steps), NEW R, NEW y \in Seq(Mail), NEW u \in Seq(Mail),
           Little(P, S, Q, v, N, T, R, y), Outgoing(P, w, N, u), NEW p \in PCs, NEW s, NEW q, NEW d,
           First(p, s, q, P, S, Q, v, w, d), P # NewPC \/ (S # <<>> /\ ~Core(S[1]))
    PROVE  First(p, s, q, N, T, R, y, u, d)
<1>0. P # None /\ N # None
  BY NoneAssumption
<1>1. Unanswered(p, d)
  BY DEF First
<1>2. CASE P = NewPC /\ S = <<Op("setRemoteOffer", "fresh", d)>>
  <2>1. PICK op : op = Op("setRemoteOffer", "fresh", d)
    OBVIOUS
  <2>2. S = <<op>> /\ Core(op)
    BY <1>2, <2>1 DEF Core, Op
  <2>3. S # <<>> /\ S[1] = op
    BY <2>2
  <2> QED
    BY <1>2, <2>2, <2>3
<1>3. CASE /\ s = <<>> /\ q = <<>> /\ w = <<>> /\ P.gather = None
           /\ \E K \in Nat : AnswersAt(p, P, S, Q, v, d, K)
  <2>1. PICK K \in Nat : AnswersAt(p, P, S, Q, v, d, K)
    BY <1>3
  <2>2. PICK L \in Nat : AnswersAt(p, N, T, R, y, d, L)
    BY <2>1, AnswersAtLittle
  <2>3. u = <<>> /\ N.gather = None
    BY <1>3 DEF Outgoing
  <2> QED
    BY <1>0, <1>1, <1>3, <2>2, <2>3 DEF First
<1>4. ASSUME NEW a \in Desc, HasAnswered(p, P, S, Q, v, d, a),
             \/ s = <<>> /\ q = <<>> /\ FirstAnswerSent(P, w, a)
             \/ s = <<AnswerOp(a)>> /\ Once(w, q, P.gather, a)
      PROVE  First(p, s, q, N, T, R, y, u, d)
  <2>0. a # None
    BY NoneAssumption
  <2>1. HasAnswered(p, N, T, R, y, d, a)
    BY <1>4, HasAnsweredLittle
  <2>2. ASSUME FirstAnswerSent(P, w, a) PROVE FirstAnswerSent(N, u, a)
    <3>1. CASE u = w /\ N.gather = P.gather
      BY <2>2, <3>1 DEF FirstAnswerSent
    <3>2. CASE P.gather # None /\ N.gather = None /\ u = Append(w, Msg("ice", P.gather))
      <4>1. P.gather = a /\ w = <<Msg("answer", a)>>
        BY <2>2, <3>2 DEF FirstAnswerSent
      <4>2. Append(<<Msg("answer", a)>>, Msg("ice", a)) = <<Msg("answer", a), Msg("ice", a)>>
        BY AppendOne
      <4>3. u = <<Msg("answer", a), Msg("ice", a)>>
        BY <3>2, <4>1, <4>2
      <4> QED
        BY <3>2, <4>3 DEF FirstAnswerSent
    <3> QED
      BY <3>1, <3>2 DEF Outgoing
  <2>3. ASSUME Once(w, q, P.gather, a) PROVE Once(u, q, N.gather, a)
    <3>1. CASE u = w /\ N.gather = P.gather
      BY <2>3, <3>1 DEF Once
    <3>2. CASE P.gather # None /\ N.gather = None /\ u = Append(w, Msg("ice", P.gather))
      <4>1. P.gather = a /\ w = <<>> /\ q = <<>>
        BY <2>3, <3>2 DEF Once
      <4>2. u = <<Msg("ice", a)>>
        BY <3>2, <4>1
      <4> QED
        BY <3>2, <4>1, <4>2 DEF Once
    <3> QED
      BY <3>1, <3>2 DEF Outgoing
  <2> QED
    BY <1>1, <1>4, <2>1, <2>2, <2>3 DEF First
<1> QED
  BY <1>0, <1>2, <1>3, <1>4 DEF First

-----------------------------------------------------------------------------
(* A little step of either end keeps the exchange                          *)

LEMMA OnceOutgoing ==
    ASSUME NEW p, NEW n, NEW v, NEW y, Outgoing(p, v, n, y), NEW Q, NEW d, d # None,
           Once(v, Q, p.gather, d)
    PROVE  Once(y, Q, n.gather, d)
<1>1. CASE y = v /\ n.gather = p.gather
  BY <1>1 DEF Once
<1>2. CASE p.gather # None /\ n.gather = None /\ y = Append(v, Msg("ice", p.gather))
  <2>1. p.gather = d /\ v = <<>> /\ Q = <<>>
    BY <1>2 DEF Once
  <2>2. y = <<Msg("ice", d)>>
    BY <1>2, <2>1
  <2> QED
    BY <1>2, <2>1, <2>2 DEF Once
<1> QED
  BY <1>1, <1>2 DEF Outgoing

LEMMA FirstSentOutgoing ==
    ASSUME NEW p \in PCs, NEW n \in PCs, NEW v \in Seq(Mail), NEW y \in Seq(Mail),
           Outgoing(p, v, n, y), NEW d \in Desc, FirstSent(p, v, d)
    PROVE  FirstSent(n, y, d)
<1>0. d # None
  BY NoneAssumption
<1>1. CASE y = v /\ n.gather = p.gather
  BY <1>1 DEF FirstSent
<1>2. CASE p.gather # None /\ n.gather = None /\ y = Append(v, Msg("ice", p.gather))
  <2>1. PICK j \in 1..Len(v) :
            /\ v[j] = Msg("offer", d) /\ \A x \in 1..Len(v) : x < j => NoOffer(v[x])
            /\ \/ j = Len(v) /\ p.gather = d
               \/ j + 1 = Len(v) /\ v[j + 1] = Msg("ice", d) /\ p.gather = None
    BY DEF FirstSent
  <2>2. j = Len(v) /\ p.gather = d
    BY <1>2, <2>1
  <2>3. PICK m \in Mail : m = Msg("ice", d)
    BY DEF Msg, Mail, ToServer, Descs
  <2>4. y = Append(v, m)
    BY <1>2, <2>2, <2>3
  <2>5. /\ Len(v) \in Nat /\ Len(y) = Len(v) + 1 /\ y[Len(v) + 1] = m
        /\ \A i \in 1..Len(v) : y[i] = v[i]
    BY <2>4, Appended
  <2>6. /\ j \in 1..Len(y) /\ y[j] = Msg("offer", d) /\ j + 1 = Len(y) /\ y[j + 1] = Msg("ice", d)
    BY <2>1, <2>2, <2>3, <2>5
  <2>7. \A x \in 1..Len(y) : x < j => NoOffer(y[x])
    BY <2>1, <2>2, <2>5
  <2> QED
    BY <1>2, <2>6, <2>7 DEF FirstSent
<1> QED
  BY <1>1, <1>2 DEF Outgoing

LEMMA FirstOffererLittle ==
    ASSUME NEW p \in PCs, NEW s \in Seq(Steps), NEW q, NEW w \in Seq(Mail), NEW v \in Seq(Mail),
           NEW n \in PCs, NEW t \in Seq(Steps), NEW r, NEW u \in Seq(Mail), NEW y \in Seq(Mail),
           Little(p, s, q, w, n, t, r, u), Outgoing(p, v, n, y), NEW P, NEW S, NEW Q, NEW d \in Desc,
           First(p, s, q, P, S, Q, v, w, d), Remote(p) # None \/ u = w
    PROVE  First(n, t, r, P, S, Q, y, u, d)
<1>0. d # None /\ n # None
  BY NoneAssumption
<1>1. Unanswered(p, d) /\ Remote(p) = None
  BY DEF First, Unanswered, Remote
<1>2. s = <<>> \/ \E a : s = <<AnswerOp(a)>>
  BY DEF First
<1>3. s # <<>> => Core(s[1])
  <2>1. ASSUME NEW a, s = <<AnswerOp(a)>> PROVE Core(s[1])
    <3>1. PICK op : op = AnswerOp(a)
      OBVIOUS
    <3>2. s[1] = op /\ Core(op)
      BY <2>1, <3>1 DEF AnswerOp, Op, Core
    <3> QED
      BY <3>2
  <2> QED
    BY <1>2, <2>1
<1>4. t = s /\ r = q /\ u = w /\ n.sig = p.sig
  <2>1. w # <<>> => Tail(w) # w
    BY Tailed
  <2> QED
    BY <1>1, <1>3, <2>1 DEF Little, Same
<1>5. Unanswered(n, d)
  BY <1>0, <1>1 DEF Unanswered, Little, Same
<1>6. CASE s = <<>> /\ q = <<>> /\ w = <<>> /\ P = None /\ FirstSent(p, v, d)
  BY <1>4, <1>5, <1>6, FirstSentOutgoing DEF First
<1>7. CASE /\ s = <<>> /\ q = <<>> /\ w = <<>>
           /\ P = NewPC /\ S = <<Op("setRemoteOffer", "fresh", d)>> /\ Once(v, Q, p.gather, d)
  <2>1. Once(y, Q, n.gather, d)
    BY <1>0, <1>7, OnceOutgoing
  <2> QED
    BY <1>4, <1>5, <1>7, <2>1 DEF First
<1>8. CASE /\ s = <<>> /\ q = <<>> /\ w = <<>>
           /\ P # None /\ P.gather = None /\ \E K \in Nat : AnswersAt(p, P, S, Q, v, d, K)
  <2>1. PICK K \in Nat : AnswersAt(p, P, S, Q, v, d, K)
    BY <1>8
  <2>2. AnswersAt(n, P, S, Q, y, d, K)
    BY <1>4, <2>1, AnswersAtOutgoing
  <2> QED
    BY <1>4, <1>5, <1>8, <2>2 DEF First
<1>9. ASSUME NEW a \in Desc, HasAnswered(p, P, S, Q, v, d, a),
             \/ s = <<>> /\ q = <<>> /\ FirstAnswerSent(P, w, a)
             \/ s = <<AnswerOp(a)>> /\ Once(w, q, P.gather, a)
      PROVE  First(n, t, r, P, S, Q, y, u, d)
  <2>1. HasAnswered(n, P, S, Q, y, d, a)
    BY <1>4, <1>9, HasAnsweredOutgoing
  <2> QED
    BY <1>4, <1>5, <1>9, <2>1 DEF First
<1> QED
  BY <1>6, <1>7, <1>8, <1>9 DEF First

LEMMA OffererLittle ==
    ASSUME NEW p \in PCs, NEW s \in Seq(Steps), NEW q, NEW w \in Seq(Mail), NEW v \in Seq(Mail),
           NEW n \in PCs, NEW t \in Seq(Steps), NEW r, NEW u \in Seq(Mail), NEW y \in Seq(Mail),
           Little(p, s, q, w, n, t, r, u), Outgoing(p, v, n, y), NEW P, NEW S, NEW Q,
           Exchange(p, s, q, P, S, Q, v, w), Remote(p) # None \/ u = w
    PROVE  Exchange(n, t, r, P, S, Q, y, u)
<1>1. CASE Fit(p, s, q, P, S, Q, v, w)
  BY <1>1, FitLittle DEF Exchange
<1>2. CASE Again(p, s, q, P, S, Q, v, w)
  BY <1>2, AgainOffererLittle DEF Exchange
<1>3. ASSUME NEW d \in Desc, First(p, s, q, P, S, Q, v, w, d) PROVE Exchange(n, t, r, P, S, Q, y, u)
  BY <1>3, FirstOffererLittle DEF Exchange
<1>4. ASSUME NEW d \in Desc, Sent(p, s, q, P, S, Q, v, w, d) PROVE Exchange(n, t, r, P, S, Q, y, u)
  BY <1>4, SentOffererLittle DEF Exchange
<1>5. ASSUME NEW d \in Desc, Taken(p, s, q, P, S, Q, v, w, d) PROVE Exchange(n, t, r, P, S, Q, y, u)
  BY <1>5, TakenOffererLittle DEF Exchange
<1>6. ASSUME NEW d \in Desc, BeingAnswered(p, s, q, P, S, Q, v, w, d)
      PROVE  Exchange(n, t, r, P, S, Q, y, u)
  BY <1>6, BeingOffererLittle DEF Exchange
<1>7. ASSUME NEW d \in Desc, NEW a \in Desc, AnswerSent(p, s, q, P, S, Q, v, w, d, a)
      PROVE  Exchange(n, t, r, P, S, Q, y, u)
  BY <1>7, AnswerSentOffererLittle DEF Exchange
<1>8. ASSUME NEW d \in Desc, NEW a \in Desc, AnswerTaken(p, s, q, P, S, Q, v, w, d, a)
      PROVE  Exchange(n, t, r, P, S, Q, y, u)
  BY <1>8, AnswerTakenOffererLittle DEF Exchange
<1> QED
  BY <1>1, <1>2, <1>3, <1>4, <1>5, <1>6, <1>7, <1>8 DEF Exchange

LEMMA AnswererLittle ==
    ASSUME NEW P \in PCs, NEW S \in Seq(Steps), NEW Q, NEW v \in Seq(Mail), NEW w \in Seq(Mail),
           NEW N \in PCs, NEW T \in Seq(Steps), NEW R, NEW y \in Seq(Mail), NEW u \in Seq(Mail),
           Little(P, S, Q, v, N, T, R, y), Outgoing(P, w, N, u), NEW p \in PCs, NEW s, NEW q,
           Exchange(p, s, q, P, S, Q, v, w), P # NewPC \/ (S # <<>> /\ ~Core(S[1]))
    PROVE  Exchange(p, s, q, N, T, R, y, u)
<1>1. CASE Fit(p, s, q, P, S, Q, v, w)
  <2>1. Fit(P, S, Q, p, s, q, w, v)
    BY <1>1, FitTurned
  <2>2. Fit(N, T, R, p, s, q, u, y)
    BY <2>1, FitLittle
  <2> QED
    BY <2>2, FitTurned DEF Exchange
<1>2. CASE Again(p, s, q, P, S, Q, v, w)
  BY <1>2, AgainAnswererLittle DEF Exchange
<1>3. ASSUME NEW d \in Desc, First(p, s, q, P, S, Q, v, w, d) PROVE Exchange(p, s, q, N, T, R, y, u)
  BY <1>3, FirstAnswererLittle DEF Exchange
<1>4. ASSUME NEW d \in Desc, Sent(p, s, q, P, S, Q, v, w, d) PROVE Exchange(p, s, q, N, T, R, y, u)
  BY <1>4, SentAnswererLittle DEF Exchange
<1>5. ASSUME NEW d \in Desc, Taken(p, s, q, P, S, Q, v, w, d) PROVE Exchange(p, s, q, N, T, R, y, u)
  BY <1>5, TakenAnswererLittle DEF Exchange
<1>6. ASSUME NEW d \in Desc, BeingAnswered(p, s, q, P, S, Q, v, w, d)
      PROVE  Exchange(p, s, q, N, T, R, y, u)
  BY <1>6, BeingAnswererLittle DEF Exchange
<1>7. ASSUME NEW d \in Desc, NEW a \in Desc, AnswerSent(p, s, q, P, S, Q, v, w, d, a)
      PROVE  Exchange(p, s, q, N, T, R, y, u)
  BY <1>7, AnswerSentAnswererLittle DEF Exchange
<1>8. ASSUME NEW d \in Desc, NEW a \in Desc, AnswerTaken(p, s, q, P, S, Q, v, w, d, a)
      PROVE  Exchange(p, s, q, N, T, R, y, u)
  BY <1>8, AnswerTakenAnswererLittle DEF Exchange
<1> QED
  BY <1>1, <1>2, <1>3, <1>4, <1>5, <1>6, <1>7, <1>8 DEF Exchange

-----------------------------------------------------------------------------
(* A message is heard                                                      *)

LEMMA TokenFirst ==
    ASSUME NEW w \in Seq(Mail), w # <<>>, NEW i \in Nat, Ices(w, i)
    PROVE  w[1].type = "ice" \/ i = 1
<1>1. 1 \in 1..Len(w)
  BY Tailed
<1> QED
  BY <1>1 DEF Ices

\* What the end that offers may hear.
LEMMA OffererHears ==
    ASSUME NEW p, NEW s, NEW q, NEW P, NEW S, NEW Q, NEW v, NEW w \in Seq(Mail), w # <<>>,
           Exchange(p, s, q, P, S, Q, v, w)
    PROVE  w[1].type \in {"answer", "ice"} /\ (w[1].type = "answer" => p # None)
<1>1. ASSUME NEW k, NEW m, Side(p, s, q, w, 0, k, m) PROVE w[1].type = "ice"
  <2>1. 0 \in Nat /\ Ices(w, 0)
    BY <1>1 DEF Side
  <2> QED
    BY <2>1, TokenFirst
<1>2. Fit(p, s, q, P, S, Q, v, w) => w[1].type = "ice"
  BY <1>1 DEF Fit
<1>3. Again(p, s, q, P, S, Q, v, w) => w[1].type = "ice"
  BY <1>1 DEF Again
<1>4. ASSUME NEW d \in Desc, First(p, s, q, P, S, Q, v, w, d)
      PROVE  w[1].type \in {"answer", "ice"} /\ p # None
  <2>1. PICK a \in Desc : FirstAnswerSent(P, w, a) \/ Once(w, q, P.gather, a)
    BY <1>4 DEF First
  <2>2. w[1] = Msg("answer", a) \/ w[1] = Msg("ice", a)
    BY <2>1 DEF FirstAnswerSent, Once
  <2> QED
    BY <1>4, <2>2 DEF Msg, First, Unanswered
<1>5. ASSUME NEW d \in Desc, Sent(p, s, q, P, S, Q, v, w, d) PROVE w[1].type = "ice"
  BY <1>1, <1>5 DEF Sent
<1>6. ASSUME NEW d \in Desc, Taken(p, s, q, P, S, Q, v, w, d) PROVE w[1].type = "ice"
  BY <1>1, <1>6 DEF Taken
<1>7. ASSUME NEW d \in Desc, BeingAnswered(p, s, q, P, S, Q, v, w, d) PROVE w[1].type = "ice"
  BY <1>1, <1>7 DEF BeingAnswered
<1>8. ASSUME NEW d \in Desc, NEW a \in Desc, AnswerSent(p, s, q, P, S, Q, v, w, d, a)
      PROVE  w[1].type \in {"answer", "ice"} /\ p # None
  <2>1. PICK i, k \in Nat : Side(p, s, q, w, i, k, 0) /\ w[i] = Msg("answer", a)
    BY <1>8 DEF AnswerSent
  <2>2. w[1].type = "ice" \/ i = 1
    BY <2>1, TokenFirst DEF Side
  <2> QED
    BY <2>1, <2>2 DEF Msg, Side
<1>9. ASSUME NEW d \in Desc, NEW a \in Desc, AnswerTaken(p, s, q, P, S, Q, v, w, d, a)
      PROVE  w[1].type = "ice"
  BY <1>1, <1>9 DEF AnswerTaken
<1> QED
  BY <1>2, <1>3, <1>4, <1>5, <1>6, <1>7, <1>8, <1>9 DEF Exchange

\* And the one that answers, once it has a connection.
LEMMA AnswererHears ==
    ASSUME NEW p, NEW s, NEW q, NEW P, P # None, NEW S, NEW Q, NEW v \in Seq(Mail), v # <<>>, NEW w,
           Exchange(p, s, q, P, S, Q, v, w)
    PROVE  /\ v[1].type \in {"offer", "ice"}
           /\ v[1].type = "offer" =>
                \E d \in Desc, k \in Nat :
                    /\ Side(p, s, q, w, 0, k, 0) /\ Offered(p, s, k, d)
                    /\ Side(P, S, Q, v, 1, 0, 0) /\ P.sig = "stable"
                    /\ v[1] = Msg("offer", d)
                    /\ ToGather(p, d) \/ Comes(v, 1, S, 0, P.added, d)
<1>1. ASSUME NEW k, NEW m, Side(P, S, Q, v, 0, k, m) PROVE v[1].type = "ice"
  <2>1. 0 \in Nat /\ Ices(v, 0)
    BY <1>1 DEF Side
  <2> QED
    BY <2>1, TokenFirst
<1>2. Fit(p, s, q, P, S, Q, v, w) => v[1].type = "ice"
  BY <1>1 DEF Fit
<1>3. Again(p, s, q, P, S, Q, v, w) => v[1].type = "ice"
  BY <1>1 DEF Again
<1>4. ASSUME NEW d \in Desc, First(p, s, q, P, S, Q, v, w, d) PROVE v[1].type = "ice"
  <2>1. ASSUME Once(v, Q, p.gather, d) PROVE v[1].type = "ice"
    <3>1. v[1] = Msg("ice", d)
      BY <2>1 DEF Once
    <3> QED
      BY <3>1 DEF Msg
  <2> QED
    BY <1>1, <1>4, <2>1 DEF First, AnswersAt, HasAnswered
<1>5. ASSUME NEW d \in Desc, Sent(p, s, q, P, S, Q, v, w, d)
      PROVE  \/ v[1].type = "ice"
             \/ /\ v[1].type = "offer"
                /\ \E k \in Nat :
                    /\ Side(p, s, q, w, 0, k, 0) /\ Offered(p, s, k, d)
                    /\ Side(P, S, Q, v, 1, 0, 0) /\ P.sig = "stable"
                    /\ v[1] = Msg("offer", d)
                    /\ ToGather(p, d) \/ Comes(v, 1, S, 0, P.added, d)
  <2>1. PICK j, k \in Nat :
            /\ Side(p, s, q, w, 0, k, 0) /\ Offered(p, s, k, d)
            /\ Side(P, S, Q, v, j, 0, 0) /\ P.sig = "stable"
            /\ j # 0 /\ v[j] = Msg("offer", d)
            /\ ToGather(p, d) \/ Comes(v, j, S, 0, P.added, d)
    BY <1>5 DEF Sent
  <2>2. v[1].type = "ice" \/ j = 1
    BY <2>1, TokenFirst DEF Side
  <2> QED
    BY <2>1, <2>2 DEF Msg
<1>6. ASSUME NEW d \in Desc, Taken(p, s, q, P, S, Q, v, w, d) PROVE v[1].type = "ice"
  BY <1>1, <1>6 DEF Taken
<1>7. ASSUME NEW d \in Desc, BeingAnswered(p, s, q, P, S, Q, v, w, d) PROVE v[1].type = "ice"
  BY <1>1, <1>7 DEF BeingAnswered, AnswersAt
<1>8. ASSUME NEW d \in Desc, NEW a \in Desc, AnswerSent(p, s, q, P, S, Q, v, w, d, a)
      PROVE  v[1].type = "ice"
  BY <1>1, <1>8 DEF AnswerSent, HasAnswered
<1>9. ASSUME NEW d \in Desc, NEW a \in Desc, AnswerTaken(p, s, q, P, S, Q, v, w, d, a)
      PROVE  v[1].type = "ice"
  BY <1>1, <1>9 DEF AnswerTaken, HasAnswered
<1> QED
  BY <1>2, <1>3, <1>4, <1>5, <1>6, <1>7, <1>8, <1>9 DEF Exchange

\* An offer to an end that has a connection.
LEMMA OfferHeard ==
    ASSUME NEW p, NEW s, NEW q, NEW P, P # None, NEW S \in Seq(Steps), NEW Q, NEW v \in Seq(Mail),
           v # <<>>, NEW w, Exchange(p, s, q, P, S, Q, v, w), v[1].type = "offer",
           NEW T \in Seq(Steps), T = Append(S, Op("setRemoteOffer", "existing", v[1].d)),
           NEW y \in Seq(Mail), y = Tail(v)
    PROVE  Exchange(p, s, q, P, T, Q, y, w)
<1>1. PICK d \in Desc, k \in Nat :
            /\ Side(p, s, q, w, 0, k, 0) /\ Offered(p, s, k, d)
            /\ Side(P, S, Q, v, 1, 0, 0) /\ P.sig = "stable"
            /\ v[1] = Msg("offer", d)
            /\ ToGather(p, d) \/ Comes(v, 1, S, 0, P.added, d)
  BY AnswererHears
<1>2. PICK op : op = Op("setRemoteOffer", "existing", d)
  OBVIOUS
<1>3. op \in Steps /\ Core(op) /\ ~Drain(op)
  BY <1>2, NewTypes DEF Core, Drain, Op, Descs
<1>4. T = Append(S, op)
  BY <1>1, <1>2 DEF Msg
<1>5. PICK K \in Nat : K = Len(T)
  BY LenProperties
<1>6. K # 0 /\ T[K] = op /\ Cores(T, K, 0)
  <2>1. Cores(S, 0, 0)
    BY <1>1 DEF Side
  <2>2. PICK z \in Nat : z = 0
    OBVIOUS
  <2> QED
    BY <1>3, <1>4, <1>5, <2>1, <2>2, CoresAsk
<1>7. Tidy(T, Q, Remote(P))
  BY <1>1, <1>3, <1>4, TidyMore DEF Side
<1>8. Ices(y, 0)
  <2>1. PICK i \in Nat : i = 1
    OBVIOUS
  <2>2. Ices(v, i)
    BY <1>1, <2>1 DEF Side
  <2>3. Ices(y, Less(i))
    BY <2>2, IcesTail
  <2> QED
    BY <2>1, <2>3 DEF Less
<1>9. Side(P, T, Q, y, 0, K, 0)
  BY <1>1, <1>6, <1>7, <1>8 DEF Side
<1>10. ToGather(p, d) \/ Comes(y, 0, T, K, P.added, d)
  BY <1>1, ComesTaken
<1> QED
  BY <1>1, <1>2, <1>6, <1>9, <1>10 DEF Taken, Exchange

\* The first offer makes the connection.
LEMMA FirstOfferHeard ==
    ASSUME NEW p, NEW s, NEW q, NEW S, NEW Q, NEW v \in Seq(Mail),
           v # <<>>, NEW w, Exchange(p, s, q, None, S, Q, v, w), ~NoOffer(v[1])
    PROVE  /\ v[1].type = "offer"
           /\ Exchange(p, s, q, NewPC, <<Op("setRemoteOffer", "fresh", v[1].d)>>, <<>>, Tail(v), w)
<1>1. PICK d \in Desc : First(p, s, q, None, S, Q, v, w, d)
  BY DEF Exchange, Fit, Again, Sent, Taken, BeingAnswered, AnswersAt, AnswerSent, AnswerTaken,
         HasAnswered, Side
<1>2. Unanswered(p, d) /\ s = <<>> /\ q = <<>> /\ w = <<>> /\ FirstSent(p, v, d)
  BY <1>1, NewTypes DEF First, HasAnswered, Side
<1>3. PICK j \in 1..Len(v) :
            /\ v[j] = Msg("offer", d) /\ \A x \in 1..Len(v) : x < j => NoOffer(v[x])
            /\ \/ j = Len(v) /\ p.gather = d
               \/ j + 1 = Len(v) /\ v[j + 1] = Msg("ice", d) /\ p.gather = None
  BY <1>2 DEF FirstSent
<1>4. PICK y \in Seq(Mail) : y = Tail(v)
  BY Tailed
<1>5. /\ Len(v) \in Nat /\ 1 \in 1..Len(v) /\ Len(y) = Len(v) - 1
      /\ \A i \in 1..Len(y) : y[i] = v[i + 1]
  BY <1>4, Tailed
<1>6. j = 1
  <2>1. ~(1 < j)
    BY <1>3, <1>5
  <2> QED
    BY <1>5, <2>1
<1>7. Once(y, <<>>, p.gather, d)
  <2>1. CASE Len(v) = 1 /\ p.gather = d
    <3>1. Len(y) = 0
      BY <1>5, <2>1
    <3>2. y = <<>>
      BY <3>1, EmptySeq
    <3> QED
      BY <2>1, <3>2 DEF Once
  <2>2. CASE 2 = Len(v) /\ v[2] = Msg("ice", d) /\ p.gather = None
    <3>1. PICK m \in Mail : m = Msg("ice", d)
      BY DEF Msg, Mail, ToServer, Descs
    <3>0. Len(v) = 2
      BY <2>2
    <3>2. Len(y) = 1 /\ 1 \in 1..Len(y)
      BY <1>5, <3>0
    <3>3. y[1] = m
      BY <1>5, <2>2, <3>1, <3>2
    <3>4. <<m>> \in Seq(Mail) /\ Len(<<m>>) = 1 /\ <<m>>[1] = m
      BY <3>1
    <3>5. \A i \in 1..1 : i = 1
      OBVIOUS
    <3>6. y = <<m>>
      BY <3>2, <3>3, <3>4, <3>5, SeqEqual
    <3> QED
      BY <2>2, <3>1, <3>6 DEF Once
  <2> QED
    BY <1>3, <1>6, <2>1, <2>2
<1>8. v[1].type = "offer" /\ v[1].d = d
  BY <1>3, <1>6 DEF Msg
<1> QED
  BY <1>2, <1>4, <1>7, <1>8 DEF First, Exchange

\* Before it, nothing that is heard matters.
LEMMA OtherHeard ==
    ASSUME NEW p, NEW s, NEW q, NEW S, NEW Q, NEW v \in Seq(Mail),
           v # <<>>, NEW w, Exchange(p, s, q, None, S, Q, v, w), NoOffer(v[1]), NEW T, NEW R
    PROVE  Exchange(p, s, q, None, T, R, Tail(v), w)
<1>1. PICK d \in Desc : First(p, s, q, None, S, Q, v, w, d)
  BY DEF Exchange, Fit, Again, Sent, Taken, BeingAnswered, AnswersAt, AnswerSent, AnswerTaken,
         HasAnswered, Side
<1>2. Unanswered(p, d) /\ s = <<>> /\ q = <<>> /\ w = <<>> /\ FirstSent(p, v, d)
  BY <1>1, NewTypes DEF First, HasAnswered, Side
<1>3. PICK j \in 1..Len(v) :
            /\ v[j] = Msg("offer", d) /\ \A x \in 1..Len(v) : x < j => NoOffer(v[x])
            /\ \/ j = Len(v) /\ p.gather = d
               \/ j + 1 = Len(v) /\ v[j + 1] = Msg("ice", d) /\ p.gather = None
  BY <1>2 DEF FirstSent
<1>4. PICK y \in Seq(Mail) : y = Tail(v)
  BY Tailed
<1>5. /\ Len(v) \in Nat /\ 1 \in 1..Len(v) /\ Len(y) = Len(v) - 1
      /\ \A i \in 1..Len(y) : y[i] = v[i + 1] /\ i + 1 \in 1..Len(v)
  BY <1>4, Tailed
<1>6. j # 1
  BY <1>3 DEF Msg, NoOffer
<1>7. PICK i \in 1..Len(y) : i + 1 = j
  <2>1. j - 1 \in 1..Len(y) /\ (j - 1) + 1 = j
    BY <1>5, <1>6
  <2> QED
    BY <2>1
<1>8. y[i] = Msg("offer", d) /\ \A x \in 1..Len(y) : x < i => NoOffer(y[x])
  BY <1>3, <1>5, <1>7
<1>9. \/ i = Len(y) /\ p.gather = d
      \/ i + 1 = Len(y) /\ y[i + 1] = Msg("ice", d) /\ p.gather = None
  <2>1. CASE j = Len(v) /\ p.gather = d
    BY <1>5, <1>7, <2>1
  <2>2. CASE j + 1 = Len(v) /\ v[j + 1] = Msg("ice", d) /\ p.gather = None
    <3>1. i + 1 = Len(y) /\ i + 1 \in 1..Len(y) /\ (i + 1) + 1 = j + 1
      BY <1>5, <1>7, <2>2
    <3>2. y[i + 1] = v[j + 1]
      BY <1>5, <3>1
    <3> QED
      BY <2>2, <3>1, <3>2
  <2> QED
    BY <1>3, <2>1, <2>2
<1>10. FirstSent(p, y, d)
  BY <1>8, <1>9 DEF FirstSent
<1> QED
  BY <1>2, <1>4, <1>10 DEF First, Exchange

\* An answer is heard.
LEMMA FirstAnswerHeard ==
    ASSUME NEW P \in PCs, NEW w \in Seq(Mail), NEW a \in Desc, FirstAnswerSent(P, w, a)
    PROVE  w[1] = Msg("answer", a) /\ Once(Tail(w), <<>>, P.gather, a)
<1>1. CASE w = <<Msg("answer", a)>> /\ P.gather = a
  <2>1. Tail(w) = <<>> /\ w[1] = Msg("answer", a)
    BY <1>1
  <2> QED
    BY <1>1, <2>1 DEF Once
<1>2. CASE w = <<Msg("answer", a), Msg("ice", a)>> /\ P.gather = None
  <2>1. PICK m, n : m = Msg("answer", a) /\ n = Msg("ice", a)
    OBVIOUS
  <2>2. w = <<m, n>>
    BY <1>2, <2>1
  <2>3. w[1] = m /\ w[2] = n /\ Len(w) = 2 /\ n \in Mail
    BY <2>1, <2>2 DEF Msg, Mail, ToServer, Descs
  <2>4. PICK y \in Seq(Mail) : y = Tail(w)
    BY <2>2, <2>3, Tailed, EmptySeq
  <2>5. w # <<>> /\ Len(y) = Len(w) - 1 /\ \A i \in 1..Len(y) : y[i] = w[i + 1]
    BY <2>2, <2>4, Tailed
  <2>6. Len(y) = 1 /\ 1 \in 1..Len(y)
    BY <2>3, <2>5
  <2>7. y[1] = n
    BY <2>3, <2>5, <2>6
  <2>8. <<n>> \in Seq(Mail) /\ Len(<<n>>) = 1 /\ <<n>>[1] = n /\ \A i \in 1..1 : i = 1
    BY <2>3
  <2>9. y = <<n>>
    BY <2>6, <2>7, <2>8, SeqEqual
  <2> QED
    BY <1>2, <2>1, <2>3, <2>4, <2>9 DEF Once
<1> QED
  BY <1>1, <1>2 DEF FirstAnswerSent

LEMMA AnswerHeard ==
    ASSUME NEW p, NEW s \in Seq(Steps), NEW q, NEW P \in PCs \cup {None}, NEW S, NEW Q, NEW v,
           NEW w \in Seq(Mail), w # <<>>, Exchange(p, s, q, P, S, Q, v, w), w[1].type = "answer",
           NEW t \in Seq(Steps), t = Append(s, AnswerOp(w[1].d)), NEW u \in Seq(Mail), u = Tail(w)
    PROVE  Exchange(p, t, q, P, S, Q, v, u)
<1>1. ASSUME NEW k, NEW m, Side(p, s, q, w, 0, k, m) PROVE FALSE
  <2>1. PICK i \in Nat : i = 0 /\ Ices(w, i)
    BY <1>1 DEF Side
  <2>2. w[1].type = "ice" \/ i = 1
    BY <2>1, TokenFirst
  <2> QED
    BY <2>1, <2>2
<1>2. ASSUME NEW d \in Desc, First(p, s, q, P, S, Q, v, w, d) PROVE Exchange(p, t, q, P, S, Q, v, u)
  <2>1. \E a \in Desc :
            /\ HasAnswered(p, P, S, Q, v, d, a)
            /\ \/ s = <<>> /\ q = <<>> /\ FirstAnswerSent(P, w, a)
               \/ s = <<AnswerOp(a)>> /\ Once(w, q, P.gather, a)
    BY <1>2 DEF First
  <2>2. PICK a \in Desc :
            /\ HasAnswered(p, P, S, Q, v, d, a)
            /\ \/ s = <<>> /\ q = <<>> /\ FirstAnswerSent(P, w, a)
               \/ s = <<AnswerOp(a)>> /\ Once(w, q, P.gather, a)
    BY <2>1
  <2>3. ~Once(w, q, P.gather, a)
    <3>1. w = <<Msg("ice", a)>> => w[1] = Msg("ice", a)
      OBVIOUS
    <3> QED
      BY <3>1 DEF Once, Msg
  <2>4. P \in PCs
    BY <2>2 DEF HasAnswered, Side
  <2>5. w[1] = Msg("answer", a) /\ Once(u, <<>>, P.gather, a)
    BY <2>2, <2>3, <2>4, FirstAnswerHeard
  <2>6. t = <<AnswerOp(a)>>
    <3>1. w[1].d = a /\ s = <<>>
      BY <2>2, <2>3, <2>5 DEF Msg
    <3>2. t = Append(<<>>, AnswerOp(a))
      BY <3>1
    <3>3. PICK op : op = AnswerOp(a)
      OBVIOUS
    <3> QED
      BY <3>2, <3>3
  <2> QED
    BY <1>2, <2>2, <2>3, <2>5, <2>6 DEF First, Exchange
<1>3. ASSUME NEW d \in Desc, NEW a \in Desc, AnswerSent(p, s, q, P, S, Q, v, w, d, a)
      PROVE  AnswerTaken(p, t, q, P, S, Q, v, u, d, a)
  <2>1. PICK i, k \in Nat :
            /\ Side(p, s, q, w, i, k, 0) /\ Offered(p, s, k, d)
            /\ HasAnswered(p, P, S, Q, v, d, a)
            /\ i # 0 /\ w[i] = Msg("answer", a)
            /\ P.gather = a \/ Comes(w, i, s, 0, p.added, a)
    BY <1>3 DEF AnswerSent
  <2>2. i = 1
    BY <2>1, TokenFirst DEF Side
  <2>3. w[1].d = a
    BY <2>1, <2>2 DEF Msg
  <2>4. PICK op : op = AnswerOp(a)
    OBVIOUS
  <2>5. op \in Steps /\ Core(op) /\ ~Drain(op) /\ t = Append(s, op)
    BY <2>3, <2>4, NewTypes DEF Core, Drain, Op, Descs, AnswerOp
  <2>6. PICK K \in Nat : K = Len(t)
    BY LenProperties
  <2>7. /\ t[K] = op /\ K # 0
        /\ k = 0 => Cores(t, K, 0)
        /\ k # 0 => Cores(t, k, K)
    <3>1. Cores(s, k, 0)
      BY <2>1 DEF Side
    <3> QED
      BY <2>5, <2>6, <3>1, CoresAsk
  <2>8. k # 0 => t[k] = s[k]
    <3>1. k # 0 => k \in 1..Len(s)
      <4>1. k \in 0..Len(s) /\ Len(s) \in Nat
        BY <2>1, LenProperties DEF Side, Cores
      <4> QED
        BY <4>1
    <3> QED
      BY <2>5, <3>1, Stays
  <2>9. Tidy(t, q, Remote(p))
    BY <2>1, <2>5, TidyMore DEF Side
  <2>10. Ices(u, 0)
    <3>1. Ices(w, i) /\ Less(i) = 0
      BY <2>1, <2>2 DEF Side, Less
    <3>2. Ices(u, Less(i))
      BY <3>1, IcesTail
    <3> QED
      BY <3>1, <3>2
  <2>11. P.gather = a \/ Comes(u, 0, t, K, p.added, a)
    BY <2>1, <2>2, ComesTaken
  <2>12. CASE k = 0
    <3>1. Side(p, t, q, u, 0, K, 0) /\ p.sig = "local" /\ p.pending = d
      BY <2>1, <2>7, <2>9, <2>10, <2>12 DEF Side, Offered
    <3>2. /\ Side(p, t, q, u, 0, K, 0)
          /\ HasAnswered(p, P, S, Q, v, d, a)
          /\ p.sig = "local" /\ p.pending = d /\ K # 0 /\ t[K] = AnswerOp(a)
          /\ P.gather = a \/ Comes(u, 0, t, K, p.added, a)
      BY <2>1, <2>4, <2>7, <2>11, <3>1
    <3> QED
      BY <3>2 DEF AnswerTaken
  <2>13. CASE k # 0
    <3>1. Side(p, t, q, u, 0, k, K) /\ p.sig = "stable" /\ Offered(p, t, k, d)
      BY <2>1, <2>7, <2>8, <2>9, <2>10, <2>13 DEF Side, Offered
    <3>2. /\ Side(p, t, q, u, 0, k, K)
          /\ HasAnswered(p, P, S, Q, v, d, a)
          /\ p.sig = "stable" /\ Offered(p, t, k, d) /\ K # 0 /\ t[K] = AnswerOp(a)
          /\ P.gather = a \/ Comes(u, 0, t, K, p.added, a)
      BY <2>1, <2>4, <2>7, <2>11, <3>1
    <3> QED
      BY <3>2 DEF AnswerTaken
  <2> QED
    BY <2>12, <2>13
<1> QED
  BY <1>1, <1>2, <1>3 DEF Exchange, Fit, Again, Sent, Taken, BeingAnswered, AnswerTaken

\* A candidate that comes before the description is queued.
LEMMA OffererQueues ==
    ASSUME NEW p, NEW s, NEW q, NEW P, NEW S, NEW Q, NEW v,
           NEW w \in Seq(Mail), w # <<>>, Exchange(p, s, q, P, S, Q, v, w),
           w[1].type = "ice", p = None \/ Remote(p) = None,
           NEW r, r = Append(q, w[1].d)
    PROVE  Exchange(p, s, r, P, S, Q, v, Tail(w))
<1>1. ASSUME NEW i, NEW k, NEW m, Side(p, s, q, w, i, k, m) PROVE FALSE
  BY <1>1 DEF Side
<1>2. ASSUME NEW d \in Desc, First(p, s, q, P, S, Q, v, w, d)
      PROVE  First(p, s, r, P, S, Q, v, Tail(w), d)
  <2>1. \E a \in Desc :
            /\ HasAnswered(p, P, S, Q, v, d, a)
            /\ \/ s = <<>> /\ q = <<>> /\ FirstAnswerSent(P, w, a)
               \/ s = <<AnswerOp(a)>> /\ Once(w, q, P.gather, a)
    BY <1>2 DEF First
  <2>2. PICK a \in Desc :
            /\ HasAnswered(p, P, S, Q, v, d, a)
            /\ \/ s = <<>> /\ q = <<>> /\ FirstAnswerSent(P, w, a)
               \/ s = <<AnswerOp(a)>> /\ Once(w, q, P.gather, a)
    BY <2>1
  <2>3. ~FirstAnswerSent(P, w, a)
    <3>1. w = <<Msg("answer", a)>> \/ w = <<Msg("answer", a), Msg("ice", a)>> => w[1] = Msg("answer", a)
      OBVIOUS
    <3> QED
      BY <3>1 DEF FirstAnswerSent, Msg
  <2>4. w = <<Msg("ice", a)>> /\ q = <<>> /\ P.gather = None
    BY <2>2, <2>3 DEF Once
  <2>5. w[1].d = a /\ Tail(w) = <<>>
    BY <2>4 DEF Msg
  <2>6. r = <<a>>
    BY <2>4, <2>5
  <2> QED
    BY <1>2, <2>2, <2>3, <2>4, <2>5, <2>6 DEF First, Once
<1> QED
  BY <1>1, <1>2 DEF Exchange, Fit, Again, Sent, Taken, BeingAnswered, AnswerSent, AnswerTaken

LEMMA AnswererQueues ==
    ASSUME NEW p, NEW s, NEW q, NEW P, NEW S, NEW Q, NEW v \in Seq(Mail), v # <<>>,
           NEW w, Exchange(p, s, q, P, S, Q, v, w), v[1].type = "ice", P # None, Remote(P) = None,
           NEW R, R = Append(Q, v[1].d)
    PROVE  Exchange(p, s, q, P, S, R, Tail(v), w)
<1>1. ASSUME NEW i, NEW k, NEW m, Side(P, S, Q, v, i, k, m) PROVE FALSE
  BY <1>1 DEF Side
<1>2. PICK d \in Desc : First(p, s, q, P, S, Q, v, w, d)
  BY <1>1 DEF Exchange, Fit, Again, Sent, Taken, BeingAnswered, AnswersAt, AnswerSent, AnswerTaken,
              HasAnswered
<1>3. Unanswered(p, d) /\ s = <<>> /\ q = <<>> /\ w = <<>>
      /\ P = NewPC /\ S = <<Op("setRemoteOffer", "fresh", d)>> /\ Once(v, Q, p.gather, d)
  BY <1>1, <1>2 DEF First, AnswersAt, HasAnswered
<1>4. v = <<Msg("ice", d)>> /\ Q = <<>> /\ p.gather = None
  BY <1>3 DEF Once
<1>5. v[1].d = d /\ Tail(v) = <<>>
  BY <1>4 DEF Msg
<1>6. R = <<d>>
  BY <1>4, <1>5
<1> QED
  BY <1>3, <1>4, <1>5, <1>6 DEF First, Once, Exchange

-----------------------------------------------------------------------------
(* An operation of the exchange is done                                    *)

LEMMA ChainDone ==
    ASSUME NEW s \in Seq(Steps), s # <<>>, Core(s[1]), NEW k \in Nat, NEW m \in Nat, Cores(s, k, m),
           NEW q, NEW e, Tidy(s, q, e), NEW t \in Seq(Steps), t = Tail(s), NEW f
    PROVE  /\ k = 1 /\ Cores(t, Less(m), 0) /\ Tidy(t, <<>>, f) /\ (~Drain(s[1]) => q = <<>>)
           /\ m # 0 => Less(m) # 0 /\ t[Less(m)] = s[m]
           /\ Less(m) \in Nat
<1>1. k = 1 /\ Cores(t, Less(m), 0) /\ m # 1 /\ (m # 0 => Less(m) # 0)
  BY CoresDone
<1>2. Tidy(t, <<>>, f) /\ (~Drain(s[1]) => q = <<>>)
  BY TidyPop
<1>3. m \in 0..Len(s) /\ Len(s) \in Nat
  BY LenProperties DEF Cores
<1>4. m # 0 => t[Less(m)] = s[m]
  BY <1>1, <1>3, Shifts
<1>5. Less(m) \in Nat
  BY DEF Less
<1> QED
  BY <1>1, <1>2, <1>4, <1>5

LEMMA ChainOn ==
    ASSUME NEW s \in Seq(Steps), s # <<>>, Core(s[1]), NEW k \in Nat, Cores(s, k, 0),
           NEW q, NEW e, Tidy(s, q, e), NEW x \in Steps, Core(x), ~Drain(x),
           NEW t \in Seq(Steps), t = Append(Tail(s), x), NEW f
    PROVE  \E l \in Nat : k = 1 /\ l # 0 /\ t[l] = x /\ Cores(t, l, 0) /\ Tidy(t, <<>>, f)
<1>1. PICK h \in Seq(Steps) : h = Tail(s)
  BY Tailed
<1>2. PICK z \in Nat : z = 0
  OBVIOUS
<1>3. Less(z) = z /\ Cores(s, k, z)
  BY <1>2 DEF Less
<1>4. k = 1 /\ Cores(h, Less(z), 0) /\ Tidy(h, <<>>, f)
  BY <1>1, <1>3, ChainDone
<1>5. Cores(h, z, 0) /\ t = Append(h, x)
  BY <1>1, <1>3, <1>4
<1>6. /\ t[Len(t)] = x /\ Len(t) \in Nat /\ Len(t) # 0 /\ Cores(t, Len(t), 0)
  BY <1>2, <1>5, CoresAsk
<1>7. Tidy(t, <<>>, f)
  BY <1>4, <1>5, TidyMore
<1> QED
  BY <1>4, <1>6, <1>7

\* What the end that offers works on.
LEMMA OffererWorks ==
    ASSUME NEW p, NEW s \in Seq(Steps), s # <<>>, Core(s[1]), NEW q, NEW P, NEW S, NEW Q, NEW v, NEW w,
           Exchange(p, s, q, P, S, Q, v, w)
    PROVE  \/ /\ s[1] = Op("createOffer", "restart", None) /\ p.sig = "stable"
              /\ Again(p, s, q, P, S, Q, v, w)
           \/ /\ s[1].do = "setLocalOffer" /\ s[1].task = "restart" /\ s[1].d = p.offer
              /\ p.sig = "stable"
              /\ \E d \in Desc :
                    /\ s[1].d = d
                    /\ \/ Sent(p, s, q, P, S, Q, v, w, d)
                       \/ Taken(p, s, q, P, S, Q, v, w, d)
                       \/ BeingAnswered(p, s, q, P, S, Q, v, w, d)
                       \/ \E a \in Desc :
                            \/ AnswerSent(p, s, q, P, S, Q, v, w, d, a)
                            \/ AnswerTaken(p, s, q, P, S, Q, v, w, d, a)
           \/ \E d \in Desc, a \in Desc :
                /\ s[1] = AnswerOp(a) /\ p.sig = "local" /\ p.pending = d
                /\ First(p, s, q, P, S, Q, v, w, d) \/ AnswerTaken(p, s, q, P, S, Q, v, w, d, a)
<1>1. ASSUME NEW i, NEW k \in Nat, NEW m \in Nat, Side(p, s, q, w, i, k, m) PROVE k = 1
  <2>1. Cores(s, k, m)
    BY <1>1 DEF Side
  <2> QED
    BY <2>1, CoresHead
<1>2. ~Fit(p, s, q, P, S, Q, v, w)
  <2>1. PICK z \in Nat : z = 0
    OBVIOUS
  <2> QED
    BY <1>1, <2>1 DEF Fit
<1>3. CASE Again(p, s, q, P, S, Q, v, w)
  <2>1. PICK k \in Nat : /\ Side(p, s, q, w, 0, k, 0) /\ s[k] = Op("createOffer", "restart", None)
                         /\ p.sig = "stable"
    BY <1>3 DEF Again
  <2>2. k = 1
    BY <1>1, <2>1
  <2> QED
    BY <1>3, <2>1, <2>2
<1>4. ASSUME NEW i, NEW k \in Nat, NEW m \in Nat, Side(p, s, q, w, i, k, m), NEW d, Offered(p, s, k, d)
      PROVE  /\ s[1].do = "setLocalOffer" /\ s[1].task = "restart" /\ s[1].d = d /\ d = p.offer
             /\ p.sig = "stable"
  <2>1. k = 1
    BY <1>1, <1>4
  <2> QED
    BY <1>4, <2>1 DEF Offered
<1>5. ASSUME NEW d \in Desc, First(p, s, q, P, S, Q, v, w, d)
      PROVE  \E a \in Desc : s[1] = AnswerOp(a) /\ p.sig = "local" /\ p.pending = d
  BY <1>5 DEF First, Unanswered
<1>6. ASSUME NEW d \in Desc,
             \/ Sent(p, s, q, P, S, Q, v, w, d)
             \/ Taken(p, s, q, P, S, Q, v, w, d)
             \/ BeingAnswered(p, s, q, P, S, Q, v, w, d)
             \/ \E a \in Desc : AnswerSent(p, s, q, P, S, Q, v, w, d, a)
      PROVE  /\ s[1].do = "setLocalOffer" /\ s[1].task = "restart" /\ s[1].d = d /\ d = p.offer
             /\ p.sig = "stable"
  BY <1>4, <1>6 DEF Sent, Taken, BeingAnswered, AnswerSent
<1>7. ASSUME NEW d \in Desc, NEW a \in Desc, AnswerTaken(p, s, q, P, S, Q, v, w, d, a)
      PROVE  \/ s[1] = AnswerOp(a) /\ p.sig = "local" /\ p.pending = d
             \/ /\ s[1].do = "setLocalOffer" /\ s[1].task = "restart" /\ s[1].d = d /\ d = p.offer
                /\ p.sig = "stable"
  <2>1. PICK k, m \in Nat :
        /\ Side(p, s, q, w, 0, k, m)
        /\ \/ p.sig = "local" /\ p.pending = d /\ k # 0 /\ m = 0 /\ s[k] = AnswerOp(a)
           \/ p.sig = "stable" /\ Offered(p, s, k, d) /\ m # 0 /\ s[m] = AnswerOp(a)
    BY <1>7 DEF AnswerTaken
  <2>2. k = 1
    BY <1>1, <2>1
  <2> QED
    BY <1>4, <2>1, <2>2
<1> QED
  BY <1>2, <1>3, <1>5, <1>6, <1>7 DEF Exchange

\* The offer of an ICE restart is made, and sent.
LEMMA RestartSent ==
    ASSUME NEW p \in PCs, NEW s \in Seq(Steps), s # <<>>, s[1].do = "createOffer", NEW q,
           NEW P, NEW S, NEW Q, NEW v \in Seq(Mail), NEW w, Exchange(p, s, q, P, S, Q, v, w),
           NEW x \in Desc, NEW n \in PCs, n = [p EXCEPT !.offer = x],
           NEW t \in Seq(Steps), t = Append(Tail(s), Then(s[1], "setLocalOffer", x)),
           NEW y \in Seq(Mail), y = Append(v, Msg("offer", x))
    PROVE  Exchange(n, t, q, P, S, Q, y, w)
<1>0. n # None /\ Remote(n) = Remote(p) /\ n.sig = p.sig /\ n.offer = x
  BY NoneAssumption DEF PCs, Remote
<1>1. Core(s[1]) /\ ~Drain(s[1])
  BY DEF Core, Drain
<1>2. s[1] = Op("createOffer", "restart", None) /\ Again(p, s, q, P, S, Q, v, w)
  <2>1. \A a : AnswerOp(a).do = "setRemoteAnswer"
    BY DEF AnswerOp, Op
  <2>2. s[1].do # "setLocalOffer" /\ \A a : s[1] # AnswerOp(a)
    BY <2>1
  <2> QED
    BY <1>1, <2>2, OffererWorks
<1>3. PICK k \in Nat :
        /\ Side(p, s, q, w, 0, k, 0) /\ Side(P, S, Q, v, 0, 0, 0)
        /\ p.sig = "stable" /\ P.sig = "stable"
  BY <1>2 DEF Again
<1>4. PICK op : op = Then(s[1], "setLocalOffer", x)
  OBVIOUS
<1>5. op.do = "setLocalOffer" /\ op.task = "restart" /\ op.d = x
  BY <1>2, <1>4 DEF Then, Op
<1>6. op \in Steps /\ Core(op) /\ ~Drain(op)
  <2>1. s[1] \in Steps /\ x \in Descs
    BY Tailed DEF Descs
  <2> QED
    BY <1>4, <1>5, <2>1, ThenType DEF Core, Drain
<1>7. PICK l \in Nat : k = 1 /\ l # 0 /\ t[l] = op /\ Cores(t, l, 0) /\ Tidy(t, <<>>, Remote(n))
  <2>1. Cores(s, k, 0) /\ Tidy(s, q, Remote(p)) /\ t = Append(Tail(s), op)
    BY <1>3, <1>4 DEF Side
  <2> QED
    BY <1>1, <1>6, <2>1, ChainOn
<1>8. q = <<>>
  <2>1. Tidy(s, q, Remote(p))
    BY <1>3 DEF Side
  <2>2. PICK h \in Seq(Steps) : h = Tail(s)
    BY Tailed
  <2> QED
    BY <1>1, <2>1, <2>2, TidyPop
<1>9. Side(n, t, q, w, 0, l, 0)
  BY <1>0, <1>3, <1>7, <1>8 DEF Side
<1>10. Offered(n, t, l, x)
  BY <1>0, <1>3, <1>5, <1>7 DEF Offered
<1>11. PICK m \in Mail : m = Msg("offer", x)
  BY DEF Msg, Mail, ToServer, Descs
<1>12. Ices(y, Len(y)) /\ Len(y) \in Nat /\ Len(y) # 0 /\ y[Len(y)] = m
  BY <1>3, <1>11, IcesSent DEF Side
<1>13. Side(P, S, Q, y, Len(y), 0, 0)
  BY <1>3, <1>12 DEF Side
<1>14. ToGather(n, x)
  BY <1>0, <1>3 DEF ToGather
<1> QED
  BY <1>3, <1>9, <1>10, <1>11, <1>12, <1>13, <1>14 DEF Sent, Exchange

\* The offer of an ICE restart is set.
LEMMA LocalOfferSet ==
    ASSUME NEW p \in PCs, NEW s \in Seq(Steps), s # <<>>, s[1].do = "setLocalOffer", NEW q,
           NEW P, NEW S, NEW Q, NEW v, NEW w, Exchange(p, s, q, P, S, Q, v, w),
           NEW n \in PCs, n = After(p, s[1], None), NEW t \in Seq(Steps), t = Tail(s)
    PROVE  Exchange(n, t, q, P, S, Q, v, w)
<1>1. Core(s[1]) /\ ~Drain(s[1])
  BY DEF Core, Drain
<1>2. /\ n.sig = "local" /\ n.remote = p.remote /\ n.local = p.local /\ n.pending = s[1].d
      /\ n.gather = s[1].d /\ n.added = p.added
  BY DEF After, PCs
<1>3. PICK d \in Desc :
        /\ s[1].d = d /\ p.sig = "stable"
        /\ \/ Sent(p, s, q, P, S, Q, v, w, d)
           \/ Taken(p, s, q, P, S, Q, v, w, d)
           \/ BeingAnswered(p, s, q, P, S, Q, v, w, d)
           \/ \E a \in Desc :
                \/ AnswerSent(p, s, q, P, S, Q, v, w, d, a)
                \/ AnswerTaken(p, s, q, P, S, Q, v, w, d, a)
  <2>1. \A a : AnswerOp(a).do = "setRemoteAnswer"
    BY DEF AnswerOp, Op
  <2>2. Op("createOffer", "restart", None).do = "createOffer"
    BY DEF Op
  <2>3. s[1] # Op("createOffer", "restart", None) /\ \A a : s[1] # AnswerOp(a)
    BY <2>1, <2>2
  <2> QED
    BY <1>1, <2>3, OffererWorks
<1>4. n # None /\ Remote(n) = Remote(p) /\ ToGather(n, d) /\ \A l : Offered(n, l, 0, d)
  BY <1>2, <1>3, NoneAssumption DEF Remote, ToGather, Offered
<1>5. ASSUME NEW i, NEW k \in Nat, NEW m \in Nat, Side(p, s, q, w, i, k, m)
      PROVE  /\ k = 1 /\ Less(m) \in Nat /\ Side(n, t, q, w, i, Less(m), 0)
             /\ m # 0 => Less(m) # 0 /\ t[Less(m)] = s[m]
  <2>0. PICK e, f : e = Remote(p) /\ f = Remote(n)
    OBVIOUS
  <2>1. Cores(s, k, m) /\ Tidy(s, q, e) /\ Core(s[1])
    BY <1>1, <1>5, <2>0 DEF Side
  <2>3. /\ k = 1 /\ Cores(t, Less(m), 0) /\ Tidy(t, <<>>, f) /\ (~Drain(s[1]) => q = <<>>)
        /\ m # 0 => Less(m) # 0 /\ t[Less(m)] = s[m]
        /\ Less(m) \in Nat
    <3>1. k = 1 /\ Cores(t, Less(m), 0) /\ m # 1 /\ (m # 0 => Less(m) # 0)
      BY <2>1, CoresDone
    <3>2. Tidy(t, <<>>, f) /\ (~Drain(s[1]) => q = <<>>)
      BY <2>1, TidyPop
    <3>3. m \in 0..Len(s) /\ Len(s) \in Nat
      BY <2>1, LenProperties DEF Cores
    <3>4. m # 0 => t[Less(m)] = s[m]
      BY <3>1, <3>3, Shifts
    <3>5. Less(m) \in Nat
      BY DEF Less
    <3> QED
      BY <3>1, <3>2, <3>4, <3>5
  <2>2. /\ k = 1 /\ Cores(t, Less(m), 0) /\ Tidy(t, <<>>, Remote(n)) /\ q = <<>>
        /\ m # 0 => Less(m) # 0 /\ t[Less(m)] = s[m]
        /\ Less(m) \in Nat
    BY <1>1, <2>0, <2>3
  <2> QED
    BY <1>4, <1>5, <2>2 DEF Side
<1>6. ASSUME NEW i, NEW k \in Nat, Side(p, s, q, w, i, k, 0) PROVE Side(n, t, q, w, i, 0, 0)
  <2>1. PICK m \in Nat : m = 0
    OBVIOUS
  <2>2. Side(n, t, q, w, i, Less(m), 0) /\ Less(m) = 0
    BY <1>5, <1>6, <2>1 DEF Less
  <2> QED
    BY <2>2
<1>7. ASSUME NEW a, HasAnswered(p, P, S, Q, v, d, a) PROVE HasAnswered(n, P, S, Q, v, d, a)
  BY <1>4, <1>7 DEF HasAnswered
<1>8. PICK z \in Nat : z = 0
  OBVIOUS
<1>9. CASE Sent(p, s, q, P, S, Q, v, w, d)
  <2>1. PICK j, k \in Nat :
        /\ Side(p, s, q, w, 0, k, 0)
        /\ Side(P, S, Q, v, j, 0, 0) /\ P.sig = "stable"
        /\ j # 0 /\ v[j] = Msg("offer", d)
    BY <1>9 DEF Sent
  <2>2. Side(n, t, q, w, 0, z, 0) /\ Offered(n, t, z, d)
    BY <1>4, <1>6, <1>8, <2>1
  <2> QED
    BY <1>4, <2>1, <2>2 DEF Sent, Exchange
<1>10. CASE Taken(p, s, q, P, S, Q, v, w, d)
  <2>1. PICK k, K \in Nat :
        /\ Side(p, s, q, w, 0, k, 0)
        /\ Side(P, S, Q, v, 0, K, 0) /\ P.sig = "stable"
        /\ K # 0 /\ S[K] = Op("setRemoteOffer", "existing", d)
    BY <1>10 DEF Taken
  <2>2. Side(n, t, q, w, 0, z, 0) /\ Offered(n, t, z, d)
    BY <1>4, <1>6, <1>8, <2>1
  <2> QED
    BY <1>4, <2>1, <2>2 DEF Taken, Exchange
<1>11. CASE BeingAnswered(p, s, q, P, S, Q, v, w, d)
  <2>1. PICK k, K \in Nat : Side(p, s, q, w, 0, k, 0) /\ AnswersAt(p, P, S, Q, v, d, K)
    BY <1>11 DEF BeingAnswered
  <2>2. Side(n, t, q, w, 0, z, 0) /\ Offered(n, t, z, d)
    BY <1>4, <1>6, <1>8, <2>1
  <2>3. AnswersAt(n, P, S, Q, v, d, K)
    BY <1>4, <2>1 DEF AnswersAt
  <2> QED
    BY <2>2, <2>3 DEF BeingAnswered, Exchange
<1>12. ASSUME NEW a \in Desc, AnswerSent(p, s, q, P, S, Q, v, w, d, a)
       PROVE  AnswerSent(n, t, q, P, S, Q, v, w, d, a)
  <2>1. PICK i, k \in Nat :
        /\ Side(p, s, q, w, i, k, 0)
        /\ HasAnswered(p, P, S, Q, v, d, a)
        /\ i # 0 /\ w[i] = Msg("answer", a)
        /\ P.gather = a \/ Comes(w, i, s, 0, p.added, a)
    BY <1>12 DEF AnswerSent
  <2>2. Side(n, t, q, w, i, z, 0) /\ Offered(n, t, z, d)
    BY <1>4, <1>6, <1>8, <2>1
  <2>3. P.gather = a \/ Comes(w, i, t, 0, n.added, a)
    BY <2>1 DEF Comes
  <2> QED
    BY <1>7, <2>1, <2>2, <2>3 DEF AnswerSent
<1>13. ASSUME NEW a \in Desc, AnswerTaken(p, s, q, P, S, Q, v, w, d, a)
       PROVE  AnswerTaken(n, t, q, P, S, Q, v, w, d, a)
  <2>1. PICK k, m \in Nat :
        /\ Side(p, s, q, w, 0, k, m)
        /\ HasAnswered(p, P, S, Q, v, d, a)
        /\ m # 0 /\ s[m] = AnswerOp(a)
        /\ P.gather = a \/ Comes(w, 0, s, m, p.added, a)
    BY <1>3, <1>13 DEF AnswerTaken
  <2>2. Side(n, t, q, w, 0, Less(m), 0) /\ Less(m) \in Nat /\ Less(m) # 0 /\ t[Less(m)] = AnswerOp(a)
    BY <1>5, <2>1
  <2>3. m \in 0..Len(s) /\ s # <<>> /\ n.added = p.added
    BY <1>2, <2>1 DEF Side, Cores
  <2>4. ASSUME Comes(w, 0, s, m, p.added, a) PROVE Comes(w, 0, t, Less(m), n.added, a)
    <3>1. Comes(w, z, s, m, p.added, a) /\ p.added \subseteq n.added /\ m # 0
      BY <1>8, <2>1, <2>3, <2>4
    <3>2. Comes(w, z, t, Less(m), n.added, a)
      BY <2>3, <3>1, ComesAdded
    <3> QED
      BY <1>8, <3>2
  <2>5. P.gather = a \/ Comes(w, 0, t, Less(m), n.added, a)
    BY <2>1, <2>4
  <2>6. n.sig = "local" /\ n.pending = d
    BY <1>2, <1>3
  <2>7. HasAnswered(n, P, S, Q, v, d, a)
    BY <1>7, <2>1
  <2>8. PICK l \in Nat : l = Less(m)
    BY <2>2
  <2>9. /\ Side(n, t, q, w, 0, l, z) /\ z = 0
        /\ l # 0 /\ t[l] = AnswerOp(a)
        /\ P.gather = a \/ Comes(w, 0, t, l, n.added, a)
    BY <1>8, <2>2, <2>5, <2>8
  <2> QED
    BY <2>6, <2>7, <2>9 DEF AnswerTaken
<1> QED
  BY <1>3, <1>9, <1>10, <1>11, <1>12, <1>13 DEF Exchange

\* A chain of one operation, and the empty one.
LEMMA OneStep ==
    ASSUME NEW x \in Steps
    PROVE  /\ <<x>> \in Seq(Steps) /\ Len(<<x>>) = 1 /\ <<x>>[1] = x /\ <<x>> # <<>>
           /\ <<>> \o <<x>> = <<x>>
<1>0. <<x>> \in Seq(Steps)
  OBVIOUS
<1>1. PICK y : y \in Seq(Steps) /\ y = <<x>>
  BY <1>0
<1>2. <<>> \o y = y
  BY <1>1, ConcatEmptySeq
<1> QED
  BY <1>0, <1>1, <1>2

LEMMA NoSteps ==
    ASSUME NEW e
    PROVE  Cores(<<>>, 0, 0) /\ Tidy(<<>>, <<>>, e)
<1>1. Len(<<>>) = 0 /\ \A x \in 1..0 : FALSE
  OBVIOUS
<1> QED
  BY <1>1 DEF Cores, Tidy

\* The answer is set, and the two ends fit.
LEMMA NowFit ==
    ASSUME NEW p, NEW P \in PCs, NEW S, NEW Q, NEW v, NEW w, NEW d \in Desc, NEW a \in Desc,
           p.sig = "local", HasAnswered(p, P, S, Q, v, d, a),
           NEW n, NEW t, NEW q, n.sig = "stable", n.local = d, n.remote = a, n.gather = p.gather,
           Side(n, t, q, w, 0, 0, 0), P.gather = a \/ Comes(w, 0, t, 0, n.added, a)
    PROVE  Fit(n, t, q, P, S, Q, v, w)
<1>1. /\ Side(P, S, Q, v, 0, 0, 0) /\ P.sig = "stable" /\ P.local = a /\ P.remote = d
      /\ p.gather = d \/ Comes(v, 0, S, 0, P.added, d)
  BY DEF HasAnswered, Answered, ToGather
<1>2. d # None /\ a # None
  BY NoneAssumption
<1> QED
  BY <1>1, <1>2 DEF Fit

LEMMA AnswerSet ==
    ASSUME NEW p \in PCs, NEW s \in Seq(Steps), s # <<>>, s[1].do = "setRemoteAnswer", NEW q,
           NEW P \in PCs \cup {None}, NEW S, NEW Q, NEW v, NEW w, Exchange(p, s, q, P, S, Q, v, w),
           NEW n \in PCs, n = After(p, s[1], None),
           NEW t \in Seq(Steps), t = Tail(s) \o AddRest(s[1], q)
    PROVE  p.sig = "local" /\ Exchange(n, t, q, P, S, Q, v, w)
<1>1. Core(s[1]) /\ ~Drain(s[1])
  BY DEF Core, Drain
<1>2. PICK d \in Desc, a \in Desc :
        /\ s[1] = AnswerOp(a) /\ p.sig = "local" /\ p.pending = d
        /\ First(p, s, q, P, S, Q, v, w, d) \/ AnswerTaken(p, s, q, P, S, Q, v, w, d, a)
  <2>1. Op("createOffer", "restart", None).do = "createOffer"
    BY DEF Op
  <2>2. s[1] # Op("createOffer", "restart", None)
    BY <2>1
  <2> QED
    BY <1>1, <2>2, OffererWorks
<1>3. s[1].d = a /\ s[1].task = "answer"
  BY <1>2 DEF AnswerOp, Op
<1>4. /\ n.sig = "stable" /\ n.remote = a /\ n.local = d
      /\ n.gather = p.gather /\ n.added = p.added
  BY <1>2, <1>3 DEF After, PCs
<1>5. n # None /\ Remote(n) = a /\ a # None
  BY <1>4, NoneAssumption DEF Remote
<1>6. PICK z \in Nat : z = 0
  OBVIOUS
<1>7. CASE First(p, s, q, P, S, Q, v, w, d)
  <2>1. PICK b \in Desc :
          /\ HasAnswered(p, P, S, Q, v, d, b)
          /\ \/ s = <<>> /\ q = <<>> /\ FirstAnswerSent(P, w, b)
             \/ s = <<AnswerOp(b)>> /\ Once(w, q, P.gather, b)
    BY <1>7 DEF First
  <2>2. s = <<AnswerOp(b)>> /\ Once(w, q, P.gather, b)
    BY <2>1
  <2>3. b = a
    <3>1. s[1] = AnswerOp(b)
      BY <2>2
    <3> QED
      BY <1>3, <3>1 DEF AnswerOp, Op
  <2>4. Tail(s) = <<>>
    <3>1. PICK x : x = AnswerOp(b)
      OBVIOUS
    <3> QED
      BY <2>2, <3>1
  <2>5. P \in PCs
    BY <2>1 DEF HasAnswered, Side
  <2>6. Ices(w, 0)
    <3>1. ASSUME w = <<Msg("ice", a)>> PROVE Ices(w, 0)
      <4>1. PICK x : x = Msg("ice", a)
        OBVIOUS
      <4>2. w = <<x>> /\ x.type = "ice"
        BY <3>1, <4>1 DEF Msg
      <4>3. Len(w) = 1 /\ w[1] = x /\ \A y \in 1..1 : y = 1
        BY <4>2
      <4> QED
        BY <4>2, <4>3 DEF Ices
    <3>2. w = <<>> \/ w = <<Msg("ice", a)>>
      BY <2>2, <2>3 DEF Once
    <3> QED
      BY <3>1, <3>2, IcesNone
  <2>7. CASE q = <<>>
    <3>1. t = <<>>
      <4>1. AddRest(s[1], q) = <<>>
        BY <1>3, <2>7 DEF AddRest
      <4> QED
        BY <2>4, <4>1
    <3>2. Side(n, t, q, w, 0, 0, 0)
      <4>1. Cores(t, 0, 0) /\ Tidy(t, q, Remote(n))
        BY <2>7, <3>1, NoSteps, Zenon
      <4> QED
        BY <1>5, <2>6, <4>1 DEF Side
    <3>3. P.gather = a \/ Comes(w, 0, t, 0, n.added, a)
      <4>1. P.gather = a \/ w = <<Msg("ice", a)>>
        BY <2>2, <2>3, <2>7 DEF Once
      <4>2. ASSUME w = <<Msg("ice", a)>> PROVE Comes(w, 0, t, 0, n.added, a)
        <5>1. PICK x : x = Msg("ice", a)
          OBVIOUS
        <5>2. w = <<x>>
          BY <4>2, <5>1
        <5>3. Len(w) = 1 /\ w[1] = x /\ 1 \in 1..Len(w) /\ 1 > 0
          BY <5>2
        <5> QED
          BY <5>1, <5>3 DEF Comes
      <4> QED
        BY <4>1, <4>2
    <3>4. HasAnswered(p, P, S, Q, v, d, a)
      BY <2>1, <2>3
    <3> QED
      BY <1>2, <1>4, <2>5, <3>2, <3>3, <3>4, NowFit DEF Exchange
  <2>8. CASE q # <<>>
    <3>1. q = <<a>> /\ w = <<>>
      BY <2>2, <2>3, <2>8 DEF Once
    <3>2. Head(q) = a /\ Tail(q) = <<>>
      BY <3>1
    <3>3. PICK x : x = [Then(s[1], "addIce", a) EXCEPT !.rest = <<>>]
      OBVIOUS
    <3>4. x.do = "addIce" /\ x.task = "answer" /\ x.d = a /\ x.rest = <<>>
      <4>1. s[1] \in Steps
        BY Tailed
      <4> QED
        BY <1>3, <3>3, <4>1 DEF Then, Steps, Ops
    <3>5. t = <<x>>
      <4>1. AddRest(s[1], q) = <<[Then(s[1], "addIce", Head(q)) EXCEPT !.rest = Tail(q)]>>
        BY <2>8 DEF AddRest
      <4>2. AddRest(s[1], q) = <<x>>
        BY <3>2, <3>3, <4>1, Zenon
      <4>3. x \in Steps
        <5>1. s[1] \in Steps /\ <<>> \in Seq(Desc)
          BY Tailed, EmptySeq
        <5> QED
          BY <3>3, <5>1, ThenAdd
      <4>5. t = <<>> \o <<x>>
        BY <2>4, <4>2, Zenon
      <4> QED
        BY <4>3, <4>5, OneStep, Zenon
    <3>6. t[1] = x /\ Len(t) = 1 /\ t # <<>> /\ \A y \in 1..Len(t) : y = 1
      <4>1. x \in Steps
        <5>1. s[1] \in Steps /\ <<>> \in Seq(Desc)
          BY Tailed, EmptySeq
        <5> QED
          BY <3>3, <5>1, ThenAdd
      <4>2. \A y \in 1..1 : y = 1
        OBVIOUS
      <4> QED
        BY <3>5, <4>1, <4>2, OneStep, Zenon
    <3>7. ~Core(x) /\ Drain(x)
      BY <3>4 DEF Core, Drain
    <3>8. Side(n, t, q, w, 0, 0, 0)
      <4>1. Cores(t, 0, 0)
        BY <3>6, <3>7 DEF Cores
      <4>2. Tidy(t, q, Remote(n))
        BY <1>5, <3>4, <3>6, <3>7 DEF Tidy
      <4> QED
        BY <1>5, <2>6, <4>1, <4>2 DEF Side
    <3>9. Comes(w, 0, t, 0, n.added, a)
      BY <3>4, <3>6 DEF Comes
    <3>10. HasAnswered(p, P, S, Q, v, d, a)
      BY <2>1, <2>3
    <3> QED
      BY <1>2, <1>4, <2>5, <3>8, <3>9, <3>10, NowFit DEF Exchange
  <2> QED
    BY <2>7, <2>8
<1>8. CASE AnswerTaken(p, s, q, P, S, Q, v, w, d, a)
  <2>1. PICK k \in Nat :
          /\ Side(p, s, q, w, 0, k, 0)
          /\ HasAnswered(p, P, S, Q, v, d, a)
          /\ k # 0
          /\ P.gather = a \/ Comes(w, 0, s, k, p.added, a)
    BY <1>2, <1>8 DEF AnswerTaken
  <2>2. Cores(s, k, z) /\ Tidy(s, q, Remote(p)) /\ Ices(w, 0)
    BY <1>6, <2>1 DEF Side
  <2>3. PICK h \in Seq(Steps) : h = Tail(s)
    BY Tailed
  <2>4. k = 1 /\ Cores(h, 0, 0) /\ Less(k) = 0
    <3>1. k = 1 /\ Cores(h, Less(z), 0)
      BY <1>1, <2>2, <2>3, CoresDone
    <3>2. Less(z) = 0 /\ Less(1) = 0
      BY <1>6 DEF Less
    <3> QED
      BY <3>1, <3>2
  <2>5. Tidy(h, <<>>, Remote(n)) /\ q = <<>>
    BY <1>1, <2>2, <2>3, TidyPop
  <2>6. t = h
    <3>1. AddRest(s[1], q) = <<>>
      BY <1>3, <2>5 DEF AddRest
    <3> QED
      BY <2>3, <3>1
  <2>7. Side(n, t, q, w, 0, 0, 0)
    BY <1>5, <2>2, <2>4, <2>5, <2>6 DEF Side
  <2>8. P.gather = a \/ Comes(w, 0, t, 0, n.added, a)
    <3>1. ASSUME Comes(w, 0, s, k, p.added, a) PROVE Comes(w, 0, t, 0, n.added, a)
      <4>1. Comes(w, z, s, k, p.added, a) /\ p.added \subseteq n.added /\ k \in 0..Len(s) /\ t = Tail(s)
        BY <1>4, <1>6, <2>2, <2>3, <2>6, <3>1 DEF Cores
      <4>2. Comes(w, z, t, Less(k), n.added, a)
        BY <2>1, <4>1, ComesAdded
      <4> QED
        BY <1>6, <2>4, <4>2
    <3> QED
      BY <2>1, <3>1
  <2>9. P \in PCs
    BY <2>1 DEF HasAnswered, Side
  <2> QED
    BY <1>2, <1>4, <2>1, <2>7, <2>8, <2>9, NowFit DEF Exchange
<1> QED
  BY <1>2, <1>7, <1>8

-----------------------------------------------------------------------------
(* The end that answers works                                              *)

\* The end that offered waits for the answer to d; g is what the other one gathers.
Waiting(p, s, q, g, w, d) ==
    \/ Unanswered(p, d) /\ s = <<>> /\ q = <<>> /\ w = <<>> /\ g = None
    \/ \E k \in Nat : Side(p, s, q, w, 0, k, 0) /\ Offered(p, s, k, d)

LEMMA AnswererWorks ==
    ASSUME NEW p, NEW s, NEW q, NEW P, P # None, NEW S \in Seq(Steps), S # <<>>, Core(S[1]), NEW Q,
           NEW v, NEW w, Exchange(p, s, q, P, S, Q, v, w)
    PROVE  \E d \in Desc :
            \/ /\ Unanswered(p, d) /\ s = <<>> /\ q = <<>> /\ w = <<>> /\ P = NewPC
               /\ S = <<Op("setRemoteOffer", "fresh", d)>> /\ Once(v, Q, p.gather, d)
            \/ S[1] = Op("setRemoteOffer", "existing", d) /\ Taken(p, s, q, P, S, Q, v, w, d)
            \/ /\ Waiting(p, s, q, P.gather, w, d) /\ Answering(P, S[1], d)
               /\ AnswersAt(p, P, S, Q, v, d, 1)
<1>1. ASSUME NEW i, NEW k \in Nat, NEW m \in Nat, Side(P, S, Q, v, i, k, m) PROVE k = 1
  <2>1. Cores(S, k, m)
    BY <1>1 DEF Side
  <2> QED
    BY <2>1, CoresHead
<1>2. ASSUME NEW i, Side(P, S, Q, v, i, 0, 0) PROVE FALSE
  <2>1. PICK z \in Nat : z = 0
    OBVIOUS
  <2> QED
    BY <1>1, <1>2, <2>1
<1>3. ASSUME NEW d \in Desc, NEW K \in Nat, AnswersAt(p, P, S, Q, v, d, K)
      PROVE  K = 1 /\ Answering(P, S[1], d) /\ AnswersAt(p, P, S, Q, v, d, 1)
  <2>1. PICK z \in Nat : z = 0
    OBVIOUS
  <2>2. Side(P, S, Q, v, 0, K, z) /\ Answering(P, S[K], d)
    BY <1>3, <2>1 DEF AnswersAt
  <2>3. K = 1
    BY <1>1, <2>2
  <2> QED
    BY <1>3, <2>2, <2>3
<1>4. ~Fit(p, s, q, P, S, Q, v, w) /\ ~Again(p, s, q, P, S, Q, v, w)
  BY <1>2 DEF Fit, Again
<1>5. ASSUME NEW d \in Desc, NEW a, HasAnswered(p, P, S, Q, v, d, a) PROVE FALSE
  BY <1>2, <1>5 DEF HasAnswered
<1>6. ASSUME NEW d \in Desc, First(p, s, q, P, S, Q, v, w, d)
      PROVE  \/ /\ Unanswered(p, d) /\ s = <<>> /\ q = <<>> /\ w = <<>> /\ P = NewPC
                /\ S = <<Op("setRemoteOffer", "fresh", d)>> /\ Once(v, Q, p.gather, d)
             \/ /\ Waiting(p, s, q, P.gather, w, d) /\ Answering(P, S[1], d)
                /\ AnswersAt(p, P, S, Q, v, d, 1)
  BY <1>3, <1>5, <1>6 DEF First, Waiting
<1>7. ASSUME NEW d \in Desc, Sent(p, s, q, P, S, Q, v, w, d) PROVE FALSE
  BY <1>2, <1>7 DEF Sent
<1>8. ASSUME NEW d \in Desc, Taken(p, s, q, P, S, Q, v, w, d)
      PROVE  S[1] = Op("setRemoteOffer", "existing", d)
  <2>1. PICK z \in Nat : z = 0
    OBVIOUS
  <2>2. PICK K \in Nat : Side(P, S, Q, v, 0, K, z) /\ S[K] = Op("setRemoteOffer", "existing", d)
    BY <1>8, <2>1 DEF Taken
  <2>3. K = 1
    BY <1>1, <2>2
  <2> QED
    BY <2>2, <2>3
<1>9. ASSUME NEW d \in Desc, BeingAnswered(p, s, q, P, S, Q, v, w, d)
      PROVE  /\ Waiting(p, s, q, P.gather, w, d) /\ Answering(P, S[1], d)
             /\ AnswersAt(p, P, S, Q, v, d, 1)
  BY <1>3, <1>9 DEF BeingAnswered, Waiting
<1>10. ASSUME NEW d \in Desc, NEW a \in Desc, AnswerSent(p, s, q, P, S, Q, v, w, d, a) PROVE FALSE
  BY <1>5, <1>10 DEF AnswerSent
<1>11. ASSUME NEW d \in Desc, NEW a \in Desc, AnswerTaken(p, s, q, P, S, Q, v, w, d, a) PROVE FALSE
  BY <1>5, <1>11 DEF AnswerTaken
<1> QED
  BY <1>4, <1>6, <1>7, <1>8, <1>9, <1>10, <1>11 DEF Exchange

\* It answers on.
LEMMA Waited ==
    ASSUME NEW p, NEW s, NEW q, NEW P, NEW S, NEW Q, NEW v, NEW w, NEW d \in Desc, NEW K \in Nat,
           Waiting(p, s, q, P.gather, w, d), AnswersAt(p, P, S, Q, v, d, K)
    PROVE  Exchange(p, s, q, P, S, Q, v, w)
<1>1. P # None
  BY DEF AnswersAt, Side
<1>2. CASE Unanswered(p, d) /\ s = <<>> /\ q = <<>> /\ w = <<>> /\ P.gather = None
  BY <1>1, <1>2 DEF First, Exchange
<1>3. CASE \E k \in Nat : Side(p, s, q, w, 0, k, 0) /\ Offered(p, s, k, d)
  BY <1>3 DEF BeingAnswered, Exchange
<1> QED
  BY <1>2, <1>3 DEF Waiting

LEMMA AnswersOn ==
    ASSUME NEW p, NEW P \in PCs, NEW S \in Seq(Steps), S # <<>>, Core(S[1]), NEW Q, NEW v,
           NEW K \in Nat, Side(P, S, Q, v, 0, K, 0), NEW N \in PCs, NEW d \in Desc, NEW x \in Steps,
           Answering(N, x, d), x.do # "addIce", P.added \subseteq N.added,
           NEW T \in Seq(Steps), T = Append(Tail(S), x), NEW c \in Nat,
           ToGather(p, d) \/ Comes(v, 0, S, c, P.added, d),
           \/ c = K
           \/ c = 0 /\ (S[1].do = "addIce" /\ S[1].d = d => d \in N.added)
    PROVE  \E l \in Nat : AnswersAt(p, N, T, <<>>, v, d, l)
<1>1. Cores(S, K, 0) /\ Tidy(S, Q, Remote(P)) /\ Ices(v, 0)
  BY DEF Side
<1>2. Core(x) /\ ~Drain(x)
  BY DEF Core, Drain, Answering
<1>3. PICK l \in Nat : K = 1 /\ l # 0 /\ T[l] = x /\ Cores(T, l, 0) /\ Tidy(T, <<>>, Remote(N))
  <2>1. PICK e, f : e = Remote(P) /\ f = Remote(N)
    OBVIOUS
  <2>2. /\ Cores(S, K, 0) /\ Tidy(S, Q, e) /\ Core(x) /\ ~Drain(x) /\ K \in Nat /\ x \in Steps
        /\ S \in Seq(Steps) /\ T \in Seq(Steps) /\ T = Append(Tail(S), x) /\ S # <<>> /\ Core(S[1])
    BY <1>1, <1>2, <2>1
  <2>3. \E l \in Nat : K = 1 /\ l # 0 /\ T[l] = x /\ Cores(T, l, 0) /\ Tidy(T, <<>>, f)
    BY ONLY <2>2, ChainOn
  <2> QED
    BY <2>1, <2>3
<1>4. N # None /\ Remote(N) = d /\ d # None
  BY NoneAssumption DEF Answering, Remote
<1>5. Side(N, T, <<>>, v, 0, l, 0)
  BY <1>1, <1>3, <1>4 DEF Side
<1>6. PICK z \in Nat : z = 0
  OBVIOUS
<1>7. PICK h \in Seq(Steps) : h = Tail(S)
  BY Tailed
<1>8. ASSUME Comes(v, 0, S, c, P.added, d) PROVE Comes(v, 0, T, 0, N.added, d)
  <2>1. Comes(v, z, S, c, P.added, d)
    BY <1>6, <1>8
  <2>2. c \in 0..Len(S) /\ Less(c) = z
    BY <1>1, <1>3, <1>6, CoresHead DEF Less
  <2>3. c # 0 \/ z # 0 \/ (S[1].do = "addIce" /\ S[1].d = d => d \in N.added)
    BY <1>3
  <2>4. Comes(v, z, h, Less(c), N.added, d)
    BY <1>7, <2>1, <2>2, <2>3, ComesAdded
  <2>5. Comes(v, z, h, z, N.added, d) /\ T = Append(h, x)
    BY <1>7, <2>2, <2>4
  <2>6. Comes(v, z, T, z, N.added, d)
    BY <2>5, ComesAsked
  <2> QED
    BY <1>6, <2>6
<1>9. ToGather(p, d) \/ Comes(v, 0, T, 0, N.added, d)
  BY <1>8
<1> QED
  BY <1>3, <1>5, <1>9 DEF AnswersAt

\* One step more at the end of what is left.
LEMMA AddLast ==
    ASSUME NEW h \in Seq(Steps), NEW x \in Steps
    PROVE  h \o <<x>> = Append(h, x) /\ Append(h, x) \in Seq(Steps)
<1>1. Append(h, x) \in Seq(Steps)
  BY AppendProperties
<1>2. h \o <<x>> = Append(h, x)
  OBVIOUS
<1> QED
  BY <1>1, <1>2

\* What follows when no candidate is left to add: the answer.
LEMMA ThenAnswer ==
    ASSUME NEW op \in Steps, op.task \in {"fresh", "existing"}
    PROVE  /\ Then(op, "createAnswer", None) \in Steps
           /\ Then(op, "createAnswer", None).do = "createAnswer"
           /\ Then(op, "createAnswer", None).task = op.task
           /\ AddRest(op, <<>>) = <<Then(op, "createAnswer", None)>>
<1>1. None \in Descs
  BY DEF Descs
<1>2. Then(op, "createAnswer", None) \in Steps
  BY <1>1, ThenType
<1>3. Then(op, "createAnswer", None).do = "createAnswer" /\ Then(op, "createAnswer", None).task = op.task
  BY DEF Then, Steps, Ops
<1>4. AddRest(op, <<>>) = <<Then(op, "createAnswer", None)>>
  BY DEF AddRest
<1> QED
  BY <1>2, <1>3, <1>4

\* The first offer is set, and the queued candidate is to be added, if it is there.
LEMMA FirstOfferSet ==
    ASSUME NEW p, NEW s, NEW q, NEW Q, NEW v, NEW w, NEW d \in Desc, NEW op \in Steps,
           Unanswered(p, d), s = <<>>, q = <<>>, w = <<>>, op = Op("setRemoteOffer", "fresh", d),
           Once(v, Q, p.gather, d), NEW N \in PCs, N = After(NewPC, op, None),
           NEW T, T = AddRest(op, Q)
    PROVE  Exchange(p, s, q, N, T, Q, v, w)
<1>1. N.sig = "remote" /\ N.pending = d /\ N.gather = None /\ N # None /\ Remote(N) = d /\ d # None
  BY NoneAssumption DEF After, NewPC, Op, Remote
<1>2. op.task = "fresh" /\ op.d = d /\ op.do = "setRemoteOffer"
  BY DEF Op
<1>3. Waiting(p, s, q, N.gather, w, d)
  BY <1>1 DEF Waiting
<1>4. CASE Q = <<>>
  <2>1. PICK x : x = Then(op, "createAnswer", None)
    OBVIOUS
  <2>2. x \in Steps /\ x.do = "createAnswer" /\ x.task = "fresh" /\ T = <<x>>
    BY <1>2, <1>4, <2>1, ThenAnswer
  <2>3. T[1] = x /\ Len(T) = 1 /\ T # <<>> /\ \A y \in 1..Len(T) : y = 1
    <3>1. \A y \in 1..1 : y = 1
      OBVIOUS
    <3> QED
      BY <2>2, <3>1, OneStep, Zenon
  <2>4. Core(x) /\ ~Drain(x)
    BY <2>2 DEF Core, Drain
  <2>5. Cores(T, 1, 0) /\ Tidy(T, Q, d)
    BY <1>4, <2>3, <2>4 DEF Cores, Tidy
  <2>6. Ices(v, 0) /\ (ToGather(p, d) \/ Comes(v, 0, T, 0, N.added, d))
    <3>1. CASE v = <<>> /\ p.gather = d
      BY <3>1, IcesNone DEF ToGather
    <3>2. CASE v = <<Msg("ice", d)>>
      <4>1. PICK m : m = Msg("ice", d)
        OBVIOUS
      <4>2. v = <<m>> /\ m.type = "ice"
        BY <3>2, <4>1 DEF Msg
      <4>3. Len(v) = 1 /\ v[1] = m /\ \A y \in 1..1 : y = 1
        BY <4>2
      <4> QED
        BY <4>1, <4>2, <4>3 DEF Ices, Comes
    <3> QED
      BY <1>4, <3>1, <3>2 DEF Once
  <2>7. Side(N, T, Q, v, 0, 1, 0)
    BY <1>1, <2>5, <2>6 DEF Side
  <2>8. AnswersAt(p, N, T, Q, v, d, 1)
    BY <1>1, <2>2, <2>3, <2>6, <2>7 DEF AnswersAt, Answering
  <2> QED
    BY <1>3, <2>8, Waited
<1>5. CASE Q # <<>>
  <2>1. Q = <<d>> /\ v = <<>>
    BY <1>5 DEF Once
  <2>2. Head(Q) = d /\ Tail(Q) = <<>>
    BY <2>1
  <2>3. PICK x : x = [Then(op, "addIce", d) EXCEPT !.rest = <<>>]
    OBVIOUS
  <2>4. x.do = "addIce" /\ x.task = "fresh" /\ x.d = d /\ x.rest = <<>>
    BY <1>2, <2>3 DEF Then, Steps, Ops
  <2>5. T = <<x>> /\ x \in Steps
    <3>1. AddRest(op, Q) = <<[Then(op, "addIce", Head(Q)) EXCEPT !.rest = Tail(Q)]>>
      BY <1>5 DEF AddRest
    <3>2. T = <<x>>
      BY <2>2, <2>3, <3>1, Zenon
    <3>3. <<>> \in Seq(Desc)
      BY EmptySeq
    <3> QED
      BY <2>3, <3>2, <3>3, ThenAdd
  <2>6. T[1] = x /\ Len(T) = 1 /\ T # <<>> /\ \A y \in 1..Len(T) : y = 1
    <3>1. \A y \in 1..1 : y = 1
      OBVIOUS
    <3> QED
      BY <2>5, <3>1, OneStep, Zenon
  <2>7. Core(x) /\ Drain(x)
    BY <2>4 DEF Core, Drain
  <2>8. Cores(T, 1, 0) /\ Tidy(T, Q, d)
    BY <2>4, <2>6, <2>7 DEF Cores, Tidy
  <2>9. Comes(v, 0, T, 0, N.added, d)
    BY <2>4, <2>6 DEF Comes
  <2>10. Side(N, T, Q, v, 0, 1, 0)
    BY <1>1, <2>1, <2>8, IcesNone DEF Side
  <2>11. AnswersAt(p, N, T, Q, v, d, 1)
    BY <1>1, <2>4, <2>6, <2>9, <2>10 DEF AnswersAt, Answering
  <2> QED
    BY <1>3, <2>11, Waited
<1> QED
  BY <1>4, <1>5

\* An offer is set on the connection there is.
LEMMA NextOfferSet ==
    ASSUME NEW p, NEW s, NEW q, NEW P \in PCs, NEW S \in Seq(Steps), S # <<>>, NEW Q,
           NEW v, NEW w, NEW d \in Desc, S[1] = Op("setRemoteOffer", "existing", d),
           Taken(p, s, q, P, S, Q, v, w, d), NEW N \in PCs, N = After(P, S[1], None),
           NEW T \in Seq(Steps), T = Append(Tail(S), Then(S[1], "createAnswer", None))
    PROVE  Exchange(p, s, q, N, T, Q, v, w) /\ Q = <<>>
<1>1. PICK k, K \in Nat :
        /\ Side(p, s, q, w, 0, k, 0) /\ Offered(p, s, k, d)
        /\ Side(P, S, Q, v, 0, K, 0) /\ P.sig = "stable"
        /\ K # 0
        /\ ToGather(p, d) \/ Comes(v, 0, S, K, P.added, d)
  BY DEF Taken
<1>2. S[1].do = "setRemoteOffer" /\ S[1].task = "existing" /\ S[1].d = d /\ S[1] \in Steps
  BY Tailed DEF Op
<1>3. N.sig = "remote" /\ N.pending = d /\ N.added = P.added
  BY <1>1, <1>2 DEF After, PCs
<1>4. PICK x : x = Then(S[1], "createAnswer", None)
  OBVIOUS
<1>5. x \in Steps /\ x.do = "createAnswer" /\ x.task = "existing"
  BY <1>2, <1>4, ThenAnswer
<1>6. Core(S[1]) /\ ~Drain(S[1])
  BY <1>2 DEF Core, Drain
<1>7. Q = <<>>
  <2>1. Tidy(S, Q, Remote(P))
    BY <1>1 DEF Side
  <2>2. PICK h \in Seq(Steps) : h = Tail(S)
    BY Tailed
  <2> QED
    BY <1>6, <2>1, <2>2, TidyPop
<1>8. Answering(N, x, d)
  BY <1>3, <1>5 DEF Answering
<1>9. PICK l \in Nat : AnswersAt(p, N, T, <<>>, v, d, l)
  <2>1. /\ Core(S[1]) /\ Side(P, S, Q, v, 0, K, 0) /\ Answering(N, x, d) /\ x.do # "addIce"
        /\ P.added \subseteq N.added /\ T = Append(Tail(S), x)
        /\ ToGather(p, d) \/ Comes(v, 0, S, K, P.added, d)
        /\ P \in PCs /\ S \in Seq(Steps) /\ S # <<>> /\ K \in Nat /\ N \in PCs /\ d \in Desc
        /\ x \in Steps /\ T \in Seq(Steps)
    BY <1>1, <1>3, <1>4, <1>5, <1>6, <1>8
  <2> QED
    BY ONLY <2>1, AnswersOn
<1> QED
  BY <1>1, <1>7, <1>9 DEF BeingAnswered, Exchange

LEMMA RemoteOfferSet ==
    ASSUME NEW p, NEW s, NEW q, NEW P \in PCs, NEW S \in Seq(Steps), S # <<>>,
           S[1].do = "setRemoteOffer", NEW Q, NEW v, NEW w, Exchange(p, s, q, P, S, Q, v, w),
           NEW N \in PCs, N = After(P, S[1], None),
           NEW T \in Seq(Steps), T = Tail(S) \o AddRest(S[1], Q)
    PROVE  Exchange(p, s, q, N, T, Q, v, w)
<1>1. Core(S[1]) /\ P # None /\ S[1] \in Steps
  BY NoneAssumption, Tailed DEF Core
<1>2. PICK d \in Desc :
            \/ /\ Unanswered(p, d) /\ s = <<>> /\ q = <<>> /\ w = <<>> /\ P = NewPC
               /\ S = <<Op("setRemoteOffer", "fresh", d)>> /\ Once(v, Q, p.gather, d)
            \/ S[1] = Op("setRemoteOffer", "existing", d) /\ Taken(p, s, q, P, S, Q, v, w, d)
            \/ Answering(P, S[1], d)
  BY <1>1, AnswererWorks
<1>3. CASE /\ Unanswered(p, d) /\ s = <<>> /\ q = <<>> /\ w = <<>> /\ P = NewPC
           /\ S = <<Op("setRemoteOffer", "fresh", d)>> /\ Once(v, Q, p.gather, d)
  <2>1. PICK op : op = Op("setRemoteOffer", "fresh", d)
    OBVIOUS
  <2>2. S = <<op>>
    BY <1>3, <2>1
  <2>3. S[1] = op /\ Tail(S) = <<>>
    BY <2>2
  <2>4. op \in Steps
    BY <1>1, <2>3
  <2>5. T = AddRest(op, Q)
    <3>1. T = <<>> \o AddRest(op, Q)
      BY <2>3
    <3>2. CASE Q = <<>>
      <4>1. op.task = "fresh"
        BY <2>1 DEF Op
      <4>2. PICK x \in Steps : AddRest(op, Q) = <<x>>
        BY <2>4, <3>2, <4>1, ThenAnswer
      <4> QED
        BY ONLY <3>1, <4>2, OneStep
    <3>3. CASE Q # <<>>
      <4>1. Q = <<d>>
        BY <1>3, <3>3 DEF Once
      <4>2. Head(Q) = d /\ Tail(Q) = <<>> /\ <<>> \in Seq(Desc)
        BY <4>1, EmptySeq
      <4>3. PICK x : x = [Then(op, "addIce", d) EXCEPT !.rest = <<>>]
        OBVIOUS
      <4>4. x \in Steps
        BY <2>4, <4>2, <4>3, ThenAdd
      <4>5. AddRest(op, Q) = <<[Then(op, "addIce", Head(Q)) EXCEPT !.rest = Tail(Q)]>>
        BY <3>3 DEF AddRest
      <4>6. AddRest(op, Q) = <<x>>
        BY <4>2, <4>3, <4>5, Zenon
      <4> QED
        BY ONLY <3>1, <4>4, <4>6, OneStep
    <3> QED
      BY <3>2, <3>3
  <2>6. N = After(NewPC, op, None)
    BY <1>3, <2>3
  <2>7. /\ Unanswered(p, d) /\ s = <<>> /\ q = <<>> /\ w = <<>> /\ op = Op("setRemoteOffer", "fresh", d)
        /\ Once(v, Q, p.gather, d) /\ N = After(NewPC, op, None) /\ T = AddRest(op, Q)
        /\ d \in Desc /\ op \in Steps /\ N \in PCs
    BY <1>3, <2>1, <2>4, <2>5, <2>6
  <2> QED
    BY ONLY <2>7, FirstOfferSet
<1>4. CASE S[1] = Op("setRemoteOffer", "existing", d) /\ Taken(p, s, q, P, S, Q, v, w, d)
  <2>1. Q = <<>>
    <3>1. PICK K \in Nat : Side(P, S, Q, v, 0, K, 0)
      BY <1>4 DEF Taken
    <3>2. Tidy(S, Q, Remote(P)) /\ ~Drain(S[1])
      BY <3>1 DEF Side, Drain
    <3>3. PICK h \in Seq(Steps) : h = Tail(S)
      BY Tailed
    <3> QED
      BY <3>2, <3>3, TidyPop
  <2>2. S[1].task = "existing"
    BY <1>4 DEF Op
  <2>3. PICK x : x = Then(S[1], "createAnswer", None)
    OBVIOUS
  <2>4. x \in Steps /\ AddRest(S[1], Q) = <<x>>
    BY <1>1, <2>1, <2>2, <2>3, ThenAnswer
  <2>5. Tail(S) \in Seq(Steps)
    BY Tailed
  <2>6. T = Append(Tail(S), x)
    <3>1. T = Tail(S) \o <<x>>
      BY <2>4
    <3> QED
      BY ONLY <2>4, <2>5, <3>1, AddLast
  <2>7. T = Append(Tail(S), Then(S[1], "createAnswer", None))
    BY <2>3, <2>6
  <2> QED
    BY <1>4, <2>7, NextOfferSet
<1>5. CASE Answering(P, S[1], d)
  BY <1>5 DEF Answering
<1> QED
  BY <1>2, <1>3, <1>4, <1>5

\* The candidate that was queued is added, and the answer is to be made.
LEMMA DrainDone ==
    ASSUME NEW p, NEW s, NEW q, NEW P \in PCs, NEW S \in Seq(Steps), S # <<>>,
           NEW op, op = S[1], op.do = "addIce", Core(op), NEW Q, NEW v, NEW w,
           Exchange(p, s, q, P, S, Q, v, w), NEW N \in PCs, N = After(P, op, None),
           NEW T \in Seq(Steps), NEW rest, rest = op.rest, T = Tail(S) \o AddRest(op, rest),
           NEW R, rest = <<>> => R = <<>>
    PROVE  Exchange(p, s, q, N, T, R, v, w)
<1>1. P # None /\ S[1] \in Steps
  BY NoneAssumption, Tailed
<1>2. PICK d \in Desc :
        /\ Waiting(p, s, q, P.gather, w, d) /\ Answering(P, S[1], d)
        /\ AnswersAt(p, P, S, Q, v, d, 1)
  <2>1. \A d, task : Op("setRemoteOffer", task, d).do = "setRemoteOffer"
    BY DEF Op
  <2>2. ASSUME NEW d, S = <<Op("setRemoteOffer", "fresh", d)>> PROVE FALSE
    <3>1. S[1] = Op("setRemoteOffer", "fresh", d)
      BY <2>2
    <3> QED
      BY <2>1, <3>1
  <2>3. \A d : S[1] # Op("setRemoteOffer", "existing", d)
    BY <2>1
  <2> QED
    BY <1>1, <2>2, <2>3, AnswererWorks
<1>3. PICK K \in Nat : /\ K = 1 /\ Side(P, S, Q, v, 0, K, 0)
                       /\ ToGather(p, d) \/ Comes(v, 0, S, 0, P.added, d)
  BY <1>2 DEF AnswersAt
<1>4. P.sig = "remote" /\ P.pending = d /\ Remote(P) = d /\ S[1].task \in {"fresh", "existing"}
  BY <1>2 DEF Answering, Remote
<1>5. S[1].rest = <<>> /\ S[1].d = d
  <2>1. Tidy(S, Q, d) /\ Drain(S[1]) /\ 1 \in 1..Len(S)
    BY <1>3, <1>4, Tailed DEF Side, Drain
  <2> QED
    BY <2>1 DEF Tidy
<1>6. /\ N.sig = "remote" /\ N.pending = d /\ N.gather = P.gather
      /\ P.added \subseteq N.added /\ d \in N.added
  BY <1>4, <1>5 DEF After, PCs
<1>7. PICK x : x = Then(S[1], "createAnswer", None)
  OBVIOUS
<1>8. /\ x \in Steps /\ x.do = "createAnswer" /\ x.task \in {"fresh", "existing"}
      /\ AddRest(S[1], S[1].rest) = <<x>>
  BY <1>1, <1>4, <1>5, <1>7, ThenAnswer
<1>9. T = Append(Tail(S), x)
  <2>1. T = Tail(S) \o <<x>> /\ Tail(S) \in Seq(Steps)
    BY <1>8, Tailed
  <2> QED
    BY ONLY <1>8, <2>1, AddLast
<1>10. Answering(N, x, d)
  BY <1>6, <1>8 DEF Answering
<1>11. PICK l \in Nat : AnswersAt(p, N, T, <<>>, v, d, l)
  <2>0. PICK c \in Nat : c = 0
    OBVIOUS
  <2>1. /\ Core(S[1]) /\ Side(P, S, Q, v, 0, K, 0) /\ Answering(N, x, d) /\ x.do # "addIce"
        /\ P.added \subseteq N.added /\ T = Append(Tail(S), x)
        /\ ToGather(p, d) \/ Comes(v, 0, S, c, P.added, d)
        /\ c = 0 /\ d \in N.added
        /\ P \in PCs /\ S \in Seq(Steps) /\ S # <<>> /\ K \in Nat /\ N \in PCs /\ d \in Desc
        /\ x \in Steps /\ T \in Seq(Steps) /\ c \in Nat
    BY <1>3, <1>6, <1>8, <1>9, <1>10, <2>0
  <2> QED
    BY ONLY <2>1, AnswersOn
<1>12. Waiting(p, s, q, N.gather, w, d)
  BY <1>2, <1>6
<1>13. R = <<>>
  BY <1>5
<1> QED
  BY <1>11, <1>12, <1>13, Waited

\* The answer is made.
LEMMA AnswerMade ==
    ASSUME NEW p, NEW s, NEW q, NEW P \in PCs, NEW S \in Seq(Steps), S # <<>>,
           S[1].do = "createAnswer", NEW Q, NEW v, NEW w, Exchange(p, s, q, P, S, Q, v, w),
           NEW f \in Desc, NEW N \in PCs, N = After(P, S[1], f),
           NEW T \in Seq(Steps), T = Append(Tail(S), Then(S[1], "setLocalAnswer", f))
    PROVE  P.sig = "remote" /\ Exchange(p, s, q, N, T, Q, v, w)
<1>1. P # None /\ S[1] \in Steps /\ Core(S[1]) /\ ~Drain(S[1])
  BY NoneAssumption, Tailed DEF Core, Drain
<1>2. PICK d \in Desc :
        /\ Waiting(p, s, q, P.gather, w, d) /\ Answering(P, S[1], d)
        /\ AnswersAt(p, P, S, Q, v, d, 1)
  <2>1. \A d, task : Op("setRemoteOffer", task, d).do = "setRemoteOffer"
    BY DEF Op
  <2>2. ASSUME NEW d, S = <<Op("setRemoteOffer", "fresh", d)>> PROVE FALSE
    <3>1. S[1] = Op("setRemoteOffer", "fresh", d)
      BY <2>2
    <3> QED
      BY <2>1, <3>1
  <2>3. \A d : S[1] # Op("setRemoteOffer", "existing", d)
    BY <2>1
  <2> QED
    BY <1>1, <2>2, <2>3, AnswererWorks
<1>3. PICK K \in Nat : /\ K = 1 /\ Side(P, S, Q, v, 0, K, 0)
                       /\ ToGather(p, d) \/ Comes(v, 0, S, 0, P.added, d)
  BY <1>2 DEF AnswersAt
<1>4. P.sig = "remote" /\ P.pending = d /\ S[1].task \in {"fresh", "existing"}
  BY <1>2 DEF Answering
<1>5. Q = <<>>
  <2>1. Tidy(S, Q, Remote(P)) /\ 1 \in 1..Len(S)
    BY <1>3, Tailed DEF Side
  <2> QED
    BY <1>1, <2>1 DEF Tidy
<1>6. /\ N.sig = "remote" /\ N.pending = d /\ N.gather = P.gather
      /\ N.added = P.added /\ N.answer = f
  BY <1>4 DEF After, PCs
<1>7. PICK x : x = Then(S[1], "setLocalAnswer", f)
  OBVIOUS
<1>8. /\ x \in Steps /\ x.do = "setLocalAnswer" /\ x.task \in {"fresh", "existing"} /\ x.d = f
  <2>1. f \in Descs
    BY DEF Descs
  <2>2. x \in Steps
    BY <1>1, <1>7, <2>1, ThenType
  <2> QED
    BY <1>1, <1>4, <1>7, <2>2 DEF Then, Steps, Ops
<1>9. Answering(N, x, d)
  BY <1>6, <1>8, NoneAssumption DEF Answering
<1>10. PICK l \in Nat : AnswersAt(p, N, T, <<>>, v, d, l)
  <2>0. PICK c \in Nat : c = 0
    OBVIOUS
  <2>1. /\ Core(S[1]) /\ Side(P, S, Q, v, 0, K, 0) /\ Answering(N, x, d) /\ x.do # "addIce"
        /\ P.added \subseteq N.added /\ T = Append(Tail(S), x)
        /\ ToGather(p, d) \/ Comes(v, 0, S, c, P.added, d)
        /\ c = 0 /\ (S[1].do = "addIce" /\ S[1].d = d => d \in N.added)
        /\ P \in PCs /\ S \in Seq(Steps) /\ S # <<>> /\ K \in Nat /\ N \in PCs /\ d \in Desc
        /\ x \in Steps /\ T \in Seq(Steps) /\ c \in Nat
    BY <1>1, <1>3, <1>6, <1>7, <1>8, <1>9, <2>0
  <2> QED
    BY ONLY <2>1, AnswersOn
<1>11. Waiting(p, s, q, N.gather, w, d)
  BY <1>2, <1>6
<1> QED
  BY <1>4, <1>5, <1>10, <1>11, Waited

\* The answer is set, and sent.
LEMMA LocalAnswerSet ==
    ASSUME NEW p, NEW s \in Seq(Steps), NEW q, NEW P \in PCs, NEW S \in Seq(Steps), S # <<>>,
           S[1].do = "setLocalAnswer", NEW Q, NEW v, NEW w \in Seq(Mail), Exchange(p, s, q, P, S, Q, v, w),
           NEW N \in PCs, N = After(P, S[1], None), NEW T \in Seq(Steps), T = Tail(S),
           NEW u \in Seq(Mail), u = Append(w, Msg("answer", S[1].d))
    PROVE  /\ P.sig = "remote" /\ S[1].d = P.answer
           /\ Exchange(p, s, q, N, T, Q, v, u)
<1>1. P # None /\ S[1] \in Steps /\ Core(S[1]) /\ ~Drain(S[1])
  BY NoneAssumption, Tailed DEF Core, Drain
<1>2. PICK d \in Desc :
        /\ Waiting(p, s, q, P.gather, w, d) /\ Answering(P, S[1], d)
        /\ AnswersAt(p, P, S, Q, v, d, 1)
  <2>1. \A d, task : Op("setRemoteOffer", task, d).do = "setRemoteOffer"
    BY DEF Op
  <2>2. ASSUME NEW d, S = <<Op("setRemoteOffer", "fresh", d)>> PROVE FALSE
    <3>1. S[1] = Op("setRemoteOffer", "fresh", d)
      BY <2>2
    <3> QED
      BY <2>1, <3>1
  <2>3. \A d : S[1] # Op("setRemoteOffer", "existing", d)
    BY <2>1
  <2> QED
    BY <1>1, <2>2, <2>3, AnswererWorks
<1>3. PICK K \in Nat : /\ K = 1 /\ Side(P, S, Q, v, 0, K, 0)
                       /\ ToGather(p, d) \/ Comes(v, 0, S, 0, P.added, d)
  BY <1>2 DEF AnswersAt
<1>4. P.sig = "remote" /\ P.pending = d /\ S[1].d = P.answer /\ P.answer # None
  BY <1>2 DEF Answering
<1>5. PICK a \in Desc : a = S[1].d
  <2>1. P.answer \in Desc
    BY <1>4 DEF PCs, Descs
  <2> QED
    BY <1>4, <2>1
<1>6. /\ N.sig = "stable" /\ N.local = a /\ N.remote = d /\ N.gather = a
      /\ N.added = P.added /\ N # None
  BY <1>4, <1>5, NoneAssumption DEF After, PCs
<1>7. PICK z \in Nat : z = 0
  OBVIOUS
<1>8. Cores(S, K, z) /\ Tidy(S, Q, Remote(P)) /\ Ices(v, z)
  BY <1>3, <1>7 DEF Side
<1>9. Cores(T, z, z) /\ Tidy(T, <<>>, Remote(N)) /\ Q = <<>>
  <2>1. Cores(T, Less(z), 0) /\ Less(z) = z
    BY <1>1, <1>7, <1>8, CoresDone DEF Less
  <2>2. Tidy(T, <<>>, Remote(N)) /\ Q = <<>>
    BY <1>1, <1>8, TidyPop
  <2> QED
    BY <1>7, <2>1, <2>2
<1>10. ASSUME Comes(v, 0, S, 0, P.added, d) PROVE Comes(v, 0, T, 0, N.added, d)
  <2>1. /\ Comes(v, z, S, z, P.added, d) /\ P.added \subseteq N.added /\ z \in 0..Len(S)
        /\ S[1].do # "addIce" /\ Less(z) = z
    <3>1. Len(S) \in Nat
      BY LenProperties
    <3> QED
      BY <1>6, <1>7, <1>10, <3>1 DEF Less
  <2>2. Comes(v, z, T, Less(z), N.added, d)
    BY <2>1, ComesAdded
  <2> QED
    BY <1>7, <2>1, <2>2
<1>11. HasAnswered(p, N, T, Q, v, d, a)
  <2>1. N # None /\ Remote(N) = d /\ d # None
    BY <1>6, NoneAssumption DEF Remote
  <2>2. Side(N, T, Q, v, 0, 0, 0)
    BY <1>7, <1>8, <1>9, <2>1 DEF Side
  <2> QED
    BY <1>3, <1>6, <1>10, <2>2 DEF HasAnswered, Answered
<1>12. PICK m \in Mail : m = Msg("answer", a)
  BY DEF Msg, Mail, ToServer, Descs
<1>13. u = Append(w, m)
  BY <1>5, <1>12
<1>14. CASE Unanswered(p, d) /\ s = <<>> /\ q = <<>> /\ w = <<>> /\ P.gather = None
  <2>1. u = <<Msg("answer", a)>>
    BY <1>12, <1>13, <1>14
  <2>2. FirstAnswerSent(N, u, a)
    BY <1>6, <2>1 DEF FirstAnswerSent
  <2>3. First(p, s, q, N, T, Q, v, u, d)
    BY <1>11, <1>14, <2>2 DEF First
  <2> QED
    BY <1>4, <2>3 DEF Exchange
<1>15. ASSUME NEW k \in Nat, Side(p, s, q, w, 0, k, 0), Offered(p, s, k, d)
       PROVE  Exchange(p, s, q, N, T, Q, v, u)
  <2>1. PICK i \in Nat : i = Len(u)
    BY LenProperties
  <2>2. Ices(u, i) /\ i # 0 /\ u[i] = m
    BY <1>12, <1>13, <1>15, <2>1, IcesSent DEF Side
  <2>3. Side(p, s, q, u, i, k, 0)
    BY <1>15, <2>2 DEF Side
  <2>4. AnswerSent(p, s, q, N, T, Q, v, u, d, a)
    BY <1>6, <1>11, <1>12, <1>15, <2>2, <2>3 DEF AnswerSent
  <2> QED
    BY <2>4 DEF Exchange
<1> QED
  BY <1>2, <1>4, <1>14, <1>15 DEF Waiting

-----------------------------------------------------------------------------
(* An ICE restart                                                          *)

\* It starts when both are done.
LEMMA RestartAsked ==
    ASSUME NEW p \in PCs, NEW s \in Seq(Steps), NEW q, NEW P, NEW S, NEW Q, NEW v, NEW w,
           Fit(p, s, q, P, S, Q, v, w), NEW op, op = Op("createOffer", "restart", None),
           NEW t \in Seq(Steps), t = Append(s, op)
    PROVE  Exchange(p, t, q, P, S, Q, v, w)
<1>1. /\ Side(p, s, q, w, 0, 0, 0) /\ Side(P, S, Q, v, 0, 0, 0)
      /\ p.sig = "stable" /\ P.sig = "stable"
  BY DEF Fit
<1>2. op \in Steps /\ Core(op) /\ ~Drain(op)
  BY NewTypes DEF Core, Drain, Op, Descs
<1>3. PICK k \in Nat : k = Len(t)
  BY LenProperties
<1>4. k # 0 /\ t[k] = op /\ Cores(t, k, 0)
  <2>1. PICK z \in Nat : z = 0 /\ Cores(s, z, 0)
    BY <1>1 DEF Side
  <2> QED
    BY <1>2, <1>3, <2>1, CoresAsk
<1>5. Tidy(t, q, Remote(p))
  <2>1. Tidy(s, q, Remote(p)) /\ ~Drain(op)
    BY <1>1, <1>2 DEF Side
  <2> QED
    BY <1>2, <2>1, TidyMore
<1>6. Side(p, t, q, w, 0, k, 0)
  BY <1>1, <1>4, <1>5 DEF Side
<1> QED
  BY <1>1, <1>4, <1>6 DEF Again, Exchange

-----------------------------------------------------------------------------
(* What an end does, on its own                                            *)

\* The next operation of an end (p, s, q) ends, and perhaps something is sent on
\* the way v from it.
Finishes(p, s, q, v, n, t, r, y) ==
    /\ s # <<>> /\ Possible(p, s[1])
    /\ \/ /\ s[1].do = "createOffer" /\ r = q
          /\ \E x \in Desc :
                /\ n = After(p, s[1], x) /\ t = Tail(s) \o <<Then(s[1], "setLocalOffer", x)>>
                /\ y = IF s[1].task = "restart" THEN Append(v, Msg("offer", x)) ELSE v
       \/ /\ s[1].do = "setLocalOffer" /\ r = q
          /\ n = After(p, s[1], None) /\ t = Tail(s)
          /\ y = IF s[1].task = "start" THEN Append(v, Msg("offer", s[1].d)) ELSE v
       \/ /\ s[1].do \in {"setRemoteOffer", "setRemoteAnswer"} /\ r = q /\ y = v
          /\ n = After(p, s[1], None) /\ t = Tail(s) \o AddRest(s[1], q)
       \/ /\ s[1].do = "addIce" /\ s[1].task = "ice" /\ r = q /\ y = v
          /\ n = After(p, s[1], None) /\ t = Tail(s)
       \/ /\ s[1].do = "addIce" /\ s[1].task # "ice" /\ y = v
          /\ r = IF s[1].rest = <<>> THEN <<>> ELSE q
          /\ n = After(p, s[1], None) /\ t = Tail(s) \o AddRest(s[1], s[1].rest)
       \/ /\ s[1].do = "createAnswer" /\ r = q /\ y = v
          /\ \E x \in Desc :
                n = After(p, s[1], x) /\ t = Tail(s) \o <<Then(s[1], "setLocalAnswer", x)>>
       \/ /\ s[1].do = "setLocalAnswer" /\ r = q /\ y = Append(v, Msg("answer", s[1].d))
          /\ n = After(p, s[1], None) /\ t = Tail(s)

\* It fails; what was asked for on an existing connection starts again.
Fails(p, s, q, v, n, t, r, y) ==
    /\ s # <<>> /\ ~Possible(p, s[1]) /\ y = v
    /\ \/ s[1].task = "existing" /\ n = NewPC
       \/ n = p /\ t = Tail(s) /\ r = q

\* A candidate is gathered, or the connection is up.
Idles(p, s, q, v, n, t, r, y) ==
    /\ t = s /\ r = q
    /\ \/ p.gather # None /\ n = [p EXCEPT !.gather = None] /\ y = Append(v, Msg("ice", p.gather))
       \/ p.local # None /\ n = [p EXCEPT !.up = TRUE] /\ y = v

Works(p, s, q, v, n, t, r, y) ==
    \/ Finishes(p, s, q, v, n, t, r, y)
    \/ Fails(p, s, q, v, n, t, r, y)
    \/ Idles(p, s, q, v, n, t, r, y)

\* The candidate that is being added after a description is the last one queued.
LEMMA OffererChain ==
    ASSUME NEW p, NEW s, NEW q, NEW P, NEW S, NEW Q, NEW v, NEW w,
           Exchange(p, s, q, P, S, Q, v, w)
    PROVE  s = <<>> \/ (\E a : s = <<AnswerOp(a)>>) \/ Tidy(s, q, Remote(p))
<1>1. CASE \E d \in Desc : First(p, s, q, P, S, Q, v, w, d)
  BY <1>1, Zenon DEF First
<1>2. CASE \E i, k, m \in Nat : Side(p, s, q, w, i, k, m)
  BY <1>2, Zenon DEF Side
<1>3. 0 \in Nat
  OBVIOUS
<1>4. CASE Fit(p, s, q, P, S, Q, v, w)
  BY <1>2, <1>3, <1>4 DEF Fit
<1>5. CASE Again(p, s, q, P, S, Q, v, w)
  BY <1>2, <1>3, <1>5 DEF Again
<1>6. ASSUME NEW d \in Desc,
             Sent(p, s, q, P, S, Q, v, w, d) \/ Taken(p, s, q, P, S, Q, v, w, d)
             \/ BeingAnswered(p, s, q, P, S, Q, v, w, d)
      PROVE  \E i, k, m \in Nat : Side(p, s, q, w, i, k, m)
  BY <1>3, <1>6 DEF Sent, Taken, BeingAnswered
<1>7. ASSUME NEW d \in Desc, NEW a \in Desc, AnswerSent(p, s, q, P, S, Q, v, w, d, a)
      PROVE  \E i, k, m \in Nat : Side(p, s, q, w, i, k, m)
  BY <1>3, <1>7 DEF AnswerSent
<1>8. ASSUME NEW d \in Desc, NEW a \in Desc, AnswerTaken(p, s, q, P, S, Q, v, w, d, a)
      PROVE  \E i, k, m \in Nat : Side(p, s, q, w, i, k, m)
  BY <1>3, <1>8 DEF AnswerTaken
<1> QED
  BY <1>1, <1>2, <1>4, <1>5, <1>6, <1>7, <1>8 DEF Exchange

LEMMA AnswererChain ==
    ASSUME NEW p, NEW s, NEW q, NEW P, P # None, NEW S, NEW Q, NEW v, NEW w,
           Exchange(p, s, q, P, S, Q, v, w)
    PROVE  (\E d : S = <<Op("setRemoteOffer", "fresh", d)>>) \/ Tidy(S, Q, Remote(P))
<1>1. \A i, k, m : Side(P, S, Q, v, i, k, m) => Tidy(S, Q, Remote(P))
  BY DEF Side
<1>2. ASSUME NEW d, NEW K, AnswersAt(p, P, S, Q, v, d, K) PROVE Tidy(S, Q, Remote(P))
  BY <1>1, <1>2 DEF AnswersAt
<1>3. ASSUME NEW d, NEW a, HasAnswered(p, P, S, Q, v, d, a) PROVE Tidy(S, Q, Remote(P))
  BY <1>1, <1>3 DEF HasAnswered
<1>4. ASSUME NEW d \in Desc, First(p, s, q, P, S, Q, v, w, d)
      PROVE  (\E e : S = <<Op("setRemoteOffer", "fresh", e)>>) \/ Tidy(S, Q, Remote(P))
  BY <1>2, <1>3, <1>4, Zenon DEF First
<1>5. CASE Fit(p, s, q, P, S, Q, v, w)
  BY <1>1, <1>5 DEF Fit
<1>6. CASE Again(p, s, q, P, S, Q, v, w)
  BY <1>1, <1>6 DEF Again
<1>7. ASSUME NEW d \in Desc, Sent(p, s, q, P, S, Q, v, w, d) PROVE Tidy(S, Q, Remote(P))
  BY <1>1, <1>7 DEF Sent
<1>8. ASSUME NEW d \in Desc, Taken(p, s, q, P, S, Q, v, w, d) PROVE Tidy(S, Q, Remote(P))
  BY <1>1, <1>8 DEF Taken
<1>9. ASSUME NEW d \in Desc, BeingAnswered(p, s, q, P, S, Q, v, w, d) PROVE Tidy(S, Q, Remote(P))
  BY <1>2, <1>9 DEF BeingAnswered
<1>10. ASSUME NEW d \in Desc, NEW a \in Desc,
              AnswerSent(p, s, q, P, S, Q, v, w, d, a) \/ AnswerTaken(p, s, q, P, S, Q, v, w, d, a)
       PROVE  Tidy(S, Q, Remote(P))
  BY <1>3, <1>10 DEF AnswerSent, AnswerTaken
<1> QED
  BY <1>4, <1>5, <1>6, <1>7, <1>8, <1>9, <1>10 DEF Exchange

\* What an end does that belongs to no exchange.
LEMMA IdleLittle ==
    ASSUME NEW p \in PCs, NEW s, NEW q, NEW v, NEW w, NEW n, NEW t, NEW r, NEW y,
           Idles(p, s, q, v, n, t, r, y)
    PROVE  Little(p, s, q, w, n, t, r, w) /\ Outgoing(p, v, n, y) /\ p # NewPC
<1>1. CASE p.gather # None /\ n = [p EXCEPT !.gather = None] /\ y = Append(v, Msg("ice", p.gather))
  <2>1. Same(p, n) /\ n.gather = None
    BY <1>1 DEF Same, PCs
  <2>2. NewPC.gather = None
    BY DEF NewPC
  <2> QED
    BY <1>1, <2>1, <2>2 DEF Idles, Little, Outgoing
<1>2. CASE p.local # None /\ n = [p EXCEPT !.up = TRUE] /\ y = v
  <2>1. Same(p, n) /\ n.gather = p.gather
    BY <1>2 DEF Same, PCs
  <2>2. NewPC.local = None
    BY DEF NewPC
  <2> QED
    BY <1>2, <2>1, <2>2 DEF Idles, Little, Outgoing
<1> QED
  BY <1>1, <1>2 DEF Idles

LEMMA AddedLittle ==
    ASSUME NEW p \in PCs, NEW s \in Seq(Steps), s # <<>>, ~Core(s[1]), NEW q, NEW v, NEW w,
           NEW n \in PCs, NEW t, NEW r, NEW y,
           Finishes(p, s, q, v, n, t, r, y) \/ Fails(p, s, q, v, n, t, r, y),
           Drain(s[1]) => s[1].rest = <<>>
    PROVE  Little(p, s, q, w, n, t, r, w) /\ Outgoing(p, v, n, y)
<1>1. PICK op \in Steps : op = s[1]
  BY Tailed
<1>2. op.do = "addIce" /\ op.task \in {"ice", "answer"} /\ ~Core(op) /\ s # <<>>
  BY <1>1 DEF Core
<1>3. Tail(s) \in Seq(Steps) /\ Tail(s) \o <<>> = Tail(s)
  BY Tailed, ConcatEmptySeq
<1>4. CASE Fails(p, s, q, v, n, t, r, y)
  <2>1. Remote(p) # op.d /\ n = p /\ t = Tail(s) /\ r = q /\ y = v
    BY <1>1, <1>2, <1>4 DEF Fails, Possible
  <2>2. Same(p, n)
    BY <2>1 DEF Same
  <2> QED
    BY <1>1, <1>2, <2>1, <2>2 DEF Little, Outgoing
<1>5. CASE Finishes(p, s, q, v, n, t, r, y)
  <2>1. Remote(p) = op.d /\ y = v /\ n = After(p, op, None)
    BY <1>1, <1>2, <1>5 DEF Finishes, Possible
  <2>2. n = [p EXCEPT !.added = p.added \cup {op.d}]
    BY <1>2, <2>1 DEF After
  <2>3. Same(p, n) /\ n.gather = p.gather /\ op.d \in n.added
    BY <2>2 DEF Same, PCs
  <2>4. t = Tail(s) /\ (r = q \/ r = <<>>) /\ (Drain(op) => r = <<>>)
    <3>1. CASE op.task = "ice"
      BY <1>1, <1>2, <1>5, <3>1 DEF Finishes, Drain
    <3>2. CASE op.task = "answer"
      <4>1. op.rest = <<>>
        BY <1>1, <1>2, <3>2 DEF Drain
      <4>2. AddRest(op, op.rest) = <<>>
        BY <3>2, <4>1 DEF AddRest
      <4>3. t = Tail(s) \o AddRest(op, op.rest) /\ r = <<>>
        BY <1>1, <1>2, <1>5, <3>2, <4>1 DEF Finishes
      <4> QED
        BY <1>3, <4>2, <4>3
    <3> QED
      BY <1>2, <3>1, <3>2
  <2> QED
    BY <1>1, <1>2, <2>1, <2>3, <2>4 DEF Little, Outgoing
<1> QED
  BY <1>4, <1>5

\* Each step of the end that offers leads the exchange on,
LEMMA OffererStep ==
    ASSUME NEW p \in PCs, NEW s \in Seq(Steps), NEW q, NEW P \in PCs \cup {None}, NEW S, NEW Q,
           NEW v \in Seq(Mail), NEW w \in Seq(Mail), Exchange(p, s, q, P, S, Q, v, w),
           NEW n \in PCs, NEW t \in Seq(Steps), NEW r, NEW y \in Seq(Mail),
           Works(p, s, q, v, n, t, r, y)
    PROVE  Exchange(n, t, r, P, S, Q, y, w)
<1>1. CASE Idles(p, s, q, v, n, t, r, y)
  <2>1. Little(p, s, q, w, n, t, r, w) /\ Outgoing(p, v, n, y)
    BY <1>1, IdleLittle
  <2> QED
    BY <2>1, OffererLittle
<1>2. CASE s # <<>> /\ ~Core(s[1])
           /\ (Finishes(p, s, q, v, n, t, r, y) \/ Fails(p, s, q, v, n, t, r, y))
  <2>1. Drain(s[1]) => s[1].rest = <<>>
    <3>1. s[1].do = "addIce" /\ 1 \in 1..Len(s)
      BY <1>2, Tailed DEF Core
    <3>2. \A a : s # <<AnswerOp(a)>>
      BY <3>1 DEF AnswerOp, Op
    <3>3. Tidy(s, q, Remote(p))
      BY <1>2, <3>2, OffererChain
    <3> QED
      BY <3>1, <3>3 DEF Tidy
  <2>2. Little(p, s, q, w, n, t, r, w) /\ Outgoing(p, v, n, y)
    BY <1>2, <2>1, AddedLittle
  <2> QED
    BY <2>2, OffererLittle
<1>3. CASE s # <<>> /\ Core(s[1])
           /\ (Finishes(p, s, q, v, n, t, r, y) \/ Fails(p, s, q, v, n, t, r, y))
  <2>1. PICK op \in Steps : op = s[1]
    BY <1>3, Tailed
  <2>2. Tail(s) \in Seq(Steps)
    BY <1>3, Tailed
  <2>3. \/ op.do = "createOffer" /\ op.task = "restart" /\ p.sig = "stable"
        \/ op.do = "setLocalOffer" /\ op.task = "restart" /\ op.d = p.offer /\ p.sig = "stable"
        \/ op.do = "setRemoteAnswer" /\ p.sig = "local"
    <3>1. /\ Op("createOffer", "restart", None).do = "createOffer"
          /\ Op("createOffer", "restart", None).task = "restart"
          /\ \A a : AnswerOp(a).do = "setRemoteAnswer"
      BY DEF Op, AnswerOp
    <3>2. s # <<>> /\ Core(s[1])
      BY <1>3
    <3> QED
      BY <2>1, <3>1, <3>2, OffererWorks, SMTT(20)
  <2>4. Finishes(p, s, q, v, n, t, r, y)
    <3>1. Possible(p, op)
      BY <2>3 DEF Possible
    <3> QED
      BY <1>3, <2>1, <3>1 DEF Fails
  <2>5. CASE op.do = "createOffer"
    <3>1. PICK x \in Desc : /\ n = After(p, op, x) /\ t = Tail(s) \o <<Then(op, "setLocalOffer", x)>>
                            /\ y = Append(v, Msg("offer", x)) /\ r = q
      BY <2>1, <2>3, <2>4, <2>5 DEF Finishes
    <3>2. Then(op, "setLocalOffer", x) \in Steps
      BY ThenType DEF Descs
    <3>3. t = Append(Tail(s), Then(s[1], "setLocalOffer", x))
      BY <2>1, <2>2, <3>1, <3>2, AddLast
    <3>4. n = [p EXCEPT !.offer = x]
      BY <2>5, <3>1 DEF After
    <3>5. /\ s # <<>> /\ s[1].do = "createOffer" /\ y = Append(v, Msg("offer", x))
          /\ p \in PCs /\ s \in Seq(Steps) /\ v \in Seq(Mail) /\ n \in PCs /\ t \in Seq(Steps)
          /\ y \in Seq(Mail) /\ x \in Desc /\ Exchange(p, s, q, P, S, Q, v, w)
      BY <1>3, <2>1, <2>5, <3>1
    <3>6. Exchange(n, t, q, P, S, Q, y, w)
      BY ONLY <3>3, <3>4, <3>5, RestartSent
    <3> QED
      BY <3>1, <3>6
  <2>6. CASE op.do = "setLocalOffer"
    <3>1. n = After(p, s[1], None) /\ t = Tail(s) /\ y = v /\ r = q
      BY <2>1, <2>3, <2>4, <2>6 DEF Finishes
    <3> QED
      BY <1>3, <2>1, <2>6, <3>1, LocalOfferSet
  <2>7. CASE op.do = "setRemoteAnswer"
    <3>1. n = After(p, s[1], None) /\ t = Tail(s) \o AddRest(s[1], q) /\ y = v /\ r = q
      BY <2>1, <2>3, <2>4, <2>7 DEF Finishes
    <3> QED
      BY <1>3, <2>1, <2>7, <3>1, AnswerSet
  <2> QED
    BY <2>3, <2>5, <2>6, <2>7
<1> QED
  BY <1>1, <1>2, <1>3 DEF Works, Finishes, Fails

\* and each step of the end that answers.
LEMMA AnswererStep ==
    ASSUME NEW p \in PCs, NEW s \in Seq(Steps), NEW q, NEW P \in PCs, NEW S \in Seq(Steps), NEW Q,
           NEW v \in Seq(Mail), NEW w \in Seq(Mail), Exchange(p, s, q, P, S, Q, v, w),
           NEW N \in PCs, NEW T \in Seq(Steps), NEW R, NEW u \in Seq(Mail),
           Works(P, S, Q, w, N, T, R, u)
    PROVE  Exchange(p, s, q, N, T, R, v, u)
<1>0. P # None
  BY NoneAssumption
<1>1. CASE Idles(P, S, Q, w, N, T, R, u)
  <2>1. Little(P, S, Q, v, N, T, R, v) /\ Outgoing(P, w, N, u) /\ P # NewPC
    BY <1>1, IdleLittle
  <2> QED
    BY <2>1, AnswererLittle
<1>2. CASE S # <<>> /\ ~Core(S[1])
           /\ (Finishes(P, S, Q, w, N, T, R, u) \/ Fails(P, S, Q, w, N, T, R, u))
  <2>1. Drain(S[1]) => S[1].rest = <<>>
    <3>1. S[1].do = "addIce" /\ 1 \in 1..Len(S)
      BY <1>2, Tailed DEF Core
    <3>2. \A d : S # <<Op("setRemoteOffer", "fresh", d)>>
      BY <3>1 DEF Op
    <3>3. Tidy(S, Q, Remote(P))
      BY <1>0, <3>2, AnswererChain
    <3> QED
      BY <3>1, <3>3 DEF Tidy
  <2>2. Little(P, S, Q, v, N, T, R, v) /\ Outgoing(P, w, N, u)
    BY <1>2, <2>1, AddedLittle
  <2> QED
    BY <1>2, <2>2, AnswererLittle
<1>3. CASE S # <<>> /\ Core(S[1])
           /\ (Finishes(P, S, Q, w, N, T, R, u) \/ Fails(P, S, Q, w, N, T, R, u))
  <2>1. PICK op \in Steps : op = S[1]
    BY <1>3, Tailed
  <2>2. Tail(S) \in Seq(Steps) /\ S # <<>> /\ Core(S[1])
    BY <1>3, Tailed
  <2>3. \/ op.do = "setRemoteOffer"
        \/ op.do = "addIce" /\ op.task # "ice" /\ op.d = Remote(P)
        \/ op.do = "createAnswer" /\ P.sig = "remote"
        \/ op.do = "setLocalAnswer" /\ P.sig = "remote" /\ op.d = P.answer
    <3>1. PICK d \in Desc :
            \/ S = <<Op("setRemoteOffer", "fresh", d)>>
            \/ S[1] = Op("setRemoteOffer", "existing", d)
            \/ Answering(P, S[1], d) /\ AnswersAt(p, P, S, Q, v, d, 1)
      BY <1>0, <2>2, AnswererWorks
    <3>2. CASE S = <<Op("setRemoteOffer", "fresh", d)>> \/ S[1] = Op("setRemoteOffer", "existing", d)
      BY <2>1, <3>2 DEF Op
    <3>3. CASE Answering(P, S[1], d) /\ AnswersAt(p, P, S, Q, v, d, 1)
      <4>1. Tidy(S, Q, Remote(P)) /\ 1 \in 1..Len(S)
        BY <2>2, <3>3, Tailed DEF AnswersAt, Side
      <4>2. op.do = "addIce" => op.task # "ice" /\ op.d = Remote(P)
        BY <2>1, <2>2, <4>1 DEF Core, Drain, Tidy, Answering
      <4> QED
        BY <2>1, <3>3, <4>2 DEF Answering
    <3> QED
      BY <3>1, <3>2, <3>3
  <2>4. Finishes(P, S, Q, w, N, T, R, u)
    <3>1. Possible(P, op)
      BY <2>3 DEF Possible
    <3> QED
      BY <1>3, <2>1, <3>1 DEF Fails
  <2>5. CASE op.do = "setRemoteOffer"
    <3>1. N = After(P, S[1], None) /\ T = Tail(S) \o AddRest(S[1], Q) /\ u = w /\ R = Q
      BY <2>1, <2>3, <2>4, <2>5 DEF Finishes
    <3> QED
      BY <1>3, <2>1, <2>5, <3>1, RemoteOfferSet
  <2>6. CASE op.do = "addIce"
    <3>1. PICK rest : /\ rest = op.rest /\ T = Tail(S) \o AddRest(op, rest) /\ u = w
                      /\ N = After(P, op, None) /\ R = IF rest = <<>> THEN <<>> ELSE Q
      BY <2>1, <2>3, <2>4, <2>6 DEF Finishes
    <3>2. /\ P \in PCs /\ S \in Seq(Steps) /\ S # <<>> /\ op.do = "addIce" /\ Core(op)
          /\ op = S[1] /\ Exchange(p, s, q, P, S, Q, v, w) /\ N \in PCs /\ N = After(P, op, None)
          /\ T \in Seq(Steps) /\ rest = op.rest /\ T = Tail(S) \o AddRest(op, rest)
          /\ rest = <<>> => R = <<>>
      BY <2>1, <2>2, <2>6, <3>1
    <3>3. Exchange(p, s, q, N, T, R, v, w)
      BY ONLY <3>2, DrainDone
    <3> QED
      BY <3>1, <3>3
  <2>7. CASE op.do = "createAnswer"
    <3>1. PICK x \in Desc : /\ N = After(P, S[1], x) /\ R = Q /\ u = w
                            /\ T = Tail(S) \o <<Then(op, "setLocalAnswer", x)>>
      BY <2>1, <2>3, <2>4, <2>7 DEF Finishes
    <3>2. Then(op, "setLocalAnswer", x) \in Steps
      BY ThenType DEF Descs
    <3>3. T = Append(Tail(S), Then(S[1], "setLocalAnswer", x))
      BY <2>1, <2>2, <3>1, <3>2, AddLast
    <3>4. /\ S # <<>> /\ S[1].do = "createAnswer" /\ P \in PCs /\ S \in Seq(Steps)
          /\ N \in PCs /\ T \in Seq(Steps) /\ x \in Desc /\ Exchange(p, s, q, P, S, Q, v, w)
      BY <2>1, <2>2, <2>7
    <3>5. N = After(P, S[1], x)
      BY <3>1
    <3>6. Exchange(p, s, q, N, T, Q, v, w)
      BY ONLY <3>3, <3>4, <3>5, AnswerMade
    <3> QED
      BY <3>1, <3>6
  <2>8. CASE op.do = "setLocalAnswer"
    <3>1. /\ N = After(P, S[1], None) /\ T = Tail(S) /\ R = Q
          /\ u = Append(w, Msg("answer", S[1].d))
      BY <2>1, <2>3, <2>4, <2>8 DEF Finishes
    <3> QED
      BY <2>1, <2>2, <2>8, <3>1, LocalAnswerSet
  <2> QED
    BY <2>3, <2>5, <2>6, <2>7, <2>8
<1> QED
  BY <1>1, <1>2, <1>3 DEF Works, Finishes, Fails

-----------------------------------------------------------------------------
(* The ways between two pages                                              *)

LEMMA Mails == ToServer \subseteq Mail /\ ToClient \subseteq Mail
BY DEF Mail

LEMMA MailType ==
    ASSUME NEW x \in Seq(ToClient), NEW y \in Seq(ToServer)
    PROVE  x \o y \in Seq(Mail)
<1>1. x \in Seq(Mail) /\ y \in Seq(Mail)
  BY Mails, SeqMonotonic
<1> QED
  BY <1>1, ConcatProperties

LEMMA WayType ==
    ASSUME WireOK, NEW b \in Browsers, NEW o \in Browsers
    PROVE  /\ Way(b, o) \in Seq(Mail) /\ toClient[o] \in Seq(Mail) /\ toServer[b] \in Seq(Mail)
           /\ toServer[b] \in Seq(ToServer) /\ toClient[o] \in Seq(ToClient)
<1>1. toServer[b] \in Seq(ToServer) /\ toClient[o] \in Seq(ToClient)
  BY DEF WireOK
<1>2. toServer[b] \in Seq(Mail) /\ toClient[o] \in Seq(Mail)
  BY <1>1, Mails, SeqMonotonic
<1> QED
  BY <1>1, <1>2, ConcatProperties DEF Way

\* What is sent comes last on the way,
LEMMA WaySent ==
    ASSUME WireOK, NEW b \in Browsers, NEW o \in Browsers, o # b, NEW m \in ToServer, link[b] = "up",
           Send(b, m), toClient' = toClient
    PROVE  Way(b, o)' = Append(Way(b, o), m) /\ Way(o, b)' = Way(o, b)
<1>1. toServer[b] \in Seq(Mail) /\ toClient[o] \in Seq(Mail) /\ m \in Mail
  BY WayType, Mails
<1>2. toServer'[b] = Append(toServer[b], m) /\ toServer'[o] = toServer[o]
  BY DEF Send, WireOK
<1>3. PICK x, y : x = toClient[o] /\ y = toServer[b]
  OBVIOUS
<1>4. x \in Seq(Mail) /\ y \in Seq(Mail) /\ x \o y \in Seq(Mail) /\ <<m>> \in Seq(Mail) /\ m \in Mail
  BY <1>1, <1>3, ConcatProperties
<1>5. Append(y, m) = y \o <<m>> /\ Append(x \o y, m) = (x \o y) \o <<m>>
  BY ONLY <1>4, AppendIsConcat
<1>6. x \o Append(y, m) = Append(x \o y, m)
  BY ONLY <1>4, <1>5, ConcatAssociative
<1> QED
  BY <1>2, <1>3, <1>6 DEF Way

\* what is heard came first,
LEMMA WayHeard ==
    ASSUME WireOK, NEW b \in Browsers, NEW o \in Browsers, o # b, toClient[b] # <<>>,
           toClient' = [toClient EXCEPT ![b] = Tail(toClient[b])], toServer' = toServer
    PROVE  /\ Way(o, b) # <<>> /\ Way(o, b)[1] = Head(toClient[b]) /\ Way(o, b)' = Tail(Way(o, b))
           /\ Way(b, o)' = Way(b, o)
<1>1. toClient[b] \in Seq(Mail) /\ toServer[o] \in Seq(Mail) /\ toClient[b] # <<>>
  BY WayType
<1>2. toClient'[b] = Tail(toClient[b]) /\ toClient'[o] = toClient[o]
  BY DEF WireOK
<1>3. PICK x, y : x = toClient[b] /\ y = toServer[o]
  OBVIOUS
<1>4. x \in Seq(Mail) /\ y \in Seq(Mail) /\ x # <<>>
  BY <1>1, <1>3
<1>5. /\ x \o y # <<>> /\ (x \o y)[1] = Head(x)
      /\ Tail(x \o y) = Tail(x) \o y
  BY ONLY <1>4, ConcatProperties, HeadTailProperties
<1> QED
  BY <1>2, <1>3, <1>5 DEF Way

\* and what the server relays stays where it is.
LEMMA WayRelayed ==
    ASSUME WireOK, NEW b \in Browsers, NEW o \in Browsers, o # b, toServer[b] # <<>>,
           toServer' = [toServer EXCEPT ![b] = Tail(toServer[b])],
           toClient' = [toClient EXCEPT ![o] = Append(toClient[o], Head(toServer[b]))]
    PROVE  Way(b, o)' = Way(b, o) /\ Way(o, b)' = Way(o, b)
<1>1. toServer[b] \in Seq(Mail) /\ toClient[o] \in Seq(Mail) /\ toServer[b] # <<>>
  BY WayType
<1>2. /\ toServer'[b] = Tail(toServer[b]) /\ toServer'[o] = toServer[o]
      /\ toClient'[o] = Append(toClient[o], Head(toServer[b])) /\ toClient'[b] = toClient[b]
  BY DEF WireOK
<1>3. PICK x, y : x = toClient[o] /\ y = toServer[b]
  OBVIOUS
<1>4. x \in Seq(Mail) /\ y \in Seq(Mail) /\ y # <<>>
  BY <1>1, <1>3
<1>5. Append(x, Head(y)) \o Tail(y) = x \o y
  BY ONLY <1>4, AppendIsConcat, ConcatAssociative, HeadTailProperties
<1> QED
  BY <1>2, <1>3, <1>5 DEF Way

-----------------------------------------------------------------------------
(* The steps of an end, in the state                                       *)

\* One end changes.
Only(b, o) == pc'[o] = pc[o] /\ ops'[o] = ops[o] /\ queue'[o] = queue[o]

WorksAt(b, o) ==
    Works(pc[b], ops[b], queue[b], Way(b, o), pc'[b], ops'[b], queue'[b], Way(b, o)')

\* An operation is done: the connection and the chain after it.
LEMMA Advanced ==
    ASSUME RtcOK, NEW b \in Browsers, NEW o \in Browsers, o # b, ops[b] # <<>>, NEW d, NEW next,
           Advance(b, d, next)
    PROVE  /\ pc'[b] = After(pc[b], ops[b][1], d) /\ ops'[b] = Tail(ops[b]) \o next
           /\ pc'[o] = pc[o] /\ ops'[o] = ops[o]
           /\ Head(ops[b]) = ops[b][1] /\ ops[b][1] \in Steps /\ Tail(ops[b]) \o <<>> = Tail(ops[b])
<1>1. ops[b] \in Seq(Steps)
  BY DEF RtcOK
<1>2. Head(ops[b]) = ops[b][1] /\ ops[b][1] \in Steps /\ Tail(ops[b]) \in Seq(Steps)
  BY <1>1, Tailed
<1>3. Tail(ops[b]) \o <<>> = Tail(ops[b])
  BY <1>2, ConcatEmptySeq
<1> QED
  BY <1>2, <1>3 DEF Advance, RtcOK

LEMMA AdvancedOnly ==
    ASSUME RtcOK, NEW b \in Browsers, NEW o \in Browsers, o # b, ops[b] # <<>>, NEW d, NEW next,
           Advance(b, d, next), queue' = queue
    PROVE  /\ pc'[b] = After(pc[b], ops[b][1], d) /\ ops'[b] = Tail(ops[b]) \o next
           /\ queue'[b] = queue[b] /\ Only(b, o)
           /\ Tail(ops[b]) \o <<>> = Tail(ops[b])
<1>1. /\ pc'[b] = After(pc[b], ops[b][1], d) /\ ops'[b] = Tail(ops[b]) \o next
      /\ pc'[o] = pc[o] /\ ops'[o] = ops[o] /\ Tail(ops[b]) \o <<>> = Tail(ops[b])
  BY Advanced
<1>2. queue'[b] = queue[b] /\ queue'[o] = queue[o]
  OBVIOUS
<1> QED
  BY <1>1, <1>2 DEF Only

LEMMA NegotiateWorks ==
    ASSUME WireOK, RtcOK, NEW b \in Browsers, NEW o \in Browsers, o # b, link[b] = "up", Negotiate(b)
    PROVE  WorksAt(b, o) /\ Only(b, o) /\ Way(o, b)' = Way(o, b)
<1>1. PICK op : op = ops[b][1]
  OBVIOUS
<1>2. toServer' = toServer /\ toClient' = toClient =>
        Way(b, o)' = Way(b, o) /\ Way(o, b)' = Way(o, b)
  BY DEF Way
<1>3. toServer[b] \in Seq(ToServer) /\ queue[b] = queue[b]
  BY WayType
<1>4. ASSUME ops[b] # <<>>
      PROVE  Head(ops[b]) = op /\ op \in Steps /\ Fresh(b) \in Desc /\ op.d \in Descs
  <2>1. ops[b] \in Seq(Steps)
    BY DEF RtcOK
  <2> QED
    BY <1>1, <1>4, <2>1, Tailed, FreshType DEF Steps, Ops
<1>5. CASE CreateOffer(b)
  <2>1. /\ ops[b] # <<>> /\ op.do = "createOffer" /\ Possible(pc[b], op) /\ toClient' = toClient
        /\ Advance(b, Fresh(b), <<Then(op, "setLocalOffer", Fresh(b))>>) /\ queue' = queue
        /\ IF op.task = "restart" THEN Send(b, Msg("offer", Fresh(b))) ELSE toServer' = toServer
    BY <1>4, <1>5 DEF CreateOffer, Finish
  <2>2. Msg("offer", Fresh(b)) \in ToServer
    BY <1>4, <2>1 DEF Msg, ToServer, Descs
  <2>3. /\ Way(o, b)' = Way(o, b)
        /\ Way(b, o)' = IF op.task = "restart" THEN Append(Way(b, o), Msg("offer", Fresh(b))) ELSE Way(b, o)
    BY <1>2, <2>1, <2>2, WaySent
  <2>20. PICK f, next : /\ f = Fresh(b) /\ next = <<Then(op, "setLocalOffer", Fresh(b))>> /\ Advance(b, f, next)
                      /\ ops[b] # <<>> /\ queue' = queue /\ RtcOK /\ o # b
                      /\ b \in Browsers /\ o \in Browsers
    BY <2>1
  <2>21. /\ pc'[b] = After(pc[b], ops[b][1], f) /\ ops'[b] = Tail(ops[b]) \o next
         /\ queue'[b] = queue[b] /\ Only(b, o)
         /\ Tail(ops[b]) \o <<>> = Tail(ops[b])
    BY ONLY <2>20, AdvancedOnly
  <2>4. /\ pc'[b] = After(pc[b], op, Fresh(b)) /\ Only(b, o)
        /\ ops'[b] = Tail(ops[b]) \o <<Then(op, "setLocalOffer", Fresh(b))>> /\ queue'[b] = queue[b]
    BY <1>1, <2>20, <2>21
  <2> QED
    BY <1>1, <1>4, <2>1, <2>3, <2>4 DEF WorksAt, Works, Finishes
<1>6. CASE SetLocalOffer(b)
  <2>1. /\ ops[b] # <<>> /\ op.do = "setLocalOffer" /\ Possible(pc[b], op) /\ toClient' = toClient
        /\ Advance(b, None, <<>>) /\ queue' = queue
        /\ IF op.task = "start" THEN Send(b, Msg("offer", op.d)) ELSE toServer' = toServer
    BY <1>4, <1>6 DEF SetLocalOffer, Finish
  <2>2. Msg("offer", op.d) \in ToServer
    BY <1>4, <2>1 DEF Msg, ToServer
  <2>3. /\ Way(o, b)' = Way(o, b)
        /\ Way(b, o)' = IF op.task = "start" THEN Append(Way(b, o), Msg("offer", op.d)) ELSE Way(b, o)
    BY <1>2, <2>1, <2>2, WaySent
  <2>20. PICK f, next : /\ f = None /\ next = <<>> /\ Advance(b, f, next)
                      /\ ops[b] # <<>> /\ queue' = queue /\ RtcOK /\ o # b
                      /\ b \in Browsers /\ o \in Browsers
    BY <2>1
  <2>21. /\ pc'[b] = After(pc[b], ops[b][1], f) /\ ops'[b] = Tail(ops[b]) \o next
         /\ queue'[b] = queue[b] /\ Only(b, o)
         /\ Tail(ops[b]) \o <<>> = Tail(ops[b])
    BY ONLY <2>20, AdvancedOnly
  <2>4. /\ pc'[b] = After(pc[b], op, None) /\ Only(b, o) /\ ops'[b] = Tail(ops[b])
        /\ queue'[b] = queue[b]
    BY <1>1, <2>20, <2>21
  <2> QED
    BY <1>1, <2>1, <2>3, <2>4 DEF WorksAt, Works, Finishes
<1>7. CASE SetRemote(b)
  <2>1. /\ ops[b] # <<>> /\ op.do \in {"setRemoteOffer", "setRemoteAnswer"}
        /\ Possible(pc[b], op) /\ toClient' = toClient /\ toServer' = toServer
        /\ Advance(b, None, AddRest(op, queue[b]))
        /\ queue' = [queue EXCEPT ![b] = IF queue[b] = <<>> THEN <<>> ELSE queue[b]]
    BY <1>4, <1>7 DEF SetRemote, Finish, Drained
  <2>2. /\ pc'[b] = After(pc[b], op, None) /\ Only(b, o)
        /\ ops'[b] = Tail(ops[b]) \o AddRest(op, queue[b]) /\ queue'[b] = queue[b]
    BY <1>1, <2>1, Advanced DEF Only, RtcOK
  <2> QED
    BY <1>1, <1>2, <2>1, <2>2 DEF WorksAt, Works, Finishes
<1>8. CASE AddIceCandidate(b)
  <2>1. /\ ops[b] # <<>> /\ op.do = "addIce" /\ Possible(pc[b], op)
        /\ toClient' = toClient /\ toServer' = toServer
    BY <1>4, <1>8 DEF AddIceCandidate, Finish
  <2>2. CASE op.task = "ice"
    <3>1. Advance(b, None, <<>>) /\ queue' = queue
      BY <1>4, <1>8, <2>1, <2>2 DEF AddIceCandidate
    <3>20. PICK f, next : /\ f = None /\ next = <<>> /\ Advance(b, f, next)
                        /\ ops[b] # <<>> /\ queue' = queue /\ RtcOK /\ o # b
                        /\ b \in Browsers /\ o \in Browsers
      BY <2>1, <3>1
    <3>21. /\ pc'[b] = After(pc[b], ops[b][1], f) /\ ops'[b] = Tail(ops[b]) \o next
           /\ queue'[b] = queue[b] /\ Only(b, o)
           /\ Tail(ops[b]) \o <<>> = Tail(ops[b])
      BY ONLY <3>20, AdvancedOnly
    <3>2. /\ pc'[b] = After(pc[b], op, None) /\ Only(b, o) /\ ops'[b] = Tail(ops[b])
          /\ queue'[b] = queue[b]
      BY <1>1, <3>20, <3>21
    <3> QED
      BY <1>1, <1>2, <2>1, <2>2, <3>2 DEF WorksAt, Works, Finishes
  <2>3. CASE op.task # "ice"
    <3>1. /\ Advance(b, None, AddRest(op, op.rest))
          /\ queue' = [queue EXCEPT ![b] = IF op.rest = <<>> THEN <<>> ELSE queue[b]]
      BY <1>4, <1>8, <2>1, <2>3 DEF AddIceCandidate, Drained
    <3>2. /\ pc'[b] = After(pc[b], op, None) /\ Only(b, o)
          /\ ops'[b] = Tail(ops[b]) \o AddRest(op, op.rest)
          /\ queue'[b] = IF op.rest = <<>> THEN <<>> ELSE queue[b]
      BY <1>1, <2>1, <3>1, Advanced DEF Only, RtcOK
    <3> QED
      BY <1>1, <1>2, <2>1, <2>3, <3>2 DEF WorksAt, Works, Finishes
  <2> QED
    BY <2>2, <2>3
<1>9. CASE CreateAnswer(b)
  <2>1. /\ ops[b] # <<>> /\ op.do = "createAnswer" /\ Possible(pc[b], op)
        /\ toClient' = toClient /\ toServer' = toServer /\ queue' = queue
        /\ Advance(b, Fresh(b), <<Then(op, "setLocalAnswer", Fresh(b))>>)
    BY <1>4, <1>9 DEF CreateAnswer, Finish
  <2>20. PICK f, next : /\ f = Fresh(b) /\ next = <<Then(op, "setLocalAnswer", Fresh(b))>> /\ Advance(b, f, next)
                      /\ ops[b] # <<>> /\ queue' = queue /\ RtcOK /\ o # b
                      /\ b \in Browsers /\ o \in Browsers
    BY <2>1
  <2>21. /\ pc'[b] = After(pc[b], ops[b][1], f) /\ ops'[b] = Tail(ops[b]) \o next
         /\ queue'[b] = queue[b] /\ Only(b, o)
         /\ Tail(ops[b]) \o <<>> = Tail(ops[b])
    BY ONLY <2>20, AdvancedOnly
  <2>2. /\ pc'[b] = After(pc[b], op, Fresh(b)) /\ Only(b, o)
        /\ ops'[b] = Tail(ops[b]) \o <<Then(op, "setLocalAnswer", Fresh(b))>> /\ queue'[b] = queue[b]
    BY <1>1, <2>20, <2>21
  <2> QED
    BY <1>1, <1>2, <1>4, <2>1, <2>2 DEF WorksAt, Works, Finishes
<1>10. CASE SetLocalAnswer(b)
  <2>1. /\ ops[b] # <<>> /\ op.do = "setLocalAnswer" /\ Possible(pc[b], op)
        /\ toClient' = toClient /\ Advance(b, None, <<>>) /\ queue' = queue
        /\ Send(b, Msg("answer", op.d))
    BY <1>4, <1>10 DEF SetLocalAnswer, Finish
  <2>2. Msg("answer", op.d) \in ToServer
    BY <1>4, <2>1 DEF Msg, ToServer
  <2>3. Way(o, b)' = Way(o, b) /\ Way(b, o)' = Append(Way(b, o), Msg("answer", op.d))
    BY <2>1, <2>2, WaySent
  <2>20. PICK f, next : /\ f = None /\ next = <<>> /\ Advance(b, f, next)
                      /\ ops[b] # <<>> /\ queue' = queue /\ RtcOK /\ o # b
                      /\ b \in Browsers /\ o \in Browsers
    BY <2>1
  <2>21. /\ pc'[b] = After(pc[b], ops[b][1], f) /\ ops'[b] = Tail(ops[b]) \o next
         /\ queue'[b] = queue[b] /\ Only(b, o)
         /\ Tail(ops[b]) \o <<>> = Tail(ops[b])
    BY ONLY <2>20, AdvancedOnly
  <2>4. /\ pc'[b] = After(pc[b], op, None) /\ Only(b, o) /\ ops'[b] = Tail(ops[b])
        /\ queue'[b] = queue[b]
    BY <1>1, <2>20, <2>21
  <2> QED
    BY <1>1, <2>1, <2>3, <2>4 DEF WorksAt, Works, Finishes
<1>11. CASE Fail(b)
  <2>1. /\ ops[b] # <<>> /\ ~Possible(pc[b], op) /\ toClient' = toClient /\ toServer' = toServer
        /\ IF op.task = "existing" THEN CreatePC(b, Op("setRemoteOffer", "fresh", op.arg))
           ELSE ops' = [ops EXCEPT ![b] = Tail(ops[b])] /\ UNCHANGED <<pc, queue>>
    BY <1>4, <1>11 DEF Fail, wireVars
  <2>2. Only(b, o) /\ (op.task = "existing" => pc'[b] = NewPC)
        /\ (op.task # "existing" => /\ pc'[b] = pc[b] /\ queue'[b] = queue[b]
                                   /\ ops'[b] = Tail(ops[b]))
    BY <2>1 DEF Only, CreatePC, RtcOK
  <2> QED
    BY <1>1, <1>2, <2>1, <2>2 DEF WorksAt, Works, Fails
<1>12. CASE Gather(b)
  <2>1. /\ pc[b] # None /\ pc[b].gather # None /\ pc' = [pc EXCEPT ![b] = [pc[b] EXCEPT !.gather = None]]
        /\ Send(b, Msg("ice", pc[b].gather)) /\ toClient' = toClient
        /\ ops' = ops /\ queue' = queue
    BY <1>12 DEF Gather
  <2>2. Msg("ice", pc[b].gather) \in ToServer
    <3>1. pc[b] \in PCs
      BY <2>1 DEF RtcOK
    <3>2. pc[b].gather \in Desc
      BY <2>1, <3>1 DEF PCs, Descs
    <3> QED
      BY <3>2 DEF Msg, ToServer, Descs
  <2>3. Way(o, b)' = Way(o, b) /\ Way(b, o)' = Append(Way(b, o), Msg("ice", pc[b].gather))
    BY <2>1, <2>2, WaySent
  <2>4. pc'[b] = [pc[b] EXCEPT !.gather = None] /\ Only(b, o) /\ ops'[b] = ops[b] /\ queue'[b] = queue[b]
    BY <2>1 DEF Only, RtcOK
  <2> QED
    BY <2>1, <2>3, <2>4 DEF WorksAt, Works, Idles
<1>13. CASE Connect(b)
  <2>1. /\ pc[b].local # None /\ pc' = [pc EXCEPT ![b] = [pc[b] EXCEPT !.up = TRUE]]
        /\ toClient' = toClient /\ toServer' = toServer /\ ops' = ops /\ queue' = queue
    BY <1>13 DEF Connect, wireVars
  <2>2. pc'[b] = [pc[b] EXCEPT !.up = TRUE] /\ Only(b, o) /\ ops'[b] = ops[b] /\ queue'[b] = queue[b]
    BY <2>1 DEF Only, RtcOK
  <2> QED
    BY <1>2, <2>1, <2>2 DEF WorksAt, Works, Idles
<1> QED
  BY <1>5, <1>6, <1>7, <1>8, <1>9, <1>10, <1>11, <1>12, <1>13 DEF Negotiate

\* It has a connection still.
LEMMA WorksType ==
    ASSUME NEW p \in PCs, NEW s \in Seq(Steps), NEW q, NEW v, NEW n, NEW t, NEW r, NEW y,
           Works(p, s, q, v, n, t, r, y)
    PROVE  n \in PCs /\ n # None
<1>0. NewPC \in PCs /\ None \in Descs /\ \A x \in Desc : x \in Descs
  BY NewTypes DEF Descs
<1>1. CASE Finishes(p, s, q, v, n, t, r, y)
  <2>1. s[1] \in Steps
    BY <1>1, Tailed DEF Finishes
  <2>2. \E x \in Descs : n = After(p, s[1], x)
    BY <1>0, <1>1, Zenon DEF Finishes
  <2> QED
    BY <2>1, <2>2, AfterType
<1>2. CASE Fails(p, s, q, v, n, t, r, y)
  BY <1>0, <1>2, NoneAssumption DEF Fails
<1>3. CASE Idles(p, s, q, v, n, t, r, y)
  <2>1. n \in PCs
    BY <1>3 DEF Idles, PCs, Descs
  <2> QED
    BY <2>1, NoneAssumption
<1> QED
  BY <1>1, <1>2, <1>3 DEF Works

-----------------------------------------------------------------------------
(* The exchanges go on                                                     *)

LEMMA OffererThere ==
    ASSUME NEW p, NEW s, NEW q, NEW P, NEW S, NEW Q, NEW v, NEW w, Exchange(p, s, q, P, S, Q, v, w)
    PROVE  p # None
<1>1. \A i, k, m : Side(p, s, q, w, i, k, m) => p # None
  BY DEF Side
<1>2. ASSUME NEW d, First(p, s, q, P, S, Q, v, w, d) PROVE p # None
  BY <1>2 DEF First, Unanswered
<1>3. CASE Fit(p, s, q, P, S, Q, v, w) \/ Again(p, s, q, P, S, Q, v, w)
  BY <1>1, <1>3 DEF Fit, Again
<1>4. ASSUME NEW d, Sent(p, s, q, P, S, Q, v, w, d) \/ Taken(p, s, q, P, S, Q, v, w, d)
                    \/ BeingAnswered(p, s, q, P, S, Q, v, w, d)
      PROVE  p # None
  BY <1>1, <1>4 DEF Sent, Taken, BeingAnswered
<1>5. ASSUME NEW d, NEW a, AnswerSent(p, s, q, P, S, Q, v, w, d, a)
                           \/ AnswerTaken(p, s, q, P, S, Q, v, w, d, a)
      PROVE  p # None
  BY <1>1, <1>5 DEF AnswerSent, AnswerTaken
<1> QED
  BY <1>2, <1>3, <1>4, <1>5 DEF Exchange

\* The state of one end.
LEMMA EndType ==
    ASSUME RtcOK, NEW b \in Browsers
    PROVE  /\ ops[b] \in Seq(Steps) /\ queue[b] \in Seq(Desc) /\ pc[b] \in PCs \cup {None}
           /\ pc[b] # None => pc[b] \in PCs
           /\ pc[b] = None => ops[b] = <<>>
BY DEF RtcOK

LEMMA NegotiateOffering ==
    ASSUME WireOK, RtcOK, WireOK', RtcOK', NEW r \in Browsers, NEW o \in Browsers, o # r,
           link[r] = "up", Exchanging(r, o), Negotiate(r)
    PROVE  Exchanging(r, o)'
<1>1. WorksAt(r, o) /\ Only(r, o) /\ Way(o, r)' = Way(o, r)
  BY NegotiateWorks
<1>2. pc[r] # None
  BY OffererThere DEF Exchanging
<1>3. PICK p, s, q, P, S, Q, v, w :
        /\ p = pc[r] /\ s = ops[r] /\ q = queue[r] /\ P = pc[o] /\ S = ops[o] /\ Q = queue[o]
        /\ v = Way(r, o) /\ w = Way(o, r)
  OBVIOUS
<1>4. PICK n, t, k, y : n = pc'[r] /\ t = ops'[r] /\ k = queue'[r] /\ y = Way(r, o)'
  OBVIOUS
<1>5. /\ p \in PCs /\ s \in Seq(Steps) /\ P \in PCs \cup {None} /\ v \in Seq(Mail) /\ w \in Seq(Mail)
      /\ t \in Seq(Steps)
  BY <1>2, <1>3, <1>4, EndType, WayType DEF RtcOK
<1>6. y \in Seq(Mail)
  BY <1>4, MailType DEF WireOK, Way
<1>7. Works(p, s, q, v, n, t, k, y) /\ Exchange(p, s, q, P, S, Q, v, w)
  BY <1>1, <1>3, <1>4 DEF WorksAt, Exchanging
<1>8. n \in PCs
  BY <1>5, <1>7, WorksType
<1>9. Exchange(n, t, k, P, S, Q, y, w)
  BY <1>5, <1>6, <1>7, <1>8, OffererStep
<1> QED
  BY <1>1, <1>3, <1>4, <1>9 DEF Exchanging, Only

LEMMA NegotiateAnswering ==
    ASSUME WireOK, RtcOK, WireOK', RtcOK', NEW r \in Browsers, NEW o \in Browsers, o # r,
           link[o] = "up", Exchanging(r, o), Negotiate(o)
    PROVE  Exchanging(r, o)'
<1>1. WorksAt(o, r) /\ Only(o, r) /\ Way(r, o)' = Way(r, o)
  BY NegotiateWorks
<1>2. pc[r] # None /\ pc[o] # None
  BY OffererThere, NegotiateRtc DEF Exchanging
<1>3. PICK p, s, q, P, S, Q, v, w :
        /\ p = pc[r] /\ s = ops[r] /\ q = queue[r] /\ P = pc[o] /\ S = ops[o] /\ Q = queue[o]
        /\ v = Way(r, o) /\ w = Way(o, r)
  OBVIOUS
<1>4. PICK n, t, k, y : n = pc'[o] /\ t = ops'[o] /\ k = queue'[o] /\ y = Way(o, r)'
  OBVIOUS
<1>5. /\ p \in PCs /\ s \in Seq(Steps) /\ P \in PCs /\ S \in Seq(Steps)
      /\ v \in Seq(Mail) /\ w \in Seq(Mail) /\ t \in Seq(Steps)
  BY <1>2, <1>3, <1>4, EndType, WayType DEF RtcOK
<1>6. y \in Seq(Mail)
  BY <1>4, MailType DEF WireOK, Way
<1>7. Works(P, S, Q, w, n, t, k, y) /\ Exchange(p, s, q, P, S, Q, v, w)
  BY <1>1, <1>3, <1>4 DEF WorksAt, Exchanging
<1>8. n \in PCs
  BY <1>5, <1>7, WorksType
<1>9. Exchange(p, s, q, n, t, k, v, y)
  BY <1>5, <1>6, <1>7, <1>8, AnswererStep
<1> QED
  BY <1>1, <1>3, <1>4, <1>9 DEF Exchanging, Only

LEMMA HearWays ==
    ASSUME WireOK, NEW b \in Browsers, NEW o \in Browsers, o # b, NEW type, Hear(b, type)
    PROVE  /\ Way(o, b) # <<>> /\ Way(o, b)[1] = Head(toClient[b]) /\ Way(o, b)[1].type = type
           /\ Way(o, b)' = Tail(Way(o, b)) /\ Way(b, o)' = Way(b, o)
           /\ Way(o, b) \in Seq(Mail) /\ Tail(Way(o, b)) \in Seq(Mail)
<1>1. /\ toClient[b] # <<>> /\ Head(toClient[b]).type = type /\ toServer' = toServer
      /\ toClient' = [toClient EXCEPT ![b] = Tail(toClient[b])]
  BY DEF Hear
<1>2. /\ Way(o, b) # <<>> /\ Way(o, b)[1] = Head(toClient[b])
      /\ Way(o, b)' = Tail(Way(o, b)) /\ Way(b, o)' = Way(b, o)
  BY <1>1, WayHeard
<1>3. Way(o, b) \in Seq(Mail)
  BY WayType
<1> QED
  BY <1>1, <1>2, <1>3, Tailed

\* A message is heard.
Hears(b) == OnPeerJoined(b) \/ OnPeerLeft(b) \/ OnOffer(b) \/ OnAnswer(b) \/ OnICE(b)

LEMMA HearsOne ==
    ASSUME NEW b, Hears(b), NEW type, toClient[b] # <<>> => Head(toClient[b]).type = type
    PROVE  /\ Hear(b, type) /\ Listening(b)
           /\ type \in {"offerer", "answerer"} => OnPeerJoined(b)
           /\ type = "left" => OnPeerLeft(b)
           /\ type = "offer" => OnOffer(b)
           /\ type = "answer" => OnAnswer(b)
           /\ type = "ice" => OnICE(b)
BY DEF Hears, Hear, OnPeerJoined, OnPeerLeft, OnOffer, OnAnswer, OnICE

\* Without a connection, and but for an offer, nothing that is heard makes one.
LEMMA HearsWithout ==
    ASSUME WireOK, RtcOK, NEW b \in Browsers, NEW o \in Browsers, o # b, Hears(b), pc[b] = None,
           NoOffer(Head(toClient[b]))
    PROVE  pc'[b] = None
<1>1. PICK type : type = Head(toClient[b]).type
  OBVIOUS
<1>2. /\ Hear(b, type) /\ (type \in {"offerer", "answerer"} => OnPeerJoined(b))
      /\ (type = "left" => OnPeerLeft(b)) /\ (type = "answer" => OnAnswer(b))
      /\ (type = "ice" => OnICE(b))
  BY <1>1, HearsOne
<1>3. type \in {"answerer", "left", "answer", "ice"}
  BY <1>1 DEF NoOffer, Hears, OnPeerJoined, OnPeerLeft, OnOffer, OnAnswer, OnICE, Hear
<1>4. CASE type = "answerer"
  BY <1>2, <1>4 DEF OnPeerJoined, Hear
<1>5. CASE type = "left"
  BY <1>2, <1>5 DEF OnPeerLeft, DropRTC, RtcOK
<1>6. CASE type = "answer"
  BY <1>2, <1>6 DEF OnAnswer
<1>7. CASE type = "ice"
  BY <1>2, <1>7 DEF OnICE
<1> QED
  BY <1>3, <1>4, <1>5, <1>6, <1>7

LEMMA HearsOnly ==
    ASSUME WireOK, RtcOK, NEW b \in Browsers, NEW o \in Browsers, o # b, Hears(b)
    PROVE  /\ Only(b, o) /\ toServer' = toServer /\ toClient'[o] = toClient[o] /\ toClient[b] # <<>>
           /\ toClient'[b] = Tail(toClient[b]) /\ listed' = listed /\ (crossed => crossed')
<1>1. PICK type : type = Head(toClient[b]).type
  OBVIOUS
<1>2. Hear(b, type)
  BY <1>1, HearsOne
<1>3. crossed => crossed'
  BY DEF Hears, OnPeerJoined, OnPeerLeft, OnOffer, OnAnswer, OnICE
<1>4. Only(b, o)
  <2>1. CASE OnPeerJoined(b)
    BY <2>1 DEF OnPeerJoined, Only, CreatePC, RtcOK
  <2>2. CASE OnPeerLeft(b)
    BY <2>2 DEF OnPeerLeft, Only, DropRTC, RtcOK
  <2>3. CASE OnOffer(b)
    BY <2>3 DEF OnOffer, Only, CreatePC, Ask, RtcOK
  <2>4. CASE OnAnswer(b)
    BY <2>4 DEF OnAnswer, Only, Ask, RtcOK
  <2>5. CASE OnICE(b)
    BY <2>5 DEF OnICE, Only, Ask, RtcOK
  <2> QED
    BY <2>1, <2>2, <2>3, <2>4, <2>5 DEF Hears
<1> QED
  BY <1>2, <1>3, <1>4 DEF Hear, serverVars, WireOK

\* The end that offers hears an answer or a candidate.
LEMMA OffererHearing ==
    ASSUME WireOK, RtcOK, WireOK', RtcOK', NEW r \in Browsers, NEW o \in Browsers, o # r,
           Exchanging(r, o), Hears(r)
    PROVE  Exchanging(r, o)'
<1>1. PICK type : type = Head(toClient[r]).type
  OBVIOUS
<1>2. /\ Hear(r, type) /\ (type = "answer" => OnAnswer(r)) /\ (type = "ice" => OnICE(r))
  BY <1>1, HearsOne
<1>3. PICK p, s, q, P, S, Q, v, w :
        /\ p = pc[r] /\ s = ops[r] /\ q = queue[r] /\ P = pc[o] /\ S = ops[o] /\ Q = queue[o]
        /\ v = Way(r, o) /\ w = Way(o, r)
  OBVIOUS
<1>4. /\ w # <<>> /\ w[1] = Head(toClient[r]) /\ w[1].type = type /\ w \in Seq(Mail)
      /\ Way(o, r)' = Tail(w) /\ Way(r, o)' = v /\ Tail(w) \in Seq(Mail)
  BY <1>2, <1>3, HearWays
<1>5. Exchange(p, s, q, P, S, Q, v, w)
  BY <1>3 DEF Exchanging
<1>6. p # None /\ type \in {"answer", "ice"}
  BY <1>4, <1>5, OffererThere, OffererHears
<1>7. p \in PCs /\ s \in Seq(Steps) /\ P \in PCs \cup {None} /\ v \in Seq(Mail)
  BY <1>3, <1>6, EndType, WayType DEF RtcOK
<1>8. PICK u \in Seq(Mail) : u = Tail(w)
  BY <1>4
<1>9. CASE type = "answer"
  <2>1. /\ pc' = pc /\ queue' = queue
        /\ ops' = [ops EXCEPT ![r] = Append(s, AnswerOp(w[1].d))]
    BY <1>2, <1>3, <1>4, <1>6, <1>9 DEF OnAnswer, Ask, AnswerOp
  <2>2. PICK t : t = Append(s, AnswerOp(w[1].d))
    OBVIOUS
  <2>3. ops'[r] = t /\ ops'[o] = S /\ t \in Seq(Steps)
    BY <1>3, <2>1, <2>2 DEF RtcOK
  <2>4. Exchange(p, t, q, P, S, Q, v, u)
    BY <1>4, <1>5, <1>7, <1>8, <1>9, <2>2, <2>3, AnswerHeard
  <2> QED
    BY <1>3, <1>4, <1>8, <2>1, <2>3, <2>4 DEF Exchanging
<1>10. CASE type = "ice" /\ Remote(p) = None
  <2>1. /\ pc' = pc /\ ops' = ops
        /\ queue' = [queue EXCEPT ![r] = Append(q, w[1].d)]
    BY <1>2, <1>3, <1>4, <1>10 DEF OnICE
  <2>2. PICK k : k = Append(q, w[1].d)
    OBVIOUS
  <2>3. queue'[r] = k /\ queue'[o] = Q
    BY <1>3, <2>1, <2>2 DEF RtcOK
  <2>4. Exchange(p, s, k, P, S, Q, v, Tail(w))
    BY <1>4, <1>5, <1>10, <2>2, OffererQueues
  <2> QED
    BY <1>3, <1>4, <2>1, <2>3, <2>4 DEF Exchanging
<1>11. CASE type = "ice" /\ Remote(p) # None
  <2>1. /\ pc' = pc /\ queue' = queue
        /\ ops' = [ops EXCEPT ![r] = Append(s, Op("addIce", "ice", w[1].d))]
    BY <1>2, <1>3, <1>4, <1>6, <1>11 DEF OnICE, Ask
  <2>2. PICK t : t = Append(s, Op("addIce", "ice", w[1].d))
    OBVIOUS
  <2>3. ops'[r] = t /\ ops'[o] = S /\ t \in Seq(Steps)
    BY <1>3, <2>1, <2>2 DEF RtcOK
  <2>4. Little(p, s, q, w, p, t, q, u) /\ Outgoing(p, v, p, v)
    BY <1>4, <1>8, <1>11, <2>2 DEF Little, Same, Outgoing
  <2>5. /\ p \in PCs /\ s \in Seq(Steps) /\ w \in Seq(Mail) /\ v \in Seq(Mail)
        /\ t \in Seq(Steps) /\ u \in Seq(Mail) /\ Remote(p) # None
        /\ Little(p, s, q, w, p, t, q, u) /\ Outgoing(p, v, p, v)
        /\ Exchange(p, s, q, P, S, Q, v, w)
    BY <1>4, <1>5, <1>7, <1>8, <1>11, <2>3, <2>4
  <2>6. Exchange(p, t, q, P, S, Q, v, u)
    BY ONLY <2>5, OffererLittle
  <2> QED
    BY <1>3, <1>4, <1>8, <2>1, <2>3, <2>6 DEF Exchanging
<1> QED
  BY <1>6, <1>9, <1>10, <1>11

\* The end that answers hears an offer or a candidate; before its first offer,
\* anything else changes nothing.
LEMMA AnswererHearing ==
    ASSUME WireOK, RtcOK, WireOK', RtcOK', NEW r \in Browsers, NEW o \in Browsers, o # r,
           Exchanging(r, o), Hears(o)
    PROVE  Exchanging(r, o)'
<1>1. PICK type : type = Head(toClient[o]).type
  OBVIOUS
<1>2. /\ Hear(o, type) /\ (type \in {"offerer", "answerer"} => OnPeerJoined(o))
      /\ (type = "left" => OnPeerLeft(o)) /\ (type = "offer" => OnOffer(o))
      /\ (type = "answer" => OnAnswer(o)) /\ (type = "ice" => OnICE(o))
  BY <1>1, HearsOne
<1>3. PICK p, s, q, P, S, Q, v, w :
        /\ p = pc[r] /\ s = ops[r] /\ q = queue[r] /\ P = pc[o] /\ S = ops[o] /\ Q = queue[o]
        /\ v = Way(r, o) /\ w = Way(o, r)
  OBVIOUS
<1>4. /\ v # <<>> /\ v[1] = Head(toClient[o]) /\ v[1].type = type /\ v \in Seq(Mail)
      /\ Way(r, o)' = Tail(v) /\ Way(o, r)' = w /\ Tail(v) \in Seq(Mail) /\ v[1] \in Mail
  BY <1>2, <1>3, HearWays, Tailed
<1>5. Exchange(p, s, q, P, S, Q, v, w)
  BY <1>3 DEF Exchanging
<1>6. p \in PCs /\ s \in Seq(Steps) /\ S \in Seq(Steps) /\ w \in Seq(Mail) /\ (P # None => P \in PCs)
  BY <1>3, <1>5, OffererThere, EndType, WayType DEF RtcOK
<1>7. PICK u \in Seq(Mail) : u = Tail(v)
  BY <1>4
<1>8. CASE P = None /\ ~NoOffer(v[1])
  <2>1. PICK x : x = <<Op("setRemoteOffer", "fresh", v[1].d)>>
    OBVIOUS
  <2>2. type = "offer" /\ Exchange(p, s, q, NewPC, x, <<>>, u, w)
    BY <1>4, <1>5, <1>7, <1>8, <2>1, FirstOfferHeard
  <2>3. CreatePC(o, Op("setRemoteOffer", "fresh", v[1].d))
    BY <1>2, <1>3, <1>4, <1>8, <2>2 DEF OnOffer
  <2>4. /\ pc'[o] = NewPC /\ ops'[o] = x /\ queue'[o] = <<>>
        /\ pc'[r] = p /\ ops'[r] = s /\ queue'[r] = q
    BY <1>3, <2>1, <2>3 DEF CreatePC, RtcOK
  <2> QED
    BY <1>3, <1>4, <1>7, <2>2, <2>4 DEF Exchanging
<1>9. CASE P = None /\ NoOffer(v[1])
  <2>1. pc'[o] = None /\ Only(o, r)
    BY <1>3, <1>4, <1>9, HearsWithout, HearsOnly
  <2>2. pc'[o] = None /\ pc'[r] = p /\ ops'[r] = s /\ queue'[r] = q
    BY <1>3, <2>1 DEF Only
  <2>3. PICK t, k : t = ops'[o] /\ k = queue'[o]
    OBVIOUS
  <2>4. Exchange(p, s, q, None, t, k, u, w)
    BY <1>4, <1>5, <1>7, <1>9, OtherHeard
  <2> QED
    BY <1>3, <1>4, <1>7, <2>2, <2>3, <2>4 DEF Exchanging
<1>10. CASE P # None
  <2>0. type \in {"offer", "ice"}
    BY <1>4, <1>5, <1>10, AnswererHears
  <2>1. CASE type = "offer"
    <3>1. /\ pc' = pc /\ queue' = queue
          /\ ops' = [ops EXCEPT ![o] = Append(S, Op("setRemoteOffer", "existing", v[1].d))]
      BY <1>2, <1>3, <1>4, <1>10, <2>1 DEF OnOffer, Ask
    <3>2. PICK t : t = Append(S, Op("setRemoteOffer", "existing", v[1].d))
      OBVIOUS
    <3>3. ops'[o] = t /\ ops'[r] = s /\ t \in Seq(Steps)
      BY <1>3, <3>1, <3>2 DEF RtcOK
    <3>4. Exchange(p, s, q, P, t, Q, u, w)
      BY <1>4, <1>5, <1>6, <1>7, <1>10, <2>1, <3>2, <3>3, OfferHeard
    <3> QED
      BY <1>3, <1>4, <1>7, <3>1, <3>3, <3>4 DEF Exchanging
  <2>2. CASE type = "ice" /\ Remote(P) = None
    <3>1. /\ pc' = pc /\ ops' = ops
          /\ queue' = [queue EXCEPT ![o] = Append(Q, v[1].d)]
      BY <1>2, <1>3, <1>4, <2>2 DEF OnICE
    <3>2. PICK k : k = Append(Q, v[1].d)
      OBVIOUS
    <3>3. queue'[o] = k /\ queue'[r] = q
      BY <1>3, <3>1, <3>2 DEF RtcOK
    <3>4. Exchange(p, s, q, P, S, k, Tail(v), w)
      BY <1>4, <1>5, <1>10, <2>2, <3>2, AnswererQueues
    <3> QED
      BY <1>3, <1>4, <3>1, <3>3, <3>4 DEF Exchanging
  <2>3. CASE type = "ice" /\ Remote(P) # None
    <3>1. /\ pc' = pc /\ queue' = queue
          /\ ops' = [ops EXCEPT ![o] = Append(S, Op("addIce", "ice", v[1].d))]
      BY <1>2, <1>3, <1>4, <1>10, <2>3 DEF OnICE, Ask
    <3>2. PICK t : t = Append(S, Op("addIce", "ice", v[1].d))
      OBVIOUS
    <3>3. ops'[o] = t /\ ops'[r] = s /\ t \in Seq(Steps)
      BY <1>3, <3>1, <3>2 DEF RtcOK
    <3>4. Little(P, S, Q, v, P, t, Q, u) /\ Outgoing(P, w, P, w)
      BY <1>4, <1>7, <2>3, <3>2 DEF Little, Same, Outgoing
    <3>5. P # NewPC
      BY <2>3 DEF NewPC, Remote
    <3>6. /\ P \in PCs /\ S \in Seq(Steps) /\ v \in Seq(Mail) /\ w \in Seq(Mail) /\ p \in PCs
          /\ t \in Seq(Steps) /\ u \in Seq(Mail) /\ P # NewPC
          /\ Little(P, S, Q, v, P, t, Q, u) /\ Outgoing(P, w, P, w)
          /\ Exchange(p, s, q, P, S, Q, v, w)
      BY <1>4, <1>5, <1>6, <1>7, <1>10, <3>3, <3>4, <3>5
    <3>7. Exchange(p, s, q, P, t, Q, u, w)
      BY ONLY <3>6, AnswererLittle
    <3> QED
      BY <1>3, <1>4, <1>7, <3>1, <3>3, <3>7 DEF Exchanging
  <2> QED
    BY <2>0, <2>1, <2>2, <2>3
<1> QED
  BY <1>8, <1>9, <1>10

-----------------------------------------------------------------------------
(* The first offer                                                         *)

\* All that an offer follows is no offer.
LEMMA FirstSentNow ==
    ASSUME NEW n, NEW v \in Seq(Mail), \A x \in 1..Len(v) : NoOffer(v[x]), NEW d \in Desc,
           n.gather = d, NEW y \in Seq(Mail), y = Append(v, Msg("offer", d))
    PROVE  FirstSent(n, y, d)
<1>1. PICK j \in Nat : j = Len(v) + 1
  BY LenProperties
<1>2. Msg("offer", d) \in Mail
  BY DEF Msg, Mail, ToServer, Descs
<1>3. /\ Len(y) = j /\ y[j] = Msg("offer", d) /\ j \in 1..Len(y)
      /\ \A x \in 1..Len(v) : y[x] = v[x]
  BY <1>1, <1>2, Appended
<1>4. \A x \in 1..Len(y) : x < j => NoOffer(y[x])
  BY <1>1, <1>3
<1> QED
  BY <1>3, <1>4 DEF FirstSent

LEMMA StartOps ==
    /\ StartOp \in Steps /\ StartOp.do = "createOffer" /\ StartOp.task = "start"
    /\ \A d \in Desc : /\ Then(StartOp, "setLocalOffer", d) \in Steps
                       /\ Then(StartOp, "setLocalOffer", d).do = "setLocalOffer"
                       /\ Then(StartOp, "setLocalOffer", d).task = "start"
                       /\ Then(StartOp, "setLocalOffer", d).d = d
<1>1. StartOp \in Steps
  BY NewTypes DEF StartOp, Descs
<1>2. \A d \in Desc : Then(StartOp, "setLocalOffer", d) \in Steps
  BY <1>1, ThenType DEF Descs
<1> QED
  BY <1>1, <1>2 DEF StartOp, Op, Then

\* It is made,
LEMMA StartMade ==
    ASSUME NEW q, NEW v, NEW n, NEW t, NEW k, NEW y,
           Works(NewPC, <<StartOp>>, q, v, n, t, k, y)
    PROVE  /\ k = q /\ y = v
           /\ \E d \in Desc : n = [NewPC EXCEPT !.offer = d] /\ t = <<Then(StartOp, "setLocalOffer", d)>>
<1>1. PICK s \in Seq(Steps) : s = <<StartOp>>
  BY StartOps, OneStep
<1>2. s[1] = StartOp /\ s # <<>> /\ Tail(s) = <<>>
  BY <1>1
<1>3. Possible(NewPC, StartOp) /\ NewPC.gather = None /\ NewPC.local = None
  BY StartOps DEF Possible, NewPC
<1>4. ~Idles(NewPC, s, q, v, n, t, k, y)
  BY <1>3 DEF Idles
<1>5. ~Fails(NewPC, s, q, v, n, t, k, y)
  BY <1>2, <1>3 DEF Fails
<1>6. Finishes(NewPC, s, q, v, n, t, k, y)
  BY <1>1, <1>4, <1>5, Zenon DEF Works
<1>7. PICK d \in Desc : /\ n = After(NewPC, StartOp, d) /\ k = q /\ y = v
                        /\ t = Tail(s) \o <<Then(StartOp, "setLocalOffer", d)>>
  BY <1>2, <1>6, StartOps DEF Finishes
<1>8. n = [NewPC EXCEPT !.offer = d]
  BY <1>7, StartOps DEF After
<1>9. t = <<Then(StartOp, "setLocalOffer", d)>>
  BY <1>2, <1>7, StartOps, OneStep
<1> QED
  BY <1>7, <1>8, <1>9

\* and set and sent.
LEMMA StartSent ==
    ASSUME NEW d \in Desc, NEW p \in PCs, p = [NewPC EXCEPT !.offer = d], NEW q, NEW v, NEW n, NEW t,
           NEW k, NEW y, Works(p, <<Then(StartOp, "setLocalOffer", d)>>, q, v, n, t, k, y)
    PROVE  /\ k = q /\ y = Append(v, Msg("offer", d)) /\ t = <<>>
           /\ Unanswered(n, d) /\ n.gather = d
<1>1. PICK x \in Steps : x = Then(StartOp, "setLocalOffer", d)
  BY StartOps
<1>2. PICK s \in Seq(Steps) : s = <<x>>
  BY OneStep
<1>3. s[1] = x /\ s # <<>> /\ Tail(s) = <<>>
  BY <1>2
<1>4. /\ x.do = "setLocalOffer" /\ x.task = "start" /\ x.d = d
  BY <1>1, StartOps
<1>5. /\ p.sig = "stable" /\ p.offer = d /\ p.gather = None /\ p.local = None /\ p.remote = None
  BY DEF NewPC
<1>6. Possible(p, x)
  BY <1>4, <1>5 DEF Possible
<1>7. ~Idles(p, s, q, v, n, t, k, y)
  BY <1>5 DEF Idles
<1>8. ~Fails(p, s, q, v, n, t, k, y)
  BY <1>3, <1>6 DEF Fails
<1>9. Finishes(p, s, q, v, n, t, k, y)
  BY <1>1, <1>2, <1>7, <1>8, Zenon DEF Works
<1>10. n = After(p, x, None) /\ k = q /\ t = Tail(s) /\ y = Append(v, Msg("offer", d))
  BY <1>3, <1>4, <1>9 DEF Finishes
<1>11. n.sig = "local" /\ n.pending = d /\ n.gather = d /\ n.remote = None
  BY <1>4, <1>5, <1>10 DEF After, PCs
<1>12. n # None
  BY <1>1, <1>10, AfterType DEF Descs
<1> QED
  BY <1>3, <1>10, <1>11, <1>12 DEF Unanswered

-----------------------------------------------------------------------------
(* The phases follow each other                                            *)

LEMMA NegotiateStarting ==
    ASSUME WireOK, RtcOK, WireOK', NEW r \in Browsers, NEW o \in Browsers, o # r,
           link[r] = "up", Starting(r, o), Negotiate(r)
    PROVE  Starting(r, o)' \/ Exchanging(r, o)'
<1>1. /\ WorksAt(r, o) /\ pc'[o] = None /\ ops'[o] = ops[o] /\ queue'[o] = queue[o]
      /\ Way(o, r)' = <<>>
  BY NegotiateWorks DEF Only, Starting
<1>2. PICK v \in Seq(Mail) : v = Way(r, o) /\ \A x \in 1..Len(v) : NoOffer(v[x])
  BY WayType DEF Starting
<1>3. PICK y \in Seq(Mail) : y = Way(r, o)'
  BY MailType DEF WireOK, Way
<1>4. PICK n, t, k : n = pc'[r] /\ t = ops'[r] /\ k = queue'[r]
  OBVIOUS
<1>5. queue[r] = <<>>
  BY DEF Starting
<1>6. CASE pc[r] = NewPC /\ ops[r] = <<StartOp>>
  <2>1. Works(NewPC, <<StartOp>>, <<>>, v, n, t, k, y)
    BY <1>1, <1>2, <1>3, <1>4, <1>5, <1>6 DEF WorksAt
  <2>2. /\ k = <<>> /\ y = v
        /\ \E d \in Desc : n = [NewPC EXCEPT !.offer = d] /\ t = <<Then(StartOp, "setLocalOffer", d)>>
    BY <2>1, StartMade
  <2>3. Starting(r, o)'
    BY <1>1, <1>2, <1>3, <1>4, <2>2 DEF Starting
  <2> QED
    BY <2>3
<1>7. ASSUME NEW d \in Desc, pc[r] = [NewPC EXCEPT !.offer = d],
             ops[r] = <<Then(StartOp, "setLocalOffer", d)>>
      PROVE  Exchanging(r, o)'
  <2>1. PICK p \in PCs : p = [NewPC EXCEPT !.offer = d] /\ p = pc[r]
    <3>1. NewPC \in PCs /\ d \in Descs
      BY NewTypes DEF Descs
    <3> QED
      BY <1>7, <3>1 DEF PCs
  <2>2. PICK s : s = <<Then(StartOp, "setLocalOffer", d)>> /\ s = ops[r]
    BY <1>7
  <2>3. Works(p, <<Then(StartOp, "setLocalOffer", d)>>, <<>>, v, n, t, k, y)
    BY <1>1, <1>2, <1>3, <1>4, <1>5, <2>1, <2>2 DEF WorksAt
  <2>4. /\ k = <<>> /\ y = Append(v, Msg("offer", d)) /\ t = <<>> /\ Unanswered(n, d) /\ n.gather = d
    BY <2>1, <2>3, StartSent
  <2>5. FirstSent(n, y, d)
    BY <1>2, <1>3, <2>4, FirstSentNow
  <2>6. PICK S, Q : S = ops'[o] /\ Q = queue'[o]
    OBVIOUS
  <2>7. First(n, t, k, None, S, Q, y, <<>>, d)
    BY <2>4, <2>5, Zenon DEF First
  <2>8. Exchange(n, t, k, None, S, Q, y, <<>>)
    BY <2>7 DEF Exchange
  <2> QED
    BY <1>1, <1>3, <1>4, <2>6, <2>8 DEF Exchanging
<1> QED
  BY <1>6, <1>7 DEF Starting

\* What the other one hears then is nothing to him.
LEMMA StartingHearing ==
    ASSUME WireOK, RtcOK, NEW r \in Browsers, NEW o \in Browsers, o # r, Starting(r, o),
           NEW b \in {r, o}, Hears(b)
    PROVE  Starting(r, o)'
<1>1. PICK type : type = Head(toClient[b]).type
  OBVIOUS
<1>2. Hear(b, type)
  BY <1>1, HearsOne
<1>3. b = o
  <2>1. SUFFICES ASSUME b = r PROVE FALSE
    OBVIOUS
  <2>2. Way(o, r) # <<>>
    BY <1>2, <2>1, HearWays
  <2> QED
    BY <2>2 DEF Starting
<1>4. /\ Way(r, o)' = Tail(Way(r, o)) /\ Way(o, r)' = Way(o, r)
      /\ Way(r, o)[1] = Head(toClient[o]) /\ Way(r, o) # <<>> /\ Way(r, o) \in Seq(Mail)
  BY <1>2, <1>3, HearWays
<1>5. PICK v \in Seq(Mail) : v = Way(r, o) /\ v # <<>> /\ \A x \in 1..Len(v) : NoOffer(v[x])
  BY <1>4 DEF Starting
<1>6. PICK y \in Seq(Mail) : y = Tail(v) /\ y = Way(r, o)'
  BY <1>4, <1>5, Tailed
<1>7. NoOffer(v[1]) /\ \A x \in 1..Len(y) : NoOffer(y[x])
  BY <1>5, <1>6, Tailed
<1>8. pc'[o] = None /\ Only(o, r)
  BY <1>3, <1>4, <1>5, <1>7, HearsWithout, HearsOnly DEF Starting
<1>9. pc'[r] = pc[r] /\ ops'[r] = ops[r] /\ queue'[r] = queue[r]
  BY <1>8 DEF Only
<1> QED
  BY <1>4, <1>6, <1>7, <1>8, <1>9 DEF Starting

\* The announcement stays the last that is said to r,
LEMMA LastStays ==
    ASSUME NEW s \in Seq(ToClient), NEW t \in Seq(ToClient), s # <<>>, t = Tail(s), t # <<>>
    PROVE  t[Len(t)] = s[Len(s)]
<1>1. Len(t) = Len(s) - 1 /\ \A x \in 1..Len(t) : t[x] = s[x + 1]
  BY Tailed
<1>2. Len(t) \in 1..Len(t) /\ Len(s) \in Nat
  BY EmptySeq, LenProperties
<1> QED
  BY <1>1, <1>2

LEMMA AnnouncingHearing ==
    ASSUME WireOK, RtcOK, NEW r \in Browsers, NEW o \in Browsers, o # r, Announcing(r, o),
           NEW b \in {r, o}, Hears(b), ~crossed'
    PROVE  Announcing(r, o)' \/ Starting(r, o)'
<1>1. CASE b = o
  <2>1. PICK s \in Seq(ToClient) : s = toClient[o] /\ \A x \in 1..Len(s) : NoOffer(s[x])
    BY DEF Announcing, WireOK
  <2>2. /\ Only(o, r) /\ toServer' = toServer /\ toClient'[r] = toClient[r]
        /\ s # <<>> /\ toClient'[o] = Tail(s)
    BY <1>1, <2>1, HearsOnly
  <2>3. PICK t \in Seq(ToClient) : t = Tail(s)
    BY <2>2, Tailed
  <2>4. NoOffer(Head(s)) /\ \A x \in 1..Len(t) : NoOffer(t[x])
    BY <2>1, <2>2, <2>3, Tailed
  <2>5. pc'[o] = None
    BY <1>1, <2>1, <2>4, HearsWithout DEF Announcing
  <2> QED
    BY <2>2, <2>3, <2>4, <2>5 DEF Announcing
<1>2. CASE b = r
  <2>1. PICK s \in Seq(ToClient) : s = toClient[r] /\ s # <<>> /\ s[Len(s)].type = "offerer"
    BY DEF Announcing, WireOK
  <2>2. /\ Only(r, o) /\ toServer' = toServer /\ toClient'[o] = toClient[o]
        /\ toClient'[r] = Tail(s)
    BY <1>2, <2>1, HearsOnly
  <2>3. PICK t \in Seq(ToClient) : t = Tail(s)
    BY <2>1, Tailed
  <2>4. pc'[o] = None /\ toServer'[o] = <<>> /\ \A x \in 1..Len(toClient'[o]) : NoOffer(toClient'[o][x])
    BY <2>2 DEF Announcing, Only
  <2>5. CASE t # <<>>
    <3>1. t[Len(t)].type = "offerer"
      BY <2>1, <2>3, <2>5, LastStays
    <3> QED
      BY <2>2, <2>3, <2>4, <2>5, <3>1 DEF Announcing
  <2>6. CASE t = <<>>
    <3>1. Head(s).type = "offerer"
      <4>1. Len(t) = Len(s) - 1 /\ Head(s) = s[1] /\ Len(s) \in Nat
        BY <2>1, <2>3, Tailed
      <4>2. Len(t) = 0
        BY <2>6
      <4> QED
        BY <2>1, <4>1, <4>2
    <3>2. Hear(r, "offerer") /\ OnPeerJoined(r)
      BY <1>2, <2>1, <3>1, HearsOne
    <3>3. CreatePC(r, StartOp) /\ ~Has(toServer[r], "offer")
      BY <3>1, <3>2, <2>1 DEF OnPeerJoined, StartOp, Hear
    <3>4. pc'[r] = NewPC /\ ops'[r] = <<StartOp>> /\ queue'[r] = <<>>
      BY <3>3 DEF CreatePC, RtcOK
    <3>5. Way(o, r)' = <<>>
      <4>1. <<>> \o <<>> = <<>>
        BY EmptySeq, ConcatEmptySeq
      <4> QED
        BY <2>2, <2>3, <2>4, <2>6, <4>1 DEF Way
    <3>6. PICK x \in Seq(ToClient), y \in Seq(ToServer) :
            x = toClient[o] /\ y = toServer[r] /\ Way(r, o)' = x \o y
      BY <2>2 DEF WireOK, Way
    <3>7. \A i \in 1..Len(y) : NoOffer(y[i])
      BY <3>3, <3>6 DEF Has, NoOffer, ToServer
    <3>8. \A i \in 1..Len(x) : NoOffer(x[i])
      BY <3>6 DEF Announcing
    <3>9. x \in Seq(Mail) /\ y \in Seq(Mail)
      BY Mails, SeqMonotonic
    <3>10. /\ Len(x \o y) = Len(x) + Len(y) /\ Len(x) \in Nat /\ Len(y) \in Nat
           /\ \A i \in 1 .. Len(x) + Len(y) : (x \o y)[i] = IF i <= Len(x) THEN x[i] ELSE y[i - Len(x)]
      BY <3>9, ConcatProperties, LenProperties
    <3>11. \A i \in 1..Len(x \o y) : NoOffer((x \o y)[i])
      BY <3>7, <3>8, <3>10
    <3> QED
      BY <2>4, <3>4, <3>5, <3>6, <3>11 DEF Starting
  <2> QED
    BY <2>5, <2>6
<1> QED
  BY <1>1, <1>2

-----------------------------------------------------------------------------
(* Every step leads from phase to phase                                    *)

\* Who does not fit is making an offer, or waits for the answer.
LEMMA NotFit ==
    ASSUME NEW p, NEW s, NEW q, NEW P, NEW S, NEW Q, NEW v, NEW w, Exchange(p, s, q, P, S, Q, v, w),
           ~Fit(p, s, q, P, S, Q, v, w)
    PROVE  \/ p # None /\ p.sig = "local"
           \/ \E i \in 1..Len(s) : s[i].do \in {"createOffer", "setLocalOffer"}
<1>1. ASSUME NEW i, NEW k, NEW m, Side(p, s, q, w, i, k, m), k # 0 PROVE k \in 1..Len(s) /\ p # None
  BY <1>1 DEF Side, Cores
<1>2. ASSUME NEW i, NEW k, NEW d, NEW m, Side(p, s, q, w, i, k, m), Offered(p, s, k, d)
      PROVE  \/ p # None /\ p.sig = "local"
             \/ \E x \in 1..Len(s) : s[x].do \in {"createOffer", "setLocalOffer"}
  <2>1. p # None
    BY <1>2 DEF Side
  <2> QED
    BY <1>1, <1>2, <2>1 DEF Offered
<1>3. CASE Again(p, s, q, P, S, Q, v, w)
  <2>1. PICK k \in Nat : Side(p, s, q, w, 0, k, 0) /\ k # 0 /\ s[k] = Op("createOffer", "restart", None)
    BY <1>3 DEF Again
  <2> QED
    BY <1>1, <2>1 DEF Op
<1>4. ASSUME NEW d, First(p, s, q, P, S, Q, v, w, d) PROVE p # None /\ p.sig = "local"
  BY <1>4 DEF First, Unanswered
<1>5. ASSUME NEW d, \/ Sent(p, s, q, P, S, Q, v, w, d) \/ Taken(p, s, q, P, S, Q, v, w, d)
                    \/ BeingAnswered(p, s, q, P, S, Q, v, w, d)
      PROVE  \E k \in Nat : Side(p, s, q, w, 0, k, 0) /\ Offered(p, s, k, d)
  BY <1>5 DEF Sent, Taken, BeingAnswered
<1>6. ASSUME NEW d, NEW a, AnswerSent(p, s, q, P, S, Q, v, w, d, a)
      PROVE  \E i, k \in Nat : Side(p, s, q, w, i, k, 0) /\ Offered(p, s, k, d)
  BY <1>6 DEF AnswerSent
<1>7. ASSUME NEW d, NEW a, AnswerTaken(p, s, q, P, S, Q, v, w, d, a)
      PROVE  \E k, m \in Nat : /\ Side(p, s, q, w, 0, k, m)
                               /\ (p.sig = "local" \/ Offered(p, s, k, d))
  BY <1>7 DEF AnswerTaken
<1>8. ASSUME NEW i, NEW k, NEW m, Side(p, s, q, w, i, k, m), p.sig = "local" PROVE p # None /\ p.sig = "local"
  BY <1>8 DEF Side
<1> QED
  BY <1>2, <1>3, <1>4, <1>5, <1>6, <1>7, <1>8 DEF Exchange

LEMMA RestartPhase ==
    ASSUME WireOK, RtcOK, NEW r \in Browsers, NEW o \in Browsers, o = Other(r), InPhase(r, o),
           NEW b \in Browsers, Restart(b), ~crossed', RtcOK'
    PROVE  InPhase(r, o)' \/ InPhase(o, r)'
<1>1. o # r /\ (b = r \/ b = o)
  BY Others
<1>2. /\ pc[b] # None /\ ops' = [ops EXCEPT ![b] = Append(ops[b], Op("createOffer", "restart", None))]
      /\ pc' = pc /\ queue' = queue /\ toServer' = toServer /\ toClient' = toClient
      /\ \A c \in Browsers : ~Offering(c)
  <2>1. pc[b] # None /\ ops' = [ops EXCEPT ![b] = Append(ops[b], Op("createOffer", "restart", None))]
    BY DEF Restart, Ask
  <2>2. pc' = pc /\ queue' = queue /\ toServer' = toServer /\ toClient' = toClient
    BY DEF Restart, wireVars
  <2>3. \A c \in Browsers : ~Offering(c)
    BY DEF Restart
  <2> QED
    BY <2>1, <2>2, <2>3
<1>3. Way(r, o)' = Way(r, o) /\ Way(o, r)' = Way(o, r)
  BY <1>2 DEF Way
<1>4. CASE Announcing(r, o)
  <2>1. Announcing(r, o)'
    BY <1>2, <1>4 DEF Announcing
  <2> QED
    BY <2>1 DEF InPhase
<1>5. CASE Starting(r, o)
  <2>1. \E x \in Steps : ops[r] = <<x>> /\ x.do \in {"createOffer", "setLocalOffer"}
    BY <1>5, StartOps DEF Starting
  <2>2. Offering(r)
    <3>1. PICK x \in Steps : ops[r] = <<x>> /\ x.do \in {"createOffer", "setLocalOffer"}
      BY <2>1
    <3>2. 1 \in 1..Len(ops[r]) /\ ops[r][1] = x
      BY <3>1, OneStep
    <3> QED
      BY <3>1, <3>2 DEF Offering
  <2> QED
    BY <1>2, <2>2
<1>6. CASE Exchanging(r, o)
  <2>1. PICK p, s, q, P, S, Q, v, w :
          /\ p = pc[r] /\ s = ops[r] /\ q = queue[r] /\ P = pc[o] /\ S = ops[o] /\ Q = queue[o]
          /\ v = Way(r, o) /\ w = Way(o, r)
    OBVIOUS
  <2>2. Exchange(p, s, q, P, S, Q, v, w)
    BY <1>6, <2>1 DEF Exchanging
  <2>3. Fit(p, s, q, P, S, Q, v, w)
    BY <1>2, <2>1, <2>2, NotFit DEF Offering
  <2>4. Fit(P, S, Q, p, s, q, w, v)
    BY <2>3, FitTurned
  <2>5. p # None /\ P # None
    BY <2>3, <2>4 DEF Fit, Side
  <2>6. p \in PCs /\ P \in PCs /\ s \in Seq(Steps) /\ S \in Seq(Steps)
    BY <2>1, <2>5, EndType
  <2>7. PICK op \in Steps : op = Op("createOffer", "restart", None)
    BY NewTypes DEF Descs
  <2>8. CASE b = r
    <3>1. PICK t \in Seq(Steps) : t = Append(s, op)
      BY <2>6, Appended
    <3>2. Exchange(p, t, q, P, S, Q, v, w)
      BY <2>3, <2>6, <2>7, <3>1, RestartAsked
    <3>3. ops'[r] = t /\ ops'[o] = S
      BY <1>1, <1>2, <2>1, <2>7, <2>8, <3>1 DEF RtcOK
    <3>4. Exchanging(r, o)'
      BY <1>2, <1>3, <2>1, <3>2, <3>3 DEF Exchanging
    <3> QED
      BY <3>4 DEF InPhase
  <2>9. CASE b = o
    <3>1. PICK t \in Seq(Steps) : t = Append(S, op)
      BY <2>6, Appended
    <3>2. Exchange(P, t, Q, p, s, q, w, v)
      BY <2>4, <2>6, <2>7, <3>1, RestartAsked
    <3>3. ops'[o] = t /\ ops'[r] = s
      BY <1>1, <1>2, <2>1, <2>7, <2>9, <3>1 DEF RtcOK
    <3>4. Exchanging(o, r)'
      BY <1>2, <1>3, <2>1, <3>2, <3>3 DEF Exchanging
    <3> QED
      BY <3>4 DEF InPhase
  <2> QED
    BY <1>1, <2>8, <2>9
<1> QED
  BY <1>4, <1>5, <1>6 DEF InPhase

LEMMA NegotiatePhase ==
    ASSUME HubOK, ~astray, WireOK, RtcOK, WireOK', RtcOK', NEW r \in Browsers, NEW o \in Browsers, o = Other(r),
           InPhase(r, o), listed[r], listed[o], NEW b \in Browsers, Negotiate(b)
    PROVE  InPhase(r, o)'
<1>1. o # r /\ (b = r \/ b = o)
  BY Others
<1>2. link[r] = "up" /\ link[o] = "up" /\ pc[b] # None
  BY NegotiateRtc DEF HubOK
<1>3. CASE Announcing(r, o)
  <2>1. b = r
    BY <1>1, <1>2, <1>3 DEF Announcing
  <2>2. toClient' = toClient /\ Only(r, o) /\ toServer'[o] = toServer[o]
    <3>1. Only(r, o) /\ toClient' = toClient /\ Sends(r)
      BY <1>1, <1>2, <2>1, NegotiateWorks, NegotiateRtc
    <3>2. toServer'[o] = toServer[o]
      BY <1>1, <3>1 DEF Sends, Send, WireOK
    <3> QED
      BY <3>1, <3>2
  <2>3. Announcing(r, o)'
    BY <1>3, <2>2 DEF Announcing, Only
  <2> QED
    BY <2>3 DEF InPhase
<1>4. CASE Starting(r, o)
  <2>1. b = r
    BY <1>1, <1>2, <1>4 DEF Starting
  <2>2. Starting(r, o)' \/ Exchanging(r, o)'
    BY <1>1, <1>2, <1>4, <2>1, NegotiateStarting
  <2> QED
    BY <2>2 DEF InPhase
<1>5. CASE Exchanging(r, o)
  <2>1. Exchanging(r, o)'
    BY <1>1, <1>2, <1>5, NegotiateOffering, NegotiateAnswering
  <2> QED
    BY <2>1 DEF InPhase
<1> QED
  BY <1>3, <1>4, <1>5 DEF InPhase

LEMMA HearPhase ==
    ASSUME WireOK, RtcOK, WireOK', RtcOK', NEW r \in Browsers, NEW o \in Browsers, o = Other(r),
           InPhase(r, o), NEW b \in Browsers, Hears(b), ~crossed'
    PROVE  InPhase(r, o)'
<1>1. o # r /\ b \in {r, o}
  BY Others
<1>2. CASE Announcing(r, o)
  <2>1. Announcing(r, o)' \/ Starting(r, o)'
    BY <1>1, <1>2, AnnouncingHearing
  <2> QED
    BY <2>1 DEF InPhase
<1>3. CASE Starting(r, o)
  <2>1. Starting(r, o)'
    BY <1>1, <1>3, StartingHearing
  <2> QED
    BY <2>1 DEF InPhase
<1>4. CASE Exchanging(r, o)
  <2>1. Exchanging(r, o)'
    BY <1>1, <1>4, OffererHearing, AnswererHearing
  <2> QED
    BY <2>1 DEF InPhase
<1> QED
  BY <1>2, <1>3, <1>4 DEF InPhase

\* The server relays one message to who has joined.
LEMMA Relayed ==
    ASSUME HubOK, ~astray, WireOK, NEW b \in Browsers, NEW o \in Browsers, o = Other(b), RelayToPeer(b),
           listed[b], listed[o]
    PROVE  /\ toServer[b] # <<>> /\ Head(toServer[b]).type \in {"offer", "answer", "ice"}
           /\ Head(toServer[b]) \in ToClient
           /\ toServer' = [toServer EXCEPT ![b] = Tail(toServer[b])]
           /\ toClient' = [toClient EXCEPT ![o] = Append(toClient[o], Head(toServer[b]))]
           /\ pc' = pc /\ ops' = ops /\ queue' = queue
           /\ ~crossed' => ~(Head(toServer[b]).type = "offer" /\ Has(toClient[b], "offerer"))
<1>1. PICK m : m = Head(toServer[b])
  OBVIOUS
<1>2. /\ toServer[b] # <<>> /\ m.type \in {"offer", "answer", "ice"}
      /\ toServer' = [toServer EXCEPT ![b] = Tail(toServer[b])]
      /\ toClient' = [toClient EXCEPT ![o] = IF listed[b] /\ slot[o] # "out"
                                             THEN Pushed(o, <<m>>) ELSE toClient[o]]
      /\ pc' = pc /\ ops' = ops /\ queue' = queue
  BY <1>1 DEF RelayToPeer, Serve, rtcVars
<1>3. slot[o] = "in" /\ link[o] = "up" /\ o \notin forgotten
  BY DEF HubOK
<1>4. ~crossed' => ~(m.type = "offer" /\ Has(toClient[b], "offerer"))
  BY <1>1, <1>3 DEF RelayToPeer
<1>5. m \in ToClient
  <2>1. m \in ToServer
    BY <1>1, <1>2, HeadTailProperties DEF WireOK
  <2> QED
    BY <1>2, <2>1 DEF ToServer, ToClient
<1>6. toClient[o] \in Seq(ToClient)
  BY DEF WireOK
<1>7. Pushed(o, <<m>>) = Append(toClient[o], m)
  BY <1>3, <1>5, <1>6, PushedTo
<1> QED
  BY <1>1, <1>2, <1>3, <1>4, <1>5, <1>7

LEMMA RelayPhase ==
    ASSUME HubOK, ~astray, WireOK, RtcOK, NEW r \in Browsers, NEW o \in Browsers, o = Other(r),
           InPhase(r, o), listed[r], listed[o], NEW b \in Browsers, RelayToPeer(b), ~crossed'
    PROVE  InPhase(r, o)'
<1>1. o # r /\ r = Other(o) /\ (b = r \/ b = o)
  BY Others
<1>2. PICK c \in Browsers : c = Other(b) /\ c # b /\ listed[b] /\ listed[c]
  BY <1>1, Others
<1>3. PICK m \in ToClient : m = Head(toServer[b])
  BY <1>2, Relayed
<1>4. /\ toServer[b] # <<>> /\ m.type \in {"offer", "answer", "ice"}
      /\ toServer' = [toServer EXCEPT ![b] = Tail(toServer[b])]
      /\ toClient' = [toClient EXCEPT ![c] = Append(toClient[c], m)]
      /\ pc' = pc /\ ops' = ops /\ queue' = queue
      /\ ~(m.type = "offer" /\ Has(toClient[b], "offerer"))
  BY <1>2, <1>3, Relayed
<1>5. Way(b, c)' = Way(b, c) /\ Way(c, b)' = Way(c, b)
  BY <1>2, <1>3, <1>4, WayRelayed
<1>6. Way(r, o)' = Way(r, o) /\ Way(o, r)' = Way(o, r)
  BY <1>1, <1>2, <1>5
<1>7. CASE Announcing(r, o)
  <2>1. b = r /\ c = o
    BY <1>1, <1>2, <1>4, <1>7 DEF Announcing
  <2>2. PICK s \in Seq(ToClient) : s = toClient[o] /\ \A x \in 1..Len(s) : NoOffer(s[x])
    BY <1>7 DEF Announcing, WireOK
  <2>3. PICK t \in Seq(ToClient) : t = Append(s, m)
    BY Appended
  <2>4. toClient'[o] = t /\ toClient'[r] = toClient[r] /\ toServer'[o] = toServer[o]
    BY <1>1, <1>4, <2>1, <2>2, <2>3 DEF WireOK
  <2>5. NoOffer(m)
    <3>1. Has(toClient[r], "offerer")
      <4>1. toClient[r] \in Seq(ToClient) /\ toClient[r] # <<>>
        BY <1>7 DEF Announcing, WireOK
      <4>2. Len(toClient[r]) \in 1..Len(toClient[r])
        BY <4>1, EmptySeq, LenProperties
      <4> QED
        BY <1>7, <4>2 DEF Announcing, Has
    <3> QED
      BY <1>4, <2>1, <3>1 DEF NoOffer
  <2>6. \A x \in 1..Len(t) : NoOffer(t[x])
    BY <2>2, <2>3, <2>5, Appended
  <2>7. Announcing(r, o)'
    BY <1>4, <1>7, <2>4, <2>6 DEF Announcing
  <2> QED
    BY <2>7 DEF InPhase
<1>8. CASE Starting(r, o)
  <2>1. Starting(r, o)'
    BY <1>4, <1>6, <1>8 DEF Starting
  <2> QED
    BY <2>1 DEF InPhase
<1>9. CASE Exchanging(r, o)
  <2>1. Exchanging(r, o)'
    BY <1>4, <1>6, <1>9 DEF Exchanging
  <2> QED
    BY <2>1 DEF InPhase
<1> QED
  BY <1>7, <1>8, <1>9 DEF InPhase

\* Both are announced to each other.
LEMMA JoinAnnounces ==
    ASSUME HubOK, ~astray, WireOK, NEW b \in Browsers, NEW o \in Browsers, o = Other(b),
           HandleRoomJoin(b), listed[o]
    PROVE  /\ toServer[b] # <<>> /\ Head(toServer[b]).type = "join"
           /\ toServer'[b] = Tail(toServer[b]) /\ toServer'[o] = toServer[o]
           /\ Msg("answerer", None) \in ToClient /\ Msg("offerer", None) \in ToClient
           /\ toClient'[b] = Append(toClient[b], Msg("answerer", None))
           /\ toClient'[o] = Append(toClient[o], Msg("offerer", None))
<1>1. o # b /\ slot[o] = "in" /\ link[o] = "up" /\ o \notin forgotten /\ toClient[o] \in Seq(ToClient)
  BY Others DEF HubOK, WireOK
<1>2. PICK n \in ToClient : n = Msg("offerer", None)
  BY AnnouncementTypes
<1>3. PICK m \in ToClient : m = Msg("answerer", None)
  BY AnnouncementTypes
<1>4. Pushed(o, <<n>>) = Append(toClient[o], n)
  BY <1>1, PushedTo
<1>5. /\ toServer[b] # <<>> /\ Head(toServer[b]).type = "join"
      /\ toServer' = [toServer EXCEPT ![b] = Tail(toServer[b])]
      /\ toClient' = [toClient EXCEPT ![b] = Append(toClient[b], m), ![o] = Pushed(o, <<n>>)]
  BY <1>1, <1>2, <1>3 DEF HandleRoomJoin, Serve
<1> QED
  BY <1>1, <1>2, <1>3, <1>4, <1>5 DEF WireOK

LEMMA NoOfferAdded ==
    ASSUME NEW S, NEW t \in Seq(S), NEW m \in S, \A x \in 1..Len(t) : NoOffer(t[x]), NoOffer(m),
           NEW y, y = Append(t, m)
    PROVE  \A x \in 1..Len(y) : NoOffer(y[x])
<1>1. Len(y) = Len(t) + 1 /\ y[Len(t) + 1] = m /\ Len(t) \in Nat /\ \A x \in 1..Len(t) : y[x] = t[x]
  BY Appended
<1>2. ASSUME NEW x \in 1..Len(y) PROVE x \in 1..Len(t) \/ x = Len(t) + 1
  BY <1>1
<1>3. ASSUME NEW x \in 1..Len(y) PROVE NoOffer(y[x])
  <2>1. CASE x \in 1..Len(t)
    <3>1. y[x] = t[x]
      BY <1>1, <2>1
    <3> QED
      BY <2>1, <3>1
  <2>2. CASE x = Len(t) + 1
    <3>1. y[x] = m
      BY <1>1, <2>2
    <3> QED
      BY <3>1
  <2> QED
    BY <1>2, <2>1, <2>2
<1> QED
  BY <1>3

\* With it a call begins: who was there is to offer.
LEMMA JoinPhase ==
    ASSUME IInv, ~astray, NEW b \in Browsers, NEW o \in Browsers, o = Other(b), Beginning(b),
           HandleRoomJoin(b), listed[o]
    PROVE  InPhase(o, b)'
<1>1. HubOK /\ ~astray /\ WireOK /\ RtcOK /\ OneJoin(b) /\ Announced(b)
  BY At
<1>2. PICK s \in Seq(ToServer), t \in Seq(ToClient), u \in Seq(ToClient) :
        s = toServer[b] /\ t = toClient[b] /\ u = toClient[o]
  BY <1>1 DEF WireOK
<1>3. PICK m, n \in ToClient : /\ m = Msg("answerer", None) /\ m.type = "answerer"
                               /\ n = Msg("offerer", None) /\ n.type = "offerer"
  BY AnnouncementTypes
<1>4. /\ s # <<>> /\ Head(s).type = "join" /\ toServer'[b] = Tail(s)
      /\ toClient'[b] = Append(t, m) /\ toClient'[o] = Append(u, n)
  BY <1>1, <1>2, <1>3, JoinAnnounces
<1>5. /\ s[1].type = "join" /\ 1 \in 1..Len(s) /\ Len(s) \in Nat /\ Len(Tail(s)) = Len(s) - 1
      /\ Tail(s) \in Seq(ToServer)
  BY <1>4, Tailed
<1>6. Len(s) = 1 /\ pc[b] = None /\ ~listed[b]
  BY <1>1, <1>2, <1>5 DEF Beginning, JoinsAlone, OneJoin
<1>7. Tail(s) = <<>>
  <2>1. Len(Tail(s)) = 0
    BY <1>5, <1>6
  <2> QED
    BY <1>5, <2>1, EmptySeq
<1>8. \A x \in 1..Len(t) : NoOffer(t[x])
  BY <1>1, <1>2, <1>6 DEF Beginning, Unoffered, Announced, NoOffer
<1>9. PICK y \in Seq(ToClient) : y = Append(t, m)
  BY Appended
<1>10. \A x \in 1..Len(y) : NoOffer(y[x])
  <2>1. NoOffer(m)
    BY <1>3 DEF NoOffer
  <2>2. t \in Seq(ToClient) /\ m \in ToClient /\ y = Append(t, m)
    BY <1>2, <1>3, <1>9
  <2> QED
    BY ONLY <1>8, <2>1, <2>2, NoOfferAdded
<1>11. PICK z \in Seq(ToClient) : z = Append(u, n) /\ z # <<>> /\ z[Len(z)] = n
  <2>1. PICK z \in Seq(ToClient) : z = Append(u, n)
    BY Appended
  <2>2. Len(z) = Len(u) + 1 /\ z[Len(u) + 1] = n /\ z # <<>>
    BY <2>1, Appended
  <2> QED
    BY <2>1, <2>2
<1>12. pc' = pc
  BY DEF HandleRoomJoin, Serve, rtcVars
<1>13. Announcing(o, b)'
  BY <1>3, <1>4, <1>6, <1>7, <1>9, <1>10, <1>11, <1>12 DEF Announcing
<1> QED
  BY <1>13 DEF InPhase

-----------------------------------------------------------------------------
(* Phased is kept                                                          *)

\* A connection ends,
Sheds(b) == Drop(b) \/ Reload(b) \/ LeaveRoom(b)

LEMMA Shed ==
    ASSUME NEW b \in Browsers, Sheds(b), ~astray'
    PROVE  Lose(b) /\ crossed' = crossed /\ \E l \in {"off", "down"} : link' = [link EXCEPT ![b] = l]
<1>1. CASE Drop(b)
  BY <1>1 DEF Drop, LoseLate
<1>2. CASE Reload(b)
  <2>1. Lose(b) /\ crossed' = crossed /\ link' = [link EXCEPT ![b] = IF joinPending'[b] THEN "down" ELSE "off"]
    BY <1>2 DEF Reload, LoseLate
  <2>2. CASE joinPending'[b]
    BY <2>1, <2>2
  <2>3. CASE ~joinPending'[b]
    BY <2>1, <2>3
  <2> QED
    BY <2>2, <2>3
<1>3. CASE LeaveRoom(b)
  BY <1>3 DEF LeaveRoom, LoseLate
<1> QED
  BY <1>1, <1>2, <1>3 DEF Sheds

\* one is opened,
Opens(b) == HandleJoin(b) \/ AutoJoin(b) \/ Opened(b)

LEMMA Unlisted ==
    ASSUME HubOK, ~astray, NEW b \in Browsers, Opening(b), Opens(b)
    PROVE  ~listed[b] /\ listed' = listed /\ crossed' = crossed /\ toClient' = toClient
<1>1. CASE HandleJoin(b)
  BY <1>1 DEF HandleJoin, Opening, serverVars, histVars
<1>2. CASE AutoJoin(b)
  BY <1>2 DEF AutoJoin, Opening, serverVars, histVars
<1>3. CASE Opened(b)
  BY <1>3 DEF Opened, HubOK, serverVars, histVars
<1> QED
  BY <1>1, <1>2, <1>3 DEF Opens

\* or the page and the grace of the other one go on.
Stands(b) == ShowCall(b) \/ GraceOver(b)

LEMMA Standing ==
    ASSUME NEW b \in Browsers, Stands(b)
    PROVE  /\ listed' = listed /\ crossed' = crossed /\ toClient' = toClient /\ toServer' = toServer
           /\ pc' = pc /\ ops' = ops /\ queue' = queue
BY DEF Stands, ShowCall, GraceOver, serverVars, wireVars, rtcVars, histVars

\* Once the handlers interleave, what follows is not of interest here,
LEMMA AstrayStays == astray /\ [Next]_vars => astray'
<1> SUFFICES ASSUME astray, [Next]_vars PROVE astray'
  OBVIOUS
<1>1. ASSUME NEW b \in Browsers, Page(b) \/ Negotiate(b) \/ Server(b)
      PROVE  astray'
  <2>1. CASE HandleJoin(b) \/ AutoJoin(b) \/ Opened(b) \/ ShowCall(b) \/ GraceOver(b)
    BY <2>1 DEF HandleJoin, AutoJoin, Opened, ShowCall, GraceOver, histVars
  <2>2. CASE OnPeerJoined(b) \/ OnPeerLeft(b) \/ OnOffer(b) \/ OnAnswer(b) \/ OnICE(b)
    BY <2>2 DEF OnPeerJoined, OnPeerLeft, OnOffer, OnAnswer, OnICE, Hear
  <2>3. CASE Negotiate(b)
    BY <2>3 DEF Negotiate, CreateOffer, SetLocalOffer, SetRemote, AddIceCandidate, CreateAnswer,
                SetLocalAnswer, Finish, Fail, Gather, Connect, histVars
  <2>4. CASE HandleRoomJoin(b) \/ RelayToPeer(b)
    BY <2>4 DEF HandleRoomJoin, RelayToPeer
  <2> QED
    BY <1>1, <2>1, <2>2, <2>3, <2>4 DEF Page, Server
<1>2. ASSUME NEW b \in Browsers, Drop(b) \/ Reload(b) \/ LeaveRoom(b) \/ Restart(b)
      PROVE  astray'
  BY <1>2 DEF Drop, Reload, LeaveRoom, Restart, Lose, LoseLate
<1>3. CASE Interleaved
  BY <1>3 DEF Interleaved, JoinBegins, JoinRefused, LoseLate, TwinOver, GoHome, Task, LookForPeer,
              TellJoiner, TellPeer, MarkDisconnected, TellLeft, Tell, Handles, HandleDisconnect, histVars
<1>4. CASE UNCHANGED vars
  BY <1>4 DEF vars, histVars
<1> QED
  BY <1>1, <1>2, <1>3, <1>4 DEF Next

\* and until then every step is one of those that stand alone.
LEMMA NextSteps ==
    ASSUME HubOK, Next, ~astray'
    PROVE  \E b \in Browsers :
              Sheds(b) \/ Opens(b) \/ Stands(b) \/ Hears(b) \/ Negotiate(b) \/ Restart(b)
              \/ HandleRoomJoin(b) \/ RelayToPeer(b)
<1>1. ~Interleaved
  <2>1. ~astray
    BY AstrayStays
  <2>2. tasks = {} /\ stale = {} /\ \A b \in Browsers : twin[b] # "lost"
    BY <2>1 DEF HubOK
  <2>3. \A b \in Browsers : ~JoinBegins(b) /\ ~JoinRefused(b) /\ ~GoHome(b)
    BY DEF JoinBegins, JoinRefused, LoseLate, GoHome
  <2> QED
    BY <2>2, <2>3 DEF Interleaved, TwinOver
<1> QED
  BY <1>1 DEF Next, Page, Server, Sheds, Opens, Stands, Hears

LEMMA PhasedKept ==
    ASSUME DInv, IInv', ~astray', NEW b \in Browsers,
           Sheds(b) \/ Opens(b) \/ Stands(b) \/ Hears(b) \/ Negotiate(b) \/ Restart(b)
              \/ HandleRoomJoin(b) \/ RelayToPeer(b)
    PROVE  Phased'
<1> SUFFICES ASSUME ~crossed', \A c \in Browsers : listed'[c]
             PROVE  \E r \in Browsers : InPhase(r, Other(r))'
  BY DEF Phased
<1>1. HubOK /\ ~astray /\ WireOK /\ RtcOK /\ Opening(b) /\ IInv
  BY At DEF DInv
<1>2. WireOK' /\ RtcOK'
  BY DEF IInv, Types
<1>3. ASSUME ~crossed, listed' = listed
      PROVE  \E r, o \in Browsers : InPhase(r, o) /\ o = Other(r) /\ r = Other(o) /\ listed[r] /\ listed[o]
  <2>1. PICK r \in Browsers : InPhase(r, Other(r))
    BY <1>3 DEF DInv, Phased
  <2> QED
    BY <1>3, <2>1, Others
<1>4. CASE Sheds(b)
  <2>1. listed' = [listed EXCEPT ![b] = FALSE]
    BY <1>4, Shed DEF Lose
  <2>2. ~listed'[b]
    BY <1>1, <2>1 DEF HubOK
  <2> QED
    BY <2>2
<1>5. CASE Opens(b)
  BY <1>1, <1>5, Unlisted
<1>6. CASE Stands(b)
  <2>1. /\ listed' = listed /\ ~crossed /\ toClient' = toClient /\ toServer' = toServer
        /\ pc' = pc /\ ops' = ops /\ queue' = queue
    BY <1>6, Standing
  <2>2. PICK r, o \in Browsers : InPhase(r, o) /\ o = Other(r)
    BY <1>3, <2>1
  <2>3. InPhase(r, o)'
    BY <2>1, <2>2 DEF InPhase, Announcing, Starting, Exchanging, Way
  <2> QED
    BY <2>2, <2>3
<1>7. CASE Hears(b)
  <2>1. listed' = listed /\ ~crossed
    BY <1>1, <1>7, HearsOnly, Others
  <2>2. PICK r, o \in Browsers : InPhase(r, o) /\ o = Other(r)
    BY <1>3, <2>1
  <2>3. InPhase(r, o)'
    BY <1>1, <1>2, <1>7, <2>2, HearPhase
  <2> QED
    BY <2>2, <2>3
<1>8. CASE Negotiate(b)
  <2>1. listed' = listed /\ ~crossed
    BY <1>1, <1>8, NegotiateRtc DEF serverVars, histVars
  <2>2. PICK r, o \in Browsers : InPhase(r, o) /\ o = Other(r) /\ listed[r] /\ listed[o]
    BY <1>3, <2>1
  <2>3. InPhase(r, o)'
    BY <1>1, <1>2, <1>8, <2>2, NegotiatePhase
  <2> QED
    BY <2>2, <2>3
<1>9. CASE Restart(b)
  <2>1. listed' = listed /\ ~crossed
    BY <1>9 DEF Restart, serverVars
  <2>2. PICK r, o \in Browsers : InPhase(r, o) /\ o = Other(r) /\ r = Other(o)
    BY <1>3, <2>1
  <2>3. InPhase(r, o)' \/ InPhase(o, r)'
    BY <1>1, <1>2, <1>9, <2>2, RestartPhase
  <2> QED
    BY <2>2, <2>3
<1>10. CASE HandleRoomJoin(b)
  <2>1. PICK o \in Browsers : o = Other(b) /\ b = Other(o) /\ o # b
    BY Others
  <2>2. ~crossed /\ listed' = [listed EXCEPT ![b] = TRUE]
    BY <1>10 DEF HandleRoomJoin
  <2>3. listed[o] /\ Beginning(b)
    BY <1>1, <2>1, <2>2 DEF HubOK, DInv
  <2>4. InPhase(o, b)'
    BY <1>1, <1>10, <2>1, <2>3, JoinPhase
  <2> QED
    BY <2>1, <2>4
<1>11. CASE RelayToPeer(b)
  <2>1. listed' = listed /\ ~crossed
    BY <1>11 DEF RelayToPeer, serverVars
  <2>2. PICK r, o \in Browsers : InPhase(r, o) /\ o = Other(r) /\ listed[r] /\ listed[o]
    BY <1>3, <2>1
  <2>3. InPhase(r, o)'
    BY <1>1, <1>11, <2>2, RelayPhase
  <2> QED
    BY <2>2, <2>3
<1> QED
  BY <1>4, <1>5, <1>6, <1>7, <1>8, <1>9, <1>10, <1>11

-----------------------------------------------------------------------------
(* Told is kept                                                            *)

\* Nothing comes to b,
LEMMA ToldStays ==
    ASSUME NEW b \in Browsers, Told(b), listed'[b] => listed[b], listed'[Other(b)] => listed[Other(b)],
           toClient'[b] = toClient[b], InCall(b) => InCall(b)'
    PROVE  Told(b)'
BY DEF Told, Has

\* what comes is not the word that the other one left,
LEMMA ToldMore ==
    ASSUME NEW b \in Browsers, NEW c \in Seq(ToClient), c = toClient[b], NEW m \in ToClient,
           toClient'[b] = Append(c, m), m.type # "left", Told(b),
           listed[b] /\ listed[Other(b)], InCall(b) => InCall(b)'
    PROVE  Told(b)'
<1>1. PICK d \in Seq(ToClient) : d = Append(c, m)
  BY Appended
<1>2. /\ Len(d) = Len(c) + 1 /\ d[Len(c) + 1] = m /\ Len(c) \in Nat
      /\ \A x \in 1..Len(c) : d[x] = c[x]
  BY <1>1, Appended
<1>3. \A x \in 1..Len(d) : x \in 1..Len(c) \/ d[x].type # "left"
  BY <1>2
<1>4. CASE InCall(b) /\ ~Has(c, "left")
  <2>1. ~Has(d, "left")
    BY <1>2, <1>3, <1>4 DEF Has
  <2> QED
    BY <1>1, <1>4, <2>1 DEF Told
<1>5. CASE \E i \in 1..Len(c) : /\ c[i].type \in {"offerer", "answerer"}
                                /\ \A x \in 1..Len(c) : x > i => c[x].type # "left"
  <2>1. PICK i \in 1..Len(c) : /\ c[i].type \in {"offerer", "answerer"}
                               /\ \A x \in 1..Len(c) : x > i => c[x].type # "left"
    BY <1>5
  <2>2. i \in 1..Len(d) /\ d[i].type \in {"offerer", "answerer"}
    BY <1>2, <2>1
  <2>3. \A x \in 1..Len(d) : x > i => d[x].type # "left"
    BY <1>2, <1>3, <2>1
  <2> QED
    BY <1>1, <2>2, <2>3 DEF Told
<1> QED
  BY <1>4, <1>5 DEF Told

\* it is the word that the other one is there,
LEMMA ToldAnew ==
    ASSUME NEW b \in Browsers, NEW c \in Seq(ToClient), NEW m \in ToClient,
           toClient'[b] = Append(c, m), m.type \in {"offerer", "answerer"}
    PROVE  Told(b)'
<1>1. PICK d \in Seq(ToClient) : d = Append(c, m)
  BY Appended
<1>2. Len(d) = Len(c) + 1 /\ d[Len(c) + 1] = m /\ Len(c) \in Nat
  BY <1>1, Appended
<1>3. /\ Len(c) + 1 \in 1..Len(d) /\ d[Len(c) + 1].type \in {"offerer", "answerer"}
      /\ \A x \in 1..Len(d) : ~(x > Len(c) + 1)
  BY <1>2
<1>4. \E i \in 1..Len(d) : /\ d[i].type \in {"offerer", "answerer"}
                           /\ \A x \in 1..Len(d) : x > i => d[x].type # "left"
  BY <1>3
<1> QED
  BY <1>1, <1>4 DEF Told

\* or b hears the first message.
LEMMA ToldHears ==
    ASSUME NEW b \in Browsers, NEW c \in Seq(ToClient), c = toClient[b], c # <<>>,
           toClient'[b] = Tail(c), Told(b), listed' = listed,
           c[1].type \in {"offerer", "answerer"} => InCall(b)',
           c[1].type # "left" => (InCall(b) => InCall(b)')
    PROVE  Told(b)'
<1>1. PICK d \in Seq(ToClient) : d = Tail(c)
  BY Tailed
<1>2. /\ Len(c) \in Nat /\ Len(c) >= 1 /\ Len(d) = Len(c) - 1 /\ 1 \in 1..Len(c)
      /\ \A x \in 1..Len(d) : d[x] = c[x + 1] /\ x + 1 \in 1..Len(c)
      /\ \A x \in 2..Len(c) : x - 1 \in 1..Len(d) /\ d[x - 1] = c[x]
  BY <1>1, Tailed
<1>3. CASE InCall(b) /\ ~Has(c, "left")
  <2>1. c[1].type # "left"
    BY <1>2, <1>3 DEF Has
  <2>2. ASSUME NEW x \in 1..Len(d) PROVE d[x].type # "left"
    <3>1. d[x] = c[x + 1] /\ x + 1 \in 1..Len(c)
      BY <1>2
    <3> QED
      BY <1>3, <3>1 DEF Has
  <2>3. ~Has(d, "left")
    BY <2>2 DEF Has
  <2> QED
    BY <1>1, <1>3, <2>1, <2>3 DEF Told
<1>4. ASSUME NEW i \in 1..Len(c), c[i].type \in {"offerer", "answerer"},
             \A x \in 1..Len(c) : x > i => c[x].type # "left"
      PROVE  Told(b)'
  <2>1. CASE i = 1
    <3>1. ASSUME NEW x \in 1..Len(d) PROVE d[x].type # "left"
      <4>1. d[x] = c[x + 1] /\ x + 1 \in 1..Len(c) /\ x + 1 > 1
        BY <1>2
      <4> QED
        BY <1>4, <2>1, <4>1
    <3>2. InCall(b)' /\ ~Has(d, "left")
      BY <1>4, <2>1, <3>1 DEF Has
    <3> QED
      BY <1>1, <3>2 DEF Told
  <2>2. CASE i # 1
    <3>1. i \in 2..Len(c)
      BY <1>2, <2>2
    <3>2. PICK j \in 1..Len(d) : j = i - 1 /\ d[j] = c[i]
      BY <1>2, <3>1
    <3>3. ASSUME NEW x \in 1..Len(d), x > j PROVE d[x].type # "left"
      <4>1. d[x] = c[x + 1] /\ x + 1 \in 1..Len(c)
        BY <1>2
      <4>2. x + 1 > i
        BY <1>2, <3>2, <3>3
      <4> QED
        BY <1>4, <4>1, <4>2
    <3>4. \E y \in 1..Len(d) : /\ d[y].type \in {"offerer", "answerer"}
                               /\ \A x \in 1..Len(d) : x > y => d[x].type # "left"
      BY <1>4, <3>2, <3>3
    <3> QED
      BY <1>1, <3>4 DEF Told
  <2> QED
    BY <2>1, <2>2
<1>5. CASE ~(listed[b] /\ listed[Other(b)])
  BY <1>5 DEF Told
<1> QED
  BY <1>3, <1>4, <1>5 DEF Told

LEMMA Heeding ==
    ASSUME PageOK, NEW b \in Browsers, NEW o \in Browsers, o # b, Hears(b)
    PROVE  /\ phase'[o] = phase[o]
           /\ Head(toClient[b]).type \in {"offerer", "answerer"} => InCall(b)'
           /\ Head(toClient[b]).type # "left" => (InCall(b) => InCall(b)')
<1>1. PICK type : type = Head(toClient[b]).type
  OBVIOUS
<1>2. CASE OnPeerJoined(b)
  <2>1. phase'[b] = "connecting" /\ phase'[o] = phase[o]
    BY <1>2 DEF OnPeerJoined, PageOK
  <2> QED
    BY <2>1 DEF InCall
<1>3. CASE OnPeerLeft(b)
  <2>1. Head(toClient[b]).type = "left" /\ phase'[o] = phase[o]
    BY <1>3 DEF OnPeerLeft, PageOK, Hear
  <2> QED
    BY <2>1
<1>4. CASE OnOffer(b) \/ OnAnswer(b) \/ OnICE(b)
  <2>1. phase' = phase /\ Head(toClient[b]).type \in {"offer", "answer", "ice"}
    BY <1>4 DEF OnOffer, OnAnswer, OnICE, Hear
  <2> QED
    BY <2>1 DEF InCall
<1> QED
  BY <1>2, <1>3, <1>4 DEF Hears

LEMMA ToldKept ==
    ASSUME DInv, ~astray', NEW b \in Browsers, NEW c \in Browsers,
           Sheds(b) \/ Opens(b) \/ Stands(b) \/ Hears(b) \/ Negotiate(b) \/ Restart(b)
              \/ HandleRoomJoin(b) \/ RelayToPeer(b)
    PROVE  Told(c)'
<1>1. HubOK /\ ~astray /\ WireOK /\ PageOK /\ RtcOK /\ Opening(b) /\ IInv /\ Told(c)
  BY At DEF DInv
<1>2. PICK o \in Browsers : o = Other(b) /\ b = Other(o) /\ o # b /\ (c = b \/ c = o)
  BY Others
<1>3. /\ b \in {c, Other(c)} /\ (c # b => Other(c) = b)
  BY <1>2
<1>4. ASSUME ~listed'[b] PROVE Told(c)'
  BY <1>3, <1>4 DEF Told
<1>5. CASE Sheds(b)
  <2>1. listed' = [listed EXCEPT ![b] = FALSE]
    BY <1>5, Shed DEF Lose
  <2> QED
    BY <1>1, <1>4, <2>1 DEF HubOK
<1>6. CASE Opens(b)
  BY <1>1, <1>4, <1>6, Unlisted
<1>7. CASE Stands(b)
  <2>1. listed' = listed /\ toClient' = toClient
    BY <1>7, Standing
  <2>2. InCall(c) => InCall(c)'
    BY <1>1, <1>7 DEF Stands, ShowCall, GraceOver, InCall, pageVars, PageOK
  <2> QED
    BY <1>1, <2>1, <2>2, ToldStays
<1>8. CASE Hears(b)
  <2>1. /\ listed' = listed /\ toClient'[o] = toClient[o] /\ toClient[b] # <<>>
        /\ toClient'[b] = Tail(toClient[b])
    BY <1>1, <1>2, <1>8, HearsOnly
  <2>2. /\ phase'[o] = phase[o]
        /\ Head(toClient[b]).type \in {"offerer", "answerer"} => InCall(b)'
        /\ Head(toClient[b]).type # "left" => (InCall(b) => InCall(b)')
    BY <1>1, <1>2, <1>8, Heeding
  <2>3. CASE c = o
    BY <1>1, <2>1, <2>2, <2>3, ToldStays DEF InCall
  <2>4. CASE c = b
    <3>1. PICK m \in Seq(ToClient) : m = toClient[b]
      BY <1>1 DEF WireOK
    <3>2. Head(m) = m[1]
      BY <2>1, <3>1, Tailed
    <3> QED
      BY <1>1, <2>1, <2>2, <2>4, <3>1, <3>2, ToldHears
  <2> QED
    BY <1>2, <2>3, <2>4
<1>9. CASE Negotiate(b) \/ Restart(b)
  <2>1. listed' = listed /\ toClient' = toClient /\ phase' = phase
    BY <1>1, <1>9, NegotiateRtc DEF serverVars, pageVars, Restart, wireVars
  <2> QED
    BY <1>1, <2>1, ToldStays DEF InCall
<1>10. CASE HandleRoomJoin(b)
  <2>1. listed' = [listed EXCEPT ![b] = TRUE] /\ phase' = phase
    BY <1>10 DEF HandleRoomJoin, Serve, pageVars
  <2>2. CASE ~listed[o]
    <3>1. ~listed'[o]
      BY <1>1, <1>2, <2>1, <2>2 DEF HubOK
    <3> QED
      BY <1>2, <3>1 DEF Told
  <2>3. CASE listed[o]
    <3>1. PICK m, n \in ToClient : m = Msg("answerer", None) /\ m.type = "answerer"
                                   /\ n = Msg("offerer", None) /\ n.type = "offerer"
      BY AnnouncementTypes
    <3>2. toClient'[b] = Append(toClient[b], m) /\ toClient'[o] = Append(toClient[o], n)
      BY <1>1, <1>2, <1>10, <2>3, <3>1, JoinAnnounces
    <3>3. toClient[b] \in Seq(ToClient) /\ toClient[o] \in Seq(ToClient)
      BY <1>1 DEF WireOK
    <3> QED
      BY <1>2, <3>1, <3>2, <3>3, ToldAnew
  <2> QED
    BY <2>2, <2>3
<1>11. CASE RelayToPeer(b)
  <2>1. listed' = listed /\ phase' = phase
    BY <1>11 DEF RelayToPeer, Serve, serverVars, pageVars
  <2>2. CASE ~listed[b] \/ ~listed[o]
    BY <1>2, <2>1, <2>2 DEF Told
  <2>3. CASE listed[b] /\ listed[o]
    <3>1. PICK m \in ToClient : m = Head(toServer[b])
      BY <1>1, <1>2, <1>11, <2>3, Relayed
    <3>2. m.type # "left" /\ toClient' = [toClient EXCEPT ![o] = Append(toClient[o], m)]
      BY <1>1, <1>2, <1>11, <2>3, <3>1, Relayed
    <3>3. PICK s \in Seq(ToClient) : s = toClient[o]
      BY <1>1 DEF WireOK
    <3>4. toClient'[o] = Append(s, m) /\ toClient'[b] = toClient[b]
      BY <1>1, <1>2, <3>2, <3>3 DEF WireOK
    <3>5. CASE c = b
      BY <1>1, <2>1, <3>4, <3>5, ToldStays DEF InCall
    <3>6. CASE c = o
      BY <1>1, <1>2, <2>1, <2>3, <3>2, <3>3, <3>4, <3>6, ToldMore DEF InCall
    <3> QED
      BY <1>2, <3>5, <3>6
  <2> QED
    BY <2>2, <2>3
<1> QED
  BY <1>5, <1>6, <1>7, <1>8, <1>9, <1>10, <1>11

-----------------------------------------------------------------------------
(* Beginning is kept                                                       *)

LEMMA AloneStays ==
    ASSUME NEW b, JoinsAlone(b), toServer'[b] = toServer[b], pc[b] = None => pc'[b] = None
    PROVE  JoinsAlone(b)'
BY DEF JoinsAlone

LEMMA AloneEmpty == ASSUME NEW b, toServer'[b] = <<>> PROVE JoinsAlone(b)'
<1>1. Len(toServer'[b]) = 0
  BY EmptySeq
<1> QED
  BY <1>1 DEF JoinsAlone

\* The first message is served: if it was a join, it was alone.
LEMMA AloneServed ==
    ASSUME NEW b, NEW s \in Seq(ToServer), s = toServer[b], s # <<>>, JoinsAlone(b), toServer'[b] = Tail(s)
    PROVE  JoinsAlone(b)'
<1>1. PICK t \in Seq(ToServer) : t = Tail(s)
  BY Tailed
<1>2. /\ Len(s) \in Nat /\ Len(s) >= 1 /\ Len(t) = Len(s) - 1
      /\ \A i \in 1..Len(t) : t[i] = s[i + 1] /\ i + 1 \in 1..Len(s)
  BY <1>1, Tailed
<1>3. ASSUME NEW i \in 1..Len(t) PROVE t[i].type # "join"
  <2>1. s[i + 1] = t[i] /\ i + 1 \in 1..Len(s) /\ Len(s) # 1
    BY <1>2
  <2> QED
    BY <2>1 DEF JoinsAlone
<1> QED
  BY <1>1, <1>3 DEF JoinsAlone

\* Who has a connection sends no join.
LEMMA AloneSends ==
    ASSUME NEW b \in Browsers, NEW s \in Seq(ToServer), s = toServer[b], JoinsAlone(b), pc[b] # None,
           NEW m \in ToServer, m.type # "join",
           toServer'[b] = s \/ toServer'[b] = Append(s, m)
    PROVE  JoinsAlone(b)'
<1>1. \A i \in 1..Len(s) : s[i].type # "join"
  BY DEF JoinsAlone
<1>2. CASE toServer'[b] = s
  BY <1>1, <1>2 DEF JoinsAlone
<1>3. CASE toServer'[b] = Append(s, m)
  <2>1. PICK t \in Seq(ToServer) : t = Append(s, m)
    BY Appended
  <2>2. /\ Len(t) = Len(s) + 1 /\ t[Len(s) + 1] = m /\ Len(s) \in Nat
        /\ \A i \in 1..Len(s) : t[i] = s[i]
    BY <2>1, Appended
  <2>3. ASSUME NEW i \in 1..Len(t) PROVE t[i].type # "join"
    <3>1. i \in 1..Len(s) \/ i = Len(s) + 1
      BY <2>2
    <3> QED
      BY <1>1, <2>2, <3>1
  <2> QED
    BY <1>3, <2>1, <2>3 DEF JoinsAlone
<1> QED
  BY <1>2, <1>3

LEMMA UnofferedStays ==
    ASSUME NEW b, Unoffered(b), toClient'[b] = toClient[b], listed[b] => listed'[b]
    PROVE  Unoffered(b)'
BY DEF Unoffered

LEMMA UnofferedEmpty == ASSUME NEW b, toClient'[b] = <<>> PROVE Unoffered(b)'
<1>1. Len(toClient'[b]) = 0
  BY EmptySeq
<1> QED
  BY <1>1 DEF Unoffered

LEMMA UnofferedHears ==
    ASSUME NEW b, NEW c \in Seq(ToClient), c = toClient[b], c # <<>>, Unoffered(b),
           toClient'[b] = Tail(c), listed' = listed
    PROVE  Unoffered(b)'
<1>1. PICK d \in Seq(ToClient) : d = Tail(c)
  BY Tailed
<1>2. \A i \in 1..Len(d) : d[i] = c[i + 1] /\ i + 1 \in 1..Len(c)
  BY <1>1, Tailed
<1>3. ASSUME NEW i \in 1..Len(d), ~listed[b] PROVE d[i].type # "offer"
  <2>1. c[i + 1] = d[i] /\ i + 1 \in 1..Len(c)
    BY <1>2
  <2> QED
    BY <1>3, <2>1 DEF Unoffered
<1> QED
  BY <1>1, <1>3 DEF Unoffered

LEMMA UnofferedMore ==
    ASSUME NEW b, NEW c \in Seq(ToClient), c = toClient[b], Unoffered(b), NEW m \in ToClient,
           m.type # "offer", listed[b] => listed'[b],
           toClient'[b] = c \/ toClient'[b] = Append(c, m)
    PROVE  Unoffered(b)'
<1>1. CASE toClient'[b] = c
  BY <1>1 DEF Unoffered
<1>2. CASE toClient'[b] = Append(c, m)
  <2>1. PICK d \in Seq(ToClient) : d = Append(c, m)
    BY Appended
  <2>2. /\ Len(d) = Len(c) + 1 /\ d[Len(c) + 1] = m /\ Len(c) \in Nat
        /\ \A i \in 1..Len(c) : d[i] = c[i]
    BY <2>1, Appended
  <2>3. ASSUME NEW i \in 1..Len(d), ~listed[b] PROVE d[i].type # "offer"
    <3>1. i \in 1..Len(c) \/ i = Len(c) + 1
      BY <2>2
    <3> QED
      BY <2>2, <2>3, <3>1 DEF Unoffered
  <2> QED
    BY <1>2, <2>1, <2>3 DEF Unoffered
<1> QED
  BY <1>1, <1>2

\* A connection is made only by who has joined: of an announcement, or of an offer.
LEMMA MadeListed ==
    ASSUME HubOK, ~astray, WireOK, RtcOK, NEW b \in Browsers, NEW o \in Browsers, o # b, Hears(b), toClient[b] # <<>>,
           Announced(b), Unoffered(b), pc[b] = None, pc'[b] # None
    PROVE  listed[b]
<1>1. PICK c \in Seq(ToClient) : c = toClient[b]
  BY DEF WireOK
<1>2. Head(c) = c[1] /\ 1 \in 1..Len(c)
  BY <1>1, Tailed
<1>3. ~NoOffer(c[1])
  BY <1>1, <1>2, HearsWithout
<1> QED
  BY <1>1, <1>2, <1>3 DEF NoOffer, Announced, Unoffered

\* A page that opens its connection has no other, and sends its join at most.
LEMMA OpensAlone ==
    ASSUME HubOK, ~astray, WireOK, PageOK, RtcOK, NEW b \in Browsers, NEW o \in Browsers, o # b, Opening(b), Opens(b),
           JoinsAlone(b), JoinsAlone(o)
    PROVE  JoinsAlone(b)' /\ JoinsAlone(o)'
<1>1. pc' = pc
  BY DEF Opens, HandleJoin, AutoJoin, Opened, rtcVars
<1>2. CASE toServer' = toServer
  BY <1>1, <1>2, AloneStays
<1>3. CASE phase[b] = "lobby" /\ JoinRoom(b)
  <2>1. toServer[b] = <<>> /\ pc[b] = None
    BY <1>3 DEF Opening
  <2>2. PICK m \in ToServer : m = Msg("join", None)
    BY JoinType
  <2>3. PICK t \in Seq(ToServer) : t = Append(<<>>, m) /\ Len(t) = 1
    <3>1. PICK e \in Seq(ToServer) : e = <<>> /\ Len(e) = 0
      BY EmptySeq
    <3>2. Append(e, m) \in Seq(ToServer) /\ Len(Append(e, m)) = Len(e) + 1
      BY <3>1, Appended
    <3>3. Append(<<>>, m) \in Seq(ToServer) /\ Len(Append(<<>>, m)) = 1
      BY <3>1, <3>2
    <3> QED
      BY <3>3
  <2>4. toServer'[o] = toServer[o] /\ (toServer'[b] = <<>> \/ toServer'[b] = t)
    BY <1>3, <2>1, <2>2, <2>3 DEF JoinRoom, WireOK
  <2>5. JoinsAlone(o)'
    BY <1>1, <2>4, AloneStays
  <2>6. CASE toServer'[b] = <<>>
    BY <2>5, <2>6, AloneEmpty
  <2>7. CASE toServer'[b] = t
    BY <1>1, <2>1, <2>3, <2>5, <2>7 DEF JoinsAlone
  <2> QED
    BY <2>4, <2>6, <2>7
<1>4. CASE HandleJoin(b)
  BY <1>2, <1>4 DEF HandleJoin
<1>5. CASE AutoJoin(b)
  BY <1>3, <1>5 DEF AutoJoin
<1>6. CASE Opened(b) /\ joinPending[b]
  BY <1>3, <1>6 DEF Opened, Opening
<1>7. CASE Opened(b) /\ ~joinPending[b]
  BY <1>2, <1>7 DEF Opened
<1> QED
  BY <1>4, <1>5, <1>6, <1>7 DEF Opens

LEMMA SheddingAlone ==
    ASSUME HubOK, ~astray', WireOK, RtcOK, NEW b \in Browsers, NEW o \in Browsers, o = Other(b), Sheds(b),
           Beginning(o)
    PROVE  Beginning(b)' /\ Beginning(o)'
<1>1. PICK l \in {"off", "down"} : link' = [link EXCEPT ![b] = l]
  BY Shed
<1>2. Lose(b)
  BY Shed
<1>3. Loses(b, o, l)
  BY <1>1, <1>2, Losing
<1>4. pc'[o] = pc[o]
  BY Others DEF Sheds, Drop, Reload, LeaveRoom, DropRTC, rtcVars, RtcOK
<1>5. PICK m \in ToClient : m = Msg("left", None) /\ m.type # "offer"
  BY LeftType DEF Msg
<1>6. PICK c \in Seq(ToClient) : c = toClient[o]
  BY DEF WireOK
<1>7. JoinsAlone(b)' /\ Unoffered(b)'
  BY <1>3, AloneEmpty, UnofferedEmpty DEF Loses
<1>8. JoinsAlone(o)'
  BY <1>3, <1>4, AloneStays DEF Loses, Beginning
<1>9. listed'[o] = listed[o] /\ (toClient'[o] = c \/ toClient'[o] = Append(c, m))
  BY <1>3, <1>5, <1>6 DEF Loses
<1>10. Unoffered(o)'
  BY <1>5, <1>6, <1>9, UnofferedMore DEF Beginning
<1> QED
  BY <1>7, <1>8, <1>10 DEF Beginning

LEMMA HearingAlone ==
    ASSUME HubOK, ~astray, WireOK, RtcOK, NEW b \in Browsers, NEW o \in Browsers, o = Other(b), Hears(b),
           Announced(b), OneJoin(b), Beginning(b), Beginning(o)
    PROVE  Beginning(b)' /\ Beginning(o)'
<1>1. o # b
  BY Others
<1>2. /\ Only(b, o) /\ toServer' = toServer /\ toClient'[o] = toClient[o] /\ toClient[b] # <<>>
      /\ toClient'[b] = Tail(toClient[b]) /\ listed' = listed
  BY <1>1, HearsOnly
<1>3. Beginning(o)'
  BY <1>2, AloneStays, UnofferedStays DEF Beginning, Only
<1>4. Unoffered(b)'
  BY <1>2, UnofferedHears DEF Beginning, WireOK
<1>5. CASE pc[b] = None /\ pc'[b] # None
  <2>1. listed[b]
    BY <1>1, <1>2, <1>5, MadeListed DEF Beginning
  <2>2. \A i \in 1..Len(toServer[b]) : toServer[b][i].type # "join"
    BY <2>1 DEF OneJoin
  <2> QED
    BY <1>2, <1>3, <1>4, <2>2 DEF Beginning, JoinsAlone
<1>6. CASE pc[b] = None => pc'[b] = None
  BY <1>2, <1>3, <1>4, <1>6, AloneStays DEF Beginning
<1> QED
  BY <1>5, <1>6

LEMMA NegotiatingAlone ==
    ASSUME HubOK, ~astray, WireOK, RtcOK, NEW b \in Browsers, NEW o \in Browsers, o = Other(b), Negotiate(b),
           Beginning(b), Beginning(o)
    PROVE  Beginning(b)' /\ Beginning(o)'
<1>1. /\ pc[b] # None /\ Sends(b) /\ pc'[o] = pc[o] /\ listed' = listed /\ toClient' = toClient
      /\ o # b
  BY NegotiateRtc, Others DEF serverVars
<1>2. Unoffered(b)' /\ Unoffered(o)'
  BY <1>1, UnofferedStays DEF Beginning
<1>3. PICK s \in Seq(ToServer) : s = toServer[b]
  BY DEF WireOK
<1>4. CASE toServer' = toServer
  <2>1. JoinsAlone(o)'
    BY <1>1, <1>4, AloneStays DEF Beginning
  <2>2. JoinsAlone(b)'
    BY <1>1, <1>4 DEF JoinsAlone, Beginning
  <2> QED
    BY <1>2, <2>1, <2>2 DEF Beginning
<1>5. ASSUME NEW m \in ToServer, m.type # "join", Send(b, m)
      PROVE  JoinsAlone(b)' /\ JoinsAlone(o)'
  <2>1. toServer'[o] = toServer[o] /\ (toServer'[b] = s \/ toServer'[b] = Append(s, m))
    BY <1>1, <1>3, <1>5 DEF Send, WireOK
  <2> QED
    BY <1>1, <1>3, <1>5, <2>1, AloneStays, AloneSends DEF Beginning
<1> QED
  BY <1>1, <1>2, <1>4, <1>5 DEF Sends, Beginning

LEMMA JoiningAlone ==
    ASSUME HubOK, ~astray, WireOK, RtcOK, NEW b \in Browsers, NEW o \in Browsers, o = Other(b), HandleRoomJoin(b),
           Beginning(b), Beginning(o)
    PROVE  Beginning(b)' /\ Beginning(o)'
<1>1. o # b
  BY Others
<1>2. PICK n \in ToClient : n = Msg("offerer", None) /\ n.type # "offer"
  BY AnnouncementTypes
<1>3. PICK s \in Seq(ToServer), c \in Seq(ToClient) : s = toServer[b] /\ c = toClient[o]
  BY DEF WireOK
<1>4. /\ pc' = pc /\ s # <<>> /\ toServer'[b] = Tail(s) /\ toServer'[o] = toServer[o]
      /\ listed'[b] /\ listed'[o] = listed[o]
  BY <1>1, <1>3 DEF HandleRoomJoin, Serve, rtcVars, WireOK, HubOK
<1>5. Pushed(o, <<n>>) = c \/ Pushed(o, <<n>>) = Append(c, n)
  BY <1>2, <1>3, PushedTo
<1>6. toClient'[o] = c \/ toClient'[o] = Append(c, n)
  BY <1>1, <1>2, <1>3, <1>5 DEF HandleRoomJoin, WireOK
<1>7. JoinsAlone(b)' /\ JoinsAlone(o)'
  BY <1>3, <1>4, AloneStays, AloneServed DEF Beginning
<1>8. Unoffered(b)'
  BY <1>4 DEF Unoffered
<1>9. Unoffered(o)'
  BY <1>2, <1>3, <1>4, <1>6, UnofferedMore DEF Beginning
<1> QED
  BY <1>7, <1>8, <1>9 DEF Beginning

\* An offer to who has not joined is crossed.
LEMMA RelayingAlone ==
    ASSUME HubOK, ~astray, WireOK, RtcOK, NEW b \in Browsers, NEW o \in Browsers, o = Other(b), RelayToPeer(b),
           Beginning(b), Beginning(o), ~crossed'
    PROVE  Beginning(b)' /\ Beginning(o)'
<1>1. o # b
  BY Others
<1>2. PICK s \in Seq(ToServer), c \in Seq(ToClient) : s = toServer[b] /\ c = toClient[o]
  BY DEF WireOK
<1>3. PICK m : m = Head(s)
  OBVIOUS
<1>4. /\ pc' = pc /\ s # <<>> /\ toServer'[b] = Tail(s) /\ toServer'[o] = toServer[o]
      /\ listed' = listed /\ m.type \in {"offer", "answer", "ice"}
  BY <1>1, <1>2, <1>3 DEF RelayToPeer, Serve, rtcVars, WireOK, serverVars
<1>5. m \in ToClient
  <2>1. m \in ToServer
    BY <1>2, <1>3, <1>4, HeadTailProperties
  <2> QED
    BY <1>4, <2>1 DEF ToServer, ToClient
<1>6. Pushed(o, <<m>>) = c \/ Pushed(o, <<m>>) = Append(c, m)
  BY <1>2, <1>5, PushedTo
<1>7. toClient'[b] = toClient[b] /\ (toClient'[o] = c \/ toClient'[o] = Append(c, m))
  BY <1>1, <1>2, <1>3, <1>6 DEF RelayToPeer, WireOK
<1>8. JoinsAlone(b)' /\ JoinsAlone(o)'
  BY <1>2, <1>4, AloneStays, AloneServed DEF Beginning
<1>9. Unoffered(b)'
  BY <1>4, <1>7, UnofferedStays DEF Beginning
<1>10. CASE m.type # "offer"
  <2>1. Unoffered(o)'
    BY <1>2, <1>4, <1>5, <1>7, <1>10, UnofferedMore DEF Beginning
  <2> QED
    BY <1>8, <1>9, <2>1 DEF Beginning
<1>11. CASE m.type = "offer" /\ toClient'[o] = toClient[o]
  <2>1. Unoffered(o)'
    BY <1>4, <1>11, UnofferedStays DEF Beginning
  <2> QED
    BY <1>8, <1>9, <2>1 DEF Beginning
<1>12. CASE m.type = "offer" /\ toClient'[o] # toClient[o]
  <2>1. listed[b] /\ slot[o] # "out"
    BY <1>1, <1>12 DEF RelayToPeer, WireOK
  <2>2. listed[o]
    BY <1>2, <1>3, <1>12, <2>1 DEF RelayToPeer
  <2>3. Unoffered(o)'
    BY <1>4, <2>2 DEF Unoffered
  <2> QED
    BY <1>8, <1>9, <2>3 DEF Beginning
<1> QED
  BY <1>10, <1>11, <1>12

LEMMA BeginningKept ==
    ASSUME DInv, NEW b \in Browsers, ~crossed', ~astray',
           Sheds(b) \/ Opens(b) \/ Stands(b) \/ Hears(b) \/ Negotiate(b) \/ Restart(b)
              \/ HandleRoomJoin(b) \/ RelayToPeer(b)
    PROVE  \A c \in Browsers : Beginning(c)'
<1>1. /\ HubOK /\ ~astray /\ WireOK /\ PageOK /\ RtcOK /\ Opening(b) /\ OneJoin(b) /\ Announced(b)
  BY At DEF DInv
<1>2. PICK o \in Browsers : o = Other(b) /\ o # b /\ \A c \in Browsers : c = b \/ c = o
  BY Others
<1>3. ~crossed
  <2>1. CASE Hears(b)
    BY <1>1, <1>2, <2>1, HearsOnly
  <2>2. CASE Negotiate(b)
    BY <1>1, <2>2, NegotiateRtc DEF histVars
  <2>3. CASE Sheds(b) \/ Stands(b)
    BY <2>3, Shed, Standing
  <2>4. CASE Opens(b)
    BY <1>1, <2>4, Unlisted
  <2>5. CASE Restart(b) \/ HandleRoomJoin(b) \/ RelayToPeer(b)
    BY <2>5 DEF Restart, HandleRoomJoin, RelayToPeer
  <2> QED
    BY <2>1, <2>2, <2>3, <2>4, <2>5
<1>4. Beginning(b) /\ Beginning(o)
  BY <1>3 DEF DInv
<1>5. CASE Sheds(b)
  BY <1>1, <1>2, <1>4, <1>5, SheddingAlone
<1>6. CASE Opens(b)
  <2>1. listed' = listed /\ toClient' = toClient
    BY <1>1, <1>6, Unlisted
  <2>2. Unoffered(b)' /\ Unoffered(o)'
    BY <1>4, <2>1, UnofferedStays DEF Beginning
  <2>3. JoinsAlone(b)' /\ JoinsAlone(o)'
    BY <1>1, <1>2, <1>4, <1>6, OpensAlone DEF Beginning
  <2> QED
    BY <1>2, <2>2, <2>3 DEF Beginning
<1>7. CASE Stands(b) \/ Restart(b)
  <2>1. pc' = pc /\ toServer' = toServer /\ toClient' = toClient /\ listed' = listed
    BY <1>7, Standing DEF Restart, wireVars, serverVars
  <2> QED
    BY <1>2, <1>4, <2>1, AloneStays, UnofferedStays DEF Beginning
<1>8. CASE Hears(b)
  BY <1>1, <1>2, <1>4, <1>8, HearingAlone
<1>9. CASE Negotiate(b)
  BY <1>1, <1>2, <1>4, <1>9, NegotiatingAlone
<1>10. CASE HandleRoomJoin(b)
  BY <1>1, <1>2, <1>4, <1>10, JoiningAlone
<1>11. CASE RelayToPeer(b)
  BY <1>1, <1>2, <1>4, <1>11, RelayingAlone
<1> QED
  BY <1>5, <1>6, <1>7, <1>8, <1>9, <1>10, <1>11

-----------------------------------------------------------------------------
(* The invariant, and what it says of a call in which nothing is under way *)

LEMMA DInit == Init => DInv
<1> SUFFICES ASSUME Init PROVE DInv
  OBVIOUS
<1>1. IInv
  BY InitInv
<1>2. PICK e : e = <<>> /\ Len(e) = 0
  BY EmptySeq
<1>3. \A b \in Browsers : ~listed[b] /\ toServer[b] = e /\ toClient[b] = e
  BY <1>2 DEF Init
<1>4. \A b \in Browsers : Beginning(b)
  BY <1>2, <1>3 DEF Beginning, JoinsAlone, Unoffered
<1>5. \A b \in Browsers : Told(b)
  BY <1>3 DEF Told
<1>6. ~(\A b \in Browsers : listed[b])
  BY <1>3 DEF Browsers
<1> QED
  BY <1>1, <1>4, <1>5, <1>6 DEF DInv, Phased, Init

LEMMA DNext == DInv /\ [Next]_vars => DInv' \/ astray'
<1> SUFFICES ASSUME DInv, [Next]_vars, ~astray' PROVE DInv'
  OBVIOUS
<1>1. IInv'
  BY NextInv DEF DInv
<1>2. CASE Next
  <2>1. PICK b \in Browsers :
              Sheds(b) \/ Opens(b) \/ Stands(b) \/ Hears(b) \/ Negotiate(b) \/ Restart(b)
              \/ HandleRoomJoin(b) \/ RelayToPeer(b)
    BY <1>2, NextSteps DEF DInv, IInv, Types
  <2>2. ~crossed' => \A c \in Browsers : Beginning(c)'
    BY <2>1, BeginningKept
  <2>3. \A c \in Browsers : Told(c)'
    BY <2>1, ToldKept
  <2>4. Phased'
    BY <1>1, <2>1, PhasedKept
  <2> QED
    BY <1>1, <2>2, <2>3, <2>4 DEF DInv
<1>3. CASE UNCHANGED vars
  <2>1. /\ listed' = listed /\ toServer' = toServer /\ toClient' = toClient /\ phase' = phase
        /\ pc' = pc /\ ops' = ops /\ queue' = queue /\ crossed' = crossed
    BY <1>3 DEF vars, serverVars, wireVars, pageVars, rtcVars, histVars
  <2>2. ~crossed' => \A c \in Browsers : Beginning(c)'
    BY <2>1 DEF DInv, Beginning, JoinsAlone, Unoffered
  <2>3. \A c \in Browsers : Told(c)'
    BY <2>1, ToldStays DEF DInv, InCall
  <2>4. Phased'
    BY <2>1 DEF DInv, Phased, InPhase, Announcing, Starting, Exchanging, Way
  <2> QED
    BY <1>1, <2>2, <2>3, <2>4 DEF DInv
<1> QED
  BY <1>2, <1>3

LEMMA PhasesInv == Spec => [](DInv \/ astray)
BY DInit, DNext, AstrayStays, PTL DEF Spec

\* An exchange with nothing to do, to hear or to gather is over.
LEMMA QuietFits ==
    ASSUME NEW p, NEW s, NEW q, NEW P, NEW S, NEW Q, NEW v, NEW w, Exchange(p, s, q, P, S, Q, v, w),
           s = <<>>, S = <<>>, v = <<>>, w = <<>>,
           Len(s) = 0, Len(S) = 0, Len(v) = 0, Len(w) = 0
    PROVE  Fit(p, s, q, P, S, Q, v, w)
<1>1. \A i, k, m : Side(p, s, q, w, i, k, m) => i = 0 /\ k = 0 /\ m = 0
  BY DEF Side, Cores, Ices
<1>2. \A i, k, m : Side(P, S, Q, v, i, k, m) => i = 0 /\ k = 0 /\ m = 0
  BY DEF Side, Cores, Ices
<1>3. \A d, K : ~AnswersAt(p, P, S, Q, v, d, K)
  BY <1>2 DEF AnswersAt
<1>4. \A x, y : <<x>> # <<>> /\ <<x, y>> # <<>>
  OBVIOUS
<1>5. ~Again(p, s, q, P, S, Q, v, w)
  BY <1>1 DEF Again
<1>6. ASSUME NEW d \in Desc PROVE ~First(p, s, q, P, S, Q, v, w, d)
  <2>1. ~FirstSent(p, v, d)
    BY DEF FirstSent
  <2>2. \A a : ~FirstAnswerSent(P, w, a)
    BY <1>4 DEF FirstAnswerSent
  <2> QED
    BY <1>3, <1>4, <2>1, <2>2 DEF First
<1>7. ASSUME NEW d \in Desc PROVE ~Sent(p, s, q, P, S, Q, v, w, d) /\ ~Taken(p, s, q, P, S, Q, v, w, d)
  BY <1>2 DEF Sent, Taken
<1>8. ASSUME NEW d \in Desc PROVE ~BeingAnswered(p, s, q, P, S, Q, v, w, d)
  BY <1>3 DEF BeingAnswered
<1>9. ASSUME NEW d \in Desc, NEW a \in Desc
      PROVE  ~AnswerSent(p, s, q, P, S, Q, v, w, d, a) /\ ~AnswerTaken(p, s, q, P, S, Q, v, w, d, a)
  BY <1>1 DEF AnswerSent, AnswerTaken
<1> QED
  BY <1>5, <1>6, <1>7, <1>8, <1>9 DEF Exchange

LEMMA SettledPhase ==
    ASSUME DInv, Settled
    PROVE  \E r \in Browsers : Exchanging(r, Other(r))
<1>1. ~crossed /\ \A b \in Browsers : listed[b] /\ toServer[b] = <<>> /\ toClient[b] = <<>> /\ ops[b] = <<>>
  BY DEF Settled
<1>2. PICK r, o \in Browsers : o = Other(r) /\ InPhase(r, o)
  BY <1>1, Others DEF DInv, Phased
<1>3. ~Announcing(r, o)
  BY <1>1 DEF Announcing
<1>4. ~Starting(r, o)
  <2>1. \A x : <<x>> # <<>>
    OBVIOUS
  <2> QED
    BY <1>1, <2>1 DEF Starting
<1> QED
  BY <1>2, <1>3, <1>4 DEF InPhase

LEMMA SettledFits ==
    ASSUME DInv, Settled, NEW b \in Browsers, NEW o \in Browsers, o = Other(b)
    PROVE  Fit(pc[b], <<>>, queue[b], pc[o], <<>>, queue[o], <<>>, <<>>)
<1>1. PICK e \in Seq(Mail) : e = <<>> /\ Len(e) = 0
  BY EmptySeq
<1>2. \A c \in Browsers : toServer[c] = e /\ toClient[c] = e /\ ops[c] = e
  BY <1>1 DEF Settled
<1>3. e \o e = e
  BY <1>1
<1>4. \A c, d \in Browsers : Way(c, d) = e
  BY <1>2, <1>3 DEF Way
<1>5. PICK r \in Browsers : Exchanging(r, Other(r))
  BY SettledPhase
<1>6. PICK a \in Browsers : a = Other(r) /\ r = Other(a)
  BY Others
<1>7. Exchange(pc[r], e, queue[r], pc[a], e, queue[a], e, e)
  BY <1>2, <1>4, <1>5, <1>6 DEF Exchanging
<1>8. Fit(pc[r], e, queue[r], pc[a], e, queue[a], e, e)
  BY <1>1, <1>7, QuietFits
<1>9. Fit(pc[a], e, queue[a], pc[r], e, queue[r], e, e)
  BY <1>8, FitTurned
<1>10. (b = r /\ o = a) \/ (b = a /\ o = r)
  BY <1>6, Others
<1> QED
  BY <1>1, <1>8, <1>9, <1>10

LEMMA SettledAgrees == DInv \/ astray => Agreed /\ CandidatesKept
<1> SUFFICES ASSUME DInv, Settled, NEW b \in Browsers, NEW o \in Browsers, o = Other(b)
             PROVE  /\ InCall(b) /\ pc[b] # None /\ pc[o] # None
                    /\ pc[b].sig = "stable" /\ pc[b].local # None /\ pc[b].local = pc[o].remote
                    /\ pc[b].remote \in pc[b].added
  BY Others DEF Agreed, CandidatesKept, Settled
<1>1. PICK e : e = <<>> /\ Len(e) = 0
  BY EmptySeq
<1>2. PICK p, P, q, Q : p = pc[b] /\ P = pc[o] /\ q = queue[b] /\ Q = queue[o]
  OBVIOUS
<1>3. Fit(p, e, q, P, e, Q, e, e)
  BY <1>1, <1>2, SettledFits
<1>4. /\ p # None /\ P # None /\ p.sig = "stable" /\ p.local # None /\ p.local = P.remote
      /\ P.local = p.remote /\ P.local # None
      /\ P.gather = P.local \/ Comes(e, 0, e, 0, p.added, P.local)
  BY <1>3 DEF Fit, Side
<1>5. P.gather = None
  BY <1>2, <1>4 DEF Settled
<1>6. p.remote \in p.added
  BY <1>1, <1>4, <1>5 DEF Comes
<1>7. InCall(b)
  <2>1. listed[b] /\ listed[o] /\ toClient[b] = e
    BY <1>1 DEF Settled
  <2> QED
    BY <1>1, <2>1 DEF DInv, Told
<1> QED
  BY <1>2, <1>4, <1>6, <1>7

-----------------------------------------------------------------------------
\* When nothing is under way and both are in the room, each end of the call has
\* its connection, no exchange is half done, and what one end has as its own
\* description (pcRef of useWebRTC.ts) the other one has as the remote one:
\* whatever handleOffer, handleAnswer and addIce did between their awaits, and
\* after any number of reloads, losses, leaves and ICE restarts, but for an offer
\* that crossed with a join or with another offer, and handlers that interleaved.
THEOREM EndsAgree == Spec => []Agreed
BY PhasesInv, SettledAgrees, PTL

\* And each end has added the candidate of the other one's description: neither
\* the queue of useWebRTC.ts (pendingCandidates), nor the loop that empties it
\* while others come, nor createPC, which throws it away, loses one that counts,
\* with the same two exceptions.
THEOREM CandidatesArrive == Spec => []CandidatesKept
BY PhasesInv, SettledAgrees, PTL

-----------------------------------------------------------------------------
(* Nothing is refused                                                      *)

LEMMA Draining ==
    ASSUME NEW p, NEW s \in Seq(Steps), s # <<>>, NEW q, Tidy(s, q, Remote(p)),
           s[1].do = "addIce", s[1].task # "ice"
    PROVE  Possible(p, s[1])
<1>1. 1 \in 1..Len(s) /\ Drain(s[1])
  BY Tailed DEF Drain
<1>2. s[1].d = Remote(p)
  BY <1>1 DEF Tidy
<1> QED
  BY <1>2 DEF Possible

LEMMA OfferingPossible ==
    ASSUME NEW p, NEW s \in Seq(Steps), s # <<>>, NEW q, NEW P, NEW S, NEW Q, NEW v, NEW w,
           Exchange(p, s, q, P, S, Q, v, w), s[1].task # "ice"
    PROVE  Possible(p, s[1])
<1>1. CASE s[1].do = "addIce"
  <2>1. s # <<>> /\ \A a : s = <<AnswerOp(a)>> => s[1].do = "setRemoteAnswer"
    BY DEF AnswerOp, Op
  <2>2. Tidy(s, q, Remote(p))
    BY <1>1, <2>1, OffererChain
  <2> QED
    BY <1>1, <2>2, Draining
<1>2. CASE s[1].do # "addIce"
  <2>1. Core(s[1])
    BY <1>2 DEF Core
  <2>2. /\ Op("createOffer", "restart", None).do = "createOffer"
        /\ \A a : AnswerOp(a).do = "setRemoteAnswer"
    BY DEF Op, AnswerOp
  <2>3. s \in Seq(Steps) /\ s # <<>> /\ Core(s[1]) /\ Exchange(p, s, q, P, S, Q, v, w)
    BY <2>1
  <2>4. \/ s[1].do = "createOffer" /\ p.sig = "stable"
        \/ s[1].do = "setLocalOffer" /\ s[1].d = p.offer /\ p.sig = "stable"
        \/ s[1].do = "setRemoteAnswer" /\ p.sig = "local"
    BY ONLY <2>2, <2>3, OffererWorks
  <2> QED
    BY <2>4 DEF Possible
<1> QED
  BY <1>1, <1>2

LEMMA AnsweringPossible ==
    ASSUME NEW p, NEW s, NEW q, NEW P, P # None, NEW S \in Seq(Steps), S # <<>>, NEW Q, NEW v, NEW w,
           Exchange(p, s, q, P, S, Q, v, w), S[1].task # "ice"
    PROVE  Possible(P, S[1])
<1>1. CASE S[1].do = "addIce"
  <2>1. \A d : S = <<Op("setRemoteOffer", "fresh", d)>> => S[1].do = "setRemoteOffer"
    BY DEF Op
  <2>2. Tidy(S, Q, Remote(P))
    BY <1>1, <2>1, AnswererChain
  <2> QED
    BY <1>1, <2>2, Draining
<1>2. CASE S[1].do # "addIce"
  <2>1. Core(S[1])
    BY <1>2 DEF Core
  <2>2. \/ \E d : S = <<Op("setRemoteOffer", "fresh", d)>>
        \/ \E d : S[1] = Op("setRemoteOffer", "existing", d)
        \/ \E d : Answering(P, S[1], d)
    BY <2>1, AnswererWorks
  <2>3. CASE \E d : Answering(P, S[1], d)
    BY <1>2, <2>3 DEF Answering, Possible
  <2>4. CASE S[1].do = "setRemoteOffer"
    BY <2>4 DEF Possible
  <2>5. \A t, d : Op("setRemoteOffer", t, d).do = "setRemoteOffer"
    BY DEF Op
  <2> QED
    BY <2>2, <2>3, <2>4, <2>5
<1> QED
  BY <1>1, <1>2

LEMMA NothingRefused == DInv \/ astray => NoneRefused
<1> SUFFICES ASSUME DInv, ~crossed, \A c \in Browsers : listed[c] /\ pc[c] # None,
                    NEW b \in Browsers, ops[b] # <<>>, Head(ops[b]).task # "ice"
             PROVE  Possible(pc[b], Head(ops[b]))
  BY DEF NoneRefused
<1>1. RtcOK
  BY At DEF DInv
<1>2. PICK r, o \in Browsers : o = Other(r) /\ InPhase(r, o) /\ (b = r \/ b = o)
  BY Others DEF DInv, Phased
<1>3. Exchanging(r, o)
  BY <1>2 DEF InPhase, Announcing, Starting
<1>4. PICK p, s, q, P, S, Q, v, w :
        /\ p = pc[r] /\ s = ops[r] /\ q = queue[r] /\ P = pc[o] /\ S = ops[o] /\ Q = queue[o]
        /\ v = Way(r, o) /\ w = Way(o, r)
  OBVIOUS
<1>5. Exchange(p, s, q, P, S, Q, v, w) /\ s \in Seq(Steps) /\ S \in Seq(Steps) /\ P # None
  BY <1>1, <1>3, <1>4 DEF Exchanging, RtcOK
<1>6. \A t \in Seq(Steps) : t # <<>> => Head(t) = t[1]
  BY Tailed
<1>7. CASE b = r
  BY <1>4, <1>5, <1>6, <1>7, OfferingPossible
<1>8. CASE b = o
  BY <1>4, <1>5, <1>6, <1>8, AnsweringPossible
<1> QED
  BY <1>2, <1>7, <1>8

-----------------------------------------------------------------------------
\* While both pages are in the room, no offers cross and the handlers of the server
\* keep together, what useWebRTC.ts awaits
\* succeeds: a remote offer or answer, an own description, a candidate that was
\* queued. So the catch of handleOffer, which makes a new connection, is not
\* taken, and no function of the negotiation ends in the middle, for any bounds.
THEOREM NoneIsRefused == Spec => []NoneRefused
BY PhasesInv, NothingRefused, PTL
=============================================================================
