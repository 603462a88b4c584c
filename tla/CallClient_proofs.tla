--------------------------- MODULE CallClient_proofs ---------------------------
(***************************************************************************)
(* A ring has a timer, nobody is taken to a room against his will or left  *)
(* in one alone, and what was accepted is not missed, for any number of    *)
(* browsers, calls and lost connections.                                   *)
(***************************************************************************)
EXTENDS CallClient, SequenceTheorems, TLAPS

Calls == [from : Clients, to : Clients]
Maybe == CallIds \cup {None}

HistOK ==
    /\ calls \in Seq(Calls)
    /\ rung \subseteq CallIds /\ answered \subseteq CallIds /\ declined \subseteq CallIds
    /\ budget \in Budgets /\ clicks \in Nat /\ lost \subseteq Clients

ServerOK ==
    /\ status \in [Clients -> {"none", "available", "in_call", "offline"}]
    /\ disc \in [Clients -> BOOLEAN]
    /\ pending \in [Clients -> Clients \cup {None}]
    /\ timeouts \subseteq CallIds
    /\ hubHung \in BOOLEAN
    /\ link \in [Clients -> {"up", "down"}]

\* A pending entry is for the last call its caller made.
IsLatest(v, k) ==
    /\ k \in CallIds /\ From(k) = v
    /\ \A j \in CallIds : From(j) = v => j <= k

Pend == \A v \in Clients : pending[v] # None => \E k \in CallIds : IsLatest(v, k) /\ To(k) = pending[v]

ScreenOK ==
    /\ page \in [Clients -> {"lobby", "room", "left"}]
    /\ callState \in [Clients -> {"idle", "calling", "incoming", "accepted"}]
    /\ shown \in [Clients -> Maybe] /\ callerRef \in [Clients -> Maybe]
    /\ timer \in [Clients -> Maybe] /\ room \in [Clients -> Maybe]
    /\ timers \in [Clients -> SUBSET CallIds] /\ missed \in [Clients -> SUBSET CallIds]

\* A browser shows, times and books only calls that were made to it.
OwnRings ==
    \A c \in Clients :
        /\ {shown[c], callerRef[c], timer[c]} \subseteq CallsTo(c) \cup {None}
        /\ timers[c] \cup missed[c] \subseteq CallsTo(c)

\* c has accepted a ring of u; c may go to the room of the call k.
Answered(u, c) == \E k \in answered : From(k) = u /\ To(k) = c
Consented(c, k) == From(k) = c \/ (To(k) = c /\ Answered(From(k), c))

\* What a browser may have sent, and what it may have been told.
GoodRequests(c) ==
    {m \in Requests :
        /\ m.type \in {"call_request", "call_accept", "call_decline"} => m.client \in Clients
        /\ m.type = "call_accept" => Answered(m.client, c)}

GoodEvents(c) ==
    {m \in Events :
        /\ m.type = "call_incoming" => m.call \in CallsTo(c)
        /\ m.type = "call_cancelled" /\ m.named => m.call \in CallsTo(c)
        /\ m.type = "call_start" => m.call \in CallIds /\ Consented(c, m.call)}

WireOK ==
    /\ DOMAIN toServer = Clients /\ DOMAIN toClient = Clients
    /\ toServer = [c \in Clients |-> toServer[c]] /\ toClient = [c \in Clients |-> toClient[c]]
    /\ \A c \in Clients : toServer[c] \in Seq(GoodRequests(c)) /\ toClient[c] \in Seq(GoodEvents(c))

\* Who is about to start a call has been told by its target that he takes it.
GoodJobs == {j \in Jobs : j.do = "accept" => Answered(From(j.call), To(j.call))}
JobsOK == jobs \subseteq GoodJobs /\ raced \subseteq CallIds

IInv ==
    /\ HistOK /\ ServerOK /\ Pend /\ JobsOK /\ ScreenOK /\ OwnRings /\ WireOK
    /\ RingHasTimer /\ Consent

-----------------------------------------------------------------------------
(* Calls are only added, and answers too.                                  *)

LEMMA SeqMono ==
    ASSUME NEW S, NEW T, S \subseteq T, NEW s \in Seq(S)
    PROVE  s \in Seq(T)
<1>1. s \in [1..Len(s) -> S] /\ Len(s) \in Nat
  OBVIOUS
<1>2. s \in [1..Len(s) -> T]
  BY <1>1
<1> QED
  BY <1>1, <1>2, IsASeq

LEMMA TypeFromInv == IInv => TypeOK
<1> SUFFICES ASSUME IInv PROVE TypeOK
  OBVIOUS
<1> USE DEF IInv
<1>1. ASSUME NEW c \in Clients PROVE toServer[c] \in Seq(Requests) /\ toClient[c] \in Seq(Events)
  <2>1. GoodRequests(c) \subseteq Requests /\ GoodEvents(c) \subseteq Events
    BY DEF GoodRequests, GoodEvents
  <2> QED
    BY <2>1, SeqMono DEF WireOK
<1>2. toServer \in [Clients -> Seq(Requests)] /\ toClient \in [Clients -> Seq(Events)]
  BY <1>1 DEF WireOK
<1>3. jobs \subseteq Jobs /\ raced \subseteq CallIds
  BY DEF JobsOK, GoodJobs
<1> QED
  BY <1>2, <1>3 DEF TypeOK, HistOK, ServerOK, ScreenOK, OwnRings, Calls, Maybe

Grows ==
    /\ calls' = calls \/ \E r \in Calls : calls' = Append(calls, r)
    /\ answered \subseteq answered'

LEMMA GrowsCalls ==
    ASSUME HistOK, Grows
    PROVE  /\ calls' \in Seq(Calls) /\ CallIds \subseteq CallIds'
           /\ \A k \in CallIds : From(k)' = From(k) /\ To(k)' = To(k)
           /\ \A c \in Clients : CallsTo(c) \subseteq CallsTo(c)'
<1>1. calls' \in Seq(Calls) /\ Len(calls) \in Nat /\ Len(calls') \in Nat /\ Len(calls) <= Len(calls')
  BY AppendProperties DEF HistOK, Grows
<1>2. \A k \in 1..Len(calls) : calls'[k] = calls[k]
  BY AppendProperties DEF HistOK, Grows
<1>3. CallIds \subseteq CallIds'
  BY <1>1 DEF CallIds
<1>4. \A k \in CallIds : From(k)' = From(k) /\ To(k)' = To(k)
  BY <1>2 DEF CallIds, From, To
<1>5. \A c \in Clients : CallsTo(c) \subseteq CallsTo(c)'
  BY <1>3, <1>4 DEF CallsTo
<1> QED
  BY <1>1, <1>3, <1>4, <1>5

LEMMA GrowsGood ==
    ASSUME HistOK, Grows, NEW c \in Clients
    PROVE  /\ \A u \in Clients : Answered(u, c) => Answered(u, c)'
           /\ \A k \in CallIds : Consented(c, k) => Consented(c, k)'
           /\ GoodRequests(c) \subseteq GoodRequests(c)'
           /\ GoodEvents(c) \subseteq GoodEvents(c)'
<1>1. ASSUME NEW u, Answered(u, c) PROVE Answered(u, c)'
  <2>1. PICK k \in answered : From(k) = u /\ To(k) = c
    BY <1>1 DEF Answered
  <2>2. k \in answered' /\ From(k)' = u /\ To(k)' = c
    BY <2>1, GrowsCalls DEF HistOK, Grows
  <2> QED
    BY <2>2 DEF Answered
<1>2. ASSUME NEW k \in CallIds, Consented(c, k) PROVE Consented(c, k)'
  BY <1>1, <1>2, GrowsCalls DEF Consented
<1>3. GoodRequests(c) \subseteq GoodRequests(c)'
  BY <1>1 DEF GoodRequests, Requests
<1>4. Events \subseteq Events'
  BY GrowsCalls DEF Events
<1>5. GoodEvents(c) \subseteq GoodEvents(c)'
  BY <1>2, <1>4, GrowsCalls DEF GoodEvents
<1> QED
  BY <1>1, <1>2, <1>3, <1>5

-----------------------------------------------------------------------------
(* The wire                                                                *)

ServerWire == toServer = [c \in Clients |-> toServer[c]]
              /\ \A c \in Clients : toServer[c] \in Seq(GoodRequests(c))
ClientWire == toClient = [c \in Clients |-> toClient[c]]
              /\ \A c \in Clients : toClient[c] \in Seq(GoodEvents(c))

LEMMA WireParts == WireOK <=> ServerWire /\ ClientWire
BY DEF WireOK, ServerWire, ClientWire

LEMMA ServerSame == ASSUME HistOK, Grows, ServerWire, UNCHANGED toServer PROVE ServerWire'
BY GrowsGood, SeqMono DEF ServerWire

LEMMA ClientSame == ASSUME HistOK, Grows, ClientWire, UNCHANGED toClient PROVE ClientWire'
BY GrowsGood, SeqMono DEF ClientWire

LEMMA SendGood ==
    ASSUME HistOK, Grows, ServerWire, NEW c \in Clients, NEW m, Send(c, m),
           m \in GoodRequests(c)'
    PROVE  ServerWire'
<1>1. toServer' = [toServer EXCEPT ![c] = IF link[c] = "up" THEN Append(toServer[c], m)
                                          ELSE toServer[c]]
  BY DEF Send
<1>2. ASSUME NEW d \in Clients PROVE toServer'[d] \in Seq(GoodRequests(d)')
  <2>1. toServer[d] \in Seq(GoodRequests(d)')
    BY GrowsGood, SeqMono DEF ServerWire
  <2>2. d = c => Append(toServer[d], m) \in Seq(GoodRequests(d)')
    BY <2>1, AppendProperties
  <2>3. toServer'[d] = toServer[d] \/ (d = c /\ toServer'[d] = Append(toServer[d], m))
    BY <1>1 DEF ServerWire
  <2> QED
    BY <2>1, <2>2, <2>3
<1>3. toServer' = [d \in Clients |-> toServer'[d]]
  BY <1>1 DEF ServerWire
<1> QED
  BY <1>2, <1>3 DEF ServerWire

LEMMA PushGood ==
    ASSUME HistOK, Grows, ClientWire, NEW msgs, Push(msgs),
           \A v \in Clients : v \in DOMAIN msgs => msgs[v] \in GoodEvents(v)'
    PROVE  ClientWire'
<1>1. ASSUME NEW d \in Clients PROVE toClient'[d] \in Seq(GoodEvents(d)')
  <2>1. toClient[d] \in Seq(GoodEvents(d)')
    BY GrowsGood, SeqMono DEF ClientWire
  <2>2. toClient'[d] = IF link[d] = "up" /\ d \in DOMAIN msgs THEN Append(toClient[d], msgs[d])
                       ELSE toClient[d]
    BY DEF Push
  <2>3. d \in DOMAIN msgs => Append(toClient[d], msgs[d]) \in Seq(GoodEvents(d)')
    BY <2>1, AppendProperties
  <2> QED
    BY <2>1, <2>2, <2>3
<1>2. toClient' = [d \in Clients |-> toClient'[d]]
  BY DEF Push
<1> QED
  BY <1>1, <1>2 DEF ClientWire

\* A queue that loses its first message, or all of them.
LEMMA ServerTakes ==
    ASSUME HistOK, Grows, ServerWire, NEW c \in Clients,
           \/ toServer[c] # <<>> /\ toServer' = [toServer EXCEPT ![c] = Tail(toServer[c])]
           \/ toServer' = [toServer EXCEPT ![c] = <<>>]
    PROVE  ServerWire'
<1>1. ASSUME NEW d \in Clients PROVE toServer'[d] \in Seq(GoodRequests(d)')
  <2>1. toServer[d] \in Seq(GoodRequests(d)')
    BY GrowsGood, SeqMono DEF ServerWire
  <2>2. toServer[d] # <<>> => Tail(toServer[d]) \in Seq(GoodRequests(d)')
    BY <2>1, HeadTailProperties
  <2>3. <<>> \in Seq(GoodRequests(d)')
    OBVIOUS
  <2>4. \/ toServer'[d] = toServer[d] \/ toServer'[d] = <<>>
        \/ toServer[d] # <<>> /\ toServer'[d] = Tail(toServer[d])
    BY DEF ServerWire
  <2> QED
    BY <2>1, <2>2, <2>3, <2>4
<1>2. toServer' = [d \in Clients |-> toServer'[d]]
  BY DEF ServerWire
<1> QED
  BY <1>1, <1>2 DEF ServerWire

LEMMA ClientTakes ==
    ASSUME HistOK, Grows, ClientWire, NEW c \in Clients,
           \/ toClient[c] # <<>> /\ toClient' = [toClient EXCEPT ![c] = Tail(toClient[c])]
           \/ toClient' = [toClient EXCEPT ![c] = <<>>]
    PROVE  ClientWire'
<1>1. ASSUME NEW d \in Clients PROVE toClient'[d] \in Seq(GoodEvents(d)')
  <2>1. toClient[d] \in Seq(GoodEvents(d)')
    BY GrowsGood, SeqMono DEF ClientWire
  <2>2. toClient[d] # <<>> => Tail(toClient[d]) \in Seq(GoodEvents(d)')
    BY <2>1, HeadTailProperties
  <2>3. <<>> \in Seq(GoodEvents(d)')
    OBVIOUS
  <2>4. \/ toClient'[d] = toClient[d] \/ toClient'[d] = <<>>
        \/ toClient[d] # <<>> /\ toClient'[d] = Tail(toClient[d])
    BY DEF ClientWire
  <2> QED
    BY <2>1, <2>2, <2>3, <2>4
<1>2. toClient' = [d \in Clients |-> toClient'[d]]
  BY DEF ClientWire
<1> QED
  BY <1>1, <1>2 DEF ClientWire

\* The first message of a queue.
LEMMA Heads ==
    ASSUME WireOK, NEW c \in Clients
    PROVE  /\ toServer[c] # <<>> => Head(toServer[c]) \in GoodRequests(c)
           /\ toClient[c] # <<>> => Head(toClient[c]) \in GoodEvents(c)
BY HeadTailProperties DEF WireOK

\* A call is from a browser to a browser.
LEMMA CallNames == ASSUME HistOK, NEW k \in CallIds PROVE From(k) \in Clients /\ To(k) \in Clients
<1>1. calls[k] \in Calls
  BY ElementOfSeq DEF HistOK, CallIds
<1> QED
  BY <1>1 DEF Calls, From, To

\* The entry of a caller leads to his last call, and to no other.
LEMMA LatestCall ==
    ASSUME HistOK, Pend, NEW v \in Clients, pending[v] # None
    PROVE  IsLatest(v, Latest(v)) /\ To(Latest(v)) = pending[v]
<1>1. PICK k \in CallIds : IsLatest(v, k) /\ To(k) = pending[v]
  BY DEF Pend
<1>2. CallIds \subseteq Nat
  BY DEF HistOK, CallIds
<1>3. \A j \in CallIds : (From(j) = v /\ \A i \in CallIds : From(i) = v => i <= j) => j = k
  BY <1>1, <1>2 DEF IsLatest
<1>4. Latest(v) = k
  BY <1>1, <1>3 DEF Latest, IsLatest
<1> QED
  BY <1>1, <1>4

-----------------------------------------------------------------------------
(* The history                                                             *)

\* A request that is handled names two browsers.
LEMMA RequestNames ==
    ASSUME WireOK, NEW c \in Clients, toServer[c] # <<>>,
           Head(toServer[c]).type \in {"call_request", "call_accept", "call_decline"}
    PROVE  /\ Head(toServer[c]).client \in Clients
           /\ Head(toServer[c]).type = "call_accept" => Answered(Head(toServer[c]).client, c)
BY Heads DEF GoodRequests

LEMMA GrowsHist ==
    ASSUME HistOK, Grows, rung' \subseteq rung \cup CallIds, answered' \subseteq answered \cup CallIds,
           declined' \subseteq declined \cup CallIds, budget' = budget,
           clicks' \in {clicks, clicks + 1}, lost' \subseteq lost \cup Clients
    PROVE  HistOK'
BY GrowsCalls DEF HistOK

LEMMA HistNext == ASSUME IInv, Next PROVE HistOK' /\ Grows
<1> USE DEF IInv
<1>1. ASSUME NEW c \in Clients, Buttons(c) PROVE HistOK' /\ Grows
  <2>1. ModalOpen(c) => shown[c] \in CallIds
    BY DEF ModalOpen, ScreenOK, Maybe
  <2>2. calls' = calls /\ rung' = rung /\ lost' = lost /\ Click(c)
    BY <1>1 DEF Buttons, CallUser, CancelCall, AcceptCall, DeclineCall, SaveProfile, LeaveLobby, JoinCall
  <2>3. answered' = answered \/ (ModalOpen(c) /\ answered' = answered \cup {shown[c]})
    BY <1>1 DEF Buttons, CallUser, CancelCall, AcceptCall, DeclineCall, SaveProfile, LeaveLobby, JoinCall
  <2>4. declined' = declined \/ (ModalOpen(c) /\ declined' = declined \cup {shown[c]})
    BY <1>1 DEF Buttons, CallUser, CancelCall, AcceptCall, DeclineCall, SaveProfile, LeaveLobby, JoinCall
  <2>5. Grows
    BY <2>2, <2>3 DEF Grows
  <2> QED
    BY <2>1, <2>2, <2>3, <2>4, <2>5, GrowsHist DEF Click
<1>2. ASSUME NEW c \in Clients, Listen(c) PROVE HistOK' /\ Grows
  <2>1. UNCHANGED <<calls, answered, declined, budget, clicks, lost>>
    BY <1>2 DEF Listen, Hear, OnIncoming, OnDeclined, OnCancelled, OnStart, OnError
  <2>2. rung' = rung \/ (OnIncoming(c) /\ rung' = rung \cup {Head(toClient[c]).call})
    BY <1>2 DEF Listen, Hear, OnIncoming, OnDeclined, OnCancelled, OnStart, OnError
  <2>3. OnIncoming(c) => Head(toClient[c]).call \in CallIds
    BY Heads DEF OnIncoming, Hear, GoodEvents, CallsTo
  <2>4. Grows
    BY <2>1 DEF Grows
  <2> QED
    BY <2>1, <2>2, <2>3, <2>4, GrowsHist
<1>3. ASSUME NEW c \in Clients, Serve(c) PROVE HistOK' /\ Grows
  <2>1. UNCHANGED <<rung, answered, declined, budget, clicks, lost>>
    BY <1>3 DEF Serve, Handle, HandleLobbyJoin, HandleLobbyLeave, HandleCallRequest,
                HandleCallAccept, HandleCallDecline, HandleCallCancel
  <2>2. Grows
    <3>1. CASE HandleCallRequest(c)
      <4>1. toServer[c] # <<>> /\ Head(toServer[c]).type = "call_request"
        BY <3>1 DEF HandleCallRequest, Handle
      <4>2. [from |-> c, to |-> Head(toServer[c]).client] \in Calls
        BY <4>1, RequestNames DEF Calls
      <4>3. \/ calls' = calls
            \/ calls' = Append(calls, [from |-> c, to |-> Head(toServer[c]).client])
        BY <3>1 DEF HandleCallRequest
      <4> QED
        BY <2>1, <4>2, <4>3 DEF Grows
    <3>2. CASE ~HandleCallRequest(c)
      <4>1. calls' = calls
        BY <1>3, <3>2 DEF Serve, HandleLobbyJoin, HandleLobbyLeave, HandleCallAccept,
                          HandleCallDecline, HandleCallCancel
      <4> QED
        BY <2>1, <4>1 DEF Grows
    <3> QED
      BY <3>1, <3>2
  <2> QED
    BY <2>1, <2>2, GrowsHist
<1>4. ASSUME NEW c \in Clients, Drop(c) PROVE HistOK' /\ Grows
  <2>1. Grows
    BY <1>4 DEF Drop, Grows
  <2> QED
    BY <1>4, <2>1, GrowsHist DEF Drop
<1>5. ASSUME UNCHANGED histVars PROVE HistOK' /\ Grows
  <2>1. Grows
    BY <1>5 DEF histVars, Grows
  <2> QED
    BY <1>5, <2>1, GrowsHist DEF histVars
<1>6. ASSUME NEW c \in Clients, Reopen(c) \/ GraceOver(c) PROVE HistOK' /\ Grows
  BY <1>5, <1>6 DEF Reopen, GraceOver
<1>7. CASE Timers
  BY <1>5, <1>7 DEF Timers, CallTimeout, AutoDecline
<1>8. CASE Ends
  BY <1>5, <1>8 DEF Ends, StartCall, TurnDown, CancelPending, CancelAndDepart, Finish
<1> QED
  BY <1>1, <1>2, <1>3, <1>4, <1>6, <1>7, <1>8 DEF Next

-----------------------------------------------------------------------------
(* The server                                                              *)

LEMMA SetStatusType ==
    ASSUME ServerOK, NEW S, NEW s \in {"none", "available", "in_call", "offline"}
    PROVE  SetStatus(S, s) \in [Clients -> {"none", "available", "in_call", "offline"}]
BY DEF SetStatus, ServerOK

LEMMA PendKeep ==
    ASSUME Pend, calls' = calls, \A v \in Clients : pending'[v] \in {pending[v], None}
    PROVE  Pend'
BY DEF Pend, IsLatest, CallIds, From, To

LEMMA ServerSameOK ==
    ASSUME HistOK, Grows, ServerOK, Pend, calls' = calls, UNCHANGED serverVars,
           link' \in [Clients -> {"up", "down"}]
    PROVE  ServerOK' /\ Pend'
BY GrowsCalls, PendKeep DEF ServerOK, serverVars

\* A call that ends, and a user who gets a status.
LEMMA ServerChanges ==
    ASSUME HistOK, Grows, ServerOK, Pend, calls' = calls,
           status' \in [Clients -> {"none", "available", "in_call", "offline"}],
           disc' \in [Clients -> BOOLEAN], hubHung' \in BOOLEAN,
           link' \in [Clients -> {"up", "down"}],
           pending' \in [Clients -> Clients \cup {None}],
           \A v \in Clients : pending'[v] \in {pending[v], None},
           timeouts' \subseteq timeouts
    PROVE  ServerOK' /\ Pend'
BY GrowsCalls, PendKeep DEF ServerOK

\* A call that is added is the last one of its caller.
LEMMA NewCall ==
    ASSUME HistOK, NEW c \in Clients, NEW u \in Clients, NEW k \in Nat, k = Len(calls) + 1,
           calls' = Append(calls, [from |-> c, to |-> u])
    PROVE  /\ CallIds' = CallIds \cup {k} /\ k \in CallIds'
           /\ From(k)' = c /\ To(k)' = u
           /\ \A j \in CallIds : From(j)' = From(j) /\ To(j)' = To(j) /\ j <= k /\ j # k
           /\ IsLatest(c, k)'
           /\ \A v \in Clients \ {c} : \A j \in CallIds : IsLatest(v, j) => IsLatest(v, j)'
<1>1. /\ Len(calls) \in Nat /\ Len(calls') = k /\ calls'[k] = [from |-> c, to |-> u]
      /\ \A j \in 1..Len(calls) : calls'[j] = calls[j]
  <2>1. [from |-> c, to |-> u] \in Calls
    BY DEF Calls
  <2> QED
    BY <2>1, AppendProperties DEF HistOK
<1>2. CallIds' = CallIds \cup {k} /\ k \in CallIds'
  BY <1>1 DEF CallIds
<1>3. From(k)' = c /\ To(k)' = u
  BY <1>1 DEF From, To
<1>4. \A j \in CallIds : From(j)' = From(j) /\ To(j)' = To(j) /\ j <= k /\ j # k
  BY <1>1 DEF CallIds, From, To
<1>5. IsLatest(c, k)'
  <2>1. \A j \in CallIds' : j <= k
    BY <1>2, <1>4
  <2> QED
    BY <1>2, <1>3, <2>1 DEF IsLatest
<1>6. ASSUME NEW v \in Clients \ {c}, NEW j \in CallIds, IsLatest(v, j) PROVE IsLatest(v, j)'
  <2>1. j \in CallIds' /\ From(j)' = v
    BY <1>2, <1>4, <1>6 DEF IsLatest
  <2>2. ASSUME NEW i \in CallIds', From(i)' = v PROVE i <= j
    BY <1>2, <1>3, <1>4, <1>6, <2>2 DEF IsLatest
  <2> QED
    BY <2>1, <2>2 DEF IsLatest
<1> QED
  BY <1>2, <1>3, <1>4, <1>5, <1>6

LEMMA RequestServer ==
    ASSUME IInv, HistOK', Grows, NEW c \in Clients, HandleCallRequest(c)
    PROVE  ServerOK' /\ Pend'
<1> USE DEF IInv
<1>1. PICK u \in Clients : u = Head(toServer[c]).client
  BY RequestNames DEF HandleCallRequest, Handle
<1>2. CASE ~(status[c] = "available" /\ status[u] = "available")
  BY <1>1, <1>2, ServerSameOK DEF HandleCallRequest, serverVars, ServerOK
<1>3. CASE status[c] = "available" /\ status[u] = "available"
  <2>0. PICK k \in Nat : k = Len(calls) + 1
    BY DEF HistOK
  <2>1. /\ calls' = Append(calls, [from |-> c, to |-> u])
        /\ pending' = [pending EXCEPT ![c] = u]
        /\ status' = SetStatus({c}, "in_call")
        /\ timeouts' = timeouts \cup {k}
        /\ UNCHANGED <<disc, hubHung, link>>
    BY <1>1, <1>3, <2>0 DEF HandleCallRequest
  <2>2. /\ CallIds' = CallIds \cup {k} /\ k \in CallIds' /\ To(k)' = u /\ IsLatest(c, k)'
        /\ \A j \in CallIds : To(j)' = To(j)
        /\ \A v \in Clients \ {c} : \A j \in CallIds : IsLatest(v, j) => IsLatest(v, j)'
    BY <2>0, <2>1, NewCall
  <2>5. ServerOK'
    <3>1. timeouts' \subseteq CallIds'
      BY <2>1, <2>2 DEF ServerOK
    <3>2. pending' \in [Clients -> Clients \cup {None}]
      BY <1>1, <2>1 DEF ServerOK
    <3>3. status' \in [Clients -> {"none", "available", "in_call", "offline"}]
      BY <2>1, SetStatusType
    <3> QED
      BY <2>1, <3>1, <3>2, <3>3 DEF ServerOK
  <2>6. ASSUME NEW v \in Clients, pending'[v] # None
        PROVE  \E j \in CallIds' : IsLatest(v, j)' /\ To(j)' = pending'[v]
    <3>1. CASE v = c
      <4>1. pending'[v] = u
        BY <2>1, <3>1 DEF ServerOK
      <4> QED
        BY <2>2, <3>1, <4>1
    <3>2. CASE v # c
      <4>1. pending'[v] = pending[v]
        BY <2>1, <3>2 DEF ServerOK
      <4>2. PICK j \in CallIds : IsLatest(v, j) /\ To(j) = pending[v]
        BY <2>6, <4>1 DEF Pend
      <4>3. IsLatest(v, j)' /\ To(j)' = pending'[v] /\ j \in CallIds'
        BY <2>2, <3>2, <4>1, <4>2
      <4> QED
        BY <4>3
    <3> QED
      BY <3>1, <3>2
  <2> QED
    BY <2>5, <2>6 DEF Pend
<1> QED
  BY <1>2, <1>3

LEMMA ServeServer ==
    ASSUME IInv, HistOK', Grows, NEW c \in Clients, Serve(c)
    PROVE  ServerOK' /\ Pend'
<1> USE DEF IInv
<1>1. CASE HandleLobbyJoin(c)
  BY <1>1, ServerChanges DEF HandleLobbyJoin, ServerOK
<1>2. CASE HandleCallRequest(c)
  BY <1>2, RequestServer
<1>3. CASE HandleCallAccept(c) \/ HandleCallDecline(c) \/ HandleCallCancel(c)
  <2>1. UNCHANGED <<status, disc, pending, timeouts, hubHung, link, calls>>
    BY <1>3 DEF HandleCallAccept, HandleCallDecline, HandleCallCancel
  <2> QED
    BY <2>1, ServerChanges DEF ServerOK
<1>4. CASE HandleLobbyLeave(c)
  <2>1. /\ status' = [status EXCEPT ![c] = "none"] /\ disc' = [disc EXCEPT ![c] = FALSE]
        /\ UNCHANGED <<timeouts, calls>>
    BY <1>4 DEF HandleLobbyLeave
  <2>2. CASE UNCHANGED <<pending, hubHung, link>>
    BY <2>1, <2>2, ServerChanges DEF ServerOK
  <2>3. CASE Depart(c, pending)
    <3>1. /\ pending' \in [Clients -> Clients \cup {None}]
          /\ \A v \in Clients : pending'[v] \in {pending[v], None}
          /\ hubHung' \in BOOLEAN /\ link' \in [Clients -> {"up", "down"}]
      BY <2>3 DEF Depart, ServerOK
    <3> QED
      BY <2>1, <3>1, ServerChanges DEF ServerOK
  <2> QED
    BY <1>4, <2>2, <2>3 DEF HandleLobbyLeave
<1> QED
  BY <1>1, <1>2, <1>3, <1>4 DEF Serve

LEMMA EndsServer ==
    ASSUME IInv, HistOK', Grows, Ends
    PROVE  ServerOK' /\ Pend'
<1> USE DEF IInv
<1>1. PICK j \in jobs : StartCall(j) \/ TurnDown(j) \/ CancelPending(j) \/ CancelAndDepart(j)
  BY DEF Ends
<1>2. UNCHANGED <<disc, timeouts, calls>>
  BY <1>1 DEF StartCall, TurnDown, CancelPending, CancelAndDepart, Finish, histVars
<1>3. \E S : status' = SetStatus(S, "in_call") \/ status' = SetStatus(S, "available")
  BY <1>1 DEF StartCall, TurnDown, CancelPending, CancelAndDepart, Cancelled
<1>4. /\ Deleted(j) \in [Clients -> Clients \cup {None}]
      /\ \A v \in Clients : Deleted(j)[v] \in {pending[v], None}
  BY DEF Deleted, ServerOK
<1>5. CASE pending' = Deleted(j) /\ UNCHANGED <<hubHung, link>>
  BY <1>2, <1>3, <1>4, <1>5, ServerChanges, SetStatusType DEF ServerOK
<1>6. CASE Depart(j.by, Deleted(j))
  <2>1. /\ pending' \in [Clients -> Clients \cup {None}]
        /\ \A v \in Clients : pending'[v] \in {pending[v], None}
    BY <1>4, <1>6 DEF Depart
  <2>2. hubHung' \in BOOLEAN /\ link' \in [Clients -> {"up", "down"}]
    BY <1>6 DEF Depart, ServerOK
  <2> QED
    BY <1>2, <1>3, <2>1, <2>2, ServerChanges, SetStatusType DEF ServerOK
<1> QED
  BY <1>1, <1>5, <1>6 DEF StartCall, TurnDown, CancelPending, CancelAndDepart

LEMMA ServerNext == ASSUME IInv, Next, HistOK', Grows PROVE ServerOK' /\ Pend'
<1> USE DEF IInv
<1>1. ASSUME NEW c \in Clients, Buttons(c) PROVE ServerOK' /\ Pend'
  <2>1. UNCHANGED serverVars /\ UNCHANGED <<link, calls>>
    BY <1>1 DEF Buttons, CallUser, CancelCall, AcceptCall, DeclineCall, SaveProfile, LeaveLobby,
                JoinCall, wireVars
  <2> QED
    BY <2>1, ServerSameOK DEF ServerOK
<1>2. ASSUME NEW c \in Clients, Listen(c) PROVE ServerOK' /\ Pend'
  <2>1. UNCHANGED serverVars /\ UNCHANGED <<link, calls>>
    BY <1>2 DEF Listen, Hear, OnIncoming, OnDeclined, OnCancelled, OnStart, OnError
  <2> QED
    BY <2>1, ServerSameOK DEF ServerOK
<1>3. ASSUME NEW c \in Clients, Serve(c) PROVE ServerOK' /\ Pend'
  BY <1>3, ServeServer
<1>4. ASSUME NEW c \in Clients, Drop(c) PROVE ServerOK' /\ Pend'
  <2>1. disc' \in [Clients -> BOOLEAN]
    BY <1>4 DEF Drop, ServerOK, InLobby
  <2> QED
    BY <1>4, <2>1, ServerChanges DEF Drop, ServerOK
<1>5. ASSUME NEW c \in Clients, Reopen(c) PROVE ServerOK' /\ Pend'
  BY <1>5, ServerSameOK DEF Reopen, ServerOK, histVars
<1>6. ASSUME NEW c \in Clients, GraceOver(c) PROVE ServerOK' /\ Pend'
  BY <1>6, ServerChanges, SetStatusType DEF GraceOver, ServerOK, histVars, wireVars
<1>7. ASSUME NEW k \in CallIds, CallTimeout(k) PROVE ServerOK' /\ Pend'
  <2>1. timeouts' \subseteq timeouts /\ UNCHANGED <<status, pending, disc, hubHung, link, calls>>
    BY <1>7 DEF CallTimeout, histVars, wireVars
  <2> QED
    BY <2>1, ServerChanges DEF ServerOK
<1>8. ASSUME NEW c \in Clients, NEW k \in timers[c], AutoDecline(c, k) PROVE ServerOK' /\ Pend'
  BY <1>8, ServerSameOK DEF AutoDecline, ServerOK, histVars
<1> QED
  BY <1>1, <1>2, <1>3, <1>4, <1>5, <1>6, <1>7, <1>8, EndsServer DEF Next, Timers

\* What a handler found stays a call, and an answer stays one.
LEMMA JobsGrow ==
    ASSUME HistOK, Grows
    PROVE  GoodJobs \subseteq GoodJobs'
<1> SUFFICES ASSUME NEW j \in GoodJobs PROVE j \in GoodJobs'
  OBVIOUS
<1>1. j \in Jobs /\ j.call \in CallIds
  BY DEF GoodJobs, Jobs
<1>2. From(j.call)' = From(j.call) /\ To(j.call)' = To(j.call)
  BY <1>1, GrowsCalls
<1>3. j \in Jobs'
  BY <1>1, GrowsCalls DEF Jobs
<1>4. ASSUME Answered(From(j.call), To(j.call)) PROVE Answered(From(j.call), To(j.call))'
  <2>1. PICK k \in answered : From(k) = From(j.call) /\ To(k) = To(j.call)
    BY <1>4 DEF Answered
  <2>2. k \in answered' /\ From(k)' = From(k) /\ To(k)' = To(k)
    BY <2>1, GrowsCalls DEF HistOK, Grows
  <2> QED
    BY <1>2, <2>1, <2>2 DEF Answered
<1> QED
  BY <1>3, <1>4 DEF GoodJobs

LEMMA JobsSame == ASSUME HistOK, Grows, JobsOK, jobs' \subseteq jobs, raced' = raced PROVE JobsOK'
BY JobsGrow, GrowsCalls DEF JobsOK

\* A job for the pending call of v.
LEMMA JobsFound ==
    ASSUME IInv, Grows, calls' = calls, NEW v \in Clients, pending[v] # None, NEW do, NEW b,
           Found(do, v, b), [do |-> do, call |-> Latest(v), by |-> b] \in Jobs,
           do = "accept" => Answered(v, pending[v])
    PROVE  JobsOK'
<1> USE DEF IInv
<1>1. PICK k \in CallIds : k = Latest(v) /\ From(k) = v /\ To(k) = pending[v]
  BY LatestCall DEF IsLatest
<1>2. PICK j : j = [do |-> do, call |-> k, by |-> b]
  OBVIOUS
<1>3. j \in GoodJobs
  BY <1>1, <1>2 DEF GoodJobs
<1>4. jobs' = jobs \cup {j}
  BY <1>1, <1>2 DEF Found
<1>5. raced' \subseteq raced \cup {k}
  BY <1>1 DEF Found
<1>6. CallIds' = CallIds
  BY DEF CallIds
<1> QED
  BY <1>1, <1>3, <1>4, <1>5, <1>6, JobsGrow DEF JobsOK

LEMMA ServeJobs ==
    ASSUME IInv, Grows, NEW c \in Clients, Serve(c)
    PROVE  JobsOK'
<1> USE DEF IInv
<1>1. ASSUME UNCHANGED <<jobs, raced>> PROVE JobsOK'
  BY <1>1, JobsSame
<1>2. \A v \in Clients : pending[v] # None => Latest(v) \in CallIds
  BY LatestCall DEF IsLatest
<1>3. CASE HandleLobbyJoin(c) \/ HandleCallRequest(c)
  BY <1>1, <1>3 DEF HandleLobbyJoin, HandleCallRequest
<1>4. CASE HandleCallAccept(c)
  <2>1. PICK u \in Clients : u = Head(toServer[c]).client /\ Answered(u, c)
    BY <1>4, RequestNames DEF HandleCallAccept, Handle
  <2>2. CASE pending[u] = c
    <3>1. Found("accept", u, c) /\ calls' = calls /\ pending[u] # None
      BY <1>4, <2>1, <2>2, CallClientAssumption DEF HandleCallAccept
    <3>2. [do |-> "accept", call |-> Latest(u), by |-> c] \in Jobs
      BY <1>2, <3>1 DEF Jobs
    <3> QED
      BY <2>1, <2>2, <3>1, <3>2, JobsFound
  <2> QED
    BY <1>1, <1>4, <2>1, <2>2 DEF HandleCallAccept, NotFound
<1>5. CASE HandleCallDecline(c)
  <2>1. PICK u \in Clients : u = Head(toServer[c]).client
    BY <1>5, RequestNames DEF HandleCallDecline, Handle
  <2>2. CASE pending[u] = c
    <3>1. Found("decline", u, c) /\ calls' = calls /\ pending[u] # None
      BY <1>5, <2>1, <2>2, CallClientAssumption DEF HandleCallDecline
    <3>2. [do |-> "decline", call |-> Latest(u), by |-> c] \in Jobs
      BY <1>2, <3>1 DEF Jobs
    <3> QED
      BY <3>1, <3>2, JobsFound
  <2> QED
    BY <1>1, <1>5, <2>1, <2>2 DEF HandleCallDecline, NotFound
<1>6. CASE HandleCallCancel(c) \/ HandleLobbyLeave(c)
  <2>1. CASE NotFound
    BY <1>1, <2>1 DEF NotFound
  <2>2. CASE ~NotFound
    <3>1. PICK do \in {"cancel", "leave"} : Found(do, c, c) /\ pending[c] # None /\ calls' = calls
      BY <1>6, <2>2 DEF HandleCallCancel, HandleLobbyLeave
    <3>2. [do |-> do, call |-> Latest(c), by |-> c] \in Jobs
      BY <1>2, <3>1 DEF Jobs
    <3> QED
      BY <3>1, <3>2, JobsFound
  <2> QED
    BY <2>1, <2>2
<1> QED
  BY <1>3, <1>4, <1>5, <1>6 DEF Serve

LEMMA JobsNext == ASSUME IInv, Next, Grows PROVE JobsOK'
<1> USE DEF IInv
<1>1. ASSUME UNCHANGED <<jobs, raced>> PROVE JobsOK'
  BY <1>1, JobsSame
<1>2. ASSUME NEW c \in Clients, Buttons(c) PROVE JobsOK'
  BY <1>1, <1>2 DEF Buttons, CallUser, CancelCall, AcceptCall, DeclineCall, SaveProfile, LeaveLobby,
                    JoinCall, serverVars
<1>3. ASSUME NEW c \in Clients, Listen(c) PROVE JobsOK'
  BY <1>1, <1>3 DEF Listen, Hear, OnIncoming, OnDeclined, OnCancelled, OnStart, OnError, serverVars
<1>4. ASSUME NEW c \in Clients, Drop(c) \/ Reopen(c) \/ GraceOver(c) PROVE JobsOK'
  BY <1>1, <1>4 DEF Drop, Reopen, GraceOver, serverVars
<1>5. ASSUME NEW c \in Clients, NEW k \in timers[c], AutoDecline(c, k) PROVE JobsOK'
  BY <1>1, <1>5 DEF AutoDecline, serverVars
<1>6. ASSUME NEW k \in CallIds, CallTimeout(k) PROVE JobsOK'
  <2>1. From(k) \in Clients /\ To(k) \in Clients /\ calls' = calls
    BY <1>6, CallNames DEF CallTimeout, histVars
  <2>2. CASE pending[From(k)] = To(k)
    <3>1. Found("expire", From(k), k) /\ pending[From(k)] # None
      BY <1>6, <2>1, <2>2, CallClientAssumption DEF CallTimeout
    <3>2. [do |-> "expire", call |-> Latest(From(k)), by |-> k] \in Jobs
      BY <2>1, <3>1, LatestCall DEF IsLatest, Jobs
    <3> QED
      BY <2>1, <3>1, <3>2, JobsFound
  <2> QED
    BY <1>1, <1>6, <2>2 DEF CallTimeout, NotFound
<1>7. CASE Ends
  <2>1. jobs' \subseteq jobs /\ raced' = raced
    BY <1>7 DEF Ends, StartCall, TurnDown, CancelPending, CancelAndDepart, Finish
  <2> QED
    BY <2>1, JobsSame
<1> QED
  BY <1>2, <1>3, <1>4, <1>5, <1>6, <1>7, ServeJobs DEF Next, Timers

-----------------------------------------------------------------------------
(* The screens                                                             *)

Screen == ScreenOK /\ OwnRings /\ RingHasTimer /\ Consent

LEMMA ScreenSame ==
    ASSUME IInv, HistOK', Grows, UNCHANGED screenVars, UNCHANGED page
    PROVE  Screen'
<1> USE DEF IInv
<1>1. ScreenOK' /\ OwnRings'
  <2>1. CallIds \subseteq CallIds' /\ \A c \in Clients : CallsTo(c) \subseteq CallsTo(c)'
    BY GrowsCalls
  <2> QED
    BY <2>1 DEF screenVars, ScreenOK, Maybe, OwnRings
<1>2. RingHasTimer'
  BY DEF screenVars, RingHasTimer
<1>3. ASSUME NEW c \in Clients, room[c] # None PROVE Consented(c, room[c])'
  <2>1. room[c] \in CallIds /\ Consented(c, room[c])
    BY <1>3 DEF ScreenOK, Maybe, Consent, Consented, Answered
  <2>2. PICK k \in CallIds : k = room[c]
    BY <2>1
  <2> QED
    BY <2>1, <2>2, GrowsGood DEF screenVars
<1>4. Consent'
  BY <1>3 DEF screenVars, Consent, Consented, Answered
<1> QED
  BY <1>1, <1>2, <1>4 DEF Screen

\* A step on the screen of c; calls stay as they are.
Only(c) ==
    /\ page' = [page EXCEPT ![c] = page'[c]]
    /\ callState' = [callState EXCEPT ![c] = callState'[c]]
    /\ shown' = [shown EXCEPT ![c] = shown'[c]]
    /\ callerRef' = [callerRef EXCEPT ![c] = callerRef'[c]]
    /\ timer' = [timer EXCEPT ![c] = timer'[c]]
    /\ timers' = [timers EXCEPT ![c] = timers'[c]]
    /\ missed' = [missed EXCEPT ![c] = missed'[c]]
    /\ room' = [room EXCEPT ![c] = room'[c]]

LEMMA ScreenStep ==
    ASSUME IInv, HistOK', Grows, calls' = calls, NEW c \in Clients, Only(c),
           page'[c] \in {"lobby", "room", "left"},
           callState'[c] \in {"idle", "calling", "incoming", "accepted"},
           {shown'[c], callerRef'[c], timer'[c]} \subseteq CallsTo(c) \cup {None},
           timers'[c] \subseteq CallsTo(c), missed'[c] \subseteq CallsTo(c),
           page'[c] = "lobby" /\ callerRef'[c] # None =>
               timer'[c] = callerRef'[c] /\ callerRef'[c] \in timers'[c],
           room'[c] = room[c] \/ (room'[c] \in CallIds /\ Consented(c, room'[c]))
    PROVE  Screen'
<1> USE DEF IInv
<1>0. /\ CallIds' = CallIds /\ CallsTo(c) \subseteq CallIds
      /\ \A d \in Clients : CallsTo(d)' = CallsTo(d)
  BY DEF CallIds, CallsTo, To
<1>1. ScreenOK'
  <2>1. page' \in [Clients -> {"lobby", "room", "left"}]
    BY DEF ScreenOK, Only
  <2>2. callState' \in [Clients -> {"idle", "calling", "incoming", "accepted"}]
    BY DEF ScreenOK, Only
  <2>3. /\ shown' \in [Clients -> Maybe] /\ callerRef' \in [Clients -> Maybe]
        /\ timer' \in [Clients -> Maybe]
    BY <1>0 DEF ScreenOK, Only, Maybe
  <2>4. timers' \in [Clients -> SUBSET CallIds] /\ missed' \in [Clients -> SUBSET CallIds]
    BY <1>0 DEF ScreenOK, Only
  <2>5. room' \in [Clients -> Maybe]
    <3>1. room'[c] \in Maybe
      BY DEF ScreenOK, Maybe
    <3> QED
      BY <3>1 DEF ScreenOK, Only
  <2>6. Maybe' = Maybe
    BY <1>0 DEF Maybe
  <2> QED
    BY <1>0, <2>1, <2>2, <2>3, <2>4, <2>5, <2>6 DEF ScreenOK
<1>2. OwnRings'
  <2>1. ASSUME NEW d \in Clients
        PROVE  /\ {shown'[d], callerRef'[d], timer'[d]} \subseteq CallsTo(d) \cup {None}
               /\ timers'[d] \cup missed'[d] \subseteq CallsTo(d)
    <3>1. CASE d = c
      BY <3>1
    <3>2. CASE d # c
      <4>1. /\ shown'[d] = shown[d] /\ callerRef'[d] = callerRef[d] /\ timer'[d] = timer[d]
            /\ timers'[d] = timers[d] /\ missed'[d] = missed[d]
        BY <3>2 DEF Only, ScreenOK
      <4> QED
        BY <4>1 DEF OwnRings
    <3> QED
      BY <3>1, <3>2
  <2> QED
    BY <1>0, <2>1 DEF OwnRings
<1>3. RingHasTimer'
  <2>1. ASSUME NEW d \in Clients, page'[d] = "lobby", callerRef'[d] # None
        PROVE  timer'[d] = callerRef'[d] /\ callerRef'[d] \in timers'[d]
    <3>1. CASE d = c
      BY <2>1, <3>1
    <3>2. CASE d # c
      <4>1. /\ page'[d] = page[d] /\ callerRef'[d] = callerRef[d] /\ timer'[d] = timer[d]
            /\ timers'[d] = timers[d]
        BY <3>2 DEF Only, ScreenOK
      <4> QED
        BY <2>1, <4>1 DEF RingHasTimer
    <3> QED
      BY <3>1, <3>2
  <2> QED
    BY <2>1 DEF RingHasTimer
<1>4. Consent'
  <2>1. ASSUME NEW d \in Clients, room'[d] # None
        PROVE  \E k \in CallIds : k = room'[d] /\ Consented(d, k)
    <3>1. CASE room'[d] = room[d]
      BY <2>1, <3>1 DEF ScreenOK, Maybe, Consent, Consented, Answered
    <3>2. CASE room'[d] # room[d]
      <4>1. d = c
        BY <3>2 DEF Only, ScreenOK
      <4> QED
        BY <3>2, <4>1
    <3> QED
      BY <3>1, <3>2
  <2>2. ASSUME NEW d \in Clients, room'[d] # None
        PROVE  \E k \in CallIds : k = room'[d] /\ Consented(d, k)'
    <3>1. PICK k \in CallIds : k = room'[d] /\ Consented(d, k)
      BY <2>1, <2>2
    <3> QED
      BY <3>1, GrowsGood
  <2> QED
    BY <2>2 DEF Consent, Consented, Answered
<1> QED
  BY <1>1, <1>2, <1>3, <1>4 DEF Screen

LEMMA ButtonsScreen ==
    ASSUME IInv, HistOK', Grows, NEW c \in Clients, Buttons(c)
    PROVE  Screen'
<1> USE DEF IInv
<1>0. /\ {shown[c], callerRef[c], timer[c]} \subseteq CallsTo(c) \cup {None}
      /\ timers[c] \subseteq CallsTo(c) /\ missed[c] \subseteq CallsTo(c)
      /\ page[c] = "lobby" /\ callerRef[c] # None =>
             timer[c] = callerRef[c] /\ callerRef[c] \in timers[c]
      /\ page[c] \in {"lobby", "room", "left"}
      /\ callState[c] \in {"idle", "calling", "incoming", "accepted"}
  BY DEF OwnRings, RingHasTimer, ScreenOK
<1>1. ASSUME NEW u \in Clients, CallUser(c, u) PROVE Screen'
  <2>1. Only(c) /\ callState'[c] = "calling"
    BY <1>1 DEF CallUser, Only, ScreenOK
  <2> QED
    BY <1>0, <1>1, <2>1, ScreenStep DEF CallUser
<1>2. CASE CancelCall(c)
  <2>1. Only(c) /\ callState'[c] = "idle"
    BY <1>2 DEF CancelCall, Only, ScreenOK
  <2> QED
    BY <1>0, <1>2, <2>1, ScreenStep DEF CancelCall
<1>3. CASE AcceptCall(c)
  <2>1. /\ Only(c) /\ callerRef'[c] = None /\ timer'[c] = None /\ timers'[c] \subseteq timers[c]
        /\ UNCHANGED <<page, callState, shown, missed, room, calls>>
    BY <1>3 DEF AcceptCall, ClearTimer, Only, ScreenOK
  <2> QED
    BY <1>0, <2>1, ScreenStep
<1>4. CASE DeclineCall(c)
  <2>1. /\ Only(c) /\ callState'[c] = "idle" /\ shown'[c] = None /\ callerRef'[c] = None
        /\ timer'[c] = None /\ timers'[c] \subseteq timers[c] /\ UNCHANGED <<page, missed, room, calls>>
    BY <1>4 DEF DeclineCall, ClearTimer, Only, ScreenOK
  <2> QED
    BY <1>0, <2>1, ScreenStep
<1>5. CASE SaveProfile(c)
  BY <1>5, ScreenSame DEF SaveProfile
<1>6. CASE LeaveLobby(c)
  <2>1. /\ Only(c) /\ page'[c] = "left" /\ timer'[c] = None /\ timers'[c] \subseteq timers[c]
        /\ UNCHANGED <<callState, shown, callerRef, missed, room, calls>>
    BY <1>6 DEF LeaveLobby, ClearTimer, Only, ScreenOK
  <2> QED
    BY <1>0, <2>1, ScreenStep
<1>7. CASE JoinCall(c)
  <2>1. /\ Only(c) /\ page'[c] = "room" /\ timer'[c] = None /\ timers'[c] \subseteq timers[c]
        /\ UNCHANGED <<callState, shown, callerRef, missed, room, calls>>
    BY <1>7 DEF JoinCall, ClearTimer, Only, ScreenOK
  <2> QED
    BY <1>0, <2>1, ScreenStep
<1> QED
  BY <1>1, <1>2, <1>3, <1>4, <1>5, <1>6, <1>7 DEF Buttons

LEMMA ListenScreen ==
    ASSUME IInv, HistOK', Grows, NEW c \in Clients, Listen(c)
    PROVE  Screen'
<1> USE DEF IInv
<1>0. /\ {shown[c], callerRef[c], timer[c]} \subseteq CallsTo(c) \cup {None}
      /\ timers[c] \subseteq CallsTo(c) /\ missed[c] \subseteq CallsTo(c)
      /\ page[c] = "lobby" /\ callerRef[c] # None =>
             timer[c] = callerRef[c] /\ callerRef[c] \in timers[c]
      /\ page[c] \in {"lobby", "room", "left"}
      /\ callState[c] \in {"idle", "calling", "incoming", "accepted"}
  BY DEF OwnRings, RingHasTimer, ScreenOK
<1>1. Head(toClient[c]) \in GoodEvents(c) /\ UNCHANGED <<page, calls>>
  BY <1>0, Heads DEF Listen, Hear, OnIncoming, OnDeclined, OnCancelled, OnStart, OnError
<1>2. CASE OnIncoming(c)
  <2>1. PICK k \in CallsTo(c) : k = Head(toClient[c]).call
    BY <1>1, <1>2 DEF OnIncoming, Hear, GoodEvents
  <2>2. /\ Only(c) /\ callState'[c] = "incoming" /\ shown'[c] = k /\ callerRef'[c] = k
        /\ timer'[c] = k /\ timers'[c] = timers[c] \cup {k} /\ UNCHANGED <<missed, room>>
    BY <1>1, <1>2, <2>1 DEF OnIncoming, Only, ScreenOK
  <2> QED
    BY <1>0, <1>1, <2>1, <2>2, ScreenStep
<1>3. CASE OnDeclined(c)
  <2>1. /\ Only(c) /\ callState'[c] = "idle"
        /\ UNCHANGED <<shown, callerRef, timer, timers, missed, room>>
    BY <1>1, <1>3 DEF OnDeclined, Only, ScreenOK
  <2> QED
    BY <1>0, <1>1, <2>1, ScreenStep
<1>4. CASE OnCancelled(c)
  <2>1. PICK e : e = IF callerRef[c] # None THEN callerRef[c]
                     ELSE IF Head(toClient[c]).named THEN Head(toClient[c]).call ELSE None
    OBVIOUS
  <2>2. e = None \/ e \in CallsTo(c)
    <3>1. Head(toClient[c]).named => Head(toClient[c]).call \in CallsTo(c)
      BY <1>1, <1>4 DEF OnCancelled, Hear, GoodEvents
    <3> QED
      BY <1>0, <2>1, <3>1
  <2>3. Book(c, e) /\ CloseModal(c) /\ ClearTimer(c) /\ UNCHANGED room
    BY <1>4, <2>1 DEF OnCancelled
  <2>4. missed' = [missed EXCEPT ![c] = missed'[c]] /\ missed'[c] \subseteq missed[c] \cup ({e} \ {None})
    BY <2>3 DEF Book, ScreenOK
  <2>5. /\ Only(c) /\ callState'[c] = "idle" /\ shown'[c] = None /\ callerRef'[c] = None
        /\ timer'[c] = None /\ timers'[c] \subseteq timers[c]
    BY <1>1, <2>3, <2>4 DEF CloseModal, ClearTimer, Only, ScreenOK
  <2>6. missed'[c] \subseteq CallsTo(c)
    BY <1>0, <2>2, <2>4
  <2> QED
    BY <1>0, <1>1, <2>3, <2>5, <2>6, ScreenStep
<1>5. CASE OnStart(c)
  <2>1. PICK k \in CallIds : k = Head(toClient[c]).call /\ Consented(c, k)
    BY <1>1, <1>5 DEF OnStart, Hear, GoodEvents
  <2>2. /\ Only(c) /\ callState'[c] = "accepted" /\ room'[c] = k
        /\ UNCHANGED <<shown, callerRef, timer, timers, missed>>
    BY <1>1, <1>5, <2>1 DEF OnStart, Only, ScreenOK
  <2> QED
    BY <1>0, <1>1, <2>1, <2>2, ScreenStep
<1>6. CASE OnError(c)
  BY <1>1, <1>6, ScreenSame DEF OnError
<1> QED
  BY <1>2, <1>3, <1>4, <1>5, <1>6 DEF Listen

LEMMA AutoDeclineScreen ==
    ASSUME IInv, HistOK', Grows, NEW c \in Clients, NEW k \in timers[c], AutoDecline(c, k)
    PROVE  Screen'
<1> USE DEF IInv
<1>0. /\ {shown[c], callerRef[c], timer[c]} \subseteq CallsTo(c) \cup {None}
      /\ timers[c] \subseteq CallsTo(c) /\ missed[c] \subseteq CallsTo(c)
      /\ page[c] \in {"lobby", "room", "left"} /\ k \in CallsTo(c)
  BY DEF OwnRings, ScreenOK
<1>1. UNCHANGED <<page, timer, room, calls>>
  BY DEF AutoDecline, histVars
<1>2. missed' = [missed EXCEPT ![c] = missed'[c]] /\ missed'[c] \subseteq missed[c] \cup {k}
  BY DEF AutoDecline, Book, ScreenOK
<1>3. /\ Only(c) /\ callState'[c] = "idle" /\ shown'[c] = None /\ callerRef'[c] = None
      /\ timers'[c] \subseteq timers[c]
  BY <1>1, <1>2 DEF AutoDecline, CloseModal, Only, ScreenOK
<1> QED
  BY <1>0, <1>1, <1>2, <1>3, ScreenStep

LEMMA ScreenNext == ASSUME IInv, Next, HistOK', Grows PROVE Screen'
<1>1. ASSUME NEW c \in Clients, Serve(c) PROVE Screen'
  <2>1. UNCHANGED screenVars /\ UNCHANGED page
    BY <1>1 DEF Serve, Handle, HandleLobbyJoin, HandleLobbyLeave, HandleCallRequest,
                HandleCallAccept, HandleCallDecline, HandleCallCancel
  <2> QED
    BY <2>1, ScreenSame
<1>2. ASSUME NEW c \in Clients, Drop(c) \/ Reopen(c) \/ GraceOver(c) PROVE Screen'
  BY <1>2, ScreenSame DEF Drop, Reopen, GraceOver
<1>3. ASSUME NEW k \in CallIds, CallTimeout(k) PROVE Screen'
  BY <1>3, ScreenSame DEF CallTimeout
<1>4. CASE Ends
  BY <1>4, ScreenSame DEF Ends, StartCall, TurnDown, CancelPending, CancelAndDepart, Finish
<1> QED
  BY <1>1, <1>2, <1>3, <1>4, ButtonsScreen, ListenScreen, AutoDeclineScreen DEF Next, Timers

-----------------------------------------------------------------------------
(* What travels stays good                                                 *)

\* The messages of a browser and of the server.
LEMMA GoodRequest ==
    ASSUME NEW c \in Clients, NEW u \in Clients \cup {None},
           NEW t \in {"call_request", "call_cancel", "call_accept", "call_decline",
                      "lobby_join", "lobby_leave"},
           t \in {"call_request", "call_accept", "call_decline"} => u \in Clients,
           t = "call_accept" => Answered(u, c)'
    PROVE  Request(t, u) \in GoodRequests(c)'
BY DEF Request, GoodRequests, Requests

LEMMA GoodEvent ==
    ASSUME NEW c \in Clients, NEW k,
           NEW t \in {"call_incoming", "call_declined", "call_cancelled", "call_start", "error"},
           k \in CallIds' \/ k = None,
           t \in {"call_incoming", "call_cancelled"} => k \in CallsTo(c)',
           t = "call_start" => k \in CallIds' /\ Consented(c, k)'
    PROVE  Event(t, k) \in GoodEvents(c)'
BY DEF Event, GoodEvents, Events

LEMMA ButtonsWire ==
    ASSUME IInv, HistOK', Grows, NEW c \in Clients, Buttons(c)
    PROVE  ServerWire' /\ ClientWire'
<1> USE DEF IInv
<1>0. ServerWire /\ ClientWire
  BY WireParts
<1>1. ClientWire'
  <2>1. UNCHANGED toClient
    BY DEF Buttons, CallUser, CancelCall, AcceptCall, DeclineCall, SaveProfile, LeaveLobby,
           JoinCall, wireVars
  <2> QED
    BY <1>0, <2>1, ClientSame
<1>2. ModalOpen(c) => shown[c] \in CallIds /\ To(shown[c]) = c /\ From(shown[c]) \in Clients
  BY CallNames DEF ModalOpen, OwnRings, CallsTo
<1>3. ASSUME NEW u \in Clients, CallUser(c, u) PROVE ServerWire'
  BY <1>0, <1>3, GoodRequest, SendGood DEF CallUser
<1>4. ASSUME CancelCall(c) PROVE ServerWire'
  BY <1>0, <1>4, GoodRequest, SendGood DEF CancelCall
<1>5. ASSUME AcceptCall(c) PROVE ServerWire'
  <2>1. PICK k \in CallIds : k = shown[c] /\ To(k) = c /\ From(k) \in Clients
    BY <1>2, <1>5 DEF AcceptCall
  <2>2. PICK u \in Clients : u = From(k)
    BY <2>1
  <2>3. k \in answered' /\ From(k)' = u /\ To(k)' = c
    BY <1>5, <2>1, <2>2, GrowsCalls DEF AcceptCall
  <2>4. Answered(u, c)'
    BY <2>3 DEF Answered
  <2>5. Send(c, Request("call_accept", u))
    BY <1>5, <2>1, <2>2 DEF AcceptCall
  <2> QED
    BY <1>0, <2>4, <2>5, GoodRequest, SendGood
<1>6. ASSUME DeclineCall(c) PROVE ServerWire'
  <2>1. PICK u \in Clients : u = From(shown[c])
    BY <1>2, <1>6 DEF DeclineCall
  <2> QED
    BY <1>0, <1>6, <2>1, GoodRequest, SendGood DEF DeclineCall
<1>7. ASSUME SaveProfile(c) PROVE ServerWire'
  BY <1>0, <1>7, GoodRequest, SendGood DEF SaveProfile
<1>8. ASSUME LeaveLobby(c) PROVE ServerWire'
  BY <1>0, <1>8, GoodRequest, SendGood DEF LeaveLobby
<1>9. ASSUME JoinCall(c) PROVE ServerWire'
  BY <1>0, <1>9, ServerSame DEF JoinCall, wireVars
<1> QED
  BY <1>1, <1>3, <1>4, <1>5, <1>6, <1>7, <1>8, <1>9 DEF Buttons

LEMMA ServeWire ==
    ASSUME IInv, HistOK', Grows, NEW c \in Clients, Serve(c)
    PROVE  ServerWire' /\ ClientWire'
<1> USE DEF IInv
<1>0. ServerWire /\ ClientWire
  BY WireParts
<1>1. ServerWire'
  <2>1. toServer[c] # <<>> /\ toServer' = [toServer EXCEPT ![c] = Tail(toServer[c])]
    BY DEF Serve, Handle, HandleLobbyJoin, HandleLobbyLeave, HandleCallRequest,
           HandleCallAccept, HandleCallDecline, HandleCallCancel
  <2> QED
    BY <1>0, <2>1, ServerTakes
<1>2. ASSUME Push([v \in {c} |-> Event("error", None)]) PROVE ClientWire'
  <2>1. PICK msgs : msgs = [v \in {c} |-> Event("error", None)]
    OBVIOUS
  <2>2. Event("error", None) \in GoodEvents(c)'
    BY GoodEvent
  <2> QED
    BY <1>0, <1>2, <2>1, <2>2, PushGood
<1>3. ASSUME UNCHANGED toClient PROVE ClientWire'
  BY <1>0, <1>3, ClientSame
<1>4. ASSUME HandleCallRequest(c) PROVE ClientWire'
  <2>1. PICK u \in Clients : u = Head(toServer[c]).client
    BY <1>4, RequestNames DEF HandleCallRequest, Handle
  <2>2. PICK k \in Nat : k = Len(calls) + 1
    BY DEF HistOK
  <2>3. CASE status[c] = "available" /\ status[u] = "available"
    <3>1. /\ calls' = Append(calls, [from |-> c, to |-> u])
          /\ Push([v \in {u} |-> Event("call_incoming", k)])
      BY <1>4, <2>1, <2>2, <2>3 DEF HandleCallRequest
    <3>2. k \in CallIds' /\ To(k)' = u
      BY <2>2, <3>1, NewCall
    <3>3. Event("call_incoming", k) \in GoodEvents(u)'
      BY <3>2, GoodEvent DEF CallsTo
    <3>4. PICK msgs : msgs = [v \in {u} |-> Event("call_incoming", k)]
      OBVIOUS
    <3> QED
      BY <1>0, <3>1, <3>3, <3>4, PushGood
  <2> QED
    BY <1>2, <1>4, <2>1, <2>3 DEF HandleCallRequest
<1>5. ASSUME HandleCallAccept(c) PROVE ClientWire'
  BY <1>2, <1>3, <1>5 DEF HandleCallAccept
<1>6. ASSUME HandleCallDecline(c) \/ HandleCallCancel(c) \/ HandleLobbyJoin(c) \/ HandleLobbyLeave(c)
      PROVE  ClientWire'
  BY <1>3, <1>6 DEF HandleCallDecline, HandleCallCancel, HandleLobbyJoin, HandleLobbyLeave
<1> QED
  BY <1>1, <1>4, <1>5, <1>6 DEF Serve

\* A call that is cancelled was made to the one who is told, and one that starts
\* is for both.
LEMMA EndsWire ==
    ASSUME IInv, HistOK', Grows, Ends
    PROVE  ServerWire' /\ ClientWire'
<1> USE DEF IInv
<1>0. ServerWire /\ ClientWire
  BY WireParts
<1>1. PICK j \in jobs : StartCall(j) \/ TurnDown(j) \/ CancelPending(j) \/ CancelAndDepart(j)
  BY DEF Ends
<1>2. ServerWire'
  <2>1. UNCHANGED toServer
    BY <1>1 DEF StartCall, TurnDown, CancelPending, CancelAndDepart, Finish
  <2> QED
    BY <1>0, <2>1, ServerSame
<1>3. PICK k \in CallIds : /\ k = j.call /\ From(k) \in Clients /\ To(k) \in Clients
                           /\ j.do = "accept" => Answered(From(k), To(k))
  <2>1. j \in GoodJobs
    BY DEF JobsOK
  <2>2. j.call \in CallIds /\ (j.do = "accept" => Answered(From(j.call), To(j.call)))
    BY <2>1 DEF GoodJobs, Jobs
  <2> QED
    BY <2>2, CallNames
<1>4. k \in CallIds' /\ From(k)' = From(k) /\ To(k)' = To(k)
  BY GrowsCalls
<1>5. ASSUME StartCall(j) PROVE ClientWire'
  <2>1. Consented(To(k), k) /\ Consented(From(k), k)
    BY <1>3, <1>5 DEF StartCall, Consented
  <2>2. ASSUME NEW v \in {From(k), To(k)} PROVE Event("call_start", k) \in GoodEvents(v)'
    <3>1. Consented(v, k)' /\ v \in Clients
      BY <1>3, <2>1, GrowsGood
    <3> QED
      BY <1>4, <3>1, GoodEvent
  <2>3. PICK msgs : msgs = [v \in {From(k), To(k)} |-> Event("call_start", k)]
    OBVIOUS
  <2>4. Push(msgs)
    BY <1>3, <1>5, <2>3 DEF StartCall
  <2> QED
    BY <1>0, <2>2, <2>3, <2>4, PushGood
<1>6. ASSUME TurnDown(j) PROVE ClientWire'
  <2>1. PICK u \in Clients : u = From(k)
    BY <1>3
  <2>2. Event("call_declined", k) \in GoodEvents(u)'
    BY <1>4, GoodEvent
  <2>3. PICK msgs : msgs = [v \in {u} |-> Event("call_declined", k)]
    OBVIOUS
  <2>4. Push(msgs)
    BY <1>3, <1>6, <2>1, <2>3 DEF TurnDown
  <2> QED
    BY <1>0, <2>2, <2>3, <2>4, PushGood
<1>7. ASSUME CancelPending(j) \/ CancelAndDepart(j) PROVE ClientWire'
  <2>1. PICK u \in Clients : u = To(k)
    BY <1>3
  <2>2. PICK b \in BOOLEAN : b = InLobby(From(k))
    BY DEF InLobby
  <2>3. PICK m : m = [type |-> "call_cancelled", call |-> k, named |-> b]
    OBVIOUS
  <2>4. m \in GoodEvents(u)'
    BY <1>4, <2>1, <2>3 DEF GoodEvents, Events, CallsTo
  <2>5. PICK msgs : msgs = [v \in {u} |-> m]
    OBVIOUS
  <2>6. Push(msgs)
    <3>1. [Event("call_cancelled", k) EXCEPT !.named = InLobby(From(k))] = m
      BY <2>2, <2>3 DEF Event
    <3> QED
      BY <1>3, <1>7, <2>1, <2>5, <3>1 DEF CancelPending, CancelAndDepart, Cancelled
  <2> QED
    BY <1>0, <2>4, <2>5, <2>6, PushGood
<1> QED
  BY <1>1, <1>2, <1>5, <1>6, <1>7

LEMMA WireNext == ASSUME IInv, Next, HistOK', Grows PROVE WireOK'
<1> USE DEF IInv
<1>0. ServerWire /\ ClientWire
  BY WireParts
<1>1. ASSUME NEW c \in Clients, Listen(c) PROVE ServerWire' /\ ClientWire'
  <2>1. /\ UNCHANGED toServer /\ toClient[c] # <<>>
        /\ toClient' = [toClient EXCEPT ![c] = Tail(toClient[c])]
    BY <1>1 DEF Listen, Hear, OnIncoming, OnDeclined, OnCancelled, OnStart, OnError
  <2> QED
    BY <1>0, <2>1, ServerSame, ClientTakes
<1>2. ASSUME NEW c \in Clients, Drop(c) PROVE ServerWire' /\ ClientWire'
  BY <1>0, <1>2, ServerTakes, ClientTakes DEF Drop
<1>3. ASSUME NEW c \in Clients, Reopen(c) PROVE ServerWire' /\ ClientWire'
  <2>1. UNCHANGED toClient
    BY <1>3 DEF Reopen
  <2>2. PICK s : s = IF page[c] = "lobby" THEN <<Request("lobby_join", None)>> ELSE <<>>
    OBVIOUS
  <2>3. toServer' = [toServer EXCEPT ![c] = s]
    BY <1>3, <2>2 DEF Reopen
  <2>4. Request("lobby_join", None) \in GoodRequests(c)'
    BY GoodRequest
  <2>5. s \in Seq(GoodRequests(c)')
    BY <2>2, <2>4
  <2>6. ASSUME NEW d \in Clients PROVE toServer'[d] \in Seq(GoodRequests(d)')
    <3>1. toServer[d] \in Seq(GoodRequests(d)')
      BY <1>0, GrowsGood, SeqMono DEF ServerWire
    <3> QED
      BY <1>0, <2>3, <2>5, <3>1 DEF ServerWire
  <2>7. toServer' = [d \in Clients |-> toServer'[d]]
    BY <1>0, <2>3 DEF ServerWire
  <2> QED
    BY <1>0, <2>1, <2>6, <2>7, ClientSame DEF ServerWire
<1>4. ASSUME NEW c \in Clients, GraceOver(c) PROVE ServerWire' /\ ClientWire'
  BY <1>0, <1>4, ServerSame, ClientSame DEF GraceOver, wireVars
<1>5. ASSUME NEW k \in CallIds, CallTimeout(k) PROVE ServerWire' /\ ClientWire'
  BY <1>0, <1>5, ServerSame, ClientSame DEF CallTimeout, wireVars
<1>6. ASSUME NEW c \in Clients, NEW k \in timers[c], AutoDecline(c, k)
      PROVE  ServerWire' /\ ClientWire'
  <2>1. k \in CallIds
    BY DEF ScreenOK
  <2>2. PICK u \in Clients : u = From(k)
    BY <2>1, CallNames
  <2> QED
    BY <1>0, <1>6, <2>2, GoodRequest, SendGood, ClientSame DEF AutoDecline
<1>7. ServerWire' /\ ClientWire'
  BY <1>1, <1>2, <1>3, <1>4, <1>5, <1>6, ButtonsWire, ServeWire, EndsWire DEF Next, Timers
<1> QED
  BY <1>7 DEF WireOK, ServerWire, ClientWire

-----------------------------------------------------------------------------
LEMMA InitInv == Init => IInv
<1> SUFFICES ASSUME Init PROVE IInv
  OBVIOUS
<1>1. HistOK
  BY DEF Init, HistOK, CallIds
<1>2. ServerOK /\ Pend /\ JobsOK
  BY DEF Init, ServerOK, Pend, JobsOK
<1>3. Screen
  BY DEF Init, Screen, ScreenOK, Maybe, OwnRings, RingHasTimer, Consent
<1>4. WireOK
  BY DEF Init, WireOK
<1> QED
  BY <1>1, <1>2, <1>3, <1>4 DEF IInv, Screen

LEMMA NextInv == IInv /\ [Next]_vars => IInv'
<1> SUFFICES ASSUME IInv, [Next]_vars PROVE IInv'
  OBVIOUS
<1>1. CASE Next
  <2>1. HistOK' /\ Grows
    BY <1>1, HistNext
  <2> QED
    BY <1>1, <2>1, ServerNext, JobsNext, ScreenNext, WireNext DEF IInv, Screen
<1>2. CASE UNCHANGED vars
  <2>1. /\ UNCHANGED serverVars /\ UNCHANGED wireVars /\ UNCHANGED screenVars /\ UNCHANGED histVars
        /\ page' = page
    BY <1>2 DEF vars
  <2>2. Grows
    BY <2>1 DEF Grows, histVars
  <2>3. HistOK'
    BY <2>1, <2>2, GrowsHist DEF IInv, histVars
  <2>4. ServerOK' /\ Pend' /\ JobsOK'
    BY <2>1, <2>2, ServerSameOK, JobsSame DEF IInv, histVars, wireVars, serverVars, ServerOK
  <2>5. Screen'
    BY <2>1, <2>2, <2>3, ScreenSame
  <2>6. ServerWire' /\ ClientWire'
    BY <2>1, <2>2, ServerSame, ClientSame, WireParts DEF IInv, wireVars
  <2>7. WireOK'
    BY <2>6 DEF WireOK, ServerWire, ClientWire
  <2> QED
    BY <2>3, <2>4, <2>5, <2>7 DEF IInv, Screen
<1> QED
  BY <1>1, <1>2

\* In every reachable state a pending entry is for the last call of its caller,
\* a browser shows, times and books only calls made to it, and whatever is on
\* the wire was sent for a call that exists, an accept by hand.
THEOREM Invariant == Spec => []IInv
<1>1. Init => IInv
  BY InitInv
<1>2. IInv /\ [Next]_vars => IInv'
  BY NextInv
<1> QED
  BY <1>1, <1>2, PTL DEF Spec

\* The types of the server, of the wire and of the screens (useCall.ts,
\* lobby_handlers.go).
THEOREM TypeCorrect == Spec => []TypeOK
<1>1. IInv => TypeOK
  BY TypeFromInv
<1> QED
  BY <1>1, Invariant, PTL

\* The caller that useCall's reference holds has a timer that runs, however
\* rings, cancels, answers and stale timers overlap.
THEOREM RingsTimed == Spec => []RingHasTimer
<1>1. IInv => RingHasTimer
  BY DEF IInv
<1> QED
  BY <1>1, Invariant, PTL

\* Who is taken to a room by call_start has called himself, or has accepted a
\* ring of that caller by hand.
THEOREM NobodyForced == Spec => []Consent
<1>1. IInv => Consent
  BY DEF IInv
<1> QED
  BY <1>1, Invariant, PTL

-----------------------------------------------------------------------------
(* One outcome for a call.  A ring is newer than everything its browser    *)
(* has been told before, so a call rings, is shown and is answered once;   *)
(* and a call whose entry is still pending, or has been found by a handler *)
(* that is about to delete it, has neither started nor been cancelled.  So *)
(* the entry decides between the two, unless two handlers find it.         *)

Queue(c) == 1..Len(toClient[c])

InQueue(type, c, k) == \E i \in Queue(c) : toClient[c][i].type = type /\ toClient[c][i].call = k

\* Calls that c has been told of by a ring or a cancel.
Past(c) == missed[c] \cup {k \in rung : To(k) = c}

NewestAt(c) ==
    \A j \in Queue(c) : toClient[c][j].type = "call_incoming" =>
        /\ \A i \in 1..(j - 1) : toClient[c][i].call \in CallIds
                                     => toClient[c][i].call < toClient[c][j].call
        /\ \A k \in Past(c) : k < toClient[c][j].call

RingsAt(c) ==
    /\ {shown[c], callerRef[c]} \subseteq rung \cup {None} /\ timers[c] \subseteq rung
    /\ shown[c] \notin missed[c]
    /\ callerRef[c] \notin answered /\ timers[c] \cap answered = {}
    /\ shown[c] \in timers[c] => timer[c] = shown[c]

RingsOnce ==
    /\ answered \subseteq rung
    /\ \A c \in Clients : NewestAt(c) /\ RingsAt(c)

Started(k) == \E c \in Clients : room[c] = k \/ InQueue("call_start", c, k)
Ended(k) == \E c \in Clients : InQueue("call_cancelled", c, k) \/ k \in answered \cap missed[c]
Live(k) == pending[From(k)] # None /\ IsLatest(From(k), k)

InHand(k) == \E j \in jobs : j.call = k

OneOutcome ==
    \A k \in CallIds \ raced :
        /\ ~(Started(k) /\ Ended(k))
        /\ Live(k) \/ InHand(k) => ~Started(k) /\ ~Ended(k)
        /\ \A i, j \in jobs : i.call = k /\ j.call = k => i = j

\* What a step of the server does to a queue.
Hears(c, type, k) == \E m : m.type = type /\ m.call = k /\ toClient'[c] = Append(toClient[c], m)

\* Positions in a queue that gets a message.
LEMMA QueueAppend ==
    ASSUME WireOK, NEW c \in Clients, NEW m, toClient'[c] = Append(toClient[c], m)
    PROVE  /\ Len(toClient[c]) \in Nat /\ Len(toClient'[c]) = Len(toClient[c]) + 1
           /\ \A i \in Queue(c) : toClient'[c][i] = toClient[c][i]
           /\ toClient'[c][Len(toClient[c]) + 1] = m
           /\ \A type, k : InQueue(type, c, k)' <=>
                  InQueue(type, c, k) \/ (m.type = type /\ m.call = k)
<1>1. PICK S : S = GoodEvents(c) \cup {m}
  OBVIOUS
<1>2. toClient[c] \in Seq(S) /\ m \in S
  BY <1>1, SeqMono DEF WireOK
<1>3. /\ Len(toClient[c]) \in Nat /\ Len(toClient'[c]) = Len(toClient[c]) + 1
      /\ \A i \in Queue(c) : toClient'[c][i] = toClient[c][i]
      /\ toClient'[c][Len(toClient[c]) + 1] = m
  BY <1>2, AppendProperties DEF Queue
<1>4. Queue(c)' = Queue(c) \cup {Len(toClient[c]) + 1}
  BY <1>3 DEF Queue
<1>5. \A type, k : InQueue(type, c, k)' <=>
          InQueue(type, c, k) \/ (m.type = type /\ m.call = k)
  BY <1>3, <1>4 DEF InQueue
<1> QED
  BY <1>3, <1>5

\* Positions in a queue that loses its first message.
LEMMA QueueTail ==
    ASSUME WireOK, NEW c \in Clients, toClient[c] # <<>>, toClient'[c] = Tail(toClient[c])
    PROVE  /\ Len(toClient[c]) \in Nat \ {0} /\ Len(toClient'[c]) = Len(toClient[c]) - 1
           /\ \A i \in Queue(c)' : i + 1 \in Queue(c) /\ toClient'[c][i] = toClient[c][i + 1]
           /\ Head(toClient[c]) = toClient[c][1] /\ 1 \in Queue(c)
           /\ \A type, k : InQueue(type, c, k) <=>
                  InQueue(type, c, k)' \/ (Head(toClient[c]).type = type /\ Head(toClient[c]).call = k)
<1>1. toClient[c] \in Seq(GoodEvents(c))
  BY DEF WireOK
<1>2. /\ Len(toClient[c]) \in Nat \ {0} /\ Len(toClient'[c]) = Len(toClient[c]) - 1
      /\ \A i \in 1..Len(toClient'[c]) : toClient'[c][i] = toClient[c][i + 1]
      /\ Head(toClient[c]) = toClient[c][1]
  BY <1>1, HeadTailProperties, EmptySeq
<1>3. /\ \A i \in Queue(c)' : i + 1 \in Queue(c) /\ toClient'[c][i] = toClient[c][i + 1]
      /\ 1 \in Queue(c)
      /\ \A i \in Queue(c) : i = 1 \/ (i - 1 \in Queue(c)' /\ toClient'[c][i - 1] = toClient[c][i])
  BY <1>2 DEF Queue
<1>4. ASSUME NEW type, NEW k
      PROVE  InQueue(type, c, k) <=>
                 InQueue(type, c, k)' \/ (Head(toClient[c]).type = type /\ Head(toClient[c]).call = k)
  <2>1. ASSUME InQueue(type, c, k)
        PROVE  InQueue(type, c, k)' \/ (Head(toClient[c]).type = type /\ Head(toClient[c]).call = k)
    <3>1. PICK i \in Queue(c) : toClient[c][i].type = type /\ toClient[c][i].call = k
      BY <2>1 DEF InQueue
    <3>2. CASE i = 1
      BY <1>2, <3>1, <3>2
    <3>3. CASE i # 1
      BY <1>3, <3>1, <3>3 DEF InQueue
    <3> QED
      BY <3>2, <3>3
  <2>2. ASSUME InQueue(type, c, k)' PROVE InQueue(type, c, k)
    <3>1. PICK i \in Queue(c)' : toClient'[c][i].type = type /\ toClient'[c][i].call = k
      BY <2>2 DEF InQueue
    <3> QED
      BY <1>3, <3>1 DEF InQueue
  <2>3. ASSUME Head(toClient[c]).type = type, Head(toClient[c]).call = k PROVE InQueue(type, c, k)
    BY <1>2, <1>3, <2>3 DEF InQueue
  <2> QED
    BY <2>1, <2>2, <2>3
<1> QED
  BY <1>2, <1>3, <1>4

\* Positions in a queue that is lost.
LEMMA QueueLost ==
    ASSUME NEW c, toClient'[c] = <<>>
    PROVE  Queue(c)' = {} /\ \A type, k : ~InQueue(type, c, k)'
BY DEF Queue, InQueue

-----------------------------------------------------------------------------
(* What a step of the server does: it says nothing of consequence, it      *)
(* rings a new call, it finds a pending call, or it ends one that a        *)
(* handler has found, in one of two ways.                                  *)

Same(c) == toClient'[c] = toClient[c]
Kept == calls' = calls /\ \A v \in Clients : pending'[v] \in {pending[v], None}

Quiet ==
    /\ Kept /\ jobs' \subseteq jobs /\ raced' = raced
    /\ \A c \in Clients : \/ Same(c) \/ Hears(c, "error", None)
                          \/ \E k \in CallIds : Hears(c, "call_declined", k)

Rings(c, u) ==
    /\ calls' = Append(calls, [from |-> c, to |-> u]) /\ UNCHANGED <<jobs, raced>>
    /\ pending' = [pending EXCEPT ![c] = u]
    /\ \A d \in Clients : Same(d) \/ (d = u /\ Hears(d, "call_incoming", Len(calls) + 1))

Finds(k) ==
    /\ Kept /\ Live(k)
    /\ \E j : j.call = k /\ jobs' = jobs \cup {j}
    /\ raced' = raced \cup {j.call : j \in {i \in jobs : i.call = k}}
    /\ \A c \in Clients : Same(c)

Takes(k) ==
    /\ Kept /\ pending'[From(k)] = None /\ raced' = raced
    /\ \E j \in jobs : j.call = k /\ jobs' = jobs \ {j}

Starts(k) ==
    /\ Takes(k)
    /\ \A c \in Clients : Same(c) \/ Hears(c, "call_start", k)
    /\ \A c \in {From(k), To(k)} : link[c] = "up" => Hears(c, "call_start", k)

Cancels(k) ==
    /\ Takes(k)
    /\ \A c \in Clients : Same(c) \/ Hears(c, "call_cancelled", k)

ServerStep ==
    \/ Quiet \/ \E c \in Clients, u \in Clients : Rings(c, u)
    \/ \E k \in CallIds : Finds(k) \/ Starts(k) \/ Cancels(k)

\* A message that is pushed reaches the queues of those who are connected.
LEMMA PushHears ==
    ASSUME NEW msgs, Push(msgs), NEW type, NEW k,
           \A v \in DOMAIN msgs : msgs[v].type = type /\ msgs[v].call = k
    PROVE  \A c \in Clients : /\ Same(c) \/ Hears(c, type, k)
                              /\ c \in DOMAIN msgs /\ link[c] = "up" => Hears(c, type, k)
                              /\ c \notin DOMAIN msgs => Same(c)
<1> SUFFICES ASSUME NEW c \in Clients
             PROVE  /\ Same(c) \/ Hears(c, type, k)
                    /\ c \in DOMAIN msgs /\ link[c] = "up" => Hears(c, type, k)
                    /\ c \notin DOMAIN msgs => Same(c)
  OBVIOUS
<1>1. toClient'[c] = IF link[c] = "up" /\ c \in DOMAIN msgs THEN Append(toClient[c], msgs[c])
                     ELSE toClient[c]
  BY DEF Push
<1> QED
  BY <1>1 DEF Same, Hears

\* The last call of a caller whose entry is there is pending.
LEMMA LatestLive ==
    ASSUME IInv, NEW v \in Clients, pending[v] # None
    PROVE  \E k \in CallIds : k = Latest(v) /\ From(k) = v /\ To(k) = pending[v] /\ Live(k)
BY LatestCall DEF IInv, Live, IsLatest

LEMMA FindStep ==
    ASSUME IInv, NEW v \in Clients, pending[v] # None, NEW do, NEW b, Found(do, v, b), Kept,
           \A c \in Clients : Same(c)
    PROVE  ServerStep
<1>1. PICK k \in CallIds : k = Latest(v) /\ From(k) = v /\ To(k) = pending[v] /\ Live(k)
  BY LatestLive
<1>2. PICK j : j = [do |-> do, call |-> k, by |-> b]
  OBVIOUS
<1>3. j.call = k /\ jobs' = jobs \cup {j}
  BY <1>1, <1>2 DEF Found
<1>4. raced' = raced \cup {i.call : i \in {x \in jobs : x.call = k}}
  BY <1>1 DEF Found
<1>5. Finds(k)
  BY <1>1, <1>3, <1>4 DEF Finds
<1> QED
  BY <1>5 DEF ServerStep

LEMMA ServeStep == ASSUME IInv, NEW c \in Clients, Serve(c) PROVE ServerStep
<1>1. ASSUME Kept, UNCHANGED <<jobs, raced>>, UNCHANGED toClient PROVE ServerStep
  BY <1>1 DEF ServerStep, Quiet, Same
<1>2. ASSUME calls' = calls, UNCHANGED <<pending, jobs, raced>>, Push([v \in {c} |-> Event("error", None)])
      PROVE  ServerStep
  <2>1. PICK msgs : msgs = [v \in {c} |-> Event("error", None)]
    OBVIOUS
  <2>2. \A v \in DOMAIN msgs : msgs[v].type = "error" /\ msgs[v].call = None
    BY <2>1 DEF Event
  <2>3. \A d \in Clients : Same(d) \/ Hears(d, "error", None)
    BY <1>2, <2>1, <2>2, PushHears
  <2> QED
    BY <1>2, <2>3 DEF ServerStep, Quiet, Kept
<1>3. CASE HandleLobbyJoin(c)
  BY <1>1, <1>3 DEF HandleLobbyJoin, Kept
<1>4. CASE HandleCallRequest(c)
  <2>1. PICK u \in Clients : u = Head(toServer[c]).client
    BY <1>4, RequestNames DEF HandleCallRequest, Handle, IInv
  <2>2. CASE status[c] = "available" /\ status[u] = "available"
    <3>1. PICK k : k = Len(calls) + 1
      OBVIOUS
    <3>2. PICK msgs : msgs = [v \in {u} |-> Event("call_incoming", k)]
      OBVIOUS
    <3>3. /\ calls' = Append(calls, [from |-> c, to |-> u])
          /\ pending' = [pending EXCEPT ![c] = u] /\ Push(msgs) /\ UNCHANGED <<jobs, raced>>
      BY <1>4, <2>1, <2>2, <3>1, <3>2 DEF HandleCallRequest
    <3>4. \A v \in DOMAIN msgs : msgs[v].type = "call_incoming" /\ msgs[v].call = k
      BY <3>2 DEF Event
    <3>5. \A d \in Clients : Same(d) \/ (d = u /\ Hears(d, "call_incoming", k))
      <4>1. \A d : d \in DOMAIN msgs <=> d = u
        BY <3>2
      <4>2. /\ \A d \in Clients : Same(d) \/ Hears(d, "call_incoming", k)
            /\ \A d \in Clients : d \notin DOMAIN msgs => Same(d)
        BY <3>3, <3>4, PushHears
      <4> QED
        BY <4>1, <4>2
    <3>6. Rings(c, u)
      BY <3>1, <3>3, <3>5 DEF Rings
    <3> QED
      BY <3>6 DEF ServerStep
  <2>3. CASE ~(status[c] = "available" /\ status[u] = "available")
    BY <1>2, <1>4, <2>1, <2>3 DEF HandleCallRequest
  <2> QED
    BY <2>2, <2>3
<1>5. ASSUME NEW u \in Clients, pending[u] # None, NEW do, Found(do, u, c),
             UNCHANGED <<pending, toClient, calls>>
      PROVE  ServerStep
  <2>1. Kept /\ \A d \in Clients : Same(d)
    BY <1>5 DEF Kept, Same
  <2> QED
    BY <1>5, <2>1, FindStep
<1>6. CASE HandleCallAccept(c)
  <2>1. PICK u \in Clients : u = Head(toServer[c]).client
    BY <1>6, RequestNames DEF HandleCallAccept, Handle, IInv
  <2>2. pending[u] = c => pending[u] # None
    BY CallClientAssumption
  <2> QED
    BY <1>2, <1>5, <1>6, <2>1, <2>2 DEF HandleCallAccept, NotFound
<1>7. CASE HandleCallDecline(c)
  <2>1. PICK u \in Clients : u = Head(toServer[c]).client
    BY <1>7, RequestNames DEF HandleCallDecline, Handle, IInv
  <2>2. pending[u] = c => pending[u] # None
    BY CallClientAssumption
  <2>3. UNCHANGED <<pending, toClient, calls>>
    BY <1>7 DEF HandleCallDecline
  <2>4. CASE pending[u] = c
    BY <1>5, <1>7, <2>1, <2>2, <2>3, <2>4 DEF HandleCallDecline
  <2>5. CASE pending[u] # c
    BY <1>1, <1>7, <2>1, <2>3, <2>5 DEF HandleCallDecline, NotFound, Kept
  <2> QED
    BY <2>4, <2>5
<1>8. CASE HandleCallCancel(c)
  <2>1. UNCHANGED <<pending, toClient, calls>>
    BY <1>8 DEF HandleCallCancel
  <2>2. CASE pending[c] # None
    BY <1>5, <1>8, <2>1, <2>2 DEF HandleCallCancel
  <2>3. CASE pending[c] = None
    BY <1>1, <1>8, <2>1, <2>3 DEF HandleCallCancel, NotFound, Kept
  <2> QED
    BY <2>2, <2>3
<1>9. CASE HandleLobbyLeave(c)
  <2>1. UNCHANGED <<toClient, calls>>
    BY <1>9 DEF HandleLobbyLeave
  <2>2. CASE pending[c] # None
    BY <1>5, <1>9, <2>1, <2>2 DEF HandleLobbyLeave
  <2>3. CASE pending[c] = None
    <3>1. Kept
      BY <1>9, <2>1, <2>3 DEF HandleLobbyLeave, Depart, Kept
    <3> QED
      BY <1>1, <1>9, <2>1, <2>3, <3>1 DEF HandleLobbyLeave, NotFound
  <2> QED
    BY <2>2, <2>3
<1> QED
  BY <1>3, <1>4, <1>6, <1>7, <1>8, <1>9 DEF Serve

LEMMA TimeoutStep == ASSUME IInv, NEW k \in CallIds, CallTimeout(k) PROVE ServerStep
<1>1. From(k) \in Clients /\ To(k) \in Clients
  BY CallNames DEF IInv
<1>2. Kept /\ \A c \in Clients : Same(c)
  BY DEF CallTimeout, histVars, wireVars, Kept, Same
<1>3. CASE pending[From(k)] = To(k)
  <2>1. Found("expire", From(k), k) /\ pending[From(k)] # None
    BY <1>1, <1>3, CallClientAssumption DEF CallTimeout
  <2> QED
    BY <1>1, <1>2, <2>1, FindStep
<1>4. CASE pending[From(k)] # To(k)
  BY <1>2, <1>4 DEF CallTimeout, NotFound, ServerStep, Quiet
<1> QED
  BY <1>3, <1>4

LEMMA EndsStep == ASSUME IInv, Ends PROVE ServerStep
<1>1. PICK j \in jobs : StartCall(j) \/ TurnDown(j) \/ CancelPending(j) \/ CancelAndDepart(j)
  BY DEF Ends
<1>2. PICK k \in CallIds : k = j.call /\ From(k) \in Clients /\ To(k) \in Clients
  <2>1. j.call \in CallIds
    BY DEF IInv, JobsOK, GoodJobs, Jobs
  <2> QED
    BY <2>1, CallNames DEF IInv
<1>3. jobs' = jobs \ {j} /\ raced' = raced /\ calls' = calls
  BY <1>1 DEF StartCall, TurnDown, CancelPending, CancelAndDepart, Finish, histVars
<1>4. /\ Deleted(j)[From(k)] = None
      /\ \A v \in Clients : Deleted(j)[v] \in {pending[v], None}
  BY <1>2 DEF Deleted, IInv, ServerOK
<1>5. Kept /\ pending'[From(k)] = None
  <2>1. CASE pending' = Deleted(j)
    BY <1>3, <1>4, <2>1 DEF Kept
  <2>2. CASE Depart(j.by, Deleted(j))
    BY <1>2, <1>3, <1>4, <2>2 DEF Depart, Kept
  <2> QED
    BY <1>1, <2>1, <2>2 DEF StartCall, TurnDown, CancelPending, CancelAndDepart
<1>6. Takes(k)
  BY <1>2, <1>3, <1>5 DEF Takes
<1>7. CASE StartCall(j)
  <2>1. PICK msgs : msgs = [v \in {From(k), To(k)} |-> Event("call_start", k)]
    OBVIOUS
  <2>2. Push(msgs)
    BY <1>2, <1>7, <2>1 DEF StartCall
  <2>3. /\ \A v \in DOMAIN msgs : msgs[v].type = "call_start" /\ msgs[v].call = k
        /\ DOMAIN msgs = {From(k), To(k)}
    BY <2>1 DEF Event
  <2>4. /\ \A d \in Clients : Same(d) \/ Hears(d, "call_start", k)
        /\ \A d \in {From(k), To(k)} : link[d] = "up" => Hears(d, "call_start", k)
    BY <1>2, <2>2, <2>3, PushHears
  <2>5. Starts(k)
    BY <1>6, <2>4 DEF Starts
  <2> QED
    BY <2>5 DEF ServerStep
<1>8. CASE TurnDown(j)
  <2>1. PICK msgs : msgs = [v \in {From(k)} |-> Event("call_declined", k)]
    OBVIOUS
  <2>2. Push(msgs) /\ \A v \in DOMAIN msgs : msgs[v].type = "call_declined" /\ msgs[v].call = k
    BY <1>2, <1>8, <2>1 DEF TurnDown, Event
  <2>3. \A d \in Clients : Same(d) \/ Hears(d, "call_declined", k)
    BY <2>2, PushHears
  <2> QED
    BY <1>3, <1>5, <2>3 DEF ServerStep, Quiet
<1>9. CASE CancelPending(j) \/ CancelAndDepart(j)
  <2>1. PICK m : m = [Event("call_cancelled", k) EXCEPT !.named = InLobby(From(k))]
    OBVIOUS
  <2>2. m.type = "call_cancelled" /\ m.call = k
    BY <2>1 DEF Event
  <2>3. PICK msgs : msgs = [v \in {To(k)} |-> m]
    OBVIOUS
  <2>4. Push(msgs) /\ \A v \in DOMAIN msgs : msgs[v].type = "call_cancelled" /\ msgs[v].call = k
    BY <1>2, <1>9, <2>1, <2>2, <2>3 DEF CancelPending, CancelAndDepart, Cancelled
  <2>5. \A d \in Clients : Same(d) \/ Hears(d, "call_cancelled", k)
    BY <2>4, PushHears
  <2>6. Cancels(k)
    BY <1>6, <2>5 DEF Cancels
  <2> QED
    BY <2>6 DEF ServerStep
<1> QED
  BY <1>1, <1>7, <1>8, <1>9

-----------------------------------------------------------------------------
(* Every call rings once                                                   *)

LEMMA EventCalls ==
    ASSUME IInv, NEW c \in Clients, NEW i \in Queue(c)
    PROVE  /\ toClient[c][i] \in GoodEvents(c)
           /\ toClient[c][i].call \in CallIds \cup {None}
           /\ toClient[c][i].type = "call_incoming" => toClient[c][i].call \in CallsTo(c)
<1>1. toClient[c] \in Seq(GoodEvents(c))
  BY DEF IInv, WireOK
<1>2. toClient[c][i] \in GoodEvents(c)
  BY <1>1, ElementOfSeq DEF Queue
<1> QED
  BY <1>2 DEF GoodEvents, Events

LEMMA CallNumbers ==
    ASSUME HistOK
    PROVE  CallIds \subseteq Nat /\ None \notin CallIds /\ Len(calls) \in Nat /\ Len(calls) + 1 \notin CallIds
BY NoneAssumption DEF HistOK, CallIds

LEMMA NewNumbers == ASSUME HistOK' PROVE None \notin CallIds'
BY NoneAssumption DEF HistOK, CallIds

LEMMA PastSame ==
    ASSUME IInv, Grows, NEW c \in Clients, rung' = rung, missed'[c] = missed[c]
    PROVE  Past(c)' = Past(c)
BY GrowsCalls DEF IInv, HistOK, Past

LEMMA PastCalls == ASSUME IInv, NEW c \in Clients PROVE Past(c) \subseteq CallIds
BY DEF IInv, HistOK, ScreenOK, Past

\* Nothing arrives.
LEMMA NewestSame ==
    ASSUME IInv, HistOK', NEW c \in Clients, NewestAt(c), Same(c) \/ toClient'[c] = <<>>,
           Past(c)' \subseteq Past(c)
    PROVE  NewestAt(c)'
<1>1. CASE toClient'[c] = <<>>
  BY <1>1, QueueLost DEF NewestAt
<1>2. CASE Same(c)
  <2> SUFFICES ASSUME NEW j \in Queue(c), toClient[c][j].type = "call_incoming"
               PROVE  /\ \A i \in 1..(j - 1) : toClient[c][i].call \in CallIds'
                                                  => toClient[c][i].call < toClient[c][j].call
                      /\ \A k \in Past(c)' : k < toClient[c][j].call
    BY <1>2 DEF Same, NewestAt, Queue
  <2>1. ASSUME NEW i \in 1..(j - 1), toClient[c][i].call \in CallIds'
        PROVE  toClient[c][i].call < toClient[c][j].call
    <3>1. i \in Queue(c)
      <4>1. Len(toClient[c]) \in Nat
        BY DEF IInv, WireOK
      <4> QED
        BY <4>1 DEF Queue
    <3>2. toClient[c][i].call \in CallIds
      BY <2>1, <3>1, EventCalls, NewNumbers
    <3> QED
      BY <3>2 DEF NewestAt
  <2>2. \A k \in Past(c)' : k < toClient[c][j].call
    BY DEF NewestAt
  <2> QED
    BY <2>1, <2>2
<1> QED
  BY <1>1, <1>2

\* A message arrives; if it is a ring, it is for a new call.
LEMMA NewestHears ==
    ASSUME IInv, HistOK', NEW c \in Clients, NewestAt(c), NEW type, NEW k, Hears(c, type, k),
           Past(c)' = Past(c), type = "call_incoming" => k = Len(calls) + 1
    PROVE  NewestAt(c)'
<1>1. PICK m : m.type = type /\ m.call = k /\ toClient'[c] = Append(toClient[c], m)
  BY DEF Hears
<1>2. PICK n \in Nat : n = Len(toClient[c])
  BY <1>1, QueueAppend DEF IInv
<1>3. /\ Len(toClient'[c]) = n + 1 /\ toClient'[c][n + 1] = m
      /\ \A i \in 1..n : toClient'[c][i] = toClient[c][i]
  BY <1>1, <1>2, QueueAppend DEF IInv, Queue
<1>4. \A i \in 1..n : toClient[c][i].call \in CallIds' => toClient[c][i].call \in CallIds
  BY <1>2, EventCalls, NewNumbers DEF Queue
<1> SUFFICES ASSUME NEW j \in 1..(n + 1), toClient'[c][j].type = "call_incoming"
             PROVE  /\ \A i \in 1..(j - 1) : toClient'[c][i].call \in CallIds'
                                                => toClient'[c][i].call < toClient'[c][j].call
                    /\ \A p \in Past(c) : p < toClient'[c][j].call
  BY <1>3 DEF NewestAt, Queue
<1>5. CASE j = n + 1
  <2>1. toClient'[c][j].call = Len(calls) + 1
    BY <1>1, <1>3, <1>5
  <2>2. \A p \in CallIds : p < Len(calls) + 1
    BY CallNumbers DEF CallIds, IInv
  <2> QED
    BY <1>2, <1>3, <1>4, <1>5, <2>1, <2>2, PastCalls
<1>6. CASE j # n + 1
  <2>1. j \in 1..n /\ \A i \in 1..(j - 1) : i \in 1..n
    BY <1>2, <1>6
  <2> QED
    BY <1>2, <1>3, <1>4, <2>1 DEF NewestAt, Queue
<1> QED
  BY <1>5, <1>6

\* The first message is heard; at most the call it names becomes a past one.
LEMMA NewestHeard ==
    ASSUME IInv, NEW c \in Clients, NewestAt(c), toClient[c] # <<>>, calls' = calls,
           toClient'[c] = Tail(toClient[c]),
           Past(c)' \subseteq Past(c) \cup ({Head(toClient[c]).call} \cap CallIds)
    PROVE  NewestAt(c)'
<1>0. WireOK
  BY DEF IInv
<1>1. /\ \A i \in Queue(c)' : i + 1 \in Queue(c) /\ toClient'[c][i] = toClient[c][i + 1]
      /\ Head(toClient[c]) = toClient[c][1] /\ 1 \in Queue(c)
  BY <1>0, QueueTail
<1>2. CallIds' = CallIds
  BY DEF CallIds
<1> SUFFICES ASSUME NEW j \in Queue(c)', toClient'[c][j].type = "call_incoming"
             PROVE  /\ \A i \in 1..(j - 1) : toClient'[c][i].call \in CallIds
                                                => toClient'[c][i].call < toClient'[c][j].call
                    /\ \A p \in Past(c)' : p < toClient'[c][j].call
  BY <1>2 DEF NewestAt
<1>3. j \in Nat \ {0} /\ j + 1 \in Queue(c) /\ toClient'[c][j] = toClient[c][j + 1]
  BY <1>1 DEF Queue
<1>4. /\ \A i \in 1..j : toClient[c][i].call \in CallIds => toClient[c][i].call < toClient[c][j + 1].call
      /\ \A p \in Past(c) : p < toClient[c][j + 1].call
  <2>1. PICK n \in Queue(c) : n = j + 1
    BY <1>3
  <2>2. toClient[c][n].type = "call_incoming" /\ n - 1 = j
    <3>1. toClient[c][n].type = "call_incoming"
      BY Zenon, <1>3, <2>1
    <3>2. n - 1 = j
      BY <1>3, <2>1
    <3> QED
      BY <3>1, <3>2
  <2>3. /\ \A i \in 1..(n - 1) : toClient[c][i].call \in CallIds => toClient[c][i].call < toClient[c][n].call
        /\ \A p \in Past(c) : p < toClient[c][n].call
    BY <2>2 DEF NewestAt
  <2> QED
    BY <2>1, <2>2, <2>3
<1>5. ASSUME NEW i \in 1..(j - 1), toClient'[c][i].call \in CallIds
      PROVE  toClient'[c][i].call < toClient'[c][j].call
  <2>1. i \in Queue(c)' /\ i + 1 \in 1..j
    BY <1>1, <1>3 DEF Queue
  <2> QED
    BY <1>1, <1>3, <1>4, <1>5, <2>1
<1>6. Head(toClient[c]).call \in CallIds => Head(toClient[c]).call < toClient'[c][j].call
  <2>1. 1 \in 1..j
    BY <1>3
  <2> QED
    BY <1>1, <1>3, <1>4, <2>1
<1> QED
  BY <1>3, <1>4, <1>5, <1>6

\* A ring that is heard is for a call that c knows nothing of.
LEMMA FreshRing ==
    ASSUME IInv, RingsOnce, NEW c \in Clients, toClient[c] # <<>>,
           Head(toClient[c]).type = "call_incoming"
    PROVE  /\ Head(toClient[c]).call \in CallsTo(c)
           /\ Head(toClient[c]).call \notin rung /\ Head(toClient[c]).call \notin missed[c]
<1>1. Head(toClient[c]) = toClient[c][1] /\ 1 \in Queue(c)
  <2>1. toClient[c] \in Seq(GoodEvents(c)) /\ Len(toClient[c]) \in Nat \ {0}
    BY EmptySeq DEF IInv, WireOK
  <2> QED
    BY <2>1 DEF Queue
<1>2. PICK k \in CallsTo(c) : k = Head(toClient[c]).call
  BY <1>1, EventCalls
<1>3. \A p \in Past(c) : p < k
  BY <1>1, <1>2 DEF RingsOnce, NewestAt
<1>4. k \notin Past(c) /\ To(k) = c
  BY <1>3, CallNumbers DEF CallsTo, IInv
<1> QED
  BY <1>2, <1>4 DEF Past

\* Only the screen of c changes, and only c answers.
LEMMA ActsAlone ==
    ASSUME IInv, NEW c \in Clients, Buttons(c) \/ Listen(c) \/ \E k \in timers[c] : AutoDecline(c, k)
    PROVE  Only(c) /\ calls' = calls
<1> USE DEF IInv, ScreenOK, Only
<1>1. ASSUME NEW u \in Clients, CallUser(c, u) PROVE Only(c) /\ calls' = calls
  BY <1>1 DEF CallUser
<1>2. CASE CancelCall(c)
  BY <1>2 DEF CancelCall
<1>3. CASE AcceptCall(c)
  BY <1>3 DEF AcceptCall, ClearTimer
<1>4. CASE DeclineCall(c)
  BY <1>4 DEF DeclineCall, ClearTimer
<1>5. CASE SaveProfile(c)
  BY <1>5 DEF SaveProfile, screenVars
<1>6. CASE LeaveLobby(c)
  BY <1>6 DEF LeaveLobby, ClearTimer
<1>7. CASE JoinCall(c)
  BY <1>7 DEF JoinCall, ClearTimer
<1>8. CASE OnIncoming(c)
  BY <1>8 DEF OnIncoming, Hear
<1>9. CASE OnDeclined(c)
  BY <1>9 DEF OnDeclined, Hear
<1>10. CASE OnCancelled(c)
  BY <1>10 DEF OnCancelled, Hear, Book, CloseModal, ClearTimer
<1>11. CASE OnStart(c)
  BY <1>11 DEF OnStart, Hear
<1>12. CASE OnError(c)
  BY <1>12 DEF OnError, Hear, screenVars
<1>13. ASSUME NEW k \in timers[c], AutoDecline(c, k) PROVE Only(c) /\ calls' = calls
  BY <1>13 DEF AutoDecline, Book, CloseModal, histVars
<1> QED
  BY <1>1, <1>2, <1>3, <1>4, <1>5, <1>6, <1>7, <1>8, <1>9, <1>10, <1>11, <1>12, <1>13
     DEF Buttons, Listen

LEMMA RingsOthers ==
    ASSUME IInv, RingsOnce, NEW c \in Clients, NEW d \in Clients \ {c}, Only(c),
           rung \subseteq rung', answered' \subseteq answered \cup CallsTo(c)
    PROVE  RingsAt(d)' /\ missed'[d] = missed[d]
<1>1. /\ shown'[d] = shown[d] /\ callerRef'[d] = callerRef[d] /\ timer'[d] = timer[d]
      /\ timers'[d] = timers[d] /\ missed'[d] = missed[d]
  BY DEF Only, IInv, ScreenOK
<1>2. RingsAt(d) /\ None \notin CallsTo(c)
  BY CallNumbers DEF RingsOnce, IInv, CallsTo
<1>3. \A k \in CallsTo(c) : k # callerRef[d] /\ k \notin timers[d]
  <2>1. callerRef[d] \in CallsTo(d) \cup {None} /\ timers[d] \subseteq CallsTo(d)
    BY DEF IInv, OwnRings
  <2> QED
    BY <1>2, <2>1 DEF CallsTo
<1> QED
  BY <1>1, <1>2, <1>3 DEF RingsAt

\* The screens stay, and each queue gets at most one message.
LEMMA RingsServer ==
    ASSUME IInv, RingsOnce, HistOK', Grows, ServerStep, UNCHANGED <<screenVars, rung, answered>>
    PROVE  RingsOnce'
<1>1. ASSUME NEW c \in Clients PROVE NewestAt(c)'
  <2>1. Past(c)' = Past(c)
    BY PastSame DEF screenVars
  <2>2. NewestAt(c)
    BY DEF RingsOnce
  <2>3. CASE Same(c)
    BY <2>1, <2>2, <2>3, NewestSame
  <2>4. ASSUME NEW type, NEW k, Hears(c, type, k), type = "call_incoming" => k = Len(calls) + 1
        PROVE  NewestAt(c)'
    BY <2>1, <2>2, <2>4, NewestHears
  <2>5. CASE Quiet
    <3>1. \/ Same(c) \/ Hears(c, "error", None) \/ \E k \in CallIds : Hears(c, "call_declined", k)
      BY <2>5 DEF Quiet
    <3> QED
      BY <2>3, <2>4, <3>1
  <2>6. ASSUME NEW u \in Clients, NEW v \in Clients, Rings(u, v) PROVE NewestAt(c)'
    <3>1. Same(c) \/ Hears(c, "call_incoming", Len(calls) + 1)
      BY <2>6 DEF Rings
    <3> QED
      BY <2>3, <2>4, <3>1
  <2>7. ASSUME NEW k \in CallIds, Finds(k) \/ Starts(k) \/ Cancels(k) PROVE NewestAt(c)'
    <3>1. Same(c) \/ Hears(c, "call_start", k) \/ Hears(c, "call_cancelled", k)
      BY <2>7 DEF Finds, Starts, Cancels
    <3> QED
      BY <2>3, <2>4, <3>1
  <2> QED
    BY <2>5, <2>6, <2>7 DEF ServerStep
<1>2. \A c \in Clients : RingsAt(c)'
  BY DEF RingsOnce, RingsAt, screenVars
<1> QED
  BY <1>1, <1>2 DEF RingsOnce

\* A step of c that hears nothing.
LEMMA RingsAlone ==
    ASSUME IInv, RingsOnce, HistOK', Grows, NEW c \in Clients, Only(c), RingsAt(c)',
           \A d \in Clients : Same(d), rung' = rung,
           answered' \subseteq answered \cup (CallsTo(c) \cap rung), missed'[c] \subseteq missed[c] \cup rung,
           missed'[c] \subseteq CallsTo(c)
    PROVE  RingsOnce'
<1>1. ASSUME NEW d \in Clients PROVE NewestAt(d)' /\ RingsAt(d)'
  <2>1. NewestAt(d)
    BY DEF RingsOnce
  <2>2. CASE d = c
    <3>1. Past(c)' \subseteq Past(c)
      <4>1. \A k \in CallIds : To(k)' = To(k)
        BY GrowsCalls DEF IInv
      <4>2. rung \subseteq CallIds /\ missed'[c] \subseteq CallIds
        BY DEF IInv, HistOK, CallsTo
      <4> QED
        BY <4>1, <4>2 DEF Past, CallsTo
    <3> QED
      BY <2>1, <2>2, <3>1, NewestSame
  <2>3. CASE d # c
    <3>1. RingsAt(d)' /\ missed'[d] = missed[d]
      BY <2>3, RingsOthers
    <3>2. Past(d)' = Past(d)
      BY <3>1, PastSame
    <3> QED
      BY <2>1, <3>1, <3>2, NewestSame
  <2> QED
    BY <2>2, <2>3
<1> QED
  BY <1>1 DEF RingsOnce

\* A step of c that hears the first message in its queue.
LEMMA RingsHeard ==
    ASSUME IInv, RingsOnce, HistOK', Grows, NEW c \in Clients, Only(c), RingsAt(c)',
           calls' = calls, toClient[c] # <<>>, toClient' = [toClient EXCEPT ![c] = Tail(toClient[c])],
           answered' = answered, rung \subseteq rung',
           NEW k, k = Head(toClient[c]).call,
           rung' \subseteq rung \cup ({k} \cap CallsTo(c)), missed'[c] \subseteq missed[c] \cup rung \cup {k},
           missed'[c] \subseteq CallsTo(c)
    PROVE  RingsOnce'
<1>1. ASSUME NEW d \in Clients PROVE NewestAt(d)' /\ RingsAt(d)'
  <2>0. \A j : To(j)' = To(j)
    BY DEF To
  <2>1. NewestAt(d)
    BY DEF RingsOnce
  <2>2. CASE d = c
    <3>1. toClient'[c] = Tail(toClient[c])
      BY DEF IInv, WireOK
    <3>2. missed'[c] \subseteq CallIds /\ \A j \in missed'[c] : To(j) = c
      BY DEF CallsTo
    <3>3. Past(c)' \subseteq Past(c) \cup ({k} \cap CallIds)
      BY <2>0, <3>2 DEF Past, CallsTo
    <3> QED
      BY <2>1, <2>2, <3>1, <3>3, NewestHeard
  <2>3. CASE d # c
    <3>1. RingsAt(d)' /\ missed'[d] = missed[d]
      BY <2>3, RingsOthers
    <3>2. Past(d)' \subseteq Past(d)
      BY <2>0, <2>3, <3>1 DEF Past, CallsTo
    <3>3. Same(d)
      BY <2>3 DEF Same, IInv, WireOK
    <3> QED
      BY <2>1, <3>1, <3>2, <3>3, NewestSame
  <2> QED
    BY <2>2, <2>3
<1> QED
  BY <1>1 DEF RingsOnce

LEMMA RingsButtons ==
    ASSUME IInv, RingsOnce, HistOK', Grows, NEW c \in Clients, Buttons(c)
    PROVE  RingsOnce'
<1>0. /\ Only(c) /\ calls' = calls /\ rung' = rung /\ missed' = missed
      /\ \A d \in Clients : Same(d)
  <2>1. rung' = rung /\ missed' = missed /\ toClient' = toClient
    BY DEF Buttons, CallUser, CancelCall, AcceptCall, DeclineCall, SaveProfile, LeaveLobby, JoinCall,
           screenVars, wireVars
  <2> QED
    BY <2>1, ActsAlone DEF Same
<1>1. /\ RingsAt(c) /\ None \notin CallIds /\ shown[c] \in CallsTo(c) \cup {None}
      /\ missed[c] \subseteq CallsTo(c) /\ timers[c] \subseteq CallIds /\ answered \subseteq CallIds
      /\ missed[c] \subseteq CallIds
  BY CallNumbers DEF RingsOnce, IInv, OwnRings, ScreenOK, HistOK
<1>2. CASE AcceptCall(c)
  <2>1. /\ shown[c] # None /\ answered' = answered \cup {shown[c]} /\ shown' = shown
        /\ callerRef'[c] = None /\ timer'[c] = None /\ timers'[c] = timers[c] \ {timer[c]}
    BY <1>2 DEF AcceptCall, ModalOpen, ClearTimer, IInv, ScreenOK
  <2>2. shown[c] \in rung \cap CallsTo(c) /\ shown[c] \in CallIds
    BY <1>1, <2>1 DEF RingsAt, CallsTo
  <2>3. RingsAt(c)'
    BY <1>0, <1>1, <2>1, <2>2 DEF RingsAt
  <2> QED
    BY <1>0, <1>1, <2>1, <2>2, <2>3, RingsAlone
<1>3. CASE DeclineCall(c)
  <2>1. /\ answered' = answered /\ shown'[c] = None
        /\ callerRef'[c] = None /\ timer'[c] = None /\ timers'[c] = timers[c] \ {timer[c]}
    BY <1>3 DEF DeclineCall, ClearTimer, IInv, ScreenOK
  <2>2. RingsAt(c)'
    BY <1>0, <1>1, <2>1 DEF RingsAt
  <2> QED
    BY <1>0, <1>1, <2>1, <2>2, RingsAlone
<1>4. CASE LeaveLobby(c) \/ JoinCall(c)
  <2>1. /\ answered' = answered /\ shown' = shown /\ callerRef' = callerRef
        /\ timer'[c] = None /\ timers'[c] = timers[c] \ {timer[c]}
    BY <1>4 DEF LeaveLobby, JoinCall, ClearTimer, IInv, ScreenOK
  <2>2. RingsAt(c)'
    BY <1>0, <1>1, <2>1 DEF RingsAt
  <2> QED
    BY <1>0, <1>1, <2>1, <2>2, RingsAlone
<1>5. CASE ~(AcceptCall(c) \/ DeclineCall(c) \/ LeaveLobby(c) \/ JoinCall(c))
  <2>1. UNCHANGED <<shown, callerRef, timer, timers, answered>>
    BY <1>5 DEF Buttons, CallUser, CancelCall, SaveProfile, screenVars
  <2>2. RingsAt(c)'
    BY <1>0, <1>1, <2>1 DEF RingsAt
  <2> QED
    BY <1>0, <1>1, <2>1, <2>2, RingsAlone
<1> QED
  BY <1>2, <1>3, <1>4, <1>5

LEMMA RingsListen ==
    ASSUME IInv, RingsOnce, HistOK', Grows, NEW c \in Clients, Listen(c)
    PROVE  RingsOnce'
<1>0. /\ Only(c) /\ calls' = calls /\ answered' = answered /\ toClient[c] # <<>>
      /\ toClient' = [toClient EXCEPT ![c] = Tail(toClient[c])]
  <2>1. /\ answered' = answered /\ toClient[c] # <<>>
        /\ toClient' = [toClient EXCEPT ![c] = Tail(toClient[c])]
    BY DEF Listen, OnIncoming, OnDeclined, OnCancelled, OnStart, OnError, Hear
  <2> QED
    BY <2>1, ActsAlone
<1>1. /\ RingsAt(c) /\ None \notin CallIds /\ missed[c] \subseteq CallsTo(c)
      /\ callerRef[c] \in CallsTo(c) \cup {None}
      /\ missed[c] \subseteq CallIds /\ answered \subseteq CallIds /\ answered \subseteq rung
  BY CallNumbers DEF RingsOnce, IInv, OwnRings, ScreenOK, HistOK
<1>2. PICK k : k = Head(toClient[c]).call
  OBVIOUS
<1>3. CASE OnIncoming(c)
  <2>1. k \in CallsTo(c) /\ k \notin rung /\ k \notin missed[c]
    BY <1>0, <1>2, <1>3, FreshRing DEF OnIncoming, Hear
  <2>2. /\ rung' = rung \cup {k} /\ shown'[c] = k /\ callerRef'[c] = k /\ timer'[c] = k
        /\ timers'[c] = timers[c] \cup {k} /\ missed' = missed
    BY <1>2, <1>3 DEF OnIncoming, IInv, ScreenOK
  <2>3. RingsAt(c)'
    BY <1>0, <1>1, <2>1, <2>2 DEF RingsAt
  <2> QED
    BY <1>0, <1>1, <1>2, <2>1, <2>2, <2>3, RingsHeard
<1>4. CASE OnCancelled(c)
  <2>1. PICK e : e = IF callerRef[c] # None THEN callerRef[c]
                     ELSE IF Head(toClient[c]).named THEN k ELSE None
    OBVIOUS
  <2>2. Book(c, e) /\ CloseModal(c) /\ ClearTimer(c) /\ rung' = rung
    BY <1>2, <1>4, <2>1 DEF OnCancelled
  <2>3. missed'[c] \subseteq missed[c] \cup ({e} \ {None})
    BY <2>2 DEF Book, IInv, ScreenOK
  <2>4. e # None => e \in rung \cup {k} /\ e \in CallsTo(c)
    <3>1. Head(toClient[c]) \in GoodEvents(c)
      BY <1>0, Heads DEF IInv
    <3>2. Head(toClient[c]).named => k \in CallsTo(c)
      BY <1>2, <1>4, <3>1 DEF OnCancelled, Hear, GoodEvents
    <3> QED
      BY <1>1, <2>1, <3>2 DEF RingsAt
  <2>5. missed'[c] \subseteq CallsTo(c) /\ missed'[c] \subseteq missed[c] \cup rung \cup {k}
    BY <1>1, <2>3, <2>4
  <2>6. shown'[c] = None /\ callerRef'[c] = None /\ timers'[c] \subseteq timers[c]
    BY <2>2 DEF CloseModal, ClearTimer, IInv, ScreenOK
  <2>7. None \notin missed'[c] /\ None \notin timers'[c]
    BY <1>1, <2>5, <2>6 DEF CallsTo, IInv, ScreenOK
  <2>8. RingsAt(c)'
    BY <1>0, <1>1, <2>2, <2>6, <2>7 DEF RingsAt
  <2> QED
    BY <1>0, <1>1, <1>2, <2>2, <2>5, <2>8, RingsHeard
<1>5. CASE ~(OnIncoming(c) \/ OnCancelled(c))
  <2>1. UNCHANGED <<shown, callerRef, timer, timers, missed, rung>>
    BY <1>5 DEF Listen, OnDeclined, OnStart, OnError, screenVars
  <2>2. RingsAt(c)'
    BY <1>0, <1>1, <2>1 DEF RingsAt
  <2> QED
    BY <1>0, <1>1, <1>2, <2>1, <2>2, RingsHeard
<1> QED
  BY <1>3, <1>4, <1>5

LEMMA RingsNext == ASSUME IInv, RingsOnce, Next, HistOK', Grows PROVE RingsOnce'
<1>1. ASSUME NEW c \in Clients, Serve(c) PROVE RingsOnce'
  <2>1. UNCHANGED <<screenVars, rung, answered>>
    BY <1>1 DEF Serve, Handle, HandleLobbyJoin, HandleLobbyLeave, HandleCallRequest,
                HandleCallAccept, HandleCallDecline, HandleCallCancel
  <2> QED
    BY <1>1, <2>1, ServeStep, RingsServer
<1>2. ASSUME NEW k \in CallIds, CallTimeout(k) PROVE RingsOnce'
  <2>1. UNCHANGED <<screenVars, rung, answered>>
    BY <1>2 DEF CallTimeout, histVars
  <2> QED
    BY <1>2, <2>1, TimeoutStep, RingsServer
<1>5. CASE Ends
  <2>1. UNCHANGED <<screenVars, rung, answered>>
    BY <1>5 DEF Ends, StartCall, TurnDown, CancelPending, CancelAndDepart, Finish, histVars
  <2> QED
    BY <1>5, <2>1, EndsStep, RingsServer
<1>3. ASSUME NEW c \in Clients, Drop(c) \/ Reopen(c) \/ GraceOver(c) PROVE RingsOnce'
  <2>1. UNCHANGED <<screenVars, rung, answered>>
    BY <1>3 DEF Drop, Reopen, GraceOver, histVars
  <2>2. \A d \in Clients : Same(d) \/ toClient'[d] = <<>>
    BY <1>3 DEF Drop, Reopen, GraceOver, wireVars, Same, IInv, WireOK
  <2>3. \A d \in Clients : NewestAt(d)'
    BY <2>1, <2>2, PastSame, NewestSame DEF RingsOnce, screenVars
  <2> QED
    BY <2>1, <2>3 DEF RingsOnce, RingsAt, screenVars
<1>4. ASSUME NEW c \in Clients, NEW k \in timers[c], AutoDecline(c, k) PROVE RingsOnce'
  <2>1. /\ Only(c) /\ calls' = calls /\ rung' = rung /\ answered' = answered
        /\ \A d \in Clients : Same(d)
    BY <1>4, ActsAlone DEF AutoDecline, histVars, Same
  <2>2. /\ RingsAt(c) /\ None \notin CallIds /\ missed[c] \subseteq CallsTo(c)
        /\ timers[c] \subseteq CallsTo(c) /\ timers[c] \subseteq CallIds
    BY CallNumbers DEF RingsOnce, IInv, OwnRings, ScreenOK
  <2>3. missed'[c] \subseteq missed[c] \cup {k}
    BY <1>4 DEF AutoDecline, Book, IInv, ScreenOK
  <2>4. k \in CallsTo(c) /\ k \in rung
    BY <2>2 DEF RingsAt
  <2>5. shown'[c] = None /\ callerRef'[c] = None /\ timers'[c] \subseteq timers[c]
    BY <1>4 DEF AutoDecline, CloseModal, IInv, ScreenOK
  <2>6. None \notin missed'[c] /\ None \notin timers'[c] /\ None \notin answered
    BY <2>2, <2>3, <2>4, <2>5, CallNumbers DEF CallsTo, IInv, HistOK
  <2>7. RingsAt(c)'
    BY <2>1, <2>2, <2>5, <2>6 DEF RingsAt
  <2> QED
    BY <2>1, <2>2, <2>3, <2>4, <2>7, RingsAlone
<1> QED
  BY <1>1, <1>2, <1>3, <1>4, <1>5, RingsButtons, RingsListen DEF Next, Timers

-----------------------------------------------------------------------------
(* A call starts or is cancelled, not both                                 *)

LEMMA OutcomeKept ==
    ASSUME OneOutcome, CallIds' = CallIds, jobs' \subseteq jobs, raced' = raced,
           \A k \in CallIds : /\ Started(k)' => Started(k)
                              /\ Ended(k)' => Ended(k)
                              /\ Live(k)' => Live(k)
    PROVE  OneOutcome'
BY DEF OneOutcome, InHand

LEMMA LiveKept ==
    ASSUME IInv, Kept
    PROVE  CallIds' = CallIds /\ \A k \in CallIds : From(k)' = From(k) /\ (Live(k)' => Live(k))
<1>1. CallIds' = CallIds /\ \A k : From(k)' = From(k)
  BY DEF Kept, CallIds, From
<1>2. ASSUME NEW k \in CallIds, Live(k)' PROVE Live(k)
  <2>1. From(k) \in Clients /\ pending'[From(k)] # None
    BY <1>1, <1>2, CallNames DEF Live, IInv
  <2>2. IsLatest(From(k), k)
    BY <1>1, <1>2 DEF Live, IsLatest
  <2> QED
    BY <2>1, <2>2 DEF Live, Kept
<1> QED
  BY <1>1, <1>2

\* What a queue can hold after a step that adds at most one message.
LEMMA QueueStep ==
    ASSUME WireOK, NEW c \in Clients, NEW type, NEW j, Same(c) \/ Hears(c, type, j)
    PROVE  \A t, k : InQueue(t, c, k)' => InQueue(t, c, k) \/ (t = type /\ k = j)
<1>1. CASE Same(c)
  BY <1>1 DEF Same, InQueue, Queue
<1>2. CASE Hears(c, type, j)
  <2>1. PICK m : m.type = type /\ m.call = j /\ toClient'[c] = Append(toClient[c], m)
    BY <1>2 DEF Hears
  <2>2. \A t, k : InQueue(t, c, k)' <=> InQueue(t, c, k) \/ (m.type = t /\ m.call = k)
    BY <2>1, QueueAppend
  <2> QED
    BY <2>1, <2>2
<1> QED
  BY <1>1, <1>2

\* A live call is found; if it was in hand already, two handlers have it now.
LEMMA OutcomeFinds ==
    ASSUME IInv, OneOutcome, NEW x \in CallIds, Finds(x), UNCHANGED <<room, missed, answered>>
    PROVE  OneOutcome'
<1>1. Kept /\ Live(x) /\ \A c \in Clients : Same(c)
  BY DEF Finds
<1>2. CallIds' = CallIds /\ \A k \in CallIds : Live(k)' => Live(k)
  BY <1>1, LiveKept
<1>3. \A k : (Started(k)' => Started(k)) /\ (Ended(k)' => Ended(k))
  BY <1>1 DEF Started, Ended, InQueue, Queue, Same
<1>4. PICK n : n.call = x /\ jobs' = jobs \cup {n}
  BY DEF Finds
<1>5. raced \subseteq raced' /\ (InHand(x) => x \in raced')
  BY DEF Finds, InHand
<1> SUFFICES ASSUME NEW k \in CallIds \ raced'
             PROVE  /\ ~(Started(k)' /\ Ended(k)')
                    /\ Live(k)' \/ InHand(k)' => ~Started(k)' /\ ~Ended(k)'
                    /\ \A i, j \in jobs' : i.call = k /\ j.call = k => i = j
  BY <1>2 DEF OneOutcome
<1>6. /\ ~(Started(k) /\ Ended(k))
      /\ Live(k) \/ InHand(k) => ~Started(k) /\ ~Ended(k)
      /\ \A i, j \in jobs : i.call = k /\ j.call = k => i = j
  BY <1>5 DEF OneOutcome
<1>7. CASE k = x
  <2>1. ~Started(k) /\ ~Ended(k) /\ ~InHand(k)
    BY <1>1, <1>5, <1>6, <1>7
  <2>2. \A i \in jobs : i.call # k
    BY <2>1 DEF InHand
  <2> QED
    BY <1>3, <1>4, <2>1, <2>2
<1>8. CASE k # x
  <2>1. InHand(k)' => InHand(k)
    BY <1>4, <1>8 DEF InHand
  <2>2. \A i, j \in jobs' : i.call = k /\ j.call = k => i = j
    BY <1>4, <1>6, <1>8
  <2> QED
    BY <1>2, <1>3, <1>6, <2>1, <2>2
<1> QED
  BY <1>7, <1>8

\* The step of an answer, a cancel or a timer: one outcome for a call in one hand.
LEMMA OutcomeEnds ==
    ASSUME IInv, OneOutcome, NEW x \in CallIds, Starts(x) \/ Cancels(x),
           UNCHANGED <<room, missed, answered>>
    PROVE  OneOutcome'
<1>1. Kept /\ pending'[From(x)] = None /\ raced' = raced
  BY DEF Starts, Cancels, Takes
<1>2. /\ CallIds' = CallIds
      /\ \A k \in CallIds : From(k)' = From(k) /\ (Live(k)' => Live(k))
  BY <1>1, LiveKept
<1>3. ~Live(x)'
  BY <1>1, <1>2 DEF Live
<1>4. PICK n \in jobs : n.call = x /\ jobs' = jobs \ {n}
  BY DEF Starts, Cancels, Takes
<1>5. \/ /\ \A k : Ended(k)' => Ended(k)
         /\ \A k : Started(k)' => Started(k) \/ k = x
      \/ /\ \A k : Started(k)' => Started(k)
         /\ \A k : Ended(k)' => Ended(k) \/ k = x
  <2>1. CASE Starts(x)
    <3>1. \A c \in Clients : \A t, k : InQueue(t, c, k)' => InQueue(t, c, k) \/ (t = "call_start" /\ k = x)
      BY <2>1, QueueStep DEF Starts, IInv
    <3> QED
      BY <3>1 DEF Started, Ended
  <2>2. CASE Cancels(x)
    <3>1. \A c \in Clients : \A t, k : InQueue(t, c, k)' => InQueue(t, c, k) \/ (t = "call_cancelled" /\ k = x)
      BY <2>2, QueueStep DEF Cancels, IInv
    <3> QED
      BY <3>1 DEF Started, Ended
  <2> QED
    BY <2>1, <2>2
<1> SUFFICES ASSUME NEW k \in CallIds \ raced
             PROVE  /\ ~(Started(k)' /\ Ended(k)')
                    /\ Live(k)' \/ InHand(k)' => ~Started(k)' /\ ~Ended(k)'
                    /\ \A i, j \in jobs' : i.call = k /\ j.call = k => i = j
  BY <1>1, <1>2 DEF OneOutcome
<1>6. /\ ~(Started(k) /\ Ended(k))
      /\ Live(k) \/ InHand(k) => ~Started(k) /\ ~Ended(k)
      /\ \A i, j \in jobs : i.call = k /\ j.call = k => i = j
  BY DEF OneOutcome
<1>7. InHand(k)' => InHand(k)
  BY <1>4 DEF InHand
<1>8. CASE k = x
  <2>1. ~Started(k) /\ ~Ended(k)
    BY <1>4, <1>6, <1>8 DEF InHand
  <2>2. ~InHand(k)'
    BY <1>4, <1>6, <1>8 DEF InHand
  <2> QED
    BY <1>3, <1>4, <1>5, <1>6, <1>8, <2>1, <2>2
<1>9. CASE k # x
  BY <1>2, <1>4, <1>5, <1>6, <1>7, <1>9
<1> QED
  BY <1>8, <1>9

LEMMA OutcomeQuiet ==
    ASSUME IInv, OneOutcome, Quiet, UNCHANGED <<room, missed, answered>>
    PROVE  OneOutcome'
<1>1. /\ CallIds' = CallIds
      /\ \A k \in CallIds : From(k)' = From(k) /\ (Live(k)' => Live(k))
  BY LiveKept DEF Quiet
<1>2. ASSUME NEW c \in Clients, NEW k, NEW t \in {"call_start", "call_cancelled"}, InQueue(t, c, k)'
      PROVE  InQueue(t, c, k)
  <2>1. CASE Same(c) \/ Hears(c, "error", None)
    BY <1>2, <2>1, QueueStep DEF IInv
  <2>2. ASSUME NEW j \in CallIds, Hears(c, "call_declined", j) PROVE InQueue(t, c, k)
    BY <1>2, <2>2, QueueStep DEF IInv
  <2> QED
    BY <2>1, <2>2 DEF Quiet
<1>3. \A k \in CallIds : (Started(k)' => Started(k)) /\ (Ended(k)' => Ended(k))
  BY <1>2 DEF Started, Ended
<1> QED
  BY <1>1, <1>3, OutcomeKept DEF Quiet

\* A new call has no outcome yet.
LEMMA OutcomeRings ==
    ASSUME IInv, OneOutcome, NEW u \in Clients, NEW v \in Clients, Rings(u, v),
           UNCHANGED <<room, missed, answered>>
    PROVE  OneOutcome'
<1>0. PICK n \in Nat : n = Len(calls) + 1 /\ n \notin CallIds /\ n # None
  BY CallNumbers, NoneAssumption DEF IInv
<1>1. /\ CallIds' = CallIds \cup {n} /\ n \in CallIds' /\ From(n)' = u
      /\ \A j \in CallIds : From(j)' = From(j) /\ j <= n /\ j # n
  BY <1>0, NewCall DEF Rings, IInv
<1>2. \A c \in Clients : \A t, k : InQueue(t, c, k)' => InQueue(t, c, k) \/ t = "call_incoming"
  BY QueueStep DEF Rings, IInv
<1>3. \A k : (Started(k)' => Started(k)) /\ (Ended(k)' => Ended(k))
  BY <1>2 DEF Started, Ended
<1>4. ASSUME NEW k \in CallIds, Live(k)' PROVE Live(k)
  <2>1. From(k) # u
    <3>1. From(k) = u => n <= k
      BY <1>1, <1>4 DEF Live, IsLatest
    <3> QED
      BY <1>0, <1>1, <3>1, CallNumbers DEF IInv
  <2>2. pending[From(k)] # None
    <3>1. From(k) \in Clients /\ From(k)' = From(k)
      BY <1>1, CallNames DEF IInv
    <3>2. pending'[From(k)] = pending[From(k)]
      BY <2>1, <3>1 DEF Rings, IInv, ServerOK
    <3> QED
      BY <1>4, <3>1, <3>2 DEF Live
  <2>3. IsLatest(From(k), k)
    BY <1>1, <1>4 DEF Live, IsLatest
  <2> QED
    BY <2>2, <2>3 DEF Live
<1>5. ~Started(n)' /\ ~Ended(n)'
  <2>1. ASSUME NEW c \in Clients PROVE room[c] # n /\ n \notin answered /\ \A t : ~InQueue(t, c, n)
    <3>1. room[c] # n /\ n \notin answered
      BY <1>0 DEF IInv, ScreenOK, Maybe, HistOK
    <3>2. ASSUME NEW i \in Queue(c) PROVE toClient[c][i].call # n
      BY <1>0, EventCalls
    <3> QED
      BY <3>1, <3>2 DEF InQueue
  <2> QED
    BY <1>3, <2>1 DEF Started, Ended
<1>6. UNCHANGED <<jobs, raced>> /\ \A j \in jobs : j.call # n
  <2>1. \A j \in jobs : j.call \in CallIds
    BY DEF IInv, JobsOK, GoodJobs, Jobs
  <2> QED
    BY <1>0, <2>1 DEF Rings
<1> SUFFICES ASSUME NEW k \in CallIds' \ raced
             PROVE  /\ ~(Started(k)' /\ Ended(k)')
                    /\ Live(k)' \/ InHand(k)' => ~Started(k)' /\ ~Ended(k)'
                    /\ \A i, j \in jobs' : i.call = k /\ j.call = k => i = j
  BY <1>6 DEF OneOutcome
<1>7. CASE k = n
  BY <1>5, <1>6, <1>7
<1>8. CASE k # n
  <2>1. k \in CallIds \ raced /\ (InHand(k)' => InHand(k))
    BY <1>1, <1>6, <1>8 DEF InHand
  <2>2. /\ ~(Started(k) /\ Ended(k))
        /\ Live(k) \/ InHand(k) => ~Started(k) /\ ~Ended(k)
        /\ \A i, j \in jobs : i.call = k /\ j.call = k => i = j
    BY <2>1 DEF OneOutcome
  <2> QED
    BY <1>3, <1>4, <1>6, <2>1, <2>2
<1> QED
  BY <1>7, <1>8

LEMMA OutcomeServer ==
    ASSUME IInv, OneOutcome, ServerStep, UNCHANGED <<room, missed, answered>>
    PROVE  OneOutcome'
BY OutcomeQuiet, OutcomeRings, OutcomeFinds, OutcomeEnds DEF ServerStep

\* A step that brings no message to c; what it accepts is not booked, what it
\* books is not accepted or was cancelled, and its room is for a call that started.
LEMMA OutcomeAlone ==
    ASSUME IInv, OneOutcome, NEW c \in Clients, Only(c), calls' = calls,
           UNCHANGED <<pending, jobs, raced>>,
           \A d \in Clients : \A t, k : InQueue(t, d, k)' => InQueue(t, d, k),
           \A k \in CallIds : room'[c] = k => Started(k),
           \A k \in CallIds : k \in answered' \cap missed'[c] => Ended(k),
           \A k \in CallIds : k \in answered' => k \in answered \cup CallsTo(c)
    PROVE  OneOutcome'
<1>1. CallIds' = CallIds /\ \A k \in CallIds : Live(k)' => Live(k)
  <2>1. Kept
    BY DEF Kept
  <2> QED
    BY <2>1, LiveKept
<1>2. \A d \in Clients \ {c} : room'[d] = room[d] /\ missed'[d] = missed[d]
  BY DEF Only, IInv, ScreenOK
<1>3. ASSUME NEW k \in CallIds, Started(k)' PROVE Started(k)
  BY <1>2, <1>3 DEF Started
<1>4. ASSUME NEW k \in CallIds, Ended(k)' PROVE Ended(k)
  <2>1. PICK d \in Clients : InQueue("call_cancelled", d, k)' \/ k \in answered' \cap missed'[d]
    BY <1>4 DEF Ended
  <2>2. CASE InQueue("call_cancelled", d, k)'
    BY <2>2 DEF Ended
  <2>3. CASE k \in answered' \cap missed'[d]
    <3>1. CASE d = c
      <4>1. k \in answered' \cap missed'[c]
        BY <2>3, <3>1
      <4> QED
        BY <4>1
    <3>2. CASE d # c
      <4>1. k \in missed[d] /\ To(k) = d
        BY <1>2, <2>3, <3>2 DEF IInv, OwnRings, CallsTo
      <4>2. k \in answered
        BY <2>3, <3>2, <4>1 DEF CallsTo
      <4> QED
        BY <4>1, <4>2 DEF Ended
    <3> QED
      BY <3>1, <3>2
  <2> QED
    BY <2>1, <2>2, <2>3
<1> QED
  BY <1>1, <1>3, <1>4, OutcomeKept

\* The messages of a queue that loses its first one, or all.
LEMMA QueueShrinks ==
    ASSUME WireOK, NEW c \in Clients,
           \/ toClient[c] # <<>> /\ toClient' = [toClient EXCEPT ![c] = Tail(toClient[c])]
           \/ toClient' = [toClient EXCEPT ![c] = <<>>]
           \/ toClient' = toClient
    PROVE  \A d \in Clients : \A t, k : InQueue(t, d, k)' => InQueue(t, d, k)
<1>1. ASSUME NEW d \in Clients, toClient'[d] = toClient[d]
      PROVE  \A t, k : InQueue(t, d, k)' => InQueue(t, d, k)
  BY <1>1 DEF InQueue, Queue
<1>2. \A d \in Clients \ {c} : toClient'[d] = toClient[d]
  BY DEF WireOK
<1>3. \A t, k : InQueue(t, c, k)' => InQueue(t, c, k)
  <2>1. CASE toClient[c] # <<>> /\ toClient' = [toClient EXCEPT ![c] = Tail(toClient[c])]
    <3>1. toClient'[c] = Tail(toClient[c])
      BY <2>1 DEF WireOK
    <3> QED
      BY <2>1, <3>1, QueueTail
  <2>2. CASE toClient' = [toClient EXCEPT ![c] = <<>>]
    <3>1. toClient'[c] = <<>>
      BY <2>2 DEF WireOK
    <3> QED
      BY <3>1, QueueLost
  <2>3. CASE toClient' = toClient
    BY <1>1, <2>3
  <2> QED
    BY <2>1, <2>2, <2>3
<1> QED
  BY <1>1, <1>2, <1>3

\* The first message is in the queue.
LEMMA HeadInQueue ==
    ASSUME WireOK, NEW c \in Clients, toClient[c] # <<>>
    PROVE  InQueue(Head(toClient[c]).type, c, Head(toClient[c]).call)
<1>1. toClient[c] \in Seq(GoodEvents(c)) /\ Len(toClient[c]) \in Nat \ {0}
  BY EmptySeq DEF WireOK
<1>2. Head(toClient[c]) = toClient[c][1] /\ 1 \in Queue(c)
  BY <1>1 DEF Queue
<1> QED
  BY <1>2 DEF InQueue

LEMMA OutcomeButtons ==
    ASSUME IInv, OneOutcome, RingsOnce, NEW c \in Clients, Buttons(c)
    PROVE  OneOutcome'
<1>0. Only(c) /\ calls' = calls
  BY ActsAlone
<1>1. UNCHANGED <<missed, room, pending, jobs, raced, toClient>>
  BY DEF Buttons, CallUser, CancelCall, AcceptCall, DeclineCall, SaveProfile, LeaveLobby, JoinCall,
         screenVars, wireVars, serverVars
<1>2. \A d \in Clients : \A t, k : InQueue(t, d, k)' => InQueue(t, d, k)
  BY <1>1 DEF InQueue, Queue
<1>3. \/ answered' = answered
      \/ shown[c] # None /\ answered' = answered \cup {shown[c]}
  BY DEF Buttons, CallUser, CancelCall, AcceptCall, DeclineCall, SaveProfile, LeaveLobby, JoinCall,
         ModalOpen
<1>4. shown[c] \in CallsTo(c) \cup {None} /\ shown[c] \notin missed[c]
  BY DEF IInv, OwnRings, RingsOnce, RingsAt
<1>5. \A k \in CallIds : room'[c] = k => Started(k)
  BY <1>1 DEF Started
<1>6. \A k \in CallIds : k \in answered' \cap missed'[c] => Ended(k)
  BY <1>1, <1>3, <1>4 DEF Ended
<1>7. \A k \in CallIds : k \in answered' => k \in answered \cup CallsTo(c)
  BY <1>3, <1>4
<1> QED
  BY <1>0, <1>1, <1>2, <1>5, <1>6, <1>7, OutcomeAlone

LEMMA OutcomeListen ==
    ASSUME IInv, OneOutcome, RingsOnce, NEW c \in Clients, Listen(c)
    PROVE  OneOutcome'
<1>0. Only(c) /\ calls' = calls
  BY ActsAlone
<1>1. /\ answered' = answered /\ UNCHANGED <<pending, jobs, raced>> /\ toClient[c] # <<>>
      /\ toClient' = [toClient EXCEPT ![c] = Tail(toClient[c])]
  BY DEF Listen, OnIncoming, OnDeclined, OnCancelled, OnStart, OnError, Hear, serverVars
<1>2. \A d \in Clients : \A t, k : InQueue(t, d, k)' => InQueue(t, d, k)
  BY <1>1, QueueShrinks DEF IInv
<1>3. PICK h : h = Head(toClient[c]) /\ InQueue(h.type, c, h.call)
  BY <1>1, HeadInQueue DEF IInv
<1>4. \A k \in CallIds : k \in answered' => k \in answered \cup CallsTo(c)
  BY <1>1
<1>5. \A k \in CallIds : room'[c] = k => Started(k)
  <2>1. CASE OnStart(c)
    <3>1. room'[c] = h.call /\ h.type = "call_start"
      BY <1>3, <2>1 DEF OnStart, Hear, IInv, ScreenOK
    <3> QED
      BY <1>3, <3>1 DEF Started
  <2>2. CASE ~OnStart(c)
    <3>1. room' = room
      BY <2>2 DEF Listen, OnIncoming, OnDeclined, OnCancelled, OnError, screenVars
    <3> QED
      BY <3>1 DEF Started
  <2> QED
    BY <2>1, <2>2
<1>6. \A k \in CallIds : k \in answered' \cap missed'[c] => Ended(k)
  <2>1. CASE OnCancelled(c)
    <3>1. h.type = "call_cancelled" /\ callerRef[c] \notin answered
      BY <1>3, <2>1 DEF OnCancelled, Hear, RingsOnce, RingsAt
    <3>2. PICK e : e = IF callerRef[c] # None THEN callerRef[c]
                       ELSE IF h.named THEN h.call ELSE None
      OBVIOUS
    <3>3. Book(c, e)
      BY <1>3, <2>1, <3>2 DEF OnCancelled
    <3>4. missed'[c] \subseteq missed[c] \cup {e}
      BY <3>3 DEF Book, IInv, ScreenOK
    <3>5. \A k \in CallIds : k = e => k \notin answered \/ k = h.call
      BY <3>1, <3>2, CallNumbers DEF IInv
    <3> QED
      BY <1>1, <1>3, <3>1, <3>4, <3>5 DEF Ended
  <2>2. CASE ~OnCancelled(c)
    <3>1. missed' = missed
      BY <2>2 DEF Listen, OnIncoming, OnDeclined, OnStart, OnError, screenVars
    <3> QED
      BY <1>1, <3>1 DEF Ended
  <2> QED
    BY <2>1, <2>2
<1> QED
  BY <1>0, <1>1, <1>2, <1>4, <1>5, <1>6, OutcomeAlone

LEMMA OutcomeNext == ASSUME IInv, RingsOnce, OneOutcome, Next PROVE OneOutcome'
<1>1. ASSUME NEW c \in Clients, Serve(c) PROVE OneOutcome'
  <2>1. UNCHANGED <<room, missed, answered>>
    BY <1>1 DEF Serve, Handle, HandleLobbyJoin, HandleLobbyLeave, HandleCallRequest,
                HandleCallAccept, HandleCallDecline, HandleCallCancel, screenVars
  <2> QED
    BY <1>1, <2>1, ServeStep, OutcomeServer
<1>2. ASSUME NEW k \in CallIds, CallTimeout(k) PROVE OneOutcome'
  <2>1. UNCHANGED <<room, missed, answered>>
    BY <1>2 DEF CallTimeout, histVars, screenVars
  <2> QED
    BY <1>2, <2>1, TimeoutStep, OutcomeServer
<1>5. CASE Ends
  <2>1. UNCHANGED <<room, missed, answered>>
    BY <1>5 DEF Ends, StartCall, TurnDown, CancelPending, CancelAndDepart, Finish, histVars, screenVars
  <2> QED
    BY <1>5, <2>1, EndsStep, OutcomeServer
<1>3. ASSUME NEW c \in Clients, Drop(c) \/ Reopen(c) \/ GraceOver(c) PROVE OneOutcome'
  <2>1. UNCHANGED <<calls, pending, jobs, raced, answered>> /\ UNCHANGED screenVars /\ page' = page
    BY <1>3 DEF Drop, Reopen, GraceOver, histVars, serverVars
  <2>2. Only(c) /\ UNCHANGED <<room, missed>>
    BY <2>1 DEF Only, screenVars, IInv, ScreenOK
  <2>3. \A d \in Clients : \A t, k : InQueue(t, d, k)' => InQueue(t, d, k)
    BY <1>3, QueueShrinks DEF Drop, Reopen, GraceOver, wireVars, IInv
  <2>4. \A k \in CallIds : room'[c] = k => Started(k)
    BY <2>2 DEF Started
  <2>5. \A k \in CallIds : k \in answered' \cap missed'[c] => Ended(k)
    BY <2>1, <2>2 DEF Ended
  <2> QED
    BY <2>1, <2>2, <2>3, <2>4, <2>5, OutcomeAlone
<1>4. ASSUME NEW c \in Clients, NEW k \in timers[c], AutoDecline(c, k) PROVE OneOutcome'
  <2>1. /\ Only(c) /\ calls' = calls /\ UNCHANGED <<room, pending, jobs, raced, answered, toClient>>
    BY <1>4, ActsAlone DEF AutoDecline, histVars, serverVars
  <2>2. missed'[c] \subseteq missed[c] \cup {k} /\ k \notin answered
    BY <1>4 DEF AutoDecline, Book, IInv, ScreenOK, RingsOnce, RingsAt
  <2>3. \A d \in Clients : \A t, j : InQueue(t, d, j)' => InQueue(t, d, j)
    BY <2>1 DEF InQueue, Queue
  <2>4. \A j \in CallIds : room'[c] = j => Started(j)
    BY <2>1 DEF Started
  <2>5. \A j \in CallIds : j \in answered' \cap missed'[c] => Ended(j)
    BY <2>1, <2>2 DEF Ended
  <2> QED
    BY <2>1, <2>3, <2>4, <2>5, OutcomeAlone
<1> QED
  BY <1>1, <1>2, <1>3, <1>4, <1>5, OutcomeButtons, OutcomeListen DEF Next, Timers

LEMMA InitOutcome == Init => RingsOnce /\ OneOutcome
BY DEF Init, RingsOnce, NewestAt, RingsAt, Queue, OneOutcome, CallIds

CallInv == IInv /\ RingsOnce /\ OneOutcome

LEMMA NextCallInv == CallInv /\ [Next]_vars => CallInv'
<1> SUFFICES ASSUME CallInv, [Next]_vars PROVE CallInv'
  OBVIOUS
<1> USE DEF CallInv
<1>1. CASE Next
  BY <1>1, NextInv, HistNext, RingsNext, OutcomeNext
<1>2. CASE UNCHANGED vars
  <2>1. IInv'
    BY <1>2, NextInv
  <2>2. UNCHANGED <<toClient, calls, pending, jobs, raced, rung, answered, shown, callerRef, timer, timers, missed, room>>
    BY <1>2 DEF vars, serverVars, wireVars, screenVars, histVars
  <2>3. RingsOnce'
    BY <2>2 DEF RingsOnce, NewestAt, RingsAt, Past, Queue, CallIds, To
  <2>4. OneOutcome'
    BY <2>2 DEF OneOutcome, Started, Ended, InHand, Live, IsLatest, InQueue, Queue, CallIds, From
  <2> QED
    BY <2>1, <2>3, <2>4
<1> QED
  BY <1>1, <1>2

\* A call rings once, and a call that one handler at a time has found starts or is
\* cancelled, never both: the pending entry of the server decides between the
\* answer and the cancel (lobby_handlers.go), and no timer or second ring of
\* useCall.ts undoes it.  For a call in two hands nothing is said.
THEOREM OutcomesHold == Spec => []CallInv
<1>1. Init => CallInv
  BY InitInv, InitOutcome DEF CallInv
<1> QED
  BY <1>1, NextCallInv, PTL DEF Spec

\* A call that was accepted by hand and became a room is not among the missed
\* calls (useCall.ts), whichever of the answer, the cancel and the two 30 s
\* timers comes first, unless a handler found the call while another one had it.
THEOREM AcceptedIsNotMissed == Spec => []AcceptedNotMissed
<1>1. CallInv => AcceptedNotMissed
  <2> SUFFICES ASSUME CallInv, NEW c \in Clients, room[c] \in answered \ raced,
                      room[c] \in missed[c]
               PROVE  FALSE
    BY DEF AcceptedNotMissed
  <2>1. room[c] \in CallIds
    BY DEF CallInv, IInv, HistOK
  <2>2. Started(room[c]) /\ Ended(room[c])
    BY DEF Started, Ended
  <2> QED
    BY <2>1, <2>2 DEF CallInv, OneOutcome
<1> QED
  BY <1>1, OutcomesHold, PTL

-----------------------------------------------------------------------------
(* Nobody waits alone                                                      *)

Gone(o) == o \in lost \/ page[o] = "left"
Leaving(c) == \E i \in 1..Len(toServer[c]) : toServer[c][i].type = "lobby_leave"

\* A connection is only closed under a browser that lost it or has left, and
\* only one that has left is not in the lobby.
Links ==
    \A c \in Clients :
        /\ link[c] = "down" => Gone(c)
        /\ status[c] = "none" => page[c] = "left"
        /\ Leaving(c) => page[c] = "left"
        /\ \A j \in jobs : j.do = "leave" /\ j.by = c => page[c] = "left"

Bound(c, k) == room[c] = k \/ InQueue("call_start", c, k)
Arrived(o, k) == room[o] # None \/ InQueue("call_start", o, k) \/ Gone(o)

Together ==
    \A k \in CallIds, c \in Clients : \A o \in {From(k), To(k)} \ {c} : Bound(c, k) => Arrived(o, k)

\* Who has left has left for good, and so has a lost connection.
LEMMA GoneNext ==
    ASSUME IInv, Next, NEW o \in Clients
    PROVE  (page[o] = "left" => page'[o] = "left") /\ (Gone(o) => Gone(o)')
<1> USE DEF IInv, ScreenOK
<1>1. ASSUME NEW c \in Clients, Buttons(c)
      PROVE  lost' = lost /\ (page[o] = "left" => page'[o] = "left")
  <2>1. lost' = lost
    BY <1>1 DEF Buttons, CallUser, CancelCall, AcceptCall, DeclineCall, SaveProfile, LeaveLobby, JoinCall
  <2>2. page' = page \/ (page[c] = "lobby" /\ page' = [page EXCEPT ![c] = "room"])
                     \/ page' = [page EXCEPT ![c] = "left"]
    BY <1>1 DEF Buttons, CallUser, CancelCall, AcceptCall, DeclineCall, SaveProfile, LeaveLobby, JoinCall,
                Click
  <2> QED
    BY <2>1, <2>2
<1>2. CASE \A c \in Clients : ~Buttons(c)
  <2>1. ASSUME NEW c \in Clients, Listen(c) \/ Serve(c) PROVE page' = page /\ lost' = lost
    BY <2>1 DEF Listen, OnIncoming, OnDeclined, OnCancelled, OnStart, OnError, Hear,
                Serve, Handle, HandleLobbyJoin, HandleLobbyLeave, HandleCallRequest,
                HandleCallAccept, HandleCallDecline, HandleCallCancel
  <2>2. ASSUME NEW c \in Clients, Drop(c) \/ Reopen(c) \/ GraceOver(c)
        PROVE  page' = page /\ lost \subseteq lost'
    BY <2>2 DEF Drop, Reopen, GraceOver, histVars
  <2>3. CASE Timers \/ Ends
    BY <2>3 DEF Timers, CallTimeout, AutoDecline, histVars, Gone,
                Ends, StartCall, TurnDown, CancelPending, CancelAndDepart, Finish
  <2> QED
    BY <1>2, <2>1, <2>2, <2>3 DEF Next, Gone
<1> QED
  BY <1>1, <1>2 DEF Gone

LEMMA LeavingSend ==
    ASSUME WireOK, NEW c \in Clients, NEW m, Send(c, m), NEW d \in Clients, Leaving(d)'
    PROVE  Leaving(d) \/ (d = c /\ m.type = "lobby_leave")
<1>1. toServer'[d] = toServer[d] \/ (d = c /\ toServer'[d] = Append(toServer[d], m))
  BY DEF Send, WireOK
<1>2. CASE toServer'[d] = toServer[d]
  BY <1>2 DEF Leaving
<1>3. CASE d = c /\ toServer'[d] = Append(toServer[d], m)
  <2>1. PICK S : S = GoodRequests(d) \cup {m}
    OBVIOUS
  <2>2. toServer[d] \in Seq(S) /\ m \in S
    BY <2>1, SeqMono DEF WireOK
  <2>3. PICK n \in Nat : n = Len(toServer[d])
    BY <2>2
  <2>4. /\ Len(toServer'[d]) = n + 1 /\ toServer'[d][n + 1] = m
        /\ \A i \in 1..n : toServer'[d][i] = toServer[d][i]
    BY <1>3, <2>2, <2>3, AppendProperties
  <2>5. PICK i \in 1..(n + 1) : toServer'[d][i].type = "lobby_leave"
    BY <2>4 DEF Leaving
  <2>6. CASE i = n + 1
    BY <1>3, <2>4, <2>5, <2>6
  <2>7. CASE i # n + 1
    <3>1. i \in 1..n /\ toServer[d][i].type = "lobby_leave"
      BY <2>3, <2>4, <2>5, <2>7
    <3> QED
      BY <2>3, <3>1 DEF Leaving
  <2> QED
    BY <2>6, <2>7
<1> QED
  BY <1>1, <1>2, <1>3

LEMMA LeavingTail ==
    ASSUME WireOK, NEW c \in Clients, toServer[c] # <<>>,
           toServer'[c] = Tail(toServer[c]), \A d \in Clients \ {c} : toServer'[d] = toServer[d]
    PROVE  /\ \A d \in Clients : Leaving(d)' => Leaving(d)
           /\ Head(toServer[c]).type = "lobby_leave" => Leaving(c)
<1>1. toServer[c] \in Seq(GoodRequests(c))
  BY DEF WireOK
<1>2. /\ Len(toServer[c]) \in Nat \ {0} /\ Len(toServer'[c]) = Len(toServer[c]) - 1
      /\ \A i \in 1..Len(toServer'[c]) : toServer'[c][i] = toServer[c][i + 1]
      /\ Head(toServer[c]) = toServer[c][1]
  BY <1>1, HeadTailProperties, EmptySeq
<1>3. Leaving(c)' => Leaving(c)
  <2> SUFFICES ASSUME Leaving(c)' PROVE Leaving(c)
    OBVIOUS
  <2>1. PICK i \in 1..Len(toServer'[c]) : toServer'[c][i].type = "lobby_leave"
    BY DEF Leaving
  <2>2. i + 1 \in 1..Len(toServer[c]) /\ toServer'[c][i] = toServer[c][i + 1]
    BY <1>2, <2>1
  <2> QED
    BY <2>1, <2>2 DEF Leaving
<1>4. Head(toServer[c]).type = "lobby_leave" => Leaving(c)
  <2>1. 1 \in 1..Len(toServer[c])
    BY <1>2
  <2> QED
    BY <1>2, <2>1 DEF Leaving
<1> QED
  BY <1>3, <1>4 DEF Leaving

\* A step that closes no connection and takes nobody from the lobby.
LEMMA LinksKept ==
    ASSUME IInv, Next, Links,
           \A c \in Clients : /\ link'[c] = "down" => link[c] = "down" \/ Gone(c)'
                              /\ status'[c] = "none" => status[c] = "none" \/ page'[c] = "left"
                              /\ Leaving(c)' => Leaving(c) \/ page'[c] = "left",
           \A j \in jobs' : j.do = "leave" => j \in jobs \/ page'[j.by] = "left"
    PROVE  Links'
BY GoneNext DEF Links

LEMMA LinksServe ==
    ASSUME IInv, Links, Next, NEW c \in Clients, Serve(c)
    PROVE  Links'
<1>1. /\ toServer[c] # <<>> /\ toServer'[c] = Tail(toServer[c])
      /\ \A d \in Clients \ {c} : toServer'[d] = toServer[d]
  <2>1. toServer[c] # <<>> /\ toServer' = [toServer EXCEPT ![c] = Tail(toServer[c])]
    BY DEF Serve, Handle, HandleLobbyJoin, HandleLobbyLeave, HandleCallRequest,
           HandleCallAccept, HandleCallDecline, HandleCallCancel
  <2> QED
    BY <2>1 DEF IInv, WireOK
<1>2. \A d \in Clients : Leaving(d)' => Leaving(d)
  BY <1>1, LeavingTail DEF IInv
<1>3. CASE HandleLobbyLeave(c)
  <2>1. page[c] = "left"
    BY <1>1, <1>3, LeavingTail DEF HandleLobbyLeave, Handle, Links, IInv
  <2>2. page'[c] = "left"
    BY <2>1, GoneNext
  <2>3. \A d \in Clients \ {c} : link'[d] = link[d] /\ status'[d] = status[d]
    BY <1>3 DEF HandleLobbyLeave, Depart, IInv, ServerOK
  <2>4. \A j \in jobs' : j \in jobs \/ j.by = c
    BY <1>3 DEF HandleLobbyLeave, Found, NotFound
  <2> QED
    BY <1>2, <2>2, <2>3, <2>4, LinksKept DEF Gone
<1>4. CASE ~HandleLobbyLeave(c)
  <2>1. link' = link
    BY <1>4 DEF Serve, HandleLobbyJoin, HandleCallRequest, HandleCallAccept, HandleCallDecline,
                HandleCallCancel
  <2>2. \/ status' = status \/ status' = [status EXCEPT ![c] = "available"]
        \/ status' = SetStatus({c}, "in_call")
    BY <1>4 DEF Serve, HandleLobbyJoin, HandleCallRequest, HandleCallAccept, HandleCallDecline,
                HandleCallCancel
  <2>3. \A d \in Clients : status'[d] = "none" => status[d] = "none"
    BY <2>2 DEF SetStatus, InLobby, IInv, ServerOK
  <2>4. \A j \in jobs' : j \in jobs \/ j.do # "leave"
    BY <1>4 DEF Serve, HandleLobbyJoin, HandleCallRequest, HandleCallAccept, HandleCallDecline,
                HandleCallCancel, Found, NotFound
  <2> QED
    BY <1>2, <2>1, <2>3, <2>4, LinksKept
<1> QED
  BY <1>3, <1>4

\* Only the connection of who leaves goes down with the end of a handler.
LEMMA LinksEnds ==
    ASSUME IInv, Links, Next, Ends
    PROVE  Links'
<1>1. PICK j \in jobs : StartCall(j) \/ TurnDown(j) \/ CancelPending(j) \/ CancelAndDepart(j)
  BY DEF Ends
<1>2. \E S : status' = SetStatus(S, "in_call") \/ status' = SetStatus(S, "available")
  BY <1>1 DEF StartCall, TurnDown, CancelPending, CancelAndDepart, Cancelled
<1>3. \A d \in Clients : status'[d] = "none" => status[d] = "none"
  BY <1>2 DEF SetStatus, InLobby, IInv, ServerOK
<1>4. toServer' = toServer /\ jobs' \subseteq jobs
  BY <1>1 DEF StartCall, TurnDown, CancelPending, CancelAndDepart, Finish
<1>5. \A d \in Clients : link'[d] = "down" => link[d] = "down" \/ Gone(d)'
  <2>1. CASE link' = link
    BY <2>1
  <2>2. CASE CancelAndDepart(j)
    <3>1. \A d \in Clients : link'[d] = link[d] \/ d = j.by
      BY <2>2 DEF CancelAndDepart, Depart, IInv, ServerOK
    <3>2. \A d \in Clients : d = j.by => page[d] = "left"
      BY <2>2 DEF CancelAndDepart, Links
    <3> QED
      BY <3>1, <3>2, GoneNext DEF Gone
  <2> QED
    BY <1>1, <2>1, <2>2 DEF StartCall, TurnDown, CancelPending
<1> QED
  BY <1>3, <1>4, <1>5, LinksKept DEF Leaving

LEMMA LinksNext == ASSUME IInv, Links, Next PROVE Links'
<1>0. ASSUME jobs' = jobs PROVE \A j \in jobs' : j.do = "leave" => j \in jobs \/ page'[j.by] = "left"
  BY <1>0
<1>1. ASSUME NEW c \in Clients, Buttons(c) PROVE Links'
  <2>1. UNCHANGED <<link, status, jobs>>
    BY <1>1 DEF Buttons, CallUser, CancelCall, AcceptCall, DeclineCall, SaveProfile, LeaveLobby, JoinCall,
                serverVars, wireVars
  <2>2. CASE LeaveLobby(c)
    <3>1. page'[c] = "left"
      BY <2>2 DEF LeaveLobby, IInv, ScreenOK
    <3>2. \A d \in Clients : Leaving(d)' => Leaving(d) \/ d = c
      BY <2>2, LeavingSend DEF LeaveLobby, IInv
    <3> QED
      BY <2>1, <3>1, <3>2, <1>0, LinksKept
  <2>3. CASE JoinCall(c)
    BY <2>1, <2>3, <1>0, LinksKept DEF JoinCall, wireVars, Leaving
  <2>4. CASE ~LeaveLobby(c) /\ ~JoinCall(c)
    <3>1. \E t \in {"call_request", "call_cancel", "call_accept", "call_decline", "lobby_join"} : \E u :
              Send(c, Request(t, u))
      BY <1>1, <2>4 DEF Buttons, CallUser, CancelCall, AcceptCall, DeclineCall, SaveProfile
    <3>2. \A d \in Clients : Leaving(d)' => Leaving(d)
      BY <3>1, LeavingSend DEF Request, IInv
    <3> QED
      BY <2>1, <3>2, <1>0, LinksKept
  <2> QED
    BY <2>2, <2>3, <2>4
<1>2. ASSUME NEW c \in Clients, Listen(c) PROVE Links'
  <2>1. UNCHANGED <<link, status, jobs, toServer>>
    BY <1>2 DEF Listen, OnIncoming, OnDeclined, OnCancelled, OnStart, OnError, Hear, serverVars
  <2> QED
    BY <2>1, <1>0, LinksKept DEF Leaving
<1>3. ASSUME NEW c \in Clients, Drop(c) PROVE Links'
  <2>1. status' = status /\ jobs' = jobs /\ c \in lost'
    BY <1>3 DEF Drop
  <2>2. \A d \in Clients \ {c} : link'[d] = link[d] /\ toServer'[d] = toServer[d]
    BY <1>3 DEF Drop, IInv, ServerOK, WireOK
  <2>3. toServer'[c] = <<>>
    BY <1>3 DEF Drop, IInv, WireOK
  <2>4. \A d \in Clients : Leaving(d)' => Leaving(d)
    BY <2>2, <2>3 DEF Leaving
  <2> QED
    BY <2>1, <2>2, <2>4, <1>0, LinksKept DEF Gone
<1>4. ASSUME NEW c \in Clients, Reopen(c) PROVE Links'
  <2>1. status' = status /\ jobs' = jobs /\ \A d \in Clients : link'[d] = "down" => link[d] = "down"
    BY <1>4 DEF Reopen, serverVars, IInv, ServerOK
  <2>2. \A d \in Clients \ {c} : toServer'[d] = toServer[d]
    BY <1>4 DEF Reopen, IInv, WireOK
  <2>3. toServer'[c] = <<>> \/ toServer'[c] = <<Request("lobby_join", None)>>
    BY <1>4 DEF Reopen, IInv, WireOK
  <2>4. ~Leaving(c)'
    BY <2>3 DEF Leaving, Request
  <2>5. \A d \in Clients : Leaving(d)' => Leaving(d)
    BY <2>2, <2>4 DEF Leaving
  <2> QED
    BY <2>1, <2>5, <1>0, LinksKept
<1>5. ASSUME NEW c \in Clients, GraceOver(c) PROVE Links'
  <2>1. link' = link /\ toServer' = toServer /\ jobs' = jobs
    BY <1>5 DEF GraceOver, wireVars
  <2>2. \A d \in Clients : status'[d] = "none" => status[d] = "none"
    BY <1>5 DEF GraceOver, SetStatus, InLobby, IInv, ServerOK
  <2> QED
    BY <2>1, <2>2, <1>0, LinksKept DEF Leaving
<1>6. ASSUME NEW k \in CallIds, CallTimeout(k) PROVE Links'
  <2>1. link' = link /\ toServer' = toServer /\ status' = status
    BY <1>6 DEF CallTimeout, wireVars
  <2>2. \A j \in jobs' : j \in jobs \/ j.do # "leave"
    BY <1>6 DEF CallTimeout, Found, NotFound
  <2> QED
    BY <2>1, <2>2, LinksKept DEF Leaving
<1>7. ASSUME NEW c \in Clients, NEW k \in timers[c], AutoDecline(c, k) PROVE Links'
  <2>1. UNCHANGED <<link, status, jobs>> /\ Send(c, Request("call_decline", From(k)))
    BY <1>7 DEF AutoDecline, serverVars
  <2>2. \A d \in Clients : Leaving(d)' => Leaving(d)
    BY <2>1, LeavingSend DEF Request, IInv
  <2> QED
    BY <2>1, <2>2, <1>0, LinksKept
<1> QED
  BY <1>1, <1>2, <1>3, <1>4, <1>5, <1>6, <1>7, LinksServe, LinksEnds DEF Next, Timers

\* What a step does to the queues of the browsers and to their rooms.
LEMMA StepKinds ==
    ASSUME IInv, Next
    PROVE  \/ ServerStep /\ room' = room
           \/ UNCHANGED <<toClient, room, calls>>
           \/ \E c \in Clients : Listen(c) \/ Drop(c)
<1>1. ASSUME NEW c \in Clients, Buttons(c) PROVE UNCHANGED <<toClient, room, calls>>
  BY <1>1 DEF Buttons, CallUser, CancelCall, AcceptCall, DeclineCall, SaveProfile, LeaveLobby, JoinCall,
              wireVars, screenVars
<1>2. ASSUME NEW c \in Clients, Serve(c) PROVE ServerStep /\ room' = room
  <2>1. room' = room
    BY <1>2 DEF Serve, Handle, HandleLobbyJoin, HandleLobbyLeave, HandleCallRequest,
                HandleCallAccept, HandleCallDecline, HandleCallCancel, screenVars
  <2> QED
    BY <1>2, <2>1, ServeStep
<1>3. ASSUME NEW c \in Clients, Reopen(c) \/ GraceOver(c) PROVE UNCHANGED <<toClient, room, calls>>
  BY <1>3 DEF Reopen, GraceOver, wireVars, screenVars, histVars
<1>4. ASSUME NEW k \in CallIds, CallTimeout(k) PROVE ServerStep /\ room' = room
  <2>1. room' = room
    BY <1>4 DEF CallTimeout, screenVars
  <2> QED
    BY <1>4, <2>1, TimeoutStep
<1>6. CASE Ends
  <2>1. room' = room
    BY <1>6 DEF Ends, StartCall, TurnDown, CancelPending, CancelAndDepart, Finish, screenVars
  <2> QED
    BY <1>6, <2>1, EndsStep
<1>5. ASSUME NEW c \in Clients, NEW k \in timers[c], AutoDecline(c, k)
      PROVE  UNCHANGED <<toClient, room, calls>>
  BY <1>5 DEF AutoDecline, histVars
<1> QED
  BY <1>1, <1>2, <1>3, <1>4, <1>5, <1>6 DEF Next, Timers

\* The next page to open is the one of the start that is heard.
LEMMA StartHeard ==
    ASSUME IInv, NEW c \in Clients, Listen(c)
    PROVE  /\ calls' = calls /\ \A d \in Clients \ {c} : room'[d] = room[d] /\ Same(d)
           /\ \A t, k : InQueue(t, c, k)' => InQueue(t, c, k)
           /\ \/ room'[c] \in CallIds /\ InQueue("call_start", c, room'[c])
              \/ /\ room'[c] = room[c]
                 /\ \A k : InQueue("call_start", c, k) => InQueue("call_start", c, k)'
<1>1. /\ Only(c) /\ calls' = calls /\ toClient[c] # <<>>
      /\ toClient' = [toClient EXCEPT ![c] = Tail(toClient[c])]
  <2>1. toClient[c] # <<>> /\ toClient' = [toClient EXCEPT ![c] = Tail(toClient[c])]
    BY DEF Listen, OnIncoming, OnDeclined, OnCancelled, OnStart, OnError, Hear
  <2> QED
    BY <2>1, ActsAlone
<1>2. toClient'[c] = Tail(toClient[c]) /\ \A d \in Clients \ {c} : room'[d] = room[d] /\ Same(d)
  BY <1>1 DEF IInv, WireOK, Only, ScreenOK, Same
<1>3. PICK h : /\ h = Head(toClient[c]) /\ h \in GoodEvents(c) /\ InQueue(h.type, c, h.call)
               /\ \A t, k : InQueue(t, c, k) <=> InQueue(t, c, k)' \/ (h.type = t /\ h.call = k)
  <2>1. \A t, k : InQueue(t, c, k) <=> InQueue(t, c, k)' \/ (Head(toClient[c]).type = t /\ Head(toClient[c]).call = k)
    BY <1>1, <1>2, QueueTail DEF IInv
  <2>2. Head(toClient[c]) \in GoodEvents(c)
    BY <1>1, Heads DEF IInv
  <2> QED
    BY <2>1, <2>2
<1>4. CASE OnStart(c)
  <2>1. h.type = "call_start" /\ room'[c] = h.call
    BY <1>3, <1>4 DEF OnStart, Hear, IInv, ScreenOK
  <2>2. h.call \in CallIds
    BY <1>3, <2>1 DEF GoodEvents
  <2> QED
    BY <1>1, <1>2, <1>3, <2>1, <2>2
<1>5. CASE ~OnStart(c)
  <2>1. h.type # "call_start" /\ room' = room
    BY <1>3, <1>5 DEF Listen, OnIncoming, OnDeclined, OnCancelled, OnError, Hear, screenVars
  <2> QED
    BY <1>1, <1>2, <1>3, <2>1
<1> QED
  BY <1>4, <1>5

\* Who has arrived stays so.
LEMMA ArrivedNext ==
    ASSUME IInv, Next, NEW o \in Clients, NEW k \in CallIds, Arrived(o, k)
    PROVE  Arrived(o, k)'
<1>1. Gone(o) => Gone(o)'
  BY GoneNext
<1>2. CASE ServerStep /\ room' = room
  <2>1. Same(o) \/ \E t, j : Hears(o, t, j)
    BY <1>2 DEF ServerStep, Quiet, Rings, Finds, Starts, Cancels
  <2>2. \A t, j : InQueue(t, o, j) => InQueue(t, o, j)'
    <3>1. CASE Same(o)
      BY <3>1 DEF Same, InQueue, Queue
    <3>2. ASSUME NEW m, toClient'[o] = Append(toClient[o], m)
          PROVE  \A t, j : InQueue(t, o, j) => InQueue(t, o, j)'
      BY <3>2, QueueAppend DEF IInv
    <3> QED
      BY <2>1, <3>1, <3>2 DEF Hears
  <2> QED
    BY <1>1, <1>2, <2>2 DEF Arrived
<1>3. CASE UNCHANGED <<toClient, room, calls>>
  BY <1>1, <1>3 DEF Arrived, InQueue, Queue
<1>4. ASSUME NEW c \in Clients, Drop(c) PROVE Arrived(o, k)'
  <2>1. room' = room /\ c \in lost' /\ (o # c => toClient'[o] = toClient[o])
    BY <1>4 DEF Drop, screenVars, IInv, WireOK
  <2> QED
    BY <1>1, <2>1 DEF Arrived, Gone, InQueue, Queue
<1>5. ASSUME NEW c \in Clients, Listen(c) PROVE Arrived(o, k)'
  <2>1. CASE o = c
    BY <1>1, <1>5, <2>1, StartHeard, CallNumbers DEF Arrived, IInv
  <2>2. CASE o # c
    <3>1. room'[o] = room[o] /\ toClient'[o] = toClient[o]
      BY <1>5, <2>2, StartHeard DEF Same
    <3> QED
      BY <1>1, <3>1 DEF Arrived, InQueue, Queue
  <2> QED
    BY <2>1, <2>2
<1> QED
  BY <1>2, <1>3, <1>4, <1>5, StepKinds

\* A browser is bound for a room since the server started the call.
LEMMA BoundNext ==
    ASSUME IInv, Next, NEW c \in Clients, NEW k \in CallIds, Bound(c, k)'
    PROVE  Bound(c, k) \/ Starts(k)
<1>1. CASE ServerStep /\ room' = room
  <2>1. CASE Quiet
    <3>1. \/ Same(c) \/ Hears(c, "error", None) \/ \E j \in CallIds : Hears(c, "call_declined", j)
      BY <2>1 DEF Quiet
    <3>2. InQueue("call_start", c, k)' => InQueue("call_start", c, k)
      BY <3>1, QueueStep DEF IInv
    <3> QED
      BY <1>1, <3>2 DEF Bound
  <2>2. ASSUME NEW u \in Clients, NEW v \in Clients, Rings(u, v) PROVE Bound(c, k)
    <3>1. Same(c) \/ Hears(c, "call_incoming", Len(calls) + 1)
      BY <2>2 DEF Rings
    <3>2. PICK x : Same(c) \/ Hears(c, "call_incoming", x)
      BY <3>1
    <3>3. WireOK /\ "call_start" # "call_incoming"
      BY DEF IInv
    <3>4. InQueue("call_start", c, k)' => InQueue("call_start", c, k)
      BY <3>2, <3>3, QueueStep
    <3> QED
      BY <1>1, <3>4 DEF Bound
  <2>3. ASSUME NEW x \in CallIds, Cancels(x) PROVE Bound(c, k)
    <3>1. InQueue("call_start", c, k)' => InQueue("call_start", c, k)
      BY <2>3, QueueStep DEF Cancels, IInv
    <3> QED
      BY <1>1, <3>1 DEF Bound
  <2>4. ASSUME NEW x \in CallIds, Finds(x) PROVE Bound(c, k)
    BY <1>1, <2>4 DEF Finds, Bound, InQueue, Queue, Same
  <2>5. ASSUME NEW x \in CallIds, Starts(x) PROVE Bound(c, k) \/ x = k
    <3>1. InQueue("call_start", c, k)' => InQueue("call_start", c, k) \/ x = k
      BY <2>5, QueueStep DEF Starts, IInv
    <3> QED
      BY <1>1, <3>1 DEF Bound
  <2> QED
    BY <1>1, <2>1, <2>2, <2>3, <2>5, <2>4 DEF ServerStep
<1>2. CASE UNCHANGED <<toClient, room, calls>>
  BY <1>2 DEF Bound, InQueue, Queue
<1>3. ASSUME NEW d \in Clients, Drop(d) PROVE Bound(c, k)
  <2>1. room' = room /\ (InQueue("call_start", c, k)' => InQueue("call_start", c, k))
    BY <1>3, QueueShrinks DEF Drop, screenVars, IInv
  <2> QED
    BY <2>1 DEF Bound
<1>4. ASSUME NEW d \in Clients, Listen(d) PROVE Bound(c, k)
  <2>1. CASE c = d
    BY <1>4, <2>1, StartHeard DEF Bound
  <2>2. CASE c # d
    <3>1. room'[c] = room[c] /\ toClient'[c] = toClient[c]
      BY <1>4, <2>2, StartHeard DEF Same
    <3> QED
      BY <3>1 DEF Bound, InQueue, Queue
  <2> QED
    BY <2>1, <2>2
<1> QED
  BY <1>1, <1>2, <1>3, <1>4, StepKinds

\* A call that starts brings both, or one of them is gone.
LEMMA StartArrives ==
    ASSUME IInv, Links, Next, NEW k \in CallIds, Starts(k), NEW o \in {From(k), To(k)}
    PROVE  Arrived(o, k)'
<1>1. o \in Clients
  BY CallNames DEF IInv
<1>2. CASE link[o] = "up"
  <2>1. PICK m : m.type = "call_start" /\ m.call = k /\ toClient'[o] = Append(toClient[o], m)
    BY <1>2 DEF Starts, Hears
  <2>2. InQueue("call_start", o, k)'
    BY <1>1, <2>1, QueueAppend DEF IInv
  <2> QED
    BY <2>2 DEF Arrived
<1>3. CASE link[o] = "down"
  <2>1. Gone(o)'
    BY <1>1, <1>3, GoneNext DEF Links
  <2> QED
    BY <2>1 DEF Arrived
<1> QED
  BY <1>1, <1>2, <1>3 DEF IInv, ServerOK

LEMMA TogetherNext ==
    ASSUME CallInv, CallInv', Links, Together, Next
    PROVE  Together'
<1> USE DEF CallInv
<1>0. HistOK' /\ Grows
  BY HistNext
<1> SUFFICES ASSUME NEW k \in CallIds', NEW c \in Clients, NEW o \in {From(k)', To(k)'} \ {c},
                    Bound(c, k)'
             PROVE  Arrived(o, k)'
  BY DEF Together
<1>1. CASE k \in CallIds
  <2>1. From(k)' = From(k) /\ To(k)' = To(k)
    BY <1>0, <1>1, GrowsCalls DEF IInv
  <2>2. o \in {From(k), To(k)} \ {c} /\ o \in Clients
    BY <1>1, <2>1, CallNames DEF IInv
  <2>3. CASE Bound(c, k)
    <3>1. Arrived(o, k)
      BY <1>1, <2>2, <2>3 DEF Together
    <3> QED
      BY <1>1, <2>2, <3>1, ArrivedNext
  <2>4. CASE ~Bound(c, k)
    <3>1. Starts(k)
      BY <1>1, <2>4, BoundNext
    <3> QED
      BY <1>1, <2>2, <3>1, StartArrives
  <2> QED
    BY <2>3, <2>4
<1>2. CASE k \notin CallIds
  \* A call that is new has not started: its entry is pending.
  <2>1. PICK u \in Clients, v \in Clients : Rings(u, v)
    <3>1. ~Kept
      BY <1>2 DEF Kept, CallIds
    <3>2. ~(UNCHANGED <<toClient, room, calls>>) /\ \A d \in Clients : ~Listen(d) /\ ~Drop(d)
      BY <1>2, StartHeard DEF CallIds, Drop
    <3> QED
      BY <3>1, <3>2, StepKinds DEF ServerStep, Quiet, Finds, Takes, Starts, Cancels
  <2>2. PICK n \in Nat : n = Len(calls) + 1
    BY CallNumbers DEF IInv
  <2>3. CallIds' = CallIds \cup {n} /\ From(n)' = u /\ IsLatest(u, n)'
    BY <2>1, <2>2, NewCall DEF Rings, IInv
  <2>4. k = n /\ pending'[u] # None
    <3>1. k = n
      BY <1>2, <2>3
    <3>2. pending'[u] = v
      BY <2>1 DEF Rings, IInv, ServerOK
    <3> QED
      BY <3>1, <3>2, CallClientAssumption
  <2>5. Live(k)'
    BY <2>3, <2>4 DEF Live
  <2>6. k \notin raced'
    <3>1. raced \subseteq CallIds
      BY DEF IInv, JobsOK
    <3> QED
      BY <1>2, <2>1, <3>1 DEF Rings
  <2>7. ~Started(k)'
    BY <2>5, <2>6 DEF OneOutcome
  <2> QED
    BY <2>7 DEF Started, Bound
<1> QED
  BY <1>1, <1>2

PairInv == CallInv /\ Links /\ Together

LEMMA InitPair == Init => Links /\ Together
BY DEF Init, Links, Together, Leaving, CallIds

LEMMA NextPair == PairInv /\ [Next]_vars => PairInv'
<1> SUFFICES ASSUME PairInv, [Next]_vars PROVE PairInv'
  OBVIOUS
<1>1. CallInv'
  BY NextCallInv DEF PairInv
<1>2. CASE Next
  BY <1>1, <1>2, LinksNext, TogetherNext DEF PairInv, CallInv
<1>3. CASE UNCHANGED vars
  <2>1. UNCHANGED <<toClient, toServer, calls, room, lost, page, link, status, jobs>>
    BY <1>3 DEF vars, serverVars, wireVars, screenVars, histVars
  <2>2. Links'
    BY <2>1 DEF PairInv, Links, Gone, Leaving
  <2>3. Together'
    BY <2>1 DEF PairInv, Together, Bound, Arrived, Gone, InQueue, Queue, CallIds, From, To
  <2> QED
    BY <1>1, <2>2, <2>3 DEF PairInv
<1> QED
  BY <1>2, <1>3

\* When a browser goes to the room of a call, the other one goes to a room too
\* or is about to be told, unless its connection was lost or it has left the
\* lobby: the one of two handlers that starts the call tells both in one step, be
\* the entry still its own or already another handler's to delete.
THEOREM NobodyAlone == Spec => []NotAlone
<1>1. Init => PairInv
  BY InitInv, InitOutcome, InitPair DEF PairInv, CallInv
<1>2. PairInv => NotAlone
  <2> SUFFICES ASSUME PairInv, NEW c \in Clients, NEW o \in Clients, room[c] # None, o # c,
                      o \in {From(room[c]), To(room[c])}
               PROVE  \/ room[o] # None \/ InQueue("call_start", o, room[c]) \/ Gone(o)
    BY DEF NotAlone, InQueue, Queue, Gone
  <2>1. room[c] \in CallIds
    BY DEF PairInv, CallInv, IInv, ScreenOK, Maybe
  <2> QED
    BY <2>1 DEF PairInv, Together, Bound, Arrived
<1> QED
  BY <1>1, <1>2, NextPair, PTL DEF Spec
=============================================================================
