------------------------------ MODULE Chat_proofs ------------------------------
(***************************************************************************)
(* What is written in a chat is shown to the other one in order, once, the *)
(* badges count right, nobody's own words come back as the other one's, an *)
(* echo tells what the other one sees, and the history is the end of what  *)
(* was stored, for any people, texts, languages and bounds.                *)
(*                                                                         *)
(* A message is followed from the socket of its writer through a handler   *)
(* to the other one's socket and screen, and its echo back.  Its number is *)
(* lower than those behind it (Order), however long a translation takes,   *)
(* but for a handler that goes on when its connection is lost: between its *)
(* message and what it follows lies a cut (Follows, Readers).  What a step *)
(* does to that way is one of nine things (Kind), and what is said of      *)
(* echoes is proved of those.                                              *)
(***************************************************************************)
EXTENDS Chat, SequenceTheorems, FiniteSetTheorems, TLAPS

\* The messages on a socket, with the types the handlers rely on.
ToServer(p) ==
    {m \in Messages :
        /\ m.type \in {"chat", "typing", "lang", "join"} /\ m.from = p
        /\ m.type = "chat" => m.text \in Texts /\ m.to \in Others(p)
        /\ m.type = "typing" => m.to \in Others(p)
        /\ m.type = "lang" => m.got \in Langs}
ToClient(p) ==
    {m \in Messages :
        /\ m.type \in {"chat", "typing", "left"}
        /\ m.type = "chat" => /\ m.text \in Texts /\ m.to \in People /\ m.got \in Shown
                              /\ m.from # m.to /\ p \in {m.from, m.to}}

Links == {"up", "down", "deaf"}

\* The types, in parts; those of the readers are in Readers.
BudgetOK ==
    budget \in [place : {"room", "lobby"}, people : SUBSET People, send : Nat, typing : Nat,
                lang : Nat, open : Nat, lose : Nat]

ServerOK ==
    /\ at \in [People -> {"in", "lost", "out"}] /\ joined \in [People -> BOOLEAN]
    /\ lang \in [People -> Langs]
    /\ history \in Seq(People \X Nat) /\ stored \in Seq(People \X Nat)
    /\ jobs \in [People -> SUBSET Jobs]

\* The handlers of one person, and what they have done so far.
JobOK(p) ==
    \A j \in jobs[p] : /\ j.to \in Present /\ j.to # p
                       /\ j.step # "translate" => j.got \in Shown
                       /\ j.step = "store" => InRoom

WireOK ==
    /\ link \in [People -> Links]
    /\ toServer \in [People -> Seq(Messages)] /\ toClient \in [People -> Seq(Messages)]
    /\ \A p \in People : toServer[p] \in Seq(ToServer(p)) /\ toClient[p] \in Seq(ToClient(p))

PageOK ==
    /\ inCall \in [People -> BOOLEAN]
    /\ log \in [People -> [People -> Seq(Entries)]]
    /\ pending \in [People -> SUBSET Texts]
    /\ typing \in [People -> BOOLEAN] /\ timer \in [People -> {"none", "set", "fired"}]
    /\ open \in [People -> Names] /\ openRef \in [People -> Names]
    /\ unread \in [People -> [People -> Nat]] /\ sent \in [People -> Nat]
    /\ cuts \in [People -> SUBSET Nat] /\ called \subseteq People
    /\ \A p \in Present : open[p] # None => open[p] \in Others(p) /\ ~InRoom

Types == BudgetOK /\ ServerOK /\ WireOK /\ PageOK /\ \A p \in People : JobOK(p)

-----------------------------------------------------------------------------
(* The way of a message                                                    *)

Chats(s) == {s[i] : i \in {k \in DOMAIN s : s[k].type = "chat"}}

\* The number b comes after a: it is higher, unless the connection was cut in between.
Follows(C, a, b) == a < b \/ \E c \in C : b <= c /\ c < a

\* The messages of one person in a queue follow each other.
Rising(C, s) ==
    \A i, k \in DOMAIN s :
        /\ i < k /\ s[i].type = "chat" /\ s[k].type = "chat" /\ s[i].from = s[k].from
        => Follows(C[s[i].from], s[i].n, s[k].n)

NoCuts == [p \in People |-> {}]

\* What q wrote is on the socket to p (an echo when q = p), with a handler that
\* has still to send it there, on the socket to the server, or on p's screen.
Flight(p, q) == {m \in Chats(toClient[p]) : m.from = q}
Due(p, q) ==
    {j \in jobs[q] : IF p = q THEN InRoom => j.step # "deliver"
                     ELSE j.to = p /\ (j.step = "echo" => InRoom)}
Asked(q) == Chats(toServer[q])
By(s, q) == {s[i] : i \in {k \in DOMAIN s : s[k].by = q}}
ByOther(p, q) == By(log[p][q], q)

Nums(S) == {x.n : x \in S}
Before(C, S, T) == \A a \in S, b \in T : Follows(C, a, b)

\* The order in which p gets what q wrote, by number: shown, under way, due, asked for.
Ordered(C, S, F, D, A, n) ==
    /\ Before(C, S, F) /\ Before(C, S, D) /\ Before(C, S, A)
    /\ Before(C, F, D) /\ Before(C, F, A) /\ Before(C, D, A)
    /\ S \cup F \cup D \cup A \subseteq 0..n

Seen(p, q) == IF p = q THEN {} ELSE Nums(ByOther(p, q))
Order(p, q) ==
    Ordered(cuts[q], Seen(p, q), Nums(Flight(p, q)), Nums(Due(p, q)), Nums(Asked(q)), sent[q])

RisingIn(C, s, q) ==
    \A i, k \in DOMAIN s : i < k /\ s[i].by = q /\ s[k].by = q => Follows(C, s[i].n, s[k].n)
InOrderAt(p, q) == RisingIn(cuts[q], log[p][q], q)

\* The handlers of a person: apart from the one of the present connection each has
\* a cut behind its message, and before every other one that is handled or asked for.
Apart(p) == \A j, k \in jobs[p] : j # k => Follows(cuts[p], j.n, k.n)
Behind(p) ==
    \A j \in jobs[p], m \in Asked(p) :
        j.n < m.n /\ (Old(p, j) => \E c \in cuts[p] : j.n <= c /\ c < m.n)
Readers(p) ==
    /\ \A c \in cuts[p] : c <= sent[p]
    /\ \A j \in jobs[p] : 0 < j.n /\ j.n <= sent[p]
    /\ \A m \in Asked(p) : 0 < m.n /\ m.n <= sent[p]
    /\ Apart(p) /\ Behind(p)
    /\ \A j \in jobs[p] : Old(p, j) => \E c \in cuts[p] : j.n <= c
    /\ ending[p] > 0 => cuts[p] # {}

\* Messages keep their order, and nobody writes to himself.
Flow ==
    /\ \A p \in People :
        Rising(NoCuts, toServer[p]) /\ Rising(cuts, toClient[p]) /\ log[p][p] = <<>>
    /\ \A p, q \in People : Order(p, q) /\ InOrderAt(p, q)

-----------------------------------------------------------------------------
(* What has not been on the screen, and the badge that counts it           *)

Unseen(s) == {i \in DOMAIN s : ~s[i].seen}

Badge(p) ==
    /\ p \notin called => openRef[p] = open[p]
    /\ open[p] # None => openRef[p] = open[p] /\ unread[p][open[p]] = 0
    /\ p \in Present \ called => \A q \in People :
        unread[p][q] = Cardinality(Unseen(log[p][q]))

-----------------------------------------------------------------------------
(* Helpers                                                                 *)

LEMMA Others1 ==
    ASSUME BudgetOK, NEW p \in Present, NEW q \in Others(p)
    PROVE  p \in People /\ q \in People /\ q \in Present /\ q # p
BY DEF BudgetOK, Others, Present

\* The place and its people stay as they are, and a cut is not undone.
LEMMA Spends ==
    ASSUME BudgetOK, NEW what \in {"send", "typing", "lang", "open", "lose"}, Spend(what)
    PROVE  BudgetOK' /\ Present' = Present /\ InRoom' = InRoom
BY DEF BudgetOK, Spend, Present, InRoom

LEMMA SamePlace == BudgetOK /\ budget' = budget => BudgetOK' /\ Present' = Present /\ InRoom' = InRoom
BY DEF BudgetOK, Present, InRoom

Setting ==
    /\ BudgetOK' /\ Present' = Present /\ InRoom' = InRoom
    /\ \A q \in People : cuts[q] \subseteq cuts'[q]

LEMMA Setup ==
    ASSUME Types, Next
    PROVE  Setting
<1>1. PICK p \in Present : Buttons(p) \/ Server(p) \/ Browser(p) \/ Lose(p) \/ Reopen(p)
  BY DEF Next
<1>2. \/ \E what \in {"send", "typing", "lang", "open", "lose"} : Spend(what)
      \/ budget' = budget
  <2>1. CASE Buttons(p)
    BY <2>1 DEF Buttons, SendMessage, SendDM, Write, SendTyping, ChangeLang, OpenChat, CloseChat, CallFromChat
  <2>2. CASE Server(p)
    BY <2>2 DEF Server, HandleChat, Refuse, RelayTyping, HandleLang, HandleRejoin, HandleDisconnect,
                Removed, Translate, AddChatMessage, Echo, Deliver
  <2>3. CASE Browser(p)
    BY <2>3 DEF Browser, OnChat, OnEcho, OnDM, OnTyping, TypingOver, OnPeerLeft, Hear
  <2>4. CASE Lose(p) \/ Reopen(p)
    BY <2>4 DEF Lose, Reopen
  <2> QED
    BY <1>1, <2>1, <2>2, <2>3, <2>4
<1>3. cuts' = cuts \/ cuts' = [cuts EXCEPT ![p] = cuts[p] \cup {sent[p]}]
  <2>1. CASE Buttons(p)
    BY <2>1 DEF Buttons, SendMessage, SendDM, SendTyping, ChangeLang, OpenChat, CloseChat, CallFromChat
  <2>2. CASE Server(p)
    BY <2>2 DEF Server, HandleChat, Refuse, RelayTyping, HandleLang, HandleRejoin, HandleDisconnect,
                Removed, Translate, AddChatMessage, Echo, Deliver
  <2>3. CASE Browser(p)
    BY <2>3 DEF Browser, OnChat, OnEcho, OnDM, OnTyping, TypingOver, OnPeerLeft, Hear
  <2>4. CASE Lose(p) \/ Reopen(p)
    BY <2>4 DEF Lose, Reopen
  <2> QED
    BY <1>1, <2>1, <2>2, <2>3, <2>4
<1>4. \A q \in People : cuts[q] \subseteq cuts'[q]
  BY <1>3 DEF Types, PageOK
<1> QED
  BY <1>2, <1>4, Spends, SamePlace DEF Setting, Types

-----------------------------------------------------------------------------
(* Types: the wire                                                         *)

LEMMA WireChanges ==
    ASSUME WireOK, Setting, link' \in [People -> Links],
           NEW p \in People, NEW s \in Seq(ToServer(p)),
           toServer' = toServer \/ toServer' = [toServer EXCEPT ![p] = s],
           NEW q \in People, NEW c \in Seq(ToClient(q)),
           toClient' = toClient \/ toClient' = [toClient EXCEPT ![q] = c]
    PROVE  WireOK'
<1>1. \A r \in People : ToServer(r)' = ToServer(r) /\ ToClient(r)' = ToClient(r)
  BY DEF ToServer, ToClient, Setting, Others
<1>2. s \in Seq(Messages) /\ c \in Seq(Messages)
  <2>1. ToServer(p) \subseteq Messages /\ ToClient(q) \subseteq Messages
    BY DEF ToServer, ToClient
  <2> QED
    BY <2>1, SeqMonotonic
<1>3. \A r \in People : toServer'[r] \in Seq(ToServer(r)) /\ toClient'[r] \in Seq(ToClient(r))
  BY DEF WireOK
<1>4. toServer' \in [People -> Seq(Messages)] /\ toClient' \in [People -> Seq(Messages)]
  BY <1>2 DEF WireOK
<1> QED
  BY <1>1, <1>3, <1>4 DEF WireOK

LEMMA WireStays == WireOK /\ Setting /\ UNCHANGED wireVars => WireOK'
<1>1. \A r \in People : Setting => ToServer(r)' = ToServer(r) /\ ToClient(r)' = ToClient(r)
  BY DEF ToServer, ToClient, Setting, Others
<1> QED
  BY <1>1 DEF WireOK, wireVars

LEMMA SentWire ==
    ASSUME WireOK, Setting, NEW p \in People, NEW m \in ToServer(p), Sent(p, m), link' = link,
           toClient' = toClient
    PROVE  WireOK'
<1>1. toServer[p] \in Seq(ToServer(p)) /\ toClient[p] \in Seq(ToClient(p))
  BY DEF WireOK
<1>2. Append(toServer[p], m) \in Seq(ToServer(p))
  BY <1>1, AppendProperties
<1>3. PICK s \in Seq(ToServer(p)) : toServer' = [toServer EXCEPT ![p] = s]
  BY <1>1, <1>2 DEF Sent
<1>4. link' \in [People -> Links]
  BY DEF WireOK
<1> QED
  BY <1>1, <1>3, <1>4, WireChanges

LEMMA PushedWire ==
    ASSUME WireOK, Setting, NEW p \in People, NEW m \in ToClient(p), Push(p, m), link' = link,
           toServer' = toServer
    PROVE  WireOK'
<1>1. toServer[p] \in Seq(ToServer(p)) /\ toClient[p] \in Seq(ToClient(p))
  BY DEF WireOK
<1>2. Append(toClient[p], m) \in Seq(ToClient(p))
  BY <1>1, AppendProperties
<1>3. PICK c \in Seq(ToClient(p)) : toClient' = [toClient EXCEPT ![p] = c]
  BY <1>1, <1>2 DEF Push
<1>4. link' \in [People -> Links]
  BY DEF WireOK
<1> QED
  BY <1>1, <1>3, <1>4, WireChanges

\* What a reader takes.
LEMMA Taken ==
    ASSUME WireOK, NEW p \in People, NEW type, Next1(p, type)
    PROVE  /\ Head(toServer[p]) \in ToServer(p) /\ Tail(toServer[p]) \in Seq(ToServer(p))
           /\ toServer[p] \in Seq(Messages) /\ toServer[p] # <<>>
           /\ Head(toServer[p]).type = type
           /\ toServer' = [toServer EXCEPT ![p] = Tail(toServer[p])]
<1>1. toServer[p] \in Seq(ToServer(p)) /\ toServer[p] \in Seq(Messages) /\ toServer[p] # <<>>
  BY DEF WireOK, Next1
<1> QED
  BY <1>1, HeadTailProperties DEF Next1

LEMMA TakenWire ==
    ASSUME WireOK, Setting, NEW p \in People, NEW type, Next1(p, type), link' = link,
           toClient' = toClient
    PROVE  WireOK'
<1>1. Tail(toServer[p]) \in Seq(ToServer(p)) /\ toServer' = [toServer EXCEPT ![p] = Tail(toServer[p])]
  BY Taken
<1>2. toClient[p] \in Seq(ToClient(p)) /\ link' \in [People -> Links]
  BY DEF WireOK
<1> QED
  BY <1>1, <1>2, WireChanges

\* What a browser hears.
LEMMA Heard ==
    ASSUME WireOK, NEW p \in People, NEW type, Hear(p, type)
    PROVE  /\ Head(toClient[p]) \in ToClient(p) /\ Tail(toClient[p]) \in Seq(ToClient(p))
           /\ toClient[p] \in Seq(Messages) /\ toClient[p] # <<>>
           /\ Head(toClient[p]).type = type
           /\ toClient' = [toClient EXCEPT ![p] = Tail(toClient[p])]
<1>1. toClient[p] \in Seq(ToClient(p)) /\ toClient[p] \in Seq(Messages) /\ toClient[p] # <<>>
  BY DEF WireOK, Hear
<1> QED
  BY <1>1, HeadTailProperties DEF Hear

LEMMA HeardWire ==
    ASSUME WireOK, Setting, NEW p \in People, NEW type, Hear(p, type)
    PROVE  WireOK'
<1>1. Tail(toClient[p]) \in Seq(ToClient(p)) /\ toClient' = [toClient EXCEPT ![p] = Tail(toClient[p])]
  BY Heard
<1>2. toServer[p] \in Seq(ToServer(p)) /\ link' \in [People -> Links] /\ toServer' = toServer
  BY DEF WireOK, Hear
<1> QED
  BY <1>1, <1>2, WireChanges

-----------------------------------------------------------------------------
(* Types: the server and the handlers                                      *)

LEMMA ServerStays ==
    Types /\ Setting /\ UNCHANGED serverVars => ServerOK' /\ \A p \in People : JobOK(p)'
BY DEF Types, ServerOK, JobOK, Setting, serverVars, readerVars

\* The jobs of one person change, or what the server knows.
LEMMA JobsChange ==
    ASSUME Types, Setting, NEW p \in People, NEW J \in SUBSET Jobs,
           jobs' = [jobs EXCEPT ![p] = J],
           \A j \in J : /\ j.to \in Others(p)
                        /\ j.step # "translate" => j.got \in Shown
                        /\ j.step = "store" => InRoom,
           at' \in [People -> {"in", "lost", "out"}], joined' \in [People -> BOOLEAN],
           lang' \in [People -> Langs],
           history' \in Seq(People \X Nat), stored' \in Seq(People \X Nat)
    PROVE  ServerOK' /\ \A r \in People : JobOK(r)'
<1>1. jobs' \in [People -> SUBSET Jobs]
  BY DEF Types, ServerOK
<1>2. ASSUME NEW r \in People PROVE JobOK(r)'
  <2>1. CASE r = p
    <3>1. jobs'[r] = J
      BY <2>1 DEF Types, ServerOK
    <3> QED
      BY <3>1, <2>1 DEF JobOK, Setting, Others
  <2>2. CASE r # p
    <3>1. jobs'[r] = jobs[r]
      BY <2>2 DEF Types, ServerOK
    <3> QED
      BY <3>1 DEF JobOK, Setting, Types
  <2> QED
    BY <2>1, <2>2
<1> QED
  BY <1>1, <1>2 DEF ServerOK

\* What else the server knows changes.
LEMMA ServerChanges ==
    ASSUME Types, Setting, jobs' = jobs,
           at' \in [People -> {"in", "lost", "out"}], joined' \in [People -> BOOLEAN],
           lang' \in [People -> Langs],
           history' \in Seq(People \X Nat), stored' \in Seq(People \X Nat)
    PROVE  ServerOK' /\ \A r \in People : JobOK(r)'
BY DEF Types, ServerOK, JobOK, Setting

LEMMA JobType ==
    ASSUME Types, NEW p \in People, NEW j \in jobs[p]
    PROVE  /\ j \in Jobs /\ j.to \in Others(p) /\ j.to \in People
           /\ jobs[p] \in SUBSET Jobs
           /\ j.step # "translate" => j.got \in Shown
           /\ j.step = "store" => InRoom
<1>1. jobs[p] \subseteq Jobs
  BY DEF Types, ServerOK
<1> QED
  BY <1>1 DEF Types, JobOK, Others, BudgetOK, Present, Jobs

\* A handler j goes on as K, one job or none.
Turned(p, j, K) == (jobs[p] \ {j}) \cup K

LEMMA StepTypes ==
    ASSUME Types, Setting, NEW p \in People, NEW j \in jobs[p], NEW k \in Jobs,
           Step(p, j, k), k.to = j.to, k.step # "translate" => k.got \in Shown,
           k.step = "store" => InRoom,
           UNCHANGED <<at, joined, lang>>,
           history' \in Seq(People \X Nat), stored' \in Seq(People \X Nat)
    PROVE  /\ ServerOK' /\ \A r \in People : JobOK(r)'
           /\ jobs' = [jobs EXCEPT ![p] = Turned(p, j, {k})]
<1>1. j.to \in Others(p) /\ Turned(p, j, {k}) \in SUBSET Jobs
  BY JobType DEF Turned
<1>2. jobs' = [jobs EXCEPT ![p] = Turned(p, j, {k})]
  BY DEF Step, Turned
<1>3. \A i \in Turned(p, j, {k}) : /\ i.to \in Others(p)
                                   /\ i.step # "translate" => i.got \in Shown
                                   /\ i.step = "store" => InRoom
  BY <1>1, JobType DEF Turned
<1>4. /\ at' \in [People -> {"in", "lost", "out"}] /\ joined' \in [People -> BOOLEAN]
      /\ lang' \in [People -> Langs]
  BY DEF Types, ServerOK
<1>5. PICK J \in SUBSET Jobs : J = Turned(p, j, {k})
  BY <1>1
<1>6. \A i \in J : /\ i.to \in Others(p)
                   /\ i.step # "translate" => i.got \in Shown
                   /\ i.step = "store" => InRoom
  BY <1>3, <1>5
<1>7. jobs' = [jobs EXCEPT ![p] = J]
  BY <1>2, <1>5
<1>8. history' \in Seq(People \X Nat) /\ stored' \in Seq(People \X Nat)
  OBVIOUS
<1>9. ServerOK' /\ \A r \in People : JobOK(r)'
  BY <1>4, <1>6, <1>7, <1>8, JobsChange
<1> QED
  BY <1>2, <1>9

LEMMA DoneTypes ==
    ASSUME Types, Setting, NEW p \in People, NEW j \in jobs[p], NEW last \in BOOLEAN,
           NEW next \in {"deliver", "echo"}, j.step # "translate",
           Done(p, j, last, next),
           UNCHANGED <<at, joined, lang, history, stored>>
    PROVE  /\ ServerOK' /\ \A r \in People : JobOK(r)'
           /\ jobs' = [jobs EXCEPT ![p] =
                        Turned(p, j, IF last THEN {} ELSE {[j EXCEPT !.step = next]})]
<1>1. j.to \in Others(p) /\ j \in Jobs /\ j.got \in Shown
  BY JobType
<1>2. /\ at' \in [People -> {"in", "lost", "out"}] /\ joined' \in [People -> BOOLEAN]
      /\ lang' \in [People -> Langs] /\ history' \in Seq(People \X Nat)
      /\ stored' \in Seq(People \X Nat)
  BY DEF Types, ServerOK
<1>3. CASE last
  <2>1. PICK J \in SUBSET Jobs : J = Turned(p, j, {})
    BY JobType DEF Turned
  <2>2. jobs' = [jobs EXCEPT ![p] = J]
    BY <1>3, <2>1 DEF Done, Turned
  <2>3. \A i \in J : /\ i.to \in Others(p)
                     /\ i.step # "translate" => i.got \in Shown
                     /\ i.step = "store" => InRoom
    BY <2>1, JobType DEF Turned
  <2>4. ServerOK' /\ \A r \in People : JobOK(r)'
    BY <1>2, <2>2, <2>3, JobsChange
  <2> QED
    BY <1>3, <2>1, <2>2, <2>4
<1>4. CASE ~last
  <2>1. PICK k : k = [j EXCEPT !.step = next]
    OBVIOUS
  <2>2. k \in Jobs /\ k.to = j.to /\ k.got = j.got /\ k.step = next
    BY <1>1, <2>1 DEF Jobs
  <2>3. Step(p, j, k)
    BY <1>4, <2>1 DEF Done
  <2>4. /\ ServerOK' /\ \A r \in People : JobOK(r)'
        /\ jobs' = [jobs EXCEPT ![p] = Turned(p, j, {k})]
    BY <1>1, <1>2, <2>2, <2>3, StepTypes
  <2> QED
    BY <1>4, <2>1, <2>4
<1> QED
  BY <1>3, <1>4

\* The message of a job.
Mail(p, j) == Msg("chat", p, j.to, j.n, j.text, j.got)

LEMMA MailType ==
    ASSUME Types, NEW p \in Present, NEW j \in jobs[p], j.step # "translate"
    PROVE  Mail(p, j) \in ToClient(p) /\ Mail(p, j) \in ToClient(j.to)
<1>1. j \in Jobs /\ j.to \in Others(p) /\ j.got \in Shown
  BY JobType DEF Types, BudgetOK, Present
<1>2. p \in People /\ j.to \in People /\ j.to # p
  BY <1>1, Others1 DEF Types
<1> QED
  BY <1>1, <1>2 DEF Mail, Msg, ToClient, Messages, Jobs, Names, Words, Marks

-----------------------------------------------------------------------------
(* The own message that an echo is for                                     *)

LEMMA Smallest ==
    ASSUME NEW S, S \subseteq Nat, S # {}
    PROVE  \E x \in S : \A y \in S : x <= y
<1>1. PICK R : R = OpToRel(<, Nat)
  OBVIOUS
<1>2. IsWellFoundedOn(R, Nat)
  BY <1>1, NatLessThanWellFounded
<1>3. PICK x \in S : \A y \in S : ~ (<<y, x>> \in R)
  BY <1>2, WFMin
<1>4. R = {ss \in Nat \X Nat : ss[1] < ss[2]}
  BY <1>1 DEF OpToRel
<1>5. ASSUME NEW y \in S PROVE x <= y
  <2>1. x \in Nat /\ y \in Nat
    OBVIOUS
  <2>2. ~ (y < x)
    BY <1>3, <1>4, <2>1
  <2> QED
    BY <2>1, <2>2
<1> QED
  BY <1>5

LEMMA MinIn == ASSUME NEW S, S \subseteq Nat, S # {} PROVE Min(S) \in S
BY Smallest DEF Min

LEMMA MaxIn == ASSUME NEW S, NEW n \in Nat, S \subseteq 1..n, S # {} PROVE Max(S) \in S
<1>1. PICK T : T = {n - x : x \in S}
  OBVIOUS
<1>2. T \subseteq Nat /\ T # {}
  <2>1. ASSUME NEW x \in S PROVE n - x \in Nat
    OBVIOUS
  <2> QED
    BY <1>1, <2>1
<1>3. PICK y \in T : \A z \in T : y <= z
  BY <1>2, Smallest
<1>4. PICK x \in S : y = n - x
  BY <1>1
<1>5. \A z \in S : x >= z
  BY <1>1, <1>3, <1>4
<1> QED
  BY <1>5 DEF Max

\* One own entry of the text of m, if there is any, takes the translation of m.
Updated(s, t, m) ==
    /\ t \in Seq(Entries) /\ Len(t) = Len(s)
    /\ \A i \in DOMAIN s :
        \/ t[i] = s[i]
        \/ i \in OwnOf(s, m) /\ t[i] = [s[i] EXCEPT !.got = m.got]
    /\ OwnOf(s, m) # {} => \E i \in OwnOf(s, m) : t[i].got = m.got

LEMMA UpdatedAt ==
    ASSUME NEW s \in Seq(Entries), NEW m \in Messages, NEW i \in OwnOf(s, m)
    PROVE  Updated(s, [s EXCEPT ![i].got = m.got], m)
<1>1. i \in DOMAIN s /\ s[i] \in Entries /\ s[i].mine /\ s[i].text = m.text
  BY DEF OwnOf
<1>2. PICK e : e = [s[i] EXCEPT !.got = m.got]
  OBVIOUS
<1>3. e \in Entries /\ e.got = m.got
  BY <1>1, <1>2 DEF Entries, Messages
<1>4. PICK t : t = [s EXCEPT ![i] = e]
  OBVIOUS
<1>5. t \in Seq(Entries) /\ Len(t) = Len(s) /\ DOMAIN t = DOMAIN s
  BY <1>1, <1>3, <1>4
<1>6. t[i] = e /\ \A k \in DOMAIN s : k # i => t[k] = s[k]
  BY <1>1, <1>4
<1>7. \A k \in DOMAIN s :
        \/ t[k] = s[k]
        \/ k \in OwnOf(s, m) /\ t[k] = [s[k] EXCEPT !.got = m.got]
  BY <1>2, <1>6
<1>8. t[i].got = m.got
  BY <1>3, <1>6
<1>9. Updated(s, t, m)
  BY <1>5, <1>7, <1>8 DEF Updated
<1> QED
  BY <1>2, <1>4, <1>9

LEMMA NotUpdated ==
    ASSUME NEW s \in Seq(Entries), NEW m \in Messages, OwnOf(s, m) = {}
    PROVE  Updated(s, s, m)
BY DEF Updated

LEMMA UpdatedFirst ==
    ASSUME NEW s \in Seq(Entries), NEW m \in Messages
    PROVE  Updated(s, UpdateFirst(s, m), m)
<1>1. CASE OwnOf(s, m) = {}
  BY <1>1, NotUpdated DEF UpdateFirst
<1>2. CASE OwnOf(s, m) # {}
  <2>1. OwnOf(s, m) \subseteq Nat
    BY DEF OwnOf
  <2>2. PICK i \in OwnOf(s, m) : i = Min(OwnOf(s, m))
    BY <1>2, <2>1, MinIn
  <2>3. UpdateFirst(s, m) = [s EXCEPT ![i].got = m.got]
    BY <1>2, <2>2 DEF UpdateFirst
  <2> QED
    BY <2>3, UpdatedAt
<1> QED
  BY <1>1, <1>2

LEMMA UpdatedLast ==
    ASSUME NEW s \in Seq(Entries), NEW m \in Messages
    PROVE  Updated(s, UpdateLastDm(s, m), m)
<1>1. CASE OwnOf(s, m) = {}
  BY <1>1, NotUpdated DEF UpdateLastDm
<1>2. CASE OwnOf(s, m) # {}
  <2>1. OwnOf(s, m) \subseteq 1..Len(s) /\ Len(s) \in Nat
    BY DEF OwnOf
  <2>2. PICK i \in OwnOf(s, m) : i = Max(OwnOf(s, m))
    BY <1>2, <2>1, MaxIn
  <2>3. UpdateLastDm(s, m) = [s EXCEPT ![i].got = m.got]
    BY <1>2, <2>2 DEF UpdateLastDm
  <2> QED
    BY <2>3, UpdatedAt
<1> QED
  BY <1>1, <1>2

-----------------------------------------------------------------------------
(* Types: the pages                                                        *)

\* One list of entries is another one, one badge shows another number.
LogElse(p, q) == \A r, t \in People : r # p \/ t # q => log'[r][t] = log[r][t]

LogIs(p, q, s) ==
    /\ log' \in [People -> [People -> Seq(Entries)]]
    /\ log'[p][q] = s /\ LogElse(p, q)

UnreadElse(p, q) == \A r, t \in People : r # p \/ t # q => unread'[r][t] = unread[r][t]

UnreadIs(p, q, n) ==
    /\ unread' \in [People -> [People -> Nat]]
    /\ unread'[p][q] = n /\ UnreadElse(p, q)

LEMMA LogChanges ==
    ASSUME PageOK, NEW p \in People, NEW q \in People, NEW s \in Seq(Entries),
           log' = [log EXCEPT ![p][q] = s]
    PROVE  LogIs(p, q, s)
<1>1. log \in [People -> [People -> Seq(Entries)]]
  BY DEF PageOK
<1>2. log' = [log EXCEPT ![p] = [log[p] EXCEPT ![q] = s]]
  OBVIOUS
<1>3. PICK f : f = [log[p] EXCEPT ![q] = s]
  OBVIOUS
<1>4. f \in [People -> Seq(Entries)] /\ f[q] = s /\ \A t \in People \ {q} : f[t] = log[p][t]
  BY <1>1, <1>3
<1>5. log' = [log EXCEPT ![p] = f]
  BY <1>2, <1>3
<1> QED
  BY <1>1, <1>4, <1>5 DEF LogIs, LogElse

LEMMA UnreadChanges ==
    ASSUME PageOK, NEW p \in People, NEW q \in People, NEW n \in Nat,
           unread' = [unread EXCEPT ![p][q] = n]
    PROVE  UnreadIs(p, q, n)
<1>1. unread \in [People -> [People -> Nat]]
  BY DEF PageOK
<1>2. unread' = [unread EXCEPT ![p] = [unread[p] EXCEPT ![q] = n]]
  OBVIOUS
<1>3. PICK f : f = [unread[p] EXCEPT ![q] = n]
  OBVIOUS
<1>4. f \in [People -> Nat] /\ f[q] = n /\ \A t \in People \ {q} : f[t] = unread[p][t]
  BY <1>1, <1>3
<1>5. unread' = [unread EXCEPT ![p] = f]
  BY <1>2, <1>3
<1> QED
  BY <1>1, <1>4, <1>5 DEF UnreadIs, UnreadElse

LEMMA EntryType ==
    ASSUME NEW by \in People, NEW n \in Nat, NEW text \in Texts, NEW mine \in BOOLEAN,
           NEW got \in Marks, NEW seen \in BOOLEAN
    PROVE  Entry(by, n, text, mine, got, seen) \in Entries
BY DEF Entry, Entries

LEMMA PageStays == PageOK /\ Setting /\ UNCHANGED <<chatVars, lobbyVars, log, sent, cuts>> => PageOK'
BY DEF PageOK, Setting, Others, chatVars, lobbyVars

LEMMA PageChanges ==
    ASSUME PageOK, Setting,
           inCall' \in [People -> BOOLEAN],
           log' \in [People -> [People -> Seq(Entries)]],
           pending' \in [People -> SUBSET Texts],
           typing' \in [People -> BOOLEAN], timer' \in [People -> {"none", "set", "fired"}],
           unread' \in [People -> [People -> Nat]], sent' \in [People -> Nat],
           UNCHANGED <<open, openRef, cuts, called>>
    PROVE  PageOK'
BY DEF PageOK, Setting, Others

-----------------------------------------------------------------------------
(* Types: the steps                                                        *)

LEMMA Init1 == ASSUME Init PROVE Types
<1>1. BudgetOK
  BY ChatAssumption DEF Init, BudgetOK
<1>2. <<>> \in Seq(People \X Nat) /\ <<>> \in Seq(Messages) /\ <<>> \in Seq(Entries)
  BY EmptySeq
<1>3. \A p \in People : <<>> \in Seq(ToServer(p)) /\ <<>> \in Seq(ToClient(p))
  BY EmptySeq
<1>4. joined \in [People -> BOOLEAN] /\ inCall \in [People -> BOOLEAN]
  <2>1. \A p \in People : (InRoom /\ p \in Present) \in BOOLEAN /\ InRoom \in BOOLEAN
    BY DEF InRoom
  <2> QED
    BY <2>1, Zenon DEF Init
<1>5. ServerOK
  BY <1>2, <1>4, ChatAssumption DEF Init, ServerOK
<1>6. WireOK
  BY <1>2, <1>3 DEF Init, WireOK, Links
<1>7. log \in [People -> [People -> Seq(Entries)]]
  BY <1>2 DEF Init
<1>8. PageOK
  BY <1>1, <1>4, <1>7 DEF Init, PageOK, Names, BudgetOK, Present
<1>9. \A p \in People : JobOK(p)
  BY DEF Init, JobOK
<1> QED
  BY <1>1, <1>5, <1>6, <1>8, <1>9 DEF Types

\* An own message, on the screen and on its way.
Draft(p, text) == Entry(p, sent[p] + 1, text, TRUE, None, TRUE)
Letter(p, q, text) == Msg("chat", p, q, sent[p] + 1, text, None)

LEMMA Written ==
    ASSUME Types, Setting, NEW p \in Present, NEW q \in Others(p), NEW text \in Texts,
           Write(p, q, text), UNCHANGED <<link, toClient>>
    PROVE  /\ WireOK' /\ Sent(p, Letter(p, q, text)) /\ Letter(p, q, text) \in ToServer(p)
           /\ sent' = [sent EXCEPT ![p] = sent[p] + 1] /\ sent' \in [People -> Nat]
           /\ Draft(p, text) \in Entries
           /\ log' = [log EXCEPT ![p][q] = Append(log[p][q], Draft(p, text))]
           /\ LogIs(p, q, Append(log[p][q], Draft(p, text)))
<1>1. p \in People /\ q \in People /\ sent \in [People -> Nat]
  BY Others1 DEF Types, PageOK
<1>2. sent' = [sent EXCEPT ![p] = sent[p] + 1] /\ sent' \in [People -> Nat] /\ sent'[p] = sent[p] + 1
  BY <1>1 DEF Write
<1>3. None \in Marks /\ sent[p] + 1 \in Nat
  BY <1>1 DEF Marks
<1>4. Draft(p, text) \in Entries
  BY <1>1, <1>3 DEF Draft, Entry, Entries
<1>5. Letter(p, q, text) \in ToServer(p)
  BY <1>1, <1>3 DEF Letter, Msg, ToServer, Messages, Names, Words
<1>6. Sent(p, Letter(p, q, text))
  BY <1>2, Zenon DEF Write, Letter
<1>7. WireOK'
  BY <1>1, <1>5, <1>6, SentWire DEF Types
<1>8. log' = [log EXCEPT ![p][q] = Append(log[p][q], Draft(p, text))]
  BY <1>2, Zenon DEF Write, Draft
<1>9. Append(log[p][q], Draft(p, text)) \in Seq(Entries)
  <2>1. log[p][q] \in Seq(Entries)
    BY <1>1 DEF Types, PageOK
  <2> QED
    BY <1>4, <2>1, AppendProperties
<1>10. PICK s \in Seq(Entries) : s = Append(log[p][q], Draft(p, text))
  BY <1>9
<1>11. log' = [log EXCEPT ![p][q] = s]
  BY <1>8, <1>10, Zenon
<1>12. LogIs(p, q, s)
  BY <1>1, <1>11, LogChanges DEF Types
<1> QED
  BY <1>2, <1>4, <1>5, <1>6, <1>7, <1>8, <1>10, <1>12

LEMMA SendMessageTypes == ASSUME Types, Setting, NEW p \in Present, SendMessage(p) PROVE Types'
<1>1. PICK q \in Others(p), text \in Texts :
        pending' = [pending EXCEPT ![p] = @ \cup {text}] /\ Write(p, q, text)
  BY DEF SendMessage
<1>2. UNCHANGED <<serverVars, link, toClient, inCall, typing, timer, lobbyVars, cuts>>
  BY DEF SendMessage
<1>3. /\ WireOK' /\ sent' \in [People -> Nat] /\ log' \in [People -> [People -> Seq(Entries)]]
  BY <1>1, <1>2, Written DEF LogIs
<1>4. pending' \in [People -> SUBSET Texts]
  BY <1>1 DEF Types, PageOK
<1>5. PageOK'
  BY <1>2, <1>3, <1>4, PageChanges DEF Types, PageOK, lobbyVars
<1> QED
  BY <1>2, <1>3, <1>5, ServerStays DEF Types, Setting

LEMMA SendDMTypes == ASSUME Types, Setting, NEW p \in Present, SendDM(p) PROVE Types'
<1>1. open[p] \in Others(p)
  BY DEF SendDM, Types, PageOK
<1>2. PICK text \in Texts : Write(p, open[p], text)
  BY DEF SendDM
<1>3. UNCHANGED <<serverVars, link, toClient, chatVars, lobbyVars, cuts>>
  BY DEF SendDM
<1>4. /\ WireOK' /\ sent' \in [People -> Nat] /\ log' \in [People -> [People -> Seq(Entries)]]
  BY <1>1, <1>2, <1>3, Written DEF LogIs
<1>5. PageOK'
  BY <1>3, <1>4, PageChanges DEF Types, PageOK, lobbyVars, chatVars
<1> QED
  BY <1>3, <1>4, <1>5, ServerStays DEF Types, Setting

LEMMA SendTypingTypes == ASSUME Types, Setting, NEW p \in Present, SendTyping(p) PROVE Types'
<1>1. PICK q \in Others(p) : Sent(p, Msg("typing", p, q, 0, None, None))
  BY DEF SendTyping
<1>2. p \in People /\ q \in People
  BY Others1 DEF Types
<1>3. Msg("typing", p, q, 0, None, None) \in ToServer(p)
  BY <1>2 DEF Msg, ToServer, Messages, Names, Words, Marks
<1>4. WireOK'
  BY <1>1, <1>2, <1>3, SentWire DEF Types, SendTyping
<1>5. ServerOK' /\ \A r \in People : JobOK(r)'
  BY ServerStays DEF SendTyping
<1>6. PageOK'
  BY PageStays DEF SendTyping, Types
<1> QED
  BY <1>4, <1>5, <1>6 DEF Types, Setting

LEMMA ChangeLangTypes == ASSUME Types, Setting, NEW p \in Present, ChangeLang(p) PROVE Types'
<1>1. PICK l \in Langs : Sent(p, Msg("lang", p, None, 0, None, l))
  BY DEF ChangeLang
<1>2. p \in People
  BY DEF Types, BudgetOK, Present
<1>3. Msg("lang", p, None, 0, None, l) \in ToServer(p)
  BY <1>2 DEF Msg, ToServer, Messages, Names, Words, Marks, Shown
<1>4. WireOK'
  BY <1>1, <1>2, <1>3, SentWire DEF Types, ChangeLang
<1>5. ServerOK' /\ \A r \in People : JobOK(r)'
  BY ServerStays DEF ChangeLang
<1>6. PageOK'
  BY PageStays DEF ChangeLang, Types
<1> QED
  BY <1>4, <1>5, <1>6 DEF Types, Setting

\* Reading a chat.
Read(s) == [i \in DOMAIN s |-> [s[i] EXCEPT !.seen = TRUE]]

LEMMA ReadType ==
    ASSUME NEW s \in Seq(Entries)
    PROVE  /\ Read(s) \in Seq(Entries) /\ DOMAIN Read(s) = DOMAIN s
           /\ \A i \in DOMAIN s : Read(s)[i] = [s[i] EXCEPT !.seen = TRUE]
<1>1. ASSUME NEW i \in DOMAIN s PROVE [s[i] EXCEPT !.seen = TRUE] \in Entries
  <2>1. s[i] \in Entries
    OBVIOUS
  <2> QED
    BY <2>1 DEF Entries
<1> QED
  BY <1>1 DEF Read

LEMMA Opened ==
    ASSUME Types, Setting, NEW p \in Present, NEW q \in Others(p), ~InRoom,
           open' = [open EXCEPT ![p] = q], openRef' = [openRef EXCEPT ![p] = q],
           unread' = [unread EXCEPT ![p][q] = 0],
           log' = [log EXCEPT ![p][q] = Read(log[p][q])],
           UNCHANGED <<chatVars, called, sent, cuts>>
    PROVE  /\ PageOK'
           /\ LogIs(p, q, Read(log[p][q])) /\ UnreadIs(p, q, 0)
<1>1. p \in People /\ q \in People
  BY Others1 DEF Types
<1>2. log[p][q] \in Seq(Entries)
  BY <1>1 DEF Types, PageOK
<1>3. Read(log[p][q]) \in Seq(Entries)
  BY <1>2, ReadType
<1>4. PageOK
  BY DEF Types
<1>5. LogIs(p, q, Read(log[p][q]))
  BY <1>1, <1>3, <1>4, LogChanges
<1>6. UnreadIs(p, q, 0)
  BY <1>1, <1>4, UnreadChanges
<1>7. open' \in [People -> Names] /\ openRef' \in [People -> Names]
  BY <1>1 DEF Types, PageOK, Names
<1>8. \A r \in Present' : open'[r] # None => open'[r] \in Others(r)' /\ ~InRoom'
  <2>1. SUFFICES ASSUME NEW r \in Present, open'[r] # None PROVE open'[r] \in Others(r)
    BY DEF Setting, Others
  <2>2. CASE r = p
    BY <1>1, <2>2 DEF Types, PageOK
  <2>3. CASE r # p
    <3>1. r \in People
      BY DEF Types, BudgetOK, Present
    <3>2. open'[r] = open[r]
      BY <2>3, <3>1 DEF Types, PageOK
    <3> QED
      BY <2>1, <3>2 DEF Types, PageOK
  <2> QED
    BY <2>2, <2>3
<1>9. PageOK'
  BY <1>5, <1>6, <1>7, <1>8 DEF PageOK, Types, chatVars, LogIs, UnreadIs
<1> QED
  BY <1>5, <1>6, <1>9

LEMMA OpenChatTypes == ASSUME Types, Setting, NEW p \in Present, OpenChat(p) PROVE Types'
<1>1. PICK q \in Others(p) : open' = [open EXCEPT ![p] = q] /\ openRef' = [openRef EXCEPT ![p] = q]
                              /\ unread' = [unread EXCEPT ![p][q] = 0]
                              /\ log' = [log EXCEPT ![p][q] = Read(log[p][q])]
  BY Zenon DEF OpenChat, Read
<1>2. UNCHANGED <<serverVars, wireVars, chatVars, called, sent, cuts>> /\ ~InRoom
  BY DEF OpenChat
<1>3. PageOK'
  BY <1>1, <1>2, Opened
<1>4. WireOK'
  BY <1>2, WireStays DEF Types
<1>5. ServerOK' /\ \A r \in People : JobOK(r)'
  BY <1>2, ServerStays
<1> QED
  BY <1>3, <1>4, <1>5 DEF Types, Setting

LEMMA CloseTypes ==
    ASSUME Types, Setting, NEW p \in Present, CloseChat(p) \/ CallFromChat(p)
    PROVE  Types'
<1>1. p \in People
  BY DEF Types, BudgetOK, Present
<1>2. /\ open' = [open EXCEPT ![p] = None]
      /\ openRef' = [openRef EXCEPT ![p] = None] \/ openRef' = openRef
      /\ called' = called \/ called' = called \cup {p}
      /\ UNCHANGED <<serverVars, wireVars, chatVars, unread, log, sent, cuts, budget>>
  BY DEF CloseChat, CallFromChat
<1>3. open' \in [People -> Names] /\ openRef' \in [People -> Names] /\ called' \subseteq People
  BY <1>1, <1>2 DEF Types, PageOK, Names
<1>4. \A r \in Present : open'[r] # None => open'[r] = open[r]
  BY <1>2 DEF Types, PageOK, BudgetOK, Present
<1>5. PageOK'
  BY <1>2, <1>3, <1>4 DEF Types, PageOK, chatVars, Setting, Others
<1>6. WireOK'
  BY <1>2, WireStays DEF Types
<1>7. ServerOK' /\ \A r \in People : JobOK(r)'
  BY <1>2, ServerStays
<1> QED
  BY <1>5, <1>6, <1>7 DEF Types, Setting

LEMMA HandleTypes ==
    ASSUME Types, Setting, NEW p \in Present, HandleChat(p)
    PROVE  /\ Types'
           /\ LET m == Head(toServer[p]) IN
              \/ jobs' = jobs /\ busy' = busy
              \/ /\ Sender(p) /\ at[m.to] # "out"
                 /\ jobs' = [jobs EXCEPT ![p] = jobs[p] \cup {Job(m)}]
                 /\ busy' = [busy EXCEPT ![p] = m.n]
<1>1. p \in People
  BY DEF Types, BudgetOK, Present
<1>2. Next1(p, "chat") /\ Handle(p)
  BY DEF HandleChat, Take
<1>3. UNCHANGED <<at, joined, lang, history, stored, ending, link, toClient, chatVars, lobbyVars,
                   log, sent, cuts, budget>>
  BY DEF HandleChat
<1>4. WireOK'
  BY <1>1, <1>2, <1>3, TakenWire DEF Types
<1>5. PageOK'
  BY <1>3, PageStays DEF Types
<1>6. PICK m \in ToServer(p) : m = Head(toServer[p]) /\ m.type = "chat"
  BY <1>1, <1>2, Taken DEF Types
<1>7. Job(m) \in Jobs /\ Job(m).to \in Others(p) /\ Job(m).step = "translate"
  <2>1. m.to \in Others(p) /\ m.to \in People /\ m.text \in Texts /\ m.n \in Nat /\ None \in Marks
    BY <1>6, Others1 DEF ToServer, Messages, Types, Marks
  <2> QED
    BY <2>1 DEF Job, Jobs, Marks
<1>8. CASE Sender(p) /\ at[m.to] # "out"
  <2>1. jobs' = [jobs EXCEPT ![p] = jobs[p] \cup {Job(m)}] /\ busy' = [busy EXCEPT ![p] = m.n]
    BY <1>2, <1>6, <1>8 DEF Handle
  <2>2. jobs[p] \cup {Job(m)} \in SUBSET Jobs
    BY <1>1, <1>7 DEF Types, ServerOK
  <2>6. PICK J \in SUBSET Jobs : J = jobs[p] \cup {Job(m)}
    BY <2>2
  <2>7. \A i \in J : /\ i.to \in Others(p)
                     /\ i.step # "translate" => i.got \in Shown
                     /\ i.step = "store" => InRoom
    BY <1>1, <1>7, <2>6, JobType
  <2>3. jobs' = [jobs EXCEPT ![p] = J]
    BY <2>1, <2>6
  <2>4. /\ at' \in [People -> {"in", "lost", "out"}] /\ joined' \in [People -> BOOLEAN]
        /\ lang' \in [People -> Langs] /\ history' \in Seq(People \X Nat)
        /\ stored' \in Seq(People \X Nat)
    BY <1>3 DEF Types, ServerOK
  <2>5. ServerOK' /\ \A r \in People : JobOK(r)'
    BY <1>1, <2>7, <2>3, <2>4, JobsChange
  <2> QED
    BY <1>4, <1>5, <1>6, <1>8, <2>1, <2>5 DEF Types, Setting
<1>9. CASE ~(Sender(p) /\ at[m.to] # "out")
  <2>1. jobs' = jobs /\ busy' = busy
    BY <1>2, <1>6, <1>9 DEF Handle
  <2>2. UNCHANGED serverVars
    BY <1>3, <2>1 DEF serverVars, readerVars
  <2> QED
    BY <1>4, <1>5, <2>1, <2>2, ServerStays DEF Types, Setting
<1> QED
  BY <1>8, <1>9

LEMMA RefuseTypes == ASSUME Types, Setting, NEW p \in Present, Refuse(p) PROVE Types'
<1>1. p \in People
  BY DEF Types, BudgetOK, Present
<1>2. WireOK'
  BY <1>1, TakenWire DEF Types, Refuse, Take
<1>3. ServerOK' /\ \A r \in People : JobOK(r)'
  BY ServerStays DEF Refuse
<1>4. PageOK'
  BY PageStays DEF Refuse, Types
<1> QED
  BY <1>2, <1>3, <1>4 DEF Types, Setting

LEMMA RelayTypingTypes == ASSUME Types, Setting, NEW p \in Present, RelayTyping(p) PROVE Types'
<1>1. p \in People
  BY DEF Types, BudgetOK, Present
<1>2. Next1(p, "typing")
  BY DEF RelayTyping, Take
<1>3. PICK m \in ToServer(p) : m = Head(toServer[p]) /\ m.type = "typing"
  BY <1>1, <1>2, Taken DEF Types
<1>4. m.to \in People /\ m \in ToClient(m.to)
  BY <1>3, Others1 DEF ToServer, ToClient, Types
<1>5. /\ toServer' = [toServer EXCEPT ![p] = Tail(toServer[p])]
      /\ Tail(toServer[p]) \in Seq(ToServer(p))
  BY <1>1, <1>2, Taken DEF Types
<1>6. \E c \in Seq(ToClient(m.to)) :
        toClient' = toClient \/ toClient' = [toClient EXCEPT ![m.to] = c]
  <2>1. Push(m.to, m) \/ UNCHANGED toClient
    BY <1>3 DEF RelayTyping
  <2>2. toClient[m.to] \in Seq(ToClient(m.to))
    BY <1>4 DEF Types, WireOK
  <2>3. Append(toClient[m.to], m) \in Seq(ToClient(m.to))
    BY <1>4, <2>2, AppendProperties
  <2> QED
    BY <2>1, <2>2, <2>3 DEF Push
<1>7. link' \in [People -> Links] /\ WireOK
  BY DEF RelayTyping, Types, WireOK
<1>8. WireOK'
  BY <1>1, <1>4, <1>5, <1>6, <1>7, WireChanges
<1>9. ServerOK' /\ \A r \in People : JobOK(r)'
  BY ServerStays DEF RelayTyping
<1>10. PageOK'
  BY PageStays DEF RelayTyping, Types
<1> QED
  BY <1>8, <1>9, <1>10 DEF Types, Setting

LEMMA HandleLangTypes == ASSUME Types, Setting, NEW p \in Present, HandleLang(p) PROVE Types'
<1>1. p \in People
  BY DEF Types, BudgetOK, Present
<1>2. Next1(p, "lang")
  BY DEF HandleLang, Take
<1>3. PICK m \in ToServer(p) : m = Head(toServer[p]) /\ m.type = "lang"
  BY <1>1, <1>2, Taken DEF Types
<1>4. WireOK'
  BY <1>1, <1>2, TakenWire DEF Types, HandleLang
<1>5. lang' \in [People -> Langs]
  BY <1>1, <1>3 DEF HandleLang, ToServer, Types, ServerOK
<1>6. ServerOK' /\ \A r \in People : JobOK(r)'
  BY <1>5, ServerChanges DEF HandleLang, Types, ServerOK, readerVars
<1>7. PageOK'
  BY PageStays DEF HandleLang, Types
<1> QED
  BY <1>4, <1>6, <1>7 DEF Types, Setting

LEMMA HandleRejoinTypes == ASSUME Types, Setting, NEW p \in Present, HandleRejoin(p) PROVE Types'
<1>1. p \in People
  BY DEF Types, BudgetOK, Present
<1>2. WireOK'
  BY <1>1, TakenWire DEF Types, HandleRejoin, Take
<1>3. ServerOK' /\ \A r \in People : JobOK(r)'
  BY ServerChanges DEF HandleRejoin, Types, ServerOK, readerVars
<1>4. PageOK'
  BY PageStays DEF HandleRejoin, Types
<1> QED
  BY <1>2, <1>3, <1>4 DEF Types, Setting

LEMMA RemovedTypes == ASSUME Types, Setting, NEW p \in Present, Removed(p) PROVE Types'
<1>1. WireOK'
  BY WireStays DEF Types, Removed
<1>2. ServerOK' /\ \A r \in People : JobOK(r)'
  BY ServerChanges DEF Removed, Types, ServerOK, readerVars
<1>3. PageOK'
  BY PageStays DEF Removed, Types
<1> QED
  BY <1>1, <1>2, <1>3 DEF Types, Setting

LEMMA TranslateTypes ==
    ASSUME Types, Setting, NEW p \in Present, NEW j \in jobs[p], Translate(p, j)
    PROVE  /\ Types'
           /\ \E got \in Shown : LET k == [j EXCEPT !.step = IF InRoom THEN "store" ELSE "deliver", !.got = got]
                                 IN  k \in Jobs /\ jobs' = [jobs EXCEPT ![p] = Turned(p, j, {k})]
<1>1. p \in People /\ j \in Jobs /\ j.to \in People /\ j.to \in Others(p)
  BY JobType DEF Types, BudgetOK, Present
<1>2. PICK got \in Outcomes(p, j.to) :
        Step(p, j, [j EXCEPT !.step = IF InRoom THEN "store" ELSE "deliver", !.got = got])
  BY DEF Translate
<1>3. got \in Shown
  BY <1>1, <1>2 DEF Outcomes, Shown, Types, ServerOK
<1>4. PICK k : k = [j EXCEPT !.step = IF InRoom THEN "store" ELSE "deliver", !.got = got]
  OBVIOUS
<1>5. k \in Jobs /\ k.to = j.to /\ k.got = got /\ k.step = IF InRoom THEN "store" ELSE "deliver"
  BY <1>1, <1>3, <1>4 DEF Jobs, Marks
<1>6. UNCHANGED <<at, joined, lang, history, stored, wireVars, chatVars, lobbyVars, log, sent,
                   cuts, budget>>
  BY DEF Translate
<1>7. Step(p, j, k)
  BY <1>2, <1>4
<1>8. history' \in Seq(People \X Nat) /\ stored' \in Seq(People \X Nat)
  BY <1>6 DEF Types, ServerOK
<1>9. /\ ServerOK' /\ \A r \in People : JobOK(r)'
      /\ jobs' = [jobs EXCEPT ![p] = Turned(p, j, {k})]
  BY <1>1, <1>3, <1>5, <1>6, <1>7, <1>8, StepTypes
<1>10. WireOK'
  BY <1>6, WireStays DEF Types
<1>11. PageOK'
  BY <1>6, PageStays DEF Types
<1> QED
  BY <1>3, <1>4, <1>5, <1>9, <1>10, <1>11 DEF Types, Setting

LEMMA CappedType == ASSUME Types PROVE Capped(history) \in Seq(People \X Nat)
<1>1. history \in Seq(People \X Nat)
  BY DEF Types, ServerOK
<1>2. MaxHistory \div 2 + 1 \in 1..(MaxHistory + 1)
  BY ChatAssumption
<1>3. ASSUME Len(history) >= MaxHistory
      PROVE  SubSeq(history, MaxHistory \div 2 + 1, Len(history)) \in Seq(People \X Nat)
  BY <1>1, <1>2, <1>3, ChatAssumption, SubSeqProperties
<1> QED
  BY <1>1, <1>3 DEF Capped

LEMMA AddTypes ==
    ASSUME Types, Setting, NEW p \in Present, NEW j \in jobs[p], AddChatMessage(p, j)
    PROVE  /\ Types'
           /\ LET k == [j EXCEPT !.step = "echo"] IN k \in Jobs /\ jobs' = [jobs EXCEPT ![p] = Turned(p, j, {k})]
<1>1. p \in People /\ j \in Jobs /\ j.got \in Shown /\ InRoom
  BY JobType DEF Types, BudgetOK, Present, AddChatMessage
<1>2. PICK k : k = [j EXCEPT !.step = "echo"]
  OBVIOUS
<1>3. k \in Jobs /\ k.to = j.to /\ k.got = j.got /\ k.step = "echo"
  BY <1>1, <1>2 DEF Jobs
<1>4. <<p, j.n>> \in People \X Nat
  BY <1>1 DEF Jobs
<1>5. history' \in Seq(People \X Nat) /\ stored' \in Seq(People \X Nat)
  BY <1>4, CappedType, AppendProperties DEF AddChatMessage, Types, ServerOK
<1>6. UNCHANGED <<at, joined, lang, wireVars, chatVars, lobbyVars, log, sent, cuts, budget>>
  BY DEF AddChatMessage
<1>7. Step(p, j, k)
  BY <1>2 DEF AddChatMessage
<1>8. /\ ServerOK' /\ \A r \in People : JobOK(r)'
      /\ jobs' = [jobs EXCEPT ![p] = Turned(p, j, {k})]
  BY <1>1, <1>3, <1>5, <1>6, <1>7, StepTypes
<1>9. WireOK'
  BY <1>6, WireStays DEF Types
<1>10. PageOK'
  BY <1>6, PageStays DEF Types
<1> QED
  BY <1>2, <1>3, <1>8, <1>9, <1>10 DEF Types, Setting

LEMMA InRoomType == InRoom \in BOOLEAN /\ (~InRoom) \in BOOLEAN
BY DEF InRoom

\* An echo goes to the connection of its handler, if it is there.
Back1(p, j, m) ==
    \/ Old(p, j) /\ toClient' = toClient
    \/ ~Old(p, j) /\ toClient' = [toClient EXCEPT ![p] = Append(toClient[p], m)]

LEMMA EchoTypes ==
    ASSUME Types, Setting, NEW p \in Present, NEW j \in jobs[p], Echo(p, j)
    PROVE  /\ Types' /\ Back1(p, j, Mail(p, j)) /\ Mail(p, j) \in ToClient(p)
           /\ jobs' = [jobs EXCEPT ![p] =
                        Turned(p, j, IF ~InRoom THEN {} ELSE {[j EXCEPT !.step = "deliver"]})]
<1>1. p \in People /\ j.step = "echo" /\ Done(p, j, ~InRoom, "deliver")
  BY DEF Types, BudgetOK, Present, Echo
<1>2. UNCHANGED <<at, joined, lang, history, stored, link, toServer, chatVars, lobbyVars, log,
                   sent, cuts, budget>>
  BY DEF Echo
<1>3. Back1(p, j, Mail(p, j)) /\ Mail(p, j) \in ToClient(p)
  <2>1. toClient' = [toClient EXCEPT ![p] =
            IF Old(p, j) THEN toClient[p] ELSE Append(toClient[p], Mail(p, j))]
    BY DEF Mail, Echo
  <2> QED
    BY <1>1, <2>1, MailType DEF Back1, Types, WireOK
<1>4. WireOK'
  <2>1. toServer[p] \in Seq(ToServer(p)) /\ toClient[p] \in Seq(ToClient(p))
    BY <1>1 DEF Types, WireOK
  <2>2. Append(toClient[p], Mail(p, j)) \in Seq(ToClient(p))
    BY <1>3, <2>1, AppendProperties
  <2>3. PICK c \in Seq(ToClient(p)) : toClient' = toClient \/ toClient' = [toClient EXCEPT ![p] = c]
    BY <1>3, <2>1, <2>2 DEF Back1
  <2>4. link' \in [People -> Links] /\ toServer' = toServer
    BY <1>2 DEF Types, WireOK
  <2> QED
    BY <1>1, <2>1, <2>3, <2>4, WireChanges DEF Types
<1>5. /\ ServerOK' /\ \A r \in People : JobOK(r)'
      /\ jobs' = [jobs EXCEPT ![p] =
                    Turned(p, j, IF ~InRoom THEN {} ELSE {[j EXCEPT !.step = "deliver"]})]
  BY <1>1, <1>2, InRoomType, DoneTypes
<1>6. PageOK'
  BY <1>2, PageStays DEF Types
<1> QED
  BY <1>3, <1>4, <1>5, <1>6 DEF Types, Setting

LEMMA DeliverTypes ==
    ASSUME Types, Setting, NEW p \in Present, NEW j \in jobs[p], Deliver(p, j)
    PROVE  /\ Types' /\ Mail(p, j) \in ToClient(j.to) /\ j.to \in People
           /\ IF at[j.to] # "out" \/ ~InRoom THEN Push(j.to, Mail(p, j)) ELSE UNCHANGED toClient
           /\ jobs' = [jobs EXCEPT ![p] =
                        Turned(p, j, IF InRoom THEN {} ELSE {[j EXCEPT !.step = "echo"]})]
<1>1. p \in People /\ j.step = "deliver" /\ Done(p, j, InRoom, "echo") /\ j.to \in People
  BY JobType DEF Types, BudgetOK, Present, Deliver
<1>2. UNCHANGED <<at, joined, lang, history, stored, link, toServer, chatVars, lobbyVars, log,
                   sent, cuts, budget>>
  BY DEF Deliver
<1>3. Mail(p, j) \in ToClient(j.to)
  BY <1>1, MailType
<1>4. IF at[j.to] # "out" \/ ~InRoom THEN Push(j.to, Mail(p, j)) ELSE UNCHANGED toClient
  BY DEF Deliver, Mail
<1>5. WireOK'
  <2>1. CASE Push(j.to, Mail(p, j))
    BY <1>1, <1>2, <1>3, <2>1, PushedWire DEF Types
  <2>2. CASE UNCHANGED toClient
    BY <1>2, <2>2, WireStays DEF Types, wireVars
  <2> QED
    BY <1>4, <2>1, <2>2
<1>6. /\ ServerOK' /\ \A r \in People : JobOK(r)'
      /\ jobs' = [jobs EXCEPT ![p] =
                        Turned(p, j, IF InRoom THEN {} ELSE {[j EXCEPT !.step = "echo"]})]
  <2>1. CASE InRoom
    <3>1. Done(p, j, TRUE, "echo")
      BY <1>1, <2>1 DEF Done
    <3> QED
      BY <1>1, <1>2, <2>1, <3>1, DoneTypes
  <2>2. CASE ~InRoom
    <3>1. Done(p, j, FALSE, "echo")
      BY <1>1, <2>2 DEF Done
    <3> QED
      BY <1>1, <1>2, <2>2, <3>1, DoneTypes
  <2> QED
    BY <2>1, <2>2
<1>7. PageOK'
  BY <1>2, PageStays DEF Types
<1> QED
  BY <1>1, <1>3, <1>4, <1>5, <1>6, <1>7 DEF Types, Setting

LEMMA LoseTypes == ASSUME Types, Setting, NEW p \in Present, Lose(p) PROVE Types'
<1>1. p \in People
  BY DEF Types, BudgetOK, Present
<1>2. /\ link' = [link EXCEPT ![p] = "down"]
      /\ joined' = [joined EXCEPT ![p] = FALSE]
      /\ toServer' = [toServer EXCEPT ![p] = <<>>]
      /\ toClient' = [toClient EXCEPT ![p] = <<>>]
      /\ cuts' = [cuts EXCEPT ![p] = cuts[p] \cup {sent[p]}]
      /\ UNCHANGED <<at, lang, history, stored, jobs, chatVars, lobbyVars, log, sent>>
  BY DEF Lose
<1>3. link' \in [People -> Links] /\ <<>> \in Seq(ToServer(p)) /\ <<>> \in Seq(ToClient(p))
  BY <1>2, EmptySeq DEF Types, WireOK, Links
<1>4. WireOK'
  BY <1>1, <1>2, <1>3, WireChanges DEF Types
<1>5. joined' \in [People -> BOOLEAN]
  BY <1>1, <1>2 DEF Types, ServerOK
<1>6. ServerOK' /\ \A r \in People : JobOK(r)'
  BY <1>2, <1>5, ServerChanges DEF Types, ServerOK
<1>7. cuts' \in [People -> SUBSET Nat]
  BY <1>1, <1>2 DEF Types, PageOK
<1>8. PageOK'
  BY <1>2, <1>7 DEF Types, PageOK, chatVars, lobbyVars, Setting, Others
<1> QED
  BY <1>4, <1>6, <1>8 DEF Types, Setting

LEMMA DisconnectTypes == ASSUME Types, Setting, NEW p \in Present, HandleDisconnect(p) PROVE Types'
<1>1. p \in People
  BY DEF Types, BudgetOK, Present
<1>2. /\ link' = [link EXCEPT ![p] = IF link[p] = "up" THEN "deaf" ELSE link[p]]
      /\ at' = [at EXCEPT ![p] = IF at[p] = "in" THEN "lost" ELSE at[p]]
      /\ toClient' = [q \in People |->
            IF InRoom /\ at[p] = "in" /\ q \in Others(p) /\ at[q] # "out" /\ link[q] = "up"
            THEN Append(toClient[q], Msg("left", p, q, 0, None, None)) ELSE toClient[q]]
      /\ UNCHANGED <<joined, lang, history, stored, jobs, toServer, chatVars, lobbyVars, log, sent, cuts>>
  BY DEF HandleDisconnect
<1>3. link' \in [People -> Links]
  BY <1>1, <1>2 DEF Types, WireOK, Links
<1>4. \A q \in People : toClient'[q] \in Seq(ToClient(q))
  <2>1. ASSUME NEW q \in People PROVE toClient'[q] \in Seq(ToClient(q))
    <3>1. toClient[q] \in Seq(ToClient(q))
      BY DEF Types, WireOK
    <3>2. Msg("left", p, q, 0, None, None) \in ToClient(q)
      BY <1>1 DEF ToClient, Msg, Messages, Names, Words, Marks
    <3>3. Append(toClient[q], Msg("left", p, q, 0, None, None)) \in Seq(ToClient(q))
      BY <3>1, <3>2, AppendProperties
    <3>4. toClient'[q] \in {toClient[q], Append(toClient[q], Msg("left", p, q, 0, None, None))}
      BY <1>2
    <3> QED
      BY <3>1, <3>3, <3>4
  <2> QED
    BY <2>1
<1>5. toClient' \in [People -> Seq(Messages)]
  <2>1. \A q \in People : Seq(ToClient(q)) \subseteq Seq(Messages)
    <3>1. \A q \in People : ToClient(q) \subseteq Messages
      BY DEF ToClient
    <3> QED
      BY <3>1, SeqMonotonic
  <2>2. \A q \in People : toClient'[q] \in Seq(Messages)
    BY <1>4, <2>1
  <2>3. toClient' = [q \in People |-> toClient'[q]]
    BY <1>2
  <2> QED
    BY <2>2, <2>3
<1>6. \A r \in People : ToServer(r)' = ToServer(r) /\ ToClient(r)' = ToClient(r)
  BY DEF ToServer, ToClient, Setting, Others
<1>7. WireOK'
  BY <1>2, <1>3, <1>4, <1>5, <1>6 DEF Types, WireOK
<1>8. at' \in [People -> {"in", "lost", "out"}]
  BY <1>1, <1>2 DEF Types, ServerOK
<1>9. ServerOK' /\ \A r \in People : JobOK(r)'
  BY <1>2, <1>8, ServerChanges DEF Types, ServerOK
<1>10. PageOK'
  BY <1>2, PageStays DEF Types
<1> QED
  BY <1>7, <1>9, <1>10 DEF Types, Setting

LEMMA ReopenTypes == ASSUME Types, Setting, NEW p \in Present, Reopen(p) PROVE Types'
<1>1. p \in People
  BY DEF Types, BudgetOK, Present
<1>2. PICK m : m = Msg("join", p, None, 0, None, None)
  OBVIOUS
<1>3. m \in ToServer(p)
  BY <1>1, <1>2 DEF ToServer, Msg, Messages, Names, Words, Marks
<1>4. toServer[p] \in Seq(ToServer(p)) /\ toClient[p] \in Seq(ToClient(p))
  BY <1>1 DEF Types, WireOK
<1>5. Append(toServer[p], m) \in Seq(ToServer(p))
  BY <1>3, <1>4, AppendProperties
<1>6. \E s \in Seq(ToServer(p)) : toServer' = [toServer EXCEPT ![p] = s]
  BY <1>2, <1>4, <1>5 DEF Reopen
<1>7. link' \in [People -> Links] /\ toClient' = toClient /\ WireOK
  BY DEF Reopen, Types, WireOK, Links
<1>8. WireOK'
  BY <1>1, <1>4, <1>6, <1>7, WireChanges
<1>9. ServerOK' /\ \A r \in People : JobOK(r)'
  BY ServerStays DEF Reopen
<1>10. PageOK'
  BY PageStays DEF Reopen, Types
<1> QED
  BY <1>8, <1>9, <1>10 DEF Types, Setting

-----------------------------------------------------------------------------
(* Types: what is heard                                                    *)

\* The message of a chat that p hears, and whose chat it belongs to.
Got(p, m) == m = Head(toClient[p]) /\ m \in ToClient(p) /\ m.type = "chat"
With(p, m) == IF m.from = p THEN m.to ELSE m.from

LEMMA GotTypes ==
    ASSUME Types, NEW p \in Present, NEW m, Got(p, m)
    PROVE  /\ m \in Messages /\ m.from \in People /\ m.to \in People /\ With(p, m) \in People
           /\ With(p, m) # p /\ m.got \in Shown /\ m.got \in Marks /\ m.text \in Texts
           /\ m.from # m.to /\ p \in {m.from, m.to}
BY DEF Got, ToClient, With, Types, BudgetOK, Present, Marks, Messages

\* The entry that a message of somebody else becomes.
Theirs(m, seen) == Entry(m.from, m.n, m.text, FALSE, m.got, seen)

LEMMA TheirsType ==
    ASSUME Types, NEW p \in Present, NEW m, Got(p, m), NEW seen \in BOOLEAN
    PROVE  Theirs(m, seen) \in Entries
BY GotTypes, EntryType DEF Theirs, Messages

\* The echo of an own message is matched, any other message is shown.
Matched(p, q, m) ==
    /\ m.from = p /\ m.text \in pending[p]
    /\ Updated(log[p][q], log'[p][q], m)
    /\ pending' = [pending EXCEPT ![p] = pending[p] \ {m.text}]
Showed(p, q, m) ==
    /\ ~(m.from = p /\ m.text \in pending[p])
    /\ log'[p][q] = Append(log[p][q], Theirs(m, TRUE)) /\ pending' = pending

Popped(p) == toClient' = [toClient EXCEPT ![p] = Tail(toClient[p])]

LEMMA OnChatTypes ==
    ASSUME Types, Setting, NEW p \in Present, OnChat(p)
    PROVE  /\ Types' /\ InRoom
           /\ \E m \in Messages :
              /\ Got(p, m) /\ Popped(p)
              /\ Matched(p, With(p, m), m) \/ Showed(p, With(p, m), m)
              /\ LogElse(p, With(p, m))
<1>1. p \in People /\ InRoom /\ Hear(p, "chat")
  BY DEF Types, BudgetOK, Present, OnChat
<1>2. PICK m \in Messages : Got(p, m)
  BY <1>1, Heard DEF Got, Types, ToClient
<1>3. PICK q \in People : q = With(p, m)
  BY <1>2, GotTypes
<1>4. PICK s \in Seq(Entries) : s = log[p][q]
  BY <1>1 DEF Types, PageOK
<1>5. PICK mine \in BOOLEAN : mine <=> m.from = p /\ m.text \in pending[p]
  OBVIOUS
<1>6. /\ typing' = [typing EXCEPT ![p] = @ /\ m.from = p]
      /\ pending' = [pending EXCEPT ![p] = IF mine THEN StillPending(p, m.text) ELSE @]
      /\ log' = [log EXCEPT ![p][q] = IF mine THEN UpdateFirst(@, m)
                                      ELSE Append(@, Theirs(m, TRUE))]
      /\ UNCHANGED <<inCall, timer, unread>>
  BY <1>2, <1>3, <1>5, Zenon DEF OnChat, With, Got, Theirs
<1>7. PICK t : t = IF mine THEN UpdateFirst(s, m) ELSE Append(s, Theirs(m, TRUE))
  OBVIOUS
<1>8. t \in Seq(Entries) /\ (mine => Updated(s, t, m))
  <2>1. Updated(s, UpdateFirst(s, m), m)
    BY UpdatedFirst
  <2>2. Theirs(m, TRUE) \in Entries
    BY <1>2, TheirsType
  <2>3. Append(s, Theirs(m, TRUE)) \in Seq(Entries)
    BY <2>2, AppendProperties
  <2> QED
    BY <1>7, <2>1, <2>3 DEF Updated
<1>9. log' = [log EXCEPT ![p][q] = t]
  BY <1>4, <1>6, <1>7, Zenon
<1>10. PageOK
  BY DEF Types
<1>11. LogIs(p, q, t)
  BY <1>1, <1>3, <1>8, <1>9, <1>10, LogChanges
<1>12. typing' \in [People -> BOOLEAN]
  <2>1. (typing[p] /\ m.from = p) \in BOOLEAN
    OBVIOUS
  <2> QED
    BY <1>6, <2>1 DEF Types, PageOK
<1>13. pending' \in [People -> SUBSET Texts]
  BY <1>1, <1>6 DEF StillPending, Types, PageOK
<1>14. UNCHANGED <<serverVars, link, toServer, open, openRef, called, sent, cuts, budget>>
  BY <1>1 DEF Hear
<1>15. PageOK'
  BY <1>6, <1>11, <1>12, <1>13, <1>14, PageChanges DEF Types, PageOK, LogIs
<1>16. WireOK'
  BY <1>1, HeardWire DEF Types
<1>17. Types'
  BY <1>14, <1>15, <1>16, ServerStays DEF Types, Setting
<1>18. Popped(p)
  BY <1>1, Heard DEF Types, Popped
<1>19. /\ mine => /\ Updated(log[p][q], log'[p][q], m)
                  /\ pending' = [pending EXCEPT ![p] = pending[p] \ {m.text}]
       /\ ~mine => log'[p][q] = Append(log[p][q], Theirs(m, TRUE)) /\ pending' = pending
  <2>1. mine => pending' = [pending EXCEPT ![p] = pending[p] \ {m.text}]
    BY <1>6 DEF StillPending
  <2>2. ~mine => pending' = pending
    BY <1>6 DEF Types, PageOK
  <2> QED
    BY <1>4, <1>7, <1>8, <1>11, <2>1, <2>2 DEF LogIs
<1>20. Matched(p, q, m) \/ Showed(p, q, m)
  BY <1>5, <1>19 DEF Matched, Showed
<1>21. LogElse(p, q)
  BY <1>11 DEF LogIs
<1> QED
  BY <1>1, <1>2, <1>3, <1>17, <1>18, <1>20, <1>21

LEMMA OnEchoTypes ==
    ASSUME Types, Setting, NEW p \in Present, OnEcho(p)
    PROVE  /\ Types' /\ ~InRoom
           /\ \E m \in Messages :
              /\ Got(p, m) /\ Popped(p)
              /\ m.from = p
              /\ \/ open[p] = None /\ log' = log
                 \/ /\ open[p] \in Others(p) /\ Updated(log[p][open[p]], log'[p][open[p]], m)
                    /\ LogElse(p, open[p])
<1>1. p \in People /\ ~InRoom /\ Hear(p, "chat")
  BY DEF Types, BudgetOK, Present, OnEcho
<1>2. PICK m \in Messages : Got(p, m) /\ m.from = p
  BY <1>1, Heard DEF Got, Types, ToClient, OnEcho
<1>3. log' = IF open[p] = None THEN log ELSE [log EXCEPT ![p][open[p]] = UpdateLastDm(@, m)]
  BY <1>2 DEF OnEcho, Got
<1>4. UNCHANGED <<serverVars, link, toServer, open, openRef, called, sent, cuts, budget, chatVars, unread>>
  BY <1>1 DEF Hear, OnEcho
<1>5. WireOK'
  BY <1>1, HeardWire DEF Types
<1>6. Popped(p)
  BY <1>1, Heard DEF Types, Popped
<1>7. CASE open[p] = None
  <2>1. log' = log
    BY <1>3, <1>7
  <2>2. PageOK'
    BY <1>4, <2>1, PageStays DEF Types, lobbyVars
  <2>3. Types'
    BY <1>4, <1>5, <2>2, ServerStays DEF Types, Setting
  <2> QED
    BY <1>1, <1>2, <1>6, <1>7, <2>1, <2>3
<1>8. CASE open[p] # None
  <2>1. open[p] \in Others(p)
    BY <1>8 DEF Types, PageOK
  <2>2. PICK q \in People : q = open[p]
    BY <2>1, Others1 DEF Types
  <2>3. PICK s \in Seq(Entries) : s = log[p][q]
    BY <1>1 DEF Types, PageOK
  <2>4. PICK t : t = UpdateLastDm(s, m)
    OBVIOUS
  <2>5. Updated(s, t, m) /\ t \in Seq(Entries)
    BY <2>4, UpdatedLast DEF Updated
  <2>6. log' = [log EXCEPT ![p][q] = t]
    BY <1>3, <1>8, <2>2, <2>3, <2>4, Zenon
  <2>7. PageOK
    BY DEF Types
  <2>8. LogIs(p, q, t)
    BY <1>1, <2>2, <2>5, <2>6, <2>7, LogChanges
  <2>9. PageOK'
    BY <1>4, <2>8, PageChanges DEF Types, PageOK, chatVars, LogIs
  <2>10. Types'
    BY <1>4, <1>5, <2>9, ServerStays DEF Types, Setting
  <2> QED
    BY <1>1, <1>2, <1>6, <2>1, <2>2, <2>3, <2>5, <2>8, <2>10 DEF LogIs
<1> QED
  BY <1>7, <1>8

\* A direct message is shown, and counted when its chat is not open.
Counted(p, q, m) ==
    /\ \E seen \in BOOLEAN :
        /\ seen <=> open[p] = q
        /\ Theirs(m, seen) \in Entries
        /\ log'[p][q] = Append(log[p][q], Theirs(m, seen))
    /\ unread'[p][q] = IF q = openRef[p] THEN unread[p][q] ELSE unread[p][q] + 1

LEMMA OnDMTypes ==
    ASSUME Types, Setting, NEW p \in Present, OnDM(p)
    PROVE  /\ Types' /\ ~InRoom
           /\ \E m \in Messages :
              /\ Got(p, m) /\ Popped(p) /\ m.from # p
              /\ Counted(p, m.from, m) /\ LogElse(p, m.from) /\ UnreadElse(p, m.from)
<1>1. p \in People /\ ~InRoom /\ Hear(p, "chat")
  BY DEF Types, BudgetOK, Present, OnDM
<1>2. PICK m \in Messages : Got(p, m) /\ m.from # p
  BY <1>1, Heard DEF Got, Types, ToClient, OnDM
<1>3. PICK q \in People : q = m.from
  BY <1>2, GotTypes
<1>4. PICK seen \in BOOLEAN : seen = (open[p] = q)
  OBVIOUS
<1>5. PICK s \in Seq(Entries) : s = log[p][q]
  BY <1>1 DEF Types, PageOK
<1>6. PICK n \in Nat : n = IF q = openRef[p] THEN unread[p][q] ELSE unread[p][q] + 1
  BY <1>1 DEF Types, PageOK
<1>7. Theirs(m, seen) \in Entries
  BY <1>2, TheirsType
<1>8. PICK t \in Seq(Entries) : t = Append(s, Theirs(m, seen))
  BY <1>7, AppendProperties
<1>9. log' = [log EXCEPT ![p][q] = t]
  BY <1>2, <1>3, <1>4, <1>5, <1>8, Zenon DEF OnDM, Got, Theirs
<1>10. unread' = [unread EXCEPT ![p][q] = n]
  BY <1>2, <1>3, <1>6, Zenon DEF OnDM, Got
<1>11. UNCHANGED <<serverVars, link, toServer, open, openRef, called, sent, cuts, budget, chatVars>>
  BY <1>1 DEF Hear, OnDM
<1>12. PageOK
  BY DEF Types
<1>13. LogIs(p, q, t)
  BY <1>1, <1>3, <1>8, <1>9, <1>12, LogChanges
<1>14. UnreadIs(p, q, n)
  BY <1>1, <1>3, <1>6, <1>10, <1>12, UnreadChanges
<1>15. PageOK'
  BY <1>11, <1>13, <1>14, PageChanges DEF Types, PageOK, chatVars, LogIs, UnreadIs
<1>16. WireOK'
  BY <1>1, HeardWire DEF Types
<1>17. Types'
  BY <1>11, <1>15, <1>16, ServerStays DEF Types, Setting
<1>18. Popped(p)
  BY <1>1, Heard DEF Types, Popped
<1>19. Counted(p, q, m)
  <2>1. log'[p][q] = Append(log[p][q], Theirs(m, seen))
    BY <1>5, <1>8, <1>13 DEF LogIs
  <2>2. unread'[p][q] = IF q = openRef[p] THEN unread[p][q] ELSE unread[p][q] + 1
    BY <1>6, <1>14 DEF UnreadIs
  <2>3. seen <=> open[p] = q
    BY <1>4
  <2> QED
    BY <1>7, <2>1, <2>2, <2>3 DEF Counted
<1> QED
  BY <1>1, <1>2, <1>3, <1>13, <1>14, <1>17, <1>18, <1>19 DEF LogIs, UnreadIs

LEMMA SignTypes ==
    ASSUME Types, Setting, NEW p \in Present, OnTyping(p) \/ OnPeerLeft(p) \/ TypingOver(p)
    PROVE  Types'
<1>1. p \in People
  BY DEF Types, BudgetOK, Present
<1>2. CASE OnTyping(p) \/ OnPeerLeft(p)
  <2>1. PICK type : Hear(p, type)
    BY <1>2 DEF OnTyping, OnPeerLeft
  <2>2. WireOK'
    BY <1>1, <2>1, HeardWire DEF Types
  <2>3. ServerOK' /\ \A r \in People : JobOK(r)'
    BY <2>1, ServerStays DEF Hear
  <2>4. UNCHANGED <<open, openRef, called, sent, cuts>>
    BY <2>1 DEF Hear
  <2>5. PageOK'
    BY <1>1, <1>2, <2>4, PageChanges DEF OnTyping, OnPeerLeft, Types, PageOK
  <2> QED
    BY <2>2, <2>3, <2>5 DEF Types, Setting
<1>3. CASE TypingOver(p)
  <2>1. WireOK'
    BY <1>3, WireStays DEF Types, TypingOver
  <2>2. ServerOK' /\ \A r \in People : JobOK(r)'
    BY <1>3, ServerStays DEF TypingOver
  <2>3. PageOK'
    BY <1>1, <1>3, PageChanges DEF TypingOver, Types, PageOK, lobbyVars
  <2> QED
    BY <2>1, <2>2, <2>3 DEF Types, Setting
<1> QED
  BY <1>2, <1>3

LEMMA TypesStep == Types /\ [Next]_vars => Types'
<1> SUFFICES ASSUME Types, [Next]_vars PROVE Types'
  OBVIOUS
<1>1. CASE UNCHANGED vars
  <2>1. Setting
    BY <1>1, SamePlace DEF vars, Types, Setting
  <2> QED
    BY <1>1, <2>1, ServerStays, WireStays, PageStays DEF vars, Types, Setting
<1>2. CASE Next
  <2>1. Setting
    BY <1>2, Setup DEF Types
  <2>2. PICK p \in Present : Buttons(p) \/ Server(p) \/ Browser(p) \/ Lose(p) \/ Reopen(p)
    BY <1>2 DEF Next
  <2>3. CASE Buttons(p)
    BY <2>1, <2>3, SendMessageTypes, SendDMTypes, SendTypingTypes, ChangeLangTypes, OpenChatTypes,
       CloseTypes DEF Buttons
  <2>4. CASE Server(p)
    BY <2>1, <2>4, HandleTypes, RefuseTypes, RelayTypingTypes, HandleLangTypes, HandleRejoinTypes,
       DisconnectTypes, RemovedTypes, TranslateTypes, AddTypes, EchoTypes, DeliverTypes DEF Server
  <2>5. CASE Browser(p)
    BY <2>1, <2>5, OnChatTypes, OnEchoTypes, OnDMTypes, SignTypes DEF Browser
  <2> QED
    BY <2>1, <2>2, <2>3, <2>4, <2>5, LoseTypes, ReopenTypes
<1> QED
  BY <1>1, <1>2

LEMMA TypesHold == Spec => []Types
BY Init1, TypesStep, PTL DEF Spec

Ends == busy \in [People -> Nat] /\ ending \in [People -> Nat]

LEMMA DoneEnds ==
    ASSUME Types, Ends, NEW p \in People, NEW j, NEW last, NEW next, Done(p, j, last, next)
    PROVE  Ends'
<1>1. CASE last
  <2>1. busy[p] \in Nat /\ ending[p] \in Nat /\ ending[p] + 1 \in Nat
    BY DEF Ends
  <2>2. PICK x \in Nat, y \in Nat : busy' = [busy EXCEPT ![p] = x] /\ ending' = [ending EXCEPT ![p] = y]
    <3>1. CASE Old(p, j)
      BY <1>1, <2>1, <3>1 DEF Done
    <3>2. CASE ~Old(p, j)
      BY <1>1, <2>1, <3>2 DEF Done
    <3> QED
      BY <3>1, <3>2
  <2> QED
    BY <2>2 DEF Ends
<1>2. CASE ~last
  BY <1>2 DEF Done, Ends
<1> QED
  BY <1>1, <1>2

LEMMA EndsStep == Types /\ Ends /\ [Next]_vars => Ends'
<1> SUFFICES ASSUME Types, Ends, [Next]_vars PROVE Ends'
  OBVIOUS
<1>1. CASE UNCHANGED vars
  BY <1>1 DEF Ends, vars, serverVars, readerVars
<1>2. CASE Next
  <2>1. Setting
    BY <1>2, Setup
  <2>2. PICK p \in Present : Buttons(p) \/ Server(p) \/ Browser(p) \/ Lose(p) \/ Reopen(p)
    BY <1>2 DEF Next
  <2>3. p \in People
    BY DEF Types, BudgetOK, Present
  <2>4. CASE Buttons(p)
    BY <2>4 DEF Buttons, SendMessage, SendDM, SendTyping, ChangeLang, OpenChat, CloseChat,
                CallFromChat, Ends, serverVars, readerVars
  <2>5. CASE HandleChat(p)
    <3>1. Head(toServer[p]).n \in Nat
      <4>1. Next1(p, "chat")
        BY <2>5 DEF HandleChat, Take
      <4>2. Head(toServer[p]) \in ToServer(p)
        BY <2>3, <4>1, Taken DEF Types
      <4> QED
        BY <4>2 DEF ToServer, Messages
    <3>2. ending' = ending /\ (busy' = busy \/ busy' = [busy EXCEPT ![p] = Head(toServer[p]).n])
      BY <2>5 DEF HandleChat, Handle
    <3> QED
      BY <3>1, <3>2 DEF Ends
  <2>6. CASE \E j \in jobs[p] : Echo(p, j) \/ Deliver(p, j)
    BY <2>3, <2>6, DoneEnds DEF Echo, Deliver
  <2>7. CASE HandleDisconnect(p)
    <3>1. busy' = busy /\ ending[p] > 0 /\ ending' = [ending EXCEPT ![p] = ending[p] - 1]
      BY <2>7 DEF HandleDisconnect
    <3>2. ending[p] - 1 \in Nat
      BY <2>3, <3>1 DEF Ends
    <3> QED
      BY <3>1, <3>2 DEF Ends
  <2>8. CASE \/ Refuse(p) \/ RelayTyping(p) \/ HandleLang(p) \/ HandleRejoin(p) \/ Removed(p)
             \/ \E j \in jobs[p] : Translate(p, j) \/ AddChatMessage(p, j)
    BY <2>8 DEF Refuse, RelayTyping, HandleLang, HandleRejoin, Removed, Translate, AddChatMessage,
                Ends, serverVars, readerVars
  <2>9. CASE Browser(p)
    BY <2>9 DEF Browser, OnChat, OnEcho, OnDM, OnTyping, TypingOver, OnPeerLeft, Hear, Ends,
                serverVars, readerVars
  <2>10. CASE Lose(p)
    <3>1. busy' = [busy EXCEPT ![p] = 0]
      BY <2>10 DEF Lose
    <3>2. ending[p] \in Nat /\ ending[p] + 1 \in Nat
      BY <2>3 DEF Ends
    <3>3. PICK y \in Nat : ending' = [ending EXCEPT ![p] = y]
      BY <2>10, <3>2 DEF Lose
    <3> QED
      BY <3>1, <3>3 DEF Ends
  <2>11. CASE Reopen(p)
    BY <2>11 DEF Reopen, Ends, serverVars, readerVars
  <2> QED
    BY <2>2, <2>4, <2>5, <2>6, <2>7, <2>8, <2>9, <2>10, <2>11 DEF Server
<1> QED
  BY <1>1, <1>2

LEMMA EndsHold == Spec => [](Types /\ Ends)
<1>1. Init => Types /\ Ends
  BY Init1 DEF Init, Ends
<1>2. Types /\ Ends /\ [Next]_vars => (Types /\ Ends)'
  BY TypesStep, EndsStep
<1> QED
  BY <1>1, <1>2, PTL DEF Spec

-----------------------------------------------------------------------------
(* The badges                                                              *)

LEMMA UnseenMore ==
    ASSUME NEW s \in Seq(Entries), NEW e \in Entries
    PROVE  /\ e.seen => Unseen(Append(s, e)) = Unseen(s)
           /\ ~e.seen => Cardinality(Unseen(Append(s, e))) = Cardinality(Unseen(s)) + 1
<1>1. PICK t \in Seq(Entries) : t = Append(s, e)
  BY AppendProperties
<1>2. /\ Len(t) = Len(s) + 1 /\ DOMAIN t = 1..Len(s) + 1 /\ DOMAIN s = 1..Len(s) /\ Len(s) \in Nat
      /\ t[Len(s) + 1] = e /\ \A i \in 1..Len(s) : t[i] = s[i]
  BY <1>1, AppendProperties
<1>3. e.seen => Unseen(t) = Unseen(s)
  BY <1>2 DEF Unseen
<1>4. ~e.seen => Unseen(t) = Unseen(s) \cup {Len(s) + 1}
  BY <1>2 DEF Unseen
<1>5. IsFiniteSet(Unseen(s)) /\ Len(s) + 1 \notin Unseen(s)
  <2>1. Unseen(s) \subseteq 1..Len(s) /\ Len(s) + 1 \notin 1..Len(s)
    BY <1>2 DEF Unseen
  <2>2. IsFiniteSet(1..Len(s))
    BY <1>2, FS_Interval
  <2> QED
    BY <2>1, <2>2, FS_Subset
<1>6. Cardinality(Unseen(s) \cup {Len(s) + 1}) = Cardinality(Unseen(s)) + 1
  BY <1>5, FS_AddElement
<1> QED
  BY <1>1, <1>3, <1>4, <1>6

LEMMA UnseenUpdated ==
    ASSUME NEW s \in Seq(Entries), NEW t, NEW m, Updated(s, t, m)
    PROVE  Unseen(t) = Unseen(s)
<1>1. t \in Seq(Entries) /\ DOMAIN t = DOMAIN s
  BY DEF Updated
<1>2. ASSUME NEW i \in DOMAIN s PROVE t[i].seen = s[i].seen
  <2>1. s[i] \in Entries
    OBVIOUS
  <2> QED
    BY <2>1 DEF Updated, Entries
<1> QED
  BY <1>1, <1>2 DEF Unseen

LEMMA UnseenRead ==
    ASSUME NEW s \in Seq(Entries)
    PROVE  Unseen(Read(s)) = {}
<1>1. ASSUME NEW i \in DOMAIN s PROVE Read(s)[i].seen
  <2>1. s[i] \in Entries /\ Read(s)[i] = [s[i] EXCEPT !.seen = TRUE]
    BY ReadType
  <2> QED
    BY <2>1 DEF Entries
<1> QED
  BY <1>1, ReadType DEF Unseen

\* The same badges, for as much that is new.
LEMMA BadgeStays ==
    ASSUME Setting, NEW p \in People, Badge(p),
           open'[p] = open[p], openRef'[p] = openRef[p], called' = called, unread'[p] = unread[p],
           \A q \in People : Unseen(log'[p][q]) = Unseen(log[p][q])
    PROVE  Badge(p)'
BY DEF Badge, Setting, Unseen

LEMMA OthersBadges ==
    ASSUME Setting, Types, Types', NEW p \in People, NEW r \in People \ {p}, Badge(r),
           open'[r] = open[r], openRef'[r] = openRef[r], called' \in {called, called \cup {p}},
           \A q \in People : unread'[r][q] = unread[r][q],
           \A q \in People : log'[r][q] = log[r][q]
    PROVE  Badge(r)'
<1>1. unread'[r] = unread[r]
  <2>1. unread'[r] \in [People -> Nat] /\ unread[r] \in [People -> Nat]
    BY DEF Types, PageOK
  <2> QED
    BY <2>1
<1>2. r \in called' <=> r \in called
  OBVIOUS
<1> QED
  BY <1>1, <1>2 DEF Badge, Setting, Unseen

LEMMA Same2 ==
    ASSUME Setting, \A p \in People : Badge(p), UNCHANGED <<lobbyVars, log>>
    PROVE  \A p \in People : Badge(p)'
BY BadgeStays DEF lobbyVars

Badges == \A p \in People : Badge(p)

LEMMA BadgeWrite ==
    ASSUME Types, Types', Setting, Badges, NEW p \in Present, NEW q \in Others(p), NEW text \in Texts,
           Write(p, q, text), UNCHANGED <<link, toClient, lobbyVars>>
    PROVE  Badges'
<1>1. p \in People /\ q \in People
  BY Others1 DEF Types
<1>2. LogIs(p, q, Append(log[p][q], Draft(p, text))) /\ Draft(p, text) \in Entries
  BY Written
<1>3. log[p][q] \in Seq(Entries) /\ Draft(p, text).seen
  BY <1>1 DEF Types, PageOK, Draft, Entry
<1>4. Unseen(log'[p][q]) = Unseen(log[p][q])
  <2>1. Unseen(Append(log[p][q], Draft(p, text))) = Unseen(log[p][q])
    BY <1>2, <1>3, UnseenMore
  <2> QED
    BY <1>2, <2>1 DEF LogIs
<1>5. \A r, t \in People : Unseen(log'[r][t]) = Unseen(log[r][t])
  BY <1>2, <1>4 DEF LogIs, LogElse
<1> QED
  BY <1>5, BadgeStays DEF Badges, lobbyVars

LEMMA BadgeOpen ==
    ASSUME Types, Types', Setting, Badges, NEW p \in Present, OpenChat(p)
    PROVE  Badges'
<1>1. PICK q \in Others(p) : open' = [open EXCEPT ![p] = q] /\ openRef' = [openRef EXCEPT ![p] = q]
                              /\ unread' = [unread EXCEPT ![p][q] = 0]
                              /\ log' = [log EXCEPT ![p][q] = Read(log[p][q])]
  BY Zenon DEF OpenChat, Read
<1>2. UNCHANGED <<serverVars, wireVars, chatVars, called, sent, cuts>> /\ ~InRoom
  BY DEF OpenChat
<1>3. LogIs(p, q, Read(log[p][q])) /\ UnreadIs(p, q, 0)
  BY <1>1, <1>2, Opened
<1>4. p \in People /\ q \in People
  BY Others1 DEF Types
<1>5. /\ open'[p] = q /\ openRef'[p] = q
      /\ \A r \in People \ {p} : open'[r] = open[r] /\ openRef'[r] = openRef[r]
  BY <1>1, <1>4 DEF Types, PageOK
<1>6. ASSUME NEW r \in People \ {p} PROVE Badge(r)'
  <2>1. \A t \in People : unread'[r][t] = unread[r][t] /\ log'[r][t] = log[r][t]
    BY <1>3 DEF LogIs, LogElse, UnreadIs, UnreadElse
  <2> QED
    BY <1>2, <1>4, <1>5, <2>1, OthersBadges DEF Badges
<1>7. ASSUME NEW t \in People, p \in Present \ called
      PROVE  unread'[p][t] = Cardinality(Unseen(log'[p][t]))
  <2>1. CASE t = q
    <3>1. log[p][q] \in Seq(Entries)
      BY <1>4 DEF Types, PageOK
    <3>2. Unseen(log'[p][t]) = {}
      BY <1>3, <2>1, <3>1, UnseenRead DEF LogIs
    <3> QED
      BY <1>3, <2>1, <3>2, FS_EmptySet DEF UnreadIs
  <2>2. CASE t # q
    <3>1. unread'[p][t] = unread[p][t] /\ log'[p][t] = log[p][t]
      BY <1>3, <1>4, <2>2 DEF LogIs, LogElse, UnreadIs, UnreadElse
    <3> QED
      BY <1>4, <1>7, <3>1 DEF Badges, Badge
  <2> QED
    BY <2>1, <2>2
<1>8. Badge(p)'
  <2>1. unread'[p][q] = 0
    BY <1>3 DEF UnreadIs
  <2> QED
    BY <1>2, <1>5, <1>7, <2>1 DEF Badge, Setting, Unseen
<1> QED
  BY <1>6, <1>8 DEF Badges

LEMMA BadgeClose ==
    ASSUME Types, Types', Setting, Badges, NEW p \in Present, CloseChat(p) \/ CallFromChat(p)
    PROVE  Badges'
<1>1. p \in People
  BY DEF Types, BudgetOK, Present
<1>2. /\ open' = [open EXCEPT ![p] = None]
      /\ \/ openRef' = [openRef EXCEPT ![p] = None] /\ called' = called
         \/ openRef' = openRef /\ called' = called \cup {p}
      /\ UNCHANGED <<unread, log>>
  BY DEF CloseChat, CallFromChat
<1>3. open'[p] = None /\ \A r \in People \ {p} : open'[r] = open[r] /\ openRef'[r] = openRef[r]
  BY <1>1, <1>2 DEF Types, PageOK
<1>4. ASSUME NEW r \in People \ {p} PROVE Badge(r)'
  BY <1>1, <1>2, <1>3, OthersBadges DEF Badges
<1>5. p \notin called' => openRef'[p] = None /\ called' = called
  BY <1>1, <1>2 DEF Types, PageOK
<1>6. Badge(p)'
  BY <1>1, <1>2, <1>3, <1>5 DEF Badges, Badge, Setting, Unseen
<1> QED
  BY <1>4, <1>6 DEF Badges

LEMMA BadgeOnChat ==
    ASSUME Types, Types', Setting, Badges, NEW p \in Present, OnChat(p)
    PROVE  Badges'
<1>1. PICK m \in Messages : /\ Got(p, m)
                            /\ Matched(p, With(p, m), m) \/ Showed(p, With(p, m), m)
                            /\ LogElse(p, With(p, m))
  BY OnChatTypes
<1>2. PICK q \in People : q = With(p, m)
  BY <1>1, GotTypes
<1>3. p \in People
  BY DEF Types, BudgetOK, Present
<1>4. log[p][q] \in Seq(Entries)
  BY <1>3 DEF Types, PageOK
<1>5. Unseen(log'[p][q]) = Unseen(log[p][q])
  <2>1. CASE Matched(p, q, m)
    BY <1>4, <2>1, UnseenUpdated DEF Matched
  <2>2. CASE Showed(p, q, m)
    <3>1. Theirs(m, TRUE) \in Entries /\ Theirs(m, TRUE).seen
      BY <1>1, TheirsType DEF Theirs, Entry
    <3> QED
      BY <1>4, <2>2, <3>1, UnseenMore DEF Showed
  <2> QED
    BY <1>1, <1>2, <2>1, <2>2
<1>6. \A r, t \in People : Unseen(log'[r][t]) = Unseen(log[r][t])
  BY <1>1, <1>2, <1>5 DEF LogElse
<1>7. UNCHANGED <<open, openRef, called, unread>>
  BY DEF OnChat, Hear
<1> QED
  BY <1>6, <1>7, BadgeStays DEF Badges

LEMMA BadgeOnEcho ==
    ASSUME Types, Types', Setting, Badges, NEW p \in Present, OnEcho(p)
    PROVE  Badges'
<1>1. UNCHANGED <<open, openRef, called, unread>>
  BY DEF OnEcho, Hear
<1>2. PICK m \in Messages :
        \/ log' = log
        \/ /\ open[p] \in Others(p) /\ Updated(log[p][open[p]], log'[p][open[p]], m)
           /\ LogElse(p, open[p])
  BY OnEchoTypes
<1>3. CASE log' = log
  BY <1>1, <1>3, BadgeStays DEF Badges
<1>4. CASE /\ open[p] \in Others(p) /\ Updated(log[p][open[p]], log'[p][open[p]], m)
           /\ LogElse(p, open[p])
  <2>1. PICK q \in People : q = open[p]
    BY <1>4, Others1 DEF Types
  <2>2. p \in People
    BY DEF Types, BudgetOK, Present
  <2>3. log[p][q] \in Seq(Entries)
    BY <2>2 DEF Types, PageOK
  <2>4. Unseen(log'[p][q]) = Unseen(log[p][q])
    BY <1>4, <2>1, <2>3, UnseenUpdated
  <2>5. \A r, t \in People : Unseen(log'[r][t]) = Unseen(log[r][t])
    BY <1>4, <2>1, <2>4 DEF LogElse
  <2> QED
    BY <1>1, <2>5, BadgeStays DEF Badges
<1> QED
  BY <1>2, <1>3, <1>4

LEMMA BadgeOnDM ==
    ASSUME Types, Types', Setting, Badges, NEW p \in Present, OnDM(p)
    PROVE  Badges'
<1>1. PICK m \in Messages : /\ Got(p, m) /\ m.from # p
                            /\ Counted(p, m.from, m) /\ LogElse(p, m.from) /\ UnreadElse(p, m.from)
  BY OnDMTypes
<1>2. PICK q \in People : q = m.from
  BY <1>1, GotTypes
<1>3. p \in People
  BY DEF Types, BudgetOK, Present
<1>4. log[p][q] \in Seq(Entries) /\ unread[p][q] \in Nat
  BY <1>3 DEF Types, PageOK
<1>5. UNCHANGED <<open, openRef, called>>
  BY DEF OnDM, Hear
<1>6. ASSUME NEW r \in People \ {p} PROVE Badge(r)'
  <2>1. \A t \in People : unread'[r][t] = unread[r][t] /\ log'[r][t] = log[r][t]
    BY <1>1, <1>2 DEF LogElse, UnreadElse
  <2> QED
    BY <1>3, <1>5, <2>1, OthersBadges DEF Badges
<1>7. PICK seen \in BOOLEAN : /\ seen <=> open[p] = q
                              /\ Theirs(m, seen) \in Entries
                              /\ log'[p][q] = Append(log[p][q], Theirs(m, seen))
  BY <1>1, <1>2 DEF Counted
<1>8. unread'[p][q] = IF q = openRef[p] THEN unread[p][q] ELSE unread[p][q] + 1
  BY <1>1, <1>2 DEF Counted
<1>9. Theirs(m, seen).seen <=> open[p] = q
  BY <1>7 DEF Theirs, Entry
<1>10. ASSUME NEW t \in People, p \in Present \ called
       PROVE  unread'[p][t] = Cardinality(Unseen(log'[p][t]))
  <2>1. unread[p][t] = Cardinality(Unseen(log[p][t])) /\ openRef[p] = open[p]
    BY <1>3, <1>10 DEF Badges, Badge
  <2>2. CASE t = q
    BY <1>4, <1>7, <1>8, <1>9, <2>1, <2>2, UnseenMore
  <2>3. CASE t # q
    BY <1>1, <1>2, <1>3, <2>1, <2>3 DEF LogElse, UnreadElse
  <2> QED
    BY <2>2, <2>3
<1>11. open[p] # None => openRef[p] = open[p] /\ unread'[p][open[p]] = 0
  <2>1. SUFFICES ASSUME open[p] # None PROVE openRef[p] = open[p] /\ unread'[p][open[p]] = 0
    OBVIOUS
  <2>2. openRef[p] = open[p] /\ unread[p][open[p]] = 0 /\ open[p] \in People
    BY <1>3, <2>1 DEF Badges, Badge, Types, PageOK, Names
  <2>3. CASE open[p] = q
    BY <1>8, <2>2, <2>3
  <2>4. CASE open[p] # q
    BY <1>1, <1>2, <1>3, <2>2, <2>4 DEF UnreadElse
  <2> QED
    BY <2>2, <2>3, <2>4
<1>12. Badge(p)'
  BY <1>3, <1>5, <1>10, <1>11 DEF Badges, Badge, Setting, Unseen
<1> QED
  BY <1>6, <1>12 DEF Badges

LEMMA BadgeInit == Init => Badges
<1> SUFFICES ASSUME Init, NEW p \in People, NEW q \in People
             PROVE  open[p] = None /\ openRef[p] = None /\ unread[p][q] = Cardinality(Unseen(log[p][q]))
  BY DEF Badges, Badge, Init
<1>1. log[p][q] = <<>> /\ unread[p][q] = 0
  BY DEF Init
<1>2. Unseen(log[p][q]) = {}
  BY <1>1 DEF Unseen
<1> QED
  BY <1>1, <1>2, FS_EmptySet DEF Init

LEMMA BadgeStep == Types /\ Types' /\ Badges /\ [Next]_vars => Badges'
<1> SUFFICES ASSUME Types, Types', Badges, [Next]_vars PROVE Badges'
  OBVIOUS
<1>1. CASE UNCHANGED vars
  BY <1>1, SamePlace, Same2 DEF vars, Types, Setting, Badges
<1>2. CASE Next
  <2>1. Setting
    BY <1>2, Setup DEF Types
  <2>2. PICK p \in Present : Buttons(p) \/ Server(p) \/ Browser(p) \/ Lose(p) \/ Reopen(p)
    BY <1>2 DEF Next
  <2>3. CASE SendMessage(p)
    BY <2>1, <2>3, BadgeWrite DEF SendMessage
  <2>4. CASE SendDM(p)
    BY <2>1, <2>4, BadgeWrite DEF SendDM, Types, PageOK
  <2>5. CASE OpenChat(p)
    BY <2>1, <2>5, BadgeOpen
  <2>6. CASE CloseChat(p) \/ CallFromChat(p)
    BY <2>1, <2>6, BadgeClose
  <2>7. CASE OnChat(p) \/ OnEcho(p) \/ OnDM(p)
    BY <2>1, <2>7, BadgeOnChat, BadgeOnEcho, BadgeOnDM
  <2>8. CASE SendTyping(p) \/ ChangeLang(p) \/ Lose(p) \/ Reopen(p)
    <3>1. UNCHANGED <<lobbyVars, log>>
      BY <2>8 DEF SendTyping, ChangeLang, Lose, Reopen
    <3> QED
      BY <2>1, <3>1, Same2 DEF Badges
  <2>9. CASE Server(p)
    <3>1. UNCHANGED <<lobbyVars, log>>
      BY <2>9 DEF Server, HandleChat, Refuse, RelayTyping, HandleLang, HandleRejoin, Removed,
                  HandleDisconnect, Translate, AddChatMessage, Echo, Deliver
    <3> QED
      BY <2>1, <3>1, Same2 DEF Badges
  <2>10. CASE OnTyping(p) \/ TypingOver(p) \/ OnPeerLeft(p)
    <3>1. UNCHANGED <<lobbyVars, log>>
      BY <2>10 DEF OnTyping, TypingOver, OnPeerLeft, Hear, lobbyVars
    <3> QED
      BY <2>1, <3>1, Same2 DEF Badges
  <2> QED
    BY <2>2, <2>3, <2>4, <2>5, <2>6, <2>7, <2>8, <2>9, <2>10 DEF Buttons, Browser
<1> QED
  BY <1>1, <1>2

LEMMA BadgesHold == Spec => [](Types /\ Badges)
<1>1. Init => Types /\ Badges
  BY Init1, BadgeInit
<1>2. Types /\ Badges /\ [Next]_vars => (Types /\ Badges)'
  BY TypesStep, BadgeStep
<1> QED
  BY <1>1, <1>2, PTL DEF Spec

LEMMA TypesMeant == Types /\ Ends /\ Badges => TypeOK
<1> SUFFICES ASSUME Types, Ends, Badges PROVE TypeOK
  OBVIOUS
<1>1. \A p \in People : jobs[p] \subseteq Jobs
  BY DEF Types, ServerOK
<1>2. \A p \in People : open[p] # None => openRef[p] = open[p] /\ unread[p][open[p]] = 0
  BY DEF Badges, Badge
<1> QED
  BY <1>1, <1>2 DEF Types, Ends, ServerOK, WireOK, Links, PageOK, TypeOK

\* Every variable has its type, and a chat that is open counts nothing.
THEOREM TypeCorrect == Spec => []TypeOK
BY EndsHold, BadgesHold, TypesMeant, PTL

\* The badge at a name is the number of messages that were not on the screen yet,
\* for whoever did not call somebody out of a chat.
THEOREM BadgesRight == Spec => []BadgeRight
<1>1. Types /\ Badges => BadgeRight
  BY DEF Types, BudgetOK, Present, Badges, Badge, BadgeRight, Unseen
<1> QED
  BY <1>1, BadgesHold, PTL

-----------------------------------------------------------------------------
(* Queues                                                                  *)

LEMMA ChatsIn ==
    ASSUME NEW s \in Seq(Messages), NEW m
    PROVE  m \in Chats(s) <=> \E i \in 1..Len(s) : s[i] = m /\ m.type = "chat"
BY DEF Chats

LEMMA ChatsMore ==
    ASSUME NEW s \in Seq(Messages), NEW m \in Messages
    PROVE  Chats(Append(s, m)) = Chats(s) \cup (IF m.type = "chat" THEN {m} ELSE {})
<1>1. PICK t \in Seq(Messages) : t = Append(s, m)
  BY AppendProperties
<1>2. /\ Len(t) = Len(s) + 1 /\ Len(s) \in Nat
      /\ t[Len(s) + 1] = m /\ \A i \in 1..Len(s) : t[i] = s[i]
  BY <1>1, AppendProperties
<1>3. ASSUME NEW c PROVE c \in Chats(t) <=> c \in Chats(s) \/ (m.type = "chat" /\ c = m)
  <2>1. c \in Chats(t) <=> \E i \in 1..(Len(s) + 1) : t[i] = c /\ c.type = "chat"
    BY <1>2, ChatsIn
  <2>2. c \in Chats(s) <=> \E i \in 1..Len(s) : s[i] = c /\ c.type = "chat"
    BY ChatsIn
  <2> QED
    BY <1>2, <2>1, <2>2
<1> QED
  BY <1>1, <1>3

LEMMA ChatsTail ==
    ASSUME NEW s \in Seq(Messages), s # <<>>
    PROVE  Chats(s) = Chats(Tail(s)) \cup (IF Head(s).type = "chat" THEN {Head(s)} ELSE {})
<1>1. PICK t \in Seq(Messages) : t = Tail(s)
  BY HeadTailProperties
<1>2. /\ Len(s) = Len(t) + 1 /\ Len(t) \in Nat
      /\ s[1] = Head(s) /\ \A i \in 1..Len(t) : t[i] = s[i + 1]
  BY <1>1, HeadTailProperties
<1>3. ASSUME NEW c PROVE c \in Chats(s) <=> c \in Chats(t) \/ (Head(s).type = "chat" /\ c = Head(s))
  <2>1. c \in Chats(s) <=> \E i \in 1..(Len(t) + 1) : s[i] = c /\ c.type = "chat"
    BY <1>2, ChatsIn
  <2>2. c \in Chats(t) <=> \E i \in 1..Len(t) : t[i] = c /\ c.type = "chat"
    BY ChatsIn
  <2>3. c \in Chats(t) => c \in Chats(s)
    BY <1>2, <2>1, <2>2
  <2>4. c \in Chats(s) => c \in Chats(t) \/ (Head(s).type = "chat" /\ c = Head(s))
    <3>1. SUFFICES ASSUME c \in Chats(s), c # Head(s) PROVE c \in Chats(t)
      BY <2>1, <1>2
    <3>2. PICK i \in 1..(Len(t) + 1) : s[i] = c /\ c.type = "chat"
      BY <2>1, <3>1
    <3>3. i - 1 \in 1..Len(t) /\ (i - 1) + 1 = i
      BY <1>2, <3>1, <3>2
    <3> QED
      BY <1>2, <2>2, <3>2, <3>3
  <2> QED
    BY <1>2, <2>1, <2>3, <2>4
<1> QED
  BY <1>1, <1>3

LEMMA ChatsNone == Chats(<<>>) = {}
BY DEF Chats

LEMMA RisingNone == ASSUME NEW C PROVE Rising(C, <<>>)
BY DEF Rising

LEMMA NoCutFollows == ASSUME NEW p \in People, NEW a, NEW b PROVE Follows(NoCuts[p], a, b) <=> a < b
BY DEF Follows, NoCuts

LEMMA CutFollows ==
    ASSUME NEW C, NEW C1, C \subseteq C1, NEW a, NEW b, Follows(C, a, b)
    PROVE  Follows(C1, a, b)
BY DEF Follows

LEMMA RisingMore ==
    ASSUME NEW C, NEW s \in Seq(Messages), NEW m \in Messages, Rising(C, s),
           m.type = "chat" => \A c \in Chats(s) : c.from = m.from => Follows(C[c.from], c.n, m.n)
    PROVE  Rising(C, Append(s, m))
<1>1. PICK t \in Seq(Messages) : t = Append(s, m)
  BY AppendProperties
<1>2. /\ Len(t) = Len(s) + 1 /\ Len(s) \in Nat
      /\ t[Len(s) + 1] = m /\ \A i \in 1..Len(s) : t[i] = s[i]
  BY <1>1, AppendProperties
<1>3. ASSUME NEW i \in 1..Len(t), NEW k \in 1..Len(t),
             i < k /\ t[i].type = "chat" /\ t[k].type = "chat" /\ t[i].from = t[k].from
      PROVE  Follows(C[t[i].from], t[i].n, t[k].n)
  <2>1. i \in 1..Len(s) /\ t[i] = s[i]
    BY <1>2, <1>3
  <2>2. CASE k \in 1..Len(s)
    BY <1>2, <1>3, <2>1, <2>2 DEF Rising
  <2>3. CASE k = Len(s) + 1
    <3>1. s[i] \in Chats(s)
      BY <1>3, <2>1, ChatsIn
    <3> QED
      BY <1>2, <1>3, <2>1, <2>3, <3>1
  <2> QED
    BY <1>2, <2>2, <2>3
<1> QED
  BY <1>1, <1>3 DEF Rising

LEMMA RisingTail ==
    ASSUME NEW C, NEW s \in Seq(Messages), s # <<>>, Rising(C, s)
    PROVE  /\ Rising(C, Tail(s))
           /\ Head(s).type = "chat" =>
                \A c \in Chats(Tail(s)) : c.from = Head(s).from =>
                    Follows(C[c.from], Head(s).n, c.n)
<1>1. PICK t \in Seq(Messages) : t = Tail(s)
  BY HeadTailProperties
<1>2. /\ Len(s) = Len(t) + 1 /\ Len(t) \in Nat
      /\ s[1] = Head(s) /\ \A i \in 1..Len(t) : t[i] = s[i + 1]
  BY <1>1, HeadTailProperties
<1>3. Rising(C, t)
  <2>1. ASSUME NEW i \in 1..Len(t), NEW k \in 1..Len(t),
               i < k /\ t[i].type = "chat" /\ t[k].type = "chat" /\ t[i].from = t[k].from
        PROVE  Follows(C[t[i].from], t[i].n, t[k].n)
    <3>1. i + 1 \in 1..Len(s) /\ k + 1 \in 1..Len(s) /\ i + 1 < k + 1
      BY <1>2, <2>1
    <3>2. t[i] = s[i + 1] /\ t[k] = s[k + 1]
      BY <1>2
    <3> QED
      BY <2>1, <3>1, <3>2 DEF Rising
  <2> QED
    BY <2>1 DEF Rising
<1>4. ASSUME Head(s).type = "chat", NEW c \in Chats(t), c.from = Head(s).from
      PROVE  Follows(C[c.from], Head(s).n, c.n)
  <2>1. PICK i \in 1..Len(t) : t[i] = c /\ c.type = "chat"
    BY ChatsIn
  <2>2. 1 \in 1..Len(s) /\ i + 1 \in 1..Len(s) /\ 1 < i + 1 /\ s[i + 1] = c
    BY <1>2, <2>1
  <2>3. s[1].type = "chat" /\ s[i + 1].type = "chat" /\ s[1].from = s[i + 1].from
    BY <1>2, <1>4, <2>1, <2>2
  <2>4. Follows(C[s[1].from], s[1].n, s[i + 1].n)
    BY <2>2, <2>3 DEF Rising
  <2> QED
    BY <1>2, <1>4, <2>2, <2>4
<1> QED
  BY <1>1, <1>3, <1>4

-----------------------------------------------------------------------------
(* The order of numbers                                                    *)

LEMMA Shrinks ==
    ASSUME NEW C, NEW S, NEW F, NEW D, NEW A, NEW n \in Nat, Ordered(C, S, F, D, A, n),
           NEW S1 \in SUBSET S, NEW F1 \in SUBSET F, NEW D1 \in SUBSET D, NEW A1 \in SUBSET A
    PROVE  Ordered(C, S1, F1, D1, A1, n)
BY DEF Ordered, Before

LEMMA MoreCuts ==
    ASSUME NEW C, NEW C1, C \subseteq C1, NEW S, NEW F, NEW D, NEW A, NEW n,
           Ordered(C, S, F, D, A, n)
    PROVE  Ordered(C1, S, F, D, A, n)
BY CutFollows DEF Ordered, Before

LEMMA NewAsked ==
    ASSUME NEW C, NEW S, NEW F, NEW D, NEW A, NEW n \in Nat, Ordered(C, S, F, D, A, n),
           NEW A1 \in SUBSET (A \cup {n + 1})
    PROVE  Ordered(C, S, F, D, A1, n + 1)
<1>1. \A x \in S \cup F \cup D \cup A : x \in 0..n /\ x \in 0..(n + 1) /\ Follows(C, x, n + 1)
  BY DEF Ordered, Follows
<1>2. n + 1 \in 0..(n + 1)
  OBVIOUS
<1> QED
  BY <1>1, <1>2 DEF Ordered, Before

LEMMA AskedToDue ==
    ASSUME NEW C, NEW S, NEW F, NEW D, NEW A, NEW n \in Nat, Ordered(C, S, F, D, A, n),
           NEW x \in A, NEW A1 \in SUBSET A, \A a \in A1 : x < a, NEW D1 \in SUBSET (D \cup {x})
    PROVE  Ordered(C, S, F, D1, A1, n)
BY DEF Ordered, Before, Follows

LEMMA DueToFlight ==
    ASSUME NEW C, NEW S, NEW F, NEW D, NEW A, NEW n \in Nat, Ordered(C, S, F, D, A, n),
           NEW x \in D, NEW F1 \in SUBSET (F \cup {x}),
           NEW D1 \in SUBSET D, \A d \in D1 : Follows(C, x, d)
    PROVE  Ordered(C, S, F1, D1, A, n)
BY DEF Ordered, Before

LEMMA FlightToSeen ==
    ASSUME NEW C, NEW S, NEW F, NEW D, NEW A, NEW n \in Nat, Ordered(C, S, F, D, A, n),
           NEW x \in F, NEW F1 \in SUBSET F, \A f \in F1 : Follows(C, x, f),
           NEW S1 \in SUBSET (S \cup {x})
    PROVE  Ordered(C, S1, F1, D, A, n)
BY DEF Ordered, Before

-----------------------------------------------------------------------------
(* The screens                                                             *)

\* Who wrote the entries, and their numbers.
Keeps(s, t) == DOMAIN t = DOMAIN s /\ \A i \in DOMAIN s : t[i].by = s[i].by /\ t[i].n = s[i].n

LEMMA KeepsRead == ASSUME NEW s \in Seq(Entries) PROVE Keeps(s, Read(s))
<1>1. ASSUME NEW i \in DOMAIN s PROVE Read(s)[i].by = s[i].by /\ Read(s)[i].n = s[i].n
  <2>1. s[i] \in Entries /\ Read(s)[i] = [s[i] EXCEPT !.seen = TRUE]
    BY ReadType
  <2> QED
    BY <2>1 DEF Entries
<1> QED
  BY <1>1, ReadType DEF Keeps

LEMMA KeepsUpdated ==
    ASSUME NEW s \in Seq(Entries), NEW t, NEW m, Updated(s, t, m)
    PROVE  Keeps(s, t)
<1>1. t \in Seq(Entries) /\ DOMAIN t = DOMAIN s
  BY DEF Updated
<1>2. ASSUME NEW i \in DOMAIN s PROVE t[i].by = s[i].by /\ t[i].n = s[i].n
  <2>1. s[i] \in Entries
    OBVIOUS
  <2> QED
    BY <2>1 DEF Updated, Entries
<1> QED
  BY <1>1, <1>2 DEF Keeps

LEMMA ByIn ==
    ASSUME NEW s \in Seq(Entries), NEW q, NEW e
    PROVE  e \in By(s, q) <=> \E i \in 1..Len(s) : s[i] = e /\ e.by = q
BY DEF By

LEMMA ByMore ==
    ASSUME NEW s \in Seq(Entries), NEW e \in Entries, NEW q
    PROVE  By(Append(s, e), q) = By(s, q) \cup (IF e.by = q THEN {e} ELSE {})
<1>1. PICK t \in Seq(Entries) : t = Append(s, e)
  BY AppendProperties
<1>2. /\ Len(t) = Len(s) + 1 /\ Len(s) \in Nat
      /\ t[Len(s) + 1] = e /\ \A i \in 1..Len(s) : t[i] = s[i]
  BY <1>1, AppendProperties
<1>3. ASSUME NEW f PROVE f \in By(t, q) <=> f \in By(s, q) \/ (e.by = q /\ f = e)
  <2>1. f \in By(t, q) <=> \E i \in 1..(Len(s) + 1) : t[i] = f /\ f.by = q
    BY <1>2, ByIn
  <2>2. f \in By(s, q) <=> \E i \in 1..Len(s) : s[i] = f /\ f.by = q
    BY ByIn
  <2> QED
    BY <1>2, <2>1, <2>2
<1> QED
  BY <1>1, <1>3

LEMMA NumsKept ==
    ASSUME NEW s, NEW t, NEW q, Keeps(s, t)
    PROVE  Nums(By(t, q)) = Nums(By(s, q)) /\ (\A C : RisingIn(C, s, q) => RisingIn(C, t, q))
<1>1. ASSUME NEW x PROVE x \in Nums(By(t, q)) <=> \E i \in DOMAIN t : t[i].by = q /\ t[i].n = x
  BY DEF Nums, By
<1>2. ASSUME NEW x PROVE x \in Nums(By(s, q)) <=> \E i \in DOMAIN s : s[i].by = q /\ s[i].n = x
  BY DEF Nums, By
<1>3. ASSUME NEW x PROVE x \in Nums(By(t, q)) <=> x \in Nums(By(s, q))
  BY <1>1, <1>2 DEF Keeps
<1>4. ASSUME NEW C, RisingIn(C, s, q) PROVE RisingIn(C, t, q)
  BY <1>4 DEF RisingIn, Keeps
<1> QED
  BY <1>3, <1>4

LEMMA RisingInMore ==
    ASSUME NEW C, NEW s \in Seq(Entries), NEW e \in Entries, NEW q, RisingIn(C, s, q),
           e.by = q => \A a \in Nums(By(s, q)) : Follows(C, a, e.n)
    PROVE  RisingIn(C, Append(s, e), q)
<1>1. PICK t \in Seq(Entries) : t = Append(s, e)
  BY AppendProperties
<1>2. /\ Len(t) = Len(s) + 1 /\ Len(s) \in Nat
      /\ t[Len(s) + 1] = e /\ \A i \in 1..Len(s) : t[i] = s[i]
  BY <1>1, AppendProperties
<1>3. ASSUME NEW i \in 1..Len(t), NEW k \in 1..Len(t), i < k, t[i].by = q, t[k].by = q
      PROVE  Follows(C, t[i].n, t[k].n)
  <2>1. i \in 1..Len(s) /\ t[i] = s[i]
    BY <1>2, <1>3
  <2>2. CASE k \in 1..Len(s)
    BY <1>2, <1>3, <2>1, <2>2 DEF RisingIn
  <2>3. CASE k = Len(s) + 1
    <3>1. s[i] \in By(s, q)
      BY <1>3, <2>1, ByIn
    <3>2. s[i].n \in Nums(By(s, q))
      BY <3>1 DEF Nums
    <3> QED
      BY <1>2, <1>3, <2>1, <2>3, <3>2
  <2> QED
    BY <1>2, <2>2, <2>3
<1> QED
  BY <1>1, <1>3 DEF RisingIn

-----------------------------------------------------------------------------
(* What a step does to the queues                                          *)

LEMMA Typed ==
    ASSUME Types, NEW p \in People, NEW q \in People
    PROVE  /\ toServer[p] \in Seq(Messages) /\ toClient[p] \in Seq(Messages)
           /\ log[p][q] \in Seq(Entries) /\ sent[p] \in Nat
           /\ jobs[p] \subseteq Jobs
BY DEF Types, WireOK, PageOK, ServerOK

LEMMA InPeople ==
    ASSUME Types, NEW p \in Present
    PROVE  p \in People
BY DEF Types, BudgetOK, Present

LEMMA AskedSent ==
    ASSUME Types, Flow, NEW p \in People, NEW m \in ToServer(p), Sent(p, m),
           m.type = "chat" => \A c \in Asked(p) : c.n < m.n
    PROVE  /\ \A q \in People \ {p} : Asked(q)' = Asked(q)
           /\ Asked(p)' = Asked(p) \cup (IF Linked(p) /\ m.type = "chat" THEN {m} ELSE {})
           /\ \A q \in People : Rising(NoCuts, toServer'[q])
<1>1. toServer[p] \in Seq(Messages) /\ m \in Messages
  BY Typed DEF ToServer
<1>2. \A q \in People \ {p} : toServer'[q] = toServer[q]
  BY DEF Sent, Types, WireOK
<1>3. toServer'[p] = IF Linked(p) THEN Append(toServer[p], m) ELSE toServer[p]
  BY DEF Sent, Types, WireOK
<1>4. Chats(Append(toServer[p], m)) = Chats(toServer[p]) \cup (IF m.type = "chat" THEN {m} ELSE {})
  BY <1>1, ChatsMore
<1>5. Asked(p)' = Asked(p) \cup (IF Linked(p) /\ m.type = "chat" THEN {m} ELSE {})
  BY <1>3, <1>4 DEF Asked
<1>6. Rising(NoCuts, Append(toServer[p], m))
  <2>1. \A c \in Chats(toServer[p]) : c.from = p
    <3>1. toServer[p] \in Seq(ToServer(p))
      BY DEF Types, WireOK
    <3> QED
      BY <3>1 DEF Chats, ToServer
  <2>2. m.type = "chat" =>
          \A c \in Chats(toServer[p]) : c.from = m.from => Follows(NoCuts[c.from], c.n, m.n)
    BY <2>1, NoCutFollows DEF Asked
  <2> QED
    BY <1>1, <2>2, RisingMore DEF Flow
<1> QED
  BY <1>2, <1>3, <1>5, <1>6 DEF Asked, Flow

LEMMA AskedTaken ==
    ASSUME Types, Flow, NEW p \in People, NEW type, Next1(p, type)
    PROVE  /\ \A q \in People \ {p} : Asked(q)' = Asked(q)
           /\ Head(toServer[p]) \in ToServer(p)
           /\ Asked(p) = Asked(p)' \cup (IF type = "chat" THEN {Head(toServer[p])} ELSE {})
           /\ type = "chat" => \A c \in Asked(p)' : Head(toServer[p]).n < c.n
           /\ \A q \in People : Rising(NoCuts, toServer'[q])
<1>1. /\ toServer[p] \in Seq(Messages) /\ toServer[p] # <<>> /\ Head(toServer[p]).type = type
      /\ toServer' = [toServer EXCEPT ![p] = Tail(toServer[p])]
      /\ Head(toServer[p]) \in ToServer(p) /\ Tail(toServer[p]) \in Seq(ToServer(p))
  BY Taken DEF Types
<1>2. toServer'[p] = Tail(toServer[p]) /\ \A q \in People \ {p} : toServer'[q] = toServer[q]
  BY <1>1 DEF Types, WireOK
<1>3. Asked(p) = Asked(p)' \cup (IF type = "chat" THEN {Head(toServer[p])} ELSE {})
  BY <1>1, <1>2, ChatsTail DEF Asked
<1>4. /\ Rising(NoCuts, toServer'[p])
      /\ type = "chat" =>
            \A c \in Asked(p)' : c.from = Head(toServer[p]).from =>
                Follows(NoCuts[c.from], Head(toServer[p]).n, c.n)
  BY <1>1, <1>2, RisingTail DEF Flow, Asked
<1>5. \A c \in Asked(p)' : c.from = p
  <2>1. ASSUME NEW c \in Asked(p)' PROVE c.from = p
    <3>1. PICK i \in DOMAIN Tail(toServer[p]) : Tail(toServer[p])[i] = c
      BY <1>2, <2>1 DEF Asked, Chats
    <3>2. c \in ToServer(p)
      BY <1>1, <3>1
    <3> QED
      BY <3>2 DEF ToServer
  <2> QED
    BY <2>1
<1>6. Head(toServer[p]).from = p
  BY <1>1 DEF ToServer
<1>7. type = "chat" => \A c \in Asked(p)' : Head(toServer[p]).n < c.n
  BY <1>4, <1>5, <1>6, NoCutFollows
<1> QED
  BY <1>1, <1>2, <1>3, <1>4, <1>7 DEF Asked, Flow

Appended(p, m) == toClient' = [toClient EXCEPT ![p] = Append(toClient[p], m)]

LEMMA FlightMore ==
    ASSUME Types, Flow, NEW p \in People, NEW m \in ToClient(p), Appended(p, m),
           m.type = "chat" => \A c \in Flight(p, m.from) : Follows(cuts[m.from], c.n, m.n)
    PROVE  /\ \A r, q \in People : r # p \/ q # m.from \/ m.type # "chat" => Flight(r, q)' = Flight(r, q)
           /\ m.type = "chat" => Flight(p, m.from)' = Flight(p, m.from) \cup {m}
           /\ \A r \in People : Rising(cuts, toClient'[r])
<1>1. toClient[p] \in Seq(Messages) /\ m \in Messages
  BY Typed DEF ToClient
<1>2. \A q \in People \ {p} : toClient'[q] = toClient[q]
  BY DEF Appended, Types, WireOK
<1>3. toClient'[p] = Append(toClient[p], m)
  BY DEF Appended, Types, WireOK
<1>4. Chats(toClient'[p]) = Chats(toClient[p]) \cup (IF m.type = "chat" THEN {m} ELSE {})
  BY <1>1, <1>3, ChatsMore
<1>5. Rising(cuts, Append(toClient[p], m))
  <2>1. m.type = "chat" =>
          \A c \in Chats(toClient[p]) : c.from = m.from => Follows(cuts[c.from], c.n, m.n)
    BY DEF Flight
  <2> QED
    BY <1>1, <2>1, RisingMore DEF Flow
<1>6. ASSUME NEW r \in People, NEW q \in People, r # p \/ q # m.from \/ m.type # "chat"
      PROVE  Flight(r, q)' = Flight(r, q)
  BY <1>2, <1>4, <1>6 DEF Flight
<1>7. m.type = "chat" => Flight(p, m.from)' = Flight(p, m.from) \cup {m}
  BY <1>4 DEF Flight
<1> QED
  BY <1>2, <1>3, <1>5, <1>6, <1>7 DEF Flow

LEMMA PushIs ==
    ASSUME Types, NEW p \in People, NEW m, Push(p, m)
    PROVE  IF link[p] = "up" THEN Appended(p, m) ELSE toClient' = toClient
BY DEF Push, Appended, Types, WireOK

LEMMA FlightHeard ==
    ASSUME Types, Flow, NEW p \in People, NEW type, Hear(p, type), NEW m, m = Head(toClient[p])
    PROVE  /\ \A r, q \in People : r # p \/ q # m.from \/ type # "chat" => Flight(r, q)' = Flight(r, q)
           /\ type = "chat" => /\ Flight(p, m.from) = Flight(p, m.from)' \cup {m}
                               /\ \A c \in Flight(p, m.from)' : Follows(cuts[m.from], m.n, c.n)
           /\ \A r \in People : Rising(cuts, toClient'[r])
<1>2. /\ toClient[p] \in Seq(Messages) /\ toClient[p] # <<>> /\ m.type = type
      /\ toClient' = [toClient EXCEPT ![p] = Tail(toClient[p])]
  BY Heard DEF Types
<1>3. toClient'[p] = Tail(toClient[p]) /\ \A q \in People \ {p} : toClient'[q] = toClient[q]
  BY <1>2 DEF Types, WireOK
<1>4. Chats(toClient[p]) = Chats(toClient'[p]) \cup (IF type = "chat" THEN {m} ELSE {})
  BY <1>2, <1>3, ChatsTail
<1>5. /\ Rising(cuts, toClient'[p])
      /\ type = "chat" =>
            \A c \in Chats(toClient'[p]) : c.from = m.from => Follows(cuts[c.from], m.n, c.n)
  BY <1>2, <1>3, RisingTail DEF Flow
<1>6. ASSUME NEW r \in People, NEW q \in People, r # p \/ q # m.from \/ type # "chat"
      PROVE  Flight(r, q)' = Flight(r, q)
  BY <1>3, <1>4, <1>6 DEF Flight
<1>7. type = "chat" => /\ Flight(p, m.from) = Flight(p, m.from)' \cup {m}
                       /\ \A c \in Flight(p, m.from)' : Follows(cuts[m.from], m.n, c.n)
  BY <1>4, <1>5 DEF Flight
<1>8. \A r \in People : Rising(cuts, toClient'[r])
  BY <1>3, <1>5 DEF Flow
<1> QED
  BY <1>6, <1>7, <1>8

LEMMA NumsMore == ASSUME NEW S, NEW m PROVE Nums(S \cup {m}) = Nums(S) \cup {m.n}
BY DEF Nums

LEMMA NumsLess == ASSUME NEW S, NEW T, S \subseteq T PROVE Nums(S) \subseteq Nums(T)
BY DEF Nums

LEMMA NumsNone == Nums({}) = {}
BY DEF Nums

-----------------------------------------------------------------------------
(* The parts of Order, and a step that adds nothing to them                *)

\* The numbers of the four stations.
NA(q) == Nums(Asked(q))
NF(p, q) == Nums(Flight(p, q))
ND(p, q) == Nums(Due(p, q))

AskedSame == \A q \in People : Asked(q)' \subseteq Asked(q) /\ Rising(NoCuts, toServer'[q])
FlightSame ==
    \A p, q \in People : Flight(p, q)' \subseteq Flight(p, q) /\ Rising(cuts, toClient'[p])
DueSame == \A p, q \in People : ND(p, q)' \subseteq ND(p, q)
InOrderNext(p, q) == RisingIn(cuts[q], log'[p][q], q)
ScreensSame ==
    \A p, q \in People :
        Seen(p, q)' \subseteq Seen(p, q) /\ InOrderNext(p, q) /\ (p = q => log'[p][p] = <<>>)

LEMMA AskedStays == Flow /\ toServer' = toServer => AskedSame
BY DEF Flow, AskedSame, Asked

LEMMA FlightStays == Flow /\ toClient' = toClient => FlightSame
BY DEF Flow, FlightSame, Flight

LEMMA DueStays == BudgetOK /\ Setting /\ jobs' = jobs => DueSame
BY DEF DueSame, ND, Due, Setting

LEMMA ScreensStay == Flow /\ log' = log => ScreensSame
BY DEF Flow, ScreensSame, Seen, ByOther, InOrderAt, InOrderNext

\* Two people at a time; what is in order stays so when there are more cuts.
OrderOf(p, q) == Ordered(cuts[q], Seen(p, q), NF(p, q), ND(p, q), NA(q), sent[q])
OrderNext(p, q) ==
    Ordered(cuts[q], Seen(p, q)', NF(p, q)', ND(p, q)', NA(q)', sent'[q])

LEMMA OrderIs == ASSUME Types, Flow, NEW p \in People, NEW q \in People PROVE OrderOf(p, q) /\ sent[q] \in Nat
BY Typed DEF Flow, Order, OrderOf, NF, ND, NA

LEMMA FlowMade ==
    ASSUME Types', Setting,
           \A p, q \in People : OrderNext(p, q),
           \A p \in People : Rising(NoCuts, toServer'[p]) /\ Rising(cuts, toClient'[p]),
           \A p, q \in People : InOrderNext(p, q) /\ (p = q => log'[p][p] = <<>>)
    PROVE  Flow'
<1>1. \A q \in People : cuts[q] \subseteq cuts'[q]
  BY DEF Setting
<1>2. ASSUME NEW p \in People, NEW q \in People PROVE Order(p, q)' /\ InOrderAt(p, q)'
  <2>1. Ordered(cuts'[q], Seen(p, q)', NF(p, q)', ND(p, q)', NA(q)', sent'[q])
    BY <1>1, MoreCuts DEF OrderNext
  <2>2. RisingIn(cuts'[q], log'[p][q], q)
    BY <1>1, CutFollows DEF InOrderNext, RisingIn
  <2> QED
    BY <2>1, <2>2 DEF Order, NF, ND, NA, InOrderAt
<1>3. ASSUME NEW p \in People PROVE Rising(cuts', toClient'[p])
  <2>1. toClient'[p] \in Seq(Messages)
    BY DEF Types, WireOK
  <2>2. PICK s \in Seq(Messages) : s = toClient'[p]
    BY <2>1
  <2>3. ASSUME NEW i \in DOMAIN s, NEW k \in DOMAIN s, i < k, s[i].type = "chat",
               s[k].type = "chat", s[i].from = s[k].from
        PROVE  Follows(cuts'[s[i].from], s[i].n, s[k].n)
    <3>1. Follows(cuts[s[i].from], s[i].n, s[k].n)
      BY <2>2, <2>3 DEF Rising
    <3>2. s[i] \in Messages
      BY <2>3
    <3>3. cuts[s[i].from] \subseteq cuts'[s[i].from]
      BY <1>1, <3>2 DEF Messages
    <3> QED
      BY <3>1, <3>3, CutFollows
  <2> QED
    BY <2>2, <2>3 DEF Rising
<1> QED
  BY <1>2, <1>3 DEF Flow

LEMMA OrderStays ==
    ASSUME Types, Flow, NEW p \in People, NEW q \in People, sent'[q] = sent[q],
           Seen(p, q)' \subseteq Seen(p, q), NF(p, q)' \subseteq NF(p, q),
           ND(p, q)' \subseteq ND(p, q), NA(q)' \subseteq NA(q)
    PROVE  OrderNext(p, q)
<1>1. Ordered(cuts[q], Seen(p, q), NF(p, q), ND(p, q), NA(q), sent[q]) /\ sent[q] \in Nat
  BY OrderIs DEF OrderOf
<1>2. /\ Seen(p, q)' \in SUBSET Seen(p, q) /\ NF(p, q)' \in SUBSET NF(p, q)
      /\ ND(p, q)' \in SUBSET ND(p, q) /\ NA(q)' \in SUBSET NA(q)
  OBVIOUS
<1>3. Ordered(cuts[q], Seen(p, q)', NF(p, q)', ND(p, q)', NA(q)', sent[q])
  BY <1>1, <1>2, Shrinks
<1> QED
  BY <1>3 DEF OrderNext

LEMMA FlowShrinks ==
    ASSUME Types, Types', Setting, Flow, AskedSame, FlightSame, DueSame, ScreensSame, sent' = sent
    PROVE  Flow'
<1>1. ASSUME NEW p \in People, NEW q \in People PROVE OrderNext(p, q)
  <2>1. /\ Seen(p, q)' \subseteq Seen(p, q) /\ NF(p, q)' \subseteq NF(p, q)
        /\ ND(p, q)' \subseteq ND(p, q) /\ NA(q)' \subseteq NA(q)
    BY NumsLess DEF AskedSame, FlightSame, DueSame, ScreensSame, NA, NF
  <2> QED
    BY <2>1, OrderStays
<1> QED
  BY <1>1, FlowMade DEF AskedSame, FlightSame, ScreensSame

-----------------------------------------------------------------------------
(* The order is kept                                                       *)

LEMMA FlowWrite ==
    ASSUME Types, Types', Setting, Flow, NEW p \in Present, NEW q \in Others(p), NEW text \in Texts,
           Write(p, q, text), UNCHANGED <<serverVars, link, toClient>>
    PROVE  Flow'
<1>1. p \in People /\ q \in People /\ p # q /\ sent[p] \in Nat
  BY Others1, Typed DEF Types
<1>2. /\ Sent(p, Letter(p, q, text)) /\ Letter(p, q, text) \in ToServer(p)
      /\ sent' = [sent EXCEPT ![p] = sent[p] + 1]
      /\ Draft(p, text) \in Entries
      /\ LogIs(p, q, Append(log[p][q], Draft(p, text)))
  BY Written DEF serverVars, readerVars
<1>3. PICK m : m = Letter(p, q, text)
  OBVIOUS
<1>4. m.n = sent[p] + 1 /\ m.type = "chat" /\ m \in ToServer(p)
  BY <1>2, <1>3 DEF Letter, Msg
<1>5. \A c \in Asked(p) : c.n < m.n
  <2>1. OrderOf(p, p)
    BY <1>1, OrderIs
  <2>2. NA(p) \subseteq 0..sent[p]
    BY <2>1 DEF OrderOf, Ordered
  <2>3. ASSUME NEW c \in Asked(p) PROVE c.n < m.n
    <3>1. c.n \in NA(p)
      BY DEF NA, Nums
    <3> QED
      BY <1>1, <1>4, <2>2, <3>1
  <2> QED
    BY <2>3
<1>6. /\ \A r \in People \ {p} : Asked(r)' = Asked(r)
      /\ Asked(p)' = Asked(p) \cup (IF Linked(p) /\ m.type = "chat" THEN {m} ELSE {})
      /\ \A r \in People : Rising(NoCuts, toServer'[r])
  BY <1>1, <1>2, <1>3, <1>4, <1>5, AskedSent
<1>7. NA(p)' \in SUBSET (NA(p) \cup {sent[p] + 1})
  <2>1. Asked(p)' \subseteq Asked(p) \cup {m}
    BY <1>6
  <2>2. Nums(Asked(p)') \subseteq Nums(Asked(p)) \cup {m.n}
    BY <2>1 DEF Nums
  <2> QED
    BY <1>4, <2>2 DEF NA, Nums
<1>8. FlightSame /\ DueSame
  BY FlightStays, DueStays DEF serverVars, readerVars, Types
<1>9. ScreensSame
  <2>1. log[p][q] \in Seq(Entries) /\ Draft(p, text).by = p
    BY <1>1, Typed DEF Draft, Entry
  <2>2. By(log'[p][q], q) = By(log[p][q], q)
    <3>1. log'[p][q] = Append(log[p][q], Draft(p, text))
      BY <1>2 DEF LogIs
    <3>2. PICK e \in Entries : e = Draft(p, text) /\ e.by # q
      BY <1>1, <1>2, <2>1
    <3>3. By(Append(log[p][q], e), q) = By(log[p][q], q) \cup (IF e.by = q THEN {e} ELSE {})
      BY <2>1, ByMore
    <3>4. By(Append(log[p][q], e), q) = By(log[p][q], q)
      BY <3>2, <3>3
    <3> QED
      BY <3>1, <3>2, <3>4
  <2>3. RisingIn(cuts[q], log'[p][q], q)
    BY <1>1, <1>2, <2>1, RisingInMore DEF LogIs, Flow, InOrderAt, InOrderNext
  <2>4. \A r, t \in People : r # p \/ t # q => log'[r][t] = log[r][t]
    BY <1>2 DEF LogIs, LogElse
  <2>5. ASSUME NEW r \in People, NEW t \in People
        PROVE  Seen(r, t)' \subseteq Seen(r, t) /\ InOrderNext(r, t) /\ (r = t => log'[r][r] = <<>>)
    <3>1. CASE r = p /\ t = q
      <4>1. Seen(r, t)' = Seen(r, t)
        BY <1>1, <2>2, <3>1 DEF Seen, ByOther
      <4> QED
        BY <1>1, <2>3, <3>1, <4>1 DEF InOrderAt, InOrderNext
    <3>2. CASE r # p \/ t # q
      BY <2>4, <3>2 DEF Flow, Seen, ByOther, InOrderAt, InOrderNext
    <3> QED
      BY <3>1, <3>2
  <2> QED
    BY <2>5 DEF ScreensSame
<1>10. ASSUME NEW r \in People, NEW t \in People PROVE OrderNext(r, t)
  <2>1. /\ Seen(r, t)' \subseteq Seen(r, t) /\ NF(r, t)' \subseteq NF(r, t)
        /\ ND(r, t)' \subseteq ND(r, t)
    BY <1>8, <1>9, NumsLess DEF FlightSame, DueSame, ScreensSame, NF
  <2>2. CASE t = p
    <3>1. sent'[t] = sent[t] + 1
      BY <1>1, <1>2, <2>2 DEF Types, PageOK
    <3>2. Ordered(cuts[t], Seen(r, t), NF(r, t), ND(r, t), NA(t), sent[t]) /\ sent[t] \in Nat
      BY OrderIs DEF OrderOf
    <3>3. NA(t)' \in SUBSET (NA(t) \cup {sent[t] + 1})
      BY <1>7, <2>2
    <3>4. Ordered(cuts[t], Seen(r, t), NF(r, t), ND(r, t), NA(t)', sent[t] + 1)
      BY <3>2, <3>3, NewAsked
    <3>5. sent[t] + 1 \in Nat
      BY <3>2
    <3>6. /\ Seen(r, t)' \in SUBSET Seen(r, t) /\ NF(r, t)' \in SUBSET NF(r, t)
          /\ ND(r, t)' \in SUBSET ND(r, t) /\ NA(t)' \in SUBSET NA(t)'
      BY <2>1
    <3>7. Ordered(cuts[t], Seen(r, t)', NF(r, t)', ND(r, t)', NA(t)', sent[t] + 1)
      BY <3>4, <3>5, <3>6, Shrinks
    <3> QED
      BY <3>1, <3>7 DEF OrderNext
  <2>3. CASE t # p
    <3>1. sent'[t] = sent[t]
      BY <1>1, <1>2, <2>3 DEF Types, PageOK
    <3>2. NA(t)' \subseteq NA(t)
      BY <1>6, <2>3 DEF NA, Nums
    <3> QED
      BY <2>1, <3>1, <3>2, OrderStays
  <2> QED
    BY <2>2, <2>3
<1> QED
  BY <1>6, <1>8, <1>9, <1>10, FlowMade DEF FlightSame, ScreensSame

\* A handler begins, or a message is refused.
LEMMA FlowTaken ==
    ASSUME Types, Types', Setting, Flow, NEW p \in Present, Next1(p, "chat"),
           LET m == Head(toServer[p]) IN
           jobs' = jobs \/ jobs' = [jobs EXCEPT ![p] = jobs[p] \cup {Job(m)}],
           UNCHANGED <<toClient, log, sent>>
    PROVE  Flow'
<1>1. p \in People
  BY InPeople
<1>2. PICK m : m = Head(toServer[p])
  OBVIOUS
<1>3. /\ \A q \in People \ {p} : Asked(q)' = Asked(q)
      /\ Asked(p) = Asked(p)' \cup {m}
      /\ \A c \in Asked(p)' : m.n < c.n
      /\ \A q \in People : Rising(NoCuts, toServer'[q])
  BY <1>1, <1>2, AskedTaken
<1>4. FlightSame /\ ScreensSame
  BY FlightStays, ScreensStay
<1>5. NA(p)' \in SUBSET NA(p) /\ m.n \in NA(p) /\ \A a \in NA(p)' : m.n < a
  <2>1. NA(p) = Nums(Asked(p)') \cup {m.n}
    BY <1>3, NumsMore DEF NA
  <2>2. NA(p)' = Nums(Asked(p)')
    BY DEF NA, Nums
  <2>3. \A a \in Nums(Asked(p)') : m.n < a
    BY <1>3 DEF Nums
  <2> QED
    BY <2>1, <2>2, <2>3
<1>6. ASSUME NEW r \in People, NEW t \in People PROVE OrderNext(r, t)
  <2>1. Seen(r, t)' \in SUBSET Seen(r, t) /\ NF(r, t)' \in SUBSET NF(r, t) /\ sent'[t] = sent[t]
    BY <1>4, NumsLess DEF FlightSame, ScreensSame, NF
  <2>2. CASE t = p
    <3>1. ND(r, t)' \in SUBSET (ND(r, t) \cup {m.n})
      <4>1. jobs'[p] \subseteq jobs[p] \cup {Job(m)}
        BY <1>1, <1>2 DEF Types, ServerOK
      <4>2. Job(m).n = m.n
        BY DEF Job
      <4>3. Due(r, t)' \subseteq Due(r, t) \cup {Job(m)}
        BY <2>2, <4>1 DEF Due, Setting
      <4> QED
        BY <4>2, <4>3 DEF ND, Nums
    <3>2. Ordered(cuts[t], Seen(r, t), NF(r, t), ND(r, t), NA(t), sent[t]) /\ sent[t] \in Nat
      BY OrderIs DEF OrderOf
    <3>3. Ordered(cuts[t], Seen(r, t), NF(r, t), ND(r, t)', NA(t)', sent[t])
      BY <1>5, <2>2, <3>1, <3>2, AskedToDue
    <3>4. ND(r, t)' \in SUBSET ND(r, t)' /\ NA(t)' \in SUBSET NA(t)'
      OBVIOUS
    <3>5. Ordered(cuts[t], Seen(r, t)', NF(r, t)', ND(r, t)', NA(t)', sent[t])
      BY <2>1, <3>2, <3>3, <3>4, Shrinks
    <3> QED
      BY <2>1, <3>5 DEF OrderNext
  <2>3. CASE t # p
    <3>1. NA(t)' \subseteq NA(t)
      BY <1>3, <2>3 DEF NA, Nums
    <3>2. jobs'[t] = jobs[t]
      BY <1>1, <2>3 DEF Types, ServerOK
    <3>3. ND(r, t)' \subseteq ND(r, t)
      BY <3>2 DEF ND, Nums, Due, Setting
    <3> QED
      BY <2>1, <3>1, <3>3, OrderStays
  <2> QED
    BY <2>2, <2>3
<1> QED
  BY <1>3, <1>4, <1>6, FlowMade DEF FlightSame, ScreensSame

LEMMA DueStep ==
    ASSUME Types, Setting, NEW p \in People, NEW j \in jobs[p], j.step \in {"translate", "store"},
           NEW k, k.n = j.n, k.to = j.to, jobs' = [jobs EXCEPT ![p] = Turned(p, j, {k})]
    PROVE  DueSame
<1>1. ASSUME NEW r \in People, NEW t \in People PROVE ND(r, t)' \subseteq ND(r, t)
  <2>1. CASE t = p
    <3>1. jobs'[t] = (jobs[t] \ {j}) \cup {k} /\ j \in jobs[t]
      BY <2>1 DEF Types, ServerOK, Turned
    <3>2. ASSUME NEW x \in Due(r, t)' PROVE x.n \in ND(r, t)
      <4>1. x \in Due(r, t) \/ (x = k /\ (r = t \/ j.to = r))
        BY <3>1, <3>2 DEF Due, Setting
      <4>2. x = k /\ (r = t \/ j.to = r) => j \in Due(r, t)
        BY <3>1 DEF Due
      <4> QED
        BY <4>1, <4>2 DEF ND, Nums
    <3> QED
      BY <3>2 DEF ND, Nums
  <2>2. CASE t # p
    <3>1. jobs'[t] = jobs[t]
      BY <2>2 DEF Types, ServerOK
    <3> QED
      BY <3>1 DEF ND, Nums, Due, Setting
  <2> QED
    BY <2>1, <2>2
<1> QED
  BY <1>1 DEF DueSame

\* As K the handler j of p has nothing to send that was not due, and nothing to r.
GoesOn(p, j, r, K) ==
    /\ \A k \in K : k.n = j.n
    /\ \A t \in People, k \in K : k \in Due(t, p)' => t # r /\ j \in Due(t, p)

\* A handler sends to r what was due there, or finds no connection; what other
\* handlers of the same person have yet to send may follow.
LEMMA FlowSends ==
    ASSUME Types, Types', Setting, Flow, NEW p \in Present, Apart(p), NEW j \in jobs[p],
           NEW r \in People, NEW K, jobs' = [jobs EXCEPT ![p] = Turned(p, j, K)], j \in Due(r, p),
           NEW m \in ToClient(r), m = Mail(p, j), Appended(r, m) \/ toClient' = toClient,
           GoesOn(p, j, r, K),
           UNCHANGED <<toServer, log, sent>>
    PROVE  Flow'
<1>1. p \in People /\ j \in Jobs
  BY InPeople, JobType
<1>2. m \in ToClient(r) /\ m.n = j.n /\ m.from = p /\ m.type = "chat"
  BY DEF Mail, Msg
<1>3. j.n \in ND(r, p)
  BY DEF ND, Nums
<1>4. \A c \in Flight(r, p) : Follows(cuts[p], c.n, m.n)
  <2>1. OrderOf(r, p)
    BY <1>1, OrderIs
  <2>2. ASSUME NEW c \in Flight(r, p) PROVE Follows(cuts[p], c.n, m.n)
    <3>1. c.n \in NF(r, p)
      BY DEF NF, Nums
    <3> QED
      BY <1>2, <1>3, <2>1, <3>1 DEF OrderOf, Ordered, Before
  <2> QED
    BY <2>2
<1>5. /\ \A t, q \in People : t # r \/ q # p => Flight(t, q)' = Flight(t, q)
      /\ Flight(r, p)' \subseteq Flight(r, p) \cup {m}
      /\ \A t \in People : Rising(cuts, toClient'[t])
  <2>1. CASE Appended(r, m)
    <3>1. /\ \A t, q \in People : t # r \/ q # m.from \/ m.type # "chat" => Flight(t, q)' = Flight(t, q)
          /\ m.type = "chat" => Flight(r, m.from)' = Flight(r, m.from) \cup {m}
          /\ \A t \in People : Rising(cuts, toClient'[t])
      BY <1>2, <1>4, <2>1, FlightMore
    <3> QED
      BY <1>2, <3>1
  <2>2. CASE toClient' = toClient
    BY <2>2 DEF Flight, Flow
  <2> QED
    BY <2>1, <2>2
<1>6. AskedSame /\ ScreensSame
  BY AskedStays, ScreensStay
<1>7. jobs'[p] = (jobs[p] \ {j}) \cup K /\ \A q \in People \ {p} : jobs'[q] = jobs[q]
  BY <1>1 DEF Types, ServerOK, Turned
<1>8. ASSUME NEW t \in People, NEW d \in ND(t, p)'
      PROVE  d \in ND(t, p) /\ (t = r => Follows(cuts[p], j.n, d))
  <2>1. PICK k \in Due(t, p)' : k.n = d
    BY <1>8 DEF ND, Nums
  <2>2. CASE k \in K
    <3>1. j \in Due(t, p) /\ t # r /\ j.n = d
      BY <2>1, <2>2 DEF GoesOn
    <3> QED
      BY <3>1 DEF ND, Nums
  <2>3. CASE k \notin K
    <3>1. k \in jobs[p] /\ k # j /\ k \in Due(t, p)
      BY <1>7, <2>1, <2>3 DEF Due, Setting
    <3>2. Follows(cuts[p], j.n, k.n)
      BY <3>1 DEF Apart
    <3> QED
      BY <2>1, <3>1, <3>2 DEF ND, Nums
  <2> QED
    BY <2>2, <2>3
<1>9. ASSUME NEW t \in People, NEW q \in People PROVE OrderNext(t, q)
  <2>1. Seen(t, q)' \in SUBSET Seen(t, q) /\ NA(q)' \in SUBSET NA(q) /\ sent'[q] = sent[q]
    BY <1>6, NumsLess DEF AskedSame, ScreensSame, NA
  <2>2. CASE t = r /\ q = p
    <3>1. ND(r, p)' \in SUBSET ND(r, p) /\ \A d \in ND(r, p)' : Follows(cuts[p], j.n, d)
      BY <1>8
    <3>2. NF(r, p)' \in SUBSET (NF(r, p) \cup {j.n})
      BY <1>2, <1>5 DEF NF, Nums
    <3>3. Ordered(cuts[p], Seen(r, p), NF(r, p), ND(r, p), NA(p), sent[p]) /\ sent[p] \in Nat
      BY <1>1, OrderIs DEF OrderOf
    <3>4. Ordered(cuts[p], Seen(r, p), NF(r, p)', ND(r, p)', NA(p), sent[p])
      BY <1>3, <3>1, <3>2, <3>3, DueToFlight
    <3>5. ND(r, p)' \in SUBSET ND(r, p)' /\ NF(r, p)' \in SUBSET NF(r, p)'
      OBVIOUS
    <3>6. Ordered(cuts[p], Seen(r, p)', NF(r, p)', ND(r, p)', NA(p)', sent[p])
      BY <2>1, <2>2, <3>3, <3>4, <3>5, Shrinks
    <3> QED
      BY <2>1, <2>2, <3>6 DEF OrderNext
  <2>3. CASE t # r /\ q = p
    <3>1. NF(t, q)' \subseteq NF(t, q)
      BY <1>5, <2>3 DEF NF, Nums
    <3>2. ND(t, q)' \subseteq ND(t, q)
      BY <1>8, <2>3
    <3> QED
      BY <2>1, <3>1, <3>2, OrderStays
  <2>4. CASE q # p
    <3>1. NF(t, q)' \subseteq NF(t, q)
      BY <1>5, <2>4 DEF NF, Nums
    <3>2. ND(t, q)' \subseteq ND(t, q)
      BY <1>7, <2>4 DEF ND, Nums, Due, Setting
    <3> QED
      BY <2>1, <3>1, <3>2, OrderStays
  <2> QED
    BY <2>2, <2>3, <2>4
<1> QED
  BY <1>5, <1>6, <1>9, FlowMade DEF AskedSame, ScreensSame

LEMMA FlowEcho ==
    ASSUME Types, Types', Setting, Flow, NEW p \in Present, Apart(p), NEW j \in jobs[p], Echo(p, j)
    PROVE  Flow'
<1>1. p \in People /\ j \in Jobs /\ j.to \in People /\ j.to # p
  BY InPeople, JobType DEF Others
<1>2. /\ Appended(p, Mail(p, j)) \/ toClient' = toClient
      /\ Mail(p, j) \in ToClient(p)
      /\ jobs' = [jobs EXCEPT ![p] =
                    Turned(p, j, IF ~InRoom THEN {} ELSE {[j EXCEPT !.step = "deliver"]})]
  BY EchoTypes DEF Back1, Appended
<1>3. PICK K : K = IF ~InRoom THEN {} ELSE {[j EXCEPT !.step = "deliver"]}
  OBVIOUS
<1>4. jobs' = [jobs EXCEPT ![p] = Turned(p, j, K)]
  BY <1>2, <1>3
<1>5. \A k \in K : k.n = j.n /\ k.to = j.to /\ k.step = "deliver" /\ InRoom
  BY <1>1, <1>3 DEF Jobs
<1>6. j.step = "echo" /\ UNCHANGED <<toServer, log, sent>>
  BY DEF Echo
<1>7. j \in Due(p, p)
  BY <1>1, <1>6 DEF Due
<1>8. GoesOn(p, j, p, K)
  BY <1>1, <1>5, <1>6 DEF GoesOn, Due, Setting
<1>9. PICK m \in ToClient(p) : m = Mail(p, j)
  BY <1>2
<1>10. Appended(p, m) \/ toClient' = toClient
  BY <1>2, <1>9
<1> QED
  BY <1>1, <1>4, <1>6, <1>7, <1>8, <1>9, <1>10, FlowSends

LEMMA FlowDeliver ==
    ASSUME Types, Types', Setting, Flow, NEW p \in Present, Apart(p), NEW j \in jobs[p],
           Deliver(p, j)
    PROVE  Flow'
<1>1. p \in People /\ j \in Jobs /\ j.to \in People /\ j.to # p
  BY InPeople, JobType DEF Others
<1>2. /\ Mail(p, j) \in ToClient(j.to)
      /\ Push(j.to, Mail(p, j)) \/ toClient' = toClient
      /\ jobs' = [jobs EXCEPT ![p] =
                    Turned(p, j, IF InRoom THEN {} ELSE {[j EXCEPT !.step = "echo"]})]
  BY DeliverTypes
<1>3. PICK K : K = IF InRoom THEN {} ELSE {[j EXCEPT !.step = "echo"]}
  OBVIOUS
<1>4. jobs' = [jobs EXCEPT ![p] = Turned(p, j, K)]
  BY <1>2, <1>3
<1>5. \A k \in K : k.n = j.n /\ k.to = j.to /\ k.step = "echo" /\ ~InRoom
  BY <1>1, <1>3 DEF Jobs
<1>6. j.step = "deliver" /\ UNCHANGED <<toServer, log, sent>>
  BY DEF Deliver
<1>7. PICK r \in People : r = j.to
  BY <1>1
<1>8. j \in Due(r, p)
  BY <1>1, <1>6, <1>7 DEF Due
<1>9. GoesOn(p, j, r, K)
  BY <1>1, <1>5, <1>6, <1>7 DEF GoesOn, Due, Setting
<1>10. PICK m \in ToClient(r) : m = Mail(p, j)
  BY <1>2, <1>7
<1>11. Appended(r, m) \/ toClient' = toClient
  BY <1>2, <1>7, <1>10, PushIs
<1> QED
  BY <1>4, <1>6, <1>8, <1>9, <1>10, <1>11, FlowSends

-----------------------------------------------------------------------------
(* What is heard comes in order                                            *)

LEMMA ScreensKept ==
    ASSUME Types, Types', Flow, NEW p \in People, NEW q \in People, p # q,
           Keeps(log[p][q], log'[p][q]), LogElse(p, q)
    PROVE  ScreensSame
<1>1. ASSUME NEW r \in People, NEW t \in People
      PROVE  Seen(r, t)' \subseteq Seen(r, t) /\ InOrderNext(r, t) /\ (r = t => log'[r][r] = <<>>)
  <2>1. CASE r = p /\ t = q
    <3>1. Nums(By(log'[p][q], q)) = Nums(By(log[p][q], q)) /\ RisingIn(cuts[q], log'[p][q], q)
      BY NumsKept DEF Flow, InOrderAt
    <3>2. Nums(ByOther(p, q))' = Nums(By(log'[p][q], q))
      BY DEF ByOther, Nums
    <3> QED
      BY <2>1, <3>1, <3>2 DEF Seen, ByOther, InOrderNext
  <2>2. CASE r # p \/ t # q
    BY <2>2 DEF LogElse, Flow, Seen, ByOther, InOrderAt, InOrderNext
  <2> QED
    BY <2>1, <2>2
<1> QED
  BY <1>1 DEF ScreensSame

LEMMA HeardFlight ==
    ASSUME Types, Flow, NEW p \in People, NEW type, Hear(p, type)
    PROVE  FlightSame /\ AskedSame
<1>1. PICK m : m = Head(toClient[p])
  OBVIOUS
<1>2. /\ \A r, q \in People : r # p \/ q # m.from \/ type # "chat" => Flight(r, q)' = Flight(r, q)
      /\ type = "chat" => Flight(p, m.from) = Flight(p, m.from)' \cup {m}
      /\ \A r \in People : Rising(cuts, toClient'[r])
  BY <1>1, FlightHeard
<1>3. ASSUME NEW r \in People, NEW q \in People PROVE Flight(r, q)' \subseteq Flight(r, q)
  BY <1>2
<1>4. toServer' = toServer
  BY DEF Hear
<1> QED
  BY <1>2, <1>3, <1>4, AskedStays DEF FlightSame

LEMMA FlowHears ==
    ASSUME Types, Types', Setting, Flow, NEW p \in Present, NEW m, Got(p, m), Hear(p, "chat"),
           NEW e \in Entries, e.by = m.from, e.n = m.n,
           log'[p][With(p, m)] = Append(log[p][With(p, m)], e), LogElse(p, With(p, m))
    PROVE  Flow'
<1>1. p \in People /\ m.from \in People /\ With(p, m) \in People /\ With(p, m) # p
  BY InPeople, GotTypes
<1>2. PICK q \in People : q = With(p, m)
  BY <1>1
<1>3. m = Head(toClient[p])
  BY DEF Got
<1>4. /\ \A r, t \in People : r # p \/ t # m.from => Flight(r, t)' = Flight(r, t)
      /\ Flight(p, m.from) = Flight(p, m.from)' \cup {m}
      /\ \A c \in Flight(p, m.from)' : Follows(cuts[m.from], m.n, c.n)
      /\ \A r \in People : Rising(cuts, toClient'[r])
  <2>1. PICK type : type = "chat"
    OBVIOUS
  <2>2. Hear(p, type)
    BY <2>1, Zenon
  <2>3. /\ \A r, t \in People : r # p \/ t # m.from \/ type # "chat" => Flight(r, t)' = Flight(r, t)
        /\ type = "chat" => /\ Flight(p, m.from) = Flight(p, m.from)' \cup {m}
                            /\ \A c \in Flight(p, m.from)' : Follows(cuts[m.from], m.n, c.n)
        /\ \A r \in People : Rising(cuts, toClient'[r])
    BY <1>1, <1>3, <2>2, FlightHeard
  <2> QED
    BY <2>1, <2>3
<1>5. FlightSame /\ AskedSame
  BY <1>1, HeardFlight
<1>6. DueSame /\ sent' = sent
  BY DueStays DEF Hear, serverVars, readerVars, Types
<1>7. log[p][q] \in Seq(Entries)
  BY <1>1, Typed
<1>8. \A r, t \in People : r # p \/ t # q => log'[r][t] = log[r][t]
  BY <1>2 DEF LogElse
<1>9. log'[p][q] = Append(log[p][q], e)
  BY <1>2
<1>10. CASE m.from = p
  <2>1. By(log'[p][q], q) = By(log[p][q], q)
    <3>1. By(Append(log[p][q], e), q) = By(log[p][q], q) \cup (IF e.by = q THEN {e} ELSE {})
      BY <1>7, ByMore
    <3> QED
      BY <1>1, <1>2, <1>9, <1>10, <3>1
  <2>2. RisingIn(cuts[q], log'[p][q], q)
    <3>1. RisingIn(cuts[q], log[p][q], q) /\ e.by # q
      BY <1>1, <1>2, <1>10 DEF Flow, InOrderAt
    <3>2. RisingIn(cuts[q], Append(log[p][q], e), q)
      BY <1>7, <3>1, RisingInMore
    <3> QED
      BY <1>9, <3>2
  <2>3. ASSUME NEW r \in People, NEW t \in People
        PROVE  Seen(r, t)' \subseteq Seen(r, t) /\ InOrderNext(r, t) /\ (r = t => log'[r][r] = <<>>)
    <3>1. CASE r = p /\ t = q
      BY <1>1, <1>2, <2>1, <2>2, <3>1 DEF Seen, ByOther, InOrderNext
    <3>2. CASE r # p \/ t # q
      BY <1>8, <3>2 DEF Flow, Seen, ByOther, InOrderAt, InOrderNext
    <3> QED
      BY <3>1, <3>2
  <2>4. ScreensSame
    BY <2>3 DEF ScreensSame
  <2> QED
    BY <1>5, <1>6, <2>4, FlowShrinks
<1>11. CASE m.from # p
  <2>1. m.from = q
    BY <1>2, <1>11 DEF With
  <2>2. m.n \in NF(p, q)
    BY <1>4, <2>1 DEF NF, Nums
  <2>3. OrderOf(p, q) /\ sent[q] \in Nat
    BY <1>1, OrderIs
  <2>4. Seen(p, q) = Nums(By(log[p][q], q))
    BY <1>1, <1>2 DEF Seen, ByOther
  <2>5. \A a \in Nums(By(log[p][q], q)) : Follows(cuts[q], a, e.n)
    BY <2>2, <2>3, <2>4 DEF OrderOf, Ordered, Before
  <2>6. RisingIn(cuts[q], log'[p][q], q)
    <3>1. RisingIn(cuts[q], log[p][q], q)
      BY <1>1 DEF Flow, InOrderAt
    <3>2. RisingIn(cuts[q], Append(log[p][q], e), q)
      BY <1>7, <2>5, <3>1, RisingInMore
    <3> QED
      BY <1>9, <3>2
  <2>7. Seen(p, q)' \in SUBSET (Seen(p, q) \cup {m.n})
    <3>1. By(Append(log[p][q], e), q) \subseteq By(log[p][q], q) \cup {e}
      BY <1>7, ByMore
    <3>2. Nums(By(Append(log[p][q], e), q)) \subseteq Nums(By(log[p][q], q)) \cup {e.n}
      BY <3>1 DEF Nums
    <3>3. Seen(p, q)' = Nums(By(log'[p][q], q))
      BY <1>1, <1>2 DEF Seen, ByOther, Nums
    <3> QED
      BY <1>9, <2>4, <3>2, <3>3
  <2>8. NF(p, q)' \in SUBSET NF(p, q) /\ \A f \in NF(p, q)' : Follows(cuts[q], m.n, f)
    BY <1>4, <2>1 DEF NF, Nums
  <2>9. ASSUME NEW r \in People, NEW t \in People PROVE OrderNext(r, t) /\ InOrderNext(r, t) /\ (r = t => log'[r][r] = <<>>)
    <3>1. NF(r, t)' \subseteq NF(r, t) /\ ND(r, t)' \in SUBSET ND(r, t) /\ NA(t)' \in SUBSET NA(t)
      BY <1>5, <1>6, NumsLess DEF FlightSame, DueSame, AskedSame, NF, NA
    <3>2. CASE r = p /\ t = q
      <4>1. Ordered(cuts[q], Seen(p, q), NF(p, q), ND(p, q), NA(q), sent[q])
        BY <2>3 DEF OrderOf
      <4>2. Ordered(cuts[q], Seen(p, q)', NF(p, q)', ND(p, q), NA(q), sent[q])
        BY <2>2, <2>3, <2>7, <2>8, <4>1, FlightToSeen
      <4>3. Seen(p, q)' \in SUBSET Seen(p, q)' /\ NF(p, q)' \in SUBSET NF(p, q)'
        OBVIOUS
      <4>4. Ordered(cuts[q], Seen(p, q)', NF(p, q)', ND(p, q)', NA(q)', sent[q])
        BY <2>3, <3>1, <3>2, <4>2, <4>3, Shrinks
      <4> QED
        BY <1>1, <1>2, <1>6, <2>6, <3>2, <4>4 DEF OrderNext, InOrderNext
    <3>3. CASE r # p \/ t # q
      <4>1. Seen(r, t)' \subseteq Seen(r, t) /\ InOrderNext(r, t) /\ (r = t => log'[r][r] = <<>>)
        BY <1>8, <3>3 DEF Flow, Seen, ByOther, InOrderAt, InOrderNext
      <4>2. sent'[t] = sent[t]
        BY <1>6
      <4> QED
        BY <3>1, <4>1, <4>2, OrderStays
    <3> QED
      BY <3>2, <3>3
  <2> QED
    BY <1>4, <1>5, <2>9, FlowMade DEF AskedSame
<1> QED
  BY <1>10, <1>11

LEMMA SignSent ==
    ASSUME Types, NEW p \in Present, SendTyping(p) \/ ChangeLang(p)
    PROVE  \E m \in ToServer(p) : m.type # "chat" /\ Sent(p, m)
<1>1. p \in People
  BY InPeople
<1>2. CASE SendTyping(p)
  <2>1. PICK q \in Others(p) : Sent(p, Msg("typing", p, q, 0, None, None))
    BY <1>2 DEF SendTyping
  <2>2. /\ Msg("typing", p, q, 0, None, None) \in ToServer(p)
        /\ Msg("typing", p, q, 0, None, None).type # "chat"
    BY <1>1, <2>1, Others1 DEF Types, Msg, ToServer, Messages, Names, Words, Marks
  <2> QED
    BY <2>1, <2>2
<1>3. CASE ChangeLang(p)
  <2>1. PICK l \in Langs : Sent(p, Msg("lang", p, None, 0, None, l))
    BY <1>3 DEF ChangeLang
  <2>2. /\ Msg("lang", p, None, 0, None, l) \in ToServer(p)
        /\ Msg("lang", p, None, 0, None, l).type # "chat"
    BY <1>1, <2>1 DEF Msg, ToServer, Messages, Names, Words, Marks, Shown
  <2> QED
    BY <2>1, <2>2
<1> QED
  BY <1>2, <1>3

\* A message that is not a chat does not count.
LEMMA FlowSigns ==
    ASSUME Types, Types', Setting, Flow, NEW p \in People, NEW m \in ToServer(p), m.type # "chat",
           Sent(p, m), UNCHANGED <<serverVars, toClient, log, sent>>
    PROVE  Flow'
<1>1. /\ \A q \in People \ {p} : Asked(q)' = Asked(q)
      /\ Asked(p)' = Asked(p) \cup (IF Linked(p) /\ m.type = "chat" THEN {m} ELSE {})
      /\ \A q \in People : Rising(NoCuts, toServer'[q])
  BY AskedSent
<1>2. AskedSame
  BY <1>1 DEF AskedSame
<1>3. FlightSame /\ DueSame /\ ScreensSame
  BY FlightStays, DueStays, ScreensStay DEF serverVars, readerVars, Types
<1> QED
  BY <1>2, <1>3, FlowShrinks

LEMMA FlowSignTaken ==
    ASSUME Types, Flow, NEW p \in People, NEW type, type # "chat", Next1(p, type)
    PROVE  AskedSame
<1>1. /\ \A q \in People \ {p} : Asked(q)' = Asked(q)
      /\ Asked(p) = Asked(p)' \cup (IF type = "chat" THEN {Head(toServer[p])} ELSE {})
      /\ \A q \in People : Rising(NoCuts, toServer'[q])
  BY AskedTaken
<1>2. \A q \in People : Asked(q)' \subseteq Asked(q)
  BY <1>1
<1> QED
  BY <1>1, <1>2 DEF AskedSame

LEMMA FlowRelays == ASSUME Types, Types', Setting, Flow, NEW p \in Present, RelayTyping(p) PROVE Flow'
<1>1. p \in People /\ Next1(p, "typing")
  BY InPeople DEF RelayTyping, Take
<1>2. PICK m \in ToServer(p) : m = Head(toServer[p]) /\ m.type = "typing"
  BY <1>1, Taken DEF Types
<1>3. m.to \in People /\ m \in ToClient(m.to)
  BY <1>2, Others1 DEF ToServer, ToClient, Types
<1>4. AskedSame
  <2>1. PICK type : type = "typing"
    OBVIOUS
  <2> QED
    BY <1>1, <2>1, FlowSignTaken
<1>5. PICK r \in People : r = m.to
  BY <1>3
<1>6. Appended(r, m) \/ toClient' = toClient
  BY <1>2, <1>5, PushIs DEF RelayTyping
<1>7. FlightSame
  <2>1. CASE Appended(r, m)
    <3>1. /\ \A t, q \in People : t # r \/ q # m.from \/ m.type # "chat" => Flight(t, q)' = Flight(t, q)
          /\ \A t \in People : Rising(cuts, toClient'[t])
      BY <1>2, <1>3, <1>5, <2>1, FlightMore
    <3> QED
      BY <1>2, <3>1 DEF FlightSame
  <2>2. CASE toClient' = toClient
    BY <2>2, FlightStays
  <2> QED
    BY <1>6, <2>1, <2>2
<1>8. DueSame /\ ScreensSame /\ sent' = sent
  BY DueStays, ScreensStay DEF RelayTyping, serverVars, readerVars, Types
<1> QED
  BY <1>4, <1>7, <1>8, FlowShrinks

\* The end of a connection: its queues are gone.
LEMMA FlowLose == ASSUME Types, Types', Setting, Flow, NEW p \in Present, Lose(p) PROVE Flow'
<1>1. p \in People
  BY InPeople
<1>2. /\ toServer' = [toServer EXCEPT ![p] = <<>>]
      /\ toClient' = [toClient EXCEPT ![p] = <<>>]
      /\ UNCHANGED <<jobs, log, sent>>
  BY DEF Lose
<1>3. AskedSame
  <2>1. ASSUME NEW q \in People
        PROVE  Asked(q)' \subseteq Asked(q) /\ Rising(NoCuts, toServer'[q])
    <3>1. toServer'[q] = <<>> \/ toServer'[q] = toServer[q]
      BY <1>1, <1>2 DEF Types, WireOK
    <3> QED
      BY <3>1, ChatsNone, RisingNone DEF Asked, Flow
  <2> QED
    BY <2>1 DEF AskedSame
<1>4. FlightSame
  <2>1. ASSUME NEW q \in People
        PROVE  Chats(toClient'[q]) \subseteq Chats(toClient[q]) /\ Rising(cuts, toClient'[q])
    <3>1. toClient'[q] = <<>> \/ toClient'[q] = toClient[q]
      BY <1>1, <1>2 DEF Types, WireOK
    <3> QED
      BY <3>1, ChatsNone, RisingNone DEF Flow
  <2> QED
    BY <2>1 DEF FlightSame, Flight
<1>5. DueSame /\ ScreensSame
  BY <1>2, DueStays, ScreensStay DEF Types
<1> QED
  BY <1>2, <1>3, <1>4, <1>5, FlowShrinks

\* The other one may be told that somebody is gone.
LEMMA FlowDisconnect ==
    ASSUME Types, Types', Setting, Flow, NEW p \in Present, HandleDisconnect(p)
    PROVE  Flow' /\ \A q \in People : Chats(toClient'[q]) = Chats(toClient[q])
<1>1. p \in People
  BY InPeople
<1>2. /\ toClient' = [q \in People |->
            IF InRoom /\ at[p] = "in" /\ q \in Others(p) /\ at[q] # "out" /\ link[q] = "up"
            THEN Append(toClient[q], Msg("left", p, q, 0, None, None)) ELSE toClient[q]]
      /\ UNCHANGED <<toServer, jobs, log, sent>>
  BY DEF HandleDisconnect
<1>3. ASSUME NEW q \in People
      PROVE  Chats(toClient'[q]) = Chats(toClient[q]) /\ Rising(cuts, toClient'[q])
  <2>1. PICK m : m = Msg("left", p, q, 0, None, None)
    OBVIOUS
  <2>2. m \in Messages /\ m.type = "left"
    BY <1>1, <2>1 DEF Msg, Messages, Names, Words, Marks
  <2>3. toClient[q] \in Seq(Messages) /\ Rising(cuts, toClient[q])
    BY Typed DEF Flow
  <2>4. Chats(Append(toClient[q], m)) = Chats(toClient[q]) /\ Rising(cuts, Append(toClient[q], m))
    BY <2>2, <2>3, ChatsMore, RisingMore
  <2>5. toClient'[q] \in {toClient[q], Append(toClient[q], m)}
    BY <1>2, <2>1
  <2> QED
    BY <2>3, <2>4, <2>5
<1>4. FlightSame
  BY <1>3 DEF FlightSame, Flight
<1>5. AskedSame /\ DueSame /\ ScreensSame
  BY <1>2, AskedStays, DueStays, ScreensStay DEF Types
<1> QED
  BY <1>2, <1>3, <1>4, <1>5, FlowShrinks

LEMMA AskedReopen == ASSUME Types, Flow, NEW p \in Present, Reopen(p) PROVE AskedSame
<1>1. p \in People
  BY InPeople
<1>2. PICK m : m = Msg("join", p, None, 0, None, None)
  OBVIOUS
<1>3. m \in Messages /\ m.type = "join"
  BY <1>1, <1>2 DEF Msg, Messages, Names, Words, Marks
<1>4. toServer' = [toServer EXCEPT ![p] = IF InRoom THEN @ ELSE Append(@, m)]
  BY <1>2 DEF Reopen
<1>5. toServer[p] \in Seq(Messages) /\ Rising(NoCuts, toServer[p])
  BY <1>1, Typed DEF Flow
<1>6. Chats(Append(toServer[p], m)) = Chats(toServer[p]) /\ Rising(NoCuts, Append(toServer[p], m))
  BY <1>3, <1>5, ChatsMore, RisingMore
<1>7. ASSUME NEW q \in People PROVE Asked(q)' \subseteq Asked(q) /\ Rising(NoCuts, toServer'[q])
  <2>1. toServer'[q] = toServer[q] \/ (q = p /\ toServer'[q] = Append(toServer[p], m))
    BY <1>1, <1>4 DEF Types, WireOK
  <2> QED
    BY <1>6, <2>1 DEF Asked, Flow
<1> QED
  BY <1>7 DEF AskedSame

LEMMA FlowReopen == ASSUME Types, Types', Setting, Flow, NEW p \in Present, Reopen(p) PROVE Flow'
<1>1. AskedSame
  BY AskedReopen
<1>2. FlightSame /\ DueSame /\ ScreensSame /\ sent' = sent
  BY FlightStays, DueStays, ScreensStay DEF Reopen, serverVars, readerVars, Types
<1> QED
  BY <1>1, <1>2, FlowShrinks

LEMMA FlowOpen == ASSUME Types, Types', Setting, Flow, NEW p \in Present, OpenChat(p) PROVE Flow'
<1>1. PICK q \in Others(p) : log' = [log EXCEPT ![p][q] = Read(log[p][q])]
  BY Zenon DEF OpenChat, Read
<1>2. p \in People /\ q \in People /\ p # q
  BY Others1 DEF Types
<1>3. log[p][q] \in Seq(Entries)
  BY <1>2, Typed
<1>4. PICK s \in Seq(Entries) : s = Read(log[p][q])
  BY <1>3, ReadType
<1>5. log' = [log EXCEPT ![p][q] = s]
  BY <1>1, <1>4
<1>6. LogIs(p, q, s)
  BY <1>2, <1>5, LogChanges DEF Types
<1>7. Keeps(log[p][q], log'[p][q]) /\ LogElse(p, q)
  BY <1>3, <1>4, <1>6, KeepsRead DEF LogIs
<1>8. ScreensSame
  BY <1>2, <1>7, ScreensKept
<1>9. AskedSame /\ FlightSame /\ DueSame /\ sent' = sent
  BY AskedStays, FlightStays, DueStays DEF OpenChat, serverVars, readerVars, wireVars, Types
<1> QED
  BY <1>8, <1>9, FlowShrinks

\* An echo that is matched leaves the order on the screen.
LEMMA FlowMatches ==
    ASSUME Types, Types', Setting, Flow, NEW p \in People, NEW q \in People, p # q, NEW m,
           Hear(p, "chat"),
           log' = log \/ (Updated(log[p][q], log'[p][q], m) /\ LogElse(p, q))
    PROVE  Flow'
<1>1. ScreensSame
  <2>1. CASE log' = log
    BY <2>1, ScreensStay
  <2>2. CASE Updated(log[p][q], log'[p][q], m) /\ LogElse(p, q)
    <3>1. Keeps(log[p][q], log'[p][q])
      BY <2>2, Typed, KeepsUpdated
    <3> QED
      BY <2>2, <3>1, ScreensKept
  <2> QED
    BY <2>1, <2>2
<1>2. FlightSame /\ AskedSame
  <2>1. PICK type : type = "chat"
    OBVIOUS
  <2> QED
    BY <2>1, HeardFlight
<1>3. DueSame /\ sent' = sent
  BY DueStays DEF Hear, serverVars, readerVars, Types
<1> QED
  BY <1>1, <1>2, <1>3, FlowShrinks

LEMMA FlowOnChat == ASSUME Types, Types', Setting, Flow, NEW p \in Present, OnChat(p) PROVE Flow'
<1>1. p \in People /\ Hear(p, "chat")
  BY InPeople DEF OnChat
<1>2. PICK m \in Messages : /\ Got(p, m)
                            /\ Matched(p, With(p, m), m) \/ Showed(p, With(p, m), m)
                            /\ LogElse(p, With(p, m))
  BY OnChatTypes
<1>3. With(p, m) \in People /\ With(p, m) # p
  BY <1>2, GotTypes
<1>4. PICK q \in People : q = With(p, m) /\ q # p
  BY <1>3
<1>5. CASE Matched(p, With(p, m), m)
  <2>1. Updated(log[p][q], log'[p][q], m) /\ LogElse(p, q)
    BY <1>2, <1>4, <1>5 DEF Matched
  <2> QED
    BY <1>1, <1>4, <2>1, FlowMatches
<1>6. CASE Showed(p, With(p, m), m)
  <2>1. PICK e \in Entries : e = Theirs(m, TRUE)
    BY <1>2, TheirsType
  <2>2. e.by = m.from /\ e.n = m.n
    BY <2>1 DEF Theirs, Entry
  <2>3. log'[p][With(p, m)] = Append(log[p][With(p, m)], e)
    BY <1>6, <2>1 DEF Showed
  <2> QED
    BY <1>1, <1>2, <2>2, <2>3, FlowHears
<1> QED
  BY <1>2, <1>5, <1>6

LEMMA FlowOnEcho == ASSUME Types, Types', Setting, Flow, NEW p \in Present, OnEcho(p) PROVE Flow'
<1>1. p \in People /\ Hear(p, "chat")
  BY InPeople DEF OnEcho
<1>2. PICK m \in Messages : /\ Got(p, m)
                            /\ \/ open[p] = None /\ log' = log
                               \/ /\ open[p] \in Others(p)
                                  /\ Updated(log[p][open[p]], log'[p][open[p]], m)
                                  /\ LogElse(p, open[p])
  BY OnEchoTypes
<1>3. CASE log' = log
  <2>1. With(p, m) \in People /\ With(p, m) # p
    BY <1>2, GotTypes
  <2> QED
    BY <1>1, <1>3, <2>1, FlowMatches
<1>4. CASE /\ open[p] \in Others(p)
           /\ Updated(log[p][open[p]], log'[p][open[p]], m) /\ LogElse(p, open[p])
  <2>1. PICK q \in People : q = open[p] /\ q # p
    BY <1>4, Others1 DEF Types
  <2>2. Updated(log[p][q], log'[p][q], m) /\ LogElse(p, q)
    BY <1>4, <2>1
  <2> QED
    BY <1>1, <2>1, <2>2, FlowMatches
<1> QED
  BY <1>2, <1>3, <1>4

LEMMA FlowOnDM == ASSUME Types, Types', Setting, Flow, NEW p \in Present, OnDM(p) PROVE Flow'
<1>1. p \in People /\ Hear(p, "chat")
  BY InPeople DEF OnDM
<1>2. PICK m \in Messages : /\ Got(p, m) /\ m.from # p
                            /\ Counted(p, m.from, m) /\ LogElse(p, m.from)
  BY OnDMTypes
<1>3. With(p, m) = m.from
  BY <1>2 DEF With
<1>4. PICK seen \in BOOLEAN : /\ Theirs(m, seen) \in Entries
                              /\ log'[p][m.from] = Append(log[p][m.from], Theirs(m, seen))
  BY <1>2 DEF Counted
<1>5. PICK e \in Entries : e = Theirs(m, seen)
  BY <1>4
<1>6. e.by = m.from /\ e.n = m.n
  BY <1>5 DEF Theirs, Entry
<1>7. log'[p][With(p, m)] = Append(log[p][With(p, m)], e) /\ LogElse(p, With(p, m))
  BY <1>2, <1>3, <1>4, <1>5
<1> QED
  BY <1>1, <1>2, <1>6, <1>7, FlowHears

LEMMA FlowSignHeard ==
    ASSUME Types, Types', Setting, Flow, NEW p \in Present, OnTyping(p) \/ OnPeerLeft(p)
    PROVE  Flow'
<1>1. PICK type : Hear(p, type) /\ log' = log
  BY DEF OnTyping, OnPeerLeft
<1>2. FlightSame /\ AskedSame
  BY <1>1, InPeople, HeardFlight
<1>3. DueSame /\ ScreensSame /\ sent' = sent
  BY <1>1, DueStays, ScreensStay DEF Hear, serverVars, readerVars, Types
<1> QED
  BY <1>2, <1>3, FlowShrinks

\* Nothing moves.
LEMMA FlowStays ==
    ASSUME Types, Types', Setting, Flow, UNCHANGED <<toServer, toClient, jobs, log, sent>>
    PROVE  Flow'
<1>1. AskedSame /\ FlightSame /\ DueSame /\ ScreensSame
  BY AskedStays, FlightStays, DueStays, ScreensStay DEF Types
<1> QED
  BY <1>1, FlowShrinks

LEMMA TurnedNumber ==
    ASSUME Types, Setting, NEW p \in Present, NEW j \in jobs[p],
           Translate(p, j) \/ AddChatMessage(p, j)
    PROVE  \E k : k.n = j.n /\ k.to = j.to /\ jobs' = [jobs EXCEPT ![p] = Turned(p, j, {k})]
<1>1. j \in Jobs
  BY InPeople, JobType
<1>2. CASE Translate(p, j)
  <2>1. PICK got \in Shown :
          LET k == [j EXCEPT !.step = IF InRoom THEN "store" ELSE "deliver", !.got = got]
          IN  k \in Jobs /\ jobs' = [jobs EXCEPT ![p] = Turned(p, j, {k})]
    BY <1>2, TranslateTypes
  <2>2. PICK k : k = [j EXCEPT !.step = IF InRoom THEN "store" ELSE "deliver", !.got = got]
    OBVIOUS
  <2>3. k.n = j.n /\ k.to = j.to /\ jobs' = [jobs EXCEPT ![p] = Turned(p, j, {k})]
    BY <1>1, <2>1, <2>2 DEF Jobs
  <2> QED
    BY <2>3
<1>3. CASE AddChatMessage(p, j)
  <2>1. LET k == [j EXCEPT !.step = "echo"]
        IN  k \in Jobs /\ jobs' = [jobs EXCEPT ![p] = Turned(p, j, {k})]
    BY <1>3, AddTypes
  <2>2. PICK k : k = [j EXCEPT !.step = "echo"]
    OBVIOUS
  <2>3. k.n = j.n /\ k.to = j.to /\ jobs' = [jobs EXCEPT ![p] = Turned(p, j, {k})]
    BY <1>1, <2>1, <2>2 DEF Jobs
  <2> QED
    BY <2>3
<1> QED
  BY <1>2, <1>3

LEMMA FlowInit == Init => Flow
<1> SUFFICES ASSUME Init PROVE Flow
  OBVIOUS
<1>1. \A p \in People : toServer[p] = <<>> /\ toClient[p] = <<>> /\ jobs[p] = {}
  BY DEF Init
<1>2. \A p, q \in People : log[p][q] = <<>>
  BY DEF Init
<1>3. ASSUME NEW p \in People, NEW q \in People PROVE Order(p, q) /\ InOrderAt(p, q)
  <2>1. Asked(q) = {} /\ Flight(p, q) = {} /\ Due(p, q) = {}
    BY <1>1, ChatsNone DEF Asked, Flight, Due
  <2>2. By(<<>>, q) = {} /\ RisingIn(cuts[q], <<>>, q)
    BY DEF By, RisingIn
  <2>3. Seen(p, q) = {}
    BY <1>2, <2>2, NumsNone DEF Seen, ByOther
  <2>4. Ordered(cuts[q], {}, {}, {}, {}, sent[q])
    BY DEF Ordered, Before
  <2> QED
    BY <1>2, <2>1, <2>2, <2>3, <2>4, NumsNone DEF Order, InOrderAt
<1> QED
  BY <1>1, <1>2, <1>3, RisingNone DEF Flow

LEMMA FlowStep ==
    ASSUME Types, Types', Flow, \A p \in People : Readers(p), [Next]_vars
    PROVE  Flow'
<1>1. CASE UNCHANGED vars
  <2>1. Setting
    BY <1>1, SamePlace DEF vars, Types, Setting
  <2> QED
    BY <1>1, <2>1, FlowStays DEF vars, serverVars, readerVars, wireVars
<1>2. CASE Next
  <2>1. Setting
    BY <1>2, Setup DEF Types
  <2>2. PICK p \in Present : Buttons(p) \/ Server(p) \/ Browser(p) \/ Lose(p) \/ Reopen(p)
    BY <1>2 DEF Next
  <2>3. p \in People
    BY InPeople
  <2>4. CASE SendMessage(p) \/ SendDM(p)
    <3>1. PICK q \in Others(p), text \in Texts : Write(p, q, text)
      BY <2>4 DEF SendMessage, SendDM, Types, PageOK
    <3>2. UNCHANGED <<serverVars, link, toClient>>
      BY <2>4 DEF SendMessage, SendDM
    <3> QED
      BY <2>1, <3>1, <3>2, FlowWrite
  <2>5. CASE SendTyping(p) \/ ChangeLang(p)
    <3>1. PICK m \in ToServer(p) : m.type # "chat" /\ Sent(p, m)
      BY <2>5, SignSent
    <3>2. UNCHANGED <<serverVars, toClient, log, sent>>
      BY <2>5 DEF SendTyping, ChangeLang
    <3> QED
      BY <2>1, <2>3, <3>1, <3>2, FlowSigns
  <2>6. CASE HandleChat(p)
    <3>1. Next1(p, "chat") /\ UNCHANGED <<toClient, log, sent>>
      BY <2>6 DEF HandleChat, Take
    <3>2. LET m == Head(toServer[p]) IN
          jobs' = jobs \/ jobs' = [jobs EXCEPT ![p] = jobs[p] \cup {Job(m)}]
      BY <2>1, <2>6, HandleTypes
    <3> QED
      BY <2>1, <3>1, <3>2, FlowTaken
  <2>7. CASE Refuse(p)
    <3>1. Next1(p, "chat") /\ jobs' = jobs /\ UNCHANGED <<toClient, log, sent>>
      BY <2>7 DEF Refuse, Take, serverVars, readerVars
    <3> QED
      BY <2>1, <3>1, FlowTaken
  <2>8. CASE HandleLang(p) \/ HandleRejoin(p)
    <3>1. PICK type : type # "chat" /\ Next1(p, type)
      BY <2>8 DEF HandleLang, HandleRejoin, Take
    <3>2. UNCHANGED <<jobs, toClient, log, sent>>
      BY <2>8 DEF HandleLang, HandleRejoin, readerVars
    <3>3. AskedSame
      BY <2>3, <3>1, FlowSignTaken
    <3>4. FlightSame /\ DueSame /\ ScreensSame
      BY <2>1, <3>2, FlightStays, DueStays, ScreensStay DEF Types
    <3> QED
      BY <2>1, <3>2, <3>3, <3>4, FlowShrinks
  <2>9. CASE \E j \in jobs[p] : Translate(p, j) \/ AddChatMessage(p, j)
    <3>1. PICK j \in jobs[p] : Translate(p, j) \/ AddChatMessage(p, j)
      BY <2>9
    <3>2. j \in Jobs /\ j.step \in {"translate", "store"}
      BY <2>3, <3>1, JobType DEF Translate, AddChatMessage
    <3>3. PICK k : k.n = j.n /\ k.to = j.to /\ jobs' = [jobs EXCEPT ![p] = Turned(p, j, {k})]
      BY <2>1, <2>3, <3>1, TurnedNumber
    <3>4. UNCHANGED <<toServer, toClient, log, sent>>
      BY <3>1 DEF Translate, AddChatMessage, wireVars
    <3>5. DueSame
      BY <2>1, <2>3, <3>2, <3>3, DueStep
    <3>6. AskedSame /\ FlightSame /\ ScreensSame
      BY <3>4, AskedStays, FlightStays, ScreensStay
    <3> QED
      BY <2>1, <3>4, <3>5, <3>6, FlowShrinks
  <2>10. CASE \E j \in jobs[p] : Echo(p, j) \/ Deliver(p, j)
    BY <2>1, <2>3, <2>10, FlowEcho, FlowDeliver DEF Readers
  <2>11. CASE Removed(p) \/ TypingOver(p) \/ CloseChat(p) \/ CallFromChat(p)
    <3>1. UNCHANGED <<toServer, toClient, jobs, log, sent>>
      BY <2>11 DEF Removed, TypingOver, CloseChat, CallFromChat, serverVars, readerVars, wireVars
    <3> QED
      BY <2>1, <3>1, FlowStays
  <2>12. CASE OnChat(p) \/ OnEcho(p) \/ OnDM(p) \/ OnTyping(p) \/ OnPeerLeft(p)
    BY <2>1, <2>12, FlowOnChat, FlowOnEcho, FlowOnDM, FlowSignHeard
  <2>13. CASE RelayTyping(p) \/ OpenChat(p) \/ Lose(p) \/ Reopen(p) \/ HandleDisconnect(p)
    BY <2>1, <2>13, FlowRelays, FlowOpen, FlowLose, FlowReopen, FlowDisconnect
  <2> QED
    BY <2>2, <2>4, <2>5, <2>6, <2>7, <2>8, <2>9, <2>10, <2>11, <2>12, <2>13
       DEF Buttons, Server, Browser
<1> QED
  BY <1>1, <1>2

-----------------------------------------------------------------------------
(* The readers                                                             *)

LEMMA Numbers ==
    ASSUME Types, NEW p \in People
    PROVE  /\ \A j \in jobs[p] : j.n \in Nat
           /\ \A m \in Asked(p) : m.n \in Nat
           /\ sent[p] \in Nat /\ cuts[p] \subseteq Nat
<1>1. \A j \in jobs[p] : j.n \in Nat
  BY JobType DEF Jobs
<1>2. ASSUME NEW m \in Asked(p) PROVE m.n \in Nat
  <2>1. toServer[p] \in Seq(Messages)
    BY Typed
  <2>2. m \in Messages
    BY <1>2, <2>1 DEF Asked, Chats
  <2> QED
    BY <2>2 DEF Messages
<1> QED
  BY <1>1, <1>2 DEF Types, PageOK

\* Nothing happens to the readers of q, but that one may tell the hub of its end.
Idle(q) ==
    /\ cuts'[q] = cuts[q] /\ sent'[q] = sent[q] /\ Asked(q)' \subseteq Asked(q)
    /\ jobs'[q] = jobs[q] /\ busy'[q] = busy[q]
    /\ ending'[q] = ending[q] \/ ending[q] > 0

LEMMA ReadersStay == ASSUME NEW q \in People, Readers(q), Idle(q) PROVE Readers(q)'
BY DEF Idle, Readers, Apart, Behind, Old

LEMMA ReadersWrite ==
    ASSUME Types, NEW p \in People, Readers(p), NEW m, m.n = sent[p] + 1,
           Asked(p)' \subseteq Asked(p) \cup {m}, sent'[p] = sent[p] + 1,
           cuts'[p] = cuts[p], jobs'[p] = jobs[p], busy'[p] = busy[p], ending'[p] = ending[p]
    PROVE  Readers(p)'
<1>1. /\ \A j \in jobs[p] : j.n \in Nat
      /\ \A a \in Asked(p) : a.n \in Nat
      /\ sent[p] \in Nat /\ cuts[p] \subseteq Nat
  BY Numbers
<1>2. \A j \in jobs[p] : (Old(p, j)' <=> Old(p, j)) /\ j.n < m.n
  BY <1>1 DEF Readers, Old
<1>3. Behind(p)'
  <2>1. ASSUME NEW j \in jobs[p], NEW a \in Asked(p)'
        PROVE  j.n < a.n /\ (Old(p, j) => \E c \in cuts[p] : j.n <= c /\ c < a.n)
    <3>1. CASE a \in Asked(p)
      BY <3>1 DEF Readers, Behind
    <3>2. CASE a = m
      BY <1>1, <1>2, <3>2 DEF Readers
    <3> QED
      BY <3>1, <3>2
  <2> QED
    BY <1>2, <2>1 DEF Behind
<1>4. Apart(p)'
  BY DEF Readers, Apart
<1>5. \A a \in Asked(p)' : 0 < a.n /\ a.n <= sent[p] + 1
  BY <1>1 DEF Readers
<1>6. (\A c \in cuts[p] : c <= sent[p] + 1) /\ \A j \in jobs[p] : 0 < j.n /\ j.n <= sent[p] + 1
  BY <1>1 DEF Readers
<1> QED
  BY <1>2, <1>3, <1>4, <1>5, <1>6 DEF Readers

LEMMA ReadersTake ==
    ASSUME Types, NEW p \in People, Readers(p), NEW m \in Asked(p),
           Asked(p)' \subseteq Asked(p), \A a \in Asked(p)' : m.n < a.n, busy[p] = 0,
           jobs'[p] = jobs[p] \cup {Job(m)}, busy'[p] = m.n,
           sent'[p] = sent[p], cuts'[p] = cuts[p], ending'[p] = ending[p]
    PROVE  Readers(p)'
<1>1. /\ \A j \in jobs[p] : j.n \in Nat
      /\ \A a \in Asked(p) : a.n \in Nat
      /\ sent[p] \in Nat /\ cuts[p] \subseteq Nat
  BY Numbers
<1>2. Job(m).n = m.n /\ 0 < m.n /\ m.n <= sent[p]
  BY DEF Job, Readers
<1>3. \A j \in jobs[p] : /\ Old(p, j) /\ Old(p, j)'
                         /\ j.n < m.n /\ \E c \in cuts[p] : j.n <= c /\ c < m.n
  BY <1>1 DEF Readers, Behind, Old
<1>4. ~Old(p, Job(m))'
  BY <1>2 DEF Old
<1>5. Apart(p)'
  <2>1. \A j \in jobs[p] : Follows(cuts[p], j.n, m.n) /\ Follows(cuts[p], m.n, j.n)
    BY <1>3 DEF Follows
  <2> QED
    BY <1>2, <2>1 DEF Apart, Readers
<1>6. Behind(p)'
  BY <1>2, <1>3, <1>4 DEF Behind, Readers
<1> QED
  BY <1>2, <1>3, <1>4, <1>5, <1>6 DEF Readers

LEMMA ReadersTurn ==
    ASSUME NEW p \in People, Readers(p), NEW j \in jobs[p], NEW k, k.n = j.n,
           jobs'[p] = Turned(p, j, {k}), Asked(p)' = Asked(p), sent'[p] = sent[p],
           cuts'[p] = cuts[p], busy'[p] = busy[p], ending'[p] = ending[p]
    PROVE  Readers(p)'
<1>1. \A i \in jobs'[p] : i = k \/ (i \in jobs[p] /\ i # j)
  BY DEF Turned
<1>2. Apart(p)'
  BY <1>1 DEF Apart, Readers
<1>3. Behind(p)'
  BY <1>1 DEF Behind, Readers, Old
<1> QED
  BY <1>1, <1>2, <1>3 DEF Readers, Old

LEMMA ReadersDone ==
    ASSUME Types, NEW p \in People, Readers(p), Ends, NEW j \in jobs[p],
           jobs'[p] = Turned(p, j, {}), Asked(p)' = Asked(p), sent'[p] = sent[p],
           cuts'[p] = cuts[p], busy'[p] = IF Old(p, j) THEN busy[p] ELSE 0,
           Old(p, j) \/ ending'[p] = ending[p]
    PROVE  Readers(p)'
<1>1. \A i \in jobs'[p] : i \in jobs[p] /\ i # j
  BY DEF Turned
<1>2. \A i \in jobs'[p] : Old(p, i)' => Old(p, i)
  <2>1. ASSUME NEW i \in jobs'[p], ~Old(p, i) PROVE ~Old(p, i)'
    <3>1. i.n # j.n
      BY <1>1, Numbers DEF Readers, Apart, Follows
    <3> QED
      BY <2>1, <3>1 DEF Old
  <2> QED
    BY <2>1
<1>3. Apart(p)'
  BY <1>1 DEF Apart, Readers
<1>4. Behind(p)'
  BY <1>1, <1>2 DEF Behind, Readers
<1>5. ending'[p] > 0 => cuts[p] # {}
  BY DEF Readers
<1> QED
  BY <1>1, <1>2, <1>3, <1>4, <1>5 DEF Readers

LEMMA ReadersLose ==
    ASSUME Types, NEW p \in People, Readers(p), jobs'[p] = jobs[p], Asked(p)' = {},
           sent'[p] = sent[p], cuts'[p] = cuts[p] \cup {sent[p]}
    PROVE  Readers(p)'
<1>1. sent[p] \in Nat
  BY Numbers
<1>2. Apart(p)'
  BY DEF Apart, Readers, Follows
<1>3. Behind(p)'
  BY DEF Behind
<1> QED
  BY <1>1, <1>2, <1>3 DEF Readers

LEMMA ReadersInit == Init => \A p \in People : Readers(p)
<1> SUFFICES ASSUME Init, NEW p \in People PROVE Readers(p)
  OBVIOUS
<1>1. cuts[p] = {} /\ jobs[p] = {} /\ ending[p] = 0 /\ toServer[p] = <<>>
  BY DEF Init
<1>2. Asked(p) = {}
  BY <1>1, ChatsNone DEF Asked
<1> QED
  BY <1>1, <1>2 DEF Readers, Apart, Behind

\* What the steps of the readers of p leave to others.
LEMMA ReadersElse ==
    ASSUME Types, Ends, NEW p \in People, NEW q \in People, q # p, NEW J, NEW b, NEW e,
           jobs' = [jobs EXCEPT ![p] = J], busy' = [busy EXCEPT ![p] = b] \/ busy' = busy,
           ending' = [ending EXCEPT ![p] = e] \/ ending' = ending, Asked(q)' \subseteq Asked(q),
           sent'[q] = sent[q], cuts'[q] = cuts[q]
    PROVE  Idle(q)
BY DEF Types, ServerOK, Ends, Idle

\* A handler goes on with its message.
LEMMA ReadersOn ==
    ASSUME Types, Ends, NEW p \in People, NEW q \in People, Readers(q), NEW j \in jobs[p],
           NEW k, k.n = j.n, jobs' = [jobs EXCEPT ![p] = Turned(p, j, {k})],
           UNCHANGED <<toServer, busy, ending, cuts, sent>>
    PROVE  Readers(q)'
<1>1. Asked(q)' = Asked(q)
  BY DEF Asked
<1>2. CASE q = p
  <2>1. jobs'[p] = Turned(p, j, {k})
    BY DEF Types, ServerOK
  <2> QED
    BY <1>1, <1>2, <2>1, ReadersTurn
<1>3. CASE q # p
  <2>1. Idle(q)
    BY <1>1, <1>3 DEF Idle, Types, ServerOK
  <2> QED
    BY <2>1, ReadersStay
<1> QED
  BY <1>2, <1>3

LEMMA ReadersStep ==
    ASSUME Types, Types', Ends, Flow, \A p \in People : Readers(p), [Next]_vars
    PROVE  \A p \in People : Readers(p)'
<1> SUFFICES ASSUME NEW q \in People PROVE Readers(q)'
  OBVIOUS
<1>1. (Idle(q) => Readers(q)') /\ Readers(q)
  BY ReadersStay
<1>2. CASE UNCHANGED vars
  <2>1. Idle(q)
    BY <1>2 DEF Idle, Asked, vars, serverVars, readerVars, wireVars
  <2> QED
    BY <1>1, <2>1
<1>3. CASE Next
  <2>1. Setting
    BY <1>3, Setup
  <2>2. PICK p \in Present : Buttons(p) \/ Server(p) \/ Browser(p) \/ Lose(p) \/ Reopen(p)
    BY <1>3 DEF Next
  <2>3. p \in People
    BY InPeople
  <2>4. CASE SendMessage(p) \/ SendDM(p)
    <3>1. PICK r \in Others(p), text \in Texts : Write(p, r, text)
      BY <2>4 DEF SendMessage, SendDM, Types, PageOK
    <3>2. UNCHANGED <<jobs, busy, ending, cuts>>
      BY <2>4 DEF SendMessage, SendDM, serverVars, readerVars
    <3>3. UNCHANGED <<serverVars, link, toClient, cuts>>
      BY <2>4 DEF SendMessage, SendDM
    <3>4. /\ Sent(p, Letter(p, r, text)) /\ Letter(p, r, text) \in ToServer(p)
          /\ sent' = [sent EXCEPT ![p] = sent[p] + 1]
      BY <2>1, <2>3, <3>1, <3>3, Others1, Written DEF serverVars, Types
    <3>5. PICK m \in ToServer(p) : m = Letter(p, r, text)
      BY <3>4
    <3>6. m.n = sent[p] + 1 /\ m.type = "chat"
      BY <3>5 DEF Letter, Msg
    <3>7. \A c \in Asked(p) : c.n < m.n
      BY <2>3, <3>6, Numbers DEF Readers
    <3>8. /\ \A t \in People \ {p} : Asked(t)' = Asked(t)
          /\ Asked(p)' = Asked(p) \cup (IF Linked(p) /\ m.type = "chat" THEN {m} ELSE {})
      BY <2>3, <3>4, <3>5, <3>7, AskedSent
    <3>9. CASE q = p
      <4>1. Asked(q)' \subseteq Asked(q) \cup {m} /\ sent'[q] = sent[q] + 1 /\ m.n = sent[q] + 1
        BY <3>4, <3>6, <3>8, <3>9 DEF Types, PageOK
      <4> QED
        BY <1>1, <3>2, <4>1, ReadersWrite
    <3>10. CASE q # p
      <4>1. sent'[q] = sent[q] /\ Asked(q)' = Asked(q)
        BY <3>4, <3>8, <3>10 DEF Types, PageOK
      <4>2. Idle(q)
        BY <3>2, <4>1 DEF Idle
      <4> QED
        BY <1>1, <4>2
    <3> QED
      BY <3>9, <3>10
  <2>5. CASE SendTyping(p) \/ ChangeLang(p)
    <3>1. PICK m \in ToServer(p) : m.type # "chat" /\ Sent(p, m)
      BY <2>5, SignSent
    <3>2. UNCHANGED <<jobs, busy, ending, cuts, sent>>
      BY <2>5 DEF SendTyping, ChangeLang, serverVars, readerVars
    <3>3. /\ \A t \in People \ {p} : Asked(t)' = Asked(t)
          /\ Asked(p)' = Asked(p) \cup (IF Linked(p) /\ m.type = "chat" THEN {m} ELSE {})
      BY <2>3, <3>1, AskedSent
    <3>4. Asked(q)' = Asked(q)
      BY <3>1, <3>3
    <3>5. Idle(q)
      BY <3>2, <3>4 DEF Idle
    <3> QED
      BY <1>1, <3>5
  <2>6. CASE HandleChat(p) \/ Refuse(p)
    <3>1. PICK m : m = Head(toServer[p])
      OBVIOUS
    <3>2. Next1(p, "chat") /\ busy[p] = 0 /\ UNCHANGED <<ending, cuts, sent>>
      BY <2>6 DEF HandleChat, Refuse, Take, serverVars, readerVars
    <3>3. PICK type : type = "chat"
      OBVIOUS
    <3>4. Next1(p, type)
      BY <3>2, <3>3, Zenon
    <3>5. /\ \A t \in People \ {p} : Asked(t)' = Asked(t)
          /\ Asked(p) = Asked(p)' \cup (IF type = "chat" THEN {m} ELSE {})
          /\ type = "chat" => \A c \in Asked(p)' : m.n < c.n
      BY <2>3, <3>1, <3>4, AskedTaken
    <3>6. m \in Asked(p) /\ (\A c \in Asked(p)' : m.n < c.n) /\ Asked(q)' \subseteq Asked(q)
      BY <3>3, <3>5
    <3>7. \/ jobs' = jobs /\ busy' = busy
          \/ jobs' = [jobs EXCEPT ![p] = jobs[p] \cup {Job(m)}] /\ busy' = [busy EXCEPT ![p] = m.n]
      <4>1. CASE HandleChat(p)
        BY <2>1, <3>1, <4>1, HandleTypes
      <4>2. CASE Refuse(p)
        BY <4>2 DEF Refuse, serverVars, readerVars
      <4> QED
        BY <2>6, <4>1, <4>2
    <3>8. CASE jobs' = jobs /\ busy' = busy
      <4>1. Idle(q)
        BY <3>2, <3>6, <3>8 DEF Idle
      <4> QED
        BY <1>1, <4>1
    <3>9. CASE jobs' = [jobs EXCEPT ![p] = jobs[p] \cup {Job(m)}] /\ busy' = [busy EXCEPT ![p] = m.n]
      <4>1. CASE q = p
        <5>1. jobs'[p] = jobs[p] \cup {Job(m)} /\ busy'[p] = m.n
          BY <2>3, <3>9 DEF Types, ServerOK, Ends
        <5>2. /\ Asked(p)' \subseteq Asked(p) /\ sent'[p] = sent[p] /\ cuts'[p] = cuts[p]
              /\ ending'[p] = ending[p]
          BY <3>2, <3>6, <4>1
        <5> QED
          BY <1>1, <2>3, <3>2, <3>6, <4>1, <5>1, <5>2, ReadersTake
      <4>2. CASE q # p
        <5>1. Idle(q)
          BY <2>3, <3>2, <3>6, <3>9, <4>2, ReadersElse
        <5> QED
          BY <1>1, <5>1
      <4> QED
        BY <4>1, <4>2
    <3> QED
      BY <3>7, <3>8, <3>9
  <2>7. CASE RelayTyping(p) \/ HandleLang(p) \/ HandleRejoin(p)
    <3>1. PICK type : type # "chat" /\ Next1(p, type)
      BY <2>7 DEF RelayTyping, HandleLang, HandleRejoin, Take
    <3>2. UNCHANGED <<jobs, busy, ending, cuts, sent>>
      BY <2>7 DEF RelayTyping, HandleLang, HandleRejoin, serverVars, readerVars
    <3>3. AskedSame
      BY <2>3, <3>1, FlowSignTaken
    <3>4. Idle(q)
      BY <3>2, <3>3 DEF Idle, AskedSame
    <3> QED
      BY <1>1, <3>4
  <2>8. CASE \E j \in jobs[p] : Translate(p, j) \/ AddChatMessage(p, j)
    <3>1. PICK j \in jobs[p] : Translate(p, j) \/ AddChatMessage(p, j)
      BY <2>8
    <3>2. PICK k : k.n = j.n /\ jobs' = [jobs EXCEPT ![p] = Turned(p, j, {k})]
      BY <2>1, <2>3, <3>1, TurnedNumber
    <3>3. UNCHANGED <<toServer, busy, ending, cuts, sent>>
      BY <3>1 DEF Translate, AddChatMessage, wireVars
    <3> QED
      BY <1>1, <2>3, <3>2, <3>3, ReadersOn
  <2>9. CASE \E j \in jobs[p] : Echo(p, j) \/ Deliver(p, j)
    <3>1. PICK j \in jobs[p] : Echo(p, j) \/ Deliver(p, j)
      BY <2>9
    <3>2. PICK last, next : Done(p, j, last, next)
      BY <3>1 DEF Echo, Deliver
    <3>3. UNCHANGED <<toServer, cuts, sent>>
      BY <3>1 DEF Echo, Deliver
    <3>4. CASE last
      <4>1. /\ jobs' = [jobs EXCEPT ![p] = Turned(p, j, {})]
            /\ busy' = [busy EXCEPT ![p] = IF Old(p, j) THEN busy[p] ELSE 0]
            /\ ending' = [ending EXCEPT ![p] = IF Old(p, j) THEN ending[p] + 1 ELSE ending[p]]
        BY <3>2, <3>4 DEF Done, Turned
      <4>2. CASE q = p
        <5>1. /\ jobs'[p] = Turned(p, j, {})
              /\ busy'[p] = IF Old(p, j) THEN busy[p] ELSE 0
              /\ Old(p, j) \/ ending'[p] = ending[p]
          BY <2>3, <4>1 DEF Types, ServerOK, Ends
        <5>2. Asked(p)' = Asked(p) /\ sent'[p] = sent[p] /\ cuts'[p] = cuts[p]
          BY <3>3 DEF Asked
        <5> QED
          BY <1>1, <4>2, <5>1, <5>2, ReadersDone
      <4>3. CASE q # p
        <5>1. Asked(q)' \subseteq Asked(q) /\ sent'[q] = sent[q] /\ cuts'[q] = cuts[q]
          BY <3>3 DEF Asked
        <5>2. Idle(q)
          BY <2>3, <4>1, <4>3, <5>1, ReadersElse
        <5> QED
          BY <1>1, <5>2
      <4> QED
        BY <4>2, <4>3
    <3>5. CASE ~last
      <4>1. PICK k : k = [j EXCEPT !.step = next]
        OBVIOUS
      <4>2. k.n = j.n
        BY <2>3, <4>1, JobType DEF Jobs
      <4>3. jobs' = [jobs EXCEPT ![p] = Turned(p, j, {k})] /\ UNCHANGED <<busy, ending>>
        BY <3>2, <3>5, <4>1 DEF Done, Step, Turned
      <4> QED
        BY <1>1, <2>3, <3>3, <4>2, <4>3, ReadersOn
    <3> QED
      BY <3>4, <3>5
  <2>10. CASE HandleDisconnect(p)
    <3>1. /\ UNCHANGED <<jobs, busy, toServer, cuts, sent>>
          /\ ending[p] > 0 /\ ending' = [ending EXCEPT ![p] = ending[p] - 1]
      BY <2>10 DEF HandleDisconnect
    <3>2. ending'[q] = ending[q] \/ ending[q] > 0
      BY <2>3, <3>1 DEF Ends
    <3>3. Idle(q)
      BY <3>1, <3>2 DEF Idle, Asked
    <3> QED
      BY <1>1, <3>3
  <2>11. CASE Lose(p)
    <3>1. /\ UNCHANGED <<jobs, sent>>
          /\ busy' = [busy EXCEPT ![p] = 0]
          /\ ending' = [ending EXCEPT ![p] = IF busy[p] = 0 THEN ending[p] + 1 ELSE ending[p]]
          /\ toServer' = [toServer EXCEPT ![p] = <<>>]
          /\ cuts' = [cuts EXCEPT ![p] = cuts[p] \cup {sent[p]}]
      BY <2>11 DEF Lose
    <3>2. CASE q = p
      <4>1. toServer'[p] = <<>> /\ cuts'[p] = cuts[p] \cup {sent[p]}
        BY <2>3, <3>1 DEF Types, WireOK, PageOK
      <4>2. Asked(p)' = {}
        BY <4>1, ChatsNone DEF Asked
      <4> QED
        BY <1>1, <3>1, <3>2, <4>1, <4>2, ReadersLose
    <3>3. CASE q # p
      <4>1. /\ toServer'[q] = toServer[q] /\ cuts'[q] = cuts[q]
            /\ busy'[q] = busy[q] /\ ending'[q] = ending[q]
        BY <2>3, <3>1, <3>3 DEF Types, WireOK, PageOK, Ends
      <4>2. Idle(q)
        BY <3>1, <4>1 DEF Idle, Asked
      <4> QED
        BY <1>1, <4>2
    <3> QED
      BY <3>2, <3>3
  <2>12. CASE Reopen(p)
    <3>1. AskedSame /\ UNCHANGED <<jobs, busy, ending, cuts, sent>>
      BY <2>12, AskedReopen DEF Reopen, serverVars, readerVars
    <3>2. Idle(q)
      BY <3>1 DEF Idle, AskedSame
    <3> QED
      BY <1>1, <3>2
  <2>13. CASE OpenChat(p) \/ CloseChat(p) \/ CallFromChat(p) \/ Removed(p) \/ Browser(p)
    <3>1. UNCHANGED <<jobs, busy, ending, toServer, cuts, sent>>
      BY <2>13 DEF OpenChat, CloseChat, CallFromChat, Removed, Browser, OnChat, OnEcho, OnDM,
                   OnTyping, TypingOver, OnPeerLeft, Hear, serverVars, readerVars, wireVars
    <3>2. Idle(q)
      BY <3>1 DEF Idle, Asked
    <3> QED
      BY <1>1, <3>2
  <2> QED
    BY <2>2, <2>4, <2>5, <2>6, <2>7, <2>8, <2>9, <2>10, <2>11, <2>12, <2>13 DEF Buttons, Server
<1> QED
  BY <1>2, <1>3

Orderly == Types /\ Ends /\ Flow /\ \A p \in People : Readers(p)

LEMMA FlowHolds == Spec => []Orderly
<1>1. Init => Orderly
  BY Init1, FlowInit, ReadersInit DEF Init, Ends, Orderly
<1>2. Orderly /\ [Next]_vars => Orderly'
  BY TypesStep, EndsStep, FlowStep, ReadersStep DEF Orderly
<1> QED
  BY <1>1, <1>2, PTL DEF Spec

\* The messages of one person are shown to the other in the order in which they
\* were written, each at most once, but for what was written before a connection
\* of the writer was lost: its handler may still run beside the next reader, and
\* its message come after later ones, never a second time.
THEOREM ShownInOrder == Spec => []InOrder
<1>1. Orderly => InOrder
  BY DEF Orderly, Flow, InOrderAt, RisingIn, InOrder, Follows
<1> QED
  BY <1>1, FlowHolds, PTL

-----------------------------------------------------------------------------
(* Every step is one of nine kinds                                         *)

\* The chat messages on the socket to p.
In(p) == Chats(toClient[p])

OthersIn(p) == \A q \in People \ {p} : In(q)' = In(q)
OthersJobs(p) == \A q \in People \ {p} : jobs'[q] = jobs[q]

\* Nothing is shown and no handler goes on; messages may be lost.
Ebbs ==
    /\ UNCHANGED <<log, pending, sent, jobs, stored>>
    /\ \A p \in People : Asked(p)' \subseteq Asked(p) /\ In(p)' \subseteq In(p)
    /\ Uncut' => \A p \in People : In(p)' = In(p)

\* The handler of p begins with a message, or refuses it.
Takes(p) ==
    /\ UNCHANGED <<log, pending, sent, toClient, stored>>
    /\ OthersJobs(p) /\ \A q \in People : Asked(q)' \subseteq Asked(q)
    /\ jobs[p] \subseteq jobs'[p]
    /\ \E m \in Asked(p) : jobs'[p] \subseteq jobs[p] \cup {Job(m)}

\* It has translated the message, or stored it.
Goes(p, j, k) ==
    /\ UNCHANGED <<log, pending, sent, toServer, toClient>>
    /\ OthersJobs(p) /\ jobs'[p] = Turned(p, j, {k})
    /\ k.to = j.to /\ k.n = j.n /\ k.text = j.text
    /\ j.step \in {"translate", "store"} /\ k.step = IF ~InRoom THEN "deliver"
                                                      ELSE IF j.step = "store" THEN "echo" ELSE "store"
    /\ Range(stored) \subseteq Range(stored)' /\ (k.step = "echo" => <<p, k.n>> \in Range(stored)')

Echoes(p, j) ==
    /\ UNCHANGED <<log, pending, sent, toServer, stored>>
    /\ OthersJobs(p) /\ OthersIn(p) /\ j.step = "echo"
    /\ jobs'[p] = Turned(p, j, IF InRoom THEN {[j EXCEPT !.step = "deliver"]} ELSE {})
    /\ In(p)' = In(p) \cup (IF Old(p, j) THEN {} ELSE {Mail(p, j)})

Delivers(p, j) ==
    /\ UNCHANGED <<log, pending, sent, toServer, stored>>
    /\ OthersJobs(p) /\ OthersIn(j.to) /\ j.step = "deliver"
    /\ jobs'[p] = Turned(p, j, IF InRoom THEN {} ELSE {[j EXCEPT !.step = "echo"]})
    /\ In(j.to) \subseteq In(j.to)' /\ In(j.to)' \subseteq In(j.to) \cup {Mail(p, j)}
    /\ link[j.to] = "up" /\ at[j.to] # "out" => Mail(p, j) \in In(j.to)'

Writes(p, q, text) ==
    /\ UNCHANGED <<jobs, stored, toClient>>
    /\ \A r \in People \ {p} : Asked(r)' = Asked(r) /\ pending'[r] = pending[r]
    /\ Asked(p)' \subseteq Asked(p) \cup {Letter(p, q, text)}
    /\ log'[p][q] = Append(log[p][q], Draft(p, text)) /\ LogElse(p, q)
    /\ sent' = [sent EXCEPT ![p] = sent[p] + 1]
    /\ pending[p] \subseteq pending'[p] /\ (InRoom => text \in pending'[p])

Reads(p, q) ==
    /\ UNCHANGED <<jobs, stored, toClient, toServer, pending, sent>>
    /\ log'[p][q] = Read(log[p][q]) /\ LogElse(p, q)

\* p hears m, which is an echo that is matched, or is shown.
Hears(p, m) ==
    /\ UNCHANGED <<jobs, stored, toServer, sent>>
    /\ Got(p, m) /\ OthersIn(p)
    /\ In(p) = In(p)' \cup {m}
    /\ \A c \in In(p)' : c.from = m.from => Follows(cuts[m.from], m.n, c.n)

Answers(p, m) ==
    /\ Hears(p, m) /\ m.from = p
    /\ \/ ~InRoom /\ log' = log
       \/ \E q \in People \ {p} :
            Updated(log[p][q], log'[p][q], m) /\ LogElse(p, q) /\ (InRoom => q = m.to)
    /\ \A r \in People \ {p} : pending'[r] = pending[r]
    /\ pending'[p] = IF InRoom THEN pending[p] \ {m.text} ELSE pending[p]
    /\ InRoom => m.text \in pending[p]

Shows(p, m) ==
    /\ Hears(p, m) /\ pending' = pending
    /\ m.from = p => InRoom /\ m.text \notin pending[p]
    /\ \E seen \in BOOLEAN :
        /\ Theirs(m, seen) \in Entries
        /\ log'[p][With(p, m)] = Append(log[p][With(p, m)], Theirs(m, seen))
    /\ LogElse(p, With(p, m))

Kind ==
    \/ Ebbs
    \/ \E p \in Present :
        \/ Takes(p)
        \/ \E j \in jobs[p] : (\E k \in Jobs : Goes(p, j, k)) \/ Echoes(p, j) \/ Delivers(p, j)
        \/ \E q \in Others(p) : (\E text \in Texts : Writes(p, q, text)) \/ Reads(p, q)
        \/ \E m \in Messages : Answers(p, m) \/ Shows(p, m)

LEMMA EbbsWhen ==
    ASSUME Flow, AskedSame, UNCHANGED <<log, pending, sent, jobs, stored, toClient>>
    PROVE  Ebbs
BY DEF Ebbs, AskedSame, In

LEMMA AskedGains ==
    ASSUME Types, NEW p \in People, NEW m \in ToServer(p), Sent(p, m)
    PROVE  /\ \A q \in People \ {p} : Asked(q)' = Asked(q)
           /\ Asked(p)' \subseteq Asked(p) \cup {m}
<1>1. toServer[p] \in Seq(Messages) /\ m \in Messages
  BY Typed DEF ToServer
<1>2. \A q \in People \ {p} : toServer'[q] = toServer[q]
  BY DEF Sent, Types, WireOK
<1>3. toServer'[p] = IF Linked(p) THEN Append(toServer[p], m) ELSE toServer[p]
  BY DEF Sent, Types, WireOK
<1>4. Chats(Append(toServer[p], m)) = Chats(toServer[p]) \cup (IF m.type = "chat" THEN {m} ELSE {})
  BY <1>1, ChatsMore
<1> QED
  BY <1>2, <1>3, <1>4 DEF Asked

LEMMA InAppended ==
    ASSUME Types, NEW p \in People, NEW m \in ToClient(p), Appended(p, m)
    PROVE  /\ \A r \in People \ {p} : In(r)' = In(r)
           /\ In(p)' = In(p) \cup (IF m.type = "chat" THEN {m} ELSE {})
<1>1. toClient[p] \in Seq(Messages) /\ m \in Messages
  BY Typed DEF ToClient
<1>2. \A q \in People \ {p} : toClient'[q] = toClient[q]
  BY DEF Appended, Types, WireOK
<1>3. toClient'[p] = Append(toClient[p], m)
  BY DEF Appended, Types, WireOK
<1>4. Chats(Append(toClient[p], m)) = Chats(toClient[p]) \cup (IF m.type = "chat" THEN {m} ELSE {})
  BY <1>1, ChatsMore
<1> QED
  BY <1>2, <1>3, <1>4 DEF In

LEMMA InPushed ==
    ASSUME Types, NEW p \in People, NEW m \in ToClient(p), Push(p, m)
    PROVE  /\ \A r \in People \ {p} : In(r)' = In(r)
           /\ In(p)' = In(p) \cup (IF link[p] = "up" /\ m.type = "chat" THEN {m} ELSE {})
<1>1. CASE link[p] = "up"
  BY <1>1, PushIs, InAppended
<1>2. CASE link[p] # "up"
  BY <1>2, PushIs DEF In
<1> QED
  BY <1>1, <1>2

LEMMA InHeard ==
    ASSUME Types, Flow, NEW p \in People, NEW m, Got(p, m), Hear(p, "chat")
    PROVE  Hears(p, m)
<1>1. PICK type : type = "chat"
  OBVIOUS
<1>2. Hear(p, type)
  BY <1>1, Zenon
<1>3. /\ toClient[p] \in Seq(Messages) /\ toClient[p] # <<>> /\ m = Head(toClient[p])
      /\ toClient' = [toClient EXCEPT ![p] = Tail(toClient[p])]
  BY <1>2, Heard DEF Types, Got
<1>4. toClient'[p] = Tail(toClient[p]) /\ \A q \in People \ {p} : toClient'[q] = toClient[q]
  BY <1>3 DEF Types, WireOK
<1>5. Chats(toClient[p]) = Chats(toClient'[p]) \cup {m}
  BY <1>3, <1>4, ChatsTail DEF Got
<1>6. \A c \in Chats(toClient'[p]) : c.from = m.from => Follows(cuts[m.from], m.n, c.n)
  BY <1>3, <1>4, RisingTail DEF Flow, Got
<1>7. UNCHANGED <<jobs, stored, toServer, sent>>
  BY DEF Hear, serverVars, readerVars
<1> QED
  BY <1>4, <1>5, <1>6, <1>7 DEF Hears, In, OthersIn

LEMMA KindLose == ASSUME Types, Setting, Flow, NEW p \in Present, Lose(p) PROVE Ebbs
<1>1. p \in People
  BY InPeople
<1>2. /\ toServer' = [toServer EXCEPT ![p] = <<>>]
      /\ toClient' = [toClient EXCEPT ![p] = <<>>]
      /\ UNCHANGED <<jobs, log, sent, pending, stored>>
  BY DEF Lose, chatVars
<1>3. ASSUME NEW q \in People PROVE Asked(q)' \subseteq Asked(q) /\ In(q)' \subseteq In(q)
  <2>1. /\ toServer'[q] = <<>> \/ toServer'[q] = toServer[q]
        /\ toClient'[q] = <<>> \/ toClient'[q] = toClient[q]
    BY <1>1, <1>2 DEF Types, WireOK
  <2> QED
    BY <2>1, ChatsNone DEF Asked, In
<1>4. ~Uncut'
  <2>1. cuts'[p] # {}
    BY <1>1 DEF Lose, Types, PageOK
  <2> QED
    BY <1>1, <2>1 DEF Uncut
<1> QED
  BY <1>2, <1>3, <1>4 DEF Ebbs

LEMMA KindDisconnect ==
    ASSUME Types, Types', Setting, Flow, NEW p \in Present, HandleDisconnect(p)
    PROVE  Ebbs
<1>1. \A q \in People : In(q)' = In(q)
  BY FlowDisconnect DEF In
<1>2. UNCHANGED <<log, pending, sent, jobs, stored, toServer>>
  BY DEF HandleDisconnect, chatVars
<1> QED
  BY <1>1, <1>2 DEF Ebbs, Asked

LEMMA KindRelay == ASSUME Types, Setting, Flow, NEW p \in Present, RelayTyping(p) PROVE Ebbs
<1>1. p \in People /\ Next1(p, "typing")
  BY InPeople DEF RelayTyping, Take
<1>2. PICK m \in ToServer(p) : m = Head(toServer[p]) /\ m.type = "typing"
  BY <1>1, Taken DEF Types
<1>3. PICK r \in People : r = m.to /\ m \in ToClient(r)
  BY <1>2, Others1 DEF ToServer, ToClient, Types
<1>4. Push(r, m) \/ toClient' = toClient
  BY <1>2, <1>3 DEF RelayTyping
<1>5. \A q \in People : In(q)' = In(q)
  <2>1. CASE Push(r, m)
    BY <1>2, <1>3, <2>1, InPushed
  <2>2. CASE toClient' = toClient
    BY <2>2 DEF In
  <2> QED
    BY <1>4, <2>1, <2>2
<1>6. AskedSame
  <2>1. PICK type : type = "typing"
    OBVIOUS
  <2> QED
    BY <1>1, <2>1, FlowSignTaken
<1>7. UNCHANGED <<log, pending, sent, jobs, stored>>
  BY DEF RelayTyping, serverVars, readerVars, chatVars
<1> QED
  BY <1>5, <1>6, <1>7 DEF Ebbs, AskedSame

\* What the pages and the server say to each other besides chat messages.
LEMMA KindSign ==
    ASSUME Types, Setting, Flow, NEW p \in Present,
           \/ SendTyping(p) \/ ChangeLang(p) \/ Reopen(p) \/ HandleLang(p) \/ HandleRejoin(p)
           \/ Removed(p) \/ CloseChat(p) \/ CallFromChat(p) \/ TypingOver(p)
    PROVE  Ebbs
<1>1. p \in People
  BY InPeople
<1>2. CASE SendTyping(p) \/ ChangeLang(p)
  <2>1. PICK m \in ToServer(p) : m.type # "chat" /\ Sent(p, m)
    BY <1>2, SignSent
  <2>2. AskedSame
    BY <1>1, <2>1, AskedSent DEF AskedSame
  <2> QED
    BY <1>2, <2>2, EbbsWhen DEF SendTyping, ChangeLang, serverVars, readerVars, chatVars
<1>3. CASE Reopen(p)
  <2>1. AskedSame
    BY <1>3, AskedReopen
  <2> QED
    BY <1>3, <2>1, EbbsWhen DEF Reopen, serverVars, readerVars, chatVars
<1>4. CASE HandleLang(p) \/ HandleRejoin(p)
  <2>1. PICK type : type # "chat" /\ Next1(p, type)
    BY <1>4 DEF HandleLang, HandleRejoin, Take
  <2>2. AskedSame
    BY <1>1, <2>1, FlowSignTaken
  <2> QED
    BY <1>4, <2>2, EbbsWhen DEF HandleLang, HandleRejoin, readerVars, chatVars
<1>5. CASE Removed(p) \/ CloseChat(p) \/ CallFromChat(p) \/ TypingOver(p)
  <2>1. UNCHANGED <<log, pending, sent, jobs, stored, toClient, toServer>>
    BY <1>5 DEF Removed, CloseChat, CallFromChat, TypingOver, serverVars, readerVars, wireVars, chatVars
  <2> QED
    BY <2>1, AskedStays, EbbsWhen
<1> QED
  BY <1>2, <1>3, <1>4, <1>5

LEMMA KindTake ==
    ASSUME Types, Setting, Flow, NEW p \in Present, HandleChat(p) \/ Refuse(p)
    PROVE  Takes(p) \/ Ebbs
<1>1. p \in People /\ Next1(p, "chat")
  BY InPeople DEF HandleChat, Refuse, Take
<1>2. UNCHANGED <<log, pending, sent, toClient, stored>>
  BY DEF HandleChat, Refuse, chatVars, serverVars, readerVars
<1>3. PICK type : type = "chat"
  OBVIOUS
<1>4. Next1(p, type)
  BY <1>1, <1>3, Zenon
<1>5. PICK m : m = Head(toServer[p])
  OBVIOUS
<1>6. /\ \A q \in People \ {p} : Asked(q)' = Asked(q)
      /\ Asked(p) = Asked(p)' \cup (IF type = "chat" THEN {m} ELSE {})
  BY <1>1, <1>4, <1>5, AskedTaken
<1>7. \A q \in People : Asked(q)' \subseteq Asked(q)
  BY <1>1, <1>6
<1>8. m \in Asked(p)
  BY <1>3, <1>6
<1>9. jobs' = jobs \/ jobs' = [jobs EXCEPT ![p] = jobs[p] \cup {Job(m)}]
  <2>1. CASE HandleChat(p)
    <3>1. LET n == Head(toServer[p]) IN jobs' = jobs \/ jobs' = [jobs EXCEPT ![p] = jobs[p] \cup {Job(n)}]
      BY <2>1, HandleTypes
    <3> QED
      BY <1>5, <3>1
  <2>2. CASE Refuse(p)
    BY <2>2 DEF Refuse, serverVars, readerVars
  <2> QED
    BY <2>1, <2>2
<1>10. OthersJobs(p) /\ jobs[p] \subseteq jobs'[p] /\ jobs'[p] \subseteq jobs[p] \cup {Job(m)}
  BY <1>1, <1>9 DEF OthersJobs, Types, ServerOK
<1> QED
  BY <1>1, <1>2, <1>7, <1>8, <1>10 DEF Takes

LEMMA KindGo ==
    ASSUME Types, Setting, NEW p \in Present, NEW j \in jobs[p],
           Translate(p, j) \/ AddChatMessage(p, j)
    PROVE  \E k \in Jobs : Goes(p, j, k)
<1>1. p \in People /\ j \in Jobs /\ (j.step = "store" => InRoom)
  BY InPeople, JobType
<1>2. CASE Translate(p, j)
  <2>1. PICK got \in Shown :
          LET k == [j EXCEPT !.step = IF InRoom THEN "store" ELSE "deliver", !.got = got]
          IN  k \in Jobs /\ jobs' = [jobs EXCEPT ![p] = Turned(p, j, {k})]
    BY <1>2, TranslateTypes
  <2>2. PICK k : k = [j EXCEPT !.step = IF InRoom THEN "store" ELSE "deliver", !.got = got]
    OBVIOUS
  <2>3. k \in Jobs /\ jobs' = [jobs EXCEPT ![p] = Turned(p, j, {k})]
    BY <2>1, <2>2
  <2>4. k.n = j.n /\ k.to = j.to /\ k.text = j.text /\ k.step = IF InRoom THEN "store" ELSE "deliver"
    BY <1>1, <2>2 DEF Jobs
  <2>5. j.step = "translate" /\ UNCHANGED <<log, pending, sent, toServer, toClient, stored>>
    BY <1>2 DEF Translate, wireVars, chatVars
  <2>6. OthersJobs(p) /\ jobs'[p] = Turned(p, j, {k})
    BY <1>1, <2>3 DEF OthersJobs, Types, ServerOK
  <2>7. Goes(p, j, k)
    BY <1>1, <2>4, <2>5, <2>6 DEF Goes
  <2> QED
    BY <2>3, <2>7
<1>3. CASE AddChatMessage(p, j)
  <2>1. LET k == [j EXCEPT !.step = "echo"] IN k \in Jobs /\ jobs' = [jobs EXCEPT ![p] = Turned(p, j, {k})]
    BY <1>3, AddTypes
  <2>2. PICK k : k = [j EXCEPT !.step = "echo"]
    OBVIOUS
  <2>3. k \in Jobs /\ jobs' = [jobs EXCEPT ![p] = Turned(p, j, {k})]
    BY <2>1, <2>2
  <2>4. k.n = j.n /\ k.to = j.to /\ k.text = j.text /\ k.step = "echo"
    BY <1>1, <2>2 DEF Jobs
  <2>5. /\ j.step = "store" /\ UNCHANGED <<log, pending, sent, toServer, toClient>>
        /\ stored' = Append(stored, <<p, j.n>>)
    BY <1>3 DEF AddChatMessage, wireVars, chatVars
  <2>6. OthersJobs(p) /\ jobs'[p] = Turned(p, j, {k})
    BY <1>1, <2>3 DEF OthersJobs, Types, ServerOK
  <2>7. Range(stored) \subseteq Range(stored)' /\ <<p, k.n>> \in Range(stored)'
    <3>1. stored \in Seq(People \X Nat) /\ <<p, j.n>> \in People \X Nat
      BY <1>1 DEF Types, ServerOK, Jobs
    <3>2. PICK s \in Seq(People \X Nat) : s = Append(stored, <<p, j.n>>)
      BY <3>1, AppendProperties
    <3>3. /\ DOMAIN stored \subseteq DOMAIN s /\ \A i \in DOMAIN stored : s[i] = stored[i]
          /\ Len(stored) + 1 \in DOMAIN s /\ s[Len(stored) + 1] = <<p, j.n>>
      BY <3>1, <3>2, AppendProperties
    <3> QED
      BY <2>4, <2>5, <3>2, <3>3 DEF Range
  <2>8. Goes(p, j, k)
    BY <1>1, <2>4, <2>5, <2>6, <2>7 DEF Goes
  <2> QED
    BY <2>3, <2>8
<1> QED
  BY <1>2, <1>3

LEMMA KindEcho ==
    ASSUME Types, Setting, NEW p \in Present, NEW j \in jobs[p], Echo(p, j)
    PROVE  Echoes(p, j)
<1>1. p \in People /\ j.step = "echo"
  BY InPeople DEF Echo
<1>2. PICK m \in ToClient(p) : m = Mail(p, j) /\ Back1(p, j, m)
  BY EchoTypes
<1>3. m.type = "chat"
  BY <1>2 DEF Mail, Msg
<1>4. /\ \A r \in People \ {p} : In(r)' = In(r)
      /\ In(p)' = In(p) \cup (IF Old(p, j) THEN {} ELSE {m})
  <2>1. CASE Old(p, j)
    BY <1>2, <2>1 DEF Back1, In
  <2>2. CASE ~Old(p, j)
    BY <1>1, <1>2, <1>3, <2>2, InAppended DEF Back1, Appended
  <2> QED
    BY <2>1, <2>2
<1>5. jobs' = [jobs EXCEPT ![p] =
                Turned(p, j, IF ~InRoom THEN {} ELSE {[j EXCEPT !.step = "deliver"]})]
  BY EchoTypes
<1>6. /\ OthersJobs(p)
      /\ jobs'[p] = Turned(p, j, IF InRoom THEN {[j EXCEPT !.step = "deliver"]} ELSE {})
  BY <1>1, <1>5 DEF OthersJobs, Types, ServerOK
<1>7. UNCHANGED <<log, pending, sent, toServer, stored>>
  BY DEF Echo, chatVars
<1> QED
  BY <1>1, <1>2, <1>4, <1>6, <1>7 DEF Echoes, OthersIn

LEMMA KindDeliver ==
    ASSUME Types, Setting, NEW p \in Present, NEW j \in jobs[p], Deliver(p, j)
    PROVE  Delivers(p, j)
<1>1. p \in People /\ j.step = "deliver" /\ j.to \in People
  BY InPeople, JobType DEF Deliver
<1>2. PICK m \in ToClient(j.to) : m = Mail(p, j)
  BY DeliverTypes
<1>3. PICK r \in People : r = j.to
  BY <1>1
<1>4. m.type = "chat" /\ m \in ToClient(r)
  BY <1>2, <1>3 DEF Mail, Msg
<1>5. IF at[r] # "out" \/ ~InRoom THEN Push(r, m) ELSE UNCHANGED toClient
  BY <1>2, <1>3, DeliverTypes
<1>6. /\ \A t \in People \ {r} : In(t)' = In(t)
      /\ In(r) \subseteq In(r)' /\ In(r)' \subseteq In(r) \cup {m}
      /\ link[r] = "up" /\ at[r] # "out" => m \in In(r)'
  <2>1. CASE Push(r, m)
    <3>1. /\ \A t \in People \ {r} : In(t)' = In(t)
          /\ In(r)' = In(r) \cup (IF link[r] = "up" /\ m.type = "chat" THEN {m} ELSE {})
      BY <1>4, <2>1, InPushed
    <3> QED
      BY <1>4, <3>1
  <2>2. CASE ~Push(r, m)
    BY <1>5, <2>2 DEF In
  <2> QED
    BY <2>1, <2>2
<1>7. jobs' = [jobs EXCEPT ![p] =
                Turned(p, j, IF InRoom THEN {} ELSE {[j EXCEPT !.step = "echo"]})]
  BY DeliverTypes
<1>8. /\ OthersJobs(p)
      /\ jobs'[p] = Turned(p, j, IF InRoom THEN {} ELSE {[j EXCEPT !.step = "echo"]})
  BY <1>1, <1>7 DEF OthersJobs, Types, ServerOK
<1>9. UNCHANGED <<log, pending, sent, toServer, stored>>
  BY DEF Deliver, chatVars
<1> QED
  BY <1>1, <1>2, <1>3, <1>6, <1>8, <1>9 DEF Delivers, OthersIn

LEMMA KindWrite ==
    ASSUME Types, Setting, Flow, NEW p \in Present, SendMessage(p) \/ SendDM(p)
    PROVE  \E q \in Others(p), text \in Texts : Writes(p, q, text)
<1>1. PICK q \in Others(p), text \in Texts :
        /\ Write(p, q, text)
        /\ \/ pending' = [pending EXCEPT ![p] = @ \cup {text}]
           \/ ~InRoom /\ pending' = pending
  BY DEF SendMessage, SendDM, Types, PageOK, chatVars
<1>2. p \in People /\ UNCHANGED <<serverVars, link, toClient>>
  BY InPeople DEF SendMessage, SendDM
<1>3. /\ Sent(p, Letter(p, q, text)) /\ Letter(p, q, text) \in ToServer(p)
      /\ sent' = [sent EXCEPT ![p] = sent[p] + 1]
      /\ LogIs(p, q, Append(log[p][q], Draft(p, text)))
  BY <1>1, <1>2, Written
<1>4. PICK m \in ToServer(p) : m = Letter(p, q, text) /\ Sent(p, m)
  BY <1>3
<1>5. /\ \A r \in People \ {p} : Asked(r)' = Asked(r)
      /\ Asked(p)' \subseteq Asked(p) \cup {m}
  BY <1>2, <1>4, AskedGains
<1>6. /\ pending[p] \subseteq pending'[p] /\ (InRoom => text \in pending'[p])
      /\ \A r \in People \ {p} : pending'[r] = pending[r]
  BY <1>1, <1>2 DEF Types, PageOK
<1>7. UNCHANGED <<jobs, stored, toClient>>
  BY <1>2 DEF serverVars, readerVars
<1>8. Writes(p, q, text)
  BY <1>3, <1>4, <1>5, <1>6, <1>7 DEF Writes, LogIs
<1> QED
  BY <1>8

LEMMA KindRead ==
    ASSUME Types, Setting, NEW p \in Present, OpenChat(p)
    PROVE  \E q \in Others(p) : Reads(p, q)
<1>1. PICK q \in Others(p) : log' = [log EXCEPT ![p][q] = Read(log[p][q])]
  BY Zenon DEF OpenChat, Read
<1>2. p \in People /\ q \in People
  BY <1>1, Others1 DEF Types
<1>3. PICK s \in Seq(Entries) : s = Read(log[p][q])
  BY <1>2, Typed, ReadType
<1>4. LogIs(p, q, s)
  BY <1>1, <1>2, <1>3, LogChanges DEF Types
<1>5. UNCHANGED <<jobs, stored, toClient, toServer, pending, sent>>
  BY DEF OpenChat, serverVars, readerVars, wireVars, chatVars
<1>6. Reads(p, q)
  BY <1>3, <1>4, <1>5 DEF Reads, LogIs
<1> QED
  BY <1>6

LEMMA KindChat ==
    ASSUME Types, Setting, Flow, NEW p \in Present, OnChat(p)
    PROVE  \E m \in Messages : Answers(p, m) \/ Shows(p, m)
<1>1. p \in People /\ InRoom /\ Hear(p, "chat")
  BY InPeople DEF OnChat
<1>2. PICK m \in Messages : /\ Got(p, m)
                            /\ Matched(p, With(p, m), m) \/ Showed(p, With(p, m), m)
                            /\ LogElse(p, With(p, m))
  BY OnChatTypes
<1>3. Hears(p, m)
  BY <1>1, <1>2, InHeard
<1>4. PICK q \in People \ {p} : q = With(p, m)
  BY <1>2, GotTypes
<1>5. CASE Matched(p, With(p, m), m)
  <2>1. m.from = p /\ m.text \in pending[p] /\ q = m.to
    BY <1>4, <1>5 DEF Matched, With
  <2>2. Updated(log[p][q], log'[p][q], m) /\ LogElse(p, q)
    BY <1>2, <1>4, <1>5 DEF Matched
  <2>3. pending'[p] = pending[p] \ {m.text} /\ \A r \in People \ {p} : pending'[r] = pending[r]
    BY <1>1, <1>5 DEF Matched, Types, PageOK
  <2>4. Answers(p, m)
    BY <1>1, <1>3, <2>1, <2>2, <2>3 DEF Answers
  <2> QED
    BY <2>4
<1>6. CASE Showed(p, With(p, m), m)
  <2>1. /\ log'[p][With(p, m)] = Append(log[p][With(p, m)], Theirs(m, TRUE)) /\ pending' = pending
        /\ m.from = p => m.text \notin pending[p]
    BY <1>6 DEF Showed
  <2>2. Theirs(m, TRUE) \in Entries
    BY <1>2, TheirsType
  <2>3. Shows(p, m)
    BY <1>1, <1>2, <1>3, <2>1, <2>2 DEF Shows
  <2> QED
    BY <2>3
<1> QED
  BY <1>2, <1>5, <1>6

LEMMA KindEchoed ==
    ASSUME Types, Setting, Flow, NEW p \in Present, OnEcho(p)
    PROVE  \E m \in Messages : Answers(p, m)
<1>1. p \in People /\ ~InRoom /\ Hear(p, "chat") /\ pending' = pending
  BY InPeople DEF OnEcho, chatVars
<1>2. PICK m \in Messages : /\ Got(p, m) /\ m.from = p
                            /\ \/ open[p] = None /\ log' = log
                               \/ /\ open[p] \in Others(p)
                                  /\ Updated(log[p][open[p]], log'[p][open[p]], m)
                                  /\ LogElse(p, open[p])
  BY OnEchoTypes
<1>3. Hears(p, m)
  BY <1>1, <1>2, InHeard
<1>4. log' = log \/ \E q \in People \ {p} : Updated(log[p][q], log'[p][q], m) /\ LogElse(p, q)
  <2>1. \A q \in Others(p) : q \in People \ {p}
    BY Others1 DEF Types
  <2> QED
    BY <1>2, <2>1
<1>5. Answers(p, m)
  BY <1>1, <1>2, <1>3, <1>4 DEF Answers
<1> QED
  BY <1>5

LEMMA KindDM ==
    ASSUME Types, Setting, Flow, NEW p \in Present, OnDM(p)
    PROVE  \E m \in Messages : Shows(p, m)
<1>1. p \in People /\ Hear(p, "chat") /\ pending' = pending
  BY InPeople DEF OnDM, chatVars
<1>2. PICK m \in Messages : /\ Got(p, m) /\ m.from # p
                            /\ Counted(p, m.from, m) /\ LogElse(p, m.from)
  BY OnDMTypes
<1>3. Hears(p, m)
  BY <1>1, <1>2, InHeard
<1>4. With(p, m) = m.from
  BY <1>2 DEF With
<1>5. \E seen \in BOOLEAN :
        /\ Theirs(m, seen) \in Entries
        /\ log'[p][With(p, m)] = Append(log[p][With(p, m)], Theirs(m, seen))
  BY <1>2, <1>4 DEF Counted
<1>6. Shows(p, m)
  BY <1>1, <1>2, <1>3, <1>4, <1>5 DEF Shows
<1> QED
  BY <1>6

LEMMA KindHeard ==
    ASSUME Types, Setting, Flow, NEW p \in Present, OnTyping(p) \/ OnPeerLeft(p)
    PROVE  Ebbs
<1>1. p \in People /\ UNCHANGED <<log, pending, sent, jobs, stored, toServer>>
  BY InPeople DEF OnTyping, OnPeerLeft, Hear, serverVars, readerVars
<1>2. PICK type : type # "chat" /\ Hear(p, type)
  BY DEF OnTyping, OnPeerLeft
<1>3. PICK m : m = Head(toClient[p])
  OBVIOUS
<1>4. /\ toClient[p] \in Seq(Messages) /\ toClient[p] # <<>> /\ m.type = type
      /\ toClient' = [toClient EXCEPT ![p] = Tail(toClient[p])]
  BY <1>1, <1>2, <1>3, Heard DEF Types
<1>5. toClient'[p] = Tail(toClient[p]) /\ \A q \in People \ {p} : toClient'[q] = toClient[q]
  BY <1>1, <1>4 DEF Types, WireOK
<1>6. Chats(toClient[p]) = Chats(Tail(toClient[p]))
  BY <1>2, <1>3, <1>4, ChatsTail
<1>7. \A q \in People : In(q)' = In(q)
  BY <1>5, <1>6 DEF In
<1>8. AskedSame
  BY <1>1, AskedStays
<1> QED
  BY <1>1, <1>7, <1>8 DEF Ebbs, AskedSame

LEMMA Kinds == ASSUME Types, Types', Flow, [Next]_vars PROVE Kind
<1>1. CASE UNCHANGED vars
  <2>1. UNCHANGED <<log, pending, sent, jobs, stored, toClient, toServer>>
    BY <1>1 DEF vars, serverVars, readerVars, wireVars, chatVars
  <2> QED
    BY <2>1, AskedStays, EbbsWhen DEF Kind
<1>2. CASE Next
  <2>1. Setting
    BY <1>2, Setup DEF Types
  <2>2. PICK p \in Present : Buttons(p) \/ Server(p) \/ Browser(p) \/ Lose(p) \/ Reopen(p)
    BY <1>2 DEF Next
  <2>3. CASE Buttons(p)
    BY <2>1, <2>3, KindWrite, KindRead, KindSign DEF Buttons, Kind
  <2>4. CASE Server(p)
    BY <2>1, <2>4, KindTake, KindRelay, KindSign, KindGo, KindEcho, KindDeliver, KindDisconnect
       DEF Server, Kind
  <2>5. CASE Browser(p)
    BY <2>1, <2>5, KindChat, KindEchoed, KindDM, KindHeard, KindSign DEF Browser, Kind
  <2>6. CASE Lose(p) \/ Reopen(p)
    BY <2>1, <2>6, KindLose, KindSign DEF Kind
  <2> QED
    BY <2>2, <2>3, <2>4, <2>5, <2>6
<1> QED
  BY <1>1, <1>2

-----------------------------------------------------------------------------
(* The screens                                                             *)

\* Entries stay on the screen, as they are but for the translation.
Continues(s, t) ==
    /\ DOMAIN s \subseteq DOMAIN t
    /\ \A i \in DOMAIN s : /\ t[i].by = s[i].by /\ t[i].n = s[i].n
                           /\ t[i].text = s[i].text /\ t[i].mine = s[i].mine

Grows(s, t) == Continues(s, t) /\ \A i \in DOMAIN s : t[i].got = s[i].got

LEMMA GrowsMore ==
    ASSUME NEW s \in Seq(Entries), NEW e \in Entries
    PROVE  /\ Grows(s, Append(s, e))
           /\ \A i \in DOMAIN Append(s, e) \ DOMAIN s : Append(s, e)[i] = e
           /\ \A i, k \in DOMAIN Append(s, e) \ DOMAIN s : i = k
           /\ \E i \in DOMAIN Append(s, e) : Append(s, e)[i] = e
<1>1. PICK t \in Seq(Entries) : t = Append(s, e)
  BY AppendProperties
<1>2. /\ Len(t) = Len(s) + 1 /\ Len(s) \in Nat
      /\ t[Len(s) + 1] = e /\ \A i \in 1..Len(s) : t[i] = s[i]
  BY <1>1, AppendProperties
<1>3. DOMAIN s = 1..Len(s) /\ DOMAIN t = 1..(Len(s) + 1)
  BY <1>2
<1>4. Grows(s, t)
  BY <1>2, <1>3 DEF Grows, Continues
<1>5. /\ \A i \in DOMAIN t \ DOMAIN s : t[i] = e
      /\ \A i, k \in DOMAIN t \ DOMAIN s : i = k
  BY <1>2, <1>3
<1>6. Len(s) + 1 \in DOMAIN t /\ t[Len(s) + 1] = e
  BY <1>2, <1>3
<1> QED
  BY <1>1, <1>4, <1>5, <1>6

LEMMA GrowsRead == ASSUME NEW s \in Seq(Entries) PROVE Grows(s, Read(s)) /\ DOMAIN Read(s) = DOMAIN s
<1>1. ASSUME NEW i \in DOMAIN s
      PROVE  /\ Read(s)[i].by = s[i].by /\ Read(s)[i].n = s[i].n /\ Read(s)[i].text = s[i].text
             /\ Read(s)[i].mine = s[i].mine /\ Read(s)[i].got = s[i].got
  <2>1. s[i] \in Entries /\ Read(s)[i] = [s[i] EXCEPT !.seen = TRUE]
    BY ReadType
  <2> QED
    BY <2>1 DEF Entries
<1> QED
  BY <1>1, ReadType DEF Grows, Continues

LEMMA ContinuesUpdated ==
    ASSUME NEW s \in Seq(Entries), NEW t, NEW m, Updated(s, t, m)
    PROVE  Continues(s, t) /\ DOMAIN t = DOMAIN s
<1>1. t \in Seq(Entries) /\ DOMAIN t = DOMAIN s
  BY DEF Updated
<1>2. ASSUME NEW i \in DOMAIN s
      PROVE  t[i].by = s[i].by /\ t[i].n = s[i].n /\ t[i].text = s[i].text /\ t[i].mine = s[i].mine
  <2>1. s[i] \in Entries
    OBVIOUS
  <2> QED
    BY <2>1 DEF Updated, Entries
<1> QED
  BY <1>1, <1>2 DEF Continues

Screen(p) == \A q \in People : Continues(log[p][q], log'[p][q])

\* What p sees stays the same, as do the messages that may be answered.
Still(p) ==
    /\ \A q \in People : Grows(log[p][q], log'[p][q]) /\ DOMAIN log'[p][q] = DOMAIN log[p][q]
    /\ pending'[p] = pending[p] /\ sent'[p] = sent[p]

\* What a step is for one person.
Side(p) ==
    \/ Still(p)
    \/ \E q \in Others(p), text \in Texts : Writes(p, q, text)
    \/ \E m \in Messages : Answers(p, m) \/ Shows(p, m)

LEMMA Sides ==
    ASSUME Types, Kind, NEW p \in People
    PROVE  Side(p)
<1>1. \A q \in People : log'[p][q] = log[p][q] => Grows(log[p][q], log'[p][q]) /\ DOMAIN log'[p][q] = DOMAIN log[p][q]
  BY DEF Grows, Continues
<1>2. CASE Ebbs
  BY <1>1, <1>2 DEF Ebbs, Side, Still
<1>3. ASSUME NEW r \in Present,
             \/ Takes(r)
             \/ \E j \in jobs[r] : (\E k \in Jobs : Goes(r, j, k)) \/ Echoes(r, j) \/ Delivers(r, j)
      PROVE  Side(p)
  <2>1. log' = log /\ pending' = pending /\ sent' = sent
    BY <1>3 DEF Takes, Goes, Echoes, Delivers
  <2> QED
    BY <1>1, <2>1 DEF Side, Still
<1>4. ASSUME NEW r \in Present, NEW q \in Others(r), NEW text \in Texts, Writes(r, q, text)
      PROVE  Side(p)
  <2>1. CASE r = p
    BY <1>4, <2>1 DEF Side
  <2>2. CASE r # p
    <3>1. /\ pending'[p] = pending[p] /\ sent'[p] = sent[p]
          /\ \A t \in People : log'[p][t] = log[p][t]
      BY <1>4, <2>2 DEF Writes, LogElse, Types, PageOK
    <3> QED
      BY <1>1, <3>1 DEF Side, Still
  <2> QED
    BY <2>1, <2>2
<1>5. ASSUME NEW r \in Present, NEW q \in Others(r), Reads(r, q)
      PROVE  Side(p)
  <2>1. log'[r][q] = Read(log[r][q]) /\ LogElse(r, q) /\ pending' = pending /\ sent' = sent
    BY <1>5 DEF Reads
  <2>2. ASSUME NEW t \in People
        PROVE  Grows(log[p][t], log'[p][t]) /\ DOMAIN log'[p][t] = DOMAIN log[p][t]
    <3>1. CASE p = r /\ t = q
      <4>1. log[p][t] \in Seq(Entries)
        BY Typed
      <4>2. log'[p][t] = Read(log[p][t])
        BY <2>1, <3>1
      <4> QED
        BY <4>1, <4>2, GrowsRead
    <3>2. CASE ~(p = r /\ t = q)
      BY <1>1, <2>1, <3>2 DEF LogElse
    <3> QED
      BY <3>1, <3>2
  <2> QED
    BY <2>1, <2>2 DEF Side, Still
<1>6. ASSUME NEW r \in Present, NEW m \in Messages, Answers(r, m) \/ Shows(r, m)
      PROVE  Side(p)
  <2>1. CASE r = p
    BY <1>6, <2>1 DEF Side
  <2>2. CASE r # p
    <3>1. /\ pending'[p] = pending[p] /\ sent'[p] = sent[p]
          /\ \A t \in People : log'[p][t] = log[p][t]
      BY <1>6, <2>2 DEF Answers, Shows, Hears, LogElse
    <3> QED
      BY <1>1, <3>1 DEF Side, Still
  <2> QED
    BY <2>1, <2>2
<1> QED
  BY <1>2, <1>3, <1>4, <1>5, <1>6 DEF Kind

\* Lists of entries only get longer.
LEMMA Longer ==
    ASSUME Types, Types', NEW p \in People, NEW q \in People, NEW e, NEW r \in People,
           log'[p][q] = Append(log[p][q], e), LogElse(p, q), e \in Entries
    PROVE  /\ Grows(log[p][r], log'[p][r])
           /\ \A i \in DOMAIN log'[p][r] : i \in DOMAIN log[p][r] \/ (r = q /\ log'[p][r][i] = e)
           /\ \A i, k \in DOMAIN log'[p][r] \ DOMAIN log[p][r] : i = k
<1>1. CASE r = q
  <2>1. PICK s \in Seq(Entries) : s = log[p][r]
    BY Typed
  <2>2. log'[p][r] = Append(s, e)
    BY <1>1, <2>1
  <2>3. /\ Grows(s, Append(s, e)) /\ \A i \in DOMAIN Append(s, e) \ DOMAIN s : Append(s, e)[i] = e
        /\ \A i, k \in DOMAIN Append(s, e) \ DOMAIN s : i = k
    BY GrowsMore
  <2>4. /\ Grows(s, log'[p][r]) /\ \A i \in DOMAIN log'[p][r] \ DOMAIN s : log'[p][r][i] = e
        /\ \A i, k \in DOMAIN log'[p][r] \ DOMAIN s : i = k
    BY <2>2, <2>3
  <2> QED
    BY <1>1, <2>1, <2>4
<1>2. CASE r # q
  BY <1>2 DEF LogElse, Grows, Continues
<1> QED
  BY <1>1, <1>2

LEMMA AnswerLogs ==
    ASSUME Types, NEW p \in People, NEW m, Answers(p, m), NEW r \in People
    PROVE  Updated(log[p][r], log'[p][r], m) \/ log'[p][r] = log[p][r]
BY DEF Answers, LogElse

LEMMA AnswerContinues ==
    ASSUME Types, NEW p \in People, NEW m, Answers(p, m), NEW r \in People
    PROVE  Continues(log[p][r], log'[p][r]) /\ DOMAIN log'[p][r] = DOMAIN log[p][r]
<1>1. log[p][r] \in Seq(Entries)
  BY Typed
<1>2. CASE Updated(log[p][r], log'[p][r], m)
  BY <1>1, <1>2, ContinuesUpdated
<1>3. CASE log'[p][r] = log[p][r]
  BY <1>3 DEF Continues
<1> QED
  BY <1>2, <1>3, AnswerLogs

LEMMA DraftIs ==
    ASSUME Types, NEW p \in People, NEW q \in Others(p), NEW text \in Texts
    PROVE  /\ Draft(p, text) \in Entries /\ q \in People /\ q # p
           /\ Draft(p, text).by = p /\ Draft(p, text).mine /\ Draft(p, text).n = sent[p] + 1
           /\ Draft(p, text).text = text /\ Draft(p, text).got = None
<1>1. q \in People /\ q # p
  BY DEF Types, BudgetOK, Others, Present
<1>2. sent[p] + 1 \in Nat
  BY <1>1, Typed
<1> QED
  BY <1>1, <1>2, EntryType DEF Draft, Entry, Entries, Marks

LEMMA ShownGrows ==
    ASSUME Types, Types', NEW p \in People, NEW m, Shows(p, m), NEW r \in People
    PROVE  /\ Grows(log[p][r], log'[p][r])
           /\ \E seen \in BOOLEAN : \A i \in DOMAIN log'[p][r] :
                i \in DOMAIN log[p][r] \/ (r = With(p, m) /\ log'[p][r][i] = Theirs(m, seen))
<1>1. PICK seen \in BOOLEAN :
        /\ Theirs(m, seen) \in Entries
        /\ log'[p][With(p, m)] = Append(log[p][With(p, m)], Theirs(m, seen))
  BY DEF Shows
<1>2. PICK e : e = Theirs(m, seen)
  OBVIOUS
<1>3. PICK q : q = With(p, m)
  OBVIOUS
<1>4. q \in People
  BY <1>3 DEF Shows, Hears, Got, ToClient, With, Messages
<1>5. log'[p][q] = Append(log[p][q], e) /\ LogElse(p, q) /\ e \in Entries
  BY <1>1, <1>2, <1>3 DEF Shows
<1>6. /\ Grows(log[p][r], log'[p][r])
      /\ \A i \in DOMAIN log'[p][r] : i \in DOMAIN log[p][r] \/ (r = q /\ log'[p][r][i] = e)
  BY <1>4, <1>5, Longer
<1> QED
  BY <1>2, <1>3, <1>6

LEMMA ScreensGo ==
    ASSUME Types, Types', Kind, NEW p \in People
    PROVE  Screen(p)
<1>1. CASE Still(p)
  BY <1>1 DEF Still, Screen, Grows
<1>2. ASSUME NEW q \in Others(p), NEW text \in Texts, Writes(p, q, text)
      PROVE  Screen(p)
  <2>1. Draft(p, text) \in Entries /\ q \in People
    BY DraftIs
  <2>2. log'[p][q] = Append(log[p][q], Draft(p, text)) /\ LogElse(p, q)
    BY <1>2 DEF Writes
  <2>3. \A r \in People : Grows(log[p][r], log'[p][r])
    BY <2>1, <2>2, Longer
  <2> QED
    BY <2>3 DEF Screen, Grows
<1>3. ASSUME NEW m \in Messages, Answers(p, m)
      PROVE  Screen(p)
  BY <1>3, AnswerContinues DEF Screen
<1>4. ASSUME NEW m \in Messages, Shows(p, m)
      PROVE  Screen(p)
  BY <1>4, ShownGrows DEF Screen, Grows
<1> QED
  BY <1>1, <1>2, <1>3, <1>4, Sides DEF Side

-----------------------------------------------------------------------------
(* Messages that were not echoed yet                                       *)

\* What an echo will be about: whom the message is to, its number, its text.
Claim(m) == <<m.to, m.n, m.text>>
Claims(p) == {Claim(m) : m \in Asked(p) \cup Due(p, p) \cup Flight(p, p)}

\* Such a message has its own entry, without a translation, whose text is pending.
Owes(p, c) ==
    /\ c[1] \in Present /\ c[1] # p
    /\ \E i \in DOMAIN log[p][c[1]] :
        LET e == log[p][c[1]][i]
        IN  /\ e.mine /\ e.n = c[2] /\ e.text = c[3]
            /\ Distinct(p) => e.got = None /\ (InRoom => c[3] \in pending[p])
Owed(p) == \A c \in Claims(p) : Owes(p, c)

\* Nobody's own words are shown as the other one's.
OwnIn(s, p) == \A i \in DOMAIN s : s[i].by = p => s[i].mine
OwnAt(p, q) == Distinct(p) => OwnIn(log[p][q], p)

LEMMA DistinctWas ==
    ASSUME NEW p \in People, Screen(p), Distinct(p)'
    PROVE  Distinct(p)
<1>1. ASSUME NEW q \in People, NEW r \in People, NEW i \in DOMAIN log[p][q], NEW k \in DOMAIN log[p][r],
             log[p][q][i].mine, log[p][r][k].mine, log[p][q][i].text = log[p][r][k].text
      PROVE  log[p][q][i].n = log[p][r][k].n
  <2>1. /\ i \in DOMAIN log'[p][q] /\ log'[p][q][i].mine /\ log'[p][q][i].n = log[p][q][i].n
        /\ log'[p][q][i].text = log[p][q][i].text
    BY <1>1 DEF Screen, Continues
  <2>2. /\ k \in DOMAIN log'[p][r] /\ log'[p][r][k].mine /\ log'[p][r][k].n = log[p][r][k].n
        /\ log'[p][r][k].text = log[p][r][k].text
    BY <1>1 DEF Screen, Continues
  <2>3. log'[p][q][i].n = log'[p][r][k].n
    BY <1>1, <2>1, <2>2 DEF Distinct
  <2> QED
    BY <2>1, <2>2, <2>3
<1> QED
  BY <1>1 DEF Distinct

ClaimsLess(p) == Claims(p)' \subseteq Claims(p)

LEMMA ClaimsStay ==
    ASSUME NEW p \in People, Setting, Asked(p)' \subseteq Asked(p), Due(p, p)' \subseteq Due(p, p),
           In(p)' \subseteq In(p)
    PROVE  ClaimsLess(p)
<1>1. Flight(p, p)' \subseteq Flight(p, p)
  BY DEF Flight, In
<1> QED
  BY <1>1 DEF ClaimsLess, Claims, Claim

LEMMA DueOwn ==
    ASSUME NEW p, NEW j
    PROVE  j \in Due(p, p) <=> j \in jobs[p] /\ (InRoom => j.step # "deliver")
BY DEF Due

LEMMA SameDue == ASSUME Setting, NEW p \in People, jobs'[p] = jobs[p] PROVE Due(p, p)' = Due(p, p)
BY DEF Due, Setting

\* A handler takes the claim with it.
LEMMA ClaimsTake ==
    ASSUME Types, Setting, NEW p \in People, Takes(p)
    PROVE  ClaimsLess(p)
<1>1. PICK m \in Asked(p) : jobs'[p] \subseteq jobs[p] \cup {Job(m)}
  BY DEF Takes
<1>2. \A j \in Due(p, p)' : j \in Due(p, p) \/ Claim(j) = Claim(m)
  BY <1>1 DEF Due, Claim, Job, Setting
<1>3. Claim(m) \in Claims(p)
  BY DEF Claims
<1>4. Asked(p)' \subseteq Asked(p) /\ Flight(p, p)' = Flight(p, p)
  BY DEF Takes, Flight
<1>5. ASSUME NEW c \in Claims(p)' PROVE c \in Claims(p)
  <2>1. PICK x \in Asked(p)' \cup Due(p, p)' \cup Flight(p, p)' : c = Claim(x)
    BY DEF Claims, Claim
  <2>2. CASE Claim(x) = Claim(m)
    BY <1>3, <2>1, <2>2
  <2>3. CASE x \in Asked(p) \cup Due(p, p) \cup Flight(p, p)
    BY <2>1, <2>3 DEF Claims
  <2> QED
    BY <1>2, <1>4, <2>1, <2>2, <2>3
<1> QED
  BY <1>5 DEF ClaimsLess

LEMMA DueTurned ==
    ASSUME Setting, NEW p \in People, NEW j, NEW K, jobs'[p] = Turned(p, j, K)
    PROVE  Due(p, p)' \subseteq Due(p, p) \cup K
BY DEF Due, Setting, Turned

\* A handler goes on: what is new has the claim of its job.
LEMMA ClaimsJob ==
    ASSUME NEW p \in People, Asked(p)' \subseteq Asked(p), NEW j \in Due(p, p),
           \A x \in (Due(p, p)' \ Due(p, p)) \cup (Flight(p, p)' \ Flight(p, p)) : Claim(x) = Claim(j)
    PROVE  ClaimsLess(p)
<1>1. ASSUME NEW c \in Claims(p)' PROVE c \in Claims(p)
  <2>1. PICK x \in Asked(p)' \cup Due(p, p)' \cup Flight(p, p)' : c = Claim(x)
    BY DEF Claims, Claim
  <2>2. Claim(j) \in Claims(p)
    BY DEF Claims
  <2>3. CASE x \in (Due(p, p)' \ Due(p, p)) \cup (Flight(p, p)' \ Flight(p, p))
    BY <2>1, <2>2, <2>3
  <2>4. CASE x \in Asked(p) \cup Due(p, p) \cup Flight(p, p)
    BY <2>1, <2>4 DEF Claims
  <2> QED
    BY <2>1, <2>3, <2>4
<1> QED
  BY <1>1 DEF ClaimsLess

LEMMA ClaimsGo ==
    ASSUME Types, Setting, NEW p \in People, NEW j \in jobs[p], NEW k, Goes(p, j, k)
    PROVE  ClaimsLess(p)
<1>1. j \in Due(p, p)
  BY DEF Goes, Due
<1>2. Asked(p)' \subseteq Asked(p) /\ Flight(p, p)' = Flight(p, p)
  BY DEF Goes, Asked, Flight
<1>3. ASSUME NEW x \in Due(p, p)', x \notin Due(p, p) PROVE Claim(x) = Claim(j)
  BY <1>3, DueTurned DEF Goes, Claim
<1>4. \A x \in (Due(p, p)' \ Due(p, p)) \cup (Flight(p, p)' \ Flight(p, p)) : Claim(x) = Claim(j)
  BY <1>2, <1>3
<1> QED
  BY <1>1, <1>2, <1>4, ClaimsJob

LEMMA MailClaim ==
    ASSUME NEW p, NEW j, NEW m, m = Mail(p, j)
    PROVE  Claim(m) = Claim(j) /\ m.from = p /\ m.to = j.to /\ m.n = j.n /\ m.text = j.text /\ m.got = j.got
BY DEF Mail, Msg, Claim

LEMMA ClaimsEcho ==
    ASSUME Types, Setting, NEW p \in People, NEW j \in jobs[p], Echoes(p, j)
    PROVE  ClaimsLess(p)
<1>1. j \in Due(p, p)
  BY DEF Echoes, Due
<1>2. Asked(p)' \subseteq Asked(p)
  BY DEF Echoes, Asked
<1>3. j \in Jobs /\ InRoom' = InRoom
  BY JobType DEF Setting
<1>4. Due(p, p)' \subseteq Due(p, p)
  <2>1. CASE InRoom
    <3>1. PICK k : k = [j EXCEPT !.step = "deliver"]
      OBVIOUS
    <3>2. jobs'[p] = Turned(p, j, {k}) /\ k.step = "deliver"
      BY <1>3, <2>1, <3>1 DEF Echoes, Jobs
    <3> QED
      BY <1>3, <2>1, <3>2 DEF Due, Turned
  <2>2. CASE ~InRoom
    BY <2>2, DueTurned DEF Echoes
  <2> QED
    BY <2>1, <2>2
<1>5. PICK m : m = Mail(p, j)
  OBVIOUS
<1>6. \A x \in Flight(p, p)' \ Flight(p, p) : x = m
  BY <1>5 DEF Echoes, Flight, In
<1>7. Claim(m) = Claim(j)
  BY <1>5, MailClaim
<1>8. \A x \in (Due(p, p)' \ Due(p, p)) \cup (Flight(p, p)' \ Flight(p, p)) : Claim(x) = Claim(j)
  BY <1>4, <1>6, <1>7
<1> QED
  BY <1>1, <1>2, <1>8, ClaimsJob

LEMMA ClaimsDeliver ==
    ASSUME Types, Setting, NEW r \in People, NEW j \in jobs[r], Delivers(r, j), NEW p \in People
    PROVE  ClaimsLess(p)
<1>1. j.to \in People /\ j.to # r /\ j \in Jobs /\ InRoom' = InRoom
  BY JobType DEF Setting, Others
<1>2. Asked(p)' \subseteq Asked(p)
  BY DEF Delivers, Asked
<1>3. PICK m : m = Mail(r, j)
  OBVIOUS
<1>4. m.from = r
  BY <1>3, MailClaim
<1>5. Flight(p, p)' = Flight(p, p)
  <2>1. CASE p = j.to
    <3>1. In(p) \subseteq In(p)' /\ In(p)' \subseteq In(p) \cup {m}
      BY <1>3, <2>1 DEF Delivers
    <3> QED
      BY <1>1, <1>4, <2>1, <3>1 DEF Flight, In
  <2>2. CASE p # j.to
    BY <2>2 DEF Delivers, OthersIn, Flight, In
  <2> QED
    BY <2>1, <2>2
<1>6. CASE p # r
  <2>1. Due(p, p)' = Due(p, p)
    BY <1>6, SameDue DEF Delivers, OthersJobs
  <2> QED
    BY <1>2, <1>5, <2>1 DEF ClaimsLess, Claims, Claim
<1>7. CASE p = r /\ InRoom
  <2>1. Due(p, p)' \subseteq Due(p, p)
    BY <1>7, DueTurned DEF Delivers
  <2> QED
    BY <1>2, <1>5, <2>1 DEF ClaimsLess, Claims, Claim
<1>8. CASE p = r /\ ~InRoom
  <2>1. PICK k : k = [j EXCEPT !.step = "echo"]
    OBVIOUS
  <2>2. jobs'[p] = Turned(p, j, {k}) /\ Claim(k) = Claim(j)
    BY <1>1, <1>8, <2>1 DEF Delivers, Jobs, Claim
  <2>3. j \in Due(p, p) /\ \A x \in Due(p, p)' : x \in Due(p, p) \/ x = k
    BY <1>8, <2>2, DueTurned DEF Due
  <2>4. \A x \in (Due(p, p)' \ Due(p, p)) \cup (Flight(p, p)' \ Flight(p, p)) : Claim(x) = Claim(j)
    BY <1>5, <2>2, <2>3
  <2> QED
    BY <1>2, <2>3, <2>4, ClaimsJob
<1> QED
  BY <1>6, <1>7, <1>8

\* Only a message that p writes is a new claim of his.
LEMMA ClaimsOf ==
    ASSUME Types, Setting, Kind, NEW p \in People
    PROVE  ClaimsLess(p) \/ \E q \in Others(p), text \in Texts : Writes(p, q, text)
<1>1. CASE Ebbs
  BY <1>1, SameDue, ClaimsStay DEF Ebbs
<1>2. ASSUME NEW r \in Present, Takes(r)
      PROVE  ClaimsLess(p)
  <2>1. r \in People
    BY InPeople
  <2>2. CASE p = r
    BY <1>2, <2>2, ClaimsTake
  <2>3. CASE p # r
    BY <1>2, <2>3, SameDue, ClaimsStay DEF Takes, OthersJobs, In
  <2> QED
    BY <2>2, <2>3
<1>3. ASSUME NEW r \in Present, NEW j \in jobs[r], (\E k \in Jobs : Goes(r, j, k)) \/ Echoes(r, j) \/ Delivers(r, j)
      PROVE  ClaimsLess(p)
  <2>1. r \in People
    BY InPeople
  <2>2. CASE p = r
    BY <1>3, <2>2, ClaimsGo, ClaimsEcho, ClaimsDeliver
  <2>3. CASE p # r /\ \E k \in Jobs : Goes(r, j, k)
    BY <2>3, SameDue, ClaimsStay DEF Goes, OthersJobs, In, Asked
  <2>4. CASE p # r /\ Echoes(r, j)
    BY <2>4, SameDue, ClaimsStay DEF Echoes, OthersJobs, OthersIn, Asked
  <2> QED
    BY <1>3, <2>1, <2>2, <2>3, <2>4, ClaimsDeliver
<1>4. ASSUME NEW r \in Present, NEW q \in Others(r), NEW text \in Texts, Writes(r, q, text), r # p
      PROVE  ClaimsLess(p)
  BY <1>4, SameDue, ClaimsStay DEF Writes, In
<1>5. ASSUME NEW r \in Present, NEW q \in Others(r), Reads(r, q)
      PROVE  ClaimsLess(p)
  BY <1>5, SameDue, ClaimsStay DEF Reads, In, Asked
<1>6. ASSUME NEW r \in Present, NEW m \in Messages, Answers(r, m) \/ Shows(r, m)
      PROVE  ClaimsLess(p)
  <2>1. Hears(r, m)
    BY <1>6 DEF Answers, Shows
  <2>2. In(p)' \subseteq In(p)
    BY <2>1 DEF Hears, OthersIn
  <2> QED
    BY <2>1, <2>2, SameDue, ClaimsStay DEF Hears, Asked
<1> QED
  BY <1>1, <1>2, <1>3, <1>4, <1>5, <1>6 DEF Kind

LEMMA OwesStays ==
    ASSUME NEW p \in People, Types, Setting, NEW c, Owes(p, c), Screen(p),
           \A i \in DOMAIN log[p][c[1]] :
               log[p][c[1]][i].n = c[2] /\ log[p][c[1]][i].text = c[3] /\ Distinct(p) =>
                   log'[p][c[1]][i].got = log[p][c[1]][i].got,
           Distinct(p) /\ InRoom => (c[3] \in pending[p] => c[3] \in pending'[p])
    PROVE  Owes(p, c)'
<1>1. PICK q : q = c[1]
  OBVIOUS
<1>2. q \in Present /\ q # p /\ q \in People
  BY <1>1 DEF Owes, Types, BudgetOK, Present
<1>3. PICK i \in DOMAIN log[p][q] :
        /\ log[p][q][i].mine /\ log[p][q][i].n = c[2] /\ log[p][q][i].text = c[3]
        /\ Distinct(p) => log[p][q][i].got = None /\ (InRoom => c[3] \in pending[p])
  BY <1>1 DEF Owes
<1>4. /\ i \in DOMAIN log'[p][q] /\ log'[p][q][i].mine /\ log'[p][q][i].n = c[2]
      /\ log'[p][q][i].text = c[3]
  BY <1>2, <1>3 DEF Screen, Continues
<1>5. Distinct(p)' => Distinct(p)
  BY DistinctWas
<1>6. Distinct(p)' => log'[p][q][i].got = None /\ (InRoom => c[3] \in pending'[p])
  BY <1>1, <1>3, <1>5
<1>7. Present' = Present /\ InRoom' = InRoom
  BY DEF Setting
<1>8. \E k \in DOMAIN log'[p][q] :
        /\ log'[p][q][k].mine /\ log'[p][q][k].n = c[2] /\ log'[p][q][k].text = c[3]
        /\ Distinct(p)' => log'[p][q][k].got = None /\ (InRoom' => c[3] \in pending'[p])
  BY <1>4, <1>6, <1>7
<1> QED
  BY <1>1, <1>2, <1>7, <1>8 DEF Owes

LEMMA OwedStays ==
    ASSUME NEW p \in People, Types, Setting, Owed(p), ClaimsLess(p),
           \A q \in People : Grows(log[p][q], log'[p][q]),
           pending[p] \subseteq pending'[p]
    PROVE  Owed(p)'
<1>1. Screen(p)
  BY DEF Screen, Grows
<1>2. ASSUME NEW c \in Claims(p)' PROVE Owes(p, c)'
  <2>1. Owes(p, c)
    BY DEF Owed, ClaimsLess
  <2>2. c[1] \in People
    BY <2>1 DEF Owes, Types, BudgetOK, Present
  <2>3. \A i \in DOMAIN log[p][c[1]] : log'[p][c[1]][i].got = log[p][c[1]][i].got
    BY <2>2 DEF Grows
  <2> QED
    BY <1>1, <2>1, <2>3, OwesStays
<1> QED
  BY <1>2 DEF Owed

\* Claim by claim: p's new message has the entry that was made for it.
LEMMA OwedWrite ==
    ASSUME Types, Types', Setting, NEW p \in People, NEW q \in Others(p), NEW text \in Texts,
           Writes(p, q, text), Owed(p)
    PROVE  Owed(p)'
<1>1. PICK e : e = Draft(p, text)
  OBVIOUS
<1>2. /\ e \in Entries /\ q \in People /\ q # p /\ q \in Present
      /\ e.mine /\ e.n = sent[p] + 1 /\ e.text = text /\ e.got = None
  BY <1>1, DraftIs DEF Others
<1>3. log'[p][q] = Append(log[p][q], e) /\ LogElse(p, q)
  BY <1>1 DEF Writes
<1>4. \A r \in People : Grows(log[p][r], log'[p][r])
  BY <1>2, <1>3, Longer
<1>5. Screen(p)
  BY <1>4 DEF Screen, Grows
<1>6. PICK m : m = Letter(p, q, text)
  OBVIOUS
<1>7. Claim(m) = <<q, sent[p] + 1, text>>
  BY <1>6 DEF Claim, Letter, Msg
<1>8. pending[p] \subseteq pending'[p] /\ (InRoom => text \in pending'[p])
  BY DEF Writes
<1>9. ASSUME NEW c, Owes(p, c) PROVE Owes(p, c)'
  <2>1. c[1] \in People
    BY <1>9 DEF Owes, Types, BudgetOK, Present
  <2>2. \A i \in DOMAIN log[p][c[1]] : log'[p][c[1]][i].got = log[p][c[1]][i].got
    BY <1>4, <2>1 DEF Grows
  <2> QED
    BY <1>5, <1>8, <1>9, <2>2, OwesStays
<1>10. ASSUME NEW c, c = <<q, sent[p] + 1, text>> PROVE Owes(p, c)'
  <2>1. c[1] = q /\ c[2] = sent[p] + 1 /\ c[3] = text
    BY <1>10
  <2>2. \E i \in DOMAIN log'[p][q] : log'[p][q][i] = e
    <3>1. PICK s \in Seq(Entries) : s = log[p][q]
      BY <1>2, Typed
    <3>2. \E i \in DOMAIN Append(s, e) : Append(s, e)[i] = e
      BY <1>2, GrowsMore
    <3> QED
      BY <1>3, <3>1, <3>2
  <2>3. Present' = Present /\ InRoom' = InRoom
    BY DEF Setting
  <2> QED
    BY <1>2, <1>8, <2>1, <2>2, <2>3 DEF Owes
<1>11. ASSUME NEW c \in Claims(p)' PROVE c \in Claims(p) \/ c = <<q, sent[p] + 1, text>>
  <2>1. Asked(p)' \subseteq Asked(p) \cup {m} /\ Flight(p, p)' = Flight(p, p) /\ jobs' = jobs
    BY <1>6 DEF Writes, Flight
  <2>2. Due(p, p)' = Due(p, p)
    BY <2>1, SameDue
  <2>3. PICK x \in Asked(p)' \cup Due(p, p)' \cup Flight(p, p)' : c = Claim(x)
    BY <1>11 DEF Claims, Claim
  <2>4. x = m \/ x \in Asked(p) \cup Due(p, p) \cup Flight(p, p)
    BY <2>1, <2>2, <2>3
  <2> QED
    BY <1>7, <2>3, <2>4 DEF Claims
<1> QED
  BY <1>9, <1>10, <1>11 DEF Owed

LEMMA Apart1 ==
    ASSUME Types, NEW p \in People, NEW a \in Nat, NEW b \in Nat, Follows(cuts[p], a, b)
    PROVE  a # b
BY DEF Follows, Types, PageOK

\* The messages that follow on the one that p heard have other numbers.
LEMMA LaterClaims ==
    ASSUME Types, Types', Setting, Flow, NEW p \in People, NEW m, Hears(p, m), m.from = p,
           NEW c \in Claims(p)'
    PROVE  m.n # c[2]
<1>1. PICK x \in Asked(p)' \cup Due(p, p)' \cup Flight(p, p)' : c = Claim(x)
  BY DEF Claims, Claim
<1>2. c[2] = x.n
  BY <1>1 DEF Claim
<1>3. m \in Flight(p, p)
  BY DEF Hears, Flight, In
<1>4. Asked(p)' = Asked(p) /\ Due(p, p)' = Due(p, p)
  BY SameDue DEF Hears, Asked
<1>5. /\ \A a \in NF(p, p), b \in ND(p, p) : a # b
      /\ \A a \in NF(p, p), b \in NA(p) : a # b
      /\ NF(p, p) \subseteq Nat
  <2>1. /\ \A a \in NF(p, p), b \in ND(p, p) \cup NA(p) : Follows(cuts[p], a, b)
        /\ NF(p, p) \cup ND(p, p) \cup NA(p) \subseteq 0..sent[p]
    BY OrderIs DEF OrderOf, Ordered, Before
  <2> QED
    BY <2>1, Apart1
<1>6. m.n \in NF(p, p)
  BY <1>3 DEF NF, Nums
<1>7. CASE x \in Asked(p)
  <2>1. x.n \in NA(p)
    BY <1>7 DEF NA, Nums
  <2> QED
    BY <1>2, <1>5, <1>6, <2>1
<1>8. CASE x \in Due(p, p)
  <2>1. x.n \in ND(p, p)
    BY <1>8 DEF ND, Nums
  <2> QED
    BY <1>2, <1>5, <1>6, <2>1
<1>9. CASE x \in Flight(p, p)'
  <2>1. x \in In(p)' /\ x.from = m.from
    BY <1>9 DEF Flight, In
  <2>2. Follows(cuts[p], m.n, x.n) /\ x \in Flight(p, p)
    BY <2>1 DEF Hears, Flight, In
  <2>3. x.n \in NF(p, p)
    BY <2>2 DEF NF, Nums
  <2> QED
    BY <1>2, <1>5, <1>6, <2>2, <2>3, Apart1
<1> QED
  BY <1>1, <1>4, <1>7, <1>8, <1>9

\* The echo that p heard was about an entry of its own.
LEMMA EchoOwed ==
    ASSUME Types, NEW p \in People, NEW m, Hears(p, m), m.from = p, Owed(p)
    PROVE  /\ m.to \in People /\ m.to # p
           /\ \E i \in DOMAIN log[p][m.to] :
                LET e == log[p][m.to][i]
                IN  /\ e.mine /\ e.n = m.n /\ e.text = m.text
                    /\ Distinct(p) => e.got = None /\ (InRoom => m.text \in pending[p])
<1>1. m \in Flight(p, p)
  BY DEF Hears, Flight, In
<1>2. Claim(m) \in Claims(p)
  BY <1>1 DEF Claims
<1>3. PICK c : c = Claim(m)
  OBVIOUS
<1>4. c[1] = m.to /\ c[2] = m.n /\ c[3] = m.text
  BY <1>3 DEF Claim
<1>5. Owes(p, c)
  BY <1>2, <1>3 DEF Owed
<1>6. m.to \in Present /\ m.to # p
  BY <1>4, <1>5 DEF Owes
<1>7. \E i \in DOMAIN log[p][m.to] :
        LET e == log[p][m.to][i]
        IN  /\ e.mine /\ e.n = m.n /\ e.text = m.text
            /\ Distinct(p) => e.got = None /\ (InRoom => m.text \in pending[p])
  BY <1>4, <1>5, Zenon DEF Owes
<1> QED
  BY <1>6, <1>7 DEF Types, BudgetOK, Present

\* An echo is matched with the entry of its own text, and takes that text only.
LEMMA OwedAnswer ==
    ASSUME Types, Types', Setting, Flow, NEW p \in People, NEW m, Answers(p, m), Owed(p), ClaimsLess(p)
    PROVE  Owed(p)'
<1>1. Hears(p, m) /\ m.from = p
  BY DEF Answers
<1>2. Screen(p)
  BY AnswerContinues DEF Screen
<1>3. PICK k \in DOMAIN log[p][m.to] :
        log[p][m.to][k].mine /\ log[p][m.to][k].n = m.n /\ log[p][m.to][k].text = m.text
  BY <1>1, EchoOwed
<1>4. m.to \in People
  BY <1>1, EchoOwed
<1>5. ASSUME NEW c \in Claims(p)' PROVE Owes(p, c)'
  <2>1. Owes(p, c)
    BY DEF Owed, ClaimsLess
  <2>2. PICK q : q = c[1]
    OBVIOUS
  <2>3. q \in People
    BY <2>1, <2>2 DEF Owes, Types, BudgetOK, Present
  <2>4. m.n # c[2]
    BY <1>1, LaterClaims
  <2>5. PICK i \in DOMAIN log[p][q] :
          log[p][q][i].mine /\ log[p][q][i].n = c[2] /\ log[p][q][i].text = c[3]
    BY <2>1, <2>2 DEF Owes
  <2>6. Distinct(p) => c[3] # m.text
    <3>1. SUFFICES ASSUME Distinct(p), c[3] = m.text PROVE FALSE
      OBVIOUS
    <3>2. log[p][q][i].n = log[p][m.to][k].n
      BY <1>3, <1>4, <2>3, <2>5, <3>1 DEF Distinct
    <3> QED
      BY <1>3, <2>4, <2>5, <3>2
  <2>7. ASSUME NEW h \in DOMAIN log[p][q], log[p][q][h].n = c[2], log[p][q][h].text = c[3], Distinct(p)
        PROVE  log'[p][q][h].got = log[p][q][h].got
    <3>1. h \notin OwnOf(log[p][q], m)
      BY <2>6, <2>7 DEF OwnOf
    <3>2. log'[p][q][h] = log[p][q][h]
      BY <2>3, <2>7, <3>1, AnswerLogs DEF Updated
    <3> QED
      BY <3>2
  <2>8. Distinct(p) /\ InRoom => (c[3] \in pending[p] => c[3] \in pending'[p])
    BY <2>6 DEF Answers
  <2>9. \A h \in DOMAIN log[p][c[1]] :
               log[p][c[1]][h].n = c[2] /\ log[p][c[1]][h].text = c[3] /\ Distinct(p) =>
                   log'[p][c[1]][h].got = log[p][c[1]][h].got
    BY <2>2, <2>7
  <2> QED
    BY <1>2, <2>1, <2>8, <2>9, OwesStays
<1> QED
  BY <1>5 DEF Owed

LEMMA OwedStep ==
    ASSUME Types, Types', Setting, Flow, Kind, NEW p \in People, Owed(p)
    PROVE  Owed(p)'
<1>1. CASE \E q \in Others(p), text \in Texts : Writes(p, q, text)
  BY <1>1, OwedWrite
<1>2. CASE ~ \E q \in Others(p), text \in Texts : Writes(p, q, text)
  <2>1. ClaimsLess(p)
    BY <1>2, ClaimsOf
  <2>2. CASE Still(p)
    BY <2>1, <2>2, OwedStays DEF Still
  <2>3. ASSUME NEW m \in Messages, Answers(p, m)
        PROVE  Owed(p)'
    BY <2>1, <2>3, OwedAnswer
  <2>4. ASSUME NEW m \in Messages, Shows(p, m)
        PROVE  Owed(p)'
    <3>1. \A r \in People : Grows(log[p][r], log'[p][r])
      BY <2>4, ShownGrows
    <3>2. pending[p] \subseteq pending'[p]
      BY <2>4 DEF Shows
    <3> QED
      BY <2>1, <3>1, <3>2, OwedStays
  <2> QED
    BY <1>2, <2>2, <2>3, <2>4, Sides DEF Side
<1> QED
  BY <1>1, <1>2

LEMMA OwnMore ==
    ASSUME NEW s, NEW t, NEW p, Continues(s, t), OwnIn(s, p),
           \A i \in DOMAIN t : i \in DOMAIN s \/ t[i].mine \/ t[i].by # p
    PROVE  OwnIn(t, p)
BY DEF Continues, OwnIn

LEMMA OwnStep ==
    ASSUME Types, Types', Setting, Flow, Kind, NEW p \in People, Owed(p),
           NEW q \in People, OwnAt(p, q)
    PROVE  OwnAt(p, q)'
<1>1. Screen(p)
  BY ScreensGo
<1>2. SUFFICES ASSUME Distinct(p)' PROVE OwnIn(log'[p][q], p)
  BY DEF OwnAt
<1>3. Distinct(p)
  BY <1>1, <1>2, DistinctWas
<1>4. OwnIn(log[p][q], p) /\ Continues(log[p][q], log'[p][q])
  BY <1>1, <1>3 DEF OwnAt, Screen
<1>5. CASE Still(p)
  BY <1>4, <1>5, OwnMore DEF Still
<1>6. ASSUME NEW r \in Others(p), NEW text \in Texts, Writes(p, r, text)
      PROVE  OwnIn(log'[p][q], p)
  <2>1. PICK e : e = Draft(p, text)
    OBVIOUS
  <2>2. e \in Entries /\ r \in People /\ e.mine
    BY <2>1, DraftIs
  <2>3. log'[p][r] = Append(log[p][r], e) /\ LogElse(p, r)
    BY <1>6, <2>1 DEF Writes
  <2>4. \A i \in DOMAIN log'[p][q] : i \in DOMAIN log[p][q] \/ (q = r /\ log'[p][q][i] = e)
    BY <2>2, <2>3, Longer
  <2> QED
    BY <1>4, <2>2, <2>4, OwnMore
<1>7. ASSUME NEW m \in Messages, Answers(p, m)
      PROVE  OwnIn(log'[p][q], p)
  BY <1>4, <1>7, AnswerContinues, OwnMore
<1>8. ASSUME NEW m \in Messages, Shows(p, m)
      PROVE  OwnIn(log'[p][q], p)
  <2>1. m.from # p
    <3>1. SUFFICES ASSUME m.from = p PROVE FALSE
      OBVIOUS
    <3>2. Hears(p, m) /\ InRoom /\ m.text \notin pending[p]
      BY <1>8, <3>1 DEF Shows
    <3>3. m.text \in pending[p]
      BY <1>3, <3>1, <3>2, EchoOwed
    <3> QED
      BY <3>2, <3>3
  <2>2. PICK seen \in BOOLEAN : \A i \in DOMAIN log'[p][q] :
          i \in DOMAIN log[p][q] \/ (q = With(p, m) /\ log'[p][q][i] = Theirs(m, seen))
    BY <1>8, ShownGrows
  <2>3. Theirs(m, seen).by # p
    BY <2>1 DEF Theirs, Entry
  <2> QED
    BY <1>4, <2>2, <2>3, OwnMore
<1> QED
  BY <1>5, <1>6, <1>7, <1>8, Sides DEF Side

LEMMA Settled == Types /\ [Next]_vars => Setting
<1>1. ASSUME Types, Next PROVE Setting
  BY <1>1, Setup DEF Types
<1>2. ASSUME Types, UNCHANGED vars PROVE Setting
  BY <1>2, SamePlace DEF Types, vars, Setting
<1> QED
  BY <1>1, <1>2

\* Nobody has written anything.
LEMMA NothingYet ==
    ASSUME Init, NEW p \in People
    PROVE  /\ Asked(p) = {} /\ In(p) = {} /\ jobs[p] = {}
           /\ \A q \in People : log[p][q] = <<>> /\ Flight(p, q) = {} /\ Due(q, p) = {}
<1>1. toServer[p] = <<>> /\ toClient[p] = <<>> /\ jobs[p] = {} /\ \A q \in People : log[p][q] = <<>>
  BY DEF Init
<1>2. Asked(p) = {} /\ In(p) = {}
  BY <1>1, ChatsNone DEF Asked, In
<1> QED
  BY <1>1, <1>2 DEF Flight, Due, In

Echoed ==
    /\ \A p \in People : Owed(p)
    /\ \A p, q \in People : OwnAt(p, q)

LEMMA EchoedInit == Init => Echoed
<1>1. ASSUME Init, NEW p \in People PROVE Owed(p)
  BY <1>1, NothingYet DEF Owed, Claims, Claim
<1>2. ASSUME Init, NEW p \in People, NEW q \in People PROVE OwnAt(p, q)
  BY <1>2, NothingYet DEF OwnAt, OwnIn
<1> QED
  BY <1>1, <1>2 DEF Echoed

LEMMA EchoedStep == Orderly /\ Orderly' /\ Echoed /\ [Next]_vars => Echoed'
<1> SUFFICES ASSUME Orderly, Orderly', Echoed, [Next]_vars PROVE Echoed'
  OBVIOUS
<1>1. Types /\ Types' /\ Flow /\ Setting /\ Kind
  BY Settled, Kinds DEF Orderly
<1>2. ASSUME NEW p \in People PROVE Owed(p)'
  BY <1>1, OwedStep DEF Echoed
<1>3. ASSUME NEW p \in People, NEW q \in People PROVE OwnAt(p, q)'
  BY <1>1, OwnStep DEF Echoed
<1> QED
  BY <1>2, <1>3 DEF Echoed

LEMMA EchoedHolds == Spec => []Echoed
BY EchoedInit, EchoedStep, FlowHolds, PTL DEF Spec

\* Somebody who never wrote a text twice is not shown his own words as those of
\* the other one: every echo finds its text pending.
THEOREM OwnWordsStay == Spec => []OwnStaysOwn
<1>1. Echoed => OwnStaysOwn
  BY DEF Echoed, OwnAt, OwnIn, OwnStaysOwn
<1> QED
  BY <1>1, EchoedHolds, PTL

-----------------------------------------------------------------------------
(* The numbers of one's own messages                                       *)

\* An own entry is signed, and numbered by the messages written so far, which
\* gives every entry a number of its own.
Signed(p) ==
    \A q \in People : \A i \in DOMAIN log[p][q] :
        log[p][q][i].mine => log[p][q][i].by = p /\ log[p][q][i].n <= sent[p]
Numbered(p) ==
    \A q, r \in People : \A i \in DOMAIN log[p][q], k \in DOMAIN log[p][r] :
        log[p][q][i].mine /\ log[p][r][k].mine /\ log[p][q][i].n = log[p][r][k].n => q = r /\ i = k

\* No own entry is new.
Signs(p) ==
    \A q \in People : /\ Continues(log[p][q], log'[p][q])
                      /\ \A i \in DOMAIN log'[p][q] : log'[p][q][i].mine => i \in DOMAIN log[p][q]

LEMMA SignsStay ==
    ASSUME NEW p \in People, Signs(p), sent'[p] = sent[p], Signed(p), Numbered(p)
    PROVE  Signed(p)' /\ Numbered(p)'
<1>1. ASSUME NEW q \in People, NEW i \in DOMAIN log'[p][q], log'[p][q][i].mine
      PROVE  /\ i \in DOMAIN log[p][q] /\ log[p][q][i].mine
             /\ log'[p][q][i].by = log[p][q][i].by /\ log'[p][q][i].n = log[p][q][i].n
  BY <1>1 DEF Signs, Continues
<1>2. Signed(p)'
  BY <1>1 DEF Signed
<1>3. ASSUME NEW q \in People, NEW r \in People, NEW i \in DOMAIN log'[p][q], NEW k \in DOMAIN log'[p][r],
             log'[p][q][i].mine, log'[p][r][k].mine, log'[p][q][i].n = log'[p][r][k].n
      PROVE  q = r /\ i = k
  BY <1>1, <1>3 DEF Numbered
<1>4. Numbered(p)'
  BY <1>3 DEF Numbered
<1> QED
  BY <1>2, <1>4

LEMMA SignsWrite ==
    ASSUME Types, Types', NEW p \in People, NEW q \in Others(p), NEW text \in Texts,
           Writes(p, q, text), Signed(p), Numbered(p)
    PROVE  Signed(p)' /\ Numbered(p)'
<1>1. PICK e : e = Draft(p, text)
  OBVIOUS
<1>2. e \in Entries /\ q \in People /\ e.mine /\ e.by = p /\ e.n = sent[p] + 1
  BY <1>1, DraftIs
<1>3. log'[p][q] = Append(log[p][q], e) /\ LogElse(p, q)
  BY <1>1 DEF Writes
<1>4. sent'[p] = sent[p] + 1 /\ sent[p] \in Nat
  BY DEF Writes, Types, PageOK
<1>5. \A r \in People :
        /\ Grows(log[p][r], log'[p][r])
        /\ \A i \in DOMAIN log'[p][r] : i \in DOMAIN log[p][r] \/ (r = q /\ log'[p][r][i] = e)
        /\ \A i, k \in DOMAIN log'[p][r] \ DOMAIN log[p][r] : i = k
  BY <1>2, <1>3, Longer
<1>6. ASSUME NEW r \in People, NEW i \in DOMAIN log[p][r], log'[p][r][i].mine
      PROVE  /\ log[p][r][i].mine /\ log[p][r][i].n \in Nat /\ log[p][r][i].n <= sent[p]
             /\ log'[p][r][i].n = log[p][r][i].n /\ log'[p][r][i].by = p
  <2>1. log[p][r] \in Seq(Entries)
    BY Typed
  <2>2. log[p][r][i] \in Entries
    BY <2>1
  <2>3. log[p][r][i].mine /\ log'[p][r][i].n = log[p][r][i].n /\ log'[p][r][i].by = log[p][r][i].by
    BY <1>5, <1>6 DEF Grows, Continues
  <2> QED
    BY <2>2, <2>3 DEF Signed, Entries
<1>7. ASSUME NEW r \in People, NEW i \in DOMAIN log'[p][r], i \notin DOMAIN log[p][r]
      PROVE  r = q /\ log'[p][r][i].n = sent[p] + 1 /\ log'[p][r][i].by = p
  BY <1>2, <1>5, <1>7
<1>8. Signed(p)'
  <2>1. ASSUME NEW r \in People, NEW i \in DOMAIN log'[p][r], log'[p][r][i].mine
        PROVE  log'[p][r][i].by = p /\ log'[p][r][i].n <= sent'[p]
    BY <1>4, <1>6, <1>7, <2>1
  <2> QED
    BY <2>1 DEF Signed
<1>9. ASSUME NEW r \in People, NEW t \in People, NEW i \in DOMAIN log'[p][r], NEW k \in DOMAIN log'[p][t],
             log'[p][r][i].mine, log'[p][t][k].mine, log'[p][r][i].n = log'[p][t][k].n
      PROVE  r = t /\ i = k
  <2>1. CASE i \in DOMAIN log[p][r] /\ k \in DOMAIN log[p][t]
    BY <1>6, <1>9, <2>1 DEF Numbered
  <2>2. CASE i \notin DOMAIN log[p][r] /\ k \notin DOMAIN log[p][t]
    BY <1>5, <1>7, <2>2
  <2>3. CASE i \in DOMAIN log[p][r] /\ k \notin DOMAIN log[p][t]
    BY <1>4, <1>6, <1>7, <1>9, <2>3
  <2>4. CASE i \notin DOMAIN log[p][r] /\ k \in DOMAIN log[p][t]
    BY <1>4, <1>6, <1>7, <1>9, <2>4
  <2> QED
    BY <2>1, <2>2, <2>3, <2>4
<1> QED
  BY <1>8, <1>9 DEF Numbered

LEMMA SignsStep ==
    ASSUME Types, Types', Kind, NEW p \in People, Signed(p), Numbered(p)
    PROVE  Signed(p)' /\ Numbered(p)'
<1>1. CASE Still(p)
  BY <1>1, SignsStay DEF Still, Signs, Grows
<1>2. ASSUME NEW q \in Others(p), NEW text \in Texts, Writes(p, q, text)
      PROVE  Signed(p)' /\ Numbered(p)'
  BY <1>2, SignsWrite
<1>3. ASSUME NEW m \in Messages, Answers(p, m)
      PROVE  Signed(p)' /\ Numbered(p)'
  <2>1. Signs(p)
    BY <1>3, AnswerContinues DEF Signs
  <2> QED
    BY <1>3, <2>1, SignsStay DEF Answers, Hears
<1>4. ASSUME NEW m \in Messages, Shows(p, m)
      PROVE  Signed(p)' /\ Numbered(p)'
  <2>1. ASSUME NEW q \in People, NEW i \in DOMAIN log'[p][q], log'[p][q][i].mine
        PROVE  i \in DOMAIN log[p][q]
    <3>1. PICK seen \in BOOLEAN : \A k \in DOMAIN log'[p][q] :
            k \in DOMAIN log[p][q] \/ (q = With(p, m) /\ log'[p][q][k] = Theirs(m, seen))
      BY <1>4, ShownGrows
    <3>2. ~Theirs(m, seen).mine
      BY DEF Theirs, Entry
    <3> QED
      BY <2>1, <3>1, <3>2
  <2>2. Signs(p)
    BY <1>4, <2>1, ShownGrows DEF Signs, Grows
  <2> QED
    BY <1>4, <2>2, SignsStay DEF Shows, Hears
<1> QED
  BY <1>1, <1>2, <1>3, <1>4, Sides DEF Side

-----------------------------------------------------------------------------
(* The history of a room                                                   *)

\* The history is the end of what was ever stored.
Tailed ==
    /\ Len(history) <= MaxHistory /\ Len(history) <= Len(stored)
    /\ \A i \in 1..Len(history) : history[i] = stored[Len(stored) - Len(history) + i]
    /\ Len(history) = Len(stored) \/ Len(history) > MaxHistory \div 2

LEMMA TailedStays == Tailed /\ UNCHANGED <<history, stored>> => Tailed'
BY DEF Tailed

\* Half of a full history goes, and one message comes.
LEMMA CappedLen ==
    ASSUME Types, Tailed, NEW h \in Seq(People \X Nat), h = Capped(history)
    PROVE  /\ Len(h) < MaxHistory /\ Len(h) <= Len(stored)
           /\ \A i \in 1..Len(h) : h[i] = stored[Len(stored) - Len(h) + i]
           /\ Len(h) = Len(stored) \/ Len(h) >= MaxHistory \div 2
<1>1. PICK s \in Seq(People \X Nat) : s = history
  BY DEF Types, ServerOK
<1>2. PICK t \in Seq(People \X Nat) : t = stored
  BY DEF Types, ServerOK
<1>3. Len(s) \in Nat /\ Len(t) \in Nat /\ Len(s) <= MaxHistory /\ Len(s) <= Len(t)
  BY <1>1, <1>2 DEF Tailed
<1>4. PICK half \in Nat : half = MaxHistory \div 2 /\ MaxHistory = 2 * half /\ half > 0 /\ MaxHistory \in Nat
  BY ChatAssumption
<1>5. CASE Len(s) >= MaxHistory
  <2>1. h = SubSeq(s, half + 1, Len(s)) /\ Len(s) = 2 * half
    BY <1>1, <1>3, <1>4, <1>5 DEF Capped
  <2>2. half + 1 \in 1..(Len(s) + 1) /\ Len(s) \in half..Len(s)
    BY <1>3, <1>4, <2>1
  <2>3. Len(h) = half /\ \A i \in 1..half : h[i] = s[half + i]
    <3>1. PICK a \in 1..(Len(s) + 1) : a = half + 1
      BY <2>2
    <3>2. Len(s) \in (a - 1)..Len(s)
      BY <1>3, <2>1, <3>1, <1>4
    <3>3. /\ Len(SubSeq(s, a, Len(s))) = IF a <= Len(s) THEN Len(s) - a + 1 ELSE 0
          /\ \A i \in 1..(Len(s) - a + 1) : SubSeq(s, a, Len(s))[i] = s[a + i - 1]
      BY <3>1, <3>2, SubSeqProperties
    <3>4. a <= Len(s) /\ Len(s) - a + 1 = half
      BY <1>4, <2>1, <3>1
    <3>5. \A i \in 1..half : a + i - 1 = half + i
      BY <1>4, <3>1
    <3> QED
      BY <2>1, <3>1, <3>3, <3>4, <3>5
  <2>4. ASSUME NEW i \in 1..half PROVE h[i] = t[Len(t) - half + i]
    <3>1. half + i \in 1..Len(s) /\ Len(t) - Len(s) + (half + i) = Len(t) - half + i
      BY <1>3, <1>4, <2>1
    <3>2. s[half + i] = t[Len(t) - Len(s) + (half + i)]
      BY <1>1, <1>2, <3>1 DEF Tailed
    <3> QED
      BY <2>3, <3>1, <3>2
  <2>5. half < 2 * half /\ half <= Len(t) /\ half >= half
    BY <1>3, <1>4, <2>1
  <2>6. Len(h) < MaxHistory /\ Len(h) <= Len(t) /\ Len(h) >= MaxHistory \div 2
    BY <1>4, <2>3, <2>5, Zenon
  <2> QED
    BY <1>2, <2>3, <2>4, <2>6
<1>6. CASE ~(Len(s) >= MaxHistory)
  <2>1. h = s /\ Len(s) < MaxHistory
    BY <1>1, <1>3, <1>4, <1>6 DEF Capped
  <2>2. Len(s) = Len(t) \/ Len(s) >= MaxHistory \div 2
    BY <1>1, <1>2, <1>3, <1>4 DEF Tailed
  <2> QED
    BY <1>1, <1>2, <1>3, <2>1, <2>2 DEF Tailed
<1> QED
  BY <1>5, <1>6

LEMMA TailedAdd ==
    ASSUME Types, Tailed, NEW p \in People, NEW j \in jobs[p], AddChatMessage(p, j)
    PROVE  Tailed'
<1>1. PICK x \in People \X Nat : x = <<p, j.n>>
  BY JobType DEF Jobs
<1>2. PICK h \in Seq(People \X Nat) : h = Capped(history)
  BY CappedType
<1>3. PICK t \in Seq(People \X Nat) : t = stored
  BY DEF Types, ServerOK
<1>4. history' = Append(h, x) /\ stored' = Append(t, x)
  BY <1>1, <1>2, <1>3 DEF AddChatMessage
<1>5. PICK h1 \in Seq(People \X Nat) : h1 = Append(h, x)
  BY AppendProperties
<1>6. PICK t1 \in Seq(People \X Nat) : t1 = Append(t, x)
  BY AppendProperties
<1>7. /\ Len(h1) = Len(h) + 1 /\ h1[Len(h) + 1] = x /\ \A i \in 1..Len(h) : h1[i] = h[i]
      /\ Len(t1) = Len(t) + 1 /\ t1[Len(t) + 1] = x /\ \A i \in 1..Len(t) : t1[i] = t[i]
      /\ Len(h) \in Nat /\ Len(t) \in Nat
  BY <1>5, <1>6, AppendProperties
<1>8. /\ Len(h) < MaxHistory /\ Len(h) <= Len(t)
      /\ \A i \in 1..Len(h) : h[i] = t[Len(t) - Len(h) + i]
      /\ Len(h) = Len(t) \/ Len(h) >= MaxHistory \div 2
  BY <1>2, <1>3, CappedLen
<1>9. ASSUME NEW i \in 1..Len(h1) PROVE h1[i] = t1[Len(t1) - Len(h1) + i]
  <2>1. Len(t1) - Len(h1) + i = Len(t) - Len(h) + i
    BY <1>7
  <2>2. CASE i \in 1..Len(h)
    <3>1. Len(t) - Len(h) + i \in 1..Len(t)
      BY <1>7, <1>8, <2>2
    <3>2. h1[i] = h[i] /\ h[i] = t[Len(t) - Len(h) + i] /\ t1[Len(t) - Len(h) + i] = t[Len(t) - Len(h) + i]
      BY <1>7, <1>8, <2>2, <3>1
    <3> QED
      BY <2>1, <3>2
  <2>3. CASE i = Len(h) + 1
    <3>1. Len(t) - Len(h) + i = Len(t) + 1
      BY <1>7, <2>3
    <3> QED
      BY <1>7, <2>1, <2>3, <3>1
  <2> QED
    BY <1>7, <2>2, <2>3
<1>10. MaxHistory \in Nat /\ MaxHistory \div 2 \in Int
  BY ChatAssumption
<1>11. /\ Len(h1) <= MaxHistory /\ Len(h1) <= Len(t1)
       /\ Len(h1) = Len(t1) \/ Len(h1) > MaxHistory \div 2
  BY <1>7, <1>8, <1>10
<1> QED
  BY <1>4, <1>5, <1>6, <1>9, <1>11 DEF Tailed

LEMMA TailedStep == Types /\ Tailed /\ [Next]_vars => Tailed'
<1> SUFFICES ASSUME Types, Tailed, [Next]_vars PROVE Tailed'
  OBVIOUS
<1>1. CASE UNCHANGED vars
  BY <1>1, TailedStays DEF vars, serverVars, readerVars
<1>2. CASE Next
  <2>1. PICK p \in Present : Buttons(p) \/ Server(p) \/ Browser(p) \/ Lose(p) \/ Reopen(p)
    BY <1>2 DEF Next
  <2>2. p \in People
    BY InPeople
  <2>3. CASE \E j \in jobs[p] : AddChatMessage(p, j)
    BY <2>2, <2>3, TailedAdd
  <2>4. CASE ~ \E j \in jobs[p] : AddChatMessage(p, j)
    <3>1. CASE Buttons(p)
      BY <3>1, TailedStays
         DEF Buttons, SendMessage, SendDM, SendTyping, ChangeLang, OpenChat, CloseChat, CallFromChat, serverVars, readerVars
    <3>2. CASE Server(p)
      BY <2>4, <3>2, TailedStays
         DEF Server, HandleChat, Refuse, RelayTyping, HandleLang, HandleRejoin, HandleDisconnect,
             Removed, Translate, Echo, Deliver, serverVars, readerVars
    <3>3. CASE Browser(p)
      BY <3>3, TailedStays
         DEF Browser, OnChat, OnEcho, OnDM, OnTyping, TypingOver, OnPeerLeft, Hear, serverVars, readerVars
    <3>4. CASE Lose(p) \/ Reopen(p)
      BY <3>4, TailedStays DEF Lose, Reopen, serverVars, readerVars
    <3> QED
      BY <2>1, <3>1, <3>2, <3>3, <3>4
  <2> QED
    BY <2>3, <2>4
<1> QED
  BY <1>1, <1>2

LEMMA TailedSuffix == Types /\ Tailed => IsSuffix(history, stored)
<1> SUFFICES ASSUME Types, Tailed PROVE IsSuffix(history, stored)
  OBVIOUS
<1>1. PICK s \in Seq(People \X Nat) : s = history
  BY DEF Types, ServerOK
<1>2. PICK t \in Seq(People \X Nat) : t = stored
  BY DEF Types, ServerOK
<1>3. /\ Len(s) \in Nat /\ Len(t) \in Nat /\ Len(s) <= Len(t)
      /\ \A i \in 1..Len(s) : s[i] = t[Len(t) - Len(s) + i]
  BY <1>1, <1>2 DEF Tailed
<1>4. /\ Reverse(s) \in Seq(People \X Nat) /\ Len(Reverse(s)) = Len(s)
      /\ Reverse(t) \in Seq(People \X Nat) /\ Len(Reverse(t)) = Len(t)
  BY <1>3 DEF Reverse
<1>5. ASSUME NEW i \in 1..Len(s) PROVE Reverse(s)[i] = Reverse(t)[i]
  <2>1. /\ Reverse(s)[i] = s[Len(s) - i + 1] /\ Reverse(t)[i] = t[Len(t) - i + 1]
        /\ Len(s) - i + 1 \in 1..Len(s) /\ Len(t) - Len(s) + (Len(s) - i + 1) = Len(t) - i + 1
    BY <1>3 DEF Reverse
  <2> QED
    BY <1>3, <2>1
<1>6. SubSeq(Reverse(s), 1, Len(s)) = SubSeq(Reverse(t), 1, Len(s))
  BY <1>3, <1>4, <1>5
<1> QED
  BY <1>1, <1>2, <1>3, <1>4, <1>6 DEF IsSuffix, IsPrefix

-----------------------------------------------------------------------------
(* What is known of a message in a room was stored                         *)

KeptJobs(p) == \A j \in jobs[p] : j.step \in {"echo", "deliver"} => <<p, j.n>> \in Range(stored)
KeptMail(p) == \A m \in In(p) : <<m.from, m.n>> \in Range(stored)
KeptEntry(e) == e.got # None /\ Distinct(e.by) => <<e.by, e.n>> \in Range(stored)
KeptScreen(p) == \A q \in People : \A e \in Range(log[p][q]) : KeptEntry(e)

Kept == InRoom => \A p \in People : KeptJobs(p) /\ KeptMail(p) /\ KeptScreen(p)

StoredMore == Range(stored) \subseteq Range(stored)'

LEMMA StoredGrows == Kind => StoredMore
<1> SUFFICES ASSUME Kind, ~UNCHANGED stored PROVE StoredMore
  BY DEF StoredMore
<1>1. PICK p \in Present : \E j \in jobs[p] : \E k \in Jobs : Goes(p, j, k)
  <2>1. ~Ebbs
    BY DEF Ebbs
  <2>2. \A p \in Present : ~Takes(p)
    BY DEF Takes
  <2>3. \A p \in Present : \A j : ~Echoes(p, j) /\ ~Delivers(p, j)
    BY DEF Echoes, Delivers
  <2>4. \A p \in Present : \A q, text : ~Writes(p, q, text) /\ ~Reads(p, q)
    BY DEF Writes, Reads
  <2>5. \A p \in Present : \A m : ~Answers(p, m) /\ ~Shows(p, m)
    BY DEF Answers, Shows, Hears
  <2> QED
    BY <2>1, <2>2, <2>3, <2>4, <2>5, Zenon DEF Kind
<1>2. PICK j \in jobs[p], k \in Jobs : Goes(p, j, k)
  BY <1>1
<1> QED
  BY <1>2 DEF Goes, StoredMore

\* Nobody's jobs or mail are new.
LEMMA WayStays ==
    ASSUME NEW p \in People, KeptJobs(p), KeptMail(p), StoredMore, jobs'[p] = jobs[p], In(p)' \subseteq In(p)
    PROVE  KeptJobs(p)' /\ KeptMail(p)'
BY DEF KeptJobs, KeptMail, StoredMore

LEMMA WayMail ==
    ASSUME NEW p \in People, KeptMail(p), StoredMore, NEW m, In(p)' \subseteq In(p) \cup {m},
           <<m.from, m.n>> \in Range(stored)
    PROVE  KeptMail(p)'
BY DEF KeptMail, StoredMore

LEMMA WayJobs ==
    ASSUME NEW p \in People, KeptJobs(p), StoredMore, NEW k, jobs'[p] \subseteq jobs[p] \cup {k},
           k.step \in {"echo", "deliver"} => <<p, k.n>> \in Range(stored)'
    PROVE  KeptJobs(p)'
BY DEF KeptJobs, StoredMore

LEMMA WayStep ==
    ASSUME Types, Setting, InRoom, Kind, \A r \in People : KeptJobs(r) /\ KeptMail(r), NEW p \in People
    PROVE  KeptJobs(p)' /\ KeptMail(p)'
<1>1. StoredMore
  BY StoredGrows
<1>2. CASE Ebbs
  BY <1>1, <1>2, WayStays DEF Ebbs
<1>3. ASSUME NEW r \in Present, Takes(r)
      PROVE  KeptJobs(p)' /\ KeptMail(p)'
  <2>1. In(p)' = In(p)
    BY <1>3 DEF Takes, In
  <2>2. CASE p # r
    BY <1>1, <1>3, <2>1, <2>2, WayStays DEF Takes, OthersJobs
  <2>3. CASE p = r
    <3>1. PICK m \in Asked(r) : jobs'[r] \subseteq jobs[r] \cup {Job(m)}
      BY <1>3 DEF Takes
    <3>2. PICK k : k = Job(m)
      OBVIOUS
    <3>3. KeptJobs(p)'
      BY <1>1, <2>3, <3>1, <3>2, WayJobs DEF Job
    <3>4. KeptMail(p)'
      BY <1>1, <2>1 DEF KeptMail, StoredMore
    <3> QED
      BY <3>3, <3>4
  <2> QED
    BY <2>2, <2>3
<1>4. ASSUME NEW r \in Present, NEW j \in jobs[r], NEW k \in Jobs, Goes(r, j, k)
      PROVE  KeptJobs(p)' /\ KeptMail(p)'
  <2>1. In(p)' = In(p)
    BY <1>4 DEF Goes, In
  <2>2. CASE p # r
    BY <1>1, <1>4, <2>1, <2>2, WayStays DEF Goes, OthersJobs
  <2>3. CASE p = r
    <3>1. KeptJobs(p)'
      BY <1>1, <1>4, <2>3, WayJobs DEF Goes, Turned
    <3>2. KeptMail(p)'
      BY <1>1, <2>1 DEF KeptMail, StoredMore
    <3> QED
      BY <3>1, <3>2
  <2> QED
    BY <2>2, <2>3
<1>5. ASSUME NEW r \in Present, NEW j \in jobs[r], Echoes(r, j) \/ Delivers(r, j)
      PROVE  KeptJobs(p)' /\ KeptMail(p)'
  <2>1. j \in Jobs /\ r \in People /\ j.to \in People
    BY JobType, InPeople
  <2>2. PICK m : m = Mail(r, j)
    OBVIOUS
  <2>3. m.from = r /\ m.n = j.n
    BY <2>2, MailClaim
  <2>4. <<r, j.n>> \in Range(stored)
    BY <1>5, <2>1 DEF Echoes, Delivers, KeptJobs
  <2>5. In(p)' \subseteq In(p) \cup {m}
    BY <1>5, <2>1, <2>2 DEF Echoes, Delivers, OthersIn
  <2>6. KeptMail(p)'
    <3>1. KeptMail(p) /\ <<m.from, m.n>> \in Range(stored)
      BY <2>3, <2>4
    <3> QED
      BY <1>1, <2>5, <3>1 DEF KeptMail, StoredMore
  <2>7. CASE p # r
    <3>1. jobs'[p] = jobs[p] /\ KeptJobs(p)
      BY <1>5, <2>7 DEF Echoes, Delivers, OthersJobs
    <3>2. KeptJobs(p)'
      BY <1>1, <3>1 DEF KeptJobs, StoredMore
    <3> QED
      BY <2>6, <3>2
  <2>8. CASE p = r
    <3>1. PICK k : k = [j EXCEPT !.step = "deliver"]
      OBVIOUS
    <3>2. k.n = j.n
      BY <2>1, <3>1 DEF Jobs
    <3>3. jobs'[p] \subseteq jobs[p] \cup {k}
      BY <1>5, <2>8, <3>1 DEF Echoes, Delivers, Turned
    <3>4. <<p, k.n>> \in Range(stored)'
      BY <1>1, <2>4, <2>8, <3>2 DEF StoredMore
    <3> QED
      BY <1>1, <2>6, <3>3, <3>4, WayJobs
  <2> QED
    BY <2>6, <2>7, <2>8
<1>6. ASSUME NEW r \in Present, NEW q \in Others(r), (\E text \in Texts : Writes(r, q, text)) \/ Reads(r, q)
      PROVE  KeptJobs(p)' /\ KeptMail(p)'
  BY <1>1, <1>6, WayStays DEF Writes, Reads, In
<1>7. ASSUME NEW r \in Present, NEW m \in Messages, Answers(r, m) \/ Shows(r, m)
      PROVE  KeptJobs(p)' /\ KeptMail(p)'
  <2>1. Hears(r, m)
    BY <1>7 DEF Answers, Shows
  <2>2. In(p)' \subseteq In(p) /\ jobs' = jobs
    BY <2>1 DEF Hears, OthersIn
  <2> QED
    BY <1>1, <2>2, WayStays
<1> QED
  BY <1>2, <1>3, <1>4, <1>5, <1>6, <1>7 DEF Kind

LEMMA EntryStays ==
    ASSUME Types, Types', Kind, NEW e \in Entries, NEW f, KeptEntry(e), StoredMore,
           f.by = e.by, f.n = e.n, f.got = e.got
    PROVE  KeptEntry(f)'
<1>1. e.by \in People
  BY DEF Entries
<1>2. Distinct(e.by)' => Distinct(e.by)
  BY <1>1, ScreensGo, DistinctWas
<1> QED
  BY <1>2 DEF KeptEntry, StoredMore

LEMMA GrownKept ==
    ASSUME Types, Types', Kind, NEW p \in People, NEW q \in People, KeptScreen(p), StoredMore,
           NEW i \in DOMAIN log[p][q], Grows(log[p][q], log'[p][q]), NEW f, f = log'[p][q][i]
    PROVE  KeptEntry(f)'
<1>1. PICK s \in Seq(Entries) : s = log[p][q]
  BY Typed
<1>2. PICK e \in Entries : e = s[i]
  BY <1>1
<1>3. f.by = e.by /\ f.n = e.n /\ f.got = e.got
  BY <1>1, <1>2 DEF Grows, Continues
<1>4. KeptEntry(e)
  BY <1>1, <1>2 DEF KeptScreen, Range
<1> QED
  BY <1>3, <1>4, EntryStays

LEMMA KeptScreenStep ==
    ASSUME Types, Types', Setting, InRoom, Kind, NEW p \in People, KeptScreen(p), KeptMail(p),
           Owed(p), Signed(p)
    PROVE  KeptScreen(p)'
<1>1. StoredMore
  BY StoredGrows
<1>2. ASSUME NEW q \in People, NEW i \in DOMAIN log'[p][q], NEW f, f = log'[p][q][i] PROVE KeptEntry(f)'
  <2>1. CASE i \in DOMAIN log[p][q] /\ Grows(log[p][q], log'[p][q])
    BY <1>1, <1>2, <2>1, GrownKept
  <2>2. CASE Still(p)
    BY <1>2, <2>1, <2>2 DEF Still
  <2>3. ASSUME NEW r \in Others(p), NEW text \in Texts, Writes(p, r, text)
        PROVE  KeptEntry(f)'
    <3>1. PICK e : e = Draft(p, text)
      OBVIOUS
    <3>2. e \in Entries /\ r \in People /\ e.got = None
      BY <3>1, DraftIs
    <3>3. log'[p][r] = Append(log[p][r], e) /\ LogElse(p, r)
      BY <2>3, <3>1 DEF Writes
    <3>4. Grows(log[p][q], log'[p][q]) /\ (i \in DOMAIN log[p][q] \/ log'[p][q][i] = e)
      BY <1>2, <3>2, <3>3, Longer
    <3>5. CASE log'[p][q][i] = e
      BY <1>2, <3>2, <3>5 DEF KeptEntry
    <3> QED
      BY <2>1, <3>4, <3>5
  <2>4. ASSUME NEW m \in Messages, Shows(p, m)
        PROVE  KeptEntry(f)'
    <3>1. PICK seen \in BOOLEAN : i \in DOMAIN log[p][q] \/ log'[p][q][i] = Theirs(m, seen)
      BY <1>2, <2>4, ShownGrows
    <3>2. Grows(log[p][q], log'[p][q])
      BY <2>4, ShownGrows
    <3>3. CASE log'[p][q][i] = Theirs(m, seen)
      <4>1. f.by = m.from /\ f.n = m.n
        BY <1>2, <3>3 DEF Theirs, Entry
      <4>2. <<m.from, m.n>> \in Range(stored)
        BY <2>4 DEF Shows, Hears, KeptMail
      <4> QED
        BY <1>1, <4>1, <4>2 DEF KeptEntry, StoredMore
    <3> QED
      BY <2>1, <3>1, <3>2, <3>3
  <2>5. ASSUME NEW m \in Messages, Answers(p, m)
        PROVE  KeptEntry(f)'
    <3>1. PICK s \in Seq(Entries) : s = log[p][q]
      BY Typed
    <3>2. i \in DOMAIN s
      BY <1>2, <2>5, <3>1, AnswerContinues
    <3>3. PICK e \in Entries : e = s[i]
      BY <3>1, <3>2
    <3>4. f = e \/ (i \in OwnOf(s, m) /\ f = [e EXCEPT !.got = m.got])
      <4>1. Updated(s, log'[p][q], m) \/ log'[p][q] = s
        BY <2>5, <3>1, AnswerLogs
      <4> QED
        BY <1>2, <3>2, <3>3, <4>1 DEF Updated
    <3>5. CASE f = e
      <4>1. KeptEntry(e)
        BY <3>1, <3>2, <3>3 DEF KeptScreen, Range
      <4> QED
        BY <1>1, <3>5, <4>1, EntryStays
    <3>6. CASE i \in OwnOf(s, m) /\ f = [e EXCEPT !.got = m.got]
      <4>1. e.mine /\ e.text = m.text /\ f.by = e.by /\ f.n = e.n
        BY <3>3, <3>6 DEF OwnOf, Entries
      <4>2. e.by = p
        BY <3>1, <3>2, <3>3, <4>1 DEF Signed
      <4>3. Hears(p, m) /\ m.from = p
        BY <2>5 DEF Answers
      <4>4. <<p, m.n>> \in Range(stored)
        BY <4>3 DEF Hears, KeptMail
      <4>5. PICK k \in DOMAIN log[p][m.to] :
              log[p][m.to][k].mine /\ log[p][m.to][k].n = m.n /\ log[p][m.to][k].text = m.text
        BY <4>3, EchoOwed
      <4>6. m.to \in People
        BY <4>3, EchoOwed
      <4>7. Distinct(p) => e.n = m.n
        BY <3>1, <3>2, <3>3, <4>1, <4>5, <4>6 DEF Distinct
      <4>8. Distinct(p)' => Distinct(p)
        BY ScreensGo, DistinctWas
      <4>9. f.by = p /\ (Distinct(p)' => <<p, f.n>> \in Range(stored)')
        BY <1>1, <4>1, <4>2, <4>4, <4>7, <4>8 DEF StoredMore
      <4> QED
        BY <4>9 DEF KeptEntry
    <3> QED
      BY <3>4, <3>5, <3>6
  <2> QED
    BY <2>2, <2>3, <2>4, <2>5, Sides DEF Side
<1> QED
  BY <1>2 DEF KeptScreen, Range

Filed ==
    /\ Tailed /\ Kept
    /\ \A p \in People : Signed(p) /\ Numbered(p)

LEMMA FiledInit == Init => Filed
<1> SUFFICES ASSUME Init PROVE Filed
  OBVIOUS
<1>1. Tailed
  BY ChatAssumption DEF Init, Tailed
<1>2. ASSUME NEW p \in People PROVE KeptJobs(p) /\ KeptMail(p) /\ KeptScreen(p)
  BY NothingYet DEF KeptJobs, KeptMail, KeptScreen, Range
<1>3. ASSUME NEW p \in People PROVE Signed(p) /\ Numbered(p)
  BY NothingYet DEF Signed, Numbered
<1> QED
  BY <1>1, <1>2, <1>3 DEF Filed, Kept

LEMMA FiledStep == Orderly /\ Orderly' /\ Echoed /\ Filed /\ [Next]_vars => Filed'
<1> SUFFICES ASSUME Orderly, Orderly', Echoed, Filed, [Next]_vars PROVE Filed'
  OBVIOUS
<1>1. Types /\ Types' /\ Setting /\ Kind
  BY Settled, Kinds DEF Orderly
<1>2. Tailed'
  BY <1>1, TailedStep DEF Filed
<1>3. ASSUME NEW p \in People PROVE Signed(p)' /\ Numbered(p)'
  BY <1>1, SignsStep DEF Filed
<1>4. ASSUME InRoom, NEW p \in People PROVE KeptJobs(p)' /\ KeptMail(p)' /\ KeptScreen(p)'
  <2>1. \A r \in People : KeptJobs(r) /\ KeptMail(r) /\ KeptScreen(r) /\ Owed(r) /\ Signed(r)
    BY <1>4 DEF Filed, Kept, Echoed
  <2> QED
    BY <1>1, <1>4, <2>1, WayStep, KeptScreenStep
<1>5. InRoom' = InRoom
  BY <1>1 DEF Setting
<1>6. Kept'
  BY <1>4, <1>5 DEF Kept
<1> QED
  BY <1>2, <1>3, <1>6 DEF Filed

LEMMA FiledHolds == Spec => [](Types /\ Filed)
<1>1. Orderly => Types
  BY DEF Orderly
<1> QED
  BY <1>1, FiledInit, FiledStep, FlowHolds, EchoedHolds, PTL DEF Spec

\* The history of a room is the newest part of what was said, at least half of
\* what it may hold, and what anybody sees of a translation was in it.
THEOREM NewestKept == Spec => []HistoryNewest
<1>1. Types /\ Filed => HistoryNewest
  <2> SUFFICES ASSUME Types, Filed PROVE HistoryNewest
    OBVIOUS
  <2>1. IsSuffix(history, stored)
    BY TailedSuffix DEF Filed
  <2>2. Len(history) <= MaxHistory /\ (Len(history) = Len(stored) \/ Len(history) > MaxHistory \div 2)
    BY DEF Filed, Tailed
  <2>3. InRoom => \A p, q \in People : \A i \in DOMAIN log[p][q] : KeptEntry(log[p][q][i])
    BY DEF Filed, Kept, KeptScreen, Range
  <2> QED
    BY <2>1, <2>2, <2>3 DEF HistoryNewest, KeptEntry
<1> QED
  BY <1>1, FiledHolds, PTL

-----------------------------------------------------------------------------
(* While no connection is lost                                             *)

\* Everybody is connected, and has one handler at most, of his own connection.
Alone == \A p \in People : \A j \in jobs[p] : jobs[p] = {j} /\ ~Old(p, j)
Calm == Uncut => (\A p \in Present : link[p] = "up" /\ at[p] = "in") /\ Alone

LEMMA UncutAlone == Orderly /\ Uncut => Alone
<1> SUFFICES ASSUME Orderly, Uncut, NEW p \in People, NEW j \in jobs[p]
             PROVE  jobs[p] = {j} /\ ~Old(p, j)
  BY DEF Alone
<1>1. Readers(p) /\ cuts[p] = {} /\ \A k \in jobs[p] : k.n \in Nat
  BY Numbers DEF Orderly, Uncut
<1>2. ~Old(p, j)
  BY <1>1 DEF Readers
<1>3. ASSUME NEW k \in jobs[p], k # j PROVE FALSE
  <2>1. j.n < k.n /\ k.n < j.n
    BY <1>1, <1>3 DEF Readers, Apart, Follows
  <2> QED
    BY <1>1, <2>1
<1> QED
  BY <1>2, <1>3

\* The only handler of p, and what becomes of it.
LEMMA AloneTurns ==
    ASSUME Calm, Uncut, NEW p \in People, NEW j \in jobs[p]
    PROVE  /\ jobs[p] = {j} /\ ~Old(p, j)
           /\ \A k : Goes(p, j, k) => jobs'[p] = {k}
           /\ Echoes(p, j) => jobs'[p] = IF InRoom THEN {[j EXCEPT !.step = "deliver"]} ELSE {}
           /\ Delivers(p, j) => jobs'[p] = IF InRoom THEN {} ELSE {[j EXCEPT !.step = "echo"]}
<1>1. jobs[p] = {j} /\ ~Old(p, j)
  BY DEF Calm, Alone
<1>2. \A K : Turned(p, j, K) = K
  BY <1>1 DEF Turned
<1> QED
  BY <1>1, <1>2 DEF Goes, Echoes, Delivers

LEMMA CalmStep == Orderly /\ Orderly' /\ Calm /\ [Next]_vars => Calm' /\ (Uncut' => Uncut)
<1> SUFFICES ASSUME Orderly, Orderly', Calm, [Next]_vars PROVE Calm' /\ (Uncut' => Uncut)
  OBVIOUS
<1> Types
  BY DEF Orderly
<1>0. Uncut' => Alone'
  <2>1. Orderly' /\ Uncut' => Alone'
    BY UncutAlone, PTL
  <2> QED
    BY <2>1
<1>1. Present' = Present
  BY Settled DEF Setting
<1>2. CASE UNCHANGED <<cuts, link, at>>
  BY <1>0, <1>1, <1>2 DEF Calm, Uncut
<1>3. CASE UNCHANGED vars
  BY <1>2, <1>3 DEF vars, serverVars, readerVars, wireVars
<1>4. CASE Next
  <2>1. PICK p \in Present : Buttons(p) \/ Server(p) \/ Browser(p) \/ Lose(p) \/ Reopen(p)
    BY <1>4 DEF Next
  <2>2. CASE HandleRejoin(p)
    <3>1. UNCHANGED <<cuts, link>> /\ at' = [at EXCEPT ![p] = "in"]
      BY <2>2 DEF HandleRejoin
    <3>2. \A q \in Present : at[q] = "in" => at'[q] = "in"
      BY <3>1 DEF Types, ServerOK, BudgetOK, Present
    <3> QED
      BY <1>0, <1>1, <3>1, <3>2 DEF Calm, Uncut
  <2>3. CASE Removed(p)
    BY <1>0, <1>1, <2>3 DEF Removed, Calm, Uncut
  <2>4. CASE Lose(p)
    <3>1. ~Uncut'
      <4>1. cuts'[p] # {} /\ p \in People
        BY <2>4, InPeople DEF Lose, Types, PageOK
      <4> QED
        BY <4>1 DEF Uncut
    <3> QED
      BY <3>1 DEF Calm
  <2>5. CASE Reopen(p)
    BY <1>0, <1>1, <2>5 DEF Reopen, Calm, Uncut
  <2>6. CASE Buttons(p)
    BY <1>2, <2>6 DEF Buttons, SendMessage, SendDM, SendTyping, ChangeLang, OpenChat, CloseChat, CallFromChat,
                      serverVars, readerVars, wireVars
  <2>7. CASE Browser(p)
    BY <1>2, <2>7 DEF Browser, OnChat, OnEcho, OnDM, OnTyping, TypingOver, OnPeerLeft, Hear, serverVars, readerVars, wireVars
  <2>8. CASE HandleDisconnect(p)
    <3>1. ~Uncut /\ cuts' = cuts
      BY <2>8, InPeople DEF HandleDisconnect, Orderly, Readers, Uncut
    <3> QED
      BY <3>1 DEF Calm, Uncut
  <2>9. CASE Server(p) /\ ~HandleRejoin(p) /\ ~Removed(p) /\ ~HandleDisconnect(p)
    BY <1>2, <2>9 DEF Server, HandleChat, Refuse, RelayTyping, HandleLang, Translate, AddChatMessage, Echo,
                      Deliver, serverVars, readerVars, wireVars
  <2> QED
    BY <2>1, <2>2, <2>3, <2>4, <2>5, <2>6, <2>7, <2>8, <2>9
<1> QED
  BY <1>3, <1>4

\* What leaves the socket of somebody was heard.
LEMMA InLess ==
    ASSUME Types, Kind, Uncut', NEW p \in People
    PROVE  In(p) \subseteq In(p)' \/ \E m \in Messages : Answers(p, m) \/ Shows(p, m)
<1>1. toClient' = toClient => In(p) \subseteq In(p)'
  BY DEF In
<1>2. CASE Ebbs
  BY <1>2 DEF Ebbs
<1>3. ASSUME NEW r \in Present, Takes(r)
      PROVE  In(p) \subseteq In(p)'
  BY <1>1, <1>3 DEF Takes
<1>4. ASSUME NEW r \in Present, NEW j \in jobs[r], (\E k \in Jobs : Goes(r, j, k)) \/ Echoes(r, j) \/ Delivers(r, j)
      PROVE  In(p) \subseteq In(p)'
  <2>1. CASE \E k \in Jobs : Goes(r, j, k)
    BY <1>1, <2>1 DEF Goes
  <2>2. CASE Echoes(r, j)
    BY <2>2 DEF Echoes, OthersIn
  <2>3. CASE Delivers(r, j)
    BY <2>3 DEF Delivers, OthersIn
  <2> QED
    BY <1>4, <2>1, <2>2, <2>3
<1>5. ASSUME NEW r \in Present, NEW q \in Others(r), (\E text \in Texts : Writes(r, q, text)) \/ Reads(r, q)
      PROVE  In(p) \subseteq In(p)'
  BY <1>1, <1>5 DEF Writes, Reads
<1>6. ASSUME NEW r \in Present, NEW m \in Messages, Answers(r, m) \/ Shows(r, m), r # p
      PROVE  In(p) \subseteq In(p)'
  BY <1>6 DEF Answers, Shows, Hears, OthersIn
<1> QED
  BY <1>2, <1>3, <1>4, <1>5, <1>6 DEF Kind

\* What comes to it was sent by a handler.
Sends(p, r, j) == (Echoes(r, j) /\ r = p) \/ (Delivers(r, j) /\ j.to = p)

LEMMA InGains ==
    ASSUME Types, Kind, NEW p \in People
    PROVE  In(p)' \subseteq In(p) \/ \E r \in Present : \E j \in jobs[r] :
                Sends(p, r, j) /\ In(p)' \subseteq In(p) \cup {Mail(r, j)}
<1>1. toClient' = toClient => In(p)' \subseteq In(p)
  BY DEF In
<1>2. CASE Ebbs
  BY <1>2 DEF Ebbs
<1>3. ASSUME NEW r \in Present, Takes(r)
      PROVE  In(p)' \subseteq In(p)
  BY <1>1, <1>3 DEF Takes
<1>4. ASSUME NEW r \in Present, NEW j \in jobs[r], (\E k \in Jobs : Goes(r, j, k)) \/ Echoes(r, j) \/ Delivers(r, j)
      PROVE  In(p)' \subseteq In(p) \/ (Sends(p, r, j) /\ In(p)' \subseteq In(p) \cup {Mail(r, j)})
  <2>1. CASE \E k \in Jobs : Goes(r, j, k)
    BY <1>1, <2>1 DEF Goes
  <2>2. CASE Echoes(r, j)
    BY <2>2 DEF Echoes, OthersIn, Sends
  <2>3. CASE Delivers(r, j)
    BY <2>3 DEF Delivers, OthersIn, Sends
  <2> QED
    BY <1>4, <2>1, <2>2, <2>3
<1>5. ASSUME NEW r \in Present, NEW q \in Others(r), (\E text \in Texts : Writes(r, q, text)) \/ Reads(r, q)
      PROVE  In(p)' \subseteq In(p)
  BY <1>1, <1>5 DEF Writes, Reads
<1>6. ASSUME NEW r \in Present, NEW m \in Messages, Answers(r, m) \/ Shows(r, m)
      PROVE  In(p)' \subseteq In(p)
  BY <1>6 DEF Answers, Shows, Hears, OthersIn
<1> QED
  BY <1>2, <1>3, <1>4, <1>5, <1>6 DEF Kind

\* What a handler does.
Works(p) ==
    \/ jobs'[p] = jobs[p]
    \/ Takes(p)
    \/ /\ p \in Present
       /\ \E j \in jobs[p] : (\E k \in Jobs : Goes(p, j, k)) \/ Echoes(p, j) \/ Delivers(p, j)

LEMMA JobsOf ==
    ASSUME Types, Kind, NEW p \in People
    PROVE  Works(p)
<1>1. CASE Ebbs
  BY <1>1 DEF Ebbs, Works
<1>2. ASSUME NEW r \in Present, Takes(r)
      PROVE  Works(p)
  BY <1>2 DEF Takes, OthersJobs, Works
<1>3. ASSUME NEW r \in Present, NEW j \in jobs[r], (\E k \in Jobs : Goes(r, j, k)) \/ Echoes(r, j) \/ Delivers(r, j)
      PROVE  Works(p)
  <2>1. CASE r = p
    BY <1>3, <2>1 DEF Works
  <2>2. CASE r # p
    BY <1>3, <2>2 DEF Goes, Echoes, Delivers, OthersJobs, Works
  <2> QED
    BY <2>1, <2>2
<1>4. ASSUME NEW r \in Present, NEW q \in Others(r), (\E text \in Texts : Writes(r, q, text)) \/ Reads(r, q)
      PROVE  Works(p)
  BY <1>4 DEF Writes, Reads, Works
<1>5. ASSUME NEW r \in Present, NEW m \in Messages, Answers(r, m) \/ Shows(r, m)
      PROVE  Works(p)
  BY <1>5 DEF Answers, Shows, Hears, Works
<1> QED
  BY <1>1, <1>2, <1>3, <1>4, <1>5 DEF Kind

-----------------------------------------------------------------------------
(* The words of a message                                                  *)

\* What p wrote to q: with the other one or on its way to him (Reach), echoed
\* (Own), on its way back (Back), or delivered and not yet sent back (Said).
Word(x) == <<x.n, x.text, x.got>>
Coming(p, q) == {j \in jobs[p] : InRoom /\ j.step = "deliver" /\ j.to = q}
Reach(p, q) == {Word(x) : x \in ByOther(q, p) \cup Flight(q, p) \cup Coming(p, q)}
Own(p, q) ==
    {Word(log[p][q][i]) : i \in {k \in DOMAIN log[p][q] : log[p][q][k].mine /\ log[p][q][k].got # None}}
Back(p, q) == {Word(m) : m \in {c \in Flight(p, p) : c.to = q}}
Said(p, q) == {Word(j) : j \in {k \in jobs[p] : ~InRoom /\ k.step = "echo" /\ k.to = q}}

\* Words of the other one are not touched by an echo.
LEMMA TheirsStay ==
    ASSUME Types, Types', Kind, NEW p \in People, NEW q \in People, p # q, Signed(q),
           NEW i \in DOMAIN log[q][p], log[q][p][i].by = p
    PROVE  /\ i \in DOMAIN log'[q][p] /\ log'[q][p][i].by = p
           /\ log'[q][p][i].n = log[q][p][i].n /\ log'[q][p][i].text = log[q][p][i].text
           /\ log'[q][p][i].got = log[q][p][i].got
<1>1. CASE Grows(log[q][p], log'[q][p])
  BY <1>1 DEF Grows, Continues
<1>2. CASE Still(q)
  BY <1>1, <1>2 DEF Still
<1>3. ASSUME NEW r \in Others(q), NEW text \in Texts, Writes(q, r, text)
      PROVE  Grows(log[q][p], log'[q][p])
  <2>1. Draft(q, text) \in Entries /\ r \in People
    BY DraftIs
  <2>2. log'[q][r] = Append(log[q][r], Draft(q, text)) /\ LogElse(q, r)
    BY <1>3 DEF Writes
  <2> QED
    BY <2>1, <2>2, Longer
<1>4. ASSUME NEW m \in Messages, Shows(q, m)
      PROVE  Grows(log[q][p], log'[q][p])
  BY <1>4, ShownGrows
<1>5. ASSUME NEW m \in Messages, Answers(q, m)
      PROVE  i \in DOMAIN log'[q][p] /\ log'[q][p][i] = log[q][p][i]
  <2>1. ~log[q][p][i].mine
    BY DEF Signed
  <2>2. i \notin OwnOf(log[q][p], m)
    BY <2>1 DEF OwnOf
  <2>3. Updated(log[q][p], log'[q][p], m) \/ log'[q][p] = log[q][p]
    BY <1>5, AnswerLogs
  <2>4. log'[q][p][i] = log[q][p][i]
    BY <2>2, <2>3 DEF Updated
  <2> QED
    BY <1>5, <2>4, AnswerContinues
<1> QED
  BY <1>1, <1>2, <1>3, <1>4, <1>5, Sides DEF Side

LEMMA SeenStays ==
    ASSUME Types, Types', Kind, NEW p \in People, NEW q \in People, p # q, Signed(q),
           NEW x \in ByOther(q, p)
    PROVE  \E y \in ByOther(q, p)' : Word(y) = Word(x)
<1>1. PICK i \in DOMAIN log[q][p] : log[q][p][i] = x /\ x.by = p
  BY DEF ByOther, By
<1>2. PICK y : y = log'[q][p][i]
  OBVIOUS
<1>3. i \in DOMAIN log'[q][p] /\ y.by = p /\ y.n = x.n /\ y.text = x.text /\ y.got = x.got
  BY <1>1, <1>2, TheirsStay
<1>4. y \in ByOther(q, p)'
  BY <1>2, <1>3 DEF ByOther, By
<1> QED
  BY <1>3, <1>4 DEF Word

LEMMA SeenNew ==
    ASSUME Types, Types', NEW p \in People, NEW q \in People, p # q, NEW m \in Messages,
           Shows(q, m), m.from = p
    PROVE  \E y \in ByOther(q, p)' : Word(y) = Word(m)
<1>1. With(q, m) = p
  BY DEF With
<1>2. PICK seen \in BOOLEAN :
        /\ Theirs(m, seen) \in Entries
        /\ log'[q][p] = Append(log[q][p], Theirs(m, seen))
  BY <1>1 DEF Shows
<1>3. PICK e : e = Theirs(m, seen)
  OBVIOUS
<1>4. PICK s \in Seq(Entries) : s = log[q][p]
  BY Typed
<1>5. \E i \in DOMAIN Append(s, e) : Append(s, e)[i] = e
  BY <1>2, <1>3, GrowsMore
<1>6. PICK i \in DOMAIN log'[q][p] : log'[q][p][i] = e
  BY <1>2, <1>3, <1>4, <1>5
<1>7. e.by = p /\ e.n = m.n /\ e.text = m.text /\ e.got = m.got
  BY <1>3 DEF Theirs, Entry
<1>8. e \in ByOther(q, p)'
  BY <1>6, <1>7 DEF ByOther, By
<1> QED
  BY <1>7, <1>8 DEF Word

LEMMA SeenGains ==
    ASSUME Types, Types', Kind, NEW p \in People, NEW q \in People, p # q, Signed(q),
           NEW y \in ByOther(q, p)'
    PROVE  \/ \E x \in ByOther(q, p) : Word(x) = Word(y)
           \/ \E m \in Flight(q, p) : Word(m) = Word(y)
<1>1. PICK i \in DOMAIN log'[q][p] : log'[q][p][i] = y /\ y.by = p
  BY DEF ByOther, By
<1>2. CASE i \in DOMAIN log[q][p]
  <2>1. PICK x : x = log[q][p][i]
    OBVIOUS
  <2>2. x.by = p
    BY <1>1, <1>2, <2>1, ScreensGo DEF Screen, Continues
  <2>3. y.n = x.n /\ y.text = x.text /\ y.got = x.got
    BY <1>1, <1>2, <2>1, <2>2, TheirsStay
  <2>4. x \in ByOther(q, p)
    BY <1>2, <2>1, <2>2 DEF ByOther, By
  <2> QED
    BY <2>3, <2>4 DEF Word
<1>3. CASE i \notin DOMAIN log[q][p]
  <2>1. ~Still(q)
    BY <1>3 DEF Still
  <2>2. ASSUME NEW r \in Others(q), NEW text \in Texts, Writes(q, r, text)
        PROVE  FALSE
    <3>1. PICK e : e = Draft(q, text)
      OBVIOUS
    <3>2. e \in Entries /\ r \in People /\ e.by = q
      BY <3>1, DraftIs
    <3>3. log'[q][r] = Append(log[q][r], e) /\ LogElse(q, r)
      BY <2>2, <3>1 DEF Writes
    <3>4. log'[q][p][i] = e
      BY <1>3, <3>2, <3>3, Longer
    <3> QED
      BY <1>1, <3>2, <3>4
  <2>3. ASSUME NEW m \in Messages, Answers(q, m)
        PROVE  FALSE
    BY <1>3, <2>3, AnswerContinues
  <2>4. ASSUME NEW m \in Messages, Shows(q, m)
        PROVE  m \in Flight(q, p) /\ Word(m) = Word(y)
    <3>1. PICK seen \in BOOLEAN : y = Theirs(m, seen)
      BY <1>1, <1>3, <2>4, ShownGrows
    <3>2. y.by = m.from /\ y.n = m.n /\ y.text = m.text /\ y.got = m.got
      BY <3>1 DEF Theirs, Entry
    <3>3. m \in In(q)
      BY <2>4 DEF Shows, Hears
    <3> QED
      BY <1>1, <3>2, <3>3 DEF Flight, In, Word
  <2> QED
    BY <2>1, <2>2, <2>3, <2>4, Sides DEF Side
<1> QED
  BY <1>2, <1>3

LEMMA ReachIn ==
    ASSUME NEW p, NEW q, NEW w
    PROVE  w \in Reach(p, q) <=> \E x \in ByOther(q, p) \cup Flight(q, p) \cup Coming(p, q) : w = Word(x)
BY DEF Reach, Word

\* While nobody is cut off, no words are lost.
LEMMA ReachStays ==
    ASSUME Types, Types', Setting, Kind, Calm, Uncut, Uncut', NEW p \in People, NEW q \in People,
           p # q, Signed(q)
    PROVE  Reach(p, q) \subseteq Reach(p, q)'
<1>1. ASSUME NEW x \in ByOther(q, p) PROVE Word(x) \in Reach(p, q)'
  <2>1. PICK y \in ByOther(q, p)' : Word(y) = Word(x)
    BY <1>1, SeenStays
  <2> QED
    BY <2>1 DEF Reach
<1>2. ASSUME NEW x \in Flight(q, p) PROVE Word(x) \in Reach(p, q)'
  <2>1. CASE x \in In(q)'
    <3>1. x \in Flight(q, p)'
      BY <2>1 DEF Flight, In
    <3> QED
      BY <3>1 DEF Reach, Word
  <2>2. CASE x \notin In(q)'
    <3>1. x \in In(q) /\ x.from = p
      BY <1>2 DEF Flight, In
    <3>2. PICK m \in Messages : Answers(q, m) \/ Shows(q, m)
      BY <2>2, <3>1, InLess
    <3>3. x = m
      BY <2>2, <3>1, <3>2 DEF Answers, Shows, Hears
    <3>4. Shows(q, m)
      BY <3>1, <3>2, <3>3 DEF Answers
    <3>5. PICK y \in ByOther(q, p)' : Word(y) = Word(m)
      BY <3>1, <3>3, <3>4, SeenNew
    <3> QED
      BY <3>3, <3>5 DEF Reach
  <2> QED
    BY <2>1, <2>2
<1>3. ASSUME NEW x \in Coming(p, q) PROVE Word(x) \in Reach(p, q)'
  <2>1. x \in jobs[p] /\ InRoom /\ x.step = "deliver" /\ x.to = q /\ InRoom' = InRoom
    BY <1>3 DEF Coming, Setting
  <2>2. CASE x \in jobs'[p]
    <3>1. x \in Coming(p, q)'
      BY <2>1, <2>2 DEF Coming
    <3> QED
      BY <3>1 DEF Reach, Word
  <2>3. ASSUME NEW j \in jobs[p], Delivers(p, j)
        PROVE  Word(x) \in Reach(p, q)'
    <3>1. x = j /\ q \in Present
      BY <2>1, <2>3, AloneTurns, JobType DEF Others
    <3>2. link[q] = "up" /\ at[q] # "out"
      BY <3>1 DEF Calm
    <3>3. PICK m : m = Mail(p, j)
      OBVIOUS
    <3>4. m \in In(q)'
      BY <2>1, <2>3, <3>1, <3>2, <3>3 DEF Delivers
    <3>5. m.from = p /\ m.n = j.n /\ m.text = j.text /\ m.got = j.got
      BY <3>3, MailClaim
    <3>6. m \in Flight(q, p)' /\ Word(m) = Word(x)
      BY <3>1, <3>4, <3>5 DEF Flight, In, Word
    <3> QED
      BY <3>6 DEF Reach
  <2>4. /\ Takes(p) => x \in jobs'[p]
        /\ \A j \in jobs[p] : ~Echoes(p, j) /\ \A k \in Jobs : ~Goes(p, j, k)
    BY <2>1, AloneTurns DEF Takes, Echoes, Goes
  <2> QED
    BY <2>1, <2>2, <2>3, <2>4, JobsOf DEF Works
<1>4. ASSUME NEW w \in Reach(p, q) PROVE w \in Reach(p, q)'
  <2>1. PICK x \in ByOther(q, p) \cup Flight(q, p) \cup Coming(p, q) : w = Word(x)
    BY ReachIn
  <2> QED
    BY <1>1, <1>2, <1>3, <2>1
<1> QED
  BY <1>4

\* A handler sends the words it was given.
LEMMA Sending ==
    ASSUME Types, Setting, Calm, Uncut, NEW p \in Present, NEW j \in jobs[p], Echoes(p, j) \/ Delivers(p, j)
    PROVE  /\ j.to \in People /\ j.to # p
           /\ \E m : /\ m = Mail(p, j) /\ Word(m) = Word(j) /\ m.from = p /\ m.to = j.to
                     /\ Echoes(p, j) => m \in Flight(p, p)'
                     /\ Delivers(p, j) => m \in Flight(j.to, p)'
<1>1. j.to \in Present /\ j.to \in People /\ j.to # p
  BY InPeople, JobType DEF Others
<1>2. PICK m : m = Mail(p, j)
  OBVIOUS
<1>3. m.from = p /\ m.to = j.to /\ Word(m) = Word(j)
  BY <1>2, MailClaim DEF Word
<1>4. ASSUME Echoes(p, j) PROVE m \in Flight(p, p)'
  <2>1. ~Old(p, j)
    BY InPeople, AloneTurns
  <2>2. m \in In(p)'
    BY <1>2, <1>4, <2>1 DEF Echoes
  <2> QED
    BY <1>3, <2>2 DEF Flight, In
<1>5. ASSUME Delivers(p, j) PROVE m \in Flight(j.to, p)'
  <2>1. link[j.to] = "up" /\ at[j.to] # "out"
    BY <1>1 DEF Calm
  <2>2. m \in In(j.to)'
    BY <1>2, <1>5, <2>1 DEF Delivers
  <2> QED
    BY <1>3, <2>2 DEF Flight, In
<1> QED
  BY <1>1, <1>2, <1>3, <1>4, <1>5

LEMMA FlightGains ==
    ASSUME Types, Kind, NEW p \in People, NEW q \in People, NEW m \in Flight(q, p)', m \notin Flight(q, p)
    PROVE  \E j \in jobs[p] : m = Mail(p, j) /\ Sends(q, p, j)
<1>1. m \in In(q)' /\ m.from = p /\ m \notin In(q)
  BY DEF Flight, In
<1>2. PICK r \in Present : \E j \in jobs[r] : Sends(q, r, j) /\ In(q)' \subseteq In(q) \cup {Mail(r, j)}
  BY <1>1, InGains
<1>3. PICK j \in jobs[r] : Sends(q, r, j) /\ In(q)' \subseteq In(q) \cup {Mail(r, j)}
  BY <1>2
<1>4. m = Mail(r, j)
  BY <1>1, <1>3
<1>5. m.from = r
  BY <1>4, MailClaim
<1> QED
  BY <1>1, <1>3, <1>4, <1>5

Carried(p, q) == Back(p, q) \subseteq Reach(p, q) /\ Said(p, q) \subseteq Reach(p, q)

LEMMA CarriedStep ==
    ASSUME Types, Types', Setting, Kind, Calm, Uncut, Uncut', NEW p \in People, NEW q \in People,
           p # q, Signed(q), Carried(p, q)
    PROVE  Carried(p, q)'
<1>1. Reach(p, q) \subseteq Reach(p, q)'
  BY ReachStays
<1>2. InRoom' = InRoom
  BY DEF Setting
<1>3. ASSUME NEW m \in Flight(p, p)', m.to = q PROVE Word(m) \in Reach(p, q)'
  <2>1. CASE m \in Flight(p, p)
    <3>1. Word(m) \in Back(p, q)
      BY <1>3, <2>1 DEF Back, Word
    <3> QED
      BY <1>1, <3>1 DEF Carried
  <2>2. CASE m \notin Flight(p, p)
    <3>1. PICK j \in jobs[p] : m = Mail(p, j) /\ Sends(p, p, j)
      BY <1>3, <2>2, FlightGains
    <3>2. j \in Jobs /\ j.to \in People /\ j.to # p
      BY JobType DEF Others
    <3>3. Echoes(p, j)
      BY <3>1, <3>2 DEF Sends
    <3>4. m.to = j.to /\ Word(m) = Word(j)
      BY <3>1, MailClaim DEF Word
    <3>5. CASE InRoom
      <4>1. PICK k : k = [j EXCEPT !.step = "deliver"]
        OBVIOUS
      <4>2. k.step = "deliver" /\ k.to = j.to /\ k.n = j.n /\ k.text = j.text /\ k.got = j.got
        BY <3>2, <4>1 DEF Jobs
      <4>3. jobs'[p] = {k}
        BY <3>3, <3>5, <4>1, AloneTurns
      <4>4. k \in Coming(p, q)' /\ Word(k) = Word(j)
        BY <1>2, <1>3, <3>4, <3>5, <4>2, <4>3 DEF Coming, Word
      <4> QED
        BY <3>4, <4>4 DEF Reach
    <3>6. CASE ~InRoom
      <4>1. Word(j) \in Said(p, q)
        BY <1>3, <3>3, <3>4, <3>6 DEF Echoes, Said, Word
      <4> QED
        BY <1>1, <3>4, <4>1 DEF Carried
    <3> QED
      BY <3>5, <3>6
  <2> QED
    BY <2>1, <2>2
<1>4. ASSUME NEW k \in jobs'[p], ~InRoom, k.step = "echo", k.to = q PROVE Word(k) \in Reach(p, q)'
  <2>1. CASE k \in jobs[p]
    <3>1. Word(k) \in Said(p, q)
      BY <1>4, <2>1 DEF Said, Word
    <3> QED
      BY <1>1, <3>1 DEF Carried
  <2>2. CASE Takes(p)
    BY <1>4, <2>1, <2>2 DEF Takes, Job
  <2>3. ASSUME NEW j \in jobs[p], (\E h \in Jobs : Goes(p, j, h)) \/ Echoes(p, j)
        PROVE  FALSE
    <3>1. CASE \E h \in Jobs : Goes(p, j, h)
      <4>1. PICK h \in Jobs : Goes(p, j, h) /\ k = h
        BY <1>4, <3>1, AloneTurns
      <4> QED
        BY <1>4, <4>1 DEF Goes
    <3>2. CASE Echoes(p, j)
      BY <1>4, <3>2, AloneTurns
    <3> QED
      BY <2>3, <3>1, <3>2
  <2>4. ASSUME p \in Present, NEW j \in jobs[p], Delivers(p, j)
        PROVE  Word(k) \in Reach(p, q)'
    <3>1. j \in Jobs
      BY JobType
    <3>2. k = [j EXCEPT !.step = "echo"]
      BY <1>4, <2>4, AloneTurns
    <3>3. k.to = j.to /\ Word(k) = Word(j)
      BY <3>1, <3>2 DEF Jobs, Word
    <3>4. PICK m : Word(m) = Word(j) /\ m \in Flight(j.to, p)'
      BY <2>4, Sending
    <3> QED
      BY <1>4, <3>3, <3>4 DEF Reach
  <2> QED
    BY <1>4, <2>1, <2>2, <2>3, <2>4, JobsOf DEF Works
<1>5. Back(p, q)' \subseteq Reach(p, q)'
  BY <1>3 DEF Back, Word
<1>6. Said(p, q)' \subseteq Reach(p, q)'
  BY <1>2, <1>4 DEF Said, Word
<1> QED
  BY <1>5, <1>6 DEF Carried

\* In a room, new words are on their way back, too.
LEMMA ReachGains ==
    ASSUME Types, Types', Setting, Kind, Calm, Uncut, InRoom, NEW p \in People, NEW q \in People,
           p # q, Signed(q)
    PROVE  Reach(p, q)' \subseteq Reach(p, q) \cup Back(p, q)'
<1>1. ASSUME NEW y \in ByOther(q, p)' PROVE Word(y) \in Reach(p, q)
  BY <1>1, SeenGains DEF Reach
<1>2. ASSUME NEW y \in Flight(q, p)' PROVE Word(y) \in Reach(p, q)
  <2>1. CASE y \in Flight(q, p)
    BY <2>1 DEF Reach, Word
  <2>2. CASE y \notin Flight(q, p)
    <3>1. PICK j \in jobs[p] : y = Mail(p, j) /\ Sends(q, p, j)
      BY <1>2, <2>2, FlightGains
    <3>2. Delivers(p, j) /\ j.to = q /\ j.step = "deliver"
      BY <3>1 DEF Sends, Delivers
    <3>3. j \in Coming(p, q) /\ Word(y) = Word(j)
      BY <3>1, <3>2, MailClaim DEF Coming, Word
    <3> QED
      BY <3>3 DEF Reach
  <2> QED
    BY <2>1, <2>2
<1>3. ASSUME NEW y \in Coming(p, q)' PROVE Word(y) \in Reach(p, q) \cup Back(p, q)'
  <2>1. y \in jobs'[p] /\ y.step = "deliver" /\ y.to = q
    BY <1>3 DEF Coming
  <2>2. CASE y \in jobs[p]
    <3>1. y \in Coming(p, q)
      BY <2>1, <2>2 DEF Coming
    <3> QED
      BY <3>1 DEF Reach, Word
  <2>3. CASE Takes(p)
    BY <2>1, <2>2, <2>3 DEF Takes, Job
  <2>4. ASSUME NEW j \in jobs[p], (\E k \in Jobs : Goes(p, j, k)) \/ Delivers(p, j)
        PROVE  FALSE
    <3>1. CASE \E k \in Jobs : Goes(p, j, k)
      <4>1. PICK k \in Jobs : Goes(p, j, k) /\ y = k
        BY <2>1, <3>1, AloneTurns
      <4> QED
        BY <2>1, <4>1 DEF Goes
    <3>2. CASE Delivers(p, j)
      BY <2>1, <3>2, AloneTurns
    <3> QED
      BY <2>4, <3>1, <3>2
  <2>5. ASSUME p \in Present, NEW j \in jobs[p], Echoes(p, j)
        PROVE  Word(y) \in Back(p, q)'
    <3>1. j \in Jobs
      BY JobType
    <3>2. y = [j EXCEPT !.step = "deliver"]
      BY <2>1, <2>5, AloneTurns
    <3>3. y.to = j.to /\ Word(y) = Word(j)
      BY <3>1, <3>2 DEF Jobs, Word
    <3>4. PICK m : Word(m) = Word(j) /\ m.to = j.to /\ m \in Flight(p, p)'
      BY <2>5, Sending
    <3> QED
      BY <2>1, <3>3, <3>4 DEF Back
  <2> QED
    BY <2>1, <2>2, <2>3, <2>4, <2>5, JobsOf DEF Works
<1>4. ASSUME NEW w \in Reach(p, q)' PROVE w \in Reach(p, q) \cup Back(p, q)'
  <2>1. PICK y \in ByOther(q, p)' \cup Flight(q, p)' \cup Coming(p, q)' : w = Word(y)
    BY DEF Reach, Word
  <2> QED
    BY <1>1, <1>2, <1>3, <2>1
<1> QED
  BY <1>4

\* The entry that an echo is matched with is the one it is about, and new to it.
LEMMA Answered ==
    ASSUME Types, NEW p \in People, NEW m \in Messages, Answers(p, m), Owed(p), Numbered(p), Distinct(p),
           NEW r \in People, NEW i \in OwnOf(log[p][r], m)
    PROVE  r = m.to /\ log[p][r][i].n = m.n /\ log[p][r][i].text = m.text /\ log[p][r][i].got = None
<1>1. Hears(p, m) /\ m.from = p
  BY DEF Answers
<1>2. PICK k \in DOMAIN log[p][m.to] :
        /\ log[p][m.to][k].mine /\ log[p][m.to][k].n = m.n /\ log[p][m.to][k].text = m.text
        /\ log[p][m.to][k].got = None
  BY <1>1, EchoOwed
<1>3. m.to \in People
  BY <1>1, EchoOwed
<1>4. i \in DOMAIN log[p][r] /\ log[p][r][i].mine /\ log[p][r][i].text = m.text
  BY DEF OwnOf
<1>5. log[p][r][i].n = log[p][m.to][k].n
  BY <1>2, <1>3, <1>4 DEF Distinct
<1>6. r = m.to /\ i = k
  BY <1>2, <1>3, <1>4, <1>5 DEF Numbered
<1> QED
  BY <1>2, <1>4, <1>6

LEMMA OwnIs ==
    ASSUME NEW p, NEW q, NEW w
    PROVE  w \in Own(p, q) <=> \E i \in DOMAIN log[p][q] :
                log[p][q][i].mine /\ log[p][q][i].got # None /\ w = Word(log[p][q][i])
BY DEF Own, Word

\* Translations that are shown stay.
LEMMA OwnStays ==
    ASSUME Types, Types', Kind, NEW p \in People, NEW q \in People, Owed(p), Numbered(p), Distinct(p)
    PROVE  Own(p, q) \subseteq Own(p, q)'
<1>1. ASSUME NEW w \in Own(p, q) PROVE w \in Own(p, q)'
  <2>1. PICK i \in DOMAIN log[p][q] :
          log[p][q][i].mine /\ log[p][q][i].got # None /\ w = Word(log[p][q][i])
    BY OwnIs
  <2>2. PICK e : e = log[p][q][i]
    OBVIOUS
  <2>3. PICK f : f = log'[p][q][i]
    OBVIOUS
  <2>4. i \in DOMAIN log'[p][q] /\ f.mine = e.mine /\ f.n = e.n /\ f.text = e.text
    BY <2>2, <2>3, ScreensGo DEF Screen, Continues
  <2>5. f.got = e.got
    <3>1. CASE Grows(log[p][q], log'[p][q])
      BY <2>2, <2>3, <3>1 DEF Grows
    <3>2. CASE Still(p)
      BY <3>1, <3>2 DEF Still
    <3>3. ASSUME NEW r \in Others(p), NEW text \in Texts, Writes(p, r, text)
          PROVE  Grows(log[p][q], log'[p][q])
      <4>1. Draft(p, text) \in Entries /\ r \in People
        BY DraftIs
      <4>2. log'[p][r] = Append(log[p][r], Draft(p, text)) /\ LogElse(p, r)
        BY <3>3 DEF Writes
      <4> QED
        BY <4>1, <4>2, Longer
    <3>4. ASSUME NEW m \in Messages, Shows(p, m)
          PROVE  Grows(log[p][q], log'[p][q])
      BY <3>4, ShownGrows
    <3>5. ASSUME NEW m \in Messages, Answers(p, m)
          PROVE  f = e
      <4>1. i \notin OwnOf(log[p][q], m)
        BY <2>1, <3>5, Answered
      <4>2. Updated(log[p][q], log'[p][q], m) \/ log'[p][q] = log[p][q]
        BY <3>5, AnswerLogs
      <4> QED
        BY <2>2, <2>3, <4>1, <4>2 DEF Updated
    <3> QED
      BY <3>1, <3>2, <3>3, <3>4, <3>5, Sides DEF Side
  <2>6. f.mine /\ f.got # None /\ w = Word(f)
    BY <2>1, <2>2, <2>4, <2>5 DEF Word
  <2> QED
    BY <2>3, <2>4, <2>6 DEF Own, Word
<1> QED
  BY <1>1

\* Those that are new came with an echo.
LEMMA OwnGains ==
    ASSUME Types, Types', Kind, NEW p \in People, NEW q \in People, Owed(p), Numbered(p), Distinct(p)
    PROVE  Own(p, q)' \subseteq Own(p, q) \cup Back(p, q)
<1>1. ASSUME NEW w \in Own(p, q)' PROVE w \in Own(p, q) \cup Back(p, q)
  <2>1. PICK i \in DOMAIN log'[p][q] :
          log'[p][q][i].mine /\ log'[p][q][i].got # None /\ w = Word(log'[p][q][i])
    BY DEF Own, Word
  <2>2. PICK f : f = log'[p][q][i]
    OBVIOUS
  <2>3. CASE i \in DOMAIN log[p][q] /\ Grows(log[p][q], log'[p][q])
    <3>1. /\ log[p][q][i].mine /\ log[p][q][i].got # None
          /\ w = Word(log[p][q][i])
      BY <2>1, <2>3 DEF Grows, Continues, Word
    <3> QED
      BY <2>3, <3>1, OwnIs
  <2>4. CASE Still(p)
    BY <2>1, <2>3, <2>4 DEF Still
  <2>5. ASSUME NEW r \in Others(p), NEW text \in Texts, Writes(p, r, text)
        PROVE  i \in DOMAIN log[p][q] /\ Grows(log[p][q], log'[p][q])
    <3>1. PICK e : e = Draft(p, text)
      OBVIOUS
    <3>2. e \in Entries /\ r \in People /\ e.got = None
      BY <3>1, DraftIs
    <3>3. log'[p][r] = Append(log[p][r], e) /\ LogElse(p, r)
      BY <2>5, <3>1 DEF Writes
    <3>4. Grows(log[p][q], log'[p][q]) /\ (i \in DOMAIN log[p][q] \/ log'[p][q][i] = e)
      BY <2>1, <3>2, <3>3, Longer
    <3> QED
      BY <2>1, <3>2, <3>4
  <2>6. ASSUME NEW m \in Messages, Shows(p, m)
        PROVE  i \in DOMAIN log[p][q] /\ Grows(log[p][q], log'[p][q])
    <3>1. PICK seen \in BOOLEAN : i \in DOMAIN log[p][q] \/ log'[p][q][i] = Theirs(m, seen)
      BY <2>1, <2>6, ShownGrows
    <3>2. ~Theirs(m, seen).mine
      BY DEF Theirs, Entry
    <3> QED
      BY <2>1, <2>6, <3>1, <3>2, ShownGrows
  <2>7. ASSUME NEW m \in Messages, Answers(p, m)
        PROVE  w \in Own(p, q) \cup Back(p, q)
    <3>1. PICK s \in Seq(Entries) : s = log[p][q]
      BY Typed
    <3>2. i \in DOMAIN s
      BY <2>7, <3>1, AnswerContinues
    <3>3. PICK e \in Entries : e = s[i]
      BY <3>1, <3>2
    <3>4. f = e \/ (i \in OwnOf(s, m) /\ f = [e EXCEPT !.got = m.got])
      <4>1. Updated(s, log'[p][q], m) \/ log'[p][q] = s
        BY <2>7, <3>1, AnswerLogs
      <4> QED
        BY <2>2, <3>2, <3>3, <4>1 DEF Updated
    <3>5. CASE f = e
      BY <2>1, <2>2, <3>1, <3>2, <3>3, <3>5, OwnIs
    <3>6. CASE i \in OwnOf(s, m) /\ f = [e EXCEPT !.got = m.got]
      <4>1. q = m.to /\ e.n = m.n /\ e.text = m.text
        BY <2>7, <3>1, <3>3, <3>6, Answered
      <4>2. f.n = m.n /\ f.text = m.text /\ f.got = m.got
        BY <3>6, <4>1 DEF Entries
      <4>3. m \in Flight(p, p)
        BY <2>7 DEF Answers, Hears, Flight, In
      <4>4. w = Word(m)
        BY <2>1, <2>2, <4>2 DEF Word
      <4> QED
        BY <4>1, <4>3, <4>4 DEF Back
    <3> QED
      BY <3>4, <3>5, <3>6
  <2> QED
    BY <2>3, <2>4, <2>5, <2>6, <2>7, Sides DEF Side
<1> QED
  BY <1>1

\* In a room an echo is shown with the message it is about.
LEMMA BackStays ==
    ASSUME Types, Types', Kind, Uncut', InRoom, NEW p \in People, NEW q \in People,
           Owed(p), Numbered(p), Distinct(p)
    PROVE  Back(p, q) \subseteq Back(p, q)' \cup Own(p, q)'
<1>1. ASSUME NEW c \in Flight(p, p), c.to = q PROVE Word(c) \in Back(p, q)' \cup Own(p, q)'
  <2>1. CASE c \in In(p)'
    <3>1. c \in Flight(p, p)'
      BY <2>1 DEF Flight, In
    <3> QED
      BY <1>1, <3>1 DEF Back, Word
  <2>2. CASE c \notin In(p)'
    <3>1. c \in In(p) /\ c.from = p
      BY <1>1 DEF Flight, In
    <3>2. PICK m \in Messages : Answers(p, m) \/ Shows(p, m)
      BY <2>2, <3>1, InLess
    <3>3. Hears(p, m)
      BY <3>2 DEF Answers, Shows
    <3>4. c = m
      BY <2>2, <3>1, <3>3 DEF Hears
    <3>5. PICK k \in DOMAIN log[p][m.to] :
            /\ log[p][m.to][k].mine /\ log[p][m.to][k].n = m.n /\ log[p][m.to][k].text = m.text
            /\ m.text \in pending[p]
      BY <3>1, <3>3, <3>4, EchoOwed
    <3>6. Answers(p, m)
      BY <3>1, <3>2, <3>4, <3>5 DEF Shows
    <3>7. Updated(log[p][q], log'[p][q], m)
      BY <1>1, <3>4, <3>6 DEF Answers
    <3>8. k \in OwnOf(log[p][q], m)
      BY <1>1, <3>4, <3>5 DEF OwnOf
    <3>9. PICK i \in OwnOf(log[p][q], m) : log'[p][q][i].got = m.got
      BY <3>7, <3>8 DEF Updated
    <3>10. log[p][q][i].n = m.n /\ log[p][q][i].text = m.text
      BY <3>6, <3>9, Answered
    <3>11. i \in DOMAIN log[p][q] /\ log[p][q][i].mine
      BY <3>9 DEF OwnOf
    <3>12. PICK f : f = log'[p][q][i]
      OBVIOUS
    <3>13. i \in DOMAIN log'[p][q] /\ f.mine /\ f.n = m.n /\ f.text = m.text /\ f.got = m.got
      BY <3>9, <3>10, <3>11, <3>12, ScreensGo DEF Screen, Continues
    <3>14. m.got # None
      BY <3>3, NoneAssumption DEF Hears, Got, ToClient
    <3>15. Word(f) = Word(m) /\ Word(f) \in Own(p, q)'
      BY <3>12, <3>13, <3>14 DEF Own, Word
    <3> QED
      BY <3>4, <3>15
  <2> QED
    BY <2>1, <2>2
<1> QED
  BY <1>1 DEF Back, Word

Match(p, q) ==
    Uncut =>
        /\ Carried(p, q)
        /\ Distinct(p) => Own(p, q) \subseteq Reach(p, q)
        /\ Distinct(p) /\ InRoom => Reach(p, q) \subseteq Own(p, q) \cup Back(p, q)

LEMMA MatchStep ==
    ASSUME Types, Types', Setting, Kind, Calm, Uncut' => Uncut, NEW p \in People, NEW q \in People, p # q,
           Owed(p), Numbered(p), Signed(q), Match(p, q)
    PROVE  Match(p, q)'
<1>1. SUFFICES ASSUME Uncut'
               PROVE  /\ Carried(p, q)'
                      /\ Distinct(p)' => Own(p, q)' \subseteq Reach(p, q)'
                      /\ Distinct(p)' /\ InRoom => Reach(p, q)' \subseteq Own(p, q)' \cup Back(p, q)'
  BY DEF Match, Setting
<1>2. Uncut /\ Carried(p, q)
  BY <1>1 DEF Match
<1>3. Carried(p, q)'
  BY <1>1, <1>2, CarriedStep
<1>4. Reach(p, q) \subseteq Reach(p, q)'
  BY <1>1, <1>2, ReachStays
<1>5. Distinct(p)' => Distinct(p)
  BY ScreensGo, DistinctWas
<1>6. ASSUME Distinct(p)' PROVE Own(p, q)' \subseteq Reach(p, q)'
  <2>1. Own(p, q)' \subseteq Own(p, q) \cup Back(p, q)
    BY <1>5, <1>6, OwnGains
  <2>2. Own(p, q) \subseteq Reach(p, q) /\ Back(p, q) \subseteq Reach(p, q)
    BY <1>2, <1>5, <1>6 DEF Match, Carried
  <2> QED
    BY <1>4, <2>1, <2>2
<1>7. ASSUME Distinct(p)', InRoom PROVE Reach(p, q)' \subseteq Own(p, q)' \cup Back(p, q)'
  <2>1. Reach(p, q)' \subseteq Reach(p, q) \cup Back(p, q)'
    BY <1>2, <1>7, ReachGains
  <2>2. Reach(p, q) \subseteq Own(p, q) \cup Back(p, q)
    BY <1>2, <1>5, <1>7 DEF Match
  <2>3. Own(p, q) \subseteq Own(p, q)'
    BY <1>5, <1>7, OwnStays
  <2>4. Back(p, q) \subseteq Back(p, q)' \cup Own(p, q)'
    BY <1>1, <1>5, <1>7, BackStays
  <2> QED
    BY <2>1, <2>2, <2>3, <2>4
<1> QED
  BY <1>3, <1>6, <1>7

Matching == Calm /\ \A p, q \in People : p # q => Match(p, q)

LEMMA MatchInit == Init => Matching
<1> SUFFICES ASSUME Init PROVE Matching
  OBVIOUS
<1>1. Calm
  <2>1. \A p \in Present : p \in People
    BY Init1, InPeople
  <2> QED
    BY <2>1 DEF Init, Calm, Alone
<1>2. ASSUME NEW p \in People, NEW q \in People, p # q PROVE Match(p, q)
  <2>1. Flight(p, p) = {} /\ Flight(q, p) = {} /\ jobs[p] = {} /\ log[p][q] = <<>> /\ log[q][p] = <<>>
    BY NothingYet
  <2>2. Back(p, q) = {} /\ Said(p, q) = {} /\ Own(p, q) = {} /\ Reach(p, q) = {}
    BY <2>1 DEF Back, Said, Own, Reach, ByOther, By, Coming, Word
  <2> QED
    BY <2>2 DEF Match, Carried
<1> QED
  BY <1>1, <1>2 DEF Matching

LEMMA MatchedStep ==
    Orderly /\ Orderly' /\ Echoed /\ Filed /\ Matching /\ [Next]_vars => Matching'
<1> SUFFICES ASSUME Orderly, Orderly', Echoed, Filed, Matching, [Next]_vars PROVE Matching'
  OBVIOUS
<1>1. Types /\ Types' /\ Setting /\ Kind
  BY Settled, Kinds DEF Orderly
<1>2. Calm /\ Calm' /\ (Uncut' => Uncut)
  BY CalmStep DEF Matching
<1>3. ASSUME NEW p \in People, NEW q \in People, p # q PROVE Match(p, q)'
  <2>1. Owed(p) /\ Numbered(p) /\ Signed(q) /\ Match(p, q)
    BY <1>3 DEF Echoed, Filed, Matching
  <2> QED
    BY <1>1, <1>2, <1>3, <2>1, MatchStep
<1> QED
  BY <1>2, <1>3 DEF Matching

LEMMA MatchedHolds == Spec => [](Types /\ Matching)
BY MatchInit, MatchedStep, FlowHolds, EchoedHolds, FiledHolds, PTL DEF Spec

LEMMA WordsAgree ==
    ASSUME Types, Matching, Quiet, Uncut, NEW p \in Present, NEW q \in Present, p # q, Distinct(p)
    PROVE  /\ Own(p, q) \subseteq {Word(x) : x \in ByOther(q, p)}
           /\ InRoom => {Word(x) : x \in ByOther(q, p)} \subseteq Own(p, q)
<1>1. p \in People /\ q \in People
  BY InPeople
<1>2. toClient[p] = <<>> /\ toClient[q] = <<>> /\ jobs[p] = {}
  BY <1>1 DEF Quiet
<1>3. Flight(p, p) = {} /\ Flight(q, p) = {} /\ Coming(p, q) = {}
  BY <1>2, ChatsNone DEF Flight, Coming
<1>4. Back(p, q) = {} /\ Reach(p, q) = {Word(x) : x \in ByOther(q, p)}
  BY <1>3 DEF Back, Reach, Word
<1>5. Match(p, q)
  BY <1>1 DEF Matching
<1> QED
  BY <1>4, <1>5 DEF Match

\* When all is done, an echoed message is on the screen of the other one with the
\* same mark, and in a room nothing else is, unless a connection was lost.
THEOREM EchoesTell == Spec => []EchoMeansShown
<1>1. Types /\ Matching => EchoMeansShown
  <2> SUFFICES ASSUME Types, Matching, Quiet, Uncut, NEW p \in Present, NEW q \in Present, p # q, Distinct(p)
               PROVE  /\ \A e \in Range(log[p][q]) : e.mine /\ e.got # None =>
                            \E f \in Range(log[q][p]) :
                                f.by = p /\ e.n = f.n /\ e.text = f.text /\ e.got = f.got
                      /\ InRoom => \A f \in Range(log[q][p]) : f.by = p =>
                            \E e \in Range(log[p][q]) :
                                e.mine /\ e.got # None /\ e.n = f.n /\ e.text = f.text /\ e.got = f.got
    BY DEF EchoMeansShown
  <2>1. /\ Own(p, q) \subseteq {Word(x) : x \in ByOther(q, p)}
        /\ InRoom => {Word(x) : x \in ByOther(q, p)} \subseteq Own(p, q)
    BY WordsAgree
  <2>2. ASSUME NEW e \in Range(log[p][q]), e.mine, e.got # None
        PROVE  \E f \in Range(log[q][p]) : f.by = p /\ e.n = f.n /\ e.text = f.text /\ e.got = f.got
    <3>1. Word(e) \in Own(p, q)
      BY <2>2 DEF Range, Own, Word
    <3>2. PICK f \in ByOther(q, p) : Word(e) = Word(f)
      BY <2>1, <3>1
    <3>3. f \in Range(log[q][p]) /\ f.by = p
      BY DEF ByOther, By, Range
    <3> QED
      BY <3>2, <3>3 DEF Word
  <2>3. ASSUME InRoom, NEW f \in Range(log[q][p]), f.by = p
        PROVE  \E e \in Range(log[p][q]) :
                  e.mine /\ e.got # None /\ e.n = f.n /\ e.text = f.text /\ e.got = f.got
    <3>1. f \in ByOther(q, p)
      BY <2>3 DEF ByOther, By, Range
    <3>2. Word(f) \in Own(p, q)
      BY <2>1, <2>3, <3>1
    <3>3. PICK i \in DOMAIN log[p][q] :
            log[p][q][i].mine /\ log[p][q][i].got # None /\ Word(f) = Word(log[p][q][i])
      BY <3>2, OwnIs
    <3> QED
      BY <3>3 DEF Range, Word
  <2> QED
    BY <2>2, <2>3
<1> QED
  BY <1>1, MatchedHolds, PTL
===============================================================================
