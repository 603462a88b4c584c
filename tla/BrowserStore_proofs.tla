-------------------------- MODULE BrowserStore_proofs --------------------------
(***************************************************************************)
(* The conversation history and the chats of a browser stay together, and  *)
(* pages join by themselves only where they may, for any number of tabs,   *)
(* rooms, entries and messages.                                            *)
(***************************************************************************)
EXTENDS BrowserStore, SequenceTheorems, TLAPS

Entry == [code : Codes, count : 0..MaxMsgs]

OnceEach(s) == \A i, j \in 1..Len(s) : s[i].code = s[j].code => i = j

\* TypeOK in two parts: what the tabs share, and what each has for itself.
StoreOK ==
    /\ history \in Seq(Entry) /\ OnceEach(history)
    /\ chats \in [Codes -> 0..MaxMsgs] /\ torn \subseteq Codes

TabsOK ==
    /\ page \in [Tabs -> Pages]
    /\ session \in [Tabs -> [flag : BOOLEAN, room : Codes \cup {None}]]
    /\ own \in [Tabs -> Codes \cup {None}] /\ called \subseteq Tabs
    /\ calls \in [Tabs -> SUBSET Codes]

LEMMA TypeParts == TypeOK <=> StoreOK /\ Len(history) <= MAX_ENTRIES /\ TabsOK
BY DEF TypeOK, StoreOK, TabsOK, Entry, OnceEach

\* A session without the marks of a lobby call is for the room that was entered
\* last; the marks are set in a tab that showed the page of a call since it was at
\* home, and the state of a call belongs to a room the tab was called to; a page of
\* a room or of a conversation has a code.
Marks ==
    \A t \in Tabs :
        /\ ~session[t].flag => session[t].room \in {None, own[t]}
        /\ session[t].flag \/ page[t].call => t \in called
        /\ page[t].call => page[t].code \in calls[t]
        /\ page[t].at \in {"room", "history"} \/ page[t].phase # "none" => page[t].code # None

IInv == TypeOK /\ CountRight /\ NoOrphans /\ Marks /\ JoinsByRight

-----------------------------------------------------------------------------
(* The list                                                                *)

\* A sequence without its i-th element.
LEMMA Removed ==
    ASSUME NEW S, NEW s \in Seq(S), NEW i \in 1..Len(s)
    PROVE  LET r == SubSeq(s, 1, i - 1) \o SubSeq(s, i + 1, Len(s))
           IN  /\ r \in Seq(S) /\ Len(r) = Len(s) - 1
               /\ \A j \in 1..(Len(s) - 1) : r[j] = IF j < i THEN s[j] ELSE s[j + 1]
<1> DEFINE a == SubSeq(s, 1, i - 1)
           b == SubSeq(s, i + 1, Len(s))
<1>1. a \in Seq(S) /\ Len(a) = i - 1 /\ \A j \in 1..(i - 1) : a[j] = s[j]
  BY SubSeqProperties
<1>2. b \in Seq(S) /\ Len(b) = Len(s) - i /\ \A j \in 1..(Len(s) - i) : b[j] = s[j + i]
  BY SubSeqProperties
<1>3. Len(s) \in Nat /\ i \in Nat /\ 1 <= i /\ i <= Len(s)
  OBVIOUS
<1> HIDE DEF a, b
<1>4. a \o b \in Seq(S) /\ Len(a \o b) = Len(a) + Len(b)
  BY <1>1, <1>2, ConcatProperties
<1>5. Len(a) + Len(b) = Len(s) - 1
  BY <1>1, <1>2, <1>3
<1>6. ASSUME NEW j \in 1..(Len(s) - 1)
      PROVE  (a \o b)[j] = IF j < i THEN s[j] ELSE s[j + 1]
  <2>1. (a \o b)[j] = IF j <= Len(a) THEN a[j] ELSE b[j - Len(a)]
    BY <1>1, <1>2, <1>5, ConcatProperties
  <2>2. CASE j < i
    BY <1>1, <1>3, <2>1, <2>2
  <2>3. CASE ~(j < i)
    <3> DEFINE k == j - (i - 1)
    <3>1. k \in 1..(Len(s) - i) /\ k + i = j + 1
      BY <1>3, <2>3
    <3>2. (a \o b)[j] = b[k]
      BY <1>1, <1>3, <2>1, <2>3
    <3> HIDE DEF k
    <3> QED
      BY <1>2, <2>3, <3>1, <3>2
  <2> QED
    BY <2>2, <2>3
<1>7. /\ a \o b \in Seq(S) /\ Len(a \o b) = Len(s) - 1
      /\ \A j \in 1..(Len(s) - 1) : (a \o b)[j] = IF j < i THEN s[j] ELSE s[j + 1]
  BY <1>4, <1>5, <1>6
<1> QED
  BY <1>7 DEF a, b

\* What is left of the list without a code: the other entries, each once.
LEMMA WithoutProperties ==
    ASSUME StoreOK, NEW code \in Codes
    PROVE  /\ Without(code) \in Seq(Entry) /\ OnceEach(Without(code))
           /\ Len(Without(code)) <= Len(history)
           /\ \A i \in 1..Len(Without(code)) :
                /\ Without(code)[i].code # code
                /\ \E j \in 1..Len(history) : Without(code)[i] = history[j]
           /\ \A j \in 1..Len(history) : history[j].code # code =>
                \E i \in 1..Len(Without(code)) : Without(code)[i] = history[j]
<1> DEFINE w == Without(code)
<1>0. history \in Seq(Entry) /\ OnceEach(history) /\ Len(history) \in Nat
  BY DEF StoreOK
<1>1. CASE ~Listed(code)
  <2>1. w = history
    BY <1>1 DEF Without
  <2>2. \A j \in 1..Len(history) : history[j].code # code
    BY <1>1 DEF Listed, IndexOf
  <2> HIDE DEF w
  <2>3. w \in Seq(Entry) /\ OnceEach(w) /\ Len(w) <= Len(history)
    BY <1>0, <2>1
  <2> QED
    BY <2>1, <2>2, <2>3 DEF w
<1>2. CASE Listed(code)
  <2> DEFINE i == CHOOSE k \in IndexOf(code) : TRUE
  <2>1. i \in IndexOf(code)
    BY <1>2 DEF Listed
  <2>2. i \in 1..Len(history) /\ history[i].code = code
    BY <2>1 DEF IndexOf
  <2>3. w = SubSeq(history, 1, i - 1) \o SubSeq(history, i + 1, Len(history))
    BY <1>2 DEF Without
  <2> HIDE DEF w, i
  <2>4. /\ w \in Seq(Entry) /\ Len(w) = Len(history) - 1
        /\ \A j \in 1..Len(w) : w[j] = IF j < i THEN history[j] ELSE history[j + 1]
    BY <1>0, <2>2, <2>3, Removed
  <2> DEFINE at(j) == IF j < i THEN j ELSE j + 1
  <2>5. ASSUME NEW j \in 1..Len(w)
        PROVE  at(j) \in 1..Len(history) /\ at(j) # i /\ w[j] = history[at(j)]
    BY <1>0, <2>2, <2>4
  <2>6. ASSUME NEW j \in 1..Len(w) PROVE w[j].code # code
    BY <1>0, <2>2, <2>5 DEF OnceEach
  <2>7. OnceEach(w)
    <3>1. ASSUME NEW j \in 1..Len(w), NEW k \in 1..Len(w), w[j].code = w[k].code PROVE j = k
      <4>1. at(j) = at(k)
        BY <1>0, <2>5, <3>1 DEF OnceEach
      <4> QED
        BY <2>2, <2>4, <4>1
    <3> QED
      BY <3>1 DEF OnceEach
  <2>8. ASSUME NEW j \in 1..Len(history), history[j].code # code
        PROVE  \E k \in 1..Len(w) : w[k] = history[j]
    <3>1. j # i
      BY <2>2, <2>8
    <3>2. CASE j < i
      <4>1. j \in 1..Len(w) /\ w[j] = history[j]
        BY <1>0, <2>2, <2>4, <3>2
      <4> QED
        BY <4>1
    <3>3. CASE j > i
      <4>1. j - 1 \in 1..Len(w) /\ ~(j - 1 < i) /\ (j - 1) + 1 = j
        BY <1>0, <2>2, <2>4, <3>3
      <4>2. w[j - 1] = history[j]
        BY <2>4, <4>1
      <4> QED
        BY <4>1, <4>2
    <3> QED
      BY <1>0, <2>2, <3>1, <3>2, <3>3
  <2>9. \A j \in 1..Len(w) : w[j].code # code /\ \E k \in 1..Len(history) : w[j] = history[k]
    BY <2>5, <2>6
  <2>10. Len(w) <= Len(history)
    BY <1>0, <2>4
  <2> QED
    BY <2>4, <2>7, <2>8, <2>9, <2>10 DEF w
<1> QED
  BY <1>1, <1>2

Linked == CountRight /\ NoOrphans
Limit == Len(history) <= MAX_ENTRIES

\* The entry in front of the others, and the list cut to its limit.
LEMMA AddProperties ==
    ASSUME StoreOK, Linked, NEW code \in Codes, AddRoomHistory(code), UNCHANGED chats
    PROVE  StoreOK' /\ Limit' /\ Linked'
<1> DEFINE w == Without(code)
           e == [code |-> code, count |-> Count(code)]
           all == <<e>> \o w
           n == IF Len(all) < MAX_ENTRIES THEN Len(all) ELSE MAX_ENTRIES
<1>1. /\ w \in Seq(Entry) /\ OnceEach(w)
      /\ \A i \in 1..Len(w) : w[i].code # code /\ \E j \in 1..Len(history) : w[i] = history[j]
      /\ \A j \in 1..Len(history) : history[j].code # code => \E i \in 1..Len(w) : w[i] = history[j]
  BY WithoutProperties
<1>2. e \in Entry
  <2>1. CASE Listed(code)
    <3> DEFINE j == CHOOSE i \in IndexOf(code) : TRUE
    <3>1. j \in 1..Len(history)
      BY <2>1 DEF Listed, IndexOf
    <3>2. Count(code) = history[j].count
      BY <2>1 DEF Count
    <3> HIDE DEF j
    <3>3. history[j] \in Entry
      BY <3>1 DEF StoreOK
    <3>4. Count(code) \in 0..MaxMsgs
      BY <3>2, <3>3 DEF Entry
    <3> QED
      BY <3>4 DEF Entry
  <2>2. CASE ~Listed(code)
    BY <2>2, BrowserStoreAssumption DEF Count, Entry
  <2> QED
    BY <2>1, <2>2
<1>3. /\ history' = SubSeq(all, 1, n)
      /\ torn' = torn \cup {c \in {all[i].code : i \in (MAX_ENTRIES + 1)..Len(all)} : chats[c] > 0}
  BY DEF AddRoomHistory, Cut
<1>4. e.code = code /\ e.count = Count(code)
  OBVIOUS
<1> HIDE DEF w, e
<1>5. /\ all \in Seq(Entry) /\ Len(all) = Len(w) + 1 /\ Len(w) \in Nat
      /\ all[1] = e /\ \A i \in 1..Len(w) : all[i + 1] = w[i]
  <2>1. <<e>> \in Seq(Entry) /\ Len(<<e>>) = 1 /\ <<e>>[1] = e
    BY <1>2
  <2>2. /\ all \in Seq(Entry) /\ Len(all) = 1 + Len(w)
        /\ \A i \in 1..(1 + Len(w)) : all[i] = IF i <= 1 THEN <<e>>[i] ELSE w[i - 1]
    BY <1>1, <2>1, ConcatProperties
  <2>3. Len(w) \in Nat
    BY <1>1
  <2> HIDE DEF all
  <2>4. all[1] = e
    BY <2>1, <2>2, <2>3
  <2>5. ASSUME NEW i \in 1..Len(w) PROVE all[i + 1] = w[i]
    <3>1. i + 1 \in 1..(1 + Len(w)) /\ ~(i + 1 <= 1) /\ (i + 1) - 1 = i
      BY <2>3
    <3> QED
      BY <2>2, <3>1
  <2> QED
    BY <2>2, <2>3, <2>4, <2>5
<1> HIDE DEF all
<1>6. MAX_ENTRIES \in Nat /\ MAX_ENTRIES >= 1 /\ n \in 1..Len(all) /\ n <= MAX_ENTRIES
      /\ (n = Len(all) \/ n = MAX_ENTRIES)
  BY <1>5, BrowserStoreAssumption
<1> HIDE DEF n
<1>7. /\ history' \in Seq(Entry) /\ Len(history') = n
      /\ \A i \in 1..n : history'[i] = all[i]
  <2>1. \A i \in 1..n : all[i] \in Entry
    BY <1>5, <1>6
  <2>2. /\ SubSeq(all, 1, n) \in Seq(Entry) /\ Len(SubSeq(all, 1, n)) = n
        /\ \A i \in 1..n : SubSeq(all, 1, n)[i] = all[i]
    BY <1>6, <2>1, SubSeqProperties
  <2> QED
    BY <1>3, <2>2
\* The entries of the list are the new one and some of the others.
<1>8. ASSUME NEW i \in 1..n
      PROVE  \/ i = 1 /\ history'[i] = e
             \/ i > 1 /\ i - 1 \in 1..Len(w) /\ history'[i] = w[i - 1]
  <2>1. CASE i = 1
    BY <1>5, <1>7, <2>1
  <2>2. CASE i # 1
    <3>1. i > 1 /\ i - 1 \in 1..Len(w) /\ (i - 1) + 1 = i
      BY <1>5, <1>6, <2>2
    <3>2. all[i] = w[i - 1]
      BY <1>5, <3>1
    <3> QED
      BY <1>7, <3>1, <3>2
  <2> QED
    BY <2>1, <2>2
<1>9. OnceEach(history')
  <2>1. ASSUME NEW i \in 1..n, NEW j \in 1..n, history'[i].code = history'[j].code PROVE i = j
    <3>1. CASE i = 1
      BY <1>1, <1>4, <1>8, <2>1, <3>1
    <3>2. CASE j = 1
      BY <1>1, <1>4, <1>8, <2>1, <3>2
    <3>3. CASE i # 1 /\ j # 1
      <4>1. i - 1 \in 1..Len(w) /\ history'[i] = w[i - 1]
        BY <1>8, <3>3
      <4>2. j - 1 \in 1..Len(w) /\ history'[j] = w[j - 1]
        BY <1>8, <3>3
      <4>3. i - 1 = j - 1
        BY <1>1, <2>1, <4>1, <4>2 DEF OnceEach
      <4> QED
        BY <4>3, <1>6
    <3> QED
      BY <3>1, <3>2, <3>3
  <2> QED
    BY <1>7, <2>1 DEF OnceEach
<1>10. torn' \subseteq Codes
  <2>1. \A i \in (MAX_ENTRIES + 1)..Len(all) : all[i] \in Entry
    BY <1>5, <1>6
  <2> QED
    BY <1>3, <2>1 DEF StoreOK, Entry
<1>11. StoreOK' /\ Limit'
  BY <1>6, <1>7, <1>9, <1>10 DEF StoreOK, Limit
<1>12. CountRight'
  <2>1. ASSUME NEW i \in 1..n, history'[i].code \notin torn'
        PROVE  history'[i].count = chats[history'[i].code]
    <3>0. torn \subseteq torn'
      BY <1>3
    <3>1. CASE i = 1
      <4>1. history'[i].code = code /\ history'[i].count = Count(code) /\ code \notin torn
        BY <1>4, <1>8, <2>1, <3>0, <3>1
      <4>2. CASE Listed(code)
        <5> DEFINE j == CHOOSE k \in IndexOf(code) : TRUE
        <5>1. j \in 1..Len(history) /\ history[j].code = code
          BY <4>2 DEF Listed, IndexOf
        <5>2. Count(code) = history[j].count
          BY <4>2 DEF Count
        <5> HIDE DEF j
        <5> QED
          BY <4>1, <5>1, <5>2 DEF Linked, CountRight
      <4>3. CASE ~Listed(code)
        <5>1. ~(chats[code] > 0) /\ chats[code] \in Nat
          BY <4>1, <4>3, BrowserStoreAssumption DEF Linked, NoOrphans, StoreOK
        <5>2. Count(code) = 0
          BY <4>3 DEF Count
        <5> QED
          BY <4>1, <5>1, <5>2
      <4> QED
        BY <4>2, <4>3
    <3>2. CASE i # 1
      <4>1. PICK j \in 1..Len(history) : history'[i] = history[j]
        BY <1>1, <1>8, <3>2
      <4> QED
        BY <2>1, <3>0, <4>1 DEF Linked, CountRight
    <3> QED
      BY <3>1, <3>2
  <2> QED
    BY <1>7, <2>1 DEF CountRight
<1>13. NoOrphans'
  <2>1. ASSUME NEW c \in Codes, chats[c] > 0, c \notin torn'
        PROVE  \E i \in 1..n : history'[i].code = c
    <3>1. CASE c = code
      BY <1>4, <1>6, <1>8, <3>1
    <3>2. CASE c # code
      <4>1. Listed(c)
        BY <1>3, <2>1 DEF Linked, NoOrphans
      <4>2. PICK j \in 1..Len(history) : history[j].code = c
        BY <4>1 DEF Listed, IndexOf
      <4>3. PICK i \in 1..Len(w) : w[i] = history[j]
        BY <1>1, <3>2, <4>2
      <4>4. all[i + 1].code = c /\ i + 1 \in 1..Len(all)
        BY <1>5, <4>2, <4>3
      <4>5. i + 1 <= n
        <5> SUFFICES ASSUME ~(i + 1 <= n) PROVE FALSE
          OBVIOUS
        <5>1. i + 1 \in (MAX_ENTRIES + 1)..Len(all)
          BY <1>5, <1>6, <4>4
        <5>2. c \in torn'
          BY <1>3, <2>1, <4>4, <5>1
        <5> QED
          BY <2>1, <5>2
      <4>6. i + 1 \in 1..n
        BY <1>6, <4>4, <4>5
      <4> QED
        BY <1>7, <4>4, <4>6
    <3> QED
      BY <3>1, <3>2
  <2> QED
    BY <1>7, <2>1 DEF NoOrphans, Listed, IndexOf
<1> QED
  BY <1>11, <1>12, <1>13 DEF Linked

\* The other writers of the list and of the chats.
LEMMA ClearProperties ==
    ASSUME StoreOK, Linked, ClearRoomHistory
    PROVE  StoreOK' /\ Limit' /\ Linked'
<1>1. history' = <<>> /\ Len(history') = 0 /\ history' \in Seq(Entry)
  BY DEF ClearRoomHistory
<1>2. OnceEach(history') /\ Limit' /\ CountRight'
  BY <1>1, BrowserStoreAssumption DEF OnceEach, Limit, CountRight
<1>3. chats' \in [Codes -> 0..MaxMsgs] /\ torn' \subseteq Codes
  BY BrowserStoreAssumption DEF ClearRoomHistory, StoreOK
<1>4. ASSUME NEW c \in Codes, chats'[c] > 0, c \notin torn' PROVE FALSE
  <2>1. ~Listed(c) /\ chats[c] > 0
    BY <1>4 DEF ClearRoomHistory
  <2>2. c \notin torn
    BY <1>4, <2>1 DEF ClearRoomHistory
  <2> QED
    BY <2>1, <2>2 DEF Linked, NoOrphans
<1>5. NoOrphans'
  BY <1>4 DEF NoOrphans
<1> QED
  BY <1>1, <1>2, <1>3, <1>5 DEF StoreOK, Linked

LEMMA DeleteProperties ==
    ASSUME StoreOK, Limit, Linked, NEW code \in Codes, DeleteRoomHistoryEntry(code)
    PROVE  StoreOK' /\ Limit' /\ Linked'
<1> DEFINE w == Without(code)
<1>1. /\ w \in Seq(Entry) /\ OnceEach(w) /\ Len(w) <= Len(history)
      /\ \A i \in 1..Len(w) : w[i].code # code /\ \E j \in 1..Len(history) : w[i] = history[j]
      /\ \A j \in 1..Len(history) : history[j].code # code => \E i \in 1..Len(w) : w[i] = history[j]
  BY WithoutProperties
<1>2. history' = w /\ chats' = [chats EXCEPT ![code] = 0] /\ torn' = torn \ {code}
  BY DEF DeleteRoomHistoryEntry
<1> HIDE DEF w
<1>3. StoreOK'
  BY <1>1, <1>2, BrowserStoreAssumption DEF StoreOK
<1>4. Limit'
  <2>1. Len(w) \in Nat /\ Len(history) \in Nat
    BY <1>1 DEF StoreOK
  <2> QED
    BY <1>1, <1>2, <2>1, BrowserStoreAssumption DEF Limit
<1>5. CountRight'
  <2>1. ASSUME NEW i \in 1..Len(w), w[i].code \notin torn'
        PROVE  w[i].count = chats'[w[i].code]
    <3>1. PICK j \in 1..Len(history) : w[i] = history[j]
      BY <1>1
    <3>2. w[i].code # code /\ w[i].code \notin torn /\ w[i].code \in Codes
      <4>1. w[i] \in Entry
        BY <1>1
      <4>2. w[i].code \in Codes
        BY <4>1 DEF Entry
      <4> QED
        BY <1>1, <1>2, <2>1, <4>2
    <3>3. history[j].count = chats[history[j].code]
      BY <3>1, <3>2 DEF Linked, CountRight
    <3> QED
      BY <1>2, <3>1, <3>2, <3>3 DEF StoreOK
  <2> QED
    BY <1>2, <2>1 DEF CountRight
<1>6. NoOrphans'
  <2>1. ASSUME NEW c \in Codes, chats'[c] > 0, c \notin torn' PROVE \E i \in 1..Len(w) : w[i].code = c
    <3>1. c # code /\ chats[c] > 0 /\ c \notin torn
      BY <1>2, <2>1 DEF StoreOK
    <3>2. PICK j \in 1..Len(history) : history[j].code = c
      BY <3>1 DEF Linked, NoOrphans, Listed, IndexOf
    <3> QED
      BY <1>1, <3>1, <3>2
  <2> QED
    BY <1>2, <2>1 DEF NoOrphans, Listed, IndexOf
<1> QED
  BY <1>3, <1>4, <1>5, <1>6 DEF Linked

\* A chat of n messages is saved, or not, and its entry counts n.
LEMMA UpdateProperties ==
    ASSUME StoreOK, Limit, Linked, NEW code \in Codes, NEW n \in 0..MaxMsgs,
           UpdateRoomHistory(code, n), NEW full \in BOOLEAN,
           chats' = IF full THEN chats ELSE [chats EXCEPT ![code] = n],
           torn' = IF Listed(code) /\ ~full THEN torn \ {code} ELSE torn \cup {code}
    PROVE  StoreOK' /\ Limit' /\ Linked'
<1>0. history \in Seq(Entry) /\ Len(history) \in Nat
  BY DEF StoreOK
<1>1. ASSUME NEW i \in 1..Len(history)
      PROVE  /\ history[i] \in Entry
             /\ history'[i] = IF history[i].code = code THEN [history[i] EXCEPT !.count = n]
                              ELSE history[i]
             /\ history'[i] \in Entry /\ history'[i].code = history[i].code
  <2>1. history[i] \in Entry
    BY <1>0
  <2>2. history'[i] = IF history[i].code = code THEN [history[i] EXCEPT !.count = n]
                      ELSE history[i]
    BY DEF UpdateRoomHistory
  <2> QED
    BY <2>1, <2>2 DEF Entry
<1>2. history' \in Seq(Entry) /\ Len(history') = Len(history)
  <2>1. history' \in [1..Len(history) -> Entry]
    <3>1. history' = [i \in 1..Len(history) |-> history'[i]]
      BY DEF UpdateRoomHistory
    <3> QED
      BY <1>1, <3>1
  <2>2. history' \in Seq(Entry)
    BY <1>0, <2>1, IsASeq
  <2> QED
    BY <1>0, <2>1, <2>2, LenProperties
<1>3. OnceEach(history')
  BY <1>1, <1>2 DEF StoreOK, OnceEach
<1>4. StoreOK' /\ Limit'
  BY <1>2, <1>3 DEF StoreOK, Limit
<1>5. CountRight'
  <2>1. ASSUME NEW i \in 1..Len(history), history'[i].code \notin torn'
        PROVE  history'[i].count = chats'[history'[i].code]
    <3>1. CASE history[i].code = code
      <4>1. ~full
        BY <1>1, <2>1, <3>1
      <4>2. history'[i].count = n /\ chats'[code] = n
        BY <1>1, <3>1, <4>1 DEF StoreOK, Entry
      <4> QED
        BY <1>1, <3>1, <4>2
    <3>2. CASE history[i].code # code
      <4>1. history[i].code \notin torn /\ history'[i] = history[i]
        BY <1>1, <2>1, <3>2
      <4>2. history[i].count = chats[history[i].code]
        BY <4>1 DEF Linked, CountRight
      <4>3. chats'[history[i].code] = chats[history[i].code]
        BY <3>2 DEF StoreOK
      <4> QED
        BY <4>1, <4>2, <4>3
    <3> QED
      BY <3>1, <3>2
  <2> QED
    BY <1>2, <2>1 DEF CountRight
<1>6. NoOrphans'
  <2>1. ASSUME NEW c \in Codes, chats'[c] > 0, c \notin torn' PROVE Listed(c)
    <3>1. CASE c = code
      BY <2>1, <3>1
    <3>2. CASE c # code
      <4>1. chats[c] > 0 /\ c \notin torn
        BY <2>1, <3>2 DEF StoreOK
      <4> QED
        BY <4>1 DEF Linked, NoOrphans
    <3> QED
      BY <3>1, <3>2
  <2>2. ASSUME NEW c \in Codes, Listed(c) PROVE Listed(c)'
    <3>1. PICK i \in 1..Len(history) : history[i].code = c
      BY <2>2 DEF Listed, IndexOf
    <3> QED
      BY <1>1, <1>2, <3>1 DEF Listed, IndexOf
  <2> QED
    BY <2>1, <2>2 DEF NoOrphans
<1> QED
  BY <1>4, <1>5, <1>6 DEF Linked

LEMMA SameStore ==
    ASSUME StoreOK, Limit, Linked, UNCHANGED <<history, chats, torn>>
    PROVE  StoreOK' /\ Limit' /\ Linked'
BY DEF StoreOK, Limit, Linked, CountRight, NoOrphans, Listed, IndexOf

-----------------------------------------------------------------------------
(* The tabs                                                                *)

\* What Marks and JoinsByRight say of one tab.
Right(t) ==
    /\ ~session[t].flag => session[t].room \in {None, own[t]}
    /\ session[t].flag \/ page[t].call => t \in called
    /\ page[t].call => page[t].code \in calls[t]
    /\ page[t].at \in {"room", "history"} \/ page[t].phase # "none" => page[t].code # None
    /\ page[t].by = "session" /\ page[t].phase # "error" => page[t].code = own[t]
    /\ page[t].by = "flag" => t \in called /\ (page[t].call => page[t].code \in calls[t])

LEMMA RightParts == Marks /\ JoinsByRight <=> \A t \in Tabs : Right(t)
BY DEF Marks, JoinsByRight, Right

\* An action of one tab leaves the others as they are.
LEMMA OneTab ==
    ASSUME NEW t \in Tabs, \A u \in Tabs : Right(u), Right(t)',
           \A u \in Tabs \ {t} :
                /\ page'[u] = page[u] /\ session'[u] = session[u] /\ own'[u] = own[u]
                /\ (u \in called' <=> u \in called) /\ calls'[u] = calls[u]
    PROVE  (\A u \in Tabs : Right(u))'
<1>1. ASSUME NEW u \in Tabs PROVE Right(u)'
  <2>1. CASE u = t
    BY <2>1
  <2>2. CASE u # t
    BY <2>2 DEF Right
  <2> QED
    BY <2>1, <2>2
<1> QED
  BY <1>1

LEMMA PageType ==
    ASSUME NEW at \in {"home", "lobby", "room", "history", "ended"}
    PROVE  Page(at) \in Pages
BY BrowserStoreAssumption DEF Page, Pages

Good == TabsOK /\ \A t \in Tabs : Right(t)

\* The home page takes what is left in the tab away.
LEMMA HomeGood == ASSUME Good, StoreOK', NEW t \in Tabs, Home(t) PROVE Good'
<1>1. Entries' \subseteq Codes
  <2>1. \A i \in 1..Len(history') : history'[i] \in Entry
    BY DEF StoreOK
  <2> QED
    BY <2>1 DEF Entries, Entry
<1>2. [Page("home") EXCEPT !.list = Entries'] \in Pages
  BY <1>1, PageType DEF Pages
<1>3. TabsOK'
  BY <1>2 DEF Good, TabsOK, Home
<1>4. Right(t)'
  BY DEF Good, TabsOK, Home, Right, Page
<1>5. \A u \in Tabs \ {t} :
        /\ page'[u] = page[u] /\ session'[u] = session[u] /\ own'[u] = own[u]
        /\ (u \in called' <=> u \in called) /\ calls'[u] = calls[u]
  BY DEF Good, TabsOK, Home
<1> QED
  BY <1>3, <1>4, <1>5, OneTab DEF Good

\* A room page joins by itself with the marks, or with the session of its room.
LEMMA OpenGood ==
    ASSUME Good, NEW t \in Tabs, NEW code \in Codes, NEW call \in BOOLEAN, NEW wired \in BOOLEAN,
           OpenRoom(t, code, call, wired),
           \/ /\ own' = [own EXCEPT ![t] = code] /\ called' = called \cup {t} /\ call
              /\ calls' = [calls EXCEPT ![t] = @ \cup {code}]
           \/ /\ code \in calls[t] /\ UNCHANGED <<own, calls>> /\ called' = called \cup {t}
           \/ (call => t \in called /\ code \in calls[t]) /\ UNCHANGED histVars
    PROVE  Good'
<1> DEFINE flag == session[t].flag \/ call
           by == IF flag THEN "flag" ELSE IF LoadSession(t, code) THEN "session" ELSE "none"
           new == [Page("room") EXCEPT !.code = code, !.call = call, !.by = by,
                    !.phase = IF by = "none" THEN "form" ELSE "waiting",
                    !.heard = by = "session" \/ (by = "flag" /\ wired)]
<1>1. session[t] \in [flag : BOOLEAN, room : Codes \cup {None}] /\ own[t] \in Codes \cup {None}
  BY DEF Good, TabsOK
<1>2. flag \in BOOLEAN /\ (by = "session" \/ (by = "flag" /\ wired)) \in BOOLEAN
  BY Zenon
<1>3. by \in {"none", "flag", "session"} /\ (by = "flag" <=> flag)
      /\ (by = "session" => ~flag /\ session[t].room = code)
  BY DEF LoadSession
<1>4. /\ page' = [page EXCEPT ![t] = new]
      /\ session' = [session EXCEPT ![t] = [flag |-> flag,
                        room |-> IF by = "none" THEN session[t].room ELSE code]]
  BY DEF OpenRoom
<1>5. new \in Pages
  <2> DEFINE heard == by = "session" \/ (by = "flag" /\ wired)
             phase == IF by = "none" THEN "form" ELSE "waiting"
             base == Page("room")
  <2>1. base \in Pages
    BY PageType
  <2>2. heard \in BOOLEAN /\ phase \in {"form", "waiting"}
    BY <1>2
  <2>3. new = [base EXCEPT !.code = code, !.call = call, !.by = by, !.phase = phase,
                           !.heard = heard]
    OBVIOUS
  <2> HIDE DEF new, heard, phase, by, base
  <2> QED
    BY <1>3, <2>1, <2>2, <2>3 DEF Pages
<1>6. /\ new.at = "room" /\ new.call = call /\ new.by = by /\ new.code = code
      /\ new.heard = (by = "session" \/ (by = "flag" /\ wired))
  BY DEF Page
<1> HIDE DEF new, by
<1>7. /\ page'[t] = new /\ session'[t].flag = flag
      /\ session'[t].room = IF by = "none" THEN session[t].room ELSE code
  BY <1>4 DEF Good, TabsOK
<1>8. TabsOK'
  BY <1>1, <1>2, <1>4, <1>5 DEF Good, TabsOK, histVars
<1>9. own'[t] = own[t] \/ call
  BY DEF Good, TabsOK, histVars
<1>10. (t \in called' \/ ~flag) /\ (call => code \in calls'[t])
  BY DEF Good, TabsOK, Right, histVars
<1>11. Right(t)'
  <2>1. ~session'[t].flag => session'[t].room \in {None, own'[t]}
    <3> SUFFICES ASSUME ~flag PROVE session'[t].room \in {None, own'[t]}
      BY <1>7
    <3>1. session[t].room \in {None, own[t]} /\ own'[t] = own[t]
      BY <1>9 DEF Good, Right
    <3> QED
      BY <1>3, <1>7, <3>1
  <2>2. page'[t].by = "session" => page'[t].code = own'[t]
    <3> SUFFICES ASSUME by = "session" PROVE code = own'[t]
      BY <1>6, <1>7
    <3>1. session[t].room = code /\ session[t].room \in {None, own[t]} /\ own'[t] = own[t]
      BY <1>3, <1>9 DEF Good, Right
    <3> QED
      BY <3>1, BrowserStoreAssumption
  <2>3. /\ page'[t].call => page'[t].code \in calls'[t]
        /\ page'[t].by = "flag" => t \in called' /\ (page'[t].call => page'[t].code \in calls'[t])
    BY <1>3, <1>6, <1>7, <1>10
  <2>4. page'[t].at = "room" /\ (session'[t].flag \/ page'[t].call => t \in called')
    BY <1>6, <1>7, <1>10
  <2>5. page'[t].code # None
    BY <1>6, <1>7, BrowserStoreAssumption
  <2> QED
    BY <2>1, <2>2, <2>3, <2>4, <2>5 DEF Right
<1>12. \A u \in Tabs \ {t} :
        /\ page'[u] = page[u] /\ session'[u] = session[u] /\ own'[u] = own[u]
        /\ (u \in called' <=> u \in called) /\ calls'[u] = calls[u]
  BY <1>4 DEF Good, TabsOK, histVars
<1> QED
  BY <1>8, <1>11, <1>12, OneTab DEF Good

\* The end of a call: a page that came from the lobby marks its tab again.
LEMMA EndGood == ASSUME Good, NEW t \in Tabs, End(t) PROVE Good'
<1>1. page[t] \in Pages /\ page[t].call \in BOOLEAN /\ own[t] \in Codes \cup {None}
  BY DEF Good, TabsOK, Pages
<1>2. Page(IF page[t].call THEN "lobby" ELSE "ended") \in Pages
  BY PageType
<1>3. TabsOK'
  BY <1>1, <1>2 DEF Good, TabsOK, End
<1>4. page'[t] = Page(IF page[t].call THEN "lobby" ELSE "ended")
      /\ session'[t] = [flag |-> page[t].call, room |-> None] /\ called' = called /\ calls' = calls
  BY DEF Good, TabsOK, End
<1>5. Right(t)'
  BY <1>1, <1>4 DEF Good, Right, Page
<1>6. \A u \in Tabs \ {t} :
        /\ page'[u] = page[u] /\ session'[u] = session[u] /\ own'[u] = own[u]
        /\ (u \in called' <=> u \in called) /\ calls'[u] = calls[u]
  BY DEF Good, TabsOK, End
<1> QED
  BY <1>3, <1>5, <1>6, OneTab DEF Good

-----------------------------------------------------------------------------
(* The steps                                                               *)

Step(t) ==
    \/ GoHome(t) \/ EnterLobby(t) \/ Reload(t) \/ ClickClear(t)
    \/ HandleDelete(t) \/ HandleRejoin(t) \/ HandleJoin(t)
    \/ OnPeerJoined(t) \/ ChangeLang(t) \/ ShowCall(t) \/ Messages(t)
    \/ LeaveRoom(t) \/ OnPeerLeft(t) \/ OnRoomFull(t)
    \/ \E code \in Codes :
            \/ OpenByCode(t, code) \/ OpenLink(t, code) \/ Back(t, code)
            \/ JoinCall(t, code) \/ OpenHistory(t, code)

All == StoreOK /\ Limit /\ Linked /\ Good

\* What the tabs share.
LEMMA StepStore == ASSUME All, NEW t \in Tabs, Step(t) PROVE StoreOK' /\ Limit' /\ Linked'
<1> USE DEF All
<1>1. page[t] \in Pages /\ Right(t)
  BY DEF Good, TabsOK
<1>2. page[t].at = "history" \/ page[t].phase # "none" => page[t].code \in Codes
  BY <1>1 DEF Right, Pages
<1>3. CASE ClickClear(t)
  BY <1>3, ClearProperties DEF ClickClear
<1>4. CASE HandleDelete(t)
  BY <1>2, <1>4, DeleteProperties DEF HandleDelete
<1>5. CASE OnPeerJoined(t)
  BY <1>2, <1>5, AddProperties DEF OnPeerJoined
<1>6. CASE ChangeLang(t)
  BY <1>2, <1>6, AddProperties DEF ChangeLang
<1>7. CASE Messages(t)
  <2> DEFINE code == page[t].code
  <2>1. code \in Codes
    BY <1>2, <1>7 DEF Messages
  <2>2. PICK n \in {page[t].msgs, page[t].msgs + 1} \ {0}, full \in BOOLEAN :
            /\ n <= MaxMsgs
            /\ chats' = IF full THEN chats ELSE [chats EXCEPT ![code] = n]
            /\ UpdateRoomHistory(code, n)
            /\ torn' = IF Listed(code) /\ ~full THEN torn \ {code} ELSE torn \cup {code}
    BY <1>7 DEF Messages
  <2>3. n \in 0..MaxMsgs
    BY <1>1, <2>2, BrowserStoreAssumption DEF Pages
  <2> HIDE DEF code
  <2> QED
    BY <2>1, <2>2, <2>3, UpdateProperties
<1>8. CASE GoHome(t)
  BY <1>8, SameStore DEF GoHome
<1>9. CASE EnterLobby(t) \/ HandleJoin(t) \/ ShowCall(t) \/ OnRoomFull(t)
  BY <1>9, SameStore DEF EnterLobby, HandleJoin, ShowCall, OnRoomFull
<1>10. CASE Reload(t) \/ HandleRejoin(t)
  BY <1>10, SameStore DEF Reload, HandleRejoin, OpenRoom
<1>11. CASE LeaveRoom(t) \/ OnPeerLeft(t)
  BY <1>11, SameStore DEF LeaveRoom, OnPeerLeft, End
<1>12. CASE \E code \in Codes :
            \/ OpenByCode(t, code) \/ OpenLink(t, code) \/ Back(t, code)
            \/ JoinCall(t, code) \/ OpenHistory(t, code)
  BY <1>12, SameStore DEF OpenByCode, OpenLink, Back, JoinCall, OpenHistory, OpenRoom
<1> QED
  BY <1>3, <1>4, <1>5, <1>6, <1>7, <1>8, <1>9, <1>10, <1>11, <1>12 DEF Step

\* Another page in the tab, or another state of its page; the rest stays.
LEMMA PageGood ==
    ASSUME Good, NEW t \in Tabs, NEW new \in Pages, page' = [page EXCEPT ![t] = new],
           UNCHANGED <<session, histVars>>,
           new.call => t \in called /\ new.code \in calls[t],
           new.at \in {"room", "history"} \/ new.phase # "none" => new.code # None,
           new.by = "session" /\ new.phase # "error" => new.code = own[t],
           new.by = "flag" => t \in called
    PROVE  Good'
<1>1. TabsOK' /\ page'[t] = new
  BY DEF Good, TabsOK, histVars
<1>2. Right(t)'
  BY <1>1 DEF Good, Right, histVars
<1>3. \A u \in Tabs \ {t} :
        /\ page'[u] = page[u] /\ session'[u] = session[u] /\ own'[u] = own[u]
        /\ (u \in called' <=> u \in called) /\ calls'[u] = calls[u]
  BY DEF Good, TabsOK, histVars
<1> QED
  BY <1>1, <1>2, <1>3, OneTab DEF Good

\* What each tab has for itself.
LEMMA StepGood == ASSUME All, StoreOK', NEW t \in Tabs, Step(t) PROVE Good'
<1> USE DEF All
<1>1. /\ page[t] \in Pages /\ Right(t) /\ DOMAIN page = Tabs
      /\ session[t] \in [flag : BOOLEAN, room : Codes \cup {None}] /\ own[t] \in Codes \cup {None}
  BY DEF Good, TabsOK
<1>2. page[t].at = "history" \/ page[t].at = "room" \/ page[t].phase # "none" =>
            page[t].code \in Codes
  BY <1>1 DEF Right, Pages
<1>3. CASE GoHome(t) \/ HandleDelete(t)
  BY <1>3, HomeGood DEF GoHome, HandleDelete
<1>4. CASE EnterLobby(t)
  BY <1>4, PageGood, PageType DEF EnterLobby, Page
<1>5. CASE Reload(t)
  <2>1. page[t].call \in BOOLEAN /\ (page[t].call => t \in called /\ page[t].code \in calls[t])
    BY <1>1 DEF Pages, Right
  <2> QED
    BY <1>2, <1>5, <2>1, OpenGood DEF Reload
<1>6. CASE HandleRejoin(t)
  BY <1>1, <1>2, <1>6, OpenGood DEF HandleRejoin, Right
<1>7. CASE ClickClear(t)
  <2>1. [page[t] EXCEPT !.list = {}] \in Pages
    BY <1>1 DEF Pages
  <2>2. page' = [page EXCEPT ![t] = [page[t] EXCEPT !.list = {}]] /\ UNCHANGED <<session, histVars>>
    BY <1>7 DEF ClickClear
  <2> DEFINE new == [page[t] EXCEPT !.list = {}]
  <2>3. /\ new.at = page[t].at /\ new.call = page[t].call /\ new.phase = page[t].phase
        /\ new.code = page[t].code /\ new.by = page[t].by /\ new.heard = page[t].heard
    BY <1>1 DEF Pages
  <2> HIDE DEF new
  <2> QED
    BY <1>1, <2>1, <2>2, <2>3, PageGood DEF new, Right
<1>8. CASE HandleJoin(t)
  <2> DEFINE new == [page[t] EXCEPT !.phase = "waiting", !.by = "form", !.heard = TRUE]
  <2>1. new \in Pages /\ new.at = page[t].at /\ new.call = page[t].call /\ new.code = page[t].code
        /\ new.by = "form"
    BY <1>1 DEF Pages
  <2>2. /\ page' = [page EXCEPT ![t] = new]
        /\ session' = [session EXCEPT ![t] = [session[t] EXCEPT !.room = page[t].code]]
        /\ own' = [own EXCEPT ![t] = page[t].code] /\ called' = called /\ calls' = calls
    BY <1>8 DEF HandleJoin
  <2>3. page[t].code \in Codes
    BY <1>2, <1>8 DEF HandleJoin
  <2> HIDE DEF new
  <2>4. TabsOK'
    BY <1>1, <2>1, <2>2, <2>3 DEF Good, TabsOK
  <2>5. page'[t] = new /\ session'[t].flag = session[t].flag
        /\ session'[t].room = page[t].code /\ own'[t] = page[t].code
    BY <1>1, <2>2 DEF Good, TabsOK
  <2>6. Right(t)'
    BY <1>1, <2>1, <2>2, <2>3, <2>5, BrowserStoreAssumption DEF Right
  <2>7. \A u \in Tabs \ {t} :
        /\ page'[u] = page[u] /\ session'[u] = session[u] /\ own'[u] = own[u]
        /\ (u \in called' <=> u \in called) /\ calls'[u] = calls[u]
    BY <2>2 DEF Good, TabsOK
  <2> QED
    BY <2>4, <2>6, <2>7, OneTab DEF Good
<1>9. ASSUME NEW phase \in {"waiting", "connecting", "connected"}, page[t].phase # "error",
             page[t].phase # "none", page' = [page EXCEPT ![t].phase = phase],
             UNCHANGED <<session, histVars>>
      PROVE  Good'
  <2> DEFINE new == [page[t] EXCEPT !.phase = phase]
  <2>1. /\ new \in Pages /\ new.at = page[t].at /\ new.call = page[t].call
        /\ new.code = page[t].code /\ new.by = page[t].by /\ new.heard = page[t].heard
    BY <1>1 DEF Pages
  <2>2. page' = [page EXCEPT ![t] = new]
    BY <1>9
  <2> HIDE DEF new
  <2>3. (new.call => t \in called /\ new.code \in calls[t]) /\ new.code # None
    BY <1>1, <1>9, <2>1 DEF Right
  <2>4. /\ new.by = "session" => new.code = own[t]
        /\ new.by = "flag" => t \in called
    BY <1>1, <1>9, <2>1 DEF Right
  <2> QED
    BY <1>9, <2>1, <2>2, <2>3, <2>4, PageGood
<1>10. CASE OnPeerJoined(t) \/ ShowCall(t)
  BY <1>9, <1>10 DEF OnPeerJoined, ShowCall
<1>11. CASE ChangeLang(t)
  BY <1>11 DEF ChangeLang, Good, TabsOK, Right, histVars
<1>12. CASE Messages(t)
  <2>1. PICK n \in {page[t].msgs, page[t].msgs + 1} \ {0} :
            n <= MaxMsgs /\ page' = [page EXCEPT ![t] = [page[t] EXCEPT !.msgs = n]]
    BY <1>12 DEF Messages
  <2> DEFINE new == [page[t] EXCEPT !.msgs = n]
  <2>2. n \in 0..MaxMsgs
    BY <1>1, <2>1, BrowserStoreAssumption DEF Pages
  <2>3. /\ new \in Pages /\ new.at = page[t].at /\ new.call = page[t].call
        /\ new.phase = page[t].phase
        /\ new.code = page[t].code /\ new.by = page[t].by /\ new.heard = page[t].heard
    BY <1>1, <2>2 DEF Pages
  <2>4. UNCHANGED <<session, histVars>>
    BY <1>12 DEF Messages
  <2> HIDE DEF new
  <2> QED
    BY <1>1, <2>1, <2>3, <2>4, PageGood DEF new, Right
<1>13. CASE LeaveRoom(t)
  BY <1>13, EndGood DEF LeaveRoom
<1>14. CASE OnPeerLeft(t)
  BY <1>9, <1>14, EndGood DEF OnPeerLeft
<1>15. CASE OnRoomFull(t)
  <2> DEFINE new == [page[t] EXCEPT !.phase = "error"]
  <2>1. /\ new \in Pages /\ new.at = page[t].at /\ new.call = page[t].call /\ new.phase = "error"
        /\ new.code = page[t].code /\ new.by = page[t].by /\ new.heard = page[t].heard
    BY <1>1 DEF Pages
  <2>2. /\ page' = [page EXCEPT ![t] = new]
        /\ session' = [session EXCEPT ![t] = [session[t] EXCEPT !.room = None]]
        /\ own' = [own EXCEPT ![t] = IF own[t] = page[t].code THEN None ELSE own[t]]
        /\ called' = called /\ calls' = calls
    BY <1>15 DEF OnRoomFull
  <2>3. page[t].code \in Codes
    BY <1>2, <1>15 DEF OnRoomFull
  <2> HIDE DEF new
  <2>4. TabsOK'
    BY <1>1, <2>1, <2>2 DEF Good, TabsOK
  <2>5. page'[t] = new /\ session'[t].flag = session[t].flag /\ session'[t].room = None
    BY <1>1, <2>2 DEF Good, TabsOK
  <2>6. Right(t)'
    BY <1>1, <2>1, <2>2, <2>3, <2>5, BrowserStoreAssumption DEF Right
  <2>7. \A u \in Tabs \ {t} :
        /\ page'[u] = page[u] /\ session'[u] = session[u] /\ own'[u] = own[u]
        /\ (u \in called' <=> u \in called) /\ calls'[u] = calls[u]
    BY <2>2 DEF Good, TabsOK
  <2> QED
    BY <2>4, <2>6, <2>7, OneTab DEF Good
<1>16. ASSUME NEW code \in Codes, OpenByCode(t, code) PROVE Good'
  BY <1>1, <1>16, OpenGood DEF OpenByCode, Right
<1>17. ASSUME NEW code \in Codes, OpenLink(t, code) PROVE Good'
  BY <1>17, OpenGood DEF OpenLink
<1>18. ASSUME NEW code \in Codes, JoinCall(t, code) PROVE Good'
  BY <1>18, OpenGood DEF JoinCall
<1>19. ASSUME NEW code \in Codes, Back(t, code) PROVE Good'
  BY <1>19, OpenGood DEF Back
<1>20. ASSUME NEW code \in Codes, OpenHistory(t, code) PROVE Good'
  <2> DEFINE new == [Page("history") EXCEPT !.code = code, !.list = Entries \cap {code}]
  <2>1. Page("history") \in Pages /\ Page("history").at = "history" /\ ~Page("history").call
        /\ Page("history").by = "none" /\ Entries \cap {code} \in SUBSET Codes
    BY PageType DEF Page
  <2>2. new \in Pages /\ new.at = "history" /\ ~new.call /\ new.by = "none" /\ new.code = code
    BY <2>1 DEF Pages
  <2>3. page' = [page EXCEPT ![t] = new] /\ UNCHANGED <<session, histVars>>
    BY <1>20 DEF OpenHistory
  <2> HIDE DEF new
  <2> QED
    BY <2>2, <2>3, PageGood, BrowserStoreAssumption
<1> QED
  BY <1>3, <1>4, <1>5, <1>6, <1>7, <1>8, <1>10, <1>11, <1>12, <1>13, <1>14, <1>15,
     <1>16, <1>17, <1>18, <1>19, <1>20 DEF Step

-----------------------------------------------------------------------------
LEMMA InvParts == IInv <=> All
BY TypeParts, RightParts DEF IInv, All, Limit, Linked, Good

LEMMA InitInv == Init => All
<1> SUFFICES ASSUME Init PROVE All
  OBVIOUS
<1> USE BrowserStoreAssumption DEF Init
<1>1. StoreOK /\ Limit
  BY DEF StoreOK, Limit, OnceEach
<1>2. Linked
  BY DEF Linked, CountRight, NoOrphans
<1>3. Page("home") \in Pages
  BY PageType
<1>4. TabsOK
  BY <1>3 DEF TabsOK
<1>5. \A t \in Tabs : Right(t)
  BY DEF Right, Page
<1> QED
  BY <1>1, <1>2, <1>4, <1>5 DEF All, Good

LEMMA NextInv == All /\ [Next]_vars => All'
<1> SUFFICES ASSUME All, [Next]_vars PROVE All'
  OBVIOUS
<1>1. CASE Next
  <2>1. PICK t \in Tabs : Step(t)
    BY <1>1, Zenon DEF Next, Step
  <2>2. StoreOK' /\ Limit' /\ Linked'
    BY <2>1, StepStore
  <2> QED
    BY <2>1, <2>2, StepGood DEF All
<1>2. CASE UNCHANGED vars
  <2>1. StoreOK' /\ Limit' /\ Linked'
    BY <1>2, SameStore DEF All, vars
  <2>2. Good'
    BY <1>2 DEF All, Good, TabsOK, Right, vars, histVars
  <2> QED
    BY <2>1, <2>2 DEF All
<1> QED
  BY <1>1, <1>2

\* What the tabs share and what each has for itself, together.
THEOREM Invariant == Spec => []IInv
<1>1. Init => All
  BY InitInv
<1>2. All /\ [Next]_vars => All'
  BY NextInv
<1>3. All => IInv
  BY InvParts
<1> QED
  BY <1>1, <1>2, <1>3, PTL DEF Spec

\* The history never has more than MAX_ENTRIES entries, nor a code twice,
\* whichever tabs write it (roomHistory.ts:29-63).
THEOREM TypeCorrect == Spec => []TypeOK
<1>1. IInv => TypeOK
  BY DEF IInv
<1> QED
  BY <1>1, Invariant, PTL

\* The count of an entry is the number of messages that are stored for it
\* (RoomPage.tsx:139-145), unless the two were parted.
THEOREM CountsRight == Spec => []CountRight
<1>1. IInv => CountRight
  BY DEF IInv
<1> QED
  BY <1>1, Invariant, PTL

\* No chat is left behind without an entry (roomHistory.ts:50-63), unless the two
\* were parted.
THEOREM NothingBehind == Spec => []NoOrphans
<1>1. IInv => NoOrphans
  BY DEF IInv
<1> QED
  BY <1>1, Invariant, PTL

\* A page joins by itself only where its user was let in (useRoom.ts:29-39,
\* RoomPage.tsx:92-115), also when he goes back to the page of a call, which sets
\* the marks again (RoomPage.tsx:29-35).
THEOREM JoinsRight == Spec => []JoinsByRight
<1>1. IInv => JoinsByRight
  BY DEF IInv
<1> QED
  BY <1>1, Invariant, PTL
=============================================================================
