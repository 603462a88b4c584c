---------------------------- MODULE MCBrowserStore ----------------------------
(***************************************************************************)
(* An instance of BrowserStore for TLC: two tabs, three rooms of which one *)
(* is that of a call, and place for two entries, so that one is pushed     *)
(* out.  What a page joins by itself is a matter of its tab alone, so the  *)
(* lobby and its calls are for one tab while the other one is at home.     *)
(***************************************************************************)
EXTENDS BrowserStore, TLC

Symmetry == Permutations(Tabs) \cup Permutations(Codes \ CallCodes)

Bounded ==
    \/ \A t \in Tabs : calls[t] = {} /\ page[t].at # "lobby"
    \/ \E t \in Tabs : page[t] = Page("home")

MCNext == Next /\ Bounded'
MCSpec == Init /\ [][MCNext]_vars
=============================================================================
