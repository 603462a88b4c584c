------------------------------- MODULE MCChat -------------------------------
(***************************************************************************)
(* An instance of Chat for TLC: two people in a room, or three in the      *)
(* lobby.                                                                  *)
(***************************************************************************)
EXTENDS Chat

Budget(place, people, sends, typings, changes, opens, losses) ==
    [place |-> place, people |-> people, send |-> sends, typing |-> typings, lang |-> changes,
     open |-> opens, lose |-> losses]

MCPeople == {"ann", "bob", "cat"}
MCSpeaks == [p \in MCPeople |-> IF p = "bob" THEN "DE" ELSE "EN"]

Two == {"ann", "bob"}

MCBudgets ==
    {Budget("room", Two, 3, 0, 0, 0, 0), Budget("room", Two, 2, 0, 1, 0, 0),
     Budget("room", Two, 2, 0, 0, 0, 1), Budget("room", Two, 1, 2, 0, 0, 1),
     Budget("lobby", MCPeople, 2, 0, 0, 2, 0), Budget("lobby", Two, 2, 0, 0, 1, 1)}
=============================================================================
