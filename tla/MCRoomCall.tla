----------------------------- MODULE MCRoomCall -----------------------------
(***************************************************************************)
(* An instance of RoomCall for TLC.  Each budget brings some of the        *)
(* disturbances together; with a race the handlers of the server           *)
(* interleave, and a browser makes so many descriptions.                   *)
(***************************************************************************)
EXTENDS RoomCall

Budget(lobby, reload, drop, leave, restart) ==
    [lobby |-> lobby, reload |-> reload, drop |-> drop, leave |-> leave, restart |-> restart,
     made |-> 9, race |-> FALSE]

Race(bound, n) == [bound EXCEPT !.race = TRUE, !.made = n]

MCRaces == {Race(Budget(FALSE, 1, 0, 1, 0), 0), Race(Budget(TRUE, 0, 1, 1, 0), 0)}

MCBudgets ==
    {Budget(FALSE, 2, 0, 0, 0), Budget(FALSE, 1, 0, 0, 1), Budget(FALSE, 0, 0, 0, 2),
     Budget(FALSE, 1, 1, 1, 0), Budget(TRUE, 1, 1, 1, 1)} \cup MCRaces
=============================================================================
