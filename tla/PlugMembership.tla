--------------------------- MODULE PlugMembership ---------------------------
(***************************************************************************)
(* What the plugs of one event promise to the rest of the system: a plug   *)
(* becomes a member of the event once, with the other plugs of the same    *)
(* request, and leaves it once, for good.  EventPlugs, with its sessions,  *)
(* locks and failures, implements this; PlugMedia builds on it.            *)
(***************************************************************************)
CONSTANT Plugs

VARIABLE member     \* "none", "live" or "deleted", for each plug

Membership == {"none", "live", "deleted"}

MembersInit == member = [p \in Plugs |-> "none"]

Move(S, from, to) ==
    /\ S # {}
    /\ \A p \in S : member[p] = from
    /\ member' = [p \in Plugs |-> IF p \in S THEN to ELSE member[p]]

Join == \E S \in SUBSET Plugs : Move(S, "none", "live")
Leave == \E S \in SUBSET Plugs : Move(S, "live", "deleted")

MembersSpec == MembersInit /\ [][Join \/ Leave]_member

=============================================================================
