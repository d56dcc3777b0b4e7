------------------------------ MODULE Authority ------------------------------
(***************************************************************************)
(* What the dedicated server promises its players, without slots, packets, *)
(* counters or files: who is in the session, who leads it, and who has     *)
(* authority over which entity.                                            *)
(*                                                                         *)
(* Members come and go, one of them leads; an entity is claimed by one     *)
(* member, stays with it until it is released, and no member leaves an     *)
(* entity behind.                                                          *)
(***************************************************************************)
CONSTANTS
    Members,        \* whoever may take part
    Entities,       \* whatever may be claimed
    None            \* "nobody leads", not a member

VARIABLES
    members,        \* who takes part
    leader,         \* the member that leads, or None
    holder          \* claimed entity -> the member that has authority over it

vars == <<members, leader, holder>>

-----------------------------------------------------------------------------

Init ==
    /\ members = {}
    /\ leader = None
    /\ holder = [e \in {} |-> None]

\* A newcomer leads only when nobody does.
Join(m) ==
    /\ m \notin members
    /\ members' = members \cup {m}
    /\ leader' = IF leader = None THEN m ELSE leader
    /\ UNCHANGED holder

\* Whoever leaves takes its entities along, and hands the lead over.
Leave(m) ==
    /\ m \in members
    /\ members' = members \ {m}
    /\ IF leader # m
         THEN UNCHANGED leader
         ELSE leader' \in IF members' = {} THEN {None} ELSE members'
    /\ holder' = [e \in {x \in DOMAIN holder : holder[x] # m} |-> holder[e]]

Claim(m, e) ==
    /\ m \in members
    /\ e \notin DOMAIN holder
    /\ holder' = [x \in DOMAIN holder \cup {e} |-> IF x = e THEN m ELSE holder[x]]
    /\ UNCHANGED <<members, leader>>

\* The holder or the leader gives an entity up.
Release(m, e) ==
    /\ m \in members
    /\ e \in DOMAIN holder
    /\ m \in {holder[e], leader}
    /\ holder' = [x \in DOMAIN holder \ {e} |-> holder[x]]
    /\ UNCHANGED <<members, leader>>

\* The session ends for everybody.
Disband ==
    /\ members' = {}
    /\ leader' = None
    /\ holder' = [e \in {} |-> None]

Next ==
    \/ \E m \in Members : Join(m) \/ Leave(m)
    \/ \E m \in Members, e \in Entities : Claim(m, e) \/ Release(m, e)
    \/ Disband

Spec == Init /\ [][Next]_vars

-----------------------------------------------------------------------------
(* Correctness *)

\* The promise itself: everything claimed is held by somebody present, and
\* somebody present leads as long as anybody is.
Orderly ==
    /\ leader = None <=> members = {}
    /\ leader # None => leader \in members
    /\ \A e \in DOMAIN holder : holder[e] \in members
=============================================================================
