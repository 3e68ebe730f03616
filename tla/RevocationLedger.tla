-------------------------- MODULE RevocationLedger --------------------------
(***************************************************************************)
(* What a tenant's registry promises about revocation, without tables,     *)
(* transactions or metadata: a credential is registered, later revoked     *)
(* once and for all, and the event that revoked it - its time and the      *)
(* request that asked for it - is recorded in the history once, now or     *)
(* later, never altered and never under another request's name.            *)
(***************************************************************************)
EXTENDS Integers, FiniteSets

CONSTANTS
    Ids,        \* credential ids
    Events,     \* what identifies a revocation
    MaxActive,  \* how many credentials may be active at once
    None        \* not an event

VARIABLES
    status,     \* [Ids -> {"absent", "active", "revoked"}]
    event,      \* [Ids -> Events \cup {None}], the revocation of each id
    recorded    \* ids whose revocation is in the history

vars == <<status, event, recorded>>

ActiveIds == {id \in Ids : status[id] = "active"}

Init ==
    /\ status \in [Ids -> {"absent", "active", "revoked"}]
    /\ event \in [Ids -> Events \cup {None}]
    /\ \A id \in Ids : event[id] # None <=> status[id] = "revoked"
    /\ recorded = {id \in Ids : status[id] = "revoked"}
    /\ Cardinality(ActiveIds) <= MaxActive

Register(id) ==
    /\ status[id] = "absent"
    /\ Cardinality(ActiveIds) < MaxActive
    /\ status' = [status EXCEPT ![id] = "active"]
    /\ UNCHANGED <<event, recorded>>

Revoke(id, e) ==
    /\ status[id] = "active"
    /\ status' = [status EXCEPT ![id] = "revoked"]
    /\ event' = [event EXCEPT ![id] = e]
    /\ recorded' \in {recorded, recorded \cup {id}}

Record(id) ==
    /\ status[id] = "revoked"
    /\ id \notin recorded
    /\ recorded' = recorded \cup {id}
    /\ UNCHANGED <<status, event>>

Next == \E id \in Ids : Register(id) \/ (\E e \in Events : Revoke(id, e)) \/ Record(id)

Spec == Init /\ [][Next]_vars
=============================================================================
