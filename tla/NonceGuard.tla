----------------------------- MODULE NonceGuard -----------------------------
(***************************************************************************)
(* What a host's nonce store promises (External Verifier Contract, 3.2 and *)
(* 7.3), whatever holds the reservations: a nonce that is granted is held  *)
(* until the time stated for it, and while it is held it is not granted    *)
(* again.  A call grants all the nonces it names or none.                  *)
(***************************************************************************)
EXTENDS Integers

CONSTANTS
    Keys,    \* what identifies a nonce
    Times,   \* until when a nonce may have to be held
    None     \* not held

VARIABLES
    held,    \* [Keys -> Times \cup {None}], the last second each key is held
    clock,   \* unix seconds, by the host's clock
    granted  \* what the last call granted: until when, for each key it did

vars == <<held, clock, granted>>

Free(key) == held[key] = None \/ held[key] < clock

Init ==
    /\ held = [key \in Keys |-> None]
    /\ clock \in Nat
    /\ granted = <<>>

\* A call grants free keys, or none, and may forget keys that are free anyway.
Serve ==
    /\ DOMAIN granted' \subseteq Keys
    /\ held' \in [Keys -> Times \cup {None}]
    /\ \A key \in Keys :
          IF key \in DOMAIN granted'
          THEN Free(key) /\ held'[key] = granted'[key]
          ELSE held'[key] = held[key] \/ (Free(key) /\ held'[key] = None)
    /\ UNCHANGED clock

Tick == clock' = clock + 1 /\ UNCHANGED <<held, granted>>

Next == Serve \/ Tick

Spec == Init /\ [][Next]_vars
=============================================================================
