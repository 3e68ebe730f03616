------------------------------ MODULE Verdicts ------------------------------
(***************************************************************************)
(* The verifiers of the repository are cascades: checks in a fixed order,  *)
(* each with the code it is refused with, of which the first that fails is *)
(* the answer. A cascade is a sequence of pairs <<holds, code>>.           *)
(***************************************************************************)
EXTENDS Naturals, Sequences

\* The choice is a function of the cascade, so that TLC evaluates the checks once.
FirstRefusal(checks, granted) ==
    LET First[c \in {checks}] ==
            LET failed == {i \in DOMAIN c : ~c[i][1]}
            IN  IF failed = {} THEN granted
                ELSE c[CHOOSE i \in failed : \A j \in failed : i <= j][2]
    IN  First[checks]
=============================================================================
