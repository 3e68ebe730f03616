------------------------ MODULE MCApprovalExecution ------------------------
EXTENDS ApprovalExecution, TLC

CONSTANTS c1, c2, t1, t2, t3, v1, v2

\* Two texts, each of a value of its own, and one outside the domain of arguments.
MCTexts == {t1, t2, t3}
MCValueOf == t1 :> v1 @@ t2 :> v2 @@ t3 :> OutOfDomain

Once1 == [context |-> c1, text |-> t1, decision |-> "approved", decidedAt |-> 1,
          once |-> TRUE, notAfter |-> None]
MCInputs == {Once1,
             [Once1 EXCEPT !.once = FALSE, !.notAfter = 2],
             [Once1 EXCEPT !.decision = "denied"],
             [Once1 EXCEPT !.context = c2, !.text = t2, !.decidedAt = 0],
             [Once1 EXCEPT !.text = t3]}
ThreeTimes == 0 .. 2
\* The view leaves out why an attempt that claimed nothing was blocked: no later
\* step reads it and no property tells it apart.
Seen(r) == IF r.phase = "blocked" /\ ~r.claimed THEN Blocked(Idle, "none") ELSE r
View == <<receipts, consumed, observations, [a \in Attempts |-> Seen(attempts[a])]>>
AttemptSymmetry == Permutations(Attempts)
=============================================================================
