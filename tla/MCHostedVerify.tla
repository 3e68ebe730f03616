--------------------------- MODULE MCHostedVerify ---------------------------
EXTENDS HostedVerify, TLC

TwoTimes == 0 .. 1
MCBindingOf == [id \in Ids |-> CHOOSE b \in Bindings : TRUE]
MCExpiryOf == [id \in Ids |-> 1]
Good == [loads |-> TRUE, disabled |-> FALSE, trusted |-> Ids]
MCConfigs == {Good, [Good EXCEPT !.loads = FALSE], [Good EXCEPT !.disabled = TRUE],
              [Good EXCEPT !.trusted = {}]}

\* What the view leaves out is of no consequence to any later step: `reply`,
\* how a request was refused, and a clock value no method will read again.
Seen(r) == IF r.phase = "refused" THEN <<"refused">>
           ELSE IF r.phase \in {"waiting", "done"} /\
                   (r.rpc = "executed" \/ r.kind \notin {"register", "revoke"})
           THEN <<[r EXCEPT !.now = 0]>> ELSE <<r>>

View == <<version, object, credentials, history, tenants, acked, [q \in Requests |-> Seen(http[q])]>>
RequestSymmetry == Permutations(Requests)
=============================================================================
