---------------------------- MODULE PaymentGate -----------------------------
(***************************************************************************)
(* bolyraGate around an mppx payment method                                *)
(* (integrations/mpp-payments/src/gate.ts) over its in-memory NonceStore.  *)
(* Gate invocations (preflight runs) overlap: each samples its clock once, *)
(* waits for the external verifier, reserves the nonces the verdict names, *)
(* and after one more await signs and delivers the allow receipt.  The     *)
(* verify hook later spends the stashed decision.  Code between two awaits *)
(* is one action.                                                          *)
(***************************************************************************)
EXTENDS NonceStore

CONSTANTS
    Invocations,   \* gate invocations
    Captured,      \* mppx captured requests, the keys of the decision stash
    Retentions,    \* for how long verdicts ask to retain a nonce
    ENFORCE        \* "always" or "payment"

ASSUME GateAssumption ==
    /\ ENFORCE \in {"always", "payment"} /\ Retentions \subseteq Nat
    /\ None \notin Invocations \cup {"allow", "nonce_replayed"}

VARIABLES
    calls,     \* the state of each invocation
    chain,     \* the gate's receipt chain
    stash,     \* decisions: the allowed invocation per captured request
    payments   \* [Invocations -> Nat]: runs of the payment rail on its decision

gvars == <<nvars, calls, chain, stash, payments>>

\* `entries` is what the invocation asked the store to retain, `at` when it did.
NewCall == [phase |-> "new", captured |-> None, list |-> <<>>, now |-> 0, outcome |-> None,
            entries |-> <<>>, spent |-> FALSE, at |-> 0]

\* The invocations that a behaviour may start; the others stay idle.
GStart(started) ==
    /\ NInit
    /\ calls = [q \in Invocations |-> [NewCall EXCEPT !.phase = IF q \in started THEN "new" ELSE "idle"]]
    /\ chain = <<>>
    /\ stash = [c \in Captured |-> None]
    /\ payments = [q \in Invocations |-> 0]

GInit == GStart(Invocations)

-----------------------------------------------------------------------------
(***************************************************************************)
(* How an invocation ends.  Every denial signs and delivers a receipt.     *)
(* `signed` says which attempt at signing it succeeds: a signer that       *)
(* throws is caught once and the denial signed again as internal_error;    *)
(* when that throws too, preflight denies without a receipt.  `accepted`   *)
(* says whether the sink takes the receipt; once it has refused one it is  *)
(* not called again for this invocation.                                   *)
(***************************************************************************)
Signings == {"first", "second", "never"}

Receipt(q, allowed, delivered) == [by |-> q, allowed |-> allowed, delivered |-> delivered]

End(q, update, outcome) == calls' = [calls EXCEPT ![q] = [update EXCEPT !.phase = "done", !.outcome = outcome]]

DenyWith(q, update, code, prior, signed, accepted) ==
    /\ chain' = chain \o prior \o
           (IF signed = "never" THEN <<>> ELSE <<Receipt(q, FALSE, accepted)>>)
    /\ End(q, update, IF signed = "first" /\ accepted THEN code ELSE "internal_error")
    /\ UNCHANGED <<stash, payments>>

Deny(q, update, code) ==
    \E signed \in Signings, accepted \in BOOLEAN : DenyWith(q, update, code, <<>>, signed, accepted)

Stashed(q, captured) == IF captured = None THEN stash ELSE [stash EXCEPT ![captured] = q]

\* Step 7: sign and deliver the allow receipt, then stash the decision.
Allow(q, update, delivered) ==
    \/ /\ delivered
       /\ chain' = Append(chain, Receipt(q, TRUE, TRUE))
       /\ stash' = Stashed(q, update.captured)
       /\ End(q, update, "allow")
       /\ UNCHANGED payments
    \/ /\ ~delivered
       /\ \E signed \in Signings :
             DenyWith(q, update, "internal_error", <<Receipt(q, TRUE, FALSE)>>, signed, FALSE)
    \/ Deny(q, update, "internal_error")   \* the signer threw

-----------------------------------------------------------------------------
(***************************************************************************)
(* preflight: steps 0 to 3 of decide, up to the await of the verifier.     *)
(***************************************************************************)
EarlyDenial(list, fault) ==
    IF fault = "clock" THEN "internal_error"
    ELSE IF list = <<>> THEN "missing_authorization"
    ELSE IF fault = "amount" THEN "internal_error"
    ELSE None

Preflight(q, captured, list, fault) ==
    LET update == [NewCall EXCEPT !.captured = captured, !.list = list, !.now = clock]
        code == EarlyDenial(list, fault)
    IN  /\ calls[q].phase = "new"
        /\ IF code # None THEN Deny(q, update, code)
           ELSE /\ calls' = [calls EXCEPT ![q] = [update EXCEPT !.phase = "deciding"]]
                /\ UNCHANGED <<chain, stash, payments>>
        /\ UNCHANGED nvars

\* enforce: "payment" lets a request without a payment credential see the 402,
\* and nothing else; a hook or a method that would answer more is denied.
Discover(q, result) ==
    /\ ENFORCE = "payment"
    /\ calls[q].phase = "new"
    /\ End(q, NewCall, IF result \in {"402", "undefined"} THEN "discovery" ELSE "internal_error")
    /\ UNCHANGED <<nvars, chain, stash, payments>>

\* Steps 4 and 5: the verifier denies, fails, or the receipt's instance cannot
\* be built; the timeout of a command or URL verifier is one such failure.
RefuseAfterReserving(q, code) ==
    /\ calls[q].phase \in {"deciding", "reserved"}
    /\ Deny(q, calls[q], code)
    /\ UNCHANGED nvars

Refuse(q, code) ==
    /\ calls[q].phase = "deciding"
    /\ Deny(q, calls[q], code)
    /\ UNCHANGED nvars

VerifierTimeout(q) == Refuse(q, "internal_error")

\* Step 6: the verdict allows and names nonces to reserve.
ReserveStep(q, retention) ==
    LET list == calls[q].list
        entries == [i \in DOMAIN list |-> [key |-> list[i], until |-> calls[q].now + retention]]
        asked == [calls[q] EXCEPT !.entries = entries, !.at = clock]
    IN  /\ calls[q].phase = "deciding"
        /\ Reserve(entries, calls[q].now)
        /\ CASE call'.answer = "true" ->
                   /\ calls' = [calls EXCEPT ![q] = [asked EXCEPT !.phase = "reserved", !.spent = TRUE]]
                   /\ UNCHANGED <<chain, stash, payments>>
             [] call'.answer = "false" -> Deny(q, asked, "nonce_replayed")
             [] OTHER -> Deny(q, asked, "internal_error")
        /\ UNCHANGED clock

\* A verdict in the verifier's own nonce mode names none: no await in between.
AllowWithoutNonces(q, delivered) ==
    /\ calls[q].phase = "deciding"
    /\ Allow(q, calls[q], delivered)
    /\ UNCHANGED nvars

Settle(q, delivered) ==
    /\ calls[q].phase = "reserved"
    /\ Allow(q, calls[q], delivered)
    /\ UNCHANGED nvars

(***************************************************************************)
(* The verify hook: no stashed decision, no payment; and the decision is   *)
(* consumed before the payment rail runs.                                  *)
(***************************************************************************)
VerifyKeeping(captured) ==
    /\ stash[captured] # None
    /\ payments' = [payments EXCEPT ![stash[captured]] = @ + 1]
    /\ UNCHANGED <<nvars, calls, chain, stash>>

Verify(captured) ==
    /\ stash[captured] # None
    /\ payments' = [payments EXCEPT ![stash[captured]] = @ + 1]
    /\ stash' = [stash EXCEPT ![captured] = None]
    /\ UNCHANGED <<nvars, calls, chain>>

-----------------------------------------------------------------------------
GNext ==
    \/ Tick /\ UNCHANGED <<calls, chain, stash, payments>>
    \/ \E captured \in Captured : Verify(captured)
    \/ \E q \in Invocations :
          \/ \E captured \in Captured \cup {None}, list \in EntryLists \cup {<<>>}, fault \in {"none", "clock", "amount"} :
                Preflight(q, captured, list, fault)
          \/ \E result \in {"402", "undefined", "other"} : Discover(q, result)
          \/ Refuse(q, "denied")
          \/ VerifierTimeout(q)
          \/ \E retention \in Retentions : ReserveStep(q, retention)
          \/ \E delivered \in BOOLEAN : AllowWithoutNonces(q, delivered) \/ Settle(q, delivered)

GSpec == GInit /\ [][GNext]_gvars

-----------------------------------------------------------------------------
(* Properties *)

\* What auditors hold agrees with what callers were told: every delivered
\* receipt says what its invocation answered, and nobody is allowed without a
\* delivered receipt that says so.
ReceiptsMatchAnswers ==
    /\ \A i \in DOMAIN chain : chain[i].delivered =>
          (chain[i].allowed <=> calls[chain[i].by].outcome = "allow")
    /\ \A q \in Invocations : calls[q].outcome = "allow" =>
          Receipt(q, TRUE, TRUE) \in {chain[i] : i \in DOMAIN chain}

\* The payment rail runs at most once on a decision, and only on one that
\* allowed and whose receipt was delivered, however often the hook is called
\* for a captured request and however often that request is gated.
PaidOnlyOnDecision ==
    \A q \in Invocations : payments[q] > 0 =>
        payments[q] = 1 /\ Receipt(q, TRUE, TRUE) \in {chain[i] : i \in DOMAIN chain}

\* What auditors hold, callers were told and the rail paid agree: every payment has
\* its delivered receipt, and every delivered receipt its answer (gate.ts).
AuditedAndPaidOnce == ReceiptsMatchAnswers /\ PaidOnlyOnDecision
=============================================================================
