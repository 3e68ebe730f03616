------------------------- MODULE ApprovalExecution -------------------------
(***************************************************************************)
(* Approvals bound to executions (integrations/receipts/src/approval.ts).  *)
(* An approver signs what was reviewed; executors, in any number of        *)
(* processes, check the receipt against what they are about to do, claim a *)
(* `once` receipt in the operator's store, sample their clock again,       *)
(* dispatch and sign an observation. executeApproved is synchronous up to  *)
(* the dispatch, but its call of the store is not its own: others run      *)
(* before and after it, and a process may die anywhere.                    *)
(*                                                                         *)
(* Hashes and signatures are ideal: a digest is the value it stands for,   *)
(* and an envelope verifies iff the payload it carries is the signed one.  *)
(***************************************************************************)
EXTENDS FiniteSets, Verdicts

CONSTANTS
    Contexts,       \* requester, audience, tool and operation id of a call
    Texts,          \* argument texts a caller may supply
    ValueOf,        \* the value a text parses to, or OutOfDomain
    OutOfDomain,
    Inputs,         \* what approvers are asked to sign
    Signers,        \* keys receipts of approvals are signed with
    Trusted,        \* the signer executors expect
    Observers,      \* keys observations are signed with
    Attempts,       \* calls of executeApproved, each with its attemptId
    Times,          \* readings of the executors' clocks
    NoReading,      \* a clock that throws or returns no valid Date
    MaxReceipts,    \* bound: approvals signed
    None

ASSUME ApprovalConstants ==
    /\ Trusted \in Signers /\ Times \subseteq Nat /\ MaxReceipts \in Nat
    /\ ValueOf \in [Texts -> {ValueOf[t] : t \in Texts}]
    /\ None \notin Observers \cup Times /\ NoReading \notin Times

VARIABLES
    receipts,       \* signed approval receipts
    consumed,       \* the claims in the operator's store
    attempts,       \* attempts[a]: the call a
    observations    \* signed execution observations

vars == <<receipts, consumed, attempts, observations>>

-----------------------------------------------------------------------------
(* Approval receipts.                                                      *)

\* parseArguments and the digest: the JSON value a text stands for, in canonical
\* form, when it is in the domain (size, depth, numbers, duplicate members).
Analyzed(text) == ValueOf[text]

Payload(i) == [context |-> i.context, digest |-> Analyzed(i.text), decision |-> i.decision,
               decidedAt |-> i.decidedAt, once |-> i.once, notAfter |-> i.notAfter]

Sign(payload, signer) ==
    [payload |-> payload, signed |-> payload, signer |-> signer, form |-> "asSigned"]

\* What an executor may be handed: a receipt, the same with the signer's address
\* in another letter case, one that lacks what the schema asks for, of another
\* kind, with another key id, or with the payload of one under the signature of
\* another.
Forms == {"asSigned", "recased", "malformed_receipt", "wrong_kind", "keyid_mismatch"}
Presentable == {[r EXCEPT !.form = f] : r \in receipts, f \in Forms}
               \cup {[r EXCEPT !.payload = s.payload] : r, s \in receipts}

\* validateEnvelope: closed schema, kind and agreement of the key ids.
EnvelopeCode(e) == IF e.form \in {"asSigned", "recased"} THEN "ok" ELSE e.form
Genuine(e) == e.payload = e.signed

Once(e) == e.payload.once
Expired(e, t) == ~Once(e) /\ t >= e.payload.notAfter
\* sampleClock and temporalCheck: a reading, not before the decision, not at or
\* after the deadline.
Readable(t) == t # NoReading
Decided(e, t) == Readable(t) => e.payload.decidedAt <= t
InTime(e, t) == Readable(t) => ~Expired(e, t)

\* The claim is made on the signer and the payload, whatever the envelope looks
\* like; the receipt's hash covers the envelope with its letters.
ClaimOfEnvelope(e) == <<e.signer, e>>
Claim(e) == <<e.signer, e.payload>>
ReceiptHashOfPayload(e) == e.payload
ReceiptHash(e) == e

-----------------------------------------------------------------------------
(* executeApproved.                                                        *)

Idle == [phase |-> "idle", envelope |-> None, context |-> None, value |-> None,
         observer |-> None, dispatchedAt |-> None, claimed |-> FALSE, code |-> "none"]

\* Steps 1 to 4 and the first check of step 5, in their order.
Checks(p) ==
    <<<<p.wellFormed, "malformed_input">>,
      <<Analyzed(p.text) # OutOfDomain, "arguments_out_of_domain">>,
      <<p.observer # "unusable", "observer_invalid">>,
      <<EnvelopeCode(p.envelope) = "ok", EnvelopeCode(p.envelope)>>,
      <<Genuine(p.envelope), "signature_invalid">>,
      <<p.envelope.signer = Trusted, "untrusted_signer">>,
      <<p.envelope.payload.decision = "approved", "decision_not_approved">>,
      <<p.envelope.payload.context = p.context, "context_mismatch">>,
      <<p.envelope.payload.digest = Analyzed(p.text), "arguments_mismatch">>,
      <<Readable(p.t0), "invalid_clock">>,
      <<Decided(p.envelope, p.t0), "future_decision">>,
      <<InTime(p.envelope, p.t0), "expired">>,
      <<Once(p.envelope) => p.consume, "consume_required">>>>

RechecksReading(e, td) == <<<<Readable(td), "invalid_clock">>>>
Rechecks(e, td) ==
    <<<<Readable(td), "invalid_clock">>,
      <<Decided(e, td), "future_decision">>,
      <<InTime(e, td), "expired">>>>

Params == [wellFormed : BOOLEAN, text : Texts, observer : Observers \cup {None, "unusable"},
           envelope : Presentable, context : Contexts, t0 : Times \cup {NoReading},
           consume : BOOLEAN]

Init ==
    /\ receipts = {}
    /\ consumed = {}
    /\ attempts = [a \in Attempts |-> Idle]
    /\ observations = {}

\* createApprovalReceipt; invalid inputs throw before anything is signed.
CreateApproval(s, i) ==
    /\ Cardinality(receipts) < MaxReceipts
    /\ Analyzed(i.text) # OutOfDomain
    /\ receipts' = receipts \cup {Sign(Payload(i), s)}
    /\ UNCHANGED <<consumed, attempts, observations>>

Prepare(a, p) ==
    /\ attempts[a].phase = "idle"
    /\ LET code == FirstRefusal(Checks(p), "ok") IN
       attempts' = [attempts EXCEPT ![a] =
           IF code # "ok" THEN [Idle EXCEPT !.phase = "blocked", !.code = code]
           ELSE [Idle EXCEPT !.phase = "prepared", !.envelope = p.envelope,
                             !.context = p.context, !.value = Analyzed(p.text),
                             !.observer = p.observer]]
    /\ UNCHANGED <<receipts, consumed, observations>>

Blocked(r, code) == [r EXCEPT !.phase = "blocked", !.code = code]

ConsumeEveryReceipt(a) ==
    LET r == attempts[a]
        claim == Claim(r.envelope)
    IN
    /\ r.phase = "prepared"
    /\ \/ /\ claim \notin consumed
          /\ consumed' = consumed \cup {claim}
          /\ attempts' = [attempts EXCEPT ![a].phase = "cleared", ![a].claimed = TRUE]
       \/ /\ attempts' = [attempts EXCEPT ![a] = Blocked(r, "consume_rejected")]
          /\ UNCHANGED consumed
    /\ UNCHANGED <<receipts, observations>>
\* Step 5. The operator's store stores a claim atomically and grants it once. A
\* call of it that throws, or answers with anything but true, may have stored
\* the claim or not.
Consume(a) ==
    LET r == attempts[a]
        claim == Claim(r.envelope)
    IN
    /\ r.phase = "prepared"
    /\ \/ /\ ~Once(r.envelope)
          /\ attempts' = [attempts EXCEPT ![a].phase = "cleared"]
          /\ UNCHANGED consumed
       \/ /\ Once(r.envelope) /\ claim \notin consumed
          /\ consumed' = consumed \cup {claim}
          /\ attempts' = [attempts EXCEPT ![a].phase = "cleared", ![a].claimed = TRUE]
       \/ /\ Once(r.envelope)
          /\ attempts' = [attempts EXCEPT ![a] = Blocked(r, "consume_rejected")]
          /\ UNCHANGED consumed
       \/ /\ Once(r.envelope) /\ claim \notin consumed
          /\ consumed' = consumed \cup {claim}
          /\ attempts' = [attempts EXCEPT ![a] =
                 [Blocked(r, "consume_rejected") EXCEPT !.claimed = TRUE]]
    /\ UNCHANGED <<receipts, observations>>

\* Steps 6a and 6b: the second reading of the clock, and the dispatch of the
\* snapshot that was checked, with no await between them.
Dispatch(a, td) ==
    LET r == attempts[a]
        code == FirstRefusal(Rechecks(r.envelope, td), "ok")
    IN
    /\ r.phase = "cleared"
    /\ attempts' = [attempts EXCEPT ![a] =
           IF code # "ok" THEN Blocked(r, code)
           ELSE [r EXCEPT !.phase = "dispatched", !.dispatchedAt = td]]
    /\ UNCHANGED <<receipts, consumed, observations>>

Observation(a, outcome) ==
    LET r == attempts[a] IN
    Sign([approvalReceiptHash |-> ReceiptHash(r.envelope), context |-> r.context, attempt |-> a,
          action |-> r.value, dispatchedAt |-> r.dispatchedAt, outcome |-> outcome], r.observer)

\* Step 7. Signing may fail; it never changes how the dispatch settled.
Settle(a, outcome) ==
    /\ attempts[a].phase = "dispatched"
    /\ attempts' = [attempts EXCEPT ![a].phase = outcome]
    /\ \/ /\ attempts[a].observer # None
          /\ observations' = observations \cup {Observation(a, outcome)}
       \/ UNCHANGED observations
    /\ UNCHANGED <<receipts, consumed>>

\* The process dies: before, within or after the store's answer, the dispatch or
\* the signature.
Crash(a) ==
    /\ attempts[a].phase \in {"prepared", "cleared", "dispatched"}
    /\ attempts' = [attempts EXCEPT ![a].phase = "dead"]
    /\ UNCHANGED <<receipts, consumed, observations>>

Next ==
    \/ \E s \in Signers, i \in Inputs : CreateApproval(s, i)
    \/ \E a \in Attempts :
        \/ \E p \in Params : Prepare(a, p)
        \/ Consume(a)
        \/ \E td \in Times \cup {NoReading} : Dispatch(a, td)
        \/ \E outcome \in {"returned", "threw"} : Settle(a, outcome)
        \/ Crash(a)

Spec == Init /\ [][Next]_vars

-----------------------------------------------------------------------------
(* verifyApprovalExecutionLink.                                            *)

PresentableObservations ==
    {[o EXCEPT !.form = f] : o \in observations, f \in Forms}
    \cup {[o EXCEPT !.payload = p.payload] : o, p \in observations}

\* A check that depends on one that failed has failed too.
LinkChecks(e, o, approver, observer) ==
    LET A1 == EnvelopeCode(e) = "ok"
        E1 == EnvelopeCode(o) = "ok"
    IN  [A1 |-> A1,
         A2 |-> A1 /\ Genuine(e) /\ e.signer = approver,
         A3 |-> A1 /\ e.payload.decision = "approved",
         E1 |-> E1,
         E2 |-> E1 /\ Genuine(o) /\ o.signer = observer,
         L1 |-> A1 /\ E1 /\ o.payload.approvalReceiptHash = ReceiptHash(e),
         L2 |-> A1 /\ E1 /\ o.payload.context = e.payload.context,
         L3 |-> A1 /\ E1 /\ o.payload.action = e.payload.digest,
         L4 |-> /\ A1 /\ E1
                /\ e.payload.decidedAt <= o.payload.dispatchedAt
                /\ ~Expired(e, o.payload.dispatchedAt)]

Linked(e, o, observer) ==
    LET checks == LinkChecks(e, o, Trusted, observer)
    IN  \A c \in DOMAIN checks : checks[c]

-----------------------------------------------------------------------------
(* What has to hold.                                                       *)

Dispatched(a) == attempts[a].dispatchedAt # None

\* A `once` approval is acted on once: of all attempts that present it, in
\* whatever envelope and from whatever process, at most one ever dispatches,
\* and no crash or retry gives it back (approval.ts, step 5).
OnceDispatchedOnce ==
    \A a, b \in Attempts :
        /\ Dispatched(a) /\ Dispatched(b)
        /\ Once(attempts[a].envelope) /\ attempts[a].envelope.payload = attempts[b].envelope.payload
        => a = b

\* What was dispatched is what was reviewed: an approver the executor trusts
\* signed `approved` for these very arguments in this context, and the moment
\* that is told to the world lies in the window that was granted.
DispatchedAsApproved ==
    \A a \in Attempts : Dispatched(a) =>
        \E r \in receipts :
            /\ r.signer = Trusted /\ r.payload = attempts[a].envelope.payload
            /\ r.payload.decision = "approved"
            /\ r.payload.context = attempts[a].context
            /\ r.payload.digest = attempts[a].value
            /\ r.payload.decidedAt <= attempts[a].dispatchedAt
            /\ ~Expired(r, attempts[a].dispatchedAt)

\* An approval is used up only by a dispatch or by a failure nobody can foresee:
\* of the process, the store or the clock. What a caller got wrong, an observer
\* key that cannot sign included, is found before the claim, and a receipt with
\* a deadline is never claimed.
SpentForACause ==
    \A claim \in consumed : \E a \in Attempts :
        /\ attempts[a].claimed /\ Claim(attempts[a].envelope) = claim /\ Once(attempts[a].envelope)
        /\ \/ attempts[a].phase \in {"cleared", "dead"} \/ Dispatched(a)
           \/ attempts[a].code \in {"consume_rejected", "invalid_clock", "future_decision"}

\* The offline check of a link accepts an approval and an observation exactly
\* when the observation was signed for a dispatch under that envelope, in the
\* form it was presented in, and tells how it settled.
LinkedIffExecuted ==
    \A e \in Presentable, o \in PresentableObservations, x \in Observers :
        Linked(e, o, x) <=>
            \E a \in Attempts :
                /\ attempts[a].phase \in {"returned", "threw"}
                /\ attempts[a].envelope = e /\ attempts[a].observer = x
                /\ o \in observations \cup {[p EXCEPT !.form = "recased"] : p \in observations}
                /\ o.payload.attempt = a /\ o.payload.outcome = attempts[a].phase
=============================================================================
