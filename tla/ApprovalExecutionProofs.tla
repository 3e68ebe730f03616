---------------------- MODULE ApprovalExecutionProofs ----------------------
(***************************************************************************)
(* A `once` approval is acted on once, and only as it was reviewed, for    *)
(* any number of executors, receipts, contexts, arguments and clocks.      *)
(***************************************************************************)
EXTENDS ApprovalExecution, VerdictProofs

Payloads == {Payload(i) : i \in Inputs}
Values == {ValueOf[t] : t \in Texts}
Envelopes == [payload : Payloads, signed : Payloads, signer : Signers, form : Forms]
Phases == {"idle", "blocked", "prepared", "cleared", "dispatched", "returned", "threw", "dead"}
Codes == Forms \cup {"none", "ok", "malformed_input", "arguments_out_of_domain", "observer_invalid",
    "signature_invalid", "untrusted_signer", "decision_not_approved", "context_mismatch",
    "arguments_mismatch", "invalid_clock", "future_decision", "expired", "consume_required",
    "consume_rejected"}
Calls == [phase : Phases, envelope : Envelopes \cup {None}, context : Contexts \cup {None},
          value : Values \cup {None}, observer : Observers \cup {None, "unusable"},
          dispatchedAt : Times \cup {None}, claimed : BOOLEAN, code : Codes]

Typed ==
    /\ receipts \subseteq Envelopes
    /\ attempts \in [Attempts -> Calls]

\* Published receipts carry the payload that was signed.
SignedAsPublished == \A r \in receipts : Genuine(r)

\* What the checks before the claim have established.
Reviewed(r) ==
    /\ r.envelope \in Envelopes /\ r.envelope.signer = Trusted
    /\ r.envelope.form \in {"asSigned", "recased"} /\ Genuine(r.envelope)
    /\ \E s \in receipts :
        /\ s.signer = Trusted /\ s.payload = r.envelope.payload
        /\ s.payload.decision = "approved"
        /\ s.payload.context = r.context /\ s.payload.digest = r.value

Past(r) == r.phase \in {"prepared", "cleared", "dispatched", "returned", "threw", "dead"}
CheckedFirst == \A a \in Attempts :
    Past(attempts[a]) \/ attempts[a].claimed => Reviewed(attempts[a])

\* Who dispatched a `once` receipt, or is about to, holds its claim, and nobody
\* else does.
ClaimedFirst == \A a \in Attempts :
    /\ attempts[a].phase = "cleared" \/ attempts[a].dispatchedAt # None
    /\ Once(attempts[a].envelope)
    => attempts[a].claimed
ClaimsStored == \A a \in Attempts :
    attempts[a].claimed => Claim(attempts[a].envelope) \in consumed
ClaimsExclusive == \A a, b \in Attempts :
    /\ attempts[a].claimed /\ attempts[b].claimed
    /\ Claim(attempts[a].envelope) = Claim(attempts[b].envelope)
    => a = b

InWindow == \A a \in Attempts :
    attempts[a].dispatchedAt # None =>
        /\ attempts[a].phase \in {"dispatched", "returned", "threw", "dead"}
        /\ attempts[a].envelope.payload.decidedAt <= attempts[a].dispatchedAt
        /\ ~Expired(attempts[a].envelope, attempts[a].dispatchedAt)

\* An attempt that claimed went on, died, or was blocked by what nobody foresees.
ClaimsUsed == \A a \in Attempts : attempts[a].claimed =>
    /\ Once(attempts[a].envelope)
    /\ \/ attempts[a].phase \in {"cleared", "dispatched", "returned", "threw", "dead"}
       \/ /\ attempts[a].phase = "blocked"
          /\ attempts[a].code \in {"consume_rejected", "invalid_clock", "future_decision"}
    /\ attempts[a].phase \in {"dispatched", "returned", "threw"} => Dispatched(a)
ClaimsOwned == \A claim \in consumed : \E a \in Attempts :
    attempts[a].claimed /\ Claim(attempts[a].envelope) = claim

IInv == /\ Typed /\ SignedAsPublished /\ CheckedFirst /\ ClaimedFirst /\ ClaimsStored
        /\ ClaimsExclusive /\ InWindow /\ ClaimsUsed /\ ClaimsOwned

USE DEF Once, Claim, Genuine, Dispatched, Analyzed

\* What the first cascade answers is a code, and none of its codes is "ok".
LEMMA ChecksPassed ==
    ASSUME NEW p, p.envelope.form \in Forms
    PROVE  LET code == FirstRefusal(Checks(p), "ok") IN
           /\ code \in Codes
           /\ code = "ok" =>
                /\ ValueOf[p.text] # OutOfDomain /\ p.envelope.form \in {"asSigned", "recased"}
                /\ Genuine(p.envelope) /\ p.envelope.signer = Trusted
                /\ p.envelope.payload.decision = "approved"
                /\ p.envelope.payload.context = p.context
                /\ p.envelope.payload.digest = ValueOf[p.text]
<1> DEFINE checks == Checks(p)
<1> DEFINE failed == {i \in DOMAIN checks : ~checks[i][1]}
<1>1. DOMAIN checks = 1 .. 13 /\ DOMAIN checks \in SUBSET Nat
  BY DEF Checks
<1>2. \A i \in DOMAIN checks : ~checks[i][1] => checks[i][2] \in Codes /\ checks[i][2] # "ok"
  <2>1. \A i \in 1 .. 13 : i # 4 => checks[i][2] \in Codes /\ checks[i][2] # "ok"
    BY SMTT(60) DEF Checks, Codes
  <2>2. EnvelopeCode(p.envelope) \in Codes
    BY DEF EnvelopeCode, Forms, Codes
  <2>3. checks[4][2] \in Codes /\ (~checks[4][1] => checks[4][2] # "ok")
    BY <2>2 DEF Checks
  <2> QED BY <1>1, <2>1, <2>3, SMTT(60)
<1>3. CASE failed = {}
  <2>1. FirstRefusal(checks, "ok") = "ok"
    BY <1>3 DEF FirstRefusal
  <2>2. \A i \in 1 .. 13 : checks[i][1]
    BY <1>1, <1>3
  <2>3. /\ checks[2][1] /\ checks[4][1] /\ checks[5][1] /\ checks[6][1]
        /\ checks[7][1] /\ checks[8][1] /\ checks[9][1]
    BY <2>2
  <2>4. /\ checks[2][1] = (ValueOf[p.text] # OutOfDomain)
        /\ checks[4][1] = (EnvelopeCode(p.envelope) = "ok")
        /\ checks[5][1] = Genuine(p.envelope)
        /\ checks[6][1] = (p.envelope.signer = Trusted)
        /\ checks[7][1] = (p.envelope.payload.decision = "approved")
        /\ checks[8][1] = (p.envelope.payload.context = p.context)
        /\ checks[9][1] = (p.envelope.payload.digest = ValueOf[p.text])
    BY DEF Checks
  <2>5. EnvelopeCode(p.envelope) = "ok" => p.envelope.form \in {"asSigned", "recased"}
    BY DEF EnvelopeCode, Forms
  <2> HIDE DEF checks
  <2>6. FirstRefusal(checks, "ok") \in Codes
    BY <2>1 DEF Codes
  <2>7. /\ ValueOf[p.text] # OutOfDomain /\ EnvelopeCode(p.envelope) = "ok"
        /\ Genuine(p.envelope) /\ p.envelope.signer = Trusted
        /\ p.envelope.payload.decision = "approved"
        /\ p.envelope.payload.context = p.context
        /\ p.envelope.payload.digest = ValueOf[p.text]
    BY <2>3, <2>4
  <2> QED BY <2>5, <2>6, <2>7 DEF checks
<1>4. CASE failed # {}
  <2>1. \E i \in DOMAIN checks : ~checks[i][1] /\ FirstRefusal(checks, "ok") = checks[i][2]
    BY <1>1, <1>4, FirstRefusalFails
  <2> QED BY <1>2, <2>1
<1> QED BY <1>3, <1>4

\* The second reading of the clock passed: the approval is still in its window.
LEMMA RechecksPassed ==
    ASSUME NEW e, NEW td
    PROVE  LET code == FirstRefusal(Rechecks(e, td), "ok") IN
           /\ code \in {"ok", "invalid_clock", "future_decision", "expired"}
           /\ code = "ok" => Readable(td) /\ Decided(e, td) /\ InTime(e, td)
           /\ code = "expired" => ~InTime(e, td)
<1> DEFINE checks == Rechecks(e, td)
<1>1. DOMAIN checks = 1 .. 3 /\ DOMAIN checks \in SUBSET Nat
  BY DEF Rechecks
<1>2. CASE \A i \in DOMAIN checks : checks[i][1]
  <2>1. FirstRefusal(checks, "ok") = "ok"
    BY <1>2 DEF FirstRefusal
  <2>2. checks[1][1] /\ checks[2][1] /\ checks[3][1]
    BY <1>1, <1>2
  <2> QED BY <2>1, <2>2 DEF Rechecks
<1>3. CASE \E i \in DOMAIN checks : ~checks[i][1]
  <2>1. PICK i \in DOMAIN checks : ~checks[i][1] /\ FirstRefusal(checks, "ok") = checks[i][2]
    BY <1>1, <1>3, FirstRefusalFails
  <2> QED BY <1>1, <2>1 DEF Rechecks
<1> QED BY <1>2, <1>3

\* What is presented is typed; when its payload is the signed one, a receipt of
\* the same signer was published with that payload.
LEMMA PresentedEnvelope ==
    ASSUME Typed, SignedAsPublished, NEW e \in Presentable
    PROVE  /\ e \in Envelopes
           /\ Genuine(e) => \E s \in receipts : s.signer = e.signer /\ s.payload = e.payload
<1>1. CASE \E r \in receipts, f \in Forms : e = [r EXCEPT !.form = f]
  BY <1>1 DEF Typed, Envelopes
<1>2. CASE \E r, s \in receipts : e = [r EXCEPT !.payload = s.payload]
  <2>1. PICK r \in receipts, s \in receipts : e = [r EXCEPT !.payload = s.payload]
    BY <1>2
  <2>2. r \in Envelopes /\ s \in Envelopes /\ r.payload = r.signed
    BY DEF Typed, SignedAsPublished
  <2>3. e \in Envelopes /\ e.signed = r.signed /\ e.signer = r.signer
    BY <2>1, <2>2 DEF Envelopes
  <2> QED BY <2>2, <2>3
<1> QED BY <1>1, <1>2 DEF Presentable

\* Before the first attempt nothing is claimed and nothing was dispatched.
LEMMA InitIInv == Init => IInv
BY DEF Init, IInv, Typed, Calls, Phases, Codes, Idle, SignedAsPublished, CheckedFirst, Past,
       ClaimedFirst, ClaimsStored, ClaimsExclusive, InWindow, ClaimsUsed, ClaimsOwned

\* A new receipt leaves every review as it was.
LEMMA CreateKeeps ==
    ASSUME IInv, NEW s \in Signers, NEW i \in Inputs, CreateApproval(s, i)
    PROVE  IInv'
<1>1. Sign(Payload(i), s) \in Envelopes /\ Genuine(Sign(Payload(i), s))
  BY DEF Sign, Envelopes, Payloads, Forms
<1>2. Typed' /\ SignedAsPublished'
  BY <1>1 DEF CreateApproval, IInv, Typed, SignedAsPublished
<1>3. \A a \in Attempts : Reviewed(attempts[a]) => Reviewed(attempts[a])'
  BY DEF CreateApproval, Reviewed
<1>4. CheckedFirst'
  BY <1>3 DEF CreateApproval, IInv, CheckedFirst, Past
<1>5. /\ ClaimedFirst' /\ ClaimsStored' /\ ClaimsExclusive'
      /\ InWindow' /\ ClaimsUsed' /\ ClaimsOwned'
  BY DEF CreateApproval, IInv, ClaimedFirst, ClaimsStored, ClaimsExclusive, InWindow, Past,
         Expired, ClaimsUsed, ClaimsOwned
<1> QED BY <1>2, <1>4, <1>5 DEF IInv

\* An attempt that prepares may be refused, blocked or wait for its claim; one
\* that waits has passed every check of steps 1 to 4.
LEMMA PrepareKeeps ==
    ASSUME IInv, NEW a \in Attempts, NEW p \in Params, Prepare(a, p)
    PROVE  IInv'
<1> DEFINE code == FirstRefusal(Checks(p), "ok")
<1> DEFINE r == attempts'[a]
<1>0. /\ attempts[a].phase = "idle" /\ ~Past(attempts[a])
      /\ \A b \in Attempts : b # a => attempts'[b] = attempts[b]
      /\ receipts' = receipts /\ consumed' = consumed
      /\ attempts \in [Attempts -> Calls]
  BY DEF Prepare, IInv, Typed, Past
<1>1. p.envelope \in Envelopes /\ p.envelope.form \in Forms
  BY PresentedEnvelope DEF Params, IInv, Envelopes
<1>2. code \in Codes
  BY <1>1, ChecksPassed
<1>3. /\ r.dispatchedAt = None /\ ~r.claimed /\ r.phase \in {"blocked", "prepared"}
      /\ r \in Calls
  <2>1. CASE code # "ok"
    BY <1>0, <1>2, <2>1 DEF Prepare, Idle, Calls, Phases
  <2>2. CASE code = "ok"
    BY <1>0, <1>1, <2>2, ZenonT(60) DEF Prepare, Idle, Calls, Phases, Params, Values, Codes
  <2> QED BY <2>1, <2>2
<1>4. Past(r) => Reviewed(r)
  <2> SUFFICES ASSUME r.phase = "prepared" PROVE Reviewed(r)
    BY <1>3 DEF Past
  <2>1. code = "ok"
    BY <1>0 DEF Prepare, Idle
  <2>2. /\ r.envelope = p.envelope /\ r.context = p.context /\ r.value = ValueOf[p.text]
    BY <1>0, <2>1 DEF Prepare, Idle
  <2>3. /\ Genuine(p.envelope) /\ p.envelope.signer = Trusted
        /\ p.envelope.form \in {"asSigned", "recased"}
        /\ p.envelope.payload.decision = "approved"
        /\ p.envelope.payload.context = p.context
        /\ p.envelope.payload.digest = ValueOf[p.text]
    BY <1>1, <2>1, ChecksPassed
  <2>4. PICK s \in receipts : s.signer = Trusted /\ s.payload = p.envelope.payload
    BY <2>3, PresentedEnvelope DEF Params, IInv
  <2> QED BY <1>1, <2>2, <2>3, <2>4 DEF Reviewed
<1>5. ~attempts[a].claimed
  BY <1>0 DEF IInv, ClaimsUsed
<1> HIDE DEF code, r
<1>6. Typed' /\ SignedAsPublished'
  BY <1>0, <1>3 DEF IInv, Typed, SignedAsPublished, Prepare, r
<1>7. CheckedFirst'
  BY <1>0, <1>3, <1>4 DEF IInv, CheckedFirst, Reviewed, Past, r
<1>8. ClaimedFirst' /\ InWindow' /\ ClaimsUsed'
  BY <1>0, <1>3 DEF IInv, ClaimedFirst, InWindow, Past, ClaimsUsed, Expired, r
<1>9. ClaimsStored' /\ ClaimsExclusive' /\ ClaimsOwned'
  BY <1>0, <1>3, <1>5 DEF IInv, ClaimsStored, ClaimsExclusive, ClaimsOwned, r
<1> QED BY <1>6, <1>7, <1>8, <1>9 DEF IInv

\* What the claim makes of an attempt.
After(r) == {[r EXCEPT !.phase = "cleared"], [r EXCEPT !.phase = "cleared", !.claimed = TRUE],
             [r EXCEPT !.phase = "blocked", !.code = "consume_rejected"],
             [r EXCEPT !.phase = "blocked", !.code = "consume_rejected", !.claimed = TRUE]}

\* The store takes a claim once: of two attempts on one approval the second one
\* is answered false and blocks.
LEMMA ConsumeKeeps ==
    ASSUME IInv, NEW a \in Attempts, Consume(a)
    PROVE  IInv'
<1> DEFINE r == attempts[a]
<1> DEFINE n == attempts'[a]
<1> DEFINE claim == Claim(r.envelope)
<1>0. /\ r.phase = "prepared" /\ r \in Calls /\ ~r.claimed /\ r.dispatchedAt = None
      /\ Reviewed(r)
      /\ receipts' = receipts
      /\ attempts' \in [Attempts -> Calls]
      /\ \A b \in Attempts : b # a => attempts'[b] = attempts[b]
  <2>1. r.phase = "prepared" /\ r \in Calls /\ receipts' = receipts
    BY DEF Consume, IInv, Typed
  <2>2. \E x \in After(r) : attempts' = [attempts EXCEPT ![a] = x]
    BY <2>1 DEF Consume, After, IInv, Typed, Calls, Blocked
  <2>4. After(r) \subseteq Calls
    <3>1. /\ "cleared" \in Phases /\ "blocked" \in Phases /\ "consume_rejected" \in Codes
      BY SMTT(60) DEF Phases, Codes
    <3>2. ASSUME NEW q \in Calls, NEW ph \in Phases, NEW c \in Codes
          PROVE  /\ [q EXCEPT !.phase = ph] \in Calls
                 /\ [q EXCEPT !.phase = ph, !.claimed = TRUE] \in Calls
                 /\ [q EXCEPT !.phase = ph, !.code = c] \in Calls
                 /\ [q EXCEPT !.phase = ph, !.code = c, !.claimed = TRUE] \in Calls
      BY ZenonT(60) DEF Calls
    <3> HIDE DEF r
    <3>3. /\ [r EXCEPT !.phase = "cleared"] \in Calls
          /\ [r EXCEPT !.phase = "cleared", !.claimed = TRUE] \in Calls
      BY <2>1, <3>1, <3>2
    <3>4. /\ [r EXCEPT !.phase = "blocked", !.code = "consume_rejected"] \in Calls
          /\ [r EXCEPT !.phase = "blocked", !.code = "consume_rejected", !.claimed = TRUE] \in Calls
      BY <2>1, <3>1, <3>2
    <3> QED BY <3>3, <3>4 DEF After
  <2>3. Reviewed(r) /\ ~r.claimed /\ r.dispatchedAt = None
    BY <2>1 DEF IInv, CheckedFirst, Past, ClaimsUsed, InWindow
  <2>5. /\ attempts' \in [Attempts -> Calls]
        /\ \A b \in Attempts : b # a => attempts'[b] = attempts[b]
    BY <2>2, <2>4 DEF IInv, Typed
  <2> QED BY <2>1, <2>3, <2>5
<1>1. /\ n.envelope = r.envelope /\ n.context = r.context /\ n.value = r.value
      /\ n.dispatchedAt = None
      /\ \/ n.phase = "cleared" /\ (Once(r.envelope) => n.claimed)
         \/ n.phase = "blocked" /\ n.code = "consume_rejected"
      /\ n.claimed => Once(r.envelope)
      /\ \/ n.claimed /\ claim \notin consumed /\ consumed' = consumed \cup {claim}
         \/ ~n.claimed /\ consumed' = consumed
  <2>1. a \in DOMAIN attempts /\ r \in Calls
    BY DEF IInv, Typed
  <2>2. CASE ~Once(r.envelope)
    BY <1>0, <2>1, <2>2 DEF Consume, Calls
  <2>3. CASE /\ Once(r.envelope) /\ claim \notin consumed
             /\ consumed' = consumed \cup {claim}
             /\ attempts' = [attempts EXCEPT ![a].phase = "cleared", ![a].claimed = TRUE]
    BY <1>0, <2>1, <2>3 DEF Calls
  <2>4. CASE /\ Once(r.envelope) /\ consumed' = consumed
             /\ attempts' = [attempts EXCEPT ![a] = Blocked(r, "consume_rejected")]
    BY <1>0, <2>1, <2>4 DEF Calls, Blocked
  <2>5. CASE /\ Once(r.envelope) /\ claim \notin consumed
             /\ consumed' = consumed \cup {claim}
             /\ attempts' = [attempts EXCEPT ![a] =
                    [Blocked(r, "consume_rejected") EXCEPT !.claimed = TRUE]]
    BY <1>0, <2>1, <2>5 DEF Calls, Blocked
  <2> QED BY <2>2, <2>3, <2>4, <2>5 DEF Consume
<1> HIDE DEF n
<1>2. Typed' /\ SignedAsPublished'
  BY <1>0 DEF IInv, Typed, SignedAsPublished
<1>3. CheckedFirst'
  <2>1. Reviewed(attempts[a])'
    BY <1>0, <1>1 DEF Reviewed, n
  <2> QED BY <1>0, <2>1 DEF IInv, CheckedFirst, Reviewed, Past
<1>4. ClaimedFirst' /\ InWindow' /\ ClaimsUsed'
  BY <1>0, <1>1 DEF IInv, ClaimedFirst, InWindow, ClaimsUsed, Expired, n
<1>5. ClaimsStored'
  BY <1>0, <1>1 DEF IInv, ClaimsStored, n
<1>6. ClaimsExclusive'
  <2>1. ASSUME NEW b \in Attempts, b # a, attempts[b].claimed, n.claimed
        PROVE  Claim(attempts[b].envelope) # claim
    BY <1>1, <2>1 DEF IInv, ClaimsStored
  <2> QED BY <1>0, <1>1, <2>1 DEF IInv, ClaimsExclusive, n
<1>7. ClaimsOwned'
  BY <1>0, <1>1 DEF IInv, ClaimsOwned, n
<1> QED BY <1>2, <1>3, <1>4, <1>5, <1>6, <1>7 DEF IInv

\* Steps that claim nothing and leave what was checked as it was.
LEMMA LaterStepKeeps ==
    ASSUME IInv, NEW a \in Attempts, Past(attempts[a]),
           receipts' = receipts, consumed' = consumed, attempts' \in [Attempts -> Calls],
           \A b \in Attempts : b # a => attempts'[b] = attempts[b],
           attempts'[a].envelope = attempts[a].envelope,
           attempts'[a].context = attempts[a].context, attempts'[a].value = attempts[a].value,
           attempts'[a].claimed = attempts[a].claimed
    PROVE  /\ Typed' /\ SignedAsPublished' /\ CheckedFirst'
           /\ ClaimsStored' /\ ClaimsExclusive' /\ ClaimsOwned'
<1>1. Typed' /\ SignedAsPublished'
  BY DEF IInv, Typed, SignedAsPublished
<1>2. Reviewed(attempts[a])'
  BY DEF IInv, CheckedFirst, Reviewed
<1>3. CheckedFirst'
  BY <1>2 DEF IInv, CheckedFirst, Reviewed, Past
<1>4. ClaimsStored' /\ ClaimsExclusive' /\ ClaimsOwned'
  BY DEF IInv, ClaimsStored, ClaimsExclusive, ClaimsOwned
<1> QED BY <1>1, <1>3, <1>4

\* A dispatch follows the attempt's own claim and a second reading of the clock.
LEMMA DispatchKeeps ==
    ASSUME IInv, NEW a \in Attempts, NEW td \in Times \cup {NoReading}, Dispatch(a, td)
    PROVE  IInv'
<1> DEFINE r == attempts[a]
<1> DEFINE n == attempts'[a]
<1> DEFINE code == FirstRefusal(Rechecks(r.envelope, td), "ok")
<1>0. /\ r.phase = "cleared" /\ r \in Calls /\ r.dispatchedAt = None
      /\ Once(r.envelope) => r.claimed
      /\ a \in DOMAIN attempts
      /\ receipts' = receipts /\ consumed' = consumed
      /\ \A b \in Attempts : b # a => attempts'[b] = attempts[b]
  BY DEF Dispatch, IInv, Typed, InWindow, ClaimedFirst
<1>1. CASE code = "ok"
  <2>1. td \in Times /\ r.envelope.payload.decidedAt <= td /\ ~Expired(r.envelope, td)
    BY <1>1, RechecksPassed DEF Readable, Decided, InTime
  <2>2. attempts' = [attempts EXCEPT ![a] = [r EXCEPT !.phase = "dispatched", !.dispatchedAt = td]]
    BY <1>1 DEF Dispatch
  <2>3. /\ n \in Calls /\ n.phase = "dispatched" /\ n.dispatchedAt = td
        /\ n.envelope = r.envelope /\ n.context = r.context /\ n.value = r.value
        /\ n.claimed = r.claimed
    BY <1>0, <2>1, <2>2, ZenonT(60) DEF Calls, Phases
  <2>4. attempts' \in [Attempts -> Calls]
    BY <2>2, <2>3 DEF IInv, Typed
  <2>5. /\ Typed' /\ SignedAsPublished' /\ CheckedFirst'
        /\ ClaimsStored' /\ ClaimsExclusive' /\ ClaimsOwned'
    BY <1>0, <2>3, <2>4, LaterStepKeeps DEF Past
  <2>6. td # None
    BY <2>1, ApprovalConstants
  <2> HIDE DEF n
  <2>7. ClaimedFirst' /\ InWindow' /\ ClaimsUsed'
    BY <1>0, <2>1, <2>3, <2>6 DEF IInv, ClaimedFirst, InWindow, ClaimsUsed, Expired, n
  <2> QED BY <2>5, <2>7 DEF IInv
<1>2. CASE code # "ok"
  <2>1. /\ code \in {"invalid_clock", "future_decision", "expired"}
        /\ code = "expired" => ~Once(r.envelope)
    BY <1>2, RechecksPassed DEF InTime, Expired
  <2>2. attempts' = [attempts EXCEPT ![a] = Blocked(r, code)]
    BY <1>2 DEF Dispatch
  <2>7. code \in Codes
    BY <2>1 DEF Codes
  <2> HIDE DEF code
  <2>3. /\ n \in Calls /\ n.phase = "blocked" /\ n.code = code /\ n.dispatchedAt = None
        /\ n.envelope = r.envelope /\ n.context = r.context /\ n.value = r.value
        /\ n.claimed = r.claimed
    BY <1>0, <2>7, <2>2, ZenonT(60) DEF Calls, Phases, Blocked
  <2>4. attempts' \in [Attempts -> Calls]
    BY <2>2, <2>3 DEF IInv, Typed
  <2>5. /\ Typed' /\ SignedAsPublished' /\ CheckedFirst'
        /\ ClaimsStored' /\ ClaimsExclusive' /\ ClaimsOwned'
    BY <1>0, <2>3, <2>4, LaterStepKeeps DEF Past
  <2> HIDE DEF n
  <2>6. ClaimedFirst' /\ InWindow' /\ ClaimsUsed'
    BY <1>0, <2>1, <2>3 DEF IInv, ClaimedFirst, InWindow, ClaimsUsed, Expired, n
  <2> QED BY <2>5, <2>6 DEF IInv
<1> QED BY <1>1, <1>2

\* A settlement or a crash changes the phase of an attempt and nothing else here.
LEMMA EndKeeps ==
    ASSUME IInv, NEW a \in Attempts, NEW phase \in {"returned", "threw", "dead"},
           attempts[a].phase \in {"prepared", "cleared", "dispatched"},
           phase # "dead" => attempts[a].phase = "dispatched",
           attempts' = [attempts EXCEPT ![a].phase = phase],
           receipts' = receipts, consumed' = consumed
    PROVE  IInv'
<1> DEFINE r == attempts[a]
<1> DEFINE n == attempts'[a]
<1>0. r \in Calls /\ a \in DOMAIN attempts
  BY DEF IInv, Typed
<1>1. /\ n \in Calls /\ n.phase = phase /\ n.dispatchedAt = r.dispatchedAt
      /\ n.envelope = r.envelope /\ n.context = r.context /\ n.value = r.value
      /\ n.claimed = r.claimed
      /\ \A b \in Attempts : b # a => attempts'[b] = attempts[b]
  BY <1>0 DEF Calls, Phases, IInv, Typed
<1>2. attempts' \in [Attempts -> Calls]
  BY <1>1 DEF IInv, Typed
<1>3. /\ Typed' /\ SignedAsPublished' /\ CheckedFirst'
      /\ ClaimsStored' /\ ClaimsExclusive' /\ ClaimsOwned'
  BY <1>1, <1>2, LaterStepKeeps DEF Past
<1>4. r.phase = "dispatched" /\ r.claimed => r.dispatchedAt # None
  BY DEF IInv, ClaimsUsed
<1> HIDE DEF n
<1>5. ClaimedFirst' /\ InWindow' /\ ClaimsUsed'
  BY <1>1, <1>4 DEF IInv, ClaimedFirst, InWindow, ClaimsUsed, Expired, n
<1> QED BY <1>3, <1>5 DEF IInv

\* The strengthened invariant is inductive: one case per action.
LEMMA NextKeepsIInv == IInv /\ [Next]_vars => IInv'
<1> SUFFICES ASSUME IInv, [Next]_vars PROVE IInv'
  OBVIOUS
<1>1. CASE UNCHANGED vars
  BY <1>1 DEF vars, IInv, Typed, SignedAsPublished, CheckedFirst, Reviewed, Past, ClaimedFirst,
              ClaimsStored, ClaimsExclusive, InWindow, Expired, ClaimsUsed, ClaimsOwned
<1>2. ASSUME NEW s \in Signers, NEW i \in Inputs, CreateApproval(s, i) PROVE IInv'
  BY <1>2, CreateKeeps
<1>3. ASSUME NEW a \in Attempts, NEW p \in Params, Prepare(a, p) PROVE IInv'
  BY <1>3, PrepareKeeps
<1>4. ASSUME NEW a \in Attempts, Consume(a) PROVE IInv'
  BY <1>4, ConsumeKeeps
<1>5. ASSUME NEW a \in Attempts, NEW td \in Times \cup {NoReading}, Dispatch(a, td) PROVE IInv'
  BY <1>5, DispatchKeeps
<1>6. ASSUME NEW a \in Attempts, NEW outcome \in {"returned", "threw"}, Settle(a, outcome) PROVE IInv'
  BY <1>6, EndKeeps DEF Settle
<1>7. ASSUME NEW a \in Attempts, Crash(a) PROVE IInv'
  BY <1>7, EndKeeps DEF Crash
<1> QED BY <1>1, <1>2, <1>3, <1>4, <1>5, <1>6, <1>7 DEF Next

\* The strengthened invariant holds in every reachable state.
LEMMA IInvHolds == Spec => []IInv
BY InitIInv, NextKeepsIInv, PTL DEF Spec

\* For any executors, receipts and clocks, at most one attempt ever dispatches on
\* a `once` approval (approval.ts, steps 5 and 6).
THEOREM OnceIsOnce == Spec => []OnceDispatchedOnce
<1>1. IInv => OnceDispatchedOnce
  <2> SUFFICES ASSUME IInv, NEW a \in Attempts, NEW b \in Attempts,
                      Dispatched(a), Dispatched(b), Once(attempts[a].envelope),
                      attempts[a].envelope.payload = attempts[b].envelope.payload
               PROVE  a = b
    BY DEF OnceDispatchedOnce
  <2>1. attempts[a].claimed /\ attempts[b].claimed
    BY DEF IInv, ClaimedFirst
  <2>2. attempts[a].envelope.signer = Trusted /\ attempts[b].envelope.signer = Trusted
    BY <2>1 DEF IInv, CheckedFirst, Reviewed
  <2> QED BY <2>1, <2>2 DEF IInv, ClaimsExclusive
<1> QED BY <1>1, IInvHolds, PTL

\* Whatever an executor is handed, it dispatches only what a trusted approver
\* approved, in that context and within the window (approval.ts, steps 3 to 6).
THEOREM OnlyTheApproved == Spec => []DispatchedAsApproved
<1>1. IInv => DispatchedAsApproved
  <2> SUFFICES ASSUME IInv, NEW a \in Attempts, Dispatched(a)
               PROVE  \E r \in receipts :
                         /\ r.signer = Trusted /\ r.payload = attempts[a].envelope.payload
                         /\ r.payload.decision = "approved"
                         /\ r.payload.context = attempts[a].context
                         /\ r.payload.digest = attempts[a].value
                         /\ r.payload.decidedAt <= attempts[a].dispatchedAt
                         /\ ~Expired(r, attempts[a].dispatchedAt)
    BY DEF DispatchedAsApproved
  <2>1. /\ attempts[a].envelope.payload.decidedAt <= attempts[a].dispatchedAt
        /\ ~Expired(attempts[a].envelope, attempts[a].dispatchedAt)
        /\ Reviewed(attempts[a])
    BY DEF IInv, InWindow, CheckedFirst, Past
  <2> QED BY <2>1 DEF Reviewed, Expired
<1> QED BY <1>1, IInvHolds, PTL

\* A claim in the store was made for a dispatch, or lost to a failure of the
\* process, the store or the clock; no mistake of a caller spends it.
THEOREM NoApprovalWasted == Spec => []SpentForACause
<1>1. IInv => SpentForACause
  BY DEF IInv, SpentForACause, ClaimsOwned, ClaimsUsed
<1> QED BY <1>1, IInvHolds, PTL

-----------------------------------------------------------------------------
(* Observations.                                                           *)

\* That an observation tells of an attempt in the state r.
TellsOf(o, a, r) ==
    /\ r.phase \in {"returned", "threw"}
    /\ o.payload = [approvalReceiptHash |-> r.envelope, context |-> r.context, attempt |-> a,
                    action |-> r.value, dispatchedAt |-> r.dispatchedAt, outcome |-> r.phase]
    /\ o = [payload |-> o.payload, signed |-> o.payload, signer |-> r.observer, form |-> "asSigned"]

\* Every observation tells of an attempt that has settled, which never changes.
ObservationsTrue ==
    /\ \A a \in Attempts : attempts[a].phase \in {"dispatched", "returned", "threw"} => Dispatched(a)
    /\ \A o \in observations : \E a \in Attempts : TellsOf(o, a, attempts[a])

\* A step that changes an attempt which has not settled tells nothing else.
LEMMA UntoldStays ==
    ASSUME ObservationsTrue, NEW a \in Attempts, attempts[a].phase \notin {"returned", "threw"},
           \A b \in Attempts : b # a => attempts'[b] = attempts[b],
           attempts'[a].phase \in {"dispatched", "returned", "threw"} => attempts'[a].dispatchedAt # None,
           \A o \in observations' : o \in observations \/ TellsOf(o, a, attempts'[a])
    PROVE  ObservationsTrue'
<1>1. ASSUME NEW o \in observations' PROVE \E b \in Attempts : TellsOf(o, b, attempts'[b])
  <2>1. CASE TellsOf(o, a, attempts'[a])
    BY <2>1
  <2>2. CASE o \in observations
    <3>1. PICK b \in Attempts : TellsOf(o, b, attempts[b])
      BY <2>2 DEF ObservationsTrue
    <3>2. b # a
      BY <3>1 DEF TellsOf
    <3>. QED
      BY <3>1, <3>2
  <2>. QED
    BY <1>1, <2>1, <2>2
<1>2. ASSUME NEW b \in Attempts, attempts'[b].phase \in {"dispatched", "returned", "threw"}
      PROVE  attempts'[b].dispatchedAt # None
  BY <1>2 DEF ObservationsTrue
<1>. QED
  BY <1>1, <1>2 DEF ObservationsTrue

\* A settlement that is observed tells how it ended.
LEMMA SettleTells ==
    ASSUME IInv, ObservationsTrue, NEW a \in Attempts, NEW outcome \in {"returned", "threw"}, Settle(a, outcome)
    PROVE  ObservationsTrue'
<1>1. PICK r, n : r = attempts[a] /\ n = [r EXCEPT !.phase = outcome]
  OBVIOUS
<1>2. /\ r \in Calls /\ r.phase = "dispatched" /\ r.dispatchedAt # None
      /\ attempts' = [attempts EXCEPT ![a] = n] /\ attempts'[a] = n
      /\ \A b \in Attempts : b # a => attempts'[b] = attempts[b]
  BY <1>1 DEF IInv, Typed, Settle, ObservationsTrue
<1>3. /\ n.phase = outcome /\ n.envelope = r.envelope /\ n.context = r.context /\ n.value = r.value
      /\ n.observer = r.observer /\ n.dispatchedAt = r.dispatchedAt
  BY <1>1, <1>2 DEF Calls
<1>4. PICK o : o = Observation(a, outcome)
  OBVIOUS
<1>5. TellsOf(o, a, n)
  BY <1>1, <1>3, <1>4 DEF TellsOf, Observation, Sign, ReceiptHash
<1>6. \A x \in observations' : x \in observations \/ TellsOf(x, a, attempts'[a])
  BY <1>2, <1>4, <1>5 DEF Settle
<1>7. attempts'[a].dispatchedAt # None /\ attempts[a].phase \notin {"returned", "threw"}
  BY <1>1, <1>2, <1>3
<1>. QED
  BY <1>2, <1>6, <1>7, UntoldStays

\* One case per action: nothing but a settlement observes, or changes one.
LEMMA NextTells == IInv /\ ObservationsTrue /\ [Next]_vars => ObservationsTrue'
<1>. SUFFICES ASSUME IInv, ObservationsTrue, [Next]_vars PROVE ObservationsTrue'
  OBVIOUS
<1>0. attempts \in [Attempts -> Calls]
  BY DEF IInv, Typed
<1>1. CASE UNCHANGED vars
  BY <1>1 DEF vars, ObservationsTrue
<1>2. ASSUME NEW s \in Signers, NEW i \in Inputs, CreateApproval(s, i) PROVE ObservationsTrue'
  BY <1>2 DEF CreateApproval, ObservationsTrue
<1>3. ASSUME NEW a \in Attempts, NEW p \in Params, Prepare(a, p) PROVE ObservationsTrue'
  <2>1. attempts'[a].phase \in {"blocked", "prepared"}
    BY <1>0, <1>3 DEF Prepare, Idle
  <2>2. /\ attempts[a].phase = "idle" /\ observations' = observations
        /\ \A b \in Attempts : b # a => attempts'[b] = attempts[b]
    BY <1>0, <1>3 DEF Prepare
  <2>. QED
    BY <2>1, <2>2, UntoldStays
<1>4. ASSUME NEW a \in Attempts, Consume(a) PROVE ObservationsTrue'
  <2>1. PICK r : r = attempts[a] /\ r \in Calls
    BY <1>0
  <2>2. PICK n \in After(r) : attempts' = [attempts EXCEPT ![a] = n]
    BY <1>0, <1>4, <2>1 DEF Consume, After, Calls, Blocked
  <2>3. n.phase \in {"cleared", "blocked"}
    BY <2>1, <2>2 DEF After, Calls
  <2>4. /\ attempts[a].phase = "prepared" /\ observations' = observations /\ attempts'[a] = n
        /\ \A b \in Attempts : b # a => attempts'[b] = attempts[b]
    BY <1>0, <1>4, <2>2 DEF Consume
  <2>. QED
    BY <2>3, <2>4, UntoldStays
<1>5. ASSUME NEW a \in Attempts, NEW td \in Times \cup {NoReading}, Dispatch(a, td) PROVE ObservationsTrue'
  <2>1. PICK r : r = attempts[a] /\ r \in Calls
    BY <1>0
  <2>2. PICK code : code = FirstRefusal(Rechecks(r.envelope, td), "ok")
    OBVIOUS
  <2>3. PICK n : /\ n = IF code # "ok" THEN Blocked(r, code)
                        ELSE [r EXCEPT !.phase = "dispatched", !.dispatchedAt = td]
                 /\ attempts' = [attempts EXCEPT ![a] = n]
    BY <1>5, <2>1, <2>2 DEF Dispatch
  <2>4. n.phase = "dispatched" => n.dispatchedAt # None
    <3>1. CASE code = "ok"
      <4>1. td \in Times
        BY <2>2, <3>1, RechecksPassed DEF Readable
      <4>2. n.dispatchedAt = td
        BY <2>1, <2>3, <3>1 DEF Calls
      <4>. QED
        BY <4>1, <4>2, ApprovalConstants
    <3>2. CASE code # "ok"
      BY <2>1, <2>3, <3>2 DEF Blocked, Calls
    <3>. QED
      BY <3>1, <3>2
  <2>5. n.phase \in {"blocked", "dispatched"}
    BY <2>1, <2>3 DEF Blocked, Calls
  <2>6. /\ attempts[a].phase = "cleared" /\ observations' = observations /\ attempts'[a] = n
        /\ \A b \in Attempts : b # a => attempts'[b] = attempts[b]
    BY <1>0, <1>5, <2>3 DEF Dispatch
  <2>. QED
    BY <2>4, <2>5, <2>6, UntoldStays
<1>6. ASSUME NEW a \in Attempts, NEW outcome \in {"returned", "threw"}, Settle(a, outcome)
      PROVE  ObservationsTrue'
  BY <1>6, SettleTells
<1>7. ASSUME NEW a \in Attempts, Crash(a) PROVE ObservationsTrue'
  <2>1. /\ attempts[a].phase \notin {"returned", "threw"} /\ observations' = observations
        /\ attempts'[a].phase = "dead" /\ \A b \in Attempts : b # a => attempts'[b] = attempts[b]
    BY <1>0, <1>7 DEF Crash, Calls
  <2>. QED
    BY <2>1, UntoldStays
<1>. QED
  BY <1>1, <1>2, <1>3, <1>4, <1>5, <1>6, <1>7 DEF Next

\* What is presented as an observation and verifies is one, or one in other letters.
LEMMA PresentedObservation ==
    ASSUME ObservationsTrue, NEW o \in PresentableObservations, EnvelopeCode(o) = "ok", Genuine(o)
    PROVE  o \in observations \cup {[p EXCEPT !.form = "recased"] : p \in observations}
<1>1. \A p \in observations :
         /\ p = [payload |-> p.payload, signed |-> p.payload, signer |-> p.signer, form |-> "asSigned"]
         /\ p.signed = p.payload
  <2>. TAKE p \in observations
  <2>1. PICK a \in Attempts : TellsOf(p, a, attempts[a])
    BY DEF ObservationsTrue
  <2>2. PICK payload, signer : p = [payload |-> payload, signed |-> payload, signer |-> signer, form |-> "asSigned"]
    BY <2>1 DEF TellsOf
  <2>. QED
    BY <2>2
<1>2. CASE \E p \in observations, f \in Forms : o = [p EXCEPT !.form = f]
  <2>1. PICK p \in observations, f \in Forms : o = [p EXCEPT !.form = f]
    BY <1>2
  <2>2. o.form = f
    BY <1>1, <2>1
  <2>3. f \in {"asSigned", "recased"}
    BY <2>2 DEF EnvelopeCode, Forms
  <2>4. CASE f = "asSigned"
    <3>1. o = p
      BY <1>1, <2>1, <2>4
    <3>. QED
      BY <3>1
  <2>. QED
    BY <2>1, <2>3, <2>4
<1>3. CASE \E p, q \in observations : o = [p EXCEPT !.payload = q.payload]
  <2>1. PICK p \in observations, q \in observations : o = [p EXCEPT !.payload = q.payload]
    BY <1>3
  <2>2. o.payload = q.payload /\ o.signed = p.signed /\ p.signed = p.payload
    BY <1>1, <2>1
  <2>3. q.payload = p.payload
    BY <2>2
  <2>4. o = p
    BY <1>1, <2>1, <2>3
  <2>. QED
    BY <2>4
<1>. QED
  BY <1>2, <1>3 DEF PresentableObservations

\* The nine checks, one by one, of two envelopes in order.
LEMMA LinkedMeans ==
    ASSUME NEW e, NEW o, NEW x
    PROVE  Linked(e, o, x) <=>
             /\ EnvelopeCode(e) = "ok" /\ Genuine(e) /\ e.signer = Trusted /\ e.payload.decision = "approved"
             /\ EnvelopeCode(o) = "ok" /\ Genuine(o) /\ o.signer = x
             /\ o.payload.approvalReceiptHash = e /\ o.payload.context = e.payload.context
             /\ o.payload.action = e.payload.digest
             /\ e.payload.decidedAt <= o.payload.dispatchedAt /\ ~Expired(e, o.payload.dispatchedAt)
<1>1. PICK c : c = LinkChecks(e, o, Trusted, x)
  OBVIOUS
<1>2. /\ DOMAIN c = {"A1", "A2", "A3", "E1", "E2", "L1", "L2", "L3", "L4"}
      /\ c.A1 = (EnvelopeCode(e) = "ok") /\ c.E1 = (EnvelopeCode(o) = "ok")
      /\ c.A2 = (c.A1 /\ Genuine(e) /\ e.signer = Trusted) /\ c.A3 = (c.A1 /\ e.payload.decision = "approved")
      /\ c.E2 = (c.E1 /\ Genuine(o) /\ o.signer = x)
      /\ c.L1 = (c.A1 /\ c.E1 /\ o.payload.approvalReceiptHash = e)
      /\ c.L2 = (c.A1 /\ c.E1 /\ o.payload.context = e.payload.context)
      /\ c.L3 = (c.A1 /\ c.E1 /\ o.payload.action = e.payload.digest)
      /\ c.L4 = (/\ c.A1 /\ c.E1 /\ e.payload.decidedAt <= o.payload.dispatchedAt
                 /\ ~Expired(e, o.payload.dispatchedAt))
  BY <1>1 DEF LinkChecks, ReceiptHash
<1>3. Linked(e, o, x) <=> \A k \in DOMAIN c : c[k]
  BY <1>1 DEF Linked
<1>4. Linked(e, o, x) <=> c.A1 /\ c.A2 /\ c.A3 /\ c.E1 /\ c.E2 /\ c.L1 /\ c.L2 /\ c.L3 /\ c.L4
  BY <1>2, <1>3
<1>. QED
  BY <1>2, <1>4

LEMMA LinkFollows == IInv /\ ObservationsTrue => LinkedIffExecuted
<1>. SUFFICES ASSUME IInv, ObservationsTrue, NEW e \in Presentable, NEW o \in PresentableObservations,
                     NEW x \in Observers
              PROVE  Linked(e, o, x) <=>
                        \E a \in Attempts :
                            /\ attempts[a].phase \in {"returned", "threw"}
                            /\ attempts[a].envelope = e /\ attempts[a].observer = x
                            /\ o \in observations \cup {[p EXCEPT !.form = "recased"] : p \in observations}
                            /\ o.payload.attempt = a /\ o.payload.outcome = attempts[a].phase
  BY DEF LinkedIffExecuted
<1>. DEFINE Known == observations \cup {[p EXCEPT !.form = "recased"] : p \in observations}
<1>1. ASSUME o \in Known
      PROVE  \E a \in Attempts :
                /\ attempts[a].phase \in {"returned", "threw"}
                /\ o.payload.approvalReceiptHash = attempts[a].envelope /\ o.payload.context = attempts[a].context
                /\ o.payload.action = attempts[a].value /\ o.payload.dispatchedAt = attempts[a].dispatchedAt
                /\ o.payload.attempt = a /\ o.payload.outcome = attempts[a].phase
                /\ o.signer = attempts[a].observer /\ Genuine(o) /\ EnvelopeCode(o) = "ok"
  <2>1. PICK p \in observations : o = p \/ o = [p EXCEPT !.form = "recased"]
    BY <1>1
  <2>2. PICK a \in Attempts : TellsOf(p, a, attempts[a])
    BY DEF ObservationsTrue
  <2>3. PICK payload, signer : p = [payload |-> payload, signed |-> payload, signer |-> signer, form |-> "asSigned"]
    BY <2>2 DEF TellsOf
  <2>4. /\ o.payload = p.payload /\ o.signed = p.payload /\ o.signer = p.signer
        /\ o.form \in {"asSigned", "recased"}
    BY <2>1, <2>3
  <2>5. p.signer = attempts[a].observer
    BY <2>2 DEF TellsOf
  <2>. QED
    BY <2>2, <2>4, <2>5 DEF TellsOf, EnvelopeCode
<1>2. ASSUME Linked(e, o, x)
      PROVE  \E a \in Attempts :
                /\ attempts[a].phase \in {"returned", "threw"}
                /\ attempts[a].envelope = e /\ attempts[a].observer = x /\ o \in Known
                /\ o.payload.attempt = a /\ o.payload.outcome = attempts[a].phase
  <2>1. EnvelopeCode(o) = "ok" /\ Genuine(o) /\ o.signer = x /\ o.payload.approvalReceiptHash = e
    BY <1>2, LinkedMeans
  <2>2. o \in Known
    BY <2>1, PresentedObservation
  <2>. QED
    BY <1>1, <2>1, <2>2
<1>3. ASSUME NEW a \in Attempts, attempts[a].phase \in {"returned", "threw"}, attempts[a].envelope = e,
             attempts[a].observer = x, o \in Known, o.payload.attempt = a
      PROVE  Linked(e, o, x)
  <2>1. /\ o.payload.approvalReceiptHash = e /\ o.payload.context = attempts[a].context
        /\ o.payload.action = attempts[a].value /\ o.payload.dispatchedAt = attempts[a].dispatchedAt
        /\ o.signer = x /\ Genuine(o) /\ EnvelopeCode(o) = "ok"
    BY <1>1, <1>3
  <2>2. Reviewed(attempts[a])
    BY <1>3 DEF IInv, CheckedFirst, Past
  <2>3. EnvelopeCode(e) = "ok"
    BY <1>3, <2>2 DEF Reviewed, EnvelopeCode
  <2>4. /\ Genuine(e) /\ e.signer = Trusted /\ e.payload.decision = "approved"
        /\ e.payload.context = attempts[a].context /\ e.payload.digest = attempts[a].value
    BY <1>3, <2>2 DEF Reviewed
  <2>5. e.payload.decidedAt <= attempts[a].dispatchedAt /\ ~Expired(e, attempts[a].dispatchedAt)
    BY <1>3 DEF IInv, InWindow, ObservationsTrue
  <2>. QED
    BY <2>1, <2>3, <2>4, <2>5, LinkedMeans
<1>. QED
  BY <1>2, <1>3

\* For any executors, approvals and observers: an approval and an observation link
\* exactly when the observation was signed for a dispatch under that very envelope
\* and tells how it settled (approval.ts, verifyApprovalExecutionLink).
THEOREM LinksAreExecutions == Spec => []LinkedIffExecuted
<1>1. Init => ObservationsTrue
  BY DEF Init, Idle, ObservationsTrue
<1>. QED
  BY <1>1, IInvHolds, NextTells, LinkFollows, PTL DEF Spec
=============================================================================
