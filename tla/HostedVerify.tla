---------------------------- MODULE HostedVerify ----------------------------
(***************************************************************************)
(* The hosted-verify Worker in front of one tenant's registry object       *)
(* (integrations/hosted-verify/src/index.ts).  HTTP requests run           *)
(* concurrently; each reads the tenant's configuration when it arrives,    *)
(* runs the checks that need no registry, and then makes one RPC to the    *)
(* object.  The RPC may be answered, or fail for the caller while it still *)
(* reaches the object, before or after the caller has answered; on the     *)
(* verify path a deadline races it.                                        *)
(***************************************************************************)
EXTENDS TenantRegistry

CONSTANTS
    BindingOf,   \* [Ids -> Bindings]: the id is a digest of key and binding
    ExpiryOf,    \* [Ids -> Times]: binding.expiry
    Configs      \* the configurations the TENANTS secret is rotated among

ASSUME RouteAssumption ==
    /\ BindingOf \in [Ids -> Bindings]
    /\ ExpiryOf \in [Ids -> Times]
    /\ Configs \subseteq [loads : BOOLEAN, disabled : BOOLEAN, trusted : SUBSET Ids]

VARIABLES
    tenants,     \* what the TENANTS secret holds for this tenant, as it loads
    http,        \* [Requests -> the request, its RPC and its response]
    acked        \* what responses have told clients: ids registered, ids revoked

hvars == <<vars, tenants, http, acked>>

Kinds == {"verify", "register", "revoke", "repair"}
NoRequest == [phase |-> "new"]

Required(kind) == IF kind = "verify" THEN "verifier" ELSE "admin"
NeedsBinding(kind) == kind \in {"verify", "register"}

HInit ==
    /\ Init
    /\ tenants \in Configs
    /\ http = [q \in Requests |-> NoRequest]
    /\ acked = [registered |-> {}, revoked |-> {}]

\* A rotated secret takes effect on the next request.
Rotate ==
    /\ tenants' \in Configs
    /\ UNCHANGED <<vars, http, acked>>

-----------------------------------------------------------------------------
(***************************************************************************)
(* authorize(): configuration, then authentication, then quarantine, then  *)
(* role.  Then the checks before the RPC: trust in the operator and an     *)
(* unexpired binding, for the two routes that present one.                 *)
(***************************************************************************)
Refusal(kind, id, role, now) ==
    CASE ~tenants.loads -> "500"
      [] tenants.loads /\ role = "none" -> "401"
      [] tenants.loads /\ role # "none" /\ tenants.disabled -> "503"
      [] OTHER ->
           IF role # Required(kind) THEN "403"
           ELSE IF NeedsBinding(kind) /\ id \notin tenants.trusted THEN "untrusted"
           ELSE IF NeedsBinding(kind) /\ ExpiryOf[id] <= now THEN "expired"
           ELSE "pass"

\* Where the registry stands on a credential; it only moves on, to ACTIVE and to REVOKED.
Standing(id) == IF credentials[id] = Absent THEN "ABSENT" ELSE credentials[id].status

\* `before` and `found` remember for the properties what clients had been told,
\* and what the registry held, when the request arrived.
Arrive(q, kind, id, role, now) ==
    LET refusal == Refusal(kind, id, role, now)
    IN  /\ http[q] = NoRequest
        /\ http' = [http EXCEPT ![q] =
               IF refusal # "pass" THEN [phase |-> "refused", response |-> refusal]
               ELSE [phase |-> "waiting", kind |-> kind, id |-> id, now |-> now,
                     before |-> acked, found |-> Standing(id), rpc |-> "called", answer |-> Null, response |-> Null]]
        /\ UNCHANGED <<vars, tenants, acked>>

-----------------------------------------------------------------------------
\* The object runs the method of a call that reached it.
Call(q, first, second) ==
    LET r == http[q]
    IN  CASE r.kind = "verify"   -> Status(r.id, q, first)
          [] r.kind = "register" -> Register(r.id, BindingOf[r.id], ExpiryOf[r.id], r.now, q, first)
          [] r.kind = "revoke"   -> Revoke(r.id, r.now, q, first, second)
          [] r.kind = "repair"   -> RepairHistory(r.id, q, first)

Execute(q) ==
    /\ http[q].phase \in {"waiting", "done"}
    /\ http[q].rpc = "called"
    /\ \E first, second \in BOOLEAN : Call(q, first, second)
    /\ http' = [http EXCEPT ![q].rpc = "executed", ![q].answer = reply'.outcome]
    /\ UNCHANGED <<tenants, acked>>

(* What each route makes of the outcome of its method *)

VerifyResponse(outcome) ==
    CASE outcome = "ACTIVE" -> "allow"
      [] outcome \in {"REVOKED", "ABSENT"} -> "credential_not_active"
      [] outcome = "storage_error" -> "500"

RegisterResponseIgnoringStatus(outcome) ==
    CASE outcome = "created" -> "201" [] outcome \in {"unchanged", "revoked"} -> "200"
      [] outcome = "quota_exceeded" -> "429" [] outcome = "expired" -> "400" [] OTHER -> "500"

RegisterResponse(outcome) ==
    CASE outcome = "created" -> "201"
      [] outcome = "unchanged" -> "200"
      [] outcome = "revoked" -> "409"
      [] outcome = "quota_exceeded" -> "429"
      [] outcome = "expired" -> "400"
      [] outcome \in {"mismatch", "storage_error"} -> "500"

RevokeResponseIdempotent(outcome) ==
    CASE outcome \in {"revoked", "unchanged", "absent"} -> "204"
      [] outcome = "revoked_history_failed" -> "204 history_write_failed"
      [] outcome = "revoked_history_conflict" -> "204 history_conflict"
      [] outcome = "storage_error" -> "500"

RevokeResponse(outcome) ==
    CASE outcome \in {"revoked", "unchanged"} -> "204"
      [] outcome = "revoked_history_failed" -> "204 history_write_failed"
      [] outcome = "revoked_history_conflict" -> "204 history_conflict"
      [] outcome = "absent" -> "404"
      [] outcome = "storage_error" -> "500"

RepairResponse(outcome) ==
    CASE outcome \in {"repaired", "clean"} -> "200"
      [] outcome = "conflict" -> "409"
      [] outcome = "absent" -> "404"
      [] outcome = "storage_error" -> "500"

ResponseOf(kind, outcome) ==
    CASE kind = "verify"   -> VerifyResponse(outcome)
      [] kind = "register" -> RegisterResponse(outcome)
      [] kind = "revoke"   -> RevokeResponse(outcome)
      [] kind = "repair"   -> RepairResponse(outcome)

RevokeAcknowledged == {"204", "204 history_write_failed", "204 history_conflict"}

Registered(kind, response) == kind = "register" /\ response \in {"200", "201"}

Finish(q, response) ==
    /\ http' = [http EXCEPT ![q].phase = "done", ![q].response = response, ![q].answer = Null]
    /\ acked' = IF response \in RevokeAcknowledged
                THEN [acked EXCEPT !.revoked = @ \cup {http[q].id}]
                ELSE IF Registered(http[q].kind, response)
                THEN [acked EXCEPT !.registered = @ \cup {http[q].id}] ELSE acked
    /\ UNCHANGED <<vars, tenants>>

Waiting(q) == http[q].phase = "waiting"

Respond(q) ==
    /\ Waiting(q)
    /\ http[q].rpc = "executed"
    /\ Finish(q, ResponseOf(http[q].kind, http[q].answer))

\* The RPC transport throws; the call may still be on its way to the object.
TransportFails(q) == Waiting(q) /\ Finish(q, "500")

\* REGISTRY_DEADLINE_MS: only the verify path races its read.
DeadlineDenies(q) == Waiting(q) /\ http[q].kind = "verify" /\ Finish(q, "credential_not_active")
Deadline(q) == Waiting(q) /\ http[q].kind = "verify" /\ Finish(q, "500")

-----------------------------------------------------------------------------
HNext ==
    \/ ((\E committed \in BOOLEAN : Construct(committed)) \/ Evict) /\ UNCHANGED <<tenants, http, acked>>
    \/ Rotate
    \/ \E q \in Requests :
          \/ \E kind \in Kinds, id \in Ids, role \in {"none", "admin", "verifier"}, now \in Times :
                Arrive(q, kind, id, role, now)
          \/ Execute(q)
          \/ Respond(q)
          \/ TransportFails(q)
          \/ Deadline(q)

HSpec == HInit /\ [][HNext]_hvars

-----------------------------------------------------------------------------
(* Properties *)

Answered(q) == http[q].phase = "done"

\* Once any response has acknowledged a revocation, no request that arrives
\* later is told that the credential is active: not by a verdict that waited
\* on a slow read, not by a registration retried or delivered late.
NoActiveAnswerAfterRevocation ==
    \A q \in Requests : Answered(q) /\ http[q].id \in http[q].before.revoked =>
        /\ http[q].response # "allow"
        /\ ~Registered(http[q].kind, http[q].response)

\* Every acknowledged revocation is stored, and a 204 without the audit header
\* means that its row is in the history for good.
AcknowledgedRevocationStored ==
    /\ \A id \in acked.revoked : Revoked(id)
    /\ \A q \in Requests : Answered(q) /\ http[q].response = "204" =>
          ~Owed(http[q].id) /\ RowsOf(http[q].id, "revoked") # {}

\* However often a registration is sent, retried or delivered late, one
\* request at most is told that it created the credential, and that request is
\* the one in the history.
CreatedOnce ==
    \A q \in Requests : Answered(q) /\ http[q].response = "201" =>
        \A row \in RowsOf(http[q].id, "registered") : row.request_id = q

\* What an answer says of its credential was so at some moment between the
\* arrival of the request and its answer, and what the registry never takes back
\* is still so (handleVerify, handleRegister, handleRevoke, handleRepairHistory).  An
\* allowed credential had not been revoked when the request came; one refused as
\* not active was unknown then or is revoked by now; a 201, and a 404, says that it
\* was unknown, a 409 to a registration that it is revoked.
VerdictMatchesRegistry ==
    \A q \in Requests : Answered(q) =>
        LET r == http[q]
            told(kinds, responses) == r.kind \in kinds /\ r.response \in responses
        IN  /\ told({"verify"}, {"allow"}) \/ told({"register"}, {"200", "201"}) =>
                  r.found # "REVOKED" /\ credentials[r.id] # Absent
            /\ told({"verify"}, {"credential_not_active"}) =>
                  \/ r.found = "ABSENT" /\ r.id \notin r.before.registered
                  \/ Revoked(r.id)
            /\ told({"register"}, {"201"}) \/ told({"revoke", "repair"}, {"404"}) => r.found = "ABSENT"
            /\ told({"register"}, {"409"}) \/ told({"revoke"}, RevokeAcknowledged) => Revoked(r.id)

\* What a client was told of its writes is what the registry keeps (handleRegister,
\* handleRevoke): no acknowledged revocation is lost and none is created twice.
AcknowledgedWritesStored == AcknowledgedRevocationStored /\ CreatedOnce
=============================================================================
