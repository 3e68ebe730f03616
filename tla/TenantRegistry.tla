--------------------------- MODULE TenantRegistry ---------------------------
(***************************************************************************)
(* The `TenantRegistry` Durable Object of hosted-verify: one SQLite        *)
(* database per tenant holding its managed credentials and an append-only  *)
(* event history (integrations/hosted-verify/src/registry.ts).             *)
(*                                                                         *)
(* Every method of the object is synchronous, so a method is one action.   *)
(* A method runs one or two SQL transactions, each of which commits or     *)
(* rolls back as a whole; the BOOLEAN parameters of the actions say which  *)
(* of them the storage lets commit.  The clock values come from the caller *)
(* (the Worker's own clock, not the object's), so two calls may carry them *)
(* in any order.                                                           *)
(***************************************************************************)
EXTENDS Integers, FiniteSets

CONSTANTS
    Ids,          \* credential ids
    Bindings,     \* pairs of operator key and binding digest
    Requests,     \* request ids
    LegacyRequest,\* the request id on rows that a version-1 build wrote
    Times,        \* unix seconds a caller may pass as `now` or `expiry`
    MaxActive,    \* MAX_ACTIVE_CREDENTIALS
    ForeignIds,   \* ids whose 'revoked' row somebody may insert out of band
    Absent,       \* no row in `credentials`
    Null          \* SQL NULL: no revoked_at, no pending metadata

ASSUME ConstantsAssumption ==
    /\ Times \subseteq Nat
    /\ MaxActive \in Nat
    /\ IsFiniteSet(Ids)
    /\ ForeignIds \subseteq Ids
    /\ LegacyRequest \notin Requests

VARIABLES
    version,      \* schema_meta.version; 0 while there is no schema at all
    object,       \* the Durable Object instance
    credentials,  \* the `credentials` table
    history,      \* the `history` table, a set of rows
    reply         \* what the last method call returned

storage == <<version, credentials, history>>
vars == <<version, object, credentials, history, reply>>

SCHEMA_VERSION == 2

Stamps == Requests \cup {LegacyRequest}
Event == [ts : Times, request_id : Stamps]
Credential == [status : {"ACTIVE", "REVOKED"}, binding : Bindings,
               registered_at : Times, revoked_at : Times \cup {Null},
               pending : Event \cup {Null}]
Row == [id : Ids, event : {"registered", "revoked"},
        ts : Times, request_id : Stamps]

ASSUME SentinelAssumption == Null \notin Times \cup Event /\ Absent \notin Credential

Active == {id \in Ids : credentials[id] # Absent /\ credentials[id].status = "ACTIVE"}
Revoked(id) == credentials[id] # Absent /\ credentials[id].status = "REVOKED"
Owed(id) == Revoked(id) /\ credentials[id].pending # Null
RowsOf(id, event) == {row \in history : row.id = id /\ row.event = event}

NewRow(id, event, ts, request) ==
    [id |-> id, event |-> event, ts |-> ts, request_id |-> request]

\* Which methods touch the tables: none of them once `#schemaError` is latched.
Serving == object = "ready"

Answer(op, id, outcome, request) ==
    reply' = [op |-> op, id |-> id, outcome |-> outcome, request |-> request]

Answers == [op : {"register", "revoke", "repair", "status"}, id : Ids,
            outcome : {"created", "unchanged", "revoked", "quota_exceeded", "expired",
                       "mismatch", "storage_error", "revoked_history_failed",
                       "revoked_history_conflict", "absent", "repaired", "clean",
                       "conflict", "ACTIVE", "REVOKED", "ABSENT"},
            request : Requests]

TypeOK ==
    /\ version \in 0 .. SCHEMA_VERSION + 1
    /\ object \in {"down", "ready", "schema_error"}
    /\ credentials \in [Ids -> Credential \cup {Absent}]
    /\ history \subseteq Row
    /\ reply \in Answers \cup {Null}

-----------------------------------------------------------------------------
(***************************************************************************)
(* A tenant starts with an empty database or with one a version-1 build    *)
(* left behind; nothing in a version-1 database is owed to the history.    *)
(***************************************************************************)
LegacyRows(id, cred) ==
    IF cred = Absent THEN {}
    ELSE {NewRow(id, "registered", cred.registered_at, LegacyRequest)} \cup
         (IF cred.status = "REVOKED"
          THEN {NewRow(id, "revoked", cred.revoked_at, LegacyRequest)} ELSE {})

Init ==
    /\ object = "down"
    /\ reply = Null
    /\ \/ /\ version = 0
          /\ credentials = [id \in Ids |-> Absent]
       \/ /\ version = 1
          /\ credentials \in [Ids -> Credential \cup {Absent}]
          /\ \A id \in Ids : credentials[id] # Absent =>
                /\ credentials[id].pending = Null
                /\ IF credentials[id].status = "ACTIVE" THEN credentials[id].revoked_at = Null
                   ELSE credentials[id].revoked_at \in {t \in Times : t >= credentials[id].registered_at}
          /\ Cardinality(Active) <= MaxActive
    /\ history = UNION {LegacyRows(id, credentials[id]) : id \in Ids}

-----------------------------------------------------------------------------
(***************************************************************************)
(* The constructor: create and migrate in one transaction.  A failure, or  *)
(* a database newer than this build, rolls it back and latches the error.  *)
(***************************************************************************)
ConstructAnyVersion(committed) ==
    /\ object = "down"
    /\ IF committed THEN object' = "ready" /\ version' = SCHEMA_VERSION
       ELSE object' = "schema_error" /\ UNCHANGED version
    /\ UNCHANGED <<credentials, history, reply>>

Construct(committed) ==
    /\ object = "down"
    /\ IF committed /\ version <= SCHEMA_VERSION
       THEN object' = "ready" /\ version' = SCHEMA_VERSION
       ELSE object' = "schema_error" /\ UNCHANGED version
    /\ UNCHANGED <<credentials, history, reply>>

\* The platform evicts or resets the instance: memory goes, storage stays.
Evict ==
    /\ object # "down"
    /\ object' = "down"
    /\ UNCHANGED <<version, credentials, history, reply>>

\* A newer build served the tenant, migrated it, and was then rolled back.
NewerBuild ==
    /\ object = "down"
    /\ version = SCHEMA_VERSION
    /\ version' = SCHEMA_VERSION + 1
    /\ UNCHANGED <<object, credentials, history, reply>>

\* Somebody writes a 'revoked' row past the object (a hand repair, a restore).
ForeignRow(id, ts, request) ==
    /\ id \in ForeignIds
    /\ credentials[id] # Absent
    /\ RowsOf(id, "revoked") = {}
    /\ credentials[id].registered_at <= ts
    /\ history' = history \cup {NewRow(id, "revoked", ts, request)}
    /\ UNCHANGED <<version, object, credentials, reply>>

-----------------------------------------------------------------------------
(***************************************************************************)
(* register(input): the answer by what is stored, then the insertion of    *)
(* the credential and its 'registered' row in one transaction.             *)
(***************************************************************************)
Create(id, binding, now, request) ==
    /\ credentials' = [credentials EXCEPT ![id] =
           [status |-> "ACTIVE", binding |-> binding, registered_at |-> now,
            revoked_at |-> Null, pending |-> Null]]
    /\ history' = history \cup {NewRow(id, "registered", now, request)}

RegisterOutcomeReactivating(id, binding, expiry, now) ==
    IF ~Serving THEN "storage_error"
    ELSE IF expiry <= now THEN "expired"
    ELSE IF id \in Active THEN IF credentials[id].binding # binding THEN "mismatch" ELSE "unchanged"
    ELSE IF Cardinality(Active) >= MaxActive THEN "quota_exceeded"
    ELSE "created"

RegisterOutcome(id, binding, expiry, now) ==
    IF ~Serving THEN "storage_error"
    ELSE IF expiry <= now THEN "expired"
    ELSE IF credentials[id] # Absent
         THEN IF credentials[id].binding # binding THEN "mismatch"
              ELSE IF credentials[id].status = "REVOKED" THEN "revoked" ELSE "unchanged"
    ELSE IF Cardinality(Active) >= MaxActive THEN "quota_exceeded"
    ELSE "created"

Register(id, binding, expiry, now, request, committed) ==
    LET outcome == IF expiry > now /\ ~committed THEN "storage_error"
                   ELSE RegisterOutcome(id, binding, expiry, now)
    IN  /\ object # "down"
        /\ Answer("register", id, outcome, request)
        /\ IF outcome = "created" THEN Create(id, binding, now, request)
                                  ELSE UNCHANGED <<credentials, history>>
        /\ UNCHANGED <<version, object>>

-----------------------------------------------------------------------------
(***************************************************************************)
(* #repair(id): write the owed 'revoked' row from the pending metadata and *)
(* clear the metadata, in one transaction.  A row that is already there    *)
(* counts as ours only when it carries the same ts and request id.         *)
(***************************************************************************)
OwedRowOfRegistration(id) ==
    NewRow(id, "revoked", credentials[id].registered_at, credentials[id].pending.request_id)

OwedRow(id) == NewRow(id, "revoked", credentials[id].pending.ts,
                      credentials[id].pending.request_id)

RepairOutcomeConflictIsClean(id) ==
    IF credentials[id] = Absent THEN "absent"
    ELSE IF credentials[id].pending = Null THEN "clean"
    ELSE IF \E row \in RowsOf(id, "revoked") : row # OwedRow(id) THEN "clean"
    ELSE "repaired"

RepairOutcomeOfAnyEvent(id) ==
    IF credentials[id] = Absent THEN "absent"
    ELSE IF credentials[id].pending = Null THEN "clean"
    ELSE IF \E row \in history : row.id = id /\ row # OwedRow(id) THEN "conflict"
    ELSE "repaired"

RepairOutcome(id) ==
    IF credentials[id] = Absent THEN "absent"
    ELSE IF credentials[id].pending = Null THEN "clean"
    ELSE IF \E row \in RowsOf(id, "revoked") : row # OwedRow(id) THEN "conflict"
    ELSE "repaired"

SettledForm(cred) == [cred EXCEPT !.pending = Null]

SettleWithoutRow(id) ==
    /\ UNCHANGED history
    /\ credentials' = [credentials EXCEPT ![id] = SettledForm(@)]

Settle(id) ==
    /\ history' = history \cup {OwedRow(id)}
    /\ credentials' = [credentials EXCEPT ![id] = SettledForm(@)]

RepairTx(id, outcome) ==
    IF outcome = "repaired" THEN Settle(id) ELSE UNCHANGED <<credentials, history>>

RepairHistory(id, request, committed) ==
    LET outcome == IF Serving /\ committed THEN RepairOutcome(id) ELSE "storage_error"
    IN  /\ object # "down"
        /\ RepairTx(id, outcome)
        /\ Answer("repair", id, outcome, request)
        /\ UNCHANGED <<version, object>>

-----------------------------------------------------------------------------
(***************************************************************************)
(* revoke(id, now, request).  `first` is whether transaction 1 commits,    *)
(* `second` whether transaction 2 (or the repair run in its place) does.   *)
(* Transaction 2 also fails when the PRIMARY KEY (credential_id, event) of *)
(* `history` already holds a 'revoked' row.                                *)
(***************************************************************************)
LaterAsGiven(a, b) == a
Later(a, b) == IF a >= b THEN a ELSE b

RevokedFormOwingNothing(cred, at, pending) ==
    [cred EXCEPT !.status = "REVOKED", !.revoked_at = at, !.pending = Null]

RevokedFormOwingOldTime(cred, at, pending) ==
    [cred EXCEPT !.status = "REVOKED", !.revoked_at = at,
                 !.pending = IF pending = Null THEN Null ELSE [pending EXCEPT !.ts = cred.revoked_at]]

RevokedForm(cred, at, pending) ==
    [cred EXCEPT !.status = "REVOKED", !.revoked_at = at, !.pending = pending]

RevokeActive(id, now, request, second) ==
    LET at == Later(now, credentials[id].registered_at)
        settled == second /\ RowsOf(id, "revoked") = {}
    IN  /\ credentials' = [credentials EXCEPT ![id] =
               RevokedForm(@, at, IF settled THEN Null ELSE [ts |-> at, request_id |-> request])]
        /\ history' = IF settled THEN history \cup {NewRow(id, "revoked", at, request)}
                                 ELSE history
        /\ Answer("revoke", id, IF settled THEN "revoked" ELSE "revoked_history_failed", request)

RevokeOwed(id, request, second) ==
    LET outcome == IF second THEN RepairOutcome(id) ELSE "storage_error"
    IN  /\ RepairTx(id, outcome)
        /\ Answer("revoke", id,
                  CASE outcome = "conflict" -> "revoked_history_conflict"
                    [] outcome = "storage_error" -> "revoked_history_failed"
                    [] OTHER -> "unchanged", request)

Revoke(id, now, request, first, second) ==
    /\ object # "down"
    /\ IF ~Serving \/ ~first
       THEN Answer("revoke", id, "storage_error", request) /\ UNCHANGED <<credentials, history>>
       ELSE IF id \in Active THEN RevokeActive(id, now, request, second)
       ELSE IF Owed(id) THEN RevokeOwed(id, request, second)
       ELSE /\ Answer("revoke", id,
                      IF credentials[id] = Absent THEN "absent" ELSE "unchanged", request)
            /\ UNCHANGED <<credentials, history>>
    /\ UNCHANGED <<version, object>>

\* status(id): a read.  get(id) reads the same rows and is not modelled apart.
Status(id, request, committed) ==
    /\ object # "down"
    /\ Answer("status", id,
              IF ~Serving \/ ~committed THEN "storage_error"
              ELSE IF credentials[id] = Absent THEN "ABSENT" ELSE credentials[id].status,
              request)
    /\ UNCHANGED <<version, object, credentials, history>>

-----------------------------------------------------------------------------
Method(id, request) ==
    \/ \E binding \in Bindings, expiry, now \in Times, committed \in BOOLEAN :
          Register(id, binding, expiry, now, request, committed)
    \/ \E now \in Times, first, second \in BOOLEAN : Revoke(id, now, request, first, second)
    \/ \E committed \in BOOLEAN : RepairHistory(id, request, committed)
    \/ \E committed \in BOOLEAN : Status(id, request, committed)

Environment ==
    \/ \E committed \in BOOLEAN : Construct(committed)
    \/ Evict
    \/ NewerBuild
    \/ \E id \in Ids, ts \in Times : ForeignRow(id, ts, LegacyRequest)

Next == Environment \/ \E id \in Ids, request \in Requests : Method(id, request)

Spec == Init /\ [][Next]_vars

(***************************************************************************)
(* Storage faults are transient and the owner of an unwritten audit row    *)
(* keeps asking for its repair: the 204 that leaves one owed says so in    *)
(* its `x-bolyra-audit` header.  An instance that latched a schema error   *)
(* is eventually evicted.                                                  *)
(***************************************************************************)
Fairness ==
    /\ SF_vars(Construct(TRUE))
    /\ WF_vars(object = "schema_error" /\ Evict)
    /\ \A id \in Ids : SF_vars(Serving /\ \E request \in Requests : RepairHistory(id, request, TRUE))

FairSpec == Spec /\ Fairness

-----------------------------------------------------------------------------
(* Properties *)

\* A revoked credential is at every moment either recorded in the history, by
\* one row with its own revoked_at, or still owes that row and knows it; an
\* active one owes nothing.  This has to survive a failure or an eviction
\* between revoke's two transactions and every retry after it.
AuditOwedOrWritten ==
    \A id \in Ids : credentials[id] # Absent =>
        LET cred == credentials[id]
        IN  IF cred.status = "ACTIVE" THEN cred.pending = Null /\ cred.revoked_at = Null
            ELSE IF cred.pending = Null
                 THEN \E row \in RowsOf(id, "revoked") : row.ts = cred.revoked_at
                 ELSE cred.pending.ts = cred.revoked_at

\* Every credential has its 'registered' row and no row stands without its
\* credential; no event is recorded twice; and although registering and
\* revoking Workers read different clocks, a revocation is never recorded, or
\* waiting to be, as earlier than the registration it ends.
HistoryConsistent ==
    /\ \A id \in Ids : credentials[id] # Absent =>
          /\ \E row \in RowsOf(id, "registered") : row.ts = credentials[id].registered_at
          /\ credentials[id].pending # Null =>
                credentials[id].registered_at <= credentials[id].pending.ts
    /\ \A row \in history :
          /\ credentials[row.id] # Absent
          /\ credentials[row.id].registered_at <= row.ts
          /\ \A other \in RowsOf(row.id, row.event) : other = row

\* The per-tenant cap on ACTIVE credentials is never exceeded, whatever order
\* registrations, revocations and retries of registrations arrive in.
CapRespected == Cardinality(Active) <= MaxActive

\* Revocation is terminal and a credential is never rewritten: no method, no
\* repair and no restart brings a revoked id back, moves its revoked_at or
\* replaces the key, the binding or the registration time of a stored id.
RevocationTerminal ==
    [][\A id \in Ids : credentials[id] # Absent =>
          /\ credentials'[id] # Absent
          /\ credentials'[id].binding = credentials[id].binding
          /\ credentials'[id].registered_at = credentials[id].registered_at
          /\ Revoked(id) => Revoked(id)' /\ credentials'[id].revoked_at = credentials[id].revoked_at
      ]_vars

\* The history only grows, and the metadata of an owed row is dropped only in
\* the step after which exactly that row is stored: a conflicting row never
\* clears it.
OwedNeverForgotten ==
    [][/\ history \subseteq history'
       /\ \A id \in Ids : Owed(id) /\ ~Owed(id)' => OwedRow(id) \in history'
      ]_vars

\* A rolled-back Worker leaves a database that a newer build migrated alone.
NewerLayoutUntouched ==
    [][version > SCHEMA_VERSION =>
          /\ object' # "ready"
          /\ UNCHANGED <<version, credentials>>
          /\ reply' # reply => UNCHANGED history]_vars

\* An answer that reports a revocation is true and stays true: the credential
\* is revoked, `revoked` means this very request is the recorded one, and
\* `unchanged` or a clean repair means that no row is owed.
RepliesTruthful ==
    reply # Null =>
        LET id == reply.id
        IN  /\ reply.op = "revoke" /\ reply.outcome \notin {"absent", "storage_error"} => Revoked(id)
            /\ reply.op = "revoke" /\ reply.outcome = "revoked" =>
                  \E row \in RowsOf(id, "revoked") : row.request_id = reply.request
            /\ reply.op = "revoke" /\ reply.outcome \in {"revoked", "unchanged"} => ~Owed(id)
            /\ reply.op = "repair" /\ reply.outcome = "repaired" => Revoked(id)
            /\ reply.op = "repair" /\ reply.outcome \in {"repaired", "clean"} => ~Owed(id)
            /\ reply.op = "register" /\ reply.outcome \in {"created", "unchanged"} => id \in Active \/ Revoked(id)

\* Unless a conflicting row or a newer layout needs a human, an owed row is
\* eventually written, if its repair is retried and storage faults pass.
OwedEventuallyWritten ==
    \A id \in Ids : Owed(id) ~> \/ ~Owed(id)
                                \/ \E row \in RowsOf(id, "revoked") : row # OwedRow(id)
                                \/ version > SCHEMA_VERSION

-----------------------------------------------------------------------------
(***************************************************************************)
(* The refinement: the event of a revoked id is the one it owes, or else   *)
(* the one its row carries.                                                *)
(***************************************************************************)
EventOf(row) == [ts |-> row.ts, request_id |-> row.request_id]

LedgerEvent(id) ==
    IF ~Revoked(id) THEN Null
    ELSE IF Owed(id) THEN credentials[id].pending
    ELSE EventOf(CHOOSE row \in RowsOf(id, "revoked") : TRUE)

Ledger == INSTANCE RevocationLedger WITH
    Events <- Event,
    None <- Null,
    status <- [id \in Ids |-> IF credentials[id] = Absent THEN "absent"
                              ELSE IF credentials[id].status = "ACTIVE" THEN "active" ELSE "revoked"],
    event <- [id \in Ids |-> LedgerEvent(id)],
    recorded <- {id \in Ids : /\ Revoked(id)
                              /\ \E row \in RowsOf(id, "revoked") : EventOf(row) = LedgerEvent(id)}

ImplementsLedger == Ledger!Spec
=============================================================================
