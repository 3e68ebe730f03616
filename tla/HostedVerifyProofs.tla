------------------------- MODULE HostedVerifyProofs -------------------------
(***************************************************************************)
(* The registry object first: what TenantRegistry's runs check on small    *)
(* instances, proved for any number of ids, bindings and requests, any     *)
(* clock and any cap.  Then what the Worker tells its clients, whatever    *)
(* RPCs fail, arrive late or are answered by the deadline: proved over the *)
(* invariant of the object, whose steps are the only ones that touch its   *)
(* tables.                                                                 *)
(***************************************************************************)
EXTENDS HostedVerify, FiniteSetTheorems, TLAPS

(***************************************************************************)
(* The proofs look at a step through what it does to the two tables: it    *)
(* leaves them alone, creates one credential, revokes one with or without  *)
(* writing its row, settles one owed row, or adds a row out of band.       *)
(***************************************************************************)
Quiet == UNCHANGED <<credentials, history>>

CreateStep(id, binding, now, request) ==
    /\ credentials[id] = Absent
    /\ Cardinality(Active) < MaxActive
    /\ Create(id, binding, now, request)

RevokeStep(id, at, request) ==
    /\ id \in Active
    /\ credentials[id].registered_at <= at
    /\ \/ /\ RowsOf(id, "revoked") = {}
          /\ credentials' = [credentials EXCEPT ![id] = RevokedForm(@, at, Null)]
          /\ history' = history \cup {NewRow(id, "revoked", at, request)}
       \/ /\ credentials' = [credentials EXCEPT ![id] =
                 RevokedForm(@, at, [ts |-> at, request_id |-> request])]
          /\ history' = history

SettleStep(id) ==
    /\ credentials[id] # Absent
    /\ credentials[id].pending # Null
    /\ RowsOf(id, "revoked") \subseteq {OwedRow(id)}
    /\ Settle(id)

TableStep ==
    \/ Quiet
    \/ \E id \in Ids, binding \in Bindings, now \in Times, request \in Requests :
          CreateStep(id, binding, now, request)
    \/ \E id \in Ids, at \in Times, request \in Requests : RevokeStep(id, at, request)
    \/ \E id \in Ids : SettleStep(id)
    \/ \E id \in Ids, ts \in Times : ForeignRow(id, ts, LegacyRequest)

\* A repair settles an owed row or leaves the tables alone.
LEMMA RepairIsTableStep ==
    ASSUME NEW id \in Ids, NEW outcome, outcome \in {RepairOutcome(id), "storage_error"},
           RepairTx(id, outcome)
    PROVE  Quiet \/ SettleStep(id)
<1>1. CASE outcome = "repaired"
  <2>1. outcome = RepairOutcome(id)
    BY <1>1
  <2>2. /\ credentials[id] # Absent
        /\ credentials[id].pending # Null
        /\ \A row \in RowsOf(id, "revoked") : row = OwedRow(id)
    BY <1>1, <2>1 DEF RepairOutcome
  <2> QED BY <1>1, <2>2 DEF RepairTx, SettleStep
<1>2. CASE outcome # "repaired"
  BY <1>2 DEF RepairTx, Quiet
<1> QED BY <1>1, <1>2

\* The later of two times is one of them and not before the second.
LEMMA LaterBounds ==
    ASSUME NEW a \in Times, NEW b \in Times
    PROVE  Later(a, b) \in Times /\ b <= Later(a, b)
BY ConstantsAssumption DEF Later

\* Every step of the object or of its environment is one of the table steps.
LEMMA StepIsTableStep ==
    ASSUME TypeOK, [Next]_vars
    PROVE  TableStep
<1>1. CASE UNCHANGED vars
  BY <1>1 DEF vars, TableStep, Quiet
<1>2. ASSUME NEW id \in Ids, NEW request \in Requests, NEW binding \in Bindings,
             NEW expiry \in Times, NEW now \in Times, NEW committed \in BOOLEAN,
             Register(id, binding, expiry, now, request, committed)
      PROVE  TableStep
  <2> DEFINE outcome == IF expiry > now /\ ~committed THEN "storage_error"
                        ELSE RegisterOutcome(id, binding, expiry, now)
  <2>1. CASE outcome = "created"
    <3>1. outcome = RegisterOutcome(id, binding, expiry, now)
      BY <2>1
    <3>2. credentials[id] = Absent /\ ~(Cardinality(Active) >= MaxActive)
      BY <2>1, <3>1 DEF RegisterOutcome
    <3>3. Cardinality(Active) < MaxActive
      <4>1. Cardinality(Active) \in Nat
        <5>1. IsFiniteSet(Active)
          BY ConstantsAssumption, FS_Subset DEF Active
        <5> QED BY <5>1, FS_CardinalityType
      <4> QED BY <3>2, <4>1, ConstantsAssumption
    <3>4. Create(id, binding, now, request)
      BY <1>2, <2>1 DEF Register
    <3> QED BY <3>2, <3>3, <3>4 DEF TableStep, CreateStep
  <2>2. CASE outcome # "created"
    BY <1>2, <2>2 DEF Register, TableStep, Quiet
  <2> QED BY <2>1, <2>2
<1>3. ASSUME NEW id \in Ids, NEW request \in Requests, NEW now \in Times,
             NEW first \in BOOLEAN, NEW second \in BOOLEAN,
             Revoke(id, now, request, first, second)
      PROVE  TableStep
  <2>1. CASE Serving /\ first /\ id \in Active
    <3> DEFINE at == Later(now, credentials[id].registered_at)
    <3>1. RevokeActive(id, now, request, second)
      BY <1>3, <2>1 DEF Revoke
    <3>2. at \in Times /\ credentials[id].registered_at <= at
      <4>1. credentials[id].registered_at \in Times
        BY <2>1 DEF TypeOK, Active, Credential
      <4> QED BY <4>1, LaterBounds
    <3>3. RevokeStep(id, at, request)
      BY <2>1, <3>1, <3>2 DEF RevokeActive, RevokeStep
    <3> QED BY <3>2, <3>3 DEF TableStep
  <2>2. CASE Serving /\ first /\ id \notin Active /\ Owed(id)
    <3>1. RevokeOwed(id, request, second)
      BY <1>3, <2>2 DEF Revoke
    <3>2. Quiet \/ SettleStep(id)
      BY <3>1, RepairIsTableStep DEF RevokeOwed
    <3> QED BY <3>2 DEF TableStep
  <2>3. CASE ~Serving \/ ~first \/ (id \notin Active /\ ~Owed(id))
    BY <1>3, <2>3 DEF Revoke, TableStep, Quiet
  <2> QED BY <2>1, <2>2, <2>3
<1>4. ASSUME NEW id \in Ids, NEW request \in Requests, NEW committed \in BOOLEAN,
             RepairHistory(id, request, committed)
      PROVE  TableStep
  <2>1. Quiet \/ SettleStep(id)
    BY <1>4, RepairIsTableStep DEF RepairHistory
  <2> QED BY <2>1 DEF TableStep
<1>5. ASSUME NEW id \in Ids, NEW request \in Requests, NEW committed \in BOOLEAN,
             Status(id, request, committed)
      PROVE  TableStep
  BY <1>5 DEF Status, TableStep, Quiet
<1>6. CASE Environment
  BY <1>6 DEF Environment, Construct, Evict, NewerBuild, TableStep, Quiet
<1> QED BY <1>1, <1>2, <1>3, <1>4, <1>5, <1>6 DEF Next, Method

-----------------------------------------------------------------------------
(* Types *)

\* Revoking and settling change the fields they name and keep the others.
LEMMA RevokedFormFields ==
    ASSUME NEW cred \in Credential, NEW at \in Times, NEW pending \in Event \cup {Null}
    PROVE  LET new == RevokedForm(cred, at, pending)
           IN  /\ new \in Credential
               /\ new.status = "REVOKED" /\ new.revoked_at = at /\ new.pending = pending
               /\ new.binding = cred.binding /\ new.registered_at = cred.registered_at
BY DEF RevokedForm, Credential

\* The same of settling: only the pending metadata goes.
LEMMA SettledFormFields ==
    ASSUME NEW cred \in Credential
    PROVE  LET new == SettledForm(cred)
           IN  /\ new \in Credential
               /\ new.status = cred.status /\ new.revoked_at = cred.revoked_at /\ new.pending = Null
               /\ new.binding = cred.binding /\ new.registered_at = cred.registered_at
BY DEF SettledForm, Credential

TablesTyped ==
    /\ credentials \in [Ids -> Credential \cup {Absent}]
    /\ history \subseteq Row

\* A table step keeps the types of the two tables.
LEMMA TableStepTyped ==
    ASSUME TablesTyped, TableStep
    PROVE  TablesTyped'
<1>1. CASE Quiet
  BY <1>1 DEF Quiet, TablesTyped
<1>2. ASSUME NEW id \in Ids, NEW binding \in Bindings, NEW now \in Times, NEW request \in Requests,
             CreateStep(id, binding, now, request)
      PROVE  TablesTyped'
  <2>1. NewRow(id, "registered", now, request) \in Row
    BY DEF NewRow, Row, Stamps
  <2>2. [status |-> "ACTIVE", binding |-> binding, registered_at |-> now,
         revoked_at |-> Null, pending |-> Null] \in Credential
    BY DEF Credential
  <2> QED BY <1>2, <2>1, <2>2 DEF CreateStep, Create, TablesTyped
<1>3. ASSUME NEW id \in Ids, NEW at \in Times, NEW request \in Requests, RevokeStep(id, at, request)
      PROVE  TablesTyped'
  <2>1. credentials[id] \in Credential
    BY <1>3 DEF TablesTyped, RevokeStep, Active
  <2>2. NewRow(id, "revoked", at, request) \in Row /\ [ts |-> at, request_id |-> request] \in Event
    BY DEF NewRow, Row, Event, Stamps
  <2>3. \A pending \in Event \cup {Null} : RevokedForm(credentials[id], at, pending) \in Credential
    BY <2>1, RevokedFormFields
  <2> QED BY <1>3, <2>2, <2>3 DEF RevokeStep, TablesTyped
<1>4. ASSUME NEW id \in Ids, SettleStep(id)
      PROVE  TablesTyped'
  <2>1. credentials[id] \in Credential /\ credentials[id].pending \in Event
    BY <1>4 DEF TablesTyped, SettleStep, Credential
  <2>2. OwedRow(id) \in Row
    BY <2>1 DEF OwedRow, NewRow, Row, Event
  <2>3. SettledForm(credentials[id]) \in Credential
    BY <2>1, SettledFormFields
  <2> QED BY <1>4, <2>2, <2>3 DEF SettleStep, Settle, TablesTyped
<1>5. ASSUME NEW id \in Ids, NEW ts \in Times, ForeignRow(id, ts, LegacyRequest)
      PROVE  TablesTyped'
  <2>1. NewRow(id, "revoked", ts, LegacyRequest) \in Row
    BY DEF NewRow, Row, Stamps
  <2> QED BY <1>5, <2>1 DEF ForeignRow, TablesTyped
<1> QED BY <1>1, <1>2, <1>3, <1>4, <1>5 DEF TableStep

\* What a method answers is one of the answers it may give.
LEMMA AnswersTyped ==
    ASSUME TypeOK, NEW id \in Ids, NEW request \in Requests, Method(id, request)
    PROVE  reply' \in Answers
<1>1. ASSUME NEW binding \in Bindings, NEW expiry \in Times, NEW now \in Times,
             NEW committed \in BOOLEAN, Register(id, binding, expiry, now, request, committed)
      PROVE  reply' \in Answers
  <2>1. RegisterOutcome(id, binding, expiry, now) \in
          {"storage_error", "expired", "mismatch", "revoked", "unchanged", "quota_exceeded", "created"}
    BY DEF RegisterOutcome
  <2> QED BY <1>1, <2>1 DEF Register, Answer, Answers
<1>2. ASSUME NEW now \in Times, NEW first \in BOOLEAN, NEW second \in BOOLEAN,
             Revoke(id, now, request, first, second)
      PROVE  reply' \in Answers
  <2> DEFINE answer(outcome) == [op |-> "revoke", id |-> id, outcome |-> outcome, request |-> request]
  <2>1. ASSUME RevokeOwed(id, request, second)
        PROVE  reply' \in {answer("revoked_history_conflict"), answer("revoked_history_failed"),
                           answer("unchanged")}
    <3> DEFINE outcome == IF second THEN RepairOutcome(id) ELSE "storage_error"
    <3>1. CASE outcome = "conflict"
      BY <2>1, <3>1 DEF RevokeOwed, Answer
    <3>2. CASE outcome = "storage_error"
      BY <2>1, <3>2 DEF RevokeOwed, Answer
    <3>3. CASE outcome \notin {"conflict", "storage_error"}
      BY <2>1, <3>3 DEF RevokeOwed, Answer
    <3> QED BY <3>1, <3>2, <3>3
  <2>2. ASSUME RevokeActive(id, now, request, second)
        PROVE  reply' \in {answer("revoked"), answer("revoked_history_failed")}
    BY <2>2 DEF RevokeActive, Answer
  <2>3. reply' \in {answer(outcome) : outcome \in
          {"storage_error", "absent", "unchanged", "revoked", "revoked_history_failed",
           "revoked_history_conflict"}}
    BY <1>2, <2>1, <2>2 DEF Revoke, Answer
  <2> QED BY <2>3 DEF Answers
<1>3. ASSUME NEW committed \in BOOLEAN, RepairHistory(id, request, committed)
      PROVE  reply' \in Answers
  <2>1. RepairOutcome(id) \in {"absent", "clean", "conflict", "repaired"}
    BY DEF RepairOutcome
  <2> QED BY <1>3, <2>1 DEF RepairHistory, Answer, Answers
<1>4. ASSUME NEW committed \in BOOLEAN, Status(id, request, committed)
      PROVE  reply' \in Answers
  <2>1. credentials[id] # Absent => credentials[id].status \in {"ACTIVE", "REVOKED"}
    BY DEF TypeOK, Credential
  <2> QED BY <1>4, <2>1 DEF Status, Answer, Answers
<1> QED BY <1>1, <1>2, <1>3, <1>4 DEF Method

\* The rows of a version-1 database are well typed.
LEMMA InitTyped ==
    ASSUME Init
    PROVE  TypeOK
<1>1. credentials \in [Ids -> Credential \cup {Absent}]
  BY DEF Init
<1>2. ASSUME NEW id \in Ids
      PROVE  LegacyRows(id, credentials[id]) \subseteq Row
  <2>1. CASE credentials[id] = Absent
    BY <2>1 DEF LegacyRows
  <2>2. CASE credentials[id] # Absent
    <3>1. version = 1
      BY <2>2 DEF Init
    <3>2. /\ credentials[id] \in Credential
          /\ credentials[id].status = "REVOKED" => credentials[id].revoked_at \in Times
      <4>1. credentials[id].status = "REVOKED" =>
               credentials[id].revoked_at \in {t \in Times : t >= credentials[id].registered_at}
        BY <2>2, <3>1 DEF Init
      <4> QED BY <1>1, <2>2, <4>1
    <3>3. credentials[id].registered_at \in Times
      BY <3>2 DEF Credential
    <3> QED BY <2>2, <3>2, <3>3 DEF LegacyRows, NewRow, Row, Stamps
  <2> QED BY <2>1, <2>2
<1>3. history \subseteq Row
  BY <1>2 DEF Init
<1> QED BY <1>1, <1>3 DEF Init, TypeOK, SCHEMA_VERSION

\* Every step keeps the type invariant.
LEMMA NextTyped ==
    ASSUME TypeOK, [Next]_vars
    PROVE  TypeOK'
<1>1. TablesTyped'
  BY StepIsTableStep, TableStepTyped DEF TypeOK, TablesTyped
<1>2. CASE UNCHANGED vars
  BY <1>1, <1>2 DEF TypeOK, TablesTyped, vars
<1>3. ASSUME NEW id \in Ids, NEW request \in Requests, Method(id, request)
      PROVE  TypeOK'
  <2>1. reply' \in Answers
    BY <1>3, AnswersTyped
  <2>2. UNCHANGED <<version, object>>
    BY <1>3 DEF Method, Register, Revoke, RepairHistory, Status
  <2> QED BY <1>1, <2>1, <2>2 DEF TypeOK, TablesTyped
<1>4. CASE Environment
  <2>1. UNCHANGED reply
    BY <1>4 DEF Environment, Construct, Evict, NewerBuild, ForeignRow
  <2>2. /\ version' \in 0 .. SCHEMA_VERSION + 1
        /\ object' \in {"down", "ready", "schema_error"}
    BY <1>4 DEF Environment, Construct, Evict, NewerBuild, ForeignRow, TypeOK, SCHEMA_VERSION
  <2> QED BY <1>1, <2>1, <2>2 DEF TypeOK, TablesTyped
<1> QED BY <1>2, <1>3, <1>4 DEF Next

\* The tables, the instance and the answers keep their types, whatever order
\* methods, storage failures, evictions and out-of-band writes come in.
THEOREM TypeCorrect == Spec => []TypeOK
<1>1. Init => TypeOK
  BY InitTyped
<1>2. TypeOK /\ [Next]_vars => TypeOK'
  BY NextTyped
<1> QED BY <1>1, <1>2, PTL DEF Spec

-----------------------------------------------------------------------------
(***************************************************************************)
(* The audit.  AuditOwedOrWritten is inductive, given the types: what a    *)
(* settlement writes is what the pending metadata says, and the metadata   *)
(* carries revoked_at.  HistoryConsistent needs it for the order of times. *)
(***************************************************************************)

\* The database a tenant starts with owes nothing and is consistent.
LEMMA AuditInit ==
    ASSUME Init
    PROVE  AuditOwedOrWritten /\ HistoryConsistent
<1> USE InitTyped DEF TypeOK
<1>1. CASE version = 0
  BY <1>1 DEF Init, LegacyRows, AuditOwedOrWritten, HistoryConsistent
<1>2. CASE version = 1
  <2>1. ASSUME NEW id \in Ids, credentials[id] # Absent
        PROVE  /\ credentials[id] \in Credential
               /\ credentials[id].pending = Null
               /\ credentials[id].status = "ACTIVE" => credentials[id].revoked_at = Null
               /\ credentials[id].status = "REVOKED" =>
                     /\ credentials[id].revoked_at \in Times
                     /\ credentials[id].registered_at <= credentials[id].revoked_at
    <3>1. credentials[id] \in Credential /\ credentials[id].registered_at \in Times
      BY <2>1 DEF Credential
    <3>2. /\ credentials[id].pending = Null
          /\ IF credentials[id].status = "ACTIVE" THEN credentials[id].revoked_at = Null
             ELSE credentials[id].revoked_at \in {t \in Times : t >= credentials[id].registered_at}
      BY <1>2, <2>1 DEF Init
    <3> QED BY <3>1, <3>2, ConstantsAssumption
  <2>2. ASSUME NEW row \in history
        PROVE  /\ row.id \in Ids /\ credentials[row.id] # Absent
               /\ \/ /\ row.event = "registered"
                     /\ row = NewRow(row.id, "registered", credentials[row.id].registered_at, LegacyRequest)
                  \/ /\ row.event = "revoked" /\ credentials[row.id].status = "REVOKED"
                     /\ row = NewRow(row.id, "revoked", credentials[row.id].revoked_at, LegacyRequest)
    <3>1. PICK id \in Ids : row \in LegacyRows(id, credentials[id])
      BY DEF Init
    <3> QED BY <3>1 DEF LegacyRows, NewRow
  <2>3. ASSUME NEW id \in Ids, credentials[id] # Absent
        PROVE  /\ NewRow(id, "registered", credentials[id].registered_at, LegacyRequest)
                    \in RowsOf(id, "registered")
               /\ credentials[id].status = "REVOKED" =>
                     NewRow(id, "revoked", credentials[id].revoked_at, LegacyRequest)
                        \in RowsOf(id, "revoked")
    <3>1. LegacyRows(id, credentials[id]) \subseteq history
      BY DEF Init
    <3> QED BY <2>3, <3>1 DEF LegacyRows, RowsOf, NewRow
  <2>4. AuditOwedOrWritten
    <3> SUFFICES ASSUME NEW id \in Ids, credentials[id] # Absent
                 PROVE  IF credentials[id].status = "ACTIVE"
                        THEN credentials[id].pending = Null /\ credentials[id].revoked_at = Null
                        ELSE \E row \in RowsOf(id, "revoked") : row.ts = credentials[id].revoked_at
      BY <2>1 DEF AuditOwedOrWritten
    <3>1. credentials[id].status \in {"ACTIVE", "REVOKED"}
      BY <2>1 DEF Credential
    <3> QED BY <2>1, <2>3, <3>1 DEF NewRow
  <2>5. HistoryConsistent
    <3>1. ASSUME NEW id \in Ids, credentials[id] # Absent
          PROVE  /\ \E row \in RowsOf(id, "registered") : row.ts = credentials[id].registered_at
                 /\ credentials[id].pending = Null
      BY <2>1, <2>3, <3>1 DEF NewRow
    <3>2. ASSUME NEW row \in history
          PROVE  /\ credentials[row.id] # Absent
                 /\ credentials[row.id].registered_at <= row.ts
      <4>1. credentials[row.id].registered_at \in Times
        BY <2>1, <2>2 DEF Credential
      <4> QED BY <2>1, <2>2, <4>1, ConstantsAssumption DEF NewRow
    <3>3. ASSUME NEW row \in history, NEW other \in RowsOf(row.id, row.event)
          PROVE  other = row
      BY <2>2 DEF RowsOf
    <3> QED BY <3>1, <3>2, <3>3 DEF HistoryConsistent
  <2> QED BY <2>4, <2>5
<1> QED BY <1>1, <1>2 DEF Init

\* What the two invariants say of one id, so that a step has to be followed
\* only for the id it is about.
AuditOf(id) ==
    credentials[id] # Absent =>
        LET cred == credentials[id]
        IN  IF cred.status = "ACTIVE" THEN cred.pending = Null /\ cred.revoked_at = Null
            ELSE IF cred.pending = Null
                 THEN \E row \in RowsOf(id, "revoked") : row.ts = cred.revoked_at
                 ELSE cred.pending.ts = cred.revoked_at

HistoryOf(id) ==
    /\ credentials[id] # Absent =>
          /\ \E row \in RowsOf(id, "registered") : row.ts = credentials[id].registered_at
          /\ credentials[id].pending # Null =>
                credentials[id].registered_at <= credentials[id].pending.ts
    /\ \A event \in {"registered", "revoked"} : \A row \in RowsOf(id, event) :
          /\ credentials[id] # Absent
          /\ credentials[id].registered_at <= row.ts
          /\ \A other \in RowsOf(id, event) : other = row

\* Together they are the two invariants.
LEMMA PerId ==
    /\ AuditOwedOrWritten <=> \A id \in Ids : AuditOf(id)
    /\ TablesTyped => (HistoryConsistent <=> \A id \in Ids : HistoryOf(id))
<1>1. AuditOwedOrWritten <=> \A id \in Ids : AuditOf(id)
  BY DEF AuditOwedOrWritten, AuditOf
<1>2. ASSUME TablesTyped, HistoryConsistent, NEW id \in Ids
      PROVE  HistoryOf(id)
  BY <1>2 DEF HistoryConsistent, HistoryOf, RowsOf
<1>3. ASSUME TablesTyped, \A id \in Ids : HistoryOf(id)
      PROVE  HistoryConsistent
  <2>1. \A row \in history : /\ row.id \in Ids /\ row.event \in {"registered", "revoked"}
                             /\ row \in RowsOf(row.id, row.event)
    BY <1>3 DEF TablesTyped, Row, RowsOf
  <2> QED BY <1>3, <2>1 DEF HistoryConsistent, HistoryOf
<1> QED BY <1>1, <1>2, <1>3

\* Neither invariant of an id is disturbed by a step that leaves its credential
\* and its rows alone.
LEMMA Untouched ==
    ASSUME NEW id \in Ids, AuditOf(id), HistoryOf(id),
           credentials'[id] = credentials[id],
           \A event \in {"registered", "revoked"} : RowsOf(id, event)' = RowsOf(id, event)
    PROVE  AuditOf(id)' /\ HistoryOf(id)'
BY DEF AuditOf, HistoryOf

\* The rows an added row makes: one more of its own id and event, no other.
LEMMA RowsOfAdded ==
    ASSUME NEW id \in Ids, NEW event \in {"registered", "revoked"}, NEW ts, NEW request,
           history' = history \cup {NewRow(id, event, ts, request)}
    PROVE  /\ RowsOf(id, event)' = RowsOf(id, event) \cup {NewRow(id, event, ts, request)}
           /\ \A other \in Ids, e \in {"registered", "revoked"} :
                 other # id \/ e # event => RowsOf(other, e)' = RowsOf(other, e)
           /\ NewRow(id, event, ts, request).ts = ts
<1>1. /\ NewRow(id, event, ts, request).id = id
      /\ NewRow(id, event, ts, request).event = event
      /\ NewRow(id, event, ts, request).ts = ts
  BY DEF NewRow
<1> HIDE DEF NewRow
<1> QED BY <1>1 DEF RowsOf

\* Every table step keeps the audit and the consistency of the history.
LEMMA AuditStep ==
    ASSUME TablesTyped, \A id \in Ids : AuditOf(id) /\ HistoryOf(id), TableStep
    PROVE  \A id \in Ids : AuditOf(id)' /\ HistoryOf(id)'
<1> SUFFICES ASSUME NEW id \in Ids PROVE AuditOf(id)' /\ HistoryOf(id)'
  OBVIOUS
<1> USE DEF TablesTyped
<1>1. CASE Quiet
  BY <1>1, Untouched DEF Quiet, RowsOf
<1>2. ASSUME NEW new \in Ids, NEW binding \in Bindings, NEW now \in Times, NEW request \in Requests,
             CreateStep(new, binding, now, request)
      PROVE  AuditOf(id)' /\ HistoryOf(id)'
  <2> DEFINE cred == [status |-> "ACTIVE", binding |-> binding, registered_at |-> now,
                      revoked_at |-> Null, pending |-> Null]
             row == NewRow(new, "registered", now, request)
  <2>1. /\ credentials[new] = Absent
        /\ credentials' = [credentials EXCEPT ![new] = cred]
        /\ history' = history \cup {row}
    BY <1>2 DEF CreateStep, Create
  <2>2. \A event \in {"registered", "revoked"} : RowsOf(new, event) = {}
    BY <2>1 DEF HistoryOf
  <2>3. CASE id # new
    BY <2>1, <2>3, Untouched, RowsOfAdded
  <2>4. CASE id = new
    <3>1. credentials'[id] = cred /\ RowsOf(id, "registered")' = {row} /\ RowsOf(id, "revoked")' = {}
      BY <2>1, <2>2, <2>4, RowsOfAdded
    <3>2. row.ts = now /\ cred.registered_at = now /\ now <= now
      BY ConstantsAssumption DEF NewRow
    <3>3. cred.status = "ACTIVE" /\ cred.pending = Null /\ cred.revoked_at = Null
      OBVIOUS
    <3>4. cred # Absent
      BY SentinelAssumption DEF Credential
    <3> HIDE DEF cred, row
    <3> QED BY <3>1, <3>2, <3>3, <3>4 DEF AuditOf, HistoryOf
  <2> QED BY <2>3, <2>4
<1>3. ASSUME NEW gone \in Ids, NEW at \in Times, NEW request \in Requests, RevokeStep(gone, at, request)
      PROVE  AuditOf(id)' /\ HistoryOf(id)'
  <2> DEFINE owed == [ts |-> at, request_id |-> request]
  <2>0. /\ credentials[gone] \in Credential /\ credentials[gone].registered_at \in Times
        /\ credentials[gone].registered_at <= at
        /\ owed \in Event /\ owed # Null /\ owed.ts = at
    BY <1>3, SentinelAssumption DEF RevokeStep, Active, Credential, Event, Stamps
  <2> HIDE DEF owed
  <2>1. CASE /\ RowsOf(gone, "revoked") = {}
             /\ credentials' = [credentials EXCEPT ![gone] = RevokedForm(@, at, Null)]
             /\ history' = history \cup {NewRow(gone, "revoked", at, request)}
    <3>1. CASE id # gone
      BY <2>1, <3>1, Untouched, RowsOfAdded
    <3>2. CASE id = gone
      <4> DEFINE row == NewRow(gone, "revoked", at, request)
      <4>1. /\ credentials'[id] = RevokedForm(credentials[id], at, Null)
            /\ RowsOf(id, "registered")' = RowsOf(id, "registered")
            /\ RowsOf(id, "revoked")' = {row} /\ row.ts = at
        BY <2>1, <3>2, RowsOfAdded
      <4> HIDE DEF row
      <4>2. /\ credentials'[id] # Absent
            /\ credentials'[id].status = "REVOKED" /\ credentials'[id].revoked_at = at
            /\ credentials'[id].pending = Null
            /\ credentials'[id].registered_at = credentials[id].registered_at
        BY <2>0, <3>2, <4>1, RevokedFormFields, SentinelAssumption
      <4>3. credentials[id] # Absent
        BY <2>0, <3>2, SentinelAssumption
      <4> QED BY <2>0, <3>2, <4>1, <4>2, <4>3 DEF AuditOf, HistoryOf
    <3> QED BY <3>1, <3>2
  <2>2. CASE /\ credentials' = [credentials EXCEPT ![gone] = RevokedForm(@, at, owed)]
             /\ history' = history
    <3>0. \A other \in Ids, event \in {"registered", "revoked"} :
             RowsOf(other, event)' = RowsOf(other, event)
      BY <2>2 DEF RowsOf
    <3>1. CASE id # gone
      BY <2>2, <3>0, <3>1, Untouched
    <3>2. CASE id = gone
      <4>1. /\ credentials'[id] # Absent
            /\ credentials'[id].status = "REVOKED" /\ credentials'[id].revoked_at = at
            /\ credentials'[id].pending = owed
            /\ credentials'[id].registered_at = credentials[id].registered_at
        BY <2>0, <2>2, <3>2, RevokedFormFields, SentinelAssumption
      <4>2. credentials[id] # Absent
        BY <2>0, <3>2, SentinelAssumption
      <4> QED BY <2>0, <3>0, <3>2, <4>1, <4>2 DEF AuditOf, HistoryOf
    <3> QED BY <3>1, <3>2
  <2> QED BY <1>3, <2>1, <2>2 DEF RevokeStep, owed
<1>4. ASSUME NEW settled \in Ids, SettleStep(settled)
      PROVE  AuditOf(id)' /\ HistoryOf(id)'
  <2> DEFINE row == OwedRow(settled)
  <2>0. /\ credentials[settled] \in Credential /\ credentials[settled].pending \in Event
        /\ credentials[settled] # Absent /\ credentials[settled].pending # Null
        /\ row.ts = credentials[settled].pending.ts
    BY <1>4 DEF SettleStep, Credential, OwedRow, NewRow
  <2>1. /\ credentials' = [credentials EXCEPT ![settled] = SettledForm(@)]
        /\ history' = history \cup {row}
        /\ RowsOf(settled, "revoked") \subseteq {row}
    BY <1>4 DEF SettleStep, Settle
  <2>2. /\ RowsOf(settled, "revoked")' = {row}
        /\ \A other \in Ids, event \in {"registered", "revoked"} :
              other # settled \/ event # "revoked" => RowsOf(other, event)' = RowsOf(other, event)
    BY <2>1, RowsOfAdded DEF OwedRow
  <2> HIDE DEF row
  <2>3. CASE id # settled
    BY <2>1, <2>2, <2>3, Untouched
  <2>4. CASE id = settled
    <3>1. /\ credentials'[id] # Absent
          /\ credentials'[id].status = credentials[id].status
          /\ credentials'[id].revoked_at = credentials[id].revoked_at
          /\ credentials'[id].pending = Null
          /\ credentials'[id].registered_at = credentials[id].registered_at
      BY <2>0, <2>1, <2>4, SettledFormFields, SentinelAssumption
    <3>2. credentials[id].status # "ACTIVE" /\ credentials[id].pending.ts = credentials[id].revoked_at
      BY <2>0, <2>4 DEF AuditOf
    <3>3. credentials[id].registered_at <= row.ts
      BY <2>0, <2>4 DEF HistoryOf
    <3> QED BY <2>0, <2>2, <2>4, <3>1, <3>2, <3>3 DEF AuditOf, HistoryOf
  <2> QED BY <2>3, <2>4
<1>5. ASSUME NEW other \in Ids, NEW ts \in Times, ForeignRow(other, ts, LegacyRequest)
      PROVE  AuditOf(id)' /\ HistoryOf(id)'
  <2> DEFINE row == NewRow(other, "revoked", ts, LegacyRequest)
  <2>1. /\ history' = history \cup {row} /\ credentials' = credentials
        /\ RowsOf(other, "revoked") = {} /\ credentials[other] # Absent
        /\ credentials[other].registered_at <= ts
    BY <1>5 DEF ForeignRow
  <2>2. CASE id # other
    BY <2>1, <2>2, Untouched, RowsOfAdded
  <2>3. CASE id = other
    <3>1. RowsOf(id, "revoked")' = {row} /\ row.ts = ts /\ RowsOf(id, "registered")' = RowsOf(id, "registered")
      BY <2>1, <2>3, RowsOfAdded
    <3> HIDE DEF row
    <3> QED BY <2>1, <2>3, <3>1 DEF AuditOf, HistoryOf
  <2> QED BY <2>2, <2>3
<1> QED BY <1>1, <1>2, <1>3, <1>4, <1>5 DEF TableStep

AuditInv == TypeOK /\ AuditOwedOrWritten /\ HistoryConsistent

\* The three are inductive together.
LEMMA AuditInductive ==
    /\ Init => AuditInv
    /\ AuditInv /\ [Next]_vars => AuditInv'
<1>1. Init => AuditInv
  BY InitTyped, AuditInit DEF AuditInv
<1>2. ASSUME AuditInv, [Next]_vars
      PROVE  AuditInv'
  <2>1. TypeOK' /\ TableStep /\ TablesTyped /\ TablesTyped'
    BY <1>2, NextTyped, StepIsTableStep DEF AuditInv, TypeOK, TablesTyped
  <2>2. \A id \in Ids : AuditOf(id) /\ HistoryOf(id)
    BY <1>2, <2>1, PerId DEF AuditInv
  <2>3. \A id \in Ids : AuditOf(id)' /\ HistoryOf(id)'
    BY <2>1, <2>2, AuditStep
  <2>4. AuditOwedOrWritten'
    BY <2>3 DEF AuditOf, AuditOwedOrWritten
  <2>5. HistoryConsistent'
    <3>1. \A row \in history' : /\ row.id \in Ids /\ row.event \in {"registered", "revoked"}
                                /\ row \in RowsOf(row.id, row.event)'
      BY <2>1 DEF TablesTyped, Row, RowsOf
    <3> QED BY <2>3, <3>1 DEF HistoryConsistent, HistoryOf
  <2> QED BY <2>1, <2>4, <2>5 DEF AuditInv
<1> QED BY <1>1, <1>2

\* A revoked credential is always recorded in the history or owes that record
\* and knows it, through every failure between revoke's two transactions.
THEOREM AuditNeverLost == Spec => []AuditOwedOrWritten
<1>1. AuditInv => AuditOwedOrWritten
  BY DEF AuditInv
<1> QED BY <1>1, AuditInductive, PTL DEF Spec

\* The history has no stray, doubled or back-dated row.
THEOREM HistoryAlwaysConsistent == Spec => []HistoryConsistent
<1>1. AuditInv => HistoryConsistent
  BY DEF AuditInv
<1> QED BY <1>1, AuditInductive, PTL DEF Spec

-----------------------------------------------------------------------------
(* The cap *)

\* Only a creation adds an active credential, and it asks first.
LEMMA CapStep ==
    ASSUME TablesTyped, CapRespected, TableStep
    PROVE  CapRespected'
<1>0. IsFiniteSet(Active) /\ Active \subseteq Ids /\ Cardinality(Active) \in Nat
  BY ConstantsAssumption, FS_Subset, FS_CardinalityType DEF Active
<1>1. ASSUME Active' \subseteq Active
      PROVE  CapRespected'
  <2>1. Cardinality(Active') <= Cardinality(Active) /\ Cardinality(Active') \in Nat
    BY <1>0, <1>1, FS_Subset, FS_CardinalityType
  <2> QED BY <1>0, <2>1, ConstantsAssumption DEF CapRespected
<1>2. CASE Quiet
  BY <1>1, <1>2 DEF Quiet, Active
<1>3. ASSUME NEW id \in Ids, NEW binding \in Bindings, NEW now \in Times, NEW request \in Requests,
             CreateStep(id, binding, now, request)
      PROVE  CapRespected'
  <2>1. Active' = Active \cup {id} /\ id \notin Active
    BY <1>3, SentinelAssumption DEF CreateStep, Create, Active, TablesTyped, Credential
  <2>2. Cardinality(Active') = Cardinality(Active) + 1
    BY <1>0, <2>1, FS_AddElement
  <2> QED BY <1>0, <1>3, <2>2, ConstantsAssumption DEF CreateStep, CapRespected
<1>4. ASSUME NEW id \in Ids, NEW at \in Times, NEW request \in Requests, RevokeStep(id, at, request)
      PROVE  CapRespected'
  <2>1. \E pending \in Event \cup {Null} :
           credentials' = [credentials EXCEPT ![id] = RevokedForm(@, at, pending)]
    BY <1>4 DEF RevokeStep, Event, Stamps
  <2>2. credentials[id] \in Credential
    BY <1>4 DEF RevokeStep, Active, TablesTyped
  <2>3. Active' \subseteq Active
    BY <2>1, <2>2, RevokedFormFields DEF Active, TablesTyped
  <2> QED BY <1>1, <2>3
<1>5. ASSUME NEW id \in Ids, SettleStep(id)
      PROVE  CapRespected'
  <2>1. credentials[id] \in Credential
    BY <1>5 DEF SettleStep, TablesTyped
  <2>2. Active' \subseteq Active
    BY <1>5, <2>1, SettledFormFields DEF SettleStep, Settle, Active, TablesTyped
  <2> QED BY <1>1, <2>2
<1>6. ASSUME NEW id \in Ids, NEW ts \in Times, ForeignRow(id, ts, LegacyRequest)
      PROVE  CapRespected'
  BY <1>1, <1>6 DEF ForeignRow, Active
<1> QED BY <1>2, <1>3, <1>4, <1>5, <1>6 DEF TableStep

\* However many ids there are and whatever order calls arrive in, a tenant
\* never has more active credentials than its cap.
THEOREM CapNeverExceeded == Spec => []CapRespected
<1> DEFINE Inv == TypeOK /\ CapRespected
<1>1. Init => Inv
  <2>1. ASSUME Init, version = 0
        PROVE  CapRespected
    <3>1. Active = {}
      BY <2>1 DEF Init, Active
    <3> QED BY <3>1, FS_EmptySet, ConstantsAssumption DEF CapRespected
  <2>2. ASSUME Init, version = 1
        PROVE  CapRespected
    BY <2>2 DEF Init, CapRespected
  <2> QED BY <2>1, <2>2, InitTyped DEF Init
<1>2. Inv /\ [Next]_vars => Inv'
  BY NextTyped, StepIsTableStep, CapStep DEF TypeOK, TablesTyped
<1>3. Inv => CapRespected
  OBVIOUS
<1> QED BY <1>1, <1>2, <1>3, PTL DEF Spec

-----------------------------------------------------------------------------
(* What a step may never do *)

\* What a table step makes of a stored credential: nothing, a revoked form of an
\* active one, or its settled form.
LEMMA CredentialStep ==
    ASSUME TablesTyped, TableStep, NEW id \in Ids, credentials[id] # Absent
    PROVE  \/ credentials'[id] = credentials[id]
           \/ /\ ~Revoked(id)
              /\ \E pending \in Event \cup {Null} :
                    credentials'[id] = RevokedForm(credentials[id], credentials'[id].revoked_at, pending)
              /\ credentials'[id].revoked_at \in Times
           \/ credentials'[id] = SettledForm(credentials[id])
<1>0. credentials[id] \in Credential
  BY DEF TablesTyped
<1>1. CASE Quiet
  BY <1>1 DEF Quiet
<1>2. ASSUME NEW new \in Ids, NEW binding \in Bindings, NEW now \in Times, NEW request \in Requests,
             CreateStep(new, binding, now, request)
      PROVE  credentials'[id] = credentials[id]
  BY <1>2 DEF CreateStep, Create, TablesTyped
<1>3. ASSUME NEW gone \in Ids, NEW at \in Times, NEW request \in Requests, RevokeStep(gone, at, request)
      PROVE  \/ credentials'[id] = credentials[id]
             \/ /\ ~Revoked(id)
                /\ \E pending \in Event \cup {Null} :
                      credentials'[id] = RevokedForm(credentials[id], credentials'[id].revoked_at, pending)
                /\ credentials'[id].revoked_at \in Times
  <2>1. PICK pending \in Event \cup {Null} :
           credentials' = [credentials EXCEPT ![gone] = RevokedForm(@, at, pending)]
    BY <1>3 DEF RevokeStep, Event, Stamps
  <2>2. gone = id => ~Revoked(id)
    BY <1>3 DEF RevokeStep, Active, Revoked
  <2>3. gone = id => credentials'[id] = RevokedForm(credentials[id], at, pending)
    BY <2>1 DEF TablesTyped
  <2>4. gone = id => credentials'[id].revoked_at = at
    BY <1>0, <2>3, RevokedFormFields
  <2> QED BY <2>1, <2>2, <2>3, <2>4 DEF TablesTyped
<1>4. ASSUME NEW settled \in Ids, SettleStep(settled)
      PROVE  credentials'[id] \in {credentials[id], SettledForm(credentials[id])}
  BY <1>4 DEF SettleStep, Settle, TablesTyped
<1>5. ASSUME NEW other \in Ids, NEW ts \in Times, ForeignRow(other, ts, LegacyRequest)
      PROVE  credentials'[id] = credentials[id]
  BY <1>5 DEF ForeignRow
<1> QED BY <1>1, <1>2, <1>3, <1>4, <1>5 DEF TableStep

\* A table step never reactivates or rewrites a credential, and a revoked one that
\* owes nothing goes on owing nothing.
LEMMA RevocationStep ==
    ASSUME TablesTyped, TableStep, NEW id \in Ids, credentials[id] # Absent
    PROVE  /\ credentials'[id] # Absent
           /\ credentials'[id].binding = credentials[id].binding
           /\ credentials'[id].registered_at = credentials[id].registered_at
           /\ Revoked(id) => Revoked(id)' /\ credentials'[id].revoked_at = credentials[id].revoked_at
           /\ Revoked(id) /\ ~Owed(id) => ~Owed(id)'
<1>0. credentials[id] \in Credential
  BY DEF TablesTyped
<1>1. CASE credentials'[id] = credentials[id]
  BY <1>1 DEF Revoked, Owed
<1>2. CASE /\ ~Revoked(id)
           /\ \E pending \in Event \cup {Null} :
                 credentials'[id] = RevokedForm(credentials[id], credentials'[id].revoked_at, pending)
           /\ credentials'[id].revoked_at \in Times
  BY <1>0, <1>2, RevokedFormFields, SentinelAssumption DEF Revoked
<1>3. CASE credentials'[id] = SettledForm(credentials[id])
  BY <1>0, <1>3, SettledFormFields, SentinelAssumption DEF Revoked, Owed
<1> QED BY <1>1, <1>2, <1>3, CredentialStep

\* No method, repair, restart or out-of-band write ever brings a revoked
\* credential back or changes what an id stands for.
THEOREM RevocationIsTerminal == Spec => RevocationTerminal
<1>1. TypeOK /\ [Next]_vars =>
        [\A id \in Ids : credentials[id] # Absent =>
           /\ credentials'[id] # Absent
           /\ credentials'[id].binding = credentials[id].binding
           /\ credentials'[id].registered_at = credentials[id].registered_at
           /\ Revoked(id) => Revoked(id)' /\ credentials'[id].revoked_at = credentials[id].revoked_at
        ]_vars
  BY StepIsTableStep, RevocationStep DEF TypeOK, TablesTyped
<1> QED BY <1>1, TypeCorrect, PTL DEF Spec, RevocationTerminal

-----------------------------------------------------------------------------
(* Answers, debts and newer layouts *)

\* A table step adds rows only, and clears the metadata of an owed row only in
\* the step that stores it.
LEMMA OwedStep ==
    ASSUME TablesTyped, TableStep
    PROVE  /\ history \subseteq history'
           /\ \A id \in Ids : Owed(id) /\ ~Owed(id)' => OwedRow(id) \in history'
<1> USE DEF TablesTyped
<1>1. ASSUME NEW id \in Ids, credentials'[id] = credentials[id]
      PROVE  Owed(id)' = Owed(id)
  BY <1>1 DEF Owed, Revoked
<1>2. CASE Quiet
  BY <1>1, <1>2 DEF Quiet
<1>3. ASSUME NEW new \in Ids, NEW binding \in Bindings, NEW now \in Times, NEW request \in Requests,
             CreateStep(new, binding, now, request)
      PROVE  history \subseteq history' /\ \A id \in Ids : Owed(id) /\ ~Owed(id)' => FALSE
  <2>1. history \subseteq history' /\ ~Owed(new)
    BY <1>3 DEF CreateStep, Create, Owed, Revoked
  <2>2. \A id \in Ids \ {new} : credentials'[id] = credentials[id]
    BY <1>3 DEF CreateStep, Create
  <2> QED BY <1>1, <2>1, <2>2
<1>4. ASSUME NEW gone \in Ids, NEW at \in Times, NEW request \in Requests, RevokeStep(gone, at, request)
      PROVE  history \subseteq history' /\ \A id \in Ids : Owed(id) /\ ~Owed(id)' => FALSE
  <2>1. history \subseteq history' /\ ~Owed(gone)
    BY <1>4 DEF RevokeStep, Active, Owed, Revoked
  <2>2. \A id \in Ids \ {gone} : credentials'[id] = credentials[id]
    BY <1>4 DEF RevokeStep
  <2> QED BY <1>1, <2>1, <2>2
<1>5. ASSUME NEW settled \in Ids, SettleStep(settled)
      PROVE  /\ history \subseteq history' /\ OwedRow(settled) \in history'
             /\ \A id \in Ids \ {settled} : Owed(id) /\ ~Owed(id)' => FALSE
  <2>1. history \subseteq history' /\ OwedRow(settled) \in history'
    BY <1>5 DEF SettleStep, Settle
  <2>2. \A id \in Ids \ {settled} : credentials'[id] = credentials[id]
    BY <1>5 DEF SettleStep, Settle
  <2> QED BY <1>1, <2>1, <2>2
<1>6. ASSUME NEW other \in Ids, NEW ts \in Times, ForeignRow(other, ts, LegacyRequest)
      PROVE  history \subseteq history' /\ \A id \in Ids : Owed(id) /\ ~Owed(id)' => FALSE
  BY <1>1, <1>6 DEF ForeignRow
<1> QED BY <1>2, <1>3, <1>4, <1>5, <1>6 DEF TableStep

\* No owed audit row is ever forgotten, whatever row is in its place and
\* however often its repair fails.
THEOREM DebtsAreKept == Spec => OwedNeverForgotten
<1>1. TypeOK /\ [Next]_vars =>
        [/\ history \subseteq history'
         /\ \A id \in Ids : Owed(id) /\ ~Owed(id)' => OwedRow(id) \in history']_vars
  BY StepIsTableStep, OwedStep DEF TypeOK, TablesTyped
<1> QED BY <1>1, TypeCorrect, PTL DEF Spec, OwedNeverForgotten

-----------------------------------------------------------------------------
\* An instance over a newer layout is down or has latched the error.
NewerIsLatched == version > SCHEMA_VERSION => object # "ready"

\* Only a constructor makes an instance ready, and only a rollback meets a newer
\* layout, while no instance runs.
LEMMA NewerInductive ==
    ASSUME TypeOK, NewerIsLatched, [Next]_vars
    PROVE  NewerIsLatched'
<1>1. CASE UNCHANGED <<version, object>>
  BY <1>1 DEF NewerIsLatched
<1>2. ASSUME NEW committed \in BOOLEAN, Construct(committed)
      PROVE  NewerIsLatched'
  BY <1>2 DEF Construct, NewerIsLatched, SCHEMA_VERSION, TypeOK
<1>3. CASE Evict \/ NewerBuild
  BY <1>3 DEF Evict, NewerBuild, NewerIsLatched
<1>4. ASSUME NEW id \in Ids, NEW request \in Requests, Method(id, request)
      PROVE  UNCHANGED <<version, object>>
  BY <1>4 DEF Method, Register, Revoke, RepairHistory, Status
<1> QED BY <1>1, <1>2, <1>3, <1>4 DEF Next, Environment, ForeignRow, vars

\* While the error is latched the methods answer and touch nothing.
LEMMA NewerStep ==
    ASSUME NewerIsLatched, version > SCHEMA_VERSION, [Next]_vars, TypeOK
    PROVE  /\ object' # "ready"
           /\ UNCHANGED <<version, credentials>>
           /\ reply' # reply => UNCHANGED history
<1>1. ~Serving
  BY DEF NewerIsLatched, Serving
<1>2. ASSUME NEW id \in Ids, NEW request \in Requests, Method(id, request)
      PROVE  UNCHANGED <<version, object, credentials, history>>
  <2>1. ASSUME NEW binding \in Bindings, NEW expiry \in Times, NEW now \in Times, NEW committed \in BOOLEAN,
               Register(id, binding, expiry, now, request, committed)
        PROVE  UNCHANGED <<version, object, credentials, history>>
    BY <1>1, <2>1 DEF Register, RegisterOutcome
  <2>2. ASSUME NEW now \in Times, NEW first \in BOOLEAN, NEW second \in BOOLEAN,
               Revoke(id, now, request, first, second)
        PROVE  UNCHANGED <<version, object, credentials, history>>
    BY <1>1, <2>2 DEF Revoke
  <2>3. ASSUME NEW committed \in BOOLEAN, RepairHistory(id, request, committed)
        PROVE  UNCHANGED <<version, object, credentials, history>>
    BY <1>1, <2>3 DEF RepairHistory, RepairTx
  <2>4. ASSUME NEW committed \in BOOLEAN, Status(id, request, committed)
        PROVE  UNCHANGED <<version, object, credentials, history>>
    BY <2>4 DEF Status
  <2> QED BY <1>2, <2>1, <2>2, <2>3, <2>4 DEF Method
<1>3. CASE Environment
  BY <1>3 DEF Environment, Construct, Evict, NewerBuild, ForeignRow, NewerIsLatched, SCHEMA_VERSION, TypeOK
<1>4. CASE UNCHANGED vars
  BY <1>4 DEF vars, NewerIsLatched
<1> QED BY <1>2, <1>3, <1>4 DEF Next, NewerIsLatched

\* A rolled-back Worker never serves from, nor writes to, a newer database.
THEOREM NewerLayoutIsSafe == Spec => NewerLayoutUntouched
<1>1. Init => NewerIsLatched
  BY DEF Init, NewerIsLatched
<1>2. TypeOK /\ NewerIsLatched /\ [Next]_vars => NewerIsLatched'
  BY NewerInductive
<1>3. TypeOK /\ NewerIsLatched /\ [Next]_vars =>
        [version > SCHEMA_VERSION =>
            /\ object' # "ready"
            /\ UNCHANGED <<version, credentials>>
            /\ reply' # reply => UNCHANGED history]_vars
  BY NewerStep
<1> QED BY <1>1, <1>2, <1>3, TypeCorrect, PTL DEF Spec, NewerLayoutUntouched

-----------------------------------------------------------------------------
\* What a repair leaves behind: only a revoked credential is repaired, and
\* neither `repaired` nor `clean` leaves a row owed.
LEMMA RepairLeaves ==
    ASSUME TablesTyped, NEW id \in Ids, AuditOf(id),
           NEW outcome, outcome \in {RepairOutcome(id), "storage_error"}, RepairTx(id, outcome)
    PROVE  /\ Revoked(id) => Revoked(id)'
           /\ outcome = "repaired" => Revoked(id)' /\ ~Owed(id)'
           /\ outcome = "clean" => ~Owed(id)'
<1>1. CASE outcome = "repaired"
  <2>1. credentials[id] # Absent /\ credentials[id].pending # Null
    BY <1>1 DEF RepairOutcome
  <2>2. credentials[id] \in Credential /\ credentials[id].status = "REVOKED"
    BY <2>1 DEF AuditOf, TablesTyped, Credential
  <2>3. credentials'[id] = SettledForm(credentials[id])
    BY <1>1 DEF RepairTx, Settle, TablesTyped
  <2> QED BY <1>1, <2>2, <2>3, SettledFormFields, SentinelAssumption DEF Revoked, Owed
<1>2. CASE outcome = "clean"
  <2>1. UNCHANGED credentials /\ ~Owed(id)
    BY <1>2 DEF RepairTx, RepairOutcome, Owed, Revoked
  <2> QED BY <1>2, <2>1 DEF Owed, Revoked
<1>3. CASE outcome \notin {"repaired", "clean"}
  BY <1>3 DEF RepairTx, Revoked
<1> QED BY <1>1, <1>2, <1>3

\* What transaction 1, with or without transaction 2, leaves of an active
\* credential, and what the caller is told of it.
LEMMA RevokeActiveLeaves ==
    ASSUME TablesTyped, NEW id \in Active, NEW request \in Requests, NEW now \in Times,
           NEW second \in BOOLEAN, RevokeActive(id, now, request, second)
    PROVE  /\ Revoked(id)'
           /\ reply'.outcome # "unchanged"
           /\ reply'.outcome = "revoked" =>
                 /\ ~Owed(id)'
                 /\ \E row \in RowsOf(id, "revoked")' : row.request_id = request
<1> DEFINE at == Later(now, credentials[id].registered_at)
           settled == second /\ RowsOf(id, "revoked") = {}
           pending == IF settled THEN Null ELSE [ts |-> at, request_id |-> request]
<1>1. id \in Ids /\ credentials[id] \in Credential
  BY DEF TablesTyped, Active
<1>2. at \in Times
  BY <1>1, LaterBounds DEF Credential
<1>3. pending \in Event \cup {Null}
  BY <1>2 DEF Event, Stamps
<1>4. credentials'[id] = RevokedForm(credentials[id], at, pending)
  BY <1>1 DEF RevokeActive, TablesTyped
<1>5. /\ credentials'[id] \in Credential
      /\ credentials'[id].status = "REVOKED" /\ credentials'[id].pending = pending
  <2> HIDE DEF at, pending
  <2> QED BY <1>1, <1>2, <1>3, <1>4, RevokedFormFields
<1>6. Revoked(id)' /\ (settled => ~Owed(id)')
  BY <1>5, SentinelAssumption DEF Revoked, Owed
<1>7. reply'.outcome = IF settled THEN "revoked" ELSE "revoked_history_failed"
  BY DEF RevokeActive, Answer
<1>8. ASSUME settled
      PROVE  \E row \in RowsOf(id, "revoked")' : row.request_id = request
  <2>1. history' = history \cup {NewRow(id, "revoked", at, request)}
    BY <1>8 DEF RevokeActive
  <2>2. NewRow(id, "revoked", at, request) \in RowsOf(id, "revoked")'
    BY <1>1, <2>1, RowsOfAdded
  <2> QED BY <2>2 DEF NewRow
<1> QED BY <1>6, <1>7, <1>8

\* RepliesTruthful, of an answer that was given.
LastAnswerTrue ==
    LET id == reply.id
    IN  /\ reply.op = "revoke" /\ reply.outcome \notin {"absent", "storage_error"} => Revoked(id)
        /\ reply.op = "revoke" /\ reply.outcome = "revoked" =>
              \E row \in RowsOf(id, "revoked") : row.request_id = reply.request
        /\ reply.op = "revoke" /\ reply.outcome \in {"revoked", "unchanged"} => ~Owed(id)
        /\ reply.op = "repair" /\ reply.outcome = "repaired" => Revoked(id)
        /\ reply.op = "repair" /\ reply.outcome \in {"repaired", "clean"} => ~Owed(id)
        /\ reply.op = "register" /\ reply.outcome \in {"created", "unchanged"} => id \in Active \/ Revoked(id)

\* The new answer of a method is true of the tables the method leaves.
LEMMA MethodTruthful ==
    ASSUME AuditInv, NEW id \in Ids, NEW request \in Requests, Method(id, request)
    PROVE  LastAnswerTrue'
<1> USE DEF AuditInv
<1>1. TablesTyped /\ AuditOf(id)
  BY PerId DEF TypeOK, TablesTyped
<1>2. ASSUME NEW binding \in Bindings, NEW expiry \in Times, NEW now \in Times,
             NEW committed \in BOOLEAN, Register(id, binding, expiry, now, request, committed)
      PROVE  LastAnswerTrue'
  <2> DEFINE outcome == IF expiry > now /\ ~committed THEN "storage_error"
                        ELSE RegisterOutcome(id, binding, expiry, now)
  <2>1. reply' = [op |-> "register", id |-> id, outcome |-> outcome, request |-> request]
    BY <1>2 DEF Register, Answer
  <2>2. ASSUME outcome = "created"
        PROVE  (id \in Active)'
    <3>1. credentials'[id] = [status |-> "ACTIVE", binding |-> binding, registered_at |-> now,
                              revoked_at |-> Null, pending |-> Null]
      BY <1>1, <1>2, <2>2 DEF Register, Create, TablesTyped
    <3>2. credentials'[id] \in Credential
      BY <3>1 DEF Credential
    <3> QED BY <3>1, <3>2, SentinelAssumption DEF Active
  <2>3. ASSUME outcome = "unchanged"
        PROVE  (id \in Active)' \/ Revoked(id)'
    <3>1. UNCHANGED credentials
      BY <1>2, <2>3 DEF Register
    <3>2. credentials[id] # Absent
      BY <2>3 DEF RegisterOutcome
    <3> QED BY <1>1, <3>1, <3>2 DEF Active, Revoked, TablesTyped, Credential
  <2> HIDE DEF outcome
  <2> QED BY <2>1, <2>2, <2>3 DEF LastAnswerTrue
<1>3. ASSUME NEW now \in Times, NEW first \in BOOLEAN, NEW second \in BOOLEAN,
             Revoke(id, now, request, first, second)
      PROVE  LastAnswerTrue'
  <2>1. CASE Serving /\ first /\ id \in Active
    <3>1. RevokeActive(id, now, request, second)
      BY <1>3, <2>1 DEF Revoke
    <3>2. reply'.op = "revoke" /\ reply'.id = id /\ reply'.request = request
      BY <3>1 DEF RevokeActive, Answer
    <3> QED BY <1>1, <2>1, <3>1, <3>2, RevokeActiveLeaves DEF LastAnswerTrue
  <2>2. CASE Serving /\ first /\ id \notin Active /\ Owed(id)
    <3> DEFINE outcome == IF second THEN RepairOutcome(id) ELSE "storage_error"
               answer == CASE outcome = "conflict" -> "revoked_history_conflict"
                           [] outcome = "storage_error" -> "revoked_history_failed"
                           [] OTHER -> "unchanged"
    <3>1. RevokeOwed(id, request, second)
      BY <1>3, <2>2 DEF Revoke
    <3>2. RepairTx(id, outcome)
      BY <3>1 DEF RevokeOwed
    <3>3. reply' = [op |-> "revoke", id |-> id, outcome |-> answer, request |-> request]
      BY <3>1 DEF RevokeOwed, Answer
    <3>4. outcome \in {RepairOutcome(id), "storage_error"}
      OBVIOUS
    <3>5. outcome \in {"repaired", "clean", "conflict", "storage_error"}
      BY <2>2 DEF Owed, Revoked, RepairOutcome
    <3>6. /\ answer # "revoked"
          /\ answer = "unchanged" => outcome \in {"repaired", "clean"}
      BY <3>5
    <3> HIDE DEF outcome, answer
    <3>7. Revoked(id)' /\ (outcome \in {"repaired", "clean"} => ~Owed(id)')
      BY <1>1, <2>2, <3>2, <3>4, RepairLeaves DEF Owed
    <3> QED BY <3>3, <3>6, <3>7 DEF LastAnswerTrue
  <2>3. CASE ~Serving \/ ~first
    BY <1>3, <2>3 DEF Revoke, Answer, LastAnswerTrue
  <2>4. CASE Serving /\ first /\ id \notin Active /\ ~Owed(id)
    <3>1. /\ reply'.op = "revoke" /\ reply'.id = id
          /\ reply'.outcome = IF credentials[id] = Absent THEN "absent" ELSE "unchanged"
          /\ UNCHANGED credentials
      BY <1>3, <2>4 DEF Revoke, Answer
    <3>2. credentials[id] # Absent => Revoked(id)
      BY <1>1, <2>4 DEF Active, Revoked, TablesTyped, Credential
    <3>3. ~Owed(id)' /\ (Revoked(id) => Revoked(id)')
      BY <2>4, <3>1 DEF Owed, Revoked
    <3> QED BY <3>1, <3>2, <3>3 DEF LastAnswerTrue
  <2> QED BY <2>1, <2>2, <2>3, <2>4
<1>4. ASSUME NEW committed \in BOOLEAN, RepairHistory(id, request, committed)
      PROVE  LastAnswerTrue'
  <2> DEFINE outcome == IF Serving /\ committed THEN RepairOutcome(id) ELSE "storage_error"
  <2>1. RepairTx(id, outcome)
    BY <1>4 DEF RepairHistory
  <2>2. reply' = [op |-> "repair", id |-> id, outcome |-> outcome, request |-> request]
    BY <1>4 DEF RepairHistory, Answer
  <2>3. outcome \in {RepairOutcome(id), "storage_error"}
    OBVIOUS
  <2> HIDE DEF outcome
  <2> QED BY <1>1, <2>1, <2>2, <2>3, RepairLeaves DEF LastAnswerTrue
<1>5. ASSUME NEW committed \in BOOLEAN, Status(id, request, committed)
      PROVE  LastAnswerTrue'
  BY <1>5 DEF Status, Answer, LastAnswerTrue
<1> QED BY <1>2, <1>3, <1>4, <1>5 DEF Method

\* No later step of the environment makes the last answer false: it may add a
\* row and removes none.
LEMMA EnvironmentTruthful ==
    ASSUME RepliesTruthful, Environment \/ UNCHANGED vars
    PROVE  RepliesTruthful'
<1>1. UNCHANGED <<credentials, reply>> /\ history \subseteq history'
  BY DEF Environment, Construct, Evict, NewerBuild, ForeignRow, vars
<1>2. \A id \in Ids : /\ Revoked(id)' = Revoked(id) /\ Owed(id)' = Owed(id)
                      /\ RowsOf(id, "revoked") \subseteq RowsOf(id, "revoked")'
  BY <1>1 DEF Revoked, Owed, RowsOf
<1> QED BY <1>1, <1>2 DEF RepliesTruthful, Active, Revoked, Owed, RowsOf

\* Whatever the registry last told a caller about a revocation, a repair or a
\* registration holds of its tables, and goes on holding until the next answer.
THEOREM AnswersAreTrue == Spec => []RepliesTruthful
<1>1. Init => RepliesTruthful
  BY DEF Init, RepliesTruthful
<1>2. AuditInv /\ RepliesTruthful /\ [Next]_vars => RepliesTruthful'
  <2>1. LastAnswerTrue' => RepliesTruthful'
    BY DEF LastAnswerTrue, RepliesTruthful
  <2> QED BY <2>1, MethodTruthful, EnvironmentTruthful DEF Next
<1> QED BY <1>1, <1>2, AuditInductive, PTL DEF Spec

-----------------------------------------------------------------------------
(***************************************************************************)
(* TenantRegistry implements RevocationLedger: under the mapping of        *)
(* TenantRegistry every table step is a step of the ledger, or a stutter.  *)
(***************************************************************************)
\* The mapping, one id at a time.
StatusOf(id) ==
    IF credentials[id] = Absent THEN "absent"
    ELSE IF credentials[id].status = "ACTIVE" THEN "active" ELSE "revoked"

RecordedOf(id) ==
    /\ Revoked(id)
    /\ \E row \in RowsOf(id, "revoked") : EventOf(row) = LedgerEvent(id)

Same(id) ==
    /\ StatusOf(id)' = StatusOf(id)
    /\ LedgerEvent(id)' = LedgerEvent(id)
    /\ RecordedOf(id)' <=> RecordedOf(id)

\* What a table step does to the id it is about, as the ledger sees it.
RegisteredNow(id) ==
    /\ StatusOf(id) = "absent" /\ StatusOf(id)' = "active"
    /\ Cardinality(Active) < MaxActive
    /\ LedgerEvent(id)' = LedgerEvent(id)
    /\ RecordedOf(id)' <=> RecordedOf(id)

RevokedNow(id) ==
    /\ StatusOf(id) = "active" /\ StatusOf(id)' = "revoked"
    /\ LedgerEvent(id)' \in Event
    /\ ~RecordedOf(id)

RecordedNow(id) ==
    /\ StatusOf(id) = "revoked" /\ StatusOf(id)' = "revoked"
    /\ LedgerEvent(id)' = LedgerEvent(id)
    /\ RecordedOf(id) => RecordedOf(id)'

-----------------------------------------------------------------------------
\* The event of a revoked id is an event; the event of another one is none.
LEMMA LedgerEventTyped ==
    ASSUME TablesTyped, NEW id \in Ids, AuditOf(id)
    PROVE  /\ Revoked(id) => LedgerEvent(id) \in Event
           /\ ~Revoked(id) => LedgerEvent(id) = Null
<1>1. CASE ~Revoked(id)
  BY <1>1 DEF LedgerEvent
<1>2. CASE Revoked(id) /\ Owed(id)
  BY <1>2 DEF LedgerEvent, Revoked, Owed, TablesTyped, Credential
<1>3. CASE Revoked(id) /\ ~Owed(id)
  <2>1. RowsOf(id, "revoked") # {}
    BY <1>3 DEF AuditOf, Revoked, Owed
  <2>2. (CHOOSE row \in RowsOf(id, "revoked") : TRUE) \in RowsOf(id, "revoked")
    BY <2>1
  <2>3. \A row \in RowsOf(id, "revoked") : EventOf(row) \in Event
    BY DEF TablesTyped, RowsOf, Row, EventOf, Event
  <2> QED BY <1>3, <2>2, <2>3 DEF LedgerEvent
<1> QED BY <1>1, <1>2, <1>3

\* A revoked id that owes nothing is recorded, by its only row.
LEMMA SettledIsRecorded ==
    ASSUME NEW id \in Ids, AuditOf(id), HistoryOf(id), Revoked(id), ~Owed(id)
    PROVE  /\ RecordedOf(id)
           /\ \A row \in RowsOf(id, "revoked") : LedgerEvent(id) = EventOf(row)
<1>1. RowsOf(id, "revoked") # {}
  BY DEF AuditOf, Revoked, Owed
<1>2. (CHOOSE row \in RowsOf(id, "revoked") : TRUE) \in RowsOf(id, "revoked")
  BY <1>1
<1>3. \A row, other \in RowsOf(id, "revoked") : row = other
  BY DEF HistoryOf
<1> QED BY <1>1, <1>2, <1>3 DEF RecordedOf, LedgerEvent

\* A step that leaves the credential and the 'revoked' rows of an id alone is
\* a stutter for it.
LEMMA SameWhenUntouched ==
    ASSUME NEW id \in Ids, credentials'[id] = credentials[id],
           RowsOf(id, "revoked")' = RowsOf(id, "revoked")
    PROVE  Same(id)
<1>1. /\ StatusOf(id)' = StatusOf(id)
      /\ Revoked(id)' = Revoked(id)
      /\ Owed(id)' = Owed(id)
  BY DEF StatusOf, Revoked, Owed
<1>2. LedgerEvent(id)' = LedgerEvent(id)
  <2> DEFINE Chosen(rows) == CHOOSE row \in rows : TRUE
  <2>1. LedgerEvent(id) = IF ~Revoked(id) THEN Null ELSE IF Owed(id) THEN credentials[id].pending
                          ELSE EventOf(Chosen(RowsOf(id, "revoked")))
    BY DEF LedgerEvent
  <2>2. LedgerEvent(id)' = IF ~Revoked(id)' THEN Null ELSE IF Owed(id)' THEN credentials'[id].pending
                           ELSE EventOf(Chosen(RowsOf(id, "revoked")'))
    BY DEF LedgerEvent
  <2> HIDE DEF Chosen
  <2> QED BY <1>1, <2>1, <2>2
<1> QED BY <1>1, <1>2 DEF Same, RecordedOf

-----------------------------------------------------------------------------
(* The four kinds of table steps *)

LedgerInv == TablesTyped /\ \A id \in Ids : AuditOf(id) /\ HistoryOf(id)

\* Creating a credential registers its id in the ledger.
LEMMA CreateRefines ==
    ASSUME LedgerInv, NEW new \in Ids, NEW binding \in Bindings, NEW now \in Times,
           NEW request \in Requests, CreateStep(new, binding, now, request)
    PROVE  RegisteredNow(new) /\ \A id \in Ids \ {new} : Same(id)
<1> DEFINE cred == [status |-> "ACTIVE", binding |-> binding, registered_at |-> now,
                    revoked_at |-> Null, pending |-> Null]
<1>1. /\ credentials[new] = Absent /\ Cardinality(Active) < MaxActive
      /\ credentials' = [credentials EXCEPT ![new] = cred]
      /\ history' = history \cup {NewRow(new, "registered", now, request)}
  BY DEF CreateStep, Create
<1>2. \A id \in Ids : RowsOf(id, "revoked")' = RowsOf(id, "revoked")
  BY <1>1, RowsOfAdded
<1>3. \A id \in Ids \ {new} : Same(id)
  BY <1>1, <1>2, SameWhenUntouched DEF LedgerInv, TablesTyped
<1>4. credentials'[new] = cred /\ cred.status = "ACTIVE" /\ cred # Absent
  BY <1>1, SentinelAssumption DEF LedgerInv, TablesTyped, Credential
<1>5. ~Revoked(new) /\ ~Revoked(new)'
  BY <1>1, <1>4 DEF Revoked
<1>6. StatusOf(new) = "absent" /\ StatusOf(new)' = "active"
  BY <1>1, <1>4 DEF StatusOf
<1>7. /\ LedgerEvent(new) = Null /\ LedgerEvent(new)' = Null
      /\ ~RecordedOf(new) /\ ~RecordedOf(new)'
  BY <1>5 DEF LedgerEvent, RecordedOf
<1> QED BY <1>1, <1>3, <1>6, <1>7 DEF RegisteredNow

\* Revoking a credential, with or without its row, revokes its id.
LEMMA RevokeRefines ==
    ASSUME LedgerInv, NEW gone \in Ids, NEW at \in Times, NEW request \in Requests,
           RevokeStep(gone, at, request)
    PROVE  RevokedNow(gone) /\ \A id \in Ids \ {gone} : Same(id)
<1> DEFINE event == [ts |-> at, request_id |-> request]
           row == NewRow(gone, "revoked", at, request)
<1>1. /\ credentials[gone] \in Credential /\ credentials[gone] # Absent
      /\ credentials[gone].status = "ACTIVE"
      /\ event \in Event /\ event # Null /\ EventOf(row) = event
  BY SentinelAssumption DEF RevokeStep, Active, LedgerInv, TablesTyped, Event, Stamps, EventOf, NewRow
<1>2. StatusOf(gone) = "active" /\ ~RecordedOf(gone)
  BY <1>1 DEF StatusOf, RecordedOf, Revoked
<1> HIDE DEF event, row
<1>3. CASE /\ RowsOf(gone, "revoked") = {}
           /\ credentials' = [credentials EXCEPT ![gone] = RevokedForm(@, at, Null)]
           /\ history' = history \cup {row}
  <2>1. /\ RowsOf(gone, "revoked")' = {row}
        /\ \A id \in Ids \ {gone} : RowsOf(id, "revoked")' = RowsOf(id, "revoked")
    BY <1>3, RowsOfAdded DEF row
  <2>2. /\ credentials'[gone] # Absent /\ credentials'[gone].status = "REVOKED"
        /\ credentials'[gone].pending = Null
    BY <1>1, <1>3, RevokedFormFields, SentinelAssumption DEF LedgerInv, TablesTyped
  <2>3. StatusOf(gone)' = "revoked" /\ Revoked(gone)' /\ ~Owed(gone)'
    BY <2>2 DEF StatusOf, Revoked, Owed
  <2>4. LedgerEvent(gone)' = event
    BY <1>1, <2>1, <2>3 DEF LedgerEvent
  <2>5. \A id \in Ids \ {gone} : Same(id)
    BY <1>3, <2>1, SameWhenUntouched DEF LedgerInv, TablesTyped
  <2> QED BY <1>1, <1>2, <2>3, <2>4, <2>5 DEF RevokedNow
<1>4. CASE /\ credentials' = [credentials EXCEPT ![gone] = RevokedForm(@, at, event)]
           /\ history' = history
  <2>1. /\ credentials'[gone] # Absent /\ credentials'[gone].status = "REVOKED"
        /\ credentials'[gone].pending = event
    BY <1>1, <1>4, RevokedFormFields, SentinelAssumption DEF LedgerInv, TablesTyped
  <2>2. StatusOf(gone)' = "revoked" /\ Revoked(gone)' /\ Owed(gone)'
    BY <1>1, <2>1 DEF StatusOf, Revoked, Owed
  <2>3. LedgerEvent(gone)' = event
    BY <2>1, <2>2 DEF LedgerEvent
  <2>4. \A id \in Ids \ {gone} : Same(id)
    BY <1>4, SameWhenUntouched DEF LedgerInv, TablesTyped, RowsOf
  <2> QED BY <1>1, <1>2, <2>2, <2>3, <2>4 DEF RevokedNow
<1> QED BY <1>3, <1>4 DEF RevokeStep, event, row

\* Settling an owed row records the event that the ledger holds already.
LEMMA SettleRefines ==
    ASSUME LedgerInv, NEW settled \in Ids, SettleStep(settled)
    PROVE  RecordedNow(settled) /\ \A id \in Ids \ {settled} : Same(id)
<1> DEFINE row == OwedRow(settled)
<1>1. /\ credentials[settled] \in Credential /\ credentials[settled] # Absent
      /\ credentials[settled].pending \in Event /\ credentials[settled].pending # Null
      /\ EventOf(row) = credentials[settled].pending
  BY DEF SettleStep, LedgerInv, TablesTyped, Credential, Event, OwedRow, NewRow, EventOf
<1>2. credentials[settled].status = "REVOKED"
  BY <1>1 DEF LedgerInv, AuditOf, Credential
<1>3. StatusOf(settled) = "revoked" /\ LedgerEvent(settled) = credentials[settled].pending
  BY <1>1, <1>2 DEF StatusOf, LedgerEvent, Revoked, Owed
<1>4. /\ RowsOf(settled, "revoked")' = {row}
      /\ \A id \in Ids \ {settled} : RowsOf(id, "revoked")' = RowsOf(id, "revoked")
  BY RowsOfAdded DEF SettleStep, Settle, OwedRow
<1> HIDE DEF row
<1>5. /\ credentials'[settled] # Absent /\ credentials'[settled].status = "REVOKED"
      /\ credentials'[settled].pending = Null
  BY <1>1, <1>2, SettledFormFields, SentinelAssumption DEF SettleStep, Settle, LedgerInv, TablesTyped
<1>6. StatusOf(settled)' = "revoked" /\ Revoked(settled)' /\ ~Owed(settled)'
  BY <1>5 DEF StatusOf, Revoked, Owed
<1>7. LedgerEvent(settled)' = EventOf(row) /\ RecordedOf(settled)'
  BY <1>4, <1>6 DEF LedgerEvent, RecordedOf
<1>8. \A id \in Ids \ {settled} : Same(id)
  BY <1>4, SameWhenUntouched DEF SettleStep, Settle, LedgerInv, TablesTyped
<1> QED BY <1>1, <1>3, <1>6, <1>7, <1>8 DEF RecordedNow

\* A row written out of band is a stutter for the ledger, for it is of an id
\* that is active or owes a row of its own; at most it is the row owed.
LEMMA ForeignRefines ==
    ASSUME LedgerInv, NEW other \in Ids, NEW ts \in Times, ForeignRow(other, ts, LegacyRequest)
    PROVE  /\ RecordedNow(other) \/ Same(other)
           /\ \A id \in Ids \ {other} : Same(id)
<1> DEFINE row == NewRow(other, "revoked", ts, LegacyRequest)
<1>1. /\ credentials' = credentials /\ credentials[other] # Absent
      /\ RowsOf(other, "revoked") = {}
      /\ history' = history \cup {row}
  BY DEF ForeignRow
<1>2. \A id \in Ids \ {other} : Same(id)
  BY <1>1, RowsOfAdded, SameWhenUntouched
<1>3. StatusOf(other)' = StatusOf(other) /\ Revoked(other)' = Revoked(other) /\ Owed(other)' = Owed(other)
  BY <1>1 DEF StatusOf, Revoked, Owed
<1>4. CASE ~Revoked(other)
  BY <1>2, <1>3, <1>4 DEF Same, LedgerEvent, RecordedOf
<1>5. CASE Revoked(other)
  <2>1. Owed(other)
    BY <1>1, <1>5 DEF LedgerInv, AuditOf, Revoked, Owed
  <2>2. LedgerEvent(other)' = LedgerEvent(other)
    BY <1>1, <1>3, <1>5, <2>1 DEF LedgerEvent
  <2>3. ~RecordedOf(other)
    BY <1>1 DEF RecordedOf
  <2>4. StatusOf(other) = "revoked"
    BY <1>5 DEF Revoked, StatusOf
  <2> QED BY <1>2, <1>3, <2>2, <2>3, <2>4 DEF RecordedNow
<1> QED BY <1>2, <1>4, <1>5

-----------------------------------------------------------------------------
(* From the ids to the variables of the ledger *)

LedgerStatus == [id \in Ids |-> StatusOf(id)]
LedgerEvents == [id \in Ids |-> LedgerEvent(id)]
LedgerRecorded == {id \in Ids : RecordedOf(id)}

\* The ledger's steps over those three functions.
LedgerRegister(id) ==
    /\ LedgerStatus[id] = "absent" /\ Cardinality(Active) < MaxActive
    /\ LedgerStatus' = [LedgerStatus EXCEPT ![id] = "active"]
    /\ UNCHANGED <<LedgerEvents, LedgerRecorded>>

LedgerRevoke(id, e) ==
    /\ LedgerStatus[id] = "active"
    /\ LedgerStatus' = [LedgerStatus EXCEPT ![id] = "revoked"]
    /\ LedgerEvents' = [LedgerEvents EXCEPT ![id] = e]
    /\ LedgerRecorded' \in {LedgerRecorded, LedgerRecorded \cup {id}}

LedgerRecord(id) ==
    /\ LedgerStatus[id] = "revoked" /\ id \notin LedgerRecorded
    /\ LedgerRecorded' = LedgerRecorded \cup {id}
    /\ UNCHANGED <<LedgerStatus, LedgerEvents>>

LedgerStutter == UNCHANGED <<LedgerStatus, LedgerEvents, LedgerRecorded>>

\* When nothing changes for any id, nothing changes for the ledger.
LEMMA AllSame ==
    ASSUME \A id \in Ids : Same(id)
    PROVE  LedgerStutter
BY DEF Same, LedgerStutter, LedgerStatus, LedgerEvents, LedgerRecorded

\* Each kind of change of one id is the ledger's step for it, or a stutter.
LEMMA OneChanges ==
    ASSUME NEW id \in Ids, \A other \in Ids \ {id} : Same(other)
    PROVE  /\ RegisteredNow(id) => LedgerRegister(id)
           /\ RevokedNow(id) => \E e \in Event : LedgerRevoke(id, e)
           /\ RecordedNow(id) => LedgerRecord(id) \/ LedgerStutter
<1> USE DEF Same, LedgerStatus, LedgerEvents, LedgerRecorded
<1>1. CASE RegisteredNow(id)
  <2>1. LedgerStatus' = [LedgerStatus EXCEPT ![id] = "active"]
    BY <1>1 DEF RegisteredNow
  <2>2. LedgerEvents' = LedgerEvents /\ LedgerRecorded' = LedgerRecorded
    BY <1>1 DEF RegisteredNow
  <2> QED BY <1>1, <2>1, <2>2 DEF RegisteredNow, RevokedNow, RecordedNow, LedgerRegister
<1>2. CASE RevokedNow(id)
  <2>1. LedgerStatus' = [LedgerStatus EXCEPT ![id] = "revoked"]
    BY <1>2 DEF RevokedNow
  <2>2. LedgerEvents' = [LedgerEvents EXCEPT ![id] = LedgerEvent(id)']
    OBVIOUS
  <2>3. LedgerRecorded' \in {LedgerRecorded, LedgerRecorded \cup {id}}
    BY <1>2 DEF RevokedNow
  <2>4. LedgerStatus[id] = "active" /\ LedgerEvent(id)' \in Event
    BY <1>2 DEF RevokedNow
  <2>5. \E e \in Event : LedgerRevoke(id, e)
    BY <2>1, <2>2, <2>3, <2>4 DEF LedgerRevoke
  <2> QED BY <1>2, <2>5 DEF RegisteredNow, RevokedNow, RecordedNow
<1>3. CASE RecordedNow(id)
  <2>1. LedgerStatus' = LedgerStatus /\ LedgerEvents' = LedgerEvents /\ LedgerStatus[id] = "revoked"
    BY <1>3 DEF RecordedNow
  <2>2. \/ LedgerRecorded' = LedgerRecorded
        \/ id \notin LedgerRecorded /\ LedgerRecorded' = LedgerRecorded \cup {id}
    BY <1>3 DEF RecordedNow
  <2>3. LedgerRecord(id) \/ LedgerStutter
    BY <2>1, <2>2 DEF LedgerRecord, LedgerStutter
  <2> QED BY <1>3, <2>3 DEF RegisteredNow, RevokedNow, RecordedNow
<1> QED BY <1>1, <1>2, <1>3

\* Every table step is a step of the ledger or a stutter.
LEMMA TableStepRefines ==
    ASSUME LedgerInv, TableStep
    PROVE  \/ LedgerStutter
           \/ \E id \in Ids : \/ LedgerRegister(id)
                              \/ \E e \in Event : LedgerRevoke(id, e)
                              \/ LedgerRecord(id)
<1>1. CASE Quiet
  <2>1. \A id \in Ids : Same(id)
    BY <1>1, SameWhenUntouched DEF Quiet, RowsOf
  <2> QED BY <2>1, AllSame
<1>2. ASSUME NEW id \in Ids, NEW binding \in Bindings, NEW now \in Times, NEW request \in Requests,
             CreateStep(id, binding, now, request)
      PROVE  LedgerRegister(id)
  BY <1>2, CreateRefines, OneChanges
<1>3. ASSUME NEW id \in Ids, NEW at \in Times, NEW request \in Requests, RevokeStep(id, at, request)
      PROVE  \E e \in Event : LedgerRevoke(id, e)
  BY <1>3, RevokeRefines, OneChanges
<1>4. ASSUME NEW id \in Ids, SettleStep(id)
      PROVE  LedgerRecord(id) \/ LedgerStutter
  BY <1>4, SettleRefines, OneChanges
<1>5. ASSUME NEW id \in Ids, NEW ts \in Times, ForeignRow(id, ts, LegacyRequest)
      PROVE  LedgerRecord(id) \/ LedgerStutter
  <2>1. CASE RecordedNow(id)
    BY <1>5, <2>1, ForeignRefines, OneChanges
  <2>2. CASE Same(id)
    BY <1>5, <2>2, ForeignRefines, AllSame
  <2> QED BY <1>5, <2>1, <2>2, ForeignRefines
<1> QED BY <1>1, <1>2, <1>3, <1>4, <1>5 DEF TableStep

-----------------------------------------------------------------------------
(* The refinement *)

\* The invariants hold at a state exactly of every id.
LEMMA AuditInvPerId == AuditInv => LedgerInv
BY PerId DEF AuditInv, LedgerInv, TypeOK, TablesTyped

\* The ledger counts active credentials as the registry does.
LEMMA SameCardinality == \A S : Ledger!Cardinality(S) = Cardinality(S)
BY DEF Ledger!Cardinality, Cardinality

\* An empty database, or one of version 1, is a ledger that owes nothing.
LEMMA InitRefines ==
    ASSUME Init
    PROVE  Ledger!Init
<1>1. AuditInv /\ LedgerInv
  BY AuditInductive, AuditInvPerId
<1>2. ASSUME NEW id \in Ids
      PROVE  /\ StatusOf(id) \in {"absent", "active", "revoked"}
             /\ LedgerEvent(id) \in Event \cup {Null}
             /\ LedgerEvent(id) # Null <=> StatusOf(id) = "revoked"
             /\ StatusOf(id) = "revoked" <=> RecordedOf(id)
  <2>1. StatusOf(id) = "revoked" <=> Revoked(id)
    BY <1>1 DEF StatusOf, Revoked, LedgerInv, TablesTyped, Credential
  <2>2. /\ Revoked(id) => LedgerEvent(id) \in Event
        /\ ~Revoked(id) => LedgerEvent(id) = Null
    BY <1>1, LedgerEventTyped DEF LedgerInv
  <2>3. ~Owed(id)
    BY DEF Init, Owed, Revoked
  <2>4. Revoked(id) <=> RecordedOf(id)
    BY <1>1, <2>3, SettledIsRecorded DEF LedgerInv, RecordedOf
  <2> QED BY <2>1, <2>2, <2>4, SentinelAssumption DEF StatusOf
<1>3. Cardinality(Active) <= MaxActive
  <2>1. CASE version = 0
    <3>1. Active = {}
      BY <2>1 DEF Init, Active
    <3> QED BY <3>1, FS_EmptySet, ConstantsAssumption
  <2>2. CASE version = 1
    BY <2>2 DEF Init
  <2> QED BY <2>1, <2>2 DEF Init
<1>4. {id \in Ids : StatusOf(id) = "active"} = Active
  BY <1>1 DEF StatusOf, Active, LedgerInv, TablesTyped, Credential
<1> QED BY <1>2, <1>3, <1>4, SameCardinality DEF Ledger!Init, Ledger!ActiveIds, StatusOf, RecordedOf

\* Every step of the object and of its environment is a step of the ledger.
LEMMA StepRefines ==
    ASSUME AuditInv, [Next]_vars
    PROVE  [Ledger!Next]_(Ledger!vars)
<1>1. \/ LedgerStutter
      \/ \E id \in Ids : \/ LedgerRegister(id)
                         \/ \E e \in Event : LedgerRevoke(id, e)
                         \/ LedgerRecord(id)
  BY StepIsTableStep, AuditInvPerId, TableStepRefines DEF AuditInv
<1>2. Ledger!ActiveIds = Active
  BY DEF AuditInv, TypeOK, Ledger!ActiveIds, Active, Credential
<1> USE DEF LedgerStatus, LedgerEvents, LedgerRecorded, StatusOf, RecordedOf
<1>3. LedgerStutter => UNCHANGED Ledger!vars
  BY DEF LedgerStutter, Ledger!vars
<1>4. ASSUME NEW id \in Ids, LedgerRegister(id)
      PROVE  Ledger!Register(id)
  BY <1>2, <1>4, SameCardinality DEF LedgerRegister, Ledger!Register
<1>5. ASSUME NEW id \in Ids, NEW e \in Event, LedgerRevoke(id, e)
      PROVE  Ledger!Revoke(id, e)
  BY <1>5 DEF LedgerRevoke, Ledger!Revoke
<1>6. ASSUME NEW id \in Ids, LedgerRecord(id)
      PROVE  Ledger!Record(id)
  BY <1>6 DEF LedgerRecord, Ledger!Record
<1> QED BY <1>1, <1>3, <1>4, <1>5, <1>6 DEF Ledger!Next

\* Two tables, two transactions, a version and a repair keep the promise of the
\* ledger: a revocation happens once, under one name, and is never rewritten.
THEOREM RegistryImplementsLedger == Spec => ImplementsLedger
<1>1. Init => Ledger!Init
  BY InitRefines
<1>2. AuditInv /\ [Next]_vars => [Ledger!Next]_(Ledger!vars)
  BY StepRefines
<1> QED BY <1>1, <1>2, AuditInductive, PTL DEF Spec, ImplementsLedger, Ledger!Spec

-----------------------------------------------------------------------------
(* The Worker.                                                             *)

Outcomes == {"created", "unchanged", "revoked", "quota_exceeded", "expired", "mismatch",
             "storage_error", "revoked_history_failed", "revoked_history_conflict", "absent",
             "repaired", "clean", "conflict", "ACTIVE", "REVOKED", "ABSENT"}
Responses == {"allow", "credential_not_active", "200", "201", "204", "204 history_write_failed",
              "204 history_conflict", "400", "404", "409", "429", "500"}
Reasons == {"500", "401", "503", "403", "untrusted", "expired"}
Acks == [registered : SUBSET Ids, revoked : SUBSET Ids]
Calls == [phase : {"waiting", "done"}, kind : Kinds, id : Ids, now : Times, before : Acks,
          found : {"ABSENT", "ACTIVE", "REVOKED"}, rpc : {"called", "executed"}, answer : Outcomes \cup {Null},
          response : Responses \cup {Null}]
Refusals == [phase : {"refused"}, response : Reasons]

HTyped ==
    /\ http \in [Requests -> {NoRequest} \cup Refusals \cup Calls]
    /\ acked \in Acks

Present(id) == credentials[id] # Absent
Settled(id) == Revoked(id) /\ ~Owed(id)
\* What a request found on its arrival goes on being so.
Found(r) ==
    /\ r.found # "ABSENT" => Present(r.id)
    /\ r.found = "REVOKED" => Revoked(r.id)
CreatedBy(id, q) == Present(id) /\ \A row \in RowsOf(id, "registered") : row.request_id = q

\* What the answer of the method means while its request waits for it.
AnswerMeans(r, q, answer) ==
    /\ r.kind = "verify" =>
          /\ answer \in {"ACTIVE", "REVOKED", "ABSENT", "storage_error"}
          /\ answer = "ACTIVE" => Present(r.id) /\ r.id \notin r.before.revoked /\ r.found # "REVOKED"
          /\ answer = "REVOKED" => Revoked(r.id)
          /\ answer = "ABSENT" => r.found = "ABSENT" /\ r.id \notin r.before.registered
    /\ r.kind = "register" =>
          /\ answer \in {"created", "unchanged", "revoked", "quota_exceeded", "expired",
                         "mismatch", "storage_error"}
          /\ answer \in {"created", "unchanged"} =>
                Present(r.id) /\ r.id \notin r.before.revoked /\ r.found # "REVOKED"
          /\ answer = "created" => CreatedBy(r.id, q) /\ r.found = "ABSENT"
          /\ answer = "revoked" => Revoked(r.id)
    /\ r.kind = "revoke" =>
          /\ answer \in {"revoked", "unchanged", "revoked_history_failed",
                         "revoked_history_conflict", "absent", "storage_error"}
          /\ answer \notin {"absent", "storage_error"} => Revoked(r.id)
          /\ answer \in {"revoked", "unchanged"} => Settled(r.id)
          /\ answer = "absent" => r.found = "ABSENT"
    /\ r.kind = "repair" =>
          /\ answer \in {"repaired", "clean", "conflict", "absent", "storage_error"}
          /\ answer = "absent" => r.found = "ABSENT"

\* What the client was told, and goes on being true.
ResponseMeans(r, q, response) ==
    /\ response = "allow" \/ Registered(r.kind, response) =>
          Present(r.id) /\ r.id \notin r.before.revoked /\ r.found # "REVOKED"
    /\ response = "201" => CreatedBy(r.id, q) /\ r.found = "ABSENT"
    /\ response = "404" => r.found = "ABSENT"
    /\ response = "409" /\ r.kind = "register" => Revoked(r.id)
    /\ response \in RevokeAcknowledged => Revoked(r.id)
    /\ response = "204" => Settled(r.id)
    /\ response = "credential_not_active" =>
          \/ r.found = "ABSENT" /\ r.id \notin r.before.registered
          \/ Revoked(r.id)

AckedInv ==
    /\ \A id \in acked.registered : Present(id)
    /\ \A id \in acked.revoked : Revoked(id)

CallMeans(r, q) ==
    /\ Found(r)
    /\ r.phase = "waiting" /\ r.rpc = "executed" => AnswerMeans(r, q, r.answer)
    /\ r.phase = "done" => ResponseMeans(r, q, r.response)

\* What a request remembers of the acknowledgements before it is part of them.
Remembers(r) ==
    /\ r.before.registered \subseteq acked.registered
    /\ r.before.revoked \subseteq acked.revoked

HInv ==
    /\ AuditInv
    /\ HTyped
    /\ AckedInv
    /\ \A q \in Requests : \A r \in {http[q]} \cap Calls : Remembers(r) /\ CallMeans(r, q)

-----------------------------------------------------------------------------
(* Facts of the tables that no step of the registry takes back *)

LEMMA FactsStay ==
    ASSUME AuditInv, [Next]_vars, NEW id \in Ids
    PROVE  /\ Present(id) => Present(id)'
           /\ Revoked(id) => Revoked(id)'
           /\ Settled(id) => Settled(id)'
           /\ \A q : CreatedBy(id, q) => CreatedBy(id, q)'
<1>1. TablesTyped /\ TableStep /\ AuditInv' /\ TablesTyped'
  BY StepIsTableStep, AuditInductive DEF AuditInv, TypeOK, TablesTyped
<1>2. Present(id) => /\ Present(id)'
                     /\ Revoked(id) => Revoked(id)'
                     /\ Settled(id) => Settled(id)'
  BY <1>1, RevocationStep DEF Present, Settled
<1>3. Revoked(id) => Present(id)
  BY DEF Revoked, Present
<1>4. ASSUME NEW q, CreatedBy(id, q) PROVE CreatedBy(id, q)'
  <2>1. HistoryOf(id) /\ HistoryOf(id)'
    <3>1. HistoryOf(id)
      BY <1>1, PerId DEF AuditInv
    <3>2. \A i \in Ids : HistoryOf(i)'
      <4>1. HistoryConsistent'
        BY <1>1 DEF AuditInv
      <4>. QED
        BY <1>1, <4>1 DEF HistoryConsistent, HistoryOf, RowsOf, TablesTyped
    <3>. QED
      BY <3>1, <3>2
  <2>2. PICK row \in RowsOf(id, "registered") : row.request_id = q
    BY <1>4, <2>1 DEF HistoryOf, CreatedBy, Present
  <2>3. row \in RowsOf(id, "registered")'
    BY <1>1, OwedStep DEF RowsOf
  <2>4. \A other \in RowsOf(id, "registered")' : other = row
    BY <2>1, <2>3 DEF HistoryOf
  <2>. QED
    BY <1>2, <1>4, <2>2, <2>4 DEF CreatedBy
<1>. QED
  BY <1>2, <1>3, <1>4 DEF Settled

LEMMA MeaningStays ==
    ASSUME AuditInv, [Next]_vars, NEW r \in Calls, NEW q
    PROVE  /\ \A answer : AnswerMeans(r, q, answer) => AnswerMeans(r, q, answer)'
           /\ \A response : ResponseMeans(r, q, response) => ResponseMeans(r, q, response)'
           /\ CallMeans(r, q) => CallMeans(r, q)'
<1>0. r.id \in Ids
  BY DEF Calls
<1>1. /\ Present(r.id) => Present(r.id)'
      /\ Revoked(r.id) => Revoked(r.id)'
      /\ Settled(r.id) => Settled(r.id)'
      /\ CreatedBy(r.id, q) => CreatedBy(r.id, q)'
  BY <1>0, FactsStay
<1>2. ASSUME NEW answer, AnswerMeans(r, q, answer) PROVE AnswerMeans(r, q, answer)'
  BY <1>1, <1>2 DEF AnswerMeans
<1>3. ASSUME NEW response, ResponseMeans(r, q, response) PROVE ResponseMeans(r, q, response)'
  BY <1>1, <1>3 DEF ResponseMeans, Registered
<1>4. Found(r) => Found(r)'
  BY <1>1 DEF Found
<1>. QED
  BY <1>2, <1>3, <1>4 DEF CallMeans

LEMMA AckedStays ==
    ASSUME AuditInv, [Next]_vars, HTyped, AckedInv, UNCHANGED acked
    PROVE  AckedInv'
<1>1. acked.registered \subseteq Ids /\ acked.revoked \subseteq Ids
  BY DEF HTyped, Acks
<1>2. \A id \in Ids : (Present(id) => Present(id)') /\ (Revoked(id) => Revoked(id)')
  BY FactsStay
<1>. QED
  BY <1>1, <1>2 DEF AckedInv

-----------------------------------------------------------------------------
(* What a method answers *)

LEMMA VerifyAnswers ==
    ASSUME AuditInv, AckedInv, NEW r \in Calls, Remembers(r), Found(r), NEW q, NEW first \in BOOLEAN,
           r.kind = "verify", Status(r.id, q, first),
           NEW answer, answer = reply'.outcome
    PROVE  AnswerMeans(r, q, answer)'
<1>1. /\ reply'.outcome = IF ~Serving \/ ~first THEN "storage_error"
                          ELSE IF credentials[r.id] = Absent THEN "ABSENT" ELSE credentials[r.id].status
      /\ UNCHANGED <<credentials, history>>
  BY DEF Status, Answer
<1>2. r.id \in Ids /\ r.before.revoked \subseteq acked.revoked /\ r.before.registered \subseteq acked.registered
  BY DEF Calls, Remembers
<1>3. credentials[r.id] # Absent => credentials[r.id].status \in {"ACTIVE", "REVOKED"}
  BY <1>2 DEF AuditInv, TypeOK, Credential
<1>4. credentials[r.id] # Absent /\ credentials[r.id].status = "ACTIVE" => r.id \notin r.before.revoked
  BY <1>2 DEF AckedInv, Revoked
<1>5. credentials[r.id] = Absent => r.id \notin r.before.registered /\ r.found = "ABSENT"
  BY <1>2 DEF AckedInv, Present, Found
<1>6. credentials[r.id] # Absent /\ credentials[r.id].status = "ACTIVE" => r.found # "REVOKED"
  BY DEF Found, Revoked
<1>. QED
  BY <1>1, <1>3, <1>4, <1>5, <1>6 DEF AnswerMeans, Present, Revoked

LEMMA RegisterAnswers ==
    ASSUME AuditInv, AckedInv, NEW r \in Calls, Remembers(r), Found(r), NEW q,
           NEW binding \in Bindings, NEW expiry, NEW committed \in BOOLEAN,
           r.kind = "register", Register(r.id, binding, expiry, r.now, q, committed),
           NEW answer, answer = reply'.outcome
    PROVE  AnswerMeans(r, q, answer)'
<1>. DEFINE outcome == IF expiry > r.now /\ ~committed THEN "storage_error"
                       ELSE RegisterOutcome(r.id, binding, expiry, r.now)
<1>1. /\ reply'.outcome = outcome
      /\ IF outcome = "created" THEN Create(r.id, binding, r.now, q) ELSE UNCHANGED <<credentials, history>>
  BY DEF Register, Answer
<1>2. r.id \in Ids /\ r.now \in Times /\ r.before.revoked \subseteq acked.revoked
  BY DEF Calls, Remembers
<1>3. TablesTyped /\ HistoryOf(r.id)
  BY <1>2, PerId DEF AuditInv, TypeOK, TablesTyped
<1>4. outcome \in {"created", "unchanged", "revoked", "quota_exceeded", "expired", "mismatch", "storage_error"}
  BY DEF RegisterOutcome
<1>5. outcome = "created" => credentials[r.id] = Absent
  BY DEF RegisterOutcome
<1>6. outcome = "unchanged" => credentials[r.id] # Absent /\ credentials[r.id].status # "REVOKED"
  BY DEF RegisterOutcome
<1>7. outcome \in {"created", "unchanged"} => r.id \notin r.before.revoked /\ r.found # "REVOKED"
  BY <1>2, <1>5, <1>6 DEF AckedInv, Revoked, Found
<1>8. outcome = "created" => CreatedBy(r.id, q)'
  <2>. SUFFICES ASSUME outcome = "created" PROVE CreatedBy(r.id, q)'
    OBVIOUS
  <2>1. RowsOf(r.id, "registered") = {}
    BY <1>3, <1>5 DEF HistoryOf
  <2>2. history' = history \cup {NewRow(r.id, "registered", r.now, q)}
    BY <1>1 DEF Create
  <2>3. RowsOf(r.id, "registered")' = {NewRow(r.id, "registered", r.now, q)}
    BY <1>2, <2>1, <2>2, RowsOfAdded
  <2>4. credentials'[r.id].status = "ACTIVE" /\ credentials'[r.id] \in Credential
    <3>1. credentials'[r.id] = [status |-> "ACTIVE", binding |-> binding, registered_at |-> r.now,
                                revoked_at |-> Null, pending |-> Null]
      BY <1>1, <1>2, <1>3 DEF Create, TablesTyped
    <3>. QED
      BY <1>2, <3>1 DEF Credential
  <2>. QED
    BY <2>3, <2>4, SentinelAssumption DEF CreatedBy, Present, NewRow
<1>9. outcome = "unchanged" => Present(r.id)'
  BY <1>1, <1>6 DEF Present
<1>10. outcome = "created" => r.found = "ABSENT"
  BY <1>5 DEF Found, Present
<1>11. outcome = "revoked" => Revoked(r.id)'
  BY <1>1 DEF RegisterOutcome, Revoked
<1>. HIDE DEF outcome
<1>. QED
  BY <1>1, <1>4, <1>7, <1>8, <1>9, <1>10, <1>11 DEF AnswerMeans, CreatedBy

LEMMA RevokeAnswers ==
    ASSUME AuditInv, NEW r \in Calls, Found(r), NEW q \in Requests,
           NEW first \in BOOLEAN, NEW second \in BOOLEAN,
           r.kind = "revoke", Revoke(r.id, r.now, q, first, second),
           NEW answer, answer = reply'.outcome
    PROVE  AnswerMeans(r, q, answer)'
<1>0. r.id \in Ids /\ r.now \in Times
  BY DEF Calls
<1>1. Method(r.id, q)
  BY <1>0 DEF Method
<1>2. LastAnswerTrue'
  BY <1>0, <1>1, MethodTruthful
<1>3. /\ reply'.op = "revoke" /\ reply'.id = r.id
      /\ reply'.outcome \in {"revoked", "unchanged", "revoked_history_failed",
                             "revoked_history_conflict", "absent", "storage_error"}
  <2>1. CASE ~Serving \/ ~first
    BY <2>1 DEF Revoke, Answer
  <2>2. CASE Serving /\ first /\ r.id \in Active
    BY <2>2 DEF Revoke, RevokeActive, Answer
  <2>3. CASE Serving /\ first /\ r.id \notin Active /\ Owed(r.id)
    <3>1. RevokeOwed(r.id, q, second)
      BY <2>3 DEF Revoke
    <3>. DEFINE outcome == IF second THEN RepairOutcome(r.id) ELSE "storage_error"
    <3>2. CASE outcome = "conflict"
      BY <3>1, <3>2 DEF RevokeOwed, Answer
    <3>3. CASE outcome = "storage_error"
      BY <3>1, <3>3 DEF RevokeOwed, Answer
    <3>4. CASE outcome \notin {"conflict", "storage_error"}
      BY <3>1, <3>4 DEF RevokeOwed, Answer
    <3>. QED
      BY <3>2, <3>3, <3>4
  <2>4. CASE Serving /\ first /\ r.id \notin Active /\ ~Owed(r.id)
    BY <2>4 DEF Revoke, Answer
  <2>. QED
    BY <2>1, <2>2, <2>3, <2>4
<1>4. reply'.outcome = "absent" => credentials[r.id] = Absent
  <2>1. CASE ~Serving \/ ~first
    BY <2>1 DEF Revoke, Answer
  <2>2. CASE Serving /\ first /\ r.id \in Active
    BY <2>2 DEF Revoke, RevokeActive, Answer
  <2>3. CASE Serving /\ first /\ r.id \notin Active /\ Owed(r.id)
    BY <2>3 DEF Revoke, RevokeOwed, Answer, RepairOutcome
  <2>4. CASE Serving /\ first /\ r.id \notin Active /\ ~Owed(r.id)
    BY <2>4 DEF Revoke, Answer
  <2>. QED
    BY <2>1, <2>2, <2>3, <2>4
<1>5. reply'.outcome = "absent" => r.found = "ABSENT"
  BY <1>4 DEF Found, Present
<1>. QED
  BY <1>2, <1>3, <1>5 DEF LastAnswerTrue, AnswerMeans, Settled

LEMMA RepairAnswers ==
    ASSUME NEW r \in Calls, Found(r), NEW q, NEW committed \in BOOLEAN,
           r.kind = "repair", RepairHistory(r.id, q, committed),
           NEW answer, answer = reply'.outcome
    PROVE  AnswerMeans(r, q, answer)'
<1>1. RepairOutcome(r.id) \in {"absent", "clean", "conflict", "repaired"}
  BY DEF RepairOutcome
<1>2. reply'.outcome \in {"absent", "clean", "conflict", "repaired", "storage_error"}
  BY <1>1 DEF RepairHistory, Answer
<1>3. RepairOutcome(r.id) = "absent" => r.found = "ABSENT"
  BY DEF RepairOutcome, Found, Present
<1>4. reply'.outcome = "absent" => r.found = "ABSENT"
  BY <1>1, <1>3 DEF RepairHistory, Answer
<1>. QED
  BY <1>2, <1>4 DEF AnswerMeans

\* The object runs a method; what it answers means what AnswerMeans says.
LEMMA CallAnswers ==
    ASSUME AuditInv, AckedInv, NEW q \in Requests, NEW r \in Calls, r = http[q], Remembers(r), Found(r),
           NEW first \in BOOLEAN, NEW second \in BOOLEAN, Call(q, first, second),
           NEW answer, answer = reply'.outcome
    PROVE  /\ Method(r.id, q)
           /\ AnswerMeans(r, q, answer)'
           /\ answer \in Outcomes
<1>0. r.id \in Ids /\ r.now \in Times /\ r.kind \in {"verify", "register", "revoke", "repair"}
      /\ BindingOf[r.id] \in Bindings /\ ExpiryOf[r.id] \in Times
  BY RouteAssumption DEF Calls, Kinds
<1>1. CASE r.kind = "verify"
  <2>1. Status(r.id, q, first)
    BY <1>1 DEF Call
  <2>. QED
    BY <1>0, <1>1, <2>1, VerifyAnswers DEF Method, AnswerMeans, Outcomes
<1>2. CASE r.kind = "register"
  <2>1. Register(r.id, BindingOf[r.id], ExpiryOf[r.id], r.now, q, first)
    BY <1>2 DEF Call
  <2>2. AnswerMeans(r, q, answer)'
    BY <1>0, <1>2, <2>1, RegisterAnswers
  <2>. QED
    BY <1>0, <1>2, <2>1, <2>2 DEF Method, AnswerMeans, Outcomes
<1>3. CASE r.kind = "revoke"
  <2>1. Revoke(r.id, r.now, q, first, second)
    BY <1>3 DEF Call
  <2>2. AnswerMeans(r, q, answer)'
    BY <1>3, <2>1, RevokeAnswers
  <2>. QED
    BY <1>0, <1>3, <2>1, <2>2 DEF Method, AnswerMeans, Outcomes
<1>4. CASE r.kind = "repair"
  <2>1. RepairHistory(r.id, q, first)
    BY <1>4 DEF Call
  <2>2. AnswerMeans(r, q, answer)'
    BY <1>4, <2>1, RepairAnswers
  <2>. QED
    BY <1>0, <1>4, <2>1, <2>2 DEF Method, AnswerMeans, Outcomes
<1>. QED
  BY <1>0, <1>1, <1>2, <1>3, <1>4

-----------------------------------------------------------------------------
(* The invariant *)

LEMMA PhasesApart ==
    /\ \A r \in Calls : r # NoRequest /\ r \notin Refusals
    /\ \A r \in Refusals : r # NoRequest
    /\ \A r \in {NoRequest} \cup Refusals : r.phase \notin {"waiting", "done"}
BY DEF Calls, Refusals, NoRequest

LEMMA HInvInit == HInit => HInv
<1>. SUFFICES ASSUME HInit PROVE HInv
  OBVIOUS
<1>1. AuditInv
  BY AuditInductive DEF HInit
<1>2. HTyped /\ AckedInv
  BY DEF HInit, HTyped, Acks, AckedInv
<1>3. \A q \in Requests : http[q] \notin Calls
  BY PhasesApart DEF HInit
<1>. QED
  BY <1>1, <1>2, <1>3 DEF HInv

\* A step that leaves every request and every acknowledgement alone.
LEMMA RegistryKeeps ==
    ASSUME HInv, [Next]_vars, UNCHANGED <<http, acked>>
    PROVE  HInv'
<1>1. AuditInv'
  BY AuditInductive DEF HInv
<1>2. HTyped' /\ AckedInv'
  BY AckedStays DEF HInv, HTyped
<1>3. ASSUME NEW q \in Requests, NEW r \in {http'[q]} \cap Calls PROVE Remembers(r)' /\ CallMeans(r, q)'
  <2>1. Remembers(r) /\ CallMeans(r, q)
    BY <1>3 DEF HInv
  <2>2. CallMeans(r, q)'
    BY <1>3, <2>1, MeaningStays DEF HInv
  <2>3. Remembers(r)'
    BY <2>1 DEF Remembers
  <2>. QED
    BY <2>2, <2>3
<1>. QED
  BY <1>1, <1>2, <1>3 DEF HInv

\* A step that changes one request, and the acknowledgements only by adding what
\* is so.
LEMMA OneRequestKeeps ==
    ASSUME HInv, [Next]_vars, NEW q \in Requests, NEW new \in Refusals \cup Calls,
           http' = [http EXCEPT ![q] = new],
           acked' \in Acks, acked.registered \subseteq acked'.registered,
           acked.revoked \subseteq acked'.revoked,
           AckedInv',
           new \in Calls => Remembers(new)' /\ CallMeans(new, q)'
    PROVE  HInv'
<1>1. AuditInv'
  BY AuditInductive DEF HInv
<1>2. HTyped'
  BY DEF HInv, HTyped
<1>3. ASSUME NEW p \in Requests, NEW r \in {http'[p]} \cap Calls PROVE Remembers(r)' /\ CallMeans(r, p)'
  <2>1. CASE p = q
    <3>1. r = new
      BY <1>3, <2>1 DEF HInv, HTyped
    <3>. QED
      BY <1>3, <2>1, <3>1
  <2>2. CASE p # q
    <3>0. r = http[p]
      BY <1>3, <2>2 DEF HInv, HTyped
    <3>1. Remembers(r) /\ CallMeans(r, p)
      BY <1>3, <3>0 DEF HInv
    <3>2. CallMeans(r, p)'
      BY <1>3, <3>1, MeaningStays DEF HInv
    <3>3. Remembers(r)'
      BY <3>1 DEF Remembers
    <3>. QED
      BY <3>2, <3>3
  <2>. QED
    BY <2>1, <2>2
<1>. QED
  BY <1>1, <1>2, <1>3 DEF HInv

LEMMA ArriveKeeps ==
    ASSUME HInv, NEW q \in Requests, NEW kind \in Kinds, NEW id \in Ids, NEW role,
           NEW now \in Times, Arrive(q, kind, id, role, now)
    PROVE  HInv'
<1>. PICK refusal : refusal = Refusal(kind, id, role, now)
  OBVIOUS
<1>. PICK before : before = acked
  OBVIOUS
<1>. PICK found : found = Standing(id)
  OBVIOUS
<1>0. before \in Acks
  BY DEF HInv, HTyped
<1>6. /\ found \in {"ABSENT", "ACTIVE", "REVOKED"}
      /\ found # "ABSENT" => Present(id)
      /\ found = "REVOKED" => Revoked(id)
  BY DEF HInv, AuditInv, TypeOK, Credential, Standing, Present, Revoked
<1>1. refusal # "pass" => refusal \in Reasons
  BY DEF Refusal, Reasons
<1>2. [Next]_vars /\ UNCHANGED acked
  BY DEF Arrive, vars
<1>3. AckedInv'
  BY <1>2, AckedStays DEF HInv
<1>4. CASE refusal # "pass"
  <2>1. [phase |-> "refused", response |-> refusal] \in Refusals
    BY <1>1, <1>4 DEF Refusals
  <2>2. http' = [http EXCEPT ![q] = [phase |-> "refused", response |-> refusal]]
    BY <1>4 DEF Arrive
  <2>3. [phase |-> "refused", response |-> refusal] \notin Calls
    BY <2>1, PhasesApart
  <2>. QED
    BY <1>2, <1>3, <2>1, <2>2, <2>3, OneRequestKeeps DEF HInv, HTyped
<1>5. CASE refusal = "pass"
  <2>. PICK new : new = [phase |-> "waiting", kind |-> kind, id |-> id, now |-> now,
                         before |-> before, found |-> found, rpc |-> "called", answer |-> Null, response |-> Null]
    OBVIOUS
  <2>1. new \in Calls
    BY <1>0, <1>6 DEF Calls
  <2>2. http' = [http EXCEPT ![q] = new]
    BY <1>5 DEF Arrive
  <2>3. Remembers(new)' /\ CallMeans(new, q)'
    <3>1. Present(id)' = Present(id) /\ Revoked(id)' = Revoked(id)
      BY DEF Arrive, vars, Present, Revoked
    <3>. QED
      BY <1>2, <1>6, <3>1 DEF Remembers, CallMeans, Found
  <2>. QED
    BY <1>2, <1>3, <2>1, <2>2, <2>3, OneRequestKeeps DEF HInv, HTyped
<1>. QED
  BY <1>4, <1>5

LEMMA ExecuteKeeps ==
    ASSUME HInv, NEW q \in Requests, Execute(q)
    PROVE  HInv'
<1>. PICK r : r = http[q]
  OBVIOUS
<1>. PICK answer : answer = reply'.outcome
  OBVIOUS
<1>1. r \in Calls
  BY PhasesApart DEF HInv, HTyped, Execute
<1>2. Remembers(r) /\ CallMeans(r, q)
  BY <1>1 DEF HInv
<1>3. PICK first \in BOOLEAN, second \in BOOLEAN : Call(q, first, second)
  BY DEF Execute
<1>4. Method(r.id, q) /\ AnswerMeans(r, q, answer)' /\ answer \in Outcomes
  BY <1>1, <1>2, <1>3, CallAnswers DEF HInv, CallMeans
<1>5. [Next]_vars /\ r.id \in Ids
  BY <1>1, <1>4 DEF Next, Calls
<1>6. UNCHANGED acked /\ AckedInv'
  BY <1>5, AckedStays DEF HInv, Execute
<1>. PICK new : new = [r EXCEPT !.rpc = "executed", !.answer = answer]
  OBVIOUS
<1>7. /\ new \in Calls /\ new.phase = r.phase /\ new.kind = r.kind /\ new.id = r.id
      /\ new.before = r.before /\ new.found = r.found /\ new.response = r.response /\ new.answer = answer
  BY <1>1, <1>4 DEF Calls
<1>8. http' = [http EXCEPT ![q] = new]
  BY <1>1, <1>4 DEF Execute, HInv, HTyped, Calls
<1>9. CallMeans(r, q)'
  BY <1>1, <1>2, <1>5, MeaningStays DEF HInv
<1>10. CallMeans(new, q)'
  BY <1>4, <1>7, <1>9 DEF CallMeans, AnswerMeans, ResponseMeans, Found
<1>11. Remembers(new)'
  BY <1>2, <1>6, <1>7 DEF Remembers
<1>. QED
  BY <1>5, <1>6, <1>7, <1>8, <1>10, <1>11, OneRequestKeeps DEF HInv, HTyped

\* A request is answered: what the response acknowledges is so.
LEMMA FinishKeeps ==
    ASSUME HInv, NEW q \in Requests, NEW r \in Calls, r = http[q],
           NEW response \in Responses, ResponseMeans(r, q, response), Finish(q, response)
    PROVE  HInv'
<1>1. [Next]_vars /\ UNCHANGED vars
  BY DEF Finish, vars
<1>2. Remembers(r)
  BY DEF HInv
<1>. PICK new : new = [r EXCEPT !.phase = "done", !.response = response, !.answer = Null]
  OBVIOUS
<1>3. /\ new \in Calls /\ new.phase = "done" /\ new.kind = r.kind /\ new.id = r.id
      /\ new.before = r.before /\ new.found = r.found /\ new.response = response
  BY DEF Calls
<1>4. http' = [http EXCEPT ![q] = new]
  BY DEF Finish, HInv, HTyped, Calls
<1>5. r.id \in Ids /\ acked \in Acks
  BY DEF Calls, HInv, HTyped
<1>6. /\ acked' \in Acks /\ acked.registered \subseteq acked'.registered
      /\ acked.revoked \subseteq acked'.revoked
      /\ \A id \in acked'.revoked : id \in acked.revoked \/ (id = r.id /\ response \in RevokeAcknowledged)
      /\ \A id \in acked'.registered : id \in acked.registered \/ (id = r.id /\ Registered(r.kind, response))
  <2>1. CASE response \in RevokeAcknowledged
    <3>1. acked' = [acked EXCEPT !.revoked = @ \cup {r.id}]
      BY <2>1 DEF Finish
    <3>. QED
      BY <1>5, <2>1, <3>1 DEF Acks
  <2>2. CASE response \notin RevokeAcknowledged /\ Registered(r.kind, response)
    <3>1. acked' = [acked EXCEPT !.registered = @ \cup {r.id}]
      BY <2>2 DEF Finish
    <3>. QED
      BY <1>5, <2>2, <3>1 DEF Acks
  <2>3. CASE response \notin RevokeAcknowledged /\ ~Registered(r.kind, response)
    <3>1. acked' = acked
      BY <2>3 DEF Finish
    <3>. QED
      BY <1>5, <3>1
  <2>. QED
    BY <2>1, <2>2, <2>3
<1>7. ResponseMeans(r, q, response)'
  BY <1>1, MeaningStays DEF HInv
<1>8. AckedInv'
  <2>1. \A id \in Ids : (Present(id) => Present(id)') /\ (Revoked(id) => Revoked(id)')
    BY <1>1, FactsStay DEF HInv
  <2>2. acked.registered \subseteq Ids /\ acked.revoked \subseteq Ids
    BY <1>5 DEF Acks
  <2>3. response \in RevokeAcknowledged => Revoked(r.id)'
    BY <1>7 DEF ResponseMeans
  <2>4. Registered(r.kind, response) => Present(r.id)'
    BY <1>7 DEF ResponseMeans
  <2>. QED
    BY <1>6, <2>1, <2>2, <2>3, <2>4 DEF HInv, AckedInv
<1>9. CallMeans(new, q)'
  <2>1. CallMeans(r, q)'
    BY <1>1, MeaningStays DEF HInv
  <2>. QED
    BY <1>3, <1>7, <2>1 DEF CallMeans, ResponseMeans, Found
<1>10. Remembers(new)'
  BY <1>2, <1>3, <1>6 DEF Remembers
<1>. QED
  BY <1>1, <1>3, <1>4, <1>6, <1>8, <1>9, <1>10, OneRequestKeeps

LEMMA RespondMeans ==
    ASSUME NEW q, NEW r \in Calls, AnswerMeans(r, q, r.answer)
    PROVE  /\ ResponseOf(r.kind, r.answer) \in Responses
           /\ ResponseMeans(r, q, ResponseOf(r.kind, r.answer))
<1>0. r.kind \in {"verify", "register", "revoke", "repair"}
  BY DEF Calls, Kinds
<1>1. CASE r.kind = "verify"
  <2>1. /\ ResponseOf(r.kind, r.answer) = VerifyResponse(r.answer)
        /\ r.answer \in {"ACTIVE", "REVOKED", "ABSENT", "storage_error"}
    BY <1>1 DEF ResponseOf, AnswerMeans
  <2>2. \/ r.answer = "ACTIVE" /\ VerifyResponse(r.answer) = "allow"
        \/ r.answer \in {"REVOKED", "ABSENT"} /\ VerifyResponse(r.answer) = "credential_not_active"
        \/ r.answer = "storage_error" /\ VerifyResponse(r.answer) = "500"
    BY <2>1 DEF VerifyResponse
  <2>. QED
    BY <1>1, <2>1, <2>2 DEF AnswerMeans, ResponseMeans, Registered, RevokeAcknowledged, Responses
<1>2. CASE r.kind = "register"
  <2>1. /\ ResponseOf(r.kind, r.answer) = RegisterResponse(r.answer)
        /\ r.answer \in {"created", "unchanged", "revoked", "quota_exceeded", "expired",
                         "mismatch", "storage_error"}
    BY <1>2 DEF ResponseOf, AnswerMeans
  <2>2. \/ r.answer = "created" /\ RegisterResponse(r.answer) = "201"
        \/ r.answer = "unchanged" /\ RegisterResponse(r.answer) = "200"
        \/ r.answer = "revoked" /\ RegisterResponse(r.answer) = "409"
        \/ RegisterResponse(r.answer) \in {"429", "400", "500"}
    BY <2>1 DEF RegisterResponse
  <2>. QED
    BY <1>2, <2>1, <2>2 DEF AnswerMeans, ResponseMeans, Registered, RevokeAcknowledged, Responses
<1>3. CASE r.kind = "revoke"
  <2>1. /\ ResponseOf(r.kind, r.answer) = RevokeResponse(r.answer)
        /\ r.answer \in {"revoked", "unchanged", "revoked_history_failed",
                         "revoked_history_conflict", "absent", "storage_error"}
    BY <1>3 DEF ResponseOf, AnswerMeans
  <2>2. \/ r.answer \in {"revoked", "unchanged"} /\ RevokeResponse(r.answer) = "204"
        \/ /\ r.answer \in {"revoked_history_failed", "revoked_history_conflict"}
           /\ RevokeResponse(r.answer) \in {"204 history_write_failed", "204 history_conflict"}
        \/ r.answer = "absent" /\ RevokeResponse(r.answer) = "404"
        \/ RevokeResponse(r.answer) = "500"
    BY <2>1 DEF RevokeResponse
  <2>. QED
    BY <1>3, <2>1, <2>2 DEF AnswerMeans, ResponseMeans, Registered, RevokeAcknowledged, Responses
<1>4. CASE r.kind = "repair"
  <2>1. /\ ResponseOf(r.kind, r.answer) = RepairResponse(r.answer)
        /\ r.answer \in {"repaired", "clean", "conflict", "absent", "storage_error"}
    BY <1>4 DEF ResponseOf, AnswerMeans
  <2>2. \/ r.answer = "absent" /\ RepairResponse(r.answer) = "404"
        \/ RepairResponse(r.answer) \in {"200", "409", "500"}
    BY <2>1 DEF RepairResponse
  <2>. QED
    BY <1>4, <2>1, <2>2 DEF AnswerMeans, ResponseMeans, Registered, RevokeAcknowledged, Responses
<1>. QED
  BY <1>0, <1>1, <1>2, <1>3, <1>4

LEMMA AnswerKeeps ==
    ASSUME HInv, NEW q \in Requests, Respond(q) \/ TransportFails(q) \/ Deadline(q)
    PROVE  HInv'
<1>. PICK r : r = http[q]
  OBVIOUS
<1>1. r \in Calls /\ r.phase = "waiting"
  BY PhasesApart DEF HInv, HTyped, Respond, TransportFails, Deadline, Waiting
<1>2. CASE Respond(q)
  <2>1. AnswerMeans(r, q, r.answer)
    BY <1>1, <1>2 DEF HInv, CallMeans, Respond
  <2>. QED
    BY <1>1, <1>2, <2>1, RespondMeans, FinishKeeps DEF Respond
<1>3. CASE TransportFails(q) \/ Deadline(q)
  <2>1. "500" \in Responses /\ ResponseMeans(r, q, "500")
    BY DEF ResponseMeans, Registered, RevokeAcknowledged, Responses
  <2>. QED
    BY <1>1, <1>3, <2>1, FinishKeeps DEF TransportFails, Deadline
<1>. QED
  BY <1>2, <1>3

LEMMA HInvStep == HInv /\ [HNext]_hvars => HInv'
<1>. SUFFICES ASSUME HInv, [HNext]_hvars PROVE HInv'
  OBVIOUS
<1>1. CASE ((\E committed \in BOOLEAN : Construct(committed)) \/ Evict) /\ UNCHANGED <<tenants, http, acked>>
  <2>1. Next
    BY <1>1 DEF Next, Environment
  <2>. QED
    BY <1>1, <2>1, RegistryKeeps
<1>2. CASE Rotate \/ UNCHANGED hvars
  <2>1. UNCHANGED vars /\ UNCHANGED <<http, acked>>
    BY <1>2 DEF Rotate, hvars
  <2>. QED
    BY <2>1, RegistryKeeps
<1>3. ASSUME NEW q \in Requests, NEW kind \in Kinds, NEW id \in Ids,
             NEW role \in {"none", "admin", "verifier"}, NEW now \in Times, Arrive(q, kind, id, role, now)
      PROVE  HInv'
  BY <1>3, ArriveKeeps
<1>4. ASSUME NEW q \in Requests, Execute(q) \/ Respond(q) \/ TransportFails(q) \/ Deadline(q)
      PROVE  HInv'
  BY <1>4, ExecuteKeeps, AnswerKeeps
<1>. QED
  BY <1>1, <1>2, <1>3, <1>4 DEF HNext

LEMMA HInvHolds == HSpec => []HInv
BY HInvInit, HInvStep, PTL DEF HSpec

\* What an answered request was told means what ResponseMeans says.
LEMMA AnsweredMeans ==
    ASSUME HInv, NEW q \in Requests, Answered(q)
    PROVE  http[q].id \in Ids /\ ResponseMeans(http[q], q, http[q].response)
<1>1. http[q] \in Calls
  BY PhasesApart DEF HInv, HTyped, Answered
<1>. QED
  BY <1>1 DEF HInv, CallMeans, Answered, Calls

\* NoActiveAnswerAfterRevocation: no request that arrives after a client was told of a
\* revocation is allowed or told that it registered (handleVerify, handleRegister).
THEOREM RevocationHeard == HSpec => []NoActiveAnswerAfterRevocation
<1>1. HInv => NoActiveAnswerAfterRevocation
  BY AnsweredMeans DEF NoActiveAnswerAfterRevocation, ResponseMeans
<1>. QED
  BY <1>1, HInvHolds, PTL

\* AcknowledgedWritesStored: an acknowledged revocation is stored, a 204 without the
\* audit header has its row, and a 201 is given to the one request the history names
\* (handleRevoke, handleRegister).
THEOREM WritesStored == HSpec => []AcknowledgedWritesStored
<1>1. ASSUME HInv PROVE AcknowledgedWritesStored
  <2>1. \A id \in acked.revoked : Revoked(id)
    BY <1>1 DEF HInv, AckedInv
  <2>2. ASSUME NEW id \in Ids, Settled(id) PROVE RowsOf(id, "revoked") # {}
    <3>1. AuditOf(id)
      BY <1>1, PerId DEF HInv, AuditInv
    <3>. QED
      BY <2>2, <3>1 DEF AuditOf, Settled, Owed, Revoked
  <2>3. AcknowledgedRevocationStored
    BY <1>1, <2>1, <2>2, AnsweredMeans DEF AcknowledgedRevocationStored, ResponseMeans, Settled
  <2>4. CreatedOnce
    BY <1>1, AnsweredMeans DEF CreatedOnce, ResponseMeans, CreatedBy
  <2>. QED
    BY <2>3, <2>4 DEF AcknowledgedWritesStored
<1>. QED
  BY <1>1, HInvHolds, PTL

\* VerdictMatchesRegistry: what a verdict, a 200, 201 or 409 to a registration, a 404
\* or an acknowledged revocation says of the credential was so at some moment since the
\* request arrived, and is still so where the registry never takes it back; a deadline or
\* a lost RPC is told as a failure and never as a verdict (handleVerify,
\* handleRegister, handleRevoke, handleRepairHistory).
THEOREM VerdictsMatchRegistry == HSpec => []VerdictMatchesRegistry
<1>1. HInv => VerdictMatchesRegistry
  BY AnsweredMeans DEF VerdictMatchesRegistry, ResponseMeans, Present, Registered
<1>. QED
  BY <1>1, HInvHolds, PTL
=============================================================================
