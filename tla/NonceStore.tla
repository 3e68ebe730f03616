----------------------------- MODULE NonceStore -----------------------------
(***************************************************************************)
(* The in-memory nonce store of the MPP payment gate                       *)
(* (integrations/mpp-payments/src/nonces.ts): reservations in the          *)
(* insertion order of a Map, reclaimed a few per call by a cursor that     *)
(* resumes where it stopped, and by one full sweep when the map is full.   *)
(*                                                                         *)
(* `reserve` is synchronous, so a call is one action.  Its `nowUnix` is    *)
(* the instant its caller decided at, sampled up to LAG seconds earlier    *)
(* while the verifier was asked, so calls carry instants out of order.     *)
(***************************************************************************)
EXTENDS Integers, Sequences, FiniteSets

CONSTANTS
    Keys,                \* `${issuer_key}\0${nonce}`
    EntryLists,          \* the keys one verdict names: sequences without repetition
    MaxEntries,          \* maxEntries
    MaxRetention,        \* maxRetentionSeconds, or Unset
    SWEEP_BUDGET,        \* 64
    LAG,                 \* how long a decision may wait for its verifier
    MaxTime,             \* bound: clock values explored
    Unset, None          \* undefined

ASSUME StoreAssumption ==
    /\ EntryLists \subseteq Seq(Keys)
    /\ \A list \in EntryLists : \A i, j \in DOMAIN list : list[i] = list[j] => i = j
    /\ MaxEntries \in Nat /\ LAG \in Nat /\ MaxTime \in Nat
    /\ MaxRetention \in Nat \cup {Unset} /\ Unset \notin Nat
    /\ SWEEP_BUDGET \in Nat \ {0}
    /\ None # "true"

VARIABLES
    reserved,         \* the Map, as the sequence of its entries
    sweepIter,        \* the entry its iterator visits next, or Unset
    lastFullSweepAt,  \* -1 before the first full sweep
    clock,            \* the host's clock
    call              \* the last call: what it named, its instant, its answer

store == <<reserved, sweepIter, lastFullSweepAt>>
nvars == <<store, clock, call>>

Times == 0 .. MaxTime

NInit ==
    /\ reserved = <<>>
    /\ sweepIter = Unset
    /\ lastFullSweepAt = -1
    /\ clock = 0
    /\ call = [entries |-> <<>>, now |-> 0, answer |-> None]

-----------------------------------------------------------------------------
LiveExclusive(entry, nowUnix) == entry.until > nowUnix
Live(entry, nowUnix) == entry.until >= nowUnix

\* A Map without the entries at the positions in gone: the rest keeps its order.
Without(entries, gone) ==
    LET left == DOMAIN entries \ gone
        Nth(n) == CHOOSE i \in left : Cardinality({j \in left : j <= i}) = n
    IN  IF left = DOMAIN entries THEN entries
        ELSE [n \in 1 .. Cardinality(left) |-> entries[Nth(n)]]

Elapsed(entries, nowUnix) == {i \in DOMAIN entries : entries[i].until < nowUnix}

(***************************************************************************)
(* sweep: visit SWEEP_BUDGET entries from the cursor on and delete those   *)
(* that have elapsed.  The iterator is dropped when it reports its end,    *)
(* and that takes one visit of the budget.                                 *)
(***************************************************************************)
SweepFromFront(nowUnix) ==
    [entries |-> Without(reserved, Elapsed(reserved, nowUnix) \cap (1 .. SWEEP_BUDGET)), cursor |-> Unset]

SweepWithoutClock(nowUnix) ==
    LET at == IF sweepIter = Unset THEN 1 ELSE sweepIter
    IN  [entries |-> Without(reserved, at .. at + SWEEP_BUDGET - 1), cursor |-> at]

Sweep(nowUnix) ==
    LET at == IF sweepIter = Unset THEN 1 ELSE sweepIter
        ends == Len(reserved) - at + 1 < SWEEP_BUDGET
        last == IF ends THEN Len(reserved) ELSE at + SWEEP_BUDGET - 1
        gone == Elapsed(reserved, nowUnix) \cap (at .. last)
    IN  [entries |-> Without(reserved, gone),
         cursor |-> IF ends THEN Unset ELSE last + 1 - Cardinality(gone)]

\* sweepAll: once per instant, and never for an instant before the last one.
SweepAll(swept, nowUnix) ==
    [entries |-> Without(swept.entries, Elapsed(swept.entries, nowUnix)), cursor |-> Unset]

Holds(resident, key) == \E i \in DOMAIN resident : resident[i].key = key
Added(resident, entries) == Cardinality({i \in DOMAIN entries : ~Holds(resident, entries[i].key)})
OverFull(resident, entries) == Len(resident) + Added(resident, entries) > MaxEntries

\* Delete and set again: the keys of the call move to the back of the Map.
Insert(swept, entries) ==
    LET moved == {i \in DOMAIN swept.entries : Holds(entries, swept.entries[i].key)}
    IN  [entries |-> Without(swept.entries, moved) \o entries,
         cursor |-> IF swept.cursor = Unset THEN Unset
                    ELSE swept.cursor - Cardinality({i \in moved : i < swept.cursor})]

Becomes(new) == reserved' = new.entries /\ sweepIter' = new.cursor

-----------------------------------------------------------------------------
(***************************************************************************)
(* reserve(entries, nowUnix), as what it answers and what it leaves; an    *)
(* entry is a key and the time until which it is retained.                 *)
(***************************************************************************)
TooLong(entries, nowUnix) ==
    MaxRetention # Unset /\ \E i \in DOMAIN entries : entries[i].until > nowUnix + MaxRetention

ReplayedIfResident(resident, entries, nowUnix) == \E i \in DOMAIN entries : Holds(resident, entries[i].key)

Replayed(resident, entries, nowUnix) ==
    \E i \in DOMAIN resident, j \in DOMAIN entries :
        resident[i].key = entries[j].key /\ Live(resident[i], nowUnix)

Answered(entries, nowUnix, answer) == call' = [entries |-> entries, now |-> nowUnix, answer |-> answer]

Reserve(entries, nowUnix) ==
    LET swept == Sweep(nowUnix)
        full == OverFull(swept.entries, entries)
        all == IF full THEN SweepAll(swept, nowUnix) ELSE swept
    IN  \/ /\ TooLong(entries, nowUnix)
           /\ Answered(entries, nowUnix, "NonceRetentionTooLongError")
           /\ UNCHANGED store
        \/ /\ ~TooLong(entries, nowUnix)
           /\ Replayed(swept.entries, entries, nowUnix)
           /\ Answered(entries, nowUnix, "false")
           /\ Becomes(swept)
           /\ UNCHANGED lastFullSweepAt
        \/ /\ ~TooLong(entries, nowUnix)
           /\ ~Replayed(swept.entries, entries, nowUnix)
           /\ full /\ nowUnix <= lastFullSweepAt
           /\ Answered(entries, nowUnix, "NonceStoreCapacityError")
           /\ Becomes(swept)
           /\ UNCHANGED lastFullSweepAt
        \/ /\ ~TooLong(entries, nowUnix)
           /\ ~Replayed(swept.entries, entries, nowUnix)
           /\ full => nowUnix > lastFullSweepAt
           /\ lastFullSweepAt' = IF full THEN nowUnix ELSE lastFullSweepAt
           /\ IF OverFull(all.entries, entries)
              THEN Answered(entries, nowUnix, "NonceStoreCapacityError") /\ Becomes(all)
              ELSE Answered(entries, nowUnix, "true") /\ Becomes(Insert(all, entries))

Tick == clock < MaxTime /\ clock' = clock + 1 /\ UNCHANGED <<store, call>>

-----------------------------------------------------------------------------
(* The store under any host whose verifier answers within LAG *)

Instants == {t \in Times : t <= clock /\ t + LAG >= clock}

\* A verifier grants no retention that is already over when it decides.
Serve ==
    /\ \E list \in EntryLists, nowUnix \in Instants : \E until \in [DOMAIN list -> nowUnix .. MaxTime] :
          Reserve([i \in DOMAIN list |-> [key |-> list[i], until |-> until[i]]], nowUnix)
    /\ UNCHANGED clock

NNext == Serve \/ Tick
NSpec == NInit /\ [][NNext]_nvars

\* Time passes and the gate keeps being asked.
NFairSpec == NSpec /\ WF_nvars(Tick) /\ WF_nvars(Serve)

-----------------------------------------------------------------------------
(* Properties *)

\* "Sweeping resumes where it left off, so long-lived entries at the front
\* cannot hide expired ones behind them" (nonces.ts, line 29): as long as calls
\* arrive, an entry that has elapsed for every decision still under way is
\* reclaimed, whatever is inserted, refreshed or deleted around the cursor.
ElapsedReclaimed ==
    \A key \in Keys, t \in Times :
        t + LAG < MaxTime => ([key |-> key, until |-> t] \in {reserved[i] : i \in DOMAIN reserved}
                              ~> [key |-> key, until |-> t] \notin {reserved[i] : i \in DOMAIN reserved})

\* Until when each key is reserved, and until when a call was granted its keys.
HeldBy(entries) ==
    [key \in Keys |-> IF key \in {entries[i].key : i \in DOMAIN entries}
                      THEN entries[CHOOSE i \in DOMAIN entries : entries[i].key = key].until
                      ELSE None]

GrantedBy(c) ==
    IF c.answer = "true"
    THEN [key \in {c.entries[i].key : i \in DOMAIN c.entries} |->
             (CHOOSE e \in {c.entries[i] : i \in DOMAIN c.entries} : e.key = key).until]
    ELSE <<>>

Guard == INSTANCE NonceGuard WITH held <- HeldBy(reserved), granted <- GrantedBy(call)

\* The store keeps a host's promise although its calls arrive with instants out
\* of order and it forgets reservations on three paths: what it grants is held
\* until the time stated, and nothing that is held is granted again.
ImplementsGuard == Guard!Spec
=============================================================================
