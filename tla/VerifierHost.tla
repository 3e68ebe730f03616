---------------------------- MODULE VerifierHost ----------------------------
(***************************************************************************)
(* The reference hosts of the External Verifier Contract                   *)
(* (spec/reference-host.js and its Rust port spec/reference-host-rs) around *)
(* `bolyra verify --nonce-mode host`.  Each host is a process: it spawns   *)
(* the verifier, supervises it under a time and an output bound, reads its *)
(* verdict, reserves the nonces the verdict names in a file and only then  *)
(* acts.  Hosts share the file and nothing else.  A verifier may misbehave *)
(* in every way the contract makes the host answer for.                    *)
(***************************************************************************)
EXTENDS HostedPort, InProcessPort, CommandPort

CONSTANTS
    Hosts,
    Scenarios    \* who presents what to whom, with which configuration

\* A scenario: asks, the presentation and the request of each host that runs;
\* trusted, the operators of the classical ports; trust, the configuration of the
\* command; faulty, the hosts that may be killed, whose file operations may fail and
\* whose verifier may misbehave; language, which of the two hosts; reserve, whether
\* the verifier keeps the nonces (HUT_NONCE_MODE), the host keeps them in a file, or
\* HUT_NONCE_STORE is missing; until, the bound on the clock.
ASSUME HostAssumption ==
    /\ None \notin {"allow", "running", "exited", "failed", "signalled"}
    /\ \A s \in Scenarios :
        /\ s.until \in Nat /\ DOMAIN s.asks \subseteq Hosts /\ s.faulty \subseteq Hosts
        /\ s.language \in {"js", "rs"} /\ s.reserve \in {"verifier", "file", "none"}
        \* A chain is a list, and expiries are numbers that parse.
        /\ \A p \in {s.asks[h].p : h \in DOMAIN s.asks} :
              LET hops == {p.delegation[i] : i \in DOMAIN p.delegation}
              IN  /\ p.expiry \in Nat
                  /\ p.delegation \in Seq(hops) /\ \A hop \in hops : hop.leaf.expiry \in Nat

VARIABLES
    scenario, clock,
    hosts,       \* the state of each host process
    verifiers,   \* the verifier each has spawned
    store,       \* HUT_NONCE_STORE: the nonces in the file
    acted,       \* HUT_ACTION_LOG: who acted, on which nonces, when it asked
    disturbed    \* history: did a reservation overlap another one, end half way, or
                 \* not see what the file held?

hvars == <<scenario, clock, hosts, verifiers, store, acted, disturbed>>

NewHost == [phase |-> "new", now |-> 0, timedOut |-> FALSE, read |-> {}, decision |-> None]
NewVerifier == [process |-> None, output |-> "nothing", held |-> FALSE]

HInit ==
    /\ scenario \in Scenarios
    /\ clock = 1
    /\ hosts = [h \in Hosts |-> NewHost]
    /\ verifiers = [h \in Hosts |-> NewVerifier]
    /\ store = {} /\ acted = {} /\ disturbed = FALSE

Running == DOMAIN scenario.asks
Presented(h) == scenario.asks[h].p
Asked(h) == scenario.asks[h].asked

-----------------------------------------------------------------------------
(* The verifier process.                                                   *)

\* What `bolyra verify` answers to the request this host has given it.
Verdict(h) == CommandVerdict(Presented(h), Asked(h), scenario.trust, hosts[h].now)
ConsumeNonces(h) ==
    IF scenario.reserve = "verifier" THEN {}
    ELSE {c.nonce : c \in CommandNonces(Presented(h), hosts[h].now)}

Alive(h) == verifiers[h].process = "running"
Supervised(h) == hosts[h].phase = "supervising"

Misprints == {"garbage", "two", "invalid", "flood"}

Emit(h) ==
    /\ Alive(h) /\ verifiers[h].output = "nothing"
    /\ \E out \in {"verdict"} \cup (IF h \in scenario.faulty THEN Misprints ELSE {}) :
          verifiers' = [verifiers EXCEPT ![h].output = out]
    /\ UNCHANGED <<scenario, clock, hosts, store, acted, disturbed>>

\* The command exits non-zero with an internal_error verdict and only with that.
ExitAfter(h) ==
    IF Verdict(h) = "internal_error" THEN "failed" ELSE "exited"

Exit(h) ==
    /\ Alive(h)
    /\ \E end \in IF h \in scenario.faulty THEN {"exited", "failed", "signalled"} ELSE {ExitAfter(h)} :
          /\ h \in scenario.faulty \/ verifiers[h].output = "verdict"
          /\ verifiers' = [verifiers EXCEPT ![h].process = end]
    /\ UNCHANGED <<scenario, clock, hosts, store, acted, disturbed>>

\* A descendant of the verifier that had inherited its stdout closes it.
Release(h) ==
    /\ verifiers[h].held
    /\ verifiers' = [verifiers EXCEPT ![h].held = FALSE]
    /\ UNCHANGED <<scenario, clock, hosts, store, acted, disturbed>>

\* SIGKILL: to the child in JavaScript, to its whole process group in Rust.
Killed(v) ==
    [v EXCEPT !.process = IF @ = "running" THEN "signalled" ELSE @,
              !.held = @ /\ scenario.language = "js"]

-----------------------------------------------------------------------------
(* Supervision.                                                            *)

End(h, decision) == [hosts EXCEPT ![h].phase = "done", ![h].decision = decision]

Spawn(h) ==
    /\ hosts[h].phase = "new"
    /\ \/ /\ \E held \in IF h \in scenario.faulty THEN BOOLEAN ELSE {FALSE} :
                verifiers' = [verifiers EXCEPT ![h].process = "running", ![h].held = held]
          /\ hosts' = [hosts EXCEPT ![h].phase = "supervising", ![h].now = clock]
       \/ /\ h \in scenario.faulty
          /\ hosts' = End(h, "spawn_error")
          /\ UNCHANGED verifiers
    /\ UNCHANGED <<scenario, clock, store, acted, disturbed>>

\* More output than the bound: the host kills the verifier as soon as it sees it.
Overflow(h) ==
    /\ Supervised(h)
    /\ verifiers[h].output = "flood" /\ Alive(h)
    /\ verifiers' = [verifiers EXCEPT ![h] = Killed(@)]
    /\ UNCHANGED <<scenario, clock, hosts, store, acted, disturbed>>

\* The timer runs until stdout is closed, not only until the process has ended.
TimeoutWithoutKill(h) ==
    /\ Supervised(h) /\ ~hosts[h].timedOut /\ h \in scenario.faulty
    /\ hosts' = [hosts EXCEPT ![h].timedOut = TRUE]
    /\ UNCHANGED <<scenario, clock, verifiers, store, acted, disturbed>>

Timeout(h) ==
    /\ Supervised(h) /\ ~hosts[h].timedOut /\ h \in scenario.faulty
    /\ hosts' = [hosts EXCEPT ![h].timedOut = TRUE]
    /\ verifiers' = [verifiers EXCEPT ![h] = Killed(@)]
    /\ UNCHANGED <<scenario, clock, store, acted, disturbed>>

\* Both hosts wait for the end of the process and of its output.
Closed(h) == Supervised(h) /\ ~Alive(h) /\ ~verifiers[h].held

\* Its own kills first, then a signal, then the exit code, then what was printed.
Refusal(h) ==
    LET v == verifiers[h]
    IN  FirstRefusal(
            <<<<v.output # "flood", "oversize_stdout">>,
              <<~hosts[h].timedOut, "timeout">>,
              <<v.process # "signalled", "signal_death">>,
              <<v.process # "failed", "nonzero_exit">>,
              <<v.output \notin {"nothing", "garbage"}, "unparseable_stdout">>,
              <<v.output # "two", "multiple_objects">>,
              <<v.output # "invalid", "schema_invalid">>,
              <<Verdict(h) = "allow", Verdict(h)>>>>,
            "allow")

Decide(h) ==
    /\ Closed(h)
    /\ hosts' = IF Refusal(h) # "allow" THEN End(h, Refusal(h))
                ELSE IF scenario.reserve = "none" THEN End(h, "replay")
                ELSE [hosts EXCEPT ![h].phase = IF scenario.reserve = "file" THEN "reserving" ELSE "acting"]
    /\ UNCHANGED <<scenario, clock, verifiers, store, acted, disturbed>>

-----------------------------------------------------------------------------
(* reserveAll.  The file is read, then truncated, then written anew.  A    *)
(* file that cannot be read, for whatever reason, is taken for an empty    *)
(* one.                                                                    *)

Rewriting == {h \in Hosts : hosts[h].phase \in {"rewriting", "truncated"}}

ReadStore(h) ==
    /\ hosts[h].phase = "reserving"
    /\ \E seen \in {store} \cup (IF h \in scenario.faulty THEN {{}} ELSE {}) :
          /\ hosts' = [hosts EXCEPT ![h].phase = "rewriting", ![h].read = seen]
          /\ disturbed' = (disturbed \/ Rewriting # {} \/ seen # store)
    /\ UNCHANGED <<scenario, clock, verifiers, store, acted>>

Novel(h) == ConsumeNonces(h) \ hosts[h].read

Truncate(h) ==
    /\ hosts[h].phase = "rewriting"
    /\ IF Novel(h) = {}
       THEN hosts' = End(h, "replay") /\ UNCHANGED store
       ELSE hosts' = [hosts EXCEPT ![h].phase = "truncated"] /\ store' = {}
    /\ UNCHANGED <<scenario, clock, verifiers, acted, disturbed>>

FillForgettingConflict(h) ==
    /\ hosts[h].phase = "truncated"
    /\ store' = hosts[h].read \cup ConsumeNonces(h)
    /\ hosts' = [hosts EXCEPT ![h].phase = "acting"]
    /\ UNCHANGED <<scenario, clock, verifiers, acted, disturbed>>

Fill(h) ==
    /\ hosts[h].phase = "truncated"
    /\ store' = hosts[h].read \cup ConsumeNonces(h)
    /\ hosts' = IF ConsumeNonces(h) \cap hosts[h].read = {} THEN [hosts EXCEPT ![h].phase = "acting"]
                ELSE End(h, "replay")
    /\ UNCHANGED <<scenario, clock, verifiers, acted, disturbed>>

\* A write that fails, even after the last byte, is a refusal in Rust; in JavaScript
\* it is not caught and ends the process without a decision.
FailWrite(h) ==
    /\ h \in scenario.faulty /\ hosts[h].phase \in {"rewriting", "truncated"} /\ Novel(h) # {}
    /\ \/ UNCHANGED store
       \/ hosts[h].phase = "truncated" /\ store' = hosts[h].read \cup ConsumeNonces(h)
    /\ hosts' = IF scenario.language = "rs" THEN End(h, "replay")
                ELSE [hosts EXCEPT ![h].phase = "crashed"]
    /\ disturbed' = (disturbed \/ hosts[h].phase = "truncated")
    /\ UNCHANGED <<scenario, clock, verifiers, acted>>

\* recordAction and the decision.
Act(h) ==
    /\ hosts[h].phase = "acting"
    /\ acted' = acted \cup {[by |-> h, nonces |-> ConsumeNonces(h), asked |-> hosts[h].now]}
    /\ hosts' = End(h, "allow")
    /\ UNCHANGED <<scenario, clock, verifiers, store, disturbed>>

\* The host process is killed.
Crash(h) ==
    /\ h \in scenario.faulty /\ hosts[h].phase \notin {"new", "done", "crashed"}
    /\ hosts' = [hosts EXCEPT ![h].phase = "crashed"]
    /\ disturbed' = (disturbed \/ hosts[h].phase = "truncated")
    /\ UNCHANGED <<scenario, clock, verifiers, store, acted>>

ClockTick ==
    /\ clock < scenario.until /\ clock' = clock + 1
    /\ UNCHANGED <<scenario, hosts, verifiers, store, acted, disturbed>>

HostStep(h) ==
    Overflow(h) \/ Timeout(h) \/ Decide(h) \/ ReadStore(h) \/ Truncate(h) \/ Fill(h) \/ Act(h)
VerifierStep(h) == Emit(h) \/ Exit(h)

HNext ==
    \/ \E h \in Running : Spawn(h) \/ HostStep(h) \/ VerifierStep(h) \/ Release(h) \/ FailWrite(h) \/ Crash(h)
    \/ ClockTick

\* A host that runs goes on, its timer included; a verifier that is not faulty ends.
HSpec ==
    /\ HInit /\ [][HNext]_hvars
    /\ \A h \in Hosts : WF_hvars(h \in Running /\ HostStep(h))
    /\ \A h \in Hosts : WF_hvars(h \in Running /\ ~h \in scenario.faulty /\ VerifierStep(h))

-----------------------------------------------------------------------------
(* Properties.                                                             *)

\* What an operator has put its name to: this subject, this model, at least these
\* capabilities, and not for longer than the binding lasts.
Authorized(p, asked, operators, now) ==
    /\ p.signature.by \in operators /\ p.signature.by = p.operator
    /\ p.signature.over.subject = asked.subject /\ p.signature.over.model = asked.model
    /\ asked.capabilities \subseteq p.signature.over.capabilities
    /\ now < p.signature.over.expiry

\* What a mandate, as issued and not tampered with, is worth.
Issued(p, tier) ==
    p = IssueMandate(p.operator, p.binding.subject, p.binding.model, tier, p.binding.expiry, p.nullifier)
Honoured(p, tier, now) ==
    \A amount \in {0, 99, 100, 9999, 10000} :
        LET asked == [subject |-> p.binding.subject, model |-> p.binding.model,
                      capabilities |-> {RequiredTier(amount)}]
        IN  InProcessVerdict(p, asked, {p.operator}, now) = "allow"
                <=> WithinCeiling(amount, tier) /\ now < p.expiry

\* A port answers allow, and a host acts, only for what a trusted operator has
\* signed and while it lasts; and the gate grants with a mandate exactly the
\* amounts below the ceiling of its tier until it expires (the cascades of the
\* three ports, finish in spec/reference-host.js, issueMandate, tierForAmount).
AllowedAsSigned ==
    /\ \A h \in Running :
          LET p == Presented(h)
              asked == Asked(h)
          IN  /\ HostedVerdict(p, asked, scenario.trusted, clock) = "allow"
                    => Authorized(p, asked, scenario.trusted, clock)
              /\ InProcessVerdict(p, asked, scenario.trusted, clock) = "allow"
                    => Authorized(p, asked, scenario.trusted, clock)
              /\ \A i \in DOMAIN Tiers : Issued(p, Tiers[i]) => Honoured(p, Tiers[i], clock)
    /\ \A a \in acted :
          LET p == Presented(a.by)
          IN  /\ Authorized(p, Asked(a.by), {p.operator}, a.asked)
              /\ p.root \in scenario.trust.roots["agent"] /\ "agentProof" \notin p.flaws
              /\ p.human # None => p.human.session = p.session
              /\ verifiers[a.by].process = "exited" /\ ~hosts[a.by].timedOut

\* The differences between the two classical ports that the code makes on purpose:
\* what the gate has no request for or does not look into, one code for a number
\* that is none, and nonces, which standing mandates do without.
Comparable(p) ==
    p.flaws \cap {"requestShape", "requestVersion", "kind", "humanSlot", "humanEnvelope",
                  "delegationSlot", "hopEnvelope", "leaf"} = {}
Alike(hosted, inProcess, p) ==
    \/ hosted = inProcess
    \/ hosted = "internal_error" /\ inProcess = "invalid_bundle"
    \/ hosted = "untrusted_root" /\ inProcess = "internal_error" /\ scenario.trusted = {}
    \/ hosted = "nonce_missing" /\ inProcess = "allow" /\ p.nullifier = None

\* The three ports of the verifier algorithm do not drift apart: the two classical
\* ones refuse the same presentation for the same reason, and what the command
\* allows an agent of a trusted operator, the hosted port allows too, consuming the
\* same nonces (hosted-verify/src/verify/core.ts:1, mpp-payments/src/classical.ts,
\* both ported from cli/src/verify/core.ts).
PortsAgree ==
    \A h \in Running :
        LET p == Presented(h)
            asked == Asked(h)
            hosted == HostedVerdict(p, asked, scenario.trusted, clock)
        IN  /\ Comparable(p)
                  => Alike(hosted, InProcessVerdict(p, asked, scenario.trusted, clock), p)
            /\ (/\ CommandVerdict(p, asked, scenario.trust, clock) = "allow"
                /\ p.human = None /\ p.delegation = <<>>
                /\ p.operator \in scenario.trusted /\ "kind" \notin p.flaws)
                  => hosted = "allow" /\ HostedNonces(p, clock) = CommandNonces(p, clock)

\* No two actions spend the same nonce, whichever hosts took them and whatever
\* their verifiers did, as long as no reservation overlapped another one, ended
\* between the truncation of the file and its being written, or found a file it
\* could not read (reserveAll).
OnceUnlessDisturbed ==
    ~disturbed => \A a, b \in acted : a # b => a.nonces \cap b.nonces = {}

\* Every host that has spawned its verifier comes to a decision, however the
\* verifier behaves, unless it is killed or its write fails; the JavaScript host
\* also waits for whatever the verifier has left holding its output.
DecidedUnlessHeldOpen ==
    \A h \in Hosts :
        (Supervised(h) /\ (verifiers[h].held => scenario.language = "rs"))
            ~> hosts[h].phase \in {"done", "crashed"}
=============================================================================
