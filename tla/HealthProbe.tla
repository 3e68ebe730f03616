---------------------------- MODULE HealthProbe ----------------------------
(***************************************************************************)
(* /health's cached registry probe (hosted-verify/src/health-probe.ts): of *)
(* the callers in one isolate the first launches a probe and the others    *)
(* share it, also after it settled if it found the registry healthy.       *)
(***************************************************************************)
EXTENDS Integers, Sequences

CONSTANTS
    MaxCalls,
    HEALTH_PROBE_TTL,
    REGISTRY_DEADLINE,
    MaxInstant

ASSUME ProbeAssumption ==
    HEALTH_PROBE_TTL \in Nat \ {0} /\ REGISTRY_DEADLINE \in Nat /\ MaxCalls \in Nat /\ MaxInstant \in Nat

VARIABLES
    instant,    \* Date.now()
    probes,     \* every probe of the isolate, in the order of their launch
    cached,     \* the number of the cached one, 0 for none
    callers     \* in the order they asked: when, which probe it awaits, what it was told

hvars == <<instant, probes, cached, callers>>

Failed(result) == result \in {"unavailable", "timeout"}

HInit ==
    /\ instant = 0
    /\ probes = <<>>
    /\ cached = 0
    /\ callers = <<>>

\* A new probe remembers, for the properties, which ones had failed by then.
Launched == [at |-> instant, result |-> "running",
             failures |-> {p \in DOMAIN probes : Failed(probes[p].result)}]

Reusable == cached # 0 /\ instant - probes[cached].at < HEALTH_PROBE_TTL
CachedProbeRegistry ==
    /\ Len(callers) < MaxCalls
    /\ LET next == Len(probes) + 1
           Joins(p, state) == [asked |-> instant, probe |-> p, joined |-> state,
                               told |-> IF state = "running" THEN "none" ELSE state]
       IN  IF Reusable
           THEN /\ callers' = Append(callers, Joins(cached, probes[cached].result))
                /\ UNCHANGED <<probes, cached>>
           ELSE /\ probes' = Append(probes, Launched)
                /\ cached' = next
                /\ callers' = Append(callers, Joins(next, "running"))
    /\ UNCHANGED instant

AfterSettlingAny(p, result) == IF Failed(result) THEN 0 ELSE cached
AfterSettlingKept(p, result) == cached
\* The eviction was registered first, so that it precedes every caller's resumption.
AfterSettling(p, result) == IF Failed(result) /\ cached = p THEN 0 ELSE cached

\* The object answers, fails, or the deadline's timer fires, at its time or later.
Settle(p, result) ==
    /\ probes[p].result = "running"
    /\ result = "timeout" => instant >= probes[p].at + REGISTRY_DEADLINE
    /\ probes' = [probes EXCEPT ![p].result = result]
    /\ cached' = AfterSettling(p, result)
    /\ callers' = [c \in DOMAIN callers |-> IF callers[c].probe = p /\ callers[c].told = "none"
                                     THEN [callers[c] EXCEPT !.told = result] ELSE callers[c]]
    /\ UNCHANGED instant

Pass == /\ instant < MaxInstant /\ instant' = instant + 1
        /\ UNCHANGED <<probes, cached, callers>>

HNext ==
    \/ CachedProbeRegistry
    \/ \E p \in DOMAIN probes, result \in {"ok", "unavailable", "timeout"} : Settle(p, result)
    \/ Pass

HSpec == HInit /\ [][HNext]_hvars

-----------------------------------------------------------------------------
\* "single-flight per isolate": two probes start less than the TTL apart only
\* when the earlier one had failed by then; the late failure of an older probe
\* does not let another one fly beside a newer.
SingleFlight ==
    \A p, q \in DOMAIN probes :
        p < q /\ probes[q].at - probes[p].at < HEALTH_PROBE_TTL => p \in probes[q].failures

\* "a failure is evicted before it is reported", and health "may be up to 10 s
\* stale": whoever is told of a failure asked while that probe was running,
\* and nobody is told of a probe that began a TTL or more before the asking.
ToldWhatHolds ==
    \A c \in DOMAIN callers : callers[c].told # "none" =>
        /\ Failed(callers[c].told) => callers[c].joined = "running"
        /\ callers[c].asked - probes[callers[c].probe].at < HEALTH_PROBE_TTL
        /\ callers[c].told = probes[callers[c].probe].result

\* What /health says of the registry, and what it costs (cachedProbeRegistry).
HealthAccounted == SingleFlight /\ ToldWhatHolds
=============================================================================
