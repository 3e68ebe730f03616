--------------------------- MODULE MCVerifierHost ---------------------------
EXTENDS VerifierHost, TLC

CONSTANTS h1, h2, op, other

\* The operators' maps know a token the gate does not issue.
MCCapabilityMap == MppCapabilityMap @@ [tool |-> {"SMALL"}]

-----------------------------------------------------------------------------
(* Presentations.                                                          *)

Mandate(tier) == IssueMandate(op, "a", "m", tier, 3, "n")
AskedOf(p) == [subject |-> p.binding.subject, model |-> p.binding.model,
               capabilities |-> p.binding.capabilities]

\* An agent with a proof, a human with one behind it, one whose authority was
\* delegated in two hops, the last of which narrows it.
Agent == [Mandate("medium") EXCEPT !.flaws = {}, !.root = "agents", !.session = "s"]
Human == [Agent EXCEPT !.human = [root |-> "humans", nullifier |-> "n", session |-> "s", scope |-> 1]]
Hop(previous, permissions, expiry) ==
    [good |-> TRUE, previous |-> previous, next |-> <<permissions, expiry>>, session |-> "s",
     root |-> "delegatees", leaf |-> [permissions |-> permissions, expiry |-> expiry]]
Delegated ==
    [Agent EXCEPT !.delegation =
        <<Hop(Agent.scope, {"SMALL", "MEDIUM"}, 3), Hop(<<{"SMALL", "MEDIUM"}, 3>>, {"SMALL"}, 2)>>]

\* What may differ from an honest presentation, and from what is asked of it.
AgentFlaws ==
    {"requestShape", "requestVersion", "kind", "undecodable", "bvp", "agentSlot", "agentEnvelope",
     "credential", "binding", "bindingV1", "sig", "operatorNumber", "sigNumber", "modelNumber",
     "agentProof"}
Flaws(p) ==
    AgentFlaws \cup (IF p.human = None THEN {} ELSE {"humanSlot", "humanEnvelope", "humanProof"})
        \cup (IF p.delegation = <<>> THEN {} ELSE {"delegationSlot", "hopEnvelope", "leaf"})

Recommitted(p) == [p EXCEPT !.scope = Scope(p)]
WithLastHop(p, hop) == [p EXCEPT !.delegation[Len(p.delegation)] = hop]

AgentEdits(p) ==
    {[p EXCEPT !.signature.by = other], [p EXCEPT !.signature.over.subject = "b"],
     [p EXCEPT !.operator = other], Recommitted([p EXCEPT !.operator = other]),
     [p EXCEPT !.expiry = 4], Recommitted([p EXCEPT !.expiry = 4]),
     [p EXCEPT !.permissions = {"SMALL", "MEDIUM", "UNLIMITED"}],
     Recommitted([p EXCEPT !.permissions = {}]), Recommitted([p EXCEPT !.permissions = {"MEDIUM"}]),
     Recommitted([p EXCEPT !.model = "other"]), [p EXCEPT !.root = "others"],
     [p EXCEPT !.session = "t"], [p EXCEPT !.nullifier = None]}
HumanEdits(p) ==
    IF p.human = None THEN {}
    ELSE {[p EXCEPT !.human.root = "others"], [p EXCEPT !.human.session = "t"], [p EXCEPT !.human.scope = 2]}
HopEdits(p) ==
    IF p.delegation = <<>> THEN {}
    ELSE LET last == p.delegation[Len(p.delegation)]
         IN  {WithLastHop(p, [last EXCEPT !.good = FALSE]), WithLastHop(p, [last EXCEPT !.session = "t"]),
              WithLastHop(p, [last EXCEPT !.root = "others"]),
              WithLastHop(p, [last EXCEPT !.leaf.permissions = {"SMALL", "MEDIUM"}]),
              [p EXCEPT !.delegation = Append(@, Hop(last.next, {"SMALL"}, 2))],
              [p EXCEPT !.delegation = Tail(@)]}
Edited(p) ==
    {[p EXCEPT !.flaws = @ \cup {x}] : x \in Flaws(p)} \cup AgentEdits(p) \cup HumanEdits(p) \cup HopEdits(p)

Questions(asked) ==
    {asked, [asked EXCEPT !.model = "other"], [asked EXCEPT !.subject = "b"],
     [asked EXCEPT !.capabilities = {"small"}], [asked EXCEPT !.capabilities = @ \cup {"tool"}],
     [asked EXCEPT !.capabilities = {"unlimited"}], [asked EXCEPT !.capabilities = {"admin"}]}

\* An honest presentation with at most two edits, and any question with at most one.
Cases(base) ==
    LET once == {base} \cup Edited(base)
        twice == UNION {Edited(p) : p \in once}
    IN  ({[p |-> p, asked |-> AskedOf(base)] : p \in twice}
         \cup {[p |-> p, asked |-> asked] : p \in once, asked \in Questions(AskedOf(base))})

-----------------------------------------------------------------------------
(* Scenarios.                                                              *)

Trust == [keys |-> TRUE, configured |-> TRUE,
          roots |-> [agent |-> {"agents"}, human |-> {"humans"}, delegatee |-> {"delegatees"}]]
Alone(asks, trusted, trust) ==
    [asks |-> [h \in {h1} |-> asks], trusted |-> trusted, trust |-> trust, faulty |-> {},
     language |-> "js", reserve |-> "file", until |-> 3]

\* One host with a verifier that does what it should, and every presentation; the
\* deployments that trust nothing, or a tree too many, with the honest ones.
CaseScenarios ==
    {Alone(asks, {op}, Trust) :
        asks \in UNION {Cases(base) : base \in {Mandate("medium"), Agent, Human, Delegated}}}
    \cup {Alone([p |-> base, asked |-> AskedOf(base)], trusted, trust) :
             base \in {Mandate("small"), Mandate("unlimited"), Agent, Human, Delegated},
             trusted \in {{}, {other}, {op, other}},
             trust \in {Trust, [Trust EXCEPT !.keys = FALSE], [Trust EXCEPT !.configured = FALSE],
                        [Trust EXCEPT !.roots.delegatee = {}]}}

\* One host at fault, and two on one file whose presentations share a nonce: what
\* the first may do wrong, the second may too.
Asks == (h1 :> [p |-> Agent, asked |-> AskedOf(Agent)]) @@ (h2 :> [p |-> Human, asked |-> AskedOf(Human)])
Faulty(running, faulty, language, reserve, until) ==
    [asks |-> [h \in running |-> Asks[h]], trusted |-> {op}, trust |-> Trust, faulty |-> faulty,
     language |-> language, reserve |-> reserve, until |-> until]

FaultScenarios ==
    {Faulty({h1}, {h1}, language, reserve, 3) :
        language \in {"js", "rs"}, reserve \in {"file", "none", "verifier"}}
    \cup {Faulty({h1, h2}, {h1}, "js", "file", 1), Faulty({h1, h2}, {h1, h2}, "rs", "file", 1)}

MCScenarios == CaseScenarios \cup FaultScenarios
=============================================================================
