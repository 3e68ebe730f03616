---------------------------- MODULE MCLibraries ----------------------------
(***************************************************************************)
(* Three small state machines that share nothing, checked in one run: a    *)
(* behaviour is one of a batch, of delegation receipts or of the probe.    *)
(***************************************************************************)
EXTENDS OffchainBatch, DelegationReceipts, HealthProbe

CONSTANTS s1, s2, s3, s4, s5

VARIABLE world

MCSessions == <<s1, s2, s3, s4, s5>>

MCTable == (<<"org", "k1">> :> "org-key") @@ (<<"org", Undefined>> :> "org-key") @@ (<<"mall", "k1">> :> "mall-key")
Grant == [iss |-> "org", key |-> "org-key", kid |-> "k1", sub |-> "agent", aud |-> "shop", act |-> "purchase",
          perm |-> [label |-> "FINANCIAL_MEDIUM"], max |-> [amount |-> 2, currency |-> "USD"], ttl |-> 1, ahead |-> 0,
          holder |-> "agent-key", status |-> Undefined, usable |-> TRUE]
GrantV01 == [Grant EXCEPT !.perm = [bits |-> {"FINANCIAL_SMALL", "FINANCIAL_MEDIUM"}]]
Request == [audience |-> "shop", subject |-> "agent", action |-> "purchase",
            perm |-> [label |-> "FINANCIAL_SMALL"], amount |-> 2, currency |-> "USD", kbNonce |-> "n1",
            trust |-> "resolver", keys |-> <<>>, acceptLegacyV01 |-> TRUE, checkStatus |-> TRUE]
Requests ==
    {Request, [Request EXCEPT !.subject = "another"], [Request EXCEPT !.action = Undefined],
     [Request EXCEPT !.action = "read"],
     [Request EXCEPT !.perm = [label |-> "FINANCIAL_UNLIMITED"]], [Request EXCEPT !.perm = [bits |-> {"READ_DATA"}]],
     [Request EXCEPT !.amount = 3], [Request EXCEPT !.currency = "EUR"], [Request EXCEPT !.currency = Undefined],
     [Request EXCEPT !.amount = Undefined], [Request EXCEPT !.kbNonce = Undefined],
     [Request EXCEPT !.audience = "mall"], [Request EXCEPT !.audience = Undefined],
     [Request EXCEPT !.checkStatus = FALSE, !.amount = Undefined], [Request EXCEPT !.acceptLegacyV01 = FALSE],
     [Request EXCEPT !.trust = "none"], [Request EXCEPT !.trust = "keys"],
     [Request EXCEPT !.trust = "keys", !.keys = <<"org-key">>],
     [Request EXCEPT !.trust = "keys", !.keys = <<"mall-key", "org-key">>],
     [Request EXCEPT !.trust = "keys", !.keys = <<"org-key", "mall-key">>]}

Quiet == [grants |-> {}, grantsV01 |-> {}, holders |-> {}, nonces |-> {}, audiences |-> {}, indices |-> {},
          lists |-> {}, foreignLists |-> {}, requests |-> {}, alters |-> FALSE, until |-> 0, issued |-> 1]
Terms == [Quiet EXCEPT
    !.grants = {Grant, [Grant EXCEPT !.max = Undefined, !.status = 4], [Grant EXCEPT !.perm.label = "READ_DATA", !.act = "read"],
                [Grant EXCEPT !.usable = FALSE]},
    !.grantsV01 = {GrantV01, [GrantV01 EXCEPT !.max = Undefined], [GrantV01 EXCEPT !.perm.bits = {"READ_DATA"}],
                   [GrantV01 EXCEPT !.perm.bits = {"FINANCIAL_MEDIUM"}]},
    !.holders = {"agent-key"}, !.nonces = {"n1", "n2"}, !.audiences = {"shop", "mall"}, !.indices = {4},
    !.requests = Requests]
Shapes == [Quiet EXCEPT
    !.grants = {Grant, [Grant EXCEPT !.key = "mall-key"], [Grant EXCEPT !.iss = "unknown"],
                [Grant EXCEPT !.holder = "other-key"]},
    !.grantsV01 = {GrantV01, [GrantV01 EXCEPT !.key = "mall-key"]},
    !.holders = {"agent-key", "other-key"}, !.nonces = {"n1"}, !.audiences = {"shop"},
    !.requests = {Request, [Request EXCEPT !.trust = "keys", !.keys = <<"org-key">>]}, !.alters = TRUE]
Two == [Quiet EXCEPT
    !.grants = {[Grant EXCEPT !.perm.label = "READ_DATA"], Grant, [Grant EXCEPT !.holder = "other-key"]}, !.issued = 2,
    !.holders = {"agent-key", "other-key"}, !.nonces = {"n1"}, !.audiences = {"shop"}, !.requests = {Request}]
Times == [Quiet EXCEPT
    !.grants = {Grant, [Grant EXCEPT !.ttl = -1], [Grant EXCEPT !.ahead = 2]},
    !.grantsV01 = {GrantV01, [GrantV01 EXCEPT !.ahead = 2]},
    !.holders = {"agent-key"}, !.nonces = {"n1"}, !.audiences = {"shop"}, !.until = 3,
    !.requests = {Request, [Request EXCEPT !.trust = "keys", !.keys = <<"mall-key", "org-key">>]}]
List(key, typ, raw, status) ==
    StatusList("org", key, "k1", typ, raw, [idx \in {4, 5} |-> status])
Statuses == [Quiet EXCEPT
    !.grants = {[Grant EXCEPT !.status = 4], [Grant EXCEPT !.status = 5]},
    !.holders = {"agent-key"}, !.nonces = {"n1"}, !.audiences = {"shop"}, !.indices = {4, 5},
    !.lists = {[iss |-> "org", key |-> "org-key", kid |-> "k1"], [iss |-> "mall", key |-> "mall-key", kid |-> "k1"]},
    !.foreignLists = {List("org-key", LIST_TYP, <<0, 15>>, 3), List("mall-key", LIST_TYP, <<0, 0>>, 0),
                      List("org-key", "JWT", <<0, 0>>, 0), List("org-key", LIST_TYP, <<0>>, 0)},
    !.requests = {Request}]
MCScenarios == {Quiet, Terms, Shapes, Two, Times, Statuses}

LInit ==
    /\ world \in {"batch", "delegation", "health"}
    /\ Init /\ DInit /\ HInit
    /\ world # "delegation" <=> scenario = Quiet
LNext ==
    \/ world = "batch" /\ Next /\ UNCHANGED <<dvars, hvars, world>>
    \/ world = "delegation" /\ DNext /\ UNCHANGED <<vars, hvars, world>>
    \/ world = "health" /\ HNext /\ UNCHANGED <<vars, dvars, world>>
LSpec == LInit /\ [][LNext]_<<vars, dvars, hvars, world>>

\* What an answered verification's properties read: no later step changes them.
SeenD == IF \E v \in Verifications : Running(v, "answered")
         THEN <<scenario, receipts, presented, published, verifications>> ELSE dvars
View == <<world, vars, SeenD, hvars>>
=============================================================================
