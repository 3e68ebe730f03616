---------------------------- MODULE ReceiptChain ----------------------------
(***************************************************************************)
(* Hash-chained receipts (integrations/receipts/src/chain.ts): the state a *)
(* writer keeps, what it signs, and what verifyReceiptChain finds wrong    *)
(* with a log.  Hashes and signatures are ideal: the hash of a receipt is  *)
(* the receipt, and a signature covers the payload it was made for.        *)
(***************************************************************************)
EXTENDS Integers, Sequences

\* What may be absent (chain fields, an expectation, a receipt before) is a set of
\* at most one.

\* A ReceiptChain before its first receipt: seq 0 and the genesis sentinel.
Genesis == [seq |-> 0, prev |-> {}]

\* A signed envelope without its id and its convenience hash, which is kept as
\* whether it is absent, agrees with the content, or differs from it.
Signed(body, chain, key) ==
    [payload |-> [body |-> body, chain |-> chain],
     signed |-> [body |-> body, chain |-> chain], key |-> key]
Envelope(receipt, stored) == [receipt |-> receipt, stored |-> stored]

\* sign: the next link. What the writer keeps moves on when a receipt is signed.
Link(chain, body, key) == Envelope(Signed(body, {chain}, key), "agrees")
Advanced(chain, body, key) == [seq |-> chain.seq + 1, prev |-> {Signed(body, {chain}, key)}]

-----------------------------------------------------------------------------
(* verifyReceiptChain. An entry of a log is an envelope, or a record        *)
(* without payload and signature.                                           *)

IsReceipt(e) == "receipt" \in DOMAIN e
IsChained(e) == IsReceipt(e) /\ e.receipt.payload.chain # {}
NoOptions == [signer |-> {}, count |-> {}, head |-> {}, allowUnchained |-> FALSE]

\* The last chained receipt before position i, if there is one.
ChainedBefore(log, i) ==
    LET earlier == {j \in 1 .. i - 1 : IsChained(log[j])}
    IN  {log[j].receipt : j \in {k \in earlier : \A l \in earlier : l <= k}}

Raised(checks) == {check[2] : check \in {c \in checks : c[1]}}

\* The seq that follows the previous receipt's.
Follows(chain, prev) == \E r \in prev : \E c \in r.payload.chain : chain.seq = c.seq + 1
LinkIssuesBySeq(chain, prev) ==
    Raised({<<prev = {} /\ chain # Genesis, "genesis-mismatch">>,
            <<prev # {} /\ chain = Genesis, "chain-restart">>,
            <<prev # {} /\ chain # Genesis /\ ~Follows(chain, prev), "seq-mismatch">>})
LinkIssues(chain, prev) ==
    Raised({<<prev = {} /\ chain # Genesis, "genesis-mismatch">>,
            <<prev # {} /\ chain = Genesis, "chain-restart">>,
            <<prev # {} /\ chain # Genesis /\ ~Follows(chain, prev), "seq-mismatch">>,
            <<prev # {} /\ chain # Genesis /\ chain.prev # prev, "prev-hash-mismatch">>})

EntryIssues(log, i, options) ==
    IF ~IsReceipt(log[i]) THEN {"malformed-receipt"}
    ELSE LET r == log[i].receipt
             prev == ChainedBefore(log, i)
         IN  Raised({<<\/ r.payload # r.signed
                       \/ \E key \in options.signer : r.key # key, "signature-invalid">>})
             \cup IF r.payload.chain = {}
                  THEN Raised({<<prev # {}, "unchained-after-chained">>,
                               <<prev = {} /\ ~options.allowUnchained, "missing-chain-fields">>})
                  ELSE (UNION {LinkIssues(chain, prev) : chain \in r.payload.chain})
                       \cup Raised({<<log[i].stored = "differs", "receipt-hash-mismatch">>})

\* headHash: the hash of the last chained receipt.
LastLink(log) == ChainedBefore(log, Len(log) + 1)

Issues(log, options) ==
    (UNION {EntryIssues(log, i, options) : i \in DOMAIN log})
    \cup Raised({<<\E n \in options.count : Len(log) # n, "count-mismatch">>,
                 <<options.head # {} /\ LastLink(log) # options.head, "head-hash-mismatch">>})

Verifies(log, options) == Issues(log, options) = {}
=============================================================================
