--------------------------- MODULE OffchainBatch ---------------------------
(***************************************************************************)
(* OffchainVerificationBatch and postBatchRoot (sdk/src/offchain.ts): the  *)
(* sessions of a batch, its cached Merkle root, and calls that overlap at  *)
(* the awaits of the hashing and of the transaction.  Poseidon is ideal:   *)
(* the hash of two values is their pair, so a root is the tree itself.     *)
(***************************************************************************)
EXTENDS Integers, Sequences, SequencesExt

CONSTANTS
    Sessions,   \* the session the n-th call of the batch brings, if it is an add
    Zero,       \* the padding, and the root of an empty batch
    None

ASSUME BatchAssumption == None \notin Nat

VARIABLES
    commitments,   \* one per session, in the order they were pushed
    cachedRoot,
    calls          \* per call: its phase, what it read, what it answers or has posted

vars == <<commitments, cachedRoot, calls>>

Calls == DOMAIN Sessions

Idle == [op |-> None, phase |-> "idle", began |-> 0, leaves |-> <<>>, ended |-> None,
         batchIndex |-> None, root |-> None, count |-> None]

Init ==
    /\ commitments = <<>>
    /\ cachedRoot = None
    /\ calls = [c \in Calls |-> Idle]

\* Calls of add, getMerkleRoot and postBatchRoot are numbered as they are made.
Made(c) == calls[c].phase = "idle" /\ \A d \in 1 .. c - 1 : calls[d].phase # "idle"

-----------------------------------------------------------------------------
(* The tree.                                                               *)

\* The sizes the padding doubles through, and how often it doubles for n leaves.
Sizes(n) == LET size[h \in 0 .. n] == IF h = 0 THEN 1 ELSE 2 * size[h - 1] IN size
Height(n) == CHOOSE h \in 0 .. n : Sizes(n)[h] >= n /\ \A k \in 0 .. h - 1 : Sizes(n)[k] < n
Padded(leaves) ==
    LET n == Len(leaves)
    IN  [i \in 1 .. Sizes(n)[Height(n)] |-> IF i <= n THEN leaves[i] ELSE Zero]

NextLayer(layer) == [i \in 1 .. Len(layer) \div 2 |-> <<layer[2 * i - 1], layer[2 * i]>>]
\* The layers from the leaves to the root.
Layers(leaves) ==
    LET layer[h \in 0 .. Height(Len(leaves))] ==
            IF h = 0 THEN Padded(leaves) ELSE NextLayer(layer[h - 1])
    IN  layer
MerkleRoot(leaves) == Layers(leaves)[Height(Len(leaves))][1]

\* Which side of its pair an index is on.
PathIndexOfPair(index) == (index \div 2) % 2
PathIndex(index) == index % 2
Sibling(index) == IF index % 2 = 0 THEN index + 1 ELSE index - 1

\* The index of a leaf, of its pair, of the pair of that, up to the given height.
Path(index, height) ==
    LET currentIndex[h \in 0 .. height] == IF h = 0 THEN index ELSE currentIndex[h - 1] \div 2
    IN  currentIndex

\* Steps of an inclusion proof, from the leaf up: the sibling and the side.
MerkleProof(leaves, index) ==
    LET height == Height(Len(leaves))
        path == Path(index, height)
    IN  [h \in 1 .. height |-> [sibling |-> Layers(leaves)[h - 1][Sibling(path[h - 1]) + 1],
                                side |-> PathIndex(path[h - 1])]]

\* What a leaf hashes to after each step of a proof.
Hashed(leaf, proof) ==
    LET current[h \in 0 .. Len(proof)] ==
            IF h = 0 THEN leaf
            ELSE IF proof[h].side = 0 THEN <<current[h - 1], proof[h].sibling>>
            ELSE <<proof[h].sibling, current[h - 1]>>
    IN  current
Includes(leaf, proof, root) == Hashed(leaf, proof)[Len(proof)] = root

-----------------------------------------------------------------------------
(* add: the index is read before the commitment is awaited, the session is *)
(* pushed after.                                                           *)

Add(c, verified) ==
    /\ Made(c)
    /\ calls' = [calls EXCEPT ![c] =
           IF verified THEN [@ EXCEPT !.op = "add", !.phase = "hashing",
                                      !.began = Len(commitments), !.batchIndex = Len(commitments)]
           ELSE [@ EXCEPT !.op = "add", !.phase = "thrown"]]
    /\ UNCHANGED <<commitments, cachedRoot>>

CacheAfterPushKept(cached) == cached
CacheAfterPush(cached) == None
Push(c) ==
    /\ calls[c].op = "add" /\ calls[c].phase = "hashing"
    /\ commitments' = Append(commitments, Sessions[c])
    /\ cachedRoot' = CacheAfterPush(cachedRoot)
    /\ calls' = [calls EXCEPT ![c].phase = "done", ![c].ended = Len(commitments) + 1]

-----------------------------------------------------------------------------
(* getMerkleRoot, alone ("root") or for postBatchRoot ("post").            *)

AskRoot(c, op) ==
    /\ Made(c)
    /\ LET asked == [calls[c] EXCEPT !.op = op, !.began = Len(commitments)]
           Answer(root) == [asked EXCEPT !.phase = "rooted", !.root = root]
       IN  calls' = [calls EXCEPT ![c] =
               IF commitments = <<>>
               THEN IF op = "post" THEN [asked EXCEPT !.phase = "thrown"] ELSE Answer(Zero)
               ELSE IF cachedRoot # None THEN Answer(cachedRoot)
               ELSE [asked EXCEPT !.phase = "hashing", !.leaves = commitments]]
    /\ UNCHANGED <<commitments, cachedRoot>>

\* The tree is built over the commitments as they were when it was begun.
CacheRoot(c) ==
    LET root == MerkleRoot(calls[c].leaves)
    IN  /\ calls[c].op \in {"root", "post"} /\ calls[c].phase = "hashing"
        /\ cachedRoot' = root
        /\ calls' = [calls EXCEPT ![c].phase = "rooted", ![c].root = root,
                                  ![c].ended = Len(commitments)]
        /\ UNCHANGED <<commitments>>

\* The size is read when the root has come, and again when the transaction has.
Send(c) ==
    /\ calls[c].op = "post" /\ calls[c].phase = "rooted"
    /\ calls' \in {[calls EXCEPT ![c].phase = "mining", ![c].count = Len(commitments)],
                   [calls EXCEPT ![c].phase = "thrown"]}
    /\ UNCHANGED <<commitments, cachedRoot>>

Confirm(c) ==
    /\ calls[c].phase = "mining"
    /\ calls' \in {[calls EXCEPT ![c].phase = "done", ![c].count = Len(commitments)],
                   [calls EXCEPT ![c].phase = "thrown"]}
    /\ UNCHANGED <<commitments, cachedRoot>>

Next ==
    \E c \in Calls :
        \/ \E verified \in BOOLEAN : Add(c, verified)
        \/ Push(c)
        \/ \E op \in {"root", "post"} : AskRoot(c, op)
        \/ CacheRoot(c) \/ Send(c) \/ Confirm(c)

Spec == Init /\ [][Next]_vars

-----------------------------------------------------------------------------
(* Correctness. began and ended of a call are how many sessions the batch  *)
(* had when the call was made and when its own result came.                *)

RootOf(n) == IF n = 0 THEN Zero ELSE MerkleRoot(SubSeq(commitments, 1, n))

\* The root of the first n sessions was cached by a call whose tree was already
\* out of date when it was finished.
CachedOvertaken(n) ==
    \E d \in Calls : /\ calls[d].op \in {"root", "post"} /\ calls[d].ended # None
                     /\ Len(calls[d].leaves) = n /\ calls[d].ended > n

\* "Result is cached until a new session is added": a root that was answered or
\* posted is of an initial part of the sessions, never of more than the count
\* posted with it. It covers every session that was there when it was asked for,
\* unless it comes from a cache written by a computation that an add overtook;
\* add clears the cache, and the older root then takes its place.
RootStaleOnlyIfOvertaken ==
    \A c \in Calls : calls[c].root # None =>
        \E n \in 0 .. Len(commitments) :
            /\ calls[c].root = RootOf(n)
            /\ calls[c].count # None => n \in 1 .. calls[c].count
            /\ n >= calls[c].began \/ CachedOvertaken(n)

Overlap(c, d) == calls[d].began < calls[c].ended /\ calls[c].began < calls[d].ended

\* The batchIndex an add returns proves its own session: the inclusion proof for
\* it verifies against the root of the same sessions, and for no other session,
\* whatever was added since. Only an add that overlapped another may hold the
\* index of the other's session.
IndexProvesSession ==
    \A c \in Calls : calls[c].op = "add" /\ calls[c].phase = "done" =>
        LET index == calls[c].batchIndex
            proof == MerkleProof(commitments, index)
            Proves(session) == Includes(session, proof, MerkleRoot(commitments))
        IN  \E d \in Calls :
                /\ Sessions[d] \in ToSet(commitments)
                /\ \A other \in ToSet(commitments) : Proves(other) <=> other = Sessions[d]
                /\ d = c \/ Overlap(c, d)

\* What callers are told of the batch stays true of its sessions, except for the
\* two overlaps above: roots, counts and indices (sdk/src/offchain.ts).
AnswersAccounted == RootStaleOnlyIfOvertaken /\ IndexProvesSession

=============================================================================
