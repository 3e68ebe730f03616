-------------------------- MODULE VerifiersProofs --------------------------
(***************************************************************************)
(* Proofs about the verifiers on whose word somebody acts.  The on-chain   *)
(* registry: the ring of roots and the exists mapping of a tree always     *)
(* hold its last ROOT_HISTORY_SIZE roots, what a session remembers is what *)
(* was accepted in it, no proof is accepted twice, and only what is in     *)
(* force is accepted.  The reference hosts of the External Verifier        *)
(* Contract and the three ports of its algorithm: a nonce buys one action, *)
(* only what an operator has signed is allowed, and the ports do not drift *)
(* apart.                                                                  *)
(***************************************************************************)
EXTENDS IdentityRegistry, VerifierHost, VerdictProofs, SequenceTheorems

-----------------------------------------------------------------------------
(* The ring of roots *)

Roots == Leaves \cup Seq(Leaves)
Slots == 0 .. ROOT_HISTORY_SIZE - 1

\* The slot written d roots ago, given the slot that is written next.
Slot(index, d) == IF d <= index THEN index - d ELSE index - d + ROOT_HISTORY_SIZE

\* m is l after insertions and clearings: longer, or l with leaves zeroed.
Before(l, m) ==
    \/ Len(l) < Len(m)
    \/ Len(l) = Len(m) /\ \A k \in DOMAIN m : m[k] = Zero \/ m[k] = l[k]

Trees == [leaves : Seq(Leaves), history : [Slots -> Roots], index : Slots, exists : SUBSET Roots]

\* What the slots hold, newest first; the zeros were never written.
RingHolds(tree, recorded) ==
    \A d \in 1 .. ROOT_HISTORY_SIZE :
        tree.history[Slot(tree.index, d)] =
            IF d <= Len(recorded) THEN recorded[Len(recorded) + 1 - d] ELSE Zero

\* Every recorded root is the root of an earlier state of the leaves.
RootsOfThePast(tree, recorded) ==
    \A i \in DOMAIN recorded :
        \E l \in Seq(Leaves) : recorded[i] = RootOf(l) /\ Before(l, tree.leaves)

Distinct(recorded) == \A i, j \in DOMAIN recorded : recorded[i] = recorded[j] => i = j

RingInv(tree, recorded) ==
    /\ tree \in Trees
    /\ recorded \in Seq(Roots)
    /\ RingHolds(tree, recorded)
    /\ RootsOfThePast(tree, recorded)
    /\ Distinct(recorded)
    /\ tree.exists \ {Zero} = LastRoots(recorded) \ {Zero}

LEMMA NextSlot ==
    ASSUME NEW S \in Nat \ {0}, NEW i \in 0 .. S - 1
    PROVE  (i + 1) % S = IF i + 1 = S THEN 0 ELSE i + 1
<1>1. CASE i + 1 = S
  BY <1>1
<1>2. CASE i + 1 # S
  BY <1>2
<1>. QED
  BY <1>1, <1>2

LEMMA SlotMoves ==
    ASSUME NEW i \in Slots, NEW next, next = IF i + 1 = ROOT_HISTORY_SIZE THEN 0 ELSE i + 1,
           NEW d \in 1 .. ROOT_HISTORY_SIZE, d # 1
    PROVE  /\ d - 1 \in 1 .. ROOT_HISTORY_SIZE
           /\ Slot(next, d) = Slot(i, d - 1)
           /\ Slot(i, d - 1) # i
           /\ Slot(i, d - 1) \in 0 .. ROOT_HISTORY_SIZE - 1
<1>1. ROOT_HISTORY_SIZE \in Nat \ {0}
  BY RegistryAssumption
<1>2. CASE i + 1 = ROOT_HISTORY_SIZE
  BY <1>1, <1>2 DEF Slot, Slots
<1>3. CASE i + 1 # ROOT_HISTORY_SIZE
  BY <1>1, <1>3 DEF Slot, Slots
<1>. QED
  BY <1>2, <1>3

\* A leaf is no sequence of leaves, so a root tells the leaves it was made of.
LEMMA RootOfInjective ==
    ASSUME NEW l \in Seq(Leaves), NEW m \in Seq(Leaves), RootOf(l) = RootOf(m)
    PROVE  l = m
<1>1. \A s \in Seq(Leaves) : Len(s) = 1 => s[1] \in Leaves /\ s = <<s[1]>>
  OBVIOUS
<1>2. \A leaf \in Leaves : leaf \notin Seq(Leaves)
  BY RegistryAssumption DEF Leaves
<1>3. CASE Len(l) = 1 /\ Len(m) = 1
  BY <1>1, <1>3 DEF RootOf
<1>4. CASE Len(l) = 1 /\ Len(m) # 1
  BY <1>1, <1>2, <1>4 DEF RootOf
<1>5. CASE Len(l) # 1 /\ Len(m) = 1
  BY <1>1, <1>2, <1>5 DEF RootOf
<1>6. CASE Len(l) # 1 /\ Len(m) # 1
  BY <1>6 DEF RootOf
<1>. QED
  BY <1>3, <1>4, <1>5, <1>6

LEMMA RootOfType ==
    ASSUME NEW l \in Seq(Leaves)
    PROVE  RootOf(l) \in Roots
BY DEF RootOf, Roots

\* Recording the root of leaves that never were in the tree before: the ring moves
\* by one, and the flag that is cleared is the one of the root that falls out.
LEMMA RecordRootKeeps ==
    ASSUME NEW tree, NEW recorded, RingInv(tree, recorded),
           NEW leaves \in Seq(Leaves),
           \A l \in Seq(Leaves) : Before(l, tree.leaves) => Before(l, leaves) /\ l # leaves,
           Before(leaves, leaves)
    PROVE  RingInv(SetLeaves(tree, leaves), Append(recorded, RootOf(leaves)))
<1>. PICK S : S = ROOT_HISTORY_SIZE
  OBVIOUS
<1>. PICK index : index = tree.index
  OBVIOUS
<1>. PICK root : root = RootOf(leaves)
  OBVIOUS
<1>. PICK n : n = Len(recorded)
  OBVIOUS
<1>. PICK after : after = SetLeaves(tree, leaves)
  OBVIOUS
<1>. PICK more : more = Append(recorded, root)
  OBVIOUS
<1>0. /\ S \in Nat \ {0} /\ S = ROOT_HISTORY_SIZE /\ index = tree.index
      /\ root = RootOf(leaves) /\ n = Len(recorded)
      /\ after = SetLeaves(tree, leaves) /\ more = Append(recorded, root)
  BY RegistryAssumption
<1>1. /\ tree \in Trees /\ index \in 0 .. S - 1 /\ recorded \in Seq(Roots) /\ n \in Nat
      /\ DOMAIN recorded = 1 .. n
  BY <1>0 DEF RingInv, Trees, Slots
<1>2. root \in Roots
  BY <1>0, RootOfType
<1>3. /\ more \in Seq(Roots) /\ Len(more) = n + 1 /\ DOMAIN more = 1 .. n + 1
      /\ more[n + 1] = root
      /\ \A i \in 1 .. n : more[i] = recorded[i]
  BY <1>0, <1>1, <1>2, AppendProperties
<1>4. PICK old : old = tree.history[index]
  OBVIOUS
<1>5. /\ old = IF S <= n THEN recorded[n + 1 - S] ELSE Zero
  <2>1. S \in 1 .. S /\ Slot(index, S) = index
    BY <1>0, <1>1 DEF Slot
  <2>. QED
    BY <1>0, <1>1, <1>4, <2>1 DEF RingInv, RingHolds
<1>6. PICK next : next = IF index + 1 = S THEN 0 ELSE index + 1
  OBVIOUS
<1>7. (index + 1) % S = next
  BY <1>0, <1>1, <1>6, NextSlot
<1>8. /\ after.leaves = leaves /\ after.index = next
      /\ after.history = [tree.history EXCEPT ![index] = root]
      /\ after.exists = (IF old # Zero THEN tree.exists \ {old} ELSE tree.exists) \cup {root}
      /\ after \in [leaves : {after.leaves}, history : {after.history},
                    index : {after.index}, exists : {after.exists}]
  BY <1>0, <1>1, <1>4, <1>7 DEF SetLeaves, RecordRoot, Trees
<1>9. after \in Trees
  <2>1. next \in Slots
    BY <1>0, <1>1, <1>6 DEF Slots
  <2>2. after.history \in [Slots -> Roots]
    BY <1>1, <1>2, <1>8 DEF Trees
  <2>3. after.exists \in SUBSET Roots
    BY <1>1, <1>2, <1>8 DEF Trees
  <2>. QED
    BY <1>8, <2>1, <2>2, <2>3 DEF Trees
<1>10. RingHolds(after, more)
  <2>. SUFFICES ASSUME NEW d \in 1 .. S
                PROVE  after.history[Slot(next, d)] = IF d <= n + 1 THEN more[(n + 1) + 1 - d] ELSE Zero
    BY <1>0, <1>3, <1>8 DEF RingHolds
  <2>1. tree.history \in [0 .. S - 1 -> Roots]
    BY <1>0, <1>1 DEF Trees, Slots
  <2>2. CASE d = 1
    <3>1. Slot(next, d) = index
      BY <1>0, <1>1, <1>6, <2>2, SMTT(60) DEF Slot
    <3>2. after.history[Slot(next, d)] = root
      BY <1>1, <1>8, <2>1, <3>1
    <3>3. d <= n + 1 /\ (n + 1) + 1 - d = n + 1
      BY <1>1, <2>2
    <3>. QED
      BY <1>3, <3>2, <3>3
  <2>3. CASE d # 1
    <3>1. /\ d - 1 \in 1 .. S /\ Slot(next, d) = Slot(index, d - 1) /\ Slot(index, d - 1) # index
          /\ Slot(index, d - 1) \in 0 .. S - 1
      <4>1. /\ index \in Slots /\ d \in 1 .. ROOT_HISTORY_SIZE
            /\ next = IF index + 1 = ROOT_HISTORY_SIZE THEN 0 ELSE index + 1
        BY <1>0, <1>1, <1>6 DEF Slots
      <4>2. /\ d - 1 \in 1 .. ROOT_HISTORY_SIZE
            /\ Slot(next, d) = Slot(index, d - 1)
            /\ Slot(index, d - 1) # index
            /\ Slot(index, d - 1) \in 0 .. ROOT_HISTORY_SIZE - 1
        BY <2>3, <4>1, SlotMoves
      <4>. QED
        BY <1>0, <4>2
    <3>2. after.history[Slot(next, d)] = tree.history[Slot(index, d - 1)]
      BY <1>8, <2>1, <3>1
    <3>3. tree.history[Slot(index, d - 1)] =
              IF d - 1 <= n THEN recorded[n + 1 - (d - 1)] ELSE Zero
      BY <1>0, <3>1 DEF RingInv, RingHolds
    <3>4. d - 1 <= n => n + 1 - (d - 1) \in 1 .. n /\ n + 1 - (d - 1) = (n + 1) + 1 - d
      BY <1>1, <2>3
    <3>5. d - 1 <= n <=> d <= n + 1
      BY <1>1
    <3>. QED
      BY <1>3, <3>2, <3>3, <3>4, <3>5
  <2>. QED
    BY <2>2, <2>3
<1>11. \A i \in 1 .. n : recorded[i] # root
  <2>. SUFFICES ASSUME NEW i \in 1 .. n PROVE recorded[i] # root
    OBVIOUS
  <2>1. PICK l \in Seq(Leaves) : recorded[i] = RootOf(l) /\ Before(l, tree.leaves)
    BY <1>1 DEF RingInv, RootsOfThePast
  <2>2. l # leaves
    BY <2>1
  <2>. QED
    BY <1>0, <2>1, <2>2, RootOfInjective
<1>12. Distinct(more)
  <2>1. \A i, j \in 1 .. n : recorded[i] = recorded[j] => i = j
    BY <1>1 DEF RingInv, Distinct
  <2>2. \A i \in 1 .. n + 1 : i = n + 1 \/ i \in 1 .. n
    BY <1>1
  <2>. QED
    BY <1>3, <1>11, <2>1, <2>2 DEF Distinct
<1>13. RootsOfThePast(after, more)
  <2>. SUFFICES ASSUME NEW i \in 1 .. n + 1
                PROVE  \E l \in Seq(Leaves) : more[i] = RootOf(l) /\ Before(l, leaves)
    BY <1>3, <1>8 DEF RootsOfThePast
  <2>1. CASE i = n + 1
    BY <1>0, <1>3, <2>1
  <2>2. CASE i # n + 1
    <3>1. i \in 1 .. n
      BY <1>1, <2>2
    <3>2. PICK l \in Seq(Leaves) : recorded[i] = RootOf(l) /\ Before(l, tree.leaves)
      BY <1>1, <3>1 DEF RingInv, RootsOfThePast
    <3>. QED
      BY <1>3, <3>1, <3>2
  <2>. QED
    BY <2>1, <2>2
<1>14. after.exists \ {Zero} = LastRoots(more) \ {Zero}
  <2>1. LastRoots(recorded) = {recorded[i] : i \in {j \in 1 .. n : j > n - S}}
    BY <1>0, <1>1 DEF LastRoots
  <2>2. LastRoots(more) = {more[i] : i \in {j \in 1 .. n + 1 : j > n + 1 - S}}
    BY <1>0, <1>3 DEF LastRoots
  <2>3. LastRoots(more) = (IF S <= n THEN LastRoots(recorded) \ {old} ELSE LastRoots(recorded)) \cup {root}
    <3>1. ASSUME NEW x \in LastRoots(more)
          PROVE  \/ x = root
                 \/ x \in LastRoots(recorded) /\ (S <= n => x # old)
      <4>1. PICK i \in 1 .. n + 1 : i > n + 1 - S /\ x = more[i]
        BY <2>2
      <4>2. CASE i = n + 1
        BY <1>3, <4>1, <4>2
      <4>3. CASE i # n + 1
        <5>1. i \in 1 .. n /\ i > n - S /\ x = recorded[i]
          BY <1>0, <1>1, <1>3, <4>1, <4>3
        <5>2. S <= n => n + 1 - S \in 1 .. n /\ i # n + 1 - S
          BY <1>0, <1>1, <4>1
        <5>3. S <= n => x # old
          BY <1>1, <1>5, <5>1, <5>2 DEF RingInv, Distinct
        <5>. QED
          BY <2>1, <5>1, <5>3
      <4>. QED
        BY <4>2, <4>3
    <3>2. root \in LastRoots(more)
      <4>1. n + 1 \in 1 .. n + 1 /\ n + 1 > n + 1 - S
        BY <1>0, <1>1
      <4>. QED
        BY <1>3, <2>2, <4>1
    <3>3. ASSUME NEW x \in LastRoots(recorded), S <= n => x # old
          PROVE  x \in LastRoots(more)
      <4>1. PICK i \in 1 .. n : i > n - S /\ x = recorded[i]
        BY <2>1
      <4>2. S <= n => i # n + 1 - S
        BY <1>5, <3>3, <4>1
      <4>3. i \in 1 .. n + 1 /\ i > n + 1 - S
        BY <1>0, <1>1, <4>1, <4>2
      <4>. QED
        BY <1>3, <2>2, <4>1, <4>3
    <3>. QED
      BY <3>1, <3>2, <3>3
  <2>4. tree.exists \ {Zero} = LastRoots(recorded) \ {Zero}
    BY DEF RingInv
  <2>5. CASE S <= n
    BY <1>8, <2>3, <2>4, <2>5
  <2>6. CASE ~(S <= n)
    BY <1>5, <1>8, <2>3, <2>4, <2>6
  <2>. QED
    BY <2>5, <2>6
<1>. QED
  BY <1>0, <1>3, <1>9, <1>10, <1>12, <1>13, <1>14 DEF RingInv

LEMMA InsertKeeps ==
    ASSUME NEW tree, NEW recorded, RingInv(tree, recorded), NEW leaf \in Leaves
    PROVE  /\ RingInv(Insert(tree, leaf), Append(recorded, RootOf(Append(tree.leaves, leaf))))
           /\ Insert(tree, leaf).leaves = Append(tree.leaves, leaf)
<1>. PICK leaves : leaves = Append(tree.leaves, leaf)
  OBVIOUS
<1>1. tree \in Trees /\ tree.leaves \in Seq(Leaves)
  BY DEF RingInv, Trees
<1>2. leaves \in Seq(Leaves) /\ Len(leaves) = Len(tree.leaves) + 1
  BY <1>1
<1>3. ASSUME NEW l \in Seq(Leaves), Before(l, tree.leaves)
      PROVE  Before(l, leaves) /\ l # leaves
  BY <1>1, <1>2, <1>3 DEF Before
<1>4. Before(leaves, leaves)
  BY DEF Before
<1>5. RingInv(SetLeaves(tree, leaves), Append(recorded, RootOf(leaves)))
  BY <1>2, <1>3, <1>4, RecordRootKeeps
<1>6. SetLeaves(tree, leaves).leaves = leaves
  BY <1>1 DEF SetLeaves, RecordRoot, Trees
<1>. QED
  BY <1>5, <1>6 DEF Insert

LEMMA ClearKeeps ==
    ASSUME NEW tree, NEW recorded, RingInv(tree, recorded),
           NEW leaf \in Leaves \ {Zero}, leaf \in Elements(tree.leaves)
    PROVE  RingInv(Clear(tree, leaf), Append(recorded, RootOf(Clear(tree, leaf).leaves)))
<1>. PICK leaves : leaves = [i \in DOMAIN tree.leaves |->
                                IF tree.leaves[i] = leaf THEN Zero ELSE tree.leaves[i]]
  OBVIOUS
<1>1. tree \in Trees /\ tree.leaves \in Seq(Leaves)
  BY DEF RingInv, Trees
<1>2. leaves \in Seq(Leaves) /\ Len(leaves) = Len(tree.leaves) /\ DOMAIN leaves = DOMAIN tree.leaves
  BY <1>1 DEF Leaves
<1>3. PICK k \in DOMAIN tree.leaves : tree.leaves[k] = leaf
  BY DEF Elements
<1>4. ASSUME NEW l \in Seq(Leaves), Before(l, tree.leaves)
      PROVE  Before(l, leaves) /\ l # leaves
  <2>1. CASE Len(l) < Len(tree.leaves)
    BY <1>2, <2>1 DEF Before
  <2>2. CASE Len(l) = Len(tree.leaves) /\ \A i \in DOMAIN tree.leaves :
                    tree.leaves[i] = Zero \/ tree.leaves[i] = l[i]
    <3>1. leaves[k] = Zero /\ l[k] = leaf
      BY <1>3, <2>2
    <3>2. \A i \in DOMAIN leaves : leaves[i] = Zero \/ leaves[i] = l[i]
      BY <1>2, <2>2
    <3>. QED
      BY <1>2, <2>2, <3>1, <3>2 DEF Before
  <2>. QED
    BY <1>4, <2>1, <2>2 DEF Before
<1>5. Before(leaves, leaves)
  BY DEF Before
<1>6. RingInv(SetLeaves(tree, leaves), Append(recorded, RootOf(leaves)))
  BY <1>2, <1>4, <1>5, RecordRootKeeps
<1>7. SetLeaves(tree, leaves).leaves = leaves
  BY <1>1 DEF SetLeaves, RecordRoot, Trees
<1>. QED
  BY <1>6, <1>7 DEF Clear

\* Both trees hold the roots that were recorded of them (stated of the values, so
\* that the next state's are read as easily as this one's).
TreesInv ==
    /\ roots \in [human : Seq(Roots), agent : Seq(Roots)]
    /\ \A tree \in {humanTree}, recorded \in {roots.human} : RingInv(tree, recorded)
    /\ \A tree \in {agentTree}, recorded \in {roots.agent} : RingInv(tree, recorded)

LEMMA EmptyTreeHolds == RingInv(EmptyTree, <<>>)
<1>1. ROOT_HISTORY_SIZE \in Nat \ {0}
  BY RegistryAssumption
<1>2. EmptyTree \in Trees
  BY <1>1 DEF EmptyTree, Trees, Slots, Roots, Leaves
<1>3. RingHolds(EmptyTree, <<>>)
  BY <1>1 DEF EmptyTree, RingHolds, Slot
<1>4. /\ RootsOfThePast(EmptyTree, <<>>) /\ Distinct(<<>>)
      /\ EmptyTree.exists \ {Zero} = LastRoots(<<>>) \ {Zero}
  BY DEF EmptyTree, RootsOfThePast, Distinct, LastRoots
<1>. QED
  BY <1>2, <1>3, <1>4 DEF RingInv

\* Two insertions in one transaction record both roots.
LEMMA InsertBatchKeeps ==
    ASSUME NEW tree, NEW recorded, RingInv(tree, recorded), NEW x \in Leaves, NEW y \in Leaves
    PROVE  RingInv(Insert(Insert(tree, x), y),
                   recorded \o <<RootOf(Insert(tree, x).leaves),
                                 RootOf(Insert(Insert(tree, x), y).leaves)>>)
<1>. PICK first : first = Insert(tree, x)
  OBVIOUS
<1>. PICK r : r = RootOf(first.leaves)
  OBVIOUS
<1>. PICK q : q = RootOf(Insert(first, y).leaves)
  OBVIOUS
<1>1. RingInv(first, Append(recorded, r))
  BY InsertKeeps
<1>2. RingInv(Insert(first, y), Append(Append(recorded, r), q))
  BY <1>1, InsertKeeps, ZenonT(60)
<1>3. recorded \in Seq(Roots) /\ first.leaves \in Seq(Leaves) /\ Insert(first, y).leaves \in Seq(Leaves)
  BY <1>1, <1>2 DEF RingInv, Trees
<1>4. r \in Roots /\ q \in Roots
  BY <1>3, RootOfType
<1>5. Append(Append(recorded, r), q) = recorded \o <<r, q>>
  BY <1>3, <1>4
<1>. QED
  BY <1>2, <1>5

LEMMA TreesInvInit == Init => TreesInv
BY EmptyTreeHolds DEF Init, TreesInv

LEMMA TreesInvStep == TreesInv /\ [Next]_vars => TreesInv'
<1>. SUFFICES ASSUME TreesInv, [Next]_vars
              PROVE  TreesInv'
  OBVIOUS
<1>0. /\ RingInv(humanTree, roots.human) /\ RingInv(agentTree, roots.agent)
      /\ roots \in [human : Seq(Roots), agent : Seq(Roots)]
  BY DEF TreesInv
<1>a. Humans \cup Agents \subseteq Leaves /\ Zero \notin Agents
  BY RegistryAssumption DEF Leaves
<1>b. ASSUME RingInv(humanTree', roots'.human), UNCHANGED agentTree,
             roots' = [roots EXCEPT !.human = roots'.human]
      PROVE  TreesInv'
  <2>1. roots'.human \in Seq(Roots)
    BY <1>b DEF RingInv
  <2>2. roots' \in [human : Seq(Roots), agent : Seq(Roots)] /\ roots'.agent = roots.agent
    BY <1>0, <1>b, <2>1
  <2>. QED
    BY <1>0, <1>b, <2>2 DEF TreesInv
<1>c. ASSUME RingInv(agentTree', roots'.agent), UNCHANGED humanTree,
             roots' = [roots EXCEPT !.agent = roots'.agent]
      PROVE  TreesInv'
  <2>1. roots'.agent \in Seq(Roots)
    BY <1>c DEF RingInv
  <2>2. roots' \in [human : Seq(Roots), agent : Seq(Roots)] /\ roots'.human = roots.human
    BY <1>0, <1>c, <2>1
  <2>. QED
    BY <1>0, <1>c, <2>2 DEF TreesInv
<1>1. ASSUME NEW h \in Humans, EnrollHuman(h) PROVE TreesInv'
  <2>1. RingInv(Insert(humanTree, h), Append(roots.human, RootOf(Insert(humanTree, h).leaves)))
    BY <1>0, <1>a, InsertKeeps
  <2>2. humanTree' = Insert(humanTree, h) /\ UNCHANGED agentTree
        /\ roots' = [roots EXCEPT !.human = Append(@, RootOf(Insert(humanTree, h).leaves))]
    BY <1>1 DEF EnrollHuman, EnrolHumans
  <2>3. roots'.human = Append(roots.human, RootOf(Insert(humanTree, h).leaves))
    BY <1>0, <2>2
  <2>. QED
    BY <1>0, <1>b, <2>1, <2>2, <2>3
<1>2. ASSUME NEW h \in Humans, NEW g \in Humans, EnrollHumanBatch(h, g) PROVE TreesInv'
  <2>. PICK two : two = <<RootOf(Insert(humanTree, h).leaves),
                          RootOf(Insert(Insert(humanTree, h), g).leaves)>>
    OBVIOUS
  <2>1. RingInv(Insert(Insert(humanTree, h), g), roots.human \o two)
    BY <1>0, <1>a, InsertBatchKeeps
  <2>2. humanTree' = Insert(Insert(humanTree, h), g) /\ UNCHANGED agentTree
        /\ roots' = [roots EXCEPT !.human = @ \o two]
    BY <1>2 DEF EnrollHumanBatch, EnrolHumans
  <2>3. roots'.human = roots.human \o two
    BY <1>0, <2>2
  <2>. QED
    BY <1>0, <1>b, <2>1, <2>2, <2>3
<1>3. ASSUME NEW a \in Agents, EnrollAgent(a) PROVE TreesInv'
  <2>1. RingInv(Insert(agentTree, a), Append(roots.agent, RootOf(Insert(agentTree, a).leaves)))
    BY <1>0, <1>a, InsertKeeps
  <2>2. agentTree' = Insert(agentTree, a) /\ UNCHANGED humanTree
        /\ roots' = [roots EXCEPT !.agent = Append(@, RootOf(Insert(agentTree, a).leaves))]
    BY <1>3 DEF EnrollAgent, EnrolAgents
  <2>3. roots'.agent = Append(roots.agent, RootOf(Insert(agentTree, a).leaves))
    BY <1>0, <2>2
  <2>. QED
    BY <1>0, <1>c, <2>1, <2>2, <2>3
<1>4. ASSUME NEW a \in Agents, NEW b \in Agents, EnrollAgentBatch(a, b) PROVE TreesInv'
  <2>. PICK two : two = <<RootOf(Insert(agentTree, a).leaves),
                          RootOf(Insert(Insert(agentTree, a), b).leaves)>>
    OBVIOUS
  <2>1. RingInv(Insert(Insert(agentTree, a), b), roots.agent \o two)
    BY <1>0, <1>a, InsertBatchKeeps
  <2>2. agentTree' = Insert(Insert(agentTree, a), b) /\ UNCHANGED humanTree
        /\ roots' = [roots EXCEPT !.agent = @ \o two]
    BY <1>4 DEF EnrollAgentBatch, EnrolAgents
  <2>3. roots'.agent = roots.agent \o two
    BY <1>0, <2>2
  <2>. QED
    BY <1>0, <1>c, <2>1, <2>2, <2>3
<1>5. ASSUME NEW a \in Agents, RevokeAgent(a) PROVE TreesInv'
  <2>1. RingInv(Clear(agentTree, a), Append(roots.agent, RootOf(Clear(agentTree, a).leaves)))
    BY <1>0, <1>a, <1>5, ClearKeeps DEF RevokeAgent
  <2>2. agentTree' = Clear(agentTree, a) /\ UNCHANGED humanTree
        /\ roots' = [roots EXCEPT !.agent = Append(@, RootOf(Clear(agentTree, a).leaves))]
    BY <1>5 DEF RevokeAgent, EnrolAgents
  <2>3. roots'.agent = Append(roots.agent, RootOf(Clear(agentTree, a).leaves))
    BY <1>0, <2>2
  <2>. QED
    BY <1>0, <1>c, <2>1, <2>2, <2>3
<1>6. ASSUME UNCHANGED trees PROVE TreesInv'
  BY <1>0, <1>6 DEF trees, TreesInv
<1>7. ASSUME NEW h \in Humans, NEW scope \in Scopes, RevokeHuman(HumanNullifier(h, scope))
      PROVE  UNCHANGED trees
  BY <1>7 DEF RevokeHuman
<1>8. ASSUME NEW nonce \in Nonces, VerifyHandshake(nonce) \/ VerifyDelegation(nonce)
      PROVE  UNCHANGED trees
  BY <1>8 DEF VerifyHandshake, VerifyDelegation
<1>9. ASSUME Tick \/ UNCHANGED vars PROVE UNCHANGED trees
  BY <1>9 DEF Tick, vars
<1>. QED
  BY <1>1, <1>2, <1>3, <1>4, <1>5, <1>6, <1>7, <1>8, <1>9 DEF Next

\* RootWindow: in both trees, after whatever enrolments, batches and revocations, the
\* roots a proof may be made against are the last ROOT_HISTORY_SIZE recorded
\* (_recordHumanRoot, _recordAgentRoot and the two exists mappings).
THEOREM WindowHolds == Spec => []RootWindow
<1>1. TreesInv => RootWindow
  BY DEF TreesInv, RingInv, RootWindow
<1>. QED
  BY <1>1, TreesInvInit, TreesInvStep, PTL DEF Spec

-----------------------------------------------------------------------------
(* Sessions *)

Grants == [scope : SUBSET Permissions, cred : Agents, expiry : Nat]
Handshakes == [human : Humans, scope : Scopes, root : Roots, nonce : Nonces]
              \cup [agent : Agents, root : Roots, time : Times, nonce : Nonces]
Hops == [previous : Grants, next : Grants, root : Roots, nonce : Nonces, time : Times]
Entries == [at : Nat, to : Grants, proofs : Seq(Handshakes \cup Hops)]

SessionTypes ==
    /\ usedNonces \in SUBSET Nonces
    /\ delegationHopCount \in [Nonces -> Nat]
    /\ lastScopeCommitment \in [Nonces -> Grants \cup {Zero}]
    /\ accepted \in [Nonces -> Seq(Entries)]
    /\ now \in Nat

IsHop(p) == "previous" \in DOMAIN p

\* A session opens with the two handshake proofs, and every later entry is one
\* delegation whose nullifier is spent; all of them carry the session's nonce.
ProofsSpent(chain, nonce, nullifiers) ==
    \A i \in DOMAIN chain : \A p \in Elements(chain[i].proofs) :
        /\ p.nonce = nonce
        /\ IF i = 1 THEN ~IsHop(p) ELSE IsHop(p) /\ DelegationNullifier(p) \in nullifiers

\* A nullifier is spent by one entry.
SpentOnce(chain) ==
    \A i, j \in DOMAIN chain \ {1} :
        \A p \in Elements(chain[i].proofs), q \in Elements(chain[j].proofs) :
            DelegationNullifier(p) = DelegationNullifier(q) => i = j

Narrows(chain) ==
    \A j \in DOMAIN chain : \A i \in 1 .. j - 1 :
        /\ chain[j].to.scope \subseteq chain[i].to.scope
        /\ chain[j].to.expiry <= chain[i].to.expiry

SessionsInv ==
    /\ SessionTypes
    /\ SessionStateConsistent
    /\ \A chains \in {accepted}, nullifiers \in {usedDelegationNullifiers} : \A n \in Nonces :
        ProofsSpent(chains[n], n, nullifiers) /\ SpentOnce(chains[n]) /\ Narrows(chains[n])

LEMMA ElementsOfOne == \A x : Elements(<<x>>) = {x}
BY DEF Elements

LEMMA ElementsOfTwo == \A x, y : Elements(<<x, y>>) = {x, y}
BY DEF Elements

LEMMA ElementsIn == \A S : \A s \in Seq(S) : Elements(s) \subseteq S
BY DEF Elements

\* What an accepted handshake opens a session with.
LEMMA HandshakeOpens ==
    ASSUME TreesInv, SessionTypes, NEW nonce \in Nonces, VerifyHandshake(nonce)
    PROVE  \E human, agent \in Handshakes :
              /\ nonce \notin usedNonces
              /\ human.nonce = nonce /\ ~IsHop(human)
              /\ agent.nonce = nonce /\ ~IsHop(agent)
              /\ agent.agent \in Agents
              /\ agent.agent \in LeavesOf(agent.root)
              /\ agent.root \in agentTree.exists
              /\ now < Holds(agent.agent).expiry + SKEW
              /\ Holds(agent.agent) \in Grants
              /\ lastScopeCommitment' = [lastScopeCommitment EXCEPT ![nonce] = Holds(agent.agent)]
              /\ accepted' = [accepted EXCEPT ![nonce] = Append(@,
                     [at |-> now, to |-> Holds(agent.agent), proofs |-> <<human, agent>>])]
              /\ usedNonces' = usedNonces \cup {nonce}
              /\ UNCHANGED <<trees, usedDelegationNullifiers, delegationHopCount, now>>
<1>1. PICK human \in HumanProofs, agent \in AgentProofs :
        /\ BoundTo(human, nonce) /\ BoundTo(agent, nonce)
        /\ KnownRoot(agentTree, agent.root)
        /\ AgentProof(agent)
        /\ Fresh(agent.time)
        /\ lastScopeCommitment' = [lastScopeCommitment EXCEPT ![nonce] = Holds(agent.agent)]
        /\ accepted' = [accepted EXCEPT ![nonce] = Append(@,
               [at |-> now, to |-> Holds(agent.agent), proofs |-> <<human, agent>>])]
  BY DEF VerifyHandshake
<1>2. Elements(roots.human) \subseteq Roots /\ Elements(roots.agent) \subseteq Roots
  BY ElementsIn DEF TreesInv
<1>3. human \in [human : Humans, scope : Scopes, root : Roots, nonce : Nonces]
  BY <1>2 DEF HumanProofs
<1>4. agent \in [agent : Agents, root : Roots, time : Times, nonce : Nonces]
  BY <1>2 DEF AgentProofs
<1>5. human \in Handshakes /\ ~IsHop(human) /\ human.nonce = nonce
  BY <1>1, <1>3 DEF Handshakes, IsHop, BoundTo
<1>6. agent \in Handshakes /\ ~IsHop(agent) /\ agent.nonce = nonce
  BY <1>1, <1>4 DEF Handshakes, IsHop, BoundTo
<1>7. Holds(agent.agent) \in Grants
  BY <1>4, RegistryAssumption DEF Holds, Grants
<1>8. now < Holds(agent.agent).expiry + SKEW
  <2>1. agent.time < ExpiryOf[agent.agent] /\ agent.time + SKEW >= now
    BY <1>1 DEF AgentProof, Fresh
  <2>2. agent.time \in Nat /\ ExpiryOf[agent.agent] \in Nat /\ SKEW \in Nat /\ now \in Nat
    BY <1>4, RegistryAssumption DEF Times, SessionTypes
  <2>. QED
    BY <2>1, <2>2 DEF Holds
<1>9. nonce \notin usedNonces /\ usedNonces' = usedNonces \cup {nonce}
      /\ UNCHANGED <<trees, usedDelegationNullifiers, delegationHopCount, now>>
  BY DEF VerifyHandshake
<1>10. /\ agent.agent \in Agents
       /\ agent.agent \in LeavesOf(agent.root)
       /\ agent.root \in agentTree.exists
  BY <1>1, <1>4 DEF AgentProof, KnownRoot
<1>. QED
  BY <1>1, <1>5, <1>6, <1>7, <1>8, <1>9, <1>10

\* What an accepted delegation extends a session with.
LEMMA DelegationExtends ==
    ASSUME TreesInv, SessionTypes, NEW nonce \in Nonces, VerifyDelegation(nonce),
           lastScopeCommitment[nonce] \in Grants
    PROVE  \E p \in Hops :
              /\ nonce \in usedNonces
              /\ delegationHopCount[nonce] + 1 <= MAX_DELEGATION_HOPS
              /\ p.nonce = nonce /\ IsHop(p)
              /\ p.next.scope \subseteq lastScopeCommitment[nonce].scope
              /\ p.next.expiry <= lastScopeCommitment[nonce].expiry
              /\ p.next.cred \in LeavesOf(p.root)
              /\ p.root \in agentTree.exists
              /\ now < p.next.expiry + SKEW
              /\ DelegationNullifier(p) \notin usedDelegationNullifiers
              /\ usedDelegationNullifiers' = usedDelegationNullifiers \cup {DelegationNullifier(p)}
              /\ lastScopeCommitment' = [lastScopeCommitment EXCEPT ![nonce] = p.next]
              /\ accepted' = [accepted EXCEPT ![nonce] =
                     Append(@, [at |-> now, to |-> p.next, proofs |-> <<p>>])]
              /\ delegationHopCount' = [delegationHopCount EXCEPT ![nonce] = @ + 1]
              /\ UNCHANGED <<trees, usedNonces, now>>
<1>1. PICK previous \in Commitments : ExtendsChain(previous, nonce) /\ \E p \in Delegations(previous) :
        /\ BoundTo(p, nonce)
        /\ Fresh(p.time)
        /\ KnownRoot(agentTree, p.root)
        /\ DelegationNullifier(p) \notin usedDelegationNullifiers
        /\ DelegationProof(p)
        /\ usedDelegationNullifiers' = usedDelegationNullifiers \cup {DelegationNullifier(p)}
        /\ lastScopeCommitment' = [lastScopeCommitment EXCEPT ![nonce] = p.next]
        /\ accepted' = [accepted EXCEPT ![nonce] =
               Append(@, [at |-> now, to |-> p.next, proofs |-> <<p>>])]
  BY DEF VerifyDelegation
<1>2. PICK p \in Delegations(previous) :
        /\ BoundTo(p, nonce)
        /\ Fresh(p.time)
        /\ KnownRoot(agentTree, p.root)
        /\ DelegationNullifier(p) \notin usedDelegationNullifiers
        /\ DelegationProof(p)
        /\ usedDelegationNullifiers' = usedDelegationNullifiers \cup {DelegationNullifier(p)}
        /\ lastScopeCommitment' = [lastScopeCommitment EXCEPT ![nonce] = p.next]
        /\ accepted' = [accepted EXCEPT ![nonce] =
               Append(@, [at |-> now, to |-> p.next, proofs |-> <<p>>])]
  BY <1>1
<1>3. previous = lastScopeCommitment[nonce] /\ previous \in Grants
  BY <1>1 DEF ExtendsChain
<1>4. Elements(roots.agent) \subseteq Roots
  BY ElementsIn DEF TreesInv
<1>5. Times \subseteq Nat
  BY RegistryAssumption DEF Times
<1>6. p \in Hops /\ p.previous = previous
  BY <1>3, <1>4, <1>5 DEF Delegations, Hops, Grants
<1>7. IsHop(p) /\ p.nonce = nonce
  BY <1>2, <1>6 DEF IsHop, BoundTo, Hops
<1>8. /\ p.next.scope \subseteq previous.scope
      /\ p.next.expiry <= previous.expiry
      /\ p.time < p.next.expiry
      /\ p.next.cred \in LeavesOf(p.root)
  BY <1>2, <1>6 DEF DelegationProof
<1>9. now < p.next.expiry + SKEW
  <2>1. p.time + SKEW >= now
    BY <1>2 DEF Fresh
  <2>2. p.time \in Nat /\ p.next.expiry \in Nat /\ SKEW \in Nat /\ now \in Nat
    BY <1>5, <1>6, RegistryAssumption DEF SessionTypes, Hops, Grants
  <2>. QED
    BY <1>8, <2>1, <2>2
<1>10. /\ nonce \in usedNonces
       /\ delegationHopCount[nonce] + 1 <= MAX_DELEGATION_HOPS
       /\ delegationHopCount' = [delegationHopCount EXCEPT ![nonce] = @ + 1]
       /\ UNCHANGED <<trees, usedNonces, now>>
  BY DEF VerifyDelegation, HopLeft
<1>11. p.root \in agentTree.exists
  BY <1>2 DEF KnownRoot
<1>. QED
  BY <1>2, <1>3, <1>6, <1>7, <1>8, <1>9, <1>10, <1>11

\* A chain of one handshake.
LEMMA ChainOpens ==
    ASSUME NEW nonce \in Nonces, NEW nullifiers, NEW e \in Entries,
           NEW human \in Handshakes, NEW agent \in Handshakes,
           e.proofs = <<human, agent>>,
           human.nonce = nonce, ~IsHop(human), agent.nonce = nonce, ~IsHop(agent)
    PROVE  ProofsSpent(<<e>>, nonce, nullifiers) /\ SpentOnce(<<e>>) /\ Narrows(<<e>>)
<1>1. DOMAIN <<e>> = {1} /\ <<e>>[1] = e
  OBVIOUS
<1>2. Elements(e.proofs) = {human, agent}
  BY ElementsOfTwo
<1>3. ProofsSpent(<<e>>, nonce, nullifiers)
  BY <1>1, <1>2 DEF ProofsSpent
<1>4. SpentOnce(<<e>>)
  BY <1>1 DEF SpentOnce
<1>5. Narrows(<<e>>)
  BY <1>1 DEF Narrows
<1>. QED
  BY <1>3, <1>4, <1>5

\* A chain extended by one delegation.
LEMMA ChainExtends ==
    ASSUME NEW nonce \in Nonces, NEW nullifiers, NEW chain \in Seq(Entries), chain # <<>>,
           ProofsSpent(chain, nonce, nullifiers), SpentOnce(chain), Narrows(chain),
           NEW e \in Entries, NEW p, e.proofs = <<p>>, p.nonce = nonce, IsHop(p),
           DelegationNullifier(p) \notin nullifiers,
           e.to.scope \subseteq chain[Len(chain)].to.scope,
           e.to.expiry <= chain[Len(chain)].to.expiry,
           NEW more, more = nullifiers \cup {DelegationNullifier(p)}
    PROVE  /\ ProofsSpent(Append(chain, e), nonce, more)
           /\ SpentOnce(Append(chain, e))
           /\ Narrows(Append(chain, e))
<1>. PICK n : n = Len(chain)
  OBVIOUS
<1>. PICK longer : longer = Append(chain, e)
  OBVIOUS
<1>1. /\ n \in Nat \ {0} /\ DOMAIN chain = 1 .. n /\ DOMAIN longer = 1 .. n + 1
      /\ longer[n + 1] = e /\ \A i \in 1 .. n : longer[i] = chain[i]
  OBVIOUS
<1>2. \A i \in 1 .. n + 1 : i = n + 1 \/ i \in 1 .. n
  BY <1>1
<1>3. n + 1 # 1 /\ n + 1 \notin 1 .. n /\ Elements(e.proofs) = {p}
  BY <1>1, ElementsOfOne
<1>4. ProofsSpent(longer, nonce, more)
  <2>. SUFFICES ASSUME NEW i \in 1 .. n + 1, NEW q \in Elements(longer[i].proofs)
                PROVE  /\ q.nonce = nonce
                       /\ IF i = 1 THEN ~IsHop(q)
                                   ELSE IsHop(q) /\ DelegationNullifier(q) \in more
    BY <1>1 DEF ProofsSpent
  <2>1. CASE i = n + 1
    BY <1>1, <1>3, <2>1, SMTT(60)
  <2>2. CASE i \in 1 .. n
    BY <1>1, <2>2 DEF ProofsSpent
  <2>. QED
    BY <1>2, <2>1, <2>2
<1>5. SpentOnce(longer)
  <2>1. \A i \in 1 .. n : i # 1 => \A q \in Elements(chain[i].proofs) : DelegationNullifier(q) \in nullifiers
    BY <1>1 DEF ProofsSpent
  <2>. SUFFICES ASSUME NEW i \in 1 .. n + 1, NEW j \in 1 .. n + 1, i # 1, j # 1,
                       NEW q \in Elements(longer[i].proofs), NEW r \in Elements(longer[j].proofs),
                       DelegationNullifier(q) = DelegationNullifier(r)
                PROVE  i = j
    BY <1>1 DEF SpentOnce
  <2>2. CASE i = n + 1 /\ j = n + 1
    BY <2>2
  <2>3. CASE i = n + 1 /\ j \in 1 .. n
    BY <1>1, <1>3, <2>1, <2>3
  <2>4. CASE i \in 1 .. n /\ j = n + 1
    BY <1>1, <1>3, <2>1, <2>4
  <2>5. CASE i \in 1 .. n /\ j \in 1 .. n
    BY <1>1, <2>5 DEF SpentOnce
  <2>. QED
    BY <1>2, <2>2, <2>3, <2>4, <2>5
<1>6. Narrows(longer)
  <2>1. chain[n] \in Entries /\ \A i \in 1 .. n : chain[i] \in Entries
    BY <1>1
  <2>2. \A i \in 1 .. n : chain[i].to.expiry \in Nat
    BY <2>1 DEF Entries, Grants
  <2>3. e.to.expiry \in Nat
    BY DEF Entries, Grants
  <2>4. \A i \in 1 .. n : /\ chain[n].to.scope \subseteq chain[i].to.scope
                          /\ chain[n].to.expiry <= chain[i].to.expiry
    <3>. SUFFICES ASSUME NEW i \in 1 .. n
                  PROVE  /\ chain[n].to.scope \subseteq chain[i].to.scope
                         /\ chain[n].to.expiry <= chain[i].to.expiry
      OBVIOUS
    <3>1. CASE i = n
      BY <1>1, <2>2, <3>1
    <3>2. CASE i # n
      <4>1. i \in 1 .. n - 1 /\ n \in 1 .. n
        BY <1>1, <3>2
      <4>. QED
        BY <1>1, <4>1 DEF Narrows
    <3>. QED
      BY <3>1, <3>2
  <2>. SUFFICES ASSUME NEW j \in 1 .. n + 1, NEW i \in 1 .. j - 1
                PROVE  /\ longer[j].to.scope \subseteq longer[i].to.scope
                       /\ longer[j].to.expiry <= longer[i].to.expiry
    BY <1>1 DEF Narrows
  <2>5. i \in 1 .. n
    BY <1>1
  <2>6. CASE j = n + 1
    BY <1>1, <2>2, <2>3, <2>4, <2>5, <2>6
  <2>7. CASE j \in 1 .. n
    BY <1>1, <2>5, <2>7 DEF Narrows
  <2>. QED
    BY <1>2, <2>6, <2>7
<1>. QED
  BY <1>4, <1>5, <1>6

LEMMA SessionsInvInit == Init => SessionsInv
<1>. SUFFICES ASSUME Init PROVE SessionsInv
  OBVIOUS
<1>1. SessionTypes
  BY DEF Init, SessionTypes
<1>2. SessionStateConsistent
  BY DEF Init, SessionStateConsistent
<1>3. \A n \in Nonces : accepted[n] = <<>>
  BY DEF Init
<1>4. \A n : ProofsSpent(<<>>, n, usedDelegationNullifiers) /\ SpentOnce(<<>>) /\ Narrows(<<>>)
  BY DEF ProofsSpent, SpentOnce, Narrows
<1>. QED
  BY <1>1, <1>2, <1>3, <1>4 DEF SessionsInv

LEMMA SessionsInvStep == TreesInv /\ SessionsInv /\ [Next]_vars => SessionsInv'
<1>. SUFFICES ASSUME TreesInv, SessionsInv, [Next]_vars
              PROVE  SessionsInv'
  OBVIOUS
<1>0. /\ SessionTypes /\ SessionStateConsistent
      /\ \A n \in Nonces : /\ ProofsSpent(accepted[n], n, usedDelegationNullifiers)
                           /\ SpentOnce(accepted[n]) /\ Narrows(accepted[n])
  BY DEF SessionsInv
<1>1. ASSUME UNCHANGED sessions, now' \in Nat PROVE SessionsInv'
  <2>1. SessionTypes' /\ SessionStateConsistent'
    BY <1>0, <1>1 DEF sessions, SessionTypes, SessionStateConsistent
  <2>. QED
    BY <1>0, <1>1, <2>1 DEF sessions, SessionsInv
<1>2. ASSUME NEW nonce \in Nonces, VerifyHandshake(nonce) PROVE SessionsInv'
  <2>1. PICK human \in Handshakes, agent \in Handshakes :
          /\ nonce \notin usedNonces
          /\ human.nonce = nonce /\ ~IsHop(human)
          /\ agent.nonce = nonce /\ ~IsHop(agent)
          /\ Holds(agent.agent) \in Grants
          /\ lastScopeCommitment' = [lastScopeCommitment EXCEPT ![nonce] = Holds(agent.agent)]
          /\ accepted' = [accepted EXCEPT ![nonce] = Append(@,
                 [at |-> now, to |-> Holds(agent.agent), proofs |-> <<human, agent>>])]
          /\ usedNonces' = usedNonces \cup {nonce}
          /\ UNCHANGED <<trees, usedDelegationNullifiers, delegationHopCount, now>>
    BY <1>0, <1>2, HandshakeOpens
  <2>. PICK e : e = [at |-> now, to |-> Holds(agent.agent), proofs |-> <<human, agent>>]
    OBVIOUS
  <2>2. e \in Entries /\ e.proofs = <<human, agent>> /\ e.to = Holds(agent.agent)
    BY <1>0, <2>1 DEF SessionTypes, Entries
  <2>3. accepted[nonce] = <<>> /\ delegationHopCount[nonce] = 0
    BY <1>0, <2>1 DEF SessionStateConsistent
  <2>4. accepted' = [accepted EXCEPT ![nonce] = <<e>>]
    BY <1>0, <2>1, <2>2, <2>3 DEF SessionTypes
  <2>5. /\ accepted' \in [Nonces -> Seq(Entries)] /\ accepted'[nonce] = <<e>>
        /\ \A n \in Nonces \ {nonce} : accepted'[n] = accepted[n]
    <3>1. accepted \in [Nonces -> Seq(Entries)] /\ <<e>> \in Seq(Entries)
      BY <1>0, <2>2 DEF SessionTypes
    <3>. QED
      BY <2>4, <3>1
  <2>6. SessionTypes'
    BY <1>0, <2>1, <2>5 DEF SessionTypes
  <2>7. SessionStateConsistent'
    <3>. SUFFICES ASSUME NEW n \in Nonces
                  PROVE  (IF n \in usedNonces
                          THEN /\ Len(accepted[n]) - 1 \in 0 .. MAX_DELEGATION_HOPS
                               /\ delegationHopCount[n] = Len(accepted[n]) - 1
                               /\ lastScopeCommitment[n] = accepted[n][(Len(accepted[n]) - 1) + 1].to
                          ELSE accepted[n] = <<>> /\ delegationHopCount[n] = 0)'
      BY DEF SessionStateConsistent
    <3>1. CASE n = nonce
      <4>1. /\ n \in usedNonces' /\ accepted'[n] = <<e>> /\ delegationHopCount'[n] = 0
            /\ lastScopeCommitment'[n] = e.to
        BY <1>0, <2>1, <2>2, <2>3, <2>5, <3>1 DEF SessionTypes
      <4>2. Len(<<e>>) - 1 = 0 /\ <<e>>[0 + 1] = e
        OBVIOUS
      <4>. QED
        BY <4>1, <4>2, RegistryAssumption
    <3>2. CASE n # nonce
      <4>1. /\ n \in usedNonces' <=> n \in usedNonces
            /\ accepted'[n] = accepted[n] /\ delegationHopCount'[n] = delegationHopCount[n]
            /\ lastScopeCommitment'[n] = lastScopeCommitment[n]
        BY <1>0, <2>1, <2>5, <3>2 DEF SessionTypes
      <4>. QED
        BY <1>0, <4>1 DEF SessionStateConsistent
    <3>. QED
      BY <3>1, <3>2
  <2>8. ASSUME NEW n \in Nonces
        PROVE  /\ ProofsSpent(accepted'[n], n, usedDelegationNullifiers')
               /\ SpentOnce(accepted'[n]) /\ Narrows(accepted'[n])
    <3>1. CASE n = nonce
      <4>1. /\ ProofsSpent(<<e>>, nonce, usedDelegationNullifiers)
            /\ SpentOnce(<<e>>) /\ Narrows(<<e>>)
        BY <2>1, <2>2, ChainOpens
      <4>. QED
        BY <2>1, <2>5, <3>1, <4>1
    <3>2. CASE n # nonce
      BY <1>0, <2>1, <2>5, <3>2
    <3>. QED
      BY <3>1, <3>2
  <2>. QED
    BY <2>6, <2>7, <2>8 DEF SessionsInv
<1>3. ASSUME NEW nonce \in Nonces, VerifyDelegation(nonce) PROVE SessionsInv'
  <2>. PICK chain : chain = accepted[nonce]
    OBVIOUS
  <2>0. nonce \in usedNonces
    BY <1>3 DEF VerifyDelegation
  <2>1. /\ chain \in Seq(Entries) /\ Len(chain) - 1 \in 0 .. MAX_DELEGATION_HOPS
        /\ delegationHopCount[nonce] = Len(chain) - 1
        /\ lastScopeCommitment[nonce] = chain[Len(chain) - 1 + 1].to
    BY <1>0, <2>0 DEF SessionTypes, SessionStateConsistent
  <2>2. /\ Len(chain) \in 1 .. Len(chain) /\ chain # <<>> /\ chain[Len(chain)] \in Entries
        /\ lastScopeCommitment[nonce] = chain[Len(chain)].to
    BY <2>1, RegistryAssumption
  <2>3. lastScopeCommitment[nonce] \in Grants
    BY <2>2 DEF Entries
  <2>4. PICK p \in Hops :
          /\ delegationHopCount[nonce] + 1 <= MAX_DELEGATION_HOPS
          /\ p.nonce = nonce /\ IsHop(p)
          /\ p.next.scope \subseteq lastScopeCommitment[nonce].scope
          /\ p.next.expiry <= lastScopeCommitment[nonce].expiry
          /\ DelegationNullifier(p) \notin usedDelegationNullifiers
          /\ usedDelegationNullifiers' = usedDelegationNullifiers \cup {DelegationNullifier(p)}
          /\ lastScopeCommitment' = [lastScopeCommitment EXCEPT ![nonce] = p.next]
          /\ accepted' = [accepted EXCEPT ![nonce] =
                 Append(@, [at |-> now, to |-> p.next, proofs |-> <<p>>])]
          /\ delegationHopCount' = [delegationHopCount EXCEPT ![nonce] = @ + 1]
          /\ UNCHANGED <<trees, usedNonces, now>>
    BY <1>0, <1>3, <2>3, DelegationExtends
  <2>. PICK e : e = [at |-> now, to |-> p.next, proofs |-> <<p>>]
    OBVIOUS
  <2>5. e \in Entries /\ e.proofs = <<p>> /\ e.to = p.next /\ p.next \in Grants
    BY <1>0 DEF SessionTypes, Entries, Hops
  <2>6. /\ accepted' \in [Nonces -> Seq(Entries)] /\ accepted'[nonce] = Append(chain, e)
        /\ \A n \in Nonces \ {nonce} : accepted'[n] = accepted[n]
    BY <1>0, <2>1, <2>4, <2>5 DEF SessionTypes
  <2>7. SessionTypes'
    BY <1>0, <2>4, <2>5, <2>6 DEF SessionTypes
  <2>8. SessionStateConsistent'
    <3>. SUFFICES ASSUME NEW n \in Nonces
                  PROVE  (IF n \in usedNonces
                          THEN /\ Len(accepted[n]) - 1 \in 0 .. MAX_DELEGATION_HOPS
                               /\ delegationHopCount[n] = Len(accepted[n]) - 1
                               /\ lastScopeCommitment[n] = accepted[n][(Len(accepted[n]) - 1) + 1].to
                          ELSE accepted[n] = <<>> /\ delegationHopCount[n] = 0)'
      BY DEF SessionStateConsistent
    <3>1. CASE n = nonce
      <4>1. /\ n \in usedNonces' /\ accepted'[n] = Append(chain, e)
            /\ delegationHopCount'[n] = delegationHopCount[n] + 1
            /\ lastScopeCommitment'[n] = e.to
        BY <1>0, <2>0, <2>4, <2>5, <2>6, <3>1 DEF SessionTypes
      <4>2. /\ Len(Append(chain, e)) - 1 = (Len(chain) - 1) + 1
            /\ Append(chain, e)[(Len(Append(chain, e)) - 1) + 1] = e
        BY <2>1, <2>5
      <4>3. Len(Append(chain, e)) - 1 \in 0 .. MAX_DELEGATION_HOPS
        BY <2>1, <2>4, <4>2, RegistryAssumption
      <4>. QED
        BY <2>1, <3>1, <4>1, <4>2, <4>3
    <3>2. CASE n # nonce
      <4>1. /\ n \in usedNonces' <=> n \in usedNonces
            /\ accepted'[n] = accepted[n] /\ delegationHopCount'[n] = delegationHopCount[n]
            /\ lastScopeCommitment'[n] = lastScopeCommitment[n]
        BY <1>0, <2>4, <2>6, <3>2 DEF SessionTypes
      <4>. QED
        BY <1>0, <4>1 DEF SessionStateConsistent
    <3>. QED
      BY <3>1, <3>2
  <2>9. ASSUME NEW n \in Nonces
        PROVE  /\ ProofsSpent(accepted'[n], n, usedDelegationNullifiers')
               /\ SpentOnce(accepted'[n]) /\ Narrows(accepted'[n])
    <3>1. CASE n = nonce
      <4>1. /\ ProofsSpent(chain, nonce, usedDelegationNullifiers) /\ SpentOnce(chain) /\ Narrows(chain)
        BY <1>0
      <4>2. /\ e.to.scope \subseteq chain[Len(chain)].to.scope
            /\ e.to.expiry <= chain[Len(chain)].to.expiry
        BY <2>2, <2>4, <2>5
      <4>3. /\ ProofsSpent(Append(chain, e), nonce, usedDelegationNullifiers')
            /\ SpentOnce(Append(chain, e)) /\ Narrows(Append(chain, e))
        BY <2>1, <2>2, <2>4, <2>5, <4>1, <4>2, ChainExtends
      <4>. QED
        BY <2>6, <3>1, <4>3
    <3>2. CASE n # nonce
      <4>1. ProofsSpent(accepted[n], n, usedDelegationNullifiers')
        BY <1>0, <2>4 DEF ProofsSpent
      <4>. QED
        BY <1>0, <2>6, <3>2, <4>1
    <3>. QED
      BY <3>1, <3>2
  <2>. QED
    BY <2>7, <2>8, <2>9 DEF SessionsInv
<1>4. now \in Nat
  BY <1>0 DEF SessionTypes
<1>5. ASSUME \/ \E h \in Humans : EnrollHuman(h) \/ \E g \in Humans : EnrollHumanBatch(h, g)
             \/ \E a \in Agents : \/ EnrollAgent(a) \/ RevokeAgent(a)
                                  \/ \E b \in Agents : EnrollAgentBatch(a, b)
             \/ \E h \in Humans, scope \in Scopes : RevokeHuman(HumanNullifier(h, scope))
      PROVE  UNCHANGED sessions /\ now' \in Nat
  BY <1>4, <1>5 DEF EnrollHuman, EnrollHumanBatch, EnrollAgent, EnrollAgentBatch, RevokeAgent,
                    EnrolHumans, EnrolAgents, RevokeHuman
<1>6. ASSUME Tick \/ UNCHANGED vars PROVE UNCHANGED sessions /\ now' \in Nat
  BY <1>4, <1>6 DEF Tick, vars
<1>. QED
  BY <1>1, <1>2, <1>3, <1>5, <1>6 DEF Next

RegistryInv == TreesInv /\ SessionsInv

LEMMA RegistryInvHolds == Spec => []RegistryInv
BY TreesInvInit, TreesInvStep, SessionsInvInit, SessionsInvStep, PTL DEF Spec, RegistryInv

\* ChainsKept: a session's nonce, hop count and stored commitment are those of the
\* handshake and the delegations accepted in it, and along them permissions and
\* lifetimes only narrow, whatever other sessions do (verifyHandshake, verifyDelegation).
THEOREM ChainsAreKept == Spec => []ChainsKept
<1>1. RegistryInv => ChainsKept
  BY DEF RegistryInv, SessionsInv, ChainsKept, ChainNarrows, Narrows
<1>. QED
  BY <1>1, RegistryInvHolds, PTL

\* NoProofReplayed: the nonce of a session is used once and is part of every proof,
\* and a delegation's nullifier is spent once, so no proof is accepted a second time.
THEOREM ProofsAcceptedOnce == Spec => []NoProofReplayed
<1>1. ASSUME RegistryInv PROVE NoProofReplayed
  <2>. SUFFICES ASSUME NEW n \in Nonces, NEW m \in Nonces,
                       NEW i \in DOMAIN accepted[n], NEW j \in DOMAIN accepted[m],
                       NEW p \in Elements(accepted[n][i].proofs),
                       p \in Elements(accepted[m][j].proofs)
                PROVE  n = m /\ i = j
    BY DEF NoProofReplayed
  <2>1. /\ \A k \in Nonces : ProofsSpent(accepted[k], k, usedDelegationNullifiers)
        /\ SpentOnce(accepted[n])
    BY <1>1 DEF RegistryInv, SessionsInv
  <2>2. n = m
    BY <2>1 DEF ProofsSpent
  <2>3. i = 1 <=> j = 1
    BY <2>1 DEF ProofsSpent
  <2>4. i # 1 /\ j # 1 => i = j
    BY <2>1, <2>2 DEF SpentOnce
  <2>. QED
    BY <2>2, <2>3, <2>4
<1>. QED
  BY <1>1, RegistryInvHolds, PTL

\* AcceptedInForce: a handshake or a hop is accepted only for a credential that is a
\* leaf of one of the last ROOT_HISTORY_SIZE agent roots, and before it has been
\* expired for SKEW: the zero root, which no eviction clears, admits nobody.
THEOREM OnlyInForceAccepted == Spec => AcceptedInForce
<1>1. ASSUME TreesInv, NEW cred \in Agents, NEW root \in agentTree.exists, cred \in LeavesOf(root)
      PROVE  root \in LastRoots(roots.agent)
  <2>1. root # Zero
    BY <1>1, RegistryAssumption DEF LeavesOf, Leaves
  <2>2. agentTree.exists \ {Zero} = LastRoots(roots.agent) \ {Zero}
    BY <1>1 DEF TreesInv, RingInv
  <2>. QED
    BY <2>1, <2>2
<1>. DEFINE InForce(n) ==
       Len(accepted'[n]) > Len(accepted[n]) =>
          /\ \E root \in LastRoots(roots.agent) :
                accepted'[n][Len(accepted'[n])].to.cred \in LeavesOf(root)
          /\ accepted'[n][Len(accepted'[n])].at < accepted'[n][Len(accepted'[n])].to.expiry + SKEW
<1>2. ASSUME RegistryInv, NEW nonce \in Nonces, NEW e,
             accepted' = [accepted EXCEPT ![nonce] = Append(@, e)],
             e \in Entries, e.to.cred \in Agents,
             \E root \in agentTree.exists : e.to.cred \in LeavesOf(root),
             e.at < e.to.expiry + SKEW
      PROVE  \A n \in Nonces : InForce(n)
  <2>1. accepted \in [Nonces -> Seq(Entries)]
    BY <1>2 DEF RegistryInv, SessionsInv, SessionTypes
  <2>2. ASSUME NEW n \in Nonces \ {nonce} PROVE InForce(n)
    <3>1. accepted'[n] = accepted[n] /\ Len(accepted[n]) \in Nat
      BY <1>2, <2>1
    <3>. QED
      BY <3>1
  <2>3. accepted'[nonce][Len(accepted'[nonce])] = e
    BY <1>2, <2>1
  <2>4. \E root \in LastRoots(roots.agent) : e.to.cred \in LeavesOf(root)
    BY <1>1, <1>2 DEF RegistryInv
  <2>5. InForce(nonce)
    BY <1>2, <2>3, <2>4
  <2>. QED
    BY <2>2, <2>5
<1>3. ASSUME RegistryInv, UNCHANGED accepted PROVE \A n \in Nonces : InForce(n)
  <2>1. \A n \in Nonces : Len(accepted[n]) \in Nat
    BY <1>3 DEF RegistryInv, SessionsInv, SessionTypes
  <2>. QED
    BY <1>3, <2>1
<1>4. ASSUME RegistryInv, NEW nonce \in Nonces, VerifyHandshake(nonce)
      PROVE  \A n \in Nonces : InForce(n)
  <2>1. PICK human \in Handshakes, agent \in Handshakes :
          /\ agent.agent \in Agents
          /\ agent.agent \in LeavesOf(agent.root)
          /\ agent.root \in agentTree.exists
          /\ now < Holds(agent.agent).expiry + SKEW
          /\ Holds(agent.agent) \in Grants
          /\ accepted' = [accepted EXCEPT ![nonce] = Append(@,
                 [at |-> now, to |-> Holds(agent.agent), proofs |-> <<human, agent>>])]
    BY <1>4, HandshakeOpens, ZenonT(60) DEF RegistryInv, SessionsInv
  <2>. PICK e : e = [at |-> now, to |-> Holds(agent.agent), proofs |-> <<human, agent>>]
    OBVIOUS
  <2>2. e \in Entries /\ e.at = now /\ e.to = Holds(agent.agent)
    BY <1>4, <2>1 DEF RegistryInv, SessionsInv, SessionTypes, Entries
  <2>3. e.to.cred = agent.agent
    BY <2>2 DEF Holds
  <2>. QED
    BY <1>2, <1>4, <2>1, <2>2, <2>3
<1>5. ASSUME RegistryInv, NEW nonce \in Nonces, VerifyDelegation(nonce)
      PROVE  \A n \in Nonces : InForce(n)
  <2>1. nonce \in usedNonces /\ SessionTypes /\ SessionStateConsistent /\ TreesInv
    BY <1>5 DEF VerifyDelegation, RegistryInv, SessionsInv
  <2>2. /\ Len(accepted[nonce]) - 1 \in Nat /\ accepted[nonce] \in Seq(Entries)
        /\ lastScopeCommitment[nonce] = accepted[nonce][Len(accepted[nonce]) - 1 + 1].to
    BY <2>1, RegistryAssumption DEF SessionTypes, SessionStateConsistent
  <2>3. accepted[nonce][Len(accepted[nonce]) - 1 + 1] \in Entries
    BY <2>2
  <2>4. lastScopeCommitment[nonce] \in Grants
    BY <2>2, <2>3 DEF Entries
  <2>5. PICK p \in Hops :
          /\ p.next.cred \in LeavesOf(p.root)
          /\ p.root \in agentTree.exists
          /\ now < p.next.expiry + SKEW
          /\ accepted' = [accepted EXCEPT ![nonce] =
                 Append(@, [at |-> now, to |-> p.next, proofs |-> <<p>>])]
    BY <1>5, <2>1, <2>4, DelegationExtends
  <2>. PICK e : e = [at |-> now, to |-> p.next, proofs |-> <<p>>]
    OBVIOUS
  <2>6. e \in Entries /\ e.at = now /\ e.to = p.next /\ e.to.cred \in Agents
    BY <2>1 DEF SessionTypes, Entries, Hops, Grants
  <2>. QED
    BY <1>2, <1>5, <2>5, <2>6
<1>6. ASSUME \/ \E h \in Humans : EnrollHuman(h) \/ \E g \in Humans : EnrollHumanBatch(h, g)
             \/ \E a \in Agents : \/ EnrollAgent(a) \/ RevokeAgent(a)
                                  \/ \E b \in Agents : EnrollAgentBatch(a, b)
             \/ \E h \in Humans, scope \in Scopes : RevokeHuman(HumanNullifier(h, scope))
             \/ Tick \/ UNCHANGED vars
      PROVE  UNCHANGED accepted
  BY <1>6 DEF EnrollHuman, EnrollHumanBatch, EnrollAgent, EnrollAgentBatch, RevokeAgent,
              EnrolHumans, EnrolAgents, RevokeHuman, Tick, vars, sessions
<1>7. RegistryInv /\ [Next]_vars => \A n \in Nonces : InForce(n)
  BY <1>3, <1>4, <1>5, <1>6 DEF Next
<1>8. RegistryInv /\ [Next]_vars =>
        [\A n \in Nonces : Len(accepted'[n]) > Len(accepted[n]) =>
            LET last == accepted'[n][Len(accepted'[n])]
            IN  /\ \E root \in LastRoots(roots.agent) : last.to.cred \in LeavesOf(root)
                /\ last.at < last.to.expiry + SKEW]_vars
  BY <1>7
<1>. QED
  BY <1>8, RegistryInvHolds, PTL DEF Spec, AcceptedInForce

-----------------------------------------------------------------------------
(* The reference hosts.  What a host process and its verifier may be.      *)

IsHost(r) ==
    /\ r = [phase |-> r.phase, now |-> r.now, timedOut |-> r.timedOut, read |-> r.read,
            decision |-> r.decision]
    /\ r.phase \in {"new", "supervising", "reserving", "rewriting", "truncated", "acting", "done",
                    "crashed"}
    /\ r.now \in Nat
    /\ r.decision = "allow" => r.phase = "done"
IsVerifier(v) ==
    /\ v = [process |-> v.process, output |-> v.output, held |-> v.held]
    /\ v.process \in {None, "running", "exited", "failed", "signalled"}

\* What a host has made sure of when it goes on to the nonces.
Granted(h) ==
    /\ h \in Running /\ Verdict(h) = "allow" /\ scenario.reserve # "none"
    /\ verifiers[h].process = "exited" /\ ~hosts[h].timedOut
Won(h) == hosts[h].phase = "acting" \/ hosts[h].decision = "allow"
Beyond(h) == hosts[h].phase \in {"reserving", "rewriting", "truncated"} \/ Won(h)

HostInv(h) ==
    /\ IsHost(hosts[h]) /\ IsVerifier(verifiers[h])
    /\ hosts[h].phase = "supervising" => verifiers[h].process # None
    /\ hosts[h].phase \in {"reserving", "rewriting", "truncated"} => scenario.reserve = "file"
    /\ Beyond(h) => Granted(h)

ActedInv ==
    \A a \in acted :
        /\ a.by \in Hosts /\ hosts[a.by].decision = "allow"
        /\ a = [by |-> a.by, nonces |-> ConsumeNonces(a.by), asked |-> hosts[a.by].now]

\* While nothing disturbs the file, the nonces of whoever won are in it, or in what
\* the one host that is rewriting it has read; and no two winners share one.
FileInv ==
    /\ \A h, k \in Rewriting : h = k
    /\ \A h \in Hosts : hosts[h].phase = "rewriting" => hosts[h].read = store
    /\ \A h \in Hosts : Won(h) =>
          /\ (\A k \in Hosts : hosts[k].phase # "truncated") => ConsumeNonces(h) \subseteq store
          /\ \A k \in Hosts : hosts[k].phase = "truncated" => ConsumeNonces(h) \subseteq hosts[k].read
    /\ \A h, k \in Hosts : Won(h) /\ Won(k) /\ h # k => ConsumeNonces(h) \cap ConsumeNonces(k) = {}

HostsInv ==
    /\ scenario \in Scenarios /\ clock \in Nat
    /\ hosts = [h \in Hosts |-> hosts[h]] /\ verifiers = [h \in Hosts |-> verifiers[h]]
    /\ \A h \in Hosts : HostInv(h)
    /\ ActedInv
    /\ disturbed \/ FileInv

-----------------------------------------------------------------------------
(* One host moves.                                                         *)

\* What a step of host h, or of its verifier, leaves alone.
Others(h) ==
    /\ scenario' = scenario
    /\ hosts' = [k \in Hosts |-> hosts'[k]] /\ verifiers' = [k \in Hosts |-> verifiers'[k]]
    /\ \A k \in Hosts : k # h => hosts'[k] = hosts[k] /\ verifiers'[k] = verifiers[k]

LEMMA HostStays ==
    ASSUME scenario' = scenario, NEW k \in Hosts, hosts'[k] = hosts[k], verifiers'[k] = verifiers[k]
    PROVE  /\ HostInv(k) => HostInv(k)'
           /\ ConsumeNonces(k)' = ConsumeNonces(k) /\ Won(k)' = Won(k) /\ Verdict(k)' = Verdict(k)
<1>1. ConsumeNonces(k)' = ConsumeNonces(k) /\ Won(k)' = Won(k) /\ Verdict(k)' = Verdict(k)
  BY DEF ConsumeNonces, Won, Verdict, Presented, Asked
<1>2. Granted(k)' = Granted(k) /\ Beyond(k)' = Beyond(k)
  BY <1>1 DEF Granted, Beyond, Running
<1> QED BY <1>1, <1>2 DEF HostInv, IsHost, IsVerifier

\* Who keeps its instant asks for the same.
LEMMA SameQuestion ==
    ASSUME scenario' = scenario, NEW h, hosts'[h].now = hosts[h].now
    PROVE  ConsumeNonces(h)' = ConsumeNonces(h) /\ Verdict(h)' = Verdict(h) /\ (h \in Running)' = (h \in Running)
BY DEF ConsumeNonces, Verdict, Presented, Asked, Running

\* A step that lets the file alone: nobody begins to rewrite it, and who wins
\* spends nothing.
Harmless(h) ==
    /\ store' = store
    /\ hosts'[h].phase \in {"rewriting", "truncated"} =>
          hosts'[h].phase = hosts[h].phase /\ hosts'[h].read = hosts[h].read
    /\ hosts[h].phase = "truncated" => hosts'[h].phase = "truncated"
    /\ Won(h)' => (Won(h) /\ ConsumeNonces(h)' = ConsumeNonces(h)) \/ ConsumeNonces(h)' = {}

LEMMA HarmlessKeeps ==
    ASSUME NEW h \in Hosts, Others(h), Harmless(h), FileInv
    PROVE  FileInv'
<1>1. \A k \in Hosts : k # h =>
         ConsumeNonces(k)' = ConsumeNonces(k) /\ Won(k)' = Won(k) /\ hosts'[k] = hosts[k]
  BY HostStays DEF Others
<1>2. \A k \in Hosts :
         /\ hosts'[k].phase \in {"rewriting", "truncated"} =>
               hosts'[k].phase = hosts[k].phase /\ hosts'[k].read = hosts[k].read
         /\ hosts[k].phase = "truncated" => hosts'[k].phase = "truncated"
         /\ Won(k)' => (Won(k) /\ ConsumeNonces(k)' = ConsumeNonces(k)) \/ ConsumeNonces(k)' = {}
  BY <1>1 DEF Harmless
<1>3. store' = store
  BY DEF Harmless
<1>4. \A k \in Rewriting' : k \in Rewriting
  BY <1>2 DEF Rewriting
<1>5. \A k \in Hosts : hosts'[k].phase = "rewriting" => hosts'[k].read = store'
  BY <1>2, <1>3 DEF FileInv
<1>6. ASSUME NEW k \in Hosts, Won(k)'
      PROVE  /\ (\A l \in Hosts : hosts'[l].phase # "truncated") => ConsumeNonces(k)' \subseteq store'
             /\ \A l \in Hosts : hosts'[l].phase = "truncated" => ConsumeNonces(k)' \subseteq hosts'[l].read
  BY <1>2, <1>3, <1>6 DEF FileInv
<1>7. ASSUME NEW k \in Hosts, NEW l \in Hosts, Won(k)', Won(l)', k # l
      PROVE  ConsumeNonces(k)' \cap ConsumeNonces(l)' = {}
  BY <1>2, <1>7 DEF FileInv
<1> QED BY <1>4, <1>5, <1>6, <1>7 DEF FileInv

LEMMA HostMoves ==
    ASSUME HostsInv, NEW h \in Hosts, Others(h), HostInv(h)', clock' = clock,
           ActedInv' \/ (acted' = acted /\ (hosts[h].decision = "allow" => hosts'[h] = hosts[h])),
           (disturbed \/ FileInv)' \/ ((disturbed => disturbed') /\ Harmless(h))
    PROVE  HostsInv'
<1>1. \A k \in Hosts : HostInv(k)'
  <2> TAKE k \in Hosts
  <2>1. CASE k = h
    BY <2>1
  <2>2. CASE k # h
    BY <2>2, HostStays DEF HostsInv, Others
  <2> QED BY <2>1, <2>2
<1>2. ActedInv'
  <2>0. SUFFICES ASSUME acted' = acted, hosts[h].decision = "allow" => hosts'[h] = hosts[h]
                 PROVE  ActedInv'
    OBVIOUS
  <2>1. ASSUME NEW a \in acted'
        PROVE  /\ a.by \in Hosts /\ hosts'[a.by].decision = "allow"
               /\ a = [by |-> a.by, nonces |-> ConsumeNonces(a.by)', asked |-> hosts'[a.by].now]
    <3>1. PICK k : k = a.by
      OBVIOUS
    <3>2. /\ k \in Hosts /\ hosts[k].decision = "allow"
          /\ a = [by |-> k, nonces |-> ConsumeNonces(k), asked |-> hosts[k].now]
      BY <2>0, <2>1, <3>1 DEF HostsInv, ActedInv
    <3>3. hosts'[k] = hosts[k] /\ scenario' = scenario
      BY <2>0, <3>2 DEF Others
    <3>4. ConsumeNonces(k)' = ConsumeNonces(k)
      BY <3>2, <3>3, SameQuestion
    <3> QED BY <3>1, <3>2, <3>3, <3>4
  <2> QED BY <2>1 DEF ActedInv
<1>3. (disturbed \/ FileInv)'
  BY HarmlessKeeps DEF HostsInv
<1>4. /\ scenario' \in Scenarios /\ clock' \in Nat
      /\ hosts' = [k \in Hosts |-> hosts'[k]] /\ verifiers' = [k \in Hosts |-> verifiers'[k]]
  BY DEF HostsInv, Others
<1> QED BY <1>1, <1>2, <1>3, <1>4 DEF HostsInv

\* One host is replaced, or its verifier, or both.
LEMMA Replaced ==
    ASSUME HostsInv, NEW h \in Hosts, NEW r, NEW v, scenario' = scenario,
           hosts' = [hosts EXCEPT ![h] = r], verifiers' = [verifiers EXCEPT ![h] = v]
    PROVE  Others(h) /\ hosts'[h] = r /\ verifiers'[h] = v
<1>1. hosts = [k \in Hosts |-> hosts[k]] /\ verifiers = [k \in Hosts |-> verifiers[k]]
  BY DEF HostsInv
<1> QED BY <1>1 DEF Others

LEMMA SameVerifiers ==
    ASSUME HostsInv, NEW h \in Hosts, verifiers' = verifiers
    PROVE  verifiers' = [verifiers EXCEPT ![h] = verifiers[h]]
<1>1. verifiers = [k \in Hosts |-> verifiers[k]]
  BY DEF HostsInv
<1> QED BY <1>1

LEMMA SameHosts ==
    ASSUME HostsInv, NEW h \in Hosts, hosts' = hosts
    PROVE  hosts' = [hosts EXCEPT ![h] = hosts[h]]
<1>1. hosts = [k \in Hosts |-> hosts[k]]
  BY DEF HostsInv
<1> QED BY <1>1

LEMMA RunningAreHosts == ASSUME HostsInv PROVE Running \subseteq Hosts
BY HostAssumption DEF HostsInv, Running

\* A host that ends with another decision than to act.
LEMMA Refused ==
    ASSUME HostsInv, NEW h \in Hosts, NEW code, code # "allow",
           hosts[h].phase \notin {"done", "truncated"},
           hosts' = End(h, code),
           UNCHANGED <<scenario, clock, verifiers, store, acted, disturbed>>
    PROVE  HostsInv'
<1>1. PICK r : r = hosts[h]
  OBVIOUS
<1>2. IsHost(r) /\ IsVerifier(verifiers[h])
  BY <1>1 DEF HostsInv, HostInv
<1>3. PICK n : n = [phase |-> "done", now |-> r.now, timedOut |-> r.timedOut, read |-> r.read,
                    decision |-> code]
  OBVIOUS
<1>4. hosts' = [hosts EXCEPT ![h] = n]
  <2>1. hosts = [k \in Hosts |-> hosts[k]]
    BY DEF HostsInv
  <2>2. hosts'[h] = [[r EXCEPT !.phase = "done"] EXCEPT !.decision = code]
    BY <1>1, <2>1 DEF End
  <2>3. hosts'[h] = n
    BY <1>2, <1>3, <2>2 DEF IsHost
  <2>4. hosts' = [k \in Hosts |-> IF k = h THEN hosts'[h] ELSE hosts[k]]
    BY <2>1 DEF End
  <2> QED BY <2>1, <2>3, <2>4
<1>5. Others(h) /\ hosts'[h] = n /\ verifiers'[h] = verifiers[h]
  BY <1>4, SameVerifiers, Replaced
<1>6. HostInv(h)'
  BY <1>2, <1>3, <1>5 DEF HostInv, IsHost, IsVerifier, Beyond, Won
<1>7. Harmless(h)
  BY <1>1, <1>3, <1>5 DEF Harmless, Won
<1>8. hosts[h].decision # "allow"
  BY <1>1, <1>2 DEF IsHost
<1> QED BY <1>5, <1>6, <1>7, <1>8, HostMoves

-----------------------------------------------------------------------------
(* The verifier and its supervision.                                       *)

\* A verifier that is not done, or its host's timer, may do what it likes.
LEMMA SupervisionKeeps ==
    ASSUME HostsInv, NEW h \in Hosts, NEW r, NEW v,
           hosts' = [hosts EXCEPT ![h] = r], verifiers' = [verifiers EXCEPT ![h] = v],
           UNCHANGED <<scenario, clock, store, acted, disturbed>>,
           IsHost(r), r.phase = hosts[h].phase, r.now = hosts[h].now, r.read = hosts[h].read,
           r.decision = hosts[h].decision, IsVerifier(v),
           verifiers[h].process # None => v.process # None,
           hosts[h].phase = "supervising" \/ (r = hosts[h] /\ v.process = verifiers[h].process)
             \/ (r = hosts[h] /\ verifiers[h].process = "running")
    PROVE  HostsInv'
<1>1. Others(h) /\ hosts'[h] = r /\ verifiers'[h] = v
  BY Replaced, ZenonT(60)
<1>2. HostInv(h)
  BY DEF HostsInv
<1>3. ConsumeNonces(h)' = ConsumeNonces(h) /\ Verdict(h)' = Verdict(h) /\ (h \in Running)' = (h \in Running)
  BY <1>1, SameQuestion
<1>4. Won(h)' = Won(h) /\ Beyond(h)' = Beyond(h)
  BY <1>1 DEF Won, Beyond
<1>5. Beyond(h) => Granted(h)'
  <2>1. SUFFICES ASSUME Beyond(h) PROVE Granted(h)'
    OBVIOUS
  <2>2. Granted(h) /\ hosts[h].phase # "supervising"
    BY <1>2, <2>1 DEF HostInv, Beyond, Won, IsHost
  <2>3. verifiers[h].process = "exited" /\ r = hosts[h] /\ v.process = verifiers[h].process
    BY <2>2 DEF Granted
  <2> QED BY <1>1, <1>3, <2>2, <2>3 DEF Granted
<1>6. HostInv(h)'
  BY <1>1, <1>2, <1>4, <1>5 DEF HostInv, IsHost, IsVerifier
<1>7. Harmless(h)
  BY <1>1, <1>3, <1>4 DEF Harmless
<1>8. hosts[h].decision = "allow" => hosts'[h] = hosts[h]
  BY <1>1, <1>2 DEF HostInv, IsHost
<1> QED BY <1>1, <1>6, <1>7, <1>8, HostMoves

LEMMA VerifierKeeps ==
    ASSUME HostsInv, NEW h \in Running, Emit(h) \/ Exit(h) \/ Release(h)
    PROVE  HostsInv'
<1>1. PICK r, v : r = hosts[h] /\ v = verifiers[h]
  OBVIOUS
<1>2. h \in Hosts /\ IsHost(r) /\ IsVerifier(v)
  BY <1>1, RunningAreHosts DEF HostsInv, HostInv
<1>3. hosts' = [hosts EXCEPT ![h] = r]
  BY <1>1, <1>2, SameHosts DEF Emit, Exit, Release
<1>4. UNCHANGED <<scenario, clock, store, acted, disturbed>>
  BY DEF Emit, Exit, Release
<1>5. CASE Emit(h)
  <2>1. PICK out : verifiers' = [verifiers EXCEPT ![h].output = out]
    BY <1>5 DEF Emit
  <2>2. PICK w : w = [v EXCEPT !.output = out]
    OBVIOUS
  <2>3. verifiers' = [verifiers EXCEPT ![h] = w]
    BY <1>1, <2>1, <2>2
  <2>4. IsVerifier(w) /\ w.process = v.process
    BY <1>2, <2>2 DEF IsVerifier
  <2> QED BY <1>1, <1>2, <1>3, <1>4, <2>3, <2>4, SupervisionKeeps
<1>6. CASE Exit(h)
  <2>1. PICK end \in {"exited", "failed", "signalled"} :
           verifiers' = [verifiers EXCEPT ![h].process = end]
    BY <1>6, Zenon DEF Exit, ExitAfter
  <2>2. PICK w : w = [v EXCEPT !.process = end]
    OBVIOUS
  <2>3. verifiers' = [verifiers EXCEPT ![h] = w]
    BY <1>1, <2>1, <2>2
  <2>4. IsVerifier(w) /\ w.process # None /\ v.process = "running"
    BY <1>1, <1>2, <1>6, <2>2, HostAssumption DEF IsVerifier, Exit, Alive
  <2> QED BY <1>1, <1>2, <1>3, <1>4, <2>3, <2>4, SupervisionKeeps
<1>7. CASE Release(h)
  <2>1. PICK w : w = [v EXCEPT !.held = FALSE]
    OBVIOUS
  <2>2. verifiers' = [verifiers EXCEPT ![h] = w]
    BY <1>1, <1>7, <2>1 DEF Release
  <2>3. IsVerifier(w) /\ w.process = v.process
    BY <1>2, <2>1 DEF IsVerifier
  <2> QED BY <1>1, <1>2, <1>3, <1>4, <2>2, <2>3, SupervisionKeeps
<1> QED BY <1>5, <1>6, <1>7

LEMMA KilledVerifier ==
    ASSUME NEW v, IsVerifier(v), v.process # None
    PROVE  IsVerifier(Killed(v)) /\ Killed(v).process # None
<1>1. PICK process : process = IF v.process = "running" THEN "signalled" ELSE v.process
  OBVIOUS
<1>2. PICK held : held = (v.held /\ scenario.language = "js")
  OBVIOUS
<1>3. PICK w : w = [process |-> process, output |-> v.output, held |-> held]
  OBVIOUS
<1>4. Killed(v) = w
  <2>1. PICK u : u = [v EXCEPT !.process = process]
    OBVIOUS
  <2>2. Killed(v) = [u EXCEPT !.held = held]
    BY <1>1, <1>2, <2>1 DEF Killed
  <2>3. u = [process |-> process, output |-> v.output, held |-> v.held]
    BY <2>1 DEF IsVerifier
  <2> QED BY <1>3, <2>2, <2>3
<1> QED BY <1>1, <1>3, <1>4, HostAssumption DEF IsVerifier

LEMMA SupervisorKeeps ==
    ASSUME HostsInv, NEW h \in Running, Overflow(h) \/ Timeout(h)
    PROVE  HostsInv'
<1>1. PICK r, v : r = hosts[h] /\ v = verifiers[h]
  OBVIOUS
<1>2. /\ h \in Hosts /\ IsHost(r) /\ IsVerifier(v) /\ r.phase = "supervising" /\ v.process # None
  BY <1>1, RunningAreHosts DEF HostsInv, HostInv, Overflow, Timeout, Supervised
<1>3. PICK w : w = Killed(v)
  OBVIOUS
<1>4. verifiers' = [verifiers EXCEPT ![h] = w]
  BY <1>1, <1>3 DEF Overflow, Timeout
<1>5. IsVerifier(w) /\ w.process # None
  BY <1>2, <1>3, KilledVerifier
<1>6. UNCHANGED <<scenario, clock, store, acted, disturbed>>
  BY DEF Overflow, Timeout
<1>7. CASE Overflow(h)
  <2>1. hosts' = [hosts EXCEPT ![h] = r]
    BY <1>1, <1>2, <1>7, SameHosts DEF Overflow
  <2> QED BY <1>1, <1>2, <1>4, <1>5, <1>6, <2>1, SupervisionKeeps
<1>8. CASE Timeout(h)
  <2>1. PICK n : n = [r EXCEPT !.timedOut = TRUE]
    OBVIOUS
  <2>2. hosts' = [hosts EXCEPT ![h] = n]
    BY <1>1, <1>8, <2>1 DEF Timeout
  <2>3. /\ IsHost(n) /\ n.phase = r.phase /\ n.now = r.now /\ n.read = r.read
        /\ n.decision = r.decision
    BY <1>2, <2>1 DEF IsHost
  <2> QED BY <1>1, <1>2, <1>4, <1>5, <1>6, <2>2, <2>3, SupervisionKeeps
<1> QED BY <1>7, <1>8

LEMMA SpawnKeeps ==
    ASSUME HostsInv, NEW h \in Running, Spawn(h)
    PROVE  HostsInv'
<1>1. PICK r, v : r = hosts[h] /\ v = verifiers[h]
  OBVIOUS
<1>2. h \in Hosts /\ IsHost(r) /\ IsVerifier(v) /\ r.phase = "new" /\ r.decision # "allow" /\ clock \in Nat
  BY <1>1, RunningAreHosts DEF HostsInv, HostInv, Spawn, IsHost
<1>3. CASE hosts' = End(h, "spawn_error") /\ UNCHANGED verifiers
  BY <1>1, <1>2, <1>3, Refused DEF Spawn
<1>4. CASE /\ \E held \in IF h \in scenario.faulty THEN BOOLEAN ELSE {FALSE} :
                   verifiers' = [verifiers EXCEPT ![h].process = "running", ![h].held = held]
           /\ hosts' = [hosts EXCEPT ![h].phase = "supervising", ![h].now = clock]
  <2>1. PICK held : verifiers' = [verifiers EXCEPT ![h].process = "running", ![h].held = held]
    BY <1>4
  <2>2. PICK w : w = [process |-> "running", output |-> v.output, held |-> held]
    OBVIOUS
  <2>3. PICK n : n = [phase |-> "supervising", now |-> clock, timedOut |-> r.timedOut,
                      read |-> r.read, decision |-> r.decision]
    OBVIOUS
  <2>4. hosts = [k \in Hosts |-> hosts[k]] /\ verifiers = [k \in Hosts |-> verifiers[k]]
    BY DEF HostsInv
  <2>5. hosts' = [hosts EXCEPT ![h] = n]
    <3>1. hosts'[h] = [[r EXCEPT !.phase = "supervising"] EXCEPT !.now = clock]
      BY <1>1, <1>2, <1>4, <2>4
    <3>2. hosts'[h] = n
      BY <1>2, <2>3, <3>1 DEF IsHost
    <3>3. hosts' = [k \in Hosts |-> IF k = h THEN hosts'[h] ELSE hosts[k]]
      BY <1>2, <1>4, <2>4
    <3> QED BY <2>4, <3>2, <3>3
  <2>6. verifiers' = [verifiers EXCEPT ![h] = w]
    <3>1. verifiers'[h] = [[v EXCEPT !.process = "running"] EXCEPT !.held = held]
      BY <1>1, <1>2, <2>1, <2>4
    <3>2. verifiers'[h] = w
      BY <1>2, <2>2, <3>1 DEF IsVerifier
    <3>3. verifiers' = [k \in Hosts |-> IF k = h THEN verifiers'[h] ELSE verifiers[k]]
      BY <1>2, <2>1, <2>4
    <3> QED BY <2>4, <3>2, <3>3
  <2>7. UNCHANGED <<scenario, clock, store, acted, disturbed>>
    BY DEF Spawn
  <2>8. Others(h) /\ hosts'[h] = n /\ verifiers'[h] = w
    BY <1>2, <2>5, <2>6, <2>7, Replaced
  <2>9. HostInv(h)'
    BY <1>2, <2>2, <2>3, <2>8, HostAssumption DEF HostInv, IsHost, IsVerifier, Beyond, Won
  <2>10. Harmless(h)
    BY <1>1, <1>2, <2>3, <2>7, <2>8 DEF Harmless, Won
  <2> QED BY <1>1, <1>2, <2>7, <2>8, <2>9, <2>10, HostMoves
<1> QED BY <1>3, <1>4 DEF Spawn

-----------------------------------------------------------------------------
(* From the verdict to the action.                                         *)

\* A host that decides to go on has seen an allow of a verifier that exited.
LEMMA AllowIsGranted ==
    ASSUME NEW h, Refusal(h) = "allow", IsVerifier(verifiers[h]),
           verifiers[h].process # None, ~Alive(h)
    PROVE  Verdict(h) = "allow" /\ verifiers[h].process = "exited" /\ ~hosts[h].timedOut
<1>0. PICK v : v = verifiers[h]
  OBVIOUS
<1> DEFINE checks == <<<<v.output # "flood", "oversize_stdout">>,
                       <<~hosts[h].timedOut, "timeout">>,
                       <<v.process # "signalled", "signal_death">>,
                       <<v.process # "failed", "nonzero_exit">>,
                       <<v.output \notin {"nothing", "garbage"}, "unparseable_stdout">>,
                       <<v.output # "two", "multiple_objects">>,
                       <<v.output # "invalid", "schema_invalid">>,
                       <<Verdict(h) = "allow", Verdict(h)>>>>
<1>1. Refusal(h) = FirstRefusal(checks, "allow")
  BY <1>0 DEF Refusal
<1>2. DOMAIN checks = 1 .. 8
  OBVIOUS
<1>3. /\ checks[2][1] = (~hosts[h].timedOut) /\ checks[3][1] = (v.process # "signalled")
      /\ checks[4][1] = (v.process # "failed") /\ checks[8][1] = (Verdict(h) = "allow")
      /\ checks[8][2] = Verdict(h)
      /\ \A i \in 1 .. 7 : checks[i][2] # "allow"
  OBVIOUS
<1> HIDE DEF checks
<1>4. \A i \in DOMAIN checks : ~checks[i][1] => checks[i][2] # "allow"
  <2>1. ~checks[8][1] => checks[8][2] # "allow"
    BY <1>3
  <2>2. \A i \in 1 .. 8 : i \in 1 .. 7 \/ i = 8
    OBVIOUS
  <2> QED BY <1>2, <1>3, <2>1, <2>2
<1>5. \A i \in DOMAIN checks : checks[i][1]
  BY <1>1, <1>2, <1>4, FirstRefusalFirst
<1>6. checks[2][1] /\ checks[3][1] /\ checks[4][1] /\ checks[8][1]
  BY <1>2, <1>5
<1> QED BY <1>0, <1>3, <1>6 DEF Alive, IsVerifier

\* The host goes on to the phase given.
LEMMA NextPhase ==
    ASSUME HostsInv, NEW h \in Hosts, NEW phase, hosts' = [hosts EXCEPT ![h].phase = phase]
    PROVE  \E n : /\ hosts' = [hosts EXCEPT ![h] = n]
                  /\ n = [phase |-> phase, now |-> hosts[h].now, timedOut |-> hosts[h].timedOut,
                          read |-> hosts[h].read, decision |-> hosts[h].decision]
<1>1. PICK r : r = hosts[h]
  OBVIOUS
<1>2. PICK n : n = [r EXCEPT !.phase = phase]
  OBVIOUS
<1>3. hosts' = [hosts EXCEPT ![h] = n]
  BY <1>1, <1>2
<1>4. IsHost(r)
  BY <1>1 DEF HostsInv, HostInv
<1>5. n = [phase |-> phase, now |-> r.now, timedOut |-> r.timedOut, read |-> r.read,
           decision |-> r.decision]
  BY <1>2, <1>4 DEF IsHost
<1> QED BY <1>1, <1>3, <1>5

LEMMA DecideKeeps ==
    ASSUME HostsInv, NEW h \in Running, Decide(h)
    PROVE  HostsInv'
<1>1. PICK r, v : r = hosts[h] /\ v = verifiers[h]
  OBVIOUS
<1>2. /\ h \in Hosts /\ IsHost(r) /\ IsVerifier(v) /\ r.phase = "supervising" /\ v.process # None
      /\ r.decision # "allow" /\ ~Alive(h) /\ scenario \in Scenarios
  BY <1>1, RunningAreHosts DEF HostsInv, HostInv, Decide, Closed, Supervised, IsHost
<1>3. UNCHANGED <<scenario, clock, verifiers, store, acted, disturbed>>
  BY DEF Decide
<1>4. CASE Refusal(h) # "allow"
  <2>1. hosts' = End(h, Refusal(h))
    BY <1>4 DEF Decide
  <2> QED BY <1>1, <1>2, <1>3, <1>4, <2>1, Refused
<1>5. CASE Refusal(h) = "allow" /\ scenario.reserve = "none"
  <2>1. hosts' = End(h, "replay")
    BY <1>5 DEF Decide
  <2> QED BY <1>1, <1>2, <1>3, <2>1, Refused
<1>6. CASE Refusal(h) = "allow" /\ scenario.reserve # "none"
  <2>1. PICK phase : phase = IF scenario.reserve = "file" THEN "reserving" ELSE "acting"
    OBVIOUS
  <2>2. hosts' = [hosts EXCEPT ![h].phase = phase]
    BY <1>6, <2>1 DEF Decide
  <2>3. PICK n : /\ hosts' = [hosts EXCEPT ![h] = n]
                 /\ n = [phase |-> phase, now |-> r.now, timedOut |-> r.timedOut,
                         read |-> r.read, decision |-> r.decision]
    BY <1>1, <1>2, <2>2, NextPhase
  <2>4. Others(h) /\ hosts'[h] = n /\ verifiers'[h] = v
    <3>1. scenario' = scenario /\ verifiers' = verifiers
      BY <1>3
    <3>2. hosts' = [hosts EXCEPT ![h] = n]
      BY <2>3
    <3>3. verifiers' = [verifiers EXCEPT ![h] = v]
      BY <1>1, <1>2, <3>1, SameVerifiers
    <3> QED BY <1>2, <3>1, <3>2, <3>3, Replaced
  <2>5. Verdict(h) = "allow" /\ v.process = "exited" /\ ~r.timedOut
    BY <1>1, <1>2, <1>6, AllowIsGranted
  <2>6. /\ ConsumeNonces(h)' = ConsumeNonces(h) /\ Verdict(h)' = Verdict(h)
        /\ (h \in Running)' = (h \in Running)
    BY <1>1, <1>3, <2>3, <2>4, SameQuestion
  <2>7. Granted(h)'
    BY <1>3, <1>6, <2>3, <2>4, <2>5, <2>6 DEF Granted
  <2>8. HostInv(h)'
    BY <1>2, <1>3, <2>1, <2>3, <2>4, <2>7 DEF HostInv, IsHost, IsVerifier
  <2>9. phase = "acting" => ConsumeNonces(h) = {}
    BY <1>2, <1>6, <2>1, HostAssumption DEF ConsumeNonces
  <2>10. Harmless(h)
    BY <1>1, <1>2, <1>3, <2>1, <2>3, <2>4, <2>6, <2>9 DEF Harmless, Won
  <2> QED BY <1>1, <1>2, <1>3, <2>4, <2>8, <2>10, HostMoves
<1> QED BY <1>4, <1>5, <1>6

LEMMA ReadStoreKeeps ==
    ASSUME HostsInv, NEW h \in Running, ReadStore(h)
    PROVE  HostsInv'
<1>1. PICK r : r = hosts[h]
  OBVIOUS
<1>2. /\ h \in Hosts /\ IsHost(r) /\ r.phase = "reserving" /\ r.decision # "allow" /\ HostInv(h)
  BY <1>1, RunningAreHosts DEF HostsInv, HostInv, ReadStore, IsHost
<1>3. scenario' = scenario /\ clock' = clock /\ verifiers' = verifiers /\ store' = store /\ acted' = acted
  BY DEF ReadStore
<1>3a. PICK seen : /\ hosts' = [hosts EXCEPT ![h].phase = "rewriting", ![h].read = seen]
                   /\ disturbed' = (disturbed \/ Rewriting # {} \/ seen # store)
  BY DEF ReadStore
<1>4. PICK n : n = [phase |-> "rewriting", now |-> r.now, timedOut |-> r.timedOut, read |-> seen,
                    decision |-> r.decision]
  OBVIOUS
<1>5. hosts' = [hosts EXCEPT ![h] = n]
  <2>1. hosts = [k \in Hosts |-> hosts[k]]
    BY DEF HostsInv
  <2>2. hosts'[h] = [[r EXCEPT !.phase = "rewriting"] EXCEPT !.read = seen]
    BY <1>1, <1>2, <1>3a, <2>1
  <2>3. hosts'[h] = n
    BY <1>2, <1>4, <2>2 DEF IsHost
  <2>4. hosts' = [k \in Hosts |-> IF k = h THEN hosts'[h] ELSE hosts[k]]
    BY <1>2, <1>3a, <2>1
  <2> QED BY <2>1, <2>3, <2>4
<1>6. Others(h) /\ hosts'[h] = n /\ verifiers'[h] = verifiers[h]
  BY <1>2, <1>3, <1>5, SameVerifiers, Replaced
<1>7. /\ ConsumeNonces(h)' = ConsumeNonces(h) /\ Verdict(h)' = Verdict(h)
      /\ (h \in Running)' = (h \in Running)
  BY <1>1, <1>3, <1>4, <1>6, SameQuestion
<1>8. HostInv(h)'
  <2>1. Granted(h)
    BY <1>1, <1>2 DEF HostInv, Beyond
  <2>2. Granted(h)'
    BY <1>1, <1>3, <1>4, <1>6, <1>7, <2>1 DEF Granted
  <2> QED BY <1>1, <1>2, <1>3, <1>4, <1>6, <2>2 DEF HostInv, IsHost, IsVerifier
<1>9. (disturbed \/ FileInv)'
  <2>1. CASE disturbed \/ Rewriting # {} \/ seen # store
    BY <1>3a, <2>1
  <2>2. CASE ~disturbed /\ Rewriting = {} /\ seen = store
    <3>1. FileInv
      BY <2>2 DEF HostsInv
    <3>2. \A k \in Hosts : hosts[k].phase \notin {"rewriting", "truncated"}
      BY <2>2 DEF Rewriting
    <3>3. \A k \in Hosts : k # h =>
             ConsumeNonces(k)' = ConsumeNonces(k) /\ Won(k)' = Won(k) /\ hosts'[k] = hosts[k]
      BY <1>6, HostStays DEF Others
    <3>4. ~Won(h)'
      BY <1>2, <1>4, <1>6 DEF Won
    <3>5. \A k, l \in Rewriting' : k = l
      BY <1>4, <1>6, <3>2, <3>3 DEF Rewriting
    <3>6. \A k \in Hosts : hosts'[k].phase = "rewriting" => hosts'[k].read = store'
      BY <1>3, <1>4, <1>6, <2>2, <3>2, <3>3
    <3>7. \A k \in Hosts : hosts'[k].phase # "truncated"
      BY <1>4, <1>6, <3>2, <3>3
    <3>8. \A k \in Hosts : Won(k)' => ConsumeNonces(k)' \subseteq store'
      BY <1>3, <3>1, <3>2, <3>3, <3>4 DEF FileInv
    <3>9. \A k, l \in Hosts : Won(k)' /\ Won(l)' /\ k # l => ConsumeNonces(k)' \cap ConsumeNonces(l)' = {}
      BY <3>1, <3>3, <3>4 DEF FileInv
    <3> QED BY <3>5, <3>6, <3>7, <3>8, <3>9 DEF FileInv
  <2> QED BY <2>1, <2>2
<1> QED BY <1>1, <1>2, <1>3, <1>6, <1>8, <1>9, HostMoves

LEMMA TruncateKeeps ==
    ASSUME HostsInv, NEW h \in Running, Truncate(h)
    PROVE  HostsInv'
<1>1. PICK r : r = hosts[h]
  OBVIOUS
<1>2. /\ h \in Hosts /\ IsHost(r) /\ r.phase = "rewriting" /\ r.decision # "allow" /\ HostInv(h)
  BY <1>1, RunningAreHosts DEF HostsInv, HostInv, Truncate, IsHost
<1>3. /\ scenario' = scenario /\ clock' = clock /\ verifiers' = verifiers /\ acted' = acted
      /\ disturbed' = disturbed
  BY DEF Truncate
<1>4. CASE Novel(h) = {}
  <2>1. hosts' = End(h, "replay") /\ store' = store
    BY <1>4 DEF Truncate
  <2> QED BY <1>1, <1>2, <1>3, <2>1, Refused
<1>5. CASE Novel(h) # {}
  <2>1. hosts' = [hosts EXCEPT ![h].phase = "truncated"] /\ store' = {}
    BY <1>5 DEF Truncate
  <2>2. PICK n : /\ hosts' = [hosts EXCEPT ![h] = n]
                 /\ n = [phase |-> "truncated", now |-> r.now, timedOut |-> r.timedOut,
                         read |-> r.read, decision |-> r.decision]
    BY <1>1, <1>2, <2>1, NextPhase
  <2>3. Others(h) /\ hosts'[h] = n /\ verifiers'[h] = verifiers[h]
    <3>1. verifiers' = [verifiers EXCEPT ![h] = verifiers[h]]
      BY <1>2, <1>3, SameVerifiers
    <3>2. hosts' = [hosts EXCEPT ![h] = n]
      BY <2>2
    <3> QED BY <1>2, <1>3, <3>1, <3>2, Replaced
  <2>4. /\ ConsumeNonces(h)' = ConsumeNonces(h) /\ Verdict(h)' = Verdict(h)
        /\ (h \in Running)' = (h \in Running)
    BY <1>1, <1>3, <2>2, <2>3, SameQuestion
  <2>5. HostInv(h)'
    <3>1. Granted(h)
      BY <1>1, <1>2 DEF HostInv, Beyond
    <3>2. Granted(h)'
      BY <1>1, <1>3, <2>2, <2>3, <2>4, <3>1 DEF Granted
    <3> QED BY <1>1, <1>2, <1>3, <2>2, <2>3, <3>2 DEF HostInv, IsHost, IsVerifier
  <2>6. ASSUME FileInv PROVE FileInv'
    <3>1. \A k \in Hosts : k # h => hosts[k].phase \notin {"rewriting", "truncated"}
      BY <1>1, <1>2, <2>6 DEF FileInv, Rewriting
    <3>2. r.read = store
      BY <1>1, <1>2, <2>6 DEF FileInv
    <3>3. \A k \in Hosts : k # h =>
             ConsumeNonces(k)' = ConsumeNonces(k) /\ Won(k)' = Won(k) /\ hosts'[k] = hosts[k]
      BY <2>3, HostStays DEF Others
    <3>4. ~Won(h)'
      BY <1>2, <2>2, <2>3 DEF Won
    <3>5. \A k, l \in Rewriting' : k = l
      BY <3>1, <3>3 DEF Rewriting
    <3>6. \A k \in Hosts : hosts'[k].phase # "rewriting"
      BY <2>2, <2>3, <3>1, <3>3
    <3>7. \A k \in Hosts : hosts'[k].phase = "truncated" => hosts'[k].read = store
      BY <2>2, <2>3, <3>1, <3>2, <3>3
    <3>8. \A k \in Hosts : Won(k)' => ConsumeNonces(k)' \subseteq store
      <4>1. \A k \in Hosts : hosts[k].phase # "truncated"
        BY <1>1, <1>2, <3>1
      <4> QED BY <2>6, <3>3, <3>4, <4>1 DEF FileInv
    <3>9. hosts'[h].phase = "truncated"
      BY <2>2, <2>3
    <3>10. \A k, l \in Hosts : Won(k)' /\ Won(l)' /\ k # l => ConsumeNonces(k)' \cap ConsumeNonces(l)' = {}
      BY <2>6, <3>3, <3>4 DEF FileInv
    <3> QED BY <1>2, <3>5, <3>6, <3>7, <3>8, <3>9, <3>10 DEF FileInv
  <2>7. (disturbed \/ FileInv)'
    BY <1>3, <2>6 DEF HostsInv
  <2> QED BY <1>1, <1>2, <1>3, <2>3, <2>5, <2>7, HostMoves
<1> QED BY <1>4, <1>5

\* The nonces of the winner were in nothing that it has read.
LEMMA FillKeeps ==
    ASSUME HostsInv, NEW h \in Running, Fill(h)
    PROVE  HostsInv'
<1>1. PICK r : r = hosts[h]
  OBVIOUS
<1>2. /\ h \in Hosts /\ IsHost(r) /\ r.phase = "truncated" /\ r.decision # "allow" /\ HostInv(h)
  BY <1>1, RunningAreHosts DEF HostsInv, HostInv, Fill, IsHost
<1>3. /\ scenario' = scenario /\ clock' = clock /\ verifiers' = verifiers /\ acted' = acted
      /\ disturbed' = disturbed /\ store' = r.read \cup ConsumeNonces(h)
  BY <1>1 DEF Fill
<1>4. PICK n : /\ hosts' = [hosts EXCEPT ![h] = n] /\ IsHost(n) /\ n.now = r.now
               /\ n.timedOut = r.timedOut /\ n.phase \in {"acting", "done"} /\ n.decision # "allow"
               /\ n.phase = "acting" => ConsumeNonces(h) \cap r.read = {}
  <2>1. CASE ConsumeNonces(h) \cap r.read = {}
    <3>1. hosts' = [hosts EXCEPT ![h].phase = "acting"]
      BY <1>1, <2>1 DEF Fill
    <3>2. PICK n : /\ hosts' = [hosts EXCEPT ![h] = n]
                   /\ n = [phase |-> "acting", now |-> r.now, timedOut |-> r.timedOut,
                           read |-> r.read, decision |-> r.decision]
      BY <1>1, <1>2, <3>1, NextPhase
    <3>3. /\ IsHost(n) /\ n.now = r.now /\ n.timedOut = r.timedOut
          /\ n.phase = "acting" /\ n.decision # "allow"
      BY <1>2, <3>2 DEF IsHost
    <3>4. hosts' = [hosts EXCEPT ![h] = n]
      BY <3>2
    <3> QED BY <2>1, <3>3, <3>4
  <2>2. CASE ConsumeNonces(h) \cap r.read # {}
    <3>1. hosts' = End(h, "replay")
      BY <1>1, <2>2 DEF Fill
    <3>2. PICK n : n = [phase |-> "done", now |-> r.now, timedOut |-> r.timedOut,
                        read |-> r.read, decision |-> "replay"]
      OBVIOUS
    <3>3. hosts' = [hosts EXCEPT ![h] = n]
      <4>1. hosts = [k \in Hosts |-> hosts[k]]
        BY DEF HostsInv
      <4>2. hosts'[h] = [[r EXCEPT !.phase = "done"] EXCEPT !.decision = "replay"]
        BY <1>1, <1>2, <3>1, <4>1 DEF End
      <4>3. hosts'[h] = n
        BY <1>2, <3>2, <4>2 DEF IsHost
      <4>4. hosts' = [k \in Hosts |-> IF k = h THEN hosts'[h] ELSE hosts[k]]
        BY <1>2, <3>1, <4>1 DEF End
      <4> QED BY <4>1, <4>3, <4>4
    <3>4. /\ IsHost(n) /\ n.now = r.now /\ n.timedOut = r.timedOut
          /\ n.phase = "done" /\ n.decision # "allow"
      BY <1>2, <3>2 DEF IsHost
    <3> QED BY <3>3, <3>4
  <2> QED BY <2>1, <2>2
<1>5. Others(h) /\ hosts'[h] = n /\ verifiers'[h] = verifiers[h]
  <2>1. verifiers' = [verifiers EXCEPT ![h] = verifiers[h]]
    BY <1>2, <1>3, SameVerifiers
  <2>2. hosts' = [hosts EXCEPT ![h] = n]
    BY <1>4
  <2> QED BY <1>2, <1>3, <2>1, <2>2, Replaced
<1>6. /\ ConsumeNonces(h)' = ConsumeNonces(h) /\ Verdict(h)' = Verdict(h)
      /\ (h \in Running)' = (h \in Running)
  BY <1>1, <1>3, <1>4, <1>5, SameQuestion
<1>7. HostInv(h)'
  <2>1. Granted(h)
    BY <1>1, <1>2 DEF HostInv, Beyond
  <2>2. Granted(h)'
    BY <1>1, <1>3, <1>4, <1>5, <1>6, <2>1 DEF Granted
  <2> QED BY <1>1, <1>2, <1>3, <1>4, <1>5, <2>2 DEF HostInv, IsHost, IsVerifier
<1>8. ASSUME FileInv PROVE FileInv'
  <2>1. \A k \in Hosts : k # h => hosts[k].phase \notin {"rewriting", "truncated"}
    BY <1>1, <1>2, <1>8 DEF FileInv, Rewriting
  <2>2. \A k \in Hosts : k # h =>
           ConsumeNonces(k)' = ConsumeNonces(k) /\ Won(k)' = Won(k) /\ hosts'[k] = hosts[k]
    BY <1>5, HostStays DEF Others
  <2>3. \A k \in Hosts : Won(k) => ConsumeNonces(k) \subseteq r.read
    BY <1>1, <1>2, <1>8 DEF FileInv
  <2>4. \A k \in Hosts : hosts'[k].phase \notin {"rewriting", "truncated"}
    BY <1>4, <1>5, <2>1, <2>2
  <2>5. Won(h)' => n.phase = "acting"
    BY <1>4, <1>5 DEF Won
  <2>6. \A k \in Hosts : Won(k)' => ConsumeNonces(k)' \subseteq store'
    BY <1>3, <1>6, <2>2, <2>3
  <2>7. ASSUME NEW k \in Hosts, NEW l \in Hosts, Won(k)', Won(l)', k # l
        PROVE  ConsumeNonces(k)' \cap ConsumeNonces(l)' = {}
    <3>1. CASE k # h /\ l # h
      BY <1>8, <2>2, <2>7, <3>1 DEF FileInv
    <3>2. CASE k = h
      BY <1>4, <1>6, <2>2, <2>3, <2>5, <2>7, <3>2
    <3>3. CASE l = h
      BY <1>4, <1>6, <2>2, <2>3, <2>5, <2>7, <3>3
    <3> QED BY <3>1, <3>2, <3>3
  <2> QED BY <2>4, <2>6, <2>7 DEF FileInv, Rewriting
<1>9. (disturbed \/ FileInv)'
  BY <1>3, <1>8 DEF HostsInv
<1> QED BY <1>1, <1>2, <1>3, <1>5, <1>7, <1>9, HostMoves

LEMMA FailWriteKeeps ==
    ASSUME HostsInv, NEW h \in Running, FailWrite(h)
    PROVE  HostsInv'
<1>1. PICK r : r = hosts[h]
  OBVIOUS
<1>2. /\ h \in Hosts /\ IsHost(r) /\ r.phase \in {"rewriting", "truncated"} /\ r.decision # "allow"
      /\ IsVerifier(verifiers[h])
  BY <1>1, RunningAreHosts DEF HostsInv, HostInv, FailWrite, IsHost
<1>3. /\ scenario' = scenario /\ clock' = clock /\ verifiers' = verifiers /\ acted' = acted
  BY DEF FailWrite
<1>4. PICK n : /\ hosts' = [hosts EXCEPT ![h] = n] /\ IsHost(n)
               /\ n.phase \in {"crashed", "done"} /\ n.decision # "allow"
  <2>1. CASE hosts' = [hosts EXCEPT ![h].phase = "crashed"]
    <3>1. PICK n : /\ hosts' = [hosts EXCEPT ![h] = n]
                   /\ n = [phase |-> "crashed", now |-> r.now, timedOut |-> r.timedOut,
                           read |-> r.read, decision |-> r.decision]
      BY <1>1, <1>2, <2>1, NextPhase
    <3>2. IsHost(n) /\ n.phase = "crashed" /\ n.decision # "allow"
      BY <1>2, <3>1 DEF IsHost
    <3>3. hosts' = [hosts EXCEPT ![h] = n]
      BY <3>1
    <3> QED BY <3>2, <3>3
  <2>2. CASE hosts' = End(h, "replay")
    <3>1. PICK n : n = [phase |-> "done", now |-> r.now, timedOut |-> r.timedOut,
                        read |-> r.read, decision |-> "replay"]
      OBVIOUS
    <3>2. hosts' = [hosts EXCEPT ![h] = n]
      <4>1. hosts = [k \in Hosts |-> hosts[k]]
        BY DEF HostsInv
      <4>2. hosts'[h] = [[r EXCEPT !.phase = "done"] EXCEPT !.decision = "replay"]
        BY <1>1, <1>2, <2>2, <4>1 DEF End
      <4>3. hosts'[h] = n
        BY <1>2, <3>1, <4>2 DEF IsHost
      <4>4. hosts' = [k \in Hosts |-> IF k = h THEN hosts'[h] ELSE hosts[k]]
        BY <1>2, <2>2, <4>1 DEF End
      <4> QED BY <4>1, <4>3, <4>4
    <3>3. IsHost(n) /\ n.phase = "done" /\ n.decision # "allow"
      BY <1>2, <3>1 DEF IsHost
    <3> QED BY <3>2, <3>3
  <2> QED BY <2>1, <2>2 DEF FailWrite
<1>5. Others(h) /\ hosts'[h] = n /\ verifiers'[h] = verifiers[h]
  <2>1. verifiers' = [verifiers EXCEPT ![h] = verifiers[h]]
    BY <1>2, <1>3, SameVerifiers
  <2>2. hosts' = [hosts EXCEPT ![h] = n]
    BY <1>4
  <2> QED BY <1>2, <1>3, <2>1, <2>2, Replaced
<1>6. HostInv(h)'
  BY <1>2, <1>4, <1>5 DEF HostInv, IsHost, IsVerifier, Beyond, Won
<1>7. (disturbed \/ FileInv)' \/ ((disturbed => disturbed') /\ Harmless(h))
  <2>1. CASE r.phase = "truncated"
    BY <1>1, <2>1 DEF FailWrite
  <2>2. CASE r.phase = "rewriting"
    <3>1. store' = store /\ (disturbed => disturbed')
      BY <1>1, <2>2 DEF FailWrite
    <3>2. Harmless(h)
      BY <1>1, <1>4, <1>5, <2>2, <3>1 DEF Harmless, Won
    <3> QED BY <3>1, <3>2
  <2> QED BY <1>2, <2>1, <2>2
<1> QED BY <1>1, <1>2, <1>3, <1>5, <1>6, <1>7, HostMoves

LEMMA CrashKeeps ==
    ASSUME HostsInv, NEW h \in Running, Crash(h)
    PROVE  HostsInv'
<1>1. PICK r : r = hosts[h]
  OBVIOUS
<1>2. h \in Hosts /\ IsHost(r) /\ r.phase # "done" /\ r.decision # "allow" /\ IsVerifier(verifiers[h])
  BY <1>1, RunningAreHosts DEF HostsInv, HostInv, Crash, IsHost
<1>3. /\ scenario' = scenario /\ clock' = clock /\ verifiers' = verifiers /\ acted' = acted
      /\ store' = store /\ hosts' = [hosts EXCEPT ![h].phase = "crashed"]
  BY DEF Crash
<1>4. PICK n : /\ hosts' = [hosts EXCEPT ![h] = n]
               /\ n = [phase |-> "crashed", now |-> r.now, timedOut |-> r.timedOut,
                       read |-> r.read, decision |-> r.decision]
  BY <1>1, <1>2, <1>3, NextPhase
<1>5. Others(h) /\ hosts'[h] = n /\ verifiers'[h] = verifiers[h]
  <2>1. verifiers' = [verifiers EXCEPT ![h] = verifiers[h]]
    BY <1>2, <1>3, SameVerifiers
  <2>2. hosts' = [hosts EXCEPT ![h] = n]
    BY <1>4
  <2> QED BY <1>2, <1>3, <2>1, <2>2, Replaced
<1>6. IsHost(n) /\ n.phase = "crashed" /\ n.decision # "allow"
  BY <1>2, <1>4 DEF IsHost
<1>7. HostInv(h)'
  BY <1>2, <1>5, <1>6 DEF HostInv, IsHost, IsVerifier, Beyond, Won
<1>8. (disturbed \/ FileInv)' \/ ((disturbed => disturbed') /\ Harmless(h))
  <2>1. CASE r.phase = "truncated"
    BY <1>1, <2>1 DEF Crash
  <2>2. CASE r.phase # "truncated"
    <3>1. disturbed => disturbed'
      BY <1>1, <2>2 DEF Crash
    <3>2. Harmless(h)
      BY <1>1, <1>3, <1>5, <1>6, <2>2 DEF Harmless, Won
    <3> QED BY <3>1, <3>2
  <2> QED BY <2>1, <2>2
<1> QED BY <1>1, <1>2, <1>3, <1>5, <1>7, <1>8, HostMoves

LEMMA ActKeeps ==
    ASSUME HostsInv, NEW h \in Running, Act(h)
    PROVE  HostsInv'
<1>1. PICK r : r = hosts[h]
  OBVIOUS
<1>2. h \in Hosts /\ IsHost(r) /\ r.phase = "acting" /\ r.decision # "allow" /\ HostInv(h)
  BY <1>1, RunningAreHosts DEF HostsInv, HostInv, Act, IsHost
<1>3. /\ scenario' = scenario /\ clock' = clock /\ verifiers' = verifiers
      /\ store' = store /\ disturbed' = disturbed /\ hosts' = End(h, "allow")
      /\ acted' = acted \cup {[by |-> h, nonces |-> ConsumeNonces(h), asked |-> r.now]}
  BY <1>1 DEF Act
<1>4. PICK n : n = [phase |-> "done", now |-> r.now, timedOut |-> r.timedOut, read |-> r.read,
                    decision |-> "allow"]
  OBVIOUS
<1>5. hosts' = [hosts EXCEPT ![h] = n]
  <2>1. hosts = [k \in Hosts |-> hosts[k]]
    BY DEF HostsInv
  <2>2. hosts'[h] = [[r EXCEPT !.phase = "done"] EXCEPT !.decision = "allow"]
    BY <1>1, <1>2, <1>3, <2>1 DEF End
  <2>3. hosts'[h] = n
    BY <1>2, <1>4, <2>2 DEF IsHost
  <2>4. hosts' = [k \in Hosts |-> IF k = h THEN hosts'[h] ELSE hosts[k]]
    BY <1>2, <1>3, <2>1 DEF End
  <2> QED BY <2>1, <2>3, <2>4
<1>6. Others(h) /\ hosts'[h] = n /\ verifiers'[h] = verifiers[h]
  BY <1>2, <1>3, <1>5, SameVerifiers, Replaced
<1>7. /\ ConsumeNonces(h)' = ConsumeNonces(h) /\ Verdict(h)' = Verdict(h)
      /\ (h \in Running)' = (h \in Running)
  BY <1>1, <1>3, <1>4, <1>6, SameQuestion
<1>8. HostInv(h)'
  <2>1. Granted(h)
    BY <1>1, <1>2 DEF HostInv, Beyond, Won
  <2>2. Granted(h)'
    BY <1>1, <1>3, <1>4, <1>6, <1>7, <2>1 DEF Granted
  <2> QED BY <1>1, <1>2, <1>3, <1>4, <1>6, <2>2 DEF HostInv, IsHost, IsVerifier
<1>9. Harmless(h)
  BY <1>1, <1>2, <1>3, <1>4, <1>6, <1>7 DEF Harmless, Won
<1>10. ActedInv'
  <2>1. ASSUME NEW a \in acted'
        PROVE  /\ a.by \in Hosts /\ hosts'[a.by].decision = "allow"
               /\ a = [by |-> a.by, nonces |-> ConsumeNonces(a.by)', asked |-> hosts'[a.by].now]
    <3>1. CASE a \in acted
      <4>1. PICK k : k = a.by
        OBVIOUS
      <4>2. /\ k \in Hosts /\ hosts[k].decision = "allow"
            /\ a = [by |-> k, nonces |-> ConsumeNonces(k), asked |-> hosts[k].now]
        BY <3>1, <4>1 DEF HostsInv, ActedInv
      <4>3. k # h
        BY <1>1, <1>2, <4>2
      <4>4. hosts'[k] = hosts[k] /\ verifiers'[k] = verifiers[k]
        BY <1>6, <4>2, <4>3 DEF Others
      <4>5. ConsumeNonces(k)' = ConsumeNonces(k)
        BY <1>3, <4>2, <4>4, HostStays
      <4> QED BY <4>1, <4>2, <4>4, <4>5
    <3>2. CASE a = [by |-> h, nonces |-> ConsumeNonces(h), asked |-> r.now]
      <4>1. a.by = h
        BY <3>2
      <4> QED BY <1>2, <1>4, <1>6, <1>7, <3>2, <4>1
    <3> QED BY <1>3, <2>1, <3>1, <3>2
  <2> QED BY <2>1 DEF ActedInv
<1> QED BY <1>2, <1>3, <1>6, <1>8, <1>9, <1>10, HostMoves

LEMMA HostsInit == HInit => HostsInv
<1> SUFFICES ASSUME HInit PROVE HostsInv
  OBVIOUS
<1>1. \A h \in Hosts : hosts[h] = NewHost /\ verifiers[h] = NewVerifier
  BY DEF HInit
<1>2. ASSUME NEW h \in Hosts PROVE HostInv(h) /\ ~Won(h) /\ hosts[h].phase = "new"
  BY <1>1, HostAssumption
     DEF HostInv, IsHost, IsVerifier, Beyond, Won, NewHost, NewVerifier
<1>3. ActedInv
  BY DEF ActedInv, HInit
<1>4. FileInv
  BY <1>2 DEF FileInv, Rewriting
<1> QED BY <1>2, <1>3, <1>4 DEF HostsInv, HInit

LEMMA HostsStep == HostsInv /\ [HNext]_hvars => HostsInv'
<1> SUFFICES ASSUME HostsInv, [HNext]_hvars PROVE HostsInv'
  OBVIOUS
<1>1. ASSUME NEW h \in Running, HostStep(h) PROVE HostsInv'
  BY <1>1, SupervisorKeeps, DecideKeeps, ReadStoreKeeps, TruncateKeeps, FillKeeps, ActKeeps
     DEF HostStep
<1>2. ASSUME NEW h \in Running, VerifierStep(h) \/ Release(h) PROVE HostsInv'
  BY <1>2, VerifierKeeps DEF VerifierStep
<1>3. CASE scenario' = scenario /\ hosts' = hosts /\ verifiers' = verifiers /\ store' = store
           /\ acted' = acted /\ disturbed' = disturbed /\ clock' \in Nat
  <2>1. \A h \in Hosts : ConsumeNonces(h)' = ConsumeNonces(h) /\ Won(h)' = Won(h) /\ HostInv(h)'
    BY <1>3, HostStays DEF HostsInv
  <2>2. ActedInv'
    BY <1>3, <2>1 DEF HostsInv, ActedInv
  <2>3. FileInv => FileInv'
    BY <1>3, <2>1 DEF FileInv, Rewriting
  <2> QED BY <1>3, <2>1, <2>2, <2>3 DEF HostsInv
<1>4. CASE ClockTick
  BY <1>3, <1>4 DEF ClockTick, HostsInv
<1>5. CASE UNCHANGED hvars
  BY <1>3, <1>5 DEF hvars, HostsInv
<1>6. CASE HNext
  <2>1. CASE \E h \in Running : Spawn(h) \/ FailWrite(h) \/ Crash(h)
    BY <2>1, SpawnKeeps, FailWriteKeeps, CrashKeeps
  <2>2. CASE \E h \in Running : HostStep(h) \/ VerifierStep(h) \/ Release(h)
    BY <1>1, <1>2, <2>2
  <2> QED BY <1>4, <1>6, <2>1, <2>2 DEF HNext
<1> QED BY <1>5, <1>6

LEMMA HostsInvHolds == HSpec => []HostsInv
BY HostsInit, HostsStep, PTL DEF HSpec

\* A nonce buys one action, whoever took it and whatever the verifiers did, as long
\* as no reservation overlapped another one or ended between truncating the file and
\* writing it (reserveAll).
THEOREM OnceIsOnceForHosts == HSpec => []OnceUnlessDisturbed
<1>1. HostsInv => OnceUnlessDisturbed
  <2> SUFFICES ASSUME HostsInv, ~disturbed, NEW a \in acted, NEW b \in acted, a # b
               PROVE  a.nonces \cap b.nonces = {}
    BY DEF OnceUnlessDisturbed
  <2>1. PICK h, k : h = a.by /\ k = b.by
    OBVIOUS
  <2>2. /\ h \in Hosts /\ hosts[h].decision = "allow"
        /\ a = [by |-> h, nonces |-> ConsumeNonces(h), asked |-> hosts[h].now]
    BY <2>1 DEF HostsInv, ActedInv
  <2>3. /\ k \in Hosts /\ hosts[k].decision = "allow"
        /\ b = [by |-> k, nonces |-> ConsumeNonces(k), asked |-> hosts[k].now]
    BY <2>1 DEF HostsInv, ActedInv
  <2>4. h # k /\ Won(h) /\ Won(k) /\ FileInv
    BY <2>2, <2>3 DEF Won, HostsInv
  <2>5. ConsumeNonces(h) \cap ConsumeNonces(k) = {}
    BY <2>2, <2>3, <2>4 DEF FileInv
  <2>6. a.nonces = ConsumeNonces(h) /\ b.nonces = ConsumeNonces(k)
    BY <2>2, <2>3
  <2> QED BY <2>5, <2>6
<1> QED BY <1>1, HostsInvHolds, PTL

-----------------------------------------------------------------------------
(* The three ports.  Each part of a cascade answers what follows it, or one *)
(* of its own codes.                                                        *)

LEMMA UnflawedChecks ==
    ASSUME NEW p, NEW c, IsCascade(c)
    PROVE  IsCascade(Unflawed(p, c))
<1>1. /\ Len(c) \in Nat /\ DOMAIN c = 1 .. Len(c)
  BY CascadeDomain
<1>2. PICK u : u = Unflawed(p, c)
  OBVIOUS
<1> DEFINE U == {<<c[i][1] \notin p.flaws, c[i][2]>> : i \in DOMAIN c}
<1>3. u = [i \in 1 .. Len(c) |-> <<c[i][1] \notin p.flaws, c[i][2]>>]
  BY <1>1, <1>2 DEF Unflawed
<1>4. \A i \in 1 .. Len(c) : <<c[i][1] \notin p.flaws, c[i][2]>> \in U
  BY <1>1
<1> HIDE DEF U
<1>5. u \in Seq(U)
  BY <1>1, <1>3, <1>4
<1> QED BY <1>2, <1>5 DEF IsCascade

LEMMA UnflawedThen ==
    ASSUME NEW p, NEW c, NEW d, IsCascade(c), IsCascade(d), NEW granted
    PROVE  FirstRefusal(Unflawed(p, c \o d), granted) =
               FirstRefusal(Unflawed(p, c), FirstRefusal(Unflawed(p, d), granted))
<1>1. PICK S : c \in Seq(S)
  BY DEF IsCascade
<1>2. PICK T : d \in Seq(T)
  BY DEF IsCascade
<1>3. c \in Seq(S \cup T) /\ d \in Seq(S \cup T)
  BY <1>1, <1>2
<1>4. PICK e : e = c \o d
  OBVIOUS
<1>5. /\ e \in Seq(S \cup T) /\ Len(e) = Len(c) + Len(d)
      /\ \A i \in 1 .. Len(c) : e[i] = c[i]
      /\ \A i \in 1 .. Len(d) : e[Len(c) + i] = d[i]
  BY <1>3, <1>4, ConcatProperties
<1>6. IsCascade(e)
  BY <1>5 DEF IsCascade
<1>7. PICK uc, ud, ue : uc = Unflawed(p, c) /\ ud = Unflawed(p, d) /\ ue = Unflawed(p, e)
  OBVIOUS
<1>8. /\ Len(c) \in Nat /\ DOMAIN c = 1 .. Len(c) /\ Len(d) \in Nat /\ DOMAIN d = 1 .. Len(d)
      /\ DOMAIN e = 1 .. Len(c) + Len(d)
  BY <1>5, <1>6, CascadeDomain
<1>9. /\ uc = [i \in 1 .. Len(c) |-> <<c[i][1] \notin p.flaws, c[i][2]>>]
      /\ ud = [i \in 1 .. Len(d) |-> <<d[i][1] \notin p.flaws, d[i][2]>>]
      /\ ue = [i \in 1 .. Len(c) + Len(d) |-> <<e[i][1] \notin p.flaws, e[i][2]>>]
  BY <1>7, <1>8 DEF Unflawed
<1>10. IsCascade(uc) /\ IsCascade(ud) /\ IsCascade(ue)
  BY <1>6, <1>7, UnflawedChecks
<1>11. PICK U : uc \in Seq(U)
  BY <1>10 DEF IsCascade
<1>12. PICK V : ud \in Seq(V)
  BY <1>10 DEF IsCascade
<1>13. PICK W : ue \in Seq(W)
  BY <1>10 DEF IsCascade
<1>14. PICK A : A = U \cup V \cup W
  OBVIOUS
<1>15. uc \in Seq(A) /\ ud \in Seq(A) /\ ue \in Seq(A)
  BY <1>11, <1>12, <1>13, <1>14
<1>16. Len(uc) = Len(c) /\ Len(ud) = Len(d) /\ Len(ue) = Len(c) + Len(d)
  BY <1>8, <1>9, <1>15
<1>17. PICK f : f = uc \o ud
  OBVIOUS
<1>18. /\ f \in Seq(A) /\ Len(f) = Len(c) + Len(d)
       /\ \A i \in 1 .. Len(c) : f[i] = uc[i]
       /\ \A i \in 1 .. Len(d) : f[Len(c) + i] = ud[i]
  <2>1. /\ f \in Seq(A) /\ Len(f) = Len(uc) + Len(ud)
        /\ \A i \in 1 .. Len(uc) : f[i] = uc[i]
        /\ \A i \in 1 .. Len(ud) : f[Len(uc) + i] = ud[i]
    BY <1>15, <1>17, ConcatProperties
  <2> QED BY <1>16, <2>1
<1>19. \A i \in 1 .. Len(c) + Len(d) : ue[i] = f[i]
  <2> TAKE i \in 1 .. Len(c) + Len(d)
  <2>1. CASE i <= Len(c)
    <3>1. i \in 1 .. Len(c)
      BY <1>8, <2>1
    <3>2. e[i] = c[i] /\ f[i] = uc[i]
      BY <1>5, <1>18, <3>1
    <3> QED BY <1>9, <3>1, <3>2
  <2>2. CASE i > Len(c)
    <3>1. PICK m : m = i - Len(c)
      OBVIOUS
    <3>2. m \in 1 .. Len(d) /\ i = Len(c) + m
      BY <1>8, <2>2, <3>1
    <3>3. e[Len(c) + m] = d[m] /\ f[Len(c) + m] = ud[m]
      BY <1>5, <1>18, <3>2
    <3> QED BY <1>9, <3>2, <3>3
  <2> QED BY <1>8, <2>1, <2>2
<1>20. ue = f
  BY <1>15, <1>16, <1>18, <1>19, SeqEqual
<1>21. FirstRefusal(f, granted) = FirstRefusal(uc, FirstRefusal(ud, granted))
  BY <1>10, <1>17, CascadeThen
<1> QED BY <1>4, <1>7, <1>20, <1>21

LEMMA UnflawedTwo ==
    ASSUME NEW p, NEW f1, NEW a1, NEW f2, NEW a2, NEW granted
    PROVE  /\ IsCascade(<<<<f1, a1>>, <<f2, a2>>>>)
           /\ FirstRefusal(Unflawed(p, <<<<f1, a1>>, <<f2, a2>>>>), granted) =
                IF f1 \notin p.flaws
                THEN IF f2 \notin p.flaws THEN granted ELSE a2
                ELSE a1
<1>1. PICK h1, h2 : h1 = (f1 \notin p.flaws) /\ h2 = (f2 \notin p.flaws)
  OBVIOUS
<1>2. Unflawed(p, <<<<f1, a1>>, <<f2, a2>>>>) = <<<<h1, a1>>, <<h2, a2>>>>
  BY <1>1 DEF Unflawed
<1>3. IsCascade(<<<<f1, a1>>, <<f2, a2>>>>)
  BY TwoChecks
<1>4. FirstRefusal(<<<<h1, a1>>, <<h2, a2>>>>, granted) =
        IF h1 THEN IF h2 THEN granted ELSE a2 ELSE a1
  BY TwoChecks
<1> QED BY <1>1, <1>2, <1>3, <1>4

LEMMA UnflawedThree ==
    ASSUME NEW p, NEW f1, NEW a1, NEW f2, NEW a2, NEW f3, NEW a3, NEW granted
    PROVE  /\ IsCascade(<<<<f1, a1>>, <<f2, a2>>, <<f3, a3>>>>)
           /\ FirstRefusal(Unflawed(p, <<<<f1, a1>>, <<f2, a2>>, <<f3, a3>>>>), granted) =
                IF f1 \notin p.flaws
                THEN IF f2 \notin p.flaws
                     THEN IF f3 \notin p.flaws THEN granted ELSE a3
                     ELSE a2
                ELSE a1
<1>1. PICK h1, h2, h3 :
         /\ h1 = (f1 \notin p.flaws)
         /\ h2 = (f2 \notin p.flaws)
         /\ h3 = (f3 \notin p.flaws)
  OBVIOUS
<1>2. Unflawed(p, <<<<f1, a1>>, <<f2, a2>>, <<f3, a3>>>>) = <<<<h1, a1>>, <<h2, a2>>, <<h3, a3>>>>
  BY <1>1 DEF Unflawed
<1>3. IsCascade(<<<<f1, a1>>, <<f2, a2>>, <<f3, a3>>>>)
  BY ThreeChecks
<1>4. FirstRefusal(<<<<h1, a1>>, <<h2, a2>>, <<h3, a3>>>>, granted) =
        IF h1 THEN IF h2 THEN IF h3 THEN granted ELSE a3 ELSE a2 ELSE a1
  BY ThreeChecks
<1> QED BY <1>1, <1>2, <1>3, <1>4

LEMMA UnflawedFive ==
    ASSUME NEW p, NEW f1, NEW a1, NEW f2, NEW a2, NEW f3, NEW a3,
           NEW f4, NEW a4, NEW f5, NEW a5, NEW granted
    PROVE  /\ IsCascade(<<<<f1, a1>>, <<f2, a2>>, <<f3, a3>>, <<f4, a4>>, <<f5, a5>>>>)
           /\ FirstRefusal(Unflawed(p, <<<<f1, a1>>, <<f2, a2>>, <<f3, a3>>, <<f4, a4>>, <<f5, a5>>>>), granted) =
                IF f1 \notin p.flaws
                THEN IF f2 \notin p.flaws
                     THEN IF f3 \notin p.flaws
                          THEN IF f4 \notin p.flaws
                               THEN IF f5 \notin p.flaws THEN granted ELSE a5
                               ELSE a4
                          ELSE a3
                     ELSE a2
                ELSE a1
<1>1. PICK h1, h2, h3, h4, h5 :
         /\ h1 = (f1 \notin p.flaws)
         /\ h2 = (f2 \notin p.flaws)
         /\ h3 = (f3 \notin p.flaws)
         /\ h4 = (f4 \notin p.flaws)
         /\ h5 = (f5 \notin p.flaws)
  OBVIOUS
<1>2. Unflawed(p, <<<<f1, a1>>, <<f2, a2>>, <<f3, a3>>, <<f4, a4>>, <<f5, a5>>>>) =
        <<<<h1, a1>>, <<h2, a2>>, <<h3, a3>>, <<h4, a4>>, <<h5, a5>>>>
  BY <1>1 DEF Unflawed
<1>3. IsCascade(<<<<f1, a1>>, <<f2, a2>>, <<f3, a3>>, <<f4, a4>>, <<f5, a5>>>>)
  BY FiveChecks
<1>4. FirstRefusal(
        <<<<h1, a1>>, <<h2, a2>>, <<h3, a3>>, <<h4, a4>>, <<h5, a5>>>>, granted) =
        IF h1 THEN IF h2 THEN IF h3 THEN IF h4 THEN IF h5 THEN granted ELSE a5 ELSE a4 ELSE a3 ELSE a2 ELSE a1
  BY FiveChecks
<1> QED BY <1>1, <1>2, <1>3, <1>4

-----------------------------------------------------------------------------
(* The hosted port.                                                        *)

LEMMA HostedParses ==
    ASSUME NEW p, NEW g
    PROVE  /\ IsCascade(HostedParse(p))
           /\ FirstRefusal(HostedParse(p), g) =
                FirstRefusal(Unflawed(p, HostedDecode), FirstRefusal(Unflawed(p, HostedAgentSlot),
                    FirstRefusal(Unflawed(p, HostedZkSlots), FirstRefusal(Unflawed(p, HostedBinding), g))))
           /\ p.flaws \cap {"humanSlot", "humanEnvelope", "delegationSlot", "hopEnvelope", "leaf"} = {} =>
                FirstRefusal(Unflawed(p, HostedZkSlots), g) = g
<1>1. IsCascade(HostedDecode) /\ IsCascade(HostedAgentSlot) /\ IsCascade(HostedZkSlots) /\ IsCascade(HostedBinding)
  BY UnflawedTwo, UnflawedThree, UnflawedFive DEF HostedDecode, HostedAgentSlot, HostedZkSlots, HostedBinding
<1>2. PICK a, b, c, d : a = HostedDecode /\ b = HostedAgentSlot /\ c = HostedZkSlots /\ d = HostedBinding
  OBVIOUS
<1>3. /\ IsCascade(a) /\ IsCascade(b) /\ IsCascade(c) /\ IsCascade(d)
      /\ IsCascade(a \o b) /\ IsCascade(a \o b \o c) /\ IsCascade(a \o b \o c \o d)
  BY <1>1, <1>2, CascadeThen
<1>4. /\ \A x : FirstRefusal(Unflawed(p, a \o b), x) = FirstRefusal(Unflawed(p, a), FirstRefusal(Unflawed(p, b), x))
      /\ \A x : FirstRefusal(Unflawed(p, a \o b \o c), x) = FirstRefusal(Unflawed(p, a \o b), FirstRefusal(Unflawed(p, c), x))
      /\ \A x : FirstRefusal(Unflawed(p, a \o b \o c \o d), x) =
                  FirstRefusal(Unflawed(p, a \o b \o c), FirstRefusal(Unflawed(p, d), x))
  BY <1>3, UnflawedThen
<1>5. HostedParse(p) = Unflawed(p, a \o b \o c \o d)
  BY <1>2 DEF HostedParse
<1>6. IsCascade(HostedParse(p))
  BY <1>3, <1>5, UnflawedChecks
<1>7. p.flaws \cap {"humanSlot", "humanEnvelope", "delegationSlot", "hopEnvelope", "leaf"} = {} =>
                FirstRefusal(Unflawed(p, HostedZkSlots), g) = g
  <2> SUFFICES ASSUME p.flaws \cap {"humanSlot", "humanEnvelope", "delegationSlot", "hopEnvelope", "leaf"} = {}
               PROVE  FirstRefusal(Unflawed(p, HostedZkSlots), g) = g
    OBVIOUS
  <2>1. /\ "humanSlot" \notin p.flaws /\ "humanEnvelope" \notin p.flaws /\ "delegationSlot" \notin p.flaws
        /\ "hopEnvelope" \notin p.flaws /\ "leaf" \notin p.flaws
    OBVIOUS
  <2> QED BY <2>1, UnflawedFive DEF HostedZkSlots
<1> QED BY <1>2, <1>4, <1>5, <1>6, <1>7

LEMMA HostedTrusts ==
    ASSUME NEW p, NEW trusted, NEW g
    PROVE  /\ IsCascade(HostedTrust(p, trusted))
           /\ FirstRefusal(HostedTrust(p, trusted), g) =
                IF "operatorNumber" \notin p.flaws
                THEN IF p.operator \in trusted THEN g ELSE "untrusted_root"
                ELSE "internal_error"
<1>1. PICK a, b : a = ("operatorNumber" \notin p.flaws) /\ b = (p.operator \in trusted)
  OBVIOUS
<1>2. PICK s : s = <<<<a, "internal_error">>, <<b, "untrusted_root">>>>
  OBVIOUS
<1>3. HostedTrust(p, trusted) = s
  BY <1>1, <1>2 DEF HostedTrust
<1>4. IsCascade(s)
  BY <1>2, TwoChecks
<1>5. FirstRefusal(s, g) = IF a THEN IF b THEN g ELSE "untrusted_root" ELSE "internal_error"
  BY <1>2, TwoChecks
<1> QED BY <1>1, <1>3, <1>4, <1>5

LEMMA HostedSigns ==
    ASSUME NEW p, NEW g
    PROVE  /\ IsCascade(HostedSignature(p))
           /\ FirstRefusal(HostedSignature(p), g) =
                IF "sigNumber" \notin p.flaws
                THEN IF SignedBinding(p)
                     THEN IF p.binding.expiry = p.expiry THEN g ELSE "invalid_bundle"
                     ELSE "invalid_signature"
                ELSE "internal_error"
<1>1. PICK a, b, c :
         /\ a = ("sigNumber" \notin p.flaws)
         /\ b = (SignedBinding(p))
         /\ c = (p.binding.expiry = p.expiry)
  OBVIOUS
<1>2. PICK s : s = <<<<a, "internal_error">>,
                   <<b, "invalid_signature">>,
                   <<c, "invalid_bundle">>>>
  OBVIOUS
<1>3. HostedSignature(p) = s
  BY <1>1, <1>2 DEF HostedSignature
<1>4. IsCascade(s)
  BY <1>2, ThreeChecks
<1>5. FirstRefusal(s, g) =
        IF a
        THEN IF b
             THEN IF c THEN g ELSE "invalid_bundle"
             ELSE "invalid_signature"
        ELSE "internal_error"
  BY <1>2, ThreeChecks
<1> QED BY <1>1, <1>3, <1>4, <1>5

LEMMA HostedMatches ==
    ASSUME NEW p, NEW asked, NEW g
    PROVE  /\ IsCascade(HostedMatch(p, asked))
           /\ FirstRefusal(HostedMatch(p, asked), g) =
                IF asked.subject = p.binding.subject /\ asked.model = p.binding.model
                THEN IF asked.capabilities \subseteq p.binding.capabilities
                     THEN IF "modelNumber" \notin p.flaws
                          THEN IF p.model = asked.model THEN g ELSE "model_mismatch"
                          ELSE "internal_error"
                     ELSE "request_mismatch"
                ELSE "request_mismatch"
<1>1. PICK a, b, c, d :
         /\ a = (asked.subject = p.binding.subject /\ asked.model = p.binding.model)
         /\ b = (asked.capabilities \subseteq p.binding.capabilities)
         /\ c = ("modelNumber" \notin p.flaws)
         /\ d = (p.model = asked.model)
  OBVIOUS
<1>2. PICK s : s = <<<<a, "request_mismatch">>,
                   <<b, "request_mismatch">>,
                   <<c, "internal_error">>,
                   <<d, "model_mismatch">>>>
  OBVIOUS
<1>3. HostedMatch(p, asked) = s
  BY <1>1, <1>2 DEF HostedMatch
<1>4. IsCascade(s)
  BY <1>2, FourChecks
<1>5. FirstRefusal(s, g) =
        IF a
        THEN IF b
             THEN IF c
                  THEN IF d THEN g ELSE "model_mismatch"
                  ELSE "internal_error"
             ELSE "request_mismatch"
        ELSE "request_mismatch"
  BY <1>2, FourChecks
<1> QED BY <1>1, <1>3, <1>4, <1>5

\* The permissions a map asks for, for the capabilities it knows.
Required(map, capabilities) == UNION {map[c] : c \in capabilities \cap DOMAIN map}

LEMMA HostedScopes ==
    ASSUME NEW p, NEW asked, NEW g
    PROVE  /\ IsCascade(HostedScope(p, asked))
           /\ FirstRefusal(HostedScope(p, asked), g) =
                IF p.scope = Scope(p)
                THEN IF asked.capabilities \subseteq DOMAIN HostedCapabilityMap
                     THEN IF ValidCumulative(p.permissions) /\ ValidCumulative(Required(HostedCapabilityMap, asked.capabilities))
                          THEN IF Required(HostedCapabilityMap, asked.capabilities) \subseteq p.permissions THEN g ELSE "scope_exceeded"
                          ELSE "internal_error"
                     ELSE "unknown_capability"
                ELSE "invalid_proof"
<1>1. PICK a, b, c, d :
         /\ a = (p.scope = Scope(p))
         /\ b = (asked.capabilities \subseteq DOMAIN HostedCapabilityMap)
         /\ c = (ValidCumulative(p.permissions) /\ ValidCumulative(Required(HostedCapabilityMap, asked.capabilities)))
         /\ d = (Required(HostedCapabilityMap, asked.capabilities) \subseteq p.permissions)
  OBVIOUS
<1>2. PICK s : s = <<<<a, "invalid_proof">>,
                   <<b, "unknown_capability">>,
                   <<c, "internal_error">>,
                   <<d, "scope_exceeded">>>>
  OBVIOUS
<1>3. HostedScope(p, asked) = s
  BY <1>1, <1>2 DEF HostedScope, Required
<1>4. IsCascade(s)
  BY <1>2, FourChecks
<1>5. FirstRefusal(s, g) =
        IF a
        THEN IF b
             THEN IF c
                  THEN IF d THEN g ELSE "scope_exceeded"
                  ELSE "internal_error"
             ELSE "unknown_capability"
        ELSE "invalid_proof"
  BY <1>2, FourChecks
<1> QED BY <1>1, <1>3, <1>4, <1>5

-----------------------------------------------------------------------------
(* The port of the gate.                                                   *)

LEMMA InProcessTrusts ==
    ASSUME NEW p, NEW trusted, NEW g
    PROVE  /\ IsCascade(InProcessTrust(p, trusted))
           /\ FirstRefusal(InProcessTrust(p, trusted), g) =
                IF "operatorNumber" \notin p.flaws
                THEN IF trusted # {}
                     THEN IF p.operator \in trusted THEN g ELSE "untrusted_root"
                     ELSE "internal_error"
                ELSE "invalid_bundle"
<1>1. PICK a, b, c :
         /\ a = ("operatorNumber" \notin p.flaws)
         /\ b = (trusted # {})
         /\ c = (p.operator \in trusted)
  OBVIOUS
<1>2. PICK s : s = <<<<a, "invalid_bundle">>, <<b, "internal_error">>, <<c, "untrusted_root">>>>
  OBVIOUS
<1>3. InProcessTrust(p, trusted) = s
  BY <1>1, <1>2 DEF InProcessTrust
<1>4. IsCascade(s)
  BY <1>2, ThreeChecks
<1>5. FirstRefusal(s, g) =
        IF a
        THEN IF b
             THEN IF c THEN g ELSE "untrusted_root"
             ELSE "internal_error"
        ELSE "invalid_bundle"
  BY <1>2, ThreeChecks
<1> QED BY <1>1, <1>3, <1>4, <1>5

LEMMA InProcessSigns ==
    ASSUME NEW p, NEW g
    PROVE  /\ IsCascade(InProcessSignature(p))
           /\ FirstRefusal(InProcessSignature(p), g) =
                IF "sigNumber" \notin p.flaws
                THEN IF SignedBinding(p) THEN g ELSE "invalid_signature"
                ELSE "invalid_bundle"
<1>1. PICK a, b : a = ("sigNumber" \notin p.flaws) /\ b = (SignedBinding(p))
  OBVIOUS
<1>2. PICK s : s = <<<<a, "invalid_bundle">>, <<b, "invalid_signature">>>>
  OBVIOUS
<1>3. InProcessSignature(p) = s
  BY <1>1, <1>2 DEF InProcessSignature
<1>4. IsCascade(s)
  BY <1>2, TwoChecks
<1>5. FirstRefusal(s, g) = IF a THEN IF b THEN g ELSE "invalid_signature" ELSE "invalid_bundle"
  BY <1>2, TwoChecks
<1> QED BY <1>1, <1>3, <1>4, <1>5

LEMMA InProcessExpires ==
    ASSUME NEW p, NEW g
    PROVE  /\ IsCascade(InProcessExpiry(p))
           /\ FirstRefusal(InProcessExpiry(p), g) =
                IF p.binding.expiry = p.expiry THEN g ELSE "invalid_bundle"
<1>1. PICK a : a = (p.binding.expiry = p.expiry)
  OBVIOUS
<1>2. PICK s : s = <<<<a, "invalid_bundle">>>>
  OBVIOUS
<1>3. InProcessExpiry(p) = s
  BY <1>1, <1>2 DEF InProcessExpiry
<1>4. IsCascade(s)
  BY <1>2, OneCheck
<1>5. FirstRefusal(s, g) = IF a THEN g ELSE "invalid_bundle"
  BY <1>2, OneCheck
<1> QED BY <1>1, <1>3, <1>4, <1>5

LEMMA InProcessMatches ==
    ASSUME NEW p, NEW asked, NEW g
    PROVE  /\ IsCascade(InProcessMatch(p, asked))
           /\ FirstRefusal(InProcessMatch(p, asked), g) =
                IF asked.subject = p.binding.subject /\ asked.model = p.binding.model
                THEN IF asked.capabilities \subseteq p.binding.capabilities
                     THEN IF "modelNumber" \notin p.flaws
                          THEN IF p.model = asked.model THEN g ELSE "model_mismatch"
                          ELSE "invalid_bundle"
                     ELSE "request_mismatch"
                ELSE "request_mismatch"
<1>1. PICK a, b, c, d :
         /\ a = (asked.subject = p.binding.subject /\ asked.model = p.binding.model)
         /\ b = (asked.capabilities \subseteq p.binding.capabilities)
         /\ c = ("modelNumber" \notin p.flaws)
         /\ d = (p.model = asked.model)
  OBVIOUS
<1>2. PICK s : s = <<<<a, "request_mismatch">>,
                   <<b, "request_mismatch">>,
                   <<c, "invalid_bundle">>,
                   <<d, "model_mismatch">>>>
  OBVIOUS
<1>3. InProcessMatch(p, asked) = s
  BY <1>1, <1>2 DEF InProcessMatch
<1>4. IsCascade(s)
  BY <1>2, FourChecks
<1>5. FirstRefusal(s, g) =
        IF a
        THEN IF b
             THEN IF c
                  THEN IF d THEN g ELSE "model_mismatch"
                  ELSE "invalid_bundle"
             ELSE "request_mismatch"
        ELSE "request_mismatch"
  BY <1>2, FourChecks
<1> QED BY <1>1, <1>3, <1>4, <1>5

LEMMA InProcessScopes ==
    ASSUME NEW p, NEW asked, NEW g
    PROVE  /\ IsCascade(InProcessScope(p, asked))
           /\ FirstRefusal(InProcessScope(p, asked), g) =
                IF p.scope = Scope(p)
                THEN IF asked.capabilities \subseteq DOMAIN MppCapabilityMap
                     THEN IF ValidCumulative(p.permissions) /\ ValidCumulative(Required(MppCapabilityMap, asked.capabilities))
                          THEN IF Required(MppCapabilityMap, asked.capabilities) \subseteq p.permissions THEN g ELSE "scope_exceeded"
                          ELSE "invalid_bundle"
                     ELSE "unknown_capability"
                ELSE "invalid_proof"
<1>1. PICK a, b, c, d :
         /\ a = (p.scope = Scope(p))
         /\ b = (asked.capabilities \subseteq DOMAIN MppCapabilityMap)
         /\ c = (ValidCumulative(p.permissions) /\ ValidCumulative(Required(MppCapabilityMap, asked.capabilities)))
         /\ d = (Required(MppCapabilityMap, asked.capabilities) \subseteq p.permissions)
  OBVIOUS
<1>2. PICK s : s = <<<<a, "invalid_proof">>,
                   <<b, "unknown_capability">>,
                   <<c, "invalid_bundle">>,
                   <<d, "scope_exceeded">>>>
  OBVIOUS
<1>3. InProcessScope(p, asked) = s
  BY <1>1, <1>2 DEF InProcessScope, RequiredPermissions, Required
<1>4. IsCascade(s)
  BY <1>2, FourChecks
<1>5. FirstRefusal(s, g) =
        IF a
        THEN IF b
             THEN IF c
                  THEN IF d THEN g ELSE "scope_exceeded"
                  ELSE "invalid_bundle"
             ELSE "unknown_capability"
        ELSE "invalid_proof"
  BY <1>2, FourChecks
<1> QED BY <1>1, <1>3, <1>4, <1>5

-----------------------------------------------------------------------------
(* What the two classical ports answer, check by check.                    *)

\* What the two classical ports answer behind the slots.
HostedEnd(p, instant) ==
    IF instant < p.expiry THEN IF p.nullifier # None THEN "allow" ELSE "nonce_missing" ELSE "expired"
HostedRest(p, asked, trusted, instant) ==
    FirstRefusal(HostedTrust(p, trusted), FirstRefusal(HostedSignature(p),
        FirstRefusal(HostedMatch(p, asked), FirstRefusal(HostedScope(p, asked), HostedEnd(p, instant)))))
InProcessEnd(p, instant) == IF instant < p.expiry THEN "allow" ELSE "expired"
InProcessRest(p, asked, trusted, instant) ==
    FirstRefusal(InProcessTrust(p, trusted), FirstRefusal(InProcessSignature(p),
        FirstRefusal(InProcessExpiry(p), FirstRefusal(InProcessMatch(p, asked),
            FirstRefusal(InProcessScope(p, asked), InProcessEnd(p, instant))))))

LEMMA HostedNested ==
    ASSUME NEW p, NEW asked, NEW trusted, NEW instant
    PROVE  HostedVerdict(p, asked, trusted, instant) =
             FirstRefusal(Unflawed(p, HostedRequest),
                 IF "kind" \notin p.flaws
                 THEN FirstRefusal(HostedParse(p),
                          IF p.human = None /\ p.delegation = <<>>
                          THEN HostedRest(p, asked, trusted, instant) ELSE "invalid_proof")
                 ELSE "invalid_proof")
<1>1. PICK k, n, t, m : /\ k = ("kind" \notin p.flaws) /\ n = (p.human = None /\ p.delegation = <<>>)
                        /\ t = (instant < p.expiry) /\ m = (p.nullifier # None)
  OBVIOUS
<1>2. PICK c1, c2, c3, c4, c5, c6, c7, c8, c9 :
         /\ c1 = Unflawed(p, HostedRequest) /\ c2 = <<<<k, "invalid_proof">>>> /\ c3 = HostedParse(p)
         /\ c4 = <<<<n, "invalid_proof">>>> /\ c5 = HostedTrust(p, trusted) /\ c6 = HostedSignature(p)
         /\ c7 = HostedMatch(p, asked) /\ c8 = HostedScope(p, asked)
         /\ c9 = <<<<t, "expired">>, <<m, "nonce_missing">>>>
  OBVIOUS
<1>3. HostedVerdict(p, asked, trusted, instant) =
        FirstRefusal(c1 \o c2 \o c3 \o c4 \o c5 \o c6 \o c7 \o c8 \o c9, "allow")
  BY <1>1, <1>2 DEF HostedVerdict
<1>4. IsCascade(c1)
  <2>1. IsCascade(HostedRequest)
    BY UnflawedTwo DEF HostedRequest
  <2> QED BY <1>2, <2>1, UnflawedChecks
<1>5. IsCascade(c2) /\ \A x : FirstRefusal(c2, x) = IF k THEN x ELSE "invalid_proof"
  BY <1>2, OneCheck
<1>6. IsCascade(c4) /\ \A x : FirstRefusal(c4, x) = IF n THEN x ELSE "invalid_proof"
  BY <1>2, OneCheck
<1>7. IsCascade(c9) /\ FirstRefusal(c9, "allow") = IF t THEN IF m THEN "allow" ELSE "nonce_missing" ELSE "expired"
  BY <1>2, TwoChecks
<1>8. IsCascade(c3) /\ IsCascade(c5) /\ IsCascade(c6) /\ IsCascade(c7) /\ IsCascade(c8)
  BY <1>2, HostedParses, HostedTrusts, HostedSigns, HostedMatches, HostedScopes
<1>9. PICK e : e = c1 \o c2 \o c3 \o c4 \o c5
  OBVIOUS
<1>10. IsCascade(e) /\ \A x : FirstRefusal(e, x) =
        FirstRefusal(c1, FirstRefusal(c2, FirstRefusal(c3, FirstRefusal(c4, FirstRefusal(c5, x)))))
  BY <1>4, <1>5, <1>6, <1>8, <1>9, FiveCascades
<1>11. FirstRefusal(e \o c6 \o c7 \o c8 \o c9, "allow") =
        FirstRefusal(e, FirstRefusal(c6, FirstRefusal(c7, FirstRefusal(c8, FirstRefusal(c9, "allow")))))
  BY <1>7, <1>8, <1>10, FiveCascades
<1>12. FirstRefusal(c9, "allow") = HostedEnd(p, instant)
  BY <1>1, <1>7 DEF HostedEnd
<1>13. FirstRefusal(c5, FirstRefusal(c6, FirstRefusal(c7, FirstRefusal(c8, HostedEnd(p, instant))))) =
         HostedRest(p, asked, trusted, instant)
  BY <1>2 DEF HostedRest
<1>14. HostedVerdict(p, asked, trusted, instant) =
         FirstRefusal(c1, FirstRefusal(c2, FirstRefusal(c3, FirstRefusal(c4, HostedRest(p, asked, trusted, instant)))))
  BY <1>3, <1>9, <1>10, <1>11, <1>12, <1>13
<1>15. FirstRefusal(c4, HostedRest(p, asked, trusted, instant)) =
         IF p.human = None /\ p.delegation = <<>> THEN HostedRest(p, asked, trusted, instant) ELSE "invalid_proof"
  BY <1>1, <1>6
<1>16. \A x : FirstRefusal(c2, x) = IF "kind" \notin p.flaws THEN x ELSE "invalid_proof"
  BY <1>1, <1>5
<1>17. c1 = Unflawed(p, HostedRequest) /\ c3 = HostedParse(p)
  BY <1>2
<1> QED BY <1>14, <1>15, <1>16, <1>17

LEMMA InProcessNested ==
    ASSUME NEW p, NEW asked, NEW trusted, NEW instant
    PROVE  InProcessVerdict(p, asked, trusted, instant) =
             FirstRefusal(Unflawed(p, InProcessDecode), FirstRefusal(Unflawed(p, InProcessAgentSlot),
                 FirstRefusal(Unflawed(p, InProcessBinding),
                     IF p.human = None /\ p.delegation = <<>>
                     THEN InProcessRest(p, asked, trusted, instant) ELSE "invalid_proof")))
<1>1. PICK n, t : n = (p.human = None /\ p.delegation = <<>>) /\ t = (instant < p.expiry)
  OBVIOUS
<1>2. PICK a, b, d : a = InProcessDecode /\ b = InProcessAgentSlot /\ d = InProcessBinding
  OBVIOUS
<1>3. IsCascade(a) /\ IsCascade(b) /\ IsCascade(d)
  BY <1>2, UnflawedTwo, UnflawedThree DEF InProcessDecode, InProcessAgentSlot, InProcessBinding
<1>4. IsCascade(a \o b) /\ IsCascade(a \o b \o d)
  BY <1>3, CascadeThen
<1>5. /\ \A x : FirstRefusal(Unflawed(p, a \o b), x) = FirstRefusal(Unflawed(p, a), FirstRefusal(Unflawed(p, b), x))
      /\ \A x : FirstRefusal(Unflawed(p, a \o b \o d), x) = FirstRefusal(Unflawed(p, a \o b), FirstRefusal(Unflawed(p, d), x))
      /\ IsCascade(Unflawed(p, a \o b \o d))
  BY <1>3, <1>4, UnflawedThen, UnflawedChecks
<1>6. PICK c1, c2, c3, c4, c5, c6, c7, c8 :
         /\ c1 = Unflawed(p, a \o b \o d) /\ c2 = <<<<n, "invalid_proof">>>>
         /\ c3 = InProcessTrust(p, trusted) /\ c4 = InProcessSignature(p) /\ c5 = InProcessExpiry(p)
         /\ c6 = InProcessMatch(p, asked) /\ c7 = InProcessScope(p, asked) /\ c8 = <<<<t, "expired">>>>
  OBVIOUS
<1>7. InProcessVerdict(p, asked, trusted, instant) =
        FirstRefusal((c1 \o c2) \o c3 \o c4 \o c5 \o c6 \o c7 \o c8, "allow")
  BY <1>1, <1>2, <1>6 DEF InProcessVerdict, InProcessParse
<1>8. IsCascade(c1) /\ IsCascade(c2) /\ \A x : FirstRefusal(c2, x) = IF n THEN x ELSE "invalid_proof"
  BY <1>5, <1>6, OneCheck
<1>9. IsCascade(c8) /\ FirstRefusal(c8, "allow") = IF t THEN "allow" ELSE "expired"
  BY <1>6, OneCheck
<1>10. IsCascade(c3) /\ IsCascade(c4) /\ IsCascade(c5) /\ IsCascade(c6) /\ IsCascade(c7)
  BY <1>6, InProcessTrusts, InProcessSigns, InProcessExpires, InProcessMatches, InProcessScopes
<1>11. PICK e : e = c1 \o c2 \o c3 \o c4
  OBVIOUS
<1>12. IsCascade(e) /\ \A x : FirstRefusal(e, x) =
         FirstRefusal(c1, FirstRefusal(c2, FirstRefusal(c3, FirstRefusal(c4, x))))
  BY <1>8, <1>10, <1>11, FourCascades
<1>13. FirstRefusal(e \o c5 \o c6 \o c7 \o c8, "allow") =
         FirstRefusal(e, FirstRefusal(c5, FirstRefusal(c6, FirstRefusal(c7, FirstRefusal(c8, "allow")))))
  BY <1>9, <1>10, <1>12, FiveCascades
<1>14. FirstRefusal(c8, "allow") = InProcessEnd(p, instant)
  BY <1>1, <1>9 DEF InProcessEnd
<1>15. FirstRefusal(c3, FirstRefusal(c4, FirstRefusal(c5, FirstRefusal(c6, FirstRefusal(c7, InProcessEnd(p, instant)))))) =
         InProcessRest(p, asked, trusted, instant)
  BY <1>6 DEF InProcessRest
<1>16. InProcessVerdict(p, asked, trusted, instant) = FirstRefusal(c1, FirstRefusal(c2, InProcessRest(p, asked, trusted, instant)))
  BY <1>7, <1>11, <1>12, <1>13, <1>14, <1>15
<1>17. FirstRefusal(c2, InProcessRest(p, asked, trusted, instant)) =
         IF p.human = None /\ p.delegation = <<>> THEN InProcessRest(p, asked, trusted, instant) ELSE "invalid_proof"
  BY <1>1, <1>8
<1>18. c1 = Unflawed(p, a \o b \o d)
  BY <1>6
<1> QED BY <1>2, <1>5, <1>16, <1>17, <1>18

-----------------------------------------------------------------------------
(* The classical ports are alike.                                          *)

\* The operators' maps say of the gate's tokens what the gate's says, and bindings
\* name no other tokens; the two caps on retention are one.
MapsAgree ==
    /\ \A c \in DOMAIN MppCapabilityMap :
          c \in DOMAIN HostedCapabilityMap /\ HostedCapabilityMap[c] = MppCapabilityMap[c]
    /\ CommandCapabilityMap = HostedCapabilityMap
    /\ MaxNonceTtl = MaxRetentionSeconds
BindsGateTokens(p) == p.binding.capabilities \subseteq DOMAIN MppCapabilityMap

\* What is alike stays alike behind checks that the two ports share.
LEMMA AlikeBehind ==
    ASSUME NEW c, IsCascade(c), NEW p, NEW x, NEW y, Alike(x, y, p)
    PROVE  Alike(FirstRefusal(c, x), FirstRefusal(c, y), p)
<1>1. CASE \A z : FirstRefusal(c, z) = z
  BY <1>1
<1>2. CASE \E i \in DOMAIN c : \A z : FirstRefusal(c, z) = c[i][2]
  BY <1>2 DEF Alike
<1> QED BY <1>1, <1>2, GrantsOrRefuses

LEMMA RestAlike ==
    ASSUME NEW p, NEW asked, NEW instant, MapsAgree, BindsGateTokens(p)
    PROVE  Alike(HostedRest(p, asked, scenario.trusted, instant), InProcessRest(p, asked, scenario.trusted, instant), p)
<1>1. PICK h1, h2, h3, h4, h5 :
         /\ h1 = HostedEnd(p, instant) /\ h2 = FirstRefusal(HostedScope(p, asked), h1)
         /\ h3 = FirstRefusal(HostedMatch(p, asked), h2) /\ h4 = FirstRefusal(HostedSignature(p), h3)
         /\ h5 = FirstRefusal(HostedTrust(p, scenario.trusted), h4)
  OBVIOUS
<1>2. PICK i1, i2, i3, i4, i5, i6 :
         /\ i1 = InProcessEnd(p, instant) /\ i2 = FirstRefusal(InProcessScope(p, asked), i1)
         /\ i3 = FirstRefusal(InProcessMatch(p, asked), i2) /\ i4 = FirstRefusal(InProcessExpiry(p), i3)
         /\ i5 = FirstRefusal(InProcessSignature(p), i4)
         /\ i6 = FirstRefusal(InProcessTrust(p, scenario.trusted), i5)
  OBVIOUS
<1>3. Alike(h1, i1, p)
  BY <1>1, <1>2 DEF HostedEnd, InProcessEnd, Alike
<1>4. Alike(h3, i3, p)
  <2>1. CASE asked.capabilities \subseteq DOMAIN MppCapabilityMap
    <3>1. /\ asked.capabilities \subseteq DOMAIN HostedCapabilityMap
          /\ Required(HostedCapabilityMap, asked.capabilities) = Required(MppCapabilityMap, asked.capabilities)
      <4>1. PICK m : m = MppCapabilityMap
        OBVIOUS
      <4>2. \A c \in DOMAIN m : c \in DOMAIN HostedCapabilityMap /\ HostedCapabilityMap[c] = m[c]
        BY <4>1 DEF MapsAgree
      <4>3. asked.capabilities \subseteq DOMAIN m
        BY <2>1, <4>1
      <4>4. {HostedCapabilityMap[c] : c \in asked.capabilities \cap DOMAIN HostedCapabilityMap} =
              {m[c] : c \in asked.capabilities \cap DOMAIN m}
        BY <4>2, <4>3
      <4> QED BY <4>1, <4>2, <4>3, <4>4 DEF Required
    <3>2. PICK r : r = Required(MppCapabilityMap, asked.capabilities)
      OBVIOUS
    <3>3. h2 = IF p.scope = Scope(p)
               THEN IF ValidCumulative(p.permissions) /\ ValidCumulative(r)
                    THEN IF r \subseteq p.permissions THEN h1 ELSE "scope_exceeded"
                    ELSE "internal_error"
               ELSE "invalid_proof"
      BY <1>1, <3>1, <3>2, HostedScopes
    <3>4. i2 = IF p.scope = Scope(p)
               THEN IF ValidCumulative(p.permissions) /\ ValidCumulative(r)
                    THEN IF r \subseteq p.permissions THEN i1 ELSE "scope_exceeded"
                    ELSE "invalid_bundle"
               ELSE "invalid_proof"
      BY <1>2, <2>1, <3>2, InProcessScopes
    <3>5. Alike(h2, i2, p)
      BY <1>3, <3>3, <3>4 DEF Alike
    <3>6. h3 = IF asked.subject = p.binding.subject /\ asked.model = p.binding.model
               THEN IF asked.capabilities \subseteq p.binding.capabilities
                    THEN IF "modelNumber" \notin p.flaws
                         THEN IF p.model = asked.model THEN h2 ELSE "model_mismatch"
                         ELSE "internal_error"
                    ELSE "request_mismatch"
               ELSE "request_mismatch"
      BY <1>1, HostedMatches
    <3>7. i3 = IF asked.subject = p.binding.subject /\ asked.model = p.binding.model
               THEN IF asked.capabilities \subseteq p.binding.capabilities
                    THEN IF "modelNumber" \notin p.flaws
                         THEN IF p.model = asked.model THEN i2 ELSE "model_mismatch"
                         ELSE "invalid_bundle"
                    ELSE "request_mismatch"
               ELSE "request_mismatch"
      BY <1>2, InProcessMatches
    <3> QED BY <3>5, <3>6, <3>7 DEF Alike
  <2>2. CASE ~(asked.capabilities \subseteq DOMAIN MppCapabilityMap)
    <3>1. ~(asked.capabilities \subseteq p.binding.capabilities)
      BY <2>2 DEF BindsGateTokens
    <3>2. h3 = "request_mismatch" /\ i3 = "request_mismatch"
      BY <1>1, <1>2, <3>1, HostedMatches, InProcessMatches
    <3> QED BY <3>2 DEF Alike
  <2> QED BY <2>1, <2>2
<1>5. Alike(h4, i5, p)
  <2>1. h4 = IF "sigNumber" \notin p.flaws
             THEN IF SignedBinding(p)
                  THEN IF p.binding.expiry = p.expiry THEN h3 ELSE "invalid_bundle"
                  ELSE "invalid_signature"
             ELSE "internal_error"
    BY <1>1, HostedSigns
  <2>2. i5 = IF "sigNumber" \notin p.flaws
             THEN IF SignedBinding(p) THEN i4 ELSE "invalid_signature"
             ELSE "invalid_bundle"
    BY <1>2, InProcessSigns
  <2>3. i4 = IF p.binding.expiry = p.expiry THEN i3 ELSE "invalid_bundle"
    BY <1>2, InProcessExpires
  <2> QED BY <1>4, <2>1, <2>2, <2>3 DEF Alike
<1>6. Alike(h5, i6, p)
  <2>1. h5 = IF "operatorNumber" \notin p.flaws
             THEN IF p.operator \in scenario.trusted THEN h4 ELSE "untrusted_root"
             ELSE "internal_error"
    BY <1>1, HostedTrusts
  <2>2. i6 = IF "operatorNumber" \notin p.flaws
             THEN IF scenario.trusted # {}
                  THEN IF p.operator \in scenario.trusted THEN i5 ELSE "untrusted_root"
                  ELSE "internal_error"
             ELSE "invalid_bundle"
    BY <1>2, InProcessTrusts
  <2> QED BY <1>5, <2>1, <2>2 DEF Alike
<1>7. h5 = HostedRest(p, asked, scenario.trusted, instant) /\ i6 = InProcessRest(p, asked, scenario.trusted, instant)
  BY <1>1, <1>2 DEF HostedRest, InProcessRest
<1> QED BY <1>6, <1>7

LEMMA ClassicalPortsAlike ==
    ASSUME NEW p, NEW asked, NEW instant, MapsAgree, BindsGateTokens(p), Comparable(p)
    PROVE  Alike(HostedVerdict(p, asked, scenario.trusted, instant),
                 InProcessVerdict(p, asked, scenario.trusted, instant), p)
<1>1. PICK f, n : f = p.flaws /\ n = (p.human = None /\ p.delegation = <<>>)
  OBVIOUS
<1>2. /\ "requestShape" \notin f /\ "requestVersion" \notin f /\ "kind" \notin f /\ "humanSlot" \notin f
      /\ "humanEnvelope" \notin f /\ "delegationSlot" \notin f /\ "hopEnvelope" \notin f /\ "leaf" \notin f
  BY <1>1 DEF Comparable
<1>3. PICK x, y : /\ x = IF n THEN HostedRest(p, asked, scenario.trusted, instant) ELSE "invalid_proof"
                  /\ y = IF n THEN InProcessRest(p, asked, scenario.trusted, instant) ELSE "invalid_proof"
  OBVIOUS
<1>4. Alike(x, y, p)
  <2>1. CASE n
    BY <1>3, <2>1, RestAlike
  <2>2. CASE ~n
    BY <1>3, <2>2 DEF Alike
  <2> QED BY <2>1, <2>2
<1>5. PICK a, b, d :
         /\ a = Unflawed(p, HostedDecode) /\ b = Unflawed(p, HostedAgentSlot) /\ d = Unflawed(p, HostedBinding)
  OBVIOUS
<1>6. IsCascade(a) /\ IsCascade(b) /\ IsCascade(d)
  BY <1>5, UnflawedTwo, UnflawedThree, UnflawedChecks DEF HostedDecode, HostedAgentSlot, HostedBinding
<1>7. /\ a = Unflawed(p, InProcessDecode) /\ b = Unflawed(p, InProcessAgentSlot)
      /\ d = Unflawed(p, InProcessBinding)
  BY <1>5 DEF HostedDecode, HostedAgentSlot, HostedBinding, InProcessDecode, InProcessAgentSlot, InProcessBinding
<1>8. HostedVerdict(p, asked, scenario.trusted, instant) =
        FirstRefusal(a, FirstRefusal(b, FirstRefusal(d, x)))
  <2>1. FirstRefusal(HostedParse(p), x) = FirstRefusal(a, FirstRefusal(b, FirstRefusal(d, x)))
    <3>1. p.flaws \cap {"humanSlot", "humanEnvelope", "delegationSlot", "hopEnvelope", "leaf"} = {}
      BY <1>1, <1>2
    <3>2. FirstRefusal(Unflawed(p, HostedZkSlots), FirstRefusal(d, x)) = FirstRefusal(d, x)
      BY <3>1, HostedParses
    <3> QED BY <1>5, <3>2, HostedParses
  <2>2. \A z : FirstRefusal(Unflawed(p, HostedRequest), z) = z
    BY <1>1, <1>2, UnflawedTwo DEF HostedRequest
  <2>3. HostedVerdict(p, asked, scenario.trusted, instant) =
          FirstRefusal(Unflawed(p, HostedRequest), FirstRefusal(HostedParse(p), x))
    <3>1. x = IF p.human = None /\ p.delegation = <<>>
              THEN HostedRest(p, asked, scenario.trusted, instant) ELSE "invalid_proof"
      BY <1>1, <1>3
    <3>2. "kind" \notin p.flaws
      BY <1>1, <1>2
    <3> QED BY <3>1, <3>2, HostedNested
  <2> QED BY <2>1, <2>2, <2>3
<1>9. InProcessVerdict(p, asked, scenario.trusted, instant) =
        FirstRefusal(a, FirstRefusal(b, FirstRefusal(d, y)))
  <2>1. y = IF p.human = None /\ p.delegation = <<>>
            THEN InProcessRest(p, asked, scenario.trusted, instant) ELSE "invalid_proof"
    BY <1>1, <1>3
  <2> QED BY <1>7, <2>1, InProcessNested
<1>10. Alike(FirstRefusal(d, x), FirstRefusal(d, y), p)
  BY <1>4, <1>6, AlikeBehind
<1>11. Alike(FirstRefusal(b, FirstRefusal(d, x)), FirstRefusal(b, FirstRefusal(d, y)), p)
  BY <1>6, <1>10, AlikeBehind
<1>12. Alike(FirstRefusal(a, FirstRefusal(b, FirstRefusal(d, x))), FirstRefusal(a, FirstRefusal(b, FirstRefusal(d, y))), p)
  BY <1>6, <1>11, AlikeBehind
<1> QED BY <1>8, <1>9, <1>12

-----------------------------------------------------------------------------
(* The command, check by check.                                            *)

LEMMA CommandProves ==
    ASSUME NEW p, NEW trust, NEW g
    PROVE  /\ IsCascade(CommandProofs(p, trust))
           /\ FirstRefusal(CommandProofs(p, trust), g) =
                IF trust.keys
                THEN IF "agentProof" \notin p.flaws
                     THEN IF "humanProof" \notin p.flaws
                          THEN IF "operatorNumber" \notin p.flaws THEN g ELSE "internal_error"
                          ELSE "invalid_proof"
                     ELSE "invalid_proof"
                ELSE "internal_error"
<1>1. PICK a, b, c, d :
         /\ a = (trust.keys)
         /\ b = ("agentProof" \notin p.flaws)
         /\ c = ("humanProof" \notin p.flaws)
         /\ d = ("operatorNumber" \notin p.flaws)
  OBVIOUS
<1>2. PICK s : s = <<<<a, "internal_error">>,
                   <<b, "invalid_proof">>,
                   <<c, "invalid_proof">>,
                   <<d, "internal_error">>>>
  OBVIOUS
<1>3. CommandProofs(p, trust) = s
  BY <1>1, <1>2 DEF CommandProofs
<1>4. IsCascade(s)
  BY <1>2, FourChecks
<1>5. FirstRefusal(s, g) =
        IF a
        THEN IF b
             THEN IF c
                  THEN IF d THEN g ELSE "internal_error"
                  ELSE "invalid_proof"
             ELSE "invalid_proof"
        ELSE "internal_error"
  BY <1>2, FourChecks
<1> QED BY <1>1, <1>3, <1>4, <1>5

LEMMA CommandTrusts ==
    ASSUME NEW p, NEW trust, NEW g
    PROVE  /\ IsCascade(CommandRoots(p, trust))
           /\ FirstRefusal(CommandRoots(p, trust), g) =
                IF trust.configured
                THEN IF p.root \in trust.roots["agent"] THEN g ELSE "untrusted_root"
                ELSE "internal_error"
<1>1. PICK a, b : a = (trust.configured) /\ b = (p.root \in trust.roots["agent"])
  OBVIOUS
<1>2. PICK s : s = <<<<a, "internal_error">>, <<b, "untrusted_root">>>>
  OBVIOUS
<1>3. CommandRoots(p, trust) = s
  BY <1>1, <1>2 DEF CommandRoots, TrustedRoot
<1>4. IsCascade(s)
  BY <1>2, TwoChecks
<1>5. FirstRefusal(s, g) = IF a THEN IF b THEN g ELSE "untrusted_root" ELSE "internal_error"
  BY <1>2, TwoChecks
<1> QED BY <1>1, <1>3, <1>4, <1>5

LEMMA CommandSigns ==
    ASSUME NEW p, NEW g
    PROVE  /\ IsCascade(CommandSignature(p))
           /\ FirstRefusal(CommandSignature(p), g) =
                IF "modelNumber" \notin p.flaws
                THEN IF p.scope = Scope(p)
                     THEN IF "sigNumber" \notin p.flaws
                          THEN IF SignedBinding(p)
                               THEN IF p.binding.expiry = p.expiry THEN g ELSE "invalid_bundle"
                               ELSE "invalid_signature"
                          ELSE "internal_error"
                     ELSE "invalid_proof"
                ELSE "internal_error"
<1>1. PICK a, b, c, d, e :
         /\ a = ("modelNumber" \notin p.flaws)
         /\ b = (p.scope = Scope(p))
         /\ c = ("sigNumber" \notin p.flaws)
         /\ d = (SignedBinding(p))
         /\ e = (p.binding.expiry = p.expiry)
  OBVIOUS
<1>2. PICK s : s = <<<<a, "internal_error">>,
                   <<b, "invalid_proof">>,
                   <<c, "internal_error">>,
                   <<d, "invalid_signature">>,
                   <<e, "invalid_bundle">>>>
  OBVIOUS
<1>3. CommandSignature(p) = s
  BY <1>1, <1>2 DEF CommandSignature
<1>4. IsCascade(s)
  BY <1>2, FiveChecks
<1>5. FirstRefusal(s, g) =
        IF a
        THEN IF b
             THEN IF c
                  THEN IF d
                       THEN IF e THEN g ELSE "invalid_bundle"
                       ELSE "invalid_signature"
                  ELSE "internal_error"
             ELSE "invalid_proof"
        ELSE "internal_error"
  BY <1>2, FiveChecks
<1> QED BY <1>1, <1>3, <1>4, <1>5

LEMMA CommandMatches ==
    ASSUME NEW p, NEW asked, NEW g
    PROVE  /\ IsCascade(CommandMatch(p, asked))
           /\ FirstRefusal(CommandMatch(p, asked), g) =
                IF asked.subject = p.binding.subject /\ asked.model = p.binding.model
                THEN IF asked.capabilities \subseteq p.binding.capabilities
                     THEN IF p.model = asked.model THEN g ELSE "model_mismatch"
                     ELSE "request_mismatch"
                ELSE "request_mismatch"
<1>1. PICK a, b, c :
         /\ a = (asked.subject = p.binding.subject /\ asked.model = p.binding.model)
         /\ b = (asked.capabilities \subseteq p.binding.capabilities)
         /\ c = (p.model = asked.model)
  OBVIOUS
<1>2. PICK s : s = <<<<a, "request_mismatch">>,
                   <<b, "request_mismatch">>,
                   <<c, "model_mismatch">>>>
  OBVIOUS
<1>3. CommandMatch(p, asked) = s
  BY <1>1, <1>2 DEF CommandMatch
<1>4. IsCascade(s)
  BY <1>2, ThreeChecks
<1>5. FirstRefusal(s, g) =
        IF a
        THEN IF b
             THEN IF c THEN g ELSE "model_mismatch"
             ELSE "request_mismatch"
        ELSE "request_mismatch"
  BY <1>2, ThreeChecks
<1> QED BY <1>1, <1>3, <1>4, <1>5

LEMMA CommandScopes ==
    ASSUME NEW p, NEW asked, NEW g
    PROVE  /\ IsCascade(CommandScope(p, asked))
           /\ FirstRefusal(CommandScope(p, asked), g) =
                IF asked.capabilities \subseteq DOMAIN CommandCapabilityMap
                THEN IF ValidCumulative(EffectiveScope(p)) /\ ValidCumulative(Required(CommandCapabilityMap, asked.capabilities))
                     THEN IF Required(CommandCapabilityMap, asked.capabilities) \subseteq EffectiveScope(p) THEN g ELSE "scope_exceeded"
                     ELSE "internal_error"
                ELSE "unknown_capability"
<1>1. PICK a, b, c :
         /\ a = (asked.capabilities \subseteq DOMAIN CommandCapabilityMap)
         /\ b = (ValidCumulative(EffectiveScope(p)) /\ ValidCumulative(Required(CommandCapabilityMap, asked.capabilities)))
         /\ c = (Required(CommandCapabilityMap, asked.capabilities) \subseteq EffectiveScope(p))
  OBVIOUS
<1>2. PICK s : s = <<<<a, "unknown_capability">>,
                   <<b, "internal_error">>,
                   <<c, "scope_exceeded">>>>
  OBVIOUS
<1>3. CommandScope(p, asked) = s
  BY <1>1, <1>2 DEF CommandScope, Required
<1>4. IsCascade(s)
  BY <1>2, ThreeChecks
<1>5. FirstRefusal(s, g) =
        IF a
        THEN IF b
             THEN IF c THEN g ELSE "scope_exceeded"
             ELSE "internal_error"
        ELSE "unknown_capability"
  BY <1>2, ThreeChecks
<1> QED BY <1>1, <1>3, <1>4, <1>5

LEMMA CommandHumans ==
    ASSUME NEW p, NEW trust
    PROVE  /\ IsCascade(CommandHuman(p, trust))
           /\ \A x : FirstRefusal(CommandHuman(p, trust), x) = "allow" =>
                 x = "allow" /\ (p.human # None => p.human.session = p.session)
<1>1. CASE p.human = None
  <2>1. CommandHuman(p, trust) = <<>>
    BY <1>1 DEF CommandHuman
  <2> QED BY <1>1, <2>1, NoChecks
<1>2. CASE p.human # None
  <2>1. PICK a, b, c : /\ a = TrustedRoot(trust, "human", p.human.root)
                       /\ b = (p.human.session = p.session) /\ c = (p.human.scope = 1)
    OBVIOUS
  <2>2. CommandHuman(p, trust) = <<<<a, "untrusted_root">>, <<b, "invalid_proof">>, <<c, "invalid_proof">>>>
    BY <1>2, <2>1 DEF CommandHuman
  <2>3. /\ IsCascade(<<<<a, "untrusted_root">>, <<b, "invalid_proof">>, <<c, "invalid_proof">>>>)
        /\ \A x : FirstRefusal(<<<<a, "untrusted_root">>, <<b, "invalid_proof">>, <<c, "invalid_proof">>>>, x) =
                    IF a THEN IF b THEN IF c THEN x ELSE "invalid_proof" ELSE "invalid_proof"
                    ELSE "untrusted_root"
    BY ThreeChecks
  <2>4. \A x : FirstRefusal(CommandHuman(p, trust), x) = "allow" => x = "allow" /\ b
    BY <2>2, <2>3
  <2> QED BY <2>1, <2>2, <2>3, <2>4
<1> QED BY <1>1, <1>2

LEMMA CommandDelegates ==
    ASSUME NEW p, NEW trust, NEW D, p.delegation \in Seq(D)
    PROVE  /\ IsCascade(CommandDelegation(p, trust))
           /\ \A x : FirstRefusal(CommandDelegation(p, trust), x) = "allow" => x = "allow"
<1>1. PICK hops, n : hops = p.delegation /\ n = Len(hops) /\ n \in Nat
  OBVIOUS
<1> DEFINE Previous(i) == IF i = 1 THEN p.scope ELSE hops[i - 1].next
           Links(i) == hops[i].good /\ hops[i].previous = Previous(i) /\ hops[i].session = p.session
           Check(j) == LET i == (j + 1) \div 2
                       IN  IF j % 2 = 1 THEN <<Links(i), "delegation_invalid">>
                           ELSE <<TrustedRoot(trust, "delegatee", hops[i].root), "untrusted_root">>
<1>2. PICK a, b, c :
         /\ a = <<<<n <= MaxHops, "delegation_invalid">>>>
         /\ b = [j \in 1 .. 2 * n |-> Check(j)]
         /\ c = IF hops = <<>> THEN <<>>
                ELSE <<<<hops[n].next = <<Leaf(p).permissions, Leaf(p).expiry>>, "delegation_invalid">>>>
  OBVIOUS
<1>3. CommandDelegation(p, trust) = a \o b \o c
  BY <1>1, <1>2 DEF CommandDelegation
<1>4. \A j : Check(j)[2] \in {"delegation_invalid", "untrusted_root"}
  OBVIOUS
<1> HIDE DEF Check
<1>5. IsCascade(a) /\ \A x : FirstRefusal(a, x) = "allow" => x = "allow"
  BY <1>2, OneCheck
<1>6. IsCascade(b) /\ \A x : FirstRefusal(b, x) = "allow" => x = "allow"
  <2>1. PICK U : U = {Check(j) : j \in 1 .. 2 * n}
    OBVIOUS
  <2>2. \A j \in 1 .. 2 * n : Check(j) \in U
    BY <2>1
  <2>3. b \in Seq(U)
    <3>1. 2 * n \in Nat
      BY <1>1
    <3> QED BY <1>2, <2>2, <3>1
  <2>4. IsCascade(b)
    BY <2>3 DEF IsCascade
  <2>5. \A j \in DOMAIN b : b[j][2] # "allow"
    BY <1>2, <1>4
  <2> QED BY <2>4, <2>5, GrantsOrRefuses
<1>7. IsCascade(c) /\ \A x : FirstRefusal(c, x) = "allow" => x = "allow"
  BY <1>2, OneCheck, NoChecks
<1>8. IsCascade(a \o b) /\ \A x : FirstRefusal(a \o b, x) = FirstRefusal(a, FirstRefusal(b, x))
  BY <1>5, <1>6, CascadeThen
<1>9. PICK d : d = a \o b
  OBVIOUS
<1>10. IsCascade(d \o c) /\ \A x : FirstRefusal(d \o c, x) = FirstRefusal(d, FirstRefusal(c, x))
  BY <1>7, <1>8, <1>9, CascadeThen
<1> QED BY <1>3, <1>5, <1>6, <1>7, <1>8, <1>9, <1>10

LEMMA CommandParses ==
    ASSUME NEW p
    PROVE  /\ IsCascade(CommandParse(p))
           /\ \A x : FirstRefusal(CommandParse(p), x) = "allow" =>
                 /\ x = "allow"
                 /\ p.flaws \cap
                      {"requestShape", "requestVersion", "undecodable", "bvp", "agentSlot", "agentEnvelope",
                       "credential", "humanSlot", "humanEnvelope", "delegationSlot", "hopEnvelope", "leaf",
                       "binding", "bindingV1", "sig"} = {}
<1>1. PICK a, b, c, d, e : /\ a = CommandRequest /\ b = CommandDecode /\ c = CommandAgentSlot
                           /\ d = CommandZkSlots /\ e = CommandBinding
  OBVIOUS
<1>2. IsCascade(a) /\ IsCascade(b) /\ IsCascade(c) /\ IsCascade(d) /\ IsCascade(e)
  <2>1. IsCascade(a) /\ IsCascade(b)
    BY <1>1, UnflawedTwo DEF CommandRequest, CommandDecode
  <2>2. IsCascade(c) /\ IsCascade(e)
    BY <1>1, UnflawedThree DEF CommandAgentSlot, CommandBinding
  <2>3. IsCascade(d)
    BY <1>1, UnflawedFive DEF CommandZkSlots
  <2> QED BY <2>1, <2>2, <2>3
<1>3. /\ IsCascade(a \o b) /\ IsCascade(a \o b \o c) /\ IsCascade(a \o b \o c \o d)
      /\ IsCascade(a \o b \o c \o d \o e)
  <2>1. IsCascade(a \o b)
    BY <1>2, CascadeThen
  <2>2. IsCascade(a \o b \o c)
    BY <1>2, <2>1, CascadeThen
  <2> QED BY <1>2, <2>1, <2>2, FourCascades, FiveCascades
<1>4. /\ \A x : FirstRefusal(Unflawed(p, a \o b), x) = FirstRefusal(Unflawed(p, a), FirstRefusal(Unflawed(p, b), x))
      /\ \A x : FirstRefusal(Unflawed(p, a \o b \o c), x) = FirstRefusal(Unflawed(p, a \o b), FirstRefusal(Unflawed(p, c), x))
      /\ \A x : FirstRefusal(Unflawed(p, a \o b \o c \o d), x) =
                  FirstRefusal(Unflawed(p, a \o b \o c), FirstRefusal(Unflawed(p, d), x))
      /\ \A x : FirstRefusal(Unflawed(p, a \o b \o c \o d \o e), x) =
                  FirstRefusal(Unflawed(p, a \o b \o c \o d), FirstRefusal(Unflawed(p, e), x))
  BY <1>2, <1>3, UnflawedThen
<1>5. CommandParse(p) = Unflawed(p, a \o b \o c \o d \o e) /\ IsCascade(CommandParse(p))
  BY <1>1, <1>3, UnflawedChecks DEF CommandParse
<1>6. ASSUME NEW x, FirstRefusal(CommandParse(p), x) = "allow"
      PROVE  /\ x = "allow"
             /\ p.flaws \cap
                  {"requestShape", "requestVersion", "undecodable", "bvp", "agentSlot", "agentEnvelope",
                   "credential", "humanSlot", "humanEnvelope", "delegationSlot", "hopEnvelope", "leaf",
                   "binding", "bindingV1", "sig"} = {}
  <2>1. FirstRefusal(Unflawed(p, a), FirstRefusal(Unflawed(p, b), FirstRefusal(Unflawed(p, c),
            FirstRefusal(Unflawed(p, d), FirstRefusal(Unflawed(p, e), x))))) = "allow"
    BY <1>4, <1>5, <1>6
  <2>2. \A y : FirstRefusal(Unflawed(p, a), y) = "allow" =>
          y = "allow" /\ "requestShape" \notin p.flaws /\ "requestVersion" \notin p.flaws
    BY <1>1, UnflawedTwo DEF CommandRequest
  <2>3. \A y : FirstRefusal(Unflawed(p, b), y) = "allow" =>
          y = "allow" /\ "undecodable" \notin p.flaws /\ "bvp" \notin p.flaws
    BY <1>1, UnflawedTwo DEF CommandDecode
  <2>4. \A y : FirstRefusal(Unflawed(p, c), y) = "allow" =>
          y = "allow" /\ "agentSlot" \notin p.flaws /\ "agentEnvelope" \notin p.flaws /\ "credential" \notin p.flaws
    BY <1>1, UnflawedThree DEF CommandAgentSlot
  <2>5. \A y : FirstRefusal(Unflawed(p, d), y) = "allow" =>
          /\ y = "allow" /\ "humanSlot" \notin p.flaws /\ "humanEnvelope" \notin p.flaws
          /\ "delegationSlot" \notin p.flaws /\ "hopEnvelope" \notin p.flaws /\ "leaf" \notin p.flaws
    BY <1>1, UnflawedFive DEF CommandZkSlots
  <2>6. \A y : FirstRefusal(Unflawed(p, e), y) = "allow" =>
          y = "allow" /\ "binding" \notin p.flaws /\ "bindingV1" \notin p.flaws /\ "sig" \notin p.flaws
    BY <1>1, UnflawedThree DEF CommandBinding
  <2> QED BY <2>1, <2>2, <2>3, <2>4, <2>5, <2>6
<1> QED BY <1>5, <1>6

\* What the command has made sure of when it allows.
CommandIsSure(p, asked, trust, instant) ==
    /\ p.flaws \cap
         {"requestShape", "requestVersion", "undecodable", "bvp", "agentSlot", "agentEnvelope",
          "credential", "humanSlot", "humanEnvelope", "delegationSlot", "hopEnvelope", "leaf",
          "binding", "bindingV1", "sig"} = {}
    /\ "agentProof" \notin p.flaws /\ "operatorNumber" \notin p.flaws
    /\ "modelNumber" \notin p.flaws /\ "sigNumber" \notin p.flaws
    /\ p.root \in trust.roots["agent"]
    /\ p.human # None => p.human.session = p.session
    /\ p.scope = Scope(p) /\ SignedBinding(p) /\ p.binding.expiry = p.expiry
    /\ asked.subject = p.binding.subject /\ asked.model = p.binding.model
    /\ asked.capabilities \subseteq p.binding.capabilities /\ p.model = asked.model
    /\ asked.capabilities \subseteq DOMAIN CommandCapabilityMap
    /\ ValidCumulative(EffectiveScope(p))
    /\ ValidCumulative(Required(CommandCapabilityMap, asked.capabilities))
    /\ Required(CommandCapabilityMap, asked.capabilities) \subseteq EffectiveScope(p)
    /\ instant < EffectiveExpiry(p) /\ p.nullifier # None

LEMMA CommandAllows ==
    ASSUME NEW p, NEW asked, NEW trust, NEW instant, NEW D, p.delegation \in Seq(D),
           CommandVerdict(p, asked, trust, instant) = "allow"
    PROVE  CommandIsSure(p, asked, trust, instant)
<1>1. PICK t, m : t = (instant < EffectiveExpiry(p)) /\ m = (p.nullifier # None)
  OBVIOUS
<1>2. PICK c1, c2, c3, c4, c5, c6, c7, c8, c9 :
         /\ c1 = CommandParse(p) /\ c2 = CommandProofs(p, trust) /\ c3 = CommandRoots(p, trust)
         /\ c4 = CommandHuman(p, trust) /\ c5 = CommandSignature(p) /\ c6 = CommandDelegation(p, trust)
         /\ c7 = CommandMatch(p, asked) /\ c8 = CommandScope(p, asked)
         /\ c9 = <<<<t, "expired">>, <<m, "nonce_missing">>>>
  OBVIOUS
<1>3. FirstRefusal(c1 \o c2 \o c3 \o c4 \o c5 \o c6 \o c7 \o c8 \o c9, "allow") = "allow"
  BY <1>1, <1>2 DEF CommandVerdict
<1>4. IsCascade(c1) /\ IsCascade(c2) /\ IsCascade(c3) /\ IsCascade(c4) /\ IsCascade(c5)
  BY <1>2, CommandParses, CommandProves, CommandTrusts, CommandHumans, CommandSigns
<1>5. IsCascade(c6) /\ IsCascade(c7) /\ IsCascade(c8) /\ IsCascade(c9)
  BY <1>2, CommandDelegates, CommandMatches, CommandScopes, TwoChecks
<1>6. PICK e : e = c1 \o c2 \o c3 \o c4 \o c5
  OBVIOUS
<1>7. IsCascade(e) /\ \A x : FirstRefusal(e, x) =
        FirstRefusal(c1, FirstRefusal(c2, FirstRefusal(c3, FirstRefusal(c4, FirstRefusal(c5, x)))))
  BY <1>4, <1>6, FiveCascades
<1>8. FirstRefusal(e \o c6 \o c7 \o c8 \o c9, "allow") =
        FirstRefusal(e, FirstRefusal(c6, FirstRefusal(c7, FirstRefusal(c8, FirstRefusal(c9, "allow")))))
  BY <1>5, <1>7, FiveCascades
<1>9. PICK r1, r2, r3, r4, r5, r6, r7, r8, r9 :
         /\ r9 = FirstRefusal(c9, "allow") /\ r8 = FirstRefusal(c8, r9) /\ r7 = FirstRefusal(c7, r8)
         /\ r6 = FirstRefusal(c6, r7) /\ r5 = FirstRefusal(c5, r6) /\ r4 = FirstRefusal(c4, r5)
         /\ r3 = FirstRefusal(c3, r4) /\ r2 = FirstRefusal(c2, r3) /\ r1 = FirstRefusal(c1, r2)
  OBVIOUS
<1>10. r1 = "allow"
  BY <1>3, <1>6, <1>7, <1>8, <1>9
<1>11. /\ r2 = "allow"
       /\ p.flaws \cap
            {"requestShape", "requestVersion", "undecodable", "bvp", "agentSlot", "agentEnvelope",
             "credential", "humanSlot", "humanEnvelope", "delegationSlot", "hopEnvelope", "leaf",
             "binding", "bindingV1", "sig"} = {}
  BY <1>2, <1>9, <1>10, CommandParses
<1>12. r3 = "allow" /\ "agentProof" \notin p.flaws /\ "operatorNumber" \notin p.flaws
  BY <1>2, <1>9, <1>11, CommandProves
<1>13. r4 = "allow" /\ p.root \in trust.roots["agent"]
  BY <1>2, <1>9, <1>12, CommandTrusts
<1>14. r5 = "allow" /\ (p.human # None => p.human.session = p.session)
  BY <1>2, <1>9, <1>13, CommandHumans
<1>15. /\ r6 = "allow" /\ "modelNumber" \notin p.flaws /\ "sigNumber" \notin p.flaws
       /\ p.scope = Scope(p) /\ SignedBinding(p) /\ p.binding.expiry = p.expiry
  BY <1>2, <1>9, <1>14, CommandSigns
<1>16. r7 = "allow"
  BY <1>2, <1>9, <1>15, CommandDelegates
<1>17. /\ r8 = "allow" /\ asked.subject = p.binding.subject /\ asked.model = p.binding.model
       /\ asked.capabilities \subseteq p.binding.capabilities /\ p.model = asked.model
  BY <1>2, <1>9, <1>16, CommandMatches
<1>18. /\ r9 = "allow" /\ asked.capabilities \subseteq DOMAIN CommandCapabilityMap
       /\ ValidCumulative(EffectiveScope(p))
       /\ ValidCumulative(Required(CommandCapabilityMap, asked.capabilities))
       /\ Required(CommandCapabilityMap, asked.capabilities) \subseteq EffectiveScope(p)
  BY <1>2, <1>9, <1>17, CommandScopes
<1>19. instant < EffectiveExpiry(p) /\ p.nullifier # None
  <2>1. r9 = IF t THEN IF m THEN "allow" ELSE "nonce_missing" ELSE "expired"
    BY <1>2, <1>9, TwoChecks
  <2>2. t /\ m
    BY <1>18, <2>1
  <2> QED BY <1>1, <2>2
<1> QED BY <1>11, <1>12, <1>13, <1>14, <1>15, <1>17, <1>18, <1>19 DEF CommandIsSure

\* What the hosted port has made sure of when it allows, and what is enough for it.
LEMMA HostedAllows ==
    ASSUME NEW p, NEW asked, NEW trusted, NEW instant
    PROVE  /\ HostedVerdict(p, asked, trusted, instant) = "allow" =>
                /\ p.operator \in trusted /\ SignedBinding(p) /\ p.binding.expiry = p.expiry
                /\ asked.subject = p.binding.subject /\ asked.model = p.binding.model
                /\ asked.capabilities \subseteq p.binding.capabilities /\ instant < p.expiry
           /\ (/\ p.flaws \cap
                    {"requestShape", "requestVersion", "kind", "undecodable", "bvp", "agentSlot",
                     "agentEnvelope", "credential", "humanSlot", "humanEnvelope", "delegationSlot",
                     "hopEnvelope", "leaf", "binding", "bindingV1", "sig", "operatorNumber",
                     "sigNumber", "modelNumber"} = {}
               /\ p.human = None /\ p.delegation = <<>>
               /\ p.operator \in trusted /\ SignedBinding(p) /\ p.binding.expiry = p.expiry
               /\ asked.subject = p.binding.subject /\ asked.model = p.binding.model
               /\ asked.capabilities \subseteq p.binding.capabilities /\ p.model = asked.model
               /\ p.scope = Scope(p) /\ asked.capabilities \subseteq DOMAIN HostedCapabilityMap
               /\ ValidCumulative(p.permissions)
               /\ ValidCumulative(Required(HostedCapabilityMap, asked.capabilities))
               /\ Required(HostedCapabilityMap, asked.capabilities) \subseteq p.permissions
               /\ instant < p.expiry /\ p.nullifier # None) =>
                HostedVerdict(p, asked, trusted, instant) = "allow"
<1>1. PICK r1, r2, r3, r4, r5 :
         /\ r5 = HostedEnd(p, instant) /\ r4 = FirstRefusal(HostedScope(p, asked), r5)
         /\ r3 = FirstRefusal(HostedMatch(p, asked), r4)
         /\ r2 = FirstRefusal(HostedSignature(p), r3)
         /\ r1 = FirstRefusal(HostedTrust(p, trusted), r2)
  OBVIOUS
<1>2. r1 = HostedRest(p, asked, trusted, instant)
  BY <1>1 DEF HostedRest
<1>3. PICK q, s : /\ q = IF p.human = None /\ p.delegation = <<>> THEN r1 ELSE "invalid_proof"
                  /\ s = IF "kind" \notin p.flaws THEN FirstRefusal(HostedParse(p), q) ELSE "invalid_proof"
  OBVIOUS
<1>4. HostedVerdict(p, asked, trusted, instant) = FirstRefusal(Unflawed(p, HostedRequest), s)
  BY <1>2, <1>3, HostedNested
<1>5. r2 = IF "sigNumber" \notin p.flaws
           THEN IF SignedBinding(p)
                THEN IF p.binding.expiry = p.expiry THEN r3 ELSE "invalid_bundle"
                ELSE "invalid_signature"
           ELSE "internal_error"
  BY <1>1, HostedSigns
<1>6. r1 = IF "operatorNumber" \notin p.flaws
           THEN IF p.operator \in trusted THEN r2 ELSE "untrusted_root"
           ELSE "internal_error"
  BY <1>1, HostedTrusts
<1>7. r3 = IF asked.subject = p.binding.subject /\ asked.model = p.binding.model
           THEN IF asked.capabilities \subseteq p.binding.capabilities
                THEN IF "modelNumber" \notin p.flaws
                     THEN IF p.model = asked.model THEN r4 ELSE "model_mismatch"
                     ELSE "internal_error"
                ELSE "request_mismatch"
           ELSE "request_mismatch"
  BY <1>1, HostedMatches
<1>8. r4 = IF p.scope = Scope(p)
           THEN IF asked.capabilities \subseteq DOMAIN HostedCapabilityMap
                THEN IF /\ ValidCumulative(p.permissions)
                        /\ ValidCumulative(Required(HostedCapabilityMap, asked.capabilities))
                     THEN IF Required(HostedCapabilityMap, asked.capabilities) \subseteq p.permissions
                          THEN r5 ELSE "scope_exceeded"
                     ELSE "internal_error"
                ELSE "unknown_capability"
           ELSE "invalid_proof"
  BY <1>1, HostedScopes
<1>9. r5 = IF instant < p.expiry THEN IF p.nullifier # None THEN "allow" ELSE "nonce_missing" ELSE "expired"
  BY <1>1 DEF HostedEnd
<1>10. ASSUME HostedVerdict(p, asked, trusted, instant) = "allow"
       PROVE  /\ p.operator \in trusted /\ SignedBinding(p) /\ p.binding.expiry = p.expiry
              /\ asked.subject = p.binding.subject /\ asked.model = p.binding.model
              /\ asked.capabilities \subseteq p.binding.capabilities /\ instant < p.expiry
  <2>1. s = "allow"
    <3>1. \A x : FirstRefusal(Unflawed(p, HostedRequest), x) = "allow" => x = "allow"
      BY UnflawedTwo DEF HostedRequest
    <3> QED BY <1>4, <1>10, <3>1
  <2>2. FirstRefusal(HostedParse(p), q) = "allow"
    BY <1>3, <2>1
  <2>3. q = "allow"
    <3>1. \A x : FirstRefusal(Unflawed(p, HostedDecode), x) = "allow" => x = "allow"
      BY UnflawedTwo DEF HostedDecode
    <3>2. \A x : FirstRefusal(Unflawed(p, HostedAgentSlot), x) = "allow" => x = "allow"
      BY UnflawedThree DEF HostedAgentSlot
    <3>3. \A x : FirstRefusal(Unflawed(p, HostedZkSlots), x) = "allow" => x = "allow"
      BY UnflawedFive DEF HostedZkSlots
    <3>4. \A x : FirstRefusal(Unflawed(p, HostedBinding), x) = "allow" => x = "allow"
      BY UnflawedThree DEF HostedBinding
    <3> QED BY <2>2, <3>1, <3>2, <3>3, <3>4, HostedParses
  <2>4. r1 = "allow"
    BY <1>3, <2>3
  <2>5. r2 = "allow" /\ p.operator \in trusted
    BY <1>6, <2>4
  <2>6. r3 = "allow" /\ SignedBinding(p) /\ p.binding.expiry = p.expiry
    BY <1>5, <2>5
  <2>7. /\ r4 = "allow" /\ asked.subject = p.binding.subject /\ asked.model = p.binding.model
        /\ asked.capabilities \subseteq p.binding.capabilities
    BY <1>7, <2>6
  <2>8. r5 = "allow"
    BY <1>8, <2>7
  <2> QED BY <1>9, <2>5, <2>6, <2>7, <2>8
<1>11. ASSUME p.flaws \cap
                 {"requestShape", "requestVersion", "kind", "undecodable", "bvp", "agentSlot",
                  "agentEnvelope", "credential", "humanSlot", "humanEnvelope", "delegationSlot",
                  "hopEnvelope", "leaf", "binding", "bindingV1", "sig", "operatorNumber",
                  "sigNumber", "modelNumber"} = {},
              p.human = None, p.delegation = <<>>, r1 = "allow"
       PROVE  HostedVerdict(p, asked, trusted, instant) = "allow"
  <2>1. PICK f : f = p.flaws
    OBVIOUS
  <2>2. /\ "requestShape" \notin f /\ "requestVersion" \notin f /\ "kind" \notin f
        /\ "undecodable" \notin f /\ "bvp" \notin f
        /\ "agentSlot" \notin f /\ "agentEnvelope" \notin f /\ "credential" \notin f
        /\ "humanSlot" \notin f /\ "humanEnvelope" \notin f /\ "delegationSlot" \notin f
        /\ "hopEnvelope" \notin f /\ "leaf" \notin f
        /\ "binding" \notin f /\ "bindingV1" \notin f /\ "sig" \notin f
    BY <1>11, <2>1
  <2>3. q = "allow"
    BY <1>3, <1>11
  <2>4. \A x : FirstRefusal(Unflawed(p, HostedDecode), x) = x
    BY <2>1, <2>2, UnflawedTwo DEF HostedDecode
  <2>5. \A x : FirstRefusal(Unflawed(p, HostedAgentSlot), x) = x
    BY <2>1, <2>2, UnflawedThree DEF HostedAgentSlot
  <2>6. \A x : FirstRefusal(Unflawed(p, HostedZkSlots), x) = x
    BY <2>1, <2>2, UnflawedFive DEF HostedZkSlots
  <2>7. \A x : FirstRefusal(Unflawed(p, HostedBinding), x) = x
    BY <2>1, <2>2, UnflawedThree DEF HostedBinding
  <2>8. \A x : FirstRefusal(Unflawed(p, HostedRequest), x) = x
    BY <2>1, <2>2, UnflawedTwo DEF HostedRequest
  <2>9. FirstRefusal(HostedParse(p), q) = "allow"
    BY <2>3, <2>4, <2>5, <2>6, <2>7, HostedParses
  <2> QED BY <1>3, <1>4, <2>1, <2>2, <2>8, <2>9
<1>12. ASSUME p.flaws \cap {"operatorNumber", "sigNumber", "modelNumber"} = {},
              p.operator \in trusted, SignedBinding(p), p.binding.expiry = p.expiry,
              asked.subject = p.binding.subject, asked.model = p.binding.model,
              asked.capabilities \subseteq p.binding.capabilities, p.model = asked.model,
              p.scope = Scope(p), asked.capabilities \subseteq DOMAIN HostedCapabilityMap,
              ValidCumulative(p.permissions),
              ValidCumulative(Required(HostedCapabilityMap, asked.capabilities)),
              Required(HostedCapabilityMap, asked.capabilities) \subseteq p.permissions,
              instant < p.expiry, p.nullifier # None
       PROVE  r1 = "allow"
  <2>1. "operatorNumber" \notin p.flaws /\ "sigNumber" \notin p.flaws /\ "modelNumber" \notin p.flaws
    BY <1>12
  <2> QED BY <1>5, <1>6, <1>7, <1>8, <1>9, <1>12, <2>1
<1> QED BY <1>10, <1>11, <1>12

\* What the gate's port has made sure of when it allows, and what is enough for it.
LEMMA InProcessAllows ==
    ASSUME NEW p, NEW asked, NEW trusted, NEW instant
    PROVE  /\ InProcessVerdict(p, asked, trusted, instant) = "allow" =>
                /\ p.operator \in trusted /\ SignedBinding(p) /\ p.binding.expiry = p.expiry
                /\ asked.subject = p.binding.subject /\ asked.model = p.binding.model
                /\ asked.capabilities \subseteq p.binding.capabilities /\ instant < p.expiry
           /\ (/\ p.flaws = {"agentProof"} /\ p.human = None /\ p.delegation = <<>>
               /\ p.operator \in trusted /\ SignedBinding(p) /\ p.binding.expiry = p.expiry
               /\ asked.subject = p.binding.subject /\ asked.model = p.binding.model
               /\ asked.capabilities \subseteq p.binding.capabilities /\ p.model = asked.model
               /\ p.scope = Scope(p) /\ asked.capabilities \subseteq DOMAIN MppCapabilityMap
               /\ ValidCumulative(p.permissions)
               /\ ValidCumulative(Required(MppCapabilityMap, asked.capabilities))
               /\ Required(MppCapabilityMap, asked.capabilities) \subseteq p.permissions
               /\ instant < p.expiry) =>
                InProcessVerdict(p, asked, trusted, instant) = "allow"
<1>1. PICK r1, r2, r3, r4, r5, r6 :
         /\ r6 = InProcessEnd(p, instant) /\ r5 = FirstRefusal(InProcessScope(p, asked), r6)
         /\ r4 = FirstRefusal(InProcessMatch(p, asked), r5)
         /\ r3 = FirstRefusal(InProcessExpiry(p), r4)
         /\ r2 = FirstRefusal(InProcessSignature(p), r3)
         /\ r1 = FirstRefusal(InProcessTrust(p, trusted), r2)
  OBVIOUS
<1>2. r1 = InProcessRest(p, asked, trusted, instant)
  BY <1>1 DEF InProcessRest
<1>3. PICK q : q = IF p.human = None /\ p.delegation = <<>> THEN r1 ELSE "invalid_proof"
  OBVIOUS
<1>4. InProcessVerdict(p, asked, trusted, instant) =
        FirstRefusal(Unflawed(p, InProcessDecode), FirstRefusal(Unflawed(p, InProcessAgentSlot),
            FirstRefusal(Unflawed(p, InProcessBinding), q)))
  BY <1>2, <1>3, InProcessNested
<1>5. r1 = IF "operatorNumber" \notin p.flaws
           THEN IF trusted # {}
                THEN IF p.operator \in trusted THEN r2 ELSE "untrusted_root"
                ELSE "internal_error"
           ELSE "invalid_bundle"
  BY <1>1, InProcessTrusts
<1>6. r2 = IF "sigNumber" \notin p.flaws
           THEN IF SignedBinding(p) THEN r3 ELSE "invalid_signature"
           ELSE "invalid_bundle"
  BY <1>1, InProcessSigns
<1>7. r3 = IF p.binding.expiry = p.expiry THEN r4 ELSE "invalid_bundle"
  BY <1>1, InProcessExpires
<1>8. r4 = IF asked.subject = p.binding.subject /\ asked.model = p.binding.model
           THEN IF asked.capabilities \subseteq p.binding.capabilities
                THEN IF "modelNumber" \notin p.flaws
                     THEN IF p.model = asked.model THEN r5 ELSE "model_mismatch"
                     ELSE "invalid_bundle"
                ELSE "request_mismatch"
           ELSE "request_mismatch"
  BY <1>1, InProcessMatches
<1>9. r5 = IF p.scope = Scope(p)
           THEN IF asked.capabilities \subseteq DOMAIN MppCapabilityMap
                THEN IF /\ ValidCumulative(p.permissions)
                        /\ ValidCumulative(Required(MppCapabilityMap, asked.capabilities))
                     THEN IF Required(MppCapabilityMap, asked.capabilities) \subseteq p.permissions
                          THEN r6 ELSE "scope_exceeded"
                     ELSE "invalid_bundle"
                ELSE "unknown_capability"
           ELSE "invalid_proof"
  BY <1>1, InProcessScopes
<1>10. r6 = IF instant < p.expiry THEN "allow" ELSE "expired"
  BY <1>1 DEF InProcessEnd
<1>11. ASSUME InProcessVerdict(p, asked, trusted, instant) = "allow"
       PROVE  /\ p.operator \in trusted /\ SignedBinding(p) /\ p.binding.expiry = p.expiry
              /\ asked.subject = p.binding.subject /\ asked.model = p.binding.model
              /\ asked.capabilities \subseteq p.binding.capabilities /\ instant < p.expiry
  <2>1. q = "allow"
    <3>1. \A x : FirstRefusal(Unflawed(p, InProcessDecode), x) = "allow" => x = "allow"
      BY UnflawedTwo DEF InProcessDecode
    <3>2. \A x : FirstRefusal(Unflawed(p, InProcessAgentSlot), x) = "allow" => x = "allow"
      BY UnflawedThree DEF InProcessAgentSlot
    <3>3. \A x : FirstRefusal(Unflawed(p, InProcessBinding), x) = "allow" => x = "allow"
      BY UnflawedThree DEF InProcessBinding
    <3> QED BY <1>4, <1>11, <3>1, <3>2, <3>3
  <2>2. r1 = "allow"
    BY <1>3, <2>1
  <2>3. r2 = "allow" /\ p.operator \in trusted
    BY <1>5, <2>2
  <2>4. r3 = "allow" /\ SignedBinding(p)
    BY <1>6, <2>3
  <2>5. r4 = "allow" /\ p.binding.expiry = p.expiry
    BY <1>7, <2>4
  <2>6. /\ r5 = "allow" /\ asked.subject = p.binding.subject /\ asked.model = p.binding.model
        /\ asked.capabilities \subseteq p.binding.capabilities
    BY <1>8, <2>5
  <2>7. r6 = "allow"
    BY <1>9, <2>6
  <2> QED BY <1>10, <2>3, <2>4, <2>5, <2>6, <2>7
<1>12. ASSUME p.flaws = {"agentProof"}, p.human = None, p.delegation = <<>>, r1 = "allow"
       PROVE  InProcessVerdict(p, asked, trusted, instant) = "allow"
  <2>1. PICK f : f = p.flaws
    OBVIOUS
  <2>2. /\ "undecodable" \notin f /\ "bvp" \notin f
        /\ "agentSlot" \notin f /\ "agentEnvelope" \notin f /\ "credential" \notin f
        /\ "binding" \notin f /\ "bindingV1" \notin f /\ "sig" \notin f
    BY <1>12, <2>1
  <2>3. \A x : FirstRefusal(Unflawed(p, InProcessDecode), x) = x
    BY <2>1, <2>2, UnflawedTwo DEF InProcessDecode
  <2>4. \A x : FirstRefusal(Unflawed(p, InProcessAgentSlot), x) = x
    BY <2>1, <2>2, UnflawedThree DEF InProcessAgentSlot
  <2>5. \A x : FirstRefusal(Unflawed(p, InProcessBinding), x) = x
    BY <2>1, <2>2, UnflawedThree DEF InProcessBinding
  <2> QED BY <1>3, <1>4, <1>12, <2>3, <2>4, <2>5
<1>13. ASSUME p.flaws = {"agentProof"},
              p.operator \in trusted, SignedBinding(p), p.binding.expiry = p.expiry,
              asked.subject = p.binding.subject, asked.model = p.binding.model,
              asked.capabilities \subseteq p.binding.capabilities, p.model = asked.model,
              p.scope = Scope(p), asked.capabilities \subseteq DOMAIN MppCapabilityMap,
              ValidCumulative(p.permissions),
              ValidCumulative(Required(MppCapabilityMap, asked.capabilities)),
              Required(MppCapabilityMap, asked.capabilities) \subseteq p.permissions,
              instant < p.expiry
       PROVE  r1 = "allow"
  <2>1. "operatorNumber" \notin p.flaws /\ "sigNumber" \notin p.flaws /\ "modelNumber" \notin p.flaws
    BY <1>13
  <2>2. trusted # {}
    BY <1>13
  <2> QED BY <1>5, <1>6, <1>7, <1>8, <1>9, <1>10, <1>13, <2>1, <2>2
<1> QED BY <1>11, <1>12, <1>13

\* The ceilings are those of the tiers: issuance and the gate cut the amounts at the
\* same places (issueMandate, tierForAmount).
LEMMA TiersAreCumulative ==
    /\ CumulativeCapabilities("small") = {"small"}
    /\ CumulativeCapabilities("medium") = {"small", "medium"}
    /\ CumulativeCapabilities("unlimited") = {"small", "medium", "unlimited"}
<1>1. DOMAIN Tiers = {1, 2, 3} /\ Tiers[1] = "small" /\ Tiers[2] = "medium" /\ Tiers[3] = "unlimited"
  BY DEF Tiers
<1>2. /\ (CHOOSE i \in DOMAIN Tiers : Tiers[i] = "small") = 1
      /\ (CHOOSE i \in DOMAIN Tiers : Tiers[i] = "medium") = 2
      /\ (CHOOSE i \in DOMAIN Tiers : Tiers[i] = "unlimited") = 3
  BY <1>1
<1>3. 1 .. 1 = {1} /\ 1 .. 2 = {1, 2} /\ 1 .. 3 = {1, 2, 3}
  OBVIOUS
<1> QED BY <1>1, <1>2, <1>3 DEF CumulativeCapabilities

LEMMA MandatesAreHonoured ==
    ASSUME NEW p, NEW i \in DOMAIN Tiers, Issued(p, Tiers[i]), NEW instant
    PROVE  Honoured(p, Tiers[i], instant)
<1>1. PICK tier : tier = Tiers[i]
  OBVIOUS
<1>2. tier \in {"small", "medium", "unlimited"}
  BY <1>1 DEF Tiers
<1>3. PICK b : b = [subject |-> p.binding.subject, model |-> p.binding.model,
                    capabilities |-> CumulativeCapabilities(tier), expiry |-> p.binding.expiry]
  OBVIOUS
<1>4. p = MintPresentation(p.operator, b, MppCapabilityMap[tier], p.nullifier)
  BY <1>1, <1>3 DEF Issued, IssueMandate
<1>5. PICK P : P = MppCapabilityMap[tier]
  OBVIOUS
<1>6. /\ p.flaws = {"agentProof"} /\ p.human = None /\ p.delegation = <<>>
      /\ p.binding = b /\ p.signature = [by |-> p.operator, over |-> b]
      /\ p.model = b.model /\ p.expiry = b.expiry /\ p.permissions = P
      /\ p.scope = <<b.model, p.operator, P, b.expiry>>
  BY <1>4, <1>5 DEF MintPresentation
<1>7. SignedBinding(p) /\ p.binding.expiry = p.expiry /\ p.scope = Scope(p)
  BY <1>6 DEF SignedBinding, Scope
<1>8. \A t \in {"small", "medium", "unlimited"} :
         /\ {t} \subseteq DOMAIN MppCapabilityMap /\ Required(MppCapabilityMap, {t}) = MppCapabilityMap[t]
         /\ ValidCumulative(MppCapabilityMap[t])
  <2>1. /\ DOMAIN MppCapabilityMap = {"small", "medium", "unlimited"}
        /\ MppCapabilityMap["small"] = {"SMALL"} /\ MppCapabilityMap["medium"] = {"SMALL", "MEDIUM"}
        /\ MppCapabilityMap["unlimited"] = {"SMALL", "MEDIUM", "UNLIMITED"}
    BY DEF MppCapabilityMap
  <2>2. ASSUME NEW m, NEW t \in DOMAIN m
        PROVE  Required(m, {t}) = m[t]
    <3>1. {m[c] : c \in {t} \cap DOMAIN m} = {m[t]}
      OBVIOUS
    <3>2. UNION {m[t]} = m[t]
      OBVIOUS
    <3> QED BY <3>1, <3>2 DEF Required
  <2>3. \A t \in {"small", "medium", "unlimited"} : ValidCumulative(MppCapabilityMap[t])
    BY <2>1 DEF ValidCumulative
  <2>4. \A t \in {"small", "medium", "unlimited"} : Required(MppCapabilityMap, {t}) = MppCapabilityMap[t]
    BY <2>1, <2>2
  <2> QED BY <2>1, <2>3, <2>4
<1>9. PICK trusted : trusted = {p.operator}
  OBVIOUS
<1>10. ASSUME NEW amount \in {0, 99, 100, 9999, 10000}
      PROVE  LET asked == [subject |-> p.binding.subject, model |-> p.binding.model,
                           capabilities |-> {RequiredTier(amount)}]
             IN  InProcessVerdict(p, asked, {p.operator}, instant) = "allow"
                     <=> WithinCeiling(amount, tier) /\ instant < p.expiry
  <2>1. PICK t : t = RequiredTier(amount)
    OBVIOUS
  <2> DEFINE asked == [subject |-> p.binding.subject, model |-> p.binding.model, capabilities |-> {t}]
  <2>2. asked = [subject |-> p.binding.subject, model |-> p.binding.model, capabilities |-> {t}]
    OBVIOUS
  <2> HIDE DEF asked
  <2>3. /\ amount < 100 => t = "small"
        /\ amount >= 100 /\ amount < 10000 => t = "medium"
        /\ amount >= 10000 => t = "unlimited"
    BY <2>1 DEF RequiredTier
  <2>4. t \in {"small", "medium", "unlimited"} /\ (t \in CumulativeCapabilities(tier) <=> WithinCeiling(amount, tier))
    BY <1>2, <2>3, TiersAreCumulative DEF WithinCeiling
  <2>5. /\ asked.subject = p.binding.subject /\ asked.model = p.binding.model /\ asked.capabilities = {t}
        /\ p.model = asked.model /\ p.binding.capabilities = CumulativeCapabilities(tier)
    BY <1>3, <1>6, <2>2
  <2>6. InProcessVerdict(p, asked, {p.operator}, instant) = "allow" => t \in CumulativeCapabilities(tier) /\ instant < p.expiry
    BY <2>5, InProcessAllows
  <2>7. t \in CumulativeCapabilities(tier) => MppCapabilityMap[t] \subseteq P
    BY <1>2, <1>5, TiersAreCumulative DEF MppCapabilityMap
  <2>8. ValidCumulative(p.permissions)
    BY <1>2, <1>5, <1>6, <1>8
  <2>9. ASSUME t \in CumulativeCapabilities(tier), instant < p.expiry
        PROVE  InProcessVerdict(p, asked, {p.operator}, instant) = "allow"
    <3>1. /\ asked.capabilities \subseteq p.binding.capabilities
          /\ asked.capabilities \subseteq DOMAIN MppCapabilityMap
          /\ ValidCumulative(Required(MppCapabilityMap, asked.capabilities))
          /\ Required(MppCapabilityMap, asked.capabilities) \subseteq p.permissions
      <4>1. /\ {t} \subseteq DOMAIN MppCapabilityMap /\ Required(MppCapabilityMap, {t}) = MppCapabilityMap[t]
            /\ ValidCumulative(MppCapabilityMap[t])
        BY <1>8, <2>4
      <4>2. asked.capabilities = {t}
        BY <2>5
      <4>3. {t} \subseteq p.binding.capabilities
        BY <2>5, <2>9
      <4>4. MppCapabilityMap[t] \subseteq p.permissions
        BY <1>6, <2>7, <2>9
      <4>5. /\ asked.capabilities \subseteq p.binding.capabilities
            /\ asked.capabilities \subseteq DOMAIN MppCapabilityMap
        BY <4>1, <4>2, <4>3
      <4>6. /\ ValidCumulative(Required(MppCapabilityMap, asked.capabilities))
            /\ Required(MppCapabilityMap, asked.capabilities) \subseteq p.permissions
        BY <4>1, <4>2, <4>4
      <4> QED BY <4>5, <4>6
    <3>2. instant < p.expiry /\ p.operator \in trusted
      BY <1>9, <2>9
    <3>3. p.flaws = {"agentProof"} /\ p.human = None /\ p.delegation = <<>>
      BY <1>6
    <3>4. /\ asked.subject = p.binding.subject /\ asked.model = p.binding.model
          /\ p.model = asked.model
      BY <2>5
    <3>5. InProcessVerdict(p, asked, trusted, instant) = "allow"
      BY <1>7, <2>8, <3>1, <3>2, <3>3, <3>4, InProcessAllows
    <3> QED BY <1>9, <3>5
  <2> QED BY <2>1, <2>2, <2>4, <2>6, <2>9
<1> QED BY <1>1, <1>10 DEF Honoured

-----------------------------------------------------------------------------
(* Theorems about the ports.                                               *)

LEMMA ScenariosAreInOrder ==
    ASSUME scenario \in Scenarios, NEW h \in Running, NEW instant \in Nat
    PROVE  /\ \E D : Presented(h).delegation \in Seq(D)
           /\ instant < EffectiveExpiry(Presented(h)) => instant < Presented(h).expiry
<1>1. PICK p : p = Presented(h)
  OBVIOUS
<1>2. PICK hops : hops = {p.delegation[i] : i \in DOMAIN p.delegation}
  OBVIOUS
<1>3. p.expiry \in Nat /\ p.delegation \in Seq(hops) /\ \A hop \in hops : hop.leaf.expiry \in Nat
  <2>1. p \in {scenario.asks[k].p : k \in DOMAIN scenario.asks}
    BY <1>1, Zenon DEF Presented, Running
  <2> QED BY <1>2, <2>1, HostAssumption, Zenon
<1>4. ASSUME p.delegation # <<>>
      PROVE  Leaf(p).expiry \in Nat
  <2>1. Len(p.delegation) \in DOMAIN p.delegation
    BY <1>3, <1>4
  <2> QED BY <1>2, <1>3, <2>1 DEF Leaf
<1>5. instant < EffectiveExpiry(p) => instant < p.expiry
  BY <1>3, <1>4 DEF EffectiveExpiry
<1> QED BY <1>1, <1>3, <1>5

\* What an operator signed over exactly what is asked, and what has not expired, is
\* authorized.
LEMMA SignedIsAuthorized ==
    ASSUME NEW p, NEW asked, NEW operators, NEW instant,
           p.operator \in operators, SignedBinding(p), p.binding.expiry = p.expiry,
           asked.subject = p.binding.subject, asked.model = p.binding.model,
           asked.capabilities \subseteq p.binding.capabilities, instant < p.expiry
    PROVE  Authorized(p, asked, operators, instant)
<1>1. p.signature.by = p.operator /\ p.signature.over = p.binding
  BY DEF SignedBinding
<1> QED BY <1>1 DEF Authorized

\* A port answers allow, and a host acts, only for what a trusted operator has
\* signed and while it lasts; the gate grants with a mandate exactly the amounts its
\* tier covers, until it expires (HostedVerdict, InProcessVerdict, CommandVerdict,
\* issueMandate, finish).
THEOREM AllowsAreSigned == HSpec => []AllowedAsSigned
<1>1. HostsInv => AllowedAsSigned
  <2> SUFFICES ASSUME HostsInv
               PROVE  AllowedAsSigned
    OBVIOUS
  <2>1. ASSUME NEW p, NEW asked, HostedVerdict(p, asked, scenario.trusted, clock) = "allow"
        PROVE  Authorized(p, asked, scenario.trusted, clock)
    BY <2>1, HostedAllows, SignedIsAuthorized
  <2>2. ASSUME NEW p, NEW asked, InProcessVerdict(p, asked, scenario.trusted, clock) = "allow"
        PROVE  Authorized(p, asked, scenario.trusted, clock)
    BY <2>2, InProcessAllows, SignedIsAuthorized
  <2>3. ASSUME NEW p, NEW i \in DOMAIN Tiers, Issued(p, Tiers[i])
        PROVE  Honoured(p, Tiers[i], clock)
    BY <2>3, MandatesAreHonoured
  <2>4. ASSUME NEW a \in acted
        PROVE  LET p == Presented(a.by)
               IN  /\ Authorized(p, Asked(a.by), {p.operator}, a.asked)
                   /\ p.root \in scenario.trust.roots["agent"] /\ "agentProof" \notin p.flaws
                   /\ p.human # None => p.human.session = p.session
                   /\ verifiers[a.by].process = "exited" /\ ~hosts[a.by].timedOut
    <3>1. PICK h : h = a.by
      OBVIOUS
    <3>2. /\ h \in Hosts /\ hosts[h].decision = "allow" /\ a.asked = hosts[h].now
          /\ IsHost(hosts[h]) /\ (Beyond(h) => Granted(h))
      BY <2>4, <3>1, SMTT(60) DEF HostsInv, ActedInv, HostInv
    <3>3. Granted(h) /\ a.asked \in Nat
      BY <3>2 DEF Beyond, Won, IsHost
    <3>4. PICK p, asked, instant : p = Presented(h) /\ asked = Asked(h) /\ instant = a.asked
      OBVIOUS
    <3>5. /\ h \in Running /\ CommandVerdict(p, asked, scenario.trust, instant) = "allow"
          /\ verifiers[h].process = "exited" /\ ~hosts[h].timedOut
      BY <3>2, <3>3, <3>4 DEF Granted, Verdict
    <3>6. (\E D : p.delegation \in Seq(D)) /\ (instant < EffectiveExpiry(p) => instant < p.expiry)
      BY <3>3, <3>4, <3>5, ScenariosAreInOrder DEF HostsInv
    <3>7. PICK D : p.delegation \in Seq(D)
      BY <3>6
    <3>8. /\ p.root \in scenario.trust.roots["agent"] /\ "agentProof" \notin p.flaws
          /\ p.human # None => p.human.session = p.session
          /\ SignedBinding(p) /\ p.binding.expiry = p.expiry
          /\ asked.subject = p.binding.subject /\ asked.model = p.binding.model
          /\ asked.capabilities \subseteq p.binding.capabilities /\ instant < EffectiveExpiry(p)
      <4>1. CommandIsSure(p, asked, scenario.trust, instant)
        BY <3>5, <3>7, CommandAllows
      <4> QED BY <4>1 DEF CommandIsSure
    <3>9. PICK operators : operators = {p.operator}
      OBVIOUS
    <3>10. Authorized(p, asked, operators, instant)
      BY <3>6, <3>8, <3>9, SignedIsAuthorized
    <3> QED BY <3>1, <3>4, <3>5, <3>8, <3>9, <3>10
  <2> QED BY <2>1, <2>2, <2>3, <2>4 DEF AllowedAsSigned
<1> QED BY <1>1, HostsInvHolds, PTL

\* What the command allows an agent of a trusted operator, without a human and a
\* delegation, the hosted port allows.
LEMMA CommandAllowsLess ==
    ASSUME MapsAgree, NEW p, NEW asked, NEW trust, NEW trusted, NEW instant,
           CommandVerdict(p, asked, trust, instant) = "allow",
           p.human = None, p.delegation = <<>>, p.operator \in trusted, "kind" \notin p.flaws
    PROVE  /\ HostedVerdict(p, asked, trusted, instant) = "allow"
           /\ HostedNonces(p, instant) = CommandNonces(p, instant)
<1>1. p.delegation \in Seq({})
  OBVIOUS
<1>2. CommandIsSure(p, asked, trust, instant)
  BY <1>1, CommandAllows
<1>3. EffectiveScope(p) = p.permissions /\ EffectiveExpiry(p) = p.expiry
  BY DEF EffectiveScope, EffectiveExpiry
<1>4. /\ p.flaws \cap
           {"requestShape", "requestVersion", "undecodable", "bvp", "agentSlot", "agentEnvelope",
            "credential", "humanSlot", "humanEnvelope", "delegationSlot", "hopEnvelope", "leaf",
            "binding", "bindingV1", "sig"} = {}
      /\ "operatorNumber" \notin p.flaws /\ "modelNumber" \notin p.flaws /\ "sigNumber" \notin p.flaws
  BY <1>2 DEF CommandIsSure
<1>5. /\ p.scope = Scope(p) /\ SignedBinding(p) /\ p.binding.expiry = p.expiry
      /\ asked.subject = p.binding.subject /\ asked.model = p.binding.model
      /\ asked.capabilities \subseteq p.binding.capabilities /\ p.model = asked.model
  BY <1>2 DEF CommandIsSure
<1>6. /\ asked.capabilities \subseteq DOMAIN HostedCapabilityMap
      /\ ValidCumulative(p.permissions)
      /\ ValidCumulative(Required(HostedCapabilityMap, asked.capabilities))
      /\ Required(HostedCapabilityMap, asked.capabilities) \subseteq p.permissions
      /\ instant < p.expiry /\ p.nullifier # None
  <2>1. CommandCapabilityMap = HostedCapabilityMap
    BY DEF MapsAgree
  <2> QED BY <1>2, <1>3, <2>1 DEF CommandIsSure
<1>7. p.flaws \cap
        {"requestShape", "requestVersion", "kind", "undecodable", "bvp", "agentSlot",
         "agentEnvelope", "credential", "humanSlot", "humanEnvelope", "delegationSlot",
         "hopEnvelope", "leaf", "binding", "bindingV1", "sig", "operatorNumber",
         "sigNumber", "modelNumber"} = {}
  BY <1>4
<1>8. HostedVerdict(p, asked, trusted, instant) = "allow"
  BY <1>5, <1>6, <1>7, HostedAllows
<1>9. HostedNonces(p, instant) = CommandNonces(p, instant)
  <2>1. HostedRetainUntil(p, instant) = CommandRetainUntil(p, instant)
    BY <1>3 DEF HostedRetainUntil, CommandRetainUntil, MapsAgree
  <2>2. PICK N : N = {<<"agent", p.nullifier>>} \cup
                       IF p.human = None THEN {} ELSE {<<"human", p.human.nullifier>>}
    OBVIOUS
  <2>3. N = {<<"agent", p.nullifier>>}
    BY <2>2
  <2>4. CommandNonces(p, instant) =
          {[issuer |-> p.operator, nonce |-> n, retain_until |-> CommandRetainUntil(p, instant)] : n \in N}
    BY <2>2 DEF CommandNonces
  <2> QED BY <2>1, <2>3, <2>4 DEF HostedNonces
<1> QED BY <1>8, <1>9

\* The three ports do not drift apart, for every presentation whose binding names the
\* gate's tokens, if the operators' maps say of these tokens what the gate's says and
\* the two caps on retention are one (core.ts of the hosted port says they must be).
THEOREM PortsDoNotDrift ==
    ASSUME MapsAgree, \A s \in Scenarios : \A h \in DOMAIN s.asks : BindsGateTokens(s.asks[h].p)
    PROVE  HSpec => []PortsAgree
<1>1. HostsInv => PortsAgree
  <2> SUFFICES ASSUME HostsInv, NEW h \in Running
               PROVE  LET p == Presented(h)
                          asked == Asked(h)
                          hosted == HostedVerdict(p, asked, scenario.trusted, clock)
                      IN  /\ Comparable(p)
                                => Alike(hosted, InProcessVerdict(p, asked, scenario.trusted, clock), p)
                          /\ (/\ CommandVerdict(p, asked, scenario.trust, clock) = "allow"
                              /\ p.human = None /\ p.delegation = <<>>
                              /\ p.operator \in scenario.trusted /\ "kind" \notin p.flaws)
                                => hosted = "allow" /\ HostedNonces(p, clock) = CommandNonces(p, clock)
    BY DEF PortsAgree
  <2>1. PICK p, asked : p = Presented(h) /\ asked = Asked(h)
    OBVIOUS
  <2>2. BindsGateTokens(p)
    BY <2>1 DEF HostsInv, Running, Presented
  <2>3. Comparable(p) => Alike(HostedVerdict(p, asked, scenario.trusted, clock),
                               InProcessVerdict(p, asked, scenario.trusted, clock), p)
    BY <2>2, ClassicalPortsAlike
  <2>4. (/\ CommandVerdict(p, asked, scenario.trust, clock) = "allow"
         /\ p.human = None /\ p.delegation = <<>>
         /\ p.operator \in scenario.trusted /\ "kind" \notin p.flaws)
            => /\ HostedVerdict(p, asked, scenario.trusted, clock) = "allow"
               /\ HostedNonces(p, clock) = CommandNonces(p, clock)
    BY CommandAllowsLess
  <2> QED BY <2>1, <2>3, <2>4
<1> QED BY <1>1, HostsInvHolds, PTL
=============================================================================
