--------------------------- MODULE X402EvcProofs ---------------------------
(***************************************************************************)
(* Proofs about the payments of a host: what its nonce store promises,     *)
(* what the MPP gate and the x402 authorization over it spend, answer and  *)
(* record, and what an x402 allow was bound to.                            *)
(***************************************************************************)
EXTENDS X402Evc, VerdictProofs, FiniteSetTheorems, SequenceTheorems

-----------------------------------------------------------------------------
(* A Map without some of its entries *)

\* The positions that are left have each a rank of their own, from 1 on.
LEMMA Ranked ==
    ASSUME NEW n \in Nat, NEW left \in SUBSET (1 .. n)
    PROVE  /\ IsFiniteSet(left) /\ Cardinality(left) \in Nat
           /\ \A i \in left : Cardinality({j \in left : j <= i}) \in 1 .. Cardinality(left)
           /\ \A i, k \in left : Cardinality({j \in left : j <= i}) = Cardinality({j \in left : j <= k}) => i = k
           /\ \A r \in 1 .. Cardinality(left) : \E i \in left : Cardinality({j \in left : j <= i}) = r
<1>. DEFINE Below(i) == {j \in left : j <= i}
            size == Cardinality(left)
            rank == [i \in left |-> Cardinality(Below(i))]
<1>1. IsFiniteSet(left) /\ size \in Nat
  <2>1. IsFiniteSet(1 .. n)
    BY FS_Interval
  <2>2. IsFiniteSet(left)
    BY <2>1, FS_Subset
  <2>. QED
    BY <2>2, FS_CardinalityType
<1>0. \A i \in left : i \in Int
  OBVIOUS
<1>2. \A i \in left : IsFiniteSet(Below(i)) /\ Cardinality(Below(i)) \in Nat /\ Cardinality(Below(i)) <= size
  BY <1>1, FS_Subset, FS_CardinalityType
<1>3. \A i \in left : Cardinality(Below(i)) # 0
  <2>. TAKE i \in left
  <2>1. i \in Below(i)
    OBVIOUS
  <2>. QED
    BY <1>2, <2>1, FS_EmptySet
<1>4. ASSUME NEW i \in left, NEW k \in left, i < k PROVE Cardinality(Below(i)) < Cardinality(Below(k))
  <2>1. Below(i) \in SUBSET Below(k)
    <3>1. i \in Int /\ k \in Int /\ \A j \in left : j <= i => j <= k
      BY <1>0, <1>4
    <3>. QED
      BY <3>1
  <2>2. k \in Below(k) /\ k \notin Below(i)
    BY <1>0, <1>4
  <2>3. IsFiniteSet(Below(k))
    BY <1>2
  <2>4. Cardinality(Below(i)) <= Cardinality(Below(k)) /\ Cardinality(Below(i)) # Cardinality(Below(k))
    BY <2>1, <2>2, <2>3, FS_Subset
  <2>. QED
    BY <1>2, <2>4
<1>5. ASSUME NEW i \in left, NEW k \in left, Cardinality(Below(i)) = Cardinality(Below(k)) PROVE i = k
  <2>1. Cardinality(Below(i)) \in Nat /\ ~(i < k) /\ ~(k < i)
    BY <1>2, <1>4, <1>5
  <2>. QED
    BY <2>1
<1>6. rank \in Injection(left, 1 .. size)
  <2>1. \A i \in left : Cardinality(Below(i)) \in 1 .. size
    BY <1>1, <1>2, <1>3
  <2>2. rank \in [left -> 1 .. size]
    BY <2>1
  <2>3. \A i, k \in left : rank[i] = rank[k] => i = k
    BY <1>5
  <2>. HIDE DEF rank
  <2>. QED
    BY <2>2, <2>3 DEF Injection, IsInjective
<1>7. IsFiniteSet(1 .. size) /\ Cardinality(1 .. size) = size
  BY <1>1, FS_Interval
<1>8. rank \in Surjection(left, 1 .. size)
  BY <1>6, <1>7, FS_Injection
<1>9. \A r \in 1 .. size : \E i \in left : Cardinality(Below(i)) = r
  BY <1>8 DEF Surjection
<1>10. \A i \in left : Cardinality(Below(i)) \in 1 .. size
  BY <1>1, <1>2, <1>3
<1>. QED
  BY <1>1, <1>5, <1>9, <1>10

\* No two entries have the same key: a Map.
Keyed(entries) == \A i, j \in DOMAIN entries : entries[i].key = entries[j].key => i = j

LEMMA WithoutKeeps ==
    ASSUME NEW S, NEW s \in Seq(S), NEW gone
    PROVE  /\ Without(s, gone) \in Seq(S)
           /\ Range(Without(s, gone)) = {s[i] : i \in DOMAIN s \ gone}
           /\ Len(Without(s, gone)) = Cardinality(DOMAIN s \ gone)
           /\ Keyed(s) => Keyed(Without(s, gone))
<1>. DEFINE left == DOMAIN s \ gone
            Nth(n) == CHOOSE i \in left : Cardinality({j \in left : j <= i}) = n
            size == Cardinality(left)
            rest == [n \in 1 .. size |-> s[Nth(n)]]
<1>1. Len(s) \in Nat /\ DOMAIN s = 1 .. Len(s) /\ \A i \in 1 .. Len(s) : s[i] \in S
  OBVIOUS
<1>2. left \in SUBSET (1 .. Len(s))
  BY <1>1
<1>3. /\ size \in Nat
      /\ \A i \in left : Cardinality({j \in left : j <= i}) \in 1 .. size
      /\ \A i, k \in left : Cardinality({j \in left : j <= i}) = Cardinality({j \in left : j <= k}) => i = k
      /\ \A r \in 1 .. size : \E i \in left : Cardinality({j \in left : j <= i}) = r
  BY <1>1, <1>2, Ranked
<1>4. CASE left = DOMAIN s
  <2>1. Without(s, gone) = s
    BY <1>4 DEF Without
  <2>2. Cardinality(left) = Len(s)
    <3>1. Cardinality(1 .. Len(s)) = IF 1 > Len(s) THEN 0 ELSE Len(s) - 1 + 1
      <4>1. 1 \in Int /\ Len(s) \in Int
        BY <1>1
      <4>. QED
        BY <4>1, FS_Interval
    <3>2. left = 1 .. Len(s)
      BY <1>1, <1>4
    <3>3. (IF 1 > Len(s) THEN 0 ELSE Len(s) - 1 + 1) = Len(s)
      BY <1>1
    <3>. QED
      BY <3>1, <3>2, <3>3
  <2>3. Range(s) = {s[i] : i \in DOMAIN s}
    BY DEF Range
  <2>. QED
    BY <1>4, <2>1, <2>2, <2>3
<1>5. CASE left # DOMAIN s
  <2>1. Without(s, gone) = rest
    BY <1>5 DEF Without
  <2>2. \A n \in 1 .. size : Nth(n) \in left /\ Cardinality({j \in left : j <= Nth(n)}) = n
    BY <1>3
  <2>3. \A i \in left : \E n \in 1 .. size : Nth(n) = i
    <3>. TAKE i \in left
    <3>1. PICK n \in 1 .. size : n = Cardinality({j \in left : j <= i})
      BY <1>3
    <3>2. Nth(n) = i
      BY <1>3, <2>2, <3>1
    <3>. QED
      BY <3>2
  <2>. HIDE DEF left, Nth
  <2>4. \A n \in 1 .. size : s[Nth(n)] \in S
    BY <1>1, <1>2, <2>2
  <2>5. rest \in Seq(S) /\ Len(rest) = size /\ DOMAIN rest = 1 .. size
    BY <1>3, <2>4
  <2>6. Range(rest) = {s[i] : i \in left}
    <3>1. ASSUME NEW n \in 1 .. size PROVE rest[n] \in {s[i] : i \in left}
      BY <2>2, <3>1
    <3>2. ASSUME NEW i \in left PROVE \E n \in 1 .. size : rest[n] = s[i]
      BY <2>3, <3>2
    <3>. HIDE DEF rest
    <3>. QED
      BY <2>5, <3>1, <3>2 DEF Range
  <2>7. ASSUME Keyed(s) PROVE Keyed(rest)
    <3>. SUFFICES ASSUME NEW m \in 1 .. size, NEW n \in 1 .. size, s[Nth(m)].key = s[Nth(n)].key PROVE m = n
      BY <2>5 DEF Keyed
    <3>1. Nth(m) = Nth(n)
      BY <1>1, <1>2, <2>2, <2>7 DEF Keyed
    <3>. QED
      BY <2>2, <3>1
  <2>. QED
    BY <2>1, <2>5, <2>6, <2>7 DEF left
<1>. QED
  BY <1>4, <1>5

LEMMA ConcatRange ==
    ASSUME NEW S, NEW s \in Seq(S), NEW t \in Seq(S)
    PROVE  s \o t \in Seq(S) /\ Range(s \o t) = Range(s) \cup Range(t)
<1>1. /\ Len(s) \in Nat /\ Len(t) \in Nat /\ DOMAIN s = 1 .. Len(s) /\ DOMAIN t = 1 .. Len(t)
      /\ s \o t \in Seq(S) /\ Len(s \o t) = Len(s) + Len(t) /\ DOMAIN (s \o t) = 1 .. Len(s) + Len(t)
      /\ \A i \in 1 .. Len(s) + Len(t) : (s \o t)[i] = IF i <= Len(s) THEN s[i] ELSE t[i - Len(s)]
  BY ConcatProperties
<1>2. PICK st : st = s \o t
  OBVIOUS
<1>3. ASSUME NEW e \in Range(st) PROVE e \in Range(s) \cup Range(t)
  <2>1. PICK i \in 1 .. Len(s) + Len(t) : e = st[i]
    BY <1>1, <1>2, <1>3 DEF Range
  <2>2. CASE i <= Len(s)
    <3>1. i \in DOMAIN s /\ e = s[i]
      BY <1>1, <1>2, <2>1, <2>2
    <3>. QED
      BY <3>1 DEF Range
  <2>3. CASE ~(i <= Len(s))
    <3>1. i - Len(s) \in DOMAIN t /\ e = t[i - Len(s)]
      BY <1>1, <1>2, <2>1, <2>3
    <3>. QED
      BY <3>1 DEF Range
  <2>. QED
    BY <2>2, <2>3
<1>4. ASSUME NEW e \in Range(s) PROVE e \in Range(st)
  <2>1. PICK i \in 1 .. Len(s) : e = s[i]
    BY <1>1, <1>4 DEF Range
  <2>2. i \in DOMAIN st /\ st[i] = e
    BY <1>1, <1>2, <2>1
  <2>. QED
    BY <2>2 DEF Range
<1>5. ASSUME NEW e \in Range(t) PROVE e \in Range(st)
  <2>1. PICK i \in 1 .. Len(t) : e = t[i]
    BY <1>1, <1>5 DEF Range
  <2>2. Len(s) + i \in 1 .. Len(s) + Len(t) /\ ~(Len(s) + i <= Len(s)) /\ Len(s) + i - Len(s) = i
    BY <1>1, <2>1
  <2>3. Len(s) + i \in DOMAIN st /\ st[Len(s) + i] = e
    BY <1>1, <1>2, <2>1, <2>2
  <2>. QED
    BY <2>3 DEF Range
<1>6. Range(st) = Range(s) \cup Range(t)
  BY <1>3, <1>4, <1>5
<1>. QED
  BY <1>1, <1>2, <1>6

-----------------------------------------------------------------------------
(* The store.  K is whatever identifies a nonce. *)

Entries(K) == [key : K, until : Int]
Cursors(entries) == {Unset} \cup 1 .. Len(entries) + 1

\* The entries and the cursor that a sweep leaves: only elapsed ones are gone.
SweptTo(new, old, K, nowUnix) ==
    /\ new.entries \in Seq(Entries(K))
    /\ new.cursor \in Cursors(new.entries)
    /\ Range(new.entries) \subseteq Range(old)
    /\ \A e \in Range(old) : e.until >= nowUnix => e \in Range(new.entries)
    /\ Keyed(old) => Keyed(new.entries)

LEMMA SweepMeans ==
    ASSUME NEW K, reserved \in Seq(Entries(K)), sweepIter \in Cursors(reserved), NEW nowUnix \in Int
    PROVE  SweptTo(Sweep(nowUnix), reserved, K, nowUnix)
<1>1. PICK s, len, B : s = reserved /\ len = Len(s) /\ B = SWEEP_BUDGET
  OBVIOUS
<1>2. /\ s \in Seq(Entries(K)) /\ len \in Nat /\ DOMAIN s = 1 .. len /\ B \in Nat \ {0}
      /\ \A i \in 1 .. len : s[i] \in Entries(K) /\ s[i].until \in Int
  <2>1. s \in Seq(Entries(K)) /\ B \in Nat \ {0}
    BY <1>1, StoreAssumption
  <2>2. len \in Nat /\ DOMAIN s = 1 .. len /\ \A i \in 1 .. len : s[i] \in Entries(K)
    BY <1>1, <2>1
  <2>3. \A i \in 1 .. len : s[i].until \in Int
    BY <2>2 DEF Entries
  <2>. QED
    BY <2>1, <2>2, <2>3
<1>3. PICK at : at = IF sweepIter = Unset THEN 1 ELSE sweepIter
  OBVIOUS
<1>4. at \in 1 .. len + 1
  BY <1>1, <1>2, <1>3, StoreAssumption DEF Cursors
<1>. DEFINE ends == len - at + 1 < B
            last == IF ends THEN len ELSE at + B - 1
            gone == Elapsed(s, nowUnix) \cap (at .. last)
            rest == Without(s, gone)
            cursor == IF ends THEN Unset ELSE last + 1 - Cardinality(gone)
<1>5. Sweep(nowUnix) = [entries |-> rest, cursor |-> cursor]
  BY <1>1, <1>3 DEF Sweep
<1>6. last \in Int /\ last <= len /\ gone \subseteq DOMAIN s /\ gone \subseteq at .. last
  BY <1>2, <1>4 DEF Elapsed
<1>7. /\ rest \in Seq(Entries(K))
      /\ Range(rest) = {s[i] : i \in DOMAIN s \ gone}
      /\ Len(rest) = Cardinality(DOMAIN s \ gone)
      /\ Keyed(s) => Keyed(rest)
  <2>1. PICK S, g : S = Entries(K) /\ g = gone
    OBVIOUS
  <2>2. s \in Seq(S)
    BY <1>2, <2>1
  <2>3. /\ Without(s, g) \in Seq(S)
        /\ Range(Without(s, g)) = {s[i] : i \in DOMAIN s \ g}
        /\ Len(Without(s, g)) = Cardinality(DOMAIN s \ g)
        /\ Keyed(s) => Keyed(Without(s, g))
    BY <2>2, WithoutKeeps
  <2>. QED
    BY <2>1, <2>3
<1>8. cursor \in Cursors(rest)
  <2>. SUFFICES ASSUME ~ends PROVE cursor \in 1 .. Len(rest) + 1
    BY DEF Cursors
  <2>1. PICK size : size = Cardinality(gone)
    OBVIOUS
  <2>2. IsFiniteSet(at .. last) /\ Cardinality(at .. last) = last - at + 1
    <3>1. at \in Int /\ last \in Int /\ ~(at > last)
      BY <1>2, <1>4, <1>6
    <3>2. IsFiniteSet(at .. last) /\ Cardinality(at .. last) = IF at > last THEN 0 ELSE last - at + 1
      BY <3>1, FS_Interval
    <3>. QED
      BY <3>1, <3>2
  <2>3. IsFiniteSet(gone) /\ size \in Nat /\ size <= last - at + 1
    BY <1>6, <2>1, <2>2, FS_Subset, FS_CardinalityType, ZenonT(60)
  <2>4. IsFiniteSet(DOMAIN s) /\ Cardinality(DOMAIN s) = len
    <3>1. 1 \in Int /\ len \in Int /\ (IF 1 > len THEN 0 ELSE len - 1 + 1) = len
      BY <1>2
    <3>2. IsFiniteSet(1 .. len) /\ Cardinality(1 .. len) = IF 1 > len THEN 0 ELSE len - 1 + 1
      BY <3>1, FS_Interval
    <3>. QED
      BY <1>2, <3>1, <3>2
  <2>5. Len(rest) = len - size
    <3>1. Cardinality(DOMAIN s \ gone) = Cardinality(DOMAIN s) - Cardinality(DOMAIN s \cap gone)
      BY <2>4, FS_Difference
    <3>2. DOMAIN s \cap gone = gone
      BY <1>6
    <3>. QED
      BY <1>7, <2>1, <2>4, <3>1, <3>2
  <2>. HIDE DEF gone, rest, last
  <2>6. cursor = last + 1 - size
    BY <2>1
  <2>. QED
    BY <1>2, <1>4, <1>6, <2>3, <2>5, <2>6
<1>9. Range(rest) \subseteq Range(s) /\ \A e \in Range(s) : e.until >= nowUnix => e \in Range(rest)
  <2>1. Range(s) = {s[i] : i \in DOMAIN s}
    BY DEF Range
  <2>2. \A i \in DOMAIN s : s[i].until >= nowUnix => i \in DOMAIN s \ gone
    BY <1>2 DEF Elapsed
  <2>. HIDE DEF rest, gone
  <2>. QED
    BY <1>7, <2>1, <2>2
<1>. HIDE DEF rest, cursor
<1>. QED
  BY <1>1, <1>5, <1>7, <1>8, <1>9 DEF SweptTo

LEMMA SweepAllMeans ==
    ASSUME NEW K, NEW swept, swept.entries \in Seq(Entries(K)), NEW nowUnix \in Int
    PROVE  SweptTo(SweepAll(swept, nowUnix), swept.entries, K, nowUnix)
<1>1. PICK s, S, gone : s = swept.entries /\ S = Entries(K) /\ gone = Elapsed(s, nowUnix)
  OBVIOUS
<1>2. s \in Seq(S)
  BY <1>1
<1>3. /\ Without(s, gone) \in Seq(S)
      /\ Range(Without(s, gone)) = {s[i] : i \in DOMAIN s \ gone}
      /\ Keyed(s) => Keyed(Without(s, gone))
  BY <1>2, WithoutKeeps, ZenonT(60)
<1>4. PICK rest : rest = Without(s, gone)
  OBVIOUS
<1>5. \A i \in DOMAIN s : s[i].until \in Int
  <2>1. \A i \in DOMAIN s : s[i] \in Entries(K)
    BY <1>1, <1>2
  <2>. QED
    BY <2>1 DEF Entries
<1>6. \A i \in DOMAIN s : s[i].until >= nowUnix => i \in DOMAIN s \ gone
  BY <1>1, <1>5 DEF Elapsed
<1>7. Range(rest) \subseteq Range(s) /\ \A e \in Range(s) : e.until >= nowUnix => e \in Range(rest)
  BY <1>3, <1>4, <1>6, ZenonT(60) DEF Range
<1>8. SweepAll(swept, nowUnix) = [entries |-> rest, cursor |-> Unset]
  BY <1>1, <1>4 DEF SweepAll
<1>. QED
  BY <1>1, <1>3, <1>4, <1>7, <1>8 DEF SweptTo, Cursors

LEMMA SweptTwice ==
    ASSUME NEW K, NEW new, NEW mid, NEW old, NEW nowUnix,
           SweptTo(new, mid.entries, K, nowUnix), SweptTo(mid, old, K, nowUnix)
    PROVE  SweptTo(new, old, K, nowUnix)
BY DEF SweptTo

\* What an insertion leaves: the entries of the call, and of the others those
\* whose key the call does not name.
InsertedInto(new, old, entries, K) ==
    /\ new.entries \in Seq(Entries(K))
    /\ new.cursor \in Cursors(new.entries)
    /\ Range(new.entries) = {e \in Range(old) : ~Holds(entries, e.key)} \cup Range(entries)
    /\ Keyed(old) /\ Keyed(entries) => Keyed(new.entries)

LEMMA InsertMeans ==
    ASSUME NEW K, NEW swept, NEW entries \in Seq(Entries(K)),
           swept.entries \in Seq(Entries(K)), swept.cursor \in Cursors(swept.entries)
    PROVE  InsertedInto(Insert(swept, entries), swept.entries, entries, K)
<1>1. PICK s, S, t, c : s = swept.entries /\ S = Entries(K) /\ t = entries /\ c = swept.cursor
  OBVIOUS
<1>2. PICK moved : moved = {i \in DOMAIN s : Holds(t, s[i].key)}
  OBVIOUS
<1>3. PICK rest : rest = Without(s, moved)
  OBVIOUS
<1>4. s \in Seq(S) /\ t \in Seq(S) /\ c \in Cursors(s) /\ moved \subseteq DOMAIN s
  BY <1>1, <1>2
<1>5. /\ rest \in Seq(S)
      /\ Range(rest) = {s[i] : i \in DOMAIN s \ moved}
      /\ Len(rest) = Cardinality(DOMAIN s \ moved)
      /\ Keyed(s) => Keyed(rest)
  BY <1>3, <1>4, WithoutKeeps
<1>6. /\ rest \o t \in Seq(S) /\ Range(rest \o t) = Range(rest) \cup Range(t)
      /\ Len(rest \o t) = Len(rest) + Len(t) /\ Len(rest) \in Nat /\ Len(t) \in Nat
  BY <1>4, <1>5, ConcatRange, ConcatProperties
<1>7. PICK cursor : cursor = IF c = Unset THEN Unset ELSE c - Cardinality({i \in moved : i < c})
  OBVIOUS
<1>8. Insert(swept, entries) = [entries |-> rest \o t, cursor |-> cursor]
  BY <1>1, <1>2, <1>3, <1>7 DEF Insert
<1>9. Range(rest) = {e \in Range(s) : ~Holds(t, e.key)}
  BY <1>2, <1>5 DEF Range
<1>10. cursor \in Cursors(rest \o t)
  <2>. SUFFICES ASSUME c # Unset PROVE cursor \in 1 .. Len(rest \o t) + 1
    BY <1>7 DEF Cursors
  <2>1. PICK below, at, len : /\ below = {i \in moved : i < c} /\ at = Cardinality(below)
                              /\ len = Len(s)
    OBVIOUS
  <2>2. len \in Nat /\ DOMAIN s = 1 .. len /\ c \in 1 .. len + 1
    BY <1>4, <2>1 DEF Cursors
  <2>3. IsFiniteSet(1 .. len) /\ Cardinality(1 .. len) = len
    <3>1. 1 \in Int /\ len \in Int /\ (IF 1 > len THEN 0 ELSE len - 1 + 1) = len
      BY <2>2
    <3>2. IsFiniteSet(1 .. len) /\ Cardinality(1 .. len) = IF 1 > len THEN 0 ELSE len - 1 + 1
      BY <3>1, FS_Interval
    <3>. QED
      BY <3>1, <3>2
  <2>4. IsFiniteSet(1 .. c - 1) /\ Cardinality(1 .. c - 1) = c - 1
    <3>1. 1 \in Int /\ c - 1 \in Int /\ (IF 1 > c - 1 THEN 0 ELSE c - 1 - 1 + 1) = c - 1
      BY <2>2
    <3>2. IsFiniteSet(1 .. c - 1) /\ Cardinality(1 .. c - 1) = IF 1 > c - 1 THEN 0 ELSE c - 1 - 1 + 1
      BY <3>1, FS_Interval
    <3>. QED
      BY <3>1, <3>2
  <2>5. below \subseteq 1 .. c - 1
    BY <1>4, <2>1, <2>2
  <2>6. IsFiniteSet(below) /\ at \in Nat /\ at <= c - 1
    BY <2>1, <2>4, <2>5, FS_Subset, FS_CardinalityType
  \* What is left holds at least the entries from the cursor on, and those below it that stay.
  <2>7. PICK kept : kept = DOMAIN s \ moved
    OBVIOUS
  <2>8. IsFiniteSet(kept) /\ Cardinality(kept) = Len(rest)
    BY <1>5, <2>2, <2>3, <2>7, FS_Subset
  <2>9. PICK low : low = (1 .. c - 1) \ below
    OBVIOUS
  <2>10. low \subseteq kept
    BY <1>4, <2>1, <2>2, <2>7, <2>9
  <2>11. Cardinality(low) = c - 1 - at
    <3>1. (1 .. c - 1) \cap below = below
      BY <2>5
    <3>2. Cardinality((1 .. c - 1) \ below) = Cardinality(1 .. c - 1) - Cardinality((1 .. c - 1) \cap below)
      BY <2>4, FS_Difference
    <3>. QED
      BY <2>1, <2>4, <2>9, <3>1, <3>2
  <2>12. Cardinality(low) <= Len(rest)
    BY <2>8, <2>10, FS_Subset
  <2>13. cursor = c - at
    BY <1>7, <2>1
  <2>. QED
    BY <1>6, <2>2, <2>6, <2>11, <2>12, <2>13
<1>11. ASSUME Keyed(s), Keyed(t) PROVE Keyed(rest \o t)
  <2>1. \A i \in DOMAIN rest : ~Holds(t, rest[i].key)
    BY <1>9 DEF Range
  <2>2. /\ DOMAIN rest = 1 .. Len(rest) /\ DOMAIN t = 1 .. Len(t)
        /\ DOMAIN (rest \o t) = 1 .. Len(rest) + Len(t)
        /\ \A i \in 1 .. Len(rest) + Len(t) :
              (rest \o t)[i] = IF i <= Len(rest) THEN rest[i] ELSE t[i - Len(rest)]
    <3>1. rest \in Seq(S) /\ t \in Seq(S)
      BY <1>4, <1>5
    <3>2. DOMAIN rest = 1 .. Len(rest) /\ DOMAIN t = 1 .. Len(t)
      BY <3>1
    <3>. QED
      BY <1>6, <3>1, <3>2, ConcatProperties
  <2>3. PICK st : st = rest \o t
    OBVIOUS
  <2>4. \A i \in DOMAIN st : IF i <= Len(rest) THEN i \in DOMAIN rest /\ st[i] = rest[i]
                                               ELSE i - Len(rest) \in DOMAIN t /\ st[i] = t[i - Len(rest)]
    BY <1>6, <2>2, <2>3
  <2>5. ASSUME NEW i \in DOMAIN st, NEW j \in DOMAIN st, st[i].key = st[j].key PROVE i = j
    <3>1. CASE i <= Len(rest) /\ j <= Len(rest)
      BY <1>5, <1>11, <2>4, <2>5, <3>1 DEF Keyed
    <3>2. CASE ~(i <= Len(rest)) /\ ~(j <= Len(rest))
      <4>1. i - Len(rest) = j - Len(rest)
        BY <1>11, <2>4, <2>5, <3>2 DEF Keyed
      <4>2. i \in Int /\ j \in Int /\ Len(rest) \in Int
        BY <1>6, <2>2, <2>3
      <4>. QED
        BY <4>1, <4>2
    <3>3. CASE i <= Len(rest) /\ ~(j <= Len(rest))
      BY <2>1, <2>4, <2>5, <3>3 DEF Holds
    <3>4. CASE ~(i <= Len(rest)) /\ j <= Len(rest)
      BY <2>1, <2>4, <2>5, <3>4 DEF Holds
    <3>. QED
      BY <3>1, <3>2, <3>3, <3>4
  <2>. QED
    BY <2>3, <2>5 DEF Keyed
<1>12. PICK n : n = [entries |-> rest \o t, cursor |-> cursor]
  OBVIOUS
<1>13. n.entries = rest \o t /\ n.cursor = cursor
  BY <1>12
<1>14. InsertedInto(n, s, t, K)
  BY <1>1, <1>6, <1>9, <1>10, <1>11, <1>13 DEF InsertedInto
<1>. QED
  BY <1>1, <1>8, <1>12, <1>14

Stored(K) == reserved \in Seq(Entries(K)) /\ sweepIter \in Cursors(reserved)
Answers == {"true", "false", "NonceRetentionTooLongError", "NonceStoreCapacityError"}

\* A call of reserve: it is answered; it forgets no reservation whose time has
\* not passed at its instant but to renew one; it adds what it grants; and it
\* grants a key only when the times reserved for it have passed.
LEMMA ReserveMeans ==
    ASSUME NEW K, Stored(K), NEW s \in Seq(Entries(K)), NEW nowUnix \in Int, Reserve(s, nowUnix)
    PROVE  /\ Stored(K)'
           /\ call' = [entries |-> s, now |-> nowUnix, answer |-> call'.answer] /\ call'.answer \in Answers
           /\ Range(reserved') \subseteq Range(reserved) \cup Range(s)
           /\ call'.answer # "true" => Range(reserved') \subseteq Range(reserved)
           /\ \A e \in Range(reserved) :
                 e.until >= nowUnix /\ ~(call'.answer = "true" /\ Holds(s, e.key)) => e \in Range(reserved')
           /\ call'.answer = "true" =>
                 /\ Range(s) \subseteq Range(reserved')
                 /\ \A e \in Range(reserved), f \in Range(s) : e.key = f.key => e.until < nowUnix
           /\ call'.answer = "false" =>
                 \E e \in Range(reserved), f \in Range(s) : e.key = f.key /\ e.until >= nowUnix
           /\ Keyed(reserved) /\ Keyed(s) => Keyed(reserved')
<1>1. PICK old, swept, all, full, into :
          /\ old = reserved /\ swept = Sweep(nowUnix)
          /\ full = OverFull(swept.entries, s)
          /\ all = IF full THEN SweepAll(swept, nowUnix) ELSE swept
          /\ into = Insert(all, s)
  OBVIOUS
<1>2. SweptTo(swept, old, K, nowUnix)
  BY <1>1, SweepMeans DEF Stored
<1>3. SweptTo(all, old, K, nowUnix)
  <2>1. CASE full
    <3>1. SweptTo(SweepAll(swept, nowUnix), swept.entries, K, nowUnix)
      BY <1>2, SweepAllMeans DEF SweptTo
    <3>. QED
      BY <1>1, <1>2, <2>1, <3>1, SweptTwice
  <2>2. CASE ~full
    BY <1>1, <1>2, <2>2
  <2>. QED
    BY <2>1, <2>2
<1>4. InsertedInto(into, all.entries, s, K)
  BY <1>1, <1>3, InsertMeans DEF SweptTo
<1>5. \A e \in Range(old) : e.until \in Int
  <2>1. old \in Seq(Entries(K))
    BY <1>1 DEF Stored
  <2>2. \A e \in Range(old) : e \in Entries(K)
    BY <2>1 DEF Range
  <2>. QED
    BY <2>2 DEF Entries
<1>6. \/ /\ call' = [entries |-> s, now |-> nowUnix, answer |-> "NonceRetentionTooLongError"]
         /\ reserved' = old /\ sweepIter' = sweepIter
      \/ /\ call' = [entries |-> s, now |-> nowUnix, answer |-> "false"]
         /\ Replayed(swept.entries, s, nowUnix)
         /\ reserved' = swept.entries /\ sweepIter' = swept.cursor
      \/ /\ call' = [entries |-> s, now |-> nowUnix, answer |-> "NonceStoreCapacityError"]
         /\ reserved' = swept.entries /\ sweepIter' = swept.cursor
      \/ /\ call' = [entries |-> s, now |-> nowUnix, answer |-> "NonceStoreCapacityError"]
         /\ reserved' = all.entries /\ sweepIter' = all.cursor
      \/ /\ call' = [entries |-> s, now |-> nowUnix, answer |-> "true"]
         /\ ~Replayed(swept.entries, s, nowUnix)
         /\ reserved' = into.entries /\ sweepIter' = into.cursor
  BY <1>1 DEF Reserve, Answered, Becomes, store
<1>. DEFINE Goal ==
        /\ Stored(K)'
        /\ call' = [entries |-> s, now |-> nowUnix, answer |-> call'.answer] /\ call'.answer \in Answers
        /\ Range(reserved') \subseteq Range(old) \cup Range(s)
        /\ call'.answer # "true" => Range(reserved') \subseteq Range(old)
        /\ \A e \in Range(old) :
              e.until >= nowUnix /\ ~(call'.answer = "true" /\ Holds(s, e.key)) => e \in Range(reserved')
        /\ call'.answer = "true" =>
              /\ Range(s) \subseteq Range(reserved')
              /\ \A e \in Range(old), f \in Range(s) : e.key = f.key => e.until < nowUnix
        /\ call'.answer = "false" =>
              \E e \in Range(old), f \in Range(s) : e.key = f.key /\ e.until >= nowUnix
        /\ Keyed(old) /\ Keyed(s) => Keyed(reserved')
<1>7. ASSUME call' = [entries |-> s, now |-> nowUnix, answer |-> "NonceRetentionTooLongError"],
             reserved' = old, sweepIter' = sweepIter
      PROVE  Goal
  BY <1>1, <1>7 DEF Stored, Answers
<1>8. ASSUME call' = [entries |-> s, now |-> nowUnix, answer |-> "NonceStoreCapacityError"],
             NEW left, SweptTo(left, old, K, nowUnix), reserved' = left.entries, sweepIter' = left.cursor
      PROVE  Goal
  BY <1>8 DEF Stored, Answers, SweptTo
<1>9. ASSUME call' = [entries |-> s, now |-> nowUnix, answer |-> "false"],
             Replayed(swept.entries, s, nowUnix), reserved' = swept.entries, sweepIter' = swept.cursor
      PROVE  Goal
  <2>1. \E e \in Range(old), f \in Range(s) : e.key = f.key /\ e.until >= nowUnix
    <3>1. PICK i \in DOMAIN swept.entries, j \in DOMAIN s :
             swept.entries[i].key = s[j].key /\ swept.entries[i].until >= nowUnix
      BY <1>9 DEF Replayed, Live
    <3>2. swept.entries[i] \in Range(old) /\ s[j] \in Range(s)
      BY <1>2 DEF SweptTo, Range
    <3>. QED
      BY <3>1, <3>2
  <2>. QED
    BY <1>2, <1>9, <2>1 DEF Stored, Answers, SweptTo
<1>10. ASSUME call' = [entries |-> s, now |-> nowUnix, answer |-> "true"],
              ~Replayed(swept.entries, s, nowUnix), reserved' = into.entries, sweepIter' = into.cursor
       PROVE  Goal
  <2>1. ASSUME NEW e \in Range(old), NEW f \in Range(s), e.key = f.key, ~(e.until < nowUnix)
        PROVE  FALSE
    <3>1. e \in Range(swept.entries)
      BY <1>2, <1>5, <2>1 DEF SweptTo
    <3>2. PICK i \in DOMAIN swept.entries, j \in DOMAIN s : swept.entries[i] = e /\ s[j] = f
      BY <3>1 DEF Range
    <3>3. e.until >= nowUnix
      BY <1>5, <2>1
    <3>. QED
      BY <1>10, <2>1, <3>2, <3>3 DEF Replayed, Live
  <2>2. call'.answer = "true" /\ Range(s) \subseteq Range(into.entries)
    BY <1>4, <1>10 DEF InsertedInto
  <2>3. Range(into.entries) \subseteq Range(old) \cup Range(s)
    BY <1>3, <1>4 DEF InsertedInto, SweptTo
  <2>4. \A e \in Range(old) : e.until >= nowUnix /\ ~Holds(s, e.key) => e \in Range(into.entries)
    BY <1>3, <1>4 DEF InsertedInto, SweptTo
  <2>5. Keyed(old) /\ Keyed(s) => Keyed(into.entries)
    BY <1>3, <1>4 DEF InsertedInto, SweptTo
  <2>6. Stored(K)'
    BY <1>4, <1>10 DEF InsertedInto, Stored
  <2>. QED
    BY <1>10, <2>1, <2>2, <2>3, <2>4, <2>5, <2>6 DEF Answers
<1>11. Goal
  BY <1>2, <1>3, <1>6, <1>7, <1>8, <1>9, <1>10
<1>. QED
  BY <1>1, <1>11

-----------------------------------------------------------------------------
(* The store keeps the promise of a host *)

LEMMA HeldMeans ==
    ASSUME NEW entries, Keyed(entries), NEW key \in Keys
    PROVE  /\ \A e \in Range(entries) : e.key = key => HeldBy(entries)[key] = e.until
           /\ (\A e \in Range(entries) : e.key # key) => HeldBy(entries)[key] = None
<1>1. ASSUME NEW i \in DOMAIN entries, entries[i].key = key
      PROVE  HeldBy(entries)[key] = entries[i].until
  <2>1. (CHOOSE j \in DOMAIN entries : entries[j].key = key) = i
    BY <1>1 DEF Keyed
  <2>2. key \in {entries[j].key : j \in DOMAIN entries}
    BY <1>1
  <2>. QED
    BY <2>1, <2>2 DEF HeldBy
<1>2. ASSUME \A e \in Range(entries) : e.key # key PROVE HeldBy(entries)[key] = None
  <2>1. key \notin {entries[j].key : j \in DOMAIN entries}
    BY <1>2 DEF Range
  <2>. QED
    BY <2>1 DEF HeldBy
<1>3. \A e \in Range(entries) : e.key = key => HeldBy(entries)[key] = e.until
  <2>. TAKE e \in Range(entries)
  <2>1. PICK i \in DOMAIN entries : e = entries[i]
    BY DEF Range
  <2>. QED
    BY <1>1, <2>1
<1>. QED
  BY <1>2, <1>3

LEMMA GrantedMeans ==
    ASSUME NEW c, Keyed(c.entries), c.answer = "true"
    PROVE  /\ DOMAIN GrantedBy(c) = {e.key : e \in Range(c.entries)}
           /\ \A e \in Range(c.entries) : GrantedBy(c)[e.key] = e.until
<1>. DEFINE Given == {c.entries[i] : i \in DOMAIN c.entries}
<1>1. Given = Range(c.entries) /\ {c.entries[i].key : i \in DOMAIN c.entries} = {e.key : e \in Given}
  BY DEF Range
<1>2. \A e, f \in Given : e.key = f.key => e = f
  BY DEF Keyed
<1>3. GrantedBy(c) = [key \in {e.key : e \in Given} |-> (CHOOSE e \in Given : e.key = key).until]
  BY <1>1 DEF GrantedBy
<1>. HIDE DEF Given
<1>4. \A e \in Given : (CHOOSE f \in Given : f.key = e.key) = e
  BY <1>2
<1>5. \A e \in Given : e.key \in {f.key : f \in Given}
  OBVIOUS
<1>6. DOMAIN GrantedBy(c) = {e.key : e \in Given}
  BY <1>3
<1>7. \A e \in Given : GrantedBy(c)[e.key] = e.until
  <2>. TAKE e \in Given
  <2>1. PICK names : names = {f.key : f \in Given}
    OBVIOUS
  <2>2. e.key \in names /\ GrantedBy(c) = [key \in names |-> (CHOOSE f \in Given : f.key = key).until]
    BY <1>3, <1>5, <2>1
  <2>3. GrantedBy(c)[e.key] = (CHOOSE f \in Given : f.key = e.key).until
    BY <2>2
  <2>. QED
    BY <1>4, <2>3
<1>. QED
  BY <1>1, <1>6, <1>7

\* Reservations are as calls leave them, and lie within the modelled time.
HeldInv ==
    /\ Stored(Keys)
    /\ Keyed(reserved)
    /\ \A e \in Range(reserved) : e.until \in Times
    /\ clock \in Times

\* What a host serves: the keys of a verdict, each until a time within the bound.
LEMMA ServeMeans ==
    ASSUME HeldInv, Serve
    PROVE  \E s \in Seq(Entries(Keys)), nowUnix \in Times :
              /\ nowUnix <= clock /\ Keyed(s) /\ \A e \in Range(s) : e.until \in Times
              /\ Reserve(s, nowUnix)
<1>0. PICK list \in EntryLists, nowUnix \in Instants :
         \E until \in [DOMAIN list -> nowUnix .. MaxTime] :
            Reserve([i \in DOMAIN list |-> [key |-> list[i], until |-> until[i]]], nowUnix)
  BY DEF Serve
<1>1. PICK until \in [DOMAIN list -> nowUnix .. MaxTime] :
         Reserve([i \in DOMAIN list |-> [key |-> list[i], until |-> until[i]]], nowUnix)
  BY <1>0
<1>2. PICK s : s = [i \in DOMAIN list |-> [key |-> list[i], until |-> until[i]]]
  OBVIOUS
<1>3. /\ list \in Seq(Keys) /\ \A i, j \in DOMAIN list : list[i] = list[j] => i = j
      /\ MaxTime \in Nat
  BY StoreAssumption
<1>4. nowUnix \in Times /\ nowUnix <= clock /\ nowUnix \in Int
  BY <1>3 DEF Instants, Times
<1>5. \A i \in DOMAIN list : until[i] \in Times /\ until[i] \in Int
  BY <1>3, <1>4 DEF Times
<1>6. DOMAIN list = 1 .. Len(list) /\ Len(list) \in Nat /\ \A i \in DOMAIN list : list[i] \in Keys
  BY <1>3
<1>7. \A i \in DOMAIN list : [key |-> list[i], until |-> until[i]] \in Entries(Keys)
  BY <1>5, <1>6 DEF Entries
<1>8. s \in Seq(Entries(Keys))
  BY <1>2, <1>6, <1>7
<1>9. Keyed(s) /\ \A e \in Range(s) : e.until \in Times
  BY <1>2, <1>3, <1>5 DEF Keyed, Range
<1>. QED
  BY <1>1, <1>2, <1>4, <1>8, <1>9

LEMMA HeldInvInit == NInit => HeldInv
<1>. SUFFICES ASSUME NInit PROVE HeldInv
  OBVIOUS
<1>1. MaxTime \in Nat
  BY StoreAssumption
<1>2. reserved = <<>> /\ DOMAIN reserved = {} /\ sweepIter = Unset /\ clock = 0
  BY DEF NInit
<1>3. Stored(Keys)
  BY <1>2 DEF Stored, Cursors
<1>. QED
  BY <1>1, <1>2, <1>3 DEF HeldInv, Keyed, Range, Times

LEMMA HeldInvNext == HeldInv /\ [NNext]_nvars => HeldInv'
<1>. SUFFICES ASSUME HeldInv, [NNext]_nvars PROVE HeldInv'
  OBVIOUS
<1>1. CASE Serve
  <2>1. PICK s \in Seq(Entries(Keys)), nowUnix \in Times :
           /\ nowUnix <= clock /\ Keyed(s) /\ \A e \in Range(s) : e.until \in Times
           /\ Reserve(s, nowUnix)
    BY <1>1, ServeMeans
  <2>2. nowUnix \in Int /\ Stored(Keys) /\ Keyed(reserved) /\ \A e \in Range(reserved) : e.until \in Times
    BY DEF HeldInv, Times
  <2>3. Stored(Keys)' /\ Keyed(reserved') /\ Range(reserved') \subseteq Range(reserved) \cup Range(s)
    BY <2>1, <2>2, ReserveMeans
  <2>4. clock' \in Times
    BY <1>1 DEF Serve, HeldInv
  <2>. QED
    BY <2>1, <2>2, <2>3, <2>4 DEF HeldInv
<1>2. CASE Tick
  BY <1>2, StoreAssumption DEF Tick, HeldInv, Times, Stored, store
<1>3. CASE UNCHANGED nvars
  BY <1>3 DEF nvars, HeldInv, Stored, store
<1>. QED
  BY <1>1, <1>2, <1>3 DEF NNext

LEMMA ServeGrants == HeldInv /\ Serve => Guard!Serve
<1>. SUFFICES ASSUME HeldInv, Serve PROVE Guard!Serve
  OBVIOUS
<1>1. PICK s \in Seq(Entries(Keys)), nowUnix \in Times :
         /\ nowUnix <= clock /\ Keyed(s) /\ \A e \in Range(s) : e.until \in Times
         /\ Reserve(s, nowUnix)
  BY ServeMeans
<1>2. /\ nowUnix \in Int /\ clock \in Int /\ Stored(Keys) /\ Keyed(reserved)
      /\ \A e \in Range(reserved) : e.until \in Times
  BY DEF HeldInv, Times
<1>3. /\ call' = [entries |-> s, now |-> nowUnix, answer |-> call'.answer]
      /\ Range(reserved') \subseteq Range(reserved) \cup Range(s)
      /\ call'.answer # "true" => Range(reserved') \subseteq Range(reserved)
      /\ \A e \in Range(reserved) :
            e.until >= nowUnix /\ ~(call'.answer = "true" /\ Holds(s, e.key)) => e \in Range(reserved')
      /\ call'.answer = "true" =>
            /\ Range(s) \subseteq Range(reserved')
            /\ \A e \in Range(reserved), f \in Range(s) : e.key = f.key => e.until < nowUnix
      /\ Keyed(reserved')
  BY <1>1, <1>2, ReserveMeans
<1>4. PICK old, new, c : old = reserved /\ new = reserved' /\ c = call'
  OBVIOUS
<1>5. c.entries = s
  BY <1>3, <1>4
<1>6. \A e \in Range(s) : e.key \in Keys
  <2>1. \A i \in DOMAIN s : s[i] \in Entries(Keys)
    BY <1>1
  <2>. QED
    BY <2>1 DEF Range, Entries
<1>60. ASSUME c.answer = "true"
       PROVE  /\ DOMAIN GrantedBy(c) = {e.key : e \in Range(s)}
              /\ \A e \in Range(s) : GrantedBy(c)[e.key] = e.until
  BY <1>1, <1>5, <1>60, GrantedMeans
<1>7. \A e \in Range(old) \cup Range(new) : e.until \in Times /\ e.until \in Int
  BY <1>1, <1>2, <1>3, <1>4 DEF Times
<1>8. Keyed(old) /\ Keyed(new)
  BY <1>2, <1>3, <1>4
<1>9. HeldBy(new) \in [Keys -> Times \cup {None}]
  <2>1. ASSUME NEW key \in Keys PROVE HeldBy(new)[key] \in Times \cup {None}
    <3>1. CASE \E e \in Range(new) : e.key = key
      BY <1>7, <1>8, <3>1, HeldMeans
    <3>2. CASE \A e \in Range(new) : e.key # key
      BY <1>8, <3>2, HeldMeans
    <3>. QED
      BY <3>1, <3>2
  <2>2. PICK held : held = HeldBy(new)
    OBVIOUS
  <2>3. held = [key \in Keys |-> held[key]]
    BY <2>2 DEF HeldBy
  <2>. QED
    BY <2>1, <2>2, <2>3
<1>10. DOMAIN GrantedBy(c) \subseteq Keys
  <2>1. CASE c.answer = "true"
    BY <1>6, <1>60, <2>1
  <2>2. CASE c.answer # "true"
    <3>1. GrantedBy(c) = <<>>
      BY <2>2 DEF GrantedBy
    <3>. QED
      BY <3>1
  <2>. QED
    BY <2>1, <2>2
<1>. DEFINE IsFree(key) == HeldBy(old)[key] = None \/ HeldBy(old)[key] < clock
<1>11. ASSUME NEW key \in Keys, \A e \in Range(old) : e.key = key => e.until < nowUnix
       PROVE  IsFree(key)
  <2>1. CASE \A e \in Range(old) : e.key # key
    BY <1>8, <2>1, HeldMeans
  <2>2. CASE \E e \in Range(old) : e.key = key
    <3>1. PICK e \in Range(old) : e.key = key
      BY <2>2
    <3>2. HeldBy(old)[key] = e.until /\ e.until < nowUnix
      BY <1>8, <1>11, <3>1, HeldMeans
    <3>3. e.until < clock
      BY <1>1, <1>2, <1>7, <3>2
    <3>. QED
      BY <3>2, <3>3
  <2>. QED
    BY <2>1, <2>2
<1>12. ASSUME NEW key \in Keys
       PROVE  IF key \in DOMAIN GrantedBy(c)
              THEN IsFree(key) /\ HeldBy(new)[key] = GrantedBy(c)[key]
              ELSE HeldBy(new)[key] = HeldBy(old)[key] \/ (IsFree(key) /\ HeldBy(new)[key] = None)
  <2>1. CASE key \in DOMAIN GrantedBy(c)
    <3>1. c.answer = "true"
      <4>1. SUFFICES ASSUME c.answer # "true" PROVE FALSE
        OBVIOUS
      <4>2. GrantedBy(c) = <<>>
        BY <4>1 DEF GrantedBy
      <4>. QED
        BY <2>1, <4>2
    <3>2. PICK f \in Range(s) : f.key = key /\ GrantedBy(c)[key] = f.until
      BY <1>60, <2>1, <3>1
    <3>3. f \in Range(new)
      BY <1>3, <1>4, <3>1, <3>2
    <3>4. HeldBy(new)[key] = f.until
      BY <1>8, <3>2, <3>3, HeldMeans
    <3>5. \A e \in Range(old) : e.key = key => e.until < nowUnix
      BY <1>3, <1>4, <3>1, <3>2
    <3>. QED
      BY <1>11, <2>1, <3>2, <3>4, <3>5
  <2>2. CASE key \notin DOMAIN GrantedBy(c)
    <3>1. c.answer = "true" => \A f \in Range(s) : f.key # key
      BY <1>60, <2>2
    <3>2. \A e \in Range(new) : e.key = key => e \in Range(old)
      BY <1>3, <1>4, <3>1
    <3>3. CASE \E e \in Range(new) : e.key = key
      <4>1. PICK e \in Range(new) : e.key = key /\ e \in Range(old)
        BY <3>2, <3>3
      <4>. QED
        BY <1>8, <2>2, <4>1, HeldMeans
    <3>4. CASE \A e \in Range(new) : e.key # key
      <4>1. c.answer = "true" => ~Holds(s, key)
        BY <3>1 DEF Holds, Range
      <4>2. ASSUME NEW e \in Range(old), e.key = key, ~(e.until < nowUnix) PROVE FALSE
        <5>1. e.until >= nowUnix
          BY <1>2, <1>7, <4>2
        <5>. QED
          BY <1>3, <1>4, <3>4, <4>1, <4>2, <5>1
      <4>3. IsFree(key)
        BY <1>11, <4>2
      <4>4. HeldBy(new)[key] = None
        BY <1>8, <3>4, HeldMeans
      <4>. QED
        BY <2>2, <4>3, <4>4
    <3>. QED
      BY <3>3, <3>4
  <2>. QED
    BY <2>1, <2>2
<1>13. UNCHANGED clock
  BY DEF Serve
<1>14. HeldBy(reserved) = HeldBy(old) /\ HeldBy(reserved)' = HeldBy(new) /\ GrantedBy(call)' = GrantedBy(c)
  <2>1. HeldBy(reserved)' = HeldBy(reserved') /\ GrantedBy(call)' = GrantedBy(call')
    BY DEF HeldBy, GrantedBy
  <2>. QED
    BY <1>4, <2>1
<1>. QED
  BY <1>9, <1>10, <1>12, <1>13, <1>14 DEF Guard!Serve, Guard!Free

\* The in-memory store keeps a host's promise although the instants of its calls
\* are out of order and it forgets reservations on three paths (nonces.ts): what
\* it grants is held until the time stated, and nothing held is granted again.
THEOREM StoreImplementsGuard == NSpec => ImplementsGuard
<1>1. NInit => Guard!Init
  BY DEF NInit, Guard!Init, HeldBy, GrantedBy
<1>2. HeldInv /\ [NNext]_nvars => [Guard!Next]_(Guard!vars)
  <2>. SUFFICES ASSUME HeldInv, [NNext]_nvars PROVE [Guard!Next]_(Guard!vars)
    OBVIOUS
  <2>1. CASE Serve
    BY <2>1, ServeGrants DEF Guard!Next
  <2>2. CASE Tick
    BY <2>2 DEF Tick, store, Guard!Next, Guard!Tick, HeldBy, GrantedBy
  <2>3. CASE UNCHANGED nvars
    BY <2>3 DEF nvars, store, Guard!vars, HeldBy, GrantedBy
  <2>. QED
    BY <2>1, <2>2, <2>3 DEF NNext
<1>. QED
  BY <1>1, <1>2, HeldInvInit, HeldInvNext, PTL DEF NSpec, ImplementsGuard, Guard!Spec

-----------------------------------------------------------------------------
(* What an attempt asks the store for *)

\* Integers at finitely many positions, at least one, have a greatest.
LEMMA Greatest ==
    ASSUME NEW I, IsFiniteSet(I), I # {}, NEW value, \A i \in I : value[i] \in Int
    PROVE  \E i \in I : \A j \in I : value[j] <= value[i]
<1>. DEFINE Above(i) == {j \in I : value[j] > value[i]}
            sizes == {Cardinality(Above(i)) : i \in I}
<1>1. \A i \in I : IsFiniteSet(Above(i)) /\ Cardinality(Above(i)) \in Nat
  BY FS_Subset, FS_CardinalityType
<1>2. sizes \in SUBSET Nat /\ sizes # {}
  BY <1>1
<1>3. PICK m \in sizes : \A k \in sizes : m <= k
  BY <1>2, LeastNatural
<1>4. PICK i \in I : m = Cardinality(Above(i))
  BY <1>3
<1>5. ASSUME NEW j \in I, value[j] > value[i] PROVE FALSE
  <2>1. \A k \in I : value[k] > value[j] => value[k] > value[i]
    <3>. TAKE k \in I
    <3>1. value[k] \in Int /\ value[j] \in Int /\ value[i] \in Int
      OBVIOUS
    <3>. QED
      BY <1>5, <3>1
  <2>2. Above(j) \in SUBSET Above(i)
    BY <2>1
  <2>3. j \in Above(i) /\ j \notin Above(j)
    <3>1. value[j] \in Int
      OBVIOUS
    <3>. QED
      BY <1>5, <3>1
  <2>4. Cardinality(Above(j)) <= Cardinality(Above(i)) /\ Cardinality(Above(j)) # Cardinality(Above(i))
    BY <1>1, <2>2, <2>3, FS_Subset
  <2>5. Cardinality(Above(i)) <= Cardinality(Above(j))
    BY <1>3, <1>4
  <2>. QED
    BY <1>1, <2>4, <2>5, SMTT(60)
<1>6. ASSUME NEW j \in I PROVE value[j] <= value[i]
  <2>1. value[j] \in Int /\ value[i] \in Int
    OBVIOUS
  <2>. QED
    BY <1>5, <2>1
<1>. QED
  BY <1>6

\* Deduplication loses no key and no time, and asks for nothing that was not named.
LEMMA DeduplicatedMeans ==
    ASSUME NEW K, NEW raw \in Seq(Entries(K))
    PROVE  /\ Deduplicated(raw) \in Seq(Entries(K))
           /\ Range(Deduplicated(raw)) \subseteq Range(raw)
           /\ \A e \in Range(raw) : \E d \in Range(Deduplicated(raw)) : d.key = e.key /\ d.until >= e.until
<1>. DEFINE again == {i \in DOMAIN raw : \E j \in 1 .. i - 1 : raw[j].key = raw[i].key}
            Untils(key) == {raw[i].until : i \in {n \in DOMAIN raw : raw[n].key = key}}
            Longest(key) == CHOOSE until \in Untils(key) : \A other \in Untils(key) : other <= until
<1>1. /\ Len(raw) \in Nat /\ DOMAIN raw = 1 .. Len(raw)
      /\ \A i \in DOMAIN raw : raw[i] \in Entries(K)
  OBVIOUS
<1>2. \A i \in DOMAIN raw : /\ raw[i].key \in K /\ raw[i].until \in Int
                            /\ raw[i] = [key |-> raw[i].key, until |-> raw[i].until]
  BY <1>1 DEF Entries
<1>3. PICK firsts : firsts = Without(raw, again)
  OBVIOUS
<1>4. /\ firsts \in Seq(Entries(K)) /\ Range(firsts) = {raw[i] : i \in DOMAIN raw \ again}
  <2>1. PICK S, g : S = Entries(K) /\ g = again
    OBVIOUS
  <2>2. raw \in Seq(S)
    BY <2>1
  <2>3. Without(raw, g) \in Seq(S) /\ Range(Without(raw, g)) = {raw[i] : i \in DOMAIN raw \ g}
    BY <2>2, WithoutKeeps, ZenonT(60)
  <2>. QED
    BY <1>3, <2>1, <2>3
<1>5. ASSUME NEW i \in DOMAIN raw
      PROVE  /\ \E k \in DOMAIN raw : raw[k].key = raw[i].key /\ Longest(raw[i].key) = raw[k].until
             /\ Longest(raw[i].key) >= raw[i].until
  <2>1. PICK I : I = {n \in DOMAIN raw : raw[n].key = raw[i].key}
    OBVIOUS
  <2>2. PICK value : value = [n \in DOMAIN raw |-> raw[n].until]
    OBVIOUS
  <2>3. IsFiniteSet(DOMAIN raw)
    BY <1>1, FS_Interval
  <2>4. IsFiniteSet(I) /\ I # {} /\ \A n \in I : value[n] \in Int /\ value[n] = raw[n].until
    BY <1>2, <2>1, <2>2, <2>3, FS_Subset
  <2>5. PICK k \in I : \A j \in I : value[j] <= value[k]
    BY <2>4, Greatest
  <2>6. Untils(raw[i].key) = {value[n] : n \in I}
    BY <2>1, <2>2
  <2>7. value[k] \in Untils(raw[i].key) /\ \A other \in Untils(raw[i].key) : other <= value[k]
    BY <2>5, <2>6
  <2>8. Longest(raw[i].key) \in Untils(raw[i].key) /\ \A other \in Untils(raw[i].key) : other <= Longest(raw[i].key)
    BY <2>7
  <2>. HIDE DEF Untils, Longest
  <2>9. PICK n \in I : Longest(raw[i].key) = value[n]
    BY <2>6, <2>8
  <2>10. i \in I /\ value[i] <= value[n]
    BY <2>1, <2>6, <2>8, <2>9
  <2>. QED
    BY <2>1, <2>4, <2>9, <2>10
<1>6. PICK d : d = [n \in DOMAIN firsts |-> Entry(firsts[n].key, Longest(firsts[n].key))]
  OBVIOUS
<1>7. Deduplicated(raw) = d
  BY <1>3, <1>6 DEF Deduplicated
<1>. HIDE DEF Longest, again
<1>8. ASSUME NEW n \in DOMAIN firsts
      PROVE  \E i \in DOMAIN raw : /\ firsts[n] = raw[i]
                                   /\ d[n] = Entry(raw[i].key, Longest(raw[i].key))
  BY <1>4, <1>6 DEF Range
<1>9. ASSUME NEW n \in DOMAIN firsts
      PROVE  \E k \in DOMAIN raw : d[n] = raw[k]
  <2>1. PICK i \in DOMAIN raw : d[n] = Entry(raw[i].key, Longest(raw[i].key))
    BY <1>8
  <2>2. PICK k \in DOMAIN raw : raw[k].key = raw[i].key /\ Longest(raw[i].key) = raw[k].until
    BY <1>5
  <2>. QED
    BY <1>2, <2>1, <2>2 DEF Entry
<1>10. d \in Seq(Entries(K))
  <2>1. DOMAIN firsts = 1 .. Len(firsts) /\ Len(firsts) \in Nat
    BY <1>4
  <2>2. \A n \in 1 .. Len(firsts) : d[n] \in Entries(K)
    BY <1>1, <1>9, <2>1
  <2>3. d = [n \in 1 .. Len(firsts) |-> d[n]]
    BY <1>6, <2>1
  <2>. QED
    BY <2>1, <2>2, <2>3
<1>11. Range(d) \subseteq Range(raw)
  <2>1. DOMAIN d = DOMAIN firsts
    BY <1>6
  <2>. QED
    BY <1>9, <2>1 DEF Range
<1>12. ASSUME NEW e \in Range(raw) PROVE \E f \in Range(d) : f.key = e.key /\ f.until >= e.until
  <2>1. PICK i \in DOMAIN raw : e = raw[i]
    BY DEF Range
  <2>2. PICK same : same = {j \in DOMAIN raw : raw[j].key = raw[i].key}
    OBVIOUS
  <2>3. same \in SUBSET Nat /\ same # {}
    BY <1>1, <2>2
  <2>4. PICK j \in same : \A k \in same : j <= k
    BY <2>3, LeastNatural
  <2>5. j \in DOMAIN raw /\ raw[j].key = raw[i].key /\ j \notin again
    <3>1. j \in DOMAIN raw /\ raw[j].key = raw[i].key
      BY <2>2
    <3>2. ASSUME NEW k \in 1 .. j - 1, raw[k].key = raw[j].key PROVE FALSE
      <4>1. k \in DOMAIN raw /\ ~(j <= k)
        BY <1>1, <3>1
      <4>. QED
        BY <2>2, <2>4, <3>1, <3>2, <4>1
    <3>. QED
      BY <3>1, <3>2 DEF again
  <2>6. PICK n \in DOMAIN firsts : firsts[n] = raw[j]
    BY <1>4, <2>5 DEF Range
  <2>7. d[n] = Entry(e.key, Longest(e.key))
    BY <1>6, <2>1, <2>5, <2>6
  <2>8. n \in DOMAIN d
    BY <1>6
  <2>9. d[n] \in Range(d)
    BY <2>8 DEF Range
  <2>10. d[n].key = e.key /\ d[n].until >= e.until
    BY <1>5, <2>1, <2>7 DEF Entry
  <2>. QED
    BY <2>9, <2>10
<1>. QED
  BY <1>7, <1>10, <1>11, <1>12

-----------------------------------------------------------------------------
(* What the parties that share a store have spent.  P holds the parties, R *)
(* the reservations, and t is the time.                                    *)

\* What a party has spent is reserved for as long as it said, or has lapsed.
Holding(P, R, t) ==
    \A p \in Parties : P[p].spent =>
        \A e \in Range(P[p].entries) :
            /\ e.until \in Int
            /\ e.until < t \/ \E g \in R : g.key = e.key /\ g.until >= e.until

\* Nothing is reserved that no party has spent.
Origins(P, R) ==
    \A g \in R : g.until \in Int /\ \E p \in Parties : P[p].spent /\ g \in Range(P[p].entries)

Once(P) ==
    \A p, r \in Parties :
        p # r /\ P[p].spent /\ P[r].spent =>
            \A e \in Range(P[p].entries), f \in Range(P[r].entries) :
                e.key = f.key => e.until < P[r].at \/ f.until < P[p].at

Accounted(P, R, t) == Holding(P, R, t) /\ Origins(P, R) /\ Once(P)

\* A party that has spent stays as it is.
Stays(p, P, Q) == P[p].spent => Q[p].spent /\ Q[p].entries = P[p].entries /\ Q[p].at = P[p].at

\* A step that spends nothing, and forgets only what has lapsed.
LEMMA NothingSpent ==
    ASSUME NEW P, NEW Q, NEW R, NEW S \in SUBSET R, NEW t \in Int, NEW u \in Int, t <= u,
           Accounted(P, R, t),
           \A p \in Parties : Stays(p, P, Q) /\ (Q[p].spent => P[p].spent),
           \A g \in R : g \in S \/ g.until < u
    PROVE  Accounted(Q, S, u)
<1>1. Holding(Q, S, u)
  <2>. SUFFICES ASSUME NEW p \in Parties, Q[p].spent, NEW e \in Range(Q[p].entries)
                PROVE  e.until \in Int /\ (e.until < u \/ \E g \in S : g.key = e.key /\ g.until >= e.until)
    BY DEF Holding
  <2>1. P[p].spent /\ e \in Range(P[p].entries)
    BY DEF Stays
  <2>2. e.until \in Int /\ (e.until < t \/ \E g \in R : g.key = e.key /\ g.until >= e.until)
    BY <2>1 DEF Accounted, Holding
  <2>3. CASE e.until < t
    BY <2>2, <2>3
  <2>4. CASE \E g \in R : g.key = e.key /\ g.until >= e.until
    <3>1. PICK g \in R : g.key = e.key /\ g.until >= e.until
      BY <2>4
    <3>2. g \in S \/ (g.until < u /\ g.until \in Int)
      BY DEF Accounted, Origins
    <3>. QED
      BY <2>2, <3>1, <3>2
  <2>. QED
    BY <2>2, <2>3, <2>4
<1>2. Origins(Q, S)
  BY DEF Accounted, Origins, Stays
<1>3. Once(Q)
  <2>1. \A p \in Parties : Q[p].spent => P[p].spent /\ Q[p].entries = P[p].entries /\ Q[p].at = P[p].at
    BY DEF Stays
  <2>2. Once(P)
    BY DEF Accounted
  <2>. QED
    BY <2>1, <2>2 DEF Once
<1>. QED
  BY <1>1, <1>2, <1>3 DEF Accounted

\* A step in which q spends what it asked for: reservations of the same keys have
\* lapsed, and others are forgotten only when they have.
Spends(q, P, Q, R, S, t, given) ==
    /\ \A p \in Parties \ {q} : Stays(p, P, Q) /\ (Q[p].spent => P[p].spent)
    /\ ~P[q].spent /\ Q[q].spent /\ Q[q].at = t
    /\ \A e \in Range(Q[q].entries) : e.until \in Int /\ \E d \in given : d.key = e.key /\ d.until >= e.until
    /\ given \subseteq Range(Q[q].entries) /\ given \subseteq S /\ S \subseteq R \cup given
    /\ \A g \in R : g \in S \/ g.until < t
    /\ \A g \in R, d \in given : g.key = d.key => g.until < t

LEMMA SpentByOne ==
    ASSUME NEW P, NEW Q, NEW R, NEW S, NEW t \in Int, NEW q \in Parties, NEW given,
           Accounted(P, R, t), Spends(q, P, Q, R, S, t, given)
    PROVE  Accounted(Q, S, t)
<1>0. /\ \A p \in Parties \ {q} : Stays(p, P, Q) /\ (Q[p].spent => P[p].spent)
      /\ ~P[q].spent /\ Q[q].spent /\ Q[q].at = t
      /\ \A e \in Range(Q[q].entries) : e.until \in Int /\ \E d \in given : d.key = e.key /\ d.until >= e.until
      /\ given \subseteq Range(Q[q].entries) /\ given \subseteq S /\ S \subseteq R \cup given
      /\ \A g \in R : g \in S \/ g.until < t
      /\ \A g \in R, d \in given : g.key = d.key => g.until < t
  BY DEF Spends
<1>1. \A p \in Parties \ {q} :
         Q[p].spent => P[p].spent /\ Q[p].entries = P[p].entries /\ Q[p].at = P[p].at
  BY <1>0 DEF Stays
<1>2. \A p \in Parties : P[p].spent =>
         /\ p # q
         /\ \A e \in Range(P[p].entries) :
               /\ e.until \in Int
               /\ e.until < t \/ \E g \in R : g.key = e.key /\ g.until >= e.until
  BY <1>0 DEF Accounted, Holding
<1>3. \A g \in R : g.until \in Int /\ \E p \in Parties : P[p].spent /\ g \in Range(P[p].entries)
  BY DEF Accounted, Origins
<1>4. Holding(Q, S, t)
  <2>. SUFFICES ASSUME NEW p \in Parties, Q[p].spent, NEW e \in Range(Q[p].entries)
                PROVE  e.until \in Int /\ (e.until < t \/ \E g \in S : g.key = e.key /\ g.until >= e.until)
    BY DEF Holding
  <2>1. CASE p = q
    BY <1>0, <2>1
  <2>2. CASE p # q
    <3>1. e.until \in Int /\ (e.until < t \/ \E g \in R : g.key = e.key /\ g.until >= e.until)
      BY <1>1, <1>2, <2>2
    <3>2. CASE \E g \in R : g.key = e.key /\ g.until >= e.until
      <4>1. PICK g \in R : g.key = e.key /\ g.until >= e.until
        BY <3>2
      <4>2. g.until \in Int /\ (g \in S \/ g.until < t)
        BY <1>0, <1>3
      <4>. QED
        BY <3>1, <4>1, <4>2
    <3>. QED
      BY <3>1, <3>2
  <2>. QED
    BY <2>1, <2>2
<1>5. Origins(Q, S)
  <2>. SUFFICES ASSUME NEW g \in S
                PROVE  g.until \in Int /\ \E p \in Parties : Q[p].spent /\ g \in Range(Q[p].entries)
    BY DEF Origins
  <2>1. CASE g \in given
    BY <1>0, <2>1
  <2>2. CASE g \in R
    <3>1. PICK p \in Parties : P[p].spent /\ g \in Range(P[p].entries)
      BY <1>3, <2>2
    <3>2. Q[p].spent /\ Q[p].entries = P[p].entries
      BY <1>0, <1>2, <3>1 DEF Stays
    <3>. QED
      BY <1>3, <2>2, <3>1, <3>2
  <2>. QED
    BY <1>0, <2>1, <2>2
\* What another party has spent under the same key has lapsed by now.
<1>6. ASSUME NEW p \in Parties \ {q}, Q[p].spent, NEW e \in Range(Q[p].entries),
             NEW f \in Range(Q[q].entries), e.key = f.key
      PROVE  e.until < Q[q].at
  <2>1. e.until \in Int /\ (e.until < t \/ \E g \in R : g.key = e.key /\ g.until >= e.until)
    BY <1>1, <1>2, <1>6
  <2>2. PICK d \in given : d.key = f.key
    BY <1>0, <1>6
  <2>3. ASSUME NEW g \in R, g.key = e.key, g.until >= e.until PROVE e.until < t
    <3>1. g.until \in Int /\ g.until < t
      BY <1>0, <1>3, <1>6, <2>2, <2>3
    <3>. QED
      BY <2>1, <2>3, <3>1
  <2>. QED
    BY <1>0, <2>1, <2>3
<1>7. Once(Q)
  <2>. SUFFICES ASSUME NEW p \in Parties, NEW r \in Parties, p # r, Q[p].spent, Q[r].spent,
                       NEW e \in Range(Q[p].entries), NEW f \in Range(Q[r].entries), e.key = f.key
                PROVE  e.until < Q[r].at \/ f.until < Q[p].at
    BY DEF Once
  <2>1. CASE r = q
    BY <1>6, <2>1
  <2>2. CASE p = q
    BY <1>6, <2>2
  <2>3. CASE p # q /\ r # q
    <3>1. /\ P[p].spent /\ e \in Range(P[p].entries) /\ Q[p].at = P[p].at
          /\ P[r].spent /\ f \in Range(P[r].entries) /\ Q[r].at = P[r].at
      BY <1>1, <2>3
    <3>. QED
      BY <3>1 DEF Accounted, Once
  <2>. QED
    BY <2>1, <2>2, <2>3
<1>. QED
  BY <1>4, <1>5, <1>7 DEF Accounted

-----------------------------------------------------------------------------
(* The gate *)

AllKeys ==
    Keys \cup {c.nonce : c \in Contexts} \cup {h.bytes : h \in Headers}
        \cup {t.jti : t \in Quotes} \cup {m.key : m \in Mandates}

IsCall(c) ==
    c = [phase |-> c.phase, captured |-> c.captured, list |-> c.list, now |-> c.now, outcome |-> c.outcome,
         entries |-> c.entries, spent |-> c.spent, at |-> c.at]

\* An invocation is answered once, has spent before it is answered, and is told
\* nothing about its presentation when it has.
CallOK(c, t) ==
    /\ IsCall(c)
    /\ c.phase \in {"idle", "new", "deciding", "reserved", "done"}
    /\ c.captured \in Captured \cup {None}
    /\ c.list \in EntryLists \cup {<<>>}
    /\ c.now \in Nat /\ c.now <= t
    /\ c.entries \in Seq(Entries(AllKeys))
    /\ c.spent \in BOOLEAN
    /\ c.spent => c.phase \in {"reserved", "done"}
    /\ c.phase # "done" => c.outcome = None
    /\ c.phase = "done" /\ c.spent => c.outcome \in {"allow", "internal_error"}
    /\ c.outcome # "quote_fault"

\* Receipts of q that tell nobody that it was allowed.
Refusals(q) == {r \in [by : {q}, allowed : BOOLEAN, delivered : BOOLEAN] : ~(r.allowed /\ r.delivered)}

\* What a step of invocation q leaves of it and of the gate's records.
Refused(q, u) ==
    /\ u.phase = "done" /\ u.outcome # "allow"
    /\ \E extra \in Seq(Refusals(q)) : chain' = chain \o extra
    /\ UNCHANGED <<stash, payments>>

Granted(q, u) ==
    /\ u.phase = "done" /\ u.outcome = "allow"
    /\ chain' = chain \o <<Receipt(q, TRUE, TRUE)>>
    /\ stash' = Stashed(q, u.captured)
    /\ UNCHANGED payments

Pending(u) == u.phase # "done" /\ UNCHANGED <<chain, stash, payments>>

\* Nothing is asked of the store, or the call to it decides what q has spent.
Unasked(c, u) ==
    /\ UNCHANGED nvars
    /\ u.spent = c.spent /\ (c.spent => u.entries = c.entries /\ u.at = c.at)
    /\ u.outcome # "nonce_replayed"

Served(c, u, entries, nowUnix) ==
    /\ Reserve(entries, nowUnix) /\ UNCHANGED clock
    /\ ~c.spent /\ u.at = clock
    /\ u.spent = (call'.answer = "true")
    /\ u.outcome = "nonce_replayed" => call'.answer = "false"

LEMMA Wider ==
    ASSUME NEW S, NEW T, S \subseteq T, NEW s \in Seq(S)
    PROVE  s \in Seq(T)
<1>1. DOMAIN s = 1 .. Len(s) /\ Len(s) \in Nat /\ \A i \in 1 .. Len(s) : s[i] \in T
  OBVIOUS
<1>. QED
  BY <1>1

LEMMA DenyMeans ==
    ASSUME NEW q, NEW update, NEW code, Deny(q, update, code)
    PROVE  \E o \in {code, "internal_error"}, extra \in Seq(Refusals(q)) :
              /\ calls' = [calls EXCEPT ![q] = [update EXCEPT !.phase = "done", !.outcome = o]]
              /\ chain' = chain \o <<>> \o extra
              /\ UNCHANGED <<stash, payments>>
<1>1. PICK signed \in Signings, accepted \in BOOLEAN : DenyWith(q, update, code, <<>>, signed, accepted)
  BY DEF Deny
<1>2. PICK extra : extra = IF signed = "never" THEN <<>> ELSE <<Receipt(q, FALSE, accepted)>>
  OBVIOUS
<1>3. Receipt(q, FALSE, accepted) \in Refusals(q)
  BY DEF Refusals, Receipt
<1>4. extra \in Seq(Refusals(q))
  <2>1. PICK S, r : S = Refusals(q) /\ r = Receipt(q, FALSE, accepted)
    OBVIOUS
  <2>2. r \in S /\ extra = IF signed = "never" THEN <<>> ELSE <<r>>
    BY <1>2, <1>3, <2>1
  <2>3. extra \in Seq(S)
    BY <2>2
  <2>. QED
    BY <2>1, <2>3
<1>5. PICK o : o = IF signed = "first" /\ accepted THEN code ELSE "internal_error"
  OBVIOUS
<1>6. /\ calls' = [calls EXCEPT ![q] = [update EXCEPT !.phase = "done", !.outcome = o]]
      /\ chain' = chain \o <<>> \o extra
      /\ UNCHANGED <<stash, payments>>
  BY <1>1, <1>2, <1>5 DEF DenyWith, End
<1>. QED
  BY <1>4, <1>5, <1>6

LEMMA NothingBefore ==
    ASSUME NEW S, NEW s \in Seq(S), NEW T, NEW t \in Seq(T)
    PROVE  s \o <<>> \o t = s \o t
<1>1. s \o <<>> = s
  OBVIOUS
<1>. QED
  BY <1>1

\* The denial of an invocation that has not been answered.
LEMMA DenialOf ==
    ASSUME NEW q, NEW update, NEW code, NEW t, Deny(q, update, code), NEW S, chain \in Seq(S),
           CallOK(update, t), code # "allow", code # "quote_fault", update.spent => code = "internal_error"
    PROVE  \E u : /\ calls' = [calls EXCEPT ![q] = u]
                  /\ CallOK(u, t)
                  /\ Refused(q, u)
                  /\ u.spent = update.spent /\ u.entries = update.entries /\ u.at = update.at /\ u.now = update.now
                  /\ u.outcome \in {code, "internal_error"}
<1>1. PICK o \in {code, "internal_error"}, extra \in Seq(Refusals(q)) :
         /\ calls' = [calls EXCEPT ![q] = [update EXCEPT !.phase = "done", !.outcome = o]]
         /\ chain' = chain \o <<>> \o extra
         /\ UNCHANGED <<stash, payments>>
  BY DenyMeans
<1>2. PICK u : u = [update EXCEPT !.phase = "done", !.outcome = o]
  OBVIOUS
<1>3. IsCall(update)
  BY DEF CallOK
<1>4. PICK c : c = update
  OBVIOUS
<1>5. c = [phase |-> c.phase, captured |-> c.captured, list |-> c.list, now |-> c.now, outcome |-> c.outcome,
           entries |-> c.entries, spent |-> c.spent, at |-> c.at]
  BY <1>3, <1>4 DEF IsCall
<1>6. u = [phase |-> "done", captured |-> c.captured, list |-> c.list, now |-> c.now, outcome |-> o,
           entries |-> c.entries, spent |-> c.spent, at |-> c.at]
  BY <1>2, <1>4, <1>5
<1>7. CallOK(u, t)
  BY <1>1, <1>4, <1>6 DEF CallOK, IsCall
<1>8. chain' = chain \o extra
  BY <1>1, NothingBefore
<1>9. Refused(q, u)
  BY <1>1, <1>6, <1>8 DEF Refused
<1>10. u.spent = update.spent /\ u.entries = update.entries /\ u.at = update.at
       /\ u.now = update.now /\ u.outcome \in {code, "internal_error"}
  BY <1>4, <1>6
<1>11. calls' = [calls EXCEPT ![q] = u]
  BY <1>1, <1>2
<1>. QED
  BY <1>7, <1>9, <1>10, <1>11

LEMMA AllowOf ==
    ASSUME NEW q, NEW update, NEW t, NEW delivered, Allow(q, update, delivered), NEW S, chain \in Seq(S),
           CallOK(update, t)
    PROVE  \E u : /\ calls' = [calls EXCEPT ![q] = u]
                  /\ CallOK(u, t)
                  /\ Refused(q, u) \/ Granted(q, u)
                  /\ u.spent = update.spent /\ u.entries = update.entries /\ u.at = update.at /\ u.now = update.now
                  /\ u.outcome \in {"allow", "internal_error"}
<1>. PICK c : c = update
  OBVIOUS
<1>0. c = [phase |-> c.phase, captured |-> c.captured, list |-> c.list, now |-> c.now, outcome |-> c.outcome,
           entries |-> c.entries, spent |-> c.spent, at |-> c.at]
  BY DEF CallOK, IsCall
<1>1. CASE Deny(q, update, "internal_error")
  BY <1>1, DenialOf
<1>2. ASSUME delivered,
             chain' = Append(chain, Receipt(q, TRUE, TRUE)),
             stash' = Stashed(q, update.captured),
             End(q, update, "allow"),
             UNCHANGED payments
      PROVE  \E u : /\ calls' = [calls EXCEPT ![q] = u]
                    /\ CallOK(u, t)
                    /\ Granted(q, u)
                    /\ u.spent = update.spent /\ u.entries = update.entries /\ u.at = update.at /\ u.now = update.now
                    /\ u.outcome = "allow"
  <2>1. PICK u : u = [update EXCEPT !.phase = "done", !.outcome = "allow"]
    OBVIOUS
  <2>2. u = [phase |-> "done", captured |-> c.captured, list |-> c.list, now |-> c.now, outcome |-> "allow",
             entries |-> c.entries, spent |-> c.spent, at |-> c.at]
    BY <1>0, <2>1
  <2>3. CallOK(u, t)
    BY <2>2 DEF CallOK, IsCall
  <2>4. chain' = chain \o <<Receipt(q, TRUE, TRUE)>>
    <3>1. PICK r, T : r = Receipt(q, TRUE, TRUE) /\ T = S \cup {r}
      OBVIOUS
    <3>2. chain \in Seq(T) /\ r \in T
      BY <3>1, Wider
    <3>3. Append(chain, r) = chain \o <<r>>
      BY <3>2, AppendIsConcat
    <3>. QED
      BY <1>2, <3>1, <3>3
  <2>5. Granted(q, u)
    BY <1>2, <2>2, <2>4 DEF Granted
  <2>6. calls' = [calls EXCEPT ![q] = u]
    BY <1>2, <2>1 DEF End
  <2>7. u.spent = update.spent /\ u.entries = update.entries /\ u.at = update.at
        /\ u.now = update.now /\ u.outcome = "allow"
    BY <2>2
  <2>. QED
    BY <2>3, <2>5, <2>6, <2>7
<1>3. ASSUME NEW signed \in Signings,
             DenyWith(q, update, "internal_error", <<Receipt(q, TRUE, FALSE)>>, signed, FALSE)
      PROVE  \E u : /\ calls' = [calls EXCEPT ![q] = u]
                    /\ CallOK(u, t)
                    /\ Refused(q, u)
                    /\ u.spent = update.spent /\ u.entries = update.entries /\ u.at = update.at /\ u.now = update.now
                    /\ u.outcome = "internal_error"
  <2>1. PICK u : u = [update EXCEPT !.phase = "done", !.outcome = "internal_error"]
    OBVIOUS
  <2>2. u = [phase |-> "done", captured |-> c.captured, list |-> c.list, now |-> c.now, outcome |-> "internal_error",
             entries |-> c.entries, spent |-> c.spent, at |-> c.at]
    BY <1>0, <2>1
  <2>3. CallOK(u, t)
    BY <2>2 DEF CallOK, IsCall
  <2>4. PICK rest, first : /\ rest = IF signed = "never" THEN <<>> ELSE <<Receipt(q, FALSE, FALSE)>>
                           /\ first = <<Receipt(q, TRUE, FALSE)>>
    OBVIOUS
  <2>5. Receipt(q, TRUE, FALSE) \in Refusals(q) /\ Receipt(q, FALSE, FALSE) \in Refusals(q)
    BY DEF Refusals, Receipt
  <2>6. rest \in Seq(Refusals(q)) /\ first \in Seq(Refusals(q))
    <3>1. PICK R, r, f : R = Refusals(q) /\ r = Receipt(q, FALSE, FALSE) /\ f = Receipt(q, TRUE, FALSE)
      OBVIOUS
    <3>2. r \in R /\ f \in R /\ first = <<f>> /\ rest = IF signed = "never" THEN <<>> ELSE <<r>>
      BY <2>4, <2>5, <3>1
    <3>3. rest \in Seq(R) /\ first \in Seq(R)
      BY <3>2
    <3>. QED
      BY <3>1, <3>3
  <2>7. first \o rest \in Seq(Refusals(q))
    BY <2>6
  <2>8. chain' = chain \o first \o rest
    BY <1>3, <2>4 DEF DenyWith
  <2>9. chain \o first \o rest = chain \o (first \o rest)
    <3>1. PICK T : T = S \cup Refusals(q)
      OBVIOUS
    <3>2. chain \in Seq(T) /\ first \in Seq(T) /\ rest \in Seq(T)
      BY <2>6, <3>1, Wider
    <3>. QED
      BY <3>2, ConcatAssociative
  <2>10. Refused(q, u)
    BY <1>3, <2>2, <2>7, <2>8, <2>9 DEF DenyWith, Refused
  <2>11. calls' = [calls EXCEPT ![q] = u]
    BY <1>3, <2>1 DEF DenyWith, End
  <2>12. u.spent = update.spent /\ u.entries = update.entries /\ u.at = update.at
        /\ u.now = update.now /\ u.outcome = "internal_error"
    BY <2>2
  <2>. QED
    BY <2>3, <2>10, <2>11, <2>12
<1>. QED
  BY <1>1, <1>2, <1>3 DEF Allow

Receipts == [by : Invocations, allowed : BOOLEAN, delivered : BOOLEAN]

\* A step of invocation q.
GateMove(q) ==
    \E u : /\ calls[q].phase \notin {"idle", "done"}
           /\ calls' = [calls EXCEPT ![q] = u]
           /\ CallOK(u, clock)
           /\ Refused(q, u) \/ Granted(q, u) \/ Pending(u)
           /\ \/ Unasked(calls[q], u)
              \/ Served(calls[q], u, u.entries, calls[q].now) /\ u.now = calls[q].now

LEMMA Preflights ==
    ASSUME NEW q \in Invocations, NEW captured \in Captured \cup {None}, NEW list \in EntryLists \cup {<<>>}, NEW fault,
           Preflight(q, captured, list, fault), clock \in Nat, NEW S, chain \in Seq(S), CallOK(calls[q], clock)
    PROVE  GateMove(q)
<1>1. PICK u : u = [NewCall EXCEPT !.captured = captured, !.list = list, !.now = clock]
  OBVIOUS
<1>2. u = [phase |-> "new", captured |-> captured, list |-> list, now |-> clock, outcome |-> None,
           entries |-> <<>>, spent |-> FALSE, at |-> 0]
  BY <1>1 DEF NewCall
<1>3. <<>> \in Seq(Entries(AllKeys))
  OBVIOUS
<1>4. None # "quote_fault" /\ None \notin {"allow", "nonce_replayed"}
  BY EvcAssumption, GateAssumption
<1>5. CallOK(u, clock)
  BY <1>2, <1>3, <1>4 DEF CallOK, IsCall
<1>6. PICK code : code = EarlyDenial(list, fault)
  OBVIOUS
<1>7. code \in {"internal_error", "missing_authorization", None}
  BY <1>6 DEF EarlyDenial
<1>8. calls[q].phase = "new" /\ UNCHANGED nvars /\ calls[q].spent = FALSE
  BY DEF Preflight, CallOK
<1>9. CASE code # None
  <2>1. Deny(q, u, code)
    BY <1>1, <1>6, <1>9 DEF Preflight
  <2>2. PICK d : /\ calls' = [calls EXCEPT ![q] = d]
                 /\ CallOK(d, clock)
                 /\ Refused(q, d)
                 /\ d.spent = u.spent /\ d.entries = u.entries /\ d.at = u.at /\ d.now = u.now
                 /\ d.outcome \in {code, "internal_error"}
    <3>1. ~u.spent /\ code # "allow" /\ code # "quote_fault"
      BY <1>2, <1>7, <1>9
    <3>. QED
      BY <1>5, <2>1, <3>1, DenialOf
  <2>3. Unasked(calls[q], d)
    BY <1>2, <1>7, <1>8, <1>9, <2>2 DEF Unasked
  <2>. QED
    BY <1>8, <2>2, <2>3 DEF GateMove
<1>10. CASE code = None
  <2>1. PICK d : d = [u EXCEPT !.phase = "deciding"]
    OBVIOUS
  <2>2. d = [phase |-> "deciding", captured |-> captured, list |-> list, now |-> clock, outcome |-> None,
             entries |-> <<>>, spent |-> FALSE, at |-> 0]
    BY <1>2, <2>1
  <2>3. CallOK(d, clock)
    BY <1>3, <1>4, <2>2 DEF CallOK, IsCall
  <2>4. calls' = [calls EXCEPT ![q] = d] /\ UNCHANGED <<chain, stash, payments>>
    BY <1>1, <1>6, <1>10, <2>1 DEF Preflight
  <2>5. Pending(d)
    BY <2>2, <2>4 DEF Pending
  <2>6. Unasked(calls[q], d)
    BY <1>4, <1>8, <2>2 DEF Unasked
  <2>. QED
    BY <1>8, <2>3, <2>4, <2>5, <2>6 DEF GateMove
<1>. QED
  BY <1>9, <1>10

LEMMA Discovers ==
    ASSUME NEW q \in Invocations, NEW result, Discover(q, result), clock \in Nat, NEW S, chain \in Seq(S),
           CallOK(calls[q], clock)
    PROVE  GateMove(q)
<1>1. PICK o : o = IF result \in {"402", "undefined"} THEN "discovery" ELSE "internal_error"
  OBVIOUS
<1>2. PICK u : u = [NewCall EXCEPT !.phase = "done", !.outcome = o]
  OBVIOUS
<1>3. u = [phase |-> "done", captured |-> None, list |-> <<>>, now |-> 0, outcome |-> o,
           entries |-> <<>>, spent |-> FALSE, at |-> 0]
  BY <1>2 DEF NewCall
<1>4. <<>> \in Seq(Entries(AllKeys))
  OBVIOUS
<1>5. CallOK(u, clock)
  BY <1>1, <1>3, <1>4 DEF CallOK, IsCall
<1>6. calls[q].phase = "new" /\ UNCHANGED nvars /\ calls[q].spent = FALSE
  BY DEF Discover, CallOK
<1>7. calls' = [calls EXCEPT ![q] = u] /\ UNCHANGED <<chain, stash, payments>>
  BY <1>1, <1>2 DEF Discover, End
<1>8. <<>> \in Seq(Refusals(q)) /\ chain' = chain \o <<>>
  BY <1>7
<1>9. Refused(q, u)
  BY <1>1, <1>3, <1>7, <1>8 DEF Refused
<1>10. Unasked(calls[q], u)
  BY <1>1, <1>3, <1>6 DEF Unasked
<1>. QED
  BY <1>5, <1>6, <1>7, <1>9, <1>10 DEF GateMove

LEMMA Refuses ==
    ASSUME NEW q \in Invocations, NEW code \in {"denied", "internal_error"}, Refuse(q, code), clock \in Nat,
           NEW S, chain \in Seq(S), CallOK(calls[q], clock)
    PROVE  GateMove(q)
<1>1. PICK c : c = calls[q]
  OBVIOUS
<1>2. c.phase = "deciding" /\ ~c.spent /\ Deny(q, c, code) /\ UNCHANGED nvars /\ CallOK(c, clock)
  BY <1>1 DEF Refuse, CallOK
<1>3. PICK d : /\ calls' = [calls EXCEPT ![q] = d]
               /\ CallOK(d, clock)
               /\ Refused(q, d)
               /\ d.spent = c.spent /\ d.entries = c.entries /\ d.at = c.at /\ d.now = c.now
               /\ d.outcome \in {code, "internal_error"}
  BY <1>2, DenialOf
<1>4. Unasked(c, d)
  BY <1>2, <1>3 DEF Unasked
<1>. QED
  BY <1>1, <1>2, <1>3, <1>4 DEF GateMove

LEMMA Allows ==
    ASSUME NEW q \in Invocations, NEW delivered, AllowWithoutNonces(q, delivered) \/ Settle(q, delivered),
           clock \in Nat, NEW S, chain \in Seq(S), CallOK(calls[q], clock)
    PROVE  GateMove(q)
<1>1. PICK c : c = calls[q]
  OBVIOUS
<1>2. c.phase \in {"deciding", "reserved"} /\ Allow(q, c, delivered) /\ UNCHANGED nvars /\ CallOK(c, clock)
  BY <1>1 DEF AllowWithoutNonces, Settle
<1>3. PICK d : /\ calls' = [calls EXCEPT ![q] = d]
               /\ CallOK(d, clock)
               /\ Refused(q, d) \/ Granted(q, d)
               /\ d.spent = c.spent /\ d.entries = c.entries /\ d.at = c.at /\ d.now = c.now
               /\ d.outcome \in {"allow", "internal_error"}
  BY <1>2, AllowOf
<1>4. Unasked(c, d)
  BY <1>2, <1>3 DEF Unasked
<1>. QED
  BY <1>1, <1>2, <1>3, <1>4 DEF GateMove

LEMMA ReservesForGate ==
    ASSUME NEW q \in Invocations, NEW retention \in Retentions, ReserveStep(q, retention),
           clock \in Nat, Stored(AllKeys), NEW S, chain \in Seq(S), CallOK(calls[q], clock)
    PROVE  GateMove(q)
<1>1. PICK c, list : c = calls[q] /\ list = calls[q].list
  OBVIOUS
<1>2. PICK entries : entries = [i \in DOMAIN list |-> [key |-> list[i], until |-> c.now + retention]]
  OBVIOUS
<1>3. PICK asked : asked = [c EXCEPT !.entries = entries, !.at = clock]
  OBVIOUS
<1>4. CallOK(c, clock) /\ c.phase = "deciding" /\ c.spent = FALSE /\ c.now \in Int
  BY <1>1 DEF ReserveStep, CallOK
<1>5. entries \in Seq(Entries(AllKeys))
  <2>1. list \in Seq(AllKeys)
    <3>1. list \in Seq(Keys)
      <4>1. list \in EntryLists \cup {<<>>}
        BY <1>1 DEF CallOK
      <4>2. EntryLists \subseteq Seq(Keys)
        BY StoreAssumption
      <4>3. <<>> \in Seq(Keys)
        OBVIOUS
      <4>. QED
        BY <4>1, <4>2, <4>3
    <3>2. Keys \subseteq AllKeys
      BY DEF AllKeys
    <3>. QED
      BY <3>1, <3>2, Wider
  <2>2. DOMAIN list = 1 .. Len(list) /\ Len(list) \in Nat /\ \A i \in 1 .. Len(list) : list[i] \in AllKeys
    BY <2>1
  <2>3. c.now + retention \in Int
    BY <1>4, GateAssumption
  <2>4. \A i \in 1 .. Len(list) : [key |-> list[i], until |-> c.now + retention] \in Entries(AllKeys)
    BY <2>2, <2>3 DEF Entries
  <2>. HIDE DEF AllKeys
  <2>. QED
    BY <1>2, <2>2, <2>4
<1>6. c = [phase |-> c.phase, captured |-> c.captured, list |-> c.list, now |-> c.now, outcome |-> c.outcome,
           entries |-> c.entries, spent |-> c.spent, at |-> c.at]
  BY <1>4 DEF CallOK, IsCall
<1>7. asked = [phase |-> c.phase, captured |-> c.captured, list |-> c.list, now |-> c.now, outcome |-> c.outcome,
               entries |-> entries, spent |-> c.spent, at |-> clock]
  BY <1>3, <1>6
<1>8. CallOK(asked, clock)
  BY <1>4, <1>5, <1>7 DEF CallOK, IsCall
<1>9. /\ Reserve(entries, c.now) /\ UNCHANGED clock
      /\ CASE call'.answer = "true" ->
                 /\ calls' = [calls EXCEPT ![q] = [asked EXCEPT !.phase = "reserved", !.spent = TRUE]]
                 /\ UNCHANGED <<chain, stash, payments>>
           [] call'.answer = "false" -> Deny(q, asked, "nonce_replayed")
           [] OTHER -> Deny(q, asked, "internal_error")
  BY <1>1, <1>2, <1>3 DEF ReserveStep
<1>10. CASE call'.answer = "true"
  <2>1. PICK u : u = [asked EXCEPT !.phase = "reserved", !.spent = TRUE]
    OBVIOUS
  <2>2. u = [phase |-> "reserved", captured |-> c.captured, list |-> c.list, now |-> c.now, outcome |-> c.outcome,
             entries |-> entries, spent |-> TRUE, at |-> clock]
    BY <1>7, <2>1
  <2>3. CallOK(u, clock) /\ u.outcome = None
    BY <1>4, <1>5, <2>2 DEF CallOK, IsCall
  <2>4. calls' = [calls EXCEPT ![q] = u] /\ UNCHANGED <<chain, stash, payments>>
    BY <1>9, <1>10, <2>1
  <2>5. Pending(u)
    BY <2>2, <2>4 DEF Pending
  <2>6. None # "nonce_replayed"
    BY GateAssumption
  <2>7. Served(c, u, u.entries, c.now) /\ u.now = c.now
    BY <1>4, <1>9, <1>10, <2>2, <2>3, <2>6 DEF Served
  <2>. QED
    BY <1>1, <1>4, <2>3, <2>4, <2>5, <2>7 DEF GateMove
<1>11. ASSUME NEW code \in {"nonce_replayed", "internal_error"}, Deny(q, asked, code), call'.answer # "true",
              code = "nonce_replayed" => call'.answer = "false"
       PROVE  GateMove(q)
  <2>1. PICK d : /\ calls' = [calls EXCEPT ![q] = d]
                 /\ CallOK(d, clock)
                 /\ Refused(q, d)
                 /\ d.spent = asked.spent /\ d.entries = asked.entries /\ d.at = asked.at /\ d.now = asked.now
                 /\ d.outcome \in {code, "internal_error"}
    BY <1>4, <1>7, <1>8, <1>11, DenialOf
  <2>2. Served(c, d, d.entries, c.now) /\ d.now = c.now
    BY <1>4, <1>7, <1>9, <1>11, <2>1 DEF Served
  <2>. QED
    BY <1>1, <1>4, <2>1, <2>2 DEF GateMove
<1>12. CASE call'.answer = "false"
  <2>1. Deny(q, asked, "nonce_replayed")
    BY <1>9, <1>12
  <2>. QED
    BY <1>11, <1>12, <2>1
<1>13. CASE call'.answer \notin {"true", "false"}
  <2>1. Deny(q, asked, "internal_error")
    BY <1>9, <1>13
  <2>. QED
    BY <1>11, <1>13, <2>1
<1>. QED
  BY <1>10, <1>12, <1>13

LEMMA GateStepMeans ==
    ASSUME GNext, clock \in Nat, Stored(AllKeys), NEW S, chain \in Seq(S),
           \A q \in Invocations : CallOK(calls[q], clock)
    PROVE  \/ Tick /\ UNCHANGED <<calls, chain, stash, payments>>
           \/ \E captured \in Captured : Verify(captured)
           \/ \E q \in Invocations : GateMove(q)
BY Preflights, Discovers, Refuses, Allows, ReservesForGate DEF GNext, VerifierTimeout

CallsInv == calls = [q \in Invocations |-> calls[q]] /\ \A q \in Invocations : CallOK(calls[q], clock)

\* The chain is about answered invocations, and tells of each what it was told.
ReceiptsInv ==
    /\ chain \in Seq(Receipts)
    /\ \A r \in Range(chain) : /\ calls[r.by].phase = "done"
                               /\ r.delivered => (r.allowed <=> calls[r.by].outcome = "allow")
    /\ \A q \in Invocations : calls[q].outcome = "allow" => Receipt(q, TRUE, TRUE) \in Range(chain)

\* A stashed decision allowed, is stashed once, and has not been paid on.
PaymentsInv ==
    /\ stash = [c \in Captured |-> stash[c]] /\ payments = [q \in Invocations |-> payments[q]]
    /\ \A c \in Captured : stash[c] # None =>
          /\ stash[c] \in Invocations /\ calls[stash[c]].outcome = "allow" /\ payments[stash[c]] = 0
          /\ \A d \in Captured : stash[d] = stash[c] => d = c
    /\ \A q \in Invocations : payments[q] \in {0, 1} /\ (payments[q] = 1 => calls[q].outcome = "allow")

RecordsInv == ReceiptsInv /\ PaymentsInv

LEMMA MoveKeepsReceipts ==
    ASSUME CallsInv, ReceiptsInv, NEW q \in Invocations, GateMove(q)
    PROVE  ReceiptsInv'
<1>1. PICK u : /\ calls[q].phase \notin {"idle", "done"}
               /\ calls' = [calls EXCEPT ![q] = u]
               /\ Refused(q, u) \/ Granted(q, u) \/ Pending(u)
               /\ CallOK(u, clock)
  BY DEF GateMove
<1>2. PICK was, now, s, t : was = calls /\ now = calls' /\ s = chain /\ t = chain'
  OBVIOUS
<1>3. now[q] = u /\ \A p \in Invocations \ {q} : now[p] = was[p]
  BY <1>1, <1>2 DEF CallsInv
<1>4. was[q].phase # "done" /\ was[q].outcome # "allow"
  BY <1>1, <1>2, GateAssumption DEF CallsInv, CallOK
<1>5. /\ s \in Seq(Receipts)
      /\ \A r \in Range(s) : r \in Receipts /\ r.by \in Invocations
      /\ \A r \in Range(s) : /\ was[r.by].phase = "done"
                             /\ r.delivered => (r.allowed <=> was[r.by].outcome = "allow")
      /\ \A p \in Invocations : was[p].outcome = "allow" => Receipt(p, TRUE, TRUE) \in Range(s)
  <2>1. s \in Seq(Receipts)
    BY <1>2 DEF ReceiptsInv
  <2>2. \A i \in DOMAIN s : s[i] \in Receipts
    BY <2>1
  <2>3. \A r \in Range(s) : r \in Receipts /\ r.by \in Invocations
    BY <2>2 DEF Range, Receipts
  <2>. QED
    BY <1>2, <2>1, <2>3 DEF ReceiptsInv
<1>6. \A r \in Range(s) : r.by # q /\ now[r.by] = was[r.by]
  BY <1>3, <1>4, <1>5
<1>. DEFINE Truthful(r) == now[r.by].phase = "done" /\ (r.delivered => (r.allowed <=> now[r.by].outcome = "allow"))
<1>7. \A r \in Range(s) : Truthful(r)
  BY <1>5, <1>6
<1>8. \A p \in Invocations \ {q} : now[p].outcome = "allow" => Receipt(p, TRUE, TRUE) \in Range(s)
  BY <1>3, <1>5
<1>. DEFINE Goal == /\ t \in Seq(Receipts)
                    /\ \A r \in Range(t) : Truthful(r)
                    /\ \A p \in Invocations : now[p].outcome = "allow" => Receipt(p, TRUE, TRUE) \in Range(t)
<1>9. ASSUME NEW extra \in Seq(Receipts), t = s \o extra, \A r \in Range(extra) : Truthful(r),
             u.outcome = "allow" => Receipt(q, TRUE, TRUE) \in Range(extra)
      PROVE  Goal
  <2>1. t \in Seq(Receipts) /\ Range(t) = Range(s) \cup Range(extra)
    BY <1>5, <1>9, ConcatRange
  <2>. HIDE DEF Truthful
  <2>. QED
    BY <1>3, <1>7, <1>8, <1>9, <2>1
<1>10. ASSUME Refused(q, u) PROVE Goal
  <2>1. PICK extra \in Seq(Refusals(q)) : t = s \o extra
    BY <1>2, <1>10 DEF Refused
  <2>2. Refusals(q) \subseteq Receipts
    BY DEF Refusals, Receipts
  <2>3. extra \in Seq(Receipts)
    BY <2>2, Wider
  <2>4. \A i \in DOMAIN extra : extra[i] \in Refusals(q)
    OBVIOUS
  <2>5. \A r \in Range(extra) : r.by = q /\ ~(r.allowed /\ r.delivered)
    BY <2>4 DEF Range, Refusals
  <2>6. u.phase = "done" /\ u.outcome # "allow"
    BY <1>10 DEF Refused
  <2>7. \A r \in Range(extra) : Truthful(r)
    BY <1>3, <2>5, <2>6
  <2>. HIDE DEF Truthful, Goal
  <2>. QED
    BY <1>9, <2>1, <2>3, <2>6, <2>7
<1>11. ASSUME Granted(q, u) PROVE Goal
  <2>1. PICK r : r = Receipt(q, TRUE, TRUE)
    OBVIOUS
  <2>2. r \in Receipts /\ r.by = q /\ r.allowed /\ r.delivered
    BY <2>1 DEF Receipt, Receipts
  <2>3. PICK extra : extra = <<r>>
    OBVIOUS
  <2>4. extra \in Seq(Receipts) /\ Range(extra) = {r}
    <3>1. PICK R : R = Receipts
      OBVIOUS
    <3>2. r \in R
      BY <2>2, <3>1
    <3>3. extra \in Seq(R) /\ DOMAIN extra = {1} /\ extra[1] = r
      BY <2>3, <3>2
    <3>. QED
      BY <3>1, <3>3 DEF Range
  <2>5. u.phase = "done" /\ u.outcome = "allow" /\ t = s \o extra
    BY <1>2, <1>11, <2>1, <2>3 DEF Granted
  <2>6. \A e \in Range(extra) : Truthful(e)
    BY <1>3, <2>2, <2>4, <2>5
  <2>. HIDE DEF Truthful, Goal
  <2>. QED
    BY <1>9, <2>1, <2>4, <2>5, <2>6
<1>12. ASSUME Pending(u) PROVE Goal
  <2>1. t = s /\ u.outcome # "allow"
    BY <1>1, <1>2, <1>12, GateAssumption DEF Pending, CallOK
  <2>. HIDE DEF Truthful
  <2>. QED
    BY <1>3, <1>5, <1>7, <1>8, <2>1
<1>13. Goal
  BY <1>1, <1>10, <1>11, <1>12
<1>. QED
  BY <1>2, <1>13 DEF ReceiptsInv

LEMMA MoveKeepsPayments ==
    ASSUME CallsInv, PaymentsInv, NEW q \in Invocations, GateMove(q)
    PROVE  PaymentsInv'
<1>1. PICK u : /\ calls[q].phase \notin {"idle", "done"}
               /\ calls' = [calls EXCEPT ![q] = u]
               /\ Refused(q, u) \/ Granted(q, u) \/ Pending(u)
               /\ CallOK(u, clock)
  BY DEF GateMove
<1>2. PICK was, now, st, nst, pay : was = calls /\ now = calls' /\ st = stash /\ nst = stash' /\ pay = payments
  OBVIOUS
<1>3. now[q] = u /\ \A p \in Invocations \ {q} : now[p] = was[p]
  BY <1>1, <1>2 DEF CallsInv
<1>4. was[q].outcome # "allow" /\ None \notin Invocations
  BY <1>1, <1>2, GateAssumption DEF CallsInv, CallOK
<1>5. /\ st = [c \in Captured |-> st[c]] /\ pay = [p \in Invocations |-> pay[p]]
      /\ \A c \in Captured : st[c] # None =>
            /\ st[c] \in Invocations /\ was[st[c]].outcome = "allow" /\ pay[st[c]] = 0
            /\ \A d \in Captured : st[d] = st[c] => d = c
      /\ \A p \in Invocations : pay[p] \in {0, 1} /\ (pay[p] = 1 => was[p].outcome = "allow")
  BY <1>2 DEF PaymentsInv
<1>6. payments' = pay
  BY <1>1, <1>2 DEF Refused, Granted, Pending
<1>7. \A c \in Captured : st[c] # q
  BY <1>4, <1>5
<1>8. pay[q] = 0
  BY <1>4, <1>5
<1>9. CASE nst = st
  BY <1>2, <1>3, <1>5, <1>6, <1>7, <1>8, <1>9 DEF PaymentsInv
<1>10. CASE Granted(q, u) /\ nst # st
  <2>1. nst = [st EXCEPT ![u.captured] = q] /\ u.outcome = "allow"
    BY <1>2, <1>10 DEF Granted, Stashed
  <2>2. nst = [c \in Captured |-> nst[c]] /\ \A c \in Captured : nst[c] = IF c = u.captured THEN q ELSE st[c]
    BY <1>5, <2>1
  <2>3. \A c \in Captured : nst[c] # None =>
           /\ nst[c] \in Invocations /\ now[nst[c]].outcome = "allow" /\ pay[nst[c]] = 0
           /\ \A d \in Captured : nst[d] = nst[c] => d = c
    BY <1>3, <1>5, <1>7, <1>8, <2>1, <2>2
  <2>4. \A p \in Invocations : pay[p] \in {0, 1} /\ (pay[p] = 1 => now[p].outcome = "allow")
    BY <1>3, <1>5, <1>8
  <2>. QED
    BY <1>2, <1>5, <1>6, <2>2, <2>3, <2>4 DEF PaymentsInv
<1>11. Granted(q, u) \/ nst = st
  BY <1>1, <1>2 DEF Refused, Pending
<1>. QED
  BY <1>9, <1>10, <1>11

LEMMA VerifyKeepsRecords ==
    ASSUME CallsInv, RecordsInv, NEW captured \in Captured, Verify(captured)
    PROVE  RecordsInv'
<1>1. ReceiptsInv'
  BY DEF Verify, RecordsInv, ReceiptsInv
<1>2. PICK q, st, nst, pay, npay :
         q = stash[captured] /\ st = stash /\ nst = stash' /\ pay = payments /\ npay = payments'
  OBVIOUS
<1>3. /\ st = [c \in Captured |-> st[c]] /\ pay = [p \in Invocations |-> pay[p]]
      /\ \A c \in Captured : st[c] # None =>
            /\ st[c] \in Invocations /\ calls[st[c]].outcome = "allow" /\ pay[st[c]] = 0
            /\ \A d \in Captured : st[d] = st[c] => d = c
      /\ \A p \in Invocations : pay[p] \in {0, 1} /\ (pay[p] = 1 => calls[p].outcome = "allow")
  BY <1>2 DEF RecordsInv, PaymentsInv
<1>4. /\ q # None /\ npay = [pay EXCEPT ![q] = @ + 1] /\ nst = [st EXCEPT ![captured] = None] /\ calls' = calls
      /\ q = st[captured]
  BY <1>2 DEF Verify
<1>5. /\ q \in Invocations /\ calls[q].outcome = "allow" /\ pay[q] = 0
      /\ \A d \in Captured : st[d] = q => d = captured
  BY <1>3, <1>4
<1>6. /\ nst = [c \in Captured |-> nst[c]] /\ npay = [p \in Invocations |-> npay[p]]
      /\ \A c \in Captured : nst[c] = IF c = captured THEN None ELSE st[c]
      /\ \A p \in Invocations : npay[p] = IF p = q THEN 1 ELSE pay[p]
  BY <1>3, <1>4, <1>5
<1>7. \A c \in Captured : nst[c] # None =>
         /\ nst[c] \in Invocations /\ calls[nst[c]].outcome = "allow" /\ npay[nst[c]] = 0
         /\ \A d \in Captured : nst[d] = nst[c] => d = c
  BY <1>3, <1>5, <1>6, SMTT(60)
<1>8. \A p \in Invocations : npay[p] \in {0, 1} /\ (npay[p] = 1 => calls[p].outcome = "allow")
  BY <1>3, <1>5, <1>6
<1>9. PaymentsInv'
  <2>1. stash' = nst /\ payments' = npay
    BY <1>2
  <2>2. \A p \in Invocations : calls'[p] = calls[p]
    BY <1>4
  <2>3. \A c \in Captured : nst[c] # None =>
           /\ nst[c] \in Invocations /\ calls'[nst[c]].outcome = "allow" /\ npay[nst[c]] = 0
           /\ \A d \in Captured : nst[d] = nst[c] => d = c
    BY <1>7, <2>2
  <2>4. \A p \in Invocations : npay[p] \in {0, 1} /\ (npay[p] = 1 => calls'[p].outcome = "allow")
    BY <1>8, <2>2
  <2>. QED
    BY <1>6, <2>1, <2>3, <2>4 DEF PaymentsInv
<1>. QED
  BY <1>1, <1>9 DEF RecordsInv

LEMMA RecordsMeanAudited == CallsInv /\ RecordsInv => AuditedAndPaidOnce
<1>. SUFFICES ASSUME CallsInv, RecordsInv PROVE AuditedAndPaidOnce
  OBVIOUS
<1>1. Range(chain) = {chain[i] : i \in DOMAIN chain} /\ \A i \in DOMAIN chain : chain[i] \in Range(chain)
  BY DEF Range
<1>2. ReceiptsMatchAnswers
  BY <1>1 DEF RecordsInv, ReceiptsInv, ReceiptsMatchAnswers
<1>3. PaidOnlyOnDecision
  <2>1. \A q \in Invocations : payments[q] \in {0, 1} /\ (payments[q] = 1 => calls[q].outcome = "allow")
    BY DEF RecordsInv, PaymentsInv
  <2>2. \A q \in Invocations : calls[q].outcome = "allow" => Receipt(q, TRUE, TRUE) \in Range(chain)
    BY DEF RecordsInv, ReceiptsInv
  <2>3. \A q \in Invocations : payments[q] > 0 => payments[q] = 1
    BY <2>1
  <2>. QED
    BY <1>1, <2>1, <2>2, <2>3 DEF PaidOnlyOnDecision
<1>. QED
  BY <1>2, <1>3 DEF AuditedAndPaidOnce

-----------------------------------------------------------------------------
(* Issuer-signed quotes *)

\* A context as the parser leaves it: at most one token under `extra`, with the
\* claims that isUnixSeconds has admitted.
Parsed(context) ==
    /\ \A t, u \in context.requirements.token : t = u
    /\ \A t \in context.requirements.token : t.iat \in Nat /\ t.exp \in Nat

\* Its token is the one that the resolver read.
LEMMA TokenRead ==
    ASSUME NEW context, Parsed(context), NEW token \in context.requirements.token
    PROVE  (CHOOSE t \in context.requirements.token : TRUE) = token
  BY DEF Parsed

\* No quote that the resolver accepts is turned into an internal_error by the bound
\* on acceptUntil - now that verifyX402EvcAuthorization applies by default: a
\* lifetime and the skew on both sides fit in it (x402-issuer-quote/index.ts, 268;
\* x402-evc.ts, validateResolution).
THEOREM QuotesAreUsable ==
    ASSUME NEW audience, NEW context, Parsed(context), NEW now \in Nat
    PROVE  QuoteUsable(audience, context, now)
<1>. SUFFICES ASSUME Bound(audience, context, now)
              PROVE  ValidResolution(Resolution(audience, context), audience, now, MAX_ACCEPTANCE_WINDOW)
  BY DEF QuoteUsable
<1>. DEFINE issuer == Issuers[audience]
<1>1. PICK token \in context.requirements.token : Timely(token, issuer, now)
  BY DEF Bound
<1>2. /\ issuer.maxLifetimeSeconds \in Nat
      /\ issuer.maxLifetimeSeconds + 2 * SKEW <= MAX_ACCEPTANCE_WINDOW
      /\ SKEW \in Nat /\ MAX_ACCEPTANCE_WINDOW \in Nat
  BY QuoteAssumption DEF Bound, Compiled
<1>3. token.iat \in Nat /\ token.exp \in Nat
  BY DEF Parsed
<1>4. token.exp + SKEW - now <= MAX_ACCEPTANCE_WINDOW
  BY <1>1, <1>2, <1>3 DEF Timely
<1>5. /\ Resolution(audience, context).issuer = audience
      /\ Resolution(audience, context).exp = token.exp
      /\ Resolution(audience, context).acceptUntil = token.exp + SKEW
  BY TokenRead DEF Resolution
<1>. QED
  BY <1>2, <1>3, <1>4, <1>5 DEF ValidResolution

\* What the resolver has bound: the one quote of the leg, signed by the payee.
BoundBy(token, context) ==
    /\ token \in context.requirements.token /\ token \in Quotes
    /\ AUDIENCE \in DOMAIN Issuers
    /\ Signed(token, Issuers[AUDIENCE]) /\ token.iss = AUDIENCE
    /\ Claimed(token, context.requirements, context.resource, Issuers[AUDIENCE])
    /\ token.exp \in Nat
    /\ Resolution(AUDIENCE, context) =
          [issuer |-> AUDIENCE, jti |-> token.jti, exp |-> token.exp, acceptUntil |-> token.exp + SKEW,
           verifiedExtraPaths |-> Issuers[AUDIENCE].settlementFields]
    /\ Resolution(AUDIENCE, context) # None

LEMMA LegsAreParsed ==
    ASSUME NEW context, context.requirements \in Legs
    PROVE  Parsed(context) /\ context.requirements.token \subseteq Quotes
<1>1. context.requirements.token \subseteq Quotes
  BY DEF Quotes
<1>2. /\ \A leg \in Legs : \A t, u \in leg.token : t = u
      /\ \A t \in Quotes : t.iat \in Nat /\ t.exp \in Nat
  BY EvcAssumption
<1>. QED
  BY <1>1, <1>2 DEF Parsed

LEMMA ResolutionMeans ==
    ASSUME NEW context, context.requirements \in Legs, NEW now, Bound(AUDIENCE, context, now)
    PROVE  \E token : BoundBy(token, context)
<1>1. Parsed(context) /\ context.requirements.token \subseteq Quotes
  BY LegsAreParsed
<1>2. PICK token \in context.requirements.token :
         /\ Signed(token, Issuers[AUDIENCE]) /\ token.iss = AUDIENCE
         /\ Claimed(token, context.requirements, context.resource, Issuers[AUDIENCE])
  BY DEF Bound
<1>3. AUDIENCE \in DOMAIN Issuers
  BY DEF Bound
<1>4. Resolution(AUDIENCE, context) =
          [issuer |-> AUDIENCE, jti |-> token.jti, exp |-> token.exp, acceptUntil |-> token.exp + SKEW,
           verifiedExtraPaths |-> Issuers[AUDIENCE].settlementFields]
  <2>1. (CHOOSE t \in context.requirements.token : TRUE) = token
    BY <1>1, TokenRead
  <2>. QED
    BY <2>1 DEF Resolution
<1>5. token \in Quotes /\ token.exp \in Nat
  BY <1>1 DEF Parsed
<1>6. Resolution(AUDIENCE, context) # None
  <2>1. \A t \in Quotes, issuer \in DOMAIN Issuers :
          None # [issuer |-> AUDIENCE, jti |-> t.jti, exp |-> t.exp, acceptUntil |-> t.exp + SKEW,
                  verifiedExtraPaths |-> Issuers[issuer].settlementFields]
    BY EvcAssumption
  <2>. QED
    BY <1>3, <1>4, <1>5, <2>1
<1>. QED
  BY <1>2, <1>3, <1>4, <1>5, <1>6 DEF BoundBy

-----------------------------------------------------------------------------
(* The attempts *)

IsAttempt(x) ==
    x = [phase |-> x.phase, mode |-> x.mode, local |-> x.local, context |-> x.context, mandate |-> x.mandate,
         entered |-> x.entered, requestNow |-> x.requestNow, expiresAt |-> x.expiresAt,
         resolution |-> x.resolution, resolvedAt |-> x.resolvedAt, outcome |-> x.outcome,
         entries |-> x.entries, spent |-> x.spent, at |-> x.at, settledAt |-> x.settledAt,
         checkedLeg |-> x.checkedLeg]

KnownLocal(l) ==
    \E h \in Headers, t \in Nat : l = LocalChallenge(h.bytes, h.leg, h.resource, t, MAX_SECONDS)

KnownContext(mode, c) ==
    /\ c.expiresAt \in Int
    /\ IF mode.local THEN \E h \in Headers : c.nonce = h.bytes /\ c.requirements = h.leg ELSE c \in Contexts

\* The attempt has a mandate and a challenge, a local one as it was received.
Entered(x) ==
    /\ x.mode \in Modes /\ x.mandate \in Mandates
    /\ x.entered \in Nat /\ x.requestNow \in Nat
    /\ KnownContext(x.mode, x.context)
    /\ IF x.mode.local THEN ValidLocalChallenge(x.local) /\ x.local.context = x.context ELSE x.local = None

\* The payee is bound, and the deadline is no later than what bound it.
Ready(x) ==
    /\ Entered(x)
    /\ x.expiresAt \in Int
    /\ IF x.mode.resolver
       THEN /\ Bound(AUDIENCE, x.context, x.entered)
            /\ x.resolution = Resolution(AUDIENCE, x.context) /\ x.resolvedAt = x.requestNow
            /\ x.expiresAt <= x.context.expiresAt /\ x.expiresAt <= x.resolution.acceptUntil
       ELSE x.resolution = None /\ x.expiresAt = x.context.expiresAt

\* The store has granted the nonces of the challenge, the quote and the mandate.
Committed(x) ==
    /\ Ready(x)
    /\ \E named \in Named(x) : x.entries = ToReserve(x, named)
    /\ x.at \in Nat /\ x.at < x.expiresAt
    /\ x.mandate.expires > x.requestNow

AttemptOK(x) ==
    /\ IsAttempt(x)
    /\ x.phase \in {"idle", "new", "received", "resolving", "dispatching", "reserved", "done"}
    /\ x.spent \in BOOLEAN
    /\ x.entries \in Seq(Entries(AllKeys))
    /\ x.phase = "received" => KnownLocal(x.local)
    /\ x.phase = "resolving" => Entered(x) /\ x.mode.resolver /\ x.expiresAt = x.context.expiresAt
    /\ x.phase = "dispatching" => Ready(x)
    /\ x.phase \in {"idle", "new", "received", "resolving", "dispatching"} => ~x.spent
    /\ x.phase = "reserved" => x.spent
    /\ x.spent => Committed(x)
    /\ x.phase # "done" => x.outcome = None
    /\ x.phase = "done" /\ x.spent => x.outcome \in {"allow", "internal_error", "expired"}
    /\ x.outcome = "allow" =>
          /\ x.spent /\ x.settledAt \in Nat /\ x.settledAt < x.expiresAt
          /\ x.checkedLeg = IF x.local = None THEN None
                            ELSE CheckedLeg(x.local.selectedLeg, x.resolution.verifiedExtraPaths)
    /\ MAX_ACCEPTANCE >= MAX_ACCEPTANCE_WINDOW => x.outcome # "quote_fault"

\* What matters of an attempt but its phase and its answer.
Alike(x, y) ==
    /\ x.mode = y.mode /\ x.local = y.local /\ x.context = y.context /\ x.mandate = y.mandate
    /\ x.entered = y.entered /\ x.requestNow = y.requestNow /\ x.expiresAt = y.expiresAt
    /\ x.resolution = y.resolution /\ x.resolvedAt = y.resolvedAt

LEMMA AlikeIsReady ==
    ASSUME NEW x, NEW y, Alike(x, y), Ready(x)
    PROVE  Ready(y)
BY DEF Alike, Ready, Entered

LEMMA AlikeIsCommitted ==
    ASSUME NEW x, NEW y, Alike(x, y), x.entries = y.entries, x.at = y.at, Committed(x)
    PROVE  Committed(y)
<1>1. Ready(y)
  BY AlikeIsReady DEF Committed
<1>2. Named(x) = Named(y) /\ \A named : ToReserve(x, named) = ToReserve(y, named)
  BY DEF Alike, Named, ToReserve
<1>. QED
  BY <1>1, <1>2 DEF Committed, Alike

AttemptMove(a) ==
    \E u : /\ attempts[a].phase \notin {"idle", "done"}
           /\ attempts' = [attempts EXCEPT ![a] = u]
           /\ AttemptOK(u)
           /\ UNCHANGED <<calls, chain, stash, payments>>
           /\ \/ Unasked(attempts[a], u)
              \/ Served(attempts[a], u, Deduplicated(u.entries), clock)

\* An attempt that is denied.
LEMMA DeniedOf ==
    ASSUME NEW a, NEW update, NEW code, Denied(a, update, code), AttemptOK(update),
           code # "allow", MAX_ACCEPTANCE >= MAX_ACCEPTANCE_WINDOW => code # "quote_fault",
           update.spent => code \in {"internal_error", "expired"}
    PROVE  \E u : /\ attempts' = [attempts EXCEPT ![a] = u]
                  /\ AttemptOK(u)
                  /\ u.spent = update.spent /\ u.entries = update.entries /\ u.at = update.at
                  /\ u.outcome = code
<1>1. PICK x, u : x = update /\ u = [update EXCEPT !.phase = "done", !.outcome = code]
  OBVIOUS
<1>2. AttemptOK(x) /\ x.spent => code \in {"internal_error", "expired"}
  BY <1>1
<1>3. x = [phase |-> x.phase, mode |-> x.mode, local |-> x.local, context |-> x.context, mandate |-> x.mandate,
           entered |-> x.entered, requestNow |-> x.requestNow, expiresAt |-> x.expiresAt,
           resolution |-> x.resolution, resolvedAt |-> x.resolvedAt, outcome |-> x.outcome,
           entries |-> x.entries, spent |-> x.spent, at |-> x.at, settledAt |-> x.settledAt,
           checkedLeg |-> x.checkedLeg]
  BY <1>1 DEF AttemptOK, IsAttempt
<1>4. u = [phase |-> "done", mode |-> x.mode, local |-> x.local, context |-> x.context, mandate |-> x.mandate,
           entered |-> x.entered, requestNow |-> x.requestNow, expiresAt |-> x.expiresAt,
           resolution |-> x.resolution, resolvedAt |-> x.resolvedAt, outcome |-> code,
           entries |-> x.entries, spent |-> x.spent, at |-> x.at, settledAt |-> x.settledAt,
           checkedLeg |-> x.checkedLeg]
  BY <1>1, <1>3, ZenonT(60)
<1>5. Alike(x, u) /\ u.entries = x.entries /\ u.at = x.at /\ u.spent = x.spent /\ u.phase = "done"
  BY <1>4 DEF Alike
<1>6. x.spent => Committed(u)
  <2>1. x.spent => Committed(x)
    BY <1>1 DEF AttemptOK
  <2>. QED
    BY <1>5, <2>1, AlikeIsCommitted, Zenon
<1>7. AttemptOK(u)
  BY <1>1, <1>4, <1>5, <1>6, ZenonT(60) DEF AttemptOK, IsAttempt
<1>8. attempts' = [attempts EXCEPT ![a] = u]
  BY <1>1 DEF Denied, Becoming
<1>. QED
  BY <1>1, <1>4, <1>5, <1>7, <1>8, ZenonT(60)

LEMMA NewIsOK ==
    ASSUME NEW phase \in {"idle", "new"}
    PROVE  AttemptOK([NewAttempt EXCEPT !.phase = phase])
<1>1. PICK u : u = [NewAttempt EXCEPT !.phase = phase]
  OBVIOUS
<1>2. u = [phase |-> phase, mode |-> None, local |-> None, context |-> None, mandate |-> None, entered |-> 0,
           requestNow |-> 0, expiresAt |-> 0, resolution |-> None, resolvedAt |-> 0, outcome |-> None,
           entries |-> <<>>, spent |-> FALSE, at |-> 0, settledAt |-> 0, checkedLeg |-> None]
  BY <1>1 DEF NewAttempt
<1>3. <<>> \in Seq(Entries(AllKeys))
  OBVIOUS
<1>4. None # "allow" /\ None # "quote_fault"
  BY GateAssumption, EvcAssumption
<1>5. AttemptOK(u)
  BY <1>2, <1>3, <1>4 DEF AttemptOK, IsAttempt
<1>. QED
  BY <1>1, <1>5

LEMMA KnownLegs ==
    ASSUME NEW mode, NEW c, KnownContext(mode, c)
    PROVE  c.requirements \in Legs
BY DEF KnownContext, Legs

\* What a host may hand over of a challenge that it received, if it is valid.
LEMMA HandedOverMeans ==
    ASSUME NEW l, KnownLocal(l), NEW local \in HandedOver(l), NEW mode, mode.local
    PROVE  KnownContext(mode, local.context)
<1>1. PICK h \in Headers, t \in Nat : l = LocalChallenge(h.bytes, h.leg, h.resource, t, MAX_SECONDS)
  BY DEF KnownLocal
<1>2. PICK deadline : deadline = t + Least(h.leg.maxTimeoutSeconds, MAX_SECONDS)
  OBVIOUS
<1>3. deadline \in Int /\ MAX_LOCAL_SECONDS \in Nat
  <2>1. h.leg \in Legs
    BY DEF Legs
  <2>2. h.leg.maxTimeoutSeconds \in Int /\ MAX_SECONDS \in Int
    BY <2>1, EvcAssumption
  <2>3. Least(h.leg.maxTimeoutSeconds, MAX_SECONDS) \in Int
    BY <2>2 DEF Least
  <2>. QED
    BY <1>2, <2>3, QuoteAssumption
<1>4. l = [receivedAt |-> t, headerSha256 |-> h.bytes, selectedLeg |-> h.leg,
           context |-> [resource |-> h.resource, requirements |-> h.leg, nonce |-> h.bytes, expiresAt |-> deadline]]
  BY <1>1, <1>2 DEF LocalChallenge
<1>5. l.context.expiresAt = deadline /\ l.context.nonce = h.bytes /\ l.context.requirements = h.leg
  BY <1>4
<1>6. CASE local = l
  BY <1>3, <1>5, <1>6 DEF KnownContext
<1>7. CASE local = [l EXCEPT !.context.expiresAt = @ + MAX_LOCAL_SECONDS]
  <2>1. local.context = [resource |-> h.resource, requirements |-> h.leg, nonce |-> h.bytes,
                         expiresAt |-> deadline + MAX_LOCAL_SECONDS]
    BY <1>4, <1>7
  <2>2. deadline + MAX_LOCAL_SECONDS \in Int
    BY <1>3
  <2>. QED
    BY <2>1, <2>2 DEF KnownContext
<1>8. CASE local = [l EXCEPT !.selectedLeg.amount = @ + 1]
  <2>1. local.context = l.context
    BY <1>4, <1>8
  <2>. QED
    BY <1>3, <1>5, <2>1 DEF KnownContext
<1>. QED
  BY <1>6, <1>7, <1>8 DEF HandedOver

LEMMA Unspent ==
    ASSUME NEW x, AttemptOK(x), x.phase \in {"idle", "new", "received", "resolving", "dispatching"}
    PROVE  x.spent = FALSE
BY DEF AttemptOK

LEMMA MovesUnasked ==
    ASSUME NEW a \in Attempts, NEW u, AttemptOK(attempts[a]), attempts[a].phase \notin {"idle", "reserved", "done"},
           attempts' = [attempts EXCEPT ![a] = u], AttemptOK(u), u.spent = FALSE, u.outcome # "nonce_replayed",
           UNCHANGED gvars
    PROVE  AttemptMove(a)
<1>1. attempts[a].spent = FALSE
  BY Unspent DEF AttemptOK
<1>2. Unasked(attempts[a], u)
  BY <1>1 DEF Unasked, gvars
<1>. QED
  BY <1>2 DEF AttemptMove, gvars

LEMMA Receives ==
    ASSUME NEW a \in Attempts, NEW header \in Headers, Receive(a, header, MAX_SECONDS), UNCHANGED gvars,
           clock \in Nat, AttemptOK(attempts[a])
    PROVE  AttemptMove(a)
<1>1. PICK l, u : /\ l = LocalChallenge(header.bytes, header.leg, header.resource, clock, MAX_SECONDS)
                  /\ u = [NewAttempt EXCEPT !.phase = "received", !.local = l]
  OBVIOUS
<1>2. u = [phase |-> "received", mode |-> None, local |-> l, context |-> None, mandate |-> None, entered |-> 0,
           requestNow |-> 0, expiresAt |-> 0, resolution |-> None, resolvedAt |-> 0, outcome |-> None,
           entries |-> <<>>, spent |-> FALSE, at |-> 0, settledAt |-> 0, checkedLeg |-> None]
  BY <1>1 DEF NewAttempt
<1>3. <<>> \in Seq(Entries(AllKeys))
  OBVIOUS
<1>4. None # "allow" /\ None # "quote_fault" /\ None # "nonce_replayed"
  BY GateAssumption, EvcAssumption
<1>5. KnownLocal(l)
  BY <1>1 DEF KnownLocal
<1>6. AttemptOK(u)
  BY <1>2, <1>3, <1>4, <1>5 DEF AttemptOK, IsAttempt
<1>7. attempts' = [attempts EXCEPT ![a] = u] /\ attempts[a].phase = "new"
  BY <1>1 DEF Receive, Becoming
<1>. QED
  BY <1>2, <1>4, <1>6, <1>7, MovesUnasked

LEMMA NewAttemptOK == AttemptOK(NewAttempt) /\ NewAttempt.spent = FALSE
<1>1. [NewAttempt EXCEPT !.phase = "new"] = NewAttempt
  <2>1. PICK n : n = NewAttempt
    OBVIOUS
  <2>2. n = [f \in DOMAIN n |-> n[f]] /\ n["phase"] = "new"
    BY <2>1 DEF NewAttempt
  <2>3. [n EXCEPT !.phase = "new"] = n
    BY <2>2
  <2>. QED
    BY <2>1, <2>3
<1>2. AttemptOK([NewAttempt EXCEPT !.phase = "new"])
  BY NewIsOK
<1>3. NewAttempt.spent = FALSE
  BY DEF NewAttempt
<1>. QED
  BY <1>1, <1>2, <1>3

\* An attempt that has spent nothing is denied.
LEMMA DeniedUnasked ==
    ASSUME NEW a \in Attempts, NEW update, NEW code, Denied(a, update, code), AttemptOK(update), update.spent = FALSE,
           code \notin {"allow", "nonce_replayed"}, MAX_ACCEPTANCE >= MAX_ACCEPTANCE_WINDOW => code # "quote_fault",
           AttemptOK(attempts[a]), attempts[a].phase \notin {"idle", "reserved", "done"}, UNCHANGED gvars
    PROVE  AttemptMove(a)
<1>1. PICK u : /\ attempts' = [attempts EXCEPT ![a] = u]
               /\ AttemptOK(u)
               /\ u.spent = update.spent /\ u.entries = update.entries /\ u.at = update.at
               /\ u.outcome = code
  BY DeniedOf
<1>. QED
  BY <1>1, MovesUnasked

LEMMA Misconfigures ==
    ASSUME NEW a \in Attempts, Misconfigure(a), UNCHANGED gvars, AttemptOK(attempts[a])
    PROVE  AttemptMove(a)
BY NewAttemptOK, DeniedUnasked DEF Misconfigure

LEMMA Fails ==
    ASSUME NEW a \in Attempts, Fail(a) \/ VerifierDenies(a), UNCHANGED gvars, AttemptOK(attempts[a])
    PROVE  AttemptMove(a)
<1>1. PICK x : x = attempts[a]
  OBVIOUS
<1>2. PICK code \in {"internal_error", "denied"} : Denied(a, x, code) /\ x.phase \in {"resolving", "dispatching"}
  BY <1>1 DEF Fail, VerifierDenies
<1>3. AttemptOK(x) /\ x.spent = FALSE
  BY <1>1, <1>2, Unspent
<1>. QED
  BY <1>1, <1>2, <1>3, DeniedUnasked

\* buildX402EvcRequest sends the attempt on to the verifier, or denies it.
LEMMA Builds ==
    ASSUME NEW a \in Attempts, NEW update, NEW matches, Build(a, update, matches), update.spent = FALSE, IsAttempt(update),
           AttemptOK([update EXCEPT !.phase = "dispatching"]),
           AttemptOK(attempts[a]), attempts[a].phase \notin {"idle", "reserved", "done"}, UNCHANGED gvars
    PROVE  AttemptMove(a)
<1>1. PICK x : x = update
  OBVIOUS
<1>2. x = [phase |-> x.phase, mode |-> x.mode, local |-> x.local, context |-> x.context, mandate |-> x.mandate,
           entered |-> x.entered, requestNow |-> x.requestNow, expiresAt |-> x.expiresAt,
           resolution |-> x.resolution, resolvedAt |-> x.resolvedAt, outcome |-> x.outcome,
           entries |-> x.entries, spent |-> x.spent, at |-> x.at, settledAt |-> x.settledAt,
           checkedLeg |-> x.checkedLeg]
  BY <1>1 DEF IsAttempt
<1>3. PICK w : w = [x EXCEPT !.phase = "dispatching"]
  OBVIOUS
<1>4. AttemptOK(w) /\ w.spent = FALSE /\ w.phase = "dispatching"
  BY <1>1, <1>2, <1>3
<1>5. \A code : Denied(a, x, code) => Denied(a, w, code)
  <2>. TAKE code
  <2>1. [x EXCEPT !.phase = "done", !.outcome = code] = [w EXCEPT !.phase = "done", !.outcome = code]
    BY <1>2, <1>3
  <2>. QED
    BY <2>1 DEF Denied, Becoming
<1>6. PICK converter, parses, code : /\ code = BuildDenial(x, matches, converter, parses)
                                     /\ IF code # None THEN Denied(a, x, code) ELSE Becoming(a, w)
  BY <1>1, <1>3 DEF Build
<1>7. code \in {"request_mismatch", "internal_error", "invalid_bundle", None}
  BY <1>6 DEF BuildDenial
<1>8. CASE code # None
  <2>1. Denied(a, w, code)
    BY <1>5, <1>6, <1>8
  <2>. QED
    BY <1>4, <1>7, <1>8, <2>1, DeniedUnasked
<1>9. CASE code = None
  <2>1. attempts' = [attempts EXCEPT ![a] = w]
    BY <1>6, <1>9 DEF Becoming
  <2>2. w.outcome = None /\ None # "nonce_replayed"
    BY <1>4, GateAssumption DEF AttemptOK
  <2>. QED
    BY <1>4, <2>1, <2>2, MovesUnasked
<1>. QED
  BY <1>8, <1>9

LEMMA Enters ==
    ASSUME NEW a \in Attempts, NEW mode \in Modes, NEW mandate \in Mandates \cup {None}, NEW local, NEW given,
           Enter(a, mode, local, given, mandate),
           IF mode.local THEN local \in HandedOver(attempts[a].local) ELSE local = None /\ given \in Contexts,
           UNCHANGED gvars, clock \in Nat, AttemptOK(attempts[a])
    PROVE  AttemptMove(a)
<1>1. PICK context, kept : /\ context = IF mode.local THEN local.context ELSE given
                           /\ kept = IF mode.local THEN local ELSE None
  OBVIOUS
<1>2. PICK update : update = [NewAttempt EXCEPT !.phase = "resolving", !.mode = mode, !.context = context,
                                  !.local = kept, !.mandate = mandate, !.entered = clock,
                                  !.requestNow = clock, !.expiresAt = context.expiresAt]
  OBVIOUS
<1>3. PICK code : code = EntryDenial(mode, local, context, mandate)
  OBVIOUS
<1>4. /\ attempts[a].phase = IF mode.local THEN "received" ELSE "new"
      /\ IF code # None THEN Denied(a, NewAttempt, code)
         ELSE IF mode.resolver THEN Becoming(a, update)
         ELSE Build(a, update, mode.matches)
  BY <1>1, <1>2, <1>3 DEF Enter
<1>5. code \in {"internal_error", "missing_authorization", "expired", None}
  BY <1>3 DEF EntryDenial
<1>6. CASE code # None
  BY <1>4, <1>5, <1>6, NewAttemptOK, DeniedUnasked
<1>7. ASSUME code = None PROVE AttemptMove(a)
  <2>1. update = [phase |-> "resolving", mode |-> mode, local |-> kept, context |-> context, mandate |-> mandate,
                  entered |-> clock, requestNow |-> clock, expiresAt |-> context.expiresAt,
                  resolution |-> None, resolvedAt |-> 0, outcome |-> None,
                  entries |-> <<>>, spent |-> FALSE, at |-> 0, settledAt |-> 0, checkedLeg |-> None]
    BY <1>2 DEF NewAttempt
  <2>2. None \notin {"internal_error", "missing_authorization", "expired"}
        => mandate # None /\ (mode.local => ValidLocalChallenge(local))
    BY <1>3, <1>7 DEF EntryDenial
  <2>3. None \notin {"internal_error", "missing_authorization", "expired"}
    BY EvcAssumption
  <2>4. mandate \in Mandates
    BY <2>2, <2>3
  <2>5. KnownContext(mode, context)
    <3>1. CASE mode.local
      <4>1. KnownLocal(attempts[a].local)
        BY <1>4, <3>1 DEF AttemptOK
      <4>2. KnownContext(mode, local.context)
        BY <3>1, <4>1, HandedOverMeans
      <4>. QED
        BY <1>1, <3>1, <4>2
    <3>2. CASE ~mode.local
      <4>1. context \in Contexts /\ context.expiresAt \in Int
        BY <1>1, <3>2, EvcAssumption
      <4>. QED
        BY <3>2, <4>1 DEF KnownContext
    <3>. QED
      BY <3>1, <3>2
  <2>6. IF mode.local THEN ValidLocalChallenge(kept) /\ kept.context = context ELSE kept = None
    BY <1>1, <2>2, <2>3
  <2>7. Entered(update)
    BY <2>1, <2>4, <2>5, <2>6 DEF Entered
  <2>8. <<>> \in Seq(Entries(AllKeys)) /\ None # "allow" /\ None # "quote_fault" /\ None # "nonce_replayed"
    BY GateAssumption, EvcAssumption
  <2>9. CASE mode.resolver
    <3>1. AttemptOK(update)
      BY <2>1, <2>7, <2>8, <2>9 DEF AttemptOK, IsAttempt
    <3>2. attempts' = [attempts EXCEPT ![a] = update]
      BY <1>4, <1>7, <2>9 DEF Becoming
    <3>. QED
      BY <1>4, <2>1, <2>8, <3>1, <3>2, MovesUnasked
  <2>10. CASE ~mode.resolver
    <3>1. PICK w : w = [update EXCEPT !.phase = "dispatching"]
      OBVIOUS
    <3>2. w = [phase |-> "dispatching", mode |-> mode, local |-> kept, context |-> context, mandate |-> mandate,
               entered |-> clock, requestNow |-> clock, expiresAt |-> context.expiresAt,
               resolution |-> None, resolvedAt |-> 0, outcome |-> None,
               entries |-> <<>>, spent |-> FALSE, at |-> 0, settledAt |-> 0, checkedLeg |-> None]
      BY <2>1, <3>1
    <3>3. Entered(w)
      BY <2>4, <2>5, <2>6, <3>2 DEF Entered
    <3>4. Ready(w)
      BY <2>5, <2>10, <3>2, <3>3 DEF Ready, KnownContext
    <3>5. AttemptOK(w)
      BY <2>8, <3>2, <3>4 DEF AttemptOK, IsAttempt
    <3>6. IsAttempt(update) /\ update.spent = FALSE
      BY <2>1 DEF IsAttempt
    <3>7. Build(a, update, mode.matches)
      BY <1>4, <1>7, <2>10
    <3>. QED
      BY <1>4, <3>1, <3>5, <3>6, <3>7, Builds
  <2>. QED
    BY <2>9, <2>10
<1>. QED
  BY <1>6, <1>7

\* A bound that is no shorter than the default refuses no quote that was accepted.
LEMMA NoQuoteFault ==
    ASSUME NEW context, context.requirements \in Legs, NEW now \in Nat, Bound(AUDIENCE, context, now),
           MAX_ACCEPTANCE >= MAX_ACCEPTANCE_WINDOW
    PROVE  ValidResolution(Resolution(AUDIENCE, context), AUDIENCE, now, MAX_ACCEPTANCE)
<1>1. QuoteUsable(AUDIENCE, context, now)
  BY LegsAreParsed, QuotesAreUsable
<1>2. ValidResolution(Resolution(AUDIENCE, context), AUDIENCE, now, MAX_ACCEPTANCE_WINDOW)
  BY <1>1 DEF QuoteUsable
<1>3. PICK until : until = Resolution(AUDIENCE, context).acceptUntil
  OBVIOUS
<1>4. until \in Int
  <2>1. PICK token : BoundBy(token, context)
    BY ResolutionMeans
  <2>2. until = token.exp + SKEW /\ token.exp \in Nat
    BY <1>3, <2>1 DEF BoundBy
  <2>. QED
    BY <2>2, QuoteAssumption
<1>5. until - now <= MAX_ACCEPTANCE_WINDOW /\ MAX_ACCEPTANCE \in Nat /\ MAX_ACCEPTANCE_WINDOW \in Nat
  BY <1>2, <1>3, EvcAssumption, QuoteAssumption DEF ValidResolution
<1>6. until - now <= MAX_ACCEPTANCE
  BY <1>4, <1>5
<1>. QED
  BY <1>2, <1>3, <1>6 DEF ValidResolution

LEMMA Resolves ==
    ASSUME NEW a \in Attempts, NEW ticks, Resolve(a, ticks), UNCHANGED gvars, clock \in Nat, AttemptOK(attempts[a])
    PROVE  AttemptMove(a)
<1>1. PICK x : x = attempts[a]
  OBVIOUS
<1>2. /\ x.phase = "resolving" /\ AttemptOK(x) /\ x.spent = FALSE
      /\ Entered(x) /\ x.mode.resolver /\ x.expiresAt = x.context.expiresAt
  <2>1. x.phase = "resolving" /\ AttemptOK(x)
    BY <1>1 DEF Resolve
  <2>. QED
    BY <2>1 DEF AttemptOK
<1>3. PICK code : code = ResolutionDenial(x, ticks)
  OBVIOUS
<1>4. IF code # None THEN Denied(a, x, code) ELSE Build(a, Resolved(x, clock), "default")
  BY <1>1, <1>3 DEF Resolve
<1>5. KnownContext(x.mode, x.context) /\ x.context.requirements \in Legs /\ x.entered \in Nat
  BY <1>2, KnownLegs DEF Entered
<1>6. CASE code # None
  <2>1. code \in {"request_mismatch", "quote_fault", "internal_error", "expired"}
    BY <1>3, <1>6 DEF ResolutionDenial
  <2>2. MAX_ACCEPTANCE >= MAX_ACCEPTANCE_WINDOW => code # "quote_fault"
    <3>. SUFFICES ASSUME MAX_ACCEPTANCE >= MAX_ACCEPTANCE_WINDOW, code = "quote_fault" PROVE FALSE
      OBVIOUS
    <3>1. /\ Bound(AUDIENCE, x.context, x.entered)
          /\ ~ValidResolution(Resolution(AUDIENCE, x.context), AUDIENCE, x.entered, MAX_ACCEPTANCE)
      BY <1>3, <1>6 DEF ResolutionDenial
    <3>2. PICK context, now : context = x.context /\ now = x.entered
      OBVIOUS
    <3>. QED
      BY <1>5, <3>1, <3>2, NoQuoteFault
  <2>. QED
    BY <1>1, <1>2, <1>4, <1>6, <2>1, <2>2, DeniedUnasked
<1>7. ASSUME code = None PROVE AttemptMove(a)
  <2>1. Bound(AUDIENCE, x.context, x.entered)
    <3>1. None # "request_mismatch"
      BY EvcAssumption
    <3>. QED
      BY <1>3, <1>7, <3>1 DEF ResolutionDenial
  <2>2. PICK r, token : r = Resolution(AUDIENCE, x.context) /\ BoundBy(token, x.context)
    BY <1>5, <2>1, ResolutionMeans
  <2>3. r.acceptUntil = token.exp + SKEW /\ token.exp \in Nat /\ SKEW \in Nat
    BY <2>2, QuoteAssumption DEF BoundBy
  <2>4. r.acceptUntil \in Int
    BY <2>3
  <2>5. PICK y : y = Resolved(x, clock)
    OBVIOUS
  <2>6. PICK deadline : deadline = IF x.expiresAt <= r.acceptUntil THEN x.expiresAt ELSE r.acceptUntil
    OBVIOUS
  <2>7. x = [phase |-> x.phase, mode |-> x.mode, local |-> x.local, context |-> x.context, mandate |-> x.mandate,
             entered |-> x.entered, requestNow |-> x.requestNow, expiresAt |-> x.expiresAt,
             resolution |-> x.resolution, resolvedAt |-> x.resolvedAt, outcome |-> x.outcome,
             entries |-> x.entries, spent |-> x.spent, at |-> x.at, settledAt |-> x.settledAt,
             checkedLeg |-> x.checkedLeg]
    BY <1>2 DEF AttemptOK, IsAttempt
  <2>8. y = [phase |-> x.phase, mode |-> x.mode, local |-> x.local, context |-> x.context, mandate |-> x.mandate,
             entered |-> x.entered, requestNow |-> clock, expiresAt |-> deadline,
             resolution |-> r, resolvedAt |-> clock, outcome |-> x.outcome,
             entries |-> x.entries, spent |-> x.spent, at |-> x.at, settledAt |-> x.settledAt,
             checkedLeg |-> x.checkedLeg]
    BY <2>2, <2>5, <2>6, <2>7 DEF Resolved
  <2>9. PICK w : w = [y EXCEPT !.phase = "dispatching"]
    OBVIOUS
  <2>10. w = [phase |-> "dispatching", mode |-> x.mode, local |-> x.local, context |-> x.context, mandate |-> x.mandate,
              entered |-> x.entered, requestNow |-> clock, expiresAt |-> deadline,
              resolution |-> r, resolvedAt |-> clock, outcome |-> x.outcome,
              entries |-> x.entries, spent |-> x.spent, at |-> x.at, settledAt |-> x.settledAt,
              checkedLeg |-> x.checkedLeg]
    BY <2>8, <2>9
  <2>11. x.expiresAt \in Int /\ deadline \in Int /\ deadline <= x.expiresAt /\ deadline <= r.acceptUntil
    <3>1. x.expiresAt \in Int
      BY <1>2, <1>5 DEF KnownContext
    <3>. QED
      BY <2>4, <2>6, <3>1
  <2>12. Entered(w)
    BY <1>2, <2>10 DEF Entered
  <2>13. Ready(w)
    BY <1>2, <2>1, <2>2, <2>10, <2>11, <2>12 DEF Ready
  <2>14. AttemptOK(w)
    BY <1>2, <2>10, <2>13 DEF AttemptOK, IsAttempt
  <2>15. IsAttempt(y) /\ y.spent = FALSE
    BY <1>2, <2>8 DEF IsAttempt
  <2>16. Build(a, y, "default")
    BY <1>4, <1>7, <2>5
  <2>. QED
    BY <1>1, <1>2, <2>9, <2>14, <2>15, <2>16, Builds
<1>. QED
  BY <1>6, <1>7

LEMMA Completes ==
    ASSUME NEW a \in Attempts, NEW ticks, Complete(a, ticks), UNCHANGED gvars, clock \in Nat, AttemptOK(attempts[a])
    PROVE  AttemptMove(a)
<1>1. PICK x : x = attempts[a]
  OBVIOUS
<1>2. x.phase = "reserved" /\ AttemptOK(x) /\ x.spent = TRUE /\ Committed(x)
  <2>1. x.phase = "reserved" /\ AttemptOK(x)
    BY <1>1 DEF Complete
  <2>. QED
    BY <2>1 DEF AttemptOK
<1>3. ASSUME NEW u, attempts' = [attempts EXCEPT ![a] = u], AttemptOK(u), u.outcome # "nonce_replayed",
             u.spent = TRUE, u.entries = x.entries, u.at = x.at
      PROVE  AttemptMove(a)
  <2>1. Unasked(x, u)
    BY <1>2, <1>3 DEF Unasked, gvars
  <2>. QED
    BY <1>1, <1>2, <1>3, <2>1 DEF AttemptMove, gvars
<1>4. ASSUME NEW code \in {"internal_error", "expired"}, Denied(a, x, code) PROVE AttemptMove(a)
  <2>1. PICK u : /\ attempts' = [attempts EXCEPT ![a] = u]
                 /\ AttemptOK(u)
                 /\ u.spent = x.spent /\ u.entries = x.entries /\ u.at = x.at
                 /\ u.outcome = code
    BY <1>2, <1>4, DeniedOf
  <2>. QED
    BY <1>2, <1>3, <2>1
<1>5. PICK leg : leg = IF x.local = None THEN None
                       ELSE CheckedLeg(x.local.selectedLeg, x.resolution.verifiedExtraPaths)
  OBVIOUS
<1>6. \/ Denied(a, x, "internal_error")
      \/ Denied(a, x, "expired")
      \/ /\ ~(x.expiresAt <= clock)
         /\ Becoming(a, [x EXCEPT !.phase = "done", !.outcome = "allow", !.settledAt = clock, !.checkedLeg = leg])
  BY <1>1, <1>5 DEF Complete
<1>7. ASSUME ~(x.expiresAt <= clock),
             Becoming(a, [x EXCEPT !.phase = "done", !.outcome = "allow", !.settledAt = clock, !.checkedLeg = leg])
      PROVE  AttemptMove(a)
  <2>1. PICK u : u = [x EXCEPT !.phase = "done", !.outcome = "allow", !.settledAt = clock, !.checkedLeg = leg]
    OBVIOUS
  <2>2. x = [phase |-> x.phase, mode |-> x.mode, local |-> x.local, context |-> x.context, mandate |-> x.mandate,
             entered |-> x.entered, requestNow |-> x.requestNow, expiresAt |-> x.expiresAt,
             resolution |-> x.resolution, resolvedAt |-> x.resolvedAt, outcome |-> x.outcome,
             entries |-> x.entries, spent |-> x.spent, at |-> x.at, settledAt |-> x.settledAt,
             checkedLeg |-> x.checkedLeg]
    BY <1>2 DEF AttemptOK, IsAttempt
  <2>3. u = [phase |-> "done", mode |-> x.mode, local |-> x.local, context |-> x.context, mandate |-> x.mandate,
             entered |-> x.entered, requestNow |-> x.requestNow, expiresAt |-> x.expiresAt,
             resolution |-> x.resolution, resolvedAt |-> x.resolvedAt, outcome |-> "allow",
             entries |-> x.entries, spent |-> x.spent, at |-> x.at, settledAt |-> clock,
             checkedLeg |-> leg]
    BY <2>1, <2>2
  <2>4. Alike(x, u) /\ u.entries = x.entries /\ u.at = x.at /\ u.spent = TRUE
    BY <1>2, <2>3 DEF Alike
  <2>5. Committed(u)
    BY <1>2, <2>4, AlikeIsCommitted
  <2>6. clock < u.expiresAt
    <3>1. x.expiresAt \in Int
      BY <1>2 DEF Committed, Ready
    <3>2. clock < x.expiresAt
      BY <1>7, <3>1
    <3>. QED
      BY <2>3, <3>2
  <2>7. AttemptOK(u)
    BY <1>2, <1>5, <2>3, <2>5, <2>6 DEF AttemptOK, IsAttempt
  <2>8. attempts' = [attempts EXCEPT ![a] = u] /\ u.outcome # "nonce_replayed"
    BY <1>7, <2>1, <2>3 DEF Becoming
  <2>. QED
    BY <1>3, <2>4, <2>7, <2>8
<1>. QED
  BY <1>4, <1>6, <1>7

\* What an attempt asks the store for are nonces with the times to keep them.
LEMMA ToReserveTyped ==
    ASSUME NEW x, Ready(x), NEW named \in Named(x)
    PROVE  ToReserve(x, named) \in Seq(Entries(AllKeys))
<1>1. PICK K, E : K = AllKeys /\ E = Entries(AllKeys)
  OBVIOUS
<1>2. PICK c, m, q : /\ c = Entry(x.context.nonce, x.expiresAt)
                     /\ m = Entry(x.mandate.key, x.mandate.expires) /\ q = Entry(x.mandate.key, x.requestNow)
  OBVIOUS
<1>3. Entered(x) /\ x.expiresAt \in Int
  BY DEF Ready
<1>4. x.context.nonce \in AllKeys
  BY <1>3 DEF Entered, KnownContext, AllKeys
<1>5. c \in E
  BY <1>1, <1>2, <1>3, <1>4 DEF Entry, Entries
<1>6. x.mandate.key \in AllKeys /\ x.mandate.expires \in Int /\ x.requestNow \in Int
  BY <1>3, EvcAssumption DEF Entered, AllKeys
<1>7. m \in E /\ q \in E
  BY <1>1, <1>2, <1>6 DEF Entry, Entries
<1>8. named \in Seq(E)
  <2>1. named \in {<<>>, <<m>>, <<m, q>>}
    BY <1>2 DEF Named
  <2>2. <<>> \in Seq(E) /\ <<m>> \in Seq(E) /\ <<m, q>> \in Seq(E)
    BY <1>7
  <2>. QED
    BY <2>1, <2>2
<1>9. PICK quote : quote = IF x.resolution = None THEN <<>> ELSE <<Entry(x.resolution.jti, x.resolution.acceptUntil)>>
  OBVIOUS
<1>10. quote \in Seq(E)
  <2>1. CASE x.resolution = None
    BY <1>9, <2>1
  <2>2. CASE x.resolution # None
    <3>1. Bound(AUDIENCE, x.context, x.entered) /\ x.resolution = Resolution(AUDIENCE, x.context)
      BY <2>2 DEF Ready
    <3>2. PICK token : BoundBy(token, x.context)
      BY <1>3, <3>1, KnownLegs, ResolutionMeans DEF Entered
    <3>3. /\ x.resolution.jti = token.jti /\ x.resolution.acceptUntil = token.exp + SKEW
          /\ token.exp \in Nat /\ token \in Quotes /\ SKEW \in Nat
      BY <3>1, <3>2, QuoteAssumption DEF BoundBy
    <3>4. x.resolution.jti \in AllKeys /\ x.resolution.acceptUntil \in Int
      BY <3>3 DEF AllKeys
    <3>5. PICK r : r = Entry(x.resolution.jti, x.resolution.acceptUntil)
      OBVIOUS
    <3>6. r \in E
      BY <1>1, <3>4, <3>5 DEF Entry, Entries
    <3>7. quote = <<r>>
      BY <1>9, <2>2, <3>5
    <3>. QED
      BY <3>6, <3>7
  <2>. QED
    BY <2>1, <2>2
<1>11. ToReserve(x, named) = <<c>> \o quote \o named
  BY <1>2, <1>9 DEF ToReserve
<1>12. <<c>> \in Seq(E)
  BY <1>5
<1>13. <<c>> \o quote \in Seq(E)
  BY <1>10, <1>12
<1>14. <<c>> \o quote \o named \in Seq(E)
  BY <1>8, <1>13
<1>. QED
  BY <1>1, <1>11, <1>14

LEMMA Dispatches ==
    ASSUME NEW a \in Attempts, NEW named \in Named(attempts[a]), NEW sound, Dispatched(a, named, sound),
           UNCHANGED <<calls, chain, stash, payments>>, clock \in Nat, AttemptOK(attempts[a])
    PROVE  AttemptMove(a)
<1>1. PICK x : x = attempts[a]
  OBVIOUS
<1>2. x.phase = "dispatching" /\ AttemptOK(x) /\ x.spent = FALSE /\ Ready(x) /\ x.expiresAt \in Int /\ x.outcome = None
  <2>1. x.phase = "dispatching" /\ AttemptOK(x)
    BY <1>1 DEF Dispatched
  <2>. QED
    BY <2>1 DEF AttemptOK, Ready
<1>3. PICK entries, asked : entries = ToReserve(x, named) /\ asked = [x EXCEPT !.entries = entries, !.at = clock]
  OBVIOUS
<1>4. entries \in Seq(Entries(AllKeys))
  BY <1>1, <1>2, <1>3, ToReserveTyped
<1>5. x = [phase |-> x.phase, mode |-> x.mode, local |-> x.local, context |-> x.context, mandate |-> x.mandate,
           entered |-> x.entered, requestNow |-> x.requestNow, expiresAt |-> x.expiresAt,
           resolution |-> x.resolution, resolvedAt |-> x.resolvedAt, outcome |-> x.outcome,
           entries |-> x.entries, spent |-> x.spent, at |-> x.at, settledAt |-> x.settledAt,
           checkedLeg |-> x.checkedLeg]
  BY <1>2 DEF AttemptOK, IsAttempt
<1>6. asked = [phase |-> x.phase, mode |-> x.mode, local |-> x.local, context |-> x.context, mandate |-> x.mandate,
               entered |-> x.entered, requestNow |-> x.requestNow, expiresAt |-> x.expiresAt,
               resolution |-> x.resolution, resolvedAt |-> x.resolvedAt, outcome |-> x.outcome,
               entries |-> entries, spent |-> x.spent, at |-> clock, settledAt |-> x.settledAt,
               checkedLeg |-> x.checkedLeg]
  BY <1>3, <1>5
<1>7. Alike(x, asked) /\ Ready(asked)
  <2>1. Alike(x, asked)
    BY <1>6 DEF Alike
  <2>. QED
    BY <1>2, <2>1, AlikeIsReady
<1>8. AttemptOK(asked)
  BY <1>2, <1>4, <1>6, <1>7 DEF AttemptOK, IsAttempt
<1>9. /\ x.mandate.expires > x.requestNow
      /\ IF ~sound THEN Denied(a, x, "internal_error") /\ UNCHANGED nvars
         ELSE IF x.expiresAt <= clock THEN Denied(a, x, "expired") /\ UNCHANGED nvars
         ELSE /\ Reserve(Deduplicated(asked.entries), clock)
              /\ CASE call'.answer = "true" -> Becoming(a, [asked EXCEPT !.phase = "reserved", !.spent = TRUE])
                   [] call'.answer = "false" -> Denied(a, asked, "nonce_replayed")
                   [] OTHER -> Denied(a, asked, "internal_error")
              /\ UNCHANGED clock
  BY <1>1, <1>3 DEF Dispatched
<1>10. CASE \E code \in {"internal_error", "expired"} : Denied(a, x, code) /\ UNCHANGED nvars
  <2>1. UNCHANGED gvars
    BY <1>10 DEF gvars
  <2>. QED
    BY <1>1, <1>2, <1>10, <2>1, DeniedUnasked
<1>11. ASSUME ~(x.expiresAt <= clock), Reserve(Deduplicated(asked.entries), clock), UNCHANGED clock,
              call'.answer = "true", Becoming(a, [asked EXCEPT !.phase = "reserved", !.spent = TRUE])
       PROVE  AttemptMove(a)
  <2>1. PICK u : u = [asked EXCEPT !.phase = "reserved", !.spent = TRUE]
    OBVIOUS
  <2>2. u = [phase |-> "reserved", mode |-> x.mode, local |-> x.local, context |-> x.context, mandate |-> x.mandate,
             entered |-> x.entered, requestNow |-> x.requestNow, expiresAt |-> x.expiresAt,
             resolution |-> x.resolution, resolvedAt |-> x.resolvedAt, outcome |-> x.outcome,
             entries |-> entries, spent |-> TRUE, at |-> clock, settledAt |-> x.settledAt,
             checkedLeg |-> x.checkedLeg]
    BY <1>6, <2>1
  <2>3. Alike(x, u)
    BY <2>2 DEF Alike
  <2>4. Ready(u)
    BY <1>2, <2>3, AlikeIsReady
  <2>5. named \in Named(u) /\ u.entries = ToReserve(u, named)
    <3>1. named \in Named(x)
      BY <1>1
    <3>2. Named(u) = Named(x) /\ ToReserve(u, named) = ToReserve(x, named)
      BY <2>2 DEF Named, ToReserve
    <3>3. u.entries = entries
      BY <2>2
    <3>. QED
      BY <1>3, <3>1, <3>2, <3>3
  <2>6. u.at \in Nat /\ u.at < u.expiresAt /\ u.mandate.expires > u.requestNow
    <3>1. clock < x.expiresAt
      BY <1>2, <1>11
    <3>. QED
      BY <1>9, <2>2, <3>1
  <2>7. Committed(u)
    BY <2>4, <2>5, <2>6 DEF Committed
  <2>8. AttemptOK(u)
    BY <1>2, <1>4, <2>2, <2>7 DEF AttemptOK, IsAttempt
  <2>9. attempts' = [attempts EXCEPT ![a] = u] /\ asked.entries = u.entries
    BY <1>6, <1>11, <2>1, <2>2 DEF Becoming
  <2>10. u.outcome # "nonce_replayed" /\ u.spent = TRUE /\ u.at = clock
    BY <1>2, <2>2, GateAssumption
  <2>11. Served(x, u, Deduplicated(u.entries), clock)
    BY <1>2, <1>11, <2>9, <2>10 DEF Served
  <2>. QED
    BY <1>1, <1>2, <2>8, <2>9, <2>11 DEF AttemptMove
<1>12. ASSUME NEW code \in {"nonce_replayed", "internal_error"}, Denied(a, asked, code),
              Reserve(Deduplicated(asked.entries), clock), UNCHANGED clock,
              call'.answer # "true", code = "nonce_replayed" => call'.answer = "false"
       PROVE  AttemptMove(a)
  <2>1. asked.spent = FALSE /\ asked.at = clock
    BY <1>2, <1>6
  <2>2. PICK u : /\ attempts' = [attempts EXCEPT ![a] = u]
                 /\ AttemptOK(u)
                 /\ u.spent = asked.spent /\ u.entries = asked.entries /\ u.at = asked.at
                 /\ u.outcome = code
    BY <1>8, <1>12, <2>1, DeniedOf
  <2>3. Served(x, u, Deduplicated(u.entries), clock)
    BY <1>2, <1>12, <2>1, <2>2 DEF Served
  <2>. QED
    BY <1>1, <1>2, <2>2, <2>3 DEF AttemptMove
<1>. QED
  BY <1>9, <1>10, <1>11, <1>12

LEMMA AttemptStepMeans ==
    ASSUME AttemptSteps, clock \in Nat, \A a \in Attempts : AttemptOK(attempts[a])
    PROVE  \E a \in Attempts : AttemptMove(a)
<1>1. PICK a \in Attempts :
        \/ \E header \in Headers : Receive(a, header, MAX_SECONDS) /\ UNCHANGED gvars
        \/ Misconfigure(a) /\ UNCHANGED gvars
        \/ \E mode \in Modes, mandate \in Mandates \cup {None} :
              /\ IF mode.local THEN attempts[a].phase = "received" /\ \E local \in HandedOver(attempts[a].local) : Enter(a, mode, local, None, mandate)
                 ELSE \E given \in Contexts : Enter(a, mode, None, given, mandate)
              /\ UNCHANGED gvars
        \/ \E ticks \in BOOLEAN : (Resolve(a, ticks) \/ Complete(a, ticks)) /\ UNCHANGED gvars
        \/ (Fail(a) \/ VerifierDenies(a)) /\ UNCHANGED gvars
        \/ /\ attempts[a].phase = "dispatching"
           /\ \E named \in Named(attempts[a]), sound \in BOOLEAN : Dispatched(a, named, sound)
           /\ UNCHANGED <<calls, chain, stash, payments>>
  BY DEF AttemptSteps
<1>2. AttemptOK(attempts[a])
  OBVIOUS
<1>3. ASSUME NEW mode \in Modes, NEW mandate \in Mandates \cup {None}, UNCHANGED gvars,
             IF mode.local THEN attempts[a].phase = "received" /\ \E local \in HandedOver(attempts[a].local) : Enter(a, mode, local, None, mandate)
             ELSE \E given \in Contexts : Enter(a, mode, None, given, mandate)
      PROVE  AttemptMove(a)
  BY <1>2, <1>3, Enters
<1>. QED
  BY <1>1, <1>2, <1>3, Receives, Misconfigures, Resolves, Completes, Fails, Dispatches

-----------------------------------------------------------------------------
(* The invariant of the payments *)

\* Whoever is told that a nonce is replayed is told the truth.  A holds the
\* instants that the parties were decided at.
Replays(P, A) ==
    \A p \in Parties : P[p].outcome = "nonce_replayed" =>
        \E r \in Parties \ {p} : P[r].spent /\ \E e \in Range(P[p].entries), f \in Range(P[r].entries) :
            e.key = f.key /\ f.until >= A[p]

LEMMA ReplaysStay ==
    ASSUME NEW P, NEW Q, NEW A, NEW B, NEW m \in Parties, Replays(P, A),
           \A p \in Parties \ {m} : Q[p] = P[p] /\ B[p] = A[p],
           Stays(m, P, Q),
           Q[m].outcome = "nonce_replayed" =>
               \E r \in Parties \ {m} : P[r].spent /\ \E e \in Range(Q[m].entries), f \in Range(P[r].entries) :
                   e.key = f.key /\ f.until >= B[m]
    PROVE  Replays(Q, B)
<1>. SUFFICES ASSUME NEW p \in Parties, Q[p].outcome = "nonce_replayed"
              PROVE  \E r \in Parties \ {p} : Q[r].spent /\ \E e \in Range(Q[p].entries), f \in Range(Q[r].entries) :
                         e.key = f.key /\ f.until >= B[p]
  BY DEF Replays
<1>1. PICK r \in Parties \ {p} : P[r].spent /\ \E e \in Range(Q[p].entries), f \in Range(P[r].entries) :
                                     e.key = f.key /\ f.until >= B[p]
  <2>1. CASE p = m
    BY <2>1
  <2>2. CASE p # m
    <3>1. Q[p] = P[p] /\ B[p] = A[p]
      BY <2>2
    <3>. QED
      BY <3>1 DEF Replays
  <2>. QED
    BY <2>1, <2>2
<1>2. Q[r].spent /\ Q[r].entries = P[r].entries
  <2>1. CASE r = m
    BY <1>1, <2>1 DEF Stays
  <2>2. CASE r # m
    BY <1>1, <2>2
  <2>. QED
    BY <2>1, <2>2
<1>. QED
  BY <1>1, <1>2

\* The store is asked by m, at an instant that its caller sampled earlier.
LEMMA ServedMeans ==
    ASSUME NEW P, NEW Q, NEW A, NEW B, NEW m \in Parties, NEW given \in Seq(Entries(AllKeys)), NEW nowUnix \in Int,
           clock \in Int, nowUnix <= clock, Stored(AllKeys),
           Accounted(P, Range(reserved), clock), Replays(P, A),
           \A p \in Parties \ {m} : Q[p] = P[p] /\ B[p] = A[p],
           Served(P[m], Q[m], given, nowUnix), B[m] = nowUnix,
           Q[m].entries \in Seq(Entries(AllKeys)),
           Range(given) \subseteq Range(Q[m].entries),
           \A e \in Range(Q[m].entries) : \E d \in Range(given) : d.key = e.key /\ d.until >= e.until
    PROVE  /\ Stored(AllKeys)'
           /\ Accounted(Q, Range(reserved'), clock)
           /\ Replays(Q, B)
<1>1. Reserve(given, nowUnix)
  BY DEF Served
<1>2. /\ Stored(AllKeys)'
      /\ Range(reserved') \subseteq Range(reserved) \cup Range(given)
      /\ call'.answer # "true" => Range(reserved') \subseteq Range(reserved)
      /\ \A e \in Range(reserved) :
            e.until >= nowUnix /\ ~(call'.answer = "true" /\ Holds(given, e.key)) => e \in Range(reserved')
      /\ call'.answer = "true" =>
            /\ Range(given) \subseteq Range(reserved')
            /\ \A e \in Range(reserved), f \in Range(given) : e.key = f.key => e.until < nowUnix
      /\ call'.answer = "false" =>
            \E e \in Range(reserved), f \in Range(given) : e.key = f.key /\ e.until >= nowUnix
  BY <1>1, ReserveMeans
<1>3. PICK R, S, answer, t : /\ R = Range(reserved) /\ S = Range(reserved')
                             /\ answer = call'.answer /\ t = clock
  OBVIOUS
<1>4. /\ ~P[m].spent /\ Q[m].at = t /\ Q[m].spent = (answer = "true")
      /\ Q[m].outcome = "nonce_replayed" => answer = "false"
  BY <1>3 DEF Served
<1>5. t \in Int /\ nowUnix <= t /\ Accounted(P, R, t) /\ \A g \in R : g.until \in Int
  BY <1>3 DEF Accounted, Origins
<1>6. \A p \in Parties \ {m} : Stays(p, P, Q) /\ (Q[p].spent => P[p].spent)
  BY DEF Stays
<1>7. Stays(m, P, Q)
  BY <1>4 DEF Stays
<1>8. \A g \in R : g \in S \/ g.until < t
  <2>. TAKE g \in R
  <2>1. g.until \in Int
    BY <1>5
  <2>2. CASE g.until >= nowUnix /\ ~(answer = "true" /\ Holds(given, g.key))
    BY <1>2, <1>3, <2>2
  <2>3. CASE g.until < nowUnix
    BY <1>5, <2>1, <2>3
  <2>4. CASE answer = "true" /\ Holds(given, g.key)
    <3>1. PICK f \in Range(given) : f.key = g.key
      BY <2>4 DEF Holds, Range
    <3>2. g.until < nowUnix
      BY <1>2, <1>3, <2>4, <3>1
    <3>. QED
      BY <1>5, <2>1, <3>2
  <2>. QED
    BY <2>1, <2>2, <2>3, <2>4
<1>9. Accounted(Q, S, t)
  <2>1. CASE answer = "true"
    <3>1. \A e \in Range(Q[m].entries) : e.until \in Int
      <4>1. \A i \in DOMAIN Q[m].entries : Q[m].entries[i] \in Entries(AllKeys)
        OBVIOUS
      <4>. QED
        BY <4>1 DEF Range, Entries
    <3>2. \A g \in R, d \in Range(given) : g.key = d.key => g.until < t
      <4>1. \A g \in R, d \in Range(given) : g.key = d.key => g.until < nowUnix
        BY <1>2, <1>3, <2>1
      <4>. QED
        BY <1>5, <4>1
    <3>3. S \subseteq R \cup Range(given) /\ Range(given) \subseteq S
      BY <1>2, <1>3, <2>1
    <3>4. PICK G : G = Range(given)
      OBVIOUS
    <3>5. /\ \A d \in G : d \in Range(Q[m].entries)
          /\ \A e \in Range(Q[m].entries) : \E d \in G : d.key = e.key /\ d.until >= e.until
          /\ S \subseteq R \cup G /\ G \subseteq S
          /\ \A g \in R, d \in G : g.key = d.key => g.until < t
      BY <3>2, <3>3, <3>4
    <3>6. /\ \A p \in Parties \ {m} : Stays(p, P, Q) /\ (Q[p].spent => P[p].spent)
          /\ t \in Int /\ Accounted(P, R, t) /\ ~P[m].spent /\ Q[m].at = t /\ Q[m].spent
          /\ \A e \in Range(Q[m].entries) : e.until \in Int
          /\ G \subseteq Range(Q[m].entries)
          /\ \A g \in R : g \in S \/ g.until < t
      BY <1>4, <1>5, <1>6, <1>8, <2>1, <3>1, <3>5
    <3>7. Spends(m, P, Q, R, S, t, G)
      BY <3>5, <3>6 DEF Spends
    <3>. QED
      BY <3>6, <3>7, SpentByOne
  <2>2. CASE answer # "true"
    <3>1. S \in SUBSET R
      BY <1>2, <1>3, <2>2
    <3>2. \A p \in Parties : Stays(p, P, Q) /\ (Q[p].spent => P[p].spent)
      BY <1>4, <1>6, <1>7, <2>2
    <3>3. t <= t
      BY <1>5
    <3>. QED
      BY <1>5, <1>8, <3>1, <3>2, <3>3, NothingSpent
  <2>. QED
    BY <2>1, <2>2
<1>10. ASSUME Q[m].outcome = "nonce_replayed"
       PROVE  \E r \in Parties \ {m} : P[r].spent /\ \E e \in Range(Q[m].entries), f \in Range(P[r].entries) :
                   e.key = f.key /\ f.until >= B[m]
  <2>1. PICK g \in R, d \in Range(given) : g.key = d.key /\ g.until >= nowUnix
    BY <1>2, <1>3, <1>4, <1>10
  <2>2. PICK r \in Parties : P[r].spent /\ g \in Range(P[r].entries)
    BY <1>5 DEF Accounted, Origins
  <2>3. r # m /\ d \in Range(Q[m].entries)
    BY <1>4, <2>2
  <2>. QED
    BY <2>1, <2>2, <2>3
<1>11. Replays(Q, B)
  BY <1>7, <1>10, ReplaysStay
<1>. QED
  BY <1>2, <1>3, <1>9, <1>11

\* A party moves without asking the store for anything.
LEMMA UnaskedMeans ==
    ASSUME NEW P, NEW Q, NEW A, NEW B, NEW m \in Parties, clock \in Int,
           Accounted(P, Range(reserved), clock), Replays(P, A),
           \A p \in Parties \ {m} : Q[p] = P[p] /\ B[p] = A[p],
           Unasked(P[m], Q[m])
    PROVE  Accounted(Q, Range(reserved'), clock) /\ Replays(Q, B)
<1>1. PICK R, t : R = Range(reserved) /\ t = clock
  OBVIOUS
<1>2. /\ Q[m].spent = P[m].spent /\ (P[m].spent => Q[m].entries = P[m].entries /\ Q[m].at = P[m].at)
      /\ Q[m].outcome # "nonce_replayed" /\ reserved' = reserved
  BY DEF Unasked, nvars, store
<1>3. \A p \in Parties : Stays(p, P, Q) /\ (Q[p].spent => P[p].spent)
  <2>. TAKE p \in Parties
  <2>1. CASE p = m
    BY <1>2, <2>1 DEF Stays
  <2>2. CASE p # m
    BY <2>2 DEF Stays
  <2>. QED
    BY <2>1, <2>2
<1>4. t \in Int /\ t <= t /\ R \in SUBSET R /\ \A g \in R : g \in R \/ g.until < t
  BY <1>1
<1>5. Accounted(Q, R, t)
  BY <1>1, <1>3, <1>4, NothingSpent
<1>6. Replays(Q, B)
  BY <1>2, <1>3, ReplaysStay
<1>. QED
  BY <1>1, <1>2, <1>5, <1>6

Ledger == [p \in Parties |-> Party(p)]
Asked == [p \in Parties |-> AskedAt(p)]

AttemptsInv == attempts = [a \in Attempts |-> attempts[a]] /\ \A a \in Attempts : AttemptOK(attempts[a])
SpendInv == Accounted(Ledger, Range(reserved), clock) /\ Replays(Ledger, Asked)

XInv ==
    /\ Stored(AllKeys) /\ clock \in Nat
    /\ CallsInv
    /\ RecordsInv
    /\ AttemptsInv
    /\ SpendInv

LEMMA GateMovesLedger ==
    ASSUME CallsInv, NEW q \in Invocations, NEW u, calls' = [calls EXCEPT ![q] = u], UNCHANGED attempts
    PROVE  /\ q \in Parties /\ Ledger[q] = calls[q] /\ Ledger'[q] = u /\ Asked'[q] = u.now
           /\ \A p \in Parties \ {q} : Ledger'[p] = Ledger[p] /\ Asked'[p] = Asked[p]
<1>1. calls'[q] = u /\ \A p \in Invocations \ {q} : calls'[p] = calls[p]
  BY DEF CallsInv
<1>2. attempts' = attempts
  OBVIOUS
<1>3. q \in Parties /\ Ledger[q] = calls[q] /\ Ledger'[q] = u /\ Asked'[q] = u.now
  BY <1>1 DEF Parties, Ledger, Asked, Party, AskedAt
<1>4. ASSUME NEW p \in Parties \ {q} PROVE Ledger'[p] = Ledger[p] /\ Asked'[p] = Asked[p]
  BY <1>1, <1>2 DEF Parties, Ledger, Asked, Party, AskedAt
<1>. QED
  BY <1>3, <1>4

LEMMA AttemptMovesLedger ==
    ASSUME AttemptsInv, NEW a \in Attempts, NEW u, attempts' = [attempts EXCEPT ![a] = u], UNCHANGED calls
    PROVE  /\ a \in Parties /\ Ledger[a] = attempts[a] /\ Ledger'[a] = u /\ Asked'[a] = u.at
           /\ \A p \in Parties \ {a} : Ledger'[p] = Ledger[p] /\ Asked'[p] = Asked[p]
<1>1. attempts'[a] = u /\ \A p \in Attempts \ {a} : attempts'[p] = attempts[p]
  BY DEF AttemptsInv
<1>2. calls' = calls /\ a \notin Invocations
  BY EvcAssumption
<1>3. a \in Parties /\ Ledger[a] = attempts[a] /\ Ledger'[a] = u /\ Asked'[a] = u.at
  BY <1>1, <1>2 DEF Parties, Ledger, Asked, Party, AskedAt
<1>4. ASSUME NEW p \in Parties \ {a} PROVE Ledger'[p] = Ledger[p] /\ Asked'[p] = Asked[p]
  BY <1>1, <1>2 DEF Parties, Ledger, Asked, Party, AskedAt
<1>. QED
  BY <1>3, <1>4

LEMMA LaterOK ==
    ASSUME NEW c, NEW t \in Nat, NEW u \in Nat, t <= u, CallOK(c, t)
    PROVE  CallOK(c, u)
<1>1. c.now \in Nat /\ c.now <= t
  BY DEF CallOK
<1>2. c.now <= u
  BY <1>1
<1>. QED
  BY <1>2 DEF CallOK

LEMMA GateMoveKeeps ==
    ASSUME XInv, NEW q \in Invocations, GateMove(q), UNCHANGED attempts
    PROVE  XInv'
<1>1. PICK u : /\ calls' = [calls EXCEPT ![q] = u]
               /\ CallOK(u, clock)
               /\ \/ Unasked(calls[q], u)
                  \/ Served(calls[q], u, u.entries, calls[q].now) /\ u.now = calls[q].now
  BY DEF GateMove
<1>2. clock' = clock
  BY <1>1 DEF Unasked, Served, nvars
<1>3. RecordsInv'
  BY MoveKeepsReceipts, MoveKeepsPayments DEF XInv, RecordsInv
<1>4. CallsInv'
  <2>1. calls' = [p \in Invocations |-> calls'[p]] /\ \A p \in Invocations : CallOK(calls'[p], clock)
    BY <1>1 DEF XInv, CallsInv
  <2>. QED
    BY <1>2, <2>1 DEF CallsInv
<1>5. AttemptsInv'
  BY DEF XInv, AttemptsInv
<1>6. PICK P, Q, A, B : P = Ledger /\ Q = Ledger' /\ A = Asked /\ B = Asked'
  OBVIOUS
<1>7. /\ q \in Parties /\ P[q] = calls[q] /\ Q[q] = u /\ B[q] = u.now
      /\ \A p \in Parties \ {q} : Q[p] = P[p] /\ B[p] = A[p]
  BY <1>1, <1>6, GateMovesLedger DEF XInv
<1>8. Accounted(P, Range(reserved), clock) /\ Replays(P, A) /\ Stored(AllKeys) /\ clock \in Int /\ clock \in Nat
  BY <1>6 DEF XInv, SpendInv
<1>9. CASE Unasked(calls[q], u)
  <2>1. Accounted(Q, Range(reserved'), clock) /\ Replays(Q, B)
    BY <1>7, <1>8, <1>9, UnaskedMeans
  <2>2. Stored(AllKeys)'
    BY <1>8, <1>9 DEF Unasked, nvars, store, Stored
  <2>3. SpendInv'
    BY <1>2, <1>6, <2>1 DEF SpendInv
  <2>. QED
    BY <1>2, <1>3, <1>4, <1>5, <1>8, <2>2, <2>3 DEF XInv
<1>10. CASE Served(calls[q], u, u.entries, calls[q].now) /\ u.now = calls[q].now
  <2>1. u.now \in Int /\ u.now <= clock /\ u.entries \in Seq(Entries(AllKeys))
    BY <1>1 DEF CallOK
  <2>2. \A e \in Range(u.entries) : \E d \in Range(u.entries) : d.key = e.key /\ d.until >= e.until
    <3>1. \A i \in DOMAIN u.entries : u.entries[i] \in Entries(AllKeys)
      BY <2>1
    <3>2. \A e \in Range(u.entries) : e.until \in Int
      BY <3>1 DEF Range, Entries
    <3>3. \A e \in Range(u.entries) : e.until >= e.until
      BY <3>2
    <3>. QED
      BY <3>3
  <2>3. PICK given, nowUnix : given = u.entries /\ nowUnix = u.now
    OBVIOUS
  <2>4. /\ given \in Seq(Entries(AllKeys)) /\ nowUnix \in Int /\ nowUnix <= clock
        /\ Served(P[q], Q[q], given, nowUnix) /\ B[q] = nowUnix
        /\ Q[q].entries \in Seq(Entries(AllKeys)) /\ Range(given) \subseteq Range(Q[q].entries)
        /\ \A e \in Range(Q[q].entries) : \E d \in Range(given) : d.key = e.key /\ d.until >= e.until
    BY <1>7, <1>10, <2>1, <2>2, <2>3
  <2>5. Stored(AllKeys)' /\ Accounted(Q, Range(reserved'), clock) /\ Replays(Q, B)
    BY <1>7, <1>8, <2>4, ServedMeans, SMTT(60)
  <2>6. SpendInv'
    BY <1>2, <1>6, <2>5 DEF SpendInv
  <2>. QED
    BY <1>2, <1>3, <1>4, <1>5, <1>8, <2>5, <2>6 DEF XInv
<1>. QED
  BY <1>1, <1>9, <1>10

LEMMA AttemptMoveKeeps ==
    ASSUME XInv, NEW a \in Attempts, AttemptMove(a)
    PROVE  XInv'
<1>1. PICK u : /\ attempts' = [attempts EXCEPT ![a] = u]
               /\ AttemptOK(u)
               /\ UNCHANGED <<calls, chain, stash, payments>>
               /\ \/ Unasked(attempts[a], u)
                  \/ Served(attempts[a], u, Deduplicated(u.entries), clock)
  BY DEF AttemptMove
<1>2. clock' = clock /\ calls' = calls /\ chain' = chain /\ stash' = stash /\ payments' = payments
  BY <1>1 DEF Unasked, Served, nvars
<1>3. RecordsInv'
  BY <1>2 DEF XInv, RecordsInv, ReceiptsInv, PaymentsInv
<1>4. CallsInv'
  BY <1>2 DEF XInv, CallsInv
<1>5. AttemptsInv'
  BY <1>1 DEF XInv, AttemptsInv
<1>6. PICK P, Q, A, B : P = Ledger /\ Q = Ledger' /\ A = Asked /\ B = Asked'
  OBVIOUS
<1>7. /\ a \in Parties /\ P[a] = attempts[a] /\ Q[a] = u /\ B[a] = u.at
      /\ \A p \in Parties \ {a} : Q[p] = P[p] /\ B[p] = A[p]
  BY <1>1, <1>2, <1>6, AttemptMovesLedger DEF XInv
<1>8. Accounted(P, Range(reserved), clock) /\ Replays(P, A) /\ Stored(AllKeys) /\ clock \in Int /\ clock \in Nat
  BY <1>6 DEF XInv, SpendInv
<1>9. CASE Unasked(attempts[a], u)
  <2>1. Accounted(Q, Range(reserved'), clock) /\ Replays(Q, B)
    BY <1>7, <1>8, <1>9, UnaskedMeans
  <2>2. Stored(AllKeys)'
    BY <1>8, <1>9 DEF Unasked, nvars, store, Stored
  <2>3. SpendInv'
    BY <1>2, <1>6, <2>1 DEF SpendInv
  <2>. QED
    BY <1>2, <1>3, <1>4, <1>5, <1>8, <2>2, <2>3 DEF XInv
<1>10. CASE Served(attempts[a], u, Deduplicated(u.entries), clock)
  <2>1. u.entries \in Seq(Entries(AllKeys)) /\ u.at = clock
    BY <1>1, <1>10 DEF AttemptOK, Served
  <2>2. PICK given, nowUnix : given = Deduplicated(u.entries) /\ nowUnix = clock
    OBVIOUS
  <2>3. /\ given \in Seq(Entries(AllKeys))
        /\ Range(given) \subseteq Range(u.entries)
        /\ \A e \in Range(u.entries) : \E d \in Range(given) : d.key = e.key /\ d.until >= e.until
    BY <2>1, <2>2, DeduplicatedMeans
  <2>4. /\ given \in Seq(Entries(AllKeys)) /\ nowUnix \in Int /\ nowUnix <= clock
        /\ Served(P[a], Q[a], given, nowUnix) /\ B[a] = nowUnix
        /\ Q[a].entries \in Seq(Entries(AllKeys)) /\ Range(given) \subseteq Range(Q[a].entries)
        /\ \A e \in Range(Q[a].entries) : \E d \in Range(given) : d.key = e.key /\ d.until >= e.until
    BY <1>7, <1>8, <1>10, <2>1, <2>2, <2>3
  <2>5. Stored(AllKeys)' /\ Accounted(Q, Range(reserved'), clock) /\ Replays(Q, B)
    BY <1>7, <1>8, <2>4, ServedMeans, SMTT(60)
  <2>6. SpendInv'
    BY <1>2, <1>6, <2>5 DEF SpendInv
  <2>. QED
    BY <1>2, <1>3, <1>4, <1>5, <1>8, <2>5, <2>6 DEF XInv
<1>. QED
  BY <1>1, <1>9, <1>10

\* Nobody moves: the clock does, or a decision is paid on.
LEMMA NobodyMoves ==
    ASSUME XInv, UNCHANGED <<store, call, calls, attempts>>, clock' \in Nat, clock <= clock', RecordsInv'
    PROVE  XInv'
<1>1. Ledger' = Ledger /\ Asked' = Asked /\ reserved' = reserved
  BY DEF Ledger, Asked, Party, AskedAt, store
<1>2. PICK P, A, R, t, u : P = Ledger /\ A = Asked /\ R = Range(reserved) /\ t = clock /\ u = clock'
  OBVIOUS
<1>3. Accounted(P, R, t) /\ Replays(P, A) /\ t \in Int /\ u \in Int /\ t <= u
  BY <1>2 DEF XInv, SpendInv
<1>4. \A p \in Parties : Stays(p, P, P) /\ (P[p].spent => P[p].spent)
  BY DEF Stays
<1>5. R \in SUBSET R /\ \A g \in R : g \in R \/ g.until < u
  OBVIOUS
<1>6. Accounted(P, R, u)
  BY <1>3, <1>4, <1>5, NothingSpent
<1>7. SpendInv'
  BY <1>1, <1>2, <1>3, <1>6 DEF SpendInv
<1>8. CallsInv'
  <2>1. \A q \in Invocations : CallOK(calls[q], clock')
    BY LaterOK DEF XInv, CallsInv
  <2>. QED
    BY <2>1 DEF XInv, CallsInv
<1>9. AttemptsInv' /\ Stored(AllKeys)'
  BY DEF XInv, AttemptsInv, Stored, store
<1>. QED
  BY <1>7, <1>8, <1>9 DEF XInv

LEMMA XInvNext == XInv /\ [XNext]_xvars => XInv'
<1>. SUFFICES ASSUME XInv, [XNext]_xvars PROVE XInv'
  OBVIOUS
<1>1. clock \in Nat /\ Stored(AllKeys) /\ CallsInv /\ RecordsInv /\ AttemptsInv /\ chain \in Seq(Receipts)
  BY DEF XInv, RecordsInv, ReceiptsInv
<1>2. ASSUME UNCHANGED <<calls, chain, stash, payments>> PROVE RecordsInv'
  BY <1>1, <1>2 DEF RecordsInv, ReceiptsInv, PaymentsInv
<1>3. CASE GateSteps
  <2>1. GNext /\ UNCHANGED attempts
    BY <1>3 DEF GateSteps
  <2>2. CASE Tick /\ UNCHANGED <<calls, chain, stash, payments>>
    <3>1. clock' \in Nat /\ clock <= clock' /\ UNCHANGED <<store, call, calls, attempts>>
      BY <1>1, <2>1, <2>2 DEF Tick
    <3>. QED
      BY <1>2, <2>2, <3>1, NobodyMoves
  <2>3. CASE \E captured \in Captured : Verify(captured)
    <3>1. RecordsInv'
      BY <1>1, <2>3, VerifyKeepsRecords
    <3>2. clock' \in Nat /\ clock <= clock' /\ UNCHANGED <<store, call, calls, attempts>>
      BY <1>1, <2>1, <2>3 DEF Verify, nvars
    <3>. QED
      BY <3>1, <3>2, NobodyMoves
  <2>4. CASE \E q \in Invocations : GateMove(q)
    BY <2>1, <2>4, GateMoveKeeps
  <2>5. \A q \in Invocations : CallOK(calls[q], clock)
    BY <1>1 DEF CallsInv
  <2>. QED
    BY <1>1, <2>1, <2>2, <2>3, <2>4, <2>5, GateStepMeans
<1>4. CASE AttemptSteps
  <2>1. \A a \in Attempts : AttemptOK(attempts[a])
    BY <1>1 DEF AttemptsInv
  <2>. QED
    BY <1>1, <1>4, <2>1, AttemptStepMeans, AttemptMoveKeeps
<1>5. CASE UNCHANGED xvars
  <2>1. /\ clock' \in Nat /\ clock <= clock' /\ UNCHANGED <<store, call, calls, attempts>>
        /\ UNCHANGED <<calls, chain, stash, payments>>
    BY <1>1, <1>5 DEF xvars, gvars, nvars
  <2>. QED
    BY <1>2, <2>1, NobodyMoves
<1>. QED
  BY <1>3, <1>4, <1>5 DEF XNext

LEMMA XInvInit == XInit => XInv
<1>. SUFFICES ASSUME XInit PROVE XInv
  OBVIOUS
<1>1. /\ reserved = <<>> /\ sweepIter = Unset /\ clock = 0
      /\ calls = [q \in Invocations |-> [NewCall EXCEPT !.phase = IF q \in Invocations THEN "new" ELSE "idle"]]
      /\ chain = <<>> /\ stash = [c \in Captured |-> None] /\ payments = [q \in Invocations |-> 0]
      /\ attempts = [a \in Attempts |-> [NewAttempt EXCEPT !.phase = IF a \in Attempts THEN "new" ELSE "idle"]]
  BY DEF XInit, XStart, GStart, NInit
<1>2. Stored(AllKeys) /\ Range(reserved) = {} /\ clock \in Nat
  <2>1. reserved \in Seq(Entries(AllKeys)) /\ DOMAIN reserved = {}
    BY <1>1
  <2>. QED
    BY <1>1, <2>1 DEF Stored, Cursors, Range
<1>3. None \notin {"allow", "nonce_replayed", "quote_fault"}
  BY GateAssumption, EvcAssumption
<1>4. ASSUME NEW q \in Invocations
      PROVE  CallOK(calls[q], clock) /\ calls[q].outcome = None /\ calls[q].spent = FALSE
  <2>1. calls[q] = [NewCall EXCEPT !.phase = "new"]
    BY <1>1
  <2>2. calls[q] = [phase |-> "new", captured |-> None, list |-> <<>>, now |-> 0, outcome |-> None,
                    entries |-> <<>>, spent |-> FALSE, at |-> 0]
    BY <2>1 DEF NewCall
  <2>3. PICK c : c = calls[q]
    OBVIOUS
  <2>4. <<>> \in Seq(Entries(AllKeys))
    OBVIOUS
  <2>5. CallOK(c, clock)
    BY <1>1, <1>3, <2>2, <2>3, <2>4 DEF CallOK, IsCall
  <2>. QED
    BY <2>2, <2>3, <2>5
<1>5. ASSUME NEW a \in Attempts
      PROVE  AttemptOK(attempts[a]) /\ attempts[a].outcome = None /\ attempts[a].spent = FALSE
  <2>1. attempts[a] = [NewAttempt EXCEPT !.phase = "new"]
    BY <1>1
  <2>2. AttemptOK(attempts[a])
    BY <2>1, NewIsOK
  <2>3. attempts[a].phase = "new"
    BY <2>1 DEF NewAttempt
  <2>. QED
    BY <2>2, <2>3, Unspent DEF AttemptOK
<1>6. CallsInv /\ AttemptsInv
  BY <1>1, <1>4, <1>5 DEF CallsInv, AttemptsInv
<1>7. RecordsInv
  <2>1. chain \in Seq(Receipts) /\ Range(chain) = {}
    <3>1. chain \in Seq(Receipts) /\ DOMAIN chain = {}
      BY <1>1
    <3>. QED
      BY <3>1 DEF Range
  <2>2. \A c \in Captured : stash[c] = None
    BY <1>1
  <2>3. \A q \in Invocations : payments[q] = 0 /\ calls[q].outcome # "allow"
    BY <1>1, <1>3, <1>4
  <2>4. stash = [c \in Captured |-> stash[c]] /\ payments = [q \in Invocations |-> payments[q]]
    BY <1>1
  <2>. QED
    BY <2>1, <2>2, <2>3, <2>4 DEF RecordsInv, ReceiptsInv, PaymentsInv
<1>8. SpendInv
  <2>1. ASSUME NEW p \in Parties PROVE ~Ledger[p].spent /\ Ledger[p].outcome # "nonce_replayed"
    BY <1>3, <1>4, <1>5 DEF Parties, Ledger, Party
  <2>. QED
    BY <1>2, <2>1 DEF SpendInv, Accounted, Holding, Origins, Once, Replays
<1>. QED
  BY <1>2, <1>6, <1>7, <1>8 DEF XInv

THEOREM PaymentsInvariant == XSpec => []XInv
BY XInvInit, XInvNext, PTL DEF XSpec

\* What auditors hold, callers were told and the rail paid agree, beside any x402
\* traffic over the same store, with a signer that throws and a sink that refuses,
\* and however often a request is gated and the verify hook called (gate.ts).
THEOREM AuditedAndPaid == XSpec => []AuditedAndPaidOnce
<1>1. XInv => AuditedAndPaidOnce
  BY RecordsMeanAudited DEF XInv
<1>. QED
  BY <1>1, PaymentsInvariant, PTL

LEMMA InvSpentOnce == XInv => NonceSpentOnce
<1>. SUFFICES ASSUME XInv, NEW p \in Parties, NEW r \in Parties, p # r, Party(p).spent, Party(r).spent,
                     NEW e \in Stated(p), NEW f \in Stated(r), e.key = f.key
              PROVE  e.until < Party(r).at \/ f.until < Party(p).at
  BY DEF NonceSpentOnce
<1>1. Once(Ledger)
  BY DEF XInv, SpendInv, Accounted
<1>2. Ledger[p] = Party(p) /\ Ledger[r] = Party(r)
  BY DEF Ledger
<1>3. e \in Range(Ledger[p].entries) /\ f \in Range(Ledger[r].entries)
  BY <1>2 DEF Stated, Range
<1>. QED
  BY <1>1, <1>2, <1>3 DEF Once

\* However MPP and x402 requests overlap, wait for their verifiers and fill the
\* store, no nonce serves two of them while the time stated for it lasts (gate.ts,
\* x402-evc.ts, nonces.ts).
THEOREM NoncesSpentOnce == XSpec => []NonceSpentOnce
BY InvSpentOnce, PaymentsInvariant, PTL

LEMMA InvTruthful ==
    ASSUME MAX_ACCEPTANCE >= MAX_ACCEPTANCE_WINDOW, XInv
    PROVE  DenialsTruthful
<1>. SUFFICES ASSUME NEW p \in Parties
              PROVE  /\ Party(p).outcome = "nonce_replayed" =>
                           \E r \in Parties \ {p} : Party(r).spent /\ \E e \in Stated(p), f \in Stated(r) :
                                e.key = f.key /\ f.until >= AskedAt(p)
                     /\ Party(p).phase = "done" /\ Party(p).spent =>
                           \/ Party(p).outcome \in {"allow", "internal_error"}
                           \/ p \in Attempts /\ Party(p).outcome = "expired"
                     /\ Party(p).outcome # "quote_fault"
  BY DEF DenialsTruthful
<1>1. Replays(Ledger, Asked) /\ CallsInv /\ AttemptsInv
  BY DEF XInv, SpendInv
<1>2. \A r \in Parties : Ledger[r] = Party(r) /\ Asked[r] = AskedAt(r) /\ Stated(r) = Range(Party(r).entries)
  BY DEF Ledger, Asked, Stated, Range
<1>3. ASSUME Party(p).outcome = "nonce_replayed"
      PROVE  \E r \in Parties \ {p} : Party(r).spent /\ \E e \in Stated(p), f \in Stated(r) :
                e.key = f.key /\ f.until >= AskedAt(p)
  <2>1. PICK r \in Parties \ {p} : Ledger[r].spent /\ \E e \in Range(Ledger[p].entries), f \in Range(Ledger[r].entries) :
                                       e.key = f.key /\ f.until >= Asked[p]
    BY <1>1, <1>2, <1>3 DEF Replays
  <2>. QED
    BY <1>2, <2>1
<1>4. CASE p \in Invocations
  <2>1. Party(p) = calls[p] /\ CallOK(calls[p], clock)
    BY <1>1, <1>4 DEF Party, CallsInv
  <2>. QED
    BY <1>3, <2>1 DEF CallOK
<1>5. CASE p \in Attempts /\ p \notin Invocations
  <2>1. Party(p) = attempts[p] /\ AttemptOK(attempts[p])
    BY <1>1, <1>5 DEF Party, AttemptsInv
  <2>. QED
    BY <1>3, <1>5, <2>1 DEF AttemptOK
<1>. QED
  BY <1>4, <1>5 DEF Parties

\* A denial tells its caller the truth: a nonce is called replayed only when another
\* request spent it and its time had not passed; nonces are spent in vain only by a
\* fault or a deadline that passed meanwhile; and with an acceptance bound of the
\* default or more no quote that was accepted is a fault of the host (gate.ts,
\* x402-evc.ts, validateResolution).
THEOREM DenialsAreTruthful ==
    ASSUME MAX_ACCEPTANCE >= MAX_ACCEPTANCE_WINDOW
    PROVE  XSpec => []DenialsTruthful
<1>1. XInv => DenialsTruthful
  BY InvTruthful
<1>. QED
  BY <1>1, PaymentsInvariant, PTL

-----------------------------------------------------------------------------
(* Quotes and what an allow is bound to *)

\* What has been spent names the challenge and the quote, which were live.
LEMMA CommittedMeans ==
    ASSUME NEW x, Committed(x)
    PROVE  /\ Entered(x) /\ x.at \in Int /\ x.expiresAt \in Int /\ x.at < x.expiresAt
           /\ Entry(x.context.nonce, x.expiresAt) \in Range(x.entries)
           /\ x.resolution # None => Entry(x.resolution.jti, x.resolution.acceptUntil) \in Range(x.entries)
           /\ x.mode.resolver =>
                 /\ x.resolution # None /\ x.expiresAt <= x.resolution.acceptUntil /\ x.expiresAt <= x.context.expiresAt
                 /\ \E token : /\ BoundBy(token, x.context)
                               /\ x.resolution = Resolution(AUDIENCE, x.context)
                               /\ x.resolution.jti = token.jti /\ x.resolution.acceptUntil = token.exp + SKEW
                               /\ x.resolution.acceptUntil \in Int
           /\ ~x.mode.resolver => x.resolution = None /\ x.expiresAt = x.context.expiresAt
<1>1. Ready(x) /\ Entered(x) /\ x.at \in Int /\ x.expiresAt \in Int /\ x.at < x.expiresAt
  BY DEF Committed, Ready
<1>2. PICK named \in Named(x) : x.entries = ToReserve(x, named)
  BY DEF Committed
<1>3. PICK c, quote : /\ c = Entry(x.context.nonce, x.expiresAt)
                      /\ quote = IF x.resolution = None THEN <<>>
                                 ELSE <<Entry(x.resolution.jti, x.resolution.acceptUntil)>>
  OBVIOUS
<1>4. x.entries = <<c>> \o quote \o named
  BY <1>2, <1>3 DEF ToReserve
<1>5. PICK q, m, n : /\ q = Entry(x.resolution.jti, x.resolution.acceptUntil)
                     /\ m = Entry(x.mandate.key, x.mandate.expires) /\ n = Entry(x.mandate.key, x.requestNow)
  OBVIOUS
<1>6. PICK U : U = {c, q, m, n}
  OBVIOUS
<1>7. <<c>> \in Seq(U) /\ Range(<<c>>) = {c}
  <2>1. DOMAIN <<c>> = {1} /\ <<c>>[1] = c /\ c \in U
    BY <1>6
  <2>. QED
    BY <2>1 DEF Range
<1>8. quote \in Seq(U) /\ (x.resolution # None => q \in Range(quote))
  <2>1. CASE x.resolution = None
    BY <1>3, <2>1
  <2>2. CASE x.resolution # None
    <3>1. quote = <<q>> /\ q \in U
      BY <1>3, <1>5, <1>6, <2>2
    <3>2. DOMAIN quote = {1} /\ quote[1] = q
      BY <3>1
    <3>. QED
      BY <3>1, <3>2 DEF Range
  <2>. QED
    BY <2>1, <2>2
<1>9. named \in Seq(U)
  <2>1. named \in {<<>>, <<m>>, <<m, n>>}
    BY <1>2, <1>5 DEF Named
  <2>2. <<>> \in Seq(U) /\ <<m>> \in Seq(U) /\ <<m, n>> \in Seq(U)
    BY <1>6
  <2>. QED
    BY <2>1, <2>2
<1>10. PICK first, cq, all : /\ first = <<c>> /\ cq = first \o quote /\ all = cq \o named
  OBVIOUS
<1>11. cq \in Seq(U) /\ Range(cq) = {c} \cup Range(quote)
  <2>1. first \in Seq(U) /\ Range(first) = {c}
    BY <1>7, <1>10
  <2>2. first \o quote \in Seq(U) /\ Range(first \o quote) = Range(first) \cup Range(quote)
    BY <1>8, <2>1, ConcatRange
  <2>. QED
    BY <1>10, <2>1, <2>2
<1>12. Range(x.entries) = Range(cq) \cup Range(named)
  <2>1. cq \o named \in Seq(U) /\ Range(cq \o named) = Range(cq) \cup Range(named)
    BY <1>9, <1>11, ConcatRange
  <2>2. x.entries = all
    BY <1>4, <1>10
  <2>. QED
    BY <1>10, <2>1, <2>2
<1>13. ASSUME x.mode.resolver
       PROVE  /\ x.resolution # None /\ x.expiresAt <= x.resolution.acceptUntil /\ x.expiresAt <= x.context.expiresAt
              /\ \E token : /\ BoundBy(token, x.context)
                            /\ x.resolution = Resolution(AUDIENCE, x.context)
                            /\ x.resolution.jti = token.jti /\ x.resolution.acceptUntil = token.exp + SKEW
                            /\ x.resolution.acceptUntil \in Int
  <2>1. /\ Bound(AUDIENCE, x.context, x.entered) /\ x.resolution = Resolution(AUDIENCE, x.context)
        /\ x.expiresAt <= x.resolution.acceptUntil /\ x.expiresAt <= x.context.expiresAt
    BY <1>1, <1>13 DEF Ready
  <2>2. PICK token : BoundBy(token, x.context)
    BY <1>1, <2>1, KnownLegs, ResolutionMeans DEF Entered
  <2>3. x.resolution # None /\ x.resolution.jti = token.jti /\ x.resolution.acceptUntil = token.exp + SKEW
    BY <2>1, <2>2 DEF BoundBy
  <2>4. x.resolution.acceptUntil \in Int
    BY <2>2, <2>3, QuoteAssumption DEF BoundBy
  <2>. QED
    BY <2>1, <2>2, <2>3, <2>4
<1>14. ~x.mode.resolver => x.resolution = None /\ x.expiresAt = x.context.expiresAt
  BY <1>1 DEF Ready
<1>. QED
  BY <1>1, <1>3, <1>5, <1>8, <1>11, <1>12, <1>13, <1>14

LEMMA InvQuoteSpentOnce == XInv => QuoteSpentOnce
<1>. SUFFICES ASSUME XInv, NEW a \in Attempts, NEW b \in Attempts, a # b, attempts[a].spent, attempts[b].spent
              PROVE  /\ attempts[a].resolution # None /\ attempts[b].resolution # None =>
                           attempts[a].resolution.jti # attempts[b].resolution.jti
                     /\ attempts[a].mode = attempts[b].mode =>
                           attempts[a].context.nonce # attempts[b].context.nonce
  BY DEF QuoteSpentOnce
<1>1. PICK x, y : x = attempts[a] /\ y = attempts[b]
  OBVIOUS
<1>2. Committed(x) /\ Committed(y)
  BY <1>1 DEF XInv, AttemptsInv, AttemptOK
<1>3. ASSUME NEW e \in Range(x.entries), NEW f \in Range(y.entries), e.key = f.key
      PROVE  e.until < y.at \/ f.until < x.at
  <2>1. a \in Parties /\ b \in Parties /\ Party(a) = x /\ Party(b) = y
    BY <1>1, EvcAssumption DEF Parties, Party
  <2>2. e \in Stated(a) /\ f \in Stated(b)
    BY <2>1 DEF Stated, Range
  <2>. QED
    BY <1>1, <1>3, <2>1, <2>2, InvSpentOnce DEF NonceSpentOnce
<1>4. /\ Entered(x) /\ x.at \in Int /\ x.expiresAt \in Int /\ x.at < x.expiresAt
      /\ Entered(y) /\ y.at \in Int /\ y.expiresAt \in Int /\ y.at < y.expiresAt
      /\ Entry(x.context.nonce, x.expiresAt) \in Range(x.entries)
      /\ Entry(y.context.nonce, y.expiresAt) \in Range(y.entries)
      /\ x.resolution # None => Entry(x.resolution.jti, x.resolution.acceptUntil) \in Range(x.entries)
      /\ y.resolution # None => Entry(y.resolution.jti, y.resolution.acceptUntil) \in Range(y.entries)
      /\ ~x.mode.resolver => x.resolution = None /\ x.expiresAt = x.context.expiresAt
      /\ ~y.mode.resolver => y.resolution = None /\ y.expiresAt = y.context.expiresAt
      /\ x.mode.resolver => x.resolution # None /\ x.expiresAt <= x.resolution.acceptUntil
      /\ y.mode.resolver => y.resolution # None /\ y.expiresAt <= y.resolution.acceptUntil
  BY <1>2, CommittedMeans
<1>5. ASSUME x.mode.resolver PROVE \E token : /\ BoundBy(token, x.context) /\ x.resolution.jti = token.jti
                                             /\ x.resolution.acceptUntil = token.exp + SKEW
                                             /\ x.resolution.acceptUntil \in Int
  BY <1>2, <1>5, CommittedMeans
<1>6. ASSUME y.mode.resolver PROVE \E token : /\ BoundBy(token, y.context) /\ y.resolution.jti = token.jti
                                             /\ y.resolution.acceptUntil = token.exp + SKEW
                                             /\ y.resolution.acceptUntil \in Int
  BY <1>2, <1>6, CommittedMeans
\* A quote has one identity, and was spent before the last instant it is accepted at.
<1>7. ASSUME x.resolution # None, y.resolution # None, x.resolution.jti = y.resolution.jti
      PROVE  FALSE
  <2>1. x.mode.resolver /\ y.mode.resolver
    BY <1>4, <1>7
  <2>2. PICK t : /\ BoundBy(t, x.context) /\ x.resolution.jti = t.jti
                 /\ x.resolution.acceptUntil = t.exp + SKEW /\ x.resolution.acceptUntil \in Int
    BY <1>5, <2>1
  <2>3. PICK u : /\ BoundBy(u, y.context) /\ y.resolution.jti = u.jti
                 /\ y.resolution.acceptUntil = u.exp + SKEW /\ y.resolution.acceptUntil \in Int
    BY <1>6, <2>1
  <2>4. t = u
    <3>1. /\ AUDIENCE \in DOMAIN Issuers /\ t.iss = u.iss /\ t.jti = u.jti
          /\ t \in Quotes /\ u \in Quotes /\ Signed(t, Issuers[AUDIENCE]) /\ Signed(u, Issuers[AUDIENCE])
      BY <1>7, <2>2, <2>3 DEF BoundBy
    <3>2. \A audience \in DOMAIN Issuers : \A v, w \in {q \in Quotes : Signed(q, Issuers[audience])} :
             v.iss = w.iss /\ v.jti = w.jti => v = w
      BY EvcAssumption
    <3>. QED
      BY <3>1, <3>2
  <2>5. PICK until : until = x.resolution.acceptUntil
    OBVIOUS
  <2>6. until = y.resolution.acceptUntil /\ until \in Int
    BY <2>2, <2>3, <2>4, <2>5
  <2>7. PICK e, f : /\ e = Entry(x.resolution.jti, until) /\ f = Entry(y.resolution.jti, until)
    OBVIOUS
  <2>8. /\ e \in Range(x.entries) /\ f \in Range(y.entries) /\ e.key = f.key
        /\ e.until = until /\ f.until = until
    BY <1>4, <1>7, <2>5, <2>6, <2>7 DEF Entry
  <2>9. until < y.at \/ until < x.at
    BY <1>3, <2>8
  <2>10. x.expiresAt <= until /\ y.expiresAt <= until
    BY <1>4, <2>1, <2>5, <2>6
  <2>. QED
    BY <1>4, <2>6, <2>9, <2>10
<1>8. ASSUME x.mode = y.mode, x.context.nonce = y.context.nonce PROVE FALSE
  <2>1. KnownContext(x.mode, x.context) /\ KnownContext(x.mode, y.context) /\ x.mode \in Modes
    BY <1>4, <1>8 DEF Entered
  <2>2. CASE x.mode.resolver
    <3>1. x.context.requirements = y.context.requirements
      <4>1. CASE x.mode.local
        <5>1. PICK h \in Headers : x.context.nonce = h.bytes /\ x.context.requirements = h.leg
          BY <2>1, <4>1 DEF KnownContext
        <5>2. PICK g \in Headers : y.context.nonce = g.bytes /\ y.context.requirements = g.leg
          BY <2>1, <4>1 DEF KnownContext
        <5>3. h = g
          BY <1>8, <5>1, <5>2, EvcAssumption
        <5>. QED
          BY <5>1, <5>2, <5>3
      <4>2. CASE ~x.mode.local
        <5>1. x.context \in Contexts /\ y.context \in Contexts
          BY <2>1, <4>2 DEF KnownContext
        <5>2. x.context = y.context
          BY <1>8, <5>1, EvcAssumption
        <5>. QED
          BY <5>2
      <4>. QED
        BY <4>1, <4>2
    <3>2. PICK t : BoundBy(t, x.context) /\ x.resolution.jti = t.jti
      BY <1>5, <2>2
    <3>3. PICK u : BoundBy(u, y.context) /\ y.resolution.jti = u.jti
      BY <1>6, <1>8, <2>2
    <3>4. t = u
      <4>1. t \in x.context.requirements.token /\ u \in x.context.requirements.token
        BY <3>1, <3>2, <3>3 DEF BoundBy
      <4>2. Parsed(x.context)
        BY <2>1, KnownLegs, LegsAreParsed
      <4>. QED
        BY <4>1, <4>2 DEF Parsed
    <3>. QED
      BY <1>4, <1>7, <1>8, <2>2, <3>2, <3>3, <3>4
  <2>3. CASE ~x.mode.resolver
    <3>1. ~x.mode.local
      BY <2>1, <2>3 DEF Modes
    <3>2. x.context \in Contexts /\ y.context \in Contexts
      BY <2>1, <3>1 DEF KnownContext
    <3>3. x.context = y.context
      BY <1>8, <3>2, EvcAssumption
    <3>4. x.expiresAt = y.expiresAt
      BY <1>4, <1>8, <2>3, <3>3
    <3>5. PICK e, f : e = Entry(x.context.nonce, x.expiresAt) /\ f = Entry(y.context.nonce, y.expiresAt)
      OBVIOUS
    <3>6. /\ e \in Range(x.entries) /\ f \in Range(y.entries) /\ e.key = f.key
          /\ e.until = x.expiresAt /\ f.until = x.expiresAt
      BY <1>4, <1>8, <3>4, <3>5 DEF Entry
    <3>7. x.expiresAt < y.at \/ x.expiresAt < x.at
      BY <1>3, <3>6
    <3>. QED
      BY <1>4, <3>4, <3>7
  <2>. QED
    BY <2>2, <2>3
<1>. QED
  BY <1>1, <1>7, <1>8

\* A quote serves one attempt, ever, although its header is received again, or it is
\* carried in other bytes, after the first challenge has lapsed; so does a challenge
\* under one configuration (x402-evc.ts; x402-evc-profile-v0.md, line 173).
THEOREM QuotesSpentOnce == XSpec => []QuoteSpentOnce
BY InvQuoteSpentOnce, PaymentsInvariant, PTL

\* The leg to settle is the leg that was verified, but for its timeout.
LEMMA LegToSettle ==
    ASSUME NEW local, ValidLocalChallenge(local), NEW context, context = local.context, context.requirements \in Legs,
           NEW paths, NEW f \in {"amount", "asset", "token", "extra"}
    PROVE  /\ DOMAIN local.selectedLeg = DOMAIN context.requirements /\ f \in DOMAIN local.selectedLeg
           /\ local.selectedLeg[f] = context.requirements[f]
<1>1. PICK l, r : l = local.selectedLeg /\ r = context.requirements
  OBVIOUS
<1>2. [l EXCEPT !.maxTimeoutSeconds = 1] = [r EXCEPT !.maxTimeoutSeconds = 1]
  BY <1>1 DEF ValidLocalChallenge
<1>3. f \in DOMAIN r
  <2>1. \A leg \in Legs : DOMAIN leg = {"scheme", "network", "asset", "amount", "payTo", "assetDecimals",
                                        "maxTimeoutSeconds", "token", "extra"}
    BY EvcAssumption
  <2>. QED
    BY <1>1, <2>1
<1>4. PICK m, n : m = [l EXCEPT !.maxTimeoutSeconds = 1] /\ n = [r EXCEPT !.maxTimeoutSeconds = 1]
  OBVIOUS
<1>5. DOMAIN m = DOMAIN l /\ DOMAIN n = DOMAIN r /\ m = n
  BY <1>2, <1>4
<1>6. f \in DOMAIN l
  BY <1>3, <1>5
<1>7. m[f] = l[f] /\ n[f] = r[f]
  BY <1>3, <1>4, <1>6
<1>. QED
  BY <1>1, <1>5, <1>6, <1>7

LEMMA InvAllowedAsBound == XInv => AllowedAsBound
<1>. SUFFICES ASSUME XInv, NEW a \in Attempts, Allowed(a) PROVE Binding(attempts[a])
  BY DEF AllowedAsBound
<1>1. PICK x : x = attempts[a]
  OBVIOUS
<1>2. AttemptOK(x) /\ x.outcome = "allow"
  BY <1>1 DEF XInv, AttemptsInv, Allowed
<1>3. /\ Committed(x) /\ x.settledAt \in Int /\ x.settledAt < x.expiresAt
      /\ x.checkedLeg = IF x.local = None THEN None
                        ELSE CheckedLeg(x.local.selectedLeg, x.resolution.verifiedExtraPaths)
  BY <1>2 DEF AttemptOK
<1>4. /\ Ready(x) /\ Entered(x) /\ x.expiresAt \in Int /\ x.mandate.expires > x.requestNow
      /\ KnownContext(x.mode, x.context) /\ x.context.expiresAt \in Int /\ x.context.requirements \in Legs
  BY <1>3, KnownLegs DEF Committed, Ready, Entered, KnownContext
<1>5. x.settledAt < x.context.expiresAt
  <2>1. x.expiresAt <= x.context.expiresAt
    <3>1. x.mode.resolver => x.expiresAt <= x.context.expiresAt
      BY <1>3, CommittedMeans
    <3>2. ~x.mode.resolver => x.expiresAt = x.context.expiresAt
      BY <1>3, CommittedMeans
    <3>. QED
      BY <1>4, <3>1, <3>2
  <2>. QED
    BY <1>3, <1>4, <2>1
<1>6. ASSUME x.resolution # None
      PROVE  x.settledAt < x.resolution.acceptUntil /\ x.mandate.expires > x.resolvedAt
  <2>1. x.mode.resolver
    BY <1>4, <1>6 DEF Ready
  <2>2. x.expiresAt <= x.resolution.acceptUntil /\ x.resolution.acceptUntil \in Int
    BY <1>3, <2>1, CommittedMeans
  <2>3. x.resolvedAt = x.requestNow
    BY <1>4, <2>1 DEF Ready
  <2>. QED
    BY <1>3, <1>4, <2>2, <2>3
<1>7. ASSUME x.checkedLeg # None
      PROVE  \E token \in x.checkedLeg.token :
                /\ Signed(token, Issuers[AUDIENCE]) /\ token.iss = AUDIENCE
                /\ x.checkedLeg.amount = token.amount /\ x.checkedLeg.asset = token.currency
                /\ Agree(x.checkedLeg.extra, token.claims, DOMAIN x.checkedLeg.extra)
  <2>1. x.local # None /\ x.checkedLeg = CheckedLeg(x.local.selectedLeg, x.resolution.verifiedExtraPaths)
    BY <1>3, <1>7
  <2>2. x.mode.local /\ ValidLocalChallenge(x.local) /\ x.context = x.local.context
    BY <1>4, <2>1 DEF Entered
  <2>3. x.mode.resolver
    BY <1>4, <2>2 DEF Entered, Modes
  <2>4. PICK token : BoundBy(token, x.context) /\ x.resolution = Resolution(AUDIENCE, x.context)
    BY <1>3, <2>3, CommittedMeans
  <2>5. PICK leg, req, local, context, paths :
           /\ local = x.local /\ context = x.context /\ leg = local.selectedLeg /\ req = context.requirements
           /\ paths = x.resolution.verifiedExtraPaths
    OBVIOUS
  <2>6. paths = Issuers[AUDIENCE].settlementFields
    BY <2>4, <2>5 DEF BoundBy
  <2>7. \A f \in {"amount", "asset", "token", "extra"} : f \in DOMAIN leg /\ leg[f] = req[f]
    BY <1>4, <2>2, <2>5, LegToSettle
  <2>8. /\ leg.amount = req.amount /\ leg.asset = req.asset /\ leg.token = req.token /\ leg.extra = req.extra
        /\ "extra" \in DOMAIN leg
    BY <2>7
  <2>9. PICK extra : extra = [path \in DOMAIN leg.extra \cap paths |-> leg.extra[path]]
    OBVIOUS
  <2>10. x.checkedLeg = [leg EXCEPT !.extra = extra]
    BY <2>1, <2>5, <2>9 DEF CheckedLeg
  <2>11. /\ x.checkedLeg.amount = leg.amount /\ x.checkedLeg.asset = leg.asset
         /\ x.checkedLeg.token = leg.token /\ x.checkedLeg.extra = extra
    BY <2>7, <2>10
  <2>12. Claimed(token, req, context.resource, Issuers[AUDIENCE])
    BY <2>4, <2>5 DEF BoundBy
  <2>13. token.amount = req.amount /\ token.currency = req.asset
    BY <2>12 DEF Claimed, Priced
  <2>14. Agree(extra, token.claims, DOMAIN extra)
    <3>1. Agree(req.extra, token.claims, paths)
      BY <2>6, <2>12 DEF Claimed
    <3>. QED
      BY <2>8, <2>9, <3>1 DEF Agree
  <2>15. token \in x.checkedLeg.token /\ Signed(token, Issuers[AUDIENCE]) /\ token.iss = AUDIENCE
    BY <2>4, <2>5, <2>8, <2>11 DEF BoundBy
  <2>. QED
    BY <2>8, <2>11, <2>13, <2>14, <2>15
<1>. QED
  BY <1>1, <1>5, <1>6, <1>7 DEF Binding

\* What is allowed was bound by evidence that held together when the answer was
\* given: a live challenge and quote, a mandate live when the quote had been
\* resolved, and a leg to settle that is what the issuer signed with nothing beside
\* it (x402-evc.ts, x402-local-challenge.ts).
THEOREM AllowsAreBound == XSpec => []AllowedAsBound
BY InvAllowedAsBound, PaymentsInvariant, PTL
=============================================================================
