------------------------ MODULE VerifyCommandProofs ------------------------
(***************************************************************************)
(* Proofs about `bolyra verify`: what its replay store grants to whom,     *)
(* whatever other processes do to the directory, and from that what an     *)
(* allow of the command spends.                                            *)
(***************************************************************************)
EXTENDS VerifyCommand, VerdictProofs, SequenceTheorems

-----------------------------------------------------------------------------
(* The store: markIfFresh *)

\* The steps of the store, for whatever retention a caller asks for.
MarkStep ==
    \/ Tick
    \/ \E m \in Marks :
          \/ \E key \in Keys, ttl \in Nat \ {0} : Start(m, key, ttl)
          \/ \E key \in Keys : PruneRead(m, key) \/ PruneRemove(m, key)
          \/ Write(m) \/ Link(m) \/ Read(m)
          \/ Lock(m) \/ Recheck(m) \/ Rename(m) \/ Unlock(m)
          \/ Fail(m) \/ Crash(m)

Reclaiming == {"recheck", "rename", "unlock"}      \* under the lock
Over == {"unlock", "done", "crashed"}              \* the entry is put, or never will be
Phases == {"new", "prune", "link", "read", "lock"} \cup Reclaiming \cup Over

MarkRecord ==
    [pc : Phases, key : Keys \cup {None}, ttl : Nat, now : Nat, unread : SUBSET Keys,
     doomed : SUBSET Keys, expiry : Nat, answer : {None, "true", "false", "error"}, at : Nat]

StoreTyped ==
    /\ file \in [Keys -> Nat \cup {None}]
    /\ locks \subseteq Keys
    /\ marks \in [Marks -> MarkRecord]
    /\ pruned \subseteq Keys
    /\ misread \subseteq Keys
    /\ clock \in Nat

\* What a call has established by itself.
CallMeans(m) ==
    /\ m.pc # "new" => m.key \in Keys
    /\ m.pc = "new" => m = NewMark
    /\ m.now <= clock
    /\ m.answer # None => m.pc \in Over
    /\ m.pc \in {"link", "read", "lock", "recheck", "rename"} \/ m.answer = "true" =>
          m.expiry >= m.now + m.ttl

\* A file and a lock file are there because a call made them.
FilesOwned ==
    /\ \A key \in Keys : file[key] # None => \E m \in Marks : marks[m].key = key /\ marks[m].pc \in Over
    /\ \A key \in locks : \E m \in Marks : marks[m].key = key /\ marks[m].pc \in Reclaiming \cup Over

\* At most one call is under the lock of a key.
LockHeld ==
    /\ \A m \in Marks : marks[m].pc \in Reclaiming => marks[m].key \in locks
    /\ \A m, n \in Marks :
          marks[m].pc \in Reclaiming /\ marks[n].pc \in Reclaiming /\ marks[m].key = marks[n].key => m = n

\* A call that found the file finds it until a prune removes it, and what it replaces
\* has expired unless it could not be read.
FileStays ==
    \A m \in Marks : marks[m].key \notin Lost =>
        /\ marks[m].pc \in {"read", "lock", "recheck", "rename"} => file[marks[m].key] # None
        /\ marks[m].pc = "rename" => file[marks[m].key] <= clock

\* Whoever won left a file, and what has replaced it was put when it had expired.
WinnersCovered ==
    \A m \in Marks : Won(m) /\ marks[m].key \notin Lost =>
        /\ file[marks[m].key] # None
        /\ marks[m].expiry <= file[marks[m].key] \/ marks[m].expiry <= clock

WinnersApart ==
    \A m, n \in Marks :
        m # n /\ Won(m) /\ Won(n) /\ marks[m].key = marks[n].key /\ marks[m].key \notin Lost =>
            marks[m].expiry <= marks[n].at \/ marks[n].expiry <= marks[m].at

\* A call is only refused because another one of the same key came as far.
Refused(m) == marks[m].answer = "false"
RefusalsMet ==
    \A m \in Marks : Refused(m) =>
        \E n \in Marks \ {m} : marks[n].pc # "new" /\ marks[n].key = marks[m].key

StoreInv ==
    /\ StoreTyped
    /\ \A m \in Marks : CallMeans(marks[m])
    /\ FilesOwned
    /\ LockHeld
    /\ FileStays
    /\ WinnersCovered
    /\ WinnersApart
    /\ RefusalsMet

LEMMA StoreInvInit == Init => StoreInv
<1>. SUFFICES ASSUME Init PROVE StoreInv
  OBVIOUS
<1>1. NewMark \in MarkRecord
  BY MarkAssumption DEF NewMark, MarkRecord, Phases, Reclaiming, Over
<1>2. \A m \in Marks : marks[m] = NewMark
  BY DEF Init
<1>3. NewMark.pc = "new" /\ NewMark.answer = None /\ NewMark.now = 0
  BY DEF NewMark
<1>4. StoreTyped
  BY <1>1 DEF Init, StoreTyped
<1>. QED
  BY <1>2, <1>3, <1>4, MarkAssumption DEF Init, StoreInv, CallMeans, FilesOwned, LockHeld, FileStays,
     WinnersCovered, WinnersApart, RefusalsMet, Refused, Won, Reclaiming, Over, Lost

-----------------------------------------------------------------------------
(* The steps.  A call m goes from marks[m] to marks'[m] in one of five ways.  *)

\* Every step is one call's, which keeps its key and has not answered yet.
CallStep(m) ==
    /\ marks' \in [Marks -> MarkRecord]
    /\ \A n \in Marks \ {m} : marks'[n] = marks[n]
    /\ marks[m].pc \notin {"done", "crashed"} /\ marks'[m].pc # "new"
    /\ CallMeans(marks'[m])
    /\ IF marks[m].pc = "new" THEN marks'[m].pc = "prune" /\ marks'[m].now = clock
       ELSE /\ marks'[m].key = marks[m].key
            /\ marks'[m].ttl = marks[m].ttl /\ marks'[m].now = marks[m].now
    /\ clock' = clock

SameWin(m) == Won(m) /\ marks'[m].expiry = marks[m].expiry /\ marks'[m].at = marks[m].at

\* A step that leaves the directory alone.
Quiet(m) ==
    /\ marks[m].pc \in Over => marks'[m].pc \in Over
    /\ marks[m].pc \in Reclaiming => marks'[m].pc \in Reclaiming \cup Over
    /\ marks'[m].pc \in {"read", "lock"} =>
          marks[m].pc \in {"read", "lock"} \/ file[marks[m].key] # None
    /\ marks'[m].pc \in Reclaiming => marks[m].pc \in Reclaiming
    /\ marks'[m].pc # "recheck"
    /\ marks'[m].pc = "rename" =>
          marks[m].pc = "recheck" /\ (~Live(file[marks[m].key]) \/ marks[m].key \in misread')
    /\ Won(m)' => SameWin(m)
    /\ Refused(m)' =>
          \/ Refused(m)
          \/ marks[m].pc \notin Over /\ file[marks[m].key] # None
          \/ marks[m].pc = "lock" /\ marks[m].key \in locks
    /\ \/ misread' = misread
       \/ marks[m].pc = "recheck" /\ misread' = misread \cup {marks[m].key}
    /\ UNCHANGED <<file, locks, pruned>>

Removes(m, key) ==
    /\ marks[m].pc = "prune" /\ marks'[m].pc = "prune"
    /\ marks'[m].answer = marks[m].answer
    /\ file' = [file EXCEPT ![key] = None]
    /\ pruned' = IF file[key] = None THEN pruned ELSE pruned \cup {key}
    /\ UNCHANGED <<locks, misread>>

Puts(m) ==
    /\ \/ marks[m].pc = "link" /\ marks'[m].pc = "done" /\ file[marks[m].key] = None
       \/ marks[m].pc = "rename" /\ marks'[m].pc = "unlock"
    /\ marks'[m].answer = "true" /\ marks'[m].at = clock /\ marks'[m].expiry = marks[m].expiry
    /\ file' = [file EXCEPT ![marks[m].key] = marks[m].expiry]
    /\ UNCHANGED <<locks, pruned, misread>>

Locks(m) ==
    /\ marks[m].pc = "lock" /\ marks'[m].pc = "recheck"
    /\ marks'[m].answer = marks[m].answer
    /\ marks[m].key \notin locks /\ locks' = locks \cup {marks[m].key}
    /\ UNCHANGED <<file, pruned, misread>>

Unlocks(m) ==
    /\ marks[m].pc = "unlock" /\ marks'[m].pc = "done"
    /\ marks'[m].answer = marks[m].answer
    /\ marks'[m].expiry = marks[m].expiry /\ marks'[m].at = marks[m].at
    /\ locks' = locks \ {marks[m].key}
    /\ UNCHANGED <<file, pruned, misread>>

LEMMA Replaced ==
    ASSUME NEW m \in Marks, NEW f \in [Marks -> MarkRecord], NEW y \in MarkRecord, NEW g,
           g = [f EXCEPT ![m] = y]
    PROVE  g \in [Marks -> MarkRecord] /\ g[m] = y /\ \A n \in Marks \ {m} : g[n] = f[n]
OBVIOUS

LEMMA StepKinds ==
    ASSUME StoreTyped, \A m \in Marks : CallMeans(marks[m]), MarkStep, ~Tick
    PROVE  \E m \in Marks :
              /\ CallStep(m)
              /\ \/ Quiet(m) \/ Puts(m) \/ Locks(m) \/ Unlocks(m)
                 \/ \E key \in Keys : Removes(m, key)
<1>. DEFINE x(m) == marks[m]
            Goal(m) == CallStep(m) /\ (\/ Quiet(m) \/ Puts(m) \/ Locks(m) \/ Unlocks(m)
                                       \/ \E key \in Keys : Removes(m, key))
<1>0. marks \in [Marks -> MarkRecord] /\ clock \in Nat
  BY DEF StoreTyped
<1>1. ASSUME NEW m \in Marks, NEW key \in Keys, NEW ttl \in Nat \ {0}, Start(m, key, ttl) PROVE Goal(m)
  <2>0. PICK listed \in SUBSET Keys : marks' = [marks EXCEPT ![m] =
              [@ EXCEPT !.pc = "prune", !.key = key, !.ttl = ttl, !.now = clock, !.unread = listed]]
    <3>1. {k \in Keys \ locks : file[k] # None} \in SUBSET Keys /\ {} \in SUBSET Keys
      OBVIOUS
    <3>. QED
      BY <1>1, <3>1 DEF Start
  <2>. DEFINE y == [x(m) EXCEPT !.pc = "prune", !.key = key, !.ttl = ttl, !.now = clock, !.unread = listed]
  <2>1. y \in MarkRecord
    BY <1>0, ZenonT(60) DEF MarkRecord, Phases
  <2>2. marks' = [marks EXCEPT ![m] = y] /\ clock' = clock
    BY <1>0, <1>1, <2>0 DEF Start
  <2>3. marks'[m] = y /\ marks' \in [Marks -> MarkRecord] /\ \A n \in Marks \ {m} : marks'[n] = marks[n]
    BY <1>0, <2>1, <2>2, Replaced
  <2>4. /\ y.pc = "prune" /\ y.key = key /\ y.now = clock
        /\ y.answer = marks[m].answer /\ marks[m].pc = "new" /\ marks[m].answer = None
        /\ y.now <= clock
    BY <1>0, <1>1 DEF Start, At, MarkRecord, CallMeans, NewMark
  <2>. QED
    BY <1>1, <2>2, <2>3, <2>4, MarkAssumption DEF CallStep, Quiet, CallMeans, Start, Won, Refused, Reclaiming, Over
<1>2. ASSUME NEW m \in Marks, NEW key \in Keys, PruneRead(m, key) PROVE Goal(m)
  <2>0. PICK expired \in {{key}, {}} :
           marks' = [marks EXCEPT ![m].unread = @ \ {key}, ![m].doomed = @ \cup expired]
    BY <1>2 DEF PruneRead
  <2>. DEFINE y == [x(m) EXCEPT !.unread = @ \ {key}, !.doomed = @ \cup expired]
  <2>1. y \in MarkRecord
    <3>1. x(m) \in MarkRecord
      BY <1>0
    <3>2. x(m).unread \ {key} \in SUBSET Keys
      BY <3>1 DEF MarkRecord
    <3>3. y.doomed \in SUBSET Keys
      BY <3>1 DEF MarkRecord
    <3>4. y = [x(m) EXCEPT !.unread = x(m).unread \ {key}, !.doomed = y.doomed]
      BY <3>1 DEF MarkRecord
    <3>. HIDE DEF y
    <3>. QED
      BY <3>1, <3>2, <3>3, <3>4 DEF MarkRecord
  <2>2. marks' = [marks EXCEPT ![m] = y] /\ clock' = clock
    BY <1>0, <1>2, <2>0 DEF PruneRead
  <2>3. marks'[m] = y /\ marks' \in [Marks -> MarkRecord] /\ \A n \in Marks \ {m} : marks'[n] = marks[n]
    BY <1>0, <2>1, <2>2, Replaced
  <2>4. /\ y.key = x(m).key /\ y.ttl = x(m).ttl /\ y.now = x(m).now /\ y.expiry = x(m).expiry /\ y.at = x(m).at
        /\ x(m).pc = "prune" /\ y.pc = "prune" /\ y.answer = x(m).answer
    BY <1>0, <1>2 DEF PruneRead, At, MarkRecord
  <2>. QED
    BY <1>0, <1>2, <2>2, <2>3, <2>4, MarkAssumption DEF CallStep, Quiet, CallMeans, PruneRead, Won, Refused, SameWin, Reclaiming, Over, Live
<1>3. ASSUME NEW m \in Marks, NEW key \in Keys, PruneRemove(m, key) PROVE Goal(m)
  <2>. DEFINE y == [x(m) EXCEPT !.doomed = @ \ {key}]
  <2>1. y \in MarkRecord
    <3>1. x(m) \in MarkRecord
      BY <1>0
    <3>2. x(m).doomed \ {key} \in SUBSET Keys
      BY <3>1 DEF MarkRecord
    <3>. QED
      BY <3>1, <3>2 DEF MarkRecord
  <2>2. marks' = [marks EXCEPT ![m] = y] /\ clock' = clock
    BY <1>0, <1>3 DEF PruneRemove
  <2>3. marks'[m] = y /\ marks' \in [Marks -> MarkRecord] /\ \A n \in Marks \ {m} : marks'[n] = marks[n]
    BY <1>0, <2>1, <2>2, Replaced
  <2>4. /\ y.key = x(m).key /\ y.ttl = x(m).ttl /\ y.now = x(m).now /\ y.expiry = x(m).expiry /\ y.at = x(m).at
        /\ x(m).pc = "prune" /\ y.pc = "prune" /\ y.answer = x(m).answer
    BY <1>0, <1>3 DEF PruneRemove, At, MarkRecord
  <2>5. CallStep(m)
    BY <1>0, <2>2, <2>3, <2>4, MarkAssumption DEF CallStep, CallMeans, Over
  <2>6. CASE UNCHANGED <<file, pruned>>
    <3>1. Quiet(m)
      BY <1>3, <2>3, <2>4, <2>6, MarkAssumption DEF Quiet, PruneRemove, Won, Refused, SameWin, Reclaiming, Over
    <3>. QED
      BY <2>5, <3>1
  <2>7. CASE ~UNCHANGED <<file, pruned>>
    <3>1. Removes(m, key)
      BY <1>3, <2>3, <2>4, <2>7 DEF Removes, PruneRemove
    <3>. QED
      BY <2>5, <3>1
  <2>. QED
    BY <2>6, <2>7
<1>4. ASSUME NEW m \in Marks, Write(m) PROVE Goal(m)
  <2>. DEFINE y == [x(m) EXCEPT !.pc = "link", !.expiry = clock + x(m).ttl]
  <2>0. x(m) \in MarkRecord /\ CallMeans(x(m)) /\ clock \in Nat /\ clock + x(m).ttl \in Nat
    BY <1>0 DEF MarkRecord
  <2>1. y \in MarkRecord
    BY <2>0 DEF MarkRecord, Phases, Over, Reclaiming
  <2>2. marks' = [marks EXCEPT ![m] = y] /\ clock' = clock
    BY <1>0, <1>4 DEF Write, CallMeans
  <2>3. marks'[m] = y /\ marks' \in [Marks -> MarkRecord] /\ \A n \in Marks \ {m} : marks'[n] = marks[n]
    BY <1>0, <2>1, <2>2, Replaced
  <2>4. /\ y.key = x(m).key /\ y.ttl = x(m).ttl /\ y.now = x(m).now
        /\ x(m).pc = "prune" /\ y.pc = "link" /\ y.answer = x(m).answer /\ y.now <= clock
        /\ y.expiry >= y.now + y.ttl
    BY <2>0, <1>4 DEF Write, At, MarkRecord, CallMeans
  <2>. HIDE DEF y
  <2>5. CallStep(m)
    BY <2>0, <2>2, <2>3, <2>4, MarkAssumption DEF CallStep, CallMeans, Over, Reclaiming
  <2>6. Quiet(m)
    BY <1>4, <2>0, <2>3, <2>4, MarkAssumption DEF Quiet, CallMeans, Write, CallMeans, Won, Refused, SameWin, Reclaiming, Over, Live
  <2>. QED
    BY <2>5, <2>6
<1>5. ASSUME NEW m \in Marks, Link(m), file[marks[m].key] # None PROVE Goal(m)
  <2>. DEFINE y == [x(m) EXCEPT !.pc = "read"]
  <2>0. x(m) \in MarkRecord /\ CallMeans(x(m)) /\ clock \in Nat
    BY <1>0
  <2>1. y \in MarkRecord
    BY <2>0 DEF MarkRecord, Phases, Over, Reclaiming
  <2>2. marks' = [marks EXCEPT ![m] = y] /\ clock' = clock
    BY <1>0, <1>5 DEF Link, Goto
  <2>3. marks'[m] = y /\ marks' \in [Marks -> MarkRecord] /\ \A n \in Marks \ {m} : marks'[n] = marks[n]
    BY <1>0, <2>1, <2>2, Replaced
  <2>4. /\ y.key = x(m).key /\ y.ttl = x(m).ttl /\ y.now = x(m).now /\ y.expiry = x(m).expiry /\ y.at = x(m).at
        /\ x(m).pc = "link" /\ y.pc = "read" /\ y.answer = x(m).answer
    BY <2>0, <1>5 DEF Link, At, MarkRecord
  <2>. HIDE DEF y
  <2>5. CallStep(m)
    BY <2>0, <2>2, <2>3, <2>4, MarkAssumption DEF CallStep, CallMeans, Over, Reclaiming
  <2>6. Quiet(m)
    BY <1>5, <2>0, <2>3, <2>4, MarkAssumption DEF Quiet, CallMeans, Link, Goto, Won, Refused, SameWin, Reclaiming, Over, Live
  <2>. QED
    BY <2>5, <2>6
<1>6. ASSUME NEW m \in Marks, Link(m), file[marks[m].key] = None PROVE Goal(m)
  <2>. DEFINE y == [x(m) EXCEPT !.pc = "done", !.answer = "true", !.at = clock]
  <2>0. x(m) \in MarkRecord /\ CallMeans(x(m)) /\ clock \in Nat
    BY <1>0
  <2>1. y \in MarkRecord
    BY <2>0 DEF MarkRecord, Phases, Over, Reclaiming
  <2>2. marks' = [marks EXCEPT ![m] = y] /\ clock' = clock
    BY <1>0, <1>6 DEF Link, Put
  <2>3. marks'[m] = y /\ marks' \in [Marks -> MarkRecord] /\ \A n \in Marks \ {m} : marks'[n] = marks[n]
    BY <1>0, <2>1, <2>2, Replaced
  <2>4. /\ y.key = x(m).key /\ y.ttl = x(m).ttl /\ y.now = x(m).now /\ y.expiry = x(m).expiry /\ y.at = clock
        /\ x(m).pc = "link" /\ y.pc = "done" /\ y.answer = "true"
    BY <2>0, <1>6 DEF Link, At, MarkRecord
  <2>. HIDE DEF y
  <2>5. CallStep(m)
    BY <2>0, <2>2, <2>3, <2>4, MarkAssumption DEF CallStep, CallMeans, Over, Reclaiming
  <2>6. Puts(m)
    BY <1>6, <2>0, <2>3, <2>4, MarkAssumption DEF Puts, CallMeans, Link, Put, Won, Refused, SameWin, Reclaiming, Over, Live
  <2>. QED
    BY <2>5, <2>6
<1>7. ASSUME NEW m \in Marks, Read(m), Live(file[marks[m].key]), Answer(m, "false") PROVE Goal(m)
  <2>. DEFINE y == [x(m) EXCEPT !.pc = "done", !.answer = "false"]
  <2>0. x(m) \in MarkRecord /\ CallMeans(x(m)) /\ clock \in Nat
    BY <1>0
  <2>1. y \in MarkRecord
    BY <2>0 DEF MarkRecord, Phases, Over, Reclaiming
  <2>2. marks' = [marks EXCEPT ![m] = y] /\ clock' = clock
    BY <1>0, <1>7 DEF Read, Answer
  <2>3. marks'[m] = y /\ marks' \in [Marks -> MarkRecord] /\ \A n \in Marks \ {m} : marks'[n] = marks[n]
    BY <1>0, <2>1, <2>2, Replaced
  <2>4. /\ y.key = x(m).key /\ y.ttl = x(m).ttl /\ y.now = x(m).now /\ y.expiry = x(m).expiry /\ y.at = x(m).at
        /\ x(m).pc = "read" /\ y.pc = "done" /\ y.answer = "false"
    BY <2>0, <1>7 DEF Read, At, MarkRecord
  <2>. HIDE DEF y
  <2>5. CallStep(m)
    BY <2>0, <2>2, <2>3, <2>4, MarkAssumption DEF CallStep, CallMeans, Over, Reclaiming
  <2>6. Quiet(m)
    BY <1>7, <2>0, <2>3, <2>4, MarkAssumption DEF Quiet, CallMeans, Read, Answer, Won, Refused, SameWin, Reclaiming, Over, Live
  <2>. QED
    BY <2>5, <2>6
<1>8. ASSUME NEW m \in Marks, Read(m), Goto(m, "lock") PROVE Goal(m)
  <2>. DEFINE y == [x(m) EXCEPT !.pc = "lock"]
  <2>0. x(m) \in MarkRecord /\ CallMeans(x(m)) /\ clock \in Nat
    BY <1>0
  <2>1. y \in MarkRecord
    BY <2>0 DEF MarkRecord, Phases, Over, Reclaiming
  <2>2. marks' = [marks EXCEPT ![m] = y] /\ clock' = clock
    BY <1>0, <1>8 DEF Read, Goto
  <2>3. marks'[m] = y /\ marks' \in [Marks -> MarkRecord] /\ \A n \in Marks \ {m} : marks'[n] = marks[n]
    BY <1>0, <2>1, <2>2, Replaced
  <2>4. /\ y.key = x(m).key /\ y.ttl = x(m).ttl /\ y.now = x(m).now /\ y.expiry = x(m).expiry /\ y.at = x(m).at
        /\ x(m).pc = "read" /\ y.pc = "lock" /\ y.answer = x(m).answer
    BY <2>0, <1>8 DEF Read, At, MarkRecord
  <2>. HIDE DEF y
  <2>5. CallStep(m)
    BY <2>0, <2>2, <2>3, <2>4, MarkAssumption DEF CallStep, CallMeans, Over, Reclaiming
  <2>6. Quiet(m)
    BY <1>8, <2>0, <2>3, <2>4, MarkAssumption DEF Quiet, CallMeans, Read, Goto, Won, Refused, SameWin, Reclaiming, Over, Live
  <2>. QED
    BY <2>5, <2>6
<1>9. ASSUME NEW m \in Marks, Lock(m), marks[m].key \in locks PROVE Goal(m)
  <2>. DEFINE y == [x(m) EXCEPT !.pc = "done", !.answer = "false"]
  <2>0. x(m) \in MarkRecord /\ CallMeans(x(m)) /\ clock \in Nat
    BY <1>0
  <2>1. y \in MarkRecord
    BY <2>0 DEF MarkRecord, Phases, Over, Reclaiming
  <2>2. marks' = [marks EXCEPT ![m] = y] /\ clock' = clock
    BY <1>0, <1>9 DEF Lock, Answer
  <2>3. marks'[m] = y /\ marks' \in [Marks -> MarkRecord] /\ \A n \in Marks \ {m} : marks'[n] = marks[n]
    BY <1>0, <2>1, <2>2, Replaced
  <2>4. /\ y.key = x(m).key /\ y.ttl = x(m).ttl /\ y.now = x(m).now /\ y.expiry = x(m).expiry /\ y.at = x(m).at
        /\ x(m).pc = "lock" /\ y.pc = "done" /\ y.answer = "false"
    BY <2>0, <1>9 DEF Lock, At, MarkRecord
  <2>. HIDE DEF y
  <2>5. CallStep(m)
    BY <2>0, <2>2, <2>3, <2>4, MarkAssumption DEF CallStep, CallMeans, Over, Reclaiming
  <2>6. Quiet(m)
    BY <1>9, <2>0, <2>3, <2>4, MarkAssumption DEF Quiet, CallMeans, Lock, Answer, Won, Refused, SameWin, Reclaiming, Over, Live
  <2>. QED
    BY <2>5, <2>6
<1>10. ASSUME NEW m \in Marks, Lock(m), marks[m].key \notin locks PROVE Goal(m)
  <2>. DEFINE y == [x(m) EXCEPT !.pc = "recheck"]
  <2>0. x(m) \in MarkRecord /\ CallMeans(x(m)) /\ clock \in Nat
    BY <1>0
  <2>1. y \in MarkRecord
    BY <2>0 DEF MarkRecord, Phases, Over, Reclaiming
  <2>2. marks' = [marks EXCEPT ![m] = y] /\ clock' = clock
    BY <1>0, <1>10 DEF Lock, Goto
  <2>3. marks'[m] = y /\ marks' \in [Marks -> MarkRecord] /\ \A n \in Marks \ {m} : marks'[n] = marks[n]
    BY <1>0, <2>1, <2>2, Replaced
  <2>4. /\ y.key = x(m).key /\ y.ttl = x(m).ttl /\ y.now = x(m).now /\ y.expiry = x(m).expiry /\ y.at = x(m).at
        /\ x(m).pc = "lock" /\ y.pc = "recheck" /\ y.answer = x(m).answer
    BY <2>0, <1>10 DEF Lock, At, MarkRecord
  <2>. HIDE DEF y
  <2>5. CallStep(m)
    BY <2>0, <2>2, <2>3, <2>4, MarkAssumption DEF CallStep, CallMeans, Over, Reclaiming
  <2>6. Locks(m)
    BY <1>10, <2>0, <2>3, <2>4, MarkAssumption DEF Locks, CallMeans, Lock, Goto, Won, Refused, SameWin, Reclaiming, Over, Live
  <2>. QED
    BY <2>5, <2>6
<1>11. ASSUME NEW m \in Marks, Recheck(m), Live(file[marks[m].key]), UNCHANGED misread,
              marks' = [marks EXCEPT ![m].pc = "unlock", ![m].answer = "false"]
       PROVE  Goal(m)
  <2>. DEFINE y == [x(m) EXCEPT !.pc = "unlock", !.answer = "false"]
  <2>0. x(m) \in MarkRecord /\ CallMeans(x(m)) /\ clock \in Nat
    BY <1>0
  <2>1. y \in MarkRecord
    BY <2>0 DEF MarkRecord, Phases, Over, Reclaiming
  <2>2. marks' = [marks EXCEPT ![m] = y] /\ clock' = clock
    BY <1>0, <1>11 DEF Recheck
  <2>3. marks'[m] = y /\ marks' \in [Marks -> MarkRecord] /\ \A n \in Marks \ {m} : marks'[n] = marks[n]
    BY <1>0, <2>1, <2>2, Replaced
  <2>4. /\ y.key = x(m).key /\ y.ttl = x(m).ttl /\ y.now = x(m).now /\ y.expiry = x(m).expiry /\ y.at = x(m).at
        /\ x(m).pc = "recheck" /\ y.pc = "unlock" /\ y.answer = "false"
    BY <2>0, <1>11 DEF Recheck, At, MarkRecord
  <2>. HIDE DEF y
  <2>5. CallStep(m)
    BY <2>0, <2>2, <2>3, <2>4, MarkAssumption DEF CallStep, CallMeans, Over, Reclaiming
  <2>6. Quiet(m)
    BY <1>11, <2>0, <2>3, <2>4, MarkAssumption DEF Quiet, CallMeans, Recheck, Won, Refused, SameWin, Reclaiming, Over, Live
  <2>. QED
    BY <2>5, <2>6
<1>12. ASSUME NEW m \in Marks, Recheck(m), Goto(m, "rename"),
              misread' = IF Live(file[marks[m].key]) THEN misread \cup {marks[m].key} ELSE misread
       PROVE  Goal(m)
  <2>. DEFINE y == [x(m) EXCEPT !.pc = "rename"]
  <2>0. x(m) \in MarkRecord /\ CallMeans(x(m)) /\ clock \in Nat
    BY <1>0
  <2>1. y \in MarkRecord
    BY <2>0 DEF MarkRecord, Phases, Over, Reclaiming
  <2>2. marks' = [marks EXCEPT ![m] = y] /\ clock' = clock
    BY <1>0, <1>12 DEF Recheck, Goto
  <2>3. marks'[m] = y /\ marks' \in [Marks -> MarkRecord] /\ \A n \in Marks \ {m} : marks'[n] = marks[n]
    BY <1>0, <2>1, <2>2, Replaced
  <2>4. /\ y.key = x(m).key /\ y.ttl = x(m).ttl /\ y.now = x(m).now /\ y.expiry = x(m).expiry /\ y.at = x(m).at
        /\ x(m).pc = "recheck" /\ y.pc = "rename" /\ y.answer = x(m).answer
    BY <2>0, <1>12 DEF Recheck, At, MarkRecord
  <2>. HIDE DEF y
  <2>5. CallStep(m)
    BY <2>0, <2>2, <2>3, <2>4, MarkAssumption DEF CallStep, CallMeans, Over, Reclaiming
  <2>6. Quiet(m)
    BY <1>12, <2>0, <2>3, <2>4, MarkAssumption DEF Quiet, CallMeans, Recheck, Won, Refused, SameWin, Reclaiming, Over, Live
  <2>. QED
    BY <2>5, <2>6
<1>13. ASSUME NEW m \in Marks, Rename(m) PROVE Goal(m)
  <2>. DEFINE y == [x(m) EXCEPT !.pc = "unlock", !.answer = "true", !.at = clock]
  <2>0. x(m) \in MarkRecord /\ CallMeans(x(m)) /\ clock \in Nat
    BY <1>0
  <2>1. y \in MarkRecord
    BY <2>0 DEF MarkRecord, Phases, Over, Reclaiming
  <2>2. marks' = [marks EXCEPT ![m] = y] /\ clock' = clock
    BY <1>0, <1>13 DEF Rename, Put
  <2>3. marks'[m] = y /\ marks' \in [Marks -> MarkRecord] /\ \A n \in Marks \ {m} : marks'[n] = marks[n]
    BY <1>0, <2>1, <2>2, Replaced
  <2>4. /\ y.key = x(m).key /\ y.ttl = x(m).ttl /\ y.now = x(m).now /\ y.expiry = x(m).expiry /\ y.at = clock
        /\ x(m).pc = "rename" /\ y.pc = "unlock" /\ y.answer = "true"
    BY <2>0, <1>13 DEF Rename, At, MarkRecord
  <2>. HIDE DEF y
  <2>5. CallStep(m)
    BY <2>0, <2>2, <2>3, <2>4, MarkAssumption DEF CallStep, CallMeans, Over, Reclaiming
  <2>6. Puts(m)
    BY <1>13, <2>0, <2>3, <2>4, MarkAssumption DEF Puts, CallMeans, Rename, Put, Won, Refused, SameWin, Reclaiming, Over, Live
  <2>. QED
    BY <2>5, <2>6
<1>14. ASSUME NEW m \in Marks, Unlock(m) PROVE Goal(m)
  <2>. DEFINE y == [x(m) EXCEPT !.pc = "done"]
  <2>0. x(m) \in MarkRecord /\ CallMeans(x(m)) /\ clock \in Nat
    BY <1>0
  <2>1. y \in MarkRecord
    BY <2>0 DEF MarkRecord, Phases, Over, Reclaiming
  <2>2. marks' = [marks EXCEPT ![m] = y] /\ clock' = clock
    BY <1>0, <1>14 DEF Unlock, Goto
  <2>3. marks'[m] = y /\ marks' \in [Marks -> MarkRecord] /\ \A n \in Marks \ {m} : marks'[n] = marks[n]
    BY <1>0, <2>1, <2>2, Replaced
  <2>4. /\ y.key = x(m).key /\ y.ttl = x(m).ttl /\ y.now = x(m).now /\ y.expiry = x(m).expiry /\ y.at = x(m).at
        /\ x(m).pc = "unlock" /\ y.pc = "done" /\ y.answer = x(m).answer
    BY <2>0, <1>14 DEF Unlock, At, MarkRecord
  <2>. HIDE DEF y
  <2>5. CallStep(m)
    BY <2>0, <2>2, <2>3, <2>4, MarkAssumption DEF CallStep, CallMeans, Over, Reclaiming
  <2>6. Unlocks(m)
    BY <1>14, <2>0, <2>3, <2>4, MarkAssumption DEF Unlocks, CallMeans, Unlock, Goto, Won, Refused, SameWin, Reclaiming, Over, Live
  <2>. QED
    BY <2>5, <2>6
<1>15. ASSUME NEW m \in Marks, Fail(m) PROVE Goal(m)
  <2>. DEFINE y == [x(m) EXCEPT !.pc = IF @ = "rename" THEN "unlock" ELSE "done", !.answer = "error"]
  <2>0. x(m) \in MarkRecord /\ CallMeans(x(m)) /\ clock \in Nat
    BY <1>0
  <2>1. y \in MarkRecord
    BY <2>0 DEF MarkRecord, Phases, Over, Reclaiming
  <2>2. marks' = [marks EXCEPT ![m] = y] /\ clock' = clock
    BY <1>0, <1>15 DEF Fail
  <2>3. marks'[m] = y /\ marks' \in [Marks -> MarkRecord] /\ \A n \in Marks \ {m} : marks'[n] = marks[n]
    BY <1>0, <2>1, <2>2, Replaced
  <2>4. /\ y.key = x(m).key /\ y.ttl = x(m).ttl /\ y.now = x(m).now /\ y.expiry = x(m).expiry /\ y.at = x(m).at
        /\ x(m).pc \in {"prune", "link", "lock", "recheck", "rename", "unlock"}
        /\ y.pc = (IF x(m).pc = "rename" THEN "unlock" ELSE "done") /\ y.answer = "error"
    BY <2>0, <1>15 DEF Fail, At, MarkRecord
  <2>. HIDE DEF y
  <2>5. CallStep(m)
    BY <2>0, <2>2, <2>3, <2>4, MarkAssumption DEF CallStep, CallMeans, Over, Reclaiming
  <2>6. Quiet(m)
    BY <1>15, <2>0, <2>3, <2>4, MarkAssumption DEF Quiet, CallMeans, Fail, Won, Refused, SameWin, Reclaiming, Over, Live
  <2>. QED
    BY <2>5, <2>6
<1>16. ASSUME NEW m \in Marks, Crash(m) PROVE Goal(m)
  <2>. DEFINE y == [x(m) EXCEPT !.pc = "crashed"]
  <2>0. x(m) \in MarkRecord /\ CallMeans(x(m)) /\ clock \in Nat
    BY <1>0
  <2>1. y \in MarkRecord
    BY <2>0 DEF MarkRecord, Phases, Over, Reclaiming
  <2>2. marks' = [marks EXCEPT ![m] = y] /\ clock' = clock
    BY <1>0, <1>16 DEF Crash, Goto
  <2>3. marks'[m] = y /\ marks' \in [Marks -> MarkRecord] /\ \A n \in Marks \ {m} : marks'[n] = marks[n]
    BY <1>0, <2>1, <2>2, Replaced
  <2>4. /\ y.key = x(m).key /\ y.ttl = x(m).ttl /\ y.now = x(m).now /\ y.expiry = x(m).expiry /\ y.at = x(m).at
        /\ x(m).pc \notin {"new", "done", "crashed"} /\ y.pc = "crashed" /\ y.answer = x(m).answer
    BY <2>0, <1>16 DEF Crash, At, MarkRecord
  <2>. HIDE DEF y
  <2>5. CallStep(m)
    BY <2>0, <2>2, <2>3, <2>4, MarkAssumption DEF CallStep, CallMeans, Over, Reclaiming
  <2>6. Quiet(m)
    BY <1>16, <2>0, <2>3, <2>4, MarkAssumption DEF Quiet, CallMeans, Crash, Goto, Won, Refused, SameWin, Reclaiming, Over, Live
  <2>. QED
    BY <2>5, <2>6
<1>. HIDE DEF Goal
<1>. QED
  <2>1. PICK m \in Marks : Goal(m)
    BY <1>1, <1>2, <1>3, <1>4, <1>5, <1>6, <1>7, <1>8, <1>9, <1>10, <1>11, <1>12, <1>13, <1>14, <1>15, <1>16
       DEF MarkStep, Read, Recheck
  <2>. QED
    BY <2>1 DEF Goal

-----------------------------------------------------------------------------
(* The invariant of the store is kept by each kind of step. *)

LEMMA TickKeeps ==
    ASSUME StoreInv, Tick \/ UNCHANGED vars
    PROVE  StoreInv'
<1>1. clock' \in Nat /\ clock <= clock' /\ UNCHANGED <<file, locks, marks, pruned, misread>>
  BY DEF Tick, vars, StoreInv, StoreTyped
<1>2. StoreTyped' /\ \A m \in Marks : CallMeans(marks[m])'
  <2>1. \A m \in Marks : marks[m].now \in Nat
    BY DEF StoreInv, StoreTyped, MarkRecord
  <2>. QED
    BY <1>1, <2>1 DEF StoreInv, StoreTyped, CallMeans
<1>3. FilesOwned' /\ LockHeld' /\ WinnersApart' /\ RefusalsMet'
  BY <1>1 DEF StoreInv, FilesOwned, LockHeld, WinnersApart, RefusalsMet, Refused, Won, Lost
<1>4. FileStays' /\ WinnersCovered'
  <2>1. \A m \in Marks : marks[m].expiry \in Nat
    BY DEF StoreInv, StoreTyped, MarkRecord
  <2>2. \A m \in Marks : marks[m].pc = "rename" => marks[m].key \in Keys
    BY DEF StoreInv, CallMeans
  <2>3. FileStays'
    BY <1>1, <2>2 DEF StoreInv, FileStays, StoreTyped, Lost
  <2>. QED
    BY <1>1, <2>1, <2>3 DEF StoreInv, WinnersCovered, StoreTyped, Won, Lost
<1>. QED
  BY <1>2, <1>3, <1>4 DEF StoreInv

LEMMA StoreInvStep ==
    ASSUME StoreInv, MarkStep
    PROVE  StoreInv'
<1>1. CASE Tick
  BY <1>1, TickKeeps
<1>. SUFFICES ASSUME ~Tick PROVE StoreInv'
  BY <1>1
<1>2. StoreTyped /\ \A m \in Marks : CallMeans(marks[m])
  BY DEF StoreInv
<1>3. PICK m \in Marks :
         /\ CallStep(m)
         /\ \/ Quiet(m) \/ Puts(m) \/ Locks(m) \/ Unlocks(m)
            \/ \E key \in Keys : Removes(m, key)
  BY <1>2, StepKinds
<1>4. /\ clock \in Nat /\ locks \subseteq Keys /\ pruned \subseteq Keys /\ misread \subseteq Keys
      /\ file \in [Keys -> Nat \cup {None}]
      /\ \A n \in Marks :
            /\ marks[n].expiry \in Nat /\ marks[n].at \in Nat
            /\ marks[n].pc \in Phases /\ marks[n].key \in Keys \cup {None}
            /\ marks[n].pc # "new" => marks[n].key \in Keys
            /\ marks[n].answer = "true" => marks[n].pc \in Over
  BY <1>2, MarkAssumption DEF StoreTyped, MarkRecord, CallMeans
<1>5. /\ marks[m].pc # "new" => marks[m].key \in Keys /\ marks'[m].key = marks[m].key
      /\ marks[m].expiry \in Nat /\ marks[m].at \in Nat
  BY <1>2, <1>3 DEF CallStep, CallMeans, StoreTyped, MarkRecord
<1>6. /\ \A n \in Marks \ {m} : marks'[n] = marks[n]
      /\ clock' = clock
      /\ marks'[m].key \in Keys
      /\ marks'[m].expiry \in Nat /\ marks'[m].at \in Nat /\ marks'[m].pc \in Phases
      /\ marks'[m].answer = "true" => marks'[m].pc \in Over
      /\ marks[m].pc \notin {"done", "crashed"} /\ marks'[m].pc # "new"
      /\ marks[m].pc = "new" => marks'[m].pc = "prune"
  BY <1>3, MarkAssumption DEF CallStep, CallMeans, MarkRecord
<1>7. StoreTyped'
  <2>1. Puts(m) \/ Locks(m) => marks[m].key \in Keys
    BY <1>5 DEF Puts, Locks
  <2>2. ASSUME Puts(m) PROVE file' \in [Keys -> Nat \cup {None}]
    <3>1. file' = [file EXCEPT ![marks[m].key] = marks[m].expiry]
      BY <2>2 DEF Puts
    <3>. QED
      BY <1>4, <1>5, <3>1
  <2>3. ASSUME NEW key \in Keys, Removes(m, key) PROVE file' \in [Keys -> Nat \cup {None}]
    BY <1>4, <2>3 DEF Removes
  <2>4. file' \in [Keys -> Nat \cup {None}]
    BY <1>3, <1>4, <2>2, <2>3 DEF Quiet, Locks, Unlocks
  <2>5. locks' \subseteq Keys
    BY <1>3, <1>4, <2>1 DEF Quiet, Puts, Locks, Unlocks, Removes
  <2>6. pruned' \subseteq Keys /\ misread' \subseteq Keys
    BY <1>3, <1>4, <1>5 DEF Quiet, Puts, Locks, Unlocks, Removes
  <2>. QED
    BY <1>3, <1>4, <1>6, <2>4, <2>5, <2>6 DEF StoreTyped, CallStep
<1>8. \A n \in Marks : CallMeans(marks[n])'
  BY <1>2, <1>3, <1>6 DEF CallStep, CallMeans
<1>9. FilesOwned'
  <2>1. ASSUME Quiet(m) PROVE FilesOwned'
    <3>1. ASSUME NEW n \in Marks PROVE
             /\ marks[n].pc \in Over => marks'[n].key = marks[n].key /\ marks'[n].pc \in Over
             /\ marks[n].pc \in Reclaiming \cup Over =>
                   marks'[n].key = marks[n].key /\ marks'[n].pc \in Reclaiming \cup Over
      BY <1>5, <1>6, <2>1, <1>3 DEF Quiet, Over, Reclaiming
    <3>. QED
      BY <2>1, <3>1 DEF StoreInv, FilesOwned, Quiet
  <2>2. ASSUME Puts(m) PROVE FilesOwned'
    BY <1>4, <1>5, <1>6, <2>2 DEF StoreInv, Puts, FilesOwned, Over, Reclaiming
  <2>3. ASSUME Locks(m) PROVE FilesOwned'
    BY <1>4, <1>5, <1>6, <2>3 DEF StoreInv, Locks, FilesOwned, Over, Reclaiming
  <2>4. ASSUME Unlocks(m) PROVE FilesOwned'
    BY <1>4, <1>5, <1>6, <2>4 DEF StoreInv, Unlocks, FilesOwned, Over, Reclaiming
  <2>5. ASSUME NEW key \in Keys, Removes(m, key) PROVE FilesOwned'
    BY <1>4, <1>5, <1>6, <2>5 DEF StoreInv, Removes, FilesOwned, Over, Reclaiming
  <2>. QED
    BY <1>3, <2>1, <2>2, <2>3, <2>4, <2>5
<1>10. LockHeld'
  <2>1. ASSUME Quiet(m) PROVE LockHeld'
    BY <1>4, <1>5, <1>6, <2>1 DEF StoreInv, Quiet, LockHeld, Over, Reclaiming
  <2>2. ASSUME Puts(m) PROVE LockHeld'
    BY <1>4, <1>5, <1>6, <2>2 DEF StoreInv, Puts, LockHeld, Over, Reclaiming
  <2>3. ASSUME Locks(m) PROVE LockHeld'
    BY <1>4, <1>5, <1>6, <2>3 DEF StoreInv, Locks, LockHeld, Over, Reclaiming
  <2>4. ASSUME Unlocks(m) PROVE LockHeld'
    BY <1>4, <1>5, <1>6, <2>4 DEF StoreInv, Unlocks, LockHeld, Over, Reclaiming
  <2>5. ASSUME NEW key \in Keys, Removes(m, key) PROVE LockHeld'
    BY <1>4, <1>5, <1>6, <2>5 DEF StoreInv, Removes, LockHeld, Over, Reclaiming
  <2>. QED
    BY <1>3, <2>1, <2>2, <2>3, <2>4, <2>5
<1>11. FileStays'
  <2>1. ASSUME Quiet(m) PROVE FileStays'
    BY <1>4, <1>5, <1>6, <2>1 DEF StoreInv, Quiet, FileStays, LockHeld, Over, Reclaiming, Live, Lost
  <2>2. ASSUME Puts(m) PROVE FileStays'
    <3>1. /\ marks[m].key \in Keys
          /\ file'[marks[m].key] = marks[m].expiry
          /\ \A key \in Keys \ {marks[m].key} : file'[key] = file[key]
      BY <1>4, <1>5, <2>2 DEF Puts
    <3>2. file'[marks[m].key] # None
      BY <1>5, <3>1, MarkAssumption
    <3>. QED
      BY <1>4, <1>5, <1>6, <2>2, <3>1, <3>2 DEF StoreInv, Puts, FileStays, LockHeld, Over, Reclaiming, Live, Lost
  <2>3. ASSUME Locks(m) PROVE FileStays'
    BY <1>4, <1>5, <1>6, <2>3 DEF StoreInv, Locks, FileStays, LockHeld, Over, Reclaiming, Live, Lost
  <2>4. ASSUME Unlocks(m) PROVE FileStays'
    BY <1>4, <1>5, <1>6, <2>4 DEF StoreInv, Unlocks, FileStays, LockHeld, Over, Reclaiming, Live, Lost
  <2>5. ASSUME NEW key \in Keys, Removes(m, key) PROVE FileStays'
    BY <1>4, <1>5, <1>6, <2>5 DEF StoreInv, Removes, FileStays, LockHeld, Over, Reclaiming, Live, Lost
  <2>. QED
    BY <1>3, <2>1, <2>2, <2>3, <2>4, <2>5
<1>15. ASSUME Puts(m), NEW n \in Marks \ {m}, Won(n), marks[n].key = marks[m].key, marks[m].key \notin Lost
       PROVE  marks[n].expiry <= clock
  <2>1. file[marks[m].key] # None /\ (marks[n].expiry <= file[marks[m].key] \/ marks[n].expiry <= clock)
    BY <1>15 DEF StoreInv, WinnersCovered, Lost
  <2>2. marks[m].pc = "rename" /\ marks[m].key \in Keys
    BY <1>5, <1>15, <2>1 DEF Puts
  <2>3. file[marks[m].key] <= clock /\ file[marks[m].key] \in Nat
    BY <1>4, <1>15, <2>1, <2>2 DEF StoreInv, FileStays, Lost
  <2>. QED
    <3>1. marks[n].expiry \in Nat
      BY <1>2 DEF StoreTyped, MarkRecord
    <3>. QED
      BY <1>4, <2>1, <2>3, <3>1
<1>12. WinnersCovered'
  <2>1. ASSUME Quiet(m) PROVE WinnersCovered'
    BY <1>4, <1>5, <1>6, <2>1 DEF StoreInv, Quiet, WinnersCovered, FileStays, Won, SameWin, Over, Lost
  <2>2. ASSUME Puts(m) PROVE WinnersCovered'
    <3>1. /\ marks[m].key \in Keys
          /\ file'[marks[m].key] = marks[m].expiry
          /\ \A key \in Keys \ {marks[m].key} : file'[key] = file[key]
      BY <1>4, <1>5, <2>2 DEF Puts
    <3>2. file'[marks[m].key] # None
      BY <1>5, <3>1, MarkAssumption
    <3>. QED
      BY <1>4, <1>5, <1>6, <1>15, <2>2, <3>1, <3>2 DEF StoreInv, Puts, WinnersCovered, Won, Lost
  <2>3. ASSUME Locks(m) PROVE WinnersCovered'
    BY <1>4, <1>5, <1>6, <2>3 DEF StoreInv, Locks, WinnersCovered, FileStays, Won, SameWin, Over, Lost
  <2>4. ASSUME Unlocks(m) PROVE WinnersCovered'
    BY <1>4, <1>5, <1>6, <2>4 DEF StoreInv, Unlocks, WinnersCovered, FileStays, Won, SameWin, Over, Lost
  <2>5. ASSUME NEW key \in Keys, Removes(m, key) PROVE WinnersCovered'
    BY <1>4, <1>5, <1>6, <2>5 DEF StoreInv, Removes, WinnersCovered, FileStays, Won, SameWin, Over, Lost
  <2>. QED
    BY <1>3, <2>1, <2>2, <2>3, <2>4, <2>5
<1>13. WinnersApart'
  <2>1. ASSUME Quiet(m) PROVE WinnersApart'
    BY <1>4, <1>5, <1>6, <2>1 DEF StoreInv, Quiet, WinnersApart, WinnersCovered, FileStays, Won, SameWin, Over, Lost
  <2>2. ASSUME Puts(m) PROVE WinnersApart'
    <3>. SUFFICES ASSUME NEW a \in Marks, NEW b \in Marks,
                         (a # b /\ Won(a) /\ Won(b) /\ marks[a].key = marks[b].key /\ marks[a].key \notin Lost)'
                  PROVE  (marks[a].expiry <= marks[b].at \/ marks[b].expiry <= marks[a].at)'
      BY DEF WinnersApart, Lost
    <3>. QED
      BY <1>4, <1>5, <1>6, <1>15, <2>2 DEF StoreInv, Puts, WinnersApart, Won, Lost
  <2>3. ASSUME Locks(m) PROVE WinnersApart'
    BY <1>4, <1>5, <1>6, <2>3 DEF StoreInv, Locks, WinnersApart, WinnersCovered, FileStays, Won, SameWin, Over, Lost
  <2>4. ASSUME Unlocks(m) PROVE WinnersApart'
    BY <1>4, <1>5, <1>6, <2>4 DEF StoreInv, Unlocks, WinnersApart, WinnersCovered, FileStays, Won, SameWin, Over, Lost
  <2>5. ASSUME NEW key \in Keys, Removes(m, key) PROVE WinnersApart'
    BY <1>4, <1>5, <1>6, <2>5 DEF StoreInv, Removes, WinnersApart, WinnersCovered, FileStays, Won, SameWin, Over, Lost
  <2>. QED
    BY <1>3, <2>1, <2>2, <2>3, <2>4, <2>5
<1>14. RefusalsMet'
  <2>1. ASSUME Quiet(m) PROVE RefusalsMet'
    <3>1. \A n \in Marks : marks[n].pc # "new" => marks'[n].pc # "new" /\ marks'[n].key = marks[n].key
      BY <1>5, <1>6
    <3>2. ASSUME NEW n \in Marks, Refused(n)'
          PROVE  \E o \in Marks \ {n} : marks[o].pc # "new" /\ marks[o].key = marks[n].key
      <4>1. CASE Refused(n)
        BY <4>1 DEF StoreInv, RefusalsMet
      <4>2. CASE ~Refused(n)
        <5>1. n = m
          BY <1>6, <3>2, <4>2 DEF Refused
        <5>2. \/ marks[m].pc \notin Over /\ file[marks[m].key] # None
              \/ marks[m].pc = "lock" /\ marks[m].key \in locks
          <6>1. Refused(m)' /\ ~Refused(m)
            BY <3>2, <4>2, <5>1 DEF Refused
          <6>. QED
            BY <2>1, <6>1 DEF Quiet
        <5>3. marks[m].pc # "new"
          BY <1>3, <1>6, <3>2, <5>1, MarkAssumption DEF Refused, CallMeans, CallStep, Over
        <5>4. marks[m].key \in Keys
          BY <1>5, <5>3
        <5>5. CASE marks[m].pc \notin Over /\ file[marks[m].key] # None
          BY <5>1, <5>4, <5>5 DEF StoreInv, FilesOwned, Over
        <5>6. CASE marks[m].pc = "lock" /\ marks[m].key \in locks
          BY <5>1, <5>6 DEF StoreInv, FilesOwned, Over, Reclaiming
        <5>. QED
          BY <5>2, <5>5, <5>6
      <4>. QED
        BY <4>1, <4>2
    <3>3. ASSUME NEW n \in Marks, Refused(n)' PROVE marks[n].pc # "new"
      <4>1. CASE n = m
        BY <1>3, <1>6, <3>3, <4>1, MarkAssumption DEF Refused, CallMeans, CallStep, Over
      <4>2. CASE n # m
        BY <1>2, <1>6, <3>3, <4>2, MarkAssumption DEF Refused, CallMeans, Over
      <4>. QED
        BY <4>1, <4>2
    <3>. QED
      BY <3>1, <3>2, <3>3 DEF RefusalsMet
  <2>2. ASSUME Puts(m) PROVE RefusalsMet'
    BY <1>4, <1>5, <1>6, <2>2 DEF StoreInv, Puts, RefusalsMet, FilesOwned, Refused, Over, Reclaiming
  <2>3. ASSUME Locks(m) PROVE RefusalsMet'
    BY <1>4, <1>5, <1>6, <2>3 DEF StoreInv, Locks, RefusalsMet, FilesOwned, Refused, Over, Reclaiming
  <2>4. ASSUME Unlocks(m) PROVE RefusalsMet'
    BY <1>4, <1>5, <1>6, <2>4 DEF StoreInv, Unlocks, RefusalsMet, FilesOwned, Refused, Over, Reclaiming
  <2>5. ASSUME NEW key \in Keys, Removes(m, key) PROVE RefusalsMet'
    BY <1>4, <1>5, <1>6, <2>5 DEF StoreInv, Removes, RefusalsMet, FilesOwned, Refused, Over, Reclaiming
  <2>. QED
    BY <1>3, <2>1, <2>2, <2>3, <2>4, <2>5
<1>. QED
  BY <1>7, <1>8, <1>9, <1>10, <1>11, <1>12, <1>13, <1>14 DEF StoreInv

LEMMA NextIsMarkStep ==
    ASSUME Next
    PROVE  MarkStep
BY MarkAssumption DEF Next, MarkStep

LEMMA StoreInvHolds == Spec => []StoreInv
<1>1. StoreInv /\ [Next]_vars => StoreInv'
  BY StoreInvStep, NextIsMarkStep, TickKeeps
<1>. QED
  BY <1>1, StoreInvInit, PTL DEF Spec

LEMMA ApartDoNotOverlap ==
    ASSUME StoreInv
    PROVE  OverlapOnlyIfLost
<1>. SUFFICES ASSUME NEW m \in Marks, NEW n \in Marks, m # n, Overlap(m, n), marks[m].key \notin Lost
              PROVE  FALSE
  BY DEF OverlapOnlyIfLost
<1>1. marks[m].expiry <= marks[n].at \/ marks[n].expiry <= marks[m].at
  BY DEF StoreInv, WinnersApart, Overlap, Lost
<1>2. \A k \in Marks : marks[k].expiry \in Nat /\ marks[k].at \in Nat
  BY DEF StoreInv, StoreTyped, MarkRecord
<1>. QED
  BY <1>1, <1>2 DEF Overlap

\* OverlapOnlyIfLost: in a directory that any number of processes mark keys in,
\* die in and prune, no key is granted to two of them for overlapping times unless a
\* prune removed its file (markIfFresh).
THEOREM GrantsDoNotOverlap == Spec => []OverlapOnlyIfLost
BY StoreInvHolds, ApartDoNotOverlap, PTL

-----------------------------------------------------------------------------
(* What a verification marks *)

\* Members of a concatenation by position from the joint.
LEMMA Joined ==
    ASSUME NEW S, NEW s \in Seq(S), NEW t \in Seq(S)
    PROVE  /\ s \o t \in Seq(S) /\ Len(s \o t) = Len(s) + Len(t)
           /\ \A i \in 1 .. Len(s) : (s \o t)[i] = s[i]
           /\ \A i \in 1 .. Len(t) : (s \o t)[Len(s) + i] = t[i]
<1>1. Len(s) \in Nat /\ Len(t) \in Nat
  OBVIOUS
<1>2. /\ s \o t \in Seq(S) /\ Len(s \o t) = Len(s) + Len(t)
      /\ \A i \in 1 .. Len(s) + Len(t) : (s \o t)[i] = IF i <= Len(s) THEN s[i] ELSE t[i - Len(s)]
  BY ConcatProperties
<1>3. ASSUME NEW i \in 1 .. Len(t) PROVE (s \o t)[Len(s) + i] = t[i]
  <2>1. Len(s) + i \in 1 .. Len(s) + Len(t) /\ ~(Len(s) + i <= Len(s)) /\ (Len(s) + i) - Len(s) = i
    BY <1>1
  <2>. QED
    BY <1>2, <2>1
<1>. QED
  BY <1>1, <1>2, <1>3

LEMMA Prefix ==
    ASSUME NEW S, NEW s \in Seq(S), NEW n \in 0 .. Len(s)
    PROVE  /\ SubSeq(s, 1, n) \in Seq(S) /\ Len(SubSeq(s, 1, n)) = n
           /\ \A i \in 1 .. n : SubSeq(s, 1, n)[i] = s[i] /\ s[i] \in S
<1>1. Len(s) \in Nat /\ n \in Int /\ \A i \in 1 .. n : s[i] \in S
  OBVIOUS
<1>2. /\ SubSeq(s, 1, n) \in Seq(S)
      /\ Len(SubSeq(s, 1, n)) = IF 1 <= n THEN n - 1 + 1 ELSE 0
      /\ \A i \in 1 .. n - 1 + 1 : SubSeq(s, 1, n)[i] = s[1 + i - 1]
  BY <1>1, SubSeqProperties
<1>3. \A i \in 1 .. n : i \in 1 .. n - 1 + 1 /\ 1 + i - 1 = i
  BY <1>1
<1>. QED
  BY <1>1, <1>2, <1>3

\* The lengths and the members of a plan.
LEMMA PlanMembers ==
    ASSUME NEW r \in Requests
    PROVE  /\ GoodHops(r) \in 0 .. Len(r.hops) /\ Len(r.hops) \in Nat
           /\ Len(Plan(r)) = GoodHops(r) + (IF r.human = None THEN 1 ELSE 2)
           /\ \A i \in 1 .. GoodHops(r) : Plan(r)[i] = r.hops[i] /\ r.hops[i] \in Keys
           /\ Plan(r)[GoodHops(r) + 1] = r.agent
           /\ r.human # None => Plan(r)[GoodHops(r) + 2] = r.human
           /\ r.agent \in Keys \cup {None} /\ r.human \in Keys \cup {None}
<1>1. /\ r.hops \in Seq(Keys) /\ r.badHop \in 0 .. Len(r.hops)
      /\ r.agent \in Keys \cup {None} /\ r.human \in Keys \cup {None}
  BY VerifyConstants
<1>2. GoodHops(r) \in 0 .. Len(r.hops) /\ Len(r.hops) \in Nat
  BY <1>1 DEF GoodHops
<1>. DEFINE good == GoodHops(r)
            hops == SubSeq(r.hops, 1, good)
            own == <<r.agent>>
            rest == IF r.human = None THEN <<>> ELSE <<r.human>>
            All == Keys \cup {None}
<1>3. hops \in Seq(Keys) /\ Len(hops) = good /\ \A i \in 1 .. good : hops[i] = r.hops[i] /\ r.hops[i] \in Keys
  <2>. HIDE DEF good
  <2>1. good \in 0 .. Len(r.hops)
    BY <1>2 DEF good
  <2>. QED
    BY <1>1, <2>1, Prefix
<1>4. /\ own \in Seq(All) /\ Len(own) = 1 /\ own[1] = r.agent
      /\ rest \in Seq(All) /\ Len(rest) = (IF r.human = None THEN 0 ELSE 1)
      /\ r.human # None => rest[1] = r.human
  <2>1. own \in Seq(All) /\ Len(own) = 1 /\ own[1] = r.agent
    BY <1>1
  <2>2. CASE r.human = None
    BY <2>1, <2>2
  <2>3. CASE r.human # None
    <3>1. rest = <<r.human>>
      BY <2>3
    <3>. QED
      BY <1>1, <2>1, <2>3, <3>1
  <2>. QED
    BY <2>2, <2>3
<1>5. hops \in Seq(All) /\ Plan(r) = (hops \o own) \o rest
  <2>1. \A s \in Seq(Keys) : s \in Seq(All)
    OBVIOUS
  <2>2. Plan(r) = hops \o own \o rest
    BY DEF Plan
  <2>. QED
    BY <1>3, <2>1, <2>2
<1>. HIDE DEF hops, own, rest, good, All
<1>6. /\ hops \o own \in Seq(All) /\ Len(hops \o own) = good + 1
      /\ (\A i \in 1 .. good : (hops \o own)[i] = hops[i]) /\ (hops \o own)[good + 1] = r.agent
  <2>1. /\ hops \o own \in Seq(All) /\ Len(hops \o own) = Len(hops) + Len(own)
        /\ \A i \in 1 .. Len(hops) : (hops \o own)[i] = hops[i]
        /\ \A i \in 1 .. Len(own) : (hops \o own)[Len(hops) + i] = own[i]
    <3>1. hops \in Seq(All) /\ own \in Seq(All)
      BY <1>4, <1>5
    <3>. QED
      BY <3>1, Joined
  <2>2. Len(hops) = good /\ Len(own) = 1 /\ 1 \in 1 .. 1
    BY <1>3, <1>4
  <2>. QED
    BY <1>4, <2>1, <2>2
<1>7. /\ Len(Plan(r)) = good + 1 + Len(rest)
      /\ \A i \in 1 .. good : Plan(r)[i] = hops[i]
      /\ Plan(r)[good + 1] = r.agent
      /\ Len(rest) = 1 => Plan(r)[good + 2] = rest[1]
  <2>1. good \in Nat /\ good + 1 + 1 = good + 2
    BY <1>2 DEF good
  <2>2. /\ Len(Plan(r)) = Len(hops \o own) + Len(rest)
        /\ \A i \in 1 .. Len(hops \o own) : Plan(r)[i] = (hops \o own)[i]
        /\ \A i \in 1 .. Len(rest) : Plan(r)[Len(hops \o own) + i] = rest[i]
    <3>1. PICK first : first = hops \o own
      OBVIOUS
    <3>2. first \in Seq(All) /\ rest \in Seq(All)
      BY <1>4, <1>6, <3>1
    <3>3. /\ Len(first \o rest) = Len(first) + Len(rest)
          /\ \A i \in 1 .. Len(first) : (first \o rest)[i] = first[i]
          /\ \A i \in 1 .. Len(rest) : (first \o rest)[Len(first) + i] = rest[i]
      BY <3>2, Joined
    <3>. QED
      BY <1>5, <3>1, <3>3
  <2>3. (\A i \in 1 .. good : i \in 1 .. good + 1) /\ good + 1 \in 1 .. good + 1
    BY <2>1
  <2>4. Len(rest) = 1 => Plan(r)[good + 1 + 1] = rest[1]
    <3>1. 1 \in 1 .. 1
      OBVIOUS
    <3>. QED
      BY <1>6, <2>2, <3>1
  <2>. QED
    BY <1>6, <2>1, <2>2, <2>3, <2>4
<1>. QED
  BY <1>1, <1>2, <1>3, <1>4, <1>7 DEF good, All

\* What no check answers with.
OtherAnswers == {"allow", "nonce_replayed"}

LEMMA PassesCodes ==
    ASSUME NEW r,
           NEW checks, DOMAIN checks \in SUBSET Nat,
           \A i \in DOMAIN checks : checks[i][2] \notin OtherAnswers
    PROVE  Passes(r, checks) \notin OtherAnswers
<1>. DEFINE cascade == [i \in DOMAIN checks |-> <<checks[i][1] \notin r.flaws, checks[i][2]>>]
<1>1. DOMAIN cascade = DOMAIN checks /\ \A i \in DOMAIN checks : cascade[i][2] = checks[i][2]
  OBVIOUS
<1>2. Passes(r, checks) = FirstRefusal(cascade, "ok")
  BY DEF Passes
<1>. HIDE DEF cascade
<1>3. \/ FirstRefusal(cascade, "ok") = "ok"
      \/ \E i \in DOMAIN cascade : FirstRefusal(cascade, "ok") = cascade[i][2]
  BY <1>1, FirstRefusalFirst
<1>. QED
  BY <1>1, <1>2, <1>3 DEF OtherAnswers

LEMMA RefusalCodes ==
    ASSUME NEW r, NEW now
    PROVE  /\ Passes(r, ChecksBeforeDelegation) \notin OtherAnswers
           /\ RefusalAfterDelegation(r, now) \notin OtherAnswers
<1>1. Passes(r, ChecksBeforeDelegation) \notin OtherAnswers
  <2>1. DOMAIN ChecksBeforeDelegation = 1 .. 10
    BY DEF ChecksBeforeDelegation
  <2>2. \A i \in 1 .. 10 : ChecksBeforeDelegation[i][2] \notin OtherAnswers
    BY DEF ChecksBeforeDelegation, OtherAnswers
  <2>. QED
    BY <2>1, <2>2, PassesCodes
<1>2. Passes(r, ChecksOfRequest) \notin OtherAnswers
  <2>1. DOMAIN ChecksOfRequest = 1 .. 6
    BY DEF ChecksOfRequest
  <2>2. \A i \in 1 .. 6 : ChecksOfRequest[i][2] \notin OtherAnswers
    BY DEF ChecksOfRequest, OtherAnswers
  <2>. QED
    BY <2>1, <2>2, PassesCodes
<1>. QED
  BY <1>1, <1>2 DEF RefusalAfterDelegation, OtherAnswers

\* A retention is at least a second, and lasts to the expiry unless the cap is shorter.
LEMMA TtlCovers ==
    ASSUME NEW expiry \in Int, NEW now \in Int
    PROVE  /\ NonceTtl(expiry, now) \in Nat \ {0}
           /\ NonceTtl(expiry, now) <= Cap
           /\ \A e \in Int : e <= expiry /\ e - now <= Cap => now + NonceTtl(expiry, now) >= e
           /\ now < expiry => now + NonceTtl(expiry, now) <= expiry
BY VerifyConstants DEF NonceTtl

-----------------------------------------------------------------------------
(* The verifications *)

IsVerification(x) ==
    x = [phase |-> x.phase, request |-> x.request, now |-> x.now, began |-> x.began,
         burned |-> x.burned, verdict |-> x.verdict, consume |-> x.consume]

\* The checks before and after the chain.
Judged(r) == Passes(r, ChecksBeforeDelegation) = "ok"
Granted(x) == GoodHops(x.request) = Len(x.request.hops) /\ RefusalAfterDelegation(x.request, x.now) = "ok"

\* What a judging verification owes and what an allowed one has.
InOrder(x) ==
    /\ x.phase # "done" => x.verdict = None /\ x.consume = {}
    /\ x.phase = "judging" =>
          /\ x.request.mode = "local" /\ Judged(x.request)
          /\ x.burned < Len(Plan(x.request))
          /\ x.burned >= GoodHops(x.request) => Granted(x)
    /\ x.verdict = "allow" =>
          /\ x.phase = "done" /\ Granted(x)
          /\ IF x.request.mode = "host" THEN x.burned = 0 /\ x.consume = Consume(x)
             ELSE x.burned = Len(Plan(x.request)) /\ x.consume = {}
    /\ x.verdict = "nonce_replayed" => x.phase = "done" /\ x.burned < Len(Plan(x.request))

VerificationMeans(x) ==
    /\ IsVerification(x)
    /\ x.phase = "new" => x = NewVerification
    /\ x.phase # "new" =>
          /\ x.phase \in {"judging", "done", "crashed"}
          /\ x.request \in Requests
          /\ x.began \in Nat /\ x.began <= clock /\ x.now = x.began + x.request.skew
          /\ x.burned \in 0 .. Len(Plan(x.request))
          /\ InOrder(x)

\* What the i-th mark y of a verification x is, once it has started.
MarkMeans(x, i, y) ==
    /\ y.pc # "new" =>
          /\ x.phase # "new" /\ x.request.mode = "local" /\ Judged(x.request)
          /\ i \in 1 .. Len(Plan(x.request)) /\ i <= x.burned + 1
          /\ i > GoodHops(x.request) => Granted(x)
          /\ y.key = Plan(x.request)[i]
          /\ y.ttl = NonceTtl(IF i <= GoodHops(x.request) THEN x.request.credExpiry
                              ELSE x.request.expiry, x.now)
          /\ y.now >= x.began
    /\ x.phase # "new" /\ i <= x.burned => y.pc = "done" /\ y.answer = "true"

\* Somebody else was marking what a verification was told is replayed.
ReplaysMet ==
    \A v \in Verifications : verifications[v].verdict = "nonce_replayed" =>
        /\ Current(v) \in Marks /\ marks[Current(v)].pc # "new"
        /\ \E m \in Marks \ {Current(v)} : marks[m].pc # "new" /\ marks[m].key = marks[Current(v)].key

VInv ==
    /\ StoreInv
    /\ workload \in Workloads
    /\ verifications = [v \in Verifications |-> verifications[v]]
    /\ \A v \in Verifications : VerificationMeans(verifications[v])
    /\ \A m \in Marks : MarkMeans(verifications[m[1]], m[2], marks[m])
    /\ ReplaysMet

LEMMA MarkNames ==
    ASSUME NEW m \in Marks
    PROVE  m[1] \in Verifications /\ m[2] \in Nat \ {0} /\ m = <<m[1], m[2]>>
BY VerifyConstants

\* The marks of a plan are there.
LEMMA PlannedMarks ==
    ASSUME NEW v \in Verifications, NEW r \in Requests, NEW i \in 1 .. Len(Plan(r))
    PROVE  <<v, i>> \in Marks
<1>1. Verifications \X (1 .. Len(r.hops) + 2) \subseteq Marks
  BY VerifyConstants
<1>2. i \in 1 .. Len(r.hops) + 2
  BY PlanMembers
<1>. QED
  BY <1>1, <1>2

\* A planned mark is of a key: the agent's is only marked by a presentation that has one.
LEMMA PlannedKeys ==
    ASSUME NEW x, x.request \in Requests, NEW i \in 1 .. Len(Plan(x.request)),
           i > GoodHops(x.request) => Granted(x)
    PROVE  Plan(x.request)[i] \in Keys
<1>. DEFINE r == x.request
            good == GoodHops(r)
<1>1. good \in Nat /\ Len(Plan(r)) = good + (IF r.human = None THEN 1 ELSE 2)
  BY PlanMembers
<1>2. CASE i <= good
  <2>1. i \in 1 .. GoodHops(r)
    BY <1>1, <1>2
  <2>. QED
    BY <2>1, PlanMembers
<1>3. CASE i > good
  <2>1. r.agent # None
    BY <1>3 DEF Granted, RefusalAfterDelegation
  <2>2. i = good + 1 \/ (i = good + 2 /\ r.human # None)
    BY <1>1, <1>3
  <2>. QED
    BY <2>1, <2>2, PlanMembers
<1>. QED
  BY <1>1, <1>2, <1>3

LEMMA VInvInit == VInit => VInv
<1>. SUFFICES ASSUME VInit PROVE VInv
  OBVIOUS
<1>1. StoreInv /\ \A m \in Marks : marks[m].pc = "new"
  BY StoreInvInit DEF VInit, Init, NewMark
<1>2. \A v \in Verifications : verifications[v] = NewVerification
  BY DEF VInit
<1>3. VerificationMeans(NewVerification) /\ NewVerification.phase = "new" /\ NewVerification.verdict = None
  BY DEF VerificationMeans, IsVerification, NewVerification
<1>4. \A m \in Marks : MarkMeans(verifications[m[1]], m[2], marks[m])
  BY <1>1, <1>2, <1>3, MarkNames DEF MarkMeans
<1>5. ReplaysMet
  BY <1>2, <1>3, VerifyConstants DEF ReplaysMet
<1>. QED
  BY <1>1, <1>2, <1>3, <1>4, <1>5 DEF VInv, VInit

-----------------------------------------------------------------------------
(* The steps of a verification *)

\* The two ends of a verification leave what it was asked alone.
LEMMA Denied ==
    ASSUME NEW x, IsVerification(x), NEW code, NEW y, y = Deny(x, code)
    PROVE  /\ IsVerification(y)
           /\ y.request = x.request /\ y.now = x.now /\ y.began = x.began /\ y.burned = x.burned
           /\ y.phase = "done" /\ y.verdict = code
BY DEF Deny, IsVerification

LEMMA AllowedIs ==
    ASSUME NEW x, IsVerification(x), NEW consume, NEW y, y = Allow(x, consume)
    PROVE  /\ IsVerification(y)
           /\ y.request = x.request /\ y.now = x.now /\ y.began = x.began /\ y.burned = x.burned
           /\ y.phase = "done" /\ y.verdict = "allow" /\ y.consume = consume
BY DEF Allow, IsVerification

\* What a verification goes on to once what it has marked is its own.
LEMMA ResumedMeans ==
    ASSUME NEW x, IsVerification(x), x.phase = "judging", x.request \in Requests,
           Judged(x.request), x.verdict = None, x.consume = {},
           x.burned \in 0 .. Len(Plan(x.request)),
           x.burned > GoodHops(x.request) => Granted(x),
           x.request.mode = "host" => x.burned = 0
    PROVE  /\ IsVerification(Resumed(x))
           /\ Resumed(x).request = x.request /\ Resumed(x).now = x.now
           /\ Resumed(x).began = x.began /\ Resumed(x).burned = x.burned
           /\ Resumed(x).phase \in {"judging", "done"}
           /\ Resumed(x).verdict # "nonce_replayed"
           /\ InOrder(Resumed(x))
<1>. DEFINE r == x.request
            refusal == RefusalAfterDelegation(r, x.now)
            y == Resumed(x)
<1>1. /\ r.mode \in {"local", "host"} /\ r.badCode \notin OtherAnswers
      /\ refusal \notin OtherAnswers
  BY VerifyConstants, RefusalCodes DEF OtherAnswers
<1>2. /\ GoodHops(r) \in 0 .. Len(r.hops) /\ Len(r.hops) \in Nat
      /\ Len(Plan(r)) \in Nat /\ GoodHops(r) < Len(Plan(r))
  BY PlanMembers
<1>3. None \notin OtherAnswers
  BY VerifyConstants DEF OtherAnswers
<1>4. CASE r.mode = "local" /\ x.burned < GoodHops(r)
  <2>1. y = x
    BY <1>4 DEF Resumed
  <2>. QED
    BY <1>1, <1>2, <1>3, <1>4, <2>1 DEF InOrder, OtherAnswers
<1>5. ASSUME NEW code, code \notin OtherAnswers, y = Deny(x, code)
      PROVE  /\ IsVerification(y)
             /\ y.request = x.request /\ y.now = x.now /\ y.began = x.began /\ y.burned = x.burned
             /\ y.phase = "done" /\ y.verdict = code
             /\ InOrder(y)
  <2>1. /\ IsVerification(y)
        /\ y.request = x.request /\ y.now = x.now /\ y.began = x.began /\ y.burned = x.burned
        /\ y.phase = "done" /\ y.verdict = code
    BY <1>5, Denied
  <2>. HIDE DEF y
  <2>. QED
    BY <1>5, <2>1 DEF InOrder, OtherAnswers
<1>6. ASSUME NEW consume, y = Allow(x, consume)
      PROVE  /\ IsVerification(y)
             /\ y.request = x.request /\ y.now = x.now /\ y.began = x.began /\ y.burned = x.burned
             /\ y.phase = "done" /\ y.verdict = "allow" /\ y.consume = consume
  BY <1>6, AllowedIs
<1>7. CASE ~(r.mode = "local" /\ x.burned < GoodHops(r)) /\ GoodHops(r) < Len(r.hops)
  <2>1. y = Deny(x, r.badCode)
    BY <1>7 DEF Resumed
  <2>. QED
    BY <1>1, <1>5, <2>1 DEF OtherAnswers
<1>8. CASE /\ ~(r.mode = "local" /\ x.burned < GoodHops(r)) /\ ~(GoodHops(r) < Len(r.hops))
           /\ refusal # "ok"
  <2>1. y = Deny(x, refusal)
    BY <1>8 DEF Resumed
  <2>. QED
    BY <1>1, <1>5, <2>1 DEF OtherAnswers
<1>9. CASE /\ ~(r.mode = "local" /\ x.burned < GoodHops(r)) /\ ~(GoodHops(r) < Len(r.hops))
           /\ refusal = "ok"
  <2>1. Granted(x)
    BY <1>2, <1>9 DEF Granted
  <2>2. CASE r.mode = "host"
    <3>1. y = Allow(x, Consume(x))
      BY <1>9, <2>2 DEF Resumed
    <3>2. Consume(y) = Consume(x)
      BY <1>6, <3>1, ZenonT(60) DEF Consume
    <3>. QED
      BY <1>6, <2>1, <2>2, <3>1, <3>2 DEF InOrder, Granted
  <2>3. CASE r.mode # "host" /\ x.burned < Len(Plan(r))
    <3>1. y = x
      BY <1>9, <2>3 DEF Resumed
    <3>. QED
      BY <1>1, <1>3, <2>1, <2>3, <3>1 DEF InOrder, OtherAnswers
  <2>4. CASE r.mode # "host" /\ ~(x.burned < Len(Plan(r)))
    <3>1. y = Allow(x, {})
      BY <1>9, <2>4 DEF Resumed
    <3>2. x.burned = Len(Plan(r))
      BY <1>2, <2>4
    <3>. QED
      BY <1>6, <2>1, <2>4, <3>1, <3>2 DEF InOrder, Granted
  <2>. QED
    BY <2>2, <2>3, <2>4
<1>. QED
  BY <1>4, <1>7, <1>8, <1>9

-----------------------------------------------------------------------------
(* What a step of the store is to the verifications. *)

Continues(m) ==
    \/ \E key \in Keys : PruneRead(m, key) \/ PruneRemove(m, key)
    \/ Write(m) \/ Link(m) \/ Read(m)
    \/ Lock(m) \/ Recheck(m) \/ Rename(m) \/ Unlock(m) \/ Fail(m) \/ Crash(m)

\* What has started stays what it is, and an answer stands.
Marked(m) ==
    /\ marks[m].pc # "new" => /\ marks'[m].pc # "new" /\ marks'[m].key = marks[m].key
                              /\ marks'[m].ttl = marks[m].ttl /\ marks'[m].now = marks[m].now
    /\ marks[m].pc = "done" => marks'[m] = marks[m]

LEMMA CallsGoOn ==
    ASSUME StoreInv, MarkStep \/ UNCHANGED vars
    PROVE  clock \in Nat /\ clock' \in Nat /\ clock <= clock' /\ \A m \in Marks : Marked(m)
<1>1. CASE Tick \/ UNCHANGED vars
  BY <1>1 DEF Tick, vars, StoreInv, StoreTyped, Marked
<1>2. CASE MarkStep /\ ~Tick
  <2>1. StoreTyped /\ \A m \in Marks : CallMeans(marks[m])
    BY DEF StoreInv
  <2>2. PICK m \in Marks : CallStep(m)
    BY <1>2, <2>1, StepKinds
  <2>. QED
    BY <2>1, <2>2 DEF CallStep, StoreTyped, Marked
<1>. QED
  BY <1>1, <1>2

\* Only Start starts a mark.
LEMMA NothingStarts ==
    ASSUME StoreTyped, NEW m \in Marks, Continues(m)
    PROVE  MarkStep /\ \A n \in Marks : marks[n].pc = "new" => marks'[n] = marks[n]
<1>1. MarkStep
  BY DEF Continues, MarkStep
<1>2. marks[m].pc # "new"
  BY DEF Continues, PruneRead, PruneRemove, Write, Link, Read, Lock, Recheck, Rename, Unlock, Fail, Crash, At
<1>3. \A n \in Marks \ {m} : marks'[n] = marks[n]
  BY DEF Continues, PruneRead, PruneRemove, Write, Link, Read, Lock, Recheck, Rename, Unlock, Fail, Crash,
     Goto, Answer, StoreTyped
<1>. QED
  BY <1>1, <1>2, <1>3

\* The marks of a verification mean the same while it waits and the store goes on.
LEMMA MarksStand ==
    ASSUME VInv, \A m \in Marks : Marked(m), clock <= clock', clock \in Nat, clock' \in Nat,
           NEW m \in Marks, marks[m].pc = "new" => marks'[m].pc = "new",
           NEW x, x = verifications[m[1]]
    PROVE  MarkMeans(x, m[2], marks'[m])
<1>1. MarkMeans(x, m[2], marks[m]) /\ Marked(m)
  BY DEF VInv
<1>2. marks[m].pc = "done" => marks[m].pc # "new"
  OBVIOUS
<1>. QED
  BY <1>1, <1>2 DEF MarkMeans, Marked

LEMMA ReplaysStand ==
    ASSUME VInv, \A m \in Marks : Marked(m), NEW v \in Verifications,
           verifications[v].verdict = "nonce_replayed", verifications'[v] = verifications[v]
    PROVE  /\ Current(v)' \in Marks /\ marks'[Current(v)'].pc # "new"
           /\ \E m \in Marks \ {Current(v)'} : marks'[m].pc # "new" /\ marks'[m].key = marks'[Current(v)'].key
<1>1. Current(v)' = Current(v)
  BY DEF Current
<1>2. /\ Current(v) \in Marks /\ marks[Current(v)].pc # "new"
      /\ \E m \in Marks \ {Current(v)} : marks[m].pc # "new" /\ marks[m].key = marks[Current(v)].key
  BY DEF VInv, ReplaysMet
<1>. QED
  BY <1>1, <1>2 DEF Marked

LEMMA MeansLater ==
    ASSUME NEW x, VerificationMeans(x), clock <= clock', clock \in Nat, clock' \in Nat
    PROVE  VerificationMeans(x)'
BY DEF VerificationMeans

Met(m) ==
    /\ m \in Marks /\ marks[m].pc # "new"
    /\ \E n \in Marks \ {m} : marks[n].pc # "new" /\ marks[n].key = marks[m].key

\* One verification goes from verifications[v] to y while the store stands still.
LEMMA VerificationSteps ==
    ASSUME VInv, NEW v \in Verifications, NEW y, UNCHANGED <<vars, workload>>,
           verifications' = [verifications EXCEPT ![v] = y],
           VerificationMeans(y),
           \A m \in Marks : m[1] = v => MarkMeans(y, m[2], marks[m]),
           y.verdict = "nonce_replayed" => Met(<<v, y.burned + 1>>)
    PROVE  VInv'
<1>1. UNCHANGED <<file, locks, marks, pruned, misread, clock, workload>> /\ UNCHANGED vars
  BY DEF vars
<1>2. StoreInv'
  BY TickKeeps DEF VInv
<1>3. verifications = [w \in Verifications |-> verifications[w]]
  BY DEF VInv
<1>4. /\ verifications' = [w \in Verifications |-> verifications'[w]]
      /\ verifications'[v] = y /\ \A w \in Verifications \ {v} : verifications'[w] = verifications[w]
  BY <1>3
<1>5. ASSUME NEW w \in Verifications PROVE VerificationMeans(verifications[w])'
  <2>1. PICK x : x = verifications'[w]
    OBVIOUS
  <2>2. VerificationMeans(x)
    BY <1>4, <2>1 DEF VInv
  <2>3. VerificationMeans(x)'
    BY <1>1, <2>2 DEF VerificationMeans
  <2>. QED
    BY <2>1, <2>3 DEF VerificationMeans, IsVerification
<1>6. ASSUME NEW m \in Marks PROVE MarkMeans(verifications[m[1]], m[2], marks[m])'
  <2>1. m[1] \in Verifications
    BY MarkNames
  <2>2. PICK x : x = verifications'[m[1]]
    OBVIOUS
  <2>3. MarkMeans(x, m[2], marks[m])
    BY <1>4, <2>1, <2>2 DEF VInv
  <2>. QED
    BY <1>1, <2>2, <2>3 DEF MarkMeans
<1>7. ReplaysMet'
  <2>. SUFFICES ASSUME NEW w \in Verifications, verifications'[w].verdict = "nonce_replayed"
                PROVE  /\ Current(w)' \in Marks /\ (marks[Current(w)].pc # "new")'
                       /\ \E m \in Marks \ {Current(w)'} :
                             (marks[m].pc # "new" /\ marks[m].key = marks[Current(w)].key)'
    BY DEF ReplaysMet
  <2>1. PICK c : c = Current(w)'
    OBVIOUS
  <2>2. Met(c)
    <3>1. CASE w = v
      BY <1>4, <2>1, <3>1 DEF Current
    <3>2. CASE w # v
      BY <1>4, <2>1, <3>2, ZenonT(60) DEF Current, VInv, ReplaysMet, Met
    <3>. QED
      BY <3>1, <3>2
  <2>. QED
    BY <1>1, <2>1, <2>2 DEF Met, Current
<1>. QED
  BY <1>1, <1>2, <1>4, <1>5, <1>6, <1>7 DEF VInv

LEMMA BeginKeeps ==
    ASSUME VInv, NEW v \in Verifications, NEW r \in Requests, Begin(v, r)
    PROVE  VInv'
<1>. DEFINE x == [verifications[v] EXCEPT !.phase = "judging", !.request = r, !.began = clock,
                                         !.now = clock + r.skew]
            refusal == Passes(r, ChecksBeforeDelegation)
            y == IF refusal # "ok" THEN Deny(x, refusal)
                 ELSE IF Len(r.hops) > MaxHops THEN Deny(x, "delegation_invalid")
                 ELSE Resumed(x)
<1>1. verifications' = [verifications EXCEPT ![v] = y] /\ UNCHANGED <<vars, workload>>
  BY DEF Begin
<1>2. verifications[v] = NewVerification
  BY DEF Begin, VInv, VerificationMeans
<1>3. /\ IsVerification(x) /\ x.phase = "judging" /\ x.request = r /\ x.began = clock
      /\ x.now = clock + r.skew /\ x.burned = 0 /\ x.verdict = None /\ x.consume = {}
  <2>1. PICK z : z = verifications[v]
    OBVIOUS
  <2>2. PICK t : t = clock
    OBVIOUS
  <2>3. PICK n : n = clock + r.skew
    OBVIOUS
  <2>4. x = [z EXCEPT !.phase = "judging", !.request = r, !.began = t, !.now = n]
    BY <2>1, <2>2, <2>3
  <2>5. z = NewVerification
    BY <1>2, <2>1
  <2>. HIDE DEF x
  <2>6. /\ IsVerification(x) /\ x.phase = "judging" /\ x.request = r /\ x.began = t
        /\ x.now = n /\ x.burned = 0 /\ x.verdict = None /\ x.consume = {}
    BY <2>4, <2>5 DEF NewVerification, IsVerification
  <2>. QED
    BY <2>2, <2>3, <2>6
<1>4. clock \in Nat /\ Len(Plan(r)) \in Nat \ {0} /\ GoodHops(r) \in Nat
  BY PlanMembers DEF VInv, StoreInv, StoreTyped
<1>. HIDE DEF x
<1>5. /\ VerificationMeans(y) /\ y.verdict # "nonce_replayed"
      /\ y.phase # "new" /\ y.burned = 0
  <2>1. ASSUME NEW code, code \notin OtherAnswers
        PROVE  /\ VerificationMeans(Deny(x, code)) /\ Deny(x, code).verdict # "nonce_replayed"
               /\ Deny(x, code).phase = "done" /\ Deny(x, code).burned = 0
    <3>1. /\ IsVerification(Deny(x, code))
          /\ Deny(x, code).request = r /\ Deny(x, code).now = clock + r.skew
          /\ Deny(x, code).began = clock /\ Deny(x, code).burned = 0
          /\ Deny(x, code).phase = "done" /\ Deny(x, code).verdict = code
      BY <1>3, Denied
    <3>. QED
      BY <1>4, <2>1, <3>1 DEF VerificationMeans, InOrder, OtherAnswers
  <2>2. CASE refusal # "ok"
    <3>1. y = Deny(x, refusal) /\ refusal \notin OtherAnswers
      BY <2>2, RefusalCodes
    <3>. QED
      BY <2>1, <3>1
  <2>3. CASE refusal = "ok" /\ Len(r.hops) > MaxHops
    <3>1. y = Deny(x, "delegation_invalid") /\ "delegation_invalid" \notin OtherAnswers
      BY <2>3 DEF OtherAnswers
    <3>. QED
      BY <2>1, <3>1
  <2>4. CASE refusal = "ok" /\ ~(Len(r.hops) > MaxHops)
    <3>1. y = Resumed(x)
      BY <2>4
    <3>2. Judged(x.request)
      BY <1>3, <2>4 DEF Judged
    <3>3. x.burned \in 0 .. Len(Plan(x.request)) /\ ~(x.burned > GoodHops(x.request))
      BY <1>3, <1>4
    <3>4. /\ IsVerification(Resumed(x))
          /\ Resumed(x).request = x.request /\ Resumed(x).now = x.now
          /\ Resumed(x).began = x.began /\ Resumed(x).burned = x.burned
          /\ Resumed(x).phase \in {"judging", "done"}
          /\ Resumed(x).verdict # "nonce_replayed"
          /\ InOrder(Resumed(x))
      BY <1>3, <3>2, <3>3, ResumedMeans
    <3>. QED
      BY <1>3, <1>4, <3>1, <3>4 DEF VerificationMeans
  <2>. QED
    BY <2>2, <2>3, <2>4
<1>6. ASSUME NEW m \in Marks, m[1] = v PROVE MarkMeans(y, m[2], marks[m])
  <2>1. MarkMeans(NewVerification, m[2], marks[m])
    BY <1>2, <1>6 DEF VInv
  <2>2. marks[m].pc = "new"
    BY <2>1 DEF MarkMeans, NewVerification
  <2>. HIDE DEF y
  <2>. QED
    BY <1>5, <2>2, MarkNames DEF MarkMeans
<1>. HIDE DEF y
<1>. QED
  BY <1>1, <1>5, <1>6, VerificationSteps

\* A mark means the same to what its verification becomes, if that has as many behind it.
LEMMA MarkMeansOn ==
    ASSUME NEW x, NEW y, NEW i, NEW mark, MarkMeans(x, i, mark), x.phase # "new", y.phase # "new",
           y.request = x.request, y.now = x.now, y.began = x.began,
           x.burned \in Nat, y.burned \in Nat, i \in Nat, x.burned <= y.burned,
           i <= y.burned => i <= x.burned \/ (mark.pc = "done" /\ mark.answer = "true")
    PROVE  MarkMeans(y, i, mark)
BY DEF MarkMeans, Granted

LEMMA ResumeKeeps ==
    ASSUME VInv, NEW v \in Verifications, Resume(v)
    PROVE  VInv'
<1>1. PICK x : x = verifications[v]
  OBVIOUS
<1>2. PICK c : c = Current(v)
  OBVIOUS
<1>. DEFINE r == x.request
            more == [x EXCEPT !.burned = @ + 1]
            y == IF marks[c].answer = "true" THEN Resumed(more)
                 ELSE Deny(x, IF marks[c].answer = "false" THEN "nonce_replayed" ELSE "internal_error")
<1>3. verifications' = [verifications EXCEPT ![v] = y] /\ UNCHANGED <<vars, workload>>
  BY <1>1, <1>2 DEF Resume
<1>4. VerificationMeans(x) /\ x.phase = "judging" /\ marks[c].pc = "done"
  BY <1>1, <1>2 DEF Resume, Judging, At, VInv
<1>5. /\ IsVerification(x) /\ x.request \in Requests /\ x.burned \in Nat
      /\ x.burned + 1 \in 1 .. Len(Plan(r)) /\ Len(Plan(r)) \in Nat /\ GoodHops(r) \in Nat
      /\ r.mode = "local" /\ Judged(r) /\ x.verdict = None /\ x.consume = {}
  BY <1>4, PlanMembers DEF VerificationMeans, InOrder
<1>6. c = <<v, x.burned + 1>> /\ c \in Marks /\ c[1] = v /\ c[2] = x.burned + 1
  BY <1>1, <1>2, <1>5, PlannedMarks DEF Current
<1>7. MarkMeans(x, x.burned + 1, marks[c])
  BY <1>1, <1>6 DEF VInv
<1>. HIDE DEF y
<1>8. ASSUME y.phase # "new", y.request = r, y.now = x.now, y.began = x.began,
             y.burned \in Nat, x.burned <= y.burned,
             y.burned = x.burned \/ (y.burned = x.burned + 1 /\ marks[c].answer = "true"),
             NEW m \in Marks, m[1] = v
      PROVE  MarkMeans(y, m[2], marks[m])
  <2>1. MarkMeans(x, m[2], marks[m]) /\ m[2] \in Nat
    BY <1>1, <1>8, MarkNames DEF VInv
  <2>2. m[2] <= y.burned => m[2] <= x.burned \/ (marks[m].pc = "done" /\ marks[m].answer = "true")
    <3>1. m[2] = x.burned + 1 => m = c
      BY <1>6, <1>8, MarkNames
    <3>. QED
      BY <1>4, <1>5, <1>8, <2>1, <3>1
  <2>. QED
    BY <1>4, <1>5, <1>8, <2>1, <2>2, MarkMeansOn
<1>9. CASE marks[c].answer = "true"
  <2>1. /\ IsVerification(more) /\ more.phase = "judging" /\ more.request = r /\ more.now = x.now
        /\ more.began = x.began /\ more.burned = x.burned + 1
        /\ more.verdict = None /\ more.consume = {}
    BY <1>4, <1>5 DEF IsVerification
  <2>2. y = Resumed(more)
    BY <1>9 DEF y
  <2>. HIDE DEF more
  <2>3. more.burned > GoodHops(r) => Granted(more)
    BY <1>4, <1>7, <2>1 DEF MarkMeans, Granted
  <2>4. more.burned \in 0 .. Len(Plan(r)) /\ r.mode # "host"
    BY <1>5, <2>1
  <2>5. /\ IsVerification(y)
        /\ y.request = r /\ y.now = x.now /\ y.began = x.began /\ y.burned = x.burned + 1
        /\ y.phase \in {"judging", "done"} /\ y.verdict # "nonce_replayed"
        /\ InOrder(y)
    BY <1>5, <2>1, <2>2, <2>3, <2>4, ResumedMeans
  <2>6. VerificationMeans(y)
    BY <1>4, <1>5, <2>4, <2>1, <2>5 DEF VerificationMeans
  <2>7. \A m \in Marks : m[1] = v => MarkMeans(y, m[2], marks[m])
    BY <1>5, <1>8, <1>9, <2>5
  <2>. QED
    BY <1>3, <2>5, <2>6, <2>7, VerificationSteps
<1>10. CASE marks[c].answer # "true"
  <2>1. PICK code : code = IF marks[c].answer = "false" THEN "nonce_replayed" ELSE "internal_error"
    OBVIOUS
  <2>2. y = Deny(x, code)
    BY <1>10, <2>1 DEF y
  <2>3. /\ IsVerification(y)
        /\ y.request = r /\ y.now = x.now /\ y.began = x.began /\ y.burned = x.burned
        /\ y.phase = "done" /\ y.verdict = code
    BY <1>5, <2>2, Denied
  <2>4. VerificationMeans(y)
    BY <1>4, <1>5, <2>1, <2>3 DEF VerificationMeans, InOrder
  <2>5. \A m \in Marks : m[1] = v => MarkMeans(y, m[2], marks[m])
    BY <1>5, <1>8, <2>3
  <2>6. y.verdict = "nonce_replayed" => Met(<<v, y.burned + 1>>)
    BY <1>4, <1>6, <2>1, <2>3 DEF VInv, StoreInv, RefusalsMet, Refused, Met
  <2>. QED
    BY <1>3, <2>4, <2>5, <2>6, VerificationSteps
<1>. QED
  BY <1>9, <1>10

\* A verification that is killed.
Killed(x, y) == x.phase = "judging" /\ y = [x EXCEPT !.phase = "crashed"]

LEMMA KilledMeans ==
    ASSUME NEW x, NEW y, Killed(x, y), VerificationMeans(x)
    PROVE  /\ VerificationMeans(y)
           /\ y.phase = "crashed" /\ y.request = x.request /\ y.now = x.now /\ y.began = x.began
           /\ y.burned = x.burned /\ y.verdict = None
<1>1. /\ IsVerification(y) /\ x.phase # "new" /\ x.verdict = None /\ x.consume = {}
      /\ y.phase = "crashed" /\ y.request = x.request /\ y.now = x.now /\ y.began = x.began
      /\ y.burned = x.burned /\ y.verdict = x.verdict /\ y.consume = x.consume
  BY DEF Killed, VerificationMeans, IsVerification, InOrder
<1>. QED
  BY <1>1, VerifyConstants DEF VerificationMeans, InOrder

\* The store goes on, and at most it starts marks of which MarkMeans, while the
\* verifications wait or are killed.
LEMMA StoreGoesOn ==
    ASSUME VInv, MarkStep \/ UNCHANGED vars, UNCHANGED workload,
           verifications' = [v \in Verifications |-> verifications'[v]],
           \A v \in Verifications :
               verifications'[v] = verifications[v] \/ Killed(verifications[v], verifications'[v]),
           \A m \in Marks : marks[m].pc = "new" =>
               marks'[m].pc = "new" \/ MarkMeans(verifications[m[1]], m[2], marks'[m])
    PROVE  VInv'
<1>1. StoreInv'
  BY StoreInvStep, TickKeeps DEF VInv
<1>2. clock \in Nat /\ clock' \in Nat /\ clock <= clock' /\ \A m \in Marks : Marked(m)
  BY CallsGoOn DEF VInv
<1>3. ASSUME NEW v \in Verifications PROVE VerificationMeans(verifications[v])'
  <2>1. PICK x : x = verifications[v]
    OBVIOUS
  <2>2. PICK y : y = verifications'[v]
    OBVIOUS
  <2>3. VerificationMeans(x)
    BY <2>1 DEF VInv
  <2>4. VerificationMeans(y)
    BY <2>1, <2>2, <2>3, KilledMeans
  <2>5. VerificationMeans(y)'
    BY <1>2, <2>4, MeansLater
  <2>. QED
    BY <2>2, <2>5 DEF VerificationMeans, IsVerification
<1>4. ASSUME NEW m \in Marks PROVE MarkMeans(verifications[m[1]], m[2], marks[m])'
  <2>1. PICK x : x = verifications[m[1]]
    OBVIOUS
  <2>2. PICK y : y = verifications'[m[1]]
    OBVIOUS
  <2>3. PICK mark : mark = marks'[m]
    OBVIOUS
  <2>4. m[1] \in Verifications /\ m[2] \in Nat /\ VerificationMeans(x)
    BY <2>1, MarkNames DEF VInv
  <2>5. MarkMeans(x, m[2], mark)
    <3>1. CASE marks[m].pc = "new" => mark.pc = "new"
      BY <1>2, <2>1, <2>3, <3>1, MarksStand
    <3>2. CASE marks[m].pc = "new" /\ mark.pc # "new"
      BY <2>1, <2>3, <3>2
    <3>. QED
      BY <3>1, <3>2
  <2>6. MarkMeans(y, m[2], mark)
    <3>1. CASE y = x
      BY <2>5, <3>1
    <3>2. CASE Killed(x, y)
      <4>1. /\ y.phase = "crashed" /\ y.request = x.request /\ y.now = x.now /\ y.began = x.began
            /\ y.burned = x.burned
        BY <2>4, <3>2, KilledMeans
      <4>2. x.phase # "new" /\ x.burned \in Nat
        BY <2>4, <3>2, PlanMembers DEF Killed, VerificationMeans
      <4>3. y.phase # "new" /\ x.burned <= y.burned /\ y.burned \in Nat
        BY <4>1, <4>2
      <4>4. m[2] <= y.burned => m[2] <= x.burned
        BY <4>1
      <4>. QED
        BY <2>4, <2>5, <4>1, <4>2, <4>3, <4>4, MarkMeansOn
    <3>. QED
      BY <2>1, <2>2, <2>4, <3>1, <3>2
  <2>. QED
    BY <2>2, <2>3, <2>6 DEF MarkMeans
<1>5. ReplaysMet'
  <2>. SUFFICES ASSUME NEW v \in Verifications, verifications'[v].verdict = "nonce_replayed"
                PROVE  /\ Current(v)' \in Marks /\ marks'[Current(v)'].pc # "new"
                       /\ \E m \in Marks \ {Current(v)'} :
                             marks'[m].pc # "new" /\ marks'[m].key = marks'[Current(v)'].key
    BY DEF ReplaysMet
  <2>1. verifications'[v] = verifications[v]
    <3>1. ASSUME Killed(verifications[v], verifications'[v]) PROVE FALSE
      <4>1. PICK x : x = verifications[v]
        OBVIOUS
      <4>2. PICK y : y = verifications'[v]
        OBVIOUS
      <4>3. y.verdict = None
        BY <3>1, <4>1, <4>2, KilledMeans DEF VInv
      <4>. QED
        BY <4>2, <4>3, VerifyConstants
    <3>. QED
      BY <3>1
  <2>2. verifications[v].verdict = "nonce_replayed"
    BY <2>1
  <2>. QED
    BY <1>2, <2>1, <2>2, ReplaysStand
<1>. QED
  BY <1>1, <1>3, <1>4, <1>5 DEF VInv

LEMMA BurnKeeps ==
    ASSUME VInv, NEW v \in Verifications, Burn(v)
    PROVE  VInv'
<1>1. PICK x : x = verifications[v]
  OBVIOUS
<1>. DEFINE r == x.request
            i == x.burned + 1
            c == <<v, i>>
            key == Plan(r)[i]
            ttl == NonceTtl(IF i <= GoodHops(r) THEN r.credExpiry ELSE r.expiry, x.now)
<1>2. VerificationMeans(x) /\ x.phase = "judging"
  BY <1>1 DEF Burn, Judging, VInv
<1>3. /\ r \in Requests /\ x.burned \in Nat /\ i \in 1 .. Len(Plan(r)) /\ GoodHops(r) \in Nat
      /\ r.mode = "local" /\ Judged(r) /\ (i > GoodHops(r) => Granted(x))
      /\ x.began <= clock
  BY <1>2, PlanMembers DEF VerificationMeans, InOrder
<1>4. key \in Keys /\ c \in Marks
  BY <1>3, PlannedKeys, PlannedMarks
<1>5. ttl \in Nat \ {0}
  <2>1. r.credExpiry \in Int /\ r.expiry \in Int /\ r.skew \in Int
    BY <1>3, VerifyConstants
  <2>2. x.now \in Int
    BY <1>2, <2>1 DEF VerificationMeans
  <2>3. PICK e \in Int : e = IF i <= GoodHops(r) THEN r.credExpiry ELSE r.expiry
    BY <2>1
  <2>. QED
    BY <2>2, <2>3, TtlCovers
<1>6. Start(c, key, ttl) /\ UNCHANGED <<workload, verifications>>
  <2>1. Current(v) = c /\ Current(v)[2] = i
    BY <1>1 DEF Current
  <2>2. TtlOf(v, i) = ttl /\ verifications[v].request = r
    BY <1>1 DEF TtlOf
  <2>. HIDE DEF i, c, ttl
  <2>. QED
    BY <2>1, <2>2 DEF Burn
<1>7. MarkStep
  BY <1>4, <1>5, <1>6 DEF MarkStep
<1>. HIDE DEF key, ttl
<1>8. ASSUME NEW m \in Marks, marks[m].pc = "new"
      PROVE  marks'[m].pc = "new" \/ MarkMeans(verifications[m[1]], m[2], marks'[m])
  <2>0. marks \in [Marks -> MarkRecord] /\ marks[c] \in MarkRecord
    BY <1>4 DEF VInv, StoreInv, StoreTyped
  <2>1. CASE m # c
    BY <1>4, <1>6, <1>8, <2>0, <2>1 DEF Start
  <2>2. CASE m = c
    <3>1. PICK y : y = marks'[c]
      OBVIOUS
    <3>2. y.pc = "prune" /\ y.key = key /\ y.ttl = ttl /\ y.now = clock
      BY <1>4, <1>6, <2>0, <3>1 DEF Start, MarkRecord
    <3>3. ~(i <= x.burned)
      BY <1>3
    <3>4. MarkMeans(x, i, y)
      BY <1>2, <1>3, <3>2, <3>3 DEF MarkMeans, key, ttl
    <3>. QED
      BY <1>1, <2>2, <3>1, <3>4
  <2>. QED
    BY <2>1, <2>2
<1>. QED
  BY <1>6, <1>7, <1>8, StoreGoesOn DEF VInv

LEMMA WaitKeeps ==
    ASSUME VInv, NEW v \in Verifications, StoreStep(v) \/ Kill(v)
    PROVE  VInv'
<1>1. PICK x : x = verifications[v]
  OBVIOUS
<1>2. x.phase = "judging" /\ VerificationMeans(x)
  BY <1>1 DEF StoreStep, Kill, Judging, VInv
<1>3. Current(v) \in Marks
  <2>1. x.request \in Requests /\ x.burned + 1 \in 1 .. Len(Plan(x.request))
    BY <1>2, PlanMembers DEF VerificationMeans, InOrder
  <2>. QED
    BY <1>1, <2>1, PlannedMarks DEF Current
<1>4. UNCHANGED workload /\ (Continues(Current(v)) \/ UNCHANGED vars)
  BY DEF StoreStep, Kill, Continues
<1>5. /\ MarkStep \/ UNCHANGED vars
      /\ \A m \in Marks : marks[m].pc = "new" => marks'[m] = marks[m]
  <2>1. CASE Continues(Current(v))
    BY <1>3, <2>1, NothingStarts DEF VInv, StoreInv
  <2>2. CASE UNCHANGED vars
    BY <2>2 DEF vars
  <2>. QED
    BY <1>4, <2>1, <2>2
<1>6. verifications = [w \in Verifications |-> verifications[w]]
  BY DEF VInv
<1>7. /\ verifications' = [w \in Verifications |-> verifications'[w]]
      /\ \A w \in Verifications :
             verifications'[w] = verifications[w] \/ Killed(verifications[w], verifications'[w])
  <2>1. CASE StoreStep(v)
    BY <1>6, <2>1 DEF StoreStep
  <2>2. CASE Kill(v)
    <3>1. verifications' = [verifications EXCEPT ![v] = [@ EXCEPT !.phase = "crashed"]]
      BY <2>2 DEF Kill
    <3>. QED
      BY <1>1, <1>2, <1>6, <3>1 DEF Killed
  <2>. QED
    BY <2>1, <2>2
<1>8. \A m \in Marks : marks[m].pc = "new" => marks'[m].pc = "new"
  BY <1>5
<1>. QED
  BY <1>4, <1>5, <1>7, <1>8, StoreGoesOn

LEMMA VInvStep == VInv /\ [VNext]_allVars => VInv'
<1>. SUFFICES ASSUME VInv, [VNext]_allVars PROVE VInv'
  OBVIOUS
<1>1. /\ workload \in Workloads /\ DOMAIN workload.asks \subseteq Verifications
      /\ \A v \in DOMAIN workload.asks : workload.asks[v] \subseteq Requests
  BY VerifyConstants DEF VInv, Requests
<1>2. CASE (Tick \/ UNCHANGED vars) /\ UNCHANGED <<workload, verifications>>
  <2>1. MarkStep \/ UNCHANGED vars
    BY <1>2 DEF MarkStep
  <2>2. \A m \in Marks : marks[m].pc = "new" => marks'[m].pc = "new"
    BY <1>2 DEF Tick, vars
  <2>. QED
    BY <1>2, <2>1, <2>2, StoreGoesOn DEF VInv
<1>3. ASSUME NEW v \in Verifications, NEW r \in Requests, Begin(v, r) PROVE VInv'
  BY <1>3, BeginKeeps
<1>4. ASSUME NEW v \in Verifications, Burn(v) \/ StoreStep(v) \/ Resume(v) \/ Kill(v) PROVE VInv'
  BY <1>4, BurnKeeps, WaitKeeps, ResumeKeeps
<1>5. CASE UNCHANGED allVars
  BY <1>2, <1>5 DEF allVars
<1>6. CASE VNext
  BY <1>1, <1>2, <1>3, <1>4, <1>6 DEF VNext
<1>. QED
  BY <1>5, <1>6

LEMMA VInvHolds == VSpec => []VInv
BY VInvInit, VInvStep, PTL DEF VSpec

-----------------------------------------------------------------------------
(* What follows *)

\* OverlapOnlyIfLost, of the verifications' own marks.
THEOREM MarksDoNotOverlap == VSpec => []OverlapOnlyIfLost
<1>1. VInv => OverlapOnlyIfLost
  BY ApartDoNotOverlap DEF VInv
<1>. QED
  BY <1>1, VInvHolds, PTL

\* A local allow has marked every nullifier of its presentation.
LEMMA AllowedMarks ==
    ASSUME VInv, NEW v \in Verifications, Allowed(v, "local"),
           NEW key \in Nullifiers(verifications[v].request)
    PROVE  \E m \in Marks : m[1] = v /\ marks[m].pc # "new" /\ marks[m].key = key /\ Won(m)
<1>1. PICK x : x = verifications[v]
  OBVIOUS
<1>. DEFINE r == x.request
<1>2. VerificationMeans(x) /\ x.verdict = "allow" /\ r.mode = "local"
  BY <1>1 DEF Allowed, VInv
<1>3. x.phase # "new" /\ r \in Requests /\ Granted(x) /\ x.burned = Len(Plan(r))
  BY <1>2, VerifyConstants DEF VerificationMeans, NewVerification, InOrder
<1>4. PICK i \in 1 .. Len(Plan(r)) : Plan(r)[i] = key
  <2>1. r.hops \in Seq(Keys) /\ ToSet(r.hops) = {r.hops[i] : i \in 1 .. Len(r.hops)}
    BY <1>3, VerifyConstants DEF ToSet
  <2>2. key \in {r.hops[i] : i \in 1 .. Len(r.hops)} \/ (key \in {r.agent, r.human} /\ key # None)
    BY <1>1, <2>1 DEF Nullifiers
  <2>3. GoodHops(r) = Len(r.hops) /\ Len(r.hops) \in Nat
    BY <1>3, <2>1 DEF Granted
  <2>4. CASE key \in {r.hops[i] : i \in 1 .. Len(r.hops)}
    <3>1. PICK i \in 1 .. Len(r.hops) : key = r.hops[i]
      BY <2>4
    <3>2. i \in 1 .. GoodHops(r) /\ i \in 1 .. Len(Plan(r))
      BY <1>3, <2>3, PlanMembers
    <3>. QED
      BY <1>3, <3>1, <3>2, PlanMembers
  <2>5. CASE key = r.agent
    <3>1. GoodHops(r) + 1 \in 1 .. Len(Plan(r))
      BY <1>3, <2>3, PlanMembers
    <3>. QED
      BY <1>3, <2>5, <3>1, PlanMembers
  <2>6. CASE key = r.human /\ key # None
    <3>1. GoodHops(r) + 2 \in 1 .. Len(Plan(r))
      BY <1>3, <2>3, <2>6, PlanMembers
    <3>. QED
      BY <1>3, <2>6, <3>1, PlanMembers
  <2>. QED
    BY <2>2, <2>4, <2>5, <2>6
<1>5. <<v, i>> \in Marks
  BY <1>3, PlannedMarks
<1>6. MarkMeans(x, i, marks[<<v, i>>])
  BY <1>1, <1>5 DEF VInv
<1>7. marks[<<v, i>>].pc = "done" /\ marks[<<v, i>>].answer = "true" /\ marks[<<v, i>>].key = key
  BY <1>3, <1>4, <1>6 DEF MarkMeans
<1>. QED
  BY <1>5, <1>7 DEF Won

\* Every started mark of a local allow has won, and holds until the presentation
\* expires when the cap and the caller's clock allow it.
LEMMA AllowedHold ==
    ASSUME VInv, NEW v \in Verifications, Allowed(v, "local"),
           NEW m \in Marks, m[1] = v, marks[m].key \in Keys
    PROVE  /\ Won(m)
           /\ LET x == verifications[v]
              IN  x.now <= x.began /\ x.request.expiry - x.now <= Cap =>
                      marks[m].expiry >= x.request.expiry
<1>1. PICK x : x = verifications[v]
  OBVIOUS
<1>2. PICK y : y = marks[m]
  OBVIOUS
<1>. DEFINE r == x.request
            i == m[2]
            until == IF i <= GoodHops(r) THEN r.credExpiry ELSE r.expiry
<1>3. VerificationMeans(x) /\ x.verdict = "allow" /\ r.mode = "local" /\ MarkMeans(x, i, y)
  BY <1>1, <1>2 DEF Allowed, VInv
<1>4. x.phase # "new" /\ r \in Requests /\ x.burned = Len(Plan(r))
  BY <1>3, VerifyConstants DEF VerificationMeans, NewVerification, InOrder
<1>5. y.pc # "new"
  BY <1>2, MarkAssumption DEF VInv, StoreInv, CallMeans, NewMark
<1>6. i \in 1 .. Len(Plan(r)) /\ y.ttl = NonceTtl(until, x.now) /\ y.now >= x.began
  BY <1>3, <1>5 DEF MarkMeans
<1>7. y.answer = "true"
  BY <1>3, <1>4, <1>6 DEF MarkMeans
<1>8. y.expiry >= y.now + y.ttl /\ y.expiry \in Nat /\ y.now \in Nat /\ y.ttl \in Nat
  BY <1>2, <1>7 DEF VInv, StoreInv, CallMeans, StoreTyped, MarkRecord
<1>9. ASSUME x.now <= x.began, r.expiry - x.now <= Cap PROVE y.expiry >= r.expiry
  <2>1. r.expiry \in Int /\ r.credExpiry \in Int /\ r.skew \in Int /\ r.expiry <= r.credExpiry
    BY <1>4, VerifyConstants
  <2>2. x.began \in Nat /\ x.now \in Int
    BY <1>3, <1>4, <2>1 DEF VerificationMeans
  <2>3. until \in Int /\ r.expiry <= until
    BY <2>1
  <2>4. x.now + NonceTtl(until, x.now) >= r.expiry
    BY <1>9, <2>1, <2>2, <2>3, TtlCovers
  <2>. HIDE DEF until
  <2>. QED
    BY <1>6, <1>8, <1>9, <2>1, <2>2, <2>4, SMTT(60)
<1>. QED
  BY <1>1, <1>2, <1>7, <1>9 DEF Won

LEMMA AllowedApart ==
    ASSUME VInv
    PROVE  AllowedAgainOnlyPastExpiry
<1>. SUFFICES ASSUME NEW v \in Verifications, NEW w \in Verifications, v # w,
                     Allowed(v, "local"), Allowed(w, "local"),
                     NEW key \in (Nullifiers(verifications[v].request)
                                  \cap Nullifiers(verifications[w].request)) \ Lost
              PROVE  LET Precedes(a, b) ==
                             LET x == verifications[a]
                             IN  /\ marks[MarkOf(a, key)].expiry <= marks[MarkOf(b, key)].at
                                 /\ x.now <= x.began /\ x.request.expiry - x.now <= Cap =>
                                       marks[MarkOf(b, key)].at >= x.request.expiry
                     IN  Precedes(v, w) \/ Precedes(w, v)
  BY DEF AllowedAgainOnlyPastExpiry
<1>1. ASSUME NEW u \in {v, w}
      PROVE  /\ MarkOf(u, key) \in Marks /\ MarkOf(u, key)[1] = u /\ marks[MarkOf(u, key)].key = key
             /\ key \in Keys
  <2>1. \E m \in Marks : m[1] = u /\ marks[m].pc # "new" /\ marks[m].key = key
    BY AllowedMarks
  <2>2. \A m \in Marks : marks[m].pc # "new" => marks[m].key \in Keys
    BY DEF VInv, StoreInv, CallMeans
  <2>. QED
    BY <2>1, <2>2 DEF MarkOf
<1>2. PICK m \in Marks : m = MarkOf(v, key)
  BY <1>1
<1>3. PICK n \in Marks : n = MarkOf(w, key)
  BY <1>1
<1>4. m[1] = v /\ n[1] = w /\ m # n /\ marks[m].key = key /\ marks[n].key = key /\ key \in Keys
  BY <1>1, <1>2, <1>3
<1>5. /\ Won(m) /\ (verifications[v].now <= verifications[v].began
                    /\ verifications[v].request.expiry - verifications[v].now <= Cap =>
                       marks[m].expiry >= verifications[v].request.expiry)
      /\ Won(n) /\ (verifications[w].now <= verifications[w].began
                    /\ verifications[w].request.expiry - verifications[w].now <= Cap =>
                       marks[n].expiry >= verifications[w].request.expiry)
  BY <1>4, AllowedHold
<1>6. marks[m].expiry <= marks[n].at \/ marks[n].expiry <= marks[m].at
  BY <1>4, <1>5 DEF VInv, StoreInv, WinnersApart, Lost
<1>7. /\ marks[m].expiry \in Nat /\ marks[n].expiry \in Nat /\ marks[m].at \in Nat /\ marks[n].at \in Nat
      /\ verifications[v].request.expiry \in Int /\ verifications[w].request.expiry \in Int
  <2>1. \A u \in {v, w} : verifications[u].request \in Requests
    BY VerifyConstants DEF VInv, VerificationMeans, Allowed, NewVerification
  <2>. QED
    BY <2>1, VerifyConstants DEF VInv, StoreInv, StoreTyped, MarkRecord
<1>. QED
  BY <1>2, <1>3, <1>5, <1>6, <1>7

\* AllowedAgainOnlyPastExpiry: of two local allows with a nullifier in common that no
\* prune removed, however they overlap, die or fail, one marked it when the other's
\* retention had ended, and that is when the presentation had expired unless the cap is
\* shorter or the caller's clock was ahead (verify, nonceTtl).
THEOREM AllowedOnce == VSpec => []AllowedAgainOnlyPastExpiry
BY AllowedApart, VInvHolds, PTL

LEMMA SpentInOrder ==
    ASSUME VInv
    PROVE  SpentOnlyByVerified
<1>1. ASSUME NEW m \in Marks, marks[m].pc # "new"
      PROVE  LET x == verifications[m[1]]
                 r == x.request
             IN  /\ r.mode = "local" /\ Passes(r, ChecksBeforeDelegation) = "ok"
                 /\ \A i \in 1 .. m[2] - 1 : Won(<<m[1], i>>)
                 /\ r.badHop # 0 => m[2] < r.badHop
                 /\ marks[m].key \in {r.agent, r.human} => RefusalAfterDelegation(r, x.now) = "ok"
  <2>1. PICK x : x = verifications[m[1]]
    OBVIOUS
  <2>. DEFINE r == x.request
              i == m[2]
  <2>2. VerificationMeans(x) /\ MarkMeans(x, i, marks[m]) /\ m[1] \in Verifications
    BY <2>1, MarkNames DEF VInv
  <2>3. /\ r \in Requests /\ r.mode = "local" /\ Judged(r)
        /\ i \in 1 .. Len(Plan(r)) /\ i <= x.burned + 1 /\ (i > GoodHops(r) => Granted(x))
        /\ marks[m].key = Plan(r)[i] /\ x.burned \in Nat /\ x.phase # "new"
    BY <1>1, <2>2, PlanMembers DEF MarkMeans, VerificationMeans
  <2>4. /\ r.badHop \in 0 .. Len(r.hops) /\ Len(r.hops) \in Nat /\ GoodHops(r) \in Nat
        /\ {r.agent, r.human} \cap ToSet(r.hops) = {}
    BY <2>3, VerifyConstants, PlanMembers
  <2>5. ASSUME NEW j \in 1 .. i - 1 PROVE Won(<<m[1], j>>)
    <3>1. j \in 1 .. Len(Plan(r)) /\ j <= x.burned
      BY <2>3
    <3>2. <<m[1], j>> \in Marks
      BY <2>2, <2>3, <3>1, PlannedMarks
    <3>3. MarkMeans(x, j, marks[<<m[1], j>>])
      BY <2>1, <3>2 DEF VInv
    <3>. QED
      BY <2>3, <3>1, <3>3 DEF MarkMeans, Won
  <2>6. r.badHop # 0 => i < r.badHop
    <3>1. CASE i <= GoodHops(r)
      BY <2>3, <2>4, <3>1 DEF GoodHops
    <3>2. CASE i > GoodHops(r)
      BY <2>3, <2>4, <3>2 DEF Granted, GoodHops
    <3>. QED
      BY <2>3, <2>4, <3>1, <3>2
  <2>7. marks[m].key \in {r.agent, r.human} => Granted(x)
    <3>1. CASE i <= GoodHops(r)
      <4>1. i \in 1 .. GoodHops(r) /\ i \in DOMAIN r.hops
        BY <2>3, <2>4, <3>1, PlanMembers, VerifyConstants
      <4>2. marks[m].key = r.hops[i]
        BY <2>3, <4>1, PlanMembers
      <4>. QED
        BY <2>4, <4>1, <4>2 DEF ToSet
    <3>. QED
      BY <2>3, <2>4, <3>1
  <2>. QED
    BY <2>1, <2>3, <2>5, <2>6, <2>7 DEF Judged, Granted
<1>2. ASSUME NEW v \in Verifications, verifications[v].verdict = "nonce_replayed"
      PROVE  \E m \in Marks \ {Current(v)} : /\ m[1] = v => m[2] < Current(v)[2]
                                             /\ marks[m].pc # "new"
                                             /\ marks[m].key = marks[Current(v)].key
  <2>1. PICK m \in Marks \ {Current(v)} : marks[m].pc # "new" /\ marks[m].key = marks[Current(v)].key
    BY <1>2 DEF VInv, ReplaysMet
  <2>2. ASSUME m[1] = v PROVE m[2] < Current(v)[2]
    <3>1. PICK x : x = verifications[v]
      OBVIOUS
    <3>2. VerificationMeans(x) /\ MarkMeans(x, m[2], marks[m]) /\ m = <<v, m[2]>>
      BY <2>2, <3>1, MarkNames DEF VInv
    <3>3. m[2] \in Nat /\ m[2] <= x.burned + 1 /\ x.burned \in Nat
      BY <2>1, <3>2, PlanMembers, MarkNames DEF MarkMeans, VerificationMeans
    <3>4. Current(v) = <<v, x.burned + 1>> /\ Current(v)[2] = x.burned + 1
      BY <3>1 DEF Current
    <3>5. m[2] # x.burned + 1
      BY <3>2, <3>4
    <3>. QED
      BY <3>3, <3>4, <3>5
  <2>. QED
    BY <2>1, <2>2
<1>. QED
  BY <1>1, <1>2 DEF SpentOnlyByVerified

LEMMA AllowedSpends ==
    ASSUME VInv
    PROVE  AllowSpendsAll
<1>. SUFFICES ASSUME NEW v \in Verifications
              PROVE  LET x == verifications[v]
                         own == {m \in Marks : m[1] = v /\ marks[m].pc # "new"}
                     IN  /\ Allowed(v, "local") =>
                               /\ x.consume = {}
                               /\ \A key \in Nullifiers(x.request) :
                                      \E m \in own : marks[m].key = key /\ Won(m)
                         /\ Allowed(v, "host") =>
                               /\ own = {}
                               /\ {c.nonce : c \in x.consume} = Nullifiers(x.request) \ ToSet(x.request.hops)
                               /\ \A c \in x.consume : /\ c.until > x.now /\ c.until <= x.request.expiry
                                                       /\ c.until <= x.now + Cap
  BY DEF AllowSpendsAll
<1>1. PICK x : x = verifications[v]
  OBVIOUS
<1>. DEFINE r == x.request
            own == {m \in Marks : m[1] = v /\ marks[m].pc # "new"}
<1>2. ASSUME Allowed(v, "local")
      PROVE  x.consume = {} /\ \A key \in Nullifiers(r) : \E m \in own : marks[m].key = key /\ Won(m)
  <2>1. x.consume = {}
    BY <1>1, <1>2, VerifyConstants DEF VInv, VerificationMeans, NewVerification, InOrder, Allowed
  <2>. QED
    BY <1>1, <1>2, <2>1, AllowedMarks
<1>3. ASSUME Allowed(v, "host")
      PROVE  /\ own = {}
             /\ {c.nonce : c \in x.consume} = Nullifiers(r) \ ToSet(r.hops)
             /\ \A c \in x.consume : c.until > x.now /\ c.until <= r.expiry /\ c.until <= x.now + Cap
  <2>1. VerificationMeans(x) /\ x.verdict = "allow" /\ r.mode = "host"
    BY <1>1, <1>3 DEF VInv, Allowed
  <2>2. x.phase # "new" /\ r \in Requests /\ Granted(x) /\ x.consume = Consume(x)
    BY <2>1, VerifyConstants DEF VerificationMeans, NewVerification, InOrder
  <2>3. own = {}
    <3>1. ASSUME NEW m \in Marks, m[1] = v PROVE marks[m].pc = "new"
      <4>1. MarkMeans(x, m[2], marks[m])
        BY <1>1, <3>1 DEF VInv
      <4>. QED
        BY <2>1, <4>1 DEF MarkMeans
    <3>. QED
      BY <3>1
  <2>. DEFINE until == x.now + NonceTtl(r.expiry, x.now)
              people == {r.agent, r.human} \ {None}
  <2>4. x.consume = {[nonce |-> n, until |-> until] : n \in people}
    BY <2>2 DEF Consume
  <2>5. until > x.now /\ until <= r.expiry /\ until <= x.now + Cap
    <3>1. r.expiry \in Int /\ r.skew \in Int
      BY <2>2, VerifyConstants
    <3>2. x.now \in Int
      BY <2>1, <2>2, <3>1 DEF VerificationMeans
    <3>3. x.now < r.expiry
      BY <2>2, <3>1, <3>2 DEF Granted, RefusalAfterDelegation
    <3>4. PICK e, n : e = r.expiry /\ n = x.now
      OBVIOUS
    <3>5. e \in Int /\ n \in Int /\ n < e /\ Cap \in Nat
      BY <3>1, <3>2, <3>3, <3>4, VerifyConstants
    <3>6. /\ NonceTtl(e, n) \in Nat \ {0}
          /\ NonceTtl(e, n) <= Cap
          /\ n + NonceTtl(e, n) <= e
      BY <3>5, TtlCovers
    <3>7. n + NonceTtl(e, n) > n /\ n + NonceTtl(e, n) <= e /\ n + NonceTtl(e, n) <= n + Cap
      BY <3>5, <3>6
    <3>. QED
      BY <3>4, <3>7
  <2>. HIDE DEF until
  <2>. HIDE DEF people
  <2>6. {c.nonce : c \in x.consume} = people
    <3>. DEFINE asked == {[nonce |-> n, until |-> until] : n \in people}
    <3>1. \A n \in people : [nonce |-> n, until |-> until] \in asked
      OBVIOUS
    <3>2. \A n : [nonce |-> n, until |-> until].nonce = n
      OBVIOUS
    <3>3. ASSUME NEW n \in people PROVE n \in {c.nonce : c \in asked}
      BY <3>1, <3>2, <3>3
    <3>4. ASSUME NEW c \in asked PROVE c.nonce \in people
      BY <3>2, <3>4
    <3>5. {c.nonce : c \in asked} = people
      BY <3>3, <3>4
    <3>. QED
      BY <2>4, <3>5
  <2>7. people = Nullifiers(r) \ ToSet(r.hops)
    <3>1. {r.agent, r.human} \cap ToSet(r.hops) = {}
      BY <2>2, VerifyConstants
    <3>. QED
      BY <3>1 DEF Nullifiers, people
  <2>. QED
    BY <2>3, <2>4, <2>5, <2>6, <2>7
<1>. QED
  BY <1>1, <1>2, <1>3

\* NullifiersAccounted: whatever interleavings, failures and kills, nullifiers are
\* marked in order and only by verifications that passed the checks before them; an
\* allow has spent, or told its host to keep, every nullifier of the presentation, and
\* a replay is only told when the same nullifier was being marked elsewhere.
THEOREM NullifiersSpentInOrder == VSpec => []NullifiersAccounted
<1>1. VInv => NullifiersAccounted
  BY SpentInOrder, AllowedSpends DEF NullifiersAccounted
<1>. QED
  BY <1>1, VInvHolds, PTL
=============================================================================
