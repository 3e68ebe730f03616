--------------------------- MODULE FileNonceStore ---------------------------
(***************************************************************************)
(* The durable replay store of `bolyra verify`                             *)
(* (integrations/cli/src/verify/nonce-store.ts): a directory shared by all *)
(* verifier processes, with one file per nonce key that holds its expiry.  *)
(* A call of markIfFresh is a sequence of file-system operations; each is  *)
(* atomic, and those of other calls and a kill of the process may come     *)
(* between any two of them.                                                *)
(***************************************************************************)
EXTENDS Integers, FiniteSets

CONSTANTS
    Marks,     \* calls of markIfFresh, each in whatever process
    Keys,      \* nonce keys
    TTLs,      \* seconds a call may ask for
    MaxTime,   \* bound: clock values explored
    None       \* no such file; no answer yet

ASSUME MarkAssumption ==
    /\ TTLs \subseteq Nat \ {0} /\ MaxTime \in Nat
    /\ None \notin Nat \cup Keys \cup {"true", "false", "error"}

VARIABLES
    file,      \* [Keys -> expiry or None], the key files
    locks,     \* the keys with a .lock file
    marks,     \* the state of each call
    pruned,    \* the keys whose file some prune removed
    misread,   \* the keys whose live entry a recheck could not read
    clock      \* Date.now()

vars == <<file, locks, marks, pruned, misread, clock>>

NewMark == [pc |-> "new", key |-> None, ttl |-> 0, now |-> 0, unread |-> {}, doomed |-> {},
            expiry |-> 0, answer |-> None, at |-> 0]

Init ==
    /\ file = [key \in Keys |-> None]
    /\ locks = {}
    /\ marks = [m \in Marks |-> NewMark]
    /\ pruned = {}
    /\ misread = {}
    /\ clock = 0

Live(expiry) == expiry # None /\ expiry > clock

At(m, pc) == marks[m].pc = pc
Goto(m, pc) == marks' = [marks EXCEPT ![m].pc = pc]
Answer(m, answer) == marks' = [marks EXCEPT ![m].pc = "done", ![m].answer = answer]

-----------------------------------------------------------------------------
(***************************************************************************)
(* pruneExpired: list the directory, take the time, and then read each     *)
(* key file that was not locked and remove it when it has expired.  What   *)
(* cannot be listed, read or removed is left.                              *)
(***************************************************************************)
Start(m, key, ttl) ==
    /\ At(m, "new")
    /\ \E listed \in {{k \in Keys \ locks : file[k] # None}, {}} :
          marks' = [marks EXCEPT ![m] =
              [@ EXCEPT !.pc = "prune", !.key = key, !.ttl = ttl, !.now = clock, !.unread = listed]]
    /\ UNCHANGED <<file, locks, pruned, misread, clock>>

PruneRead(m, key) ==
    /\ At(m, "prune") /\ key \in marks[m].unread
    /\ \E expired \in {{key}, {}} :
          /\ expired # {} => file[key] # None /\ file[key] <= marks[m].now
          /\ marks' = [marks EXCEPT ![m].unread = @ \ {key}, ![m].doomed = @ \cup expired]
    /\ UNCHANGED <<file, locks, pruned, misread, clock>>

PruneRemove(m, key) ==
    /\ At(m, "prune") /\ key \in marks[m].doomed
    /\ \/ /\ file' = [file EXCEPT ![key] = None]
          /\ pruned' = IF file[key] = None THEN pruned ELSE pruned \cup {key}
       \/ UNCHANGED <<file, pruned>>
    /\ marks' = [marks EXCEPT ![m].doomed = @ \ {key}]
    /\ UNCHANGED <<locks, misread, clock>>

-----------------------------------------------------------------------------
(* The entry, complete in a temporary file, and its exclusive creation *)

Write(m) ==
    /\ At(m, "prune") /\ marks[m].unread = {} /\ marks[m].doomed = {}
    /\ marks' = [marks EXCEPT ![m].pc = "link", ![m].expiry = clock + marks[m].ttl]
    /\ UNCHANGED <<file, locks, pruned, misread, clock>>

Put(m) == file' = [file EXCEPT ![marks[m].key] = marks[m].expiry]

Link(m) ==
    /\ At(m, "link")
    /\ IF file[marks[m].key] # None THEN Goto(m, "read") /\ UNCHANGED file
       ELSE Put(m) /\ marks' = [marks EXCEPT ![m].pc = "done", ![m].answer = "true", ![m].at = clock]
    /\ UNCHANGED <<locks, pruned, misread, clock>>

\* The file exists: a replay when it is live, else an entry to reclaim.  An entry
\* that cannot be read, for whatever reason, is taken for one to reclaim.
Read(m) ==
    /\ At(m, "read")
    /\ \/ Live(file[marks[m].key]) /\ Answer(m, "false")
       \/ Goto(m, "lock")
    /\ UNCHANGED <<file, locks, pruned, misread, clock>>

-----------------------------------------------------------------------------
(* Reclaiming an expired entry under its lock file *)

Lock(m) ==
    /\ At(m, "lock")
    /\ IF marks[m].key \in locks THEN Answer(m, "false") /\ UNCHANGED locks
       ELSE Goto(m, "recheck") /\ locks' = locks \cup {marks[m].key}
    /\ UNCHANGED <<file, pruned, misread, clock>>

RecheckNothing(m) == At(m, "recheck") /\ Goto(m, "rename") /\ UNCHANGED <<file, locks, pruned, misread, clock>>

Recheck(m) ==
    LET live == Live(file[marks[m].key])
    IN  /\ At(m, "recheck")
        /\ \/ /\ live
              /\ marks' = [marks EXCEPT ![m].pc = "unlock", ![m].answer = "false"]
              /\ UNCHANGED misread
           \/ /\ Goto(m, "rename")                \* expired, gone, or not readable
              /\ misread' = IF live THEN misread \cup {marks[m].key} ELSE misread
        /\ UNCHANGED <<file, locks, pruned, clock>>

Rename(m) ==
    /\ At(m, "rename")
    /\ Put(m)
    /\ marks' = [marks EXCEPT ![m].pc = "unlock", ![m].answer = "true", ![m].at = clock]
    /\ UNCHANGED <<locks, pruned, misread, clock>>

Unlock(m) ==
    /\ At(m, "unlock")
    /\ locks' = locks \ {marks[m].key}
    /\ Goto(m, "done")
    /\ UNCHANGED <<file, pruned, misread, clock>>

\* An operation fails and the call throws (a read that fails does not, see Read and
\* Recheck).  A failed rename releases the lock first; when removing the lock file
\* fails, or closing it once it is made, it stays.
Fail(m) ==
    /\ marks[m].pc \in {"prune", "link", "lock", "recheck", "rename", "unlock"}
    /\ At(m, "prune") => marks[m].unread = {} /\ marks[m].doomed = {}
    /\ marks' = [marks EXCEPT ![m].pc = IF @ = "rename" THEN "unlock" ELSE "done",
                              ![m].answer = "error"]
    /\ UNCHANGED <<file, locks, pruned, misread, clock>>

\* The process is killed; what it wrote stays.
Crash(m) ==
    /\ marks[m].pc \notin {"new", "done", "crashed"}
    /\ Goto(m, "crashed")
    /\ UNCHANGED <<file, locks, pruned, misread, clock>>

Tick == clock < MaxTime /\ clock' = clock + 1 /\ UNCHANGED <<file, locks, marks, pruned, misread>>

-----------------------------------------------------------------------------
Next ==
    \/ Tick
    \/ \E m \in Marks :
          \/ \E key \in Keys, ttl \in TTLs : Start(m, key, ttl)
          \/ \E key \in Keys : PruneRead(m, key) \/ PruneRemove(m, key)
          \/ Write(m) \/ Link(m) \/ Read(m)
          \/ Lock(m) \/ Recheck(m) \/ Rename(m) \/ Unlock(m)
          \/ Fail(m) \/ Crash(m)

Spec == Init /\ [][Next]_vars

-----------------------------------------------------------------------------
(* Properties *)

\* A call that put its entry in place, whether or not it lived to say so.
Won(m) == marks[m].answer = "true"

Overlap(m, n) ==
    /\ Won(m) /\ Won(n) /\ marks[m].key = marks[n].key
    /\ marks[m].at < marks[n].expiry /\ marks[n].at < marks[m].expiry

\* The keys of a mark that may be lost before it lapses: a prune removed the file it
\* had read as expired, whatever was in it by then, or a recheck replaced the live
\* entry it could not read.
Lost == pruned \cup misread

\* The link, the lock and the recheck under it let nobody win a key that somebody
\* else has won and still holds, unless a prune removed the key's file or a recheck
\* could not read its live entry.
OverlapOnlyIfLost ==
    \A m, n \in Marks : m # n /\ Overlap(m, n) => marks[m].key \in Lost

\* "Many simultaneous marks of the same fresh key yield exactly one true" (line
\* 63), and pruning "is an optimization, not a correctness requirement" (line
\* 170): with every recheck able to read, no two calls win the same key for
\* overlapping times.
OneTruePerRetention ==
    \A m, n \in Marks : m # n /\ Overlap(m, n) => marks[m].key \in misread
=============================================================================
