-------------------------- MODULE MCVerifyCommand --------------------------
EXTENDS VerifyCommand

CONSTANTS v1, v2, v3, agent, human, hop

MCMarks == Verifications \X (1 .. 3)
Plain == [mode |-> "local", flaws |-> {}, hops |-> <<>>, badHop |-> 0, badCode |-> "ok",
          agent |-> agent, human |-> None, expiry |-> 1, credExpiry |-> 2, skew |-> 0]
Backed == [Plain EXCEPT !.human = human, !.hops = <<hop>>, !.expiry = 2]

\* Three processes with one presentation, two with presentations that expire at
\* different times, and two with one of all three kinds of nullifiers, flawed or
\* not.
MCWorkloads ==
    {[asks |-> [v \in {v1, v2, v3} |-> {Plain}]],
     [asks |-> [v \in {v1, v2} |->
         {Plain, [Plain EXCEPT !.expiry = 2, !.skew = -1], [Plain EXCEPT !.skew = 1, !.expiry = 2],
          [Plain EXCEPT !.flaws = {"root"}]}]],
     [asks |-> [v \in {v1, v2} |->
         {Backed, [Backed EXCEPT !.mode = "host"], [Backed EXCEPT !.flaws = {"scope"}],
          [Backed EXCEPT !.badHop = 1, !.badCode = "untrusted_root"]}]]}

\* The view leaves out what no later step and no property reads: the clock of a prune
\* that is over, the times of a mark that did not win or whose key is lost, and when
\* a verification began that was not allowed.
SeenMark(x) ==
    IF x.pc = "prune" THEN x
    ELSE IF x.pc \notin {"done", "crashed"} THEN [x EXCEPT !.now = 0, !.ttl = 0]
    ELSE LET apart == x.answer = "true" /\ x.key \notin Lost
         IN  [NewMark EXCEPT !.pc = x.pc, !.key = x.key, !.answer = x.answer,
                 !.at = IF apart THEN x.at ELSE 0, !.expiry = IF apart THEN x.expiry ELSE 0]
SeenVerification(x) ==
    IF x.phase = "crashed" \/ (x.phase = "done" /\ x.verdict # "allow")
    THEN [x EXCEPT !.began = 0] ELSE x
View == <<file, locks, Lost, clock, workload, [m \in Marks |-> SeenMark(marks[m])],
          [v \in Verifications |-> SeenVerification(verifications[v])]>>
VerificationSymmetry == Permutations({v1, v2})
=============================================================================
