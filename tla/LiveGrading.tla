---------------------------- MODULE LiveGrading -----------------------------
(***************************************************************************)
(* What grading a test case promises, cache or no cache: a grade that      *)
(* comes to a score has compared the candidate, frame by frame, with what  *)
(* the reference shows for the inputs the grade started from.              *)
(***************************************************************************)
EXTENDS Naturals

CONSTANTS
    Process,
    Inputs       \* what a grade works on: [shows, frames]

VARIABLES
    job,         \* for each process, the set of the inputs it works on: one or none
    verdict      \* and what its last grade came to

Unscored(is) == [is |-> is, ref |-> <<>>]
Unscoreds == {Unscored(is) : is \in {"none", "failed", "skipped"}}
Live(in) == [is |-> "scored", ref |-> [n \in 1 .. in.frames |-> <<in.shows, n>>]]

Init == job = [p \in Process |-> {}] /\ verdict = [p \in Process |-> Unscored("none")]

Start(p) ==
    /\ job[p] = {}
    /\ \E in \in Inputs : job' = [job EXCEPT ![p] = {in}]
    /\ UNCHANGED verdict

\* A grade begins, or ends, without inputs to work on.
Unready(p) ==
    /\ job[p] = {}
    /\ \E v \in Unscoreds : verdict' = [verdict EXCEPT ![p] = v]
    /\ UNCHANGED job

End(p) ==
    /\ \E in \in job[p] :
          \E v \in {Live(in)} \cup Unscoreds : verdict' = [verdict EXCEPT ![p] = v]
    /\ job' = [job EXCEPT ![p] = {}]

Next == \E p \in Process : Start(p) \/ Unready(p) \/ End(p)

Spec == Init /\ [][Next]_<<job, verdict>>
=============================================================================
