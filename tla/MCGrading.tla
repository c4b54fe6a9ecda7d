----------------------------- MODULE MCGrading ------------------------------
(***************************************************************************)
(* The two halves of grading a test case in one run: a behaviour is about  *)
(* the cache file and the processes that share it, or about one comparison *)
(* from the recording to the score.  What links them, that a recording     *)
(* plays like the reference it was made from, is CachedPlaysLikeLive.      *)
(*                                                                         *)
(* Replays with no event, a late one, several in one frame and one after   *)
(* the last frame.  A call of the reference ends badly at most once, a     *)
(* call of the candidate whenever it likes.                                *)
(***************************************************************************)
EXTENDS MCRefCache, Lockstep, TLC

VARIABLE half

MCSymmetry == Permutations(Process)
MCReplays ==
    {<<>>, <<<<1, 1>>>>, <<<<0, 1>>, <<1, 2>>, <<1, 0>>>>, <<<<0, 2>>, <<2, 1>>, <<9, 0>>>>}
MCOutcome == [whole : BOOLEAN, left : BOOLEAN]
MCRefOutcomes ==
    {[n \in 1 .. RefBoot + Frames |-> IF n = bad THEN o ELSE [whole |-> TRUE, left |-> TRUE]] :
        bad \in 1 .. RefBoot + Frames, o \in MCOutcome}

\* The half a behaviour is not about has one initial state.
MCInit ==
    /\ half \in {"cache", "lockstep"}
    /\ Init /\ LockstepInit
    /\ half = "cache" =>
         replay = <<>> /\ outcomes = [n \in 1 .. RefBoot + Frames |-> [whole |-> TRUE, left |-> TRUE]]
    /\ half = "lockstep" =>
         /\ corpus = CHOOSE c \in Corpus : TRUE
         /\ file = Blank

MCNext ==
    /\ UNCHANGED half
    /\ \/ half = "cache" /\ Next /\ UNCHANGED lockstepVars
       \/ half = "lockstep" /\ LockstepNext /\ UNCHANGED vars

MCSpec == MCInit /\ [][MCNext]_<<half, vars, lockstepVars>>
=============================================================================
