----------------------------- MODULE MCRefCache -----------------------------
(***************************************************************************)
(* Graders over one corpus whose replay changes while they run; a recording *)
(* of an earlier version, which is shorter, or of another reference, cut    *)
(* off anywhere, may be there at the start.  In MCRetimed only the number  *)
(* of frames of the test case changes.                                     *)
(***************************************************************************)
EXTENDS RefCache

MCCorpus == {[rom |-> 1, replay |-> r, frames |-> 2] : r \in {1, 2}}
MCRetimed == {[rom |-> 1, replay |-> 1, frames |-> n] : n \in {1, 2}}

MCOld(v, w, n) ==
    LET run == [ref_wasm |-> w, rom |-> 1, replay |-> 1]
    IN  [version |-> v, key |-> run, frames |-> n, shows |-> run]
MCOldCache == {MCOld(6, 1, 1), MCOld(7, 2, 2)}
=============================================================================
