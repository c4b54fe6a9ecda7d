----------------------------- MODULE MCConsole -----------------------------
(***************************************************************************)
(* An instance of Console for TLC.  A frame of three lines, two of them    *)
(* visible, lines of two cycles drawn and one of blanking, and             *)
(* instructions of one or three cycles: batches end before, at and after   *)
(* either event of a line, and may take a whole one.  Interrupts are those *)
(* of the PPU; a store of nothing to a byte of IF acknowledges the others. *)
(***************************************************************************)
EXTENDS Console

MCDispstatWrites == {[en |-> {"VBlank", "VCount"}, lyc |-> 2]}
MCIeWrites == {{}, {"VBlank"}}
MCIfWrites == {{}, {"VBlank", "VCount"}}
MCRaises == {{}}
=============================================================================
