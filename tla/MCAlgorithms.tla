---------------------------- MODULE MCAlgorithms ----------------------------
(***************************************************************************)
(* Five parts that share nothing, checked side by side: a behaviour runs   *)
(* one of them and leaves the others where they start.                     *)
(***************************************************************************)
EXTENDS Timers, CpuModes, Thumb, Compositor, AffineBg

VARIABLE unit

Units == {"timers", "banks", "thumb", "compositor", "affine"}

-----------------------------------------------------------------------------
(* Timers of two bits with prescalers 1 and 2: small enough for batches in   *)
(* which a timer overflows several times.  Timer 0 runs at both rates and is *)
(* retimed; timers 1 and 2 cascade, so that a carry runs through two         *)
(* cascades and either may be stopped.  Timer 3 stays off.                   *)

C(enabled, cascade, sel) == [enabled |-> enabled, cascade |-> cascade, sel |-> sel]

MCPrescale == [sel \in 0 .. 1 |-> IF sel = 0 THEN 1 ELSE 2]
MCReloads == {3}
MCControls ==
    [i \in Timer |->
        CASE i = 0 -> {C(FALSE, FALSE, 0), C(TRUE, FALSE, 0), C(TRUE, FALSE, 1)}
          [] i = 1 -> {C(FALSE, FALSE, 0), C(TRUE, TRUE, 0)}
          [] i = 2 -> {C(FALSE, TRUE, 0), C(TRUE, TRUE, 0)}
          [] OTHER -> {}]

-----------------------------------------------------------------------------
(* One register of each banked kind, two values, and the modes of a program *)
(* that uses interrupts, SWI and FIQ.  Lists hold r14; r8 is written by the  *)
(* writeback of a base register, in FIQ and elsewhere.                       *)

MCReset == [b \in Bank |-> 1]
MCNamed == {{14}}
MCPsrWrites == {[mode |-> "Fiq", I |-> FALSE]}

-----------------------------------------------------------------------------
(* Words of four bits: 16 bytes of memory.  r0 and r1 take values that are   *)
(* negative, aligned, misaligned, and longer than a word as shift amounts.   *)

MCStart(a, b, sp, pc, c) ==
    [r |-> [x \in {0, 1, 2, SP, LR, PC} |->
               CASE x = 0 -> a [] x = 1 -> b [] x = 2 -> 6
                 [] x = SP -> sp [] x = LR -> 5 [] x = PC -> pc],
     f |-> [n |-> FALSE, z |-> FALSE, c |-> c, v |-> ~c],
     mem |-> [x \in Word |-> IF x \in {0, 3, 5, 6, 7, 10, 15} THEN 1 ELSE 0],
     cycles |-> 0]
MCStarts ==
    {MCStart(a, b, p[1], p[2], p[3]) :
        a \in {0, 1, 6, 8, 15}, b \in {0, 1, 6, 11, 15},
        p \in {<<8, 4, TRUE>>, <<12, 6, FALSE>>}}

-----------------------------------------------------------------------------
(* A screen of 3 by 2 pixels on a circle of 6 by 6; two backgrounds and two  *)
(* sprites, of which some reach over the left or the top edge and one is of  *)
(* the OBJ window.  The windows' ranges are plain, end beyond the screen, or *)
(* have their end before their start.                                        *)

MCDispcnts ==
    {[layers |-> {0, 1, OBJ}, windows |-> {}], [layers |-> {0, 1, OBJ}, windows |-> Windows]}
MCRangesH == {<<0, 2>>, <<2, 1>>}
MCRangesV == {<<1, 5>>}
MCRegion(win0, win1, objwin, outside) ==
    [r \in Windows \cup {"outside"} |->
        CASE r = "win0" -> win0 [] r = "win1" -> win1
          [] r = "objwin" -> objwin [] r = "outside" -> outside]
MCRegions == {MCRegion({0, 1}, {1, OBJ, EFFECTS}, {0, EFFECTS}, {0, 1, OBJ, EFFECTS})}
MCBlends ==
    {[mode |-> 1, first |-> {0}, second |-> {1, BACKDROP}],
     [mode |-> 2, first |-> {0, OBJ}, second |-> {1}]}
MCEntry(x, y, w, h, opaque, prio, mode) ==
    [hidden |-> FALSE, x |-> x, y |-> y, w |-> w, h |-> h, hflip |-> TRUE, vflip |-> FALSE,
     opaque |-> opaque, prio |-> prio, mode |-> mode]
MCEntries ==
    {MCEntry(0, 5, 2, 2, {<<0, 1>>, <<1, 1>>}, 1, "normal"),
     MCEntry(5, 0, 3, 2, {<<0, 0>>, <<1, 0>>, <<0, 1>>, <<1, 1>>}, 0, "semi"),
     MCEntry(1, 0, 2, 2, {<<0, 0>>, <<1, 0>>, <<1, 1>>}, 1, "window")}

-----------------------------------------------------------------------------
(* A reference point of four bits in halves of two *)

MCHalves == {0, 1, 3}
MCSlopes == {-1, 0, 2}

-----------------------------------------------------------------------------

MCInit ==
    /\ unit \in Units
    /\ Init /\ ModesInit /\ CompositorInit /\ AffineInit
    /\ ThumbInit
    /\ unit # "thumb" => s = MCStart(0, 0, 8, 4, TRUE)

MCNext ==
    /\ UNCHANGED unit
    /\ \/ unit = "timers" /\ Next /\ UNCHANGED <<modesVars, thumbVars, compositorVars, affineVars>>
       \/ unit = "banks" /\ ModesNext /\ UNCHANGED <<t, thumbVars, compositorVars, affineVars>>
       \/ unit = "thumb" /\ ThumbNext /\ UNCHANGED <<t, modesVars, compositorVars, affineVars>>
       \/ unit = "compositor" /\ CompositorNext /\ UNCHANGED <<t, modesVars, thumbVars, affineVars>>
       \/ unit = "affine" /\ AffineNext /\ UNCHANGED <<t, modesVars, thumbVars, compositorVars>>

MCSpec == MCInit /\ [][MCNext]_<<unit, t, modesVars, thumbVars, compositorVars, affineVars>>

\* All but did: what the last instruction was to do is read by no step, so the
\* states that differ in it have the same successors and the same steps.
MCView ==
    <<unit, t, regs, masked, stale, spsr, irq_delay, thumbVars, compositorVars, affineVars>>
=============================================================================
