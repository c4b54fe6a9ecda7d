------------------------------ MODULE AffineBg ------------------------------
(***************************************************************************)
(* The reference point of a rotated background over the lines of a frame   *)
(* (ppu.rs).  One coordinate is modelled; BG2 and BG3, x with pb and y     *)
(* with pd, are alike.  A program writes the register by halves, at any    *)
(* time; each line is drawn from an internal copy, which moves by pb.      *)
(***************************************************************************)
EXTENDS Integers

CONSTANTS
    LINES,      \* 228
    VISIBLE,    \* 160
    HALF,       \* 2^16: a halfword of the register
    REF,        \* 2^28: the register's range, of which the upper half is negative
    Halves,     \* values a program may write to either halfword
    Slopes      \* and to pb

ASSUME AffineAssumption ==
    /\ VISIBLE \in Nat \ {0} /\ LINES \in Nat /\ VISIBLE < LINES
    /\ HALF \in Nat \ {0} /\ REF \in Nat \ {0} /\ (REF % (2 * HALF)) = 0
    /\ Halves \subseteq 0 .. HALF - 1 /\ Slopes \subseteq Int

VARIABLES
    line,       \* vcount
    blank,      \* the line's HBlank has begun
    pb,
    ref,        \* ref_x
    internal,   \* internal_x
    moved       \* history: pb or the register were written below the first line

affineVars == <<line, blank, pb, ref, internal, moved>>

AffineInit ==
    /\ line = 0 /\ blank = FALSE /\ ref = 0 /\ internal = 0 /\ moved = FALSE
    /\ pb = 0

\* The lines of the picture that have been drawn.
DrawnLines == IF line < VISIBLE THEN line + (IF blank THEN 1 ELSE 0) ELSE 0

\* Drawing the line, forced blank or not, moves the internal copy.
AffineHBlank ==
    /\ ~blank
    /\ blank' = TRUE
    /\ internal' = IF line < VISIBLE THEN internal + pb ELSE internal
    /\ UNCHANGED <<line, pb, ref, moved>>

\* Seeded fault: the point is not latched, but left where the frame ended.
AffineHDraw_NoLatch ==
    /\ blank
    /\ blank' = FALSE
    /\ line' = (line + 1) % LINES
    /\ moved' = (moved /\ line' # VISIBLE)
    /\ UNCHANGED <<pb, ref, internal>>

\* At the start of VBlank the copy is taken for the next frame.
AffineHDraw ==
    /\ blank
    /\ blank' = FALSE
    /\ line' = (line + 1) % LINES
    /\ internal' = IF line' = VISIBLE THEN ref ELSE internal
    /\ moved' = (moved /\ line' # VISIBLE)
    /\ UNCHANGED <<pb, ref>>

\* 28 bits, the upper four of a word are dropped.
SignExtended(v) == LET u == v % REF IN IF u < REF \div 2 THEN u ELSE u - REF

\* A byte store writes a halfword whose other byte is 0, as the register does
\* not read back; Halves contains such values.
WriteRef(val) ==
    /\ ref' = SignExtended(val)
    /\ internal' = ref'
    /\ moved' = (moved \/ DrawnLines > 0)
    /\ UNCHANGED <<line, blank, pb>>

WriteRefLow(val) == WriteRef(ref - (ref % HALF) + val)
WriteRefHigh(val) == WriteRef((ref % HALF) + val * HALF)

WritePb(val) ==
    /\ pb' = val
    /\ moved' = (moved \/ DrawnLines > 0)
    /\ UNCHANGED <<line, blank, ref, internal>>

AffineNext ==
    \/ AffineHBlank \/ AffineHDraw
    \/ \E val \in Halves : WriteRefLow(val) \/ WriteRefHigh(val)
    \/ \E val \in Slopes : WritePb(val)

AffineSpec == AffineInit /\ [][AffineNext]_affineVars

-----------------------------------------------------------------------------
(* Property *)

\* A line is drawn from the reference point the program set, moved by pb for
\* each line above it, in every frame in which the program left both alone
\* below the first line: whatever it did in the frame before, and whenever in
\* VBlank it set them.
LinesFollowReference == ~moved => internal = ref + DrawnLines * pb
=============================================================================
