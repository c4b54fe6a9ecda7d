----------------------------- MODULE Compositor -----------------------------
(***************************************************************************)
(* One line of a tiled picture (ppu.rs): the sprites are drawn into a line *)
(* buffer, the windows say which layers a pixel has, and the scan finds    *)
(* the two layers in front and the effect between them.  A colour is the   *)
(* layer, or the sprite, it comes from.  A sprite is a rectangle with some *)
(* opaque texels; rotated sprites, tile addresses, palettes and mosaic are *)
(* left out, and a background is a set of opaque pixels.                   *)
(***************************************************************************)
EXTENDS Integers, FiniteSetsExt

CONSTANTS
    BG,             \* the backgrounds, 0 .. 3
    SPRITES,        \* 128
    SCREEN_W,       \* 240
    SCREEN_H,       \* 160
    XWRAP,          \* 512: the range of a sprite's x
    YWRAP,          \* 256: the range of a sprite's y and of window coordinates
    Dispcnts,       \* values a program may write to DISPCNT,
    Priorities,     \*   to the priorities of backgrounds,
    RangesH,        \*   to WIN0H and WIN1H,
    RangesV,        \*   to WIN0V and WIN1V,
    Regions,        \*   to WININ and WINOUT,
    Blends,         \*   to BLDCNT,
    Entries         \*   and to an entry of OAM

OBJ == 4
BACKDROP == 5
EFFECTS == 5    \* the bit of WININ and WINOUT that allows effects
NO_SPRITE == [obj |-> -1, prio |-> 3, mode |-> "normal"]

Windows == {"win0", "win1", "objwin"}
Pixels == 0 .. SCREEN_W - 1
Entry == [hidden : BOOLEAN, x : 0 .. XWRAP - 1, y : 0 .. YWRAP - 1, w : Nat, h : Nat,
          hflip : BOOLEAN, vflip : BOOLEAN, opaque : SUBSET (Nat \X Nat),
          prio : 0 .. 3, mode : {"normal", "semi", "window"}]

\* A sprite of more than YWRAP - SCREEN_H lines may reach past the last y: the
\* code does not continue it at the top.  No sprite is that wide: XWRAP - SCREEN_W
\* is 272.
ASSUME CompositorAssumption ==
    /\ BG \subseteq 0 .. 3 /\ Priorities \subseteq 0 .. 3
    /\ {XWRAP, YWRAP} \subseteq Nat \ {0} /\ SPRITES \in Nat
    /\ SCREEN_W \in 0 .. XWRAP /\ SCREEN_W <= YWRAP /\ SCREEN_H \in 0 .. YWRAP
    /\ \A val \in Dispcnts : val.layers \subseteq BG \cup {OBJ} /\ val.windows \subseteq Windows
    /\ \A r \in RangesH \cup RangesV : r[1] \in 0 .. YWRAP - 1 /\ r[2] \in 0 .. YWRAP - 1
    /\ Regions \subseteq [Windows \cup {"outside"} -> SUBSET (BG \cup {OBJ, EFFECTS})]
    /\ Blends \subseteq [mode : 0 .. 3, first : SUBSET (0 .. 5), second : SUBSET (0 .. 5)]
    /\ Entries \subseteq Entry
    /\ \A e \in Entries :
          /\ e.x < SCREEN_W => e.x + e.w <= XWRAP
          /\ e.y < SCREEN_H => e.y + e.h <= YWRAP

VARIABLES
    dispcnt,    \* the layers and the windows that are on
    bgPrio,     \* BgRegs.cnt: its priority
    winh, winv, \* the horizontal and vertical range of windows 0 and 1
    regions,    \* WININ, WINOUT
    bldcnt,     \* mode, first and second targets
    oam

compositorVars == <<dispcnt, bgPrio, winh, winv, regions, bldcnt, oam>>

HiddenEntry == [hidden |-> TRUE, x |-> 0, y |-> 0, w |-> 0, h |-> 0, hflip |-> FALSE,
                vflip |-> FALSE, opaque |-> {}, prio |-> 0, mode |-> "normal"]

\* A program hides the sprites before it shows a picture.
CompositorInit ==
    /\ dispcnt = [layers |-> {}, windows |-> {}]
    /\ bgPrio = [b \in BG |-> 0]
    /\ winh = [w \in {"win0", "win1"} |-> <<0, 0>>] /\ winv = winh
    /\ regions = [r \in Windows \cup {"outside"} |-> {}]
    /\ bldcnt = [mode |-> 0, first |-> {}, second |-> {}]
    /\ oam = [n \in 0 .. SPRITES - 1 |-> HiddenEntry]

-----------------------------------------------------------------------------
(* Sprites *)

Origin(pos, screen, range) == IF pos >= screen THEN pos - range ELSE pos
Flipped(flip, size, k) == IF flip THEN size - 1 - k ELSE k

\* The line buffer after one sprite has been drawn over it.
DrawSprite(buf, n, line) ==
    LET e == oam[n]
        ly == line - Origin(e.y, SCREEN_H, YWRAP)
        lx(x) == x - Origin(e.x, SCREEN_W, XWRAP)
        texel(x) == <<Flipped(e.hflip, e.w, lx(x)), Flipped(e.vflip, e.h, ly)>>
        hit(x) == lx(x) \in 0 .. e.w - 1 /\ texel(x) \in e.opaque
    IN  IF e.hidden \/ ly \notin 0 .. e.h - 1 THEN buf
        ELSE [x \in Pixels |->
                 IF hit(x) THEN [obj |-> n, prio |-> e.prio, mode |-> e.mode] ELSE buf[x]]

ClearLine == [x \in Pixels |-> NO_SPRITE]

\* Seeded fault: the sprites are drawn in ascending order.
RenderSprites_Ascending(line) ==
    LET after[n \in 0 .. SPRITES] ==
            IF n = 0 THEN ClearLine ELSE DrawSprite(after[n - 1], n - 1, line)
    IN  IF OBJ \in dispcnt.layers THEN after[SPRITES] ELSE ClearLine

\* From the last to the first: the first ends up in front.
RenderSprites(line) ==
    LET after[n \in 0 .. SPRITES] ==
            IF n = SPRITES THEN ClearLine ELSE DrawSprite(after[n + 1], n, line)
    IN  IF OBJ \in dispcnt.layers THEN after[0] ELSE ClearLine

-----------------------------------------------------------------------------
(* Windows *)

\* A range whose end is before its start goes around.
InRange(r, p) == IF r[1] <= r[2] THEN p >= r[1] /\ p < r[2] ELSE p >= r[1] \/ p < r[2]

GetWindowFlags(x, line, sprite) ==
    LET in(w) == w \in dispcnt.windows /\ InRange(winv[w], line) /\ InRange(winh[w], x)
    IN  CASE dispcnt.windows = {} -> BG \cup {OBJ, EFFECTS}
          [] in("win0") -> regions["win0"]
          [] ~in("win0") /\ in("win1") -> regions["win1"]
          [] ~in("win0") /\ ~in("win1") /\ "objwin" \in dispcnt.windows
                 /\ sprite.mode = "window" -> regions["objwin"]
          [] OTHER -> regions["outside"]

-----------------------------------------------------------------------------
(* Layers and effects *)

\* The order of the scan: by priority, OBJ before the backgrounds.
Slots == [k \in 1 .. 20 |-> [prio |-> (k - 1) \div 5,
                             layer |-> IF k % 5 = 1 THEN OBJ ELSE (k - 2) % 5]]

\* The layers that have a pixel here; opaque are the backgrounds with one.
HasPixel(slot, sprite, flags, opaque) ==
    /\ slot.layer \in flags
    /\ IF slot.layer = OBJ
       THEN sprite # NO_SPRITE /\ sprite.prio = slot.prio
       ELSE slot.layer \in dispcnt.layers \cap opaque /\ bgPrio[slot.layer] = slot.prio

Blend(top, bottom, semi) ==
    LET first == top \in bldcnt.first
        second == bottom \in bldcnt.second
    IN  CASE second /\ (semi \/ (bldcnt.mode = 1 /\ first)) -> "alpha"
          [] ~(semi /\ second) /\ bldcnt.mode = 2 /\ first -> "brighter"
          [] ~(semi /\ second) /\ bldcnt.mode = 3 /\ first -> "darker"
          [] OTHER -> "none"

\* What the framebuffer shows: the layer in front, for OBJ the sprite, the
\* effect, and for a blend the layer behind.
Shown(top, bottom, sprite, effect) ==
    [top |-> top, sprite |-> IF OBJ \in {top, bottom} THEN sprite.obj ELSE -1,
     effect |-> effect, bottom |-> IF effect = "alpha" THEN bottom ELSE BACKDROP]

ComposePixel(x, line, sprite, opaque) ==
    LET flags == GetWindowFlags(x, line, sprite)
        found == {k \in DOMAIN Slots : HasPixel(Slots[k], sprite, flags, opaque)}
        layer(slots) == IF slots = {} THEN BACKDROP ELSE Slots[Min(slots)].layer
        top == layer(found)
        bottom == layer({k \in found : \E j \in found : j < k})
    IN  Shown(top, bottom, sprite,
              IF EFFECTS \in flags THEN Blend(top, bottom, top = OBJ /\ sprite.mode = "semi")
                                   ELSE "none")

-----------------------------------------------------------------------------
(* Register and OAM writes *)

WriteDispcnt(val) ==
    dispcnt' = val /\ UNCHANGED <<bgPrio, winh, winv, regions, bldcnt, oam>>
WriteBgcnt(b, prio) ==
    bgPrio' = [bgPrio EXCEPT ![b] = prio] /\ UNCHANGED <<dispcnt, winh, winv, regions, bldcnt, oam>>
WriteWinH(w, r) ==
    winh' = [winh EXCEPT ![w] = r] /\ UNCHANGED <<dispcnt, bgPrio, winv, regions, bldcnt, oam>>
WriteWinV(w, r) ==
    winv' = [winv EXCEPT ![w] = r] /\ UNCHANGED <<dispcnt, bgPrio, winh, regions, bldcnt, oam>>
WriteRegions(val) ==
    regions' = val /\ UNCHANGED <<dispcnt, bgPrio, winh, winv, bldcnt, oam>>
WriteBldcnt(val) ==
    bldcnt' = val /\ UNCHANGED <<dispcnt, bgPrio, winh, winv, regions, oam>>
WriteOam(n, e) ==
    oam' = [oam EXCEPT ![n] = e] /\ UNCHANGED <<dispcnt, bgPrio, winh, winv, regions, bldcnt>>

CompositorNext ==
    \/ \E val \in Dispcnts : WriteDispcnt(val)
    \/ \E b \in BG, prio \in Priorities : WriteBgcnt(b, prio)
    \/ \E w \in {"win0", "win1"}, r \in RangesH : WriteWinH(w, r)
    \/ \E w \in {"win0", "win1"}, r \in RangesV : WriteWinV(w, r)
    \/ \E val \in Regions : WriteRegions(val)
    \/ \E val \in Blends : WriteBldcnt(val)
    \/ \E n \in DOMAIN oam, e \in Entries : WriteOam(n, e)

CompositorSpec == CompositorInit /\ [][CompositorNext]_compositorVars

-----------------------------------------------------------------------------
(* Reference (spec/gbatek.htm, OBJs and windows): of the sprites on a pixel  *)
(* that are shown the first is in front, of the layers that of the lowest    *)
(* priority number, of equal ones OBJ, then the background of the lowest     *)
(* number.  A sprite of the OBJ window is not shown and marks its pixels; a  *)
(* range of another window that is garbage ends at the edge of the screen.   *)

OnArc(start, size, range, p) == (p - start) % range < size

SpriteTexel(n, x, line) ==
    LET e == oam[n]
    IN  <<Flipped(e.hflip, e.w, (x - e.x) % XWRAP), Flipped(e.vflip, e.h, (line - e.y) % YWRAP)>>

SpritesAt(x, line) ==
    {n \in DOMAIN oam :
        /\ ~oam[n].hidden
        /\ OnArc(oam[n].x, oam[n].w, XWRAP, x) /\ OnArc(oam[n].y, oam[n].h, YWRAP, line)
        /\ SpriteTexel(n, x, line) \in oam[n].opaque}
MasksAt(x, line) == {n \in SpritesAt(x, line) : oam[n].mode = "window"}

FrontOf(sprites) ==
    LET front == CHOOSE n \in sprites : \A m \in sprites : n <= m
    IN  IF OBJ \notin dispcnt.layers \/ sprites = {} THEN NO_SPRITE
        ELSE [obj |-> front, prio |-> oam[front].prio, mode |-> oam[front].mode]

Within(r, edge, p) == p >= r[1] /\ p < (IF r[2] > edge \/ r[1] > r[2] THEN edge ELSE r[2])

InsideOf(x, line) ==
    {w \in dispcnt.windows :
        IF w = "objwin" THEN OBJ \in dispcnt.layers /\ MasksAt(x, line) # {}
        ELSE Within(winh[w], SCREEN_W, x) /\ Within(winv[w], SCREEN_H, line)}

RegionFlags(x, line) ==
    LET inside == InsideOf(x, line)
    IN  CASE dispcnt.windows = {} -> BG \cup {OBJ, EFFECTS}
          [] dispcnt.windows # {} /\ inside = {} -> regions["outside"]
          [] inside # {} ->
                 regions[IF "win0" \in inside THEN "win0"
                         ELSE IF "win1" \in inside THEN "win1" ELSE "objwin"]

PrioOf(layer, sprite) == IF layer = OBJ THEN sprite.prio ELSE bgPrio[layer]

InFront(a, b, sprite) ==
    \/ PrioOf(a, sprite) < PrioOf(b, sprite)
    \/ PrioOf(a, sprite) = PrioOf(b, sprite) /\ (a = OBJ \/ (b # OBJ /\ a < b))

Front(layers, sprite) ==
    IF layers = {} THEN BACKDROP
    ELSE CHOOSE a \in layers : \A b \in layers \ {a} : InFront(a, b, sprite)

\* A semi-transparent sprite in front of a second target counts as a first
\* target of a blend, whatever BLDCNT says.
DeclaredEffect(top, bottom, sprite) ==
    LET bld == IF top = OBJ /\ sprite.mode = "semi" /\ bottom \in bldcnt.second
               THEN [bldcnt EXCEPT !.mode = 1, !.first = @ \cup {OBJ}] ELSE bldcnt
    IN  IF top \notin bld.first \/ (bld.mode = 1 /\ bottom \notin bld.second) THEN "none"
        ELSE <<"none", "alpha", "brighter", "darker">>[bld.mode + 1]

\* What a pixel shows whose front sprite and region are these.
Picture(sprite, flags, opaque) ==
    LET layers == (dispcnt.layers \cap opaque \cap flags)
                      \cup (IF sprite = NO_SPRITE THEN {} ELSE {OBJ} \cap flags)
        top == Front(layers, sprite)
        bottom == Front(layers \ {top}, sprite)
    IN  Shown(top, bottom, sprite,
              IF EFFECTS \in flags THEN DeclaredEffect(top, bottom, sprite) ELSE "none")

DeclaredPixel(x, line, opaque) ==
    Picture(FrontOf(SpritesAt(x, line) \ MasksAt(x, line)), RegionFlags(x, line), opaque)

-----------------------------------------------------------------------------
(* Properties *)

\* Garbage ranges do not reach here around the edge.
NoRangeGoesAround(x, line) ==
    \A w \in dispcnt.windows \ {"objwin"} :
        /\ winh[w][1] <= winh[w][2] \/ x >= winh[w][2]
        /\ winv[w][1] <= winv[w][2] \/ line >= winv[w][2]

\* Sprites of the OBJ window do here what they are for: there is none, or one
\* is in front in a region without OBJ, or those behind have no say as their
\* window is off or covered by another.
MasksOnlyMask(x, line) ==
    \/ OBJ \notin dispcnt.layers \/ MasksAt(x, line) = {}
    \/ FrontOf(SpritesAt(x, line)).mode = "window" /\ OBJ \notin RegionFlags(x, line)
    \/ /\ FrontOf(SpritesAt(x, line)).mode # "window"
       /\ "objwin" \notin dispcnt.windows \/ InsideOf(x, line) \cap {"win0", "win1"} # {}

\* Whatever a program has written, each pixel shows the layer in front, of
\* those that the pixel's window lets through, with the sprite in front and
\* the effect between the two layers in front: as spec/gbatek.htm has it,
\* where garbage ranges and sprites of the OBJ window are not treated otherwise
\* (ppu.rs, render_sprites and compose_layers).
PixelShowsFront ==
    \A line \in 0 .. SCREEN_H - 1 :
        LET buf == RenderSprites(line)
        IN  \A x \in Pixels, opaque \in SUBSET BG :
                NoRangeGoesAround(x, line) /\ MasksOnlyMask(x, line) =>
                    ComposePixel(x, line, buf[x], opaque) = DeclaredPixel(x, line, opaque)
=============================================================================
