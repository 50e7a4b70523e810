------------------------------- MODULE Raster -------------------------------
(***************************************************************************)
(* The rasterizer (gpu/rasterizer.rs) and the VRAM block commands of       *)
(* gpu/mod.rs: which pixels a triangle, a quad, a rectangle, a line, a     *)
(* fill and a copy write, under the drawing area, the drawing offset and   *)
(* the two mask-bit settings.                                              *)
(*                                                                         *)
(* A pixel is its mask bit, the last value written and the times the last  *)
(* command wrote it: a semi-transparent one blends once for each.  A vertex*)
(* carries one interpolated value in the place of colour and texture       *)
(* coordinates.  Texture lookup, blending and dithering are left out.      *)
(***************************************************************************)
EXTENDS Integers, SequencesExt

CONSTANTS Width, Height,    \* of VRAM: 1024 and 512
          Reach,            \* widest and tallest primitive, 1023 and 511
          Coordinates,      \* vertex coordinates a game sends
          Corners,          \* first vertices it sends
          Texels,           \* mask bits of the texels it draws polygons with
          Areas,            \* drawing areas: <<min, max>> corners
          Offsets,          \* drawing offsets
          Shades,           \* values of the successive vertices
          Effort            \* bound: commands a behaviour issues, the long ones
                            \* (polygon, line, copy) counting two

VARIABLES vram,             \* vram[p]: [stp, val, times]
          area, offset,     \* E3, E4 and E5
          checkMask, forceMask, \* E6
          last,             \* the last command: <<its name, its vertices>>
          effort            \* commands left

vars == <<vram, area, offset, checkMask, forceMask, last, effort>>
settings == <<area, offset, checkMask, forceMask>>

Pixels == (0..(Width - 1)) \X (0..(Height - 1))
Vertices == Coordinates \X Coordinates
Fraction == 65536

\* A primitive that is drawn has fewer steps than a pixel has fractions.
RasterAssumption ==
    /\ Width \in Nat /\ Height \in Nat /\ Reach \in 0..Fraction
    /\ Coordinates \subseteq Int /\ Corners \subseteq Vertices /\ Texels \subseteq BOOLEAN
    /\ Areas \subseteq (Int \X Int) \X (Int \X Int) /\ Offsets \subseteq Int \X Int
    /\ Shades \in Seq(Int) /\ Len(Shades) >= 4
    /\ Effort \in Nat

Blank == [stp |-> FALSE, val |-> 0, times |-> 0]

\* Any mask bits may be in VRAM, loaded with an image.
Init ==
    /\ \E masked \in {{}, {<<1, 1>>}} :
           vram = [p \in Pixels |-> [Blank EXCEPT !.stp = p \in masked]]
    /\ area \in Areas
    /\ offset \in Offsets
    /\ checkMask \in BOOLEAN /\ forceMask \in BOOLEAN
    /\ last = <<"none", <<>>>>
    /\ effort = Effort

----------------------------------------------------------------------------
(* Pixel writes.                                                           *)

InArea(p) ==
    /\ area[1][1] <= p[1] /\ p[1] <= area[2][1]
    /\ area[1][2] <= p[2] /\ p[2] <= area[2][2]

Writable(m, p) == p \in Pixels /\ ~ (checkMask /\ m[p].stp)

(* Mutated form of Put: the mask bit there is not looked at. *)
PutUnchecked(m, value, stp) ==
    [p \in Pixels |->
        IF p \in DOMAIN value
        THEN [stp |-> stp \/ forceMask, val |-> value[p], times |-> m[p].times + 1]
        ELSE m[p]]

\* A primitive's pixels, each with its value, written over m.
Put(m, value, stp) ==
    [p \in Pixels |->
        IF p \in DOMAIN value /\ Writable(m, p)
        THEN [stp |-> stp \/ forceMask, val |-> value[p], times |-> m[p].times + 1]
        ELSE m[p]]

Untouched == [p \in Pixels |-> [vram[p] EXCEPT !.times = 0]]

Trunc(n, d) == IF n >= 0 THEN n \div d ELSE -((-n) \div d)
Sized(n) == IF n < 0 THEN -n ELSE n
Least(a, b) == IF a < b THEN a ELSE b
Most(a, b) == IF a > b THEN a ELSE b

----------------------------------------------------------------------------
(* Triangles: edge functions and the top-left rule.                        *)

Orient2d(a, b, c) ==
    (b[1] - a[1]) * (c[2] - a[2]) - (b[2] - a[2]) * (c[1] - a[1])

(* Mutated form of IsTopLeft: without the horizontal edges. *)
IsLeft(a, b) == b[2] < a[2]

IsTopLeft(a, b) == (a[2] = b[2] /\ b[1] > a[1]) \/ b[2] < a[2]

\* The edge ab owns the pixels on it, or only those inside.
Within(a, b, p) ==
    Orient2d(a, b, p) + (IF IsTopLeft(a, b) THEN 0 ELSE -1) >= 0

Spread(vs, k) ==
    LET ns == {v[k] : v \in vs} IN Max(ns) - Min(ns)

\* The hardware draws nothing of a primitive that is too large.
Oversized(vs) == \E k \in 1..2 : Spread(vs, k) > Reach

\* (w0*p0 + w1*p1 + w2*p2) / area
Interpolated(a, b, c, s, p) ==
    Trunc(Orient2d(b, c, p) * s[1] + Orient2d(c, a, p) * s[2] + Orient2d(a, b, p) * s[3],
          Orient2d(a, b, c))

Wound(a, b, c, s) ==
    IF Oversized({a, b, c}) THEN <<>>
    ELSE [p \in {q \in Pixels : /\ InArea(q) /\ Within(b, c, q)
                                /\ Within(c, a, q) /\ Within(a, b, q)}
            |-> Interpolated(a, b, c, s, p)]

(* Mutated form of Triangle: a triangle wound the other way keeps its      *)
(* shades in the order they came.                                          *)
TriangleUnswapped(a, b, c, s) ==
    LET turn == Orient2d(a, b, c)
    IN  CASE turn = 0 -> <<>>
          [] turn > 0 -> Wound(a, b, c, s)
          [] turn < 0 -> [p \in DOMAIN Wound(b, a, c, s) |->
                             Trunc(Orient2d(b, c, p) * s[1] + Orient2d(c, a, p) * s[2]
                                   + Orient2d(a, b, p) * s[3], -turn)]

\* The pixels of a triangle with their values; winding does not matter.
Triangle(a, b, c, s) ==
    LET turn == Orient2d(a, b, c)
    IN  CASE turn = 0 -> <<>>
          [] turn > 0 -> Wound(a, b, c, s)
          [] turn < 0 -> Wound(b, a, c, <<s[2], s[1], s[3]>>)

Moved(v) == <<v[1] + offset[1], v[2] + offset[2]>>
Polygons == {vs \in [1..3 -> Vertices] \cup [1..4 -> Vertices] : vs[1] \in Corners}

\* A quad is the triangles 1 2 3 and 2 3 4, one after the other.
Painted(vs, stp) ==
    LET m == [i \in DOMAIN vs |-> Moved(vs[i])]
        first == Put(Untouched, Triangle(m[1], m[2], m[3], SubSeq(Shades, 1, 3)), stp)
    IN  IF Len(vs) = 3 THEN first
        ELSE Put(first, Triangle(m[2], m[3], m[4], SubSeq(Shades, 2, 4)), stp)

Issue(name, vs, cost) ==
    effort' = effort - cost /\ last' = <<name, vs>>

DrawPolygon(vs, stp) ==
    /\ Issue("polygon", vs, 2)
    /\ vram' = Painted(vs, stp)
    /\ UNCHANGED settings

----------------------------------------------------------------------------
(* Rectangles and lines.                                                   *)

DrawRect(v, size, stp) ==
    /\ Issue("rect", <<v>>, 1)
    /\ LET o == Moved(v)
           inside == {p \in Pixels : /\ InArea(p)
                                     /\ p[1] - o[1] \in 0..(size[1] - 1)
                                     /\ p[2] - o[2] \in 0..(size[2] - 1)}
       IN  vram' = Put(Untouched, [p \in inside |-> Shades[1]], stp)
    /\ UNCHANGED settings

\* Where the 16.16 DDA from a to b is on an axis after i of its steps.
Along(a, b, steps, i, k) ==
    (a[k] * Fraction + i * Trunc((b[k] - a[k]) * Fraction, steps)) \div Fraction
Point(a, b, steps, i) == <<Along(a, b, steps, i, 1), Along(a, b, steps, i, 2)>>

(* Mutated form of Steps: the shorter axis. *)
StepsShort(a, b) == Most(Least(Sized(b[1] - a[1]), Sized(b[2] - a[2])), 1)

Steps(a, b) == Most(Most(Sized(b[1] - a[1]), Sized(b[2] - a[2])), 1)

Points(a, b) == [i \in 0..Steps(a, b) |-> Point(a, b, Steps(a, b), i)]

LineValues(a, b) ==
    LET at == Points(a, b)
        index == [p \in {at[i] : i \in DOMAIN at} |-> CHOOSE i \in DOMAIN at : at[i] = p]
    IN  IF Oversized({a, b}) THEN <<>>
        ELSE [p \in {q \in DOMAIN index : InArea(q)} |->
                 IF a = b THEN Shades[1]
                 ELSE Shades[1] + Trunc((Shades[2] - Shades[1]) * index[p], Steps(a, b))]

\* A line that ends where it begins has a step all the same, and puts its
\* one pixel again.
Stroked(a, b) ==
    LET once == Put(Untouched, LineValues(a, b), FALSE)
    IN  IF a = b THEN Put(once, [p \in DOMAIN LineValues(a, b) |-> Shades[2]], FALSE)
        ELSE once

DrawLine(v, w) ==
    /\ Issue("line", <<v, w>>, 2)
    /\ vram' = Stroked(Moved(v), Moved(w))
    /\ UNCHANGED settings

----------------------------------------------------------------------------
(* Block commands: they ignore the area and the offset, and wrap around.   *)

\* A fill ignores the mask settings too.
FillRect(v, size) ==
    /\ Issue("fill", <<v>>, 1)
    /\ vram' = [p \in Pixels |->
                   IF /\ (p[1] - v[1]) % Width < size[1]
                      /\ (p[2] - v[2]) % Height < size[2]
                   THEN [stp |-> FALSE, val |-> Shades[1], times |-> 1]
                   ELSE Untouched[p]]
    /\ UNCHANGED settings

Wrapped(v, d) == <<(v[1] + d[1]) % Width, (v[2] + d[2]) % Height>>

WriteVram(m, p, px) ==
    IF checkMask /\ m[p].stp THEN m
    ELSE [m EXCEPT ![p] = [stp |-> px.stp \/ forceMask, val |-> px.val, times |-> @.times + 1]]

\* Row by row, left to right: where source and destination overlap, what
\* has been copied is copied again.
VramCopy(src, dst, size) ==
    /\ Issue("copy", <<src, dst>>, 2)
    /\ LET N == size[1] * size[2]
           Step(m, d) == WriteVram(m, Wrapped(dst, d), m[Wrapped(src, d)])
           copied[i \in 0..N] ==
               IF i = 0 THEN Untouched
               ELSE Step(copied[i - 1], <<(i - 1) % size[1], (i - 1) \div size[1]>>)
       IN  vram' = copied[N]
    /\ UNCHANGED settings

MaskSettings ==
    /\ Issue("mask", <<>>, 1)
    /\ vram' = Untouched
    /\ checkMask' \in BOOLEAN /\ forceMask' \in BOOLEAN
    /\ UNCHANGED <<area, offset>>

Sizes == {<<1, 1>>, <<2, 2>>}

Next ==
    \/ effort >= 2 /\ \E vs \in Polygons, stp \in Texels : DrawPolygon(vs, stp)
    \/ effort >= 2 /\ \E v \in Corners, w \in Vertices : DrawLine(v, w)
    \/ effort >= 2 /\ \E v, w \in Pixels : VramCopy(v, w, <<2, 1>>)
    \/ effort >= 1 /\ \E v \in Vertices, size \in Sizes, stp \in BOOLEAN : DrawRect(v, size, stp)
    \/ effort >= 1 /\ \E v \in Pixels, size \in Sizes : FillRect(v, size)
    \/ effort >= 1 /\ MaskSettings

Spec == Init /\ [][Next]_vars

----------------------------------------------------------------------------
TypeOK ==
    /\ vram \in [Pixels -> [stp : BOOLEAN, val : Int, times : Nat]]
    /\ area \in Areas /\ offset \in Offsets
    /\ checkMask \in BOOLEAN /\ forceMask \in BOOLEAN
    /\ effort \in 0..Effort

Drew(p) == vram[p].times
Drawn == {p \in Pixels : Drew(p) > 0}
Corner(i) == Moved(last[2][i])

Inside(a, b, c, p) ==
    LET turns == {Orient2d(a, b, p), Orient2d(b, c, p), Orient2d(c, a, p)}
    IN  (\A t \in turns : t > 0) \/ (\A t \in turns : t < 0)

Between(a, b, p) ==
    /\ Orient2d(a, b, p) = 0 /\ p # a /\ p # b
    /\ \A k \in 1..2 : Least(a[k], b[k]) <= p[k] /\ p[k] <= Most(a[k], b[k])

OnTheQuad(p) ==
    \/ Inside(Corner(1), Corner(2), Corner(3), p)
    \/ Inside(Corner(2), Corner(3), Corner(4), p)
    \/ Between(Corner(2), Corner(3), p)

(* The two triangles of a quad that lie on either side of their shared     *)
(* edge, neither too large, leave neither a seam nor an overlap: no pixel  *)
(* is written twice (a blend would show it), and each pixel strictly       *)
(* inside one half, or between the ends of the shared edge, is written     *)
(* (Gpu::triangle).                                                        *)
QuadsMeet ==
    /\ last[1] = "polygon" /\ Len(last[2]) = 4 /\ ~ checkMask
    /\ Orient2d(Corner(2), Corner(3), Corner(1))
           * Orient2d(Corner(2), Corner(3), Corner(4)) < 0
    /\ \A i \in 1..2 : ~ Oversized({Corner(i), Corner(i + 1), Corner(i + 2)})
    =>      \A p \in Pixels :
                /\ Drew(p) <= 1
                /\ InArea(p) /\ OnTheQuad(p) => Drew(p) = 1

(* What is interpolated over a polygon stays between the values of its     *)
(* vertices, whichever way it is wound: a texture coordinate outside them  *)
(* would wrap to another texture (the swap in Gpu::triangle).              *)
ShadesWithinVertices ==
    last[1] = "polygon" =>
        \A p \in Drawn :
            LET given == {Shades[i] : i \in DOMAIN last[2]}
            IN  Min(given) <= vram[p].val /\ vram[p].val <= Max(given)

Flat == Spread({Corner(1), Corner(2)}, 1) >= Spread({Corner(1), Corner(2)}, 2)

(* A line that the area leaves whole is unbroken: it begins at its first   *)
(* vertex, crosses the longer axis once at every step, never jumps, and    *)
(* ends within a pixel of its second vertex (draw_line_command).           *)
LineUnbroken ==
    /\ last[1] = "line" /\ ~ checkMask /\ Drawn # {}
    /\ \A i \in 1..2 : Corner(i) \in Pixels /\ InArea(Corner(i))
    =>
        /\ Corner(1) \in Drawn
        /\ \E p \in Drawn : \A k \in 1..2 : Sized(p[k] - Corner(2)[k]) <= 1
        /\ Cardinality(Drawn) = Spread({Corner(1), Corner(2)}, IF Flat THEN 1 ELSE 2) + 1
        /\ \A p \in Drawn \ {Corner(1)} : \E q \in Drawn \ {p} :
               \A k \in 1..2 : Sized(p[k] - q[k]) <= 1

(* Nothing but a fill or a copy writes outside the drawing area, and while *)
(* the mask is checked nothing but a fill changes a masked pixel: it keeps *)
(* its value and its mask, so that a second pass draws around it.          *)
WritesWhereAllowedStep ==
    /\ last'[1] \in {"polygon", "rect", "line"} =>
          \A p \in Pixels : vram'[p].times > 0 => InArea(p)
    /\ checkMask /\ last'[1] # "fill" =>
          \A p \in Pixels : vram[p].stp => vram'[p] = Untouched[p]
WritesWhereAllowed == [][WritesWhereAllowedStep]_vars
=============================================================================
