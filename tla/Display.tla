------------------------------ MODULE Display ------------------------------
(***************************************************************************)
(* Display of vp/display.cpp: two frames in memory shared with a viewer,   *)
(* the active one shown, and the commands that software writes.  The       *)
(* layout of the framebuffer (framebuffer.h) is outside the repository.    *)
(* Coordinates are whole pixels; the error term of drawLine, which the     *)
(* code keeps in halves of a pixel, is doubled.                            *)
(***************************************************************************)
EXTENDS Integers, FiniteSets

CONSTANTS Edge,         \* frames of Edge by Edge pixels
          Colors, Black,
          MaxCommands   \* commands after the start (bounds the model)

ASSUME DisplayAssumption == Edge \in Nat \ {0} /\ Black \in Colors

Coordinate == 0 .. Edge - 1
Pixels == Coordinate \X Coordinate   \* <<x, y>>
Types == {"foreground", "background"}

VARIABLES frames,        \* the two frames
          activeFrame,   \* the one that is shown
          line,          \* end points of the line drawn last, or <<>>
          painted,       \* the pixels it consists of
          commands

displayVars == <<frames, activeFrame, line, painted, commands>>

BlackFrame == [p \in Pixels |-> Black]

DisplayInit ==
  /\ frames = [f \in {0, 1} |-> BlackFrame]
  /\ activeFrame = 0
  /\ line = <<>> /\ painted = {}
  /\ commands = 0

FrameOf(type) == IF type = "foreground" THEN activeFrame ELSE 1 - activeFrame

-----------------------------------------------------------------------------
(* drawLine                                                                *)

Magnitude(a) == IF a < 0 THEN -a ELSE a
Lesser(a, b) == IF a < b THEN a ELSE b
Greater(a, b) == IF a < b THEN b ELSE a
Transposed(p) == <<p[2], p[1]>>

\* Mutant of Track: the error starts at zero.
TrackFromZero(f, t) ==
  LET dx == t[1] - f[1]
      dy == Magnitude(t[2] - f[2])
      ystep == IF f[2] < t[2] THEN 1 ELSE -1
      at[x \in f[1] .. t[1]] ==
        IF x = f[1] THEN [y |-> f[2], error |-> 0]
        ELSE LET e == at[x - 1].error - 2 * dy
             IN  IF e < 0 THEN [y |-> at[x - 1].y + ystep, error |-> e + 2 * dx]
                 ELSE [y |-> at[x - 1].y, error |-> e]
  IN at

\* y and the doubled error of the loop over x from f to t, which lie from left
\* to right and are further apart in x than in y.
Track(f, t) ==
  LET dx == t[1] - f[1]
      dy == Magnitude(t[2] - f[2])
      ystep == IF f[2] < t[2] THEN 1 ELSE -1
      at[x \in f[1] .. t[1]] ==
        IF x = f[1] THEN [y |-> f[2], error |-> dx]
        ELSE LET e == at[x - 1].error - 2 * dy
             IN  IF e < 0 THEN [y |-> at[x - 1].y + ystep, error |-> e + 2 * dx]
                 ELSE [y |-> at[x - 1].y, error |-> e]
  IN at

\* The pixels of a line; a slanted one lacks the last.
LinePixels(from, to) ==
  LET dx == Magnitude(to[1] - from[1])
      dy == Magnitude(to[2] - from[2])
      steep == dy > dx
      a == IF steep THEN Transposed(from) ELSE from
      b == IF steep THEN Transposed(to) ELSE to
      f == IF a[1] > b[1] THEN b ELSE a
      t == IF a[1] > b[1] THEN a ELSE b
      y == Track(f, t)
      plotted == {<<x, y[x].y>> : x \in f[1] .. t[1] - 1}
  IN  IF dx = 0 \/ dy = 0
      THEN (Lesser(from[1], to[1]) .. Greater(from[1], to[1]))
             \X (Lesser(from[2], to[2]) .. Greater(from[2], to[2]))
      ELSE IF steep THEN {Transposed(p) : p \in plotted} ELSE plotted

-----------------------------------------------------------------------------
(* transport                                                               *)

Command == commands < MaxCommands /\ commands' = commands + 1

Paint(type, pixels, color) ==
  frames' = [frames EXCEPT ![FrameOf(type)] =
               [p \in Pixels |-> IF p \in pixels THEN color ELSE @[p]]]

\* The counter of frames is cleared with the rest, and then counted up.
ClearAll ==
  /\ Command
  /\ frames' = [f \in {0, 1} |-> BlackFrame]
  /\ activeFrame' = 1
  /\ line' = <<>> /\ painted' = {}

FillFrame(type, color) ==
  /\ Command
  /\ Paint(type, Pixels, color)
  /\ line' = <<>> /\ painted' = {}
  /\ UNCHANGED activeFrame

\* The other frame is shown, and drawing goes on from a copy of it.
ApplyFrame ==
  /\ Command
  /\ activeFrame' = 1 - activeFrame
  /\ frames' = [f \in {0, 1} |-> frames[1 - activeFrame]]
  /\ line' = <<>> /\ painted' = {}

DrawLine(type, from, to, color) ==
  /\ Command
  /\ line' = <<from, to>>
  /\ painted' = LinePixels(from, to)
  /\ Paint(type, painted', color)
  /\ UNCHANGED activeFrame

\* Any other write goes to the frames as it is.
WritePixel(f, p, color) ==
  /\ Command
  /\ frames' = [frames EXCEPT ![f][p] = color]
  /\ line' = <<>> /\ painted' = {}
  /\ UNCHANGED activeFrame

DisplayNext ==
  \/ ClearAll \/ ApplyFrame
  \/ \E type \in Types, c \in Colors :
       \/ FillFrame(type, c)
       \/ \E from, to \in Pixels : DrawLine(type, from, to, c)
  \/ \E f \in {0, 1}, p \in Pixels, c \in Colors : WritePixel(f, p, c)

DisplaySpec == DisplayInit /\ [][DisplayNext]_displayVars

-----------------------------------------------------------------------------
(* Properties                                                              *)

\* drawLine paints the line it was asked for: one pixel per step of the longer
\* side, none of them further than half a pixel from the ideal line, and none
\* outside the box of the end points (display.cpp:104-160).
LineExact ==
  line # <<>> =>
    LET from == line[1]
        to == line[2]
        dx == to[1] - from[1]
        dy == to[2] - from[2]
        longer == Greater(Magnitude(dx), Magnitude(dy))
    IN  /\ Cardinality(painted) = IF dx = 0 \/ dy = 0 THEN longer + 1 ELSE longer
        /\ \A p \in painted :
             /\ Magnitude(2 * (dx * (p[2] - from[2]) - dy * (p[1] - from[1]))) <= longer
             /\ p[1] \in Lesser(from[1], to[1]) .. Greater(from[1], to[1])
             /\ p[2] \in Lesser(from[2], to[2]) .. Greater(from[2], to[2])
=============================================================================
