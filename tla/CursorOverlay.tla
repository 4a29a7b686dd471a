---------------------------- MODULE CursorOverlay ----------------------------
(***************************************************************************)
(* draw_cursor_bgra of capture-helper: the cursor's bitmap is fetched when *)
(* its handle changes and copied into every frame.                         *)
(***************************************************************************)
EXTENDS Integers

CONSTANTS
  Shapes,   \* cursor handles
  HotX, HotY, CursorW, CursorH, \* of each handle: ICONINFO's hotspot, the bitmap's size
  Opaque,   \* of each handle: the pixels of the bitmap whose alpha is not 0
  NoShape,
  FrameW, FrameH

ASSUME OverlayAssumption ==
  /\ NoShape \notin Shapes /\ FrameW \in Nat \ {0} /\ FrameH \in Nat \ {0}
  /\ \A s \in Shapes : HotX[s] \in Nat /\ HotY[s] \in Nat
                       /\ CursorW[s] \in Nat \ {0} /\ CursorH[s] \in Nat \ {0}

\* CursorState: the handle and the hotspot it has, whose pixels and whose size.
NoCursor == [handle |-> NoShape, hot |-> NoShape, pixels |-> NoShape, size |-> NoShape]
CursorStates ==
  LET S == Shapes \cup {NoShape} IN [handle : S, hot : S, pixels : S, size : S]

\* The call that fails: GetIconInfo, or one of GetObjectW and GetDIBits.
Failures == {"none", "icon_info", "bitmap"}

\* Pixels are replaced only when the new ones have come.
MutantKeepsPixels(state, shape, failure) ==
  CASE shape = state.handle \/ failure = "icon_info" -> state
    [] failure = "bitmap" -> [state EXCEPT !.handle = shape, !.hot = shape]
    [] OTHER -> [handle |-> shape, hot |-> shape, pixels |-> shape, size |-> shape]

Fetch(state, shape, failure) ==
  CASE shape = state.handle \/ failure = "icon_info" -> state
    [] failure = "bitmap" ->
         [state EXCEPT !.handle = shape, !.hot = shape, !.pixels = NoShape]
    [] OTHER -> [handle |-> shape, hot |-> shape, pixels |-> shape, size |-> shape]

Least(a, b) == IF a < b THEN a ELSE b
Clipped(at, frame, size) ==
  (IF at < 0 THEN -at ELSE 0) .. (Least(frame - at, size) - 1)

\* The pixels of the bitmap that are in the frame: where, and which of whose.
InFrame(state, x, y) ==
  LET cx == x - HotX[state.hot]
      cy == y - HotY[state.hot]
      cw == CursorW[state.size]
  IN  {[dst |-> (cy + py) * FrameW + cx + px, src |-> py * cw + px, of |-> state.pixels] :
         py \in Clipped(cy, FrameH, CursorH[state.size]), px \in Clipped(cx, FrameW, cw)}

\* The pixels that are copied: a transparent one is skipped.
Blit(state, x, y) == {p \in InFrame(state, x, y) : p.src \in Opaque[state.pixels]}

\* After Fetch; a new handle that could not be fetched ends the call.
Draw(state, shape, x, y) ==
  IF state.handle # shape \/ state.pixels = NoShape THEN {} ELSE Blit(state, x, y)

-----------------------------------------------------------------------------
\* What should be in the frame: of each of its pixels, the one of the cursor
\* that lies over it, unless that is transparent.
Covered(shape, x, y) ==
  {[dst |-> fy * FrameW + fx,
    src |-> (fy - y + HotY[shape]) * CursorW[shape] + (fx - x + HotX[shape]),
    of  |-> shape] :
     fy \in {b \in 0..FrameH - 1 : b - y + HotY[shape] \in 0..CursorH[shape] - 1},
     fx \in {a \in 0..FrameW - 1 : a - x + HotX[shape] \in 0..CursorW[shape] - 1}}

Overlay(shape, x, y) == {p \in Covered(shape, x, y) : p.src \in Opaque[shape]}
=============================================================================
