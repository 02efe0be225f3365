------------------------------ MODULE Viewport ------------------------------
(***************************************************************************)
(* The Viewport tab of the 2D graph: four spin boxes, which the graph      *)
(* tells its viewport and which tell the graph theirs on Apply.  Lengths   *)
(* are integers, of which a spin box shows the multiples of a Unit.        *)
(***************************************************************************)
EXTENDS Integers, SequencesExt

CONSTANTS Unit, LIMIT

ASSUME UnitAssumption == Unit \in Nat /\ Unit % 2 = 1 /\ LIMIT \in Nat \ {0} /\ LIMIT % Unit = 0

Rectangle == [top : Int, left : Int, width : Int, height : Int]

\* QDoubleSpinBox::setValue: the nearest value shown, within the range.
setValue(v, min) ==
    LET near == ((v + Unit \div 2) \div Unit) * Unit
    IN  CASE near < min -> min [] near > LIMIT -> LIMIT [] OTHER -> near

\* Mutant: the height is shown as it is.
setViewportUp(current) ==
    [top |-> setValue(current.top, -LIMIT), left |-> setValue(current.left, -LIMIT),
     width |-> setValue(current.width, 0), height |-> setValue(current.height, 0)]

\* A viewport has its height downwards, hence negative.
setViewport(current) ==
    [top |-> setValue(current.top, -LIMIT), left |-> setValue(current.left, -LIMIT),
     width |-> setValue(current.width, 0), height |-> setValue(-current.height, 0)]

viewport(boxes) == [boxes EXCEPT !.height = -@]

\* The graph emits viewportChanged whenever its viewport is set.
Moved(rect) == [graph |-> rect, boxes |-> setViewport(rect)]

\* A value typed in a box stays in its range.
Typed(w, box, value) ==
    [w EXCEPT !.boxes[box] = setValue(value, IF box \in {"top", "left"} THEN -LIMIT ELSE 0)]

\* Apply: emitViewport, changeViewport, and viewportChanged.
emitViewport(w) == Moved(viewport(w.boxes))

ViewportEvent(w, e) ==
    CASE e[1] = "moved" -> Moved(e[2])
      [] e[1] = "typed" -> Typed(w, e[2], e[3])
      [] e[1] = "apply" -> emitViewport(w)

Shown(rect, events) == FoldLeft(ViewportEvent, Moved(rect), events)
-----------------------------------------------------------------------------
\* A box shows its value to half a unit, or the end of its range.
Displayed(value, box, min) ==
    \/ 2 * (value - box) \in -Unit .. Unit
    \/ value < min /\ box = min
    \/ value > LIMIT /\ box = LIMIT

\* Boxes and graph agree, and Apply flattens what is not half a unit wide
\* or high, a viewport upside down included, and nothing else.
Agrees(w) ==
    LET g == w.graph
        again == emitViewport(w).graph
    IN  /\ Displayed(g.left, w.boxes.left, -LIMIT) /\ Displayed(g.top, w.boxes.top, -LIMIT)
        /\ Displayed(g.width, w.boxes.width, 0) /\ Displayed(-g.height, w.boxes.height, 0)
        /\ (again.width = 0 \/ again.height = 0) <=> (2 * g.width < Unit \/ -2 * g.height < Unit)

\* Apply leaves the boxes as they are, and a second one changes nothing: the
\* signals of graph and boxes come to rest.
Settles(w) ==
    /\ emitViewport(w).boxes = w.boxes
    /\ emitViewport(emitViewport(w)) = emitViewport(w)
=============================================================================
