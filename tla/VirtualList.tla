---------------------------- MODULE VirtualList ----------------------------
(***************************************************************************)
(* A virtualized list: the window of items the application materializes    *)
(* (client/transpile/widget-support.js and runtime.js, the port of the     *)
(* core's), the attributes the renderer mirrors (client/dom.js) and the    *)
(* controller that asks for another window as the user scrolls             *)
(* (client/virtualize.js).  Lengths are counted in items.                  *)
(*                                                                         *)
(* A slid window is part of the tree only where the application declares   *)
(* it as the list's window prop; otherwise the prop stays null.  That, and *)
(* what the application and the user may do, is chosen once, in habit.     *)
(***************************************************************************)
EXTENDS Integers, Sequences

CONSTANTS
    MaxCount,    \* bound: items
    WindowSize   \* window_size

ASSUME ListAssumption == {MaxCount, WindowSize} \subseteq Nat \ {0}

VARIABLES
    habit,      \* does the view declare the slid window? may the items change?
                \* may the user scroll on before the window came?
    count,      \* the application's items
    slid,       \* App._windows: the window it was slid to, or None
    attr,       \* the element: item count, and data-tw-window-start
    rows,       \* its children: the window that is materialized
    before,     \* the spacer above them
    laid,       \* did refresh run after the last batch?
    top,        \* the first item's length the user scrolled past
    requested,  \* the window last asked for, or None
    wire        \* scroll events on their way to the application

Quiet == wire = <<>> /\ laid
app == <<habit, count, slid>>
view == <<attr, rows, before, laid>>
listVars == <<app, view, top, requested, wire>>

MaxWire == 2  \* bound: events on their way when something else happens
None == -1
NoWindow == [from |-> None, to |-> None]
Least(a, b) == IF a < b THEN a ELSE b
Most(a, b) == IF a > b THEN a ELSE b
Windows == [from : 0..MaxCount, to : 0..MaxCount]
WholeWindow(from) == [from |-> from, to |-> Least(count, from + WindowSize)]

\* lazyChildren: the window in force, clamped to the items there are.
Materialized(s, n) ==
    IF s = NoWindow THEN [from |-> 0, to |-> Least(WindowSize, n)]
    ELSE LET from == Least(s.from, n) IN [from |-> from, to |-> Most(from, Least(s.to, n))]

Rendered == rows.to - rows.from
LastPage == Most(0, attr.count - WindowSize)

Habits == [declares : BOOLEAN, resizes : BOOLEAN, hasty : BOOLEAN]
ListInit ==
    /\ habit \in Habits
    /\ count = MaxCount /\ slid = NoWindow
    /\ attr = [count |-> count, start |-> 0]
    /\ rows = Materialized(NoWindow, count) /\ before = 0 /\ laid = TRUE
    /\ top = 0 /\ requested = None /\ wire = <<>>

-----------------------------------------------------------------------------
(* The application rebuilds, the renderer applies the batch.               *)

Prop(s) == IF habit.declares THEN s ELSE NoWindow

\* Mutant of StartAfter: the window of the update before.
StartBefore(s) == IF Prop(slid) = NoWindow THEN 0 ELSE Prop(slid).from
\* applyLazyProps: every update sets the start anew, from the window prop if
\* the update carries it.
StartAfter(s) == IF Prop(s) /= Prop(slid) THEN Prop(s).from ELSE 0

Rebuild(s, n) ==
    /\ slid' = s /\ count' = n
    /\ rows' = Materialized(s, n)
    /\ attr' = IF n = count /\ Prop(s) = Prop(slid) THEN attr
               ELSE [count |-> n, start |-> StartAfter(s)]
    /\ laid' = FALSE
    /\ UNCHANGED <<habit, before, top>>

\* apply_scroll, App.slide_window.
Slide ==
    /\ wire /= <<>>
    /\ Rebuild(Head(wire), count)
    /\ wire' = Tail(wire) /\ UNCHANGED requested

Resize == \E n \in 1..MaxCount :
    /\ habit.resizes /\ n /= count /\ Len(wire) < MaxWire
    /\ Rebuild(slid, n)
    /\ UNCHANGED <<requested, wire>>

-----------------------------------------------------------------------------
(* The controller.                                                         *)

Request(from) ==
    /\ requested' = from
    /\ wire' = Append(wire, [from |-> from, to |-> Least(attr.count, from + WindowSize)])

\* Mutant of MustRecover.
RecoverNever == FALSE
\* recoverWindow: the window lies past the end of a list that shrank.
MustRecover ==
    /\ (attr.start > LastPage) \/ (attr.count > 0 /\ Rendered = 0)
    /\ requested /= LastPage

\* refresh, in the frame after a batch: the spacers, and the recovery.  The
\* browser keeps the scroll position within what there is to scroll.
Refresh ==
    /\ ~laid /\ laid' = TRUE
    /\ IF MustRecover THEN Request(LastPage) ELSE UNCHANGED <<requested, wire>>
    /\ before' = IF Rendered = 0 \/ attr.count <= Rendered THEN 0 ELSE attr.start
    /\ top' = Least(top, Most(0, Most(attr.count, Rendered) - 1))
    /\ UNCHANGED <<app, attr, rows>>

\* A third of the window is kept above what is shown.
Lead == WindowSize \div 3
NextStart(t) == Least(LastPage, Most(0, t - Lead))

\* A window is asked for once until it comes.
MustAsk(n) == n /= attr.start /\ n /= requested

\* onScroll: the user moves within what the spacers and the rows span.
Scroll == \E t \in 0..(attr.count - 1) :
    /\ t /= top /\ top' = t /\ Len(wire) < MaxWire
    /\ habit.hasty \/ Quiet
    /\ IF /\ Rendered > 0 /\ WindowSize < attr.count
          /\ MustAsk(NextStart(t))
       THEN Request(NextStart(t)) ELSE UNCHANGED <<requested, wire>>
    /\ UNCHANGED <<app, view>>

ListNext == Slide \/ Resize \/ Refresh \/ Scroll
ListSpec == ListInit /\ [][ListNext]_listVars
\* Events arrive, and the browser draws frames; nobody has to scroll.
FairList == WF_listVars(Slide) /\ WF_listVars(Refresh)

-----------------------------------------------------------------------------
(* Properties.                                                             *)

\* Types; a window never holds items that are not there.
ListTypes ==
    /\ habit \in Habits /\ count \in 1..MaxCount /\ slid \in Windows \cup {NoWindow}
    /\ attr \in [count : 1..MaxCount, start : 0..MaxCount]
    /\ rows \in Windows /\ rows.from <= rows.to /\ rows.to <= count
    /\ before \in 0..MaxCount /\ laid \in BOOLEAN /\ top \in 0..(MaxCount - 1)
    /\ requested \in 0..MaxCount \cup {None} /\ wire \in Seq(Windows)

\* virtualize.js: the spacer pushes the window down to its true offset.
SpacerIsTrue == Quiet /\ Rendered > 0 /\ count > Rendered => before = rows.from
\* It does where the window is declared and the items stay the same.
DeclaredSpacerIsTrue == habit.declares /\ ~habit.resizes => SpacerIsTrue

\* onScroll: once the scroll event was answered, the item the user scrolled to
\* is there, for one who waits for it.
WindowFollows ==
    habit.declares /\ ~habit.resizes /\ ~habit.hasty /\ Quiet
    => top \in rows.from..(rows.to - 1)

\* Where the spacer and the window are (virtualize.js refresh, onScroll).
WindowIsTrue == ListTypes /\ DeclaredSpacerIsTrue /\ WindowFollows

\* recoverWindow: a list with items does not stay empty.
NeverStranded == (Rendered = 0) ~> (Rendered > 0)
=============================================================================
