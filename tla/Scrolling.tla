------------------------------ MODULE Scrolling ------------------------------
(***************************************************************************)
(* The scroll positions of internal/tui/dashboard.go.  The handlers of     *)
(* keys and of the mouse wheel move them by estimates of what there is to  *)
(* see; View, which bubbletea calls after every Update, cuts those of the  *)
(* view it renders to what there really is.  In between, refreshes change  *)
(* the number of rows and the flow that is drilled into, and the terminal  *)
(* changes its height.                                                     *)
(*                                                                         *)
(* Dashboard has what the rows are; here a row is a number.  Of the        *)
(* terminal's width only matters whether it is 0, as before the first      *)
(* WindowSizeMsg: then View renders nothing.                               *)
(***************************************************************************)
EXTENDS Integers

CONSTANTS Widths,     \* widths of the terminal, and
          Heights,    \* its heights
          Lines,      \* numbers of lines that the main view may have
          Contents,   \* sizes of a flow's packet history and of its other lists
          MaxRows,    \* bound of the model: flows in the table
          Shown,      \* rows that the table shows at most (200)
          Margin,     \* lines that the keys expect beside what is counted (50)
          MaxScroll   \* bound of the model: mainScroll before the first render

ASSUME TerminalAssumption == Widths \subseteq Nat /\ Heights \subseteq Nat
ASSUME SizesAssumption == Lines \subseteq Nat /\ Contents \subseteq Nat
ASSUME BoundsAssumption == MaxRows \in Nat /\ Shown \in Nat /\ MaxScroll \in Nat
ASSUME MarginAssumption == Margin \in Nat /\ Margin >= 15

VARIABLES width, height,
          panicked,     \* View has cut a slice at a negative index, which ends the program
          mode,         \* helpMode, filterMode or drillMode: each is set in the main view only
          rows,         \* Len(d.flows)
          selectedFlow,
          tracked,      \* selectedFlowId # ""
          tableScroll, mainScroll, drillScroll,
          lines,        \* how many lines the main view has, 0 when another is rendered
          drillFlowIdx,
          cached,       \* len(d.cachedPackets)
          content       \* of the flow drilled into: PacketHistory.Len() +
                        \* len(StateChanges) + len(DNSQueries)

table == <<rows, selectedFlow, tracked>>
drill == <<drillFlowIdx, cached, content>>
scrolls == <<tableScroll, mainScroll, drillScroll, lines>>
screen == <<width, height>>
vars == <<screen, panicked, mode, table, scrolls, drill>>

Smaller(a, b) == IF a < b THEN a ELSE b
Larger(a, b) == IF a > b THEN a ELSE b

View == IF width = 0 THEN "initializing"
        ELSE IF mode \in {"help", "filter"} THEN mode
        ELSE IF mode = "drill" /\ drillFlowIdx < rows THEN "drill"
        ELSE "main"

\* The lines that the views have room for in a terminal of height h, and the
\* rows the table shows of n.
MainRows(h) == Larger(h, 10)
TableRows(h) == Larger(h - 12, 3)
DrillRows(h) == h - 3
TableLength(n) == Smaller(n, Shown)

\* The lines that renderDrillDown has to show, and how far the keys and the wheel
\* estimate that they can be scrolled.
DrillLines(packets) == 4 + Larger(packets, 1)
KeyBound == Larger(Margin + content - Larger(height - 2, 10), 0)

\* A position that is cut to the last at which something is left to see.
Cut(x, last) == Smaller(x, Larger(last, 0))

\* renderDrillDown cuts rightLines[:availableRows] before it looks at its position; in a
\* low terminal that is a negative index.
Panics == View' = "drill" /\ DrillRows(height') < 0

\* Mutant of Render: the table is left as the key has put it.
RenderUncut(t, m, d) ==
  /\ panicked' = Panics
  /\ tableScroll' = t
  /\ IF View' = "main" THEN lines' \in Lines /\ mainScroll' = Cut(m, lines' - MainRows(height'))
                       ELSE lines' = 0 /\ mainScroll' = m
  /\ drillScroll' = IF View' = "drill" /\ ~Panics
                       THEN Cut(d, DrillLines(cached') - DrillRows(height')) ELSE d

\* View, of positions that Update has set: the main view cuts its own and the
\* table's (an empty table has none), the drill-down its own.
Render(t, m, d) ==
  /\ panicked' = Panics
  /\ tableScroll' = IF View' = "main" /\ rows' > 0
                      THEN Cut(t, TableLength(rows') - TableRows(height')) ELSE t
  /\ IF View' = "main" THEN lines' \in Lines /\ mainScroll' = Cut(m, lines' - MainRows(height'))
                       ELSE lines' = 0 /\ mainScroll' = m
  /\ drillScroll' = IF View' = "drill" /\ ~Panics
                       THEN Cut(d, DrillLines(cached') - DrillRows(height')) ELSE d
-----------------------------------------------------------------------------
\* NewDashboard
Init == /\ width = 0 /\ height = 0 /\ panicked = FALSE /\ mode = "main"
        /\ rows = 0 /\ selectedFlow = 0 /\ tracked = FALSE
        /\ tableScroll = 0 /\ mainScroll = 0 /\ drillScroll = 0 /\ lines = 0
        /\ drillFlowIdx = 0 /\ cached = 0 /\ content = 0

\* WindowSizeMsg
Resize == /\ width' \in Widths /\ height' \in Heights
          /\ UNCHANGED <<mode, table, drill>>
          /\ Render(tableScroll, mainScroll, drillScroll)

\* RefreshFlowsMsg: any number of rows, the selection wherever its conversation
\* is now; the flow drilled into is given the PacketHistory of a new flow of
\* its conversation.
Refresh == /\ rows' \in 0 .. MaxRows
           /\ \/ selectedFlow' = selectedFlow
              \/ tracked /\ selectedFlow' \in 0 .. rows' - 1
           /\ content' = content \/ (mode = "drill" /\ content' \in Contents)
           /\ UNCHANGED <<screen, mode, tracked, drillFlowIdx, cached>>
           /\ Render(tableScroll, mainScroll, drillScroll)

\* The aggregator counts packets of the flow drilled into; nothing is rendered.
Aggregates == /\ mode = "drill"
              /\ content' \in {c \in Contents : c > content}
              /\ UNCHANGED <<screen, panicked, mode, table, scrolls, drillFlowIdx, cached>>

\* A message that changes none of this: the view is rendered again.
Redraw == /\ UNCHANGED <<screen, mode, table, drill>>
          /\ Render(tableScroll, mainScroll, drillScroll)
-----------------------------------------------------------------------------
\* Mutant of Up: the first row is not looked for.
UpUnguarded == /\ mode = "main"
               /\ selectedFlow' = selectedFlow - 1 /\ tracked' = (tracked \/ selectedFlow' < rows)
               /\ UNCHANGED <<screen, mode, rows, drill>>
               /\ Render(Smaller(tableScroll, selectedFlow'), mainScroll, drillScroll)

\* The keys of the main view, and its wheel
Up == /\ mode = "main" /\ selectedFlow > 0
      /\ selectedFlow' = selectedFlow - 1 /\ tracked' = (tracked \/ selectedFlow' < rows)
      /\ UNCHANGED <<screen, mode, rows, drill>>
      /\ Render(Smaller(tableScroll, selectedFlow'), mainScroll, drillScroll)

\* Mutant of Down: the last row that fits is taken to be the one below it.
DownLate == /\ mode = "main" /\ selectedFlow < rows - 1
            /\ selectedFlow' = selectedFlow + 1 /\ tracked' = TRUE
            /\ UNCHANGED <<screen, mode, rows, drill>>
            /\ Render(Larger(tableScroll, selectedFlow' - TableRows(height)), mainScroll, drillScroll)

Down == /\ mode = "main" /\ selectedFlow < rows - 1
        /\ selectedFlow' = selectedFlow + 1 /\ tracked' = TRUE
        /\ UNCHANGED <<screen, mode, rows, drill>>
        /\ Render(Larger(tableScroll, selectedFlow' - TableRows(height) + 1), mainScroll, drillScroll)

Sort == /\ mode = "main"
        /\ selectedFlow' = 0 /\ tracked' = FALSE
        /\ UNCHANGED <<screen, mode, rows, drill>>
        /\ Render(0, mainScroll, drillScroll)

\* PgUp and PgDn, and a tick of the wheel
MainScrolls(by) == /\ mode = "main" /\ (width = 0 => mainScroll + by <= MaxScroll)
                   /\ UNCHANGED <<screen, mode, table, drill>>
                   /\ Render(tableScroll, Larger(mainScroll + by, 0), drillScroll)

\* Help and the filter dialog open from the main view and lead back to it;
\* enter in the dialog also replaces the rows.
Dialog == /\ \/ mode = "main" /\ mode' \in {"help", "filter"}
             \/ mode \in {"help", "filter"} /\ mode' = "main"
          /\ UNCHANGED <<screen, table, drill>>
          /\ Render(tableScroll, mainScroll, drillScroll)

FilterApplies == /\ mode = "filter" /\ mode' = "main"
                 /\ rows' \in 0 .. MaxRows /\ selectedFlow' = 0 /\ tracked' = FALSE
                 /\ UNCHANGED <<screen, drill>>
                 /\ Render(tableScroll, mainScroll, drillScroll)
-----------------------------------------------------------------------------
\* Enter; of what is counted in content only the packets are shown.
Enter == /\ mode = "main" /\ selectedFlow < rows
         /\ mode' = "drill" /\ drillFlowIdx' = selectedFlow
         /\ content' \in Contents /\ cached' \in {c \in Contents : c <= content'}
         /\ UNCHANGED <<screen, table>>
         /\ Render(tableScroll, mainScroll, 0)

\* The row drilled into is of no further use: Enter sets it anew.
Leave == /\ mode = "drill" /\ mode' = "main"
         /\ cached' = 0 /\ content' = 0 /\ drillFlowIdx' = 0
         /\ UNCHANGED <<screen, table>>
         /\ Render(tableScroll, mainScroll, 0)

\* Up, PgUp and the wheel; down; PgDn and the wheel
DrillScrolls(d) == /\ mode = "drill"
                   /\ UNCHANGED <<screen, mode, table, drill>>
                   /\ Render(tableScroll, mainScroll, d)

DrillUp(by) == DrillScrolls(Larger(drillScroll - by, 0))
DrillDown == DrillScrolls(IF drillScroll < KeyBound THEN drillScroll + 1 ELSE drillScroll)

\* Mutant of DrillPageDown: the estimate leaves no room beside the packets.
DrillPageDownShort(by) ==
  DrillScrolls(Smaller(drillScroll + by, Larger(content - Larger(height - 2, 10), 0)))

DrillPageDown(by) == DrillScrolls(Smaller(drillScroll + by, KeyBound))

\* What the keys and the wheel do, but for the filter
Keys == \/ Up \/ Down \/ Sort \/ \E by \in {-10, -3, 3, 10} : MainScrolls(by)
        \/ Dialog \/ Enter \/ Leave \/ DrillDown
        \/ \E by \in {1, 3, 10} : DrillUp(by)
        \/ \E by \in {3, 10} : DrillPageDown(by)

Next == /\ ~panicked
        /\ Resize \/ Refresh \/ Aggregates \/ Redraw \/ FilterApplies \/ Keys

Spec == Init /\ [][Next]_vars
-----------------------------------------------------------------------------
TypeOK ==
  /\ width \in Widths \cup {0} /\ height \in Heights \cup {0} /\ panicked \in BOOLEAN
  /\ mode \in {"main", "help", "filter", "drill"}
  /\ rows \in 0 .. MaxRows /\ selectedFlow \in 0 .. Larger(MaxRows - 1, 0) /\ tracked \in BOOLEAN
  /\ tableScroll \in Nat /\ mainScroll \in Nat /\ drillScroll \in Nat
  /\ lines \in Lines \cup {0}
  /\ drillFlowIdx \in Nat /\ cached \in Contents \cup {0} /\ content \in Contents \cup {0}

\* No view is ever scrolled past its end: the screen is full, or shows the view
\* from its first line, whatever was typed while another view was on the screen
\* and whatever has become of the rows, the packets or the terminal since.  View
\* panics only where the drill-down has fewer than the three lines it takes for itself
\* (dashboard.go:446-452).
ScreenIsFull ==
  /\ View = "main" =>
       /\ mainScroll + MainRows(height) <= lines \/ mainScroll = 0
       /\ rows > 0 => tableScroll + TableRows(height) <= TableLength(rows) \/ tableScroll = 0
  /\ View = "drill" /\ height >= 3 =>
       drillScroll + DrillRows(height) <= DrillLines(cached) \/ drillScroll = 0
  /\ panicked => View = "drill" /\ height < 3

\* The marked row is among those that the table has scrolled to.
InSight == /\ selectedFlow < TableLength(rows)
           /\ selectedFlow \in tableScroll .. tableScroll + TableRows(height) - 1

\* No key and no turn of the wheel moves the marked row out of the table's
\* window, except into the rows that are never shown: only a refresh, a filter
\* and a change of the terminal's height can.
RowStaysInSight == [][Keys /\ InSight => InSight' \/ selectedFlow' >= Shown]_vars

\* The keys estimate the lines of the drill-down well enough: as long as the
\* flow has at least the packets that are shown, down, PgDn and the wheel never
\* scroll up, and they scroll down until the last packet is on the screen.
Downward == DrillDown \/ \E by \in {3, 10} : DrillPageDown(by)
EstimateSuffices ==
  [][Downward /\ View = "drill" /\ content >= cached =>
       /\ drillScroll' >= drillScroll
       /\ drillScroll' > drillScroll \/ drillScroll + DrillRows(height) >= DrillLines(cached)]_vars
=============================================================================
