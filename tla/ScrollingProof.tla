--------------------------- MODULE ScrollingProof ---------------------------
(***************************************************************************)
(* For terminals of every height, tables of every length and flows of      *)
(* every size: the types of Scrolling, that no view is scrolled past its   *)
(* end, that keys keep the marked row in the table's window and that the   *)
(* estimate by which they scroll the drill-down suffices.                  *)
(***************************************************************************)
EXTENDS Scrolling, TLAPS

\* The measures from which the bounds are computed, and the positions.
Measures == /\ height \in Nat
            /\ rows \in Nat /\ selectedFlow \in Nat
            /\ cached \in Nat /\ content \in Nat
Positions == tableScroll \in Nat /\ mainScroll \in Nat /\ drillScroll \in Nat

\* What is never more than a member of a small set.
Settings == /\ width \in Widths \cup {0} /\ height \in Heights \cup {0}
            /\ mode \in {"main", "help", "filter", "drill"}
            /\ cached \in Contents \cup {0} /\ content \in Contents \cup {0}
            /\ drillFlowIdx \in Nat /\ tracked \in BOOLEAN
InTable == rows \in 0 .. MaxRows /\ selectedFlow \in 0 .. Larger(MaxRows - 1, 0)

\* What a rendered view leaves beside the positions.
Rendered == lines \in Lines \cup {0} /\ panicked \in BOOLEAN

\* As long as the program runs, the drill-down is on the screen of a terminal that has
\* room for it.
RunsInRoom == View = "drill" /\ ~panicked => height >= 3

\* The inductive invariant.
Inv == TypeOK /\ ScreenIsFull /\ RunsInRoom
-----------------------------------------------------------------------------
\* The parts of TypeOK, and the measures that follow from them.
LEMMA Parts ==
  /\ TypeOK <=> Settings /\ InTable /\ Positions /\ Rendered
  /\ Settings /\ InTable => Measures
<1>1. TypeOK <=> Settings /\ InTable /\ Positions /\ Rendered
  BY Zenon DEF TypeOK, Settings, InTable, Positions, Rendered
<1>2. ASSUME Settings, InTable PROVE Measures
  <2>1. height \in Nat
    BY <1>2, TerminalAssumption DEF Settings
  <2>2. rows \in Nat /\ selectedFlow \in Nat
    BY <1>2, BoundsAssumption DEF InTable, Larger
  <2>3. cached \in Nat /\ content \in Nat
    BY <1>2, SizesAssumption DEF Settings
  <2>4. QED
    BY <2>1, <2>2, <2>3 DEF Measures
<1>3. QED
  BY <1>1, <1>2

\* The same after a step.
LEMMA PartsNext ==
  /\ Settings' /\ InTable' /\ Positions' /\ Rendered' => TypeOK'
  /\ Settings' /\ InTable' => Measures'
<1>1. Settings' /\ InTable' /\ Positions' /\ Rendered' => TypeOK'
  BY Zenon DEF TypeOK, Settings, InTable, Positions, Rendered
<1>2. ASSUME Settings', InTable' PROVE Measures'
  <2>1. height' \in Nat
    BY <1>2, TerminalAssumption DEF Settings
  <2>2. rows' \in Nat /\ selectedFlow' \in Nat
    BY <1>2, BoundsAssumption DEF InTable, Larger
  <2>3. cached' \in Nat /\ content' \in Nat
    BY <1>2, SizesAssumption DEF Settings
  <2>4. QED
    BY <2>1, <2>2, <2>3 DEF Measures
<1>3. QED
  BY <1>1, <1>2

\* The smaller and the larger of two numbers.
LEMMA SmallerFacts ==
  ASSUME NEW a \in Int, NEW b \in Int
  PROVE  /\ Smaller(a, b) \in {a, b} /\ Smaller(a, b) \in Int
         /\ Smaller(a, b) <= a /\ Smaller(a, b) <= b
         /\ Larger(a, b) \in {a, b} /\ Larger(a, b) \in Int
         /\ Larger(a, b) >= a /\ Larger(a, b) >= b
  BY DEF Smaller, Larger

\* The rows and the lines that there are and that there is room for.
LEMMA RoomFacts ==
  ASSUME NEW h \in Nat, NEW n \in Nat
  PROVE  /\ TableLength(n) \in Nat /\ TableRows(h) \in Nat /\ TableRows(h) >= 3
         /\ MainRows(h) \in Nat /\ DrillRows(h) \in Int /\ DrillLines(n) \in Nat
<1>1. /\ TableLength(n) \in Nat /\ TableRows(h) \in Nat /\ TableRows(h) >= 3
      /\ MainRows(h) \in Nat
  BY BoundsAssumption DEF TableLength, TableRows, MainRows, Smaller, Larger
<1>2. DrillRows(h) \in Int /\ DrillLines(n) \in Nat
  BY DEF DrillRows, DrillLines, Larger
<1>3. QED
  BY <1>1, <1>2

\* A position that is cut is one, and lies before the last.
LEMMA CutFacts ==
  ASSUME NEW x \in Nat, NEW last \in Int
  PROVE  /\ Cut(x, last) \in Nat /\ Cut(x, last) <= x
         /\ Cut(x, last) <= last \/ Cut(x, last) = 0
         /\ x <= last => Cut(x, last) = x
         /\ x > last /\ last >= 0 => Cut(x, last) = last
  BY DEF Cut, Smaller, Larger

\* What is cut to the last position at which a screen is full is one that fills
\* the screen, or the first.
LEMMA FittingCut ==
  ASSUME NEW x \in Nat, NEW all \in Nat, NEW room \in Int
  PROVE  /\ Cut(x, all - room) \in Nat
         /\ Cut(x, all - room) + room <= all \/ Cut(x, all - room) = 0
<1>1. all - room \in Int
  OBVIOUS
<1>2. /\ Cut(x, all - room) \in Nat
      /\ Cut(x, all - room) <= all - room \/ Cut(x, all - room) = 0
  BY <1>1, CutFacts
<1>3. QED
  BY <1>2

\* View makes positions of positions, and fills the screen or panics.
LEMMA RenderFacts ==
  ASSUME NEW t \in Nat, NEW m \in Nat, NEW d \in Nat, Measures', Render(t, m, d)
  PROVE  Positions' /\ Rendered' /\ ScreenIsFull' /\ RunsInRoom'
<1>1. height' \in Nat /\ cached' \in Nat /\ rows' \in Nat
  BY DEF Measures
<1> DEFINE low == View' = "drill" /\ height' < 3
<1>6. Panics <=> low
  <2>1. \A h \in Nat : DrillRows(h) < 0 => h < 3
    BY DEF DrillRows
  <2>2. \A h \in Nat : h < 3 => DrillRows(h) < 0
    BY DEF DrillRows
  <2> QED BY <1>1, <2>1, <2>2, Zenon DEF Panics
<1>7. panicked' = Panics /\ Panics \in BOOLEAN
  <2>1. panicked' = Panics
    BY DEF Render
  <2>2. Panics \in BOOLEAN
    BY Zenon DEF Panics
  <2> QED BY <2>1, <2>2
<1>8. panicked' \in BOOLEAN /\ (panicked' => low) /\ (low => panicked')
  <2> HIDE DEF low
  <2> QED BY <1>6, <1>7
<1>9. RunsInRoom'
  BY <1>1, <1>8 DEF RunsInRoom
<1> HIDE DEF low
<1>2. CASE View' = "main"
  <2> DEFINE room == MainRows(height')
             length == TableLength(rows')
             fit == TableRows(height')
  <2>1. room \in Nat /\ length \in Nat /\ fit \in Nat
    BY <1>1, RoomFacts
  <2>2. lines' \in Lines /\ lines' \in Nat /\ mainScroll' = Cut(m, lines' - room)
    BY <1>2, SizesAssumption DEF Render
  <2>3. tableScroll' = IF rows' > 0 THEN Cut(t, length - fit) ELSE t
    BY <1>2 DEF Render
  <2>4. drillScroll' = d
    BY <1>2 DEF Render
  <2>9. ~panicked'
    BY <1>2, <1>8 DEF low
  <2>5. View' = "main" /\ ~panicked'
                      /\ (mainScroll' + room <= lines' \/ mainScroll' = 0)
                      /\ (rows' > 0 => tableScroll' + fit <= length \/ tableScroll' = 0)
        => ScreenIsFull'
    BY DEF ScreenIsFull
  <2> HIDE DEF room, length, fit
  <2>6. mainScroll' \in Nat /\ (mainScroll' + room <= lines' \/ mainScroll' = 0)
    BY <2>1, <2>2, FittingCut
  <2>7. tableScroll' \in Nat /\ (rows' > 0 => tableScroll' + fit <= length \/ tableScroll' = 0)
    <3>1. CASE rows' > 0
      <4>1. tableScroll' = Cut(t, length - fit)
        BY <2>3, <3>1
      <4>2. fit \in Int
        BY <2>1
      <4>3. /\ Cut(t, length - fit) \in Nat
            /\ Cut(t, length - fit) + fit <= length \/ Cut(t, length - fit) = 0
        BY <2>1, <4>2, FittingCut
      <4>4. QED
        BY <4>1, <4>3
    <3>2. CASE ~(rows' > 0)
      BY <2>3, <3>2
    <3>3. QED
      BY <3>1, <3>2
  <2>8. QED
    BY <1>2, <1>8, <1>9, <2>2, <2>4, <2>5, <2>6, <2>7, <2>9 DEF Positions, Rendered
<1>3. CASE View' = "drill"
  <2> DEFINE room == DrillRows(height')
             all == DrillLines(cached')
  <2>1. room \in Int /\ all \in Nat
    BY <1>1, RoomFacts
  <2>2. /\ drillScroll' = IF Panics THEN d ELSE Cut(d, all - room)
        /\ tableScroll' = t /\ mainScroll' = m /\ lines' = 0
    BY <1>3 DEF Render
  <2>3. /\ height' >= 3 => drillScroll' + room <= all \/ drillScroll' = 0
        /\ panicked' => height' < 3
        => ScreenIsFull'
    BY <1>3 DEF ScreenIsFull
  <2>6. (panicked' => height' < 3) /\ (Panics => ~(height' >= 3))
    BY <1>1, <1>6, <1>8 DEF low
  <2> HIDE DEF room, all
  <2>4. drillScroll' \in Nat /\ (height' >= 3 => drillScroll' + room <= all \/ drillScroll' = 0)
    BY <2>1, <2>2, <2>6, FittingCut
  <2>5. QED
    BY <1>8, <1>9, <2>2, <2>3, <2>4, <2>6 DEF Positions, Rendered
<1>4. CASE View' \notin {"main", "drill"}
  <2>1. ~panicked'
    BY <1>4, <1>8 DEF low
  <2>2. ScreenIsFull'
    BY <1>4, <2>1 DEF ScreenIsFull
  <2>3. QED
    BY <1>4, <1>8, <1>9, <2>2 DEF Render, Positions, Rendered
<1>5. QED
  BY <1>2, <1>3, <1>4
-----------------------------------------------------------------------------
\* Every step keeps the settings.
LEMMA SettingsStep == ASSUME Inv, [Next]_vars PROVE Settings'
<1>1. Settings
  BY Parts DEF Inv
<1>2. CASE Resize
  BY <1>1, <1>2 DEF Resize, Settings, table, drill
<1>3. CASE Refresh
  <2>1. content' \in Contents \cup {0} /\ UNCHANGED <<screen, mode, tracked, drillFlowIdx, cached>>
    BY <1>1, <1>3 DEF Refresh, Settings, screen
  <2>2. QED
    BY <1>1, <2>1 DEF Settings, screen
<1>4. CASE Aggregates
  BY <1>1, <1>4 DEF Aggregates, Settings, table, screen
<1>5. CASE FilterApplies
  BY <1>1, <1>5 DEF FilterApplies, Settings, drill, screen
<1>6. CASE Up \/ Down \/ Sort
  BY <1>1, <1>6 DEF Up, Down, Sort, Settings, drill, screen
<1>7. CASE Dialog
  BY <1>1, <1>7 DEF Dialog, Settings, table, drill, screen
<1>8. CASE Enter
  <2>1. drillFlowIdx' \in Nat
    BY <1>8, Parts DEF Enter, Inv, Measures
  <2>2. /\ content' \in Contents \cup {0} /\ cached' \in Contents \cup {0}
        /\ mode' = "drill" /\ UNCHANGED <<screen, tracked>>
    BY <1>8 DEF Enter, table
  <2>3. QED
    BY <1>1, <2>1, <2>2 DEF Settings, screen
<1>9. CASE Leave
  BY <1>1, <1>9 DEF Leave, Settings, table, screen
<1>10. CASE UNCHANGED <<screen, mode, table, drill>>
  BY <1>1, <1>10 DEF Settings, table, drill, screen
<1>11. QED
  BY <1>2, <1>3, <1>4, <1>5, <1>6, <1>7, <1>8, <1>9, <1>10
  DEF Next, Keys, Redraw, MainScrolls, DrillDown, DrillUp, DrillPageDown, DrillScrolls, vars

\* Every step keeps the selection within the rows there may be.
LEMMA TableStep == ASSUME Inv, [Next]_vars PROVE InTable'
<1>1. InTable
  BY Parts DEF Inv
<1>2. CASE Refresh
  BY <1>1, <1>2, BoundsAssumption DEF Refresh, InTable, Larger
<1>3. CASE FilterApplies
  BY <1>1, <1>3, BoundsAssumption DEF FilterApplies, InTable, Larger
<1>4. CASE Up
  BY <1>1, <1>4, BoundsAssumption DEF Up, InTable, Larger
<1>5. CASE Down
  BY <1>1, <1>5, BoundsAssumption DEF Down, InTable, Larger
<1>6. CASE Sort
  BY <1>1, <1>6, BoundsAssumption DEF Sort, InTable, Larger
<1>7. CASE UNCHANGED <<rows, selectedFlow>>
  BY <1>1, <1>7 DEF InTable
<1>8. QED
  BY <1>2, <1>3, <1>4, <1>5, <1>6, <1>7
  DEF Next, Keys, Resize, Aggregates, Redraw, Dialog, Enter, Leave, MainScrolls, DrillDown,
      DrillUp, DrillPageDown, DrillScrolls, vars, table

\* The positions that Update hands to View are positions.
LEMMA Asked ==
  ASSUME Inv, NEW by \in {-10, -3, 1, 3, 10}
  PROVE  /\ Larger(mainScroll + by, 0) \in Nat
         /\ selectedFlow > 0 => Smaller(tableScroll, selectedFlow - 1) \in Nat
         /\ Larger(tableScroll, (selectedFlow + 1) - TableRows(height) + 1) \in Nat
         /\ Larger(drillScroll - by, 0) \in Nat
         /\ (IF drillScroll < KeyBound THEN drillScroll + 1 ELSE drillScroll) \in Nat
         /\ by > 0 => Smaller(drillScroll + by, KeyBound) \in Nat
<1>1. Measures /\ Positions
  BY Parts DEF Inv
<1>2. selectedFlow \in Nat /\ TableRows(height) \in Nat
  BY <1>1, RoomFacts DEF Measures
<1>3. KeyBound \in Nat
  BY <1>1, MarginAssumption DEF Measures, KeyBound, Larger
<1>4. QED
  BY <1>1, <1>2, <1>3 DEF Positions, Smaller, Larger

\* Every step keeps the positions and fills the screen.
LEMMA ScreenStep ==
  ASSUME Inv, [Next]_vars
  PROVE  Positions' /\ Rendered' /\ ScreenIsFull' /\ RunsInRoom'
<1>1. /\ Measures' /\ Positions
      /\ Rendered /\ ScreenIsFull /\ RunsInRoom
  BY SettingsStep, TableStep, Parts, PartsNext DEF Inv
<1>2. ASSUME NEW t \in Nat, NEW m \in Nat, NEW d \in Nat, Render(t, m, d)
      PROVE  Positions' /\ Rendered' /\ ScreenIsFull' /\ RunsInRoom'
  BY <1>1, <1>2, RenderFacts
<1>3. 0 \in Nat /\ tableScroll \in Nat /\ mainScroll \in Nat /\ drillScroll \in Nat
  BY <1>1 DEF Positions
<1>4. CASE Resize \/ Refresh \/ Redraw \/ FilterApplies \/ Dialog
  BY <1>2, <1>3, <1>4 DEF Resize, Refresh, Redraw, FilterApplies, Dialog
<1>5. CASE Enter \/ Leave \/ Sort
  BY <1>2, <1>3, <1>5 DEF Enter, Leave, Sort
<1>6. CASE Up
  <2>1. Smaller(tableScroll, selectedFlow') \in Nat
    BY <1>6, Asked DEF Up
  <2>2. QED
    BY <1>2, <1>3, <1>6, <2>1 DEF Up
<1>7. CASE Down
  <2>1. Larger(tableScroll, selectedFlow' - TableRows(height) + 1) \in Nat
    BY <1>7, Asked DEF Down
  <2>2. QED
    BY <1>2, <1>3, <1>7, <2>1 DEF Down
<1>8. ASSUME NEW by \in {-10, -3, 3, 10}, MainScrolls(by)
      PROVE  Positions' /\ Rendered' /\ ScreenIsFull' /\ RunsInRoom'
  BY <1>2, <1>3, <1>8, Asked DEF MainScrolls
<1>9. CASE DrillDown
  BY <1>2, <1>3, <1>9, Asked DEF DrillDown, DrillScrolls
<1>10. ASSUME NEW by \in {1, 3, 10}, DrillUp(by)
       PROVE  Positions' /\ Rendered' /\ ScreenIsFull' /\ RunsInRoom'
  BY <1>2, <1>3, <1>10, Asked DEF DrillUp, DrillScrolls
<1>11. ASSUME NEW by \in {3, 10}, DrillPageDown(by)
       PROVE  Positions' /\ Rendered' /\ ScreenIsFull' /\ RunsInRoom'
  BY <1>2, <1>3, <1>11, Asked DEF DrillPageDown, DrillScrolls
<1>12. CASE Aggregates \/ UNCHANGED vars
  BY <1>1, <1>12
  DEF Aggregates, vars, table, scrolls, drill, screen, Positions, Rendered, ScreenIsFull,
      RunsInRoom, View
<1>13. QED
  BY <1>4, <1>5, <1>6, <1>7, <1>8, <1>9, <1>10, <1>11, <1>12 DEF Next, Keys

\* The invariant is one of the specification.
THEOREM Invariance == Spec => []Inv
<1>1. Init => Inv
  <2>1. SUFFICES ASSUME Init PROVE Inv
    OBVIOUS
  <2>2. Settings /\ Positions /\ Rendered /\ RunsInRoom
    BY <2>1 DEF Init, Settings, Positions, Rendered, RunsInRoom, View
  <2>3. InTable
    BY <2>1, BoundsAssumption DEF Init, InTable, Larger
  <2>4. ScreenIsFull
    BY <2>1 DEF Init, ScreenIsFull, View
  <2>5. QED
    BY <2>2, <2>3, <2>4, Parts DEF Inv
<1>2. Inv /\ [Next]_vars => Inv'
  <2>1. SUFFICES ASSUME Inv, [Next]_vars PROVE Inv'
    OBVIOUS
  <2>2. QED
    BY <2>1, SettingsStep, TableStep, ScreenStep, PartsNext DEF Inv
<1>3. QED
  BY <1>1, <1>2, PTL DEF Spec

\* Types: selections and positions never leave their ranges.
THEOREM TypeCorrect == Spec => []TypeOK
<1>1. Inv => TypeOK
  BY DEF Inv
<1>2. QED
  BY <1>1, Invariance, PTL

\* For terminals of every size, tables, histories and widgets of every length, View never
\* renders past the end of what there is, and what it cuts (dashboard.go:140-199,
\* 236-276, 446-502) panics only in the drill-down of one or two lines or none.
THEOREM NeverPastTheEnd == Spec => []ScreenIsFull
<1>1. Inv => ScreenIsFull
  BY DEF Inv
<1>2. QED
  BY <1>1, Invariance, PTL
-----------------------------------------------------------------------------
\* A window of the table that has row s in it still has it when View has cut it.
LEMMA WindowCut ==
  ASSUME NEW s \in Nat, NEW t \in Nat, NEW length \in Nat, NEW fit \in Nat,
         s < length, t <= s, s <= t + fit - 1
  PROVE  LET c == Cut(t, length - fit) IN c <= s /\ s <= c + fit - 1
  BY DEF Cut, Smaller, Larger

\* What a key has moved within the window is in it after View.
LEMMA SightKept ==
  ASSUME NEW t \in Nat, NEW m, NEW d, Render(t, m, d), Measures',
         UNCHANGED <<height, rows>>,
         selectedFlow' < TableLength(rows),
         t <= selectedFlow', selectedFlow' <= t + TableRows(height) - 1
  PROVE  InSight'
<1> DEFINE length == TableLength(rows')
           fit == TableRows(height')
           s == selectedFlow'
<1>1. s \in Nat /\ length \in Nat /\ fit \in Nat
  BY RoomFacts DEF Measures
<1>2. s < length /\ t <= s /\ s <= t + fit - 1
  OBVIOUS
<1>3. tableScroll' = t \/ tableScroll' = Cut(t, length - fit)
  BY DEF Render
<1>4. tableScroll' \in Nat /\ s < length /\ s \in tableScroll' .. tableScroll' + fit - 1 => InSight'
  BY DEF InSight
<1> HIDE DEF s, length, fit
<1>5. CASE tableScroll' = t
  BY <1>1, <1>2, <1>4, <1>5
<1>6. CASE tableScroll' = Cut(t, length - fit)
  <2>1. tableScroll' <= s /\ s <= tableScroll' + fit - 1
    BY <1>1, <1>2, <1>6, WindowCut
  <2>2. length - fit \in Int
    BY <1>1
  <2>3. tableScroll' \in Nat
    BY <1>6, <2>2, CutFacts
  <2>4. QED
    BY <1>1, <1>2, <1>4, <2>1, <2>3
<1>7. QED
  BY <1>3, <1>5, <1>6

\* The keys keep the marked row in the window.
LEMMA KeysKeepSight ==
  ASSUME Inv, ~panicked, Keys, InSight
  PROVE  InSight' \/ selectedFlow' >= Shown
<1> DEFINE length == TableLength(rows)
           fit == TableRows(height)
<1>1. Measures' /\ Measures /\ Positions
  BY SettingsStep, TableStep, Parts, PartsNext DEF Inv, Next
<1>2. /\ selectedFlow \in Nat /\ tableScroll \in Nat /\ rows \in Nat
      /\ length \in Nat /\ fit \in Nat /\ fit >= 3
  BY <1>1, RoomFacts DEF Measures, Positions
<1>3. selectedFlow < length /\ tableScroll <= selectedFlow /\ selectedFlow <= tableScroll + fit - 1
  BY <1>2 DEF InSight
<1>4. \A n \in Nat : n < rows => n < length \/ n >= Shown
  BY <1>2, BoundsAssumption DEF TableLength, Smaller
<1>5. CASE Up
  <2> DEFINE t == Smaller(tableScroll, selectedFlow')
  <2>1. selectedFlow' = selectedFlow - 1 /\ selectedFlow > 0
    BY <1>5 DEF Up
  <2>2. t \in Nat /\ t <= selectedFlow' /\ selectedFlow' <= t + fit - 1 /\ selectedFlow' < length
    BY <1>2, <1>3, <2>1 DEF Smaller
  <2>3. Render(t, mainScroll, drillScroll) /\ UNCHANGED <<height, rows>>
    BY <1>5 DEF Up, screen
  <2>4. QED
    BY <1>1, <2>2, <2>3, SightKept
<1>6. CASE Down
  <2> DEFINE t == Larger(tableScroll, selectedFlow' - fit + 1)
  <2>1. selectedFlow' = selectedFlow + 1 /\ selectedFlow < rows - 1
    BY <1>6 DEF Down
  <2>2. t \in Nat /\ t <= selectedFlow' /\ selectedFlow' <= t + fit - 1
    BY <1>2, <1>3, <2>1 DEF Larger
  <2>3. Render(t, mainScroll, drillScroll) /\ UNCHANGED <<height, rows>>
    BY <1>6 DEF Down, screen
  <2>4. selectedFlow' < length \/ selectedFlow' >= Shown
    BY <1>2, <1>4, <2>1
  <2>5. QED
    BY <1>1, <2>2, <2>3, <2>4, SightKept
<1>7. CASE Sort
  <2>1. Render(0, mainScroll, drillScroll) /\ UNCHANGED <<height, rows>> /\ selectedFlow' = 0
    BY <1>7 DEF Sort, screen
  <2>2. 0 < length /\ 0 <= 0 + fit - 1
    BY <1>2, <1>3
  <2>3. QED
    BY <1>1, <2>1, <2>2, SightKept
<1>8. ASSUME NEW m, NEW d, Render(tableScroll, m, d), UNCHANGED <<screen, table>>
      PROVE  InSight'
  BY <1>1, <1>2, <1>3, <1>8, SightKept DEF table, screen
<1>9. QED
  BY <1>5, <1>6, <1>7, <1>8
  DEF Keys, MainScrolls, Dialog, Enter, Leave, DrillDown, DrillUp, DrillPageDown, DrillScrolls

\* No key and no turn of the wheel moves the marked row out of the window.
THEOREM KeepsSight == Spec => RowStaysInSight
<1>1. Inv /\ [Next]_vars => [Keys /\ InSight => InSight' \/ selectedFlow' >= Shown]_vars
  BY KeysKeepSight DEF Next, vars, Keys
<1>2. QED
  BY <1>1, Invariance, PTL DEF Spec, RowStaysInSight
-----------------------------------------------------------------------------
\* The estimate of the keys is at least what can be scrolled.
LEMMA EstimateFacts ==
  ASSUME NEW h \in Nat, h >= 3, NEW c \in Nat, NEW n \in Nat, n >= c
  PROVE  /\ Larger(Margin + n - Larger(h - 2, 10), 0) \in Nat
         /\ DrillLines(c) - DrillRows(h) <= Larger(Margin + n - Larger(h - 2, 10), 0)
  BY MarginAssumption DEF DrillLines, DrillRows, Larger

\* What is asked for on the way down, cut to what can be scrolled.
LEMMA DownFacts ==
  ASSUME NEW s \in Nat, NEW x \in Nat, NEW key \in Nat, NEW last \in Int,
         last <= key, s <= last \/ s = 0,
         s < key => x > s, s >= key => x >= key
  PROVE  Cut(x, last) >= s /\ (Cut(x, last) > s \/ s >= last)
  BY DEF Cut, Smaller, Larger

\* Down, PgDn and the wheel scroll down until the last packet is shown.
LEMMA EstimateStep ==
  ASSUME Inv, ~panicked, Downward, View = "drill", content >= cached
  PROVE  /\ drillScroll' >= drillScroll
         /\ drillScroll' > drillScroll \/ drillScroll + DrillRows(height) >= DrillLines(cached)
<1> DEFINE last == DrillLines(cached) - DrillRows(height)
<1>1. /\ drillScroll \in Nat /\ height \in Nat /\ height >= 3
      /\ cached \in Nat /\ content \in Nat
  BY Parts DEF Inv, RunsInRoom, Measures, Positions
<1>2. KeyBound \in Nat /\ last <= KeyBound
  BY <1>1, EstimateFacts DEF KeyBound
<1>3. DrillRows(height) \in Int /\ DrillLines(cached) \in Nat /\ last \in Int
  BY <1>1, RoomFacts
<1>4. drillScroll <= last \/ drillScroll = 0
  BY <1>1, <1>3 DEF Inv, ScreenIsFull
<1>5. PICK x : /\ DrillScrolls(x) /\ x \in Nat
               /\ drillScroll < KeyBound => x > drillScroll
               /\ drillScroll >= KeyBound => x >= KeyBound
  <2>1. CASE DrillDown
    BY <1>1, <1>2, <2>1 DEF DrillDown
  <2>2. ASSUME NEW by \in {3, 10}, DrillPageDown(by)
        PROVE  LET x == Smaller(drillScroll + by, KeyBound)
               IN  /\ DrillScrolls(x) /\ x \in Nat
                   /\ drillScroll < KeyBound => x > drillScroll
                   /\ drillScroll >= KeyBound => x >= KeyBound
    BY <1>1, <1>2, <2>2 DEF DrillPageDown, Smaller
  <2>3. QED
    BY <2>1, <2>2 DEF Downward
<1>6. drillScroll' = Cut(x, last)
  <2>1. UNCHANGED <<width, height, mode, rows, drillFlowIdx, cached>>
    BY <1>5 DEF DrillScrolls, table, drill, screen
  <2>2. View' = "drill" /\ ~Panics
    BY <1>1, <2>1 DEF View, Panics, DrillRows
  <2>3. Render(tableScroll, mainScroll, x)
    BY <1>5 DEF DrillScrolls
  <2>4. QED
    BY <2>1, <2>2, <2>3 DEF Render
<1>7. Cut(x, last) >= drillScroll /\ (Cut(x, last) > drillScroll \/ drillScroll >= last)
  BY <1>1, <1>2, <1>3, <1>4, <1>5, DownFacts
<1>8. QED
  BY <1>1, <1>3, <1>6, <1>7

\* The estimate suffices as long as the flow has the packets that are shown.
THEOREM EstimateHolds == Spec => EstimateSuffices
<1>1. Inv /\ [Next]_vars
        => [Downward /\ View = "drill" /\ content >= cached =>
              /\ drillScroll' >= drillScroll
              /\ \/ drillScroll' > drillScroll
                 \/ drillScroll + DrillRows(height) >= DrillLines(cached)]_vars
  BY EstimateStep DEF Next
<1>2. QED
  BY <1>1, Invariance, PTL DEF Spec, EstimateSuffices
=============================================================================
