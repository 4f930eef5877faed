------------------------------ MODULE Dashboard ------------------------------
(***************************************************************************)
(* internal/tui/dashboard.go: the state of the terminal dashboard, driven  *)
(* by key presses and by the refresh message every 500 ms.  Bubbletea runs *)
(* Update in one goroutine, so a message is handled in one step; what a    *)
(* refresh does to the shared Flow objects meanwhile is in LiveFlows.      *)
(*                                                                         *)
(* The aggregator is the FlowTable that FlowAggregator is proved to        *)
(* implement: d.flows holds its Flow pointers, the places of objs.         *)
(* Scroll positions, sizes and what a widget prints are left out.          *)
(***************************************************************************)
EXTENDS Naturals, SequencesExt

CONSTANTS Conversations,  \* pairs <<set of hosts, protocol name>>
          Protos,         \* d.availableProtos; "" is no filter
          NoId,           \* selectedFlowId is ""
          Keys,           \* the keys the user presses
          MaxFlows,       \* bound of the model: flows ever opened
          MaxPackets      \* bound of the model: packets of a flow

\* tea.KeyMsg.  k and j do what up and down do, except in the filter dialog,
\* where they do nothing; d and h, which README.md lists, are bound to nothing.
KeyNames == {"q", "ctrl+c", "esc", "enter", "up", "down", "k", "j", "p", "f", "s", "?", "d", "h"}

\* What getFlowId can return; it is never empty.
AllIds == {<<h, c>> : h \in UNION {c[1] : c \in Conversations}, c \in Conversations}

ASSUME NoIdAssumption == NoId \notin AllIds
ASSUME ProtosAssumption == Protos \in Seq(STRING) /\ Len(Protos) > 0 /\ Protos[1] = ""
ASSUME KeysAssumption == Keys \subseteq KeyNames

VARIABLES objs,           \* the aggregator's flows (see FlowTable)
          flows,          \* d.flows: places in objs, in the order of the rows
          allFlows,       \* d.allFlows, as a set: whoever uses it sorts
          selectedFlow, selectedFlowId,
          sortBy, filterProto, filterInput,
          helpMode, filterMode, drillMode,
          drillFlowIdx, frozenFlows,
          cachedFrom,     \* whose packets d.cachedPackets holds, <<>> if nil
          paused, quit

selection == <<selectedFlow, selectedFlowId>>
filter == <<filterProto, filterInput, filterMode>>
drill == <<drillMode, drillFlowIdx, frozenFlows, cachedFrom>>
vars == <<objs, flows, allFlows, selection, sortBy, filter, helpMode, drill, paused, quit>>

Table == INSTANCE FlowTable

\* getFlowId: source, destination and protocol of the flow, in the direction
\* of its first packet.
getFlowId(i) == <<objs[i].opener, objs[i].conv>>
Ids(S) == {getFlowId(i) : i \in S}
ProtocolOf(i) == objs[i].conv[2]
OpenFlows == {i \in DOMAIN objs : objs[i].status = "open"}

MainView == ~helpMode /\ ~filterMode /\ ~drillMode
-----------------------------------------------------------------------------
\* NewDashboard
Init == /\ Table!Init
        /\ flows = <<>> /\ allFlows = {}
        /\ selectedFlow = 0 /\ selectedFlowId = NoId
        /\ sortBy = "bytes" /\ filterProto = "" /\ filterInput = ""
        /\ helpMode = FALSE /\ filterMode = FALSE /\ drillMode = FALSE
        /\ drillFlowIdx = 0 /\ frozenFlows = <<>> /\ cachedFrom = <<>>
        /\ paused = FALSE /\ quit = FALSE

\* The aggregator counts a packet or closes idle flows.
Aggregates == /\ Table!Next
              /\ Len(objs') <= MaxFlows
              /\ \A i \in DOMAIN objs' : objs'[i].pkts <= MaxPackets
              /\ UNCHANGED <<flows, allFlows, selection, sortBy, filter, helpMode,
                             drill, paused, quit>>

\* sortFlows: its comparison reads counters that the aggregator is changing,
\* and sort.Slice is not stable, so the rows may end in any order.
Sorted(S) == SetToSeqs(S)

\* The index of the row that shows the selected conversation, if there is one.
RowsOf(s, id) == {n \in DOMAIN s : getFlowId(s[n]) = id}

\* Mutant of Reselected: the selected row keeps its number when rows move.
ReselectedByIndex(s) == selectedFlow

Reselected(s) == IF selectedFlowId # NoId /\ RowsOf(s, selectedFlowId) # {}
                 THEN (CHOOSE n \in RowsOf(s, selectedFlowId) : TRUE) - 1
                 ELSE selectedFlow

\* Mutant of Refreshed: new flows are appended without looking whether there is
\* a row for them.
RefreshedAddsAll(rows, new) == {i \in rows : getFlowId(i) \in Ids(new)} \cup new

\* updateFlows: the rows whose conversation the aggregator still has, and the
\* flows of the conversations that no row shows.
Refreshed(rows, new) ==
  LET kept == {i \in rows : getFlowId(i) \in Ids(new)}
  IN  kept \cup {j \in new : getFlowId(j) \notin Ids(kept)}

\* RefreshFlowsMsg, which schedules the next one
Refresh ==
  /\ ~quit
  /\ \/ /\ paused
        /\ UNCHANGED <<flows, allFlows, selection>>
     \/ /\ ~paused
        /\ \E s \in Sorted(Refreshed(ToSet(flows), OpenFlows)) :
             /\ flows' = s
             /\ selectedFlow' = Reselected(s)
        /\ allFlows' = OpenFlows
        /\ UNCHANGED selectedFlowId
  /\ UNCHANGED <<objs, sortBy, filter, helpMode, drill, paused, quit>>
-----------------------------------------------------------------------------
\* handleKeypress in help mode
HelpKey(k) == /\ helpMode
              /\ helpMode' = (k \notin {"esc", "q", "?"})
              /\ UNCHANGED <<flows, selection, sortBy, filter, drill, paused, quit>>

\* The option above or below, round the ends of the list.
Neighbour(p, step) ==
  LET n == CHOOSE i \in DOMAIN Protos : Protos[i] = p
  IN  Protos[((n - 1 + step) % Len(Protos)) + 1]

\* applyFilters
Filtered(p) == IF p = "" THEN allFlows ELSE {i \in allFlows : ProtocolOf(i) = p}

\* What a key other than enter makes of the option chosen.
Chosen(k) == CASE k = "esc"  -> ""
               [] k = "up"   -> Neighbour(filterInput, Len(Protos) - 1)
               [] k = "down" -> Neighbour(filterInput, 1)
               [] OTHER      -> filterInput

\* handleKeypress in filter mode
FilterKey(k) ==
  /\ filterMode /\ ~helpMode
  /\ \/ /\ k = "enter"
        /\ filterProto' = filterInput /\ filterInput' = "" /\ filterMode' = FALSE
        /\ flows' \in Sorted(Filtered(filterInput))
        /\ selectedFlow' = 0 /\ selectedFlowId' = NoId
     \/ /\ k # "enter"
        /\ filterInput' = Chosen(k)
        /\ filterMode' = (k # "esc")
        /\ UNCHANGED <<filterProto, flows, selection>>
  /\ UNCHANGED <<sortBy, helpMode, drill, paused, quit>>

\* handleKeypress in drill mode: the keys that do not leave it only scroll.
DrillKey(k) ==
  /\ drillMode /\ ~helpMode /\ ~filterMode
  /\ \/ /\ k \in {"esc", "q"}
        /\ drillMode' = FALSE /\ frozenFlows' = <<>> /\ cachedFrom' = <<>>
        /\ UNCHANGED drillFlowIdx
     \/ /\ k \notin {"esc", "q"}
        /\ UNCHANGED drill
  /\ UNCHANGED <<flows, selection, sortBy, filter, helpMode, paused, quit>>
-----------------------------------------------------------------------------
\* Selecting row n (counted from 0) also notes which conversation it shows.
Select(n) ==
  /\ selectedFlow' = n
  /\ selectedFlowId' = IF n < Len(flows) THEN getFlowId(flows[n + 1]) ELSE selectedFlowId

\* The handlers of the main view's keys.
QuitKey == /\ quit' = TRUE
           /\ UNCHANGED <<flows, selection, sortBy, filter, helpMode, drill, paused>>

PauseKey == /\ paused' = ~paused
            /\ UNCHANGED <<flows, selection, sortBy, filter, helpMode, drill, quit>>

\* Mutant of UpKey: the first row is not looked for.
UpKeyUnguarded == /\ selectedFlow' = selectedFlow - 1
                  /\ UNCHANGED <<flows, selectedFlowId, sortBy, filter, helpMode, drill, paused, quit>>

UpKey == /\ selectedFlow > 0
         /\ Select(selectedFlow - 1)
         /\ UNCHANGED <<flows, sortBy, filter, helpMode, drill, paused, quit>>

DownKey == /\ selectedFlow + 1 < Len(flows)
           /\ Select(selectedFlow + 1)
           /\ UNCHANGED <<flows, sortBy, filter, helpMode, drill, paused, quit>>

EnterKey == /\ selectedFlow < Len(flows)
            /\ drillMode' = TRUE
            /\ drillFlowIdx' = selectedFlow
            /\ frozenFlows' = flows
            /\ cachedFrom' = <<flows[selectedFlow + 1]>>
            /\ UNCHANGED <<flows, selection, sortBy, filter, helpMode, paused, quit>>

OpenFilterKey == /\ filterMode' = TRUE
                 /\ filterInput' = filterProto
                 /\ UNCHANGED <<flows, selection, sortBy, filterProto, helpMode, drill, paused, quit>>

NextSort == [bytes |-> "packets", packets |-> "duration", duration |-> "latest", latest |-> "bytes"]

\* Mutant of SortKey: the first row is marked, but which conversation was selected
\* is not forgotten.
SortKeyKeepsId == /\ sortBy' = NextSort[sortBy]
                  /\ flows' \in Sorted(ToSet(flows))
                  /\ selectedFlow' = 0
                  /\ UNCHANGED <<selectedFlowId, filter, helpMode, drill, paused, quit>>

SortKey == /\ sortBy' = NextSort[sortBy]
           /\ flows' \in Sorted(ToSet(flows))
           /\ selectedFlow' = 0 /\ selectedFlowId' = NoId
           /\ UNCHANGED <<filter, helpMode, drill, paused, quit>>

HelpOpenKey == /\ helpMode' = TRUE
               /\ UNCHANGED <<flows, selection, sortBy, filter, drill, paused, quit>>

\* A key that scrolls, that nothing is bound to, or that has no row to act on.
IdleKey == UNCHANGED <<flows, selection, sortBy, filter, helpMode, drill, paused, quit>>

\* handleKeypress in the main view
MainKey(k) ==
  /\ MainView
  /\ \/ k \in {"q", "ctrl+c"} /\ QuitKey
     \/ k = "p" /\ PauseKey
     \/ k \in {"up", "k"} /\ UpKey
     \/ k \in {"down", "j"} /\ DownKey
     \/ k = "enter" /\ EnterKey
     \/ k = "f" /\ OpenFilterKey
     \/ k = "s" /\ SortKey
     \/ k = "?" /\ HelpOpenKey
     \/ /\ \/ k \notin {"q", "ctrl+c", "p", "up", "k", "down", "j", "enter", "f", "s", "?"}
           \/ k \in {"up", "k"} /\ selectedFlow = 0
           \/ k \in {"down", "j"} /\ selectedFlow + 1 >= Len(flows)
           \/ k = "enter" /\ selectedFlow >= Len(flows)
        /\ IdleKey

Key(k) == /\ ~quit
          /\ HelpKey(k) \/ FilterKey(k) \/ DrillKey(k) \/ MainKey(k)
          /\ UNCHANGED <<objs, allFlows>>

Next == Aggregates \/ Refresh \/ \E k \in Keys : Key(k)

Spec == Init /\ [][Next]_vars
-----------------------------------------------------------------------------
TypeOK ==
  /\ flows \in Seq(DOMAIN objs) /\ allFlows \subseteq DOMAIN objs
  /\ selectedFlow \in Nat /\ selectedFlowId \in AllIds \cup {NoId}
  /\ sortBy \in DOMAIN NextSort
  /\ filterProto \in ToSet(Protos) /\ filterInput \in ToSet(Protos)
  /\ drillFlowIdx \in Nat /\ frozenFlows \in Seq(DOMAIN objs) /\ cachedFrom \in Seq(DOMAIN objs)
  /\ {helpMode, filterMode, drillMode, paused, quit} \subseteq BOOLEAN

\* The one way a conversation loses the mark: after a flow that had the selected
\* identity, its other end has opened flow i, and getFlowId tells the two ends apart.
ReopenedFromOtherEnd(i) == /\ objs[i].opener # selectedFlowId[1]
                           /\ \E j \in 1 .. i - 1 : getFlowId(j) = selectedFlowId

\* The row of the selected conversation, whichever end has opened its flow, is the
\* marked one, but for that exception.
Sticky(rows, mark) ==
  selectedFlowId # NoId =>
    \A n \in DOMAIN rows : objs[rows[n]].conv = selectedFlowId[2] =>
                             mark = n - 1 \/ ReopenedFromOtherEnd(rows[n])

\* The selection sticks to its conversation: as long as some row shows the
\* conversation the user selected, that row is the one marked, however refreshes
\* and sorts move the rows ("sticky" selection, dashboard.go:58), unless the
\* conversation has been reopened from its other end since.
StickySelection == Sticky(flows, selectedFlow)

\* No conversation ever has two rows, although the rows of a refresh are merged
\* from two generations of Flow objects, and a refresh that is not paused shows
\* nothing that the aggregator has closed and leaves out nothing it knows that
\* the filter admits.
OneRow == \A m, n \in DOMAIN flows : objs[flows[m]].conv = objs[flows[n]].conv => m = n
Admitted == {i \in OpenFlows : filterProto = "" \/ ProtocolOf(i) = filterProto}
RefreshShowsTable == (Refresh /\ ~paused) => /\ Ids(Admitted) \subseteq Ids(ToSet(flows'))
                                             /\ Ids(ToSet(flows')) \subseteq Ids(OpenFlows)
RowsMatchTable == [][OneRow' /\ RefreshShowsTable]_vars

\* The drill-down is into the conversation the user selected: if that had a
\* row on entry, its flow is the one drilled into, wherever refreshes had moved
\* the row (with the selection's exception), and the packets are that flow's as
\* long as the user stays, whatever refreshes do to the rows meanwhile.
DrillIsFrozen ==
  /\ drillMode => /\ drillFlowIdx < Len(frozenFlows)
                  /\ cachedFrom = <<frozenFlows[drillFlowIdx + 1]>>
                  /\ Sticky(frozenFlows, drillFlowIdx)
  /\ ~drillMode => frozenFlows = <<>> /\ cachedFrom = <<>>
-----------------------------------------------------------------------------
\* "`f` | Filter by protocol" (README.md:56): with a filter applied, the table
\* shows flows of that protocol only.
FilterHolds == filterProto # "" => \A n \in DOMAIN flows : ProtocolOf(flows[n]) = filterProto
=============================================================================
