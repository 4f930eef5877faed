--------------------------- MODULE DashboardProof ---------------------------
(***************************************************************************)
(* Proofs about Dashboard for all conversations, filters and keys: its     *)
(* type, that the selection and the drill-down stay with their             *)
(* conversation unless its other end reopens it, and that a refresh shows  *)
(* the aggregator's conversations, one row each.                           *)
(***************************************************************************)
EXTENDS Dashboard, FiniteSetTheorems, SequenceTheorems, TLAPS

\* The aggregator's flows: at most one open flow per conversation, which is the
\* conversation's latest.
FlowObject == [conv : Conversations, opener : UNION {c[1] : c \in Conversations},
               pkts : Nat, status : {"open", "expired"}]
OneOpen == \A i, j \in OpenFlows : objs[i].conv = objs[j].conv => i = j
Latest == \A i \in OpenFlows, j \in DOMAIN objs : objs[i].conv = objs[j].conv => j <= i
ObjectsOK == objs \in Seq(FlowObject) /\ OneOpen /\ Latest

\* Flows of different conversations.
Distinct(S) == \A i, j \in S : objs[i].conv = objs[j].conv => i = j

\* The identity of flow i of the flows o, that flow i was opened by the other end
\* after a flow of the identity id, and what Sticky says of rows and a mark.
IdIn(o, i) == <<o[i].opener, o[i].conv>>
After(o, id, i) == o[i].opener # id[1] /\ \E j \in 1 .. i - 1 : IdIn(o, j) = id
Clings(o, id, rows, mark) ==
  \A n \in DOMAIN rows : o[rows[n]].conv = id[2] => mark = n - 1 \/ After(o, id, rows[n])

\* More than Clings, for a mark may be on a row by chance: the row with the
\* identity is marked, and every other of its conversation is the other end's.
Shows(o, id, rows, mark) ==
  \A n \in DOMAIN rows : o[rows[n]].conv = id[2] =>
    /\ IdIn(o, rows[n]) = id => mark = n - 1
    /\ IdIn(o, rows[n]) # id => After(o, id, rows[n])

\* There was a flow with the selected identity, and the rows show it as said.
Selected == selectedFlowId # NoId =>
              /\ \E j \in DOMAIN objs : IdIn(objs, j) = selectedFlowId
              /\ Shows(objs, selectedFlowId, flows, selectedFlow)

\* The inductive invariant.  Besides what is to be proved it says that no two
\* of the flows a filter chooses from are of one conversation.
Inv == /\ ObjectsOK /\ TypeOK
       /\ OneRow /\ Distinct(allFlows)
       /\ Selected /\ DrillIsFrozen

\* What a step may do to the objects the dashboard points to: they stay, and
\* with them their identity.
SameIds == \A i \in DOMAIN objs : /\ i \in DOMAIN objs'
                                  /\ objs'[i].opener = objs[i].opener
                                  /\ objs'[i].conv = objs[i].conv
-----------------------------------------------------------------------------
\* The identity of a flow is one of AllIds.
LEMMA IdType ==
  ASSUME objs \in Seq(FlowObject), NEW i \in DOMAIN objs
  PROVE  getFlowId(i) \in AllIds
<1>1. objs[i] \in FlowObject
  BY ElementOfSeq, LenProperties
<1>2. objs[i].opener \in UNION {c[1] : c \in Conversations} /\ objs[i].conv \in Conversations
  BY <1>1 DEF FlowObject
<1>3. QED
  BY <1>2 DEF getFlowId, AllIds

\* Sticky is Clings of the aggregator's flows.
LEMMA StickyMeans ==
  ASSUME NEW rows, NEW mark
  PROVE  Sticky(rows, mark) <=>
           (selectedFlowId # NoId => Clings(objs, selectedFlowId, rows, mark))
BY DEF Sticky, ReopenedFromOtherEnd, getFlowId, Clings, After, IdIn

\* Rows that show the selection let the mark cling to it.
LEMMA ShowsClings ==
  ASSUME NEW o, NEW id, NEW rows, NEW mark, Shows(o, id, rows, mark)
  PROVE  Clings(o, id, rows, mark)
BY DEF Shows, Clings

\* Both remain so when flows are added, and when they are changed without a change
\* of their identity.
LEMMA ShowsOn ==
  ASSUME NEW o \in Seq(FlowObject), NEW p, NEW id, NEW rows \in Seq(DOMAIN o), NEW mark,
         \A i \in DOMAIN o : p[i].opener = o[i].opener /\ p[i].conv = o[i].conv
  PROVE  /\ Shows(o, id, rows, mark) => Shows(p, id, rows, mark)
         /\ Clings(o, id, rows, mark) => Clings(p, id, rows, mark)
<1>1. DOMAIN o = 1 .. Len(o) /\ Len(o) \in Nat
  BY LenProperties
<1>2. \A n \in DOMAIN rows : rows[n] \in DOMAIN o
  BY LenProperties, ElementOfSeq
<1>3. \A i \in DOMAIN o : IdIn(p, i) = IdIn(o, i)
  BY DEF IdIn
<1>4. ASSUME NEW i \in DOMAIN o, After(o, id, i)
      PROVE  After(p, id, i)
  <2>1. PICK j \in 1 .. i - 1 : IdIn(o, j) = id
    BY <1>4 DEF After
  <2>2. j \in DOMAIN o
    BY <1>1, <2>1
  <2> QED BY <1>3, <1>4, <2>1, <2>2 DEF After
<1>5. ASSUME Shows(o, id, rows, mark) PROVE Shows(p, id, rows, mark)
  BY <1>2, <1>3, <1>4, <1>5 DEF Shows
<1>6. ASSUME Clings(o, id, rows, mark) PROVE Clings(p, id, rows, mark)
  BY <1>2, <1>4, <1>6 DEF Clings
<1> QED BY <1>5, <1>6

\* The aggregator only adds flows, counts in them and closes them.
LEMMA ObjectsStep ==
  ASSUME ObjectsOK, Table!Next
  PROVE  ObjectsOK' /\ SameIds
<1>1. /\ objs \in Seq(FlowObject) /\ Len(objs) \in Nat /\ DOMAIN objs = 1 .. Len(objs)
      /\ \A i \in DOMAIN objs : objs[i] \in FlowObject
  BY LenProperties, ElementOfSeq DEF ObjectsOK
<1>2. OneOpen /\ Latest
  BY DEF ObjectsOK
<1>3. CASE \E c \in Conversations : Table!Continue(c)
  <2>1. PICK c \in Conversations, i \in DOMAIN objs :
          Table!OpenFlow(i, c) /\ objs' = [objs EXCEPT ![i].pkts = @ + 1]
    BY <1>3 DEF Table!Continue, Table!OpenFlow
  <2>2. [objs[i] EXCEPT !.pkts = @ + 1] \in FlowObject
    <3>1. objs[i] \in FlowObject
      BY <1>1
    <3>2. objs[i].pkts + 1 \in Nat
      BY <3>1 DEF FlowObject
    <3>3. QED
      BY <3>1, <3>2 DEF FlowObject
  <2>3. objs' = [objs EXCEPT ![i] = [objs[i] EXCEPT !.pkts = @ + 1]]
    BY <2>1
  <2>4. objs' \in Seq(FlowObject) /\ DOMAIN objs' = DOMAIN objs
    BY <1>1, <2>2, <2>3, ExceptSeq
  <2>5. \A j \in DOMAIN objs : /\ objs'[j].opener = objs[j].opener
                               /\ objs'[j].conv = objs[j].conv
                               /\ objs'[j].status = objs[j].status
    BY <1>1, <2>3 DEF FlowObject
  <2>6. QED
    BY <1>2, <2>4, <2>5 DEF ObjectsOK, OneOpen, Latest, OpenFlows, SameIds
<1>4. CASE \E c \in Conversations : \E h \in c[1] : Table!Open(c, h)
  <2>0. PICK c \in Conversations : \E h \in c[1] : Table!Open(c, h)
    BY <1>4
  <2>1. PICK h \in c[1] : Table!Open(c, h)
    BY <2>0
  <2> DEFINE new == [conv |-> c, opener |-> h, pkts |-> 1, status |-> "open"]
  <2>2. new \in FlowObject
    BY DEF FlowObject
  <2>3. objs' = Append(objs, new)
    BY <2>1 DEF Table!Open
  <2>4. \A i \in DOMAIN objs : ~Table!OpenFlow(i, c)
    BY <2>1 DEF Table!Open
  <2> HIDE DEF new
  <2>5. /\ objs' \in Seq(FlowObject) /\ Len(objs') = Len(objs) + 1
        /\ DOMAIN objs' = 1 .. Len(objs) + 1
        /\ objs'[Len(objs) + 1] = new
        /\ \A i \in DOMAIN objs : objs'[i] = objs[i]
    BY <1>1, <2>2, <2>3, AppendProperties
  <2>6. new.conv = c
    BY DEF new
  <2>7. SameIds
    BY <1>1, <2>5 DEF SameIds
  <2>8. \A i \in OpenFlows' : i = Len(objs) + 1 \/ (i \in OpenFlows /\ objs'[i] = objs[i])
    BY <1>1, <2>5 DEF OpenFlows
  <2>9. \A i \in OpenFlows : objs[i].conv # c
    BY <2>4 DEF OpenFlows, Table!OpenFlow
  <2>10. OneOpen'
    BY <1>2, <2>5, <2>6, <2>8, <2>9 DEF OneOpen
  <2>11. Latest'
    <3> SUFFICES ASSUME NEW i \in OpenFlows', NEW j \in DOMAIN objs',
                        objs'[i].conv = objs'[j].conv
                 PROVE  j <= i
      BY DEF Latest
    <3>1. CASE i = Len(objs) + 1
      BY <1>1, <2>5, <3>1
    <3>2. CASE i \in OpenFlows /\ objs'[i] = objs[i]
      <4>1. objs'[j].conv # c /\ objs'[i] = objs[i] /\ i \in OpenFlows
        BY <2>9, <3>2
      <4>2. j \in DOMAIN objs /\ objs'[j] = objs[j]
        BY <1>1, <2>5, <2>6, <4>1
      <4> QED BY <1>2, <4>1, <4>2 DEF Latest
    <3> QED BY <2>8, <3>1, <3>2
  <2>12. QED
    BY <2>5, <2>7, <2>10, <2>11 DEF ObjectsOK
<1>5. CASE \E S \in SUBSET DOMAIN objs : Table!Expire(S)
  <2>1. PICK S \in SUBSET DOMAIN objs : Table!Expire(S)
    BY <1>5
  <2>2. objs' = [i \in DOMAIN objs |-> IF i \in S THEN [objs[i] EXCEPT !.status = "expired"]
                                                  ELSE objs[i]]
    BY <2>1 DEF Table!Expire
  <2>3. \A i \in DOMAIN objs : objs'[i] \in FlowObject
    BY <1>1, <2>2 DEF FlowObject
  <2>4. objs' \in Seq(FlowObject) /\ DOMAIN objs' = DOMAIN objs
    BY <1>1, <2>2, <2>3
  <2>5. \A i \in DOMAIN objs : /\ objs'[i].opener = objs[i].opener
                               /\ objs'[i].conv = objs[i].conv
                               /\ objs'[i].status = "open" => objs[i].status = "open"
    BY <1>1, <2>2 DEF FlowObject
  <2>6. QED
    BY <1>2, <2>4, <2>5 DEF ObjectsOK, OneOpen, Latest, OpenFlows, SameIds
<1>6. QED
  BY <1>3, <1>4, <1>5 DEF Table!Next
-----------------------------------------------------------------------------
\* Sorting a finite set gives each of its members one row.
LEMMA SortedRows ==
  ASSUME NEW S, IsFiniteSet(S), NEW s \in Sorted(S)
  PROVE  /\ s \in Seq(S) /\ ToSet(s) = S
         /\ \A m, n \in DOMAIN s : s[m] = s[n] => m = n
<1> DEFINE D == 1 .. Cardinality(S)
<1>1. Cardinality(S) \in Nat
  BY FS_CardinalityType
<1>2. s \in [D -> S] /\ \A m, n \in D : m # n => s[m] # s[n]
  BY DEF Sorted, SetToSeqs
<1>3. IsFiniteSet(D) /\ Cardinality(D) = Cardinality(S)
  BY <1>1, FS_Interval
<1>4. s \in Injection(D, S)
  BY <1>2 DEF Injection, IsInjective
<1>5. s \in Surjection(D, S)
  BY <1>3, <1>4, FS_Injection
<1>6. \A x \in S : \E n \in D : s[n] = x
  BY <1>5 DEF Surjection
<1>7. s \in Seq(S) /\ DOMAIN s = D
  BY <1>1, <1>2
<1>8. QED
  BY <1>2, <1>6, <1>7 DEF ToSet

\* So flows of different conversations make rows of different conversations.
LEMMA SortedDistinct ==
  ASSUME objs \in Seq(FlowObject), NEW S \in SUBSET DOMAIN objs, Distinct(S), NEW s \in Sorted(S)
  PROVE  /\ s \in Seq(DOMAIN objs) /\ ToSet(s) = S
         /\ \A m, n \in DOMAIN s : objs[s[m]].conv = objs[s[n]].conv => m = n
<1>1. DOMAIN objs = 1 .. Len(objs) /\ Len(objs) \in Nat
  BY LenProperties
<1>2. IsFiniteSet(S)
  <2>1. IsFiniteSet(1 .. Len(objs))
    BY <1>1, FS_Interval
  <2>2. S \in SUBSET (1 .. Len(objs))
    BY <1>1
  <2>3. QED
    BY <2>1, <2>2, FS_Subset
<1>3. /\ s \in Seq(S) /\ ToSet(s) = S
      /\ \A m, n \in DOMAIN s : s[m] = s[n] => m = n
  BY <1>2, SortedRows
<1>4. \A n \in DOMAIN s : s[n] \in S
  BY <1>3, LenProperties, ElementOfSeq
<1>5. s \in Seq(DOMAIN objs)
  BY <1>3, <1>4, LenProperties
<1>6. QED
  BY <1>3, <1>4, <1>5 DEF Distinct

\* The rows there are show different conversations.
LEMMA RowsDistinct ==
  ASSUME TypeOK, OneRow
  PROVE  ToSet(flows) \subseteq DOMAIN objs /\ Distinct(ToSet(flows))
<1>1. \A n \in DOMAIN flows : flows[n] \in DOMAIN objs
  BY LenProperties, ElementOfSeq DEF TypeOK
<1>2. QED
  BY <1>1 DEF ToSet, Distinct, OneRow

\* The flows a refresh shows: those kept and those new to it are of different
\* conversations, and their identities are those of the open flows.
LEMMA RefreshedRows ==
  ASSUME ObjectsOK, NEW rows \in SUBSET DOMAIN objs, Distinct(rows)
  PROVE  /\ Refreshed(rows, OpenFlows) \subseteq DOMAIN objs
         /\ Distinct(Refreshed(rows, OpenFlows))
         /\ Ids(Refreshed(rows, OpenFlows)) = Ids(OpenFlows)
         /\ OpenFlows \subseteq DOMAIN objs /\ Distinct(OpenFlows)
<1> DEFINE kept == {i \in rows : getFlowId(i) \in Ids(OpenFlows)}
           fresh == {j \in OpenFlows : getFlowId(j) \notin Ids(kept)}
<1>1. OpenFlows \subseteq DOMAIN objs
  BY DEF OpenFlows
<1>2. Distinct(OpenFlows)
  BY DEF ObjectsOK, OneOpen, Distinct
<1>3. Refreshed(rows, OpenFlows) = kept \cup fresh
  BY DEF Refreshed
<1>4. ASSUME NEW i \in kept, NEW j \in fresh
      PROVE  objs[i].conv # objs[j].conv
  <2>1. PICK k \in OpenFlows : getFlowId(k) = getFlowId(i)
    BY DEF Ids
  <2>2. getFlowId(j) # getFlowId(i) /\ j \in OpenFlows
    BY DEF Ids
  <2>3. k # j /\ objs[k].conv = objs[i].conv
    BY <2>1, <2>2 DEF getFlowId
  <2> QED BY <1>2, <2>2, <2>3 DEF Distinct
<1>5. Distinct(kept \cup fresh)
  <2>1. \A i, j \in kept : objs[i].conv = objs[j].conv => i = j
    BY DEF Distinct
  <2>2. \A i, j \in fresh : objs[i].conv = objs[j].conv => i = j
    BY <1>2 DEF Distinct
  <2> HIDE DEF kept, fresh
  <2>3. QED
    BY <2>1, <2>2, <1>4 DEF Distinct
<1>6. Ids(kept \cup fresh) = Ids(OpenFlows)
  <2>1. Ids(kept \cup fresh) \subseteq Ids(OpenFlows)
    BY DEF Ids
  <2>2. Ids(OpenFlows) \subseteq Ids(kept \cup fresh)
    BY DEF Ids
  <2>3. QED
    BY <2>1, <2>2
<1>7. QED
  BY <1>1, <1>2, <1>3, <1>5, <1>6
-----------------------------------------------------------------------------
\* Nothing of the invariant is about anything but vars.
LEMMA UnchangedInv == Inv /\ UNCHANGED vars => Inv'
<1> SUFFICES ASSUME Inv, UNCHANGED vars PROVE Inv'
  OBVIOUS
<1>1. UNCHANGED <<objs, flows, allFlows, selectedFlow, selectedFlowId, drillMode,
                  drillFlowIdx, frozenFlows, cachedFrom>>
  BY DEF vars, selection, drill
<1>2. ObjectsOK' /\ TypeOK' /\ OneRow' /\ Distinct(allFlows)' /\ Selected'
  BY <1>1 DEF Inv, ObjectsOK, OneOpen, Latest, OpenFlows, TypeOK, OneRow, Distinct, Selected,
              vars, selection, filter, drill
<1>3. DrillIsFrozen'
  BY <1>1 DEF Inv, DrillIsFrozen, Sticky, ReopenedFromOtherEnd, getFlowId
<1> QED BY <1>2, <1>3 DEF Inv

\* A step of the aggregator leaves the dashboard alone, and the identities of the
\* flows it points to.
LEMMA AggregatesInv == Inv /\ Aggregates => Inv'
<1> SUFFICES ASSUME Inv, Aggregates PROVE Inv'
  OBVIOUS
<1>1. ObjectsOK' /\ SameIds
  BY ObjectsStep DEF Inv, Aggregates
<1>2. UNCHANGED <<flows, allFlows, selection, sortBy, filter, helpMode, drill, paused, quit>>
  BY DEF Aggregates
<1>3. DOMAIN objs \subseteq DOMAIN objs'
  BY <1>1 DEF SameIds
<1>4. \A i \in DOMAIN objs : getFlowId(i)' = getFlowId(i)
  BY <1>1 DEF SameIds, getFlowId
<1>5. TypeOK'
  <2>1. \A s \in Seq(DOMAIN objs) : s \in Seq(DOMAIN objs')
    BY <1>3, SeqMonotonic
  <2>2. QED
    BY <1>2, <1>3, <2>1 DEF Inv, TypeOK, selection, filter, drill
<1>6. \A n \in DOMAIN flows : flows[n] \in DOMAIN objs
  BY LenProperties, ElementOfSeq DEF Inv, TypeOK
<1>7. OneRow' /\ Distinct(allFlows)'
  BY <1>1, <1>2, <1>6 DEF Inv, TypeOK, OneRow, Distinct, SameIds
<1>8. /\ \A i \in DOMAIN objs : objs'[i].opener = objs[i].opener /\ objs'[i].conv = objs[i].conv
      /\ objs \in Seq(FlowObject)
      /\ flows \in Seq(DOMAIN objs) /\ frozenFlows \in Seq(DOMAIN objs)
  BY <1>1 DEF SameIds, Inv, TypeOK, ObjectsOK
<1>9. UNCHANGED <<flows, selectedFlow, selectedFlowId, drillMode, drillFlowIdx, frozenFlows,
                  cachedFrom>>
  BY <1>2 DEF selection, drill
<1>10. Selected'
  <2> SUFFICES ASSUME selectedFlowId # NoId
               PROVE  /\ \E j \in DOMAIN objs' : IdIn(objs', j) = selectedFlowId
                      /\ Shows(objs', selectedFlowId, flows, selectedFlow)
    BY <1>9 DEF Selected
  <2>1. PICK j \in DOMAIN objs : IdIn(objs, j) = selectedFlowId
    BY DEF Inv, Selected
  <2>2. j \in DOMAIN objs' /\ IdIn(objs', j) = selectedFlowId
    BY <1>3, <1>8, <2>1 DEF IdIn
  <2>3. Shows(objs', selectedFlowId, flows, selectedFlow)
    BY <1>8, ShowsOn DEF Inv, Selected
  <2> QED BY <2>2, <2>3
<1>11. ASSUME drillMode PROVE Sticky(frozenFlows, drillFlowIdx)'
  <2> SUFFICES ASSUME selectedFlowId # NoId
               PROVE  Clings(objs', selectedFlowId, frozenFlows, drillFlowIdx)
    BY <1>9 DEF Sticky, ReopenedFromOtherEnd, getFlowId, Clings, After, IdIn
  <2>1. Clings(objs, selectedFlowId, frozenFlows, drillFlowIdx)
    BY <1>11, StickyMeans DEF Inv, DrillIsFrozen
  <2> QED BY <1>8, <2>1, ShowsOn
<1>12. DrillIsFrozen'
  BY <1>9, <1>11 DEF Inv, DrillIsFrozen
<1>13. QED
  BY <1>1, <1>5, <1>7, <1>10, <1>12 DEF Inv
-----------------------------------------------------------------------------
\* A refresh: the rows are new, the selection follows its conversation.
LEMMA RefreshInv == Inv /\ Refresh => Inv'
<1> SUFFICES ASSUME Inv, Refresh PROVE Inv'
  OBVIOUS
<1>1. UNCHANGED <<objs, selectedFlowId, sortBy, filter, helpMode, drill, paused, quit>>
  BY DEF Refresh, selection
<1>2. CASE paused
  <2>1. UNCHANGED <<flows, allFlows, selection>>
    BY <1>2 DEF Refresh
  <2>2. QED
    BY <1>1, <2>1, UnchangedInv DEF vars
<1>3. CASE ~paused
  <2> DEFINE R == Refreshed(ToSet(flows), OpenFlows)
  <2>1. PICK s \in Sorted(R) : flows' = s /\ selectedFlow' = Reselected(s)
    BY <1>3 DEF Refresh
  <2>2. allFlows' = OpenFlows
    BY <1>3 DEF Refresh
  <2>3. ToSet(flows) \in SUBSET DOMAIN objs /\ Distinct(ToSet(flows))
    BY RowsDistinct DEF Inv
  <2>4. R \in SUBSET DOMAIN objs /\ Distinct(R) /\ OpenFlows \subseteq DOMAIN objs /\ Distinct(OpenFlows)
    BY <2>3, RefreshedRows DEF Inv
  <2> HIDE DEF R
  <2>5. /\ flows' \in Seq(DOMAIN objs)
        /\ \A m, n \in DOMAIN flows' : objs[flows'[m]].conv = objs[flows'[n]].conv => m = n
        /\ ToSet(flows') = R
    BY <2>1, <2>4, SortedDistinct DEF Inv, ObjectsOK
  <2>7. OneRow' /\ Distinct(allFlows)'
    BY <1>1, <2>2, <2>4, <2>5 DEF OneRow, Distinct
  <2>8. selectedFlow' \in Nat
    BY <2>1, <2>5, LenProperties DEF Inv, TypeOK, Reselected, RowsOf
  <2>9. TypeOK'
    BY <1>1, <2>2, <2>4, <2>5, <2>8 DEF Inv, TypeOK, filter, drill
  <2>10. Selected'
    <3> SUFFICES ASSUME selectedFlowId # NoId
                 PROVE  /\ \E j \in DOMAIN objs : IdIn(objs, j) = selectedFlowId
                        /\ Shows(objs, selectedFlowId, flows', selectedFlow')
      BY <1>1 DEF Selected
    <3> DEFINE id == selectedFlowId
    <3>1. /\ Shows(objs, id, flows, selectedFlow)
          /\ \E j \in DOMAIN objs : IdIn(objs, j) = id
      BY DEF Inv, Selected
    <3>2. PICK j \in DOMAIN objs : IdIn(objs, j) = id
      BY <3>1
    <3>3. ASSUME NEW n \in DOMAIN flows', IdIn(objs, flows'[n]) = id
          PROVE  selectedFlow' = n - 1
      <4>1. \A m \in DOMAIN flows' : getFlowId(flows'[m]) = id => m = n
        BY <2>5, <3>3 DEF getFlowId, IdIn
      <4>2. getFlowId(flows'[n]) = id
        BY <3>3 DEF getFlowId, IdIn
      <4>3. RowsOf(flows', id) = {n}
        BY <4>1, <4>2 DEF RowsOf
      <4> QED BY <2>1, <4>3 DEF Reselected
    <3>4. ASSUME NEW i \in R, objs[i].conv = id[2], IdIn(objs, i) # id
          PROVE  After(objs, id, i)
      <4>1. CASE i \in ToSet(flows)
        <5>1. PICK n \in DOMAIN flows : flows[n] = i
          BY <4>1 DEF ToSet
        <5> QED BY <3>1, <3>4, <5>1 DEF Shows
      <4>2. CASE i \notin ToSet(flows)
        <5>1. i \in OpenFlows /\ i \in DOMAIN objs
          BY <4>2 DEF R, Refreshed, OpenFlows
        <5>2. objs[j].conv = id[2] /\ objs[j].opener = id[1]
          BY <3>2 DEF IdIn
        <5>3. j <= i
          BY <3>4, <5>1, <5>2 DEF Inv, ObjectsOK, Latest
        <5>4. j # i
          BY <3>2, <3>4
        <5>5. i \in Nat /\ j \in Nat /\ j >= 1
          BY <5>1, LenProperties DEF Inv, ObjectsOK
        <5>6. objs[i].opener # id[1]
          BY <3>2, <3>4, <5>2 DEF IdIn
        <5> QED BY <3>2, <5>3, <5>4, <5>5, <5>6 DEF After
      <4> QED BY <4>1, <4>2
    <3>5. \A n \in DOMAIN flows' : flows'[n] \in R
      BY <2>5 DEF ToSet
    <3> QED BY <3>1, <3>3, <3>4, <3>5 DEF Shows
  <2>11. DrillIsFrozen'
    BY <1>1 DEF Inv, DrillIsFrozen, drill, Sticky, ReopenedFromOtherEnd, getFlowId
  <2>12. QED
    BY <1>1, <2>7, <2>9, <2>10, <2>11 DEF Inv, ObjectsOK, OneOpen, Latest, OpenFlows
<1>4. QED
  BY <1>2, <1>3
-----------------------------------------------------------------------------
\* The types of the sort order, the filters and the modes
Settings == /\ sortBy \in DOMAIN NextSort
            /\ filterProto \in ToSet(Protos) /\ filterInput \in ToSet(Protos)
            /\ {helpMode, filterMode, drillMode, paused, quit} \subseteq BOOLEAN

\* What a key may do to rows, selection and drill-down: nothing, leave the
\* drill-down, replace the rows, select another one, or drill down.
Leaves == /\ drillMode' = FALSE /\ frozenFlows' = <<>> /\ cachedFrom' = <<>>
          /\ UNCHANGED <<flows, selection, drillFlowIdx>>
Replaces == /\ \E S \in {Filtered(filterInput), ToSet(flows)} : flows' \in Sorted(S)
            /\ selectedFlow' = 0 /\ selectedFlowId' = NoId
            /\ UNCHANGED drill
Selects == /\ ~drillMode /\ UNCHANGED <<flows, drill>>
           /\ \/ selectedFlow > 0 /\ Select(selectedFlow - 1)
              \/ selectedFlow + 1 < Len(flows) /\ Select(selectedFlow + 1)
Enters == /\ selectedFlow < Len(flows)
          /\ drillMode' = TRUE /\ drillFlowIdx' = selectedFlow
          /\ frozenFlows' = flows /\ cachedFrom' = <<flows[selectedFlow + 1]>>
          /\ UNCHANGED <<flows, selection>>
Effects == \/ UNCHANGED <<flows, selection, drill>>
           \/ Leaves \/ Replaces \/ Selects \/ Enters

\* The list of filters begins with none.
LEMMA ProtosFacts ==
  /\ Len(Protos) \in Nat /\ Len(Protos) > 0 /\ DOMAIN Protos = 1 .. Len(Protos)
  /\ Len(Protos) - 1 \in Nat
  /\ "" \in ToSet(Protos)
<1>1. Len(Protos) \in Nat /\ DOMAIN Protos = 1 .. Len(Protos)
  BY ProtosAssumption, LenProperties
<1>2. Len(Protos) > 0
  BY ProtosAssumption
<1>3. 1 \in DOMAIN Protos
  BY <1>1, <1>2
<1>4. Protos[1] = ""
  BY ProtosAssumption
<1>5. Len(Protos) - 1 \in Nat
  BY <1>1, <1>2
<1>6. QED
  BY <1>1, <1>2, <1>3, <1>4, <1>5 DEF ToSet

\* The option next to another is one of the list.
LEMMA NeighbourType ==
  ASSUME NEW p \in ToSet(Protos), NEW step \in Nat
  PROVE  Neighbour(p, step) \in ToSet(Protos)
<1> DEFINE n == CHOOSE i \in DOMAIN Protos : Protos[i] = p
           k == (n - 1 + step) % Len(Protos)
<1>1. Len(Protos) \in Nat /\ Len(Protos) > 0 /\ DOMAIN Protos = 1 .. Len(Protos)
  BY ProtosFacts
<1>2. n \in DOMAIN Protos
  BY DEF ToSet
<1>3. n - 1 + step \in Nat
  BY <1>1, <1>2
<1> HIDE DEF n
<1>4. k + 1 \in DOMAIN Protos
  BY <1>1, <1>3
<1>5. QED
  BY <1>4 DEF Neighbour, ToSet, n

\* The modes and settings keep their types, whatever is typed.
LEMMA SettingsStep ==
  ASSUME Inv, NEW k \in Keys, Key(k)
  PROVE  Settings'
<1>1. Settings
  BY DEF Inv, TypeOK, Settings
<1>2. "" \in ToSet(Protos)
  BY ProtosFacts
<1>3. CASE HelpKey(k)
  BY <1>1, <1>3 DEF HelpKey, Settings, filter, drill
<1>4. CASE FilterKey(k)
  <2>1. CASE k = "enter"
    BY <1>1, <1>2, <1>4, <2>1 DEF FilterKey, Settings, drill
  <2>2. CASE k # "enter"
    <3>1. Chosen(k) \in ToSet(Protos)
      <4>1. filterInput \in ToSet(Protos)
        BY <1>1 DEF Settings
      <4>2. Len(Protos) - 1 \in Nat
        BY ProtosFacts
      <4>3. /\ Neighbour(filterInput, Len(Protos) - 1) \in ToSet(Protos)
            /\ Neighbour(filterInput, 1) \in ToSet(Protos)
        BY <4>1, <4>2, NeighbourType
      <4>4. QED
        BY <1>2, <4>1, <4>3 DEF Chosen
    <3>2. QED
      BY <1>1, <1>4, <2>2, <3>1 DEF FilterKey, Settings, drill
  <2>3. QED
    BY <2>1, <2>2
<1>5. CASE DrillKey(k)
  BY <1>1, <1>5 DEF DrillKey, Settings, filter, drill
<1>6. CASE MainKey(k)
  <2>1. CASE QuitKey
    BY <1>1, <2>1 DEF QuitKey, Settings, filter, drill
  <2>2. CASE PauseKey
    BY <1>1, <2>2 DEF PauseKey, Settings, filter, drill
  <2>3. CASE UpKey \/ DownKey \/ IdleKey
    BY <1>1, <2>3 DEF UpKey, DownKey, IdleKey, Settings, filter, drill
  <2>4. CASE EnterKey
    BY <1>1, <2>4 DEF EnterKey, Settings, filter
  <2>5. CASE OpenFilterKey
    BY <1>1, <2>5 DEF OpenFilterKey, Settings, drill
  <2>6. CASE SortKey
    BY <1>1, <2>6 DEF SortKey, NextSort, Settings, filter, drill
  <2>7. CASE HelpOpenKey
    BY <1>1, <2>7 DEF HelpOpenKey, Settings, filter, drill
  <2>8. QED
    BY <1>6, <2>1, <2>2, <2>3, <2>4, <2>5, <2>6, <2>7 DEF MainKey
<1>7. QED
  BY <1>3, <1>4, <1>5, <1>6 DEF Key

\* Every key has one of the effects.
LEMMA KeyEffects ==
  ASSUME NEW k \in Keys, Key(k)
  PROVE  Effects /\ UNCHANGED <<objs, allFlows>>
<1> SUFFICES Effects
  BY DEF Key
<1>1. CASE HelpKey(k)
  BY <1>1 DEF HelpKey, Effects
<1>2. CASE FilterKey(k)
  BY <1>2 DEF FilterKey, Effects, Replaces
<1>3. CASE DrillKey(k)
  BY <1>3 DEF DrillKey, Effects, Leaves
<1>4. CASE MainKey(k)
  <2>1. CASE UpKey \/ DownKey
    BY <1>4, <2>1 DEF MainKey, MainView, UpKey, DownKey, Effects, Selects
  <2>2. CASE EnterKey
    BY <2>2 DEF EnterKey, Effects, Enters
  <2>3. CASE SortKey
    BY <2>3 DEF SortKey, Effects, Replaces
  <2>4. CASE QuitKey \/ PauseKey \/ OpenFilterKey \/ HelpOpenKey \/ IdleKey
    BY <2>4 DEF QuitKey, PauseKey, OpenFilterKey, HelpOpenKey, IdleKey, Effects
  <2>5. QED
    BY <1>4, <2>1, <2>2, <2>3, <2>4 DEF MainKey
<1>5. QED
  BY <1>1, <1>2, <1>3, <1>4 DEF Key
-----------------------------------------------------------------------------
\* Rows that are replaced are of different conversations again.
LEMMA ReplacesRows ==
  ASSUME Inv, Replaces, UNCHANGED objs
  PROVE  /\ flows' \in Seq(DOMAIN objs)
         /\ \A m, n \in DOMAIN flows' : objs[flows'[m]].conv = objs[flows'[n]].conv => m = n
<1>1. PICK S \in {Filtered(filterInput), ToSet(flows)} : flows' \in Sorted(S)
  BY DEF Replaces
<1>2. ToSet(flows) \subseteq DOMAIN objs /\ Distinct(ToSet(flows))
  BY RowsDistinct DEF Inv
<1>3. Filtered(filterInput) \subseteq allFlows
  BY DEF Filtered
<1>4. S \in SUBSET DOMAIN objs /\ Distinct(S)
  BY <1>2, <1>3 DEF Inv, TypeOK, Distinct
<1>5. QED
  BY <1>1, <1>4, SortedDistinct DEF Inv, ObjectsOK

\* The row that is selected and the conversation it shows
LEMMA SelectsRow ==
  ASSUME Inv, Selects, UNCHANGED objs
  PROVE  /\ selectedFlow' \in Nat /\ selectedFlowId' \in AllIds \cup {NoId}
         /\ Selected'
<1>1. /\ selectedFlow \in Nat /\ selectedFlowId \in AllIds \cup {NoId}
      /\ flows \in Seq(DOMAIN objs) /\ Len(flows) \in Nat /\ DOMAIN flows = 1 .. Len(flows)
      /\ UNCHANGED <<flows, objs>>
  BY LenProperties DEF Inv, TypeOK, Selects
<1>2. PICK row \in Nat : /\ Select(row)
                         /\ row < Len(flows) \/ row = selectedFlow - 1
  BY <1>1 DEF Selects
<1>3. CASE row < Len(flows)
  <2>1. row + 1 \in DOMAIN flows
    BY <1>1, <1>3
  <2>2. flows[row + 1] \in DOMAIN objs
    BY <1>1, <2>1, ElementOfSeq
  <2>3. selectedFlow' = row /\ selectedFlowId' = getFlowId(flows[row + 1])
    BY <1>2, <1>3 DEF Select
  <2>4. selectedFlowId' \in AllIds
    BY <2>2, <2>3, IdType DEF Inv, ObjectsOK
  <2>5. \A n \in DOMAIN flows : objs[flows[n]].conv = objs[flows[row + 1]].conv => n = row + 1
    BY <2>1 DEF Inv, OneRow
  <2>6. Selected'
    <3> DEFINE i == flows[row + 1]
    <3>1. IdIn(objs, i) = selectedFlowId' /\ objs[i].conv = selectedFlowId'[2]
      BY <2>3 DEF IdIn, getFlowId
    <3>2. Shows(objs, selectedFlowId', flows, row)
      BY <1>1, <2>5, <3>1 DEF Shows
    <3> QED BY <1>1, <2>2, <2>3, <3>1, <3>2 DEF Selected
  <2>7. QED
    BY <2>3, <2>4, <2>6
<1>4. CASE ~(row < Len(flows))
  <2>1. selectedFlow' = row /\ selectedFlowId' = selectedFlowId /\ row = selectedFlow - 1
    BY <1>2, <1>4 DEF Select
  <2>2. \A n \in DOMAIN flows : selectedFlow # n - 1
    BY <1>1, <1>4, <2>1
  <2>3. Selected'
    <3> SUFFICES ASSUME selectedFlowId # NoId
                 PROVE  /\ \E j \in DOMAIN objs : IdIn(objs, j) = selectedFlowId
                        /\ Shows(objs, selectedFlowId, flows, row)
      BY <1>1, <2>1 DEF Selected
    <3>1. /\ \E j \in DOMAIN objs : IdIn(objs, j) = selectedFlowId
          /\ Shows(objs, selectedFlowId, flows, selectedFlow)
      BY DEF Inv, Selected
    <3> QED BY <2>2, <3>1 DEF Shows
  <2>4. QED
    BY <1>1, <2>1, <2>3
<1>5. QED
  BY <1>3, <1>4

\* Drilling into the marked row is drilling into the selected conversation, if
\* that has a row at all.
LEMMA EntersRow ==
  ASSUME Inv, Enters, UNCHANGED objs
  PROVE  /\ frozenFlows' \in Seq(DOMAIN objs) /\ cachedFrom' \in Seq(DOMAIN objs)
         /\ DrillIsFrozen'
<1>1. /\ selectedFlow \in Nat /\ selectedFlowId \in AllIds \cup {NoId}
      /\ flows \in Seq(DOMAIN objs) /\ Len(flows) \in Nat /\ DOMAIN flows = 1 .. Len(flows)
      /\ UNCHANGED <<objs, selectedFlowId>> /\ selectedFlow < Len(flows)
      /\ drillMode' = TRUE /\ drillFlowIdx' = selectedFlow
      /\ frozenFlows' = flows /\ cachedFrom' = <<flows[selectedFlow + 1]>>
  BY LenProperties DEF Inv, TypeOK, Enters, selection
<1>2. selectedFlow + 1 \in DOMAIN flows
  BY <1>1
<1>3. flows[selectedFlow + 1] \in DOMAIN objs
  BY <1>1, <1>2, ElementOfSeq
<1>4. Sticky(flows, selectedFlow)
  BY ShowsClings, StickyMeans DEF Inv, Selected
<1>5. cachedFrom' \in Seq(DOMAIN objs)
  BY <1>1, <1>3
<1>6. DrillIsFrozen'
  BY <1>1, <1>4 DEF DrillIsFrozen, Sticky, ReopenedFromOtherEnd, getFlowId
<1>7. QED
  BY <1>1, <1>5, <1>6
-----------------------------------------------------------------------------
\* A key changes no more than its effects and the settings.
LEMMA KeyInv ==
  ASSUME Inv, NEW k \in Keys, Key(k)
  PROVE  Inv'
<1>1. Effects /\ UNCHANGED <<objs, allFlows>>
  BY KeyEffects
<1>2. Settings'
  BY SettingsStep
<1>3. ObjectsOK' /\ Distinct(allFlows)'
  BY <1>1 DEF Inv, ObjectsOK, OneOpen, Latest, OpenFlows, Distinct
<1>4. SUFFICES /\ flows' \in Seq(DOMAIN objs)
               /\ selectedFlow' \in Nat /\ selectedFlowId' \in AllIds \cup {NoId}
               /\ drillFlowIdx' \in Nat
               /\ frozenFlows' \in Seq(DOMAIN objs) /\ cachedFrom' \in Seq(DOMAIN objs)
               /\ OneRow' /\ Selected' /\ DrillIsFrozen'
  BY <1>1, <1>2, <1>3 DEF Inv, TypeOK, Settings
<1>5. CASE UNCHANGED <<flows, selection, drill>>
  <2>1. UNCHANGED <<objs, flows, selectedFlow, selectedFlowId, drillMode, drillFlowIdx,
                    frozenFlows, cachedFrom>>
    BY <1>1, <1>5 DEF selection, drill
  <2>2. OneRow' /\ Selected'
    BY <2>1 DEF Inv, OneRow, Selected
  <2>3. DrillIsFrozen'
    BY <2>1 DEF Inv, DrillIsFrozen, Sticky, ReopenedFromOtherEnd, getFlowId
  <2>4. QED
    BY <2>1, <2>2, <2>3 DEF Inv, TypeOK
<1>6. CASE Leaves
  <2>1. UNCHANGED <<objs, flows, selectedFlow, selectedFlowId, drillFlowIdx>>
    BY <1>1, <1>6 DEF Leaves, selection
  <2>2. OneRow' /\ Selected'
    BY <2>1 DEF Inv, OneRow, Selected
  <2>3. drillMode' = FALSE /\ frozenFlows' = <<>> /\ cachedFrom' = <<>>
    BY <1>6 DEF Leaves
  <2>4. DrillIsFrozen'
    BY <2>3 DEF DrillIsFrozen
  <2>5. QED
    BY <2>1, <2>2, <2>3, <2>4 DEF Inv, TypeOK
<1>7. CASE Replaces
  <2>1. selectedFlow' = 0 /\ selectedFlowId' = NoId
    BY <1>7 DEF Replaces
  <2>2. UNCHANGED <<objs, drillMode, drillFlowIdx, frozenFlows, cachedFrom>>
    BY <1>1, <1>7 DEF Replaces, drill
  <2>3. /\ flows' \in Seq(DOMAIN objs)
        /\ \A m, n \in DOMAIN flows' : objs[flows'[m]].conv = objs[flows'[n]].conv => m = n
    BY <1>1, <1>7, ReplacesRows
  <2>4. OneRow' /\ Selected'
    BY <2>1, <2>2, <2>3 DEF OneRow, Selected
  <2>6. DrillIsFrozen'
    BY <2>1, <2>2 DEF Inv, DrillIsFrozen, Sticky
  <2>7. QED
    BY <2>1, <2>2, <2>3, <2>4, <2>6 DEF Inv, TypeOK
<1>8. CASE Selects
  <2>1. UNCHANGED <<objs, flows, drillMode, drillFlowIdx, frozenFlows, cachedFrom>> /\ ~drillMode
    BY <1>1, <1>8 DEF Selects, drill
  <2>2. /\ selectedFlow' \in Nat /\ selectedFlowId' \in AllIds \cup {NoId}
        /\ Selected'
    BY <1>1, <1>8, SelectsRow
  <2>3. OneRow' /\ DrillIsFrozen'
    BY <2>1 DEF Inv, OneRow, DrillIsFrozen
  <2>4. QED
    BY <2>1, <2>2, <2>3 DEF Inv, TypeOK
<1>9. CASE Enters
  <2>1. /\ UNCHANGED <<objs, flows, selectedFlow, selectedFlowId>>
        /\ drillFlowIdx' = selectedFlow
    BY <1>1, <1>9 DEF Enters, selection
  <2>2. /\ frozenFlows' \in Seq(DOMAIN objs) /\ cachedFrom' \in Seq(DOMAIN objs)
        /\ DrillIsFrozen'
    BY <1>1, <1>9, EntersRow
  <2>3. OneRow' /\ Selected'
    BY <2>1 DEF Inv, OneRow, Selected
  <2>4. QED
    BY <2>1, <2>2, <2>3 DEF Inv, TypeOK
<1>10. QED
  BY <1>1, <1>5, <1>6, <1>7, <1>8, <1>9 DEF Effects

\* NewDashboard: no flows, no filter, nothing selected.
LEMMA InitInv == Init => Inv
<1> SUFFICES ASSUME Init PROVE Inv
  OBVIOUS
<1>1. /\ objs = <<>> /\ flows = <<>> /\ allFlows = {} /\ frozenFlows = <<>> /\ cachedFrom = <<>>
      /\ selectedFlow = 0 /\ selectedFlowId = NoId /\ drillFlowIdx = 0
      /\ ~drillMode
  BY DEF Init, Table!Init
<1>2. DOMAIN objs = {} /\ DOMAIN flows = {}
  BY <1>1
<1>3. ObjectsOK /\ Distinct(allFlows) /\ OneRow
  BY <1>1, <1>2 DEF ObjectsOK, OneOpen, Latest, OpenFlows, Distinct, OneRow
<1>4. Selected /\ DrillIsFrozen
  BY <1>1 DEF Selected, DrillIsFrozen
<1>5. TypeOK
  <2>1. "" \in ToSet(Protos)
    BY ProtosFacts
  <2>2. sortBy \in DOMAIN NextSort /\ filterProto \in ToSet(Protos) /\ filterInput \in ToSet(Protos)
    BY <2>1 DEF Init, NextSort
  <2>3. {helpMode, filterMode, drillMode, paused, quit} \subseteq BOOLEAN
    BY DEF Init
  <2>4. /\ flows \in Seq(DOMAIN objs) /\ allFlows \subseteq DOMAIN objs
        /\ frozenFlows \in Seq(DOMAIN objs) /\ cachedFrom \in Seq(DOMAIN objs)
    BY <1>1, EmptySeq
  <2>5. QED
    BY <1>1, <2>2, <2>3, <2>4 DEF TypeOK
<1>6. QED
  BY <1>3, <1>4, <1>5 DEF Inv

\* The invariant of the dashboard, whatever is captured and typed.
THEOREM Invariance == Spec => []Inv
<1>1. Inv /\ [Next]_vars => Inv'
  BY AggregatesInv, RefreshInv, KeyInv, UnchangedInv DEF Next
<1>2. QED
  BY <1>1, InitInv, PTL DEF Spec
-----------------------------------------------------------------------------
\* The dashboard's fields keep their types: rows and frozen rows are flows of
\* the aggregator, filters are offered ones (Dashboard, dashboard.go:52-93).
THEOREM TypeCorrect == Spec => []TypeOK
<1>1. Inv => TypeOK
  BY DEF Inv
<1>2. QED
  BY <1>1, Invariance, PTL

\* The row of the conversation the user selected is the one marked, wherever
\* updateFlows and sortFlows move it (dashboard.go:58), unless the other end has
\* reopened the conversation, which getFlowId (dashboard.go:1193) takes for another.
THEOREM SelectionSticks == Spec => []StickySelection
<1>1. Inv => StickySelection
  BY ShowsClings, StickyMeans DEF Inv, Selected, StickySelection
<1>2. QED
  BY <1>1, Invariance, PTL

\* The drill-down shows the packets of the conversation that was selected on
\* entry as long as it lasts (handleKeypress's enter, frozenFlows), with the same
\* exception.
THEOREM DrillStaysFrozen == Spec => []DrillIsFrozen
<1>1. Inv => DrillIsFrozen
  BY DEF Inv
<1>2. QED
  BY <1>1, Invariance, PTL

\* A refresh that is not paused shows only conversations the aggregator knows, and
\* all of those that the filter admits (updateFlows).
LEMMA RefreshShows == Inv => RefreshShowsTable
<1> SUFFICES ASSUME Inv, Refresh, ~paused PROVE Ids(ToSet(flows')) = Ids(OpenFlows)
  <2>1. Ids(Admitted) \subseteq Ids(OpenFlows)
    BY DEF Ids, Admitted
  <2> QED BY <2>1 DEF RefreshShowsTable
<1> DEFINE R == Refreshed(ToSet(flows), OpenFlows)
<1>1. flows' \in Sorted(R)
  BY DEF Refresh
<1>2. ToSet(flows) \in SUBSET DOMAIN objs /\ Distinct(ToSet(flows))
  BY RowsDistinct DEF Inv
<1>3. R \in SUBSET DOMAIN objs /\ Distinct(R) /\ Ids(R) = Ids(OpenFlows)
  BY <1>2, RefreshedRows DEF Inv
<1> HIDE DEF R
<1>4. ToSet(flows') = R
  BY <1>1, <1>3, SortedDistinct DEF Inv, ObjectsOK
<1>5. QED
  BY <1>3, <1>4

\* Every refresh shows each conversation of the aggregator that the filter admits
\* in one row, none it does not have, and no other step makes a second row for one
\* (updateFlows, applyFilters, sortFlows).
THEOREM RefreshMatchesTable == Spec => RowsMatchTable
<1>1. Inv' => OneRow'
  BY DEF Inv
<1>2. QED
  BY <1>1, RefreshShows, Invariance, PTL DEF RowsMatchTable
=============================================================================
