-------------------------- MODULE EventReaderProof --------------------------
(***************************************************************************)
(* For every capacity of the status log: the types of EventReader, what    *)
(* NewEventReader and Close leave open, the order of the messages about    *)
(* the interface, and that the log is a bounded history.                   *)
(***************************************************************************)
EXTENDS EventReader, SequenceTheorems, TLAPS

\* What is held follows from how far NewEventReader or Close is, and the
\* watcher only tells of a change.
HeldIs(n) == held = FirstResources(n)
HeldFollows ==
  /\ phase \in DOMAIN HeldBefore => HeldIs(HeldBefore[phase]) /\ closing = 0
  /\ phase = "failed" => HeldIs(0) /\ closing = 0
  /\ Running => HeldIs(IF closing = 0 THEN 3 ELSE 4 - closing)
TellsChange == watching = "tell" => isUp # lastUp

\* The inductive invariant.
Inv == TypeOK /\ HeldFollows /\ TellsChange /\ EdgesAlternate
-----------------------------------------------------------------------------
\* The three resources, and the sets of those acquired first.
LEMMA FirstOnes ==
  /\ FirstResources(0) = {} /\ FirstResources(1) = {"objs"}
  /\ FirstResources(2) = {"objs", "xdpLink"}
  /\ FirstResources(3) = {"objs", "xdpLink", "ringReader"}
<1>1. /\ 1 .. 0 = {} /\ 1 .. 1 = {1} /\ 1 .. 2 = {1, 2} /\ 1 .. 3 = {1, 2, 3}
  OBVIOUS
<1>2. Resources[1] = "objs" /\ Resources[2] = "xdpLink" /\ Resources[3] = "ringReader"
  BY DEF Resources
<1>3. QED
  BY <1>1, <1>2 DEF FirstResources

\* The phases and what is held in them.
LEMMA PhaseFacts ==
  /\ DOMAIN HeldBefore = {"memlock", "interface", "load", "attach", "open"}
  /\ HeldBefore["memlock"] = 0 /\ HeldBefore["interface"] = 0 /\ HeldBefore["load"] = 0
  /\ HeldBefore["attach"] = 1 /\ HeldBefore["open"] = 2
  BY DEF HeldBefore

\* The log with one message more, and what is asked of it, are logs.
LEMMA AddedType ==
  ASSUME messages \in Seq(Messages), Len(messages) <= MaxSize, NEW m \in Messages
  PROVE  Added(m) \in Seq(Messages) /\ Len(Added(m)) <= MaxSize
<1>1. Append(messages, m) \in Seq(Messages) /\ Len(Append(messages, m)) = Len(messages) + 1
  BY AppendProperties
<1>2. /\ Tail(Append(messages, m)) \in Seq(Messages)
      /\ Len(Tail(Append(messages, m))) = Len(messages)
  BY <1>1, HeadTailProperties
<1>3. QED
  BY <1>1, <1>2, MaxSizePositive DEF Added

\* GetRecent returns a piece of the log, at most as long as it is asked for.
LEMMA RecentType ==
  ASSUME NEW s \in Seq(Messages), NEW n \in Nat
  PROVE  /\ SubSeq(s, Len(s) - Min(n, Len(s)) + 1, Len(s)) \in Seq(Messages)
         /\ SubSeq(s, Len(s) - Min(n, Len(s)) + 1, Len(s))
              = IF n < Len(s) THEN SubSeq(s, Len(s) - n + 1, Len(s)) ELSE s
<1>1. Len(s) \in Nat /\ \A i \in 1 .. Len(s) : s[i] \in Messages
  BY LenProperties, ElementOfSeq
<1>2. CASE n < Len(s)
  <2>1. Len(s) - n + 1 \in Nat /\ Len(s) - n + 1 >= 1
    BY <1>1, <1>2
  <2>2. \A i \in Len(s) - n + 1 .. Len(s) : s[i] \in Messages
    BY <1>1, <2>1
  <2>3. SubSeq(s, Len(s) - n + 1, Len(s)) \in Seq(Messages)
    BY <1>1, <2>1, <2>2, SubSeqProperties
  <2>4. Min(n, Len(s)) = n
    BY <1>2 DEF Min
  <2>5. QED
    BY <1>2, <2>3, <2>4
<1>3. CASE ~(n < Len(s))
  <2>1. Len(s) - Min(n, Len(s)) + 1 = 1
    BY <1>1, <1>3 DEF Min
  <2>2. SubSeq(s, 1, Len(s)) = s
    <3>1. /\ SubSeq(s, 1, Len(s)) \in Seq(Messages) /\ Len(SubSeq(s, 1, Len(s))) = Len(s)
          /\ \A i \in 1 .. Len(s) : SubSeq(s, 1, Len(s))[i] = s[i]
      BY <1>1, SubSeqProperties
    <3>2. QED
      BY <3>1, SeqEqual
  <2>3. QED
    BY <1>3, <2>1, <2>2
<1>4. QED
  BY <1>2, <1>3
-----------------------------------------------------------------------------
\* Dropping the oldest message keeps the order of what is told.
LEMMA TailAlternates ==
  ASSUME NEW s \in Seq(Messages), s # <<>>, NEW up, Alternates(s, up)
  PROVE  Alternates(Tail(s), up)
<1> DEFINE t == Tail(s)
<1>1. /\ t \in Seq(Messages) /\ Len(s) \in Nat \ {0} /\ Len(t) = Len(s) - 1
      /\ \A i \in 1 .. Len(t) : t[i] = s[i + 1]
  BY HeadTailProperties
<1> HIDE DEF t
<1>2. DOMAIN t = 1 .. Len(t) /\ DOMAIN s = 1 .. Len(s)
  BY <1>1
<1>3. ASSUME NEW i \in DOMAIN t, NEW j \in DOMAIN t,
             i < j, IsEdge(t[i]), IsEdge(t[j]), NoEdge(t, i + 1, j - 1)
      PROVE  t[i] # t[j]
  <2>1. /\ i + 1 \in DOMAIN s /\ j + 1 \in DOMAIN s /\ i + 1 < j + 1
        /\ t[i] = s[i + 1] /\ t[j] = s[j + 1]
    BY <1>1, <1>2, <1>3
  <2>2. ASSUME NEW k \in (i + 1) + 1 .. (j + 1) - 1
        PROVE  ~IsEdge(s[k])
    <3>1. k - 1 \in i + 1 .. j - 1 /\ k - 1 \in 1 .. Len(t)
      BY <1>1, <1>2
    <3>2. t[k - 1] = s[k]
      <4>1. t[k - 1] = s[(k - 1) + 1] /\ (k - 1) + 1 = k
        BY <1>1, <3>1
      <4>2. QED
        BY <4>1
    <3>3. QED
      BY <1>3, <3>1, <3>2 DEF NoEdge
  <2>3. NoEdge(s, (i + 1) + 1, (j + 1) - 1)
    BY <2>2 DEF NoEdge
  <2>4. QED
    BY <1>3, <2>1, <2>3 DEF Alternates
<1>4. ASSUME NEW i \in DOMAIN t, IsEdge(t[i]), NoEdge(t, i + 1, Len(t))
      PROVE  t[i] = "up" <=> up
  <2>1. i + 1 \in DOMAIN s /\ t[i] = s[i + 1]
    BY <1>1, <1>2
  <2>2. ASSUME NEW k \in (i + 1) + 1 .. Len(s)
        PROVE  ~IsEdge(s[k])
    <3>1. k - 1 \in i + 1 .. Len(t) /\ k - 1 \in 1 .. Len(t)
      BY <1>1, <1>2
    <3>2. t[k - 1] = s[k]
      <4>1. t[k - 1] = s[(k - 1) + 1] /\ (k - 1) + 1 = k
        BY <1>1, <3>1
      <4>2. QED
        BY <4>1
    <3>3. QED
      BY <1>4, <3>1, <3>2 DEF NoEdge
  <2>3. NoEdge(s, (i + 1) + 1, Len(s))
    BY <2>2 DEF NoEdge
  <2>4. QED
    BY <1>4, <2>1, <2>3 DEF Alternates
<1>5. Alternates(t, up)
  BY <1>3, <1>4 DEF Alternates
<1>6. QED
  BY <1>5 DEF t

\* A message that is no edge leaves the order as it is; an edge may follow when
\* it tells of a change.
LEMMA AppendAlternates ==
  ASSUME NEW s \in Seq(Messages), NEW m \in Messages,
         NEW up \in BOOLEAN, NEW now \in BOOLEAN, Alternates(s, up),
         IF IsEdge(m) THEN now # up /\ (m = "up" <=> now) ELSE now = up
  PROVE  Alternates(Append(s, m), now)
<1> DEFINE t == Append(s, m)
           last == Len(s) + 1
<1>1. /\ t \in Seq(Messages) /\ Len(s) \in Nat /\ Len(t) = last
      /\ \A i \in 1 .. Len(s) : t[i] = s[i]
      /\ t[last] = m
  BY AppendProperties
<1> HIDE DEF t
<1>2. DOMAIN t = 1 .. last /\ DOMAIN s = 1 .. Len(s) /\ last \in Nat
  BY <1>1
<1>3. ASSUME NEW i \in DOMAIN t, NEW j \in DOMAIN t,
             i < j, IsEdge(t[i]), IsEdge(t[j]), NoEdge(t, i + 1, j - 1)
      PROVE  t[i] # t[j]
  <2>1. i \in 1 .. Len(s) /\ t[i] = s[i]
    BY <1>1, <1>2, <1>3
  <2>2. \A k \in i + 1 .. j - 1 : k \in 1 .. Len(s) /\ ~IsEdge(s[k])
    BY <1>1, <1>2, <1>3, <2>1 DEF NoEdge
  <2>3. CASE j \in 1 .. Len(s)
    <3>1. t[j] = s[j] /\ NoEdge(s, i + 1, j - 1)
      BY <1>1, <2>2, <2>3 DEF NoEdge
    <3>2. QED
      BY <1>2, <1>3, <2>1, <2>3, <3>1 DEF Alternates
  <2>4. CASE j = last
    <3>1. j - 1 = Len(s) /\ t[j] = m
      BY <1>1, <2>4
    <3>2. NoEdge(s, i + 1, Len(s))
      BY <2>2, <3>1 DEF NoEdge
    <3>3. s[i] = "up" <=> up
      BY <1>2, <1>3, <2>1, <3>2 DEF Alternates
    <3>4. IsEdge(m) /\ IsEdge(s[i])
      BY <1>3, <2>1, <3>1
    <3>5. (m = "up") # (s[i] = "up")
      BY <3>3, <3>4
    <3>6. QED
      BY <2>1, <3>1, <3>5
  <2>5. QED
    BY <1>2, <2>3, <2>4
<1>4. ASSUME NEW i \in DOMAIN t, IsEdge(t[i]), NoEdge(t, i + 1, Len(t))
      PROVE  t[i] = "up" <=> now
  <2>1. CASE i = last
    BY <1>1, <1>4, <2>1
  <2>2. CASE i \in 1 .. Len(s)
    <3>1. last \in i + 1 .. Len(t) /\ t[i] = s[i]
      BY <1>1, <1>2, <2>2
    <3>2. ~IsEdge(m)
      BY <1>1, <1>4, <3>1 DEF NoEdge
    <3>3. NoEdge(s, i + 1, Len(s))
      <4>1. ASSUME NEW k \in i + 1 .. Len(s) PROVE ~IsEdge(s[k])
        <5>1. k \in i + 1 .. Len(t) /\ k \in 1 .. Len(s)
          BY <1>1, <1>2, <2>2
        <5>2. QED
          BY <1>1, <1>4, <5>1 DEF NoEdge
      <4>2. QED
        BY <4>1 DEF NoEdge
    <3>4. s[i] = "up" <=> up
      BY <1>2, <1>4, <2>2, <3>1, <3>3 DEF Alternates
    <3>5. QED
      BY <3>1, <3>2, <3>4
  <2>3. QED
    BY <1>2, <2>1, <2>2
<1>5. Alternates(t, now)
  BY <1>3, <1>4 DEF Alternates
<1>6. QED
  BY <1>5 DEF t

\* The same of Add, which may drop the oldest message.
LEMMA AddAlternates ==
  ASSUME messages \in Seq(Messages), NEW m \in Messages,
         NEW up \in BOOLEAN, NEW now \in BOOLEAN, Alternates(messages, up),
         IF IsEdge(m) THEN now # up /\ (m = "up" <=> now) ELSE now = up
  PROVE  Alternates(Added(m), now)
<1>1. Alternates(Append(messages, m), now)
  BY AppendAlternates
<1>2. Append(messages, m) \in Seq(Messages) /\ Append(messages, m) # <<>>
  BY AppendProperties
<1>3. Alternates(Tail(Append(messages, m)), now)
  BY <1>1, <1>2, TailAlternates
<1>4. QED
  BY <1>1, <1>3 DEF Added
-----------------------------------------------------------------------------
\* A start of the program satisfies the invariant.
LEMMA InitInv == Init => Inv
<1>1. SUFFICES ASSUME Init PROVE Inv
  OBVIOUS
<1>2. TypeOK
  BY <1>1, PhaseFacts, FirstOnes, MaxSizePositive DEF Init, TypeOK
<1>3. HeldFollows
  BY <1>1, PhaseFacts, FirstOnes DEF Init, HeldFollows, HeldIs, Running
<1>4. TellsChange /\ EdgesAlternate
  BY <1>1 DEF Init, TellsChange, EdgesAlternate, Alternates
<1>5. QED
  BY <1>2, <1>3, <1>4 DEF Inv

\* The messages that are written, by whom and when, are messages.
LEMMA MessageTypes ==
  /\ "startup" \in Messages /\ "readLoop" \in Messages /\ "lookup failed" \in Messages
  /\ "up" \in Messages /\ "down" \in Messages
  /\ ~IsEdge("startup") /\ ~IsEdge("readLoop") /\ ~IsEdge("lookup failed")
  /\ IsEdge("up") /\ IsEdge("down")
  BY DEF Messages, IsEdge

\* What a step may do to the log and to what the watcher remembers: nothing, or
\* one message more, which is an edge exactly when the watcher tells of a change.
Quiet == messages' = messages /\ lastUp' = lastUp
Told(m) == /\ messages' = Added(m)
           /\ IF IsEdge(m) THEN lastUp' # lastUp /\ (m = "up" <=> lastUp') ELSE lastUp' = lastUp

\* Every step does one of the two.
LEMMA LogStep ==
  ASSUME Inv, [Next]_vars
  PROVE  Quiet \/ \E m \in Messages : Told(m)
<1>1. isUp \in BOOLEAN /\ lastUp \in BOOLEAN
  BY DEF Inv, TypeOK
<1>2. CASE Prepares \/ Loads \/ Attaches \/ Opens
  <2>1. /\ messages' = messages \/ messages' = Added("startup")
        /\ lastUp' = lastUp
    BY <1>2 DEF Prepares, Loads, Attaches, Opens, Advance, Add, log, watcher
  <2>2. CASE messages' = messages
    BY <2>1, <2>2 DEF Quiet
  <2>3. CASE messages' = Added("startup")
    <3>1. Told("startup")
      BY <2>1, <2>3, MessageTypes DEF Told
    <3>2. QED
      BY <3>1, MessageTypes
  <2>4. QED
    BY <2>1, <2>2, <2>3
<1>3. CASE Tells
  <2>1. lastUp' = isUp /\ isUp # lastUp
    BY <1>3 DEF Tells, Inv, TellsChange
  <2>2. CASE isUp
    <3>1. messages' = Added("up") /\ lastUp' = TRUE /\ lastUp = FALSE
      BY <1>1, <1>3, <2>1, <2>2 DEF Tells, Add
    <3>2. Told("up")
      BY <3>1, MessageTypes DEF Told
    <3>3. QED
      BY <3>2, MessageTypes
  <2>3. CASE ~isUp
    <3>1. messages' = Added("down") /\ lastUp' = FALSE /\ lastUp = TRUE
      BY <1>1, <1>3, <2>1, <2>3 DEF Tells, Add
    <3>2. Told("down")
      BY <3>1, MessageTypes DEF Told
    <3>3. QED
      BY <3>2, MessageTypes
  <2>4. QED
    BY <2>2, <2>3
<1>4. CASE NewEventReader
  <2>1. CASE StartFails
    BY <2>1 DEF StartFails, Quiet, log, watcher
  <2>2. QED
    BY <1>2, <1>4, <2>1 DEF NewEventReader
<1>5. CASE Start \/ Close \/ LinkChanges \/ ReadLoopEnds \/ WatcherStops \/ LooksUp
  BY <1>5 DEF Start, Close, LinkChanges, ReadLoopEnds, WatcherStops, LooksUp, Quiet, log, watcher
<1>6. CASE ReadLoopWrites
  BY <1>6, MessageTypes DEF ReadLoopWrites, Add, Told, watcher
<1>7. CASE LookupFails
  BY <1>7, MessageTypes DEF LookupFails, Add, Told, watcher
<1>8. ASSUME NEW n \in Asked, GetRecent(n)
      PROVE  Quiet
  BY <1>8 DEF GetRecent, Quiet, watcher
<1>9. CASE UNCHANGED vars
  BY <1>9 DEF vars, Quiet, watcher
<1>10. QED
  BY <1>3, <1>4, <1>5, <1>6, <1>7, <1>8, <1>9
  DEF Next, readLoop, interfaceWatcherLoop

\* The order of what is told about the interface is kept.
LEMMA EdgesStep == ASSUME Inv, [Next]_vars, lastUp' \in BOOLEAN PROVE EdgesAlternate'
<1>1. messages \in Seq(Messages) /\ lastUp \in BOOLEAN /\ Alternates(messages, lastUp)
  BY DEF Inv, TypeOK, EdgesAlternate
<1>2. CASE Quiet
  BY <1>1, <1>2 DEF Quiet, EdgesAlternate
<1>3. CASE \E m \in Messages : Told(m)
  <2>1. PICK m \in Messages : Told(m)
    BY <1>3
  <2>2. Alternates(Added(m), lastUp')
    BY <1>1, <2>1, AddAlternates DEF Told
  <2>3. QED
    BY <2>1, <2>2 DEF Told, EdgesAlternate
<1>4. QED
  BY <1>2, <1>3, LogStep

\* The watcher is about to tell only of a change.
LEMMA TellsStep == ASSUME Inv, [Next]_vars PROVE TellsChange'
<1>1. TypeOK /\ TellsChange
  BY DEF Inv
<1>2. CASE LooksUp
  BY <1>1, <1>2 DEF LooksUp, TellsChange, TypeOK
<1>3. CASE Tells
  BY <1>3 DEF Tells, TellsChange
<1>4. CASE WatcherStops
  BY <1>4 DEF WatcherStops, TellsChange
<1>5. CASE Start
  BY <1>5 DEF Start, TellsChange
<1>6. CASE UNCHANGED watcher
  BY <1>1, <1>6 DEF watcher, TellsChange
<1>7. QED
  BY <1>2, <1>3, <1>4, <1>5, <1>6
  DEF Next, vars, NewEventReader, Prepares, Loads, Attaches, Opens, Advance, StartFails,
      readLoop, ReadLoopWrites, ReadLoopEnds, interfaceWatcherLoop, LookupFails,
      LinkChanges, Close, GetRecent

\* What is held follows the phase, a failed step and Close included.
LEMMA HeldStep == ASSUME Inv, [Next]_vars PROVE HeldFollows'
<1>1. /\ phase \in DOMAIN HeldBefore \cup {"running", "failed"} /\ closing \in 0 .. 4
      /\ HeldFollows
  BY DEF Inv, TypeOK
<1>2. CASE Prepares
  BY <1>1, <1>2, PhaseFacts, FirstOnes
  DEF Prepares, Advance, HeldFollows, HeldIs, Running
<1>3. CASE Loads
  BY <1>1, <1>3, PhaseFacts, FirstOnes DEF Loads, Advance, HeldFollows, HeldIs, Running
<1>4. CASE Attaches
  BY <1>1, <1>4, PhaseFacts, FirstOnes DEF Attaches, Advance, HeldFollows, HeldIs, Running
<1>5. CASE Opens
  BY <1>1, <1>5, PhaseFacts, FirstOnes DEF Opens, Advance, HeldFollows, HeldIs, Running
<1>6. CASE StartFails
  <2>1. held' = {} /\ phase' = "failed" /\ closing' = 0
    BY <1>1, <1>6 DEF StartFails, HeldFollows, HeldIs
  <2>2. QED
    BY <2>1, PhaseFacts, FirstOnes DEF HeldFollows, HeldIs, Running
<1>7. CASE Close
  <2>1. /\ phase = "running" /\ phase' = phase /\ closing' = closing + 1
        /\ closing \in {0, 1, 2, 3}
        /\ held' = held \ (IF closing = 0 THEN {} ELSE {Resources[4 - closing]})
        /\ HeldIs(IF closing = 0 THEN 3 ELSE 4 - closing)
    BY <1>1, <1>7 DEF Close, Running, HeldFollows
  <2>2. held' = FirstResources(4 - closing')
    <3>1. CASE closing = 0
      BY <2>1, <3>1 DEF HeldIs
    <3>2. CASE closing = 1
      BY <2>1, <3>2, FirstOnes DEF HeldIs, Resources
    <3>3. CASE closing = 2
      BY <2>1, <3>3, FirstOnes DEF HeldIs, Resources
    <3>4. CASE closing = 3
      BY <2>1, <3>4, FirstOnes DEF HeldIs, Resources
    <3>5. QED
      BY <2>1, <3>1, <3>2, <3>3, <3>4
  <2>3. QED
    BY <2>1, <2>2, PhaseFacts DEF HeldFollows, HeldIs, Running
<1>8. CASE UNCHANGED <<phase, held, closing>>
  BY <1>1, <1>8 DEF HeldFollows, HeldIs, Running
<1>9. QED
  BY <1>2, <1>3, <1>4, <1>5, <1>6, <1>7, <1>8
  DEF Next, vars, NewEventReader, Start, readLoop, ReadLoopWrites, ReadLoopEnds,
      interfaceWatcherLoop, WatcherStops, LookupFails, LooksUp, Tells, LinkChanges, GetRecent

\* Every step keeps the types.
LEMMA TypeStep == ASSUME Inv, [Next]_vars PROVE TypeOK'
<1>1. TypeOK /\ HeldFollows'
  BY HeldStep DEF Inv
<1>2. messages' \in Seq(Messages) /\ Len(messages') <= MaxSize
  BY <1>1, LogStep, AddedType DEF Quiet, Told, TypeOK
<1>3. recent' \in Seq(Messages)
  <2>1. CASE recent' = recent
    BY <1>1, <2>1 DEF TypeOK
  <2>2. CASE \E n \in Asked : GetRecent(n)
    BY <1>1, <2>2, AskedAssumption, RecentType DEF GetRecent, TypeOK
  <2>3. QED
    BY <2>1, <2>2
    DEF Next, vars, log, NewEventReader, Prepares, Loads, Attaches, Opens, Advance, StartFails,
        Start, readLoop, ReadLoopWrites, ReadLoopEnds, interfaceWatcherLoop, WatcherStops,
        LookupFails, LooksUp, Tells, LinkChanges, Close, Add
<1>4. /\ isUp' \in BOOLEAN /\ lastUp' \in BOOLEAN /\ linkUp' \in BOOLEAN
      /\ watching' \in {"off", "select", "tell", "done"}
  BY <1>1
  DEF Next, vars, watcher, NewEventReader, Prepares, Loads, Attaches, Opens, Advance, StartFails,
      Start, readLoop, ReadLoopWrites, ReadLoopEnds, interfaceWatcherLoop, WatcherStops,
      LookupFails, LooksUp, Tells, LinkChanges, Close, GetRecent, TypeOK
<1>5. /\ phase' \in DOMAIN HeldBefore \cup {"running", "failed"}
      /\ closing' \in 0 .. 4 /\ reading' \in {"off", "begin", "on", "done"}
  <2> DEFINE Phases == DOMAIN HeldBefore \cup {"running", "failed"}
             Readings == {"off", "begin", "on", "done"}
  <2>1. phase \in Phases /\ closing \in 0 .. 4 /\ reading \in Readings
    BY <1>1 DEF TypeOK
  <2>2. phase' = phase \/ phase' \in {"interface", "load", "attach", "open", "running", "failed"}
    BY DEF Next, vars, NewEventReader, Prepares, Loads, Attaches, Opens, Advance, StartFails,
           Start, readLoop, ReadLoopWrites, ReadLoopEnds, interfaceWatcherLoop, WatcherStops,
           LookupFails, LooksUp, Tells, LinkChanges, Close, GetRecent
  <2>3. closing' = closing \/ (closing < 4 /\ closing' = closing + 1)
    BY DEF Next, vars, NewEventReader, Prepares, Loads, Attaches, Opens, Advance, StartFails,
           Start, readLoop, ReadLoopWrites, ReadLoopEnds, interfaceWatcherLoop, WatcherStops,
           LookupFails, LooksUp, Tells, LinkChanges, Close, GetRecent
  <2>4. reading' = reading \/ reading' \in {"begin", "on", "done"}
    BY DEF Next, vars, NewEventReader, Prepares, Loads, Attaches, Opens, Advance, StartFails,
           Start, readLoop, ReadLoopWrites, ReadLoopEnds, interfaceWatcherLoop, WatcherStops,
           LookupFails, LooksUp, Tells, LinkChanges, Close, GetRecent
  <2>5. phase' \in Phases
    BY <2>1, <2>2, PhaseFacts
  <2>6. closing' \in 0 .. 4
    BY <2>1, <2>3
  <2>7. reading' \in Readings
    BY <2>1, <2>4
  <2>8. QED
    BY <2>5, <2>6, <2>7
<1>6. held' \subseteq FirstResources(3)
  <2>1. \A n \in 0 .. 3 : FirstResources(n) \subseteq FirstResources(3)
    BY DEF FirstResources
  <2>2. \E n \in 0 .. 3 : HeldIs(n)'
    <3>1. CASE phase' \in DOMAIN HeldBefore
      <4>1. HeldBefore[phase'] \in 0 .. 3
        BY <3>1, PhaseFacts
      <4>2. QED
        BY <1>1, <3>1, <4>1 DEF HeldFollows
    <3>2. CASE phase' = "failed"
      BY <1>1, <3>2 DEF HeldFollows
    <3>3. CASE phase' = "running"
      BY <1>1, <1>5, <3>3 DEF HeldFollows, Running
    <3>4. QED
      BY <1>5, <3>1, <3>2, <3>3
  <2>3. QED
    BY <2>1, <2>2 DEF HeldIs
<1>7. QED
  BY <1>2, <1>3, <1>4, <1>5, <1>6 DEF TypeOK

\* The invariant is one of the specification.
THEOREM Invariance == Spec => []Inv
<1>1. Inv /\ [Next]_vars => Inv'
  <2>1. SUFFICES ASSUME Inv, [Next]_vars PROVE Inv'
    OBVIOUS
  <2>2. TypeOK'
    BY <2>1, TypeStep
  <2>3. EdgesAlternate'
    BY <2>1, <2>2, EdgesStep DEF TypeOK
  <2>4. HeldFollows' /\ TellsChange'
    BY <2>1, HeldStep, TellsStep
  <2>5. QED
    BY <2>2, <2>3, <2>4 DEF Inv
<1>2. QED
  BY <1>1, InitInv, PTL DEF Spec
-----------------------------------------------------------------------------
\* Types, and with them the length of the status log (StatusLog.Add).
THEOREM TypeCorrect == Spec => []TypeOK
<1>1. Inv => TypeOK
  BY DEF Inv
<1>2. QED
  BY <1>1, Invariance, PTL

\* NewEventReader gives back what it has opened when a step of it fails, and
\* Close closes in the order that the resources need.
THEOREM LeaksNothing == Spec => []NothingLeaks
<1>1. Inv => NothingLeaks
  <2>1. SUFFICES ASSUME Inv PROVE NothingLeaks
    OBVIOUS
  <2>2. /\ phase \in DOMAIN HeldBefore \cup {"running", "failed"} /\ closing \in 0 .. 4
        /\ HeldFollows
    BY <2>1 DEF Inv, TypeOK
  <2>3. phase = "failed" => held = {}
    BY <2>2, FirstOnes DEF HeldFollows, HeldIs
  <2>4. Running /\ closing <= 1 => held = FirstResources(3)
    BY <2>2 DEF HeldFollows, HeldIs
  <2>5. closing = 4 => held = {}
    BY <2>2, FirstOnes DEF HeldFollows, HeldIs, Running
  <2>6. \E n \in 0 .. 3 : held = FirstResources(n)
    <3>1. CASE phase \in DOMAIN HeldBefore
      <4>1. HeldBefore[phase] \in 0 .. 3
        BY <3>1, PhaseFacts
      <4>2. QED
        BY <2>2, <3>1, <4>1 DEF HeldFollows, HeldIs
    <3>2. CASE phase = "failed"
      BY <2>2, <3>2 DEF HeldFollows, HeldIs
    <3>3. CASE phase = "running"
      BY <2>2, <3>3 DEF HeldFollows, HeldIs, Running
    <3>4. QED
      BY <2>2, <3>1, <3>2, <3>3
  <2>7. QED
    BY <2>3, <2>4, <2>5, <2>6 DEF NothingLeaks
<1>2. QED
  BY <1>1, Invariance, PTL

\* interfaceWatcherLoop tells a history of the interface that can have happened.
THEOREM TellsInOrder == Spec => []EdgesAlternate
<1>1. Inv => EdgesAlternate
  BY DEF Inv
<1>2. QED
  BY <1>1, Invariance, PTL
-----------------------------------------------------------------------------
\* What the dashboard was given, as StatusHistory has it.
Shown == [r \in {"dashboard"} |-> recent]

\* A message more in the log is a message more in the history.
LEMMA AddedTrims ==
  ASSUME messages \in Seq(Messages), NEW m \in Messages
  PROVE  Added(m) = StatusHistory!Trimmed(Append(messages, m))
<1>1. Len(Append(messages, m)) = Len(messages) + 1
  BY AppendProperties
<1>2. QED
  BY <1>1 DEF Added, StatusHistory!Trimmed

\* A step that the dashboard takes no part in writes one message into the
\* history or leaves it alone.
LEMMA WriterStep ==
  ASSUME Inv, [Next]_vars, recent' = recent
  PROVE  [StatusHistory!Next]_(StatusHistory!vars)
<1>1. messages \in Seq(Messages)
  BY DEF Inv, TypeOK
<1>2. Shown' = Shown
  BY DEF Shown
<1>3. CASE Quiet
  BY <1>2, <1>3 DEF Quiet, Shown, StatusHistory!vars
<1>4. CASE \E m \in Messages : Told(m)
  <2>1. PICK m \in Messages : messages' = Added(m)
    BY <1>4 DEF Told
  <2>2. StatusHistory!Record(m)
    BY <1>1, <1>2, <2>1, AddedTrims DEF StatusHistory!Record, Shown
  <2>3. QED
    BY <2>2 DEF StatusHistory!Next
<1>5. QED
  BY <1>3, <1>4, LogStep

\* GetRecent reports the latest messages.
LEMMA ReaderStep ==
  ASSUME Inv, NEW n \in Asked, GetRecent(n)
  PROVE  StatusHistory!Next
<1>1. messages \in Seq(Messages) /\ n \in Nat
  BY AskedAssumption DEF Inv, TypeOK
<1>2. messages' = messages /\ recent' = StatusHistory!Latest(messages, n)
  <2>1. recent' = SubSeq(messages, Len(messages) - Min(n, Len(messages)) + 1, Len(messages))
    BY DEF GetRecent
  <2>2. recent' = IF n < Len(messages)
                    THEN SubSeq(messages, Len(messages) - n + 1, Len(messages)) ELSE messages
    BY <1>1, <2>1, RecentType
  <2>3. QED
    BY <2>2 DEF GetRecent, StatusHistory!Latest
<1>3. Shown' = [Shown EXCEPT !["dashboard"] = StatusHistory!Latest(messages, n)]
  BY <1>2 DEF Shown
<1>4. StatusHistory!Report("dashboard")
  BY <1>2, <1>3 DEF StatusHistory!Report, Shown
<1>5. QED
  BY <1>4 DEF StatusHistory!Next

\* The status log implements the bounded history of the messages of all its
\* writers (StatusLog.Add, StatusLog.GetRecent).
THEOREM RefinesStatusHistory == Spec => StatusIsKept
<1>1. Init => StatusHistory!Init
  BY DEF Init, StatusHistory!Init
<1>2. Inv /\ [Next]_vars => [StatusHistory!Next]_(StatusHistory!vars)
  <2>1. SUFFICES ASSUME Inv, [Next]_vars PROVE [StatusHistory!Next]_(StatusHistory!vars)
    OBVIOUS
  <2>2. CASE \E n \in Asked : GetRecent(n)
    BY <2>1, <2>2, ReaderStep
  <2>3. CASE recent' = recent
    BY <2>1, <2>3, WriterStep
  <2>4. QED
    BY <2>1, <2>2, <2>3
    DEF Next, vars, log, NewEventReader, Prepares, Loads, Attaches, Opens, Advance, StartFails,
        Start, readLoop, ReadLoopWrites, ReadLoopEnds, interfaceWatcherLoop, WatcherStops,
        LookupFails, LooksUp, Tells, LinkChanges, Close, Add
<1>3. QED
  BY <1>1, <1>2, Invariance, PTL DEF Spec, StatusIsKept, StatusHistory!Spec
=============================================================================
