----------------------------- MODULE EventReader -----------------------------
(***************************************************************************)
(* The life of the EventReader of internal/monitor/monitor.go beside the   *)
(* packets (which Capture follows): NewEventReader acquires its resources  *)
(* one after the other and gives back what it has when a step fails,       *)
(* interfaceWatcherLoop looks at the interface at every tick, both         *)
(* goroutines and NewEventReader write to the StatusLog that the dashboard *)
(* reads, and Close ends it all.  Every method of StatusLog holds its      *)
(* mutex throughout, so each is one step.                                  *)
(*                                                                         *)
(* What a message says is abstracted to who wrote it, except for the two   *)
(* that tell that the interface went up or down.                           *)
(***************************************************************************)
EXTENDS Naturals, Sequences

CONSTANTS MaxSize,    \* sl.maxSize (100)
          Asked       \* how many messages GetRecent is asked for (4)

ASSUME MaxSizePositive == MaxSize \in Nat \ {0}
ASSUME AskedAssumption == Asked \subseteq Nat

VARIABLES messages,   \* sl.messages
          recent,     \* what the dashboard's latest GetRecent returned
          phase,      \* how far NewEventReader is
          held,       \* the resources that are open
          reading,    \* readLoop: has it written its first message, has it returned
          watching,   \* where interfaceWatcherLoop is
          isUp, lastUp, \* its locals
          linkUp,     \* the FlagUp of the interface
          closing     \* how many steps of Close are done

log == <<messages, recent>>
watcher == <<watching, isUp, lastUp>>
vars == <<messages, recent, phase, held, reading, watcher, linkUp, closing>>

Messages == {"startup", "readLoop", "lookup failed", "up", "down"}

\* The resources in the order in which they are acquired: each uses those
\* before it.
Resources == <<"objs", "xdpLink", "ringReader">>
FirstResources(n) == {Resources[i] : i \in 1 .. n}

\* The steps of NewEventReader, each of which may fail, and how many of the
\* resources are open when it begins.
HeldBefore == [memlock |-> 0, interface |-> 0, load |-> 0, attach |-> 1, open |-> 2]

Running == phase = "running"
Stopped == closing > 0
-----------------------------------------------------------------------------
\* Mutants of Added: the length is compared before the message is appended;
\* the log is cut one message too early.
AddedOverfull(m) == IF Len(messages) > MaxSize THEN Tail(Append(messages, m))
                                               ELSE Append(messages, m)
AddedEarlyCut(m) == IF Len(messages) + 1 >= MaxSize THEN Tail(Append(messages, m))
                                                    ELSE Append(messages, m)

\* StatusLog.Add
Added(m) == IF Len(messages) + 1 > MaxSize THEN Tail(Append(messages, m))
                                           ELSE Append(messages, m)
Add(m) == messages' = Added(m) /\ UNCHANGED recent

\* StatusLog.GetRecent, which renderStatusLog calls while the dashboard runs
Min(a, b) == IF a < b THEN a ELSE b
GetRecent(n) ==
  /\ Running /\ ~Stopped
  /\ recent' = SubSeq(messages, Len(messages) - Min(n, Len(messages)) + 1, Len(messages))
  /\ UNCHANGED <<messages, phase, held, reading, watcher, linkUp, closing>>
-----------------------------------------------------------------------------
\* NewStatusLog; the goroutines do not run yet.  An interface that was named
\* on the command line need not be up, but lastUp starts as true.
Init == /\ messages = <<>> /\ recent = <<>>
        /\ phase = "memlock" /\ held = {}
        /\ reading = "off"
        /\ watching = "off" /\ isUp = TRUE /\ lastUp = TRUE
        /\ linkUp \in BOOLEAN
        /\ closing = 0

\* A step of NewEventReader that succeeds, the next phase it leads to and what
\* it acquires; all but the first write to the log.
Advance(from, to, acquired) ==
  /\ phase = from /\ phase' = to
  /\ held' = held \cup acquired
  /\ IF from = "memlock" THEN UNCHANGED log ELSE Add("startup")
  /\ UNCHANGED <<reading, watcher, linkUp, closing>>

Prepares == Advance("memlock", "interface", {}) \/ Advance("interface", "load", {})
Loads == Advance("load", "attach", {"objs"})
Attaches == Advance("attach", "open", {"xdpLink"})
Opens == Advance("open", "running", {"ringReader"})

\* Mutant of StartFails: the reader that cannot be opened leaves XDP attached.
StartFailsAttached ==
  /\ phase \in DOMAIN HeldBefore /\ phase' = "failed"
  /\ held' = IF phase = "open" THEN held \ {"objs"} ELSE {}
  /\ UNCHANGED <<log, reading, watcher, linkUp, closing>>

\* A step that fails closes what the steps before it have opened, and main gives up.
StartFails ==
  /\ phase \in DOMAIN HeldBefore /\ phase' = "failed"
  /\ held' = held \ FirstResources(HeldBefore[phase])
  /\ UNCHANGED <<log, reading, watcher, linkUp, closing>>

\* Start, once, when NewEventReader has returned
Start == /\ Running /\ watching = "off" /\ ~Stopped
         /\ reading' = "begin" /\ watching' = "select"
         /\ UNCHANGED <<log, phase, held, isUp, lastUp, linkUp, closing>>

\* readLoop writes when it begins, and then of failed reads, records it cannot
\* parse and events it drops.
ReadLoopWrites == /\ reading \in {"begin", "on"} /\ reading' = "on"
                  /\ Add("readLoop")
                  /\ UNCHANGED <<phase, held, watcher, linkUp, closing>>

ReadLoopEnds == /\ reading = "on" /\ Stopped
                /\ reading' = "done"
                /\ UNCHANGED <<log, phase, held, watcher, linkUp, closing>>
-----------------------------------------------------------------------------
\* The interface changes, whenever it likes.
LinkChanges == /\ linkUp' = ~linkUp
               /\ UNCHANGED <<log, phase, held, reading, watcher, closing>>

\* interfaceWatcherLoop: of stop and tick either may be taken when both are ready.
WatcherStops == /\ watching = "select" /\ Stopped
                /\ watching' = "done"
                /\ UNCHANGED <<log, phase, held, reading, isUp, lastUp, linkUp, closing>>

\* Mutants of LookupFails: a failure counts as down; the loop returns.
LookupFailsDown == /\ watching = "select"
                   /\ Add("lookup failed") /\ lastUp' = FALSE
                   /\ UNCHANGED <<phase, held, reading, watching, isUp, linkUp, closing>>
LookupFailsReturns == /\ watching = "select" /\ watching' = "done"
                      /\ Add("lookup failed")
                      /\ UNCHANGED <<phase, held, reading, isUp, lastUp, linkUp, closing>>

\* A tick at which InterfaceByName fails
LookupFails == /\ watching = "select"
               /\ Add("lookup failed")
               /\ UNCHANGED <<phase, held, reading, watcher, linkUp, closing>>

\* A tick at which it succeeds; only a change is told, in a step of its own:
\* other messages may come first, and the interface may change again.
LooksUp == /\ watching = "select"
           /\ isUp' = linkUp
           /\ watching' = IF linkUp # lastUp THEN "tell" ELSE "select"
           /\ UNCHANGED <<log, phase, held, reading, lastUp, linkUp, closing>>

Tells == /\ watching = "tell" /\ watching' = "select"
         /\ Add(IF isUp THEN "up" ELSE "down")
         /\ lastUp' = isUp
         /\ UNCHANGED <<phase, held, reading, isUp, linkUp, closing>>
-----------------------------------------------------------------------------
\* Close: stopChan first, then the resources, the latest acquired first.
Close == /\ Running /\ closing < 4
         /\ closing' = closing + 1
         /\ held' = held \ (IF closing = 0 THEN {} ELSE {Resources[4 - closing]})
         /\ UNCHANGED <<log, phase, reading, watcher, linkUp>>

NewEventReader == Prepares \/ Loads \/ Attaches \/ Opens \/ StartFails
readLoop == ReadLoopWrites \/ ReadLoopEnds
interfaceWatcherLoop == WatcherStops \/ LookupFails \/ LooksUp \/ Tells

Next == NewEventReader \/ Start \/ readLoop \/ interfaceWatcherLoop \/ LinkChanges \/ Close
        \/ \E n \in Asked : GetRecent(n)

Spec == Init /\ [][Next]_vars

\* The ticker goes on ticking, and a lookup does not fail for ever.
Fairness == WF_vars(Start) /\ SF_vars(LooksUp) /\ WF_vars(Tells)

FairSpec == Spec /\ Fairness
-----------------------------------------------------------------------------
TypeOK ==
  /\ messages \in Seq(Messages) /\ Len(messages) <= MaxSize
  /\ recent \in Seq(Messages)
  /\ phase \in DOMAIN HeldBefore \cup {"running", "failed"}
  /\ held \subseteq FirstResources(3)
  /\ reading \in {"off", "begin", "on", "done"}
  /\ watching \in {"off", "select", "tell", "done"}
  /\ isUp \in BOOLEAN /\ lastUp \in BOOLEAN /\ linkUp \in BOOLEAN
  /\ closing \in 0 .. 4

\* However a start fails, nothing stays open that NewEventReader has opened;
\* once it has succeeded all is open until Close; and at no time, neither on the
\* way up nor on the way down, is something open whose foundation is closed.
NothingLeaks ==
  /\ phase = "failed" => held = {}
  /\ Running /\ closing <= 1 => held = FirstResources(3)
  /\ closing = 4 => held = {}
  /\ \E n \in 0 .. 3 : held = FirstResources(n)

\* What the status log tells of the interface is a history that can have
\* happened: after "DOWN" the next such message is "UP" and after "UP" it is
\* "DOWN", whatever lookups fail and whoever writes in between, and the latest
\* one is what the watcher compares with at the next tick.
IsEdge(m) == m \in {"up", "down"}
NoEdge(s, i, j) == \A k \in i .. j : ~IsEdge(s[k])
Alternates(s, up) ==
  /\ \A i, j \in DOMAIN s :
       i < j /\ IsEdge(s[i]) /\ IsEdge(s[j]) /\ NoEdge(s, i + 1, j - 1) => s[i] # s[j]
  /\ \A i \in DOMAIN s : IsEdge(s[i]) /\ NoEdge(s, i + 1, Len(s)) => (s[i] = "up" <=> up)
EdgesAlternate == Alternates(messages, lastUp)

\* An interface that stays up or down is noticed in the end, although lookups
\* may fail and it may have changed between a look and the message about it.
StateIsNoticed ==
  \A up \in BOOLEAN : <>[](linkUp = up /\ Running /\ ~Stopped) => <>[](lastUp = up)

\* The status log keeps the MaxSize latest messages of all its writers, and the
\* dashboard is given the latest of them as they were at one instant.
StatusHistory == INSTANCE BoundedHistory
                   WITH Items <- Messages, Capacity <- MaxSize, Readers <- {"dashboard"},
                        hist <- messages, answer <- [r \in {"dashboard"} |-> recent]
StatusIsKept == StatusHistory!Spec
=============================================================================
