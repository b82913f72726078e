----------------------------- MODULE CommandLog -----------------------------
(***************************************************************************)
(* The command log of RedisME: a ring of entries per client, and the panel *)
(* that shows it from a snapshot and the events that follow.               *)
(*                                                                         *)
(* A connection that has run a command numbers its entry, emits it and     *)
(* then stores it, three steps that the main thread and export or import   *)
(* threads take side by side.  Events and the answers of commands reach    *)
(* the window on separate ways.  A client that replaces another has a log  *)
(* of its own, which begins to number anew under the same connection id.   *)
(*                                                                         *)
(* The panel listens to one connection; highlighting, filter and what an   *)
(* entry says are left out.                                                *)
(***************************************************************************)
EXTENDS Integers, Sequences, FiniteSets, SequencesExt

CONSTANTS
  Writers,   \* threads that run commands
  Main,      \* the main thread, which also answers the panel
  MaxLogs,   \* bound: clients made
  MaxId,     \* bound: entries of a log
  MaxEntries,   \* bound: entries of all logs
  Limit,     \* DEFAULT_MAX_ENTRIES and LOG_LIMIT
  UnderWay   \* bound: events on their way to the window

VARIABLES
  log,       \* the logger of the client in the table
  next,      \* next_id of each logger
  ring,      \* entries of that logger, oldest first; nobody reads an older one's
  push,      \* what each writer is at
  events,    \* command-log events on their way
  panel,     \* see Panel0
  calm       \* history, see PanelFollows

vars == <<log, next, ring, push, events, panel, calm>>

Logs == 1..MaxLogs
Entry == [log : Logs, id : 1..MaxId]
NoPush == [st |-> "idle", entry |-> [log |-> 1, id |-> 1]]

\* load and clear: the calls of loadLogs and clearLogs, with the snapshot that is
\* on its way; listen: the listener; loaded: history, a snapshot came since the
\* panel was opened.
Panel0 == [open |-> FALSE, list |-> <<>>, seen |-> 0, load |-> "no", snap |-> <<>>,
           clear |-> "no", listen |-> "off", loaded |-> FALSE]

TypeOK ==
  /\ log \in Logs /\ next \in [Logs -> 1..MaxId + 1]
  /\ ring \in Seq(Entry) /\ Len(ring) <= Limit
  /\ push \in [Writers -> [st : {"idle", "numbered", "emitted"}, entry : Entry]]
  /\ events \in Seq(Entry) /\ Len(events) <= UnderWay
  /\ panel \in [open : BOOLEAN, list : Seq(Entry), seen : 0..MaxId,
                load : {"no", "asked", "answered"}, snap : Seq(Entry),
                clear : {"no", "asked", "answered"}, listen : {"off", "asked", "on"},
                loaded : BOOLEAN]
  /\ Len(panel.list) <= Limit
  /\ calm \in BOOLEAN

Init ==
  /\ log = 1 /\ next = [l \in Logs |-> 1] /\ ring = <<>>
  /\ push = [w \in Writers |-> NoPush]
  /\ events = <<>> /\ panel = Panel0 /\ calm = FALSE

Idle(w) == push[w].st = "idle"
AllIdle == \A w \in Writers : Idle(w)

\* The highest number of some rows, as the panel's reduce takes it.
TopOf(rows) == LET ids == {rows[i].id : i \in DOMAIN rows}
               IN  IF rows = <<>> THEN 0 ELSE CHOOSE m \in ids : \A n \in ids : n <= m

NewestFirst(rows) == SubSeq(rows, 1, IF Len(rows) > Limit THEN Limit ELSE Len(rows))

-----------------------------------------------------------------------------
(* push_entry. *)

\* bound: the entries numbered so far.
Made == {e \in Entry : e.id < next[e.log]}

\* The main thread uses the client in the table; an export or import keeps the
\* logger it began with.
Number(w) ==
  /\ Idle(w)
  /\ \E l \in IF w = Main THEN {log} ELSE 1..log :
       /\ next[l] <= MaxId /\ Cardinality(Made) < MaxEntries
       /\ next' = [next EXCEPT ![l] = @ + 1]
       /\ push' = [push EXCEPT ![w] = [st |-> "numbered", entry |-> [log |-> l, id |-> next[l]]]]
       /\ calm' = (calm /\ AllIdle /\ l = log)
  /\ UNCHANGED <<log, ring, events, panel>>

\* The event goes to windows that listen at that moment.
Emit(w) ==
  /\ push[w].st = "numbered" /\ Len(events) < UnderWay
  /\ push' = [push EXCEPT ![w].st = "emitted"]
  /\ events' = IF panel.listen = "on" THEN Append(events, push[w].entry) ELSE events
  /\ calm' = (calm /\ panel.listen = "on" /\ panel.load = "no" /\ panel.clear = "no")
  /\ UNCHANGED <<log, next, ring, panel>>

DrainedNewest(rows) == IF Len(rows) > Limit THEN Front(rows) ELSE rows
Drained(rows) == IF Len(rows) > Limit THEN Tail(rows) ELSE rows

Store(w) ==
  /\ push[w].st = "emitted"
  /\ ring' = IF push[w].entry.log = log THEN Drained(Append(ring, push[w].entry)) ELSE ring
  /\ push' = [push EXCEPT ![w] = NoPush]
  /\ UNCHANGED <<log, next, events, panel, calm>>

\* The connection is refreshed, here or in another window.
Replaced ==
  /\ Idle(Main) /\ log < MaxLogs
  /\ log' = log + 1 /\ ring' = <<>> /\ calm' = FALSE
  /\ UNCHANGED <<next, push, events, panel>>

-----------------------------------------------------------------------------
(* Commands of the panel, on the main thread. *)

\* The snapshot is the whole log if nobody is about to store, and what is still
\* under way is in it.
RunQuery ==
  /\ Idle(Main) /\ panel.load = "asked"
  /\ panel' = [panel EXCEPT !.load = "answered", !.snap = NewestFirst(Reverse(ring))]
  /\ calm' = /\ AllIdle /\ panel.clear = "no"
             /\ \A i \in DOMAIN events :
                  events[i].log = log /\ events[i].id <= TopOf(ring)
  /\ UNCHANGED <<log, next, ring, push, events>>

RunClear ==
  /\ Idle(Main) /\ panel.clear = "asked"
  /\ ring' = <<>>
  /\ panel' = [panel EXCEPT !.clear = "answered"]
  /\ calm' = (calm /\ AllIdle /\ panel.load = "no" /\ events = <<>>)
  /\ UNCHANGED <<log, next, push, events>>

RunListen ==
  /\ Idle(Main) /\ panel.listen = "asked"
  /\ panel' = [panel EXCEPT !.listen = "on"]
  /\ UNCHANGED <<log, next, ring, push, events, calm>>

-----------------------------------------------------------------------------
(* The panel. *)

Window(p) == panel' = p /\ UNCHANGED <<log, next, ring, push, calm>>

\* bound: one loadLogs at a time.
Open ==
  /\ ~panel.open /\ panel.load = "no"
  /\ Window([panel EXCEPT !.open = TRUE, !.seen = 0, !.load = "asked", !.loaded = FALSE])
  /\ UNCHANGED events

\* A listener that is being registered cannot be removed yet.
Close ==
  /\ panel.open
  /\ Window([panel EXCEPT !.open = FALSE, !.seen = 0,
                          !.listen = IF @ = "on" THEN "off" ELSE @])
  /\ UNCHANGED events

\* The answer of loadLogs; the listener is registered anew, also when the panel
\* was closed meanwhile.
Loaded ==
  /\ panel.load = "answered"
  /\ Window([panel EXCEPT !.load = "no", !.snap = <<>>,
                          !.list = panel.snap, !.seen = TopOf(panel.snap),
                          !.listen = "asked", !.loaded = panel.open])
  /\ UNCHANGED events

\* The client cannot be had: the list stays, and nothing is listened to.
LoadFails ==
  /\ panel.load = "asked"
  /\ Window([panel EXCEPT !.load = "no"])
  /\ UNCHANGED events

Clear ==
  /\ panel.open /\ panel.clear = "no"
  /\ Window([panel EXCEPT !.clear = "asked"])
  /\ UNCHANGED events

Cleared ==
  /\ panel.clear = "answered"
  /\ Window([panel EXCEPT !.clear = "no", !.seen = 0, !.list = <<>>])
  /\ UNCHANGED events

New(e) == e.id > panel.seen

\* An event; after the listener is gone it is dropped.
Arrives ==
  /\ events # <<>> /\ events' = Tail(events)
  /\ LET e == Head(events) IN
       IF panel.listen = "on" /\ New(e)
       THEN Window([panel EXCEPT !.list = NewestFirst(<<e>> \o @), !.seen = e.id])
       ELSE Window(panel)

-----------------------------------------------------------------------------
Next ==
  \/ \E w \in Writers : Number(w) \/ Emit(w) \/ Store(w)
  \/ Replaced \/ RunQuery \/ RunClear \/ RunListen
  \/ Open \/ Close \/ Loaded \/ LoadFails \/ Clear \/ Cleared \/ Arrives

Spec == Init /\ [][Next]_vars

-----------------------------------------------------------------------------
(* Properties. *)

\* A panel that has loaded has no two rows of one number, its row key, although snapshot and
\* events overlap and a client that replaces another begins to number anew.
NoTwins == panel.open /\ panel.loaded =>
  \A i, j \in DOMAIN panel.list : i # j => panel.list[i].id # panel.list[j].id

\* An open panel that has caught up shows the log, newest first and no older than
\* the limit, if commands came one at a time and none came between the snapshot
\* and the listener, between a clearing and its answer, or from an older client.
PanelFollows ==
  /\ panel.open /\ panel.loaded /\ panel.listen = "on" /\ panel.load = "no" /\ panel.clear = "no"
  /\ AllIdle /\ events = <<>> /\ calm
  => panel.list = NewestFirst(Reverse(ring))
=============================================================================
