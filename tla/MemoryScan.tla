----------------------------- MODULE MemoryScan -----------------------------
(***************************************************************************)
(* The memory analysis of RedisME: the loop of useMemoryScan, with the     *)
(* dialog for a folder and the page that drive it.                         *)
(*                                                                         *)
(* A scan is a loop of calls that a pause or a stop ends at its next look. *)
(* Opening the dialog and closing it wait until the loop has ended, each   *)
(* in a poll of its own, so that several wait at a time and go on in any   *)
(* order.  The page is a dialog that stays open and whose pattern can be   *)
(* typed over during a scan.                                               *)
(*                                                                         *)
(* A pattern has one hit on each page of the cursor; sizes, the filter of  *)
(* the table and the deletion of its rows are left out.                    *)
(***************************************************************************)
EXTENDS Naturals, FiniteSets

CONSTANTS
  Patterns,
  Pages,     \* bound: calls until the cursor is finished
  Waiters    \* bound: handlers that wait at a time

VARIABLES
  page,      \* whether this is the page or the dialog
  match,     \* the pattern of the dialog or page
  dialog,    \* visible, and whether the animation of a closing is under way
  flag,      \* cancelled and paused
  loop,      \* runLoop: where it is, and its call
  cursor,    \* the pages read
  list,      \* dataList
  wait,      \* who is in waitUntilIdle, and what for
  of         \* history: the pattern the last scan was started for, and whether it was kept

vars == <<page, match, dialog, flag, loop, cursor, list, wait, of>>

Idle == [at |-> "idle", match |-> CHOOSE p \in Patterns : TRUE, from |-> 0]

TypeOK ==
  /\ page \in BOOLEAN /\ match \in Patterns /\ dialog \in [open : BOOLEAN, closing : BOOLEAN]
  /\ flag \in [cancelled : BOOLEAN, paused : BOOLEAN]
  /\ loop \in [at : {"idle", "call", "sleep"}, match : Patterns, from : 0..Pages - 1]
  /\ cursor \in 0..Pages /\ list \subseteq Patterns \X (1..Pages)
  /\ wait \in [Waiters -> {"no", "open", "stop", "closed"}]
  /\ of \in [match : Patterns, kept : BOOLEAN]
  \* A loop that runs has pages to read.
  /\ loop.at # "idle" => cursor < Pages

Init ==
  /\ page \in BOOLEAN /\ match \in Patterns
  /\ dialog = [open |-> page, closing |-> FALSE]
  /\ flag = [cancelled |-> FALSE, paused |-> FALSE]
  /\ loop = Idle /\ cursor = 0 /\ list = {} /\ wait = [w \in Waiters |-> "no"]
  /\ of = [match |-> match, kept |-> FALSE]

Scanning == loop.at # "idle"

-----------------------------------------------------------------------------
(* runLoop *)

Ask(c) == loop' = [at |-> "call", match |-> match, from |-> c]

\* finally: a finished scan is not paused.
End(c) == loop' = Idle /\ flag' = [flag EXCEPT !.paused = @ /\ c # Pages]

Hits(p) == {<<loop.match, i>> : i \in loop.from + 1..p}
MergedUnlessPaused(p) == IF flag.paused THEN list ELSE list \cup Hits(p)
Merged(p) == list \cup Hits(p)

\* A page is back: dropped after a stop; else the loop ends, asks on, or sleeps first.
Page ==
  /\ loop.at = "call"
  /\ IF flag.cancelled THEN End(cursor) /\ UNCHANGED <<cursor, list>>
     ELSE \E p \in loop.from + 1..Pages :
            /\ cursor' = p /\ list' = Merged(p)
            /\ \/ (p = Pages \/ flag.paused) /\ End(p)
               \/ p < Pages /\ ~flag.paused /\ Ask(p) /\ UNCHANGED flag
               \/ page /\ p < Pages /\ loop' = [Idle EXCEPT !.at = "sleep"] /\ UNCHANGED flag
  /\ UNCHANGED <<page, match, dialog, wait, of>>

Awake ==
  /\ loop.at = "sleep"
  /\ IF flag.cancelled \/ flag.paused THEN End(cursor) ELSE Ask(cursor) /\ UNCHANGED flag
  /\ UNCHANGED <<page, match, dialog, cursor, list, wait, of>>

\* A failed call leaves the scan paused, also when it was to be stopped.
PageFails ==
  /\ loop.at = "call"
  /\ loop' = Idle /\ flag' = [flag EXCEPT !.paused = TRUE]
  /\ UNCHANGED <<page, match, dialog, cursor, list, wait, of>>

-----------------------------------------------------------------------------
(* The buttons, the dialog and the page. *)

\* start
Start ==
  /\ flag' = [cancelled |-> FALSE, paused |-> FALSE]
  /\ list' = {} /\ cursor' = 0 /\ Ask(0)
  /\ of' = [match |-> match, kept |-> TRUE]

\* What stop does before it waits.
Stop(w, why) ==
  /\ wait[w] = "no" /\ wait' = [wait EXCEPT ![w] = why]
  /\ flag' = [cancelled |-> TRUE, paused |-> FALSE]

StartButton ==
  /\ page /\ ~Scanning /\ ~flag.paused
  /\ Start /\ UNCHANGED <<page, match, dialog, wait>>

StopButton(w) ==
  /\ dialog.open /\ (Scanning \/ flag.paused)
  /\ Stop(w, "stop") /\ UNCHANGED <<page, match, dialog, loop, cursor, list, of>>

\* The ring: pause, or go on from the cursor.
Pause ==
  /\ dialog.open /\ Scanning
  /\ flag' = [flag EXCEPT !.paused = TRUE]
  /\ UNCHANGED <<page, match, dialog, loop, cursor, list, wait, of>>

Resume ==
  /\ dialog.open /\ ~Scanning /\ flag.paused
  /\ flag' = [cancelled |-> FALSE, paused |-> FALSE] /\ Ask(cursor)
  /\ UNCHANGED <<page, match, dialog, cursor, list, wait, of>>

\* open: the folder is set at once, its scan starts when the last one has ended.
Open(w, m) ==
  /\ ~page /\ ~dialog.open /\ dialog' = [dialog EXCEPT !.open = TRUE] /\ match' = m
  /\ Stop(w, "open")
  /\ UNCHANGED <<page, loop, cursor, list, of>>

Close ==
  /\ ~page /\ dialog.open /\ dialog' = [open |-> FALSE, closing |-> TRUE]
  /\ UNCHANGED <<page, match, flag, loop, cursor, list, wait, of>>

\* onClosed, which comes also when the dialog was opened again meanwhile.
Closed(w) ==
  /\ dialog.closing /\ dialog' = [dialog EXCEPT !.closing = FALSE]
  /\ IF dialog.open THEN UNCHANGED <<flag, wait>> ELSE Stop(w, "closed")
  /\ UNCHANGED <<page, match, loop, cursor, list, of>>

\* The page: its pattern is read by the next call.
EditMatch(m) ==
  /\ page /\ m # match /\ match' = m
  /\ of' = [of EXCEPT !.kept = FALSE]
  /\ UNCHANGED <<page, dialog, flag, loop, cursor, list, wait>>

LoopOver == ~Scanning

StartUnlessScanning == IF Scanning THEN UNCHANGED <<flag, loop, cursor, list, of>> ELSE Start

Cleared == IF dialog.open THEN list ELSE {}

\* One of those who wait finds the loop over: open starts, closed clears.
Go(w) ==
  /\ wait[w] # "no" /\ LoopOver
  /\ wait' = [wait EXCEPT ![w] = "no"]
  /\ CASE wait[w] = "open" -> StartUnlessScanning
       [] wait[w] = "closed" -> list' = Cleared /\ UNCHANGED <<flag, loop, cursor, of>>
       [] wait[w] = "stop" -> UNCHANGED <<flag, loop, cursor, list, of>>
  /\ UNCHANGED <<page, match, dialog>>

-----------------------------------------------------------------------------
Next ==
  \/ Page \/ Awake \/ PageFails \/ StartButton \/ Pause \/ Resume \/ Close
  \/ \E w \in Waiters : StopButton(w) \/ Closed(w) \/ Go(w) \/ \E m \in Patterns : Open(w, m)
  \/ \E m \in Patterns : EditMatch(m)

Spec == Init /\ [][Next]_vars

-----------------------------------------------------------------------------
(* Properties. *)

Opening == \E w \in Waiters : wait[w] = "open"

\* However often the dialog is closed and opened for another folder while the old
\* scan has a call under way, an open dialog has the hits of its own folder and of
\* no other, once nobody waits to start.
OwnFolder == dialog.open /\ ~Opening /\ of.kept =>
  of.match = match /\ \A h \in list : h[1] = match

\* A scan that has read the whole cursor has every hit, whatever was paused, resumed,
\* failed and closed meanwhile.
AllHits == dialog.open /\ ~Opening /\ of.kept /\ ~Scanning /\ cursor = Pages =>
  list = {match} \X (1..Pages)
=============================================================================
