------------------------------ MODULE KeyModes ------------------------------
(***************************************************************************)
(* RedisME's key list changes between scanning and the query of an index.  *)
(*                                                                         *)
(* Both fill the same list and share the flags of the scan.  A handler     *)
(* that has to stop what is running polls until it is over; others wait    *)
(* for the names of the indexes, which may change the index.  So several   *)
(* handlers are under way at a time, and what one has set before it waited *)
(* another has changed by the time it goes on.                             *)
(*                                                                         *)
(* A scan and an index have the same number of pages, and a page is one    *)
(* row that says where it is from.  Key types, favourites and what changes *)
(* keys are left out; KeyScan has the scan itself.  Two handlers that wait *)
(* for the same thing are one.                                             *)
(***************************************************************************)
EXTENDS Naturals, FiniteSets

CONSTANTS
  Indexes, None,
  Pages,     \* bound: pages of a scan and of an index
  UnderWay   \* bound: handlers that wait, beside the page that is read

VARIABLES
  ui,        \* keyType (scan or search), searchIndex, loadingIndexes, ignoreIndexChange
  scan,      \* loading, scanCancelled, scanPaused, scanLoadAll
  list,      \* scanBuffer, keyList, cursor, searchOffset, searchTotal
  tasks,     \* handlers that wait: for a page, for names, or for the scan to be over
  off        \* history: since the last choice, whether it overtook a handler, and a call failed

vars == <<ui, scan, list, tasks, off>>

Maybe == Indexes \cup {None}
Rows == (Indexes \cup {"scan"}) \X (1..Pages)
Task ==
  [what : {"page"}, mode : {"scan", "search"}, all : BOOLEAN, of : Maybe \cup {"scan"}, from : 0..Pages]
    \cup [what : {"names"}, prefer : Maybe, prev : Maybe, then : {"enter", "browse", "names"}]
    \cup [what : {"stop"}, prefer : Maybe, already : BOOLEAN,
          then : {"scan", "search", "enter", "browse", "refresh"}]

Paging == {t \in tasks : t.what = "page"}

TypeOK ==
  /\ ui \in [mode : {"scan", "search"}, index : Maybe, naming : BOOLEAN, ignore : BOOLEAN]
  /\ scan \in [loading : BOOLEAN, cancelled : BOOLEAN, paused : BOOLEAN, all : BOOLEAN]
  /\ list \in [buf : SUBSET Rows, shown : SUBSET Rows, cursor : 0..Pages, offset : 0..Pages, total : {0, Pages}]
  /\ tasks \subseteq Task /\ off \in [overtaken : BOOLEAN, failed : BOOLEAN]

\* The list when its first scan has begun; cursor 0 is none.
Init ==
  /\ ui = [mode |-> "scan", index |-> None, naming |-> FALSE, ignore |-> FALSE]
  /\ scan = [loading |-> TRUE, cancelled |-> FALSE, paused |-> FALSE, all |-> FALSE]
  /\ list = [buf |-> {}, shown |-> {}, cursor |-> 0, offset |-> 0, total |-> 0]
  /\ tasks = {[what |-> "page", mode |-> "scan", all |-> FALSE, of |-> "scan", from |-> 0]}
  /\ off = [overtaken |-> FALSE, failed |-> FALSE]

Settled == \A t \in tasks : t.what = "page"
AtRest == tasks = {}

-----------------------------------------------------------------------------
(* The parts that handlers share; ts are the other tasks, l is the list.  ui' is given. *)

Kept(l) == l
Cleared(l) == [l EXCEPT !.buf = {}, !.shown = {}, !.offset = 0, !.total = 0]

\* scanKeyCore and searchKeysPage up to their call, which read all inputs anew.
Page(mode, all, l) ==
  [what |-> "page", mode |-> mode, all |-> all,
   of |-> IF mode = "search" THEN ui'.index ELSE IF ui'.mode = "scan" THEN "scan" ELSE None,
   from |-> IF mode = "search" THEN l.offset ELSE l.cursor]

Nothing(ts, l) == tasks' = ts /\ list' = l /\ UNCHANGED scan

Begin(mode, ts, l, paused, all) ==
  /\ scan' = [loading |-> TRUE, cancelled |-> FALSE, paused |-> paused, all |-> all]
  /\ list' = l /\ tasks' = ts \cup {Page(mode, all, l)}

Idle == FALSE
\* A scan or a query is being carried out: no second one begins.
Busy == scan.loading

\* scanKey, when there is nothing to wait for.
ScanKey(ts, l, append, all) ==
  IF Busy THEN Nothing(ts, l)
  ELSE Begin("scan", ts, IF append THEN l ELSE [l EXCEPT !.cursor = 0, !.buf = {}], scan.paused /\ append, all)

\* runSearchKeys once nothing is running: whatever the mode has become by then.
QueryIndex(ts, l, append, all) ==
  IF ui'.index = None THEN Nothing(ts, Cleared(l))
  ELSE Begin("search", ts, IF append THEN l ELSE Cleared(l), scan.paused /\ append, all)

\* runSearchKeys, when there is nothing to wait for.
RunSearchKeys(ts, l, append, all) ==
  IF ui'.mode # "search" \/ Busy THEN Nothing(ts, l) ELSE QueryIndex(ts, l, append, all)

\* loadSearchIndexes up to its call.
Names(ts, prefer, then) ==
  tasks' = ts \cup {[what |-> "names", prefer |-> prefer, prev |-> ui.index, then |-> then]}

\* What comes after stopScanIfRunning; without the reset of ui.
Then(s, ts) ==
  CASE s.then = "scan" -> ScanKey(ts, list, FALSE, FALSE)
    [] s.then = "search" -> QueryIndex(ts, list, FALSE, FALSE)
    [] s.then = "refresh" -> ScanKey(ts, [Cleared(list) EXCEPT !.cursor = 0], FALSE, FALSE)
    [] s.then \in {"enter", "browse"} ->
         /\ scan' = [scan EXCEPT !.paused = FALSE]
         /\ list' = [(IF s.already THEN list ELSE Cleared(list)) EXCEPT !.cursor = 0]
         /\ Names(ts, s.prefer, s.then)

\* The part of a handler that sets ui when it goes on.
Sets(s, u) ==
  CASE s.then = "refresh" -> [u EXCEPT !.mode = "scan", !.index = None, !.naming = FALSE]
    [] s.then \in {"enter", "browse"} -> [u EXCEPT !.naming = TRUE, !.ignore = TRUE]
    [] OTHER -> u

\* A handler of the user that stops what is running.
Stopping(then, prefer, already, u) ==
  LET s == [what |-> "stop", then |-> then, prefer |-> prefer, already |-> already] IN
  /\ Cardinality(tasks \ Paging) < UnderWay /\ off' = [overtaken |-> ~Settled, failed |-> FALSE]
  /\ IF scan.loading
     THEN /\ ui' = u /\ scan' = [scan EXCEPT !.cancelled = TRUE, !.paused = FALSE]
          /\ tasks' = tasks \cup {s} /\ UNCHANGED list
     ELSE ui' = Sets(s, u) /\ Then(s, tasks)

-----------------------------------------------------------------------------
(* The user. *)

\* chooseKeyType; a type chosen while scanning is dropped, which KeyScan has.
ChooseScan ==
  /\ ui.mode = "search" /\ Stopping("scan", None, FALSE, [ui EXCEPT !.mode = "scan"])

\* chooseKeyType with enterSearchMode.
ChooseSearch == Stopping("enter", None, FALSE, [ui EXCEPT !.mode = "search"])

\* browseSearchIndex, from the page for full-text search.
Browse(i) == Stopping("browse", i, ui.mode = "search", [ui EXCEPT !.mode = "search"])

\* onSearchIndexChange: the box has the new index, and what the program chose is no choice.
PickIndex(i) ==
  /\ ui.mode = "search" /\ i # ui.index
  /\ IF ui.ignore
     THEN ui' = [ui EXCEPT !.index = i] /\ off' = [off EXCEPT !.overtaken = TRUE] /\ UNCHANGED <<scan, list, tasks>>
     ELSE Stopping("search", None, FALSE, [ui EXCEPT !.index = i])

\* onRefreshSearchIndexes
RefreshNames ==
  /\ ui.mode = "search" /\ ~ui.naming /\ ~scan.loading /\ Cardinality(tasks \ Paging) < UnderWay
  /\ ui' = [ui EXCEPT !.naming = TRUE, !.ignore = TRUE] /\ Names(tasks, None, "names")
  /\ off' = [off EXCEPT !.overtaken = @ \/ ~Settled] /\ UNCHANGED <<scan, list>>

\* onRefreshKey
Restart == Stopping(IF ui.mode = "search" THEN "search" ELSE "scan", None, FALSE, ui)

\* refresh: of the connection, or for another database.
Refresh == Stopping("refresh", None, FALSE, ui)

\* queryKeyList: Enter, more or all of the list, and going on after a pause.
Query(append, all) ==
  /\ ~scan.loading /\ Cardinality(tasks \ Paging) < UnderWay
  /\ IF ui.mode = "search" THEN append => list.offset < list.total
     ELSE append => list.cursor \in 1..Pages - 1
  /\ UNCHANGED ui /\ off' = [off EXCEPT !.overtaken = @ \/ ~Settled]
  /\ IF ui.mode = "search" THEN RunSearchKeys(tasks, list, append, all)
     ELSE ScanKey(tasks, list, append, all)

Pause ==
  /\ scan.loading /\ scan' = [scan EXCEPT !.cancelled = TRUE, !.paused = TRUE]
  /\ UNCHANGED <<ui, list, tasks, off>>

Resume ==
  /\ ~scan.loading /\ scan.paused /\ Cardinality(tasks \ Paging) < UnderWay
  /\ UNCHANGED ui /\ off' = [off EXCEPT !.overtaken = @ \/ ~Settled]
  /\ IF ui.mode = "search" /\ ui.index = None
     THEN tasks' = tasks /\ list' = Cleared(list) /\ scan' = [scan EXCEPT !.paused = FALSE]
     ELSE Begin(ui.mode, tasks, list, FALSE, scan.all)

-----------------------------------------------------------------------------
(* Pages, names and the end of a scan. *)

\* A handler that polls finds that nothing is loading.
GoOn(s) ==
  /\ s.what = "stop" /\ ~scan.loading
  /\ ui' = Sets(s, ui) /\ Then(s, tasks \ {s}) /\ UNCHANGED off

\* finally: what has been read to its end is not paused.
Ended(t, l) ==
  /\ tasks' = tasks \ {t}
  /\ scan' = [scan EXCEPT !.loading = FALSE,
                !.paused = @ /\ ~(IF t.mode = "search" THEN l.offset >= l.total ELSE l.cursor = Pages)]

\* A page lands in the list there is by now.
Landed(t) ==
  /\ t.what = "page" /\ UNCHANGED <<ui, off>>
  /\ LET rows == list.buf \cup IF t.of = None \/ t.from = Pages THEN {} ELSE {<<t.of, t.from + 1>>}
         last == t.from + 1 >= Pages
         more == IF t.mode = "search" THEN t.all /\ list'.offset < Pages ELSE ~last
     IN
     /\ list' = IF t.mode = "search"
                THEN [list EXCEPT !.buf = rows, !.shown = rows, !.total = Pages,
                        !.offset = IF t.from = Pages \/ @ = Pages THEN Pages ELSE @ + 1]
                ELSE [list EXCEPT !.buf = rows, !.shown = rows, !.cursor = IF last THEN Pages ELSE t.from + 1]
     /\ \/ more /\ ~scan.cancelled
           /\ tasks' = (tasks \ {t}) \cup {Page(t.mode, t.all, list')} /\ UNCHANGED scan
        \* A scan has enough for now.
        \/ (more /\ ~scan.cancelled => t.mode = "scan" /\ ~t.all) /\ Ended(t, list')

\* The call of a page fails.
PageFails(t) ==
  /\ t.what = "page" /\ Ended(t, list) /\ off' = [off EXCEPT !.failed = TRUE] /\ UNCHANGED <<ui, list>>

\* loadSearchIndexes and what comes after it.  An index that is asked for is among the
\* names or not; without one the chosen index stays, or it is gone and another that there
\* is, or none, takes its place.
GotNames(t) ==
  /\ t.what = "names" /\ UNCHANGED off
  /\ \E i \in Maybe :
       /\ t.prefer # None => i \in {t.prefer, None}
       /\ ui' = [ui EXCEPT !.index = i, !.naming = FALSE, !.ignore = FALSE]
       /\ CASE t.then = "names" /\ i = t.prev -> Nothing(tasks \ {t}, list)
            [] t.then = "browse" /\ i # t.prefer -> Nothing(tasks \ {t}, Cleared(list))
            [] OTHER -> RunSearchKeys(tasks \ {t}, list, FALSE, FALSE)

NamesFail(t) ==
  /\ t.what = "names" /\ ui' = [ui EXCEPT !.naming = FALSE, !.ignore = FALSE]
  /\ tasks' = tasks \ {t} /\ off' = [off EXCEPT !.failed = TRUE] /\ UNCHANGED <<scan, list>>

-----------------------------------------------------------------------------
Next ==
  \/ ChooseScan \/ ChooseSearch \/ RefreshNames \/ Restart \/ Refresh \/ Pause \/ Resume
  \/ \E i \in Indexes : Browse(i) \/ PickIndex(i)
  \/ Query(FALSE, FALSE) \/ Query(TRUE, FALSE) \/ Query(TRUE, TRUE)
  \/ \E t \in tasks : GoOn(t) \/ Landed(t) \/ PageFails(t) \/ GotNames(t) \/ NamesFail(t)

Spec == Init /\ [][Next]_vars

-----------------------------------------------------------------------------
(* Properties. *)

\* One scan or query runs at a time, whoever waits for it to be over, and `loading`
\* says so.
OneAtATime == Cardinality(Paging) = IF scan.loading THEN 1 ELSE 0

Whose == IF ui.mode = "scan" THEN "scan" ELSE ui.index
Read == IF ui.mode = "scan" THEN list.cursor ELSE list.offset

\* When nothing is under way the list shows all pages that were read in the mode and of
\* the index that are chosen, and nothing else, if no handler was overtaken by another
\* choice and no call failed.
OwnRows == AtRest /\ ~off.overtaken /\ ~off.failed => list.shown = {Whose} \X (1..Read)
=============================================================================
