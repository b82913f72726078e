------------------------------ MODULE KeyScan ------------------------------
(***************************************************************************)
(* The key list of RedisME: KeyMain.vue fetches it batch by batch, and the *)
(* back end runs one SCAN per call on the next master that the cursor does *)
(* not list as finished (a single server is a list of one).                *)
(*                                                                         *)
(* A scan is one chain of awaited calls: it reads the filter and the       *)
(* cursor anew before each batch, and meanwhile the user pauses, presses   *)
(* F5, changes the filter, deletes and renames, other clients change the   *)
(* keys, and another window replaces the client with its list of masters.  *)
(* F5 and refresh wait until the running chain is over.  Calls run and     *)
(* answer in order on the main thread, so those of the user's other        *)
(* handlers are a single step, taken while no scan reply is under way.     *)
(*                                                                         *)
(* The favourites and the full-text search of the same list are left out.  *)
(***************************************************************************)
EXTENDS Integers, Sequences, FiniteSets, Functions

CONSTANTS
  Keys,
  Lists,      \* the lists of masters a client may have been opened with
  Holds,      \* the keys each master would serve
  BucketOf,   \* where SCAN meets a key
  Buckets,    \* bound: steps of SCAN on a master
  Filters,    \* name and type filters: [keys : SUBSET Keys, exact : BOOLEAN]
  AllKeys,    \* the filter after a reset
  Count,      \* keyScanCount: keys after which a page is full
  Waiters     \* bound: handlers that wait for the running scan to end

Names == UNION {Range(l) : l \in Lists}

ASSUME KeyScanAssumption ==
  /\ IsFiniteSet(Keys)
  /\ Lists # {} /\ \A l \in Lists : l \in Seq(Range(l)) /\ l # <<>>
  /\ Holds \in [Names -> SUBSET Keys]
  /\ \A l \in Lists : UNION {Holds[n] : n \in Range(l)} = Keys
  /\ Buckets \in Nat \ {0} /\ BucketOf \in [Keys -> 1..Buckets]
  /\ Filters \subseteq [keys : SUBSET Keys, exact : BOOLEAN]
  /\ AllKeys \in Filters /\ Count \in Nat \ {0}

VARIABLES
  present,    \* the keys on the servers
  nodes,      \* node_list of the client, its masters
  filter,     \* match, type and exact of the inputs
  cursor,     \* ScanCursor
  buf,        \* scanBuffer: rows of each key
  ui,         \* loading, scanCancelled, scanPaused, scanLoadAll
  fetched,    \* keys of this page (cap: Count)
  flight,     \* the scan call under way
  wait,       \* handlers in stopScanIfRunning
  seen        \* history, see Seen0

vars == <<present, nodes, filter, cursor, buf, ui, fetched, flight, wait, seen>>

\* A cursor that is null and the default one make the same call.
Start == [ready |-> {}, pos |-> 0, fin |-> FALSE]
NoFlight == [st |-> "none", cur |-> Start, flt |-> AllKeys, keys |-> {}]

\* asked: the filter the user last asked a list for; stable: keys there since the
\* list was last cleared; steady: inputs and masters unchanged since; gone: keys
\* deleted here and not made again; collided: a row was added or renamed to a key
\* that had one.
Seen0 == [asked |-> AllKeys, stable |-> {}, steady |-> TRUE, gone |-> {}, collided |-> FALSE]

Cursor == [ready : SUBSET Names, pos : 0..Buckets - 1, fin : BOOLEAN]

ListOK ==
  /\ present \subseteq Keys /\ nodes \in Lists /\ filter \in Filters
  /\ cursor \in Cursor /\ buf \in [Keys -> 0..2]           \* cap: 2
  /\ fetched \in 0..Count

CallOK ==
  /\ ui \in [loading : BOOLEAN, cancelled : BOOLEAN, paused : BOOLEAN, all : BOOLEAN]
  /\ flight \in [st : {"none", "asked", "answered"}, cur : Cursor, flt : Filters,
                 keys : SUBSET Keys]
  /\ ui.loading <=> flight.st # "none"
  /\ wait \in [Waiters -> {"no", "restart", "refresh"}]

SeenOK == seen \in [asked : Filters, stable : SUBSET Keys, steady : BOOLEAN,
                    gone : SUBSET Keys, collided : BOOLEAN]

TypeOK == ListOK /\ CallOK /\ SeenOK

Init ==
  /\ present \in SUBSET Keys /\ nodes \in Lists /\ filter = AllKeys
  /\ cursor = Start /\ buf = [k \in Keys |-> 0] /\ fetched = 0 /\ flight = NoFlight
  /\ ui = [loading |-> FALSE, cancelled |-> FALSE, paused |-> FALSE, all |-> FALSE]
  /\ wait = [w \in Waiters |-> "no"] /\ seen = Seen0

-----------------------------------------------------------------------------
(* One scan call in the back end. *)

\* The first master that is not in ready_nodes; none if all are.
Pending(l, ready) == {i \in 1..Len(l) : l[i] \notin ready /\ \A j \in 1..i - 1 : l[j] \in ready}

Overrun(cur, n, p) == [cur EXCEPT !.pos = p, !.ready = IF p = Buckets THEN @ \cup {n} ELSE @]
KeepPos(cur, n, p) ==
  [cur EXCEPT !.pos = IF p = Buckets THEN @ ELSE p,
              !.ready = IF p = Buckets THEN @ \cup {n} ELSE @]
Advance(cur, n, p) ==
  [cur EXCEPT !.pos = IF p = Buckets THEN 0 ELSE p,
              !.ready = IF p = Buckets THEN @ \cup {n} ELSE @]

FinishLate(cur) == IF Cardinality(cur.ready) > Len(nodes)
                   THEN [cur EXCEPT !.fin = TRUE, !.pos = 0] ELSE cur
Finish(cur) == IF Cardinality(cur.ready) = Len(nodes)
               THEN [cur EXCEPT !.fin = TRUE, !.pos = 0] ELSE cur

Answer(cur, ks) ==
  flight' = [st |-> "answered", cur |-> cur, flt |-> AllKeys, keys |-> ks]

\* An exact name is looked up with EXISTS; a cursor whose masters are all ready
\* but that is not finished does nothing.
ScanCall ==
  /\ flight.st = "asked"
  /\ LET want == flight.flt.keys \cap present
         cur == flight.cur IN
     IF flight.flt.exact THEN Answer([Start EXCEPT !.fin = TRUE], want)
     ELSE IF Pending(nodes, cur.ready) = {} THEN Answer(Finish(cur), {})
     ELSE \E i \in Pending(nodes, cur.ready), p \in cur.pos + 1..Buckets :
            Answer(Finish(Advance(cur, nodes[i], p)),
                   {k \in want \cap Holds[nodes[i]] :
                      cur.pos < BucketOf[k] /\ BucketOf[k] <= p})
  /\ UNCHANGED <<present, nodes, filter, cursor, buf, ui, fetched, wait, seen>>

-----------------------------------------------------------------------------
(* The chain of calls in the window. *)

\* scanKeyCore reads cursor and filter when it makes the call.
Ask(cur, flt) == flight' = [NoFlight EXCEPT !.st = "asked", !.cur = cur, !.flt = flt]

\* scanKey when no scan is running: a page that follows the cursor, or a new list.
Continue(all, paused) ==
  /\ ui' = [loading |-> TRUE, cancelled |-> FALSE, paused |-> paused, all |-> all]
  /\ fetched' = 0 /\ Ask(cursor, filter)
  /\ UNCHANGED <<cursor, buf, seen>>

NewList(flt) ==
  /\ ui' = [loading |-> TRUE, cancelled |-> FALSE, paused |-> FALSE, all |-> FALSE]
  /\ fetched' = 0 /\ cursor' = Start /\ buf' = [k \in Keys |-> 0]
  /\ Ask(Start, flt)
  /\ seen' = [seen EXCEPT !.asked = flt, !.stable = present, !.steady = TRUE, !.collided = FALSE]

End == /\ ui' = [ui EXCEPT !.loading = FALSE, !.paused = @ /\ ~cursor'.fin]
       /\ flight' = NoFlight

AddTwice(k) == IF buf[k] < 2 THEN buf[k] + 1 ELSE 2
AddOnce(k) == IF buf[k] = 0 THEN 1 ELSE buf[k]

\* A batch is back: its rows are added without doubles, and the next one asked.
Landed ==
  LET got == fetched + Cardinality(flight.keys) IN
  /\ flight.st = "answered"
  /\ cursor' = flight.cur
  /\ buf' = [k \in Keys |-> IF k \in flight.keys THEN AddOnce(k) ELSE buf[k]]
  /\ fetched' = IF got >= Count THEN Count ELSE got
  /\ IF cursor'.fin \/ ui.cancelled \/ (~ui.all /\ got >= Count)
     THEN End ELSE Ask(cursor', filter) /\ UNCHANGED ui
  /\ UNCHANGED <<present, nodes, filter, wait, seen>>

Failed ==
  /\ flight.st \in {"asked", "answered"}
  /\ UNCHANGED cursor /\ End
  /\ UNCHANGED <<present, nodes, filter, buf, fetched, wait, seen>>

\* Pause, and go on where it stopped.
Pause ==
  /\ ui.loading
  /\ ui' = [ui EXCEPT !.cancelled = TRUE, !.paused = TRUE]
  /\ UNCHANGED <<present, nodes, filter, cursor, buf, fetched, flight, wait, seen>>

Resume ==
  /\ ~ui.loading /\ ui.paused
  /\ Continue(ui.all, FALSE)
  /\ UNCHANGED <<present, nodes, filter, wait>>

\* Load more and load all are shown while there is an unfinished cursor.
LoadMore ==
  /\ ~ui.loading /\ cursor # Start /\ ~cursor.fin
  /\ \E all \in BOOLEAN : Continue(all, ui.paused)
  /\ UNCHANGED <<present, nodes, filter, wait>>

Query ==
  /\ ~ui.loading
  /\ NewList(filter)
  /\ UNCHANGED <<present, nodes, filter, wait>>

\* F5 (restart) and refresh: at once, or after the running scan has ended.
StopAndWait(w, what) ==
  /\ ui.loading /\ wait[w] = "no"
  /\ ui' = [ui EXCEPT !.cancelled = TRUE, !.paused = FALSE]
  /\ wait' = [wait EXCEPT ![w] = what]
  /\ UNCHANGED <<present, nodes, filter, cursor, buf, fetched, flight, seen>>

Restart(w) ==
  /\ wait[w] = "restart" /\ ~ui.loading
  /\ wait' = [wait EXCEPT ![w] = "no"]
  /\ NewList(filter)
  /\ UNCHANGED <<present, nodes, filter>>

\* refresh: initReset, then a scan.
Refresh(w) ==
  /\ wait[w] \in {"no", "refresh"} /\ ~ui.loading
  /\ wait' = [wait EXCEPT ![w] = "no"]
  /\ filter' = AllKeys /\ NewList(AllKeys)
  /\ UNCHANGED <<present, nodes>>

\* The filter.  The name is read-only during a scan, the boxes are not.
SetFilter(f) ==
  /\ f # filter /\ (ui.loading => f.exact # filter.exact /\ f.keys = filter.keys)
  /\ filter' = f /\ seen' = [seen EXCEPT !.steady = FALSE]
  /\ UNCHANGED <<present, nodes, cursor, buf, ui, fetched, flight, wait>>

\* The type box asks for a new scan, which is dropped if one is running.
ChooseType(f) ==
  /\ f # filter /\ f.exact = filter.exact
  /\ filter' = f
  /\ IF ui.loading
     THEN /\ seen' = [seen EXCEPT !.asked = f, !.steady = FALSE]
          /\ UNCHANGED <<cursor, buf, ui, fetched, flight>>
     ELSE NewList(f)
  /\ UNCHANGED <<present, nodes, wait>>

-----------------------------------------------------------------------------
(* Keys come and go. *)

Settled == flight.st # "answered"

DeleteServerOnly(rows, k) == rows
DeleteRow(rows, k) == [rows EXCEPT ![k] = 0]

\* deleteKey, after the key was deleted on the server.
DeleteKey(k) ==
  /\ Settled /\ buf[k] > 0
  /\ present' = present \ {k}
  /\ buf' = DeleteRow(buf, k)
  /\ seen' = [seen EXCEPT !.stable = @ \ {k}, !.gone = @ \cup {k}]
  /\ UNCHANGED <<nodes, filter, cursor, ui, fetched, flight, wait>>

\* addKeyOk pushes a row without looking; the back end refuses existing keys.
AddKey(k) ==
  /\ Settled /\ k \notin present
  /\ present' = present \cup {k}
  /\ buf' = [buf EXCEPT ![k] = AddTwice(k)]
  /\ seen' = [seen EXCEPT !.gone = @ \ {k}, !.collided = @ \/ buf[k] > 0]
  /\ UNCHANGED <<nodes, filter, cursor, ui, fetched, flight, wait>>

\* renameKey: the rows of both names get the new one.
RenameKey(k, l) ==
  /\ Settled /\ k # l /\ k \in present /\ buf[k] > 0
  /\ present' = (present \ {k}) \cup {l}
  /\ buf' = [buf EXCEPT ![k] = 0, ![l] = IF buf[k] + buf[l] > 2 THEN 2 ELSE buf[k] + buf[l]]
  /\ seen' = [seen EXCEPT !.stable = @ \ {k}, !.gone = (@ \cup {k}) \ {l},
                          !.collided = @ \/ buf[l] > 0]
  /\ UNCHANGED <<nodes, filter, cursor, ui, fetched, flight, wait>>

\* Another client.
OtherAdds(k) ==
  /\ k \notin present
  /\ present' = present \cup {k} /\ seen' = [seen EXCEPT !.gone = @ \ {k}]
  /\ UNCHANGED <<nodes, filter, cursor, buf, ui, fetched, flight, wait>>

OtherDeletes(k) ==
  /\ k \in present
  /\ present' = present \ {k} /\ seen' = [seen EXCEPT !.stable = @ \ {k}]
  /\ UNCHANGED <<nodes, filter, cursor, buf, ui, fetched, flight, wait>>

\* Another window opens the connection: the client is replaced.
Replaced(l) ==
  /\ l # nodes /\ nodes' = l
  /\ seen' = [seen EXCEPT !.steady = FALSE]
  /\ UNCHANGED <<present, filter, cursor, buf, ui, fetched, flight, wait>>

-----------------------------------------------------------------------------
ScanStep == ScanCall \/ Landed \/ Failed
UserStep ==
  \/ Pause \/ Resume \/ LoadMore \/ Query
  \/ \E w \in Waiters : \/ StopAndWait(w, "restart") \/ StopAndWait(w, "refresh")
                        \/ Restart(w) \/ Refresh(w)
  \/ \E f \in Filters : SetFilter(f) \/ ChooseType(f)
KeyStep ==
  \/ \E k \in Keys : DeleteKey(k) \/ AddKey(k) \/ OtherAdds(k) \/ OtherDeletes(k)
  \/ \E k, l \in Keys : RenameKey(k, l)
  \/ \E l \in Lists : Replaced(l)

Next == ScanStep \/ UserStep \/ KeyStep

Spec == Init /\ [][Next]_vars

\* The main thread serves the call and the window its answer.
Fairness == WF_vars(ScanStep)
FairSpec == Spec /\ Fairness

-----------------------------------------------------------------------------
(* Properties. *)

\* When the list says it is complete (finished cursor, no scan running), every
\* key that matches the filter it was asked for and was there all the time has a
\* row, whatever was paused, restarted, retried, deleted and renamed meanwhile.
Complete == cursor.fin /\ ~ui.loading =>
              \A k \in seen.stable \cap seen.asked.keys : buf[k] > 0
CompleteWhenSteady == seen.steady => Complete

\* A key deleted or renamed in this window does not come back with a later batch.
DeletedStaysGone == \A k \in seen.gone : buf[k] = 0

\* Batches that overlap with each other or with new rows add no double row.
RowOnce == ~seen.collided => \A k \in Keys : buf[k] <= 1

\* Every scan comes to an end.
Running == ui.loading
ScanEnds == Running ~> ~Running
=============================================================================
