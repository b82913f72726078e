------------------------------ MODULE KeyCache ------------------------------
(***************************************************************************)
(* The memory of the keys in RedisME's list: key-memory-cache with the rows *)
(* that show it.                                                           *)
(*                                                                         *)
(* Visible rows queue for MEMORY USAGE and are asked about in batches; the *)
(* details of a key write a size of their own; deleting, renaming and      *)
(* clearing drop what is remembered.  A call that is under way while that  *)
(* happens comes back late, and calls come back in any order.              *)
(*                                                                         *)
(* One connection and one database.  A size is not a number here but who   *)
(* wrote it and when it was asked for; that a key has none is a size too.  *)
(***************************************************************************)
EXTENDS Integers, Sequences, FiniteSets

CONSTANTS
  Keys, Rows, None,
  Batch,     \* BATCH
  MaxGen     \* bound: clearings of the whole connection

VARIABLES
  size,      \* cache: who wrote each size, and the generation it was asked in
  gen,       \* keyMemoryGeneration
  wait,      \* queued (in the Map's order), pins and timer
  batch,     \* the flush that is under way
  detail,    \* the details' call for the key they show
  row,       \* see Row0
  can        \* capabilities.memoryUsageSupported

vars == <<size, gen, wait, batch, detail, row, can>>

NoSize == [by |-> "none", gen |-> 0]
NoBatch == [st |-> "no", keys |-> <<>>, gen |-> 0]
NoDetail == [st |-> "no", key |-> None, gen |-> 0]
\* key: what the row stands for; size: whether it shows sizes; pin: the key its
\* `cancel` is about; seen: what its watcher last saw; gone: taken off the list.
Row0 == [key |-> None, size |-> FALSE, pin |-> None, seen |-> <<None, 0>>, gone |-> FALSE]

TypeOK ==
  /\ size \in [Keys -> [by : {"none", "batch", "detail"}, gen : 0..MaxGen]]
  /\ gen \in 0..MaxGen
  /\ wait \in [queue : Seq(Keys), pins : [Keys -> 0..Cardinality(Rows)], timer : BOOLEAN]
  /\ \A i, j \in DOMAIN wait.queue : i # j => wait.queue[i] # wait.queue[j]
  /\ batch \in [st : {"no", "asked"}, keys : Seq(Keys), gen : 0..MaxGen]
  /\ Len(batch.keys) <= Batch
  /\ detail \in [st : {"no", "asked"}, key : Keys \cup {None}, gen : 0..MaxGen]
  /\ row \in [Rows -> [key : Keys \cup {None}, size : BOOLEAN, pin : Keys \cup {None},
                       seen : (Keys \cup {None}) \X (0..MaxGen), gone : BOOLEAN]]
  /\ can \in BOOLEAN

Init ==
  /\ size = [k \in Keys |-> NoSize] /\ gen = 0
  /\ wait = [queue |-> <<>>, pins |-> [k \in Keys |-> 0], timer |-> FALSE]
  /\ batch = NoBatch /\ detail = NoDetail /\ row = [r \in Rows |-> Row0]
  /\ can = TRUE

Cached(k) == size[k].by # "none"
Queued(q, k) == \E i \in DOMAIN q : q[i] = k
Without(q, ks) == SelectSeq(q, LAMBDA k : k \notin ks)

-----------------------------------------------------------------------------
(* Queueing for sizes. *)

Scheduled(w) == [w EXCEPT !.timer = @ \/ batch.st = "no"]

Enqueued(w, k) ==
  Scheduled([w EXCEPT !.pins[k] = @ + 1,
                      !.queue = IF Queued(@, k) THEN @ ELSE Append(@, k)])

\* What enqueueKeyMemory returns: the last row that leaves takes the key with it.
Cancelled(w, k) ==
  IF w.pins[k] > 1 THEN [w EXCEPT !.pins[k] = @ - 1]
  ELSE [w EXCEPT !.pins[k] = 0, !.queue = Without(@, {k})]

Stopped(r) == IF row[r].pin = None THEN wait ELSE Cancelled(wait, row[r].pin)

\* The watcher of a row that shows sizes: stop, then queue unless the size is there.
Watched(r, k) ==
  /\ row' = [row EXCEPT ![r] = [@ EXCEPT !.key = k, !.size = can, !.seen = <<k, gen>>,
                                         !.pin = IF can /\ ~Cached(k) THEN k ELSE None]]
  /\ wait' = IF can /\ ~Cached(k) THEN Enqueued(Stopped(r), k) ELSE Stopped(r)

\* A row scrolls into view, and queues.
Mount(r, k) ==
  /\ row[r].key = None
  /\ Watched(r, k)
  /\ UNCHANGED <<size, gen, batch, detail, can>>

Unmount(r) ==
  /\ row[r].key # None
  /\ wait' = Stopped(r) /\ row' = [row EXCEPT ![r] = Row0]
  /\ UNCHANGED <<size, gen, batch, detail, can>>

Changed(r) == row[r].seen # <<row[r].key, gen>>
\* The key or the generation has changed.
Watch(r) ==
  /\ row[r].key # None /\ row[r].size /\ can /\ ~row[r].gone /\ Changed(r)
  /\ Watched(r, row[r].key)
  /\ UNCHANGED <<size, gen, batch, detail, can>>

\* Sizes are no longer shown once the server has refused the command.
HideSize(r) ==
  /\ row[r].size /\ ~can
  /\ wait' = Stopped(r) /\ row' = [row EXCEPT ![r].size = FALSE, ![r].pin = None]
  /\ UNCHANGED <<size, gen, batch, detail, can>>

-----------------------------------------------------------------------------
(* flush *)

Taken(q) == SubSeq(q, 1, IF Len(q) > Batch THEN Batch ELSE Len(q))
\* Rows that have left since are passed over up to the last one taken.
Wanted == SelectSeq(wait.queue, LAMBDA k : wait.pins[k] > 0)
Passed == {k \in Keys : Queued(wait.queue, k) /\ wait.pins[k] = 0}

Flush ==
  /\ wait.timer
  /\ wait' = [wait EXCEPT !.timer = FALSE,
                          !.queue = Without(@, Passed \cup {Taken(Wanted)[i] : i \in DOMAIN Taken(Wanted)})]
  /\ batch' = IF Wanted = <<>> THEN NoBatch
              ELSE [st |-> "asked", keys |-> Taken(Wanted), gen |-> gen]
  /\ UNCHANGED <<size, gen, detail, row, can>>

NotScheduled(w) == w
\* finally: what has been queued meanwhile gets its turn.
NextTurn(w) == IF w.queue # <<>> THEN [w EXCEPT !.timer = TRUE] ELSE w

FlushEnds ==
  /\ batch' = NoBatch /\ wait' = NextTurn(wait)
  /\ UNCHANGED <<gen, detail, row>>

SameGenAlways(g) == TRUE
SameGen(g) == g = gen
OpenToAll(k) == TRUE
OpenTo(k) == ~Cached(k)

\* Sizes, or null for each key when the call failed for once.
FlushAnswered ==
  /\ batch.st = "asked"
  /\ size' = [k \in Keys |->
       IF SameGen(batch.gen) /\ Queued(batch.keys, k) /\ OpenTo(k)
       THEN [by |-> "batch", gen |-> batch.gen] ELSE size[k]]
  /\ UNCHANGED can
  /\ FlushEnds

\* The command is unknown or not allowed.
FlushRefused ==
  /\ batch.st = "asked"
  /\ can' = IF SameGen(batch.gen) THEN FALSE ELSE can
  /\ UNCHANGED size
  /\ FlushEnds

-----------------------------------------------------------------------------
(* The details' size. *)

DetailAsk(k) ==
  /\ detail.st = "no"
  /\ detail' = [st |-> "asked", key |-> k, gen |-> gen]
  /\ UNCHANGED <<size, gen, wait, batch, row, can>>

\* captureKeyMemoryWrite, unless the key has no size.
DetailAnswered ==
  /\ detail.st = "asked"
  /\ size' = IF SameGen(detail.gen) THEN [size EXCEPT ![detail.key] = [by |-> "detail", gen |-> detail.gen]]
             ELSE size
  /\ detail' = NoDetail
  /\ UNCHANGED <<gen, wait, batch, row, can>>

DetailFails ==
  /\ detail.st = "asked" /\ detail' = NoDetail
  /\ UNCHANGED <<size, gen, wait, batch, row, can>>

-----------------------------------------------------------------------------
(* What drops them. *)

\* Vue runs its watchers before the window hears of another edit.
Settled == \A r \in Rows :
  row[r].key # None => ~row[r].gone /\ (row[r].size => can /\ ~Changed(r))

\* dropWhere
Dropped(ks) ==
  /\ size' = [k \in Keys |-> IF k \in ks THEN NoSize ELSE size[k]]
  /\ wait' = [wait EXCEPT !.queue = Without(@, ks)]

\* The list is scanned anew, the database is flushed, or many keys are deleted.
Clear ==
  /\ Settled
  /\ gen < MaxGen /\ gen' = gen + 1
  /\ Dropped(Keys)
  /\ UNCHANGED <<batch, detail, row, can>>

\* meDeleteKey: the row is taken off the list.
Deleted(k) ==
  /\ Settled
  /\ Dropped({k})
  /\ row' = [r \in Rows |-> IF row[r].key = k THEN [row[r] EXCEPT !.gone = TRUE] ELSE row[r]]
  /\ UNCHANGED <<gen, batch, detail, can>>

\* KeyRename: the old name is dropped, and its rows go by the new one.
Renamed(k, n) ==
  /\ Settled
  /\ Dropped({k})
  /\ row' = [r \in Rows |-> IF row[r].key = k THEN [row[r] EXCEPT !.key = n] ELSE row[r]]
  /\ UNCHANGED <<gen, batch, detail, can>>

-----------------------------------------------------------------------------
Next ==
  \/ \E r \in Rows : (\E k \in Keys : Mount(r, k)) \/ Unmount(r) \/ Watch(r) \/ HideSize(r)
  \/ Flush \/ FlushAnswered \/ FlushRefused
  \/ DetailAnswered \/ DetailFails \/ Clear
  \/ \E k \in Keys : DetailAsk(k) \/ Deleted(k) \/ \E n \in Keys \ {k} : Renamed(k, n)

Leave(r) == row[r].gone /\ Unmount(r)
FlushBack == FlushAnswered \/ FlushRefused

\* Vue runs its watchers, timers fire and calls come back.
Fairness ==
  /\ \A r \in Rows : /\ WF_vars(Watch(r)) /\ WF_vars(HideSize(r))
                     /\ WF_vars(Leave(r))
  /\ WF_vars(Flush) /\ WF_vars(FlushBack)

Spec == Init /\ [][Next]_vars /\ Fairness

-----------------------------------------------------------------------------
(* Properties. *)

\* A size asked for before the connection's cache was cleared is never shown after it,
\* whether a batch or the details bring it.
FreshSize == \A k \in Keys : Cached(k) => size[k].gen = gen

\* What the details wrote is not covered by a batch, which may have been asked for
\* earlier: it changes only by being dropped, or by the details again.
Written(k, by) == size[k].by = by
DetailWins == [][\A k \in Keys : Written(k, "detail") => ~Written(k, "batch")']_vars

\* Every row that queues is counted, and nothing else is: the queue holds no key that
\* no row waits for once a flush has looked at it, and a cancelled row takes along
\* only what nobody else wants.
PinsCount == \A k \in Keys : wait.pins[k] = Cardinality({r \in Rows : row[r].pin = k})

\* A row that stays in view gets its size, however batches, clearings and other rows
\* come in between.
Unanswered(r, k) == row[r].key = k /\ row[r].size /\ ~Cached(k)
RowAnswered == \A r \in Rows, k \in Keys : Unanswered(r, k) ~> ~Unanswered(r, k)
=============================================================================
