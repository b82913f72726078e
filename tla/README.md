# RedisME in TLA+

RedisME is a desktop Redis client.  A Vue front end runs in one or several windows; a Rust
back end (Tauri, `src/src-tauri/src`) holds the Redis connections, shared by all windows.  The
modules here model the parts of the two whose correctness depends on order: what happens when
replies are late or lost, when two callers meet, when a server goes away, when a flag is set
while a thread is still looking at its old value.

## The system

**Who runs.**  Tauri commands are synchronous functions (`support/macros.rs`), so the main thread
executes them one at a time; the concurrency inside the back end comes from the threads it
spawns (subscribe, monitor, notify, export, import, dropping a client).  In each window the
JavaScript event loop interleaves at every `await`: another handler may run between sending a
call and using its reply.  The Redis server and the network act on their own.

| component | state it keeps | operations | how it interacts |
|---|---|---|---|
| single connection (`client/me_single.rs`, `me_client.rs`) | the `LoggingConnection` behind a mutex, `MeBase.db`, `last_check_time` | `get_conn` (keep, probe, reconnect), `select_db`, every data command | called by windows; talks to the server; reconnect reads `MeBase.db` |
| calls of a window (`utils/util.ts`) | outstanding promises, `spectaEofRetryCount` | `invokeSpectaCommand` with its EOF retry | each is one command of the back end |
| client table (`client/state.rs`) | `connections`, `clients`, `app_settings` | `conn_list`, `connect`, `get_client`, `disconnect` | shared by windows; `AppMain.vue` calls it when the shown connection changes |
| listeners (`client/ops/pubsub.rs`, `notify.rs`; tabs Pubsub, Monitor, Notify) | one running flag per kind and client, the threads' own connections; the tabs' `subscribing` and listener | start, stop, thread loop, tab mount and unmount | stop sends a wake-up message over the server; threads emit events to windows |
| export and import (`client/ops/exp.rs`, `imp.rs`; `KeyMain.vue`) | the flag `export_import_running`, counters, file position; the window's progress display and listener | start, per-key work, progress and finished events | dropping the client clears the flag |
| command log (`support/command_log.rs`, `CommandLog.vue`) | ring of 1000 entries, next id; the panel's list and `seenMaxId` | push (number, emit, store), query, clear; panel open, listen, switch, clear | events reach the panel next to its snapshot |
| key scan (`KeyMain.vue`, `me_single.rs` and `me_cluster.rs` scan) | `cursor`, `scanBuffer`, `loading`, `scanCancelled`; the cluster cursor with ready nodes | start, pause, continue, restart, delete and rename during a scan | one `scan` call after the other, with awaits between |
| modes of the key list (`KeyMain.vue`) | the key type or index that is chosen, names of indexes, hits, offset | change between scan and query, browse, pick an index, refresh names | share `loading` and the list with the scan |
| key caches (`utils/key-type-cache.ts`, `key-memory-cache.ts`, `KeyTypeTag.vue`) | cache, pending and queued maps, generation, pins | fetch, batch flush, invalidate, clear | `key_type` and `memory_usage` calls; every write path invalidates |
| memory scan (`utils/memory-scan.ts`, `KeyMemory.vue`, `RedisMemory.vue`) | cursor, status, hits, folder | start, pause, resume, stop, open, close | one loop of calls, which a stop waits for |
| value page (`RedisValue/index.vue`, `helpers.ts`) | value, cursor, search word, `loading`, flags for pausing and breaking off | choose, refresh, search, more, all, pause, delete a row or the key | `field_scan` calls, one chain at a time |
| field panel (`RedisValue/FieldSet.vue`, `index.vue`) | row and index that are edited, bytes, view, text, generation of the decoding | open, choose a view, type, refresh, save, close | `field_get`, `field_set`; codecs are programs of the user's own |
| paging of values (`client/ops/field_scan.rs`) | none; the cursor comes with the call | first page, next page, by type, range and direction | called by the value page |
| full-text search page (`RedisSearch.vue`) | list, selection, dialogs, hits | query, tags, synonyms, create, alter, drop, samples | `search` calls, several at a time |
| connection switching (`AppMain.vue`, `KeyHeader.vue`) | chosen connection, whether it is connected, its abilities | choose, close, reload | `connect` and `disconnect`, overlapping |
| connection list (`AppMain.vue`, `plugins/tauri.ts`) | the list in each window, in the back end and in the store | edit, open and close windows | windows send each other the list |
| SSH dialer (`net/ssh.rs`) | one session and two locks | dial, look whether it is closed, reconnect | connections of a cluster dial at a time |
| cluster connection (`client/me_cluster.rs`) | cluster client and connection, nodes | scan over nodes; rename and copy over two slots | redis-rs routes the commands |
| single commands on keys (`client/ops/key.rs`, `field.rs`) | none | TTL, DEL, SET, batches | window caches |
| favourites, search history (`utils/favorite.ts`, `favorite-folder.ts`) | local storage lists | add, remove, rename, move | key list |
| terminal, charts, server information, ACL | what they show | raw commands, polling | one call at a time |
| formats, codecs, TTY parsing, DDL, installers (`support/format.rs`, `convert.rs`, `tty.rs`, `utils/format.ts`, ...) | none | conversions | views |

**What is hard here.**  Two copies of one fact that are updated at different moments (the database
number, the running flags and the tabs' `subscribing`, caches and the server, lists of connections);
steps that fail after an earlier step has been recorded; retries of commands that may have run;
events that arrive before the listener does; flags that a new thread sets again before the old
thread has seen them cleared; several windows on one client; and, in the front end above all, a
handler that goes on after an `await` with what others have chosen meanwhile.

## The modules

| module | models | proofs in |
|---|---|---|
| `MeSingle` | one stand-alone connection, the calls of a window, the database number | `MeSingleProofs` |
| `Session` | what `MeSingle` promises: one session that lasts, with every command run once | `MeSingleProofs` (the refinement) |
| `Listener` (`MCListener`) | pubsub, notify and monitor threads with their flags, and their tabs | `ListenerProofs` |
| `KeyScan` (`MCKeyScan`) | the key list: scan chain, cursor, user and other clients | `KeyScanProofs` |
| `Jobs` (`MCJobs`) | export and import threads, the client table, several windows | `JobsProofs` |
| `JobLock` | what `Jobs` promises: one job per client, cut off only by a drop | `JobsProofs` (the refinement) |
| `ValueView` | the value page: one chain of pages and what interrupts it | `ValueViewProofs` |
| `KeyTypes` | the cache of key types and the tags that show them | `PanelsProofs` |
| `KeyCache` | the cache of key sizes: queue, pins, batches, rows | `PanelsProofs` |
| `MemoryScan` | the loop of the memory analysis, its dialog and its page | `PanelsProofs` |
| `KeyModes` | the key list between scanning and the query of an index | `PanelsProofs` |
| `SearchPage` | the full-text search page with its dialogs | `AppProofs` |
| `ConnSwitch` | the watcher that connects and disconnects | `PanelsProofs` |
| `ConnSync` | one list of connections in several windows | `AppProofs` |
| `CommandLog` | the ring of log entries, its events and the panel | `ReadingProofs` |
| `SshDialer` | the session that dials share, with two locks | `PanelsProofs` |
| `KeyMove` | rename and copy over two slots, step by step | `PanelsProofs` |
| `Pages` | how a value is read by pages | `ReadingProofs` |
| `FieldEditor` | the panel that edits a row, with codecs to wait for | `AppProofs` |
| `Panels` (`MCPanels`) | the last twelve, and `KeyScan` once more, one at a time | `PanelsProofs`, `AppProofs`, `ReadingProofs` |

A module is a state machine of its own with the neighbours it needs folded in: `MeSingle` has the
window's retry, `Listener` the tab, `KeyScan` the back end's cursor, `Jobs` the windows and the
client table.  What they have in common is the way the program runs: a command is one step of the
main thread, a window takes a step per handler or continuation, a thread takes a step per access
to shared state.  Names of actions follow the functions; `PROJECT.json` maps each definition to
its lines.

`Panels` is a sum, not a product.  The parts of the front end that share nothing are checked in
one run: `part`, chosen by `Init`, says which of them a behaviour is about, the variables `s1` to
`s11` are that part's own in the order in which it declares them, and what it does without is
`None`.  Each part is an `INSTANCE`, and each property of `Panels` is `part = ... =>` that of the
part, so a part can be read, and checked, alone.

### MeSingle

The main thread's program counter `pc` goes through `get_checked_conn` (`lock`, `probe`, `again`,
`dial`) to `run`.  `conn` is the `LoggingConnection` with the server's end: what the client
believes (`open`), what the network does (`peer`), the session's database (`db`), the log label
(`label`), and whether the probe's short timeout is still set (`short`).  `baseDb` is `MeBase.db`,
`uiDb` is `share.conn.db`.  A call is `queued`, `running`, `replied`; its reply may be an error of
the EOF kind, which the window retries with the shared `eofCount`.  A database is picked in the
list (shown at once) or typed in the terminal (shown after success).  `PeerLost` and `Tick` are
the environment: a session closes or goes silent at any time, and idle time passes up to
`StaleSeconds`.  Data commands are one abstract command: all share `execute_command` and `get_conn`.

`Session` is what this is for: calls are asked, executed and answered on one database, without a
thread, a lock, a probe, a retry count or sessions that end.  A command is executed a second time
only after a lost answer, "ok" is said of a command only when it was executed, and a database
whose last selection succeeded (`sure`) is left for another one only by a SELECT.  `KeepsPromise`
states that `MeSingle` refines it: `ask` is the call as the window sees it, queued and running
being the same, `ran` the calls with an execution, `db` the server's, `sure` is `settled`.  What
`Session` does not promise is what the code does not do: a SELECT answered from memory is right
only while `sure`.

| run | question | bounds |
|---|---|---|
| `single_one` | on which database, how often and whether at all a call runs, and whether that is `Session` | one call, three databases, one of them refused by the server; 1 and 2 seconds for keep and stale, 3 retries |
| `single_shown` | finding: a SELECT whose reply is lost | ends at the counterexample |

Two databases suffice to disagree; the third is there to be refused.  The two time limits matter
by their order only.  Three retries is the code's constant and `EveryCallReturns` needs it to be
exhausted.  Calls that interleave are covered by proof: `DatabaseAgrees`, `RetryNeverRepeats`
and `PromiseIsKept` hold for any number of them.

### Listener

`running[k]` is the flag of a kind, `thr` the thread slots.  A thread sends its subscription
(`new`), reads the flag (`check`) and blocks (`recv`) until a message is in its `inbox`; the
server confirms subscriptions on its own time (`Confirm`), and messages published before are
lost.  A stop clears the flag and then publishes; `Woken` says whom the message reaches.  The
tab has its `phase` (which call it waits for), `subscribing`, the listener it holds and the number
of those attached.  Starting on several nodes may fail after the first (`StartFail`); stops may
fail before or after the flag; `Unmount` and `Remount` rebuild the tab over running threads.

| run | question | bounds |
|---|---|---|
| `listen_tabs` | does the tab show what the back end does | pubsub on `*` beside MONITOR, two threads in symmetry, no unread messages beyond confirmation and stop |
| `listen_cluster` | does a stop end all loops, and soon | notifications of two masters, three threads, one unread message |

Pubsub on `*` beside MONITOR is the pair that wakes each other up; notifications are the kind with
several threads on one flag.  A third thread is one more than the nodes, which a revived thread
needs.  That a start over a thread which has not seen the stop doubles every row is in the hazard
list; nothing in the code's words contradicts it.

### KeyScan

The window's side: `filter` (match, type, exact), `cursor`, `buf` (rows per key), `ui` (loading,
cancelled, paused, loadAll), `fetched` (rows of the page), `wait` (handlers in
`stopScanIfRunning`).  The call under way is `flight`: asked, then answered by `ScanCall`, which is
`MeCluster::scan` on the next master that is not ready (`Pending`, `Advance`, `Finish`), or
`Failed`.  A server meets its keys in `Buckets` steps, each key in the step `BucketOf` gives; a key
present all the time is therefore returned, as SCAN guarantees.  `seen` is history: which filter
was asked for, which keys were there all the time, which were deleted here.

| run | question | bounds |
|---|---|---|
| `scan_list` | is a list that says it is complete complete, without ghosts and doubles | two masters in either order, two keys, three filters, pages of one key, one waiting handler |
| `scan_shrink` | finding: fewer masters than the cursor lists | ends at the counterexample |

Two buckets per master make a cursor position other than zero; two masters make a ready master
other than the last; pages of one key make every batch boundary a page boundary as well.  That a
scan ends is asked in `panels_live`, with one key and one waiting handler.

### Jobs and JobLock

`table`, `running` and `dropping` are the clients: the one in the table (the latest made), each
one's `export_import_running`, and those that `disconnect` has handed to a thread to drop.  A job
`thr[t]` works through its lines while its client's flag is up, then tells every window that
listens (`Told`), then clears the flag.  A window's state is a record: `view` and `conn` for
opening, refreshing and closing, `batch` for the dialog's command, `shown` for the progress display
and `ask`, `lst` for listeners, which survive the list they belong to when it goes while they are
being registered, or when a second registration overwrites `unlisten`.

`JobLock` is what this is for: a job takes a client that has none, goes through all its lines,
and passes over what is left only when the client was dropped.  `Implements` states that `Jobs`
refines it; a job is one that lives, and a client is dropped once it was made, is not in the table
and not on its way to be dropped.

| run | question | bounds |
|---|---|---|
| `jobs_windows` | do jobs, flags, clients and displays stay together, and is the flag a lock | two windows of which one exports, two job threads, two clients made, two lines per job, one finish event under way |

Two clients are a client and its replacement; two threads are a job and the one that must not
start.  The second window refreshes, closes and fails to open, which drops the first one's client.
`HonestDisplay` excludes, in `calm`, what the code does not handle: a list that is mounted anew, a
file that fails, a job over before its listener is registered.  In those cases the display stays
on; the hazard list names the lines.

### ValueView

One chain of `fieldScan` calls loads the chosen key's value; `load` says which, `call` is its
page under way.  What must not be lost waits for the chain's end (`waits`), what may be is dropped.
The page's parameters are read anew for each page (`Asked`), and its rows merge into whatever value
is shown by then (`Value`, `Fresh`).  `del` is a row or key that is being deleted.  `calm` is
history: no call failed, nobody else wrote, and the search word stayed while pages were to come.

| run | question | bounds |
|---|---|---|
| `value_view` | is the last choice shown, whole, and without doubles | a list and a hash of two fields, one to a page, four acts of the user and one of another client |
| `value_rescan` | finding: the page that begins the list anew is dropped | ends at the counterexample |

Four acts are a choice, a second one or a search during it, a deletion and a restart.

### The parts of Panels

`panels_safe` checks all of them but the scan for safety, `panels_live` the five with fairness for
liveness; `editor_late` is a finding.  Each property's comment says what it leaves aside.
`panels_safe` takes the indexes, fields and queries of the search page as alike: nothing in
`SearchPage` tells one from another, and the run has no liveness.

| part | state and steps | properties | bounds in the runs |
|---|---|---|---|
| `types` | `life` counts how often a key was made anew, `type` is the cache, `call` the shared call, `tag` the tags; `edit` is a delete, rename or flush | `TypeFollows` | two keys, two tags, each key made anew once |
| `sizes` | queue, pins, timer, one batch and the details' call; rows with their watcher | `FreshSize`, `DetailWins`, `RowAnswered` | two keys, two rows, one flush, batches of one |
| `memory` | the loop with `flag`, `cursor`, `list`; dialog, page and handlers that wait | `OwnHits` | two folders, two pages, three handlers (one in `panels_live`) |
| `modes` | tasks that wait for a page, for `loading` or for names; `ui` and `list` | `OneAtATime`, `OwnRows` | two indexes, two pages, two handlers that wait beside a page under way |
| `search` | list, selection, four dialogs, query page and calls in any order | `SearchShowsItsOwn` | two indexes, fields and queries, two calls |
| `switch` | runs of the watcher, each at one of its awaits; the client table | `ShowsConnected` | two connections, three runs |
| `sync` | each window's list, the back end's, the store's, messages under way | `Agree`, `ComesToRest` | two windows, two edits, two messages (one in `panels_live`) |
| `log` | ring, three-step pushes, events, panel | `PanelFollows` | two writers, two clients, three entries of one and four in all, a limit of two, one event |
| `ssh` | each dial's step, both locks, the slot, living sessions | `OneSession`, `DialEnds` | three dials and four sessions (two and three in `panels_live`) |
| `move` | the call's step and what it has read; keys with milliseconds left | `ValueKept`, `CopyAdds` | three names, two values, one of which lasts |
| `pages` | type, direction and range, elements by place, cursor, what was shown | `PagesComplete`, `ReadsEnd` | seven kinds, five places (three), four limits, pages of two |
| `editor` | RedisValue's and FieldSet's copy of the edited row, codecs that run, calls | `EditsItsOwn`, and `EditorShows` in `editor_late` | two rows, one of which needs a codec, four acts, two codecs, two calls |
| `scan` | `KeyScan`, in `panels_live` only | `ReadsEnd` | two masters, one key |

Two of everything is what a disagreement takes: two names, two rows, two calls that cross.  More
is used where a third matters: a third dial finds the gate taken twice, a third run of the watcher
comes while two wait, a third entry exceeds the log's limit, a third name lets a copy meet a
rename's target.  Pages of two on five places make a full page, a further full page and a rest;
the limits are none, two from the end, the second place and one past the last.  The settings ask for
ten to a page at least (`AppSetting.vue:145`); with one, a series read backwards would be read at
time 0 for ever.  Alone,
`FieldEditor` was run with five acts (1.4 million states) without an error.

`KeyModes`: a handler that has to stop what runs is a task with what it does next (`then`). Once
nothing is loading it goes on as the code does: a restart of a query (`QueryIndex`) looks at the
index and not at the mode, which `runSearchKeys` tests only before it waits, and a restart of a scan
reads the type as it is by then. While a page is under way two handlers may wait for its end; the
first to go on loads, and the second waits again. `OwnRows` is about lists that no choice has
crossed; `OneAtATime` holds for all. What a choice that crosses can do is in the model too: F5 waits
for a query's page; the page ends; a key type is chosen and scanned; F5's handler then clears that
list and shows hits of the index under the key type.

`CommandLog`: a writer is a thread that runs commands, the main thread or a job with the logger of
the client it began with.  `PanelFollows` has an unconditional part, no two entries of one number in
a panel that has loaded, and a conditional one: `calm` notes that no two pushes overlapped, that
nothing was emitted between the snapshot and the listener or between a clearing and its answer, and
that the client stayed.  The code loses or reorders entries in each of these cases, and the hazard
list names the lines.

`FieldEditor`: a value carries the row that it is of, a text the view it was made with, so that a
text that lands in another row's panel, or is written back through another view, is seen.  A chosen
codec writes what it has even if the panel has moved on (`Decoded`), while a probe of `auto` does
not (`Probed`): that is the code's `gen !== fieldProbeGen`, which one branch has and the other has
not.  `EditsItsOwn` holds as long as no row is opened or refreshed while a chosen codec or a call is
under way; `EditorShows` without that is the finding.

## Fairness

Fairness is stated for what the code schedules itself; users, other clients, the network and the
clock owe nothing.

* `EveryCallReturns` (`MeSingle`): WF of the main thread's step and of the window's handling of
  each reply.
* `StopEndsLoops` (`Listener`): WF of each thread, and of the server's handing of messages to
  subscribers; a blocked read has no timeout, so nothing weaker will do.  The stop's message must
  have gone out (`woken`): otherwise threads sleep on, as a hazard records.
* `ChoiceLoads` (`ValueView`): WF of the chain (the back end answers or fails, the window takes
  the answer, timers that poll fire) and of the deletion under way.
* `RowAnswered`: WF of the rows' watcher, of the timer's `Flush` and of its answer.
* `ComesToRest`: WF of the back end's and the windows' steps; edits are bounded.
* `DialEnds`: SF of each dial's steps, as other dials take the locks in between; parking_lot hands
  a lock over to the waiter in turn now and then, and authentication and opening have timeouts.
* `ReadsEnd`, `ScanEnds`: WF of the call under way and of its continuation.  The list of masters
  must not shrink (`scan_shrink` shows what happens then).

All other properties are safety.  Deadlock is checked in `single_one`, both `listen` runs and
`scan_list`; the others bound what users and clients do, and stop when that is used up.

## Proofs

Checked by TLAPS for all values of the constants, from the assumptions the modules state.

**MeSingle.**  `TypeCorrect` is inductive by itself.  `DatabaseAgrees` needs `DbInv`: the call at
work is the one in `cur`, while a SELECT runs `MeBase.db` is already its number, and otherwise
numbers agree if the latest attempt succeeded.  `RetryNeverRepeats` needs `OnceInv`: a command that
ran is not queued again unless its reply was lost.  `PromiseIsKept` is the refinement of `Session`,
one lemma per kind of step: taking a call, probing and giving up a session show nothing, a
reconnect finds by `DbInv` the database where it was or takes it where the SELECT in progress asks,
the answer from memory is right by `DbInv`, and by `OnceInv` a command runs the first time or after
a lost answer.  `RetryNeverRepeats` is proved only, as what the run checks is the refinement, which
includes it.  `RetriesAreBounded` and
`RunsOnTheShownDatabase` have the hypothesis `OneCall`, one call of a window at a time: with
several, the success of one resets the counter of another, and a call that was sent before a
selection runs after it.  The first counts tries against `eofCount`; the second follows the
number through window, back end and session.  Assumptions: 0 is a database and can be selected;
the configured one is a database; the check limit is below the stale limit.

**Listener.**  One invariant: `Types`; `Tabs`, which says in `Sound` what `TabAgrees` says for the
states between a click and the end of its handler (a start has its listener and no flag, a stop
its flag), and in `Counted` how many listeners there are; and `LastMessage`, by which a thread
whose flag is down has at most one message still to take.

**KeyScan.**  `TypeCorrect` shows on the way that a call is under way exactly while the list loads.
`CompleteLists` is the main result.  Its invariant says that the keys noted as lasting are present
and that the cursor *covers* them (`Cover`): a lasting, matching key has a row when its master is
ready, when its master is next and the position has passed the key's step of SCAN, and in any case
when the cursor is finished; for the cursor on its way back, a row or a place in the answer.  The
step from "as many ready masters as the list has" to "all of them" is a cardinality argument on
finite sequences (`AllReady`, `OnePending`).  `DeletedKeysStayGone` needs `GoneForGood`: a key
deleted here is on no server unless made again, and not in an answer under way; `OneRowPerKey` is
inductive.  Assumptions: the key set is finite, every list of masters serves all keys, SCAN meets
each key in one of its steps.

**Jobs.**  One invariant gives all its theorems: a living job has a client that was made, and
while that client is in the table its flag is up (`Holders`); a client on its way to be dropped
is not in the table (`Gone`); and, for the types, a list that is not mounted has no dialog waiting
(`Dialogs`).  With them a job starts only on a flag without a living job, also when its client
is replaced between two submissions.  `FlagsAreALock` is the refinement: each step of `Jobs` maps
to a step of `JobLock` or to none, one lemma per kind of step, from the same invariant.
`DisplayIsHonest` needs `DisplayInv`: unless set apart, a dialog that has its answer has a working
job, and when the job of a display is over, the mounted list's listener is there and the event is
on its way, so that the display ends with it.
Assumptions: bounds are natural numbers.

**ValueView.**  `ValueShowsChosen` and `ValueIsComplete`, from one invariant each.  A lemma
(`Steps`) first sorts the steps into a dozen kinds: a list is begun, or a restart waits; a page is
answered, taken up or fails; the chain ends; a row or a key is deleted; others change the server.
For the first theorem, unless a restart waits, a page under way and the rows that the next page
leaves standing are of the chosen key (`Current`), and no position has two rows (`Once`), also when
a deletion has moved those behind it.  The second is about values that nobody disturbed
(`Steady`).  A page under way has what the key has at its position, and says how far it went
(`PageFits`, `PageEnds`); the rows shown are right, and all that match among those the cursor has
passed, in a list those up to its position, in a set those that SCAN has met (`RowsFit`).  While a
deletion is served and not yet taken up, `RowsFit` speaks of the rows as they will be without that
row (`Left`), and of nothing if the key itself is gone (`Leaving`); that no page under way is
mistaken about positions needs that a row is deleted only while nothing loads (`RowGoing`).  A
page may begin anew in the middle of a chain, when the type of the key is first known with the
page before; it asks again for the first position, which that page has shown under any word
(`WordsFit`).  Filtering is defined by ranks (`Kept`), as the provers do not expand the library's
`SelectSeq`.  Assumptions: lists are among the keys, bounds are natural numbers.

**Panels.**  `PanelsProofs`, `AppProofs` and `ReadingProofs` prove what `Panels` says of its parts,
the first for what is about keys, connections and dials, the second for the application's windows
and the row editor, the third for what is read in order: the command log and a value's pages.
Each part has an invariant over the variables that `Panels` gives it (`s1`, `s2` and so on); its
lemmas are about the steps in which `part` is that part, and all other steps leave the claim true.

* `TypesFollowKeys`: an answered TYPE is of the key as it is, unless an edit was served meanwhile,
  in which case the key is set aside for good (`CallFollows`); the key that a served rename has
  overwritten is set aside (`Overwritten`).
* `FoldersHaveTheirHits`: the list is what was read of the folder, and the call under way asks
  for what comes next (`ReadSoFar`); a paused scan has something left (`PausedIsUnfinished`).
* `OneRunsAtATime`: there is one task that waits for a page while `loading` is set and none
  otherwise (`OnePage`), since whoever waits for the end looks at the flag again when it goes on,
  in whatever mode it finds the list.
* `OneSshSession`: the gate is held by the one dial that looks again, authenticates or puts
  (`GateHeld`); only a dial that is about to put has a handle (`InHand`); and the slot is closed
  for as long as somebody authenticates (`SlotClosed`), as a closed session never opens again.
* `MovesKeepValues`: what a renaming call has dumped is still what the old name has, or nothing,
  and after RESTORE it is under the new name or was lost as somebody meant it (`MoveRead`), so DEL
  takes no last name; the time to live belongs to the value that was read (`MoveTtl`).
  `CopiesAdd` needs that a copy never gets to DEL.
* `SizesAreFresh`: only answers of this generation are kept, and the pins of a key count the rows
  that hold its `cancel` (`PinsCounted`), by the cardinality of finite sets.  `DetailsWin` follows
  from what `flush` writes over.

* `RowsAreOwn`: the list at rest is what a chain of pages for the chosen mode and index has read
  so far, the page under way asks for what the list lacks, and whoever still has an older page in
  hand finds that it is not wanted (`RowsOwn`).  It builds on `OneRuns`, the invariant of
  `OneRunsAtATime`.
* `ChosenIsShown`: while anything is under way, some call belongs to the latest choice, and nobody
  disconnects behind it (`Latest`); at rest its connection is shown and open (`Chosen`).  That
  nothing else is open needs `ClosesLast`: each other connection that is open, or has a call to
  open it, has a call to close it that comes later.
* `SearchIsItsOwn`: an answer that somebody still waits for is about the index, field and query the
  page shows by then (`TagsWaited`, `SynWaited`, `HitsWaited`), and of the lists of indexes only
  the one asked for last is under way (`ListsWaited`).
* `WindowsAgree`: the stored list is the last one sent, and to every window that listens it is
  shown, in its inbox or on its way (`StoreIsLast`, `OnItsWay`); while a window opens there is one
  list everywhere (`OneWhileOpening`), and after edits made at rest all that is under way is the
  last edit (`LastEditOnly`).
* `EditsAreOwn`: as long as the user was calm, each codec, each call and the text typed carries a
  value of the row that the panel is for, until the panel closes (`EditorOwn`).
* `PanelShowsLog`: the rows shown, with the events in front of them that they still lack, are the
  ring's entries, with the entry in front that is emitted and not yet stored, both as far as the
  panel shows them (`ListIsLog`); a snapshot under way is the log, and has all that is still under
  way (`SnapIsLog`).  Numbers are given once and grow along the ring (`Numbers`).
* `PagesHaveAll`: what is read by place has shown what the cursor has passed, in order
  (`PlacesRead`); a list is numbered from the end that it is read from (`ListRead`); of a sorted
  set the first elements of its order are shown (`ScoresRead`); a sample is one page
  (`SampleRead`).  `Pages` defines the order of a set by rank, the number of elements up to each,
  since the provers cannot expand the library's `SortSeq`.

Assumptions: `PanelsAssumption`: bounds are numbers, `None` is nothing else and no number, nobody
who asks is called "scan" or "reload", and the rows of the list are finitely many.

**Model-checked only.**  Liveness, which is out of the prover's reach, and the deadlock freedom of
the four runs; and `Panels!TypeOK`, since it is about all parts at once: their invariants, which
are in three modules, have the types of most of them.  Induction over data is out of reach too,
except where it can be put as a least element of a set of numbers:
`HasHighest`, from the library's well-founded relations, gives the highest number seen in a list.

## Findings

| run | what the code does |
|---|---|
| `single_shown` | `select_db` stores the number first; after a lost reply the window and the session disagree |
| `scan_shrink` | a cursor from a larger cluster never finishes on a smaller one |
| `value_rescan` | a search word changed while further pages load begins the value anew and drops the first page of it |
| `editor_late` | a chosen codec that comes back late writes into the panel of another row or view, and saving stores it there |

What the code also does, and the properties set aside by name (each is a hazard's note): a start
that revives a thread doubles rows; a failed start or stop leaves the tab and the back end apart; a
type chosen during a scan is taken as a filter of the rest; search that is left before its handler
goes on clears the new scan, and a restart of a query puts its hits under a key type that was
chosen while it waited; a key's last millisecond becomes no limit, and a write to the old name
after DUMP is deleted; a descending list with an upper bound past its end shows nothing or doubles;
a sample at time 0 repeats; a TYPE under way when its key is deleted is remembered; windows that
open lose edits, and lists of two windows that cross can go to and fro; a `field_get` that comes
back after another row was opened becomes that row's value.

## Not modelled

* Strings and JSON values, adding fields, the field panel for hashes, sets and sorted sets with
  their times to live: the same chain and panel with other commands.
* Single commands on keys (TTL, DEL, SET) and batch deletion: one command, one reply, no state.
* The terminal (raw commands and its queue of pasted lines), charts that poll, server information
  and ACL: one call after the other, and what is shown is the last answer.  A chart whose
  node is changed while an answer is under way adds one point of the old node.
* Reading and writing of an SSH channel, proxies and TLS: input and output.  A dial succeeds or
  fails.
* Conversions, DDL builders, readers of replies, formats: pure functions with unit tests.
* Favourites and histories: sequential lists with unit tests.
* Forms, menus, shortcuts, layout, translations and command references: no state that matters to
  the above.  Most lines of the front end are of this kind (the texts alone are thousands of lines).
* The contents of keys, rows and progress counters are left out everywhere.

## Plan

Done: all modules above; proofs for `MeSingle` and `Jobs` with their
refinements, `Listener`, `KeyScan`, `ValueView`, and every part of `Panels`.

Left, in this order:

1. `Panels!TypeOK` for all parts at once.
2. The panel of a sorted set, whose member is its own name and changes with it.
3. `ConnSwitch` together with `Jobs`: a job over the change of the connection that is shown.
