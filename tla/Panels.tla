------------------------------- MODULE Panels -------------------------------
(***************************************************************************)
(* The parts of RedisME that do without each other, checked                *)
(* together: a behaviour is one of one of them, which `part` says, and the *)
(* others do not exist in it.  They share the variables, each in the order *)
(* in which it declares its own; a variable that it does without is None.  *)
(***************************************************************************)
EXTENDS Integers, FiniteSets

CONSTANTS
  Parts,      \* the parts that a run is about
  None,
  Keys, Tags, SizeRows, MaxLife, MaxGen, Batch,               \* KeyTypes, KeyCache
  Patterns, Waiters, Pages, UnderWay,                     \* MemoryScan, KeyModes
  Indexes, Fields, Queries,                               \* SearchPage
  Conns, Runs,                                            \* ConnSwitch
  Windows, First, MaxEdits, Posts,                        \* ConnSync
  Writers, Main, MaxLogs, MaxId, MaxEntries, Limit, Events,   \* CommandLog
  Dials, Sessions,                                        \* SshDialer
  N, Odd, MaxActs, MaxJobs,                               \* FieldEditor
  KeyNames, Never, Values, Lasting, Ttl,                     \* KeyMove
  Kinds, Top, Limits, PageSize,                           \* Pages
  ScanKeys, Masters, Holds, BucketOf, Buckets, Filters, AllKeys, Count    \* KeyScan

ASSUME PanelsAssumption ==
  /\ None # "scan" /\ "reload" \notin Runs
  /\ None \notin UNION {Keys, Indexes, Fields, Queries, Conns, Dials, Sessions, Values}
  /\ {MaxLife, MaxGen, MaxEdits, Ttl} \subseteq Nat /\ Never \notin Nat
  /\ {Batch, Pages, UnderWay, Posts, MaxLogs, MaxId, Limit, Events, N, MaxJobs} \subseteq Nat \ {0}
  /\ MaxActs \in Nat /\ Odd \subseteq 0..N - 1
  /\ Top \in Nat /\ PageSize \in Nat \ {0} /\ None \notin Int /\ Limits \subseteq Int \cup {None}
  /\ Kinds \subseteq {"array", "zset", "vector", "sample", "list", "stream", "ts"}
  /\ Patterns # {} /\ First \in Windows /\ Main \in Writers /\ IsFiniteSet(SizeRows)

VARIABLES part, s1, s2, s3, s4, s5, s6, s7, s8, s9, s10, s11

vars == <<part, s1, s2, s3, s4, s5, s6, s7, s8, s9, s10, s11>>

Types == INSTANCE KeyTypes WITH
  life <- s1, type <- s2, call <- s3, tag <- s4, edit <- s5, late <- s6
Sizes == INSTANCE KeyCache WITH
  Rows <- SizeRows, size <- s1, gen <- s2, wait <- s3, batch <- s4, detail <- s5,
  row <- s6, can <- s7
Memory == INSTANCE MemoryScan WITH
  page <- s1, match <- s2, dialog <- s3, flag <- s4, loop <- s5,
  cursor <- s6, list <- s7, wait <- s8, of <- s9
Modes == INSTANCE KeyModes WITH
  ui <- s1, scan <- s2, list <- s3, tasks <- s4, off <- s5
Search == INSTANCE SearchPage WITH
  exist <- s1, rows <- s2, sel <- s3, page <- s4, dialogs <- s5,
  tags <- s6, syn <- s7, hits <- s8, loading <- s9, calls <- s10,
  off <- s11
Switch == INSTANCE ConnSwitch WITH
  conn <- s1, shown <- s2, caps <- s3, run <- s4, reload <- s5,
  calls <- s6, clients <- s7, calm <- s8
Sync == INSTANCE ConnSync WITH
  UnderWay <- Posts,   made <- s1, win <- s2, store <- s3, calls <- s4, answers <- s5,
  connections <- s6, inbox <- s7, calm <- s8

Log == INSTANCE CommandLog WITH
  UnderWay <- Events, log <- s1, next <- s2, ring <- s3, push <- s4, events <- s5,
  panel <- s6, calm <- s7
Ssh == INSTANCE SshDialer WITH
  dial <- s1, lock <- s2, gate <- s3, slot <- s4, alive <- s5
Move == INSTANCE KeyMove WITH
  Names <- KeyNames, key <- s1, move <- s2, made <- s3, lost <- s4, calm <- s5, brief <- s6
Value == INSTANCE Pages WITH
  ask <- s1, held <- s2, cursor <- s3, shown <- s4, steady <- s5, calm <- s6
Editor == INSTANCE FieldEditor WITH
  server <- s1, rows <- s2, edit <- s3, form <- s4, jobs <- s5, calls <- s6,
  acts <- s7, calm <- s8
Scan == INSTANCE KeyScan WITH
  Keys <- ScanKeys, Lists <- Masters, present <- s1, nodes <- s2, filter <- s3, cursor <- s4,
  buf <- s5, ui <- s6, fetched <- s7, flight <- s8, wait <- s9, seen <- s10

-----------------------------------------------------------------------------
Init ==
  /\ part \in Parts
  /\
     \/ part = "types" /\ Types!Init
          /\ s7 = None /\ s8 = None /\ s9 = None /\ s10 = None /\ s11 = None
     \/ part = "sizes" /\ Sizes!Init
          /\ s8 = None /\ s9 = None /\ s10 = None /\ s11 = None
     \/ part = "memory" /\ Memory!Init /\ s10 = None /\ s11 = None
     \/ part = "modes" /\ Modes!Init
          /\ s6 = None /\ s7 = None /\ s8 = None /\ s9 = None /\ s10 = None /\ s11 = None
     \/ part = "search" /\ Search!Init
     \/ part = "switch" /\ Switch!Init /\ s9 = None /\ s10 = None /\ s11 = None
     \/ part = "sync" /\ Sync!Init /\ s9 = None /\ s10 = None /\ s11 = None
     \/ part = "log" /\ Log!Init
          /\ s8 = None /\ s9 = None /\ s10 = None /\ s11 = None
     \/ part = "ssh" /\ Ssh!Init
          /\ s6 = None /\ s7 = None /\ s8 = None /\ s9 = None /\ s10 = None /\ s11 = None
     \/ part = "move" /\ Move!Init
          /\ s7 = None /\ s8 = None /\ s9 = None /\ s10 = None /\ s11 = None
     \/ part = "pages" /\ Value!Init
          /\ s7 = None /\ s8 = None /\ s9 = None /\ s10 = None /\ s11 = None
     \/ part = "editor" /\ Editor!Init /\ s9 = None /\ s10 = None /\ s11 = None
     \/ part = "scan" /\ Scan!Init /\ s11 = None

Next ==
  /\ UNCHANGED part
  /\
     \/ part = "types" /\ Types!Next /\ UNCHANGED <<s7, s8, s9, s10, s11>>
     \/ part = "sizes" /\ Sizes!Next /\ UNCHANGED <<s8, s9, s10, s11>>
     \/ part = "memory" /\ Memory!Next /\ UNCHANGED <<s10, s11>>
     \/ part = "modes" /\ Modes!Next /\ UNCHANGED <<s6, s7, s8, s9, s10, s11>>
     \/ part = "search" /\ Search!Next
     \/ part = "switch" /\ Switch!Next /\ UNCHANGED <<s9, s10, s11>>
     \/ part = "sync" /\ Sync!Next /\ UNCHANGED <<s9, s10, s11>>
     \/ part = "log" /\ Log!Next /\ UNCHANGED <<s8, s9, s10, s11>>
     \/ part = "ssh" /\ Ssh!Next /\ UNCHANGED <<s6, s7, s8, s9, s10, s11>>
     \/ part = "move" /\ Move!Next /\ UNCHANGED <<s7, s8, s9, s10, s11>>
     \/ part = "pages" /\ Value!Next /\ UNCHANGED <<s7, s8, s9, s10, s11>>
     \/ part = "editor" /\ Editor!Next /\ UNCHANGED <<s9, s10, s11>>
     \/ part = "scan" /\ Scan!Next /\ UNCHANGED s11

\* Each part's own; see KeyCache, ConnSync, KeyScan, Pages and SshDialer.
Fairness ==
  /\ \A r \in SizeRows : /\ WF_(Sizes!vars)(part = "sizes" /\ Sizes!Watch(r))
                     /\ WF_(Sizes!vars)(part = "sizes" /\ Sizes!HideSize(r))
                     /\ WF_(Sizes!vars)(part = "sizes" /\ Sizes!Leave(r))
  /\ WF_(Sizes!vars)(part = "sizes" /\ Sizes!Flush)
  /\ WF_(Sizes!vars)(part = "sizes" /\ Sizes!FlushBack)
  /\ WF_(Sync!vars)(part = "sync" /\ Sync!Run)
  /\ WF_(Sync!vars)(part = "sync" /\ Sync!Emits)
  /\ \A w \in Windows : WF_(Sync!vars)(part = "sync" /\ Sync!Step(w))
  /\ WF_(Scan!vars)(part = "scan" /\ Scan!ScanStep)
  /\ WF_(Value!vars)(part = "pages" /\ Value!Page)
  /\ \A d \in Dials : SF_(Ssh!vars)(part = "ssh" /\ Ssh!Step(d))

Spec == Init /\ [][Next]_vars /\ Fairness

-----------------------------------------------------------------------------
(* Properties: those of the parts. *)

\* Every part's state is one it can be in.
TypeOK ==
  /\ part = "types" => Types!TypeOK
  /\ part = "sizes" => Sizes!TypeOK
  /\ part = "memory" => Memory!TypeOK
  /\ part = "modes" => Modes!TypeOK
  /\ part = "search" => Search!TypeOK
  /\ part = "switch" => Switch!TypeOK
  /\ part = "sync" => Sync!TypeOK
  /\ part = "log" => Log!TypeOK
  /\ part = "ssh" => Ssh!TypeOK
  /\ part = "move" => Move!TypeOK
  /\ part = "pages" => Value!TypeOK
  /\ part = "editor" => Editor!TypeOK
  /\ part = "scan" => Scan!TypeOK

\* A remembered type is the key's, whatever was deleted, renamed or flushed, and so is
\* the type that a tag in the list shows: key-type-cache, KeyTypeTag.
TypeFollows == part = "types" => Types!TypeFollows /\ Types!TagFollows

\* No size from before a clearing is shown after it, and a key is in the queue for as long
\* as a row waits for it: key-memory-cache.
FreshSize == part = "sizes" => Sizes!FreshSize /\ Sizes!PinsCount

\* A batch does not write over what the details wrote: flush.
DetailWins == [][part = "sizes" =>
  \A k \in Keys : Sizes!Written(k, "detail") => ~Sizes!Written(k, "batch")']_vars

\* A row in view gets its size: flush and the rows' watcher.
RowAnswered == \A r \in SizeRows, k \in Keys :
  part = "sizes" /\ Sizes!Unanswered(r, k) ~> part = "sizes" /\ ~Sizes!Unanswered(r, k)

\* A memory analysis shows its own folder's hits, and all of them when it is finished:
\* useMemoryScan, runLoop, KeyMemory.
OwnHits == part = "memory" => Memory!OwnFolder /\ Memory!AllHits

\* One scan or query runs at a time: scanKey, runSearchKeys, stopScanIfRunning.
OneAtATime == part = "modes" => Modes!OneAtATime

\* The key list shows what the chosen mode and index have: KeyMain.
OwnRows == part = "modes" => Modes!OwnRows

\* What the search page shows is of what it names: tag values of the index and field, synonyms
\* of the index, hits of the query sent last, and the list of the indexes that there are:
\* loadTagVals, loadSynDump, runSearch, loadIndexes.
SearchShowsItsOwn ==
  part = "search" => Search!TagsOfField /\ Search!SynOfIndex /\ Search!HitsOfQuery /\ Search!RowsFollow

\* A connection that is chosen is shown, connected and known, and nothing else stays connected:
\* AppMain's watcher.
ShowsConnected == part = "switch" => Switch!ShowsConnected /\ Switch!OneOpen

\* Windows, back end and store have one list at rest, and it is the last edit that was made
\* at rest: AppMain's watcher and listener.
Agree == part = "sync" => Sync!Agree /\ Sync!EditKept

\* The lists come to rest, although each one that arrives is passed on.
ComesToRest == part = "sync" /\ ~Sync!Rested ~> part = "sync" /\ Sync!Rested

\* A log panel that has caught up shows the log, and never has two entries of one number:
\* CommandLog.vue.
PanelFollows == part = "log" => Log!NoTwins /\ Log!PanelFollows

\* The jump host has one session of a client, and somebody has its handle: SshDialer.
OneSession == part = "ssh" => Ssh!OneSession

\* A dial comes back: dial, reconnect and open_channel.
DialEnds == \A d \in Dials :
  part = "ssh" /\ Ssh!Busy(d) ~> part = "ssh" /\ ~Ssh!Busy(d)

\* Renaming and copying over slots lose no value, and none loses or gains a time to live:
\* me_cluster's rename, copy and restore_ttl.
ValueKept == part = "move" => Move!ValueKept /\ Move!ExpiryKept

\* A copy writes over nobody: me_cluster's copy.
CopyAdds == [][part = "move" /\ Move!Copying => Move!OthersKept]_vars

\* Pages that are finished have had all that was there all the time, and they come in the
\* direction asked for, with nothing twice: field_scan.
PagesComplete == part = "pages" => Value!PagesComplete /\ Value!PagesInOrder

\* The panel that edits a row shows that row, and no row of the table or of the server gets
\* what was shown or typed for another one: FieldSet.vue.
EditsItsOwn == part = "editor" => Editor!EditsItsOwn

\* Every scan of the key list and every reading of a value by pages comes to an end: scanKey,
\* field_scan.
ReadsEnd ==
  /\ part = "scan" /\ Scan!Running ~> part = "scan" /\ ~Scan!Running
  /\ part = "pages" /\ ~Value!Finished ~> part = "pages" /\ Value!Finished
=============================================================================
