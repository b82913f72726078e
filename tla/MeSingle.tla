------------------------------ MODULE MeSingle ------------------------------
(***************************************************************************)
(* One stand-alone Redis connection of RedisME, as one window uses it.     *)
(*                                                                         *)
(* A window's Vue code has some calls outstanding (Calls).  Each call is   *)
(* an IPC invocation that Tauri executes on the main thread, one at a      *)
(* time: `pc` and `cur` are that thread.  A call takes the checked         *)
(* connection (keep, probe or reconnect), runs one command on it and       *)
(* replies; the window retries a call whose error is an unexpected EOF.    *)
(* Between any two steps the server may close the session, the network may *)
(* swallow it, and time passes.                                            *)
(*                                                                         *)
(* The same database number is kept in four places: the window (`uiDb`),   *)
(* the backend's MeBase (`baseDb`), the label the command log prints       *)
(* (`conn.label`) and the server's session (`conn.db`).                    *)
(***************************************************************************)
EXTENDS Integers

CONSTANTS
  Calls,          \* concurrent invocations of the window
  Dbs,            \* database numbers the user can ask for
  Selectable,     \* those for which the server's SELECT answers OK
  ConfDb,         \* the database stored in the connection's configuration
  UserOps,        \* what the user does: subset of {"data", "pick", "type"}
  CheckSeconds,   \* CONNECTION_CHECK_SECONDS
  StaleSeconds,   \* CONNECTION_STALE_SECONDS
  MaxRetry        \* SPECTA_EOF_MAX_RETRY

ASSUME DbAssumption == /\ Dbs \subseteq Nat /\ 0 \in Dbs
                       /\ Selectable \subseteq Dbs /\ 0 \in Selectable
                       /\ ConfDb \in Dbs
ASSUME TimeAssumption == /\ CheckSeconds \in Nat /\ StaleSeconds \in Nat
                         /\ 0 < CheckSeconds /\ CheckSeconds < StaleSeconds
ASSUME CallAssumption == /\ UserOps \subseteq {"data", "pick", "type"}
                         /\ MaxRetry \in Nat /\ Calls # {}

VARIABLES
  baseDb,    \* MeBase.db
  idle,      \* now - last_check_time, in 0..StaleSeconds (more is the same)
  conn,      \* the LoggingConnection and the server's end of it
  pc,        \* where the main thread is: "idle", or a step of a call
  cur,       \* the call the main thread executes
  retried,   \* the local `retried` of get_checked_conn
  call,      \* the window's outstanding invocations
  uiDb,      \* share.conn.db, the database the window shows
  eofCount,  \* spectaEofRetryCount
  settled,   \* history: the latest attempt to set the session's db succeeded
  clean,     \* history: no SELECT has failed so far
  execs,     \* history: how often the server ran the call (0, 1 or 2 = more)
  lossy,     \* history: calls whose reply was lost after they ran
  tries      \* history: how often the window repeated the call

main   == <<pc, cur, retried>>
window == <<uiDb, eofCount>>
hist   == <<execs, lossy, tries>>
vars   == <<baseDb, idle, conn, main, call, window, settled, clean, hist>>

Conn == [open : BOOLEAN,                      \* is_open()
         peer : {"up", "closed", "silent"},   \* the server's end
         db : Dbs,                            \* what the server has selected
         label : Dbs,                         \* LoggingConnection.db_index
         short : BOOLEAN]                     \* still has the probe's timeout
Call == [st : {"idle", "queued", "running", "replied"},
         op : {"data", "pick", "type"},       \* a command, or one of two SELECTs
         db : Dbs,                            \* shown when issued, or asked for
         result : {"ok", "eof", "err"}]

BackendOK == /\ baseDb \in Dbs /\ idle \in 0..StaleSeconds
             /\ conn \in Conn
             /\ pc \in {"idle", "lock", "probe", "again", "dial", "run"}
             /\ cur \in Calls /\ retried \in BOOLEAN
WindowOK  == /\ call \in [Calls -> Call]
             /\ uiDb \in Dbs /\ eofCount \in 0..MaxRetry + 1
HistoryOK == /\ settled \in BOOLEAN /\ clean \in BOOLEAN
             /\ execs \in [Calls -> 0..2] /\ lossy \subseteq Calls
             /\ tries \in [Calls -> 0..MaxRetry + 2]
TypeOK    == BackendOK /\ WindowOK /\ HistoryOK

-----------------------------------------------------------------------------
(* A new TCP session.  SELECT is sent only for db # 0; a refusal is logged  *)
(* and the session stays on database 0, but the label is the wanted number. *)
Selected(d) == IF d \in Selectable THEN d ELSE 0
NewConnConfLabel(d, got) ==
  [open |-> TRUE, peer |-> "up", db |-> got, label |-> ConfDb, short |-> FALSE]
NewConn(d, got) ==
  [open |-> TRUE, peer |-> "up", db |-> got, label |-> d, short |-> FALSE]

NoCall == [st |-> "idle", op |-> "data", db |-> 0, result |-> "ok"]

Init ==
  /\ baseDb = ConfDb /\ uiDb = ConfDb /\ idle = 0
  /\ conn = NewConn(ConfDb, Selected(ConfDb))
  /\ pc = "idle" /\ cur \in Calls /\ retried = FALSE
  /\ call = [c \in Calls |-> NoCall]
  /\ eofCount = 0
  /\ settled = (ConfDb \in Selectable) /\ clean = (ConfDb \in Selectable)
  /\ execs = [c \in Calls |-> 0] /\ lossy = {}
  /\ tries = [c \in Calls |-> 0]

-----------------------------------------------------------------------------
(* The window. *)

\* The user asks for something.  A database picked in the list is shown at
\* once; one typed in the terminal is shown when the call has succeeded.
Issue(c) ==
  /\ call[c].st = "idle"
  /\ \E op \in UserOps, d \in Dbs :
       /\ op = "data" => d = uiDb
       /\ call' = [call EXCEPT ![c] = [st |-> "queued", op |-> op, db |-> d, result |-> "ok"]]
       /\ uiDb' = IF op = "pick" THEN d ELSE uiDb
  /\ UNCHANGED <<baseDb, idle, conn, main, eofCount, settled, clean, hist>>

\* invokeSpectaCommand receives the reply.  Success resets the counter all
\* calls share; an EOF below the limit sends the same call again.
CanRetryForever(result) == result = "eof"
CanRetryAnyError(result) == result # "ok" /\ eofCount <= MaxRetry
CanRetry(result) == result = "eof" /\ eofCount <= MaxRetry

Deliver(c) ==
  /\ call[c].st = "replied"
  /\ IF CanRetry(call[c].result)
     THEN /\ eofCount' = eofCount + 1
          /\ call' = [call EXCEPT ![c].st = "queued"]
          /\ tries' = [tries EXCEPT ![c] = IF @ = MaxRetry + 2 THEN @ ELSE @ + 1]
          /\ UNCHANGED <<uiDb, execs, lossy>>
     ELSE /\ eofCount' = IF call[c].result = "ok" THEN 0 ELSE eofCount
          /\ call' = [call EXCEPT ![c] = NoCall]
          /\ uiDb' = IF call[c].op = "type" /\ call[c].result = "ok" THEN call[c].db ELSE uiDb
          /\ execs' = [execs EXCEPT ![c] = 0] /\ lossy' = lossy \ {c}
          /\ tries' = [tries EXCEPT ![c] = 0]
  /\ UNCHANGED <<baseDb, idle, conn, main, settled, clean>>

-----------------------------------------------------------------------------
(* The main thread. *)

IsSelect == call[cur].op # "data"

\* The command returns to the window.
Reply(result) ==
  /\ pc' = "idle" /\ retried' = FALSE /\ UNCHANGED cur
  /\ call' = [call EXCEPT ![cur].st = "replied", ![cur].result = result]

\* get_conn failed, or the command did: a SELECT has then not happened.
Fail(result) ==
  /\ Reply(result)
  /\ clean' = (clean /\ ~IsSelect)
  /\ settled' = (settled /\ ~IsSelect)

\* select_db answers at once when MeBase.db is already the number, and
\* stores the number before it has a connection.
Start(c) ==
  /\ pc = "idle" /\ call[c].st = "queued"
  /\ cur' = c /\ retried' = FALSE
  /\ IF call[c].op # "data" /\ baseDb = call[c].db
     THEN /\ pc' = "idle"
          /\ call' = [call EXCEPT ![c].st = "replied", ![c].result = "ok"]
          /\ UNCHANGED baseDb
     ELSE /\ pc' = "lock"
          /\ call' = [call EXCEPT ![c].st = "running"]
          /\ baseDb' = IF call[c].op = "data" THEN baseDb ELSE call[c].db
  /\ UNCHANGED <<idle, conn, window, settled, clean, hist>>

\* conn_reuse
Reuse == IF ~conn.open \/ idle >= StaleSeconds THEN "reconnect"
         ELSE IF idle < CheckSeconds THEN "keep" ELSE "probe"

\* One round of get_checked_conn's loop up to the PING: a probe notes the
\* time first and lowers the connection's timeouts.
Lock ==
  /\ pc = "lock"
  /\ \/ Reuse = "keep"      /\ pc' = "run"   /\ UNCHANGED <<idle, conn>>
     \/ Reuse = "reconnect" /\ pc' = "again" /\ UNCHANGED <<idle, conn>>
     \/ Reuse = "probe"     /\ pc' = "probe" /\ idle' = 0
                            /\ conn' = [conn EXCEPT !.short = TRUE]
  /\ UNCHANGED <<baseDb, cur, retried, call, window, settled, clean, hist>>

\* check_connection_timeout.  A PING that times out, because the session is
\* gone or the server is slow, leaves is_open() true; an EOF clears it.
Probe ==
  /\ pc = "probe"
  /\ \/ /\ conn.peer = "up" /\ pc' = "run" /\ conn' = [conn EXCEPT !.short = FALSE]
     \/ /\ pc' = "again"
        /\ conn' = [conn EXCEPT !.open = (conn.peer # "closed")]
  /\ UNCHANGED <<baseDb, idle, cur, retried, call, window, settled, clean, hist>>

NeverGiveUp == FALSE
GiveUp == retried

\* The guard is dropped; a second failure gives up, the first one reconnects.
Again ==
  /\ pc = "again"
  /\ IF GiveUp
     THEN Fail("err")
     ELSE /\ pc' = "dial" /\ retried' = TRUE
          /\ UNCHANGED <<cur, call, settled, clean>>
  /\ UNCHANGED <<baseDb, idle, conn, window, hist>>

\* reconnect fails: the old connection stays in place.
DialFail ==
  /\ pc = "dial"
  /\ \E result \in {"eof", "err"} : Fail(result)
  /\ UNCHANGED <<baseDb, idle, conn, window, hist>>

\* The database reconnect asks for.
WantedDbConf == ConfDb
WantedDb == baseDb

\* reconnect succeeds.  SELECT is answered OK, or refused, or lost on its way
\* there or back, which only a warning reports; the server may already have
\* closed the new session too.
DialOk ==
  /\ pc = "dial"
  /\ \E ok \in BOOLEAN, alive \in BOOLEAN, got \in {0, Selected(WantedDb)} :
       /\ ok => got = WantedDb
       /\ WantedDb = 0 => ok
       /\ conn' = IF alive THEN NewConn(baseDb, got)
                  ELSE [NewConn(baseDb, got) EXCEPT !.open = FALSE, !.peer = "closed"]
       /\ settled' = ok
       /\ clean' = (clean /\ ok)
  /\ idle' = 0 /\ pc' = "lock"
  /\ UNCHANGED <<baseDb, cur, retried, call, window, hist>>

\* The server runs a data command.
Ran == execs' = [execs EXCEPT ![cur] = IF @ = 2 THEN 2 ELSE @ + 1]

RunData ==
  /\ pc = "run" /\ ~IsSelect
  /\ \/ /\ conn.peer = "up" /\ Ran /\ Reply("ok")            \* answered
        /\ UNCHANGED <<conn, lossy>>
     \/ /\ conn.peer = "up" /\ Ran /\ Reply("eof")           \* died before answering
        /\ conn' = [conn EXCEPT !.open = FALSE, !.peer = "closed"]
        /\ lossy' = lossy \cup {cur}
     \/ /\ conn.peer = "up" /\ Ran /\ Reply("err")           \* error reply, or too late
        /\ UNCHANGED <<conn, lossy>>
     \/ /\ conn.peer = "closed" /\ Reply("eof")
        /\ conn' = [conn EXCEPT !.open = FALSE] /\ UNCHANGED <<execs, lossy>>
     \/ /\ conn.peer = "silent" /\ Reply("err") /\ UNCHANGED <<conn, execs, lossy>>
  /\ UNCHANGED <<baseDb, idle, window, settled, clean, tries>>

\* select_db's SELECT; only an OK moves the label.
RunSelect ==
  LET d == call[cur].db IN
  /\ pc = "run" /\ IsSelect
  /\ \/ /\ conn.peer = "up" /\ d \in Selectable /\ Reply("ok")
        /\ conn' = [conn EXCEPT !.db = d, !.label = d]
        /\ settled' = TRUE /\ UNCHANGED clean
     \/ /\ conn.peer = "up" /\ d \notin Selectable /\ Fail("err") /\ UNCHANGED conn
     \/ /\ conn.peer = "up" /\ Fail("eof")
        /\ conn' = [conn EXCEPT !.db = IF d \in Selectable THEN d ELSE @,
                                !.open = FALSE, !.peer = "closed"]
     \/ /\ conn.peer = "up" /\ Fail("err")
        /\ conn' = [conn EXCEPT !.db = IF d \in Selectable THEN d ELSE @]
     \/ /\ conn.peer = "closed" /\ Fail("eof") /\ conn' = [conn EXCEPT !.open = FALSE]
     \/ /\ conn.peer = "silent" /\ Fail("err") /\ UNCHANGED conn
  /\ UNCHANGED <<baseDb, idle, window, hist>>

MainStep == Lock \/ Probe \/ Again \/ DialFail \/ DialOk \/ RunData \/ RunSelect

-----------------------------------------------------------------------------
(* The environment. *)

\* The server closes the session (idle timeout, restart), or a middlebox
\* forgets it and nobody is told.
PeerLost ==
  /\ conn.peer = "up"
  /\ \E p \in {"closed", "silent"} : conn' = [conn EXCEPT !.peer = p]
  /\ UNCHANGED <<baseDb, idle, main, call, window, settled, clean, hist>>

Tick ==
  /\ idle < StaleSeconds /\ idle' = idle + 1
  /\ UNCHANGED <<baseDb, conn, main, call, window, settled, clean, hist>>

-----------------------------------------------------------------------------
Next == \/ MainStep \/ PeerLost \/ Tick
        \/ \E c \in Calls : Issue(c) \/ Deliver(c) \/ Start(c)

Spec == Init /\ [][Next]_vars

\* The main thread and the window's event loop run on; nobody is obliged to
\* issue a call, and the server and the clock owe nothing.
Fairness == /\ WF_vars(MainStep)
            /\ \A c \in Calls : WF_vars(Deliver(c)) /\ WF_vars(Start(c))
FairSpec == Spec /\ Fairness

-----------------------------------------------------------------------------
(* Properties. *)

\* The main thread is inside a SELECT: MeBase.db is ahead of the session.
SelectRunning == pc # "idle" /\ IsSelect

\* If the latest attempt to set the session's database succeeded, the
\* backend's number, the command log's label and the server's session agree,
\* also after reconnects (me_single.rs: select_db, reconnect).
SessionDbAgrees ==
  settled /\ ~SelectRunning => conn.db = baseDb /\ conn.label = baseDb

\* As long as no SELECT has failed, a data command runs on the database the
\* window showed when the user issued it, across idle reconnects and EOF
\* retries (one call outstanding at a time).
RunsOnShownDbWhenClean ==
  clean /\ pc = "run" /\ ~IsSelect => conn.db = call[cur].db

\* Without a lost reply the EOF retry never makes the server run a command a
\* second time (util.ts invokeSpectaCommand).
RetryRunsOnce == \A c \in Calls : c \in lossy \/ execs[c] <= 1

\* The window repeats a call at most MaxRetry + 1 times (util.ts:112).
RetryBound == \A c \in Calls : tries[c] <= MaxRetry + 1

\* Every call is eventually answered for good: neither the lock, the probe,
\* the reconnect nor the retry can spin (one call outstanding at a time).
EveryCallReturns == \A c \in Calls : call[c].st = "queued" ~> call[c].st = "idle"

\* The session the window is promised, seen through the thread, the calls and
\* the sessions behind it.
AskOf(c) ==
  [st |-> CASE call[c].st = "idle" -> "none"
            [] call[c].st = "replied" -> call[c].result
            [] OTHER -> "asked",
   select |-> call[c].op # "data", db |-> call[c].db]
Promise == INSTANCE Session WITH
  ask <- [c \in Calls |-> AskOf(c)], ran <- {c \in Calls : execs[c] > 0},
  lost <- lossy, db <- conn.db, sure <- settled

\* Probes, reconnects, the number that answers a SELECT from memory and the EOF
\* retry are together one session that lasts: a command is executed once unless
\* its answer was lost, an "ok" is true, and no reconnect moves the database.
KeepsPromise == Promise!Spec

(* What comments of the source claim and the code does not do. *)

\* RedisTerminal.vue: a SELECT must not change the connection and leave the
\* window behind: a data command runs on the database the window shows.
RunsOnShownDb == pc = "run" /\ ~IsSelect => conn.db = call[cur].db
=============================================================================
