--------------------------- MODULE MeSingleProofs ---------------------------
(* What MeSingle promises for every number of calls, every set of database *)
(* numbers and every timeout: type correctness, agreement of the database  *)
(* numbers, and that the EOF retry does not repeat an executed command.    *)
EXTENDS MeSingle, TLAPS

-----------------------------------------------------------------------------
\* A reply touches nothing but the thread's locals and the call it answers.
LEMMA ReplyTyped ==
  ASSUME TypeOK, NEW result \in {"ok", "eof", "err"}, Reply(result)
  PROVE  /\ pc' = "idle" /\ cur' = cur /\ retried' \in BOOLEAN
         /\ call' \in [Calls -> Call]
<1>1. /\ pc' = "idle" /\ cur' = cur /\ retried' \in BOOLEAN
      /\ call' = [call EXCEPT ![cur].st = "replied", ![cur].result = result]
  BY DEF Reply
<1>2. call \in [Calls -> Call] /\ cur \in Calls
  BY DEF TypeOK, BackendOK, WindowOK
<1>3. [call[cur] EXCEPT !.st = "replied", !.result = result] \in Call
  BY <1>2 DEF Call
<1> QED
  BY <1>1, <1>2, <1>3

LEMMA FailTyped ==
  ASSUME TypeOK, NEW result \in {"ok", "eof", "err"}, Fail(result)
  PROVE  /\ pc' = "idle" /\ cur' = cur /\ retried' \in BOOLEAN
         /\ call' \in [Calls -> Call]
         /\ settled' \in BOOLEAN /\ clean' \in BOOLEAN
<1>1. Reply(result) /\ settled' \in BOOLEAN /\ clean' \in BOOLEAN
  BY DEF Fail
<1> QED
  BY <1>1, ReplyTyped

LEMMA DialTyped == ASSUME TypeOK, DialOk PROVE conn' \in Conn
<1>1. PICK ok \in BOOLEAN, alive \in BOOLEAN, got \in {0, Selected(WantedDb)} :
        conn' = IF alive THEN NewConn(baseDb, got)
                ELSE [NewConn(baseDb, got) EXCEPT !.open = FALSE, !.peer = "closed"]
  BY DEF DialOk
<1>2. got \in Dbs /\ baseDb \in Dbs
  BY DbAssumption DEF DbAssumption, Selected, WantedDb, TypeOK, BackendOK
<1>3. NewConn(baseDb, got) \in Conn
  BY <1>2 DEF NewConn, Conn
<1> QED
  BY <1>1, <1>3 DEF Conn

\* Type correctness, whatever the server, the network and the user do.
THEOREM TypeCorrect == Spec => []TypeOK
<1> USE DbAssumption, TimeAssumption, CallAssumption
    DEF DbAssumption, TimeAssumption, CallAssumption
<1>1. Init => TypeOK
  <2> SUFFICES ASSUME Init PROVE TypeOK
    OBVIOUS
  <2>1. BackendOK
    <3>1. NewConn(ConfDb, Selected(ConfDb)) \in Conn
      BY DEF Conn, NewConn, Selected
    <3>2. conn \in Conn /\ retried \in BOOLEAN
      BY <3>1 DEF Init
    <3>3. /\ baseDb \in Dbs /\ idle \in 0..StaleSeconds
          /\ pc = "idle" /\ cur \in Calls
      BY DEF Init
    <3> QED
      BY <3>2, <3>3 DEF BackendOK
  <2>2. WindowOK
    BY DEF Init, WindowOK, Call, NoCall
  <2>3. HistoryOK
    BY DEF Init, HistoryOK
  <2> QED
    BY <2>1, <2>2, <2>3 DEF TypeOK
<1>2. TypeOK /\ [Next]_vars => TypeOK'
  <2> SUFFICES ASSUME TypeOK, [Next]_vars PROVE TypeOK'
    OBVIOUS
  <2>1. ASSUME NEW c \in Calls, Issue(c) PROVE TypeOK'
    <3> USE <2>1 DEF TypeOK, Issue
    <3>1. BackendOK'
      BY DEF BackendOK, main
    <3>2. WindowOK'
      BY DEF WindowOK, Call
    <3>3. HistoryOK'
      BY DEF HistoryOK, hist
    <3> QED
      BY <3>1, <3>2, <3>3
  <2>2. ASSUME NEW c \in Calls, Deliver(c) PROVE TypeOK'
    <3> USE <2>2 DEF TypeOK, Deliver
    <3>1. BackendOK'
      BY DEF BackendOK, main
    <3>2. WindowOK'
      BY DEF WindowOK, Call, CanRetry, NoCall
    <3>3. execs' \in [Calls -> 0..2] /\ lossy' \subseteq Calls
      BY DEF HistoryOK
    <3>4. tries' \in [Calls -> 0..MaxRetry + 2]
      BY DEF HistoryOK
    <3>5. settled' \in BOOLEAN /\ clean' \in BOOLEAN
      BY DEF HistoryOK
    <3> QED
      BY <3>1, <3>2, <3>3, <3>4, <3>5 DEF HistoryOK
  <2>3. ASSUME NEW c \in Calls, Start(c) PROVE TypeOK'
    <3> USE <2>3 DEF TypeOK, Start
    <3>1. BackendOK'
      BY DEF BackendOK, WindowOK, Call
    <3>2. WindowOK'
      BY DEF WindowOK, Call, window
    <3>3. HistoryOK'
      BY DEF HistoryOK, hist
    <3> QED
      BY <3>1, <3>2, <3>3
  <2>4. CASE Lock
    <3> USE <2>4 DEF TypeOK, Lock
    <3>1. conn' \in Conn
      BY DEF BackendOK, Conn
    <3>2. /\ idle' \in 0..StaleSeconds /\ baseDb' = baseDb
          /\ cur' = cur /\ retried' = retried
          /\ pc' \in {"idle", "lock", "probe", "again", "dial", "run"}
      BY DEF BackendOK
    <3>3. WindowOK' /\ HistoryOK'
      BY DEF WindowOK, HistoryOK, window, hist
    <3> QED
      BY <3>1, <3>2, <3>3 DEF BackendOK
  <2>5. CASE Probe
    <3> USE <2>5 DEF TypeOK, Probe
    <3>1. BackendOK'
      BY DEF BackendOK, Conn
    <3>2. WindowOK' /\ HistoryOK'
      BY DEF WindowOK, HistoryOK, window, hist
    <3> QED
      BY <3>1, <3>2
  <2>6. CASE Again
    <3>1. CASE GiveUp
      <4>1. Fail("err") /\ UNCHANGED <<baseDb, idle, conn, window, hist>>
        BY <2>6, <3>1 DEF Again
      <4> QED
        BY <4>1, FailTyped DEF TypeOK, BackendOK, WindowOK, HistoryOK, window, hist
    <3>2. CASE ~GiveUp
      BY <2>6, <3>2 DEF Again, TypeOK, BackendOK, WindowOK, HistoryOK, window, hist
    <3> QED
      BY <3>1, <3>2
  <2>7. CASE DialFail
    <3>1. PICK result \in {"eof", "err"} : Fail(result)
      BY <2>7 DEF DialFail
    <3>2. UNCHANGED <<baseDb, idle, conn, window, hist>>
      BY <2>7 DEF DialFail
    <3> QED
      BY <3>1, <3>2, FailTyped DEF TypeOK, BackendOK, WindowOK, HistoryOK, window, hist
  <2>8. CASE DialOk
    <3>1. settled' \in BOOLEAN /\ clean' \in BOOLEAN
      BY <2>8 DEF DialOk
    <3>2. /\ idle' = 0 /\ pc' = "lock"
          /\ UNCHANGED <<baseDb, cur, retried, call, window, hist>>
      BY <2>8 DEF DialOk
    <3> QED
      BY <2>8, <3>1, <3>2, DialTyped
      DEF TypeOK, BackendOK, WindowOK, HistoryOK, window, hist
  <2>9. CASE RunData
    <3>1. PICK result \in {"ok", "eof", "err"} : Reply(result)
      BY <2>9 DEF RunData
    <3>2. conn' \in Conn
      BY <2>9 DEF RunData, TypeOK, BackendOK, Conn
    <3>3. execs' \in [Calls -> 0..2] /\ lossy' \subseteq Calls
      BY <2>9 DEF RunData, Ran, TypeOK, HistoryOK, BackendOK
    <3>4. UNCHANGED <<baseDb, idle, uiDb, eofCount, settled, clean, tries>>
      BY <2>9 DEF RunData, window
    <3> QED
      BY <3>1, <3>2, <3>3, <3>4, ReplyTyped DEF TypeOK, BackendOK, WindowOK, HistoryOK
  <2>10. CASE RunSelect
    <3>1. /\ retried' \in BOOLEAN /\ pc' = "idle" /\ cur' = cur
          /\ call' \in [Calls -> Call]
          /\ settled' \in BOOLEAN /\ clean' \in BOOLEAN
      <4>1. CASE \E result \in {"eof", "err"} : Fail(result)
        BY <4>1, FailTyped
      <4>2. CASE Reply("ok") /\ settled' = TRUE /\ UNCHANGED clean
        BY <4>2, ReplyTyped DEF TypeOK, HistoryOK
      <4> QED
        BY <2>10, <4>1, <4>2 DEF RunSelect
    <3>2. conn' \in Conn
      BY <2>10 DEF RunSelect, TypeOK, BackendOK, WindowOK, Conn, Call
    <3>3. UNCHANGED <<baseDb, idle, window, hist>>
      BY <2>10 DEF RunSelect
    <3> QED
      BY <3>1, <3>2, <3>3 DEF TypeOK, BackendOK, WindowOK, HistoryOK, window, hist
  <2>11. CASE PeerLost
    BY <2>11
    DEF PeerLost, Conn, TypeOK, BackendOK, WindowOK, HistoryOK, main, window, hist
  <2>12. CASE Tick
    BY <2>12 DEF Tick, TypeOK, BackendOK, WindowOK, HistoryOK, main, window, hist
  <2>13. CASE UNCHANGED vars
    BY <2>13 DEF vars, TypeOK, BackendOK, WindowOK, HistoryOK, main, window, hist
  <2> QED
    BY <2>1, <2>2, <2>3, <2>4, <2>5, <2>6, <2>7, <2>8, <2>9, <2>10, <2>11, <2>12, <2>13
    DEF Next, MainStep
<1> QED
  BY <1>1, <1>2, PTL DEF Spec

-----------------------------------------------------------------------------
(* The database numbers.                                                   *)

\* The main thread works for a call that has been taken off the queue.
CurIsRunning == pc # "idle" => call[cur].st = "running"

\* While a SELECT is in progress MeBase.db already is the number it asks for.
SelectStored == SelectRunning => baseDb = call[cur].db

DbInv == CurIsRunning /\ SelectStored /\ SessionDbAgrees

\* The window issues, receives and repeats calls the main thread is not at.
LEMMA OtherCall ==
  ASSUME TypeOK, CurIsRunning, NEW c \in Calls, Issue(c) \/ Deliver(c)
  PROVE  pc # "idle" => call'[cur] = call[cur]
BY DEF TypeOK, BackendOK, WindowOK, Call, CurIsRunning, Issue, Deliver

\* The strengthening is an invariant: a SELECT in progress is the only time
\* MeBase.db is ahead of the session.
LEMMA DatabaseInductive == Spec => []DbInv
<1>1. Init => DbInv
  <2> SUFFICES ASSUME Init PROVE DbInv
    OBVIOUS
  <2>1. settled => ConfDb \in Selectable
    BY DEF Init
  <2>2. /\ pc = "idle" /\ baseDb = ConfDb /\ conn.label = ConfDb
        /\ ConfDb \in Selectable => conn.db = ConfDb
    BY DEF Init, NewConn, Selected
  <2> QED
    BY <2>1, <2>2 DEF DbInv, CurIsRunning, SelectStored, SessionDbAgrees, SelectRunning
<1>2. TypeOK /\ DbInv /\ [Next]_vars => DbInv'
  <2> SUFFICES ASSUME TypeOK, DbInv, [Next]_vars PROVE DbInv'
    OBVIOUS
  <2> USE DEF DbInv, SelectRunning, IsSelect
  <2>1. ASSUME NEW c \in Calls, Issue(c) \/ Deliver(c) PROVE DbInv'
    <3>1. UNCHANGED <<baseDb, conn, pc, cur, settled>>
      BY <2>1 DEF Issue, Deliver, main
    <3>2. pc # "idle" => call'[cur] = call[cur]
      BY <2>1, OtherCall
    <3> QED
      BY <3>1, <3>2 DEF CurIsRunning, SelectStored, SessionDbAgrees
  <2>2. ASSUME NEW c \in Calls, Start(c) PROVE DbInv'
    BY <2>2 DEF Start, CurIsRunning, SelectStored, SessionDbAgrees, TypeOK, WindowOK, Call
  <2>3. CASE Lock \/ Probe
    <3>1. /\ UNCHANGED <<baseDb, cur, call, settled>>
          /\ pc # "idle" /\ pc' # "idle"
          /\ conn'.db = conn.db /\ conn'.label = conn.label
      BY <2>3 DEF Lock, Probe, TypeOK, BackendOK, Conn
    <3> QED
      BY <3>1 DEF CurIsRunning, SelectStored, SessionDbAgrees
  <2>4. CASE Again \/ DialFail
    <3>1. UNCHANGED <<baseDb, cur, conn>> /\ pc # "idle"
      BY <2>4 DEF Again, DialFail, Fail, Reply
    <3>2. \/ pc' = "idle" /\ (settled' => settled /\ ~IsSelect)
          \/ pc' = "dial" /\ UNCHANGED <<call, settled>>
      BY <2>4 DEF Again, DialFail, Fail, Reply
    <3>3. CASE pc' = "idle" /\ (settled' => settled /\ ~IsSelect)
      BY <3>1, <3>3 DEF CurIsRunning, SelectStored, SessionDbAgrees
    <3>4. CASE pc' = "dial" /\ UNCHANGED <<call, settled>>
      BY <3>1, <3>4 DEF CurIsRunning, SelectStored, SessionDbAgrees
    <3> QED
      BY <3>2, <3>3, <3>4
  <2>5. CASE DialOk
    <3>1. PICK ok \in BOOLEAN, alive \in BOOLEAN, got \in {0, Selected(WantedDb)} :
            /\ ok => got = baseDb
            /\ conn' = IF alive THEN NewConn(baseDb, got)
                       ELSE [NewConn(baseDb, got) EXCEPT !.open = FALSE, !.peer = "closed"]
            /\ settled' = ok
      BY <2>5 DEF DialOk, WantedDb
    <3>2. conn'.db = got /\ conn'.label = baseDb
      BY <3>1 DEF NewConn
    <3>3. UNCHANGED <<baseDb, cur, call>> /\ pc # "idle" /\ pc' = "lock"
      BY <2>5 DEF DialOk
    <3> QED
      BY <3>1, <3>2, <3>3 DEF CurIsRunning, SelectStored, SessionDbAgrees
  <2>6. CASE RunData
    <3>1. /\ UNCHANGED <<baseDb, settled>> /\ pc = "run" /\ pc' = "idle" /\ ~IsSelect
          /\ conn'.db = conn.db /\ conn'.label = conn.label
      BY <2>6 DEF RunData, Reply, TypeOK, BackendOK, Conn
    <3> QED
      BY <3>1 DEF CurIsRunning, SelectStored, SessionDbAgrees
  <2>7. CASE RunSelect
    <3>1. pc = "run" /\ pc' = "idle" /\ IsSelect /\ UNCHANGED baseDb
      BY <2>7 DEF RunSelect, Reply, Fail
    <3>2. CASE settled' = FALSE
      BY <3>1, <3>2 DEF CurIsRunning, SelectStored, SessionDbAgrees
    <3>3. CASE conn' = [conn EXCEPT !.db = call[cur].db, !.label = call[cur].db]
      <4>1. conn'.db = call[cur].db /\ conn'.label = call[cur].db
        BY <3>3 DEF TypeOK, BackendOK, Conn
      <4> QED
        BY <3>1, <4>1 DEF CurIsRunning, SelectStored, SessionDbAgrees
    <3> QED
      BY <2>7, <3>2, <3>3 DEF RunSelect, Fail
  <2>8. CASE PeerLost
    <3>1. /\ UNCHANGED <<baseDb, pc, cur, call, settled>>
          /\ conn'.db = conn.db /\ conn'.label = conn.label
      BY <2>8 DEF PeerLost, main, TypeOK, BackendOK, Conn
    <3> QED
      BY <3>1 DEF CurIsRunning, SelectStored, SessionDbAgrees
  <2>9. CASE Tick \/ UNCHANGED vars
    BY <2>9 DEF Tick, vars, main, CurIsRunning, SelectStored, SessionDbAgrees
  <2> QED
    BY <2>1, <2>2, <2>3, <2>4, <2>5, <2>6, <2>7, <2>8, <2>9 DEF Next, MainStep
<1> QED
  BY <1>1, <1>2, TypeCorrect, PTL DEF Spec

\* After a successful attempt to set the session's database, the backend, the
\* log's label and the session agree, whatever reconnects follow.
THEOREM DatabaseAgrees == Spec => []SessionDbAgrees
<1>1. DbInv => SessionDbAgrees
  BY DEF DbInv
<1> QED
  BY <1>1, DatabaseInductive, PTL

-----------------------------------------------------------------------------
(* The EOF retry.                                                          *)

\* A call the server ran, and whose reply was not lost, is not coming back.
RanIsOver ==
  \A c \in Calls : \/ c \in lossy \/ execs[c] = 0
                   \/ /\ call[c].st = "replied" /\ call[c].result # "eof"
                      /\ execs[c] = 1

OnceInv == CurIsRunning /\ RanIsOver

\* No step brings a call back that was run and answered.
LEMMA OnceInductive == Spec => []OnceInv
<1>1. Init => OnceInv
  BY DEF Init, OnceInv, CurIsRunning, RanIsOver
<1>2. TypeOK /\ OnceInv /\ [Next]_vars => OnceInv'
  <2> SUFFICES ASSUME TypeOK, OnceInv, [Next]_vars PROVE OnceInv'
    OBVIOUS
  <2> USE DEF OnceInv
  <2>1. ASSUME NEW c \in Calls, Issue(c) PROVE OnceInv'
    BY <2>1 DEF Issue, main, hist, CurIsRunning, RanIsOver, TypeOK, BackendOK, WindowOK, Call
  <2>2. ASSUME NEW c \in Calls, Deliver(c) PROVE OnceInv'
    <3>1. CurIsRunning'
      BY <2>2, OtherCall DEF Deliver, main, CurIsRunning
    <3>2. RanIsOver'
      BY <2>2 DEF Deliver, CanRetry, RanIsOver, TypeOK, WindowOK, HistoryOK, Call
    <3> QED
      BY <3>1, <3>2
  <2>3. ASSUME NEW c \in Calls, Start(c) PROVE OnceInv'
    BY <2>3 DEF Start, hist, CurIsRunning, RanIsOver, TypeOK, WindowOK, Call
  <2>4. CASE Lock \/ Probe \/ DialOk
    BY <2>4 DEF Lock, Probe, DialOk, hist, CurIsRunning, RanIsOver
  <2>5. CASE Again \/ DialFail
    BY <2>5 DEF Again, DialFail, Fail, Reply, hist, CurIsRunning, RanIsOver,
                TypeOK, BackendOK, WindowOK, Call
  <2>6. CASE RunData
    <3>1. pc = "run" /\ pc' = "idle" /\ cur \in Calls
      BY <2>6 DEF RunData, Reply, TypeOK, BackendOK
    <3>2. cur \in lossy \/ execs[cur] = 0
      BY <3>1 DEF CurIsRunning, RanIsOver
    <3>3. \A c \in Calls \ {cur} : call'[c] = call[c] /\ execs'[c] = execs[c]
      BY <2>6 DEF RunData, Reply, Ran, TypeOK, WindowOK, HistoryOK
    <3>4. lossy \subseteq lossy' /\ lossy' \subseteq lossy \cup {cur}
      BY <2>6 DEF RunData
    <3>5. \/ cur \in lossy'
          \/ execs'[cur] = 0
          \/ /\ call'[cur].st = "replied" /\ call'[cur].result # "eof"
             /\ execs'[cur] = 1
      BY <2>6, <3>2 DEF RunData, Reply, Ran, TypeOK, BackendOK, WindowOK, HistoryOK, Call
    <3> QED
      BY <3>1, <3>3, <3>4, <3>5 DEF CurIsRunning, RanIsOver
  <2>7. CASE RunSelect
    BY <2>7 DEF RunSelect, Fail, Reply, hist, CurIsRunning, RanIsOver,
                TypeOK, BackendOK, WindowOK, Call
  <2>8. CASE PeerLost \/ Tick \/ UNCHANGED vars
    BY <2>8 DEF PeerLost, Tick, vars, main, hist, CurIsRunning, RanIsOver
  <2> QED
    BY <2>1, <2>2, <2>3, <2>4, <2>5, <2>6, <2>7, <2>8 DEF Next, MainStep
<1> QED
  BY <1>1, <1>2, TypeCorrect, PTL DEF Spec

\* Unless a reply was lost, the server runs each command at most once however
\* many calls retry and whatever counter they share.
THEOREM RetryNeverRepeats == Spec => []RetryRunsOnce
<1>1. OnceInv => RetryRunsOnce
  <2> SUFFICES ASSUME OnceInv, NEW c \in Calls, c \notin lossy PROVE execs[c] <= 1
    BY DEF RetryRunsOnce
  <2>1. execs[c] = 0 \/ execs[c] = 1
    BY DEF OnceInv, RanIsOver
  <2> QED
    BY <2>1
<1> QED
  BY <1>1, OnceInductive, PTL

-----------------------------------------------------------------------------
(* One call at a time.  The window's bookkeeping is per window, not per     *)
(* call: eofCount and uiDb are shared, so the next two results are about a  *)
(* window that waits for a reply before it issues the next call.            *)

OneCall == \A c, d \in Calls : c = d

\* The shared counter is at least the number of repetitions of the call.
CountsRetries == \A c \in Calls : tries[c] <= eofCount

\* A window with one call outstanding repeats it at most MaxRetry + 1 times.
THEOREM RetriesAreBounded ==
  ASSUME OneCall PROVE Spec => []RetryBound
<1>1. Init => CountsRetries
  <2> SUFFICES ASSUME Init PROVE CountsRetries
    OBVIOUS
  <2>1. \A c \in Calls : tries[c] = 0 /\ eofCount = 0
    BY DEF Init
  <2>2. 0 <= 0
    OBVIOUS
  <2> QED
    BY <2>1, <2>2, Zenon DEF CountsRetries
<1>2. TypeOK /\ CountsRetries /\ [Next]_vars => CountsRetries'
  <2> SUFFICES ASSUME TypeOK, CountsRetries, [Next]_vars PROVE CountsRetries'
    OBVIOUS
  <2>1. ASSUME NEW c \in Calls, Deliver(c) PROVE CountsRetries'
    <3>1. Calls = {c}
      BY DEF OneCall
    <3>2. tries \in [Calls -> 0..MaxRetry + 2] /\ eofCount \in 0..MaxRetry + 1
      BY DEF TypeOK, WindowOK, HistoryOK
    <3>3. tries[c] <= eofCount
      BY DEF CountsRetries
    <3>4. CASE CanRetry(call[c].result)
      <4>1. /\ eofCount' = eofCount + 1
            /\ tries' = [tries EXCEPT ![c] = IF @ = MaxRetry + 2 THEN @ ELSE @ + 1]
            /\ eofCount <= MaxRetry
        BY <2>1, <3>4 DEF Deliver, CanRetry
      <4>2. tries[c] # MaxRetry + 2
        BY <3>2, <3>3, <4>1, CallAssumption DEF CallAssumption
      <4>3. tries'[c] = tries[c] + 1
        BY <3>2, <4>1, <4>2
      <4> QED
        BY <3>1, <3>2, <3>3, <4>1, <4>3, CallAssumption DEF CountsRetries, CallAssumption
    <3>5. CASE ~CanRetry(call[c].result)
      <4>1. tries'[c] = 0 /\ eofCount' \in {0, eofCount}
        BY <2>1, <3>2, <3>5 DEF Deliver
      <4> QED
        BY <3>1, <3>2, <4>1, CallAssumption DEF CountsRetries, CallAssumption
    <3> QED
      BY <3>4, <3>5
  <2>2. CASE UNCHANGED <<tries, eofCount>>
    BY <2>2 DEF CountsRetries
  <2>3. CASE MainStep \/ PeerLost \/ Tick \/ UNCHANGED vars
    <3>1. UNCHANGED <<tries, eofCount>>
      BY <2>3 DEF MainStep, Lock, Probe, Again, DialFail, DialOk, RunData,
                  RunSelect, PeerLost, Tick, vars, window, hist
    <3> QED
      BY <2>2, <3>1
  <2>4. ASSUME NEW c \in Calls, Issue(c) \/ Start(c) PROVE CountsRetries'
    <3>1. UNCHANGED <<tries, eofCount>>
      BY <2>4 DEF Issue, Start, window, hist
    <3> QED
      BY <2>2, <3>1
  <2> QED
    BY <2>1, <2>3, <2>4 DEF Next
<1>3. TypeOK /\ CountsRetries => RetryBound
  <2> SUFFICES ASSUME TypeOK, CountsRetries, NEW c \in Calls PROVE tries[c] <= MaxRetry + 1
    BY DEF RetryBound
  <2>1. tries[c] \in 0..MaxRetry + 2 /\ eofCount \in 0..MaxRetry + 1 /\ MaxRetry \in Nat
    BY CallAssumption DEF TypeOK, WindowOK, HistoryOK, CallAssumption
  <2>2. tries[c] <= eofCount
    BY DEF CountsRetries
  <2> QED
    BY <2>1, <2>2
<1> QED
  BY <1>1, <1>2, <1>3, TypeCorrect, PTL DEF Spec

\* No SELECT has failed: then the latest one succeeded, and every number of
\* the window that is not ahead of the backend is the backend's.  A picked
\* database is ahead until the call has started.
InStep(c) ==
  CASE call[c].st = "idle"    -> uiDb = baseDb
    [] call[c].st = "queued"  -> \/ call[c].op = "data" /\ uiDb = baseDb /\ call[c].db = baseDb
                                 \/ call[c].op = "pick" /\ uiDb = call[c].db
                                 \/ call[c].op = "type" /\ uiDb = baseDb
    [] call[c].st = "running" -> \/ call[c].op = "type" /\ baseDb = call[c].db
                                 \/ call[c].op # "type" /\ uiDb = baseDb /\ call[c].db = baseDb
    [] OTHER                  -> \/ call[c].op = "type" /\ baseDb = call[c].db /\ call[c].result = "ok"
                                 \/ call[c].op = "pick" /\ uiDb = baseDb /\ call[c].result = "ok"
                                 \/ call[c].op = "data" /\ uiDb = baseDb /\ call[c].db = baseDb

CleanInv == clean => settled /\ \A c \in Calls : InStep(c)

LEMMA CleanFail ==
  ASSUME OneCall, TypeOK, CurIsRunning, CleanInv, pc # "idle",
         NEW result \in {"eof", "err"}, Fail(result), UNCHANGED <<baseDb, uiDb>>
  PROVE  CleanInv'
<1> SUFFICES ASSUME clean' PROVE settled' /\ \A c \in Calls : InStep(c)'
  BY DEF CleanInv
<1>1. clean /\ call[cur].op = "data" /\ settled' = settled
  BY DEF Fail, IsSelect, TypeOK, HistoryOK, CleanInv
<1>2. settled /\ InStep(cur) /\ call[cur].st = "running" /\ cur \in Calls /\ call \in [Calls -> Call]
  BY <1>1 DEF CleanInv, CurIsRunning, TypeOK, BackendOK, WindowOK
<1>3. uiDb = baseDb /\ call[cur].db = baseDb
  BY <1>1, <1>2 DEF InStep
<1>4. call'[cur].st = "replied" /\ call'[cur].op = "data" /\ call'[cur].db = call[cur].db
  BY <1>1, <1>2 DEF Fail, Reply, Call
<1>5. ASSUME NEW c \in Calls PROVE c = cur
  BY <1>2 DEF OneCall
<1>6. ASSUME NEW c \in Calls PROVE InStep(c)'
  <2>1. c = cur
    BY <1>5, <1>6
  <2>2. call'[c].st = "replied" /\ call'[c].op = "data" /\ call'[c].db = call[cur].db
    BY <1>4, <2>1
  <2> QED
    BY <1>3, <2>2 DEF InStep
<1> QED
  BY <1>1, <1>2, <1>6

\* While no SELECT has failed, a data command runs on the database the window
\* showed when the user issued it, across reconnects and EOF retries.
THEOREM RunsOnTheShownDatabase ==
  ASSUME OneCall PROVE Spec => []RunsOnShownDbWhenClean
<1>1. Init => CleanInv
  <2> SUFFICES ASSUME Init PROVE CleanInv
    OBVIOUS
  <2>1. /\ settled = clean /\ uiDb = baseDb
        /\ \A c \in Calls : call[c].st = "idle"
    BY DEF Init, NoCall
  <2> QED
    BY <2>1 DEF CleanInv, InStep
<1>2. TypeOK /\ DbInv /\ CleanInv /\ [Next]_vars => CleanInv'
  <2> SUFFICES ASSUME TypeOK, CurIsRunning, CleanInv, [Next]_vars PROVE CleanInv'
    BY DEF DbInv
  <2>0. call \in [Calls -> Call] /\ cur \in Calls
    BY DEF TypeOK, BackendOK, WindowOK
  <2>1. ASSUME NEW c \in Calls, Issue(c) PROVE CleanInv'
    <3> SUFFICES ASSUME clean', NEW d \in Calls PROVE settled' /\ InStep(d)'
      BY DEF CleanInv
    <3>1. d = c
      BY DEF OneCall
    <3>2. call[c].st = "idle" /\ UNCHANGED <<baseDb, settled, clean>>
      BY <2>1 DEF Issue
    <3>3. settled /\ uiDb = baseDb
      BY <3>2 DEF CleanInv, InStep
    <3>4. PICK op \in UserOps, n \in Dbs :
            /\ op = "data" => n = uiDb
            /\ call'[c] = [st |-> "queued", op |-> op, db |-> n, result |-> "ok"]
            /\ uiDb' = IF op = "pick" THEN n ELSE uiDb
      BY <2>0, <2>1 DEF Issue
    <3>5. op \in {"data", "pick", "type"}
      BY CallAssumption DEF CallAssumption
    <3> QED
      BY <3>1, <3>2, <3>3, <3>4, <3>5 DEF InStep
  <2>2. ASSUME NEW c \in Calls, Deliver(c) PROVE CleanInv'
    <3> SUFFICES ASSUME clean', NEW d \in Calls PROVE settled' /\ InStep(d)'
      BY DEF CleanInv
    <3>1. d = c
      BY DEF OneCall
    <3>2. call[c].st = "replied" /\ UNCHANGED <<baseDb, settled, clean>>
      BY <2>2 DEF Deliver
    <3>3. settled /\ InStep(c)
      BY <3>2 DEF CleanInv
    <3>4. CASE CanRetry(call[c].result)
      <4>1. call[c].result = "eof" /\ uiDb' = uiDb
        BY <2>2, <3>4 DEF Deliver, CanRetry
      <4>2. call[c].op = "data" /\ uiDb = baseDb /\ call[c].db = baseDb
        BY <3>2, <3>3, <4>1 DEF InStep
      <4>3. call'[c].st = "queued" /\ call'[c].op = call[c].op /\ call'[c].db = call[c].db
        BY <2>0, <2>2, <3>4 DEF Deliver, Call
      <4> QED
        BY <3>1, <3>2, <3>3, <4>1, <4>2, <4>3 DEF InStep
    <3>5. CASE ~CanRetry(call[c].result)
      <4>1. call'[c].st = "idle"
        BY <2>0, <2>2, <3>5 DEF Deliver, NoCall
      <4>2. uiDb' = IF call[c].op = "type" /\ call[c].result = "ok" THEN call[c].db ELSE uiDb
        BY <2>2, <3>5 DEF Deliver
      <4>3. uiDb' = baseDb
        BY <3>2, <3>3, <4>2 DEF InStep
      <4> QED
        BY <3>1, <3>2, <3>3, <4>1, <4>3 DEF InStep
    <3> QED
      BY <3>4, <3>5
  <2>3. ASSUME NEW c \in Calls, Start(c) PROVE CleanInv'
    <3> SUFFICES ASSUME clean', NEW d \in Calls PROVE settled' /\ InStep(d)'
      BY DEF CleanInv
    <3>1. d = c
      BY DEF OneCall
    <3>2. call[c].st = "queued" /\ UNCHANGED <<uiDb, settled, clean>>
      BY <2>3 DEF Start, window
    <3>3. settled /\ InStep(c)
      BY <3>2 DEF CleanInv
    <3>4. CASE call[c].op # "data" /\ baseDb = call[c].db
      <4>1. /\ call'[c].st = "replied" /\ call'[c].result = "ok" /\ baseDb' = baseDb
            /\ call'[c].op = call[c].op /\ call'[c].db = call[c].db
        BY <2>0, <2>3, <3>4 DEF Start, Call
      <4> QED
        BY <3>1, <3>2, <3>3, <3>4, <4>1 DEF InStep
    <3>5. CASE ~(call[c].op # "data" /\ baseDb = call[c].db)
      <4>1. /\ call'[c].st = "running"
            /\ call'[c].op = call[c].op /\ call'[c].db = call[c].db
            /\ baseDb' = IF call[c].op = "data" THEN baseDb ELSE call[c].db
        BY <2>0, <2>3, <3>5 DEF Start, Call
      <4> QED
        BY <3>1, <3>2, <3>3, <4>1 DEF InStep
    <3> QED
      BY <3>4, <3>5
  <2>4. CASE Again \/ DialFail
    <3>1. pc # "idle" /\ UNCHANGED <<baseDb, uiDb>>
      BY <2>4 DEF Again, DialFail, window
    <3>2. CASE \E result \in {"eof", "err"} : Fail(result)
      BY <3>1, <3>2, CleanFail
    <3>3. CASE UNCHANGED <<call, settled, clean>>
      BY <3>1, <3>3 DEF CleanInv, InStep
    <3> QED
      BY <2>4, <3>2, <3>3 DEF Again, DialFail
  <2>5. CASE DialOk
    <3> SUFFICES ASSUME clean' PROVE settled' /\ \A d \in Calls : InStep(d)'
      BY DEF CleanInv
    <3> SUFFICES ASSUME NEW d \in Calls PROVE settled' /\ InStep(d)'
      BY CallAssumption DEF CallAssumption
    <3>1. PICK ok \in BOOLEAN : settled' = ok /\ clean' = (clean /\ ok)
      BY <2>5 DEF DialOk
    <3>2. UNCHANGED <<baseDb, uiDb, call>>
      BY <2>5 DEF DialOk, window
    <3>3. InStep(d)
      BY <3>1 DEF CleanInv
    <3> QED
      BY <3>1, <3>2, <3>3 DEF InStep
  <2>6. CASE RunData
    <3> SUFFICES ASSUME clean' PROVE settled' /\ \A d \in Calls : InStep(d)'
      BY DEF CleanInv
    <3> SUFFICES ASSUME NEW d \in Calls PROVE settled' /\ InStep(d)'
      BY CallAssumption DEF CallAssumption
    <3>1. PICK result \in {"ok", "eof", "err"} : Reply(result)
      BY <2>6 DEF RunData
    <3>2. pc = "run" /\ call[cur].op = "data" /\ UNCHANGED <<baseDb, uiDb, settled, clean>>
      BY <2>6 DEF RunData, IsSelect, window
    <3>3. d = cur /\ call[d].st = "running" /\ settled /\ InStep(d)
      BY <2>0, <3>2 DEF OneCall, CleanInv, CurIsRunning
    <3>4. call'[d].st = "replied" /\ call'[d].op = call[d].op /\ call'[d].db = call[d].db
      BY <2>0, <3>1, <3>3 DEF Reply, Call
    <3> QED
      BY <3>2, <3>3, <3>4 DEF InStep
  <2>7. CASE RunSelect
    <3> SUFFICES ASSUME clean' PROVE settled' /\ \A d \in Calls : InStep(d)'
      BY DEF CleanInv
    <3> SUFFICES ASSUME NEW d \in Calls PROVE settled' /\ InStep(d)'
      BY CallAssumption DEF CallAssumption
    <3>1. pc = "run" /\ call[cur].op # "data" /\ UNCHANGED <<baseDb, uiDb>>
      BY <2>7 DEF RunSelect, IsSelect, window
    <3>2. CASE \E result \in {"eof", "err"} : Fail(result)
      BY <3>1, <3>2, CleanFail DEF CleanInv
    <3>3. CASE Reply("ok") /\ settled' = TRUE /\ UNCHANGED clean
      <4>1. d = cur /\ call[d].st = "running" /\ InStep(d)
        BY <2>0, <3>1, <3>3 DEF OneCall, CleanInv, CurIsRunning
      <4>2. /\ call'[d].st = "replied" /\ call'[d].result = "ok"
            /\ call'[d].op = call[d].op /\ call'[d].db = call[d].db
        BY <2>0, <3>3, <4>1 DEF Reply, Call
      <4>3. call[d].op \in {"pick", "type"}
        BY <2>0, <3>1, <4>1 DEF Call
      <4> QED
        BY <3>1, <3>3, <4>1, <4>2, <4>3 DEF InStep
    <3> QED
      BY <2>7, <3>2, <3>3 DEF RunSelect
  <2>8. CASE Lock \/ Probe \/ PeerLost \/ Tick \/ UNCHANGED vars
    <3>1. UNCHANGED <<baseDb, uiDb, call, settled, clean>>
      BY <2>8 DEF Lock, Probe, PeerLost, Tick, vars, window
    <3> QED
      BY <3>1 DEF CleanInv, InStep
  <2> QED
    BY <2>1, <2>2, <2>3, <2>4, <2>5, <2>6, <2>7, <2>8 DEF Next, MainStep
<1>3. TypeOK /\ DbInv /\ CleanInv => RunsOnShownDbWhenClean
  <2> SUFFICES ASSUME TypeOK, DbInv, CleanInv, clean, pc = "run", ~IsSelect
               PROVE conn.db = call[cur].db
    BY DEF RunsOnShownDbWhenClean
  <2>1. conn.db = baseDb
    BY DEF CleanInv, DbInv, SessionDbAgrees, SelectRunning
  <2>2. call[cur].st = "running" /\ cur \in Calls
    BY DEF DbInv, CurIsRunning, TypeOK, BackendOK
  <2>3. InStep(cur) /\ call[cur].op = "data"
    BY <2>2 DEF CleanInv, IsSelect
  <2> QED
    BY <2>1, <2>2, <2>3 DEF InStep
<1> QED
  BY <1>1, <1>2, <1>3, TypeCorrect, DatabaseInductive, PTL DEF Spec

-----------------------------------------------------------------------------
(* The promise.  Every step of MeSingle is a step of Session, or none: what  *)
(* the thread does between taking a call and answering it does not show, and *)
(* neither does a reconnect that finds the database where it was.            *)

\* Session's `ask` and `ran`.
SessionAsk == [c \in Calls |-> AskOf(c)]
SessionRan == {c \in Calls : execs[c] > 0}

\* A step that shows nothing.
LEMMA NothingShows ==
  ASSUME UNCHANGED <<call, execs, lossy, settled>>, conn'.db = conn.db
  PROVE  [Promise!Next]_Promise!vars
<1>1. SessionAsk' = SessionAsk /\ SessionRan' = SessionRan
  BY DEF SessionAsk, SessionRan, AskOf
<1> QED
  BY <1>1 DEF Promise!vars, SessionAsk, SessionRan

\* A call that the window waits for is answered.
LEMMA CallAnswered ==
  ASSUME TypeOK, NEW c \in Calls, NEW r \in {"ok", "eof", "err"},
         call[c].st \in {"queued", "running"},
         call' = [call EXCEPT ![c].st = "replied", ![c].result = r]
  PROVE  /\ call[c].op # "data" => Promise!Asked(c, TRUE)
         /\ call[c].op = "data" => Promise!Asked(c, FALSE)
         /\ Promise!Answer(c, r)
<1>1. SessionAsk[c].st = "asked" /\ SessionAsk[c].select = (call[c].op # "data")
  BY DEF SessionAsk, AskOf
<1>2. AskOf(c)' = [AskOf(c) EXCEPT !.st = r]
  BY DEF AskOf, TypeOK, WindowOK, Call
<1>3. \A d \in Calls \ {c} : AskOf(d)' = AskOf(d)
  BY DEF AskOf, TypeOK, WindowOK, Call
<1>4. SessionAsk' = [SessionAsk EXCEPT ![c].st = r]
  BY <1>2, <1>3 DEF SessionAsk
<1> QED
  BY <1>1, <1>4 DEF Promise!Asked, Promise!Answer, SessionAsk

\* The call the thread executes is answered.
LEMMA ReplyAnswers ==
  ASSUME TypeOK, CurIsRunning, pc # "idle", NEW r \in {"ok", "eof", "err"}, Reply(r)
  PROVE  /\ IsSelect => Promise!Asked(cur, TRUE)
         /\ ~IsSelect => Promise!Asked(cur, FALSE)
         /\ Promise!Answer(cur, r)
<1>1. cur \in Calls /\ call[cur].st = "running"
  BY DEF TypeOK, BackendOK, CurIsRunning
<1> QED
  BY <1>1, CallAnswered DEF Reply, IsSelect

LEMMA IssueAsks ==
  ASSUME TypeOK, NEW c \in Calls, Issue(c)
  PROVE  [Promise!Next]_Promise!vars
<1>1. PICK op \in UserOps, d \in Dbs :
        call' = [call EXCEPT ![c] = [st |-> "queued", op |-> op, db |-> d, result |-> "ok"]]
  BY DEF Issue
<1>2. call[c].st = "idle" /\ UNCHANGED <<execs, lossy, settled, conn>>
  BY DEF Issue, hist
<1>3. AskOf(c)' = [st |-> "asked", select |-> (op # "data"), db |-> d]
  BY <1>1 DEF AskOf, TypeOK, WindowOK
<1>4. \A e \in Calls \ {c} : AskOf(e)' = AskOf(e)
  BY <1>1 DEF AskOf, TypeOK, WindowOK
<1>5. SessionAsk' = [SessionAsk EXCEPT ![c] = [st |-> "asked", select |-> (op # "data"), db |-> d]]
  BY <1>3, <1>4 DEF SessionAsk
<1>6. SessionAsk[c].st = "none" /\ SessionRan' = SessionRan
  BY <1>2 DEF SessionAsk, AskOf, SessionRan
<1>7. Promise!Ask(c, op # "data", d)
  BY <1>2, <1>5, <1>6 DEF Promise!Ask, SessionAsk, SessionRan
<1> QED
  BY <1>7 DEF Promise!Next

LEMMA DeliverReturns ==
  ASSUME TypeOK, NEW c \in Calls, Deliver(c)
  PROVE  [Promise!Next]_Promise!vars
<1>1. call[c].st = "replied" /\ UNCHANGED <<settled, conn>>
  BY DEF Deliver
<1>2. SessionAsk[c].st = call[c].result /\ call[c].result \in {"ok", "eof", "err"}
  BY <1>1 DEF SessionAsk, AskOf, TypeOK, WindowOK, Call
<1>3. CASE CanRetry(call[c].result)
  <2>1. call' = [call EXCEPT ![c].st = "queued"] /\ UNCHANGED <<execs, lossy>>
    BY <1>3 DEF Deliver
  <2>2. call[c].result = "eof"
    BY <1>3 DEF CanRetry
  <2>3. AskOf(c)' = [AskOf(c) EXCEPT !.st = "asked"]
    BY <2>1 DEF AskOf, TypeOK, WindowOK, Call
  <2>4. \A e \in Calls \ {c} : AskOf(e)' = AskOf(e)
    BY <2>1 DEF AskOf, TypeOK, WindowOK, Call
  <2>5. SessionAsk' = [SessionAsk EXCEPT ![c].st = "asked"] /\ SessionRan' = SessionRan
    BY <2>1, <2>3, <2>4 DEF SessionAsk, SessionRan
  <2>6. Promise!Repeat(c)
    BY <1>1, <1>2, <2>1, <2>2, <2>5 DEF Promise!Repeat, Promise!Answer, SessionAsk, SessionRan
  <2> QED
    BY <2>6 DEF Promise!Next
<1>4. CASE ~CanRetry(call[c].result)
  <2>1. /\ call' = [call EXCEPT ![c] = NoCall]
        /\ execs' = [execs EXCEPT ![c] = 0] /\ lossy' = lossy \ {c}
    BY <1>4 DEF Deliver
  <2>2. AskOf(c)' = [st |-> "none", select |-> FALSE, db |-> 0]
    BY <2>1 DEF AskOf, TypeOK, WindowOK, NoCall
  <2>3. \A e \in Calls \ {c} : AskOf(e)' = AskOf(e)
    BY <2>1 DEF AskOf, TypeOK, WindowOK
  <2>4. SessionAsk' = [SessionAsk EXCEPT ![c] = [st |-> "none", select |-> FALSE, db |-> 0]]
    BY <2>2, <2>3 DEF SessionAsk
  <2>5. SessionRan' = SessionRan \ {c}
    BY <2>1 DEF SessionRan, TypeOK, HistoryOK
  <2>6. Promise!Return(c)
    BY <1>1, <1>2, <2>1, <2>4, <2>5
    DEF Promise!Return, Promise!None, Promise!Answers, SessionAsk, SessionRan
  <2> QED
    BY <2>6 DEF Promise!Next
<1> QED
  BY <1>3, <1>4

\* A SELECT of the number MeBase.db already is, is answered from memory; every
\* other call is only taken.
LEMMA StartAnswers ==
  ASSUME TypeOK, DbInv, NEW c \in Calls, Start(c)
  PROVE  [Promise!Next]_Promise!vars
<1>1. pc = "idle" /\ call[c].st = "queued" /\ UNCHANGED <<execs, lossy, settled, conn>>
  BY DEF Start, hist
<1>2. CASE call[c].op # "data" /\ baseDb = call[c].db
  <2>1. call' = [call EXCEPT ![c].st = "replied", ![c].result = "ok"]
    BY <1>2 DEF Start
  <2>2. Promise!Asked(c, TRUE) /\ Promise!Answer(c, "ok")
    BY <1>1, <1>2, <2>1, CallAnswered
  <2>3. settled => conn.db = SessionAsk[c].db
    BY <1>1, <1>2 DEF DbInv, SessionDbAgrees, SelectRunning, SessionAsk, AskOf
  <2>4. SessionRan' = SessionRan
    BY <1>1 DEF SessionRan
  <2>5. Promise!AlreadyThere(c)
    BY <1>1, <2>2, <2>3, <2>4 DEF Promise!AlreadyThere, SessionAsk, SessionRan
  <2> QED
    BY <2>5 DEF Promise!Next
<1>3. CASE ~(call[c].op # "data" /\ baseDb = call[c].db)
  <2>1. call' = [call EXCEPT ![c].st = "running"]
    BY <1>3 DEF Start
  <2>2. \A d \in Calls : AskOf(d)' = AskOf(d)
    BY <1>1, <2>1 DEF AskOf, TypeOK, WindowOK, Call
  <2>3. SessionAsk' = SessionAsk /\ SessionRan' = SessionRan
    BY <1>1, <2>2 DEF SessionAsk, SessionRan
  <2> QED
    BY <1>1, <2>3 DEF Promise!vars, SessionAsk, SessionRan
<1> QED
  BY <1>2, <1>3

\* No connection, or a SELECT that went wrong: the session may have moved to
\* the number asked for.
LEMMA FailRefuses ==
  ASSUME TypeOK, CurIsRunning, pc # "idle", NEW r \in {"eof", "err"}, Fail(r),
         UNCHANGED <<execs, lossy>>,
         \/ conn'.db = conn.db
         \/ IsSelect /\ conn'.db = call[cur].db
  PROVE  [Promise!Next]_Promise!vars
<1>1. cur \in Calls /\ SessionAsk[cur].db = call[cur].db
  BY DEF TypeOK, BackendOK, SessionAsk, AskOf
<1>2. /\ IsSelect => Promise!Asked(cur, TRUE)
      /\ ~IsSelect => Promise!Asked(cur, FALSE)
      /\ Promise!Answer(cur, r)
  BY ReplyAnswers DEF Fail
<1>3. settled' = (settled /\ ~IsSelect) /\ SessionRan' = SessionRan
  BY DEF Fail, SessionRan
<1>4. CASE IsSelect
  <2>1. Promise!Asked(cur, TRUE) /\ conn'.db \in {conn.db, SessionAsk[cur].db}
    BY <1>1, <1>2, <1>4
  <2>2. Promise!SelectFails(cur, r)
    BY <1>2, <1>3, <1>4, <2>1 DEF Promise!SelectFails, SessionAsk, SessionRan
  <2> QED
    BY <1>1, <2>2 DEF Promise!Next, Promise!Answers
<1>5. CASE ~IsSelect
  <2>1. Promise!Asked(cur, FALSE)
    BY <1>2, <1>5
  <2>2. settled' = settled
    BY <1>3, <1>5 DEF TypeOK, HistoryOK
  <2>3. Promise!Refuse(cur, r)
    BY <1>2, <1>3, <1>5, <2>1, <2>2 DEF Promise!Refuse, SessionAsk, SessionRan
  <2> QED
    BY <1>1, <2>3 DEF Promise!Next, Promise!Answers
<1> QED
  BY <1>4, <1>5

\* A reconnect asks for the number of MeBase.db: the session's own when that is
\* settled, or the one of the SELECT in progress.
LEMMA DialReopens ==
  ASSUME TypeOK, DbInv, DialOk
  PROVE  [Promise!Next]_Promise!vars
<1>1. PICK ok \in BOOLEAN, alive \in BOOLEAN, got \in {0, Selected(WantedDb)} :
        /\ ok => got = baseDb
        /\ conn' = IF alive THEN NewConn(baseDb, got)
                   ELSE [NewConn(baseDb, got) EXCEPT !.open = FALSE, !.peer = "closed"]
        /\ settled' = ok
  BY DEF DialOk, WantedDb
<1>2. pc = "dial" /\ UNCHANGED <<call, execs, lossy>>
  BY DEF DialOk, hist
<1>3. conn'.db = got /\ conn'.db \in Dbs
  BY <1>1, DialTyped DEF NewConn, Conn
<1>4. SessionAsk' = SessionAsk /\ SessionRan' = SessionRan
  BY <1>2 DEF SessionAsk, SessionRan, AskOf
<1>5. settled /\ settled' =>
        \/ conn'.db = conn.db
        \/ \E c \in Calls : Promise!Asked(c, TRUE) /\ conn'.db = SessionAsk[c].db
  <2> SUFFICES ASSUME settled, settled', conn'.db # conn.db
               PROVE  \E c \in Calls : Promise!Asked(c, TRUE) /\ conn'.db = SessionAsk[c].db
    OBVIOUS
  <2>1. conn'.db = baseDb
    BY <1>1, <1>3
  <2>2. SelectRunning
    BY <2>1 DEF DbInv, SessionDbAgrees
  <2>3. cur \in Calls /\ baseDb = call[cur].db /\ call[cur].st = "running" /\ call[cur].op # "data"
    BY <1>2, <2>2 DEF DbInv, SelectStored, CurIsRunning, SelectRunning, IsSelect, TypeOK, BackendOK
  <2>4. Promise!Asked(cur, TRUE) /\ SessionAsk[cur].db = baseDb
    BY <2>3 DEF Promise!Asked, SessionAsk, AskOf
  <2> QED
    BY <2>1, <2>3, <2>4
<1>6. Promise!Reopen
  BY <1>1, <1>2, <1>3, <1>4, <1>5 DEF Promise!Reopen, SessionAsk, SessionRan
<1> QED
  BY <1>6 DEF Promise!Next

\* The server runs a data command only the first time, or after a lost reply.
LEMMA RunExecutes ==
  ASSUME TypeOK, OnceInv, RunData
  PROVE  [Promise!Next]_Promise!vars
<1>1. /\ pc = "run" /\ ~IsSelect /\ cur \in Calls /\ settled' = settled
      /\ cur \in lossy \/ execs[cur] = 0
  BY DEF RunData, OnceInv, CurIsRunning, RanIsOver, TypeOK, BackendOK
<1>2. conn'.db = conn.db
  BY DEF RunData, TypeOK, BackendOK, Conn
<1>3. cur \notin SessionRan \/ cur \in lossy
  BY <1>1 DEF SessionRan
<1>4. ASSUME NEW r \in {"ok", "eof", "err"}, Reply(r), Ran,
             lossy' = IF r = "eof" THEN lossy \cup {cur} ELSE lossy
      PROVE  [Promise!Next]_Promise!vars
  <2>1. SessionRan' = SessionRan \cup {cur}
    BY <1>1, <1>4 DEF SessionRan, Ran, TypeOK, HistoryOK
  <2>2. Promise!Asked(cur, FALSE) /\ Promise!Answer(cur, r)
    BY <1>1, <1>4, ReplyAnswers DEF OnceInv
  <2>3. Promise!Execute(cur, r)
    BY <1>1, <1>2, <1>3, <1>4, <2>1, <2>2 DEF Promise!Execute, SessionAsk, SessionRan
  <2> QED
    BY <1>1, <2>3 DEF Promise!Next, Promise!Answers
<1>5. ASSUME NEW r \in {"eof", "err"}, Reply(r), UNCHANGED <<execs, lossy>>
      PROVE  [Promise!Next]_Promise!vars
  <2>1. SessionRan' = SessionRan
    BY <1>5 DEF SessionRan
  <2>2. Promise!Asked(cur, FALSE) /\ Promise!Answer(cur, r)
    BY <1>1, <1>5, ReplyAnswers DEF OnceInv
  <2>3. Promise!Refuse(cur, r)
    BY <1>1, <1>2, <1>5, <2>1, <2>2 DEF Promise!Refuse, SessionAsk, SessionRan
  <2> QED
    BY <1>1, <2>3 DEF Promise!Next, Promise!Answers
<1>6. \/ Reply("ok") /\ Ran /\ lossy' = lossy
      \/ Reply("eof") /\ Ran /\ lossy' = lossy \cup {cur}
      \/ Reply("err") /\ Ran /\ lossy' = lossy
      \/ (Reply("eof") \/ Reply("err")) /\ UNCHANGED <<execs, lossy>>
  BY DEF RunData
<1> QED
  BY <1>4, <1>5, <1>6

LEMMA SelectSelects ==
  ASSUME TypeOK, CurIsRunning, RunSelect
  PROVE  [Promise!Next]_Promise!vars
<1>1. pc = "run" /\ IsSelect /\ cur \in Calls /\ UNCHANGED <<execs, lossy>>
  BY DEF RunSelect, hist, TypeOK, BackendOK
<1>2. CASE /\ Reply("ok") /\ settled' = TRUE
           /\ conn' = [conn EXCEPT !.db = call[cur].db, !.label = call[cur].db]
  <2>1. conn'.db = SessionAsk[cur].db /\ SessionRan' = SessionRan
    BY <1>1, <1>2 DEF SessionAsk, AskOf, SessionRan, TypeOK, BackendOK, Conn
  <2>2. Promise!Asked(cur, TRUE) /\ Promise!Answer(cur, "ok")
    BY <1>1, <1>2, ReplyAnswers
  <2>3. Promise!Select(cur)
    BY <1>1, <1>2, <2>1, <2>2 DEF Promise!Select, SessionAsk, SessionRan
  <2> QED
    BY <1>1, <2>3 DEF Promise!Next
<1>3. CASE /\ Fail("eof") \/ Fail("err")
           /\ conn'.db \in {conn.db, call[cur].db}
  BY <1>1, <1>3, FailRefuses
<1>4. conn'.db \in {conn.db, call[cur].db}
  BY DEF RunSelect, TypeOK, BackendOK, Conn
<1> QED
  BY <1>2, <1>3, <1>4 DEF RunSelect

LEMMA StepKeeps ==
  ASSUME TypeOK, DbInv, OnceInv, [Next]_vars
  PROVE  [Promise!Next]_Promise!vars
<1>0. CurIsRunning
  BY DEF DbInv
<1>1. CASE \E c \in Calls : Issue(c) \/ Deliver(c) \/ Start(c)
  BY <1>1, IssueAsks, DeliverReturns, StartAnswers
<1>2. CASE Lock \/ Probe \/ PeerLost \/ Tick \/ UNCHANGED vars
  <2>1. UNCHANGED <<call, execs, lossy, settled>> /\ conn'.db = conn.db
    BY <1>2 DEF Lock, Probe, PeerLost, Tick, vars, hist, TypeOK, BackendOK, Conn
  <2> QED
    BY <2>1, NothingShows
<1>3. CASE Again \/ DialFail
  <2>1. pc # "idle" /\ UNCHANGED <<conn, execs, lossy>>
    BY <1>3 DEF Again, DialFail, hist
  <2>2. \/ UNCHANGED <<call, settled>>
        \/ \E r \in {"eof", "err"} : Fail(r)
    BY <1>3 DEF Again, DialFail
  <2> QED
    BY <1>0, <2>1, <2>2, NothingShows, FailRefuses
<1>4. CASE DialOk \/ RunData \/ RunSelect
  BY <1>0, <1>4, DialReopens, RunExecutes, SelectSelects
<1> QED
  BY <1>1, <1>2, <1>3, <1>4 DEF Next, MainStep

\* The connection keeps its promise, for any number of calls, databases and
\* limits: get_checked_conn, select_db, reconnect and invokeSpectaCommand are
\* one session in which a command runs once unless its answer was lost, an "ok"
\* is true, and a database that was selected stays selected.
THEOREM PromiseIsKept == Spec => KeepsPromise
<1>1. Init => Promise!Init
  <2> SUFFICES ASSUME Init PROVE Promise!Init
    OBVIOUS
  <2>1. conn.db \in Dbs /\ settled \in BOOLEAN
    BY DbAssumption DEF DbAssumption, Init, NewConn, Selected
  <2>2. ASSUME NEW c \in Calls
        PROVE  AskOf(c) = [st |-> "none", select |-> FALSE, db |-> 0]
    <3>1. call[c] = NoCall
      BY DEF Init
    <3>2. call[c].st = "idle" /\ (call[c].op # "data") = FALSE /\ call[c].db = 0
      BY <3>1 DEF NoCall
    <3> QED
      BY <3>2 DEF AskOf
  <2>3. SessionAsk = [c \in Calls |-> [st |-> "none", select |-> FALSE, db |-> 0]]
    BY <2>2 DEF SessionAsk
  <2>4. SessionRan = {} /\ lossy = {}
    BY DEF Init, SessionRan
  <2> QED
    BY <2>1, <2>3, <2>4 DEF Promise!Init, Promise!None, SessionAsk, SessionRan
<1>2. TypeOK /\ DbInv /\ OnceInv /\ [Next]_vars => [Promise!Next]_Promise!vars
  BY StepKeeps
<1> QED
  BY <1>1, <1>2, TypeCorrect, DatabaseInductive, OnceInductive, PTL
  DEF Spec, KeepsPromise, Promise!Spec
=============================================================================
