----------------------------- MODULE JobsProofs -----------------------------
(***************************************************************************)
(* Proofs about Jobs: for any windows, threads, clients and job lengths a  *)
(* client has at most one job, and only a living job refuses another.      *)
(***************************************************************************)
EXTENDS Jobs, TLAPS

\* A list that is not mounted has no dialog that waits for its command.
Dialogs == \A w \in Windows : win[w].view # "open" => win[w].batch \notin {"asked", "ok"}

\* A job has a window and a client that was made, and as long as that client is
\* in the table its flag is up.
Holders == \A t \in Threads : Live(t) =>
  /\ thr[t].by \in Windows
  /\ thr[t].client \in 1..made
  /\ thr[t].client = table => running[table]

\* What disconnect has taken out is not in the table again.
Gone == \A c \in dropping : c # table /\ c <= made

Types == TypeOK /\ Dialogs
Table == Holders /\ Gone /\ OneJob /\ RefusedOnlyByJob /\ CutShort
IInv == Types /\ Table

-----------------------------------------------------------------------------
\* The initial state.
LEMMA InitHolds == Init => IInv
<1> SUFFICES ASSUME Init PROVE IInv
  OBVIOUS
<1>1. Types
  BY JobsAssumption DEF Init, Types, TypeOK, Dialogs, Closed, Free, Clients, Wins
<1>2. Table
  BY DEF Init, Table, Holders, Gone, OneJob, RefusedOnlyByJob, CutShort, Live, Free, Clients
<1> QED
  BY <1>1, <1>2 DEF IInv

\* A list that goes takes its listener and its dialogs along.
LEMMA UnmountedTyped ==
  ASSUME NEW r \in Wins, NEW v \in {"closed", "open"}
  PROVE  /\ Unmounted(r, v) \in Wins
         /\ Unmounted(r, v).view = v
         /\ Unmounted(r, v).ask # "cur" /\ "cur" \notin Unmounted(r, v).lst
         /\ Unmounted(r, v).batch \notin {"asked", "ok"}
  BY DEF Unmounted, Wins

\* A window's own step keeps the types when its new state is one.
LEMMA WindowTyped ==
  ASSUME Types, NEW w \in Windows, NEW r \in Wins, Window(w, r),
         r.view # "open" => /\ r.ask # "cur" /\ "cur" \notin r.lst
                            /\ r.batch \notin {"asked", "ok"}
  PROVE  Types'
<1>1. win' \in [Windows -> Wins] /\ \A v \in Windows : win'[v] = IF v = w THEN r ELSE win[v]
  BY DEF Types, TypeOK, Window
<1>2. TypeOK'
  BY <1>1 DEF Types, TypeOK, Window, Clients
<1>3. Dialogs'
  BY <1>1 DEF Types, Dialogs
<1> QED
  BY <1>2, <1>3 DEF Types

\* What a user does, and what arrives in a window, keeps the types.
LEMMA UserTyped ==
  ASSUME IInv, NEW w \in Windows, UserStep(w)
  PROVE  Types'
<1> USE DEF IInv, Types
<1>0. win[w] \in Wins /\ Dialogs
  BY DEF TypeOK
<1>1. CASE Open(w)
  <2> DEFINE r == [win[w] EXCEPT !.view = "opening", !.conn = "connect"]
  <2>1. r \in Wins /\ r.ask = win[w].ask /\ r.lst = win[w].lst /\ r.batch = win[w].batch
    BY <1>0 DEF Wins
  <2>2. win[w].view # "open" /\ Window(w, r)
    BY <1>1 DEF Open
  <2> QED
    BY <2>1, <2>2, WindowTyped DEF TypeOK, Dialogs
<1>2. CASE Refresh(w)
  <2> DEFINE r == [win[w] EXCEPT !.conn = "refresh"]
  <2>1. r \in Wins /\ r.view = win[w].view
    BY <1>0 DEF Wins
  <2>2. win[w].view = "open" /\ Window(w, r)
    BY <1>2 DEF Refresh
  <2> QED
    BY <2>1, <2>2, WindowTyped
<1>3. CASE Close(w)
  <2> DEFINE u == Unmounted(win[w], "closed")
             r == [u EXCEPT !.conn = "disconnect"]
  <2>1. u \in Wins /\ u.ask # "cur" /\ "cur" \notin u.lst /\ u.batch \notin {"asked", "ok"}
    BY <1>0, UnmountedTyped
  <2>2. r \in Wins /\ r.ask = u.ask /\ r.lst = u.lst /\ r.batch = u.batch
    BY <2>1 DEF Wins
  <2>3. Window(w, r)
    BY <1>3 DEF Close
  <2> QED
    BY <2>1, <2>2, <2>3, WindowTyped
<1>4. CASE Remount(w)
  <2> DEFINE r == Unmounted(win[w], "open")
  <2>1. r \in Wins /\ r.view = "open"
    BY <1>0, UnmountedTyped
  <2>2. Window(w, r)
    BY <1>4 DEF Remount
  <2> QED
    BY <2>1, <2>2, WindowTyped
<1>5. CASE Submit(w)
  <2> DEFINE r == [win[w] EXCEPT !.batch = "asked"]
  <2>1. r \in Wins /\ r.view = win[w].view
    BY <1>0 DEF Wins
  <2>2. win[w].view = "open" /\ Window(w, r)
    BY <1>5 DEF Submit
  <2> QED
    BY <2>1, <2>2, WindowTyped
<1> QED
  BY <1>1, <1>2, <1>3, <1>4, <1>5 DEF UserStep

LEMMA ArrivesTyped ==
  ASSUME IInv, NEW w \in Windows, Arrives(w)
  PROVE  Types'
<1> USE DEF IInv, Types
<1>0. win[w] \in Wins /\ Dialogs
  BY DEF TypeOK
<1>1. CASE Mount(w)
  <2> DEFINE u == Unmounted(win[w], "open")
             r == [u EXCEPT !.conn = "no"]
  <2>1. u \in Wins /\ u.view = "open"
    BY <1>0, UnmountedTyped
  <2>2. r \in Wins /\ r.view = u.view
    BY <2>1 DEF Wins
  <2>3. Window(w, r)
    BY <1>1 DEF Mount
  <2> QED
    BY <2>1, <2>2, <2>3, WindowTyped
<1>2. CASE Started(w)
  <2> DEFINE r == [win[w] EXCEPT !.batch = "no", !.shown = TRUE, !.ask = "cur"]
  <2>1. r \in Wins /\ r.view = win[w].view
    BY <1>0 DEF Wins
  <2>2. win[w].view = "open" /\ Window(w, r)
    BY <1>0, <1>2 DEF Started, Dialogs
  <2> QED
    BY <2>1, <2>2, WindowTyped
<1>3. CASE Listening(w)
  <2> DEFINE l == win[w].lst \cup {win[w].ask} \cup
                  IF win[w].ask = "cur" /\ "cur" \in win[w].lst THEN {"shadow"} ELSE {}
             r == [win[w] EXCEPT !.ask = "no", !.lst = l]
  <2>1. l \in SUBSET {"cur", "own", "shadow"}
    BY <1>0, <1>3 DEF Listening, Wins
  <2>2. r \in Wins /\ r.view = win[w].view /\ r.ask = "no" /\ r.lst = l /\ r.batch = win[w].batch
    BY <1>0, <2>1 DEF Wins
  <2>3. Window(w, r)
    BY <1>0, <1>3 DEF Listening, Wins
  <2>4. win[w].view # "open" => "cur" \notin l
    BY DEF TypeOK
  <2> QED
    BY <1>0, <2>2, <2>3, <2>4, WindowTyped DEF Dialogs
<1>4. CASE Hear(w)
  <2>1. inbox' \in [Windows -> Seq(Windows)]
    BY <1>4 DEF Hear, TypeOK
  <2> DEFINE r == [win[w] EXCEPT !.shown = FALSE, !.lst = @ \ {"cur", "own"}]
  <2>2. r \in Wins /\ r.view = win[w].view /\ r.ask = win[w].ask /\ r.batch = win[w].batch
        /\ r.lst \subseteq win[w].lst
    BY <1>0 DEF Wins
  <2>3. win' = win \/ win' = [win EXCEPT ![w] = r]
    BY <1>0, <1>4 DEF Hear, TypeOK, Wins
  <2>4. TypeOK' /\ Dialogs'
    BY <1>4, <2>1, <2>2, <2>3 DEF Hear, TypeOK, Dialogs, Clients
  <2> QED
    BY <2>4
<1> QED
  BY <1>1, <1>2, <1>3, <1>4 DEF Arrives

LEMMA MainTyped ==
  ASSUME IInv, MainStep
  PROVE  Types'
<1> USE DEF IInv, Types
<1>1. PICK w \in Windows : \/ RunConnect(w) \/ ConnectFails(w) \/ RunDisconnect(w)
                           \/ SubmitFails(w) \/ \E t \in Threads : RunSubmit(w, t)
  BY DEF MainStep
<1>0. win[w] \in Wins /\ Dialogs
  BY DEF TypeOK
<1>2. ASSUME Connect
      PROVE  /\ table' \in 0..MaxClients /\ made' \in 0..MaxClients /\ table' <= made'
             /\ running' \in [Clients -> BOOLEAN]
  BY <1>2, JobsAssumption DEF Connect, Lowered, TypeOK
<1>3. CASE RunConnect(w)
  <2> DEFINE r == [win[w] EXCEPT !.conn = "up"]
  <2>1. r \in Wins /\ r.view = win[w].view /\ r.ask = win[w].ask /\ r.lst = win[w].lst
        /\ r.batch = win[w].batch
    BY <1>0 DEF Wins
  <2>2. win' = [win EXCEPT ![w] = r]
    BY <1>3 DEF RunConnect, TypeOK
  <2> QED
    BY <1>2, <1>3, <2>1, <2>2 DEF RunConnect, Connect, Lowered, TypeOK, Dialogs, Clients
<1>4. CASE ConnectFails(w)
  <2> DEFINE r == IF win[w].view = "opening"
                  THEN [win[w] EXCEPT !.view = "closed", !.conn = "disconnect"]
                  ELSE [win[w] EXCEPT !.conn = "no"]
  <2>1. r \in Wins /\ r.ask = win[w].ask /\ r.lst = win[w].lst /\ r.batch = win[w].batch
        /\ (r.view = win[w].view \/ win[w].view = "opening")
    BY <1>0 DEF Wins
  <2>2. win' = [win EXCEPT ![w] = r]
    BY <1>4 DEF ConnectFails, TypeOK
  <2>3. Window(w, r)
    BY <1>4, <2>2 DEF ConnectFails, Window
  <2> QED
    BY <1>0, <2>1, <2>3, WindowTyped DEF TypeOK, Dialogs
<1>5. CASE RunDisconnect(w)
  <2> DEFINE r == [win[w] EXCEPT !.conn = "no"]
  <2>1. r \in Wins /\ r.view = win[w].view /\ r.ask = win[w].ask /\ r.lst = win[w].lst
        /\ r.batch = win[w].batch
    BY <1>0 DEF Wins
  <2>2. win' = [win EXCEPT ![w] = r]
    BY <1>5 DEF RunDisconnect, TypeOK
  <2>3. table' \in 0..MaxClients /\ table' <= made /\ dropping' \subseteq Clients
    BY <1>5, JobsAssumption DEF RunDisconnect, TypeOK, Clients
  <2> QED
    BY <1>5, <2>1, <2>2, <2>3 DEF RunDisconnect, TypeOK, Dialogs, Clients
<1>6. CASE SubmitFails(w)
  <2> DEFINE r == [win[w] EXCEPT !.batch = "no"]
  <2>1. r \in Wins /\ r.view = win[w].view /\ r.ask = win[w].ask /\ r.lst = win[w].lst
        /\ r.batch = "no"
    BY <1>0 DEF Wins
  <2>2. win' = [win EXCEPT ![w] = r]
    BY <1>6 DEF SubmitFails, TypeOK
  <2>3. /\ table' \in 0..MaxClients /\ made' \in 0..MaxClients /\ table' <= made'
        /\ running' \in [Clients -> BOOLEAN]
    BY <1>2, <1>6 DEF SubmitFails, TypeOK
  <2> QED
    BY <1>6, <2>1, <2>2, <2>3 DEF SubmitFails, TypeOK, Dialogs, Clients
<1>7. CASE \E t \in Threads : RunSubmit(w, t)
  <2>1. PICK t \in Threads : RunSubmit(w, t)
    BY <1>7
  <2> DEFINE r == [win[w] EXCEPT !.batch = IF @ = "asked" THEN "ok" ELSE "no", !.calm = TRUE]
             j == [st |-> "work", client |-> table', left |-> Lines, by |-> w]
  <2>2. r \in Wins /\ r.view = win[w].view /\ r.ask = win[w].ask /\ r.lst = win[w].lst
        /\ (win[w].batch # "asked" => r.batch = "no")
    BY <1>0 DEF Wins
  <2>3. win' = [win EXCEPT ![w] = r]
    BY <2>1 DEF RunSubmit, TypeOK
  <2>4. /\ table' \in 0..MaxClients /\ made' \in 0..MaxClients /\ table' <= made'
        /\ running' \in [Clients -> BOOLEAN]
    <3>1. CASE table # 0 /\ UNCHANGED <<table, made>> /\ running' = [running EXCEPT ![table] = TRUE]
      BY <3>1 DEF TypeOK
    <3>2. CASE /\ table = 0 /\ made < MaxClients /\ made' = made + 1 /\ table' = made'
               /\ running' = [running EXCEPT ![table'] = TRUE]
      <4>1. table' \in 0..MaxClients /\ made' \in 0..MaxClients /\ table' <= made'
        BY <3>2, JobsAssumption DEF TypeOK
      <4>2. running' \in [Clients -> BOOLEAN]
        BY <3>2 DEF TypeOK
      <4> QED
        BY <4>1, <4>2
    <3> QED
      BY <2>1, <3>1, <3>2 DEF RunSubmit
  <2>5. thr' = [thr EXCEPT ![t] = j]
    BY <2>1 DEF RunSubmit
  <2>6. j \in [st : {"free", "work", "clear"}, client : 0..MaxClients,
               left : 0..Lines, by : Windows \cup {Nobody}]
    BY <2>4, JobsAssumption
  <2>7. thr' \in [Threads -> [st : {"free", "work", "clear"}, client : 0..MaxClients,
                              left : 0..Lines, by : Windows \cup {Nobody}]]
    BY <2>5, <2>6 DEF TypeOK
  <2>8. win' \in [Windows -> Wins]
    BY <2>2, <2>3 DEF TypeOK
  <2>9. \A v \in Windows : win'[v].view = win[v].view /\ win'[v].ask = win[v].ask
                           /\ win'[v].lst = win[v].lst
    BY <2>2, <2>3 DEF TypeOK
  <2>10. dropping' = dropping /\ inbox' = inbox
    BY <2>1 DEF RunSubmit
  <2>11. TypeOK'
    BY <2>4, <2>7, <2>8, <2>9, <2>10 DEF TypeOK
  <2>12. Dialogs'
    BY <1>0, <2>2, <2>3 DEF TypeOK, Dialogs
  <2> QED
    BY <2>11, <2>12
<1> QED
  BY <1>1, <1>3, <1>4, <1>5, <1>6, <1>7

LEMMA JobTyped ==
  ASSUME IInv, NEW t \in Threads, JobStep(t)
  PROVE  Types'
<1> USE DEF IInv, Types
<1> DEFINE Job == [st : {"free", "work", "clear"}, client : 0..MaxClients,
                   left : 0..Lines, by : Windows \cup {Nobody}]
<1>0. thr \in [Threads -> Job] /\ thr[t] \in Job
  BY DEF TypeOK
<1>1. CASE Work(t)
  <2> DEFINE l == IF running[thr[t].client] THEN thr[t].left - 1 ELSE 0
             j == [thr[t] EXCEPT !.left = l]
  <2>1. l \in 0..Lines
    BY <1>0, <1>1, JobsAssumption DEF Work
  <2>2. j \in Job
    BY <1>0, <2>1
  <2>3. thr' = [thr EXCEPT ![t] = j]
    BY <1>0, <1>1 DEF Work
  <2>4. thr' \in [Threads -> Job]
    BY <1>0, <2>2, <2>3
  <2> QED
    BY <1>1, <2>4 DEF Work, TypeOK, Dialogs, Clients
<1>2. CASE Finish(t)
  <2>1. thr[t].by \in Windows
    BY <1>2 DEF Finish, Table, Holders, Live
  <2> DEFINE j == [thr[t] EXCEPT !.st = "clear"]
             b == thr[t].by
             c == win[b].calm /\ "cur" \in win[b].lst /\ win[b].batch # "ok"
             r == [win[b] EXCEPT !.calm = c]
  <2>2. j \in Job
    BY <1>0
  <2>3. thr' = [thr EXCEPT ![t] = j]
    BY <1>0, <1>2 DEF Finish
  <2>4. thr' \in [Threads -> Job]
    BY <1>0, <2>2, <2>3
  <2>5. inbox' \in [Windows -> Seq(Windows)]
    BY <1>2, <2>1 DEF Finish, TypeOK
  <2>6. c \in BOOLEAN /\ win[b] \in Wins
    BY <2>1 DEF TypeOK, Wins
  <2>7. r \in Wins /\ r.view = win[b].view /\ r.ask = win[b].ask /\ r.lst = win[b].lst
        /\ r.batch = win[b].batch
    BY <2>6 DEF Wins
  <2>8. win' = [win EXCEPT ![b] = r]
    BY <1>2 DEF Finish, TypeOK
  <2> QED
    BY <1>2, <2>1, <2>4, <2>5, <2>7, <2>8 DEF Finish, TypeOK, Dialogs, Clients
<1>3. CASE IoError(t)
  <2>1. thr[t].by \in Windows
    BY <1>3 DEF IoError, Table, Holders, Live
  <2> DEFINE j == [thr[t] EXCEPT !.st = "clear"]
             b == thr[t].by
             r == [win[b] EXCEPT !.calm = FALSE]
  <2>2. j \in Job
    BY <1>0
  <2>3. thr' = [thr EXCEPT ![t] = j]
    BY <1>0, <1>3 DEF IoError, AfterError
  <2>4. thr' \in [Threads -> Job]
    BY <1>0, <2>2, <2>3
  <2>7. win[b] \in Wins
    BY <2>1 DEF TypeOK
  <2>5. r \in Wins /\ r.view = win[b].view /\ r.ask = win[b].ask /\ r.lst = win[b].lst
        /\ r.batch = win[b].batch
    BY <2>7 DEF Wins
  <2>6. win' = [win EXCEPT ![b] = r]
    BY <1>3 DEF IoError, TypeOK
  <2> QED
    BY <1>3, <2>1, <2>4, <2>5, <2>6 DEF IoError, TypeOK, Dialogs, Clients
<1>4. CASE Clear(t)
  <2>1. Free \in Job
    BY JobsAssumption DEF Free
  <2>2. thr' \in [Threads -> Job]
    BY <1>0, <1>4, <2>1 DEF Clear
  <2> QED
    BY <1>4, <2>2 DEF Clear, TypeOK, Dialogs, Clients
<1> QED
  BY <1>1, <1>2, <1>3, <1>4 DEF JobStep

LEMMA TypesStep ==
  ASSUME IInv, [Next]_vars
  PROVE  Types'
<1>1. CASE \E c \in Clients : Dropped(c)
  BY <1>1 DEF IInv, Types, TypeOK, Dialogs, Dropped, DropFlag, Clients
<1>2. CASE UNCHANGED vars
  BY <1>2 DEF IInv, Types, TypeOK, Dialogs, vars, Clients
<1> QED
  BY <1>1, <1>2, MainTyped, JobTyped, ArrivesTyped, UserTyped DEF Next

-----------------------------------------------------------------------------
(* The client table and the jobs. *)

\* A new client is nobody's, and the one it replaces loses its flag.
LEMMA ConnectKeeps ==
  ASSUME IInv, Connect, UNCHANGED <<dropping, thr>>
  PROVE  Table'
<1> USE DEF IInv, Types, TypeOK, Table, Live
<1>1. /\ table' = made + 1 /\ made' = made + 1 /\ thr' = thr /\ dropping' = dropping
      /\ made \in Nat /\ table \in Nat /\ table <= made /\ made < MaxClients /\ MaxClients \in Nat
  BY JobsAssumption DEF Connect
<1>2. \A c \in Clients : running'[c] <=> c # table /\ running[c]
  BY DEF Connect, Lowered
<1>3. \A t \in Threads : Live(t) => thr[t].client \in Clients /\ thr[t].client \in 1..made
  BY <1>1 DEF Holders, Clients
<1>4. Holders'
  BY <1>1, <1>3 DEF Holders
<1>5. Gone'
  <2>1. \A c \in dropping : c \in Int /\ c <= made
    <3>1. \A c \in dropping : c \in 1..MaxClients
      BY DEF Clients
    <3>2. \A c \in dropping : c <= made
      BY DEF Gone
    <3> QED
      BY ONLY <3>1, <3>2
  <2> QED
    BY ONLY <1>1, <2>1 DEF Gone
<1>6. OneJob'
  BY <1>1 DEF OneJob
<1>7. RefusedOnlyByJob'
  BY <1>1, <1>2 DEF RefusedOnlyByJob
<1>8. CutShort'
  BY <1>1, <1>2, <1>3 DEF CutShort
<1> QED
  BY <1>4, <1>5, <1>6, <1>7, <1>8

\* Steps of a window alone do not touch the table and the jobs.
LEMMA TableUntouched ==
  ASSUME IInv, UNCHANGED <<table, made, running, dropping, thr>>
  PROVE  Table'
  BY DEF IInv, Table, Holders, Gone, OneJob, RefusedOnlyByJob, CutShort, Live

\* A job starts on a client whose flag was down, and so without a living job.
LEMMA SubmitKeeps ==
  ASSUME IInv, NEW w \in Windows, NEW t \in Threads, RunSubmit(w, t)
  PROVE  Table'
<1> USE DEF IInv, Types, Table
<1>1. /\ thr'[t].st = "work" /\ thr'[t].client = table' /\ thr'[t].by = w /\ thr[t].st = "free"
      /\ \A u \in Threads : u # t => thr'[u] = thr[u]
      /\ dropping' = dropping
  BY DEF RunSubmit, TypeOK
<1>2. table' \in Clients /\ ~running[table'] /\ running' = [running EXCEPT ![table'] = TRUE]
      /\ made \in Nat /\ made' \in Nat /\ made <= made' /\ table' \in 1..made'
      /\ (table' = table \/ table' > made)
  <2>1. /\ made \in Nat /\ table \in Nat /\ table <= made /\ made <= MaxClients /\ MaxClients \in Nat
    BY JobsAssumption DEF TypeOK
  <2>2. CASE table # 0 /\ May(table) /\ UNCHANGED <<table, made>>
             /\ running' = [running EXCEPT ![table] = TRUE]
    BY <2>1, <2>2 DEF May, Clients
  <2>3. CASE table = 0 /\ made < MaxClients /\ made' = made + 1 /\ table' = made'
             /\ running' = [running EXCEPT ![table'] = TRUE]
    <3>1. table' \in Clients /\ table' > made
      BY <2>1, <2>3 DEF Clients
    <3>2. ~running[table']
      BY <2>1, <3>1 DEF RefusedOnlyByJob, Holders
    <3> QED
      BY <2>1, <2>3, <3>1, <3>2
  <2> QED
    BY <2>2, <2>3 DEF RunSubmit
<1>3. \A c \in Clients : running'[c] <=> c = table' \/ running[c]
  BY <1>2 DEF TypeOK
<1>4. \A u \in Threads : Live(u) => /\ thr[u].client \in 1..made /\ thr[u].client \in Clients
                                    /\ thr[u].client # table' /\ u # t
  BY <1>1, <1>2, JobsAssumption DEF Holders, Live, Clients, TypeOK
<1>5. \A u \in Threads : Live(u)' <=> u = t \/ Live(u)
  BY <1>1 DEF Live
<1>6. Holders'
  BY <1>1, <1>2, <1>3, <1>4, <1>5 DEF Holders
<1>7. Gone'
  BY <1>1, <1>2 DEF Gone, TypeOK, Clients
<1>8. OneJob'
  BY <1>1, <1>4, <1>5 DEF OneJob
<1>9. RefusedOnlyByJob'
  BY <1>1, <1>3, <1>4, <1>5 DEF RefusedOnlyByJob
<1>10. CutShort'
  <2> SUFFICES ASSUME NEW u \in Threads, thr'[u].st = "work", running'[thr'[u].client], u # t
               PROVE  thr'[u].client = table' \/ thr'[u].client \in dropping'
    BY <1>1 DEF CutShort
  <2>1. thr'[u] = thr[u] /\ Live(u)
    BY <1>1 DEF Live
  <2>2. running[thr[u].client]
    BY <1>3, <1>4, <2>1
  <2>3. thr[u].client \in dropping \/ thr[u].client = table
    BY <2>1, <2>2 DEF CutShort
  <2>4. table = table' \/ thr[u].client # table
    BY <1>1, <1>2, <1>4, <2>1 DEF RunSubmit, Holders
  <2> QED
    BY <1>1, <2>1, <2>3, <2>4
<1> QED
  BY <1>6, <1>7, <1>8, <1>9, <1>10

LEMMA MainKeeps ==
  ASSUME IInv, MainStep
  PROVE  Table'
<1>1. PICK w \in Windows : \/ RunConnect(w) \/ ConnectFails(w) \/ RunDisconnect(w)
                           \/ SubmitFails(w) \/ \E t \in Threads : RunSubmit(w, t)
  BY DEF MainStep
<1>2. CASE RunConnect(w)
  BY <1>2, ConnectKeeps DEF RunConnect
<1>3. CASE ConnectFails(w)
  BY <1>3, TableUntouched DEF ConnectFails
<1>4. CASE RunDisconnect(w)
  <2> USE DEF IInv, Types, TypeOK, Table, Clients, Live
  <2>1. /\ table' = 0 /\ made' = made /\ running' = running /\ thr' = thr
        /\ dropping' = dropping \cup ({table} \ {0})
    BY <1>4 DEF RunDisconnect
  <2>2. Holders'
    BY <2>1 DEF Holders
  <2>3. Gone'
    BY <2>1 DEF Gone
  <2>4. OneJob' /\ RefusedOnlyByJob'
    BY <2>1 DEF OneJob, RefusedOnlyByJob
  <2>5. CutShort'
    BY <2>1 DEF CutShort, Holders
  <2> QED
    BY <2>2, <2>3, <2>4, <2>5
<1>5. CASE SubmitFails(w)
  BY <1>5, ConnectKeeps, TableUntouched DEF SubmitFails
<1>6. CASE \E t \in Threads : RunSubmit(w, t)
  BY <1>6, SubmitKeeps
<1> QED
  BY <1>1, <1>2, <1>3, <1>4, <1>5, <1>6

LEMMA JobKeeps ==
  ASSUME IInv, NEW t \in Threads, JobStep(t)
  PROVE  Table'
<1> USE DEF IInv, Types, TypeOK, Table, Clients
<1>1. CASE Clear(t)
  <2>1. /\ \A u \in Threads : thr'[u] = IF u = t THEN Free ELSE thr[u]
        /\ table' = table /\ made' = made /\ dropping' = dropping
        /\ running' = [running EXCEPT ![thr[t].client] = FALSE]
    BY <1>1 DEF Clear
  <2>2. Live(t) /\ Free.st = "free"
    BY <1>1 DEF Clear, Live, Free
  <2>3. \A u \in Threads : Live(u)' <=> u # t /\ Live(u)
    BY <2>1, <2>2 DEF Live
  <2>4. \A u \in Threads : u # t /\ Live(u) => thr[u].client # thr[t].client
    BY <2>2 DEF OneJob
  <2>5. Holders'
    BY <2>1, <2>3, <2>4 DEF Holders
  <2>6. Gone'
    BY <2>1 DEF Gone
  <2>7. OneJob'
    BY <2>1, <2>3 DEF OneJob
  <2>8. RefusedOnlyByJob'
    BY <2>1, <2>3 DEF RefusedOnlyByJob
  <2>10. \A c \in Clients : running'[c] <=> c # thr[t].client /\ running[c]
    BY <2>1
  <2>11. \A u \in Threads : Live(u) => thr[u].client \in Clients
    BY JobsAssumption DEF Holders
  <2>9. CutShort'
    <3> SUFFICES ASSUME NEW u \in Threads, thr'[u].st = "work", running'[thr'[u].client]
                 PROVE  thr'[u].client = table' \/ thr'[u].client \in dropping'
      BY DEF CutShort
    <3>1. u # t /\ thr'[u] = thr[u] /\ Live(u)
      BY <2>1, <2>2 DEF Live
    <3>2. running[thr[u].client]
      BY <2>10, <2>11, <3>1
    <3> QED
      BY <2>1, <3>1, <3>2 DEF CutShort
  <2> QED
    BY <2>5, <2>6, <2>7, <2>8, <2>9
<1>2. CASE Work(t) \/ Finish(t) \/ IoError(t)
  <2>1. /\ table' = table /\ made' = made /\ running' = running /\ dropping' = dropping
        /\ thr[t].st = "work" /\ thr'[t].st \in {"work", "clear"}
        /\ thr'[t].client = thr[t].client /\ thr'[t].by = thr[t].by
        /\ \A u \in Threads : u # t => thr'[u] = thr[u]
    BY <1>2 DEF Work, Finish, IoError, AfterError
  <2>2. \A u \in Threads : /\ Live(u)' <=> Live(u)
                           /\ thr'[u].client = thr[u].client /\ thr'[u].by = thr[u].by
                           /\ thr'[u].st = "work" => thr[u].st = "work"
    BY <2>1 DEF Live
  <2>3. Holders'
    BY <2>1, <2>2 DEF Holders
  <2>4. Gone' /\ OneJob'
    BY <2>1, <2>2 DEF Gone, OneJob
  <2>5. RefusedOnlyByJob'
    BY <2>1, <2>2 DEF RefusedOnlyByJob
  <2>6. CutShort'
    BY <2>1, <2>2 DEF CutShort
  <2> QED
    BY <2>3, <2>4, <2>5, <2>6
<1> QED
  BY <1>1, <1>2 DEF JobStep

LEMMA TableStep ==
  ASSUME IInv, [Next]_vars
  PROVE  Table'
<1>1. ASSUME NEW w \in Windows, Arrives(w) \/ UserStep(w)
      PROVE  Table'
  BY <1>1, TableUntouched DEF Arrives, UserStep, Mount, Started, Listening, Hear,
     Open, Refresh, Close, Remount, Submit, Window
<1>2. ASSUME NEW c \in Clients, Dropped(c)
      PROVE  Table'
  <2> USE DEF IInv, Types, Table, Live
  <2>1. /\ c \in dropping /\ dropping' = dropping \ {c}
        /\ table' = table /\ made' = made /\ thr' = thr /\ c # table
        /\ \A d \in Clients : running'[d] <=> d # c /\ running[d]
    BY <1>2 DEF Dropped, DropFlag, TypeOK, Gone
  <2>2. \A t \in Threads : Live(t) => thr[t].client \in Clients
    BY JobsAssumption DEF Holders, TypeOK, Clients
  <2>3. Holders'
    BY <2>1, <2>2 DEF Holders
  <2>4. Gone' /\ OneJob'
    BY <2>1 DEF Gone, OneJob
  <2>5. RefusedOnlyByJob'
    BY <2>1 DEF RefusedOnlyByJob
  <2>6. CutShort'
    BY <2>1, <2>2 DEF CutShort
  <2> QED
    BY <2>3, <2>4, <2>5, <2>6
<1>3. CASE UNCHANGED vars
  BY <1>3, TableUntouched DEF vars
<1> QED
  BY <1>1, <1>2, <1>3, MainKeeps, JobKeeps DEF Next

-----------------------------------------------------------------------------
\* The inductive invariant of the jobs and the table.
THEOREM Inductive == Spec => []IInv
<1>1. Init => IInv
  BY InitHolds
<1>2. IInv /\ [Next]_vars => IInv'
  BY TypesStep, TableStep DEF IInv
<1> QED
  BY <1>1, <1>2, PTL DEF Spec

\* The table, the flags, the jobs and the windows stay well typed, and only a
\* mounted list has a listener of its own.
THEOREM TypeCorrect == Spec => []TypeOK
<1>1. IInv => TypeOK
  BY DEF IInv, Types
<1> QED
  BY <1>1, Inductive, PTL

\* export_import_check_running: a client never has two jobs, for any number of
\* windows that submit, connect and close.
THEOREM OneJobPerClient == Spec => []OneJob
<1>1. IInv => OneJob
  BY DEF IInv, Table
<1> QED
  BY <1>1, Inductive, PTL

\* A flag that is up belongs to a living job, so that ExportImportRunning is
\* never answered for good.
THEOREM RefusalHasAJob == Spec => []RefusedOnlyByJob
<1>1. IInv => RefusedOnlyByJob
  BY DEF IInv, Table
<1> QED
  BY <1>1, Inductive, PTL

\* A job whose client was dropped is told to stop.
THEOREM DropEndsJob == Spec => []CutShort
<1>1. IInv => CutShort
  BY DEF IInv, Table
<1> QED
  BY <1>1, Inductive, PTL

-----------------------------------------------------------------------------
(* Jobs implements JobLock: the flags of the clients are a lock that admits *)
(* one job, and a job passes over lines only after its client was dropped.  *)

\* The state of JobLock.
LockJob == [t \in Threads |-> IF Live(t) THEN [client |-> thr[t].client, left |-> thr[t].left]
                                         ELSE [client |-> 0, left |-> 0]]
LockGone == {c \in 1..made : c # table /\ c \notin dropping}

\* A job whose client waits to be dropped still has its flag.
Uncut == \A t \in Threads : Live(t) /\ thr[t].client \in dropping => running[thr[t].client]

-----------------------------------------------------------------------------
\* Only a job's own end and the drop of its client lower its flag.
LEMMA UncutStep ==
  ASSUME IInv, Uncut, [Next]_vars
  PROVE  Uncut'
<1> USE DEF IInv, Types, Table, Uncut, Live
<1>0. \A t \in Threads : Live(t) => thr[t].client \in Clients
  BY JobsAssumption DEF Holders, TypeOK, Clients
<1>1. ASSUME NEW w \in Windows, Arrives(w) \/ UserStep(w)
      PROVE  Uncut'
  BY <1>1 DEF Arrives, UserStep, Mount, Started, Listening, Hear,
     Open, Refresh, Close, Remount, Submit, Window
<1>2. ASSUME NEW c \in Clients, Dropped(c)
      PROVE  Uncut'
  BY <1>0, <1>2 DEF Dropped, DropFlag, TypeOK
<1>3. ASSUME NEW t \in Threads, JobStep(t)
      PROVE  Uncut'
  <2>1. CASE Clear(t)
    <3>1. /\ dropping' = dropping /\ thr' = [thr EXCEPT ![t] = Free]
          /\ \A c \in Clients : running'[c] <=> c # thr[t].client /\ running[c]
          /\ Live(t)
      BY <1>0, <2>1 DEF Clear, TypeOK
    <3>2. \A u \in Threads : Live(u)' => u # t /\ Live(u) /\ thr'[u] = thr[u]
      BY <3>1 DEF Free, TypeOK
    <3> QED
      BY <1>0, <3>1, <3>2 DEF OneJob
  <2>2. CASE Work(t) \/ Finish(t) \/ IoError(t)
    <3>1. /\ running' = running /\ dropping' = dropping
          /\ thr[t].st = "work" /\ thr'[t].client = thr[t].client
          /\ \A u \in Threads : u # t => thr'[u] = thr[u]
      BY <2>2 DEF Work, Finish, IoError, AfterError, TypeOK
    <3> QED
      BY <3>1
  <2> QED
    BY <1>3, <2>1, <2>2 DEF JobStep
<1>4. CASE MainStep
  <2>1. PICK w \in Windows : \/ RunConnect(w) \/ ConnectFails(w) \/ RunDisconnect(w)
                             \/ SubmitFails(w) \/ \E t \in Threads : RunSubmit(w, t)
    BY <1>4 DEF MainStep
  <2>2. ASSUME Connect, UNCHANGED <<dropping, thr>>
        PROVE  Uncut'
    BY <1>0, <2>2 DEF Connect, Lowered, Gone
  <2>3. CASE RunConnect(w)
    BY <2>2, <2>3 DEF RunConnect
  <2>4. CASE ConnectFails(w)
    BY <2>4 DEF ConnectFails
  <2>5. CASE RunDisconnect(w)
    BY <2>5 DEF RunDisconnect, Holders
  <2>6. CASE SubmitFails(w)
    BY <2>2, <2>6 DEF SubmitFails
  <2>7. ASSUME NEW t \in Threads, RunSubmit(w, t)
        PROVE  Uncut'
    <3>1. /\ dropping' = dropping /\ running' = [running EXCEPT ![table'] = TRUE]
          /\ thr'[t].client = table' /\ \A u \in Threads : u # t => thr'[u] = thr[u]
          /\ table' \in Clients
      BY <2>7, JobsAssumption DEF RunSubmit, TypeOK, Clients
    <3> QED
      BY <1>0, <3>1 DEF TypeOK
  <2> QED
    BY <2>1, <2>3, <2>4, <2>5, <2>6, <2>7
<1>5. CASE UNCHANGED vars
  BY <1>5 DEF vars
<1> QED
  BY <1>1, <1>2, <1>3, <1>4, <1>5 DEF Next

-----------------------------------------------------------------------------
LEMMA LockStutters ==
  ASSUME LockJob' = LockJob, LockGone' = LockGone
  PROVE  [Lock!Next]_Lock!vars
  BY DEF Lock!vars, LockJob, LockGone

LEMMA LockDrops ==
  ASSUME NEW c \in 1..MaxClients, LockJob' = LockJob, LockGone' = LockGone \cup {c}
  PROVE  [Lock!Next]_Lock!vars
  BY DEF Lock!Next, Lock!Drop, LockJob, LockGone

\* Steps that leave the table, the clients and the jobs alone.
LEMMA NoLockStep ==
  ASSUME UNCHANGED <<table, made, dropping, thr>>
  PROVE  [Lock!Next]_Lock!vars
<1>1. LockJob' = LockJob /\ LockGone' = LockGone
  BY DEF LockJob, LockGone, Live
<1> QED
  BY <1>1, LockStutters

\* A new client: the one it replaces is dropped.
LEMMA ConnectLocks ==
  ASSUME IInv, Connect, UNCHANGED <<dropping, thr>>
  PROVE  [Lock!Next]_Lock!vars
<1> USE DEF IInv, Types, TypeOK, Table
<1>1. LockJob' = LockJob
  BY DEF LockJob, Live
<1>2. /\ table' = made + 1 /\ made' = made + 1 /\ dropping' = dropping
      /\ made \in Nat /\ table \in 0..made /\ made <= MaxClients /\ MaxClients \in Nat
  BY JobsAssumption DEF Connect
<1>3. \A c \in dropping : c \in Int /\ c <= made /\ c # table
  BY DEF Gone, Clients
<1>4. CASE table = 0
  <2>1. LockGone' = LockGone
    BY <1>2, <1>3, <1>4 DEF LockGone
  <2> QED
    BY <1>1, <2>1, LockStutters
<1>5. CASE table # 0
  <2>0. table \in 1..made /\ table # made + 1 /\ table \notin dropping
    BY <1>2, <1>3, <1>5
  <2>1. LockGone' = LockGone \cup {table}
    <3>1. LockGone' = {c \in 1..made + 1 : c # made + 1 /\ c \notin dropping}
      BY <1>2 DEF LockGone
    <3>2. 1..made = {c \in 1..made + 1 : c # made + 1}
      BY <1>2
    <3> QED
      BY ONLY <2>0, <3>1, <3>2 DEF LockGone
  <2>2. table \in 1..MaxClients
    BY <1>2, <1>5
  <2> QED
    BY <1>1, <2>1, <2>2, LockDrops
<1> QED
  BY <1>4, <1>5

\* A submitted job takes a client that no job has and that is not dropped.
LEMMA SubmitLocks ==
  ASSUME IInv, NEW w \in Windows, NEW t \in Threads, RunSubmit(w, t)
  PROVE  [Lock!Next]_Lock!vars
<1> USE DEF IInv, Types, Table
<1>1. /\ ~Live(t) /\ thr' = [thr EXCEPT ![t] = [st |-> "work", client |-> table', left |-> Lines, by |-> w]]
      /\ dropping' = dropping
  BY DEF RunSubmit, Live
<1>2. thr'[t].client = table' /\ thr'[t].left = Lines /\ thr'[t].st = "work"
      /\ \A u \in Threads : u # t => thr'[u] = thr[u]
  BY <1>1 DEF TypeOK
<1>3. LockJob' = [LockJob EXCEPT ![t] = [client |-> table', left |-> Lines]]
  BY <1>1, <1>2 DEF LockJob, Live
<1>4. /\ made \in Nat /\ made' \in Nat /\ table' \in 1..made' /\ made' <= MaxClients /\ MaxClients \in Nat
      /\ \/ table' = table /\ made' = made /\ ~running[table]
         \/ table = 0 /\ made' = made + 1 /\ table' = made'
  BY JobsAssumption DEF RunSubmit, TypeOK, May
<1>5. LockGone' = LockGone /\ table' \notin LockGone
  <2>1. \A c \in dropping : c \in Int /\ c <= made /\ c # table
    BY DEF Gone, TypeOK, Clients
  <2> QED
    BY <1>1, <1>4, <2>1 DEF LockGone
<1>6. \A u \in Threads : LockJob[u].client # table'
  BY <1>4, JobsAssumption DEF LockJob, Holders, Live
<1>7. ASSUME NEW c \in 1..MaxClients, c = table'
      PROVE  Lock!Take(t, c)
  BY <1>1, <1>3, <1>5, <1>6, <1>7 DEF Lock!Take, Lock!Idle, LockJob, LockGone
<1>8. \E c \in 1..MaxClients : c = table'
  BY ONLY <1>4
<1> QED
  BY ONLY <1>7, <1>8 DEF Lock!Next

\* A job's own steps: it passes over lines only with its flag down, and so after its
\* client was dropped.
LEMMA JobLocks ==
  ASSUME IInv, Uncut, NEW t \in Threads, JobStep(t)
  PROVE  [Lock!Next]_Lock!vars
<1> USE DEF IInv, Types, Table
<1>0. /\ table' = table /\ made' = made /\ dropping' = dropping /\ LockGone' = LockGone
      /\ thr[t] \in [st : {"free", "work", "clear"}, client : 0..MaxClients,
                     left : 0..Lines, by : Windows \cup {Nobody}]
  BY DEF JobStep, Work, Finish, IoError, Clear, LockGone, TypeOK
<1>1. CASE Work(t)
  <2>1. /\ Live(t) /\ thr[t].st = "work" /\ thr[t].left > 0
        /\ \A u \in Threads : u # t => thr'[u] = thr[u]
        /\ thr'[t].st = "work" /\ thr'[t].client = thr[t].client
        /\ thr'[t].left = IF running[thr[t].client] THEN thr[t].left - 1 ELSE 0
    BY <1>1 DEF Work, Live, TypeOK
  <2>2. LockJob' = [LockJob EXCEPT ![t].left = IF running[thr[t].client] THEN @ - 1 ELSE 0]
    BY <2>1 DEF LockJob, Live
  <2>3. LockJob[t] = [client |-> thr[t].client, left |-> thr[t].left]
    BY <2>1 DEF LockJob
  <2>4. thr[t].client \in 1..made
    BY <2>1 DEF Holders
  <2>5. CASE running[thr[t].client]
    <3>1. LockJob[t].client \notin LockGone
      BY <2>1, <2>3, <2>4, <2>5 DEF LockGone, CutShort
    <3>2. Lock!Advance(t)
      BY <1>0, <2>1, <2>2, <2>3, <2>5, <3>1 DEF Lock!Advance, LockJob, LockGone
    <3> QED
      BY <3>2 DEF Lock!Next
  <2>6. CASE ~running[thr[t].client]
    <3>1. LockJob[t].client \in LockGone
      BY <2>1, <2>3, <2>4, <2>6 DEF LockGone, Uncut, Holders
    <3>2. Lock!PassOver(t)
      BY <1>0, <2>2, <2>6, <3>1 DEF Lock!PassOver, LockJob, LockGone
    <3> QED
      BY <3>2 DEF Lock!Next
  <2> QED
    BY <2>5, <2>6
<1>2. CASE Finish(t) \/ IoError(t)
  <2>1. /\ Live(t) /\ thr'[t].st = "clear" /\ thr'[t].client = thr[t].client /\ thr'[t].left = thr[t].left
        /\ \A u \in Threads : u # t => thr'[u] = thr[u]
    BY <1>2 DEF Finish, IoError, AfterError, Live, TypeOK
  <2>2. LockJob' = LockJob
    BY <2>1 DEF LockJob, Live
  <2> QED
    BY <1>0, <2>2, LockStutters
<1>3. CASE Clear(t)
  <2>1. /\ Live(t) /\ ~Live(t)' /\ \A u \in Threads : u # t => thr'[u] = thr[u]
    BY <1>3 DEF Clear, Live, TypeOK, Free
  <2>2. LockJob' = [LockJob EXCEPT ![t] = [client |-> 0, left |-> 0]]
    BY <2>1 DEF LockJob, Live
  <2>3. LockJob[t] # [client |-> 0, left |-> 0]
    BY <2>1 DEF LockJob, Holders
  <2>4. Lock!Release(t)
    BY <1>0, <2>2, <2>3 DEF Lock!Release, Lock!Idle, LockJob, LockGone
  <2> QED
    BY <2>4 DEF Lock!Next
<1> QED
  BY <1>1, <1>2, <1>3 DEF JobStep

\* Every step of Jobs is a step of JobLock or leaves its state alone.
LEMMA StepLocks ==
  ASSUME IInv, Uncut, [Next]_vars
  PROVE  [Lock!Next]_Lock!vars
<1>1. ASSUME NEW w \in Windows, Arrives(w) \/ UserStep(w)
      PROVE  [Lock!Next]_Lock!vars
  BY <1>1, NoLockStep DEF Arrives, UserStep, Mount, Started, Listening, Hear,
     Open, Refresh, Close, Remount, Submit, Window
<1>2. ASSUME NEW c \in Clients, Dropped(c)
      PROVE  [Lock!Next]_Lock!vars
  <2> USE DEF IInv, Types, Table
  <2>1. LockJob' = LockJob
    BY <1>2 DEF Dropped, LockJob, Live
  <2>2. c \in 1..made /\ c # table
    BY <1>2, JobsAssumption DEF Dropped, Gone, TypeOK, Clients
  <2>3. LockGone' = LockGone \cup {c}
    BY <1>2, <2>2 DEF Dropped, LockGone
  <2> QED
    BY <2>1, <2>3, LockDrops DEF Clients
<1>3. CASE MainStep
  <2>1. PICK w \in Windows : \/ RunConnect(w) \/ ConnectFails(w) \/ RunDisconnect(w)
                             \/ SubmitFails(w) \/ \E t \in Threads : RunSubmit(w, t)
    BY <1>3 DEF MainStep
  <2>2. CASE RunConnect(w) \/ SubmitFails(w)
    BY <2>2, ConnectLocks, NoLockStep DEF RunConnect, SubmitFails
  <2>3. CASE ConnectFails(w)
    BY <2>3, NoLockStep DEF ConnectFails
  <2>4. CASE RunDisconnect(w)
    <3>1. LockJob' = LockJob
      BY <2>4 DEF RunDisconnect, LockJob, Live
    <3>2. LockGone' = LockGone
      BY <2>4 DEF RunDisconnect, LockGone
    <3> QED
      BY <3>1, <3>2, LockStutters
  <2>5. CASE \E t \in Threads : RunSubmit(w, t)
    BY <2>5, SubmitLocks
  <2> QED
    BY <2>1, <2>2, <2>3, <2>4, <2>5
<1>4. CASE UNCHANGED vars
  BY <1>4, NoLockStep DEF vars
<1> QED
  BY <1>1, <1>2, <1>3, <1>4, JobLocks DEF Next

-----------------------------------------------------------------------------
\* The flags, the table and its drops implement the lock that JobLock describes:
\* export_import_check_running, ClientAccess, MeSingle::drop and the job threads.
THEOREM FlagsAreALock == Spec => Implements
<1>1. Init => Lock!Init /\ Uncut
  BY DEF Init, Lock!Init, Lock!Idle, Uncut, Live, Free
<1>2. IInv /\ Uncut /\ [Next]_vars => Uncut' /\ [Lock!Next]_Lock!vars
  BY UncutStep, StepLocks
<1> QED
  BY <1>1, <1>2, Inductive, PTL DEF Spec, Implements, Lock!Spec

-----------------------------------------------------------------------------
(* The display of a job.  As long as nothing set apart came between, a dialog that has  *)
(* its answer has a working job; and when the job of a display is over, its window has  *)
(* the mounted list's listener, and the event for it is on its way.                     *)

Working(w) == \E t \in Threads : thr[t].st = "work" /\ thr[t].by = w
Awaited(w) == \E i \in 1..Len(inbox[w]) : inbox[w][i] = w
Honest(w) ==
  win[w].calm =>
    /\ win[w].batch = "ok" => Working(w)
    /\ win[w].shown => Working(w) \/ ("cur" \in win[w].lst /\ Awaited(w))
DisplayInv == \A w \in Windows : Honest(w)

\* An unmounted list is set apart.
LEMMA UnmountedApart ==
  ASSUME NEW r \in Wins, NEW v \in {"closed", "open"}
  PROVE  Unmounted(r, v) \in Wins /\ ~Unmounted(r, v).calm
  BY DEF Unmounted, Wins

\* A step of the window's that leaves jobs and events alone, and sets it apart or turns neither
\* the display nor the dialog on.
LEMMA HonestWindow ==
  ASSUME IInv, DisplayInv, NEW w \in Windows, UNCHANGED <<thr, inbox>>,
         win'[w].calm => /\ win[w].calm
                         /\ win'[w].batch = "ok" => win[w].batch = "ok"
                         /\ win'[w].shown => win[w].shown \/ win[w].batch = "ok"
                         /\ "cur" \in win[w].lst => "cur" \in win'[w].lst
  PROVE  Honest(w)'
  BY DEF DisplayInv, Honest, Working, Awaited

LEMMA HonestStep ==
  ASSUME IInv, DisplayInv, [Next]_vars
  PROVE  DisplayInv'
<1> SUFFICES ASSUME NEW w \in Windows PROVE Honest(w)'
  BY DEF DisplayInv
<1>0. /\ win \in [Windows -> Wins] /\ inbox \in [Windows -> Seq(Windows)] /\ Honest(w)
      /\ \A v \in Windows : win[v] \in Wins
      /\ thr \in [Threads -> [st : {"free", "work", "clear"}, client : 0..MaxClients,
                              left : 0..Lines, by : Windows \cup {Nobody}]]
  BY DEF IInv, Types, TypeOK, DisplayInv
<1>1. CASE win' = win /\ UNCHANGED <<thr, inbox>>
  BY <1>1, HonestWindow
<1>2. ASSUME NEW v \in Windows, RunConnect(v) \/ ConnectFails(v) \/ RunDisconnect(v) \/ SubmitFails(v)
      PROVE  Honest(w)'
  <2>1. /\ UNCHANGED <<thr, inbox>> /\ win'[w].calm = win[w].calm /\ win'[w].shown = win[w].shown
        /\ win'[w].lst = win[w].lst /\ win'[w].batch \in {win[w].batch, "no"}
    <3>1. PICK r \in {[win[v] EXCEPT !.conn = "up"], [win[v] EXCEPT !.conn = "no"],
                      [win[v] EXCEPT !.view = "closed", !.conn = "disconnect"],
                      [win[v] EXCEPT !.batch = "no"]} :
            win' = [win EXCEPT ![v] = r] /\ UNCHANGED <<thr, inbox>>
      <4>1. CASE RunConnect(v)
        BY <4>1 DEF RunConnect
      <4>2. CASE ConnectFails(v)
        BY <1>0, <4>2 DEF ConnectFails
      <4>3. CASE RunDisconnect(v)
        BY <4>3 DEF RunDisconnect
      <4>4. CASE SubmitFails(v)
        BY <4>4 DEF SubmitFails
      <4> QED
        BY <1>2, <4>1, <4>2, <4>3, <4>4
    <3>2. /\ r.calm = win[v].calm /\ r.shown = win[v].shown /\ r.lst = win[v].lst
          /\ r.batch \in {win[v].batch, "no"}
      BY <1>0, <3>1 DEF Wins
    <3> QED
      BY <1>0, <3>1, <3>2
  <2> QED
    BY <2>1, HonestWindow
<1>3. ASSUME NEW v \in Windows, NEW t \in Threads, RunSubmit(v, t)
      PROVE  Honest(w)'
  <2>1. /\ inbox' = inbox /\ thr[t].st = "free" /\ thr'[t].st = "work" /\ thr'[t].by = v
        /\ \A u \in Threads \ {t} : thr'[u] = thr[u]
    BY <1>0, <1>3 DEF RunSubmit
  <2>2. Working(w) => Working(w)'
    BY <2>1 DEF Working
  <2>3. CASE w = v
    BY <2>1, <2>3 DEF Honest, Working
  <2>4. CASE w # v
    <3>1. win'[w] = win[w]
      BY <1>0, <1>3, <2>4 DEF RunSubmit
    <3> QED
      BY <1>0, <2>1, <2>2, <3>1 DEF Honest, Awaited
  <2> QED
    BY <2>3, <2>4
<1>4. ASSUME NEW v \in Windows, UserStep(v) \/ Mount(v)
      PROVE  Honest(w)'
  <2>1. UNCHANGED <<thr, inbox>>
    BY <1>4 DEF UserStep, Open, Refresh, Close, Remount, Submit, Mount, Window
  <2>2. w # v => win'[w] = win[w]
    BY <1>0, <1>4 DEF UserStep, Open, Refresh, Close, Remount, Submit, Mount, Window
  <2>3. CASE Open(v) \/ Refresh(v) \/ Submit(v)
    <3>1. /\ win'[v].calm = win[v].calm /\ win'[v].shown = win[v].shown /\ win'[v].lst = win[v].lst
          /\ win'[v].batch \in {win[v].batch, "asked"}
      <4>1. CASE Open(v)
        BY <1>0, <4>1 DEF Open, Window, Wins
      <4>2. CASE Refresh(v)
        BY <1>0, <4>2 DEF Refresh, Window, Wins
      <4>3. CASE Submit(v)
        BY <1>0, <4>3 DEF Submit, Window, Wins
      <4> QED
        BY <2>3, <4>1, <4>2, <4>3
    <3> QED
      BY <2>1, <2>2, <3>1, HonestWindow
  <2>4. CASE Close(v) \/ Remount(v) \/ Mount(v)
    <3>1. ~win'[v].calm
      <4>1. PICK m \in {"closed", "open"} :
              win' \in {[win EXCEPT ![v] = Unmounted(win[v], m)],
                        [win EXCEPT ![v] = [Unmounted(win[v], m) EXCEPT !.conn = "disconnect"]],
                        [win EXCEPT ![v] = [Unmounted(win[v], m) EXCEPT !.conn = "no"]]}
        BY <2>4 DEF Close, Remount, Mount, Window
      <4> DEFINE u == Unmounted(win[v], m)
      <4>2. u \in Wins /\ ~u.calm
        BY <1>0, UnmountedApart
      <4> HIDE DEF u
      <4>3. win'[v] \in {u, [u EXCEPT !.conn = "disconnect"], [u EXCEPT !.conn = "no"]}
        BY <1>0, <4>1 DEF u
      <4> QED
        BY <4>2, <4>3 DEF Wins
    <3> QED
      BY <2>1, <2>2, <3>1, HonestWindow
  <2> QED
    BY <1>4, <2>3, <2>4 DEF UserStep
<1>5. ASSUME NEW v \in Windows, Started(v) \/ Listening(v)
      PROVE  Honest(w)'
  <2>1. UNCHANGED <<thr, inbox>> /\ (w # v => win'[w] = win[w])
    BY <1>0, <1>5 DEF Started, Listening, Window
  <2>2. /\ win'[v].calm = win[v].calm /\ win[v].lst \subseteq win'[v].lst
        /\ win'[v].batch = "ok" => win[v].batch = "ok"
        /\ win'[v].shown => win[v].shown \/ win[v].batch = "ok"
    <3>1. CASE Started(v)
      BY <1>0, <3>1 DEF Started, Window, Wins
    <3>2. CASE Listening(v)
      BY <1>0, <3>2 DEF Listening, Window, Wins
    <3> QED
      BY <1>5, <3>1, <3>2
  <2> QED
    BY <2>1, <2>2, HonestWindow
<1>6. ASSUME NEW v \in Windows, Hear(v)
      PROVE  Honest(w)'
  <2>1. /\ inbox[v] # <<>> /\ inbox' = [inbox EXCEPT ![v] = Tail(@)] /\ thr' = thr
        /\ w # v => win'[w] = win[w] /\ inbox'[w] = inbox[w]
    BY <1>0, <1>6 DEF Hear
  <2>2. CASE w # v
    BY <1>0, <2>1, <2>2 DEF Honest, Working, Awaited
  <2>3. CASE w = v
    <3>1. /\ win'[w].calm = win[w].calm /\ win'[w].batch = win[w].batch
          /\ win'[w].shown => win[w].shown
          /\ "cur" \in win[w].lst => ~win'[w].shown
      <4>1. "cur" \in win[w].lst => win[w].view = "open" /\ win[w].lst # {}
        BY DEF IInv, Types, TypeOK
      <4> QED
        BY <1>0, <1>6, <2>3, <4>1 DEF Hear, Wins
    <3> QED
      BY <1>0, <2>1, <3>1 DEF Honest, Working
  <2> QED
    BY <2>2, <2>3
<1>7. ASSUME NEW t \in Threads, Finish(t)
      PROVE  Honest(w)'
  <2>1. PICK v \in Windows : thr[t].by = v
    BY <1>7 DEF Finish, IInv, Table, Holders, Live
  <2>2. /\ \A u \in Threads \ {t} : thr'[u] = thr[u]
        /\ inbox'[w] = IF win[w].lst # {} THEN Append(inbox[w], v) ELSE inbox[w]
        /\ win' = [win EXCEPT ![v].calm = @ /\ "cur" \in win[v].lst /\ win[v].batch # "ok"]
    BY <1>0, <1>7, <2>1 DEF Finish, Told, Hearing
  <2>3. inbox[w] \in Seq(Windows) /\ (Awaited(w) => Awaited(w)')
    <3>1. inbox[w] \in Seq(Windows)
      BY <1>0
    <3> SUFFICES ASSUME NEW i \in 1..Len(inbox[w]), inbox[w][i] = w PROVE Awaited(w)'
      BY <3>1 DEF Awaited
    <3>2. i \in 1..Len(inbox'[w]) /\ inbox'[w][i] = w
      BY <2>2, <3>1
    <3> QED
      BY <3>2 DEF Awaited
  <2>4. CASE w # v
    BY <1>0, <2>1, <2>2, <2>3, <2>4 DEF Honest, Working
  <2>5. CASE w = v
    <3>1. /\ win'[w].calm => win[w].calm /\ "cur" \in win[w].lst /\ win[w].batch # "ok"
          /\ win'[w].batch = win[w].batch /\ win'[w].lst = win[w].lst
      <4> DEFINE r == [win[v] EXCEPT !.calm = @ /\ "cur" \in win[v].lst /\ win[v].batch # "ok"]
      <4>1. /\ r.calm = (win[v].calm /\ "cur" \in win[v].lst /\ win[v].batch # "ok")
            /\ r.batch = win[v].batch /\ r.lst = win[v].lst
        BY <1>0 DEF Wins
      <4>2. win'[v] = r
        BY <1>0, <2>2
      <4> QED
        BY <2>5, <4>1, <4>2
    <3>2. "cur" \in win[w].lst => inbox'[w] = Append(inbox[w], w)
      BY <2>2, <2>5
    <3>3. "cur" \in win[w].lst => Awaited(w)'
      <4> SUFFICES ASSUME "cur" \in win[w].lst PROVE Awaited(w)'
        OBVIOUS
      <4>1. Len(inbox'[w]) = Len(inbox[w]) + 1 /\ inbox'[w][Len(inbox[w]) + 1] = w
        BY <2>3, <3>2
      <4> QED
        BY <2>3, <4>1 DEF Awaited
    <3> QED
      BY <3>1, <3>3 DEF Honest
  <2> QED
    BY <2>4, <2>5
<1>8. ASSUME NEW t \in Threads, IoError(t)
      PROVE  Honest(w)'
  <2>1. PICK v \in Windows : thr[t].by = v
    BY <1>8 DEF IoError, IInv, Table, Holders, Live
  <2>2. /\ \A u \in Threads \ {t} : thr'[u] = thr[u]
        /\ inbox' = inbox /\ ~win'[v].calm /\ (w # v => win'[w] = win[w])
    BY <1>0, <1>8, <2>1 DEF IoError, Wins
  <2> QED
    BY <1>0, <2>1, <2>2 DEF Honest, Working, Awaited
<1>9. ASSUME NEW t \in Threads, Work(t) \/ Clear(t)
      PROVE  Honest(w)'
  <2>1. /\ win' = win /\ inbox' = inbox /\ \A u \in Threads \ {t} : thr'[u] = thr[u]
        /\ thr[t].st = "work" => thr'[t].st = "work" /\ thr'[t].by = thr[t].by
    BY <1>0, <1>9 DEF Work, Clear
  <2>2. Working(w) => Working(w)'
    BY <2>1 DEF Working
  <2> QED
    BY <1>0, <2>1, <2>2 DEF Honest, Awaited
<1>10. CASE UNCHANGED vars
  BY <1>1, <1>10 DEF vars
<1>11. ASSUME NEW c \in Clients, Dropped(c)
       PROVE  Honest(w)'
  BY <1>1, <1>11 DEF Dropped
<1>12. CASE MainStep
  BY <1>2, <1>3, <1>12 DEF MainStep
<1>13. CASE \E t \in Threads : JobStep(t)
  BY <1>7, <1>8, <1>9, <1>13 DEF JobStep
<1>14. CASE \E v \in Windows : Arrives(v) \/ UserStep(v)
  BY <1>4, <1>5, <1>6, <1>14 DEF Arrives
<1> QED
  BY <1>10, <1>11, <1>12, <1>13, <1>14 DEF Next

\* A display that is on has a job that is going on or whose end is under way to it, for any
\* windows and jobs: the listener takes the display down only when it is due, or set apart.
THEOREM DisplayIsHonest == Spec => []HonestDisplay
<1>1. Init => DisplayInv
  BY DEF Init, DisplayInv, Honest, Closed
<1>2. DisplayInv => HonestDisplay
  BY DEF DisplayInv, Honest, HonestDisplay, Working, Awaited
<1> QED
  BY <1>1, <1>2, HonestStep, Inductive, PTL DEF Spec
=============================================================================
