-------------------------------- MODULE Jobs --------------------------------
(***************************************************************************)
(* Export and import in RedisME, with the client table they depend on.     *)
(*                                                                         *)
(* Windows open, refresh and close one connection, whose client is shared: *)
(* the table keeps the last one made, and a client that leaves the table   *)
(* is dropped, at once when it is replaced and by a thread of its own when *)
(* it is disconnected.  An export or import is a thread that works line by *)
(* line while its client's flag is up and then tells every listening       *)
(* window that it has finished.                                            *)
(*                                                                         *)
(* Commands run one at a time on the main thread; their answers and the    *)
(* events arrive in the window later.  Progress events, counters and files *)
(* are left out, and so is mock data, which borrows the display.  Exports and *)
(* imports are of one kind, and a window has one connection command under  *)
(* way at a time.                                                          *)
(***************************************************************************)
EXTENDS Integers, Sequences, FiniteSets

CONSTANTS
  Windows, Nobody,
  Exporters,  \* bound: windows that export and import
  Threads,    \* bound: jobs at a time
  MaxClients, \* bound: clients made
  Lines,      \* bound: keys or lines of a job
  Undelivered \* bound: finish events under way to a window

ASSUME JobsAssumption ==
  {MaxClients, Lines, Undelivered} \subseteq Nat /\ Exporters \subseteq Windows /\ Nobody \notin Windows

VARIABLES
  table,    \* clients: the connection's client, 0 if there is none
  made,     \* clients made so far
  running,  \* export_import_running of each client
  dropping, \* clients that disconnect has taken out and not yet dropped
  thr,      \* job threads
  win,      \* windows, see Closed
  inbox     \* finish events on their way: the window whose job it was

vars == <<table, made, running, dropping, thr, win, inbox>>

Clients == 1..MaxClients

\* view: whether the key list is mounted; conn: the command that opens, refreshes
\* or closes, "up" when a new client is there; batch: the export or import
\* command, "lost" when its dialog is gone; shown: exportImporting; ask, lst: the
\* list that is registering a listener and those registered ("own" and "cur": of
\* a list that is gone and of the mounted one; "shadow": replaced in `unlisten`,
\* so that nobody removes it); calm: history, see HonestDisplay.
Closed == [view |-> "closed", conn |-> "no", batch |-> "no", shown |-> FALSE,
           ask |-> "no", lst |-> {}, calm |-> TRUE]

Free == [st |-> "free", client |-> 0, left |-> 0, by |-> Nobody]

Wins == [view : {"closed", "opening", "open"},
         conn : {"no", "connect", "refresh", "disconnect", "up"},
         batch : {"no", "asked", "lost", "ok"}, shown : BOOLEAN,
         ask : {"no", "cur", "own"}, lst : SUBSET {"cur", "own", "shadow"}, calm : BOOLEAN]

TypeOK ==
  /\ table \in 0..MaxClients /\ made \in 0..MaxClients /\ table <= made
  /\ running \in [Clients -> BOOLEAN] /\ dropping \subseteq Clients
  /\ thr \in [Threads -> [st : {"free", "work", "clear"}, client : 0..MaxClients,
                          left : 0..Lines, by : Windows \cup {Nobody}]]
  /\ win \in [Windows -> Wins]
  /\ inbox \in [Windows -> Seq(Windows)]
  \* Only a mounted list has a listener of its own.
  /\ \A w \in Windows : win[w].view # "open" => win[w].ask # "cur" /\ "cur" \notin win[w].lst

Init ==
  /\ table = 0 /\ made = 0 /\ running = [c \in Clients |-> FALSE] /\ dropping = {}
  /\ thr = [t \in Threads |-> Free]
  /\ win = [w \in Windows |-> Closed] /\ inbox = [w \in Windows |-> <<>>]

-----------------------------------------------------------------------------
(* The client table. *)

AllLowered == [c \in Clients |-> FALSE]
\* Drop of the client in the table.
Lowered == [c \in Clients |-> c # table /\ running[c]]

\* connect: the new client replaces the old one, which is dropped on the spot.
Connect ==
  /\ made < MaxClients
  /\ made' = made + 1 /\ table' = made'
  /\ running' = Lowered

\* Drop of a client: whatever its job is doing, the flag goes down.
DropFlag(c) == [running EXCEPT ![c] = FALSE]

Dropped(c) ==
  /\ c \in dropping
  /\ dropping' = dropping \ {c} /\ running' = DropFlag(c)
  /\ UNCHANGED <<table, made, thr, win, inbox>>

\* disconnect takes the client out, whichever window uses it.
RunDisconnect(w) ==
  /\ win[w].conn = "disconnect"
  /\ table' = 0 /\ dropping' = dropping \cup ({table} \ {0})
  /\ win' = [win EXCEPT ![w].conn = "no"]
  /\ UNCHANGED <<made, running, thr, inbox>>

RunConnect(w) ==
  /\ win[w].conn \in {"connect", "refresh"}
  /\ Connect
  /\ win' = [win EXCEPT ![w].conn = "up"]
  /\ UNCHANGED <<dropping, thr, inbox>>

\* When opening fails the connection is unset, and the watcher then disconnects it.
ConnectFails(w) ==
  /\ win[w].conn \in {"connect", "refresh"}
  /\ win' = IF win[w].view = "opening"
            THEN [win EXCEPT ![w].view = "closed", ![w].conn = "disconnect"]
            ELSE [win EXCEPT ![w].conn = "no"]
  /\ UNCHANGED <<table, made, running, dropping, thr, inbox>>

-----------------------------------------------------------------------------
(* A window opens, refreshes and closes the connection. *)

UnmountedListening(r, view) ==
  [r EXCEPT !.view = view, !.calm = FALSE,
            !.batch = IF @ = "asked" THEN "lost" ELSE "no"]
\* The key list goes: its listener too, but not one that is being registered.
Unmounted(r, view) ==
  [r EXCEPT !.view = view, !.calm = FALSE,
            !.batch = IF @ = "asked" THEN "lost" ELSE "no",
            !.ask = IF @ = "cur" THEN "own" ELSE @, !.lst = @ \ {"cur"}]

Window(w, r) == /\ win' = [win EXCEPT ![w] = r]
                /\ UNCHANGED <<table, made, running, dropping, thr, inbox>>

Open(w) ==
  /\ win[w].view = "closed" /\ win[w].conn = "no"
  /\ Window(w, [win[w] EXCEPT !.view = "opening", !.conn = "connect"])

Refresh(w) ==
  /\ win[w].view = "open" /\ win[w].conn = "no"
  /\ Window(w, [win[w] EXCEPT !.conn = "refresh"])

Close(w) ==
  /\ win[w].view = "open" /\ win[w].conn = "no"
  /\ Window(w, [Unmounted(win[w], "closed") EXCEPT !.conn = "disconnect"])

\* A new client is there: the list is mounted, after a refresh in place of the old one.
Mount(w) ==
  /\ win[w].conn = "up"
  /\ Window(w, [Unmounted(win[w], "open") EXCEPT !.conn = "no"])

\* After a flush of the database the list is mounted anew.
Remount(w) ==
  /\ win[w].view = "open"
  /\ Window(w, Unmounted(win[w], "open"))

-----------------------------------------------------------------------------
(* Jobs. *)

\* The dialog's command; a listener asked for before is registered by then.
Submit(w) ==
  /\ w \in Exporters
  /\ win[w].view = "open" /\ win[w].batch = "no" /\ win[w].ask = "no"
  /\ Window(w, [win[w] EXCEPT !.batch = "asked"])

\* export_import_check_running
May(c) == ~running[c]

\* The command finds the client, or opens one when it is gone from the table.
RunSubmit(w, t) ==
  /\ win[w].batch \in {"asked", "lost"}
  /\ thr[t].st = "free"
  /\ \/ /\ table # 0 /\ May(table) /\ UNCHANGED <<table, made>>
        /\ running' = [running EXCEPT ![table] = TRUE]
     \/ /\ table = 0 /\ made < MaxClients
        /\ made' = made + 1 /\ table' = made'
        /\ running' = [running EXCEPT ![table'] = TRUE]
  /\ thr' = [thr EXCEPT ![t] = [st |-> "work", client |-> table', left |-> Lines, by |-> w]]
  /\ win' = [win EXCEPT ![w].batch = IF @ = "asked" THEN "ok" ELSE "no", ![w].calm = TRUE]
  /\ UNCHANGED <<dropping, inbox>>

\* A job is running already, or the keys or the job's connection cannot be had.
SubmitFails(w) ==
  /\ win[w].batch \in {"asked", "lost"}
  /\ win' = [win EXCEPT ![w].batch = "no"]
  /\ \/ UNCHANGED <<table, made, running>>
     \/ table = 0 /\ Connect
  /\ UNCHANGED <<dropping, thr, inbox>>

\* The dialog reports success: the display is on and a listener is asked for.
Started(w) ==
  /\ win[w].batch = "ok"
  /\ Window(w, [win[w] EXCEPT !.batch = "no", !.shown = TRUE, !.ask = "cur"])

Listening(w) ==
  /\ win[w].ask # "no"
  /\ Window(w, [win[w] EXCEPT !.ask = "no",
       !.lst = @ \cup {win[w].ask} \cup IF win[w].ask = "cur" /\ "cur" \in @ THEN {"shadow"} ELSE {}])

\* The loop passes over what is left when the flag is down.
Work(t) ==
  /\ thr[t].st = "work" /\ thr[t].left > 0
  /\ thr' = [thr EXCEPT ![t].left = IF running[thr[t].client] THEN @ - 1 ELSE 0]
  /\ UNCHANGED <<table, made, running, dropping, win, inbox>>

Hearing == {w \in Windows : win[w].lst # {}}
ToldIfRunning(t) == IF running[thr[t].client] THEN Hearing ELSE {}
\* The finish event goes out also when the job was cut short.
Told(t) == Hearing

Finish(t) ==
  /\ thr[t].st = "work" /\ thr[t].left = 0
  /\ \A w \in Windows : Len(inbox[w]) < Undelivered
  /\ thr' = [thr EXCEPT ![t].st = "clear"]
  /\ inbox' = [w \in Windows |-> IF w \in Told(t) THEN Append(inbox[w], thr[t].by) ELSE inbox[w]]
  /\ win' = [win EXCEPT ![thr[t].by].calm =
                     @ /\ "cur" \in win[thr[t].by].lst /\ win[thr[t].by].batch # "ok"]
  /\ UNCHANGED <<table, made, running, dropping>>

AfterErrorGone == "free"
AfterError == "clear"

\* The file cannot be opened, created or read: no event.
IoError(t) ==
  /\ thr[t].st = "work"
  /\ thr' = [thr EXCEPT ![t].st = AfterError]
  /\ win' = [win EXCEPT ![thr[t].by].calm = FALSE]
  /\ UNCHANGED <<table, made, running, dropping, inbox>>

Clear(t) ==
  /\ thr[t].st = "clear"
  /\ running' = [running EXCEPT ![thr[t].client] = FALSE]
  /\ thr' = [thr EXCEPT ![t] = Free]
  /\ UNCHANGED <<table, made, dropping, win, inbox>>

\* A finish event of the connection ends the display, whosever job it was.
Hear(w) ==
  /\ inbox[w] # <<>>
  /\ inbox' = [inbox EXCEPT ![w] = Tail(@)]
  /\ win' = IF win[w].view # "closed" /\ win[w].lst # {}
            THEN [win EXCEPT ![w].shown = FALSE, ![w].lst = @ \ {"cur", "own"}] ELSE win
  /\ UNCHANGED <<table, made, running, dropping, thr>>

-----------------------------------------------------------------------------
MainStep == \E w \in Windows :
  \/ RunConnect(w) \/ ConnectFails(w) \/ RunDisconnect(w) \/ SubmitFails(w)
  \/ \E t \in Threads : RunSubmit(w, t)
JobStep(t) == Work(t) \/ Finish(t) \/ IoError(t) \/ Clear(t)
Arrives(w) == Mount(w) \/ Started(w) \/ Listening(w) \/ Hear(w)
UserStep(w) == Open(w) \/ Refresh(w) \/ Close(w) \/ Remount(w) \/ Submit(w)

Next ==
  \/ MainStep
  \/ \E t \in Threads : JobStep(t)
  \/ \E w \in Windows : Arrives(w) \/ UserStep(w)
  \/ \E c \in Clients : Dropped(c)

Spec == Init /\ [][Next]_vars

-----------------------------------------------------------------------------
(* Properties. *)

Live(t) == thr[t].st # "free"

\* However windows open, refresh and close the connection, a client never has two
\* jobs at a time, so that no thread takes down the flag of another.
OneJob == \A t, u \in Threads : t # u /\ Live(t) /\ Live(u) => thr[t].client # thr[u].client

\* The flag that refuses a second job is up only while a first one lives, also
\* after errors, so that the refusal ends.
RefusedOnlyByJob == \A c \in Clients : running[c] => \E t \in Threads : Live(t) /\ thr[t].client = c

\* A client that is out of the table and dropped has its job cut short.
CutShort == \A t \in Threads :
  thr[t].st = "work" /\ running[thr[t].client] =>
    thr[t].client = table \/ thr[t].client \in dropping

\* A display that is on belongs to a job of this window that is going on or whose
\* end is under way to it, unless the list was mounted anew, the file failed, or
\* the job was over before the listener was there.
HonestDisplay == \A w \in Windows : win[w].shown /\ win[w].calm =>
  \/ \E t \in Threads : thr[t].st = "work" /\ thr[t].by = w
  \/ \E i \in 1..Len(inbox[w]) : inbox[w][i] = w

-----------------------------------------------------------------------------
(* What the flags promise: JobLock.  A client is dropped once it was made and is in the table no more. *)

Lock == INSTANCE JobLock WITH
  job <- [t \in Threads |-> IF Live(t) THEN [client |-> thr[t].client, left |-> thr[t].left]
                                      ELSE [client |-> 0, left |-> 0]],
  gone <- {c \in 1..made : c # table /\ c \notin dropping}

\* The flag of each client, which is read, set and lowered in different places, and
\* which threads read while others drop the client, is a lock that admits one job; and
\* a job passes over what is left when its client is dropped, and only then.
Implements == Lock!Spec
=============================================================================
