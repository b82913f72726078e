----------------------------- MODULE ConnSwitch -----------------------------
(***************************************************************************)
(* A window of RedisME changes its connection: the watcher of share.conn   *)
(* with the calls it makes.                                                *)
(*                                                                         *)
(* The watcher disconnects the old connection, waits, connects the new one *)
(* and waits again.  A connection may be chosen or closed while an earlier *)
(* choice is still being carried out (the loading mask does not stop the   *)
(* keyboard, nor a click whose delay is not over), so several runs of the  *)
(* watcher are under way at a time, besides the reload of the connection,  *)
(* for which there is no mask.                                             *)
(*                                                                         *)
(* Commands run one at a time, and a window hears of them in that order.   *)
(* Other windows, and the key list's own calls, are left out.              *)
(***************************************************************************)
EXTENDS Naturals, Sequences, FiniteSets

CONSTANTS
  Conns, None,
  Runs       \* bound: runs of the watcher at a time

VARIABLES
  conn,      \* share.conn
  shown,     \* connPrepared
  caps,      \* share.capabilities: whose they are
  run,       \* runs of the watcher
  reload,    \* the connection that is being reloaded
  calls,     \* commands under way: those that have run come first
  clients,   \* the back end's table
  calm       \* history: apart, nothing was chosen while an earlier choice was under way;
             \* ok, no connecting failed, and none was chosen again after a close that was
             \* still under way

vars == <<conn, shown, caps, run, reload, calls, clients, calm>>

Maybe == Conns \cup {None}
NoRun == [at |-> "no", old |-> None, new |-> None]
Reload == "reload"
Call == [by : Runs \cup {Reload}, what : {"connect", "disconnect"}, conn : Conns,
         st : {"asked", "done", "failed"}]

TypeOK ==
  /\ conn \in Maybe /\ shown \in BOOLEAN /\ caps \in Maybe /\ reload \in Maybe
  /\ run \in [Runs -> [at : {"no", "disconnect", "connect"}, old : Maybe, new : Maybe]]
  /\ calls \in Seq(Call) /\ clients \subseteq Conns /\ calm \in [apart : BOOLEAN, ok : BOOLEAN]
  \* Every run and the reload wait for one call of theirs.
  /\ \A r \in Runs : Cardinality({i \in DOMAIN calls : calls[i].by = r})
                       = IF run[r].at = "no" THEN 0 ELSE 1
  /\ Cardinality({i \in DOMAIN calls : calls[i].by = Reload}) = IF reload = None THEN 0 ELSE 1

Init ==
  /\ conn = None /\ shown = FALSE /\ caps = None /\ run = [r \in Runs |-> NoRun]
  /\ reload = None /\ calls = <<>> /\ clients = {} /\ calm = [apart |-> TRUE, ok |-> TRUE]

Loading == \E r \in Runs : run[r].at # "no"

Asked(q, r, what, c) == Append(q, [by |-> r, what |-> what, conn |-> c, st |-> "asked"])

-----------------------------------------------------------------------------
\* What the watcher does before it waits for the first time.
Started(r, old, new, q) ==
  /\ shown' = FALSE
  /\ run' = [run EXCEPT ![r] = [at |-> IF old # None THEN "disconnect" ELSE "connect",
                                old |-> old, new |-> new]]
  /\ calls' = IF old # None THEN Asked(q, r, "disconnect", old) ELSE Asked(q, r, "connect", new)

Choose(c) ==
  /\ c # conn /\ conn' = c
  /\ \E r \in Runs : run[r].at = "no" /\ Started(r, conn, c, calls)
  /\ calm' = [apart |-> calm.apart /\ ~Loading, ok |-> calm.ok /\ ~(Loading /\ conn = None)]
  /\ UNCHANGED <<caps, reload, clients>>

\* refreshConn
ReloadConn ==
  /\ conn # None /\ reload = None /\ reload' = conn
  /\ calls' = Asked(calls, Reload, "connect", conn)
  /\ UNCHANGED <<conn, shown, caps, run, clients, calm>>

\* disconnect, whether or not there is a client.
Without(c) == clients \ {c}

\* The back end runs a command; connecting may fail, and the old client stays then.
RunCall(i) ==
  /\ calls[i].st = "asked" /\ \A j \in 1..i - 1 : calls[j].st # "asked"
  /\ \/ /\ calls[i].what = "disconnect"
        /\ clients' = Without(calls[i].conn) /\ calls' = [calls EXCEPT ![i].st = "done"]
        /\ UNCHANGED calm
     \/ /\ calls[i].what = "connect"
        /\ clients' = clients \cup {calls[i].conn} /\ calls' = [calls EXCEPT ![i].st = "done"]
        /\ UNCHANGED calm
     \/ /\ calls[i].what = "connect"
        /\ calls' = [calls EXCEPT ![i].st = "failed"] /\ UNCHANGED clients
        /\ calm' = [calm EXCEPT !.ok = FALSE]
  /\ UNCHANGED <<conn, shown, caps, run, reload>>

-----------------------------------------------------------------------------
(* A run of the watcher goes on. *)

Back(r, what, st) == calls # <<>> /\ calls[1].by = r /\ calls[1].what = what /\ calls[1].st = st

Disconnected(r) ==
  /\ Back(r, "disconnect", "done")
  /\ IF run[r].new = None
     THEN run' = [run EXCEPT ![r] = NoRun] /\ calls' = Tail(calls)
     ELSE /\ run' = [run EXCEPT ![r].at = "connect"]
          /\ calls' = Asked(Tail(calls), r, "connect", run[r].new)
  /\ UNCHANGED <<conn, shown, caps, reload, clients, calm>>

LearnedOnce(r) == IF caps = None THEN run[r].new ELSE caps
Learned(r) == run[r].new

Connected(r) ==
  /\ r # Reload /\ Back(r, "connect", "done")
  /\ caps' = Learned(r) /\ shown' = TRUE
  /\ run' = [run EXCEPT ![r] = NoRun] /\ calls' = Tail(calls)
  /\ UNCHANGED <<conn, reload, clients, calm>>

\* Without a connection before, the choice is undone, whatever was chosen since; that
\* is a change of the connection as well.
ConnectFails(r) ==
  /\ r # Reload /\ Back(r, "connect", "failed")
  /\ IF run[r].old = None /\ conn # None
     THEN conn' = None /\ Started(r, conn, None, Tail(calls))
     ELSE /\ run' = [run EXCEPT ![r] = NoRun] /\ calls' = Tail(calls)
          /\ UNCHANGED <<conn, shown>>
  /\ UNCHANGED <<caps, reload, clients, calm>>

\* The key list and the tabs are mounted anew.
Reloaded ==
  /\ Back(Reload, "connect", "done")
  /\ caps' = reload /\ shown' = TRUE
  /\ reload' = None /\ calls' = Tail(calls)
  /\ UNCHANGED <<conn, run, clients, calm>>

ReloadFails ==
  /\ Back(Reload, "connect", "failed")
  /\ reload' = None /\ calls' = Tail(calls)
  /\ UNCHANGED <<conn, shown, caps, run, clients, calm>>

-----------------------------------------------------------------------------
Next ==
  \/ \E c \in Maybe : Choose(c)
  \/ ReloadConn \/ Reloaded \/ ReloadFails
  \/ \E i \in DOMAIN calls : RunCall(i)
  \/ \E r \in Runs : Disconnected(r) \/ Connected(r) \/ ConnectFails(r)

Spec == Init /\ [][Next]_vars

-----------------------------------------------------------------------------
(* Properties. *)

AtRest == calls = <<>>

\* Once everything asked for is done, a window with a connection shows it, has a client
\* for it and knows that server's abilities, whatever was chosen, closed and reloaded
\* while the calls of earlier choices were under way, if no connecting failed and no
\* close was overtaken.
ShowsConnected ==
  AtRest /\ calm.ok /\ conn # None => shown /\ conn \in clients /\ caps = conn

\* If choices come one at a time, nothing but the chosen connection is left open,
\* also after failures and with a reload in between.
OneOpen == AtRest /\ calm.apart => clients \subseteq {conn}
=============================================================================
