------------------------------ MODULE Listener ------------------------------
(***************************************************************************)
(* The streaming tabs of RedisME: publish/subscribe, keyspace notification *)
(* and MONITOR, of one client and one window.                              *)
(*                                                                         *)
(* A start opens a connection per node and spawns a thread on it, which    *)
(* subscribes and then alternates between reading the kind's shared flag   *)
(* and blocking on the next message.  A stop clears the flag and, for the  *)
(* two subscribing kinds, publishes to a stop channel so that blocked      *)
(* threads wake up.  The threads hold nothing but the flag: a start that   *)
(* sets it again takes back a stop the threads have not seen yet.          *)
(*                                                                         *)
(* The tab keeps `subscribing` of its own and one event listener.  Pubsub  *)
(* without a pattern listens to `*`, stop channels of others included.     *)
(***************************************************************************)
EXTENDS Naturals, FiniteSets

CONSTANTS
  Kinds,      \* subset of {"pubsub", "notify", "monitor"}
  Nodes,      \* the masters a notification subscription opens a thread for
  Threads,    \* bound: thread slots
  Star,       \* what pubsub subscribes to: {TRUE} is `*`, {FALSE} patterns
  MaxInbox    \* bound: unread messages per thread

ASSUME ListenerAssumption == /\ Kinds \subseteq {"pubsub", "notify", "monitor"}
                             /\ Star \subseteq BOOLEAN /\ Star # {}
                             /\ IsFiniteSet(Nodes) /\ Nodes # {}
                             /\ MaxInbox \in Nat

VARIABLES
  running,    \* subscribe_running, notify_running, monitor_running
  thr,        \* the threads with their connections
  tab,        \* the tabs
  woken,      \* history: the kind's latest stop published its message
  after       \* history: messages a thread took since its kind was stopped

vars == <<running, thr, tab, woken, after>>

Free == [st |-> "free", kind |-> "monitor", node |-> CHOOSE n \in Nodes : TRUE,
         star |-> FALSE, sub |-> FALSE, inbox |-> 0]
Tab0 == [mounted |-> TRUE, phase |-> "idle", subscribing |-> FALSE,
         held |-> FALSE, attached |-> 0, again |-> "no", lost |-> FALSE]

TypeOK ==
  /\ running \in [Kinds -> BOOLEAN] /\ woken \in [Kinds -> BOOLEAN]
  /\ thr \in [Threads -> [st : {"free", "new", "check", "recv"},
                          kind : {"pubsub", "notify", "monitor"}, node : Nodes,
                          star : BOOLEAN, sub : BOOLEAN,
                          inbox : 0..MaxInbox + 1]]   \* unread messages
  /\ tab \in [Kinds -> [mounted : BOOLEAN, phase : {"idle", "listen", "start", "stop"},
                        subscribing : BOOLEAN,
                        held : BOOLEAN,       \* `unlisten` is of an attached listener
                        attached : 0..2,      \* listeners that add rows (bound: 2)
                        again : {"no", "queued", "done"},   \* a second start
                        lost : BOOLEAN]]      \* history: a call failed, or rebuilt while running
  /\ after \in [Threads -> 0..2]

Init ==
  /\ running = [k \in Kinds |-> FALSE] /\ woken = [k \in Kinds |-> FALSE]
  /\ thr = [t \in Threads |-> Free] /\ tab = [k \in Kinds |-> Tab0]
  /\ after = [t \in Threads |-> 0]

Live(t) == thr[t].st # "free"
Loops(k) == {t \in Threads : Live(t) /\ thr[t].kind = k}

-----------------------------------------------------------------------------
(* The server hands messages to the connections that are subscribed.  A    *)
(* subscription that is sent but not yet processed gets its confirmation   *)
(* later, and nothing that was published before.                           *)

Deliver(gets) == [t \in Threads |-> IF thr[t].sub /\ t \in gets
                                    THEN [thr[t] EXCEPT !.inbox = @ + 1] ELSE thr[t]]

Confirm(t) ==
  /\ thr[t].st \in {"check", "recv"} /\ ~thr[t].sub
  /\ thr' = [thr EXCEPT ![t].sub = TRUE, ![t].inbox = 1]
  /\ UNCHANGED <<running, tab, woken, after>>

\* Other clients' messages, key events or commands.
Traffic(k) ==
  /\ \A t \in Loops(k) : thr[t].inbox < MaxInbox
  /\ thr' = Deliver(Loops(k))
  /\ UNCHANGED <<running, tab, woken, after>>

\* Who gets a stop message of kind k: patterns end with the own stop channel,
\* `*` matches any channel, and MONITOR sees every command.
NoStopChannel(k) ==
  {t \in Threads : thr[t].kind = "monitor" \/ (thr[t].kind = "pubsub" /\ thr[t].star)}
Woken(k) ==
  {t \in Threads : thr[t].kind \in {k, "monitor"} \/ (thr[t].kind = "pubsub" /\ thr[t].star)}

-----------------------------------------------------------------------------
(* The threads. *)

\* The subscription is sent before the flag is read for the first time.
Subscribe(t) ==
  /\ thr[t].st = "new"
  /\ thr' = [thr EXCEPT ![t].st = "check"]
  /\ UNCHANGED <<running, tab, woken, after>>

Check(t) ==
  /\ thr[t].st = "check"
  /\ thr' = [thr EXCEPT ![t] = IF running[thr[t].kind] THEN [@ EXCEPT !.st = "recv"] ELSE Free]
  /\ after' = IF running[thr[t].kind] THEN after ELSE [after EXCEPT ![t] = 0]
  /\ UNCHANGED <<running, tab, woken>>

LoopWithoutCheck == "recv"
AfterMessage == "check"

\* recv_response returns; what is emitted of the message is left out.
Recv(t) ==
  /\ thr[t].st = "recv" /\ thr[t].inbox > 0
  /\ thr' = [thr EXCEPT ![t].st = AfterMessage, ![t].inbox = @ - 1]
  /\ after' = [after EXCEPT ![t] = IF running[thr[t].kind] \/ @ = 2 THEN @ ELSE @ + 1]
  /\ UNCHANGED <<running, tab, woken>>

\* The connection breaks: the thread returns with `?`, the flag stays set.
Break(t) ==
  /\ thr[t].st \in {"new", "recv"}
  /\ thr' = [thr EXCEPT ![t] = Free]
  /\ after' = [after EXCEPT ![t] = 0]
  /\ UNCHANGED <<running, tab, woken>>

-----------------------------------------------------------------------------
(* The tab.  The button is locked while a handler is in progress, except   *)
(* for the start of MONITOR, whose handler ends when its dialog opens; the *)
(* tab may be unmounted meanwhile, and the handler goes on.                *)

KeepListener(x) == x
UnlistenAlways(x) == [x EXCEPT !.held = FALSE, !.attached = @ - 1]
Unlisten(x) == [x EXCEPT !.held = FALSE, !.attached = IF x.held THEN @ - 1 ELSE @]

ClickStart(k) ==
  /\ tab[k].mounted /\ tab[k].phase = "idle" /\ ~tab[k].subscribing
  /\ tab[k].attached < 2
  /\ tab' = [tab EXCEPT ![k].phase = "listen"]
  /\ UNCHANGED <<running, thr, woken, after>>

\* A second dialog is confirmed before the first start is through; it runs after
\* the first (bound: two starts, and no stop between them).
ClickStartAgain(k) ==
  /\ k = "monitor" /\ tab[k].mounted /\ tab[k].phase \in {"listen", "start"}
  /\ tab[k].again = "no" /\ tab[k].attached < IF tab[k].phase = "listen" THEN 1 ELSE 2
  /\ tab' = [tab EXCEPT ![k].again = "queued"]
  /\ UNCHANGED <<running, thr, woken, after>>

\* tauriListen: the new listener replaces the old one in `unlisten`.
Listened(k) ==
  /\ tab[k].phase = "listen"
  /\ tab' = [tab EXCEPT ![k].phase = "start", ![k].held = TRUE, ![k].attached = @ + 1]
  /\ UNCHANGED <<running, thr, woken, after>>

\* The start is through.
Started(x) == IF x.again = "queued" THEN [x EXCEPT !.phase = "listen", !.again = "done"]
                                    ELSE [x EXCEPT !.phase = "idle"]

\* One thread per node; only the notifications of a cluster have several.
NodesOf(k) == IF k = "notify" THEN Nodes ELSE {CHOOSE n \in Nodes : TRUE}

Spawn(k, ns) ==
  \E slot \in [ns -> {t \in Threads : ~Live(t)}], star \in Star :
    /\ \A m, n \in ns : m # n => slot[m] # slot[n]
    /\ thr' = [t \in Threads |->
                 IF \E n \in ns : slot[n] = t
                 THEN [Free EXCEPT !.st = "new", !.kind = k, !.star = star /\ k = "pubsub",
                                   !.node = CHOOSE n \in ns : slot[n] = t]
                 ELSE thr[t]]
    /\ after' = [t \in Threads |-> IF thr[t].kind = k /\ ns # {} THEN 0 ELSE after[t]]

StartOk(k) ==
  /\ tab[k].phase = "start"
  /\ Spawn(k, NodesOf(k))
  /\ running' = [running EXCEPT ![k] = TRUE]
  /\ tab' = [tab EXCEPT ![k] = [Started(@) EXCEPT !.subscribing = TRUE]]
  /\ UNCHANGED woken

\* Dialling some node fails; the threads of the nodes before it run already.
StartFail(k) ==
  /\ tab[k].phase = "start"
  /\ \E ns \in SUBSET NodesOf(k) :
       /\ ns # NodesOf(k)
       /\ Spawn(k, ns)
       /\ running' = [running EXCEPT ![k] = @ \/ ns # {}]
  /\ tab' = [tab EXCEPT ![k] = [Started(@) EXCEPT !.lost = TRUE]]
  /\ UNCHANGED woken

\* The listener goes first, then the back end is asked.
ClickStop(k) ==
  /\ tab[k].mounted /\ tab[k].phase = "idle" /\ tab[k].subscribing
  /\ tab' = [tab EXCEPT ![k] = [Unlisten(@) EXCEPT !.phase = "stop"]]
  /\ UNCHANGED <<running, thr, woken, after>>

\* The flag, then the message; MONITOR has no message.
StopOk(k) ==
  /\ tab[k].phase = "stop"
  /\ \A t \in Threads : thr[t].inbox <= MaxInbox
  /\ running' = [running EXCEPT ![k] = FALSE]
  /\ woken' = [woken EXCEPT ![k] = k # "monitor"]
  /\ thr' = IF k = "monitor" THEN thr ELSE Deliver(Woken(k))
  /\ tab' = [tab EXCEPT ![k].phase = "idle", ![k].subscribing = FALSE]
  /\ UNCHANGED after

\* get_conn fails before the flag is touched, or PUBLISH fails after it is.
StopFail(k) ==
  /\ tab[k].phase = "stop" /\ k # "monitor"
  /\ \/ UNCHANGED <<running, woken>>
     \/ /\ running' = [running EXCEPT ![k] = FALSE]
        /\ woken' = [woken EXCEPT ![k] = FALSE]
  /\ tab' = [tab EXCEPT ![k].phase = "idle", ![k].lost = TRUE]
  /\ UNCHANGED <<thr, after>>

\* A refresh of the connection destroys the tab and builds a new one, which
\* knows nothing of the threads (bound: built when the old one's handler ended).
Unmount(k) ==
  /\ tab[k].mounted
  /\ tab' = [tab EXCEPT ![k] = [Unlisten(@) EXCEPT !.mounted = FALSE]]
  /\ UNCHANGED <<running, thr, woken, after>>

Remount(k) ==
  /\ ~tab[k].mounted /\ tab[k].phase = "idle"
  /\ tab' = [tab EXCEPT ![k] = [Tab0 EXCEPT !.lost = running[k]]]
  /\ UNCHANGED <<running, thr, woken, after>>

-----------------------------------------------------------------------------
ThreadStep(t) == Subscribe(t) \/ Check(t) \/ Recv(t) \/ Confirm(t)
TabStep(k) == \/ ClickStart(k) \/ ClickStartAgain(k) \/ Listened(k) \/ StartOk(k) \/ StartFail(k)
              \/ ClickStop(k) \/ StopOk(k) \/ StopFail(k) \/ Unmount(k) \/ Remount(k)

Next == \/ \E t \in Threads : ThreadStep(t) \/ Break(t)
        \/ \E k \in Kinds : TabStep(k) \/ Traffic(k)

Spec == Init /\ [][Next]_vars

\* Threads are scheduled and the server answers what it has received.
Fairness == \A t \in Threads : WF_vars(ThreadStep(t))
FairSpec == Spec /\ Fairness

-----------------------------------------------------------------------------
(* Properties. *)

\* A tab whose calls succeed one at a time, and that was not rebuilt over a
\* running stream, shows what the back end does: it says subscribing exactly when
\* the flag is set, and then has one listener (rows appear, and once), else none.
TabAgrees ==
  \A k \in Kinds : LET x == tab[k] IN
    x.mounted /\ x.phase = "idle" /\ ~x.lost /\ x.again = "no" =>
      /\ x.subscribing = running[k]
      /\ x.attached = IF x.subscribing THEN 1 ELSE 0

\* A thread whose kind is stopped takes at most one more message, however many
\* are waiting (pubsub.rs: the loop ends at the next output).
AfterStopOneMore ==
  \A t \in Threads : Live(t) /\ ~running[thr[t].kind] => after[t] <= 1

\* A stop whose message went out ends all threads of its kind, also those that
\* were blocked or had not yet been subscribed, unless someone starts anew.
StopEndsLoops ==
  \A k \in Kinds : ~running[k] /\ woken[k] ~> running[k] \/ Loops(k) = {}

=============================================================================
