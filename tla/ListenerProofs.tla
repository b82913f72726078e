--------------------------- MODULE ListenerProofs ---------------------------
(***************************************************************************)
(* Proofs about Listener: for any kinds, nodes, threads and messages a tab *)
(* agrees with the back end, and a stopped thread takes one more message.  *)
(***************************************************************************)
EXTENDS Listener, TLAPS

TabType == [mounted : BOOLEAN, phase : {"idle", "listen", "start", "stop"},
            subscribing : BOOLEAN, held : BOOLEAN, attached : 0..2,
            again : {"no", "queued", "done"}, lost : BOOLEAN]

ThrType == [st : {"free", "new", "check", "recv"}, kind : {"pubsub", "notify", "monitor"},
            node : Nodes, star : BOOLEAN, sub : BOOLEAN, inbox : 0..MaxInbox + 1]

\* The listener that is held is attached, and there is room for the next one of a start.
Counted(x) ==
  /\ x.held => x.attached >= 1
  /\ x.phase = "listen" => x.attached < 2
  /\ x.again = "queued" => /\ x.phase \in {"listen", "start"}
                           /\ x.attached < IF x.phase = "listen" THEN 1 ELSE 2

\* What TabAgrees says, for the states between a click and the end of its handler.
Sound(x, on) ==
  x.mounted /\ ~x.lost /\ x.again = "no" =>
    /\ x.subscribing <=> on
    /\ x.phase \in {"listen", "start"} => ~on
    /\ x.phase = "stop" => on
    /\ x.held <=> (x.phase = "start" \/ (x.phase = "idle" /\ on))
    /\ x.attached = IF x.held THEN 1 ELSE 0

\* A thread that has taken a message since its kind was stopped looks at the flag next.
LastMessage == \A t \in Threads :
  after[t] # 0 => after[t] = 1 /\ thr[t].st = "check" /\ ~running[thr[t].kind]

Types == TypeOK /\ \A t \in Threads : Live(t) => thr[t].kind \in Kinds
Tabs == \A k \in Kinds : Counted(tab[k]) /\ Sound(tab[k], running[k])
IInv == Types /\ Tabs /\ LastMessage

-----------------------------------------------------------------------------
LEMMA Basics ==
  /\ Free \in ThrType /\ Tab0 \in TabType /\ 0 \in 0..MaxInbox + 1 /\ 1 \in 0..MaxInbox + 1
  /\ \A k : NodesOf(k) \subseteq Nodes /\ NodesOf(k) # {}
<1>1. (CHOOSE n \in Nodes : TRUE) \in Nodes /\ MaxInbox \in Nat
  BY ListenerAssumption
<1> QED
  BY <1>1, ListenerAssumption DEF Free, Tab0, ThrType, TabType, NodesOf

\* The initial state.
LEMMA InitHolds == Init => IInv
<1> SUFFICES ASSUME Init PROVE IInv
  OBVIOUS
<1>1. TypeOK
  BY Basics DEF Init, TypeOK, ThrType, TabType
<1>2. \A t \in Threads : ~Live(t)
  BY DEF Init, Live, Free
<1>3. \A k \in Kinds : tab[k] = Tab0 /\ running[k] = FALSE
  BY DEF Init
<1>4. Tabs
  BY <1>3 DEF Tabs, Counted, Sound, Tab0
<1> QED
  BY <1>1, <1>2, <1>4 DEF IInv, Types, LastMessage, Init

-----------------------------------------------------------------------------
(* Threads. *)

\* A step of one thread keeps what the tabs need.
LEMMA ThreadTyped ==
  ASSUME IInv, NEW t \in Threads, NEW x \in ThrType, thr' = [thr EXCEPT ![t] = x],
         x.st # "free" => x.kind \in Kinds, after' \in [Threads -> 0..2],
         UNCHANGED <<running, tab, woken>>
  PROVE  Types' /\ Tabs'
<1>1. TypeOK'
  BY DEF IInv, Types, TypeOK, ThrType
<1>2. (\A u \in Threads : Live(u) => thr[u].kind \in Kinds)'
  BY DEF IInv, Types, TypeOK, Live
<1> QED
  BY <1>1, <1>2 DEF IInv, Types, Tabs

\* Each thread's steps.
LEMMA ThreadKeeps ==
  ASSUME IInv, NEW t \in Threads, ThreadStep(t) \/ Break(t)
  PROVE  IInv'
<1> USE DEF IInv, Types
<1>0. thr[t] \in ThrType /\ after \in [Threads -> 0..2] /\ thr \in [Threads -> ThrType]
  BY DEF TypeOK, ThrType
<1>1. CASE Subscribe(t) \/ Confirm(t)
  <2>1. PICK x \in ThrType : /\ thr' = [thr EXCEPT ![t] = x] /\ x.kind = thr[t].kind
                             /\ thr[t].st = "check" => x.st = "check"
                             /\ x.st # "free" /\ thr[t].st # "free"
    <3>1. CASE Subscribe(t)
      <4>1. [thr[t] EXCEPT !.st = "check"] \in ThrType
        BY <1>0 DEF ThrType
      <4> QED
        BY <1>0, <3>1, <4>1 DEF Subscribe, ThrType
    <3>2. CASE Confirm(t)
      <4>1. [thr[t] EXCEPT !.sub = TRUE, !.inbox = 1] \in ThrType
        BY <1>0, Basics DEF ThrType
      <4> QED
        BY <1>0, <3>2, <4>1 DEF Confirm, ThrType
    <3> QED
      BY <1>1, <3>1, <3>2
  <2>2. after' = after /\ UNCHANGED <<running, tab, woken>>
    BY <1>1 DEF Subscribe, Confirm
  <2>3. Types' /\ Tabs'
    BY <1>0, <2>1, <2>2, ThreadTyped DEF Live
  <2>4. LastMessage'
    BY <1>0, <2>1, <2>2 DEF LastMessage
  <2> QED
    BY <2>3, <2>4
<1>2. CASE Check(t) /\ running[thr[t].kind]
  <2>1. /\ thr' = [thr EXCEPT ![t] = [thr[t] EXCEPT !.st = "recv"]] /\ after' = after
        /\ thr[t].st = "check" /\ UNCHANGED <<running, tab, woken>>
    BY <1>2 DEF Check
  <2>2. [thr[t] EXCEPT !.st = "recv"] \in ThrType
    BY <1>0 DEF ThrType
  <2>3. Types' /\ Tabs'
    <3>1. thr[t].kind \in Kinds /\ [thr[t] EXCEPT !.st = "recv"].kind = thr[t].kind
      BY <1>0, <2>1 DEF Live, ThrType
    <3> QED
      BY <1>0, <2>1, <2>2, <3>1, ThreadTyped
  <2>4. after[t] = 0
    BY <1>2 DEF LastMessage
  <2>5. LastMessage'
    BY <1>0, <2>1, <2>4 DEF LastMessage
  <2> QED
    BY <2>3, <2>5
<1>3. CASE Break(t) \/ (Check(t) /\ ~running[thr[t].kind])
  <2>1. /\ thr' = [thr EXCEPT ![t] = Free] /\ after' = [after EXCEPT ![t] = 0]
        /\ UNCHANGED <<running, tab, woken>>
    BY <1>3 DEF Check, Break
  <2>2. Types' /\ Tabs'
    <3>1. Free \in ThrType /\ Free.st = "free" /\ after' \in [Threads -> 0..2]
      BY <1>0, <2>1, Basics DEF Free
    <3> QED
      BY <2>1, <3>1, ThreadTyped
  <2>3. LastMessage'
    BY <1>0, <2>1 DEF LastMessage
  <2> QED
    BY <2>2, <2>3
<1>4. CASE Recv(t)
  <2>1. /\ thr' = [thr EXCEPT ![t] = [thr[t] EXCEPT !.st = "check", !.inbox = @ - 1]]
        /\ thr[t].st = "recv" /\ thr[t].inbox > 0 /\ UNCHANGED <<running, tab, woken>>
    BY <1>0, <1>4 DEF Recv, AfterMessage
  <2>2. [thr[t] EXCEPT !.st = "check", !.inbox = @ - 1] \in ThrType
    <3>1. MaxInbox \in Nat /\ thr[t].inbox \in 0..MaxInbox + 1
      BY <1>0, ListenerAssumption DEF ThrType
    <3>2. thr[t].inbox - 1 \in 0..MaxInbox + 1
      BY <2>1, <3>1
    <3> QED
      BY <1>0, <3>2 DEF ThrType
  <2>3. after[t] = 0
    BY <2>1 DEF LastMessage
  <2>4. after' = [after EXCEPT ![t] = IF running[thr[t].kind] THEN 0 ELSE 1]
    BY <1>0, <1>4, <2>3 DEF Recv
  <2>5. Types' /\ Tabs'
    <3>1. /\ thr[t].kind \in Kinds
          /\ [thr[t] EXCEPT !.st = "check", !.inbox = @ - 1].kind = thr[t].kind
      BY <1>0, <2>1 DEF Live, ThrType
    <3>2. after' \in [Threads -> 0..2]
      BY <1>0, <2>4
    <3> QED
      BY <1>0, <2>1, <2>2, <3>1, <3>2, ThreadTyped
  <2>6. LastMessage'
    BY <1>0, <2>1, <2>4 DEF LastMessage
  <2> QED
    BY <2>5, <2>6
<1> QED
  BY <1>1, <1>2, <1>3, <1>4 DEF ThreadStep

-----------------------------------------------------------------------------
(* What is delivered, and what starts. *)

\* Messages reach threads and change nothing else.
LEMMA DeliverTyped ==
  ASSUME IInv, NEW S, \A t \in Threads : thr[t].sub /\ t \in S => thr[t].inbox <= MaxInbox,
         thr' = Deliver(S)
  PROVE  /\ thr' \in [Threads -> ThrType]
         /\ \A t \in Threads : thr'[t].st = thr[t].st /\ thr'[t].kind = thr[t].kind
<1>1. thr \in [Threads -> ThrType] /\ MaxInbox \in Nat
  BY ListenerAssumption DEF IInv, Types, TypeOK, ThrType
<1>2. ASSUME NEW t \in Threads
      PROVE  thr'[t] \in ThrType /\ thr'[t].st = thr[t].st /\ thr'[t].kind = thr[t].kind
  <2>1. thr'[t] = IF thr[t].sub /\ t \in S THEN [thr[t] EXCEPT !.inbox = @ + 1] ELSE thr[t]
    BY DEF Deliver
  <2>2. CASE thr[t].sub /\ t \in S
    <3>1. thr[t].inbox \in 0..MaxInbox + 1 /\ thr[t].inbox <= MaxInbox
      BY <1>1, <2>2 DEF ThrType
    <3>2. thr[t].inbox + 1 \in 0..MaxInbox + 1
      BY <1>1, <3>1
    <3> QED
      BY <1>1, <2>1, <2>2, <3>2 DEF ThrType
  <2> QED
    BY <1>1, <2>1, <2>2
<1>3. thr' = [t \in Threads |-> thr'[t]]
  BY DEF Deliver
<1> QED
  BY <1>2, <1>3

LEMMA TrafficKeeps ==
  ASSUME IInv, NEW k \in Kinds, Traffic(k)
  PROVE  IInv'
<1>1. /\ thr' \in [Threads -> ThrType]
      /\ \A t \in Threads : thr'[t].st = thr[t].st /\ thr'[t].kind = thr[t].kind
  <2>1. \A t \in Threads : thr[t].sub /\ t \in Loops(k) => thr[t].inbox <= MaxInbox
    BY ListenerAssumption DEF Traffic, IInv, Types, TypeOK
  <2> QED
    BY <2>1, DeliverTyped DEF Traffic
<1>2. UNCHANGED <<running, tab, woken, after>>
  BY DEF Traffic
<1>3. Types'
  BY <1>1, <1>2 DEF IInv, Types, TypeOK, ThrType, Live
<1>4. Tabs' /\ LastMessage'
  BY <1>1, <1>2 DEF IInv, Tabs, LastMessage
<1> QED
  BY <1>3, <1>4 DEF IInv

\* New threads are of the kind, and all its threads begin to be counted anew.
LEMMA SpawnTyped ==
  ASSUME IInv, NEW k \in Kinds, NEW ns \in SUBSET Nodes, Spawn(k, ns)
  PROVE  /\ thr' \in [Threads -> ThrType] /\ after' \in [Threads -> 0..2]
         /\ \A t \in Threads :
              \/ /\ ns # {} /\ thr[t].st = "free" /\ thr'[t].st = "new" /\ thr'[t].kind = k
              \/ thr'[t] = thr[t]
         /\ \A t \in Threads : after'[t] = IF thr[t].kind = k /\ ns # {} THEN 0 ELSE after[t]
<1>0. thr \in [Threads -> ThrType] /\ after \in [Threads -> 0..2] /\ k \in {"pubsub", "notify", "monitor"}
  BY ListenerAssumption DEF IInv, Types, TypeOK, ThrType
<1>1. PICK slot \in [ns -> {t \in Threads : ~Live(t)}], star \in Star :
        /\ thr' = [t \in Threads |->
                     IF \E n \in ns : slot[n] = t
                     THEN [Free EXCEPT !.st = "new", !.kind = k, !.star = star /\ k = "pubsub",
                                       !.node = CHOOSE n \in ns : slot[n] = t]
                     ELSE thr[t]]
        /\ after' = [t \in Threads |-> IF thr[t].kind = k /\ ns # {} THEN 0 ELSE after[t]]
  BY DEF Spawn
<1>2. ASSUME NEW t \in Threads, NEW n \in ns, slot[n] = t
      PROVE  /\ ns # {} /\ thr[t].st = "free" /\ thr'[t].st = "new" /\ thr'[t].kind = k
             /\ thr'[t] \in ThrType
  <2>1. (CHOOSE m \in ns : slot[m] = t) \in Nodes
    BY <1>2
  <2>2. /\ Free = [st |-> "free", kind |-> "monitor", node |-> CHOOSE m \in Nodes : TRUE,
                   star |-> FALSE, sub |-> FALSE, inbox |-> 0]
        /\ 0 \in 0..MaxInbox + 1 /\ (star /\ k = "pubsub") \in BOOLEAN
    BY Basics DEF Free
  <2>3. thr'[t] = [st |-> "new", kind |-> k, node |-> CHOOSE m \in ns : slot[m] = t,
                   star |-> star /\ k = "pubsub", sub |-> FALSE, inbox |-> 0]
    BY <1>1, <1>2, <2>2
  <2>4. thr[t].st = "free"
    BY <1>2 DEF Live
  <2> QED
    BY <1>0, <2>1, <2>2, <2>3, <2>4 DEF ThrType
<1>3. \A t \in Threads : (\E n \in ns : slot[n] = t) \/ thr'[t] = thr[t]
  BY <1>1
<1>4. \A t \in Threads : thr'[t] \in ThrType
  BY <1>0, <1>2, <1>3
<1>5. thr' = [t \in Threads |-> thr'[t]]
  BY <1>1
<1>6. after' \in [Threads -> 0..2]
  <2>1. \A t \in Threads : (IF thr[t].kind = k /\ ns # {} THEN 0 ELSE after[t]) \in 0..2
    BY <1>0
  <2> QED
    BY <1>1, <2>1
<1> QED
  BY <1>1, <1>2, <1>3, <1>4, <1>5, <1>6

\* A start that reaches some nodes sets the flag, and counts their threads anew.
LEMMA SpawnKeeps ==
  ASSUME IInv, NEW k \in Kinds, NEW ns \in SUBSET Nodes, Spawn(k, ns),
         running' = [running EXCEPT ![k] = @ \/ ns # {}]
  PROVE  /\ thr' \in [Threads -> ThrType] /\ after' \in [Threads -> 0..2]
         /\ running' \in [Kinds -> BOOLEAN] /\ LastMessage'
         /\ (\A t \in Threads : Live(t) => thr[t].kind \in Kinds)'
<1> USE DEF IInv, Types, TypeOK
<1>1. /\ thr' \in [Threads -> ThrType] /\ after' \in [Threads -> 0..2]
      /\ \A t \in Threads :
           \/ /\ ns # {} /\ thr[t].st = "free" /\ thr'[t].st = "new" /\ thr'[t].kind = k
           \/ thr'[t] = thr[t]
      /\ \A t \in Threads : after'[t] = IF thr[t].kind = k /\ ns # {} THEN 0 ELSE after[t]
  BY SpawnTyped
<1>2. running' \in [Kinds -> BOOLEAN]
  OBVIOUS
<1>3. (\A t \in Threads : Live(t) => thr[t].kind \in Kinds)'
  BY <1>1 DEF Live
<1>4. LastMessage'
  <2> SUFFICES ASSUME NEW t \in Threads, after'[t] # 0
               PROVE  after'[t] = 1 /\ thr'[t].st = "check" /\ ~running'[thr'[t].kind]
    BY DEF LastMessage
  <2>1. after'[t] = after[t] /\ ~(thr[t].kind = k /\ ns # {})
    BY <1>1
  <2>2. after[t] = 1 /\ thr[t].st = "check" /\ ~running[thr[t].kind]
    BY <2>1 DEF LastMessage
  <2>3. thr'[t] = thr[t] /\ thr[t].kind \in Kinds
    BY <1>1, <2>2 DEF Live
  <2> QED
    BY <2>1, <2>2, <2>3
<1> QED
  BY <1>1, <1>2, <1>3, <1>4

-----------------------------------------------------------------------------
(* The tab. *)

\* The state of one tab changes; the flag of its kind may change with it.
LEMMA TabTyped ==
  ASSUME IInv, NEW k \in Kinds, NEW x \in TabType, tab' = [tab EXCEPT ![k] = x],
         running' \in [Kinds -> BOOLEAN], \A j \in Kinds : j # k => running'[j] = running[j],
         Counted(x), Sound(x, running'[k])
  PROVE  tab' \in [Kinds -> TabType] /\ Tabs'
<1>1. tab \in [Kinds -> TabType]
  BY DEF IInv, Types, TypeOK, TabType
<1> QED
  BY <1>1 DEF IInv, Tabs

\* A listener goes only if it is held.
LEMMA UnlistenTyped ==
  ASSUME NEW x \in TabType, Counted(x)
  PROVE  /\ Unlisten(x) \in TabType
         /\ Unlisten(x).phase = x.phase /\ Unlisten(x).mounted = x.mounted
         /\ Unlisten(x).subscribing = x.subscribing /\ Unlisten(x).again = x.again
         /\ Unlisten(x).lost = x.lost /\ ~Unlisten(x).held
         /\ Unlisten(x).attached = IF x.held THEN x.attached - 1 ELSE x.attached
<1>1. x.attached \in 0..2 /\ x.held \in BOOLEAN
  BY DEF TabType
<1>2. (IF x.held THEN x.attached - 1 ELSE x.attached) \in 0..2
  BY <1>1 DEF Counted
<1> QED
  BY <1>2 DEF Unlisten, TabType

\* Clicks, and a tab that goes or is built anew: the back end is not touched.
LEMMA ClicksKeep ==
  ASSUME IInv, NEW k \in Kinds,
         ClickStart(k) \/ ClickStartAgain(k) \/ Listened(k) \/ ClickStop(k) \/ Unmount(k) \/ Remount(k)
  PROVE  IInv'
<1>0. /\ tab[k] \in TabType /\ Counted(tab[k]) /\ Sound(tab[k], running[k])
      /\ running \in [Kinds -> BOOLEAN] /\ running[k] \in BOOLEAN
  BY DEF IInv, Types, TypeOK, TabType, Tabs
<1>1. UNCHANGED <<running, thr, woken, after>>
  BY DEF ClickStart, ClickStartAgain, Listened, ClickStop, Unmount, Remount
<1>2. ASSUME NEW x \in TabType, tab' = [tab EXCEPT ![k] = x], Counted(x), Sound(x, running[k])
      PROVE  IInv'
  <2>1. tab' \in [Kinds -> TabType] /\ Tabs'
    BY <1>0, <1>1, <1>2, TabTyped
  <2>2. Types' /\ LastMessage'
    BY <1>1, <2>1 DEF IInv, Types, TypeOK, TabType, Live, LastMessage
  <2> QED
    BY <2>1, <2>2 DEF IInv
<1>3. CASE ClickStart(k)
  <2> DEFINE x == [tab[k] EXCEPT !.phase = "listen"]
  <2>1. x \in TabType /\ Counted(x) /\ Sound(x, running[k])
    BY <1>0, <1>3 DEF ClickStart, TabType, Counted, Sound
  <2>2. tab' = [tab EXCEPT ![k] = x]
    BY <1>3 DEF ClickStart
  <2> QED
    BY ONLY <1>2, <2>1, <2>2
<1>4. CASE ClickStartAgain(k)
  <2> DEFINE x == [tab[k] EXCEPT !.again = "queued"]
  <2>1. x \in TabType /\ Counted(x) /\ Sound(x, running[k])
    BY <1>0, <1>4 DEF ClickStartAgain, TabType, Counted, Sound
  <2>2. tab' = [tab EXCEPT ![k] = x]
    BY <1>4 DEF ClickStartAgain
  <2> QED
    BY ONLY <1>2, <2>1, <2>2
<1>5. CASE Listened(k)
  <2> DEFINE x == [tab[k] EXCEPT !.phase = "start", !.held = TRUE, !.attached = @ + 1]
  <2>1. tab[k].phase = "listen" /\ tab[k].attached < 2 /\ tab[k].attached \in 0..2
    BY <1>0, <1>5 DEF Listened, Counted, TabType
  <2>2. tab[k].attached + 1 \in 0..2
    BY <2>1
  <2>3. x \in TabType /\ Counted(x) /\ Sound(x, running[k])
    <3>1. /\ x \in TabType /\ x.phase = "start" /\ x.held /\ x.attached = tab[k].attached + 1
          /\ x.mounted = tab[k].mounted /\ x.lost = tab[k].lost /\ x.again = tab[k].again
          /\ x.subscribing = tab[k].subscribing
      BY <1>0, <2>2 DEF TabType
    <3>2. Counted(x)
      BY <1>0, <2>1, <3>1 DEF Counted
    <3>3. tab[k].held \in BOOLEAN /\ tab[k].subscribing \in BOOLEAN
      BY <1>0 DEF TabType
    <3>4. Sound(x, running[k])
      BY <1>0, <2>1, <3>1, <3>3 DEF Sound
    <3> QED
      BY <3>1, <3>2, <3>4
  <2>4. tab' = [tab EXCEPT ![k] = x]
    BY <1>5 DEF Listened
  <2> QED
    BY ONLY <1>2, <2>3, <2>4
<1>6. CASE ClickStop(k)
  <2> DEFINE x == [Unlisten(tab[k]) EXCEPT !.phase = "stop"]
  <2>1. x \in TabType /\ x.phase = "stop"
        /\ x.subscribing = tab[k].subscribing /\ x.mounted = tab[k].mounted /\ x.lost = tab[k].lost
        /\ x.again = tab[k].again /\ ~x.held
        /\ x.attached = IF tab[k].held THEN tab[k].attached - 1 ELSE tab[k].attached
    <3>1. Unlisten(tab[k]) \in TabType
      BY <1>0, UnlistenTyped
    <3> QED
      BY <1>0, <3>1, UnlistenTyped DEF TabType
  <2>2. Counted(x) /\ Sound(x, running[k])
    <3>1. tab[k].phase = "idle" /\ tab[k].subscribing /\ tab[k].attached \in 0..2
      BY <1>0, <1>6 DEF ClickStop, TabType
    <3>2. Counted(x)
      BY <1>0, <2>1, <3>1 DEF Counted
    <3>3. ASSUME tab[k].mounted, ~tab[k].lost, tab[k].again = "no"
          PROVE  running[k] /\ tab[k].held /\ tab[k].attached = 1
      BY <1>0, <3>1, <3>3 DEF Sound
    <3>4. x.subscribing
      BY <2>1, <3>1
    <3>5. Sound(x, running[k])
      BY <2>1, <3>3, <3>4 DEF Sound
    <3> QED
      BY <3>2, <3>5
  <2>3. tab' = [tab EXCEPT ![k] = x]
    BY <1>6 DEF ClickStop
  <2> QED
    BY ONLY <1>2, <2>1, <2>2, <2>3
<1>7. CASE Unmount(k)
  <2> DEFINE x == [Unlisten(tab[k]) EXCEPT !.mounted = FALSE]
  <2>1. x \in TabType /\ ~x.mounted /\ x.phase = tab[k].phase /\ x.again = tab[k].again /\ ~x.held
        /\ x.attached = IF tab[k].held THEN tab[k].attached - 1 ELSE tab[k].attached
    <3>1. Unlisten(tab[k]) \in TabType
      BY <1>0, UnlistenTyped
    <3> QED
      BY <1>0, <3>1, UnlistenTyped DEF TabType
  <2>2. Counted(x) /\ Sound(x, running[k])
    BY <1>0, <2>1 DEF TabType, Counted, Sound
  <2>3. tab' = [tab EXCEPT ![k] = x]
    BY <1>7 DEF Unmount
  <2> QED
    BY ONLY <1>2, <2>1, <2>2, <2>3
<1>8. CASE Remount(k)
  <2> DEFINE x == [Tab0 EXCEPT !.lost = running[k]]
  <2>1. x \in TabType /\ Counted(x) /\ Sound(x, running[k])
    <3>1. /\ Tab0 \in TabType /\ Tab0.phase = "idle" /\ ~Tab0.subscribing /\ ~Tab0.held
          /\ Tab0.attached = 0 /\ Tab0.again = "no"
      BY Basics DEF Tab0
    <3>2. /\ x \in TabType /\ x.phase = "idle" /\ ~x.subscribing /\ ~x.held
          /\ x.attached = 0 /\ x.again = "no" /\ (x.lost <=> running[k])
      BY <1>0, <3>1 DEF TabType
    <3>3. Counted(x)
      BY <3>2 DEF Counted
    <3>4. Sound(x, running[k])
      BY <3>2 DEF Sound
    <3> QED
      BY <3>2, <3>3, <3>4
  <2>2. tab' = [tab EXCEPT ![k] = x]
    BY <1>8 DEF Remount
  <2> QED
    BY ONLY <1>2, <2>1, <2>2
<1> QED
  BY <1>3, <1>4, <1>5, <1>6, <1>7, <1>8

\* The start is through: another one follows, or the tab is idle.
LEMMA StartedTyped ==
  ASSUME NEW x \in TabType, Counted(x), x.phase = "start"
  PROVE  /\ Started(x) \in TabType /\ Counted(Started(x))
         /\ Started(x).mounted = x.mounted /\ Started(x).lost = x.lost
         /\ Started(x).held = x.held /\ Started(x).attached = x.attached
         /\ Started(x).again = "no" => x.again = "no" /\ Started(x).phase = "idle"
<1>1. CASE x.again = "queued"
  <2>1. Started(x) = [x EXCEPT !.phase = "listen", !.again = "done"]
    BY <1>1 DEF Started
  <2>2. x.attached < 2
    BY <1>1 DEF Counted
  <2> QED
    BY <2>1, <2>2 DEF TabType, Counted
<1>2. CASE x.again # "queued"
  <2>1. Started(x) = [x EXCEPT !.phase = "idle"]
    BY <1>2 DEF Started
  <2> QED
    BY <1>2, <2>1 DEF TabType, Counted
<1> QED
  BY <1>1, <1>2

\* The end of a start, whether all nodes could be dialled or only some.
LEMMA StartKeeps ==
  ASSUME IInv, NEW k \in Kinds, StartOk(k) \/ StartFail(k)
  PROVE  IInv'
<1>0. /\ tab[k] \in TabType /\ Counted(tab[k]) /\ Sound(tab[k], running[k]) /\ tab[k].phase = "start"
      /\ running \in [Kinds -> BOOLEAN] /\ running[k] \in BOOLEAN /\ woken' = woken
  BY DEF IInv, Types, TypeOK, TabType, Tabs, StartOk, StartFail
<1> DEFINE s == Started(tab[k])
<1>1. /\ s \in TabType /\ Counted(s) /\ s.mounted = tab[k].mounted /\ s.lost = tab[k].lost
      /\ s.held = tab[k].held /\ s.attached = tab[k].attached
      /\ s.again = "no" => tab[k].again = "no" /\ s.phase = "idle"
  BY <1>0, StartedTyped
<1>2. ASSUME NEW ns \in SUBSET Nodes, Spawn(k, ns), running' = [running EXCEPT ![k] = @ \/ ns # {}],
             NEW x \in TabType, tab' = [tab EXCEPT ![k] = x], Counted(x), Sound(x, running'[k])
      PROVE  IInv'
  <2>1. /\ thr' \in [Threads -> ThrType] /\ after' \in [Threads -> 0..2]
        /\ running' \in [Kinds -> BOOLEAN] /\ LastMessage'
        /\ (\A t \in Threads : Live(t) => thr[t].kind \in Kinds)'
    BY <1>2, SpawnKeeps
  <2>2. \A j \in Kinds : j # k => running'[j] = running[j]
    BY <1>0, <1>2
  <2>3. tab' \in [Kinds -> TabType] /\ Tabs'
    BY <1>2, <2>1, <2>2, TabTyped
  <2>4. TypeOK'
    BY <1>0, <2>1, <2>3 DEF IInv, Types, TypeOK, TabType, ThrType
  <2> QED
    BY <2>1, <2>3, <2>4 DEF IInv, Types
<1>3. CASE StartOk(k)
  <2> DEFINE x == [s EXCEPT !.subscribing = TRUE]
  <2>1. NodesOf(k) \in SUBSET Nodes /\ NodesOf(k) # {}
    BY Basics
  <2>2. running' = [running EXCEPT ![k] = @ \/ NodesOf(k) # {}] /\ running'[k] = TRUE
    BY <1>0, <1>3, <2>1 DEF StartOk
  <2>3. /\ x \in TabType /\ x.subscribing /\ x.mounted = s.mounted /\ x.lost = s.lost
        /\ x.held = s.held /\ x.attached = s.attached /\ x.again = s.again /\ x.phase = s.phase
    BY <1>1 DEF TabType
  <2>4. Counted(x)
    BY <1>1, <2>3 DEF Counted
  <2>5. Sound(x, running'[k])
    BY <1>0, <1>1, <2>2, <2>3 DEF Sound
  <2>6. Spawn(k, NodesOf(k)) /\ tab' = [tab EXCEPT ![k] = x]
    BY <1>3 DEF StartOk
  <2> QED
    BY ONLY <1>2, <2>1, <2>2, <2>3, <2>4, <2>5, <2>6
<1>4. CASE StartFail(k)
  <2> DEFINE x == [s EXCEPT !.lost = TRUE]
  <2>1. PICK ns \in SUBSET NodesOf(k) : Spawn(k, ns) /\ running' = [running EXCEPT ![k] = @ \/ ns # {}]
    BY <1>4 DEF StartFail
  <2>2. ns \in SUBSET Nodes
    BY Basics
  <2>3. /\ x \in TabType /\ x.lost /\ x.held = s.held /\ x.attached = s.attached
        /\ x.again = s.again /\ x.phase = s.phase
    BY <1>1 DEF TabType
  <2>4. Counted(x) /\ Sound(x, running'[k])
    BY <1>1, <2>3 DEF Counted, Sound
  <2>5. tab' = [tab EXCEPT ![k] = x]
    BY <1>4 DEF StartFail
  <2> QED
    BY ONLY <1>2, <2>1, <2>2, <2>3, <2>4, <2>5
<1> QED
  BY <1>3, <1>4

\* The end of a stop.
LEMMA StopKeeps ==
  ASSUME IInv, NEW k \in Kinds, StopOk(k) \/ StopFail(k)
  PROVE  IInv'
<1>0. /\ tab[k] \in TabType /\ Counted(tab[k]) /\ Sound(tab[k], running[k]) /\ tab[k].phase = "stop"
      /\ running \in [Kinds -> BOOLEAN] /\ woken \in [Kinds -> BOOLEAN]
      /\ thr \in [Threads -> ThrType] /\ after' = after
  BY DEF IInv, Types, TypeOK, TabType, ThrType, Tabs, StopOk, StopFail
<1>1. ASSUME NEW x \in TabType, tab' = [tab EXCEPT ![k] = x], Counted(x), Sound(x, running'[k]),
             running' = running \/ running' = [running EXCEPT ![k] = FALSE],
             woken' \in [Kinds -> BOOLEAN], thr' \in [Threads -> ThrType],
             \A t \in Threads : thr'[t].st = thr[t].st /\ thr'[t].kind = thr[t].kind
      PROVE  IInv'
  <2>1. running' \in [Kinds -> BOOLEAN] /\ \A j \in Kinds : running'[j] => running[j]
    BY <1>0, <1>1
  <2>2. tab' \in [Kinds -> TabType] /\ Tabs'
    <3>1. \A j \in Kinds : j # k => running'[j] = running[j]
      BY <1>0, <1>1
    <3> QED
      BY <1>1, <2>1, <3>1, TabTyped
  <2>3. Types'
    BY <1>0, <1>1, <2>1, <2>2 DEF IInv, Types, TypeOK, TabType, ThrType, Live
  <2>4. LastMessage'
    BY <1>0, <1>1, <2>1 DEF IInv, Types, LastMessage, Live
  <2> QED
    BY <2>2, <2>3, <2>4 DEF IInv
<1>2. CASE StopOk(k)
  <2> DEFINE x == [tab[k] EXCEPT !.phase = "idle", !.subscribing = FALSE]
  <2>1. running' = [running EXCEPT ![k] = FALSE] /\ ~running'[k] /\ woken' \in [Kinds -> BOOLEAN]
    BY <1>0, <1>2 DEF StopOk
  <2>2. thr' \in [Threads -> ThrType]
        /\ \A t \in Threads : thr'[t].st = thr[t].st /\ thr'[t].kind = thr[t].kind
    <3>1. CASE k = "monitor"
      BY <1>0, <1>2, <3>1 DEF StopOk
    <3>2. CASE k # "monitor"
      BY <1>2, <3>2, DeliverTyped DEF StopOk
    <3> QED
      BY <3>1, <3>2
  <2>3. /\ x \in TabType /\ x.phase = "idle" /\ ~x.subscribing /\ x.mounted = tab[k].mounted
        /\ x.lost = tab[k].lost /\ x.held = tab[k].held /\ x.attached = tab[k].attached
        /\ x.again = tab[k].again
    BY <1>0 DEF TabType
  <2>4. Counted(x)
    BY <1>0, <2>3 DEF Counted
  <2>5. Sound(x, running'[k])
    BY <1>0, <2>1, <2>3 DEF Sound
  <2>6. tab' = [tab EXCEPT ![k] = x]
    BY <1>2 DEF StopOk
  <2> QED
    BY ONLY <1>1, <2>1, <2>2, <2>3, <2>4, <2>5, <2>6
<1>3. CASE StopFail(k)
  <2> DEFINE x == [tab[k] EXCEPT !.phase = "idle", !.lost = TRUE]
  <2>1. /\ running' = running \/ running' = [running EXCEPT ![k] = FALSE]
        /\ woken' \in [Kinds -> BOOLEAN] /\ thr' = thr
    BY <1>0, <1>3 DEF StopFail
  <2>2. /\ x \in TabType /\ x.phase = "idle" /\ x.lost /\ x.held = tab[k].held
        /\ x.attached = tab[k].attached /\ x.again = tab[k].again
    BY <1>0 DEF TabType
  <2>3. Counted(x) /\ Sound(x, running'[k])
    BY <1>0, <2>2 DEF Counted, Sound
  <2>4. tab' = [tab EXCEPT ![k] = x]
    BY <1>3 DEF StopFail
  <2> QED
    BY ONLY <1>0, <1>1, <2>1, <2>2, <2>3, <2>4
<1> QED
  BY <1>2, <1>3

-----------------------------------------------------------------------------
LEMMA StepKeeps ==
  ASSUME IInv, [Next]_vars
  PROVE  IInv'
<1>1. CASE UNCHANGED vars
  <2>1. Types'
    BY <1>1 DEF vars, IInv, Types, TypeOK, Live
  <2>2. Tabs' /\ LastMessage'
    BY <1>1 DEF vars, IInv, Tabs, LastMessage
  <2> QED
    BY <2>1, <2>2 DEF IInv
<1>2. CASE \E t \in Threads : ThreadStep(t) \/ Break(t)
  BY <1>2, ThreadKeeps
<1>3. ASSUME NEW k \in Kinds, TabStep(k) \/ Traffic(k)
      PROVE  IInv'
  BY <1>3, ClicksKeep, StartKeeps, StopKeeps, TrafficKeeps DEF TabStep
<1> QED
  BY <1>1, <1>2, <1>3 DEF Next

\* The inductive invariant of tabs, flags and threads.
THEOREM Inductive == Spec => []IInv
  BY InitHolds, StepKeeps, PTL DEF Spec

\* Tabs, threads and flags stay well typed, within two listeners and the bound of
\* unread messages.
THEOREM TypeCorrect == Spec => []TypeOK
<1>1. IInv => TypeOK
  BY DEF IInv, Types
<1> QED
  BY <1>1, Inductive, PTL

\* RedisPubSub, RedisMonitor and the notifications: a tab that is idle and lost no call
\* agrees with the flag in the back end and has one listener exactly while it is set.
THEOREM TabsAgree == Spec => []TabAgrees
<1>1. IInv => TabAgrees
  <2> SUFFICES ASSUME IInv, NEW k \in Kinds, tab[k].mounted, tab[k].phase = "idle", ~tab[k].lost,
                      tab[k].again = "no"
               PROVE  /\ tab[k].subscribing = running[k]
                      /\ tab[k].attached = IF tab[k].subscribing THEN 1 ELSE 0
    BY DEF TabAgrees
  <2>1. tab[k].subscribing \in BOOLEAN /\ running[k] \in BOOLEAN
    BY DEF IInv, Types, TypeOK
  <2>2. Sound(tab[k], running[k])
    BY DEF IInv, Tabs
  <2> QED
    BY <2>1, <2>2 DEF Sound
<1> QED
  BY <1>1, Inductive, PTL

\* pubsub.rs: a thread of a stopped kind takes at most one more message.
THEOREM OneMoreMessage == Spec => []AfterStopOneMore
<1>1. IInv => AfterStopOneMore
  BY DEF IInv, LastMessage, AfterStopOneMore, Types, TypeOK
<1> QED
  BY <1>1, Inductive, PTL
=============================================================================
