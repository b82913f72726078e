----------------------------- MODULE SshDialer -----------------------------
(***************************************************************************)
(* The SSH session that the connections of one RedisME client share        *)
(* (net/ssh.rs, SshDialer).                                                *)
(*                                                                         *)
(* A dial opens a channel on the session, and authenticates anew when the  *)
(* session has ended.  Dials of several threads meet at two locks: that of *)
(* the session, which one holds while its channel opens, and that of the   *)
(* reconnection, which is held while the server authenticates.             *)
(***************************************************************************)
EXTENDS Naturals

CONSTANTS
  Dials, None,
  Sessions   \* bound: sessions of which somebody has a handle

VARIABLES
  dial,      \* how far each dial is: pc, the handle in its hands, and whether it has tried again
  lock,      \* who holds `session`
  gate,      \* who holds reconnect_lock
  slot,      \* the handle in `session`
  alive      \* sessions that are not closed

vars == <<dial, lock, gate, slot, alive>>

Pcs == {"idle", "check", "gate", "recheck", "auth", "put", "open", "opening", "after", "ok", "failed"}
Over == {"idle", "ok", "failed"}
Busy(d) == dial[d].pc \notin Over
Idle == [pc |-> "idle", got |-> None, again |-> FALSE]
Held == {slot} \cup {dial[d].got : d \in Dials}

TypeOK ==
  /\ dial \in [Dials -> [pc : Pcs, got : Sessions \cup {None}, again : BOOLEAN]]
  /\ {lock, gate} \subseteq Dials \cup {None}
  /\ slot \in Sessions /\ alive \subseteq Sessions

\* SshDialer::connect: the session is there before the first dial.
Init ==
  /\ dial = [d \in Dials |-> Idle] /\ lock = None /\ gate = None
  /\ slot \in Sessions /\ alive = {slot}

To(d, pc) == dial' = [dial EXCEPT ![d].pc = pc]
\* session_closed: it waits for the lock and gives it back at once.
Closed == slot \notin alive
ClosedAlways == TRUE
CanLook == lock = None

-----------------------------------------------------------------------------
Start(d) ==
  /\ ~Busy(d)
  /\ dial' = [dial EXCEPT ![d] = [Idle EXCEPT !.pc = "check"]]
  /\ UNCHANGED <<lock, gate, slot, alive>>

Check(d) ==
  /\ dial[d].pc = "check" /\ CanLook
  /\ To(d, IF Closed THEN "gate" ELSE "open")
  /\ UNCHANGED <<lock, gate, slot, alive>>

Gate(d) ==
  /\ dial[d].pc = "gate" /\ gate = None
  /\ gate' = d /\ To(d, "recheck")
  /\ UNCHANGED <<lock, slot, alive>>

\* Another dial may have reconnected while this one waited for the gate.
StillClosed == Closed
Recheck(d) ==
  /\ dial[d].pc = "recheck" /\ CanLook
  /\ \/ StillClosed /\ To(d, "auth") /\ UNCHANGED gate
     \/ ~StillClosed /\ To(d, "open") /\ gate' = None
  /\ UNCHANGED <<lock, slot, alive>>

AuthFails(d) ==
  /\ dial[d].pc = "auth"
  /\ To(d, "failed") /\ gate' = None
  /\ UNCHANGED <<lock, slot, alive>>

\* connect_and_auth, without the session's lock.
Auth(d) ==
  /\ dial[d].pc = "auth"
  /\ \E s \in Sessions \ Held :
       /\ dial' = [dial EXCEPT ![d].pc = "put", ![d].got = s]
       /\ alive' = alive \cup {s}
  /\ UNCHANGED <<lock, gate, slot>>

GateKept(d) == d
GateAfter(d) == None
\* The new handle takes the place of the closed one; one that is not needed is dropped.
Put(d) ==
  /\ dial[d].pc = "put" /\ CanLook
  /\ LET s == dial[d].got
         out == IF Closed THEN slot ELSE s IN
     /\ slot' = IF Closed THEN s ELSE slot
     /\ alive' = alive \ {out}
  /\ dial' = [dial EXCEPT ![d].pc = "open", ![d].got = None]
  /\ gate' = GateAfter(d)
  /\ UNCHANGED lock

\* What a dial does after open_channel has failed: look at the session, unless this was the second time.
AfterFailure(d) == IF dial[d].again THEN "failed" ELSE "after"

\* open_channel
Open(d) ==
  /\ dial[d].pc = "open" /\ CanLook
  /\ \/ Closed /\ To(d, AfterFailure(d)) /\ UNCHANGED lock
     \/ ~Closed /\ To(d, "opening") /\ lock' = d
  /\ UNCHANGED <<gate, slot, alive>>

Opened(d) ==
  /\ dial[d].pc = "opening" /\ ~Closed
  /\ To(d, "ok") /\ lock' = None
  /\ UNCHANGED <<gate, slot, alive>>

\* An error, a session that ends meanwhile, or open_timeout.
OpenFails(d) ==
  /\ dial[d].pc = "opening"
  /\ To(d, AfterFailure(d)) /\ lock' = None
  /\ UNCHANGED <<gate, slot, alive>>

After(d) ==
  /\ dial[d].pc = "after" /\ CanLook
  /\ dial' = [dial EXCEPT ![d].pc = IF Closed THEN "gate" ELSE "failed", ![d].again = TRUE]
  /\ UNCHANGED <<lock, gate, slot, alive>>

\* The server or the network ends a session, or keepalive finds it gone.
Ends(s) ==
  /\ s \in alive /\ alive' = alive \ {s}
  /\ UNCHANGED <<dial, lock, gate, slot>>

Step(d) ==
  \/ Check(d) \/ Gate(d) \/ Recheck(d) \/ Auth(d) \/ AuthFails(d) \/ Put(d)
  \/ Open(d) \/ Opened(d) \/ OpenFails(d) \/ After(d)
Next ==
  \/ \E d \in Dials : Start(d) \/ Step(d)
  \/ \E s \in Sessions : Ends(s)

\* Both locks come to whoever waits for them (parking_lot hands them over in
\* turn now and then), and authentication and opening have timeouts.
Fairness == \A d \in Dials : SF_vars(Step(d))

Spec == Init /\ [][Next]_vars /\ Fairness

-----------------------------------------------------------------------------
(* Properties *)

\* However many connections dial at a time, the jump host has one session of this
\* client, as reconnect looks again once it holds the gate; and somebody has its
\* handle: the slot, or the dial that has just authenticated it.
OneSession == (\A s, u \in alive : s = u) /\ alive \subseteq Held

\* A dial comes back, whoever holds the locks: dial, reconnect and open_channel.
DialEnds == \A d \in Dials : Busy(d) ~> ~Busy(d)
=============================================================================
