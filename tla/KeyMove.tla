------------------------------ MODULE KeyMove ------------------------------
(***************************************************************************)
(* Renaming and copying a key in a Redis cluster, as RedisME does it       *)
(* (client/me_cluster.rs: rename, copy).                                   *)
(*                                                                         *)
(* RENAME and COPY work within one slot only, so a key is read with PTTL   *)
(* and DUMP, written with RESTORE, and renaming deletes it under its old   *)
(* name: commands between which other clients and time come, and after     *)
(* each of which the connection may be lost.                               *)
(*                                                                         *)
(* A value is who made it; a copy has the value of its source.  Time       *)
(* passes in milliseconds, and a key is there until its last has passed.   *)
(***************************************************************************)
EXTENDS Naturals, FiniteSets

CONSTANTS
  Names, None, Never,
  Values,    \* bound: values that others write, each once
  Lasting,   \* those of them that are written without a time to live
  Ttl        \* bound: milliseconds that the others have at first

VARIABLES
  key,       \* value and milliseconds left of each name
  move,      \* the call under way: its step, what it has read, and what it has to do
  made,      \* values written so far
  lost,      \* values overwritten, deleted or expired as somebody meant it
  calm,      \* history: nobody wrote the source while what the call had read of it mattered
  brief      \* history: PTTL was answered in a key's last millisecond

vars == <<key, move, made, lost, calm, brief>>

Absent == [val |-> None, ttl |-> Never]
NoMove == [pc |-> "idle", do |-> "rename", from |-> None, to |-> None, ttl |-> Never, dump |-> None]
There(n) == key[n] # Absent
Ttls == 0..Ttl \cup {Never}

TypeOK ==
  /\ key \in [Names -> [val : Values, ttl : Ttls] \cup {Absent}]
  /\ move \in [pc : {"idle", "exists", "pttl", "dump", "restore", "del"}, do : {"rename", "copy"},
               from : Names \cup {None}, to : Names \cup {None}, ttl : Ttls, dump : Values \cup {None}]
  /\ made \subseteq Values /\ lost \subseteq made /\ {calm, brief} \subseteq BOOLEAN

Init ==
  /\ key = [n \in Names |-> Absent] /\ move = NoMove
  /\ made = {} /\ lost = {} /\ calm = TRUE /\ brief = FALSE

Held(n) == {key[n].val} \ {None}
\* The call goes by what it has read of this name: see calm.
Relied(n) ==
  n = move.from /\ move.pc \in IF move.do = "rename" THEN {"dump", "restore", "del"} ELSE {"dump"}

-----------------------------------------------------------------------------
(* Other clients, and time. *)

Write(n) ==
  /\ \E v \in Values \ made :
       /\ key' = [key EXCEPT ![n] = [val |-> v, ttl |-> IF v \in Lasting THEN Never ELSE Ttl]]
       /\ made' = made \cup {v}
  /\ lost' = lost \cup Held(n) /\ calm' = (calm /\ ~Relied(n))
  /\ UNCHANGED <<move, brief>>

Delete(n) ==
  /\ There(n) /\ key' = [key EXCEPT ![n] = Absent]
  /\ lost' = lost \cup Held(n)
  /\ UNCHANGED <<move, made, calm, brief>>

Older(k) == IF k.ttl = Never THEN k ELSE IF k.ttl = 0 THEN Absent ELSE [k EXCEPT !.ttl = @ - 1]
Tick ==
  /\ \E n \in Names : key[n].ttl # Never
  /\ key' = [n \in Names |-> Older(key[n])]
  /\ lost' = lost \cup {key[n].val : n \in {m \in Names : key[m].ttl = 0}}
  /\ UNCHANGED <<move, made, calm, brief>>

-----------------------------------------------------------------------------
(* The call. *)

NeverSame(from, to) == FALSE
SameName(from, to) == from = to
Rename(from, to) ==
  /\ move.pc = "idle" /\ ~SameName(from, to)
  /\ move' = [NoMove EXCEPT !.pc = "pttl", !.do = "rename", !.from = from, !.to = to]
  /\ UNCHANGED <<key, made, lost, calm, brief>>

Copy(from, to) ==
  /\ move.pc = "idle"
  /\ move' = [NoMove EXCEPT !.pc = "exists", !.do = "copy", !.from = from, !.to = to]
  /\ UNCHANGED <<key, made, lost, calm, brief>>

\* EXISTS of the destination: the call ends when it is there.
Exists ==
  /\ move.pc = "exists"
  /\ move' = IF There(move.to) THEN NoMove ELSE [move EXCEPT !.pc = "pttl"]
  /\ UNCHANGED <<key, made, lost, calm, brief>>

\* restore_ttl is 0, for ever, also for a key that is not there.
RestoreTtl(k) == IF k.ttl = 0 THEN Never ELSE k.ttl
Pttl ==
  /\ move.pc = "pttl"
  /\ move' = [move EXCEPT !.pc = "dump", !.ttl = RestoreTtl(key[move.from])]
  /\ brief' = (brief \/ key[move.from].ttl = 0)
  /\ UNCHANGED <<key, made, lost, calm>>

Dump ==
  /\ move.pc = "dump"
  /\ move' = [move EXCEPT !.pc = "restore", !.dump = key[move.from].val]
  /\ UNCHANGED <<key, made, lost, calm, brief>>

ReplacesAlways == TRUE
Replaces == move.do = "rename"
\* RESTORE refuses what DUMP gives for a key that is not there, and without REPLACE
\* a name that is taken.
Accepts == move.dump # None /\ (Replaces \/ ~There(move.to))
AfterRestore == IF move.do = "rename" THEN [move EXCEPT !.pc = "del"] ELSE NoMove
Restore ==
  /\ move.pc = "restore" /\ Accepts
  /\ key' = [key EXCEPT ![move.to] = [val |-> move.dump, ttl |-> move.ttl]]
  /\ lost' = IF move.do = "rename" THEN lost \cup (Held(move.to) \ {move.dump}) ELSE lost
  /\ move' = AfterRestore
  /\ UNCHANGED <<made, calm, brief>>

Del ==
  /\ move.pc = "del"
  /\ key' = [key EXCEPT ![move.from] = Absent]
  /\ move' = NoMove
  /\ UNCHANGED <<made, lost, calm, brief>>

\* The connection is lost before a command, RESTORE is refused, or the reply of DEL or RESTORE is lost.
Fails ==
  /\ move.pc # "idle" /\ move' = NoMove
  /\ UNCHANGED <<key, made, lost, calm, brief>>

Call == Exists \/ Pttl \/ Dump \/ Restore \/ Del \/ Fails
Next ==
  \/ \E n \in Names : Write(n) \/ Delete(n)
  \/ \E m, n \in Names : Rename(m, n) \/ Copy(m, n)
  \/ Tick \/ Call

Spec == Init /\ [][Next]_vars

-----------------------------------------------------------------------------
(* Properties *)

\* Renaming and copying lose no value, at whichever command they fail and however
\* often they are tried again: it has a name until somebody overwrites or deletes
\* it or its time is over.  What another client writes under the old name after
\* DUMP is set aside, as rename deletes it.
ValueKept == calm => \A v \in made \ lost : \E n \in Names : key[n].val = v

\* A value that has a time to live keeps one under every name that it gets, and one
\* that has none gets none (restore_ttl).  A key's last millisecond is set aside:
\* PTTL is 0 then, which RESTORE takes for no limit.
ExpiryKept ==
  calm /\ ~brief => \A n \in Names : There(n) => (key[n].ttl = Never <=> key[n].val \in Lasting)

\* A copy writes over nobody, although EXISTS is long over when it writes (copy).
Copying == move.do = "copy" /\ move' # move
OthersKept == \A n \in Names : There(n) => key'[n] = key[n]
CopyAdds == [][Copying => OthersKept]_vars
=============================================================================
