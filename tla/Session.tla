------------------------------ MODULE Session -------------------------------
(***************************************************************************)
(* What a RedisME connection promises the window that calls it: a command  *)
(* is executed once, or again only when its answer was lost; an "ok" means *)
(* that it was executed; and sessions that end and are opened again do not *)
(* move the caller to another database unless a SELECT went wrong before.  *)
(* The lock, the probe, the reconnect and the retry are how MeSingle does  *)
(* it, over any number of sessions.                                        *)
(***************************************************************************)
CONSTANTS Calls, Dbs

VARIABLES
  ask,    \* each call: none, asked, or its answer; a SELECT or not; the database
  ran,    \* calls whose command was executed
  lost,   \* those with an answer that was lost
  db,     \* the database commands are executed on
  sure    \* the last attempt to select it succeeded

vars == <<ask, ran, lost, db, sure>>

None == [st |-> "none", select |-> FALSE, db |-> 0]
Answers == {"ok", "eof", "err"}

Init == /\ ask = [c \in Calls |-> None] /\ ran = {} /\ lost = {}
        /\ db \in Dbs /\ sure \in BOOLEAN

Ask(c, select, d) ==
  /\ ask[c].st = "none"
  /\ ask' = [ask EXCEPT ![c] = [st |-> "asked", select |-> select, db |-> d]]
  /\ UNCHANGED <<ran, lost, db, sure>>

Asked(c, select) == ask[c].st = "asked" /\ ask[c].select = select
Answer(c, r) == ask' = [ask EXCEPT ![c].st = r]

\* Only the first time, or after a lost answer.
Execute(c, r) ==
  /\ Asked(c, FALSE) /\ Answer(c, r)
  /\ c \notin ran \/ c \in lost
  /\ ran' = ran \cup {c}
  /\ lost' = IF r = "eof" THEN lost \cup {c} ELSE lost
  /\ UNCHANGED <<db, sure>>

\* Never with "ok".
Refuse(c, r) ==
  /\ Asked(c, FALSE) /\ r # "ok" /\ Answer(c, r)
  /\ UNCHANGED <<ran, lost, db, sure>>

Select(c) ==
  /\ Asked(c, TRUE) /\ Answer(c, "ok")
  /\ db' = ask[c].db /\ sure' = TRUE
  /\ UNCHANGED <<ran, lost>>

\* Answered from memory: right whenever the database is sure.
AlreadyThere(c) ==
  /\ Asked(c, TRUE) /\ Answer(c, "ok")
  /\ sure => db = ask[c].db
  /\ UNCHANGED <<ran, lost, db, sure>>

SelectFails(c, r) ==
  /\ Asked(c, TRUE) /\ r # "ok" /\ Answer(c, r)
  /\ db' \in {db, ask[c].db} /\ sure' = FALSE
  /\ UNCHANGED <<ran, lost>>

\* A new session.  A database that was sure and still is has not moved, but to
\* where a SELECT that is being executed asks it to.
Reopen ==
  /\ db' \in Dbs /\ sure' \in BOOLEAN
  /\ sure /\ sure' => \/ db' = db
                      \/ \E c \in Calls : Asked(c, TRUE) /\ db' = ask[c].db
  /\ UNCHANGED <<ask, ran, lost>>

Repeat(c) ==
  /\ ask[c].st = "eof" /\ Answer(c, "asked")
  /\ UNCHANGED <<ran, lost, db, sure>>

Return(c) ==
  /\ ask[c].st \in Answers /\ ask' = [ask EXCEPT ![c] = None]
  /\ ran' = ran \ {c} /\ lost' = lost \ {c}
  /\ UNCHANGED <<db, sure>>

Next ==
  \/ Reopen
  \/ \E c \in Calls :
       \/ \E select \in BOOLEAN, d \in Dbs : Ask(c, select, d)
       \/ \E r \in Answers : Execute(c, r) \/ Refuse(c, r) \/ SelectFails(c, r)
       \/ Select(c) \/ AlreadyThere(c) \/ Repeat(c) \/ Return(c)

Spec == Init /\ [][Next]_vars
=============================================================================
