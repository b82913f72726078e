------------------------------ MODULE JobLock -------------------------------
(***************************************************************************)
(* What RedisME promises of exports and imports: a client has one at a     *)
(* time, and it goes through everything unless the client is dropped or an *)
(* error ends it.  Flags, tables and windows are how Jobs does it.         *)
(***************************************************************************)
EXTENDS Naturals

CONSTANTS Threads, MaxClients, Lines

VARIABLES
  job,   \* each thread's client, 0 if it has none, and what is left to do
  gone   \* clients that were dropped

vars == <<job, gone>>

Idle == [client |-> 0, left |-> 0]

Init == job = [t \in Threads |-> Idle] /\ gone = {}

\* A job takes a client that no other has and that is not dropped.
Take(t, c) ==
  /\ job[t] = Idle /\ c \notin gone /\ \A u \in Threads : job[u].client # c
  /\ job' = [job EXCEPT ![t] = [client |-> c, left |-> Lines]]
  /\ UNCHANGED gone

Advance(t) ==
  /\ job[t].left > 0 /\ job[t].client \notin gone
  /\ job' = [job EXCEPT ![t].left = @ - 1]
  /\ UNCHANGED gone

PassOver(t) ==
  /\ job[t].client \in gone
  /\ job' = [job EXCEPT ![t].left = 0]
  /\ UNCHANGED gone

\* At the end, or after an error.
Release(t) ==
  /\ job[t] # Idle /\ job' = [job EXCEPT ![t] = Idle]
  /\ UNCHANGED gone

Drop(c) == gone' = gone \cup {c} /\ UNCHANGED job

Next ==
  \/ \E c \in 1..MaxClients : Drop(c)
  \/ \E t \in Threads :
       \/ Advance(t) \/ PassOver(t) \/ Release(t)
       \/ \E c \in 1..MaxClients : Take(t, c)

Spec == Init /\ [][Next]_vars
=============================================================================
