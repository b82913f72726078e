------------------------------ MODULE ConnSync ------------------------------
(***************************************************************************)
(* The list of connections in RedisME's windows.                           *)
(*                                                                         *)
(* Each window keeps the whole list.  When it changes, the window stores   *)
(* it, sends it to the back end, and when that has answered, to all        *)
(* windows, itself included; a window that gets a list other than its own  *)
(* has changed its list and does the same.  Nothing says which of two      *)
(* lists is the newer one.  A window that opens reads the stored list,     *)
(* sends it as if it were new, and listens some time later.                *)
(*                                                                         *)
(* A list is the number of the edit that made it.  Settings are stored     *)
(* the same way but not sent to other windows, and are left out.           *)
(***************************************************************************)
EXTENDS Naturals, Sequences, SequencesExt

CONSTANTS
  Windows, First,
  MaxEdits,   \* bound: edits
  UnderWay    \* bound: calls, answers or events under way, each

VARIABLES
  made,       \* edits made so far
  win,        \* each window: where it is, its list, and whether it listens
  store,      \* connList in store.json
  calls,      \* connList commands that have not run
  answers,    \* those that have, and whose window has not gone on
  connections, \* the back end's list
  inbox,      \* CONN_LIST_WINDOWS_SYNC on its way to each window
  calm        \* history: edits came apart, that is while nothing was under way; and
              \* windows opened and closed apart from them

vars == <<made, win, store, calls, answers, connections, inbox, calm>>

Lists == 0..MaxEdits
Call == [by : Windows, list : Lists]
NoWindow == [at |-> "closed", list |-> 0, hears |-> FALSE]

TypeOK ==
  /\ made \in Lists /\ store \in 0..made /\ connections \in 0..made
  /\ win \in [Windows -> [at : {"closed", "reading", "open"}, list : 0..made, hears : BOOLEAN]]
  /\ calls \in Seq(Call) /\ answers \in Seq(Call) /\ inbox \in [Windows -> Seq(Lists)]
  /\ calm \in [edits : BOOLEAN, windows : BOOLEAN]
  /\ \A w \in Windows : win[w].hears => win[w].at = "open"

Init ==
  /\ made = 0 /\ store = 0 /\ calls = <<>> /\ answers = <<>> /\ connections = 0
  /\ win = [w \in Windows |-> IF w = First THEN [NoWindow EXCEPT !.at = "open", !.hears = TRUE] ELSE NoWindow]
  /\ inbox = [w \in Windows |-> <<>>] /\ calm = [edits |-> TRUE, windows |-> TRUE]

Open(w) == win[w].at = "open"
Opening == \E w \in Windows : win[w].at # "closed" /\ ~win[w].hears
Quiet == calls = <<>> /\ answers = <<>> /\ (\A w \in Windows : inbox[w] = <<>>) /\ ~Opening

-----------------------------------------------------------------------------
\* The watcher of the list: store it, and have the back end take it over.
Watched(w, l) ==
  /\ Len(calls) < UnderWay
  /\ store' = l /\ calls' = Append(calls, [by |-> w, list |-> l])

\* Adding, changing, deleting, dragging or importing connections, or changing the
\* database of the one in use.
Edit(w) ==
  /\ Open(w) /\ made < MaxEdits /\ made' = made + 1
  /\ win' = [win EXCEPT ![w].list = made'] /\ Watched(w, made')
  /\ calm' = [edits |-> calm.edits /\ Quiet, windows |-> calm.windows /\ ~Opening]
  /\ UNCHANGED <<answers, connections, inbox>>

\* conn_list: the table is replaced.
Run ==
  /\ calls # <<>> /\ Len(answers) < UnderWay
  /\ connections' = Head(calls).list
  /\ calls' = Tail(calls) /\ answers' = Append(answers, Head(calls))
  /\ UNCHANGED <<made, win, store, inbox, calm>>

Hearers == {v \in Windows : win[v].hears}

\* Answers come in any order; a window that is gone sends nothing.
Emit(i) ==
  LET ans == answers[i] IN
  /\ \A v \in Windows : Len(inbox[v]) < UnderWay
  /\ answers' = RemoveAt(answers, i)
  /\ inbox' = [v \in Windows |-> IF Open(ans.by) /\ v \in Hearers
                                 THEN Append(inbox[v], ans.list) ELSE inbox[v]]
  /\ UNCHANGED <<made, win, store, calls, connections, calm>>

NewsAlways(w, l) == TRUE
\* The watcher compares texts.
News(w, l) == win[w].list # l

HearUnwatched(w, l) == UNCHANGED <<store, calls>>
HearWatched(w, l) == IF News(w, l) THEN Watched(w, l) ELSE UNCHANGED <<store, calls>>

Hear(w) ==
  /\ inbox[w] # <<>>
  /\ inbox' = [inbox EXCEPT ![w] = Tail(@)]
  /\ win' = [win EXCEPT ![w].list = Head(inbox[w])]
  /\ HearWatched(w, Head(inbox[w]))
  /\ UNCHANGED <<made, answers, connections, calm>>

-----------------------------------------------------------------------------
(* Windows come and go; the last one takes the program with it. *)

Stored == store

Read(w) ==
  /\ win[w].at = "closed"
  /\ win' = [win EXCEPT ![w] = [at |-> "reading", list |-> Stored, hears |-> FALSE]]
  /\ calm' = [calm EXCEPT !.windows = @ /\ Quiet]
  /\ UNCHANGED <<made, store, calls, answers, connections, inbox>>

\* The watcher is immediate, the listener is registered when it is.
Mount(w) ==
  /\ win[w].at = "reading"
  /\ win' = [win EXCEPT ![w].at = "open"] /\ Watched(w, win[w].list)
  /\ UNCHANGED <<made, answers, connections, inbox, calm>>

Listen(w) ==
  /\ Open(w) /\ ~win[w].hears
  /\ win' = [win EXCEPT ![w].hears = TRUE]
  /\ UNCHANGED <<made, store, calls, answers, connections, inbox, calm>>

Close(w) ==
  /\ Open(w) /\ \E v \in Windows \ {w} : Open(v)
  /\ win' = [win EXCEPT ![w] = NoWindow] /\ inbox' = [inbox EXCEPT ![w] = <<>>]
  /\ UNCHANGED <<made, store, calls, answers, connections>>
  /\ calm' = [calm EXCEPT !.windows = @ /\ Quiet]

-----------------------------------------------------------------------------
Step(w) == Hear(w) \/ Mount(w) \/ Listen(w)
Emits == \E i \in DOMAIN answers : Emit(i)
Next ==
  \/ Run \/ Emits
  \/ \E w \in Windows : Step(w) \/ Edit(w) \/ Read(w) \/ Close(w)

\* Commands run, answers and events arrive, and a window that opens gets there.
Fairness == WF_vars(Run) /\ WF_vars(Emits) /\ \A w \in Windows : WF_vars(Step(w))

Spec == Init /\ [][Next]_vars /\ Fairness

-----------------------------------------------------------------------------
(* Properties. *)

Same == \A w \in Windows : Open(w) => win[w].list = connections

\* When nothing is under way all windows have the list that the back end connects by
\* and that the next start reads, whatever crossed, unless a window opened meanwhile.
Agree == Quiet /\ calm.windows => Same /\ store = connections

\* An edit made while nothing is under way is the list everybody gets, also those
\* who open a window later.
EditKept == Quiet /\ calm.edits /\ calm.windows => connections = made

\* Edits that are made apart come to rest, although each list that arrives is passed on.
Rested == Quiet \/ ~calm.edits \/ ~calm.windows
ComesToRest == []<>Rested
=============================================================================
