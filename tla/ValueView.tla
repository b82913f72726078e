----------------------------- MODULE ValueView -----------------------------
(***************************************************************************)
(* The value of the chosen key in a window of RedisME: refreshKey with the *)
(* pages it asks for, and what interrupts it.                              *)
(*                                                                         *)
(* One chain of calls loads pages at a time; what must not be lost waits   *)
(* for its end, polling, and what may be is dropped.  The chain reads the  *)
(* chosen key and the search word anew for every page.  Keys are deleted   *)
(* here, rows of theirs too, and other clients change them.                *)
(*                                                                         *)
(* A key is a list, read by position, or a set (a hash, a sorted set),     *)
(* read by SCAN, which may repeat a field.  Its fields are numbers, one to *)
(* a page, and each page fills the wanted number of rows.  Strings, ranges *)
(* and directions, the editing of values and the display formats are left  *)
(* out.                                                                    *)
(***************************************************************************)
EXTENDS Integers, Sequences, FiniteSets, SequencesExt

CONSTANTS
  Keys, None,
  Lists,      \* the keys that are lists
  N,          \* the fields of a key
  MaxAsks,    \* bound: what the user does
  MaxForeign  \* bound: changes by other clients

ASSUME ValueViewAssumption ==
  None \notin Keys /\ Lists \subseteq Keys /\ N \in Nat \ {0} /\ MaxAsks \in Nat /\ MaxForeign \in Nat

VARIABLES
  server,    \* the fields of each key, in order; a key without fields is not there
  foreign,   \* changes by other clients so far
  asks,      \* what the user did so far
  chosen,    \* share.redisKey
  match,     \* the search word
  rv,        \* redisValue
  cursor,    \* the cursor, and cursorScanKey: the word it was made with
  more,      \* showMore
  ctl,       \* scanPaused, scanCancelled and pendingAutoDetect
  load,      \* the chain that is under way; `loading` is that there is one
  call,      \* its fieldScan
  waits,     \* restarts that wait for its end: with and without reset
  del,       \* the fieldDel or the key's deletion that is under way
  calm       \* history, since the list was begun: ok, no call failed; same, the key
             \* was changed by nobody else; apart, the word and the rows stayed the
             \* same while pages were to come

vars == <<server, foreign, asks, chosen, match, rv, cursor, more, ctl, load, call, waits, del, calm>>
shown == <<rv, more>>
others == <<server, foreign>>

Fields == 1..N
Words == {"all", "even"}
Matches(m, f) == m = "all" \/ f % 2 = 0
IsSet(k) == k \notin Lists

NoValue == [key |-> None, rows |-> <<>>]     \* null
NoCursor == [pos |-> -1, done |-> FALSE, word |-> "all"]
NoLoad == [at |-> "no", reset |-> FALSE, goOn |-> FALSE, all |-> FALSE, first |-> TRUE]
NoCall == [st |-> "no", key |-> None, pos |-> 0, word |-> "all", goOn |-> FALSE, meta |-> FALSE,
           rows |-> <<>>, next |-> 0, done |-> FALSE]
NoRow == [at |-> 0, field |-> 1, of |-> None]
NoDel == [st |-> "no", what |-> "row", key |-> None, row |-> NoRow]

\* at: the position in a list, the field itself in a set, which is what tells rows apart.
Row == [at : 0..N, field : Fields, of : Keys]
Maybe == Keys \cup {None}
Loading == load.at # "no"

\* The elements of q at the places in S, in their order: the j-th has j places up to its own.
Kept(q, S) ==
  [j \in 1..Cardinality(S) |-> q[CHOOSE i \in S : Cardinality({h \in S : h <= i}) = j]]

TypeOK ==
  /\ server \in [Keys -> Seq(Fields)] /\ foreign \in 0..MaxForeign /\ asks \in 0..MaxAsks
  /\ chosen \in Maybe /\ match \in Words
  /\ rv.key \in Maybe /\ rv.rows \in Seq(Row) /\ (rv.key = None => rv.rows = <<>>)
  /\ cursor \in [pos : -1..N, done : BOOLEAN, word : Words]
  /\ more \in BOOLEAN /\ ctl \in [paused : BOOLEAN, cancelled : BOOLEAN, detect : BOOLEAN]
  /\ load \in [at : {"no", "type", "call", "end"}, reset : BOOLEAN, goOn : BOOLEAN,
               all : BOOLEAN, first : BOOLEAN]
  /\ call.st \in {"no", "asked", "page", "missing", "failed"}
  /\ waits \in [reset : Nat, plain : Nat]
  /\ del \in [st : {"no", "asked", "done", "failed"}, what : {"row", "key"}, key : Maybe,
              row : Row \cup {NoRow}]
  /\ calm \in [ok : BOOLEAN, same : BOOLEAN, apart : BOOLEAN]
  \* A chain has a call exactly while it waits for a page.
  /\ (call.st = "no") = (load.at # "call")

Init ==
  /\ server = [k \in Keys |-> [i \in 1..N |-> i]]
  /\ foreign = 0 /\ asks = 0 /\ chosen = None /\ match = "all" /\ rv = NoValue
  /\ cursor = NoCursor /\ more = FALSE
  /\ ctl = [paused |-> FALSE, cancelled |-> FALSE, detect |-> FALSE]
  /\ load = NoLoad /\ call = NoCall /\ waits = [reset |-> 0, plain |-> 0] /\ del = NoDel
  /\ calm = [ok |-> TRUE, same |-> TRUE, apart |-> TRUE]

-----------------------------------------------------------------------------
(* A page is asked for. *)

\* The parameters of a page: the key, the cursor and the word as they are now.  MATCH is
\* for what SCAN reads.  A page that a cursor of another word would continue is the first
\* of a new list instead.
Asked(goOn, c, v) ==
  LET word == IF v.key # None /\ IsSet(v.key) THEN match' ELSE "all"
      same == goOn /\ c.word = word
  IN [NoCall EXCEPT !.st = "asked", !.key = chosen, !.word = word, !.goOn = same,
        !.pos = IF same /\ c.pos # -1 THEN c.pos ELSE 0, !.meta = c.pos = -1 \/ ~same]

\* refreshKey when nothing else loads: with reset the word is dropped, without goOn the
\* cursor.  For a key just chosen its type is found out first.
Begin(r, c) ==
  /\ match' = IF r.reset THEN "all" ELSE match
  /\ cursor' = IF r.goOn THEN cursor ELSE [NoCursor EXCEPT !.word = cursor.word]
  /\ calm' = IF r.goOn THEN [calm EXCEPT !.apart = @ /\ del.st = "no"]
             ELSE [ok |-> TRUE, same |-> TRUE, apart |-> del.st = "no"]
  /\ LET type == c.detect /\ ~r.goOn IN
     /\ ctl' = [paused |-> c.paused /\ r.goOn, cancelled |-> FALSE, detect |-> c.detect /\ ~type]
     /\ load' = [r EXCEPT !.at = IF type THEN "type" ELSE "call"]
     /\ call' = IF type THEN call ELSE Asked(r.goOn, cursor', rv)

TypeKnown ==
  /\ load.at = "type" /\ load' = [load EXCEPT !.at = "call"]
  /\ UNCHANGED match /\ call' = Asked(FALSE, cursor, rv)
  /\ UNCHANGED <<others, asks, chosen, shown, cursor, ctl, waits, del, calm>>

\* What the back end answers: the field at a position of a list, or the next of a set if
\* it is there and matches, and maybe one that was answered before.
Page(q, again) ==
  LET s == server[q.key]
      list == IF q.pos < Len(s) THEN <<[at |-> q.pos, field |-> s[q.pos + 1], of |-> q.key]>> ELSE <<>>
      wanted == {f \in {q.pos + 1} \cup again : f \in Range(s) /\ Matches(q.word, f)}
  IN IF IsSet(q.key)
     THEN [q EXCEPT !.st = "page", !.next = q.pos + 1, !.done = q.pos + 1 >= N,
                    !.rows = SetToSeq({[at |-> f, field |-> f, of |-> q.key] : f \in wanted})]
     ELSE [q EXCEPT !.st = "page", !.next = q.pos + Len(list), !.done = q.pos + 1 >= Len(s),
                    !.rows = list]

\* It sees that a key is missing only when it is asked for the type as well.
Serve ==
  /\ call.st = "asked"
  /\ \/ /\ call.key # None /\ call.meta /\ server[call.key] = <<>>
        /\ call' = [call EXCEPT !.st = "missing"]
     \/ /\ call.key # None /\ (call.meta => server[call.key] # <<>>)
        /\ \E again \in {{}} \cup {{f} : f \in 1..call.pos} :
             (again = {} \/ IsSet(call.key)) /\ call' = Page(call, again)
     \/ call' = [call EXCEPT !.st = "failed"]
  /\ UNCHANGED <<others, asks, chosen, match, shown, cursor, ctl, load, waits, del, calm>>

-----------------------------------------------------------------------------
(* A page comes back. *)

\* Rows that are not there yet; those of another kind are never the same.
Fresh(rows, q) ==
  Kept(q, {j \in DOMAIN q : ~\E i \in DOMAIN rows :
                             IsSet(rows[i].of) = IsSet(q[j].of) /\ rows[i].at = q[j].at})

ValueMerged ==
  IF rv.key # None THEN [rv EXCEPT !.rows = @ \o Fresh(@, call.rows)]
  ELSE IF load.first THEN [key |-> call.key, rows |-> call.rows]
  ELSE rv
\* A first page replaces the value, further ones are added to it.  A page that cannot be
\* added replaces the value only when it is the chain's first call.
Value ==
  IF call.goOn /\ rv.key # None THEN [rv EXCEPT !.rows = @ \o Fresh(@, call.rows)]
  ELSE IF load.first THEN [key |-> call.key, rows |-> call.rows]
  ELSE rv

\* fieldScanAuto and fieldScanAll
Enough == call.done \/ ctl.cancelled \/ (~load.all /\ call.rows # <<>>)

Arrived ==
  /\ call.st = "page"
  /\ rv' = Value
  /\ cursor' = [pos |-> call.next, done |-> call.done, word |-> call.word]
  /\ UNCHANGED match
  /\ IF Enough
     THEN load' = [load EXCEPT !.at = "end"] /\ call' = NoCall /\ more' = ~call.done
     ELSE load' = [load EXCEPT !.first = FALSE] /\ call' = Asked(TRUE, cursor', rv') /\ UNCHANGED more
  /\ UNCHANGED <<others, asks, chosen, ctl, waits, del, calm>>

\* A key that is not there any more empties the view; after any other error it stays.
Failed ==
  /\ call.st \in {"missing", "failed"}
  /\ IF call.st = "missing" /\ ~load.goOn
     THEN rv' = NoValue /\ cursor' = [NoCursor EXCEPT !.word = cursor.word] /\ more' = FALSE
     ELSE UNCHANGED <<rv, cursor, more>>
  /\ load' = [load EXCEPT !.at = "end"] /\ call' = NoCall
  /\ calm' = [calm EXCEPT !.ok = @ /\ call.st = "missing" /\ ~load.goOn]
  /\ UNCHANGED <<others, asks, chosen, match, ctl, waits, del>>

\* finalizeAfterFieldScan: `loading` goes down last.
End ==
  /\ load.at = "end" /\ load' = [NoLoad EXCEPT !.all = load.all]
  /\ ctl' = [ctl EXCEPT !.paused = @ /\ ~cursor.done]
  /\ UNCHANGED <<others, asks, chosen, match, shown, cursor, call, waits, del, calm>>

-----------------------------------------------------------------------------
(* What asks for a list. *)

Do == asks < MaxAsks /\ asks' = asks + 1

Reset == [NoLoad EXCEPT !.reset = TRUE]
GoOn(all) == [NoLoad EXCEPT !.goOn = TRUE, !.all = all]

RestartsDropped(kind, c) ==
  IF Loading THEN ctl' = c /\ UNCHANGED <<match, cursor, load, call, waits, calm>>
  ELSE Begin(IF kind = "reset" THEN Reset ELSE NoLoad, c) /\ UNCHANGED waits
\* A restart breaks off what loads, and waits for its end.
Restarts(kind, c) ==
  IF Loading
  THEN /\ ctl' = [c EXCEPT !.cancelled = TRUE, !.paused = FALSE]
       /\ waits' = [waits EXCEPT ![kind] = @ + 1]
       /\ UNCHANGED <<match, cursor, load, call, calm>>
  ELSE Begin(IF kind = "reset" THEN Reset ELSE NoLoad, c) /\ UNCHANGED waits

\* Of several that wait any may be the next.
WaitOver(kind) ==
  /\ ~Loading /\ waits[kind] > 0 /\ waits' = [waits EXCEPT ![kind] = @ - 1]
  /\ Begin(IF kind = "reset" THEN Reset ELSE NoLoad, ctl)
  /\ UNCHANGED <<others, asks, chosen, shown, del>>

\* chooseKey, and the handler of KEY_REFRESH.
Choose(k) ==
  /\ Do /\ chosen' = k /\ Restarts("reset", [ctl EXCEPT !.detect = TRUE])
  /\ UNCHANGED <<others, shown, del>>

\* A search, another order, a manual refresh, an element popped; every few seconds when
\* nothing loads.
Restart ==
  /\ Do /\ chosen # None /\ Restarts("plain", ctl)
  /\ UNCHANGED <<others, chosen, shown, del>>

\* A saved value and a row that cannot be read alone load anew; dropped while loading.
Saved(r) ==
  /\ Do /\ chosen # None /\ ~Loading /\ Begin(r, ctl)
  /\ UNCHANGED <<others, chosen, shown, waits, del>>

Visible == chosen # None /\ rv.key # None

LoadMore(all) ==
  /\ Do /\ Visible /\ more /\ ~Loading /\ Begin(GoOn(all), ctl)
  /\ UNCHANGED <<others, chosen, shown, waits, del>>

Pause ==
  /\ Do /\ Visible /\ Loading
  /\ ctl' = [ctl EXCEPT !.cancelled = TRUE, !.paused = TRUE]
  /\ UNCHANGED <<others, chosen, match, shown, cursor, load, call, waits, del, calm>>

Resume ==
  /\ Do /\ Visible /\ ~Loading /\ ctl.paused /\ Begin(GoOn(load.all), [ctl EXCEPT !.paused = FALSE])
  /\ UNCHANGED <<others, chosen, shown, waits, del>>

\* Nothing is asked for before the word is entered.
Type(m) ==
  /\ Do /\ Visible /\ m # match /\ match' = m
  /\ calm' = [calm EXCEPT !.apart = @ /\ ~Loading]
  /\ UNCHANGED <<others, chosen, shown, cursor, ctl, load, call, waits, del>>

-----------------------------------------------------------------------------
(* Rows and keys are deleted, here and elsewhere. *)

\* fieldDel: the row is one of the value that is shown, the key the one that is chosen.
DeleteRow(row) ==
  /\ Do /\ Visible /\ del.st = "no"
  /\ del' = [st |-> "asked", what |-> "row", key |-> chosen, row |-> row]
  /\ calm' = [calm EXCEPT !.apart = @ /\ ~Loading /\ (cursor.done \/ IsSet(chosen))]
  /\ UNCHANGED <<others, chosen, match, shown, cursor, ctl, load, call, waits>>

\* meDeleteKey, of any key.
DeleteKey(k) ==
  /\ Do /\ del.st = "no" /\ del' = [NoDel EXCEPT !.st = "asked", !.what = "key", !.key = k]
  /\ UNCHANGED <<others, chosen, match, shown, cursor, ctl, load, call, waits, calm>>

\* The element at the row's position, the last one for a row without position; the field.
Without(s, k, row) ==
  IF IsSet(k) THEN Kept(s, {i \in DOMAIN s : s[i] # row.field})
  ELSE RemoveAt(s, IF IsSet(row.of) THEN Len(s) ELSE row.at + 1)

DelServed ==
  /\ del.st = "asked"
  /\ \/ /\ del.what = "key" /\ server' = [server EXCEPT ![del.key] = <<>>]
        /\ del' = [del EXCEPT !.st = "done"]
     \/ /\ del.what = "row" /\ server[del.key] # <<>>
        /\ IsSet(del.key) \/ IsSet(del.row.of) \/ del.row.at < Len(server[del.key])
        /\ server' = [server EXCEPT ![del.key] = Without(@, del.key, del.row)]
        /\ del' = [del EXCEPT !.st = "done"]
     \/ del' = [del EXCEPT !.st = "failed"] /\ UNCHANGED server
  /\ UNCHANGED <<foreign, asks, chosen, match, shown, cursor, ctl, load, call, waits, calm>>

NotMoved(r, row) == r
\* What comes after a deleted element of a list moves up.
Moved(r, row) == IF r.at > row.at THEN [r EXCEPT !.at = @ - 1] ELSE r

\* removeScannedFieldRow, on the value that is shown now.
Dropped(rows, row) ==
  LET left == Kept(rows, {i \in DOMAIN rows : rows[i].at # row.at}) IN
  IF left = rows \/ IsSet(rv.key) THEN left ELSE [i \in DOMAIN left |-> Moved(left[i], row)]

Deleted ==
  /\ del.st = "done" /\ del' = NoDel
  /\ IF del.what = "key"
     THEN rv' = NoValue /\ chosen' = None
     ELSE rv' = [rv EXCEPT !.rows = Dropped(@, del.row)] /\ UNCHANGED chosen
  /\ UNCHANGED <<others, asks, match, cursor, more, ctl, load, call, waits, calm>>

DelFailed ==
  /\ del.st = "failed" /\ del' = NoDel
  /\ UNCHANGED <<others, asks, chosen, match, shown, cursor, ctl, load, call, waits, calm>>

OtherChanges(k, s) ==
  /\ foreign < MaxForeign /\ foreign' = foreign + 1
  /\ server' = [server EXCEPT ![k] = s] /\ s # server[k]
  /\ calm' = [calm EXCEPT !.same = @ /\ k # chosen]
  /\ UNCHANGED <<asks, chosen, match, shown, cursor, ctl, load, call, waits, del>>

-----------------------------------------------------------------------------
Chain == TypeKnown \/ Serve \/ Arrived \/ Failed \/ End \/ \E w \in {"reset", "plain"} : WaitOver(w)
Deletion == DelServed \/ Deleted \/ DelFailed
User ==
  \/ Restart \/ Saved(Reset) \/ Saved(NoLoad) \/ Pause \/ Resume
  \/ \E k \in Keys : Choose(k) \/ DeleteKey(k)
  \/ \E all \in BOOLEAN : LoadMore(all)
  \/ \E m \in Words : Type(m)
  \/ \E i \in DOMAIN rv.rows : DeleteRow(rv.rows[i])

Next ==
  \/ Chain \/ Deletion \/ User
  \/ \E k \in Keys, n \in 0..N : OtherChanges(k, [i \in 1..n |-> i])

\* The back end answers, answers are taken up, and timers that poll fire.
Spec == Init /\ [][Next]_vars /\ WF_vars(Chain) /\ WF_vars(Deletion)

-----------------------------------------------------------------------------
(* Properties. *)

Idle == ~Loading /\ waits = [reset |-> 0, plain |-> 0] /\ del.st = "no"

OfChosen == Idle /\ Visible /\ calm.ok => \A i \in DOMAIN rv.rows : rv.rows[i].of = chosen
Once == \A i, j \in DOMAIN rv.rows :
  i # j /\ rv.rows[i].of = rv.rows[j].of => rv.rows[i].at # rv.rows[j].at

\* Whatever was chosen, deleted and restarted in between: once nothing loads any more, no
\* row of another key is shown, unless the last load failed; and no field and no position
\* ever has two rows, although SCAN repeats fields, pages overlap and deleted elements
\* move the others.
ShowsChosen == TypeOK /\ OfChosen /\ Once

\* A value that offers no more and was not disturbed is the key's: every field has its
\* row, and every row is on the server where it says.
CompleteWhenSteady ==
  Idle /\ Visible /\ calm = [ok |-> TRUE, same |-> TRUE, apart |-> TRUE] =>
    LET s == server[chosen]
        rows == Range(rv.rows)
        at(i) == IF IsSet(chosen) THEN s[i] ELSE i - 1
    IN /\ \A r \in rows : \E i \in DOMAIN s : r.field = s[i] /\ r.at = at(i)
       /\ ~more => \A i \in DOMAIN s : Matches(cursor.word, s[i]) => \E r \in rows : r.at = at(i)

\* A list that offers no more has every field that its word wants, also when the word was
\* changed while it loaded: the page that cannot be continued begins it anew.
RescanComplete ==
  Idle /\ Visible /\ IsSet(chosen) /\ calm.ok /\ calm.same /\ ~more =>
    \A f \in Range(server[chosen]) : Matches(cursor.word, f) => \E r \in Range(rv.rows) : r.field = f

\* The last choice is loaded: no restart waits for ever, and none is dropped.
ChoiceLoads == \A k \in Keys : (chosen = k) ~> (chosen # k \/ ~calm.ok \/ (Idle /\ rv.key \in {k, None}))
=============================================================================
