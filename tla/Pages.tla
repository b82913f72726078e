------------------------------- MODULE Pages -------------------------------
(***************************************************************************)
(* How the back end of RedisME reads a long value page by page             *)
(* (ops/field_scan.rs).                                                    *)
(*                                                                         *)
(* The page keeps the cursor and asks until it is `finished`; between two  *)
(* pages other clients change the value.  A list and a sorted set are read *)
(* by how many elements came before, an array, a stream, a time series and *)
(* a vector set by where the last page ended.                              *)
(*                                                                         *)
(* An element is its place: the index in a list or an array, the score, id *)
(* or time, the name's place among names.  Others change a list at its     *)
(* tail only: what they do at its head shifts every index.  Hashes, sets   *)
(* and sorted sets without bounds are read with the server's own cursor.   *)
(* LLEN and LRANGE are one step, as are the commands for what an element   *)
(* holds.                                                                  *)
(***************************************************************************)
EXTENDS Integers, Sequences, SequencesExt, FiniteSetsExt

CONSTANTS
  Kinds, None,
  Top,       \* bound: the last place
  Limits,    \* what can be typed for the lower and the upper bound
  PageSize   \* count: field_scan_batch_count

VARIABLES
  ask,       \* the key's type, the direction and the bounds of the tool bar
  held,      \* the elements of the value
  cursor,    \* now_cursor, stream_cursor and finished
  shown,     \* the elements that the pages have had, in their order
  steady,    \* history: elements that were there all the time
  calm       \* history: nobody has changed the value

vars == <<ask, held, cursor, shown, steady, calm>>

Places == 0..Top
Lists == {0..n - 1 : n \in 0..Top + 1}
OneWay == {"array", "zset", "vector", "sample"}

FromEnd(v) == v # None /\ v < 0

TypeOK ==
  /\ ask \in [kind : Kinds, desc : BOOLEAN, min : Limits, max : Limits]
  /\ held \subseteq Places /\ (ask.kind = "list" => held \in Lists)
  /\ cursor \in [at : Nat, edge : Places \cup {None}, finished : BOOLEAN]
  /\ shown \in Seq(Places) /\ steady \subseteq Places /\ calm \in BOOLEAN

Init ==
  /\ ask \in [kind : Kinds, desc : BOOLEAN, min : Limits, max : Limits]
  /\ ask.kind \in OneWay => ~ask.desc
  /\ ask.kind \in {"vector", "sample"} => ask.min = None /\ ask.max = None
  /\ FromEnd(ask.min) \/ FromEnd(ask.max) => ask.kind \in {"list", "array"}
  /\ held \in IF ask.kind = "list" THEN Lists ELSE SUBSET Places
  /\ cursor = [at |-> 0, edge |-> None, finished |-> FALSE]
  /\ shown = <<>> /\ steady = held /\ calm = TRUE

-----------------------------------------------------------------------------
(* One page: its elements and the cursor after it. *)

Span(lo, hi) == {p \in held : lo <= p /\ p <= hi}
\* The elements in their order: the i-th is the one that i elements come up to.
UpTo(S, p, desc) == {r \in S : IF desc THEN r >= p ELSE r <= p}
Sorted(S, desc) == [i \in 1..Cardinality(S) |-> CHOOSE p \in S : Cardinality(UpTo(S, p, desc)) = i]
\* The first n elements, as the server returns them.
FirstOf(S, n, desc) ==
  LET q == Sorted(S, desc) IN SubSeq(q, 1, IF Len(q) < n THEN Len(q) ELSE n)

PageOf(rows, at, edge, finished) ==
  [rows |-> rows, cursor |-> [at |-> at, edge |-> edge, finished |-> finished]]
Finish(rows) == PageOf(rows, cursor.at, cursor.edge, TRUE)
\* LRANGE has found nothing, for one because the list is shorter by now.
EmptyPage == Finish(<<>>)

\* resolve_list_scan_range
Larger(x, y) == IF x > y THEN x ELSE y
Smaller(x, y) == IF x < y THEN x ELSE y
Index(v, default) ==
  IF v = None THEN default ELSE IF FromEnd(v) THEN Larger(Cardinality(held) + v, 0) ELSE v
ListMin == Index(ask.min, 0)
ListMax == Index(ask.max, Larger(Cardinality(held) - 1, 0))

\* Whether this page has reached the end of the range.
CoveredEarly(start, end) == IF ask.desc THEN start <= ListMin + 1 ELSE end >= ListMax
Covered(start, end) == IF ask.desc THEN start <= ListMin ELSE end >= ListMax
\* LRANGE
Range2(start, end) ==
  LET rows == FirstOf(Span(start, end), PageSize, FALSE) IN
  IF rows = <<>> THEN EmptyPage
  ELSE PageOf(IF ask.desc THEN Reverse(rows) ELSE rows, cursor.at + Len(rows), cursor.edge,
              Covered(start, end))

ListPage ==
  LET last == ListMax - cursor.at
      first == ListMin + cursor.at IN
  IF held = {} \/ ListMin > ListMax \/ (ask.desc /\ last < ListMin) THEN Finish(<<>>)
  ELSE IF ask.desc THEN Range2(Larger(last - PageSize + 1, ListMin), last)
  ELSE Range2(first, Smaller(first + PageSize - 1, ListMax))

\* One element more than the page has is fetched, which says whether there are others.
Peeked(S, desc) == FirstOf(S, PageSize + 1, desc)
More(got) == Len(got) > PageSize

\* resolve_array_scan_bounds: what is negative is no bound.
From == IF ask.min = None \/ FromEnd(ask.min) THEN 0 ELSE ask.min
To == IF ask.max = None \/ FromEnd(ask.max) THEN Top ELSE Smaller(ask.max, Top)

NextIndex(p) == p + 1
ArrayPage ==
  LET got == Peeked(Span(Larger(cursor.at, From), To), FALSE) IN
  IF From > To \/ ~More(got) THEN Finish(got)
  ELSE PageOf(Front(got), NextIndex(Last(Front(got))), cursor.edge, FALSE)

\* ZRANGEBYSCORE with an offset.
ScorePage ==
  LET all == Sorted(Span(From, To), FALSE)
      got == SubSeq(all, cursor.at + 1, Smaller(cursor.at + PageSize + 1, Len(all))) IN
  IF More(got) THEN PageOf(Front(got), cursor.at + PageSize, cursor.edge, FALSE) ELSE Finish(got)

\* The element that was peeked at begins the next page.
StreamPage ==
  LET lo == IF ask.desc \/ cursor.edge = None THEN From ELSE cursor.edge
      hi == IF ask.desc /\ cursor.edge # None THEN cursor.edge ELSE To
      got == Peeked(Span(lo, hi), ask.desc) IN
  IF More(got) THEN PageOf(Front(got), cursor.at, Last(got), FALSE) ELSE Finish(got)

\* ts_timestamp_dec_one does not go below 0.
Earlier(t) == Larger(t - 1, 0)
Later(t) == t + 1
TimePage ==
  LET lo == IF ask.desc \/ cursor.edge = None THEN From ELSE Later(cursor.edge)
      hi == IF ask.desc /\ cursor.edge # None THEN Earlier(cursor.edge) ELSE To
      got == FirstOf(Span(lo, hi), PageSize, ask.desc) IN
  IF Len(got) < PageSize THEN PageOf(got, cursor.at, None, TRUE)
  ELSE PageOf(got, cursor.at, Last(got), FALSE)

\* VRANGE goes on after the last name; a page that is full may be the last.
NamePage ==
  LET got == FirstOf({p \in held : cursor.edge = None \/ p > cursor.edge}, PageSize, FALSE) IN
  IF Len(got) < PageSize THEN Finish(got) ELSE PageOf(got, cursor.at, Last(got), FALSE)

\* VRANDMEMBER: some of the names, once.
SamplePages ==
  {PageOf(FirstOf(S, PageSize, FALSE), cursor.at, None, TRUE) :
     S \in {T \in SUBSET held : Cardinality(T) = Smaller(PageSize, Cardinality(held))}}

PagesOf ==
  CASE ask.kind = "list" -> {ListPage}
    [] ask.kind = "array" -> {ArrayPage}
    [] ask.kind = "zset" -> {ScorePage}
    [] ask.kind = "stream" -> {StreamPage}
    [] ask.kind = "ts" -> {TimePage}
    [] ask.kind = "vector" -> {NamePage}
    [] ask.kind = "sample" -> SamplePages

-----------------------------------------------------------------------------
Page ==
  /\ ~cursor.finished
  /\ \E p \in PagesOf : cursor' = p.cursor /\ shown' = shown \o p.rows
  /\ UNCHANGED <<ask, held, steady, calm>>

\* Other clients, between two pages.
Grow(p) ==
  /\ ~cursor.finished /\ p \notin held /\ (ask.kind = "list" => p = Cardinality(held))
  /\ held' = held \cup {p} /\ calm' = FALSE
  /\ UNCHANGED <<ask, cursor, shown, steady>>

Shrink(p) ==
  /\ ~cursor.finished /\ p \in held /\ (ask.kind = "list" => p = Cardinality(held) - 1)
  /\ held' = held \ {p} /\ steady' = steady \ {p} /\ calm' = FALSE
  /\ UNCHANGED <<ask, cursor, shown>>

Next == Page \/ \E p \in Places : Grow(p) \/ Shrink(p)

\* The value page asks for page after page when all are wanted.
Fairness == WF_vars(Page)
Spec == Init /\ [][Next]_vars /\ Fairness

-----------------------------------------------------------------------------
(* Properties *)

\* Changes between two pages are harmless for what is read by place; for a list from
\* its head if no index is counted from its end; for others there are none.
Unshifted ==
  \/ calm \/ ask.kind \in {"array", "stream", "ts", "vector"}
  \/ ask.kind = "list" /\ ~ask.desc /\ ~FromEnd(ask.min) /\ ~FromEnd(ask.max)

\* Set aside, as the code does otherwise: a list from its end with an upper bound past
\* it, whose first page counts from the bound; and a sample at time 0.
PastEnd == ask.kind = "list" /\ ask.desc /\ ListMax >= Larger(Cardinality(held), 1)
TimeZero == ask.kind = "ts" /\ ask.desc /\ \E i \in DOMAIN shown : shown[i] = 0

InRange(p) ==
  IF ask.kind = "list" THEN ListMin <= p /\ p <= ListMax ELSE From <= p /\ p <= To

\* When the pages are finished they have had every element within the bounds that was
\* there all the time, at any size of the value and of a page: field_scan_0_get.
PagesComplete ==
  cursor.finished /\ Unshifted /\ ~PastEnd /\ ask.kind # "sample"
    => \A p \in steady : InRange(p) => Contains(shown, p)

\* Pages follow one another in the direction that was asked for, so nothing is there twice.
PagesInOrder ==
  Unshifted /\ ~PastEnd /\ ~TimeZero =>
    \A i \in 2..Len(shown) : IF ask.desc THEN shown[i] < shown[i - 1] ELSE shown[i] > shown[i - 1]

\* The pages have come to an end.
Finished == cursor.finished
=============================================================================
