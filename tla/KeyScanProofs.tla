--------------------------- MODULE KeyScanProofs ---------------------------
(* What KeyScan promises for every set of keys, every cluster and every    *)
(* number of waiting handlers: type correctness, and that a list which     *)
(* says it is complete has every lasting key it was asked for.             *)
EXTENDS KeyScan, FiniteSetTheorems, TLAPS

-----------------------------------------------------------------------------
(* Lemmas about the cursor. *)

\* A list of masters is a sequence over its names.
LEMMA ListIsSeq == ASSUME NEW l \in Lists PROVE l \in Seq(Range(l))
BY KeyScanAssumption DEF KeyScanAssumption

\* An initial segment of the numbers is as large as its last one.
LEMMA Segment == ASSUME NEW m \in Nat PROVE IsFiniteSet(1..m) /\ Cardinality(1..m) = m
<1>1. 1 \in Int /\ m \in Int
  OBVIOUS
<1>2. IsFiniteSet(1..m) /\ Cardinality(1..m) = IF 1 > m THEN 0 ELSE m - 1 + 1
  BY ONLY <1>1, FS_Interval, Zenon
<1> QED
  BY <1>2

\* As many ready masters as the list has: all of them.
LEMMA AllReady ==
  ASSUME NEW l \in Lists, NEW R \in SUBSET Range(l), Cardinality(R) = Len(l)
  PROVE  R = Range(l)
<1>1. l \in Seq(Range(l)) /\ Len(l) \in Nat /\ DOMAIN l = 1..Len(l)
  BY ListIsSeq
<1>2. l \in Surjection(1..Len(l), Range(l))
  BY <1>1 DEF Surjection, Range
<1>3. IsFiniteSet(1..Len(l)) /\ Cardinality(1..Len(l)) = Len(l)
  BY <1>1, Segment
<1>4. IsFiniteSet(Range(l)) /\ Cardinality(Range(l)) <= Len(l)
  BY <1>2, <1>3, FS_Surjection
<1>5. /\ IsFiniteSet(R) /\ Cardinality(R) <= Cardinality(Range(l))
      /\ Cardinality(Range(l)) = Cardinality(R) => Range(l) = R
  BY <1>4, FS_Subset
<1>6. Cardinality(Range(l)) \in Nat /\ Cardinality(R) \in Nat
  BY <1>4, <1>5, FS_CardinalityType
<1> QED
  BY <1>1, <1>4, <1>5, <1>6

\* At most one master is next.
LEMMA OnePending ==
  ASSUME NEW l \in Lists, NEW R, NEW i \in Pending(l, R), NEW j \in Pending(l, R)
  PROVE  i = j
<1>1. Len(l) \in Nat
  BY ListIsSeq
<1>2. /\ i \in 1..Len(l) /\ l[i] \notin R /\ \A h \in 1..i - 1 : l[h] \in R
      /\ j \in 1..Len(l) /\ l[j] \notin R /\ \A h \in 1..j - 1 : l[h] \in R
  BY DEF Pending
<1> QED
  BY <1>1, <1>2


\* A master that is next belongs to the list.
LEMMA PendingName ==
  ASSUME NEW l \in Lists, NEW R, NEW i \in Pending(l, R)
  PROVE  l[i] \in Range(l) /\ Range(l) \subseteq Names
<1>1. l \in Seq(Range(l)) /\ i \in 1..Len(l)
  BY ListIsSeq DEF Pending
<1> QED
  BY <1>1 DEF Names, Range

\* The constants as the lemmas below use them.
LEMMA Bounds ==
  /\ IsFiniteSet(Keys)
  /\ Buckets \in Nat \ {0} /\ Count \in Nat \ {0}
  /\ AllKeys \in Filters /\ Filters \subseteq [keys : SUBSET Keys, exact : BOOLEAN]
  /\ BucketOf \in [Keys -> 1..Buckets]
BY KeyScanAssumption DEF KeyScanAssumption

LEMMA StartTyped == Start \in Cursor /\ [Start EXCEPT !.fin = TRUE] \in Cursor
<1>1. 0 \in 0..Buckets - 1
  BY Bounds
<1> QED
  BY <1>1 DEF Start, Cursor

LEMMA FinishTyped == ASSUME NEW cur \in Cursor PROVE Finish(cur) \in Cursor
<1>1. 0 \in 0..Buckets - 1
  BY Bounds
<1>2. [cur EXCEPT !.fin = TRUE, !.pos = 0] \in Cursor
  BY <1>1 DEF Cursor
<1> QED
  BY <1>2 DEF Finish

LEMMA AdvanceTyped ==
  ASSUME NEW cur \in Cursor, NEW n \in Names, NEW p \in cur.pos + 1..Buckets
  PROVE  Advance(cur, n, p) \in Cursor
<1>1. Buckets \in Nat \ {0} /\ cur.pos \in 0..Buckets - 1 /\ cur.ready \in SUBSET Names
  BY Bounds DEF Cursor
<1>2. (IF p = Buckets THEN 0 ELSE p) \in 0..Buckets - 1
  BY <1>1
<1>3. (IF p = Buckets THEN cur.ready \cup {n} ELSE cur.ready) \in SUBSET Names
  BY <1>1
<1> QED
  BY <1>2, <1>3 DEF Advance, Cursor

-----------------------------------------------------------------------------
(* Types. *)

\* What the two starts of a scan leave well typed.
LEMMA AskTyped ==
  ASSUME TypeOK, NEW cur \in Cursor, NEW f \in Filters, Ask(cur, f)
  PROVE  /\ flight' \in [st : {"none", "asked", "answered"}, cur : Cursor, flt : Filters,
                         keys : SUBSET Keys]
         /\ flight'.st = "asked"
BY DEF Ask, NoFlight

LEMMA ContinueTyped ==
  ASSUME TypeOK, NEW all \in BOOLEAN, NEW paused \in BOOLEAN, Continue(all, paused),
         UNCHANGED <<present, nodes, filter, wait>>
  PROVE  TypeOK'
<1>1. cursor \in Cursor /\ filter \in Filters /\ Ask(cursor, filter)
  BY DEF TypeOK, ListOK, Continue
<1>2. CallOK'
  BY <1>1, AskTyped DEF TypeOK, CallOK, Continue
<1>3. ListOK' /\ SeenOK'
  BY KeyScanAssumption DEF KeyScanAssumption, TypeOK, ListOK, SeenOK, Continue
<1> QED
  BY <1>2, <1>3 DEF TypeOK

LEMMA NewListTyped ==
  ASSUME TypeOK, NEW f \in Filters, NewList(f),
         UNCHANGED <<present, nodes>>, filter' \in Filters,
         wait' \in [Waiters -> {"no", "restart", "refresh"}]
  PROVE  TypeOK'
<1>1. CallOK'
  BY AskTyped, StartTyped DEF TypeOK, CallOK, NewList
<1>2. buf' \in [Keys -> 0..2] /\ fetched' \in 0..Count
  BY Bounds DEF NewList
<1>3. ListOK'
  BY <1>2, StartTyped DEF TypeOK, ListOK, NewList
<1>4. seen' \in [asked : Filters, stable : SUBSET Keys, steady : BOOLEAN,
                gone : SUBSET Keys, collided : BOOLEAN]
  BY DEF TypeOK, ListOK, SeenOK, NewList
<1> QED
  BY <1>1, <1>3, <1>4 DEF TypeOK, SeenOK

\* An answer keeps the types, whatever it is.
LEMMA AnswerTyped ==
  ASSUME TypeOK, NEW cur \in Cursor, NEW ks \in SUBSET Keys, Answer(cur, ks),
         flight.st = "asked",
         UNCHANGED <<present, nodes, filter, cursor, buf, ui, fetched, wait, seen>>
  PROVE  TypeOK'
<1>1. flight' \in [st : {"none", "asked", "answered"}, cur : Cursor, flt : Filters,
                   keys : SUBSET Keys]
      /\ flight'.st = "answered"
  BY Bounds DEF Answer
<1>2. ui.loading
  BY DEF TypeOK, CallOK
<1>3. CallOK'
  BY <1>1, <1>2 DEF TypeOK, CallOK
<1> QED
  BY <1>3 DEF TypeOK, ListOK, SeenOK

\* Every answer of a call.
LEMMA ScanCallIs ==
  ASSUME TypeOK, ScanCall
  PROVE  \E cur \in Cursor, ks \in SUBSET Keys : Answer(cur, ks)
<1> DEFINE want == flight.flt.keys \cap present
<1>1. flight.cur \in Cursor /\ want \in SUBSET Keys /\ nodes \in Lists
  BY DEF TypeOK, ListOK, CallOK
<1>2. CASE flight.flt.exact
  <2>1. Answer([Start EXCEPT !.fin = TRUE], want)
    BY <1>2 DEF ScanCall
  <2> QED
    BY <2>1, <1>1, StartTyped
<1>3. CASE ~flight.flt.exact /\ Pending(nodes, flight.cur.ready) = {}
  <2>1. Answer(Finish(flight.cur), {})
    BY <1>3 DEF ScanCall
  <2> QED
    BY <2>1, <1>1, FinishTyped
<1>4. CASE ~flight.flt.exact /\ Pending(nodes, flight.cur.ready) # {}
  <2>1. PICK i \in Pending(nodes, flight.cur.ready), p \in flight.cur.pos + 1..Buckets :
          Answer(Finish(Advance(flight.cur, nodes[i], p)),
                 {k \in want \cap Holds[nodes[i]] :
                    flight.cur.pos < BucketOf[k] /\ BucketOf[k] <= p})
    BY <1>4 DEF ScanCall
  <2>2. nodes[i] \in Names
    BY <1>1, PendingName
  <2>3. Finish(Advance(flight.cur, nodes[i], p)) \in Cursor
    BY <2>2, <1>1, AdvanceTyped, FinishTyped
  <2> QED
    BY <2>1, <2>3, <1>1
<1> QED
  BY <1>2, <1>3, <1>4

LEMMA LandedTyped == ASSUME TypeOK, Landed PROVE TypeOK'
<1> DEFINE got == fetched + Cardinality(flight.keys)
<1>1. /\ flight.cur \in Cursor /\ flight.keys \in SUBSET Keys /\ flight.st = "answered"
      /\ filter \in Filters /\ ui.loading /\ fetched \in 0..Count
  BY DEF TypeOK, ListOK, CallOK, Landed
<1>2. fetched' \in 0..Count
  <2>1. Cardinality(flight.keys) \in Nat
    BY <1>1, Bounds, FS_Subset, FS_CardinalityType
  <2>2. fetched' = IF got >= Count THEN Count ELSE got
    BY DEF Landed
  <2> QED
    BY <1>1, <2>1, <2>2, Bounds
<1>3. buf' \in [Keys -> 0..2]
  <2>1. \A k \in Keys : AddOnce(k) \in 0..2 /\ buf[k] \in 0..2
    BY DEF TypeOK, ListOK, AddOnce
  <2> QED
    BY <2>1 DEF Landed
<1>4. ListOK' /\ SeenOK'
  BY <1>1, <1>2, <1>3 DEF TypeOK, ListOK, SeenOK, Landed
<1>5. CASE End
  <2>1. /\ ui' \in [loading : BOOLEAN, cancelled : BOOLEAN, paused : BOOLEAN, all : BOOLEAN]
        /\ ~ui'.loading
    <3>1. (ui.paused /\ ~cursor'.fin) \in BOOLEAN
      OBVIOUS
    <3> QED
      BY <1>5, <3>1 DEF TypeOK, CallOK, End
  <2>2. CallOK'
    BY <1>5, <2>1, Bounds, StartTyped DEF TypeOK, CallOK, End, NoFlight, Landed
  <2> QED
    BY <1>4, <2>2 DEF TypeOK
<1>6. CASE Ask(cursor', filter) /\ UNCHANGED ui
  <2>1. cursor' \in Cursor
    BY <1>1 DEF Landed
  <2>2. CallOK'
    BY <1>1, <1>6, <2>1, AskTyped DEF TypeOK, CallOK, Landed
  <2> QED
    BY <1>4, <2>2 DEF TypeOK
<1> QED
  BY <1>5, <1>6 DEF Landed

LEMMA FailedTyped == ASSUME TypeOK, Failed PROVE TypeOK'
<1>1. /\ ui' \in [loading : BOOLEAN, cancelled : BOOLEAN, paused : BOOLEAN, all : BOOLEAN]
      /\ ~ui'.loading
  <2>1. (ui.paused /\ ~cursor'.fin) \in BOOLEAN
    OBVIOUS
  <2> QED
    BY <2>1 DEF TypeOK, CallOK, Failed, End
<1>2. CallOK'
  BY <1>1, Bounds, StartTyped DEF TypeOK, CallOK, Failed, End, NoFlight
<1> QED
  BY <1>2 DEF TypeOK, ListOK, SeenOK, Failed

\* Pausing and waiting change the flags and the waiting handlers only.
LEMMA FlagsTyped ==
  ASSUME TypeOK, ui.loading,
         ui' \in [loading : {TRUE}, cancelled : BOOLEAN, paused : BOOLEAN, all : BOOLEAN],
         wait' \in [Waiters -> {"no", "restart", "refresh"}],
         UNCHANGED <<present, nodes, filter, cursor, buf, fetched, flight, seen>>
  PROVE  TypeOK'
<1>1. CallOK'
  BY DEF TypeOK, CallOK
<1> QED
  BY <1>1 DEF TypeOK, ListOK, SeenOK

\* Key changes touch the keys, the rows and the history only.
LEMMA KeysTyped ==
  ASSUME TypeOK, present' \in SUBSET Keys, nodes' \in Lists, buf' \in [Keys -> 0..2], SeenOK',
         UNCHANGED <<filter, cursor, ui, fetched, flight, wait>>
  PROVE  TypeOK'
<1>1. ListOK' /\ CallOK'
  BY DEF TypeOK, ListOK, CallOK
<1> QED
  BY <1>1 DEF TypeOK

LEMMA UserTyped == ASSUME TypeOK, UserStep PROVE TypeOK'
<1>0. filter \in Filters /\ ui.all \in BOOLEAN /\ ui.paused \in BOOLEAN
      /\ wait \in [Waiters -> {"no", "restart", "refresh"}]
  BY DEF TypeOK, ListOK, CallOK
<1>1. CASE Pause
  BY <1>1, FlagsTyped DEF TypeOK, CallOK, Pause
<1>2. CASE Resume
  BY <1>0, <1>2, ContinueTyped DEF Resume
<1>3. CASE LoadMore
  <2>1. PICK all \in BOOLEAN : Continue(all, ui.paused)
    BY <1>3 DEF LoadMore
  <2> QED
    BY <1>0, <1>3, <2>1, ContinueTyped DEF LoadMore
<1>4. CASE Query
  BY <1>0, <1>4, NewListTyped DEF Query
<1>5. ASSUME NEW w \in Waiters, NEW what \in {"restart", "refresh"}, StopAndWait(w, what)
      PROVE  TypeOK'
  <2>1. wait' \in [Waiters -> {"no", "restart", "refresh"}]
    BY <1>0, <1>5 DEF StopAndWait
  <2> QED
    BY <1>5, <2>1, FlagsTyped DEF TypeOK, CallOK, StopAndWait
<1>6. ASSUME NEW w \in Waiters, Restart(w) PROVE TypeOK'
  <2>1. wait' \in [Waiters -> {"no", "restart", "refresh"}]
    BY <1>0, <1>6 DEF Restart
  <2> QED
    BY <1>0, <1>6, <2>1, NewListTyped DEF Restart
<1>7. ASSUME NEW w \in Waiters, Refresh(w) PROVE TypeOK'
  <2>1. wait' \in [Waiters -> {"no", "restart", "refresh"}]
    BY <1>0, <1>7 DEF Refresh
  <2> QED
    BY <1>7, <2>1, Bounds, NewListTyped DEF Refresh
<1>8. ASSUME NEW f \in Filters, SetFilter(f) PROVE TypeOK'
  <2>1. SeenOK'
    BY <1>8 DEF TypeOK, SeenOK, SetFilter
  <2> QED
    BY <1>8, <2>1 DEF TypeOK, ListOK, CallOK, SetFilter
<1>9. ASSUME NEW f \in Filters, ChooseType(f) PROVE TypeOK'
  <2>1. CASE ui.loading
    <3>1. SeenOK'
      BY <1>9, <2>1 DEF TypeOK, SeenOK, ChooseType
    <3> QED
      BY <1>9, <2>1, <3>1 DEF TypeOK, ListOK, CallOK, ChooseType
  <2>2. CASE ~ui.loading
    BY <1>0, <1>9, <2>2, NewListTyped DEF ChooseType
  <2> QED
    BY <2>1, <2>2
<1> QED
  BY <1>1, <1>2, <1>3, <1>4, <1>5, <1>6, <1>7, <1>8, <1>9 DEF UserStep

LEMMA KeyTyped == ASSUME TypeOK, KeyStep PROVE TypeOK'
<1>0. /\ present \in SUBSET Keys /\ nodes \in Lists /\ buf \in [Keys -> 0..2]
      /\ seen.stable \in SUBSET Keys /\ seen.gone \in SUBSET Keys /\ seen.collided \in BOOLEAN
  BY DEF TypeOK, ListOK, SeenOK
<1>1. ASSUME NEW k \in Keys, DeleteKey(k) PROVE TypeOK'
  <2>1. SeenOK'
    BY <1>1 DEF TypeOK, SeenOK, DeleteKey
  <2>2. buf' \in [Keys -> 0..2]
    BY <1>0, <1>1 DEF DeleteKey, DeleteRow
  <2> QED
    BY <1>0, <1>1, <2>1, <2>2, KeysTyped DEF DeleteKey
<1>2. ASSUME NEW k \in Keys, AddKey(k) PROVE TypeOK'
  <2>1. (seen.collided \/ buf[k] > 0) \in BOOLEAN
    OBVIOUS
  <2>2. SeenOK'
    BY <1>2, <2>1 DEF TypeOK, SeenOK, AddKey
  <2>3. AddTwice(k) \in 0..2
    BY <1>0 DEF AddTwice
  <2>4. buf' \in [Keys -> 0..2]
    BY <1>0, <1>2, <2>3 DEF AddKey
  <2> QED
    BY <1>0, <1>2, <2>2, <2>4, KeysTyped DEF AddKey
<1>3. ASSUME NEW k \in Keys, OtherAdds(k) PROVE TypeOK'
  <2>1. SeenOK'
    BY <1>3 DEF TypeOK, SeenOK, OtherAdds
  <2> QED
    BY <1>0, <1>3, <2>1, KeysTyped DEF OtherAdds
<1>4. ASSUME NEW k \in Keys, OtherDeletes(k) PROVE TypeOK'
  <2>1. SeenOK'
    BY <1>4 DEF TypeOK, SeenOK, OtherDeletes
  <2> QED
    BY <1>0, <1>4, <2>1, KeysTyped DEF OtherDeletes
<1>5. ASSUME NEW k \in Keys, NEW l \in Keys, RenameKey(k, l) PROVE TypeOK'
  <2>1. (seen.collided \/ buf[l] > 0) \in BOOLEAN
    OBVIOUS
  <2>2. SeenOK'
    BY <1>5, <2>1 DEF TypeOK, SeenOK, RenameKey
  <2>3. (IF buf[k] + buf[l] > 2 THEN 2 ELSE buf[k] + buf[l]) \in 0..2
    BY <1>0
  <2>4. buf' \in [Keys -> 0..2]
    BY <1>0, <1>5, <2>3 DEF RenameKey
  <2> QED
    BY <1>0, <1>5, <2>2, <2>4, KeysTyped DEF RenameKey
<1>6. ASSUME NEW l \in Lists, Replaced(l) PROVE TypeOK'
  <2>1. SeenOK'
    BY <1>6 DEF TypeOK, SeenOK, Replaced
  <2> QED
    BY <1>0, <1>6, <2>1, KeysTyped DEF Replaced
<1> QED
  BY <1>1, <1>2, <1>3, <1>4, <1>5, <1>6 DEF KeyStep

LEMMA StepTyped == ASSUME TypeOK, [Next]_vars PROVE TypeOK'
<1>1. CASE ScanCall
  <2>1. PICK cur \in Cursor, ks \in SUBSET Keys : Answer(cur, ks)
    BY <1>1, ScanCallIs
  <2> QED
    BY <1>1, <2>1, AnswerTyped DEF ScanCall
<1>2. CASE vars' = vars
  BY <1>2 DEF vars, TypeOK, ListOK, CallOK, SeenOK
<1> QED
  BY <1>1, <1>2, LandedTyped, FailedTyped, UserTyped, KeyTyped DEF Next, ScanStep

\* The list, the call under way and the flags of KeyMain.vue stay well typed; a
\* call is under way exactly while the list is loading.
THEOREM TypeCorrect == Spec => []TypeOK
<1>1. Init => TypeOK
  <2> SUFFICES ASSUME Init PROVE TypeOK
    OBVIOUS
  <2>1. ListOK
    BY Bounds, StartTyped DEF Init, ListOK
  <2>2. CallOK
    BY Bounds, StartTyped DEF Init, CallOK, NoFlight
  <2>3. SeenOK
    BY Bounds DEF Init, SeenOK, Seen0
  <2> QED
    BY <2>1, <2>2, <2>3 DEF TypeOK
<1>2. TypeOK /\ [Next]_vars => TypeOK'
  BY StepTyped
<1> QED
  BY <1>1, <1>2, PTL DEF Spec

-----------------------------------------------------------------------------
(* Deleted keys. *)

\* What keeps a deleted key away: no server has it and no reply under way lists it.
GoneForGood == \A k \in seen.gone :
  k \notin present /\ buf[k] = 0 /\ (flight.st = "answered" => k \notin flight.keys)

LEMMA ScanCallGone == ASSUME TypeOK, GoneForGood, ScanCall PROVE GoneForGood'
<1>1. flight'.keys \subseteq present
  <2> DEFINE want == flight.flt.keys \cap present
  <2>1. CASE flight.flt.exact
    BY <2>1 DEF ScanCall, Answer
  <2>2. CASE ~flight.flt.exact /\ Pending(nodes, flight.cur.ready) = {}
    BY <2>2 DEF ScanCall, Answer
  <2>3. CASE ~flight.flt.exact /\ Pending(nodes, flight.cur.ready) # {}
    BY <2>3 DEF ScanCall, Answer
  <2> QED
    BY <2>1, <2>2, <2>3
<1> QED
  BY <1>1 DEF ScanCall, GoneForGood

LEMMA LandedGone == ASSUME TypeOK, GoneForGood, Landed PROVE GoneForGood'
<1>1. seen' = seen /\ present' = present /\ flight'.st # "answered"
  <2>1. End => flight'.st # "answered"
    BY DEF End, NoFlight
  <2>2. Ask(cursor', filter) => flight'.st # "answered"
    BY DEF Ask, NoFlight
  <2> QED
    BY <2>1, <2>2 DEF Landed
<1>2. \A k \in seen.gone : k \in Keys /\ k \notin flight.keys
  BY DEF TypeOK, SeenOK, GoneForGood, Landed
<1>3. \A k \in seen.gone : buf'[k] = 0
  BY <1>2 DEF Landed, GoneForGood
<1> QED
  BY <1>1, <1>3 DEF GoneForGood

LEMMA UserGone == ASSUME TypeOK, GoneForGood, UserStep PROVE GoneForGood'
<1>1. ASSUME NEW f, NewList(f), UNCHANGED present PROVE GoneForGood'
  <2>1. seen'.gone = seen.gone /\ seen.gone \subseteq Keys
    BY <1>1 DEF NewList, TypeOK, SeenOK
  <2>2. flight'.st = "asked"
    BY <1>1 DEF NewList, Ask, NoFlight
  <2>3. \A k \in Keys : buf'[k] = 0
    BY <1>1 DEF NewList
  <2> QED
    BY <1>1, <2>1, <2>2, <2>3 DEF GoneForGood
<1>2. ASSUME NEW all, NEW paused, Continue(all, paused), UNCHANGED present PROVE GoneForGood'
  BY <1>2 DEF Continue, Ask, NoFlight, GoneForGood
<1>3. ASSUME UNCHANGED <<present, buf, flight>>, seen'.gone = seen.gone PROVE GoneForGood'
  BY <1>3 DEF GoneForGood
<1>4. CASE Pause \/ Resume \/ LoadMore \/ Query
  BY <1>1, <1>2, <1>3, <1>4 DEF Pause, Resume, LoadMore, Query
<1>5. ASSUME NEW w \in Waiters,
             \/ StopAndWait(w, "restart") \/ StopAndWait(w, "refresh")
             \/ Restart(w) \/ Refresh(w)
      PROVE  GoneForGood'
  BY <1>1, <1>3, <1>5 DEF StopAndWait, Restart, Refresh
<1>6. ASSUME NEW f \in Filters, SetFilter(f) \/ ChooseType(f) PROVE GoneForGood'
  <2>1. CASE SetFilter(f)
    BY <1>3, <2>1 DEF SetFilter, TypeOK, SeenOK
  <2>2. CASE ChooseType(f) /\ ui.loading
    BY <1>3, <2>2 DEF ChooseType, TypeOK, SeenOK
  <2>3. CASE ChooseType(f) /\ ~ui.loading
    BY <1>1, <2>3 DEF ChooseType
  <2> QED
    BY <1>6, <2>1, <2>2, <2>3
<1> QED
  BY <1>4, <1>5, <1>6 DEF UserStep

LEMMA KeyGone == ASSUME TypeOK, GoneForGood, KeyStep PROVE GoneForGood'
<1>0. /\ present \in SUBSET Keys /\ buf \in [Keys -> 0..2] /\ seen.gone \in SUBSET Keys
      /\ \A k \in seen.gone : /\ k \notin present /\ buf[k] = 0
                              /\ flight.st = "answered" => k \notin flight.keys
  BY DEF TypeOK, ListOK, SeenOK, GoneForGood
<1>1. ASSUME NEW k \in Keys, DeleteKey(k) PROVE GoneForGood'
  <2>1. /\ present' = present \ {k} /\ seen'.gone = seen.gone \cup {k} /\ flight' = flight
        /\ buf' = [buf EXCEPT ![k] = 0] /\ flight.st # "answered"
    BY <1>1 DEF DeleteKey, DeleteRow, Settled, TypeOK, SeenOK
  <2> QED
    BY <1>0, <2>1 DEF GoneForGood
<1>2. ASSUME NEW k \in Keys, AddKey(k) PROVE GoneForGood'
  <2>1. /\ present' = present \cup {k} /\ seen'.gone = seen.gone \ {k} /\ flight' = flight
        /\ buf' = [buf EXCEPT ![k] = AddTwice(k)]
    BY <1>2 DEF AddKey, TypeOK, SeenOK
  <2> QED
    BY <1>0, <2>1 DEF GoneForGood
<1>3. ASSUME NEW k \in Keys, OtherAdds(k) PROVE GoneForGood'
  <2>1. /\ present' = present \cup {k} /\ seen'.gone = seen.gone \ {k} /\ flight' = flight
        /\ buf' = buf
    BY <1>3 DEF OtherAdds, TypeOK, SeenOK
  <2> QED
    BY <1>0, <2>1 DEF GoneForGood
<1>4. ASSUME NEW k \in Keys, OtherDeletes(k) PROVE GoneForGood'
  BY <1>0, <1>4 DEF OtherDeletes, GoneForGood
<1>5. ASSUME NEW k \in Keys, NEW l \in Keys, RenameKey(k, l) PROVE GoneForGood'
  <2>1. /\ present' = (present \ {k}) \cup {l} /\ seen'.gone = (seen.gone \cup {k}) \ {l}
        /\ flight' = flight /\ flight.st # "answered" /\ k # l
    BY <1>5 DEF RenameKey, Settled, TypeOK, SeenOK
  <2>2. \A h \in Keys : h # l => buf'[h] = IF h = k THEN 0 ELSE buf[h]
    BY <1>0, <1>5 DEF RenameKey
  <2> QED
    BY <1>0, <2>1, <2>2 DEF GoneForGood
<1>6. ASSUME NEW l \in Lists, Replaced(l) PROVE GoneForGood'
  BY <1>0, <1>6 DEF Replaced, GoneForGood
<1> QED
  BY <1>1, <1>2, <1>3, <1>4, <1>5, <1>6 DEF KeyStep

\* A key that was deleted or renamed in this window is not in the list again
\* before somebody makes it again, whatever batches were under way.
THEOREM DeletedKeysStayGone == Spec => []DeletedStaysGone
<1>1. Init => GoneForGood
  BY DEF Init, Seen0, GoneForGood
<1>2. TypeOK /\ GoneForGood /\ [Next]_vars => GoneForGood'
  <2> SUFFICES ASSUME TypeOK, GoneForGood, [Next]_vars PROVE GoneForGood'
    OBVIOUS
  <2>1. CASE Failed
    BY <2>1 DEF Failed, End, NoFlight, GoneForGood
  <2>2. CASE UNCHANGED vars
    BY <2>2 DEF vars, GoneForGood
  <2> QED
    BY <2>1, <2>2, ScanCallGone, LandedGone, UserGone, KeyGone DEF Next, ScanStep
<1>3. GoneForGood => DeletedStaysGone
  BY DEF GoneForGood, DeletedStaysGone
<1> QED
  BY <1>1, <1>2, <1>3, TypeCorrect, PTL DEF Spec

-----------------------------------------------------------------------------
(* Complete lists. *)

Rows == {k \in Keys : buf[k] > 0}
Lasting == seen.stable \cap seen.asked.keys

\* What a cursor stands for: of the keys in S, those are in `has` that ready
\* masters hold, and those the next master holds up to the position; all, once it
\* is finished.
Cover(l, cur, S, has) ==
  /\ cur.ready \subseteq Range(l)
  /\ cur.fin => S \subseteq has
  /\ \A n \in cur.ready : S \cap Holds[n] \subseteq has
  /\ \A i \in Pending(l, cur.ready) :
       \A k \in S \cap Holds[l[i]] : BucketOf[k] <= cur.pos => k \in has

\* While nobody changes inputs or masters, the cursor covers the rows, and the
\* cursor on its way back covers the rows with the batch it comes with.
Covered == seen.steady =>
  /\ filter = seen.asked
  /\ Cover(nodes, cursor, Lasting, Rows)
  /\ flight.st = "asked" => flight.flt = filter /\ flight.cur = cursor
  /\ flight.st = "answered" => Cover(nodes, flight.cur, Lasting, Rows \cup flight.keys)

IInv == seen.stable \subseteq present /\ Covered

\* Fewer keys to cover, or more rows.
LEMMA CoverMono ==
  ASSUME NEW l, NEW cur, NEW S, NEW has, NEW S1 \in SUBSET S, NEW has1,
         S1 \cap has \subseteq has1, Cover(l, cur, S, has)
  PROVE  Cover(l, cur, S1, has1)
BY DEF Cover

\* A new list.
LEMMA CoverStart == ASSUME NEW l, NEW S \in SUBSET Keys, NEW has PROVE Cover(l, Start, S, has)
<1>1. \A k \in S : ~(BucketOf[k] <= 0)
  BY Bounds
<1> QED
  BY <1>1 DEF Cover, Start

\* An exact name is looked up whole.
LEMMA CoverExact ==
  ASSUME NEW l, NEW S \in SUBSET Keys, NEW has, S \subseteq has
  PROVE  Cover(l, [Start EXCEPT !.fin = TRUE], S, has)
BY DEF Cover, Start

\* The end is recognised only when every master is ready.
LEMMA CoverFinish ==
  ASSUME nodes \in Lists, NEW cur \in Cursor, NEW S \in SUBSET Keys, NEW has,
         Cover(nodes, cur, S, has)
  PROVE  Cover(nodes, Finish(cur), S, has)
<1>1. CASE Cardinality(cur.ready) # Len(nodes)
  BY <1>1 DEF Finish
<1>2. CASE Cardinality(cur.ready) = Len(nodes)
  <2>1. cur.ready = Range(nodes)
    BY <1>2, AllReady DEF Cover
  <2>2. S \subseteq UNION {Holds[n] : n \in cur.ready}
    BY <2>1, KeyScanAssumption DEF KeyScanAssumption
  <2>3. S \subseteq has
    BY <2>2 DEF Cover
  <2>4. /\ Finish(cur).ready = cur.ready
        /\ Finish(cur) = [cur EXCEPT !.fin = TRUE, !.pos = 0]
    BY <1>2 DEF Finish, Cursor
  <2> QED
    BY <2>3, <2>4 DEF Cover
<1> QED
  BY <1>1, <1>2

\* A step of SCAN on the next master covers what it returns.
LEMMA CoverAdvance ==
  ASSUME nodes \in Lists, NEW cur \in Cursor, NEW S \in SUBSET Keys, NEW has,
         NEW i \in Pending(nodes, cur.ready), NEW p \in cur.pos + 1..Buckets,
         Cover(nodes, cur, S, has),
         NEW ks, \A k \in S \cap Holds[nodes[i]] :
                   cur.pos < BucketOf[k] /\ BucketOf[k] <= p => k \in ks
  PROVE  Cover(nodes, Advance(cur, nodes[i], p), S, has \cup ks)
<1>0. /\ Buckets \in Nat /\ cur.pos \in 0..Buckets - 1 /\ p \in 1..Buckets
      /\ \A k \in S : BucketOf[k] \in 1..Buckets
  BY Bounds DEF Cursor
<1>1. \A k \in S \cap Holds[nodes[i]] : BucketOf[k] <= p => k \in has \cup ks
  BY <1>0 DEF Cover
<1>2. nodes[i] \in Range(nodes)
  BY PendingName
<1>3. CASE p # Buckets
  <2>1. /\ Advance(cur, nodes[i], p).ready = cur.ready
        /\ Advance(cur, nodes[i], p).fin = cur.fin
        /\ Advance(cur, nodes[i], p).pos = p
    BY <1>3 DEF Advance, Cursor
  <2>2. \A j \in Pending(nodes, cur.ready) : j = i
    BY OnePending
  <2> QED
    BY <1>1, <2>1, <2>2 DEF Cover
<1>4. CASE p = Buckets
  <2>1. /\ Advance(cur, nodes[i], p).ready = cur.ready \cup {nodes[i]}
        /\ Advance(cur, nodes[i], p).fin = cur.fin
        /\ Advance(cur, nodes[i], p).pos = 0
    BY <1>4 DEF Advance, Cursor
  <2>2. S \cap Holds[nodes[i]] \subseteq has \cup ks
    BY <1>0, <1>1, <1>4
  <2>3. \A k \in S : ~(BucketOf[k] <= 0)
    BY <1>0
  <2> QED
    BY <1>2, <2>1, <2>2, <2>3 DEF Cover
<1> QED
  BY <1>3, <1>4

LEMMA ScanCallCovered == ASSUME TypeOK, IInv, ScanCall PROVE IInv'
<1> DEFINE want == flight.flt.keys \cap present
           cur == flight.cur
<1>1. /\ UNCHANGED <<present, nodes, filter, cursor, buf, seen>>
      /\ nodes \in Lists /\ cur \in Cursor /\ Lasting \in SUBSET Keys
  BY DEF TypeOK, ListOK, CallOK, SeenOK, ScanCall, Lasting
<1>2. SUFFICES ASSUME seen.steady
               PROVE  /\ flight'.st = "answered"
                      /\ Cover(nodes, flight'.cur, Lasting, Rows \cup flight'.keys)
  BY <1>1 DEF IInv, Covered, Rows, Lasting
<1>3. /\ flight.flt = seen.asked /\ Cover(nodes, cur, Lasting, Rows)
      /\ Lasting \subseteq want
  BY <1>2 DEF IInv, Covered, Lasting, ScanCall
<1>4. CASE flight.flt.exact
  <2>1. flight' = [st |-> "answered", cur |-> [Start EXCEPT !.fin = TRUE],
                   flt |-> AllKeys, keys |-> want]
    BY <1>4 DEF ScanCall, Answer
  <2>2. Cover(nodes, [Start EXCEPT !.fin = TRUE], Lasting, Rows \cup want)
    BY <1>1, <1>3, CoverExact
  <2> QED
    BY <2>1, <2>2
<1>5. CASE ~flight.flt.exact /\ Pending(nodes, cur.ready) = {}
  <2>1. flight' = [st |-> "answered", cur |-> Finish(cur), flt |-> AllKeys, keys |-> {}]
    BY <1>5 DEF ScanCall, Answer
  <2>2. Cover(nodes, Finish(cur), Lasting, Rows)
    BY <1>1, <1>3, CoverFinish
  <2> QED
    BY <2>1, <2>2
<1>6. CASE ~flight.flt.exact /\ Pending(nodes, cur.ready) # {}
  <2>1. PICK i \in Pending(nodes, cur.ready), p \in cur.pos + 1..Buckets :
          flight' = [st |-> "answered", cur |-> Finish(Advance(cur, nodes[i], p)),
                     flt |-> AllKeys,
                     keys |-> {k \in want \cap Holds[nodes[i]] :
                                 cur.pos < BucketOf[k] /\ BucketOf[k] <= p}]
    BY <1>6 DEF ScanCall, Answer
  <2>2. /\ flight'.st = "answered" /\ flight'.cur = Finish(Advance(cur, nodes[i], p))
        /\ \A k \in Lasting \cap Holds[nodes[i]] :
             cur.pos < BucketOf[k] /\ BucketOf[k] <= p => k \in flight'.keys
    BY <1>3, <2>1
  <2>3. Cover(nodes, Advance(cur, nodes[i], p), Lasting, Rows \cup flight'.keys)
    BY <1>1, <1>3, <2>2, CoverAdvance
  <2>4. Advance(cur, nodes[i], p) \in Cursor
    BY <1>1, AdvanceTyped, PendingName
  <2> QED
    BY <1>1, <2>2, <2>3, <2>4, CoverFinish
<1> QED
  BY <1>4, <1>5, <1>6

LEMMA LandedCovered == ASSUME TypeOK, IInv, Landed PROVE IInv'
<1>1. /\ UNCHANGED <<present, nodes, filter, seen>> /\ cursor' = flight.cur
      /\ flight.st = "answered"
  BY DEF Landed
<1>2. Rows' = Rows \cup flight.keys
  <2>1. flight.keys \subseteq Keys /\ \A k \in Keys : buf[k] \in 0..2
    BY DEF TypeOK, ListOK, CallOK
  <2>2. \A k \in Keys : buf'[k] = IF k \in flight.keys THEN AddOnce(k) ELSE buf[k]
    BY DEF Landed
  <2>3. \A k \in Keys : AddOnce(k) > 0
    BY <2>1 DEF AddOnce
  <2> QED
    BY <2>1, <2>2, <2>3 DEF Rows
<1>3. flight'.st = "none" \/ (flight'.st = "asked" /\ flight'.cur = cursor' /\ flight'.flt = filter)
  <2>1. End => flight'.st = "none"
    BY DEF End, NoFlight
  <2>2. Ask(cursor', filter) =>
          flight'.st = "asked" /\ flight'.cur = cursor' /\ flight'.flt = filter
    BY DEF Ask, NoFlight
  <2> QED
    BY <2>1, <2>2 DEF Landed
<1> QED
  BY <1>1, <1>2, <1>3 DEF IInv, Covered, Lasting

LEMMA UserCovered == ASSUME TypeOK, IInv, UserStep PROVE IInv'
<1>1. ASSUME NEW f \in Filters, NewList(f), filter' = f, UNCHANGED <<present, nodes>>
      PROVE  IInv'
  <2>1. /\ seen'.stable = present /\ seen'.asked = f /\ cursor' = Start
        /\ flight'.st = "asked" /\ flight'.cur = Start /\ flight'.flt = f
    BY <1>1 DEF NewList, Ask, NoFlight, TypeOK, SeenOK
  <2>2. Lasting' \in SUBSET Keys
    BY <1>1, <2>1 DEF TypeOK, ListOK, Lasting
  <2>3. Cover(nodes', cursor', Lasting', Rows')
    BY <2>1, <2>2, CoverStart
  <2> QED
    BY <1>1, <2>1, <2>3 DEF IInv, Covered
<1>2. ASSUME NEW all, NEW paused, Continue(all, paused), UNCHANGED <<present, nodes, filter>>
      PROVE  IInv'
  <2>1. flight'.st = "asked" /\ flight'.cur = cursor /\ flight'.flt = filter
    BY <1>2 DEF Continue, Ask, NoFlight
  <2> QED
    BY <1>2, <2>1 DEF Continue, IInv, Covered, Lasting, Rows
<1>3. ASSUME UNCHANGED <<present, nodes, filter, cursor, buf, flight, seen>> PROVE IInv'
  BY <1>3 DEF IInv, Covered, Lasting, Rows
<1>4. ASSUME UNCHANGED present, seen'.stable = seen.stable, seen'.steady = FALSE PROVE IInv'
  BY <1>4 DEF IInv, Covered
<1>5. filter \in Filters /\ AllKeys \in Filters
  BY Bounds DEF TypeOK, ListOK
<1>6. CASE Pause \/ Resume \/ LoadMore \/ Query
  BY <1>1, <1>2, <1>3, <1>5, <1>6 DEF Pause, Resume, LoadMore, Query
<1>7. ASSUME NEW w \in Waiters,
             \/ StopAndWait(w, "restart") \/ StopAndWait(w, "refresh")
             \/ Restart(w) \/ Refresh(w)
      PROVE  IInv'
  BY <1>1, <1>3, <1>5, <1>7 DEF StopAndWait, Restart, Refresh
<1>8. ASSUME NEW f \in Filters, SetFilter(f) \/ ChooseType(f) PROVE IInv'
  <2>1. CASE SetFilter(f)
    BY <1>4, <2>1 DEF SetFilter, TypeOK, SeenOK
  <2>2. CASE ChooseType(f) /\ ui.loading
    BY <1>4, <2>2 DEF ChooseType, TypeOK, SeenOK
  <2>3. CASE ChooseType(f) /\ ~ui.loading
    BY <1>1, <2>3 DEF ChooseType
  <2> QED
    BY <1>8, <2>1, <2>2, <2>3
<1> QED
  BY <1>6, <1>7, <1>8 DEF UserStep

\* A key change that takes a key off the list takes it off the lasting ones, and
\* the rows of the others stay.
LEMMA KeysCovered ==
  ASSUME TypeOK, IInv, UNCHANGED <<nodes, filter, cursor, flight>>,
         seen'.steady = seen.steady, seen'.asked = seen.asked,
         seen'.stable \subseteq seen.stable, seen'.stable \subseteq present',
         \A k \in seen'.stable : buf[k] > 0 => buf'[k] > 0
  PROVE  IInv'
<1>1. Lasting' \in SUBSET Lasting /\ Lasting' \cap Rows \subseteq Rows'
  BY DEF Lasting, Rows
<1>2. ASSUME seen.steady PROVE Cover(nodes, cursor, Lasting', Rows')
  BY <1>1, <1>2, CoverMono DEF IInv, Covered
<1>3. ASSUME seen.steady, flight.st = "answered"
      PROVE  Cover(nodes, flight.cur, Lasting', Rows' \cup flight.keys)
  BY <1>1, <1>3, CoverMono DEF IInv, Covered
<1> QED
  BY <1>2, <1>3 DEF IInv, Covered

LEMMA KeyCovered == ASSUME TypeOK, IInv, KeyStep PROVE IInv'
<1>0. /\ present \in SUBSET Keys /\ buf \in [Keys -> 0..2] /\ seen.stable \subseteq present
  BY DEF TypeOK, ListOK, IInv
<1>1. ASSUME NEW k \in Keys, DeleteKey(k) PROVE IInv'
  <2>1. seen'.stable = seen.stable \ {k} /\ seen'.steady = seen.steady /\ seen'.asked = seen.asked
    BY <1>1 DEF DeleteKey, TypeOK, SeenOK
  <2>2. \A h \in Keys : h # k => buf'[h] = buf[h]
    BY <1>0, <1>1 DEF DeleteKey, DeleteRow
  <2> QED
    BY <1>0, <1>1, <2>1, <2>2, KeysCovered DEF DeleteKey
<1>2. ASSUME NEW k \in Keys, AddKey(k) PROVE IInv'
  <2>1. seen'.stable = seen.stable /\ seen'.steady = seen.steady /\ seen'.asked = seen.asked
    BY <1>2 DEF AddKey, TypeOK, SeenOK
  <2>2. \A h \in Keys : h # k => buf'[h] = buf[h]
    BY <1>0, <1>2 DEF AddKey
  <2> QED
    BY <1>0, <1>2, <2>1, <2>2, KeysCovered DEF AddKey
<1>3. ASSUME NEW k \in Keys, OtherAdds(k) PROVE IInv'
  <2>1. seen'.stable = seen.stable /\ seen'.steady = seen.steady /\ seen'.asked = seen.asked
    BY <1>3 DEF OtherAdds, TypeOK, SeenOK
  <2> QED
    BY <1>0, <1>3, <2>1, KeysCovered DEF OtherAdds
<1>4. ASSUME NEW k \in Keys, OtherDeletes(k) PROVE IInv'
  <2>1. seen'.stable = seen.stable \ {k} /\ seen'.steady = seen.steady /\ seen'.asked = seen.asked
    BY <1>4 DEF OtherDeletes, TypeOK, SeenOK
  <2> QED
    BY <1>0, <1>4, <2>1, KeysCovered DEF OtherDeletes
<1>5. ASSUME NEW k \in Keys, NEW l \in Keys, RenameKey(k, l) PROVE IInv'
  <2>1. seen'.stable = seen.stable \ {k} /\ seen'.steady = seen.steady /\ seen'.asked = seen.asked
    BY <1>5 DEF RenameKey, TypeOK, SeenOK
  <2>2. \A h \in Keys \ {k} : buf[h] > 0 => buf'[h] > 0
    BY <1>0, <1>5 DEF RenameKey
  <2> QED
    BY <1>0, <1>5, <2>1, <2>2, KeysCovered DEF RenameKey
<1>6. ASSUME NEW l \in Lists, Replaced(l) PROVE IInv'
  <2>1. seen'.stable = seen.stable /\ seen'.steady = FALSE
    BY <1>6 DEF Replaced, TypeOK, SeenOK
  <2> QED
    BY <1>6, <2>1 DEF Replaced, IInv, Covered
<1> QED
  BY <1>1, <1>2, <1>3, <1>4, <1>5, <1>6 DEF KeyStep

\* While inputs and masters stay as they are, a list that says it is complete has
\* a row for every matching key that was there all the time.
THEOREM CompleteLists == Spec => []CompleteWhenSteady
<1>1. Init => IInv
  <2> SUFFICES ASSUME Init PROVE IInv
    OBVIOUS
  <2>1. seen.stable = {} /\ Lasting = {} /\ flight.st = "none" /\ filter = seen.asked
    BY DEF Init, Seen0, Lasting, NoFlight
  <2>2. Cover(nodes, cursor, Lasting, Rows)
    BY <2>1, CoverStart DEF Init
  <2> QED
    BY <2>1, <2>2 DEF IInv, Covered
<1>2. TypeOK /\ IInv /\ [Next]_vars => IInv'
  <2> SUFFICES ASSUME TypeOK, IInv, [Next]_vars PROVE IInv'
    OBVIOUS
  <2>1. CASE Failed
    <3>1. flight'.st = "none"
      BY <2>1 DEF Failed, End, NoFlight
    <3> QED
      BY <2>1, <3>1 DEF Failed, End, IInv, Covered, Lasting, Rows
  <2>2. CASE UNCHANGED vars
    BY <2>2 DEF vars, IInv, Covered, Lasting, Rows
  <2> QED
    BY <2>1, <2>2, ScanCallCovered, LandedCovered, UserCovered, KeyCovered DEF Next, ScanStep
<1>3. TypeOK /\ IInv => CompleteWhenSteady
  BY DEF TypeOK, SeenOK, IInv, Covered, Cover, Lasting, Rows, CompleteWhenSteady, Complete
<1> QED
  BY <1>1, <1>2, <1>3, TypeCorrect, PTL DEF Spec

-----------------------------------------------------------------------------
(* Double rows. *)

LEMMA UserOnce ==
  ASSUME TypeOK, RowOnce, UserStep
  PROVE  RowOnce'
<1>1. ASSUME NEW f, NewList(f) PROVE RowOnce'
  BY <1>1 DEF NewList, RowOnce
<1>2. ASSUME UNCHANGED buf, seen'.collided = seen.collided PROVE RowOnce'
  BY <1>2 DEF RowOnce
<1>3. CASE Pause \/ Resume \/ LoadMore \/ Query
  BY <1>1, <1>2, <1>3 DEF Pause, Resume, LoadMore, Query, Continue
<1>4. ASSUME NEW w \in Waiters,
             \/ StopAndWait(w, "restart") \/ StopAndWait(w, "refresh")
             \/ Restart(w) \/ Refresh(w)
      PROVE  RowOnce'
  BY <1>1, <1>2, <1>4 DEF StopAndWait, Restart, Refresh
<1>5. ASSUME NEW f \in Filters, SetFilter(f) \/ ChooseType(f) PROVE RowOnce'
  <2>1. CASE SetFilter(f)
    BY <1>2, <2>1 DEF SetFilter, TypeOK, SeenOK
  <2>2. CASE ChooseType(f) /\ ui.loading
    BY <1>2, <2>2 DEF ChooseType, TypeOK, SeenOK
  <2>3. CASE ChooseType(f) /\ ~ui.loading
    BY <1>1, <2>3 DEF ChooseType
  <2> QED
    BY <1>5, <2>1, <2>2, <2>3
<1> QED
  BY <1>3, <1>4, <1>5 DEF UserStep

LEMMA KeyOnce == ASSUME TypeOK, RowOnce, KeyStep PROVE RowOnce'
<1>0. buf \in [Keys -> 0..2]
  BY DEF TypeOK, ListOK
<1>1. ASSUME NEW k \in Keys, DeleteKey(k) PROVE RowOnce'
  <2>1. seen'.collided = seen.collided /\ \A h \in Keys : buf'[h] = IF h = k THEN 0 ELSE buf[h]
    BY <1>0, <1>1 DEF DeleteKey, DeleteRow, TypeOK, SeenOK
  <2> QED
    BY <2>1 DEF RowOnce
<1>2. ASSUME NEW k \in Keys, AddKey(k) PROVE RowOnce'
  <2>1. ~seen'.collided => ~seen.collided /\ ~(buf[k] > 0)
    BY <1>2 DEF AddKey, TypeOK, SeenOK
  <2>2. \A h \in Keys : buf'[h] = IF h = k THEN AddTwice(k) ELSE buf[h]
    BY <1>0, <1>2 DEF AddKey
  <2> QED
    BY <1>0, <2>1, <2>2 DEF RowOnce, AddTwice
<1>3. ASSUME NEW k \in Keys, NEW l \in Keys, RenameKey(k, l) PROVE RowOnce'
  <2>1. ~seen'.collided => ~seen.collided /\ ~(buf[l] > 0)
    BY <1>3 DEF RenameKey, TypeOK, SeenOK
  <2>2. \A h \in Keys : buf'[h] = IF h = l THEN IF buf[k] + buf[l] > 2 THEN 2 ELSE buf[k] + buf[l]
                                ELSE IF h = k THEN 0 ELSE buf[h]
    BY <1>0, <1>3 DEF RenameKey
  <2> QED
    BY <1>0, <2>1, <2>2 DEF RowOnce
<1>4. ASSUME UNCHANGED buf, seen'.collided = seen.collided PROVE RowOnce'
  BY <1>4 DEF RowOnce
<1>5. ASSUME NEW k \in Keys, OtherAdds(k) \/ OtherDeletes(k) PROVE RowOnce'
  BY <1>4, <1>5 DEF OtherAdds, OtherDeletes, TypeOK, SeenOK
<1>6. ASSUME NEW l \in Lists, Replaced(l) PROVE RowOnce'
  BY <1>4, <1>6 DEF Replaced, TypeOK, SeenOK
<1> QED
  BY <1>1, <1>2, <1>3, <1>5, <1>6 DEF KeyStep

\* However batches overlap, with each other or with rows added meanwhile, a key
\* has one row, unless one was added or renamed onto a key that had a row.
THEOREM OneRowPerKey == Spec => []RowOnce
<1>1. Init => RowOnce
  BY DEF Init, RowOnce
<1>2. TypeOK /\ RowOnce /\ [Next]_vars => RowOnce'
  <2> SUFFICES ASSUME TypeOK, RowOnce, [Next]_vars PROVE RowOnce'
    OBVIOUS
  <2>0. buf \in [Keys -> 0..2]
    BY DEF TypeOK, ListOK
  <2>1. CASE ScanCall \/ Failed \/ UNCHANGED vars
    BY <2>1 DEF ScanCall, Failed, End, vars, RowOnce
  <2>2. CASE Landed
    <3>1. \A k \in Keys : buf'[k] = IF k \in flight.keys THEN AddOnce(k) ELSE buf[k]
      BY <2>2 DEF Landed
    <3>2. seen' = seen
      BY <2>2 DEF Landed
    <3> QED
      BY <2>0, <3>1, <3>2 DEF RowOnce, AddOnce
  <2> QED
    BY <2>1, <2>2, UserOnce, KeyOnce DEF Next, ScanStep
<1> QED
  BY <1>1, <1>2, TypeCorrect, PTL DEF Spec

=============================================================================
