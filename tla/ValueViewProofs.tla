-------------------------- MODULE ValueViewProofs --------------------------
(***************************************************************************)
(* What ValueView promises for every set of keys, any number of fields and *)
(* anything that the user and other clients do.                            *)
(*                                                                         *)
(* The argument.  Every step is one of a few kinds (Steps): a list is      *)
(* begun, or a restart waits; a page is answered, taken up or fails; the   *)
(* chain ends; something is deleted.  Unless a restart waits, a page under *)
(* way and the rows shown are of the chosen key (Current).  For a value    *)
(* that nobody disturbed, a page has what the key has at its position      *)
(* (PageFits, PageEnds), and the rows shown, without the one that is being *)
(* deleted, are those of all that the cursor has passed (RowsFit).  A page *)
(* that begins anew in the middle of a chain asks for a word that no field *)
(* has at the first position (WordsFit), and a row is deleted only while   *)
(* nothing loads (RowGoing).                                               *)
(***************************************************************************)
EXTENDS ValueView, FiniteSetTheorems, TLAPS

-----------------------------------------------------------------------------
(* Sequences: what is kept of one, and what is made of a set. *)

\* The elements kept are those at the places, each once.
KeptAt(f, q, S, g) ==
  /\ g \in [DOMAIN f -> S] /\ \A j \in DOMAIN f : f[j] = q[g[j]]
  /\ \A i, j \in DOMAIN f : g[i] = g[j] => i = j
  /\ \A i \in S : \E j \in DOMAIN f : g[j] = i

LEMMA KeptIs ==
  ASSUME NEW T, NEW q \in Seq(T), NEW S \in SUBSET DOMAIN q
  PROVE  Kept(q, S) \in Seq(T) /\ \E g : KeptAt(Kept(q, S), q, S, g)
<1> DEFINE Rank(i) == Cardinality({h \in S : h <= i})
<1>1. IsFiniteSet(S) /\ \A i \in S : i \in Nat
  <2>1. Len(q) \in Nat /\ DOMAIN q = 1..Len(q)
    OBVIOUS
  <2>2. IsFiniteSet(1..Len(q))
    BY <2>1, FS_Interval
  <2>3. S \in SUBSET (1..Len(q))
    BY <2>1
  <2> QED
    BY <2>2, <2>3, FS_Subset
<1>2. PICK n \in Nat : n = Cardinality(S)
  BY <1>1, FS_CardinalityType
<1>3. ASSUME NEW i \in S PROVE IsFiniteSet({h \in S : h <= i}) /\ Rank(i) \in 1..n
  <2>1. {h \in S : h <= i} \in SUBSET S /\ i \in {h \in S : h <= i}
    BY <1>1
  <2>2. IsFiniteSet({h \in S : h <= i}) /\ Rank(i) <= n
    BY <1>1, <1>2, <2>1, FS_Subset
  <2>3. Rank(i) \in Nat /\ Rank(i) # 0
    BY <2>1, <2>2, FS_CardinalityType, FS_EmptySet
  <2> QED
    BY <2>2, <2>3
<1>4. ASSUME NEW i \in S, NEW j \in S, i < j PROVE Rank(i) # Rank(j)
  <2>1. {h \in S : h <= i} \in SUBSET {h \in S : h <= j} /\ j \notin {h \in S : h <= i}
        /\ j \in {h \in S : h <= j}
    BY <1>1, <1>4
  <2>2. Rank(j) = Rank(i) => {h \in S : h <= j} = {h \in S : h <= i}
    BY <1>3, <2>1, FS_Subset
  <2> QED
    BY <2>1, <2>2
<1>5. ASSUME NEW i \in S, NEW j \in S, Rank(i) = Rank(j) PROVE i = j
  <2> HIDE DEF Rank
  <2>1. ~(i < j) /\ ~(j < i)
    BY <1>4, <1>5
  <2> QED
    BY <1>1, <2>1
<1>6. ASSUME NEW j \in 1..n PROVE \E i \in S : Rank(i) = j
  <2> HIDE DEF Rank
  <2>1. PICK f : f = [i \in S |-> Rank(i)]
    OBVIOUS
  <2>2. f \in Injection(S, 1..n)
    BY <1>3, <1>5, <2>1 DEF Injection, IsInjective
  <2>3. IsFiniteSet(1..n) /\ Cardinality(1..n) = n
    BY FS_Interval
  <2>4. f \in Surjection(S, 1..n)
    BY <1>2, <2>2, <2>3, FS_Injection
  <2> QED
    BY <2>1, <2>4 DEF Surjection
<1>7. PICK g : g = [j \in 1..n |-> CHOOSE i \in S : Rank(i) = j]
  OBVIOUS
<1>8. /\ g \in [1..n -> S] /\ \A j \in 1..n : Rank(g[j]) = j
      /\ Kept(q, S) = [j \in 1..n |-> q[g[j]]]
  <2>1. Kept(q, S) = [j \in 1..n |-> q[CHOOSE i \in S : Rank(i) = j]]
    BY <1>2 DEF Kept
  <2> HIDE DEF Rank
  <2>2. \A j \in 1..n : g[j] \in S /\ Rank(g[j]) = j
    BY <1>6, <1>7
  <2>3. Kept(q, S) = [j \in 1..n |-> q[g[j]]]
    BY <1>7, <2>1
  <2> QED
    BY <1>7, <2>2, <2>3
<1> HIDE DEF Rank
<1>9. Kept(q, S) \in Seq(T) /\ DOMAIN Kept(q, S) = 1..n
  <2>1. \A j \in 1..n : q[g[j]] \in T
    BY <1>8
  <2> QED
    BY <1>8, <2>1
<1>10. ASSUME NEW i \in S PROVE \E j \in 1..n : g[j] = i
  <2>1. Rank(i) \in 1..n
    BY <1>3
  <2>2. g[Rank(i)] \in S /\ Rank(g[Rank(i)]) = Rank(i)
    BY <1>8, <2>1
  <2> QED
    BY <1>5, <2>1, <2>2
<1>11. \A i, j \in 1..n : g[i] = g[j] => i = j
  BY <1>8
<1>12. KeptAt(Kept(q, S), q, S, g)
  BY <1>8, <1>9, <1>10, <1>11 DEF KeptAt
<1> QED
  BY <1>9, <1>12

\* A finite set's elements in some order, each once.
LEMMA SeqIs ==
  ASSUME NEW S, IsFiniteSet(S)
  PROVE  /\ SetToSeq(S) \in Seq(S) /\ IsInjective(SetToSeq(S))
         /\ \A r \in S : \E i \in DOMAIN SetToSeq(S) : SetToSeq(S)[i] = r
<1>1. PICK n \in Nat : n = Cardinality(S)
  BY FS_CardinalityType
<1>2. PICK f \in [1..n -> S] : IsInjective(f)
  <2>1. ExistsBijection(1..n, S)
    BY <1>1, FS_CardinalityType
  <2> QED
    BY <2>1 DEF ExistsBijection, Bijection, Injection
<1>3. PICK q : q = SetToSeq(S)
  OBVIOUS
<1>4. q \in [1..n -> S] /\ IsInjective(q)
  BY <1>1, <1>2, <1>3 DEF SetToSeq
<1>5. q \in Seq(S)
  BY <1>4
<1>6. q \in Surjection(1..n, S)
  <2>1. q \in Injection(1..n, S)
    BY <1>4 DEF Injection
  <2>2. IsFiniteSet(1..n) /\ Cardinality(1..n) = n
    BY FS_Interval
  <2> QED
    BY <1>1, <2>1, <2>2, FS_Injection
<1>7. \A r \in S : \E i \in 1..n : q[i] = r
  BY <1>6 DEF Surjection
<1> QED
  BY <1>3, <1>4, <1>5, <1>7

-----------------------------------------------------------------------------
Waiting == waits.reset > 0 \/ waits.plain > 0

\* The call carries what it was asked with, and an answer rows of its key.
CallRecords == [st : {"no", "asked", "page", "missing", "failed"}, key : Maybe, pos : 0..N - 1,
                word : Words, goOn : BOOLEAN, meta : BOOLEAN, rows : Seq(Row), next : 0..N,
                done : BOOLEAN]
Apart(q) == \A i, j \in DOMAIN q : i # j /\ q[i].of = q[j].of => q[i].at # q[j].at
CallTyped ==
  /\ call \in CallRecords
  /\ call.st = "page" =>
       /\ call.key \in Keys /\ (~call.done => call.next < N)
       /\ Apart(call.rows) /\ \A i \in DOMAIN call.rows : call.rows[i].of = call.key
  /\ (call.st = "no" => call = NoCall) /\ (~call.goOn => call.pos = 0)
  /\ call.goOn => call.word = cursor.word /\ call.pos = IF cursor.pos = -1 THEN 0 ELSE cursor.pos

\* A list that has come to its end is not continued.
Bounded ==
  /\ \A k \in Keys : Len(server[k]) <= N
  /\ ~cursor.done => cursor.pos < N
  /\ cursor.done => ~more /\ (Loading \/ ~ctl.paused)
LoadIs ==
  /\ load.at = "type" => load.first /\ ~load.goOn
  /\ Loading /\ load.all => load.goOn
ViewTyped == TypeOK /\ rv \in [key : Maybe, rows : Seq(Row)] /\ CallTyped /\ Bounded /\ LoadIs

\* The rows that are shown are those of the list that is being loaded, and not of the one
\* that its first page will replace.
Begun ==
  load.at \in {"no", "end"} \/ (load.at = "call" /\ (call.goOn \/ ~load.first))

\* Unless a restart waits, whatever loads is of the chosen key.
Current == calm.ok /\ ~Waiting /\ chosen # None =>
  /\ call.st # "no" => call.key = chosen
  /\ Begun => \A i \in DOMAIN rv.rows : rv.rows[i].of = chosen

ShowsInv == ViewTyped /\ Current /\ Once

-----------------------------------------------------------------------------
Steady == calm = [ok |-> TRUE, same |-> TRUE, apart |-> TRUE] /\ ~Waiting /\ chosen # None

\* The value is the chosen key's, or none.
ValueIsOf == Steady =>
  /\ Begun => rv.key \in {chosen, None}
  /\ load.at = "call" /\ (load.goOn \/ call.goOn \/ ~load.first) => rv.key = chosen

\* The word of a page; a page that begins anew in the middle of a chain finds nothing.
WordsFit == Steady /\ call.st # "no" =>
  /\ call.word \in {"all", match}
  /\ load.goOn \/ ~load.first => call.word = IF IsSet(chosen) THEN match ELSE "all"
  /\ ~load.first /\ ~call.goOn => IsSet(chosen) /\ call.word = "even"

\* A row that is being deleted is one that is shown, and nothing loads meanwhile.
RowGoing == Steady /\ del.st # "no" /\ del.what = "row" =>
  /\ del.key = chosen /\ rv.key = chosen /\ ~Loading /\ (IsSet(chosen) \/ cursor.done)
  /\ \E i \in DOMAIN rv.rows : rv.rows[i] = del.row

\* A key that is gone, though its view does not know yet.
Leaving == del.st = "done" /\ del.what = "key" /\ del.key = chosen

\* A row is of the key's fields s; a page has the one that it is to have.
RowFits(r, s) ==
  IF IsSet(chosen) THEN r.at = r.field /\ \E i \in DOMAIN s : s[i] = r.field
  ELSE r.at + 1 \in DOMAIN s /\ s[r.at + 1] = r.field
At(s, i) == IF IsSet(chosen) THEN s[i] ELSE i - 1
HasRow(q, a) == \E i \in DOMAIN q : q[i].at = a
PageFits == Steady /\ call.st = "page" /\ ~Leaving =>
  LET s == server[chosen] IN
  /\ \A i \in DOMAIN call.rows : RowFits(call.rows[i], s)
  /\ IsSet(chosen) =>
       \A i \in DOMAIN s : s[i] = call.pos + 1 /\ Matches(call.word, s[i]) => HasRow(call.rows, s[i])
  /\ ~IsSet(chosen) =>
       /\ call.pos + 1 \in DOMAIN s => HasRow(call.rows, call.pos)
       /\ call.done => call.pos + 1 >= Len(s)

\* Whatever the server has by now: how far a page goes.
PageEnds == call.st = "page" =>
  IF IsSet(call.key) THEN call.next = call.pos + 1 /\ (call.done => call.next = N)
  ELSE call.next <= call.pos + 1 /\ (call.rows = <<>> => call.done)

\* What is shown once the row is gone that is deleted.
Left == IF del.st = "done" /\ del.what = "row" THEN Dropped(rv.rows, del.row) ELSE rv.rows
Passed(s, i) == cursor.done \/ (IF IsSet(chosen) THEN s[i] ELSE i) <= cursor.pos
RowsFit == Steady /\ Begun /\ rv.key # None /\ ~Leaving =>
  LET s == server[chosen] IN
  /\ \A i \in DOMAIN Left : RowFits(Left[i], s)
  /\ \A i \in DOMAIN s : Passed(s, i) /\ Matches(cursor.word, s[i]) => HasRow(Left, At(s, i))
  /\ load.at \in {"no", "end"} /\ ~more => cursor.done

SteadyInv == ValueIsOf /\ WordsFit /\ RowGoing /\ PageFits /\ PageEnds /\ RowsFit

-----------------------------------------------------------------------------
(* A page is asked for. *)

LEMMA Basics ==
  /\ None \notin Keys /\ Lists \subseteq Keys /\ N \in Nat \ {0} /\ MaxAsks \in Nat
  /\ MaxForeign \in Nat
BY ValueViewAssumption DEF ValueViewAssumption

CursorRecords == [pos : -1..N, done : BOOLEAN, word : Words]
CtlRecords == [paused : BOOLEAN, cancelled : BOOLEAN, detect : BOOLEAN]
LoadRecords == [at : {"no", "type", "call", "end"}, reset : BOOLEAN, goOn : BOOLEAN,
                all : BOOLEAN, first : BOOLEAN]

\* What a call carries that is asked for with the cursor c and the value v.
AskedFor(r, goOn, c, v) ==
  /\ r \in CallRecords /\ r.st = "asked" /\ r.key = chosen
  /\ r.word = IF v.key # None /\ IsSet(v.key) THEN match' ELSE "all"
  /\ r.goOn = (goOn /\ c.word = r.word)
  /\ r.pos = IF r.goOn /\ c.pos # -1 THEN c.pos ELSE 0

LEMMA AskedIs ==
  ASSUME NEW goOn \in BOOLEAN, NEW c \in CursorRecords, NEW v, goOn => c.pos < N,
         chosen \in Maybe, match' \in Words
  PROVE  AskedFor(Asked(goOn, c, v), goOn, c, v)
<1>1. PICK word : word = IF v.key # None /\ IsSet(v.key) THEN match' ELSE "all"
  OBVIOUS
<1>2. PICK same : same = (goOn /\ c.word = word)
  OBVIOUS
<1>3. PICK pos : pos = IF same /\ c.pos # -1 THEN c.pos ELSE 0
  OBVIOUS
<1>4. PICK meta : meta = (c.pos = -1 \/ ~same)
  OBVIOUS
<1>5. word \in Words /\ same \in BOOLEAN /\ pos \in 0..N - 1 /\ meta \in BOOLEAN
  <2>1. word \in Words
    BY <1>1 DEF Words
  <2>2. same \in BOOLEAN
    BY <1>2
  <2>3. c.pos \in Int /\ -1 <= c.pos /\ c.pos <= N
    BY Basics DEF CursorRecords
  <2>4. pos \in 0..N - 1
    BY <1>2, <1>3, <2>3, Basics
  <2>5. meta \in BOOLEAN
    BY <1>4
  <2> QED
    BY <2>1, <2>2, <2>4, <2>5
<1>6. PICK r : r = [NoCall EXCEPT !.st = "asked", !.key = chosen, !.word = word, !.goOn = same,
                      !.pos = pos, !.meta = meta]
  OBVIOUS
<1>7. Asked(goOn, c, v) = r
  BY <1>1, <1>2, <1>3, <1>4, <1>6 DEF Asked
<1>8. r = [st |-> "asked", key |-> chosen, pos |-> pos, word |-> word, goOn |-> same,
           meta |-> meta, rows |-> <<>>, next |-> 0, done |-> FALSE]
  BY <1>6 DEF NoCall
<1>9. r \in CallRecords
  <2>1. <<>> \in Seq(Row) /\ 0 \in 0..N
    BY Basics
  <2> QED
    BY <1>5, <1>8, <2>1 DEF CallRecords
<1>10. /\ r.st = "asked" /\ r.key = chosen /\ r.word = word /\ r.goOn = same /\ r.pos = pos
  BY <1>8
<1> QED
  BY <1>1, <1>2, <1>3, <1>7, <1>9, <1>10 DEF AskedFor

\* What Begin does; with c the controls as they are by then.
Begins(r, c) ==
  /\ match' = (IF r.reset THEN "all" ELSE match) /\ match' \in Words
  /\ cursor' \in CursorRecords /\ ~cursor'.done /\ cursor'.pos < N
  /\ ctl' \in CtlRecords
  /\ load' \in LoadRecords /\ load'.first /\ load'.goOn = r.goOn /\ load'.all = r.all
  /\ IF r.goOn THEN cursor' = cursor /\ calm' = [calm EXCEPT !.apart = @ /\ del.st = "no"]
     ELSE cursor'.pos = -1 /\ calm' = [ok |-> TRUE, same |-> TRUE, apart |-> del.st = "no"]
  /\ IF c.detect /\ ~r.goOn THEN load'.at = "type" /\ call' = call
     ELSE load'.at = "call" /\ AskedFor(call', r.goOn, cursor', rv)

Starts == {Reset, NoLoad, GoOn(TRUE), GoOn(FALSE)}
LEMMA StartIs ==
  ASSUME NEW r \in Starts
  PROVE  /\ r \in LoadRecords /\ r.first /\ (r.all => r.goOn) /\ (r.goOn => ~r.reset)
         /\ r.goOn \in BOOLEAN /\ r.reset \in BOOLEAN /\ r.all \in BOOLEAN /\ r.first \in BOOLEAN
<1>1. PICK reset \in BOOLEAN, goOn \in BOOLEAN, all \in BOOLEAN :
        /\ r = [at |-> "no", reset |-> reset, goOn |-> goOn, all |-> all, first |-> TRUE]
        /\ (all => goOn) /\ (goOn => ~reset)
  BY DEF Starts, Reset, NoLoad, GoOn
<1> QED
  BY <1>1 DEF LoadRecords

LEMMA BeginIs ==
  ASSUME ViewTyped, NEW r \in Starts, NEW c \in CtlRecords, Begin(r, c), r.goOn => ~cursor.done
  PROVE  Begins(r, c)
<1>1. /\ match' = (IF r.reset THEN "all" ELSE match)
      /\ cursor' = IF r.goOn THEN cursor ELSE [NoCursor EXCEPT !.word = cursor.word]
      /\ calm' = IF r.goOn THEN [calm EXCEPT !.apart = @ /\ del.st = "no"]
                 ELSE [ok |-> TRUE, same |-> TRUE, apart |-> del.st = "no"]
  BY DEF Begin
<1>2. PICK type \in BOOLEAN : type = (c.detect /\ ~r.goOn)
  OBVIOUS
<1>3. /\ ctl' = [paused |-> c.paused /\ r.goOn, cancelled |-> FALSE, detect |-> c.detect /\ ~type]
      /\ load' = [r EXCEPT !.at = IF type THEN "type" ELSE "call"]
      /\ call' = IF type THEN call ELSE Asked(r.goOn, cursor', rv)
  BY <1>2 DEF Begin
<1>4. match' \in Words /\ match \in Words /\ chosen \in Maybe /\ cursor \in CursorRecords
  BY <1>1 DEF ViewTyped, TypeOK, Words, CursorRecords
<1>5. cursor' \in CursorRecords /\ ~cursor'.done /\ cursor'.pos < N /\ (~r.goOn => cursor'.pos = -1)
  <2>1. CASE r.goOn
    BY <1>1, <1>4, <2>1 DEF ViewTyped, Bounded
  <2>2. CASE ~r.goOn
    <3>1. cursor' = [pos |-> -1, done |-> FALSE, word |-> cursor.word] /\ cursor.word \in Words
      BY <1>1, <1>4, <2>2 DEF NoCursor, CursorRecords
    <3>2. -1 \in -1..N /\ -1 < N
      BY Basics
    <3> QED
      BY <3>1, <3>2 DEF CursorRecords
  <2> QED
    BY <2>1, <2>2
<1>6. ctl' \in CtlRecords
  BY <1>3 DEF CtlRecords
<1>7. /\ load' \in LoadRecords /\ load'.first /\ load'.goOn = r.goOn /\ load'.all = r.all
      /\ load'.at = IF type THEN "type" ELSE "call"
  BY <1>3, StartIs DEF LoadRecords
<1>8. ~type => AskedFor(call', r.goOn, cursor', rv)
  BY <1>3, <1>4, <1>5, AskedIs, StartIs
<1> QED
  BY <1>1, <1>2, <1>3, <1>4, <1>5, <1>6, <1>7, <1>8 DEF Begins

\* Whoever begins leaves all else as it is, but for what it was asked with.
LEMMA BeginTyped ==
  ASSUME ViewTyped, ~Loading, NEW r \in Starts, NEW c \in CtlRecords, Begins(r, c),
         UNCHANGED <<server, foreign, rv, more, del>>, asks' \in 0..MaxAsks, chosen' \in Maybe,
         waits' \in [reset : Nat, plain : Nat]
  PROVE  ViewTyped'
<1>1. call.st = "no" /\ call \in CallRecords
  BY DEF ViewTyped, TypeOK, CallTyped, Loading
<1>2. calm' \in [ok : BOOLEAN, same : BOOLEAN, apart : BOOLEAN]
  <2>1. calm \in [ok : BOOLEAN, same : BOOLEAN, apart : BOOLEAN]
    BY DEF ViewTyped, TypeOK
  <2>2. PICK b \in BOOLEAN : b = (del.st = "no")
    OBVIOUS
  <2>3. PICK d \in BOOLEAN : d = (calm.apart /\ b)
    OBVIOUS
  <2>4. \/ calm' = [calm EXCEPT !.apart = d]
        \/ calm' = [ok |-> TRUE, same |-> TRUE, apart |-> b]
    BY <2>2, <2>3 DEF Begins
  <2>5. [ok |-> TRUE, same |-> TRUE, apart |-> b] \in [ok : BOOLEAN, same : BOOLEAN, apart : BOOLEAN]
    BY <2>2
  <2>6. [calm EXCEPT !.apart = d] \in [ok : BOOLEAN, same : BOOLEAN, apart : BOOLEAN]
    BY <2>1, <2>3
  <2> QED
    BY <2>4, <2>5, <2>6
<1>3. /\ call' \in CallRecords /\ (call'.st = "no") = (load'.at # "call")
      /\ call'.st \in {"no", "asked"}
  BY <1>1 DEF Begins, AskedFor
<1>4. TypeOK'
  BY <1>2, <1>3 DEF Begins, ViewTyped, TypeOK, CursorRecords, CtlRecords, LoadRecords, CallRecords
<1>5. CallTyped'
  <2>1. CASE call' = call /\ load'.at = "type" /\ ~r.goOn
    <3>1. call.goOn = FALSE
      BY <1>1 DEF ViewTyped, CallTyped, NoCall
    <3> QED
      BY <1>1, <2>1, <3>1 DEF CallTyped, ViewTyped
  <2>2. CASE AskedFor(call', r.goOn, cursor', rv)
    BY <1>3, <2>2 DEF CallTyped, AskedFor
  <2> QED
    BY <2>1, <2>2 DEF Begins
<1>6. Bounded'
  BY DEF Begins, ViewTyped, Bounded
<1>7. LoadIs'
  BY StartIs DEF Begins, LoadIs
<1> QED
  BY <1>4, <1>5, <1>6, <1>7 DEF ViewTyped

-----------------------------------------------------------------------------
(* A page is answered. *)

\* A page of the fields s, for a key that is a set or a list.
SetPage(p, s) ==
  /\ \A i \in DOMAIN p.rows :
       /\ p.rows[i].at = p.rows[i].field /\ \E j \in DOMAIN s : s[j] = p.rows[i].field
       /\ p.rows[i].at <= p.pos + 1 /\ Matches(p.word, p.rows[i].at)
  /\ (\E j \in DOMAIN s : s[j] = p.pos + 1) /\ Matches(p.word, p.pos + 1) => HasRow(p.rows, p.pos + 1)
  /\ p.next = p.pos + 1 /\ (p.done => p.next = N)
ListPage(p, s) ==
  /\ \A i \in DOMAIN p.rows : p.rows[i].at + 1 \in DOMAIN s /\ p.rows[i].field = s[p.rows[i].at + 1]
  /\ p.pos + 1 \in DOMAIN s => HasRow(p.rows, p.pos)
  /\ p.next <= p.pos + 1 /\ (p.done => p.pos + 1 >= Len(s))
  /\ p.rows = <<>> => p.done
Answered(p, s) ==
  /\ p \in CallRecords /\ p.st = "page" /\ p.key = call.key /\ p.pos = call.pos /\ p.word = call.word
  /\ p.goOn = call.goOn /\ (~p.done => p.next < N)
  /\ Apart(p.rows) /\ \A i \in DOMAIN p.rows : p.rows[i].of = p.key
  /\ IF IsSet(p.key) THEN SetPage(p, s) ELSE ListPage(p, s)

LEMMA PageIs ==
  ASSUME ViewTyped, call.st = "asked", call.key \in Keys,
         NEW again, again \in {{}} \cup {{f} : f \in 1..call.pos}
  PROVE  Answered(Page(call, again), server[call.key])
<1>1. PICK s : s = server[call.key]
  OBVIOUS
<1>2. /\ s \in Seq(Fields) /\ Len(s) \in Nat /\ Len(s) <= N /\ DOMAIN s = 1..Len(s)
  BY <1>1 DEF ViewTyped, TypeOK, Bounded
<1>3. /\ call \in CallRecords /\ call.pos \in 0..N - 1 /\ call.word \in Words
  BY DEF ViewTyped, CallTyped, CallRecords
<1>4. PICK n \in 0..N - 1 : n = call.pos
  BY <1>3
<1>5. n \in Nat /\ n + 1 \in 1..N /\ N \in Nat
  BY <1>4, Basics
<1>6. CASE IsSet(call.key)
  <2>1. PICK wanted : wanted = {f \in {n + 1} \cup again : f \in Range(s) /\ Matches(call.word, f)}
    OBVIOUS
  <2>2. PICK S : S = {[at |-> f, field |-> f, of |-> call.key] : f \in wanted}
    OBVIOUS
  <2>3. Range(s) = {s[i] : i \in DOMAIN s} /\ Range(s) \subseteq Fields
    BY <1>2 DEF Range
  <2>4. \A f \in wanted : f \in Fields /\ f \in Range(s) /\ Matches(call.word, f) /\ f <= n + 1 /\ f \in 1..N
    BY <1>4, <1>5, <2>1, <2>3 DEF Fields
  <2>5. IsFiniteSet(S)
    <3>1. IsFiniteSet(1..N)
      BY <1>5, FS_Interval
    <3>2. wanted \in SUBSET (1..N)
      BY <2>4
    <3>3. IsFiniteSet(wanted)
      BY <3>1, <3>2, FS_Subset
    <3>4. PICK h : h = [f \in wanted |-> [at |-> f, field |-> f, of |-> call.key]]
      OBVIOUS
    <3>5. h \in Surjection(wanted, S)
      BY <2>2, <3>4 DEF Surjection
    <3> QED
      BY <3>3, <3>5, FS_Surjection
  <2>6. PICK q : q = SetToSeq(S)
    OBVIOUS
  <2>7. q \in Seq(S) /\ IsInjective(q) /\ \A r \in S : \E i \in DOMAIN q : q[i] = r
    BY <2>5, <2>6, SeqIs
  <2>8. S \subseteq Row
    BY <2>2, <2>4 DEF Row, Fields
  <2>9. \A i \in DOMAIN q : \E f \in wanted : q[i] = [at |-> f, field |-> f, of |-> call.key]
    BY <2>2, <2>7
  <2>10. PICK done \in BOOLEAN : /\ done = (n + 1 >= N) /\ (done => n + 1 >= N)
                                 /\ (~done => n + 1 < N)
    <3>1. CASE n + 1 >= N
      <4> WITNESS TRUE \in BOOLEAN
      <4> QED
        BY <3>1
    <3>2. CASE ~(n + 1 >= N)
      <4>1. n + 1 < N
        BY <1>5, <3>2
      <4>2. FALSE = (n + 1 >= N)
        BY <3>2
      <4> WITNESS FALSE \in BOOLEAN
      <4> QED
        BY <4>1, <4>2
    <3> QED
      BY <3>1, <3>2
  <2>11. PICK p : p = [call EXCEPT !.st = "page", !.next = n + 1, !.done = done, !.rows = q]
    OBVIOUS
  <2>12. Page(call, again) = p
    BY <1>1, <1>4, <1>6, <2>1, <2>2, <2>6, <2>10, <2>11 DEF Page
  <2>13. /\ p.st = "page" /\ p.next = n + 1 /\ p.done = done /\ p.rows = q /\ p.key = call.key
         /\ p.pos = n /\ p.word = call.word /\ p.goOn = call.goOn /\ p.meta = call.meta
    BY <1>3, <1>4, <2>11 DEF CallRecords
  <2>14. p \in CallRecords
    <3>1. q \in Seq(Row)
      BY <2>7, <2>8
    <3>2. n + 1 \in 0..N
      BY <1>5
    <3> QED
      BY <1>3, <2>11, <3>1, <3>2 DEF CallRecords
  <2>15. Apart(q) /\ \A i \in DOMAIN q : q[i].of = call.key
    <3>1. ASSUME NEW i \in DOMAIN q, NEW j \in DOMAIN q, q[i].at = q[j].at PROVE i = j
      <4>1. q[i] = q[j]
        BY <2>9, <3>1
      <4> QED
        BY <2>7, <4>1 DEF IsInjective
    <3>2. \A i \in DOMAIN q : q[i].of = call.key
      BY <2>9
    <3> QED
      BY <3>1, <3>2 DEF Apart
  <2>16. SetPage(p, s)
    <3>1. ASSUME NEW i \in DOMAIN q
          PROVE  /\ q[i].at = q[i].field /\ \E j \in DOMAIN s : s[j] = q[i].field
                 /\ q[i].at <= n + 1 /\ Matches(call.word, q[i].at)
      <4>1. PICK f \in wanted : q[i] = [at |-> f, field |-> f, of |-> call.key]
        BY <2>9
      <4> QED
        BY <2>3, <2>4, <4>1
    <3>2. ASSUME \E j \in DOMAIN s : s[j] = n + 1, Matches(call.word, n + 1) PROVE HasRow(q, n + 1)
      <4>1. n + 1 \in wanted
        BY <2>1, <2>3, <3>2
      <4>2. [at |-> n + 1, field |-> n + 1, of |-> call.key] \in S
        BY <2>2, <4>1
      <4> QED
        BY <2>7, <4>2 DEF HasRow
    <3>3. done => n + 1 = N
      BY <1>5, <2>10
    <3> QED
      BY <2>13, <3>1, <3>2, <3>3 DEF SetPage
  <2>17. ~done => n + 1 < N
    BY <1>5, <2>10
  <2> QED
    BY <1>1, <1>4, <1>6, <2>12, <2>13, <2>14, <2>15, <2>16, <2>17 DEF Answered
<1>7. CASE ~IsSet(call.key)
  <2>1. PICK q : q = IF n < Len(s) THEN <<[at |-> n, field |-> s[n + 1], of |-> call.key]>> ELSE <<>>
    OBVIOUS
  <2>2. PICK done \in BOOLEAN : /\ done = (n + 1 >= Len(s)) /\ (done => n + 1 >= Len(s))
                                 /\ (~done => n + 1 < Len(s))
    <3>1. CASE n + 1 >= Len(s)
      <4> WITNESS TRUE \in BOOLEAN
      <4> QED
        BY <3>1
    <3>2. CASE ~(n + 1 >= Len(s))
      <4>1. n + 1 < Len(s)
        BY <1>2, <1>5, <3>2
      <4>2. FALSE = (n + 1 >= Len(s))
        BY <3>2
      <4> WITNESS FALSE \in BOOLEAN
      <4> QED
        BY <4>1, <4>2
    <3> QED
      BY <3>1, <3>2
  <2>3. PICK p : p = [call EXCEPT !.st = "page", !.next = n + Len(q), !.done = done, !.rows = q]
    OBVIOUS
  <2>4. Page(call, again) = p
    BY <1>1, <1>4, <1>7, <2>1, <2>2, <2>3 DEF Page
  <2>5. CASE n < Len(s)
    <3>1. PICK r : r = [at |-> n, field |-> s[n + 1], of |-> call.key]
      OBVIOUS
    <3>2. n + 1 \in DOMAIN s /\ n \in 0..N /\ r \in Row
      BY <1>2, <1>4, <1>5, <2>5, <3>1 DEF Row
    <3>3. q = <<r>> /\ Len(q) = 1 /\ DOMAIN q = {1} /\ q[1] = r /\ q \in Seq(Row) /\ q # <<>>
      BY <2>1, <2>5, <3>1, <3>2
    <3>4. n + Len(q) = n + 1 /\ n + 1 \in 0..N /\ (~done => n + 1 < N)
      BY <1>2, <1>5, <2>2, <3>3
    <3>5. p \in CallRecords
      BY <1>3, <2>3, <3>3, <3>4 DEF CallRecords
    <3>6. /\ p.st = "page" /\ p.next = n + 1 /\ p.done = done /\ p.rows = q /\ p.key = call.key
          /\ p.pos = n /\ p.word = call.word /\ p.goOn = call.goOn
      BY <1>3, <1>4, <2>3, <3>4 DEF CallRecords
    <3>7. Apart(q) /\ \A i \in DOMAIN q : q[i].of = call.key
      BY <3>1, <3>3 DEF Apart
    <3>8. ListPage(p, s)
      <4>1. HasRow(q, n)
        BY <3>1, <3>3 DEF HasRow
      <4> QED
        BY <1>5, <2>2, <3>1, <3>2, <3>3, <3>6, <4>1 DEF ListPage
    <3> QED
      BY <1>1, <1>4, <1>7, <2>4, <3>4, <3>5, <3>6, <3>7, <3>8 DEF Answered
  <2>6. CASE ~(n < Len(s))
    <3>1. q = <<>> /\ Len(q) = 0 /\ q \in Seq(Row) /\ DOMAIN q = {} /\ done /\ n + 1 \notin DOMAIN s
      BY <1>2, <1>5, <2>1, <2>2, <2>6
    <3>2. n + Len(q) = n /\ n \in 0..N
      BY <1>5, <3>1
    <3>3. p \in CallRecords
      BY <1>3, <2>3, <3>1, <3>2 DEF CallRecords
    <3>4. /\ p.st = "page" /\ p.next = n /\ p.done = done /\ p.rows = q /\ p.key = call.key
          /\ p.pos = n /\ p.word = call.word /\ p.goOn = call.goOn
      BY <1>3, <1>4, <2>3, <3>2 DEF CallRecords
    <3>5. Apart(q) /\ \A i \in DOMAIN q : q[i].of = call.key
      BY <3>1 DEF Apart
    <3>6. ListPage(p, s)
      BY <1>2, <1>5, <2>2, <3>1, <3>4 DEF ListPage
    <3> QED
      BY <1>1, <1>4, <1>7, <2>4, <3>1, <3>3, <3>4, <3>5, <3>6 DEF Answered
  <2> QED
    BY <2>5, <2>6
<1> QED
  BY <1>6, <1>7

-----------------------------------------------------------------------------
(* Rows are added and taken away. *)

\* m has the rows of p, and those of q unless one is at their place.
MergeOf(m, p, q) ==
  /\ m \in Seq(Row)
  /\ \A i \in DOMAIN m : (\E h \in DOMAIN p : m[i] = p[h]) \/ (\E h \in DOMAIN q : m[i] = q[h])
  /\ \A h \in DOMAIN p : \E i \in DOMAIN m : m[i] = p[h]
  /\ \A h \in DOMAIN q : HasRow(m, q[h].at)

LEMMA MergedIs ==
  ASSUME NEW p \in Seq(Row), NEW q \in Seq(Row), NEW m, m = p \o Fresh(p, q)
  PROVE  MergeOf(m, p, q) /\ (Apart(p) /\ Apart(q) => Apart(m))
<1>1. PICK S : S = {j \in DOMAIN q : ~\E i \in DOMAIN p : IsSet(p[i].of) = IsSet(q[j].of) /\ p[i].at = q[j].at}
  OBVIOUS
<1>2. PICK f : f = Kept(q, S)
  OBVIOUS
<1>3. f = Fresh(p, q) /\ S \in SUBSET DOMAIN q
  BY <1>1, <1>2 DEF Fresh
<1>4. f \in Seq(Row) /\ \E g : KeptAt(f, q, S, g)
  BY <1>2, <1>3, KeptIs
<1>5. PICK g \in [DOMAIN f -> S] :
        /\ \A j \in DOMAIN f : f[j] = q[g[j]]
        /\ \A i, j \in DOMAIN f : g[i] = g[j] => i = j
        /\ \A i \in S : \E j \in DOMAIN f : g[j] = i
  BY <1>4 DEF KeptAt
<1>6. PICK a \in Nat, b \in Nat : a = Len(p) /\ b = Len(f) /\ DOMAIN p = 1..a /\ DOMAIN f = 1..b
  BY <1>4
<1>7. /\ m \in Seq(Row) /\ DOMAIN m = 1..a + b
      /\ \A i \in 1..a : m[i] = p[i]
      /\ \A i \in a + 1..a + b : m[i] = f[i - a] /\ i - a \in 1..b
      /\ \A j \in 1..b : m[a + j] = f[j] /\ a + j \in 1..a + b
  BY <1>3, <1>4, <1>6
<1>8. ASSUME NEW i \in DOMAIN m
      PROVE  (i \in 1..a /\ m[i] = p[i]) \/ \E j \in 1..b : m[i] = q[g[j]] /\ g[j] \in S /\ i = a + j
  <2>1. i \in 1..a \/ i \in a + 1..a + b
    BY <1>6, <1>7
  <2>2. ASSUME i \in a + 1..a + b PROVE \E j \in 1..b : m[i] = q[g[j]] /\ g[j] \in S /\ i = a + j
    <3>1. i - a \in 1..b /\ i = a + (i - a)
      BY <1>6, <2>2
    <3>2. m[i] = f[i - a]
      BY <1>7, <2>2
    <3> QED
      BY <1>5, <1>6, <3>1, <3>2
  <2> QED
    BY <1>7, <2>1, <2>2
<1>9. \A i \in DOMAIN m : (\E h \in DOMAIN p : m[i] = p[h]) \/ (\E h \in DOMAIN q : m[i] = q[h])
  BY <1>3, <1>6, <1>8
<1>10. ASSUME NEW h \in DOMAIN p PROVE \E i \in DOMAIN m : m[i] = p[h]
  <2>1. h \in 1..a + b
    BY <1>6
  <2> QED
    BY <1>6, <1>7, <2>1
<1>11. ASSUME NEW h \in DOMAIN q PROVE HasRow(m, q[h].at)
  <2>1. CASE h \in S
    <3>1. PICK j \in 1..b : g[j] = h
      BY <1>5, <1>6, <2>1
    <3>2. m[a + j] = q[h] /\ a + j \in DOMAIN m
      BY <1>5, <1>6, <1>7, <3>1
    <3> QED
      BY <3>2 DEF HasRow
  <2>2. CASE h \notin S
    <3>1. PICK i \in DOMAIN p : p[i].at = q[h].at
      BY <1>1, <2>2
    <3> QED
      BY <1>10, <3>1 DEF HasRow
  <2> QED
    BY <2>1, <2>2
<1>12. ASSUME Apart(p), Apart(q) PROVE Apart(m)
  <2>1. ASSUME NEW h \in DOMAIN p, NEW k \in S, p[h].of = q[k].of PROVE p[h].at # q[k].at
    BY <1>1, <2>1
  <2>2. SUFFICES ASSUME NEW i \in DOMAIN m, NEW j \in DOMAIN m, i # j, m[i].of = m[j].of, m[i].at = m[j].at
                 PROVE  FALSE
    BY DEF Apart
  <2>3. CASE i \in 1..a /\ m[i] = p[i] /\ j \in 1..a /\ m[j] = p[j]
    BY <1>6, <1>12, <2>2, <2>3 DEF Apart
  <2>4. CASE \E h \in 1..b : m[j] = q[g[h]] /\ g[h] \in S /\ j = a + h
    <3>1. PICK h \in 1..b : m[j] = q[g[h]] /\ g[h] \in S /\ j = a + h
      BY <2>4
    <3>2. CASE i \in 1..a /\ m[i] = p[i]
      BY <1>6, <2>1, <2>2, <3>1, <3>2
    <3>3. CASE \E k \in 1..b : m[i] = q[g[k]] /\ g[k] \in S /\ i = a + k
      <4>1. PICK k \in 1..b : m[i] = q[g[k]] /\ g[k] \in S /\ i = a + k
        BY <3>3
      <4>2. g[k] # g[h]
        BY <1>5, <1>6, <2>2, <3>1, <4>1
      <4> QED
        BY <1>3, <1>12, <2>2, <3>1, <4>1, <4>2 DEF Apart
    <3> QED
      BY <1>8, <3>2, <3>3
  <2>5. CASE (j \in 1..a /\ m[j] = p[j]) /\ \E k \in 1..b : m[i] = q[g[k]] /\ g[k] \in S /\ i = a + k
    BY <1>6, <2>1, <2>2, <2>5
  <2> QED
    BY <1>8, <2>3, <2>4, <2>5
<1> QED
  BY <1>7, <1>9, <1>10, <1>11, <1>12 DEF MergeOf

\* The rows that are left: g says where each one was.
DroppedBy(d, q, row, g, shift) ==
  /\ d \in Seq(Row) /\ g \in [DOMAIN d -> DOMAIN q]
  /\ \A i, j \in DOMAIN d : g[i] = g[j] => i = j
  /\ \A j \in DOMAIN d : q[g[j]].at # row.at /\ d[j] = IF shift THEN Moved(q[g[j]], row) ELSE q[g[j]]
  /\ \A i \in DOMAIN q : q[i].at # row.at => \E j \in DOMAIN d : g[j] = i

LEMMA MovedIs ==
  ASSUME NEW r \in Row, NEW row \in Row \cup {NoRow}
  PROVE  /\ Moved(r, row) \in Row /\ Moved(r, row).field = r.field /\ Moved(r, row).of = r.of
         /\ Moved(r, row).at = IF r.at > row.at THEN r.at - 1 ELSE r.at
<1>1. r.at \in 0..N /\ row.at \in 0..N
  BY Basics DEF Row, NoRow
<1>2. CASE r.at > row.at
  <2>1. r.at - 1 \in 0..N
    BY <1>1, <1>2, Basics
  <2> QED
    BY <1>2, <2>1 DEF Moved, Row
<1>3. CASE ~(r.at > row.at)
  BY <1>3 DEF Moved
<1> QED
  BY <1>2, <1>3

LEMMA DroppedIs ==
  ASSUME NEW q \in Seq(Row), NEW row \in Row \cup {NoRow}
  PROVE  \E g : \E shift \in BOOLEAN :
           /\ DroppedBy(Dropped(q, row), q, row, g, shift)
           /\ IsSet(rv.key) => ~shift
           /\ ~IsSet(rv.key) /\ (\E i \in DOMAIN q : q[i].at = row.at) => shift
<1>1. PICK S : S = {i \in DOMAIN q : q[i].at # row.at}
  OBVIOUS
<1>2. PICK left : left = Kept(q, S)
  OBVIOUS
<1>3. S \in SUBSET DOMAIN q
  BY <1>1
<1>4. left \in Seq(Row) /\ \E g : KeptAt(left, q, S, g)
  BY <1>2, <1>3, KeptIs
<1>5. PICK g \in [DOMAIN left -> S] :
        /\ \A j \in DOMAIN left : left[j] = q[g[j]]
        /\ \A i, j \in DOMAIN left : g[i] = g[j] => i = j
        /\ \A i \in S : \E j \in DOMAIN left : g[j] = i
  BY <1>4 DEF KeptAt
<1>6. CASE left = q \/ IsSet(rv.key)
  <2>1. Dropped(q, row) = left
    BY <1>1, <1>2, <1>6 DEF Dropped
  <2>2. DroppedBy(left, q, row, g, FALSE)
    BY <1>1, <1>3, <1>4, <1>5 DEF DroppedBy
  <2>3. left = q => ~\E i \in DOMAIN q : q[i].at = row.at
    BY <1>1, <1>5
  <2> QED
    BY <1>6, <2>1, <2>2, <2>3
<1>7. CASE ~(left = q \/ IsSet(rv.key))
  <2>1. PICK d : d = [i \in DOMAIN left |-> Moved(left[i], row)]
    OBVIOUS
  <2>2. Dropped(q, row) = d
    BY <1>1, <1>2, <1>7, <2>1 DEF Dropped
  <2>3. d \in Seq(Row) /\ DOMAIN d = DOMAIN left
    <3>1. \A i \in DOMAIN left : Moved(left[i], row) \in Row
      BY <1>3, <1>4, MovedIs
    <3>2. Len(left) \in Nat /\ DOMAIN left = 1..Len(left)
      BY <1>3, <1>4
    <3> QED
      BY <2>1, <3>1, <3>2
  <2>4. DroppedBy(d, q, row, g, TRUE)
    BY <1>1, <1>3, <1>4, <1>5, <2>1, <2>3 DEF DroppedBy
  <2> QED
    BY <1>7, <2>2, <2>4
<1> QED
  BY <1>6, <1>7

\* No two of one key's rows get to one place.
LEMMA DroppedApart ==
  ASSUME NEW d, NEW q \in Seq(Row), NEW row \in Row \cup {NoRow}, NEW g, NEW shift \in BOOLEAN,
         DroppedBy(d, q, row, g, shift), Apart(q)
  PROVE  Apart(d)
<1> SUFFICES ASSUME NEW i \in DOMAIN d, NEW j \in DOMAIN d, i # j, d[i].of = d[j].of PROVE d[i].at # d[j].at
  BY DEF Apart
<1>1. /\ g[i] \in DOMAIN q /\ g[j] \in DOMAIN q /\ g[i] # g[j]
      /\ q[g[i]].at # row.at /\ q[g[j]].at # row.at
  BY DEF DroppedBy
<1>2. PICK r \in Row, s \in Row : r = q[g[i]] /\ s = q[g[j]]
  BY <1>1
<1>3. r.at \in Nat /\ s.at \in Nat /\ row.at \in Nat /\ r.at # row.at /\ s.at # row.at
  BY <1>1, <1>2, Basics DEF Row, NoRow
<1>4. CASE shift
  <2>1. d[i] = Moved(r, row) /\ d[j] = Moved(s, row)
    BY <1>2, <1>4 DEF DroppedBy
  <2>2. /\ d[i].of = r.of /\ d[j].of = s.of
        /\ d[i].at = IF r.at > row.at THEN r.at - 1 ELSE r.at
        /\ d[j].at = IF s.at > row.at THEN s.at - 1 ELSE s.at
    BY <2>1, MovedIs
  <2>3. r.at # s.at
    BY <1>1, <1>2, <2>2 DEF Apart
  <2> QED
    BY <1>3, <2>2, <2>3
<1>5. CASE ~shift
  <2>1. d[i] = r /\ d[j] = s
    BY <1>2, <1>5 DEF DroppedBy
  <2> QED
    BY <1>1, <1>2, <2>1 DEF Apart
<1> QED
  BY <1>4, <1>5

-----------------------------------------------------------------------------
(* What the user does and what waits: a list is begun, or a restart waits. *)

Began ==
  \E r \in Starts, c \in CtlRecords :
    /\ ~Loading /\ Begins(r, c)
    /\ UNCHANGED <<server, foreign, rv, more, del>>
    /\ asks' \in 0..MaxAsks /\ chosen' \in Maybe /\ waits' \in [reset : Nat, plain : Nat]
    /\ r.goOn => waits' = waits /\ chosen' = chosen /\ chosen # None /\ rv.key # None
    /\ chosen' # chosen => c.detect /\ ~r.goOn
Interrupted ==
  /\ Loading /\ Waiting' /\ ctl' \in CtlRecords
  /\ UNCHANGED <<server, foreign, rv, more, del, match, cursor, load, call, calm>>
  /\ asks' \in 0..MaxAsks /\ chosen' \in Maybe /\ waits' \in [reset : Nat, plain : Nat]

LEMMA ViewNow ==
  ASSUME ViewTyped
  PROVE  /\ ctl \in CtlRecords /\ cursor \in CursorRecords /\ load \in LoadRecords /\ chosen \in Maybe
         /\ call \in CallRecords /\ match \in Words /\ asks \in 0..MaxAsks
         /\ waits \in [reset : Nat, plain : Nat] /\ waits.reset \in Nat /\ waits.plain \in Nat
         /\ rv \in [key : Maybe, rows : Seq(Row)] /\ (rv.key = None => rv.rows = <<>>)
         /\ rv.key \in Maybe /\ rv.rows \in Seq(Row)
         /\ server \in [Keys -> Seq(Fields)]
BY DEF ViewTyped, TypeOK, CallTyped, CtlRecords, CursorRecords, LoadRecords

LEMMA Kinds ==
  /\ Reset \in Starts /\ NoLoad \in Starts /\ \A all \in BOOLEAN : GoOn(all) \in Starts
  /\ ~Reset.goOn /\ ~NoLoad.goOn
BY DEF Starts, Reset, NoLoad, GoOn

LEMMA RestartIs ==
  ASSUME ViewTyped, NEW kind \in {"reset", "plain"}, NEW c \in CtlRecords, Restarts(kind, c),
         UNCHANGED <<server, foreign, rv, more, del>>,
         asks' \in 0..MaxAsks, chosen' \in Maybe, chosen' # chosen => c.detect
  PROVE  Began \/ Interrupted
<1>1. CASE Loading
  <2>1. /\ ctl' = [c EXCEPT !.cancelled = TRUE, !.paused = FALSE]
        /\ waits' = [waits EXCEPT ![kind] = @ + 1]
        /\ UNCHANGED <<match, cursor, load, call, calm>>
    BY <1>1 DEF Restarts
  <2>2. ctl' \in CtlRecords
    BY <2>1 DEF CtlRecords
  <2>3. waits' \in [reset : Nat, plain : Nat] /\ Waiting'
    BY <2>1, ViewNow DEF Waiting
  <2> QED
    BY <1>1, <2>1, <2>2, <2>3 DEF Interrupted
<1>2. CASE ~Loading
  <2>1. PICK r \in Starts : r = (IF kind = "reset" THEN Reset ELSE NoLoad) /\ ~r.goOn
    BY Kinds
  <2>2. Begin(r, c) /\ UNCHANGED waits
    BY <1>2, <2>1 DEF Restarts
  <2>3. Begins(r, c)
    BY <2>1, <2>2, BeginIs
  <2> QED
    BY <1>2, <2>1, <2>2, <2>3, ViewNow DEF Began
<1> QED
  BY <1>1, <1>2

AsksOrWaits ==
  \/ \E w \in {"reset", "plain"} : WaitOver(w)
  \/ Restart \/ Saved(Reset) \/ Saved(NoLoad) \/ Resume
  \/ \E k \in Keys : Choose(k)
  \/ \E all \in BOOLEAN : LoadMore(all)

LEMMA Counted == ASSUME ViewTyped, Do PROVE asks' \in 0..MaxAsks
BY ViewNow, Basics DEF Do

LEMMA AskOrWait == ASSUME ViewTyped, AsksOrWaits PROVE Began \/ Interrupted
<1>1. ASSUME NEW w \in {"reset", "plain"}, WaitOver(w) PROVE Began
  <2>1. /\ ~Loading /\ waits' = [waits EXCEPT ![w] = @ - 1] /\ waits[w] > 0
        /\ UNCHANGED <<server, foreign, asks, chosen, rv, more, del>>
    BY <1>1 DEF WaitOver, others, shown
  <2>2. PICK r \in Starts : r = (IF w = "reset" THEN Reset ELSE NoLoad) /\ ~r.goOn
    BY Kinds
  <2>3. Begin(r, ctl)
    BY <1>1, <2>2 DEF WaitOver
  <2>4. Begins(r, ctl)
    BY <2>2, <2>3, BeginIs, ViewNow
  <2>5. waits' \in [reset : Nat, plain : Nat]
    BY <2>1, ViewNow
  <2> QED
    BY <2>1, <2>2, <2>4, <2>5, ViewNow DEF Began
<1>2. ASSUME Restart PROVE Began \/ Interrupted
  <2>1. Restarts("plain", ctl) /\ UNCHANGED <<server, foreign, chosen, rv, more, del>> /\ Do
    BY <1>2 DEF Restart, others, shown
  <2> QED
    BY <2>1, RestartIs, ViewNow, Counted
<1>3. ASSUME NEW r \in {Reset, NoLoad}, Saved(r) PROVE Began
  <2>1. /\ ~Loading /\ Begin(r, ctl) /\ Do
        /\ UNCHANGED <<server, foreign, chosen, rv, more, waits, del>>
    BY <1>3 DEF Saved, others, shown
  <2>2. r \in Starts /\ ~r.goOn
    BY Kinds
  <2>3. Begins(r, ctl)
    BY <2>1, <2>2, BeginIs, ViewNow
  <2> QED
    BY <2>1, <2>2, <2>3, ViewNow, Counted DEF Began
<1>4. ASSUME Resume PROVE Began
  <2>1. PICK r \in Starts : r = GoOn(load.all)
    BY Kinds, ViewNow DEF LoadRecords
  <2>2. PICK c \in CtlRecords : c = [ctl EXCEPT !.paused = FALSE]
    BY ViewNow DEF CtlRecords
  <2>3. /\ ~Loading /\ Begin(r, c) /\ Do /\ ctl.paused /\ Visible
        /\ UNCHANGED <<server, foreign, chosen, rv, more, waits, del>>
    BY <1>4, <2>1, <2>2 DEF Resume, others, shown
  <2>4. ~cursor.done
    BY <2>3 DEF ViewTyped, Bounded
  <2>5. Begins(r, c)
    BY <2>3, <2>4, BeginIs
  <2> QED
    BY <2>3, <2>5, ViewNow, Counted DEF Began, Visible
<1>5. ASSUME NEW k \in Keys, Choose(k) PROVE Began \/ Interrupted
  <2>1. PICK c \in CtlRecords : c = [ctl EXCEPT !.detect = TRUE] /\ c.detect
    <3>1. /\ [ctl EXCEPT !.detect = TRUE] \in CtlRecords
          /\ [ctl EXCEPT !.detect = TRUE].detect
      BY ViewNow DEF CtlRecords
    <3> QED
      BY <3>1
  <2>2. /\ Restarts("reset", c) /\ chosen' = k /\ Do
        /\ UNCHANGED <<server, foreign, rv, more, del>>
    BY <1>5, <2>1 DEF Choose, others, shown
  <2>3. chosen' \in Maybe
    BY <2>2 DEF Maybe
  <2> QED
    BY <2>1, <2>2, <2>3, RestartIs, Counted
<1>6. ASSUME NEW all \in BOOLEAN, LoadMore(all) PROVE Began
  <2>1. PICK r \in Starts : r = GoOn(all)
    BY Kinds
  <2>2. /\ ~Loading /\ Begin(r, ctl) /\ Do /\ more /\ Visible
        /\ UNCHANGED <<server, foreign, chosen, rv, more, waits, del>>
    BY <1>6, <2>1 DEF LoadMore, others, shown
  <2>3. ~cursor.done
    BY <2>2 DEF ViewTyped, Bounded
  <2>4. Begins(r, ctl)
    BY <2>2, <2>3, BeginIs, ViewNow
  <2> QED
    BY <2>2, <2>4, ViewNow, Counted DEF Began, Visible
<1> QED
  BY <1>1, <1>2, <1>3, <1>4, <1>5, <1>6 DEF AsksOrWaits

LEMMA BeganTyped == ASSUME ViewTyped, Began PROVE ViewTyped'
BY BeginTyped DEF Began

LEMMA InterruptedTyped == ASSUME ViewTyped, Interrupted PROVE ViewTyped'
<1>1. TypeOK'
  BY DEF ViewTyped, TypeOK, Interrupted, CtlRecords
<1>2. CallTyped' /\ LoadIs'
  BY DEF ViewTyped, Interrupted, CallTyped, LoadIs, Loading
<1>3. Bounded'
  BY DEF ViewTyped, Interrupted, Bounded, Loading
<1> QED
  BY <1>1, <1>2, <1>3, ViewNow DEF ViewTyped, Interrupted

-----------------------------------------------------------------------------
(* The steps of the chain. *)

LEMMA TypeKnownTyped ==
  ASSUME ViewTyped, TypeKnown
  PROVE  ViewTyped' /\ AskedFor(call', FALSE, cursor, rv)
<1>1. /\ load.at = "type" /\ load' = [load EXCEPT !.at = "call"] /\ call' = Asked(FALSE, cursor, rv)
      /\ UNCHANGED <<match, server, foreign, asks, chosen, rv, more, cursor, ctl, waits, del, calm>>
  BY DEF TypeKnown, others, shown
<1>2. AskedFor(call', FALSE, cursor, rv)
  BY <1>1, AskedIs, ViewNow
<1>3. load' \in LoadRecords /\ load'.at = "call"
  BY <1>1, ViewNow DEF LoadRecords
<1>4. call'.st = "asked" /\ (call'.st = "no") = (load'.at # "call")
  BY <1>2, <1>3 DEF AskedFor
<1>5. UNCHANGED <<match, server, foreign, asks, chosen, rv, more, cursor, ctl, waits, del, calm>>
  BY <1>1
<1>6. TypeOK'
  BY <1>3, <1>4, <1>5 DEF ViewTyped, TypeOK, LoadRecords
<1>7. CallTyped'
  BY <1>2 DEF CallTyped, AskedFor
<1>8. Bounded' /\ LoadIs'
  BY <1>1, ViewNow DEF ViewTyped, Bounded, LoadIs, Loading, LoadRecords
<1> QED
  BY <1>1, <1>2, <1>6, <1>7, <1>8, ViewNow DEF ViewTyped

\* A call that was served is still about the same page.
SamePage(r) ==
  /\ r \in CallRecords /\ r.key = call.key /\ r.pos = call.pos /\ r.word = call.word
  /\ r.goOn = call.goOn
Served ==
  \/ SamePage(call') /\ call'.st \in {"missing", "failed"}
  \/ call.key \in Keys /\ Answered(call', server[call.key])

LEMMA ServeIs == ASSUME ViewTyped, Serve PROVE Served
<1>1. call \in CallRecords /\ call.st = "asked"
  BY ViewNow DEF Serve
<1>2. CASE call' = [call EXCEPT !.st = "missing"] \/ call' = [call EXCEPT !.st = "failed"]
  BY <1>1, <1>2 DEF Served, SamePage, CallRecords
<1>3. CASE /\ call.key # None
           /\ \E again \in {{}} \cup {{f} : f \in 1..call.pos} : call' = Page(call, again)
  <2>1. call.key \in Keys
    BY <1>1, <1>3 DEF CallRecords, Maybe
  <2> QED
    BY <1>1, <1>3, <2>1, PageIs DEF Served
<1> QED
  BY <1>2, <1>3 DEF Serve

LEMMA ServeTyped == ASSUME ViewTyped, Serve PROVE ViewTyped'
<1>1. Served /\ call.st = "asked"
      /\ UNCHANGED <<server, foreign, asks, chosen, match, rv, more, cursor, ctl, load, waits, del, calm>>
  BY ServeIs DEF Serve, others, shown
<1>2. call' \in CallRecords /\ call'.st \in {"page", "missing", "failed"} /\ SamePage(call')
  BY <1>1 DEF Served, SamePage, Answered
<1>3. TypeOK'
  BY <1>1, <1>2 DEF ViewTyped, TypeOK
<1>4. CallTyped'
  BY <1>1, <1>2 DEF ViewTyped, CallTyped, Served, SamePage, Answered
<1>5. Bounded' /\ LoadIs'
  BY <1>1 DEF ViewTyped, Bounded, LoadIs, Loading
<1> QED
  BY <1>1, <1>3, <1>4, <1>5, ViewNow DEF ViewTyped

\* What the value is once a page is taken up.
Merges == call.goOn /\ rv.key # None
LEMMA ValueIs ==
  ASSUME ViewTyped, call.st = "page", NEW v, v = Value
  PROVE  /\ v.key \in Maybe /\ v.rows \in Seq(Row) /\ (v.key = None => v.rows = <<>>)
         /\ Merges => v.key = rv.key /\ v.rows = rv.rows \o Fresh(rv.rows, call.rows)
         /\ ~Merges /\ load.first => v.key = call.key /\ v.rows = call.rows
         /\ ~Merges /\ ~load.first => v = rv
<1>1. call.rows \in Seq(Row) /\ call.key \in Keys /\ call.key # None
  BY Basics DEF ViewTyped, CallTyped, CallRecords
<1>2. CASE Merges
  <2>1. v = [rv EXCEPT !.rows = @ \o Fresh(@, call.rows)]
    BY <1>2 DEF Value, Merges
  <2>2. PICK m : m = rv.rows \o Fresh(rv.rows, call.rows)
    OBVIOUS
  <2>3. m \in Seq(Row)
    BY <1>1, <2>2, MergedIs, ViewNow DEF MergeOf
  <2>4. v.key = rv.key /\ v.rows = m
    BY <2>1, <2>2, ViewNow
  <2> QED
    BY <1>2, <2>2, <2>3, <2>4, ViewNow DEF Merges
<1>3. CASE ~Merges /\ load.first
  <2>1. v = [key |-> call.key, rows |-> call.rows]
    BY <1>3 DEF Value, Merges
  <2>2. v.key = call.key /\ v.rows = call.rows
    BY <2>1
  <2>3. call.key \in Maybe
    BY <1>1 DEF Maybe
  <2> QED
    BY <1>1, <1>3, <2>2, <2>3
<1>4. CASE ~Merges /\ ~load.first
  BY <1>4, ViewNow DEF Value, Merges
<1> QED
  BY <1>2, <1>3, <1>4

\* A page is taken up: the chain ends, or asks for the next.
TakenUp ==
  /\ call.st = "page" /\ load.at = "call" /\ rv' = Value
  /\ cursor' \in CursorRecords /\ cursor'.pos = call.next /\ cursor'.done = call.done
  /\ cursor'.word = call.word
  /\ UNCHANGED <<server, foreign, asks, chosen, match, ctl, waits, del, calm>>
  /\ load' \in LoadRecords /\ load'.goOn = load.goOn /\ load'.all = load.all
  /\ \/ load'.at = "end" /\ call' = NoCall /\ more' = ~call.done
     \/ /\ load'.at = "call" /\ ~load'.first /\ UNCHANGED more /\ AskedFor(call', TRUE, cursor', rv')
        /\ ~call.done /\ (load.all \/ call.rows = <<>>)

LEMMA TakeUp == ASSUME ViewTyped, Arrived PROVE TakenUp
<1>1. /\ call.st = "page" /\ rv' = Value
      /\ cursor' = [pos |-> call.next, done |-> call.done, word |-> call.word]
      /\ UNCHANGED <<server, foreign, asks, chosen, match, ctl, waits, del, calm>>
  BY DEF Arrived, others
<1>2. load.at = "call"
  BY <1>1 DEF ViewTyped, TypeOK
<1>3. call.next \in 0..N /\ call.done \in BOOLEAN /\ call.word \in Words
  BY ViewNow DEF CallRecords
<1>4. /\ cursor'.pos = call.next /\ cursor'.done = call.done /\ cursor'.word = call.word
      /\ cursor' \in CursorRecords
  <2>1. call.next \in -1..N
    BY <1>3, Basics
  <2> QED
    BY <1>1, <1>3, <2>1 DEF CursorRecords
<1>5. CASE Enough
  <2>1. load' = [load EXCEPT !.at = "end"] /\ call' = NoCall /\ more' = ~call.done
    BY <1>5 DEF Arrived
  <2>2. load' \in LoadRecords /\ load'.goOn = load.goOn /\ load'.all = load.all /\ load'.at = "end"
    BY <2>1, ViewNow DEF LoadRecords
  <2> QED
    BY <1>1, <1>2, <1>4, <2>1, <2>2 DEF TakenUp
<1>6. CASE ~Enough
  <2>1. load' = [load EXCEPT !.first = FALSE] /\ UNCHANGED more /\ call' = Asked(TRUE, cursor', rv')
    BY <1>6 DEF Arrived
  <2>2. /\ load' \in LoadRecords /\ load'.goOn = load.goOn /\ load'.all = load.all
        /\ load'.at = "call" /\ ~load'.first
    BY <1>2, <2>1, ViewNow DEF LoadRecords
  <2>3. ~call.done /\ (load.all \/ call.rows = <<>>)
    BY <1>6 DEF Enough
  <2>4. cursor'.pos < N
    BY <1>1, <1>4, <2>3 DEF ViewTyped, CallTyped
  <2>5. match' \in Words
    BY <1>1, ViewNow
  <2>6. AskedFor(call', TRUE, cursor', rv')
    BY <1>4, <2>1, <2>4, <2>5, AskedIs, ViewNow
  <2> QED
    BY <1>1, <1>2, <1>4, <2>1, <2>2, <2>3, <2>6 DEF TakenUp
<1> QED
  BY <1>5, <1>6

LEMMA NoCallIs == NoCall \in CallRecords /\ NoCall.st = "no" /\ ~NoCall.goOn /\ NoCall.pos = 0
<1>1. 0 \in 0..N - 1 /\ 0 \in 0..N /\ <<>> \in Seq(Row)
  BY Basics
<1> QED
  BY <1>1 DEF NoCall, CallRecords, Maybe, Words

LEMMA TakenUpTyped == ASSUME ViewTyped, TakenUp PROVE ViewTyped'
<1>1. /\ rv' \in [key : Maybe, rows : Seq(Row)] /\ (rv'.key = None => rv'.rows = <<>>)
      /\ rv'.key \in Maybe /\ rv'.rows \in Seq(Row)
  <2>1. rv' = Value /\ call.st = "page"
    BY DEF TakenUp
  <2>2. Value \in [key : Maybe, rows : Seq(Row)]
    <3>1. CASE Merges
      <4>1. rv.rows \o Fresh(rv.rows, call.rows) \in Seq(Row)
        BY <2>1, <3>1, ValueIs
      <4> QED
        BY <3>1, <4>1, ViewNow DEF Value, Merges
    <3>2. CASE ~Merges /\ load.first
      <4>1. call.key \in Maybe /\ call.rows \in Seq(Row)
        BY ViewNow DEF CallRecords
      <4> QED
        BY <3>2, <4>1 DEF Value, Merges
    <3>3. CASE ~Merges /\ ~load.first
      BY <3>3, ViewNow DEF Value, Merges
    <3> QED
      BY <3>1, <3>2, <3>3
  <2> QED
    BY <2>1, <2>2, ValueIs
<1>2. call' \in CallRecords /\ (call'.st = "no") = (load'.at # "call")
      /\ (call'.st = "asked" \/ call' = NoCall)
  BY NoCallIs DEF TakenUp, AskedFor
<1>3. UNCHANGED <<server, foreign, asks, chosen, match, ctl, waits, del, calm>>
      /\ cursor' \in CursorRecords /\ load' \in LoadRecords
  BY DEF TakenUp
<1>4. more' \in BOOLEAN
  BY DEF TakenUp, ViewTyped, TypeOK
<1>5. TypeOK'
  <2>1. call'.st \in {"no", "asked", "page", "missing", "failed"}
    BY <1>2, NoCallIs
  <2> QED
    BY <1>1, <1>2, <1>3, <1>4, <2>1 DEF ViewTyped, TypeOK, CursorRecords, LoadRecords
<1>6. CallTyped'
  <2>1. CASE call' = NoCall
    BY <1>2, <2>1, NoCallIs DEF CallTyped
  <2>2. CASE AskedFor(call', TRUE, cursor', rv')
    BY <1>2, <2>2 DEF CallTyped, AskedFor
  <2> QED
    BY <2>1, <2>2 DEF TakenUp
<1>7. Bounded'
  BY <1>3 DEF TakenUp, ViewTyped, CallTyped, Bounded, Loading
<1>8. LoadIs'
  BY DEF TakenUp, ViewTyped, LoadIs, Loading
<1> QED
  BY <1>1, <1>5, <1>6, <1>7, <1>8 DEF ViewTyped

\* A page fails: the view is emptied, or stays.
FailedPage ==
  /\ call.st \in {"missing", "failed"} /\ load.at = "call" /\ load' \in LoadRecords
  /\ load'.at = "end" /\ load'.goOn = load.goOn /\ load'.all = load.all /\ call' = NoCall
  /\ IF call.st = "missing" /\ ~load.goOn
     THEN rv' = NoValue /\ cursor' \in CursorRecords /\ cursor'.pos = -1 /\ ~cursor'.done
          /\ more' = FALSE /\ calm' = calm
     ELSE UNCHANGED <<rv, cursor, more>> /\ calm' = [calm EXCEPT !.ok = FALSE]
  /\ UNCHANGED <<server, foreign, asks, chosen, match, ctl, waits, del>>

LEMMA Fail == ASSUME ViewTyped, Failed PROVE FailedPage
<1>1. /\ call.st \in {"missing", "failed"} /\ load' = [load EXCEPT !.at = "end"] /\ call' = NoCall
      /\ calm' = [calm EXCEPT !.ok = @ /\ call.st = "missing" /\ ~load.goOn]
      /\ UNCHANGED <<server, foreign, asks, chosen, match, ctl, waits, del>>
  BY DEF Failed, others
<1>2. load.at = "call"
  BY <1>1 DEF ViewTyped, TypeOK
<1>3. load' \in LoadRecords /\ load'.at = "end" /\ load'.goOn = load.goOn /\ load'.all = load.all
  BY <1>1, ViewNow DEF LoadRecords
<1>4. calm \in [ok : BOOLEAN, same : BOOLEAN, apart : BOOLEAN]
  BY DEF ViewTyped, TypeOK
<1>5. CASE call.st = "missing" /\ ~load.goOn
  <2>1. rv' = NoValue /\ cursor' = [NoCursor EXCEPT !.word = cursor.word] /\ more' = FALSE
    BY <1>5 DEF Failed
  <2>2. cursor' \in CursorRecords /\ cursor'.pos = -1 /\ ~cursor'.done
    <3>1. -1 \in -1..N /\ cursor.word \in Words
      BY Basics, ViewNow DEF CursorRecords
    <3> QED
      BY <2>1, <3>1 DEF NoCursor, CursorRecords
  <2>3. calm' = calm
    BY <1>1, <1>4, <1>5
  <2> QED
    BY <1>1, <1>2, <1>3, <1>5, <2>1, <2>2, <2>3 DEF FailedPage
<1>6. CASE ~(call.st = "missing" /\ ~load.goOn)
  <2>1. UNCHANGED <<rv, cursor, more>>
    BY <1>6 DEF Failed
  <2>2. calm' = [calm EXCEPT !.ok = FALSE]
    BY <1>1, <1>4, <1>6
  <2> QED
    BY <1>1, <1>2, <1>3, <1>6, <2>1, <2>2 DEF FailedPage
<1> QED
  BY <1>5, <1>6

LEMMA FailedTyped == ASSUME ViewTyped, FailedPage PROVE ViewTyped'
<1>1. UNCHANGED <<server, foreign, asks, chosen, match, ctl, waits, del>> /\ load' \in LoadRecords
      /\ load'.at = "end" /\ call' = NoCall /\ call'.st = "no" /\ call' \in CallRecords
  BY NoCallIs DEF FailedPage
<1>2. /\ rv' \in [key : Maybe, rows : Seq(Row)] /\ (rv'.key = None => rv'.rows = <<>>)
      /\ rv'.key \in Maybe /\ rv'.rows \in Seq(Row)
  <2>1. CASE rv' = NoValue
    <3>1. rv' = [key |-> None, rows |-> <<>>] /\ None \in Maybe /\ <<>> \in Seq(Row)
      BY <2>1 DEF NoValue, Maybe
    <3> QED
      BY <3>1
  <2>2. CASE rv' = rv
    BY <2>2, ViewNow
  <2> QED
    BY <2>1, <2>2 DEF FailedPage
<1>3. cursor' \in CursorRecords /\ more' \in BOOLEAN
  BY ViewNow DEF FailedPage, ViewTyped, TypeOK
<1>4. calm' \in [ok : BOOLEAN, same : BOOLEAN, apart : BOOLEAN]
  <2>1. calm \in [ok : BOOLEAN, same : BOOLEAN, apart : BOOLEAN]
    BY DEF ViewTyped, TypeOK
  <2>2. [calm EXCEPT !.ok = FALSE] \in [ok : BOOLEAN, same : BOOLEAN, apart : BOOLEAN]
    BY <2>1
  <2> QED
    BY <2>1, <2>2 DEF FailedPage
<1>5. TypeOK'
  BY <1>1, <1>2, <1>3, <1>4 DEF ViewTyped, TypeOK, CursorRecords, LoadRecords
<1>6. CallTyped'
  BY <1>1, NoCallIs DEF CallTyped
<1>7. Bounded'
  <2>1. CASE UNCHANGED <<rv, cursor, more>>
    BY <1>1, <2>1 DEF ViewTyped, Bounded, Loading
  <2>2. CASE cursor'.pos = -1 /\ ~cursor'.done
    <3>1. -1 < N
      BY Basics
    <3> QED
      BY <1>1, <2>2, <3>1 DEF ViewTyped, Bounded
  <2> QED
    BY <2>1, <2>2 DEF FailedPage
<1>8. LoadIs'
  BY DEF FailedPage, ViewTyped, LoadIs, Loading
<1> QED
  BY <1>2, <1>5, <1>6, <1>7, <1>8 DEF ViewTyped

\* The chain is over.
Ended ==
  /\ load.at = "end" /\ load' \in LoadRecords /\ load'.at = "no" /\ ctl' \in CtlRecords
  /\ cursor.done => ~ctl'.paused
  /\ UNCHANGED <<server, foreign, asks, chosen, match, rv, more, cursor, call, waits, del, calm>>

LEMMA EndIs == ASSUME ViewTyped, End PROVE Ended
<1>1. /\ load.at = "end" /\ load' = [NoLoad EXCEPT !.all = load.all]
      /\ ctl' = [ctl EXCEPT !.paused = @ /\ ~cursor.done]
      /\ UNCHANGED <<server, foreign, asks, chosen, match, rv, more, cursor, call, waits, del, calm>>
  BY DEF End, others, shown
<1>2. load' \in LoadRecords /\ load'.at = "no"
  BY <1>1, ViewNow DEF NoLoad, LoadRecords
<1>3. ctl' \in CtlRecords /\ (cursor.done => ~ctl'.paused)
  BY <1>1, ViewNow DEF CtlRecords, CursorRecords
<1> QED
  BY <1>1, <1>2, <1>3 DEF Ended

LEMMA EndedTyped == ASSUME ViewTyped, Ended PROVE ViewTyped'
<1>1. UNCHANGED <<server, foreign, asks, chosen, match, rv, more, cursor, call, waits, del, calm>>
      /\ load' \in LoadRecords /\ load'.at = "no" /\ ctl' \in CtlRecords /\ load.at = "end"
  BY DEF Ended
<1>2. TypeOK'
  BY <1>1 DEF ViewTyped, TypeOK, CtlRecords, LoadRecords
<1>3. CallTyped'
  BY <1>1 DEF ViewTyped, CallTyped
<1>4. Bounded'
  BY <1>1 DEF Ended, ViewTyped, Bounded
<1>5. LoadIs'
  BY <1>1 DEF LoadIs, Loading
<1> QED
  BY <1>1, <1>2, <1>3, <1>4, <1>5, ViewNow DEF ViewTyped

\* The page and the chain go on.
LEMMA PauseTyped ==
  ASSUME ViewTyped, Pause
  PROVE  /\ ViewTyped' /\ Loading
         /\ UNCHANGED <<server, chosen, match, rv, more, cursor, load, call, waits, del, calm>>
<1>1. /\ Loading /\ Do /\ ctl' = [ctl EXCEPT !.cancelled = TRUE, !.paused = TRUE]
      /\ UNCHANGED <<server, foreign, chosen, match, rv, more, cursor, load, call, waits, del, calm>>
  BY DEF Pause, others, shown
<1>2. ctl' \in CtlRecords
  BY <1>1, ViewNow DEF CtlRecords
<1>3. TypeOK'
  BY <1>1, <1>2, Counted DEF ViewTyped, TypeOK, CtlRecords
<1>4. CallTyped' /\ LoadIs'
  BY <1>1 DEF ViewTyped, CallTyped, LoadIs, Loading
<1>5. Bounded'
  BY <1>1 DEF ViewTyped, Bounded, Loading
<1> QED
  BY <1>1, <1>3, <1>4, <1>5, ViewNow DEF ViewTyped

LEMMA TypeTyped ==
  ASSUME ViewTyped, NEW m \in Words, Type(m)
  PROVE  /\ ViewTyped' /\ calm' = [calm EXCEPT !.apart = @ /\ ~Loading]
         /\ UNCHANGED <<server, chosen, rv, more, cursor, ctl, load, call, waits, del>>
<1>1. /\ Do /\ match' = m /\ calm' = [calm EXCEPT !.apart = @ /\ ~Loading]
      /\ UNCHANGED <<server, foreign, chosen, rv, more, cursor, ctl, load, call, waits, del>>
  BY DEF Type, others, shown
<1>2. calm' \in [ok : BOOLEAN, same : BOOLEAN, apart : BOOLEAN]
  BY <1>1 DEF ViewTyped, TypeOK
<1>3. TypeOK'
  BY <1>1, <1>2, Counted DEF ViewTyped, TypeOK
<1>4. CallTyped' /\ Bounded' /\ LoadIs'
  BY <1>1 DEF ViewTyped, CallTyped, Bounded, LoadIs, Loading
<1> QED
  BY <1>1, <1>3, <1>4, ViewNow DEF ViewTyped

-----------------------------------------------------------------------------
(* Deletions and other clients. *)

DelRecords == [st : {"no", "asked", "done", "failed"}, what : {"row", "key"}, key : Maybe,
               row : Row \cup {NoRow}]

LEMMA NoDelIs == NoDel \in DelRecords /\ NoDel.st = "no" /\ NoDel.what = "row"
BY DEF NoDel, DelRecords, Maybe

LEMMA DelNow == ASSUME ViewTyped PROVE del \in DelRecords
BY DEF ViewTyped, TypeOK, DelRecords

\* What is not the deletion's or the history's stays.
LEMMA DelTyped ==
  ASSUME ViewTyped, del' \in DelRecords, asks' \in 0..MaxAsks,
         calm' \in [ok : BOOLEAN, same : BOOLEAN, apart : BOOLEAN],
         UNCHANGED <<server, foreign, chosen, match, rv, more, cursor, ctl, load, call, waits>>
  PROVE  ViewTyped'
<1>1. TypeOK'
  BY DEF ViewTyped, TypeOK, DelRecords
<1>2. CallTyped' /\ Bounded' /\ LoadIs'
  BY DEF ViewTyped, CallTyped, Bounded, LoadIs, Loading
<1> QED
  BY <1>1, <1>2, ViewNow DEF ViewTyped

RowDeletionBegins(row) ==
  /\ Visible /\ del.st = "no" /\ del' \in DelRecords /\ del'.st = "asked" /\ del'.what = "row"
  /\ del'.key = chosen /\ del'.row = row
  /\ calm' = [calm EXCEPT !.apart = @ /\ ~Loading /\ (cursor.done \/ IsSet(chosen))]
  /\ UNCHANGED <<server, foreign, chosen, match, rv, more, cursor, ctl, load, call, waits>>

LEMMA DeleteRowTyped ==
  ASSUME ViewTyped, NEW i \in DOMAIN rv.rows, DeleteRow(rv.rows[i])
  PROVE  ViewTyped' /\ RowDeletionBegins(rv.rows[i])
<1>1. /\ del' = [st |-> "asked", what |-> "row", key |-> chosen, row |-> rv.rows[i]]
      /\ Do /\ Visible /\ del.st = "no"
      /\ calm' = [calm EXCEPT !.apart = @ /\ ~Loading /\ (cursor.done \/ IsSet(chosen))]
      /\ UNCHANGED <<server, foreign, chosen, match, rv, more, cursor, ctl, load, call, waits>>
  BY DEF DeleteRow, others, shown
<1>2. rv.rows[i] \in Row
  BY ViewNow
<1>3. /\ del' \in DelRecords /\ del'.st = "asked" /\ del'.what = "row" /\ del'.key = chosen
      /\ del'.row = rv.rows[i]
  BY <1>1, <1>2, ViewNow DEF DelRecords
<1>4. calm' \in [ok : BOOLEAN, same : BOOLEAN, apart : BOOLEAN]
  BY <1>1 DEF ViewTyped, TypeOK
<1> QED
  BY <1>1, <1>3, <1>4, DelTyped, Counted DEF RowDeletionBegins

KeyDeletionBegins ==
  /\ del.st = "no" /\ del' \in DelRecords /\ del'.st = "asked" /\ del'.what = "key"
  /\ UNCHANGED <<server, foreign, chosen, match, rv, more, cursor, ctl, load, call, waits, calm>>

LEMMA DeleteKeyTyped ==
  ASSUME ViewTyped, NEW k \in Keys, DeleteKey(k)
  PROVE  ViewTyped' /\ KeyDeletionBegins
<1>1. /\ del' = [NoDel EXCEPT !.st = "asked", !.what = "key", !.key = k] /\ Do /\ del.st = "no"
      /\ UNCHANGED <<server, foreign, chosen, match, rv, more, cursor, ctl, load, call, waits, calm>>
  BY DEF DeleteKey, others, shown
<1>2. k \in Maybe
  BY DEF Maybe
<1>3. del' \in DelRecords /\ del'.st = "asked" /\ del'.what = "key"
  BY <1>1, <1>2, NoDelIs DEF DelRecords, NoDel
<1>4. calm' \in [ok : BOOLEAN, same : BOOLEAN, apart : BOOLEAN]
  BY <1>1 DEF ViewTyped, TypeOK
<1> QED
  BY <1>1, <1>3, <1>4, DelTyped, Counted DEF KeyDeletionBegins

DeletionFails ==
  /\ del' = NoDel /\ del.st = "failed"
  /\ UNCHANGED <<server, foreign, chosen, match, rv, more, cursor, ctl, load, call, waits, calm>>

LEMMA DelFailedTyped == ASSUME ViewTyped, DelFailed PROVE ViewTyped' /\ DeletionFails
<1>1. /\ del' = NoDel /\ del.st = "failed" /\ UNCHANGED asks
      /\ UNCHANGED <<server, foreign, chosen, match, rv, more, cursor, ctl, load, call, waits, calm>>
  BY DEF DelFailed, others, shown
<1>2. calm' \in [ok : BOOLEAN, same : BOOLEAN, apart : BOOLEAN] /\ asks' \in 0..MaxAsks
  BY <1>1 DEF ViewTyped, TypeOK
<1> QED
  BY <1>1, <1>2, DelTyped, NoDelIs DEF DeletionFails

\* A deletion that is taken up.
DeletionEnds ==
  /\ del.st = "done" /\ del' = NoDel
  /\ \/ del.what = "key" /\ rv' = NoValue /\ chosen' = None
     \/ del.what = "row" /\ rv' = [rv EXCEPT !.rows = Dropped(rv.rows, del.row)] /\ UNCHANGED chosen
  /\ UNCHANGED <<server, foreign, asks, match, more, cursor, ctl, load, call, waits, calm>>

LEMMA DeletedTyped == ASSUME ViewTyped, Deleted PROVE ViewTyped' /\ DeletionEnds
<1>1. /\ del.st = "done" /\ del' = NoDel
      /\ IF del.what = "key" THEN rv' = NoValue /\ chosen' = None
         ELSE rv' = [rv EXCEPT !.rows = Dropped(rv.rows, del.row)] /\ UNCHANGED chosen
      /\ UNCHANGED <<server, foreign, asks, match, more, cursor, ctl, load, call, waits, calm>>
  BY DEF Deleted, others
<1>2. del \in DelRecords /\ del.what \in {"row", "key"} /\ del.row \in Row \cup {NoRow}
  BY DelNow DEF DelRecords
<1>3. /\ rv' \in [key : Maybe, rows : Seq(Row)] /\ (rv'.key = None => rv'.rows = <<>>)
      /\ rv'.key \in Maybe /\ rv'.rows \in Seq(Row) /\ chosen' \in Maybe
  <2>1. CASE del.what = "key"
    <3>1. /\ rv' = [key |-> None, rows |-> <<>>] /\ None \in Maybe /\ <<>> \in Seq(Row)
          /\ chosen' = None
      BY <1>1, <2>1 DEF NoValue, Maybe
    <3> QED
      BY <3>1
  <2>2. CASE del.what # "key"
    <3>1. PICK d : d = Dropped(rv.rows, del.row)
      OBVIOUS
    <3>2. PICK g : \E shift \in BOOLEAN : DroppedBy(d, rv.rows, del.row, g, shift)
      BY <1>2, <3>1, DroppedIs, ViewNow
    <3>3. d \in Seq(Row) /\ g \in [DOMAIN d -> DOMAIN rv.rows]
      BY <3>2 DEF DroppedBy
    <3>4. ASSUME rv.rows = <<>> PROVE d = <<>>
      <4>1. DOMAIN rv.rows = {}
        BY <3>4
      <4>2. Len(d) \in Nat /\ DOMAIN d = 1..Len(d) /\ \A i \in DOMAIN d : g[i] \in DOMAIN rv.rows
        BY <3>3
      <4>3. Len(d) = 0
        BY <4>1, <4>2
      <4> QED
        BY <3>3, <4>3
    <3>5. rv' = [rv EXCEPT !.rows = d] /\ chosen' = chosen
      BY <1>1, <2>2, <3>1
    <3>6. rv'.key = rv.key /\ rv'.rows = d /\ rv' \in [key : Maybe, rows : Seq(Row)]
      BY <3>3, <3>5, ViewNow
    <3> QED
      BY <3>3, <3>4, <3>5, <3>6, ViewNow
  <2> QED
    BY <2>1, <2>2
<1>4. TypeOK'
  BY <1>1, <1>3, NoDelIs DEF ViewTyped, TypeOK, DelRecords
<1>5. CallTyped' /\ Bounded' /\ LoadIs'
  BY <1>1 DEF ViewTyped, CallTyped, Bounded, LoadIs, Loading
<1>6. DeletionEnds
  BY <1>1, <1>2 DEF DeletionEnds
<1> QED
  BY <1>3, <1>4, <1>5, <1>6 DEF ViewTyped

LEMMA KeptLen ==
  ASSUME NEW T, NEW q \in Seq(T), NEW S \in SUBSET DOMAIN q
  PROVE  Len(Kept(q, S)) \in Nat /\ Len(Kept(q, S)) <= Len(q)
<1>1. PICK m \in Nat : m = Len(q) /\ DOMAIN q = 1..m
  OBVIOUS
<1>2. IsFiniteSet(1..m) /\ Cardinality(1..m) = m
  BY FS_Interval
<1>3. S \in SUBSET (1..m)
  BY <1>1
<1>4. Cardinality(S) \in Nat /\ Cardinality(S) <= m
  BY <1>2, <1>3, FS_Subset, FS_CardinalityType
<1>5. PICK n \in Nat : n = Cardinality(S)
  BY <1>4
<1>6. Kept(q, S) \in Seq(T) /\ DOMAIN Kept(q, S) = 1..n
  BY <1>5, KeptIs DEF Kept
<1>7. Len(Kept(q, S)) = n
  BY <1>5, <1>6
<1> QED
  BY <1>1, <1>4, <1>5, <1>7

LEMMA RemovedIs ==
  ASSUME NEW T, NEW s \in Seq(T), NEW i \in 1..Len(s), NEW r, r = RemoveAt(s, i)
  PROVE  /\ r \in Seq(T) /\ Len(r) = Len(s) - 1
         /\ \A j \in 1..Len(r) : r[j] = IF j < i THEN s[j] ELSE s[j + 1]
<1>1. PICK n \in Nat : n = Len(s) /\ i \in 1..n /\ i - 1 \in 0..n /\ n - i \in 0..n
  OBVIOUS
<1>2. PICK a : a = SubSeq(s, 1, i - 1)
  OBVIOUS
<1>3. PICK b : b = SubSeq(s, i + 1, n)
  OBVIOUS
<1>4. a \in Seq(T) /\ Len(a) = i - 1 /\ \A j \in 1..i - 1 : a[j] = s[j]
  BY <1>1, <1>2
<1>5. b \in Seq(T) /\ Len(b) = n - i /\ \A j \in 1..n - i : b[j] = s[i + j]
  BY <1>1, <1>3
<1>6. r = a \o b
  BY <1>1, <1>2, <1>3 DEF RemoveAt
<1>7. r \in Seq(T) /\ Len(r) = n - 1
  BY <1>1, <1>4, <1>5, <1>6
<1>8. ASSUME NEW j \in 1..n - 1 PROVE r[j] = IF j < i THEN s[j] ELSE s[j + 1]
  <2>1. CASE j < i
    <3>1. j \in 1..i - 1
      BY <1>1, <2>1
    <3> QED
      BY <1>4, <1>5, <1>6, <2>1, <3>1
  <2>2. CASE ~(j < i)
    <3>1. PICK h \in Nat : h = j - (i - 1) /\ h \in 1..n - i /\ i + h = j + 1 /\ j = (i - 1) + h
      BY <1>1, <2>2
    <3>2. r[j] = b[h]
      BY <1>1, <1>4, <1>5, <1>6, <3>1
    <3> QED
      BY <1>5, <2>2, <3>1, <3>2
  <2> QED
    BY <2>1, <2>2
<1> QED
  BY <1>1, <1>7, <1>8

\* The server deletes, or does not.
RowServed(s, t) ==
  /\ t \in Seq(Fields) /\ Len(t) <= Len(s)
  /\ IF IsSet(del.key)
     THEN /\ \A i \in DOMAIN s : s[i] # del.row.field => \E j \in DOMAIN t : t[j] = s[i]
          /\ \A j \in DOMAIN t : t[j] # del.row.field /\ \E i \in DOMAIN s : t[j] = s[i]
     ELSE \E h \in 1..Len(s) :
            /\ ~IsSet(del.row.of) => h = del.row.at + 1
            /\ Len(t) = Len(s) - 1
            /\ \A j \in 1..Len(t) : t[j] = IF j < h THEN s[j] ELSE s[j + 1]

DeletionServed ==
  /\ del.st = "asked" /\ del' \in DelRecords
  /\ del'.what = del.what /\ del'.key = del.key /\ del'.row = del.row
  /\ \/ del'.st = "failed" /\ UNCHANGED server
     \/ /\ del'.st = "done" /\ del.what = "key"
        /\ server' = [server EXCEPT ![del.key] = <<>>]
     \/ /\ del'.st = "done" /\ del.what = "row"
        /\ server' = [server EXCEPT ![del.key] = Without(@, del.key, del.row)]
        /\ del.key \in Keys => RowServed(server[del.key], Without(server[del.key], del.key, del.row))
  /\ UNCHANGED <<foreign, asks, chosen, match, rv, more, cursor, ctl, load, call, waits, calm>>

LEMMA WithoutIs ==
  ASSUME ViewTyped, del.key \in Keys, del.row \in Row \cup {NoRow}, server[del.key] # <<>>,
         IsSet(del.key) \/ IsSet(del.row.of) \/ del.row.at < Len(server[del.key])
  PROVE  RowServed(server[del.key], Without(server[del.key], del.key, del.row))
<1>1. PICK s : s = server[del.key] /\ s \in Seq(Fields) /\ s # <<>>
  BY ViewNow
<1>2. PICK t : t = Without(s, del.key, del.row)
  OBVIOUS
<1>3. CASE IsSet(del.key)
  <2>1. PICK S : S = {i \in DOMAIN s : s[i] # del.row.field} /\ S \in SUBSET DOMAIN s
    OBVIOUS
  <2>2. t = Kept(s, S)
    BY <1>2, <1>3, <2>1 DEF Without
  <2>3. t \in Seq(Fields) /\ \E g : KeptAt(t, s, S, g)
    BY <1>1, <2>1, <2>2, KeptIs
  <2>4. PICK g : KeptAt(t, s, S, g)
    BY <2>3
  <2>5. Len(t) <= Len(s)
    BY <1>1, <2>1, <2>2, KeptLen
  <2>6. \A i \in DOMAIN s : s[i] # del.row.field => \E j \in DOMAIN t : t[j] = s[i]
    BY <2>1, <2>4 DEF KeptAt
  <2>7. \A j \in DOMAIN t : t[j] # del.row.field /\ \E i \in DOMAIN s : t[j] = s[i]
    BY <2>1, <2>4 DEF KeptAt
  <2> QED
    BY <1>1, <1>2, <1>3, <2>3, <2>5, <2>6, <2>7 DEF RowServed
<1>4. CASE ~IsSet(del.key)
  <2>1. PICK h : h = IF IsSet(del.row.of) THEN Len(s) ELSE del.row.at + 1
    OBVIOUS
  <2>2. t = RemoveAt(s, h)
    BY <1>2, <1>4, <2>1 DEF Without
  <2>3. Len(s) \in Nat /\ Len(s) # 0
    BY <1>1
  <2>4. del.row.at \in Nat
    BY Basics DEF Row, NoRow
  <2>5. h \in 1..Len(s)
    BY <1>1, <1>4, <2>1, <2>3, <2>4
  <2>6. /\ t \in Seq(Fields) /\ Len(t) = Len(s) - 1
        /\ \A j \in 1..Len(t) : t[j] = IF j < h THEN s[j] ELSE s[j + 1]
    BY <1>1, <2>2, <2>5, RemovedIs
  <2>7. Len(t) <= Len(s)
    BY <2>3, <2>6
  <2> QED
    BY <1>1, <1>2, <1>4, <2>1, <2>5, <2>6, <2>7 DEF RowServed
<1> QED
  BY <1>3, <1>4

LEMMA DelServes == ASSUME ViewTyped, DelServed PROVE DeletionServed
<1>1. del \in DelRecords /\ del.st = "asked"
      /\ UNCHANGED <<foreign, asks, chosen, match, rv, more, cursor, ctl, load, call, waits, calm>>
  BY DelNow DEF DelServed, shown
<1>2. ASSUME NEW st \in {"done", "failed"}, del' = [del EXCEPT !.st = st]
      PROVE  /\ del' \in DelRecords /\ del'.st = st /\ del'.what = del.what /\ del'.key = del.key
             /\ del'.row = del.row
  BY <1>1, <1>2 DEF DelRecords
<1>3. CASE del' = [del EXCEPT !.st = "failed"] /\ UNCHANGED server
  BY <1>1, <1>2, <1>3 DEF DeletionServed
<1>4. CASE /\ del.what = "key" /\ server' = [server EXCEPT ![del.key] = <<>>]
           /\ del' = [del EXCEPT !.st = "done"]
  BY <1>1, <1>2, <1>4 DEF DeletionServed
<1>5. CASE /\ del.what = "row" /\ server[del.key] # <<>>
           /\ IsSet(del.key) \/ IsSet(del.row.of) \/ del.row.at < Len(server[del.key])
           /\ server' = [server EXCEPT ![del.key] = Without(@, del.key, del.row)]
           /\ del' = [del EXCEPT !.st = "done"]
  <2>1. del.row \in Row \cup {NoRow}
    BY <1>1 DEF DelRecords
  <2>2. del.key \in Keys => RowServed(server[del.key], Without(server[del.key], del.key, del.row))
    BY <1>5, <2>1, WithoutIs
  <2> QED
    BY <1>1, <1>2, <1>5, <2>2 DEF DeletionServed
<1> QED
  BY <1>3, <1>4, <1>5 DEF DelServed

\* Another value of one key on the server.
LEMMA ServerTyped ==
  ASSUME ViewTyped, NEW k, NEW t, k \in Keys => t \in Seq(Fields) /\ Len(t) <= N,
         server' = [server EXCEPT ![k] = t], del' \in DelRecords, foreign' \in 0..MaxForeign,
         calm' \in [ok : BOOLEAN, same : BOOLEAN, apart : BOOLEAN],
         UNCHANGED <<asks, chosen, match, rv, more, cursor, ctl, load, call, waits>>
  PROVE  /\ ViewTyped' /\ server' \in [Keys -> Seq(Fields)]
         /\ \A h \in Keys : server'[h] = IF h = k THEN t ELSE server[h]
<1>1. server \in [Keys -> Seq(Fields)]
  BY ViewNow
<1>2. /\ server' \in [Keys -> Seq(Fields)]
      /\ \A h \in Keys : server'[h] = IF h = k THEN t ELSE server[h]
  BY <1>1
<1>3. TypeOK'
  BY <1>2 DEF ViewTyped, TypeOK, DelRecords
<1>4. CallTyped' /\ LoadIs'
  BY DEF ViewTyped, CallTyped, LoadIs, Loading
<1>5. Bounded'
  BY <1>2 DEF ViewTyped, Bounded, Loading
<1> QED
  BY <1>2, <1>3, <1>4, <1>5, ViewNow DEF ViewTyped

LEMMA DelServedTyped ==
  ASSUME ViewTyped, DeletionServed
  PROVE  /\ ViewTyped'
         /\ del'.st = "failed" => server' = server
         /\ del'.st = "done" => \A h \in Keys : server'[h] =
              IF h # del.key THEN server[h] ELSE IF del.what = "key" THEN <<>>
              ELSE Without(server[h], del.key, del.row)
<1>1. /\ foreign' \in 0..MaxForeign /\ calm' \in [ok : BOOLEAN, same : BOOLEAN, apart : BOOLEAN]
      /\ asks' \in 0..MaxAsks /\ del' \in DelRecords
      /\ UNCHANGED <<foreign, asks, chosen, match, rv, more, cursor, ctl, load, call, waits, calm>>
  BY DEF DeletionServed, ViewTyped, TypeOK
<1>2. CASE del'.st = "failed" /\ UNCHANGED server
  <2>1. TypeOK'
    BY <1>1, <1>2 DEF ViewTyped, TypeOK, DelRecords
  <2>2. CallTyped' /\ Bounded' /\ LoadIs'
    BY <1>1, <1>2 DEF ViewTyped, CallTyped, Bounded, LoadIs, Loading
  <2> QED
    BY <1>1, <1>2, <2>1, <2>2, ViewNow DEF ViewTyped
<1>3. CASE del'.st = "done" /\ del.what = "key" /\ server' = [server EXCEPT ![del.key] = <<>>]
  <2>1. <<>> \in Seq(Fields) /\ Len(<<>>) <= N
    BY Basics
  <2> QED
    BY <1>1, <1>3, <2>1, ServerTyped
<1>4. CASE /\ del'.st = "done" /\ del.what = "row"
           /\ server' = [server EXCEPT ![del.key] = Without(@, del.key, del.row)]
           /\ del.key \in Keys => RowServed(server[del.key], Without(server[del.key], del.key, del.row))
  <2>1. PICK t : t = Without(server[del.key], del.key, del.row)
    OBVIOUS
  <2>2. ASSUME del.key \in Keys PROVE t \in Seq(Fields) /\ Len(t) <= N
    <3>1. t \in Seq(Fields) /\ Len(t) <= Len(server[del.key])
      BY <1>4, <2>1, <2>2 DEF RowServed
    <3>2. server[del.key] \in Seq(Fields) /\ Len(server[del.key]) <= N
      BY <2>2, ViewNow DEF ViewTyped, Bounded
    <3> QED
      BY <3>1, <3>2, Basics
  <2>3. server' = [server EXCEPT ![del.key] = t]
    BY <1>4, <2>1
  <2>4. ViewTyped' /\ \A h \in Keys : server'[h] = IF h = del.key THEN t ELSE server[h]
    BY <1>1, <2>2, <2>3, ServerTyped
  <2> QED
    BY <1>4, <2>1, <2>4
<1> QED
  BY <1>2, <1>3, <1>4 DEF DeletionServed

OthersStep ==
  /\ \E k \in Keys : \A h \in Keys \ {k} : server'[h] = server[h]
  /\ chosen \in Keys /\ server'[chosen] # server[chosen] => ~calm'.same
  /\ calm'.ok = calm.ok /\ calm'.apart = calm.apart /\ (calm'.same => calm.same)
  /\ UNCHANGED <<asks, chosen, match, rv, more, cursor, ctl, load, call, waits, del>>

LEMMA OthersTyped ==
  ASSUME ViewTyped, NEW k \in Keys, NEW n \in 0..N, OtherChanges(k, [i \in 1..n |-> i])
  PROVE  ViewTyped' /\ OthersStep
<1>1. PICK t : t = [i \in 1..n |-> i]
  OBVIOUS
<1>2. /\ foreign < MaxForeign /\ foreign' = foreign + 1 /\ server' = [server EXCEPT ![k] = t]
      /\ calm' = [calm EXCEPT !.same = @ /\ k # chosen]
      /\ UNCHANGED <<asks, chosen, match, rv, more, cursor, ctl, load, call, waits, del>>
  BY <1>1 DEF OtherChanges, shown
<1>3. t \in Seq(Fields) /\ Len(t) <= N
  <2>1. n \in Nat /\ n <= N /\ \A i \in 1..n : i \in Fields
    BY Basics DEF Fields
  <2>2. t \in [1..n -> Fields]
    BY <1>1, <2>1
  <2>3. t \in Seq(Fields) /\ Len(t) = n
    BY <2>1, <2>2
  <2> QED
    BY <2>1, <2>3
<1>4. foreign' \in 0..MaxForeign
  BY <1>2, Basics DEF ViewTyped, TypeOK
<1>5. calm \in [ok : BOOLEAN, same : BOOLEAN, apart : BOOLEAN]
  BY DEF ViewTyped, TypeOK
<1>6. /\ calm' \in [ok : BOOLEAN, same : BOOLEAN, apart : BOOLEAN]
      /\ calm'.ok = calm.ok /\ calm'.apart = calm.apart
      /\ calm'.same = (calm.same /\ k # chosen)
  BY <1>2, <1>5
<1>7. /\ ViewTyped'
      /\ \A h \in Keys : server'[h] = IF h = k THEN t ELSE server[h]
  BY <1>2, <1>3, <1>4, <1>6, DelNow, ServerTyped
<1>8. OthersStep
  BY <1>2, <1>6, <1>7 DEF OthersStep
<1> QED
  BY <1>7, <1>8

-----------------------------------------------------------------------------
(* Every step is one of these. *)

Learned ==
  /\ load.at = "type" /\ load' \in LoadRecords /\ load'.at = "call" /\ load'.first = load.first
  /\ load'.goOn = load.goOn /\ AskedFor(call', FALSE, cursor, rv)
  /\ UNCHANGED <<match, server, foreign, asks, chosen, rv, more, cursor, ctl, waits, del, calm>>
Answers ==
  /\ Served /\ call.st = "asked"
  /\ UNCHANGED <<server, foreign, asks, chosen, match, rv, more, cursor, ctl, load, waits, del, calm>>
Paused ==
  Loading /\ UNCHANGED <<server, chosen, match, rv, more, cursor, load, call, waits, del, calm>>
Typed ==
  /\ calm' = [calm EXCEPT !.apart = @ /\ ~Loading]
  /\ UNCHANGED <<server, chosen, rv, more, cursor, ctl, load, call, waits, del>>

OneStep ==
  \/ Began \/ Interrupted \/ Learned \/ Answers \/ TakenUp \/ FailedPage \/ Ended \/ Paused \/ Typed
  \/ \E i \in DOMAIN rv.rows : RowDeletionBegins(rv.rows[i])
  \/ KeyDeletionBegins \/ DeletionServed \/ DeletionEnds \/ DeletionFails \/ OthersStep
  \/ UNCHANGED vars

LEMMA Steps == ASSUME ViewTyped, [Next]_vars PROVE ViewTyped' /\ OneStep
<1>1. CASE Chain
  <2>1. CASE TypeKnown
    <3>1. ViewTyped' /\ AskedFor(call', FALSE, cursor, rv)
      BY <2>1, TypeKnownTyped
    <3>2. /\ load.at = "type" /\ load' = [load EXCEPT !.at = "call"]
          /\ UNCHANGED <<match, server, foreign, asks, chosen, rv, more, cursor, ctl, waits, del, calm>>
      BY <2>1 DEF TypeKnown, others, shown
    <3>3. /\ load' \in LoadRecords /\ load'.at = "call" /\ load'.first = load.first
          /\ load'.goOn = load.goOn
      BY <3>2, ViewNow DEF LoadRecords
    <3> QED
      BY <3>1, <3>2, <3>3 DEF OneStep, Learned
  <2>2. CASE Serve
    <3>1. /\ call.st = "asked"
          /\ UNCHANGED <<server, foreign, asks, chosen, match, rv, more, cursor, ctl, load, waits, del, calm>>
      BY <2>2 DEF Serve, others, shown
    <3> QED
      BY <2>2, <3>1, ServeIs, ServeTyped DEF OneStep, Answers
  <2>3. CASE Arrived
    BY <2>3, TakeUp, TakenUpTyped DEF OneStep
  <2>4. CASE Failed
    BY <2>4, Fail, FailedTyped DEF OneStep
  <2>5. CASE End
    BY <2>5, EndIs, EndedTyped DEF OneStep
  <2>6. CASE \E w \in {"reset", "plain"} : WaitOver(w)
    BY <2>6, AskOrWait, BeganTyped, InterruptedTyped DEF OneStep, AsksOrWaits
  <2> QED
    BY <1>1, <2>1, <2>2, <2>3, <2>4, <2>5, <2>6 DEF Chain
<1>2. CASE Deletion
  <2>1. CASE DelServed
    BY <2>1, DelServes, DelServedTyped DEF OneStep
  <2>2. CASE Deleted
    BY <2>2, DeletedTyped DEF OneStep
  <2>3. CASE DelFailed
    BY <2>3, DelFailedTyped DEF OneStep
  <2> QED
    BY <1>2, <2>1, <2>2, <2>3 DEF Deletion
<1>3. CASE AsksOrWaits
  BY <1>3, AskOrWait, BeganTyped, InterruptedTyped DEF OneStep
<1>4. CASE Pause
  BY <1>4, PauseTyped DEF OneStep, Paused
<1>5. ASSUME NEW k \in Keys, DeleteKey(k) PROVE ViewTyped' /\ OneStep
  BY <1>5, DeleteKeyTyped DEF OneStep
<1>6. ASSUME NEW m \in Words, Type(m) PROVE ViewTyped' /\ OneStep
  BY <1>6, TypeTyped DEF OneStep, Typed
<1>7. ASSUME NEW i \in DOMAIN rv.rows, DeleteRow(rv.rows[i]) PROVE ViewTyped' /\ OneStep
  BY <1>7, DeleteRowTyped DEF OneStep
<1>8. ASSUME NEW k \in Keys, NEW n \in 0..N, OtherChanges(k, [i \in 1..n |-> i])
      PROVE  ViewTyped' /\ OneStep
  BY <1>8, OthersTyped DEF OneStep
<1>9. CASE UNCHANGED vars
  <2>1. UNCHANGED <<server, foreign, asks, chosen, match, rv, cursor, more, ctl, load, call, waits, del, calm>>
    BY <1>9 DEF vars
  <2>2. TypeOK' /\ CallTyped' /\ Bounded' /\ LoadIs'
    BY <2>1 DEF ViewTyped, TypeOK, CallTyped, Bounded, LoadIs, Loading
  <2> QED
    BY <1>9, <2>1, <2>2, ViewNow DEF OneStep, ViewTyped
<1>10. User => AsksOrWaits \/ Pause \/ (\E k \in Keys : DeleteKey(k)) \/ (\E m \in Words : Type(m))
               \/ \E i \in DOMAIN rv.rows : DeleteRow(rv.rows[i])
  BY DEF User, AsksOrWaits
<1> QED
  BY <1>1, <1>2, <1>3, <1>4, <1>5, <1>6, <1>7, <1>8, <1>9, <1>10 DEF Next

-----------------------------------------------------------------------------
(* The rows are the chosen key's. *)

LEMMA OnceStep == ASSUME ViewTyped, Once, OneStep PROVE Once'
<1>1. CASE rv' = rv
  BY <1>1 DEF Once
<1>2. CASE TakenUp
  <2>1. rv' = Value /\ call.st = "page"
    BY <1>2 DEF TakenUp
  <2>2. Apart(rv.rows) /\ Apart(call.rows) /\ rv.rows \in Seq(Row) /\ call.rows \in Seq(Row)
    BY <2>1, ViewNow DEF Once, Apart, ViewTyped, CallTyped, CallRecords
  <2>3. Apart(rv.rows \o Fresh(rv.rows, call.rows))
    <3>1. PICK p \in Seq(Row), q \in Seq(Row) : p = rv.rows /\ q = call.rows
      BY <2>2
    <3>2. PICK m : m = p \o Fresh(p, q)
      OBVIOUS
    <3>3. Apart(m)
      BY <2>2, <3>1, <3>2, MergedIs
    <3> QED
      BY <3>1, <3>2, <3>3
  <2>4. Apart(Value.rows)
    BY <2>1, <2>2, <2>3, ValueIs
  <2> QED
    BY <2>1, <2>4 DEF Once, Apart
<1>3. CASE rv' = NoValue
  <2>1. DOMAIN rv'.rows = {}
    BY <1>3 DEF NoValue
  <2> QED
    BY <2>1 DEF Once
<1>4. CASE rv' = [rv EXCEPT !.rows = Dropped(rv.rows, del.row)]
  <2>1. PICK d : d = Dropped(rv.rows, del.row)
    OBVIOUS
  <2>2. del.row \in Row \cup {NoRow} /\ rv.rows \in Seq(Row) /\ Apart(rv.rows)
    BY ViewNow, DelNow DEF DelRecords, Once, Apart
  <2>3. PICK g : \E shift \in BOOLEAN : DroppedBy(d, rv.rows, del.row, g, shift)
    BY <2>1, <2>2, DroppedIs
  <2>4. Apart(d)
    BY <2>2, <2>3, DroppedApart
  <2>5. rv'.rows = d
    BY <1>4, <2>1, ViewNow
  <2> QED
    BY <2>4, <2>5 DEF Once, Apart
<1>5. rv' = rv \/ TakenUp \/ rv' = NoValue \/ rv' = [rv EXCEPT !.rows = Dropped(rv.rows, del.row)]
  BY DEF OneStep, Began, Interrupted, Learned, Answers, FailedPage, Ended, Paused, Typed,
         RowDeletionBegins, KeyDeletionBegins, DeletionServed, DeletionEnds, DeletionFails,
         OthersStep, vars
<1> QED
  BY <1>1, <1>2, <1>3, <1>4, <1>5

LEMMA CurrentStays ==
  ASSUME Current, UNCHANGED <<chosen, rv, load, call, waits>>, calm'.ok => calm.ok
  PROVE  Current'
BY DEF Current, Waiting, Begun

LEMMA CurrentStep == ASSUME ViewTyped, Current, OneStep PROVE Current'
<1>1. CASE Began
  <2>1. PICK r \in Starts, c \in CtlRecords :
          /\ ~Loading /\ Begins(r, c) /\ UNCHANGED rv
          /\ r.goOn => waits' = waits /\ chosen' = chosen /\ chosen # None /\ rv.key # None
          /\ chosen' # chosen => c.detect /\ ~r.goOn
    BY <1>1 DEF Began
  <2>2. load.at = "no" /\ call.st = "no" /\ Begun
    BY <2>1 DEF Loading, ViewTyped, TypeOK, Begun
  <2>3. CASE load'.at = "type" /\ call' = call
    BY <2>2, <2>3 DEF Current, Begun
  <2>4. CASE load'.at = "call" /\ ~(c.detect /\ ~r.goOn) /\ AskedFor(call', r.goOn, cursor', rv)
    <3>1. chosen' = chosen /\ call'.key = chosen /\ load'.first
      BY <2>1, <2>4 DEF AskedFor, Begins
    <3>2. CASE r.goOn
      <4>1. calm'.ok = calm.ok
        BY <2>1, <3>2 DEF Begins, ViewTyped, TypeOK
      <4> QED
        BY <2>1, <2>2, <3>1, <3>2, <4>1 DEF Current, Waiting
    <3>3. CASE ~r.goOn
      <4>1. ~call'.goOn
        BY <2>4, <3>3 DEF AskedFor
      <4> QED
        BY <2>4, <3>1, <4>1 DEF Current, Begun
    <3> QED
      BY <3>2, <3>3
  <2> QED
    BY <2>1, <2>3, <2>4 DEF Begins
<1>2. CASE Interrupted
  BY <1>2 DEF Interrupted, Current
<1>3. CASE Learned
  <2>1. call'.key = chosen /\ chosen' = chosen /\ ~call'.goOn /\ load'.first /\ load'.at = "call"
    BY <1>3 DEF Learned, AskedFor, ViewTyped, LoadIs
  <2> QED
    BY <2>1 DEF Current, Begun
<1>4. CASE Answers
  <2>1. call'.key = call.key /\ call'.goOn = call.goOn /\ call.st # "no"
    BY <1>4 DEF Answers, Served, SamePage, Answered
  <2>2. UNCHANGED <<chosen, rv, load, waits, calm>>
    BY <1>4 DEF Answers
  <2> QED
    BY <2>1, <2>2 DEF Current, Waiting, Begun
<1>5. CASE TakenUp
  <2>1. /\ rv' = Value /\ call.st = "page" /\ load.at = "call" /\ UNCHANGED <<chosen, waits, calm>>
        /\ call' = NoCall \/ call'.key = chosen
    BY <1>5 DEF TakenUp, AskedFor
  <2>2. SUFFICES ASSUME calm.ok, ~Waiting, chosen # None
                 PROVE  \A i \in DOMAIN rv'.rows : rv'.rows[i].of = chosen
    BY <2>1, NoCallIs DEF Current, Waiting
  <2>3. call.key = chosen /\ \A i \in DOMAIN call.rows : call.rows[i].of = chosen
    BY <2>1, <2>2 DEF Current, ViewTyped, CallTyped
  <2>4. CASE Merges
    <3>1. \A i \in DOMAIN rv.rows : rv.rows[i].of = chosen
      BY <2>1, <2>2, <2>4 DEF Current, Begun, Merges
    <3>2. rv'.rows = rv.rows \o Fresh(rv.rows, call.rows)
      BY <2>1, <2>4, ValueIs
    <3>3. rv.rows \in Seq(Row) /\ call.rows \in Seq(Row)
      BY ViewNow DEF CallRecords
    <3>4. \A i \in DOMAIN rv'.rows : (\E h \in DOMAIN rv.rows : rv'.rows[i] = rv.rows[h])
                                  \/ (\E h \in DOMAIN call.rows : rv'.rows[i] = call.rows[h])
      <4>1. PICK p \in Seq(Row), q \in Seq(Row) : p = rv.rows /\ q = call.rows
        BY <3>3
      <4>2. PICK m : m = p \o Fresh(p, q)
        OBVIOUS
      <4>3. \A i \in DOMAIN m : (\E h \in DOMAIN p : m[i] = p[h]) \/ (\E h \in DOMAIN q : m[i] = q[h])
        <5>1. MergeOf(m, p, q)
          BY <4>2, MergedIs
        <5> QED
          BY <5>1 DEF MergeOf
      <4>4. m = rv'.rows
        BY <3>2, <4>1, <4>2
      <4> QED
        BY <4>1, <4>3, <4>4
    <3> QED
      BY <2>3, <3>1, <3>4
  <2>5. CASE ~Merges /\ load.first
    BY <2>1, <2>3, <2>5, ValueIs
  <2>6. CASE ~Merges /\ ~load.first
    <3>1. rv' = rv
      BY <2>1, <2>6, ValueIs
    <3> QED
      BY <2>1, <2>2, <2>6, <3>1 DEF Current, Begun
  <2> QED
    BY <2>4, <2>5, <2>6
<1>6. CASE FailedPage
  <2>1. call' = NoCall /\ UNCHANGED <<chosen, waits>>
    BY <1>6 DEF FailedPage
  <2>2. CASE rv' = NoValue
    <3>1. DOMAIN rv'.rows = {}
      BY <2>2 DEF NoValue
    <3> QED
      BY <2>1, <3>1, NoCallIs DEF Current
  <2>3. CASE calm' = [calm EXCEPT !.ok = FALSE]
    <3>1. ~calm'.ok
      BY <2>3 DEF ViewTyped, TypeOK
    <3> QED
      BY <3>1 DEF Current
  <2> QED
    BY <1>6, <2>2, <2>3 DEF FailedPage
<1>7. CASE Ended
  BY <1>7 DEF Ended, Current, Waiting, Begun
<1>8. CASE \/ Paused \/ Typed \/ \E i \in DOMAIN rv.rows : RowDeletionBegins(rv.rows[i])
           \/ KeyDeletionBegins \/ DeletionServed \/ DeletionFails \/ OthersStep \/ UNCHANGED vars
  <2>1. UNCHANGED <<chosen, rv, load, call, waits>>
    BY <1>8 DEF Paused, Typed, RowDeletionBegins, KeyDeletionBegins, DeletionServed, DeletionFails,
                OthersStep, vars
  <2>2. calm \in [ok : BOOLEAN, same : BOOLEAN, apart : BOOLEAN]
    BY DEF ViewTyped, TypeOK
  <2>3. \A b : [calm EXCEPT !.apart = b].ok = calm.ok
    BY <2>2
  <2>4. calm'.ok = calm.ok
    BY <1>8, <2>3 DEF Paused, Typed, RowDeletionBegins, KeyDeletionBegins, DeletionServed,
                DeletionFails, OthersStep, vars
  <2> QED
    BY <2>1, <2>4, CurrentStays
<1>9. CASE DeletionEnds
  <2>1. UNCHANGED <<call, load, waits, calm>>
    BY <1>9 DEF DeletionEnds
  <2>2. CASE chosen' = None
    BY <2>2 DEF Current
  <2>3. CASE rv' = [rv EXCEPT !.rows = Dropped(rv.rows, del.row)] /\ UNCHANGED chosen
    <3>1. PICK d : d = Dropped(rv.rows, del.row)
      OBVIOUS
    <3>2. del.row \in Row \cup {NoRow} /\ rv.rows \in Seq(Row)
      BY ViewNow, DelNow DEF DelRecords
    <3>3. PICK g : \E shift \in BOOLEAN : DroppedBy(d, rv.rows, del.row, g, shift)
      BY <3>1, <3>2, DroppedIs
    <3>4. PICK shift \in BOOLEAN : DroppedBy(d, rv.rows, del.row, g, shift)
      BY <3>3
    <3>5. ASSUME NEW j \in DOMAIN d PROVE g[j] \in DOMAIN rv.rows /\ d[j].of = rv.rows[g[j]].of
      <4>1. g[j] \in DOMAIN rv.rows /\ rv.rows[g[j]] \in Row
            /\ d[j] = IF shift THEN Moved(rv.rows[g[j]], del.row) ELSE rv.rows[g[j]]
        BY <3>2, <3>4 DEF DroppedBy
      <4> QED
        BY <3>2, <4>1, MovedIs
    <3>6. rv'.rows = d
      BY <2>3, <3>1, ViewNow
    <3> QED
      BY <2>1, <2>3, <3>5, <3>6 DEF Current, Waiting, Begun
  <2> QED
    BY <1>9, <2>2, <2>3 DEF DeletionEnds
<1> QED
  BY <1>1, <1>2, <1>3, <1>4, <1>5, <1>6, <1>7, <1>8, <1>9 DEF OneStep

\* At the start nothing is chosen or shown, and nothing loads.
LEMMA ShowsStarts == ASSUME Init PROVE ShowsInv
<1>1. /\ server = [k \in Keys |-> [i \in 1..N |-> i]]
      /\ foreign = 0 /\ asks = 0 /\ chosen = None /\ match = "all" /\ more = FALSE
      /\ rv = [key |-> None, rows |-> <<>>]
      /\ cursor = [pos |-> -1, done |-> FALSE, word |-> "all"]
      /\ ctl = [paused |-> FALSE, cancelled |-> FALSE, detect |-> FALSE]
      /\ load = NoLoad /\ call = NoCall /\ waits = [reset |-> 0, plain |-> 0] /\ del = NoDel
      /\ calm = [ok |-> TRUE, same |-> TRUE, apart |-> TRUE]
  BY DEF Init, NoValue, NoCursor
<1>2. PICK f : f = [i \in 1..N |-> i]
  OBVIOUS
<1>3. f \in Seq(Fields) /\ Len(f) = N
  BY <1>2, Basics DEF Fields
<1>4. server \in [Keys -> Seq(Fields)] /\ \A k \in Keys : Len(server[k]) <= N
  <2>1. server = [k \in Keys |-> f]
    BY <1>1, <1>2
  <2> QED
    BY <1>3, <2>1, Basics
<1>5. <<>> \in Seq(Row) /\ None \in Maybe /\ "all" \in Words /\ -1 \in -1..N /\ -1 < N
  BY Basics DEF Maybe, Words
<1>6. rv \in [key : Maybe, rows : Seq(Row)] /\ DOMAIN rv.rows = {}
  BY <1>1, <1>5
<1>7. load \in LoadRecords /\ load.at = "no" /\ ~load.all
  BY <1>1 DEF NoLoad, LoadRecords
<1>8. call = NoCall /\ call \in CallRecords /\ call.st = "no" /\ ~call.goOn /\ call.pos = 0
  BY <1>1, NoCallIs
<1>9. del \in DelRecords
  BY <1>1, NoDelIs
<1>10. foreign \in 0..MaxForeign /\ asks \in 0..MaxAsks
  BY <1>1, Basics
<1>11. TypeOK
  BY <1>1, <1>4, <1>5, <1>6, <1>7, <1>8, <1>9, <1>10 DEF TypeOK, LoadRecords, DelRecords
<1>12. CallTyped /\ Bounded /\ LoadIs
  BY <1>1, <1>4, <1>5, <1>7, <1>8 DEF CallTyped, Bounded, LoadIs, Loading
<1>13. Current /\ Once
  BY <1>1, <1>6, <1>8 DEF Current, Once
<1> QED
  BY <1>6, <1>11, <1>12, <1>13 DEF ShowsInv, ViewTyped

LEMMA ShowsStep == ASSUME ShowsInv, [Next]_vars PROVE ShowsInv'
<1>1. ViewTyped' /\ OneStep
  BY Steps DEF ShowsInv
<1> QED
  BY <1>1, OnceStep, CurrentStep DEF ShowsInv

LEMMA ShowsHolds == ASSUME ShowsInv PROVE ShowsChosen
<1>1. ASSUME Idle, Visible, calm.ok PROVE \A i \in DOMAIN rv.rows : rv.rows[i].of = chosen
  <2>1. ~Waiting /\ Begun /\ chosen # None
    BY <1>1 DEF Idle, Visible, Waiting, Begun, Loading
  <2> QED
    BY <1>1, <2>1 DEF ShowsInv, Current
<1> QED
  BY <1>1 DEF ShowsChosen, OfChosen, ShowsInv, ViewTyped

\* Whatever was chosen, deleted, restarted and answered in between: once nothing loads, the
\* rows shown are the chosen key's, unless the last load failed, and no field and no position
\* has two rows (refreshKey, fieldScan and removeScannedFieldRow of RedisValue/index.vue).
THEOREM ValueShowsChosen == Spec => []ShowsChosen
<1>1. Init => ShowsInv
  BY ShowsStarts
<1>2. ShowsInv /\ [Next]_vars => ShowsInv'
  BY ShowsStep
<1>3. ShowsInv => ShowsChosen
  BY ShowsHolds
<1> QED
  BY <1>1, <1>2, <1>3, PTL DEF Spec

-----------------------------------------------------------------------------
(* The value is complete. *)

\* What matters of a step at a time: neither the view nor the key's fields change.
Unmoved ==
  /\ UNCHANGED <<chosen, rv, cursor, more, load, call>>
  /\ Steady' => Steady /\ server'[chosen] = server[chosen]

LEMMA UnmovedStays ==
  ASSUME SteadyInv, Unmoved, RowGoing', match' = match \/ call.st = "no",
         Steady' => Left' = Left /\ (Leaving => Leaving')
  PROVE  SteadyInv'
<1>1. ValueIsOf' /\ PageEnds'
  BY DEF Unmoved, SteadyInv, ValueIsOf, PageEnds, Begun
<1>2. WordsFit'
  BY DEF Unmoved, SteadyInv, WordsFit
<1>3. PageFits'
  BY DEF Unmoved, SteadyInv, PageFits, RowFits
<1>4. RowsFit'
  BY DEF Unmoved, SteadyInv, RowsFit, RowFits, Passed, At, Begun
<1> QED
  BY <1>1, <1>2, <1>3, <1>4 DEF SteadyInv

\* While something loads, no row is being deleted.
LEMMA NothingGoing == ASSUME SteadyInv, Steady, Loading PROVE del.st = "no" \/ del.what # "row"
BY DEF SteadyInv, RowGoing

LEMMA NoLoadNoCall == ASSUME ViewTyped PROVE (call.st = "no") = (load.at # "call")
BY DEF ViewTyped, TypeOK

LEMMA CalmIs ==
  ASSUME ViewTyped, NEW b \in BOOLEAN
  PROVE  /\ [calm EXCEPT !.apart = b] = [ok |-> calm.ok, same |-> calm.same, apart |-> b]
         /\ calm = [ok |-> calm.ok, same |-> calm.same, apart |-> calm.apart]
         /\ calm.ok \in BOOLEAN /\ calm.same \in BOOLEAN /\ calm.apart \in BOOLEAN
<1>1. calm \in [ok : BOOLEAN, same : BOOLEAN, apart : BOOLEAN]
  BY DEF ViewTyped, TypeOK
<1> QED
  BY <1>1

LEMMA BeganSteady == ASSUME ViewTyped, SteadyInv, Began PROVE SteadyInv'
<1>1. PICK r \in Starts, c \in CtlRecords :
        /\ ~Loading /\ Begins(r, c) /\ UNCHANGED <<server, foreign, rv, more, del>>
        /\ r.goOn => waits' = waits /\ chosen' = chosen /\ chosen # None /\ rv.key # None
        /\ chosen' # chosen => c.detect /\ ~r.goOn
  BY DEF Began
<1>2. /\ call.st = "no" /\ Begun /\ r.goOn \in BOOLEAN
      /\ load'.first /\ load'.goOn = r.goOn /\ load'.at \in {"type", "call"}
      /\ load'.at = "type" => call' = call
      /\ load'.at = "call" => AskedFor(call', r.goOn, cursor', rv)
      /\ chosen' # chosen => load'.at = "type"
  BY <1>1, StartIs, NoLoadNoCall DEF Begins, Begun, Loading
<1>3. call'.st \in {"no", "asked"} /\ (call'.st # "no" => load'.at = "call")
      /\ (load'.at = "call" /\ call'.goOn => r.goOn)
  BY <1>2 DEF AskedFor
<1>4. ASSUME Steady' PROVE del.st = "no" /\ del'.st = "no"
  <2>1. calm'.apart
    BY <1>4 DEF Steady
  <2>2. CASE r.goOn
    <3>1. calm' = [calm EXCEPT !.apart = @ /\ del.st = "no"]
      BY <1>1, <2>2 DEF Begins
    <3>2. PICK b \in BOOLEAN : b = (calm.apart /\ del.st = "no")
      OBVIOUS
    <3>3. calm' = [calm EXCEPT !.apart = b]
      BY <3>1, <3>2
    <3>4. calm'.apart = b
      BY <3>3, CalmIs
    <3> QED
      BY <1>1, <2>1, <3>2, <3>4
  <2>3. CASE ~r.goOn
    <3>1. PICK b \in BOOLEAN : b = (del.st = "no")
      OBVIOUS
    <3>2. calm' = [ok |-> TRUE, same |-> TRUE, apart |-> b]
      BY <1>1, <2>3, <3>1 DEF Begins
    <3> QED
      BY <1>1, <2>1, <3>1, <3>2
  <2> QED
    BY <1>2, <2>2, <2>3
<1>5. ASSUME Steady', r.goOn PROVE Steady /\ rv.key = chosen /\ chosen' = chosen /\ cursor' = cursor
  <2>1. calm' = [calm EXCEPT !.apart = @ /\ del.st = "no"] /\ cursor' = cursor
    BY <1>1, <1>5 DEF Begins
  <2>2. PICK b \in BOOLEAN : b = (calm.apart /\ del.st = "no")
    OBVIOUS
  <2>3. calm' = [calm EXCEPT !.apart = b]
    BY <2>1, <2>2
  <2>4. calm = [ok |-> TRUE, same |-> TRUE, apart |-> TRUE]
    <3>1. [ok |-> calm.ok, same |-> calm.same, apart |-> b] = [ok |-> TRUE, same |-> TRUE, apart |-> TRUE]
      BY <1>5, <2>3, CalmIs DEF Steady
    <3>2. calm.ok = TRUE /\ calm.same = TRUE /\ b = TRUE
      BY <3>1
    <3>3. calm.apart = TRUE
      BY <2>2, <3>2, CalmIs
    <3> QED
      BY <3>2, <3>3, CalmIs
  <2>5. Steady
    BY <1>1, <1>5, <2>4 DEF Steady, Waiting
  <2> QED
    BY <1>1, <1>2, <1>5, <2>1, <2>5 DEF SteadyInv, ValueIsOf
<1>6. ValueIsOf'
  <2> SUFFICES ASSUME Steady'
               PROVE  /\ Begun' => rv'.key \in {chosen', None}
                      /\ load'.at = "call" /\ (load'.goOn \/ call'.goOn \/ ~load'.first) => rv'.key = chosen'
    BY DEF ValueIsOf
  <2>1. Begun' => load'.at = "call" /\ call'.goOn
    BY <1>2 DEF Begun
  <2> QED
    BY <1>1, <1>2, <1>3, <1>5, <2>1
<1>7. WordsFit'
  <2> SUFFICES ASSUME Steady', call'.st # "no"
               PROVE  /\ call'.word \in {"all", match'}
                      /\ load'.goOn => call'.word = IF IsSet(chosen') THEN match' ELSE "all"
    BY <1>2 DEF WordsFit
  <2>1. call'.word = IF rv.key # None /\ IsSet(rv.key) THEN match' ELSE "all"
    BY <1>2, <1>3 DEF AskedFor
  <2>2. load'.goOn => rv.key = chosen' /\ rv.key # None
    BY <1>1, <1>2, <1>5
  <2> QED
    BY <2>1, <2>2
<1>8. RowGoing'
  BY <1>4 DEF RowGoing
<1>9. PageFits' /\ PageEnds'
  BY <1>3 DEF PageFits, PageEnds
<1>10. RowsFit'
  <2> SUFFICES ASSUME Steady', Begun', rv'.key # None, ~Leaving' PROVE RowsFit'
    BY DEF RowsFit
  <2>1. load'.at = "call" /\ r.goOn
    BY <1>2, <1>3 DEF Begun
  <2>2. Steady /\ chosen' = chosen /\ cursor' = cursor /\ rv' = rv /\ server' = server /\ del' = del
    BY <1>1, <1>5, <2>1
  <2>3. ~Leaving /\ Left = rv.rows /\ Left' = rv.rows
    BY <1>4, <2>2 DEF Leaving, Left
  <2>4. RowsFit
    BY DEF SteadyInv
  <2>5. Begun /\ rv.key # None
    BY <1>2, <2>2
  <2> QED
    BY <2>1, <2>2, <2>3, <2>4, <2>5 DEF RowsFit, RowFits, Passed, At
<1> QED
  BY <1>6, <1>7, <1>8, <1>9, <1>10 DEF SteadyInv

LEMMA InterruptedSteady == ASSUME SteadyInv, Interrupted PROVE SteadyInv'
<1>1. ~Steady' /\ call' = call
  BY DEF Interrupted, Steady
<1> QED
  BY <1>1 DEF SteadyInv, ValueIsOf, WordsFit, RowGoing, PageFits, PageEnds, RowsFit

LEMMA LearnedSteady == ASSUME ViewTyped, SteadyInv, Learned PROVE SteadyInv'
<1>1. /\ load.at = "type" /\ load.first /\ ~load.goOn
      /\ load'.at = "call" /\ load'.first /\ ~load'.goOn
      /\ call'.st = "asked" /\ ~call'.goOn /\ call'.word \in {"all", match'}
      /\ UNCHANGED <<chosen, rv, waits, calm, del>>
  BY DEF Learned, AskedFor, ViewTyped, LoadIs
<1>2. Steady' = Steady
  BY <1>1 DEF Steady, Waiting
<1>3. ASSUME Steady PROVE del.st = "no" \/ del.what # "row"
  BY <1>1, <1>3, NothingGoing DEF Loading
<1>4. ~Begun'
  BY <1>1 DEF Begun
<1> QED
  BY <1>1, <1>2, <1>3, <1>4
     DEF SteadyInv, ValueIsOf, WordsFit, RowGoing, PageFits, PageEnds, RowsFit

LEMMA AnswersSteady == ASSUME ViewTyped, Current, SteadyInv, Answers PROVE SteadyInv'
<1>1. /\ call.st = "asked" /\ call'.goOn = call.goOn /\ call'.word = call.word /\ call'.st # "no"
      /\ call'.key = call.key
      /\ UNCHANGED <<server, chosen, match, rv, cursor, more, load, waits, del, calm>>
  BY DEF Answers, Served, SamePage, Answered
<1>2. Steady' = Steady /\ Begun' = Begun /\ Leaving' = Leaving /\ Left' = Left
  BY <1>1 DEF Steady, Waiting, Begun, Leaving, Left, Dropped
<1>3. ValueIsOf' /\ WordsFit' /\ RowGoing'
  BY <1>1, <1>2 DEF SteadyInv, ValueIsOf, WordsFit, RowGoing, Loading
<1>4. RowsFit'
  BY <1>1, <1>2 DEF SteadyInv, RowsFit, RowFits, Passed, At
<1>5. CASE call'.st # "page"
  BY <1>3, <1>4, <1>5 DEF SteadyInv, PageFits, PageEnds
<1>6. CASE call'.st = "page"
  <2>1. call.key \in Keys /\ Answered(call', server[call.key])
    BY <1>6 DEF Answers, Served
  <2>2. PICK s : s = server[call.key]
    OBVIOUS
  <2>3. IF IsSet(call'.key) THEN SetPage(call', s) ELSE ListPage(call', s)
    BY <2>1, <2>2 DEF Answered
  <2>4. PageEnds'
    BY <2>3 DEF PageEnds, SetPage, ListPage
  <2>5. ASSUME Steady PROVE call.key = chosen
    BY <1>1, <2>5 DEF Current, Steady
  <2>6. ASSUME Steady
        PROVE  /\ \A i \in DOMAIN call'.rows : RowFits(call'.rows[i], s)
               /\ IsSet(chosen) => \A i \in DOMAIN s : s[i] = call'.pos + 1 /\ Matches(call'.word, s[i])
                                                       => HasRow(call'.rows, s[i])
               /\ ~IsSet(chosen) => /\ call'.pos + 1 \in DOMAIN s => HasRow(call'.rows, call'.pos)
                                    /\ call'.done => call'.pos + 1 >= Len(s)
    BY <1>1, <2>3, <2>5, <2>6 DEF SetPage, ListPage, RowFits
  <2>7. PageFits'
    BY <1>1, <1>2, <2>2, <2>5, <2>6 DEF PageFits, RowFits
  <2> QED
    BY <1>3, <1>4, <2>4, <2>7 DEF SteadyInv
<1> QED
  BY <1>5, <1>6

\* The value once a page of the key's fields s is there: it is the page, or has its rows too, or
\* the page has none and stays away.
LEMMA TakenUpRows ==
  ASSUME ViewTyped, SteadyInv, TakenUp, Steady, call.key = chosen, ~Leaving, NEW s, s = server[chosen]
  PROVE  /\ \A i \in DOMAIN rv'.rows : RowFits(rv'.rows[i], s)
         /\ \A i \in DOMAIN s : Passed(s, i)' /\ Matches(cursor'.word, s[i]) => HasRow(rv'.rows, At(s, i))
<1>1. /\ rv' = Value /\ call.st = "page" /\ load.at = "call" /\ call.key = chosen
      /\ chosen' = chosen
      /\ cursor'.pos = call.next /\ cursor'.done = call.done /\ cursor'.word = call.word
  BY DEF TakenUp
<1>2. PICK v : v = Value /\ rv' = v
  BY <1>1
<1>3. /\ rv.rows \in Seq(Row) /\ call.rows \in Seq(Row) /\ chosen \in Keys /\ chosen # None
      /\ s \in Seq(Fields) /\ Len(s) <= N /\ Len(s) \in Nat /\ DOMAIN s = 1..Len(s)
      /\ call.pos \in 0..N - 1 /\ call.next \in 0..N /\ call.done \in BOOLEAN
      /\ cursor.pos \in -1..N
  <2>1. chosen \in Keys /\ chosen # None
    BY Basics, ViewNow DEF Maybe, Steady
  <2>2. s \in Seq(Fields) /\ Len(s) <= N
    BY <2>1, ViewNow DEF ViewTyped, Bounded
  <2>3. Len(s) \in Nat /\ DOMAIN s = 1..Len(s)
    BY <2>2
  <2> QED
    BY <2>1, <2>2, <2>3, ViewNow DEF CallRecords, CursorRecords
<1>4. PICK n \in Nat, pos \in Nat, next \in Nat :
        n = N /\ pos = call.pos /\ next = call.next /\ pos < n /\ n # 0
  <2>1. N \in Nat /\ call.pos \in Nat /\ call.next \in Nat /\ call.pos < N /\ N # 0
    BY <1>3, Basics
  <2> QED
    BY <2>1
<1>5. \A i \in DOMAIN s : s[i] \in Nat /\ s[i] >= 1 /\ s[i] <= n /\ i \in Nat /\ i >= 1
  BY <1>3, <1>4 DEF Fields
\* What passes with the page, and what it has.
<1>6. /\ \A i \in DOMAIN call.rows : RowFits(call.rows[i], s)
      /\ \A i \in DOMAIN s : (IF IsSet(chosen) THEN s[i] ELSE i) = pos + 1 /\ Matches(call.word, s[i])
           => HasRow(call.rows, At(s, i))
  <2>1. PageFits
    BY DEF SteadyInv
  <2>2. CASE IsSet(chosen)
    BY <1>1, <1>4, <2>1, <2>2 DEF PageFits, At
  <2>3. CASE ~IsSet(chosen)
    <3>1. pos + 1 \in DOMAIN s => HasRow(call.rows, pos)
      BY <1>1, <1>4, <2>1, <2>3 DEF PageFits
    <3>2. \A i \in DOMAIN s : i = pos + 1 => At(s, i) = pos
      BY <1>4, <2>3 DEF At
    <3> QED
      BY <1>1, <2>1, <2>3, <3>1, <3>2 DEF PageFits
  <2> QED
    BY <2>2, <2>3
<1>7. ASSUME NEW i \in DOMAIN s, Passed(s, i)' PROVE (IF IsSet(chosen) THEN s[i] ELSE i) <= pos + 1
  <2>1. call.done \/ (IF IsSet(chosen) THEN s[i] ELSE i) <= next
    BY <1>1, <1>4, <1>7 DEF Passed
  <2>2. PageEnds /\ PageFits
    BY DEF SteadyInv
  <2>3. IF IsSet(chosen) THEN next = pos + 1 /\ (call.done => next = n)
        ELSE next <= pos + 1 /\ (call.done => pos + 1 >= Len(s))
    BY <1>1, <1>4, <2>2 DEF PageEnds, PageFits
  <2>4. s[i] <= n /\ i <= Len(s) /\ s[i] \in Nat /\ i \in Nat
    BY <1>3, <1>5
  <2> QED
    BY <1>3, <1>4, <2>1, <2>3, <2>4
\* What had passed before is shown.
<1>8. ASSUME call.goOn
      PROVE  /\ \A i \in DOMAIN rv.rows : RowFits(rv.rows[i], s)
             /\ \A i \in DOMAIN s : (IF IsSet(chosen) THEN s[i] ELSE i) <= pos /\ Matches(call.word, s[i])
                  => HasRow(rv.rows, At(s, i))
  <2>1. Begun /\ rv.key = chosen /\ Left = rv.rows
    <3>1. rv.key = chosen
      BY <1>1, <1>8 DEF SteadyInv, ValueIsOf
    <3>2. del.st = "no" \/ del.what # "row"
      BY <1>1, NothingGoing DEF Loading
    <3> QED
      BY <1>1, <1>8, <3>1, <3>2 DEF Begun, Left
  <2>2. /\ \A i \in DOMAIN rv.rows : RowFits(rv.rows[i], s)
        /\ \A i \in DOMAIN s : Passed(s, i) /\ Matches(cursor.word, s[i]) => HasRow(rv.rows, At(s, i))
    BY <1>3, <2>1 DEF SteadyInv, RowsFit
  <2>3. call.word = cursor.word /\ pos = IF cursor.pos = -1 THEN 0 ELSE cursor.pos
    BY <1>4, <1>8 DEF ViewTyped, CallTyped
  <2>4. ASSUME NEW i \in DOMAIN s, (IF IsSet(chosen) THEN s[i] ELSE i) <= pos PROVE Passed(s, i)
    <3>1. s[i] >= 1 /\ i >= 1 /\ s[i] \in Nat /\ i \in Nat
      BY <1>5
    <3>2. cursor.pos = pos
      BY <1>4, <2>3, <2>4, <3>1
    <3> QED
      BY <2>4, <3>2 DEF Passed
  <2> QED
    BY <2>2, <2>3, <2>4
<1>9. ~call.goOn => pos = 0
  BY <1>4 DEF ViewTyped, CallTyped
<1>10. ASSUME NEW i \in DOMAIN s, ~call.goOn, (IF IsSet(chosen) THEN s[i] ELSE i) <= pos + 1
       PROVE  (IF IsSet(chosen) THEN s[i] ELSE i) = pos + 1
  <2>1. s[i] >= 1 /\ i >= 1 /\ s[i] \in Nat /\ i \in Nat
    BY <1>5
  <2> QED
    BY <1>9, <1>10, <2>1
<1>11. CASE Merges
  <2>1. PICK p \in Seq(Row), q \in Seq(Row) : p = rv.rows /\ q = call.rows
    BY <1>3
  <2>2. PICK m : m = p \o Fresh(p, q)
    OBVIOUS
  <2>3. v.rows = m
    BY <1>1, <1>2, <1>11, <2>1, <2>2, ValueIs
  <2>4. MergeOf(m, p, q)
    BY <2>2, MergedIs
  <2>5. \A i \in DOMAIN m : RowFits(m[i], s)
    BY <1>6, <1>8, <1>11, <2>1, <2>4 DEF MergeOf, Merges
  <2>6. \A a : HasRow(p, a) \/ HasRow(q, a) => HasRow(m, a)
    BY <2>4 DEF MergeOf, HasRow
  <2>7. ASSUME NEW i \in DOMAIN s, Passed(s, i)', Matches(cursor'.word, s[i]) PROVE HasRow(m, At(s, i))
    <3>1. s[i] \in Nat /\ i \in Nat
      BY <1>5
    <3>2. (IF IsSet(chosen) THEN s[i] ELSE i) <= pos \/ (IF IsSet(chosen) THEN s[i] ELSE i) = pos + 1
      BY <1>4, <1>7, <2>7, <3>1
    <3> QED
      BY <1>1, <1>6, <1>8, <1>11, <2>1, <2>6, <2>7, <3>2 DEF Merges
  <2> QED
    BY <1>2, <2>3, <2>5, <2>7
<1>12. ~Merges => ~call.goOn
  BY <1>1, <1>3 DEF SteadyInv, ValueIsOf, Merges
<1>13. CASE ~Merges /\ load.first
  <2>1. v.rows = call.rows
    BY <1>1, <1>2, <1>13, ValueIs
  <2> QED
    BY <1>1, <1>2, <1>6, <1>7, <1>10, <1>12, <1>13, <2>1
<1>14. CASE ~Merges /\ ~load.first
  <2>1. v = rv
    BY <1>1, <1>2, <1>14, ValueIs
  <2>2. IsSet(chosen) /\ call.word = "even"
    BY <1>1, <1>12, <1>14 DEF SteadyInv, WordsFit
  <2>3. \A i \in DOMAIN rv.rows : RowFits(rv.rows[i], s)
    <3>1. Begun /\ rv.key = chosen
      BY <1>1, <1>14 DEF SteadyInv, ValueIsOf, Begun
    <3>2. Left = rv.rows
      BY <1>1, NothingGoing DEF Loading, Left
    <3> QED
      BY <1>3, <3>1, <3>2 DEF SteadyInv, RowsFit
  <2>4. ASSUME NEW i \in DOMAIN s, Passed(s, i)', Matches(cursor'.word, s[i]) PROVE FALSE
    <3>1. s[i] = 1
      BY <1>7, <1>9, <1>10, <1>12, <1>14, <2>2, <2>4
    <3>2. Matches("even", 1)
      BY <1>1, <2>2, <2>4, <3>1
    <3> QED
      BY <3>2 DEF Matches
  <2> QED
    BY <1>2, <2>1, <2>3, <2>4
<1> QED
  BY <1>11, <1>13, <1>14

LEMMA TakenUpSteady == ASSUME ViewTyped, Current, SteadyInv, TakenUp PROVE SteadyInv'
<1>1. /\ rv' = Value /\ call.st = "page" /\ load.at = "call"
      /\ cursor'.done = call.done /\ cursor'.word = call.word
      /\ UNCHANGED <<server, chosen, match, waits, del, calm>>
      /\ \/ load'.at = "end" /\ call' = NoCall /\ more' = ~call.done
         \/ /\ load'.at = "call" /\ ~load'.first /\ AskedFor(call', TRUE, cursor', rv')
            /\ ~call.done /\ (load.all \/ call.rows = <<>>)
  BY DEF TakenUp
<1>2. Steady' = Steady /\ Leaving' = Leaving
  BY <1>1 DEF Steady, Waiting, Leaving
<1>3. ASSUME Steady PROVE call.key = chosen /\ (del.st = "no" \/ del.what # "row")
  BY <1>1, <1>3, NothingGoing DEF Current, Steady, Loading
<1>4. ASSUME Steady PROVE rv'.key = chosen
  <2>1. PICK v : v = Value /\ rv' = v
    BY <1>1
  <2>2. CASE Merges
    BY <1>1, <1>4, <2>1, <2>2, ValueIs DEF SteadyInv, ValueIsOf, Merges
  <2>3. CASE ~Merges /\ load.first
    BY <1>1, <1>3, <1>4, <2>1, <2>3, ValueIs
  <2>4. CASE ~Merges /\ ~load.first
    BY <1>1, <1>4, <2>1, <2>4, ValueIs DEF SteadyInv, ValueIsOf
  <2> QED
    BY <2>2, <2>3, <2>4
<1>5. ValueIsOf'
  BY <1>1, <1>2, <1>4 DEF ValueIsOf
<1>6. call'.st \in {"no", "asked"}
  BY <1>1, NoCallIs DEF AskedFor
<1>7. WordsFit'
  <2> SUFFICES ASSUME Steady, call'.st # "no" PROVE WordsFit'
    BY <1>2 DEF WordsFit
  <2>1. /\ load'.at = "call" /\ AskedFor(call', TRUE, cursor', rv') /\ ~call.done
        /\ (load.all \/ call.rows = <<>>)
    BY <1>1, NoCallIs
  <2>2. chosen # None /\ chosen' = chosen /\ match' = match
    BY <1>1 DEF Steady
  <2>3. call'.word = IF IsSet(chosen) THEN match ELSE "all"
    BY <1>4, <2>1, <2>2 DEF AskedFor
  <2>4. call'.goOn = (call'.word = call.word)
    BY <1>1, <2>1 DEF AskedFor
  <2>5. ASSUME ~IsSet(chosen) PROVE load.all
    <3>1. call.key = chosen
      BY <1>3
    <3>2. call.rows = <<>> => call.done
      BY <1>1, <2>5, <3>1 DEF SteadyInv, PageEnds
    <3> QED
      BY <2>1, <3>2
  <2>6. ASSUME ~IsSet(chosen) PROVE call.word = "all"
    <3>1. load.goOn
      BY <1>1, <2>5, <2>6 DEF ViewTyped, LoadIs, Loading
    <3> QED
      BY <1>1, <2>6, <3>1 DEF SteadyInv, WordsFit
  <2>7. call.word \in {"all", match}
    BY <1>1 DEF SteadyInv, WordsFit
  <2>8. match \in {"all", "even"}
    BY ViewNow DEF Words
  <2>9. ~call'.goOn => IsSet(chosen) /\ call'.word = "even"
    BY <2>3, <2>4, <2>6, <2>7, <2>8
  <2> QED
    BY <2>2, <2>3, <2>9 DEF WordsFit
<1>8. RowGoing'
  BY <1>1, <1>2, <1>3 DEF RowGoing
<1>9. PageFits' /\ PageEnds'
  BY <1>6 DEF PageFits, PageEnds
<1>10. RowsFit'
  <2> SUFFICES ASSUME Steady, ~Leaving PROVE RowsFit'
    BY <1>2 DEF RowsFit
  <2>1. PICK s : s = server[chosen]
    OBVIOUS
  <2>2. /\ \A i \in DOMAIN rv'.rows : RowFits(rv'.rows[i], s)
        /\ \A i \in DOMAIN s : Passed(s, i)' /\ Matches(cursor'.word, s[i]) => HasRow(rv'.rows, At(s, i))
    BY <1>3, <2>1, TakenUpRows
  <2>3. Left' = rv'.rows /\ server' = server /\ chosen' = chosen
    BY <1>1, <1>3 DEF Left
  <2>4. load'.at \in {"no", "end"} /\ ~more' => cursor'.done
    BY <1>1
  <2> QED
    BY <2>1, <2>2, <2>3, <2>4 DEF RowsFit, RowFits, Passed, At
<1> QED
  BY <1>5, <1>7, <1>8, <1>9, <1>10 DEF SteadyInv

LEMMA FailedSteady == ASSUME ViewTyped, SteadyInv, FailedPage PROVE SteadyInv'
<1>1. /\ load.at = "call" /\ load'.at = "end" /\ call' = NoCall
      /\ UNCHANGED <<chosen, waits, del>>
  BY DEF FailedPage
<1>2. CASE rv' = NoValue /\ calm' = calm
  <2>1. rv'.key = None
    BY <1>2 DEF NoValue
  <2>2. Steady' = Steady
    BY <1>1, <1>2 DEF Steady, Waiting
  <2>3. ASSUME Steady PROVE del.st = "no" \/ del.what # "row"
    BY <1>1, <2>3, NothingGoing DEF Loading
  <2> QED
    BY <1>1, <2>1, <2>2, <2>3, NoCallIs
       DEF SteadyInv, ValueIsOf, WordsFit, RowGoing, PageFits, PageEnds, RowsFit
<1>3. CASE calm' = [calm EXCEPT !.ok = FALSE]
  <2>1. calm'.ok = FALSE
    BY <1>3 DEF ViewTyped, TypeOK
  <2>2. ~Steady'
    BY <2>1 DEF Steady
  <2> QED
    BY <1>1, <2>2, NoCallIs
       DEF SteadyInv, ValueIsOf, WordsFit, RowGoing, PageFits, PageEnds, RowsFit
<1> QED
  BY <1>2, <1>3 DEF FailedPage

LEMMA EndedSteady == ASSUME ViewTyped, SteadyInv, Ended PROVE SteadyInv'
<1>1. /\ load.at = "end" /\ load'.at = "no" /\ call.st = "no"
      /\ UNCHANGED <<server, chosen, match, rv, more, cursor, call, waits, del, calm>>
  BY NoLoadNoCall DEF Ended
<1>2. Steady' = Steady /\ Leaving' = Leaving /\ Left' = Left
  BY <1>1 DEF Steady, Waiting, Leaving, Left, Dropped
<1>3. ASSUME Steady PROVE del.st = "no" \/ del.what # "row"
  BY <1>1, <1>3, NothingGoing DEF Loading
<1>4. ValueIsOf' /\ WordsFit' /\ RowGoing' /\ PageFits' /\ PageEnds'
  BY <1>1, <1>2, <1>3 DEF SteadyInv, ValueIsOf, WordsFit, RowGoing, PageFits, PageEnds, Begun
<1>5. RowsFit'
  BY <1>1, <1>2 DEF SteadyInv, RowsFit, RowFits, Passed, At, Begun
<1> QED
  BY <1>4, <1>5 DEF SteadyInv

LEMMA PausedSteady == ASSUME SteadyInv, Paused \/ UNCHANGED vars PROVE SteadyInv'
<1>1. UNCHANGED <<server, chosen, match, rv, more, cursor, load, call, waits, del, calm>>
  BY DEF Paused, vars
<1>2. Steady' = Steady /\ Leaving' = Leaving /\ Left' = Left
  BY <1>1 DEF Steady, Waiting, Leaving, Left, Dropped
<1>3. RowGoing'
  BY <1>1, <1>2 DEF SteadyInv, RowGoing, Loading
<1> QED
  BY <1>1, <1>2, <1>3, UnmovedStays DEF Unmoved

LEMMA TypedSteady == ASSUME ViewTyped, SteadyInv, Typed PROVE SteadyInv'
<1>1. /\ calm' = [calm EXCEPT !.apart = @ /\ ~Loading]
      /\ UNCHANGED <<server, chosen, rv, more, cursor, load, call, waits, del>>
  BY DEF Typed
<1>2. PICK b \in BOOLEAN : b = (calm.apart /\ ~Loading)
  OBVIOUS
<1>3. calm' = [ok |-> calm.ok, same |-> calm.same, apart |-> b]
  <2>1. calm' = [calm EXCEPT !.apart = b]
    BY <1>1, <1>2
  <2> QED
    BY <2>1, CalmIs
<1>4. ASSUME Steady' PROVE Steady /\ ~Loading
  <2>1. calm.ok /\ calm.same /\ b
    BY <1>3, <1>4 DEF Steady
  <2>2. calm = [ok |-> TRUE, same |-> TRUE, apart |-> TRUE]
    BY <1>2, <2>1, CalmIs
  <2> QED
    BY <1>1, <1>2, <1>4, <2>1, <2>2 DEF Steady, Waiting
<1>5. Leaving' = Leaving /\ Left' = Left
  BY <1>1 DEF Leaving, Left, Dropped
<1>6. RowGoing'
  BY <1>1, <1>4 DEF SteadyInv, RowGoing, Loading
<1>7. CASE Steady'
  <2>1. call.st = "no"
    BY <1>4, <1>7, NoLoadNoCall DEF Loading
  <2> QED
    BY <1>1, <1>4, <1>5, <1>6, <2>1, UnmovedStays DEF Unmoved
<1>8. CASE ~Steady'
  BY <1>1, <1>8 DEF SteadyInv, ValueIsOf, WordsFit, RowGoing, PageFits, PageEnds, RowsFit
<1> QED
  BY <1>7, <1>8

LEMMA DeleteRowSteady ==
  ASSUME ViewTyped, SteadyInv, NEW i \in DOMAIN rv.rows, RowDeletionBegins(rv.rows[i])
  PROVE  SteadyInv'
<1>1. /\ Visible /\ del.st = "no" /\ del'.st = "asked" /\ del'.what = "row"
      /\ del'.key = chosen /\ del'.row = rv.rows[i]
      /\ calm' = [calm EXCEPT !.apart = @ /\ ~Loading /\ (cursor.done \/ IsSet(chosen))]
      /\ UNCHANGED <<server, chosen, match, rv, more, cursor, load, call, waits>>
  BY DEF RowDeletionBegins
<1>2. PICK b \in BOOLEAN : b = (calm.apart /\ ~Loading /\ (cursor.done \/ IsSet(chosen)))
  OBVIOUS
<1>3. calm' = [ok |-> calm.ok, same |-> calm.same, apart |-> b]
  <2>1. calm' = [calm EXCEPT !.apart = b]
    BY <1>1, <1>2
  <2> QED
    BY <2>1, CalmIs
<1>4. ASSUME Steady' PROVE Steady /\ ~Loading /\ (cursor.done \/ IsSet(chosen))
  <2>1. calm.ok /\ calm.same /\ b
    BY <1>3, <1>4 DEF Steady
  <2>2. calm = [ok |-> TRUE, same |-> TRUE, apart |-> TRUE]
    BY <1>2, <2>1, CalmIs
  <2> QED
    BY <1>1, <1>2, <1>4, <2>1, <2>2 DEF Steady, Waiting
<1>5. ~Leaving /\ ~Leaving' /\ Left' = rv.rows /\ Left = rv.rows
  BY <1>1 DEF Leaving, Left
<1>6. RowGoing'
  <2> SUFFICES ASSUME Steady' PROVE RowGoing'
    BY DEF RowGoing
  <2>1. rv.key = chosen
    BY <1>1, <1>4 DEF Visible, SteadyInv, ValueIsOf, Begun, Loading
  <2> QED
    BY <1>1, <1>4, <2>1 DEF RowGoing, Loading
<1> QED
  BY <1>1, <1>4, <1>5, <1>6, UnmovedStays DEF Unmoved

\* Other steps of a deletion, and of other clients.
LEMMA CalmStays ==
  ASSUME SteadyInv, UNCHANGED <<chosen, match, rv, more, cursor, load, call>>, RowGoing',
         Steady' => Steady /\ server'[chosen] = server[chosen] /\ Left' = Left /\ ~Leaving
  PROVE  SteadyInv'
BY UnmovedStays DEF Unmoved

LEMMA DeleteKeySteady == ASSUME SteadyInv, KeyDeletionBegins PROVE SteadyInv'
<1>1. /\ del.st = "no" /\ del'.st = "asked" /\ del'.what = "key"
      /\ UNCHANGED <<server, chosen, match, rv, more, cursor, load, call, waits, calm>>
  BY DEF KeyDeletionBegins
<1>2. Steady' = Steady /\ ~Leaving /\ Left' = rv.rows /\ Left = rv.rows
  BY <1>1 DEF Steady, Waiting, Leaving, Left
<1>3. RowGoing'
  BY <1>1 DEF RowGoing
<1> QED
  BY <1>1, <1>2, <1>3, CalmStays

LEMMA DeletionFailsSteady == ASSUME SteadyInv, DeletionFails PROVE SteadyInv'
<1>1. /\ del.st = "failed" /\ del'.st = "no"
      /\ UNCHANGED <<server, chosen, match, rv, more, cursor, load, call, waits, calm>>
  BY NoDelIs DEF DeletionFails
<1>2. Steady' = Steady /\ ~Leaving /\ Left' = rv.rows /\ Left = rv.rows
  BY <1>1 DEF Steady, Waiting, Leaving, Left
<1>3. RowGoing'
  BY <1>1 DEF RowGoing
<1> QED
  BY <1>1, <1>2, <1>3, CalmStays

LEMMA OthersSteady == ASSUME ViewTyped, SteadyInv, OthersStep PROVE SteadyInv'
<1>1. /\ chosen \in Keys /\ server'[chosen] # server[chosen] => ~calm'.same
      /\ calm'.ok = calm.ok /\ calm'.apart = calm.apart /\ (calm'.same => calm.same)
      /\ UNCHANGED <<chosen, match, rv, more, cursor, load, call, waits, del>>
  BY DEF OthersStep
<1>2. ASSUME Steady' PROVE Steady /\ server'[chosen] = server[chosen]
  <2>1. calm.ok /\ calm.same /\ calm.apart /\ calm'.same
    BY <1>1, <1>2 DEF Steady
  <2>2. calm = [ok |-> TRUE, same |-> TRUE, apart |-> TRUE]
    BY <2>1, CalmIs
  <2>3. Steady
    BY <1>1, <1>2, <2>2 DEF Steady, Waiting
  <2> QED
    BY <1>1, <2>1, <2>3, ViewNow DEF Steady, Maybe
<1>3. Leaving' = Leaving /\ Left' = Left
  BY <1>1 DEF Leaving, Left, Dropped
<1>4. RowGoing'
  BY <1>1, <1>2 DEF SteadyInv, RowGoing, Loading
<1> QED
  BY <1>1, <1>2, <1>3, <1>4, UnmovedStays DEF Unmoved

LEMMA DeletionEndsSteady == ASSUME ViewTyped, SteadyInv, DeletionEnds PROVE SteadyInv'
<1>1. /\ del.st = "done" /\ del'.st = "no"
      /\ UNCHANGED <<server, match, more, cursor, load, call, waits, calm>>
  BY NoDelIs DEF DeletionEnds
<1>2. CASE del.what = "key" /\ rv' = NoValue /\ chosen' = None
  <2>1. ~Steady'
    BY <1>2 DEF Steady
  <2> QED
    BY <1>1, <2>1 DEF SteadyInv, ValueIsOf, WordsFit, RowGoing, PageFits, PageEnds, RowsFit
<1>3. CASE del.what = "row" /\ rv' = [rv EXCEPT !.rows = Dropped(rv.rows, del.row)] /\ UNCHANGED chosen
  <2>1. PICK d : d = Dropped(rv.rows, del.row)
    OBVIOUS
  <2>2. rv'.key = rv.key /\ rv'.rows = d
    BY <1>3, <2>1, ViewNow
  <2>3. Left = d /\ Left' = d /\ ~Leaving /\ ~Leaving'
    BY <1>1, <1>3, <2>1, <2>2 DEF Left, Leaving
  <2>4. Steady' = Steady /\ chosen' = chosen
    BY <1>1, <1>3 DEF Steady, Waiting
  <2>5. ValueIsOf' /\ WordsFit' /\ RowGoing' /\ PageEnds'
    BY <1>1, <2>2, <2>4 DEF SteadyInv, ValueIsOf, WordsFit, RowGoing, PageEnds, Begun
  <2>6. PageFits'
    BY <1>1, <2>3, <2>4 DEF SteadyInv, PageFits, RowFits
  <2>7. RowsFit'
    BY <1>1, <2>2, <2>3, <2>4 DEF SteadyInv, RowsFit, RowFits, Passed, At, Begun
  <2> QED
    BY <2>5, <2>6, <2>7 DEF SteadyInv
<1> QED
  BY <1>2, <1>3 DEF DeletionEnds

\* The row of a field is gone, and the field.
LEMMA FieldGone ==
  ASSUME ViewTyped, NEW s \in Seq(Fields), NEW t, RowServed(s, t), del.key = chosen, rv.key = chosen,
         IsSet(chosen), del.row \in Row, RowFits(del.row, s), NEW d, d = Dropped(rv.rows, del.row),
         \A i \in DOMAIN rv.rows : RowFits(rv.rows[i], s),
         \A i \in DOMAIN s : Passed(s, i) /\ Matches(cursor.word, s[i]) => HasRow(rv.rows, At(s, i))
  PROVE  /\ \A j \in DOMAIN d : RowFits(d[j], t)
         /\ \A i \in DOMAIN t : Passed(t, i) /\ Matches(cursor.word, t[i]) => HasRow(d, At(t, i))
<1>1. PICK g : DroppedBy(d, rv.rows, del.row, g, FALSE)
  <2>1. PICK g : \E shift \in BOOLEAN : DroppedBy(d, rv.rows, del.row, g, shift) /\ ~shift
    BY DroppedIs, ViewNow
  <2>2. PICK shift \in BOOLEAN : DroppedBy(d, rv.rows, del.row, g, shift) /\ ~shift
    BY <2>1
  <2>3. shift = FALSE
    BY <2>2
  <2> QED
    BY <2>2, <2>3
<1>2. del.row.at = del.row.field
  BY DEF RowFits
<1>3. /\ \A i \in DOMAIN s : s[i] # del.row.field => \E j \in DOMAIN t : t[j] = s[i]
      /\ \A j \in DOMAIN t : t[j] # del.row.field /\ \E i \in DOMAIN s : t[j] = s[i]
  BY DEF RowServed
<1>4. /\ g \in [DOMAIN d -> DOMAIN rv.rows]
      /\ \A j \in DOMAIN d : rv.rows[g[j]].at # del.row.at /\ d[j] = rv.rows[g[j]]
      /\ \A i \in DOMAIN rv.rows : rv.rows[i].at # del.row.at => \E j \in DOMAIN d : g[j] = i
  BY <1>1 DEF DroppedBy
<1>5. ASSUME NEW j \in DOMAIN d PROVE RowFits(d[j], t)
  <2>1. g[j] \in DOMAIN rv.rows /\ d[j] = rv.rows[g[j]] /\ d[j].at # del.row.at
    BY <1>4
  <2>2. d[j].at = d[j].field /\ \E i \in DOMAIN s : s[i] = d[j].field
    BY <2>1 DEF RowFits
  <2> QED
    BY <1>2, <1>3, <2>1, <2>2 DEF RowFits
<1>6. ASSUME NEW i \in DOMAIN t, Passed(t, i), Matches(cursor.word, t[i]) PROVE HasRow(d, At(t, i))
  <2>1. PICK h \in DOMAIN s : t[i] = s[h] /\ t[i] # del.row.field
    BY <1>3
  <2>2. Passed(s, h) /\ Matches(cursor.word, s[h]) /\ At(s, h) = t[i] /\ At(t, i) = t[i]
    BY <1>6, <2>1 DEF Passed, At
  <2>3. PICK k \in DOMAIN rv.rows : rv.rows[k].at = t[i]
    BY <2>2 DEF HasRow
  <2>4. PICK j \in DOMAIN d : g[j] = k
    BY <1>2, <1>4, <2>1, <2>3
  <2> QED
    BY <1>4, <2>2, <2>3, <2>4 DEF HasRow
<1> QED
  BY <1>5, <1>6

\* The element of a list that is shown whole is gone, and those after it have moved up on both
\* sides.
LEMMA ElementGone ==
  ASSUME ViewTyped, NEW s \in Seq(Fields), NEW t, RowServed(s, t), del.key = chosen, rv.key = chosen,
         ~IsSet(chosen), del.row \in Row, del.row.of = chosen, cursor.done,
         NEW c \in DOMAIN rv.rows, rv.rows[c] = del.row, NEW d, d = Dropped(rv.rows, del.row),
         \A i \in DOMAIN rv.rows : RowFits(rv.rows[i], s),
         \A i \in DOMAIN s : Passed(s, i) /\ Matches(cursor.word, s[i]) => HasRow(rv.rows, At(s, i))
  PROVE  /\ \A j \in DOMAIN d : RowFits(d[j], t)
         /\ \A i \in DOMAIN t : Passed(t, i) /\ Matches(cursor.word, t[i]) => HasRow(d, At(t, i))
<1>1. PICK g : DroppedBy(d, rv.rows, del.row, g, TRUE)
  <2>1. PICK g : \E shift \in BOOLEAN : DroppedBy(d, rv.rows, del.row, g, shift) /\ shift
    <3>1. ~IsSet(rv.key) /\ \E i \in DOMAIN rv.rows : rv.rows[i].at = del.row.at
      OBVIOUS
    <3>2. rv.rows \in Seq(Row) /\ del.row \in Row \cup {NoRow}
      BY ViewNow
    <3> QED
      BY <3>1, <3>2, DroppedIs
  <2>2. PICK shift \in BOOLEAN : DroppedBy(d, rv.rows, del.row, g, shift) /\ shift
    BY <2>1
  <2>3. shift = TRUE
    BY <2>2
  <2> QED
    BY <2>2, <2>3
<1>2. PICK h \in 1..Len(s) :
        /\ h = del.row.at + 1 /\ Len(t) = Len(s) - 1
        /\ \A j \in 1..Len(t) : t[j] = IF j < h THEN s[j] ELSE s[j + 1]
  BY DEF RowServed
<1>3. PICK n \in Nat, a \in Nat : n = Len(s) /\ a = del.row.at
  BY Basics DEF Row
<1>4. /\ t \in Seq(Fields) /\ DOMAIN t = 1..n - 1 /\ DOMAIN s = 1..n /\ h = a + 1 /\ a + 1 <= n
      /\ \A j \in 1..n - 1 : t[j] = IF j < a + 1 THEN s[j] ELSE s[j + 1]
  <2>1. t \in Seq(Fields)
    BY DEF RowServed
  <2>2. Len(t) = n - 1 /\ DOMAIN t = 1..n - 1 /\ DOMAIN s = 1..n
    BY <1>2, <1>3, <2>1
  <2> QED
    BY <1>2, <1>3, <2>1, <2>2
<1>5. /\ g \in [DOMAIN d -> DOMAIN rv.rows]
      /\ \A j \in DOMAIN d : rv.rows[g[j]].at # del.row.at /\ d[j] = Moved(rv.rows[g[j]], del.row)
      /\ \A i \in DOMAIN rv.rows : rv.rows[i].at # del.row.at => \E j \in DOMAIN d : g[j] = i
  BY <1>1 DEF DroppedBy
<1>6. ASSUME NEW j \in DOMAIN d
      PROVE  d[j].field = rv.rows[g[j]].field
             /\ d[j].at = IF rv.rows[g[j]].at > a THEN rv.rows[g[j]].at - 1 ELSE rv.rows[g[j]].at
  <2>1. PICK r \in Row : r = rv.rows[g[j]] /\ d[j] = Moved(r, del.row)
    BY <1>5, ViewNow
  <2> QED
    BY <1>3, <2>1, MovedIs
<1>7. ASSUME NEW j \in DOMAIN d PROVE RowFits(d[j], t)
  <2>1. PICK b \in Nat : b = rv.rows[g[j]].at
    <3>1. rv.rows[g[j]] \in Row
      BY <1>5, ViewNow
    <3> QED
      BY <3>1, Basics DEF Row
  <2>2. b # a /\ b + 1 \in 1..n /\ s[b + 1] = d[j].field
    BY <1>3, <1>4, <1>5, <1>6, <2>1 DEF RowFits
  <2>3. CASE b > a
    <3>1. d[j].at = b - 1 /\ b - 1 + 1 = b /\ b \in 1..n - 1 /\ ~(b < a + 1)
      <4>1. d[j].at = b - 1
        BY <1>6, <2>1, <2>3
      <4>2. b - 1 + 1 = b /\ b \in 1..n - 1 /\ ~(b < a + 1)
        BY <1>3, <2>2, <2>3
      <4> QED
        BY <4>1, <4>2
    <3>2. t[b] = s[b + 1]
      BY <1>4, <3>1
    <3> QED
      BY <1>4, <2>2, <3>1, <3>2 DEF RowFits
  <2>4. CASE b < a
    <3>1. d[j].at = b /\ b + 1 \in 1..n - 1 /\ b + 1 < a + 1
      BY <1>4, <1>6, <2>1, <2>2, <2>4
    <3>2. t[b + 1] = s[b + 1]
      BY <1>4, <3>1
    <3> QED
      BY <1>4, <2>2, <3>1, <3>2 DEF RowFits
  <2> QED
    BY <2>2, <2>3, <2>4
<1>8. ASSUME NEW i \in DOMAIN t, Matches(cursor.word, t[i]) PROVE HasRow(d, At(t, i))
  <2>1. PICK k \in Nat : k = i /\ k \in 1..n - 1
    BY <1>4
  <2>2. At(t, i) = k - 1
    BY <2>1 DEF At
  <2>3. ASSUME NEW m \in 1..n, Matches(cursor.word, s[m]) PROVE HasRow(rv.rows, m - 1)
    BY <1>4, <2>3 DEF Passed, At
  <2>4. CASE k < a + 1
    <3>1. t[i] = s[k] /\ k \in 1..n
      BY <1>4, <2>1, <2>4
    <3>2. PICK q \in DOMAIN rv.rows : rv.rows[q].at = k - 1
      BY <1>8, <2>3, <3>1 DEF HasRow
    <3>3. PICK j \in DOMAIN d : g[j] = q
      BY <1>3, <1>5, <2>1, <2>4, <3>2
    <3>4. d[j].at = k - 1
      BY <1>3, <1>6, <2>1, <2>4, <3>2, <3>3
    <3> QED
      BY <2>2, <3>4 DEF HasRow
  <2>5. CASE ~(k < a + 1)
    <3>1. t[i] = s[k + 1] /\ k + 1 \in 1..n
      BY <1>4, <2>1, <2>5
    <3>2. PICK q \in DOMAIN rv.rows : rv.rows[q].at = k
      BY <1>8, <2>3, <3>1 DEF HasRow
    <3>3. PICK j \in DOMAIN d : g[j] = q
      BY <1>3, <1>5, <2>1, <2>5, <3>2
    <3>4. d[j].at = k - 1
      BY <1>3, <1>6, <2>1, <2>5, <3>2, <3>3
    <3> QED
      BY <2>2, <3>4 DEF HasRow
  <2> QED
    BY <2>4, <2>5
<1> QED
  BY <1>7, <1>8

LEMMA ServedSteady == ASSUME ShowsInv, SteadyInv, DeletionServed PROVE SteadyInv'
<1>1. /\ del.st = "asked" /\ del'.what = del.what /\ del'.key = del.key /\ del'.row = del.row
      /\ UNCHANGED <<chosen, match, rv, more, cursor, load, call, waits, calm>>
  BY DEF DeletionServed
<1>2. Steady' = Steady /\ ~Leaving /\ Left = rv.rows
  BY <1>1 DEF Steady, Waiting, Leaving, Left
<1>3. RowGoing' /\ ValueIsOf' /\ WordsFit' /\ PageEnds'
  <2>1. RowGoing'
    BY <1>1, <1>2 DEF SteadyInv, RowGoing, Loading
  <2>2. ValueIsOf'
    BY <1>1, <1>2 DEF SteadyInv, ValueIsOf, Begun
  <2>3. WordsFit'
    BY <1>1, <1>2 DEF SteadyInv, WordsFit
  <2>4. PageEnds'
    BY <1>1 DEF SteadyInv, PageEnds
  <2> QED
    BY <2>1, <2>2, <2>3, <2>4
<1>4. CASE del'.st = "failed" /\ UNCHANGED server
  <2>1. Left' = rv.rows
    BY <1>1, <1>4 DEF Left
  <2> QED
    BY <1>1, <1>2, <1>3, <1>4, <2>1, CalmStays
<1>5. CASE del'.st = "done" /\ del.what = "key" /\ server' = [server EXCEPT ![del.key] = <<>>]
  <2>1. CASE del.key = chosen
    <3>1. Leaving'
      BY <1>1, <1>5, <2>1 DEF Leaving
    <3> QED
      BY <1>3, <3>1 DEF SteadyInv, PageFits, RowsFit
  <2>2. CASE del.key # chosen
    <3>1. Left' = rv.rows
      BY <1>1, <1>5 DEF Left
    <3>2. Steady => server'[chosen] = server[chosen]
      BY <1>5, <2>2, Basics, ViewNow DEF Steady, Maybe, ShowsInv
    <3> QED
      BY <1>1, <1>2, <1>3, <3>1, <3>2, CalmStays
  <2> QED
    BY <2>1, <2>2
<1>6. CASE /\ del'.st = "done" /\ del.what = "row"
           /\ server' = [server EXCEPT ![del.key] = Without(@, del.key, del.row)]
           /\ del.key \in Keys => RowServed(server[del.key], Without(server[del.key], del.key, del.row))
  <2> SUFFICES ASSUME Steady PROVE PageFits' /\ RowsFit'
    BY <1>2, <1>3 DEF SteadyInv, PageFits, RowsFit
  <2>1. /\ del.key = chosen /\ rv.key = chosen /\ ~Loading /\ (IsSet(chosen) \/ cursor.done)
        /\ \E i \in DOMAIN rv.rows : rv.rows[i] = del.row
    BY <1>1, <1>6 DEF SteadyInv, RowGoing
  <2>2. PICK c \in DOMAIN rv.rows : rv.rows[c] = del.row
    BY <2>1
  <2>3. chosen \in Keys /\ chosen # None /\ Begun /\ call.st = "no"
    BY <2>1, Basics, ViewNow, NoLoadNoCall DEF Steady, Maybe, ShowsInv, Begun, Loading
  <2>4. del.row \in Row /\ del.row.of = chosen
    BY <2>2, <2>3, ViewNow DEF ShowsInv, Current, Steady
  <2>5. PICK s \in Seq(Fields) : s = server[chosen]
    BY <2>3, ViewNow DEF ShowsInv
  <2>6. PICK t : t = Without(s, chosen, del.row)
    OBVIOUS
  <2>7. server'[chosen] = t /\ RowServed(s, t)
    BY <1>6, <2>1, <2>3, <2>5, <2>6, ViewNow DEF ShowsInv
  <2>8. PICK d : d = Dropped(rv.rows, del.row)
    OBVIOUS
  <2>9. /\ \A i \in DOMAIN rv.rows : RowFits(rv.rows[i], s)
        /\ \A i \in DOMAIN s : Passed(s, i) /\ Matches(cursor.word, s[i]) => HasRow(rv.rows, At(s, i))
        /\ load.at \in {"no", "end"} /\ ~more => cursor.done
    BY <1>2, <2>1, <2>3, <2>5 DEF SteadyInv, RowsFit
  <2>10. /\ \A j \in DOMAIN d : RowFits(d[j], t)
        /\ \A i \in DOMAIN t : Passed(t, i) /\ Matches(cursor.word, t[i]) => HasRow(d, At(t, i))
    <3>1. CASE IsSet(chosen)
      <4>1. RowFits(del.row, s)
        BY <2>2, <2>9
      <4> QED
        BY <2>1, <2>4, <2>7, <2>8, <2>9, <3>1, <4>1, FieldGone DEF ShowsInv
    <3>2. CASE ~IsSet(chosen)
      BY <2>1, <2>2, <2>4, <2>7, <2>8, <2>9, <3>2, ElementGone DEF ShowsInv
    <3> QED
      BY <3>1, <3>2
  <2>11. Left' = d
    BY <1>1, <1>6, <2>8 DEF Left, Dropped
  <2>12. PageFits'
    BY <1>1, <2>3 DEF PageFits
  <2>13. RowsFit'
    BY <1>1, <2>7, <2>9, <2>10, <2>11 DEF RowsFit, RowFits, Passed, At
  <2> QED
    BY <2>12, <2>13
<1> QED
  BY <1>4, <1>5, <1>6 DEF DeletionServed

LEMMA SteadyStep == ASSUME ShowsInv, SteadyInv, OneStep PROVE SteadyInv'
<1>1. ViewTyped /\ Current
  BY DEF ShowsInv
<1>2. CASE \E i \in DOMAIN rv.rows : RowDeletionBegins(rv.rows[i])
  BY <1>1, <1>2, DeleteRowSteady
<1> QED
  BY <1>1, <1>2, BeganSteady, InterruptedSteady, LearnedSteady, AnswersSteady, TakenUpSteady,
     FailedSteady, EndedSteady, PausedSteady, TypedSteady, DeleteKeySteady, ServedSteady,
     DeletionEndsSteady, DeletionFailsSteady, OthersSteady DEF OneStep

LEMMA SteadyStarts == ASSUME Init PROVE SteadyInv
<1>1. chosen = None /\ call.st = "no"
  BY NoCallIs DEF Init
<1> QED
  BY <1>1 DEF SteadyInv, ValueIsOf, WordsFit, RowGoing, PageFits, PageEnds, RowsFit, Steady

LEMMA SteadyHolds == ASSUME ShowsInv, SteadyInv PROVE CompleteWhenSteady
<1> SUFFICES ASSUME Idle, Visible, calm = [ok |-> TRUE, same |-> TRUE, apart |-> TRUE]
             PROVE  CompleteWhenSteady
  BY DEF CompleteWhenSteady
<1>1. Steady /\ Begun /\ del.st = "no" /\ load.at = "no" /\ rv.key # None /\ rv.rows \in Seq(Row)
  BY ViewNow DEF Idle, Visible, Steady, Waiting, Begun, Loading, ShowsInv
<1>2. PICK s : s = server[chosen]
  OBVIOUS
<1>3. /\ \A i \in DOMAIN rv.rows : RowFits(rv.rows[i], s)
      /\ \A i \in DOMAIN s : Passed(s, i) /\ Matches(cursor.word, s[i]) => HasRow(rv.rows, At(s, i))
      /\ ~more => cursor.done
  BY <1>1, <1>2 DEF SteadyInv, RowsFit, Left, Leaving
<1>4. Range(rv.rows) = {rv.rows[i] : i \in DOMAIN rv.rows}
  BY DEF Range
<1>5. ASSUME NEW r \in Range(rv.rows) PROVE \E i \in DOMAIN s : r.field = s[i] /\ r.at = At(s, i)
  <2>1. PICK j \in DOMAIN rv.rows : r = rv.rows[j] /\ r \in Row /\ RowFits(r, s)
    BY <1>1, <1>3, <1>4
  <2>2. r.at \in Nat
    BY <2>1, Basics DEF Row
  <2>3. CASE IsSet(chosen)
    BY <2>1, <2>3 DEF RowFits, At
  <2>4. CASE ~IsSet(chosen)
    <3>1. r.at + 1 \in DOMAIN s /\ s[r.at + 1] = r.field
      BY <2>1, <2>4 DEF RowFits
    <3>2. At(s, r.at + 1) = r.at
      BY <2>2, <2>4 DEF At
    <3> QED
      BY <3>1, <3>2
  <2> QED
    BY <2>3, <2>4
<1>6. ASSUME ~more, NEW i \in DOMAIN s, Matches(cursor.word, s[i])
      PROVE  \E r \in Range(rv.rows) : r.at = At(s, i)
  <2>1. HasRow(rv.rows, At(s, i))
    BY <1>3, <1>6 DEF Passed
  <2> QED
    BY <1>4, <2>1 DEF HasRow
<1> QED
  BY <1>2, <1>5, <1>6 DEF CompleteWhenSteady, At

\* A value that offers no more rows and was not disturbed is the chosen key's: every row is on
\* the server where it says and every field that the search wants has its row, for any number of
\* fields, whatever SCAN repeats and whichever rows are deleted (refreshKey, fieldScan and
\* removeScannedFieldRow of RedisValue/index.vue).
THEOREM ValueIsComplete == Spec => []CompleteWhenSteady
<1>1. Init => ShowsInv /\ SteadyInv
  BY ShowsStarts, SteadyStarts
<1>2. ShowsInv /\ SteadyInv /\ [Next]_vars => (ShowsInv /\ SteadyInv)'
  <2> SUFFICES ASSUME ShowsInv, SteadyInv, [Next]_vars PROVE (ShowsInv /\ SteadyInv)'
    OBVIOUS
  <2>1. OneStep
    BY Steps DEF ShowsInv
  <2> QED
    BY <2>1, ShowsStep, SteadyStep
<1>3. ShowsInv /\ SteadyInv => CompleteWhenSteady
  BY SteadyHolds
<1> QED
  BY <1>1, <1>2, <1>3, PTL DEF Spec
=============================================================================
